--------------------------- MODULE PacketChannel ---------------------------
(***************************************************************************)
(* What a channel of x/ibc promises to the applications at its two ends,   *)
(* whatever happens to heights, proofs and relayers underneath: a packet   *)
(* is handed to the application at the other end at most once, its sender  *)
(* is told exactly one outcome, the outcome is the answer the other end    *)
(* really gave, and a packet reported as timed out is never handed over,   *)
(* before the report or after it.  An ORDERED channel also keeps both the  *)
(* deliveries and the acknowledgements in the order of the sequence.       *)
(*                                                                         *)
(* IBCPackets, the code of the channel keeper, implements this module;     *)
(* Transfer, the token transfer application, is built on top of it.        *)
(***************************************************************************)
EXTENDS Naturals

CONSTANTS
    End,           \* the channel ends packets are sent from
    MaxSequence    \* bound on the packets sent from one end

VARIABLES
    ordering,      \* ordering[e] \in {"ORDERED", "UNORDERED"}
    sent,          \* sent[e]: how many packets e has sent
    delivered,     \* delivered[e][n]: how the other end answered packet n of e
    settled        \* settled[e][n]: the outcome the sender of packet n was told

Sequence == 1..MaxSequence

\* The two kinds of acknowledgement an application returns.
Ack == {"result", "error"}

channelVars == <<ordering, sent, delivered, settled>>

ChannelTypeOK ==
    /\ ordering \in [End -> {"ORDERED", "UNORDERED"}]
    /\ sent \in [End -> 0..MaxSequence]
    /\ delivered \in [End -> [Sequence -> Ack \cup {"none"}]]
    /\ settled \in [End -> [Sequence -> Ack \cup {"none", "timeout"}]]

ChannelInit ==
    /\ ordering \in [End -> {"ORDERED", "UNORDERED"}]
    /\ sent = [e \in End |-> 0]
    /\ delivered = [e \in End |-> [n \in Sequence |-> "none"]]
    /\ settled = [e \in End |-> [n \in Sequence |-> "none"]]

\* The application at e sends its next packet.
Send(e) ==
    /\ sent[e] < MaxSequence
    /\ sent' = [sent EXCEPT ![e] = @ + 1]
    /\ UNCHANGED <<ordering, delivered, settled>>

\* Packet n of e is handed to the application at the other end, which
\* answers it with ack.
Deliver(e, n, ack) ==
    /\ n <= sent[e]
    /\ delivered[e][n] = "none"
    /\ settled[e][n] = "none"
    /\ ordering[e] = "ORDERED" => \A k \in 1..(n - 1) : delivered[e][k] # "none"
    /\ delivered' = [delivered EXCEPT ![e][n] = ack]
    /\ UNCHANGED <<ordering, sent, settled>>

\* The sender learns the answer the other end gave.
Acknowledge(e, n) ==
    /\ delivered[e][n] # "none"
    /\ settled[e][n] = "none"
    /\ ordering[e] = "ORDERED" => \A k \in 1..(n - 1) : settled[e][k] # "none"
    /\ settled' = [settled EXCEPT ![e][n] = delivered[e][n]]
    /\ UNCHANGED <<ordering, sent, delivered>>

\* The sender learns that packet n was not, and will not be, delivered.
Expire(e, n) ==
    /\ n <= sent[e]
    /\ delivered[e][n] = "none"
    /\ settled[e][n] = "none"
    /\ settled' = [settled EXCEPT ![e][n] = "timeout"]
    /\ UNCHANGED <<ordering, sent, delivered>>

ChannelNext ==
    \E e \in End :
        \/ Send(e)
        \/ \E n \in Sequence :
               \/ \E ack \in Ack : Deliver(e, n, ack)
               \/ Acknowledge(e, n)
               \/ Expire(e, n)

ChannelSpec == ChannelInit /\ [][ChannelNext]_channelVars
=============================================================================
