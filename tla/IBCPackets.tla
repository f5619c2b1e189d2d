----------------------------- MODULE IBCPackets -----------------------------
(***************************************************************************)
(* The packets of one IBC channel between two chains: the handlers of      *)
(* x/ibc/core/04-channel/keeper (packet.go, timeout.go, and the closing    *)
(* half of handshake.go), each run as one transaction by                   *)
(* x/ibc/core/keeper/msg_server.go, over the ostracon light client each    *)
(* chain keeps of the other (light-clients/99-ostracon).                   *)
(*                                                                         *)
(* Nothing crosses between the chains but proofs.  Anyone may relay, so a  *)
(* message may come late, twice, out of order or never, and its proof may  *)
(* be against any height of the other chain that the client has stored: a  *)
(* handler acts on a state of the other chain that may be long gone.       *)
(*                                                                         *)
(* store[c] is the part of c's state that c can prove to the other chain.  *)
(* The header of block h commits to the state after block h - 1, kept here *)
(* as root[c][h].  A commitment (a hash of the packet under its sequence)  *)
(* is the packet itself.  LastHeight[c] stands for every height of c from  *)
(* there on: a block beyond it renews its root.                            *)
(***************************************************************************)
EXTENDS Integers, FiniteSetsExt

CONSTANTS
    A, B,               \* the two chains
    Sender,             \* the chains whose application sends packets
    MayClose,           \* the chains whose application allows ChanCloseInit
    MaxHeight,          \* bound on the heights told apart
    LastHeight,         \* LastHeight[c]: the height of c that stands for all later ones
    MaxSequence,        \* bound on the packets one chain sends
    Timeout,            \* the timeouts <<height, timestamp>> a sender may choose, 0 for none
    BlockTime           \* BlockTime[c][h]: the time in the header of block h

Chain == {A, B}
Height == 1..MaxHeight
Sequence == 1..MaxSequence
Ack == {"result", "error"}

Other(c) == IF c = A THEN B ELSE A

ASSUME ChainAssumption == A # B
ASSUME BoundAssumption ==
    /\ MaxHeight \in Nat
    /\ MaxSequence \in Nat
    /\ LastHeight \in [Chain -> Height]
ASSUME TimeoutAssumption == Timeout \subseteq Nat \X Nat

\* Block times grow with the height: the consensus engine sees to that.
ASSUME TimeAssumption ==
    /\ BlockTime \in [Chain -> [Height -> Nat]]
    /\ \A c \in Chain : \A h, k \in Height : h <= k => BlockTime[c][h] <= BlockTime[c][k]

Packet == [sequence : Sequence, timeout : Timeout]

VARIABLES
    ordering,           \* of the channel, agreed when it was opened
    store,              \* store[c]: what chain c can prove of the channel
    root,               \* root[c][h]: store[c] as the header of block h commits to it
    height,             \* height[c]: the block chain c is executing
    client,             \* client[c]: heights of the other chain c has a consensus state of
    nextSequenceSend,
    nextSequenceAck,
    delivered,          \* delivered[c][n]: the answer of the other application to packet n of c
    settled             \* settled[c][n]: what the application of c was told of packet n

appVars == <<delivered, settled>>
vars == <<ordering, store, root, height, client,
          nextSequenceSend, nextSequenceAck, delivered, settled>>

Store == [state : {"TRYOPEN", "OPEN", "CLOSED"},
          commitments : SUBSET Packet,
          receipts : SUBSET Sequence,
          acks : [Sequence -> Ack \cup {"none"}],
          nextSequenceRecv : 1..(MaxSequence + 1)]

-----------------------------------------------------------------------------
(* Verification against the client's stored headers.                       *)

\* Whether packet p, on its way to chain d, has timed out by block h of d.
TimedOut(p, d, h) ==
    \/ p.timeout[1] # 0 /\ h >= p.timeout[1]
    \/ p.timeout[2] # 0 /\ BlockTime[d][h] >= p.timeout[2]

\* The state of the other chain that a proof at height ph is about.
ProvenAt(c, ph) == root[Other(c)][ph]

\* p has not been received by the other chain in the state proved at ph.
VerifyUnreceived(c, p, ph) ==
    IF ordering = "ORDERED"
    THEN ProvenAt(c, ph).nextSequenceRecv <= p.sequence
    ELSE p.sequence \notin ProvenAt(c, ph).receipts

\* The height of the newest header c's client has stored.
LatestHeight(c) == Max(client[c])

-----------------------------------------------------------------------------
(* Initial state: ChanOpenAck has opened one end, ChanOpenConfirm is still *)
(* to come at the other.                                                   *)

OpenStore(state) ==
    [state |-> state, commitments |-> {}, receipts |-> {},
     acks |-> [n \in Sequence |-> "none"], nextSequenceRecv |-> 1]

Init ==
    /\ ordering \in {"ORDERED", "UNORDERED"}
    /\ \E opened \in Chain :
           store = [c \in Chain |-> OpenStore(IF c = opened THEN "OPEN" ELSE "TRYOPEN")]
    /\ root = [c \in Chain |-> [h \in Height |-> store[c]]]
    /\ height = [c \in Chain |-> 1]
    /\ client = [c \in Chain |-> {1}]
    /\ nextSequenceSend = [c \in Chain |-> 1]
    /\ nextSequenceAck = [c \in Chain |-> 1]
    /\ delivered = [c \in Chain |-> [n \in Sequence |-> "none"]]
    /\ settled = [c \in Chain |-> [n \in Sequence |-> "none"]]

-----------------------------------------------------------------------------
(* The chains and their clients.                                           *)

\* The block chain c executes is committed and the next one begins.
NextBlock(c) ==
    LET next == IF height[c] < LastHeight[c] THEN height[c] + 1 ELSE height[c]
    IN  /\ height' = [height EXCEPT ![c] = next]
        /\ root' = [root EXCEPT ![c][next] = store[c]]
        /\ UNCHANGED <<ordering, store, client, nextSequenceSend, nextSequenceAck, appVars>>

\* A relayer submits the header of block h of the other chain.  It is checked
\* against a stored header of a smaller height, so it may also fill a gap.
UpdateClient(c, h) ==
    /\ h <= height[Other(c)]
    /\ \E trusted \in client[c] : trusted < h
    /\ client' = [client EXCEPT ![c] = @ \cup {h}]
    /\ UNCHANGED <<ordering, store, root, height, nextSequenceSend, nextSequenceAck, appVars>>

-----------------------------------------------------------------------------
(* Packets.                                                                *)

\* The application of c sends p to the other chain.
SendPacket(c, p) ==
    /\ p.timeout # <<0, 0>>
    /\ store[c].state # "CLOSED"
    /\ ~TimedOut(p, Other(c), LatestHeight(c))
    /\ p.sequence = nextSequenceSend[c]
    /\ nextSequenceSend' = [nextSequenceSend EXCEPT ![c] = @ + 1]
    /\ store' = [store EXCEPT ![c].commitments = @ \cup {p}]
    /\ UNCHANGED <<ordering, root, height, client, nextSequenceAck, appVars>>

\* What receiving p, and writing the acknowledgement ack of it, leaves in state st.
WriteReceived(st, p, ack) ==
    [st EXCEPT !.receipts = IF ordering = "ORDERED" THEN @ ELSE @ \cup {p.sequence},
               !.nextSequenceRecv = IF ordering = "ORDERED" THEN @ + 1 ELSE @,
               !.acks[p.sequence] = ack]

\* For mutation: RecvPacket with the timeout checked against the block before.
RecvPacketLate(c, p, ph, ack) ==
    /\ store[c].state = "OPEN"
    /\ ~(height[c] > 1 /\ TimedOut(p, c, height[c] - 1))
    /\ ph \in client[c]
    /\ p \in ProvenAt(c, ph).commitments
    /\ IF ordering = "ORDERED"
       THEN p.sequence = store[c].nextSequenceRecv
       ELSE p.sequence \notin store[c].receipts
    /\ store[c].acks[p.sequence] = "none"
    /\ store' = [store EXCEPT ![c] = WriteReceived(store[c], p, ack)]
    /\ delivered' = [delivered EXCEPT ![Other(c)][p.sequence] = ack]
    /\ UNCHANGED <<ordering, root, height, client, nextSequenceSend, nextSequenceAck, settled>>

\* For mutation: RecvPacket that skips over packets not received on an ORDERED channel.
RecvPacketGap(c, p, ph, ack) ==
    /\ store[c].state = "OPEN"
    /\ ~TimedOut(p, c, height[c])
    /\ ph \in client[c]
    /\ p \in ProvenAt(c, ph).commitments
    /\ IF ordering = "ORDERED"
       THEN p.sequence >= store[c].nextSequenceRecv
       ELSE p.sequence \notin store[c].receipts
    /\ store[c].acks[p.sequence] = "none"
    /\ store' = [store EXCEPT ![c] = WriteReceived(store[c], p, ack)]
    /\ delivered' = [delivered EXCEPT ![Other(c)][p.sequence] = ack]
    /\ UNCHANGED <<ordering, root, height, client, nextSequenceSend, nextSequenceAck, settled>>

\* MsgRecvPacket on chain c: packet p, proved to be committed to by the other
\* chain, goes to the application of c, whose acknowledgement is written.
RecvPacket(c, p, ph, ack) ==
    /\ store[c].state = "OPEN"
    /\ ~TimedOut(p, c, height[c])
    /\ ph \in client[c]
    /\ p \in ProvenAt(c, ph).commitments
    /\ IF ordering = "ORDERED"
       THEN p.sequence = store[c].nextSequenceRecv
       ELSE p.sequence \notin store[c].receipts
    /\ store[c].acks[p.sequence] = "none"
    /\ store' = [store EXCEPT ![c] = WriteReceived(store[c], p, ack)]
    /\ delivered' = [delivered EXCEPT ![Other(c)][p.sequence] = ack]
    /\ UNCHANGED <<ordering, root, height, client, nextSequenceSend, nextSequenceAck, settled>>

\* For mutation: AcknowledgePacket that does not tie the acknowledgement to its proof.
AcknowledgePacketUntied(c, p, ph, ack) ==
    /\ store[c].state = "OPEN"
    /\ p \in store[c].commitments
    /\ ph \in client[c]
    /\ ProvenAt(c, ph).acks[p.sequence] # "none"
    /\ ordering = "ORDERED" => p.sequence = nextSequenceAck[c]
    /\ nextSequenceAck' =
           IF ordering = "ORDERED" THEN [nextSequenceAck EXCEPT ![c] = @ + 1] ELSE nextSequenceAck
    /\ store' = [store EXCEPT ![c].commitments = @ \ {p}]
    /\ settled' = [settled EXCEPT ![c][p.sequence] = ack]
    /\ UNCHANGED <<ordering, root, height, client, nextSequenceSend, delivered>>

\* MsgAcknowledgement on chain c, the sender of p: the application is told the
\* acknowledgement the other chain is proved to have written.
AcknowledgePacket(c, p, ph, ack) ==
    /\ store[c].state = "OPEN"
    /\ p \in store[c].commitments
    /\ ph \in client[c]
    /\ ProvenAt(c, ph).acks[p.sequence] = ack
    /\ ordering = "ORDERED" => p.sequence = nextSequenceAck[c]
    /\ nextSequenceAck' =
           IF ordering = "ORDERED" THEN [nextSequenceAck EXCEPT ![c] = @ + 1] ELSE nextSequenceAck
    /\ store' = [store EXCEPT ![c].commitments = @ \ {p}]
    /\ settled' = [settled EXCEPT ![c][p.sequence] = ack]
    /\ UNCHANGED <<ordering, root, height, client, nextSequenceSend, delivered>>

\* The commitment is deleted, and an ORDERED channel is closed.
WriteTimeout(st, p) ==
    [st EXCEPT !.commitments = @ \ {p},
               !.state = IF ordering = "ORDERED" THEN "CLOSED" ELSE @]

\* The application is told of the timeout.
TimeoutExecuted(c, p) ==
    /\ settled' = [settled EXCEPT ![c][p.sequence] = "timeout"]
    /\ store' = [store EXCEPT ![c] = WriteTimeout(store[c], p)]
    /\ UNCHANGED <<ordering, root, height, client, nextSequenceSend, nextSequenceAck, delivered>>

\* MsgTimeout on chain c: p is proved unreceived at a height it has timed out by.
TimeoutPacket(c, p, ph) ==
    /\ store[c].state = "OPEN"
    /\ ph \in client[c]
    /\ TimedOut(p, Other(c), ph)
    /\ p \in store[c].commitments
    /\ VerifyUnreceived(c, p, ph)
    /\ TimeoutExecuted(c, p)

\* For mutation: TimeoutOnClose with the check of the sender's own end that TimeoutPacket has.
TimeoutOnCloseOpen(c, p, ph) ==
    /\ store[c].state = "OPEN"
    /\ p \in store[c].commitments
    /\ ph \in client[c]
    /\ ProvenAt(c, ph).state = "CLOSED"
    /\ VerifyUnreceived(c, p, ph)
    /\ TimeoutExecuted(c, p)

\* MsgTimeoutOnClose on chain c: p is proved unreceived, the other end closed.
TimeoutOnClose(c, p, ph) ==
    /\ p \in store[c].commitments
    /\ ph \in client[c]
    /\ ProvenAt(c, ph).state = "CLOSED"
    /\ VerifyUnreceived(c, p, ph)
    /\ TimeoutExecuted(c, p)

-----------------------------------------------------------------------------
(* The end of the opening handshake, and the closing one.                  *)

SetState(c, state) ==
    /\ store' = [store EXCEPT ![c].state = state]
    /\ UNCHANGED <<ordering, root, height, client, nextSequenceSend, nextSequenceAck, appVars>>

ChanOpenConfirm(c, ph) ==
    /\ store[c].state = "TRYOPEN"
    /\ ph \in client[c]
    /\ ProvenAt(c, ph).state = "OPEN"
    /\ SetState(c, "OPEN")

ChanCloseInit(c) ==
    /\ c \in MayClose
    /\ store[c].state # "CLOSED"
    /\ SetState(c, "CLOSED")

ChanCloseConfirm(c, ph) ==
    /\ store[c].state # "CLOSED"
    /\ ph \in client[c]
    /\ ProvenAt(c, ph).state = "CLOSED"
    /\ SetState(c, "CLOSED")

-----------------------------------------------------------------------------
Next ==
    \E c \in Chain :
        \/ NextBlock(c)
        \/ ChanCloseInit(c)
        \/ \E p \in Packet : c \in Sender /\ SendPacket(c, p)
        \/ \E h \in Height : UpdateClient(c, h)
        \/ \E ph \in client[c] :
            \/ ChanOpenConfirm(c, ph)
            \/ ChanCloseConfirm(c, ph)
            \/ \E p \in Packet :
                \/ \E ack \in Ack : RecvPacket(c, p, ph, ack)
                \/ \E ack \in Ack : AcknowledgePacket(c, p, ph, ack)
                \/ TimeoutPacket(c, p, ph)
                \/ TimeoutOnClose(c, p, ph)

Spec == Init /\ [][Next]_vars

\* What a relayer submits to chain c besides the packets themselves: the newest
\* header, the last steps of the two handshakes, acknowledgements, timeouts.
Relay(c) ==
    \/ UpdateClient(c, height[Other(c)])
    \/ \E ph \in client[c] :
        \/ ChanOpenConfirm(c, ph)
        \/ ChanCloseConfirm(c, ph)
        \/ \E p \in store[c].commitments :
            \/ \E ack \in Ack : AcknowledgePacket(c, p, ph, ack)
            \/ TimeoutPacket(c, p, ph)
            \/ TimeoutOnClose(c, p, ph)

\* Both chains go on producing blocks, and some relayer goes on relaying to
\* each.  Nobody has to relay the packets.
Fairness == \A c \in Chain : WF_vars(NextBlock(c)) /\ WF_vars(Relay(c))

FairSpec == Spec /\ Fairness

-----------------------------------------------------------------------------
(* Properties.                                                             *)

TypeOK ==
    /\ ordering \in {"ORDERED", "UNORDERED"}
    /\ store \in [Chain -> Store]
    /\ root \in [Chain -> [Height -> Store]]
    /\ height \in [Chain -> Height]
    /\ client \in [Chain -> SUBSET Height]
    /\ nextSequenceSend \in [Chain -> 1..(MaxSequence + 1)]
    /\ nextSequenceAck \in [Chain -> 1..(MaxSequence + 1)]
    /\ delivered \in [Chain -> [Sequence -> Ack \cup {"none"}]]
    /\ settled \in [Chain -> [Sequence -> Ack \cup {"none", "timeout"}]]

\* A packet the sender was refunded for as timed out has not been handed to
\* the application of the other chain, and never will be: RecvPacket and
\* TimeoutPacket, on two chains and against proofs of any age, never both
\* accept a packet (packet.go:206-222 against timeout.go:75-112).
NeverBoth ==
    \A c \in Chain : \A n \in Sequence :
        settled[c][n] = "timeout" => delivered[c][n] = "none"

\* On an ORDERED channel the packets reach the other application in the order
\* they were sent, without a gap, and nothing sent after a packet that timed
\* out is ever delivered (packet.go:252-275).
DeliveredInOrder ==
    ordering = "ORDERED" =>
        \A c \in Chain : \A m, n \in Sequence :
            m < n /\ delivered[c][n] # "none" => delivered[c][m] # "none"

Abstract == INSTANCE PacketChannel WITH
    End <- Chain,
    ordering <- [c \in Chain |-> ordering],
    sent <- [c \in Chain |-> nextSequenceSend[c] - 1]

\* The two keepers, their clients and arbitrary relaying implement the channel
\* the applications rely on: at-most-once delivery, one outcome per packet, and
\* the outcome that really happened (packet.go, timeout.go).
ImplementsChannel == Abstract!ChannelSpec

\* Every packet sent is settled in the end, acknowledged or timed out, as long
\* as timeouts and acknowledgements are relayed - also when either end closes.
\* The one exception is in the code: AcknowledgePacket refuses a closed channel
\* (packet.go:414), so the outcome of a packet that was received is never told
\* to a sender whose own end has closed.
PacketsSettle ==
    \A c \in Sender : \A n \in Sequence :
        nextSequenceSend[c] > n
            ~> \/ settled[c][n] # "none"
               \/ delivered[c][n] # "none" /\ store[c].state = "CLOSED"
=============================================================================
