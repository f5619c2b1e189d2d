------------------------------ MODULE Transfer ------------------------------
(***************************************************************************)
(* The token transfer application, x/ibc/applications/transfer, on several *)
(* chains joined by channels.  The channels are PacketChannel, the promise *)
(* that IBCPackets is shown to keep.                                       *)
(*                                                                         *)
(* A denomination is the path of channel identifiers in front of a base    *)
(* denomination, the latest hop first.  An identifier means something only *)
(* on the chain that holds the token: two chains may well use the same     *)
(* one, and their native tokens, of the empty path, the same base.  Each   *)
(* transfer moves one unit, and a chain's accounts are held as one: the    *)
(* properties are about what is backed by what, not about who owns it.  A  *)
(* packet's data is then its denomination.                                 *)
(***************************************************************************)
EXTENDS PacketChannel, Sequences, FiniteSets, Functions

CONSTANTS
    Zone,               \* the chains
    Home,               \* Home[e]: the chain of end e
    Name,               \* Name[e]: the identifier of e on its chain
    Peer,               \* Peer[e]: the other end of the channel of e
    Supply,             \* Supply[z]: native tokens of chain z
    MaxHops,            \* bound on the length of a path
    MaxTransfers        \* bound on the transfers sent

ASSUME TopologyAssumption ==
    /\ Home \in [End -> Zone]
    /\ Peer \in [End -> End]
    /\ \A e \in End : Peer[Peer[e]] = e /\ Peer[e] # e
    /\ \A e, f \in End : Home[e] = Home[f] /\ Name[e] = Name[f] => e = f
ASSUME FiniteAssumption == IsFiniteSet(Zone) /\ IsFiniteSet(End)
ASSUME TransferBoundAssumption ==
    /\ Supply \in [Zone -> Nat]
    /\ MaxHops \in Nat
    /\ MaxSequence \in Nat

Identifier == {Name[e] : e \in End}
Denom == UNION {[1..k -> Identifier] : k \in 0..MaxHops}

VARIABLES
    bank,               \* bank[z][p]: tokens of path p in the accounts of chain z
    escrow,             \* escrow[e][p]: tokens in the escrow account of end e
    traces,             \* traces[z]: paths that chain z can resolve from their hash
    packet              \* packet[e][n]: the path of the token in packet n of e

appVars == <<bank, escrow, traces, packet>>
vars == <<channelVars, appVars>>

-----------------------------------------------------------------------------
\* The token, sent from end e, came through e and goes back where it came from.
ReceiverChainIsSource(e, p) == p # <<>> /\ Head(p) = Name[e]

Init ==
    /\ ChannelInit
    /\ ordering = [e \in End |-> "UNORDERED"]
    /\ bank = [z \in Zone |-> [p \in Denom |-> IF p = <<>> THEN Supply[z] ELSE 0]]
    /\ escrow = [e \in End |-> [p \in Denom |-> 0]]
    /\ traces = [z \in Zone |-> {}]
    /\ packet = [e \in End |-> [n \in Sequence |-> <<>>]]

Transfers == SumFunctionOnSet(sent, End)

\* MsgTransfer: the token is escrowed, or burnt when it goes back.
SendTransfer(e, p) ==
    LET z == Home[e]
    IN  /\ Transfers < MaxTransfers
        /\ Send(e)
        /\ Len(p) < MaxHops \/ ReceiverChainIsSource(e, p)
        /\ p # <<>> => p \in traces[z]
        /\ bank[z][p] > 0
        /\ bank' = [bank EXCEPT ![z][p] = @ - 1]
        /\ escrow' = IF ReceiverChainIsSource(e, p) THEN escrow
                                                    ELSE [escrow EXCEPT ![e][p] = @ + 1]
        /\ packet' = [packet EXCEPT ![e][sent[e] + 1] = p]
        /\ UNCHANGED traces

\* Packet n of e reaches the application at the other end, which answers with
\* an error before it has changed anything.  It is refused when receiving is
\* switched off, which governance may do at any time, or when the receiver is
\* not an address.
OnRecvPacketError(e, n, refused) ==
    LET p == packet[e][n]
    IN  /\ \/ refused
           \/ ReceiverChainIsSource(e, p) /\ escrow[Peer[e]][Tail(p)] = 0
        /\ Deliver(e, n, "error")
        /\ UNCHANGED appVars

\* The token comes back: it is paid out of escrow under its path without the
\* last hop.  Any account may receive it.
OnRecvPacketUnescrow(e, n) ==
    LET d == Peer[e]
        p == packet[e][n]
    IN  /\ ReceiverChainIsSource(e, p)
        /\ escrow[d][Tail(p)] > 0
        /\ escrow' = [escrow EXCEPT ![d][Tail(p)] = @ - 1]
        /\ bank' = [bank EXCEPT ![Home[d]][Tail(p)] = @ + 1]
        /\ Deliver(e, n, "result")
        /\ UNCHANGED <<traces, packet>>

\* For mutation: the restriction on minting is looked at after the mint.
OnRecvPacketMintErrorLate(e, n) ==
    LET z == Home[Peer[e]]
        voucher == <<Name[Peer[e]]>> \o packet[e][n]
    IN  /\ ~ReceiverChainIsSource(e, packet[e][n])
        /\ traces' = [traces EXCEPT ![z] = @ \cup {voucher}]
        /\ bank' = [bank EXCEPT ![z][voucher] = @ + 1]
        /\ Deliver(e, n, "error")
        /\ UNCHANGED <<escrow, packet>>

\* The bank's restriction on minting refuses the voucher, after its path has been
\* stored: the error is an acknowledgement, so the transaction and the path stay.
OnRecvPacketMintError(e, n) ==
    LET z == Home[Peer[e]]
        voucher == <<Name[Peer[e]]>> \o packet[e][n]
    IN  /\ ~ReceiverChainIsSource(e, packet[e][n])
        /\ traces' = [traces EXCEPT ![z] = @ \cup {voucher}]
        /\ Deliver(e, n, "error")
        /\ UNCHANGED <<bank, escrow, packet>>

\* For mutation: the prefix is the identifier of the sending end.
OnRecvPacketMintSource(e, n) ==
    LET z == Home[Peer[e]]
        voucher == <<Name[e]>> \o packet[e][n]
    IN  /\ ~ReceiverChainIsSource(e, packet[e][n])
        /\ traces' = [traces EXCEPT ![z] = @ \cup {voucher}]
        /\ bank' = [bank EXCEPT ![z][voucher] = @ + 1]
        /\ Deliver(e, n, "result")
        /\ UNCHANGED <<escrow, packet>>

\* The token is new here: a voucher is minted under its path with this hop in
\* front.  The code panics on a blocked receiver: the transaction is aborted and
\* the packet remains to be delivered or to time out.
OnRecvPacketMint(e, n) ==
    LET d == Peer[e]
        p == packet[e][n]
        voucher == <<Name[d]>> \o p
    IN  /\ ~ReceiverChainIsSource(e, p)
        /\ traces' = [traces EXCEPT ![Home[d]] = @ \cup {voucher}]
        /\ bank' = [bank EXCEPT ![Home[d]][voucher] = @ + 1]
        /\ Deliver(e, n, "result")
        /\ UNCHANGED <<escrow, packet>>

\* The token of packet n goes back to its sender: out of escrow, or minted again.
\* The sender is an account that may receive it, as it may before sending; what is
\* minted again was minted here before, so the bank's restriction lets it pass.
refundPacketToken(e, n) ==
    LET p == packet[e][n]
    IN  /\ IF ReceiverChainIsSource(e, p)
           THEN UNCHANGED escrow
           ELSE escrow[e][p] > 0 /\ escrow' = [escrow EXCEPT ![e][p] = @ - 1]
        /\ bank' = [bank EXCEPT ![Home[e]][p] = @ + 1]
        /\ UNCHANGED <<traces, packet>>

\* For mutation: an error acknowledgement is taken for a failure to process it.
OnAcknowledgementPacketResultOnly(e, n) ==
    /\ Acknowledge(e, n)
    /\ delivered[e][n] = "result"
    /\ UNCHANGED appVars

OnAcknowledgementPacket(e, n) ==
    /\ Acknowledge(e, n)
    /\ IF delivered[e][n] = "error" THEN refundPacketToken(e, n) ELSE UNCHANGED appVars

OnTimeoutPacket(e, n) ==
    /\ Expire(e, n)
    /\ refundPacketToken(e, n)

Next ==
    \E e \in End :
        \/ \E p \in Denom : SendTransfer(e, p)
        \/ \E n \in Sequence :
            \/ \E refused \in BOOLEAN : OnRecvPacketError(e, n, refused)
            \/ OnRecvPacketMintError(e, n)
            \/ OnRecvPacketUnescrow(e, n)
            \/ OnRecvPacketMint(e, n)
            \/ OnAcknowledgementPacket(e, n)
            \/ OnTimeoutPacket(e, n)

Spec == Init /\ [][Next]_vars

\* Acknowledgements and timeouts reach the sender in the end: what a channel
\* and its relayers provide (PacketsSettle of IBCPackets).
Fairness ==
    \A e \in End :
        WF_vars(\E n \in Sequence : OnAcknowledgementPacket(e, n) \/ OnTimeoutPacket(e, n))

FairSpec == Spec /\ Fairness

-----------------------------------------------------------------------------
TypeOK ==
    /\ ChannelTypeOK
    /\ bank \in [Zone -> [Denom -> Nat]]
    /\ escrow \in [End -> [Denom -> Nat]]
    /\ traces \in [Zone -> SUBSET Denom]
    /\ packet \in [End -> [Sequence -> Denom]]

\* The token of packet n of e is on its way, or on its way back.
InFlight(e, n) ==
    n <= sent[e] /\ settled[e][n] = "none" /\ delivered[e][n] # "result"

InFlightOf(e, p) == Cardinality({n \in Sequence : InFlight(e, n) /\ packet[e][n] = p})

\* All tokens of path p on chain z, in accounts or in escrow.
Escrowed(p) == [e \in End |-> escrow[e][p]]
EndsOf(z) == {e \in End : Home[e] = z}
Holding(z, p) == bank[z][p] + SumFunctionOnSet(Escrowed(p), EndsOf(z))

\* What is in escrow at one end of a channel is exactly what the other chain
\* has issued against it, counting what is in flight either way - so no voucher
\* is unbacked and nothing is locked up for good (relay.go: SendTransfer,
\* OnRecvPacket and refundPacketToken on two chains).
VouchersBacked ==
    \A e \in End : \A p \in Denom :
        Len(p) < MaxHops /\ ~ReceiverChainIsSource(e, p) =>
            LET voucher == <<Name[Peer[e]]>> \o p
            IN  escrow[e][p] = Holding(Home[Peer[e]], voucher)
                               + InFlightOf(e, p) + InFlightOf(Peer[e], voucher)

\* The end through which a token of path p came to chain z, and where the token
\* was before.
Via(z, p) == {e \in End : Home[e] = z /\ Name[e] = Head(p)}
Before(zp) == <<Home[Peer[CHOOSE e \in Via(zp[1], zp[2]) : TRUE]], Tail(zp[2])>>

\* The chain that a path held on a chain leads back to.
Origin[zp \in Zone \X Denom] ==
    IF zp[2] = <<>> THEN zp[1]
    ELSE IF Via(zp[1], zp[2]) = {} THEN "nowhere" ELSE Origin[Before(zp)]

Claims == [o \in Zone |-> {zp \in Zone \X Denom : Origin[zp] = o}]

InAccounts == [zp \in Zone \X Denom |-> bank[zp[1]][zp[2]]]
OnTheWay(o) ==
    {en \in End \X Sequence : /\ InFlight(en[1], en[2])
                              /\ <<Home[en[1]], packet[en[1]][en[2]]>> \in Claims[o]}

\* Every unit in an account or in flight, traced back along its path, belongs
\* to the native supply of one chain, and those supplies neither grow nor
\* shrink, however often tokens are sent on, returned and refunded.
SupplyConstant ==
    \A o \in Zone : Supply[o] = SumFunctionOnSet(InAccounts, Claims[o]) + Cardinality(OnTheWay(o))

\* Every transfer ends: it is acknowledged or refunded.  A refund that failed
\* would be retried for ever (relay.go:347).
TransfersSettle ==
    \A e \in End : \A n \in Sequence : n <= sent[e] ~> settled[e][n] # "none"
=============================================================================
