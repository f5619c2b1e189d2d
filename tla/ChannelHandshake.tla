-------------------------- MODULE ChannelHandshake --------------------------
(***************************************************************************)
(* Opening and closing channels over the connections of                    *)
(* ConnectionHandshake: the handlers of                                    *)
(* x/ibc/core/04-channel/keeper/handshake.go.  A channel may begin on a    *)
(* connection that is not open yet and whose version is not settled.       *)
(*                                                                         *)
(* One port on each chain, whose application accepts every handshake with  *)
(* the one application version it knows, as the transfer application does. *)
(***************************************************************************)
EXTENDS ConnectionHandshake

CONSTANT MaxChannel     \* bound on the channels of chain c: MaxChannel[c]

ASSUME ChannelAssumption == MaxChannel \in [Chain -> Nat]

ChannelId == 1..Larger(MaxChannel[A], MaxChannel[B])

Channel == [state : {"INIT", "TRYOPEN", "OPEN", "CLOSED"},
            ordering : Order,
            counterparty : ChannelId \cup {NoId},
            hop : ConnectionId]
NoChannel == [state |-> "NONE", ordering |-> "NONE", counterparty |-> NoId, hop |-> NoId]

VARIABLES
    channel,            \* channel[c][x]: channel end x of chain c
    nextChannel,        \* nextChannel[c]: the next identifier of chain c
    pastChannel         \* pastChannel[c]: all <<x, end>> chain c has stored

channelVars == <<channel, nextChannel, pastChannel>>
vars == <<connectionVars, channelVars>>

Init ==
    /\ ConnectionInit
    /\ channel = [c \in Chain |-> [x \in ChannelId |-> NoChannel]]
    /\ nextChannel = [c \in Chain |-> 1]
    /\ pastChannel = [c \in Chain |-> {}]

-----------------------------------------------------------------------------
End(state, ordering, counterparty, hop) ==
    [state |-> state, ordering |-> ordering, counterparty |-> counterparty, hop |-> hop]

SetChannel(c, x, end) ==
    /\ channel' = [channel EXCEPT ![c][x] = end]
    /\ pastChannel' = [pastChannel EXCEPT ![c] = @ \cup {<<x, end>>}]

VerifyChannelState(c, y, end) == <<y, end>> \in pastChannel[Other(c)]

GenerateChannelIdentifier(c) ==
    /\ nextChannel[c] <= MaxChannel[c]
    /\ nextChannel' = [nextChannel EXCEPT ![c] = @ + 1]

ConnectionOpen(c, hop) == connection[c][hop].state = "OPEN"

\* The other chain's identifier of the connection.
CounterpartyHop(c, hop) == connection[c][hop].counterparty

ChanOpenInit(c, order, hop) ==
    /\ connection[c][hop].state # "NONE"
    /\ order \in connection[c][hop].version
    /\ GenerateChannelIdentifier(c)
    /\ SetChannel(c, nextChannel[c], End("INIT", order, NoId, hop))
    /\ UNCHANGED connectionVars

\* For mutation: the ordering is not looked up in the version again.
ChanOpenTryAnyOrder(c, previous, order, hop, y) ==
    /\ ConnectionOpen(c, hop)
    /\ VerifyChannelState(c, y, End("INIT", order, NoId, CounterpartyHop(c, hop)))
    /\ IF previous = NoId
       THEN /\ GenerateChannelIdentifier(c)
            /\ SetChannel(c, nextChannel[c], End("TRYOPEN", order, y, hop))
       ELSE /\ channel[c][previous] = End("INIT", order, NoId, hop)
            /\ SetChannel(c, previous, End("TRYOPEN", order, y, hop))
            /\ UNCHANGED nextChannel
    /\ UNCHANGED connectionVars

\* A new end, or the chain's own end previous, for y of the other chain.
ChanOpenTry(c, previous, order, hop, y) ==
    /\ ConnectionOpen(c, hop)
    /\ order \in connection[c][hop].version
    /\ VerifyChannelState(c, y, End("INIT", order, NoId, CounterpartyHop(c, hop)))
    /\ IF previous = NoId
       THEN /\ GenerateChannelIdentifier(c)
            /\ SetChannel(c, nextChannel[c], End("TRYOPEN", order, y, hop))
       ELSE /\ channel[c][previous] = End("INIT", order, NoId, hop)
            /\ SetChannel(c, previous, End("TRYOPEN", order, y, hop))
            /\ UNCHANGED nextChannel
    /\ UNCHANGED connectionVars

ChanOpenAck(c, x, y) ==
    LET end == channel[c][x]
    IN  /\ end.state \in {"INIT", "TRYOPEN"}
        /\ ConnectionOpen(c, end.hop)
        /\ VerifyChannelState(c, y, End("TRYOPEN", end.ordering, x, CounterpartyHop(c, end.hop)))
        /\ SetChannel(c, x, End("OPEN", end.ordering, y, end.hop))
        /\ UNCHANGED <<connectionVars, nextChannel>>

ChanOpenConfirm(c, x) ==
    LET end == channel[c][x]
    IN  /\ end.state = "TRYOPEN"
        /\ ConnectionOpen(c, end.hop)
        /\ VerifyChannelState(c, end.counterparty,
               End("OPEN", end.ordering, x, CounterpartyHop(c, end.hop)))
        /\ SetChannel(c, x, End("OPEN", end.ordering, end.counterparty, end.hop))
        /\ UNCHANGED <<connectionVars, nextChannel>>

ChanCloseInit(c, x) ==
    LET end == channel[c][x]
    IN  /\ end.state \in {"INIT", "TRYOPEN", "OPEN"}
        /\ ConnectionOpen(c, end.hop)
        /\ SetChannel(c, x, End("CLOSED", end.ordering, end.counterparty, end.hop))
        /\ UNCHANGED <<connectionVars, nextChannel>>

ChanCloseConfirm(c, x) ==
    LET end == channel[c][x]
    IN  /\ end.state \in {"INIT", "TRYOPEN", "OPEN"}
        /\ ConnectionOpen(c, end.hop)
        /\ VerifyChannelState(c, end.counterparty,
               End("CLOSED", end.ordering, x, CounterpartyHop(c, end.hop)))
        /\ SetChannel(c, x, End("CLOSED", end.ordering, end.counterparty, end.hop))
        /\ UNCHANGED <<connectionVars, nextChannel>>

Next ==
    \/ ConnectionNext /\ UNCHANGED channelVars
    \/ \E c \in Chain :
        \/ \E order \in Order : \E hop \in ConnectionId :
            \/ ChanOpenInit(c, order, hop)
            \/ \E y \in ChannelId : \E previous \in ChannelId \cup {NoId} :
                   ChanOpenTry(c, previous, order, hop, y)
        \/ \E x \in ChannelId :
            \/ \E y \in ChannelId : ChanOpenAck(c, x, y)
            \/ ChanOpenConfirm(c, x)
            \/ ChanCloseInit(c, x)
            \/ ChanCloseConfirm(c, x)

Spec == Init /\ [][Next]_vars

-----------------------------------------------------------------------------
TypeOK ==
    /\ ConnectionTypeOK
    /\ channel \in [Chain -> [ChannelId -> Channel \cup {NoChannel}]]
    /\ nextChannel \in [Chain -> Nat \ {0}]
    /\ pastChannel \in [Chain -> SUBSET (ChannelId \X Channel)]

\* An open channel runs over an open connection whose settled version has its
\* ordering, also when it was begun before the version was settled; and the end
\* it is open to, whatever became of that since, has the same ordering and runs
\* over the other end of the same connection (handshake.go: ChanOpenInit,
\* ChanOpenTry and ChanOpenAck on two chains, over ConnOpenTry and ConnOpenAck).
ChannelsAgree ==
    \A c \in Chain : \A x \in ChannelId :
        channel[c][x].state = "OPEN" =>
            LET end == channel[c][x]
                peer == channel[Other(c)][end.counterparty]
            IN  /\ ConnectionOpen(c, end.hop)
                /\ end.ordering \in connection[c][end.hop].version
                /\ peer.state \in {"TRYOPEN", "OPEN", "CLOSED"}
                /\ peer.ordering = end.ordering
                /\ peer.hop = CounterpartyHop(c, end.hop)
=============================================================================
