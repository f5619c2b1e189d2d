------------------------ MODULE ConnectionHandshake ------------------------
(***************************************************************************)
(* Opening a connection between two chains: the four handlers of           *)
(* x/ibc/core/03-connection/keeper/handshake.go.                           *)
(*                                                                         *)
(* Anyone may relay, so every step may be taken late, again, or with a     *)
(* proof of a state that is long gone; pastConnection[c] is what chain c   *)
(* has ever committed to and can be proved of it.  Both chains may start   *)
(* (crossing hellos), and ConnOpenTry may then go on with a connection the *)
(* chain has begun itself.                                                 *)
(*                                                                         *)
(* There is one client on each chain, with one delay period.  A version is *)
(* its set of features: the code knows one version identifier, and the     *)
(* features stand for the orderings channels may have.  The client's list  *)
(* of connections, which only queries read, is left out.                   *)
(***************************************************************************)
EXTENDS Integers

CONSTANTS
    A, B,               \* the two chains
    MaxConnection,      \* bound on the connections of chain c: MaxConnection[c]
    Offer               \* Offer[c]: the versions connections of chain c begin with

Chain == {A, B}
Other(c) == IF c = A THEN B ELSE A

NoId == 0

Order == {"ORDERED", "UNORDERED"}
Version == (SUBSET Order) \ {{}}
DefaultIBCVersion == Order

ASSUME ConnectionAssumption ==
    /\ A # B
    /\ MaxConnection \in [Chain -> Nat]
    /\ Offer \in [Chain -> SUBSET Version]

Larger(m, n) == IF m > n THEN m ELSE n
ConnectionId == 1..Larger(MaxConnection[A], MaxConnection[B])

Connection == [state : {"INIT", "TRYOPEN", "OPEN"},
               counterparty : ConnectionId \cup {NoId},
               version : Version]
NoConnection == [state |-> "NONE", counterparty |-> NoId, version |-> {}]

VARIABLES
    connection,             \* connection[c][x]: connection end x of chain c
    nextConnection,         \* nextConnection[c]: the next identifier of chain c
    pastConnection          \* pastConnection[c]: all <<x, end>> chain c has stored

connectionVars == <<connection, nextConnection, pastConnection>>

ConnectionInit ==
    /\ connection = [c \in Chain |-> [x \in ConnectionId |-> NoConnection]]
    /\ nextConnection = [c \in Chain |-> 1]
    /\ pastConnection = [c \in Chain |-> {}]

-----------------------------------------------------------------------------
SetConnection(c, x, end) ==
    /\ connection' = [connection EXCEPT ![c][x] = end]
    /\ pastConnection' = [pastConnection EXCEPT ![c] = @ \cup {<<x, end>>}]

\* The chain is proved to have stored end under y.
VerifyConnectionState(c, y, end) == <<y, end>> \in pastConnection[Other(c)]

GenerateConnectionIdentifier(c) ==
    /\ nextConnection[c] <= MaxConnection[c]
    /\ nextConnection' = [nextConnection EXCEPT ![c] = @ + 1]

\* The features both sides have; none is an error.
PickVersion(supported, counterparty) == supported \cap counterparty

ConnOpenInit(c, version) ==
    /\ GenerateConnectionIdentifier(c)
    /\ SetConnection(c, nextConnection[c],
           [state |-> "INIT", counterparty |-> NoId, version |-> version])

\* A new end for y of the other chain, which offers version.
ConnOpenTryNew(c, y, version) ==
    LET picked == PickVersion(DefaultIBCVersion, version)
    IN  /\ VerifyConnectionState(c, y,
               [state |-> "INIT", counterparty |-> NoId, version |-> version])
        /\ picked # {}
        /\ GenerateConnectionIdentifier(c)
        /\ SetConnection(c, nextConnection[c],
               [state |-> "TRYOPEN", counterparty |-> y, version |-> picked])

\* The chain's own end previous goes on as an end for y.
ConnOpenTryPrevious(c, previous, y, version) ==
    LET picked == PickVersion(connection[c][previous].version, version)
    IN  /\ connection[c][previous].state = "INIT"
        /\ VerifyConnectionState(c, y,
               [state |-> "INIT", counterparty |-> NoId, version |-> version])
        /\ picked # {}
        /\ SetConnection(c, previous,
               [state |-> "TRYOPEN", counterparty |-> y, version |-> picked])
        /\ UNCHANGED nextConnection

\* For mutation: an end that is already open is acknowledged again.
ConnOpenAckAgain(c, x, y, version) ==
    /\ connection[c][x].state \in {"INIT", "TRYOPEN", "OPEN"}
    /\ connection[c][x].state # "INIT" => connection[c][x].version = version
    /\ VerifyConnectionState(c, y,
           [state |-> "TRYOPEN", counterparty |-> x, version |-> version])
    /\ SetConnection(c, x, [state |-> "OPEN", counterparty |-> y, version |-> version])
    /\ UNCHANGED nextConnection

\* For mutation: an end in TRYOPEN takes any version, like one in INIT.
ConnOpenAckAnyVersion(c, x, y, version) ==
    /\ connection[c][x].state \in {"INIT", "TRYOPEN"}
    /\ VerifyConnectionState(c, y,
           [state |-> "TRYOPEN", counterparty |-> x, version |-> version])
    /\ SetConnection(c, x, [state |-> "OPEN", counterparty |-> y, version |-> version])
    /\ UNCHANGED nextConnection

ConnOpenAck(c, x, y, version) ==
    /\ connection[c][x].state \in {"INIT", "TRYOPEN"}
    /\ connection[c][x].state = "TRYOPEN" => connection[c][x].version = version
    /\ VerifyConnectionState(c, y,
           [state |-> "TRYOPEN", counterparty |-> x, version |-> version])
    /\ SetConnection(c, x, [state |-> "OPEN", counterparty |-> y, version |-> version])
    /\ UNCHANGED nextConnection

ConnOpenConfirm(c, x) ==
    LET end == connection[c][x]
    IN  /\ end.state = "TRYOPEN"
        /\ VerifyConnectionState(c, end.counterparty,
               [state |-> "OPEN", counterparty |-> x, version |-> end.version])
        /\ SetConnection(c, x,
               [state |-> "OPEN", counterparty |-> end.counterparty, version |-> end.version])
        /\ UNCHANGED nextConnection

ConnectionNext ==
    \E c \in Chain :
        \/ \E version \in Offer[c] : ConnOpenInit(c, version)
        \/ \E y \in ConnectionId : \E version \in Version :
            \/ ConnOpenTryNew(c, y, version)
            \/ \E x \in ConnectionId :
                   ConnOpenTryPrevious(c, x, y, version) \/ ConnOpenAck(c, x, y, version)
        \/ \E x \in ConnectionId : ConnOpenConfirm(c, x)

ConnectionSpec == ConnectionInit /\ [][ConnectionNext]_connectionVars

-----------------------------------------------------------------------------
ConnectionTypeOK ==
    /\ connection \in [Chain -> [ConnectionId -> Connection \cup {NoConnection}]]
    /\ nextConnection \in [Chain -> Nat \ {0}]
    /\ pastConnection \in [Chain -> SUBSET (ConnectionId \X Connection)]

\* An open end and the end it is open to have settled on the same version, and
\* on no feature that this end has not offered before - whichever steps crossed,
\* and whatever was done with outdated proofs.  ConnOpenAck compares the version
\* with what the chain supports and not with what it has offered; that is left
\* to PickVersion on the other chain (handshake.go:140-151, 222-245).
ConnectionsAgree ==
    \A c \in Chain : \A x \in ConnectionId :
        LET end == connection[c][x]
            peer == connection[Other(c)][end.counterparty]
        IN  end.state = "OPEN" =>
                /\ peer.state \in {"TRYOPEN", "OPEN"}
                /\ peer.version = end.version
                /\ \A past \in pastConnection[c] :
                       past[1] = x => end.version \subseteq past[2].version

\* handshake.go says of ConnOpenConfirm: "after which the connection is open on
\* both chains".  Both ends are then also open to each other.
ConfirmOpensBoth ==
    [][\A c \in Chain : \A x \in ConnectionId :
        ConnOpenConfirm(c, x) =>
            LET peer == connection[Other(c)][connection[c][x].counterparty]
            IN  /\ peer.state = "OPEN"
                /\ peer.counterparty = x
                /\ peer.version = connection[c][x].version]_connectionVars
=============================================================================
