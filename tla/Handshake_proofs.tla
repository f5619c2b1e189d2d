------------------------- MODULE Handshake_proofs -------------------------
(***************************************************************************)
(* The connection handshake keeps ConnectionsAgree and ConfirmOpensBoth,   *)
(* and the channel handshake over it ChannelsAgree, for any number of      *)
(* connections and channels and any versions offered.                      *)
(*                                                                         *)
(* The properties relate the present ends of two chains, and a step looks  *)
(* at the past of the other one.  The inductive invariant says what a past *)
(* end still tells about the present one (PastInv, PastChannelInv), and    *)
(* what of the other chain's past it rests on (OriginInv, AnswerInv).      *)
(***************************************************************************)
EXTENDS ChannelHandshake, TLAPS

(* Connections: ConnectionHandshake by itself.                             *)

\* What the present end cur of an identifier has kept of a past one.
Kept(past, cur) ==
    /\ cur.version \subseteq past.version
    /\ past.state = "OPEN" => cur = past
    /\ past.state = "TRYOPEN" =>
           cur.state \in {"TRYOPEN", "OPEN"} /\ cur.version = past.version
    /\ cur.state = "INIT" => cur = past

\* An identifier is stored only once it is generated, and the present end is
\* among those that were stored.
PresentInv ==
    \A c \in Chain : \A x \in ConnectionId :
        /\ connection[c][x] # NoConnection => <<x, connection[c][x]>> \in pastConnection[c]
        /\ x >= nextConnection[c] =>
               \A r \in Connection : <<x, r>> \notin pastConnection[c]

PastInv ==
    \A c \in Chain : \A x \in ConnectionId : \A r \in Connection :
        <<x, r>> \in pastConnection[c] =>
            connection[c][x] \in Connection /\ Kept(r, connection[c][x])

\* The other chain has stored, under y, an end that r can have answered.
Origin(c, r) ==
    /\ r.state = "TRYOPEN" =>
           \E q \in Connection :
               /\ <<r.counterparty, q>> \in pastConnection[Other(c)]
               /\ q.state = "INIT"
               /\ r.version \subseteq q.version
    /\ r.state = "OPEN" =>
           \E q \in Connection :
               /\ <<r.counterparty, q>> \in pastConnection[Other(c)]
               /\ q.state \in {"TRYOPEN", "OPEN"}
               /\ q.version = r.version

OriginInv ==
    \A c \in Chain : \A x \in ConnectionId : \A r \in Connection :
        <<x, r>> \in pastConnection[c] => Origin(c, r)

ConnectionInv == ConnectionTypeOK /\ PresentInv /\ PastInv /\ OriginInv

-----------------------------------------------------------------------------
\* The chains are two, and each is the other one's other.
LEMMA Others ==
    ASSUME NEW c \in Chain
    PROVE  Other(c) \in Chain /\ Other(c) # c /\ Other(Other(c)) = c
BY ConnectionAssumption DEF Chain, Other

\* Identifiers are positive, and so never the missing identifier; every
\* identifier a chain may generate is one.
LEMMA Ids ==
    /\ ConnectionId \subseteq Nat \ {0}
    /\ NoId \notin ConnectionId
    /\ \A c \in Chain : \A n \in Nat \ {0} : n <= MaxConnection[c] => n \in ConnectionId
BY ConnectionAssumption DEF Chain, ConnectionId, Larger, NoId

\* SetConnection keeps the invariant when the new end has kept what the past
\* ends of its identifier tell, and has an origin.
LEMMA SetConnectionKeeps ==
    ASSUME ConnectionInv,
           NEW c \in Chain, NEW x \in ConnectionId, NEW end \in Connection,
           SetConnection(c, x, end),
           nextConnection' \in [Chain -> Nat \ {0}],
           \A d \in Chain : nextConnection[d] <= nextConnection'[d],
           x < nextConnection'[c],
           \A r \in Connection : <<x, r>> \in pastConnection[c] => Kept(r, end),
           Origin(c, end)
    PROVE  ConnectionInv'
<1>1. /\ \A d \in Chain : \A y \in ConnectionId :
            connection'[d][y] = IF d = c /\ y = x THEN end ELSE connection[d][y]
      /\ \A d \in Chain : \A y \in ConnectionId : \A r \in Connection :
            <<y, r>> \in pastConnection'[d] <=>
                \/ <<y, r>> \in pastConnection[d]
                \/ d = c /\ y = x /\ r = end
  BY DEF ConnectionInv, ConnectionTypeOK, SetConnection
<1>2. ConnectionTypeOK'
  <2>1. connection' \in [Chain -> [ConnectionId -> Connection \cup {NoConnection}]]
    <3> DEFINE T == Connection \cup {NoConnection}
    <3>1. connection \in [Chain -> [ConnectionId -> T]] /\ end \in T
      BY DEF ConnectionInv, ConnectionTypeOK
    <3> HIDE DEF T
    <3>2. connection' \in [Chain -> [ConnectionId -> T]]
      BY <3>1 DEF SetConnection
    <3> QED BY <3>2 DEF T
  <2>2. pastConnection' \in [Chain -> SUBSET (ConnectionId \X Connection)]
    <3>1. <<x, end>> \in ConnectionId \X Connection
      OBVIOUS
    <3> DEFINE T == ConnectionId \X Connection
    <3>2. pastConnection \in [Chain -> SUBSET T] /\ <<x, end>> \in T
      BY <3>1 DEF ConnectionInv, ConnectionTypeOK
    <3> HIDE DEF T
    <3>3. pastConnection' \in [Chain -> SUBSET T]
      BY <3>2 DEF SetConnection
    <3> QED BY <3>3 DEF T
  <2> QED BY <2>1, <2>2 DEF ConnectionTypeOK
<1>3. PresentInv'
  <2> SUFFICES ASSUME NEW d \in Chain, NEW y \in ConnectionId
               PROVE  /\ connection'[d][y] # NoConnection =>
                             <<y, connection'[d][y]>> \in pastConnection'[d]
                      /\ y >= nextConnection'[d] =>
                             \A r \in Connection : <<y, r>> \notin pastConnection'[d]
    BY DEF PresentInv
  <2>1. connection'[d][y] # NoConnection => <<y, connection'[d][y]>> \in pastConnection'[d]
    <3>1. CASE d = c /\ y = x
      BY <3>1, <1>1
    <3>2. CASE ~(d = c /\ y = x)
      BY <3>2, <1>1 DEF ConnectionInv, ConnectionTypeOK, PresentInv
    <3> QED BY <3>1, <3>2
  <2>2. y >= nextConnection'[d] => y >= nextConnection[d] /\ ~(d = c /\ y = x)
    BY Ids DEF ConnectionInv, ConnectionTypeOK
  <2>3. y >= nextConnection'[d] =>
            \A r \in Connection : <<y, r>> \notin pastConnection'[d]
    BY <2>2, <1>1 DEF ConnectionInv, PresentInv
  <2> QED BY <2>1, <2>3
<1>4. PastInv'
  <2> SUFFICES ASSUME NEW d \in Chain, NEW y \in ConnectionId, NEW r \in Connection,
                      <<y, r>> \in pastConnection'[d]
               PROVE  connection'[d][y] \in Connection /\ Kept(r, connection'[d][y])
    BY DEF PastInv
  <2>1. CASE d = c /\ y = x
    <3>1. Kept(end, end)
      BY DEF Kept, Connection
    <3> QED BY <3>1, <2>1, <1>1
  <2>2. CASE ~(d = c /\ y = x)
    BY <2>2, <1>1 DEF ConnectionInv, PastInv
  <2> QED BY <2>1, <2>2
<1>5. OriginInv'
  <2> SUFFICES ASSUME NEW d \in Chain, NEW y \in ConnectionId, NEW r \in Connection,
                      <<y, r>> \in pastConnection'[d]
               PROVE  Origin(d, r)'
    BY DEF OriginInv
  <2>1. Origin(d, r)
    BY <1>1 DEF ConnectionInv, OriginInv
  <2>2. pastConnection[Other(d)] \subseteq pastConnection'[Other(d)]
    BY Others DEF ConnectionInv, ConnectionTypeOK, SetConnection
  <2> QED BY <2>1, <2>2 DEF Origin
<1> QED BY <1>2, <1>3, <1>4, <1>5 DEF ConnectionInv

-----------------------------------------------------------------------------
\* ConnOpenInit keeps the invariant: the identifier is new.
LEMMA ConnOpenInitKeeps ==
    ASSUME ConnectionInv, NEW c \in Chain, NEW version \in Offer[c], ConnOpenInit(c, version)
    PROVE  ConnectionInv'
<1> DEFINE x == nextConnection[c]
           end == [state |-> "INIT", counterparty |-> NoId, version |-> version]
<1>1. x \in ConnectionId /\ x < nextConnection'[c]
  BY Ids DEF ConnOpenInit, GenerateConnectionIdentifier, ConnectionInv, ConnectionTypeOK
<1>2. /\ nextConnection' \in [Chain -> Nat \ {0}]
      /\ \A d \in Chain : nextConnection[d] <= nextConnection'[d]
  BY DEF ConnOpenInit, GenerateConnectionIdentifier, ConnectionInv, ConnectionTypeOK
<1>3. end \in Connection
  BY ConnectionAssumption DEF Connection
<1>4. \A r \in Connection : <<x, r>> \notin pastConnection[c]
  BY <1>1, Ids, x >= nextConnection[c] DEF ConnectionInv, ConnectionTypeOK, PresentInv
<1>5. Origin(c, end)
  BY DEF Origin
<1>6. SetConnection(c, x, end)
  BY DEF ConnOpenInit
<1> HIDE DEF x, end
<1> QED BY <1>1, <1>2, <1>3, <1>4, <1>5, <1>6, SetConnectionKeeps

\* ConnOpenTry with a new identifier keeps it: the origin is the end that the
\* proof shows.
LEMMA ConnOpenTryNewKeeps ==
    ASSUME ConnectionInv, NEW c \in Chain, NEW y \in ConnectionId, NEW version \in Version,
           ConnOpenTryNew(c, y, version)
    PROVE  ConnectionInv'
<1> DEFINE x == nextConnection[c]
           picked == PickVersion(DefaultIBCVersion, version)
           end == [state |-> "TRYOPEN", counterparty |-> y, version |-> picked]
           init == [state |-> "INIT", counterparty |-> NoId, version |-> version]
<1>1. x \in ConnectionId /\ x < nextConnection'[c]
  BY Ids DEF ConnOpenTryNew, GenerateConnectionIdentifier, ConnectionInv, ConnectionTypeOK
<1>2. /\ nextConnection' \in [Chain -> Nat \ {0}]
      /\ \A d \in Chain : nextConnection[d] <= nextConnection'[d]
  BY DEF ConnOpenTryNew, GenerateConnectionIdentifier, ConnectionInv, ConnectionTypeOK
<1>3. /\ end \in Connection /\ init \in Connection
      /\ picked \subseteq version
  BY DEF ConnOpenTryNew, Connection, Version, PickVersion
<1>4. \A r \in Connection : <<x, r>> \notin pastConnection[c]
  BY <1>1, Ids, x >= nextConnection[c] DEF ConnectionInv, ConnectionTypeOK, PresentInv
<1>5. Origin(c, end)
  BY <1>3 DEF Origin, ConnOpenTryNew, VerifyConnectionState
<1>6. SetConnection(c, x, end)
  BY DEF ConnOpenTryNew
<1> HIDE DEF x, end
<1> QED BY <1>1, <1>2, <1>3, <1>4, <1>5, <1>6, SetConnectionKeeps

\* ConnOpenTry with the chain's own end keeps it: the end was in INIT, so all
\* its past is that end, and the version picked is part of it.
LEMMA ConnOpenTryPreviousKeeps ==
    ASSUME ConnectionInv, NEW c \in Chain, NEW x \in ConnectionId,
           NEW y \in ConnectionId, NEW version \in Version,
           ConnOpenTryPrevious(c, x, y, version)
    PROVE  ConnectionInv'
<1> DEFINE cur == connection[c][x]
           picked == PickVersion(cur.version, version)
           end == [state |-> "TRYOPEN", counterparty |-> y, version |-> picked]
           init == [state |-> "INIT", counterparty |-> NoId, version |-> version]
<1>1. cur \in Connection /\ cur.state = "INIT"
  BY DEF ConnOpenTryPrevious, ConnectionInv, ConnectionTypeOK, NoConnection
<1>2. <<x, cur>> \in pastConnection[c]
  BY <1>1 DEF ConnectionInv, PresentInv, NoConnection
<1>3. x < nextConnection[c]
  BY <1>1, <1>2, Ids DEF ConnectionInv, ConnectionTypeOK, PresentInv
<1>4. nextConnection' = nextConnection /\ SetConnection(c, x, end)
  BY DEF ConnOpenTryPrevious
<1>5. /\ end \in Connection /\ init \in Connection
      /\ picked \subseteq version /\ picked \subseteq cur.version
  BY <1>1 DEF ConnOpenTryPrevious, Connection, Version, PickVersion
<1>6. \A r \in Connection : <<x, r>> \in pastConnection[c] => Kept(r, end)
  <2> SUFFICES ASSUME NEW r \in Connection, <<x, r>> \in pastConnection[c]
               PROVE  Kept(r, end)
    OBVIOUS
  <2>1. r = cur
    BY <1>1 DEF ConnectionInv, PastInv, Kept
  <2> QED BY <2>1, <1>1, <1>5 DEF Kept
<1>7. Origin(c, end)
  BY <1>5 DEF Origin, ConnOpenTryPrevious, VerifyConnectionState
<1>8. /\ nextConnection' \in [Chain -> Nat \ {0}]
      /\ \A d \in Chain : nextConnection[d] <= nextConnection'[d]
      /\ x < nextConnection'[c]
  BY <1>3, <1>4 DEF ConnectionInv, ConnectionTypeOK
<1> HIDE DEF cur, end
<1> QED BY <1>4, <1>5, <1>6, <1>7, <1>8, SetConnectionKeeps

\* ConnOpenAck keeps it.  An end in INIT may take any version that is supported:
\* the other chain's TRYOPEN has an origin among the chain's own past ends,
\* which is that end in INIT, and so the version is part of what it offered.
LEMMA ConnOpenAckKeeps ==
    ASSUME ConnectionInv, NEW c \in Chain, NEW x \in ConnectionId,
           NEW y \in ConnectionId, NEW version \in Version,
           ConnOpenAck(c, x, y, version)
    PROVE  ConnectionInv'
<1> DEFINE cur == connection[c][x]
           end == [state |-> "OPEN", counterparty |-> y, version |-> version]
           try == [state |-> "TRYOPEN", counterparty |-> x, version |-> version]
<1>1. cur \in Connection /\ cur.state \in {"INIT", "TRYOPEN"}
  BY DEF ConnOpenAck, ConnectionInv, ConnectionTypeOK, NoConnection
<1>2. <<x, cur>> \in pastConnection[c]
  BY <1>1 DEF ConnectionInv, PresentInv, NoConnection
<1>3. x < nextConnection[c]
  BY <1>1, <1>2, Ids DEF ConnectionInv, ConnectionTypeOK, PresentInv
<1>4. nextConnection' = nextConnection /\ SetConnection(c, x, end)
  BY DEF ConnOpenAck
<1>5. /\ end \in Connection /\ try \in Connection
      /\ <<y, try>> \in pastConnection[Other(c)]
  BY <1>1 DEF ConnOpenAck, Connection, VerifyConnectionState
<1>6. version \subseteq cur.version /\ (cur.state = "TRYOPEN" => version = cur.version)
  <2>1. CASE cur.state = "TRYOPEN"
    BY <2>1 DEF ConnOpenAck
  <2>2. CASE cur.state = "INIT"
    <3>1. Origin(Other(c), try)
      BY <1>5, Others DEF ConnectionInv, OriginInv
    <3>2. PICK q \in Connection : <<x, q>> \in pastConnection[c] /\ version \subseteq q.version
      BY <3>1, Others DEF Origin
    <3>3. q = cur
      BY <3>2, <2>2 DEF ConnectionInv, PastInv, Kept
    <3> QED BY <3>2, <3>3, <2>2
  <2> QED BY <2>1, <2>2, <1>1
<1>7. \A r \in Connection : <<x, r>> \in pastConnection[c] => Kept(r, end)
  <2> SUFFICES ASSUME NEW r \in Connection, <<x, r>> \in pastConnection[c]
               PROVE  Kept(r, end)
    OBVIOUS
  <2>1. Kept(r, cur)
    BY DEF ConnectionInv, PastInv
  <2> QED BY <2>1, <1>1, <1>6 DEF Kept
<1>8. Origin(c, end)
  BY <1>5 DEF Origin
<1>9. /\ nextConnection' \in [Chain -> Nat \ {0}]
      /\ \A d \in Chain : nextConnection[d] <= nextConnection'[d]
      /\ x < nextConnection'[c]
  BY <1>3, <1>4 DEF ConnectionInv, ConnectionTypeOK
<1> HIDE DEF cur, end
<1> QED BY <1>4, <1>5, <1>7, <1>8, <1>9, SetConnectionKeeps

\* ConnOpenConfirm keeps it: the open end that the proof shows is its origin.
LEMMA ConnOpenConfirmKeeps ==
    ASSUME ConnectionInv, NEW c \in Chain, NEW x \in ConnectionId, ConnOpenConfirm(c, x)
    PROVE  ConnectionInv'
<1> DEFINE cur == connection[c][x]
           end == [state |-> "OPEN", counterparty |-> cur.counterparty, version |-> cur.version]
           open == [state |-> "OPEN", counterparty |-> x, version |-> cur.version]
<1>1. cur \in Connection /\ cur.state = "TRYOPEN"
  BY DEF ConnOpenConfirm, ConnectionInv, ConnectionTypeOK, NoConnection
<1>2. <<x, cur>> \in pastConnection[c]
  BY <1>1 DEF ConnectionInv, PresentInv, NoConnection
<1>3. x < nextConnection[c]
  BY <1>1, <1>2, Ids DEF ConnectionInv, ConnectionTypeOK, PresentInv
<1>4. nextConnection' = nextConnection /\ SetConnection(c, x, end)
  BY DEF ConnOpenConfirm
<1>5. /\ end \in Connection /\ open \in Connection
      /\ <<cur.counterparty, open>> \in pastConnection[Other(c)]
  BY <1>1 DEF ConnOpenConfirm, Connection, VerifyConnectionState
<1>6. \A r \in Connection : <<x, r>> \in pastConnection[c] => Kept(r, end)
  <2> SUFFICES ASSUME NEW r \in Connection, <<x, r>> \in pastConnection[c]
               PROVE  Kept(r, end)
    OBVIOUS
  <2>1. Kept(r, cur)
    BY DEF ConnectionInv, PastInv
  <2> QED BY <2>1, <1>1 DEF Kept
<1>7. Origin(c, end)
  BY <1>5 DEF Origin
<1>8. /\ nextConnection' \in [Chain -> Nat \ {0}]
      /\ \A d \in Chain : nextConnection[d] <= nextConnection'[d]
      /\ x < nextConnection'[c]
  BY <1>3, <1>4 DEF ConnectionInv, ConnectionTypeOK
<1> HIDE DEF cur, end
<1> QED BY <1>4, <1>5, <1>6, <1>7, <1>8, SetConnectionKeeps

-----------------------------------------------------------------------------
\* The invariant holds at first.
LEMMA ConnectionInvInit == ConnectionInit => ConnectionInv
<1> SUFFICES ASSUME ConnectionInit PROVE ConnectionInv
  OBVIOUS
<1>1. ConnectionTypeOK
  BY DEF ConnectionInit, ConnectionTypeOK
<1>2. PresentInv /\ PastInv /\ OriginInv
  BY DEF ConnectionInit, PresentInv, PastInv, OriginInv
<1> QED BY <1>1, <1>2 DEF ConnectionInv

\* Every step of a connection handler keeps it, and so does every other step.
LEMMA ConnectionInvStep == ConnectionInv /\ [ConnectionNext]_connectionVars => ConnectionInv'
<1> SUFFICES ASSUME ConnectionInv, [ConnectionNext]_connectionVars PROVE ConnectionInv'
  OBVIOUS
<1>1. ASSUME NEW c \in Chain, NEW version \in Offer[c], ConnOpenInit(c, version)
      PROVE  ConnectionInv'
  BY <1>1, ConnOpenInitKeeps
<1>2. ASSUME NEW c \in Chain, NEW y \in ConnectionId, NEW version \in Version,
             ConnOpenTryNew(c, y, version)
      PROVE  ConnectionInv'
  BY <1>2, ConnOpenTryNewKeeps
<1>3. ASSUME NEW c \in Chain, NEW x \in ConnectionId, NEW y \in ConnectionId,
             NEW version \in Version, ConnOpenTryPrevious(c, x, y, version)
      PROVE  ConnectionInv'
  BY <1>3, ConnOpenTryPreviousKeeps
<1>4. ASSUME NEW c \in Chain, NEW x \in ConnectionId, NEW y \in ConnectionId,
             NEW version \in Version, ConnOpenAck(c, x, y, version)
      PROVE  ConnectionInv'
  BY <1>4, ConnOpenAckKeeps
<1>5. ASSUME NEW c \in Chain, NEW x \in ConnectionId, ConnOpenConfirm(c, x)
      PROVE  ConnectionInv'
  BY <1>5, ConnOpenConfirmKeeps
<1>6. CASE UNCHANGED connectionVars
  <2>1. connection' = connection /\ nextConnection' = nextConnection
        /\ pastConnection' = pastConnection
    BY <1>6 DEF connectionVars
  <2>2. ConnectionTypeOK'
    BY <2>1 DEF ConnectionInv, ConnectionTypeOK
  <2>3. PresentInv' /\ PastInv'
    BY <2>1 DEF ConnectionInv, PresentInv, PastInv
  <2>4. OriginInv'
    <3> SUFFICES ASSUME NEW c \in Chain, NEW x \in ConnectionId, NEW r \in Connection,
                        <<x, r>> \in pastConnection'[c]
                 PROVE  Origin(c, r)'
      BY DEF OriginInv
    <3>1. Origin(c, r)
      BY <2>1 DEF ConnectionInv, OriginInv
    <3> QED BY <3>1, <2>1 DEF Origin
  <2> QED BY <2>2, <2>3, <2>4 DEF ConnectionInv
<1> QED BY <1>1, <1>2, <1>3, <1>4, <1>5, <1>6 DEF ConnectionNext

\* The open end rests on an end of the other chain that is in TRYOPEN or OPEN
\* with the same version ever since.
LEMMA ConnectionsAgreeFromInv == ConnectionInv => ConnectionsAgree
<1> SUFFICES ASSUME ConnectionInv, NEW c \in Chain, NEW x \in ConnectionId,
                    connection[c][x].state = "OPEN"
             PROVE  LET peer == connection[Other(c)][connection[c][x].counterparty]
                    IN  /\ peer.state \in {"TRYOPEN", "OPEN"}
                        /\ peer.version = connection[c][x].version
                        /\ \A past \in pastConnection[c] :
                               past[1] = x => connection[c][x].version \subseteq past[2].version
  BY DEF ConnectionsAgree
<1> DEFINE end == connection[c][x]
<1>1. end \in Connection /\ <<x, end>> \in pastConnection[c]
  BY DEF ConnectionInv, ConnectionTypeOK, PresentInv, NoConnection
<1>2. PICK q \in Connection :
            /\ <<end.counterparty, q>> \in pastConnection[Other(c)]
            /\ q.state \in {"TRYOPEN", "OPEN"}
            /\ q.version = end.version
  <2>1. Origin(c, end)
    BY <1>1 DEF ConnectionInv, OriginInv
  <2>2. end.state = "OPEN"
    OBVIOUS
  <2> HIDE DEF end
  <2> QED BY <2>1, <2>2 DEF Origin
<1>3. end.counterparty \in ConnectionId
  BY <1>2, Others DEF ConnectionInv, ConnectionTypeOK
<1>4. Kept(q, connection[Other(c)][end.counterparty])
  BY <1>2, <1>3, Others DEF ConnectionInv, PastInv
<1>5. \A past \in pastConnection[c] : past[1] = x => end.version \subseteq past[2].version
  <2> SUFFICES ASSUME NEW past \in pastConnection[c], past[1] = x
               PROVE  end.version \subseteq past[2].version
    OBVIOUS
  <2>1. past = <<x, past[2]>> /\ past[2] \in Connection
    BY DEF ConnectionInv, ConnectionTypeOK
  <2> QED BY <2>1 DEF ConnectionInv, PastInv, Kept
<1> QED BY <1>2, <1>4, <1>5 DEF Kept

\* An end that was open is open now and as it was.
LEMMA ConfirmFromInv ==
    ASSUME ConnectionInv, NEW c \in Chain, NEW x \in ConnectionId, ConnOpenConfirm(c, x)
    PROVE  LET peer == connection[Other(c)][connection[c][x].counterparty]
           IN  /\ peer.state = "OPEN"
               /\ peer.counterparty = x
               /\ peer.version = connection[c][x].version
<1> DEFINE y == connection[c][x].counterparty
           open == [state |-> "OPEN", counterparty |-> x, version |-> connection[c][x].version]
<1>1. <<y, open>> \in pastConnection[Other(c)]
  BY DEF ConnOpenConfirm, VerifyConnectionState
<1>2. y \in ConnectionId /\ open \in Connection
  BY <1>1, Others DEF ConnectionInv, ConnectionTypeOK
<1>3. Kept(open, connection[Other(c)][y])
  BY <1>1, <1>2, Others DEF ConnectionInv, PastInv
<1>4. open.state = "OPEN" /\ open.counterparty = x /\ open.version = connection[c][x].version
  OBVIOUS
<1>5. connection[Other(c)][y] = open
  <2> HIDE DEF open, y
  <2> QED BY <1>3, <1>4 DEF Kept
<1> QED BY <1>4, <1>5

\* The invariant holds of the connection handshake by itself.
THEOREM ConnectionInvariance == ConnectionSpec => []ConnectionInv
BY ConnectionInvInit, ConnectionInvStep, PTL DEF ConnectionSpec

\* Whatever steps cross, and however old the proofs, open ends agree on a
\* version that both have offered (ConnOpenTry, ConnOpenAck).
THEOREM ConnectionsAgreeHolds == ConnectionSpec => []ConnectionsAgree
BY ConnectionInvariance, ConnectionsAgreeFromInv, PTL

\* After ConnOpenConfirm the connection is open on both chains.
THEOREM ConfirmOpensBothHolds == ConnectionSpec => ConfirmOpensBoth
<1>1. ConnectionInv => [\A c \in Chain : \A x \in ConnectionId :
        ConnOpenConfirm(c, x) =>
            LET peer == connection[Other(c)][connection[c][x].counterparty]
            IN  /\ peer.state = "OPEN"
                /\ peer.counterparty = x
                /\ peer.version = connection[c][x].version]_connectionVars
  BY ConfirmFromInv
<1> QED BY <1>1, ConnectionInvariance, PTL DEF ConfirmOpensBoth

-----------------------------------------------------------------------------
(* Channels: ConnectionInv goes over to ChannelHandshake, whose steps are  *)
(* steps of a connection handler or leave the connections alone.           *)

ChannelTypeOK ==
    /\ channel \in [Chain -> [ChannelId -> Channel \cup {NoChannel}]]
    /\ nextChannel \in [Chain -> Nat \ {0}]
    /\ pastChannel \in [Chain -> SUBSET (ChannelId \X Channel)]

PresentChannelInv ==
    \A c \in Chain : \A x \in ChannelId :
        /\ channel[c][x] # NoChannel => <<x, channel[c][x]>> \in pastChannel[c]
        /\ x >= nextChannel[c] => \A r \in Channel : <<x, r>> \notin pastChannel[c]

\* The ordering and the connection of a channel end never change, and it never
\* goes back to INIT.
KeptChannel(past, cur) ==
    /\ cur.ordering = past.ordering
    /\ cur.hop = past.hop
    /\ past.state # "INIT" => cur.state # "INIT"

PastChannelInv ==
    \A c \in Chain : \A x \in ChannelId : \A r \in Channel :
        <<x, r>> \in pastChannel[c] =>
            channel[c][x] \in Channel /\ KeptChannel(r, channel[c][x])

\* The connection was open and its version settled, and the other chain has
\* stored an end over the same connection that r has answered.
Answer(c, r) ==
    /\ r.state \in {"TRYOPEN", "OPEN"} =>
           ConnectionOpen(c, r.hop) /\ r.ordering \in connection[c][r.hop].version
    /\ r.state = "OPEN" =>
           \E q \in Channel :
               /\ <<r.counterparty, q>> \in pastChannel[Other(c)]
               /\ q.state \in {"TRYOPEN", "OPEN"}
               /\ q.ordering = r.ordering
               /\ q.hop = CounterpartyHop(c, r.hop)

AnswerInv ==
    \A c \in Chain : \A x \in ChannelId : \A r \in Channel :
        <<x, r>> \in pastChannel[c] => Answer(c, r)

ChannelInv == ChannelTypeOK /\ PresentChannelInv /\ PastChannelInv /\ AnswerInv

IInv == ConnectionInv /\ ChannelInv

-----------------------------------------------------------------------------
\* Channel identifiers are positive; every one a chain may generate is one.
LEMMA ChannelIds ==
    /\ ChannelId \subseteq Nat \ {0}
    /\ NoId \notin ChannelId
    /\ \A c \in Chain : \A n \in Nat \ {0} : n <= MaxChannel[c] => n \in ChannelId
BY ConnectionAssumption, ChannelAssumption DEF Chain, ChannelId, Larger, NoId

\* The record that End makes.
LEMMA Ends ==
    ASSUME NEW s \in {"INIT", "TRYOPEN", "OPEN", "CLOSED"}, NEW o \in Order,
           NEW y \in ChannelId \cup {NoId}, NEW h \in ConnectionId
    PROVE  /\ End(s, o, y, h) \in Channel
           /\ End(s, o, y, h).state = s
           /\ End(s, o, y, h).ordering = o
           /\ End(s, o, y, h).counterparty = y
           /\ End(s, o, y, h).hop = h
BY DEF End, Channel

\* The fields of a channel end.
LEMMA Fields ==
    ASSUME NEW r \in Channel
    PROVE  /\ r.state \in {"INIT", "TRYOPEN", "OPEN", "CLOSED"}
           /\ r.ordering \in Order
           /\ r.counterparty \in ChannelId \cup {NoId}
           /\ r.hop \in ConnectionId
BY DEF Channel

\* An end that has a state is stored, and is a channel end.
LEMMA Stored ==
    ASSUME ChannelInv, NEW c \in Chain, NEW x \in ChannelId, channel[c][x].state # "NONE"
    PROVE  /\ channel[c][x] \in Channel
           /\ <<x, channel[c][x]>> \in pastChannel[c]
           /\ x < nextChannel[c]
<1>1. channel[c][x] \in Channel
  BY DEF ChannelInv, ChannelTypeOK, NoChannel
<1>2. <<x, channel[c][x]>> \in pastChannel[c]
  BY <1>1 DEF ChannelInv, PresentChannelInv, NoChannel
<1>3. x < nextChannel[c]
  BY <1>1, <1>2, ChannelIds DEF ChannelInv, ChannelTypeOK, PresentChannelInv
<1> QED BY <1>1, <1>2, <1>3

\* SetChannel keeps the invariant when the end has kept what the past ends of
\* its identifier tell, and has its answer.
LEMMA SetChannelKeeps ==
    ASSUME IInv, UNCHANGED connectionVars,
           NEW c \in Chain, NEW x \in ChannelId, NEW end \in Channel,
           SetChannel(c, x, end),
           nextChannel' \in [Chain -> Nat \ {0}],
           \A d \in Chain : nextChannel[d] <= nextChannel'[d],
           x < nextChannel'[c],
           \A r \in Channel : <<x, r>> \in pastChannel[c] => KeptChannel(r, end),
           Answer(c, end)
    PROVE  ChannelInv'
<1>1. /\ \A d \in Chain : \A y \in ChannelId :
            channel'[d][y] = IF d = c /\ y = x THEN end ELSE channel[d][y]
      /\ \A d \in Chain : \A y \in ChannelId : \A r \in Channel :
            <<y, r>> \in pastChannel'[d] <=>
                \/ <<y, r>> \in pastChannel[d]
                \/ d = c /\ y = x /\ r = end
  BY DEF IInv, ChannelInv, ChannelTypeOK, SetChannel
<1>2. ChannelTypeOK'
  <2>1. channel' \in [Chain -> [ChannelId -> Channel \cup {NoChannel}]]
    <3> DEFINE T == Channel \cup {NoChannel}
    <3>1. channel \in [Chain -> [ChannelId -> T]] /\ end \in T
      BY DEF IInv, ChannelInv, ChannelTypeOK
    <3> HIDE DEF T
    <3>2. channel' \in [Chain -> [ChannelId -> T]]
      BY <3>1 DEF SetChannel
    <3> QED BY <3>2 DEF T
  <2>2. pastChannel' \in [Chain -> SUBSET (ChannelId \X Channel)]
    <3> DEFINE T == ChannelId \X Channel
    <3>1. pastChannel \in [Chain -> SUBSET T] /\ <<x, end>> \in T
      BY DEF IInv, ChannelInv, ChannelTypeOK
    <3> HIDE DEF T
    <3>2. pastChannel' \in [Chain -> SUBSET T]
      BY <3>1 DEF SetChannel
    <3> QED BY <3>2 DEF T
  <2> QED BY <2>1, <2>2 DEF ChannelTypeOK
<1>3. PresentChannelInv'
  <2> SUFFICES ASSUME NEW d \in Chain, NEW y \in ChannelId
               PROVE  /\ channel'[d][y] # NoChannel => <<y, channel'[d][y]>> \in pastChannel'[d]
                      /\ y >= nextChannel'[d] =>
                             \A r \in Channel : <<y, r>> \notin pastChannel'[d]
    BY DEF PresentChannelInv
  <2>1. channel'[d][y] # NoChannel => <<y, channel'[d][y]>> \in pastChannel'[d]
    <3>1. CASE d = c /\ y = x
      BY <3>1, <1>1
    <3>2. CASE ~(d = c /\ y = x)
      BY <3>2, <1>1 DEF IInv, ChannelInv, ChannelTypeOK, PresentChannelInv
    <3> QED BY <3>1, <3>2
  <2>2. y >= nextChannel'[d] => y >= nextChannel[d] /\ ~(d = c /\ y = x)
    BY ChannelIds DEF IInv, ChannelInv, ChannelTypeOK
  <2>3. y >= nextChannel'[d] => \A r \in Channel : <<y, r>> \notin pastChannel'[d]
    BY <2>2, <1>1 DEF IInv, ChannelInv, PresentChannelInv
  <2> QED BY <2>1, <2>3
<1>4. PastChannelInv'
  <2> SUFFICES ASSUME NEW d \in Chain, NEW y \in ChannelId, NEW r \in Channel,
                      <<y, r>> \in pastChannel'[d]
               PROVE  channel'[d][y] \in Channel /\ KeptChannel(r, channel'[d][y])
    BY DEF PastChannelInv
  <2>1. CASE d = c /\ y = x
    <3>1. KeptChannel(end, end)
      BY DEF KeptChannel
    <3> QED BY <3>1, <2>1, <1>1
  <2>2. CASE ~(d = c /\ y = x)
    BY <2>2, <1>1 DEF IInv, ChannelInv, PastChannelInv
  <2> QED BY <2>1, <2>2
<1>5. AnswerInv'
  <2> SUFFICES ASSUME NEW d \in Chain, NEW y \in ChannelId, NEW r \in Channel,
                      <<y, r>> \in pastChannel'[d]
               PROVE  Answer(d, r)'
    BY DEF AnswerInv
  <2>1. Answer(d, r)
    BY <1>1 DEF IInv, ChannelInv, AnswerInv
  <2>2. pastChannel[Other(d)] \subseteq pastChannel'[Other(d)]
    BY Others DEF IInv, ChannelInv, ChannelTypeOK, SetChannel
  <2>3. connection' = connection
    BY DEF connectionVars
  <2> QED BY <2>1, <2>2, <2>3 DEF Answer, ConnectionOpen, CounterpartyHop
<1> QED BY <1>2, <1>3, <1>4, <1>5 DEF ChannelInv

-----------------------------------------------------------------------------
\* GenerateChannelIdentifier gives an identifier that nothing is stored under.
LEMMA Generated ==
    ASSUME ChannelInv, NEW c \in Chain, GenerateChannelIdentifier(c)
    PROVE  /\ nextChannel[c] \in ChannelId
           /\ nextChannel[c] < nextChannel'[c]
           /\ nextChannel' \in [Chain -> Nat \ {0}]
           /\ \A d \in Chain : nextChannel[d] <= nextChannel'[d]
           /\ \A r \in Channel : <<nextChannel[c], r>> \notin pastChannel[c]
<1>1. /\ nextChannel[c] \in ChannelId
      /\ nextChannel[c] < nextChannel'[c]
      /\ nextChannel' \in [Chain -> Nat \ {0}]
      /\ \A d \in Chain : nextChannel[d] <= nextChannel'[d]
  BY ChannelIds DEF GenerateChannelIdentifier, ChannelInv, ChannelTypeOK
<1>2. \A r \in Channel : <<nextChannel[c], r>> \notin pastChannel[c]
  BY <1>1, ChannelIds, nextChannel[c] >= nextChannel[c]
  DEF ChannelInv, ChannelTypeOK, PresentChannelInv
<1> QED BY <1>1, <1>2

\* A step that moves the present end of x on, without going back to INIT, keeps
\* the invariant if the new end has its answer.
LEMMA MoveOnKeeps ==
    ASSUME IInv, UNCHANGED <<connectionVars, nextChannel>>,
           NEW c \in Chain, NEW x \in ChannelId, channel[c][x].state # "NONE",
           NEW s \in {"TRYOPEN", "OPEN", "CLOSED"}, NEW y \in ChannelId \cup {NoId},
           SetChannel(c, x, End(s, channel[c][x].ordering, y, channel[c][x].hop)),
           Answer(c, End(s, channel[c][x].ordering, y, channel[c][x].hop))
    PROVE  ChannelInv'
<1> DEFINE cur == channel[c][x]
           end == End(s, cur.ordering, y, cur.hop)
<1>1. cur \in Channel /\ x < nextChannel[c]
  BY Stored DEF IInv
<1>2. end \in Channel /\ end.state = s /\ end.ordering = cur.ordering /\ end.hop = cur.hop
  BY <1>1, Ends, Fields
<1>3. \A r \in Channel : <<x, r>> \in pastChannel[c] => KeptChannel(r, end)
  <2> SUFFICES ASSUME NEW r \in Channel, <<x, r>> \in pastChannel[c]
               PROVE  KeptChannel(r, end)
    OBVIOUS
  <2>1. KeptChannel(r, cur)
    BY DEF IInv, ChannelInv, PastChannelInv
  <2> HIDE DEF end, cur
  <2> QED BY <2>1, <1>2 DEF KeptChannel
<1>4. /\ nextChannel' \in [Chain -> Nat \ {0}]
      /\ \A d \in Chain : nextChannel[d] <= nextChannel'[d]
      /\ x < nextChannel'[c]
  BY <1>1 DEF IInv, ChannelInv, ChannelTypeOK
<1>5. SetChannel(c, x, end) /\ Answer(c, end) /\ UNCHANGED connectionVars
  OBVIOUS
<1> HIDE DEF end, cur
<1> QED BY <1>2, <1>3, <1>4, <1>5, SetChannelKeeps

\* ChanOpenInit keeps it: an end in INIT rests on nothing.
LEMMA ChanOpenInitKeeps ==
    ASSUME IInv, NEW c \in Chain, NEW order \in Order, NEW hop \in ConnectionId,
           ChanOpenInit(c, order, hop)
    PROVE  ChannelInv'
<1> DEFINE end == End("INIT", order, NoId, hop)
<1>1. end \in Channel /\ end.state = "INIT"
  BY Ends
<1>2. GenerateChannelIdentifier(c) /\ SetChannel(c, nextChannel[c], end)
      /\ UNCHANGED connectionVars
  BY DEF ChanOpenInit
<1> HIDE DEF end
<1>3. Answer(c, end)
  BY <1>1 DEF Answer
<1> QED BY <1>1, <1>2, <1>3, Generated, SetChannelKeeps DEF IInv

\* ChanOpenTry keeps it: it looks the ordering up in the settled version.
LEMMA ChanOpenTryKeeps ==
    ASSUME IInv, NEW c \in Chain, NEW previous \in ChannelId \cup {NoId}, NEW order \in Order,
           NEW hop \in ConnectionId, NEW y \in ChannelId,
           ChanOpenTry(c, previous, order, hop, y)
    PROVE  ChannelInv'
<1> DEFINE end == End("TRYOPEN", order, y, hop)
<1>1. end \in Channel /\ end.state = "TRYOPEN" /\ end.ordering = order /\ end.hop = hop
  BY Ends
<1>2. ConnectionOpen(c, hop) /\ order \in connection[c][hop].version
      /\ UNCHANGED connectionVars
  BY DEF ChanOpenTry
<1>3. Answer(c, end)
  <2> HIDE DEF end
  <2> QED BY <1>1, <1>2 DEF Answer
<1>4. CASE previous = NoId
  <2>1. GenerateChannelIdentifier(c) /\ SetChannel(c, nextChannel[c], end)
    BY <1>4 DEF ChanOpenTry
  <2> HIDE DEF end
  <2> QED BY <1>1, <1>2, <1>3, <2>1, Generated, SetChannelKeeps DEF IInv
<1>5. CASE previous # NoId
  <2>1. /\ previous \in ChannelId
        /\ channel[c][previous] = End("INIT", order, NoId, hop)
        /\ SetChannel(c, previous, end)
        /\ UNCHANGED nextChannel
    BY <1>5 DEF ChanOpenTry
  <2>2. /\ channel[c][previous].state = "INIT"
        /\ channel[c][previous].ordering = order
        /\ channel[c][previous].hop = hop
    BY <2>1, Ends
  <2> QED BY <1>2, <1>3, <2>1, <2>2, MoveOnKeeps
<1> QED BY <1>4, <1>5

\* ChanOpenAck keeps it.  It does not look the ordering up: the other chain has,
\* in ChanOpenTry, and the versions of the two connection ends agree.
LEMMA ChanOpenAckKeeps ==
    ASSUME IInv, NEW c \in Chain, NEW x \in ChannelId, NEW y \in ChannelId, ChanOpenAck(c, x, y)
    PROVE  ChannelInv'
<1> DEFINE cur == channel[c][x]
           end == End("OPEN", cur.ordering, y, cur.hop)
           hop == CounterpartyHop(c, cur.hop)
           q == End("TRYOPEN", cur.ordering, x, hop)
<1>1. cur \in Channel /\ cur.state \in {"INIT", "TRYOPEN"}
  BY Stored DEF ChanOpenAck, IInv
<1>2. cur.ordering \in Order /\ cur.hop \in ConnectionId
  BY <1>1, Fields
<1>3. /\ end.state = "OPEN" /\ end.ordering = cur.ordering
      /\ end.counterparty = y /\ end.hop = cur.hop
  BY <1>2, Ends
<1>4. /\ ConnectionOpen(c, cur.hop) /\ <<y, q>> \in pastChannel[Other(c)]
      /\ SetChannel(c, x, end) /\ UNCHANGED <<connectionVars, nextChannel>>
  BY DEF ChanOpenAck, VerifyChannelState
<1>5. q \in Channel
  BY <1>4, Others DEF IInv, ChannelInv, ChannelTypeOK
<1>6. q.state = "TRYOPEN" /\ q.ordering = cur.ordering /\ q.hop = hop
  BY DEF End
<1>7. cur.ordering \in connection[Other(c)][hop].version
  <2>1. Answer(Other(c), q)
    BY <1>4, <1>5, Others DEF IInv, ChannelInv, AnswerInv
  <2> HIDE DEF q, hop, cur
  <2> QED BY <2>1, <1>6 DEF Answer
<1>8. connection[Other(c)][hop].version = connection[c][cur.hop].version
  BY <1>2, <1>4, ConnectionsAgreeFromInv DEF IInv, ConnectionsAgree, ConnectionOpen, CounterpartyHop
<1>9. Answer(c, end)
  <2> HIDE DEF end, q, cur
  <2> QED BY <1>3, <1>4, <1>5, <1>6, <1>7, <1>8 DEF Answer
<1> QED BY <1>1, <1>4, <1>9, MoveOnKeeps

\* ChanOpenConfirm keeps it: the ordering was looked up in ChanOpenTry.
LEMMA ChanOpenConfirmKeeps ==
    ASSUME IInv, NEW c \in Chain, NEW x \in ChannelId, ChanOpenConfirm(c, x)
    PROVE  ChannelInv'
<1> DEFINE cur == channel[c][x]
           end == End("OPEN", cur.ordering, cur.counterparty, cur.hop)
           hop == CounterpartyHop(c, cur.hop)
           q == End("OPEN", cur.ordering, x, hop)
<1>1. cur \in Channel /\ cur.state = "TRYOPEN" /\ <<x, cur>> \in pastChannel[c]
  BY Stored DEF ChanOpenConfirm, IInv
<1>2. /\ cur.ordering \in Order /\ cur.hop \in ConnectionId
      /\ cur.counterparty \in ChannelId \cup {NoId}
  BY <1>1, Fields
<1>3. /\ end.state = "OPEN" /\ end.ordering = cur.ordering
      /\ end.counterparty = cur.counterparty /\ end.hop = cur.hop
  BY <1>2, Ends
<1>4. /\ ConnectionOpen(c, cur.hop) /\ <<cur.counterparty, q>> \in pastChannel[Other(c)]
      /\ SetChannel(c, x, end) /\ UNCHANGED <<connectionVars, nextChannel>>
  BY DEF ChanOpenConfirm, VerifyChannelState
<1>5. q \in Channel
  BY <1>4, Others DEF IInv, ChannelInv, ChannelTypeOK
<1>6. q.state = "OPEN" /\ q.ordering = cur.ordering /\ q.hop = hop
  BY DEF End
<1>7. cur.ordering \in connection[c][cur.hop].version
  BY <1>1 DEF IInv, ChannelInv, AnswerInv, Answer
<1>8. Answer(c, end)
  <2> HIDE DEF end, q, cur
  <2> QED BY <1>3, <1>4, <1>5, <1>6, <1>7 DEF Answer
<1> QED BY <1>1, <1>2, <1>4, <1>8, MoveOnKeeps

\* Closing keeps it: a closed end rests on nothing.
LEMMA ChanCloseKeeps ==
    ASSUME IInv, NEW c \in Chain, NEW x \in ChannelId,
           ChanCloseInit(c, x) \/ ChanCloseConfirm(c, x)
    PROVE  ChannelInv'
<1> DEFINE cur == channel[c][x]
           end == End("CLOSED", cur.ordering, cur.counterparty, cur.hop)
<1>1. /\ cur.state \in {"INIT", "TRYOPEN", "OPEN"}
      /\ SetChannel(c, x, end) /\ UNCHANGED <<connectionVars, nextChannel>>
  BY DEF ChanCloseInit, ChanCloseConfirm
<1>2. cur \in Channel
  BY <1>1, Stored DEF IInv
<1>3. end.state = "CLOSED" /\ cur.counterparty \in ChannelId \cup {NoId}
  BY <1>2, Ends, Fields
<1>4. Answer(c, end)
  <2> HIDE DEF end
  <2> QED BY <1>3 DEF Answer
<1> QED BY <1>1, <1>3, <1>4, MoveOnKeeps

\* An open connection end never changes again.
LEMMA OpenStays ==
    ASSUME ConnectionInv, [ConnectionNext]_connectionVars,
           NEW c \in Chain, NEW h \in ConnectionId, ConnectionOpen(c, h)
    PROVE  connection'[c][h] = connection[c][h]
<1> DEFINE r == connection[c][h]
<1>1. r \in Connection /\ r.state = "OPEN"
  BY DEF ConnectionInv, ConnectionTypeOK, ConnectionOpen, NoConnection
<1>2. <<h, r>> \in pastConnection[c]
  BY <1>1 DEF ConnectionInv, PresentInv, NoConnection
<1>3. pastConnection[c] \subseteq pastConnection'[c]
  <2>1. CASE UNCHANGED connectionVars
    BY <2>1 DEF connectionVars
  <2>2. ASSUME NEW d \in Chain, NEW x, NEW end, SetConnection(d, x, end)
        PROVE  pastConnection[c] \subseteq pastConnection'[c]
    BY <2>2 DEF SetConnection, ConnectionInv, ConnectionTypeOK
  <2>3. CASE ConnectionNext
    <3>1. ASSUME NEW d \in Chain, NEW version, ConnOpenInit(d, version)
          PROVE  pastConnection[c] \subseteq pastConnection'[c]
      BY <3>1, <2>2 DEF ConnOpenInit
    <3>2. ASSUME NEW d \in Chain, NEW y, NEW version, ConnOpenTryNew(d, y, version)
          PROVE  pastConnection[c] \subseteq pastConnection'[c]
      BY <3>2, <2>2 DEF ConnOpenTryNew
    <3>3. ASSUME NEW d \in Chain, NEW x, NEW y, NEW version,
                 ConnOpenTryPrevious(d, x, y, version) \/ ConnOpenAck(d, x, y, version)
          PROVE  pastConnection[c] \subseteq pastConnection'[c]
      BY <3>3, <2>2 DEF ConnOpenTryPrevious, ConnOpenAck
    <3>4. ASSUME NEW d \in Chain, NEW x, ConnOpenConfirm(d, x)
          PROVE  pastConnection[c] \subseteq pastConnection'[c]
      BY <3>4, <2>2 DEF ConnOpenConfirm
    <3> QED BY <3>1, <3>2, <3>3, <3>4, <2>3 DEF ConnectionNext
  <2> QED BY <2>1, <2>3
<1>4. PastInv'
  BY ConnectionInvStep DEF ConnectionInv
<1>5. Kept(r, connection'[c][h])
  BY <1>1, <1>2, <1>3, <1>4 DEF PastInv
<1> QED BY <1>1, <1>5 DEF Kept

\* A step of a connection handler leaves the answers of the channel ends alone.
LEMMA ConnectionStepKeeps ==
    ASSUME IInv, [ConnectionNext]_connectionVars, UNCHANGED channelVars
    PROVE  ChannelInv'
<1>1. channel' = channel /\ nextChannel' = nextChannel /\ pastChannel' = pastChannel
  BY DEF channelVars
<1>2. ChannelTypeOK'
  BY <1>1 DEF IInv, ChannelInv, ChannelTypeOK
<1>3. PresentChannelInv' /\ PastChannelInv'
  BY <1>1 DEF IInv, ChannelInv, PresentChannelInv, PastChannelInv
<1>4. AnswerInv'
  <2> SUFFICES ASSUME NEW c \in Chain, NEW x \in ChannelId, NEW r \in Channel,
                      <<x, r>> \in pastChannel'[c]
               PROVE  Answer(c, r)'
    BY DEF AnswerInv
  <2>1. Answer(c, r)
    BY <1>1 DEF IInv, ChannelInv, AnswerInv
  <2>2. ConnectionOpen(c, r.hop) => connection'[c][r.hop] = connection[c][r.hop]
    BY Fields, OpenStays DEF IInv
  <2>3. CASE r.state \in {"TRYOPEN", "OPEN"}
    BY <2>1, <2>2, <2>3, <1>1 DEF Answer, ConnectionOpen, CounterpartyHop
  <2>4. CASE r.state \notin {"TRYOPEN", "OPEN"}
    BY <2>4 DEF Answer
  <2> QED BY <2>3, <2>4
<1> QED BY <1>2, <1>3, <1>4 DEF ChannelInv

-----------------------------------------------------------------------------
\* The invariant holds at first.
LEMMA IInvInit == Init => IInv
<1> SUFFICES ASSUME Init PROVE IInv
  OBVIOUS
<1>1. ConnectionInv
  BY ConnectionInvInit DEF Init
<1>2. ChannelTypeOK
  BY DEF Init, ChannelTypeOK
<1>3. PresentChannelInv /\ PastChannelInv /\ AnswerInv
  BY DEF Init, PresentChannelInv, PastChannelInv, AnswerInv
<1> QED BY <1>1, <1>2, <1>3 DEF IInv, ChannelInv

\* Every step is one of a connection handler or leaves the connections alone.
LEMMA ConnectionPart == [Next]_vars => [ConnectionNext]_connectionVars
<1>1. ASSUME NEW c, NEW order, NEW hop, ChanOpenInit(c, order, hop)
      PROVE  UNCHANGED connectionVars
  BY <1>1 DEF ChanOpenInit
<1>2. ASSUME NEW c, NEW previous, NEW order, NEW hop, NEW y,
             ChanOpenTry(c, previous, order, hop, y)
      PROVE  UNCHANGED connectionVars
  BY <1>2 DEF ChanOpenTry
<1>3. ASSUME NEW c, NEW x, NEW y, ChanOpenAck(c, x, y)
      PROVE  UNCHANGED connectionVars
  BY <1>3 DEF ChanOpenAck
<1>4. ASSUME NEW c, NEW x,
             ChanOpenConfirm(c, x) \/ ChanCloseInit(c, x) \/ ChanCloseConfirm(c, x)
      PROVE  UNCHANGED connectionVars
  BY <1>4 DEF ChanOpenConfirm, ChanCloseInit, ChanCloseConfirm
<1>5. UNCHANGED vars => UNCHANGED connectionVars
  BY DEF vars
<1> QED BY <1>1, <1>2, <1>3, <1>4, <1>5 DEF Next

\* Every step keeps the invariant.
LEMMA IInvStep == IInv /\ [Next]_vars => IInv'
<1> SUFFICES ASSUME IInv, [Next]_vars PROVE IInv'
  OBVIOUS
<1>1. ConnectionInv'
  BY ConnectionPart, ConnectionInvStep DEF IInv
<1>2. ASSUME ConnectionNext, UNCHANGED channelVars
      PROVE  ChannelInv'
  BY <1>2, ConnectionStepKeeps
<1>3. ASSUME UNCHANGED vars
      PROVE  ChannelInv'
  BY <1>3, ConnectionStepKeeps DEF vars
<1>4. ASSUME NEW c \in Chain, NEW order \in Order, NEW hop \in ConnectionId,
             ChanOpenInit(c, order, hop)
      PROVE  ChannelInv'
  BY <1>4, ChanOpenInitKeeps
<1>5. ASSUME NEW c \in Chain, NEW previous \in ChannelId \cup {NoId}, NEW order \in Order,
             NEW hop \in ConnectionId, NEW y \in ChannelId,
             ChanOpenTry(c, previous, order, hop, y)
      PROVE  ChannelInv'
  BY <1>5, ChanOpenTryKeeps
<1>6. ASSUME NEW c \in Chain, NEW x \in ChannelId, NEW y \in ChannelId, ChanOpenAck(c, x, y)
      PROVE  ChannelInv'
  BY <1>6, ChanOpenAckKeeps
<1>7. ASSUME NEW c \in Chain, NEW x \in ChannelId, ChanOpenConfirm(c, x)
      PROVE  ChannelInv'
  BY <1>7, ChanOpenConfirmKeeps
<1>8. ASSUME NEW c \in Chain, NEW x \in ChannelId,
             ChanCloseInit(c, x) \/ ChanCloseConfirm(c, x)
      PROVE  ChannelInv'
  BY <1>8, ChanCloseKeeps
<1> QED BY <1>1, <1>2, <1>3, <1>4, <1>5, <1>6, <1>7, <1>8 DEF Next, IInv

\* The invariant gives ChannelsAgree: the present end of the peer has kept what
\* the open end has answered.
LEMMA ChannelsAgreeFromInv == IInv => ChannelsAgree
<1> SUFFICES ASSUME IInv, NEW c \in Chain, NEW x \in ChannelId, channel[c][x].state = "OPEN"
             PROVE  LET end == channel[c][x]
                        peer == channel[Other(c)][end.counterparty]
                    IN  /\ ConnectionOpen(c, end.hop)
                        /\ end.ordering \in connection[c][end.hop].version
                        /\ peer.state \in {"TRYOPEN", "OPEN", "CLOSED"}
                        /\ peer.ordering = end.ordering
                        /\ peer.hop = CounterpartyHop(c, end.hop)
  BY DEF ChannelsAgree
<1> DEFINE end == channel[c][x]
           peer == channel[Other(c)][end.counterparty]
<1>1. end \in Channel /\ <<x, end>> \in pastChannel[c]
  BY Stored DEF IInv
<1>2. Answer(c, end)
  BY <1>1 DEF IInv, ChannelInv, AnswerInv
<1>3. end.state = "OPEN"
  OBVIOUS
<1>4. PICK q \in Channel :
            /\ <<end.counterparty, q>> \in pastChannel[Other(c)]
            /\ q.state \in {"TRYOPEN", "OPEN"}
            /\ q.ordering = end.ordering
            /\ q.hop = CounterpartyHop(c, end.hop)
  <2> HIDE DEF end
  <2> QED BY <1>2, <1>3 DEF Answer
<1>5. end.counterparty \in ChannelId
  BY <1>4, Others DEF IInv, ChannelInv, ChannelTypeOK
<1>6. peer \in Channel /\ KeptChannel(q, peer)
  BY <1>4, <1>5, Others DEF IInv, ChannelInv, PastChannelInv
<1>7. ConnectionOpen(c, end.hop) /\ end.ordering \in connection[c][end.hop].version
  <2> HIDE DEF end
  <2> QED BY <1>2, <1>3 DEF Answer
<1>8. /\ peer.state \in {"TRYOPEN", "OPEN", "CLOSED"}
      /\ peer.ordering = end.ordering
      /\ peer.hop = CounterpartyHop(c, end.hop)
  <2> HIDE DEF end, peer
  <2> QED BY <1>4, <1>6, Fields DEF KeptChannel
<1> QED BY <1>7, <1>8

\* The invariant of both handshakes.
THEOREM HandshakeInvariance == Spec => []IInv
BY IInvInit, IInvStep, PTL DEF Spec

\* Every record that the handlers store is well formed.
THEOREM HandshakeTypeCorrect == Spec => []TypeOK
<1>1. IInv => TypeOK
  BY DEF IInv, ConnectionInv, ChannelInv, ChannelTypeOK, TypeOK
<1> QED BY <1>1, HandshakeInvariance, PTL

\* An open channel runs over an open connection that has its ordering, and over
\* the same connection and with the same ordering as the end it is open to
\* (ChanOpenInit, ChanOpenTry, ChanOpenAck).
THEOREM ChannelsAgreeHolds == Spec => []ChannelsAgree
BY HandshakeInvariance, ChannelsAgreeFromInv, PTL

\* With channels being opened at the same time, connections agree as they do
\* without (ConnOpenTry, ConnOpenAck).
THEOREM ConnectionsAgreeUnderChannels == Spec => []ConnectionsAgree
<1>1. IInv => ConnectionsAgree
  BY ConnectionsAgreeFromInv DEF IInv
<1> QED BY <1>1, HandshakeInvariance, PTL
=============================================================================
