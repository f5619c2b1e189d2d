------------------------- MODULE IBCPackets_proofs -------------------------
(***************************************************************************)
(* Proofs about IBCPackets, for any number of heights and packets, any     *)
(* timeouts, any clocks that do not run backwards, any senders, and any    *)
(* choice of who may close the channel.                                    *)
(*                                                                         *)
(* The difficulty is that a handler acts on an old state of the other      *)
(* chain.  The inductive invariant says what an old state still tells      *)
(* about the present one: what was received or written then is so now      *)
(* (RootInv), and once a packet has timed out at a height, or the end was  *)
(* closed at it, what was not received by then never will be (ExpiryInv).  *)
(***************************************************************************)
EXTENDS IBCPackets, TLAPS

\* Packet n has been received in the state st of a chain, on a channel of ordering o.
Received(o, st, n) ==
    IF o = "ORDERED" THEN n < st.nextSequenceRecv ELSE n \in st.receipts

\* p is committed to by c, now or in a state c can still prove.
Known(c, p) ==
    \/ p \in store[c].commitments
    \/ \E h \in 1..height[c] : p \in root[c][h].commitments

ClientInv == \A c \in Chain : client[c] \subseteq 1..height[Other(c)]

RootInv ==
    \A c \in Chain : \A h \in 1..height[c] :
        /\ root[c][h].state = "CLOSED" => store[c].state = "CLOSED"
        /\ \A n \in Sequence :
            /\ Received(ordering, root[c][h], n) => Received(ordering, store[c], n)
            /\ root[c][h].acks[n] # "none" => store[c].acks[n] = root[c][h].acks[n]

DeliveredInv ==
    \A c \in Chain : \A n \in Sequence :
        /\ delivered[c][n] = store[Other(c)].acks[n]
        /\ delivered[c][n] # "none" <=> Received(ordering, store[Other(c)], n)

SentInv ==
    \A c \in Chain :
        /\ \A p \in Packet : Known(c, p) => p.sequence < nextSequenceSend[c]
        /\ \A n \in Sequence :
            delivered[c][n] # "none" \/ settled[c][n] # "none" => n < nextSequenceSend[c]

UniqueInv ==
    \A c \in Chain : \A p, q \in Packet :
        Known(c, p) /\ Known(c, q) /\ p.sequence = q.sequence => p = q

CommitInv ==
    \A c \in Chain : \A p \in store[c].commitments : settled[c][p.sequence] = "none"

ExpiryInv ==
    \A c \in Chain : \A p \in Packet : \A h \in 1..height[Other(c)] :
        /\ Known(c, p)
        /\ TimedOut(p, Other(c), h) \/ root[Other(c)][h].state = "CLOSED"
        /\ Received(ordering, store[Other(c)], p.sequence)
        => Received(ordering, root[Other(c)][h], p.sequence)

TimeoutInv ==
    \A c \in Chain : \A n \in Sequence :
        settled[c][n] = "timeout" =>
            /\ delivered[c][n] = "none"
            /\ \A p \in Packet :
                Known(c, p) /\ p.sequence = n =>
                    TimedOut(p, Other(c), height[Other(c)]) \/ store[Other(c)].state = "CLOSED"

AckInv ==
    \A c \in Chain : \A n \in Sequence :
        /\ settled[c][n] \in Ack => delivered[c][n] = settled[c][n]
        /\ ordering = "ORDERED" /\ n < nextSequenceAck[c] => settled[c][n] # "none"

IInv ==
    /\ TypeOK
    /\ ClientInv
    /\ RootInv
    /\ DeliveredInv
    /\ SentInv
    /\ UniqueInv
    /\ CommitInv
    /\ ExpiryInv
    /\ TimeoutInv
    /\ AckInv

LEMMA OtherOther == \A c \in Chain : Other(c) \in Chain /\ Other(c) # c /\ Other(Other(c)) = c
  BY ChainAssumption DEF Chain, Other

\* Once timed out at a height of the destination, always timed out (block times
\* do not decrease).
LEMMA TimedOutStays ==
    ASSUME NEW p \in Packet, NEW d \in Chain, NEW h \in Height, NEW k \in Height,
           h <= k, TimedOut(p, d, h)
    PROVE  TimedOut(p, d, k)
<1>1. p.timeout[1] \in Nat /\ p.timeout[2] \in Nat
  BY TimeoutAssumption DEF Packet
<1>2. h \in Nat /\ k \in Nat
  BY BoundAssumption DEF Height
<1>3. BlockTime[d][h] \in Nat /\ BlockTime[d][k] \in Nat /\ BlockTime[d][h] <= BlockTime[d][k]
  BY TimeAssumption
<1>q. QED
  BY <1>1, <1>2, <1>3 DEF TimedOut

\* A chain's heights are heights.
LEMMA PastHeights ==
    ASSUME TypeOK, NEW c \in Chain
    PROVE  /\ height[c] \in Height
           /\ \A h \in 1..height[c] : h \in Height /\ h <= height[c]
  BY BoundAssumption DEF TypeOK, Height

LEMMA NotReceived ==
    ASSUME NEW o, NEW st, NEW n \in Nat, st.nextSequenceRecv \in Nat,
           IF o = "ORDERED" THEN st.nextSequenceRecv <= n ELSE n \notin st.receipts
    PROVE  ~Received(o, st, n)
  BY DEF Received

LEMMA InitInv == Init => IInv
<1> SUFFICES ASSUME Init PROVE IInv
  OBVIOUS
<1> USE BoundAssumption
<1>1. \A state \in {"TRYOPEN", "OPEN"} : OpenStore(state) \in Store
  BY DEF OpenStore, Store, Sequence, Ack
<1>2. PICK opened \in Chain :
         store = [c \in Chain |-> OpenStore(IF c = opened THEN "OPEN" ELSE "TRYOPEN")]
  BY DEF Init
<1>3. store \in [Chain -> Store]
  BY <1>1, <1>2
<1>4. 1 \in Height
  BY DEF Height, Chain
<1>5. TypeOK
  BY <1>3, <1>4 DEF Init, TypeOK, Ack
<1>6. \A c \in Chain : /\ store[c].state # "CLOSED"
                       /\ store[c].commitments = {}
                       /\ \A n \in Sequence : store[c].acks[n] = "none" /\ ~Received(ordering, store[c], n)
  BY <1>2 DEF OpenStore, Received, Sequence
<1>7. \A c \in Chain : height[c] = 1 /\ root[c][1] = store[c]
  BY <1>4 DEF Init
<1>8. \A c \in Chain, p \in Packet : ~Known(c, p)
  BY <1>6, <1>7 DEF Known
<1>9. ClientInv
  BY <1>7, OtherOther DEF Init, ClientInv
<1>10. RootInv
  BY <1>7 DEF RootInv
<1>11. DeliveredInv
  BY <1>6, OtherOther DEF Init, DeliveredInv
<1>12. SentInv /\ UniqueInv /\ CommitInv
  BY <1>6, <1>8 DEF Init, SentInv, UniqueInv, CommitInv
<1>13. ExpiryInv
  BY <1>8 DEF ExpiryInv
<1>14. TimeoutInv
  BY DEF Init, TimeoutInv
<1>15. AckInv
  BY DEF Init, AckInv, Sequence, Ack
<1>q. QED
  BY <1>5, <1>9, <1>10, <1>11, <1>12, <1>13, <1>14, <1>15 DEF IInv

-----------------------------------------------------------------------------
(* What several actions have in common.                                    *)

\* The old states stay true of a store in which nothing is taken back.
LEMMA RootInvKept ==
    ASSUME RootInv, UNCHANGED <<ordering, root, height>>,
           \A d \in Chain : store[d].state = "CLOSED" => store'[d].state = "CLOSED",
           \A d \in Chain : \A m \in Sequence :
               /\ Received(ordering, store[d], m) => Received(ordering, store'[d], m)
               /\ store[d].acks[m] # "none" => store'[d].acks[m] = store[d].acks[m]
    PROVE  RootInv'
<1> SUFFICES ASSUME NEW d \in Chain, NEW h \in 1..height[d]
             PROVE  /\ root[d][h].state = "CLOSED" => store'[d].state = "CLOSED"
                    /\ \A m \in Sequence :
                        /\ Received(ordering, root[d][h], m) => Received(ordering, store'[d], m)
                        /\ root[d][h].acks[m] # "none" => store'[d].acks[m] = root[d][h].acks[m]
  BY DEF RootInv
<1>1. /\ root[d][h].state = "CLOSED" => store[d].state = "CLOSED"
      /\ \A m \in Sequence :
          /\ Received(ordering, root[d][h], m) => Received(ordering, store[d], m)
          /\ root[d][h].acks[m] # "none" => store[d].acks[m] = root[d][h].acks[m]
  BY DEF RootInv
<1>q. QED
  BY <1>1

LEMMA DeliveredInvKept ==
    ASSUME DeliveredInv, UNCHANGED <<ordering, delivered>>,
           \A d \in Chain : \A m \in Sequence :
               /\ Received(ordering, store'[d], m) <=> Received(ordering, store[d], m)
               /\ store'[d].acks[m] = store[d].acks[m]
    PROVE  DeliveredInv'
<1> SUFFICES ASSUME NEW d \in Chain, NEW m \in Sequence
             PROVE  /\ delivered[d][m] = store'[Other(d)].acks[m]
                    /\ delivered[d][m] # "none" <=> Received(ordering, store'[Other(d)], m)
  BY DEF DeliveredInv
<1>1. /\ delivered[d][m] = store[Other(d)].acks[m]
      /\ delivered[d][m] # "none" <=> Received(ordering, store[Other(d)], m)
  BY DEF DeliveredInv
<1>q. QED
  BY <1>1, OtherOther

\* Nothing new is committed to and nothing is received.
LEMMA ExpiryInvKept ==
    ASSUME ExpiryInv, UNCHANGED <<ordering, root, height>>,
           \A d \in Chain, q \in Packet : Known(d, q)' => Known(d, q),
           \A d \in Chain : \A m \in Sequence :
               Received(ordering, store'[d], m) <=> Received(ordering, store[d], m)
    PROVE  ExpiryInv'
<1> SUFFICES ASSUME NEW d \in Chain, NEW q \in Packet, NEW h \in 1..height[Other(d)],
                    Known(d, q)',
                    TimedOut(q, Other(d), h) \/ root[Other(d)][h].state = "CLOSED",
                    Received(ordering, store'[Other(d)], q.sequence)
             PROVE  Received(ordering, root[Other(d)][h], q.sequence)
  BY DEF ExpiryInv
<1>1. q.sequence \in Sequence
  BY DEF Packet
<1>2. Known(d, q) /\ Received(ordering, store[Other(d)], q.sequence)
  BY <1>1, OtherOther
<1>q. QED
  BY <1>2 DEF ExpiryInv

LEMMA TimeoutInvKept ==
    ASSUME TimeoutInv, UNCHANGED <<height, delivered, settled>>,
           \A d \in Chain, q \in Packet :
               Known(d, q)' => Known(d, q) \/ settled[d][q.sequence] # "timeout",
           \A d \in Chain : store[d].state = "CLOSED" => store'[d].state = "CLOSED"
    PROVE  TimeoutInv'
<1> SUFFICES ASSUME NEW d \in Chain, NEW n \in Sequence, settled[d][n] = "timeout"
             PROVE  /\ delivered[d][n] = "none"
                    /\ \A q \in Packet :
                        Known(d, q)' /\ q.sequence = n =>
                            \/ TimedOut(q, Other(d), height[Other(d)])
                            \/ store'[Other(d)].state = "CLOSED"
  BY DEF TimeoutInv
<1>1. /\ delivered[d][n] = "none"
      /\ \A q \in Packet :
          Known(d, q) /\ q.sequence = n =>
              TimedOut(q, Other(d), height[Other(d)]) \/ store[Other(d)].state = "CLOSED"
  BY DEF TimeoutInv
<1>q. QED
  BY <1>1, OtherOther

-----------------------------------------------------------------------------
(* The chains and their clients.                                           *)

LEMMA NextBlockInv ==
    ASSUME IInv, NEW c \in Chain, NextBlock(c)
    PROVE  IInv'
<1> DEFINE next == IF height[c] < LastHeight[c] THEN height[c] + 1 ELSE height[c]
<1>0. TypeOK
  BY DEF IInv
<1>1. next \in Height /\ height[c] \in Height /\ height[c] <= next
  BY <1>0, BoundAssumption DEF TypeOK, Height
<1>2. /\ height' = [height EXCEPT ![c] = next]
      /\ root' = [root EXCEPT ![c][next] = store[c]]
      /\ UNCHANGED <<ordering, store, client, nextSequenceSend, nextSequenceAck, delivered, settled>>
  BY DEF NextBlock, appVars
<1> HIDE DEF next
<1>3. \A d \in Chain : /\ height[d] \in Height /\ height'[d] \in Height /\ height[d] <= height'[d]
                       /\ 1..height[d] \subseteq 1..height'[d]
                       /\ 1..height'[d] \subseteq Height
  BY <1>0, <1>1, <1>2, BoundAssumption DEF TypeOK, Height
<1>4. \A d \in Chain : \A h \in 1..height'[d] :
         \/ root'[d][h] = store[d]
         \/ h \in 1..height[d] /\ root'[d][h] = root[d][h]
  <2> SUFFICES ASSUME NEW d \in Chain, NEW h \in 1..height'[d], root'[d][h] # store[d]
               PROVE  h \in 1..height[d] /\ root'[d][h] = root[d][h]
    OBVIOUS
  <2>1. h \in Height
    BY <1>3
  <2>2. root'[d][h] = IF d = c /\ h = next THEN store[c] ELSE root[d][h]
    BY <2>1, <1>0, <1>2 DEF TypeOK
  <2>3. ~(d = c /\ h = next)
    BY <2>2
  <2>q. QED
    BY <2>1, <2>2, <2>3, <1>0, <1>1, <1>2, BoundAssumption DEF next, TypeOK, Height
<1>5. TypeOK'
  BY <1>0, <1>1, <1>2 DEF TypeOK
<1>6. ClientInv'
  BY <1>2, <1>3, OtherOther DEF IInv, ClientInv
<1>8. RootInv'
  BY <1>2, <1>4 DEF IInv, RootInv
<1>9. DeliveredInv'
  BY <1>2 DEF IInv, DeliveredInv
<1>10. \A d \in Chain, p \in Packet : Known(d, p)' => Known(d, p)
  BY <1>2, <1>4 DEF Known
<1>11. SentInv'
  BY <1>2, <1>10 DEF IInv, SentInv
<1>12. UniqueInv'
  BY <1>10 DEF IInv, UniqueInv
<1>13. CommitInv'
  BY <1>2 DEF IInv, CommitInv
<1>14. ExpiryInv'
  BY <1>2, <1>4, <1>10, OtherOther DEF IInv, ExpiryInv
<1>15. TimeoutInv'
  <2> SUFFICES ASSUME NEW d \in Chain, NEW n \in Sequence, settled[d][n] = "timeout"
               PROVE  /\ delivered[d][n] = "none"
                      /\ \A p \in Packet :
                          Known(d, p)' /\ p.sequence = n =>
                              \/ TimedOut(p, Other(d), height'[Other(d)])
                              \/ store[Other(d)].state = "CLOSED"
    BY <1>2 DEF TimeoutInv
  <2>q. QED
    BY <1>3, <1>10, OtherOther, TimedOutStays DEF IInv, TimeoutInv
<1>16. AckInv'
  BY <1>2 DEF IInv, AckInv
<1>q. QED
  BY <1>5, <1>6, <1>8, <1>9, <1>11, <1>12, <1>13, <1>14, <1>15, <1>16 DEF IInv

\* What the invariant says does not depend on the client, except ClientInv.
LEMMA UpdateClientInv ==
    ASSUME IInv, NEW c \in Chain, NEW h \in Height, UpdateClient(c, h)
    PROVE  IInv'
<1>1. /\ client' = [client EXCEPT ![c] = @ \cup {h}]
      /\ h <= height[Other(c)]
      /\ UNCHANGED <<ordering, store, root, height, nextSequenceSend, nextSequenceAck, delivered, settled>>
  BY DEF UpdateClient, appVars
<1>2. TypeOK'
  BY <1>1 DEF IInv, TypeOK
<1>3. h \in 1..height[Other(c)]
  BY <1>1, OtherOther, BoundAssumption DEF IInv, TypeOK, Height
<1>4. ClientInv'
  BY <1>1, <1>3 DEF IInv, TypeOK, ClientInv
<1>5. \A d \in Chain, q \in Packet : Known(d, q)' <=> Known(d, q)
  BY <1>1 DEF Known
<1>6. RootInv' /\ DeliveredInv'
  BY <1>1, RootInvKept, DeliveredInvKept DEF IInv
<1>7. SentInv' /\ UniqueInv' /\ CommitInv'
  BY <1>1, <1>5 DEF IInv, SentInv, UniqueInv, CommitInv
<1>8. ExpiryInv' /\ TimeoutInv'
  BY <1>1, <1>5, ExpiryInvKept, TimeoutInvKept DEF IInv
<1>9. AckInv'
  BY <1>1 DEF IInv, AckInv
<1>q. QED
  BY <1>2, <1>4, <1>6, <1>7, <1>8, <1>9 DEF IInv

LEMMA StutterInv ==
    ASSUME IInv, UNCHANGED vars
    PROVE  IInv'
<1>1. UNCHANGED <<ordering, store, root, height, client,
                  nextSequenceSend, nextSequenceAck, delivered, settled>>
  BY DEF vars
<1>2. \A d \in Chain, q \in Packet : Known(d, q)' <=> Known(d, q)
  BY <1>1 DEF Known
<1>3. TypeOK' /\ ClientInv' /\ CommitInv' /\ AckInv'
  BY <1>1 DEF IInv, TypeOK, ClientInv, CommitInv, AckInv
<1>4. RootInv' /\ DeliveredInv'
  BY <1>1, RootInvKept, DeliveredInvKept DEF IInv
<1>5. SentInv' /\ UniqueInv'
  BY <1>1, <1>2 DEF IInv, SentInv, UniqueInv
<1>6. ExpiryInv' /\ TimeoutInv'
  BY <1>1, <1>2, ExpiryInvKept, TimeoutInvKept DEF IInv
<1>q. QED
  BY <1>3, <1>4, <1>5, <1>6 DEF IInv

-----------------------------------------------------------------------------
(* Packets.                                                                *)

\* The packet sent is new: no state of the other chain has it received.
LEMMA SendPacketInv ==
    ASSUME IInv, NEW c \in Chain, NEW p \in Packet, SendPacket(c, p)
    PROVE  IInv'
<1>0. TypeOK
  BY DEF IInv
<1>s. /\ store' = [store EXCEPT ![c].commitments = @ \cup {p}]
      /\ nextSequenceSend' = [nextSequenceSend EXCEPT ![c] = @ + 1]
  BY DEF SendPacket
<1>1. /\ p.sequence = nextSequenceSend[c]
      /\ UNCHANGED <<ordering, root, height, client, nextSequenceAck, delivered, settled>>
  BY DEF SendPacket, appVars
<1>a. /\ \A d \in Chain : store[d] \in Store /\ (d # c => store'[d] = store[d])
      /\ store'[c] = [store[c] EXCEPT !.commitments = @ \cup {p}]
      /\ store' = [d \in Chain |-> store'[d]]
  BY <1>0, <1>s DEF TypeOK
<1>b. /\ store'[c] \in Store
      /\ store'[c].commitments = store[c].commitments \cup {p}
      /\ store'[c].state = store[c].state
      /\ store'[c].receipts = store[c].receipts
      /\ store'[c].acks = store[c].acks
      /\ store'[c].nextSequenceRecv = store[c].nextSequenceRecv
  <2>1. store[c] \in Store /\ store'[c] = [store[c] EXCEPT !.commitments = @ \cup {p}]
    BY <1>a
  <2>q. QED
    BY <2>1 DEF Store
<1>2. \A d \in Chain : /\ store'[d].commitments = IF d = c THEN store[d].commitments \cup {p}
                                                           ELSE store[d].commitments
                       /\ store'[d].state = store[d].state
                       /\ store'[d].receipts = store[d].receipts
                       /\ store'[d].acks = store[d].acks
                       /\ store'[d].nextSequenceRecv = store[d].nextSequenceRecv
  BY <1>a, <1>b
<1>3. \A d \in Chain, n \in Sequence : Received(ordering, store'[d], n) <=> Received(ordering, store[d], n)
  BY <1>2 DEF Received
<1>4. p.sequence \in Sequence /\ nextSequenceSend[c] \in Nat
  BY <1>0, BoundAssumption DEF Packet, TypeOK
<1>5. TypeOK'
  <2>1. store' \in [Chain -> Store]
    BY <1>a, <1>b
  <2>2. nextSequenceSend' \in [Chain -> 1..(MaxSequence + 1)]
    BY <1>0, <1>s, <1>1, <1>4, BoundAssumption DEF TypeOK, Sequence
  <2>q. QED
    BY <1>0, <1>1, <2>1, <2>2 DEF TypeOK
<1>6. ClientInv'
  BY <1>1 DEF IInv, ClientInv
<1>7. RootInv'
  BY <1>1, <1>2, <1>3, RootInvKept DEF IInv
<1>8. DeliveredInv'
  BY <1>1, <1>2, <1>3, DeliveredInvKept DEF IInv
<1>9. \A d \in Chain, q \in Packet : Known(d, q)' => Known(d, q) \/ (d = c /\ q = p)
  <2> SUFFICES ASSUME NEW d \in Chain, NEW q \in Packet, Known(d, q)', ~(d = c /\ q = p)
               PROVE  Known(d, q)
    OBVIOUS
  <2>1. q \in store'[d].commitments \/ \E h \in 1..height[d] : q \in root[d][h].commitments
    BY <1>1 DEF Known
  <2>2. q \in store'[d].commitments => q \in store[d].commitments
    BY <1>2
  <2>q. QED
    BY <2>1, <2>2 DEF Known
<1>10. \A d \in Chain : nextSequenceSend[d] \in Nat /\ nextSequenceSend'[d] \in Nat
                        /\ nextSequenceSend[d] <= nextSequenceSend'[d]
  BY <1>0, <1>s, BoundAssumption DEF TypeOK
<1>11. SentInv'
  <2>1. \A d \in Chain, q \in Packet : Known(d, q)' => q.sequence < nextSequenceSend'[d]
    <3>1. \A q \in Packet : q.sequence \in Nat
      BY BoundAssumption DEF Packet, Sequence
    <3>2. p.sequence < nextSequenceSend'[c]
      BY <1>0, <1>s, <1>1, <1>4 DEF TypeOK
    <3>q. QED
      BY <1>9, <1>10, <3>1, <3>2 DEF IInv, SentInv
  <2>q. QED
    BY <1>1, <1>10, <2>1, BoundAssumption DEF IInv, SentInv, Sequence
<1>12. \A q \in Packet : Known(c, q) => q.sequence # p.sequence
  BY <1>1, <1>4 DEF IInv, SentInv
<1>13. UniqueInv'
  BY <1>9, <1>12 DEF IInv, UniqueInv
<1>14. delivered[c][p.sequence] = "none" /\ settled[c][p.sequence] = "none"
  BY <1>1, <1>4 DEF IInv, SentInv
<1>15. CommitInv'
  BY <1>1, <1>2, <1>14 DEF IInv, CommitInv
<1>16. ExpiryInv'
  <2>1. ~Received(ordering, store[Other(c)], p.sequence)
    BY <1>4, <1>14 DEF IInv, DeliveredInv
  <2>2. \A q \in Packet : q.sequence \in Sequence
    BY DEF Packet
  <2>3. \A d \in Chain, q \in Packet : \A h \in 1..height[Other(d)] :
           /\ Known(d, q)'
           /\ TimedOut(q, Other(d), h) \/ root[Other(d)][h].state = "CLOSED"
           /\ Received(ordering, store'[Other(d)], q.sequence)
           => Received(ordering, root[Other(d)][h], q.sequence)
    BY <1>3, <1>9, <2>1, <2>2, OtherOther DEF IInv, ExpiryInv
  <2>q. QED
    BY <1>1, <2>3 DEF ExpiryInv
<1>17. TimeoutInv'
  BY <1>1, <1>2, <1>9, <1>14, TimeoutInvKept DEF IInv
<1>18. AckInv'
  BY <1>1 DEF IInv, AckInv
<1>q. QED
  BY <1>5, <1>6, <1>7, <1>8, <1>11, <1>13, <1>15, <1>16, <1>17, <1>18 DEF IInv

\* The packet received has not timed out here, and this end is open: by
\* TimeoutInv its sender has not been told of a timeout.
LEMMA RecvPacketInv ==
    ASSUME IInv, NEW c \in Chain, NEW p \in Packet, NEW ph \in client[c], NEW ack \in Ack,
           RecvPacket(c, p, ph, ack)
    PROVE  IInv'
<1>0. TypeOK
  BY DEF IInv
<1> DEFINE n == p.sequence
<1> DEFINE new == WriteReceived(store[c], p, ack)
<1>a. /\ store' = [store EXCEPT ![c] = new]
      /\ delivered' = [delivered EXCEPT ![Other(c)][n] = ack]
  BY DEF RecvPacket
<1> HIDE DEF new
<1>1. UNCHANGED <<ordering, root, height, client, nextSequenceSend, nextSequenceAck, settled>>
  BY DEF RecvPacket
<1>2. /\ store[c].state = "OPEN"
      /\ ~TimedOut(p, c, height[c])
      /\ p \in root[Other(c)][ph].commitments
      /\ ordering = "ORDERED" => n = store[c].nextSequenceRecv
      /\ store[c].acks[n] = "none"
  BY DEF RecvPacket, ProvenAt
<1>3. n \in Sequence /\ n \in Nat
  BY BoundAssumption DEF Packet, Sequence
<1>4. Known(Other(c), p)
  BY <1>2, OtherOther DEF IInv, ClientInv, Known
<1> DEFINE R == IF ordering = "ORDERED" THEN store[c].receipts ELSE store[c].receipts \cup {n}
<1> DEFINE k == IF ordering = "ORDERED" THEN store[c].nextSequenceRecv + 1
                                       ELSE store[c].nextSequenceRecv
<1>d. /\ \A d \in Chain : store[d] \in Store
      /\ \A d \in Chain \ {c} : store'[d] = store[d]
  BY <1>0, <1>a DEF TypeOK
<1>e. store'[c] = new /\ store' = [d \in Chain |-> store'[d]]
  BY <1>0, <1>a DEF TypeOK
<1>f. R \in SUBSET Sequence /\ k \in 1..(MaxSequence + 1)
  <2>1. store[c].receipts \in SUBSET Sequence /\ store[c].nextSequenceRecv \in 1..(MaxSequence + 1)
    BY <1>d DEF Store
  <2>q. QED
    <3>1. R \in SUBSET Sequence
      BY <1>3, <2>1
    <3>2. CASE ordering = "ORDERED"
      <4>1. store[c].nextSequenceRecv \in Sequence
        BY <3>2, <1>2, <1>3
      <4>2. store[c].nextSequenceRecv + 1 \in 1..(MaxSequence + 1)
        BY <4>1, BoundAssumption DEF Sequence
      <4>q. QED
        BY <3>1, <3>2, <4>2
    <3>3. CASE ordering # "ORDERED"
      BY <3>1, <3>3, <2>1
    <3>q. QED
      BY <3>2, <3>3
<1>5. /\ store'[c] \in Store
      /\ store'[c].commitments = store[c].commitments
      /\ store'[c].state = store[c].state
      /\ store'[c].receipts = R
      /\ store'[c].nextSequenceRecv = k
      /\ store'[c].acks = [store[c].acks EXCEPT ![n] = ack]
  <2>1. store[c] \in Store
    BY <1>d
  <2>2. [store[c].acks EXCEPT ![n] = ack] \in [Sequence -> Ack \cup {"none"}]
    BY <2>1, <1>3 DEF Store
  <2>3. /\ store'[c].commitments = store[c].commitments
        /\ store'[c].state = store[c].state
        /\ store'[c].receipts = R
        /\ store'[c].nextSequenceRecv = k
        /\ store'[c].acks = [store[c].acks EXCEPT ![n] = ack]
    BY <2>1, <1>e DEF Store, new, WriteReceived
  <2>4. store'[c] \in Store
    BY <2>1, <2>2, <1>e, <1>f DEF Store, new, WriteReceived
  <2>q. QED
    BY <2>3, <2>4
<1> HIDE DEF R, k
<1>b. \A d \in Chain : store'[d].commitments = store[d].commitments
  BY <1>d, <1>5
<1>c. \A d \in Chain : store'[d].state = store[d].state
  BY <1>d, <1>5
<1> HIDE DEF n
<1>6. \A m \in Sequence : Received(ordering, store'[c], m) <=> Received(ordering, store[c], m) \/ m = n
  <2>1. store[c].nextSequenceRecv \in Nat
    BY <1>0, BoundAssumption DEF TypeOK, Store
  <2>q. QED
    <3>1. CASE ordering = "ORDERED"
      <4>1. store'[c].nextSequenceRecv = store[c].nextSequenceRecv + 1 /\ n = store[c].nextSequenceRecv
        BY <3>1, <1>2, <1>5 DEF k
      <4>2. \A m \in Sequence : m \in Nat
        BY BoundAssumption DEF Sequence
      <4>q. QED
        BY <3>1, <4>1, <4>2, <2>1 DEF Received
    <3>2. CASE ordering # "ORDERED"
      <4>1. store'[c].receipts = store[c].receipts \cup {n}
        BY <3>2, <1>5 DEF R
      <4>q. QED
        BY <3>2, <4>1 DEF Received
    <3>q. QED
      BY <3>1, <3>2
<1>7. \A m \in Sequence : store'[c].acks[m] = IF m = n THEN ack ELSE store[c].acks[m]
  BY <1>0, <1>5 DEF TypeOK, Store
<1>8. \A d \in Chain, m \in Sequence :
         delivered'[d][m] = IF d = Other(c) /\ m = n THEN ack ELSE delivered[d][m]
  BY <1>0, <1>a, OtherOther DEF TypeOK
<1>9. ack # "none" /\ delivered[Other(c)][n] = "none" /\ ~Received(ordering, store[c], n)
  <2>1. Other(c) \in Chain /\ Other(Other(c)) = c
    BY OtherOther
  <2>2. /\ delivered[Other(c)][n] = store[c].acks[n]
        /\ delivered[Other(c)][n] # "none" <=> Received(ordering, store[c], n)
    BY <2>1, <1>3 DEF IInv, DeliveredInv
  <2>q. QED
    BY <2>2, <1>2 DEF Ack
<1>10. TypeOK'
  <2>1. store' \in [Chain -> Store]
    BY <1>d, <1>e, <1>5
  <2>2. delivered' \in [Chain -> [Sequence -> Ack \cup {"none"}]]
    BY <1>0, <1>a, OtherOther DEF TypeOK
  <2>q. QED
    BY <1>0, <1>1, <2>1, <2>2 DEF TypeOK
<1>11. ClientInv'
  BY <1>1 DEF IInv, ClientInv
<1>12. RootInv'
  <2>1. \A d \in Chain : \A m \in Sequence :
          /\ Received(ordering, store[d], m) => Received(ordering, store'[d], m)
          /\ store[d].acks[m] # "none" => store'[d].acks[m] = store[d].acks[m]
    BY <1>2, <1>d, <1>6, <1>7
  <2>q. QED
    BY <1>1, <1>c, <2>1, RootInvKept DEF IInv
<1>13. DeliveredInv'
  <2>1. \A d \in Chain, m \in Sequence :
           /\ delivered'[d][m] = store'[Other(d)].acks[m]
           /\ delivered'[d][m] # "none" <=> Received(ordering, store'[Other(d)], m)
    <3> SUFFICES ASSUME NEW d \in Chain, NEW m \in Sequence
                 PROVE  /\ delivered'[d][m] = store'[Other(d)].acks[m]
                        /\ delivered'[d][m] # "none" <=> Received(ordering, store'[Other(d)], m)
      OBVIOUS
    <3>1. /\ delivered[d][m] = store[Other(d)].acks[m]
          /\ delivered[d][m] # "none" <=> Received(ordering, store[Other(d)], m)
      BY DEF IInv, DeliveredInv
    <3>2. CASE d = Other(c)
      BY <3>1, <3>2, <1>6, <1>7, <1>8, <1>9, OtherOther
    <3>3. CASE d # Other(c)
      <4>1. Other(d) \in Chain \ {c}
        BY <3>3, OtherOther
      <4>q. QED
        BY <3>1, <3>3, <4>1, <1>8, <1>d
    <3>q. QED
      BY <3>2, <3>3
  <2>q. QED
    BY <1>1, <2>1 DEF DeliveredInv
<1>14. \A d \in Chain, q \in Packet : Known(d, q)' <=> Known(d, q)
  BY <1>1, <1>b DEF Known
<1>15. SentInv'
  <2>1. \A d \in Chain, q \in Packet : Known(d, q) => q.sequence < nextSequenceSend[d]
    BY DEF IInv, SentInv
  <2>2. n < nextSequenceSend[Other(c)]
    BY <2>1, <1>4, OtherOther DEF n
  <2>3. \A d \in Chain, m \in Sequence :
           delivered'[d][m] # "none" \/ settled[d][m] # "none" => m < nextSequenceSend[d]
    BY <2>2, <1>8 DEF IInv, SentInv
  <2>q. QED
    BY <1>1, <1>14, <2>1, <2>3 DEF SentInv
<1>16. UniqueInv'
  BY <1>14 DEF IInv, UniqueInv
<1>17. CommitInv'
  BY <1>1, <1>b DEF IInv, CommitInv
<1>18. ExpiryInv'
  <2>1. \A q \in Packet : q.sequence \in Sequence
    BY DEF Packet
  <2> SUFFICES ASSUME NEW d \in Chain, NEW q \in Packet, NEW h \in 1..height[Other(d)],
                      Known(d, q),
                      TimedOut(q, Other(d), h) \/ root[Other(d)][h].state = "CLOSED",
                      Received(ordering, store'[Other(d)], q.sequence)
               PROVE  Received(ordering, root[Other(d)][h], q.sequence)
    BY <1>1, <1>14 DEF ExpiryInv
  <2>2. CASE Other(d) = c /\ q.sequence = n
    <3>1. q = p
      BY <2>2, <1>4, OtherOther DEF IInv, UniqueInv, n
    <3>2. ~TimedOut(p, c, h)
      BY <2>2, <1>0, <1>2, PastHeights, TimedOutStays
    <3>3. root[c][h].state # "CLOSED"
      BY <2>2, <1>2 DEF IInv, RootInv
    <3>q. QED
      BY <2>2, <3>1, <3>2, <3>3
  <2>3. CASE ~(Other(d) = c /\ q.sequence = n)
    <3>1. Received(ordering, store[Other(d)], q.sequence)
      BY <2>1, <2>3, <1>d, <1>6, OtherOther
    <3>q. QED
      BY <3>1 DEF IInv, ExpiryInv
  <2>q. QED
    BY <2>2, <2>3
<1>19. settled[Other(c)][n] # "timeout"
  BY <1>2, <1>3, <1>4, OtherOther DEF IInv, TimeoutInv, n
<1>20. TimeoutInv'
  <2> SUFFICES ASSUME NEW d \in Chain, NEW m \in Sequence, settled[d][m] = "timeout"
               PROVE  /\ delivered'[d][m] = "none"
                      /\ \A q \in Packet :
                          Known(d, q) /\ q.sequence = m =>
                              \/ TimedOut(q, Other(d), height[Other(d)])
                              \/ store'[Other(d)].state = "CLOSED"
    BY <1>1, <1>14 DEF TimeoutInv
  <2>1. /\ delivered[d][m] = "none"
        /\ \A q \in Packet :
            Known(d, q) /\ q.sequence = m =>
                TimedOut(q, Other(d), height[Other(d)]) \/ store[Other(d)].state = "CLOSED"
    BY DEF IInv, TimeoutInv
  <2>2. ~(d = Other(c) /\ m = n)
    BY <1>19
  <2>3. delivered'[d][m] = "none"
    BY <2>1, <2>2, <1>8
  <2>4. store'[Other(d)].state = store[Other(d)].state
    BY <1>c, OtherOther
  <2>q. QED
    BY <2>1, <2>3, <2>4
<1>21. AckInv'
  <2>1. settled[Other(c)][n] \notin Ack
    BY <1>3, <1>9, OtherOther DEF IInv, AckInv, Ack
  <2>q. QED
    <3>1. \A d \in Chain, m \in Sequence :
             settled[d][m] \in Ack => delivered'[d][m] = settled[d][m]
      <4> SUFFICES ASSUME NEW d \in Chain, NEW m \in Sequence, settled[d][m] \in Ack
                   PROVE  delivered'[d][m] = settled[d][m]
        OBVIOUS
      <4>1. delivered[d][m] = settled[d][m]
        BY DEF IInv, AckInv
      <4>q. QED
        BY <4>1, <1>8, <2>1
    <3>2. \A d \in Chain, m \in Sequence :
             ordering = "ORDERED" /\ m < nextSequenceAck[d] => settled[d][m] # "none"
      BY DEF IInv, AckInv
    <3>q. QED
      BY <1>1, <3>1, <3>2 DEF AckInv
<1>q. QED
  BY <1>10, <1>11, <1>12, <1>13, <1>15, <1>16, <1>17, <1>18, <1>20, <1>21 DEF IInv

\* Settling packet p of c: its commitment goes, and its outcome is the one that
\* happened.  Shared by AcknowledgePacket, TimeoutPacket and TimeoutOnClose.
LEMMA SettleInv ==
    ASSUME IInv, NEW c \in Chain, NEW p \in store[c].commitments,
           NEW outcome \in Ack \cup {"timeout"},
           outcome \in Ack => delivered[c][p.sequence] = outcome,
           outcome = "timeout" =>
               /\ delivered[c][p.sequence] = "none"
               /\ TimedOut(p, Other(c), height[Other(c)]) \/ store[Other(c)].state = "CLOSED",
           settled' = [settled EXCEPT ![c][p.sequence] = outcome],
           UNCHANGED <<ordering, root, height, client, nextSequenceSend, delivered>>,
           nextSequenceAck' \in [Chain -> 1..(MaxSequence + 1)],
           \A d \in Chain : \A m \in Sequence :
               ordering = "ORDERED" /\ m < nextSequenceAck'[d] =>
                   m < nextSequenceAck[d] \/ (d = c /\ m = p.sequence),
           store' \in [Chain -> Store],
           \A d \in Chain :
               /\ store'[d].commitments = IF d = c THEN store[d].commitments \ {p}
                                                   ELSE store[d].commitments
               /\ store[d].state = "CLOSED" => store'[d].state = "CLOSED"
               /\ store'[d].receipts = store[d].receipts
               /\ store'[d].acks = store[d].acks
               /\ store'[d].nextSequenceRecv = store[d].nextSequenceRecv
    PROVE  IInv'
<1>0. TypeOK
  BY DEF IInv
<1> DEFINE n == p.sequence
<1>1. p \in Packet /\ n \in Sequence
  <2>1. store[c].commitments \subseteq Packet
    BY <1>0 DEF TypeOK, Store
  <2>q. QED
    BY <2>1 DEF Packet
<1>2. \A d \in Chain, m \in Sequence : Received(ordering, store'[d], m) <=> Received(ordering, store[d], m)
  BY DEF Received
<1>a. \A d \in Chain : /\ store[d].state = "CLOSED" => store'[d].state = "CLOSED"
                       /\ store'[d].acks = store[d].acks
  OBVIOUS
<1>3. \A d \in Chain, q \in Packet : Known(d, q)' => Known(d, q)
  BY DEF Known
<1>4. Known(c, p)
  BY DEF Known
<1>5. \A d \in Chain, m \in Sequence :
         settled'[d][m] = IF d = c /\ m = n THEN outcome ELSE settled[d][m]
  BY <1>0, <1>1 DEF TypeOK
<1>6. outcome # "none"
  BY DEF Ack
<1> HIDE DEF n
<1>7. TypeOK'
  <2>1. settled' \in [Chain -> [Sequence -> Ack \cup {"none", "timeout"}]]
    BY <1>0, <1>1 DEF TypeOK, n
  <2>q. QED
    BY <1>0, <2>1 DEF TypeOK
<1>8. ClientInv'
  BY DEF IInv, ClientInv
<1>9. RootInv'
  BY <1>2, <1>a, RootInvKept DEF IInv
<1>10. DeliveredInv'
  BY <1>2, <1>a, DeliveredInvKept DEF IInv
<1>11. SentInv'
  BY <1>1, <1>3, <1>4, <1>5 DEF IInv, SentInv, n
<1>12. UniqueInv'
  BY <1>3 DEF IInv, UniqueInv
<1>13. CommitInv'
  <2> SUFFICES ASSUME NEW d \in Chain, NEW q \in store'[d].commitments
               PROVE  settled'[d][q.sequence] = "none"
    BY DEF CommitInv
  <2>1. q \in store[d].commitments /\ (d = c => q # p)
    OBVIOUS
  <2>2. q \in Packet /\ q.sequence \in Sequence
    <3>1. store[d].commitments \subseteq Packet
      BY <1>0 DEF TypeOK, Store
    <3>q. QED
      BY <2>1, <3>1 DEF Packet
  <2>3. d = c => q.sequence # n
    BY <2>1, <2>2, <1>1, <1>4 DEF IInv, UniqueInv, Known, n
  <2>4. settled[d][q.sequence] = "none"
    BY <2>1 DEF IInv, CommitInv
  <2>q. QED
    BY <2>2, <2>3, <2>4, <1>5
<1>14. ExpiryInv'
  BY <1>2, <1>3, ExpiryInvKept DEF IInv
<1>15. TimeoutInv'
  <2> SUFFICES ASSUME NEW d \in Chain, NEW m \in Sequence, settled'[d][m] = "timeout"
               PROVE  /\ delivered[d][m] = "none"
                      /\ \A q \in Packet :
                          Known(d, q)' /\ q.sequence = m =>
                              \/ TimedOut(q, Other(d), height[Other(d)])
                              \/ store'[Other(d)].state = "CLOSED"
    BY DEF TimeoutInv
  <2>1. CASE d = c /\ m = n
    <3>1. outcome = "timeout"
      BY <2>1, <1>5
    <3>2. \A q \in Packet : Known(d, q)' /\ q.sequence = m => q = p
      BY <2>1, <1>1, <1>3, <1>4 DEF IInv, UniqueInv, n
    <3>q. QED
      BY <2>1, <3>1, <3>2, OtherOther DEF n
  <2>2. CASE ~(d = c /\ m = n)
    <3>1. settled[d][m] = "timeout"
      BY <2>2, <1>5
    <3>2. delivered[d][m] = "none"
      BY <3>1 DEF IInv, TimeoutInv
    <3>3. ASSUME NEW q \in Packet, Known(d, q)', q.sequence = m
          PROVE  \/ TimedOut(q, Other(d), height[Other(d)])
                 \/ store'[Other(d)].state = "CLOSED"
      BY <3>1, <3>3, <1>3, <1>a, OtherOther DEF IInv, TimeoutInv
    <3>q. QED
      BY <3>2, <3>3
  <2>q. QED
    BY <2>1, <2>2
<1>16. AckInv'
  <2>1. \A d \in Chain, m \in Sequence : settled'[d][m] \in Ack => delivered[d][m] = settled'[d][m]
    BY <1>5 DEF IInv, AckInv, n
  <2>2. \A d \in Chain, m \in Sequence :
           ordering = "ORDERED" /\ m < nextSequenceAck'[d] => settled'[d][m] # "none"
    BY <1>5, <1>6 DEF IInv, AckInv, n
  <2>q. QED
    BY <2>1, <2>2 DEF AckInv
<1>q. QED
  BY <1>7, <1>8, <1>9, <1>10, <1>11, <1>12, <1>13, <1>14, <1>15, <1>16 DEF IInv

\* A proof of an acknowledgement of any age is of the one in the store now.
LEMMA AcknowledgePacketInv ==
    ASSUME IInv, NEW c \in Chain, NEW p \in Packet, NEW ph \in client[c], NEW ack \in Ack,
           AcknowledgePacket(c, p, ph, ack)
    PROVE  IInv' /\ delivered[c][p.sequence] = ack
<1>0. TypeOK
  BY DEF IInv
<1>1. p.sequence \in Sequence /\ p \in store[c].commitments
  BY DEF Packet, AcknowledgePacket
<1>2. ph \in 1..height[Other(c)] /\ Other(c) \in Chain
  BY OtherOther DEF IInv, ClientInv
<1>3. root[Other(c)][ph].acks[p.sequence] = ack /\ ack # "none"
  BY DEF AcknowledgePacket, ProvenAt, Ack
<1>4. delivered[c][p.sequence] = ack
  <2>1. store[Other(c)].acks[p.sequence] = ack
    BY <1>1, <1>2, <1>3 DEF IInv, RootInv
  <2>2. delivered[c][p.sequence] = store[Other(c)].acks[p.sequence]
    BY <1>1 DEF IInv, DeliveredInv
  <2>q. QED
    BY <2>1, <2>2
<1>5. /\ settled' = [settled EXCEPT ![c][p.sequence] = ack]
      /\ UNCHANGED <<ordering, root, height, client, nextSequenceSend, delivered>>
  BY DEF AcknowledgePacket
<1>6. /\ nextSequenceAck' \in [Chain -> 1..(MaxSequence + 1)]
      /\ \A d \in Chain : \A m \in Sequence :
             ordering = "ORDERED" /\ m < nextSequenceAck'[d] =>
                 m < nextSequenceAck[d] \/ (d = c /\ m = p.sequence)
  <2>1. /\ ordering = "ORDERED" => p.sequence = nextSequenceAck[c]
        /\ nextSequenceAck' = IF ordering = "ORDERED" THEN [nextSequenceAck EXCEPT ![c] = @ + 1]
                                                      ELSE nextSequenceAck
    BY DEF AcknowledgePacket
  <2>q. QED
    <3>1. nextSequenceAck \in [Chain -> 1..(MaxSequence + 1)]
      BY <1>0 DEF TypeOK
    <3>2. CASE ordering = "ORDERED"
      <4>1. /\ nextSequenceAck' = [nextSequenceAck EXCEPT ![c] = @ + 1]
            /\ nextSequenceAck[c] = p.sequence
        BY <2>1, <3>2
      <4>2. nextSequenceAck[c] + 1 \in 1..(MaxSequence + 1)
        BY <4>1, <1>1, BoundAssumption DEF Sequence
      <4>3. nextSequenceAck' \in [Chain -> 1..(MaxSequence + 1)]
        BY <3>1, <4>1, <4>2
      <4>4. \A m \in Sequence : m < nextSequenceAck[c] + 1 => m < nextSequenceAck[c] \/ m = p.sequence
        BY <4>1, <1>1, BoundAssumption DEF Sequence
      <4>q. QED
        BY <3>1, <4>1, <4>3, <4>4
    <3>3. CASE ordering # "ORDERED"
      BY <2>1, <3>1, <3>3
    <3>q. QED
      BY <3>2, <3>3
<1>7. /\ \A d \in Chain : store[d] \in Store /\ (d # c => store'[d] = store[d])
      /\ store'[c] = [store[c] EXCEPT !.commitments = @ \ {p}]
      /\ store' = [d \in Chain |-> store'[d]]
  BY <1>0 DEF TypeOK, AcknowledgePacket
<1>8. /\ store'[c] \in Store
      /\ store'[c].commitments = store[c].commitments \ {p}
      /\ store'[c].state = store[c].state
      /\ store'[c].receipts = store[c].receipts
      /\ store'[c].acks = store[c].acks
      /\ store'[c].nextSequenceRecv = store[c].nextSequenceRecv
  <2>1. store[c] \in Store /\ store'[c] = [store[c] EXCEPT !.commitments = @ \ {p}]
    BY <1>7
  <2>q. QED
    BY <2>1 DEF Store
<1>9. store' \in [Chain -> Store]
  BY <1>7, <1>8
<1>10. \A d \in Chain :
         /\ store'[d].commitments = IF d = c THEN store[d].commitments \ {p}
                                             ELSE store[d].commitments
         /\ store[d].state = "CLOSED" => store'[d].state = "CLOSED"
         /\ store'[d].receipts = store[d].receipts
         /\ store'[d].acks = store[d].acks
         /\ store'[d].nextSequenceRecv = store[d].nextSequenceRecv
  BY <1>7, <1>8
<1>11. ack \in Ack \cup {"timeout"} /\ ack # "timeout"
  BY DEF Ack
<1>q. QED
  BY <1>1, <1>4, <1>5, <1>6, <1>9, <1>10, <1>11, SettleInv

\* A packet proved unreceived at a height it had timed out by, or at which the
\* other end was closed, is unreceived now.
LEMMA UnreceivedNow ==
    ASSUME IInv, NEW c \in Chain, NEW p \in store[c].commitments, NEW ph \in client[c],
           TimedOut(p, Other(c), ph) \/ root[Other(c)][ph].state = "CLOSED",
           VerifyUnreceived(c, p, ph)
    PROVE  /\ p \in Packet /\ p.sequence \in Sequence
           /\ delivered[c][p.sequence] = "none"
           /\ TimedOut(p, Other(c), height[Other(c)]) \/ store[Other(c)].state = "CLOSED"
<1>0. TypeOK
  BY DEF IInv
<1>1. p \in Packet /\ p.sequence \in Sequence
  <2>1. store[c].commitments \subseteq Packet
    BY <1>0 DEF TypeOK, Store
  <2>q. QED
    BY <2>1 DEF Packet
<1>2. ph \in 1..height[Other(c)] /\ Other(c) \in Chain
  BY OtherOther DEF IInv, ClientInv
<1>3. ~Received(ordering, root[Other(c)][ph], p.sequence)
  <2>1. ph \in Height
    BY <1>0, <1>2, PastHeights
  <2>2. root[Other(c)][ph].nextSequenceRecv \in Nat /\ p.sequence \in Nat
    <3>1. root[Other(c)][ph] \in Store
      BY <1>0, <1>2, <2>1 DEF TypeOK
    <3>2. root[Other(c)][ph].nextSequenceRecv \in 1..(MaxSequence + 1)
      BY <3>1 DEF Store
    <3>q. QED
      BY <1>1, <3>2, BoundAssumption DEF Sequence
  <2>q. QED
    <3>1. IF ordering = "ORDERED"
          THEN root[Other(c)][ph].nextSequenceRecv <= p.sequence
          ELSE p.sequence \notin root[Other(c)][ph].receipts
      BY DEF VerifyUnreceived, ProvenAt
    <3>q. QED
      BY <2>2, <3>1, NotReceived
<1>4. ~Received(ordering, store[Other(c)], p.sequence)
  BY <1>1, <1>2, <1>3 DEF IInv, ExpiryInv, Known
<1>5. delivered[c][p.sequence] = "none"
  BY <1>1, <1>4 DEF IInv, DeliveredInv
<1>6. TimedOut(p, Other(c), height[Other(c)]) \/ store[Other(c)].state = "CLOSED"
  <2>1. CASE TimedOut(p, Other(c), ph)
    BY <2>1, <1>0, <1>1, <1>2, PastHeights, TimedOutStays
  <2>2. CASE root[Other(c)][ph].state = "CLOSED"
    BY <2>2, <1>2 DEF IInv, RootInv
  <2>q. QED
    BY <2>1, <2>2
<1>q. QED
  BY <1>1, <1>5, <1>6

LEMMA TimeoutExecutedInv ==
    ASSUME IInv, NEW c \in Chain, NEW p \in store[c].commitments, p.sequence \in Sequence,
           delivered[c][p.sequence] = "none",
           TimedOut(p, Other(c), height[Other(c)]) \/ store[Other(c)].state = "CLOSED",
           TimeoutExecuted(c, p)
    PROVE  IInv'
<1>0. TypeOK
  BY DEF IInv
<1>1. /\ settled' = [settled EXCEPT ![c][p.sequence] = "timeout"]
      /\ UNCHANGED <<ordering, root, height, client, nextSequenceSend, delivered>>
      /\ nextSequenceAck' = nextSequenceAck
  BY DEF TimeoutExecuted
<1>2. /\ \A d \in Chain : store[d] \in Store /\ (d # c => store'[d] = store[d])
      /\ store'[c] = WriteTimeout(store[c], p)
      /\ store' = [d \in Chain |-> store'[d]]
  BY <1>0 DEF TypeOK, TimeoutExecuted
<1>3. /\ store'[c] \in Store
      /\ store'[c].commitments = store[c].commitments \ {p}
      /\ store[c].state = "CLOSED" => store'[c].state = "CLOSED"
      /\ store'[c].receipts = store[c].receipts
      /\ store'[c].acks = store[c].acks
      /\ store'[c].nextSequenceRecv = store[c].nextSequenceRecv
  <2>1. store[c] \in Store /\ store'[c] = WriteTimeout(store[c], p)
    BY <1>2
  <2>q. QED
    <3>1. store'[c].state = (IF ordering = "ORDERED" THEN "CLOSED" ELSE store[c].state)
      BY <2>1 DEF Store, WriteTimeout
    <3>2. /\ store'[c].commitments = store[c].commitments \ {p}
          /\ store'[c].receipts = store[c].receipts
          /\ store'[c].acks = store[c].acks
          /\ store'[c].nextSequenceRecv = store[c].nextSequenceRecv
      BY <2>1 DEF Store, WriteTimeout
    <3>3. store'[c] \in Store
      <4>1. store[c].commitments \ {p} \in SUBSET Packet
        BY <2>1 DEF Store
      <4>2. (IF ordering = "ORDERED" THEN "CLOSED" ELSE store[c].state) \in {"TRYOPEN", "OPEN", "CLOSED"}
        BY <2>1 DEF Store
      <4>q. QED
        BY <2>1, <4>1, <4>2 DEF Store, WriteTimeout
    <3>q. QED
      BY <3>1, <3>2, <3>3
<1>4. store' \in [Chain -> Store]
  BY <1>2, <1>3
<1>5. \A d \in Chain :
         /\ store'[d].commitments = IF d = c THEN store[d].commitments \ {p}
                                             ELSE store[d].commitments
         /\ store[d].state = "CLOSED" => store'[d].state = "CLOSED"
         /\ store'[d].receipts = store[d].receipts
         /\ store'[d].acks = store[d].acks
         /\ store'[d].nextSequenceRecv = store[d].nextSequenceRecv
  BY <1>2, <1>3
<1>6. "timeout" \in Ack \cup {"timeout"} /\ "timeout" \notin Ack
  BY DEF Ack
<1>7. nextSequenceAck' \in [Chain -> 1..(MaxSequence + 1)]
  BY <1>0, <1>1 DEF TypeOK
<1>q. QED
  BY <1>1, <1>4, <1>5, <1>6, <1>7, SettleInv

-----------------------------------------------------------------------------
(* The handshakes: opening or closing an end that is not closed.           *)

LEMMA SetStateInv ==
    ASSUME IInv, NEW c \in Chain, NEW state \in {"OPEN", "CLOSED"},
           store[c].state # "CLOSED", SetState(c, state)
    PROVE  IInv'
<1>0. TypeOK
  BY DEF IInv
<1>1. UNCHANGED <<ordering, root, height, client, nextSequenceSend, nextSequenceAck, delivered, settled>>
  BY DEF SetState, appVars
<1>2. /\ \A d \in Chain : store[d] \in Store /\ (d # c => store'[d] = store[d])
      /\ store'[c] = [store[c] EXCEPT !.state = state]
      /\ store' = [d \in Chain |-> store'[d]]
  BY <1>0 DEF TypeOK, SetState
<1>3. /\ store'[c] \in Store
      /\ store'[c].commitments = store[c].commitments
      /\ store'[c].receipts = store[c].receipts
      /\ store'[c].acks = store[c].acks
      /\ store'[c].nextSequenceRecv = store[c].nextSequenceRecv
  <2>1. store[c] \in Store /\ store'[c] = [store[c] EXCEPT !.state = state]
    BY <1>2
  <2>q. QED
    BY <2>1 DEF Store
<1>4. \A d \in Chain : /\ store'[d].commitments = store[d].commitments
                       /\ store'[d].receipts = store[d].receipts
                       /\ store'[d].acks = store[d].acks
                       /\ store'[d].nextSequenceRecv = store[d].nextSequenceRecv
                       /\ store[d].state = "CLOSED" => store'[d].state = "CLOSED"
  BY <1>2, <1>3
<1>5. \A d \in Chain, m \in Sequence : Received(ordering, store'[d], m) <=> Received(ordering, store[d], m)
  BY <1>4 DEF Received
<1>6. \A d \in Chain, q \in Packet : Known(d, q)' => Known(d, q)
  BY <1>1, <1>4 DEF Known
<1>7. TypeOK'
  BY <1>0, <1>1, <1>2, <1>3 DEF TypeOK
<1>8. ClientInv'
  BY <1>1 DEF IInv, ClientInv
<1>9. RootInv'
  BY <1>1, <1>4, <1>5, RootInvKept DEF IInv
<1>10. DeliveredInv'
  BY <1>1, <1>4, <1>5, DeliveredInvKept DEF IInv
<1>11. SentInv' /\ UniqueInv'
  BY <1>1, <1>6 DEF IInv, SentInv, UniqueInv
<1>12. CommitInv'
  BY <1>1, <1>4 DEF IInv, CommitInv
<1>13. ExpiryInv'
  BY <1>1, <1>5, <1>6, ExpiryInvKept DEF IInv
<1>14. TimeoutInv'
  BY <1>1, <1>4, <1>6, TimeoutInvKept DEF IInv
<1>15. AckInv'
  BY <1>1 DEF IInv, AckInv
<1>q. QED
  BY <1>7, <1>8, <1>9, <1>10, <1>11, <1>12, <1>13, <1>14, <1>15 DEF IInv

-----------------------------------------------------------------------------
LEMMA NextInv == IInv /\ [Next]_vars => IInv'
<1> SUFFICES ASSUME IInv, [Next]_vars PROVE IInv'
  OBVIOUS
<1>1. ASSUME NEW c \in Chain, NextBlock(c) PROVE IInv'
  BY <1>1, NextBlockInv
<1>2. ASSUME NEW c \in Chain, NEW h \in Height, UpdateClient(c, h) PROVE IInv'
  BY <1>2, UpdateClientInv
<1>3. ASSUME NEW c \in Chain, NEW p \in Packet, SendPacket(c, p) PROVE IInv'
  BY <1>3, SendPacketInv
<1>4. ASSUME NEW c \in Chain, NEW p \in Packet, NEW ph \in client[c], NEW ack \in Ack,
             RecvPacket(c, p, ph, ack)
      PROVE  IInv'
  BY <1>4, RecvPacketInv
<1>5. ASSUME NEW c \in Chain, NEW p \in Packet, NEW ph \in client[c], NEW ack \in Ack,
             AcknowledgePacket(c, p, ph, ack)
      PROVE  IInv'
  BY <1>5, AcknowledgePacketInv
<1>6. ASSUME NEW c \in Chain, NEW p \in Packet, NEW ph \in client[c],
             TimeoutPacket(c, p, ph) \/ TimeoutOnClose(c, p, ph)
      PROVE  IInv'
  <2>1. /\ p \in store[c].commitments
        /\ TimedOut(p, Other(c), ph) \/ root[Other(c)][ph].state = "CLOSED"
        /\ VerifyUnreceived(c, p, ph)
        /\ TimeoutExecuted(c, p)
    BY <1>6 DEF TimeoutPacket, TimeoutOnClose, ProvenAt
  <2>2. /\ p.sequence \in Sequence
        /\ delivered[c][p.sequence] = "none"
        /\ TimedOut(p, Other(c), height[Other(c)]) \/ store[Other(c)].state = "CLOSED"
    BY <2>1, UnreceivedNow
  <2>q. QED
    BY <2>1, <2>2, TimeoutExecutedInv
<1>7. ASSUME NEW c \in Chain, NEW ph \in client[c], ChanOpenConfirm(c, ph) PROVE IInv'
  BY <1>7, SetStateInv DEF ChanOpenConfirm
<1>8. ASSUME NEW c \in Chain, ChanCloseInit(c) PROVE IInv'
  BY <1>8, SetStateInv DEF ChanCloseInit
<1>9. ASSUME NEW c \in Chain, NEW ph \in client[c], ChanCloseConfirm(c, ph) PROVE IInv'
  BY <1>9, SetStateInv DEF ChanCloseConfirm
<1>10. CASE UNCHANGED vars
  BY <1>10, StutterInv
<1>q. QED
  BY <1>1, <1>2, <1>3, <1>4, <1>5, <1>6, <1>7, <1>8, <1>9, <1>10 DEF Next

THEOREM Invariance == Spec => []IInv
<1>1. Init => IInv
  BY InitInv
<1>2. IInv /\ [Next]_vars => IInv'
  BY NextInv
<1>q. QED
  BY <1>1, <1>2, PTL DEF Spec

\* The stores, the headers and the counters of the two chains keep their types.
THEOREM TypeCorrect == Spec => []TypeOK
<1>1. IInv => TypeOK
  BY DEF IInv
<1>q. QED
  BY <1>1, Invariance, PTL

\* A packet is never both reported as timed out (timeout.go) and handed to the
\* application of the other chain (packet.go), whatever proofs are relayed when.
THEOREM NeverBothHolds == Spec => []NeverBoth
<1>1. IInv => NeverBoth
  BY DEF IInv, TimeoutInv, NeverBoth
<1>q. QED
  BY <1>1, Invariance, PTL

\* An ORDERED channel delivers without gaps (packet.go:252-275).
THEOREM DeliveredInOrderHolds == Spec => []DeliveredInOrder
<1>1. IInv => DeliveredInOrder
  <2> SUFFICES ASSUME IInv, ordering = "ORDERED", NEW c \in Chain,
                      NEW m \in Sequence, NEW n \in Sequence, m < n, delivered[c][n] # "none"
               PROVE  delivered[c][m] # "none"
    BY DEF DeliveredInOrder
  <2>1. Received(ordering, store[Other(c)], n)
    BY DEF IInv, DeliveredInv
  <2>2. store[Other(c)].nextSequenceRecv \in Int /\ m \in Int /\ n \in Int
    <3>1. store[Other(c)] \in Store
      BY OtherOther DEF IInv, TypeOK
    <3>2. store[Other(c)].nextSequenceRecv \in 1..(MaxSequence + 1)
      BY <3>1 DEF Store
    <3>q. QED
      BY <3>2, BoundAssumption DEF Sequence
  <2>3. Received(ordering, store[Other(c)], m)
    BY <2>1, <2>2 DEF Received
  <2>q. QED
    BY <2>3 DEF IInv, DeliveredInv
<1>q. QED
  BY <1>1, Invariance, PTL

-----------------------------------------------------------------------------
(* IBCPackets implements PacketChannel: every step of the two chains is a  *)
(* step of the channel the applications see, or leaves it unchanged.  The  *)
(* guards of the abstract steps follow from IInv.                          *)

LEMMA RefinesInit == Init => Abstract!ChannelInit
<1> SUFFICES ASSUME Init PROVE Abstract!ChannelInit
  OBVIOUS
<1>1. [c \in Chain |-> ordering] \in [Chain -> {"ORDERED", "UNORDERED"}]
  BY DEF Init
<1>2. [c \in Chain |-> nextSequenceSend[c] - 1] = [c \in Chain |-> 0]
  BY DEF Init
<1>3. delivered = [c \in Chain |-> [n \in Abstract!Sequence |-> "none"]]
  BY DEF Init, Abstract!Sequence, Sequence
<1>4. settled = [c \in Chain |-> [n \in Abstract!Sequence |-> "none"]]
  BY DEF Init, Abstract!Sequence, Sequence
<1>q. QED
  BY <1>1, <1>2, <1>3, <1>4 DEF Abstract!ChannelInit

\* Steps that touch nothing an application sees.
LEMMA RefinesStutter ==
    ASSUME UNCHANGED <<ordering, nextSequenceSend, delivered, settled>>
    PROVE  UNCHANGED Abstract!channelVars
  BY DEF Abstract!channelVars

LEMMA RefinesSend ==
    ASSUME IInv, NEW c \in Chain, NEW p \in Packet, SendPacket(c, p)
    PROVE  Abstract!ChannelNext
<1>1. /\ nextSequenceSend' = [nextSequenceSend EXCEPT ![c] = @ + 1]
      /\ nextSequenceSend[c] \in Sequence
      /\ UNCHANGED <<ordering, delivered, settled>>
  BY DEF SendPacket, Packet, appVars
<1>2. nextSequenceSend \in [Chain -> 1..(MaxSequence + 1)]
  BY DEF IInv, TypeOK
<1>3. nextSequenceSend[c] - 1 < MaxSequence
  BY <1>1, BoundAssumption DEF Sequence
<1>4. [d \in Chain |-> nextSequenceSend'[d] - 1]
        = [[d \in Chain |-> nextSequenceSend[d] - 1] EXCEPT ![c] = @ + 1]
  <2> DEFINE f == [d \in Chain |-> nextSequenceSend[d] - 1]
  <2> DEFINE g == [f EXCEPT ![c] = @ + 1]
  <2>1. g \in [Chain -> Int] /\ \A d \in Chain : g[d] = IF d = c THEN f[c] + 1 ELSE f[d]
    BY <1>2, BoundAssumption
  <2>2. \A d \in Chain : nextSequenceSend'[d] - 1 = g[d]
    BY <1>1, <1>2, <2>1, BoundAssumption
  <2> HIDE DEF g
  <2>3. [d \in Chain |-> nextSequenceSend'[d] - 1] = g
    BY <2>1, <2>2
  <2>q. QED
    BY <2>3 DEF g
<1>5. Abstract!Send(c)
  BY <1>1, <1>3, <1>4 DEF Abstract!Send
<1>q. QED
  BY <1>5 DEF Abstract!ChannelNext

LEMMA RefinesRecv ==
    ASSUME IInv, NEW c \in Chain, NEW p \in Packet, NEW ph \in client[c], NEW ack \in Ack,
           RecvPacket(c, p, ph, ack)
    PROVE  Abstract!ChannelNext
<1> DEFINE n == p.sequence
<1> DEFINE e == Other(c)
<1>0. e \in Chain /\ Other(e) = c
  BY OtherOther
<1>1. n \in Sequence /\ n \in Int
  BY BoundAssumption DEF Packet, Sequence
<1>2. /\ store[c].state = "OPEN"
      /\ ~TimedOut(p, c, height[c])
      /\ p \in root[e][ph].commitments
      /\ ordering = "ORDERED" => n = store[c].nextSequenceRecv
      /\ store[c].acks[n] = "none"
      /\ delivered' = [delivered EXCEPT ![e][n] = ack]
      /\ UNCHANGED <<ordering, nextSequenceSend, settled>>
  BY DEF RecvPacket, ProvenAt
<1>3. Known(e, p)
  BY <1>0, <1>2 DEF IInv, ClientInv, Known
<1> HIDE DEF n, e
<1>4. n <= nextSequenceSend[e] - 1
  <2>1. nextSequenceSend[e] \in Int
    BY <1>0, BoundAssumption DEF IInv, TypeOK
  <2>2. n < nextSequenceSend[e]
    BY <1>0, <1>3 DEF IInv, SentInv, n
  <2>q. QED
    BY <1>1, <2>1, <2>2
<1>5. delivered[e][n] = "none"
  BY <1>0, <1>1, <1>2 DEF IInv, DeliveredInv
<1>6. settled[e][n] = "none"
  <2>1. settled[e][n] # "timeout"
    BY <1>0, <1>1, <1>2, <1>3 DEF IInv, TimeoutInv, n
  <2>2. settled[e][n] \notin Ack
    BY <1>0, <1>1, <1>5 DEF IInv, AckInv, Ack
  <2>3. settled[e][n] \in Ack \cup {"none", "timeout"}
    BY <1>0, <1>1 DEF IInv, TypeOK
  <2>q. QED
    BY <2>1, <2>2, <2>3
<1>7. ordering = "ORDERED" => \A k \in 1..(n - 1) : delivered[e][k] # "none"
  <2> SUFFICES ASSUME ordering = "ORDERED", NEW k \in 1..(n - 1) PROVE delivered[e][k] # "none"
    OBVIOUS
  <2>1. k \in Sequence /\ k < n
    BY <1>1, BoundAssumption DEF Sequence
  <2>2. Received(ordering, store[c], k)
    BY <2>1, <1>2 DEF Received
  <2>q. QED
    BY <2>1, <2>2, <1>0 DEF IInv, DeliveredInv
<1>8. [d \in Chain |-> nextSequenceSend[d] - 1][e] = nextSequenceSend[e] - 1
      /\ [d \in Chain |-> ordering][e] = ordering
  BY <1>0
<1>9. /\ [d \in Chain |-> nextSequenceSend'[d] - 1] = [d \in Chain |-> nextSequenceSend[d] - 1]
      /\ [d \in Chain |-> ordering'] = [d \in Chain |-> ordering]
  BY <1>2
<1>10. Abstract!Deliver(e, n, ack)
  BY <1>2, <1>4, <1>5, <1>6, <1>7, <1>8, <1>9 DEF Abstract!Deliver
<1>q. QED
  BY <1>0, <1>1, <1>10 DEF Abstract!ChannelNext, Abstract!Sequence, Abstract!Ack, Sequence, Ack

LEMMA RefinesAcknowledge ==
    ASSUME IInv, NEW c \in Chain, NEW p \in Packet, NEW ph \in client[c], NEW ack \in Ack,
           AcknowledgePacket(c, p, ph, ack)
    PROVE  Abstract!ChannelNext
<1> DEFINE n == p.sequence
<1>1. n \in Sequence /\ n \in Int
  BY BoundAssumption DEF Packet, Sequence
<1>2. /\ p \in store[c].commitments
      /\ ordering = "ORDERED" => n = nextSequenceAck[c]
      /\ settled' = [settled EXCEPT ![c][n] = ack]
      /\ UNCHANGED <<ordering, nextSequenceSend, delivered>>
  BY DEF AcknowledgePacket
<1>3. delivered[c][n] = ack /\ ack # "none"
  BY AcknowledgePacketInv DEF Ack
<1>4. settled[c][n] = "none"
  BY <1>2 DEF IInv, CommitInv
<1> HIDE DEF n
<1>5. ordering = "ORDERED" => \A k \in 1..(n - 1) : settled[c][k] # "none"
  <2> SUFFICES ASSUME ordering = "ORDERED", NEW k \in 1..(n - 1) PROVE settled[c][k] # "none"
    OBVIOUS
  <2>1. k \in Sequence /\ k < n
    BY <1>1, BoundAssumption DEF Sequence
  <2>q. QED
    BY <2>1, <1>2 DEF IInv, AckInv
<1>6. /\ [d \in Chain |-> nextSequenceSend'[d] - 1] = [d \in Chain |-> nextSequenceSend[d] - 1]
      /\ [d \in Chain |-> ordering'] = [d \in Chain |-> ordering]
      /\ [d \in Chain |-> ordering][c] = ordering
  BY <1>2
<1>7. Abstract!Acknowledge(c, n)
  BY <1>2, <1>3, <1>4, <1>5, <1>6 DEF Abstract!Acknowledge
<1>q. QED
  BY <1>1, <1>7 DEF Abstract!ChannelNext, Abstract!Sequence, Sequence

LEMMA RefinesTimeout ==
    ASSUME IInv, NEW c \in Chain, NEW p \in Packet, NEW ph \in client[c],
           TimeoutPacket(c, p, ph) \/ TimeoutOnClose(c, p, ph)
    PROVE  Abstract!ChannelNext
<1> DEFINE n == p.sequence
<1>1. n \in Sequence /\ n \in Int
  BY BoundAssumption DEF Packet, Sequence
<1>2. /\ p \in store[c].commitments
      /\ TimedOut(p, Other(c), ph) \/ root[Other(c)][ph].state = "CLOSED"
      /\ VerifyUnreceived(c, p, ph)
      /\ settled' = [settled EXCEPT ![c][n] = "timeout"]
      /\ UNCHANGED <<ordering, nextSequenceSend, delivered>>
  BY DEF TimeoutPacket, TimeoutOnClose, TimeoutExecuted, ProvenAt
<1>3. delivered[c][n] = "none"
  BY <1>2, UnreceivedNow
<1>4. settled[c][n] = "none"
  BY <1>2 DEF IInv, CommitInv
<1>5. n <= nextSequenceSend[c] - 1
  <2>1. nextSequenceSend[c] \in Int
    BY BoundAssumption DEF IInv, TypeOK
  <2>2. n < nextSequenceSend[c]
    BY <1>2 DEF IInv, SentInv, Known
  <2>q. QED
    BY <1>1, <2>1, <2>2
<1> HIDE DEF n
<1>6. /\ [d \in Chain |-> nextSequenceSend'[d] - 1] = [d \in Chain |-> nextSequenceSend[d] - 1]
      /\ [d \in Chain |-> ordering'] = [d \in Chain |-> ordering]
      /\ [d \in Chain |-> nextSequenceSend[d] - 1][c] = nextSequenceSend[c] - 1
  BY <1>2
<1>7. Abstract!Expire(c, n)
  BY <1>2, <1>3, <1>4, <1>5, <1>6 DEF Abstract!Expire
<1>q. QED
  BY <1>1, <1>7 DEF Abstract!ChannelNext, Abstract!Sequence, Sequence

LEMMA RefinesNext == IInv /\ [Next]_vars => [Abstract!ChannelNext]_(Abstract!channelVars)
<1> SUFFICES ASSUME IInv, [Next]_vars
             PROVE  Abstract!ChannelNext \/ UNCHANGED Abstract!channelVars
  OBVIOUS
<1>1. ASSUME NEW c \in Chain, NEW p \in Packet, SendPacket(c, p) PROVE Abstract!ChannelNext
  BY <1>1, RefinesSend
<1>2. ASSUME NEW c \in Chain, NEW p \in Packet, NEW ph \in client[c], NEW ack \in Ack,
             RecvPacket(c, p, ph, ack)
      PROVE  Abstract!ChannelNext
  BY <1>2, RefinesRecv
<1>3. ASSUME NEW c \in Chain, NEW p \in Packet, NEW ph \in client[c], NEW ack \in Ack,
             AcknowledgePacket(c, p, ph, ack)
      PROVE  Abstract!ChannelNext
  BY <1>3, RefinesAcknowledge
<1>4. ASSUME NEW c \in Chain, NEW p \in Packet, NEW ph \in client[c],
             TimeoutPacket(c, p, ph) \/ TimeoutOnClose(c, p, ph)
      PROVE  Abstract!ChannelNext
  BY <1>4, RefinesTimeout
<1>5. ASSUME NEW c \in Chain,
             \/ NextBlock(c) \/ ChanCloseInit(c)
             \/ \E h \in Height : UpdateClient(c, h)
             \/ \E ph \in client[c] : ChanOpenConfirm(c, ph) \/ ChanCloseConfirm(c, ph)
      PROVE  UNCHANGED Abstract!channelVars
  <2>1. UNCHANGED <<ordering, nextSequenceSend, delivered, settled>>
    BY <1>5 DEF NextBlock, ChanCloseInit, UpdateClient, ChanOpenConfirm, ChanCloseConfirm,
                SetState, appVars
  <2>q. QED
    BY <2>1, RefinesStutter
<1>6. CASE UNCHANGED vars
  BY <1>6, RefinesStutter DEF vars
<1>q. QED
  BY <1>1, <1>2, <1>3, <1>4, <1>5, <1>6 DEF Next

\* The channel keepers, their light clients and arbitrary relaying implement
\* the channel the applications rely on (packet.go, timeout.go).
THEOREM Refinement == Spec => ImplementsChannel
<1>1. Init => Abstract!ChannelInit
  BY RefinesInit
<1>2. IInv /\ [Next]_vars => [Abstract!ChannelNext]_(Abstract!channelVars)
  BY RefinesNext
<1>q. QED
  BY <1>1, <1>2, Invariance, PTL DEF Spec, ImplementsChannel, Abstract!ChannelSpec
=============================================================================
