-------------------------- MODULE Transfer_proofs --------------------------
(***************************************************************************)
(* Token transfers, for any chains, channels and supplies: accounts and    *)
(* escrow accounts are never overdrawn (NeverOverdrawn), the supply of     *)
(* each chain is constant (SupplyIsConstant) and vouchers are backed       *)
(* exactly (VouchersStayBacked).                                           *)
(*                                                                         *)
(* TypeOK is not inductive: a voucher minted for a path of MaxHops hops    *)
(* would be longer than the paths of the model.  SentInv says that such a  *)
(* path is only sent back the way it came.  With Unsent, that no packet    *)
(* has an outcome before it is sent, the two sums are inductive: every     *)
(* step that does anything moves one unit (Moves), and each of the four    *)
(* kinds of move changes two terms of a sum by one, in opposite ways.      *)
(*                                                                         *)
(* The sums are SumFunctionOnSet of the community modules, whose facts     *)
(* come first, by induction over the subsets of a finite set.              *)
(***************************************************************************)
EXTENDS Transfer, FiniteSetTheorems, TLAPS

\* Most steps are first-order reasoning about sets and functions, which is
\* Zenon's; those with arithmetic or sequences cite SMT.
USE Zenon

\* Induction over the natural numbers, for a set in place of a predicate.
LEMMA NatSetInduction ==
    ASSUME NEW X, 0 \in X, \A n \in Nat : n \in X => n + 1 \in X
    PROVE  Nat \subseteq X
<1> DEFINE Bad == Nat \ X
<1> SUFFICES ASSUME Bad # {} PROVE FALSE
  OBVIOUS
<1>1. Bad \subseteq Nat /\ IsWellFoundedOn(OpToRel(<, Nat), Nat)
  BY NatLessThanWellFounded
<1> HIDE DEF Bad
<1>2. PICK n \in Bad : \A m \in Bad : ~(<<m, n>> \in OpToRel(<, Nat))
  BY <1>1, WFMin
<1> USE DEF Bad
<1>3. \A m \in Bad : ~(m < n)
  BY <1>2 DEF OpToRel
<1>4. n \in Nat /\ n # 0
  OBVIOUS
<1>5. n - 1 \in Nat /\ n - 1 < n /\ n = (n - 1) + 1
  BY <1>4, SMT
<1>6. n - 1 \in X
  BY <1>3, <1>5
<1> QED
  BY <1>5, <1>6

\* Induction over the subsets of a finite set.
LEMMA SubsetInduction ==
    ASSUME NEW S, IsFiniteSet(S), NEW X,
           \A T \in SUBSET S : (\A U \in SUBSET T : U # T => U \in X) => T \in X
    PROVE  \A T \in SUBSET S : T \in X
<1> DEFINE Bad == (SUBSET S) \ X
<1> SUFFICES ASSUME Bad # {} PROVE FALSE
  OBVIOUS
<1>0. Bad \subseteq SUBSET S
  OBVIOUS
<1> HIDE DEF Bad
<1>1. IsWellFoundedOn(StrictSubsetOrdering(S), SUBSET S)
  BY FS_StrictSubsetOrderingWellFounded, FS_FiniteSubsetsOfFinite
<1>2. PICK T \in Bad : \A U \in Bad : ~(<<U, T>> \in StrictSubsetOrdering(S))
  BY <1>0, <1>1, WFMin, SMT
<1> USE DEF Bad
<1>3. ASSUME NEW U \in SUBSET T, U # T PROVE U \in X
  BY <1>2, <1>3 DEF StrictSubsetOrdering
<1> QED
  BY <1>3

-----------------------------------------------------------------------------
Pick(T) == CHOOSE x \in T : TRUE

\* One step of the sum of f over T, from the sums g of smaller sets.
Adding(f, g, T) == IF T = {} THEN 0 ELSE f[Pick(T)] + g[T \ {Pick(T)}]

LEMMA SumDef ==
    ASSUME NEW f, NEW S
    PROVE  SumFunctionOnSet(f, S) = (CHOOSE g : g = [T \in SUBSET S |-> Adding(f, g, T)])[S]
  BY DEF SumFunctionOnSet, FoldFunctionOnSet, MapThenFoldSet, Adding, Pick

\* The recursion that SumFunctionOnSet stands for has a solution.
LEMMA SumExists ==
    ASSUME NEW f, NEW S, IsFiniteSet(S)
    PROVE  \E g : g = [T \in SUBSET S |-> Adding(f, g, T)]
<1> DEFINE UpTo(g, k) == /\ g = [T \in SUBSET S |-> g[T]]
                         /\ \A T \in SUBSET S : Cardinality(T) <= k => g[T] = Adding(f, g, T)
           X == {k \in Nat : \E g : UpTo(g, k)}
<1>1. ASSUME NEW T \in SUBSET S
      PROVE  IsFiniteSet(T) /\ Cardinality(T) \in Nat /\ Cardinality(T) <= Cardinality(S)
  BY FS_Subset, FS_CardinalityType
<1>2. 0 \in X
  <2> DEFINE g == [T \in SUBSET S |-> 0]
  <2>1. ASSUME NEW T \in SUBSET S, Cardinality(T) <= 0 PROVE g[T] = Adding(f, g, T)
    <3>1. Cardinality(T) = 0
      BY <1>1, <2>1, SMT
    <3>2. T = {}
      BY <1>1, <3>1, FS_EmptySet
    <3> QED
      BY <3>2 DEF Adding
  <2>2. UpTo(g, 0)
    BY <2>1
  <2> QED
    BY <2>2
<1>3. ASSUME NEW k \in Nat, k \in X PROVE k + 1 \in X
  <2>1. PICK g : UpTo(g, k)
    BY <1>3
  <2> DEFINE h == [T \in SUBSET S |-> Adding(f, g, T)]
  <2>2. ASSUME NEW T \in SUBSET S, Cardinality(T) <= k + 1 PROVE h[T] = Adding(f, h, T)
    <3>1. CASE T = {}
      BY <3>1 DEF Adding
    <3>2. CASE T # {}
      <4> DEFINE U == T \ {Pick(T)}
      <4>1. Pick(T) \in T /\ U \in SUBSET S
        BY <3>2 DEF Pick
      <4>2. Cardinality(U) = Cardinality(T) - 1
        BY <1>1, <4>1, FS_RemoveElement
      <4>3. Cardinality(U) <= k
        BY <1>1, <2>2, <4>2, SMT
      <4>4. g[U] = h[U]
        BY <2>1, <4>1, <4>3
      <4> QED
        BY <3>2, <4>4 DEF Adding
    <3> QED
      BY <3>1, <3>2
  <2>3. UpTo(h, k + 1)
    BY <2>2
  <2>4. k + 1 \in Nat
    BY SMT
  <2> HIDE DEF h
  <2> QED
    BY <2>3, <2>4
<1>4. Nat \subseteq X
  <2> HIDE DEF X
  <2> QED
    BY <1>2, <1>3, NatSetInduction
<1>5. PICK g : UpTo(g, Cardinality(S))
  BY <1>1, <1>4
<1>6. g = [T \in SUBSET S |-> Adding(f, g, T)]
  BY <1>1, <1>5
<1> QED
  BY <1>6

LEMMA SumEmpty == ASSUME NEW f PROVE SumFunctionOnSet(f, {}) = 0
<1> DEFINE g == CHOOSE g : g = [T \in SUBSET {} |-> Adding(f, g, T)]
<1>1. g = [T \in SUBSET {} |-> Adding(f, g, T)]
  BY SumExists, FS_EmptySet
<1>2. SumFunctionOnSet(f, {}) = g[{}]
  BY SumDef
<1> HIDE DEF g
<1> QED
  BY <1>1, <1>2 DEF Adding

LEMMA SumPick ==
    ASSUME NEW f, NEW S, IsFiniteSet(S), S # {}
    PROVE  SumFunctionOnSet(f, S) = f[Pick(S)] + SumFunctionOnSet(f, S \ {Pick(S)})
<1> DEFINE R == S \ {Pick(S)}
           g == CHOOSE g : g = [T \in SUBSET S |-> Adding(f, g, T)]
           h == CHOOSE h : h = [T \in SUBSET R |-> Adding(f, h, T)]
           X == {T \in SUBSET R : g[T] = h[T]}
<1>1. IsFiniteSet(R)
  BY FS_RemoveElement
<1>2. g = [T \in SUBSET S |-> Adding(f, g, T)]
  BY SumExists
<1>3. h = [T \in SUBSET R |-> Adding(f, h, T)]
  BY <1>1, SumExists, SMT
<1>4. SumFunctionOnSet(f, S) = g[S] /\ SumFunctionOnSet(f, R) = h[R]
  BY SumDef
<1> HIDE DEF g, h
<1>5. ASSUME NEW T \in SUBSET R, \A U \in SUBSET T : U # T => U \in X PROVE T \in X
  <2>1. g[T] = Adding(f, g, T) /\ h[T] = Adding(f, h, T)
    BY <1>2, <1>3
  <2>2. CASE T = {}
    BY <2>1, <2>2 DEF Adding
  <2>3. CASE T # {}
    <3>1. Pick(T) \in T
      BY <2>3 DEF Pick
    <3>2. g[T \ {Pick(T)}] = h[T \ {Pick(T)}]
      BY <1>5, <3>1
    <3> QED
      BY <2>1, <2>3, <3>2 DEF Adding
  <2> QED
    BY <2>2, <2>3
<1>6. \A T \in SUBSET R : T \in X
  <2> HIDE DEF X, R
  <2> QED
    BY <1>1, <1>5, SubsetInduction
<1>7. g[R] = h[R]
  BY <1>6
<1>8. g[S] = f[Pick(S)] + g[R]
  BY <1>2 DEF Adding
<1> QED
  BY <1>4, <1>7, <1>8

LEMMA SumType ==
    ASSUME NEW D, NEW f \in [D -> Nat], NEW S \in SUBSET D, IsFiniteSet(S)
    PROVE  SumFunctionOnSet(f, S) \in Nat
<1> DEFINE X == {T \in SUBSET S : SumFunctionOnSet(f, T) \in Nat}
<1>1. ASSUME NEW T \in SUBSET S, \A U \in SUBSET T : U # T => U \in X PROVE T \in X
  <2>1. CASE T = {}
    BY <2>1, SumEmpty, SMT
  <2>2. CASE T # {}
    <3> DEFINE U == T \ {Pick(T)}
    <3>1. Pick(T) \in T /\ IsFiniteSet(T)
      BY <2>2, FS_Subset DEF Pick
    <3>2. SumFunctionOnSet(f, U) \in Nat /\ f[Pick(T)] \in Nat
      BY <1>1, <3>1
    <3>3. SumFunctionOnSet(f, T) = f[Pick(T)] + SumFunctionOnSet(f, U)
      BY <2>2, <3>1, SumPick
    <3> HIDE DEF U
    <3> QED
      BY <3>2, <3>3, SMT
  <2> QED
    BY <2>1, <2>2
<1> HIDE DEF X
<1>2. S \in X
  BY <1>1, SubsetInduction
<1> QED
  BY <1>2 DEF X

\* Any element may be taken out first.
LEMMA SumRemove ==
    ASSUME NEW D, NEW f \in [D -> Nat], NEW S \in SUBSET D, IsFiniteSet(S), NEW x \in S
    PROVE  SumFunctionOnSet(f, S) = f[x] + SumFunctionOnSet(f, S \ {x})
<1> DEFINE X == {T \in SUBSET S : \A y \in T : SumFunctionOnSet(f, T) = f[y] + SumFunctionOnSet(f, T \ {y})}
<1>1. ASSUME NEW T \in SUBSET S, \A U \in SUBSET T : U # T => U \in X PROVE T \in X
  <2> SUFFICES ASSUME NEW y \in T PROVE SumFunctionOnSet(f, T) = f[y] + SumFunctionOnSet(f, T \ {y})
    OBVIOUS
  <2> DEFINE z == Pick(T)
  <2>1. z \in T /\ IsFiniteSet(T)
    BY FS_Subset DEF Pick
  <2>2. SumFunctionOnSet(f, T) = f[z] + SumFunctionOnSet(f, T \ {z})
    BY <2>1, SumPick
  <2> HIDE DEF z
  <2>3. CASE y = z
    BY <2>2, <2>3
  <2>4. CASE y # z
    <3> DEFINE V == T \ {y, z}
    <3>1. T \ {z} \in X /\ T \ {y} \in X /\ y \in T \ {z} /\ z \in T \ {y}
      BY <1>1, <2>1, <2>4
    <3>2. (T \ {z}) \ {y} = V /\ (T \ {y}) \ {z} = V
      OBVIOUS
    <3>3. /\ SumFunctionOnSet(f, T \ {z}) = f[y] + SumFunctionOnSet(f, V)
          /\ SumFunctionOnSet(f, T \ {y}) = f[z] + SumFunctionOnSet(f, V)
      BY <3>1, <3>2
    <3>4. IsFiniteSet(V) /\ V \in SUBSET D
      BY <2>1, FS_Subset
    <3>5. SumFunctionOnSet(f, V) \in Nat /\ f[y] \in Nat /\ f[z] \in Nat
      BY <2>1, <3>4, SumType
    <3> HIDE DEF V, X
    <3> QED
      BY <2>2, <3>3, <3>5, SMT
  <2> QED
    BY <2>3, <2>4
<1> HIDE DEF X
<1>2. S \in X
  BY <1>1, SubsetInduction
<1> QED
  BY <1>2 DEF X

LEMMA SumAgree ==
    ASSUME NEW D, NEW f \in [D -> Nat], NEW g \in [D -> Nat], NEW S \in SUBSET D, IsFiniteSet(S),
           \A x \in S : f[x] = g[x]
    PROVE  SumFunctionOnSet(f, S) = SumFunctionOnSet(g, S)
<1> DEFINE X == {T \in SUBSET S : SumFunctionOnSet(f, T) = SumFunctionOnSet(g, T)}
<1>1. ASSUME NEW T \in SUBSET S, \A U \in SUBSET T : U # T => U \in X PROVE T \in X
  <2>1. CASE T = {}
    BY <2>1, SumEmpty
  <2>2. CASE T # {}
    <3> DEFINE U == T \ {Pick(T)}
    <3>1. Pick(T) \in T /\ IsFiniteSet(T)
      BY <2>2, FS_Subset DEF Pick
    <3>2. SumFunctionOnSet(f, U) = SumFunctionOnSet(g, U) /\ f[Pick(T)] = g[Pick(T)]
      BY <1>1, <3>1
    <3>3. /\ SumFunctionOnSet(f, T) = f[Pick(T)] + SumFunctionOnSet(f, U)
          /\ SumFunctionOnSet(g, T) = g[Pick(T)] + SumFunctionOnSet(g, U)
      BY <2>2, <3>1, SumPick
    <3> QED
      BY <3>2, <3>3
  <2> QED
    BY <2>1, <2>2
<1> HIDE DEF X
<1>2. S \in X
  BY <1>1, SubsetInduction
<1> QED
  BY <1>2 DEF X

\* The sum moves with the one value that changes.
LEMMA SumChange ==
    ASSUME NEW D, NEW f \in [D -> Nat], NEW g \in [D -> Nat], NEW S \in SUBSET D, IsFiniteSet(S),
           NEW x \in S, \A y \in S : y # x => f[y] = g[y]
    PROVE  SumFunctionOnSet(g, S) + f[x] = SumFunctionOnSet(f, S) + g[x]
<1> DEFINE R == S \ {x}
<1>1. IsFiniteSet(R) /\ R \in SUBSET D
  BY FS_RemoveElement
<1>2. /\ SumFunctionOnSet(f, S) = f[x] + SumFunctionOnSet(f, R)
      /\ SumFunctionOnSet(g, S) = g[x] + SumFunctionOnSet(g, R)
  BY SumRemove, SMT
<1>3. SumFunctionOnSet(f, R) = SumFunctionOnSet(g, R)
  BY <1>1, SumAgree, SMT
<1>4. SumFunctionOnSet(f, R) \in Nat /\ f[x] \in Nat /\ g[x] \in Nat
  BY <1>1, SumType
<1> HIDE DEF R
<1> QED
  BY <1>2, <1>3, <1>4, SMT

LEMMA SumZero ==
    ASSUME NEW D, NEW f \in [D -> Nat], NEW S \in SUBSET D, IsFiniteSet(S), \A x \in S : f[x] = 0
    PROVE  SumFunctionOnSet(f, S) = 0
<1> DEFINE X == {T \in SUBSET S : SumFunctionOnSet(f, T) = 0}
<1>1. ASSUME NEW T \in SUBSET S, \A U \in SUBSET T : U # T => U \in X PROVE T \in X
  <2>1. CASE T = {}
    BY <2>1, SumEmpty
  <2>2. CASE T # {}
    <3>1. Pick(T) \in T /\ IsFiniteSet(T)
      BY <2>2, FS_Subset DEF Pick
    <3>2. SumFunctionOnSet(f, T \ {Pick(T)}) = 0 /\ f[Pick(T)] = 0
      BY <1>1, <3>1
    <3> QED
      BY <2>2, <3>1, <3>2, SumPick, SMT
  <2> QED
    BY <2>1, <2>2
<1> HIDE DEF X
<1>2. S \in X
  BY <1>1, SubsetInduction
<1> QED
  BY <1>2 DEF X

-----------------------------------------------------------------------------
SentInv ==
    \A e \in End : \A n \in Sequence :
        n <= sent[e] =>
            Len(packet[e][n]) < MaxHops \/ ReceiverChainIsSource(e, packet[e][n])

IInv == TypeOK /\ SentInv

\* A denomination is a sequence of at most MaxHops identifiers.
LEMMA DenomIsSeq ==
    \A p : p \in Denom <=> p \in Seq(Identifier) /\ Len(p) <= MaxHops
<1>1. ASSUME NEW p \in Denom
      PROVE  p \in Seq(Identifier) /\ Len(p) <= MaxHops
  <2>1. PICK k \in 0..MaxHops : p \in [1..k -> Identifier]
    BY DEF Denom
  <2>2. k \in Nat /\ k <= MaxHops
    BY TransferBoundAssumption, SMT
  <2>3. p \in Seq(Identifier) /\ Len(p) = k
    BY <2>1, <2>2, SMT
  <2> QED
    BY <2>2, <2>3
<1>2. ASSUME NEW p \in Seq(Identifier), Len(p) <= MaxHops
      PROVE  p \in Denom
  <2>1. Len(p) \in 0..MaxHops
    BY <1>2, TransferBoundAssumption, SMT
  <2>2. p \in [1..Len(p) -> Identifier]
    BY SMT
  <2> QED
    BY <2>1, <2>2 DEF Denom
<1> QED
  BY <1>1, <1>2

\* What OnRecvPacket computes: the path without its last hop.
LEMMA TailIsDenom ==
    ASSUME NEW p \in Denom, p # <<>>
    PROVE  Tail(p) \in Denom
<1>1. p \in Seq(Identifier) /\ Len(p) <= MaxHops
  BY DenomIsSeq
<1>2. Tail(p) \in Seq(Identifier) /\ Len(Tail(p)) = Len(p) - 1
  BY <1>1, SMT
<1>3. Len(p) \in Nat
  BY <1>1, SMT
<1>4. Len(Tail(p)) <= MaxHops
  BY <1>1, <1>2, <1>3, TransferBoundAssumption, SMT
<1> QED
  BY <1>2, <1>4, DenomIsSeq

\* What OnRecvPacket computes: the path with a hop in front.
LEMMA VoucherIsDenom ==
    ASSUME NEW e \in End, NEW p \in Denom, Len(p) < MaxHops
    PROVE  <<Name[e]>> \o p \in Denom
<1>1. p \in Seq(Identifier) /\ Len(p) \in Nat
  BY DenomIsSeq, SMT
<1>2. <<Name[e]>> \in Seq(Identifier) /\ Len(<<Name[e]>>) = 1
  BY SMT DEF Identifier
<1>3. /\ <<Name[e]>> \o p \in Seq(Identifier)
      /\ Len(<<Name[e]>> \o p) = 1 + Len(p)
  BY <1>1, <1>2, SMT
<1>4. 1 + Len(p) <= MaxHops
  BY <1>1, TransferBoundAssumption, SMT
<1> QED
  BY <1>3, <1>4, DenomIsSeq

LEMMA EmptyIsDenom == <<>> \in Denom
<1>1. <<>> \in [1..0 -> Identifier]
  BY SMT
<1>2. 0 \in 0..MaxHops
  BY TransferBoundAssumption, SMT
<1> QED
  BY <1>1, <1>2 DEF Denom

-----------------------------------------------------------------------------
\* The steps of the channel keep its types.
LEMMA ChannelSteps ==
    ASSUME ChannelTypeOK, NEW e \in End, NEW n \in Sequence, NEW ack \in Ack,
           Send(e) \/ Deliver(e, n, ack) \/ Acknowledge(e, n) \/ Expire(e, n)
    PROVE  ChannelTypeOK'
<1>1. CASE Send(e)
  BY <1>1, TransferBoundAssumption, SMT DEF ChannelTypeOK, Send
<1>2. CASE Deliver(e, n, ack)
  BY <1>2 DEF ChannelTypeOK, Deliver
<1>3. CASE Acknowledge(e, n)
  BY <1>3, SMT DEF ChannelTypeOK, Acknowledge
<1>4. CASE Expire(e, n)
  BY <1>4 DEF ChannelTypeOK, Expire
<1> QED
  BY <1>1, <1>2, <1>3, <1>4

LEMMA InitIInv == Init => IInv
<1> SUFFICES ASSUME Init PROVE IInv
  OBVIOUS
<1>1. ChannelTypeOK
  BY TransferBoundAssumption, SMT DEF Init, ChannelInit, ChannelTypeOK
<1>2. bank \in [Zone -> [Denom -> Nat]] /\ escrow \in [End -> [Denom -> Nat]]
  BY TransferBoundAssumption DEF Init
<1>3. traces \in [Zone -> SUBSET Denom] /\ packet \in [End -> [Sequence -> Denom]]
  BY EmptyIsDenom DEF Init
<1>4. \A e \in End : \A n \in Sequence : ~(n <= sent[e])
  BY SMT DEF Init, ChannelInit, Sequence
<1>5. SentInv
  BY <1>4 DEF SentInv
<1> QED
  BY <1>1, <1>2, <1>3, <1>5 DEF IInv, TypeOK

LEMMA SendStep ==
    ASSUME IInv, NEW e \in End, NEW p \in Denom, SendTransfer(e, p)
    PROVE  IInv'
<1> DEFINE z == Home[e]
           m == sent[e] + 1
<1>0. sent[e] \in 0..MaxSequence /\ sent[e] < MaxSequence
  BY DEF IInv, TypeOK, ChannelTypeOK, SendTransfer, Send
<1>1. z \in Zone /\ m \in Sequence
  BY <1>0, TopologyAssumption, TransferBoundAssumption, SMT DEF Sequence
<1>2. ChannelTypeOK'
  BY TransferBoundAssumption, SMT DEF IInv, TypeOK, ChannelTypeOK, SendTransfer, Send
<1>3. bank' \in [Zone -> [Denom -> Nat]]
  BY <1>1, SMT DEF IInv, TypeOK, SendTransfer
<1>4. escrow' \in [End -> [Denom -> Nat]]
  BY SMT DEF IInv, TypeOK, SendTransfer
<1>5. packet' \in [End -> [Sequence -> Denom]]
  BY <1>1 DEF IInv, TypeOK, SendTransfer
<1>6. SentInv'
  <2> SUFFICES ASSUME NEW f \in End, NEW n \in Sequence, n <= sent'[f]
               PROVE  Len(packet'[f][n]) < MaxHops \/ ReceiverChainIsSource(f, packet'[f][n])
    BY DEF SentInv, ReceiverChainIsSource
  <2>1. CASE f = e /\ n = m
    <3>1. packet'[f][n] = p
      BY <2>1, <1>1 DEF IInv, TypeOK, SendTransfer
    <3> QED
      BY <2>1, <3>1 DEF SendTransfer
  <2>2. CASE ~(f = e /\ n = m)
    <3>1. packet'[f][n] = packet[f][n]
      BY <2>2, <1>1 DEF IInv, TypeOK, SendTransfer
    <3>2. n <= sent[f]
      BY <2>2, SMT DEF IInv, TypeOK, ChannelTypeOK, SendTransfer, Send, Sequence
    <3> QED
      BY <3>1, <3>2 DEF IInv, SentInv
  <2> QED
    BY <2>1, <2>2
<1> QED
  BY <1>2, <1>3, <1>4, <1>5, <1>6 DEF IInv, TypeOK, SendTransfer

\* A step that leaves what is sent alone leaves SentInv alone.
LEMMA SentKept ==
    ASSUME SentInv, UNCHANGED <<sent, packet>>
    PROVE  SentInv'
BY DEF SentInv, ReceiverChainIsSource

LEMMA RecvStep ==
    ASSUME IInv, NEW e \in End, NEW n \in Sequence,
           \/ \E refused \in BOOLEAN : OnRecvPacketError(e, n, refused)
           \/ OnRecvPacketMintError(e, n)
           \/ OnRecvPacketUnescrow(e, n)
           \/ OnRecvPacketMint(e, n)
    PROVE  IInv'
<1> DEFINE d == Peer[e]
           z == Home[d]
           p == packet[e][n]
<1>1. d \in End /\ z \in Zone /\ p \in Denom
  BY TopologyAssumption, SMT DEF IInv, TypeOK
<1>2. PICK ack \in Ack : Deliver(e, n, ack)
  BY DEF OnRecvPacketError, OnRecvPacketMintError, OnRecvPacketUnescrow, OnRecvPacketMint, Ack
<1>3. ChannelTypeOK'
  BY <1>2, ChannelSteps DEF IInv, TypeOK
<1>4. UNCHANGED <<sent, packet>>
  BY <1>2 DEF Deliver, OnRecvPacketError, OnRecvPacketMintError, OnRecvPacketUnescrow,
              OnRecvPacketMint, appVars
<1>5. SentInv'
  BY <1>4, SentKept DEF IInv
<1>6. CASE \E refused \in BOOLEAN : OnRecvPacketError(e, n, refused)
  <2>1. UNCHANGED appVars
    BY <1>6 DEF OnRecvPacketError
  <2> QED
    BY <2>1, <1>3, <1>5 DEF IInv, TypeOK, appVars
<1>7. CASE OnRecvPacketUnescrow(e, n)
  <2>1. Tail(p) \in Denom
    BY <1>1, <1>7, TailIsDenom DEF OnRecvPacketUnescrow, ReceiverChainIsSource
  <2> DEFINE t == Tail(p)
  <2>2. /\ escrow[d][t] > 0
        /\ escrow' = [escrow EXCEPT ![d][t] = @ - 1]
        /\ bank' = [bank EXCEPT ![z][t] = @ + 1]
        /\ UNCHANGED <<traces, packet>>
    BY <1>7 DEF OnRecvPacketUnescrow
  <2>3. t \in Denom
    BY <2>1
  <2> HIDE DEF t, p, d, z
  <2>4. escrow' \in [End -> [Denom -> Nat]] /\ bank' \in [Zone -> [Denom -> Nat]]
    BY <1>1, <2>2, <2>3, SMT DEF IInv, TypeOK
  <2> QED
    BY <2>2, <2>4, <1>3, <1>5 DEF IInv, TypeOK
<1>8. CASE OnRecvPacketMint(e, n) \/ OnRecvPacketMintError(e, n)
  <2>1. Len(p) < MaxHops
    BY <1>2, <1>8 DEF IInv, SentInv, Deliver, OnRecvPacketMint, OnRecvPacketMintError
  <2> DEFINE v == <<Name[d]>> \o p
  <2>2. v \in Denom
    BY <1>1, <2>1, VoucherIsDenom
  <2>3. /\ traces' = [traces EXCEPT ![z] = @ \cup {v}]
        /\ bank' = [bank EXCEPT ![z][v] = @ + 1] \/ UNCHANGED bank
        /\ UNCHANGED <<escrow, packet>>
    BY <1>8 DEF OnRecvPacketMint, OnRecvPacketMintError
  <2> HIDE DEF v, p, d, z
  <2>4. bank' \in [Zone -> [Denom -> Nat]]
    <3>1. CASE bank' = [bank EXCEPT ![z][v] = @ + 1]
      BY <1>1, <2>2, <3>1, SMT DEF IInv, TypeOK
    <3>2. CASE UNCHANGED bank
      BY <3>2 DEF IInv, TypeOK
    <3> QED
      BY <2>3, <3>1, <3>2
  <2>5. traces' \in [Zone -> SUBSET Denom]
    BY <1>1, <2>2, <2>3 DEF IInv, TypeOK
  <2> QED
    BY <2>3, <2>4, <2>5, <1>3, <1>5 DEF IInv, TypeOK
<1> QED
  BY <1>6, <1>7, <1>8

\* A refund takes from escrow only what is there.
LEMMA RefundKeepsTypes ==
    ASSUME IInv, NEW e \in End, NEW n \in Sequence, refundPacketToken(e, n)
    PROVE  /\ bank' \in [Zone -> [Denom -> Nat]]
           /\ escrow' \in [End -> [Denom -> Nat]]
           /\ UNCHANGED <<traces, packet>>
<1> DEFINE z == Home[e]
           p == packet[e][n]
<1>1. z \in Zone /\ p \in Denom
  BY TopologyAssumption, SMT DEF IInv, TypeOK
<1>2. /\ \/ escrow' = escrow
         \/ escrow[e][p] > 0 /\ escrow' = [escrow EXCEPT ![e][p] = @ - 1]
      /\ bank' = [bank EXCEPT ![z][p] = @ + 1]
      /\ UNCHANGED <<traces, packet>>
  BY DEF refundPacketToken
<1> HIDE DEF z, p
<1>3. bank' \in [Zone -> [Denom -> Nat]]
  BY <1>1, <1>2, SMT DEF IInv, TypeOK
<1>4. ASSUME escrow[e][p] > 0, escrow' = [escrow EXCEPT ![e][p] = @ - 1]
      PROVE  escrow' \in [End -> [Denom -> Nat]]
  BY <1>1, <1>4, SMT DEF IInv, TypeOK
<1>5. escrow' = escrow => escrow' \in [End -> [Denom -> Nat]]
  BY DEF IInv, TypeOK
<1> QED
  BY <1>2, <1>3, <1>4, <1>5

LEMMA OutcomeStep ==
    ASSUME IInv, NEW e \in End, NEW n \in Sequence,
           OnAcknowledgementPacket(e, n) \/ OnTimeoutPacket(e, n)
    PROVE  IInv'
<1>1. Acknowledge(e, n) \/ Expire(e, n)
  BY DEF OnAcknowledgementPacket, OnTimeoutPacket
<1>2. ChannelTypeOK' /\ UNCHANGED sent
  <2>1. "result" \in Ack
    BY DEF Ack
  <2>2. ChannelTypeOK'
    BY <1>1, <2>1, ChannelSteps DEF IInv, TypeOK
  <2> QED
    BY <1>1, <2>2 DEF Acknowledge, Expire
<1>3. refundPacketToken(e, n) \/ UNCHANGED appVars
  BY DEF OnAcknowledgementPacket, OnTimeoutPacket
<1>4. /\ bank' \in [Zone -> [Denom -> Nat]]
      /\ escrow' \in [End -> [Denom -> Nat]]
      /\ UNCHANGED <<traces, packet>>
  BY <1>3, RefundKeepsTypes DEF IInv, TypeOK, appVars
<1>5. SentInv'
  BY <1>2, <1>4, SentKept DEF IInv
<1> QED
  BY <1>2, <1>4, <1>5 DEF IInv, TypeOK

-----------------------------------------------------------------------------
LEMMA DenomIsFinite == IsFiniteSet(Denom)
<1> DEFINE I == 1..MaxHops
           G == SUBSET (I \X Identifier)
           graph == [p \in Denom |-> {<<i, p[i]>> : i \in 1..Len(p)}]
<1>1. IsFiniteSet(Identifier)
  <2> DEFINE f == [e \in End |-> Name[e]]
  <2>1. f \in Surjection(End, Identifier)
    BY DEF Surjection, Identifier
  <2> QED
    BY <2>1, FS_Surjection, FiniteAssumption
<1>2. IsFiniteSet(G)
  <2>1. IsFiniteSet(I)
    BY FS_Interval, TransferBoundAssumption, SMT
  <2> HIDE DEF I
  <2>2. IsFiniteSet(I \X Identifier)
    BY <1>1, <2>1, FS_Product
  <2> QED
    BY <2>2, FS_SUBSET
<1>3. ASSUME NEW p \in Denom
      PROVE  /\ Len(p) \in Nat /\ Len(p) <= MaxHops /\ DOMAIN p = 1..Len(p)
             /\ p \in Seq(Identifier) /\ \A i \in 1..Len(p) : p[i] \in Identifier /\ i \in I
  BY DenomIsSeq, TransferBoundAssumption, SMT
<1>4. ASSUME NEW p \in Denom PROVE graph[p] \in G
  BY <1>3, SMT
<1>5. ASSUME NEW p \in Denom, NEW q \in Denom, graph[p] = graph[q] PROVE p = q
  <2>1. \A i \in 1..Len(p) : i \in 1..Len(q) /\ p[i] = q[i]
    <3> SUFFICES ASSUME NEW i \in 1..Len(p) PROVE i \in 1..Len(q) /\ p[i] = q[i]
      OBVIOUS
    <3>1. <<i, p[i]>> \in graph[q]
      BY <1>5
    <3> QED
      BY <3>1
  <2>2. \A i \in 1..Len(q) : i \in 1..Len(p)
    <3> SUFFICES ASSUME NEW i \in 1..Len(q) PROVE i \in 1..Len(p)
      OBVIOUS
    <3>1. <<i, q[i]>> \in graph[p]
      BY <1>5
    <3> QED
      BY <3>1
  <2>3. Len(p) = Len(q)
    BY <1>3, <2>1, <2>2, SMT
  <2> QED
    BY <1>3, <2>1, <2>3, SMT
<1>6. graph \in Injection(Denom, G)
  <2> HIDE DEF G, I
  <2>1. graph \in [Denom -> G]
    BY <1>4
  <2> HIDE DEF graph
  <2> QED
    BY <1>5, <2>1 DEF Injection, IsInjective
<1> QED
  BY <1>2, <1>6, FS_Injection

LEMMA PlacesAreFinite == IsFiniteSet(Zone \X Denom) /\ \A S \in SUBSET (Zone \X Denom) : IsFiniteSet(S)
  BY DenomIsFinite, FiniteAssumption, FS_Product, FS_Subset

\* Origin is what its recursion says.
LEMMA OriginUnfold ==
    ASSUME NEW zp \in Zone \X Denom
    PROVE  Origin[zp] = IF zp[2] = <<>> THEN zp[1]
                        ELSE IF Via(zp[1], zp[2]) = {} THEN "nowhere" ELSE Origin[Before(zp)]
<1> DEFINE D == Zone \X Denom
           Step(g, x) == IF x[2] = <<>> THEN x[1]
                         ELSE IF Via(x[1], x[2]) = {} THEN "nowhere" ELSE g[Before(x)]
           UpTo(g, k) == /\ g = [x \in D |-> g[x]]
                         /\ \A x \in D : Len(x[2]) <= k => g[x] = Step(g, x)
           X == {k \in Nat : \E g : UpTo(g, k)}
<1>1. ASSUME NEW x \in D PROVE x[1] \in Zone /\ x[2] \in Denom /\ Len(x[2]) \in 0..MaxHops
  BY DenomIsSeq, SMT
<1>2. ASSUME NEW x \in D, x[2] # <<>>, Via(x[1], x[2]) # {}
      PROVE  Before(x) \in D /\ Len(Before(x)[2]) = Len(x[2]) - 1
  <2> DEFINE e == CHOOSE e \in Via(x[1], x[2]) : TRUE
  <2>1. e \in End
    BY <1>2 DEF Via
  <2>2. Home[Peer[e]] \in Zone
    BY <2>1, TopologyAssumption
  <2>3. Tail(x[2]) \in Denom /\ Len(Tail(x[2])) = Len(x[2]) - 1
    BY <1>1, <1>2, TailIsDenom, DenomIsSeq, SMT
  <2>4. Before(x) = <<Home[Peer[e]], Tail(x[2])>>
    BY DEF Before
  <2> HIDE DEF e
  <2>5. Before(x)[2] = Tail(x[2])
    BY <2>4, SMT
  <2>6. <<Home[Peer[e]], Tail(x[2])>> \in D
    BY <2>2, <2>3
  <2> QED
    BY <2>3, <2>4, <2>5, <2>6
<1>3. 0 \in X
  <2> DEFINE g == [x \in D |-> x[1]]
  <2>1. ASSUME NEW x \in D, Len(x[2]) <= 0 PROVE x[2] = <<>>
    BY <1>1, <2>1, DenomIsSeq, SMT
  <2>2. UpTo(g, 0)
    BY <2>1
  <2> QED
    BY <2>2
<1>4. ASSUME NEW k \in Nat, k \in X PROVE k + 1 \in X
  <2>1. PICK g : UpTo(g, k)
    BY <1>4
  <2> DEFINE h == [x \in D |-> Step(g, x)]
  <2>2. ASSUME NEW x \in D, Len(x[2]) <= k + 1 PROVE h[x] = Step(h, x)
    <3>1. CASE x[2] = <<>> \/ Via(x[1], x[2]) = {}
      BY <3>1
    <3>2. CASE ~(x[2] = <<>> \/ Via(x[1], x[2]) = {})
      <4>1. Before(x) \in D /\ Len(Before(x)[2]) = Len(x[2]) - 1
        BY <1>2, <3>2
      <4>2. Len(Before(x)[2]) <= k
        BY <1>1, <2>2, <4>1, SMT
      <4>3. g[Before(x)] = h[Before(x)]
        BY <2>1, <4>1, <4>2
      <4> QED
        BY <3>2, <4>3
    <3> QED
      BY <3>1, <3>2
  <2>3. UpTo(h, k + 1)
    BY <2>2
  <2>4. k + 1 \in Nat
    BY SMT
  <2> HIDE DEF h
  <2> QED
    BY <2>3, <2>4
<1>5. MaxHops \in X
  <2> HIDE DEF X
  <2> QED
    BY <1>3, <1>4, NatSetInduction, TransferBoundAssumption
<1>6. PICK g : UpTo(g, MaxHops)
  BY <1>5
<1>7. g = [x \in D |-> Step(g, x)]
  <2>1. ASSUME NEW x \in D PROVE g[x] = Step(g, x)
    <3>1. Len(x[2]) <= MaxHops
      BY <1>1, SMT
    <3> QED
      BY <1>6, <3>1
  <2>2. g = [x \in D |-> g[x]]
    BY <1>6
  <2> HIDE DEF Step, D
  <2> QED
    BY <2>1, <2>2
<1>8. Origin = [x \in D |-> Step(Origin, x)]
  BY <1>7 DEF Origin
<1> HIDE DEF Origin
<1> QED
  BY <1>8

\* The path seen from the chain before the last hop leads to the same origin.
LEMMA OriginOfTail ==
    ASSUME NEW e \in End, NEW p \in Denom, ReceiverChainIsSource(e, p)
    PROVE  /\ Tail(p) \in Denom
           /\ Origin[<<Home[e], p>>] = Origin[<<Home[Peer[e]], Tail(p)>>]
<1> DEFINE zp == <<Home[e], p>>
<1>1. zp \in Zone \X Denom /\ zp[1] = Home[e] /\ zp[2] = p /\ p # <<>>
  BY TopologyAssumption DEF ReceiverChainIsSource
<1>2. Via(Home[e], p) = {e}
  BY TopologyAssumption, SMT DEF Via, ReceiverChainIsSource
<1>3. Before(zp) = <<Home[Peer[e]], Tail(p)>>
  BY <1>1, <1>2 DEF Before
<1>4. Origin[zp] = IF zp[2] = <<>> THEN zp[1]
                   ELSE IF Via(zp[1], zp[2]) = {} THEN "nowhere" ELSE Origin[Before(zp)]
  BY <1>1, OriginUnfold
<1>5. Tail(p) \in Denom
  BY <1>1, TailIsDenom
<1> HIDE DEF zp
<1>6. Origin[zp] = Origin[Before(zp)]
  BY <1>1, <1>2, <1>4
<1> QED
  BY <1>3, <1>5, <1>6 DEF zp

\* A voucher is its path with a hop in front, which leads to the same origin.
LEMMA VoucherFacts ==
    ASSUME NEW d \in End, NEW p \in Denom, Len(p) < MaxHops
    PROVE  LET v == <<Name[d]>> \o p
           IN  /\ v \in Denom /\ v # p /\ v # <<>>
               /\ Head(v) = Name[d] /\ Tail(v) = p
               /\ Origin[<<Home[d], v>>] = Origin[<<Home[Peer[d]], p>>]
<1> DEFINE v == <<Name[d]>> \o p
<1>1. v \in Denom
  BY VoucherIsDenom
<1>2. p \in Seq(Identifier) /\ Len(p) \in Nat /\ Name[d] \in Identifier
  <2>1. p \in Seq(Identifier)
    BY DenomIsSeq
  <2>2. Name[d] \in Identifier
    BY DEF Identifier
  <2> QED
    BY <2>1, <2>2, SMT
<1>3. v # <<>> /\ Len(v) = 1 + Len(p) /\ Head(v) = Name[d] /\ Tail(v) = p
  BY <1>2, SMT
<1> HIDE DEF v
<1>4. v # p
  BY <1>2, <1>3, SMT
<1>5. Origin[<<Home[d], v>>] = Origin[<<Home[Peer[d]], Tail(v)>>]
  BY <1>1, <1>3, OriginOfTail DEF ReceiverChainIsSource
<1>6. Origin[<<Home[d], v>>] = Origin[<<Home[Peer[d]], p>>]
  BY <1>3, <1>5
<1> QED
  BY <1>1, <1>3, <1>4, <1>6 DEF v

\* A path that begins with a hop is a voucher of what is behind that hop.
LEMMA PathIsVoucher ==
    ASSUME NEW e \in End, NEW p \in Denom, ReceiverChainIsSource(e, p)
    PROVE  p = <<Name[e]>> \o Tail(p)
<1>1. p \in Seq(Identifier) /\ p # <<>> /\ Head(p) = Name[e]
  BY DenomIsSeq DEF ReceiverChainIsSource
<1> QED
  BY <1>1, SMT


-----------------------------------------------------------------------------
LEMMA NextIInv == IInv /\ [Next]_vars => IInv'
<1> SUFFICES ASSUME IInv, [Next]_vars PROVE IInv'
  OBVIOUS
<1>1. CASE Next
  <2>1. PICK e \in End :
           \/ \E p \in Denom : SendTransfer(e, p)
           \/ \E n \in Sequence :
                  \/ \E refused \in BOOLEAN : OnRecvPacketError(e, n, refused)
                  \/ OnRecvPacketMintError(e, n)
                  \/ OnRecvPacketUnescrow(e, n)
                  \/ OnRecvPacketMint(e, n)
                  \/ OnAcknowledgementPacket(e, n)
                  \/ OnTimeoutPacket(e, n)
    BY <1>1 DEF Next
  <2> QED
    BY <2>1, SendStep, RecvStep, OutcomeStep
<1>2. CASE UNCHANGED vars
  <2>1. ChannelTypeOK' /\ UNCHANGED appVars /\ UNCHANGED <<sent, packet>>
    BY <1>2 DEF IInv, TypeOK, ChannelTypeOK, vars, channelVars, appVars
  <2>2. SentInv'
    BY <2>1, SentKept DEF IInv
  <2> QED
    BY <2>1, <2>2 DEF IInv, TypeOK, appVars
<1> QED
  BY <1>1, <1>2

\* For any chains, channels, supplies and bounds: SendTransfer, OnRecvPacket and
\* refundPacketToken never overdraw an account or an escrow account, and every
\* path they compute is a denomination.
THEOREM NeverOverdrawn == Spec => []TypeOK
<1>1. IInv => TypeOK
  BY DEF IInv
<1> QED
  BY <1>1, InitIInv, NextIInv, PTL DEF Spec

-----------------------------------------------------------------------------
\* No packet is answered or settled before it is sent.
Unsent ==
    \A e \in End : \A n \in Sequence :
        n > sent[e] => delivered[e][n] = "none" /\ settled[e][n] = "none"

\* What a step may do: pay k tokens of path p into the accounts of chain z,
\* put k of them into the escrow account of e, start packet n of e on its way,
\* or end the way of packet n.
Paid(z, p, k) ==
    /\ bank'[z][p] = bank[z][p] + k
    /\ \A y \in Zone : \A q \in Denom : <<y, q>> # <<z, p>> => bank'[y][q] = bank[y][q]
Locked(e, p, k) ==
    /\ escrow'[e][p] = escrow[e][p] + k
    /\ \A f \in End : \A q \in Denom : <<f, q>> # <<e, p>> => escrow'[f][q] = escrow[f][q]
OthersStay(e, n) ==
    \A f \in End : \A k \in Sequence :
        <<f, k>> # <<e, n>> => (InFlight(f, k)' <=> InFlight(f, k)) /\ packet'[f][k] = packet[f][k]
Departs(e, n, p) == ~InFlight(e, n) /\ InFlight(e, n)' /\ packet'[e][n] = p /\ OthersStay(e, n)
Arrives(e, n, p) == InFlight(e, n) /\ ~InFlight(e, n)' /\ packet[e][n] = p /\ OthersStay(e, n)

\* What e keeps in escrow for a token of path p that it sends.
Kept(e, p) == IF ReceiverChainIsSource(e, p) THEN 0 ELSE 1

\* The steps as movements of one unit of path p, in packet n of e.
Sends(e, n, p) == Departs(e, n, p) /\ Paid(Home[e], p, -1) /\ Locked(e, p, Kept(e, p))
Refunds(e, n, p) == Arrives(e, n, p) /\ Paid(Home[e], p, 1) /\ Locked(e, p, 0 - Kept(e, p))
PaysBack(e, n, p) ==
    /\ ReceiverChainIsSource(e, p)
    /\ Arrives(e, n, p) /\ Paid(Home[Peer[e]], Tail(p), 1) /\ Locked(Peer[e], Tail(p), -1)
Issues(e, n, p) ==
    /\ ~ReceiverChainIsSource(e, p) /\ Len(p) < MaxHops
    /\ Arrives(e, n, p) /\ Paid(Home[Peer[e]], <<Name[Peer[e]]>> \o p, 1) /\ UNCHANGED escrow
Moves(e, n, p) == Sends(e, n, p) \/ Refunds(e, n, p) \/ PaysBack(e, n, p) \/ Issues(e, n, p)

NothingMoves ==
    /\ UNCHANGED <<bank, escrow, packet>>
    /\ \A e \in End : \A n \in Sequence : InFlight(e, n)' <=> InFlight(e, n)

LEMMA InitUnsent == Init => Unsent
  BY SMT DEF Init, ChannelInit, Unsent

LEMMA NextUnsent == ASSUME IInv, Unsent, [Next]_vars PROVE Unsent'
<1>1. CASE \E e \in End : Send(e)
  BY <1>1, SMT DEF Send, Unsent, IInv, TypeOK, ChannelTypeOK, Sequence
<1>2. CASE \E e \in End : \E n \in Sequence : \E ack \in Ack : Deliver(e, n, ack)
  BY <1>2, SMT DEF Deliver, Unsent, IInv, TypeOK, ChannelTypeOK, Sequence
<1>3. CASE \E e \in End : \E n \in Sequence : Acknowledge(e, n) \/ Expire(e, n)
  <2> SUFFICES ASSUME NEW f \in End, NEW k \in Sequence, k > sent'[f]
               PROVE  delivered'[f][k] = "none" /\ settled'[f][k] = "none"
    BY DEF Unsent
  <2>1. PICK e \in End, n \in Sequence : Acknowledge(e, n) \/ Expire(e, n)
    BY <1>3
  <2>2. UNCHANGED <<sent, delivered>> /\ sent[e] \in Nat /\ sent[f] \in Nat
    BY <2>1, SMT DEF Acknowledge, Expire, IInv, TypeOK, ChannelTypeOK
  <2>3. delivered[f][k] = "none" /\ settled[f][k] = "none"
    BY <2>2 DEF Unsent
  <2>4. <<f, k>> # <<e, n>>
    <3> SUFFICES ASSUME f = e, k = n PROVE FALSE
      OBVIOUS
    <3>1. ~(n <= sent[e])
      BY <2>2, SMT DEF Sequence
    <3> QED
      BY <2>1, <2>3, <3>1 DEF Acknowledge, Expire
  <2>5. settled'[f][k] = settled[f][k]
    BY <2>1, <2>4, SMT DEF Acknowledge, Expire, IInv, TypeOK, ChannelTypeOK
  <2> QED
    BY <2>2, <2>3, <2>5
<1>4. CASE UNCHANGED channelVars
  BY <1>4 DEF channelVars, Unsent
<1>5. \/ \E e \in End : Send(e)
      \/ \E e \in End : \E n \in Sequence : \E ack \in Ack : Deliver(e, n, ack)
      \/ \E e \in End : \E n \in Sequence : Acknowledge(e, n) \/ Expire(e, n)
      \/ UNCHANGED channelVars
  <2>1. \A e \in End : \A p \in Denom : SendTransfer(e, p) => Send(e)
    BY DEF SendTransfer
  <2>2. \A e \in End : \A n \in Sequence : \A refused \in BOOLEAN :
            OnRecvPacketError(e, n, refused) \/ OnRecvPacketMintError(e, n)
                => Deliver(e, n, "error")
    BY DEF OnRecvPacketError, OnRecvPacketMintError
  <2>3. \A e \in End : \A n \in Sequence :
            OnRecvPacketUnescrow(e, n) \/ OnRecvPacketMint(e, n) => Deliver(e, n, "result")
    BY DEF OnRecvPacketUnescrow, OnRecvPacketMint
  <2>4. \A e \in End : \A n \in Sequence :
            OnAcknowledgementPacket(e, n) \/ OnTimeoutPacket(e, n) => Acknowledge(e, n) \/ Expire(e, n)
    BY DEF OnAcknowledgementPacket, OnTimeoutPacket
  <2>5. "error" \in Ack /\ "result" \in Ack
    BY DEF Ack
  <2> QED
    BY <2>1, <2>2, <2>3, <2>4, <2>5 DEF Next, vars
<1> QED
  BY <1>1, <1>2, <1>3, <1>4, <1>5

\* SendTransfer starts one packet and takes its token from an account.
LEMMA SendMoves ==
    ASSUME IInv, Unsent, NEW e \in End, NEW p \in Denom, SendTransfer(e, p)
    PROVE  \E n \in Sequence : Sends(e, n, p)
<1> DEFINE z == Home[e]
<1>0. sent[e] \in Nat /\ sent[e] < MaxSequence
  BY SMT DEF IInv, TypeOK, ChannelTypeOK, SendTransfer, Send
<1>1. z \in Zone
  BY TopologyAssumption
<1>n. PICK n \in Sequence : n = sent[e] + 1
  BY <1>0, TransferBoundAssumption, SMT DEF Sequence
<1>2. /\ sent' = [sent EXCEPT ![e] = n]
      /\ UNCHANGED <<delivered, settled>>
      /\ packet' = [packet EXCEPT ![e][n] = p]
      /\ bank' = [bank EXCEPT ![z][p] = @ - 1]
      /\ escrow' = IF ReceiverChainIsSource(e, p) THEN escrow
                                                  ELSE [escrow EXCEPT ![e][p] = @ + 1]
  BY <1>n DEF SendTransfer, Send
<1>3. delivered[e][n] = "none" /\ settled[e][n] = "none"
  BY <1>0, <1>n, SMT DEF Unsent
<1> HIDE DEF z
<1>4. Paid(z, p, -1)
  BY <1>1, <1>2 DEF Paid, IInv, TypeOK
<1>5. Locked(e, p, Kept(e, p))
  BY <1>2, SMT DEF Locked, Kept, IInv, TypeOK
<1>6. ~InFlight(e, n)
  BY <1>0, <1>n, SMT DEF InFlight
<1>7. sent'[e] = n /\ \A f \in End : f # e => sent'[f] = sent[f]
  BY <1>2 DEF IInv, TypeOK, ChannelTypeOK
<1>8. InFlight(e, n)'
  <2>1. n <= sent'[e]
    BY <1>7, SMT DEF Sequence
  <2> QED
    BY <1>2, <1>3, <2>1 DEF InFlight
<1>9. packet'[e][n] = p
  BY <1>1, <1>2 DEF IInv, TypeOK
<1>10. OthersStay(e, n)
  <2> SUFFICES ASSUME NEW f \in End, NEW k \in Sequence, <<f, k>> # <<e, n>>
               PROVE  (InFlight(f, k)' <=> InFlight(f, k)) /\ packet'[f][k] = packet[f][k]
    BY DEF OthersStay
  <2>1. packet'[f][k] = packet[f][k]
    BY <1>2 DEF IInv, TypeOK
  <2>2. k <= sent'[f] <=> k <= sent[f]
    BY <1>0, <1>n, <1>7, SMT DEF Sequence
  <2> QED
    BY <1>2, <2>1, <2>2 DEF InFlight
<1> QED
  BY <1>4, <1>5, <1>6, <1>8, <1>9, <1>10 DEF Sends, Departs, z

\* A packet that is in flight before a step and not after it, when the step is
\* about no other packet.
LEMMA OneArrives ==
    ASSUME IInv, NEW e \in End, NEW n \in Sequence, NEW p, packet[e][n] = p,
           UNCHANGED <<sent, packet>>, InFlight(e, n), ~InFlight(e, n)',
           \A f \in End : \A k \in Sequence : <<f, k>> # <<e, n>> =>
               delivered'[f][k] = delivered[f][k] /\ settled'[f][k] = settled[f][k]
    PROVE  Arrives(e, n, p)
  BY DEF Arrives, OthersStay, InFlight

\* A successful OnRecvPacket ends the way of one packet.
LEMMA DeliverArrives ==
    ASSUME IInv, NEW e \in End, NEW n \in Sequence, Deliver(e, n, "result"), UNCHANGED packet
    PROVE  Arrives(e, n, packet[e][n])
<1>1. InFlight(e, n)
  BY DEF InFlight, Deliver
<1>2. /\ delivered'[e][n] = "result"
      /\ \A f \in End : \A k \in Sequence : <<f, k>> # <<e, n>> =>
             delivered'[f][k] = delivered[f][k] /\ settled'[f][k] = settled[f][k]
  BY DEF Deliver, IInv, TypeOK, ChannelTypeOK
<1>3. ~InFlight(e, n)'
  BY <1>2 DEF InFlight
<1>4. UNCHANGED sent
  BY DEF Deliver
<1> QED
  BY <1>1, <1>2, <1>3, <1>4, OneArrives

\* A refund ends the way of one packet.
LEMMA RefundMoves ==
    ASSUME IInv, Unsent, NEW e \in End, NEW n \in Sequence, refundPacketToken(e, n),
           (Acknowledge(e, n) /\ delivered[e][n] = "error") \/ Expire(e, n)
    PROVE  Refunds(e, n, packet[e][n])
<1> DEFINE z == Home[e]
           p == packet[e][n]
<1>1. z \in Zone /\ p \in Denom
  BY TopologyAssumption, SMT DEF IInv, TypeOK
<1>2. /\ bank' = [bank EXCEPT ![z][p] = @ + 1]
      /\ IF ReceiverChainIsSource(e, p) THEN UNCHANGED escrow
         ELSE escrow[e][p] > 0 /\ escrow' = [escrow EXCEPT ![e][p] = @ - 1]
      /\ UNCHANGED packet
  BY DEF refundPacketToken
<1>3. sent[e] \in Nat /\ UNCHANGED <<sent, delivered>>
  BY SMT DEF Acknowledge, Expire, IInv, TypeOK, ChannelTypeOK
<1>4. n <= sent[e] /\ settled[e][n] = "none" /\ delivered[e][n] # "result"
  BY <1>3, SMT DEF Acknowledge, Expire, Unsent, Sequence
<1>5. /\ settled'[e][n] # "none"
      /\ \A f \in End : \A k \in Sequence : <<f, k>> # <<e, n>> => settled'[f][k] = settled[f][k]
  BY SMT DEF Acknowledge, Expire, IInv, TypeOK, ChannelTypeOK
<1>6. InFlight(e, n) /\ ~InFlight(e, n)'
  BY <1>4, <1>5 DEF InFlight
<1> HIDE DEF z, p
<1>7. Paid(z, p, 1)
  BY <1>1, <1>2 DEF Paid, IInv, TypeOK
<1>8. Locked(e, p, 0 - Kept(e, p))
  BY <1>1, <1>2, SMT DEF Locked, Kept, IInv, TypeOK
<1>9. Arrives(e, n, p)
  BY <1>2, <1>3, <1>5, <1>6, OneArrives DEF p
<1> QED
  BY <1>7, <1>8, <1>9 DEF Refunds, z, p

\* A successful OnRecvPacket pays back out of escrow or issues a voucher.
LEMMA ReceiveMoves ==
    ASSUME IInv, NEW e \in End, NEW n \in Sequence,
           OnRecvPacketUnescrow(e, n) \/ OnRecvPacketMint(e, n)
    PROVE  LET p == packet[e][n] IN PaysBack(e, n, p) \/ Issues(e, n, p)
<1> DEFINE d == Peer[e]
           z == Home[d]
           p == packet[e][n]
<1>1. d \in End /\ z \in Zone /\ p \in Denom
  BY TopologyAssumption, SMT DEF IInv, TypeOK
<1>2. Deliver(e, n, "result") /\ UNCHANGED packet
  BY DEF OnRecvPacketUnescrow, OnRecvPacketMint
<1>3. Arrives(e, n, p)
  BY <1>2, DeliverArrives
<1>4. CASE OnRecvPacketUnescrow(e, n)
  <2> DEFINE t == Tail(p)
  <2>1. ReceiverChainIsSource(e, p) /\ t \in Denom
    BY <1>1, <1>4, TailIsDenom DEF OnRecvPacketUnescrow, ReceiverChainIsSource
  <2>2. /\ escrow' = [escrow EXCEPT ![d][t] = @ - 1]
        /\ bank' = [bank EXCEPT ![z][t] = @ + 1]
    BY <1>4 DEF OnRecvPacketUnescrow
  <2> HIDE DEF t, p, d, z
  <2>3. Paid(z, t, 1)
    BY <1>1, <2>1, <2>2 DEF Paid, IInv, TypeOK
  <2>4. Locked(d, t, -1)
    BY <1>1, <2>1, <2>2 DEF Locked, IInv, TypeOK
  <2> QED
    BY <1>3, <2>1, <2>3, <2>4 DEF PaysBack, t, p, d, z
<1>5. CASE OnRecvPacketMint(e, n)
  <2> DEFINE v == <<Name[d]>> \o p
  <2>1. ~ReceiverChainIsSource(e, p) /\ Len(p) < MaxHops
    BY <1>2, <1>5 DEF IInv, SentInv, Deliver, OnRecvPacketMint
  <2>2. v \in Denom
    BY <1>1, <2>1, VoucherIsDenom
  <2>3. bank' = [bank EXCEPT ![z][v] = @ + 1] /\ UNCHANGED escrow
    BY <1>5 DEF OnRecvPacketMint
  <2> HIDE DEF v, p, d, z
  <2>4. Paid(z, v, 1)
    BY <1>1, <2>2, <2>3 DEF Paid, IInv, TypeOK
  <2> QED
    BY <1>3, <2>1, <2>3, <2>4 DEF Issues, v, p, d, z
<1> QED
  BY <1>4, <1>5

\* An error acknowledgement written, or a successful one received, moves nothing.
LEMMA NothingMovesStep ==
    ASSUME IInv, UNCHANGED <<bank, escrow, packet>>,
           \/ UNCHANGED channelVars
           \/ \E e \in End : \E n \in Sequence : Deliver(e, n, "error")
           \/ \E e \in End : \E n \in Sequence : Acknowledge(e, n) /\ delivered[e][n] # "error"
    PROVE  NothingMoves
<1> SUFFICES ASSUME NEW f \in End, NEW k \in Sequence PROVE InFlight(f, k)' <=> InFlight(f, k)
  BY DEF NothingMoves
<1>1. CASE UNCHANGED channelVars
  BY <1>1 DEF channelVars, InFlight
<1>2. ASSUME NEW e \in End, NEW n \in Sequence, Deliver(e, n, "error")
      PROVE  InFlight(f, k)' <=> InFlight(f, k)
  <2>1. UNCHANGED <<sent, settled>> /\ (delivered'[f][k] = "result" <=> delivered[f][k] = "result")
    BY <1>2 DEF Deliver, IInv, TypeOK, ChannelTypeOK
  <2> QED
    BY <2>1 DEF InFlight
<1>3. ASSUME NEW e \in End, NEW n \in Sequence, Acknowledge(e, n), delivered[e][n] # "error"
      PROVE  InFlight(f, k)' <=> InFlight(f, k)
  <2>1. delivered[e][n] = "result" /\ UNCHANGED <<sent, delivered>>
    BY <1>3, SMT DEF Acknowledge, IInv, TypeOK, ChannelTypeOK, Ack
  <2>2. <<f, k>> # <<e, n>> => settled'[f][k] = settled[f][k]
    BY <1>3, SMT DEF Acknowledge, IInv, TypeOK, ChannelTypeOK
  <2> QED
    BY <2>1, <2>2 DEF InFlight
<1> QED
  BY <1>1, <1>2, <1>3

LEMMA StepMoves ==
    ASSUME IInv, Unsent, [Next]_vars
    PROVE  NothingMoves \/ \E e \in End : \E n \in Sequence : \E p \in Denom : Moves(e, n, p)
<1>1. CASE UNCHANGED vars
  BY <1>1, NothingMovesStep DEF vars, appVars
<1>2. ASSUME NEW e \in End, NEW p \in Denom, SendTransfer(e, p)
      PROVE  \E n \in Sequence : Moves(e, n, p)
  BY <1>2, SendMoves DEF Moves
<1>3. ASSUME NEW e \in End, NEW n \in Sequence PROVE packet[e][n] \in Denom
  BY DEF IInv, TypeOK
<1>4. ASSUME NEW e \in End, NEW n \in Sequence, OnRecvPacketUnescrow(e, n) \/ OnRecvPacketMint(e, n)
      PROVE  \E p \in Denom : Moves(e, n, p)
  BY <1>3, <1>4, ReceiveMoves DEF Moves
<1>5. ASSUME NEW e \in End, NEW n \in Sequence, NEW refused,
             OnRecvPacketError(e, n, refused) \/ OnRecvPacketMintError(e, n)
      PROVE  NothingMoves
  BY <1>5, NothingMovesStep DEF OnRecvPacketError, OnRecvPacketMintError, appVars
<1>6. ASSUME NEW e \in End, NEW n \in Sequence, OnAcknowledgementPacket(e, n) \/ OnTimeoutPacket(e, n)
      PROVE  NothingMoves \/ \E p \in Denom : Moves(e, n, p)
  <2>1. CASE Acknowledge(e, n) /\ delivered[e][n] # "error" /\ UNCHANGED appVars
    BY <2>1, NothingMovesStep DEF appVars
  <2>2. CASE /\ refundPacketToken(e, n)
             /\ (Acknowledge(e, n) /\ delivered[e][n] = "error") \/ Expire(e, n)
    BY <1>3, <2>2, RefundMoves DEF Moves
  <2> QED
    BY <1>6, <2>1, <2>2 DEF OnAcknowledgementPacket, OnTimeoutPacket
<1> QED
  BY <1>1, <1>2, <1>4, <1>5, <1>6 DEF Next

-----------------------------------------------------------------------------
\* What a movement does to the sums that the two invariants are about.
LEMMA AccountsMove ==
    ASSUME IInv, IInv', NEW z \in Zone, NEW p \in Denom, NEW k \in Int, Paid(z, p, k), NEW o \in Zone
    PROVE  /\ SumFunctionOnSet(InAccounts, Claims[o]) \in Nat
           /\ SumFunctionOnSet(InAccounts, Claims[o])' \in Nat
           /\ SumFunctionOnSet(InAccounts, Claims[o])' = SumFunctionOnSet(InAccounts, Claims[o])
                  + IF Origin[<<z, p>>] = o THEN k ELSE 0
<1> DEFINE D == Zone \X Denom
           S == {x \in D : Origin[x] = o}
           f == [x \in D |-> bank[x[1]][x[2]]]
           g == [x \in D |-> bank'[x[1]][x[2]]]
           zp == <<z, p>>
<1>1. Claims[o] = S /\ Claims'[o] = S /\ InAccounts = f /\ InAccounts' = g
  BY DEF Claims, InAccounts
<1>2. f \in [D -> Nat] /\ g \in [D -> Nat]
  BY SMT DEF IInv, TypeOK
<1>3. S \in SUBSET D /\ IsFiniteSet(S)
  BY PlacesAreFinite
<1>4. zp \in D /\ (zp \in S <=> Origin[zp] = o) /\ f[zp] = bank[z][p] /\ g[zp] = bank'[z][p]
  OBVIOUS
<1>5. ASSUME NEW y \in D, y # zp PROVE f[y] = g[y]
  <2>1. y[1] \in Zone /\ y[2] \in Denom /\ y = <<y[1], y[2]>>
    BY SMT
  <2> QED
    BY <1>5, <2>1 DEF Paid
<1>6. g[zp] = f[zp] + k
  BY <1>4 DEF Paid
<1>7. SumFunctionOnSet(f, S) \in Nat /\ SumFunctionOnSet(g, S) \in Nat /\ f[zp] \in Nat
  BY <1>2, <1>3, <1>4, SumType
<1> HIDE DEF D, S, f, g
<1>8. CASE Origin[zp] = o
  <2>1. SumFunctionOnSet(g, S) + f[zp] = SumFunctionOnSet(f, S) + g[zp]
    BY <1>2, <1>3, <1>4, <1>5, <1>8, SumChange, SMT
  <2> QED
    BY <1>1, <1>6, <1>7, <1>8, <2>1, SMT
<1>9. CASE Origin[zp] # o
  <2>1. SumFunctionOnSet(g, S) = SumFunctionOnSet(f, S)
    BY <1>2, <1>3, <1>4, <1>5, <1>9, SumAgree, SMT
  <2> QED
    BY <1>1, <1>7, <1>9, <2>1, SMT
<1> QED
  BY <1>8, <1>9

LEMMA EscrowMoves ==
    ASSUME IInv, IInv', NEW e \in End, NEW p \in Denom, NEW k \in Int, Locked(e, p, k),
           NEW y \in Zone, NEW q \in Denom
    PROVE  /\ SumFunctionOnSet(Escrowed(q), EndsOf(y)) \in Nat
           /\ SumFunctionOnSet(Escrowed(q), EndsOf(y))' \in Nat
           /\ SumFunctionOnSet(Escrowed(q), EndsOf(y))' = SumFunctionOnSet(Escrowed(q), EndsOf(y))
                  + IF Home[e] = y /\ p = q THEN k ELSE 0
<1> DEFINE S == EndsOf(y)
           f == [x \in End |-> escrow[x][q]]
           g == [x \in End |-> escrow'[x][q]]
<1>1. EndsOf(y)' = S /\ Escrowed(q) = f /\ Escrowed(q)' = g
  BY DEF Escrowed, EndsOf
<1>2. f \in [End -> Nat] /\ g \in [End -> Nat]
  BY SMT DEF IInv, TypeOK
<1>3. S \in SUBSET End /\ IsFiniteSet(S) /\ (e \in S <=> Home[e] = y)
  BY FiniteAssumption, FS_Subset DEF EndsOf
<1>4. ASSUME NEW x \in End, x # e \/ p # q PROVE f[x] = g[x]
  BY <1>4 DEF Locked
<1>5. p = q => g[e] = f[e] + k
  BY DEF Locked
<1>6. SumFunctionOnSet(f, S) \in Nat /\ SumFunctionOnSet(g, S) \in Nat /\ f[e] \in Nat
  BY <1>2, <1>3, SumType
<1> HIDE DEF S, f, g
<1>7. CASE Home[e] = y /\ p = q
  <2>1. SumFunctionOnSet(g, S) + f[e] = SumFunctionOnSet(f, S) + g[e]
    BY <1>2, <1>3, <1>4, <1>7, SumChange, SMT
  <2> QED
    BY <1>1, <1>5, <1>6, <1>7, <2>1, SMT DEF S
<1>8. CASE ~(Home[e] = y /\ p = q)
  <2>1. SumFunctionOnSet(g, S) = SumFunctionOnSet(f, S)
    BY <1>2, <1>3, <1>4, <1>8, SumAgree, SMT
  <2> QED
    BY <1>1, <1>6, <1>8, <2>1, SMT DEF S
<1> QED
  BY <1>7, <1>8

\* The packets counted by the two invariants are finitely many.
LEMMA FlightsAreFinite ==
    /\ \A S \in SUBSET Sequence : IsFiniteSet(S)
    /\ \A S \in SUBSET (End \X Sequence) : IsFiniteSet(S)
<1>1. IsFiniteSet(Sequence)
  BY FS_Interval, TransferBoundAssumption, SMT DEF Sequence
<1>2. IsFiniteSet(End \X Sequence)
  BY <1>1, FiniteAssumption, FS_Product
<1> QED
  BY <1>1, <1>2, FS_Subset

LEMMA OnTheWayDef ==
    ASSUME IInv, IInv', NEW o \in Zone
    PROVE  /\ OnTheWay(o) = {x \in End \X Sequence : /\ InFlight(x[1], x[2])
                                                     /\ Origin[<<Home[x[1]], packet[x[1]][x[2]]>>] = o}
           /\ OnTheWay(o)' = {x \in End \X Sequence : /\ InFlight(x[1], x[2])'
                                                      /\ Origin[<<Home[x[1]], packet'[x[1]][x[2]]>>] = o}
<1>1. ASSUME NEW x \in End \X Sequence
      PROVE  /\ <<Home[x[1]], packet[x[1]][x[2]]>> \in Zone \X Denom
             /\ <<Home[x[1]], packet'[x[1]][x[2]]>> \in Zone \X Denom
  BY TopologyAssumption, SMT DEF IInv, TypeOK
<1> QED
  BY <1>1 DEF OnTheWay, Claims

\* A packet that departs adds one to the packets of its path, and to the tokens
\* on the way from the origin of its path.
LEMMA DepartureCounts ==
    ASSUME IInv, IInv', NEW e \in End, NEW n \in Sequence, NEW p \in Denom, Departs(e, n, p),
           NEW f \in End, NEW q \in Denom
    PROVE  /\ InFlightOf(f, q) \in Nat
           /\ InFlightOf(f, q)' = InFlightOf(f, q) + IF f = e /\ q = p THEN 1 ELSE 0
<1> DEFINE S == {k \in Sequence : InFlight(f, k) /\ packet[f][k] = q}
           T == {k \in Sequence : InFlight(f, k)' /\ packet'[f][k] = q}
<1>1. InFlightOf(f, q) = Cardinality(S) /\ InFlightOf(f, q)' = Cardinality(T)
  BY DEF InFlightOf
<1>2. IF f = e /\ q = p THEN n \notin S /\ T = S \cup {n} ELSE T = S
  <2>1. ASSUME NEW k \in Sequence, <<f, k>> # <<e, n>> PROVE k \in T <=> k \in S
    BY <2>1 DEF Departs, OthersStay
  <2>2. f = e => n \notin S /\ (n \in T <=> q = p)
    BY DEF Departs
  <2> QED
    BY <2>1, <2>2
<1>3. IsFiniteSet(S)
  BY FlightsAreFinite
<1> HIDE DEF S, T
<1> QED
  BY <1>1, <1>2, <1>3, FS_AddElement, FS_CardinalityType, SMT

LEMMA DepartureOnTheWay ==
    ASSUME IInv, IInv', NEW e \in End, NEW n \in Sequence, NEW p \in Denom, Departs(e, n, p),
           NEW o \in Zone
    PROVE  /\ Cardinality(OnTheWay(o)) \in Nat
           /\ Cardinality(OnTheWay(o))' = Cardinality(OnTheWay(o))
                  + IF Origin[<<Home[e], p>>] = o THEN 1 ELSE 0
<1> DEFINE S == OnTheWay(o)
           T == OnTheWay(o)'
           en == <<e, n>>
<1>1. /\ S = {x \in End \X Sequence : /\ InFlight(x[1], x[2])
                                      /\ Origin[<<Home[x[1]], packet[x[1]][x[2]]>>] = o}
      /\ T = {x \in End \X Sequence : /\ InFlight(x[1], x[2])'
                                      /\ Origin[<<Home[x[1]], packet'[x[1]][x[2]]>>] = o}
  BY OnTheWayDef
<1>2. IF Origin[<<Home[e], p>>] = o THEN en \notin S /\ T = S \cup {en} ELSE T = S
  <2>1. ASSUME NEW x \in End \X Sequence, x # en PROVE x \in T <=> x \in S
    <3>1. x[1] \in End /\ x[2] \in Sequence /\ <<x[1], x[2]>> # <<e, n>>
      BY <2>1, SMT
    <3> QED
      BY <1>1, <3>1 DEF Departs, OthersStay
  <2>2. en \in End \X Sequence /\ en \notin S /\ (en \in T <=> Origin[<<Home[e], p>>] = o)
    BY <1>1 DEF Departs
  <2>3. S \subseteq End \X Sequence /\ T \subseteq End \X Sequence
    BY <1>1
  <2> HIDE DEF S, T, en
  <2> QED
    BY <2>1, <2>2, <2>3, SMT
<1>3. IsFiniteSet(S)
  BY <1>1, FlightsAreFinite
<1>4. Cardinality(OnTheWay(o))' = Cardinality(T)
  OBVIOUS
<1> HIDE DEF T, en
<1> QED
  BY <1>2, <1>3, <1>4, FS_AddElement, FS_CardinalityType, SMT

\* A packet that arrives takes one from the packets of its path, and from the
\* tokens on the way from the origin of its path.
LEMMA ArrivalCounts ==
    ASSUME IInv, IInv', NEW e \in End, NEW n \in Sequence, NEW p \in Denom, Arrives(e, n, p),
           NEW f \in End, NEW q \in Denom
    PROVE  /\ InFlightOf(f, q) \in Nat
           /\ InFlightOf(f, q)' = InFlightOf(f, q) - IF f = e /\ q = p THEN 1 ELSE 0
<1> DEFINE S == {k \in Sequence : InFlight(f, k) /\ packet[f][k] = q}
           T == {k \in Sequence : InFlight(f, k)' /\ packet'[f][k] = q}
<1>1. InFlightOf(f, q) = Cardinality(S) /\ InFlightOf(f, q)' = Cardinality(T)
  BY DEF InFlightOf
<1>2. IF f = e /\ q = p THEN n \in S /\ T = S \ {n} ELSE T = S
  <2>1. ASSUME NEW k \in Sequence, <<f, k>> # <<e, n>> PROVE k \in T <=> k \in S
    BY <2>1 DEF Arrives, OthersStay
  <2>2. f = e => n \notin T /\ (n \in S <=> q = p)
    BY DEF Arrives
  <2> QED
    BY <2>1, <2>2
<1>3. IsFiniteSet(S)
  BY FlightsAreFinite
<1> HIDE DEF S, T
<1> QED
  BY <1>1, <1>2, <1>3, FS_RemoveElement, FS_CardinalityType, SMT

LEMMA ArrivalOnTheWay ==
    ASSUME IInv, IInv', NEW e \in End, NEW n \in Sequence, NEW p \in Denom, Arrives(e, n, p),
           NEW o \in Zone
    PROVE  /\ Cardinality(OnTheWay(o)) \in Nat
           /\ Cardinality(OnTheWay(o))' = Cardinality(OnTheWay(o))
                  - IF Origin[<<Home[e], p>>] = o THEN 1 ELSE 0
<1> DEFINE S == OnTheWay(o)
           T == OnTheWay(o)'
           en == <<e, n>>
<1>1. /\ S = {x \in End \X Sequence : /\ InFlight(x[1], x[2])
                                      /\ Origin[<<Home[x[1]], packet[x[1]][x[2]]>>] = o}
      /\ T = {x \in End \X Sequence : /\ InFlight(x[1], x[2])'
                                      /\ Origin[<<Home[x[1]], packet'[x[1]][x[2]]>>] = o}
  BY OnTheWayDef
<1>2. IF Origin[<<Home[e], p>>] = o THEN en \in S /\ T = S \ {en} ELSE T = S
  <2>1. ASSUME NEW x \in End \X Sequence, x # en PROVE x \in T <=> x \in S
    <3>1. x[1] \in End /\ x[2] \in Sequence /\ <<x[1], x[2]>> # <<e, n>>
      BY <2>1, SMT
    <3> QED
      BY <1>1, <3>1 DEF Arrives, OthersStay
  <2>2. en \in End \X Sequence /\ en \notin T /\ (en \in S <=> Origin[<<Home[e], p>>] = o)
    BY <1>1 DEF Arrives
  <2>3. S \subseteq End \X Sequence /\ T \subseteq End \X Sequence
    BY <1>1
  <2> HIDE DEF S, T, en
  <2> QED
    BY <2>1, <2>2, <2>3, SMT
<1>3. IsFiniteSet(S)
  BY <1>1, FlightsAreFinite
<1>4. Cardinality(OnTheWay(o))' = Cardinality(T)
  OBVIOUS
<1> HIDE DEF T, en
<1> QED
  BY <1>2, <1>3, <1>4, FS_RemoveElement, FS_CardinalityType, SMT

-----------------------------------------------------------------------------
LEMMA InitFlights ==
    ASSUME Init
    PROVE  /\ \A e \in End : \A p \in Denom : InFlightOf(e, p) = 0
           /\ \A o \in Zone : Cardinality(OnTheWay(o)) = 0
<1>1. \A e \in End : \A n \in Sequence : ~InFlight(e, n)
  BY SMT DEF Init, ChannelInit, Sequence, InFlight
<1>2. ASSUME NEW e \in End, NEW p \in Denom PROVE InFlightOf(e, p) = 0
  <2>1. {n \in Sequence : InFlight(e, n) /\ packet[e][n] = p} = {}
    BY <1>1
  <2> QED
    BY <2>1, FS_EmptySet DEF InFlightOf
<1>3. ASSUME NEW o \in Zone PROVE Cardinality(OnTheWay(o)) = 0
  <2>1. OnTheWay(o) = {}
    BY <1>1 DEF OnTheWay
  <2> QED
    BY <2>1, FS_EmptySet
<1> QED
  BY <1>2, <1>3

\* At first a chain's native tokens are where they belong.
LEMMA InitSupply == Init => SupplyConstant
<1> SUFFICES ASSUME Init, NEW o \in Zone
             PROVE  Supply[o] = SumFunctionOnSet(InAccounts, Claims[o]) + Cardinality(OnTheWay(o))
  BY DEF SupplyConstant
<1> DEFINE D == Zone \X Denom
           S == Claims[o]
           f == InAccounts
           home == <<o, <<>>>>
<1>1. f \in [D -> Nat]
  BY InitIInv, SMT DEF IInv, TypeOK, InAccounts
<1>2. S \in SUBSET D /\ IsFiniteSet(S)
  BY PlacesAreFinite DEF Claims
<1>3. ASSUME NEW x \in D, x[2] = <<>> PROVE Origin[x] = x[1]
  BY <1>3, OriginUnfold
<1>4. home \in D /\ home[2] = <<>> /\ home[1] = o
  BY EmptyIsDenom
<1>5. home \in S
  BY <1>3, <1>4 DEF Claims
<1>6. f[home] = Supply[o]
  BY <1>4, EmptyIsDenom DEF Init, InAccounts
<1>7. ASSUME NEW x \in S \ {home} PROVE f[x] = 0
  <2>1. x \in D /\ Origin[x] = o /\ x[1] \in Zone /\ x[2] \in Denom
    BY DEF Claims
  <2>2. x[2] # <<>>
    <3> SUFFICES ASSUME x[2] = <<>> PROVE FALSE
      OBVIOUS
    <3>1. x[1] = o
      BY <1>3, <2>1
    <3> QED
      BY <2>1, <3>1, SMT
  <2> QED
    BY <2>1, <2>2 DEF Init, InAccounts
<1>8. IsFiniteSet(S \ {home}) /\ S \ {home} \in SUBSET D
  BY <1>2, FS_RemoveElement
<1> HIDE DEF f, S, home, D
<1>9. SumFunctionOnSet(f, S \ {home}) = 0
  BY <1>1, <1>7, <1>8, SumZero
<1>10. SumFunctionOnSet(f, S) = f[home] + SumFunctionOnSet(f, S \ {home})
  BY <1>1, <1>2, <1>5, SumRemove, SMT
<1>11. Cardinality(OnTheWay(o)) = 0
  BY InitFlights
<1>12. Supply[o] \in Nat
  BY TransferBoundAssumption
<1> QED
  BY <1>6, <1>9, <1>10, <1>11, <1>12, SMT DEF f, S

LEMMA InitBacked == Init => VouchersBacked
<1> SUFFICES ASSUME Init, NEW e \in End, NEW p \in Denom, Len(p) < MaxHops
             PROVE  LET v == <<Name[Peer[e]]>> \o p
                    IN  escrow[e][p] = Holding(Home[Peer[e]], v) + InFlightOf(e, p) + InFlightOf(Peer[e], v)
  BY DEF VouchersBacked
<1> DEFINE d == Peer[e]
           H == Home[d]
           v == <<Name[d]>> \o p
<1>1. d \in End /\ H \in Zone
  BY TopologyAssumption
<1>2. v \in Denom /\ v # <<>>
  BY <1>1, VoucherFacts
<1> HIDE DEF d, H, v
<1>3. escrow[e][p] = 0 /\ bank[H][v] = 0
  BY <1>1, <1>2 DEF Init
<1>4. Escrowed(v) \in [End -> Nat] /\ \A x \in EndsOf(H) : Escrowed(v)[x] = 0
  BY <1>2 DEF Init, Escrowed, EndsOf
<1>5. EndsOf(H) \in SUBSET End /\ IsFiniteSet(EndsOf(H))
  BY FiniteAssumption, FS_Subset DEF EndsOf
<1>6. SumFunctionOnSet(Escrowed(v), EndsOf(H)) = 0
  BY <1>4, <1>5, SumZero
<1>7. InFlightOf(e, p) = 0 /\ InFlightOf(d, v) = 0
  BY <1>1, <1>2, InitFlights
<1> QED
  BY <1>3, <1>6, <1>7, SMT DEF Holding, d, H, v

-----------------------------------------------------------------------------
\* What leaves an account is on its way, and what arrives has the same origin.
LEMMA SupplyMoves ==
    ASSUME IInv, IInv', SupplyConstant, NEW e \in End, NEW n \in Sequence, NEW p \in Denom,
           Moves(e, n, p)
    PROVE  SupplyConstant'
<1> SUFFICES ASSUME NEW o \in Zone
             PROVE  Supply[o] = SumFunctionOnSet(InAccounts, Claims[o])' + Cardinality(OnTheWay(o))'
  BY DEF SupplyConstant
<1> DEFINE A == SumFunctionOnSet(InAccounts, Claims[o])
           AN == SumFunctionOnSet(InAccounts, Claims[o])'
           C == Cardinality(OnTheWay(o))
           CN == Cardinality(OnTheWay(o))'
           from == Origin[<<Home[e], p>>]
<1>1. Supply[o] = A + C
  BY DEF SupplyConstant
<1>2. Peer[e] \in End /\ Home[e] \in Zone /\ Home[Peer[e]] \in Zone /\ Peer[Peer[e]] = e
  BY TopologyAssumption
<1>3. ASSUME NEW z \in Zone, NEW q \in Denom, NEW k \in Int, Paid(z, q, k)
      PROVE  A \in Nat /\ AN \in Nat /\ AN = A + IF Origin[<<z, q>>] = o THEN k ELSE 0
  BY <1>3, AccountsMove
<1>4. Departs(e, n, p) => C \in Nat /\ CN = C + IF from = o THEN 1 ELSE 0
  BY DepartureOnTheWay
<1>5. Arrives(e, n, p) => C \in Nat /\ CN = C - IF from = o THEN 1 ELSE 0
  BY ArrivalOnTheWay
<1> HIDE DEF A, AN, C, CN, from
<1>6. CASE Sends(e, n, p)
  <2>1. A \in Nat /\ AN \in Nat /\ AN = A + IF from = o THEN -1 ELSE 0
    <3>1. -1 \in Int /\ Paid(Home[e], p, -1)
      BY <1>6, SMT DEF Sends
    <3> QED
      BY <1>2, <1>3, <3>1 DEF from
  <2>2. C \in Nat /\ CN = C + IF from = o THEN 1 ELSE 0
    BY <1>4, <1>6 DEF Sends
  <2>3. AN + CN = A + C
    BY <2>1, <2>2, SMT
  <2> QED
    BY <1>1, <2>3 DEF AN, CN
<1>7. ASSUME NEW z \in Zone, NEW q \in Denom, Paid(z, q, 1), Arrives(e, n, p), Origin[<<z, q>>] = from
      PROVE  Supply[o] = AN + CN
  <2>1. A \in Nat /\ AN \in Nat /\ AN = A + IF from = o THEN 1 ELSE 0
    <3>1. 1 \in Int
      BY SMT
    <3> QED
      BY <1>3, <1>7, <3>1
  <2>2. C \in Nat /\ CN = C - IF from = o THEN 1 ELSE 0
    BY <1>5, <1>7
  <2>3. AN + CN = A + C
    BY <2>1, <2>2, SMT
  <2> QED
    BY <1>1, <2>3
<1>8. CASE Refunds(e, n, p)
  BY <1>2, <1>7, <1>8 DEF Refunds, from, AN, CN
<1>9. CASE PaysBack(e, n, p)
  <2>1. Tail(p) \in Denom /\ Origin[<<Home[Peer[e]], Tail(p)>>] = from
    BY <1>9, OriginOfTail DEF PaysBack, from
  <2> QED
    BY <1>2, <1>7, <1>9, <2>1 DEF PaysBack, AN, CN
<1>10. CASE Issues(e, n, p)
  <2> DEFINE v == <<Name[Peer[e]]>> \o p
  <2>1. v \in Denom /\ Origin[<<Home[Peer[e]], v>>] = Origin[<<Home[Peer[Peer[e]]], p>>]
    BY <1>2, <1>10, VoucherFacts DEF Issues
  <2>2. Origin[<<Home[Peer[e]], v>>] = from
    BY <1>2, <2>1 DEF from
  <2>3. Paid(Home[Peer[e]], v, 1) /\ Arrives(e, n, p)
    BY <1>10 DEF Issues
  <2> HIDE DEF v
  <2> QED
    BY <1>2, <1>7, <2>1, <2>2, <2>3 DEF AN, CN
<1> QED
  BY <1>6, <1>8, <1>9, <1>10 DEF Moves

\* The other chain's side of an escrow account: what it holds of the voucher, and
\* what is in flight either way, is what this side has in escrow.
LEMMA BackingMoves ==
    ASSUME IInv, IInv', VouchersBacked, NEW e \in End, NEW n \in Sequence, NEW p \in Denom,
           Moves(e, n, p)
    PROVE  VouchersBacked'
<1> SUFFICES ASSUME NEW a \in End, NEW q \in Denom, Len(q) < MaxHops, ~ReceiverChainIsSource(a, q)
             PROVE  LET v == <<Name[Peer[a]]>> \o q
                    IN  escrow'[a][q] = Holding(Home[Peer[a]], v)' + InFlightOf(a, q)'
                                        + InFlightOf(Peer[a], v)'
  BY DEF VouchersBacked, ReceiverChainIsSource
<1> DEFINE b == Peer[a]
           H == Home[b]
           v == <<Name[b]>> \o q
           S == SumFunctionOnSet(Escrowed(v), EndsOf(H))
           SN == SumFunctionOnSet(Escrowed(v), EndsOf(H))'
           F == InFlightOf(a, q)
           FN == InFlightOf(a, q)'
           G == InFlightOf(b, v)
           GN == InFlightOf(b, v)'
           E == escrow[a][q]
           EN == escrow'[a][q]
           B == bank[H][v]
           BN == bank'[H][v]
<1>1. b \in End /\ H \in Zone /\ Peer[b] = a /\ b # a
  BY TopologyAssumption
<1>2. v \in Denom /\ v # q /\ v # <<>> /\ Head(v) = Name[b] /\ Tail(v) = q
  BY <1>1, VoucherFacts
<1>3. E = B + S + F + G
  BY DEF VouchersBacked, Holding
<1> SUFFICES EN = BN + SN + FN + GN
  BY DEF Holding
<1> HIDE DEF b, H, v
<1>4. /\ Departs(e, n, p) => /\ F \in Nat /\ FN = F + IF a = e /\ q = p THEN 1 ELSE 0
                             /\ G \in Nat /\ GN = G + IF b = e /\ v = p THEN 1 ELSE 0
      /\ Arrives(e, n, p) => /\ F \in Nat /\ FN = F - IF a = e /\ q = p THEN 1 ELSE 0
                             /\ G \in Nat /\ GN = G - IF b = e /\ v = p THEN 1 ELSE 0
  <2>1. ASSUME Departs(e, n, p)
        PROVE  F \in Nat /\ FN = F + IF a = e /\ q = p THEN 1 ELSE 0
    BY <2>1, DepartureCounts, SMT
  <2>2. ASSUME Departs(e, n, p)
        PROVE  G \in Nat /\ GN = G + IF b = e /\ v = p THEN 1 ELSE 0
    BY <1>1, <1>2, <2>2, DepartureCounts, SMT
  <2>3. ASSUME Arrives(e, n, p)
        PROVE  F \in Nat /\ FN = F - IF a = e /\ q = p THEN 1 ELSE 0
    BY <2>3, ArrivalCounts, SMT
  <2>4. ASSUME Arrives(e, n, p)
        PROVE  G \in Nat /\ GN = G - IF b = e /\ v = p THEN 1 ELSE 0
    BY <1>1, <1>2, <2>4, ArrivalCounts, SMT
  <2> HIDE DEF F, FN, G, GN
  <2> QED
    BY <2>1, <2>2, <2>3, <2>4
<1>5. ASSUME NEW f \in End, NEW r \in Denom, NEW k \in Int, Locked(f, r, k)
      PROVE  S \in Nat /\ SN = S + IF Home[f] = H /\ r = v THEN k ELSE 0
  BY <1>1, <1>2, <1>5, EscrowMoves, SMT
<1>6. ASSUME NEW f \in End, NEW r \in Denom, NEW k \in Int, Locked(f, r, k)
      PROVE  E \in Nat /\ EN = E + IF f = a /\ r = q THEN k ELSE 0
  <2>1. E \in Nat
    BY DEF IInv, TypeOK
  <2>2. CASE f = a /\ r = q
    BY <1>6, <2>1, <2>2 DEF Locked
  <2>3. CASE ~(f = a /\ r = q)
    <3>1. EN = E
      BY <1>6, <2>3 DEF Locked
    <3> QED
      BY <2>1, <2>3, <3>1, SMT
  <2> QED
    BY <2>2, <2>3
<1>7. ASSUME NEW z \in Zone, NEW r \in Denom, NEW k \in Int, Paid(z, r, k)
      PROVE  B \in Nat /\ BN = B + IF z = H /\ r = v THEN k ELSE 0
  <2>1. B \in Nat
    BY <1>1, <1>2, SMT DEF IInv, TypeOK
  <2>2. CASE z = H /\ r = v
    BY <1>7, <2>1, <2>2 DEF Paid
  <2>3. CASE ~(z = H /\ r = v)
    <3>1. BN = B
      BY <1>1, <1>2, <1>7, <2>3 DEF Paid
    <3> QED
      BY <2>1, <2>3, <3>1, SMT
  <2> QED
    BY <2>2, <2>3
<1> HIDE DEF S, SN, F, FN, G, GN, E, EN, B, BN
\* Of the ends of that chain only b takes the voucher back.
<1>8. ASSUME NEW f \in End, Home[f] = H PROVE ReceiverChainIsSource(f, v) <=> f = b
  BY <1>1, <1>2, <1>8, TopologyAssumption DEF ReceiverChainIsSource, H
<1>9. ASSUME NEW f \in End
      PROVE  Peer[f] \in End /\ Home[f] \in Zone /\ Home[Peer[f]] \in Zone /\ Peer[Peer[f]] = f
  BY TopologyAssumption
<1>10. CASE Sends(e, n, p)
  <2> DEFINE l == Kept(e, p)
  <2>1. Departs(e, n, p) /\ Paid(Home[e], p, -1) /\ Locked(e, p, l) /\ l \in {0, 1} /\ -1 \in Int /\ l \in Int
    BY <1>10, SMT DEF Sends, Kept
  <2>2. /\ e = a /\ p = q => l = 1
        /\ Home[e] = H /\ p = v => IF e = b THEN l = 0 ELSE l = 1
    BY <1>8 DEF Kept
  <2> HIDE DEF l
  <2>3. /\ F \in Nat /\ FN = F + IF a = e /\ q = p THEN 1 ELSE 0
        /\ G \in Nat /\ GN = G + IF b = e /\ v = p THEN 1 ELSE 0
    BY <1>4, <2>1
  <2>4. B \in Nat /\ BN = B + IF Home[e] = H /\ p = v THEN -1 ELSE 0
    BY <1>7, <1>9, <2>1
  <2>5. /\ S \in Nat /\ SN = S + IF Home[e] = H /\ p = v THEN l ELSE 0
        /\ E \in Nat /\ EN = E + IF e = a /\ p = q THEN l ELSE 0
    BY <1>5, <1>6, <2>1
  <2>6. e = b => Home[e] = H
    BY DEF H
  <2> QED
    BY <1>2, <1>3, <2>1, <2>2, <2>3, <2>4, <2>5, <2>6, SMT
<1>11. CASE Refunds(e, n, p)
  <2> DEFINE l == Kept(e, p)
             m == 0 - l
  <2>1. Arrives(e, n, p) /\ Paid(Home[e], p, 1) /\ Locked(e, p, m) /\ l \in {0, 1} /\ 1 \in Int /\ m \in Int
    BY <1>11, SMT DEF Refunds, Kept
  <2>2. /\ e = a /\ p = q => l = 1
        /\ Home[e] = H /\ p = v => IF e = b THEN l = 0 ELSE l = 1
    BY <1>8 DEF Kept
  <2>3. m = 0 - l
    OBVIOUS
  <2> HIDE DEF l, m
  <2>4. /\ F \in Nat /\ FN = F - IF a = e /\ q = p THEN 1 ELSE 0
        /\ G \in Nat /\ GN = G - IF b = e /\ v = p THEN 1 ELSE 0
    BY <1>4, <2>1
  <2>5. B \in Nat /\ BN = B + IF Home[e] = H /\ p = v THEN 1 ELSE 0
    BY <1>7, <1>9, <2>1
  <2>6. /\ S \in Nat /\ SN = S + IF Home[e] = H /\ p = v THEN m ELSE 0
        /\ E \in Nat /\ EN = E + IF e = a /\ p = q THEN m ELSE 0
    BY <1>5, <1>6, <2>1
  <2>7. e = b => Home[e] = H
    BY DEF H
  <2> QED
    BY <1>2, <1>3, <2>1, <2>2, <2>3, <2>4, <2>5, <2>6, <2>7, SMT
<1>12. CASE PaysBack(e, n, p)
  <2> DEFINE d == Peer[e]
             t == Tail(p)
  <2>1. /\ ReceiverChainIsSource(e, p) /\ Arrives(e, n, p) /\ Paid(Home[d], t, 1) /\ Locked(d, t, -1)
        /\ 1 \in Int /\ -1 \in Int
    BY <1>12, SMT DEF PaysBack
  <2>2. d \in End /\ Home[d] \in Zone /\ t \in Denom
    BY <1>9, <2>1, OriginOfTail
  <2>3. (d = a /\ t = q) <=> (e = b /\ p = v)
    <3>1. d = a <=> e = b
      BY <1>1, <1>9
    <3>2. p = <<Name[e]>> \o t
      BY <2>1, PathIsVoucher
    <3>3. ASSUME e = b, t = q PROVE p = v
      BY <3>2, <3>3 DEF v
    <3>4. p = v => t = q
      BY <1>2
    <3> HIDE DEF d, t
    <3> QED
      BY <3>1, <3>3, <3>4
  <2>4. ~(e = a /\ p = q)
    BY <2>1
  <2> HIDE DEF d, t
  <2>5. /\ F \in Nat /\ FN = F - IF a = e /\ q = p THEN 1 ELSE 0
        /\ G \in Nat /\ GN = G - IF b = e /\ v = p THEN 1 ELSE 0
    BY <1>4, <2>1
  <2>6. B \in Nat /\ BN = B + IF Home[d] = H /\ t = v THEN 1 ELSE 0
    BY <1>7, <2>1, <2>2
  <2>7. /\ S \in Nat /\ SN = S + IF Home[d] = H /\ t = v THEN -1 ELSE 0
        /\ E \in Nat /\ EN = E + IF d = a /\ t = q THEN -1 ELSE 0
    BY <1>5, <1>6, <2>1, <2>2
  <2> QED
    BY <1>3, <2>3, <2>4, <2>5, <2>6, <2>7, SMT
<1>13. CASE Issues(e, n, p)
  <2> DEFINE d == Peer[e]
             w == <<Name[d]>> \o p
  <2>1. /\ ~ReceiverChainIsSource(e, p) /\ Len(p) < MaxHops /\ Arrives(e, n, p)
        /\ Paid(Home[d], w, 1) /\ UNCHANGED escrow /\ 1 \in Int
    BY <1>13, SMT DEF Issues
  <2>2. d \in End /\ Home[d] \in Zone
    BY <1>9
  <2>3. w \in Denom /\ w # <<>> /\ Head(w) = Name[d] /\ Tail(w) = p
    BY <2>1, <2>2, VoucherFacts
  <2>4. (Home[d] = H /\ w = v) <=> (e = a /\ p = q)
    <3>1. ASSUME Home[d] = H, w = v PROVE e = a /\ p = q
      <4>1. d = b
        BY <1>2, <1>8, <2>2, <2>3, <3>1 DEF ReceiverChainIsSource
      <4> QED
        BY <1>1, <1>2, <1>9, <2>3, <3>1, <4>1
    <3>2. ASSUME e = a, p = q PROVE Home[d] = H /\ w = v
      BY <3>2 DEF H, v, b
    <3> QED
      BY <3>1, <3>2
  <2>5. ~(e = b /\ p = v)
    <3> SUFFICES ASSUME e = b, p = v PROVE FALSE
      OBVIOUS
    <3>1. Home[e] = H
      BY DEF H
    <3> QED
      BY <1>8, <2>1, <3>1
  <2>6. SN = S /\ S \in Nat /\ EN = E /\ E \in Nat
    <3>1. Locked(a, q, 0) /\ 0 \in Int
      BY <2>1, SMT DEF Locked, IInv, TypeOK
    <3>2. S \in Nat /\ SN = S + IF Home[a] = H /\ q = v THEN 0 ELSE 0
      BY <1>5, <3>1
    <3>3. E \in Nat /\ EN = E + IF a = a /\ q = q THEN 0 ELSE 0
      BY <1>6, <3>1
    <3> QED
      BY <3>2, <3>3, SMT
  <2> HIDE DEF d, w
  <2>7. /\ F \in Nat /\ FN = F - IF a = e /\ q = p THEN 1 ELSE 0
        /\ G \in Nat /\ GN = G - IF b = e /\ v = p THEN 1 ELSE 0
    BY <1>4, <2>1
  <2>8. B \in Nat /\ BN = B + IF Home[d] = H /\ w = v THEN 1 ELSE 0
    BY <1>7, <2>1, <2>2, <2>3
  <2> QED
    BY <1>3, <2>4, <2>5, <2>6, <2>7, <2>8, SMT
<1> QED
  BY <1>10, <1>11, <1>12, <1>13 DEF Moves

LEMMA NothingMovesKeeps ==
    ASSUME NothingMoves, SupplyConstant, VouchersBacked
    PROVE  SupplyConstant' /\ VouchersBacked'
<1>1. UNCHANGED <<bank, escrow, packet>>
  BY DEF NothingMoves
<1>2. \A e \in End : \A n \in Sequence : InFlight(e, n)' <=> InFlight(e, n)
  BY DEF NothingMoves
<1>3. ASSUME NEW o \in Zone
      PROVE  /\ SumFunctionOnSet(InAccounts, Claims[o])' = SumFunctionOnSet(InAccounts, Claims[o])
             /\ Cardinality(OnTheWay(o))' = Cardinality(OnTheWay(o))
  <2>1. InAccounts' = InAccounts
    BY <1>1 DEF InAccounts
  <2>2. OnTheWay(o)' = OnTheWay(o)
    BY <1>1, <1>2 DEF OnTheWay
  <2> QED
    BY <2>1, <2>2
<1>4. ASSUME NEW e \in End, NEW p PROVE InFlightOf(e, p)' = InFlightOf(e, p)
  <2>1. {n \in Sequence : InFlight(e, n)' /\ packet'[e][n] = p}
            = {n \in Sequence : InFlight(e, n) /\ packet[e][n] = p}
    BY <1>1, <1>2
  <2> QED
    BY <2>1 DEF InFlightOf
<1>5. ASSUME NEW z, NEW p PROVE Holding(z, p)' = Holding(z, p)
  BY <1>1 DEF Holding, Escrowed, EndsOf
<1>6. SupplyConstant'
  BY <1>3 DEF SupplyConstant
<1>7. VouchersBacked'
  <2> SUFFICES ASSUME NEW e \in End, NEW p \in Denom, Len(p) < MaxHops, ~ReceiverChainIsSource(e, p)
               PROVE  LET v == <<Name[Peer[e]]>> \o p
                      IN  escrow'[e][p] = Holding(Home[Peer[e]], v)' + InFlightOf(e, p)'
                                          + InFlightOf(Peer[e], v)'
    BY DEF VouchersBacked, ReceiverChainIsSource
  <2> DEFINE d == Peer[e]
             v == <<Name[d]>> \o p
  <2>1. escrow[e][p] = Holding(Home[d], v) + InFlightOf(e, p) + InFlightOf(d, v)
    BY DEF VouchersBacked
  <2>2. d \in End
    BY TopologyAssumption
  <2>3. /\ Holding(Home[d], v)' = Holding(Home[d], v)
        /\ InFlightOf(e, p)' = InFlightOf(e, p) /\ InFlightOf(d, v)' = InFlightOf(d, v)
    BY <1>4, <1>5, <2>2
  <2>4. escrow'[e][p] = escrow[e][p]
    BY <1>1
  <2> QED
    BY <2>1, <2>3, <2>4
<1> QED
  BY <1>6, <1>7

-----------------------------------------------------------------------------
\* A path whose last two hops are one channel there and back.
Detour(z, p) ==
    \E d \in EndsOf(z) : ReceiverChainIsSource(d, p) /\ ReceiverChainIsSource(Peer[d], Tail(p))

\* No chain has tokens of such a path, since they are returned and not issued.
NoDetour ==
    \A z \in Zone : \A p \in Denom : Detour(z, p) =>
        /\ bank[z][p] = 0
        /\ \A e \in EndsOf(z) : escrow[e][p] = 0
        /\ \A e \in EndsOf(z) : \A n \in Sequence : InFlight(e, n) => packet[e][n] # p

\* Whatever is in flight, escrow has the token that its arrival or its refund
\* pays out.
EscrowSuffices ==
    \A e \in End : \A n \in Sequence : InFlight(e, n) =>
        LET p == packet[e][n]
        IN  IF ReceiverChainIsSource(e, p) THEN escrow[Peer[e]][Tail(p)] > 0 ELSE escrow[e][p] > 0

LEMMA InitNoDetour == Init => NoDetour
<1>1. ASSUME Init, NEW z \in Zone, NEW p \in Denom, Detour(z, p)
      PROVE  bank[z][p] = 0 /\ \A e \in EndsOf(z) : escrow[e][p] = 0
  <2>1. p # <<>>
    BY <1>1 DEF Detour, ReceiverChainIsSource
  <2> QED
    BY <1>1, <2>1, SMT DEF Init, EndsOf
<1>2. Init => \A e \in End : \A n \in Sequence : ~InFlight(e, n)
  BY SMT DEF Init, ChannelInit, Sequence, InFlight
<1> QED
  BY <1>1, <1>2 DEF NoDetour, EndsOf

\* A voucher is issued only for a token that did not come through this channel.
LEMMA IssuedIsNoDetour ==
    ASSUME NEW e \in End, NEW p \in Denom, Len(p) < MaxHops, ~ReceiverChainIsSource(e, p)
    PROVE  ~Detour(Home[Peer[e]], <<Name[Peer[e]]>> \o p)
<1> DEFINE d == Peer[e]
           v == <<Name[d]>> \o p
<1>1. d \in End /\ Peer[d] = e
  BY TopologyAssumption
<1>2. Head(v) = Name[d] /\ Tail(v) = p
  BY <1>1, VoucherFacts
<1> SUFFICES ASSUME NEW f \in EndsOf(Home[d]), ReceiverChainIsSource(f, v),
                    ReceiverChainIsSource(Peer[f], Tail(v))
             PROVE  FALSE
  BY DEF Detour
<1> HIDE DEF v
<1>3. f \in End /\ Home[f] = Home[d] /\ Name[f] = Name[d]
  BY <1>2 DEF EndsOf, ReceiverChainIsSource
<1>4. f = d
  BY <1>1, <1>3, TopologyAssumption
<1> QED
  BY <1>1, <1>2, <1>4

LEMMA NextNoDetour ==
    ASSUME IInv, IInv', NoDetour,
           NothingMoves \/ \E e \in End : \E n \in Sequence : \E p \in Denom : Moves(e, n, p)
    PROVE  NoDetour'
<1> SUFFICES ASSUME NEW z \in Zone, NEW q \in Denom, Detour(z, q)
             PROVE  /\ bank'[z][q] = 0
                    /\ \A f \in EndsOf(z) : escrow'[f][q] = 0
                    /\ \A f \in EndsOf(z) : \A k \in Sequence : InFlight(f, k)' => packet'[f][k] # q
  BY DEF NoDetour, Detour, EndsOf, ReceiverChainIsSource
<1>1. /\ bank[z][q] = 0
      /\ \A f \in EndsOf(z) : escrow[f][q] = 0
      /\ \A f \in EndsOf(z) : \A k \in Sequence : InFlight(f, k) => packet[f][k] # q
  BY DEF NoDetour
<1>2. EndsOf(z) \subseteq End /\ \A f \in End : f \in EndsOf(z) <=> Home[f] = z
  BY DEF EndsOf
<1>3. CASE NothingMoves
  BY <1>1, <1>2, <1>3 DEF NothingMoves
<1>4. ASSUME NEW e \in End, NEW n \in Sequence, NEW p \in Denom, Moves(e, n, p)
      PROVE  /\ bank'[z][q] = 0
             /\ \A f \in EndsOf(z) : escrow'[f][q] = 0
             /\ \A f \in EndsOf(z) : \A k \in Sequence : InFlight(f, k)' => packet'[f][k] # q
  <2> DEFINE d == Peer[e]
  <2>1. d \in End /\ Home[e] \in Zone /\ Home[d] \in Zone
    BY TopologyAssumption
  \* Nothing of this path is there to be moved.
  <2>2. ASSUME NEW y \in Zone, NEW r \in Denom, NEW k, Paid(y, r, k), <<y, r>> # <<z, q>>
        PROVE  bank'[z][q] = 0
    BY <1>1, <2>2 DEF Paid
  <2>3. ASSUME NEW g \in End, NEW r \in Denom, NEW k, Locked(g, r, k), <<Home[g], r>> # <<z, q>>
        PROVE  \A f \in EndsOf(z) : escrow'[f][q] = 0
    BY <1>1, <1>2, <2>3 DEF Locked
  <2>4. ASSUME Arrives(e, n, p)
        PROVE  /\ <<Home[e], p>> # <<z, q>>
               /\ \A f \in EndsOf(z) : \A k \in Sequence : InFlight(f, k)' => packet'[f][k] # q
    <3>1. InFlight(e, n) /\ ~InFlight(e, n)' /\ packet[e][n] = p /\ OthersStay(e, n)
      BY <2>4 DEF Arrives
    <3>2. <<Home[e], p>> # <<z, q>>
      BY <1>1, <1>2, <3>1
    <3>3. ASSUME NEW f \in EndsOf(z), NEW k \in Sequence, InFlight(f, k)' PROVE packet'[f][k] # q
      <4>1. <<f, k>> # <<e, n>>
        BY <3>1, <3>3
      <4>2. f \in End
        BY <1>2
      <4>3. InFlight(f, k) /\ packet'[f][k] = packet[f][k]
        BY <3>1, <3>3, <4>1, <4>2 DEF OthersStay
      <4> QED
        BY <1>1, <4>3
    <3> QED
      BY <3>2, <3>3
  <2>5. CASE Sends(e, n, p)
    <3>1. Departs(e, n, p) /\ Paid(Home[e], p, -1) /\ Locked(e, p, Kept(e, p))
      BY <2>5 DEF Sends
    <3>2. bank[Home[e]][p] # 0
      <4>1. bank[Home[e]][p] \in Nat /\ bank'[Home[e]][p] \in Nat
        BY <2>1, SMT DEF IInv, TypeOK
      <4> QED
        BY <3>1, <4>1, SMT DEF Paid
    <3>3. <<Home[e], p>> # <<z, q>>
      BY <1>1, <3>2
    <3>4. ASSUME NEW f \in EndsOf(z), NEW k \in Sequence, InFlight(f, k)' PROVE packet'[f][k] # q
      <4>1. CASE <<f, k>> = <<e, n>>
        <5>1. packet'[f][k] = p /\ Home[e] = z
          BY <1>2, <3>1, <4>1 DEF Departs
        <5> QED
          BY <3>3, <5>1
      <4>2. CASE <<f, k>> # <<e, n>>
        <5>1. f \in End
          BY <1>2
        <5>2. InFlight(f, k) /\ packet'[f][k] = packet[f][k]
          BY <3>1, <3>4, <4>2, <5>1 DEF Departs, OthersStay
        <5> QED
          BY <1>1, <5>2
      <4> QED
        BY <4>1, <4>2
    <3> QED
      BY <2>1, <2>2, <2>3, <3>1, <3>3, <3>4
  <2>6. CASE Refunds(e, n, p)
    BY <2>1, <2>2, <2>3, <2>4, <2>6 DEF Refunds
  <2>7. CASE PaysBack(e, n, p)
    <3> DEFINE t == Tail(p)
    <3>1. Arrives(e, n, p) /\ Paid(Home[d], t, 1) /\ Locked(d, t, -1) /\ t \in Denom
      BY <2>7, OriginOfTail DEF PaysBack
    <3> HIDE DEF t
    <3>2. escrow[d][t] # 0
      <4>1. escrow[d][t] \in Nat /\ escrow'[d][t] \in Nat
        BY <2>1, <3>1, SMT DEF IInv, TypeOK
      <4> QED
        BY <3>1, <4>1, SMT DEF Locked
    <3>3. <<Home[d], t>> # <<z, q>>
      BY <1>1, <1>2, <2>1, <3>2
    <3> QED
      BY <2>1, <2>2, <2>3, <2>4, <3>1, <3>3
  <2>8. CASE Issues(e, n, p)
    <3> DEFINE v == <<Name[d]>> \o p
    <3>1. /\ Arrives(e, n, p) /\ Paid(Home[d], v, 1) /\ UNCHANGED escrow
          /\ ~ReceiverChainIsSource(e, p) /\ Len(p) < MaxHops
      BY <2>8 DEF Issues
    <3>2. v \in Denom /\ ~Detour(Home[d], v)
      BY <2>1, <3>1, VoucherIsDenom, IssuedIsNoDetour
    <3> HIDE DEF v
    <3>3. <<Home[d], v>> # <<z, q>>
      BY <3>2
    <3> QED
      BY <1>1, <2>1, <2>2, <2>4, <3>1, <3>2, <3>3
  <2> QED
    BY <1>4, <2>5, <2>6, <2>7, <2>8 DEF Moves
<1> QED
  BY <1>3, <1>4

LEMMA FlightsAreBacked == IInv /\ NoDetour /\ VouchersBacked => EscrowSuffices
<1> SUFFICES ASSUME IInv, NoDetour, VouchersBacked, NEW e \in End, NEW n \in Sequence, InFlight(e, n)
             PROVE  LET p == packet[e][n]
                    IN  IF ReceiverChainIsSource(e, p) THEN escrow[Peer[e]][Tail(p)] > 0 ELSE escrow[e][p] > 0
  BY DEF EscrowSuffices
<1> DEFINE p == packet[e][n]
<1>1. p \in Denom /\ Peer[e] \in End /\ Peer[Peer[e]] = e /\ Home[e] \in Zone
  BY TopologyAssumption, SMT DEF IInv, TypeOK
<1>2. \A f \in End : \A q \in Denom : InFlightOf(f, q) \in Nat
  BY FlightsAreFinite, FS_CardinalityType DEF InFlightOf
<1>3. InFlightOf(e, p) # 0
  <2> DEFINE S == {k \in Sequence : InFlight(e, k) /\ packet[e][k] = p}
  <2>1. IsFiniteSet(S) /\ n \in S
    BY FlightsAreFinite
  <2> HIDE DEF S
  <2>2. Cardinality(S) # 0
    BY <2>1, FS_EmptySet
  <2> QED
    BY <2>2 DEF InFlightOf, S
\* One of the two flights of an account that is backed is not empty.
<1>4. ASSUME NEW a \in End, NEW q \in Denom, Len(q) < MaxHops, ~ReceiverChainIsSource(a, q),
             InFlightOf(a, q) # 0 \/ InFlightOf(Peer[a], <<Name[Peer[a]]>> \o q) # 0
      PROVE  escrow[a][q] > 0
  <2> DEFINE b == Peer[a]
             H == Home[b]
             v == <<Name[b]>> \o q
             S == SumFunctionOnSet(Escrowed(v), EndsOf(H))
             F == InFlightOf(a, q)
             G == InFlightOf(b, v)
  <2>1. b \in End /\ H \in Zone
    BY TopologyAssumption
  <2>2. v \in Denom
    BY <1>4, <2>1, VoucherIsDenom
  <2>3. escrow[a][q] = bank[H][v] + S + F + G
    BY <1>4 DEF VouchersBacked, Holding
  <2>4. F # 0 \/ G # 0
    BY <1>4
  <2> HIDE DEF b, H, v
  <2>5. bank[H][v] \in Nat /\ F \in Nat /\ G \in Nat
    BY <1>2, <2>1, <2>2, SMT DEF IInv, TypeOK
  <2>6. S \in Nat
    <3>1. Escrowed(v) \in [End -> Nat]
      BY <2>2, SMT DEF IInv, TypeOK, Escrowed
    <3>2. EndsOf(H) \in SUBSET End /\ IsFiniteSet(EndsOf(H))
      BY FiniteAssumption, FS_Subset DEF EndsOf
    <3> QED
      BY <3>1, <3>2, SumType
  <2> HIDE DEF S, F, G
  <2> QED
    BY <2>3, <2>4, <2>5, <2>6, SMT
<1>5. CASE ReceiverChainIsSource(e, p)
  <2> DEFINE a == Peer[e]
             q == Tail(p)
  <2>1. p = <<Name[e]>> \o q /\ q \in Denom
    BY <1>1, <1>5, PathIsVoucher, OriginOfTail
  <2>2. Len(q) < MaxHops
    <3>1. p \in Seq(Identifier) /\ Len(p) <= MaxHops /\ p # <<>>
      BY <1>1, <1>5, DenomIsSeq DEF ReceiverChainIsSource
    <3> HIDE DEF p
    <3> QED
      BY <3>1, TransferBoundAssumption, SMT
  <2>3. ~ReceiverChainIsSource(a, q)
    <3>1. ~Detour(Home[e], p)
      BY <1>1 DEF NoDetour, EndsOf
    <3> QED
      BY <1>5, <3>1 DEF Detour, EndsOf
  <2>4. InFlightOf(Peer[a], <<Name[Peer[a]]>> \o q) # 0
    BY <1>1, <1>3, <2>1
  <2> HIDE DEF p, q
  <2> QED
    BY <1>1, <1>4, <1>5, <2>1, <2>2, <2>3, <2>4 DEF p, q
<1>6. CASE ~ReceiverChainIsSource(e, p)
  <2>1. Len(p) < MaxHops
    BY <1>6 DEF IInv, SentInv, InFlight
  <2> QED
    BY <1>1, <1>3, <1>4, <1>6, <2>1
<1> QED
  BY <1>5, <1>6

JInv == IInv /\ Unsent /\ SupplyConstant /\ VouchersBacked /\ NoDetour

LEMMA SpecJInv == Spec => []JInv
<1>1. Init => JInv
  BY InitIInv, InitUnsent, InitSupply, InitBacked, InitNoDetour DEF JInv
<1>2. JInv /\ [Next]_vars => JInv'
  <2> SUFFICES ASSUME JInv, [Next]_vars PROVE JInv'
    OBVIOUS
  <2>1. IInv /\ Unsent /\ SupplyConstant /\ VouchersBacked /\ NoDetour
    BY DEF JInv
  <2>2. IInv' /\ Unsent'
    BY <2>1, NextIInv, NextUnsent
  <2>3. NothingMoves \/ \E e \in End : \E n \in Sequence : \E p \in Denom : Moves(e, n, p)
    BY <2>1, StepMoves
  <2>4. SupplyConstant' /\ VouchersBacked'
    BY <2>1, <2>2, <2>3, NothingMovesKeeps, SupplyMoves, BackingMoves
  <2>5. NoDetour'
    BY <2>1, <2>2, <2>3, NextNoDetour
  <2> QED
    BY <2>2, <2>4, <2>5 DEF JInv
<1> QED
  BY <1>1, <1>2, PTL DEF Spec

\* However tokens are sent on, returned and refunded over any number of chains and
\* channels, what is in accounts and in flight adds up, origin by origin, to the
\* native supply of each chain: SendTransfer, OnRecvPacket and refundPacketToken
\* neither create nor lose a unit.
THEOREM SupplyIsConstant == Spec => []SupplyConstant
<1>1. JInv => SupplyConstant
  BY DEF JInv
<1> QED
  BY <1>1, SpecJInv, PTL

\* On any topology an escrow account holds exactly what the other chain has issued
\* against it, counting what is in flight either way: no voucher is unbacked,
\* and no unit in escrow is without its voucher.
THEOREM VouchersStayBacked == Spec => []VouchersBacked
<1>1. JInv => VouchersBacked
  BY DEF JInv
<1> QED
  BY <1>1, SpecJInv, PTL

\* OnRecvPacket and refundPacketToken always find in escrow what they have to pay
\* out: a returning token is never refused for want of funds, and no refund fails.
THEOREM EscrowAlwaysSuffices == Spec => []EscrowSuffices
<1>1. JInv => EscrowSuffices
  BY FlightsAreBacked DEF JInv
<1> QED
  BY <1>1, SpecJInv, PTL
=============================================================================
