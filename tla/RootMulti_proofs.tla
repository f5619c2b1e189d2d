-------------------------- MODULE RootMulti_proofs --------------------------
(***************************************************************************)
(* The multistore survives a crash at any point of Commit, for any set of  *)
(* stores and any valid pruning options; that a restart finds the latest   *)
(* version rests on options that do not delete it (KeepsLatest).           *)
(***************************************************************************)
EXTENDS RootMulti, TLAPS

\* The commit info of the latest version gives every store that version.
InfoInv == commitInfo[latest] = [st \in Store |-> latest]

\* A saved tree has exactly the blocks up to its version.
TreeInv == \A st \in Store : \A v \in saved[st] : tree[st][v] = UpTo(v)

\* The recent heights are saved, and the latest one unless pruning may delete it.
RecentInv ==
    /\ \A st \in Store, v \in Version : latest < v + KeepRecent /\ v <= latest => v \in saved[st]
    /\ KeepsLatest => \A st \in Store : latest \in saved[st]

\* The listed heights are old enough, whatever the step of Commit; without an
\* interval there are none.
ListInv ==
    /\ \A h \in diskPrune : h + KeepRecent < latest
    /\ pc # "down" => \A h \in pruneHeights : h + KeepRecent < version
    /\ Interval = 0 => diskPrune = {} /\ pruneHeights = {}

\* What the process holds in memory, step by step.
MemoryInv ==
    /\ pc \in {"ready", "commit"} => version = latest
    /\ pc = "commit" => version + 1 \in Version
    /\ pc \in {"prune", "flush"} => version = latest + 1

\* The working trees, step by step: saved and not yet saved stores of a commit.
WorkInv ==
    \A st \in Store :
        /\ pc = "ready" => work[st].version = version /\ work[st].content = UpTo(version)
        /\ pc = "commit" =>
            /\ work[st].content = UpTo(version + 1)
            /\ st \in todo => work[st].version = version
            /\ st \notin todo => work[st].version = version + 1 /\ version + 1 \in saved[st]
        /\ pc \in {"prune", "flush"} =>
            /\ work[st].version = version /\ work[st].content = UpTo(version)
            /\ version \in saved[st]

\* Old versions are on the list: on disk always, in memory when it is up.
LeakInv ==
    /\ \A st \in Store, v \in Version :
        /\ v \in saved[st] /\ v + KeepRecent < latest /\ Prunable(v) => v \in diskPrune
        /\ pc # "down" /\ v \in saved[st] /\ v + KeepRecent < version /\ Prunable(v) => v \in pruneHeights
    /\ pc = "prune" => \A st \in Store \ todo : saved[st] \cap pruneHeights = {}

\* The inductive invariant.
IInv == TypeOK /\ InfoInv /\ TreeInv /\ RecentInv /\ ListInv /\ MemoryInv /\ WorkInv /\ LeakInv

\* The blocks up to the next version are those up to this one and the next.
LEMMA UpToNext == ASSUME NEW v \in Version PROVE UpTo(v + 1) = UpTo(v) \cup {v + 1}
BY VersionAssumption DEF UpTo, Version

\* The blocks up to a version are a possible content of a tree.
LEMMA UpToType == ASSUME NEW v \in Version PROVE UpTo(v) \in Content
BY VersionAssumption DEF UpTo, Version, Content

\* The invariant holds after the first commit.
LEMMA InitIInv == Init => IInv
<1> SUFFICES ASSUME Init PROVE IInv
  OBVIOUS
<1> USE VersionAssumption, PruningAssumption
<1>1. FirstVersion \in Version /\ UpTo(FirstVersion) = {FirstVersion}
  BY DEF Version, UpTo
<1>2. TypeOK
  BY <1>1 DEF Init, TypeOK, Content, Tree, NoTrees
<1>3. InfoInv
  BY <1>1 DEF Init, InfoInv
<1>4. TreeInv
  BY <1>1 DEF Init, TreeInv
<1>5. RecentInv
  BY <1>1 DEF Init, RecentInv, Version
<1>6. ListInv /\ MemoryInv /\ WorkInv
  BY DEF Init, ListInv, MemoryInv, WorkInv
<1>7. LeakInv
  BY DEF Init, LeakInv, Version
<1> QED
  BY <1>2, <1>3, <1>4, <1>5, <1>6, <1>7 DEF IInv

\* loadVersion: every working tree is at the latest version, and the list of heights
\* to prune is the one on disk.
LEMMA LoadIInv == IInv /\ LoadVersion => IInv'
<1> SUFFICES ASSUME IInv, LoadVersion PROVE IInv'
  OBVIOUS
<1> USE VersionAssumption, PruningAssumption DEF LoadVersion, disk
<1>1. latest \in Version /\ \A st \in Store : commitInfo[latest][st] = latest /\ latest \in saved[st]
  BY DEF IInv, TypeOK, InfoInv
<1>2. \A st \in Store : work'[st] = [version |-> latest, content |-> tree[st][latest]]
  BY <1>1
<1>3. TypeOK'
  BY <1>1 DEF IInv, TypeOK, Tree
<1>4. InfoInv' /\ TreeInv' /\ RecentInv'
  BY DEF IInv, InfoInv, TreeInv, RecentInv
<1>5. ListInv' /\ MemoryInv'
  BY DEF IInv, ListInv, MemoryInv
<1>6. WorkInv'
  BY <1>1, <1>2 DEF IInv, WorkInv, TreeInv
<1>7. LeakInv'
  BY DEF IInv, LeakInv
<1> QED
  BY <1>3, <1>4, <1>5, <1>6, <1>7 DEF IInv

\* The block's writes go to the working trees only.
LEMMA WriteBlockIInv == IInv /\ WriteBlock => IInv'
<1> SUFFICES ASSUME IInv, WriteBlock PROVE IInv'
  OBVIOUS
<1> USE VersionAssumption, PruningAssumption DEF WriteBlock, disk
<1>1. version \in Version /\ version = latest
  BY DEF IInv, TypeOK, MemoryInv
<1>2. UpTo(version + 1) = UpTo(version) \cup {version + 1}
  BY <1>1, UpToNext
<1>3. \A st \in Store : work[st].version = version /\ work[st].content = UpTo(version)
  BY DEF IInv, WorkInv
<1>4. TypeOK'
  <2>1. UpTo(version + 1) \in Content
    BY UpToType
  <2>2. \A st \in Store : work'[st] \in Tree
    BY <1>1, <1>2, <1>3, <2>1 DEF Tree
  <2> QED
    BY <2>2 DEF IInv, TypeOK
<1>5. InfoInv' /\ TreeInv' /\ RecentInv'
  BY DEF IInv, InfoInv, TreeInv, RecentInv
<1>6. ListInv' /\ MemoryInv'
  BY DEF IInv, ListInv, MemoryInv
<1>7. WorkInv'
  BY <1>2, <1>3 DEF WorkInv
<1>8. LeakInv'
  BY DEF IInv, LeakInv
<1> QED
  BY <1>4, <1>5, <1>6, <1>7, <1>8 DEF IInv

\* commitStores at one store: the version it saves is new, or is there from before
\* a crash with the same content.
LEMMA CommitStoreIInv == ASSUME IInv, NEW st \in Store, CommitStore(st) PROVE IInv'
<1> USE VersionAssumption, PruningAssumption DEF CommitStore, SaveVersion
<1> DEFINE w == version + 1
<1>1. version \in Version /\ version = latest /\ w \in Version /\ w \in Nat
  BY DEF IInv, TypeOK, MemoryInv, Version
<1>2. work[st].version = version /\ work[st].content = UpTo(w)
  BY DEF IInv, WorkInv
<1>3. UpTo(w) \in Content
  BY <1>1, UpToType
<1>4. /\ saved' = [saved EXCEPT ![st] = @ \cup {w}]
      /\ tree' = [tree EXCEPT ![st] = [tree[st] EXCEPT ![w] = UpTo(w)]]
      /\ work' = [work EXCEPT ![st] = [work[st] EXCEPT !.version = w]]
  BY <1>2
<1> HIDE DEF w
<1>5. TypeOK'
  <2> USE DEF TypeOK
  <2>1. saved' \in [Store -> SUBSET Version]
    BY <1>1, <1>4 DEF IInv
  <2>2. tree' \in [Store -> [Version -> Content]]
    <3>1. [tree[st] EXCEPT ![w] = UpTo(w)] \in [Version -> Content]
      BY <1>1, <1>3 DEF IInv
    <3> QED
      BY <1>4, <3>1 DEF IInv
  <2>3. work' \in [Store -> Tree]
    <3>1. [work[st] EXCEPT !.version = w] \in Tree
      BY <1>1 DEF IInv, Tree
    <3> QED
      BY <1>4, <3>1 DEF IInv
  <2> QED
    BY <2>1, <2>2, <2>3 DEF IInv
<1>6. InfoInv'
  BY DEF IInv, InfoInv
<1>7. TreeInv'
  <2> SUFFICES ASSUME NEW x \in Store, NEW v \in saved'[x] PROVE tree'[x][v] = UpTo(v)
    BY DEF TreeInv
  <2>1. CASE x = st /\ v = w
    BY <1>1, <1>4, <2>1 DEF IInv, TypeOK
  <2>2. CASE ~(x = st /\ v = w)
    BY <1>1, <1>4, <2>2 DEF IInv, TypeOK, TreeInv
  <2> QED
    BY <2>1, <2>2
<1>8. RecentInv'
  BY <1>4 DEF IInv, RecentInv, TypeOK
<1>9. ListInv' /\ MemoryInv'
  BY DEF IInv, ListInv, MemoryInv
<1>10. WorkInv'
  <2> SUFFICES ASSUME NEW x \in Store
               PROVE /\ work'[x].content = UpTo(version + 1)
                     /\ x \in todo' => work'[x].version = version
                     /\ x \notin todo' => work'[x].version = version + 1 /\ version + 1 \in saved'[x]
    BY DEF WorkInv
  <2>1. CASE x = st
    BY <1>2, <1>4, <2>1 DEF IInv, TypeOK, Tree, w
  <2>2. CASE x # st
    BY <1>4, <2>2 DEF IInv, TypeOK, WorkInv
  <2> QED
    BY <2>1, <2>2
<1>11. LeakInv'
  <2>1. ASSUME NEW x \in Store, NEW v \in Version, v \in saved'[x], v + KeepRecent < latest
        PROVE  v \in saved[x]
    BY <1>1, <1>4, <2>1 DEF IInv, TypeOK, Version, w
  <2> QED
    BY <1>1, <2>1 DEF IInv, LeakInv
<1> QED
  BY <1>5, <1>6, <1>7, <1>8, <1>9, <1>10, <1>11 DEF IInv

\* Commit between commitStores and flushMetadata: the height that goes on the list is
\* the only one that has just become too old.
LEMMA ScheduleIInv == IInv /\ ScheduleHeight => IInv'
<1> SUFFICES ASSUME IInv, ScheduleHeight PROVE IInv'
  OBVIOUS
<1> USE VersionAssumption, PruningAssumption DEF disk
<1>1. /\ pc = "commit" /\ todo = {}
      /\ pruneHeights' = pruneHeights \cup PruneHeight(version)
      /\ version' = version + 1
      /\ pc' \in {"prune", "flush"}
      /\ todo' \subseteq Store
      /\ pc' = "prune" => todo' = Store
      /\ UNCHANGED <<disk, work>>
  BY DEF ScheduleHeight
<1>2. version \in Version /\ version = latest /\ version + 1 \in Version
  BY <1>1 DEF IInv, TypeOK, MemoryInv
<1>3. \A h \in PruneHeight(version) : h \in 1..MaxVersion /\ h + KeepRecent = version
  BY <1>2 DEF PruneHeight, Version
<1>4. TypeOK'
  BY <1>1, <1>2, <1>3 DEF IInv, TypeOK
<1>5. InfoInv' /\ TreeInv' /\ RecentInv'
  BY <1>1 DEF IInv, InfoInv, TreeInv, RecentInv
<1>6. MemoryInv'
  BY <1>1, <1>2 DEF MemoryInv
<1>7. ListInv'
  <2>0. Interval = 0 => PruneHeight(version) = {}
    BY DEF PruneHeight, Prunable
  <2>1. \A h \in pruneHeights : h \in Int /\ h + KeepRecent < version
    BY <1>1 DEF IInv, ListInv, TypeOK
  <2>2. version \in Int
    BY <1>2 DEF Version
  <2>3. \A h \in pruneHeights' : h + KeepRecent < version'
    BY <1>1, <1>3, <2>1, <2>2
  <2> QED
    BY <1>1, <2>0, <2>3 DEF IInv, ListInv
<1>8. WorkInv'
  BY <1>1 DEF IInv, WorkInv
<1>9. LeakInv'
  <2>1. ASSUME NEW x \in Store, NEW v \in Version, v \in saved[x], v + KeepRecent < version + 1, Prunable(v)
        PROVE  v \in pruneHeights'
    <3>1. CASE v + KeepRecent < version
      BY <1>1, <2>1, <3>1 DEF IInv, LeakInv
    <3>2. CASE v + KeepRecent = version
      <4>1. v = version - KeepRecent /\ KeepRecent < version
        BY <1>2, <3>2 DEF Version
      <4> QED
        BY <1>1, <2>1, <4>1 DEF PruneHeight
    <3> QED
      BY <1>2, <2>1, <3>1, <3>2 DEF Version
  <2> QED
    BY <1>1, <2>1 DEF IInv, LeakInv
<1> QED
  BY <1>4, <1>5, <1>6, <1>7, <1>8, <1>9 DEF IInv

\* pruneStores at one store: no listed height is one that a restart may need.
LEMMA PruneStoreIInv == ASSUME IInv, NEW st \in Store, PruneStore(st) PROVE IInv'
<1> USE VersionAssumption, PruningAssumption DEF PruneStore, DeleteVersions
<1>1. version = latest + 1 /\ latest \in Int
  BY DEF IInv, TypeOK, MemoryInv, Version
<1>2. saved' = [saved EXCEPT ![st] = @ \ pruneHeights]
  OBVIOUS
<1>3. \A x \in Store : saved'[x] \subseteq saved[x]
  BY <1>2 DEF IInv, TypeOK
<1>4. \A h \in pruneHeights : h \in Int /\ h + KeepRecent <= latest
  BY <1>1 DEF IInv, ListInv, TypeOK
<1>5. TypeOK'
  BY <1>2 DEF IInv, TypeOK
<1>6. InfoInv' /\ ListInv' /\ MemoryInv'
  BY DEF IInv, InfoInv, ListInv, MemoryInv
<1>7. TreeInv'
  BY <1>3 DEF IInv, TreeInv
<1>8. RecentInv'
  <2>1. ASSUME NEW x \in Store, NEW v \in Version, latest < v + KeepRecent, v <= latest
        PROVE  v \in saved'[x]
    <3>1. v \in saved[x]
      BY <2>1 DEF IInv, RecentInv
    <3>2. v \notin pruneHeights
      BY <1>1, <1>4, <2>1 DEF Version
    <3> QED
      BY <1>2, <3>1, <3>2 DEF IInv, TypeOK
  <2>2. ASSUME KeepsLatest, NEW x \in Store PROVE latest \in saved'[x]
    <3>1. latest \in saved[x]
      BY <2>2 DEF IInv, RecentInv
    <3>2. latest \notin pruneHeights
      BY <1>1, <1>4, <2>2 DEF IInv, ListInv, KeepsLatest
    <3> QED
      BY <1>2, <3>1, <3>2 DEF IInv, TypeOK
  <2>3. latest' = latest
    OBVIOUS
  <2> QED
    BY <2>1, <2>2, <2>3 DEF RecentInv
<1>9. WorkInv'
  <2>1. version \notin pruneHeights
    BY <1>1, <1>4
  <2>2. \A x \in Store : version \in saved'[x]
    BY <1>2, <2>1 DEF IInv, TypeOK, WorkInv
  <2> QED
    BY <2>2 DEF IInv, WorkInv
<1>10. LeakInv'
  <2>1. ASSUME NEW x \in Store \ todo' PROVE saved'[x] \cap pruneHeights = {}
    <3>1. CASE x = st
      BY <1>2, <3>1 DEF IInv, TypeOK
    <3>2. CASE x # st
      BY <1>2, <3>2 DEF IInv, TypeOK, LeakInv
    <3> QED
      BY <3>1, <3>2
  <2> QED
    BY <1>3, <2>1 DEF IInv, LeakInv
<1> QED
  BY <1>5, <1>6, <1>7, <1>8, <1>9, <1>10 DEF IInv

\* The list is emptied when every store has deleted its heights.
LEMMA PruneDoneIInv == IInv /\ PruneDone => IInv'
<1> SUFFICES ASSUME IInv, PruneDone PROVE IInv'
  OBVIOUS
<1> USE DEF PruneDone, disk
<1>1. TypeOK'
  BY DEF IInv, TypeOK
<1>2. InfoInv' /\ TreeInv' /\ RecentInv' /\ ListInv' /\ MemoryInv' /\ WorkInv'
  BY DEF IInv, InfoInv, TreeInv, RecentInv, ListInv, MemoryInv, WorkInv
<1>3. LeakInv'
  <2>1. ASSUME NEW x \in Store, NEW v \in Version, v \in saved[x], v + KeepRecent < version, Prunable(v)
        PROVE  FALSE
    BY <2>1 DEF IInv, LeakInv
  <2> QED
    BY <2>1 DEF IInv, LeakInv
<1> QED
  BY <1>1, <1>2, <1>3 DEF IInv

\* flushMetadata: version, commit info and the list reach the disk together.
LEMMA FlushIInv == IInv /\ FlushMetadata => IInv'
<1> SUFFICES ASSUME IInv, FlushMetadata PROVE IInv'
  OBVIOUS
<1> USE VersionAssumption, PruningAssumption DEF FlushMetadata, memory
<1>1. version = latest + 1 /\ version \in Version /\ latest \in Version /\ version \in Int /\ latest \in Int
  BY DEF IInv, TypeOK, MemoryInv, Version
<1>2. \A st \in Store : /\ work[st].version = version /\ work[st].content = UpTo(version)
                        /\ version \in saved[st]
  BY DEF IInv, WorkInv
<1>3. [st \in Store |-> work[st].version] = [st \in Store |-> version]
  BY <1>2
<1>4. commitInfo' = [commitInfo EXCEPT ![version] = [st \in Store |-> version]]
  BY <1>3
<1>5. TypeOK'
  BY <1>1, <1>4 DEF IInv, TypeOK
<1>6. InfoInv'
  BY <1>1, <1>4 DEF IInv, TypeOK, InfoInv
<1>7. TreeInv'
  BY DEF IInv, TreeInv
<1>8. RecentInv'
  <2>1. ASSUME NEW x \in Store, NEW v \in Version, version < v + KeepRecent, v <= version
        PROVE  v \in saved[x]
    <3>1. CASE v = version
      BY <1>2, <3>1
    <3>2. CASE v # version
      BY <1>1, <2>1, <3>2 DEF IInv, RecentInv, Version
    <3> QED
      BY <3>1, <3>2
  <2> QED
    BY <1>2, <2>1 DEF RecentInv
<1>9. ListInv' /\ MemoryInv'
  BY DEF IInv, ListInv, MemoryInv
<1>10. WorkInv'
  BY <1>2 DEF WorkInv
<1>11. LeakInv'
  BY DEF IInv, LeakInv
<1> QED
  BY <1>5, <1>6, <1>7, <1>8, <1>9, <1>10, <1>11 DEF IInv

\* A crash loses the memory only.
LEMMA CrashIInv == IInv /\ Crash => IInv'
<1> SUFFICES ASSUME IInv, Crash PROVE IInv'
  OBVIOUS
<1> USE VersionAssumption DEF Crash, disk
<1>1. TypeOK'
  BY DEF IInv, TypeOK, NoTrees, Tree, Version, Content
<1>2. InfoInv' /\ TreeInv' /\ RecentInv' /\ ListInv' /\ MemoryInv' /\ WorkInv' /\ LeakInv'
  BY DEF IInv, InfoInv, TreeInv, RecentInv, ListInv, MemoryInv, WorkInv, LeakInv
<1> QED
  BY <1>1, <1>2 DEF IInv

\* Every step preserves the invariant.
LEMMA NextIInv == IInv /\ [Next]_vars => IInv'
<1> SUFFICES ASSUME IInv, [Next]_vars PROVE IInv'
  OBVIOUS
<1>1. CASE UNCHANGED vars
  BY <1>1 DEF vars, disk, memory, IInv, TypeOK, InfoInv, TreeInv, RecentInv, ListInv, MemoryInv, WorkInv, LeakInv
<1>2. CASE \E st \in Store : CommitStore(st) \/ PruneStore(st)
  BY <1>2, CommitStoreIInv, PruneStoreIInv
<1> QED
  BY <1>1, <1>2, LoadIInv, WriteBlockIInv, ScheduleIInv, PruneDoneIInv, FlushIInv, CrashIInv DEF Next

\* The invariant holds in every state of every behaviour.
LEMMA SpecIInv == Spec => []IInv
BY InitIInv, NextIInv, PTL DEF Spec

-----------------------------------------------------------------------------
\* What a restart loads, in terms of the invariant.
LEMMA LoadsLatest ==
    ASSUME KeepsLatest, IInv, NEW st \in Store
    PROVE  commitInfo[latest][st] = latest /\ latest \in saved[st] /\ tree[st][latest] = UpTo(latest)
<1>1. latest \in Version /\ commitInfo[latest][st] = latest
  BY DEF IInv, TypeOK, InfoInv
<1>2. latest \in saved[st]
  BY DEF IInv, RecentInv
<1> QED
  BY <1>1, <1>2 DEF IInv, TreeInv

\* The variables of the multistore keep their types.
THEOREM TypeCorrect == Spec => []TypeOK
<1>1. IInv => TypeOK
  BY DEF IInv
<1> QED BY <1>1, SpecIInv, PTL

\* With options that keep a recent height or prune nothing, after a crash at any
\* point of Commit LoadLatestVersion succeeds and finds exactly the blocks up to the
\* latest version in every store.
THEOREM CrashSafe == KeepsLatest => (Spec => []Recoverable)
<1> SUFFICES ASSUME KeepsLatest PROVE Spec => []Recoverable
  OBVIOUS
<1>1. IInv => Recoverable
  BY LoadsLatest DEF Recoverable
<1> QED BY <1>1, SpecIInv, PTL

\* The KeepRecent most recent heights can be read at every instant of Commit.
THEOREM KeepsRecent == Spec => []RecentHeightsKept
<1>1. IInv => RecentHeightsKept
  <2> SUFFICES ASSUME IInv, NEW st \in Store, NEW v \in Version, latest - KeepRecent < v, v <= latest
               PROVE  v \in saved[st] /\ tree[st][v] = UpTo(v)
    BY DEF RecentHeightsKept
  <2>1. latest < v + KeepRecent
    BY VersionAssumption, PruningAssumption DEF IInv, TypeOK, Version
  <2> QED
    BY <2>1 DEF IInv, RecentInv, TreeInv
<1> QED BY <1>1, SpecIInv, PTL

\* SaveVersion never meets a version with other content when a block is replayed.
THEOREM ReplayNeverPanics == Spec => []ReplayAgrees
<1>1. IInv => ReplayAgrees
  BY DEF IInv, ReplayAgrees, WorkInv, TreeInv, TypeOK
<1> QED BY <1>1, SpecIInv, PTL

\* Crashes make pruning forget no height.
THEOREM PrunesAll == Spec => []NothingLeaked
<1>1. IInv => NothingLeaked
  <2> SUFFICES ASSUME IInv, NEW st \in Store, NEW v \in Version,
                      v \in saved[st], v < latest - KeepRecent, Prunable(v)
               PROVE  IF pc = "down" THEN v \in diskPrune ELSE v \in pruneHeights
    BY DEF NothingLeaked
  <2>1. v + KeepRecent < latest
    BY VersionAssumption, PruningAssumption DEF IInv, TypeOK, Version
  <2>2. pc # "down" => v + KeepRecent < version
    BY <2>1, VersionAssumption, PruningAssumption DEF IInv, TypeOK, MemoryInv, Version
  <2> QED
    BY <2>1, <2>2 DEF IInv, LeakInv
<1> QED BY <1>1, SpecIInv, PTL

\* With the same options, the state that a restart finds advances by whole blocks, in
\* all stores at once: the multistore implements AtomicStore.
THEOREM CommitIsAtomic == KeepsLatest => (Spec => ImplementsAtomic)
<1> SUFFICES ASSUME KeepsLatest PROVE Spec => ImplementsAtomic
  OBVIOUS
<1> DEFINE state == [st \in Store |-> Found(st)]
<1>1. Init => Atomic!Init
  BY VersionAssumption DEF Init, Atomic!Init, Version, Found
<1>2. IInv => latest \in Version /\ state = [st \in Store |-> UpTo(latest)]
  <2> SUFFICES ASSUME IInv PROVE latest \in Version /\ \A st \in Store : Found(st) = UpTo(latest)
    OBVIOUS
  <2> QED
    BY LoadsLatest DEF IInv, TypeOK, Found
<1>3. (IInv => state = [st \in Store |-> UpTo(latest)])'
  <2>1. IInv => state = [st \in Store |-> UpTo(latest)]
    BY <1>2
  <2> QED BY <2>1, PTL
<1>4. ASSUME IInv, IInv', [Next]_vars PROVE [Atomic!Commit]_<<latest, state>>
  <2>1. state = [st \in Store |-> UpTo(latest)] /\ latest \in Version
    BY <1>2, <1>4
  <2>2. state' = [st \in Store |-> UpTo(latest')]
    BY <1>3, <1>4 DEF UpTo
  <2>3. CASE latest' = latest
    BY <2>1, <2>2, <2>3
  <2>4. CASE FlushMetadata
    <3>1. latest' = latest + 1
      BY <1>4, <2>4 DEF FlushMetadata, IInv, MemoryInv
    <3>2. UpTo(latest + 1) = UpTo(latest) \cup {latest + 1}
      BY <2>1, UpToNext
    <3>3. state' = [st \in Store |-> state[st] \cup {latest + 1}]
      BY <2>1, <2>2, <3>1, <3>2
    <3> QED
      BY <3>1, <3>3 DEF Atomic!Commit
  <2>5. FlushMetadata \/ latest' = latest
    BY <1>4 DEF Next, vars, disk, memory, LoadVersion, WriteBlock, ScheduleHeight, PruneDone,
                Crash, CommitStore, PruneStore
  <2> QED
    BY <2>3, <2>4, <2>5
<1> QED
  BY <1>1, <1>4, SpecIInv, PTL DEF Spec, ImplementsAtomic, Atomic!Spec

=============================================================================
