----------------------------- MODULE RootMulti -----------------------------
(***************************************************************************)
(* Commit, pruning and recovery of store/rootmulti/store.go over the IAVL  *)
(* stores.  Commit saves a version of each tree, in the order of a Go map, *)
(* then deletes old versions of each tree, then writes commit info, latest *)
(* version and the list of heights still to prune in one batch.  The       *)
(* process may crash between any two of these writes; a restart loads the  *)
(* latest version, and Ostracon (external) replays the blocks above it.    *)
(*                                                                         *)
(* The content of a tree is the set of blocks whose writes it has.  The    *)
(* model starts after the first commit.                                    *)
(***************************************************************************)
EXTENDS Integers

CONSTANTS
    Store,                              \* the mounted IAVL stores
    KeepRecent, KeepEvery, Interval,    \* PruningOptions
    FirstVersion,                       \* the version of the first commit
    MaxVersion                          \* bound: blocks

\* PruningOptions.Validate.
Validate ==
    /\ KeepEvery = 0 => Interval > 0
    /\ KeepEvery = 1 => Interval = 0
    /\ KeepEvery > 1 => Interval > 0

ASSUME PruningAssumption ==
    KeepRecent \in Nat /\ KeepEvery \in Nat /\ Interval \in Nat /\ Validate
ASSUME VersionAssumption ==
    FirstVersion \in Nat \ {0} /\ MaxVersion \in Nat /\ FirstVersion <= MaxVersion

Version == FirstVersion..MaxVersion
Content == SUBSET Version

VARIABLES
    saved,          \* disk: store -> the versions saved
    tree,           \* disk: store -> version -> content, if saved
    commitInfo,     \* disk: version -> store -> version, 0 if not written
    latest,         \* disk: the latest version
    diskPrune,      \* disk: the heights to prune
    pc,             \* what the process is doing, or "down"
    todo,           \* the stores that the loop of pc has not reached
    work,           \* store -> version and content of the working tree
    version,        \* lastCommitInfo.Version
    pruneHeights    \* the heights to prune

disk == <<saved, tree, commitInfo, latest, diskPrune>>
memory == <<todo, work, version, pruneHeights>>
vars == <<disk, pc, memory>>

Tree == [version : Version, content : Content]

\* The types of disk and memory; heights to prune are heights of blocks, never 0
\* or less (PruneHeight).
TypeOK ==
    /\ saved \in [Store -> SUBSET Version]
    /\ tree \in [Store -> [Version -> Content]]
    /\ commitInfo \in [Version -> [Store -> Version \cup {0}]]
    /\ latest \in Version
    /\ diskPrune \subseteq 1..MaxVersion
    /\ pc \in {"down", "ready", "commit", "prune", "flush"}
    /\ todo \subseteq Store
    /\ work \in [Store -> Tree]
    /\ version \in Version
    /\ pruneHeights \subseteq 1..MaxVersion

\* The blocks up to v.
UpTo(v) == FirstVersion..v

\* The trees before anything is loaded.
NoTrees == [st \in Store |-> [version |-> FirstVersion, content |-> {}]]

Init ==
    /\ saved = [st \in Store |-> {FirstVersion}]
    /\ tree = [st \in Store |-> [v \in Version |-> {FirstVersion}]]
    /\ commitInfo = [v \in Version |-> [st \in Store |-> IF v = FirstVersion THEN v ELSE 0]]
    /\ latest = FirstVersion
    /\ diskPrune = {}
    /\ pc = "down"
    /\ todo = {} /\ work = NoTrees /\ version = FirstVersion /\ pruneHeights = {}

-----------------------------------------------------------------------------
(* IAVL, as the stores use it.                                             *)
\* SaveVersion adds the next version.  One that is there already must be equal;
\* the process panics otherwise.
SaveVersion(st) ==
    LET v == work[st].version + 1 IN
    /\ v \in Version
    /\ v \in saved[st] => tree[st][v] = work[st].content
    /\ saved' = [saved EXCEPT ![st] = @ \cup {v}]
    /\ tree' = [tree EXCEPT ![st][v] = work[st].content]
    /\ work' = [work EXCEPT ![st].version = v]

\* DeleteVersions, one batch; versions that do not exist are tolerated.
DeleteVersions(st, heights) ==
    saved' = [saved EXCEPT ![st] = @ \ heights] /\ UNCHANGED tree

-----------------------------------------------------------------------------
\* For mutation: each tree is loaded at its own newest version; the list of
\* heights to prune is not read.
LoadNewest ==
    LET newest(st) == CHOOSE v \in saved[st] : \A w \in saved[st] : w <= v IN
    /\ pc = "down"
    /\ work' = [st \in Store |-> [version |-> newest(st), content |-> tree[st][newest(st)]]]
    /\ version' = latest
    /\ pruneHeights' = diskPrune
    /\ pc' = "ready"
    /\ UNCHANGED <<disk, todo>>

LoadWithoutHeights ==
    /\ pc = "down"
    /\ \A st \in Store : commitInfo[latest][st] \in saved[st]
    /\ work' = [st \in Store |-> [version |-> commitInfo[latest][st], content |-> tree[st][commitInfo[latest][st]]]]
    /\ version' = latest
    /\ pruneHeights' = {}
    /\ pc' = "ready"
    /\ UNCHANGED <<disk, todo>>

\* LoadLatestVersion.  It fails, and the process does not start, if commit info
\* or a tree is missing.
LoadVersion ==
    /\ pc = "down"
    /\ \A st \in Store : commitInfo[latest][st] \in saved[st]
    /\ work' = [st \in Store |-> [version |-> commitInfo[latest][st], content |-> tree[st][commitInfo[latest][st]]]]
    /\ version' = latest
    /\ pruneHeights' = diskPrune
    /\ pc' = "ready"
    /\ UNCHANGED <<disk, todo>>

\* The block after the last one committed is executed, and deliverState.ms.Write
\* puts its writes into the working trees.
WriteBlock ==
    /\ pc = "ready" /\ version + 1 \in Version
    /\ work' = [st \in Store |-> [version |-> work[st].version, content |-> work[st].content \cup {version + 1}]]
    /\ pc' = "commit"
    /\ todo' = Store
    /\ UNCHANGED <<disk, version, pruneHeights>>

CommitStore(st) ==
    /\ pc = "commit" /\ st \in todo
    /\ SaveVersion(st)
    /\ todo' = todo \ {st}
    /\ UNCHANGED <<commitInfo, latest, diskPrune, pc, version, pruneHeights>>

\* Not kept by KeepEvery, if pruning is on.
Prunable(h) == Interval > 0 /\ (KeepEvery = 0 \/ h % KeepEvery # 0)

\* For mutation: counted from the new version; KeepRecent not compared with the
\* previous height.
PruneHeightLate(previous) ==
    IF Interval > 0 /\ KeepRecent < previous + 1 THEN {previous + 1 - KeepRecent} ELSE {}

\* The height that a commit adds to the list, if any.
PruneHeight(previous) ==
    IF KeepRecent < previous /\ Prunable(previous - KeepRecent) THEN {previous - KeepRecent} ELSE {}

ScheduleHeight ==
    LET heights == pruneHeights \cup PruneHeight(version) IN
    /\ pc = "commit" /\ todo = {}
    /\ pruneHeights' = heights
    /\ version' = version + 1
    /\ IF Interval > 0 /\ (version + 1) % Interval = 0 /\ heights # {}
       THEN pc' = "prune" /\ todo' = Store
       ELSE pc' = "flush" /\ UNCHANGED todo
    /\ UNCHANGED <<disk, work>>

PruneStore(st) ==
    /\ pc = "prune" /\ st \in todo
    /\ DeleteVersions(st, pruneHeights)
    /\ todo' = todo \ {st}
    /\ UNCHANGED <<commitInfo, latest, diskPrune, pc, work, version, pruneHeights>>

PruneDone ==
    /\ pc = "prune" /\ todo = {}
    /\ pruneHeights' = {}
    /\ pc' = "flush"
    /\ UNCHANGED <<disk, todo, work, version>>

\* For mutation: the metadata is written before the trees are saved.
FlushFirst ==
    /\ pc = "commit" /\ todo = Store /\ latest = version
    /\ commitInfo' = [commitInfo EXCEPT ![version + 1] = [st \in Store |-> version + 1]]
    /\ latest' = version + 1
    /\ diskPrune' = pruneHeights
    /\ UNCHANGED <<saved, tree, pc, memory>>

\* For mutation: the metadata is written at pruning heights only.
FlushAtInterval ==
    /\ pc = "flush"
    /\ IF version % Interval = 0
       THEN /\ commitInfo' = [commitInfo EXCEPT ![version] = [st \in Store |-> work[st].version]]
            /\ latest' = version
            /\ diskPrune' = pruneHeights
       ELSE UNCHANGED <<commitInfo, latest, diskPrune>>
    /\ pc' = "ready"
    /\ UNCHANGED <<saved, tree, memory>>

\* One atomic batch.
FlushMetadata ==
    /\ pc = "flush"
    /\ commitInfo' = [commitInfo EXCEPT ![version] = [st \in Store |-> work[st].version]]
    /\ latest' = version
    /\ diskPrune' = pruneHeights
    /\ pc' = "ready"
    /\ UNCHANGED <<saved, tree, memory>>

\* The process stops anywhere; what was written stays.
Crash ==
    /\ pc # "down"
    /\ pc' = "down"
    /\ todo' = {} /\ work' = NoTrees /\ version' = FirstVersion /\ pruneHeights' = {}
    /\ UNCHANGED disk

Next ==
    \/ LoadVersion \/ WriteBlock \/ ScheduleHeight \/ PruneDone \/ FlushMetadata \/ Crash
    \/ \E st \in Store : CommitStore(st) \/ PruneStore(st)

Spec == Init /\ [][Next]_vars

-----------------------------------------------------------------------------
(* Properties.                                                             *)

\* The pruning options keep a recent height or prune nothing.  Validate also accepts
\* KeepRecent = 0 with an interval: Commit then deletes the latest version before the
\* metadata of the new one is flushed, and a crash in between leaves a multistore that
\* cannot be loaded.
KeepsLatest == KeepRecent > 0 \/ Interval = 0

\* Whenever the process stops, in the middle of Commit too, LoadLatestVersion
\* finds the commit info and the tree of every store, each with the writes of
\* exactly the blocks up to the latest version.
Recoverable ==
    \A st \in Store :
        LET v == commitInfo[latest][st] IN v \in saved[st] /\ tree[st][v] = UpTo(latest)

\* "KeepRecent defines how many recent heights to keep on disk": at every
\* instant, before, during and after pruning, that many can be read.
RecentHeightsKept ==
    \A st \in Store, v \in Version :
        latest - KeepRecent < v /\ v <= latest => v \in saved[st] /\ tree[st][v] = UpTo(v)

\* A block that is executed again after a crash gives the trees that were saved
\* before it: SaveVersion meets no version with other content and never panics,
\* and no tree runs ahead of the others.
ReplayAgrees ==
    pc = "commit" => \A st \in todo :
        /\ work[st].version = version
        /\ version + 1 \in saved[st] => tree[st][version + 1] = work[st].content

\* Pruning forgets nothing, whatever crashes in between: a version that is older
\* than KeepRecent allows, and not kept by KeepEvery, is on the list of heights
\* to prune, on disk or in memory.
NothingLeaked ==
    \A st \in Store, v \in Version :
        v \in saved[st] /\ v < latest - KeepRecent /\ Prunable(v)
        => IF pc = "down" THEN v \in diskPrune ELSE v \in pruneHeights

\* What LoadLatestVersion finds in the tree of st: nothing if the version is gone.
Found(st) ==
    IF commitInfo[latest][st] \in saved[st] THEN tree[st][commitInfo[latest][st]] ELSE {}

Atomic == INSTANCE AtomicStore WITH height <- latest, state <- [st \in Store |-> Found(st)]

\* For a process that restarts, commits are atomic and in step in all stores.
ImplementsAtomic == Atomic!Spec

=============================================================================
