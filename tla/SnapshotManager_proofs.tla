---------------------- MODULE SnapshotManager_proofs ----------------------
(***************************************************************************)
(* Proofs about SnapshotManager, for any number of heights and chunks, any *)
(* number of snapshots to keep and any size of the channel.                *)
(*                                                                         *)
(* None of the properties is inductive.  What the manager admits one at a  *)
(* time (AdmittedInv) keeps the listed snapshots apart from the files that *)
(* are being written (SavingInv) and from those being deleted (PruneInv);  *)
(* that the goroutine of a restore has read a prefix of the chunks, and    *)
(* the channel holds what comes next (FeedInv) until all are sent and it   *)
(* is closed (SendInv), gives what was read and what is left when the      *)
(* goroutine returns (OkInv).                                              *)
(***************************************************************************)
EXTENDS SnapshotManager, FiniteSetTheorems, SequenceTheorems, TLAPS

Creating == {"latest", "save", "record", "saved", "failed"}

Busy(h) == pc[h] \in Creating \cup {"delete"}

\* TypeOK in two parts: what is on disk and the goroutines that change it, and
\* the fields of a restore.
DiskType ==
    /\ Listed \subseteq Heights /\ \A h \in Listed : snapshots[h] \in 0 .. MaxChunks
    /\ files \in [Heights -> Seq({"partial", "whole"})]
    /\ \A h \in Heights : Len(files[h]) <= MaxChunks
    /\ dirs \subseteq Heights
    /\ operation \in {"none", "snapshot", "prune", "restore"}
    /\ height \in 0 .. MaxHeight
    /\ pc \in [Heights -> Labels]
    /\ victims \subseteq Heights /\ victim \in 0 .. MaxHeight /\ pruned \subseteq Heights
    /\ lost \subseteq Heights

RestoreType ==
    /\ chunks \in 0 .. MaxOffered /\ index \in 0 .. chunks
    /\ chRestore \in Seq(1 .. MaxOffered) /\ Len(chRestore) <= ChunkBuffer
    /\ closed \in BOOLEAN
    /\ chDone \in {"empty", "ok", "error"}
    /\ caller \in {"idle", "send", "wait"} /\ chunk \in 0 .. MaxOffered
    /\ reader \in {"none", "header", "parse", "read", "drain"}
    /\ result \in {"none", "ok", "error"}
    /\ consumed \in Seq(1 .. MaxOffered)
    /\ reply \in {"none", "complete", "error"}

\* Manager.operation names what runs, and one height at most is at work.
AdmittedInv ==
    /\ \A h \in Heights : pc[h] \in Creating => operation = "snapshot"
    /\ \A h \in Heights : pc[h] = "delete" => operation = "prune"
    /\ \A g, h \in Heights : Busy(g) /\ Busy(h) => g = h

\* A height that has not been committed has no goroutine, and one whose
\* goroutine has not come to Save has no files and is not listed.
FreshInv ==
    /\ \A h \in Heights : h > height => pc[h] = "none"
    /\ \A h \in Heights : pc[h] \in {"none", "begin", "latest"} => files[h] = <<>> /\ h \notin Listed

\* While Save runs, its height is above every listed one, and of its chunk
\* files all are whole but the last.
SavingInv ==
    \A h \in Heights :
        /\ pc[h] \in {"save", "record"} => \A g \in Listed : g < h
        /\ pc[h] = "save" => \A i \in 1 .. Len(files[h]) - 1 : files[h][i] = "whole"
        /\ pc[h] = "record" => \A i \in 1 .. Len(files[h]) : files[h][i] = "whole"

\* What Prune has still to delete is listed, below the heights to keep; what it
\* is deleting is no longer listed.
PruneInv ==
    /\ operation # "prune" => victims = {} /\ victim = 0 /\ pruned = {}
    /\ victims \subseteq Listed
    /\ \A g \in victims : Cardinality({k \in Listed : k > g}) >= KeepRecent
    /\ victim \notin Listed

\* Between restores the fields of a restore are empty.
IdleInv ==
    operation # "restore" =>
        /\ chunks = 0 /\ index = 0 /\ chRestore = <<>> /\ closed = FALSE
        /\ chDone = "empty" /\ caller = "idle" /\ chunk = 0
        /\ result = "none" /\ consumed = <<>>

\* Until the last chunk has been sent, one is missing and the channel is open; the
\* chunk being sent is the next one.
SendInv ==
    /\ operation = "restore" /\ caller # "wait" => index < chunks
    /\ caller = "send" => chunk = index + 1
    /\ caller = "wait" => index = chunks
    /\ closed => caller = "wait"

\* What the goroutine has read are the first chunks in order, and what is
\* buffered comes next.
FeedInv ==
    reader \in {"header", "parse", "read"} =>
        /\ \A i \in 1 .. Len(consumed) : consumed[i] = i
        /\ \A i \in 1 .. Len(chRestore) : chRestore[i] = Len(consumed) + i
        /\ Len(consumed) + Len(chRestore) = index
        /\ reader # "header" => Len(consumed) > 0

\* What the goroutine has read when it comes to the end of the stream, and what it
\* leaves when it has returned.
OkInv ==
    /\ reader # "none" => operation = "restore" /\ chDone = "empty"
    /\ reader = "drain" => result # "none"
    /\ result = "ok" => /\ \A i \in 1 .. Len(consumed) : consumed[i] = i
                       /\ Len(consumed) > 0
    /\ result # "none" => reader \in {"drain", "none"}
    /\ chDone = "ok" => result = "ok" /\ closed /\ chRestore = <<>>

DiskInv ==
    /\ DiskType /\ AdmittedInv /\ FreshInv /\ SavingInv /\ PruneInv
    /\ ListedIsWhole /\ LeftoversExplained

RestoreInv == RestoreType /\ IdleInv /\ SendInv /\ FeedInv /\ OkInv

IInv == DiskInv /\ RestoreInv

-----------------------------------------------------------------------------
(* Each part is kept by the steps of the other.                            *)

\* Steps of BaseApp.snapshot do not touch the fields of a restore, and neither
\* begin nor end one.
LEMMA RestoreInvStable ==
    ASSUME RestoreInv, UNCHANGED restore,
           operation' = "restore" <=> operation = "restore"
    PROVE  RestoreInv'
<1> USE DEF restore, feed
<1>1. RestoreType'
  BY DEF RestoreInv, RestoreType
<1>2. IdleInv' /\ SendInv'
  BY DEF RestoreInv, IdleInv, SendInv
<1>3. FeedInv' /\ OkInv'
  BY DEF RestoreInv, FeedInv, OkInv
<1> QED
  BY <1>1, <1>2, <1>3 DEF RestoreInv

\* Steps of a restore do not touch the disk, and begin and end no other operation.
LEMMA DiskInvStable ==
    ASSUME DiskInv, UNCHANGED <<disk, height, pc, pruning, lost>>,
           operation' = operation \/ {operation, operation'} = {"none", "restore"}
    PROVE  DiskInv'
<1> USE DEF disk, pruning, Listed
<1>1. DiskType'
  BY Zenon DEF DiskInv, DiskType
<1>2. AdmittedInv'
  BY DEF DiskInv, AdmittedInv, Busy, Creating
<1>3. FreshInv' /\ SavingInv'
  BY DEF DiskInv, FreshInv, SavingInv
<1>4. PruneInv'
  BY DEF DiskInv, PruneInv
<1>5. ListedIsWhole' /\ LeftoversExplained'
  BY DEF DiskInv, ListedIsWhole, LeftoversExplained
<1> QED
  BY <1>1, <1>2, <1>3, <1>4, <1>5 DEF DiskInv

-----------------------------------------------------------------------------
(* The steps of BaseApp.snapshot.  First what any of them has to show that *)
(* moves its goroutine on and leaves the disk alone.                       *)

\* An operation begins when none is in progress, ...
LEMMA Admit ==
    ASSUME DiskInv, NEW h \in Heights, NEW l \in Labels, pc' = [pc EXCEPT ![h] = l],
           operation = "none",
           \/ l \in Creating /\ operation' = "snapshot"
           \/ l = "delete" /\ operation' = "prune"
    PROVE  AdmittedInv'
<1>1. pc \in [Heights -> Labels] /\ \A g \in Heights : ~Busy(g)
  BY DEF DiskInv, DiskType, AdmittedInv, Busy
<1>2. \A g \in Heights : pc'[g] = IF g = h THEN l ELSE pc[g]
  BY <1>1
<1>3. "delete" \notin Creating
  BY DEF Creating
<1> QED
  BY <1>1, <1>2, <1>3 DEF AdmittedInv, Busy

\* ... it goes on without a change of the record, ...
LEMMA Continue ==
    ASSUME DiskInv, NEW h \in Heights, NEW l \in Labels, pc' = [pc EXCEPT ![h] = l],
           l \in Creating => pc[h] \in Creating, l # "delete", operation' = operation
    PROVE  AdmittedInv'
<1>1. pc \in [Heights -> Labels] /\ AdmittedInv
  BY DEF DiskInv, DiskType
<1>2. \A g \in Heights : pc'[g] = IF g = h THEN l ELSE pc[g]
  BY <1>1
<1>3. \A g \in Heights : Busy(g)' => Busy(g)
  BY <1>2 DEF Busy
<1> QED
  BY <1>1, <1>2, <1>3 DEF AdmittedInv

\* ... and it ends.
LEMMA Release ==
    ASSUME DiskInv, NEW h \in Heights, NEW l \in Labels, pc' = [pc EXCEPT ![h] = l],
           Busy(h), l \notin Creating \cup {"delete"}, operation' = "none"
    PROVE  AdmittedInv'
<1>1. pc \in [Heights -> Labels] /\ AdmittedInv
  BY DEF DiskInv, DiskType
<1>2. \A g \in Heights : pc'[g] = IF g = h THEN l ELSE pc[g]
  BY <1>1
<1>3. \A g \in Heights : ~Busy(g)'
  BY <1>1, <1>2 DEF AdmittedInv, Busy
<1> QED
  BY <1>3 DEF AdmittedInv, Busy

LEMMA MoveKeeps ==
    ASSUME DiskInv, NEW h \in Heights, NEW l \in Labels,
           pc' = [pc EXCEPT ![h] = l], UNCHANGED <<disk, height, victim, pruned>>,
           pc[h] # "none", l \notin {"none", "begin"}, l = "latest" => pc[h] = "begin",
           l \in {"save", "record"} => \A g \in Listed : g < h,
           l = "save" => files[h] = <<>>,
           l = "record" => \A i \in 1 .. Len(files[h]) : files[h][i] = "whole",
           pc[h] \in {"save", "record"} => l = "record" \/ h \in lost',
           lost \subseteq lost', lost' \subseteq Heights, victims' \subseteq Heights,
           operation' \in {"none", "snapshot", "prune", "restore"},
           AdmittedInv', PruneInv'
    PROVE  DiskInv'
<1>1. pc \in [Heights -> Labels] /\ \A g \in Heights : pc'[g] = IF g = h THEN l ELSE pc[g]
  BY DEF DiskInv, DiskType
<1>2. snapshots' = snapshots /\ files' = files /\ dirs' = dirs /\ Listed' = Listed /\ height' = height
  BY DEF disk, Listed
<1>3. DiskType'
  BY <1>1, <1>2 DEF DiskInv, DiskType
<1>4. FreshInv'
  BY <1>1, <1>2 DEF DiskInv, FreshInv
<1>5. SavingInv'
  <2>1. l = "save" => 1 .. Len(files[h]) - 1 = {}
    OBVIOUS
  <2>2. SavingInv
    BY DEF DiskInv
  <2> QED
    BY <1>1, <1>2, <2>1, <2>2 DEF SavingInv
<1>6. ListedIsWhole'
  BY <1>2 DEF DiskInv, ListedIsWhole
<1>7. LeftoversExplained'
  BY <1>1, <1>2 DEF DiskInv, LeftoversExplained
<1> QED
  BY <1>3, <1>4, <1>5, <1>6, <1>7 DEF DiskInv

\* Without a change of what Prune works on, its part stays.
LEMMA PruneInvStays ==
    ASSUME PruneInv, UNCHANGED <<snapshots, pruning>>, operation = "prune" => operation' = "prune"
    PROVE  PruneInv'
  BY DEF PruneInv, pruning, Listed

LEMMA BeginCreateKeeps ==
    ASSUME DiskInv, NEW h \in Heights, BeginCreate(h)
    PROVE  DiskInv'
<1>1. pc[h] = "begin" /\ UNCHANGED <<disk, height, pruning, lost>>
  BY DEF BeginCreate
<1>2. PICK l \in {"latest", "over"} :
         /\ pc' = [pc EXCEPT ![h] = l]
         /\ IF l = "latest" THEN operation = "none" /\ operation' = "snapshot"
                            ELSE operation' = operation
  BY DEF BeginCreate, beginLocked, Goto
<1>3. l \in Labels
  BY DEF Labels
<1>4. AdmittedInv'
  <2>1. CASE l = "latest"
    <3>1. /\ l \in Creating /\ operation = "none" /\ operation' = "snapshot"
          /\ pc' = [pc EXCEPT ![h] = l]
      BY <1>2, <2>1 DEF Creating
    <3> QED
      BY <1>3, <3>1, Admit, Zenon
  <2>2. CASE l = "over"
    <3>1. l \notin Creating /\ l # "delete" /\ operation' = operation
      BY <1>2, <2>2 DEF Creating
    <3> QED
      BY <1>2, <1>3, <3>1, Continue, Zenon
  <2> QED
    BY <2>1, <2>2
<1>5. PruneInv'
  BY <1>1, <1>2, PruneInvStays DEF DiskInv, disk
<1>6. lost \subseteq Heights /\ victims \subseteq Heights /\ operation' \in {"none", "snapshot", "prune", "restore"}
  BY <1>2 DEF DiskInv, DiskType
<1> QED
  BY <1>1, <1>2, <1>3, <1>4, <1>5, <1>6, MoveKeeps, Zenon DEF pruning

LEMMA CheckLatestKeeps ==
    ASSUME DiskInv, NEW h \in Heights, CheckLatest(h)
    PROVE  DiskInv'
<1>1. pc[h] = "latest" /\ UNCHANGED <<disk, operation, height, pruning, lost>>
  BY DEF CheckLatest
<1>2. PICK l \in {"save", "failed"} :
         pc' = [pc EXCEPT ![h] = l] /\ (l = "save" => ~\E g \in Listed : g >= h)
  BY Zenon DEF CheckLatest, Goto
<1>3. l \in Labels
  BY DEF Labels
<1>4. AdmittedInv'
  BY <1>1, <1>2, <1>3, Continue, Zenon DEF Creating
<1>5. PruneInv'
  BY <1>1, PruneInvStays DEF DiskInv, disk
<1>6. lost \subseteq Heights /\ victims \subseteq Heights /\ operation \in {"none", "snapshot", "prune", "restore"}
  BY DEF DiskInv, DiskType
<1>7. files[h] = <<>>
  BY <1>1 DEF DiskInv, FreshInv
<1>8. l = "save" => \A g \in Listed : g < h
  <2>1. Listed \subseteq 1 .. MaxHeight /\ h \in 1 .. MaxHeight
    BY DEF DiskInv, DiskType, Heights
  <2> QED
    BY <1>2, <2>1
<1> QED
  BY <1>1, <1>2, <1>3, <1>4, <1>5, <1>6, <1>7, <1>8, MoveKeeps, Zenon DEF pruning

\* Steps that write chunk files of h while Save runs.
LEMMA WriteKeeps ==
    ASSUME DiskInv, NEW h \in Heights, pc[h] = "save",
           NEW f \in Seq({"partial", "whole"}), files' = [files EXCEPT ![h] = f],
           Len(f) <= MaxChunks, \A i \in 1 .. Len(f) - 1 : f[i] = "whole",
           dirs' \subseteq Heights,
           UNCHANGED <<snapshots, operation, height, pc, pruning, lost>>
    PROVE  DiskInv'
<1>1. files \in [Heights -> Seq({"partial", "whole"})]
  BY DEF DiskInv, DiskType
<1>2. /\ files' \in [Heights -> Seq({"partial", "whole"})]
      /\ \A k \in Heights : files'[k] = IF k = h THEN f ELSE files[k]
  BY <1>1
<1>3. h \notin Listed /\ Listed \subseteq Heights
  BY DEF DiskInv, DiskType, SavingInv, Heights
<1>4. DiskType'
  BY <1>2 DEF DiskInv, DiskType, Listed, pruning
<1>5. AdmittedInv'
  BY DEF DiskInv, AdmittedInv, Busy
<1>6. FreshInv'
  BY <1>2 DEF DiskInv, FreshInv, Listed
<1>7. SavingInv'
  BY <1>2 DEF DiskInv, SavingInv, Listed
<1>8. PruneInv'
  BY PruneInvStays DEF DiskInv
<1>9. ListedIsWhole'
  BY <1>2, <1>3 DEF DiskInv, ListedIsWhole, Listed
<1>10. LeftoversExplained'
  BY <1>2 DEF DiskInv, LeftoversExplained, Listed, pruning
<1> QED
  BY <1>4, <1>5, <1>6, <1>7, <1>8, <1>9, <1>10 DEF DiskInv

LEMMA NextChunkKeeps ==
    ASSUME DiskInv, NEW h \in Heights, NextChunk(h)
    PROVE  DiskInv'
<1> DEFINE old == files[h]
           f == Append(old, "partial")
<1>1. old \in Seq({"partial", "whole"}) /\ Len(old) \in Nat /\ Len(old) < MaxChunks
  BY DEF DiskInv, DiskType, NextChunk
<1>2. \A i \in 1 .. Len(old) : old[i] = "whole"
  <2>1. \A i \in 1 .. Len(old) - 1 : old[i] = "whole"
    BY DEF DiskInv, SavingInv, NextChunk
  <2>2. old # <<>> => old[Len(old)] # "partial" /\ Len(old) \in 1 .. Len(old)
    BY <1>1 DEF NextChunk, ChunkOpen
  <2>3. \A i \in 1 .. Len(old) : old[i] \in {"partial", "whole"} /\ old # <<>>
    BY <1>1
  <2> HIDE DEF old
  <2> QED
    BY <1>1, <2>1, <2>2, <2>3
<1>3. /\ f \in Seq({"partial", "whole"}) /\ Len(f) = Len(old) + 1
      /\ \A i \in 1 .. Len(old) : f[i] = old[i]
  BY <1>1
<1>4. files' = [files EXCEPT ![h] = f] /\ pc[h] = "save"
  BY DEF NextChunk
<1>5. dirs' \subseteq Heights /\ UNCHANGED <<snapshots, operation, height, pc, pruning, lost>>
  BY DEF NextChunk, DiskInv, DiskType
<1> HIDE DEF f, old
<1>6. Len(f) <= MaxChunks /\ \A i \in 1 .. Len(f) - 1 : f[i] = "whole"
  BY <1>1, <1>2, <1>3, SnapshotAssumption
<1> QED
  BY <1>3, <1>4, <1>5, <1>6, WriteKeeps, Zenon

LEMMA FinishChunkKeeps ==
    ASSUME DiskInv, NEW h \in Heights, FinishChunk(h)
    PROVE  DiskInv'
<1> DEFINE old == files[h]
           f == [old EXCEPT ![Len(old)] = "whole"]
<1>1. old \in Seq({"partial", "whole"}) /\ Len(old) \in Nat /\ Len(old) <= MaxChunks
  BY DEF DiskInv, DiskType
<1>2. \A i \in 1 .. Len(old) - 1 : old[i] = "whole"
  BY DEF DiskInv, SavingInv, FinishChunk
<1>3. f \in Seq({"partial", "whole"}) /\ Len(f) = Len(old) /\ \A i \in 1 .. Len(old) - 1 : f[i] = old[i]
  <2>1. old \in [1 .. Len(old) -> {"partial", "whole"}]
    BY <1>1, LenProperties
  <2>2. f \in [1 .. Len(old) -> {"partial", "whole"}]
    BY <2>1, Zenon
  <2>3. \A i \in 1 .. Len(old) - 1 : f[i] = old[i]
    BY <1>1, <2>1
  <2> HIDE DEF f, old
  <2> QED
    BY <1>1, <2>2, <2>3, SeqDef, LenProperties
<1>4. files' = [files EXCEPT ![h] = f] /\ pc[h] = "save"
  BY DEF FinishChunk
<1>5. dirs' \subseteq Heights /\ UNCHANGED <<snapshots, operation, height, pc, pruning, lost>>
  BY DEF FinishChunk, DiskInv, DiskType
<1> HIDE DEF f, old
<1>6. Len(f) <= MaxChunks /\ \A i \in 1 .. Len(f) - 1 : f[i] = "whole"
  BY <1>1, <1>2, <1>3
<1> QED
  BY <1>3, <1>4, <1>5, <1>6, WriteKeeps, Zenon

\* Create leaves Save, with the snapshot written or not.
LEMMA LeaveSave ==
    ASSUME DiskInv, NEW h \in Heights, pc[h] \in {"save", "record"},
           NEW l \in {"record", "failed"}, pc' = [pc EXCEPT ![h] = l],
           l = "record" => \A i \in 1 .. Len(files[h]) : files[h][i] = "whole",
           lost' = lost \/ lost' = lost \cup {h}, l = "failed" => h \in lost',
           UNCHANGED <<disk, operation, height, pruning>>
    PROVE  DiskInv'
<1>1. l \in Labels /\ l \in Creating /\ l # "delete" /\ pc[h] \in Creating
  BY DEF Labels, Creating
<1>2. AdmittedInv'
  BY <1>1, Continue, Zenon
<1>3. PruneInv'
  BY PruneInvStays DEF DiskInv, disk
<1>4. lost' \subseteq Heights /\ victims \subseteq Heights /\ operation \in {"none", "snapshot", "prune", "restore"}
  BY DEF DiskInv, DiskType
<1>5. \A g \in Listed : g < h
  BY DEF DiskInv, SavingInv
<1> QED
  BY <1>1, <1>2, <1>3, <1>4, <1>5, MoveKeeps, Zenon DEF pruning

LEMMA CloseWriterKeeps ==
    ASSUME DiskInv, NEW h \in Heights, CloseWriter(h)
    PROVE  DiskInv'
<1>1. files[h] \in Seq({"partial", "whole"}) /\ Len(files[h]) \in Nat
  BY DEF DiskInv, DiskType
<1>2. \A i \in 1 .. Len(files[h]) : files[h][i] = "whole"
  <2>1. \A i \in 1 .. Len(files[h]) - 1 : files[h][i] = "whole"
    BY DEF DiskInv, SavingInv, CloseWriter
  <2>2. files[h][Len(files[h])] = "whole"
    BY <1>1 DEF CloseWriter, ChunkOpen
  <2> QED
    BY <1>1, <2>1, <2>2
<1> QED
  BY <1>2, LeaveSave, Zenon DEF CloseWriter, Goto

LEMMA WriterFailsKeeps ==
    ASSUME DiskInv, NEW h \in Heights, WriterFails(h)
    PROVE  DiskInv'
<1>1. pc[h] = "save" /\ UNCHANGED <<disk, operation, height, pruning>>
  BY DEF WriterFails
<1>2. CASE files[h] = <<>> /\ Goto(h, "record") /\ UNCHANGED lost
  <2>1. \A i \in 1 .. Len(files[h]) : files[h][i] = "whole"
    BY <1>2
  <2> QED
    BY <1>1, <1>2, <2>1, LeaveSave, Zenon DEF Goto
<1>3. CASE Goto(h, "failed") /\ lost' = lost \cup {h}
  BY <1>1, <1>3, LeaveSave, Zenon DEF Goto
<1> QED
  BY <1>2, <1>3 DEF WriterFails

LEMMA SaveFailsKeeps ==
    ASSUME DiskInv, NEW h \in Heights, SaveFails(h)
    PROVE  DiskInv'
  BY LeaveSave, Zenon DEF SaveFails, Goto

LEMMA saveSnapshotKeeps ==
    ASSUME DiskInv, NEW h \in Heights, saveSnapshot(h)
    PROVE  DiskInv'
<1>1. /\ pc[h] = "record" /\ pc' = [pc EXCEPT ![h] = "saved"]
      /\ UNCHANGED <<files, dirs, operation, height, pruning, lost>>
  BY DEF saveSnapshot, Goto
<1>2. /\ Listed' = Listed \cup {h}
      /\ \A g \in Listed' : snapshots'[g] = IF g = h THEN Len(files[h]) ELSE snapshots[g]
  BY DEF saveSnapshot, Listed
<1>3. pc \in [Heights -> Labels] /\ \A g \in Heights : pc'[g] = IF g = h THEN "saved" ELSE pc[g]
  BY <1>1 DEF DiskInv, DiskType
<1>4. operation = "snapshot" /\ \A g \in Heights : pc'[g] \notin {"save", "record"}
  BY <1>1, <1>3 DEF DiskInv, AdmittedInv, Busy, Creating
<1>5. DiskType'
  <2>1. Len(files[h]) \in 0 .. MaxChunks
    BY SnapshotAssumption, LenProperties DEF DiskInv, DiskType
  <2>2. Listed' \subseteq Heights /\ \A g \in Listed' : snapshots'[g] \in 0 .. MaxChunks
    BY <1>2, <2>1 DEF DiskInv, DiskType
  <2>3. pc' \in [Heights -> Labels]
    BY <1>1, <1>3 DEF Labels
  <2> QED
    BY <1>1, <2>2, <2>3 DEF DiskInv, DiskType, pruning
<1>6. AdmittedInv'
  BY <1>1, Continue, Zenon DEF Labels, Creating
<1>7. FreshInv'
  BY <1>1, <1>2, <1>3 DEF DiskInv, FreshInv
<1>8. SavingInv'
  BY <1>4 DEF SavingInv
<1>9. PruneInv'
  <2>1. victims = {} /\ victim = 0 /\ pruned = {}
    BY <1>4 DEF DiskInv, PruneInv
  <2>2. 0 \notin Listed'
    BY <1>2 DEF DiskInv, DiskType, Heights
  <2> QED
    BY <1>1, <1>4, <2>1, <2>2 DEF PruneInv, pruning
<1>10. ListedIsWhole'
  <2>1. \A i \in DOMAIN files[h] : files[h][i] = "whole"
    <3>1. DOMAIN files[h] = 1 .. Len(files[h])
      BY LenProperties DEF DiskInv, DiskType
    <3> QED
      BY <1>1, <3>1 DEF DiskInv, SavingInv
  <2> QED
    BY <1>1, <1>2, <2>1 DEF DiskInv, ListedIsWhole
<1>11. LeftoversExplained'
  BY <1>1, <1>2, <1>3 DEF DiskInv, LeftoversExplained, pruning
<1> QED
  BY <1>5, <1>6, <1>7, <1>8, <1>9, <1>10, <1>11 DEF DiskInv

LEMMA EndCreateKeeps ==
    ASSUME DiskInv, NEW h \in Heights, EndCreate(h)
    PROVE  DiskInv'
<1>1. pc[h] \in {"saved", "failed"} /\ operation' = "none" /\ UNCHANGED <<disk, height, pruning, lost>>
  BY DEF EndCreate
<1>2. PICK l \in {"prune", "over"} : pc' = [pc EXCEPT ![h] = l]
  BY Zenon DEF EndCreate, Goto
<1>3. l \in Labels /\ l \notin Creating \cup {"delete"} /\ pc[h] \in Creating /\ Busy(h)
  BY <1>1 DEF Labels, Creating, Busy
<1>4. AdmittedInv'
  BY <1>1, <1>2, <1>3, Release, Zenon
<1>5. PruneInv'
  <2>1. operation # "prune"
    BY <1>3 DEF DiskInv, AdmittedInv
  <2> QED
    BY <1>1, <2>1, PruneInvStays DEF DiskInv, disk
<1>6. lost \subseteq Heights /\ victims \subseteq Heights
  BY DEF DiskInv, DiskType
<1> QED
  BY <1>1, <1>2, <1>3, <1>4, <1>5, <1>6, MoveKeeps, Zenon DEF pruning

\* Prune chooses from the list as it is when the operation begins.
LEMMA BeginPruneKeeps ==
    ASSUME DiskInv, NEW h \in Heights, BeginPrune(h)
    PROVE  DiskInv'
<1>1. pc[h] = "prune" /\ UNCHANGED <<disk, height, victim, pruned, lost>>
  BY DEF BeginPrune
<1>2. PICK l \in {"delete", "over"} :
         /\ pc' = [pc EXCEPT ![h] = l]
         /\ IF l = "delete" THEN operation = "none" /\ operation' = "prune" /\ victims' = ToPrune
                            ELSE operation' = operation /\ victims' = victims
  BY DEF BeginPrune, beginLocked, Goto
<1>3. l \in Labels
  BY DEF Labels
<1>4. AdmittedInv'
  BY <1>2, <1>3, Admit, Continue, Zenon DEF Creating
<1>5. PruneInv'
  <2>1. CASE l = "over"
    BY <1>1, <1>2, <2>1, PruneInvStays DEF DiskInv, disk, pruning
  <2>2. CASE l = "delete"
    BY <1>1, <1>2, <2>2, Zenon DEF DiskInv, PruneInv, ToPrune, disk, Listed
  <2> QED
    BY <2>1, <2>2
<1>6. lost \subseteq Heights /\ victims' \subseteq Heights /\ operation' \in {"none", "snapshot", "prune", "restore"}
  BY <1>2, Zenon DEF DiskInv, DiskType, ToPrune
<1> QED
  BY <1>1, <1>2, <1>3, <1>4, <1>5, <1>6, MoveKeeps, Zenon

\* The first half of Delete takes the newest victim: each of those that remain
\* still has enough heights above it.
LEMMA DeleteMetadataKeeps ==
    ASSUME DiskInv, NEW h \in Heights, DeleteMetadata(h)
    PROVE  DiskInv'
<1>1. pc[h] = "delete" /\ UNCHANGED <<files, dirs, operation, height, pc, pruned, lost>> /\ victim = 0
  BY DEF DeleteMetadata
<1>2. PICK g \in victims :
         /\ \A k \in victims : k <= g
         /\ snapshots' = Without(snapshots, g)
         /\ victim' = g /\ victims' = victims \ {g}
  BY DEF DeleteMetadata
<1>3. Listed' = Listed \ {g} /\ \A k \in Listed' : snapshots'[k] = snapshots[k]
  BY <1>2 DEF Without, Listed
<1>4. /\ g \in Listed /\ victims \subseteq Listed /\ Listed \subseteq Heights /\ g \in Heights
      /\ Heights = 1 .. MaxHeight
  BY DEF DiskInv, PruneInv, DiskType, Heights
<1>5. IsFiniteSet(Listed)
  <2>1. IsFiniteSet(Heights)
    BY <1>4, FS_Interval, SnapshotAssumption
  <2> QED
    BY <1>4, <2>1, FS_Subset, Zenon
<1>6. DiskType'
  <2>1. victim' \in 0 .. MaxHeight
    BY <1>2, <1>4
  <2> QED
    BY <1>1, <1>2, <1>3, <2>1 DEF DiskInv, DiskType
<1>7. AdmittedInv'
  BY <1>1 DEF DiskInv, AdmittedInv, Busy
<1>8. FreshInv' /\ SavingInv'
  BY <1>1, <1>3 DEF DiskInv, FreshInv, SavingInv
<1>9. PruneInv'
  <2>1. operation' = "prune"
    BY <1>1 DEF DiskInv, AdmittedInv
  <2>2. ASSUME NEW k \in victims'
        PROVE  Cardinality({j \in Listed' : j > k}) >= KeepRecent
    <3> DEFINE above == {j \in Listed : j > g}
               rest == {j \in Listed' : j > k}
    <3>1. k < g
      BY <1>2, <1>4
    <3>2. above \subseteq rest
      <4> SUFFICES ASSUME NEW j \in Listed, j > g PROVE j \in Listed' /\ j > k
        OBVIOUS
      <4>1. j \in Nat /\ g \in Nat /\ k \in Nat
        BY <1>2, <1>4
      <4> QED
        BY <1>3, <3>1, <4>1
    <3>3. IsFiniteSet(rest) /\ IsFiniteSet(above)
      BY <1>3, <1>5, FS_Subset
    <3>4. Cardinality(above) <= Cardinality(rest)
      BY <3>2, <3>3, FS_Subset
    <3>5. Cardinality(above) >= KeepRecent
      BY DEF DiskInv, PruneInv
    <3>6. Cardinality(above) \in Nat /\ Cardinality(rest) \in Nat
      BY <3>3, FS_CardinalityType
    <3> QED
      BY <3>4, <3>5, <3>6, SnapshotAssumption
  <2> QED
    BY <1>2, <1>3, <1>4, <2>1, <2>2 DEF PruneInv
<1>10. ListedIsWhole'
  BY <1>1, <1>3 DEF DiskInv, ListedIsWhole
<1>11. LeftoversExplained'
  <2>1. 0 \notin Heights
    BY DEF Heights
  <2> QED
    BY <1>1, <1>2, <1>3, <2>1 DEF DiskInv, LeftoversExplained
<1> QED
  BY <1>6, <1>7, <1>8, <1>9, <1>10, <1>11 DEF DiskInv

LEMMA DeleteFilesKeeps ==
    ASSUME DiskInv, NEW h \in Heights, DeleteFiles(h)
    PROVE  DiskInv'
<1>1. /\ pc[h] = "delete" /\ victim # 0 /\ victim' = 0 /\ pruned' = pruned \cup {victim}
      /\ files' = [files EXCEPT ![victim] = <<>>]
      /\ UNCHANGED <<snapshots, dirs, operation, height, pc, victims, lost>>
  BY DEF DeleteFiles
<1>2. victim \in Heights /\ victim \notin Listed /\ Listed \subseteq Heights
  BY <1>1 DEF DiskInv, DiskType, PruneInv, Heights
<1>3. Listed' = Listed
  BY <1>1 DEF Listed
<1>4. /\ files' \in [Heights -> Seq({"partial", "whole"})]
      /\ \A k \in Heights : files'[k] = IF k = victim THEN <<>> ELSE files[k]
  <2>1. <<>> \in Seq({"partial", "whole"}) /\ files \in [Heights -> Seq({"partial", "whole"})]
    BY DEF DiskInv, DiskType
  <2> QED
    BY <1>1, <1>2, <2>1
<1>5. DiskType'
  <2>1. \A k \in Heights : Len(files'[k]) <= MaxChunks
    BY <1>4, SnapshotAssumption DEF DiskInv, DiskType
  <2>2. victim' \in 0 .. MaxHeight
    BY <1>1, SnapshotAssumption
  <2> QED
    BY <1>1, <1>2, <1>3, <1>4, <2>1, <2>2 DEF DiskInv, DiskType
<1>6. AdmittedInv'
  BY <1>1 DEF DiskInv, AdmittedInv, Busy
<1>7. FreshInv'
  BY <1>1, <1>3, <1>4 DEF DiskInv, FreshInv
<1>8. SavingInv'
  <2>1. \A k \in Heights : pc[k] \notin {"save", "record"}
    BY <1>1 DEF DiskInv, AdmittedInv, Busy, Creating
  <2> QED
    BY <1>1, <2>1 DEF SavingInv
<1>9. PruneInv'
  <2>1. operation = "prune" /\ 0 \notin Heights
    BY <1>1 DEF DiskInv, AdmittedInv, Heights
  <2> QED
    BY <1>1, <1>2, <1>3, <2>1 DEF DiskInv, PruneInv
<1>10. ListedIsWhole'
  BY <1>1, <1>2, <1>3, <1>4 DEF DiskInv, ListedIsWhole
<1>11. LeftoversExplained'
  BY <1>1, <1>3, <1>4 DEF DiskInv, LeftoversExplained
<1> QED
  BY <1>5, <1>6, <1>7, <1>8, <1>9, <1>10, <1>11 DEF DiskInv

\* Steps of Prune that leave the list and the files alone.
LEMMA PruneStepKeeps ==
    ASSUME DiskInv, UNCHANGED <<snapshots, files, operation, height, pc>>, operation = "prune",
           dirs' \subseteq dirs, pruned' \subseteq pruned, victims' \subseteq victims,
           victim' = victim \/ (victim' = 0 /\ (victim = 0 \/ victim \in lost')),
           lost \subseteq lost', lost' \subseteq Heights
    PROVE  DiskInv'
<1>1. Listed' = Listed
  BY DEF Listed
<1>2. DiskType'
  BY <1>1, SnapshotAssumption DEF DiskInv, DiskType
<1>3. AdmittedInv' /\ FreshInv' /\ SavingInv'
  BY <1>1 DEF DiskInv, AdmittedInv, Busy, FreshInv, SavingInv
<1>4. PruneInv'
  <2>1. 0 \notin Listed
    BY DEF DiskInv, DiskType, Heights
  <2> QED
    BY <1>1, <2>1 DEF DiskInv, PruneInv
<1>5. ListedIsWhole'
  BY <1>1 DEF DiskInv, ListedIsWhole
<1>6. LeftoversExplained'
  <2>1. 0 \notin Heights
    BY DEF Heights
  <2> QED
    BY <1>1, <2>1 DEF DiskInv, LeftoversExplained
<1> QED
  BY <1>2, <1>3, <1>4, <1>5, <1>6 DEF DiskInv

LEMMA RemoveDirKeeps ==
    ASSUME DiskInv, NEW h \in Heights, RemoveDir(h)
    PROVE  DiskInv'
<1>1. operation = "prune" /\ lost \subseteq Heights
  BY DEF DiskInv, DiskType, AdmittedInv, RemoveDir
<1> QED
  BY <1>1, PruneStepKeeps DEF RemoveDir

LEMMA PruneFailsKeeps ==
    ASSUME DiskInv, NEW h \in Heights, PruneFails(h)
    PROVE  DiskInv'
<1>1. operation = "prune" /\ lost \subseteq Heights
  BY DEF DiskInv, DiskType, AdmittedInv, PruneFails
<1>2. victim # 0 => victim \in Heights
  BY DEF DiskInv, DiskType, Heights
<1> QED
  BY <1>1, <1>2, PruneStepKeeps DEF PruneFails, disk

LEMMA EndPruneKeeps ==
    ASSUME DiskInv, NEW h \in Heights, EndPrune(h)
    PROVE  DiskInv'
<1>1. /\ pc[h] = "delete" /\ operation' = "none" /\ pc' = [pc EXCEPT ![h] = "over"]
      /\ UNCHANGED <<disk, height, pruning, lost>>
      /\ victims = {} /\ victim = 0 /\ pruned = {}
  BY DEF EndPrune, Goto
<1>2. "over" \in Labels /\ "over" \notin Creating \cup {"delete"} /\ Busy(h)
  BY <1>1 DEF Labels, Creating, Busy
<1>3. AdmittedInv'
  BY <1>1, <1>2, Release, Zenon
<1>4. PruneInv'
  BY <1>1 DEF DiskInv, PruneInv, disk, pruning, Listed
<1>5. lost \subseteq Heights /\ victims \subseteq Heights
  BY DEF DiskInv, DiskType
<1> QED
  BY <1>1, <1>2, <1>3, <1>4, <1>5, MoveKeeps, Zenon DEF pruning

\* The end of Commit starts a goroutine for a height that never had one.
LEMMA CommitKeeps == ASSUME DiskInv, Commit PROVE DiskInv'
<1> DEFINE new == height + 1
<1>1. /\ new \in Heights /\ height' = new /\ pc' = [pc EXCEPT ![new] = "begin"]
      /\ UNCHANGED <<disk, operation, pruning, lost>>
  <2>1. height \in 0 .. MaxHeight /\ height < MaxHeight
    BY DEF DiskInv, DiskType, Commit
  <2>2. new \in Heights
    BY <2>1, SnapshotAssumption DEF Heights
  <2> QED
    BY <2>2 DEF Commit, Goto
<1>2. height \in Nat /\ new > height /\ new \in 0 .. MaxHeight
  BY <1>1 DEF DiskInv, DiskType, Heights
<1> HIDE DEF new
<1>3. pc[new] = "none" /\ files[new] = <<>> /\ new \notin Listed
  BY <1>1, <1>2 DEF DiskInv, FreshInv
<1>4. pc \in [Heights -> Labels] /\ \A g \in Heights : pc'[g] = IF g = new THEN "begin" ELSE pc[g]
  BY <1>1 DEF DiskInv, DiskType
<1>5. snapshots' = snapshots /\ files' = files /\ dirs' = dirs /\ Listed' = Listed
  BY <1>1 DEF disk, Listed
<1>6. DiskType'
  <2>1. pc' \in [Heights -> Labels]
    BY <1>1, <1>4 DEF Labels
  <2> QED
    BY <1>1, <1>2, <1>5, <2>1 DEF DiskInv, DiskType, pruning
<1>7. AdmittedInv'
  BY <1>1, Continue, Zenon DEF Labels, Creating
<1>8. FreshInv'
  <2>1. \A g \in Heights : g > height' => pc'[g] = "none"
    <3>1. \A g \in Heights : g > height => pc[g] = "none"
      BY DEF DiskInv, FreshInv
    <3>2. \A g \in Heights : g > height' => g > height /\ g # new
      BY <1>1, <1>2 DEF Heights, new
    <3> QED
      BY <1>4, <3>1, <3>2
  <2> QED
    BY <1>3, <1>4, <1>5, <2>1 DEF DiskInv, FreshInv
<1>9. SavingInv' /\ ListedIsWhole'
  BY <1>4, <1>5 DEF DiskInv, SavingInv, ListedIsWhole
<1>10. PruneInv'
  BY <1>1, <1>5, PruneInvStays DEF DiskInv
<1>11. LeftoversExplained'
  BY <1>1, <1>3, <1>4, <1>5 DEF DiskInv, LeftoversExplained, pruning
<1> QED
  BY <1>6, <1>7, <1>8, <1>9, <1>10, <1>11 DEF DiskInv

-----------------------------------------------------------------------------
(* The steps of a restore.                                                 *)

\* endLocked leaves the fields of a restore well typed.
LEMMA EndRestoreType ==
    ASSUME endRestoreLocked
    PROVE  /\ chunks' \in 0 .. MaxOffered /\ index' \in 0 .. chunks'
           /\ chRestore' \in Seq(1 .. MaxOffered) /\ Len(chRestore') <= ChunkBuffer
           /\ closed' \in BOOLEAN /\ chDone' \in {"empty", "ok", "error"}
           /\ chunk' \in 0 .. MaxOffered /\ result' \in {"none", "ok", "error"}
           /\ consumed' \in Seq(1 .. MaxOffered)
<1>1. <<>> \in Seq(1 .. MaxOffered) /\ Len(<<>>) = 0
  OBVIOUS
<1>2. /\ chunks' \in 0 .. MaxOffered /\ index' \in 0 .. chunks' /\ chunk' \in 0 .. MaxOffered
      /\ 0 <= ChunkBuffer
  BY SnapshotAssumption DEF endRestoreLocked
<1>3. chRestore' = <<>> /\ consumed' = <<>>
  BY DEF endRestoreLocked
<1>4. Len(chRestore') <= ChunkBuffer
  BY <1>1, <1>2, <1>3
<1>5. closed' \in BOOLEAN /\ chDone' \in {"empty", "ok", "error"} /\ result' \in {"none", "ok", "error"}
  BY Zenon DEF endRestoreLocked
<1> QED
  BY <1>1, <1>2, <1>3, <1>4, <1>5

\* What a receive does to what has been read and what is buffered.
LEMMA ReceiveMoves ==
    ASSUME RestoreInv, Receive
    PROVE  /\ consumed' \in Seq(1 .. MaxOffered) /\ chRestore' \in Seq(1 .. MaxOffered)
           /\ Len(consumed') = Len(consumed) + 1 /\ Len(consumed) \in Nat
           /\ Len(chRestore') = Len(chRestore) - 1 /\ Len(chRestore) \in Nat \ {0}
           /\ \A i \in 1 .. Len(consumed) : consumed'[i] = consumed[i]
           /\ consumed'[Len(consumed) + 1] = chRestore[1]
           /\ \A i \in 1 .. Len(chRestore') : chRestore'[i] = chRestore[i + 1]
<1>1. consumed \in Seq(1 .. MaxOffered) /\ chRestore \in Seq(1 .. MaxOffered) /\ chRestore # <<>>
  BY DEF RestoreInv, RestoreType, Receive
<1>a. Len(chRestore) \in Nat /\ Len(chRestore) # 0 /\ Len(consumed) \in Nat
  BY <1>1, LenProperties, EmptySeq
<1>b. Tail(chRestore) \in Seq(1 .. MaxOffered) /\ Len(Tail(chRestore)) = Len(chRestore) - 1
      /\ Head(chRestore) \in 1 .. MaxOffered
  BY <1>1, HeadTailProperties, Zenon
<1>c. Head(chRestore) = chRestore[1]
  BY <1>1
<1>2. /\ Tail(chRestore) \in Seq(1 .. MaxOffered) /\ Len(Tail(chRestore)) = Len(chRestore) - 1
      /\ Head(chRestore) = chRestore[1] /\ Head(chRestore) \in 1 .. MaxOffered
      /\ Len(chRestore) \in Nat \ {0} /\ Len(consumed) \in Nat
  BY <1>a, <1>b, <1>c
<1>3. \A i \in 1 .. Len(Tail(chRestore)) : Tail(chRestore)[i] = chRestore[i + 1]
  BY <1>1, HeadTailProperties
<1>4. LET c == Append(consumed, Head(chRestore))
      IN  /\ c \in Seq(1 .. MaxOffered) /\ Len(c) = Len(consumed) + 1
          /\ \A i \in 1 .. Len(consumed) : c[i] = consumed[i]
          /\ c[Len(consumed) + 1] = Head(chRestore)
  BY <1>1, <1>2
<1> QED
  BY <1>2, <1>3, <1>4 DEF Receive

\* A receive takes the next chunk.
LEMMA ReceiveFeeds ==
    ASSUME RestoreInv, Receive, reader \in {"header", "read"}, index' = index
    PROVE  FeedInv'
<1>1. /\ \A i \in 1 .. Len(consumed) : consumed[i] = i
      /\ \A i \in 1 .. Len(chRestore) : chRestore[i] = Len(consumed) + i
      /\ Len(consumed) + Len(chRestore) = index
  BY DEF RestoreInv, FeedInv
<1>a. Len(consumed) \in Nat /\ Len(chRestore) \in Nat \ {0} /\ Len(consumed') = Len(consumed) + 1
      /\ Len(chRestore') = Len(chRestore) - 1
  BY ReceiveMoves
<1>2. Len(consumed') + Len(chRestore') = index'
  BY <1>1, <1>a
<1>b. /\ \A i \in 1 .. Len(consumed) : consumed'[i] = consumed[i]
      /\ consumed'[Len(consumed) + 1] = chRestore[1]
  BY ReceiveMoves
<1>3. ASSUME NEW i \in 1 .. Len(consumed') PROVE consumed'[i] = i
  <2>1. CASE i \in 1 .. Len(consumed)
    BY <1>1, <1>b, <2>1
  <2>2. CASE i = Len(consumed) + 1
    BY <1>1, <1>a, <1>b, <2>2
  <2> QED
    BY <1>a, <2>1, <2>2
<1>4. ASSUME NEW i \in 1 .. Len(chRestore') PROVE chRestore'[i] = Len(consumed') + i
  <2>1. chRestore'[i] = chRestore[i + 1] /\ i + 1 \in 1 .. Len(chRestore)
    BY <1>a, ReceiveMoves
  <2>2. chRestore[i + 1] = Len(consumed) + (i + 1)
    BY <1>1, <2>1
  <2> QED
    BY <1>a, <2>1, <2>2
<1> QED
  BY <1>a, <1>2, <1>3, <1>4 DEF FeedInv

LEMMA RestoreKeeps ==
    ASSUME RestoreInv, NEW n \in 1 .. MaxOffered, Restore(n)
    PROVE  RestoreInv'
<1>0. RestoreType /\ IdleInv /\ SendInv /\ FeedInv /\ OkInv
  BY DEF RestoreInv
<1> USE <1>0 DEF Restore, Unlocked, feed
<1>1. RestoreType'
  BY SnapshotAssumption DEF RestoreType, SendInv, IdleInv
<1>2. IdleInv'
  BY DEF IdleInv, OkInv
<1>3. SendInv'
  BY DEF SendInv, IdleInv, OkInv
<1>4. FeedInv'
  BY DEF FeedInv, IdleInv, SendInv, OkInv
<1>5. OkInv'
  BY DEF OkInv, FeedInv, IdleInv
<1> QED
  BY <1>1, <1>2, <1>3, <1>4, <1>5 DEF RestoreInv

LEMMA RestoreChunkKeeps ==
    ASSUME RestoreInv, NEW c \in 1 .. MaxOffered, RestoreChunk(c)
    PROVE  RestoreInv'
<1>0. RestoreType /\ IdleInv /\ SendInv /\ FeedInv /\ OkInv
  BY DEF RestoreInv
<1> USE <1>0 DEF RestoreChunk, Unlocked, endRestoreLocked, feed
<1>1. RestoreType'
  <2> USE SnapshotAssumption DEF RestoreType
  <2>1. CASE endRestoreLocked /\ reply' = "error" /\ UNCHANGED <<caller, reader>>
    <3> HIDE DEF endRestoreLocked
    <3> QED
      BY <2>1, EndRestoreType
  <2>2. CASE reply' = "error" /\ UNCHANGED <<feed, result, consumed, reader>>
    BY <2>2
  <2>3. CASE /\ caller' = "send" /\ chunk' = c
             /\ UNCHANGED <<chunks, index, chRestore, closed, chDone, result, consumed, reply, reader>>
    BY <2>3
  <2> QED
    BY <2>1, <2>2, <2>3
<1>2. IdleInv'
  BY DEF IdleInv, OkInv
<1>3. SendInv'
  <2>1. CASE chDone # "empty"
    BY <2>1, Zenon DEF SendInv, IdleInv, OkInv
  <2>2. CASE chDone = "empty"
    BY <2>2 DEF SendInv, IdleInv, OkInv
  <2> QED
    BY <2>1, <2>2
<1>4. FeedInv'
  BY Zenon DEF FeedInv, IdleInv, SendInv, OkInv
<1>5. OkInv'
  BY DEF OkInv, FeedInv, IdleInv
<1> QED
  BY <1>1, <1>2, <1>3, <1>4, <1>5 DEF RestoreInv

LEMMA SendChunkKeeps ==
    ASSUME RestoreInv, SendChunk
    PROVE  RestoreInv'
<1>0. RestoreType /\ IdleInv /\ SendInv /\ FeedInv /\ OkInv
  BY DEF RestoreInv
<1> USE <1>0 DEF SendChunk, feed
<1>a. /\ chRestore \in Seq(1 .. MaxOffered) /\ Len(chRestore) \in Nat /\ Len(chRestore) < ChunkBuffer
      /\ chunk = index + 1 /\ index + 1 <= chunks /\ chunk \in 1 .. MaxOffered
  <2>1. operation = "restore" /\ index < chunks /\ chunk = index + 1
    BY DEF RestoreType, SendInv, IdleInv
  <2> QED
    BY <2>1, SnapshotAssumption DEF RestoreType
<1>b. /\ chRestore' \in Seq(1 .. MaxOffered) /\ Len(chRestore') = Len(chRestore) + 1
      /\ \A i \in 1 .. Len(chRestore) : chRestore'[i] = chRestore[i]
      /\ chRestore'[Len(chRestore) + 1] = chunk
  BY <1>a
<1>1. RestoreType'
  <2> USE SnapshotAssumption DEF RestoreType
  <2>1. index' \in 0 .. chunks' /\ chunks' \in 0 .. MaxOffered /\ chunk' \in 0 .. MaxOffered
    BY <1>a
  <2>2. Len(chRestore') <= ChunkBuffer
    BY <1>a, <1>b
  <2>3. closed' \in BOOLEAN /\ caller' \in {"idle", "send", "wait"} /\ reply' \in {"none", "complete", "error"}
    BY Zenon
  <2>4. chDone' = chDone /\ reader' = reader /\ result' = result /\ consumed' = consumed
    OBVIOUS
  <2> HIDE DEF SendChunk
  <2> QED
    BY <1>b, <2>1, <2>2, <2>3, <2>4
<1>2. IdleInv'
  BY DEF IdleInv, OkInv
<1>3. SendInv'
  <2>1. operation' = operation /\ chunks' = chunks /\ index' = index + 1 /\ index \in Nat /\ chunks \in Nat
    BY SnapshotAssumption DEF RestoreType
  <2>2. ~closed
    BY DEF SendInv
  <2> QED
    BY <1>a, <2>1, <2>2 DEF SendInv
<1>4. FeedInv'
  <2> SUFFICES ASSUME reader \in {"header", "parse", "read"}
               PROVE  /\ \A i \in 1 .. Len(consumed) : consumed[i] = i
                      /\ \A i \in 1 .. Len(chRestore') : chRestore'[i] = Len(consumed) + i
                      /\ Len(consumed) + Len(chRestore') = index'
    BY DEF FeedInv
  <2>1. /\ \A i \in 1 .. Len(consumed) : consumed[i] = i
        /\ \A i \in 1 .. Len(chRestore) : chRestore[i] = Len(consumed) + i
        /\ Len(consumed) + Len(chRestore) = index /\ index' = index + 1
        /\ Len(consumed) \in Nat
    BY DEF FeedInv, RestoreType
  <2> HIDE DEF SendChunk
  <2>2. Len(consumed) + Len(chRestore') = index'
    BY <1>a, <1>b, <2>1
  <2>3. ASSUME NEW i \in 1 .. Len(chRestore') PROVE chRestore'[i] = Len(consumed) + i
    <3>1. CASE i \in 1 .. Len(chRestore)
      BY <1>b, <2>1, <3>1
    <3>2. CASE i = Len(chRestore) + 1
      BY <1>a, <1>b, <2>1, <3>2
    <3> QED
      BY <1>a, <1>b, <3>1, <3>2
  <2> QED
    BY <2>1, <2>2, <2>3
<1>5. OkInv'
  <2>1. chDone # "ok"
    BY DEF SendInv, OkInv
  <2> QED
    BY <2>1 DEF OkInv
<1> QED
  BY <1>1, <1>2, <1>3, <1>4, <1>5 DEF RestoreInv

LEMMA AwaitDoneKeeps ==
    ASSUME RestoreInv, AwaitDone
    PROVE  RestoreInv'
<1>0. RestoreType /\ IdleInv /\ SendInv /\ FeedInv /\ OkInv
  BY DEF RestoreInv
<1> USE <1>0 DEF AwaitDone, endRestoreLocked, feed
<1>1. RestoreType'
  <2> USE SnapshotAssumption DEF RestoreType
  <2> HIDE DEF endRestoreLocked
  <2> QED
    BY EndRestoreType
<1>2. IdleInv'
  BY DEF IdleInv, OkInv
<1>3. SendInv'
  BY DEF SendInv, IdleInv, OkInv
<1>4. FeedInv'
  BY DEF FeedInv, IdleInv, SendInv, OkInv
<1>5. OkInv'
  BY DEF OkInv, FeedInv, IdleInv
<1> QED
  BY <1>1, <1>2, <1>3, <1>4, <1>5 DEF RestoreInv

LEMMA ReadHeaderKeeps ==
    ASSUME RestoreInv, ReadHeader
    PROVE  RestoreInv'
<1>0. RestoreType /\ IdleInv /\ SendInv /\ FeedInv /\ OkInv
  BY DEF RestoreInv
<1> USE <1>0 DEF ReadHeader, Receive, feed
<1>1. RestoreType'
  BY SnapshotAssumption DEF RestoreType, SendInv, IdleInv
<1>2. IdleInv'
  BY DEF IdleInv, OkInv
<1>3. SendInv'
  BY DEF SendInv, IdleInv, OkInv
<1>4. FeedInv'
  <2> HIDE DEF Receive
  <2> QED
    BY ReceiveFeeds
<1>5. OkInv'
  BY DEF OkInv, FeedInv, IdleInv
<1> QED
  BY <1>1, <1>2, <1>3, <1>4, <1>5 DEF RestoreInv

LEMMA ParseHeaderKeeps ==
    ASSUME RestoreInv, ParseHeader
    PROVE  RestoreInv'
<1>0. RestoreType /\ IdleInv /\ SendInv /\ FeedInv /\ OkInv
  BY DEF RestoreInv
<1> USE <1>0 DEF ParseHeader, feed
<1>1. RestoreType'
  BY SnapshotAssumption DEF RestoreType, SendInv, IdleInv
<1>2. IdleInv'
  BY DEF IdleInv, OkInv
<1>3. SendInv'
  BY DEF SendInv, IdleInv, OkInv
<1>4. FeedInv'
  BY DEF FeedInv, IdleInv, SendInv, OkInv
<1>5. OkInv'
  BY DEF OkInv, FeedInv, IdleInv
<1> QED
  BY <1>1, <1>2, <1>3, <1>4, <1>5 DEF RestoreInv

LEMMA ReadChunkKeeps ==
    ASSUME RestoreInv, ReadChunk
    PROVE  RestoreInv'
<1>0. RestoreType /\ IdleInv /\ SendInv /\ FeedInv /\ OkInv
  BY DEF RestoreInv
<1> USE <1>0 DEF ReadChunk, Receive, feed
<1>1. RestoreType'
  BY SnapshotAssumption DEF RestoreType, SendInv, IdleInv
<1>2. IdleInv'
  BY DEF IdleInv, OkInv
<1>3. SendInv'
  BY DEF SendInv, IdleInv, OkInv
<1>4. FeedInv'
  <2> HIDE DEF Receive
  <2> QED
    BY ReceiveFeeds
<1>5. OkInv'
  BY DEF OkInv, FeedInv, IdleInv
<1> QED
  BY <1>1, <1>2, <1>3, <1>4, <1>5 DEF RestoreInv

LEMMA ReadFailsKeeps ==
    ASSUME RestoreInv, ReadFails
    PROVE  RestoreInv'
<1>0. RestoreType /\ IdleInv /\ SendInv /\ FeedInv /\ OkInv
  BY DEF RestoreInv
<1> USE <1>0 DEF ReadFails, feed
<1>1. RestoreType'
  BY SnapshotAssumption DEF RestoreType, SendInv, IdleInv
<1>2. IdleInv'
  BY DEF IdleInv, OkInv
<1>3. SendInv'
  BY DEF SendInv, IdleInv, OkInv
<1>4. FeedInv'
  BY DEF FeedInv, IdleInv, SendInv, OkInv
<1>5. OkInv'
  BY DEF OkInv, FeedInv, IdleInv
<1> QED
  BY <1>1, <1>2, <1>3, <1>4, <1>5 DEF RestoreInv

LEMMA ReadEndsKeeps ==
    ASSUME RestoreInv, ReadEnds
    PROVE  RestoreInv'
<1>0. RestoreType /\ IdleInv /\ SendInv /\ FeedInv /\ OkInv
  BY DEF RestoreInv
<1> USE <1>0 DEF ReadEnds, feed
<1>1. RestoreType'
  BY SnapshotAssumption DEF RestoreType, SendInv, IdleInv
<1>2. IdleInv'
  BY DEF IdleInv, OkInv
<1>3. SendInv'
  BY DEF SendInv, IdleInv, OkInv
<1>4. FeedInv'
  BY DEF FeedInv, IdleInv, SendInv, OkInv
<1>5. OkInv'
  BY DEF RestoreType, OkInv, FeedInv, IdleInv
<1> QED
  BY <1>1, <1>2, <1>3, <1>4, <1>5 DEF RestoreInv

LEMMA DrainKeeps ==
    ASSUME RestoreInv, Drain
    PROVE  RestoreInv'
<1>0. RestoreType /\ IdleInv /\ SendInv /\ FeedInv /\ OkInv
  BY DEF RestoreInv
<1> USE <1>0 DEF Drain, feed
<1>1. RestoreType'
  <2> USE SnapshotAssumption DEF RestoreType
  <2>1. CASE chRestore # <<>> /\ chRestore' = Tail(chRestore) /\ UNCHANGED <<chDone, reader>>
    <3>1. chRestore' \in Seq(1 .. MaxOffered) /\ Len(chRestore') = Len(chRestore) - 1
      BY <2>1, HeadTailProperties
    <3>2. Len(chRestore) \in Nat
      BY LenProperties
    <3> QED
      BY <2>1, <3>1, <3>2
  <2>2. CASE chDone' = result /\ reader' = "none" /\ UNCHANGED chRestore
    BY <2>2 DEF OkInv
  <2> QED
    BY <2>1, <2>2
<1>2. IdleInv'
  BY DEF IdleInv, OkInv
<1>3. SendInv'
  BY DEF SendInv, IdleInv, OkInv
<1>4. FeedInv'
  BY DEF FeedInv, IdleInv, SendInv, OkInv
<1>5. OkInv'
  BY DEF OkInv, FeedInv, IdleInv
<1> QED
  BY <1>1, <1>2, <1>3, <1>4, <1>5 DEF RestoreInv

-----------------------------------------------------------------------------
(* The initial state, a crash, and every step.                             *)

LEMMA InitIInv == Init => IInv
<1> SUFFICES ASSUME Init PROVE IInv
  OBVIOUS
<1> USE SnapshotAssumption DEF Init, Listed, Heights
<1>1. DiskType
  <2> DEFINE Part == {"partial", "whole"}
  <2>1. <<"whole">> \in Seq(Part) /\ <<>> \in Seq(Part) /\ Len(<<"whole">>) = 1 /\ Len(<<>>) = 0
    OBVIOUS
  <2> HIDE DEF Part
  <2>2. files \in [Heights -> Seq(Part)]
    BY <2>1
  <2>3. \A h \in Heights : Len(files[h]) <= MaxChunks
    BY <2>1
  <2>4. pc \in [Heights -> Labels]
    BY DEF Labels
  <2>5. /\ Listed \subseteq Heights /\ \A h \in Listed : snapshots[h] \in 0 .. MaxChunks
        /\ dirs \subseteq Heights /\ height \in 0 .. MaxHeight /\ victim \in 0 .. MaxHeight
    OBVIOUS
  <2> QED
    BY <2>2, <2>3, <2>4, <2>5 DEF DiskType, Part
<1>2. AdmittedInv /\ FreshInv /\ SavingInv
  BY DEF AdmittedInv, FreshInv, SavingInv, Busy, Creating
<1>3. PruneInv
  BY DEF PruneInv
<1>4. ListedIsWhole /\ LeftoversExplained
  BY DEF ListedIsWhole, LeftoversExplained
<1>5. RestoreType
  <2>1. <<>> \in Seq(1 .. MaxOffered) /\ Len(<<>>) = 0
    OBVIOUS
  <2>2. chunks \in 0 .. MaxOffered /\ index \in 0 .. chunks /\ chunk \in 0 .. MaxOffered /\ 0 <= ChunkBuffer
    OBVIOUS
  <2>3. Len(chRestore) <= ChunkBuffer /\ chRestore \in Seq(1 .. MaxOffered) /\ consumed \in Seq(1 .. MaxOffered)
    BY <2>1, <2>2
  <2> QED
    BY <2>2, <2>3 DEF RestoreType
<1>6. IdleInv /\ SendInv /\ FeedInv /\ OkInv
  BY DEF IdleInv, SendInv, FeedInv, OkInv
<1> QED
  BY <1>1, <1>2, <1>3, <1>4, <1>5, <1>6 DEF IInv, DiskInv, RestoreInv

\* A crash keeps the disk; what was cut short is lost.
LEMMA CrashKeeps == ASSUME IInv, Crash PROVE IInv'
<1> USE SnapshotAssumption DEF IInv, Crash
<1>1. DiskType'
  <2>1. pc' \in [Heights -> Labels]
    BY DEF Labels
  <2>2. lost' \subseteq Heights
    <3>1. lost \subseteq Heights /\ victim \in 0 .. MaxHeight
      BY DEF DiskInv, DiskType
    <3>2. {victim} \ {0} \subseteq Heights
      BY <3>1 DEF Heights
    <3> QED
      BY <3>1, <3>2
  <2>3. victims' \subseteq Heights /\ victim' \in 0 .. MaxHeight /\ pruned' \subseteq Heights
    OBVIOUS
  <2> QED
    BY <2>1, <2>2, <2>3 DEF DiskInv, DiskType, disk, Listed
<1>2. AdmittedInv'
  BY DEF AdmittedInv, Busy, Creating
<1>3. FreshInv'
  BY DEF DiskInv, FreshInv, disk, Listed
<1>4. SavingInv'
  BY DEF SavingInv
<1>5. PruneInv'
  BY DEF DiskInv, DiskType, PruneInv, disk, Listed, Heights
<1>6. ListedIsWhole'
  BY DEF DiskInv, ListedIsWhole, disk, Listed
<1>7. LeftoversExplained'
  <2> SUFFICES ASSUME NEW g \in Heights \ Listed, files[g] # <<>>
               PROVE  g \in lost'
    BY DEF LeftoversExplained, disk, Listed
  <2>1. g \in lost \/ victim = g \/ pc[g] \in {"save", "record"}
    BY DEF DiskInv, LeftoversExplained
  <2>2. g # 0
    BY DEF Heights
  <2> QED
    BY <2>1, <2>2
<1>8. RestoreType'
  <2>1. endRestoreLocked
    BY DEF endRestoreLocked
  <2> QED
    BY <2>1, EndRestoreType DEF RestoreType
<1>9. IdleInv' /\ SendInv' /\ FeedInv' /\ OkInv'
  BY DEF IdleInv, SendInv, FeedInv, OkInv
<1> QED
  BY <1>1, <1>2, <1>3, <1>4, <1>5, <1>6, <1>7, <1>8, <1>9 DEF DiskInv, RestoreInv

\* A step of the goroutine of height h.
LEMMA SnapshotFrame == ASSUME NEW h \in Heights, Snapshot(h) PROVE UNCHANGED restore
<1>1. CASE BeginCreate(h) \/ CheckLatest(h) \/ NextChunk(h) \/ FinishChunk(h) \/ CloseWriter(h)
  BY <1>1, Zenon DEF BeginCreate, CheckLatest, NextChunk, FinishChunk, CloseWriter
<1>2. CASE WriterFails(h) \/ SaveFails(h) \/ saveSnapshot(h) \/ EndCreate(h) \/ BeginPrune(h)
  BY <1>2, Zenon DEF WriterFails, SaveFails, saveSnapshot, EndCreate, BeginPrune
<1>3. CASE DeleteMetadata(h) \/ DeleteFiles(h) \/ RemoveDir(h) \/ PruneFails(h) \/ EndPrune(h)
  BY <1>3, Zenon DEF DeleteMetadata, DeleteFiles, RemoveDir, PruneFails, EndPrune
<1> QED
  BY <1>1, <1>2, <1>3, Zenon DEF Snapshot, Proceed

LEMMA SnapshotKeeps ==
    ASSUME IInv, NEW h \in Heights, Snapshot(h)
    PROVE  IInv'
<1>1. DiskInv'
  BY BeginCreateKeeps, CheckLatestKeeps, NextChunkKeeps, FinishChunkKeeps, CloseWriterKeeps,
     WriterFailsKeeps, SaveFailsKeeps, saveSnapshotKeeps, EndCreateKeeps, BeginPruneKeeps,
     DeleteMetadataKeeps, DeleteFilesKeeps, RemoveDirKeeps, PruneFailsKeeps, EndPruneKeeps
  DEF IInv, Snapshot, Proceed
<1>2. UNCHANGED restore
  BY SnapshotFrame
<1>3. operation' = "restore" <=> operation = "restore"
  BY Zenon DEF IInv, DiskInv, AdmittedInv, Creating, beginLocked,
         Snapshot, Proceed, BeginCreate, CheckLatest, NextChunk, FinishChunk, CloseWriter,
         WriterFails, SaveFails, saveSnapshot, EndCreate, BeginPrune, DeleteMetadata,
         DeleteFiles, RemoveDir, PruneFails, EndPrune
<1>4. RestoreInv'
  BY <1>2, <1>3, RestoreInvStable DEF IInv
<1> QED
  BY <1>1, <1>4 DEF IInv

\* The steps of a restore, all of them.
RestoreStep ==
    \/ \E n \in 1 .. MaxOffered : Restore(n)
    \/ \E c \in 1 .. MaxOffered : RestoreChunk(c)
    \/ SendChunk \/ AwaitDone \/ restoreSnapshot

LEMMA RestoreFrame == ASSUME RestoreStep PROVE UNCHANGED <<disk, height, pc, pruning, lost>>
<1>1. CASE (\E n \in 1 .. MaxOffered : Restore(n)) \/ (\E c \in 1 .. MaxOffered : RestoreChunk(c))
  BY <1>1, Zenon DEF Restore, RestoreChunk
<1>2. CASE SendChunk \/ AwaitDone
  BY <1>2, Zenon DEF SendChunk, AwaitDone
<1>3. CASE restoreSnapshot
  BY <1>3, Zenon DEF restoreSnapshot, ReadHeader, ParseHeader, ReadChunk, ReadFails, ReadEnds, Drain
<1> QED
  BY <1>1, <1>2, <1>3, Zenon DEF RestoreStep

LEMMA RestoreStepKeeps == ASSUME IInv, RestoreStep PROVE IInv'
<1>1. RestoreInv'
  BY RestoreKeeps, RestoreChunkKeeps, SendChunkKeeps, AwaitDoneKeeps, ReadHeaderKeeps,
     ParseHeaderKeeps, ReadChunkKeeps, ReadFailsKeeps, ReadEndsKeeps, DrainKeeps
  DEF IInv, RestoreStep, restoreSnapshot
<1>2. UNCHANGED <<disk, height, pc, pruning, lost>>
  BY RestoreFrame
<1>3. operation' = operation \/ {operation, operation'} = {"none", "restore"}
  BY Zenon DEF IInv, RestoreInv, IdleInv, endRestoreLocked,
         RestoreStep, restoreSnapshot, Restore, RestoreChunk, SendChunk, AwaitDone,
         ReadHeader, ParseHeader, ReadChunk, ReadFails, ReadEnds, Drain
<1>4. DiskInv'
  BY <1>2, <1>3, DiskInvStable DEF IInv
<1> QED
  BY <1>1, <1>4 DEF IInv

LEMMA NextIInv == IInv /\ [Next]_vars => IInv'
<1> SUFFICES ASSUME IInv, [Next]_vars PROVE IInv'
  OBVIOUS
<1>1. CASE Commit
  <2>1. DiskInv'
    BY <1>1, CommitKeeps DEF IInv
  <2>2. RestoreInv'
    BY <1>1, RestoreInvStable DEF IInv, Commit
  <2> QED
    BY <2>1, <2>2 DEF IInv
<1>2. CASE \E h \in Heights : Snapshot(h)
  BY <1>2, SnapshotKeeps
<1>3. CASE RestoreStep
  BY <1>3, RestoreStepKeeps
<1>4. CASE Crash
  BY <1>4, CrashKeeps
<1>5. CASE UNCHANGED vars
  <2>1. DiskInv'
    BY <1>5, DiskInvStable DEF IInv, vars
  <2>2. RestoreInv'
    BY <1>5, RestoreInvStable DEF IInv, vars
  <2> QED
    BY <2>1, <2>2 DEF IInv
<1> QED
  BY <1>1, <1>2, <1>3, <1>4, <1>5 DEF Next, RestoreStep

-----------------------------------------------------------------------------
(* The theorems.                                                           *)

\* The inductive invariant holds in every reachable state.
THEOREM SnapshotInvariance == Spec => []IInv
  BY InitIInv, NextIInv, PTL DEF Spec

\* The types: in particular the channel of a restore is never over-full, and no
\* more chunks are taken than were offered.
THEOREM SnapshotTypeCorrect == Spec => []TypeOK
<1>1. IInv => TypeOK
  BY DEF IInv, DiskInv, DiskType, RestoreInv, RestoreType, TypeOK
<1> QED
  BY <1>1, SnapshotInvariance, PTL

\* A listed snapshot is whole, through failures, prunings and crashes.
THEOREM ListedStaysWhole == Spec => []ListedIsWhole
<1>1. IInv => ListedIsWhole
  BY DEF IInv, DiskInv
<1> QED
  BY <1>1, SnapshotInvariance, PTL

\* Files without metadata come from a save or delete that is running or was cut
\* short.
THEOREM NothingLeftOver == Spec => []LeftoversExplained
<1>1. IInv => LeftoversExplained
  BY DEF IInv, DiskInv
<1> QED
  BY <1>1, SnapshotInvariance, PTL

\* At most one operation is in progress, and it is the one on record.
THEOREM OneAtATime == Spec => []OneOperation
<1>1. IInv => OneOperation
  <2> SUFFICES ASSUME IInv PROVE OneOperation
    OBVIOUS
  <2> DEFINE work == {h \in Heights : pc[h] \in Creating} \cup {h \in Heights : pc[h] = "delete"}
  <2>1. \A g, h \in work : g = h
    BY DEF IInv, DiskInv, AdmittedInv, Busy, Creating
  <2>2. work = {} \/ \E h : work = {h}
    <3> HIDE DEF work
    <3>1. ASSUME NEW h \in work PROVE work = {h}
      BY <2>1
    <3> QED
      BY <3>1
  <2>3. Cardinality(work) \in {0, 1} /\ (work = {} => Cardinality(work) = 0)
    <3> HIDE DEF work
    <3>1. work = {} => Cardinality(work) = 0
      BY FS_EmptySet
    <3>2. \A h : work = {h} => Cardinality(work) = 1
      BY FS_Singleton
    <3> QED
      BY <2>2, <3>1, <3>2
  <2>4. reader # "none" => work = {}
    BY DEF IInv, DiskInv, AdmittedInv, RestoreInv, OkInv, Creating
  <2>5. Cardinality(work) + (IF reader = "none" THEN 0 ELSE 1) <= 1
    BY <2>3, <2>4
  <2> HIDE DEF work
  <2>6. /\ \A h \in Heights : pc[h] \in Creating => operation = "snapshot"
        /\ \A h \in Heights : pc[h] = "delete" => operation = "prune"
        /\ reader # "none" => operation = "restore"
    BY DEF IInv, DiskInv, AdmittedInv, RestoreInv, OkInv
  <2> QED
    BY <2>5, <2>6 DEF OneOperation, work, Creating
<1> QED
  BY <1>1, SnapshotInvariance, PTL

\* How a step may change the list of snapshots: it adds a height whose Save is
\* complete, deletes what Prune has chosen, or leaves the list alone.
LEMMA ListChanges ==
    ASSUME IInv, [Next]_vars
    PROVE  \/ \E h \in Heights : saveSnapshot(h)
           \/ \E h \in Heights : DeleteMetadata(h)
           \/ UNCHANGED snapshots
<1>1. CASE Commit \/ Crash \/ UNCHANGED vars
  BY <1>1, Zenon DEF Commit, Crash, vars, disk
<1>2. CASE RestoreStep
  BY <1>2, RestoreFrame, Zenon DEF disk
<1>3. ASSUME NEW h \in Heights, Snapshot(h)
      PROVE  saveSnapshot(h) \/ DeleteMetadata(h) \/ UNCHANGED snapshots
  <2>1. CASE BeginCreate(h) \/ CheckLatest(h) \/ NextChunk(h) \/ FinishChunk(h) \/ CloseWriter(h)
    BY <2>1, Zenon DEF BeginCreate, CheckLatest, NextChunk, FinishChunk, CloseWriter, disk
  <2>2. CASE WriterFails(h) \/ SaveFails(h) \/ EndCreate(h) \/ BeginPrune(h)
    BY <2>2, Zenon DEF WriterFails, SaveFails, EndCreate, BeginPrune, disk
  <2>3. CASE DeleteFiles(h) \/ RemoveDir(h) \/ PruneFails(h) \/ EndPrune(h)
    BY <2>3, Zenon DEF DeleteFiles, RemoveDir, PruneFails, EndPrune, disk
  <2> QED
    BY <1>3, <2>1, <2>2, <2>3, Zenon DEF Snapshot, Proceed
<1> QED
  BY <1>1, <1>2, <1>3, Zenon DEF Next, RestoreStep

\* A snapshot that becomes listed is the newest, although Create looked for a
\* newer one long before.
THEOREM OnlyNewest == Spec => NewestOnly
<1>1. IInv /\ [Next]_vars => [\A h \in DOMAIN snapshots' \ Listed : \A g \in Listed : g < h]_vars
  <2> SUFFICES ASSUME IInv, [Next]_vars, NEW k \in DOMAIN snapshots' \ Listed, NEW g \in Listed
               PROVE  g < k
    OBVIOUS
  <2>1. PICK h \in Heights : saveSnapshot(h)
    BY ListChanges, Zenon DEF DeleteMetadata, Without, Listed
  <2>2. k = h /\ pc[h] = "record"
    BY <2>1 DEF saveSnapshot, Listed
  <2> QED
    BY <2>2 DEF IInv, DiskInv, SavingInv
<1> QED
  BY <1>1, SnapshotInvariance, PTL DEF Spec, NewestOnly

\* Prune deletes none of the KeepRecent newest snapshots, though it deletes them
\* one by one after it has chosen them.
THEOREM RecentRetained == Spec => RetainsRecent
<1>1. IInv /\ [Next]_vars =>
        [\A h \in Listed \ DOMAIN snapshots' : Cardinality({g \in Listed : g > h}) >= KeepRecent]_vars
  <2> SUFFICES ASSUME IInv, [Next]_vars, NEW k \in Listed \ DOMAIN snapshots'
               PROVE  Cardinality({g \in Listed : g > k}) >= KeepRecent
    OBVIOUS
  <2>1. PICK h \in Heights : DeleteMetadata(h)
    <3>1. \A h \in Heights : saveSnapshot(h) => Listed \subseteq DOMAIN snapshots'
      BY DEF saveSnapshot, Listed
    <3>2. snapshots' # snapshots
      BY DEF Listed
    <3> QED
      BY <3>1, <3>2, ListChanges, Zenon
  <2>2. k \in victims
    BY <2>1 DEF DeleteMetadata, Without, Listed
  <2> QED
    BY <2>2 DEF IInv, DiskInv, PruneInv
<1> QED
  BY <1>1, SnapshotInvariance, PTL DEF Spec, RetainsRecent

\* A restore that is reported complete has taken every chunk of the offer; the
\* goroutine has read them from the first one on, once and in order, to the end of the
\* stream, and has left none in the channel.
THEOREM CompleteIsRestored == Spec => CompleteMeansRestored
<1> DEFINE Restored == /\ index = chunks /\ chRestore = <<>> /\ result = "ok"
                       /\ consumed # <<>> /\ consumed = [i \in 1 .. Len(consumed) |-> i]
<1>1. IInv /\ [Next]_vars => [reply # "complete" /\ reply' = "complete" => Restored]_vars
  <2> SUFFICES ASSUME IInv, [Next]_vars, reply # "complete", reply' = "complete"
               PROVE  Restored
    OBVIOUS
  <2>1. AwaitDone
    <3>1. ~UNCHANGED restore
      BY Zenon DEF restore
    <3>2. ~Commit /\ ~Crash /\ ~UNCHANGED vars /\ ~\E h \in Heights : Snapshot(h)
      BY <3>1, SnapshotFrame, Zenon DEF Commit, Crash, vars, restore
    <3>3. ~(\E n \in 1 .. MaxOffered : Restore(n)) /\ ~(\E c \in 1 .. MaxOffered : RestoreChunk(c))
      BY DEF Restore, RestoreChunk
    <3>4. ~SendChunk /\ ~restoreSnapshot
      BY DEF SendChunk, restoreSnapshot, ReadHeader, ParseHeader, ReadChunk, ReadFails, ReadEnds, Drain
    <3> QED
      BY <3>2, <3>3, <3>4, Zenon DEF Next
  <2>2. chDone = "ok" /\ caller = "wait"
    BY <2>1 DEF AwaitDone
  <2>3. index = chunks /\ chRestore = <<>> /\ result = "ok"
    BY <2>2 DEF IInv, RestoreInv, SendInv, OkInv
  <2>4. consumed \in Seq(1 .. MaxOffered) /\ Len(consumed) > 0
        /\ \A i \in 1 .. Len(consumed) : consumed[i] = i
    BY <2>3 DEF IInv, RestoreInv, RestoreType, OkInv
  <2>5. consumed # <<>> /\ consumed = [i \in 1 .. Len(consumed) |-> i]
    BY <2>4
  <2> QED
    BY <2>3, <2>5
<1> QED
  BY <1>1, SnapshotInvariance, PTL DEF Spec, CompleteMeansRestored

=============================================================================
