---- MODULE SnapshotManager ----
(***************************************************************************)
(* The state-sync snapshots of a node (src/snapshots).  Every snapshot      *)
(* interval BaseApp.Commit starts a goroutine that creates a snapshot and   *)
(* then prunes old ones; Ostracon restores a snapshot by offering it and    *)
(* handing over its chunks one by one, and a goroutine of the manager reads *)
(* them from a bounded channel.  The manager admits one operation at a time *)
(* under its mutex.  The process may crash between any two writes to disk.  *)
(*                                                                          *)
(* One format per height (types.CurrentFormat).  A chunk is its index; what *)
(* it holds is abstracted to whether reading it succeeds.                   *)
(***************************************************************************)
EXTENDS Naturals, Sequences, FiniteSets

CONSTANTS
    MaxHeight,    \* bound: the number of snapshot heights that are committed
    Old,          \* the number of snapshots on disk when the process starts
    KeepRecent,   \* app.snapshotKeepRecent
    MaxChunks,    \* bound: chunks of a snapshot this node creates
    MaxOffered,   \* bound: chunks of a snapshot offered to this node
    ChunkBuffer   \* chunkBufferSize

ASSUME SnapshotAssumption ==
    /\ MaxHeight \in Nat \ {0}
    /\ Old \in 0 .. MaxHeight
    /\ KeepRecent \in Nat \ {0}
    /\ MaxChunks \in Nat \ {0}
    /\ MaxOffered \in Nat \ {0}
    /\ ChunkBuffer \in Nat \ {0}

\* Snapshot heights are numbered 1, 2, ... in units of the snapshot interval.
Heights == 1 .. MaxHeight

VARIABLES
    snapshots,    \* Store.db: listed height -> Snapshot.Chunks
    files,        \* chunk files of a height, each "partial" or "whole"
    dirs,         \* heights that have a directory
    operation,    \* Manager.operation
    height,       \* the last snapshot height committed
    pc,           \* the goroutine running BaseApp.snapshot(h)
    victims,      \* Prune: what its iterator still has to delete
    victim,       \* Prune: the height whose files are to be removed, 0 if none
    pruned,       \* Prune: prunedHeights whose directory is still there
    chunks,       \* len(restoreChunkHashes)
    index,        \* restoreChunkIndex
    chRestore,    \* the buffered chunks
    closed,       \* chRestore has been closed
    chDone,       \* what chRestoreDone holds
    caller,       \* where RestoreChunk stands while it holds the mutex
    chunk,        \* the chunk RestoreChunk is sending
    reader,       \* where the goroutine running restoreSnapshot stands
    result,       \* what restoreSnapshot will return
    consumed,     \* history: the chunks the goroutine has read
    reply,        \* history: what the last RestoreChunk answered
    lost          \* history: heights whose save or delete was cut short

disk == <<snapshots, files, dirs>>
pruning == <<victims, victim, pruned>>
feed == <<chunks, index, chRestore, closed, chDone, caller, chunk>>
restore == <<feed, reader, result, consumed, reply>>
vars == <<disk, operation, height, pc, pruning, restore, lost>>

Listed == DOMAIN snapshots

\* Delete of one key of the snapshot database.
Without(f, h) == [g \in DOMAIN f \ {h} |-> f[g]]

\* m.mtx is held across steps by RestoreChunk only.
Unlocked == caller = "idle"

\* How BaseApp.snapshot(h) goes on to its next step.
Goto(h, l) == pc' = [pc EXCEPT ![h] = l]

-----------------------------------------------------------------------------
(* Operations of the manager. *)

Init ==
    /\ snapshots = [h \in 1 .. Old |-> 1]
    /\ files = [h \in Heights |-> IF h <= Old THEN <<"whole">> ELSE <<>>]
    /\ dirs = 1 .. Old
    /\ operation = "none"
    /\ height = Old
    /\ pc = [h \in Heights |-> IF h <= Old THEN "over" ELSE "none"]
    /\ victims = {} /\ victim = 0 /\ pruned = {}
    /\ chunks = 0 /\ index = 0 /\ chRestore = <<>> /\ closed = FALSE
    /\ chDone = "empty" /\ caller = "idle" /\ chunk = 0
    /\ reader = "none" /\ result = "none" /\ consumed = <<>> /\ reply = "none"
    /\ lost = {}

\* mutation: an operation begins while another is in progress
beginLockedAlways(op, h, admitted, refused) ==
    /\ operation' = op
    /\ Goto(h, admitted)

beginLocked(op, h, admitted, refused) ==
    \/ /\ operation = "none"
       /\ operation' = op
       /\ Goto(h, admitted)
    \/ /\ operation # "none"
       /\ Goto(h, refused)
       /\ UNCHANGED operation

\* endLocked on the fields of a restore; chRestore is closed and dropped.
endRestoreLocked ==
    /\ operation' = "none"
    /\ chunks' = 0 /\ index' = 0 /\ chRestore' = <<>> /\ closed' = FALSE
    /\ chDone' = "empty" /\ chunk' = 0 /\ result' = "none" /\ consumed' = <<>>

-----------------------------------------------------------------------------
(* BaseApp.snapshot(h): Create, then Prune. *)

\* The end of Commit at a snapshot height.
Commit ==
    /\ height < MaxHeight
    /\ height' = height + 1
    /\ Goto(height + 1, "begin")
    /\ UNCHANGED <<disk, operation, pruning, restore, lost>>

BeginCreate(h) ==
    /\ pc[h] = "begin" /\ Unlocked
    /\ beginLocked("snapshot", h, "latest", "over")
    /\ UNCHANGED <<disk, height, pruning, restore, lost>>

\* mutation: an older height may be snapshot after a newer one
CheckLatestAlways(h) ==
    /\ pc[h] = "latest"
    /\ Goto(h, "save")
    /\ UNCHANGED <<disk, operation, height, pruning, restore, lost>>

\* Create refuses a height below the latest snapshot, else starts the writer.
CheckLatest(h) ==
    /\ pc[h] = "latest"
    /\ Goto(h, IF \E g \in Listed : g >= h THEN "failed" ELSE "save")
    /\ UNCHANGED <<disk, operation, height, pruning, restore, lost>>

ChunkOpen(h) == files[h] # <<>> /\ files[h][Len(files[h])] = "partial"

\* The writer sends a new chunk; Save creates its file.
NextChunk(h) ==
    /\ pc[h] = "save" /\ ~ChunkOpen(h) /\ Len(files[h]) < MaxChunks
    /\ files' = [files EXCEPT ![h] = Append(@, "partial")]
    /\ dirs' = dirs \cup {h}
    /\ UNCHANGED <<snapshots, operation, height, pc, pruning, restore, lost>>

\* The writer closes the pipe of the chunk; Save closes the file.
FinishChunk(h) ==
    /\ pc[h] = "save" /\ ChunkOpen(h)
    /\ files' = [files EXCEPT ![h][Len(files[h])] = "whole"]
    /\ UNCHANGED <<snapshots, dirs, operation, height, pc, pruning, restore, lost>>

\* mutation: the writer is not closed after the last item
CloseWriterNot(h) ==
    /\ pc[h] = "save" /\ Len(files[h]) > MaxChunks
    /\ Goto(h, "record")
    /\ UNCHANGED <<disk, operation, height, pruning, restore, lost>>

\* The writer is done: the closing flush always writes a chunk.
CloseWriter(h) ==
    /\ pc[h] = "save" /\ files[h] # <<>> /\ ~ChunkOpen(h)
    /\ Goto(h, "record")
    /\ UNCHANGED <<disk, operation, height, pruning, restore, lost>>

\* mutation: the error of the writer does not reach Save
WriterFailsSilently(h) ==
    /\ pc[h] = "save"
    /\ files[h] = <<>> \/ ChunkOpen(h)
    /\ Goto(h, "record")
    /\ UNCHANGED <<disk, operation, height, pruning, restore, lost>>

\* multistore.Snapshot or an extension fails.  CloseWithError closes the channel
\* and hands the error to the pipe of the open chunk; before the first chunk
\* there is no pipe, and Save sees the plain end of the channel.
WriterFails(h) ==
    /\ pc[h] = "save"
    /\ \/ files[h] = <<>> /\ Goto(h, "record") /\ UNCHANGED lost
       \/ ChunkOpen(h) /\ Goto(h, "failed") /\ lost' = lost \cup {h}
    /\ UNCHANGED <<disk, operation, height, pruning, restore>>

\* A file operation of Save, or the write of the metadata, fails.
SaveFails(h) ==
    /\ pc[h] \in {"save", "record"}
    /\ Goto(h, "failed")
    /\ lost' = lost \cup {h}
    /\ UNCHANGED <<disk, operation, height, pruning, restore>>

saveSnapshot(h) ==
    /\ pc[h] = "record"
    /\ snapshots' = [g \in Listed \cup {h} |->
                        IF g = h THEN Len(files[h]) ELSE snapshots[g]]
    /\ Goto(h, "saved")
    /\ UNCHANGED <<files, dirs, operation, height, pruning, restore, lost>>

\* The deferred end of Create; the goroutine goes on to Prune after a success.
EndCreate(h) ==
    /\ pc[h] \in {"saved", "failed"} /\ Unlocked
    /\ operation' = "none"
    /\ Goto(h, IF pc[h] = "saved" THEN "prune" ELSE "over")
    /\ UNCHANGED <<disk, height, pruning, restore, lost>>

\* mutation: one height too few is retained
ToPruneOneMore ==
    {g \in Listed : Cardinality({k \in Listed : k > g}) >= KeepRecent - 1}

\* What Prune deletes: its iterator skips the newest heights.
ToPrune == {g \in Listed : Cardinality({k \in Listed : k > g}) >= KeepRecent}

BeginPrune(h) ==
    /\ pc[h] = "prune" /\ Unlocked
    /\ beginLocked("prune", h, "delete", "over")
    /\ victims' = (IF operation = "none" THEN ToPrune ELSE victims)
    /\ UNCHANGED <<disk, height, victim, pruned, restore, lost>>

\* Delete, first half: the metadata of the newest height left to delete.
DeleteMetadata(h) ==
    /\ pc[h] = "delete" /\ victim = 0
    /\ \E g \in victims :
          /\ \A k \in victims : k <= g
          /\ snapshots' = Without(snapshots, g)
          /\ victim' = g
          /\ victims' = victims \ {g}
    /\ UNCHANGED <<files, dirs, operation, height, pc, pruned, restore, lost>>

\* mutation: only the metadata are deleted
DeleteFilesNot(h) ==
    /\ pc[h] = "delete" /\ victim # 0
    /\ pruned' = pruned \cup {victim}
    /\ victim' = 0
    /\ UNCHANGED <<disk, operation, height, pc, victims, restore, lost>>

\* Delete, second half: os.RemoveAll of the chunk files.
DeleteFiles(h) ==
    /\ pc[h] = "delete" /\ victim # 0
    /\ files' = [files EXCEPT ![victim] = <<>>]
    /\ pruned' = pruned \cup {victim}
    /\ victim' = 0
    /\ UNCHANGED <<snapshots, dirs, operation, height, pc, victims, restore, lost>>

\* os.Remove of a height directory, in the order of the Go map; Prune returns at
\* the first one that is missing, which is that of a snapshot without chunks.
RemoveDir(h) ==
    /\ pc[h] = "delete" /\ victims = {} /\ victim = 0
    /\ \E g \in pruned :
          /\ dirs' = dirs \ {g}
          /\ pruned' = (IF g \in dirs THEN pruned \ {g} ELSE {})
    /\ UNCHANGED <<snapshots, files, operation, height, pc, victims, victim, restore, lost>>

\* A write of Prune fails, and Prune returns.
PruneFails(h) ==
    /\ pc[h] = "delete" /\ (victims # {} \/ victim # 0 \/ pruned # {})
    /\ victims' = {} /\ victim' = 0 /\ pruned' = {}
    /\ lost' = (IF victim = 0 THEN lost ELSE lost \cup {victim})
    /\ UNCHANGED <<disk, operation, height, pc, restore>>

EndPrune(h) ==
    /\ pc[h] = "delete" /\ victims = {} /\ victim = 0 /\ pruned = {} /\ Unlocked
    /\ operation' = "none"
    /\ Goto(h, "over")
    /\ UNCHANGED <<disk, height, pruning, restore, lost>>

-----------------------------------------------------------------------------
(* Restore, RestoreChunk and the goroutine that reads the chunks. *)

\* OfferSnapshot: Restore of a snapshot of n chunks starts the goroutine.
Restore(n) ==
    /\ Unlocked /\ operation = "none"
    /\ operation' = "restore"
    /\ chunks' = n
    /\ reader' = "header" /\ reply' = "none"
    /\ UNCHANGED <<disk, height, pc, pruning, result, consumed, index, chRestore, closed, chDone, caller, chunk, lost>>

\* mutation: the hash of the chunk is not verified
RestoreChunkUnverified(c) ==
    /\ Unlocked /\ operation = "restore"
    /\ \/ /\ chDone # "empty"
          /\ endRestoreLocked
          /\ reply' = "error"
          /\ UNCHANGED caller
       \/ /\ chDone = "empty"
          /\ caller' = "send" /\ chunk' = c
          /\ UNCHANGED <<operation, chunks, index, chRestore, closed, chDone, result,
                         consumed, reply>>
    /\ UNCHANGED <<disk, height, pc, pruning, reader, lost>>

\* RestoreChunk of chunk c up to the send.  It first looks whether the goroutine
\* has already ended, then verifies the hash; a wrong chunk may be sent again.
RestoreChunk(c) ==
    /\ Unlocked /\ operation = "restore"
    /\ \/ /\ chDone # "empty"
          /\ endRestoreLocked
          /\ reply' = "error"
          /\ UNCHANGED caller
       \/ /\ chDone = "empty" /\ c # index + 1
          /\ reply' = "error"
          /\ UNCHANGED <<operation, feed, result, consumed>>
       \/ /\ chDone = "empty" /\ c = index + 1
          /\ caller' = "send" /\ chunk' = c
          /\ UNCHANGED <<operation, chunks, index, chRestore, closed, chDone, result,
                         consumed, reply>>
    /\ UNCHANGED <<disk, height, pc, pruning, reader, lost>>

\* mutation: the send does not wait for room in the buffer
SendChunkUnbounded ==
    /\ caller = "send"
    /\ chRestore' = Append(chRestore, chunk)
    /\ index' = index + 1
    /\ chunk' = 0 /\ caller' = "idle"
    /\ UNCHANGED <<disk, operation, height, pc, pruning, chunks, closed, chDone,
                   reader, result, consumed, reply, lost>>

\* The send on chRestore, which waits for room; the last one closes the channel.
SendChunk ==
    /\ caller = "send" /\ Len(chRestore) < ChunkBuffer
    /\ chRestore' = Append(chRestore, chunk)
    /\ index' = index + 1
    /\ chunk' = 0
    /\ \/ /\ index + 1 < chunks
          /\ caller' = "idle" /\ reply' = "none"
          /\ UNCHANGED closed
       \/ /\ index + 1 >= chunks
          /\ caller' = "wait" /\ closed' = TRUE
          /\ UNCHANGED reply
    /\ UNCHANGED <<disk, operation, height, pc, pruning, chunks, chDone,
                   reader, result, consumed, lost>>

\* After the last chunk RestoreChunk waits for the goroutine.
AwaitDone ==
    /\ caller = "wait" /\ chDone # "empty"
    /\ reply' = (IF chDone = "ok" THEN "complete" ELSE "error")
    /\ caller' = "idle"
    /\ endRestoreLocked
    /\ UNCHANGED <<disk, height, pc, pruning, reader, lost>>

\* The goroutine takes the next chunk from the channel.
Receive ==
    /\ chRestore # <<>>
    /\ chRestore' = Tail(chRestore)
    /\ consumed' = Append(consumed, Head(chRestore))

\* NewStreamReader reads the start of the first chunk...
ReadHeader ==
    /\ reader = "header"
    /\ Receive
    /\ reader' = "parse"
    /\ UNCHANGED <<disk, operation, height, pc, pruning, chunks, index, closed, chDone,
                   caller, chunk, result, reply, lost>>

\* ...and fails, without closing the chunk reader, if that is no zlib stream.
ParseHeader ==
    /\ reader = "parse"
    /\ \/ reader' = "read" /\ UNCHANGED chDone
       \/ reader' = "none" /\ chDone' = "error"
    /\ UNCHANGED <<disk, operation, height, pc, pruning, chunks, index, chRestore, closed,
                   caller, chunk, result, consumed, reply, lost>>

\* multistore.Restore and the extensions read on...
ReadChunk ==
    /\ reader = "read"
    /\ Receive
    /\ UNCHANGED <<disk, operation, height, pc, pruning, chunks, index, closed, chDone,
                   caller, chunk, reader, result, reply, lost>>

\* ...until they fail...
ReadFails ==
    /\ reader = "read"
    /\ reader' = "drain" /\ result' = "error"
    /\ UNCHANGED <<disk, operation, height, pc, pruning, feed, consumed, reply, lost>>

\* ...or find the end of the stream.  The stream ends where the node that made the
\* snapshot ended it: in the last chunk, or in an earlier one.
ReadEnds ==
    /\ reader = "read"
    /\ reader' = "drain" /\ result' = "ok"
    /\ UNCHANGED <<disk, operation, height, pc, pruning, feed, consumed, reply, lost>>

\* mutation: after a failure the chunks that were not read stay in the channel
DrainOnSuccess ==
    /\ reader = "drain"
    /\ \/ /\ chRestore # <<>> /\ result = "ok"
          /\ chRestore' = Tail(chRestore)
          /\ UNCHANGED <<chDone, reader>>
       \/ /\ (chRestore = <<>> /\ closed) \/ result = "error"
          /\ chDone' = result /\ reader' = "none"
          /\ UNCHANGED chRestore
    /\ UNCHANGED <<disk, operation, height, pc, pruning, chunks, index, closed, caller, chunk,
                   result, consumed, reply, lost>>

\* The deferred streamReader.Close drops the chunks that were not read, until the
\* channel is closed; then the goroutine sends what restoreSnapshot returned.
Drain ==
    /\ reader = "drain"
    /\ \/ /\ chRestore # <<>>
          /\ chRestore' = Tail(chRestore)
          /\ UNCHANGED <<chDone, reader>>
       \/ /\ chRestore = <<>> /\ closed
          /\ chDone' = result /\ reader' = "none"
          /\ UNCHANGED chRestore
    /\ UNCHANGED <<disk, operation, height, pc, pruning, chunks, index, closed, caller, chunk,
                   result, consumed, reply, lost>>

-----------------------------------------------------------------------------
(* The process dies and is started again: only the disk remains. *)

Crash ==
    /\ operation' = "none"
    /\ pc' = [h \in Heights |-> IF pc[h] = "none" THEN "none" ELSE "over"]
    /\ victims' = {} /\ victim' = 0 /\ pruned' = {}
    /\ chunks' = 0 /\ index' = 0 /\ chRestore' = <<>> /\ closed' = FALSE
    /\ chDone' = "empty" /\ caller' = "idle" /\ chunk' = 0
    /\ reader' = "none" /\ result' = "none" /\ consumed' = <<>> /\ reply' = "none"
    /\ lost' = lost \cup {h \in Heights : pc[h] \in {"save", "record"}}
                    \cup ({victim} \ {0})
    /\ UNCHANGED <<disk, height>>

-----------------------------------------------------------------------------

\* BaseApp.snapshot(h) as long as nothing fails, and with failures.
Proceed(h) ==
    \/ BeginCreate(h) \/ CheckLatest(h)
    \/ NextChunk(h) \/ FinishChunk(h) \/ CloseWriter(h) \/ saveSnapshot(h) \/ EndCreate(h)
    \/ BeginPrune(h) \/ DeleteMetadata(h) \/ DeleteFiles(h) \/ RemoveDir(h) \/ EndPrune(h)

Snapshot(h) == Proceed(h) \/ WriterFails(h) \/ SaveFails(h) \/ PruneFails(h)

\* The goroutine of a restore.
restoreSnapshot ==
    ReadHeader \/ ParseHeader \/ ReadChunk \/ ReadFails \/ ReadEnds \/ Drain

\* It need not wait for a chunk to come.
ReaderCanRun == reader = "parse" \/ chRestore # <<>> \/ closed

Next ==
    \/ Commit
    \/ \E h \in Heights : Snapshot(h)
    \/ \E n \in 1 .. MaxOffered : Restore(n)
    \/ \E c \in 1 .. MaxOffered : RestoreChunk(c)
    \/ SendChunk
    \/ AwaitDone
    \/ restoreSnapshot
    \/ Crash

Spec == Init /\ [][Next]_vars

\* A goroutine that can run is scheduled; one that waits for the mutex gets it (a Go
\* mutex hands itself over to a goroutine that has waited for a millisecond).  No
\* block, offer, chunk or crash need come.
FairSpec ==
    /\ Spec
    /\ \A h \in Heights : SF_vars(Proceed(h))
    /\ WF_vars(SendChunk) /\ WF_vars(AwaitDone)
    /\ WF_vars(ReaderCanRun /\ restoreSnapshot)

-----------------------------------------------------------------------------
(* Properties. *)

Labels == {"none", "begin", "latest", "save", "record", "saved", "failed", "prune",
           "delete", "over"}

\* The variables have their types: at most ChunkBuffer chunks are buffered, and a
\* restore never takes more chunks than were offered (manager.go, RestoreChunk).
TypeOK ==
    /\ Listed \subseteq Heights /\ \A h \in Listed : snapshots[h] \in 0 .. MaxChunks
    /\ \A h \in Heights : /\ files[h] \in Seq({"partial", "whole"})
                          /\ Len(files[h]) <= MaxChunks
    /\ dirs \subseteq Heights
    /\ operation \in {"none", "snapshot", "prune", "restore"}
    /\ height \in 0 .. MaxHeight
    /\ pc \in [Heights -> Labels]
    /\ victims \subseteq Heights /\ victim \in 0 .. MaxHeight /\ pruned \subseteq Heights
    /\ chunks \in 0 .. MaxOffered /\ index \in 0 .. chunks
    /\ chRestore \in Seq(1 .. MaxOffered) /\ Len(chRestore) <= ChunkBuffer
    /\ closed \in BOOLEAN
    /\ chDone \in {"empty", "ok", "error"}
    /\ caller \in {"idle", "send", "wait"} /\ chunk \in 0 .. MaxOffered
    /\ reader \in {"none", "header", "parse", "read", "drain"}
    /\ result \in {"none", "ok", "error"}
    /\ consumed \in Seq(1 .. MaxOffered)
    /\ reply \in {"none", "complete", "error"}
    /\ lost \subseteq Heights

\* A snapshot that List returns has all its chunk files, whole, at every instant and
\* after every crash: Save writes the metadata after the last chunk, and Delete
\* removes them before the first (store.go).
ListedIsWhole ==
    \A h \in Listed : /\ Len(files[h]) = snapshots[h]
                      /\ \A i \in DOMAIN files[h] : files[h][i] = "whole"

\* "Only one operation can be in progress at a time" (manager.go): of the creations,
\* prunings and the restore goroutine at most one runs, and it is the recorded one.
OneOperation ==
    LET creating == {h \in Heights : pc[h] \in {"latest", "save", "record", "saved", "failed"}}
        deleting == {h \in Heights : pc[h] = "delete"}
    IN  /\ Cardinality(creating \cup deleting) + (IF reader = "none" THEN 0 ELSE 1) <= 1
        /\ creating # {} => operation = "snapshot"
        /\ deleting # {} => operation = "prune"
        /\ reader # "none" => operation = "restore"

\* Files of a height that is not listed are those of a save or delete that is running
\* or was cut short by a failure or a crash: Prune leaves none behind (store.go).
LeftoversExplained ==
    \A h \in Heights \ Listed :
        files[h] # <<>> => h \in lost \/ victim = h \/ pc[h] \in {"save", "record"}

\* A step lists only a snapshot that is newer than all listed ones, although Create
\* looks at the latest one long before Save writes the metadata (manager.go).
NewestOnly ==
    [][\A h \in DOMAIN snapshots' \ Listed : \A g \in Listed : g < h]_vars

\* "The given number of most recent heights ... are retained" (store.go, Prune): no
\* step removes one of the KeepRecent newest snapshots of the list.
RetainsRecent ==
    [][\A h \in Listed \ DOMAIN snapshots' :
          Cardinality({g \in Listed : g > h}) >= KeepRecent]_vars

\* RestoreChunk answers that the restore is complete only if every chunk of the offer
\* was accepted in its place and has left the channel, and the goroutine has ended
\* without an error after it read the chunks from the first one on, each once and in
\* order.  The rest, behind the end of the stream, was dropped (manager.go, chunk.go).
CompleteMeansRestored ==
    [][reply # "complete" /\ reply' = "complete" =>
          /\ index = chunks /\ chRestore = <<>> /\ result = "ok"
          /\ consumed # <<>> /\ consumed = [i \in 1 .. Len(consumed) |-> i]]_vars

\* The goroutine of a restore has ended in NewStreamReader, which returns without
\* draining, and RestoreChunk waits with the mutex held for room in the channel.
Stalled ==
    /\ caller = "send" /\ Len(chRestore) = ChunkBuffer
    /\ reader = "none" /\ result = "none"

\* Every goroutine that creates a snapshot ends, unless a restore stalls: no operation
\* waits for another one but for the mutex, and only the restore whose reader is gone
\* keeps that (abci.go, snapshot; manager.go, RestoreChunk).
SnapshotsEnd == \A h \in Heights : (pc[h] # "none") ~> (pc[h] = "over" \/ Stalled)

\* A call of RestoreChunk returns, unless the restore stalls: as long as the goroutine
\* is there it makes room in the channel, and it ends once the last chunk is in, also
\* after a failure or an early end of the stream (chunk.go, Close).
RestoreChunkReturnsOrStalls == (caller # "idle") ~> (caller = "idle" \/ Stalled)

\* Every call of RestoreChunk returns: "Chunks must be given until the restore is
\* complete, returning true, or a chunk errors" (manager.go, RestoreChunk).
RestoreChunkReturns == (caller # "idle") ~> (caller = "idle")
====
