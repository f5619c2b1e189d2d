# A TLA+ verification of the LBM SDK

The LBM SDK is a Go framework for application-specific blockchains, a fork of
the Cosmos SDK that runs on the Ostracon consensus engine.  This directory holds
TLA+ modules that model its parts, TLC configurations that check them on small
instances, and theorems that TLAPS proves for every instance.

## 1. The system

Ostracon (external) drives one application process per node over ABCI.  It sends
transactions to be checked for the mempool, and for each block `BeginBlock`, a
`DeliverTx` per transaction, `EndBlock` and `Commit`.  The parts:

| part | state | operations | what is hard |
|---|---|---|---|
| `baseapp` CheckTx pipeline (`accountwgs.go`, `reactor.go`, `abci.go`, `baseapp.go`) | `chCheckTx`, the wait-group table, `checkState` | `CheckTxSync`, `CheckTxAsync`, the reactor, `BeginRecheckTx`, `EndRecheckTx` | many goroutines check transactions at once against one branched store; only requests with a common message signer are serialised |
| `baseapp` block lifecycle | `deliverState`, block gas meter, last height | `InitChain`, `BeginBlock`, `DeliverTx`, `EndBlock`, `Commit`, halt | partial effects of a failing transaction, block gas, retention height |
| `x/auth/ante` | accounts' sequences, fee balances | the decorator chain | sequence and fee effects survive a failing message |
| `store/rootmulti`, `store/iavl` | one IAVL tree per store, commit info, latest version, prune list | `Commit`, `LoadVersion`, pruning, rollback, snapshot, restore | a crash between the per-store commits and the metadata batch |
| `store/cachekv`, `store/cachemulti`, `store/cache` | branches and the inter-block cache | `Get`, `Set`, `Delete`, `Write`, iteration | fills of a cache racing with writes |
| `snapshots` | the manager's current operation, chunk channel, snapshot database and chunk files | `Create`, `Prune`, `Restore`, `RestoreChunk`; `Save`, `Delete`, `Prune`, `Load` | a restore goroutine fed through a bounded channel; failures half-way |
| `x/foundation` | members, foundation info, proposals, the voting-period-end queue, votes, grants, treasury | the Msg service, `EndBlocker`, `BeginBlocker`, gov handlers | versions, expiry and queues over long call sequences |
| `x/token`, `x/collection` | balances, supplies, permissions, ownership trees | Msg services | conservation over long call sequences |
| `x/upgrade`, `cosmovisor` | plan, done markers; the running binary | `BeginBlocker`; process manager | restart with the wrong binary |
| `x/capability` | in-memory and persistent capability maps | `NewCapability`, `ClaimCapability`, `ReleaseCapability` | Go-map state that does not roll back with a transaction |
| `x/authz`, `x/feegrant`, `x/bank`, `x/bankplus`, `x/gov`, `x/staking`, `x/stakingplus`, `x/slashing`, `x/distribution`, `x/evidence`, `x/mint`, `x/crisis`, `x/params`, `x/genutil` | module stores | keepers and Msg services | see `PROJECT.json` |
| `x/ibc` core | connection and channel ends, packet commitments, receipts, acknowledgements, light clients | the handshakes, `SendPacket`, `RecvPacket`, `AcknowledgePacket`, `TimeoutPacket`, `TimeoutOnClose` | two chains that see each other only through proofs of past states; anyone relays, late, twice or never |
| `x/ibc` transfer | balances, escrow accounts, denomination traces | `SendTransfer` and the three packet callbacks | backing of vouchers over several chains |
| `x/wasm` | contracts | handlers | an external machine |
| `client`, `server`, `codec`, `crypto`, `types`, `simapp`, `testutil` | none of their own, or I/O | command line, encoding, wiring | not state machines |

## 2. Plan

1. **CheckTx pipeline**: `AccountWGs` (the wait-group table), `CheckTx` (channel,
   reactor, ante steps on the shared check state, commits and rechecks), with
   `SerialCheckTx` as the abstract specification it implements.  Done.
2. **Foundation governance**: `Foundation`.  Done, without treasury and grants.
3. **Multistore commit and recovery**: `RootMulti`, against `AtomicStore`.  Done.
4. **Snapshots**: `SnapshotManager`.  Done.
5. **IBC**: `IBCPackets` (packets of one channel over light clients) against
   `PacketChannel`; `Transfer` on top of `PacketChannel`; `ConnectionHandshake` and,
   extending it, `ChannelHandshake`.  Done.
6. What would come next: the block lifecycle with the block gas meter and the
   inter-block cache; `SnapshotManager` composed with `RootMulti`; `x/upgrade` with
   `cosmovisor`; `x/capability`; foundation treasury and grants.
7. Proofs of the safety properties of every module (section 5).  Done.

The most important behaviour, transactions checked concurrently against shared
state, comes first.  Modules are written without `RECURSIVE` operators so that
theorems can be stated about them.

## 3. Modules

In all modules a definition marked "for mutation" or "mutation" is a plausible
mistake in the definition that follows it.  It is not part of the model; it is
there to see that a property notices the mistake.

### AccountWGs

Models `baseapp/accountwgs.go`.  A wait group is named by the request and the
account it was created for, `<<request, account>>`.  `wgs` is the Go map, `waits`
the wait groups `Register` returned, `zero` the wait groups whose counter
reached 0, and `stage` the position of the request between `Register`, `Wait` and
`Done`.  `ticket` and `clock` are history variables that record the order of the
`Register` calls.  `Register` and `Done` hold `mtx` for their whole body and are
one step each.

### CheckTx and SerialCheckTx

`CheckTx` models a request from its arrival to its answer; `pc[r]` is its position.

| `pc` | code |
|---|---|
| `idle` -> `queued` | `CheckTxAsync` puts the request into `chCheckTx` and starts `prepareCheckTx` |
| `queued` -> `registered` | the reactor takes the head of the channel, waits for its prepare wait group and calls `Register`, or answers with the error of `preCheckTx` |
| `idle` -> `registered` | `CheckTxSync` does `preCheckTx` and `Register` itself |
| `registered` -> `check` | `Wait` returns |
| `check` -> `fee` | `getCheckContextForTx` and `cacheTxContext` |
| `fee`, `collect`, `sig` | `DeductFeeDecorator` in two halves, then signatures and `IncrementSequenceDecorator` |
| `write` | `msCache.Write`, one key per step |
| `reply`, `done` -> `over` | the callback, then the deferred `Done`; for a sync request `Done`, then the answer |

The state consists of account sequences and balances.  `committed` is the
multistore, `check` the cache of the check state over it and `branch[r]` the
cache of one request over that.  A read fills the caches it goes through.
`Commit`, `BeginRecheckTx` and `Unlock` are the steps at a block.  The module
instantiates `AccountWGs`.

`SerialCheckTx` is the promise: requests are accepted or rejected one at a time,
each in one step.  The refinement mapping reads the check state; the values of a
request that is in the middle of `msCache.Write` are those of its branch.

Assumed of Ostracon (external): it commits a block and starts a recheck only
while no CheckTx request is unanswered, as the comment at
`baseapp/abci.go:279` says.  Abstracted: public keys are set already, there is no
fee granter, every fee is 1.

Two facts that no run is about.  `baseapp.go:383-384` says that the check state is
reset on Commit, but only `BeginRecheckTx` resets it.  The balance of the fee
collector is written by concurrent checks, although `cachekv/store.go:28` asks
for sequential writes per key; updates to it are lost in the check state, where
nothing reads it, and `SerialCheckTx` does not mention it.

### Foundation

Models the keeper of `x/foundation`.  Its store is the record `s`: members,
decision policy, version, total weight, proposals, the queue by the end of the
voting period, and votes.  Keeper functions are operators from store to store,
because executing a proposal calls others of them; each Msg handler and the end of
a block is an action.  A handler that returns an error is rolled back, so its
action is not enabled.

Three details of the code are kept as they are.  The result of `TotalWeight.Add`
is dropped (`UpdateMembers`).  The loop of `abortOldProposals` ends at the first
proposal whose version is not the one before the latest (`Reached`).  The queue's
values are empty and decode to a proposal of zero fields (`Decoded`), so the end
of a voting period tallies and prunes that one instead of those that are due.

Abstracted: a proposal has one message; the operator does not change; ratios are
exact and not rounded decimals; the minimum percentage of the configuration is
above 0 (0.8 by default).  With percentage 0 an early acceptance could be
overturned by abstentions.

### RootMulti and AtomicStore

Models `Commit`, `pruneStores`, `flushMetadata` and `LoadLatestVersion` of
`store/rootmulti`.  Each store's `SaveVersion`, each store's `DeleteVersions` and
the batch of metadata are writes of their own, in the order of the code and, within
a loop over the stores, in any order, since it is the order of a Go map.  `Crash`
may come between any two of them.  A tree is the set of the blocks whose writes it
has, which is what tells a lost or doubled block from a correct one.

`AtomicStore` is the promise: the state that a restart would find moves by whole
blocks, in all stores at once.

The pruning options are those that `PruningOptions.Validate` accepts.  Among them are
options that keep no recent height and prune at an interval, for which a crash
between pruning and the metadata loses the latest version; `KeepsLatest` tells them
from the others (sections 5 and 6).

Assumed: the first commit has happened; a write that returned survives the crash;
`DeleteVersions` of IAVL (external) is one batch per store, as
`store/iavl/store.go:198` says; Ostracon executes the block after the loaded
version again, with the same writes.

### SnapshotManager

Models `snapshots/` and the goroutine `BaseApp.snapshot`.

- *Creating and pruning.*  `pc[h]` is the position of the goroutine of height `h`:
  `begin`, `latest`, `save`, `record`, `saved` or `failed` in `Create`, then `prune`
  and `delete` in `Prune`, then `over`.  The writer and `Save` meet at each chunk
  over an unbuffered channel and a pipe, so one step of both is one action:
  `NextChunk` creates a file, `FinishChunk` completes it.  `WriterFails` has the two
  outcomes of `CloseWithError`: with an open chunk `Save` fails, before the first
  chunk it ends normally with no chunks.
- *Restoring.*  `chRestore` is the bounded channel, `caller` where `RestoreChunk`
  stands while it holds the mutex (`send`, `wait`), `reader` where the goroutine of
  `restoreSnapshot` stands.  `Drain` is the deferred `Close`, which reads on until
  the channel is closed; a failed `NewStreamReader` returns without it.
- *Crash* keeps the disk: metadata, chunk files, directories.

The stream of a snapshot may end in any chunk: `restoreSnapshot` returns at its end
(`ReadEnds`) and the deferred `Close` throws the remaining chunks away, after which
`RestoreChunk` returns true.  So "complete" means that every chunk was accepted in its
place and that the chunks up to the end of the stream were read in order and without
an error, which is what `CompleteMeansRestored` says.

Abstracted: the header of the stream is in the first chunk; one format; chunk data.

### IBCPackets and PacketChannel

`IBCPackets` models one channel between two chains: `packet.go`, `timeout.go` and the
closing half of `handshake.go` in `x/ibc/core/04-channel/keeper`, each handler as the
transaction of `msg_server.go` that runs it, and the light client under them.

- `store[c]` is what chain `c` can prove: the state of its channel end, commitments,
  receipts, acknowledgements, `nextSequenceRecv`.  The header of block `h` commits to
  the state after block `h - 1`; that state is `root[c][h]`.
- `client[c]` is the set of heights of the other chain whose headers `c` has stored.
  A proof is a look at `root` at one of them (`ProvenAt`), so a handler acts on
  a state of the other chain that may be long past.  Nothing restricts who relays
  what and when: a message lost, late, repeated or out of order is a behaviour of
  `Next`.
- `delivered` and `settled` record what the applications were told: the answer
  the receiver gave, and the outcome the sender learnt.
- An acknowledgement is written by the transaction that receives the packet, as
  `msg_server.go` does when the application returns one.

`PacketChannel` is what an application relies on: at-most-once delivery, one outcome
per packet, and the outcome that happened.  `ImplementsChannel` is the refinement;
its mapping is `delivered`, `settled` and `nextSequenceSend - 1`.

### Transfer

`x/ibc/applications/transfer` on several chains, with `PacketChannel` for the
channels.  A denomination is its path of channel identifiers, latest hop first.
`bank[z]` holds the accounts of chain `z` together, `escrow[e]` the escrow account of
channel end `e`, `traces[z]` the paths that `z` can resolve.  Each transfer moves one
unit.  `OnRecvPacket` has four outcomes, one action each: an error
acknowledgement that changes nothing, one that leaves the trace of a voucher whose
mint was refused, tokens out of escrow, or a new voucher.  The callback runs without a
cached context, so what precedes an error stays although the sender is refunded.
A panic aborts the transaction, so the packet stays to be delivered or to time out.
Transfer channels are UNORDERED and never closed (`ValidateTransferChannelParams`,
`OnChanCloseInit`).

### ConnectionHandshake and ChannelHandshake

The four handlers of `03-connection/keeper/handshake.go` and the six of
`04-channel/keeper/handshake.go`.  `pastConnection[c]` and `pastChannel[c]` hold every end
that chain `c` has ever stored, which is what can be proved of it.  Both chains may
begin, and `ConnOpenTry` is two actions, for a new end and for one the chain has
begun itself.  A version is its set of features, since the code knows one
identifier.  `ChannelHandshake` extends `ConnectionHandshake`: `ChanOpenInit` needs
no open connection, and the version it consults may still narrow.

With crossing hellos `ChanOpenAck` overwrites the counterparty that `ChanOpenTry` has
stored (`handshake.go:305-308`), so an end can be open to a peer that is open to
another end.  `ChannelsAgree` says what still holds of it; `IBCPackets` begins with
two ends that point at each other.

## 4. Runs

| run | instance | distinct states | properties | shows |
|---|---|---|---|---|
| `account_wgs` | 2 accounts, 4 requests | 9,433 | `MutualExclusion` `RegistrationOrder` `TableIsCurrent` `NoCircularWait` | requests with a common signer run one at a time, in the order of `Register`, and never wait in a circle |
| `check_tx` | 2 accounts, 3 requests, channel of 2 | 655k | `TypeOK` `ArrivalOrder` `AcceptedOnce` | async requests of one signer are checked in arrival order; no sequence number is accepted twice |
| `check_tx_blocks` | 2 accounts, 2 requests, channel of 1, 1 block | 160k | `FreshContext` `ImplementsSerial` `EveryRequestEnds` | the pipeline answers as a serial one, across a block and rechecks, and every request ends |
| `check_tx_payer` | any payer | violation | `AcceptedOnce` | see findings |
| `foundation` | 2 members, 1 joining, 2 proposals | 336k | `TypeOK` `QueueMatches` `VotesArePruned` `ExecutedOnce` | queue, votes and proposals agree; messages take effect at most once |
| `foundation_policy` | 2 policies, operator, withdrawal by proposal | 395k | `EarlyDecisionSound` `DecisionIsFinal` | an early decision is the final one |
| `rootmulti` | 3 stores, keep 2 recent and every 3rd, interval 2, versions 2 to 10 | 254 | `Recoverable` `RecentHeightsKept` `ReplayAgrees` `NothingLeaked` `ImplementsAtomic` | every crash is recovered from; pruning keeps what it must and forgets nothing |
| `snapshots` | 1 snapshot on disk, 2 created, 2 chunks each, keep 1; a restore of up to 3 chunks over a channel of 1 | 84,203 | `TypeOK` `ListedIsWhole` `OneOperation` `LeftoversExplained` `NewestOnly` `RetainsRecent` `CompleteMeansRestored` `SnapshotsEnd` `RestoreChunkReturnsOrStalls` | listed snapshots are whole after every crash; operations exclude each other; calls and goroutines end, but for the stall of the next row |
| `snapshots_stall` | a restore of up to 3 chunks | violation | `RestoreChunkReturns` | see findings |
| `ibc_packets` | 2 chains, 2 packets one way, 3 heights, timeouts by height and by time, either ordering | 61,957 | `NeverBoth` `DeliveredInOrder` `ImplementsChannel` `PacketsSettle` | no packet is both timed out and delivered; the keepers implement the abstract channel; packets are settled |
| `ibc_transfer` | 3 chains in a row, shared channel identifiers, 3 native tokens, 4 transfers | 14,315 | `SupplyConstant` `VouchersBacked` `TransfersSettle` | vouchers are backed, supplies constant, transfers end |
| `ibc_handshake` | 3 connection ends, 3 channel ends, versions that narrow or have nothing in common | 304,307 | `ConnectionsAgree` `ChannelsAgree` `ConfirmOpensBoth` | open ends agree on version and ordering after every crossing |

The type invariants of `AccountWGs`, `RootMulti`, `IBCPackets`, `Transfer` and
`ChannelHandshake` are in no run, since they are proved for all instances (section 5).

### Bounds

- *CheckTx.*  Two accounts make common and disjoint signer sets; three requests
  make a chain in which the first has called `Done` while two are in the table; four in
  `account_wgs` make two such chains.  Sequence numbers are 0 and 1, so transactions
  can follow, repeat or overtake each other; funds of 1 make the fee fail.  The
  channel is shorter than the number of requests, so it fills up.
- *Foundation.*  Two proposals let one change what the other depends on; version 2 is
  reached by a change of members or policy; `MCFoundationOld.cfg` has a third.
  Time goes past the end of the voting period and of the execution period.
- *RootMulti.*  Versions up to 10 cover each combination of the interval and
  `KeepEvery` at least once; the first version is 2, so the first heights to
  prune lie below it.  Stores are symmetric.
- *Snapshots.*  An old snapshot and two new ones let one `Prune` meet two heights to
  delete.  The channel has 1 slot where the code has 4.  A call can stall
  from two chunks more than slots on, so a restore has up to 3: `SnapshotsEnd` and
  `RestoreChunkReturnsOrStalls` are checked where the stall is reachable.
- *Packets.*  Two packets make order and gaps.  The receiving chain has blocks
  before and at each timeout; its last height stands for all later ones, with a
  root that is renewed.  The clocks of the chains differ.  Packets go one
  way: the two directions share only the state of the ends.
- *Transfer.*  Three chains let a voucher be sent on, returned in the wrong and in the
  right direction, and meet a channel with the identifier of another one.  Paths
  have at most two hops.
- *Handshakes.*  Two connection ends on one side and two channel ends on the other
  let a hello be answered twice, and cross with one that is begun here.

Deadlock checking is off where the system may simply stop: no more requests,
messages or blocks come.  It is on for `rootmulti`, where the process can always
crash or go on.

### Fairness

`EveryRequestEnds`: weak fairness of the reactor, of each `prepareCheckTx` and of
each request's check, since each is a goroutine that the Go scheduler runs when it
can.  The mempool need not send and no block need come.

`SnapshotsEnd`, `RestoreChunkReturnsOrStalls`, `RestoreChunkReturns`: strong fairness of a snapshot goroutine's own
steps, as it takes the manager's mutex, which Go hands to a goroutine that has
waited long enough; weak fairness of `RestoreChunk` past its checks and of the
restore goroutine while it has something to receive or to parse (`ReaderCanRun`).
Crashes, offers and chunks are not assumed to come, nor is any failure that would
have to come while the goroutine waits for a chunk.

`PacketsSettle`: weak fairness of the blocks of both chains and of relaying to each of
them headers, acknowledgements, timeouts and the last steps of the handshakes.
The packets themselves need not be relayed.  This is fairness of the
environment: the code leaves it to any one willing relayer.  `TransfersSettle`
assumes that outcomes reach the sender, which is what `PacketsSettle` gives for a
channel that stays open.

## 5. Proofs

| module | theorems |
|---|---|
| `AccountWGs_proofs` | `TypeCorrect`, `SignersExclude`, `RunInRegistrationOrder`, `TableStaysCurrent`, `NobodyWaitsInACircle` |
| `CheckTx_proofs` | `CheckTxTypeCorrect`, `ContextStaysFresh`, `CheckedInArrivalOrder`, `AcceptsOnce`, `CheckTxImplementsSerial` |
| `Foundation_proofs` | `FoundationTypeCorrect`, `QueueStaysMatched`, `VotesStayPruned`, `ExecutesOnce`, `DecisionStays`, `DecideEarly`, `EarlyDecisionsSound` |
| `RootMulti_proofs` | `TypeCorrect`, `CrashSafe`, `KeepsRecent`, `ReplayNeverPanics`, `PrunesAll`, `CommitIsAtomic` |
| `SnapshotManager_proofs` | `SnapshotTypeCorrect`, `ListedStaysWhole`, `NothingLeftOver`, `OneAtATime`, `OnlyNewest`, `RecentRetained`, `CompleteIsRestored` |
| `IBCPackets_proofs` | `TypeCorrect`, `NeverBothHolds`, `DeliveredInOrderHolds`, `Refinement` |
| `Transfer_proofs` | `NeverOverdrawn`, `SupplyIsConstant`, `VouchersStayBacked`, `EscrowAlwaysSuffices` |
| `Handshake_proofs` | `ConnectionsAgreeHolds`, `ConfirmOpensBothHolds`, `HandshakeTypeCorrect`, `ChannelsAgreeHolds`, `ConnectionsAgreeUnderChannels` |

All hold for any sets and numbers that satisfy the ASSUMEs of the modules.  Those are
about the shape of the constants: sets are finite, bounds are natural numbers, the
pruning options are valid, the fee collector is none of the users' accounts, the marks for "no request" and "not
stored" are no request and no value, and decision policies have passed their `Validate`.  `AcceptsOnce` and `CheckTxImplementsSerial`
have a hypothesis of their own, `PayerSigns`, and so have `CrashSafe` and
`CommitIsAtomic`, `KeepsLatest`; see below for both.

**AccountWGs.**  `MutualExclusion` is not inductive: it does not say that a request
that waits will find out about every request before it.  `Table` adds that tickets
follow the order of registration, that a wait group at 0 belongs to a
finished request, that the table's entry of an account is that of the last request to
register for it, and that for every unfinished request before it with
which it has a signer in common, a request waits for that one or for one that came
between them (`WaitsReachBack`).
`Register` keeps the last conjunct through the table; `Done` keeps the table because
it deletes only its own entry.  `NobodyWaitsInACircle` follows from the tickets: a
request waits only for requests of smaller tickets (`WaitsAreEarlier`), so of those in
flight the one with the smallest waits for none.  That there always is a smallest, among
the requests in flight from any ticket on, is an invariant as well (`FirstInFlight`).

**CheckTx, the pipeline.**  The wait-group table of `CheckTx` takes steps of `AccountWGs`,
so the invariant above is instantiated for it.  `IInv` adds that the position of a
request determines its stage in the table (`Stages`), that nothing is unanswered at
a commit (`Answers`), that a check in progress has the current epoch (`Contexts`), and
that the requests which have arrived fall into those that have registered, in order of
arrival, the one at the reactor, and those in the channel (`Pipeline`).
`CheckedInArrivalOrder` combines `Pipeline` with the exclusion proved of the table.

**CheckTx, the refinement.**  Fees and sequences are read and written without a lock
over many steps, so the verdict of a request must be shown to be the one that the
check state as a whole would give at the instant it is decided.  The argument: two
requests past `Wait` have no message signer in common; if every fee payer is a message
signer (`PayerSigns`) they have no key in common but the fee collector's balance
(`OwnDisjoint`); so what a request has read of its keys is still what the check state
holds (`Branches`), and the values it is writing are seen by nobody else before they are
all written.  `Accepted` adds that the sequence of a signer is past every number that was
accepted of it.  `Carries` says of a step that it keeps both and is a step of
`SerialCheckTx` or a stutter there; there is one lemma per action.  Without `PayerSigns`
both theorems are false, which is what `check_tx_payer` shows; the transactions of
`check_tx` and `check_tx_blocks` satisfy it.

**RootMulti.**  `Recoverable` speaks of the latest version only, and a crash may come
with some stores ahead.  `IInv` adds that each saved version of each store holds
exactly the blocks up to it (`TreeInv`), that commit info of the latest version
names that version for each store (`InfoInv`), that recent versions are there
(`RecentInv`), that no height on a list to prune is recent (`ListInv`), and where
the working trees and the memory stand in each phase of `Commit` (`WorkInv`,
`MemoryInv`); `LeakInv` is `NothingLeaked` in the phases between.  There is one
lemma per action.  `CommitIsAtomic` follows step by step: `FlushMetadata` is a step
of `AtomicStore`, all others leave the tree of the latest version alone.  Its
mapping reads nothing where the version is gone (`Found`).  Both theorems
need `KeepsLatest`, which says that some recent height is kept or nothing is ever pruned;
without it they are false, as `MCRootMultiKeepNone.cfg` shows.  The other theorems hold
for all valid options.

**Foundation.**  `DecideEarly` says that in every well-typed state a decision on the
votes so far is that on every later tally; two lemmas do the arithmetic for the two
policies.  `EarlyDecisionsSound` states it of the reachable states.  For the rest,
executing a proposal calls keeper functions inside a handler, so the invariant is a
predicate of a store: `Good(st)` says that the store is well typed, that the queue has
the key of each stored proposal and no other, and that votes are on proposals that are
submitted or withdrawn.  `Follows(st, r)` says that from `st` to `r` ids are only given
out upwards, and that a closed proposal which is still stored is as it was.  Each keeper
function takes a good store to a good one that follows it.  `Spent` adds that an
executed id has been given out and is not stored; as ids do not come back,
`ExecutedOnce` follows.

**SnapshotManager.**  None of the properties is inductive.  `AdmittedInv` says that one
height at most is at work and that `operation` names what it does.  With it, the
files being written belong to no listed snapshot and are whole but for the last
(`SavingInv`), and what is being deleted is no longer listed, with `KeepRecent` listed
heights above each height still to delete (`PruneInv`).  For a restore, `FeedInv` says that
what the goroutine has read and what the channel holds are together the first chunks, in
order; `OkInv` follows for what it returns.  `SendInv` relates the calls to the chunks
accepted, so that the reply "complete" finds the channel closed and drained.  The disk and the restore are separate
conjuncts, each stable under the steps of the other.

**IBCPackets.**  `NeverBoth` relates the two chains now, and a handler sees the other one
as it was.  `IInv` says what an old state still tells: what was received or written
then is so now (`RootInv`), and once a packet has timed out at a height, or the end
was closed at it, what was not received by then never will be (`ExpiryInv`,
`TimeoutInv`).  It adds that `delivered` is what the receiving store says
(`DeliveredInv`), that a sequence has one packet (`UniqueInv`) and that a commitment
is unsettled (`CommitInv`).  It holds for any heights, packets, timeouts, and
clocks that do not run backwards.  `Refinement` takes each action, under `IInv`, to a
step of `PacketChannel` or to a stutter.

**Transfer.**  `TypeOK` is not inductive, since a voucher for a path of full length
would be longer than any; `SentInv` says such a path is only sent back.  That is
`NeverOverdrawn`.  For the sums, `StepMoves` shows that a step either moves
nothing or moves one unit in one of four ways: `Sends`, `Refunds`, `PaysBack` and
`Issues`, each of which says which account, which escrow account and which packet
differ, and that all others stay.  `SupplyMoves` and `BackingMoves` then follow each
unit: the unit that leaves an account is in flight, and its origin, which
`Origin` finds by following the path back over the channels, is the same at both
ends of a hop (`OriginOfTail`, `VoucherFacts`).  `Unsent` says that no packet
is answered or settled before it is sent, so that what `Sends` puts in flight is.  `NoDetour` says that no chain has tokens of a path that
goes over one channel and straight back, since those are returned and not issued;
without it a token on its way back could be one that no escrow account stands for.  With
`VouchersBacked` it gives `EscrowSuffices`.  TLC agrees with both on the instance of
`ibc_transfer`, where such paths exist; neither is among its properties.

What a sum does when one term changes is proved by induction over the set.  The
library's induction theorems take a predicate as parameter, which the provers
cannot instantiate; `NatSetInduction` and `SubsetInduction` take a set in its place
and follow from the well-foundedness of `<` and of strict inclusion.

**Handshakes.**  `ConnectionsAgree` relates two present ends, and a step looks at a past
one.  `PastInv` says what a past end still tells about the present one of the same
identifier: versions only narrow, and an open end does not change.
`OriginInv` says what in the other chain's past it rests on.  The channel invariant has
the same shape, over the connection invariant, which carries over because every
step is one of a connection handler or leaves the connections alone.

### Only model-checked

`EveryRequestEnds`, `SnapshotsEnd`, `RestoreChunkReturnsOrStalls`, `PacketsSettle` and
`TransfersSettle`: liveness under fairness is outside what TLAPS proves.

## 6. Findings

- `check_tx_payer`: `getUniqSigners` (`baseapp/accountwgs.go:55`) leaves out a fee payer
  that signs no message.  Two concurrent checks accept the same sequence number
  of that payer.  `DeliverTx` rejects the second one.
- `snapshots_stall`: after a first chunk that is no zlib stream, `NewStreamReader`
  (`stream.go:88`) leaves the channel undrained.  If the caller is fast enough to have
  filled it, `RestoreChunk` waits for ever and holds the mutex.

Three comments on `x/foundation` are also untrue of the code.  TLC refutes the
properties at the end of `Foundation` that state them, with the configuration named:

- `MCFoundationWeight.cfg`, `TotalWeightIsMembers`: `x/foundation/keeper/member.go:87` drops
  the new total weight, which the proto file calls the number of members.
- `MCFoundationOld.cfg`, `OldProposalsAborted`: the loop at `proposal.go:162` stops early,
  and a proposal of an old version can still be voted on.
- `MCFoundationExpired.cfg`, `ExpiredArePruned`: the queue entries decode to empty
  proposals (`proposal.go:209`), and an expired proposal stays in the store, with its
  votes if it was withdrawn (`proposal.go:128`).

So is, for some pruning options, the promise of `Commit`:

- `MCRootMultiKeepNone.cfg`, `Recoverable`: with `KeepRecent` 0 and an interval, which
  `pruning_test.go:17` lists as valid under the name "everything", `Commit` deletes the latest version
  (`rootmulti/store.go:424`) before the metadata of the new one is flushed.  A crash in
  between leaves commit info of a version that no longer exists.  The strategy
  `PruneEverything` itself keeps 2 heights (`pruning.go:23`) and is not affected.

They are kept to be run by hand (`tlc -config MCFoundationOld.cfg MCFoundation`,
`tlc -config MCRootMultiKeepNone.cfg MCRootMulti`) and are not listed among the runs of
`PROJECT.json`.

Noted while modelling and not the subject of a run: a snapshot whose export fails
before the first chunk is recorded with no chunks (`chunk.go:61`); a restore whose stream
ends before its last chunk is reported complete (`manager.go:299`); a failed restore
is reported with the last chunk only, since the deferred `Close` drains the channel
until it is closed (`chunk.go:130`); a query of a pruned height reads empty stores
although the comment at `rootmulti/store.go:494` promises an error; entries of
`txHashCache` for transactions that are checked and never delivered stay
(`sigverify.go:355`); a crash inside the first commit leaves trees without commit info
(`rootmulti/store.go:182`); the set of inactive addresses of `x/bankplus` is a Go map that
is not reverted with the store (`bankplus/keeper/keeper.go:111`); submitting a stored
header again sets its processed time anew (`99-ostracon/types/update.go:183`), which
prolongs a delay period; with crossing hellos a channel end can be open to a peer
that is open to another end (section 3).

## 7. Not modelled

`PROJECT.json` lists every part with its status.  Within the modelled parts:

- CheckTx: gas, memo and timeout-height checks, public keys, the signature cache,
  fee grants, `DeliverTx`.
- Foundation: treasury, grants, the gov handlers, import of proposals at genesis,
  several or nested messages in a proposal.
- RootMulti: the first commit, store upgrades, rollback, changed pruning
  options, readers that hold an old version.
- SnapshotManager: the content of chunks, several formats, `LoadChunk` and `List`, which
  only read, and loss of file data that the operating system had not written yet.

- IBC packets: acknowledgements written later than the packet is received, the delay
  period of a connection, several connection hops.  Channels do not share state, so
  what is shown of one holds of each.
- Light clients: signatures of headers (cryptography), expiry, misbehaviour and
  freezing, upgrades, substitution by governance.  A client is taken to stay
  active and to store true headers.
- Handshakes: self-validation of clients, capabilities, ports, application versions,
  the order of features in a version.
- Transfer: who owns which token of a chain, amounts above one, base denominations
  that contain a slash, inactive contracts of `x/bankplus`.

Other parts: the block lifecycle, `x/upgrade` and `x/capability` would come next (section 2).
`x/token`, `x/collection`, `x/authz` and `x/feegrant` are keepers in which one message runs
at a time.  `x/staking`, `x/distribution` and `x/mint` are dominated by decimal
arithmetic.  `x/wasm` runs an external machine.  `client`, `server`, `codec`,
`crypto` and `simapp` are not state machines.  Most lines of the repository are of
the last kind or generated (`*.pb.go`).
