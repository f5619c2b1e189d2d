------------------------------ MODULE CheckTx ------------------------------
(***************************************************************************)
(* Transactions checked concurrently for the mempool: CheckTxSync and      *)
(* CheckTxAsync of baseapp/abci.go, the reactor of baseapp/reactor.go,     *)
(* checkTx and anteTx of baseapp/baseapp.go, and the decorators of         *)
(* x/auth/ante that read and write state, over the check state, a cachekv  *)
(* branch of the committed multistore.                                     *)
(*                                                                         *)
(* Two kinds of keys matter: an account (its sequence number) and a        *)
(* balance.  Every transaction pays a fee of 1.                            *)
(*                                                                         *)
(* Ostracon is external.  Its mempool takes part through the lock that     *)
(* BeginRecheckTx relies on: it commits a block and rechecks only while no *)
(* request is unanswered, and submits new transactions only outside.       *)
(***************************************************************************)
EXTENDS Naturals, Sequences, FiniteSets, Functions

CONSTANTS
    Account, Req, NoReq,
    FeeCollector,   \* address of the fee collector's module account
    TxSet,          \* the transactions that may be submitted, see Tx
    NoTx,           \* no transaction
    Absent,         \* key not in the check state's cache
    ChanCap,        \* capacity of chCheckTx (10000 in NewBaseApp)
    MaxCommit,      \* bound: blocks committed
    Funds           \* balance of every account at the start

ASSUME NoReqAssumption == NoReq \notin Req
ASSUME AccountAssumption ==
    /\ FeeCollector \notin Account
    /\ \A S \in SUBSET Account : Cardinality(S) \in Nat     \* they are finitely many
ASSUME AbsentAssumption == Absent \notin Nat
ASSUME ChanCapAssumption == ChanCap \in Nat \ {0}
ASSUME BoundAssumption == MaxCommit \in Nat /\ Funds \in Nat

\* valid: decodes and passes ValidateBasic.  signers: of the messages.  payer:
\* pays the fee.  seq: the sequence each signature was made for.
Tx == [valid : BOOLEAN, signers : SUBSET Account, payer : Account, seq : [Account -> Nat]]

ASSUME TxSetAssumption == TxSet \subseteq Tx /\ NoTx \notin Tx

VARIABLES
    wgs, signers, waits, zero, stage, ticket, clock,    \* see AccountWGs
    pc,             \* request -> position in the code
    kind,           \* request -> "sync" or "async"
    tx, recheck,    \* request -> its transaction; type Recheck?
    prepared,       \* the async requests whose prepare wait group is at 0
    chCheckTx,      \* the channel to the reactor
    reactor,        \* the request the reactor is at, or NoReq
    arrived,        \* history: requests in the order they entered chCheckTx
    committed,      \* the committed multistore: key -> value
    check,          \* the check state's cache: key -> value or Absent
    epoch,          \* which check state: setCheckState calls so far
    ctxEpoch,       \* request -> the check state its context points to
    branch,         \* request -> the writes in its own branch: key -> value
    verdict,        \* request -> result of checkTx
    answered,       \* requests whose response was given
    mempool,        \* Ostracon: "open", "committed", "recheck"
    commits         \* number of blocks committed

wgVars == <<wgs, signers, waits, zero, stage, ticket, clock>>
pipeVars == <<kind, tx, recheck, prepared, chCheckTx, reactor, arrived>>
anteVars == <<check, ctxEpoch, branch, verdict>>
nodeVars == <<committed, epoch, mempool, commits>>
vars == <<wgVars, pc, pipeVars, anteVars, answered, nodeVars>>

WG == INSTANCE AccountWGs

Acc(a) == <<"acc", a>>
Bal(a) == <<"bal", a>>
Key == {Acc(a) : a \in Account} \cup {Bal(a) : a \in Account \cup {FeeCollector}}

PC == {"idle", "queued", "registered", "check", "fee", "collect", "sig", "write", "reply", "done", "over"}

\* The types; a balance in the check state or in a branch never goes below 0, and
\* chCheckTx never holds more than its capacity.
TypeOK ==
    /\ WG!TypeOK
    /\ pc \in [Req -> PC]
    /\ kind \in [Req -> {"sync", "async"}]
    /\ tx \in [Req -> TxSet \cup {NoTx}]
    /\ recheck \in [Req -> BOOLEAN]
    /\ prepared \subseteq Req /\ answered \subseteq Req
    /\ chCheckTx \in Seq(Req) /\ Len(chCheckTx) <= ChanCap
    /\ reactor \in Req \cup {NoReq}
    /\ committed \in [Key -> Nat]
    /\ check \in [Key -> Nat \cup {Absent}]
    /\ epoch \in Nat /\ commits \in 0..MaxCommit
    /\ ctxEpoch \in [Req -> Nat]
    /\ \A r \in Req : DOMAIN branch[r] \subseteq Key /\ Range(branch[r]) \subseteq Nat
    /\ verdict \in [Req -> {"none", "ok", "err"}]
    /\ mempool \in {"open", "committed", "recheck"}

Init ==
    /\ WG!Init
    /\ pc = [r \in Req |-> "idle"]
    /\ kind = [r \in Req |-> "sync"]
    /\ tx = [r \in Req |-> NoTx]
    /\ recheck = [r \in Req |-> FALSE]
    /\ prepared = {} /\ answered = {}
    /\ chCheckTx = <<>> /\ reactor = NoReq /\ arrived = <<>>
    /\ committed = [k \in Key |-> IF k[1] = "acc" \/ k[2] = FeeCollector THEN 0 ELSE Funds]
    /\ check = [k \in Key |-> Absent]
    /\ epoch = 0 /\ commits = 0
    /\ ctxEpoch = [r \in Req |-> 0]
    /\ branch = [r \in Req |-> <<>>]
    /\ verdict = [r \in Req |-> "none"]
    /\ mempool = "open"

Goto(r, to) == pc' = [pc EXCEPT ![r] = to]

-----------------------------------------------------------------------------
(* Submission.  The mempool sends new transactions while it is open, and   *)
(* while it rechecks the transactions accepted before.                     *)
Submittable(t, re) ==
    \/ mempool = "open" /\ ~re /\ t \in TxSet
    \/ mempool = "recheck" /\ re /\ \E s \in Req : tx[s] = t /\ verdict[s] = "ok"

Submit(r, t, re, k) ==
    /\ pc[r] = "idle"
    /\ Submittable(t, re)
    /\ tx' = [tx EXCEPT ![r] = t]
    /\ recheck' = [recheck EXCEPT ![r] = re]
    /\ kind' = [kind EXCEPT ![r] = k]

\* preCheckTx decodes and validates, and reads no state.
PreCheckTx(t) == t.valid

\* CheckTxSync up to Register.
CheckTxSync(r, t, re) ==
    /\ Submit(r, t, re, "sync")
    /\ \/ ~PreCheckTx(t) /\ Goto(r, "over") /\ answered' = answered \cup {r}
                         /\ verdict' = [verdict EXCEPT ![r] = "err"]
                         /\ UNCHANGED wgVars
       \/ PreCheckTx(t) /\ Goto(r, "registered") /\ WG!Register(r, t.signers)
                        /\ UNCHANGED <<answered, verdict>>
    /\ UNCHANGED <<prepared, chCheckTx, reactor, arrived, check, ctxEpoch, branch, nodeVars>>

\* CheckTxAsync blocks while the channel is full; prepareCheckTx is started
\* after the request is in the channel.
CheckTxAsync(r, t, re) ==
    /\ Submit(r, t, re, "async")
    /\ Len(chCheckTx) < ChanCap
    /\ chCheckTx' = Append(chCheckTx, r)
    /\ arrived' = Append(arrived, r)
    /\ Goto(r, "queued")
    /\ UNCHANGED <<wgVars, prepared, reactor, anteVars, answered, nodeVars>>

\* For mutation: the prepare wait group is not released on an error.
PrepareIfValid(r) ==
    /\ pc[r] = "queued" /\ r \notin prepared /\ tx[r].valid
    /\ prepared' = prepared \cup {r}
    /\ UNCHANGED <<wgVars, pc, kind, tx, recheck, chCheckTx, reactor, arrived, anteVars, answered, nodeVars>>

\* prepareCheckTx runs preCheckTx in a goroutine of its own.
PrepareCheckTx(r) ==
    /\ pc[r] = "queued" /\ r \notin prepared
    /\ prepared' = prepared \cup {r}
    /\ UNCHANGED <<wgVars, pc, kind, tx, recheck, chCheckTx, reactor, arrived, anteVars, answered, nodeVars>>

-----------------------------------------------------------------------------
(* The reactor: one goroutine, one request at a time.                      *)
ReactorReceive ==
    /\ reactor = NoReq /\ chCheckTx # <<>>
    /\ reactor' = Head(chCheckTx)
    /\ chCheckTx' = Tail(chCheckTx)
    /\ UNCHANGED <<wgVars, pc, kind, tx, recheck, prepared, arrived, anteVars, answered, nodeVars>>

\* preCheckTx failed: the reactor itself calls the callback.
ReactorReject(r) ==
    /\ reactor = r /\ r \in prepared /\ ~PreCheckTx(tx[r])
    /\ reactor' = NoReq
    /\ Goto(r, "over")
    /\ verdict' = [verdict EXCEPT ![r] = "err"]
    /\ answered' = answered \cup {r}
    /\ UNCHANGED <<wgVars, kind, tx, recheck, prepared, chCheckTx, arrived, check, ctxEpoch, branch, nodeVars>>

\* For mutation: Register in the goroutine instead of in the reactor.
RegisterInGoroutine(r) ==
    /\ pc[r] = "queued" /\ r \in prepared /\ tx[r].valid
    /\ WG!Register(r, tx[r].signers)
    /\ Goto(r, "registered")
    /\ UNCHANGED <<kind, tx, recheck, prepared, chCheckTx, reactor, arrived, anteVars, answered, nodeVars>>

ReactorRegister(r) ==
    /\ reactor = r /\ r \in prepared /\ PreCheckTx(tx[r])
    /\ WG!Register(r, tx[r].signers)
    /\ reactor' = NoReq
    /\ Goto(r, "registered")
    /\ UNCHANGED <<kind, tx, recheck, prepared, chCheckTx, arrived, anteVars, answered, nodeVars>>

-----------------------------------------------------------------------------
(* checkTx: the goroutine of an async request, or the caller's for a sync  *)
(* one.  A request's branch holds what it read from the check state and    *)
(* what it wrote; the ante handler writes every key that it reads here.    *)
View(k) == IF check[k] = Absent THEN committed[k] ELSE check[k]

\* Reading keys K through the check state caches them there.
Filled(K) == [k \in Key |-> IF k \in K THEN View(k) ELSE check[k]]

\* The value request r sees in its branch.
Seen(r, k) == IF k \in DOMAIN branch[r] THEN branch[r][k] ELSE View(k)

\* The entries of g written over those of f.
Put(f, g) == [k \in DOMAIN f \cup DOMAIN g |-> IF k \in DOMAIN g THEN g[k] ELSE f[k]]

\* GetSigners: the signers of the messages and the fee payer.
GetSigners(t) == t.signers \cup {t.payer}

\* For mutation: the goroutine does not wait.
DoesNotWait(r) ==
    /\ pc[r] = "registered"
    /\ stage' = [stage EXCEPT ![r] = "running"]
    /\ Goto(r, "check")
    /\ UNCHANGED <<wgs, signers, waits, zero, ticket, clock, pipeVars, anteVars, answered, nodeVars>>

WaitReturns(r) ==
    /\ pc[r] = "registered"
    /\ WG!Wait(r)
    /\ Goto(r, "check")
    /\ UNCHANGED <<pipeVars, anteVars, answered, nodeVars>>

\* getCheckContextForTx and cacheTxContext.
GetCheckContext(r) ==
    /\ pc[r] = "check"
    /\ ctxEpoch' = [ctxEpoch EXCEPT ![r] = epoch]
    /\ branch' = [branch EXCEPT ![r] = <<>>]
    /\ Goto(r, "fee")
    /\ UNCHANGED <<wgVars, pipeVars, check, verdict, answered, nodeVars>>

Abort(r) == Goto(r, "reply") /\ verdict' = [verdict EXCEPT ![r] = "err"]

\* The payer's account as it was read, and the balance less the fee.
Charged(p) == [k \in {Acc(p), Bal(p)} |-> IF k = Bal(p) THEN View(k) - 1 ELSE View(k)]

\* For mutation: the balance is not compared with the fee.
DeductFeeUnchecked(r) ==
    LET p == tx[r].payer IN
    /\ pc[r] = "fee"
    /\ check' = Filled({Acc(p), Bal(p)})
    /\ branch' = [branch EXCEPT ![r] = Charged(p)]
    /\ Goto(r, "collect") /\ UNCHANGED verdict
    /\ UNCHANGED <<wgVars, pipeVars, ctxEpoch, answered, nodeVars>>

\* DeductFeeDecorator: the payer's account, then subUnlockedCoins.
DeductFee(r) ==
    LET p == tx[r].payer IN
    /\ pc[r] = "fee"
    /\ check' = Filled({Acc(p), Bal(p)})
    /\ \/ View(Bal(p)) < 1 /\ Abort(r) /\ UNCHANGED branch
       \/ /\ View(Bal(p)) >= 1
          /\ branch' = [branch EXCEPT ![r] = Charged(p)]
          /\ Goto(r, "collect") /\ UNCHANGED verdict
    /\ UNCHANGED <<wgVars, pipeVars, ctxEpoch, answered, nodeVars>>

\* addCoins to the fee collector, in the same SendCoins.
AddToCollector(r) ==
    /\ pc[r] = "collect"
    /\ check' = Filled({Bal(FeeCollector)})
    /\ branch' = [branch EXCEPT ![r] = Put(branch[r], [k \in {Bal(FeeCollector)} |-> View(k) + 1])]
    /\ Goto(r, "sig")
    /\ UNCHANGED <<wgVars, pipeVars, ctxEpoch, verdict, answered, nodeVars>>

\* SigVerificationDecorator compares the sequences, but not in a recheck.
Verified(r) ==
    recheck[r] \/ \A a \in GetSigners(tx[r]) : tx[r].seq[a] = Seen(r, Acc(a))

\* IncrementSequenceDecorator, in a recheck too.
Incremented(r) ==
    Put(branch[r], [k \in {Acc(a) : a \in GetSigners(tx[r])} |-> Seen(r, k) + 1])

SignersRead(r) == {Acc(a) : a \in GetSigners(tx[r])} \ DOMAIN branch[r]

\* For mutation: anteTx writes its branch before it looks at the error.
WriteOnError(r) ==
    /\ pc[r] = "sig"
    /\ check' = Filled(SignersRead(r))
    /\ branch' = [branch EXCEPT ![r] = Incremented(r)]
    /\ verdict' = [verdict EXCEPT ![r] = IF Verified(r) THEN "ok" ELSE "err"]
    /\ Goto(r, "write")
    /\ UNCHANGED <<wgVars, pipeVars, ctxEpoch, answered, nodeVars>>

\* The end of the ante handler; anteTx drops the branch on an error.
VerifyAndIncrement(r) ==
    /\ pc[r] = "sig"
    /\ check' = Filled(SignersRead(r))
    /\ \/ ~Verified(r) /\ Abort(r) /\ branch' = [branch EXCEPT ![r] = <<>>]
       \/ /\ Verified(r)
          /\ branch' = [branch EXCEPT ![r] = Incremented(r)]
          /\ verdict' = [verdict EXCEPT ![r] = "ok"]
          /\ Goto(r, "write")
    /\ UNCHANGED <<wgVars, pipeVars, ctxEpoch, answered, nodeVars>>

\* msCache.Write sets one key of the parent after another.  The order of the
\* stores is that of a Go map, the order of the keys that of the addresses.
\* The parent is the check state that the context was taken from.
WriteKey(r, k) ==
    /\ pc[r] = "write" /\ k \in DOMAIN branch[r]
    /\ check' = IF ctxEpoch[r] = epoch THEN [check EXCEPT ![k] = branch[r][k]] ELSE check
    /\ branch' = [branch EXCEPT ![r] = Restrict(@, DOMAIN @ \ {k})]
    /\ IF DOMAIN branch[r] = {k} THEN Goto(r, "reply") ELSE UNCHANGED pc
    /\ UNCHANGED <<wgVars, pipeVars, ctxEpoch, verdict, answered, nodeVars>>

\* For mutation: the callback is called before msCache.Write has finished.
CallbackEarly(r) ==
    /\ kind[r] = "async"
    /\ answered' = answered \cup {r}
    /\ \/ pc[r] = "reply" /\ Goto(r, "done")
       \/ pc[r] = "write" /\ UNCHANGED pc
    /\ UNCHANGED <<wgVars, pipeVars, anteVars, nodeVars>>

\* checkTxAsync calls back before the deferred Done ...
Callback(r) ==
    /\ pc[r] = "reply" /\ kind[r] = "async"
    /\ answered' = answered \cup {r}
    /\ Goto(r, "done")
    /\ UNCHANGED <<wgVars, pipeVars, anteVars, nodeVars>>

\* ... and CheckTxSync returns after it.
DoneStep(r) ==
    /\ \/ pc[r] = "done" /\ UNCHANGED answered
       \/ pc[r] = "reply" /\ kind[r] = "sync" /\ answered' = answered \cup {r}
    /\ WG!Done(r)
    /\ Goto(r, "over")
    /\ UNCHANGED <<pipeVars, anteVars, nodeVars>>

-----------------------------------------------------------------------------
(* Ostracon at a block, under the mempool's lock.                          *)
Unanswered == {r \in Req : pc[r] # "idle"} \ answered

\* The deliver state of a block that holds a transaction of each account of S
\* is written to the multistore.  The check state is not touched.
Commit(S) ==
    /\ mempool = "open" /\ Unanswered = {} /\ commits < MaxCommit
    /\ \A a \in S : committed[Bal(a)] >= 1
    /\ committed' = [k \in Key |-> CASE k[2] = FeeCollector -> committed[k] + Cardinality(S)
                                     [] k[2] \notin S -> committed[k]
                                     [] k[1] = "acc" -> committed[k] + 1
                                     [] OTHER -> committed[k] - 1]
    /\ commits' = commits + 1
    /\ mempool' = "committed"
    /\ UNCHANGED <<wgVars, pc, pipeVars, anteVars, answered, epoch>>

\* setCheckState: a new branch of the committed multistore.
BeginRecheckTx ==
    /\ mempool = "committed"
    /\ epoch' = epoch + 1
    /\ check' = [k \in Key |-> Absent]
    /\ mempool' = "recheck"
    /\ UNCHANGED <<wgVars, pc, pipeVars, ctxEpoch, branch, verdict, answered, committed, commits>>

\* The lock is released, after EndRecheckTx or, when the mempool has nothing to
\* recheck, without a recheck.
Unlock ==
    /\ mempool \in {"committed", "recheck"} /\ Unanswered = {}
    /\ mempool' = "open"
    /\ UNCHANGED <<wgVars, pc, pipeVars, anteVars, answered, committed, epoch, commits>>

CheckStep(r) ==
    \/ WaitReturns(r) \/ GetCheckContext(r) \/ DeductFee(r) \/ AddToCollector(r)
    \/ VerifyAndIncrement(r) \/ (\E k \in Key : WriteKey(r, k))
    \/ Callback(r) \/ DoneStep(r)

ReactorStep == ReactorReceive \/ \E r \in Req : ReactorReject(r) \/ ReactorRegister(r)

Arrive(r) == \E t \in TxSet, re \in BOOLEAN : CheckTxSync(r, t, re) \/ CheckTxAsync(r, t, re)

Next ==
    \/ \E r \in Req : Arrive(r) \/ PrepareCheckTx(r) \/ CheckStep(r)
    \/ ReactorStep
    \/ (\E S \in SUBSET Account : Commit(S)) \/ BeginRecheckTx \/ Unlock

Spec == Init /\ [][Next]_vars

\* Every goroutine is scheduled: each prepareCheckTx, the reactor, and each
\* checkTx.  The mempool need not send, and no block need come.
FairSpec ==
    /\ Spec
    /\ WF_vars(ReactorStep)
    /\ \A r \in Req : WF_vars(PrepareCheckTx(r)) /\ WF_vars(CheckStep(r))

-----------------------------------------------------------------------------
(* Properties.                                                             *)

Checking(r) == pc[r] \in {"fee", "collect", "sig", "write"}

\* A check in progress works on the current check state, though BeginRecheckTx
\* replaces it: no write goes to a state that was thrown away, and no check
\* reads one state and writes another.
FreshContext == \A r \in Req : Checking(r) => ctxEpoch[r] = epoch

\* Async requests with a common message signer are checked in the order in
\* which they entered chCheckTx, whatever order their prepareCheckTx goroutines
\* finish in: else a client's consecutive transactions are rejected.
ArrivalOrder ==
    \A i, j \in 1..Len(arrived) :
        LET r == arrived[i]
            s == arrived[j]
        IN  /\ i < j
            /\ tx[r].valid /\ tx[s].valid
            /\ tx[r].signers \cap tx[s].signers # {}
            /\ WG!Past(s)
            => stage[r] = "finished"

\* Of the new transactions checked against one check state, no two are accepted
\* with the same sequence number of the same signer, fee payer included.
AcceptedOnce ==
    \A r, s \in Req :
        /\ r # s /\ ctxEpoch[r] = ctxEpoch[s]
        /\ ~recheck[r] /\ ~recheck[s]
        /\ verdict[r] = "ok" /\ verdict[s] = "ok"
        => \A a \in GetSigners(tx[r]) \cap GetSigners(tx[s]) : tx[r].seq[a] # tx[s].seq[a]

\* A request in flight is answered and releases its wait groups: neither a full
\* channel, a failed preCheckTx nor a failed ante handler stalls those behind it.
EveryRequestEnds == \A r \in Req : pc[r] # "idle" ~> pc[r] = "over" /\ r \in answered

-----------------------------------------------------------------------------
(* CheckTx as if one request were checked at a time.  A request takes      *)
(* effect when its ante handler succeeds; until its branch is written, the *)
(* values are those of the branch.                                         *)
Effective(k) ==
    LET W == {r \in Req : pc[r] = "write" /\ k \in DOMAIN branch[r]}
    IN  IF W = {} THEN View(k) ELSE branch[CHOOSE r \in W : TRUE][k]

Serial == INSTANCE SerialCheckTx WITH
    seq <- [a \in Account |-> Effective(Acc(a))],
    bal <- [a \in Account |-> Effective(Bal(a))],
    base <- commits + epoch

\* Checking concurrently answers as checking one by one would: the sequence
\* numbers and the fee balances of the signers move as in SerialCheckTx.
ImplementsSerial == Serial!Spec

=============================================================================
