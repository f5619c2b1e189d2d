--------------------------- MODULE CheckTx_proofs ---------------------------
(***************************************************************************)
(* Proofs about CheckTx for every set of accounts, requests and            *)
(* transactions, every channel capacity and every number of blocks.        *)
(*                                                                         *)
(* The wait-group table of CheckTx takes steps of AccountWGs, so the       *)
(* invariant Table proved in AccountWGs_proofs holds of it.  IInv adds how *)
(* the position of a request determines its stage in the table (Stages),   *)
(* that nothing is unanswered when the check state is replaced (Answers),  *)
(* that a check in progress has the current epoch (Contexts), and that the *)
(* channel, the reactor and the tickets keep the order of arrival          *)
(* (Pipeline).                                                             *)
(*                                                                         *)
(* CheckTx implements SerialCheckTx when every fee payer signs a message   *)
(* (PayerSigns).  Then requests in progress have no account in common: a   *)
(* request's branch holds the values that one-by-one checking would give   *)
(* it (Branches), and what was accepted is already counted in the          *)
(* sequences (Accepted).  From these, every step is a step of              *)
(* SerialCheckTx or leaves it alone (Carries).                             *)
(***************************************************************************)
EXTENDS CheckTx, TLAPS

\* Most steps are first-order reasoning about sets and functions, which is
\* Zenon's; those with arithmetic or sequences cite SMT.
USE Zenon

WGP == INSTANCE AccountWGs_proofs

\* The invariant of the wait-group table, which takes steps of AccountWGs.
Table == WGP!Table

LEMMA TableInit == WG!Init => Table
<1>1. WG!Init => WGP!Init
  BY DEF WG!Init, WGP!Init
<1> QED
  BY <1>1, WGP!TableInit, NoReqAssumption DEF Table

LEMMA TableRegister ==
    ASSUME Table, NEW r \in Req, NEW S \in SUBSET Account, WG!Register(r, S)
    PROVE  Table'
<1>1. WGP!Register(r, S)
  BY DEF WG!Register, WGP!Register, WG!Found, WGP!Found
<1> QED
  BY <1>1, WGP!TableRegister, NoReqAssumption DEF Table

LEMMA TableWait == ASSUME Table, NEW r \in Req, WG!Wait(r) PROVE Table'
<1>1. WGP!Wait(r)
  BY DEF WG!Wait, WGP!Wait
<1> QED
  BY <1>1, WGP!TableWait, NoReqAssumption DEF Table

LEMMA TableDone == ASSUME Table, NEW r \in Req, WG!Done(r) PROVE Table'
<1>1. WGP!Done(r)
  BY DEF WG!Done, WGP!Done, WG!Signalled, WGP!Signalled, WG!Deleted, WGP!Deleted
<1> QED
  BY <1>1, WGP!TableDone, NoReqAssumption DEF Table

LEMMA TableStays == ASSUME Table, UNCHANGED wgVars PROVE Table'
<1>1. UNCHANGED WGP!wgVars
  BY DEF wgVars, WGP!wgVars
<1> QED
  BY <1>1, WGP!TableStays, NoReqAssumption DEF Table

\* What the rest needs to know of the table.
LEMMA TableTypes ==
    ASSUME Table
    PROVE  WG!TypeOK /\ DOMAIN stage = Req /\ DOMAIN signers = Req /\ ticket \in [Req -> Nat] /\ clock \in Nat
<1>1. WGP!TypeOK
  BY DEF Table, WGP!Table
<1>2. WG!TypeOK
  BY <1>1 DEF WGP!TypeOK, WG!TypeOK, WGP!WaitGroup, WG!WaitGroup, WGP!Stage, WG!Stage
<1> QED
  BY <1>2 DEF WG!TypeOK

LEMMA TableOrder == ASSUME Table PROVE WG!RegistrationOrder
<1>1. WGP!RegistrationOrder
  BY DEF Table, WGP!Table
<1> QED
  BY <1>1 DEF WGP!RegistrationOrder, WG!RegistrationOrder, WGP!Shares, WG!Shares, WGP!Past, WG!Past

LEMMA TableTickets ==
    ASSUME Table
    PROVE  /\ \A r \in Req : stage[r] # "new" => ticket[r] \in 1 .. clock
           /\ \A r, s \in Req : stage[r] # "new" /\ stage[s] # "new" /\ ticket[r] = ticket[s] => r = s
           /\ \A r \in Req : stage[r] = "new" => signers[r] = {}
  BY DEF Table, WGP!Table, WGP!TicketOrder, WGP!Registered

-----------------------------------------------------------------------------
Running == {"check", "fee", "collect", "sig", "write", "reply", "done"}

\* A request's stage in the wait-group table follows from its position, and it
\* is registered for the message signers of a valid transaction.
StageOf(r) ==
    /\ pc[r] \in {"idle", "queued"} => stage[r] = "new"
    /\ pc[r] = "registered" => stage[r] = "waiting"
    /\ pc[r] \in Running => stage[r] = "running"
    /\ pc[r] = "over" => stage[r] = IF tx[r].valid THEN "finished" ELSE "new"
    /\ stage[r] # "new" => tx[r].valid /\ signers[r] = tx[r].signers
    /\ IF pc[r] = "idle" THEN tx[r] = NoTx ELSE tx[r] \in TxSet

Stages == \A r \in Req : StageOf(r)

\* Only what has reached its end is answered, and at a commit everything has.
Answers ==
    /\ \A r \in answered : pc[r] \in {"done", "over"}
    /\ mempool = "committed" => Unanswered = {}

\* A context is never of a later check state, and a verdict comes at the end.
ContextOf(r) ==
    /\ ctxEpoch[r] <= epoch
    /\ Checking(r) => ctxEpoch[r] = epoch
    /\ pc[r] \in {"idle", "queued", "registered", "check", "fee", "collect", "sig"} => verdict[r] = "none"

Contexts == \A r \in Req : ContextOf(r)

\* How many requests have left the channel, and how many the reactor too.
Received == Len(arrived) - Len(chCheckTx)

Handled == IF reactor = NoReq THEN Received ELSE Received - 1

\* The channel holds the last arrivals, the reactor the one before them, and
\* those before that have registered in their order of arrival.
Pipeline ==
    /\ arrived \in Seq(Req) /\ Handled \in Nat
    /\ \A i \in 1 .. Len(chCheckTx) : chCheckTx[i] = arrived[Received + i]
    /\ reactor # NoReq => reactor = arrived[Received]
    /\ \A i, j \in 1 .. Len(arrived) : arrived[i] = arrived[j] => i = j
    /\ \A i \in 1 .. Len(arrived) : IF i <= Handled THEN pc[arrived[i]] \notin {"idle", "queued"}
                                                    ELSE pc[arrived[i]] = "queued"
    /\ \A i, j \in 1 .. Handled :
         i < j /\ tx[arrived[i]].valid /\ tx[arrived[j]].valid => ticket[arrived[i]] < ticket[arrived[j]]

\* TypeOK in two parts, without the wait-group table.
Flow ==
    /\ pc \in [Req -> PC]
    /\ kind \in [Req -> {"sync", "async"}]
    /\ tx \in [Req -> TxSet \cup {NoTx}]
    /\ recheck \in [Req -> BOOLEAN]
    /\ prepared \subseteq Req /\ answered \subseteq Req
    /\ chCheckTx \in Seq(Req) /\ Len(chCheckTx) <= ChanCap
    /\ reactor \in Req \cup {NoReq}
    /\ verdict \in [Req -> {"none", "ok", "err"}]
    /\ mempool \in {"open", "committed", "recheck"}

Store ==
    /\ committed \in [Key -> Nat]
    /\ check \in [Key -> Nat \cup {Absent}]
    /\ epoch \in Nat /\ commits \in 0 .. MaxCommit
    /\ ctxEpoch \in [Req -> Nat]
    /\ DOMAIN branch = Req
    /\ \A r \in Req : DOMAIN branch[r] \subseteq Key /\ \A k \in DOMAIN branch[r] : branch[r][k] \in Nat

IInv == Table /\ Flow /\ Store /\ Stages /\ Answers /\ Contexts /\ Pipeline

-----------------------------------------------------------------------------
LEMMA TxFields ==
    ASSUME NEW t \in TxSet
    PROVE  /\ t # NoTx /\ t.valid \in BOOLEAN /\ t.signers \in SUBSET Account /\ t.payer \in Account
           /\ t.seq \in [Account -> Nat] /\ GetSigners(t) \subseteq Account
  BY TxSetAssumption DEF Tx, GetSigners

LEMMA StagesStep ==
    ASSUME Stages, NEW r \in Req, StageOf(r)',
           \A s \in Req : s # r => /\ pc'[s] = pc[s] /\ stage'[s] = stage[s]
                                   /\ tx'[s] = tx[s] /\ signers'[s] = signers[s]
    PROVE  Stages'
  BY SMT DEF Stages, StageOf

LEMMA AnswersStep ==
    ASSUME Answers, Flow, NEW r \in Req, NEW to \in PC, Goto(r, to),
           pc[r] = "idle" => mempool # "committed",
           answered' = answered \/ answered' = answered \cup {r},
           r \in answered' => to \in {"done", "over"}, mempool' = mempool
    PROVE  Answers'
<1>1. /\ \A s \in Req : pc'[s] = IF s = r THEN to ELSE pc[s]
      /\ answered \subseteq Req
  BY DEF Flow, Goto
<1> QED
  BY <1>1 DEF Answers, Unanswered

LEMMA ContextsStep ==
    ASSUME Contexts, NEW r \in Req, ContextOf(r)', epoch' = epoch,
           \A s \in Req : s # r => pc'[s] = pc[s] /\ verdict'[s] = verdict[s] /\ ctxEpoch'[s] = ctxEpoch[s]
    PROVE  Contexts'
  BY DEF Contexts, ContextOf, Checking

\* The pipeline does not see what a request does once it has registered.
LEMMA PipelineStep ==
    ASSUME Pipeline, Flow, UNCHANGED <<arrived, chCheckTx, reactor, tx, ticket>>,
           \A s \in Req : \/ pc'[s] = pc[s]
                          \/ pc[s] \notin {"idle", "queued"} /\ pc'[s] \notin {"idle", "queued"}
    PROVE  Pipeline'
<1>1. \A i \in 1 .. Len(arrived) : arrived[i] \in Req
  BY SMT DEF Pipeline
<1>2. Handled' = Handled /\ Received' = Received
  BY DEF Handled, Received
<1> QED
  BY <1>1, <1>2 DEF Pipeline

\* The request at the reactor is queued and all those before it are not.
LEMMA AtReactor ==
    ASSUME IInv, NEW r \in Req, reactor = r
    PROVE  /\ pc[r] = "queued" /\ stage[r] = "new" /\ tx[r] \in TxSet
           /\ Received \in 1 .. Len(arrived) /\ arrived[Received] = r /\ Handled = Received - 1
<1>0. Pipeline /\ Flow /\ Stages
  BY DEF IInv
<1>1. r # NoReq /\ Len(arrived) \in Nat /\ Len(chCheckTx) \in Nat
  BY <1>0, NoReqAssumption, SMT DEF Pipeline, Flow
<1>2. Handled = Received - 1 /\ Handled \in Nat
  BY <1>0, <1>1 DEF Handled, Pipeline
<1>3. Received \in 1 .. Len(arrived)
  BY <1>1, <1>2, SMT DEF Received
<1>4. arrived[Received] = r /\ pc[r] = "queued"
  BY <1>0, <1>1, <1>2, <1>3, SMT DEF Pipeline
<1>5. StageOf(r)
  BY <1>0 DEF Stages
<1> QED
  BY <1>2, <1>3, <1>4, <1>5 DEF StageOf

\* Where the request is, for the steps of checkTx.
LEMMA Position ==
    ASSUME IInv, NEW r \in Req
    PROVE  /\ StageOf(r) /\ ContextOf(r) /\ pc[r] \in PC
           /\ r \in answered => pc[r] \in {"done", "over"}
           /\ DOMAIN stage = Req /\ pc \in [Req -> PC] /\ verdict \in [Req -> {"none", "ok", "err"}]
           /\ ctxEpoch \in [Req -> Nat] /\ epoch \in Nat
<1>1. Table /\ Flow /\ Store /\ Stages /\ Answers /\ Contexts
  BY DEF IInv
<1>2. DOMAIN stage = Req
  BY <1>1, TableTypes
<1> QED
  BY <1>1, <1>2 DEF Flow, Store, Stages, Answers, Contexts

\* A new request changes nothing for those that arrived before.
LEMMA SubmitFlow ==
    ASSUME IInv, NEW r \in Req, NEW t \in TxSet, NEW re \in BOOLEAN, NEW k \in {"sync", "async"},
           Submit(r, t, re, k)
    PROVE  /\ pc[r] = "idle" /\ stage[r] = "new" /\ mempool # "committed" /\ verdict[r] = "none" /\ r \notin answered
           /\ kind' \in [Req -> {"sync", "async"}] /\ recheck' \in [Req -> BOOLEAN]
           /\ tx' \in [Req -> TxSet \cup {NoTx}] /\ tx'[r] = t /\ \A s \in Req : s # r => tx'[s] = tx[s]
           /\ \A i \in 1 .. Len(arrived) : arrived[i] \in Req /\ arrived[i] # r
<1>0. Flow /\ Stages /\ Answers /\ Contexts /\ Pipeline
  BY DEF IInv
<1>1. pc[r] = "idle" /\ mempool # "committed"
  BY DEF Submit, Submittable
<1>2. StageOf(r) /\ ContextOf(r)
  BY <1>0 DEF Stages, Contexts
<1>3. stage[r] = "new" /\ verdict[r] = "none" /\ r \notin answered
  BY <1>0, <1>1, <1>2 DEF StageOf, ContextOf, Answers
<1>4. /\ kind' \in [Req -> {"sync", "async"}] /\ recheck' \in [Req -> BOOLEAN]
      /\ tx' \in [Req -> TxSet \cup {NoTx}] /\ tx'[r] = t /\ \A s \in Req : s # r => tx'[s] = tx[s]
  BY <1>0 DEF Flow, Submit
<1>5. ASSUME NEW i \in 1 .. Len(arrived) PROVE arrived[i] \in Req /\ arrived[i] # r
  <2>1. arrived[i] \in Req /\ pc[arrived[i]] # "idle"
    BY <1>0, SMT DEF Pipeline
  <2> QED
    BY <1>1, <2>1
<1> QED
  BY <1>1, <1>3, <1>4, <1>5

\* Lengths and indices of the pipeline.
LEMMA PipelineSizes ==
    ASSUME Pipeline, Flow
    PROVE  /\ arrived \in Seq(Req) /\ chCheckTx \in Seq(Req)
           /\ Len(arrived) \in Nat /\ Len(chCheckTx) \in Nat /\ Handled \in Nat /\ Received \in Nat
           /\ Received = Len(arrived) - Len(chCheckTx) /\ Handled <= Received
           /\ reactor = NoReq => Handled = Received
           /\ reactor # NoReq => Handled = Received - 1 /\ Received \in 1 .. Len(arrived)
           /\ \A i \in 1 .. Len(arrived) : arrived[i] \in Req
  BY SMT DEF Pipeline, Flow, Handled, Received

LEMMA Views ==
    ASSUME Store
    PROVE  /\ \A k \in Key : View(k) \in Nat
           /\ \A K : Filled(K) \in [Key -> Nat \cup {Absent}]
<1>1. \A k \in Key : View(k) \in Nat
  BY DEF Store, View
<1> QED
  BY <1>1 DEF Store, Filled

LEMMA Keys ==
    /\ \A a \in Account : Acc(a) \in Key /\ Bal(a) \in Key
    /\ Bal(FeeCollector) \in Key
  BY DEF Key

-----------------------------------------------------------------------------
\* A request arrives.
LEMMA ArriveKeeps == ASSUME IInv PROVE \A r \in Req : Arrive(r) \/ PrepareCheckTx(r) => IInv'
<1>Prepare. ASSUME NEW r \in Req, PrepareCheckTx(r) PROVE IInv'
  <2> USE <1>Prepare
  <2>0. Table /\ Flow /\ Store /\ Stages /\ Answers /\ Contexts /\ Pipeline
    BY DEF IInv
  <2>1. /\ prepared' = prepared \cup {r}
        /\ UNCHANGED <<wgVars, pc, kind, tx, recheck, chCheckTx, reactor, arrived, anteVars, answered, nodeVars>>
    BY DEF PrepareCheckTx
  <2>2. Table'
    BY <2>0, <2>1, TableStays
  <2>3. Flow' /\ Store'
    BY <2>0, <2>1 DEF Flow, Store, anteVars, nodeVars
  <2>4. Stages' /\ Answers' /\ Contexts'
    BY <2>0, <2>1 DEF Stages, StageOf, Answers, Unanswered, Contexts, ContextOf, Checking, wgVars, anteVars, nodeVars
  <2>5. Pipeline'
    BY <2>0, <2>1, PipelineStep DEF wgVars
  <2> QED
    BY <2>2, <2>3, <2>4, <2>5 DEF IInv
<1>Sync. ASSUME NEW r \in Req, NEW t \in TxSet, NEW re \in BOOLEAN, CheckTxSync(r, t, re)
         PROVE  IInv'
  <2> USE <1>Sync
  <2>0. Table /\ Flow /\ Store /\ Stages /\ Answers /\ Contexts /\ Pipeline
    BY DEF IInv
  <2>1. /\ Submit(r, t, re, "sync")
        /\ UNCHANGED <<prepared, chCheckTx, reactor, arrived, check, ctxEpoch, branch, nodeVars>>
    BY DEF CheckTxSync
  <2>2. /\ pc[r] = "idle" /\ stage[r] = "new" /\ mempool # "committed" /\ verdict[r] = "none" /\ r \notin answered
        /\ kind' \in [Req -> {"sync", "async"}] /\ recheck' \in [Req -> BOOLEAN]
        /\ tx' \in [Req -> TxSet \cup {NoTx}] /\ tx'[r] = t /\ \A s \in Req : s # r => tx'[s] = tx[s]
        /\ \A i \in 1 .. Len(arrived) : arrived[i] \in Req /\ arrived[i] # r
    BY <2>1, SubmitFlow, SMT
  <2>3. Store' /\ mempool' = mempool /\ epoch' = epoch
    BY <2>0, <2>1 DEF Store, nodeVars
  <2>4. t.valid \in BOOLEAN /\ t.signers \in SUBSET Account
    BY TxFields
  <2>5. DOMAIN stage = Req /\ DOMAIN signers = Req /\ ticket \in [Req -> Nat]
    BY <2>0, TableTypes
  <2>a. ASSUME NEW to \in {"over", "registered"}, Goto(r, to), answered' = answered \/ answered' = answered \cup {r},
               r \in answered' => to = "over",
               \A s \in Req : s # r => verdict'[s] = verdict[s] /\ stage'[s] = stage[s] /\ signers'[s] = signers[s] /\ ticket'[s] = ticket[s],
               to = "registered" => verdict' = verdict,
               verdict' \in [Req -> {"none", "ok", "err"}],
               to = "over" => ~t.valid /\ stage'[r] = "new",
               to = "registered" => stage'[r] = "waiting" /\ t.valid /\ signers'[r] = t.signers
        PROVE  Flow' /\ Stages' /\ Answers' /\ Contexts' /\ Pipeline'
    <3>1. to \in PC /\ pc' \in [Req -> PC] /\ \A s \in Req : pc'[s] = IF s = r THEN to ELSE pc[s]
      BY <2>0, <2>a DEF Flow, Goto, PC
    <3>2. Flow'
      BY <2>0, <2>1, <2>2, <2>3, <2>a, <3>1 DEF Flow
    <3>3. StageOf(r)'
      BY <2>2, <2>a, <3>1 DEF StageOf, Running
    <3>4. Stages'
      BY <2>0, <2>2, <2>a, <3>1, <3>3, StagesStep
    <3>5. Answers'
      BY <2>0, <2>2, <2>3, <2>a, <3>1, AnswersStep
    <3>6. ContextOf(r)'
      <4>1. ContextOf(r)
        BY <2>0 DEF Contexts
      <4> QED
        BY <2>1, <2>2, <2>3, <2>a, <3>1, <4>1 DEF ContextOf, Checking
    <3>7. Contexts'
      BY <2>0, <2>1, <2>3, <2>a, <3>1, <3>6, ContextsStep
    <3>8. Pipeline'
      <4>1. Handled' = Handled /\ Received' = Received /\ UNCHANGED <<arrived, chCheckTx, reactor>>
        BY <2>1 DEF Handled, Received
      <4>2. \A i \in 1 .. Len(arrived) : /\ pc'[arrived[i]] = pc[arrived[i]] /\ tx'[arrived[i]] = tx[arrived[i]]
                                         /\ ticket'[arrived[i]] = ticket[arrived[i]]
        BY <2>2, <2>a, <3>1
      <4>3. Handled \in Nat /\ Len(arrived) \in Nat /\ Handled <= Len(arrived)
        BY <2>0, SMT DEF Pipeline, Handled, Received, Flow
      <4>4. \A i \in 1 .. Handled : i \in 1 .. Len(arrived)
        BY <4>3, SMT
      <4> QED
        BY <2>0, <4>1, <4>2, <4>4, SMT DEF Pipeline
    <3> QED
      BY <3>2, <3>4, <3>5, <3>7, <3>8
  <2>6. CASE ~PreCheckTx(t) /\ Goto(r, "over") /\ answered' = answered \cup {r}
             /\ verdict' = [verdict EXCEPT ![r] = "err"] /\ UNCHANGED wgVars
    <3>1. Table'
      BY <2>0, <2>6, TableStays
    <3>2. verdict' \in [Req -> {"none", "ok", "err"}] /\ \A s \in Req : s # r => verdict'[s] = verdict[s]
      BY <2>0, <2>6 DEF Flow
    <3>3. UNCHANGED <<stage, signers, ticket>>
      BY <2>6 DEF wgVars
    <3> QED
      BY <2>2, <2>3, <2>6, <2>a, <3>1, <3>2, <3>3 DEF IInv, PreCheckTx
  <2>7. CASE PreCheckTx(t) /\ Goto(r, "registered") /\ WG!Register(r, t.signers) /\ UNCHANGED <<answered, verdict>>
    <3>1. Table'
      BY <2>0, <2>4, <2>7, TableRegister
    <3>2. /\ \A s \in Req : s # r => stage'[s] = stage[s] /\ signers'[s] = signers[s] /\ ticket'[s] = ticket[s]
          /\ stage'[r] = "waiting" /\ signers'[r] = t.signers
      BY <2>5, <2>7 DEF WG!Register
    <3>3. verdict' \in [Req -> {"none", "ok", "err"}]
      BY <2>0, <2>7 DEF Flow
    <3> QED
      BY <2>2, <2>3, <2>7, <2>a, <3>1, <3>2, <3>3 DEF IInv, PreCheckTx
  <2> QED
    BY <2>6, <2>7 DEF CheckTxSync
<1>Async. ASSUME NEW r \in Req, NEW t \in TxSet, NEW re \in BOOLEAN, CheckTxAsync(r, t, re)
          PROVE  IInv'
  <2> USE <1>Async
  <2>0. Table /\ Flow /\ Store /\ Stages /\ Answers /\ Contexts /\ Pipeline
    BY DEF IInv
  <2>1. /\ Submit(r, t, re, "async") /\ Len(chCheckTx) < ChanCap
        /\ chCheckTx' = Append(chCheckTx, r) /\ arrived' = Append(arrived, r) /\ Goto(r, "queued")
        /\ UNCHANGED <<wgVars, prepared, reactor, anteVars, answered, nodeVars>>
    BY DEF CheckTxAsync
  <2>2. /\ pc[r] = "idle" /\ stage[r] = "new" /\ mempool # "committed" /\ verdict[r] = "none" /\ r \notin answered
        /\ kind' \in [Req -> {"sync", "async"}] /\ recheck' \in [Req -> BOOLEAN]
        /\ tx' \in [Req -> TxSet \cup {NoTx}] /\ tx'[r] = t /\ \A s \in Req : s # r => tx'[s] = tx[s]
        /\ \A i \in 1 .. Len(arrived) : arrived[i] \in Req /\ arrived[i] # r
    BY <2>1, SubmitFlow, SMT
  <2>3. Store' /\ mempool' = mempool /\ epoch' = epoch /\ UNCHANGED <<verdict, ctxEpoch, stage, signers, ticket>>
    BY <2>0, <2>1 DEF Store, nodeVars, anteVars, wgVars
  <2>4. "queued" \in PC /\ pc' \in [Req -> PC] /\ \A s \in Req : pc'[s] = IF s = r THEN "queued" ELSE pc[s]
    BY <2>0, <2>1 DEF Flow, Goto, PC
  <2>5. Table'
    BY <2>0, <2>1, TableStays
  <2>6. Flow'
    <3>1. chCheckTx' \in Seq(Req) /\ Len(chCheckTx') <= ChanCap
      BY <2>0, <2>1, ChanCapAssumption, SMT DEF Flow
    <3> QED
      BY <2>0, <2>1, <2>2, <2>3, <2>4, <3>1 DEF Flow
  <2>7. Stages'
    <3>1. StageOf(r)'
      BY <2>2, <2>3, <2>4 DEF StageOf, Running
    <3> QED
      BY <2>0, <2>2, <2>3, <2>4, <3>1, StagesStep
  <2>8. Answers'
    BY <2>0, <2>1, <2>2, <2>3, <2>4, AnswersStep
  <2>9. Contexts'
    <3>1. ContextOf(r)
      BY <2>0 DEF Contexts
    <3>2. ContextOf(r)'
      BY <2>2, <2>3, <2>4, <3>1 DEF ContextOf, Checking
    <3> QED
      BY <2>0, <2>3, <2>4, <3>2, ContextsStep
  <2>10. Pipeline'
    <3> DEFINE n == Len(arrived)
               c == Len(chCheckTx)
    <3>0. /\ arrived \in Seq(Req) /\ chCheckTx \in Seq(Req) /\ n \in Nat /\ c \in Nat
          /\ Handled \in Nat /\ Received \in Nat /\ Received = n - c /\ Handled <= Received
          /\ reactor # NoReq => Received \in 1 .. n
      BY <2>0, PipelineSizes
    <3>1. /\ arrived' \in Seq(Req) /\ Len(arrived') = n + 1 /\ arrived'[n + 1] = r
          /\ \A i \in 1 .. n : arrived'[i] = arrived[i]
          /\ Len(chCheckTx') = c + 1 /\ chCheckTx'[c + 1] = r
          /\ \A i \in 1 .. c : chCheckTx'[i] = chCheckTx[i]
      BY <2>1, <3>0, SMT
    <3>2. Received' = Received /\ Handled' = Handled /\ reactor' = reactor
      BY <2>1, <3>0, <3>1, SMT DEF Received, Handled
    <3> HIDE DEF n, c
    <3>3. ASSUME NEW i \in 1 .. c + 1 PROVE chCheckTx'[i] = arrived'[Received + i]
      <4>1. CASE i = c + 1
        BY <3>0, <3>1, <4>1, SMT
      <4>2. CASE i # c + 1
        <5>1. i \in 1 .. c /\ Received + i \in 1 .. n
          BY <3>0, <4>2, SMT
        <5>2. chCheckTx[i] = arrived[Received + i]
          BY <2>0, <5>1 DEF Pipeline, c
        <5> QED
          BY <3>1, <5>1, <5>2
      <4> QED
        BY <4>1, <4>2
    <3>4. reactor # NoReq => reactor = arrived'[Received]
      BY <2>0, <3>0, <3>1 DEF Pipeline
    <3>5. \A i \in 1 .. n + 1 : i \in 1 .. n \/ i = n + 1
      BY <3>0, SMT
    <3>6. \A i, j \in 1 .. n + 1 : arrived'[i] = arrived'[j] => i = j
      <4>1. \A i, j \in 1 .. n : arrived[i] = arrived[j] => i = j
        BY <2>0 DEF Pipeline, n
      <4>2. \A i \in 1 .. n : arrived[i] # r
        BY <2>2 DEF n
      <4> QED
        BY <3>1, <3>5, <4>1, <4>2
    <3>7. ASSUME NEW i \in 1 .. n + 1
          PROVE  IF i <= Handled THEN pc'[arrived'[i]] \notin {"idle", "queued"} ELSE pc'[arrived'[i]] = "queued"
      <4>1. CASE i \in 1 .. n
        <5>1. /\ arrived'[i] = arrived[i] /\ arrived[i] \in Req /\ arrived[i] # r
              /\ IF i <= Handled THEN pc[arrived[i]] \notin {"idle", "queued"} ELSE pc[arrived[i]] = "queued"
          BY <2>0, <2>2, <3>1, <4>1 DEF Pipeline, n
        <5> QED
          BY <2>4, <5>1
      <4>2. CASE i = n + 1
        BY <2>4, <3>0, <3>1, <4>2, SMT
      <4> QED
        BY <3>5, <4>1, <4>2
    <3>8. \A i, j \in 1 .. Handled : i < j /\ tx'[arrived'[i]].valid /\ tx'[arrived'[j]].valid
                                     => ticket'[arrived'[i]] < ticket'[arrived'[j]]
      <4>1. \A i \in 1 .. Handled : i \in 1 .. n
        BY <3>0, SMT
      <4>2. \A i \in 1 .. Handled : arrived'[i] = arrived[i] /\ tx'[arrived'[i]] = tx[arrived[i]]
        BY <2>2, <3>1, <4>1 DEF n
      <4> QED
        BY <2>0, <2>3, <4>2 DEF Pipeline
    <3> QED
      BY <3>0, <3>1, <3>2, <3>3, <3>4, <3>6, <3>7, <3>8 DEF Pipeline
  <2> QED
    BY <2>3, <2>5, <2>6, <2>7, <2>8, <2>9, <2>10 DEF IInv
<1> QED
  BY <1>Prepare, <1>Sync, <1>Async DEF Arrive

\* The reactor takes requests from the channel and registers them.
LEMMA ReactorKeeps == ASSUME IInv PROVE ReactorStep => IInv'
<1>Receive. ASSUME ReactorReceive PROVE IInv'
  <2> USE <1>Receive
  <2>0. Table /\ Flow /\ Store /\ Stages /\ Answers /\ Contexts /\ Pipeline
    BY DEF IInv
  <2>1. /\ reactor = NoReq /\ chCheckTx # <<>> /\ reactor' = Head(chCheckTx) /\ chCheckTx' = Tail(chCheckTx)
        /\ UNCHANGED <<wgVars, pc, kind, tx, recheck, prepared, arrived, anteVars, answered, nodeVars>>
    BY DEF ReactorReceive
  <2> DEFINE c == Len(chCheckTx)
  <2>2. /\ chCheckTx \in Seq(Req) /\ c \in Nat /\ Len(arrived) \in Nat /\ Handled \in Nat
        /\ Handled = Received /\ Received = Len(arrived) - c
    BY <2>0, <2>1, PipelineSizes
  <2>3. /\ c >= 1 /\ reactor' = chCheckTx[1] /\ reactor' \in Req
        /\ chCheckTx' \in Seq(Req) /\ Len(chCheckTx') = c - 1
        /\ \A i \in 1 .. c - 1 : chCheckTx'[i] = chCheckTx[i + 1]
    BY <2>1, <2>2, SMT
  <2>4. Flow'
    <3>1. Len(chCheckTx') <= ChanCap
      BY <2>0, <2>2, <2>3, ChanCapAssumption, SMT DEF Flow
    <3> QED
      BY <2>0, <2>1, <2>3, <3>1 DEF Flow, anteVars, nodeVars
  <2>5. Table'
    BY <2>0, <2>1, TableStays
  <2>6. Store' /\ Stages' /\ Answers' /\ Contexts'
    BY <2>0, <2>1 DEF Store, Stages, StageOf, Answers, Unanswered, Contexts, ContextOf, Checking, wgVars, anteVars, nodeVars
  <2>7. Pipeline'
    <3>1. Received' = Received + 1 /\ Handled' = Handled /\ reactor' # NoReq
      BY <2>1, <2>2, <2>3, NoReqAssumption, SMT DEF Received, Handled
    <3>2. \A i \in 1 .. c : chCheckTx[i] = arrived[Received + i]
      BY <2>0 DEF Pipeline
    <3>3. reactor' = arrived[Received + 1]
      BY <2>2, <2>3, <3>2, SMT
    <3>4. ASSUME NEW i \in 1 .. c - 1 PROVE chCheckTx'[i] = arrived[Received + 1 + i]
      <4>1. i + 1 \in 1 .. c /\ Received + (i + 1) = Received + 1 + i
        BY <2>2, SMT
      <4> QED
        BY <2>3, <3>2, <4>1
    <3>5. UNCHANGED <<arrived, pc, tx, ticket>>
      BY <2>1 DEF wgVars
    <3> QED
      BY <2>0, <2>3, <3>1, <3>3, <3>4, <3>5 DEF Pipeline
  <2> QED
    BY <2>4, <2>5, <2>6, <2>7 DEF IInv
\* The request at the reactor leaves it: rejected, or registered as the last.
<1>Leave. ASSUME NEW r \in Req, reactor = r, reactor' = NoReq, UNCHANGED <<tx, chCheckTx, arrived>>,
                 NEW to \in PC, to \notin {"idle", "queued"}, Goto(r, to),
                 \A s \in Req : s # r => ticket'[s] = ticket[s],
                 tx[r].valid => ticket'[r] = clock + 1
          PROVE  Pipeline'
  <2> USE <1>Leave
  <2>0. Table /\ Flow /\ Stages /\ Pipeline
    BY DEF IInv
  <2> DEFINE n == Len(arrived)
  <2>1. Received \in 1 .. n /\ arrived[Received] = r /\ Handled = Received - 1 /\ n \in Nat
    BY <2>0, AtReactor, PipelineSizes
  <2>2. Received' = Received /\ Handled' = Received
    BY DEF Received, Handled
  <2>3. \A s \in Req : pc'[s] = IF s = r THEN to ELSE pc[s]
    BY <2>0 DEF Flow, Goto
  <2>4. ASSUME NEW i \in 1 .. n, i # Received PROVE arrived[i] \in Req /\ arrived[i] # r
    BY <2>0, <2>1, <2>4, SMT DEF Pipeline
  <2>5. ASSUME NEW i \in 1 .. n
        PROVE  IF i <= Received THEN pc'[arrived[i]] \notin {"idle", "queued"} ELSE pc'[arrived[i]] = "queued"
    <3>1. CASE i = Received
      BY <2>1, <2>3, <3>1, SMT
    <3>2. CASE i # Received
      <4>1. pc'[arrived[i]] = pc[arrived[i]]
        BY <2>3, <2>4, <3>2
      <4>2. i <= Handled <=> i <= Received
        BY <2>1, <3>2, SMT
      <4> QED
        BY <2>0, <4>1, <4>2 DEF Pipeline
    <3> QED
      BY <3>1, <3>2
  <2>6. ASSUME NEW i \in 1 .. Handled, tx[arrived[i]].valid
        PROVE  ticket[arrived[i]] \in 1 .. clock /\ arrived[i] \in Req /\ arrived[i] # r
    <3>1. i \in 1 .. n /\ i # Received /\ i <= Handled
      BY <2>1, SMT
    <3>2. arrived[i] \in Req /\ arrived[i] # r /\ pc[arrived[i]] \notin {"idle", "queued"}
      BY <2>0, <2>4, <3>1 DEF Pipeline
    <3>3. pc[arrived[i]] \in PC /\ StageOf(arrived[i])
      BY <2>0, <3>2 DEF Flow, Stages
    <3>4. stage[arrived[i]] # "new"
      BY <2>6, <3>2, <3>3 DEF StageOf, PC, Running
    <3> QED
      BY <2>0, <3>2, <3>4, TableTickets
  <2>7. ASSUME NEW i \in 1 .. Received, NEW j \in 1 .. Received, i < j, tx[arrived[i]].valid, tx[arrived[j]].valid
        PROVE  ticket'[arrived[i]] < ticket'[arrived[j]]
    <3>1. i \in 1 .. Handled /\ (j \in 1 .. Handled \/ j = Received)
      BY <2>1, <2>7, SMT
    <3>2. ticket'[arrived[i]] = ticket[arrived[i]] /\ ticket[arrived[i]] \in 1 .. clock
      BY <2>6, <2>7, <3>1
    <3>3. CASE j = Received
      <4>1. ticket'[arrived[j]] = clock + 1 /\ clock \in Nat
        BY <2>0, <2>1, <2>7, <3>3, TableTypes
      <4> QED
        BY <3>2, <4>1, SMT
    <3>4. CASE j \in 1 .. Handled
      <4>1. ticket'[arrived[j]] = ticket[arrived[j]]
        BY <2>6, <2>7, <3>4
      <4> QED
        BY <2>0, <2>7, <3>1, <3>2, <3>4, <4>1 DEF Pipeline
    <3> QED
      BY <3>1, <3>3, <3>4
  <2> QED
    BY <2>0, <2>1, <2>2, <2>5, <2>7, SMT DEF Pipeline
<1>Reject. ASSUME NEW r \in Req, ReactorReject(r) PROVE IInv'
  <2> USE <1>Reject
  <2>0. Table /\ Flow /\ Store /\ Stages /\ Answers /\ Contexts
    BY DEF IInv
  <2>1. /\ reactor = r /\ ~tx[r].valid /\ reactor' = NoReq /\ Goto(r, "over")
        /\ verdict' = [verdict EXCEPT ![r] = "err"] /\ answered' = answered \cup {r}
        /\ UNCHANGED <<wgVars, kind, tx, recheck, prepared, chCheckTx, arrived, check, ctxEpoch, branch, nodeVars>>
    BY DEF ReactorReject, PreCheckTx
  <2>2. pc[r] = "queued" /\ stage[r] = "new" /\ tx[r] \in TxSet
    BY <2>1, AtReactor
  <2>3. /\ "over" \in PC /\ pc' \in [Req -> PC] /\ \A s \in Req : pc'[s] = IF s = r THEN "over" ELSE pc[s]
        /\ verdict' \in [Req -> {"none", "ok", "err"}] /\ \A s \in Req : s # r => verdict'[s] = verdict[s]
    BY <2>0, <2>1 DEF Flow, Goto, PC
  <2>4. UNCHANGED <<stage, signers, ticket, mempool, epoch>>
    BY <2>1 DEF wgVars, nodeVars
  <2>5. Table' /\ Store'
    BY <2>0, <2>1, TableStays DEF Store, nodeVars
  <2>6. Flow'
    BY <2>0, <2>1, <2>3, <2>4 DEF Flow
  <2>7. Stages'
    <3>1. StageOf(r)'
      BY <2>1, <2>2, <2>3, <2>4 DEF StageOf, Running
    <3> QED
      BY <2>0, <2>1, <2>3, <2>4, <3>1, StagesStep
  <2>8. Answers'
    BY <2>0, <2>1, <2>2, <2>3, <2>4, AnswersStep
  <2>9. Contexts'
    <3>1. ContextOf(r)
      BY <2>0 DEF Contexts
    <3>2. ContextOf(r)'
      BY <2>1, <2>3, <2>4, <3>1 DEF ContextOf, Checking
    <3> QED
      BY <2>0, <2>1, <2>3, <2>4, <3>2, ContextsStep
  <2>10. Pipeline'
    BY <2>1, <2>3, <2>4, <1>Leave
  <2> QED
    BY <2>5, <2>6, <2>7, <2>8, <2>9, <2>10 DEF IInv
<1>Register. ASSUME NEW r \in Req, ReactorRegister(r) PROVE IInv'
  <2> USE <1>Register
  <2>0. Table /\ Flow /\ Store /\ Stages /\ Answers /\ Contexts
    BY DEF IInv
  <2>1. /\ reactor = r /\ tx[r].valid /\ reactor' = NoReq /\ Goto(r, "registered") /\ WG!Register(r, tx[r].signers)
        /\ UNCHANGED <<kind, tx, recheck, prepared, chCheckTx, arrived, anteVars, answered, nodeVars>>
    BY DEF ReactorRegister, PreCheckTx
  <2>2. pc[r] = "queued" /\ stage[r] = "new" /\ tx[r] \in TxSet
    BY <2>1, AtReactor
  <2>3. "registered" \in PC /\ pc' \in [Req -> PC] /\ \A s \in Req : pc'[s] = IF s = r THEN "registered" ELSE pc[s]
    BY <2>0, <2>1 DEF Flow, Goto, PC
  <2>4. UNCHANGED <<verdict, ctxEpoch, mempool, epoch>>
    BY <2>1 DEF anteVars, nodeVars
  <2>5. DOMAIN stage = Req /\ DOMAIN signers = Req /\ ticket \in [Req -> Nat] /\ tx[r].signers \in SUBSET Account
    BY <2>0, <2>2, TableTypes, TxFields
  <2>6. /\ \A s \in Req : s # r => stage'[s] = stage[s] /\ signers'[s] = signers[s] /\ ticket'[s] = ticket[s]
        /\ stage'[r] = "waiting" /\ signers'[r] = tx[r].signers /\ ticket'[r] = clock + 1
    BY <2>1, <2>5 DEF WG!Register
  <2>7. Table'
    BY <2>0, <2>1, <2>5, TableRegister
  <2>8. Flow' /\ Store'
    BY <2>0, <2>1, <2>3 DEF Flow, Store, anteVars, nodeVars
  <2>9. Stages'
    <3>1. StageOf(r)'
      BY <2>1, <2>2, <2>3, <2>6 DEF StageOf, Running
    <3> QED
      BY <2>0, <2>1, <2>3, <2>6, <3>1, StagesStep
  <2>10. Answers'
    <3>1. r \notin answered
      BY <2>0, <2>2 DEF Answers
    <3> QED
      BY <2>0, <2>1, <2>2, <2>3, <2>4, <3>1, AnswersStep
  <2>11. Contexts'
    <3>1. ContextOf(r)
      BY <2>0 DEF Contexts
    <3>2. ContextOf(r)'
      BY <2>2, <2>3, <2>4, <3>1 DEF ContextOf, Checking
    <3> QED
      BY <2>0, <2>3, <2>4, <3>2, ContextsStep
  <2>12. Pipeline'
    BY <2>1, <2>3, <2>6, <1>Leave
  <2> QED
    BY <2>7, <2>8, <2>9, <2>10, <2>11, <2>12 DEF IInv
<1> QED
  BY <1>Receive, <1>Reject, <1>Register DEF ReactorStep

\* The steps of checkTx.
LEMMA CheckKeeps == ASSUME IInv PROVE \A r \in Req : CheckStep(r) => IInv'
\* A registered request goes on, and the request alone is concerned.
<1>Move. ASSUME NEW r \in Req, NEW to \in PC, Goto(r, to),
                pc[r] \notin {"idle", "queued"}, to \notin {"idle", "queued"},
                UNCHANGED <<tx, arrived, chCheckTx, reactor, signers, ticket, epoch, mempool>>,
                \A s \in Req : s # r => /\ stage'[s] = stage[s]
                                        /\ verdict'[s] = verdict[s] /\ ctxEpoch'[s] = ctxEpoch[s],
                StageOf(r)', ContextOf(r)',
                answered' = answered \/ answered' = answered \cup {r},
                r \in answered' => to \in {"done", "over"}
         PROVE  Stages' /\ Answers' /\ Contexts' /\ Pipeline'
  <2> USE <1>Move
  <2>0. Flow /\ Stages /\ Answers /\ Contexts /\ Pipeline
    BY DEF IInv
  <2>1. \A s \in Req : pc'[s] = IF s = r THEN to ELSE pc[s]
    BY <2>0 DEF Flow, Goto
  <2>2. Stages'
    BY <2>0, <2>1, StagesStep
  <2>3. Answers'
    BY <2>0, AnswersStep
  <2>4. Contexts'
    BY <2>0, <2>1, ContextsStep
  <2>5. Pipeline'
    BY <2>0, <2>1, PipelineStep
  <2> QED
    BY <2>2, <2>3, <2>4, <2>5
<1>Wait. ASSUME NEW r \in Req, WaitReturns(r) PROVE IInv'
  <2> USE <1>Wait
  <2>0. Table /\ Flow /\ Store
    BY DEF IInv
  <2>1. /\ pc[r] = "registered" /\ WG!Wait(r) /\ Goto(r, "check")
        /\ UNCHANGED <<pipeVars, anteVars, answered, nodeVars>>
    BY DEF WaitReturns
  <2>2. /\ StageOf(r) /\ ContextOf(r) /\ (r \in answered => pc[r] \in {"done", "over"}) /\ DOMAIN stage = Req
        /\ pc \in [Req -> PC]
    BY Position
  <2>3. "check" \in PC /\ pc' \in [Req -> PC] /\ pc'[r] = "check"
    BY <2>1, <2>2 DEF Goto, PC
  <2>4. UNCHANGED <<tx, arrived, chCheckTx, reactor, signers, ticket, epoch, mempool, verdict, ctxEpoch>>
    BY <2>1 DEF pipeVars, anteVars, nodeVars, WG!Wait
  <2>5. stage[r] = "waiting" /\ stage'[r] = "running" /\ \A s \in Req : s # r => stage'[s] = stage[s]
    BY <2>1, <2>2 DEF WG!Wait
  <2>6. StageOf(r)' /\ ContextOf(r)'
    BY <2>1, <2>2, <2>3, <2>4, <2>5 DEF StageOf, ContextOf, Checking, Running
  <2>7. Stages' /\ Answers' /\ Contexts' /\ Pipeline'
    BY <2>1, <2>2, <2>3, <2>4, <2>5, <2>6, <1>Move
  <2>8. Flow' /\ Store'
    BY <2>0, <2>1, <2>3 DEF Flow, Store, pipeVars, anteVars, nodeVars
  <2>9. Table'
    BY <2>0, <2>1, TableWait
  <2> QED
    BY <2>7, <2>8, <2>9 DEF IInv
<1>Done. ASSUME NEW r \in Req, DoneStep(r) PROVE IInv'
  <2> USE <1>Done
  <2>0. Table /\ Flow /\ Store
    BY DEF IInv
  <2>1. /\ pc[r] \in {"done", "reply"} /\ (answered' = answered \/ answered' = answered \cup {r})
        /\ WG!Done(r) /\ Goto(r, "over") /\ UNCHANGED <<pipeVars, anteVars, nodeVars>>
    BY DEF DoneStep
  <2>2. StageOf(r) /\ ContextOf(r) /\ DOMAIN stage = Req /\ pc \in [Req -> PC]
    BY Position
  <2>3. "over" \in PC /\ pc' \in [Req -> PC] /\ pc'[r] = "over"
    BY <2>1, <2>2 DEF Goto, PC
  <2>4. UNCHANGED <<tx, arrived, chCheckTx, reactor, signers, ticket, epoch, mempool, verdict, ctxEpoch>>
    BY <2>1 DEF pipeVars, anteVars, nodeVars, WG!Done
  <2>5. stage[r] = "running" /\ stage'[r] = "finished" /\ \A s \in Req : s # r => stage'[s] = stage[s]
    BY <2>1, <2>2 DEF WG!Done
  <2>6. StageOf(r)' /\ ContextOf(r)'
    BY <2>1, <2>2, <2>3, <2>4, <2>5 DEF StageOf, ContextOf, Checking, Running
  <2>7. Stages' /\ Answers' /\ Contexts' /\ Pipeline'
    BY <2>1, <2>3, <2>4, <2>5, <2>6, <1>Move
  <2>8. Flow' /\ Store'
    BY <2>0, <2>1, <2>3 DEF Flow, Store, pipeVars, anteVars, nodeVars
  <2>9. Table'
    BY <2>0, <2>1, TableDone
  <2> QED
    BY <2>7, <2>8, <2>9 DEF IInv
\* The steps between Wait and Done: the table and the pipeline stay.
<1>Inner. ASSUME NEW r \in Req, NEW to \in Running, Goto(r, to), pc[r] \in Running,
                 UNCHANGED <<wgVars, pipeVars, nodeVars>>, Store',
                 verdict' \in [Req -> {"none", "ok", "err"}],
                 \A s \in Req : s # r => verdict'[s] = verdict[s] /\ ctxEpoch'[s] = ctxEpoch[s],
                 ctxEpoch'[r] = IF pc[r] = "check" THEN epoch ELSE ctxEpoch[r],
                 to \in {"fee", "collect", "sig", "write"} => Checking(r) \/ pc[r] = "check",
                 to \in {"check", "fee", "collect", "sig"} =>
                     verdict' = verdict /\ pc[r] \in {"check", "fee", "collect", "sig"},
                 answered' = answered \/ answered' = answered \cup {r},
                 r \in answered' => to = "done"
          PROVE  IInv'
  <2> USE <1>Inner
  <2>0. Table /\ Flow /\ Store
    BY DEF IInv
  <2>2. /\ StageOf(r) /\ ContextOf(r) /\ pc \in [Req -> PC] /\ epoch \in Nat /\ ctxEpoch \in [Req -> Nat]
    BY Position
  <2>3. to \in PC /\ pc' \in [Req -> PC] /\ pc'[r] = to
    BY <2>2 DEF Goto, PC, Running
  <2>4. UNCHANGED <<tx, arrived, chCheckTx, reactor, signers, ticket, epoch, mempool, stage>>
    BY DEF pipeVars, nodeVars, wgVars
  <2>5. StageOf(r)'
    BY <2>2, <2>3, <2>4 DEF StageOf, Running
  <2>6. ContextOf(r)'
    BY <2>2, <2>3, <2>4, SMT DEF ContextOf, Checking, Running
  <2>7. Stages' /\ Answers' /\ Contexts' /\ Pipeline'
    BY <2>3, <2>4, <2>5, <2>6, <1>Move DEF Running
  <2>8. Flow'
    BY <2>0, <2>3 DEF Flow, pipeVars, nodeVars
  <2>9. Table'
    BY <2>0, TableStays
  <2> QED
    BY <2>7, <2>8, <2>9 DEF IInv
\* The types of the store when only the cache and one branch change.
<1>Store. ASSUME Store, NEW r \in Req, NEW b, check' \in [Key -> Nat \cup {Absent}],
                 branch' = [branch EXCEPT ![r] = b], DOMAIN b \subseteq Key, \A k \in DOMAIN b : b[k] \in Nat,
                 ctxEpoch' \in [Req -> Nat], UNCHANGED nodeVars
          PROVE  Store'
  <2> USE <1>Store
  <2>1. /\ DOMAIN branch' = Req
        /\ \A s \in Req : DOMAIN branch'[s] \subseteq Key /\ \A k \in DOMAIN branch'[s] : branch'[s][k] \in Nat
    BY DEF Store
  <2> QED
    BY <2>1 DEF Store, nodeVars
<1>Context. ASSUME NEW r \in Req, GetCheckContext(r) PROVE IInv'
  <2> USE <1>Context
  <2>0. Store
    BY DEF IInv
  <2>1. /\ pc[r] = "check" /\ ctxEpoch' = [ctxEpoch EXCEPT ![r] = epoch] /\ branch' = [branch EXCEPT ![r] = <<>>]
        /\ Goto(r, "fee") /\ UNCHANGED <<wgVars, pipeVars, check, verdict, answered, nodeVars>>
    BY DEF GetCheckContext
  <2>2. /\ (r \in answered => pc[r] \in {"done", "over"}) /\ verdict \in [Req -> {"none", "ok", "err"}]
        /\ ctxEpoch \in [Req -> Nat] /\ epoch \in Nat
    BY Position
  <2>3. /\ ctxEpoch' \in [Req -> Nat] /\ ctxEpoch'[r] = epoch
        /\ \A s \in Req : s # r => ctxEpoch'[s] = ctxEpoch[s]
    BY <2>1, <2>2
  <2>4. DOMAIN <<>> = {} /\ check' \in [Key -> Nat \cup {Absent}]
    BY <2>0, <2>1, SMT DEF Store
  <2>5. Store'
    BY <2>0, <2>1, <2>3, <2>4, <1>Store
  <2> QED
    BY <2>1, <2>2, <2>3, <2>5, <1>Inner DEF Running
<1>Deduct. ASSUME NEW r \in Req, DeductFee(r) PROVE IInv'
  <2> USE <1>Deduct
  <2> DEFINE p == tx[r].payer
  <2>0. Store
    BY DEF IInv
  <2>1. /\ pc[r] = "fee" /\ check' = Filled({Acc(p), Bal(p)})
        /\ UNCHANGED <<wgVars, pipeVars, ctxEpoch, answered, nodeVars>>
        /\ \/ View(Bal(p)) < 1 /\ Abort(r) /\ UNCHANGED branch
           \/ /\ View(Bal(p)) >= 1 /\ branch' = [branch EXCEPT ![r] = Charged(p)]
              /\ Goto(r, "collect") /\ UNCHANGED verdict
    BY DEF DeductFee
  <2>2. /\ (r \in answered => pc[r] \in {"done", "over"}) /\ verdict \in [Req -> {"none", "ok", "err"}]
        /\ ctxEpoch \in [Req -> Nat] /\ StageOf(r)
    BY Position
  <2>3. p \in Account
    BY <2>1, <2>2, TxFields DEF StageOf
  <2>4. check' \in [Key -> Nat \cup {Absent}]
    BY <2>0, <2>1, Views
  <2>5. CASE View(Bal(p)) < 1 /\ Abort(r) /\ UNCHANGED branch
    <3>1. Store'
      BY <2>0, <2>1, <2>4, <2>5 DEF Store, nodeVars
    <3>2. Goto(r, "reply") /\ verdict' = [verdict EXCEPT ![r] = "err"]
      BY <2>5 DEF Abort
    <3>3. verdict' \in [Req -> {"none", "ok", "err"}] /\ \A s \in Req : s # r => verdict'[s] = verdict[s]
      BY <2>2, <3>2
    <3> QED
      BY <2>1, <2>2, <3>1, <3>2, <3>3, <1>Inner DEF Running
  <2>6. CASE View(Bal(p)) >= 1 /\ branch' = [branch EXCEPT ![r] = Charged(p)] /\ Goto(r, "collect") /\ UNCHANGED verdict
    <3> HIDE DEF p
    <3>1. Acc(p) \in Key /\ Bal(p) \in Key /\ View(Acc(p)) \in Nat /\ View(Bal(p)) \in Nat
      BY <2>0, <2>3, Keys, Views
    <3>2. View(Bal(p)) - 1 \in Nat
      BY <2>6, <3>1, SMT
    <3>3. DOMAIN Charged(p) = {Acc(p), Bal(p)} /\ \A k \in {Acc(p), Bal(p)} : Charged(p)[k] \in Nat
      BY <3>1, <3>2 DEF Charged
    <3>4. Store'
      BY <2>0, <2>1, <2>2, <2>4, <2>6, <3>1, <3>3, <1>Store
    <3> QED
      BY <2>1, <2>2, <2>6, <3>4, <1>Inner DEF Running, Checking
  <2> QED
    BY <2>1, <2>5, <2>6
<1>Collect. ASSUME NEW r \in Req, AddToCollector(r) PROVE IInv'
  <2> USE <1>Collect
  <2> DEFINE g == [k \in {Bal(FeeCollector)} |-> View(k) + 1]
  <2>0. Store
    BY DEF IInv
  <2>1. /\ pc[r] = "collect" /\ check' = Filled({Bal(FeeCollector)})
        /\ branch' = [branch EXCEPT ![r] = Put(branch[r], g)] /\ Goto(r, "sig")
        /\ UNCHANGED <<wgVars, pipeVars, ctxEpoch, verdict, answered, nodeVars>>
    BY DEF AddToCollector
  <2>2. /\ (r \in answered => pc[r] \in {"done", "over"}) /\ verdict \in [Req -> {"none", "ok", "err"}]
        /\ ctxEpoch \in [Req -> Nat]
    BY Position
  <2>3. check' \in [Key -> Nat \cup {Absent}]
    BY <2>0, <2>1, Views
  <2>4. View(Bal(FeeCollector)) \in Nat /\ Bal(FeeCollector) \in Key
    BY <2>0, Keys, Views
  <2>5. DOMAIN g = {Bal(FeeCollector)} /\ \A k \in {Bal(FeeCollector)} : g[k] \in Nat
    BY <2>4, SMT
  <2>6. DOMAIN branch[r] \subseteq Key /\ \A k \in DOMAIN branch[r] : branch[r][k] \in Nat
    BY <2>0 DEF Store
  <2> HIDE DEF g
  <2>7. DOMAIN Put(branch[r], g) \subseteq Key /\ \A k \in DOMAIN Put(branch[r], g) : Put(branch[r], g)[k] \in Nat
    BY <2>4, <2>5, <2>6 DEF Put
  <2>8. Store'
    BY <2>0, <2>1, <2>2, <2>3, <2>7, <1>Store
  <2> QED
    BY <2>1, <2>2, <2>8, <1>Inner DEF Running, Checking
<1>Verify. ASSUME NEW r \in Req, VerifyAndIncrement(r) PROVE IInv'
  <2> USE <1>Verify
  <2> DEFINE K == {Acc(a) : a \in GetSigners(tx[r])}
             g == [k \in K |-> Seen(r, k) + 1]
  <2>0. Store
    BY DEF IInv
  <2>1. /\ pc[r] = "sig" /\ check' = Filled(SignersRead(r))
        /\ UNCHANGED <<wgVars, pipeVars, ctxEpoch, answered, nodeVars>>
        /\ \/ ~Verified(r) /\ Abort(r) /\ branch' = [branch EXCEPT ![r] = <<>>]
           \/ /\ Verified(r) /\ branch' = [branch EXCEPT ![r] = Incremented(r)]
              /\ verdict' = [verdict EXCEPT ![r] = "ok"] /\ Goto(r, "write")
    BY DEF VerifyAndIncrement
  <2>2. /\ (r \in answered => pc[r] \in {"done", "over"}) /\ verdict \in [Req -> {"none", "ok", "err"}]
        /\ ctxEpoch \in [Req -> Nat] /\ StageOf(r)
    BY Position
  <2>3. check' \in [Key -> Nat \cup {Absent}]
    BY <2>0, <2>1, Views
  <2>4. GetSigners(tx[r]) \subseteq Account
    BY <2>1, <2>2, TxFields DEF StageOf
  <2>5. CASE ~Verified(r) /\ Abort(r) /\ branch' = [branch EXCEPT ![r] = <<>>]
    <3>0. DOMAIN <<>> = {}
      BY SMT
    <3>1. Store'
      BY <2>0, <2>1, <2>2, <2>3, <2>5, <3>0, <1>Store
    <3>2. Goto(r, "reply") /\ verdict' = [verdict EXCEPT ![r] = "err"]
      BY <2>5 DEF Abort
    <3>3. verdict' \in [Req -> {"none", "ok", "err"}] /\ \A s \in Req : s # r => verdict'[s] = verdict[s]
      BY <2>2, <3>2
    <3> QED
      BY <2>1, <2>2, <3>1, <3>2, <3>3, <1>Inner DEF Running
  <2>6. CASE /\ Verified(r) /\ branch' = [branch EXCEPT ![r] = Incremented(r)]
             /\ verdict' = [verdict EXCEPT ![r] = "ok"] /\ Goto(r, "write")
    <3>1. K \subseteq Key
      BY <2>4, Keys
    <3>2. DOMAIN branch[r] \subseteq Key /\ \A k \in DOMAIN branch[r] : branch[r][k] \in Nat
      BY <2>0 DEF Store
    <3>3. \A k \in K : Seen(r, k) \in Nat
      BY <2>0, <3>1, <3>2, Views DEF Seen
    <3>4. DOMAIN g = K /\ \A k \in K : g[k] \in Nat
      BY <3>3, SMT
    <3>5. Incremented(r) = Put(branch[r], g)
      BY DEF Incremented
    <3> HIDE DEF K, g
    <3>6. DOMAIN Incremented(r) \subseteq Key /\ \A k \in DOMAIN Incremented(r) : Incremented(r)[k] \in Nat
      BY <3>1, <3>2, <3>4, <3>5 DEF Put
    <3>7. Store'
      BY <2>0, <2>1, <2>2, <2>3, <2>6, <3>6, <1>Store
    <3>8. verdict' \in [Req -> {"none", "ok", "err"}] /\ \A s \in Req : s # r => verdict'[s] = verdict[s]
      BY <2>2, <2>6
    <3> QED
      BY <2>1, <2>2, <2>6, <3>7, <3>8, <1>Inner DEF Running, Checking
  <2> QED
    BY <2>1, <2>5, <2>6
<1>Write. ASSUME NEW r \in Req, NEW k \in Key, WriteKey(r, k) PROVE IInv'
  <2> USE <1>Write
  <2> DEFINE b == Restrict(branch[r], DOMAIN branch[r] \ {k})
  <2>0. Store
    BY DEF IInv
  <2>1. /\ pc[r] = "write" /\ k \in DOMAIN branch[r]
        /\ check' = IF ctxEpoch[r] = epoch THEN [check EXCEPT ![k] = branch[r][k]] ELSE check
        /\ branch' = [branch EXCEPT ![r] = b]
        /\ UNCHANGED <<wgVars, pipeVars, ctxEpoch, verdict, answered, nodeVars>>
        /\ Goto(r, "reply") \/ pc' = pc
    BY <2>0 DEF WriteKey, Store
  <2>2. /\ (r \in answered => pc[r] \in {"done", "over"}) /\ verdict \in [Req -> {"none", "ok", "err"}]
        /\ ctxEpoch \in [Req -> Nat] /\ pc \in [Req -> PC]
    BY Position
  <2>3. Goto(r, "reply") \/ Goto(r, "write")
    BY <2>1, <2>2 DEF Goto
  <2>4. check' \in [Key -> Nat \cup {Absent}]
    BY <2>0, <2>1 DEF Store
  <2>5. DOMAIN b \subseteq Key /\ \A x \in DOMAIN b : b[x] \in Nat
    BY <2>0 DEF Store, Restrict
  <2> HIDE DEF b
  <2>6. Store'
    BY <2>0, <2>1, <2>2, <2>4, <2>5, <1>Store
  <2>7. CASE Goto(r, "reply")
    BY <2>1, <2>2, <2>6, <2>7, <1>Inner DEF Running, Checking
  <2>8. CASE Goto(r, "write")
    BY <2>1, <2>2, <2>6, <2>8, <1>Inner DEF Running, Checking
  <2> QED
    BY <2>3, <2>7, <2>8
<1>Callback. ASSUME NEW r \in Req, Callback(r) PROVE IInv'
  <2> USE <1>Callback
  <2>0. Store
    BY DEF IInv
  <2>1. /\ pc[r] = "reply" /\ answered' = answered \cup {r} /\ Goto(r, "done")
        /\ UNCHANGED <<wgVars, pipeVars, anteVars, nodeVars>>
    BY DEF Callback
  <2>2. verdict \in [Req -> {"none", "ok", "err"}]
    BY Position
  <2>3. Store' /\ UNCHANGED <<verdict, ctxEpoch>>
    BY <2>0, <2>1 DEF Store, anteVars, nodeVars
  <2> QED
    BY <2>1, <2>2, <2>3, <1>Inner DEF Running
<1> QED
  BY <1>Wait, <1>Context, <1>Deduct, <1>Collect, <1>Verify, <1>Write, <1>Callback, <1>Done DEF CheckStep

\* Ostracon's steps, and steps of others.
LEMMA NodeKeeps ==
    ASSUME IInv
    PROVE  (\E S \in SUBSET Account : Commit(S)) \/ BeginRecheckTx \/ Unlock \/ UNCHANGED vars => IInv'
<1>Node. ASSUME UNCHANGED <<wgVars, pc, pipeVars, ctxEpoch, branch, verdict, answered>>,
                Store', mempool' \in {"open", "committed", "recheck"},
                \/ epoch' = epoch
                \/ epoch' = epoch + 1 /\ Unanswered = {},
                mempool' = "committed" => Unanswered = {}
         PROVE  IInv'
  <2> USE <1>Node
  <2>0. Table /\ Flow /\ Store /\ Stages /\ Answers /\ Contexts /\ Pipeline
    BY DEF IInv
  <2>1. Table' /\ Flow'
    BY <2>0, TableStays DEF Flow, pipeVars
  <2>2. Stages'
    BY <2>0 DEF Stages, StageOf, wgVars, pipeVars
  <2>3. Answers'
    BY <2>0 DEF Answers, Unanswered
  <2>4. Contexts'
    <3> SUFFICES ASSUME NEW r \in Req PROVE ContextOf(r)'
      BY DEF Contexts
    <3>1. ContextOf(r) /\ epoch \in Nat /\ ctxEpoch[r] \in Nat
      BY <2>0 DEF Contexts, Store
    <3>2. CASE epoch' = epoch
      BY <3>1, <3>2 DEF ContextOf, Checking
    <3>3. CASE epoch' = epoch + 1 /\ Unanswered = {}
      <4>1. ~Checking(r)
        BY <2>0, <3>3 DEF Unanswered, Checking, Answers
      <4> QED
        BY <3>1, <3>3, <4>1, SMT DEF ContextOf, Checking
    <3> QED
      BY <3>2, <3>3
  <2>5. Pipeline'
    BY <2>0, PipelineStep DEF wgVars, pipeVars
  <2> QED
    BY <2>1, <2>2, <2>3, <2>4, <2>5 DEF IInv
<1>Commit. ASSUME NEW S \in SUBSET Account, Commit(S) PROVE IInv'
  <2> USE <1>Commit
  <2>0. Store
    BY DEF IInv
  <2>1. /\ Unanswered = {} /\ commits < MaxCommit /\ commits' = commits + 1 /\ mempool' = "committed"
        /\ \A a \in S : committed[Bal(a)] >= 1
        /\ committed' = [k \in Key |-> CASE k[2] = FeeCollector -> committed[k] + Cardinality(S)
                                         [] k[2] \notin S -> committed[k]
                                         [] k[1] = "acc" -> committed[k] + 1
                                         [] OTHER -> committed[k] - 1]
        /\ UNCHANGED <<wgVars, pc, pipeVars, anteVars, answered, epoch>>
    BY DEF Commit
  <2>2. Cardinality(S) \in Nat
    BY AccountAssumption
  <2>3. ASSUME NEW k \in Key PROVE committed'[k] \in Nat
    <3>1. committed[k] \in Nat
      BY <2>0 DEF Store
    <3>2. k[1] = "acc" \/ k = Bal(k[2])
      BY SMT DEF Key, Acc, Bal
    <3>3. CASE k[2] = FeeCollector
      BY <2>1, <2>2, <3>1, <3>3, SMT
    <3>4. CASE k[2] # FeeCollector /\ k[2] \notin S
      BY <2>1, <3>1, <3>4, SMT
    <3>5. CASE k[2] # FeeCollector /\ k[2] \in S /\ k[1] = "acc"
      BY <2>1, <3>1, <3>5, SMT
    <3>6. CASE k[2] # FeeCollector /\ k[2] \in S /\ k[1] # "acc"
      <4>1. committed[k] >= 1
        BY <2>1, <3>2, <3>6
      <4>2. committed'[k] = committed[k] - 1
        BY <2>1, <3>6
      <4> QED
        BY <3>1, <4>1, <4>2, SMT
    <3> QED
      BY <3>3, <3>4, <3>5, <3>6
  <2>4. Store'
    <3>1. committed' \in [Key -> Nat]
      BY <2>1, <2>3
    <3>2. commits' \in 0 .. MaxCommit
      BY <2>0, <2>1, BoundAssumption, SMT DEF Store
    <3> QED
      BY <2>0, <2>1, <3>1, <3>2 DEF Store, anteVars
  <2> QED
    BY <2>1, <2>4, <1>Node DEF anteVars
<1>Recheck. ASSUME BeginRecheckTx PROVE IInv'
  <2> USE <1>Recheck
  <2>0. Store /\ Answers
    BY DEF IInv
  <2>1. Unanswered = {}
    BY <2>0 DEF BeginRecheckTx, Answers
  <2>2. Store'
    BY <2>0, SMT DEF BeginRecheckTx, Store
  <2> QED
    BY <2>1, <2>2, <1>Node DEF BeginRecheckTx
<1>Unlock. ASSUME Unlock PROVE IInv'
  <2> USE <1>Unlock
  <2>1. Store'
    BY DEF Unlock, Store, IInv, anteVars
  <2> QED
    BY <2>1, <1>Node DEF Unlock, anteVars
<1>Stutter. ASSUME UNCHANGED vars PROVE IInv'
  <2> USE <1>Stutter
  <2>1. /\ UNCHANGED <<wgVars, pc, pipeVars, ctxEpoch, branch, verdict, answered>>
        /\ UNCHANGED <<check, committed, epoch, mempool, commits>>
    BY DEF vars, anteVars, nodeVars
  <2>2. Flow /\ Store /\ Answers
    BY DEF IInv
  <2>3. Store' /\ mempool' \in {"open", "committed", "recheck"} /\ (mempool' = "committed" => Unanswered = {})
    BY <2>1, <2>2 DEF Flow, Store, Answers
  <2> QED
    BY <2>1, <2>3, <1>Node
<1> QED
  BY <1>Commit, <1>Recheck, <1>Unlock, <1>Stutter

LEMMA InitIInv == Init => IInv
<1> SUFFICES ASSUME Init PROVE IInv
  OBVIOUS
<1>2. Table
  BY TableInit DEF Init
<1>3. Flow
  BY ChanCapAssumption, SMT DEF Init, Flow, PC
<1>4. Store
  BY BoundAssumption, SMT DEF Init, Store
<1>5. stage = [r \in Req |-> "new"]
  BY DEF Init, WG!Init
<1>6. Stages /\ Answers /\ Contexts
  BY <1>5, SMT DEF Init, Stages, StageOf, Answers, Contexts, ContextOf, Checking, Running
<1>7. Pipeline
  <2>1. Len(arrived) = 0 /\ Len(chCheckTx) = 0 /\ reactor = NoReq /\ arrived \in Seq(Req)
    BY SMT DEF Init
  <2>2. Received = 0 /\ Handled = 0
    BY <2>1, SMT DEF Received, Handled
  <2> QED
    BY <2>1, <2>2, SMT DEF Pipeline
<1> QED
  BY <1>2, <1>3, <1>4, <1>6, <1>7 DEF IInv

LEMMA NextIInv == IInv /\ [Next]_vars => IInv'
  BY ArriveKeeps, ReactorKeeps, CheckKeeps, NodeKeeps DEF Next

LEMMA SpecIInv == Spec => []IInv
  BY InitIInv, NextIInv, PTL DEF Spec

\* The types: however the requests interleave, no balance in the check state or in
\* a branch goes below 0, and chCheckTx never holds more than its capacity.
THEOREM CheckTxTypeCorrect == Spec => []TypeOK
<1>1. ASSUME IInv PROVE TypeOK
  <2>1. WG!TypeOK
    BY <1>1, TableTypes DEF IInv
  <2>2. \A r \in Req : DOMAIN branch[r] \subseteq Key /\ Range(branch[r]) \subseteq Nat
    BY <1>1 DEF IInv, Store, Range
  <2> QED
    BY <1>1, <2>1, <2>2 DEF IInv, Flow, Store, TypeOK
<1> QED
  BY <1>1, SpecIInv, PTL

\* A check in progress works on the current check state: BeginRecheckTx never
\* replaces it under a request.
THEOREM ContextStaysFresh == Spec => []FreshContext
<1>1. IInv => FreshContext
  BY DEF IInv, Contexts, ContextOf, FreshContext
<1> QED
  BY <1>1, SpecIInv, PTL

\* Async requests with a common message signer are checked in the order in which
\* they entered chCheckTx.
THEOREM CheckedInArrivalOrder == Spec => []ArrivalOrder
<1>1. ASSUME IInv PROVE ArrivalOrder
  <2>0. Table /\ Flow /\ Stages /\ Pipeline
    BY <1>1 DEF IInv
  <2> SUFFICES ASSUME NEW i \in 1 .. Len(arrived), NEW j \in 1 .. Len(arrived), i < j,
                      tx[arrived[i]].valid, tx[arrived[j]].valid,
                      tx[arrived[i]].signers \cap tx[arrived[j]].signers # {}, WG!Past(arrived[j])
               PROVE  stage[arrived[i]] = "finished"
    BY DEF ArrivalOrder
  <2> DEFINE r == arrived[i]
             s == arrived[j]
  <2>1. Handled \in Nat /\ r \in Req /\ s \in Req /\ pc[r] \in PC /\ StageOf(r) /\ StageOf(s)
    BY <2>0, PipelineSizes DEF Flow, Stages
  <2>2. stage[s] # "new"
    BY DEF WG!Past
  <2>3. j <= Handled
    BY <2>0, <2>1, <2>2 DEF Pipeline, StageOf
  <2>4. i \in 1 .. Handled /\ j \in 1 .. Handled
    BY <2>1, <2>3, SMT
  <2>5. ticket[r] < ticket[s] /\ pc[r] \notin {"idle", "queued"}
    BY <2>0, <2>4, SMT DEF Pipeline
  <2>6. stage[r] # "new"
    BY <2>1, <2>5 DEF StageOf, PC, Running
  <2>7. PICK a : a \in signers[r] /\ a \in signers[s]
    BY <2>1, <2>2, <2>6 DEF StageOf
  <2>8. WG!TypeOK /\ WG!RegistrationOrder
    BY <2>0, TableTypes, TableOrder
  <2>9. a \in Account /\ ticket[r] \in Nat /\ ticket[s] \in Nat
    BY <2>1, <2>7, <2>8 DEF WG!TypeOK
  <2>10. WG!Shares(s, r, a) /\ WG!Past(s)
    BY <2>5, <2>7, <2>9, SMT DEF WG!Shares, WG!Past
  <2> QED
    BY <2>1, <2>5, <2>8, <2>9, <2>10 DEF WG!RegistrationOrder
<1> QED
  BY <1>1, SpecIInv, PTL

-----------------------------------------------------------------------------
(* Transactions whose fee payer is among the message signers.  Register     *)
(* then covers every account that the ante handler reads and writes, and   *)
(* running requests have no keys in common but the fee collector's.        *)

PayerSigns == \A t \in TxSet : t.valid => t.payer \in t.signers

\* The keys that a request shares with no other running one.
Own(r) == {Acc(a) : a \in GetSigners(tx[r])} \cup {Bal(tx[r].payer)}

UserKey == {Acc(a) : a \in Account} \cup {Bal(a) : a \in Account}

Pending(r, k) == pc[r] = "write" /\ k \in DOMAIN branch[r]

\* What a request has read of its own keys is still what the check state holds,
\* and it writes no other keys but the fee collector's.
BranchOf(r) ==
    /\ pc[r] \in {"collect", "sig"} =>
         /\ DOMAIN branch[r] = {Acc(tx[r].payer), Bal(tx[r].payer)}
                                 \cup (IF pc[r] = "sig" THEN {Bal(FeeCollector)} ELSE {})
         /\ branch[r][Acc(tx[r].payer)] = View(Acc(tx[r].payer))
         /\ branch[r][Bal(tx[r].payer)] = View(Bal(tx[r].payer)) - 1
    /\ pc[r] = "write" => DOMAIN branch[r] \subseteq Own(r) \cup {Bal(FeeCollector)}

Branches == \A r \in Req : BranchOf(r)

\* The check state is past every sequence number accepted in it.
AcceptedOf(r) ==
    ctxEpoch[r] = epoch /\ ~recheck[r] /\ verdict[r] = "ok" =>
        \A a \in GetSigners(tx[r]) : tx[r].seq[a] < Effective(Acc(a))

Accepted == \A r \in Req : AcceptedOf(r)

JInv == IInv /\ Branches /\ Accepted /\ AcceptedOnce

\* The variables of SerialCheckTx.
SeqOf == [a \in Account |-> Effective(Acc(a))]
BalOf == [a \in Account |-> Effective(Bal(a))]

LEMMA KeyFacts ==
    /\ \A a, b : Acc(a) # Bal(b)
    /\ \A a, b : (Acc(a) = Acc(b) => a = b) /\ (Bal(a) = Bal(b) => a = b)
    /\ \A k \in UserKey : k \in Key /\ k # Bal(FeeCollector)
<1>1. \A a, b : Acc(a) # Bal(b)
  BY DEF Acc, Bal
<1>2. \A a, b : (Acc(a) = Acc(b) => a = b) /\ (Bal(a) = Bal(b) => a = b)
  BY DEF Acc, Bal
<1>3. \A k \in UserKey : k \in Key /\ k # Bal(FeeCollector)
  BY <1>1, <1>2, AccountAssumption DEF UserKey, Key
<1> QED
  BY <1>1, <1>2, <1>3

\* A request past Register carries a valid transaction of TxSet.
LEMMA RunningTx ==
    ASSUME IInv, NEW r \in Req, pc[r] \in Running
    PROVE  /\ tx[r] \in TxSet /\ tx[r].valid /\ stage[r] = "running" /\ signers[r] = tx[r].signers
           /\ tx[r].payer \in Account /\ GetSigners(tx[r]) \subseteq Account /\ tx[r].seq \in [Account -> Nat]
           /\ tx[r].payer \in GetSigners(tx[r]) /\ Own(r) \subseteq UserKey
<1>1. StageOf(r)
  BY Position
<1>2. tx[r] \in TxSet /\ tx[r].valid /\ stage[r] = "running" /\ signers[r] = tx[r].signers
  BY <1>1 DEF StageOf, Running
<1>3. tx[r].payer \in Account /\ GetSigners(tx[r]) \subseteq Account /\ tx[r].seq \in [Account -> Nat]
  BY <1>2, TxFields
<1> QED
  BY <1>2, <1>3 DEF GetSigners, Own, UserKey

LEMMA OwnDisjoint ==
    ASSUME PayerSigns, IInv, NEW r \in Req, NEW s \in Req, r # s, pc[r] \in Running, pc[s] \in Running,
           NEW k \in Own(r)
    PROVE  k \notin Own(s)
<1>1. /\ tx[r].valid /\ tx[s].valid /\ tx[r] \in TxSet /\ tx[s] \in TxSet
      /\ stage[r] = "running" /\ stage[s] = "running"
      /\ signers[r] = tx[r].signers /\ signers[s] = tx[s].signers
  BY RunningTx
<1>2. GetSigners(tx[r]) = signers[r] /\ GetSigners(tx[s]) = signers[s]
  BY <1>1 DEF PayerSigns, GetSigners
<1>3. Table /\ WG!TypeOK /\ WG!RegistrationOrder
  BY TableTypes, TableOrder DEF IInv
<1>4. ticket[r] \in Nat /\ ticket[s] \in Nat /\ ticket[r] # ticket[s]
  BY <1>1, <1>3, TableTickets DEF WG!TypeOK
<1>5. ASSUME NEW a, a \in signers[r], a \in signers[s] PROVE FALSE
  <2>1. a \in Account /\ WG!Shares(r, s, a) /\ WG!Shares(s, r, a) /\ WG!Past(r) /\ WG!Past(s)
    BY <1>1, <1>3, <1>5 DEF WG!TypeOK, WG!Shares, WG!Past
  <2>2. ticket[r] < ticket[s] \/ ticket[s] < ticket[r]
    BY <1>4, SMT
  <2> QED
    BY <1>1, <1>3, <2>1, <2>2 DEF WG!RegistrationOrder
<1>6. tx[r].payer \in signers[r] /\ tx[s].payer \in signers[s]
  BY <1>1 DEF PayerSigns
<1> QED
  BY <1>2, <1>5, <1>6, KeyFacts, SMT DEF Own

\* Whose keys a pending write may be to.
LEMMA PendingOwn ==
    ASSUME IInv, Branches, NEW r \in Req, NEW k \in UserKey, Pending(r, k)
    PROVE  k \in Own(r)
  BY KeyFacts DEF Branches, BranchOf, Pending

LEMMA EffectivePending ==
    ASSUME PayerSigns, IInv, Branches, NEW r \in Req, NEW k \in UserKey, Pending(r, k)
    PROVE  Effective(k) = branch[r][k]
<1> DEFINE W == {s \in Req : pc[s] = "write" /\ k \in DOMAIN branch[s]}
<1>1. k \in Own(r) /\ pc[r] \in Running
  BY PendingOwn DEF Pending, Running
<1>2. ASSUME NEW s \in Req, Pending(s, k) PROVE s = r
  <2>1. k \in Own(s) /\ pc[s] \in Running
    BY <1>2, PendingOwn DEF Pending, Running
  <2> QED
    BY <1>1, <2>1, OwnDisjoint
<1>3. r \in W /\ \A s \in W : s = r
  BY <1>2 DEF Pending
<1>4. (CHOOSE s \in W : TRUE) = r
  BY <1>3
<1> QED
  BY <1>3, <1>4 DEF Effective

LEMMA EffectiveView ==
    ASSUME NEW k, \A s \in Req : ~Pending(s, k)
    PROVE  Effective(k) = View(k)
  BY DEF Effective, Pending

\* A running request alone may have a pending write to one of its own keys.
LEMMA EffectiveOwn ==
    ASSUME PayerSigns, IInv, Branches, NEW r \in Req, pc[r] \in Running, NEW k \in Own(r), ~Pending(r, k)
    PROVE  Effective(k) = View(k)
<1>1. k \in UserKey
  BY RunningTx
<1>2. ASSUME NEW s \in Req, Pending(s, k) PROVE FALSE
  <2>1. k \in Own(s) /\ pc[s] \in Running /\ s # r
    BY <1>1, <1>2, PendingOwn DEF Pending, Running
  <2> QED
    BY <2>1, OwnDisjoint
<1> QED
  BY <1>2, EffectiveView

LEMMA EffectiveStays ==
    ASSUME NEW k, View(k)' = View(k),
           \A s \in Req : Pending(s, k)' <=> Pending(s, k),
           \A s \in Req : Pending(s, k) => branch'[s][k] = branch[s][k]
    PROVE  Effective(k)' = Effective(k)
<1> DEFINE W == {s \in Req : pc[s] = "write" /\ k \in DOMAIN branch[s]}
           w == CHOOSE s \in W : TRUE
<1>1. W' = W
  BY DEF Pending
<1>2. w' = w
  BY <1>1
<1>3. Effective(k) = IF W = {} THEN View(k) ELSE branch[w][k]
  BY DEF Effective
<1>4. Effective(k)' = IF W' = {} THEN View(k)' ELSE branch'[w'][k]
  BY DEF Effective
<1>5. W # {} => w \in W
  OBVIOUS
<1>6. \A s \in W : branch'[s][k] = branch[s][k]
  BY DEF Pending
<1> HIDE DEF W, w
<1> QED
  BY <1>1, <1>2, <1>3, <1>4, <1>5, <1>6, SMT

LEMMA EffectiveNat ==
    ASSUME IInv, NEW k \in UserKey PROVE Effective(k) \in Nat
<1> DEFINE W == {s \in Req : pc[s] = "write" /\ k \in DOMAIN branch[s]}
           w == CHOOSE s \in W : TRUE
<1>1. Effective(k) = IF W = {} THEN View(k) ELSE branch[w][k]
  BY DEF Effective
<1>2. W # {} => w \in W
  OBVIOUS
<1>3. Store /\ k \in Key
  BY KeyFacts DEF IInv
<1>4. View(k) \in Nat /\ \A s \in W : branch[s][k] \in Nat
  BY <1>3, Views DEF Store
<1> QED
  BY <1>1, <1>2, <1>4

-----------------------------------------------------------------------------
(* The steps of SerialCheckTx, in terms of SeqOf and BalOf.                *)

Serially == [Serial!Next]_(Serial!serialVars)

\* What remains to be shown of every step.
Carries == Branches' /\ Accepted' /\ AcceptedOnce' /\ Serially

LEMMA SerialStutter ==
    ASSUME UNCHANGED <<SeqOf, BalOf, tx, recheck, verdict, commits, epoch>>
    PROVE  Serially
<1>1. UNCHANGED Serial!serialVars
  BY DEF Serial!serialVars, SeqOf, BalOf
<1> QED
  BY <1>1 DEF Serially

LEMMA SerialSubmit ==
    ASSUME IInv, NEW r \in Req, NEW t \in TxSet, NEW re \in BOOLEAN, NEW k \in {"sync", "async"},
           Submit(r, t, re, k), UNCHANGED <<SeqOf, BalOf, commits, epoch>>,
           verdict' = verdict \/ (~t.valid /\ verdict' = [verdict EXCEPT ![r] = "err"])
    PROVE  Serially
<1>1. Flow /\ StageOf(r) /\ pc[r] = "idle" /\ t # NoTx
  BY Position, TxFields DEF IInv, Submit
<1>2. /\ tx[r] = NoTx /\ tx'[r] = t /\ tx'[r] # NoTx
      /\ \A s \in Req \ {r} : tx'[s] = tx[s] /\ recheck'[s] = recheck[s]
  BY <1>1 DEF StageOf, Flow, Submit
<1>3. Serial!Submit(r)
  BY <1>2 DEF Serial!Submit, SeqOf, BalOf
<1> QED
  BY <1>3 DEF Serially, Serial!Next

LEMMA SerialReject ==
    ASSUME NEW r \in Req, tx[r] # NoTx, verdict[r] = "none",
           \/ ~tx[r].valid
           \/ tx[r].payer \in Account /\ BalOf[tx[r].payer] \in Nat /\ BalOf[tx[r].payer] < 1
           \/ ~recheck[r] /\ \E a \in GetSigners(tx[r]) : tx[r].seq[a] # SeqOf[a],
           verdict' = [verdict EXCEPT ![r] = "err"], UNCHANGED <<SeqOf, BalOf, tx, recheck, commits, epoch>>
    PROVE  Serially
<1>1. ~Serial!Passes(r)
  <2>1. CASE ~tx[r].valid
    BY <2>1 DEF Serial!Passes
  <2>2. CASE tx[r].payer \in Account /\ BalOf[tx[r].payer] \in Nat /\ BalOf[tx[r].payer] < 1
    <3>1. ~(BalOf[tx[r].payer] >= 1)
      BY <2>2, SMT
    <3> QED
      BY <3>1 DEF Serial!Passes, BalOf
  <2>3. CASE ~recheck[r] /\ \E a \in GetSigners(tx[r]) : tx[r].seq[a] # SeqOf[a]
    BY <2>3 DEF Serial!Passes, Serial!Signers, GetSigners, SeqOf
  <2> QED
    BY <2>1, <2>2, <2>3
<1>2. Serial!Reject(r)
  BY <1>1 DEF Serial!Reject, SeqOf, BalOf
<1> QED
  BY <1>2 DEF Serially, Serial!Next

LEMMA SerialAccept ==
    ASSUME NEW r \in Req, tx[r] # NoTx, verdict[r] = "none", tx[r].valid, BalOf[tx[r].payer] >= 1,
           recheck[r] \/ \A a \in GetSigners(tx[r]) : tx[r].seq[a] = SeqOf[a],
           SeqOf' = [a \in Account |-> IF a \in GetSigners(tx[r]) THEN SeqOf[a] + 1 ELSE SeqOf[a]],
           BalOf' = [BalOf EXCEPT ![tx[r].payer] = @ - 1],
           verdict' = [verdict EXCEPT ![r] = "ok"], UNCHANGED <<tx, recheck, commits, epoch>>
    PROVE  Serially
<1>1. Serial!Passes(r)
  BY DEF Serial!Passes, Serial!Signers, GetSigners, SeqOf, BalOf
<1>2. Serial!Accept(r)
  BY <1>1 DEF Serial!Accept, Serial!Signers, GetSigners, SeqOf, BalOf
<1> QED
  BY <1>2 DEF Serially, Serial!Next

LEMMA SerialRebase ==
    ASSUME commits' + epoch' = commits + epoch + 1, SeqOf' \in [Account -> Nat], BalOf' \in [Account -> Nat],
           UNCHANGED <<tx, recheck, verdict>>
    PROVE  Serially
<1>1. Serial!Rebase
  BY DEF Serial!Rebase, SeqOf, BalOf
<1> QED
  BY <1>1 DEF Serially, Serial!Next

-----------------------------------------------------------------------------
(* Steps that write nothing: the values stay as SerialCheckTx sees them.    *)

LEMMA OkTx ==
    ASSUME IInv, NEW r \in Req, verdict[r] = "ok"
    PROVE  /\ tx[r] \in TxSet /\ GetSigners(tx[r]) \subseteq Account /\ tx[r].seq \in [Account -> Nat]
           /\ pc[r] \notin {"idle", "queued", "registered", "check", "fee", "collect", "sig"}
<1>1. StageOf(r) /\ ContextOf(r)
  BY Position
<1>2. pc[r] \notin {"idle", "queued", "registered", "check", "fee", "collect", "sig"}
  BY <1>1 DEF ContextOf
<1>3. tx[r] \in TxSet
  BY <1>1, <1>2 DEF StageOf
<1> QED
  BY <1>2, <1>3, TxFields

\* A request that is not new keeps its branch and its acceptance.
LEMMA BranchStays ==
    ASSUME IInv, NEW s \in Req, BranchOf(s), pc'[s] = pc[s], branch'[s] = branch[s], tx'[s] = tx[s],
           pc[s] \in {"collect", "sig"} => /\ View(Acc(tx[s].payer))' = View(Acc(tx[s].payer))
                                           /\ View(Bal(tx[s].payer))' = View(Bal(tx[s].payer))
    PROVE  BranchOf(s)'
<1> DEFINE p == tx[s].payer
<1>1. p' = p /\ Own(s)' = Own(s)
  BY DEF Own, GetSigners
<1>2. pc[s] \in {"collect", "sig"} => View(Acc(p))' = View(Acc(p)) /\ View(Bal(p))' = View(Bal(p))
  OBVIOUS
<1>3. ASSUME pc'[s] \in {"collect", "sig"}
      PROVE  /\ DOMAIN branch'[s] = {Acc(p), Bal(p)} \cup (IF pc'[s] = "sig" THEN {Bal(FeeCollector)} ELSE {})
             /\ branch'[s][Acc(p)] = View(Acc(p))'
             /\ branch'[s][Bal(p)] = View(Bal(p))' - 1
  BY <1>2, <1>3 DEF BranchOf
<1>4. pc'[s] = "write" => DOMAIN branch'[s] \subseteq Own(s)' \cup {Bal(FeeCollector)}
  BY <1>1 DEF BranchOf
<1> QED
  BY <1>1, <1>3, <1>4 DEF BranchOf, View

\* The sequence numbers accepted stay below those of the check state when these
\* do not fall and no other request is accepted.
LEMMA AcceptedStep ==
    ASSUME IInv, Accepted, AcceptedOnce, epoch' = epoch,
           \A a \in Account : Effective(Acc(a)) <= Effective(Acc(a))',
           \A a \in Account : Effective(Acc(a)) \in Nat /\ Effective(Acc(a))' \in Nat,
           \A s \in Req : verdict'[s] = "ok" =>
               verdict[s] = "ok" /\ tx'[s] = tx[s] /\ recheck'[s] = recheck[s] /\ ctxEpoch'[s] = ctxEpoch[s]
    PROVE  Accepted' /\ AcceptedOnce'
<1>1. ASSUME NEW r \in Req, verdict'[r] = "ok", ctxEpoch'[r] = epoch', ~recheck'[r], NEW a \in GetSigners(tx'[r])
      PROVE  tx'[r].seq[a] < Effective(Acc(a))'
  <2>1. /\ verdict[r] = "ok" /\ tx'[r] = tx[r] /\ recheck'[r] = recheck[r] /\ ctxEpoch'[r] = ctxEpoch[r]
    BY <1>1
  <2>2. a \in GetSigners(tx[r]) /\ tx[r].seq[a] < Effective(Acc(a))
    BY <1>1, <2>1 DEF Accepted, AcceptedOf
  <2>3. a \in Account /\ tx[r].seq[a] \in Nat
    BY <2>1, <2>2, OkTx
  <2>4. Effective(Acc(a)) \in Nat /\ Effective(Acc(a))' \in Nat /\ Effective(Acc(a)) <= Effective(Acc(a))'
    BY <2>3
  <2> QED
    BY <2>1, <2>2, <2>3, <2>4, SMT
<1>2. Accepted'
  BY <1>1 DEF Accepted, AcceptedOf
<1>3. AcceptedOnce'
  BY SMT DEF AcceptedOnce
<1> QED
  BY <1>2, <1>3

LEMMA QuietStep ==
    ASSUME JInv, epoch' = epoch, \A k \in UserKey : View(k)' = View(k),
           \A s \in Req : \/ pc'[s] = pc[s] /\ branch'[s] = branch[s] /\ tx'[s] = tx[s]
                          \/ pc[s] \notin {"collect", "sig", "write"} /\ pc'[s] \notin {"collect", "sig", "write"},
           \A s \in Req : verdict'[s] = "ok" =>
               verdict[s] = "ok" /\ tx'[s] = tx[s] /\ recheck'[s] = recheck[s] /\ ctxEpoch'[s] = ctxEpoch[s]
    PROVE  Branches' /\ Accepted' /\ AcceptedOnce' /\ UNCHANGED <<SeqOf, BalOf>>
<1>0. IInv /\ Branches /\ Accepted /\ AcceptedOnce
  BY DEF JInv
<1>1. ASSUME NEW k \in UserKey PROVE Effective(k)' = Effective(k) /\ Effective(k) \in Nat
  <2>1. \A s \in Req : (Pending(s, k)' <=> Pending(s, k)) /\ (Pending(s, k) => branch'[s][k] = branch[s][k])
    BY DEF Pending
  <2> QED
    BY <1>0, <2>1, EffectiveStays, EffectiveNat
<1>2. UNCHANGED <<SeqOf, BalOf>>
  BY <1>1 DEF SeqOf, BalOf, UserKey
<1>3. ASSUME NEW s \in Req PROVE BranchOf(s)'
  <2>1. CASE pc'[s] = pc[s] /\ branch'[s] = branch[s] /\ tx'[s] = tx[s]
    <3>1. BranchOf(s)
      BY <1>0 DEF Branches
    <3>2. pc[s] \in {"collect", "sig"} => Acc(tx[s].payer) \in UserKey /\ Bal(tx[s].payer) \in UserKey
      BY <1>0, RunningTx DEF Running, UserKey
    <3> QED
      BY <1>0, <2>1, <3>1, <3>2, BranchStays
  <2>2. CASE pc[s] \notin {"collect", "sig", "write"} /\ pc'[s] \notin {"collect", "sig", "write"}
    BY <2>2 DEF BranchOf
  <2> QED
    BY <2>1, <2>2
<1>4. \A a \in Account : /\ Effective(Acc(a)) <= Effective(Acc(a))'
                         /\ Effective(Acc(a)) \in Nat /\ Effective(Acc(a))' \in Nat
  <2>1. \A a \in Account : Effective(Acc(a))' = Effective(Acc(a)) /\ Effective(Acc(a)) \in Nat
    BY <1>1 DEF UserKey
  <2> QED
    BY <2>1, SMT
<1>5. Accepted' /\ AcceptedOnce'
  BY <1>0, <1>4, AcceptedStep
<1> QED
  BY <1>2, <1>3, <1>5 DEF Branches

LEMMA ViewStays ==
    ASSUME Store, committed' = committed, check' = check \/ \E K : check' = Filled(K)
    PROVE  \A k \in Key : View(k)' = View(k)
  BY DEF Store, View, Filled

\* The same for a step of one request outside the ante handler.
LEMMA OutsideStep ==
    ASSUME JInv, NEW r \in Req, epoch' = epoch, committed' = committed,
           check' = check \/ \E K : check' = Filled(K),
           \A s \in Req : s # r => pc'[s] = pc[s] /\ branch'[s] = branch[s] /\ tx'[s] = tx[s],
           \/ pc'[r] = pc[r] /\ branch'[r] = branch[r] /\ tx'[r] = tx[r]
           \/ pc[r] \notin {"collect", "sig", "write"} /\ pc'[r] \notin {"collect", "sig", "write"},
           \A s \in Req : verdict'[s] = "ok" =>
               verdict[s] = "ok" /\ tx'[s] = tx[s] /\ recheck'[s] = recheck[s] /\ ctxEpoch'[s] = ctxEpoch[s]
    PROVE  Branches' /\ Accepted' /\ AcceptedOnce' /\ UNCHANGED <<SeqOf, BalOf>>
<1>1. Store
  BY DEF JInv, IInv
<1>2. \A k \in UserKey : View(k)' = View(k)
  BY <1>1, KeyFacts, ViewStays
<1> QED
  BY <1>2, QuietStep

LEMMA ArriveCarries ==
    ASSUME JInv, NEW r \in Req, NEW t \in TxSet, NEW re \in BOOLEAN,
           CheckTxSync(r, t, re) \/ CheckTxAsync(r, t, re)
    PROVE  Carries
<1>0. IInv /\ Flow
  BY DEF JInv, IInv
<1>1. PICK k \in {"sync", "async"} : Submit(r, t, re, k)
  BY DEF CheckTxSync, CheckTxAsync
<1>2. /\ verdict' = verdict \/ (~t.valid /\ verdict' = [verdict EXCEPT ![r] = "err"])
      /\ UNCHANGED <<check, ctxEpoch, branch, committed, epoch, commits>>
      /\ \E to \in {"over", "registered", "queued"} : Goto(r, to)
  BY DEF CheckTxSync, CheckTxAsync, PreCheckTx, anteVars, nodeVars
<1>3. /\ pc[r] = "idle" /\ verdict[r] = "none"
  BY <1>0, <1>1, SubmitFlow, SMT
<1>4. /\ \A s \in Req : s # r => pc'[s] = pc[s] /\ tx'[s] = tx[s] /\ recheck'[s] = recheck[s]
      /\ pc'[r] \in {"over", "registered", "queued"}
      /\ \A s \in Req : verdict'[s] = "ok" => verdict[s] = "ok" /\ s # r
  BY <1>0, <1>1, <1>2, <1>3 DEF Flow, Goto, Submit
<1>5. Branches' /\ Accepted' /\ AcceptedOnce' /\ UNCHANGED <<SeqOf, BalOf>>
  BY <1>2, <1>3, <1>4, OutsideStep
<1> QED
  BY <1>0, <1>1, <1>2, <1>5, SerialSubmit DEF Carries

\* Steps that touch neither a verdict nor the store.
LEMMA IdleCarries ==
    ASSUME JInv, ReactorReceive \/ Unlock \/ UNCHANGED vars PROVE Carries
<1>1. UNCHANGED <<pc, branch, tx, recheck, verdict, ctxEpoch, check, committed, epoch, commits>>
  BY DEF ReactorReceive, Unlock, vars, pipeVars, anteVars, nodeVars
<1>2. \A k \in UserKey : View(k)' = View(k)
  BY <1>1 DEF View
<1>3. Branches' /\ Accepted' /\ AcceptedOnce' /\ UNCHANGED <<SeqOf, BalOf>>
  BY <1>1, <1>2, QuietStep
<1> QED
  BY <1>1, <1>3, SerialStutter DEF Carries

LEMMA PlainCarries ==
    ASSUME JInv, NEW r \in Req,
           \/ PrepareCheckTx(r) \/ ReactorRegister(r) \/ WaitReturns(r)
           \/ GetCheckContext(r) \/ Callback(r) \/ DoneStep(r)
    PROVE  Carries
<1>0. IInv /\ Flow /\ Store /\ Contexts
  BY DEF JInv, IInv
<1>1. /\ UNCHANGED <<tx, recheck, verdict, check, committed, epoch, commits>>
      /\ \/ UNCHANGED <<pc, branch, ctxEpoch>>
         \/ /\ pc[r] \in {"queued", "registered", "check", "reply", "done"}
            /\ \E to \in {"registered", "check", "fee", "done", "over"} : Goto(r, to)
            /\ \/ UNCHANGED <<branch, ctxEpoch>>
               \/ /\ pc[r] = "check" /\ branch' = [branch EXCEPT ![r] = <<>>]
                  /\ ctxEpoch' = [ctxEpoch EXCEPT ![r] = epoch]
  <2>1. CASE PrepareCheckTx(r)
    BY <2>1 DEF PrepareCheckTx, anteVars, nodeVars
  <2>3. CASE ReactorRegister(r)
    <3>1. pc[r] = "queued"
      BY <1>0, <2>3, AtReactor DEF ReactorRegister
    <3> QED
      BY <2>3, <3>1 DEF ReactorRegister, anteVars, nodeVars
  <2>4. CASE WaitReturns(r)
    BY <2>4 DEF WaitReturns, pipeVars, anteVars, nodeVars
  <2>5. CASE GetCheckContext(r)
    BY <2>5 DEF GetCheckContext, pipeVars, nodeVars
  <2>6. CASE Callback(r)
    BY <2>6 DEF Callback, pipeVars, anteVars, nodeVars
  <2>7. CASE DoneStep(r)
    BY <2>7 DEF DoneStep, pipeVars, anteVars, nodeVars
  <2> QED
    BY <2>1, <2>3, <2>4, <2>5, <2>6, <2>7
<1>2. /\ \A s \in Req : s # r => pc'[s] = pc[s] /\ branch'[s] = branch[s] /\ ctxEpoch'[s] = ctxEpoch[s]
      /\ \/ pc'[r] = pc[r] /\ branch'[r] = branch[r]
         \/ pc[r] \notin {"collect", "sig", "write"} /\ pc'[r] \notin {"collect", "sig", "write"}
      /\ ctxEpoch'[r] = ctxEpoch[r] \/ pc[r] = "check"
  BY <1>0, <1>1 DEF Flow, Store, Goto
<1>3. pc[r] = "check" => verdict[r] = "none"
  BY <1>0 DEF Contexts, ContextOf
<1>4. Branches' /\ Accepted' /\ AcceptedOnce' /\ UNCHANGED <<SeqOf, BalOf>>
  BY <1>1, <1>2, <1>3, OutsideStep
<1> QED
  BY <1>1, <1>4, SerialStutter DEF Carries

LEMMA ReactorRejectCarries ==
    ASSUME JInv, NEW r \in Req, ReactorReject(r) PROVE Carries
<1>0. IInv /\ Flow /\ Contexts
  BY DEF JInv, IInv
<1>1. /\ reactor = r /\ ~tx[r].valid /\ Goto(r, "over") /\ verdict' = [verdict EXCEPT ![r] = "err"]
      /\ UNCHANGED <<tx, recheck, check, ctxEpoch, branch, committed, epoch, commits>>
  BY DEF ReactorReject, PreCheckTx, nodeVars
<1>2. pc[r] = "queued" /\ tx[r] \in TxSet
  BY <1>0, <1>1, AtReactor
<1>3. verdict[r] = "none" /\ tx[r] # NoTx
  BY <1>0, <1>2, TxFields DEF Contexts, ContextOf
<1>4. /\ \A s \in Req : pc'[s] = IF s = r THEN "over" ELSE pc[s]
      /\ \A s \in Req : verdict'[s] = "ok" => verdict[s] = "ok"
  BY <1>0, <1>1 DEF Flow, Goto
<1>5. Branches' /\ Accepted' /\ AcceptedOnce' /\ UNCHANGED <<SeqOf, BalOf>>
  BY <1>1, <1>2, <1>4, OutsideStep
<1> QED
  BY <1>1, <1>3, <1>5, SerialReject DEF Carries

-----------------------------------------------------------------------------
(* The ante handler.                                                       *)

\* A step of the ante handler that does not end it successfully.
LEMMA InsideStep ==
    ASSUME JInv, NEW r \in Req, epoch' = epoch, committed' = committed, \E K : check' = Filled(K),
           UNCHANGED <<tx, recheck, ctxEpoch>>,
           \A s \in Req : s # r => pc'[s] = pc[s] /\ branch'[s] = branch[s],
           pc[r] # "write", pc'[r] # "write", BranchOf(r)',
           \A s \in Req : verdict'[s] = "ok" => verdict[s] = "ok"
    PROVE  Branches' /\ Accepted' /\ AcceptedOnce' /\ UNCHANGED <<SeqOf, BalOf>>
<1>0. IInv /\ Store /\ Branches /\ Accepted /\ AcceptedOnce
  BY DEF JInv, IInv
<1>1. \A k \in UserKey : View(k)' = View(k)
  BY <1>0, KeyFacts, ViewStays
<1>2. ASSUME NEW k \in UserKey PROVE Effective(k)' = Effective(k) /\ Effective(k) \in Nat
  <2>1. \A s \in Req : (Pending(s, k)' <=> Pending(s, k)) /\ (Pending(s, k) => branch'[s][k] = branch[s][k])
    BY DEF Pending
  <2> QED
    BY <1>0, <1>1, <2>1, EffectiveStays, EffectiveNat
<1>3. UNCHANGED <<SeqOf, BalOf>>
  BY <1>2 DEF SeqOf, BalOf, UserKey
<1>4. ASSUME NEW s \in Req, s # r PROVE BranchOf(s)'
  <2>1. BranchOf(s) /\ pc'[s] = pc[s] /\ branch'[s] = branch[s] /\ tx'[s] = tx[s]
    BY <1>0, <1>4 DEF Branches
  <2>2. pc[s] \in {"collect", "sig"} => Acc(tx[s].payer) \in UserKey /\ Bal(tx[s].payer) \in UserKey
    BY <1>0, RunningTx DEF Running, UserKey
  <2> QED
    BY <1>0, <1>1, <2>1, <2>2, BranchStays
<1>5. \A a \in Account : Effective(Acc(a))' = Effective(Acc(a)) /\ Effective(Acc(a)) \in Nat
  BY <1>2 DEF UserKey
<1>6. \A a \in Account : /\ Effective(Acc(a)) <= Effective(Acc(a))'
                         /\ Effective(Acc(a)) \in Nat /\ Effective(Acc(a))' \in Nat
  BY <1>5, SMT
<1>7. Accepted' /\ AcceptedOnce'
  BY <1>0, <1>6, AcceptedStep
<1> QED
  BY <1>3, <1>4, <1>7 DEF Branches

\* What holds of a request inside the ante handler.
LEMMA InAnte ==
    ASSUME JInv, NEW r \in Req, pc[r] \in {"fee", "collect", "sig"}
    PROVE  /\ verdict[r] = "none" /\ tx[r] # NoTx /\ tx[r] \in TxSet /\ tx[r].valid /\ ctxEpoch[r] = epoch
           /\ tx[r].payer \in Account /\ Acc(tx[r].payer) \in Own(r) /\ Bal(tx[r].payer) \in Own(r)
           /\ GetSigners(tx[r]) \subseteq Account /\ Own(r) \subseteq UserKey
           /\ \A k : ~Pending(r, k)
           /\ pc \in [Req -> PC] /\ verdict \in [Req -> {"none", "ok", "err"}] /\ DOMAIN branch = Req
<1>1. IInv /\ Flow /\ Store
  BY DEF JInv, IInv
<1>2. ContextOf(r)
  BY <1>1, Position
<1>3. /\ tx[r] \in TxSet /\ tx[r].valid /\ tx[r].payer \in Account /\ tx[r].payer \in GetSigners(tx[r])
      /\ GetSigners(tx[r]) \subseteq Account /\ Own(r) \subseteq UserKey
  BY <1>1, RunningTx DEF Running
<1>4. verdict[r] = "none" /\ ctxEpoch[r] = epoch
  BY <1>2 DEF ContextOf, Checking
<1>5. tx[r] # NoTx /\ Acc(tx[r].payer) \in Own(r) /\ Bal(tx[r].payer) \in Own(r)
  BY <1>3, TxFields DEF Own
<1>6. \A k : ~Pending(r, k)
  BY DEF Pending
<1> QED
  BY <1>1, <1>3, <1>4, <1>5, <1>6 DEF Flow, Store

LEMMA DeductFeeCarries ==
    ASSUME PayerSigns, JInv, NEW r \in Req, DeductFee(r) PROVE Carries
<1> DEFINE p == tx[r].payer
<1>0. IInv /\ Store /\ Branches
  BY DEF JInv, IInv
<1>1. /\ pc[r] = "fee" /\ check' = Filled({Acc(p), Bal(p)})
      /\ \/ View(Bal(p)) < 1 /\ Abort(r) /\ UNCHANGED branch
         \/ /\ View(Bal(p)) >= 1 /\ branch' = [branch EXCEPT ![r] = Charged(p)]
            /\ Goto(r, "collect") /\ UNCHANGED verdict
      /\ UNCHANGED <<tx, recheck, ctxEpoch, committed, epoch, commits>>
  BY DEF DeductFee, pipeVars, nodeVars
<1>2. /\ verdict[r] = "none" /\ tx[r] # NoTx /\ p \in Account /\ Bal(p) \in Own(r) /\ Acc(p) \in UserKey
      /\ Bal(p) \in UserKey /\ ~Pending(r, Bal(p))
      /\ pc \in [Req -> PC] /\ verdict \in [Req -> {"none", "ok", "err"}] /\ DOMAIN branch = Req
  BY <1>1, InAnte
<1>3. View(Acc(p))' = View(Acc(p)) /\ View(Bal(p))' = View(Bal(p)) /\ View(Bal(p)) \in Nat
  BY <1>0, <1>1, <1>2, KeyFacts, ViewStays, Views
<1>4. CASE View(Bal(p)) < 1 /\ Abort(r) /\ UNCHANGED branch
  <2>1. /\ verdict' = [verdict EXCEPT ![r] = "err"] /\ pc'[r] = "reply"
        /\ \A s \in Req : s # r => pc'[s] = pc[s]
        /\ \A s \in Req : verdict'[s] = "ok" => verdict[s] = "ok"
    BY <1>2, <1>4 DEF Abort, Goto
  <2>2. BranchOf(r)'
    BY <2>1 DEF BranchOf
  <2>3. Branches' /\ Accepted' /\ AcceptedOnce' /\ UNCHANGED <<SeqOf, BalOf>>
    BY <1>1, <1>4, <2>1, <2>2, InsideStep
  <2>4. Effective(Bal(p)) = View(Bal(p))
    BY <1>0, <1>1, <1>2, EffectiveOwn DEF Running
  <2>5. BalOf[p] \in Nat /\ BalOf[p] < 1
    BY <1>2, <1>3, <1>4, <2>4 DEF BalOf
  <2> QED
    BY <1>1, <1>2, <2>1, <2>3, <2>5, SerialReject DEF Carries
<1>5. CASE View(Bal(p)) >= 1 /\ branch' = [branch EXCEPT ![r] = Charged(p)] /\ Goto(r, "collect") /\ UNCHANGED verdict
  <2>1. /\ pc'[r] = "collect" /\ \A s \in Req : s # r => pc'[s] = pc[s] /\ branch'[s] = branch[s]
        /\ branch'[r] = Charged(p) /\ p' = p
    BY <1>1, <1>2, <1>5 DEF Goto
  <2>2. /\ DOMAIN branch'[r] = {Acc(p), Bal(p)}
        /\ branch'[r][Acc(p)] = View(Acc(p))' /\ branch'[r][Bal(p)] = View(Bal(p))' - 1
    BY <1>3, <2>1, KeyFacts, SMT DEF Charged
  <2>3. BranchOf(r)'
    BY <2>1, <2>2 DEF BranchOf, View
  <2>4. Branches' /\ Accepted' /\ AcceptedOnce' /\ UNCHANGED <<SeqOf, BalOf>>
    BY <1>1, <1>5, <2>1, <2>3, InsideStep
  <2> QED
    BY <1>1, <1>5, <2>4, SerialStutter DEF Carries
<1> QED
  BY <1>1, <1>4, <1>5

LEMMA AddToCollectorCarries ==
    ASSUME JInv, NEW r \in Req, AddToCollector(r) PROVE Carries
<1> DEFINE p == tx[r].payer
           F == Bal(FeeCollector)
           g == [k \in {F} |-> View(k) + 1]
<1>0. IInv /\ Store /\ BranchOf(r)
  BY DEF JInv, IInv, Branches
<1>1. /\ pc[r] = "collect" /\ check' = Filled({F}) /\ branch' = [branch EXCEPT ![r] = Put(branch[r], g)]
      /\ Goto(r, "sig") /\ UNCHANGED <<tx, recheck, ctxEpoch, committed, epoch, commits, verdict>>
  BY DEF AddToCollector, pipeVars, nodeVars
<1>2. Acc(p) \in UserKey /\ Bal(p) \in UserKey /\ pc \in [Req -> PC] /\ DOMAIN branch = Req
  BY <1>1, InAnte
<1>3. View(Acc(p))' = View(Acc(p)) /\ View(Bal(p))' = View(Bal(p)) /\ Acc(p) # F /\ Bal(p) # F
  BY <1>0, <1>1, <1>2, KeyFacts, ViewStays
<1>4. /\ DOMAIN branch[r] = {Acc(p), Bal(p)} /\ branch[r][Acc(p)] = View(Acc(p))
      /\ branch[r][Bal(p)] = View(Bal(p)) - 1
  BY <1>0, <1>1 DEF BranchOf
<1>5. /\ pc'[r] = "sig" /\ \A s \in Req : s # r => pc'[s] = pc[s] /\ branch'[s] = branch[s]
      /\ branch'[r] = Put(branch[r], g) /\ DOMAIN g = {F} /\ p' = p
  BY <1>1, <1>2 DEF Goto
<1> HIDE DEF g
<1>6. /\ DOMAIN branch'[r] = {Acc(p), Bal(p)} \cup {F}
      /\ branch'[r][Acc(p)] = View(Acc(p))' /\ branch'[r][Bal(p)] = View(Bal(p))' - 1
  BY <1>3, <1>4, <1>5 DEF Put
<1>7. BranchOf(r)'
  BY <1>5, <1>6 DEF BranchOf, View
<1>8. Branches' /\ Accepted' /\ AcceptedOnce' /\ UNCHANGED <<SeqOf, BalOf>>
  BY <1>1, <1>5, <1>7, InsideStep
<1> QED
  BY <1>1, <1>8, SerialStutter DEF Carries

LEMMA EffectiveNext ==
    ASSUME NEW k
    PROVE  /\ (\A s \in Req : ~Pending(s, k)') => Effective(k)' = View(k)'
           /\ \A r \in Req : Pending(r, k)' /\ (\A s \in Req : s # r => ~Pending(s, k)') => Effective(k)' = branch'[r][k]
<1> DEFINE W == {s \in Req : pc'[s] = "write" /\ k \in DOMAIN branch'[s]}
           w == CHOOSE s \in W : TRUE
<1>1. Effective(k)' = IF W = {} THEN View(k)' ELSE branch'[w][k]
  BY DEF Effective
<1>2. W # {} => w \in W
  OBVIOUS
<1>3. \A s \in Req : s \in W <=> Pending(s, k)'
  BY DEF Pending
<1>4. W \subseteq Req
  OBVIOUS
<1> HIDE DEF W, w
<1> QED
  BY <1>1, <1>2, <1>3, <1>4

\* The ante handler of r succeeds: at that moment it takes effect.
LEMMA SuccessCarries ==
    ASSUME PayerSigns, JInv, NEW r \in Req, VerifyAndIncrement(r), Verified(r)
    PROVE  Carries
<1> DEFINE p == tx[r].payer
           F == Bal(FeeCollector)
           G == GetSigners(tx[r])
           K == {Acc(a) : a \in G}
           g == [k \in K |-> Seen(r, k) + 1]
<1>0. IInv /\ Store /\ Branches /\ Accepted /\ AcceptedOnce /\ BranchOf(r)
  BY DEF JInv, IInv, Branches
<1>1. /\ pc[r] = "sig" /\ check' = Filled(SignersRead(r)) /\ branch' = [branch EXCEPT ![r] = Put(branch[r], g)]
      /\ verdict' = [verdict EXCEPT ![r] = "ok"] /\ Goto(r, "write")
      /\ UNCHANGED <<tx, recheck, ctxEpoch, committed, epoch, commits>>
  BY DEF VerifyAndIncrement, Incremented, pipeVars, nodeVars
<1>2. /\ verdict[r] = "none" /\ tx[r] # NoTx /\ tx[r] \in TxSet /\ tx[r].valid /\ ctxEpoch[r] = epoch
      /\ p \in Account /\ Acc(p) \in Own(r) /\ Bal(p) \in Own(r) /\ G \subseteq Account /\ Own(r) \subseteq UserKey
      /\ \A k : ~Pending(r, k)
      /\ pc \in [Req -> PC] /\ verdict \in [Req -> {"none", "ok", "err"}] /\ DOMAIN branch = Req
  BY <1>1, InAnte
<1>3. /\ DOMAIN branch[r] = {Acc(p), Bal(p)} \cup {F} /\ branch[r][Acc(p)] = View(Acc(p))
      /\ branch[r][Bal(p)] = View(Bal(p)) - 1
  BY <1>0, <1>1 DEF BranchOf
<1>4. Own(r) = K \cup {Bal(p)} /\ p \in G
  BY DEF Own, GetSigners
<1>5. ASSUME NEW k \in Own(r) PROVE Effective(k) = View(k) /\ View(k) \in Nat /\ k # F
  BY <1>0, <1>1, <1>2, EffectiveOwn, KeyFacts, Views DEF Running
<1>6. ASSUME NEW a \in G PROVE Seen(r, Acc(a)) = Effective(Acc(a)) /\ Acc(a) \in Own(r) /\ Acc(a) \in K
  <2>1. Acc(a) \in Own(r) /\ Acc(a) \in K
    BY <1>4
  <2>2. Effective(Acc(a)) = View(Acc(a)) /\ Acc(a) # F
    BY <1>5, <2>1
  <2>3. Acc(a) \in DOMAIN branch[r] => Acc(a) = Acc(p)
    BY <1>3, <2>2, KeyFacts
  <2>4. Seen(r, Acc(a)) = View(Acc(a))
    BY <1>3, <2>3 DEF Seen
  <2> QED
    BY <2>1, <2>2, <2>4
<1>7. /\ pc'[r] = "write" /\ \A s \in Req : s # r => pc'[s] = pc[s] /\ branch'[s] = branch[s]
      /\ branch'[r] = Put(branch[r], g) /\ DOMAIN g = K /\ tx' = tx
  BY <1>1, <1>2 DEF Goto
<1>8. \A a \in G : g[Acc(a)] = Effective(Acc(a)) + 1
  BY <1>6
<1>9. \A k \in UserKey : View(k)' = View(k)
  BY <1>0, <1>1, KeyFacts, ViewStays
<1>v. /\ recheck[r] \/ \A a \in G : tx[r].seq[a] = Effective(Acc(a))
      /\ \A s \in Req : s # r => verdict'[s] = verdict[s]
      /\ verdict'[r] = "ok"
  BY <1>1, <1>2, <1>6 DEF Verified
<1> HIDE DEF g, K, G, F
<1>10. DOMAIN branch'[r] = Own(r) \cup {F}
  <2>1. Acc(p) \in K
    BY <1>4, <1>6
  <2> QED
    BY <1>3, <1>4, <1>7, <2>1 DEF Put
<1>11. /\ \A a \in G : branch'[r][Acc(a)] = Effective(Acc(a)) + 1
       /\ branch'[r][Bal(p)] = Effective(Bal(p)) - 1
  <2>1. \A a \in G : Acc(a) \in K /\ Acc(a) \in DOMAIN g
    BY <1>6, <1>7
  <2>2. Bal(p) \notin K /\ Bal(p) \in DOMAIN branch[r]
    BY <1>3, KeyFacts DEF K
  <2>3. Effective(Bal(p)) = View(Bal(p))
    BY <1>2, <1>5
  <2> QED
    BY <1>3, <1>7, <1>8, <2>1, <2>2, <2>3 DEF Put
<1>12. ASSUME NEW k \in Own(r) PROVE Effective(k)' = branch'[r][k]
  <2>1. Pending(r, k)'
    BY <1>7, <1>10 DEF Pending
  <2>2. ASSUME NEW s \in Req, s # r, Pending(s, k)' PROVE FALSE
    <3>1. Pending(s, k) /\ pc[s] \in Running
      BY <1>7, <2>2 DEF Pending, Running
    <3>2. k \in Own(s)
      BY <1>0, <1>2, <3>1, PendingOwn
    <3> QED
      BY <1>0, <1>1, <2>2, <3>1, <3>2, OwnDisjoint DEF Running
  <2> QED
    BY <2>1, <2>2, EffectiveNext
<1>13. ASSUME NEW k \in UserKey, k \notin Own(r) PROVE Effective(k)' = Effective(k)
  <2>1. \A s \in Req : (Pending(s, k)' <=> Pending(s, k)) /\ (Pending(s, k) => branch'[s][k] = branch[s][k])
    <3>1. k # F
      BY KeyFacts DEF F
    <3>2. ~Pending(r, k)' /\ ~Pending(r, k)
      BY <1>2, <1>10, <1>13, <3>1 DEF Pending
    <3> QED
      BY <1>7, <3>2 DEF Pending
  <2> QED
    BY <1>9, <2>1, EffectiveStays
<1>14. ASSUME NEW a \in Account
       PROVE  /\ Effective(Acc(a))' = IF a \in G THEN Effective(Acc(a)) + 1 ELSE Effective(Acc(a))
              /\ Effective(Bal(a))' = IF a = p THEN Effective(Bal(a)) - 1 ELSE Effective(Bal(a))
  <2>1. Acc(a) \in UserKey /\ Bal(a) \in UserKey
    BY DEF UserKey
  <2>2. (Acc(a) \in Own(r) <=> a \in G) /\ (Bal(a) \in Own(r) <=> a = p)
    BY <1>4, KeyFacts DEF K
  <2> QED
    BY <1>11, <1>12, <1>13, <2>1, <2>2
<1>15. \A a \in Account : Effective(Acc(a)) \in Nat
  BY <1>0, EffectiveNat DEF UserKey
<1>16. Branches'
  <2>1. BranchOf(r)'
    <3>1. Own(r)' = Own(r)
      BY <1>7 DEF Own, GetSigners
    <3> QED
      BY <1>7, <1>10, <3>1 DEF BranchOf, F
  <2>2. ASSUME NEW s \in Req, s # r PROVE BranchOf(s)'
    <3>1. BranchOf(s) /\ pc'[s] = pc[s] /\ branch'[s] = branch[s] /\ tx'[s] = tx[s]
      BY <1>0, <1>7, <2>2 DEF Branches
    <3>2. pc[s] \in {"collect", "sig"} => Acc(tx[s].payer) \in UserKey /\ Bal(tx[s].payer) \in UserKey
      BY <1>0, RunningTx DEF Running, UserKey
    <3> QED
      BY <1>0, <1>9, <3>1, <3>2, BranchStays
  <2> QED
    BY <2>1, <2>2 DEF Branches
<1>17. ASSUME NEW s \in Req, s # r, verdict[s] = "ok", ctxEpoch[s] = epoch, ~recheck[s], NEW a \in GetSigners(tx[s])
       PROVE  /\ a \in Account /\ tx[s].seq[a] \in Nat /\ tx[s].seq[a] < Effective(Acc(a))
              /\ tx[s].seq[a] < Effective(Acc(a))'
  <2>1. a \in Account /\ tx[s].seq[a] \in Nat
    BY <1>0, <1>17, OkTx
  <2>2. tx[s].seq[a] < Effective(Acc(a))
    BY <1>0, <1>17 DEF Accepted, AcceptedOf
  <2>3. Effective(Acc(a))' = Effective(Acc(a)) + 1 \/ Effective(Acc(a))' = Effective(Acc(a))
    BY <1>14, <2>1
  <2> QED
    BY <1>15, <2>1, <2>2, <2>3, SMT
<1>18. ASSUME ~recheck[r], NEW a \in G
       PROVE  /\ a \in Account /\ tx[r].seq[a] = Effective(Acc(a)) /\ tx[r].seq[a] < Effective(Acc(a))'
  <2>1. a \in Account /\ tx[r].seq[a] = Effective(Acc(a)) /\ Effective(Acc(a))' = Effective(Acc(a)) + 1
    BY <1>2, <1>14, <1>18, <1>v
  <2> QED
    BY <1>15, <2>1, SMT
<1>19. Accepted'
  <2>1. ASSUME NEW s \in Req, ctxEpoch'[s] = epoch', ~recheck'[s], verdict'[s] = "ok", NEW a \in GetSigners(tx'[s])
        PROVE  tx'[s].seq[a] < Effective(Acc(a))'
    <3>1. CASE s = r
      BY <1>1, <1>18, <2>1, <3>1 DEF G
    <3>2. CASE s # r
      BY <1>1, <1>17, <1>v, <2>1, <3>2
    <3> QED
      BY <3>1, <3>2
  <2> QED
    BY <2>1 DEF Accepted, AcceptedOf
<1>20. AcceptedOnce'
  <2>1. ASSUME NEW s \in Req, s # r, ctxEpoch[s] = ctxEpoch[r], ~recheck[s], ~recheck[r], verdict[s] = "ok",
               NEW a \in G \cap GetSigners(tx[s])
        PROVE  tx[r].seq[a] # tx[s].seq[a]
    <3>1. tx[s].seq[a] < Effective(Acc(a)) /\ tx[r].seq[a] = Effective(Acc(a)) /\ a \in Account /\ tx[s].seq[a] \in Nat
      BY <1>2, <1>17, <1>18, <2>1
    <3> QED
      BY <1>15, <3>1, SMT
  <2> SUFFICES ASSUME NEW q \in Req, NEW s \in Req, q # s, ctxEpoch[q] = ctxEpoch[s], ~recheck[q], ~recheck[s],
                      verdict'[q] = "ok", verdict'[s] = "ok", NEW a \in GetSigners(tx[q]) \cap GetSigners(tx[s])
               PROVE  tx[q].seq[a] # tx[s].seq[a]
    BY <1>1, SMT DEF AcceptedOnce
  <2>2. CASE q = r
    BY <1>v, <2>1, <2>2 DEF G
  <2>3. CASE s = r
    BY <1>v, <2>1, <2>3 DEF G
  <2>4. CASE q # r /\ s # r
    <3>1. AcceptedOnce /\ verdict[q] = "ok" /\ verdict[s] = "ok"
      BY <1>0, <1>v, <2>4
    <3> QED
      BY <3>1 DEF AcceptedOnce
  <2> QED
    BY <2>2, <2>3, <2>4
<1>21. Serially
  <2>1. SeqOf' = [a \in Account |-> IF a \in GetSigners(tx[r]) THEN SeqOf[a] + 1 ELSE SeqOf[a]]
    BY <1>14 DEF SeqOf, G
  <2>2. BalOf' = [BalOf EXCEPT ![p] = @ - 1]
    BY <1>2, <1>14 DEF BalOf
  <2>3. BalOf[p] >= 1
    <3>1. branch[r][Bal(p)] \in Nat
      BY <1>0, <1>3 DEF Store
    <3>2. Effective(Bal(p)) = View(Bal(p)) /\ View(Bal(p)) \in Nat
      BY <1>2, <1>5
    <3>3. BalOf[p] = Effective(Bal(p))
      BY <1>2 DEF BalOf
    <3> QED
      BY <1>3, <3>1, <3>2, <3>3, SMT
  <2>4. recheck[r] \/ \A a \in GetSigners(tx[r]) : tx[r].seq[a] = SeqOf[a]
    BY <1>2, <1>v DEF SeqOf, G
  <2> QED
    BY <1>1, <1>2, <2>1, <2>2, <2>3, <2>4, SerialAccept
<1> QED
  BY <1>16, <1>19, <1>20, <1>21 DEF Carries

LEMMA VerifyCarries ==
    ASSUME PayerSigns, JInv, NEW r \in Req, VerifyAndIncrement(r) PROVE Carries
<1>1. CASE Verified(r)
  BY <1>1, SuccessCarries
<1>2. CASE ~Verified(r)
  <2>0. IInv /\ Branches /\ BranchOf(r)
    BY DEF JInv, Branches
  <2>1. /\ pc[r] = "sig" /\ check' = Filled(SignersRead(r)) /\ branch' = [branch EXCEPT ![r] = <<>>]
        /\ Abort(r) /\ UNCHANGED <<tx, recheck, ctxEpoch, committed, epoch, commits>>
    BY <1>2 DEF VerifyAndIncrement, pipeVars, nodeVars
  <2>2. /\ verdict[r] = "none" /\ tx[r] # NoTx /\ GetSigners(tx[r]) \subseteq Account /\ Own(r) \subseteq UserKey
        /\ \A k : ~Pending(r, k)
        /\ pc \in [Req -> PC] /\ verdict \in [Req -> {"none", "ok", "err"}] /\ DOMAIN branch = Req
    BY <2>1, InAnte
  <2>3. /\ verdict' = [verdict EXCEPT ![r] = "err"] /\ pc'[r] = "reply"
        /\ \A s \in Req : s # r => pc'[s] = pc[s] /\ branch'[s] = branch[s]
        /\ \A s \in Req : verdict'[s] = "ok" => verdict[s] = "ok"
    BY <2>1, <2>2 DEF Abort, Goto
  <2>4. BranchOf(r)'
    BY <2>3 DEF BranchOf
  <2>5. Branches' /\ Accepted' /\ AcceptedOnce' /\ UNCHANGED <<SeqOf, BalOf>>
    BY <2>1, <2>3, <2>4, InsideStep
  <2>6. ~recheck[r] /\ \E a \in GetSigners(tx[r]) : tx[r].seq[a] # SeqOf[a]
    <3>1. PICK a \in GetSigners(tx[r]) : ~recheck[r] /\ tx[r].seq[a] # Seen(r, Acc(a))
      BY <1>2 DEF Verified
    <3>2. Acc(a) \in Own(r) /\ a \in Account /\ Acc(a) # Bal(FeeCollector)
      BY <2>2, KeyFacts DEF Own
    <3>3. Effective(Acc(a)) = View(Acc(a))
      BY <2>0, <2>1, <2>2, <3>2, EffectiveOwn DEF Running
    <3>4. /\ DOMAIN branch[r] = {Acc(tx[r].payer), Bal(tx[r].payer)} \cup {Bal(FeeCollector)}
          /\ branch[r][Acc(tx[r].payer)] = View(Acc(tx[r].payer))
      BY <2>0, <2>1 DEF BranchOf
    <3>5. Acc(a) \in DOMAIN branch[r] => Acc(a) = Acc(tx[r].payer)
      BY <3>2, <3>4, KeyFacts
    <3>6. Seen(r, Acc(a)) = View(Acc(a))
      BY <3>4, <3>5 DEF Seen
    <3> QED
      BY <3>1, <3>2, <3>3, <3>6 DEF SeqOf
  <2> QED
    BY <2>1, <2>2, <2>3, <2>5, <2>6, SerialReject DEF Carries
<1> QED
  BY <1>1, <1>2

\* One key after the other reaches the check state: nobody notices.
LEMMA WriteKeyCarries ==
    ASSUME PayerSigns, JInv, NEW r \in Req, NEW k \in Key, WriteKey(r, k) PROVE Carries
<1> DEFINE b == Restrict(branch[r], DOMAIN branch[r] \ {k})
<1>0. IInv /\ Flow /\ Store /\ Branches /\ Accepted /\ AcceptedOnce /\ BranchOf(r)
  BY DEF JInv, IInv, Branches
<1>1. /\ pc[r] = "write" /\ k \in DOMAIN branch[r]
      /\ check' = IF ctxEpoch[r] = epoch THEN [check EXCEPT ![k] = branch[r][k]] ELSE check
      /\ branch' = [branch EXCEPT ![r] = b]
      /\ IF DOMAIN branch[r] = {k} THEN Goto(r, "reply") ELSE UNCHANGED pc
      /\ UNCHANGED <<tx, recheck, ctxEpoch, verdict, committed, epoch, commits>>
  BY <1>0 DEF WriteKey, Store, pipeVars, nodeVars
<1>2. ctxEpoch[r] = epoch
  BY <1>0, <1>1, Position DEF ContextOf, Checking
<1>3. DOMAIN b = DOMAIN branch[r] \ {k} /\ \A j \in DOMAIN b : b[j] = branch[r][j]
  BY DEF Restrict
<1> HIDE DEF b
<1>4. /\ \A s \in Req : s # r => pc'[s] = pc[s] /\ branch'[s] = branch[s]
      /\ branch'[r] = b /\ pc'[r] = IF DOMAIN branch[r] = {k} THEN "reply" ELSE "write"
  BY <1>0, <1>1 DEF Flow, Store, Goto
<1>5. branch[r][k] \in Nat /\ branch[r][k] # Absent
  BY <1>0, <1>1, AbsentAssumption DEF Store
<1>6. View(k)' = branch[r][k] /\ \A j \in Key : j # k => View(j)' = View(j)
  BY <1>0, <1>1, <1>2, <1>5 DEF Store, View
<1>7. k \in Own(r) \/ k = Bal(FeeCollector)
  BY <1>0, <1>1 DEF BranchOf
<1>8. ASSUME NEW j \in UserKey PROVE Effective(j)' = Effective(j) /\ Effective(j) \in Nat
  <2>0. Effective(j) \in Nat
    BY <1>0, EffectiveNat
  <2>1. CASE j = k
    <3>1. Pending(r, j) /\ pc[r] \in Running
      BY <1>1, <2>1 DEF Pending, Running
    <3>2. Effective(j) = branch[r][j] /\ j \in Own(r)
      BY <1>0, <3>1, EffectivePending, PendingOwn
    <3>3. ASSUME NEW s \in Req, Pending(s, j)' PROVE FALSE
      <4>1. s # r
        BY <1>3, <1>4, <2>1, <3>3 DEF Pending
      <4>2. Pending(s, j) /\ pc[s] \in Running
        BY <1>4, <3>3, <4>1 DEF Pending, Running
      <4>3. j \in Own(s)
        BY <1>0, <4>2, PendingOwn
      <4> QED
        BY <1>0, <3>1, <3>2, <4>1, <4>2, <4>3, OwnDisjoint
    <3>4. Effective(j)' = View(j)'
      BY <3>3, EffectiveNext
    <3> QED
      BY <1>6, <2>0, <2>1, <3>2, <3>4
  <2>2. CASE j # k
    <3>1. j \in Key /\ View(j)' = View(j)
      BY <1>6, <2>2, KeyFacts
    <3>2. (Pending(r, j)' <=> Pending(r, j)) /\ (Pending(r, j) => branch'[r][j] = branch[r][j])
      BY <1>1, <1>3, <1>4, <2>2 DEF Pending
    <3>3. \A s \in Req : (Pending(s, j)' <=> Pending(s, j)) /\ (Pending(s, j) => branch'[s][j] = branch[s][j])
      BY <1>4, <3>2 DEF Pending
    <3> QED
      BY <2>0, <3>1, <3>3, EffectiveStays
  <2> QED
    BY <2>1, <2>2
<1>9. UNCHANGED <<SeqOf, BalOf>>
  BY <1>8 DEF SeqOf, BalOf, UserKey
<1>10. BranchOf(r)'
  <2>1. Own(r)' = Own(r)
    BY <1>1 DEF Own, GetSigners
  <2> QED
    BY <1>0, <1>1, <1>3, <1>4, <2>1 DEF BranchOf
<1>11. ASSUME NEW s \in Req, s # r PROVE BranchOf(s)'
  <2>1. BranchOf(s) /\ pc'[s] = pc[s] /\ branch'[s] = branch[s] /\ tx'[s] = tx[s]
    BY <1>0, <1>1, <1>4, <1>11 DEF Branches
  <2>2. ASSUME pc[s] \in {"collect", "sig"}
        PROVE  /\ View(Acc(tx[s].payer))' = View(Acc(tx[s].payer))
               /\ View(Bal(tx[s].payer))' = View(Bal(tx[s].payer))
    <3>1. /\ Acc(tx[s].payer) \in Own(s) /\ Bal(tx[s].payer) \in Own(s) /\ Own(s) \subseteq UserKey
      BY <2>2, InAnte
    <3>2. k \notin Own(s)
      BY <1>0, <1>1, <1>7, <1>11, <2>2, <3>1, OwnDisjoint, KeyFacts DEF Running
    <3>3. /\ Acc(tx[s].payer) \in Key /\ Acc(tx[s].payer) # k
          /\ Bal(tx[s].payer) \in Key /\ Bal(tx[s].payer) # k
      BY <3>1, <3>2, KeyFacts
    <3> QED
      BY <1>6, <2>1, <3>3
  <2> QED
    BY <1>0, <2>1, <2>2, BranchStays
<1>12. \A a \in Account : Effective(Acc(a))' = Effective(Acc(a)) /\ Effective(Acc(a)) \in Nat
  BY <1>8 DEF UserKey
<1>13. \A a \in Account : /\ Effective(Acc(a)) <= Effective(Acc(a))'
                          /\ Effective(Acc(a)) \in Nat /\ Effective(Acc(a))' \in Nat
  BY <1>12, SMT
<1>14. Accepted' /\ AcceptedOnce'
  BY <1>0, <1>1, <1>13, AcceptedStep
<1>15. Serially
  BY <1>1, <1>9, SerialStutter
<1> QED
  BY <1>10, <1>11, <1>14, <1>15 DEF Carries, Branches

-----------------------------------------------------------------------------
(* A block, and the theorems.                                              *)

\* Nothing is pending while everything is answered.
LEMMA Settled ==
    ASSUME IInv, Unanswered = {}, NEW r \in Req
    PROVE  pc[r] \in {"idle", "done", "over"}
  BY DEF IInv, Answers, Unanswered

LEMMA BlockCarries ==
    ASSUME JInv, IInv', Unanswered = {}, UNCHANGED <<pc, tx, recheck, ctxEpoch, branch, verdict>>,
           commits' + epoch' = commits + epoch + 1,
           \/ epoch' = epoch /\ \A a \in Account : View(Acc(a)) <= View(Acc(a))'
           \/ epoch' = epoch + 1
    PROVE  Carries
<1>0. IInv /\ Store /\ Contexts /\ Accepted /\ AcceptedOnce /\ Store'
  BY DEF JInv, IInv
<1>1. \A s \in Req : pc[s] \in {"idle", "done", "over"}
  BY <1>0, Settled
<1>2. ASSUME NEW k \in UserKey
      PROVE  Effective(k) = View(k) /\ Effective(k)' = View(k)' /\ View(k) \in Nat /\ View(k)' \in Nat
  <2>1. \A s \in Req : ~Pending(s, k) /\ ~Pending(s, k)'
    BY <1>1 DEF Pending
  <2>2. k \in Key
    BY KeyFacts
  <2>3. View(k) \in Nat /\ View(k)' \in Nat
    BY <1>0, <2>2 DEF Store, View
  <2> QED
    BY <2>1, <2>3, EffectiveView, EffectiveNext
<1>3. Branches'
  BY <1>1 DEF Branches, BranchOf
<1>4. SeqOf' \in [Account -> Nat] /\ BalOf' \in [Account -> Nat]
  <2>1. \A a \in Account : Effective(Acc(a))' \in Nat /\ Effective(Bal(a))' \in Nat
    BY <1>2 DEF UserKey
  <2> QED
    BY <2>1 DEF SeqOf, BalOf
<1>5. CASE epoch' = epoch /\ \A a \in Account : View(Acc(a)) <= View(Acc(a))'
  <2>1. \A a \in Account : /\ Effective(Acc(a)) = View(Acc(a)) /\ Effective(Acc(a))' = View(Acc(a))'
                           /\ View(Acc(a)) \in Nat /\ View(Acc(a))' \in Nat
    BY <1>2 DEF UserKey
  <2>2. \A a \in Account : /\ Effective(Acc(a)) <= Effective(Acc(a))'
                           /\ Effective(Acc(a)) \in Nat /\ Effective(Acc(a))' \in Nat
    BY <1>5, <2>1
  <2>3. Accepted' /\ AcceptedOnce'
    BY <1>0, <1>5, <2>2, AcceptedStep
  <2> QED
    BY <1>3, <1>4, <2>3, SerialRebase DEF Carries
<1>6. CASE epoch' = epoch + 1
  <2>1. \A r \in Req : ctxEpoch[r] \in Nat /\ ctxEpoch[r] <= epoch /\ epoch \in Nat
    BY <1>0 DEF Store, Contexts, ContextOf
  <2>2. \A r \in Req : ctxEpoch'[r] # epoch'
    BY <1>6, <2>1, SMT
  <2>3. Accepted' /\ AcceptedOnce'
    BY <1>0, <2>2 DEF Accepted, AcceptedOf, AcceptedOnce
  <2> QED
    BY <1>3, <1>4, <2>3, SerialRebase DEF Carries
<1> QED
  BY <1>5, <1>6

LEMMA NodeCarries ==
    ASSUME JInv, (\E S \in SUBSET Account : Commit(S)) \/ BeginRecheckTx PROVE Carries
<1>0. IInv /\ Store /\ Answers
  BY DEF JInv, IInv
<1>1. ASSUME NEW S \in SUBSET Account, Commit(S) PROVE Carries
  <2>1. IInv' /\ commits \in Nat /\ epoch \in Nat
    BY <1>0, <1>1, NodeKeeps, BoundAssumption, SMT DEF Store
  <2>2. /\ Unanswered = {} /\ commits' = commits + 1 /\ epoch' = epoch /\ check' = check
        /\ UNCHANGED <<pc, tx, recheck, ctxEpoch, branch, verdict>>
    BY <1>1 DEF Commit, pipeVars, anteVars
  <2>3. ASSUME NEW a \in Account PROVE View(Acc(a)) <= View(Acc(a))'
    <3>1. Acc(a) \in Key /\ Acc(a)[1] = "acc" /\ Acc(a)[2] = a /\ a # FeeCollector
      BY Keys, AccountAssumption DEF Acc
    <3>2. committed[Acc(a)] \in Nat /\ check[Acc(a)] \in Nat \cup {Absent}
      BY <1>0, <3>1 DEF Store
    <3>3. committed'[Acc(a)] = committed[Acc(a)] \/ committed'[Acc(a)] = committed[Acc(a)] + 1
      BY <1>1, <3>1, SMT DEF Commit
    <3>4. committed[Acc(a)] <= committed'[Acc(a)]
      BY <3>2, <3>3, SMT
    <3>5. CASE check[Acc(a)] = Absent
      BY <2>2, <3>4, <3>5 DEF View
    <3>6. CASE check[Acc(a)] # Absent
      <4>1. View(Acc(a)) = check[Acc(a)] /\ View(Acc(a))' = check[Acc(a)] /\ check[Acc(a)] \in Nat
        BY <2>2, <3>2, <3>6 DEF View
      <4> QED
        BY <4>1, SMT
    <3> QED
      BY <3>5, <3>6
  <2>4. commits' + epoch' = commits + epoch + 1
    BY <2>1, <2>2, SMT
  <2> QED
    BY <2>1, <2>2, <2>3, <2>4, BlockCarries
<1>2. CASE BeginRecheckTx
  <2>1. IInv' /\ commits \in Nat /\ epoch \in Nat
    BY <1>0, <1>2, NodeKeeps, BoundAssumption, SMT DEF Store
  <2>2. /\ Unanswered = {} /\ epoch' = epoch + 1 /\ commits' = commits
        /\ UNCHANGED <<pc, tx, recheck, ctxEpoch, branch, verdict>>
    BY <1>0, <1>2 DEF BeginRecheckTx, Answers, pipeVars
  <2>3. commits' + epoch' = commits + epoch + 1
    BY <2>1, <2>2, SMT
  <2> QED
    BY <2>1, <2>2, <2>3, BlockCarries
<1> QED
  BY <1>1, <1>2

LEMMA NextCarries == ASSUME PayerSigns, JInv, [Next]_vars PROVE Carries
<1>1. ASSUME NEW r \in Req, Arrive(r) PROVE Carries
  BY <1>1, ArriveCarries DEF Arrive
<1>2. ASSUME NEW r \in Req, PrepareCheckTx(r) PROVE Carries
  BY <1>2, PlainCarries
<1>3. ASSUME NEW r \in Req, CheckStep(r) PROVE Carries
  BY <1>3, PlainCarries, DeductFeeCarries, AddToCollectorCarries, VerifyCarries, WriteKeyCarries DEF CheckStep
<1>4. CASE ReactorStep
  BY <1>4, IdleCarries, PlainCarries, ReactorRejectCarries DEF ReactorStep
<1>5. CASE (\E S \in SUBSET Account : Commit(S)) \/ BeginRecheckTx
  BY <1>5, NodeCarries
<1>6. CASE Unlock \/ UNCHANGED vars
  BY <1>6, IdleCarries
<1> QED
  BY <1>1, <1>2, <1>3, <1>4, <1>5, <1>6 DEF Next

LEMMA InitJInv == Init => JInv /\ Serial!Init
<1> SUFFICES ASSUME Init PROVE JInv /\ Serial!Init
  OBVIOUS
<1>1. IInv
  BY InitIInv
<1>2. Branches /\ Accepted /\ AcceptedOnce
  BY DEF Init, Branches, BranchOf, Accepted, AcceptedOf, AcceptedOnce
<1>3. \A a \in Account : Effective(Acc(a)) \in Nat /\ Effective(Bal(a)) \in Nat
  BY <1>1, EffectiveNat DEF UserKey
<1>4. Serial!Init
  BY <1>3, SMT DEF Init, Serial!Init
<1> QED
  BY <1>1, <1>2, <1>4 DEF JInv

LEMMA SpecJInv == ASSUME PayerSigns PROVE Spec => []JInv
<1>1. JInv /\ [Next]_vars => JInv'
  <2> SUFFICES ASSUME JInv, [Next]_vars PROVE JInv'
    OBVIOUS
  <2>1. IInv'
    BY NextIInv DEF JInv
  <2>2. Carries
    BY NextCarries
  <2> QED
    BY <2>1, <2>2 DEF JInv, Carries
<1> QED
  BY <1>1, InitJInv, PTL DEF Spec

\* When every fee payer is among the message signers, no two new transactions
\* checked against one check state are accepted with the same sequence number of
\* the same signer.  (The run check_tx_payer shows that the condition is needed.)
THEOREM AcceptsOnce == ASSUME PayerSigns PROVE Spec => []AcceptedOnce
<1>1. JInv => AcceptedOnce
  BY DEF JInv
<1> QED
  BY <1>1, SpecJInv, PTL

\* Under the same condition, checking concurrently answers as checking one by one
\* would: every step is a step of SerialCheckTx or changes nothing in it.
THEOREM CheckTxImplementsSerial == ASSUME PayerSigns PROVE Spec => ImplementsSerial
<1>1. JInv /\ [Next]_vars => [Serial!Next]_(Serial!serialVars)
  BY NextCarries DEF Carries, Serially
<1>2. Init => Serial!Init
  BY InitJInv
<1> QED
  BY <1>1, <1>2, SpecJInv, PTL DEF Spec, ImplementsSerial, Serial!Spec

=============================================================================
