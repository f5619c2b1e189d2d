----------------------------- MODULE AccountWGs -----------------------------
(***************************************************************************)
(* The per-account wait groups of baseapp/accountwgs.go.  They let CheckTx *)
(* requests run concurrently except when two of them are signed by the     *)
(* same account.  A request registers, waits for the wait groups it found  *)
(* in the table, runs, and signals its own wait groups.                    *)
(*                                                                         *)
(* A *sync.WaitGroup is created once, by one request for one signer, with  *)
(* counter 1; it is named by that pair <<request, account>>.               *)
(***************************************************************************)
EXTENDS Naturals

CONSTANTS
    Account,    \* account addresses
    Req,        \* CheckTx requests; each passes once
    NoReq       \* a missing table entry (a nil *sync.WaitGroup)

ASSUME NoReqAssumption == NoReq \notin Req

VARIABLES
    wgs,        \* account -> the request that owns the entry, or NoReq
    signers,    \* request -> the accounts of its signals, see getUniqSigners
    waits,      \* request -> the wait groups Register returned as waits
    zero,       \* the wait groups whose counter reached 0
    stage,      \* request -> where it is in Register; Wait; run; Done
    ticket,     \* history: request -> position in the order of Register calls
    clock       \* history: the number of Register calls so far

wgVars == <<wgs, signers, waits, zero, stage, ticket, clock>>

WaitGroup == Req \X Account
Stage == {"new", "waiting", "running", "finished"}

\* The types; every wait group that Register returned was created by a request.
TypeOK ==
    /\ wgs \in [Account -> Req \cup {NoReq}]
    /\ signers \in [Req -> SUBSET Account]
    /\ waits \in [Req -> SUBSET WaitGroup]
    /\ zero \in SUBSET WaitGroup
    /\ stage \in [Req -> Stage]
    /\ ticket \in [Req -> Nat]
    /\ clock \in Nat

Init ==
    /\ wgs = [a \in Account |-> NoReq]
    /\ signers = [r \in Req |-> {}]
    /\ waits = [r \in Req |-> {}]
    /\ zero = {}
    /\ stage = [r \in Req |-> "new"]
    /\ ticket = [r \in Req |-> 0]
    /\ clock = 0

-----------------------------------------------------------------------------
\* Plausible slips in the loops of Register and Done, for mutation.
FoundNothing(S) == {}
SignalledIfOwn(r) == {<<r, a>> : a \in {b \in signers[r] : wgs[b] = r}}
DeletedAlways(r) == [a \in Account |-> IF a \in signers[r] THEN NoReq ELSE wgs[a]]
DeletedNever(r) == wgs

\* What Register returns as waits for signers S: the entries it found.
Found(S) == {<<wgs[a], a>> : a \in {b \in S : wgs[b] # NoReq}}

\* Done signals all of the request's own wait groups.
Signalled(r) == {<<r, a>> : a \in signers[r]}

\* Done deletes an entry only if it is still the request's own.
Deleted(r) == [a \in Account |-> IF a \in signers[r] /\ wgs[a] = r
                                 THEN NoReq ELSE wgs[a]]

\* Register runs under mtx: the whole loop over the signers is one step.
Register(r, S) ==
    /\ stage[r] = "new"
    /\ signers' = [signers EXCEPT ![r] = S]
    /\ waits' = [waits EXCEPT ![r] = Found(S)]
    /\ wgs' = [a \in Account |-> IF a \in S THEN r ELSE wgs[a]]
    /\ stage' = [stage EXCEPT ![r] = "waiting"]
    /\ ticket' = [ticket EXCEPT ![r] = clock + 1]
    /\ clock' = clock + 1
    /\ UNCHANGED zero

\* Wait returns once every wait group found is at 0.  A wait group never
\* leaves 0, so waiting for them one by one is waiting for all of them.
Wait(r) ==
    /\ stage[r] = "waiting"
    /\ waits[r] \subseteq zero
    /\ stage' = [stage EXCEPT ![r] = "running"]
    /\ UNCHANGED <<wgs, signers, waits, zero, ticket, clock>>

\* Done runs under mtx.
Done(r) ==
    /\ stage[r] = "running"
    /\ zero' = zero \cup Signalled(r)
    /\ wgs' = Deleted(r)
    /\ stage' = [stage EXCEPT ![r] = "finished"]
    /\ UNCHANGED <<signers, waits, ticket, clock>>

Next == \E r \in Req : \/ \E S \in SUBSET Account : Register(r, S)
                       \/ Wait(r)
                       \/ Done(r)

Spec == Init /\ [][Next]_wgVars

-----------------------------------------------------------------------------
Shares(r, s, a) == r # s /\ a \in signers[r] /\ a \in signers[s]

Active(r) == stage[r] \in {"waiting", "running"}
Past(r) == stage[r] \in {"running", "finished"}     \* Wait has returned

\* Two requests signed by the same account never run at the same time: the
\* reason Register collects the wait groups it replaces.
MutualExclusion ==
    \A r, s \in Req, a \in Account :
        Shares(r, s, a) => ~(stage[r] = "running" /\ stage[s] = "running")

\* Requests of one account run in the order in which they registered: when
\* Wait has returned to a request, every earlier registrant it shares a signer
\* with has called Done, though it waited for its direct predecessors only.
RegistrationOrder ==
    \A r, s \in Req, a \in Account :
        Shares(r, s, a) /\ ticket[s] < ticket[r] /\ Past(r) => stage[s] = "finished"

\* The table holds no entry of a request that has called Done, and an account
\* without an entry has no request in flight (nothing is leaked, nothing lost).
TableIsCurrent ==
    \A a \in Account :
        /\ wgs[a] # NoReq => Active(wgs[a])
        /\ wgs[a] = NoReq => \A r \in Req : a \in signers[r] => ~Active(r)

\* The requests in flight never wait for each other in a circle: while there
\* is one, Wait can return to one of them or one of them is running.
NoCircularWait ==
    (\E r \in Req : Active(r)) =>
        \E r \in Req : Active(r) /\ (stage[r] = "waiting" => waits[r] \subseteq zero)

=============================================================================
