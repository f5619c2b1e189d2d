----------------------------- MODULE Foundation -----------------------------
(***************************************************************************)
(* Governance of x/foundation: members, decision policy, proposals, votes, *)
(* and the queue by the end of the voting period.  One action per message  *)
(* of the Msg service and one for the EndBlocker.  A message that returns  *)
(* an error is rolled back with its transaction, so its action is simply   *)
(* not enabled.                                                            *)
(*                                                                         *)
(* The keeper's operations are functions of the module's store s, a record *)
(* with the fields of Store, because they call each other: executing a     *)
(* proposal may update the members, which aborts proposals.                *)
(***************************************************************************)
EXTENDS Integers, FiniteSets, Functions

CONSTANTS
    Address,            \* accounts that are or may become members
    Genesis,            \* the members at genesis
    Policies,           \* decision policies, see Policy
    FirstPolicy,        \* the one at genesis
    MaxExecutionPeriod, \* of Config
    OperatorSigns,      \* TRUE: genesis set an operator that can sign itself
    PayloadSet,         \* bound: the messages that proposals carry
    OptionSet,          \* bound: the options voted for
    MaxProposal,        \* bound: proposals submitted
    MaxVersion,         \* bound: versions of the foundation
    MaxTime             \* bound: block time

\* need: the threshold, or the percentage times 100.
Policy == [kind : {"threshold", "percentage"}, need : Nat, votingPeriod : Nat, minExecution : Nat]

\* What ValidateBasic and Validate ask of a policy, with the MinPercentage of
\* Config above 0 (0.8 by default).
ValidateWindows(p) == p.votingPeriod > 0 /\ p.minExecution < p.votingPeriod + MaxExecutionPeriod
ThresholdValidate(p) == p.need > 0 /\ ValidateWindows(p)
PercentageValidate(p) == p.need \in 1..100 /\ ValidateWindows(p)

ASSUME BoundsAssumption ==
    MaxProposal \in Nat /\ MaxVersion \in Nat \ {0} /\ MaxTime \in Nat /\ MaxExecutionPeriod \in Nat
ASSUME GenesisAssumption == Genesis \subseteq Address /\ IsFiniteSet(Address)
ASSUME PolicyAssumption ==
    /\ Policies \subseteq Policy /\ FirstPolicy \in Policies
    /\ \A p \in Policies : IF p.kind = "threshold" THEN ThresholdValidate(p) ELSE PercentageValidate(p)

Id == 0..MaxProposal
Option == {"yes", "no", "abstain"}      \* no_with_veto is tallied as no

\* The message of a proposal, signed by the operator as ensureMsgAuthz asks.
\* "other" stands for messages of other modules.
Payload ==
    [type : {"members"}, join : SUBSET Address, leave : SUBSET Address]
    \cup [type : {"policy"}, policy : Policies]
    \cup [type : {"withdraw"}, id : Id]
    \cup [type : {"other"}]

ASSUME PayloadAssumption == PayloadSet \subseteq Payload /\ OptionSet \subseteq Option

Tally == [yes : Nat, no : Nat, abstain : Nat]
ZeroTally == [yes |-> 0, no |-> 0, abstain |-> 0]

Proposal == [
    proposers : SUBSET Address, submitTime : Int, vpEnd : Int, version : Nat,
    status : {"unspecified", "submitted", "closed", "aborted", "withdrawn"},
    result : {"unspecified", "unfinalized", "accepted", "rejected"},
    executor : {"unspecified", "notrun", "failure", "success"},
    tally : Tally, payload : Payload]

VARIABLES
    s,          \* the module's store
    now,        \* block time
    executed    \* history: id -> successful executions of its messages

vars == <<s, now, executed>>

StoreOK(st) ==
    /\ st.members \subseteq Address
    /\ st.policy \in Policies
    /\ st.version \in 1..MaxVersion
    /\ st.totalWeight \in Nat
    /\ st.previousId \in Id
    /\ DOMAIN st.proposals \subseteq Id \ {0} /\ Range(st.proposals) \subseteq Proposal
    /\ st.queue \subseteq (Id \X Int)
    /\ DOMAIN st.votes \subseteq (Id \X Address) /\ Range(st.votes) \subseteq Option

\* The types; no proposal is stored under id 0, though EndBlocker writes the zero
\* proposal that it decodes from the queue before it prunes it.
TypeOK ==
    /\ StoreOK(s)
    /\ now \in 0..MaxTime
    /\ executed \in [Id -> Nat]

Init ==
    /\ s = [members |-> Genesis, policy |-> FirstPolicy, version |-> 1,
            totalWeight |-> Cardinality(Genesis), previousId |-> 0,
            proposals |-> <<>>, queue |-> {}, votes |-> <<>>]
    /\ now = 0
    /\ executed = [i \in Id |-> 0]

-----------------------------------------------------------------------------
(* Tallying.                                                               *)
Without(f, S) == Restrict(f, DOMAIN f \ S)
VotesOn(st, ids) == {v \in DOMAIN st.votes : v[1] \in ids}

\* Votes of those who left are skipped.
Count(st, id, opt) ==
    Cardinality({v \in DOMAIN st.votes : v[1] = id /\ v[2] \in st.members /\ st.votes[v] = opt})

TallyOf(st, id) ==
    [yes |-> Count(st, id, "yes"), no |-> Count(st, id, "no"), abstain |-> Count(st, id, "abstain")]

MinOf(a, b) == IF a <= b THEN a ELSE b

\* n / d >= percent / 100, also for a negative d.
RatioGTE(n, d, percent) == IF d > 0 THEN 100 * n >= percent * d ELSE 100 * n <= percent * d

\* The weight that has not voted; negative if more voted than the total weight.
Undecided(t, total) == total - (t.yes + t.no + t.abstain)

\* For mutation: a proposal that can still just pass is rejected.
ThresholdTooEager(t, total, need) ==
    IF t.yes >= MinOf(need, total) THEN "accepted"
    ELSE IF t.yes + Undecided(t, total) <= MinOf(need, total) THEN "rejected"
    ELSE "unfinalized"

\* Allow of the two policies, past the minimum execution period.
ThresholdAllow(t, total, need) ==
    IF t.yes >= MinOf(need, total) THEN "accepted"
    ELSE IF t.yes + Undecided(t, total) < MinOf(need, total) THEN "rejected"
    ELSE "unfinalized"

PercentageAllow(t, total, need) ==
    LET notAbstaining == total - t.abstain IN
    IF notAbstaining = 0 THEN "rejected"
    ELSE IF RatioGTE(t.yes, notAbstaining, need) THEN "accepted"
    ELSE IF ~RatioGTE(t.yes + Undecided(t, total), notAbstaining, need) THEN "rejected"
    ELSE "unfinalized"

Allow(policy, t, total) ==
    IF policy.kind = "threshold" THEN ThresholdAllow(t, total, policy.need)
                                 ELSE PercentageAllow(t, total, policy.need)

\* doTallyAndUpdate returns an error before the minimum execution period.
TallyErr(st, p, time) == time - p.submitTime < st.policy.minExecution

\* doTallyAndUpdate: the proposal and the votes that remain.
Tallied(st, id, p) ==
    LET t == IF p.status = "closed" THEN p.tally ELSE TallyOf(st, id)
        decision == Allow(st.policy, t, st.totalWeight)
    IN  IF decision = "unfinalized" THEN p
        ELSE [p EXCEPT !.tally = t, !.result = decision, !.status = "closed"]

-----------------------------------------------------------------------------
(* The keeper.                                                             *)
\* The entries of g are stored over those of f.
Put(f, g) == [x \in DOMAIN f \cup DOMAIN g |-> IF x \in DOMAIN g THEN g[x] ELSE f[x]]

SetProposal(st, id, p) == [st EXCEPT !.proposals = Put(@, [i \in {id} |-> p])]

\* The key of a proposal in the queue.
VPEndKey(id, p) == <<id, p.vpEnd>>

PruneVotes(st, ids) == [st EXCEPT !.votes = Without(@, VotesOn(st, ids))]

\* For mutation: the queue is forgotten.
PruneNotQueue(st, id, p) == [PruneVotes(st, {id}) EXCEPT !.proposals = Without(@, {id})]

PruneProposal(st, id, p) ==
    [PruneVotes(st, {id}) EXCEPT
        !.queue = @ \ {VPEndKey(id, p)},
        !.proposals = Without(@, {id})]

\* The iteration in order of ids ends at the first proposal whose version is
\* not the one before the latest.
Reached(st) ==
    {i \in DOMAIN st.proposals :
        \A j \in DOMAIN st.proposals : j <= i => st.proposals[j].version = st.version - 1}

Aborted(st, ids) == [i \in ids |-> [st.proposals[i] EXCEPT !.status = "aborted"]]

\* For mutation: aborted without pruneVotes; aborted whatever the status.
AbortKeepsVotes(st) ==
    LET old == {i \in Reached(st) : st.proposals[i].status = "submitted"} IN
    [st EXCEPT !.proposals = Put(@, Aborted(st, old))]

AbortAnyStatus(st) ==
    [PruneVotes(st, Reached(st)) EXCEPT !.proposals = Put(@, Aborted(st, Reached(st)))]

AbortOldProposals(st) ==
    LET old == {i \in Reached(st) : st.proposals[i].status = "submitted"} IN
    [PruneVotes(st, old) EXCEPT !.proposals = Put(@, Aborted(st, old))]

\* The result of TotalWeight.Add is not assigned.
UpdateMembersOk(st, join, leave) == leave \subseteq st.members
UpdateMembers(st, join, leave) ==
    AbortOldProposals([st EXCEPT !.members = (@ \cup join) \ leave, !.version = @ + 1])

UpdateDecisionPolicy(st, p) ==
    AbortOldProposals([st EXCEPT !.policy = p, !.version = @ + 1])

Submitted(st, id) == id \in DOMAIN st.proposals /\ st.proposals[id].status = "submitted"

WithdrawProposal(st, id) == [st EXCEPT !.proposals[id].status = "withdrawn"]

VoteOk(st, id, voter) ==
    <<id, voter>> \notin DOMAIN st.votes /\ Submitted(st, id) /\ now < st.proposals[id].vpEnd
Vote(st, id, voters, opt) == [st EXCEPT !.votes = Put(@, [v \in {id} \X voters |-> opt])]

SubmitProposal(st, proposers, payload) ==
    LET id == st.previousId + 1
        p == [proposers |-> proposers, submitTime |-> now, vpEnd |-> now + st.policy.votingPeriod,
              version |-> st.version, status |-> "submitted", result |-> "unfinalized",
              executor |-> "notrun", tally |-> ZeroTally, payload |-> payload]
    IN  [SetProposal(st, id, p) EXCEPT !.previousId = id, !.queue = @ \cup {VPEndKey(id, p)}]

-----------------------------------------------------------------------------
(* Exec.                                                                   *)
\* Whether a message of another module succeeds is decided there.
PayloadOk(st, m, luck) ==
    CASE m.type = "members" -> UpdateMembersOk(st, m.join, m.leave)
      [] m.type = "policy" -> TRUE
      [] m.type = "withdraw" -> Submitted(st, m.id)
      [] m.type = "other" -> luck

PayloadRun(st, m) ==
    CASE m.type = "members" -> UpdateMembers(st, m.join, m.leave)
      [] m.type = "policy" -> UpdateDecisionPolicy(st, m.policy)
      [] m.type = "withdraw" -> WithdrawProposal(st, m.id)
      [] m.type = "other" -> st

ExecOk(st, id) ==
    /\ id \in DOMAIN st.proposals
    /\ st.proposals[id].status \in {"submitted", "closed"}
    /\ st.proposals[id].status = "submitted" => ~TallyErr(st, st.proposals[id], now)

\* The proposal and the store after doTallyAndUpdate; the proposal is not
\* stored yet, the votes are pruned already.
ExecProposal(st, id) ==
    LET p == st.proposals[id] IN IF p.status = "submitted" THEN Tallied(st, id, p) ELSE p
ExecStore(st, id) ==
    IF ExecProposal(st, id) # st.proposals[id] THEN PruneVotes(st, {id}) ELSE st

Runs(st, id) ==
    LET p == ExecProposal(st, id) IN
    p.status = "closed" /\ p.result = "accepted" /\ p.executor # "success"

Succeeds(st, id, luck) ==
    Runs(st, id) /\ PayloadOk(ExecStore(st, id), st.proposals[id].payload, luck)

\* For mutation: the executed proposal stays in the store as it was.
ExecKeeps(st, id, luck) ==
    IF Succeeds(st, id, luck) THEN PayloadRun(ExecStore(st, id), st.proposals[id].payload)
                              ELSE SetProposal(ExecStore(st, id), id, ExecProposal(st, id))

Exec(st, id, luck) ==
    LET p == ExecProposal(st, id)
        st1 == ExecStore(st, id)
    IN  CASE Succeeds(st, id, luck) -> PruneProposal(PayloadRun(st1, p.payload), id, p)
          [] Runs(st, id) /\ ~Succeeds(st, id, luck) ->
                SetProposal(st1, id, [p EXCEPT !.executor = "failure"])
          [] OTHER -> SetProposal(st1, id, p)

-----------------------------------------------------------------------------
(* EndBlocker.                                                             *)
\* The key of a queue entry has the id, preceded by its length, before the
\* time; the length sorts below every formatted time, so the range up to a time
\* holds every entry.  Its value is empty and decodes to a proposal whose fields
\* are all zero.
ZeroTime == -1000000
ZeroProposal ==
    [proposers |-> {}, submitTime |-> ZeroTime, vpEnd |-> ZeroTime, version |-> 0,
     status |-> "unspecified", result |-> "unspecified", executor |-> "unspecified",
     tally |-> ZeroTally, payload |-> [type |-> "other"]]

InRange(st, endTime) == st.queue
DecodedId(entry) == 0
Decoded(st, entry) == ZeroProposal

UpdateTallyOfVPEndProposals(st) ==
    LET ended == InRange(st, now)
        ids == {DecodedId(e) : e \in ended}
        new == [i \in ids |-> Tallied(st, i, Decoded(st, CHOOSE e \in ended : DecodedId(e) = i))]
    IN  [PruneVotes(st, {i \in ids : new[i].status = "closed"}) EXCEPT !.proposals = Put(@, new)]

PruneExpiredProposals(st) ==
    LET expired == InRange(st, now - MaxExecutionPeriod)
        ids == {DecodedId(e) : e \in expired}
    IN  [PruneVotes(st, ids) EXCEPT
            !.queue = @ \ {VPEndKey(DecodedId(e), Decoded(st, e)) : e \in expired},
            !.proposals = Without(@, ids)]

\* For mutation: only the tally.
EndBlockerTallies(st) == UpdateTallyOfVPEndProposals(st)

EndBlocker(st) == PruneExpiredProposals(UpdateTallyOfVPEndProposals(st))

-----------------------------------------------------------------------------
(* The Msg service.                                                        *)
WithinBound == s'.version <= MaxVersion

MsgUpdateMembers(join, leave) ==
    /\ OperatorSigns
    /\ join \cup leave # {} /\ join \cap leave = {}
    /\ UpdateMembersOk(s, join, leave)
    /\ s' = UpdateMembers(s, join, leave)
    /\ WithinBound
    /\ UNCHANGED <<now, executed>>

MsgLeaveFoundation(a) ==
    /\ a \in s.members
    /\ s' = UpdateMembers(s, {}, {a})
    /\ WithinBound
    /\ UNCHANGED <<now, executed>>

MsgUpdateDecisionPolicy(p) ==
    /\ OperatorSigns
    /\ s' = UpdateDecisionPolicy(s, p)
    /\ WithinBound
    /\ UNCHANGED <<now, executed>>

Executed(st, id, luck) ==
    executed' = IF Succeeds(st, id, luck) THEN [executed EXCEPT ![id] = @ + 1] ELSE executed

\* With EXEC_TRY the proposers vote yes and the proposal is executed.
MsgSubmitProposal(proposers, payload, try, luck) ==
    LET st == SubmitProposal(s, proposers, payload)
        st1 == Vote(st, st.previousId, proposers, "yes")
    IN
    /\ s.previousId < MaxProposal
    /\ proposers # {} /\ proposers \subseteq s.members
    /\ \/ ~try /\ s' = st /\ UNCHANGED executed
       \/ /\ try
          /\ ExecOk(st1, st.previousId)
          /\ s' = Exec(st1, st.previousId, luck)
          /\ Executed(st1, st.previousId, luck)
    /\ WithinBound
    /\ UNCHANGED now

MsgWithdrawProposal(id, actor) ==
    /\ Submitted(s, id)
    /\ OperatorSigns \/ actor \in s.proposals[id].proposers
    /\ s' = WithdrawProposal(s, id)
    /\ UNCHANGED <<now, executed>>

MsgVote(id, voter, opt, try, luck) ==
    LET st == Vote(s, id, {voter}, opt) IN
    /\ voter \in s.members /\ VoteOk(s, id, voter)
    /\ \/ ~try /\ s' = st /\ UNCHANGED executed
       \/ try /\ ExecOk(st, id) /\ s' = Exec(st, id, luck) /\ Executed(st, id, luck)
    /\ WithinBound
    /\ UNCHANGED now

MsgExec(id, signer, luck) ==
    /\ signer \in s.members
    /\ ExecOk(s, id)
    /\ s' = Exec(s, id, luck)
    /\ Executed(s, id, luck)
    /\ WithinBound
    /\ UNCHANGED now

EndBlock ==
    /\ now < MaxTime
    /\ s' = EndBlocker(s)
    /\ now' = now + 1
    /\ UNCHANGED executed

Next ==
    \/ \E join, leave \in SUBSET Address : MsgUpdateMembers(join, leave)
    \/ \E a \in Address : MsgLeaveFoundation(a)
    \/ \E p \in Policies : MsgUpdateDecisionPolicy(p)
    \/ \E P \in SUBSET Address, m \in PayloadSet, try, luck \in BOOLEAN : MsgSubmitProposal(P, m, try, luck)
    \/ \E id \in Id, a \in Address : MsgWithdrawProposal(id, a)
    \/ \E id \in Id, a \in Address, o \in OptionSet, try, luck \in BOOLEAN : MsgVote(id, a, o, try, luck)
    \/ \E id \in Id, a \in Address, luck \in BOOLEAN : MsgExec(id, a, luck)
    \/ EndBlock

Spec == Init /\ [][Next]_vars

-----------------------------------------------------------------------------
(* Properties.                                                             *)

\* The queue has exactly one entry per stored proposal, at the end of its voting
\* period, though only SubmitProposal and pruneProposal touch it and EndBlocker
\* does not decode it: an entry is never orphaned nor lost.
QueueMatches == s.queue = {<<i, s.proposals[i].vpEnd>> : i \in DOMAIN s.proposals}

\* A proposal that was decided, aborted or deleted has no votes left in the
\* store.  (A withdrawn one keeps its votes.)
VotesArePruned ==
    \A v \in DOMAIN s.votes :
        v[1] \in DOMAIN s.proposals /\ s.proposals[v[1]].status \in {"submitted", "withdrawn"}

\* The messages of a proposal take effect at most once, whatever the mix of
\* EXEC_TRY submissions, EXEC_TRY votes and MsgExecs, and the proposal is gone
\* when they have.
ExecutedOnce ==
    \A i \in Id : executed[i] <= 1 /\ (executed[i] = 1 => i \notin DOMAIN s.proposals)

\* A decision is final: a closed proposal keeps status, result and tally until
\* it is deleted, through policy and membership changes and further MsgExecs.
DecisionIsFinal ==
    [][\A i \in DOMAIN s.proposals \cap DOMAIN s'.proposals :
        LET p == s.proposals[i]
            q == s'.proposals[i]
        IN  p.status = "closed" => q.status = "closed" /\ q.result = p.result /\ q.tally = p.tally]_vars

\* Deciding before everyone has voted anticipates nothing: with the policy and
\* total weight in force, a decision that Exec could take now on the votes cast
\* stays the same under any further votes of those who have not voted.
Later(t, u, total) ==
    t.yes <= u.yes /\ t.no <= u.no /\ t.abstain <= u.abstain /\ u.yes + u.no + u.abstain <= total
SmallTally == [yes : 0..Cardinality(Address), no : 0..Cardinality(Address), abstain : 0..Cardinality(Address)]
EarlyDecisionSound ==
    \A i \in DOMAIN s.proposals :
        LET decision(v) == Allow(s.policy, v, s.totalWeight)
            t == TallyOf(s, i)
        IN  Submitted(s, i) /\ decision(t) # "unfinalized"
            => \A u \in SmallTally : Later(t, u, s.totalWeight) => decision(u) = decision(t)

-----------------------------------------------------------------------------
(* What comments say of the code.                                          *)

\* foundation.proto: "total_weight is the number of the foundation members."
TotalWeightIsMembers == s.totalWeight = Cardinality(s.members)

\* abortOldProposals "aborts all proposals which have lower version than the
\* current foundation's".
OldProposalsAborted ==
    \A i \in DOMAIN s.proposals :
        s.proposals[i].version < s.version => s.proposals[i].status # "submitted"

\* PruneExpiredProposals "prunes all proposals which are expired": none whose
\* time was up at the last EndBlock is left.
ExpiredArePruned ==
    \A i \in DOMAIN s.proposals : s.proposals[i].vpEnd + MaxExecutionPeriod > now - 1

=============================================================================
