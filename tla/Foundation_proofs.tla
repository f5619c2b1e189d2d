-------------------------- MODULE Foundation_proofs --------------------------
(***************************************************************************)
(* Proofs about Foundation for every set of members and policies and every *)
(* bound.  First the decision policies: deciding a proposal before         *)
(* everyone has voted is sound for every policy, total weight and tally.   *)
(* Then the proposals, their queue and their votes.                        *)
(*                                                                         *)
(* A proposal's messages may themselves replace the store (update members, *)
(* abort, withdraw), so what has to hold is stated of a store, Good(st),   *)
(* and shown of every keeper function on any good store; Follows(st, r)    *)
(* says what a keeper function may do to the proposals of st.              *)
(***************************************************************************)
EXTENDS Foundation, FiniteSetTheorems, TLAPS

\* ThresholdDecisionPolicy.Allow: a final decision does not change with the
\* votes still to come.
LEMMA ThresholdStable ==
    ASSUME NEW total \in Nat, NEW need \in Nat, NEW t \in Tally, NEW u \in Tally,
           Later(t, u, total),
           ThresholdAllow(t, total, need) # "unfinalized"
    PROVE  ThresholdAllow(u, total, need) = ThresholdAllow(t, total, need)
<1> DEFINE real == MinOf(need, total)
<1>1. real \in Nat /\ real <= total
  BY DEF MinOf
<1>2. /\ t.yes \in Nat /\ t.no \in Nat /\ t.abstain \in Nat
      /\ u.yes \in Nat /\ u.no \in Nat /\ u.abstain \in Nat
  BY DEF Tally
<1>3. /\ t.yes <= u.yes /\ t.no <= u.no /\ t.abstain <= u.abstain
      /\ u.yes + u.no + u.abstain <= total
  BY DEF Later
<1>4. CASE t.yes >= real
  <2>1. u.yes >= real
    BY <1>1, <1>2, <1>3, <1>4
  <2> QED
    BY <1>4, <2>1 DEF ThresholdAllow
<1>5. CASE ~(t.yes >= real)
  <2>1. t.yes + Undecided(t, total) < real
    BY <1>5 DEF ThresholdAllow
  <2>2. u.yes + Undecided(u, total) < real
    BY <1>1, <1>2, <1>3, <2>1 DEF Undecided
  <2>3. ~(u.yes >= real)
    BY <1>1, <1>2, <1>3, <2>2 DEF Undecided
  <2> QED
    BY <1>5, <2>1, <2>2, <2>3 DEF ThresholdAllow
<1> QED
  BY <1>4, <1>5

\* PercentageDecisionPolicy.Allow: the same, for a positive percentage.  Votes
\* to abstain shrink the base of the percentage, which never turns a proposal
\* that could not pass into one that does.
LEMMA PercentageStable ==
    ASSUME NEW total \in Nat, NEW need \in Nat, need > 0, need <= 100,
           NEW t \in Tally, NEW u \in Tally,
           Later(t, u, total),
           PercentageAllow(t, total, need) # "unfinalized"
    PROVE  PercentageAllow(u, total, need) = PercentageAllow(t, total, need)
<1> DEFINE D(v) == total - v.abstain
           M(v) == v.yes + Undecided(v, total)
<1>1. /\ t.yes \in Nat /\ t.no \in Nat /\ t.abstain \in Nat
      /\ u.yes \in Nat /\ u.no \in Nat /\ u.abstain \in Nat
  BY DEF Tally
<1>2. /\ t.yes <= u.yes /\ t.no <= u.no /\ t.abstain <= u.abstain
      /\ u.yes + u.no + u.abstain <= total
  BY DEF Later
<1>3. PICK k \in Nat : u.abstain = t.abstain + k
  <2>1. u.abstain - t.abstain \in Nat /\ u.abstain = t.abstain + (u.abstain - t.abstain)
    BY <1>1, <1>2
  <2> QED
    BY <2>1
<1>4. D(t) \in Nat /\ D(u) \in Nat /\ D(t) = D(u) + k
  BY <1>1, <1>2, <1>3
<1>5. need * D(t) = need * D(u) + need * k /\ need * D(u) \in Nat /\ need * k \in Nat
  BY <1>3, <1>4
<1>6. need * k <= 100 * k
  BY <1>3
<1>7. CASE D(t) = 0
  BY <1>4, <1>7, <1>3 DEF PercentageAllow
<1>8. CASE D(t) # 0 /\ RatioGTE(t.yes, D(t), need)
  <2>1. 100 * t.yes >= need * D(t)
    BY <1>4, <1>8 DEF RatioGTE
  <2>2. need * D(t) > 0
    BY <1>4, <1>8
  <2>3. u.yes > 0
    BY <1>1, <1>2, <2>1, <2>2
  <2>4. D(u) > 0
    BY <1>1, <1>2, <2>3
  <2>5. 100 * u.yes >= need * D(u)
    BY <1>1, <1>2, <1>5, <2>1
  <2> QED
    BY <1>8, <2>4, <2>5 DEF PercentageAllow, RatioGTE
<1>9. CASE D(t) # 0 /\ ~RatioGTE(t.yes, D(t), need)
  <2>1. ~RatioGTE(M(t), D(t), need)
    BY <1>9 DEF PercentageAllow
  <2>2. 100 * M(t) < need * D(t)
    BY <1>1, <1>4, <1>9, <2>1 DEF RatioGTE, Undecided
  <2>3. M(t) \in Int /\ M(u) \in Int /\ M(u) + k <= M(t) /\ u.yes <= M(u)
    BY <1>1, <1>2, <1>3 DEF Undecided
  <2>4. 100 * M(u) < need * D(u)
    BY <1>3, <1>5, <1>6, <2>2, <2>3
  <2>5. 100 * u.yes < need * D(u)
    BY <1>1, <1>5, <2>3, <2>4
  <2>6. D(u) > 0 => ~RatioGTE(u.yes, D(u), need) /\ ~RatioGTE(M(u), D(u), need)
    BY <1>1, <1>5, <2>3, <2>4, <2>5 DEF RatioGTE
  <2> QED
    BY <1>4, <1>9, <2>1, <2>6 DEF PercentageAllow
<1> QED
  BY <1>7, <1>8, <1>9

\* The tally of votes is a tally: the votes of a store are finitely many.
LEMMA TallyOfType == 
    ASSUME NEW st, DOMAIN st.votes \subseteq (Id \X Address), NEW i
    PROVE  TallyOf(st, i) \in Tally
<1>1. IsFiniteSet(Id)
  <2>1. 0 \in Int /\ MaxProposal \in Int
    BY BoundsAssumption
  <2>2. IsFiniteSet(0 .. MaxProposal)
    BY <2>1, FS_Interval, Zenon
  <2> QED
    BY <2>2 DEF Id
<1>2. IsFiniteSet(Id \X Address)
  BY <1>1, GenesisAssumption, FS_Product
<1>3. ASSUME NEW opt PROVE Count(st, i, opt) \in Nat
  <2> DEFINE S == {v \in DOMAIN st.votes : v[1] = i /\ v[2] \in st.members /\ st.votes[v] = opt}
  <2>1. S \subseteq (Id \X Address)
    OBVIOUS
  <2>2. IsFiniteSet(S)
    BY <1>2, <2>1, FS_Subset
  <2>3. Cardinality(S) \in Nat
    BY <2>2, FS_CardinalityType
  <2> QED
    BY <2>3 DEF Count
<1> QED
  BY <1>3 DEF TallyOf, Tally

\* In every well-typed store, whatever the members, policies and total weight,
\* a decision of doTallyAndUpdate on the votes cast so far is the one that any
\* further votes would give.
THEOREM DecideEarly == TypeOK => EarlyDecisionSound
<1> SUFFICES ASSUME TypeOK, NEW i \in DOMAIN s.proposals, NEW u \in SmallTally,
                    Later(TallyOf(s, i), u, s.totalWeight),
                    Allow(s.policy, TallyOf(s, i), s.totalWeight) # "unfinalized"
             PROVE  Allow(s.policy, u, s.totalWeight) = Allow(s.policy, TallyOf(s, i), s.totalWeight)
  BY DEF EarlyDecisionSound
<1> DEFINE t == TallyOf(s, i)
           total == s.totalWeight
           need == s.policy.need
<1>1. total \in Nat /\ s.policy \in Policies
  BY DEF TypeOK, StoreOK
<1>2. need \in Nat /\ (s.policy.kind = "percentage" => need \in 1..100)
      /\ s.policy.kind \in {"threshold", "percentage"}
  BY <1>1, PolicyAssumption DEF Policy, PercentageValidate
<1>3. Cardinality(Address) \in Nat
  BY GenesisAssumption, FS_CardinalityType
<1>4. t \in Tally /\ u \in Tally
  BY <1>3, TallyOfType DEF SmallTally, Tally, TypeOK, StoreOK
<1> HIDE DEF t
<1>5. CASE s.policy.kind = "threshold"
  BY <1>1, <1>2, <1>4, <1>5, ThresholdStable DEF Allow, t
<1>6. CASE s.policy.kind = "percentage"
  <2>1. need > 0 /\ need <= 100
    BY <1>2, <1>6
  <2> QED
    BY <1>1, <1>2, <1>4, <1>6, <2>1, PercentageStable DEF Allow, t
<1> QED
  BY <1>2, <1>5, <1>6 DEF t

-----------------------------------------------------------------------------
(* The store.  Good is what every operation of the keeper keeps: besides    *)
(* the types, that the ids of stored proposals have been given out, the     *)
(* queue and the votes match the proposals.  Follows is what a store may    *)
(* become of another: an id that is given up is never used again, a        *)
(* proposal keeps the end of its voting period, and a decision stays.      *)
Fields == {"members", "policy", "version", "totalWeight", "previousId", "proposals", "queue", "votes"}

Typed(st) ==
    /\ DOMAIN st = Fields
    /\ st.members \subseteq Address
    /\ st.policy \in Policies
    /\ st.version \in Nat \ {0}
    /\ st.totalWeight \in Nat
    /\ st.previousId \in Id
    /\ \A i \in DOMAIN st.proposals : i \in 1 .. st.previousId /\ st.proposals[i] \in Proposal
    /\ DOMAIN st.votes \subseteq (Id \X Address)
    /\ \A v \in DOMAIN st.votes : st.votes[v] \in Option

Queued(st) == st.queue = {<<i, st.proposals[i].vpEnd>> : i \in DOMAIN st.proposals}

Live(st, i) == i \in DOMAIN st.proposals /\ st.proposals[i].status \in {"submitted", "withdrawn"}

VotesLive(st) == \A v \in DOMAIN st.votes : Live(st, v[1])

Good(st) == Typed(st) /\ Queued(st) /\ VotesLive(st)

Follows(st, r) ==
    /\ st.previousId <= r.previousId
    /\ \A i \in DOMAIN r.proposals : i \in DOMAIN st.proposals \/ i > st.previousId
    /\ \A i \in DOMAIN st.proposals \cap DOMAIN r.proposals :
         LET p == st.proposals[i]
             q == r.proposals[i]
         IN  /\ q.vpEnd = p.vpEnd
             /\ p.status = "closed" => q.status = "closed" /\ q.result = p.result /\ q.tally = p.tally

LEMMA FollowsTransitive ==
    ASSUME NEW st, NEW mid, NEW r, Typed(st), Typed(mid), Typed(r), Follows(st, mid), Follows(mid, r)
    PROVE  Follows(st, r)
<1>1. st.previousId \in Int /\ mid.previousId \in Int /\ r.previousId \in Int
  BY BoundsAssumption DEF Typed, Id
<1>2. st.previousId <= r.previousId
  BY <1>1 DEF Follows
<1>3. \A i \in DOMAIN r.proposals : i \in Int
  BY <1>1 DEF Typed
<1>4. \A i \in DOMAIN r.proposals : i \in DOMAIN st.proposals \/ i > st.previousId
  BY <1>1, <1>3 DEF Follows
<1>5. ASSUME NEW i \in DOMAIN st.proposals \cap DOMAIN r.proposals
      PROVE  i \in DOMAIN mid.proposals
  <2>1. i <= st.previousId /\ i \in Int
    BY <1>1 DEF Typed
  <2>2. ~(i > mid.previousId)
    BY <1>1, <2>1 DEF Follows
  <2> QED
    BY <2>2 DEF Follows
<1> QED
  BY <1>2, <1>4, <1>5 DEF Follows

LEMMA FollowsReflexive == ASSUME NEW st, Typed(st) PROVE Follows(st, st)
  BY BoundsAssumption DEF Typed, Id, Follows

\* The basic changes of a store, field by field.
LEMMA PruneVotesFields ==
    ASSUME NEW st, DOMAIN st = Fields, NEW ids, NEW r, r = PruneVotes(st, ids)
    PROVE  /\ DOMAIN r = Fields /\ \A f \in Fields \ {"votes"} : r[f] = st[f]
           /\ DOMAIN r.votes = {v \in DOMAIN st.votes : v[1] \notin ids}
           /\ \A v \in DOMAIN r.votes : r.votes[v] = st.votes[v]
<1>1. /\ DOMAIN r = Fields /\ \A f \in Fields \ {"votes"} : r[f] = st[f]
      /\ r.votes = Without(st.votes, VotesOn(st, ids))
  BY DEF PruneVotes, Fields
<1> QED
  BY <1>1 DEF Without, Restrict, VotesOn

\* Fewer votes do no harm.
LEMMA PruneVotesGood ==
    ASSUME NEW st, Good(st), NEW ids
    PROVE  Good(PruneVotes(st, ids)) /\ Follows(st, PruneVotes(st, ids))
<1> DEFINE r == PruneVotes(st, ids)
<1>0. Typed(st) /\ Queued(st) /\ VotesLive(st)
  BY DEF Good
<1>1. /\ DOMAIN r = Fields
      /\ r.members = st.members /\ r.policy = st.policy /\ r.version = st.version
      /\ r.totalWeight = st.totalWeight /\ r.previousId = st.previousId
      /\ r.proposals = st.proposals /\ r.queue = st.queue
      /\ DOMAIN r.votes \subseteq DOMAIN st.votes
      /\ \A v \in DOMAIN r.votes : r.votes[v] = st.votes[v]
  BY <1>0, PruneVotesFields DEF Typed, Fields
<1> HIDE DEF r
<1>2. Typed(r)
  BY <1>0, <1>1 DEF Typed
<1>3. Queued(r) /\ VotesLive(r)
  BY <1>0, <1>1 DEF Queued, VotesLive, Live
<1>4. Follows(st, r)
  BY <1>0, <1>1, FollowsReflexive DEF Follows
<1> QED
  BY <1>2, <1>3, <1>4 DEF Good, r

\* Operations that keep the ids: the proposals change within their types.
LEMMA SameIds ==
    ASSUME NEW st, Good(st), NEW r, DOMAIN r = Fields,
           r.members \subseteq Address, r.policy \in Policies, r.version \in Nat \ {0},
           r.totalWeight = st.totalWeight, r.previousId = st.previousId, r.queue = st.queue,
           DOMAIN r.proposals = DOMAIN st.proposals,
           \A i \in DOMAIN st.proposals :
               /\ r.proposals[i] \in Proposal
               /\ r.proposals[i].vpEnd = st.proposals[i].vpEnd
               /\ st.proposals[i].status = "closed" =>
                     /\ r.proposals[i].status = "closed"
                     /\ r.proposals[i].result = st.proposals[i].result
                     /\ r.proposals[i].tally = st.proposals[i].tally,
           DOMAIN r.votes \subseteq (Id \X Address),
           \A v \in DOMAIN r.votes : r.votes[v] \in Option /\ Live(r, v[1])
    PROVE  Good(r) /\ Follows(st, r)
<1>0. Typed(st) /\ Queued(st)
  BY DEF Good
<1>1. Typed(r)
  BY <1>0 DEF Typed
<1>2. Queued(r)
  BY <1>0 DEF Queued
<1>3. VotesLive(r)
  BY DEF VotesLive
<1>4. st.previousId <= r.previousId
  BY <1>0, BoundsAssumption DEF Typed, Id
<1>5. Follows(st, r)
  BY <1>4 DEF Follows
<1> QED
  BY <1>1, <1>2, <1>3, <1>5 DEF Good

\* The proposals of a store that some change does not touch.
LEMMA Untouched ==
    ASSUME NEW st, Good(st)
    PROVE  /\ DOMAIN st = Fields /\ st.members \subseteq Address /\ st.policy \in Policies
           /\ st.version \in Nat \ {0} /\ st.totalWeight \in Nat /\ st.previousId \in Id
           /\ \A i \in DOMAIN st.proposals : st.proposals[i] \in Proposal
           /\ DOMAIN st.votes \subseteq (Id \X Address)
           /\ \A v \in DOMAIN st.votes : st.votes[v] \in Option /\ Live(st, v[1])
  BY DEF Good, Typed, VotesLive

LEMMA StatusFields ==
    ASSUME NEW p \in Proposal, NEW x \in {"submitted", "closed", "aborted", "withdrawn"},
           NEW q, q = [p EXCEPT !.status = x]
    PROVE  q \in Proposal /\ q.status = x /\ q.vpEnd = p.vpEnd
  BY DEF Proposal

LEMMA AbortOldProposalsGood ==
    ASSUME NEW st, Good(st)
    PROVE  Good(AbortOldProposals(st)) /\ Follows(st, AbortOldProposals(st))
<1> DEFINE old == {i \in Reached(st) : st.proposals[i].status = "submitted"}
           mid == PruneVotes(st, old)
           r == AbortOldProposals(st)
<1>1. old \subseteq DOMAIN st.proposals /\ \A i \in old : st.proposals[i].status = "submitted"
  BY DEF Reached
<1>2. /\ DOMAIN mid = Fields /\ \A f \in Fields \ {"votes"} : mid[f] = st[f]
      /\ DOMAIN mid.votes = {v \in DOMAIN st.votes : v[1] \notin old}
      /\ \A v \in DOMAIN mid.votes : mid.votes[v] = st.votes[v]
  BY PruneVotesFields DEF Good, Typed
<1>3. r = [mid EXCEPT !.proposals = Put(mid.proposals, Aborted(st, old))]
  BY DEF AbortOldProposals
<1> HIDE DEF old, mid, r
<1>4. /\ DOMAIN r = Fields /\ r.proposals = Put(st.proposals, Aborted(st, old))
      /\ r.members = st.members /\ r.policy = st.policy /\ r.version = st.version
      /\ r.totalWeight = st.totalWeight /\ r.previousId = st.previousId
      /\ r.queue = st.queue /\ r.votes = mid.votes
  BY <1>2, <1>3 DEF Fields
<1>5. DOMAIN Aborted(st, old) = old /\ \A i \in old : Aborted(st, old)[i] = [st.proposals[i] EXCEPT !.status = "aborted"]
  BY DEF Aborted
<1>6. /\ DOMAIN r.proposals = DOMAIN st.proposals
      /\ \A i \in old : r.proposals[i] = [st.proposals[i] EXCEPT !.status = "aborted"]
      /\ \A i \in DOMAIN st.proposals : i \notin old => r.proposals[i] = st.proposals[i]
  <2> DEFINE g == Aborted(st, old)
  <2>1. DOMAIN g = old /\ \A i \in old : g[i] = [st.proposals[i] EXCEPT !.status = "aborted"]
    BY <1>5
  <2>2. r.proposals = Put(st.proposals, g)
    BY <1>4
  <2> HIDE DEF g
  <2>3. /\ DOMAIN r.proposals = DOMAIN st.proposals \cup DOMAIN g
        /\ \A i \in DOMAIN g : r.proposals[i] = g[i]
        /\ \A i \in DOMAIN st.proposals : i \notin DOMAIN g => r.proposals[i] = st.proposals[i]
    BY <2>2 DEF Put
  <2> QED
    BY <1>1, <2>1, <2>3
<1>7. ASSUME NEW i \in DOMAIN st.proposals
      PROVE  /\ r.proposals[i] \in Proposal
             /\ r.proposals[i].vpEnd = st.proposals[i].vpEnd
             /\ st.proposals[i].status = "closed" =>
                   /\ r.proposals[i].status = "closed"
                   /\ r.proposals[i].result = st.proposals[i].result
                   /\ r.proposals[i].tally = st.proposals[i].tally
  <2>1. CASE i \in old
    <3>1. st.proposals[i] \in Proposal /\ st.proposals[i].status = "submitted"
      BY <1>1, <2>1, Untouched
    <3>2. r.proposals[i] = [st.proposals[i] EXCEPT !.status = "aborted"]
      BY <1>6, <2>1
    <3>3. r.proposals[i] \in Proposal /\ r.proposals[i].vpEnd = st.proposals[i].vpEnd
      BY <3>1, <3>2, StatusFields
    <3> QED
      BY <3>1, <3>3
  <2>2. CASE i \notin old
    BY <1>6, <2>2, Untouched
  <2> QED
    BY <2>1, <2>2
<1>8. DOMAIN r.votes \subseteq (Id \X Address) /\ \A v \in DOMAIN r.votes : r.votes[v] \in Option /\ Live(r, v[1])
  <2>1. \A v \in DOMAIN r.votes : v \in DOMAIN st.votes /\ v[1] \notin old /\ r.votes[v] = st.votes[v]
    BY <1>2, <1>4
  <2> QED
    BY <1>6, <2>1, Untouched DEF Live
<1> QED
  BY <1>4, <1>6, <1>7, <1>8, Untouched, SameIds DEF r

\* A change of the members or the policy.
LEMMA NewVersionGood ==
    ASSUME NEW st, Good(st), NEW M \in SUBSET Address, NEW p \in Policies,
           NEW mid, DOMAIN mid = Fields, mid.members = M, mid.policy = p, mid.version = st.version + 1,
           \A f \in Fields \ {"members", "policy", "version"} : mid[f] = st[f]
    PROVE  Good(AbortOldProposals(mid)) /\ Follows(st, AbortOldProposals(mid))
<1>1. /\ mid.proposals = st.proposals /\ mid.votes = st.votes /\ mid.queue = st.queue
      /\ mid.totalWeight = st.totalWeight /\ mid.previousId = st.previousId
  BY DEF Fields
<1>2. mid.version \in Nat \ {0}
  BY DEF Good, Typed
<1>3. Good(mid) /\ Follows(st, mid)
  BY <1>1, <1>2, Untouched, SameIds DEF Live
<1>4. Good(AbortOldProposals(mid)) /\ Follows(mid, AbortOldProposals(mid))
  BY <1>3, AbortOldProposalsGood
<1> QED
  BY <1>3, <1>4, FollowsTransitive DEF Good

LEMMA UpdateMembersGood ==
    ASSUME NEW st, Good(st), NEW join \in SUBSET Address, NEW leave
    PROVE  Good(UpdateMembers(st, join, leave)) /\ Follows(st, UpdateMembers(st, join, leave))
<1> DEFINE M == (st.members \cup join) \ leave
           mid == [st EXCEPT !.members = M, !.version = st.version + 1]
<1>1. DOMAIN st = Fields /\ M \in SUBSET Address /\ st.policy \in Policies
  BY Untouched
<1>2. UpdateMembers(st, join, leave) = AbortOldProposals(mid)
  BY DEF UpdateMembers
<1>3. /\ DOMAIN mid = Fields /\ mid.members = M /\ mid.policy = st.policy /\ mid.version = st.version + 1
      /\ \A f \in Fields \ {"members", "policy", "version"} : mid[f] = st[f]
  BY <1>1 DEF Fields
<1> HIDE DEF mid, M
<1> QED
  BY <1>1, <1>2, <1>3, NewVersionGood

LEMMA UpdateDecisionPolicyGood ==
    ASSUME NEW st, Good(st), NEW p \in Policies
    PROVE  Good(UpdateDecisionPolicy(st, p)) /\ Follows(st, UpdateDecisionPolicy(st, p))
<1> DEFINE mid == [st EXCEPT !.policy = p, !.version = st.version + 1]
<1>1. DOMAIN st = Fields /\ st.members \in SUBSET Address
  BY Untouched
<1>2. UpdateDecisionPolicy(st, p) = AbortOldProposals(mid)
  BY DEF UpdateDecisionPolicy
<1>3. /\ DOMAIN mid = Fields /\ mid.members = st.members /\ mid.policy = p /\ mid.version = st.version + 1
      /\ \A f \in Fields \ {"members", "policy", "version"} : mid[f] = st[f]
  BY <1>1 DEF Fields
<1> HIDE DEF mid
<1> QED
  BY <1>1, <1>2, <1>3, NewVersionGood

LEMMA WithdrawProposalGood ==
    ASSUME NEW st, Good(st), NEW id, Submitted(st, id)
    PROVE  Good(WithdrawProposal(st, id)) /\ Follows(st, WithdrawProposal(st, id))
<1> DEFINE r == WithdrawProposal(st, id)
           q == [st.proposals[id] EXCEPT !.status = "withdrawn"]
<1>1. DOMAIN st = Fields /\ id \in DOMAIN st.proposals /\ st.proposals[id].status = "submitted"
  BY Untouched DEF Submitted
<1>2. /\ DOMAIN r = Fields /\ r.proposals = [st.proposals EXCEPT ![id] = q]
      /\ r.members = st.members /\ r.policy = st.policy /\ r.version = st.version
      /\ r.totalWeight = st.totalWeight /\ r.previousId = st.previousId
      /\ r.queue = st.queue /\ r.votes = st.votes
  BY <1>1 DEF WithdrawProposal, Fields
<1>3. q \in Proposal /\ q.status = "withdrawn" /\ q.vpEnd = st.proposals[id].vpEnd
  BY <1>1, Untouched, StatusFields
<1> HIDE DEF q, r
<1>4. /\ DOMAIN r.proposals = DOMAIN st.proposals /\ r.proposals[id] = q
      /\ \A i \in DOMAIN st.proposals : i # id => r.proposals[i] = st.proposals[i]
  BY <1>1, <1>2
<1>5. ASSUME NEW i \in DOMAIN st.proposals
      PROVE  /\ r.proposals[i] \in Proposal
             /\ r.proposals[i].vpEnd = st.proposals[i].vpEnd
             /\ st.proposals[i].status = "closed" =>
                   /\ r.proposals[i].status = "closed"
                   /\ r.proposals[i].result = st.proposals[i].result
                   /\ r.proposals[i].tally = st.proposals[i].tally
  BY <1>1, <1>3, <1>4, Untouched
<1>6. \A v \in DOMAIN r.votes : r.votes[v] \in Option /\ Live(r, v[1])
  BY <1>2, <1>3, <1>4, Untouched DEF Live
<1> QED
  BY <1>2, <1>4, <1>5, <1>6, Untouched, SameIds DEF r

\* Votes on a submitted proposal.
LEMMA VoteGood ==
    ASSUME NEW st, Good(st), NEW id, Submitted(st, id), NEW V \in SUBSET Address, NEW opt \in Option
    PROVE  Good(Vote(st, id, V, opt)) /\ Follows(st, Vote(st, id, V, opt))
<1> DEFINE r == Vote(st, id, V, opt)
           g == [v \in {id} \X V |-> opt]
<1>1. DOMAIN st = Fields /\ id \in DOMAIN st.proposals /\ Live(st, id)
  BY Untouched DEF Submitted, Live
<1>2. id \in Id
  BY <1>1, BoundsAssumption DEF Good, Typed, Id
<1>3. /\ DOMAIN r = Fields /\ r.votes = Put(st.votes, g)
      /\ r.members = st.members /\ r.policy = st.policy /\ r.version = st.version
      /\ r.totalWeight = st.totalWeight /\ r.previousId = st.previousId
      /\ r.queue = st.queue /\ r.proposals = st.proposals
  BY <1>1 DEF Vote, Fields
<1> HIDE DEF r
<1>4. DOMAIN r.votes = DOMAIN st.votes \cup ({id} \X V)
  BY <1>3 DEF Put
<1>5. \A v \in DOMAIN r.votes : r.votes[v] = opt \/ (v \in DOMAIN st.votes /\ r.votes[v] = st.votes[v])
  BY <1>3 DEF Put
<1>6. DOMAIN r.votes \subseteq (Id \X Address)
  BY <1>2, <1>4, Untouched
<1>7. ASSUME NEW v \in DOMAIN r.votes PROVE r.votes[v] \in Option /\ Live(r, v[1])
  <2>1. v[1] = id \/ v \in DOMAIN st.votes
    BY <1>4
  <2>2. Live(st, v[1])
    BY <1>1, <2>1, Untouched
  <2> QED
    BY <1>3, <1>5, <2>2, Untouched DEF Live
<1> QED
  BY <1>3, <1>6, <1>7, Untouched, SameIds DEF r

\* A new proposal.
LEMMA SubmitProposalGood ==
    ASSUME NEW st, Good(st), st.previousId < MaxProposal, NEW P \in SUBSET Address,
           NEW m \in Payload, now \in Int, NEW r, r = SubmitProposal(st, P, m)
    PROVE  /\ Good(r) /\ Follows(st, r)
           /\ r.previousId = st.previousId + 1 /\ Submitted(r, r.previousId) /\ r.members = st.members
<1> DEFINE id == st.previousId + 1
           p == [proposers |-> P, submitTime |-> now, vpEnd |-> now + st.policy.votingPeriod,
                 version |-> st.version, status |-> "submitted", result |-> "unfinalized",
                 executor |-> "notrun", tally |-> ZeroTally, payload |-> m]
           mid == SetProposal(st, id, p)
<1>0. Typed(st) /\ Queued(st) /\ VotesLive(st)
  BY DEF Good
<1>1. DOMAIN st = Fields /\ st.previousId \in Nat /\ id \in Id \ {0} /\ id > st.previousId
  BY <1>0, BoundsAssumption DEF Typed, Id
<1>2. p \in Proposal
  <2>1. st.policy.votingPeriod \in Nat
    BY <1>0, PolicyAssumption DEF Typed, Policy
  <2>2. now + st.policy.votingPeriod \in Int /\ ZeroTally \in Tally /\ st.version \in Nat
    BY <1>0, <2>1 DEF ZeroTally, Tally, Typed
  <2> HIDE DEF id
  <2> QED
    BY <2>2 DEF Proposal
<1>3. p.status = "submitted"
  OBVIOUS
<1>4. r = [mid EXCEPT !.previousId = id, !.queue = mid.queue \cup {<<id, p.vpEnd>>}]
  BY DEF SubmitProposal, VPEndKey
<1> HIDE DEF p, id
<1>5. /\ DOMAIN mid = Fields /\ mid.proposals = Put(st.proposals, [i \in {id} |-> p])
      /\ \A f \in Fields \ {"proposals"} : mid[f] = st[f]
  BY <1>1 DEF SetProposal, Fields
<1> HIDE DEF mid
<1>6. /\ DOMAIN r = Fields /\ r.proposals = Put(st.proposals, [i \in {id} |-> p])
      /\ r.members = st.members /\ r.policy = st.policy /\ r.version = st.version
      /\ r.totalWeight = st.totalWeight /\ r.previousId = id
      /\ r.queue = st.queue \cup {<<id, p.vpEnd>>} /\ r.votes = st.votes
  BY <1>4, <1>5 DEF Fields
<1>7. id \notin DOMAIN st.proposals
  BY <1>0, <1>1 DEF Typed
<1>8. /\ DOMAIN r.proposals = DOMAIN st.proposals \cup {id} /\ r.proposals[id] = p
      /\ \A i \in DOMAIN st.proposals : r.proposals[i] = st.proposals[i]
  BY <1>6, <1>7 DEF Put
<1>9. Typed(r)
  <2>1. \A i \in DOMAIN r.proposals : i \in 1 .. r.previousId
    BY <1>0, <1>1, <1>6, <1>8 DEF Typed, id
  <2> QED
    BY <1>0, <1>1, <1>2, <1>6, <1>8, <2>1 DEF Typed
<1>10. Queued(r)
  BY <1>0, <1>6, <1>7, <1>8 DEF Queued
<1>11. VotesLive(r)
  BY <1>0, <1>6, <1>8 DEF VotesLive, Live
<1>12. Follows(st, r)
  BY <1>1, <1>6, <1>7, <1>8, BoundsAssumption DEF Follows, Id
<1> QED
  BY <1>3, <1>6, <1>8, <1>9, <1>10, <1>11, <1>12 DEF Good, Submitted, id

\* A proposal is deleted with its votes and its entry in the queue.
LEMMA PruneProposalGood ==
    ASSUME NEW st, Good(st), NEW id, NEW p,
           id \in DOMAIN st.proposals => p.vpEnd = st.proposals[id].vpEnd,
           NEW r, r = PruneProposal(st, id, p)
    PROVE  Good(r) /\ Follows(st, r) /\ id \notin DOMAIN r.proposals
<1> DEFINE mid == PruneVotes(st, {id})
<1>0. Typed(st) /\ Queued(st) /\ VotesLive(st)
  BY DEF Good
<1>1. /\ DOMAIN mid = Fields /\ \A f \in Fields \ {"votes"} : mid[f] = st[f]
      /\ DOMAIN mid.votes = {v \in DOMAIN st.votes : v[1] \notin {id}}
      /\ \A v \in DOMAIN mid.votes : mid.votes[v] = st.votes[v]
  BY <1>0, PruneVotesFields DEF Typed
<1>2. r = [mid EXCEPT !.queue = mid.queue \ {<<id, p.vpEnd>>}, !.proposals = Without(mid.proposals, {id})]
  BY DEF PruneProposal, VPEndKey
<1> HIDE DEF mid
<1>3. /\ DOMAIN r = Fields /\ r.proposals = Without(st.proposals, {id})
      /\ r.members = st.members /\ r.policy = st.policy /\ r.version = st.version
      /\ r.totalWeight = st.totalWeight /\ r.previousId = st.previousId
      /\ r.queue = st.queue \ {<<id, p.vpEnd>>} /\ r.votes = mid.votes
  BY <1>1, <1>2 DEF Fields
<1>4. /\ DOMAIN r.proposals = DOMAIN st.proposals \ {id}
      /\ \A i \in DOMAIN r.proposals : r.proposals[i] = st.proposals[i]
  BY <1>3 DEF Without, Restrict
<1>5. Typed(r)
  <2>1. \A i \in DOMAIN r.proposals : i \in 1 .. r.previousId /\ r.proposals[i] \in Proposal
    BY <1>0, <1>3, <1>4 DEF Typed
  <2>2. DOMAIN r.votes \subseteq (Id \X Address) /\ \A v \in DOMAIN r.votes : r.votes[v] \in Option
    BY <1>0, <1>1, <1>3 DEF Typed
  <2> QED
    BY <1>0, <1>3, <2>1, <2>2, Zenon DEF Typed
<1>6. Queued(r)
  <2>1. st.queue = {<<i, st.proposals[i].vpEnd>> : i \in DOMAIN st.proposals}
    BY <1>0 DEF Queued
  <2>2. ASSUME NEW i \in DOMAIN st.proposals
        PROVE  <<i, st.proposals[i].vpEnd>> # <<id, p.vpEnd>> <=> i # id
    OBVIOUS
  <2>3. st.queue \ {<<id, p.vpEnd>>} = {<<i, st.proposals[i].vpEnd>> : i \in DOMAIN st.proposals \ {id}}
    BY <2>1, <2>2
  <2>4. {<<i, r.proposals[i].vpEnd>> : i \in DOMAIN r.proposals} =
        {<<i, st.proposals[i].vpEnd>> : i \in DOMAIN st.proposals \ {id}}
    BY <1>4
  <2> QED
    BY <1>3, <2>3, <2>4 DEF Queued
<1>7. VotesLive(r)
  BY <1>0, <1>1, <1>3, <1>4 DEF VotesLive, Live
<1>8. Follows(st, r)
  <2>1. st.previousId <= r.previousId
    BY <1>0, <1>3, BoundsAssumption DEF Typed, Id
  <2> QED
    BY <1>4, <2>1 DEF Follows
<1> QED
  BY <1>4, <1>5, <1>6, <1>7, <1>8 DEF Good

-----------------------------------------------------------------------------
(* Exec: a tally, the messages, and the proposal stored or deleted.        *)

LEMMA AllowResult ==
    ASSUME NEW policy, NEW t, NEW total
    PROVE  Allow(policy, t, total) \in {"accepted", "rejected", "unfinalized"}
  BY DEF Allow, ThresholdAllow, PercentageAllow

\* doTallyAndUpdate leaves a proposal alone or closes it.
LEMMA TalliedFields ==
    ASSUME NEW st, Good(st), NEW id, NEW p \in Proposal, p.status # "closed",
           NEW q, q = Tallied(st, id, p)
    PROVE  \/ q = p
           \/ /\ q \in Proposal /\ q.status = "closed"
              /\ q.vpEnd = p.vpEnd /\ q.payload = p.payload
<1> DEFINE t == TallyOf(st, id)
           decision == Allow(st.policy, t, st.totalWeight)
<1>1. t \in Tally
  BY TallyOfType DEF Good, Typed
<1>2. decision \in {"accepted", "rejected", "unfinalized"}
  BY AllowResult
<1>3. q = IF decision = "unfinalized" THEN p
          ELSE [p EXCEPT !.tally = t, !.result = decision, !.status = "closed"]
  BY DEF Tallied
<1> HIDE DEF t, decision
<1> QED
  BY <1>1, <1>2, <1>3 DEF Proposal

LEMMA ExecProposalFields ==
    ASSUME NEW st, Good(st), NEW id, ExecOk(st, id), NEW q, q = ExecProposal(st, id)
    PROVE  LET p == st.proposals[id] IN
           /\ q \in Proposal /\ q.vpEnd = p.vpEnd /\ q.payload = p.payload
           /\ p.status = "closed" => q = p
           /\ q # p => q.status = "closed"
           /\ q = p => q.status \in {"submitted", "closed"}
<1> DEFINE p == st.proposals[id]
<1>1. p \in Proposal /\ p.status \in {"submitted", "closed"}
  BY Untouched DEF ExecOk
<1>2. q = IF p.status = "submitted" THEN Tallied(st, id, p) ELSE p
  BY DEF ExecProposal
<1> HIDE DEF p
<1>3. CASE p.status = "submitted"
  <2>1. q = Tallied(st, id, p)
    BY <1>2, <1>3
  <2>2. \/ q = p
        \/ q \in Proposal /\ q.status = "closed" /\ q.vpEnd = p.vpEnd /\ q.payload = p.payload
    BY <1>1, <1>3, <2>1, TalliedFields
  <2> QED
    BY <1>1, <1>3, <2>2 DEF p
<1>4. CASE p.status = "closed"
  BY <1>1, <1>2, <1>4 DEF p
<1> QED
  BY <1>1, <1>3, <1>4

\* The store after doTallyAndUpdate.
LEMMA ExecStoreGood ==
    ASSUME NEW st, Good(st), NEW id, ExecOk(st, id), NEW r, r = ExecStore(st, id)
    PROVE  /\ Good(r) /\ Follows(st, r)
           /\ r.proposals = st.proposals
           /\ ExecProposal(st, id) # st.proposals[id] => \A v \in DOMAIN r.votes : v[1] # id
<1>1. CASE ExecProposal(st, id) # st.proposals[id]
  <2>1. r = PruneVotes(st, {id})
    BY <1>1 DEF ExecStore
  <2>2. r.proposals = st.proposals /\ \A v \in DOMAIN r.votes : v[1] # id
    BY <2>1, PruneVotesFields DEF Good, Typed, Fields
  <2> QED
    BY <2>1, <2>2, PruneVotesGood
<1>2. CASE ExecProposal(st, id) = st.proposals[id]
  BY <1>2, FollowsReflexive DEF ExecStore, Good
<1> QED
  BY <1>1, <1>2

\* The proposal is stored again.
LEMMA SetProposalGood ==
    ASSUME NEW st, Good(st), NEW id \in DOMAIN st.proposals, NEW q \in Proposal,
           q.vpEnd = st.proposals[id].vpEnd,
           st.proposals[id].status = "closed" =>
               /\ q.status = "closed" /\ q.result = st.proposals[id].result
               /\ q.tally = st.proposals[id].tally,
           q.status # "submitted" => \A v \in DOMAIN st.votes : v[1] # id,
           NEW r, r = SetProposal(st, id, q)
    PROVE  Good(r) /\ Follows(st, r)
<1>1. /\ DOMAIN r = Fields /\ r.proposals = Put(st.proposals, [i \in {id} |-> q])
      /\ r.members = st.members /\ r.policy = st.policy /\ r.version = st.version
      /\ r.totalWeight = st.totalWeight /\ r.previousId = st.previousId
      /\ r.queue = st.queue /\ r.votes = st.votes
  BY Untouched DEF SetProposal, Fields
<1>2. /\ DOMAIN r.proposals = DOMAIN st.proposals /\ r.proposals[id] = q
      /\ \A i \in DOMAIN st.proposals : i # id => r.proposals[i] = st.proposals[i]
  BY <1>1 DEF Put
<1>3. ASSUME NEW i \in DOMAIN st.proposals
      PROVE  /\ r.proposals[i] \in Proposal
             /\ r.proposals[i].vpEnd = st.proposals[i].vpEnd
             /\ st.proposals[i].status = "closed" =>
                   /\ r.proposals[i].status = "closed"
                   /\ r.proposals[i].result = st.proposals[i].result
                   /\ r.proposals[i].tally = st.proposals[i].tally
  BY <1>2, Untouched
<1>4. \A v \in DOMAIN r.votes : r.votes[v] \in Option /\ Live(r, v[1])
  BY <1>1, <1>2, Untouched DEF Live
<1> QED
  BY <1>1, <1>2, <1>3, <1>4, Untouched, SameIds

\* The messages of a proposal keep the store good, and delete no proposal.
LEMMA PayloadRunGood ==
    ASSUME NEW st, Good(st), NEW m \in Payload, NEW luck, PayloadOk(st, m, luck)
    PROVE  Good(PayloadRun(st, m)) /\ Follows(st, PayloadRun(st, m))
<1>1. m.type \in {"members", "policy", "withdraw", "other"}
  BY DEF Payload
<1>2. CASE m.type = "members"
  <2>1. m.join \in SUBSET Address
    BY <1>2 DEF Payload
  <2>2. PayloadRun(st, m) = UpdateMembers(st, m.join, m.leave)
    BY <1>2 DEF PayloadRun
  <2> QED
    BY <2>1, <2>2, UpdateMembersGood
<1>3. CASE m.type = "policy"
  <2>1. m.policy \in Policies
    BY <1>3 DEF Payload
  <2>2. PayloadRun(st, m) = UpdateDecisionPolicy(st, m.policy)
    BY <1>3 DEF PayloadRun
  <2> QED
    BY <2>1, <2>2, UpdateDecisionPolicyGood
<1>4. CASE m.type = "withdraw"
  <2>1. Submitted(st, m.id) /\ PayloadRun(st, m) = WithdrawProposal(st, m.id)
    BY <1>4 DEF PayloadOk, PayloadRun
  <2> QED
    BY <2>1, WithdrawProposalGood
<1>5. CASE m.type = "other"
  <2>1. PayloadRun(st, m) = st
    BY <1>5 DEF PayloadRun
  <2> QED
    BY <2>1, FollowsReflexive DEF Good
<1> QED
  BY <1>1, <1>2, <1>3, <1>4, <1>5

LEMMA ExecGood ==
    ASSUME NEW st, Good(st), NEW id, ExecOk(st, id), NEW luck, NEW r, r = Exec(st, id, luck)
    PROVE  Good(r) /\ Follows(st, r) /\ (Succeeds(st, id, luck) => id \notin DOMAIN r.proposals)
<1> DEFINE p == st.proposals[id]
           q == ExecProposal(st, id)
           st1 == ExecStore(st, id)
<1>1. /\ q \in Proposal /\ q.vpEnd = p.vpEnd /\ q.payload = p.payload
      /\ p.status = "closed" => q = p
      /\ q # p => q.status = "closed"
      /\ q = p => q.status \in {"submitted", "closed"}
  BY ExecProposalFields
<1>2. /\ Good(st1) /\ Follows(st, st1) /\ st1.proposals = st.proposals
      /\ q # p => \A v \in DOMAIN st1.votes : v[1] # id
  BY ExecStoreGood
<1>3. id \in DOMAIN st.proposals
  BY DEF ExecOk
<1>4. q.status # "submitted" => \A v \in DOMAIN st1.votes : v[1] # id
  <2>1. CASE q = p /\ q.status = "closed"
    BY <1>2, <2>1, Untouched DEF Live
  <2> QED
    BY <1>1, <1>2, <2>1
<1>5. ASSUME NEW x, x = q \/ x = [q EXCEPT !.executor = "failure"], r = SetProposal(st1, id, x)
      PROVE  Good(r) /\ Follows(st, r)
  <2>1. x \in Proposal /\ x.vpEnd = q.vpEnd /\ x.status = q.status /\ x.result = q.result /\ x.tally = q.tally
    BY <1>1, <1>5 DEF Proposal
  <2> HIDE DEF q, st1
  <2>2. Good(r) /\ Follows(st1, r)
    BY <1>1, <1>2, <1>3, <1>4, <1>5, <2>1, SetProposalGood
  <2> QED
    BY <1>2, <2>2, FollowsTransitive DEF Good
<1>6. CASE Succeeds(st, id, luck)
  <2> DEFINE st2 == PayloadRun(st1, q.payload)
  <2>1. PayloadOk(st1, q.payload, luck) /\ q.payload \in Payload
    BY <1>1, <1>6 DEF Succeeds, Proposal
  <2>2. r = PruneProposal(st2, id, q)
    BY <1>6 DEF Exec
  <2> HIDE DEF q, st1
  <2>3. Good(st2) /\ Follows(st1, st2)
    BY <1>2, <2>1, PayloadRunGood
  <2>4. id \in DOMAIN st2.proposals => q.vpEnd = st2.proposals[id].vpEnd
    BY <1>1, <1>2, <1>3, <2>3 DEF Follows
  <2> HIDE DEF st2
  <2>5. Good(r) /\ Follows(st2, r) /\ id \notin DOMAIN r.proposals
    BY <2>2, <2>3, <2>4, PruneProposalGood
  <2>6. Follows(st, st2)
    BY <1>2, <2>3, FollowsTransitive DEF Good
  <2> QED
    BY <2>3, <2>5, <2>6, FollowsTransitive DEF Good
<1>7. CASE Runs(st, id) /\ ~Succeeds(st, id, luck)
  <2>1. r = SetProposal(st1, id, [q EXCEPT !.executor = "failure"])
    BY <1>7 DEF Exec
  <2> QED
    BY <1>5, <1>7, <2>1
<1>8. CASE ~Runs(st, id) /\ ~Succeeds(st, id, luck)
  <2>1. r = SetProposal(st1, id, q)
    BY <1>8 DEF Exec
  <2> QED
    BY <1>5, <1>8, <2>1
<1> QED
  BY <1>6, <1>7, <1>8

-----------------------------------------------------------------------------
(* EndBlocker decodes every entry of the queue as a proposal with id 0,    *)
(* which is never stored: it tallies and prunes nothing.                   *)
LEMMA EndBlockerGood ==
    ASSUME NEW st, Good(st), NEW r, r = EndBlocker(st)
    PROVE  Good(r) /\ Follows(st, r) /\ r.version = st.version
<1> DEFINE ids == {DecodedId(e) : e \in InRange(st, now)}
           new == [i \in ids |-> Tallied(st, i, Decoded(st, CHOOSE e \in InRange(st, now) : DecodedId(e) = i))]
           closed == {i \in ids : new[i].status = "closed"}
           st1 == PruneVotes(st, closed)
           mid == UpdateTallyOfVPEndProposals(st)
           late == {DecodedId(e) : e \in InRange(mid, now - MaxExecutionPeriod)}
           keys == {VPEndKey(DecodedId(e), Decoded(mid, e)) : e \in InRange(mid, now - MaxExecutionPeriod)}
           st2 == PruneVotes(mid, late)
<1>0. Typed(st) /\ Queued(st) /\ DOMAIN st = Fields /\ 0 \notin DOMAIN st.proposals
  BY DEF Good, Typed
<1>1. ids \subseteq {0} /\ DOMAIN new = ids
  BY DEF DecodedId
<1>2. mid = [st1 EXCEPT !.proposals = Put(st1.proposals, new)]
  BY DEF UpdateTallyOfVPEndProposals
<1>3. /\ DOMAIN st1 = Fields /\ \A f \in Fields \ {"votes"} : st1[f] = st[f]
      /\ DOMAIN st1.votes \subseteq DOMAIN st.votes
      /\ \A v \in DOMAIN st1.votes : st1.votes[v] = st.votes[v]
  BY <1>0, PruneVotesFields
<1>4. r = [st2 EXCEPT !.queue = st2.queue \ keys, !.proposals = Without(st2.proposals, late)]
  BY DEF EndBlocker, PruneExpiredProposals
<1>5. late \subseteq {0} /\ keys \subseteq {<<0, ZeroTime>>} /\ (ids = {} <=> InRange(st, now) = {})
      /\ (late = {} <=> InRange(mid, now - MaxExecutionPeriod) = {})
  BY DEF DecodedId, VPEndKey, Decoded, ZeroProposal
<1> HIDE DEF ids, new, closed, st1, mid
<1>6. /\ DOMAIN mid = Fields /\ mid.proposals = Put(st.proposals, new)
      /\ mid.members = st.members /\ mid.policy = st.policy /\ mid.version = st.version
      /\ mid.totalWeight = st.totalWeight /\ mid.previousId = st.previousId
      /\ mid.queue = st.queue /\ mid.votes = st1.votes
  BY <1>2, <1>3 DEF Fields
<1>7. /\ DOMAIN st2 = Fields /\ \A f \in Fields \ {"votes"} : st2[f] = mid[f]
      /\ DOMAIN st2.votes \subseteq DOMAIN mid.votes
      /\ \A v \in DOMAIN st2.votes : st2.votes[v] = mid.votes[v]
  BY <1>6, PruneVotesFields
<1>8. ids = late
  <2>1. InRange(st, now) = InRange(mid, now - MaxExecutionPeriod)
    BY <1>6 DEF InRange
  <2> QED
    BY <1>1, <1>5, <2>1
<1> HIDE DEF st2, late, keys
<1>9. /\ DOMAIN r = Fields /\ r.proposals = Without(mid.proposals, late)
      /\ r.members = st.members /\ r.policy = st.policy /\ r.version = st.version
      /\ r.totalWeight = st.totalWeight /\ r.previousId = st.previousId
      /\ r.queue = st.queue \ keys /\ r.votes = st2.votes
  BY <1>4, <1>6, <1>7 DEF Fields
<1>10. /\ DOMAIN r.proposals = DOMAIN st.proposals
       /\ \A i \in DOMAIN st.proposals : r.proposals[i] = st.proposals[i]
  <2>1. /\ DOMAIN mid.proposals = DOMAIN st.proposals \cup ids
        /\ \A i \in DOMAIN st.proposals : i \notin ids => mid.proposals[i] = st.proposals[i]
    BY <1>1, <1>6 DEF Put
  <2>2. /\ DOMAIN r.proposals = DOMAIN mid.proposals \ late
        /\ \A i \in DOMAIN r.proposals : r.proposals[i] = mid.proposals[i]
    BY <1>9 DEF Without, Restrict
  <2> QED
    BY <1>0, <1>1, <1>8, <2>1, <2>2
<1>11. r.queue = st.queue
  <2>1. \A e \in st.queue : e # <<0, ZeroTime>>
    BY <1>0 DEF Queued
  <2> QED
    BY <1>5, <1>9, <2>1
<1>12. /\ DOMAIN r.votes \subseteq DOMAIN st.votes
       /\ \A v \in DOMAIN r.votes : r.votes[v] = st.votes[v]
  BY <1>3, <1>6, <1>7, <1>9
<1>13. \A v \in DOMAIN r.votes : r.votes[v] \in Option /\ Live(r, v[1])
  BY <1>10, <1>12, Untouched DEF Live
<1>14. DOMAIN r.votes \subseteq (Id \X Address)
  BY <1>12, Untouched
<1> QED
  BY <1>9, <1>10, <1>11, <1>13, <1>14, Untouched, SameIds

-----------------------------------------------------------------------------
(* The module.                                                             *)

\* No id above the last one given out has been executed, and an executed one is
\* not stored.
Spent == \A i \in Id : executed[i] \in 0 .. 1 /\ (executed[i] = 1 => i <= s.previousId /\ i \notin DOMAIN s.proposals)

IInv ==
    /\ Good(s) /\ s.version <= MaxVersion
    /\ now \in 0 .. MaxTime
    /\ executed \in [Id -> Nat]
    /\ Spent

LEMMA InitIInv == Init => IInv
<1> SUFFICES ASSUME Init PROVE IInv
  OBVIOUS
<1>1. /\ DOMAIN s = Fields /\ s.members = Genesis /\ s.policy = FirstPolicy /\ s.version = 1
      /\ s.totalWeight = Cardinality(Genesis) /\ s.previousId = 0 /\ s.queue = {}
      /\ DOMAIN s.proposals = {} /\ DOMAIN s.votes = {}
  BY DEF Init, Fields
<1>2. Cardinality(Genesis) \in Nat
  BY GenesisAssumption, FS_Subset, FS_CardinalityType
<1>3. Typed(s)
  BY <1>1, <1>2, GenesisAssumption, PolicyAssumption, BoundsAssumption DEF Typed, Id
<1>4. Queued(s) /\ VotesLive(s)
  BY <1>1 DEF Queued, VotesLive
<1>5. now \in 0 .. MaxTime /\ executed \in [Id -> Nat] /\ Spent /\ s.version <= MaxVersion
  BY <1>1, BoundsAssumption DEF Init, Spent, Id
<1> QED
  BY <1>3, <1>4, <1>5 DEF IInv, Good

\* What every step does: the store follows from the one before, and at most one
\* stored proposal is executed, which deletes it.
Evolves ==
    /\ Good(s') /\ Follows(s, s') /\ s'.version <= MaxVersion
    /\ now' \in 0 .. MaxTime
    /\ \/ UNCHANGED executed
       \/ \E id \in Id : /\ executed' = [executed EXCEPT ![id] = @ + 1]
                         /\ id \in DOMAIN s.proposals \/ id > s.previousId
                         /\ id <= s'.previousId
                         /\ id \notin DOMAIN s'.proposals

LEMMA EvolvesKeeps == ASSUME IInv, Evolves PROVE IInv'
<1>1. /\ \A i \in Id : executed[i] \in 0 .. 1 /\ (executed[i] = 1 => i <= s.previousId /\ i \notin DOMAIN s.proposals)
      /\ executed \in [Id -> Nat] /\ Id = 0 .. MaxProposal
      /\ s.previousId \in Int /\ s'.previousId \in Int /\ s.previousId <= s'.previousId
  BY BoundsAssumption DEF IInv, Spent, Good, Typed, Evolves, Follows, Id
<1>2. ASSUME NEW i \in Id, i <= s.previousId, i \notin DOMAIN s.proposals
      PROVE  i <= s'.previousId /\ i \notin DOMAIN s'.proposals
  BY <1>1, <1>2 DEF Evolves, Follows
<1>3. Spent' /\ executed' \in [Id -> Nat]
  <2>1. CASE UNCHANGED executed
    BY <1>1, <1>2, <2>1 DEF Spent
  <2>2. ASSUME NEW id \in Id, executed' = [executed EXCEPT ![id] = @ + 1],
               id \in DOMAIN s.proposals \/ id > s.previousId,
               id <= s'.previousId, id \notin DOMAIN s'.proposals
        PROVE  Spent' /\ executed' \in [Id -> Nat]
    <3>1. executed[id] = 0
      BY <1>1, <2>2
    <3>2. executed' \in [Id -> Nat] /\ executed'[id] = 1 /\ \A i \in Id : i # id => executed'[i] = executed[i]
      BY <1>1, <2>2, <3>1
    <3>3. ASSUME NEW i \in Id
          PROVE  executed'[i] \in 0 .. 1 /\ (executed'[i] = 1 => i <= s'.previousId /\ i \notin DOMAIN s'.proposals)
      BY <1>1, <1>2, <2>2, <3>2
    <3> QED
      BY <3>2, <3>3 DEF Spent
  <2> QED
    BY <2>1, <2>2 DEF Evolves
<1> QED
  BY <1>3 DEF Evolves, IInv

\* Exec ends a message: it runs on the store st that the message has made of s.
LEMMA ExecEvolves ==
    ASSUME IInv, NEW st, Good(st), Follows(s, st), NEW id, NEW luck, ExecOk(st, id),
           s' = Exec(st, id, luck), Executed(st, id, luck), WithinBound, UNCHANGED now
    PROVE  Evolves
<1>1. Good(s') /\ Follows(st, s') /\ (Succeeds(st, id, luck) => id \notin DOMAIN s'.proposals)
  BY ExecGood
<1>2. Follows(s, s')
  BY <1>1, FollowsTransitive DEF IInv, Good
<1>3. st.previousId \in Int /\ s'.previousId \in Int /\ st.previousId <= s'.previousId
  BY <1>1, BoundsAssumption DEF Good, Typed, Id, Follows
<1>4. id \in DOMAIN st.proposals
  BY DEF ExecOk
<1>5. id \in 1 .. st.previousId /\ (id \in DOMAIN s.proposals \/ id > s.previousId)
  BY <1>4 DEF Good, Typed, Follows
<1>6. id \in Id /\ id <= s'.previousId
  BY <1>1, <1>3, <1>5, BoundsAssumption DEF Good, Typed, Id
<1>7. CASE Succeeds(st, id, luck)
  <2>1. executed' = [executed EXCEPT ![id] = @ + 1]
    BY <1>7 DEF Executed
  <2> QED
    BY <1>1, <1>2, <1>5, <1>6, <1>7, <2>1 DEF Evolves, WithinBound, IInv
<1>8. CASE ~Succeeds(st, id, luck)
  BY <1>1, <1>2, <1>8 DEF Evolves, WithinBound, IInv, Executed
<1> QED
  BY <1>7, <1>8

LEMMA MsgSubmitProposalEvolves ==
    ASSUME IInv, NEW P \in SUBSET Address, NEW m \in PayloadSet, NEW try, NEW luck,
           MsgSubmitProposal(P, m, try, luck)
    PROVE  Evolves
<1> DEFINE st == SubmitProposal(s, P, m)
           st1 == Vote(st, st.previousId, P, "yes")
<1>1. m \in Payload /\ now \in Int /\ s.previousId < MaxProposal /\ Good(s)
  BY PayloadAssumption DEF IInv, MsgSubmitProposal
<1>2. Good(st) /\ Follows(s, st) /\ Submitted(st, st.previousId)
  BY <1>1, SubmitProposalGood
<1>3. /\ \/ s' = st /\ UNCHANGED executed
         \/ /\ ExecOk(st1, st.previousId)
            /\ s' = Exec(st1, st.previousId, luck)
            /\ Executed(st1, st.previousId, luck)
      /\ WithinBound /\ UNCHANGED now
  BY DEF MsgSubmitProposal
<1> HIDE DEF st
<1>4. Good(st1) /\ Follows(st, st1)
  BY <1>2, VoteGood DEF Option
<1> HIDE DEF st1
<1>5. CASE s' = st /\ UNCHANGED executed
  BY <1>2, <1>3, <1>5 DEF Evolves, WithinBound, IInv
<1>6. CASE /\ ExecOk(st1, st.previousId)
           /\ s' = Exec(st1, st.previousId, luck)
           /\ Executed(st1, st.previousId, luck)
  <2>1. Follows(s, st1)
    BY <1>1, <1>2, <1>4, FollowsTransitive DEF Good
  <2> QED
    BY <1>3, <1>4, <1>6, <2>1, ExecEvolves
<1> QED
  BY <1>3, <1>5, <1>6

LEMMA MsgVoteEvolves ==
    ASSUME IInv, NEW id, NEW a \in Address, NEW o \in OptionSet, NEW try, NEW luck,
           MsgVote(id, a, o, try, luck)
    PROVE  Evolves
<1> DEFINE st == Vote(s, id, {a}, o)
<1>1. Good(s) /\ Submitted(s, id) /\ o \in Option /\ {a} \in SUBSET Address
  BY PayloadAssumption DEF IInv, MsgVote, VoteOk
<1>2. /\ \/ s' = st /\ UNCHANGED executed
         \/ ExecOk(st, id) /\ s' = Exec(st, id, luck) /\ Executed(st, id, luck)
      /\ WithinBound /\ UNCHANGED now
  BY DEF MsgVote
<1>3. Good(st) /\ Follows(s, st)
  BY <1>1, VoteGood
<1> HIDE DEF st
<1>4. CASE s' = st /\ UNCHANGED executed
  BY <1>2, <1>3, <1>4 DEF Evolves, WithinBound, IInv
<1>5. CASE ExecOk(st, id) /\ s' = Exec(st, id, luck) /\ Executed(st, id, luck)
  BY <1>2, <1>3, <1>5, ExecEvolves
<1> QED
  BY <1>2, <1>4, <1>5

LEMMA NextEvolves == ASSUME IInv, [Next]_vars PROVE Evolves
<1>0. Good(s) /\ s.version <= MaxVersion /\ now \in 0 .. MaxTime
  BY DEF IInv
<1>1. ASSUME NEW join \in SUBSET Address, NEW leave \in SUBSET Address, MsgUpdateMembers(join, leave)
      PROVE  Evolves
  BY <1>0, <1>1, UpdateMembersGood DEF MsgUpdateMembers, WithinBound, Evolves
<1>2. ASSUME NEW a \in Address, MsgLeaveFoundation(a) PROVE Evolves
  BY <1>0, <1>2, UpdateMembersGood DEF MsgLeaveFoundation, WithinBound, Evolves
<1>3. ASSUME NEW p \in Policies, MsgUpdateDecisionPolicy(p) PROVE Evolves
  BY <1>0, <1>3, UpdateDecisionPolicyGood DEF MsgUpdateDecisionPolicy, WithinBound, Evolves
<1>4. ASSUME NEW P \in SUBSET Address, NEW m \in PayloadSet, NEW try, NEW luck,
             MsgSubmitProposal(P, m, try, luck)
      PROVE  Evolves
  BY <1>4, MsgSubmitProposalEvolves
<1>5. ASSUME NEW id, NEW a, MsgWithdrawProposal(id, a) PROVE Evolves
  <2>1. Submitted(s, id) /\ s' = WithdrawProposal(s, id) /\ UNCHANGED <<now, executed>>
    BY <1>5 DEF MsgWithdrawProposal
  <2>2. s'.version = s.version
    BY <1>0, <2>1, Untouched DEF WithdrawProposal, Fields
  <2> QED
    BY <1>0, <2>1, <2>2, WithdrawProposalGood DEF Evolves
<1>6. ASSUME NEW id, NEW a \in Address, NEW o \in OptionSet, NEW try, NEW luck, MsgVote(id, a, o, try, luck)
      PROVE  Evolves
  BY <1>6, MsgVoteEvolves
<1>7. ASSUME NEW id, NEW a, NEW luck, MsgExec(id, a, luck) PROVE Evolves
  <2>1. Follows(s, s)
    BY <1>0, FollowsReflexive DEF Good
  <2> QED
    BY <1>0, <1>7, <2>1, ExecEvolves DEF MsgExec
<1>8. CASE EndBlock
  <2>1. Good(s') /\ Follows(s, s') /\ s'.version = s.version
    BY <1>0, <1>8, EndBlockerGood DEF EndBlock
  <2>2. now' \in 0 .. MaxTime
    BY <1>0, <1>8, BoundsAssumption DEF EndBlock
  <2> QED
    BY <1>0, <1>8, <2>1, <2>2 DEF EndBlock, Evolves
<1>9. CASE UNCHANGED vars
  BY <1>0, <1>9, FollowsReflexive DEF vars, Evolves, Good
<1> QED
  BY <1>1, <1>2, <1>3, <1>4, <1>5, <1>6, <1>7, <1>8, <1>9 DEF Next

LEMMA FoundationInvariance == Spec => []IInv
<1>1. IInv /\ [Next]_vars => IInv'
  BY NextEvolves, EvolvesKeeps
<1> QED
  BY <1>1, InitIInv, PTL DEF Spec

LEMMA IInvTypeOK == IInv => TypeOK
<1> SUFFICES ASSUME IInv PROVE TypeOK
  OBVIOUS
<1>1. Typed(s) /\ Queued(s) /\ s.version <= MaxVersion
  BY DEF IInv, Good
<1>2. s.version \in 1 .. MaxVersion
  BY <1>1, BoundsAssumption DEF Typed
<1>3. \A i \in DOMAIN s.proposals : i \in Id \ {0} /\ s.proposals[i].vpEnd \in Int
  BY <1>1, BoundsAssumption DEF Typed, Id, Proposal
<1>4. s.queue \subseteq (Id \X Int)
  BY <1>1, <1>3 DEF Queued
<1>5. Range(s.proposals) \subseteq Proposal /\ Range(s.votes) \subseteq Option
  BY <1>1 DEF Typed, Range
<1>6. StoreOK(s)
  BY <1>1, <1>2, <1>3, <1>4, <1>5 DEF Typed, StoreOK
<1> QED
  BY <1>6 DEF IInv, TypeOK

-----------------------------------------------------------------------------
(* The theorems.                                                           *)

\* The types; no proposal is ever stored under id 0.
THEOREM FoundationTypeCorrect == Spec => []TypeOK
  BY FoundationInvariance, IInvTypeOK, PTL

\* The queue has one entry per stored proposal, at the end of its voting period,
\* whatever is submitted, executed, aborted, withdrawn and pruned.
THEOREM QueueStaysMatched == Spec => []QueueMatches
<1>1. IInv => QueueMatches
  BY DEF IInv, Good, Queued, QueueMatches
<1> QED
  BY <1>1, FoundationInvariance, PTL

\* No vote is left on a proposal that was decided, aborted or deleted.
THEOREM VotesStayPruned == Spec => []VotesArePruned
<1>1. IInv => VotesArePruned
  BY DEF IInv, Good, VotesLive, Live, VotesArePruned
<1> QED
  BY <1>1, FoundationInvariance, PTL

\* The messages of a proposal take effect at most once.
THEOREM ExecutesOnce == Spec => []ExecutedOnce
<1>1. IInv => ExecutedOnce
  BY DEF IInv, Spent, ExecutedOnce
<1> QED
  BY <1>1, FoundationInvariance, PTL

\* A closed proposal keeps its status, result and tally until it is deleted.
THEOREM DecisionStays == Spec => DecisionIsFinal
<1>1. IInv /\ [Next]_vars =>
        [\A i \in DOMAIN s.proposals \cap DOMAIN s'.proposals :
           LET p == s.proposals[i]
               q == s'.proposals[i]
           IN  p.status = "closed" => q.status = "closed" /\ q.result = p.result /\ q.tally = p.tally]_vars
  BY NextEvolves DEF Evolves, Follows
<1> QED
  BY <1>1, FoundationInvariance, PTL DEF Spec, DecisionIsFinal

\* In every reachable state, a decision that Exec could take on the votes cast so
\* far is the one that any further votes would give.
THEOREM EarlyDecisionsSound == Spec => []EarlyDecisionSound
  BY FoundationInvariance, IInvTypeOK, DecideEarly, PTL

=============================================================================
