-------------------------- MODULE AccountWGs_proofs --------------------------
(***************************************************************************)
(* Proofs about AccountWGs for every set of accounts and requests.         *)
(*                                                                         *)
(* Mutual exclusion is not inductive: a request waits only for the wait    *)
(* groups it replaced, so the proof must know that those belong to the     *)
(* last registrants (LastInTable), that the chain of waits reaches every   *)
(* earlier registrant (WaitsReachBack), and that a wait group is at 0      *)
(* exactly when its owner has called Done (ZeroIsFinished).  That nobody   *)
(* waits in a circle follows from WaitsAreEarlier: of the requests in      *)
(* flight, the one that registered first waits for none of the others.     *)
(* That there is a first one, although requests finish in any order, is    *)
(* kept as an invariant too (FirstInFlight).                               *)
(***************************************************************************)
EXTENDS AccountWGs, TLAPS

\* Most steps are first-order reasoning about sets and functions, which is
\* Zenon's; those with arithmetic or sequences cite SMT.
USE Zenon

Registered(r) == stage[r] # "new"

\* Tickets number the registrations from 1 to clock without repetition.
TicketOrder ==
    /\ \A r \in Req : Registered(r) => ticket[r] \in 1..clock
    /\ \A r, s \in Req : Registered(r) /\ Registered(s) /\ ticket[r] = ticket[s] => r = s
    /\ \A r \in Req : ~Registered(r) => signers[r] = {}

\* A wait group is at 0 exactly when its request has called Done.
ZeroIsFinished ==
    \A r \in Req, a \in Account :
        <<r, a>> \in zero <=> a \in signers[r] /\ stage[r] = "finished"

\* The table entry of an account is its last registrant, still in flight; with
\* no entry, every registrant of the account has called Done.
LastInTable ==
    \A a \in Account :
        /\ wgs[a] # NoReq => /\ a \in signers[wgs[a]]
                             /\ Active(wgs[a])
                             /\ \A s \in Req : a \in signers[s] => ticket[s] <= ticket[wgs[a]]
        /\ wgs[a] = NoReq => \A s \in Req : a \in signers[s] => stage[s] = "finished"

\* For every earlier registrant s of one of its accounts, a request either
\* waits for someone who registered no earlier than s, or s is finished.
WaitsReachBack ==
    \A r, s \in Req, a \in Account :
        Shares(r, s, a) /\ ticket[s] < ticket[r] =>
            \/ stage[s] = "finished"
            \/ \E p \in Req : /\ <<p, a>> \in waits[r]
                              /\ a \in signers[p]
                              /\ ticket[s] <= ticket[p]
                              /\ ticket[p] < ticket[r]

Table ==
    /\ TypeOK
    /\ TicketOrder
    /\ ZeroIsFinished
    /\ LastInTable
    /\ WaitsReachBack
    /\ RegistrationOrder

-----------------------------------------------------------------------------
LEMMA TableInit == Init => Table
BY NoReqAssumption, SMT
DEF Init, Table, TypeOK, Stage, WaitGroup, TicketOrder, Registered, ZeroIsFinished,
    LastInTable, WaitsReachBack, RegistrationOrder, Shares, Past, Active

LEMMA TableRegister ==
    ASSUME Table, NEW r \in Req, NEW S \in SUBSET Account, Register(r, S)
    PROVE  Table'
<1> USE DEF Table, Register
<1>1. TypeOK'
  BY NoReqAssumption, SMT DEF TypeOK, Stage, WaitGroup, Found
<1>2. TicketOrder'
  BY SMT DEF TypeOK, TicketOrder, Registered, Stage
<1>3. ZeroIsFinished'
  BY DEF TypeOK, ZeroIsFinished, TicketOrder, Registered
<1>4. LastInTable'
  BY NoReqAssumption, SMT DEF TypeOK, LastInTable, TicketOrder, Registered, Active
<1>5. WaitsReachBack'
  <2> SUFFICES ASSUME NEW q \in Req, NEW s \in Req, NEW a \in Account,
                      Shares(q, s, a)', ticket'[s] < ticket'[q],
                      stage'[s] # "finished"
               PROVE  \E p \in Req : /\ <<p, a>> \in waits'[q]
                                     /\ a \in signers'[p]
                                     /\ ticket'[s] <= ticket'[p]
                                     /\ ticket'[p] < ticket'[q]
    BY DEF WaitsReachBack
  <2>1. s # r
    BY SMT DEF TypeOK, Shares, TicketOrder, Registered
  <2>2. CASE q = r
    <3>1. a \in S /\ a \in signers[s] /\ stage[s] # "finished"
      BY <2>1, <2>2 DEF TypeOK, Shares
    <3>2. wgs[a] \in Req /\ wgs[a] # NoReq
      BY <3>1 DEF TypeOK, LastInTable
    <3>3. <<wgs[a], a>> \in waits'[q]
      BY <2>2, <3>1, <3>2 DEF TypeOK, Found
    <3>4. /\ wgs[a] # r
          /\ a \in signers[wgs[a]]
          /\ ticket[s] <= ticket[wgs[a]]
          /\ ticket[wgs[a]] <= clock
      BY <3>1, <3>2, SMT DEF TypeOK, LastInTable, Active, TicketOrder, Registered
    <3>5. ticket'[s] <= ticket'[wgs[a]] /\ ticket'[wgs[a]] < ticket'[q]
      BY <2>1, <2>2, <3>2, <3>4, SMT DEF TypeOK
    <3> QED BY <3>2, <3>3, <3>4, <3>5 DEF TypeOK
  <2>3. CASE q # r
    <3>1. PICK p \in Req : /\ <<p, a>> \in waits[q]
                           /\ a \in signers[p]
                           /\ ticket[s] <= ticket[p]
                           /\ ticket[p] < ticket[q]
      BY <2>1, <2>3 DEF TypeOK, Shares, WaitsReachBack
    <3>2. p # r
      BY <3>1 DEF TicketOrder, Registered
    <3> QED BY <2>1, <2>3, <3>1, <3>2 DEF TypeOK
  <2> QED BY <2>2, <2>3
<1>6. RegistrationOrder'
  BY SMT DEF TypeOK, RegistrationOrder, TicketOrder, Registered, Shares, Past
<1> QED BY <1>1, <1>2, <1>3, <1>4, <1>5, <1>6

LEMMA TableWait ==
    ASSUME Table, NEW r \in Req, Wait(r)
    PROVE  Table'
<1> USE DEF Table, Wait
<1>1. TypeOK'
  BY DEF TypeOK, Stage
<1>2. TicketOrder'
  BY DEF TypeOK, TicketOrder, Registered
<1>3. ZeroIsFinished'
  BY DEF TypeOK, ZeroIsFinished
<1>4. LastInTable'
  BY NoReqAssumption DEF TypeOK, LastInTable, Active
<1>5. WaitsReachBack'
  BY SMT DEF TypeOK, WaitsReachBack, Shares
<1>6. RegistrationOrder'
  <2> SUFFICES ASSUME NEW q \in Req, NEW s \in Req, NEW a \in Account,
                      Shares(q, s, a), ticket[s] < ticket[q], Past(q)'
               PROVE  stage[s] = "finished"
    BY DEF TypeOK, RegistrationOrder, Shares
  <2>1. CASE q # r
    BY <2>1 DEF TypeOK, RegistrationOrder, Past
  <2>2. CASE q = r /\ stage[s] # "finished"
    <3>1. PICK p \in Req : /\ <<p, a>> \in waits[r]
                           /\ a \in signers[p]
                           /\ ticket[s] <= ticket[p]
      BY <2>2 DEF WaitsReachBack
    <3>2. stage[p] = "finished"
      BY <3>1 DEF ZeroIsFinished
    <3>3. s # p /\ ticket[s] # ticket[p]
      BY <2>2, <3>1, <3>2 DEF TicketOrder, Registered, Shares
    <3>4. Shares(p, s, a) /\ ticket[s] < ticket[p]
      BY <3>1, <3>3, SMT DEF Shares, TypeOK
    <3> QED BY <2>2, <3>2, <3>4 DEF RegistrationOrder, Past
  <2> QED BY <2>1, <2>2
<1> QED BY <1>1, <1>2, <1>3, <1>4, <1>5, <1>6

LEMMA TableDone ==
    ASSUME Table, NEW r \in Req, Done(r)
    PROVE  Table'
<1> USE DEF Table, Done
<1>1. TypeOK'
  BY NoReqAssumption, SMT DEF TypeOK, Stage, WaitGroup, Signalled, Deleted
<1>2. TicketOrder'
  BY DEF TypeOK, TicketOrder, Registered
<1>3. ZeroIsFinished'
  BY DEF TypeOK, ZeroIsFinished, Signalled
<1>4. LastInTable'
  BY NoReqAssumption, SMT DEF TypeOK, LastInTable, RegistrationOrder, TicketOrder, Registered, Deleted, Active, Shares, Past
<1>5. WaitsReachBack'
  <2>1. \A s \in Req : stage[s] = "finished" => stage'[s] = "finished"
    BY DEF TypeOK
  <2>2. UNCHANGED <<signers, waits, ticket>>
    OBVIOUS
  <2>3. WaitsReachBack
    OBVIOUS
  <2> HIDE DEF Table, Done
  <2> QED BY ONLY <2>1, <2>2, <2>3 DEF WaitsReachBack, Shares
<1>6. RegistrationOrder'
  BY DEF TypeOK, RegistrationOrder, Shares, Past
<1> QED BY <1>1, <1>2, <1>3, <1>4, <1>5, <1>6

LEMMA TableStays == ASSUME Table, UNCHANGED wgVars PROVE Table'
<1> USE DEF wgVars, Table
<1>1. TypeOK'
  BY DEF TypeOK
<1>2. TicketOrder' /\ ZeroIsFinished'
  BY DEF TicketOrder, Registered, ZeroIsFinished
<1>3. LastInTable'
  BY DEF LastInTable, Active
<1>4. WaitsReachBack' /\ RegistrationOrder'
  BY DEF WaitsReachBack, RegistrationOrder, Shares, Past
<1> QED BY <1>1, <1>2, <1>3, <1>4

LEMMA TableSpec == Spec => []Table
<1>1. Table /\ [Next]_wgVars => Table'
  BY TableRegister, TableWait, TableDone, TableStays DEF Next, wgVars
<1> QED
  BY <1>1, TableInit, PTL DEF Spec

-----------------------------------------------------------------------------
\* The variables of the wait-group table keep their types.
THEOREM TypeCorrect == Spec => []TypeOK
<1>1. Table => TypeOK
  BY DEF Table
<1> QED BY <1>1, TableSpec, PTL

\* Requests of one account run in the order in which they registered.
THEOREM RunInRegistrationOrder == Spec => []RegistrationOrder
<1>1. Table => RegistrationOrder
  BY DEF Table
<1> QED BY <1>1, TableSpec, PTL

\* No two requests signed by the same account run at the same time.
THEOREM SignersExclude == Spec => []MutualExclusion
<1>1. Table => MutualExclusion
  BY SMT DEF Table, TypeOK, TicketOrder, Registered, RegistrationOrder, MutualExclusion, Shares, Past
<1> QED BY <1>1, TableSpec, PTL

\* The table neither leaks an entry nor misses a request in flight.
THEOREM TableStaysCurrent == Spec => []TableIsCurrent
<1>1. Table => TableIsCurrent
  BY DEF Table, TypeOK, LastInTable, TableIsCurrent, Active
<1> QED BY <1>1, TableSpec, PTL

-----------------------------------------------------------------------------
\* A request waits only for requests that registered before it did.
WaitsAreEarlier ==
    \A r, p \in Req, a \in Account :
        <<p, a>> \in waits[r] =>
            a \in signers[p] /\ Registered(p) /\ Registered(r) /\ ticket[p] < ticket[r]

\* Of the requests in flight from ticket k on, r registered first.
Leads(r, k) ==
    /\ Active(r) /\ ticket[r] >= k
    /\ \A q \in Req : Active(q) /\ ticket[q] >= k => ticket[r] <= ticket[q]

FirstInFlight ==
    \A k \in Nat : \A s \in Req : Active(s) /\ ticket[s] >= k => \E r \in Req : Leads(r, k)

\* While requests are in flight, one of them is running or Wait can return to
\* it: they never wait for each other in a circle.
THEOREM NobodyWaitsInACircle == Spec => []NoCircularWait
<1>Earlier. Table /\ WaitsAreEarlier /\ [Next]_wgVars => WaitsAreEarlier'
  <2> SUFFICES ASSUME Table, WaitsAreEarlier, [Next]_wgVars,
                      NEW q \in Req, NEW p \in Req, NEW a \in Account, <<p, a>> \in waits'[q]
               PROVE  a \in signers'[p] /\ Registered(p)' /\ Registered(q)' /\ ticket'[p] < ticket'[q]
    BY DEF WaitsAreEarlier
  <2>1. ASSUME NEW r \in Req, NEW S \in SUBSET Account, Register(r, S)
        PROVE  a \in signers'[p] /\ Registered(p)' /\ Registered(q)' /\ ticket'[p] < ticket'[q]
    <3>1. CASE q = r
      <4>1. wgs[a] = p /\ wgs[a] # NoReq
        BY <2>1, <3>1 DEF Register, Found, Table, TypeOK
      <4>2. a \in signers[p] /\ Active(p)
        BY <4>1 DEF Table, LastInTable
      <4>3. p # r /\ ticket[p] <= clock /\ Registered(p)
        BY <2>1, <4>2, SMT DEF Register, Active, Table, TypeOK, TicketOrder, Registered
      <4> QED
        BY <2>1, <3>1, <4>2, <4>3, SMT DEF Register, Registered, Table, TypeOK
    <3>2. CASE q # r
      <4>1. <<p, a>> \in waits[q]
        BY <2>1, <3>2 DEF Register, Table, TypeOK
      <4>2. a \in signers[p] /\ Registered(p) /\ Registered(q) /\ ticket[p] < ticket[q]
        BY <4>1 DEF WaitsAreEarlier
      <4>3. p # r
        BY <2>1, <4>2 DEF Register, Registered
      <4> QED
        BY <2>1, <3>2, <4>2, <4>3 DEF Register, Registered, Table, TypeOK
    <3> QED
      BY <3>1, <3>2
  <2>2. ASSUME NEW r \in Req, Wait(r) \/ Done(r)
        PROVE  a \in signers'[p] /\ Registered(p)' /\ Registered(q)' /\ ticket'[p] < ticket'[q]
    <3>1. /\ UNCHANGED <<signers, waits, ticket>>
          /\ \A s \in Req : Registered(s) => Registered(s)'
      BY <2>2 DEF Wait, Done, Registered, Table, TypeOK
    <3> QED
      BY <3>1 DEF WaitsAreEarlier
  <2>3. CASE UNCHANGED wgVars
    BY <2>3 DEF wgVars, WaitsAreEarlier, Registered
  <2> QED
    BY <2>1, <2>2, <2>3 DEF Next
\* When the first one calls Done, the next is the first of those after it.
<1>First. Table /\ FirstInFlight /\ [Next]_wgVars => FirstInFlight'
  <2> SUFFICES ASSUME Table, FirstInFlight, [Next]_wgVars,
                      NEW k \in Nat, NEW s \in Req, Active(s)', ticket'[s] >= k
               PROVE  \E p \in Req : Leads(p, k)'
    BY DEF FirstInFlight
  <2>0. ticket \in [Req -> Nat] /\ stage \in [Req -> Stage] /\ clock \in Nat
    BY DEF Table, TypeOK
  <2>1. ASSUME NEW r \in Req, NEW S \in SUBSET Account, Register(r, S)
        PROVE  \E p \in Req : Leads(p, k)'
    <3>1. /\ Active(r)' /\ ticket'[r] = clock + 1 /\ ~Active(r)
          /\ \A q \in Req \ {r} : (Active(q)' <=> Active(q)) /\ ticket'[q] = ticket[q]
      BY <2>0, <2>1 DEF Register, Active
    <3>2. \A q \in Req : Active(q) => ticket[q] <= clock
      BY <2>0, SMT DEF Table, TicketOrder, Registered, Active
    <3>3. CASE \E q \in Req : Active(q) /\ ticket[q] >= k
      <4>1. PICK p \in Req : Leads(p, k)
        BY <3>3 DEF FirstInFlight
      <4>2. p # r /\ ticket[p] <= clock
        BY <3>1, <3>2, <4>1 DEF Leads
      <4>3. Leads(p, k)'
        BY <2>0, <3>1, <4>1, <4>2, SMT DEF Leads
      <4> QED
        BY <4>3
    <3>4. CASE \A q \in Req : ~(Active(q) /\ ticket[q] >= k)
      <4>1. s = r
        BY <3>1, <3>4
      <4>2. Leads(r, k)'
        BY <2>0, <3>1, <3>4, <4>1, SMT DEF Leads
      <4> QED
        BY <4>2
    <3> QED
      BY <3>3, <3>4
  <2>2. ASSUME NEW r \in Req, Wait(r)
        PROVE  \E p \in Req : Leads(p, k)'
    <3>1. ticket' = ticket /\ \A q \in Req : Active(q)' <=> Active(q)
      BY <2>0, <2>2 DEF Wait, Active
    <3>2. PICK p \in Req : Leads(p, k)
      BY <3>1 DEF FirstInFlight
    <3> QED
      BY <3>1, <3>2 DEF Leads
  <2>3. ASSUME NEW r \in Req, Done(r)
        PROVE  \E p \in Req : Leads(p, k)'
    <3>1. /\ ticket' = ticket /\ Active(r) /\ ~Active(r)'
          /\ \A q \in Req \ {r} : Active(q)' <=> Active(q)
      BY <2>0, <2>3 DEF Done, Active
    <3>2. Active(s) /\ s # r /\ ticket[s] >= k
      BY <3>1
    <3>3. PICK p \in Req : Leads(p, k)
      BY <3>2 DEF FirstInFlight
    <3>4. CASE p # r
      BY <3>1, <3>3, <3>4 DEF Leads
    <3>5. CASE p = r
      <4>1. \A q \in Req : Active(q) /\ ticket[q] >= k /\ q # r => ticket[q] >= ticket[r] + 1
        BY <2>0, <3>1, <3>3, <3>5, SMT DEF Leads, Table, TicketOrder, Registered, Active
      <4>2. ticket[r] + 1 \in Nat /\ ticket[r] + 1 > k /\ ticket[s] >= ticket[r] + 1
        BY <2>0, <3>2, <3>3, <3>5, <4>1, SMT DEF Leads
      <4>3. PICK p2 \in Req : Leads(p2, ticket[r] + 1)
        BY <3>2, <4>2 DEF FirstInFlight
      <4>4. p2 # r /\ ticket[p2] >= k
        BY <2>0, <4>2, <4>3, SMT DEF Leads
      <4>5. Leads(p2, k)'
        BY <3>1, <4>1, <4>3, <4>4 DEF Leads
      <4> QED
        BY <4>5
    <3> QED
      BY <3>4, <3>5
  <2>4. CASE UNCHANGED wgVars
    <3>1. ticket' = ticket /\ stage' = stage
      BY <2>4 DEF wgVars
    <3>2. PICK p \in Req : Leads(p, k)
      BY <3>1 DEF FirstInFlight, Active
    <3> QED
      BY <3>1, <3>2 DEF Leads, Active
  <2> QED
    BY <2>1, <2>2, <2>3, <2>4 DEF Next
<1>Oldest. Table /\ WaitsAreEarlier /\ FirstInFlight => NoCircularWait
  <2> SUFFICES ASSUME Table, WaitsAreEarlier, FirstInFlight, \E r \in Req : Active(r)
               PROVE  \E r \in Req : Active(r) /\ (stage[r] = "waiting" => waits[r] \subseteq zero)
    BY DEF NoCircularWait
  <2>1. \A r \in Req : ticket[r] \in Nat /\ ticket[r] >= 0
    BY SMT DEF Table, TypeOK
  <2>2. PICK r \in Req : Leads(r, 0)
    BY <2>1 DEF FirstInFlight
  <2>3. Active(r) /\ \A q \in Req : Active(q) => ticket[r] <= ticket[q]
    BY <2>1, <2>2 DEF Leads
  <2>4. ASSUME NEW p \in Req, NEW a \in Account, <<p, a>> \in waits[r], <<p, a>> \notin zero
        PROVE  FALSE
    <3>1. a \in signers[p] /\ Registered(p) /\ ticket[p] < ticket[r]
      BY <2>4 DEF WaitsAreEarlier
    <3>2. stage[p] # "finished"
      BY <2>4, <3>1 DEF Table, ZeroIsFinished
    <3>3. Active(p)
      BY <3>1, <3>2 DEF Active, Registered, Table, TypeOK, Stage
    <3>4. ticket[r] <= ticket[p]
      BY <2>3, <3>3
    <3> QED
      BY <2>1, <3>1, <3>4, SMT
  <2>5. waits[r] \subseteq zero
    BY <2>4, SMT DEF Table, TypeOK, WaitGroup
  <2> QED
    BY <2>3, <2>5
<1>Init. Init => WaitsAreEarlier /\ FirstInFlight
  BY DEF Init, WaitsAreEarlier, FirstInFlight, Active
<1> QED
  BY <1>Earlier, <1>First, <1>Oldest, <1>Init, TableSpec, PTL DEF Spec

=============================================================================
