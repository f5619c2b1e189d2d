--------------------------- MODULE SerialCheckTx ---------------------------
(***************************************************************************)
(* What concurrent CheckTx promises the mempool: it answers as if the      *)
(* requests were checked one at a time.  An accepted request carried, at   *)
(* one instant, the check-state sequence of each of its signers, and at    *)
(* that instant all of them were incremented and the payer charged; a      *)
(* rejected request changed nothing.                                       *)
(***************************************************************************)
EXTENDS Naturals

CONSTANTS Account, Req, NoTx

VARIABLES
    seq,        \* account -> its sequence number in the check state
    bal,        \* account -> its balance in the check state
    tx,         \* request -> the transaction it carries
    recheck,    \* request -> whether it is of type Recheck
    verdict,    \* request -> "none", "ok" or "err"
    base        \* number of times the state under the check state changed

serialVars == <<seq, bal, tx, recheck, verdict, base>>

Init ==
    /\ seq \in [Account -> Nat]
    /\ bal \in [Account -> Nat]
    /\ tx = [r \in Req |-> NoTx]
    /\ verdict = [r \in Req |-> "none"]
    /\ recheck = [r \in Req |-> FALSE]
    /\ base = 0

\* A request arrives with its transaction.
Submit(r) ==
    /\ tx[r] = NoTx /\ tx'[r] # NoTx
    /\ \A s \in Req \ {r} : tx'[s] = tx[s] /\ recheck'[s] = recheck[s]
    /\ \/ UNCHANGED verdict
       \/ ~tx'[r].valid /\ verdict' = [verdict EXCEPT ![r] = "err"]
    /\ UNCHANGED <<seq, bal, base>>

Signers(r) == tx[r].signers \cup {tx[r].payer}

Passes(r) ==
    /\ tx[r].valid
    /\ bal[tx[r].payer] >= 1
    /\ recheck[r] \/ \A a \in Signers(r) : tx[r].seq[a] = seq[a]

Accept(r) ==
    /\ tx[r] # NoTx /\ verdict[r] = "none" /\ Passes(r)
    /\ seq' = [a \in Account |-> IF a \in Signers(r) THEN seq[a] + 1 ELSE seq[a]]
    /\ bal' = [bal EXCEPT ![tx[r].payer] = @ - 1]
    /\ verdict' = [verdict EXCEPT ![r] = "ok"]
    /\ UNCHANGED <<tx, recheck, base>>

Reject(r) ==
    /\ tx[r] # NoTx /\ verdict[r] = "none" /\ ~Passes(r)
    /\ verdict' = [verdict EXCEPT ![r] = "err"]
    /\ UNCHANGED <<seq, bal, tx, recheck, base>>

\* A block is committed, or the check state is branched anew.
Rebase ==
    /\ base' = base + 1
    /\ seq' \in [Account -> Nat]
    /\ bal' \in [Account -> Nat]
    /\ UNCHANGED <<tx, recheck, verdict>>

Next == Rebase \/ \E r \in Req : Submit(r) \/ Accept(r) \/ Reject(r)

Spec == Init /\ [][Next]_serialVars

=============================================================================
