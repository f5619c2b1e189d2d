----------------------------- MODULE MCCheckTx -----------------------------
(***************************************************************************)
(* TLC instances of CheckTx.  Sequence numbers are 0 or 1, so that two     *)
(* transactions of one signer can follow, repeat or overtake each other.   *)
(***************************************************************************)
EXTENDS CheckTx, TLC

Symmetry == Permutations(Account) \cup Permutations(Req)
ReqSymmetry == Permutations(Req)

SeqsOf(S) == {f \in [Account -> 0..1] : \A a \in Account \ S : f[a] = 0}

TxOf(S, p) == {[valid |-> TRUE, signers |-> S, payer |-> p, seq |-> f] : f \in SeqsOf(S \cup {p})}

Malformed == {[valid |-> FALSE, signers |-> Account, payer |-> p, seq |-> [a \in Account |-> 0]] :
              p \in Account}

\* One signer, who pays.
SelfPaysTx == Malformed \cup UNION {TxOf({a}, a) : a \in Account}

\* Also transactions that all accounts sign, for equal sequence numbers.
SignerPaysTx ==
    SelfPaysTx \cup {t \in UNION {TxOf(Account, p) : p \in Account} :
                       \A a, b \in Account : t.seq[a] = t.seq[b]}

\* For instances without symmetry: one signer who pays, one transaction that all
\* sign, and a malformed one.
FewTx ==
    LET p == CHOOSE a \in Account : TRUE IN
    {t \in SelfPaysTx : t.valid \/ t.payer = p}
    \cup {t \in TxOf(Account, p) : \A a \in Account : t.seq[a] = 0}

\* One message signer and any payer.
AnyonePaysTx == UNION {TxOf({a}, p) : a \in Account, p \in Account}

=============================================================================
