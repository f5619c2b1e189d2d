---------------------------- MODULE AtomicStore ----------------------------
(***************************************************************************)
(* What the multistore promises the application across crashes: the state  *)
(* that a restart finds is the state after a whole number of blocks, the   *)
(* same number in every store, and it advances one block at a time.        *)
(***************************************************************************)
EXTENDS Naturals

CONSTANTS Store, FirstVersion

VARIABLES
    height,     \* the last block committed
    state       \* store -> the blocks whose writes it has

Init ==
    /\ height = FirstVersion
    /\ state = [st \in Store |-> {FirstVersion}]

Commit ==
    /\ height' = height + 1
    /\ state' = [st \in Store |-> state[st] \cup {height + 1}]

Spec == Init /\ [][Commit]_<<height, state>>

=============================================================================
