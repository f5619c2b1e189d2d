---------------------------- MODULE MCIBCPackets ----------------------------
(* Two chains with clocks of their own; chain a sends.                     *)
EXTENDS IBCPackets

MCLastHeight == [c \in Chain |-> IF c = A THEN 2 ELSE 3]

\* A timeout at height 3, and one at the time of block 2 of chain B.
MCTimeout == {<<3, 0>>, <<0, 6>>}

MCBlockTime == [c \in Chain |-> [h \in Height |-> IF c = A THEN 2 * h ELSE 3 * h]]
=============================================================================
