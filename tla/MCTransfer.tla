----------------------------- MODULE MCTransfer -----------------------------
(* Three chains in a row.  Both channels of the outer chains, and one of   *)
(* the middle chain's, have the same identifier.                           *)
EXTENDS Transfer

CONSTANTS a, b, c, ab, ba, bc, cb

MCZone == {a, b, c}
MCEnd == {ab, ba, bc, cb}
MCHome == [e \in End |-> CASE e = ab -> a [] e = cb -> c [] OTHER -> b]
MCName == [e \in End |-> IF e = bc THEN "channel-1" ELSE "channel-0"]
MCPeer == [e \in End |-> CASE e = ab -> ba [] e = ba -> ab [] e = bc -> cb [] e = cb -> bc]
MCSupply == [z \in Zone |-> CASE z = a -> 2 [] z = b -> 0 [] z = c -> 1]
=============================================================================
