---------------------------- MODULE MCFoundation ----------------------------
(***************************************************************************)
(* TLC instances of Foundation: two members and one who may join, with a   *)
(* threshold policy and a percentage policy that waits before execution.   *)
(***************************************************************************)
EXTENDS Foundation

CONSTANTS m1, m2, m3

Threshold2 == [kind |-> "threshold", need |-> 2, votingPeriod |-> 1, minExecution |-> 0]
Percent80 == [kind |-> "percentage", need |-> 80, votingPeriod |-> 2, minExecution |-> 1]

OnePolicy == {Threshold2}
TwoPolicies == {Threshold2, Percent80}

Other == [type |-> "other"]
Join(a) == [type |-> "members", join |-> {a}, leave |-> {}]

JoinPayloads == {Join(m3), Other}
PolicyPayloads == {[type |-> "policy", policy |-> Percent80], [type |-> "withdraw", id |-> 1]}

=============================================================================
