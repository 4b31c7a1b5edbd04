------------------------------ MODULE MCStrategies ------------------------------
(***************************************************************************)
(* A small instance of Strategies: three providers of weights 1 (given as  *)
(* 0), 2 and 3 in two tiers, two requests at a time, one model that is     *)
(* mapped and one whose target is not there.                               *)
(***************************************************************************)
EXTENDS Strategies

CONSTANTS p1, p2, p3, m1, m2, gone, q1, q2

ListedIn == <<p1, p2, p3>>
WeightIn == [p \in {p1, p2, p3} |-> CASE p = p1 -> 0 [] p = p2 -> 2 [] p = p3 -> 3]
PriorityIn == [p \in {p1, p2, p3} |-> IF p = p1 THEN 1 ELSE 2]
TargetIn == [m \in {m1, m2} |-> IF m = m1 THEN p2 ELSE gone]
AnyRequest == Permutations({q1, q2})
ExcludedIn == {{}, {p2}}
================================================================================
