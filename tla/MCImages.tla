-------------------------------- MODULE MCImages --------------------------------
(***************************************************************************)
(* A small instance of CodexImages: two requests at a time, two auth files *)
(* between which a reload switches, the Codex app that rotates both.       *)
(***************************************************************************)
EXTENDS CodexImages, TLC

CONSTANTS q1, q2, gateway, pA, pB

SourceIn == q1 :> gateway @@ q2 :> gateway
OpsIn == q1 :> {} @@ q2 :> {}
PathIn == gateway :> pA

\* The requests are alike.
Symmetry == Permutations(Requests)
================================================================================
