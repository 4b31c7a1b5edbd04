------------------------------- MODULE MCServing -------------------------------
(***************************************************************************)
(* Small instances of Serving: two providers, the first preferred.         *)
(***************************************************************************)
EXTENDS Serving, TLC, Sequences

CONSTANTS p1, p2

Listed == <<p1, p2>>

FirstPreferred == p1 :> 2 @@ p2 :> 1

Interchangeable == Permutations(Requests)

================================================================================
