-------------------------------- MODULE MCCodex --------------------------------
(***************************************************************************)
(* A small instance of CodexToken: a process that reads and refreshes the  *)
(* login with two goroutines on one source, and another that refreshes it. *)
(***************************************************************************)
EXTENDS CodexToken, TLC

CONSTANTS getter, ensurer, refresher, toolA, toolB, pA

SourceIn == getter :> toolA @@ ensurer :> toolA @@ refresher :> toolB
OpsIn == getter :> {"Get"} @@ ensurer :> {"EnsureFresh"} @@
         refresher :> {"Refresh"}
PathIn == toolA :> pA @@ toolB :> pA
SomeAnswers == {{}, {"access"}, {"access", "refresh"}}
================================================================================
