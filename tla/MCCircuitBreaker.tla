-------------------------- MODULE MCCircuitBreaker --------------------------
(* A circuit for TLC: one reload, two failures to open, up to two probes. *)
EXTENDS CircuitBreaker

CONSTANTS r1, r2, checker

TwoProbes == {[threshold |-> 2, probes |-> 2, duration |-> 1]}

ReloadedConfigs == TwoProbes \cup {[threshold |-> 1, probes |-> 1, duration |-> 1]}

OneProbe == {[threshold |-> 1, probes |-> 1, duration |-> 1]}

=============================================================================
