------------------------------- MODULE Breaker -------------------------------
(***************************************************************************)
(* What the circuit breaker of one provider promises to the router: the    *)
(* three states of docs-site/content/en/docs/health.md, one outcome at a   *)
(* time, with no concurrency, no lazily created circuit and no stale       *)
(* report.                                                                 *)
(***************************************************************************)
EXTENDS Naturals

CONSTANT Configs   \* records of a threshold, a number of probes and an open duration

VARIABLES
    now,
    config,      \* the configuration in force
    state,       \* "closed", "open" or "halfopen"
    failures,    \* consecutive failures while closed
    successes,   \* consecutive successes while half-open
    until        \* end of the open period

vars == <<now, config, state, failures, successes, until>>

Init ==
    /\ now = 1
    /\ config \in Configs
    /\ state = "closed"
    /\ failures = 0
    /\ successes = 0
    /\ until = 0

Enter(s) ==
    /\ state' = s
    /\ failures' = 0
    /\ successes' = 0
    /\ until' = IF s = "open" THEN now + config.duration ELSE 0

\* A success while closed makes earlier failures forgotten.
Forget ==
    /\ state = "closed"
    /\ failures' = 0
    /\ UNCHANGED <<now, config, state, successes, until>>

CountFailure ==
    /\ state = "closed"
    /\ failures + 1 < config.threshold
    /\ failures' = failures + 1
    /\ UNCHANGED <<now, config, state, successes, until>>

\* The threshold is reached while closed, or any failure while half-open.
Trip ==
    /\ state = "closed" => failures + 1 >= config.threshold
    /\ state # "open"
    /\ Enter("open")
    /\ UNCHANGED <<now, config>>

\* The open period is over: only time ends it.
Recover ==
    /\ state = "open"
    /\ now > until
    /\ Enter("halfopen")
    /\ UNCHANGED <<now, config>>

CountSuccess ==
    /\ state = "halfopen"
    /\ successes + 1 < config.probes
    /\ successes' = successes + 1
    /\ UNCHANGED <<now, config, state, failures, until>>

\* As many probes as configured have succeeded, one after the other.
Close ==
    /\ state = "halfopen"
    /\ successes + 1 >= config.probes
    /\ Enter("closed")
    /\ UNCHANGED <<now, config>>

\* A reload of the configuration starts over.
Reset ==
    /\ config' \in Configs
    /\ Enter("closed")
    /\ UNCHANGED now

Tick ==
    /\ now' = now + 1
    /\ UNCHANGED <<config, state, failures, successes, until>>

Next ==
    Forget \/ CountFailure \/ Trip \/ Recover \/ CountSuccess \/ Close \/ Reset \/ Tick

Spec == Init /\ [][Next]_vars

==============================================================================
