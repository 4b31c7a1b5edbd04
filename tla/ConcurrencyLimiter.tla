-------------------------- MODULE ConcurrencyLimiter --------------------------
(***************************************************************************)
(* The global limit on concurrent requests (internal/proxy/middleware.go): *)
(* an atomic counter, a compare-and-swap loop, and a limit that a reload   *)
(* changes while requests are being admitted, served and released.         *)
(***************************************************************************)
EXTENDS Integers, FiniteSets

CONSTANTS
    Requests,   \* the goroutines that serve requests
    Limits      \* values of max_concurrent; 0 and less is unlimited

ASSUME LimiterAssumption == IsFiniteSet(Requests) /\ Limits \subseteq Int

VARIABLES
    limit,      \* ConcurrencyLimiter.limit
    current,    \* ConcurrencyLimiter.current
    slot,       \* where each request is in TryAcquire; "in" once it is admitted
    seenLimit,  \* the limit it has loaded, kept while it is in
    seen        \* the count it has loaded

limiterVars == <<limit, current, slot, seenLimit, seen>>

Init ==
    /\ limit \in Limits
    /\ current = 0
    /\ slot = [r \in Requests |-> "out"]
    /\ seenLimit = [r \in Requests |-> 0]
    /\ seen = [r \in Requests |-> 0]

Goto(r, from, to) == slot[r] = from /\ slot' = [slot EXCEPT ![r] = to]

LoadLimit(r) ==
    /\ Goto(r, "out", IF limit <= 0 THEN "unlimited" ELSE "load")
    /\ seenLimit' = [seenLimit EXCEPT ![r] = limit]
    /\ UNCHANGED <<limit, current, seen>>

\* Mutant: an unlimited request is not counted.
AddUnlimitedUncounted(r) ==
    /\ Goto(r, "unlimited", "in")
    /\ UNCHANGED <<limit, current, seenLimit, seen>>

\* Without a limit the request is still counted.
AddUnlimited(r) ==
    /\ Goto(r, "unlimited", "in")
    /\ current' = current + 1
    /\ UNCHANGED <<limit, seenLimit, seen>>

LoadCurrent(r) ==
    \/ /\ current >= seenLimit[r]
       /\ Goto(r, "load", "out")
       /\ seenLimit' = [seenLimit EXCEPT ![r] = 0]
       /\ UNCHANGED <<limit, current, seen>>
    \/ /\ current < seenLimit[r]
       /\ Goto(r, "load", "swap")
       /\ seen' = [seen EXCEPT ![r] = current]
       /\ UNCHANGED <<limit, current, seenLimit>>

\* Mutant: the count is added to whatever it has become.
AddUnchecked(r) ==
    /\ Goto(r, "swap", "in")
    /\ current' = current + 1
    /\ seen' = [seen EXCEPT ![r] = 0]
    /\ UNCHANGED <<limit, seenLimit>>

CompareAndSwap(r) ==
    /\ \/ /\ current = seen[r]
          /\ Goto(r, "swap", "in")
          /\ current' = current + 1
       \/ /\ current # seen[r]
          /\ Goto(r, "swap", "load")
          /\ UNCHANGED current
    /\ seen' = [seen EXCEPT ![r] = 0]
    /\ UNCHANGED <<limit, seenLimit>>

\* Deferred by the middleware: every admitted request releases once.
Release(r) ==
    /\ Goto(r, "in", "out")
    /\ current' = current - 1
    /\ seenLimit' = [seenLimit EXCEPT ![r] = 0]
    /\ UNCHANGED <<limit, seen>>

SetLimit ==
    /\ limit' \in Limits \ {limit}
    /\ UNCHANGED <<current, slot, seenLimit, seen>>

TryAcquire(r) == LoadLimit(r) \/ AddUnlimited(r) \/ LoadCurrent(r) \/ CompareAndSwap(r)

Next == (\E r \in Requests : TryAcquire(r) \/ Release(r)) \/ SetLimit

Spec == Init /\ [][Next]_limiterVars

------------------------------------------------------------------------------

LimiterTypeOK ==
    /\ limit \in Limits
    /\ current \in Nat
    /\ slot \in [Requests -> {"out", "unlimited", "load", "swap", "in"}]
    /\ seenLimit \in [Requests -> Limits \cup {0}]
    /\ seen \in [Requests -> Int]

In == {r \in Requests : slot[r] = "in"}

\* The counter is the number of admitted requests, also across changes from and to
\* no limit at all.
CountExact == current = Cardinality(In)

\* However the limit changes: of any requests that are in at the same time, one was
\* admitted under a limit that allows for all of them, or under none.
AdmissionBound ==
    \A S \in SUBSET In : S # {} =>
        \E r \in S : seenLimit[r] <= 0 \/ Cardinality(S) <= seenLimit[r]

===============================================================================
