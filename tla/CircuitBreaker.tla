--------------------------- MODULE CircuitBreaker ---------------------------
(***************************************************************************)
(* The circuit breaker of one provider (internal/health) as its users see  *)
(* it: requests ask whether the provider is healthy and later report how   *)
(* they ended, the health checker probes a provider whose circuit is open, *)
(* and a reload replaces every circuit.                                    *)
(*                                                                         *)
(* A report looks the circuit up, asks sony/gobreaker for permission       *)
(* (Allow) and then tells it the outcome (done): three critical sections.  *)
(* The breaker itself is a library and is modelled from how circuit.go     *)
(* uses it; its counts are kept only in the states that read them          *)
(* (failures while closed, requests and successes while half-open), since  *)
(* every change of state clears them and Settings.Interval is zero.        *)
(***************************************************************************)
EXTENDS Integers, FiniteSets

CONSTANTS
    Requests,     \* requests proxied to the provider
    Checker,      \* the goroutine of the health checker
    Configs,      \* configurations a reload may choose from
    MaxBreakers,  \* bound: circuits ever created, one per reload
    MaxTime       \* bound on the clock

Reporters == Requests \cup {Checker}

Ids == 1 .. MaxBreakers

ASSUME CircuitBreakerAssumption ==
    /\ IsFiniteSet(Requests)
    /\ Checker \notin Requests
    /\ Configs \subseteq [threshold: Nat \ {0}, probes: Nat \ {0}, duration: Nat \ {0}]
    /\ MaxBreakers \in Nat \ {0}
    /\ MaxTime \in Nat \ {0}

VARIABLES
    now,
    config,    \* Tracker.config
    current,   \* the circuit in Tracker.circuits, 0 when there is none
    created,   \* circuits created so far
    breakers,  \* the circuits: those before the current one are orphans
    pc,        \* where each reporter is
    ref,       \* the circuit each reporter has looked up
    outcome,   \* what it has to report
    ticket     \* generation it was let through in

trackerVars == <<config, current, created>>
reporterVars == <<pc, ref, outcome, ticket>>
vars == <<now, trackerVars, breakers, reporterVars>>

------------------------------------------------------------------------------
(* One breaker. *)

States == {"closed", "open", "halfopen"}

Breakers == [config: Configs, state: States, generation: Nat, failures: Nat,
             requests: Nat, successes: Nat, until: Nat]

NewBreaker(c) == [config |-> c, state |-> "closed", generation |-> 1, failures |-> 0,
                  requests |-> 0, successes |-> 0, until |-> 0]

\* setState: a new generation, with no counts.
Entered(b, s) ==
    [config |-> b.config, state |-> s, generation |-> b.generation + 1, failures |-> 0,
     requests |-> 0, successes |-> 0,
     until |-> IF s = "open" THEN now + b.config.duration ELSE 0]

\* Mutant: the open period ends one tick early.
SettledEarly(b) == IF b.state = "open" /\ b.until <= now THEN Entered(b, "halfopen") ELSE b

\* currentState: every use of the breaker first ends an open period that is over.
Settled(b) == IF b.state = "open" /\ b.until < now THEN Entered(b, "halfopen") ELSE b

ReadyToTrip(b, failures) == failures >= b.config.threshold

\* Allow answers ErrOpenState, or ErrTooManyRequests while half-open.
Refuses(b) ==
    b.state = "open" \/ (b.state = "halfopen" /\ b.requests >= b.config.probes)

Admitted(b) ==
    IF b.state = "halfopen" THEN [b EXCEPT !.requests = @ + 1] ELSE b

OnSuccess(b) ==
    CASE b.state = "closed" -> [b EXCEPT !.failures = 0]
      [] b.state = "halfopen" /\ b.successes + 1 >= b.config.probes -> Entered(b, "closed")
      [] b.state = "halfopen" /\ b.successes + 1 < b.config.probes ->
             [b EXCEPT !.successes = @ + 1]
      [] OTHER -> b

OnFailure(b) ==
    CASE b.state = "closed" /\ ReadyToTrip(b, b.failures + 1) -> Entered(b, "open")
      [] b.state = "closed" /\ ~ReadyToTrip(b, b.failures + 1) ->
             [b EXCEPT !.failures = @ + 1]
      [] b.state = "halfopen" -> Entered(b, "open")
      [] OTHER -> b

\* done: an outcome of an earlier generation is dropped.
Reported(b, gen, result) ==
    CASE b.generation # gen                      -> b
      [] b.generation = gen /\ result = "success" -> OnSuccess(b)
      [] b.generation = gen /\ result = "failure" -> OnFailure(b)

------------------------------------------------------------------------------
(* The tracker. *)

Init ==
    /\ now = 1
    /\ config \in Configs
    /\ current = 0
    /\ created = 0
    /\ breakers = [i \in Ids |-> NewBreaker(config)]
    /\ pc = [r \in Reporters |-> "idle"]
    /\ ref = [r \in Reporters |-> 1]
    /\ outcome = [r \in Reporters |-> "success"]
    /\ ticket = [r \in Reporters |-> 0]

Move(r, from, to) == pc[r] = from /\ pc' = [pc EXCEPT ![r] = to]

\* The reporter is done, and its locals are gone.
Leave(r, from) ==
    /\ Move(r, from, "idle")
    /\ ref' = [ref EXCEPT ![r] = 1]
    /\ outcome' = [outcome EXCEPT ![r] = "success"]
    /\ ticket' = [ticket EXCEPT ![r] = 0]

\* The circuit of the provider is created by whoever asks for it first.
GetOrCreateCircuit(r) ==
    \/ /\ current # 0
       /\ ref' = [ref EXCEPT ![r] = current]
       /\ UNCHANGED <<current, created, breakers>>
    \/ /\ current = 0
       /\ created < MaxBreakers
       /\ created' = created + 1
       /\ current' = created + 1
       /\ breakers' = [breakers EXCEPT ![created + 1] = NewBreaker(config)]
       /\ ref' = [ref EXCEPT ![r] = created + 1]

Use(r, b) == breakers' = [breakers EXCEPT ![ref[r]] = b]

\* IsHealthyFunc: look the circuit up, then read its state.
Route(r) ==
    /\ Move(r, "idle", "routing")
    /\ GetOrCreateCircuit(r)
    /\ UNCHANGED <<now, config, outcome, ticket>>

\* Reading the state may end the open period.  Where the request is sent, ticket
\* keeps the generation that let it through.
IsHealthy(r) ==
    LET b == Settled(breakers[ref[r]])
    IN  /\ Use(r, b)
        /\ \/ /\ b.state = "open"
              /\ Leave(r, "routing")
           \/ /\ b.state # "open"
              /\ Move(r, "routing", "sent")
              /\ ticket' = [ticket EXCEPT ![r] = b.generation]
              /\ UNCHANGED <<ref, outcome>>
        /\ UNCHANGED <<now, trackerVars>>

\* An answer that says something about the provider.
Answer(r) ==
    /\ Move(r, "sent", "report")
    /\ \E result \in {"success", "failure"} : outcome' = [outcome EXCEPT ![r] = result]
    /\ ref' = [ref EXCEPT ![r] = 1]
    /\ ticket' = [ticket EXCEPT ![r] = 0]
    /\ UNCHANGED <<now, trackerVars, breakers>>

\* An answer that only concerns the key: the circuit does not hear of it.
AnswerSkipped(r) ==
    /\ Leave(r, "sent")
    /\ UNCHANGED <<now, trackerVars, breakers>>

\* No answer: the reverse proxy writes a 502 itself and reports nothing.
TransportError(r) ==
    /\ Leave(r, "sent")
    /\ UNCHANGED <<now, trackerVars, breakers>>

\* RecordSuccess and RecordFailure.
Record(r) ==
    /\ Move(r, "report", "allow")
    /\ GetOrCreateCircuit(r)
    /\ UNCHANGED <<now, config, outcome, ticket>>

\* Mutant: done is not called for a success.
AllowForgettingDone(r) ==
    LET b == Settled(breakers[ref[r]])
    IN  /\ \/ /\ Refuses(b)
              /\ Leave(r, "allow")
              /\ Use(r, b)
           \/ /\ ~Refuses(b) /\ outcome[r] = "success"
              /\ Leave(r, "allow")
              /\ Use(r, Admitted(b))
           \/ /\ ~Refuses(b) /\ outcome[r] = "failure"
              /\ Move(r, "allow", "done")
              /\ Use(r, Admitted(b))
              /\ ticket' = [ticket EXCEPT ![r] = b.generation]
              /\ UNCHANGED <<ref, outcome>>
        /\ UNCHANGED <<now, trackerVars>>

\* A report that is refused is dropped.
Allow(r) ==
    LET b == Settled(breakers[ref[r]])
    IN  /\ \/ /\ Refuses(b)
              /\ Leave(r, "allow")
              /\ Use(r, b)
           \/ /\ ~Refuses(b)
              /\ Move(r, "allow", "done")
              /\ Use(r, Admitted(b))
              /\ ticket' = [ticket EXCEPT ![r] = b.generation]
              /\ UNCHANGED <<ref, outcome>>
        /\ UNCHANGED <<now, trackerVars>>

Done(r) ==
    /\ Leave(r, "done")
    /\ Use(r, Reported(Settled(breakers[ref[r]]), ticket[r], outcome[r]))
    /\ UNCHANGED <<now, trackerVars>>

------------------------------------------------------------------------------
(* The health checker, the reload and the clock. *)

\* GetState creates no circuit: without one the provider counts as closed.
CheckLooksUp ==
    /\ Move(Checker, "idle", "routing")
    /\ current # 0
    /\ ref' = [ref EXCEPT ![Checker] = current]
    /\ UNCHANGED <<now, trackerVars, breakers, outcome, ticket>>

\* Only a provider whose circuit is open is checked.
CheckReadsState ==
    LET b == Settled(breakers[ref[Checker]])
    IN  /\ Use(Checker, b)
        /\ \/ /\ b.state = "open"
              /\ Move(Checker, "routing", "sent")
              /\ UNCHANGED <<ref, outcome, ticket>>
           \/ /\ b.state # "open"
              /\ Leave(Checker, "routing")
        /\ UNCHANGED <<now, trackerVars>>

CheckSucceeds ==
    /\ Move(Checker, "sent", "report")
    /\ outcome' = [outcome EXCEPT ![Checker] = "success"]
    /\ ref' = [ref EXCEPT ![Checker] = 1]
    /\ UNCHANGED <<now, trackerVars, breakers, ticket>>

CheckFails ==
    /\ Leave(Checker, "sent")
    /\ UNCHANGED <<now, trackerVars, breakers>>

\* Reports that are under way keep the circuit they have looked up.
Reset ==
    /\ created < MaxBreakers
    /\ config' \in Configs
    /\ current' = 0
    /\ UNCHANGED <<now, created, breakers, reporterVars>>

Tick ==
    /\ now < MaxTime
    /\ now' = now + 1
    /\ UNCHANGED <<trackerVars, breakers, reporterVars>>

------------------------------------------------------------------------------

ReportStep(r) == Record(r) \/ Allow(r) \/ Done(r)

RequestStep(r) ==
    Route(r) \/ IsHealthy(r) \/ Answer(r) \/ AnswerSkipped(r) \/ TransportError(r)

CheckerStep == CheckLooksUp \/ CheckReadsState \/ CheckSucceeds \/ CheckFails

Next ==
    \/ \E r \in Requests : RequestStep(r)
    \/ \E r \in Reporters : ReportStep(r)
    \/ CheckerStep
    \/ Reset
    \/ Tick

Spec == Init /\ [][Next]_vars

\* A report that has begun runs to its end.
FairSpec == Spec /\ \A r \in Reporters : WF_vars(ReportStep(r))

------------------------------------------------------------------------------

TypeOK ==
    /\ now \in 1 .. MaxTime
    /\ config \in Configs
    /\ created \in 0 .. MaxBreakers
    /\ current \in {0, created}
    /\ breakers \in [Ids -> Breakers]
    /\ \A i \in Ids : breakers[i].failures < breakers[i].config.threshold
    /\ pc \in [Reporters -> {"idle", "routing", "sent", "report", "allow", "done"}]
    /\ ref \in [Reporters -> Ids]
    /\ outcome \in [Reporters -> {"success", "failure"}]
    /\ ticket \in [Reporters -> Nat]

\* The reports a circuit has let through in its present generation.
Pending(i) ==
    {r \in Reporters : pc[r] = "done" /\ ref[r] = i /\ ticket[r] = breakers[i].generation}

\* While a circuit is half-open, every report it has let through has succeeded or
\* is about to be told: no slot is lost to a report of another generation, to a
\* dropped one or to an orphaned circuit, so the slots can never run out for good.
HalfOpenAccounted ==
    \A i \in Ids : breakers[i].state = "halfopen" =>
        /\ breakers[i].requests = breakers[i].successes + Cardinality(Pending(i))
        /\ breakers[i].successes < breakers[i].config.probes

\* A half-open circuit that lets nothing more through leaves that state.
HalfOpenResolves ==
    \A i \in Ids :
        (breakers[i].state = "halfopen" /\ breakers[i].requests >= breakers[i].config.probes)
            ~> breakers[i].state # "halfopen"

\* The circuit the tracker would use now, created or not.
Current == IF current = 0 THEN NewBreaker(config) ELSE breakers[current]

Abstract == INSTANCE Breaker WITH
    state <- Current.state, failures <- Current.failures,
    successes <- Current.successes, until <- Current.until

\* With concurrent reports, lazily created and orphaned circuits, the router sees
\* the breaker of the documentation.
BreakerSpec == Abstract!Spec

\* As the documentation says of HALF-OPEN, "Limited probes allowed": no more
\* requests than probes are with the provider while its circuit is half-open.
LimitedProbes ==
    \A i \in Ids : breakers[i].state = "halfopen" =>
        Cardinality({r \in Requests : /\ pc[r] = "sent"
                                      /\ ref[r] = i
                                      /\ ticket[r] = breakers[i].generation})
            <= breakers[i].config.probes

=============================================================================
