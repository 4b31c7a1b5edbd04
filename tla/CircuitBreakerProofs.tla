------------------------ MODULE CircuitBreakerProofs ------------------------
(***************************************************************************)
(* For every number of requests, every configuration and every number of   *)
(* reloads: the slots of a half-open circuit are accounted for, and the    *)
(* circuit in use implements the abstract breaker.                         *)
(***************************************************************************)
EXTENDS CircuitBreaker, TLAPS, FiniteSetTheorems

------------------------------------------------------------------------------
(* One breaker. *)

\* What TypeOK says of each circuit.
GoodBreaker(b) == b \in Breakers /\ b.failures < b.config.threshold

\* A change of state leaves a good breaker, in the next generation.
LEMMA EnteredGood ==
    ASSUME NEW b, b \in Breakers, NEW s \in States, now \in Nat
    PROVE  /\ GoodBreaker(Entered(b, s))
           /\ Entered(b, s).config = b.config
           /\ Entered(b, s).state = s
           /\ Entered(b, s).generation = b.generation + 1
           /\ Entered(b, s).failures = 0
           /\ Entered(b, s).requests = 0
           /\ Entered(b, s).successes = 0
           /\ Entered(b, s).until = IF s = "open" THEN now + b.config.duration ELSE 0
<1>1. b.config \in [threshold: Nat \ {0}, probes: Nat \ {0}, duration: Nat \ {0}]
  BY CircuitBreakerAssumption DEF Breakers
<1>2. /\ Entered(b, s).config = b.config
      /\ Entered(b, s).state = s
      /\ Entered(b, s).generation = b.generation + 1
      /\ Entered(b, s).failures = 0
      /\ Entered(b, s).requests = 0
      /\ Entered(b, s).successes = 0
      /\ Entered(b, s).until = IF s = "open" THEN now + b.config.duration ELSE 0
  BY DEF Entered, Breakers
<1>3. Entered(b, s) \in Breakers
  BY <1>1 DEF Entered, Breakers
<1> QED
  BY <1>1, <1>2, <1>3 DEF GoodBreaker

\* A new circuit is good.
LEMMA NewGood == ASSUME NEW c \in Configs PROVE GoodBreaker(NewBreaker(c))
<1>1. c \in [threshold: Nat \ {0}, probes: Nat \ {0}, duration: Nat \ {0}]
  BY CircuitBreakerAssumption
<1> QED
  BY <1>1 DEF GoodBreaker, NewBreaker, Breakers, States

\* Whatever a critical section of the library does leaves a good breaker.
LEMMA OperationsGood ==
    ASSUME NEW b, GoodBreaker(b), now \in Nat
    PROVE  /\ GoodBreaker(Settled(b))
           /\ GoodBreaker(Admitted(b))
           /\ GoodBreaker(OnSuccess(b))
           /\ GoodBreaker(OnFailure(b))
<1> USE DEF GoodBreaker
<1>1. b.config \in [threshold: Nat \ {0}, probes: Nat \ {0}, duration: Nat \ {0}]
  BY CircuitBreakerAssumption DEF Breakers
<1>2. \A s \in States : GoodBreaker(Entered(b, s))
  BY EnteredGood
<1>3. GoodBreaker(Settled(b))
  BY <1>2 DEF Settled, States
<1>4. GoodBreaker(Admitted(b))
  BY DEF Admitted, Breakers
<1>5. GoodBreaker(OnSuccess(b))
  <2>1. GoodBreaker([b EXCEPT !.failures = 0]) /\ GoodBreaker([b EXCEPT !.successes = @ + 1])
    BY <1>1 DEF Breakers
  <2> QED
    BY <1>2, <2>1 DEF OnSuccess, States
<1>6. GoodBreaker(OnFailure(b))
  <2>1. b.failures + 1 < b.config.threshold => GoodBreaker([b EXCEPT !.failures = @ + 1])
    BY <1>1 DEF Breakers
  <2>2. ~ReadyToTrip(b, b.failures + 1) => b.failures + 1 < b.config.threshold
    BY <1>1 DEF ReadyToTrip, Breakers
  <2> QED
    BY <1>2, <2>1, <2>2 DEF OnFailure, States
<1> QED
  BY <1>3, <1>4, <1>5, <1>6

\* A report leaves a good breaker, heard or dropped.
LEMMA ReportedGood ==
    ASSUME NEW b, GoodBreaker(b), now \in Nat, NEW gen,
           NEW result \in {"success", "failure"}
    PROVE  GoodBreaker(Reported(b, gen, result))
BY OperationsGood DEF Reported

------------------------------------------------------------------------------
(* Types. *)

\* TypeOK in terms of good breakers.
LEMMA BreakersGood ==
    TypeOK <=> /\ now \in 1 .. MaxTime
               /\ config \in Configs
               /\ created \in 0 .. MaxBreakers
               /\ current \in {0, created}
               /\ breakers \in [Ids -> Breakers]
               /\ \A i \in Ids : GoodBreaker(breakers[i])
               /\ pc \in [Reporters -> {"idle", "routing", "sent", "report", "allow", "done"}]
               /\ ref \in [Reporters -> Ids]
               /\ outcome \in [Reporters -> {"success", "failure"}]
               /\ ticket \in [Reporters -> Nat]
BY DEF TypeOK, GoodBreaker

\* A reporter that puts a good breaker in place of the one it looked up.
LEMMA UseType ==
    ASSUME TypeOK, NEW r \in Reporters, NEW b, GoodBreaker(b), Use(r, b)
    PROVE  /\ breakers' \in [Ids -> Breakers]
           /\ \A i \in Ids : breakers'[i].failures < breakers'[i].config.threshold
<1>1. breakers' = [breakers EXCEPT ![ref[r]] = b] /\ b \in Breakers
  BY DEF Use, GoodBreaker
<1>2. breakers' \in [Ids -> Breakers]
  BY <1>1 DEF TypeOK
<1>3. ASSUME NEW i \in Ids PROVE breakers'[i].failures < breakers'[i].config.threshold
  <2>1. breakers'[i] = b \/ breakers'[i] = breakers[i]
    BY <1>1 DEF TypeOK
  <2> QED
    BY <2>1 DEF TypeOK, GoodBreaker
<1> QED
  BY <1>2, <1>3

\* Looking a circuit up keeps the types, whether it is there or created.
LEMMA LookupType ==
    ASSUME TypeOK, NEW r \in Reporters, GetOrCreateCircuit(r)
    PROVE  /\ breakers' \in [Ids -> Breakers]
           /\ \A i \in Ids : breakers'[i].failures < breakers'[i].config.threshold
           /\ created' \in 0 .. MaxBreakers
           /\ current' \in {0, created'}
           /\ ref' \in [Reporters -> Ids]
<1> USE CircuitBreakerAssumption
<1>1. CASE current # 0 /\ ref' = [ref EXCEPT ![r] = current]
           /\ UNCHANGED <<current, created, breakers>>
  BY <1>1 DEF TypeOK, Ids
<1>2. CASE /\ current = 0
           /\ created < MaxBreakers
           /\ created' = created + 1
           /\ current' = created + 1
           /\ breakers' = [breakers EXCEPT ![created + 1] = NewBreaker(config)]
           /\ ref' = [ref EXCEPT ![r] = created + 1]
  <2>1. GoodBreaker(NewBreaker(config))
    BY NewGood DEF TypeOK
  <2>2. created + 1 \in Ids
    BY <1>2 DEF TypeOK, Ids
  <2>3. breakers' \in [Ids -> Breakers]
    BY <1>2, <2>1, <2>2 DEF TypeOK, GoodBreaker
  <2>4. ASSUME NEW i \in Ids PROVE breakers'[i].failures < breakers'[i].config.threshold
    <3>1. breakers'[i] = NewBreaker(config) \/ breakers'[i] = breakers[i]
      BY <1>2 DEF TypeOK
    <3> QED
      BY <2>1, <3>1 DEF TypeOK, GoodBreaker
  <2> QED
    BY <1>2, <2>2, <2>3, <2>4 DEF TypeOK
<1> QED
  BY <1>1, <1>2 DEF GetOrCreateCircuit

\* The types of a new tracker.
LEMMA InitTypeOK == Init => TypeOK
<1> SUFFICES ASSUME Init PROVE TypeOK
  OBVIOUS
<1>1. GoodBreaker(NewBreaker(config))
  BY NewGood DEF Init
<1> QED
  BY <1>1, CircuitBreakerAssumption DEF Init, TypeOK, GoodBreaker, Ids

\* Every step keeps the types.
LEMMA StepTypeOK == TypeOK /\ [Next]_vars => TypeOK'
<1> SUFFICES ASSUME TypeOK, [Next]_vars PROVE TypeOK'
  OBVIOUS
<1> USE CircuitBreakerAssumption
<1>0. now \in Nat /\ \A i \in Ids : GoodBreaker(breakers[i])
  BY DEF TypeOK, GoodBreaker
<1>a. \A r \in Reporters : GoodBreaker(Settled(breakers[ref[r]]))
  BY <1>0, OperationsGood DEF TypeOK
<1>b. Requests \subseteq Reporters /\ Checker \in Reporters /\ 1 \in Ids
  BY DEF Reporters, Ids
<1>1. CASE UNCHANGED vars
  BY <1>1 DEF vars, trackerVars, reporterVars, TypeOK
<1>2. ASSUME NEW r \in Reporters, NEW p, Leave(r, p)
      PROVE  /\ pc' \in [Reporters -> {"idle", "routing", "sent", "report", "allow", "done"}]
             /\ ref' \in [Reporters -> Ids]
             /\ outcome' \in [Reporters -> {"success", "failure"}]
             /\ ticket' \in [Reporters -> Nat]
  <2>1. /\ pc' = [pc EXCEPT ![r] = "idle"] /\ ref' = [ref EXCEPT ![r] = 1]
        /\ outcome' = [outcome EXCEPT ![r] = "success"] /\ ticket' = [ticket EXCEPT ![r] = 0]
    BY <1>2 DEF Leave, Move
  <2> QED
    BY <1>b, <2>1 DEF TypeOK
<1>3. ASSUME NEW r \in Requests, Route(r) PROVE TypeOK'
  <2>1. r \in Reporters
    BY <1>b
  <2> QED
    BY <1>3, <2>1, LookupType DEF Route, Move, TypeOK
<1>4. ASSUME NEW r \in Requests, IsHealthy(r) PROVE TypeOK'
  <2> DEFINE b == Settled(breakers[ref[r]])
  <2>1. r \in Reporters /\ GoodBreaker(b)
    BY <1>a, <1>b
  <2>2. /\ breakers' \in [Ids -> Breakers]
        /\ \A i \in Ids : breakers'[i].failures < breakers'[i].config.threshold
    BY <1>4, <2>1, UseType DEF IsHealthy
  <2>3. CASE Leave(r, "routing")
    BY <1>2, <1>4, <2>1, <2>2, <2>3 DEF IsHealthy, trackerVars, TypeOK
  <2>4. CASE /\ Move(r, "routing", "sent")
             /\ ticket' = [ticket EXCEPT ![r] = b.generation]
             /\ UNCHANGED <<ref, outcome>>
    BY <1>4, <2>1, <2>2, <2>4 DEF IsHealthy, Move, trackerVars, TypeOK, GoodBreaker, Breakers
  <2> QED
    BY <1>4, <2>3, <2>4 DEF IsHealthy
<1>5. ASSUME NEW r \in Requests, Answer(r) PROVE TypeOK'
  BY <1>5, <1>b DEF Answer, Move, trackerVars, TypeOK
<1>6. ASSUME NEW r \in Requests, AnswerSkipped(r) \/ TransportError(r) PROVE TypeOK'
  BY <1>2, <1>6, <1>b DEF AnswerSkipped, TransportError, trackerVars, TypeOK
<1>7. ASSUME NEW r \in Reporters, Record(r) PROVE TypeOK'
  BY <1>7, LookupType DEF Record, Move, TypeOK
<1>8. ASSUME NEW r \in Reporters, Allow(r) PROVE TypeOK'
  <2> DEFINE b == Settled(breakers[ref[r]])
  <2>1. GoodBreaker(b)
    BY <1>a
  <2>2. CASE Leave(r, "allow") /\ Use(r, b)
    BY <1>2, <1>8, <2>1, <2>2, UseType DEF Allow, trackerVars, TypeOK
  <2>3. CASE /\ Move(r, "allow", "done")
             /\ Use(r, Admitted(b))
             /\ ticket' = [ticket EXCEPT ![r] = b.generation]
             /\ UNCHANGED <<ref, outcome>>
    <3>1. GoodBreaker(Admitted(b))
      BY <1>0, <2>1, OperationsGood
    <3>2. /\ breakers' \in [Ids -> Breakers]
          /\ \A i \in Ids : breakers'[i].failures < breakers'[i].config.threshold
      BY <2>3, <3>1, UseType
    <3> QED
      BY <1>8, <2>1, <2>3, <3>2 DEF Allow, Move, trackerVars, TypeOK, GoodBreaker, Breakers
  <2> QED
    BY <1>8, <2>2, <2>3 DEF Allow
<1>9. ASSUME NEW r \in Reporters, Done(r) PROVE TypeOK'
  <2>1. GoodBreaker(Reported(Settled(breakers[ref[r]]), ticket[r], outcome[r]))
    BY <1>0, <1>a, ReportedGood DEF TypeOK
  <2>2. /\ breakers' \in [Ids -> Breakers]
        /\ \A i \in Ids : breakers'[i].failures < breakers'[i].config.threshold
    BY <1>9, <2>1, UseType DEF Done
  <2> QED
    BY <1>2, <1>9, <2>2 DEF Done, trackerVars, TypeOK
<1>10. CASE CheckLooksUp
  BY <1>10, <1>b DEF CheckLooksUp, Move, trackerVars, TypeOK, Ids
<1>11. CASE CheckReadsState
  <2> DEFINE b == Settled(breakers[ref[Checker]])
  <2>1. /\ breakers' \in [Ids -> Breakers]
        /\ \A i \in Ids : breakers'[i].failures < breakers'[i].config.threshold
    BY <1>11, <1>a, <1>b, UseType DEF CheckReadsState
  <2>2. CASE Leave(Checker, "routing")
    BY <1>2, <1>11, <1>b, <2>1, <2>2 DEF CheckReadsState, trackerVars, TypeOK
  <2>3. CASE Move(Checker, "routing", "sent") /\ UNCHANGED <<ref, outcome, ticket>>
    BY <1>11, <1>b, <2>1, <2>3 DEF CheckReadsState, Move, trackerVars, TypeOK
  <2> QED
    BY <1>11, <2>2, <2>3 DEF CheckReadsState
<1>12. CASE CheckSucceeds
  BY <1>12, <1>b DEF CheckSucceeds, Move, trackerVars, TypeOK
<1>13. CASE CheckFails
  BY <1>2, <1>13, <1>b DEF CheckFails, trackerVars, TypeOK
<1>14. CASE Reset
  BY <1>14 DEF Reset, reporterVars, TypeOK
<1>15. CASE Tick
  BY <1>15 DEF Tick, trackerVars, reporterVars, TypeOK
<1> QED
  BY <1>1, <1>3, <1>4, <1>5, <1>6, <1>7, <1>8, <1>9, <1>10, <1>11, <1>12, <1>13, <1>14, <1>15
     DEF Next, RequestStep, ReportStep, CheckerStep

\* Every variable keeps its type, and no closed circuit has reached its threshold,
\* for every configuration.
THEOREM TypeCorrect == Spec => []TypeOK
BY InitTypeOK, StepTypeOK, PTL DEF Spec

------------------------------------------------------------------------------
(* The slots of a half-open circuit. *)

Accounted(i) ==
    breakers[i].state = "halfopen" =>
        /\ breakers[i].requests = breakers[i].successes + Cardinality(Pending(i))
        /\ breakers[i].successes < breakers[i].config.probes

\* What the account needs besides: a report that is under way carries the number
\* of a generation that has existed, and the circuit it has looked up has been
\* created, so no generation begins with reports already pending in it.
TicketOK(r) ==
    /\ pc[r] = "done" => ticket[r] <= breakers[ref[r]].generation
    /\ pc[r] \in {"routing", "allow", "done"} => ref[r] <= created

Inv == (\A i \in Ids : Accounted(i)) /\ (\A r \in Reporters : TicketOK(r))

\* The set of pending reports is finite, so that it can be counted.
LEMMA PendingFinite == \A i \in Ids : IsFiniteSet(Pending(i))
<1>1. IsFiniteSet(Reporters)
  BY FS_Singleton, FS_Union, CircuitBreakerAssumption DEF Reporters
<1> QED
  BY <1>1, FS_Subset DEF Pending

\* A new tracker has no half-open circuit and no report under way.
LEMMA InitInv == Init => Inv
<1> SUFFICES ASSUME Init PROVE Inv
  OBVIOUS
<1>1. \A i \in Ids : breakers[i].state = "closed"
  BY DEF Init, NewBreaker
<1> QED
  BY <1>1 DEF Init, Inv, Accounted, TicketOK

\* A circuit that no step touches, and whose pending reports stay, keeps its account.
LEMMA UntouchedAccounted ==
    ASSUME NEW i \in Ids, Accounted(i), breakers'[i] = breakers[i], Pending(i)' = Pending(i)
    PROVE  Accounted(i)'
BY DEF Accounted

\* The account of the circuit that is used, when a reporter reads its state, or is
\* refused or dropped: a generation that has just begun has nothing pending.
LEMMA SettledAccounted ==
    ASSUME TypeOK, Inv, NEW r \in Reporters, NEW k \in Ids, k = ref[r],
           breakers'[k] = Settled(breakers[k]),
           \A q \in Reporters \ {r} : pc'[q] = pc[q] /\ ref'[q] = ref[q] /\ ticket'[q] = ticket[q],
           pc'[r] # "done",
           pc[r] = "done" => ticket[r] # Settled(breakers[k]).generation
    PROVE  Accounted(k)'
<1>1. breakers[k] \in Breakers /\ now \in Nat
  BY DEF TypeOK
<1>2. CASE breakers'[k] = breakers[k]
  <2>1. Pending(k)' = Pending(k)
    BY <1>2 DEF Pending
  <2> QED
    BY <1>2, <2>1, UntouchedAccounted DEF Inv
<1>3. CASE breakers'[k] = Entered(breakers[k], "halfopen")
  <2>1. /\ breakers'[k].generation = breakers[k].generation + 1
        /\ breakers'[k].requests = 0 /\ breakers'[k].successes = 0
        /\ breakers'[k].config = breakers[k].config
    BY <1>1, <1>3, EnteredGood DEF States
  <2>2. Pending(k)' = {}
    <3> SUFFICES ASSUME NEW q \in Reporters, pc'[q] = "done", ref'[q] = k,
                        ticket'[q] = breakers'[k].generation
                 PROVE  FALSE
      BY DEF Pending
    <3>1. q # r
      OBVIOUS
    <3>2. pc[q] = "done" /\ ref[q] = k /\ ticket[q] = breakers[k].generation + 1
      BY <2>1, <3>1
    <3>3. ticket[q] <= breakers[k].generation
      BY <3>2 DEF Inv, TicketOK
    <3> QED
      BY <1>1, <3>2, <3>3 DEF Breakers
  <2>3. Cardinality({}) = 0
    BY FS_EmptySet
  <2>4. 0 < breakers[k].config.probes
    BY <1>1, CircuitBreakerAssumption DEF Breakers
  <2> QED
    BY <2>1, <2>2, <2>3, <2>4 DEF Accounted
<1> QED
  BY <1>2, <1>3 DEF Settled

\* A circuit that a step of r does not use.
LEMMA OthersAccounted ==
    ASSUME TypeOK, Inv, NEW r \in Reporters, NEW i \in Ids, breakers'[i] = breakers[i],
           \A q \in Reporters \ {r} : pc'[q] = pc[q] /\ ref'[q] = ref[q] /\ ticket'[q] = ticket[q],
           pc[r] = "done" => ref[r] # i,
           pc'[r] = "done" => ref'[r] # i
    PROVE  Accounted(i)'
<1>1. Pending(i)' = Pending(i)
  BY DEF Pending
<1> QED
  BY <1>1, UntouchedAccounted DEF Inv

\* A step of a reporter leaves the locals of the others alone.
LEMMA OthersKeep ==
    ASSUME TypeOK, NEW r \in Reporters,
           \/ Leave(r, "routing") \/ Leave(r, "sent") \/ Leave(r, "allow") \/ Leave(r, "done")
    PROVE  /\ \A q \in Reporters \ {r} :
                 pc'[q] = pc[q] /\ ref'[q] = ref[q] /\ ticket'[q] = ticket[q]
           /\ pc'[r] = "idle"
BY DEF Leave, Move, TypeOK

\* Settling never goes back to an earlier generation.
LEMMA SettledLater ==
    ASSUME NEW b \in Breakers, now \in Nat
    PROVE  Settled(b).generation >= b.generation
BY EnteredGood DEF Settled, States, Breakers

\* Neither does an outcome.
LEMMA ReportedLater ==
    ASSUME NEW b \in Breakers, now \in Nat, NEW gen, NEW result \in {"success", "failure"}
    PROVE  Reported(b, gen, result).generation >= b.generation
<1>1. \A s \in States : Entered(b, s).generation >= b.generation
  BY EnteredGood DEF Breakers
<1>2. OnSuccess(b).generation >= b.generation
  BY <1>1 DEF OnSuccess, States, Breakers
<1>3. OnFailure(b).generation >= b.generation
  BY <1>1 DEF OnFailure, States, Breakers
<1> QED
  BY <1>2, <1>3 DEF Reported, Breakers

\* The types are kept, and no report that is under way belongs to a circuit that
\* the next lookup would create.
LEMMA OthersTickets ==
    ASSUME TypeOK, Inv, NEW r \in Reporters,
           \A q \in Reporters \ {r} : pc'[q] = pc[q] /\ ref'[q] = ref[q] /\ ticket'[q] = ticket[q],
           created' >= created,
           created' \in Nat,
           \A i \in Ids : /\ breakers'[i].generation \in Nat
                          /\ i <= created => breakers'[i].generation >= breakers[i].generation
    PROVE  \A q \in Reporters \ {r} : TicketOK(q)'
<1> SUFFICES ASSUME NEW q \in Reporters \ {r} PROVE TicketOK(q)'
  OBVIOUS
<1>1. pc'[q] = pc[q] /\ ref'[q] = ref[q] /\ ticket'[q] = ticket[q] /\ TicketOK(q)
  BY DEF Inv
<1>2. ref[q] \in Ids /\ ticket[q] \in Nat /\ created \in Nat /\ ref[q] \in Nat
  BY CircuitBreakerAssumption DEF TypeOK, Ids
<1>3. breakers[ref[q]].generation \in Nat
  BY <1>2 DEF TypeOK, Breakers
<1> QED
  BY <1>1, <1>2, <1>3 DEF TicketOK

\* A step of r that uses no circuit and is not about to report.
LEMMA KeptInv ==
    ASSUME TypeOK, Inv, NEW r \in Reporters,
           \A q \in Reporters \ {r} : pc'[q] = pc[q] /\ ref'[q] = ref[q] /\ ticket'[q] = ticket[q],
           UNCHANGED <<breakers, created>>,
           pc[r] # "done", pc'[r] # "done",
           pc'[r] \in {"routing", "allow"} => ref'[r] <= created
    PROVE  Inv'
<1>1. \A i \in Ids : Accounted(i)'
  BY OthersAccounted
<1>2. \A q \in Reporters \ {r} : TicketOK(q)'
  BY OthersTickets DEF TypeOK, Breakers
<1>3. TicketOK(r)'
  BY DEF TicketOK
<1> QED
  BY <1>1, <1>2, <1>3 DEF Inv

\* A step of r that only reads the state of its circuit, or is refused by it.
LEMMA ReadInv ==
    ASSUME TypeOK, Inv, NEW r \in Reporters, Use(r, Settled(breakers[ref[r]])),
           \A q \in Reporters \ {r} : pc'[q] = pc[q] /\ ref'[q] = ref[q] /\ ticket'[q] = ticket[q],
           created' = created,
           pc[r] # "done", pc'[r] \notin {"routing", "allow", "done"}
    PROVE  Inv'
<1> PICK k \in Ids : k = ref[r]
  BY DEF TypeOK
<1>1. breakers[k] \in Breakers /\ now \in Nat /\ created \in Nat
  BY DEF TypeOK
<1>2. /\ breakers'[k] = Settled(breakers[k])
      /\ \A i \in Ids \ {k} : breakers'[i] = breakers[i]
  BY <1>1 DEF Use, TypeOK
<1>3. Settled(breakers[k]).generation \in Nat
  BY <1>1, OperationsGood DEF TypeOK, GoodBreaker, Breakers
<1>4. Accounted(k)'
  BY <1>1, <1>2, SettledAccounted
<1>5. \A i \in Ids \ {k} : Accounted(i)'
  BY <1>2, OthersAccounted
<1>6. \A i \in Ids : /\ breakers'[i].generation \in Nat
                     /\ breakers'[i].generation >= breakers[i].generation
  BY <1>1, <1>2, <1>3, SettledLater DEF TypeOK, Breakers
<1>7. \A q \in Reporters \ {r} : TicketOK(q)'
  BY <1>1, <1>6, OthersTickets
<1>8. TicketOK(r)'
  BY DEF TicketOK
<1> QED
  BY <1>4, <1>5, <1>7, <1>8 DEF Inv

\* A lookup: a circuit that is created begins closed, and nobody reports to it yet.
LEMMA LookupInv ==
    ASSUME TypeOK, Inv, NEW r \in Reporters, GetOrCreateCircuit(r),
           \A q \in Reporters \ {r} : pc'[q] = pc[q] /\ ticket'[q] = ticket[q],
           pc[r] # "done", pc'[r] # "done"
    PROVE  Inv'
<1>1. \A q \in Reporters \ {r} : ref'[q] = ref[q]
  BY DEF GetOrCreateCircuit, TypeOK
<1>2. created \in Nat /\ current \in {0, created}
  BY DEF TypeOK
<1>3. CASE /\ current # 0
           /\ ref' = [ref EXCEPT ![r] = current]
           /\ UNCHANGED <<current, created, breakers>>
  <2>1. ref'[r] <= created
    BY <1>2, <1>3 DEF TypeOK
  <2> QED
    BY <1>1, <1>3, <2>1, KeptInv
<1>4. CASE /\ current = 0
           /\ created < MaxBreakers
           /\ created' = created + 1
           /\ current' = created + 1
           /\ breakers' = [breakers EXCEPT ![created + 1] = NewBreaker(config)]
           /\ ref' = [ref EXCEPT ![r] = created + 1]
  <2>1. PICK n \in Ids : n = created + 1
    BY <1>2, <1>4, CircuitBreakerAssumption DEF Ids
  <2>2. breakers'[n].state = "closed" /\ breakers'[n].generation = 1
    BY <1>4, <2>1 DEF TypeOK, NewBreaker
  <2>3. \A i \in Ids \ {n} : breakers'[i] = breakers[i]
    BY <1>4, <2>1 DEF TypeOK
  <2>4. Accounted(n)'
    BY <2>2 DEF Accounted
  <2>5. \A i \in Ids \ {n} : Accounted(i)'
    BY <1>1, <2>3, OthersAccounted
  <2>6. \A i \in Ids : /\ breakers'[i].generation \in Nat
                       /\ i <= created => breakers'[i].generation >= breakers[i].generation
    <3>1. \A i \in Ids : breakers[i].generation \in Nat /\ i \in Nat
      <4>1. ASSUME NEW i \in Ids PROVE breakers[i] \in Breakers
        BY <4>1 DEF TypeOK
      <4>2. \A b \in Breakers : b.generation \in Nat
        BY DEF Breakers
      <4>3. \A i \in Ids : i \in Nat
        BY CircuitBreakerAssumption DEF Ids
      <4> QED
        BY <4>1, <4>2, <4>3
    <3>2. \A i \in Ids \ {n} : /\ breakers'[i].generation \in Nat
                               /\ breakers'[i].generation >= breakers[i].generation
      BY <2>3, <3>1
    <3> QED
      BY <1>2, <2>1, <2>2, <3>2
  <2>7. \A q \in Reporters \ {r} : TicketOK(q)'
    BY <1>1, <1>2, <1>4, <2>6, OthersTickets
  <2>8. ref'[r] = n
    BY <1>4, <2>1 DEF TypeOK
  <2>9. TicketOK(r)'
    BY <1>2, <1>4, <2>1, <2>8 DEF TicketOK
  <2> QED
    BY <2>4, <2>5, <2>7, <2>9 DEF Inv
<1> QED
  BY <1>3, <1>4 DEF GetOrCreateCircuit

\* A report that is let through: while half-open it takes a slot and is pending.
LEMMA AdmittedInv ==
    ASSUME TypeOK, Inv, NEW r \in Reporters, Use(r, Admitted(Settled(breakers[ref[r]]))),
           \A q \in Reporters \ {r} : pc'[q] = pc[q] /\ ref'[q] = ref[q] /\ ticket'[q] = ticket[q],
           created' = created, ref'[r] = ref[r],
           pc[r] = "allow", pc'[r] = "done",
           ticket'[r] = Settled(breakers[ref[r]]).generation
    PROVE  Inv'
<1> PICK k \in Ids : k = ref[r]
  BY DEF TypeOK
<1> DEFINE b == Settled(breakers[k])
<1>1. GoodBreaker(breakers[k]) /\ breakers[k] \in Breakers /\ now \in Nat /\ created \in Nat
  BY DEF TypeOK, GoodBreaker
<1>2. GoodBreaker(b) /\ b \in Breakers /\ GoodBreaker(Admitted(b))
  BY <1>1, OperationsGood DEF GoodBreaker
<1>3. /\ breakers'[k] = Admitted(b)
      /\ \A i \in Ids \ {k} : breakers'[i] = breakers[i]
  BY <1>1 DEF Use, TypeOK
<1>4. /\ Admitted(b).state = b.state /\ Admitted(b).generation = b.generation
      /\ Admitted(b).config = b.config /\ Admitted(b).successes = b.successes
      /\ b.state = "halfopen" => Admitted(b).requests = b.requests + 1
  BY <1>2 DEF Admitted, Breakers
<1>5. \A i \in Ids \ {k} : Accounted(i)'
  BY <1>3, OthersAccounted
<1>6. Accounted(k)'
  <2> SUFFICES ASSUME b.state = "halfopen"
               PROVE  /\ breakers'[k].requests
                           = breakers'[k].successes + Cardinality(Pending(k)')
                      /\ breakers'[k].successes < breakers'[k].config.probes
    BY <1>3, <1>4 DEF Accounted
  <2> DEFINE P == {q \in Reporters \ {r} : pc[q] = "done" /\ ref[q] = k
                                            /\ ticket[q] = b.generation}
  <2>1. Pending(k)' = P \cup {r}
    BY <1>3, <1>4 DEF Pending
  <2>2. IsFiniteSet(P)
    <3>1. IsFiniteSet(Reporters)
      BY FS_Singleton, FS_Union, CircuitBreakerAssumption DEF Reporters
    <3> QED
      BY <3>1, FS_Subset
  <2>3. Cardinality(P \cup {r}) = Cardinality(P) + 1
    BY <2>2, FS_AddElement
  <2>4. b.requests = b.successes + Cardinality(P) /\ b.successes < b.config.probes
    <3>1. CASE b = breakers[k]
      <4>1. P = Pending(k)
        BY <3>1 DEF Pending
      <4> QED
        BY <3>1, <4>1 DEF Inv, Accounted
    <3>2. CASE b = Entered(breakers[k], "halfopen")
      <4>1. /\ b.generation = breakers[k].generation + 1 /\ b.requests = 0
            /\ b.successes = 0 /\ b.config = breakers[k].config
        BY <1>1, <3>2, EnteredGood DEF States
      <4>2. P = {}
        <5>1. breakers[k].generation \in Nat
          BY <1>1 DEF Breakers
        <5>2. \A q \in Reporters : pc[q] = "done" /\ ref[q] = k
                                    => ticket[q] <= breakers[k].generation
          BY DEF Inv, TicketOK
        <5>3. \A q \in Reporters : ticket[q] \in Nat
          BY DEF TypeOK
        <5> QED
          BY <4>1, <5>1, <5>2, <5>3
      <4>3. 0 < breakers[k].config.probes
        BY <1>1, CircuitBreakerAssumption DEF Breakers
      <4>4. Cardinality(P) = 0
        BY <4>2, FS_EmptySet
      <4>5. b.requests = b.successes + Cardinality(P)
        BY <4>1, <4>4
      <4>6. b.successes < b.config.probes
        BY <4>1, <4>3
      <4> QED
        BY <4>5, <4>6
    <3> QED
      BY <3>1, <3>2 DEF Settled
  <2>5. Cardinality(P) \in Nat /\ b.requests \in Nat /\ b.successes \in Nat
    <3>1. Cardinality(P) \in Nat
      BY <2>2, FS_CardinalityType
    <3> QED
      BY <1>2, <3>1 DEF Breakers
  <2>6. breakers'[k].requests = b.requests + 1 /\ breakers'[k].successes = b.successes
        /\ breakers'[k].config = b.config
    BY <1>3, <1>4
  <2> HIDE DEF b, P
  <2> QED
    BY <2>1, <2>3, <2>4, <2>5, <2>6
<1>7. \A i \in Ids : /\ breakers'[i].generation \in Nat
                     /\ breakers'[i].generation >= breakers[i].generation
  BY <1>1, <1>2, <1>3, <1>4, SettledLater DEF TypeOK, Breakers
<1>8. \A q \in Reporters \ {r} : TicketOK(q)'
  BY <1>1, <1>7, OthersTickets
<1>9. TicketOK(r)'
  <2>1. ref[r] <= created
    BY DEF Inv, TicketOK
  <2> QED
    BY <1>2, <1>3, <1>4, <2>1 DEF TicketOK, Breakers
<1> QED
  BY <1>5, <1>6, <1>8, <1>9 DEF Inv

\* An outcome is told: its slot is a success now, or the half-open period is over,
\* or it comes from an earlier generation and is dropped.
LEMMA DoneInv ==
    ASSUME TypeOK, Inv, NEW r \in Reporters,
           Use(r, Reported(Settled(breakers[ref[r]]), ticket[r], outcome[r])),
           \A q \in Reporters \ {r} : pc'[q] = pc[q] /\ ref'[q] = ref[q] /\ ticket'[q] = ticket[q],
           created' = created, pc[r] = "done", pc'[r] = "idle"
    PROVE  Inv'
<1> PICK k \in Ids : k = ref[r]
  BY DEF TypeOK
<1> DEFINE b == Settled(breakers[k])
           c == Reported(b, ticket[r], outcome[r])
<1>1. GoodBreaker(breakers[k]) /\ breakers[k] \in Breakers /\ now \in Nat /\ created \in Nat
      /\ outcome[r] \in {"success", "failure"}
  BY DEF TypeOK, GoodBreaker
<1>2. GoodBreaker(b) /\ b \in Breakers /\ GoodBreaker(c) /\ c \in Breakers
  BY <1>1, OperationsGood, ReportedGood DEF GoodBreaker
<1>3. breakers'[k] = c /\ \A i \in Ids \ {k} : breakers'[i] = breakers[i]
  BY <1>1 DEF Use, TypeOK
<1>4. \A i \in Ids \ {k} : Accounted(i)'
  BY <1>3, OthersAccounted
<1>5. Accounted(k)'
  <2>1. CASE ticket[r] # b.generation
    <3>1. c = b
      BY <2>1 DEF Reported
    <3> QED
      BY <1>3, <2>1, <3>1, SettledAccounted
  <2>2. CASE ticket[r] = b.generation
    <3>1. b = breakers[k]
      <4>1. ticket[r] <= breakers[k].generation
        BY DEF Inv, TicketOK
      <4>2. Entered(breakers[k], "halfopen").generation = breakers[k].generation + 1
        BY <1>1, EnteredGood DEF States
      <4> QED
        BY <1>1, <2>2, <4>1, <4>2 DEF Settled, Breakers
    <3>2. c = IF outcome[r] = "success" THEN OnSuccess(b) ELSE OnFailure(b)
      BY <1>1, <2>2 DEF Reported
    <3>3. \A s \in States : Entered(b, s).state = s
      BY <1>1, <1>2, EnteredGood
    <3>4. CASE b.state # "halfopen"
      <4>1. c.state # "halfopen"
        BY <1>2, <3>2, <3>3, <3>4 DEF OnSuccess, OnFailure, States, Breakers
      <4> QED
        BY <1>3, <4>1 DEF Accounted
    <3>5. CASE /\ b.state = "halfopen" /\ outcome[r] = "success"
               /\ b.successes + 1 < b.config.probes
      <4>1. c = [b EXCEPT !.successes = @ + 1]
        BY <1>2, <3>2, <3>5, CircuitBreakerAssumption DEF OnSuccess, Breakers
      <4>2. /\ c.requests = b.requests /\ c.successes = b.successes + 1
            /\ c.config = b.config /\ c.generation = b.generation
        BY <1>2, <4>1 DEF Breakers
      <4>3. r \in Pending(k) /\ Pending(k)' = Pending(k) \ {r}
        BY <1>3, <2>2, <3>1, <4>2 DEF Pending
      <4>4. Cardinality(Pending(k) \ {r}) = Cardinality(Pending(k)) - 1
        BY <4>3, PendingFinite, FS_RemoveElement
      <4>5. b.requests = b.successes + Cardinality(Pending(k))
        BY <3>1, <3>5 DEF Inv, Accounted
      <4>6. Cardinality(Pending(k)) \in Nat
        BY PendingFinite, FS_CardinalityType
      <4>7. b.successes \in Nat
        BY <1>2 DEF Breakers
      <4> QED
        BY <1>3, <3>5, <4>2, <4>3, <4>4, <4>5, <4>6, <4>7 DEF Accounted
    <3>6. CASE /\ b.state = "halfopen"
               /\ outcome[r] = "success" => ~(b.successes + 1 < b.config.probes)
      <4>1. b.successes \in Nat /\ b.config.probes \in Nat
        BY <1>2, CircuitBreakerAssumption DEF Breakers
      <4>2. c.state # "halfopen"
        <5>1. c \in {Entered(b, "closed"), Entered(b, "open")}
          BY <3>2, <3>6, <4>1 DEF OnSuccess, OnFailure
        <5> QED
          BY <3>3, <5>1 DEF States
      <4> QED
        BY <1>3, <4>2 DEF Accounted
    <3> QED
      BY <3>4, <3>5, <3>6
  <2> QED
    BY <2>1, <2>2
<1>6. \A i \in Ids : /\ breakers'[i].generation \in Nat
                     /\ breakers'[i].generation >= breakers[i].generation
  <2>1. c.generation >= b.generation /\ b.generation >= breakers[k].generation
    BY <1>1, <1>2, ReportedLater, SettledLater
  <2>2. c.generation \in Nat /\ b.generation \in Nat
        /\ \A i \in Ids : breakers[i].generation \in Nat
    BY <1>2 DEF TypeOK, Breakers
  <2>3. c.generation >= breakers[k].generation
    BY <2>1, <2>2
  <2> QED
    BY <1>3, <2>2, <2>3
<1>7. \A q \in Reporters \ {r} : TicketOK(q)'
  BY <1>1, <1>6, OthersTickets
<1>8. TicketOK(r)'
  BY DEF TicketOK
<1> QED
  BY <1>4, <1>5, <1>7, <1>8 DEF Inv

\* Every step keeps the account of every circuit.
LEMMA StepInv == TypeOK /\ Inv /\ [Next]_vars => Inv'
<1> SUFFICES ASSUME TypeOK, Inv, [Next]_vars PROVE Inv'
  OBVIOUS
<1>0. Requests \subseteq Reporters /\ Checker \in Reporters
  BY DEF Reporters
<1>1. CASE UNCHANGED <<breakers, created, pc, ref, ticket>>
  BY <1>1 DEF Inv, Accounted, TicketOK, Pending
<1>2. ASSUME NEW r \in Reporters, Route(r) \/ Record(r) PROVE Inv'
  BY <1>2, LookupInv DEF Route, Record, Move, TypeOK
<1>3. ASSUME NEW r \in Requests, IsHealthy(r) PROVE Inv'
  <2>1. \A q \in Reporters \ {r} : pc'[q] = pc[q] /\ ref'[q] = ref[q] /\ ticket'[q] = ticket[q]
    BY <1>0, <1>3 DEF IsHealthy, Leave, Move, TypeOK
  <2>2. pc[r] = "routing" /\ pc'[r] \in {"idle", "sent"}
    BY <1>0, <1>3 DEF IsHealthy, Leave, Move, TypeOK
  <2>3. created' = created /\ Use(r, Settled(breakers[ref[r]]))
    BY <1>3 DEF IsHealthy, trackerVars
  <2> QED
    BY <1>0, <2>1, <2>2, <2>3, ReadInv
<1>4. ASSUME NEW r \in Requests, Answer(r) \/ AnswerSkipped(r) \/ TransportError(r) PROVE Inv'
  <2>1. \A q \in Reporters \ {r} : pc'[q] = pc[q] /\ ref'[q] = ref[q] /\ ticket'[q] = ticket[q]
    BY <1>0, <1>4 DEF Answer, AnswerSkipped, TransportError, Leave, Move, TypeOK
  <2>2. pc[r] = "sent" /\ pc'[r] \in {"idle", "report"} /\ UNCHANGED <<breakers, created>>
    BY <1>0, <1>4 DEF Answer, AnswerSkipped, TransportError, Leave, Move, TypeOK, trackerVars
  <2> QED
    BY <1>0, <2>1, <2>2, KeptInv
<1>5. ASSUME NEW r \in Reporters, Allow(r) PROVE Inv'
  <2> DEFINE b == Settled(breakers[ref[r]])
  <2>1. CASE Leave(r, "allow") /\ Use(r, b)
    <3>1. pc[r] = "allow" /\ pc'[r] = "idle" /\ created' = created
      BY <1>5, <2>1 DEF Allow, Leave, Move, TypeOK, trackerVars
    <3> QED
      BY <2>1, <3>1, OthersKeep, ReadInv
  <2>2. CASE /\ Move(r, "allow", "done")
             /\ Use(r, Admitted(b))
             /\ ticket' = [ticket EXCEPT ![r] = b.generation]
             /\ UNCHANGED <<ref, outcome>>
    <3>1. \A q \in Reporters \ {r} : pc'[q] = pc[q] /\ ref'[q] = ref[q] /\ ticket'[q] = ticket[q]
      BY <2>2 DEF Move, TypeOK
    <3>2. /\ pc[r] = "allow" /\ pc'[r] = "done" /\ created' = created
          /\ ref'[r] = ref[r] /\ ticket'[r] = b.generation
      BY <1>5, <2>2 DEF Allow, Move, TypeOK, trackerVars
    <3> QED
      BY <2>2, <3>1, <3>2, AdmittedInv
  <2> QED
    BY <1>5, <2>1, <2>2 DEF Allow
<1>6. ASSUME NEW r \in Reporters, Done(r) PROVE Inv'
  <2>1. pc[r] = "done" /\ pc'[r] = "idle" /\ created' = created
    BY <1>6 DEF Done, Leave, Move, TypeOK, trackerVars
  <2> QED
    BY <1>6, <2>1, OthersKeep, DoneInv DEF Done
<1>7. CASE CheckLooksUp \/ CheckSucceeds \/ CheckFails
  <2>1. /\ \A q \in Reporters \ {Checker} :
               pc'[q] = pc[q] /\ ref'[q] = ref[q] /\ ticket'[q] = ticket[q]
        /\ pc[Checker] # "done" /\ pc'[Checker] \notin {"allow", "done"}
        /\ pc'[Checker] = "routing" => ref'[Checker] = current /\ current # 0
        /\ UNCHANGED <<breakers, created>>
    BY <1>0, <1>7 DEF CheckLooksUp, CheckSucceeds, CheckFails, Leave, Move, TypeOK, trackerVars
  <2>2. pc'[Checker] \in {"routing", "allow"} => ref'[Checker] <= created
    BY <2>1 DEF TypeOK
  <2> QED
    BY <1>0, <2>1, <2>2, KeptInv
<1>8. CASE CheckReadsState
  <2>1. \A q \in Reporters \ {Checker} :
            pc'[q] = pc[q] /\ ref'[q] = ref[q] /\ ticket'[q] = ticket[q]
    BY <1>0, <1>8 DEF CheckReadsState, Leave, Move, TypeOK
  <2>2. /\ pc[Checker] = "routing" /\ pc'[Checker] \in {"idle", "sent"} /\ created' = created
        /\ Use(Checker, Settled(breakers[ref[Checker]]))
    BY <1>0, <1>8 DEF CheckReadsState, Leave, Move, TypeOK, trackerVars
  <2> QED
    BY <1>0, <2>1, <2>2, ReadInv
<1>9. CASE Reset \/ Tick \/ UNCHANGED vars
  BY <1>1, <1>9 DEF Reset, Tick, vars, trackerVars, reporterVars
<1> QED
  BY <1>0, <1>2, <1>3, <1>4, <1>5, <1>6, <1>7, <1>8, <1>9
     DEF Next, RequestStep, ReportStep, CheckerStep

\* No slot of a half-open circuit is ever lost, for any number of concurrent reports,
\* any configuration and any number of reloads.
THEOREM HalfOpenAccountedHolds == Spec => []HalfOpenAccounted
<1>1. Inv => HalfOpenAccounted
  BY DEF Inv, Accounted, HalfOpenAccounted
<1> QED
  BY <1>1, InitInv, StepInv, TypeCorrect, PTL DEF Spec

------------------------------------------------------------------------------
(* The abstract breaker. *)

\* The circuit in use has the configuration in force, also after a reload.
ConfigKept == current # 0 => breakers[current].config = config

\* No operation of a circuit changes its configuration.
LEMMA OperationsKeepConfig ==
    ASSUME NEW b, GoodBreaker(b), now \in Nat, NEW gen, NEW result \in {"success", "failure"}
    PROVE  /\ Settled(b).config = b.config
           /\ Admitted(b).config = b.config
           /\ Reported(b, gen, result).config = b.config
<1>1. b \in Breakers /\ \A s \in States : Entered(b, s).config = b.config
  BY EnteredGood DEF GoodBreaker
<1>2. Settled(b).config = b.config
  BY <1>1 DEF Settled, States
<1>3. Admitted(b).config = b.config
  BY <1>1 DEF Admitted, Breakers
<1>4. OnSuccess(b).config = b.config
  BY <1>1 DEF OnSuccess, States, Breakers
<1>5. OnFailure(b).config = b.config
  BY <1>1 DEF OnFailure, States, Breakers
<1> QED
  BY <1>2, <1>3, <1>4, <1>5 DEF Reported

\* A step that uses a circuit changes nothing the router can see, unless the circuit
\* is the one in use.
LEMMA UseStep ==
    ASSUME TypeOK, NEW r \in Reporters, NEW b, Use(r, b), current' = current, config' = config
    PROVE  \/ Current' = Current /\ (ConfigKept => ConfigKept')
           \/ current # 0 /\ Current = breakers[ref[r]] /\ Current' = b
<1>1. current \in Ids \cup {0}
  BY DEF TypeOK, Ids
<1>2. CASE current # 0 /\ ref[r] = current
  BY <1>1, <1>2 DEF Use, TypeOK, Current
<1>3. CASE current # 0 /\ ref[r] # current
  BY <1>1, <1>3 DEF Use, TypeOK, Current, ConfigKept
<1>4. CASE current = 0
  BY <1>4 DEF Current, ConfigKept
<1> QED
  BY <1>2, <1>3, <1>4

\* What a step that uses the circuit in use is, seen from the abstract breaker.
AbstractStep ==
    /\ [Abstract!Next]_Abstract!vars
    /\ ConfigKept'

\* Steps that change nothing the router can see.
LEMMA Invisible ==
    ASSUME Current' = Current, UNCHANGED <<now, config>>
    PROVE  [Abstract!Next]_Abstract!vars
BY DEF Abstract!vars

\* Reading the state lets the open period end, nothing else.
LEMMA SettledStep ==
    ASSUME TypeOK, ConfigKept, current # 0, UNCHANGED <<now, config, current>>,
           Current' \in Breakers,
           Current'.config = Settled(Current).config,
           Current'.state = Settled(Current).state,
           Current'.failures = Settled(Current).failures,
           Current'.successes = Settled(Current).successes,
           Current'.until = Settled(Current).until
    PROVE  AbstractStep
<1>1. Current = breakers[current] /\ Current \in Breakers /\ now \in Nat
  BY CircuitBreakerAssumption DEF Current, TypeOK, Ids
<1>2. Current' = breakers'[current']
  BY DEF Current
<1>3. CASE Settled(Current) = Current
  BY <1>1, <1>2, <1>3 DEF ConfigKept, AbstractStep, Abstract!vars
<1>4. CASE /\ Current.state = "open" /\ Current.until < now
           /\ Settled(Current) = Entered(Current, "halfopen")
  <2>1. /\ Current'.config = Current.config /\ Current'.state = "halfopen"
        /\ Current'.failures = 0 /\ Current'.successes = 0 /\ Current'.until = 0
    BY <1>1, <1>4, EnteredGood DEF States
  <2>2. now > Current.until
    BY <1>1, <1>4 DEF Breakers
  <2>3. Abstract!Recover
    BY <1>4, <2>1, <2>2 DEF Abstract!Recover, Abstract!Enter
  <2> QED
    BY <1>1, <1>2, <2>1, <2>3 DEF ConfigKept, AbstractStep, Abstract!Next
<1> QED
  BY <1>3, <1>4 DEF Settled

\* An outcome is one step of the abstract breaker: one that ends the open period as
\* well would be two, but then the outcome is of an earlier generation and dropped.
LEMMA OutcomeStep ==
    ASSUME TypeOK, Inv, ConfigKept, NEW r \in Reporters, pc[r] = "done", current # 0,
           UNCHANGED <<now, config, current>>,
           Current = breakers[ref[r]],
           Current' = Reported(Settled(Current), ticket[r], outcome[r])
    PROVE  AbstractStep
<1> DEFINE b == Current
           c == Reported(Settled(b), ticket[r], outcome[r])
<1>1. /\ b = breakers[current] /\ b \in Breakers /\ GoodBreaker(b) /\ now \in Nat
      /\ b.config = config /\ outcome[r] \in {"success", "failure"} /\ current \in Ids
  BY CircuitBreakerAssumption DEF Current, TypeOK, Ids, GoodBreaker, ConfigKept
<1>2. GoodBreaker(Settled(b)) /\ GoodBreaker(c)
  BY <1>1, OperationsGood, ReportedGood
<1>3. c.config = config /\ ConfigKept'
  <2>1. c.config = config
    BY <1>1, <1>2, OperationsKeepConfig
  <2> QED
    BY <2>1 DEF Current, ConfigKept
<1>4. CASE ticket[r] # Settled(b).generation
  <2>1. c = Settled(b)
    BY <1>4 DEF Reported
  <2> QED
    BY <1>2, <2>1, SettledStep DEF GoodBreaker
<1>5. CASE ticket[r] = Settled(b).generation
  <2>1. Settled(b) = b
    <3>1. ticket[r] <= b.generation
      BY DEF Inv, TicketOK
    <3>2. Entered(b, "halfopen").generation = b.generation + 1
      BY <1>1, EnteredGood DEF States
    <3> QED
      BY <1>1, <1>5, <3>1, <3>2 DEF Settled, Breakers
  <2>2. c = IF outcome[r] = "success" THEN OnSuccess(b) ELSE OnFailure(b)
    BY <1>1, <1>5, <2>1 DEF Reported
  <2>3. /\ config.threshold \in Nat /\ config.probes \in Nat /\ b.failures \in Nat
        /\ b.successes \in Nat /\ b.state \in States
    BY <1>1, CircuitBreakerAssumption DEF Breakers, TypeOK
  <2>4. \A s \in States : /\ Entered(b, s).state = s
                          /\ Entered(b, s).failures = 0 /\ Entered(b, s).successes = 0
                          /\ Entered(b, s).until
                                = IF s = "open" THEN now + config.duration ELSE 0
    BY <1>1, EnteredGood
  <2> SUFFICES [Abstract!Next]_Abstract!vars
    BY <1>3 DEF AbstractStep
  <2>5. CASE outcome[r] = "success" /\ b.state = "closed"
    <3>1. c = [b EXCEPT !.failures = 0]
      BY <2>2, <2>5 DEF OnSuccess
    <3>2. /\ c.state = b.state /\ c.failures = 0 /\ c.successes = b.successes
          /\ c.until = b.until
      BY <1>1, <3>1 DEF Breakers
    <3>3. Abstract!Forget
      BY <2>5, <3>2 DEF Abstract!Forget
    <3> QED
      BY <3>3 DEF Abstract!Next
  <2>6. CASE outcome[r] = "success" /\ b.state = "halfopen" /\ b.successes + 1 < config.probes
    <3>1. c = [b EXCEPT !.successes = @ + 1]
      BY <1>1, <2>2, <2>3, <2>6 DEF OnSuccess
    <3>2. /\ c.state = b.state /\ c.failures = b.failures /\ c.successes = b.successes + 1
          /\ c.until = b.until
      BY <1>1, <3>1 DEF Breakers
    <3>3. Abstract!CountSuccess
      BY <2>6, <3>2 DEF Abstract!CountSuccess
    <3> QED
      BY <3>3 DEF Abstract!Next
  <2>7. CASE outcome[r] = "success" /\ b.state = "halfopen" /\ b.successes + 1 >= config.probes
    <3>1. c = Entered(b, "closed")
      BY <1>1, <2>2, <2>3, <2>7 DEF OnSuccess
    <3>2. Abstract!Close
      BY <2>4, <2>7, <3>1 DEF Abstract!Close, Abstract!Enter, States
    <3> QED
      BY <3>2 DEF Abstract!Next
  <2>8. CASE outcome[r] = "failure" /\ b.state = "closed" /\ b.failures + 1 < config.threshold
    <3>1. c = [b EXCEPT !.failures = @ + 1]
      BY <1>1, <2>2, <2>3, <2>8 DEF OnFailure, ReadyToTrip
    <3>2. /\ c.state = b.state /\ c.failures = b.failures + 1 /\ c.successes = b.successes
          /\ c.until = b.until
      BY <1>1, <3>1 DEF Breakers
    <3>3. Abstract!CountFailure
      BY <2>8, <3>2 DEF Abstract!CountFailure
    <3> QED
      BY <3>3 DEF Abstract!Next
  <2>9. CASE /\ outcome[r] = "failure" /\ b.state # "open"
             /\ b.state = "closed" => b.failures + 1 >= config.threshold
    <3>1. c = Entered(b, "open")
      BY <1>1, <2>2, <2>3, <2>9 DEF OnFailure, ReadyToTrip, States
    <3>2. Abstract!Trip
      BY <2>4, <2>9, <3>1 DEF Abstract!Trip, Abstract!Enter, States
    <3> QED
      BY <3>2 DEF Abstract!Next
  <2>10. CASE b.state = "open"
    <3>1. c = b
      BY <1>1, <2>2, <2>10 DEF OnSuccess, OnFailure
    <3> QED
      BY <3>1, Invisible
  <2> QED
    BY <1>1, <2>3, <2>5, <2>6, <2>7, <2>8, <2>9, <2>10 DEF States
<1> QED
  BY <1>4, <1>5

\* A lookup, also one that creates the circuit, changes nothing the router can see.
LEMMA LookupStep ==
    ASSUME TypeOK, ConfigKept, NEW r \in Reporters, GetOrCreateCircuit(r),
           UNCHANGED <<now, config>>
    PROVE  AbstractStep
<1>1. CASE UNCHANGED <<current, breakers>>
  BY <1>1, Invisible DEF Current, ConfigKept, AbstractStep
<1>2. CASE /\ current = 0 /\ created < MaxBreakers /\ current' = created + 1
           /\ breakers' = [breakers EXCEPT ![created + 1] = NewBreaker(config)]
  <2>1. created + 1 \in Ids /\ created + 1 # 0
    BY <1>2, CircuitBreakerAssumption DEF TypeOK, Ids
  <2>2. breakers'[created + 1] = NewBreaker(config)
    BY <1>2, <2>1 DEF TypeOK
  <2>3. Current' = Current
    BY <1>2, <2>1, <2>2 DEF Current
  <2>4. NewBreaker(config).config = config
    BY DEF NewBreaker
  <2> QED
    BY <1>2, <2>2, <2>3, <2>4, Invisible DEF ConfigKept, AbstractStep
<1> QED
  BY <1>1, <1>2 DEF GetOrCreateCircuit

\* Every step is a step of the abstract breaker, or one it does not see.
LEMMA StepRefines == TypeOK /\ Inv /\ ConfigKept /\ [Next]_vars => AbstractStep
<1> SUFFICES ASSUME TypeOK, Inv, ConfigKept, [Next]_vars PROVE AbstractStep
  OBVIOUS
<1>0. Requests \subseteq Reporters /\ Checker \in Reporters
  BY DEF Reporters
<1>1. \A i \in Ids : GoodBreaker(breakers[i]) /\ now \in Nat
  BY DEF TypeOK, GoodBreaker
<1>2. CASE UNCHANGED <<now, config, current, breakers>>
  BY <1>2, Invisible DEF Current, ConfigKept, AbstractStep
<1>3. ASSUME NEW r \in Reporters, Route(r) \/ Record(r) PROVE AbstractStep
  BY <1>3, LookupStep DEF Route, Record
<1>4. ASSUME NEW r \in Reporters, UNCHANGED <<now, config, current>>,
             Use(r, Settled(breakers[ref[r]]))
      PROVE  AbstractStep
  <2>1. CASE Current' = Current /\ ConfigKept'
    BY <1>4, <2>1, Invisible DEF AbstractStep
  <2>2. CASE /\ current # 0 /\ Current = breakers[ref[r]]
             /\ Current' = Settled(breakers[ref[r]])
    <3>1. Settled(breakers[ref[r]]) \in Breakers
      BY <1>1, OperationsGood DEF TypeOK, GoodBreaker
    <3> QED
      BY <1>4, <2>2, <3>1, SettledStep
  <2> QED
    BY <1>4, <2>1, <2>2, UseStep
<1>5. ASSUME NEW r \in Reporters, UNCHANGED <<now, config, current>>,
             Use(r, Admitted(Settled(breakers[ref[r]])))
      PROVE  AbstractStep
  <2>1. CASE Current' = Current /\ ConfigKept'
    BY <1>5, <2>1, Invisible DEF AbstractStep
  <2>2. CASE /\ current # 0 /\ Current = breakers[ref[r]]
             /\ Current' = Admitted(Settled(breakers[ref[r]]))
    <3> DEFINE b == Settled(breakers[ref[r]])
    <3>1. GoodBreaker(b) /\ b \in Breakers /\ Admitted(b) \in Breakers
      BY <1>1, OperationsGood DEF TypeOK, GoodBreaker
    <3>2. /\ Admitted(b).config = b.config /\ Admitted(b).state = b.state
          /\ Admitted(b).failures = b.failures /\ Admitted(b).successes = b.successes
          /\ Admitted(b).until = b.until
      BY <3>1 DEF Admitted, Breakers
    <3> QED
      BY <1>5, <2>2, <3>1, <3>2, SettledStep
  <2> QED
    BY <1>5, <2>1, <2>2, UseStep
<1>6. ASSUME NEW r \in Reporters, Done(r) PROVE AbstractStep
  <2> DEFINE c == Reported(Settled(breakers[ref[r]]), ticket[r], outcome[r])
  <2>1. /\ pc[r] = "done" /\ Use(r, c) /\ UNCHANGED <<now, config, current>>
    BY <1>6 DEF Done, Leave, Move, trackerVars
  <2>2. CASE Current' = Current /\ ConfigKept'
    BY <2>1, <2>2, Invisible DEF AbstractStep
  <2>3. CASE current # 0 /\ Current = breakers[ref[r]] /\ Current' = c
    BY <2>1, <2>3, OutcomeStep
  <2> QED
    BY <2>1, <2>2, <2>3, UseStep
<1>7. CASE Reset
  <2>1. current' = 0 /\ config' \in Configs /\ now' = now
    BY <1>7 DEF Reset
  <2>2. Current' = NewBreaker(config')
    BY <2>1 DEF Current
  <2>3. Abstract!Reset
    BY <2>1, <2>2 DEF NewBreaker, Abstract!Reset, Abstract!Enter
  <2> QED
    BY <2>1, <2>3 DEF ConfigKept, AbstractStep, Abstract!Next
<1>8. CASE Tick
  <2>1. now' = now + 1 /\ UNCHANGED <<config, current, breakers>>
    BY <1>8 DEF Tick, trackerVars
  <2>2. Current' = Current
    BY <2>1 DEF Current
  <2> QED
    BY <2>1, <2>2 DEF ConfigKept, AbstractStep, Abstract!Next, Abstract!Tick
<1>9. ASSUME NEW r \in Requests, RequestStep(r) PROVE AbstractStep
  <2>1. CASE IsHealthy(r)
    BY <1>0, <1>4, <2>1 DEF IsHealthy, trackerVars
  <2>2. CASE Answer(r) \/ AnswerSkipped(r) \/ TransportError(r)
    BY <1>2, <2>2 DEF Answer, AnswerSkipped, TransportError, trackerVars
  <2> QED
    BY <1>0, <1>3, <1>9, <2>1, <2>2 DEF RequestStep
<1>10. ASSUME NEW r \in Reporters, ReportStep(r) PROVE AbstractStep
  <2>1. CASE Allow(r)
    BY <1>4, <1>5, <2>1 DEF Allow, trackerVars
  <2> QED
    BY <1>3, <1>6, <1>10, <2>1 DEF ReportStep
<1>11. CASE CheckerStep
  <2>1. CASE CheckReadsState
    BY <1>0, <1>4, <2>1 DEF CheckReadsState, trackerVars
  <2>2. CASE CheckLooksUp \/ CheckSucceeds \/ CheckFails
    BY <1>2, <2>2 DEF CheckLooksUp, CheckSucceeds, CheckFails, trackerVars
  <2> QED
    BY <1>11, <2>1, <2>2 DEF CheckerStep
<1>12. CASE UNCHANGED vars
  BY <1>2, <1>12 DEF vars, trackerVars
<1> QED
  BY <1>7, <1>8, <1>9, <1>10, <1>11, <1>12 DEF Next

\* The tracker implements the abstract breaker: with any number of concurrent reports,
\* with circuits created by whoever comes first and orphaned by a reload, the router
\* sees one breaker that trips, recovers and closes as the documentation says.
THEOREM ImplementsBreaker == Spec => BreakerSpec
<1>1. Init => Abstract!Init /\ ConfigKept
  BY DEF Init, ConfigKept, Current, NewBreaker, Abstract!Init
<1>2. TypeOK /\ Inv /\ ConfigKept /\ [Next]_vars
          => [Abstract!Next]_Abstract!vars /\ ConfigKept'
  BY StepRefines DEF AbstractStep
<1>3. Spec => [](TypeOK /\ Inv)
  BY TypeCorrect, InitInv, StepInv, PTL DEF Spec
<1> QED
  BY <1>1, <1>2, <1>3, PTL DEF Spec, BreakerSpec, Abstract!Spec

=============================================================================
