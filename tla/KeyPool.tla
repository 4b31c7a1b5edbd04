------------------------------- MODULE KeyPool -------------------------------
(***************************************************************************)
(* The pool of API keys of one provider (internal/keypool) with the token  *)
(* bucket of each key (internal/ratelimit), under concurrent requests.     *)
(*                                                                         *)
(* A request calls GetKey, which copies the list of keys under the pool's  *)
(* lock and then works on the copy without it: it selects a key, asks the  *)
(* key's limiter, and drops the key from the copy when the limiter says    *)
(* no.  Other requests, late responses and the clock run between any two   *)
(* of those steps.  The response of a request updates the key it used:     *)
(* UpdateKeyFromHeaders first, the cooldown decision in a later step.      *)
(*                                                                         *)
(* Time counts ticks from 1.  A minute is TicksPerMinute ticks and a       *)
(* bucket is counted in 1/TicksPerMinute of a request, so that a limit of  *)
(* L requests a minute refills L units a tick and a request costs          *)
(* TicksPerMinute units.                                                   *)
(***************************************************************************)
EXTENDS CooldownResolver, FiniteSets

CONSTANTS
    NumKeys,           \* number of configured keys
    Requests,          \* concurrent requests
    Strategy,          \* inner selection strategy of the pool
    CooldownStrategy,  \* resolver of the provider
    HeaderOwner,       \* TRUE for the owners whose headers update the key
    ConfigPriority,    \* configured priority of each key
    ConfigRPM,         \* configured requests per minute of each key
    ConfigTPM,         \* configured tokens per minute (input + output)
    HeaderSets,        \* rate limit headers a response may carry
    Responses,         \* responses an upstream may give
    UnlimitedRate,     \* 1_000_000 in the code
    TicksPerMinute,
    DefaultReset,      \* 60 s
    RotationPeriod,    \* bound: the rotation counter is kept modulo this
    MaxTime            \* bound on the clock

Keys == 1 .. NumKeys

Strategies == {"least_loaded", "round_robin", "random", "weighted"}

\* Rate limit headers of a response; NoHeader where one is absent or malformed.
Headers == [rpm: Nat \cup {NoHeader}, rpmRemaining: Nat \cup {NoHeader},
            tpm: Nat \cup {NoHeader}, tpmRemaining: Nat \cup {NoHeader},
            reset: Nat \cup {NoHeader}]

ASSUME KeyPoolAssumption ==
    /\ NumKeys \in Nat \ {0}
    /\ Strategy \in Strategies
    /\ CooldownStrategy \in CooldownStrategies
    /\ HeaderOwner \in BOOLEAN
    /\ ConfigPriority \in [Keys -> Nat]
    /\ ConfigRPM \in [Keys -> Nat]
    /\ ConfigTPM \in [Keys -> Nat]
    /\ HeaderSets \subseteq Headers
    /\ Responses \subseteq Response
    /\ UnlimitedRate \in Nat \ {0}
    /\ TicksPerMinute \in Nat \ {0}
    /\ DefaultReset \in Nat
    /\ RotationPeriod \in Nat \ {0}
    /\ MaxTime \in Nat \ {0}

\* A key configured with priority 0 keeps the default, 1.
Priority == [k \in Keys |-> IF ConfigPriority[k] > 0 THEN ConfigPriority[k] ELSE 1]

VARIABLES
    now,            \* the clock
    healthy,        \* KeyMetadata.Healthy
    cooldownUntil,  \* KeyMetadata.CooldownUntil, 0 when never set
    quota,          \* the limits and remaining counts learnt for each key
    resetAt,        \* KeyMetadata.RPMResetAt, 0 when never set
    bucket,         \* tokens of the request limiter of each key
    rotation,       \* RoundRobinSelector.index
    pc,             \* where each request is
    list,           \* GetKey's copy of the keys still to be tried
    attempt,        \* keys GetKey has tried
    chosen,         \* key selected for the request, 0 before
    response,       \* response whose decision is still to be applied
    retryAfter,     \* Retry-After of a request rejected with a 429
    usable,         \* history: keys usable ever since the call began
    epoch,          \* history: when each limiter was created
    spent           \* history: requests each limiter has let through

keyVars == <<healthy, cooldownUntil, quota, resetAt>>
callVars == <<list, attempt, chosen, response, retryAfter>>
vars == <<now, keyVars, bucket, rotation, pc, callVars, usable, epoch, spent>>

------------------------------------------------------------------------------
(* Keys and their limiters. *)

Available(k) == healthy[k] /\ now > cooldownUntil[k]

\* Limits of zero mean unlimited.
Burst(limit) == IF limit = 0 THEN UnlimitedRate ELSE limit

Capacity(limit) == Burst(limit) * TicksPerMinute

HasToken(k) == bucket[k] >= TicksPerMinute

UsableKeys == {k \in Keys : Available(k) /\ HasToken(k)}

\* GetCapacityScore of an available key, as numerator and denominator:
\* the sum of the two remaining/limit ratios, 1 where there is no limit.
Ratio(remaining, limit) ==
    IF limit = 0 THEN [num |-> 1, den |-> 1] ELSE [num |-> remaining, den |-> limit]

Score(k) ==
    LET r == Ratio(quota[k].rpmRemaining, quota[k].rpm)
        t == Ratio(quota[k].tpmRemaining, quota[k].tpm)
    IN  [num |-> r.num * t.den + t.num * r.den, den |-> r.den * t.den]

MoreCapacity(j, k) == Score(j).num * Score(k).den > Score(k).num * Score(j).den

------------------------------------------------------------------------------
(* Selectors.  Each returns the set of keys Select may return. *)

\* The first key with the highest score.
LeastLoaded(S) ==
    LET A == {k \in S : Available(k)}
    IN  {k \in A : \A j \in A \ {k} :
            ~MoreCapacity(j, k) /\ (j < k => MoreCapacity(k, j))}

\* The first available key from position index, in the order of the list.
RoundRobin(S, index) ==
    LET A == {k \in S : Available(k)}
        Position(k) == Cardinality({j \in S : j < k})
        Distance(k) == (Position(k) + Cardinality(S) - (index % Cardinality(S)))
                           % Cardinality(S)
    IN  {k \in A : \A j \in A : Distance(k) <= Distance(j)}

\* Weights are made positive before the draw: any available key may come out.
Drawn(S) == {k \in S : Available(k)}

Inner(S, index) ==
    CASE Strategy = "least_loaded" -> LeastLoaded(S)
      [] Strategy = "round_robin"  -> RoundRobin(S, index)
      [] OTHER                     -> Drawn(S)

Tier(S, level) == {k \in S : Priority[k] = level}

\* Mutant: tiers are visited from the lowest level up.
VisitedLevelsFromBelow(S) ==
    {level \in {Priority[k] : k \in S} :
        \A k \in S : Priority[k] < level => ~Available(k)}

\* Priority levels visited: from the top down to the first with an available key.
VisitedLevels(S) ==
    {level \in {Priority[k] : k \in S} :
        \A k \in S : Priority[k] > level => ~Available(k)}

\* The rotation counter has moved once for every tier tried before this one.
Select(S) ==
    LET index == rotation + Cardinality(VisitedLevels(S)) - 1
    IN  {k \in S : /\ Priority[k] \in VisitedLevels(S)
                   /\ k \in Inner(Tier(S, Priority[k]), index)}

Rotate(S) ==
    rotation' = IF Strategy = "round_robin"
                THEN (rotation + Cardinality(VisitedLevels(S))) % RotationPeriod
                ELSE rotation

------------------------------------------------------------------------------
(* GetKey. *)

Calling == {"select", "allow"}

Init ==
    /\ now = 1
    /\ healthy = [k \in Keys |-> TRUE]
    /\ cooldownUntil = [k \in Keys |-> 0]
    /\ quota = [k \in Keys |->
                  [rpm |-> ConfigRPM[k], rpmRemaining |-> ConfigRPM[k],
                   tpm |-> ConfigTPM[k], tpmRemaining |-> ConfigTPM[k]]]
    /\ resetAt = [k \in Keys |-> 0]
    /\ bucket = [k \in Keys |-> Capacity(ConfigRPM[k])]
    /\ rotation = 0
    /\ pc = [r \in Requests |-> "idle"]
    /\ list = [r \in Requests |-> {}]
    /\ attempt = [r \in Requests |-> 0]
    /\ chosen = [r \in Requests |-> 0]
    /\ response = [r \in Requests |-> {}]
    /\ retryAfter = [r \in Requests |-> 0]
    /\ usable = [r \in Requests |-> {}]
    /\ epoch = [k \in Keys |-> 1]
    /\ spent = [k \in Keys |-> 0]

\* The copy of the keys is taken under the pool's lock.
GetKey(r) ==
    /\ pc[r] = "idle"
    /\ pc' = [pc EXCEPT ![r] = "select"]
    /\ list' = [list EXCEPT ![r] = Keys]
    /\ attempt' = [attempt EXCEPT ![r] = 0]
    /\ UNCHANGED <<now, keyVars, bucket, rotation, chosen, response, retryAfter,
                   epoch, spent>>

SelectKey(r) ==
    /\ pc[r] = "select"
    /\ list[r] # {}
    /\ \E k \in Select(list[r]) : chosen' = [chosen EXCEPT ![r] = k]
    /\ pc' = [pc EXCEPT ![r] = "allow"]
    /\ Rotate(list[r])
    /\ UNCHANGED <<now, keyVars, bucket, list, attempt, response, retryAfter,
                   epoch, spent>>

\* Time to the earliest known reset of any key, for the Retry-After of a 429.
ResetTimes == {resetAt[k] : k \in Keys} \ {0}

TimeUntil(t) == IF t < now THEN 0 ELSE t - now

EarliestResetTime ==
    IF ResetTimes = {} THEN {DefaultReset}
    ELSE {TimeUntil(t) : t \in {t \in ResetTimes : \A u \in ResetTimes : t <= u}}

Reject(r) ==
    /\ pc' = [pc EXCEPT ![r] = "rejected"]
    /\ \E wait \in EarliestResetTime : retryAfter' = [retryAfter EXCEPT ![r] = wait]

\* A selector that is given no key at all answers ErrNoKeys, which the handler
\* turns into a 500; otherwise the error is ErrAllKeysExhausted.
SelectError(r) ==
    IF list[r] = {}
    THEN pc' = [pc EXCEPT ![r] = "failed"] /\ UNCHANGED retryAfter
    ELSE Reject(r)

\* Mutant: the error of the first tier is returned without trying the next.
SelectFailsInFirstTier(r) ==
    /\ pc[r] = "select"
    /\ list[r] # {}
    /\ \E k \in list[r] : \A j \in list[r] :
          Priority[j] >= Priority[k] => ~Available(j)
    /\ Reject(r)
    /\ Rotate(list[r])
    /\ UNCHANGED <<now, keyVars, bucket, list, attempt, chosen, response, epoch, spent>>

\* Select returns an error: no key of the copy is available, in any tier.
SelectFails(r) ==
    /\ pc[r] = "select"
    /\ \A k \in list[r] : ~Available(k)
    /\ SelectError(r)
    /\ Rotate(list[r])
    /\ UNCHANGED <<now, keyVars, bucket, list, attempt, chosen, response, epoch, spent>>

Allow(r) ==
    /\ pc[r] = "allow"
    /\ HasToken(chosen[r])
    /\ bucket' = [bucket EXCEPT ![chosen[r]] = @ - TicksPerMinute]
    /\ spent' = [spent EXCEPT ![chosen[r]] = @ + 1]
    /\ pc' = [pc EXCEPT ![r] = "sent"]
    /\ UNCHANGED <<now, keyVars, rotation, callVars, epoch>>

\* Mutant: the loop of GetKey runs once more than there are keys.
RefuseOneMore(r) ==
    /\ pc[r] = "allow"
    /\ ~HasToken(chosen[r])
    /\ list' = [list EXCEPT ![r] = @ \ {chosen[r]}]
    /\ attempt' = [attempt EXCEPT ![r] = @ + 1]
    /\ \/ /\ attempt[r] + 1 <= NumKeys
          /\ pc' = [pc EXCEPT ![r] = "select"]
          /\ UNCHANGED retryAfter
       \/ /\ attempt[r] + 1 > NumKeys
          /\ Reject(r)
    /\ UNCHANGED <<now, keyVars, bucket, rotation, chosen, response, epoch, spent>>

\* Mutant: the refused key is tried again.
RefuseAndRepeat(r) ==
    /\ pc[r] = "allow"
    /\ ~HasToken(chosen[r])
    /\ pc' = [pc EXCEPT ![r] = "select"]
    /\ UNCHANGED <<now, keyVars, bucket, rotation, callVars, epoch, spent>>

\* The limiter refuses: drop the key and go round again, once per key.
Refuse(r) ==
    /\ pc[r] = "allow"
    /\ ~HasToken(chosen[r])
    /\ list' = [list EXCEPT ![r] = @ \ {chosen[r]}]
    /\ attempt' = [attempt EXCEPT ![r] = @ + 1]
    /\ \/ /\ attempt[r] + 1 < NumKeys
          /\ pc' = [pc EXCEPT ![r] = "select"]
          /\ UNCHANGED retryAfter
       \/ /\ attempt[r] + 1 = NumKeys
          /\ Reject(r)
    /\ UNCHANGED <<now, keyVars, bucket, rotation, chosen, response, epoch, spent>>

------------------------------------------------------------------------------
(* Responses. *)

Learnt(old, header) == IF header = NoHeader THEN old ELSE header

\* A limit is taken over only when it is positive.
LearntLimit(old, header) == IF header > 0 THEN header ELSE old

Updated(q, h) ==
    [rpm |-> LearntLimit(q.rpm, h.rpm),
     rpmRemaining |-> Learnt(q.rpmRemaining, h.rpmRemaining),
     tpm |-> LearntLimit(q.tpm, h.tpm),
     tpmRemaining |-> Learnt(q.tpmRemaining, h.tpmRemaining)]

\* Mutant: the new burst comes on top of what was left.
UpdateKeyFromHeadersOnTop(k, h) ==
    /\ quota' = [quota EXCEPT ![k] = Updated(@, h)]
    /\ resetAt' = [resetAt EXCEPT ![k] = Learnt(@, h.reset)]
    /\ bucket' = [bucket EXCEPT ![k] = @ + Capacity(Updated(quota[k], h).rpm)]
    /\ epoch' = [epoch EXCEPT ![k] = now]
    /\ spent' = [spent EXCEPT ![k] = 0]

\* UpdateKeyFromHeaders: after the key, the limiter is given its limits again.
\* SetLimit makes new buckets, and a new bucket is full.
UpdateKeyFromHeaders(k, h) ==
    /\ quota' = [quota EXCEPT ![k] = Updated(@, h)]
    /\ resetAt' = [resetAt EXCEPT ![k] = Learnt(@, h.reset)]
    /\ bucket' = [bucket EXCEPT ![k] = Capacity(Updated(quota[k], h).rpm)]
    /\ epoch' = [epoch EXCEPT ![k] = now]
    /\ spent' = [spent EXCEPT ![k] = 0]

\* The upstream answers: the headers are read first.
Respond(r) ==
    /\ pc[r] = "sent"
    /\ \E resp \in Responses : response' = [response EXCEPT ![r] = {resp}]
    /\ pc' = [pc EXCEPT ![r] = "answered"]
    /\ \/ HeaderOwner /\ \E h \in HeaderSets : UpdateKeyFromHeaders(chosen[r], h)
       \/ ~HeaderOwner /\ UNCHANGED <<quota, resetAt, bucket, epoch, spent>>
    /\ UNCHANGED <<now, healthy, cooldownUntil, rotation, list, attempt, chosen, retryAfter>>

\* The request is over and its locals are gone.
Finish(r) ==
    /\ pc' = [pc EXCEPT ![r] = "idle"]
    /\ list' = [list EXCEPT ![r] = {}]
    /\ attempt' = [attempt EXCEPT ![r] = 0]
    /\ chosen' = [chosen EXCEPT ![r] = 0]

\* The upstream cannot be reached: no response, so no update of the key.
TransportError(r) ==
    /\ pc[r] = "sent"
    /\ Finish(r)
    /\ UNCHANGED <<now, keyVars, bucket, rotation, response, retryAfter, epoch, spent>>

MarkKeyUnhealthy(k) ==
    /\ healthy' = [healthy EXCEPT ![k] = FALSE]
    /\ UNCHANGED cooldownUntil

\* The new cooldown replaces the old one, whichever ends later.
MarkKeyExhausted(k, d) ==
    /\ cooldownUntil' = [cooldownUntil EXCEPT ![k] = now + d]
    /\ UNCHANGED healthy

ApplyCooldownDecision(k, d) ==
    \/ d.permanent /\ MarkKeyUnhealthy(k)
    \/ ~d.permanent /\ d.cooldown > 0 /\ MarkKeyExhausted(k, d.cooldown)
    \/ ~d.permanent /\ d.cooldown = 0 /\ UNCHANGED <<healthy, cooldownUntil>>

\* The cooldown decision is applied in a critical section of its own.
ApplyResponse(r) ==
    /\ pc[r] = "answered"
    /\ \E resp \in response[r] :
          ApplyCooldownDecision(chosen[r], KeyDecision(CooldownStrategy, resp))
    /\ response' = [response EXCEPT ![r] = {}]
    /\ Finish(r)
    /\ UNCHANGED <<now, quota, resetAt, bucket, rotation, retryAfter, epoch, spent>>

\* A request that got no key has been answered with 429 (or 500).
Answered(r) ==
    /\ pc[r] \in {"rejected", "failed"}
    /\ retryAfter' = [retryAfter EXCEPT ![r] = 0]
    /\ Finish(r)
    /\ UNCHANGED <<now, keyVars, bucket, rotation, response, epoch, spent>>

------------------------------------------------------------------------------
(* The operator's call and the clock. *)

MarkKeyHealthy(k) ==
    /\ ~healthy[k]
    /\ healthy' = [healthy EXCEPT ![k] = TRUE]
    /\ UNCHANGED pc
    /\ UNCHANGED <<now, cooldownUntil, quota, resetAt, bucket, rotation, callVars, epoch, spent>>

\* Tokens flow in at the rate of the limit, up to the burst.
Refilled(k) ==
    LET full == Capacity(quota[k].rpm)
        more == bucket[k] + Burst(quota[k].rpm)
    IN  IF more > full THEN full ELSE more

Tick ==
    /\ now < MaxTime
    /\ now' = now + 1
    /\ bucket' = [k \in Keys |-> Refilled(k)]
    /\ UNCHANGED pc
    /\ UNCHANGED <<keyVars, rotation, callVars, epoch, spent>>

------------------------------------------------------------------------------

\* History: a key leaves usable[r] as soon as it cannot be used, and what was
\* left when the call ended is kept until the request is answered.
RecordUsable ==
    usable' = [r \in Requests |->
        CASE pc'[r] \in Calling /\ pc[r] \in Calling    -> usable[r] \cap UsableKeys'
          [] pc'[r] \in Calling /\ pc[r] \notin Calling -> UsableKeys'
          [] pc'[r] = "idle"                            -> {}
          [] OTHER                                      -> usable[r]]

GetKeyStep(r) ==
    SelectKey(r) \/ SelectFails(r) \/ Allow(r) \/ Refuse(r)

RequestStep(r) ==
    GetKey(r) \/ GetKeyStep(r) \/ Respond(r) \/ TransportError(r)
        \/ ApplyResponse(r) \/ Answered(r)

Next ==
    /\ \/ \E r \in Requests : RequestStep(r)
       \/ \E k \in Keys : MarkKeyHealthy(k)
       \/ Tick
    /\ RecordUsable

Spec == Init /\ [][Next]_vars

\* A request that is inside GetKey keeps running.
FairSpec == Spec /\ \A r \in Requests : WF_vars(GetKeyStep(r) /\ RecordUsable)

------------------------------------------------------------------------------

TypeOK ==
    /\ now \in 1 .. MaxTime
    /\ healthy \in [Keys -> BOOLEAN]
    /\ cooldownUntil \in [Keys -> Nat]
    /\ quota \in [Keys -> [rpm: Nat, rpmRemaining: Nat, tpm: Nat, tpmRemaining: Nat]]
    /\ resetAt \in [Keys -> Nat]
    /\ bucket \in [Keys -> Nat]
    /\ rotation \in Nat
    /\ pc \in [Requests -> Calling \cup {"idle", "sent", "answered", "rejected", "failed"}]
    /\ list \in [Requests -> SUBSET Keys]
    /\ attempt \in [Requests -> 0 .. NumKeys]
    /\ chosen \in [Requests -> Keys \cup {0}]
    /\ \A r \in Requests : chosen[r] = 0 => pc[r] \notin {"allow", "sent", "answered"}
    /\ response \in [Requests -> SUBSET Responses]
    /\ retryAfter \in [Requests -> Nat]
    /\ usable \in [Requests -> SUBSET Keys]
    /\ epoch \in [Keys -> 1 .. MaxTime]
    /\ spent \in [Keys -> Nat]

\* A request is told that all keys are exhausted only if no key was usable for
\* the whole of its call: whatever the other requests, late responses and the
\* clock did meanwhile, GetKey does not miss a key that was there all along.
NoFalseExhaustion ==
    \A r \in Requests : pc[r] \in {"rejected", "failed"} => usable[r] = {}

\* A request is sent with a key only if no key of a higher tier was usable for
\* the whole of its call: PriorityTierSelector holds across GetKey's retries.
PriorityKept ==
    \A r \in Requests : pc[r] = "sent" =>
        \A k \in usable[r] : Priority[k] <= Priority[chosen[r]]

\* Rate limiting never surfaces as ErrNoKeys (an internal error, 500) to a
\* client: the retry loop of GetKey ends before its copy is empty.
NeverNoKeys == \A r \in Requests : pc[r] # "failed"

\* A limiter never lets through more than its burst plus what has flowed in
\* since it was created, whatever the interleaving of the requests.
RateBound ==
    \A k \in Keys :
        TicksPerMinute * spent[k]
            <= Capacity(quota[k].rpm) + Burst(quota[k].rpm) * (now - epoch[k])

\* GetKey answers: each round of its loop drops a key.
GetKeyAnswers ==
    \A r \in Requests : pc[r] \in Calling ~> pc[r] \in {"sent", "rejected"}

\* As MarkKeyExhausted is documented: a key in cooldown stays in cooldown
\* until it expires, so a later response does not make it available earlier.
CooldownNotShortened ==
    [][\A k \in Keys : now < cooldownUntil[k] => cooldownUntil'[k] >= cooldownUntil[k]]_vars

\* As UpdateKeyFromHeaders is commented: the limiter changes only if the limits
\* did, so a response that repeats the known limits leaves the bucket alone.
LimiterKeptIfLimitsKept ==
    [][\A k \in Keys : (quota'[k].rpm = quota[k].rpm /\ now' = now)
                            => bucket'[k] <= bucket[k]]_vars

==============================================================================
