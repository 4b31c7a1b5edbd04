--------------------------- MODULE KeyPoolProofs ---------------------------
(***************************************************************************)
(* Theorems about the key pool, for every number of keys and of requests,  *)
(* every configuration and every choice of headers and responses.          *)
(***************************************************************************)
EXTENDS KeyPool, TLAPS, FiniteSetTheorems

\* Every decision about a key is a duration and two flags, whichever the provider.
LEMMA DecisionType ==
    ASSUME NEW resp \in Response
    PROVE  KeyDecision(CooldownStrategy, resp) \in Decision
<1> USE CooldownAssumption, KeyPoolAssumption DEF Response, Decision, NoHeader
<1>1. ASSUME NEW d \in Nat, NEW s \in BOOLEAN PROVE Cooldown(d, s) \in Decision
  BY <1>1 DEF Cooldown
<1>2. RetryAfterHeader(resp) \in Nat /\ ZaiCodeCooldown(resp) \in Nat
  BY DEF RetryAfterHeader, ZaiCodeCooldown
<1>3. ASSUME NEW d \in Nat PROVE Capped(d) \in Nat
  BY <1>3 DEF Capped
<1>4. GenericDecision(resp) \in Decision
  BY <1>1, <1>2, <1>3 DEF GenericDecision
<1>5. OpenAIDecision(resp) \in Decision
  BY <1>1, <1>3, <1>4 DEF OpenAIDecision
<1>6. Zai429Decision(resp) \in Decision
  <2>1. Cooldown(Capped(ZaiCodeCooldown(resp)), resp.body \in TransientCodes) \in Decision
    BY <1>2, <1>3 DEF Cooldown
  <2>2. Cooldown(RetryAfterHeader(resp), FALSE) \in Decision
    BY <1>1, <1>2
  <2>3. Permanent \in Decision
    BY DEF Permanent
  <2> QED
    BY <2>1, <2>2, <2>3 DEF Zai429Decision
<1>7. Zai400Decision(resp) \in Decision
  BY <1>1 DEF Zai400Decision, NoDecision
<1>8. NoDecision \in Decision
  BY DEF NoDecision
<1>9. Resolve(CooldownStrategy, resp) \in Decision
  BY <1>4, <1>5, <1>6, <1>7, <1>8 DEF Resolve, CooldownStrategies
<1> QED
  BY <1>1, <1>9 DEF KeyDecision

\* What Select returns is an available key of its argument, and no available key
\* of the argument has a higher priority.
LEMMA SelectTop ==
    ASSUME NEW S \in SUBSET Keys, NEW k \in Select(S)
    PROVE  /\ k \in S
           /\ Available(k)
           /\ \A j \in S : Available(j) => ~(Priority[j] > Priority[k])
<1>1. k \in S /\ Priority[k] \in VisitedLevels(S)
  BY DEF Select
<1>2. PICK index : k \in Inner(Tier(S, Priority[k]), index)
  BY DEF Select
<1>3. Available(k)
  BY <1>2 DEF Inner, LeastLoaded, RoundRobin, Drawn
<1>4. \A j \in S : Priority[j] > Priority[k] => ~Available(j)
  BY <1>1 DEF VisitedLevels
<1> QED
  BY <1>1, <1>3, <1>4

\* The priority in force is a number, configured or default.
LEMMA PriorityType == \A k \in Keys : Priority[k] \in Nat
  BY KeyPoolAssumption DEF Priority

\* Every wait that EarliestResetTime offers is a duration.
LEMMA ResetWaitType ==
    ASSUME resetAt \in [Keys -> Nat], now \in Nat
    PROVE  EarliestResetTime \subseteq Nat
<1>1. ResetTimes \subseteq Nat
  BY DEF ResetTimes
<1>2. \A t \in Nat : TimeUntil(t) \in Nat
  BY DEF TimeUntil
<1> QED
  BY <1>1, <1>2, KeyPoolAssumption DEF EarliestResetTime

\* A limit becomes a positive burst: zero stands for unlimited.
LEMMA BurstType ==
    ASSUME NEW limit \in Nat
    PROVE  Burst(limit) \in Nat /\ Capacity(limit) \in Nat
<1>1. Burst(limit) \in Nat
  BY KeyPoolAssumption DEF Burst
<1>2. \A a, b \in Nat : a * b \in Nat
  OBVIOUS
<1> QED
  BY <1>1, <1>2, KeyPoolAssumption DEF Capacity

\* The headers of a response leave limits and counts that are numbers.
LEMMA UpdatedType ==
    ASSUME NEW q \in [rpm: Nat, rpmRemaining: Nat, tpm: Nat, tpmRemaining: Nat],
           NEW h \in Headers
    PROVE  Updated(q, h) \in [rpm: Nat, rpmRemaining: Nat, tpm: Nat, tpmRemaining: Nat]
BY DEF Updated, Headers, Learnt, LearntLimit, NoHeader

------------------------------------------------------------------------------
(* Types. *)

\* The history variable only ever holds keys.
LEMMA UsableType ==
    ASSUME TypeOK, RecordUsable
    PROVE  usable' \in [Requests -> SUBSET Keys]
<1>1. UsableKeys' \in SUBSET Keys
  BY DEF UsableKeys
<1> QED
  BY <1>1 DEF RecordUsable, TypeOK

\* A new pool has the right types.
LEMMA InitTypeOK == Init => TypeOK
<1> SUFFICES ASSUME Init PROVE TypeOK
  OBVIOUS
<1>1. \A k \in Keys : Capacity(ConfigRPM[k]) \in Nat
  BY BurstType, KeyPoolAssumption
<1> QED
  BY <1>1, KeyPoolAssumption DEF Init, TypeOK, Calling

\* A rejection gives the request a Retry-After and changes no type.
LEMMA RejectType ==
    ASSUME TypeOK, NEW r \in Requests, Reject(r)
    PROVE  /\ retryAfter' \in [Requests -> Nat]
           /\ pc' = [pc EXCEPT ![r] = "rejected"]
<1>1. EarliestResetTime \subseteq Nat
  BY ResetWaitType, KeyPoolAssumption DEF TypeOK
<1> QED
  BY <1>1 DEF Reject, TypeOK

\* The reset of a key is the only part of Updated that is not in quota.
LEMMA HeaderType ==
    ASSUME TypeOK, NEW k \in Keys, NEW h \in HeaderSets, UpdateKeyFromHeaders(k, h)
    PROVE  /\ quota' \in [Keys -> [rpm: Nat, rpmRemaining: Nat, tpm: Nat, tpmRemaining: Nat]]
           /\ resetAt' \in [Keys -> Nat]
           /\ bucket' \in [Keys -> Nat]
           /\ epoch' \in [Keys -> 1 .. MaxTime]
           /\ spent' \in [Keys -> Nat]
<1>1. h \in Headers
  BY KeyPoolAssumption
<1>2. Updated(quota[k], h) \in [rpm: Nat, rpmRemaining: Nat, tpm: Nat, tpmRemaining: Nat]
  BY <1>1, UpdatedType DEF TypeOK
<1>3. Capacity(Updated(quota[k], h).rpm) \in Nat
  BY <1>2, BurstType
<1>4. Learnt(resetAt[k], h.reset) \in Nat
  BY <1>1 DEF TypeOK, Learnt, Headers, NoHeader
<1> QED
  BY <1>2, <1>3, <1>4 DEF UpdateKeyFromHeaders, TypeOK

\* The rotation counter stays a number after any number of visited tiers.
LEMMA RotateType ==
    ASSUME TypeOK, NEW r \in Requests, Rotate(list[r])
    PROVE  rotation' \in Nat
<1>1. IsFiniteSet(Keys)
  BY FS_Interval, KeyPoolAssumption DEF Keys
<1>2. IsFiniteSet(list[r])
  BY <1>1, FS_Subset DEF TypeOK
<1>3. IsFiniteSet({Priority[j] : j \in list[r]})
  <2> DEFINE T == {Priority[j] : j \in list[r]}
             f == [j \in list[r] |-> Priority[j]]
  <2>1. f \in Surjection(list[r], T)
    BY DEF Surjection
  <2> HIDE DEF f, T
  <2>2. IsFiniteSet(T)
    BY <1>2, <2>1, FS_Surjection
  <2> QED
    BY <2>2 DEF T
<1>4. IsFiniteSet(VisitedLevels(list[r]))
  BY <1>3, FS_Subset DEF VisitedLevels
<1>5. Cardinality(VisitedLevels(list[r])) \in Nat
  BY <1>4, FS_CardinalityType
<1> QED
  BY <1>5, KeyPoolAssumption DEF Rotate, TypeOK

\* Every step of the pool keeps the types.
LEMMA StepTypeOK == TypeOK /\ [Next]_vars => TypeOK'
<1> SUFFICES ASSUME TypeOK, [Next]_vars PROVE TypeOK'
  OBVIOUS
<1> USE KeyPoolAssumption
<1>1. CASE UNCHANGED vars
  BY <1>1 DEF vars, keyVars, callVars, TypeOK
<1>2. CASE Next
  <2>0. usable' \in [Requests -> SUBSET Keys]
    BY <1>2, UsableType DEF Next
  <2>1. ASSUME NEW r \in Requests, GetKey(r) PROVE TypeOK'
    BY <2>0, <2>1 DEF GetKey, TypeOK, keyVars, Calling
  <2>2. ASSUME NEW r \in Requests, SelectKey(r) PROVE TypeOK'
    <3>1. PICK k \in Select(list[r]) : chosen' = [chosen EXCEPT ![r] = k]
      BY <2>2 DEF SelectKey
    <3>2. k \in Keys
      BY <3>1, SelectTop DEF TypeOK
    <3>3. rotation' \in Nat
      BY <2>2, RotateType DEF SelectKey
    <3>4. k # 0
      BY <3>2 DEF Keys
    <3> QED
      BY <2>0, <2>2, <3>1, <3>2, <3>3, <3>4 DEF SelectKey, TypeOK, keyVars, Calling
  <2>3. ASSUME NEW r \in Requests, SelectFails(r) PROVE TypeOK'
    <3>1. /\ retryAfter' \in [Requests -> Nat]
          /\ pc' = [pc EXCEPT ![r] = "rejected"] \/ pc' = [pc EXCEPT ![r] = "failed"]
      BY <2>3, RejectType DEF SelectFails, SelectError, TypeOK
    <3>2. rotation' \in Nat
      BY <2>3, RotateType DEF SelectFails
    <3> QED
      BY <2>0, <2>3, <3>1, <3>2 DEF SelectFails, TypeOK, keyVars, Calling
  <2>5. ASSUME NEW r \in Requests, Allow(r) PROVE TypeOK'
    <3>1. chosen[r] \in Keys
      BY <2>5 DEF Allow, TypeOK
    <3> QED
      BY <2>0, <2>5, <3>1 DEF Allow, TypeOK, keyVars, callVars, Calling, HasToken
  <2>6. ASSUME NEW r \in Requests, Refuse(r) PROVE TypeOK'
    <3>1. chosen[r] \in Keys
      BY <2>6 DEF Refuse, TypeOK
    <3>2. CASE attempt[r] + 1 < NumKeys /\ pc' = [pc EXCEPT ![r] = "select"] /\ UNCHANGED retryAfter
      BY <2>0, <2>6, <3>1, <3>2 DEF Refuse, TypeOK, keyVars, Calling
    <3>3. CASE attempt[r] + 1 = NumKeys /\ Reject(r)
      <4>1. retryAfter' \in [Requests -> Nat] /\ pc' = [pc EXCEPT ![r] = "rejected"]
        BY <3>3, RejectType
      <4> QED
        BY <2>0, <2>6, <3>1, <3>3, <4>1 DEF Refuse, TypeOK, keyVars, Calling
    <3> QED
      BY <2>6, <3>2, <3>3 DEF Refuse
  <2>7. ASSUME NEW r \in Requests, Respond(r) PROVE TypeOK'
    <3>1. chosen[r] \in Keys
      BY <2>7 DEF Respond, TypeOK
    <3>2. response' \in [Requests -> SUBSET Responses]
      BY <2>7 DEF Respond, TypeOK
    <3>3. /\ quota' \in [Keys -> [rpm: Nat, rpmRemaining: Nat, tpm: Nat, tpmRemaining: Nat]]
          /\ resetAt' \in [Keys -> Nat]
          /\ bucket' \in [Keys -> Nat]
          /\ epoch' \in [Keys -> 1 .. MaxTime]
          /\ spent' \in [Keys -> Nat]
      BY <2>7, <3>1, HeaderType DEF Respond, TypeOK
    <3> QED
      BY <2>0, <2>7, <3>1, <3>2, <3>3 DEF Respond, TypeOK, Calling
  <2>8. ASSUME NEW r \in Requests, TransportError(r) PROVE TypeOK'
    BY <2>0, <2>8 DEF TransportError, Finish, TypeOK, keyVars, Calling
  <2>9. ASSUME NEW r \in Requests, ApplyResponse(r) PROVE TypeOK'
    <3>1. chosen[r] \in Keys
      BY <2>9 DEF ApplyResponse, TypeOK
    <3>2. PICK resp \in response[r] :
             ApplyCooldownDecision(chosen[r], KeyDecision(CooldownStrategy, resp))
      BY <2>9 DEF ApplyResponse
    <3>3. KeyDecision(CooldownStrategy, resp) \in Decision
      BY <3>2, DecisionType DEF TypeOK
    <3>4. healthy' \in [Keys -> BOOLEAN] /\ cooldownUntil' \in [Keys -> Nat]
      <4> DEFINE d == KeyDecision(CooldownStrategy, resp)
      <4>1. now + d.cooldown \in Nat
        BY <3>3 DEF Decision, TypeOK
      <4>2. ApplyCooldownDecision(chosen[r], d)
        BY <3>2
      <4> HIDE DEF d
      <4>3. CASE MarkKeyUnhealthy(chosen[r])
        BY <3>1, <4>3 DEF MarkKeyUnhealthy, TypeOK
      <4>4. CASE MarkKeyExhausted(chosen[r], d.cooldown)
        BY <3>1, <4>1, <4>4 DEF MarkKeyExhausted, TypeOK
      <4>5. CASE UNCHANGED <<healthy, cooldownUntil>>
        BY <4>5 DEF TypeOK
      <4> QED
        BY <4>2, <4>3, <4>4, <4>5 DEF ApplyCooldownDecision
    <3> QED
      BY <2>0, <2>9, <3>4 DEF ApplyResponse, Finish, TypeOK, Calling
  <2>10. ASSUME NEW r \in Requests, Answered(r) PROVE TypeOK'
    BY <2>0, <2>10 DEF Answered, Finish, TypeOK, keyVars, Calling
  <2>11. ASSUME NEW k \in Keys, MarkKeyHealthy(k) PROVE TypeOK'
    BY <2>0, <2>11 DEF MarkKeyHealthy, TypeOK, callVars, Calling
  <2>12. CASE Tick
    <3>1. \A k \in Keys : Refilled(k) \in Nat
      <4> SUFFICES ASSUME NEW k \in Keys PROVE Refilled(k) \in Nat
        OBVIOUS
      <4>1. quota[k].rpm \in Nat /\ bucket[k] \in Nat
        BY DEF TypeOK
      <4> QED
        BY <4>1, BurstType DEF Refilled
    <3>2. now' \in 1 .. MaxTime /\ bucket' \in [Keys -> Nat]
      BY <2>12, <3>1 DEF Tick, TypeOK
    <3> QED
      BY <2>0, <2>12, <3>2 DEF Tick, TypeOK, keyVars, callVars, Calling
  <2> QED
    BY <1>2, <2>1, <2>2, <2>3, <2>5, <2>6, <2>7, <2>8, <2>9, <2>10, <2>11, <2>12
       DEF Next, RequestStep, GetKeyStep
<1> QED
  BY <1>1, <1>2

\* Every variable keeps its type, for every configuration of the pool.
THEOREM TypeCorrect == Spec => []TypeOK
BY InitTypeOK, StepTypeOK, PTL DEF Spec

------------------------------------------------------------------------------
(* GetKey, whatever runs between its steps. *)

\* The strengthening that GetKey's promises need: a key that has been usable all
\* along is still in the copy and still usable, the copy is as long as there are
\* tries left, and the selected key comes from the copy and from its top tier.
CallOK(r) ==
    /\ pc[r] \in Calling =>
          /\ usable[r] \subseteq list[r] \cap UsableKeys
          /\ Cardinality(list[r]) = NumKeys - attempt[r]
          /\ attempt[r] < NumKeys
    /\ pc[r] = "allow" =>
          /\ chosen[r] \in list[r]
          /\ \A k \in usable[r] : ~(Priority[k] > Priority[chosen[r]])
    /\ pc[r] = "sent" => \A k \in usable[r] : ~(Priority[k] > Priority[chosen[r]])
    /\ pc[r] # "failed"
    /\ pc[r] = "rejected" => usable[r] = {}

CallInv == \A r \in Requests : CallOK(r)

\* No request is in a call at the start.
LEMMA InitCallInv == Init => CallInv
BY DEF Init, CallInv, CallOK, Calling

\* A step that leaves a request's own variables alone leaves CallOK: history only
\* ever removes keys.
LEMMA BystanderOK ==
    ASSUME TypeOK, TypeOK', NEW r \in Requests, CallOK(r), RecordUsable,
           pc'[r] = pc[r], list'[r] = list[r], attempt'[r] = attempt[r],
           chosen'[r] = chosen[r]
    PROVE  CallOK(r)'
<1>1. CASE pc[r] \in Calling
  <2>1. usable'[r] = usable[r] \cap UsableKeys'
    BY <1>1 DEF RecordUsable, Calling
  <2> QED
    BY <1>1, <2>1 DEF CallOK, Calling
<1>2. CASE pc[r] \notin Calling
  <2>1. usable'[r] = IF pc'[r] = "idle" THEN {} ELSE usable[r]
    BY <1>2 DEF RecordUsable
  <2> QED
    BY <1>2, <2>1 DEF CallOK, Calling
<1> QED
  BY <1>1, <1>2

\* A request that leaves GetKey keeps the history it had.
LEMMA HistoryKept ==
    ASSUME NEW r \in Requests, RecordUsable, pc'[r] \notin Calling, pc'[r] # "idle"
    PROVE  usable'[r] = usable[r]
BY DEF RecordUsable

\* Every step keeps what is known of the calls in progress.
LEMMA StepCallInv == TypeOK /\ TypeOK' /\ CallInv /\ [Next]_vars => CallInv'
<1> SUFFICES ASSUME TypeOK, TypeOK', CallInv, [Next]_vars, NEW r \in Requests
             PROVE  CallOK(r)'
  BY DEF CallInv
<1>0. CallOK(r)
  BY DEF CallInv
<1>1. CASE UNCHANGED vars
  BY <1>0, <1>1 DEF vars, keyVars, callVars, CallOK, UsableKeys, Available, HasToken
<1>2. CASE Next
  <2>0. RecordUsable
    BY <1>2 DEF Next
  <2>1. CASE /\ pc'[r] = pc[r] /\ list'[r] = list[r]
             /\ attempt'[r] = attempt[r] /\ chosen'[r] = chosen[r]
    BY <1>0, <2>0, <2>1, BystanderOK
  <2>2. ASSUME NEW q \in Requests, RequestStep(q), q # r PROVE CallOK(r)'
    <3>1. /\ pc'[r] = pc[r] /\ list'[r] = list[r]
          /\ attempt'[r] = attempt[r] /\ chosen'[r] = chosen[r]
      BY <2>2 DEF RequestStep, GetKeyStep, GetKey, SelectKey, SelectFails, SelectError,
                  Allow, Refuse, Reject, Respond, TransportError, ApplyResponse, Answered,
                  Finish, callVars, TypeOK
    <3> QED
      BY <2>1, <3>1
  <2>3. CASE GetKey(r)
    <3>1. pc'[r] = "select" /\ list'[r] = Keys /\ attempt'[r] = 0
      BY <2>3 DEF GetKey, TypeOK
    <3>2. usable'[r] = UsableKeys' /\ UsableKeys' \subseteq Keys
      BY <2>0, <2>3, <3>1 DEF RecordUsable, GetKey, Calling, UsableKeys
    <3>3. Cardinality(Keys) = NumKeys
      BY FS_Interval, KeyPoolAssumption DEF Keys
    <3> QED
      BY <3>1, <3>2, <3>3, KeyPoolAssumption DEF CallOK, Calling
  <2>4. CASE SelectKey(r)
    <3>1. PICK k \in Select(list[r]) : chosen' = [chosen EXCEPT ![r] = k]
      BY <2>4 DEF SelectKey
    <3>2. /\ pc[r] = "select" /\ pc'[r] = "allow" /\ chosen'[r] = k
          /\ list'[r] = list[r] /\ attempt'[r] = attempt[r]
      BY <2>4, <3>1 DEF SelectKey, TypeOK
    <3>3. /\ k \in list[r]
          /\ \A j \in list[r] : Available(j) => ~(Priority[j] > Priority[k])
      BY <3>1, SelectTop DEF TypeOK
    <3>4. usable'[r] = usable[r] \cap UsableKeys'
      BY <2>0, <3>2 DEF RecordUsable, Calling
    <3>5. usable[r] \subseteq list[r] /\ \A j \in usable[r] : Available(j)
      BY <1>0, <3>2 DEF CallOK, Calling, UsableKeys
    <3> QED
      BY <1>0, <3>2, <3>3, <3>4, <3>5 DEF CallOK, Calling
  <2>5. CASE SelectFails(r)
    <3>1. pc[r] = "select" /\ SelectError(r) /\ \A k \in list[r] : ~Available(k)
      BY <2>5 DEF SelectFails
    <3>2. list[r] # {}
      <4>1. Cardinality(list[r]) = NumKeys - attempt[r] /\ attempt[r] < NumKeys
        BY <1>0, <3>1 DEF CallOK, Calling
      <4>2. attempt[r] \in Int /\ NumKeys \in Int
        BY KeyPoolAssumption DEF TypeOK
      <4> QED
        BY <4>1, <4>2, FS_EmptySet
    <3>3. pc'[r] = "rejected"
      BY <3>1, <3>2 DEF SelectError, Reject, TypeOK
    <3>4. usable[r] = {}
      BY <1>0, <3>1 DEF CallOK, Calling, UsableKeys
    <3>5. usable'[r] = {}
      BY <2>0, <3>1, <3>3, <3>4, HistoryKept DEF Calling
    <3> QED
      BY <3>3, <3>5 DEF CallOK, Calling
  <2>7. CASE Allow(r)
    <3>1. pc[r] = "allow" /\ pc'[r] = "sent" /\ chosen'[r] = chosen[r]
      BY <2>7 DEF Allow, callVars, TypeOK
    <3>2. usable'[r] = usable[r]
      BY <2>0, <3>1, HistoryKept DEF Calling
    <3> QED
      BY <1>0, <3>1, <3>2 DEF CallOK, Calling
  <2>8. CASE Refuse(r)
    <3> DEFINE k == chosen[r]
    <3>1. /\ pc[r] = "allow" /\ ~HasToken(k)
          /\ list'[r] = list[r] \ {k} /\ attempt'[r] = attempt[r] + 1
      BY <2>8 DEF Refuse, TypeOK
    <3>2. /\ usable[r] \subseteq list[r] \cap UsableKeys
          /\ Cardinality(list[r]) = NumKeys - attempt[r]
          /\ attempt[r] < NumKeys
          /\ k \in list[r]
      BY <1>0, <3>1 DEF CallOK, Calling
    <3>3. usable[r] \subseteq list'[r]
      BY <3>1, <3>2 DEF UsableKeys
    <3>4. IsFiniteSet(list[r])
      <4>1. IsFiniteSet(Keys)
        BY FS_Interval, KeyPoolAssumption DEF Keys
      <4> QED
        BY <4>1, FS_Subset DEF TypeOK
    <3>5. Cardinality(list'[r]) = NumKeys - attempt'[r] /\ IsFiniteSet(list'[r])
      <4>1. IsFiniteSet(list[r] \ {k}) /\ Cardinality(list[r] \ {k}) = Cardinality(list[r]) - 1
        BY <3>2, <3>4, FS_RemoveElement
      <4>2. attempt[r] \in Nat
        BY DEF TypeOK
      <4> QED
        BY <3>1, <3>2, <4>1, <4>2, KeyPoolAssumption
    <3>6. CASE attempt[r] + 1 < NumKeys /\ pc' = [pc EXCEPT ![r] = "select"]
      <4>1. pc'[r] = "select"
        BY <3>6 DEF TypeOK
      <4>2. usable'[r] = usable[r] \cap UsableKeys'
        BY <2>0, <3>1, <4>1 DEF RecordUsable, Calling
      <4> QED
        BY <3>1, <3>3, <3>5, <3>6, <4>1, <4>2 DEF CallOK, Calling
    <3>7. CASE attempt[r] + 1 = NumKeys /\ Reject(r)
      <4>1. pc'[r] = "rejected"
        BY <3>7 DEF Reject, TypeOK
      <4>2. list'[r] = {}
        <5>1. Cardinality(list'[r]) = 0
          BY <3>1, <3>5, <3>7, KeyPoolAssumption DEF TypeOK
        <5> QED
          BY <3>5, <5>1, FS_EmptySet
      <4>3. usable'[r] = {}
        BY <2>0, <3>3, <4>1, <4>2, HistoryKept DEF Calling
      <4> QED
        BY <4>1, <4>3 DEF CallOK, Calling
    <3> QED
      BY <2>8, <3>6, <3>7 DEF Refuse
  <2>9. CASE Respond(r)
    <3>1. pc'[r] = "answered"
      BY <2>9 DEF Respond, TypeOK
    <3> QED
      BY <3>1 DEF CallOK, Calling
  <2>10. CASE TransportError(r) \/ ApplyResponse(r) \/ Answered(r)
    <3>1. pc'[r] = "idle"
      BY <2>10 DEF TransportError, ApplyResponse, Answered, Finish, TypeOK
    <3> QED
      BY <3>1 DEF CallOK, Calling
  <2>11. ASSUME NEW k \in Keys, MarkKeyHealthy(k) PROVE CallOK(r)'
    BY <2>1, <2>11 DEF MarkKeyHealthy, callVars
  <2>12. CASE Tick
    BY <2>1, <2>12 DEF Tick, callVars
  <2>13. CASE RequestStep(r)
    BY <2>3, <2>4, <2>5, <2>7, <2>8, <2>9, <2>10, <2>13 DEF RequestStep, GetKeyStep
  <2> QED
    BY <1>2, <2>2, <2>11, <2>12, <2>13 DEF Next
<1> QED
  BY <1>1, <1>2

\* The inductive invariant holds of the pool, with the types it relies on.
THEOREM CallInvariant == Spec => [](TypeOK /\ CallInv)
<1>1. Init => TypeOK /\ CallInv
  BY InitTypeOK, InitCallInv
<1>2. (TypeOK /\ CallInv) /\ [Next]_vars => (TypeOK /\ CallInv)'
  BY StepTypeOK, StepCallInv
<1> QED
  BY <1>1, <1>2, PTL DEF Spec

\* GetKey never reports exhaustion while some key was usable all along, for any
\* number of keys and of concurrent requests.
THEOREM NoFalseExhaustionHolds == Spec => []NoFalseExhaustion
<1>1. TypeOK /\ CallInv => NoFalseExhaustion
  BY DEF CallInv, CallOK, NoFalseExhaustion
<1> QED
  BY <1>1, CallInvariant, PTL

\* Rate limiting never turns into an internal error for the client.
THEOREM NeverNoKeysHolds == Spec => []NeverNoKeys
<1>1. TypeOK /\ CallInv => NeverNoKeys
  BY DEF CallInv, CallOK, NeverNoKeys
<1> QED
  BY <1>1, CallInvariant, PTL

\* No key is used while a key of a higher tier was usable all along.
THEOREM PriorityKeptHolds == Spec => []PriorityKept
<1>1. TypeOK /\ CallInv => PriorityKept
  <2> SUFFICES ASSUME TypeOK, CallInv, NEW r \in Requests, pc[r] = "sent",
                      NEW k \in usable[r]
               PROVE  Priority[k] <= Priority[chosen[r]]
    BY DEF PriorityKept
  <2>1. ~(Priority[k] > Priority[chosen[r]])
    BY DEF CallInv, CallOK
  <2>2. k \in Keys /\ chosen[r] \in Keys
    BY DEF TypeOK
  <2> QED
    BY <2>1, <2>2, PriorityType
<1> QED
  BY <1>1, CallInvariant, PTL

------------------------------------------------------------------------------
(* The limiters. *)

\* What has been let through and what is left in the bucket, together.
BoundOK(k) ==
    TicksPerMinute * spent[k] + bucket[k]
        <= Capacity(quota[k].rpm) + Burst(quota[k].rpm) * (now - epoch[k])

RateInv == \A k \in Keys : BoundOK(k)

\* A new limiter is full and has let nothing through.
LEMMA InitRateInv == Init => RateInv
<1> SUFFICES ASSUME Init, NEW k \in Keys PROVE BoundOK(k)
  BY DEF RateInv
<1>1. /\ spent[k] = 0 /\ bucket[k] = Capacity(ConfigRPM[k])
      /\ quota[k].rpm = ConfigRPM[k] /\ now - epoch[k] = 0
  BY DEF Init
<1>2. Capacity(ConfigRPM[k]) \in Nat /\ Burst(ConfigRPM[k]) \in Nat
  BY BurstType, KeyPoolAssumption
<1>3. TicksPerMinute * 0 = 0 /\ Burst(ConfigRPM[k]) * 0 = 0
  BY <1>2, KeyPoolAssumption
<1> QED
  BY <1>1, <1>2, <1>3 DEF BoundOK

\* One more tick, or one more request, adds one more share.
LEMMA Distribute == \A a, b \in Int : a * (b + 1) = a * b + a
OBVIOUS

\* Every step keeps the account of tokens in and requests out.
LEMMA StepRateInv == TypeOK /\ RateInv /\ [Next]_vars => RateInv'
<1> SUFFICES ASSUME TypeOK, RateInv, [Next]_vars, NEW k \in Keys PROVE BoundOK(k)'
  BY DEF RateInv
<1>0. BoundOK(k)
  BY DEF RateInv
<1>a. /\ bucket[k] \in Nat /\ spent[k] \in Nat /\ quota[k].rpm \in Nat
      /\ now \in Int /\ epoch[k] \in Int /\ TicksPerMinute \in Nat
  BY KeyPoolAssumption DEF TypeOK
<1>b. Burst(quota[k].rpm) \in Nat /\ Capacity(quota[k].rpm) \in Nat
  BY <1>a, BurstType
<1>1. CASE UNCHANGED <<now, quota, bucket, epoch, spent>>
  BY <1>0, <1>1 DEF BoundOK
<1>2. ASSUME NEW r \in Requests, Allow(r) PROVE BoundOK(k)'
  <2>1. /\ UNCHANGED <<now, quota, epoch>> /\ chosen[r] \in Keys
        /\ bucket' = [bucket EXCEPT ![chosen[r]] = @ - TicksPerMinute]
        /\ spent' = [spent EXCEPT ![chosen[r]] = @ + 1]
    BY <1>2 DEF Allow, keyVars, TypeOK
  <2>2. CASE chosen[r] # k
    <3>1. bucket'[k] = bucket[k] /\ spent'[k] = spent[k]
      BY <2>1, <2>2 DEF TypeOK
    <3> QED
      BY <1>0, <2>1, <3>1 DEF BoundOK
  <2>3. CASE chosen[r] = k
    <3>1. bucket'[k] = bucket[k] - TicksPerMinute /\ spent'[k] = spent[k] + 1
      BY <2>1, <2>3 DEF TypeOK
    <3>2. TicksPerMinute * (spent[k] + 1) = TicksPerMinute * spent[k] + TicksPerMinute
      BY <1>a, Distribute
    <3>3. TicksPerMinute * spent'[k] + bucket'[k] = TicksPerMinute * spent[k] + bucket[k]
      <4>1. TicksPerMinute * spent[k] \in Int
        BY <1>a
      <4> QED
        BY <1>a, <3>1, <3>2, <4>1
    <3> QED
      BY <1>0, <2>1, <3>3 DEF BoundOK
  <2> QED
    BY <2>2, <2>3
<1>3. ASSUME NEW r \in Requests, NEW h \in HeaderSets, UpdateKeyFromHeaders(chosen[r], h),
             chosen[r] \in Keys, now' = now
      PROVE  BoundOK(k)'
  <2>1. CASE chosen[r] # k
    <3>1. /\ quota'[k] = quota[k] /\ bucket'[k] = bucket[k]
          /\ epoch'[k] = epoch[k] /\ spent'[k] = spent[k]
      BY <1>3, <2>1 DEF UpdateKeyFromHeaders, TypeOK
    <3> QED
      BY <1>0, <1>3, <3>1 DEF BoundOK, Capacity, Burst
  <2>2. CASE chosen[r] = k
    <3> DEFINE limit == Updated(quota[k], h).rpm
    <3>1. /\ quota'[k].rpm = limit /\ bucket'[k] = Capacity(limit)
          /\ now' - epoch'[k] = 0 /\ spent'[k] = 0
      BY <1>3, <1>a, <2>2 DEF UpdateKeyFromHeaders, TypeOK
    <3>2. limit \in Nat
      BY UpdatedType, KeyPoolAssumption DEF TypeOK
    <3>3. Capacity(limit) \in Nat /\ Burst(limit) \in Nat
      BY <3>2, BurstType
    <3> HIDE DEF limit
    <3>4. TicksPerMinute * 0 = 0 /\ Burst(limit) * 0 = 0
      BY <1>a, <3>3
    <3> QED
      BY <3>1, <3>3, <3>4 DEF BoundOK
  <2> QED
    BY <2>1, <2>2
<1>4. CASE Tick
  <2> DEFINE b == Burst(quota[k].rpm)
             c == Capacity(quota[k].rpm)
  <2>1. now' = now + 1 /\ UNCHANGED <<quota, epoch, spent>> /\ bucket'[k] = Refilled(k)
    BY <1>4 DEF Tick, keyVars
  <2>2. Refilled(k) <= bucket[k] + b
    BY <1>a, <1>b DEF Refilled
  <2>3. b * (now' - epoch[k]) = b * (now - epoch[k]) + b
    <3>1. now' - epoch[k] = (now - epoch[k]) + 1 /\ now - epoch[k] \in Int
      BY <1>a, <2>1
    <3> QED
      BY <1>b, <3>1, Distribute
  <2>4. TicksPerMinute * spent[k] + bucket[k] <= c + b * (now - epoch[k])
    BY <1>0 DEF BoundOK
  <2>5. Refilled(k) \in Int /\ b * (now - epoch[k]) \in Int /\ TicksPerMinute * spent[k] \in Int
    BY <1>a, <1>b DEF Refilled
  <2>6. TicksPerMinute * spent[k] + Refilled(k) <= c + b * (now' - epoch[k])
    <3> HIDE DEF b, c
    <3>1. b \in Nat /\ c \in Nat
      BY <1>b DEF b, c
    <3> QED
      BY <1>a, <2>2, <2>3, <2>4, <2>5, <3>1
  <2> QED
    BY <2>1, <2>6 DEF BoundOK
<1>5. ASSUME NEW r \in Requests, Respond(r) PROVE BoundOK(k)'
  <2>1. chosen[r] \in Keys /\ now' = now
    BY <1>5 DEF Respond, TypeOK
  <2> QED
    BY <1>1, <1>3, <1>5, <2>1 DEF Respond
<1> QED
  BY <1>1, <1>2, <1>4, <1>5 DEF Next, RequestStep, GetKeyStep, GetKey, SelectKey, SelectFails,
     Refuse, TransportError, ApplyResponse, Answered, MarkKeyHealthy,
     vars, keyVars, callVars

\* No interleaving of requests makes a limiter let through more than its burst
\* and what has flowed in since it was created.
THEOREM RateBoundHolds == Spec => []RateBound
<1>1. (TypeOK /\ RateInv) /\ [Next]_vars => (TypeOK /\ RateInv)'
  BY StepTypeOK, StepRateInv
<1>2. TypeOK /\ RateInv => RateBound
  <2> SUFFICES ASSUME TypeOK, RateInv, NEW k \in Keys
               PROVE  TicksPerMinute * spent[k]
                        <= Capacity(quota[k].rpm) + Burst(quota[k].rpm) * (now - epoch[k])
    BY DEF RateBound
  <2>1. /\ bucket[k] \in Nat /\ spent[k] \in Nat /\ quota[k].rpm \in Nat
        /\ now \in Int /\ epoch[k] \in Int /\ TicksPerMinute \in Nat
    BY KeyPoolAssumption DEF TypeOK
  <2>2. /\ TicksPerMinute * spent[k] \in Int /\ Capacity(quota[k].rpm) \in Int
        /\ Burst(quota[k].rpm) * (now - epoch[k]) \in Int
    BY <2>1, BurstType
  <2> QED
    BY <2>1, <2>2 DEF RateInv, BoundOK
<1> QED
  BY InitTypeOK, InitRateInv, <1>1, <1>2, PTL DEF Spec

=============================================================================
