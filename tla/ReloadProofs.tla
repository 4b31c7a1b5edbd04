------------------------------ MODULE ReloadProofs ------------------------------
(***************************************************************************)
(* For every number of changes, every set of contents and any number of    *)
(* requests: no change of the file is missed, reloads that do not overlap  *)
(* leave every service on the last configuration, exactly the current      *)
(* health checker runs, and a new request is sent with what that           *)
(* configuration says.                                                     *)
(***************************************************************************)
EXTENDS ProxyCache, TLAPS

\* The seven callbacks of a server without OpenAI providers.
LEMMA FewCallbacks ==
    ASSUME OpenAI = {}
    PROVE  /\ Len(Callbacks) = 7
           /\ Callbacks[1] = "ProviderMap" /\ Callbacks[2] = "KeyPool"
           /\ Callbacks[3] = "KeyPoolMap" /\ Callbacks[4] = "ProviderInfo"
           /\ Callbacks[5] = "Concurrency"
           /\ Callbacks[6] = "Checker" /\ Callbacks[7] = "Config"
           /\ DOMAIN Callbacks = 1 .. 7
BY DEF Callbacks

\* The ten of a server with some.
LEMMA ManyCallbacks ==
    ASSUME OpenAI # {}
    PROVE  /\ Len(Callbacks) = 10
           /\ Callbacks[1] = "ProviderMap" /\ Callbacks[2] = "KeyPool"
           /\ Callbacks[3] = "KeyPoolMap" /\ Callbacks[4] = "ProviderInfo"
           /\ Callbacks[5] = "Concurrency"
           /\ Callbacks[6] = "OpenAIProviderMap" /\ Callbacks[7] = "OpenAIKeyPoolMap"
           /\ Callbacks[8] = "OpenAIProviderInfo"
           /\ Callbacks[9] = "Checker" /\ Callbacks[10] = "Config"
           /\ DOMAIN Callbacks = 1 .. 10
BY DEF Callbacks

\* Either way every callback is a service's or Elsewhere, is called once, and a
\* provider map is rebuilt before the list made from it.
LEMMA CallbackFacts ==
    /\ Len(Callbacks) \in Nat /\ Len(Callbacks) > 0
    /\ \A i \in 1 .. Len(Callbacks) : Callbacks[i] \in Services \cup Elsewhere
    /\ \A s \in Services : s \notin Elsewhere /\ \E i \in 1 .. Len(Callbacks) : Callbacks[i] = s
    /\ \A i, j \in 1 .. Len(Callbacks) : Callbacks[i] = Callbacks[j] => i = j
    /\ \A i, j \in 1 .. Len(Callbacks) :
         (Callbacks[i] \in Infos /\ Callbacks[j] = MapOf[Callbacks[i]]) => j < i
    /\ {"KeyPoolMap", "ProviderMap", "ProviderInfo", "Checker", "Config"} \subseteq Services
    /\ OpenAI # {} =>
         {"OpenAIProviderMap", "OpenAIKeyPoolMap", "OpenAIProviderInfo"} \subseteq Services
    /\ \A s \in Infos : MapOf[s] \in Maps
    /\ "Checker" \notin Maps \cup Infos
<1>1. CASE OpenAI = {}
  <2>1. Services = {"ProviderMap", "KeyPoolMap", "ProviderInfo", "Checker", "Config"}
    BY <1>1, FewCallbacks DEF Services, Elsewhere
  <2>2. Maps = {"ProviderMap"} /\ Infos = {"ProviderInfo"} /\ MapOf["ProviderInfo"] = "ProviderMap"
    BY <2>1 DEF Maps, Infos, MapOf
  <2>3. \A i \in 1 .. 7 : i = 1 \/ i = 2 \/ i = 3 \/ i = 4 \/ i = 5 \/ i = 6 \/ i = 7
    OBVIOUS
  <2>4. \A i \in 1 .. 7 : Callbacks[i] \in Services \cup Elsewhere
    BY <1>1, <2>1, <2>3, FewCallbacks DEF Elsewhere
  <2>5. \A s \in Services : s \notin Elsewhere /\ \E i \in 1 .. 7 : Callbacks[i] = s
    BY <1>1, <2>1, FewCallbacks DEF Elsewhere
  <2>6. \A i, j \in 1 .. 7 : Callbacks[i] = Callbacks[j] => i = j
    BY <1>1, <2>3, FewCallbacks
  <2>7. \A i, j \in 1 .. 7 :
          (Callbacks[i] \in Infos /\ Callbacks[j] = MapOf[Callbacks[i]]) => j < i
    BY <1>1, <2>2, <2>3, FewCallbacks
  <2>8. /\ {"KeyPoolMap", "ProviderMap", "ProviderInfo", "Checker", "Config"} \subseteq Services
        /\ OpenAI # {} =>
             {"OpenAIProviderMap", "OpenAIKeyPoolMap", "OpenAIProviderInfo"} \subseteq Services
    BY <1>1, <2>1
  <2>9. (\A s \in Infos : MapOf[s] \in Maps) /\ "Checker" \notin Maps \cup Infos
    BY <2>2
  <2>10. Len(Callbacks) = 7
    BY <1>1, FewCallbacks
  <2> QED
    BY <2>4, <2>5, <2>6, <2>7, <2>8, <2>9, <2>10
<1>2. CASE OpenAI # {}
  <2>1. Services = {"ProviderMap", "KeyPoolMap", "ProviderInfo", "OpenAIProviderMap",
                    "OpenAIKeyPoolMap", "OpenAIProviderInfo", "Checker", "Config"}
    BY <1>2, ManyCallbacks DEF Services, Elsewhere
  <2>2. /\ Maps = {"ProviderMap", "OpenAIProviderMap"}
        /\ Infos = {"ProviderInfo", "OpenAIProviderInfo"}
        /\ MapOf["ProviderInfo"] = "ProviderMap" /\ MapOf["OpenAIProviderInfo"] = "OpenAIProviderMap"
    BY <2>1 DEF Maps, Infos, MapOf
  <2>3. \A i \in 1 .. 10 : i = 1 \/ i = 2 \/ i = 3 \/ i = 4 \/ i = 5
                          \/ i = 6 \/ i = 7 \/ i = 8 \/ i = 9 \/ i = 10
    OBVIOUS
  <2>4. \A i \in 1 .. 10 : Callbacks[i] \in Services \cup Elsewhere
    BY <1>2, <2>1, <2>3, ManyCallbacks DEF Elsewhere
  <2>5. \A s \in Services : s \notin Elsewhere /\ \E i \in 1 .. 10 : Callbacks[i] = s
    BY <1>2, <2>1, ManyCallbacks DEF Elsewhere
  <2>6. \A i, j \in 1 .. 10 : Callbacks[i] = Callbacks[j] => i = j
    BY <1>2, <2>3, ManyCallbacks
  <2>7. \A i, j \in 1 .. 10 :
          (Callbacks[i] \in Infos /\ Callbacks[j] = MapOf[Callbacks[i]]) => j < i
    BY <1>2, <2>2, <2>3, ManyCallbacks
  <2>8. /\ {"KeyPoolMap", "ProviderMap", "ProviderInfo", "Checker", "Config"} \subseteq Services
        /\ OpenAI # {} =>
             {"OpenAIProviderMap", "OpenAIKeyPoolMap", "OpenAIProviderInfo"} \subseteq Services
    BY <1>2, <2>1
  <2>9. (\A s \in Infos : MapOf[s] \in Maps) /\ "Checker" \notin Maps \cup Infos
    BY <2>2
  <2>10. Len(Callbacks) = 10
    BY <1>2, ManyCallbacks
  <2> QED
    BY <2>4, <2>5, <2>6, <2>7, <2>8, <2>9, <2>10
<1> QED
  BY <1>1, <1>2

--------------------------------------------------------------------------------
(* Types. *)

\* The server starts with its services on load 0.
LEMMA InitTypeOK == Init => TypeOK
<1> SUFFICES ASSUME Init PROVE TypeOK
  OBVIOUS
<1> USE ReloadAssumption, ProxyAssumption
<1>1. 0 \in Loads /\ 1 \in 1 .. Len(Callbacks)
  BY CallbackFacts DEF Loads
<1>2. ReloadTypeOK
  <2>1. /\ created \in [Loads -> SUBSET Providers]
        /\ alive \subseteq Loads
        /\ edits \in 0 .. MaxEdits /\ events \in 0 .. edits
    BY <1>1 DEF Init, ReloadInit
  <2>2. /\ pc \in [Loads -> {"idle", "fired", "load", "run", "stop", "wait", "done"}]
        /\ at \in [Loads -> 1 .. Len(Callbacks)]
        /\ read \in [Loads -> Contents]
        /\ old \in [Loads -> Loads]
    BY <1>1 DEF Init, ReloadInit
  <2>3. held \in [Services -> Loads] /\ madeBy \in [Infos -> Loads]
    BY <1>1 DEF Init, ReloadInit
  <2> QED
    BY <1>1, <2>1, <2>2, <2>3 DEF Init, ReloadInit, ReloadTypeOK
<1>3. (CHOOSE p \in Providers : TRUE) \in Providers
  <2>1. \E p \in Providers : TRUE
    OBVIOUS
  <2> QED
    BY <2>1
<1>4. \A p \in Providers : KeyOf[Initial][p] \in Keys
  BY DEF Keys
<1>5. proxies \in [Providers -> ProxyType]
  BY <1>1, <1>4 DEF Init, ProxyType, Proxy, NoProxy, Pools, NoPool
<1> QED
  BY <1>1, <1>2, <1>3, <1>5 DEF Init, TypeOK, Inputs, ProxyType, NoProxy, Pools, NoPool, NotSettled

\* The next callback, or the end, is a place of a reload.
LEMMA AdvanceType ==
    ASSUME ReloadTypeOK, NEW r \in Reloads, Advance(r)
    PROVE  /\ pc' = [pc EXCEPT ![r] = IF at[r] = Len(Callbacks) THEN "done" ELSE "run"]
           /\ at' = [at EXCEPT ![r] = IF at[r] = Len(Callbacks) THEN at[r] ELSE at[r] + 1]
           /\ pc' \in [Loads -> {"idle", "fired", "load", "run", "stop", "wait", "done"}]
           /\ at' \in [Loads -> 1 .. Len(Callbacks)]
<1> DEFINE places == 1 .. Len(Callbacks)
<1>a. r \in Loads /\ at \in [Loads -> places] /\ at[r] \in places
  <2>1. r \in Loads
    BY ReloadAssumption DEF Loads, Reloads
  <2> QED
    BY <2>1 DEF ReloadTypeOK
<1>b. pc \in [Loads -> {"idle", "fired", "load", "run", "stop", "wait", "done"}]
  BY DEF ReloadTypeOK
<1>1. CASE at[r] = Len(Callbacks)
  <2> HIDE DEF places
  <2>1. at' = at /\ pc' = [pc EXCEPT ![r] = "done"]
    BY <1>1 DEF Advance
  <2>2. at' = [at EXCEPT ![r] = at[r]]
    BY <1>a, <2>1
  <2>3. at' \in [Loads -> places]
    BY <1>a, <2>1
  <2>4. pc' \in [Loads -> {"idle", "fired", "load", "run", "stop", "wait", "done"}]
    BY <1>b, <2>1
  <2> QED
    BY <1>1, <2>1, <2>2, <2>3, <2>4 DEF places
<1>2. CASE at[r] # Len(Callbacks)
  <2>1. at[r] + 1 \in places
    BY <1>a, <1>2, CallbackFacts
  <2> HIDE DEF places
  <2>2. at' = [at EXCEPT ![r] = at[r] + 1] /\ pc' = [pc EXCEPT ![r] = "run"]
    BY <1>2 DEF Advance
  <2>3. at' \in [Loads -> places]
    BY <1>a, <2>1, <2>2
  <2>4. pc' \in [Loads -> {"idle", "fired", "load", "run", "stop", "wait", "done"}]
    BY <1>b, <2>2
  <2> QED
    BY <1>2, <2>2, <2>3, <2>4 DEF places
<1> QED
  BY <1>1, <1>2

\* Every step of the reload keeps the types.
LEMMA ReloadStepType == ReloadTypeOK /\ ReloadNext => ReloadTypeOK'
<1> SUFFICES ASSUME ReloadTypeOK, ReloadNext PROVE ReloadTypeOK'
  OBVIOUS
<1> USE ReloadAssumption
<1>a. Reloads \subseteq Loads /\ Maps \subseteq Services /\ "Checker" \in Services
  BY CallbackFacts DEF Reloads, Loads, Maps
<1>b. Current \in Loads
  BY <1>a DEF Current, ReloadTypeOK
<1>1. ASSUME NEW c \in Contents, Edit(c) PROVE ReloadTypeOK'
  BY <1>1 DEF Edit, ReloadTypeOK, reloadVars, serviceVars, checkerVars, history
<1>2. CASE HandleEvent
  BY <1>2 DEF HandleEvent, ReloadTypeOK, reloadVars, serviceVars, checkerVars, history
<1>3. CASE LoopEnds
  BY <1>3 DEF LoopEnds, ReloadTypeOK, reloadVars, serviceVars, checkerVars, history
<1>4. ASSUME NEW r \in Reloads, TimerFires(r) PROVE ReloadTypeOK'
  BY <1>4, <1>a DEF TimerFires, ReloadTypeOK, serviceVars, checkerVars, history
<1>5. ASSUME NEW r \in Reloads, CheckClosed(r) PROVE ReloadTypeOK'
  BY <1>5, <1>a DEF CheckClosed, ReloadTypeOK, watcherVars, serviceVars, checkerVars, history
<1>6. ASSUME NEW r \in Reloads, Load(r) PROVE ReloadTypeOK'
  BY <1>6, <1>a DEF Load, ReloadTypeOK, watcherVars, serviceVars, checkerVars, history
<1>7. ASSUME NEW r \in Reloads, NEW s \in Services, RebuildProviders(r, s) PROVE ReloadTypeOK'
  <2>1. PICK broken \in SUBSET Flaky :
          LET providers == (Enabled[read[r]] \cap Listed(s)) \ broken
          IN  IF providers = {}
              THEN UNCHANGED <<created, held>>
              ELSE /\ created' = [created EXCEPT ![r] = @ \cup providers]
                   /\ Store(r, s)
    BY <1>7 DEF RebuildProviders
  <2> DEFINE providers == (Enabled[read[r]] \cap Listed(s)) \ broken
  <2>2. providers \in SUBSET Providers /\ r \in Loads
    BY <1>a DEF ReloadTypeOK
  <2>3. created' \in [Loads -> SUBSET Providers] /\ held' \in [Services -> Loads]
    <3>1. CASE providers = {}
      BY <2>1, <3>1 DEF ReloadTypeOK
    <3>2. CASE providers # {}
      <4>1. created' = [created EXCEPT ![r] = @ \cup providers] /\ held' = [held EXCEPT ![s] = r]
        BY <2>1, <3>2 DEF Store
      <4>2. created[r] \cup providers \in SUBSET Providers
        BY <2>2 DEF ReloadTypeOK
      <4> HIDE DEF providers
      <4> QED
        BY <2>2, <4>1, <4>2 DEF ReloadTypeOK
    <3> QED
      BY <3>1, <3>2
  <2> QED
    BY <1>7, <2>3, AdvanceType
       DEF RebuildProviders, ReloadTypeOK, watcherVars, checkerVars, history
<1>8. ASSUME NEW r \in Reloads, NEW s \in Services, RebuildInfos(r, s) PROVE ReloadTypeOK'
  <2>1. MapOf[s] \in Services
    BY <1>8, <1>a, CallbackFacts DEF RebuildInfos
  <2>2. held' \in [Services -> Loads] /\ madeBy' \in [Infos -> Loads]
    BY <1>8, <1>a, <2>1 DEF RebuildInfos, Store, ReloadTypeOK
  <2> QED
    BY <1>8, <2>2, AdvanceType DEF RebuildInfos, ReloadTypeOK, watcherVars, checkerVars, history
<1>9. ASSUME NEW r \in Reloads, RebuildElsewhere(r) PROVE ReloadTypeOK'
  BY <1>9, AdvanceType
     DEF RebuildElsewhere, ReloadTypeOK, watcherVars, serviceVars, checkerVars, history
<1>10. ASSUME NEW r \in Reloads, NEW s \in Services, Replace(r, s) PROVE ReloadTypeOK'
  <2>1. held' \in [Services -> Loads]
    BY <1>10, <1>a DEF Replace, Store, ReloadTypeOK
  <2> QED
    BY <1>10, <2>1, AdvanceType DEF Replace, ReloadTypeOK, watcherVars, checkerVars, history
<1>11. ASSUME NEW r \in Reloads, SwapChecker(r) PROVE ReloadTypeOK'
  <2>1. held' \in [Services -> Loads] /\ old' \in [Loads -> Loads]
    BY <1>11, <1>a, <1>b DEF SwapChecker, Store, ReloadTypeOK
  <2>2. /\ pc' \in [Loads -> {"idle", "fired", "load", "run", "stop", "wait", "done"}]
        /\ at' \in [Loads -> 1 .. Len(Callbacks)]
    BY <1>11, <1>a, AdvanceType DEF SwapChecker, ReloadTypeOK
  <2> QED
    BY <1>11, <2>1, <2>2 DEF SwapChecker, ReloadTypeOK, watcherVars, checkerVars, history
<1>12. ASSUME NEW r \in Reloads, StopOld(r) PROVE ReloadTypeOK'
  BY <1>12, <1>a DEF StopOld, ReloadTypeOK, watcherVars, serviceVars, history
<1>13. ASSUME NEW r \in Reloads, StartNew(r) PROVE ReloadTypeOK'
  BY <1>13, <1>a, AdvanceType DEF StartNew, ReloadTypeOK, watcherVars, serviceVars, history
<1>14. ASSUME NEW n \in Loads, CheckerEnds(n) PROVE ReloadTypeOK'
  BY <1>14 DEF CheckerEnds, ReloadTypeOK, watcherVars, reloadVars, serviceVars, history
<1>15. CASE CancelWatch
  BY <1>15 DEF CancelWatch, ReloadTypeOK, watcherVars, reloadVars, serviceVars, checkerVars, history
<1>16. CASE Shutdown
  BY <1>16, <1>b DEF Shutdown, StopCurrent, CheckerStopped, CloseWatcher, ReloadTypeOK,
                     watcherVars, reloadVars, serviceVars, checkerVars, history
<1> QED
  BY <1>1, <1>2, <1>3, <1>4, <1>5, <1>6, <1>7, <1>8, <1>9, <1>10, <1>11, <1>12, <1>13, <1>14,
     <1>15, <1>16 DEF ReloadNext, ReloadStep

\* A step that leaves the reload alone leaves its types alone.
LEMMA ReloadStutterType == ReloadTypeOK /\ UNCHANGED reloadAll => ReloadTypeOK'
BY DEF reloadAll, ReloadTypeOK, watcherVars, reloadVars, serviceVars, checkerVars, history

\* A proxy made from what a request has read has the type of a proxy.
LEMMA ProxyTyped == \A in \in Inputs : Proxy(in) \in ProxyType
BY DEF Inputs, ProxyType, Proxy

\* What a load gives a provider is a key and a pool, and the services that a request
\* reads for it exist.
LEMMA ReadTyped ==
    ASSUME ReloadTypeOK, NEW p \in Providers
    PROVE  /\ InfosOf(p) \in Infos /\ PoolsOf(p) \in Services
           /\ \A n \in Loads : KeyAt(n, p) \in Keys /\ PoolAt(n, p) \in Pools
<1>1. InfosOf(p) \in Infos /\ PoolsOf(p) \in Services
  BY CallbackFacts DEF InfosOf, PoolsOf, Infos
<1>2. \A n \in Loads : read[n] \in Contents
  BY DEF ReloadTypeOK
<1>3. \A n \in Loads : KeyAt(n, p) \in Keys
  BY <1>2 DEF KeyAt, Keys
<1>4. \A n \in Loads : PoolAt(n, p) \in Pools
  BY DEF PoolAt, Pools
<1> QED
  BY <1>1, <1>3, <1>4

\* Every step of a request keeps the types.
LEMMA RequestStepType ==
    ASSUME TypeOK, NEW q \in Requests, RequestStep(q), UNCHANGED reloadAll
    PROVE  TypeOK'
<1>1. ReloadTypeOK /\ ReloadTypeOK'
  BY ReloadStutterType DEF TypeOK
<1>2. provider[q] \in Providers /\ inputs[q] \in Inputs
  BY DEF TypeOK
<1>3. ASSUME NEW p \in Providers, Select(q, p) PROVE TypeOK'
  <2>1. InfosOf(p) \in Infos /\ madeBy[InfosOf(p)] \in Loads
    BY <1>1, ReadTyped DEF ReloadTypeOK
  <2>2. inputs' = [inputs EXCEPT ![q] = [inputs[q] EXCEPT !.made = madeBy[InfosOf(p)]]]
    BY <1>3 DEF Select
  <2>3. inputs' \in [Requests -> Inputs]
    <3>1. [inputs[q] EXCEPT !.made = madeBy[InfosOf(p)]] \in Inputs
      BY <1>2, <2>1 DEF Inputs
    <3> QED
      BY <2>2, <3>1 DEF TypeOK
  <2>4. last \in Loads
    BY <1>1 DEF ReloadTypeOK
  <2>5. began' \in [Requests -> Loads \cup {NotSettled}]
    BY <1>3, <2>4 DEF Select, TypeOK
  <2> QED
    BY <1>1, <1>3, <2>3, <2>5 DEF Select, Goes, TypeOK
<1>4. CASE ReadKeys(q)
  <2> DEFINE p == provider[q]
             k == KeyAt(held[PoolsOf(p)], p)
  <2>1. k \in Keys
    BY <1>1, <1>2, ReadTyped DEF ReloadTypeOK
  <2>2. inputs' = [inputs EXCEPT ![q] = [inputs[q] EXCEPT !.key = k]]
    BY <1>4 DEF ReadKeys
  <2>3. inputs' \in [Requests -> Inputs]
    <3>1. [inputs[q] EXCEPT !.key = k] \in Inputs
      BY <1>2, <2>1 DEF Inputs
    <3> QED
      BY <2>2, <3>1 DEF TypeOK
  <2> QED
    BY <1>1, <1>4, <2>3 DEF ReadKeys, Goes, TypeOK
<1>5. CASE ReadPools(q)
  <2> DEFINE p == provider[q]
             l == PoolAt(held[PoolsOf(p)], p)
  <2>1. l \in Pools
    BY <1>1, <1>2, ReadTyped DEF ReloadTypeOK
  <2>2. inputs' = [inputs EXCEPT ![q] = [inputs[q] EXCEPT !.pool = l]]
    BY <1>5 DEF ReadPools
  <2>3. inputs' \in [Requests -> Inputs]
    <3>1. [inputs[q] EXCEPT !.pool = l] \in Inputs
      BY <1>2, <2>1 DEF Inputs
    <3> QED
      BY <2>2, <3>1 DEF TypeOK
  <2> QED
    BY <1>1, <1>5, <2>3 DEF ReadPools, Goes, TypeOK
<1>6. CASE FastPath(q)
  BY <1>1, <1>2, <1>6 DEF FastPath, Goes, Take, TypeOK
<1>7. CASE MissFast(q)
  BY <1>1, <1>7 DEF MissFast, Goes, TypeOK
<1>8. CASE SlowPath(q)
  <2>1. proxies' \in [Providers -> ProxyType]
    BY <1>2, <1>8, ProxyTyped DEF SlowPath, TypeOK
  <2> QED
    BY <1>1, <1>2, <1>8, <2>1 DEF SlowPath, Goes, Take, TypeOK
<1>9. CASE Answered(q)
  <2>1. /\ [made |-> 0, key |-> NoKey, pool |-> NoPool] \in Inputs
        /\ NoProxy \in ProxyType
    BY ReloadAssumption DEF Inputs, ProxyType, NoProxy, Pools, Loads
  <2> QED
    BY <1>1, <1>9, <2>1 DEF Answered, Goes, TypeOK
<1> QED
  BY <1>3, <1>4, <1>5, <1>6, <1>7, <1>8, <1>9 DEF RequestStep

\* And so does every step.
LEMMA StepTypeOK == TypeOK /\ [Next]_proxyVars => TypeOK'
<1> SUFFICES ASSUME TypeOK, [Next]_proxyVars PROVE TypeOK'
  OBVIOUS
<1>1. CASE ReloadBeside
  <2>1. ReloadTypeOK'
    BY <1>1, ReloadStepType DEF TypeOK, ReloadBeside
  <2>2. NoProxy \in ProxyType
    BY ReloadAssumption DEF ProxyType, NoProxy, Pools, Loads
  <2>3. proxies' \in [Providers -> ProxyType]
    BY <1>1, <2>2 DEF ReloadBeside, TypeOK
  <2> QED
    BY <1>1, <2>1, <2>3 DEF ReloadBeside, TypeOK, requestVars
<1>2. CASE \E q \in Requests : RequestStep(q) /\ UNCHANGED reloadAll
  BY <1>2, RequestStepType
<1>3. CASE UNCHANGED proxyVars
  <2>1. ReloadTypeOK'
    BY <1>3, ReloadStutterType DEF TypeOK, proxyVars
  <2> QED
    BY <1>3, <2>1 DEF TypeOK, proxyVars, cacheVars, requestVars
<1> QED
  BY <1>1, <1>2, <1>3 DEF Next

\* Every variable keeps its type.
THEOREM TypeCorrect == Spec => []TypeOK
BY InitTypeOK, StepTypeOK, PTL DEF Spec

--------------------------------------------------------------------------------
(* The health checkers. *)

\* Reload n may have put its checker in place: later callbacks than that one are its next.
Swapped(n) ==
    \/ pc[n] \in {"stop", "wait", "done"}
    \/ pc[n] = "run" /\ \E i \in 1 .. at[n] - 1 : Callbacks[i] = "Checker"

\* A checker that runs, or is about to be started, has been told to stop, or is in
\* the care of the service or of a reload.
Cared(n) ==
    (n \in alive \/ pc[n] \in {"stop", "wait"}) =>
        \/ n \in cancelled
        \/ n = Current /\ started
        \/ \E r \in Reloads : pc[r] = "stop" /\ old[r] = n

\* A reload stops what it has replaced and never what is current.
StopsOther(r) ==
    /\ pc[r] \in {"stop", "wait"} => Callbacks[at[r]] = "Checker"
    /\ pc[r] = "stop" => Swapped(old[r]) /\ old[r] # Current

\* The current checker is not stopped before the shutdown, and runs if it should.
CurrentRuns ==
    phase \in {"serving", "draining"} =>
        /\ Current \notin cancelled
        /\ (read[Current] \in Checked /\ pc[Current] \notin {"stop", "wait"}) => Current \in alive

CheckerInv ==
    /\ started <=> phase \notin {"closing", "closed"}
    /\ locked <=> phase = "stopping"
    /\ phase = "stopping" => Current \in cancelled
    /\ \A n \in Loads : Cared(n)
    /\ Swapped(Current) /\ \A n \in cancelled : Swapped(n)
    /\ \A r \in Reloads : StopsOther(r)
    /\ CurrentRuns
    /\ pc[0] = "done"

\* The steps of a reload that have nothing to do with the checkers.
Quiet(r) ==
    \/ TimerFires(r)
    \/ CheckClosed(r)
    \/ Load(r)
    \/ \E s \in Services : RebuildProviders(r, s) \/ RebuildInfos(r, s) \/ Replace(r, s)
    \/ RebuildElsewhere(r)

\* At the checker's callback a reload has not swapped yet.
LEMMA NotYetSwapped ==
    ASSUME ReloadTypeOK, NEW r \in Reloads, pc[r] = "run", Callbacks[at[r]] = "Checker"
    PROVE  ~Swapped(r)
<1>1. r \in Loads
  BY ReloadAssumption DEF Reloads, Loads
<1>2. at[r] \in 1 .. Len(Callbacks)
  BY <1>1 DEF ReloadTypeOK
<1>3. \A i \in 1 .. at[r] - 1 : i \in 1 .. Len(Callbacks) /\ i # at[r]
  BY <1>2, CallbackFacts
<1>4. \A i \in 1 .. at[r] - 1 : Callbacks[i] # "Checker"
  BY <1>2, <1>3, CallbackFacts
<1> QED
  BY <1>4 DEF Swapped

\* A reload that goes on to the next callback leaves the other reloads alone, and
\* what it has passed it has still passed.
LEMMA AdvanceKeeps ==
    ASSUME ReloadTypeOK, NEW r \in Reloads, pc[r] \in {"run", "stop", "wait"}, Advance(r)
    PROVE  /\ pc'[r] \in {"run", "done"}
           /\ \A n \in Loads \ {r} : pc'[n] = pc[n] /\ at'[n] = at[n]
           /\ pc'[r] = "run" => at'[r] = at[r] + 1
           /\ \A i \in 1 .. at[r] : pc'[r] = "run" => i \in 1 .. at'[r] - 1
<1>1. r \in Loads
  BY ReloadAssumption DEF Reloads, Loads
<1>2. at[r] \in Nat
  BY <1>1 DEF ReloadTypeOK
<1>3. /\ pc' = [pc EXCEPT ![r] = IF at[r] = Len(Callbacks) THEN "done" ELSE "run"]
      /\ at' = [at EXCEPT ![r] = IF at[r] = Len(Callbacks) THEN at[r] ELSE at[r] + 1]
  BY AdvanceType
<1>4. /\ pc'[r] = IF at[r] = Len(Callbacks) THEN "done" ELSE "run"
      /\ at'[r] = IF at[r] = Len(Callbacks) THEN at[r] ELSE at[r] + 1
  BY <1>1, <1>3 DEF ReloadTypeOK
<1>5. \A n \in Loads \ {r} : pc'[n] = pc[n] /\ at'[n] = at[n]
  BY <1>3 DEF ReloadTypeOK
<1>6. \A i \in 1 .. at[r] : pc'[r] = "run" => i \in 1 .. at'[r] - 1
  BY <1>2, <1>4
<1> QED
  BY <1>4, <1>5, <1>6

\* What the quiet steps leave as it is.
LEMMA QuietKeeps ==
    ASSUME ReloadTypeOK, NEW r \in Reloads, Quiet(r)
    PROVE  /\ UNCHANGED <<old, alive, cancelled, started, locked, phase>>
           /\ Current' = Current
           /\ pc[r] \notin {"stop", "wait", "done"} /\ pc'[r] \notin {"stop", "wait"}
           /\ \A n \in Loads \ {r} : pc'[n] = pc[n] /\ at'[n] = at[n] /\ read'[n] = read[n]
           /\ pc[r] # "load" => read'[r] = read[r]
           /\ pc[r] = "run" => /\ pc'[r] \in {"run", "done"}
                               /\ \A i \in 1 .. at[r] : pc'[r] = "run" => i \in 1 .. at'[r] - 1
<1>a. r \in Loads
  BY ReloadAssumption DEF Reloads, Loads
<1>b. "Checker" \in Services
  BY CallbackFacts
<1> USE DEF checkerVars
<1>1. CASE TimerFires(r)
  BY <1>1, <1>a DEF TimerFires, ReloadTypeOK, serviceVars, Current
<1>2. CASE CheckClosed(r)
  BY <1>2, <1>a DEF CheckClosed, ReloadTypeOK, serviceVars, Current
<1>3. CASE Load(r)
  BY <1>3, <1>a DEF Load, ReloadTypeOK, serviceVars, Current
<1>4. ASSUME NEW s \in Services, RebuildProviders(r, s) \/ RebuildInfos(r, s) \/ Replace(r, s)
      PROVE  /\ Advance(r) /\ pc[r] = "run" /\ UNCHANGED <<read, old, checkerVars, phase>>
             /\ Current' = Current
  <2>1. s # "Checker"
    BY <1>4, CallbackFacts DEF RebuildProviders, RebuildInfos, Replace
  <2>2. held' = held \/ held' = [held EXCEPT ![s] = r]
    BY <1>4 DEF RebuildProviders, RebuildInfos, Replace, Store
  <2>3. Current' = Current
    BY <2>1, <2>2, <1>b DEF Current, ReloadTypeOK
  <2> QED
    BY <1>4, <2>3 DEF RebuildProviders, RebuildInfos, Replace, Calls
<1>5. CASE RebuildElsewhere(r)
  <2>1. Advance(r) /\ pc[r] = "run" /\ UNCHANGED <<read, old, checkerVars, phase>>
        /\ Current' = Current
    BY <1>5 DEF RebuildElsewhere, Calls, serviceVars, Current
  <2> QED
    BY <2>1, AdvanceKeeps
<1> QED
  BY <1>1, <1>2, <1>3, <1>4, <1>5, AdvanceKeeps DEF Quiet

\* At first one checker runs or none does, and nothing was told to stop.
LEMMA InitCheckerInv == Init => CheckerInv
<1> SUFFICES ASSUME Init PROVE CheckerInv
  OBVIOUS
<1>0. 0 \in Loads
  BY ReloadAssumption DEF Loads
<1>1. 0 \in Loads /\ Current = 0 /\ pc[0] = "done"
  BY <1>0, CallbackFacts DEF Init, ReloadInit, Current
<1>2. \A n \in Loads : pc[n] \in {"idle", "done"} /\ (n \in alive => n = 0)
  BY DEF Init, ReloadInit
<1>3. \A r \in Reloads : r \in Loads
  BY DEF Reloads, Loads
<1>4. (\A n \in Loads : Cared(n)) /\ \A r \in Reloads : StopsOther(r)
  BY <1>1, <1>2, <1>3 DEF Cared, StopsOther, Init, ReloadInit
<1>5. Swapped(Current) /\ \A n \in cancelled : Swapped(n)
  BY <1>1 DEF Swapped, Init, ReloadInit
<1>6. CurrentRuns
  <2>1. read[Current] = Initial
    BY <1>1 DEF Init, ReloadInit
  <2> QED
    BY <1>1, <2>1 DEF CurrentRuns, Init, ReloadInit
<1> QED
  BY <1>1, <1>4, <1>5, <1>6 DEF CheckerInv, Init, ReloadInit

\* A quiet step neither swaps nor starts nor stops a checker.
LEMMA QuietCheckerInv ==
    ASSUME ReloadTypeOK, CheckerInv, NEW r \in Reloads, Quiet(r)
    PROVE  CheckerInv'
<1>a. /\ r \in Loads /\ r # 0 /\ 0 \in Loads
      /\ Current \in Loads /\ cancelled \subseteq Loads
  <2>1. r \in Loads /\ r # 0 /\ 0 \in Loads
    BY ReloadAssumption DEF Reloads, Loads
  <2> QED
    BY <2>1, CallbackFacts DEF Current, ReloadTypeOK
<1>b. /\ UNCHANGED <<old, alive, cancelled, started, locked, phase>>
      /\ Current' = Current
      /\ pc[r] \notin {"stop", "wait", "done"} /\ pc'[r] \notin {"stop", "wait"}
      /\ \A n \in Loads \ {r} : pc'[n] = pc[n] /\ at'[n] = at[n] /\ read'[n] = read[n]
      /\ pc[r] # "load" => read'[r] = read[r]
      /\ pc[r] = "run" => /\ pc'[r] \in {"run", "done"}
                          /\ \A i \in 1 .. at[r] : pc'[r] = "run" => i \in 1 .. at'[r] - 1
  BY QuietKeeps
<1>c. Reloads \subseteq Loads /\ \A n \in Reloads : old[n] \in Loads
  <2>1. Reloads \subseteq Loads
    BY DEF Reloads, Loads
  <2> QED
    BY <2>1 DEF ReloadTypeOK
<1>1. ASSUME NEW n \in Loads, Swapped(n) PROVE Swapped(n)'
  <2>1. CASE n # r
    BY <1>1, <2>1, <1>b DEF Swapped
  <2>2. CASE n = r
    <3>1. pc[r] = "run" /\ \E i \in 1 .. at[r] - 1 : Callbacks[i] = "Checker"
      BY <1>1, <1>b, <2>2 DEF Swapped
    <3>2. PICK i \in 1 .. at[r] - 1 : Callbacks[i] = "Checker"
      BY <3>1
    <3>3. at[r] \in Nat
      BY <1>a DEF ReloadTypeOK
    <3>4. i \in 1 .. at[r]
      BY <3>2, <3>3
    <3>5. pc'[r] = "done" \/ (pc'[r] = "run" /\ i \in 1 .. at'[r] - 1)
      BY <1>b, <3>1, <3>4
    <3> QED
      BY <2>2, <3>2, <3>5 DEF Swapped
  <2> QED
    BY <2>1, <2>2
<1>2. \A n \in Loads : pc'[n] \in {"stop", "wait"} <=> pc[n] \in {"stop", "wait"}
  BY <1>b
<1>3. \A n \in Reloads : pc'[n] = "stop" <=> pc[n] = "stop"
  BY <1>b, <1>c
<1>4. \A n \in Loads : Cared(n)'
  BY <1>b, <1>2, <1>3 DEF CheckerInv, Cared
<1>5. \A n \in Reloads : StopsOther(n)'
  <2> SUFFICES ASSUME NEW n \in Reloads PROVE StopsOther(n)'
    OBVIOUS
  <2>1. CASE n = r
    BY <1>b, <2>1 DEF StopsOther
  <2>2. CASE n # r
    BY <1>b, <1>c, <1>1, <2>2 DEF CheckerInv, StopsOther
  <2> QED
    BY <2>1, <2>2
<1>6. Swapped(Current)' /\ \A n \in cancelled' : Swapped(n)'
  <2>1. Swapped(Current) /\ \A n \in cancelled : n \in Loads /\ Swapped(n)
    BY <1>a DEF CheckerInv
  <2>2. Swapped(Current)'
    <3>1. ASSUME NEW n \in Loads, n = Current, Current' = n, Swapped(n)' PROVE Swapped(Current)'
      BY <3>1 DEF Swapped
    <3> QED
      BY <1>a, <1>b, <1>1, <2>1, <3>1
  <2> QED
    BY <1>b, <1>1, <2>1, <2>2
<1>7. CurrentRuns'
  <2>1. Current = r => pc[r] # "load"
    BY DEF CheckerInv, Swapped
  <2>2. read'[Current] = read[Current]
    BY <1>a, <1>b, <2>1
  <2> QED
    BY <1>a, <1>b, <1>2, <2>2 DEF CheckerInv, CurrentRuns
<1> QED
  BY <1>a, <1>b, <1>4, <1>5, <1>6, <1>7 DEF CheckerInv

\* Where the loads and what they replaced are found.
LEMMA LoadFacts ==
    ASSUME ReloadTypeOK
    PROVE  /\ 0 \in Loads /\ Reloads \subseteq Loads /\ \A r \in Reloads : r # 0
           /\ \A r \in Reloads : old[r] \in Loads /\ at[r] \in 1 .. Len(Callbacks)
           /\ Current \in Loads /\ alive \subseteq Loads /\ cancelled \subseteq Loads
<1>1. 0 \in Loads /\ Reloads \subseteq Loads /\ \A r \in Reloads : r # 0
  BY ReloadAssumption DEF Reloads, Loads
<1> QED
  BY <1>1, CallbackFacts DEF Current, ReloadTypeOK

\* After the checker's callback, when its reload has gone on, it has swapped.
LEMMA PastSwap ==
    ASSUME ReloadTypeOK, NEW r \in Reloads, pc[r] \in {"run", "stop", "wait"},
           Callbacks[at[r]] = "Checker", Advance(r)
    PROVE  Swapped(r)'
<1>1. at[r] \in 1 .. at[r] /\ at[r] \in Nat
  BY LoadFacts
<1>2. /\ pc'[r] \in {"run", "done"}
      /\ pc'[r] = "run" => at[r] \in 1 .. at'[r] - 1
  BY <1>1, AdvanceKeeps
<1> QED
  BY <1>2 DEF Swapped

\* The swap: what was current is the reload's to stop, or nothing runs any more.
LEMMA SwapCheckerInv ==
    ASSUME ReloadTypeOK, CheckerInv, NEW r \in Reloads, SwapChecker(r)
    PROVE  CheckerInv'
<1>a. /\ r \in Loads /\ r # 0 /\ 0 \in Loads
      /\ Reloads \subseteq Loads /\ \A n \in Reloads : old[n] \in Loads
      /\ Current \in Loads /\ cancelled \subseteq Loads
  BY LoadFacts
<1>b. /\ pc[r] = "run" /\ Callbacks[at[r]] = "Checker" /\ ~locked
      /\ UNCHANGED <<read, alive, cancelled, started, locked, phase>>
  BY DEF SwapChecker, Calls, checkerVars
<1>c. Current' = r
  BY CallbackFacts DEF SwapChecker, Store, Current, ReloadTypeOK
<1>d. old'[r] = Current /\ \A n \in Loads \ {r} : old'[n] = old[n]
  BY <1>a DEF SwapChecker, ReloadTypeOK
<1>e. /\ \A n \in Loads \ {r} : pc'[n] = pc[n] /\ at'[n] = at[n]
      /\ started => pc'[r] = "stop" /\ at'[r] = at[r]
      /\ ~started => pc'[r] \in {"run", "done"}
  <2>1. CASE started
    BY <1>a, <2>1 DEF SwapChecker, ReloadTypeOK
  <2>2. CASE ~started
    BY <1>b, <2>2, AdvanceKeeps DEF SwapChecker
  <2> QED
    BY <2>1, <2>2
<1>f. ~Swapped(r) /\ r # Current /\ r \notin cancelled
  <2>1. ~Swapped(r)
    BY <1>b, NotYetSwapped
  <2> QED
    BY <2>1 DEF CheckerInv
<1>1. Swapped(r)'
  <2>1. CASE started
    BY <1>e, <2>1 DEF Swapped
  <2>2. CASE ~started
    BY <1>b, <2>2, PastSwap DEF SwapChecker
  <2> QED
    BY <2>1, <2>2
<1>2. ASSUME NEW n \in Loads, Swapped(n) PROVE Swapped(n)'
  BY <1>e, <1>f, <1>2 DEF Swapped
<1>3. \A n \in Loads : Cared(n)'
  <2> SUFFICES ASSUME NEW n \in Loads,
                      n \in alive \/ pc'[n] \in {"stop", "wait"},
                      n \notin cancelled,
                      ~(n = r /\ started)
               PROVE  \E m \in Reloads : pc'[m] = "stop" /\ old'[m] = n
    BY <1>b, <1>c DEF Cared
  <2>1. pc'[n] \in {"stop", "wait"} => pc[n] \in {"stop", "wait"}
    BY <1>e
  <2>2. (n = Current /\ started) \/ \E m \in Reloads : pc[m] = "stop" /\ old[m] = n
    BY <1>b, <2>1 DEF CheckerInv, Cared
  <2>3. CASE n = Current /\ started
    BY <1>d, <1>e, <2>3
  <2>4. CASE \E m \in Reloads : pc[m] = "stop" /\ old[m] = n
    <3>1. PICK m \in Reloads : pc[m] = "stop" /\ old[m] = n
      BY <2>4
    <3>2. m # r /\ m \in Loads
      BY <1>a, <1>b, <3>1
    <3> QED
      BY <1>d, <1>e, <3>1, <3>2
  <2> QED
    BY <2>2, <2>3, <2>4
<1>4. \A n \in Reloads : StopsOther(n)'
  <2> SUFFICES ASSUME NEW n \in Reloads PROVE StopsOther(n)'
    OBVIOUS
  <2>1. ASSUME NEW c \in Loads, c = old'[n], Swapped(c)' PROVE Swapped(old[n])'
    BY <2>1 DEF Swapped
  <2>2. CASE n = r
    <3>1. Swapped(old[n])'
      BY <1>2, <1>a, <1>d, <2>1, <2>2 DEF CheckerInv
    <3>2. pc'[r] \in {"stop", "wait"} => Callbacks[at'[r]] = "Checker"
      <4>1. CASE started
        BY <1>b, <1>e, <4>1
      <4>2. CASE ~started
        BY <1>e, <4>2
      <4> QED
        BY <4>1, <4>2
    <3>3. old'[n] # Current'
      BY <1>c, <1>d, <1>f, <2>2
    <3> QED
      BY <2>2, <3>1, <3>2, <3>3 DEF StopsOther
  <2>3. CASE n # r
    <3>1. n \in Loads /\ old'[n] = old[n] /\ pc'[n] = pc[n] /\ at'[n] = at[n]
      BY <1>a, <1>d, <1>e, <2>3
    <3>2. pc[n] = "stop" => Swapped(old[n]) /\ old[n] # r /\ old[n] \in Loads
      BY <1>a, <1>f DEF CheckerInv, StopsOther
    <3>3. pc[n] = "stop" => Swapped(old[n])'
      BY <1>2, <2>1, <3>1, <3>2
    <3>4. pc[n] \in {"stop", "wait"} => Callbacks[at[n]] = "Checker"
      BY DEF CheckerInv, StopsOther
    <3> QED
      BY <1>c, <3>1, <3>2, <3>3, <3>4 DEF StopsOther
  <2> QED
    BY <2>2, <2>3
<1>5. Swapped(Current)' /\ \A n \in cancelled' : Swapped(n)'
  <2>1. \A n \in cancelled : n \in Loads /\ Swapped(n)
    BY <1>a DEF CheckerInv
  <2>2. Swapped(Current)'
    BY <1>1, <1>c DEF Swapped
  <2> QED
    BY <1>2, <1>b, <2>1, <2>2
<1>6. CurrentRuns'
  <2>1. phase \in {"serving", "draining"} => started
    BY DEF CheckerInv
  <2>2. phase \in {"serving", "draining"} => pc'[r] = "stop"
    BY <1>e, <2>1
  <2> QED
    BY <1>b, <1>c, <1>f, <2>2 DEF CurrentRuns
<1> QED
  BY <1>3, <1>4, <1>5, <1>6, <1>a, <1>b, <1>c, <1>e DEF CheckerInv

\* The old checker is told to stop by the reload that replaced it.
LEMMA StopOldInv ==
    ASSUME ReloadTypeOK, CheckerInv, NEW r \in Reloads, StopOld(r)
    PROVE  CheckerInv'
<1>a. /\ r \in Loads /\ r # 0 /\ 0 \in Loads
      /\ Reloads \subseteq Loads /\ \A n \in Reloads : old[n] \in Loads
      /\ Current \in Loads /\ cancelled \subseteq Loads
  BY LoadFacts
<1>b. /\ pc[r] = "stop" /\ cancelled' = cancelled \cup {old[r]}
      /\ UNCHANGED <<at, read, old, alive, started, locked, phase>>
      /\ Current' = Current
  BY DEF StopOld, serviceVars, Current
<1>c. pc'[r] = "wait" /\ \A n \in Loads \ {r} : pc'[n] = pc[n]
  BY <1>a DEF StopOld, ReloadTypeOK
<1>d. old[r] # Current /\ Swapped(old[r])
  BY <1>b DEF CheckerInv, StopsOther
<1>1. ASSUME NEW n \in Loads, Swapped(n) PROVE Swapped(n)'
  BY <1>1, <1>b, <1>c DEF Swapped
<1>2. \A n \in Loads : Cared(n)'
  <2> SUFFICES ASSUME NEW n \in Loads,
                      n \in alive \/ pc'[n] \in {"stop", "wait"},
                      n \notin cancelled, n # old[r],
                      ~(n = Current /\ started)
               PROVE  \E m \in Reloads : pc'[m] = "stop" /\ old[m] = n
    BY <1>b DEF Cared
  <2>1. PICK m \in Reloads : pc[m] = "stop" /\ old[m] = n
    BY <1>b, <1>c DEF CheckerInv, Cared
  <2> QED
    BY <1>a, <1>c, <2>1
<1>3. \A n \in Reloads : StopsOther(n)'
  <2> SUFFICES ASSUME NEW n \in Reloads PROVE StopsOther(n)'
    OBVIOUS
  <2>1. pc'[n] = "stop" => pc[n] = "stop"
    BY <1>a, <1>b, <1>c
  <2>2. pc'[n] \in {"stop", "wait"} => pc[n] \in {"stop", "wait"}
    BY <1>a, <1>b, <1>c
  <2>3. ASSUME NEW c \in Loads, c = old[n], Swapped(c)' PROVE Swapped(old[n])'
    BY <1>b, <2>3 DEF Swapped
  <2>4. pc'[n] = "stop" => Swapped(old[n])'
    BY <1>1, <1>a, <2>1, <2>3 DEF CheckerInv, StopsOther
  <2> QED
    BY <1>b, <2>1, <2>2, <2>4 DEF CheckerInv, StopsOther
<1>4. Swapped(Current)' /\ \A n \in cancelled' : Swapped(n)'
  <2>1. ASSUME NEW c \in Loads, c = Current, Swapped(c)' PROVE Swapped(Current)'
    BY <1>b, <2>1 DEF Swapped
  <2>2. Swapped(Current)'
    BY <1>1, <1>a, <2>1 DEF CheckerInv
  <2>3. \A n \in cancelled' : n \in Loads /\ Swapped(n)
    BY <1>a, <1>b, <1>d DEF CheckerInv
  <2> QED
    BY <1>1, <2>2, <2>3
<1>5. CurrentRuns'
  <2>1. pc'[Current] \in {"stop", "wait"} <=> pc[Current] \in {"stop", "wait"}
    BY <1>a, <1>b, <1>c
  <2> QED
    BY <1>b, <1>d, <2>1 DEF CheckerInv, CurrentRuns
<1> QED
  BY <1>2, <1>3, <1>4, <1>5, <1>a, <1>b, <1>c DEF CheckerInv

\* The new checker is started, if its configuration has checks.
LEMMA StartNewInv ==
    ASSUME ReloadTypeOK, CheckerInv, NEW r \in Reloads, StartNew(r)
    PROVE  CheckerInv'
<1>a. /\ r \in Loads /\ r # 0 /\ 0 \in Loads
      /\ Reloads \subseteq Loads /\ \A n \in Reloads : old[n] \in Loads
      /\ Current \in Loads /\ cancelled \subseteq Loads
  BY LoadFacts
<1>b. /\ pc[r] = "wait" /\ Advance(r)
      /\ alive' = IF read[r] \in Checked THEN alive \cup {r} ELSE alive
      /\ UNCHANGED <<read, old, cancelled, started, locked, phase>>
      /\ Current' = Current
  BY DEF StartNew, serviceVars, Current
<1>c. /\ pc'[r] \in {"run", "done"}
      /\ \A n \in Loads \ {r} : pc'[n] = pc[n] /\ at'[n] = at[n]
  BY <1>b, AdvanceKeeps
<1>d. Callbacks[at[r]] = "Checker"
  BY <1>b DEF CheckerInv, StopsOther
<1>1. ASSUME NEW n \in Loads, Swapped(n) PROVE Swapped(n)'
  <2>1. CASE n = r
    BY <1>b, <1>d, <2>1, PastSwap
  <2>2. CASE n # r
    BY <1>1, <1>c, <2>2 DEF Swapped
  <2> QED
    BY <2>1, <2>2
<1>2. \A n \in Loads : Cared(n)'
  <2>1. \A n \in Loads : (n \in alive' \/ pc'[n] \in {"stop", "wait"})
                            => (n \in alive \/ pc[n] \in {"stop", "wait"})
    BY <1>b, <1>c
  <2>2. \A m \in Reloads : pc[m] = "stop" => pc'[m] = "stop"
    BY <1>a, <1>b, <1>c
  <2> QED
    BY <1>b, <2>1, <2>2 DEF CheckerInv, Cared
<1>3. \A n \in Reloads : StopsOther(n)'
  <2> SUFFICES ASSUME NEW n \in Reloads PROVE StopsOther(n)'
    OBVIOUS
  <2>1. pc'[n] \in {"stop", "wait"} => pc'[n] = pc[n] /\ at'[n] = at[n]
    BY <1>a, <1>c
  <2>2. ASSUME NEW c \in Loads, c = old[n], Swapped(c)' PROVE Swapped(old[n])'
    BY <1>b, <2>2 DEF Swapped
  <2>3. pc'[n] = "stop" => Swapped(old[n])'
    BY <1>1, <1>a, <2>1, <2>2 DEF CheckerInv, StopsOther
  <2> QED
    BY <1>b, <2>1, <2>3 DEF CheckerInv, StopsOther
<1>4. Swapped(Current)' /\ \A n \in cancelled' : Swapped(n)'
  <2>1. ASSUME NEW c \in Loads, c = Current, Swapped(c)' PROVE Swapped(Current)'
    BY <1>b, <2>1 DEF Swapped
  <2>2. Swapped(Current)'
    BY <1>1, <1>a, <2>1 DEF CheckerInv
  <2>3. \A n \in cancelled' : n \in Loads /\ Swapped(n)
    BY <1>a, <1>b DEF CheckerInv
  <2> QED
    BY <1>1, <2>2, <2>3
<1>5. CurrentRuns'
  <2>1. CASE r = Current
    BY <1>b, <2>1 DEF CheckerInv, CurrentRuns
  <2>2. CASE r # Current
    <3>1. pc'[Current] = pc[Current]
      BY <1>a, <1>c, <2>2
    <3> QED
      BY <1>b, <3>1 DEF CheckerInv, CurrentRuns
  <2> QED
    BY <2>1, <2>2
<1> QED
  BY <1>2, <1>3, <1>4, <1>5, <1>a, <1>b, <1>c DEF CheckerInv

\* Every other step leaves the reloads as they are.
LEMMA RestCheckerInv ==
    ASSUME ReloadTypeOK, CheckerInv, UNCHANGED <<pc, at, read, old, held>>,
           \/ UNCHANGED <<alive, cancelled, started, locked, phase>>
           \/ \E n \in Loads : CheckerEnds(n)
           \/ CancelWatch
           \/ Shutdown
    PROVE  CheckerInv'
<1>a. Current' = Current /\ \A n \in Reloads : old'[n] = old[n]
  BY DEF Current
<1>b. Swapped(Current)' /\ (\A n \in cancelled : Swapped(n)') /\ \A n \in Reloads : Swapped(old[n])' = Swapped(old[n])
  BY DEF Current, Swapped, CheckerInv
<1>c. \A n \in Reloads : StopsOther(n)'
  BY <1>a, <1>b DEF StopsOther, CheckerInv
<1>1. CASE UNCHANGED <<alive, cancelled, started, locked, phase>>
  BY <1>1, <1>a, <1>b, <1>c DEF CheckerInv, Cared, CurrentRuns
<1>2. ASSUME NEW n \in Loads, CheckerEnds(n) PROVE CheckerInv'
  <2>1. /\ alive' = alive \ {n} /\ n \in cancelled
        /\ UNCHANGED <<cancelled, started, locked, phase>>
    BY <1>2 DEF CheckerEnds
  <2>2. (\A m \in Loads : Cared(m)') /\ CurrentRuns'
    BY <1>a, <2>1 DEF CheckerInv, Cared, CurrentRuns
  <2> QED
    BY <1>a, <1>b, <1>c, <2>1, <2>2 DEF CheckerInv
<1>3. CASE CancelWatch
  <2>1. /\ phase = "serving" /\ phase' = "draining"
        /\ UNCHANGED <<alive, cancelled, started, locked>>
    BY <1>3 DEF CancelWatch, checkerVars
  <2> QED
    BY <1>a, <1>b, <1>c, <2>1 DEF CheckerInv, Cared, CurrentRuns
<1>4. CASE StopCurrent
  <2>1. /\ phase = "draining" /\ phase' = "stopping" /\ locked' = TRUE
        /\ cancelled' = cancelled \cup {Current} /\ UNCHANGED <<alive, started>>
    BY <1>4 DEF StopCurrent
  <2>2. \A m \in cancelled' : Swapped(m)'
    BY <1>b, <2>1 DEF Swapped, Current
  <2>3. (\A m \in Loads : Cared(m)') /\ CurrentRuns'
    BY <1>a, <2>1 DEF CheckerInv, Cared, CurrentRuns
  <2> QED
    BY <1>a, <1>b, <1>c, <2>1, <2>2, <2>3 DEF CheckerInv
<1>5. CASE CheckerStopped
  <2>1. /\ phase = "stopping" /\ phase' = "closing" /\ locked' = FALSE /\ started' = FALSE
        /\ UNCHANGED <<alive, cancelled>>
    BY <1>5 DEF CheckerStopped
  <2>2. (\A m \in Loads : Cared(m)') /\ CurrentRuns'
    BY <1>a, <2>1 DEF CheckerInv, Cared, CurrentRuns
  <2> QED
    BY <1>a, <1>b, <1>c, <2>1, <2>2 DEF CheckerInv
<1>6. CASE CloseWatcher
  <2>1. phase = "closing" /\ phase' = "closed" /\ UNCHANGED <<alive, cancelled, started, locked>>
    BY <1>6 DEF CloseWatcher, checkerVars
  <2> QED
    BY <1>a, <1>b, <1>c, <2>1 DEF CheckerInv, Cared, CurrentRuns
<1> QED
  BY <1>1, <1>2, <1>3, <1>4, <1>5, <1>6 DEF Shutdown

\* Together: every step keeps the invariant.
LEMMA StepCheckerInv == TypeOK /\ CheckerInv /\ [Next]_proxyVars => CheckerInv'
<1> SUFFICES ASSUME TypeOK, CheckerInv, [Next]_proxyVars PROVE CheckerInv'
  OBVIOUS
<1>1. ReloadTypeOK
  BY DEF TypeOK
<1>2. CASE UNCHANGED reloadAll
  BY <1>1, <1>2, RestCheckerInv DEF reloadAll, reloadVars, serviceVars, checkerVars
<1>3. CASE ReloadNext
  <2>1. ASSUME NEW c \in Contents, Edit(c) PROVE CheckerInv'
    BY <1>1, <2>1, RestCheckerInv DEF Edit, reloadVars, serviceVars, checkerVars
  <2>2. CASE HandleEvent \/ LoopEnds
    BY <1>1, <2>2, RestCheckerInv DEF HandleEvent, LoopEnds, reloadVars, serviceVars, checkerVars
  <2>3. ASSUME NEW r \in Reloads, TimerFires(r) \/ ReloadStep(r) PROVE CheckerInv'
    BY <1>1, <2>3, QuietCheckerInv, SwapCheckerInv, StopOldInv, StartNewInv DEF ReloadStep, Quiet
  <2>4. CASE (\E n \in Loads : CheckerEnds(n)) \/ CancelWatch \/ Shutdown
    <3>1. UNCHANGED <<pc, at, read, old, held>>
      BY <2>4 DEF CheckerEnds, CancelWatch, Shutdown, StopCurrent, CheckerStopped, CloseWatcher,
                  reloadVars, serviceVars
    <3> QED
      BY <1>1, <2>4, <3>1, RestCheckerInv
  <2> QED
    BY <1>3, <2>1, <2>2, <2>3, <2>4 DEF ReloadNext
<1> QED
  BY <1>2, <1>3 DEF Next, ReloadBeside, proxyVars

\* Whatever reloads and a shutdown overlap, a checker that runs and was not told to
\* stop is the current one, or is about to be stopped, and the current one runs.
THEOREM CheckersAccountedHolds == Spec => []CheckersAccounted
<1>1. TypeOK /\ CheckerInv => CheckersAccounted
  <2> SUFFICES ASSUME TypeOK, CheckerInv PROVE CheckersAccounted
    OBVIOUS
  <2>1. \A n \in alive : n \in Loads
    BY DEF TypeOK, ReloadTypeOK
  <2> QED
    BY <2>1 DEF CheckerInv, Cared, CurrentRuns, CheckersAccounted
<1> QED
  BY <1>1, InitTypeOK, StepTypeOK, InitCheckerInv, StepCheckerInv, PTL DEF Spec

--------------------------------------------------------------------------------
(* The services. *)

\* A change that no load has seen yet has a notice, the timer or a reload under way.
NotMissed ==
    (phase = "serving" /\ watching) =>
        \/ events > 0 \/ timer
        \/ \E r \in Reloads : pc[r] \in {"fired", "load"}
        \/ file \in Parsed => read[last] = file

\* A reload that has not read the file has built nothing.
Fresh(n) == pc[n] \in {"idle", "fired", "load"} => at[n] = 1 /\ created[n] = {}

\* The callback of service s is behind load n.
Passed(n, s) == pc[n] = "done" \/ \E i \in 1 .. at[n] - 1 : Callbacks[i] = s

\* Load n is the only one at work, and the services that it has passed hold it.
Alone(n) ==
    /\ \A q \in Reloads : Loaded(q) => q = n
    /\ \A s \in Services \ Maps : Passed(n, s) => held[s] = n
    /\ \A s \in Maps : held[s] = n \/ created[n] \cap Listed(s) = {}
    /\ \A s \in Infos : Passed(n, s) => madeBy[s] = held[MapOf[s]]
    /\ pc[n] \in {"stop", "wait"} => Current = n

ServiceInv ==
    /\ NotMissed
    /\ \A n \in Loads : Fresh(n)
    /\ Loaded(last) \/ pc[last] = "done"
    /\ ~mixed => Alone(last)

\* At the start every service holds load 0.
LEMMA InitServiceInv == Init => ServiceInv
<1> SUFFICES ASSUME Init PROVE ServiceInv
  OBVIOUS
<1>1. 0 \in Loads /\ Reloads \subseteq Loads
  BY ReloadAssumption DEF Loads, Reloads
<1>2. last = 0 /\ pc[0] = "done" /\ read[0] = file
  BY <1>1 DEF Init, ReloadInit
<1>3. \A n \in Loads : Fresh(n)
  BY DEF Init, ReloadInit, Fresh
<1>4. Alone(0)
  <2>1. \A q \in Reloads : ~Loaded(q)
    BY <1>1 DEF Loaded, Init, ReloadInit
  <2>2. \A s \in Services : held[s] = 0
    BY DEF Init, ReloadInit
  <2>3. \A s \in Infos : madeBy[s] = 0 /\ MapOf[s] \in Services
    BY CallbackFacts DEF Init, ReloadInit, Maps
  <2>4. \A s \in Maps : s \in Services
    BY DEF Maps
  <2> QED
    BY <1>2, <2>1, <2>2, <2>3, <2>4 DEF Alone
<1> QED
  BY <1>2, <1>3, <1>4 DEF ServiceInv, NotMissed

\* With one callback behind it a reload has passed one service more.
LEMMA PassedNext ==
    ASSUME ReloadTypeOK, NEW r \in Reloads, Loaded(r), Advance(r), NEW s \in Services
    PROVE  Passed(r, s)' => Passed(r, s) \/ s = Callbacks[at[r]]
<1>1. /\ r \in Loads /\ at[r] \in 1 .. Len(Callbacks)
      /\ pc[r] \in {"run", "stop", "wait"}
  BY LoadFacts DEF Loaded
<1>2. /\ pc'[r] = IF at[r] = Len(Callbacks) THEN "done" ELSE "run"
      /\ at'[r] = IF at[r] = Len(Callbacks) THEN at[r] ELSE at[r] + 1
  BY <1>1, AdvanceType DEF ReloadTypeOK
<1>3. CASE at[r] = Len(Callbacks)
  <2>1. PICK i \in 1 .. Len(Callbacks) : Callbacks[i] = s
    BY CallbackFacts
  <2>2. i = at[r] \/ i \in 1 .. at[r] - 1
    BY <1>1, <1>3, <2>1
  <2> QED
    BY <2>1, <2>2 DEF Passed
<1>4. CASE at[r] # Len(Callbacks)
  <2> SUFFICES ASSUME Passed(r, s)' PROVE Passed(r, s) \/ s = Callbacks[at[r]]
    OBVIOUS
  <2>1. PICK i \in 1 .. at'[r] - 1 : Callbacks[i] = s
    BY <1>2, <1>4 DEF Passed
  <2>2. i = at[r] \/ i \in 1 .. at[r] - 1
    BY <1>1, <1>2, <1>4, <2>1
  <2> QED
    BY <2>1, <2>2 DEF Passed
<1> QED
  BY <1>3, <1>4

\* A routing list is rebuilt after its map: whoever is at the map has not passed it.
LEMMA MapFirst ==
    ASSUME ReloadTypeOK, NEW r \in Reloads, Loaded(r), NEW s \in Infos,
           MapOf[s] = Callbacks[at[r]]
    PROVE  ~Passed(r, s) /\ s # Callbacks[at[r]]
<1>1. /\ at[r] \in 1 .. Len(Callbacks)
      /\ pc[r] # "done"
  BY LoadFacts DEF Loaded
<1>2. \A i \in 1 .. at[r] - 1 : i \in 1 .. Len(Callbacks) /\ i < at[r]
  BY <1>1, CallbackFacts
<1>3. \A i \in 1 .. at[r] - 1 : Callbacks[i] # s
  <2> SUFFICES ASSUME NEW i \in 1 .. at[r] - 1, Callbacks[i] = s PROVE FALSE
    OBVIOUS
  <2>1. at[r] < i
    BY <1>1, <1>2, CallbackFacts
  <2> QED
    BY <1>1, <1>2, <2>1
<1>4. s # Callbacks[at[r]]
  <2> SUFFICES ASSUME s = Callbacks[at[r]] PROVE FALSE
    OBVIOUS
  <2>1. at[r] < at[r]
    BY <1>1, CallbackFacts
  <2> QED
    BY <1>1, <2>1
<1> QED
  BY <1>1, <1>3, <1>4 DEF Passed

\* A callback that sets its service, alone, to its load leaves the reload alone with
\* what it has passed.
LEMMA AloneNext ==
    ASSUME ReloadTypeOK, NEW r \in Reloads, Loaded(r), Alone(r), Advance(r),
           \A s \in Services \ Maps :
             held'[s] = IF s = Callbacks[at[r]] THEN r ELSE held[s],
           \A s \in Maps : held'[s] = r \/ created'[r] \cap Listed(s) = {},
           \A s \in Infos :
             /\ s = Callbacks[at[r]] => madeBy'[s] = held'[MapOf[s]]
             /\ (s # Callbacks[at[r]] /\ MapOf[s] # Callbacks[at[r]])
                  => madeBy'[s] = madeBy[s] /\ held'[MapOf[s]] = held[MapOf[s]]
    PROVE  Alone(r)'
<1>1. /\ pc'[r] \in {"run", "done"}
      /\ \A n \in Loads \ {r} : pc'[n] = pc[n]
  BY AdvanceKeeps DEF Loaded
<1>2. ASSUME NEW q \in Reloads, Loaded(q)' PROVE q = r
  BY <1>1, <1>2, LoadFacts DEF Loaded, Alone
<1>3. ASSUME NEW s \in Services \ Maps, Passed(r, s)' PROVE held'[s] = r
  BY <1>3, PassedNext DEF Alone
<1>4. ASSUME NEW s \in Infos, Passed(r, s)' PROVE madeBy'[s] = held'[MapOf[s]]
  <2>1. s \in Services
    BY DEF Infos
  <2>2. Passed(r, s) \/ s = Callbacks[at[r]]
    BY <1>4, <2>1, PassedNext
  <2>3. CASE s # Callbacks[at[r]] /\ MapOf[s] # Callbacks[at[r]]
    BY <2>2, <2>3 DEF Alone
  <2> QED
    BY <2>2, <2>3, MapFirst
<1> QED
  BY <1>1, <1>2, <1>3, <1>4 DEF Alone

\* The callbacks of a reload, and the swap with its parts.
AtWork(r) ==
    \/ \E s \in Services : RebuildProviders(r, s) \/ RebuildInfos(r, s) \/ Replace(r, s)
    \/ RebuildElsewhere(r)
    \/ SwapChecker(r)
    \/ StopOld(r)
    \/ StartNew(r)

\* No provider belongs to both maps.
LEMMA ListsDisjoint ==
    \A s, t \in Maps : s # t => Listed(s) \cap Listed(t) = {}
BY DEF Maps, Listed

\* A reload that is alone remains so with each of its steps.
LEMMA AtWorkAlone ==
    ASSUME ReloadTypeOK, CheckerInv, NEW r \in Reloads, Alone(r), AtWork(r)
    PROVE  Alone(r)'
<1>a. r \in Loads /\ Maps \subseteq Services /\ Infos \subseteq Services
  BY LoadFacts DEF Maps, Infos
<1>b. /\ Loaded(r)
      /\ (pc[r] = "run" \/ Callbacks[at[r]] = "Checker")
  BY DEF AtWork, Loaded, RebuildProviders, RebuildInfos, Replace, RebuildElsewhere, SwapChecker,
         StopOld, StartNew, Calls, CheckerInv, StopsOther
<1>1. ASSUME NEW s \in Services, RebuildProviders(r, s) PROVE Alone(r)'
  <2>1. s \in Maps /\ s = Callbacks[at[r]] /\ Advance(r) /\ UNCHANGED madeBy
    BY <1>1 DEF RebuildProviders, Calls
  <2>2. \A t \in Services : t # s => held'[t] = held[t]
    BY <1>1, <1>a DEF RebuildProviders, Store, ReloadTypeOK
  <2>3. ASSUME NEW t \in Maps PROVE held'[t] = r \/ created'[r] \cap Listed(t) = {}
    <3>1. PICK broken \in SUBSET Flaky :
            LET providers == (Enabled[read[r]] \cap Listed(s)) \ broken
            IN  IF providers = {}
                THEN UNCHANGED <<created, held>>
                ELSE /\ created' = [created EXCEPT ![r] = @ \cup providers]
                     /\ Store(r, s)
      BY <1>1 DEF RebuildProviders
    <3> DEFINE providers == (Enabled[read[r]] \cap Listed(s)) \ broken
    <3>2. CASE providers = {}
      BY <3>1, <3>2 DEF Alone
    <3>3. CASE providers # {} /\ t = s
      BY <1>a, <3>1, <3>3 DEF Store, ReloadTypeOK
    <3>4. CASE providers # {} /\ t # s
      <4>1. created'[r] = created[r] \cup providers /\ providers \subseteq Listed(s)
        BY <1>a, <3>1, <3>4 DEF ReloadTypeOK
      <4>2. Listed(s) \cap Listed(t) = {}
        BY <2>1, <3>4, ListsDisjoint
      <4>3. held'[t] = held[t]
        BY <1>a, <2>2, <3>4
      <4>4. held[t] = r \/ created[r] \cap Listed(t) = {}
        BY DEF Alone
      <4> HIDE DEF providers
      <4> QED
        BY <4>1, <4>2, <4>3, <4>4
    <3> QED
      BY <3>2, <3>3, <3>4
  <2>4. \A t \in Services \ Maps :
          held'[t] = IF t = Callbacks[at[r]] THEN r ELSE held[t]
    BY <2>1, <2>2
  <2>5. \A t \in Infos :
          /\ t # Callbacks[at[r]]
          /\ MapOf[t] # Callbacks[at[r]] => madeBy'[t] = madeBy[t] /\ held'[MapOf[t]] = held[MapOf[t]]
    BY <1>a, <2>1, <2>2, CallbackFacts DEF Maps, Infos
  <2> QED
    BY <1>b, <2>1, <2>3, <2>4, <2>5, AloneNext
<1>2. ASSUME NEW s \in Services, RebuildInfos(r, s) PROVE Alone(r)'
  <2>1. s \in Infos /\ s = Callbacks[at[r]] /\ Advance(r) /\ UNCHANGED created
    BY <1>2 DEF RebuildInfos, Calls
  <2>2. \A t \in Services : held'[t] = IF t = s THEN r ELSE held[t]
    BY <1>2, <1>a DEF RebuildInfos, Store, ReloadTypeOK
  <2>3. \A t \in Infos : madeBy'[t] = IF t = s THEN held[MapOf[s]] ELSE madeBy[t]
    BY <1>2 DEF RebuildInfos, ReloadTypeOK
  <2>4. \A t \in Maps : t # s
    BY <2>1 DEF Maps, Infos
  <2>5. \A t \in Maps : held'[t] = held[t]
    BY <1>a, <2>2, <2>4
  <2>6. \A t \in Infos : MapOf[t] \in Maps
    BY CallbackFacts
  <2>7. \A t \in Maps : held'[t] = r \/ created'[r] \cap Listed(t) = {}
    BY <2>1, <2>5 DEF Alone
  <2>8. \A t \in Services \ Maps : held'[t] = IF t = Callbacks[at[r]] THEN r ELSE held[t]
    BY <2>1, <2>2
  <2>9. \A t \in Infos :
          /\ t = Callbacks[at[r]] => madeBy'[t] = held'[MapOf[t]]
          /\ (t # Callbacks[at[r]] /\ MapOf[t] # Callbacks[at[r]])
               => madeBy'[t] = madeBy[t] /\ held'[MapOf[t]] = held[MapOf[t]]
    BY <2>1, <2>3, <2>5, <2>6
  <2> QED
    BY <1>b, <2>1, <2>7, <2>8, <2>9, AloneNext
<1>3. ASSUME Advance(r), UNCHANGED <<created, madeBy>>,
             Callbacks[at[r]] \notin Maps \cup Infos,
             \A t \in Services : held'[t] = IF t = Callbacks[at[r]] THEN r ELSE held[t]
      PROVE  Alone(r)'
  <2>1. \A t \in Maps : t \in Services /\ held'[t] = held[t]
    BY <1>3, <1>a
  <2>2. \A t \in Infos : MapOf[t] \in Maps
    BY CallbackFacts
  <2>3. \A t \in Maps : held'[t] = r \/ created'[r] \cap Listed(t) = {}
    BY <1>3, <2>1 DEF Alone
  <2>4. \A t \in Infos : t # Callbacks[at[r]] /\ madeBy'[t] = madeBy[t] /\ held'[MapOf[t]] = held[MapOf[t]]
    BY <1>3, <2>1, <2>2
  <2> QED
    BY <1>3, <1>b, <2>3, <2>4, AloneNext
<1>4. ASSUME NEW s \in Services, Replace(r, s) PROVE Alone(r)'
  <2>1. /\ s = Callbacks[at[r]] /\ Advance(r) /\ UNCHANGED <<created, madeBy>>
        /\ s \notin Maps \cup Infos
    BY <1>4 DEF Replace, Calls, Maps, Infos
  <2>2. \A t \in Services : held'[t] = IF t = s THEN r ELSE held[t]
    BY <1>4, <1>a DEF Replace, Store, ReloadTypeOK
  <2> QED
    BY <1>3, <2>1, <2>2
<1>5. CASE RebuildElsewhere(r)
  <2>1. /\ Callbacks[at[r]] \in Elsewhere /\ Advance(r) /\ UNCHANGED <<created, madeBy, held>>
    BY <1>5 DEF RebuildElsewhere, Calls, serviceVars
  <2>2. Callbacks[at[r]] \notin Services
    BY <2>1, CallbackFacts
  <2> QED
    BY <1>3, <1>a, <2>1, <2>2
<1>6. CASE SwapChecker(r)
  <2>1. /\ Callbacks[at[r]] = "Checker" /\ pc[r] = "run" /\ UNCHANGED <<created, madeBy>>
        /\ \A t \in Services : held'[t] = IF t = "Checker" THEN r ELSE held[t]
    BY <1>6, <1>a DEF SwapChecker, Calls, Store, ReloadTypeOK
  <2>2. CASE ~started
    BY <1>3, <1>6, <2>1, <2>2, CallbackFacts DEF SwapChecker
  <2>3. CASE started
    <3>1. /\ pc'[r] = "stop" /\ at' = at
          /\ \A n \in Loads \ {r} : pc'[n] = pc[n]
      BY <1>6, <1>a, <2>3 DEF SwapChecker, ReloadTypeOK
    <3>2. Current' = r
      BY <2>1, CallbackFacts DEF Current
    <3>3. ASSUME NEW s \in Services PROVE Passed(r, s)' => Passed(r, s)
      BY <2>1, <3>1 DEF Passed
    <3>4. \A t \in Maps : held'[t] = held[t]
      BY <1>a, <2>1, CallbackFacts
    <3>5. \A t \in Infos : t \in Services /\ MapOf[t] \in Maps
      BY <1>a, CallbackFacts
    <3>6. ASSUME NEW q \in Reloads, Loaded(q)' PROVE q = r
      BY <3>1, <3>6, LoadFacts DEF Loaded, Alone
    <3> QED
      BY <2>1, <3>1, <3>2, <3>3, <3>4, <3>5, <3>6 DEF Alone
  <2> QED
    BY <2>2, <2>3
<1>7. CASE StopOld(r)
  <2>1. /\ pc[r] = "stop" /\ pc'[r] = "wait"
        /\ UNCHANGED <<at, created, madeBy, held>>
        /\ \A n \in Loads \ {r} : pc'[n] = pc[n]
    BY <1>7, <1>a DEF StopOld, ReloadTypeOK, serviceVars
  <2>2. ASSUME NEW s \in Services PROVE Passed(r, s)' => Passed(r, s)
    BY <2>1 DEF Passed
  <2>3. ASSUME NEW q \in Reloads, Loaded(q)' PROVE q = r
    BY <2>1, <2>3, LoadFacts DEF Loaded, Alone
  <2>4. Current' = Current
    BY <2>1 DEF Current
  <2> QED
    BY <1>a, <2>1, <2>2, <2>3, <2>4 DEF Alone
<1>8. CASE StartNew(r)
  <2>1. /\ Callbacks[at[r]] = "Checker" /\ Advance(r) /\ UNCHANGED <<created, madeBy, held>>
        /\ Current = r
    BY <1>8, <1>b DEF StartNew, serviceVars, Alone
  <2> QED
    BY <1>3, <2>1, CallbackFacts DEF Current
<1> QED
  BY <1>1, <1>2, <1>4, <1>5, <1>6, <1>7, <1>8 DEF AtWork

\* What a reload at work leaves as it is.
LEMMA AtWorkKeeps ==
    ASSUME ReloadTypeOK, NEW r \in Reloads, AtWork(r)
    PROVE  /\ Loaded(r) /\ pc'[r] \in {"run", "stop", "wait", "done"}
           /\ \A n \in Loads \ {r} : pc'[n] = pc[n] /\ at'[n] = at[n] /\ created'[n] = created[n]
           /\ UNCHANGED <<file, events, watching, timer, read, phase, last, mixed>>
<1>a. r \in Loads
  BY LoadFacts
<1>1. UNCHANGED <<file, events, watching, timer, read, phase, last, mixed>>
  BY DEF AtWork, RebuildProviders, RebuildInfos, Replace, RebuildElsewhere, SwapChecker, StopOld,
         StartNew, watcherVars, history
<1>2. \A n \in Loads \ {r} : created'[n] = created[n]
  BY <1>a DEF AtWork, RebuildProviders, RebuildInfos, Replace, RebuildElsewhere, SwapChecker,
         StopOld, StartNew, ReloadTypeOK
<1>3. CASE Advance(r) /\ pc[r] \in {"run", "wait"}
  BY <1>1, <1>2, <1>3, AdvanceKeeps DEF Loaded
<1>4. CASE UNCHANGED at /\ \/ pc[r] = "run" /\ pc' = [pc EXCEPT ![r] = "stop"]
                           \/ pc[r] = "stop" /\ pc' = [pc EXCEPT ![r] = "wait"]
  BY <1>1, <1>2, <1>4, <1>a DEF Loaded, ReloadTypeOK
<1> QED
  BY <1>3, <1>4 DEF AtWork, RebuildProviders, RebuildInfos, Replace, RebuildElsewhere, SwapChecker,
         StopOld, StartNew, Calls

\* A reload at work keeps the invariant.
LEMMA AtWorkServiceInv ==
    ASSUME ReloadTypeOK, CheckerInv, ServiceInv, NEW r \in Reloads, AtWork(r)
    PROVE  ServiceInv'
<1>a. r \in Loads /\ Reloads \subseteq Loads /\ last \in Loads
  BY LoadFacts DEF ReloadTypeOK
<1>b. /\ Loaded(r) /\ pc'[r] \in {"run", "stop", "wait", "done"}
      /\ \A n \in Loads \ {r} : pc'[n] = pc[n] /\ at'[n] = at[n] /\ created'[n] = created[n]
      /\ UNCHANGED <<file, events, watching, timer, read, phase, last, mixed>>
  BY AtWorkKeeps
<1>1. NotMissed'
  <2>1. \A n \in Reloads : pc[n] \in {"fired", "load"} => pc'[n] = pc[n]
    BY <1>a, <1>b DEF Loaded
  <2> QED
    BY <1>b, <2>1 DEF ServiceInv, NotMissed
<1>2. \A n \in Loads : Fresh(n)'
  BY <1>b DEF ServiceInv, Fresh
<1>3. Loaded(last)' \/ pc'[last'] = "done"
  <2>1. CASE last = r
    BY <1>b, <2>1 DEF Loaded
  <2>2. CASE last # r
    BY <1>a, <1>b, <2>2 DEF ServiceInv, Loaded
  <2> QED
    BY <2>1, <2>2
<1>4. ~mixed' => Alone(last)'
  <2> SUFFICES ASSUME ~mixed PROVE Alone(last)'
    BY <1>b
  <2>1. r = last /\ Alone(r)
    BY <1>b DEF ServiceInv, Alone
  <2>2. Alone(r)'
    BY <2>1, AtWorkAlone
  <2>3. r = last'
    BY <1>b, <2>1
  <2> QED
    BY <2>2, <2>3 DEF Alone, Passed
<1> QED
  BY <1>1, <1>2, <1>3, <1>4 DEF ServiceInv

\* The timer and the check whether the watcher is closed.
LEMMA StartServiceInv ==
    ASSUME ReloadTypeOK, ServiceInv, NEW r \in Reloads, TimerFires(r) \/ CheckClosed(r)
    PROVE  ServiceInv'
<1>a. r \in Loads /\ Reloads \subseteq Loads /\ last \in Loads
  BY LoadFacts DEF ReloadTypeOK
<1>b. /\ pc[r] \in {"idle", "fired"} /\ pc'[r] \in {"fired", "load", "done"}
      /\ \A n \in Loads \ {r} : pc'[n] = pc[n]
      /\ UNCHANGED <<file, events, watching, at, read, created, held, madeBy, phase, last, mixed>>
  BY <1>a DEF TimerFires, CheckClosed, ReloadTypeOK, watcherVars, serviceVars, history
<1>1. NotMissed'
  <2>1. CASE TimerFires(r)
    BY <1>a, <2>1 DEF TimerFires, NotMissed, ReloadTypeOK
  <2>2. CASE CheckClosed(r)
    <3>1. phase = "serving" => pc'[r] = "load"
      BY <1>a, <2>2 DEF CheckClosed, ReloadTypeOK
    <3> QED
      BY <1>b, <2>2, <3>1 DEF CheckClosed, NotMissed
  <2> QED
    BY <2>1, <2>2
<1>2. \A n \in Loads : Fresh(n)'
  BY <1>b DEF ServiceInv, Fresh
<1>3. last # r
  BY <1>b DEF ServiceInv, Loaded
<1>4. Loaded(last)' \/ pc'[last'] = "done"
  BY <1>a, <1>b, <1>3 DEF ServiceInv, Loaded
<1>5. ~mixed' => Alone(last)'
  <2> SUFFICES ASSUME ~mixed PROVE Alone(last)'
    BY <1>b
  <2>1. \A q \in Reloads : Loaded(q)' => Loaded(q)
    BY <1>a, <1>b DEF Loaded
  <2>2. pc'[last] = pc[last] /\ last' = last
    BY <1>a, <1>b, <1>3
  <2>3. \A s \in Services : Passed(last, s)' => Passed(last, s)
    BY <1>b, <2>2 DEF Passed
  <2>4. \A s \in Infos : s \in Services
    BY DEF Infos
  <2>5. Alone(last)
    BY DEF ServiceInv
  <2>6. Current' = Current
    BY <1>b DEF Current
  <2> QED
    BY <1>b, <2>1, <2>2, <2>3, <2>4, <2>5, <2>6 DEF Alone
<1> QED
  BY <1>1, <1>2, <1>4, <1>5 DEF ServiceInv

\* The file is read: whoever reads it is the last from now on.
LEMMA LoadServiceInv ==
    ASSUME ReloadTypeOK, ServiceInv, NEW r \in Reloads, Load(r)
    PROVE  ServiceInv'
<1>a. r \in Loads /\ Reloads \subseteq Loads /\ last \in Loads
  BY LoadFacts DEF ReloadTypeOK
<1>b. /\ pc[r] = "load" /\ read'[r] = file
      /\ \A n \in Loads \ {r} : pc'[n] = pc[n] /\ read'[n] = read[n]
      /\ UNCHANGED <<file, events, watching, timer, at, created, held, madeBy, phase>>
  BY <1>a DEF Load, ReloadTypeOK, watcherVars, serviceVars
<1>c. last # r
  BY <1>b DEF ServiceInv, Loaded
<1>d. Fresh(r)
  BY <1>a DEF ServiceInv
<1>1. CASE file \in Parsed
  <2>1. /\ pc'[r] = "run" /\ last' = r
        /\ mixed' = \E q \in Reloads : Loaded(q)
    BY <1>1, <1>a DEF Load, ReloadTypeOK
  <2>2. NotMissed'
    BY <1>b, <2>1 DEF NotMissed
  <2>3. \A n \in Loads : Fresh(n)'
    BY <1>b, <2>1 DEF ServiceInv, Fresh
  <2>4. ~mixed' => Alone(r)'
    <3> SUFFICES ASSUME ~mixed' PROVE Alone(r)'
      OBVIOUS
    <3>1. \A q \in Reloads : Loaded(q)' => q = r
      BY <1>a, <1>b, <2>1 DEF Loaded
    <3>2. at'[r] = 1 /\ created'[r] = {}
      BY <1>b, <1>d DEF Fresh
    <3>3. \A s \in Services : ~Passed(r, s)'
      BY <2>1, <3>2 DEF Passed
    <3>4. \A s \in Infos : s \in Services
      BY DEF Infos
    <3> QED
      BY <2>1, <3>1, <3>2, <3>3, <3>4 DEF Alone
  <2>5. ~mixed' => Alone(last)'
    BY <2>1, <2>4 DEF Alone, Passed
  <2> QED
    BY <2>1, <2>2, <2>3, <2>5 DEF ServiceInv, Loaded
<1>2. CASE file \notin Parsed
  <2>1. pc'[r] = "done" /\ UNCHANGED <<last, mixed>>
    BY <1>2, <1>a DEF Load, ReloadTypeOK, history
  <2>2. NotMissed'
    BY <1>2, <1>b DEF NotMissed
  <2>3. \A n \in Loads : Fresh(n)'
    BY <1>b, <2>1 DEF ServiceInv, Fresh
  <2>4. Loaded(last)' \/ pc'[last'] = "done"
    BY <1>a, <1>b, <1>c, <2>1 DEF ServiceInv, Loaded
  <2>5. ~mixed' => Alone(last)'
    <3> SUFFICES ASSUME ~mixed PROVE Alone(last)'
      BY <2>1
    <3>1. \A q \in Reloads : Loaded(q)' => Loaded(q)
      BY <1>a, <1>b, <2>1 DEF Loaded
    <3>2. pc'[last] = pc[last] /\ last' = last
      BY <1>a, <1>b, <1>c, <2>1
    <3>3. \A s \in Services : Passed(last, s)' => Passed(last, s)
      BY <1>b, <3>2 DEF Passed
    <3>4. \A s \in Infos : s \in Services
      BY DEF Infos
    <3>5. Alone(last)
      BY DEF ServiceInv
    <3>6. Current' = Current
      BY <1>b DEF Current
    <3> QED
      BY <1>b, <3>1, <3>2, <3>3, <3>4, <3>5, <3>6 DEF Alone
  <2> QED
    BY <2>2, <2>3, <2>4, <2>5 DEF ServiceInv
<1> QED
  BY <1>1, <1>2

\* The steps that are no reload's.
LEMMA RestServiceInv ==
    ASSUME ReloadTypeOK, ServiceInv, UNCHANGED <<reloadVars, serviceVars, history>>,
           \/ \E c \in Contents : Edit(c)
           \/ HandleEvent
           \/ LoopEnds
           \/ UNCHANGED watcherVars /\ (phase' = phase \/ phase' # "serving")
    PROVE  ServiceInv'
<1>1. /\ UNCHANGED <<pc, at, read, created, held, madeBy, last, mixed>>
  BY DEF reloadVars, serviceVars, history
<1>2. NotMissed'
  <2>1. ASSUME NEW c \in Contents, Edit(c) PROVE NotMissed'
    <3>1. events' > 0
      BY <2>1, ReloadAssumption DEF Edit, ReloadTypeOK
    <3> QED
      BY <3>1 DEF NotMissed
  <2>2. CASE HandleEvent
    BY <2>2 DEF HandleEvent, NotMissed
  <2>3. CASE LoopEnds
    BY <2>3 DEF LoopEnds, NotMissed
  <2>4. CASE UNCHANGED watcherVars /\ (phase' = phase \/ phase' # "serving")
    BY <1>1, <2>4 DEF watcherVars, ServiceInv, NotMissed
  <2> QED
    BY <2>1, <2>2, <2>3, <2>4
<1>3. \A n \in Loads : Fresh(n)'
  BY <1>1 DEF ServiceInv, Fresh
<1>4. Loaded(last)' \/ pc'[last'] = "done"
  BY <1>1 DEF ServiceInv, Loaded
<1>5. ~mixed' => Alone(last)'
  BY <1>1 DEF ServiceInv, Alone, Passed, Loaded, Current
<1> QED
  BY <1>2, <1>3, <1>4, <1>5 DEF ServiceInv

\* Together: every step keeps the invariant.
LEMMA StepServiceInv == TypeOK /\ CheckerInv /\ ServiceInv /\ [Next]_proxyVars => ServiceInv'
<1> SUFFICES ASSUME TypeOK, CheckerInv, ServiceInv, [Next]_proxyVars PROVE ServiceInv'
  OBVIOUS
<1>1. ReloadTypeOK
  BY DEF TypeOK
<1>2. CASE UNCHANGED reloadAll
  BY <1>1, <1>2, RestServiceInv DEF reloadAll
<1>3. CASE ReloadNext
  <2>1. ASSUME NEW r \in Reloads, TimerFires(r) \/ ReloadStep(r) PROVE ServiceInv'
    BY <1>1, <2>1, AtWorkServiceInv, StartServiceInv, LoadServiceInv DEF ReloadStep, AtWork
  <2>2. ASSUME NEW c \in Contents, Edit(c) PROVE ServiceInv'
    BY <1>1, <2>2, RestServiceInv DEF Edit
  <2>3. CASE HandleEvent \/ LoopEnds
    BY <1>1, <2>3, RestServiceInv DEF HandleEvent, LoopEnds
  <2>4. CASE (\E n \in Loads : CheckerEnds(n)) \/ CancelWatch \/ Shutdown
    <3>1. UNCHANGED <<reloadVars, serviceVars, history, watcherVars>>
      BY <2>4 DEF CheckerEnds, CancelWatch, Shutdown, StopCurrent, CheckerStopped, CloseWatcher
    <3>2. phase' = phase \/ phase' # "serving"
      BY <2>4 DEF CheckerEnds, CancelWatch, Shutdown, StopCurrent, CheckerStopped, CloseWatcher
    <3> QED
      BY <1>1, <3>1, <3>2, RestServiceInv
  <2> QED
    BY <1>3, <2>1, <2>2, <2>3, <2>4 DEF ReloadNext
<1> QED
  BY <1>2, <1>3 DEF Next, ReloadBeside, proxyVars

\* With no reload at work, and none having run beside the last one, the services hold
\* the last load.
LEMMA QuietAllHold ==
    ASSUME ReloadTypeOK, CheckerInv, ServiceInv, NoReload, ~mixed
    PROVE  AllHold(last)
<1>1. last \in Loads /\ (last \in Reloads \/ last = 0)
  BY ReloadAssumption DEF ReloadTypeOK, Loads, Reloads
<1>2. pc[last] = "done"
  BY <1>1 DEF NoReload, Active, ServiceInv, Loaded, CheckerInv
<1>3. Alone(last) /\ \A s \in Services : Passed(last, s)
  BY <1>2 DEF ServiceInv, Passed
<1> QED
  BY <1>3 DEF Alone, AllHold, Infos

\* No change of the file is missed, and reloads that do not overlap leave no service
\* behind.
THEOREM SettledOnFileHolds == Spec => []SettledOnFile
<1>1. TypeOK /\ CheckerInv /\ ServiceInv => SettledOnFile
  <2> SUFFICES ASSUME TypeOK, CheckerInv, ServiceInv, Settled
               PROVE  /\ file \in Parsed => read[last] = file
                      /\ ~mixed => AllHold(last)
    BY DEF SettledOnFile
  <2>1. ReloadTypeOK /\ NoReload /\ ~timer /\ events = 0 /\ watching /\ phase = "serving"
    BY DEF TypeOK, Settled
  <2>2. \A r \in Reloads : pc[r] \notin {"fired", "load"}
    BY <2>1 DEF NoReload, Active
  <2>3. file \in Parsed => read[last] = file
    BY <2>1, <2>2 DEF ServiceInv, NotMissed
  <2> QED
    BY <2>1, <2>3, QuietAllHold
<1> QED
  BY <1>1, InitTypeOK, StepTypeOK, InitCheckerInv, StepCheckerInv, InitServiceInv, StepServiceInv,
     PTL DEF Spec

--------------------------------------------------------------------------------
(* What was built. *)

\* With the reloads at places c, load n has read the file.
HasRead(c, n) == c[n] \notin {"idle", "fired", "load"}

\* Whatever is in use was built by a load that has read the file: what that load gives
\* a provider does not change any more.
MadeInv ==
    /\ \A s \in Services : HasRead(pc, held[s])
    /\ \A s \in Infos : HasRead(pc, madeBy[s])
    /\ \A p \in Providers : HasRead(pc, proxies[p].made)
    /\ \A q \in Requests : HasRead(pc, inputs[q].made) /\ HasRead(pc, sentWith[q].made)

\* The load of the start has.
LEMMA InitMadeInv == Init => MadeInv
<1> SUFFICES ASSUME Init PROVE MadeInv
  OBVIOUS
<1>1. HasRead(pc, 0)
  BY ReloadAssumption DEF Init, ReloadInit, HasRead, Loads
<1>2. \A s \in Services : held[s] = 0
  BY DEF Init, ReloadInit
<1>3. \A s \in Infos : madeBy[s] = 0
  BY DEF Init, ReloadInit
<1>4. \A p \in Providers : proxies[p].made = 0
  BY DEF Init, Proxy, NoProxy
<1>5. \A q \in Requests : inputs[q].made = 0 /\ sentWith[q].made = 0
  BY DEF Init, NoProxy
<1> HIDE DEF HasRead
<1> QED
  BY <1>1, <1>2, <1>3, <1>4, <1>5 DEF MadeInv

\* A load that has read the file reads it no more.
LEMMA ReadStays ==
    ASSUME ReloadTypeOK, ReloadNext \/ UNCHANGED reloadAll, NEW n \in Loads, HasRead(pc, n)
    PROVE  HasRead(pc', n) /\ read'[n] = read[n]
<1>a. Reloads \subseteq Loads
  BY ReloadAssumption DEF Reloads, Loads
<1>1. CASE UNCHANGED <<pc, read>>
  BY <1>1 DEF HasRead
<1>2. ASSUME NEW r \in Reloads, TimerFires(r) \/ CheckClosed(r)
      PROVE  HasRead(pc', n) /\ read'[n] = read[n]
  <2>1. n # r /\ pc'[n] = pc[n] /\ read' = read
    BY <1>2, <1>a DEF TimerFires, CheckClosed, HasRead, ReloadTypeOK
  <2> QED
    BY <2>1 DEF HasRead
<1>3. ASSUME NEW r \in Reloads, Load(r)
      PROVE  HasRead(pc', n) /\ read'[n] = read[n]
  <2>1. n # r
    BY <1>3 DEF Load, HasRead
  <2>2. pc'[n] = pc[n] /\ read'[n] = read[n]
    BY <1>3, <1>a, <2>1 DEF Load, ReloadTypeOK
  <2> QED
    BY <2>2 DEF HasRead
<1>4. ASSUME NEW r \in Reloads, AtWork(r)
      PROVE  HasRead(pc', n) /\ read'[n] = read[n]
  <2>1. pc'[n] = pc[n] \/ pc'[n] \in {"run", "stop", "wait", "done"}
    BY <1>4, AtWorkKeeps
  <2>2. read' = read
    BY <1>4, AtWorkKeeps
  <2> QED
    BY <2>1, <2>2 DEF HasRead
<1>5. CASE \/ \E c \in Contents : Edit(c)
           \/ HandleEvent \/ LoopEnds
           \/ \E m \in Loads : CheckerEnds(m)
           \/ CancelWatch \/ Shutdown
           \/ UNCHANGED reloadAll
  <2>1. UNCHANGED <<pc, read>>
    BY <1>5 DEF Edit, HandleEvent, LoopEnds, CheckerEnds, CancelWatch, Shutdown, StopCurrent,
                CheckerStopped, CloseWatcher, reloadVars, reloadAll
  <2> QED
    BY <1>1, <2>1
<1> QED
  BY <1>2, <1>3, <1>4, <1>5 DEF ReloadNext, ReloadStep, AtWork

\* A service that changes hands goes to a reload at work, and a routing list then names
\* the load of a provider map.
LEMMA HeldByReader ==
    ASSUME ReloadTypeOK, NEW r \in Reloads, AtWork(r)
    PROVE  /\ \A s \in Services : held'[s] = held[s] \/ held'[s] = r
           /\ \A s \in Infos : madeBy'[s] = madeBy[s] \/ \E t \in Services : madeBy'[s] = held[t]
<1>1. \A s \in Services : held'[s] = held[s] \/ held'[s] = r
  BY DEF AtWork, RebuildProviders, RebuildInfos, Replace, RebuildElsewhere, SwapChecker, StopOld,
         StartNew, Store, serviceVars, ReloadTypeOK
<1>2. \A s \in Infos : madeBy'[s] = madeBy[s] \/ \E t \in Services : madeBy'[s] = held[t]
  <2>1. ASSUME NEW i \in Services, RebuildInfos(r, i), NEW s \in Infos
        PROVE  madeBy'[s] = madeBy[s] \/ \E t \in Services : madeBy'[s] = held[t]
    <3>1. MapOf[i] \in Services
      BY <2>1, CallbackFacts DEF RebuildInfos, Maps
    <3>2. madeBy'[s] = madeBy[s] \/ madeBy'[s] = held[MapOf[i]]
      BY <2>1 DEF RebuildInfos, ReloadTypeOK
    <3> QED
      BY <3>1, <3>2
  <2>2. CASE UNCHANGED madeBy
    BY <2>2
  <2> QED
    BY <2>1, <2>2 DEF AtWork, RebuildProviders, Replace, RebuildElsewhere, SwapChecker, StopOld,
                      StartNew, serviceVars
<1> QED
  BY <1>1, <1>2

\* The services are left with loads that have read the file.
LEMMA ServicesMade ==
    ASSUME ReloadTypeOK, MadeInv, ReloadNext \/ UNCHANGED reloadAll
    PROVE  /\ \A s \in Services : HasRead(pc', held'[s])
           /\ \A s \in Infos : HasRead(pc', madeBy'[s])
<1>1. /\ \A s \in Services : HasRead(pc', held[s])
      /\ \A s \in Infos : HasRead(pc', madeBy[s])
  BY ReadStays DEF ReloadTypeOK, MadeInv
<1>2. CASE UNCHANGED serviceVars
  BY <1>1, <1>2 DEF serviceVars
<1>3. ASSUME NEW r \in Reloads, AtWork(r)
      PROVE  /\ \A s \in Services : HasRead(pc', held'[s])
             /\ \A s \in Infos : HasRead(pc', madeBy'[s])
  <2>1. HasRead(pc', r)
    BY <1>3, AtWorkKeeps DEF HasRead
  <2>2. \A s \in Services : HasRead(pc', held'[s])
    BY <1>1, <1>3, <2>1, HeldByReader
  <2>3. \A s \in Infos : HasRead(pc', madeBy'[s])
    BY <1>1, <1>3, HeldByReader
  <2> QED
    BY <2>2, <2>3
<1>4. CASE \/ \E c \in Contents : Edit(c)
           \/ HandleEvent \/ LoopEnds
           \/ \E m \in Loads : CheckerEnds(m)
           \/ \E r \in Reloads : TimerFires(r) \/ CheckClosed(r) \/ Load(r)
           \/ CancelWatch \/ Shutdown
           \/ UNCHANGED reloadAll
  <2>1. UNCHANGED serviceVars
    BY <1>4 DEF Edit, HandleEvent, LoopEnds, CheckerEnds, CancelWatch, Shutdown, StopCurrent,
                CheckerStopped, CloseWatcher, TimerFires, CheckClosed, Load, reloadAll
  <2> QED
    BY <1>2, <2>1
<1> QED
  BY <1>3, <1>4 DEF ReloadNext, ReloadStep, AtWork

\* And so are the requests and the proxies by their own steps.
LEMMA StepMadeInv == TypeOK /\ CheckerInv /\ MadeInv /\ [Next]_proxyVars => MadeInv'
<1> SUFFICES ASSUME TypeOK, CheckerInv, MadeInv, [Next]_proxyVars PROVE MadeInv'
  OBVIOUS
<1>a. ReloadTypeOK /\ HasRead(pc, 0) /\ 0 \in Loads
  BY ReloadAssumption DEF TypeOK, CheckerInv, HasRead, Loads
<1>b. ReloadNext \/ UNCHANGED reloadAll
  BY DEF Next, ReloadBeside, proxyVars
<1>c. /\ \A s \in Services : HasRead(pc', held'[s])
      /\ \A s \in Infos : HasRead(pc', madeBy'[s])
  BY <1>a, <1>b, ServicesMade
<1>d. \A n \in Loads : HasRead(pc, n) => HasRead(pc', n)
  BY <1>a, <1>b, ReadStays
<1>e. /\ \A p \in Providers : proxies[p].made \in Loads /\ HasRead(pc, proxies[p].made)
      /\ \A q \in Requests : /\ inputs[q].made \in Loads /\ HasRead(pc, inputs[q].made)
                             /\ sentWith[q].made \in Loads /\ HasRead(pc, sentWith[q].made)
  BY DEF TypeOK, MadeInv, Inputs, ProxyType
<1>f. ASSUME \A p \in Providers : proxies'[p].made \in Loads /\ HasRead(pc, proxies'[p].made),
             \A q \in Requests : /\ inputs'[q].made \in Loads /\ HasRead(pc, inputs'[q].made)
                               /\ sentWith'[q].made \in Loads
                               /\ HasRead(pc, sentWith'[q].made)
      PROVE  MadeInv'
  BY <1>c, <1>d, <1>f DEF MadeInv
<1>1. CASE ReloadBeside
  <2>1. \A p \in Providers : proxies'[p].made \in Loads /\ HasRead(pc, proxies'[p].made)
    BY <1>1, <1>a, <1>e DEF ReloadBeside, NoProxy
  <2> QED
    BY <1>1, <1>e, <1>f, <2>1 DEF ReloadBeside, requestVars
<1>2. ASSUME NEW q \in Requests, RequestStep(q) PROVE MadeInv'
  <2>1. \A o \in Requests \ {q} : inputs'[o] = inputs[o] /\ sentWith'[o] = sentWith[o]
    BY <1>2 DEF RequestStep, Select, ReadKeys, ReadPools, FastPath, MissFast, SlowPath, Answered,
                Take, TypeOK
  <2>2. \A p \in Providers : proxies'[p].made \in Loads /\ HasRead(pc, proxies'[p].made)
    <3>1. CASE UNCHANGED proxies
      BY <1>e, <3>1
    <3>2. CASE SlowPath(q)
      BY <1>e, <3>2 DEF SlowPath, Proxy, TypeOK
    <3> QED
      BY <1>2, <3>1, <3>2 DEF RequestStep, Select, ReadKeys, ReadPools, FastPath, MissFast, Answered
  <2>3. inputs'[q].made \in Loads /\ HasRead(pc, inputs'[q].made)
    <3>1. ASSUME NEW p \in Providers, Select(q, p) PROVE inputs'[q].made = madeBy[InfosOf(p)]
      BY <3>1 DEF Select, TypeOK, Inputs
    <3>2. \A p \in Providers : madeBy[InfosOf(p)] \in Loads /\ HasRead(pc, madeBy[InfosOf(p)])
      BY <1>a, ReadTyped DEF MadeInv, ReloadTypeOK
    <3>3. CASE ReadKeys(q) \/ ReadPools(q)
      <4>1. inputs'[q].made = inputs[q].made
        BY <3>3 DEF ReadKeys, ReadPools, TypeOK, Inputs
      <4> QED
        BY <1>e, <4>1
    <3>4. CASE FastPath(q) \/ MissFast(q) \/ SlowPath(q)
      BY <1>e, <3>4 DEF FastPath, MissFast, SlowPath
    <3>5. CASE Answered(q)
      <4>1. inputs'[q].made = 0
        BY <3>5 DEF Answered, TypeOK
      <4> QED
        BY <1>a, <4>1
    <3> QED
      BY <1>2, <3>1, <3>2, <3>3, <3>4, <3>5 DEF RequestStep
  <2>4. sentWith'[q].made \in Loads /\ HasRead(pc, sentWith'[q].made)
    <3>1. CASE UNCHANGED sentWith
      BY <1>e, <3>1
    <3>2. CASE FastPath(q) \/ SlowPath(q)
      <4>1. \E p \in Providers : sentWith'[q] = proxies'[p]
        BY <3>2 DEF FastPath, SlowPath, Take, TypeOK
      <4> QED
        BY <2>2, <4>1
    <3>3. CASE Answered(q)
      <4>1. sentWith'[q] = NoProxy
        BY <3>3 DEF Answered, TypeOK
      <4> QED
        BY <1>a, <4>1 DEF NoProxy
    <3> QED
      BY <1>2, <3>1, <3>2, <3>3 DEF RequestStep, Select, ReadKeys, ReadPools, MissFast
  <2> QED
    BY <1>e, <1>f, <2>1, <2>2, <2>3, <2>4
<1>3. CASE UNCHANGED proxyVars
  BY <1>e, <1>f, <1>3 DEF proxyVars, cacheVars, requestVars
<1> QED
  BY <1>1, <1>2, <1>3 DEF Next

--------------------------------------------------------------------------------
(* The requests. *)

\* A request goes through a proxy that matches what it has read.
SentAsRead(q) == step[q] = "sent" => Matches(provider[q], sentWith[q], inputs[q])

\* Where a request has the keys, and where it has the pools.
HasKeys(q) ==
    \/ step[q] \in {"fast", "slow", "sent"}
    \/ step[q] = "pools" /\ ~PoolsFirst(q)
HasPools(q) ==
    \/ step[q] \in {"fast", "slow", "sent"}
    \/ step[q] = "keys" /\ PoolsFirst(q)

\* What a request has read so far is what the last load says.
ReadsLast(q) ==
    LET p == provider[q]
    IN  /\ ~mixed
        /\ p \in Enabled[read[last]]
        /\ inputs[q].made = held[MapOf[InfosOf(p)]]
        /\ HasKeys(q) => inputs[q].key = KeyAt(last, p)
        /\ HasPools(q) => inputs[q].pool = PoolAt(last, p)

\* The load that a request began under is over, so that another is the last once
\* the services change.
BeganSettled(q) ==
    (step[q] # "idle" /\ began[q] # NotSettled) =>
        /\ pc[began[q]] = "done"
        /\ began[q] = last => ReadsLast(q)

RequestInv == \A q \in Requests : SentAsRead(q) /\ BeganSettled(q)

\* No request is under way.
LEMMA InitRequestInv == Init => RequestInv
BY DEF Init, RequestInv, SentAsRead, BeganSettled

\* A proxy made from what a request has read matches it.
LEMMA ProxyMatches ==
    ASSUME NEW p, NEW in
    PROVE  Matches(p, Proxy(in), in)
BY DEF Matches, Proxy, Alike

\* What a reload does about what a request has read: while the load that it began
\* under is the last, nothing.
LEMMA ReloadRequestInv ==
    ASSUME TypeOK, CheckerInv, ServiceInv, MadeInv, RequestInv,
           ReloadNext \/ UNCHANGED reloadAll, UNCHANGED requestVars
    PROVE  RequestInv'
<1> SUFFICES ASSUME NEW q \in Requests PROVE SentAsRead(q)' /\ BeganSettled(q)'
  BY DEF RequestInv
<1>a. ReloadTypeOK /\ SentAsRead(q) /\ BeganSettled(q)
  BY DEF TypeOK, RequestInv
<1>b. UNCHANGED <<step, provider, inputs, sentWith, began>>
  BY DEF requestVars
<1>c. last \in Loads /\ Reloads \subseteq Loads
  BY <1>a, LoadFacts DEF ReloadTypeOK
<1>1. SentAsRead(q)'
  <2>1. inputs[q].made \in Loads /\ sentWith[q].made \in Loads
    BY DEF TypeOK, Inputs, ProxyType
  <2>2. /\ read'[inputs[q].made] = read[inputs[q].made]
        /\ read'[sentWith[q].made] = read[sentWith[q].made]
    BY <1>a, <2>1, ReadStays DEF MadeInv
  <2>3. Matches(provider[q], sentWith[q], inputs[q]) => Matches(provider[q], sentWith[q], inputs[q])'
    BY <1>b, <2>2 DEF Matches, Alike, UrlAt
  <2> QED
    BY <1>a, <1>b, <2>3 DEF SentAsRead
<1>2. BeganSettled(q)'
  <2> SUFFICES ASSUME step[q] # "idle", began[q] # NotSettled
               PROVE  /\ pc'[began[q]] = "done"
                      /\ began[q] = last' => ReadsLast(q)'
    BY <1>b DEF BeganSettled
  <2>1. began[q] \in Loads /\ pc[began[q]] = "done"
    BY <1>a DEF TypeOK, BeganSettled
  <2>2. CASE UNCHANGED <<pc, read, held, last, mixed>>
    BY <1>a, <1>b, <2>1, <2>2 DEF BeganSettled, ReadsLast, HasKeys, HasPools, PoolsFirst, KeyAt, PoolAt
  <2>3. ASSUME NEW r \in Reloads, TimerFires(r) \/ CheckClosed(r)
        PROVE  UNCHANGED <<read, held, last, mixed>> /\ pc'[began[q]] = "done"
    BY <1>c, <2>1, <2>3
       DEF TimerFires, CheckClosed, TypeOK, ReloadTypeOK, serviceVars, history
  <2>4. ASSUME NEW r \in Reloads, TimerFires(r) \/ CheckClosed(r)
        PROVE  pc'[began[q]] = "done" /\ (began[q] = last' => ReadsLast(q)')
    BY <1>a, <1>b, <2>3, <2>4 DEF BeganSettled, ReadsLast, HasKeys, HasPools, PoolsFirst, KeyAt, PoolAt
  <2>5. ASSUME NEW r \in Reloads, Load(r)
        PROVE  pc'[began[q]] = "done" /\ (began[q] = last' => ReadsLast(q)')
    <3>1. /\ pc[r] = "load" /\ r \in Loads /\ UNCHANGED held
          /\ \A n \in Loads \ {r} : pc'[n] = pc[n] /\ read'[n] = read[n]
          /\ (last' = r) \/ UNCHANGED <<last, mixed>>
      BY <1>a, <1>c, <2>5 DEF Load, ReloadTypeOK, serviceVars, history
    <3>2. began[q] # r /\ pc'[began[q]] = "done" /\ read'[began[q]] = read[began[q]]
      BY <2>1, <3>1
    <3>3. ASSUME began[q] = last' PROVE ReadsLast(q)'
      <4>1. UNCHANGED <<last, mixed, held>> /\ read'[last] = read[last] /\ ReadsLast(q)
        BY <1>a, <3>1, <3>2, <3>3 DEF BeganSettled
      <4> QED
        BY <1>b, <4>1 DEF ReadsLast, HasKeys, HasPools, PoolsFirst, KeyAt, PoolAt
    <3> QED
      BY <3>2, <3>3
  <2>6. ASSUME NEW r \in Reloads, AtWork(r)
        PROVE  pc'[began[q]] = "done" /\ (began[q] = last' => ReadsLast(q)')
    <3>1. /\ Loaded(r) /\ r \in Loads
          /\ \A n \in Loads \ {r} : pc'[n] = pc[n]
          /\ UNCHANGED <<last, mixed>>
      BY <1>a, <1>c, <2>6, AtWorkKeeps
    <3>2. began[q] # r /\ pc'[began[q]] = "done"
      BY <2>1, <3>1 DEF Loaded
    <3>3. ASSUME began[q] = last' PROVE FALSE
      <4>1. ~mixed
        BY <1>a, <3>1, <3>3 DEF BeganSettled, ReadsLast
      <4>2. r = last
        BY <3>1, <4>1 DEF ServiceInv, Alone
      <4> QED
        BY <3>1, <3>2, <3>3, <4>2
    <3> QED
      BY <3>2, <3>3
  <2>7. CASE UNCHANGED reloadAll
    BY <2>2, <2>7, <2>1, <1>a, <1>b DEF reloadAll, reloadVars, serviceVars, history
  <2>8. CASE \/ \E c \in Contents : Edit(c)
             \/ HandleEvent \/ LoopEnds
             \/ \E n \in Loads : CheckerEnds(n)
             \/ CancelWatch \/ Shutdown
    <3>1. UNCHANGED <<pc, read, held, last, mixed>>
      BY <2>8 DEF Edit, HandleEvent, LoopEnds, CheckerEnds, CancelWatch, Shutdown, StopCurrent,
                  CheckerStopped, CloseWatcher, reloadVars, serviceVars, history
    <3> QED
      BY <2>2, <3>1
  <2> QED
    BY <2>4, <2>5, <2>6, <2>7, <2>8 DEF ReloadNext, ReloadStep, AtWork
<1> QED
  BY <1>1, <1>2

\* What one request does, and what it leaves to the others.
LEMMA RequestStepInv ==
    ASSUME TypeOK, CheckerInv, ServiceInv, RequestInv, NEW q \in Requests, RequestStep(q),
           UNCHANGED reloadAll
    PROVE  RequestInv'
<1>a. UNCHANGED <<pc, read, held, last, mixed>>
  BY DEF reloadAll, reloadVars, serviceVars, history
<1>b. ReloadTypeOK /\ SentAsRead(q) /\ BeganSettled(q)
  BY DEF TypeOK, RequestInv
<1>c. /\ provider[q] \in Providers /\ inputs[q] \in Inputs
      /\ last \in Loads /\ last # NotSettled
  BY DEF TypeOK, ReloadTypeOK, Loads, NotSettled
<1>d. ASSUME step[q] # "idle", began[q] = last
      PROVE  ReadsLast(q) /\ pc[last] = "done" /\ \A p \in Providers : held[PoolsOf(p)] = last
  <2>1. ReadsLast(q) /\ pc[last] = "done" /\ ~mixed
    BY <1>b, <1>c, <1>d DEF BeganSettled, ReadsLast
  <2>2. Alone(last) /\ \A s \in Services : Passed(last, s)
    BY <2>1 DEF ServiceInv, Passed
  <2>3. \A p \in Providers : PoolsOf(p) \in Services \ Maps
    BY <1>b, ReadTyped DEF PoolsOf, Maps
  <2> QED
    BY <2>1, <2>2, <2>3 DEF Alone
<1>e. ASSUME NEW to, step[q] # "idle", step'[q] = to, to # "idle",
             UNCHANGED <<provider, began>>,
             inputs'[q].made = inputs[q].made,
             began[q] = last =>
               LET p == provider[q]
               IN  /\ HasKeys(q)' => inputs'[q].key = KeyAt(last, p)
                   /\ HasPools(q)' => inputs'[q].pool = PoolAt(last, p)
      PROVE  BeganSettled(q)'
  <2>1. began[q] # NotSettled => pc'[began[q]] = "done"
    BY <1>a, <1>b, <1>e DEF BeganSettled
  <2>2. began[q] = last => ReadsLast(q)'
    BY <1>a, <1>d, <1>e DEF ReadsLast, KeyAt, PoolAt
  <2> QED
    BY <1>a, <1>e, <2>1, <2>2 DEF BeganSettled
<1>1. ASSUME NEW o \in Requests, o # q PROVE SentAsRead(o)' /\ BeganSettled(o)'
  <2>1. /\ step'[o] = step[o] /\ provider'[o] = provider[o] /\ inputs'[o] = inputs[o]
        /\ sentWith'[o] = sentWith[o] /\ began'[o] = began[o]
    BY <1>1 DEF RequestStep, Select, ReadKeys, ReadPools, FastPath, MissFast, SlowPath, Answered,
                Goes, Take, TypeOK
  <2> QED
    BY <1>a, <2>1 DEF RequestInv, SentAsRead, BeganSettled, ReadsLast, HasKeys, HasPools,
                      PoolsFirst, KeyAt, PoolAt, Matches, Alike, UrlAt
<1>2. ASSUME NEW p \in Providers, Select(q, p) PROVE SentAsRead(q)' /\ BeganSettled(q)'
  <2>1. /\ step'[q] = IF p \in OpenAI THEN "pools" ELSE "keys"
        /\ provider'[q] = p
        /\ inputs'[q].made = madeBy[InfosOf(p)]
        /\ began'[q] = IF NoReload /\ ~mixed THEN last ELSE NotSettled
        /\ Routable(p)
    BY <1>2, <1>c DEF Select, Goes, TypeOK, Inputs
  <2>2. CASE NoReload /\ ~mixed
    <3>1. AllHold(last)
      BY <1>b, <2>2, QuietAllHold
    <3>2. InfosOf(p) \in Infos /\ InfosOf(p) \in Services \ Maps
      BY <1>b, ReadTyped DEF Infos, Maps
    <3>3. p \in Enabled[read[last]] /\ madeBy[InfosOf(p)] = held[MapOf[InfosOf(p)]]
      BY <2>1, <3>1, <3>2 DEF Routable, AllHold
    <3>4. pc[last] = "done"
      <4>1. last \in Reloads \/ last = 0
        BY <1>c, ReloadAssumption DEF Loads, Reloads
      <4> QED
        BY <2>2, <4>1 DEF NoReload, Active, ServiceInv, Loaded, CheckerInv
    <3> QED
      BY <1>a, <2>1, <2>2, <3>3, <3>4
         DEF SentAsRead, BeganSettled, ReadsLast, HasKeys, HasPools, PoolsFirst
  <2>3. CASE ~(NoReload /\ ~mixed)
    BY <2>1, <2>3 DEF SentAsRead, BeganSettled
  <2> QED
    BY <2>2, <2>3
<1>3. ASSUME ReadKeys(q) PROVE SentAsRead(q)' /\ BeganSettled(q)'
  <2> DEFINE k == KeyAt(held[PoolsOf(provider[q])], provider[q])
  <2>1. /\ step[q] = "keys" /\ step'[q] = IF PoolsFirst(q) THEN "fast" ELSE "pools"
        /\ UNCHANGED <<provider, began>>
        /\ inputs'[q].made = inputs[q].made
        /\ inputs'[q].key = k
        /\ inputs'[q].pool = inputs[q].pool
    BY <1>3, <1>c DEF ReadKeys, Goes, TypeOK, Inputs
  <2>2. began[q] = last => k = KeyAt(last, provider[q])
    BY <1>c, <1>d, <2>1
  <2>3. began[q] = last /\ HasPools(q)' => inputs[q].pool = PoolAt(last, provider[q])
    BY <1>d, <2>1 DEF ReadsLast, HasPools, PoolsFirst
  <2>4. BeganSettled(q)'
    BY <1>e, <2>1, <2>2, <2>3
  <2> QED
    BY <2>1, <2>4 DEF SentAsRead
<1>4. ASSUME ReadPools(q) PROVE SentAsRead(q)' /\ BeganSettled(q)'
  <2> DEFINE l == PoolAt(held[PoolsOf(provider[q])], provider[q])
  <2>1. /\ step[q] = "pools" /\ step'[q] = IF PoolsFirst(q) THEN "keys" ELSE "fast"
        /\ UNCHANGED <<provider, began>>
        /\ inputs'[q].made = inputs[q].made
        /\ inputs'[q].key = inputs[q].key
        /\ inputs'[q].pool = l
    BY <1>4, <1>c DEF ReadPools, Goes, TypeOK, Inputs
  <2>2. began[q] = last => l = PoolAt(last, provider[q])
    BY <1>c, <1>d, <2>1
  <2>3. began[q] = last /\ HasKeys(q)' => inputs[q].key = KeyAt(last, provider[q])
    BY <1>d, <2>1 DEF ReadsLast, HasKeys, PoolsFirst
  <2>4. BeganSettled(q)'
    BY <1>e, <2>1, <2>2, <2>3
  <2> QED
    BY <2>1, <2>4 DEF SentAsRead
<1>5. ASSUME FastPath(q) \/ MissFast(q) \/ SlowPath(q) PROVE SentAsRead(q)' /\ BeganSettled(q)'
  <2>1. /\ step[q] \in {"fast", "slow"} /\ step'[q] \in {"slow", "sent"}
        /\ UNCHANGED <<provider, began, inputs>>
    BY <1>5 DEF FastPath, MissFast, SlowPath, Goes, TypeOK
  <2>2. step'[q] = "sent" => Matches(provider[q], sentWith'[q], inputs[q])
    <3>1. CASE FastPath(q)
      <4>1. sentWith'[q] = proxies[provider[q]]
        BY <3>1 DEF FastPath, Take, TypeOK
      <4> QED
        BY <3>1, <4>1 DEF FastPath, Cached
    <3>2. CASE MissFast(q)
      BY <3>2 DEF MissFast, Goes, TypeOK
    <3>3. CASE SlowPath(q)
      <4>1. sentWith'[q] = proxies'[provider[q]]
        BY <3>3 DEF SlowPath, Take, TypeOK
      <4>2. CASE Cached(q)
        BY <3>3, <4>1, <4>2 DEF SlowPath, Cached
      <4>3. CASE ~Cached(q)
        <5>1. proxies'[provider[q]] = Proxy(inputs[q])
          BY <1>c, <3>3, <4>3 DEF SlowPath, TypeOK
        <5> QED
          BY <4>1, <5>1, ProxyMatches
      <4> QED
        BY <4>2, <4>3
    <3> QED
      BY <1>5, <3>1, <3>2, <3>3
  <2>3. SentAsRead(q)'
    BY <1>a, <2>1, <2>2 DEF SentAsRead, Matches, Alike, UrlAt
  <2>4. began[q] = last => /\ inputs[q].key = KeyAt(last, provider[q])
                           /\ inputs[q].pool = PoolAt(last, provider[q])
    BY <1>d, <2>1 DEF ReadsLast, HasKeys, HasPools
  <2> QED
    BY <1>e, <2>1, <2>3, <2>4
<1>6. ASSUME Answered(q) PROVE SentAsRead(q)' /\ BeganSettled(q)'
  BY <1>6 DEF Answered, Goes, SentAsRead, BeganSettled, TypeOK
<1>7. SentAsRead(q)' /\ BeganSettled(q)'
  BY <1>2, <1>3, <1>4, <1>5, <1>6 DEF RequestStep
<1> QED
  BY <1>1, <1>7 DEF RequestInv

\* Together: every step keeps the invariant.
LEMMA StepRequestInv ==
    TypeOK /\ CheckerInv /\ ServiceInv /\ MadeInv /\ RequestInv /\ [Next]_proxyVars
      => RequestInv'
<1> SUFFICES ASSUME TypeOK, CheckerInv, ServiceInv, MadeInv, RequestInv, [Next]_proxyVars
             PROVE  RequestInv'
  OBVIOUS
<1> QED
  BY ReloadRequestInv, RequestStepInv DEF Next, ReloadBeside, proxyVars, cacheVars

\* A request routed when the services were settled is sent with what the last
\* configuration says, whatever the cache holds.
THEOREM NewRequestsCurrentHolds == Spec => []NewRequestsCurrent
<1>1. TypeOK /\ RequestInv => NewRequestsCurrent
  <2> SUFFICES ASSUME TypeOK, RequestInv, NEW q \in Requests, step[q] = "sent", began[q] = last
               PROVE  LET p == provider[q]
                          present == held[MapOf[InfosOf(p)]]
                          sent == sentWith[q]
                      IN  /\ p \in Enabled[read[last]]
                          /\ sent.exists
                          /\ p \notin OpenAI => sent.made = present
                          /\ UrlAt(sent.made, p) = UrlAt(present, p)
                          /\ sent.key = KeyAt(last, p)
                          /\ sent.pool = PoolAt(last, p)
    BY DEF NewRequestsCurrent
  <2>1. last # NotSettled
    BY DEF TypeOK, ReloadTypeOK, Loads, NotSettled
  <2>2. ReadsLast(q) /\ Matches(provider[q], sentWith[q], inputs[q])
    BY <2>1 DEF RequestInv, BeganSettled, SentAsRead
  <2> QED
    BY <2>2 DEF ReadsLast, HasKeys, HasPools, Matches, Alike
<1> QED
  BY <1>1, InitTypeOK, StepTypeOK, InitCheckerInv, StepCheckerInv, InitServiceInv, StepServiceInv,
     InitMadeInv, StepMadeInv, InitRequestInv, StepRequestInv, PTL DEF Spec

================================================================================
