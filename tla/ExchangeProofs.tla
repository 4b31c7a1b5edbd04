----------------------------- MODULE ExchangeProofs -----------------------------
(***************************************************************************)
(* The contents of an exchange, and the cache that signatures are kept in. *)
(* For every number of goroutines, keys and configurations: no call uses a *)
(* backend that Close has shut down, a factory that fails leaves nothing   *)
(* running, and every backend keeps the contract of cache.go.  For every   *)
(* answer, however long it is, wherever it is cut and whatever chunks it   *)
(* comes in: both converters deliver a prefix of what they promise, and    *)
(* all of it when they report a clean end.                                 *)
(* For every conversation, whatever the cache holds and loses meanwhile:   *)
(* preparing it and stripping it for another provider keep everything that *)
(* was said, in an order an upstream accepts, and what is sent is signed.  *)
(***************************************************************************)
EXTENDS Cache, Exchange, FiniteSetTheorems, WellFoundedInduction, SequenceTheorems, TLAPS

--------------------------------------------------------------------------------
(* The cache.                                                                  *)

\* Where a call is tells what it is, and that the factory has made the cache.
CallInv ==
    \A c \in Callers :
        /\ pc[c] = "idle" <=> call[c] = Nothing
        /\ pc[c] # "idle" => factory = "open"
        /\ pc[c] \in {"rlock", "second", "backend"} => call[c].op # "close" /\ ~Noop
        /\ pc[c] \in {"lock", "drain", "close2", "shut", "store", "stored"} => call[c].op = "close"
        /\ pc[c] \in {"shut", "stored"} => closed

\* mu: who holds it, and that the flag changes only when nobody reads.
LockInv ==
    \A c \in Callers :
        /\ c \in readers <=> pc[c] \in {"second", "backend"}
        /\ writer = c <=> pc[c] \in {"drain", "close2", "shut"}
        /\ pc[c] \in {"close2", "shut"} => readers = {}
        /\ pc[c] = "backend" => ~closed
        /\ pc[c] = "shut" => backend \notin Terminal

\* Only Close shuts the backend of a cache that was made, and a no-op cache stores nothing.
BackendInv ==
    /\ backend \in Terminal => closed \/ factory = "failed"
    /\ factory = "new" => backend = "none"
    /\ factory = "failed" => backend \in {"none", "down"} \cup Terminal
    /\ Noop => backend = "none" /\ \A k \in Keys : store[k] = Nothing

CacheInv == CacheTypeOK /\ CallInv /\ LockInv /\ BackendInv

\* The record type of calls, as the steps use it.
LEMMA CallFields ==
    ASSUME NEW x \in Call
    PROVE  /\ x \in [op : {"get", "exists", "delete", "set", "setTTL", "ping", "report", "close"},
                     key : Keys \cup {Nothing}, value : Values \cup {Nothing}]
           /\ x.op \in {"get", "exists", "delete", "set", "setTTL"} => x.key \in Keys
           /\ x.op \in {"set", "setTTL"} => x.value \in Values
           /\ x.op = "delete" => x.value = Nothing
           /\ x # Nothing
BY CacheAssumption DEF Call, Contract!Call

\* Every answer is a reply.
LEMMA Replies ==
    /\ \A s \in Contract!Status : Just(s) \in Contract!Reply
    /\ \A v \in Values : [status |-> "value", value |-> v] \in Contract!Reply
BY DEF Just, Contract!Just, Contract!Reply, Contract!Status

\* What is held back: one write more, or one less.
LEMMA LateTypes ==
    ASSUME late \in [Keys -> [Values -> Nat]], NEW k \in Keys, NEW v \in Values
    PROVE  /\ Delayed(k, v) \in [Keys -> [Values -> Nat]]
           /\ late[k][v] > 0 => [late EXCEPT ![k][v] = @ - 1] \in [Keys -> [Values -> Nat]]
BY DEF Delayed

\* Whatever the backend, what a served call leaves is of the right type.
LEMMA ServedTypes ==
    ASSUME CacheTypeOK, NEW c \in Callers, call[c] \in Call, Serve(c)
    PROVE  /\ store' \in [Keys -> Values \cup {Nothing}]
           /\ late' \in [Keys -> [Values -> Nat]]
           /\ readers' = readers \ {c}
           /\ \E r \in Contract!Reply : Return(c, r)
<1> DEFINE x == call[c]
           Good(outcomes) == \A o \in outcomes : /\ o.store \in [Keys -> Values \cup {Nothing}]
                                                 /\ o.late \in [Keys -> [Values -> Nat]]
                                                 /\ o.reply \in Contract!Reply
<1>1. ASSUME NEW outcomes, Good(outcomes), Returns(c, outcomes)
      PROVE  /\ store' \in [Keys -> Values \cup {Nothing}]
             /\ late' \in [Keys -> [Values -> Nat]]
             /\ readers' = readers \ {c}
             /\ \E r \in Contract!Reply : Return(c, r)
  BY <1>1 DEF Returns, Unlock
<1>2. \A s \in Contract!Status : Just(s) \in Contract!Reply
  BY Replies
<1>3. /\ store \in [Keys -> Values \cup {Nothing}] /\ late \in [Keys -> [Values -> Nat]]
      /\ \A k \in Keys, y \in Values \cup {Nothing} : Written(k, y) \in [Keys -> Values \cup {Nothing}]
      /\ \A k \in Keys : Lookup(k) \in Contract!Reply /\ Presence(k) \in Contract!Reply
  BY <1>2, Replies DEF CacheTypeOK, Written, Lookup, Presence, Contract!Status
<1>4. /\ \A r \in Contract!Reply : Good({Only(r)})
      /\ \A r \in Contract!Reply, k \in Keys, y \in Values \cup {Nothing} :
            Good({Outcome(r, Written(k, y), late)})
      /\ \A r \in Contract!Reply, k \in Keys, v \in Values : Good(Later(r, k, v))
  BY <1>3, LateTypes DEF Only, Outcome, Later
<1>5. \A A, B : Good(A) /\ Good(B) => Good(A \cup B)
  OBVIOUS
<1>6. Just("ok") \in Contract!Reply /\ Just("failed") \in Contract!Reply
  BY <1>2 DEF Contract!Status
<1>7. ASSUME NEW outcomes, Good(outcomes) PROVE Good(OrFailed(outcomes))
  BY <1>4, <1>6, <1>7 DEF OrFailed, Failing
<1>8. ASSUME NEW k \in Keys, NEW y \in Values \cup {Nothing}
      PROVE  Good({Outcome(Just(status), Written(k, y), late) : status \in {"ok", "failed"}})
  BY <1>4, <1>6
<1> HIDE DEF Good
<1>9. ASSUME NEW k \in Keys
      PROVE  /\ Good(RistrettoGet(k)) /\ Good(RistrettoExists(k)) /\ Good(RistrettoDelete(k))
             /\ \A v \in Values : Good(RistrettoSet(k, v)) /\ Good(RistrettoSetWithTTL(k, v))
  <2>1. Good(RistrettoGet(k)) /\ Good(RistrettoExists(k)) /\ Good(RistrettoDelete(k))
    BY <1>3, <1>4, <1>6 DEF RistrettoGet, RistrettoExists, RistrettoDelete
  <2>2. ASSUME NEW v \in Values PROVE Good(RistrettoSet(k, v))
    <3>1. /\ Good({Outcome(Just("ok"), Written(k, v), late)}) /\ Good({Only(Just("ok"))})
          /\ Good(Later(Just("ok"), k, v))
      BY <1>4, <1>6
    <3>2. {Outcome(Just("ok"), Written(k, v), late), Only(Just("ok"))}
            = {Outcome(Just("ok"), Written(k, v), late)} \cup {Only(Just("ok"))}
      OBVIOUS
    <3> QED
      BY <1>5, <3>1, <3>2 DEF RistrettoSet
  <2> QED
    BY <2>1, <2>2 DEF RistrettoSetWithTTL
<1>10. ASSUME NEW k \in Keys
       PROVE  /\ Good(OlricGet(k)) /\ Good(OlricExists(k)) /\ Good(OlricDelete(k))
              /\ \A v \in Values : Good(OlricSet(k, v)) /\ Good(OlricSetWithTTL(k, v))
  <2>1. Good(OlricGet(k)) /\ Good(OlricExists(k)) /\ Good(OlricDelete(k))
    BY <1>3, <1>4, <1>7, <1>8 DEF OlricGet, OlricExists, OlricDelete
  <2>2. \A v \in Values : Good(OlricSet(k, v))
    BY <1>4, <1>5, <1>6, <1>7, <1>8 DEF OlricSet
  <2> QED
    BY <2>1, <2>2 DEF OlricSetWithTTL
<1>11. Good(RistrettoStats) /\ Good(OlricStats \cup OlricMembers) /\ Good(OlricPing)
  BY <1>4, <1>5, <1>6, <1>7 DEF RistrettoStats, OlricStats, OlricMembers, OlricPing
<1>12. /\ x.op \in {"get", "exists", "delete", "set", "setTTL"} => x.key \in Keys
       /\ x.op \in {"set", "setTTL"} => x.value \in Values
  BY CallFields
<1> HIDE DEF x
<1>13. CASE RistrettoServes(c)
  <2>1. CASE x.op \in {"get", "exists", "delete", "report"}
    BY <2>1, <1>1, <1>9, <1>11, <1>12, <1>13 DEF RistrettoServes, x
  <2>2. CASE x.op \in {"set", "setTTL"}
    BY <2>2, <1>1, <1>9, <1>12, <1>13 DEF RistrettoServes, x
  <2> QED
    BY <2>1, <2>2, <1>13 DEF RistrettoServes, x
<1>14. CASE OlricServes(c)
  <2>1. CASE x.op \in {"get", "exists", "delete", "ping", "report"}
    BY <2>1, <1>1, <1>10, <1>11, <1>12, <1>14 DEF OlricServes, x
  <2>2. CASE x.op \in {"set", "setTTL"}
    BY <2>2, <1>1, <1>10, <1>12, <1>14 DEF OlricServes, x
  <2> QED
    BY <2>1, <2>2, <1>14 DEF OlricServes, x
<1> QED
  BY <1>13, <1>14 DEF Serve

\* A new cache: nobody calls, and the factory has not begun.
LEMMA InitCache == CacheInit => CacheInv
<1> SUFFICES ASSUME CacheInit PROVE CacheInv
  OBVIOUS
<1>1. CacheTypeOK
  BY Replies DEF CacheInit, CacheTypeOK, Places, Contract!Status
<1> QED
  BY <1>1, CacheAssumption DEF CacheInit, CacheInv, CallInv, LockInv, BackendInv, Terminal

\* The steps of the factory and of the node it starts, and what a backend forgets or makes late.
LEMMA FactoryStepInv ==
    ASSUME CacheInv, FactoryStep \/ (\E k \in Keys : Forget(k)) \/ Settles
    PROVE  CacheInv'
<1> USE DEF CacheInv, CacheTypeOK, CallInv, LockInv, BackendInv, FactoryUnchanged, factoryVars, muVars,
        Noop, Terminal
<1>1. CASE New \/ NewRistretto
  BY <1>1 DEF New, NewRistretto
<1>2. CASE NewEmbedded \/ NewClient
  BY <1>2 DEF NewEmbedded, NewClient, Embedded, Client
<1>3. CASE NodeStarted
  BY <1>3 DEF NodeStarted
<1>4. CASE EmbeddedDMap \/ ClientDMap
  <2>1. factory = "dmap" /\ backend' \in Terminal \cup {backend} /\ factory' \in {"open", "failed"} /\ ~Noop
    BY <1>4 DEF EmbeddedDMap, ClientDMap, Embedded, Client
  <2>2. (factory' = "failed" => backend' \in Terminal) /\ (factory' = "open" => backend' = backend)
    BY <1>4 DEF EmbeddedDMap, ClientDMap
  <2>3. FactoryUnchanged
    BY <1>4 DEF EmbeddedDMap, ClientDMap
  <2>4. \A c \in Callers : pc[c] = "idle"
    BY <2>1
  <2>5. CacheTypeOK'
    BY <2>1, <2>3
  <2>7. BackendInv'
    BY <2>1, <2>2, <2>3
  <2>6. CallInv' /\ LockInv'
    BY <2>1, <2>3, <2>4
  <2> QED
    BY <2>5, <2>6, <2>7
<1>5. CASE NodeStarts
  BY <1>5 DEF NodeStarts
<1>6. ASSUME NEW k \in Keys, Forget(k) PROVE CacheInv'
  BY <1>6 DEF Forget
<1>7. ASSUME NEW k \in Keys, NEW v \in Values, Settle(k, v) PROVE CacheInv'
  <2>1. late' \in [Keys -> [Values -> Nat]] /\ store' \in [Keys -> Values \cup {Nothing}]
    <3>1. late' \in [Keys -> [Values -> Nat]]
      BY <1>7, LateTypes DEF Settle
    <3>2. store' \in [Keys -> Values \cup {Nothing}]
      BY <1>7 DEF Settle, Written
    <3> QED
      BY <3>1, <3>2
  <2>2. ~Noop
    BY <1>7 DEF Settle
  <2> QED
    BY <1>7, <2>1, <2>2 DEF Settle
<1> QED
  BY <1>1, <1>2, <1>3, <1>4, <1>5, <1>6, <1>7 DEF FactoryStep, Settles

\* The steps of a call that neither closes the cache nor uses the backend.
LEMMA CallStepInv ==
    ASSUME CacheInv, NEW c \in Callers,
           \/ Begin(c) \/ NoopCall(c) \/ FirstCheck(c) \/ RLock(c) \/ SecondCheck(c)
    PROVE  CacheInv'
<1> USE CacheAssumption DEF CacheInv, CacheTypeOK, CallInv, LockInv, BackendInv, CallUnchanged,
        factoryVars, muVars, Noop, Goto, Return, Terminal
<1>0. \A s \in Contract!Status : Just(s) \in Contract!Reply
  BY Replies
<1>1. CASE Begin(c)
  BY <1>0, <1>1, CallFields DEF Begin, Contract!Status, Places
<1>2. CASE NoopCall(c)
  BY <1>0, <1>2 DEF NoopCall, NoopReply, Contract!Status, Places
<1>3. CASE FirstCheck(c)
  BY <1>0, <1>3 DEF FirstCheck, Contract!Status, Places
<1>4. CASE RLock(c)
  BY <1>4 DEF RLock, Places
<1>5. CASE SecondCheck(c)
  <2>1. CASE closed
    <3>1. PICK r \in Contract!Reply : Return(c, r)
      BY <1>0, <1>5, <2>1 DEF SecondCheck, Contract!Status
    <3>2. pc[c] = "second" /\ readers' = readers \ {c}
      BY <1>5, <2>1 DEF SecondCheck, Unlock
    <3>3. UNCHANGED <<config, factory, backend, store, late, closed, writer>>
      BY <1>5 DEF SecondCheck
    <3>4. CacheTypeOK' /\ BackendInv'
      BY <3>1, <3>2, <3>3 DEF Places
    <3>5. CallInv' /\ LockInv'
      BY <3>1, <3>2, <3>3
    <3> QED
      BY <3>4, <3>5
  <2>2. CASE ~closed
    BY <1>5, <2>2 DEF SecondCheck, Places
  <2> QED
    BY <2>1, <2>2
<1> QED
  BY <1>1, <1>2, <1>3, <1>4, <1>5

\* A backend's answer.
LEMMA ServeStepInv ==
    ASSUME CacheInv, NEW c \in Callers, Serve(c)
    PROVE  CacheInv'
<1>1. CacheTypeOK /\ call[c] \in Call
  BY DEF CacheInv, CacheTypeOK, CallInv, Serve
<1>2. /\ store' \in [Keys -> Values \cup {Nothing}]
      /\ late' \in [Keys -> [Values -> Nat]]
      /\ readers' = readers \ {c}
      /\ \E r \in Contract!Reply : Return(c, r)
  BY <1>1, ServedTypes
<1>3. ~Noop
  BY DEF Serve, Noop
<1> QED
  BY <1>1, <1>2, <1>3, CacheAssumption DEF CacheInv, CacheTypeOK, CallInv, LockInv, BackendInv, Serve,
     CallUnchanged, factoryVars, Noop, Goto, Return, Places, Terminal

\* The steps of Close.
LEMMA CloseStepInv ==
    ASSUME CacheInv, NEW c \in Callers,
           \/ NoopClose(c) \/ CloseFirst(c) \/ Lock(c) \/ Drain(c) \/ CloseSecond(c)
           \/ RistrettoClose(c) \/ OlricClose(c)
    PROVE  CacheInv'
<1> USE CacheAssumption DEF CacheInv, CacheTypeOK, CallInv, LockInv, BackendInv, CallUnchanged,
        factoryVars, muVars, Noop, Goto, Return, Terminal
<1>0. \A s \in Contract!Status : Just(s) \in Contract!Reply
  BY Replies
<1>1. CASE NoopClose(c)
  <2>1. CASE pc[c] = "store"
    BY <1>1, <2>1 DEF NoopClose, Places
  <2>2. CASE pc[c] = "stored"
    BY <1>0, <1>1, <2>2 DEF NoopClose, Contract!Status, Places
  <2>3. CASE pc[c] = "first"
    BY <1>0, <1>1, <2>3 DEF NoopClose, Contract!Status, Places
  <2> QED
    BY <1>1, <2>1, <2>2, <2>3 DEF NoopClose
<1>2. CASE CloseFirst(c)
  BY <1>0, <1>2 DEF CloseFirst, Contract!Status, Places
<1>3. CASE Lock(c)
  BY <1>3 DEF Lock, Places
<1>4. CASE Drain(c)
  BY <1>4 DEF Drain, Places
<1>5. CASE CloseSecond(c)
  <2>1. CASE closed
    BY <1>0, <1>5, <2>1 DEF CloseSecond, Contract!Status, Places
  <2>2. CASE ~closed
    BY <1>5, <2>2 DEF CloseSecond, Places
  <2> QED
    BY <2>1, <2>2
<1>6. ASSUME NEW status \in {"ok", "failed"}, ShutDown(c, status), ~Noop PROVE CacheInv'
  BY <1>0, <1>6 DEF ShutDown, Contract!Status, Places
<1> QED
  BY <1>1, <1>2, <1>3, <1>4, <1>5, <1>6 DEF RistrettoClose, OlricClose

\* The invariant is inductive.
LEMMA StepCache == CacheInv /\ [CacheNext]_cacheVars => CacheInv'
<1> SUFFICES ASSUME CacheInv, [CacheNext]_cacheVars PROVE CacheInv'
  OBVIOUS
<1>1. CASE UNCHANGED cacheVars
  BY <1>1 DEF cacheVars, factoryVars, muVars, CacheInv, CacheTypeOK, CallInv, LockInv, BackendInv, Noop, Terminal
<1>2. ASSUME NEW c \in Callers, Begin(c) \/ CallerStep(c) PROVE CacheInv'
  BY <1>2, CallStepInv, ServeStepInv, CloseStepInv DEF CallerStep
<1> QED
  BY <1>1, <1>2, FactoryStepInv DEF CacheNext

\* The invariant holds throughout.
LEMMA CacheInvHolds == CacheSpec => []CacheInv
BY InitCache, StepCache, PTL DEF CacheSpec

\* Every variable keeps its type.
THEOREM CacheTypeCorrect == CacheSpec => []CacheTypeOK
<1>1. CacheInv => CacheTypeOK
  BY DEF CacheInv
<1> QED
  BY <1>1, CacheInvHolds, PTL

\* No call, and no second Close, works on a backend that Close has shut down, however many
\* goroutines call.
THEOREM NoUseAfterCloseHolds == CacheSpec => []NoUseAfterClose
<1>1. CacheInv => NoUseAfterClose
  <2> SUFFICES ASSUME CacheInv, NEW c \in Callers, pc[c] \in {"backend", "shut"}, backend \in Terminal
               PROVE  FALSE
    BY DEF NoUseAfterClose
  <2> QED
    BY DEF CacheInv, CallInv, LockInv, BackendInv
<1> QED
  BY <1>1, CacheInvHolds, PTL

\* A factory that fails leaves nothing running, whichever step failed.
THEOREM NothingLeakedHolds == CacheSpec => []NothingLeaked
<1>1. CacheInv => NothingLeaked
  BY DEF CacheInv, BackendInv, NothingLeaked
<1> QED
  BY <1>1, CacheInvHolds, PTL

--------------------------------------------------------------------------------
(* The contract of cache.go. *)

\* Returning is answering, when a call is made.
LEMMA ReturnAnswers ==
    ASSUME NEW c \in Callers, call[c] # Nothing, NEW r, Return(c, r)
    PROVE  Contract!Answer(c, r)
BY DEF Return, Contract!Answer

\* What Ristretto does with a call is what the contract allows at that moment.
LEMMA RistrettoServed ==
    ASSUME CacheInv, NEW c \in Callers, pc[c] = "backend", config.mode = "single",
           RistrettoServes(c), closed' = closed, config' = config
    PROVE  Contract!Served(c)
<1> DEFINE x == call[c]
<1>0. call[c] \in Call /\ call[c] # Nothing /\ ~closed
  BY CacheAssumption DEF CacheInv, CacheTypeOK, CallInv, LockInv
<1>1. \A r : Return(c, r) => Contract!Answer(c, r)
  BY <1>0, ReturnAnswers
<1> HIDE DEF CacheInv
<1>2. CASE x.op = "get" /\ Returns(c, RistrettoGet(x.key))
  <2>1. store' = store /\ late' = late /\ Contract!Answer(c, Lookup(x.key))
    BY <1>1, <1>2 DEF Returns, RistrettoGet, Only, Outcome
  <2> QED
    BY <1>0, <1>2, <2>1 DEF Contract!Served, Contract!Read, Lookup, Just
<1>3. CASE x.op = "exists" /\ Returns(c, RistrettoExists(x.key))
  <2>1. store' = store /\ late' = late /\ Contract!Answer(c, Presence(x.key))
    BY <1>1, <1>3 DEF Returns, RistrettoExists, Only, Outcome
  <2> QED
    BY <1>0, <1>3, <2>1 DEF Contract!Served, Contract!Probe, Presence, Just
<1>4. CASE \/ x.op = "set" /\ Returns(c, RistrettoSet(x.key, x.value))
           \/ x.op = "setTTL" /\ Returns(c, RistrettoSetWithTTL(x.key, x.value))
  <2>1. /\ \/ store' = Written(x.key, x.value) /\ late' = late
           \/ store' = store /\ late' = late
           \/ store' = store /\ late' = Delayed(x.key, x.value)
        /\ Contract!Answer(c, Just("ok"))
    BY <1>1, <1>4 DEF Returns, RistrettoSet, RistrettoSetWithTTL, Only, Later, Outcome
  <2>2. Contract!Made(c) \/ Contract!Kept(c) \/ (Contract!Sets(c) /\ store' = store /\ late' = late)
    BY <1>4, <2>1 DEF Contract!Made, Contract!Kept, Contract!Sets, Written, Delayed
  <2>3. Contract!Writes(c) /\ Contract!Sets(c)
    BY <1>4 DEF Contract!Sets, Contract!Writes
  <2> QED
    BY <1>0, <2>1, <2>2, <2>3 DEF Contract!Served, Contract!Write, Just
<1>5. CASE x.op = "delete" /\ Returns(c, RistrettoDelete(x.key))
  <2>1. store' = Written(x.key, Nothing) /\ late' = late /\ Contract!Answer(c, Just("ok"))
    BY <1>1, <1>5 DEF Returns, RistrettoDelete, Outcome
  <2>2. x.value = Nothing
    BY <1>0, <1>5, CallFields
  <2>3. Contract!Made(c) /\ Contract!Writes(c)
    BY <1>5, <2>1, <2>2 DEF Contract!Made, Contract!Writes, Written
  <2> QED
    BY <1>0, <2>1, <2>3 DEF Contract!Served, Contract!Write, Just
<1>6. CASE x.op = "report" /\ Returns(c, RistrettoStats)
  <2>1. store' = store /\ late' = late /\ Contract!Answer(c, Just("ok"))
    BY <1>1, <1>6 DEF Returns, RistrettoStats, Only, Outcome
  <2> QED
    BY <1>0, <1>6, <2>1 DEF Contract!Served, Contract!Inspect, Just
<1> QED
  BY <1>2, <1>3, <1>4, <1>5, <1>6 DEF RistrettoServes

\* What Olric does, or fails to do, is what the contract allows at that moment.
LEMMA OlricServed ==
    ASSUME CacheInv, NEW c \in Callers, pc[c] = "backend",
           OlricServes(c), closed' = closed, config' = config
    PROVE  Contract!Served(c)
<1> DEFINE x == call[c]
<1>0. call[c] \in Call /\ call[c] # Nothing /\ ~closed
  BY CacheAssumption DEF CacheInv, CacheTypeOK, CallInv, LockInv
<1>1. \A r : Return(c, r) => Contract!Answer(c, r)
  BY <1>0, ReturnAnswers
<1> HIDE DEF CacheInv
<1>2. ASSUME x.op # "close", store' = store, late' = late, Contract!Answer(c, Just("failed"))
      PROVE  Contract!Served(c)
  BY <1>0, <1>2 DEF Contract!Served, Contract!Fail, Just
<1>3. ASSUME x.op \in {"set", "setTTL", "delete"},
             store' = Written(x.key, x.value), late' = late, NEW status \in {"ok", "failed"},
             Contract!Answer(c, Just(status))
      PROVE  Contract!Served(c)
  <2>1. Contract!Made(c) /\ Contract!Writes(c) /\ x.op # "close"
    BY <1>3 DEF Contract!Made, Contract!Writes, Contract!Sets, Written
  <2>2. CASE status = "ok"
    BY <1>0, <1>3, <2>1, <2>2 DEF Contract!Served, Contract!Write, Just
  <2>3. CASE status = "failed"
    BY <1>0, <1>3, <2>1, <2>3 DEF Contract!Served, Contract!Fail, Just
  <2> QED
    BY <2>2, <2>3
<1>9. ASSUME x.op \in {"set", "setTTL"}, store' = store, late' = Delayed(x.key, x.value),
             Contract!Answer(c, Just("failed"))
      PROVE  Contract!Served(c)
  <2>1. Contract!Kept(c) /\ Contract!Writes(c) /\ x.op # "close"
    BY <1>9 DEF Contract!Kept, Contract!Writes, Contract!Sets, Delayed
  <2> QED
    BY <1>0, <1>9, <2>1 DEF Contract!Served, Contract!Fail, Just
<1>4. CASE x.op = "get" /\ Returns(c, OlricGet(x.key))
  <2>1. store' = store /\ late' = late /\ (\/ Contract!Answer(c, Lookup(x.key))
                                          \/ Contract!Answer(c, Just("failed")))
    BY <1>1, <1>4 DEF Returns, OlricGet, OrFailed, Failing, Only, Outcome
  <2>2. CASE Contract!Answer(c, Lookup(x.key))
    BY <1>0, <1>4, <2>1, <2>2 DEF Contract!Served, Contract!Read, Lookup, Just
  <2> QED
    BY <1>2, <1>4, <2>1, <2>2
<1>5. CASE x.op = "exists" /\ Returns(c, OlricExists(x.key))
  <2>1. store' = store /\ late' = late /\ (\/ Contract!Answer(c, Presence(x.key))
                                          \/ Contract!Answer(c, Just("failed")))
    BY <1>1, <1>5 DEF Returns, OlricExists, OrFailed, Failing, Only, Outcome
  <2>2. CASE Contract!Answer(c, Presence(x.key))
    BY <1>0, <1>5, <2>1, <2>2 DEF Contract!Served, Contract!Probe, Presence, Just
  <2> QED
    BY <1>2, <1>5, <2>1, <2>2
<1>6. CASE \/ x.op = "set" /\ Returns(c, OlricSet(x.key, x.value))
           \/ x.op = "setTTL" /\ Returns(c, OlricSetWithTTL(x.key, x.value))
  <2>1. \/ store' = store /\ late' = late /\ Contract!Answer(c, Just("failed"))
        \/ store' = store /\ late' = Delayed(x.key, x.value) /\ Contract!Answer(c, Just("failed"))
        \/ \E status \in {"ok", "failed"} :
              store' = Written(x.key, x.value) /\ late' = late /\ Contract!Answer(c, Just(status))
    BY <1>1, <1>6 DEF Returns, OlricSet, OlricSetWithTTL, OrFailed, Failing, Later, Only, Outcome
  <2> QED
    BY <1>2, <1>3, <1>6, <1>9, <2>1
<1>7. CASE x.op = "delete" /\ Returns(c, OlricDelete(x.key))
  <2>1. x.value = Nothing
    BY <1>0, <1>7, CallFields
  <2>2. \/ store' = store /\ late' = late /\ Contract!Answer(c, Just("failed"))
        \/ \E status \in {"ok", "failed"} :
              store' = Written(x.key, x.value) /\ late' = late /\ Contract!Answer(c, Just(status))
    BY <1>1, <1>7, <2>1 DEF Returns, OlricDelete, OrFailed, Failing, Only, Outcome
  <2> QED
    BY <1>2, <1>3, <1>7, <2>2
<1>8. CASE \/ x.op = "ping" /\ Returns(c, OlricPing)
           \/ x.op = "report" /\ Returns(c, OlricStats \cup OlricMembers)
  <2>1. store' = store /\ late' = late /\ (\/ Contract!Answer(c, Just("ok"))
                                          \/ Contract!Answer(c, Just("failed")))
    BY <1>1, <1>8 DEF Returns, OlricPing, OlricStats, OlricMembers, OrFailed, Failing, Only, Outcome
  <2>2. CASE Contract!Answer(c, Just("ok"))
    BY <1>0, <1>8, <2>1, <2>2 DEF Contract!Served, Contract!Inspect, Just
  <2> QED
    BY <1>2, <1>8, <2>1, <2>2
<1> QED
  BY <1>4, <1>5, <1>6, <1>7, <1>8 DEF OlricServes

\* A call that ends at a look at the flag, of a cache with or without a store.
LEMMA CheckRefines ==
    ASSUME CacheInv, NEW c \in Callers, NoopCall(c) \/ FirstCheck(c) \/ SecondCheck(c)
    PROVE  Contract!Served(c) \/ UNCHANGED Contract!vars
<1>0. call[c] \in Call /\ call[c] # Nothing
  BY CacheAssumption DEF CacheInv, CacheTypeOK, CallInv, NoopCall, FirstCheck, SecondCheck
<1>1. \A r : Return(c, r) => Contract!Answer(c, r)
  BY <1>0, ReturnAnswers
<1>2. ASSUME store' = store, late' = late, config' = config, closed' = closed,
             closed, call[c].op # "close", Contract!Answer(c, Just("closed"))
      PROVE  Contract!Served(c)
  BY <1>0, <1>2 DEF Contract!Served, Contract!Refuse, Just
<1>3. ASSUME store' = store, late' = late, config' = config, closed' = closed, call[c].op = "report",
             Contract!Answer(c, Just("ok"))
      PROVE  Contract!Served(c)
  BY <1>0, <1>3 DEF Contract!Served, Contract!Inspect, Just
<1>4. CASE NoopCall(c)
  <2> DEFINE x == call[c]
  <2>1. /\ store' = store /\ late' = late /\ config' = config /\ closed' = closed
        /\ config.mode # "ha" /\ x.op \notin {"close", "report"}
        /\ Contract!Answer(c, NoopReply(x)) /\ \A k \in Keys : store[k] = Nothing
    BY <1>1, <1>4 DEF NoopCall, CallUnchanged, factoryVars, muVars, Noop, CacheInv, BackendInv
  <2>2. CASE closed
    BY <1>2, <2>1, <2>2 DEF NoopReply
  <2>3. CASE ~closed /\ x.op = "get"
    BY <1>0, <2>1, <2>3, CallFields DEF NoopReply, Contract!Served, Contract!Read, Just
  <2>4. CASE ~closed /\ x.op = "exists"
    BY <1>0, <2>1, <2>4, CallFields DEF NoopReply, Contract!Served, Contract!Probe, Just
  <2>5. CASE ~closed /\ x.op \in {"set", "setTTL", "delete"}
    <3>1. Contract!Answer(c, Just("ok")) /\ Contract!Writes(c)
      BY <2>1, <2>5 DEF NoopReply, Contract!Writes, Contract!Sets
    <3>2. Contract!Made(c) \/ Contract!Sets(c)
      <4>1. CASE x.op = "delete"
        <5>1. x.key \in Keys /\ x.value = Nothing /\ store' = [store EXCEPT ![x.key] = Nothing]
          BY <1>0, <2>1, <4>1, CallFields DEF CacheInv, CacheTypeOK
        <5> QED
          BY <2>1, <5>1 DEF Contract!Made
      <4>2. CASE x.op # "delete"
        BY <2>5, <4>2 DEF Contract!Sets
      <4> QED
        BY <4>1, <4>2
    <3> QED
      BY <1>0, <2>1, <2>5, <3>1, <3>2 DEF Contract!Served, Contract!Write, Just
  <2>6. CASE ~closed /\ x.op = "ping"
    BY <1>0, <2>1, <2>6 DEF NoopReply, Contract!Served, Contract!Inspect, Just
  <2> QED
    BY <1>0, <2>1, <2>2, <2>3, <2>4, <2>5, <2>6, CallFields
<1>5. CASE FirstCheck(c)
  <2>1. /\ store' = store /\ late' = late /\ config' = config /\ closed' = closed
        /\ call[c].op # "close"
    BY <1>5 DEF FirstCheck, CallUnchanged, factoryVars
  <2>2. CASE call' = call /\ reply' = reply
    BY <2>1, <2>2 DEF Contract!vars
  <2>3. CASE Contract!Answer(c, Just("cancelled"))
    BY <1>0, <2>1, <2>3 DEF Contract!Served, Contract!Fail, Just
  <2>4. CASE Contract!Answer(c, Just("closed")) /\ closed
    BY <1>2, <2>1, <2>4
  <2>5. CASE Contract!Answer(c, Just("ok")) /\ call[c].op = "report"
    BY <1>3, <2>1, <2>5
  <2> QED
    BY <1>1, <1>5, <2>2, <2>3, <2>4, <2>5 DEF FirstCheck
<1>6. CASE SecondCheck(c)
  <2>1. /\ store' = store /\ late' = late /\ config' = config /\ closed' = closed
        /\ call[c].op # "close"
    BY <1>6 DEF SecondCheck, CallUnchanged, factoryVars, CacheInv, CallInv
  <2>2. CASE call' = call /\ reply' = reply
    BY <2>1, <2>2 DEF Contract!vars
  <2>3. CASE Contract!Answer(c, Just("closed")) /\ closed
    BY <1>2, <2>1, <2>3
  <2>4. CASE Contract!Answer(c, Just("ok")) /\ call[c].op = "report"
    BY <1>3, <2>1, <2>4
  <2> QED
    BY <1>1, <1>6, <2>2, <2>3, <2>4 DEF SecondCheck
<1> QED
  BY <1>4, <1>5, <1>6

\* Close: the flag is the moment it takes effect, and its answer comes later.
LEMMA CloseRefines ==
    ASSUME CacheInv, NEW c \in Callers,
           \/ NoopClose(c) \/ CloseFirst(c) \/ Lock(c) \/ Drain(c) \/ CloseSecond(c)
           \/ RistrettoClose(c) \/ OlricClose(c)
    PROVE  Contract!Served(c) \/ Contract!Shut(c) \/ UNCHANGED Contract!vars
<1>0. /\ call[c] \in Call /\ call[c] # Nothing
      /\ store' = store /\ late' = late /\ config' = config
  BY CacheAssumption DEF CacheInv, CacheTypeOK, CallInv, NoopClose, CloseFirst, Lock, Drain, CloseSecond,
     RistrettoClose, OlricClose, ShutDown, CallUnchanged, factoryVars
<1>1. \A r : Return(c, r) => Contract!Answer(c, r)
  BY <1>0, ReturnAnswers
<1>2. ASSUME closed, closed' = closed, call[c].op = "close", NEW status \in {"ok", "failed"},
             Return(c, Just(status))
      PROVE  Contract!Served(c)
  BY <1>0, <1>1, <1>2 DEF Contract!Served, Contract!Closed, Just
<1>3. ASSUME closed' = TRUE, call[c].op = "close", call' = call, reply' = reply
      PROVE  Contract!Shut(c) \/ UNCHANGED Contract!vars
  <2>1. CASE closed
    BY <1>0, <1>3, <2>1 DEF Contract!vars, CacheInv, CacheTypeOK
  <2>2. CASE ~closed
    BY <1>0, <1>3, <2>2 DEF Contract!Shut
  <2> QED
    BY <2>1, <2>2
<1>4. CASE NoopClose(c)
  <2>1. CASE pc[c] = "store"
    BY <1>3, <1>4, <2>1 DEF NoopClose, CacheInv, CallInv
  <2>2. CASE pc[c] = "stored"
    BY <1>2, <1>4, <2>2 DEF NoopClose, CacheInv, CallInv
  <2>3. CASE pc[c] = "first" /\ call[c].op = "close"
    BY <1>0, <1>2, <1>4, <2>3 DEF NoopClose, Contract!vars
  <2>4. CASE pc[c] = "first" /\ call[c].op = "report"
    BY <1>0, <1>1, <1>4, <2>4 DEF NoopClose, Contract!Served, Contract!Inspect, Just
  <2> QED
    BY <1>4, <2>1, <2>2, <2>3, <2>4 DEF NoopClose
<1>5. CASE CloseFirst(c)
  BY <1>0, <1>2, <1>5 DEF CloseFirst, Contract!vars
<1>6. CASE Lock(c) \/ Drain(c)
  BY <1>0, <1>6 DEF Lock, Drain, Contract!vars
<1>7. CASE CloseSecond(c)
  BY <1>2, <1>3, <1>7 DEF CloseSecond, CacheInv, CallInv
<1>8. ASSUME NEW status \in {"ok", "failed"}, ShutDown(c, status) PROVE Contract!Served(c)
  BY <1>2, <1>8 DEF ShutDown, CacheInv, CallInv
<1> QED
  BY <1>4, <1>5, <1>6, <1>7, <1>8 DEF RistrettoClose, OlricClose

\* Every step is a step of the contract, or changes nothing that it shows.
LEMMA StepRefines == CacheInv /\ [CacheNext]_cacheVars => [Contract!Next]_Contract!vars
<1> SUFFICES ASSUME CacheInv, [CacheNext]_cacheVars PROVE [Contract!Next]_Contract!vars
  OBVIOUS
<1>1. CASE UNCHANGED cacheVars
  BY <1>1 DEF cacheVars, factoryVars, Contract!vars
<1>2. CASE FactoryStep
  BY <1>2 DEF FactoryStep, New, NewRistretto, NewClient, ClientDMap, NewEmbedded, NodeStarted,
     EmbeddedDMap, NodeStarts, FactoryUnchanged, Contract!vars
<1>6. CASE Settles
  <2>1. PICK k \in Keys, v \in Values : Settle(k, v)
    BY <1>6 DEF Settles
  <2>2. Contract!Settle(k, v)
    BY <2>1 DEF Settle, Contract!Settle, Written, factoryVars
  <2> QED
    BY <2>2 DEF Contract!Next
<1>3. ASSUME NEW k \in Keys, Forget(k) PROVE Contract!Next
  BY <1>3 DEF Forget, factoryVars, Contract!Next, Contract!Forget
<1>4. ASSUME NEW c \in Callers, Begin(c) PROVE Contract!Next
  BY <1>4 DEF Begin, CallUnchanged, factoryVars, Contract!Next, Contract!Ask, CacheInv, CallInv, Call, Just
<1>5. ASSUME NEW c \in Callers, CallerStep(c) PROVE [Contract!Next]_Contract!vars
  <2>1. CASE RLock(c)
    BY <2>1 DEF RLock, CallUnchanged, factoryVars, Contract!vars
  <2>2. CASE Serve(c)
    BY <2>2, RistrettoServed, OlricServed DEF Serve, CallUnchanged, factoryVars, Contract!Next
  <2>3. CASE NoopCall(c) \/ FirstCheck(c) \/ SecondCheck(c)
    BY <2>3, CheckRefines DEF Contract!Next
  <2>4. CASE \/ NoopClose(c) \/ CloseFirst(c) \/ Lock(c) \/ Drain(c) \/ CloseSecond(c)
             \/ RistrettoClose(c) \/ OlricClose(c)
    BY <2>4, CloseRefines DEF Contract!Next
  <2> QED
    BY <1>5, <2>1, <2>2, <2>3, <2>4 DEF CallerStep
<1> QED
  BY <1>1, <1>2, <1>3, <1>4, <1>5, <1>6 DEF CacheNext

\* Whatever the backend and however many goroutines call: a read sees what is there at one moment
\* between its begin and its answer, a write is made at most once, by an eager backend before it
\* answers "ok", and a closed cache answers only that it is closed.
THEOREM KeepsContract == CacheSpec => ContractSpec
<1>1. CacheInit => Contract!Init
  BY DEF CacheInit, Contract!Init, Just
<1> QED
  BY <1>1, StepRefines, CacheInvHolds, PTL DEF CacheSpec, ContractSpec, Contract!Spec

(***************************************************************************)
(* Induction over finite sets and numbers.                                 *)
(***************************************************************************)

\* Of any sets of elements of a finite set, one contains no other.
LEMMA SmallestSet ==
    ASSUME NEW S, IsFiniteSet(S), NEW F \in SUBSET SUBSET S, F # {}
    PROVE  \E T \in F : \A U \in F : U \subseteq T => U = T
<1> DEFINE R == StrictSubsetOrdering(S)
           G == FiniteSubsetsOf(S)
<1>1. IsWellFoundedOn(R, G)
    BY FS_StrictSubsetOrderingWellFounded
<1>2. G = SUBSET S
    BY FS_FiniteSubsetsOfFinite
<1>3. \A T, U \in SUBSET S : U \subseteq T /\ U # T => <<U, T>> \in R
    BY DEF StrictSubsetOrdering
<1> HIDE DEF R, G
<1>4. F \subseteq G
    BY <1>2
<1>5. PICK T \in F : \A U \in F : ~(<<U, T>> \in R)
    BY <1>1, <1>4, WFMin
<1>6. ASSUME NEW U \in F, U \subseteq T PROVE U = T
    BY <1>3, <1>5, <1>6
<1> QED
    BY <1>6

\* Of numbers up to n, one is the least.
LEMMA LeastNumber ==
    ASSUME NEW n \in Nat, NEW M \in SUBSET (0 .. n), M # {}
    PROVE  \E m \in M : \A k \in M : m <= k
<1> DEFINE Below(m) == {k \in M : k <= m}
           F == {Below(m) : m \in M}
           S == 0 .. n
<1>1. IsFiniteSet(S)
    BY FS_Interval
<1>2. F \in SUBSET SUBSET S /\ F # {} /\ \A k \in M : k \in Int
    <2>1. PICK m \in M : TRUE
        OBVIOUS
    <2>2. Below(m) \in F
        BY <2>1
    <2>3. \A k \in M : k \in Int /\ k \in S
        OBVIOUS
    <2> HIDE DEF S
    <2>4. ASSUME NEW k \in M PROVE Below(k) \in SUBSET S
        BY <2>3
    <2> HIDE DEF Below
    <2> QED
        BY <2>2, <2>3, <2>4
<1> HIDE DEF F, S
<1>3. PICK T \in F : \A U \in F : U \subseteq T => U = T
    BY <1>1, <1>2, SmallestSet
<1>4. PICK m \in M : T = Below(m)
    BY DEF F
<1>5. ASSUME NEW k \in M PROVE m <= k
    <2> SUFFICES ASSUME ~(m <= k) PROVE FALSE
        OBVIOUS
    <2>1. k \in Int /\ m \in Int /\ k <= m /\ ~(m <= k)
        BY <1>2
    <2>2. Below(k) \subseteq Below(m)
        <3>1. ASSUME NEW x \in M, x <= k PROVE x <= m
            BY <1>2, <2>1, <3>1
        <3> QED
            BY <3>1
    <2>3. Below(k) \in F
        BY DEF F
    <2>4. Below(k) = Below(m)
        BY <1>3, <1>4, <2>2, <2>3
    <2>5. m \in Below(m) /\ m \notin Below(k)
        BY <2>1
    <2> QED
        BY <2>4, <2>5
<1> QED
    BY <1>5

\* What holds of 0, and of a number when it does of the one before, holds up to n.
LEMMA CountingUp ==
    ASSUME NEW n \in Nat, NEW F, 0 \in F, \A i \in 1 .. n : i - 1 \in F => i \in F
    PROVE  \A i \in 0 .. n : i \in F
<1> SUFFICES ASSUME NEW j \in 0 .. n, j \notin F PROVE FALSE
    OBVIOUS
<1> DEFINE M == {i \in 0 .. n : i \notin F}
<1>1. M \in SUBSET (0 .. n) /\ M # {}
    OBVIOUS
<1> HIDE DEF M
<1>2. PICK m \in M : \A k \in M : m <= k
    BY <1>1, LeastNumber
<1>3. m \in 0 .. n /\ m \notin F
    BY DEF M
<1>4. m \in 1 .. n /\ m - 1 \in 0 .. n /\ ~(m <= m - 1)
    BY <1>3
<1>5. m - 1 \in F
    BY <1>2, <1>4 DEF M
<1> QED
    BY <1>3, <1>4, <1>5

\* What is computed step by step from a beginning.
Stepwise(t, n, T, a, step) ==
    /\ t \in [0 .. n -> T] /\ t[0] = a
    /\ \A i \in 1 .. n : t[i] = step[i][t[i - 1]]

\* It exists.
LEMMA StepwiseExists ==
    ASSUME NEW n \in Nat, NEW T, NEW a \in T, NEW step \in [1 .. n -> [T -> T]]
    PROVE  \E t : Stepwise(t, n, T, a, step)
<1> DEFINE F == {m \in 0 .. n : \E t : Stepwise(t, m, T, a, step)}
<1>1. 0 \in F
    <2> DEFINE t == [i \in 0 .. 0 |-> a]
    <2>1. t \in [0 .. 0 -> T] /\ t[0] = a /\ 1 .. 0 = {}
        OBVIOUS
    <2> HIDE DEF t
    <2>2. Stepwise(t, 0, T, a, step)
        BY <2>1 DEF Stepwise
    <2> QED
        BY <2>2
<1>2. ASSUME NEW m \in 1 .. n, m - 1 \in F PROVE m \in F
    <2>1. PICK t : Stepwise(t, m - 1, T, a, step)
        BY <1>2
    <2> DEFINE x == step[m][t[m - 1]]
               u == [i \in 0 .. m |-> IF i = m THEN x ELSE t[i]]
    <2>2. t \in [0 .. m - 1 -> T] /\ t[0] = a /\ \A i \in 1 .. m - 1 : t[i] = step[i][t[i - 1]]
        BY <2>1 DEF Stepwise
    <2>3. \A i \in 0 .. m : i = m \/ i \in 0 .. m - 1
        OBVIOUS
    <2>4. m - 1 \in 0 .. m - 1 /\ t[m - 1] \in T /\ x \in T
        BY <2>2
    <2> HIDE DEF x
    <2>5. u \in [0 .. m -> T] /\ u[0] = a
        BY <2>2, <2>3, <2>4
    <2>6. ASSUME NEW i \in 1 .. m PROVE u[i] = step[i][u[i - 1]]
        <3>1. i \in 0 .. m /\ i - 1 \in 0 .. m /\ i - 1 # m
            BY <2>6
        <3>2. u[i - 1] = t[i - 1]
            BY <3>1
        <3>3. CASE i = m
            BY <3>1, <3>2, <3>3 DEF x
        <3>4. CASE i # m
            <4>1. i \in 1 .. m - 1 /\ u[i] = t[i]
                BY <3>1, <3>4
            <4> QED
                BY <2>2, <3>2, <4>1
        <3> QED
            BY <3>3, <3>4
    <2> HIDE DEF u
    <2>7. Stepwise(u, m, T, a, step)
        BY <2>5, <2>6 DEF Stepwise
    <2> QED
        BY <2>7
<1> HIDE DEF F
<1>3. \A m \in 0 .. n : m \in F
    BY <1>1, <1>2, CountingUp
<1> QED
    BY <1>3 DEF F

\* There is only one.
LEMMA StepwiseUnique ==
    ASSUME NEW n \in Nat, NEW T, NEW a \in T, NEW step \in [1 .. n -> [T -> T]],
           NEW t, Stepwise(t, n, T, a, step),
           NEW u, u[0] = a, \A i \in 1 .. n : u[i] = step[i][u[i - 1]]
    PROVE  \A i \in 0 .. n : u[i] = t[i]
<1> DEFINE F == {i \in 0 .. n : u[i] = t[i]}
<1>1. 0 \in F
    BY DEF Stepwise
<1>2. ASSUME NEW i \in 1 .. n, i - 1 \in F PROVE i \in F
    BY <1>2 DEF Stepwise
<1> HIDE DEF F
<1>3. \A i \in 0 .. n : i \in F
    BY <1>1, <1>2, CountingUp
<1> QED
    BY <1>3 DEF F
--------------------------------------------------------------------------------
(* Messages, their places on the wire and their events.                        *)

\* What the proofs use of messages that may be sent.
Messages(ms) == Len(ms) \in Nat /\ \A i \in 1 .. Len(ms) : ms[i].rest \in Nat \ {0}

LEMMA Associates ==
    \A X : \A x, y, z \in Seq(X) : (x \o y) \o z = x \o (y \o z)
BY ConcatAssociative

LEMMA SizeIs ==
    ASSUME NEW ms, Messages(ms), NEW i \in 1 .. Len(ms)
    PROVE  Size(ms[i]) \in Nat /\ Size(ms[i]) >= MinLen /\ Size(ms[i]) > PreludeLen
<1>1. ms[i].rest \in Nat /\ ms[i].rest >= 1
    BY DEF Messages
<1> QED
    BY <1>1 DEF Size, MinLen, PreludeLen

LEMMA OffsetsAre ==
    ASSUME NEW ms, Messages(ms)
    PROVE  /\ \A i \in 0 .. Len(ms) : Offsets(ms)[i] \in Nat
           /\ Offsets(ms)[0] = 0
           /\ \A i \in 1 .. Len(ms) : Offsets(ms)[i] = Offsets(ms)[i - 1] + Size(ms[i])
<1> DEFINE n == Len(ms)
           step == [i \in 1 .. n |-> [x \in Nat |-> x + Size(ms[i])]]
           f == CHOOSE f : f = [i \in 0 .. n |-> IF i = 0 THEN 0 ELSE f[i - 1] + Size(ms[i])]
<1>1. Offsets(ms) = f
    BY DEF Offsets
<1>2. n \in Nat /\ \A i \in 1 .. n : Size(ms[i]) \in Nat
    BY SizeIs DEF Messages
<1> HIDE DEF n
<1>3. step \in [1 .. n -> [Nat -> Nat]]
    BY <1>2
<1>4. \A i \in 1 .. n : \A x \in Nat : step[i][x] = x + Size(ms[i])
    OBVIOUS
<1> HIDE DEF step
<1>5. PICK t : Stepwise(t, n, Nat, 0, step)
    BY <1>2, <1>3, StepwiseExists
<1>6. t \in [0 .. n -> Nat] /\ t[0] = 0 /\ \A i \in 1 .. n : t[i] = t[i - 1] + Size(ms[i])
    <2>1. t \in [0 .. n -> Nat] /\ t[0] = 0 /\ \A i \in 1 .. n : t[i] = step[i][t[i - 1]]
        BY <1>5 DEF Stepwise
    <2>2. \A i \in 1 .. n : i - 1 \in 0 .. n
        BY <1>2
    <2> QED
        BY <1>4, <2>1, <2>2
<1>7. t = [i \in 0 .. n |-> IF i = 0 THEN 0 ELSE t[i - 1] + Size(ms[i])]
    <2>1. \A i \in 0 .. n : i = 0 \/ i \in 1 .. n
        BY <1>2
    <2> QED
        BY <1>6, <2>1
<1>8. f = [i \in 0 .. n |-> IF i = 0 THEN 0 ELSE f[i - 1] + Size(ms[i])]
    BY <1>7
<1> HIDE DEF f
<1>9. f[0] = 0 /\ \A i \in 1 .. n : f[i] = f[i - 1] + Size(ms[i])
    <2>1. 0 \in 0 .. n /\ \A i \in 1 .. n : i \in 0 .. n /\ i # 0
        BY <1>2
    <2> QED
        BY <1>8, <2>1
<1>10. \A i \in 0 .. n : f[i] \in Nat
    <2> DEFINE F == {i \in 0 .. n : f[i] \in Nat}
    <2>1. 0 \in F
        BY <1>2, <1>9
    <2>2. ASSUME NEW i \in 1 .. n, i - 1 \in F PROVE i \in F
        <3>1. f[i - 1] \in Nat /\ Size(ms[i]) \in Nat /\ i \in 0 .. n
            BY <1>2, <2>2
        <3> QED
            BY <1>9, <3>1
    <2> HIDE DEF F
    <2>3. \A i \in 0 .. n : i \in F
        BY <1>2, <2>1, <2>2, CountingUp
    <2> QED
        BY <2>3 DEF F
<1> QED
    BY <1>1, <1>9, <1>10 DEF n

\* Messages do not overlap.
LEMMA OffsetsIncrease ==
    ASSUME NEW ms, Messages(ms), NEW i \in 0 .. Len(ms), NEW j \in i .. Len(ms)
    PROVE  Offsets(ms)[i] <= Offsets(ms)[j]
<1> DEFINE n == Len(ms)
           F == {k \in 0 .. n : i <= k => Offsets(ms)[i] <= Offsets(ms)[k]}
<1>1. n \in Nat
    BY DEF Messages
<1>2. 0 \in F
    <2>1. Offsets(ms)[i] \in Nat
        BY OffsetsAre
    <2>2. i <= 0 => i = 0
        OBVIOUS
    <2> QED
        BY <1>1, <2>1, <2>2
<1>3. ASSUME NEW k \in 1 .. n, k - 1 \in F PROVE k \in F
    <2>1. k - 1 \in 0 .. n /\ k \in 0 .. n
        BY <1>1
    <2>2. /\ Offsets(ms)[i] \in Nat /\ Offsets(ms)[k - 1] \in Nat /\ Size(ms[k]) \in Nat
          /\ Offsets(ms)[k] = Offsets(ms)[k - 1] + Size(ms[k])
        BY <2>1, OffsetsAre, SizeIs
    <2>3. i <= k - 1 => Offsets(ms)[i] <= Offsets(ms)[k - 1]
        BY <1>3
    <2>4. i <= k => i <= k - 1 \/ i = k
        BY <1>1
    <2> QED
        BY <2>1, <2>2, <2>3, <2>4
<1> HIDE DEF F
<1>4. \A k \in 0 .. n : k \in F
    BY <1>1, <1>2, <1>3, CountingUp
<1>5. j \in 0 .. n /\ i <= j
    BY <1>1
<1> QED
    BY <1>4, <1>5 DEF F

\* A message parses as soon as all of it is there, and what follows is no matter.
LEMMA ParsesWhenWhole ==
    ASSUME NEW ms, Messages(ms), NEW i \in 1 .. Len(ms), NEW have \in Int
    PROVE  ParseMessage(ms[i], have) <=> Size(ms[i]) <= have /\ ~Skipped(ms[i])
<1>1. Size(ms[i]) \in Nat /\ Size(ms[i]) >= MinLen /\ MinLen \in Nat
    BY SizeIs DEF MinLen, PreludeLen
<1> QED
    BY <1>1 DEF ParseMessage, PreludeParses, Skipped

Events == {"error", "event"} \X Nat

\* A message is one event, or none.
LEMMA MessageEvents ==
    ASSUME NEW ms, NEW k \in Nat
    PROVE  FormatMessage(ms, k) \in Seq(Events)
<1>1. << <<"error", k>> >> \in Seq(Events) /\ << <<"event", k>> >> \in Seq(Events)
    BY DEF Events
<1> QED
    BY <1>1 DEF FormatMessage

\* EventsUpto, message after message.
LEMMA EventsAre ==
    ASSUME NEW ms, Messages(ms), NEW I
    PROVE  /\ \A k \in 0 .. Len(ms) : EventsUpto(ms, I)[k] \in Seq(Events)
           /\ EventsUpto(ms, I)[0] = <<>>
           /\ \A k \in 1 .. Len(ms) :
                 /\ k \in I => EventsUpto(ms, I)[k] =
                                 EventsUpto(ms, I)[k - 1] \o FormatMessage(ms, k)
                 /\ k \notin I => EventsUpto(ms, I)[k] = EventsUpto(ms, I)[k - 1]
<1> DEFINE n == Len(ms)
           After(k, s) == IF k \in I THEN s \o FormatMessage(ms, k) ELSE s
           step == [k \in 1 .. n |-> [s \in Seq(Events) |-> After(k, s)]]
           f == CHOOSE f : f = [k \in 0 .. n |->
                    IF k = 0 THEN <<>>
                    ELSE IF k \in I THEN f[k - 1] \o FormatMessage(ms, k) ELSE f[k - 1]]
<1>1. EventsUpto(ms, I) = f
    BY DEF EventsUpto
<1>2. n \in Nat /\ \A k \in 1 .. n : k \in Nat /\ k - 1 \in 0 .. n
    BY DEF Messages
<1> HIDE DEF n
<1>3. ASSUME NEW k \in 1 .. n, NEW s \in Seq(Events) PROVE After(k, s) \in Seq(Events)
    <2>1. FormatMessage(ms, k) \in Seq(Events)
        BY <1>2, MessageEvents
    <2> QED
        BY <2>1
<1>4. <<>> \in Seq(Events)
    OBVIOUS
<1> HIDE DEF After
<1>5. step \in [1 .. n -> [Seq(Events) -> Seq(Events)]]
    BY <1>3
<1>6. \A k \in 1 .. n : \A s \in Seq(Events) : step[k][s] = After(k, s)
    OBVIOUS
<1> HIDE DEF step
<1>7. PICK t : Stepwise(t, n, Seq(Events), <<>>, step)
    BY <1>2, <1>4, <1>5, StepwiseExists
<1>8. t \in [0 .. n -> Seq(Events)] /\ t[0] = <<>> /\ \A k \in 1 .. n : t[k] = After(k, t[k - 1])
    BY <1>2, <1>6, <1>7 DEF Stepwise
<1>9. t = [k \in 0 .. n |->
               IF k = 0 THEN <<>>
               ELSE IF k \in I THEN t[k - 1] \o FormatMessage(ms, k) ELSE t[k - 1]]
    <2>1. \A k \in 0 .. n : k = 0 \/ k \in 1 .. n
        BY <1>2
    <2>2. \A k \in 0 .. n : t[k] = IF k = 0 THEN <<>> ELSE After(k, t[k - 1])
        BY <1>8, <2>1
    <2>3. t = [k \in 0 .. n |-> IF k = 0 THEN <<>> ELSE After(k, t[k - 1])]
        BY <1>8, <2>2
    <2> QED
        BY <2>3 DEF After
<1>10. f = [k \in 0 .. n |->
               IF k = 0 THEN <<>>
               ELSE IF k \in I THEN f[k - 1] \o FormatMessage(ms, k) ELSE f[k - 1]]
    BY <1>9
<1> HIDE DEF f
<1>11. f[0] = <<>> /\ \A k \in 1 .. n : f[k] = After(k, f[k - 1])
    <2>1. 0 \in 0 .. n /\ \A k \in 1 .. n : k \in 0 .. n /\ k # 0
        BY <1>2
    <2> QED
        BY <1>10, <2>1 DEF After
<1>12. \A k \in 0 .. n : f[k] \in Seq(Events)
    <2> DEFINE F == {k \in 0 .. n : f[k] \in Seq(Events)}
    <2>1. 0 \in F
        <3>1. 0 \in 0 .. n
            BY <1>2
        <3>2. f[0] \in Seq(Events)
            BY <1>4, <1>11
        <3> QED
            BY <3>1, <3>2
    <2>2. ASSUME NEW k \in 1 .. n, k - 1 \in F PROVE k \in F
        BY <1>2, <1>3, <1>11, <2>2
    <2> HIDE DEF F
    <2>3. \A k \in 0 .. n : k \in F
        BY <1>2, <2>1, <2>2, CountingUp
    <2> QED
        BY <2>3 DEF F
<1>13. \A k \in 1 .. n : /\ k \in I => f[k] = f[k - 1] \o FormatMessage(ms, k)
                         /\ k \notin I => f[k] = f[k - 1]
    BY <1>11 DEF After
<1> QED
    BY <1>1, <1>11, <1>12, <1>13 DEF n

LEMMA FormatAllTyped ==
    ASSUME NEW ms, Messages(ms), NEW I
    PROVE  FormatAll(ms, I) \in Seq(Events)
<1>1. Len(ms) \in 0 .. Len(ms)
    BY DEF Messages
<1> QED
    BY <1>1, EventsAre DEF FormatAll

\* The events of earlier messages come before those of later ones.
LEMMA Joined ==
    ASSUME NEW ms, Messages(ms), NEW p \in 0 .. Len(ms),
           NEW I \in SUBSET (1 .. p), NEW J \in SUBSET (p + 1 .. Len(ms))
    PROVE  FormatAll(ms, I \cup J) = FormatAll(ms, I) \o FormatAll(ms, J)
<1> DEFINE n == Len(ms)
           a == EventsUpto(ms, I)
           b == EventsUpto(ms, J)
           K == I \cup J
           c == EventsUpto(ms, K)
           F == {k \in 0 .. n : c[k] = a[k] \o b[k] /\ (k <= p => b[k] = <<>>)}
<1>0. \A s, t, u \in Seq(Events) : (s \o t) \o u = s \o (t \o u)
    BY ONLY Associates
<1>1. n \in Nat /\ p \in 0 .. n /\ \A k \in 1 .. n : k - 1 \in 0 .. n /\ k \in 0 .. n /\ k \in Nat
    BY DEF Messages
<1>2. \A k \in 0 .. n : a[k] \in Seq(Events) /\ b[k] \in Seq(Events) /\ c[k] \in Seq(Events)
    BY EventsAre
<1>3. a[0] = <<>> /\ b[0] = <<>> /\ c[0] = <<>>
    BY EventsAre
<1>4. \A k \in 1 .. n : /\ k \in I => a[k] = a[k - 1] \o FormatMessage(ms, k)
                        /\ k \notin I => a[k] = a[k - 1]
    BY EventsAre
<1>5. \A k \in 1 .. n : /\ k \in J => b[k] = b[k - 1] \o FormatMessage(ms, k)
                        /\ k \notin J => b[k] = b[k - 1]
    BY EventsAre
<1>6. \A k \in 1 .. n : /\ k \in K => c[k] = c[k - 1] \o FormatMessage(ms, k)
                        /\ k \notin K => c[k] = c[k - 1]
    <2> HIDE DEF K
    <2> QED
        BY EventsAre
<1>7. \A k \in 1 .. n : (k \in I => k <= p) /\ (k \in J => ~(k <= p))
    BY <1>1
<1> HIDE DEF n, a, b, c
<1>8. 0 \in F
    <2>1. a[0] \o b[0] = a[0]
        BY <1>3, ConcatEmptySeq
    <2>2. 0 \in 0 .. n
        BY <1>1
    <2> QED
        BY <1>3, <2>1, <2>2
<1>9. ASSUME NEW k \in 1 .. n, k - 1 \in F PROVE k \in F
    <2> DEFINE m == FormatMessage(ms, k)
    <2>1. /\ a[k - 1] \in Seq(Events) /\ b[k - 1] \in Seq(Events) /\ m \in Seq(Events)
          /\ a[k] \in Seq(Events)
        BY <1>1, <1>2, MessageEvents
    <2>2. c[k - 1] = a[k - 1] \o b[k - 1] /\ (k - 1 <= p => b[k - 1] = <<>>)
        BY <1>9
    <2> HIDE DEF m
    <2>3. CASE k \in I
        <3>1. k <= p /\ k - 1 <= p /\ k \notin J /\ k \in I \cup J
            BY <1>1, <1>7, <2>3
        <3>2. b[k - 1] = <<>> /\ b[k] = <<>>
            BY <1>5, <2>2, <3>1
        <3>3. c[k - 1] = a[k - 1]
            BY <2>1, <2>2, <3>2, ConcatEmptySeq
        <3>4. a[k] = a[k - 1] \o m /\ c[k] = a[k - 1] \o m
            BY <1>4, <1>6, <2>3, <3>1, <3>3 DEF m
        <3>5. a[k] \o <<>> = a[k]
            BY <2>1, ConcatEmptySeq
        <3> QED
            BY <1>1, <3>2, <3>4, <3>5
    <2>4. CASE k \in J
        <3>1. ~(k <= p) /\ k \notin I /\ k \in I \cup J
            BY <1>7, <2>4
        <3>2. a[k] = a[k - 1] /\ b[k] = b[k - 1] \o m /\ c[k] = (a[k - 1] \o b[k - 1]) \o m
            BY <1>4, <1>5, <1>6, <2>2, <2>4, <3>1 DEF m
        <3>3. (a[k - 1] \o b[k - 1]) \o m = a[k - 1] \o (b[k - 1] \o m)
            BY ONLY <1>0, <2>1
        <3>4. c[k] = a[k] \o b[k]
            BY <3>2, <3>3
        <3> QED
            BY <1>1, <3>1, <3>4
    <2>5. CASE k \notin I /\ k \notin J
        <3>1. a[k] = a[k - 1] /\ b[k] = b[k - 1] /\ c[k] = c[k - 1]
            BY <1>4, <1>5, <1>6, <2>5
        <3>2. k <= p => k - 1 <= p
            BY <1>1
        <3> QED
            BY <1>1, <2>2, <3>1, <3>2
    <2> QED
        BY <2>3, <2>4, <2>5
<1> HIDE DEF F
<1>10. \A k \in 0 .. n : k \in F
    BY <1>1, <1>8, <1>9, CountingUp
<1>11. n \in F
    BY <1>1, <1>10
<1> QED
    BY <1>11 DEF F, FormatAll, a, b, c, n, K

\* No message, no event.
LEMMA NoneFormatted ==
    ASSUME NEW ms, Messages(ms)
    PROVE  FormatAll(ms, {}) = <<>>
<1>1. 0 \in 0 .. Len(ms)
    BY DEF Messages
<1>2. FormatAll(ms, {} \cup {}) = FormatAll(ms, {}) \o FormatAll(ms, {})
    BY <1>1, Joined
<1>3. FormatAll(ms, {}) = FormatAll(ms, {}) \o FormatAll(ms, {})
    BY <1>2
<1>4. FormatAll(ms, {}) \in Seq(Events)
    BY FormatAllTyped
<1> QED
    BY <1>3, <1>4, ConcatEqualIffEmpty

\* One message, its event.
LEMMA OneFormatted ==
    ASSUME NEW ms, Messages(ms), NEW k \in 1 .. Len(ms)
    PROVE  FormatAll(ms, {k}) = FormatMessage(ms, k)
<1> DEFINE n == Len(ms)
           e == EventsUpto(ms, {k})
           m == FormatMessage(ms, k)
           F == {j \in 0 .. n : (j < k => e[j] = <<>>) /\ (k <= j => e[j] = m)}
<1>1. n \in Nat /\ k \in Nat /\ 0 < k /\ k <= n
    BY DEF Messages
<1>2. e[0] = <<>>
    BY EventsAre
<1>3. \A j \in 1 .. n : (j = k => e[j] = e[j - 1] \o m) /\ (j # k => e[j] = e[j - 1])
    BY EventsAre
<1>4. <<>> \o m = m
    BY <1>1, MessageEvents, ConcatEmptySeq
<1> HIDE DEF n, e, m
<1>5. 0 \in F
    BY <1>1, <1>2
<1>6. ASSUME NEW j \in 1 .. n, j - 1 \in F PROVE j \in F
    <2>1. (j - 1 < k => e[j - 1] = <<>>) /\ (k <= j - 1 => e[j - 1] = m)
        BY <1>6
    <2>2. j \in 0 .. n /\ j \in Int
        OBVIOUS
    <2>3. CASE j = k
        <3>1. j - 1 < k /\ ~(j < k)
            BY <1>1, <2>3
        <3>2. e[j] = m
            BY <1>3, <1>4, <2>1, <2>3, <3>1
        <3> QED
            BY <2>2, <3>1, <3>2
    <2>4. CASE j # k
        <3>1. (j < k => j - 1 < k) /\ (k <= j => k <= j - 1)
            BY <1>1, <2>2, <2>4
        <3>2. e[j] = e[j - 1]
            BY <1>3, <2>4
        <3> QED
            BY <2>1, <2>2, <3>1, <3>2
    <2> QED
        BY <2>3, <2>4
<1> HIDE DEF F
<1>7. \A j \in 0 .. n : j \in F
    BY <1>1, <1>5, <1>6, CountingUp
<1>8. n \in F
    BY <1>1, <1>7
<1> QED
    BY <1>1, <1>8 DEF F, FormatAll, e, m, n

\* t begins with s.
Begins(s, t) == \E u \in Seq(Events) : t = s \o u

LEMMA BeginsIsPrefix ==
    ASSUME NEW s \in Seq(Events), NEW t, Begins(s, t)
    PROVE  IsPrefix(s, t)
<1>1. PICK u \in Seq(Events) : t = s \o u
    BY DEF Begins
<1>2. t \in Seq(Events) /\ Len(t) = Len(s) + Len(u) /\ Len(s) \in Nat /\ Len(u) \in Nat
    BY <1>1, ConcatProperties
<1>3. \A i \in 1 .. Len(s) : t[i] = s[i]
    <2>1. \A i \in 1 .. Len(s) + Len(u) : t[i] = IF i <= Len(s) THEN s[i] ELSE u[i - Len(s)]
        BY <1>1, ConcatProperties
    <2>2. \A i \in 1 .. Len(s) : i \in 1 .. Len(s) + Len(u) /\ i <= Len(s)
        BY <1>2
    <2> QED
        BY <2>1, <2>2
<1>4. Len(s) <= Len(t)
    BY <1>2
<1>5. SubSeq(s, 1, Len(s)) = s
    BY SubSeqFull
<1>6. SubSeq(t, 1, Len(s)) = s
    <2>1. /\ SubSeq(t, 1, Len(s)) \in Seq(Events)
          /\ Len(SubSeq(t, 1, Len(s))) = Len(s)
          /\ \A i \in 1 .. Len(s) : SubSeq(t, 1, Len(s))[i] = t[i]
        BY <1>2, <1>4
    <2> QED
        BY <1>3, <2>1, SeqEqual
<1> QED
    BY <1>4, <1>5, <1>6 DEF IsPrefix

LEMMA BeginsItself == ASSUME NEW s \in Seq(Events) PROVE Begins(s, s)
<1>1. s \o <<>> = s /\ <<>> \in Seq(Events)
    BY ConcatEmptySeq
<1> QED
    BY <1>1 DEF Begins

--------------------------------------------------------------------------------
(* The streams.                                                                *)

wire == answer.msgs

Untouched ==
    /\ got = 0 /\ parsed = 0 /\ done = FALSE /\ result = Open
    /\ sse = <<>> /\ client = <<>>

\* The wrapper has converted the messages that parse, up to the first that does not.
WrappedInv ==
    /\ client \o sse = FormatAll(wire, 1 .. parsed)
    /\ Offsets(wire)[parsed] <= got
    /\ \A i \in 1 .. parsed : ~Skipped(wire[i])
    /\ parsed < Len(wire) => ~ParseMessage(wire[parsed + 1], got - Offsets(wire)[parsed])
    /\ done => got = answer.cut
    /\ result = Ended => done /\ sse = <<>>

\* The direct converter has sent the undamaged messages that it has read.
DirectInv ==
    /\ sse = <<>>
    /\ Offsets(wire)[parsed] <= answer.cut
    /\ Begins(client, FormatAll(wire, Undamaged(answer)))
    /\ result = Open => client = FormatAll(wire, Undamaged(answer) \cap (1 .. parsed))
    /\ result = Ended => client = FormatAll(wire, Undamaged(answer))

StreamTypes ==
    /\ got \in 0 .. answer.cut
    /\ parsed \in 0 .. Len(wire)
    /\ sse \in Seq(Events) /\ client \in Seq(Events)
    /\ mode \in {"waiting", "unchanged", "wrapped", "direct"}
    /\ done \in BOOLEAN
    /\ result \in {Open, Ended, Failed, NoProgress, Panicked}

StreamInv ==
    /\ AnswerOK(answer)
    /\ StreamTypes
    /\ mode = "waiting" => Untouched
    /\ mode = "wrapped" => WrappedInv
    /\ mode = "direct" => DirectInv

LEMMA AnswerFacts ==
    ASSUME AnswerOK(answer)
    PROVE  /\ Messages(wire) /\ answer.cut \in Nat /\ answer.cut <= Offsets(wire)[Len(wire)]
           /\ Offsets(wire)[Len(wire)] \in Nat /\ Len(wire) \in Nat
           /\ answer.ending \in {Ended, Failed}
<1> DEFINE Message == [claims : {"right", "short", "overrun"}, rest : Nat \ {0}, intact : BOOLEAN,
                       headers : Seq([name : STRING, type : STRING, whole : BOOLEAN])]
<1>1. Len(wire) \in Nat /\ \A i \in 1 .. Len(wire) : wire[i].rest \in Nat \ {0}
    <2>1. wire \in Seq(Message)
        BY DEF AnswerOK, wire
    <2>2. \A m \in Message : m.rest \in Nat \ {0}
        OBVIOUS
    <2> HIDE DEF Message
    <2> QED
        BY <2>1, <2>2
<1>2. Messages(wire)
    BY <1>1 DEF Messages
<1>3. Offsets(wire)[Len(wire)] \in Nat
    BY <1>1, <1>2, OffsetsAre
<1> QED
    BY <1>1, <1>2, <1>3 DEF AnswerOK, wire

\* What has arrived whole lies within what has been read of the wire.
LEMMA ArrivedUpto ==
    ASSUME AnswerOK(answer), NEW p \in 0 .. Len(wire), NEW i \in 1 .. Len(wire)
    PROVE  /\ Offsets(wire)[p] <= answer.cut /\ i <= p => i \in Arrived(answer)
           /\ i \in Arrived(answer) /\ ~(i <= p) =>
                 Offsets(wire)[p] + Size(wire[p + 1]) <= answer.cut
<1>1. Messages(wire) /\ answer.cut \in Nat /\ Len(wire) \in Nat
    BY AnswerFacts
<1>2. i \in 0 .. Len(wire) /\ Offsets(wire)[i] \in Nat /\ Offsets(wire)[p] \in Nat
    BY <1>1, OffsetsAre
<1>3. i \in Arrived(answer) <=> Offsets(wire)[i] <= answer.cut
    BY DEF Arrived, wire
<1>4. i <= p => Offsets(wire)[i] <= Offsets(wire)[p]
    <2>1. i <= p => p \in i .. Len(wire)
        BY <1>1
    <2> QED
        BY <1>1, <1>2, <2>1, OffsetsIncrease
<1>5. ~(i <= p) => Offsets(wire)[p] + Size(wire[p + 1]) <= Offsets(wire)[i]
    <2> SUFFICES ASSUME ~(i <= p) PROVE Offsets(wire)[p] + Size(wire[p + 1]) <= Offsets(wire)[i]
        OBVIOUS
    <2>1. p + 1 \in 1 .. Len(wire) /\ p + 1 \in 0 .. Len(wire) /\ i \in p + 1 .. Len(wire) /\ p + 1 - 1 = p
        BY <1>1
    <2>2. Offsets(wire)[p + 1] = Offsets(wire)[p] + Size(wire[p + 1])
        BY <1>1, <2>1, OffsetsAre
    <2>3. Offsets(wire)[p + 1] <= Offsets(wire)[i]
        BY <1>1, <2>1, OffsetsIncrease
    <2> QED
        BY <2>2, <2>3
<1>7. ~(i <= p) => Offsets(wire)[p] + Size(wire[p + 1]) \in Int
    <2>1. ~(i <= p) => p + 1 \in 1 .. Len(wire)
        BY <1>1
    <2> QED
        BY <1>1, <1>2, <2>1, SizeIs
<1> QED
    BY <1>1, <1>2, <1>3, <1>4, <1>5, <1>7

LEMMA WaitingBecomesWrapped ==
    ASSUME AnswerOK(answer), Untouched
    PROVE  WrappedInv /\ DirectInv
<1>1. Messages(wire) /\ answer.cut \in Nat /\ Len(wire) \in Nat
    BY AnswerFacts
<1>2. Offsets(wire)[0] = 0
    BY <1>1, OffsetsAre
<1>3. FormatAll(wire, {}) = <<>> /\ 1 .. 0 = {}
    BY <1>1, NoneFormatted
<1>4. <<>> \o <<>> = <<>> /\ <<>> \in Seq(Events)
    OBVIOUS
<1>5. 0 < Len(wire) => ~ParseMessage(wire[1], 0)
    BY DEF ParseMessage, MinLen, PreludeLen
<1>6. WrappedInv
    BY <1>1, <1>2, <1>3, <1>4, <1>5 DEF WrappedInv, Untouched, Open, Ended
<1>7. Begins(<<>>, FormatAll(wire, Undamaged(answer)))
    <2>1. FormatAll(wire, Undamaged(answer)) \in Seq(Events)
        BY <1>1, FormatAllTyped
    <2>2. <<>> \o FormatAll(wire, Undamaged(answer)) = FormatAll(wire, Undamaged(answer))
        BY <2>1, ConcatEmptySeq
    <2> QED
        BY <2>1, <2>2 DEF Begins
<1>8. Undamaged(answer) \cap (1 .. 0) = {}
    BY <1>3
<1> QED
    BY <1>1, <1>2, <1>3, <1>6, <1>7, <1>8 DEF DirectInv, Untouched, Open, Ended

LEMMA ReadConvertedKeeps ==
    ASSUME AnswerOK(answer), StreamTypes, WrappedInv, result = Open, ReadConverted,
           UNCHANGED <<answer, mode>>
    PROVE  StreamTypes' /\ WrappedInv'
<1>1. /\ sse # <<>> /\ UNCHANGED <<got, parsed, done, result>> /\ wire' = wire
      /\ \E n \in 1 .. Len(sse) :
           client' = client \o SubSeq(sse, 1, n) /\ sse' = SubSeq(sse, n + 1, Len(sse))
    BY DEF ReadConverted, wire
<1>2. PICK n \in 1 .. Len(sse) :
           client' = client \o SubSeq(sse, 1, n) /\ sse' = SubSeq(sse, n + 1, Len(sse))
    BY <1>1
<1> DEFINE a == SubSeq(sse, 1, n)
           b == SubSeq(sse, n + 1, Len(sse))
<1>3. sse \in Seq(Events) /\ client \in Seq(Events) /\ Len(sse) \in Nat
    BY DEF StreamTypes
<1>4. a \in Seq(Events) /\ b \in Seq(Events)
    BY <1>3
<1>5. a \o b = sse
    <2>1. 1 \in 1 .. Len(sse) + 1 /\ n \in 1 - 1 .. Len(sse) /\ Len(sse) \in n .. Len(sse)
        BY <1>3
    <2>2. a \o b = SubSeq(sse, 1, Len(sse))
        BY <1>3, <2>1, ConcatAdjacentSubSeq
    <2> QED
        BY <1>3, <2>2, SubSeqFull
<1>6. client' = client \o a /\ sse' = b
    BY <1>2
<1> HIDE DEF a, b
<1>7. \A s, t, u \in Seq(Events) : (s \o t) \o u = s \o (t \o u)
    BY ConcatAssociative
<1>8. client' \o sse' = client \o sse
    BY <1>3, <1>4, <1>5, <1>6, <1>7
<1>9. client' \in Seq(Events) /\ sse' \in Seq(Events)
    BY <1>3, <1>4, <1>6
<1>10. StreamTypes'
    BY <1>1, <1>9 DEF StreamTypes
<1>11. WrappedInv'
    BY <1>1, <1>8 DEF WrappedInv, Open, Ended
<1> QED
    BY <1>10, <1>11

\* The buffer is converted up to the first message that does not parse.
LEMMA ParseBufferKeeps ==
    ASSUME AnswerOK(answer), StreamTypes, WrappedInv, sse = <<>>,
           NEW have \in Int, got <= have, ParseBuffer(have)
    PROVE  /\ parsed' \in parsed .. Len(wire) /\ sse' \in Seq(Events)
           /\ client \o sse' = FormatAll(wire, 1 .. parsed')
           /\ Offsets(wire)[parsed'] <= have
           /\ \A i \in 1 .. parsed' : ~Skipped(wire[i])
           /\ parsed' < Len(wire) =>
                 ~ParseMessage(wire[parsed' + 1], have - Offsets(wire)[parsed'])
<1>1. PICK k \in parsed .. Len(wire) :
          /\ \A i \in (parsed + 1) .. k : ParseMessage(wire[i], have - Offsets(wire)[i - 1])
          /\ k = Len(wire) \/ ~ParseMessage(wire[k + 1], have - Offsets(wire)[k + 1 - 1])
          /\ parsed' = k
          /\ sse' = sse \o FormatAll(wire, (parsed + 1) .. k)
    BY DEF ParseBuffer, Offset, wire
<1>2. Messages(wire) /\ Len(wire) \in Nat /\ parsed \in 0 .. Len(wire) /\ client \in Seq(Events)
    BY AnswerFacts DEF StreamTypes
<1>3. k \in 0 .. Len(wire) /\ parsed <= k /\ k + 1 - 1 = k /\ (k < Len(wire) => k # Len(wire))
    BY <1>2
<1>4. \A i \in 0 .. Len(wire) : Offsets(wire)[i] \in Nat
    BY <1>2, OffsetsAre
<1>5. \A i \in (parsed + 1) .. k :
          ~Skipped(wire[i]) /\ Size(wire[i]) <= have - Offsets(wire)[i - 1]
    <2> TAKE i \in (parsed + 1) .. k
    <2>1. i \in 1 .. Len(wire) /\ i - 1 \in 0 .. Len(wire)
        BY <1>2
    <2>2. have - Offsets(wire)[i - 1] \in Int
        BY <1>4, <2>1
    <2> QED
        BY <1>1, <1>2, <2>1, <2>2, ParsesWhenWhole
<1>6. Offsets(wire)[k] <= have
    <2>1. CASE k = parsed
        <3>1. Offsets(wire)[parsed] <= got /\ got \in Int
            BY DEF WrappedInv, StreamTypes
        <3> QED
            BY <1>3, <1>4, <2>1, <3>1
    <2>2. CASE k # parsed
        <3>1. k \in (parsed + 1) .. k /\ k \in 1 .. Len(wire) /\ k - 1 \in 0 .. Len(wire)
            BY <1>2, <1>3, <2>2
        <3>2. /\ Offsets(wire)[k] = Offsets(wire)[k - 1] + Size(wire[k])
              /\ Size(wire[k]) \in Nat
            BY <1>2, <3>1, OffsetsAre, SizeIs
        <3>3. Size(wire[k]) <= have - Offsets(wire)[k - 1]
            BY <1>5, <3>1
        <3> QED
            BY <1>4, <3>1, <3>2, <3>3
    <2> QED
        BY <2>1, <2>2
<1>7. \A i \in 1 .. k : ~Skipped(wire[i])
    <2>1. \A i \in 1 .. k : i \in 1 .. parsed \/ i \in (parsed + 1) .. k
        BY <1>2, <1>3
    <2> QED
        BY <1>5, <2>1 DEF WrappedInv
<1>8. FormatAll(wire, 1 .. k) =
          FormatAll(wire, 1 .. parsed) \o FormatAll(wire, (parsed + 1) .. k)
    <2> DEFINE I == 1 .. parsed
               J == (parsed + 1) .. k
    <2>1. 1 .. k = I \cup J
        BY <1>2, <1>3
    <2>2. I \in SUBSET (1 .. parsed) /\ J \in SUBSET (parsed + 1 .. Len(wire))
        BY <1>2, <1>3
    <2> HIDE DEF I, J
    <2>3. FormatAll(wire, I \cup J) = FormatAll(wire, I) \o FormatAll(wire, J)
        BY ONLY <1>2, <2>2, Joined, ZenonT(30)
    <2> QED
        BY <2>1, <2>3 DEF I, J
<1>9. /\ client = FormatAll(wire, 1 .. parsed)
      /\ sse' = FormatAll(wire, (parsed + 1) .. k)
    <2>1. FormatAll(wire, (parsed + 1) .. k) \in Seq(Events)
        BY <1>2, FormatAllTyped
    <2>2. client \o <<>> = client
        BY <1>2, ConcatEmptySeq
    <2>3. <<>> \o FormatAll(wire, (parsed + 1) .. k) = FormatAll(wire, (parsed + 1) .. k)
        BY <2>1, ConcatEmptySeq
    <2> QED
        BY <1>1, <2>2, <2>3 DEF WrappedInv
<1>10. FormatAll(wire, (parsed + 1) .. k) \in Seq(Events)
    BY <1>2, FormatAllTyped
<1> QED
    BY <1>1, <1>3, <1>6, <1>7, <1>8, <1>9, <1>10

LEMMA ReadUpstreamKeeps ==
    ASSUME AnswerOK(answer), StreamTypes, WrappedInv, result = Open, ReadUpstream,
           UNCHANGED <<answer, mode>>
    PROVE  StreamTypes' /\ WrappedInv'
<1>1. sse = <<>> /\ ~done /\ ReadAndBuffer /\ client' = client /\ wire' = wire
    BY DEF ReadUpstream, wire
<1>2. PICK r \in BodyReads :
          IF r[1] = 0 /\ r[2] = Open
          THEN result' = NoProgress /\ UNCHANGED <<got, parsed, sse, done>>
          ELSE /\ got' = got + r[1] /\ ParseBuffer(got + r[1])
               /\ done' = (r[2] = Ended) \/ done' = done
               /\ result' \in {Failed, Open, Panicked}
    BY <1>1 DEF ReadAndBuffer
<1>3. CASE r[1] = 0 /\ r[2] = Open
    <2>1. result' = NoProgress /\ UNCHANGED <<got, parsed, sse, done>>
        BY <1>2, <1>3
    <2> QED
        BY <1>1, <2>1 DEF StreamTypes, WrappedInv, NoProgress, Ended
<1>4. CASE ~(r[1] = 0 /\ r[2] = Open)
    <2>1. /\ got' = got + r[1] /\ ParseBuffer(got + r[1]) /\ (done' => r[2] = Ended)
          /\ done' \in BOOLEAN /\ result' \in {Failed, Open, Panicked}
        BY <1>1, <1>2, <1>4 DEF StreamTypes
    <2>2. got \in Nat /\ got <= answer.cut /\ answer.cut \in Nat /\ MaxChunk \in Nat
        BY AnswerFacts, EventStreamAssumption DEF StreamTypes
    <2>3. /\ r[1] \in Nat /\ r[1] <= answer.cut - got
          /\ r[2] = Ended => r[1] = answer.cut - got
        BY <2>2 DEF BodyReads, Open, Ended
    <2>4. got' \in Int /\ got <= got' /\ got' \in 0 .. answer.cut /\ (done' => got' = answer.cut)
        <3>1. got' = got + r[1] /\ (done' => r[2] = Ended)
            BY <2>1
        <3> QED
            BY <2>2, <2>3, <3>1
    <2>5. ParseBuffer(got')
        BY <2>1
    <2>6. /\ parsed' \in parsed .. Len(wire) /\ sse' \in Seq(Events)
          /\ client \o sse' = FormatAll(wire, 1 .. parsed')
          /\ Offsets(wire)[parsed'] <= got'
          /\ \A i \in 1 .. parsed' : ~Skipped(wire[i])
          /\ parsed' < Len(wire) =>
                ~ParseMessage(wire[parsed' + 1], got' - Offsets(wire)[parsed'])
        BY <1>1, <2>4, <2>5, ParseBufferKeeps
    <2>7. parsed' \in 0 .. Len(wire)
        BY <2>6, AnswerFacts DEF StreamTypes
    <2>8. StreamTypes'
        BY <1>1, <2>1, <2>4, <2>6, <2>7 DEF StreamTypes
    <2>9. WrappedInv'
        BY <1>1, <2>1, <2>4, <2>6 DEF WrappedInv, Ended, Failed, Open, Panicked
    <2> QED
        BY <2>8, <2>9
<1> QED
    BY <1>3, <1>4

LEMMA ReadEndKeeps ==
    ASSUME AnswerOK(answer), StreamTypes, WrappedInv, result = Open, ReadEnd,
           UNCHANGED <<answer, mode>>
    PROVE  StreamTypes' /\ WrappedInv'
<1>1. /\ sse = <<>> /\ done /\ result' = Ended /\ wire' = wire
      /\ UNCHANGED <<got, parsed, sse, client, done>>
    BY DEF ReadEnd, wire
<1> QED
    BY <1>1 DEF StreamTypes, WrappedInv

\* The events of the first messages of a set are a prefix of all its events.
LEMMA BeginsUpto ==
    ASSUME Messages(wire), NEW U \in SUBSET (1 .. Len(wire)), NEW p \in 0 .. Len(wire)
    PROVE  Begins(FormatAll(wire, U \cap (1 .. p)), FormatAll(wire, U))
<1> DEFINE I == U \cap (1 .. p)
           J == U \cap (p + 1 .. Len(wire))
<1>1. Len(wire) \in Nat /\ Messages(wire) /\ p \in 0 .. Len(wire)
    BY DEF Messages
<1>2. U = I \cup J
    <2>1. \A i \in 1 .. Len(wire) : i \in 1 .. p \/ i \in p + 1 .. Len(wire)
        BY <1>1
    <2> QED
        BY <2>1
<1>3. I \in SUBSET (1 .. p) /\ J \in SUBSET (p + 1 .. Len(wire))
    OBVIOUS
<1> HIDE DEF I, J
<1>4. FormatAll(wire, U) = FormatAll(wire, I) \o FormatAll(wire, J)
    <2>1. FormatAll(wire, I \cup J) = FormatAll(wire, I) \o FormatAll(wire, J)
        BY ONLY <1>1, <1>3, Joined, ZenonT(30)
    <2> QED
        BY <1>2, <2>1
<1>5. FormatAll(wire, J) \in Seq(Events)
    BY FormatAllTyped
<1> QED
    BY <1>4, <1>5 DEF Begins, I

\* Where the body ends between two messages, or behind a prelude, no other has arrived.
LEMMA CleanEndIsLast ==
    ASSUME AnswerOK(answer), StreamTypes, CleanEnd
    PROVE  Undamaged(answer) \subseteq 1 .. parsed
<1> SUFFICES ASSUME NEW i \in Undamaged(answer), i \notin 1 .. parsed PROVE FALSE
    OBVIOUS
<1>1. /\ Messages(wire) /\ Len(wire) \in Nat /\ parsed \in 0 .. Len(wire)
      /\ answer.cut \in Nat /\ Offsets(wire)[parsed] \in Nat
    BY AnswerFacts, OffsetsAre DEF StreamTypes
<1>2. i \in Arrived(answer) /\ i \in 1 .. Len(wire)
    BY DEF Undamaged, Arrived, wire
<1>3. ~(i <= parsed) /\ parsed + 1 \in 1 .. Len(wire)
    BY <1>1, <1>2
<1>4. Offsets(wire)[parsed] + Size(wire[parsed + 1]) <= answer.cut
    BY <1>1, <1>2, <1>3, ArrivedUpto
<1>5. Size(wire[parsed + 1]) \in Nat /\ Size(wire[parsed + 1]) > PreludeLen /\ PreludeLen \in Nat
    BY <1>1, <1>3, SizeIs DEF PreludeLen
<1>6. answer.cut - Offsets(wire)[parsed] \in {0, PreludeLen}
    BY DEF CleanEnd, Remaining, Offset, wire
<1> QED
    BY <1>1, <1>4, <1>5, <1>6

LEMMA ReadNextMessageKeeps ==
    ASSUME AnswerOK(answer), StreamTypes, DirectInv, result = Open, ReadNextMessage,
           UNCHANGED <<answer, mode, got, sse, done>>
    PROVE  StreamTypes' /\ DirectInv'
<1> DEFINE U == Undamaged(answer)
<1>1. /\ Messages(wire) /\ Len(wire) \in Nat /\ parsed \in 0 .. Len(wire)
      /\ answer.cut \in Nat /\ Offsets(wire)[parsed] \in Nat
      /\ client \in Seq(Events) /\ sse = <<>>
    BY AnswerFacts, OffsetsAre DEF StreamTypes, DirectInv
<1>2. wire' = wire /\ U' = U /\ U \in SUBSET (1 .. Len(wire))
    BY DEF wire, Undamaged, Arrived
<1>3. client = FormatAll(wire, U \cap (1 .. parsed)) /\ Begins(client, FormatAll(wire, U))
    BY DEF DirectInv
<1>4. CASE /\ ~Complete /\ result' = (IF CleanEnd THEN Ended ELSE Failed)
           /\ UNCHANGED <<parsed, client>>
    <2>1. StreamTypes'
        BY <1>2, <1>4 DEF StreamTypes
    <2>2. CleanEnd => client = FormatAll(wire, U)
        <3>1. CleanEnd => U \cap (1 .. parsed) = U
            BY CleanEndIsLast
        <3> QED
            BY <1>3, <3>1
    <2>3. result' = Ended => client' = FormatAll(wire, U)
        BY <1>4, <2>2 DEF Ended, Failed
    <2>4. result' # Open
        BY <1>4 DEF Ended, Failed, Open
    <2> HIDE DEF U
    <2>5. DirectInv'
        BY <1>1, <1>2, <1>3, <1>4, <2>3, <2>4 DEF DirectInv, U
    <2> QED
        BY <2>1, <2>5
<1>5. CASE Complete /\ parsed' = parsed + 1
    <2>1. /\ parsed < Len(wire) /\ Size(wire[parsed + 1]) <= answer.cut - Offsets(wire)[parsed]
          /\ parsed + 1 \in 1 .. Len(wire) /\ parsed + 1 \in 0 .. Len(wire) /\ parsed + 1 - 1 = parsed
        BY <1>1, <1>5 DEF Complete, Remaining, Offset, wire
    <2>2. Offsets(wire)[parsed + 1] <= answer.cut
        <3>1. /\ Offsets(wire)[parsed + 1] = Offsets(wire)[parsed] + Size(wire[parsed + 1])
              /\ Size(wire[parsed + 1]) \in Nat
            BY <1>1, <2>1, OffsetsAre, SizeIs
        <3> QED
            BY <1>1, <2>1, <3>1
    <2>3. parsed + 1 \in U <=> ~Skipped(wire[parsed + 1])
        BY <2>1, <2>2 DEF Undamaged, Arrived, wire
    <2>4. CASE /\ Skipped(wire[parsed + 1]) /\ client' = client
               /\ result' \in {Open, Panicked}
        <3>1. \A i : i \in 1 .. parsed + 1 <=> i \in 1 .. parsed \/ i = parsed + 1
            BY <1>1
        <3>2. U \cap (1 .. parsed + 1) = U \cap (1 .. parsed)
            BY <2>3, <2>4, <3>1
        <3>3. StreamTypes'
            BY <1>2, <1>5, <2>1, <2>4 DEF StreamTypes
        <3>4. client' = FormatAll(wire, U \cap (1 .. parsed')) /\ result' # Ended
            BY <1>3, <1>5, <2>4, <3>2 DEF Open, Ended, Panicked
        <3> HIDE DEF U
        <3>5. DirectInv'
            BY <1>1, <1>2, <1>3, <1>5, <2>2, <2>4, <3>4 DEF DirectInv, U
        <3> QED
            BY <3>3, <3>5
    <2>5. CASE /\ ~Skipped(wire[parsed + 1]) /\ UNCHANGED result
               /\ client' = client \o FormatMessage(wire, parsed + 1)
        <3> DEFINE I == U \cap (1 .. parsed)
                   J == {parsed + 1}
        <3>1. U \cap (1 .. parsed + 1) = I \cup J
            <4>1. \A i : i \in 1 .. parsed + 1 <=> i \in 1 .. parsed \/ i = parsed + 1
                BY <1>1
            <4> HIDE DEF U
            <4> QED
                BY <2>3, <2>5, <4>1
        <3>2. I \in SUBSET (1 .. parsed) /\ J \in SUBSET (parsed + 1 .. Len(wire))
            BY <1>1, <2>1
        <3>3. FormatAll(wire, J) = FormatMessage(wire, parsed + 1)
            BY <1>1, <2>1, OneFormatted
        <3> HIDE DEF I, J
        <3>4. FormatAll(wire, I \cup J) = FormatAll(wire, I) \o FormatAll(wire, J)
            BY <1>1, <3>2, Joined
        <3>5. client' = FormatAll(wire, U \cap (1 .. parsed + 1))
            BY <1>3, <2>5, <3>1, <3>3, <3>4 DEF I
        <3>6. client' \in Seq(Events)
            BY <1>1, <3>5, FormatAllTyped
        <3>7. Begins(client', FormatAll(wire, U))
            BY <1>1, <1>2, <2>1, <3>5, BeginsUpto
        <3>8. StreamTypes'
            BY <1>2, <1>5, <2>1, <2>5, <3>6 DEF StreamTypes
        <3> HIDE DEF U
        <3>9. DirectInv'
            BY <1>1, <1>2, <1>5, <2>2, <2>5, <3>5, <3>7 DEF DirectInv, Open, Ended, U
        <3> QED
            BY <3>8, <3>9
    <2>6. CASE result' = Failed /\ client' = client
        <3>1. StreamTypes'
            BY <1>2, <1>5, <2>1, <2>6 DEF StreamTypes
        <3> HIDE DEF U
        <3>2. DirectInv'
            BY <1>1, <1>2, <1>3, <1>5, <2>2, <2>6 DEF DirectInv, Open, Ended, Failed, U
        <3> QED
            BY <3>1, <3>2
    <2> QED
        BY <1>5, <2>4, <2>5, <2>6 DEF ReadNextMessage, Complete, wire
<1> QED
    BY <1>4, <1>5 DEF ReadNextMessage

LEMMA InitStream == Init => StreamInv
<1> SUFFICES ASSUME Init PROVE StreamInv
    OBVIOUS
<1>1. PICK s \in Scenarios : StreamInit(s.answer)
    BY DEF Init
<1>2. AnswerOK(s.answer)
    BY ExchangeAssumption
<1>3. AnswerOK(answer) /\ mode = "waiting" /\ Untouched
    BY <1>1, <1>2 DEF StreamInit, Untouched
<1>4. answer.cut \in Nat /\ Len(wire) \in Nat
    BY <1>3, AnswerFacts
<1>5. StreamTypes
    <2>1. 0 \in 0 .. answer.cut /\ 0 \in 0 .. Len(wire)
        BY <1>4
    <2>2. <<>> \in Seq(Events)
        OBVIOUS
    <2>3. sse \in Seq(Events) /\ client \in Seq(Events)
        BY <1>3, <2>2 DEF Untouched
    <2> QED
        BY <1>3, <2>1, <2>3 DEF StreamTypes, Untouched
<1> QED
    BY <1>3, <1>5 DEF StreamInv

LEMMA SameStream ==
    ASSUME StreamInv, UNCHANGED streamVars
    PROVE  StreamInv'
<1>1. /\ answer' = answer /\ mode' = mode /\ got' = got /\ parsed' = parsed /\ sse' = sse
      /\ client' = client /\ done' = done /\ result' = result /\ wire' = wire
    BY DEF streamVars, wire
<1>2. Undamaged(answer)' = Undamaged(answer) /\ AnswerOK(answer)'
    BY <1>1 DEF Undamaged, Arrived, StreamInv
<1>3. StreamTypes' /\ (mode' = "waiting" => Untouched')
    BY <1>1 DEF StreamInv, StreamTypes, Untouched
<1>4. mode' = "wrapped" => WrappedInv'
    BY <1>1 DEF StreamInv, WrappedInv
<1>5. mode' = "direct" => DirectInv'
    BY <1>1, <1>2 DEF StreamInv, DirectInv
<1> QED
    BY <1>2, <1>3, <1>4, <1>5 DEF StreamInv

LEMMA StreamStep ==
    ASSUME StreamInv, StreamNext
    PROVE  StreamInv'
<1>1. AnswerOK(answer) /\ StreamTypes /\ answer' = answer /\ wire' = wire
    BY DEF StreamInv, StreamNext, ModifyResponse, TransformResponse, Read,
           ProcessEventStream, wire
<1>2. AnswerOK(answer)'
    BY <1>1
<1>3. CASE ModifyResponse \/ TransformResponse
    <2>1. /\ UNCHANGED <<answer, got, parsed, sse, client, done, result>>
          /\ Untouched /\ mode' \in {"wrapped", "unchanged", "direct"}
        BY <1>3 DEF ModifyResponse, TransformResponse, StreamInv
    <2>2. WrappedInv /\ DirectInv
        BY <1>1, <2>1, WaitingBecomesWrapped
    <2>3. Undamaged(answer)' = Undamaged(answer)
        BY <1>1 DEF Undamaged, Arrived
    <2>4. WrappedInv'
        BY <1>1, <2>1, <2>2 DEF WrappedInv
    <2>5. DirectInv'
        BY <1>1, <2>1, <2>2, <2>3 DEF DirectInv
    <2>6. StreamTypes'
        BY <1>1, <2>1 DEF StreamTypes
    <2> QED
        BY <1>2, <2>1, <2>4, <2>5, <2>6 DEF StreamInv
<1>4. CASE Read
    <2>1. /\ mode = "wrapped" /\ result = Open /\ WrappedInv /\ UNCHANGED <<answer, mode>>
          /\ ReadConverted \/ ReadUpstream \/ ReadEnd
        BY <1>4 DEF Read, StreamInv
    <2>2. StreamTypes' /\ WrappedInv'
        BY <1>1, <2>1, ReadConvertedKeeps, ReadUpstreamKeeps, ReadEndKeeps
    <2> QED
        BY <1>2, <2>1, <2>2 DEF StreamInv
<1>5. CASE ProcessEventStream
    <2>1. /\ mode = "direct" /\ result = Open /\ DirectInv /\ ReadNextMessage
          /\ UNCHANGED <<answer, mode, got, sse, done>>
        BY <1>5 DEF ProcessEventStream, StreamInv
    <2>2. StreamTypes' /\ DirectInv'
        BY <1>1, <2>1, ReadNextMessageKeeps
    <2> QED
        BY <1>2, <2>1, <2>2 DEF StreamInv
<1> QED
    BY <1>3, <1>4, <1>5 DEF StreamNext

LEMMA StepStream == StreamInv /\ [Next]_vars => StreamInv'
<1> SUFFICES ASSUME StreamInv, [Next]_vars PROVE StreamInv'
    OBVIOUS
<1>1. UNCHANGED streamVars \/ StreamNext
    BY DEF Next, vars, Send, Refused, Accepted
<1> QED
    BY <1>1, SameStream, StreamStep

LEMMA StreamInvIsExact == StreamInv => StreamExact
<1> SUFFICES ASSUME StreamInv, mode \in {"wrapped", "direct"}
             PROVE  /\ IsPrefix(client \o sse, Promised)
                    /\ result = Ended => client = Promised
    BY DEF StreamExact
<1>1. /\ Messages(wire) /\ Len(wire) \in Nat /\ parsed \in 0 .. Len(wire) /\ AnswerOK(answer)
      /\ answer.cut \in Nat /\ client \in Seq(Events) /\ sse \in Seq(Events) /\ got \in Nat
      /\ got <= answer.cut
    BY AnswerFacts DEF StreamInv, StreamTypes
<1>2. client \o <<>> = client /\ client \o sse \in Seq(Events)
    BY <1>1, ConcatEmptySeq, ConcatProperties
<1>3. CASE mode = "direct"
    <2>1. DirectInv /\ Promised = FormatAll(wire, Undamaged(answer))
        BY <1>3 DEF StreamInv, Promised, wire
    <2>2. client \o sse = client
        BY <1>2, <2>1 DEF DirectInv
    <2>3. IsPrefix(client, Promised)
        BY <1>1, <2>1, BeginsIsPrefix DEF DirectInv
    <2> QED
        BY <2>1, <2>2, <2>3 DEF DirectInv
<1>4. CASE mode = "wrapped"
    <2> DEFINE U == UntilDamage(answer)
    <2>1. WrappedInv /\ Promised = FormatAll(wire, U) /\ U \in SUBSET (1 .. Len(wire))
        BY <1>4 DEF StreamInv, Promised, wire, UntilDamage, Arrived
    <2>2. U \cap (1 .. parsed) = 1 .. parsed
        <3>1. ASSUME NEW i \in 1 .. parsed PROVE i \in U
            <4>1. i \in 1 .. Len(wire) /\ i <= parsed /\ \A j \in 1 .. i : j \in 1 .. parsed
                BY <1>1
            <4>2. Offsets(wire)[parsed] <= answer.cut
                <5>1. Offsets(wire)[parsed] \in Nat /\ Offsets(wire)[parsed] <= got
                    BY <1>1, <2>1, OffsetsAre DEF WrappedInv
                <5> QED
                    BY <1>1, <5>1
            <4>3. i \in Arrived(answer)
                BY <1>1, <4>1, <4>2, ArrivedUpto
            <4> QED
                BY <2>1, <4>1, <4>3 DEF UntilDamage, WrappedInv, wire
        <3> QED
            BY <3>1
    <2>3. Begins(client \o sse, Promised)
        <3> HIDE DEF U
        <3>1. Begins(FormatAll(wire, U \cap (1 .. parsed)), FormatAll(wire, U))
            BY <1>1, <2>1, BeginsUpto
        <3> QED
            BY <2>1, <2>2, <3>1 DEF WrappedInv
    <2>4. IsPrefix(client \o sse, Promised)
        BY <1>2, <2>3, BeginsIsPrefix
    <2>5. ASSUME result = Ended PROVE U = 1 .. parsed
        <3>1. got = answer.cut
            BY <2>1, <2>5 DEF WrappedInv
        <3> SUFFICES ASSUME NEW i \in U, i \notin 1 .. parsed PROVE FALSE
            BY <2>2
        <3>2. i \in Arrived(answer) /\ i \in 1 .. Len(wire) /\ \A j \in 1 .. i : ~Skipped(wire[j])
            BY DEF UntilDamage, Arrived, wire
        <3>3. /\ ~(i <= parsed) /\ parsed + 1 \in 1 .. i /\ parsed + 1 \in 1 .. Len(wire)
              /\ parsed < Len(wire)
            BY <1>1, <3>2
        <3>4. Offsets(wire)[parsed] + Size(wire[parsed + 1]) <= answer.cut
            BY <1>1, <3>2, <3>3, ArrivedUpto
        <3>5. /\ Offsets(wire)[parsed] \in Nat /\ Size(wire[parsed + 1]) \in Nat
              /\ got - Offsets(wire)[parsed] \in Int
            BY <1>1, <3>3, OffsetsAre, SizeIs
        <3>6. ParseMessage(wire[parsed + 1], got - Offsets(wire)[parsed])
            <4>1. Size(wire[parsed + 1]) <= got - Offsets(wire)[parsed]
                BY <1>1, <3>1, <3>4, <3>5
            <4> QED
                BY <1>1, <3>2, <3>3, <3>5, <4>1, ParsesWhenWhole
        <3> QED
            BY <2>1, <3>3, <3>6 DEF WrappedInv
    <2>6. ASSUME result = Ended PROVE client = Promised
        <3>1. client \o sse = client /\ client \o sse = FormatAll(wire, 1 .. parsed)
            BY <1>2, <2>1, <2>6 DEF WrappedInv
        <3> HIDE DEF U
        <3> QED
            BY <2>1, <2>5, <2>6, <3>1
    <2> QED
        BY <2>4, <2>6
<1> QED
    BY <1>3, <1>4

\* The invariant of the streams (StreamTypes among it), of every exchange.
THEOREM StreamInvariant == Spec => []StreamInv
<1> QED
    BY InitStream, StepStream, PTL DEF Spec

\* Whatever the upstream sends, the client gets a prefix of the events it was promised,
\* and all of them when the end is reported as clean (eventStreamToSSEBody.Read,
\* EventStreamToSSE).
THEOREM StreamExactHolds == Spec => []StreamExact
<1> QED
    BY StreamInvariant, StreamInvIsExact, PTL

--------------------------------------------------------------------------------
(* Elements chosen from a sequence in their order, and sequences joined         *)
(* into one.                                                                   *)

\* c is what s has at the positions I, in order; p tells where each comes from.
PickedBy(p, c, s, I) ==
    /\ Len(c) \in Nat /\ Len(s) \in Nat
    /\ p \in [1 .. Len(c) -> 1 .. Len(s)]
    /\ \A i, j \in 1 .. Len(c) : i < j => p[i] < p[j]
    /\ \A j \in 1 .. Len(c) : c[j] = s[p[j]] /\ p[j] \in I
    /\ \A i \in 1 .. Len(s) : i \in I => \E j \in 1 .. Len(c) : p[j] = i

Picks(c, s, I) == \E p : PickedBy(p, c, s, I)

\* Chosen, element after element.
Choosing(t, S, s, I) ==
    /\ t \in [0 .. Len(s) -> Seq(S)] /\ t[0] = <<>> /\ Chosen(s, I) = t[Len(s)]
    /\ \A n \in 1 .. Len(s) :
         /\ n \in I => t[n] = Append(t[n - 1], s[n])
         /\ n \notin I => t[n] = t[n - 1]

LEMMA ChosenAre ==
    ASSUME NEW S, NEW s \in Seq(S), NEW I
    PROVE  \E t : Choosing(t, S, s, I)
<1> DEFINE n == Len(s)
           After(k, c) == IF k \in I THEN Append(c, s[k]) ELSE c
           step == [k \in 1 .. n |-> [c \in Seq(S) |-> After(k, c)]]
           f == CHOOSE f : f = [k \in 0 .. n |->
                    IF k = 0 THEN <<>>
                    ELSE IF k \in I THEN Append(f[k - 1], s[k]) ELSE f[k - 1]]
<1>1. Chosen(s, I) = f[n]
    BY DEF Chosen
<1>2. n \in Nat /\ \A k \in 1 .. n : s[k] \in S /\ k - 1 \in 0 .. n
    OBVIOUS
<1> HIDE DEF n
<1>3. ASSUME NEW k \in 1 .. n, NEW c \in Seq(S) PROVE After(k, c) \in Seq(S)
    BY <1>2
<1>4. <<>> \in Seq(S)
    OBVIOUS
<1> HIDE DEF After
<1>5. step \in [1 .. n -> [Seq(S) -> Seq(S)]]
    BY <1>3
<1>6. \A k \in 1 .. n : \A c \in Seq(S) : step[k][c] = After(k, c)
    OBVIOUS
<1> HIDE DEF step
<1>7. PICK t : Stepwise(t, n, Seq(S), <<>>, step)
    BY <1>2, <1>4, <1>5, StepwiseExists
<1>8. t \in [0 .. n -> Seq(S)] /\ t[0] = <<>> /\ \A k \in 1 .. n : t[k] = After(k, t[k - 1])
    BY <1>2, <1>6, <1>7 DEF Stepwise
<1>9. t = [k \in 0 .. n |->
               IF k = 0 THEN <<>>
               ELSE IF k \in I THEN Append(t[k - 1], s[k]) ELSE t[k - 1]]
    <2>1. \A k \in 0 .. n : k = 0 \/ k \in 1 .. n
        BY <1>2
    <2>2. \A k \in 0 .. n : t[k] = IF k = 0 THEN <<>> ELSE After(k, t[k - 1])
        BY <1>8, <2>1
    <2>3. t = [k \in 0 .. n |-> IF k = 0 THEN <<>> ELSE After(k, t[k - 1])]
        BY <1>8, <2>2
    <2> QED
        BY <2>3 DEF After
<1>10. f = [k \in 0 .. n |->
               IF k = 0 THEN <<>>
               ELSE IF k \in I THEN Append(f[k - 1], s[k]) ELSE f[k - 1]]
    BY <1>9
<1> HIDE DEF f
<1>11. f[0] = <<>> /\ \A k \in 1 .. n : f[k] = After(k, f[k - 1])
    <2>1. 0 \in 0 .. n /\ \A k \in 1 .. n : k \in 0 .. n /\ k # 0
        BY <1>2
    <2> QED
        BY <1>10, <2>1 DEF After
<1>12. \A k \in 0 .. n : f[k] = t[k]
    <2> DEFINE F == {k \in 0 .. n : f[k] = t[k]}
    <2>1. 0 \in F
        BY <1>2, <1>8, <1>11
    <2>2. ASSUME NEW k \in 1 .. n, k - 1 \in F PROVE k \in F
        BY <1>8, <1>11, <2>2
    <2> HIDE DEF F
    <2>3. \A k \in 0 .. n : k \in F
        BY <1>2, <2>1, <2>2, CountingUp
    <2> QED
        BY <2>3 DEF F
<1>13. Chosen(s, I) = t[n]
    BY <1>1, <1>2, <1>12
<1>14. \A k \in 1 .. n : /\ k \in I => t[k] = Append(t[k - 1], s[k])
                         /\ k \notin I => t[k] = t[k - 1]
    BY <1>8 DEF After
<1> QED
    BY <1>8, <1>13, <1>14 DEF n, Choosing

\* They are what is at those positions.
LEMMA ChosenPicks ==
    ASSUME NEW S, NEW s \in Seq(S), NEW I
    PROVE  Chosen(s, I) \in Seq(S) /\ Picks(Chosen(s, I), s, I)
<1> DEFINE n == Len(s)
           Upto(k) == I \cap (1 .. k)
<1>1. PICK t : Choosing(t, S, s, I)
    BY ChosenAre
<1>2. n \in Nat /\ \A k \in 1 .. n : k - 1 \in 0 .. n /\ s[k] \in S
    OBVIOUS
<1>3. /\ Len(s) = n /\ n \in 0 .. n
      /\ t \in [0 .. n -> Seq(S)] /\ t[0] = <<>> /\ Chosen(s, I) = t[n]
    BY <1>1 DEF Choosing
<1>4. \A k \in 1 .. n : /\ k \in I => t[k] = Append(t[k - 1], s[k])
                        /\ k \notin I => t[k] = t[k - 1]
    BY <1>1 DEF Choosing
<1> HIDE DEF n
<1> DEFINE F == {k \in 0 .. n : Picks(t[k], s, Upto(k))}
<1>5. 0 \in F
    <2> DEFINE p == [j \in {} |-> 0]
    <2>1. PickedBy(p, t[0], s, Upto(0))
        BY <1>2, <1>3 DEF PickedBy
    <2> QED
        BY <1>2, <2>1 DEF Picks
<1>6. ASSUME NEW k \in 1 .. n, k - 1 \in F PROVE k \in F
    <2>1. PICK p : PickedBy(p, t[k - 1], s, Upto(k - 1))
        BY <1>6 DEF Picks
    <2>2. t[k - 1] \in Seq(S) /\ k \in 0 .. n /\ t[k - 1] \in Seq(S) /\ s[k] \in S
        BY <1>2, <1>3
    <2>3. CASE k \in I
        <3> DEFINE c == t[k - 1]
                   m == Len(c)
                   q == [j \in 1 .. m + 1 |-> IF j = m + 1 THEN k ELSE p[j]]
        <3>1. t[k] = Append(c, s[k])
            BY <1>4, <2>3
        <3>2. c \in Seq(S) /\ m \in Nat /\ Len(Append(c, s[k])) = m + 1
            BY <2>2
        <3>3. \A j \in 1 .. m + 1 : Append(c, s[k])[j] = IF j = m + 1 THEN s[k] ELSE c[j]
            BY <2>2
        <3>4. \A j \in 1 .. m + 1 : j = m + 1 \/ j \in 1 .. m
            BY <3>2
        <3>5. /\ \A j \in 1 .. m : p[j] \in 1 .. k - 1 /\ p[j] \in 1 .. n /\ p[j] \in I /\ c[j] = s[p[j]]
              /\ \A i, j \in 1 .. m : i < j => p[i] < p[j]
              /\ \A i \in 1 .. n : i \in Upto(k - 1) => \E j \in 1 .. m : p[j] = i
            BY <1>3, <2>1 DEF PickedBy
        <3>6. \A i \in 1 .. n : i \in Upto(k) <=> i \in Upto(k - 1) \/ i = k
            BY <1>2, <2>3
        <3>7. \A i \in 1 .. k - 1 : i < k /\ i \in 1 .. k
            BY <1>2
        <3>8. m + 1 \in 1 .. m + 1 /\ \A j \in 1 .. m : j \in 1 .. m + 1 /\ j # m + 1 /\ j < m + 1
            BY <3>2
        <3> HIDE DEF c, m
        <3>9. q \in [1 .. m + 1 -> 1 .. n]
            BY <3>4, <3>5
        <3>10. \A i, j \in 1 .. m + 1 : i < j => q[i] < q[j]
            <4>1. \A i \in 1 .. m + 1 : ~(m + 1 < i)
                BY <3>2
            <4> QED
                BY <3>4, <3>5, <3>7, <3>8, <4>1
        <3>11. \A j \in 1 .. m + 1 : Append(c, s[k])[j] = s[q[j]] /\ q[j] \in Upto(k)
            <4>1. k \in Upto(k)
                BY <2>3
            <4> QED
                BY <3>3, <3>4, <3>5, <3>7, <4>1
        <3>12. \A i \in 1 .. n : i \in Upto(k) => \E j \in 1 .. m + 1 : q[j] = i
            <4>1. q[m + 1] = k /\ \A j \in 1 .. m : q[j] = p[j]
                BY <3>8
            <4> HIDE DEF q, Upto
            <4> QED
                BY <3>5, <3>6, <3>8, <4>1
        <3> HIDE DEF q, Upto
        <3>13. PickedBy(q, t[k], s, Upto(k))
            <4>1. Len(t[k]) = m + 1 /\ m + 1 \in Nat /\ n \in Nat
                BY <1>2, <3>1, <3>2
            <4>2. \A j \in 1 .. m + 1 : t[k][j] = s[q[j]] /\ q[j] \in Upto(k)
                BY <3>1, <3>11
            <4> QED
                BY ONLY <1>3, <3>9, <3>10, <3>12, <4>1, <4>2 DEF PickedBy
        <3> QED
            BY <2>2, <3>13 DEF Picks
    <2>4. CASE k \notin I
        <3>1. \A i : i \in 1 .. k <=> i \in 1 .. k - 1 \/ i = k
            BY <1>2
        <3>2. Upto(k) = Upto(k - 1)
            BY <2>4, <3>1
        <3>3. t[k] = t[k - 1]
            BY <1>4, <2>4
        <3> QED
            BY <1>6, <2>2, <3>2, <3>3
    <2> QED
        BY <2>3, <2>4
<1> HIDE DEF F
<1>7. \A k \in 0 .. n : k \in F
    BY <1>2, <1>5, <1>6, CountingUp
<1>8. Picks(t[n], s, Upto(n))
    BY <1>3, <1>7 DEF F
<1>9. PICK p : PickedBy(p, t[n], s, Upto(n))
    BY <1>8 DEF Picks
<1>10. PickedBy(p, t[n], s, I)
    <2>1. \A i \in 1 .. n : i \in Upto(n) <=> i \in I
        OBVIOUS
    <2> HIDE DEF Upto
    <2> QED
        BY <1>3, <1>9, <2>1 DEF PickedBy
<1>11. t[n] \in Seq(S)
    BY <1>3
<1> QED
    BY <1>3, <1>10, <1>11 DEF Picks

\* DropMessages, from the last position to the first.
Dropping(t, S, ms, P) ==
    /\ t \in [0 .. Len(ms) -> Seq(S)] /\ t[0] = ms /\ DropMessages(ms, P) = t[Len(ms)]
    /\ \A n \in 0 .. Len(ms) : Len(ms) - n <= Len(t[n])
    /\ \A n \in 1 .. Len(ms) :
         /\ Len(ms) - n + 1 \in P => t[n] = RemoveAt(t[n - 1], Len(ms) - n + 1)
         /\ Len(ms) - n + 1 \notin P => t[n] = t[n - 1]

LEMMA RemoveAtIs ==
    ASSUME NEW S, NEW s \in Seq(S), NEW i \in 1 .. Len(s)
    PROVE  /\ RemoveAt(s, i) \in Seq(S) /\ Len(RemoveAt(s, i)) = Len(s) - 1
           /\ \A j \in 1 .. Len(s) - 1 : RemoveAt(s, i)[j] = IF j < i THEN s[j] ELSE s[j + 1]
<1> DEFINE a == SubSeq(s, 1, i - 1)
           b == SubSeq(s, i + 1, Len(s))
<1>1. a \in Seq(S) /\ Len(a) = i - 1 /\ \A j \in 1 .. i - 1 : a[j] = s[j]
    OBVIOUS
<1>2. b \in Seq(S) /\ Len(b) = Len(s) - i /\ \A j \in 1 .. Len(s) - i : b[j] = s[i + j]
    OBVIOUS
<1>3. RemoveAt(s, i) = a \o b
    BY DEF RemoveAt
<1>4. Len(s) \in Nat
    OBVIOUS
<1> HIDE DEF a, b
<1>5. /\ a \o b \in Seq(S) /\ Len(a \o b) = Len(s) - 1
      /\ \A j \in 1 .. Len(s) - 1 : (a \o b)[j] = IF j <= i - 1 THEN a[j] ELSE b[j - (i - 1)]
    <2>1. \A s1, s2 \in Seq(S) :
            /\ s1 \o s2 \in Seq(S) /\ Len(s1 \o s2) = Len(s1) + Len(s2)
            /\ \A j \in 1 .. Len(s1) + Len(s2) :
                   (s1 \o s2)[j] = IF j <= Len(s1) THEN s1[j] ELSE s2[j - Len(s1)]
        BY ConcatProperties
    <2>2. Len(a) + Len(b) = Len(s) - 1
        BY <1>1, <1>2, <1>4
    <2>3. /\ a \o b \in Seq(S) /\ Len(a \o b) = Len(a) + Len(b)
          /\ \A j \in 1 .. Len(a) + Len(b) :
                 (a \o b)[j] = IF j <= Len(a) THEN a[j] ELSE b[j - Len(a)]
        BY <1>1, <1>2, <2>1
    <2>4. Len(a) = i - 1
        BY <1>1
    <2> QED
        BY ONLY <2>2, <2>3, <2>4
<1>6. ASSUME NEW j \in 1 .. Len(s) - 1
      PROVE  (a \o b)[j] = IF j < i THEN s[j] ELSE s[j + 1]
    <2>1. CASE j < i
        <3>1. j <= i - 1 /\ j \in 1 .. i - 1
            BY <1>4, <2>1
        <3> QED
            BY <1>1, <1>5, <2>1, <3>1
    <2>2. CASE ~(j < i)
        <3>1. ~(j <= i - 1) /\ j - (i - 1) \in 1 .. Len(s) - i /\ i + (j - (i - 1)) = j + 1
            BY <1>4, <2>2
        <3> QED
            BY <1>2, <1>5, <2>2, <3>1
    <2> QED
        BY <2>1, <2>2
<1> QED
    BY <1>3, <1>5, <1>6

LEMMA DroppingIs ==
    ASSUME NEW S, NEW ms \in Seq(S), NEW P
    PROVE  \E t : Dropping(t, S, ms, P)
<1> DEFINE n == Len(ms)
           Gone(k, c) == n - k + 1 \in P /\ n - k + 1 \in 1 .. Len(c)
           After(k, c) == IF Gone(k, c) THEN RemoveAt(c, n - k + 1) ELSE c
           step == [k \in 1 .. n |-> [c \in Seq(S) |-> After(k, c)]]
           f == CHOOSE f : f = [k \in 0 .. n |->
                    IF k = 0 THEN ms
                    ELSE IF n - k + 1 \in P
                    THEN RemoveAt(f[k - 1], n - k + 1) ELSE f[k - 1]]
<1>1. DropMessages(ms, P) = f[n]
    BY DEF DropMessages
<1>2. n \in Nat /\ ms \in Seq(S) /\ \A k \in 1 .. n : k - 1 \in 0 .. n /\ n - k + 1 \in 1 .. n
    OBVIOUS
<1>2a. Len(ms) = n
    OBVIOUS
<1> HIDE DEF n
<1>3. ASSUME NEW k \in 1 .. n, NEW c \in Seq(S)
      PROVE  /\ After(k, c) \in Seq(S)
             /\ n - (k - 1) <= Len(c) => n - k <= Len(After(k, c))
    <2>1. n - k + 1 \in Int /\ Len(c) \in Nat /\ n - (k - 1) = n - k + 1
        BY <1>2
    <2>2. CASE Gone(k, c)
        <3>1. n - k + 1 \in 1 .. Len(c) /\ After(k, c) = RemoveAt(c, n - k + 1)
            BY <2>2
        <3>2. After(k, c) \in Seq(S) /\ Len(After(k, c)) = Len(c) - 1
            BY <3>1, RemoveAtIs
        <3> QED
            BY <1>2, <2>1, <3>2
    <2>3. CASE ~Gone(k, c)
        <3>1. After(k, c) = c
            BY <2>3
        <3> QED
            BY <1>2, <2>1, <3>1
    <2> QED
        BY <2>2, <2>3
<1>4. ASSUME NEW k \in 1 .. n, NEW c, n - (k - 1) <= Len(c), Len(c) \in Nat
      PROVE  After(k, c) = IF n - k + 1 \in P THEN RemoveAt(c, n - k + 1) ELSE c
    <2>1. n - k + 1 \in 1 .. Len(c)
        BY <1>2, <1>4
    <2> QED
        BY <2>1
<1> HIDE DEF After
<1>5. step \in [1 .. n -> [Seq(S) -> Seq(S)]]
    BY <1>3
<1>6. \A k \in 1 .. n : \A c \in Seq(S) : step[k][c] = After(k, c)
    OBVIOUS
<1> HIDE DEF step
<1>7. PICK t : Stepwise(t, n, Seq(S), ms, step)
    BY <1>2, <1>5, StepwiseExists
<1>8. t \in [0 .. n -> Seq(S)] /\ t[0] = ms /\ \A k \in 1 .. n : t[k] = After(k, t[k - 1])
    BY <1>2, <1>6, <1>7 DEF Stepwise
<1>9. \A k \in 0 .. n : n - k <= Len(t[k]) /\ Len(t[k]) \in Nat
    <2> DEFINE F == {k \in 0 .. n : n - k <= Len(t[k])}
    <2>1. 0 \in F
        BY <1>2, <1>2a, <1>8
    <2>2. ASSUME NEW k \in 1 .. n, k - 1 \in F PROVE k \in F
        <3>1. t[k - 1] \in Seq(S) /\ n - (k - 1) <= Len(t[k - 1]) /\ k \in 0 .. n
            BY <1>2, <1>8, <2>2
        <3>2. n - k <= Len(After(k, t[k - 1]))
            BY <1>3, <3>1
        <3> QED
            BY <1>8, <3>1, <3>2
    <2> HIDE DEF F
    <2>3. \A k \in 0 .. n : k \in F
        BY <1>2, <2>1, <2>2, CountingUp
    <2> QED
        BY <1>8, <2>3 DEF F
<1>10. \A k \in 1 .. n :
          t[k] = IF n - k + 1 \in P THEN RemoveAt(t[k - 1], n - k + 1) ELSE t[k - 1]
    BY <1>2, <1>4, <1>8, <1>9
<1>11. t = [k \in 0 .. n |->
               IF k = 0 THEN ms
               ELSE IF n - k + 1 \in P
               THEN RemoveAt(t[k - 1], n - k + 1) ELSE t[k - 1]]
    <2>1. \A k \in 0 .. n : k = 0 \/ k \in 1 .. n
        BY <1>2
    <2> QED
        BY <1>8, <1>10, <2>1
<1>12. f = [k \in 0 .. n |->
               IF k = 0 THEN ms
               ELSE IF n - k + 1 \in P
               THEN RemoveAt(f[k - 1], n - k + 1) ELSE f[k - 1]]
    BY <1>11
<1> HIDE DEF f
<1>13. f[0] = ms /\ \A k \in 1 .. n :
          f[k] = IF n - k + 1 \in P THEN RemoveAt(f[k - 1], n - k + 1) ELSE f[k - 1]
    <2>1. 0 \in 0 .. n /\ \A k \in 1 .. n : k \in 0 .. n /\ k # 0
        BY <1>2
    <2> QED
        BY <1>12, <2>1
<1>14. \A k \in 0 .. n : f[k] = t[k]
    <2> DEFINE F == {k \in 0 .. n : f[k] = t[k]}
    <2>1. 0 \in F
        BY <1>2, <1>8, <1>13
    <2>2. ASSUME NEW k \in 1 .. n, k - 1 \in F PROVE k \in F
        BY <1>10, <1>13, <2>2
    <2> HIDE DEF F
    <2>3. \A k \in 0 .. n : k \in F
        BY <1>2, <2>1, <2>2, CountingUp
    <2> QED
        BY <2>3 DEF F
<1>15. DropMessages(ms, P) = t[n]
    BY <1>1, <1>2, <1>14
<1> QED
    BY <1>2a, <1>8, <1>9, <1>10, <1>15 DEF Dropping

\* An increasing enumeration begins with whatever it has no gap in.
LEMMA FirstPicked ==
    ASSUME NEW p, NEW c, NEW s, NEW I, PickedBy(p, c, s, I),
           NEW i \in 1 .. Len(c), \A x \in 1 .. i : x \in 1 .. Len(s) /\ x \in I
    PROVE  p[i] = i
<1> DEFINE m == Len(c)
           n == Len(s)
           F == {k \in 0 .. i : k = 0 \/ p[k] = k}
<1>0. /\ m \in Nat /\ n \in Nat /\ p \in [1 .. m -> 1 .. n] /\ i \in 1 .. m
      /\ \A a, b \in 1 .. m : a < b => p[a] < p[b]
      /\ \A x \in 1 .. i : x \in 1 .. n /\ \E j \in 1 .. m : p[j] = x
    BY DEF PickedBy
<1> HIDE DEF m, n
<1>1. 0 \in F
    OBVIOUS
<1>2. ASSUME NEW k \in 1 .. i, k - 1 \in F PROVE k \in F
    <2>1. k \in 1 .. m /\ k \in 1 .. n /\ k \in 0 .. i
        <3>1. k \in 1 .. n
            BY <1>0
        <3> HIDE DEF F
        <3>2. k \in 1 .. m /\ k \in 0 .. i
            BY <1>0
        <3> QED
            BY <3>1, <3>2
    <2>2. PICK j \in 1 .. m : p[j] = k
        BY <1>0
    <2>3. ~(j < k)
        <3> SUFFICES ASSUME j < k PROVE FALSE
            OBVIOUS
        <3>1. k - 1 \in 1 .. m /\ k - 1 # 0 /\ (j = k - 1 \/ j < k - 1) /\ k - 1 < k
            BY <1>0, <2>1
        <3>2. p[k - 1] = k - 1
            BY <1>2, <3>1
        <3>3. p[j] = k - 1 \/ p[j] < k - 1
            BY <1>0, <3>1, <3>2
        <3> QED
            BY <1>0, <2>1, <2>2, <3>3
    <2>4. ~(k < j)
        <3> SUFFICES ASSUME k < j PROVE FALSE
            OBVIOUS
        <3>1. p[k] < k /\ p[k] \in 1 .. n
            BY <1>0, <2>1, <2>2
        <3>2. CASE k - 1 = 0
            BY <1>0, <2>1, <3>1, <3>2
        <3>3. CASE k - 1 # 0
            <4>1. p[k - 1] = k - 1 /\ k - 1 \in 1 .. m /\ k - 1 < k
                BY <1>0, <1>2, <2>1, <3>3
            <4>2. k - 1 < p[k]
                BY <1>0, <2>1, <4>1
            <4> QED
                BY <1>0, <2>1, <3>1, <4>2
        <3> QED
            BY <3>2, <3>3
    <2>5. j = k
        BY <1>0, <2>1, <2>3, <2>4
    <2> QED
        BY <2>1, <2>2, <2>5
<1> HIDE DEF F
<1>3. i \in Nat /\ i \in 0 .. i /\ i # 0
    BY <1>0
<1>4. \A k \in 0 .. i : k \in F
    BY <1>1, <1>2, <1>3, CountingUp
<1> QED
    BY <1>3, <1>4 DEF F

\* What is left are the messages at the other positions.
LEMMA DropPicks ==
    ASSUME NEW S, NEW ms \in Seq(S), NEW P
    PROVE  /\ DropMessages(ms, P) \in Seq(S)
           /\ Picks(DropMessages(ms, P), ms, (1 .. Len(ms)) \ P)
<1> DEFINE n == Len(ms)
           Left(k) == {i \in 1 .. n : i <= n - k \/ i \notin P}
<1>1. PICK t : Dropping(t, S, ms, P)
    BY DroppingIs
<1>2. /\ Len(ms) = n /\ n \in Nat /\ n \in 0 .. n
      /\ t \in [0 .. n -> Seq(S)] /\ t[0] = ms /\ DropMessages(ms, P) = t[n]
      /\ \A k \in 0 .. n : n - k <= Len(t[k])
    BY <1>1 DEF Dropping
<1>3. \A k \in 1 .. n : /\ n - k + 1 \in P => t[k] = RemoveAt(t[k - 1], n - k + 1)
                        /\ n - k + 1 \notin P => t[k] = t[k - 1]
    BY <1>1 DEF Dropping
<1> HIDE DEF n
<1> DEFINE F == {k \in 0 .. n : Picks(t[k], ms, Left(k))}
<1>4. 0 \in F
    <2> DEFINE p == [j \in 1 .. n |-> j]
    <2>1. \A j \in 1 .. n : j \in Left(0) /\ p[j] = j
        BY <1>2
    <2>2. p \in [1 .. n -> 1 .. n]
        OBVIOUS
    <2> HIDE DEF p, Left
    <2>3. PickedBy(p, ms, ms, Left(0))
        BY ONLY <1>2, <2>1, <2>2 DEF PickedBy
    <2>4. Picks(t[0], ms, Left(0))
        BY <1>2, <2>3 DEF Picks
    <2> QED
        BY <1>2, <2>4
<1>5. ASSUME NEW k \in 1 .. n, k - 1 \in F PROVE k \in F
    <2> DEFINE i == n - k + 1
               c == t[k - 1]
    <2>1. PICK p : PickedBy(p, c, ms, Left(k - 1))
        BY <1>5 DEF Picks
    <2>2. c \in Seq(S) /\ i \in 1 .. n /\ i <= Len(c) /\ k \in 0 .. n /\ Len(c) \in Nat
        BY <1>2
    <2>3. \A j \in 1 .. n : /\ j \in Left(k - 1) <=> j <= i \/ j \notin P
                            /\ j \in Left(k) <=> j < i \/ j \notin P
        BY <1>2, <2>2
    <2>4. CASE i \in P
        <3> DEFINE m == Len(c)
                   r == RemoveAt(c, i)
                   q == [j \in 1 .. m - 1 |-> IF j < i THEN p[j] ELSE p[j + 1]]
        <3>1. t[k] = r
            BY <1>3, <2>4
        <3>2. i \in 1 .. m /\ m \in Nat
            BY <1>2, <2>2
        <3>3. /\ r \in Seq(S) /\ Len(r) = m - 1
              /\ \A j \in 1 .. m - 1 : r[j] = IF j < i THEN c[j] ELSE c[j + 1]
            BY <2>2, <3>2, RemoveAtIs
        <3>4. /\ p \in [1 .. m -> 1 .. n] /\ \A a, b \in 1 .. m : a < b => p[a] < p[b]
              /\ \A j \in 1 .. m : c[j] = ms[p[j]] /\ p[j] \in Left(k - 1)
              /\ \A x \in 1 .. n : x \in Left(k - 1) => \E j \in 1 .. m : p[j] = x
            BY <1>2, <2>1 DEF PickedBy
        <3> HIDE DEF m, r, i, c, Left
        <3>5. p[i] = i
            <4>1. \A x \in 1 .. i : x \in 1 .. Len(ms) /\ x \in Left(k - 1)
                BY <1>2, <2>2, <2>3
            <4>2. i \in 1 .. Len(c)
                BY <3>2 DEF m
            <4> QED
                BY ONLY <2>1, <4>1, <4>2, FirstPicked
        <3>6. \A j \in 1 .. m - 1 :
                  j \in 1 .. m /\ j + 1 \in 1 .. m /\ (j < i => j # i) /\ (~(j < i) => j + 1 # i)
            BY <3>2
        <3>7. /\ q \in [1 .. m - 1 -> 1 .. n]
              /\ \A j \in 1 .. m - 1 : (j < i => q[j] = p[j]) /\ (~(j < i) => q[j] = p[j + 1])
            <4>1. \A j \in 1 .. m - 1 : (IF j < i THEN p[j] ELSE p[j + 1]) \in 1 .. n
                BY <3>4, <3>6
            <4> QED
                BY <4>1
        <3> HIDE DEF q
        <3>8. \A a, b \in 1 .. m - 1 : a < b => q[a] < q[b]
            <4>1. ASSUME NEW a \in 1 .. m - 1, NEW b \in 1 .. m - 1, a < b
                  PROVE  q[a] < q[b]
                <5>1. (b < i => a < i) /\ a < b + 1 /\ a + 1 < b + 1
                    BY <3>2, <4>1
                <5>2. p[a] < p[b] /\ p[a] < p[b + 1] /\ p[a + 1] < p[b + 1]
                    BY <3>4, <3>6, <4>1, <5>1
                <5> QED
                    BY <3>7, <5>1, <5>2
            <4> QED
                BY <4>1
        <3>9. \A j \in 1 .. m - 1 : r[j] = ms[q[j]] /\ q[j] \in Left(k)
            <4>1. \A j \in 1 .. m : j # i => p[j] # i
                <5>1. ASSUME NEW j \in 1 .. m, j # i PROVE p[j] # p[i]
                    <6>1. j < i \/ i < j
                        BY <3>2, <5>1
                    <6>2. p[j] < p[i] \/ p[i] < p[j]
                        BY <3>2, <3>4, <6>1
                    <6>3. p[j] \in Int /\ p[i] \in Int
                        BY <3>2, <3>4
                    <6> QED
                        BY <6>2, <6>3
                <5> QED
                    BY <3>5, <5>1
            <4>2. \A x \in 1 .. n : x \in Left(k - 1) /\ x # i => x \in Left(k)
                BY <2>2, <2>3
            <4>3. \A j \in 1 .. m : j # i => p[j] \in Left(k)
                BY <3>4, <4>1, <4>2
            <4> QED
                <5>1. ASSUME NEW j \in 1 .. m - 1 PROVE r[j] = ms[q[j]] /\ q[j] \in Left(k)
                    <6>1. CASE j < i
                        BY <3>3, <3>4, <3>6, <3>7, <4>3, <6>1
                    <6>2. CASE ~(j < i)
                        <7>1. q[j] = p[j + 1] /\ j + 1 \in 1 .. m /\ j + 1 # i
                            BY <3>6, <3>7, <6>2
                        <7>2. p[j + 1] \in Left(k) /\ c[j + 1] = ms[p[j + 1]]
                            BY <3>4, <4>3, <7>1
                        <7>3. r[j] = c[j + 1]
                            BY <3>3, <6>2
                        <7> QED
                            BY <7>1, <7>2, <7>3
                    <6> QED
                        BY <6>1, <6>2
                <5> QED
                    BY <5>1
        <3>10. \A x \in 1 .. n : x \in Left(k) => \E j \in 1 .. m - 1 : q[j] = x
            <4> SUFFICES ASSUME NEW x \in 1 .. n, x \in Left(k)
                         PROVE  \E j \in 1 .. m - 1 : q[j] = x
                OBVIOUS
            <4>1. x \in Left(k - 1) /\ x # i
                BY <2>2, <2>3, <2>4
            <4>2. PICK j \in 1 .. m : p[j] = x
                BY <3>4, <4>1
            <4>3. j # i
                BY <3>5, <4>1, <4>2
            <4>4. CASE j < i
                <5>1. j \in 1 .. m - 1
                    BY <3>2, <4>4
                <5> QED
                    BY <3>7, <4>2, <4>4, <5>1
            <4>5. CASE i < j
                <5>1. j - 1 \in 1 .. m - 1 /\ ~(j - 1 < i) /\ j - 1 + 1 = j
                    BY <3>2, <4>5
                <5> QED
                    BY <3>7, <4>2, <5>1
            <4> QED
                BY <3>2, <4>3, <4>4, <4>5
        <3>11. PickedBy(q, r, ms, Left(k))
            <4>1. m - 1 \in Nat
                BY <3>2
            <4> QED
                BY ONLY <1>2, <3>3, <3>7, <3>8, <3>9, <3>10, <4>1 DEF PickedBy
        <3> QED
            BY <2>2, <3>1, <3>11 DEF Picks
    <2>5. CASE i \notin P
        <3>1. Left(k) = Left(k - 1)
            <4>1. \A j \in 1 .. n : j <= i <=> j < i \/ j = i
                BY <2>2
            <4>2. \A j \in 1 .. n : j \in Left(k - 1) <=> j \in Left(k)
                BY <2>3, <2>5, <4>1
            <4> QED
                BY <4>2
        <3> QED
            BY <1>3, <1>5, <2>2, <2>5, <3>1
    <2> QED
        BY <2>4, <2>5
<1> HIDE DEF F
<1>6. \A k \in 0 .. n : k \in F
    BY <1>2, <1>4, <1>5, CountingUp
<1>7. Picks(t[n], ms, Left(n))
    BY <1>2, <1>6 DEF F
<1>8. Left(n) = (1 .. n) \ P
    BY <1>2
<1> QED
    BY <1>2, <1>7, <1>8

\* FlattenSeq, sequence after sequence.
Flattening(t, X, ss) ==
    /\ t \in [0 .. Len(ss) -> Seq(X)] /\ t[0] = <<>> /\ FlattenSeq(ss) = t[Len(ss)]
    /\ \A i \in 1 .. Len(ss) : t[i] = t[i - 1] \o ss[i]

LEMMA FlatteningIs ==
    ASSUME NEW X, NEW ss \in Seq(Seq(X))
    PROVE  \E t : Flattening(t, X, ss)
<1> DEFINE n == Len(ss)
           step == [k \in 1 .. n |-> [c \in Seq(X) |-> c \o ss[k]]]
           f == CHOOSE f : f = [k \in 1 .. n |->
                    IF k = 1 THEN ss[k] ELSE f[k - 1] \o ss[k]]
<1>1. FlattenSeq(ss) = IF n = 0 THEN ss ELSE f[n]
    BY DEF FlattenSeq
<1>2. /\ n \in Nat /\ n \in 0 .. n /\ Len(ss) = n /\ (n = 0 => ss = <<>>)
      /\ \A k \in 1 .. n : k - 1 \in 0 .. n /\ ss[k] \in Seq(X)
    OBVIOUS
<1> HIDE DEF n
<1>3. \A c, d \in Seq(X) : c \o d \in Seq(X) /\ <<>> \o d = d
    BY ConcatEmptySeq, ConcatProperties
<1>4. <<>> \in Seq(X)
    OBVIOUS
<1>5. step \in [1 .. n -> [Seq(X) -> Seq(X)]]
    BY <1>2, <1>3
<1>6. \A k \in 1 .. n : \A c \in Seq(X) : step[k][c] = c \o ss[k]
    OBVIOUS
<1> HIDE DEF step
<1>7. PICK t : Stepwise(t, n, Seq(X), <<>>, step)
    BY <1>2, <1>4, <1>5, StepwiseExists
<1>8. t \in [0 .. n -> Seq(X)] /\ t[0] = <<>> /\ \A k \in 1 .. n : t[k] = t[k - 1] \o ss[k]
    BY <1>2, <1>6, <1>7 DEF Stepwise
<1> DEFINE u == [k \in 1 .. n |-> t[k]]
<1>9. u = [k \in 1 .. n |-> IF k = 1 THEN ss[k] ELSE u[k - 1] \o ss[k]]
    <2>1. ASSUME NEW k \in 1 .. n
          PROVE  t[k] = IF k = 1 THEN ss[k] ELSE u[k - 1] \o ss[k]
        <3>1. CASE k = 1
            <4>1. t[k] = t[k - 1] \o ss[k] /\ k - 1 = 0
                <5>1. t[k] = t[k - 1] \o ss[k]
                    BY <1>8
                <5> QED
                    BY <3>1, <5>1
            <4>2. t[k] = <<>> \o ss[k]
                BY <1>8, <4>1
            <4> QED
                BY <1>2, <1>3, <3>1, <4>2
        <3>2. CASE k # 1
            <4>1. k - 1 \in 1 .. n
                BY <1>2, <3>2
            <4> QED
                BY <1>8, <3>2, <4>1
        <3> QED
            BY <3>1, <3>2
    <2>2. \A k \in 1 .. n : u[k] = t[k]
        OBVIOUS
    <2> QED
        BY <2>1
<1>10. f = [k \in 1 .. n |-> IF k = 1 THEN ss[k] ELSE f[k - 1] \o ss[k]]
    <2> HIDE DEF u
    <2> QED
        BY <1>9
<1> HIDE DEF f
<1>11. n # 0 => f[1] = ss[1] /\ \A k \in 1 .. n : k # 1 => f[k] = f[k - 1] \o ss[k]
    <2>1. n # 0 => 1 \in 1 .. n
        BY <1>2
    <2> QED
        BY <1>10, <2>1
<1>12. \A k \in 0 .. n : k = 0 \/ f[k] = t[k]
    <2> DEFINE F == {k \in 0 .. n : k = 0 \/ f[k] = t[k]}
    <2>1. 0 \in F
        BY <1>2
    <2>2. ASSUME NEW k \in 1 .. n, k - 1 \in F PROVE k \in F
        <3>1. k \in 0 .. n /\ n # 0 /\ k \in Int /\ (k - 1 = 0 \/ f[k - 1] = t[k - 1])
            BY <1>2, <2>2
        <3>2. CASE k = 1
            <4>1. t[k] = t[k - 1] \o ss[k] /\ k - 1 = 0
                <5>1. t[k] = t[k - 1] \o ss[k]
                    BY <1>8
                <5> QED
                    BY <3>2, <5>1
            <4>2. t[k] = <<>> \o ss[k] /\ f[k] = ss[k]
                BY <1>8, <1>11, <3>1, <3>2, <4>1
            <4> QED
                BY <1>2, <1>3, <3>1, <4>2
        <3>3. CASE k # 1
            <4>1. f[k - 1] = t[k - 1]
                BY <3>1, <3>3
            <4> QED
                BY <1>8, <1>11, <3>1, <3>3, <4>1
        <3> QED
            BY <3>2, <3>3
    <2> HIDE DEF F
    <2>3. \A k \in 0 .. n : k \in F
        BY <1>2, <2>1, <2>2, CountingUp
    <2> QED
        BY <2>3 DEF F
<1>13. FlattenSeq(ss) = t[n]
    BY <1>1, <1>2, <1>8, <1>12
<1> QED
    BY <1>2, <1>8, <1>13 DEF Flattening

LEMMA FlatTyped ==
    ASSUME NEW X, NEW ss \in Seq(Seq(X))
    PROVE  FlattenSeq(ss) \in Seq(X)
<1>1. PICK t : Flattening(t, X, ss)
    BY FlatteningIs
<1>2. Len(ss) \in 0 .. Len(ss)
    OBVIOUS
<1> QED
    BY <1>1, <1>2 DEF Flattening

\* Leaving out what is empty changes nothing.
LEMMA FlatPicks ==
    ASSUME NEW X, NEW ss \in Seq(Seq(X)), NEW cc \in Seq(Seq(X)), NEW I, Picks(cc, ss, I),
           \A i \in 1 .. Len(ss) : i \notin I => ss[i] = <<>>
    PROVE  FlattenSeq(cc) = FlattenSeq(ss)
<1> DEFINE n == Len(ss)
           m == Len(cc)
<1>1. PICK p : PickedBy(p, cc, ss, I)
    BY DEF Picks
<1>2. PICK t : Flattening(t, X, ss)
    BY FlatteningIs
<1>3. PICK u : Flattening(u, X, cc)
    BY FlatteningIs
<1>4. /\ n \in Nat /\ m \in Nat /\ p \in [1 .. m -> 1 .. n]
      /\ \A i, j \in 1 .. m : i < j => p[i] < p[j]
      /\ \A j \in 1 .. m : cc[j] = ss[p[j]] /\ p[j] \in I
      /\ \A i \in 1 .. n : i \in I => \E j \in 1 .. m : p[j] = i
    BY <1>1 DEF PickedBy
<1>5. /\ t \in [0 .. n -> Seq(X)] /\ t[0] = <<>> /\ FlattenSeq(ss) = t[n]
      /\ \A i \in 1 .. n : t[i] = t[i - 1] \o ss[i]
    BY <1>2 DEF Flattening
<1>6. /\ u \in [0 .. m -> Seq(X)] /\ u[0] = <<>> /\ FlattenSeq(cc) = u[m]
      /\ \A j \in 1 .. m : u[j] = u[j - 1] \o cc[j]
    BY <1>3 DEF Flattening
<1>7. \A i \in 1 .. n : i \notin I => ss[i] = <<>>
    OBVIOUS
<1>8. \A c \in Seq(X) : c \o <<>> = c
    BY ConcatEmptySeq
<1> HIDE DEF n, m
<1> DEFINE Between(i, j) == /\ \A k \in 1 .. m : k <= j => p[k] <= i
                            /\ \A k \in 1 .. m : j < k => i < p[k]
           F == {i \in 0 .. n : \E j \in 0 .. m : Between(i, j) /\ t[i] = u[j]}
<1>9. 0 \in F
    <2>1. 0 \in 0 .. m /\ 0 \in 0 .. n /\ \A k \in 1 .. m : ~(k <= 0) /\ 0 < p[k]
        BY <1>4
    <2>2. Between(0, 0)
        BY <2>1
    <2> QED
        BY <1>5, <1>6, <2>1, <2>2
<1>10. ASSUME NEW i \in 1 .. n, i - 1 \in F PROVE i \in F
    <2>1. PICK j \in 0 .. m : Between(i - 1, j) /\ t[i - 1] = u[j]
        BY <1>10
    <2>2. i \in 0 .. n /\ i - 1 \in 0 .. n /\ i \in Int /\ \A k \in 1 .. m : p[k] \in Int
        BY <1>4
    <2>3. CASE i \in I
        <3>1. PICK k \in 1 .. m : p[k] = i
            BY <1>4, <2>3
        <3>2. k = j + 1
            <4>1. ~(k <= j)
                BY <2>1, <2>2, <3>1
            <4>2. ~(j + 1 < k)
                <5> SUFFICES ASSUME j + 1 < k PROVE FALSE
                    OBVIOUS
                <5>1. j + 1 \in 1 .. m /\ j < j + 1
                    BY <1>4
                <5>2. i - 1 < p[j + 1] /\ p[j + 1] < p[k]
                    BY <1>4, <2>1, <5>1
                <5> QED
                    BY <2>2, <3>1, <5>1, <5>2
            <4> QED
                BY <1>4, <4>1, <4>2
        <3>3. k \in 0 .. m /\ k - 1 = j
            BY <1>4, <3>2
        <3>4. t[i] = u[k]
            <4>1. t[i] = t[i - 1] \o ss[i] /\ u[k] = u[k - 1] \o cc[k]
                BY <1>5, <1>6
            <4>2. cc[k] = ss[i]
                BY <1>4, <3>1
            <4> QED
                BY <2>1, <3>3, <4>1, <4>2
        <3>5. Between(i, k)
            <4>1. ASSUME NEW l \in 1 .. m, l <= k PROVE p[l] <= i
                <5>1. l = k \/ l < k
                    BY <1>4, <4>1
                <5>2. l < k => p[l] < p[k]
                    BY <1>4
                <5> QED
                    BY <2>2, <3>1, <5>1, <5>2
            <4>2. ASSUME NEW l \in 1 .. m, k < l PROVE i < p[l]
                BY <1>4, <3>1, <4>2
            <4> QED
                BY <4>1, <4>2
        <3> HIDE DEF Between
        <3> QED
            BY <2>2, <3>3, <3>4, <3>5
    <2>4. CASE i \notin I
        <3>1. t[i] = t[i - 1]
            BY <1>5, <1>7, <1>8, <2>2, <2>4
        <3>2. Between(i, j)
            <4>1. ASSUME NEW k \in 1 .. m PROVE p[k] # i
                BY <1>4, <2>4
            <4>2. ASSUME NEW k \in 1 .. m, k <= j PROVE p[k] <= i
                BY <2>1, <2>2, <4>2
            <4>3. ASSUME NEW k \in 1 .. m, j < k PROVE i < p[k]
                BY <2>1, <2>2, <4>1, <4>3
            <4> QED
                BY <4>2, <4>3
        <3> HIDE DEF Between
        <3> QED
            BY <2>1, <2>2, <3>1, <3>2
    <2> QED
        BY <2>3, <2>4
<1> HIDE DEF F
<1>11. \A i \in 0 .. n : i \in F
    BY <1>4, <1>9, <1>10, CountingUp
<1>12. PICK j \in 0 .. m : Between(n, j) /\ t[n] = u[j]
    <2>1. n \in 0 .. n
        BY <1>4
    <2>2. n \in F
        BY <1>11, <2>1
    <2> QED
        BY <2>2 DEF F
<1>13. j = m
    <2> SUFFICES ASSUME j # m PROVE FALSE
        OBVIOUS
    <2>1. m \in 1 .. m /\ j < m
        BY <1>4
    <2> QED
        BY <1>4, <1>12, <2>1
<1> QED
    BY <1>5, <1>6, <1>12, <1>13

LEMMA FlatEmpty ==
    ASSUME NEW X, NEW ss \in Seq(Seq(X)), \A i \in 1 .. Len(ss) : ss[i] = <<>>
    PROVE  FlattenSeq(ss) = <<>>
<1>1. PICK t : Flattening(t, X, ss)
    BY FlatteningIs
<1> DEFINE n == Len(ss)
           F == {i \in 0 .. n : t[i] = <<>>}
<1>2. /\ n \in Nat /\ t[0] = <<>> /\ FlattenSeq(ss) = t[n]
      /\ \A i \in 1 .. n : t[i] = t[i - 1] \o <<>>
    <2>1. /\ n \in Nat /\ t[0] = <<>> /\ FlattenSeq(ss) = t[n]
          /\ \A i \in 1 .. n : t[i] = t[i - 1] \o ss[i]
        BY <1>1 DEF Flattening
    <2>2. \A i \in 1 .. n : ss[i] = <<>>
        OBVIOUS
    <2> QED
        BY <2>1, <2>2
<1>3. <<>> \o <<>> = <<>>
    OBVIOUS
<1> HIDE DEF n
<1>4. 0 \in F
    BY <1>2
<1>5. ASSUME NEW i \in 1 .. n, i - 1 \in F PROVE i \in F
    <2>1. i \in 0 .. n
        OBVIOUS
    <2> QED
        BY <1>2, <1>3, <1>5, <2>1
<1> HIDE DEF F
<1>6. \A i \in 0 .. n : i \in F
    BY <1>2, <1>4, <1>5, CountingUp
<1>7. n \in 0 .. n
    BY <1>2
<1> QED
    BY <1>2, <1>6, <1>7 DEF F

LEMMA FlatConcat ==
    ASSUME NEW X, NEW a \in Seq(Seq(X)), NEW b \in Seq(Seq(X))
    PROVE  FlattenSeq(a \o b) = FlattenSeq(a) \o FlattenSeq(b)
<1> DEFINE n == Len(a)
           m == Len(b)
           c == a \o b
<1>1. /\ c \in Seq(Seq(X)) /\ Len(c) = n + m /\ n \in Nat /\ m \in Nat
      /\ \A i \in 1 .. n + m : c[i] = IF i <= n THEN a[i] ELSE b[i - n]
      /\ \A i \in 1 .. m : b[i] \in Seq(X)
    BY ConcatProperties
<1> HIDE DEF c
<1>2. PICK s : Flattening(s, X, a)
    BY FlatteningIs
<1>3. PICK t : Flattening(t, X, b)
    BY FlatteningIs
<1>4. PICK u : Flattening(u, X, c)
    BY <1>1, FlatteningIs
<1>5. /\ s \in [0 .. n -> Seq(X)] /\ s[0] = <<>> /\ FlattenSeq(a) = s[n]
      /\ \A i \in 1 .. n : s[i] = s[i - 1] \o a[i]
    BY ONLY <1>2 DEF Flattening
<1>6. /\ t \in [0 .. m -> Seq(X)] /\ t[0] = <<>> /\ FlattenSeq(b) = t[m]
      /\ \A i \in 1 .. m : t[i] = t[i - 1] \o b[i]
    BY ONLY <1>3 DEF Flattening
<1>7. /\ u[0] = <<>> /\ FlattenSeq(c) = u[n + m]
      /\ \A i \in 1 .. n + m : u[i] = u[i - 1] \o c[i]
    BY <1>1, <1>4 DEF Flattening
<1>8. \A x, y, z \in Seq(X) : (x \o y) \o z = x \o (y \o z)
    BY ONLY Associates, SMTT(60)
<1>9. \A x \in Seq(X) : x \o <<>> = x
    BY ConcatEmptySeq
<1> HIDE DEF n, m
<1>10. \A i \in 0 .. n : u[i] = s[i]
    <2> DEFINE F == {i \in 0 .. n : u[i] = s[i]}
    <2>1. 0 \in F
        BY <1>1, <1>5, <1>7
    <2>2. ASSUME NEW i \in 1 .. n, i - 1 \in F PROVE i \in F
        <3>1. i \in 0 .. n /\ i \in 1 .. n + m /\ i <= n
            BY <1>1
        <3>2. u[i] = u[i - 1] \o a[i]
            BY <1>1, <1>7, <3>1
        <3> QED
            BY <1>5, <2>2, <3>1, <3>2
    <2> HIDE DEF F
    <2>3. \A i \in 0 .. n : i \in F
        BY <1>1, <2>1, <2>2, CountingUp
    <2> QED
        BY <2>3 DEF F
<1>11. s[n] \in Seq(X) /\ u[n] = s[n]
    <2>1. n \in 0 .. n
        BY <1>1
    <2> QED
        BY <1>5, <1>10, <2>1
<1>12. \A i \in 0 .. m : u[n + i] = s[n] \o t[i]
    <2> DEFINE F == {i \in 0 .. m : u[n + i] = s[n] \o t[i]}
    <2>1. 0 \in F
        <3>1. n + 0 = n /\ 0 \in 0 .. m
            BY <1>1
        <3>2. u[n + 0] = s[n] \o t[0]
            BY <1>6, <1>9, <1>11, <3>1
        <3> QED
            BY <3>1, <3>2
    <2>2. ASSUME NEW i \in 1 .. m, i - 1 \in F PROVE i \in F
        <3>1. /\ i \in 0 .. m /\ n + i \in 1 .. n + m /\ ~(n + i <= n) /\ n + i - n = i
              /\ n + i - 1 = n + (i - 1) /\ i - 1 \in 0 .. m
            BY <1>1
        <3>2. u[n + i] = (s[n] \o t[i - 1]) \o b[i]
            <4>1. c[n + i] = b[i]
                BY <1>1, <3>1
            <4>2. u[n + i] = u[n + (i - 1)] \o c[n + i]
                <5> DEFINE j == n + i
                <5>1. j \in 1 .. n + m
                    BY <3>1
                <5>2. j = n + i /\ j - 1 = n + (i - 1)
                    BY <1>1
                <5> HIDE DEF j
                <5>3. u[j] = u[j - 1] \o c[j]
                    BY <1>7, <5>1
                <5> QED
                    BY ONLY <5>2, <5>3
            <4>3. u[n + (i - 1)] = s[n] \o t[i - 1]
                BY <2>2
            <4> QED
                BY <3>1, <4>1, <4>2, <4>3
        <3>3. t[i - 1] \in Seq(X) /\ b[i] \in Seq(X)
            BY <1>1, <1>6, <3>1
        <3>4. u[n + i] = s[n] \o (t[i - 1] \o b[i])
            BY <1>8, <1>11, <3>2, <3>3
        <3> QED
            BY <1>6, <3>1, <3>4
    <2> HIDE DEF F
    <2>3. \A i \in 0 .. m : i \in F
        BY <1>1, <2>1, <2>2, CountingUp
    <2> QED
        BY <2>3 DEF F
<1>13. m \in 0 .. m
    BY <1>1
<1> QED
    BY <1>5, <1>6, <1>7, <1>12, <1>13 DEF c

\* What is in the whole is in one of its parts.
LEMMA FlatMembers ==
    ASSUME NEW X, NEW ss \in Seq(Seq(X)), NEW x
    PROVE  (\E k \in 1 .. Len(FlattenSeq(ss)) : FlattenSeq(ss)[k] = x)
             <=> \E i \in 1 .. Len(ss) : \E k \in 1 .. Len(ss[i]) : ss[i][k] = x
<1> DEFINE n == Len(ss)
           In(c) == \E k \in 1 .. Len(c) : c[k] = x
<1>1. PICK t : Flattening(t, X, ss)
    BY FlatteningIs
<1>2. /\ t \in [0 .. n -> Seq(X)] /\ t[0] = <<>> /\ FlattenSeq(ss) = t[n]
      /\ \A i \in 1 .. n : t[i] = t[i - 1] \o ss[i] /\ ss[i] \in Seq(X) /\ i - 1 \in 0 .. n
      /\ n \in Nat /\ n \in 0 .. n
    <2>1. /\ t \in [0 .. n -> Seq(X)] /\ t[0] = <<>> /\ FlattenSeq(ss) = t[n]
          /\ \A i \in 1 .. n : t[i] = t[i - 1] \o ss[i]
        BY ONLY <1>1 DEF Flattening
    <2>2. n \in Nat /\ \A i \in 1 .. n : ss[i] \in Seq(X)
        OBVIOUS
    <2>3. n \in 0 .. n /\ \A i \in 1 .. n : i - 1 \in 0 .. n
        BY <2>2
    <2> QED
        BY ONLY <2>1, <2>2, <2>3
<1>3. ASSUME NEW c \in Seq(X), NEW d \in Seq(X) PROVE In(c \o d) <=> In(c) \/ In(d)
    <2>1. /\ Len(c \o d) = Len(c) + Len(d) /\ Len(c) \in Nat /\ Len(d) \in Nat
          /\ \A i \in 1 .. Len(c) + Len(d) :
                 (c \o d)[i] = IF i <= Len(c) THEN c[i] ELSE d[i - Len(c)]
        BY ConcatProperties
    <2>2. ASSUME NEW k \in 1 .. Len(c), c[k] = x PROVE In(c \o d)
        <3>1. k \in 1 .. Len(c) + Len(d) /\ k <= Len(c)
            BY <2>1
        <3> QED
            BY <2>1, <2>2, <3>1
    <2>3. ASSUME NEW k \in 1 .. Len(d), d[k] = x PROVE In(c \o d)
        <3>1. /\ k + Len(c) \in 1 .. Len(c) + Len(d) /\ ~(k + Len(c) <= Len(c))
              /\ k + Len(c) - Len(c) = k
            BY <2>1
        <3> QED
            BY <2>1, <2>3, <3>1
    <2>4. ASSUME NEW k \in 1 .. Len(c \o d), (c \o d)[k] = x PROVE In(c) \/ In(d)
        <3>1. k \in 1 .. Len(c) + Len(d)
            BY <2>1
        <3>2. CASE k <= Len(c)
            <4>1. k \in 1 .. Len(c)
                BY <2>1, <3>1, <3>2
            <4> QED
                BY <2>1, <2>4, <3>1, <3>2, <4>1
        <3>3. CASE ~(k <= Len(c))
            <4>1. k - Len(c) \in 1 .. Len(d)
                BY <2>1, <3>1, <3>3
            <4> QED
                BY <2>1, <2>4, <3>1, <3>3, <4>1
        <3> QED
            BY <3>2, <3>3
    <2> QED
        BY <2>2, <2>3, <2>4
<1>4. ~In(<<>>)
    OBVIOUS
<1> HIDE DEF n, In
<1> DEFINE F == {i \in 0 .. n : In(t[i]) <=> \E j \in 1 .. i : In(ss[j])}
<1>5. 0 \in F
    BY <1>2, <1>4
<1>6. ASSUME NEW i \in 1 .. n, i - 1 \in F PROVE i \in F
    <2>1. In(t[i - 1]) <=> \E j \in 1 .. i - 1 : In(ss[j])
        BY <1>6
    <2>2. In(t[i]) <=> In(t[i - 1]) \/ In(ss[i])
        <3>1. t[i - 1] \in Seq(X) /\ ss[i] \in Seq(X) /\ t[i] = t[i - 1] \o ss[i]
            BY <1>2
        <3>2. In(t[i - 1] \o ss[i]) <=> In(t[i - 1]) \/ In(ss[i])
            BY <1>3, <3>1
        <3> QED
            BY <3>1, <3>2
    <2>3. \A j : j \in 1 .. i <=> j \in 1 .. i - 1 \/ j = i
        BY <1>2
    <2>4. i \in 0 .. n
        BY <1>2
    <2> QED
        BY <2>1, <2>2, <2>3, <2>4
<1> HIDE DEF F
<1>7. \A i \in 0 .. n : i \in F
    BY <1>2, <1>5, <1>6, CountingUp
<1>8. In(t[n]) <=> \E j \in 1 .. n : In(ss[j])
    BY <1>2, <1>7 DEF F
<1> QED
    BY <1>2, <1>8 DEF In, n

--------------------------------------------------------------------------------
(* Blocks.                                                                    *)

\* What a picked sequence has.
Has(s, x) == \E i \in 1 .. Len(s) : s[i] = x
HasAt(s, I, x) == \E i \in 1 .. Len(s) : i \in I /\ s[i] = x

LEMMA PickedSet ==
    ASSUME NEW c, NEW s, NEW I, Picks(c, s, I)
    PROVE  \A x : Has(c, x) <=> HasAt(s, I, x)
<1>1. PICK p : PickedBy(p, c, s, I)
    BY DEF Picks
<1>2. ASSUME NEW j \in 1 .. Len(c) PROVE \E i \in 1 .. Len(s) : i \in I /\ s[i] = c[j]
    BY <1>1 DEF PickedBy
<1>3. ASSUME NEW i \in 1 .. Len(s), i \in I PROVE \E j \in 1 .. Len(c) : c[j] = s[i]
    BY <1>1, <1>3 DEF PickedBy
<1> QED
    BY ONLY <1>2, <1>3 DEF Has, HasAt

LEMMA SetOf ==
    ASSUME NEW S, NEW s \in Seq(S)
    PROVE  /\ ToSet(s) = {s[i] : i \in 1 .. Len(s)}
           /\ DOMAIN s = 1 .. Len(s) /\ Len(s) \in Nat
           /\ ToSet(s) \subseteq S
BY DEF ToSet

LEMMA ConcatSet ==
    ASSUME NEW S, NEW a \in Seq(S), NEW b \in Seq(S)
    PROVE  ToSet(a \o b) = ToSet(a) \cup ToSet(b)
<1>1. /\ a \o b \in Seq(S) /\ Len(a \o b) = Len(a) + Len(b) /\ Len(a) \in Nat /\ Len(b) \in Nat
      /\ \A i \in 1 .. Len(a) + Len(b) : (a \o b)[i] = IF i <= Len(a) THEN a[i] ELSE b[i - Len(a)]
    BY ConcatProperties
<1> DEFINE c == a \o b
           n == Len(a)
           m == Len(b)
<1> HIDE DEF c, n, m
<1>2. ToSet(a) = {a[i] : i \in 1 .. n} /\ ToSet(b) = {b[i] : i \in 1 .. m}
    BY SetOf DEF n, m
<1>3. ToSet(c) = {c[i] : i \in 1 .. n + m}
    BY <1>1, SetOf DEF n, m, c
<1>4. /\ n \in Nat /\ m \in Nat
      /\ \A i \in 1 .. n + m : c[i] = IF i <= n THEN a[i] ELSE b[i - n]
    BY <1>1 DEF n, m, c
<1>5. ASSUME NEW i \in 1 .. n + m PROVE c[i] \in ToSet(a) \cup ToSet(b)
    <2>1. CASE i <= n
        <3>1. i \in 1 .. n
            BY <1>4, <2>1
        <3> QED
            BY <1>2, <1>4, <2>1, <3>1
    <2>2. CASE ~(i <= n)
        <3>1. i - n \in 1 .. m
            BY <1>4, <2>2
        <3> QED
            BY <1>2, <1>4, <2>2, <3>1
    <2> QED
        BY <2>1, <2>2
<1>6. ASSUME NEW i \in 1 .. n PROVE a[i] \in ToSet(c)
    <2>1. i \in 1 .. n + m /\ i <= n
        BY <1>4
    <2> QED
        BY <1>3, <1>4, <2>1
<1>7. ASSUME NEW i \in 1 .. m PROVE b[i] \in ToSet(c)
    <2>1. i + n \in 1 .. n + m /\ ~(i + n <= n) /\ i + n - n = i
        BY <1>4
    <2>2. c[i + n] = b[i]
        BY <1>4, <2>1
    <2> QED
        BY <1>3, <2>1, <2>2
<1>8. ToSet(c) = ToSet(a) \cup ToSet(b)
    BY <1>2, <1>3, <1>5, <1>6, <1>7
<1> QED
    BY <1>8 DEF c

LEMMA ChosenBlocks ==
    ASSUME NEW bs \in Seq(ContentBlocks)
    PROVE  /\ Kept(bs) \in Seq(ContentBlocks) /\ ToSet(Kept(bs)) = {x \in ToSet(bs) : Signed(x)}
           /\ Picks(Kept(bs), bs, {k \in DOMAIN bs : Signed(bs[k])})
           /\ Others(bs) \in Seq(ContentBlocks) /\ ToSet(Others(bs)) = {x \in ToSet(bs) : Other(x)}
           /\ Picks(Others(bs), bs, {k \in DOMAIN bs : Other(bs[k])})
           /\ Thinkings(bs) \in Seq(ContentBlocks)
           /\ ToSet(Thinkings(bs)) = {x \in ToSet(bs) : IsThinking(x)}
<1>1. ASSUME NEW I PROVE /\ Chosen(bs, I) \in Seq(ContentBlocks) /\ Picks(Chosen(bs, I), bs, I)
                         /\ \A x : x \in ToSet(Chosen(bs, I))
                                     <=> \E i \in 1 .. Len(bs) : i \in I /\ bs[i] = x
    <2> DEFINE c == Chosen(bs, I)
    <2>1. c \in Seq(ContentBlocks) /\ Picks(c, bs, I)
        BY ChosenPicks
    <2> HIDE DEF c
    <2>2. \A x : Has(c, x) <=> HasAt(bs, I, x)
        BY <2>1, PickedSet
    <2>3. \A x : x \in ToSet(c) <=> Has(c, x)
        BY <2>1, SetOf DEF Has
    <2> QED
        BY <2>1, <2>2, <2>3 DEF c, HasAt
<1>2. ToSet(bs) = {bs[i] : i \in 1 .. Len(bs)} /\ DOMAIN bs = 1 .. Len(bs)
    BY SetOf
<1> DEFINE I == {k \in DOMAIN bs : Signed(bs[k])}
           J == {k \in DOMAIN bs : Other(bs[k])}
           K == {k \in DOMAIN bs : IsThinking(bs[k])}
<1>3. \A x : /\ (\E i \in 1 .. Len(bs) : i \in I /\ bs[i] = x) <=> x \in ToSet(bs) /\ Signed(x)
             /\ (\E i \in 1 .. Len(bs) : i \in J /\ bs[i] = x) <=> x \in ToSet(bs) /\ Other(x)
             /\ (\E i \in 1 .. Len(bs) : i \in K /\ bs[i] = x) <=> x \in ToSet(bs) /\ IsThinking(x)
    BY <1>2
<1>4. Kept(bs) = Chosen(bs, I) /\ Others(bs) = Chosen(bs, J) /\ Thinkings(bs) = Chosen(bs, K)
    BY DEF Kept, Others, Thinkings
<1> HIDE DEF I, J, K
<1>5. /\ Kept(bs) \in Seq(ContentBlocks) /\ ToSet(Kept(bs)) = {x \in ToSet(bs) : Signed(x)}
      /\ Picks(Kept(bs), bs, I)
    BY <1>1, <1>3, <1>4
<1>6. /\ Others(bs) \in Seq(ContentBlocks) /\ ToSet(Others(bs)) = {x \in ToSet(bs) : Other(x)}
      /\ Picks(Others(bs), bs, J)
    BY <1>1, <1>3, <1>4
<1>7. /\ Thinkings(bs) \in Seq(ContentBlocks)
      /\ ToSet(Thinkings(bs)) = {x \in ToSet(bs) : IsThinking(x)}
    BY <1>1, <1>3, <1>4
<1> QED
    BY <1>5, <1>6, <1>7 DEF I, J

LEMMA FirstBlocks ==
    ASSUME NEW bs \in Seq(ContentBlocks)
    PROVE  /\ ThinkingFirst(bs) \in Seq(ContentBlocks)
           /\ ToSet(ThinkingFirst(bs)) = ToSet(bs)
           /\ ~NeedsReorder(ThinkingFirst(bs))
<1> DEFINE a == Thinkings(bs)
           b == Others(bs)
           c == ThinkingFirst(bs)
<1>1. /\ a \in Seq(ContentBlocks) /\ ToSet(a) = {x \in ToSet(bs) : IsThinking(x)}
      /\ b \in Seq(ContentBlocks) /\ ToSet(b) = {x \in ToSet(bs) : Other(x)}
    BY ChosenBlocks
<1>2. c = a \o b
    BY DEF ThinkingFirst
<1> HIDE DEF a, b, c
<1>3. c \in Seq(ContentBlocks)
    BY <1>1, <1>2, ConcatProperties
<1>4. ToSet(c) = ToSet(a) \cup ToSet(b)
    BY <1>1, <1>2, ConcatSet
<1>5. ToSet(c) = ToSet(bs)
    BY <1>1, <1>4 DEF Other
<1>6. ~NeedsReorder(c)
    <2> SUFFICES ASSUME NEW i \in DOMAIN c, NEW j \in DOMAIN c, i < j, Other(c[i]), IsThinking(c[j])
                 PROVE  FALSE
        BY DEF NeedsReorder
    <2>1. /\ Len(a \o b) = Len(a) + Len(b) /\ Len(a) \in Nat /\ Len(b) \in Nat
          /\ \A k \in 1 .. Len(a) + Len(b) :
                (a \o b)[k] = IF k <= Len(a) THEN a[k] ELSE b[k - Len(a)]
        BY <1>1, ConcatProperties
    <2>2. DOMAIN c = 1 .. Len(a) + Len(b)
        BY <1>2, <1>3, <2>1, SetOf
    <2>3. ~(i <= Len(a))
        <3> SUFFICES ASSUME i <= Len(a) PROVE FALSE
            OBVIOUS
        <3>1. i \in 1 .. Len(a) /\ c[i] = a[i]
            BY <1>2, <2>1, <2>2
        <3>2. a[i] \in ToSet(a)
            BY <1>1, <3>1, SetOf
        <3> QED
            BY <1>1, <3>1, <3>2 DEF Other
    <2>4. j - Len(a) \in 1 .. Len(b) /\ ~(j <= Len(a))
        BY <2>1, <2>2, <2>3
    <2>5. c[j] = b[j - Len(a)] /\ b[j - Len(a)] \in ToSet(b)
        BY <1>1, <1>2, <2>1, <2>2, <2>4, SetOf
    <2> QED
        BY <1>1, <2>5 DEF Other
<1> QED
    BY <1>3, <1>5, <1>6 DEF c

\* What blocks say besides thinking.
Words == BlockTypes \X Seq(STRING)

WordsOf(bs) == [k \in DOMAIN bs |-> Word(bs[k])]

SaysOf(bs) == FlattenSeq(WordsOf(bs))

LEMMA SaysIs == \A m : Says(m) = SaysOf(m.blocks)
BY DEF Says, SaysOf, WordsOf

LEMMA PlaceholderIs ==
    /\ Placeholder \in Seq(ContentBlocks) /\ ToSet(Placeholder) = {Placeholder[1]}
    /\ Len(Placeholder) = 1 /\ Placeholder # <<>>
    /\ Placeholder[1].type = "text" /\ ~NeedsReorder(Placeholder)
<1> DEFINE x == [type |-> "text", text |-> <<>>, sig |-> NoSignature]
<1>1. NoSignature \in Signatures
    <2>1. /\ NoSignature = [there |-> FALSE, prefixed |-> FALSE, raw |-> ""]
          /\ FALSE \in BOOLEAN /\ "" \in RawSignatures
        BY DEF NoSignature, RawSignatures
    <2> QED
        BY ONLY <2>1 DEF Signatures
<1>2. x \in ContentBlocks /\ x.type = "text"
    <2>1. <<>> \in Seq(STRING)
        OBVIOUS
    <2>2. "text" \in BlockTypes
        BY DEF BlockTypes
    <2> QED
        BY ONLY <1>1, <2>1, <2>2 DEF ContentBlocks
<1>3. Placeholder = <<x>>
    BY DEF Placeholder
<1> HIDE DEF x
<1>4. <<x>> \in Seq(ContentBlocks) /\ Len(<<x>>) = 1 /\ <<x>>[1] = x /\ DOMAIN <<x>> = {1}
    BY <1>2
<1>5. ToSet(<<x>>) = {x}
    BY <1>4 DEF ToSet
<1>6. ~NeedsReorder(<<x>>)
    BY <1>4 DEF NeedsReorder
<1> QED
    BY <1>2, <1>3, <1>4, <1>5, <1>6

LEMMA WordsTyped ==
    ASSUME NEW bs \in Seq(ContentBlocks)
    PROVE  /\ WordsOf(bs) \in Seq(Seq(Words)) /\ Len(WordsOf(bs)) = Len(bs)
           /\ \A k \in 1 .. Len(bs) : WordsOf(bs)[k] = Word(bs[k])
<1>1. ASSUME NEW k \in 1 .. Len(bs) PROVE Word(bs[k]) \in Seq(Words)
    <2>1. bs[k] \in ContentBlocks
        OBVIOUS
    <2>2. bs[k].type \in BlockTypes /\ bs[k].text \in Seq(STRING)
        BY <2>1 DEF ContentBlocks
    <2>3. <<bs[k].type, bs[k].text>> \in Words
        BY <2>2 DEF Words
    <2>4. << <<bs[k].type, bs[k].text>> >> \in Seq(Words) /\ <<>> \in Seq(Words)
        BY <2>3
    <2> QED
        BY <2>4 DEF Word
<1>2. DOMAIN bs = 1 .. Len(bs) /\ Len(bs) \in Nat
    BY SetOf
<1> DEFINE n == Len(bs)
           w == WordsOf(bs)
<1>3. w = [k \in 1 .. n |-> Word(bs[k])]
    BY <1>2 DEF WordsOf
<1>4. n \in Nat /\ \A k \in 1 .. n : Word(bs[k]) \in Seq(Words)
    BY <1>1, <1>2
<1> HIDE DEF w, n
<1>5. w \in Seq(Seq(Words)) /\ Len(w) = n /\ \A k \in 1 .. n : w[k] = Word(bs[k])
    BY <1>3, <1>4
<1> QED
    BY <1>5 DEF w, n

LEMMA SaysTyped ==
    ASSUME NEW bs \in Seq(ContentBlocks)
    PROVE  SaysOf(bs) \in Seq(Words)
BY WordsTyped, FlatTyped DEF SaysOf

\* Leaving out thinking and placeholders leaves what is said.
LEMMA SaysPicks ==
    ASSUME NEW c \in Seq(ContentBlocks), NEW bs \in Seq(ContentBlocks), NEW I, Picks(c, bs, I),
           \A k \in 1 .. Len(bs) : k \notin I => Word(bs[k]) = <<>>
    PROVE  SaysOf(c) = SaysOf(bs)
<1> DEFINE v == WordsOf(c)
           w == WordsOf(bs)
<1>1. PICK p : PickedBy(p, c, bs, I)
    BY DEF Picks
<1>2. /\ v \in Seq(Seq(Words)) /\ Len(v) = Len(c) /\ \A k \in 1 .. Len(c) : v[k] = Word(c[k])
    BY WordsTyped
<1>3. /\ w \in Seq(Seq(Words)) /\ Len(w) = Len(bs) /\ \A k \in 1 .. Len(bs) : w[k] = Word(bs[k])
    BY WordsTyped
<1> HIDE DEF v, w
<1>4. PickedBy(p, v, w, I)
    <2>1. \A j \in 1 .. Len(c) : c[j] = bs[p[j]] /\ p[j] \in 1 .. Len(bs)
        BY <1>1 DEF PickedBy
    <2>2. \A j \in 1 .. Len(v) : v[j] = w[p[j]]
        BY <1>2, <1>3, <2>1
    <2>3. Len(v) = Len(c) /\ Len(w) = Len(bs)
        BY <1>2, <1>3
    <2> QED
        BY ONLY <1>1, <2>2, <2>3 DEF PickedBy
<1>5. Picks(v, w, I)
    BY <1>4 DEF Picks
<1>6. \A k \in 1 .. Len(w) : k \notin I => w[k] = <<>>
    BY <1>3
<1>7. FlattenSeq(v) = FlattenSeq(w)
    BY ONLY <1>2, <1>3, <1>5, <1>6, FlatPicks
<1> QED
    BY <1>7 DEF SaysOf, v, w

LEMMA ThinkingSaysNothing ==
    /\ \A x : IsThinking(x) => Word(x) = <<>>
    /\ SaysOf(Placeholder) = <<>>
<1>1. \A x : IsThinking(x) => Word(x) = <<>>
    BY DEF Word, Other
<1>2. WordsOf(Placeholder) \in Seq(Seq(Words)) /\ Len(WordsOf(Placeholder)) = 1
    BY WordsTyped, PlaceholderIs
<1>3. WordsOf(Placeholder)[1] = <<>>
    <2>1. WordsOf(Placeholder)[1] = Word(Placeholder[1])
        BY WordsTyped, PlaceholderIs
    <2>2. Word(Placeholder[1]) = <<>>
        BY DEF Word
    <2> QED
        BY <2>1, <2>2
<1>4. \A k \in 1 .. Len(WordsOf(Placeholder)) : WordsOf(Placeholder)[k] = <<>>
    BY <1>2, <1>3
<1> QED
    BY <1>1, <1>2, <1>4, FlatEmpty DEF SaysOf

LEMMA SaysNothing ==
    ASSUME NEW bs \in Seq(ContentBlocks), \A x \in ToSet(bs) : Word(x) = <<>>
    PROVE  SaysOf(bs) = <<>>
<1>1. \A k \in 1 .. Len(bs) : bs[k] \in ToSet(bs)
    BY SetOf
<1>2. \A k \in 1 .. Len(WordsOf(bs)) : WordsOf(bs)[k] = <<>>
    BY <1>1, WordsTyped
<1> QED
    BY <1>2, WordsTyped, FlatEmpty DEF SaysOf

LEMMA SaysConcat ==
    ASSUME NEW a \in Seq(ContentBlocks), NEW b \in Seq(ContentBlocks)
    PROVE  SaysOf(a \o b) = SaysOf(a) \o SaysOf(b)
<1> DEFINE c == a \o b
           u == WordsOf(a)
           v == WordsOf(b)
           w == WordsOf(c)
<1>1. /\ c \in Seq(ContentBlocks) /\ Len(c) = Len(a) + Len(b) /\ Len(a) \in Nat /\ Len(b) \in Nat
      /\ \A i \in 1 .. Len(a) + Len(b) : c[i] = IF i <= Len(a) THEN a[i] ELSE b[i - Len(a)]
    BY ConcatProperties
<1> HIDE DEF c
<1>2. u \in Seq(Seq(Words)) /\ Len(u) = Len(a) /\ \A k \in 1 .. Len(a) : u[k] = Word(a[k])
    BY WordsTyped
<1>3. v \in Seq(Seq(Words)) /\ Len(v) = Len(b) /\ \A k \in 1 .. Len(b) : v[k] = Word(b[k])
    BY WordsTyped
<1>4. w \in Seq(Seq(Words)) /\ Len(w) = Len(c) /\ \A k \in 1 .. Len(c) : w[k] = Word(c[k])
    BY <1>1, WordsTyped
<1> HIDE DEF u, v, w
<1>5. /\ u \o v \in Seq(Seq(Words)) /\ Len(u \o v) = Len(u) + Len(v)
      /\ \A i \in 1 .. Len(u) + Len(v) : (u \o v)[i] = IF i <= Len(u) THEN u[i] ELSE v[i - Len(u)]
    <2>1. \A s, t \in Seq(Seq(Words)) :
            /\ s \o t \in Seq(Seq(Words)) /\ Len(s \o t) = Len(s) + Len(t)
            /\ \A i \in 1 .. Len(s) + Len(t) :
                  (s \o t)[i] = IF i <= Len(s) THEN s[i] ELSE t[i - Len(s)]
        BY ConcatProperties
    <2>2. u \in Seq(Seq(Words)) /\ v \in Seq(Seq(Words))
        BY <1>2, <1>3
    <2> QED
        BY ONLY <2>1, <2>2
<1>6. ASSUME NEW i \in 1 .. Len(c) PROVE w[i] = (u \o v)[i]
    <2>1. i \in 1 .. Len(a) + Len(b)
        BY <1>1
    <2>2. CASE i <= Len(a)
        <3>1. i \in 1 .. Len(a)
            BY <2>1, <2>2
        <3> QED
            BY <1>1, <1>2, <1>3, <1>4, <1>5, <2>1, <2>2, <3>1
    <2>3. CASE ~(i <= Len(a))
        <3>1. i - Len(a) \in 1 .. Len(b)
            BY <1>1, <2>1, <2>3
        <3> QED
            BY <1>1, <1>2, <1>3, <1>4, <1>5, <2>1, <2>3, <3>1
    <2> QED
        BY <2>2, <2>3
<1>7. w = u \o v
    <2>1. Len(w) = Len(u \o v)
        BY <1>1, <1>2, <1>3, <1>4, <1>5
    <2>2. \A i \in 1 .. Len(w) : w[i] = (u \o v)[i]
        BY <1>4, <1>6
    <2> QED
        BY <1>4, <1>5, <2>1, <2>2, SeqEqual
<1>8. FlattenSeq(u \o v) = FlattenSeq(u) \o FlattenSeq(v)
    BY <1>2, <1>3, FlatConcat
<1> QED
    BY <1>7, <1>8 DEF SaysOf, u, v, w, c

LEMMA SaysTheSame ==
    ASSUME NEW bs \in Seq(ContentBlocks)
    PROVE  /\ SaysOf(Kept(bs)) = SaysOf(bs)
           /\ SaysOf(Others(bs)) = SaysOf(bs)
           /\ SaysOf(ThinkingFirst(bs)) = SaysOf(bs)
<1>1. DOMAIN bs = 1 .. Len(bs)
    BY SetOf
<1>2. SaysOf(Kept(bs)) = SaysOf(bs)
    <2> DEFINE I == {k \in DOMAIN bs : Signed(bs[k])}
    <2>1. \A k \in 1 .. Len(bs) : k \notin I => Word(bs[k]) = <<>>
        BY <1>1, ThinkingSaysNothing DEF Signed, Other
    <2>2. Kept(bs) \in Seq(ContentBlocks) /\ Picks(Kept(bs), bs, I)
        BY ChosenBlocks
    <2> HIDE DEF I
    <2> QED
        BY <2>1, <2>2, SaysPicks
<1>3. SaysOf(Others(bs)) = SaysOf(bs)
    <2> DEFINE I == {k \in DOMAIN bs : Other(bs[k])}
    <2>1. \A k \in 1 .. Len(bs) : k \notin I => Word(bs[k]) = <<>>
        BY <1>1, ThinkingSaysNothing DEF Other
    <2>2. Others(bs) \in Seq(ContentBlocks) /\ Picks(Others(bs), bs, I)
        BY ChosenBlocks
    <2> HIDE DEF I
    <2> QED
        BY <2>1, <2>2, SaysPicks
<1>4. SaysOf(ThinkingFirst(bs)) = SaysOf(bs)
    <2>1. /\ Thinkings(bs) \in Seq(ContentBlocks) /\ Others(bs) \in Seq(ContentBlocks)
          /\ \A x \in ToSet(Thinkings(bs)) : IsThinking(x)
        BY ChosenBlocks
    <2>2. SaysOf(Thinkings(bs)) = <<>>
        BY <2>1, ThinkingSaysNothing, SaysNothing
    <2>3. SaysOf(ThinkingFirst(bs)) = SaysOf(Thinkings(bs)) \o SaysOf(Others(bs))
        BY <2>1, SaysConcat DEF ThinkingFirst
    <2>4. <<>> \o SaysOf(Others(bs)) = SaysOf(Others(bs))
        BY <2>1, SaysTyped, ConcatEmptySeq
    <2> QED
        BY <1>3, <2>2, <2>3, <2>4
<1> QED
    BY <1>2, <1>3, <1>4

--------------------------------------------------------------------------------
(* Conversations.                                                             *)

\* The same messages as far as an upstream's rules and what is said go.
SameTalk(ms, ns) ==
    /\ Len(ns) = Len(ms)
    /\ \A i \in 1 .. Len(ms) : ns[i].role = ms[i].role /\ SaysOf(ns[i].blocks) = SaysOf(ms[i].blocks)

\* Messages that say nothing and that no neighbour needs.
MayDrop(ms, D) ==
    \A i \in D : /\ i \in 1 .. Len(ms)
                 /\ ms[i].role = "assistant" /\ SaysOf(ms[i].blocks) = <<>>
                 /\ ~WouldOrphanToolResults(ms, i)

SaysAll(ms) == [i \in DOMAIN ms |-> Says(ms[i])]

LEMMA MessageFields ==
    ASSUME NEW ms \in Seq(ChatMessages), NEW i \in 1 .. Len(ms)
    PROVE  /\ ms[i] \in ChatMessages /\ ms[i].role \in {"user", "assistant"}
           /\ ms[i].blocks \in Seq(ContentBlocks)
           /\ ms[i].form \in {"blocks", "plain", "null"} /\ ms[i].reasoning \in BOOLEAN
<1>1. ms[i] \in ChatMessages
    OBVIOUS
<1> QED
    BY <1>1 DEF ChatMessages

LEMMA SaysAllTyped ==
    ASSUME NEW ms \in Seq(ChatMessages)
    PROVE  /\ SaysAll(ms) \in Seq(Seq(Words)) /\ Len(SaysAll(ms)) = Len(ms)
           /\ \A i \in 1 .. Len(ms) : SaysAll(ms)[i] = SaysOf(ms[i].blocks)
<1>1. DOMAIN ms = 1 .. Len(ms) /\ Len(ms) \in Nat
    BY SetOf
<1>2. ASSUME NEW i \in 1 .. Len(ms) PROVE SaysOf(ms[i].blocks) \in Seq(Words)
    BY MessageFields, SaysTyped
<1> DEFINE n == Len(ms)
           w == SaysAll(ms)
           F(i) == SaysOf(ms[i].blocks)
<1>3. w = [i \in 1 .. n |-> F(i)]
    BY <1>1, SaysIs DEF SaysAll
<1>4. n \in Nat /\ \A i \in 1 .. n : F(i) \in Seq(Words)
    BY <1>1, <1>2
<1> HIDE DEF w, n, F
<1>5. w \in Seq(Seq(Words)) /\ Len(w) = n /\ \A i \in 1 .. n : w[i] = F(i)
    BY <1>3, <1>4
<1> QED
    BY <1>5 DEF w, n, F

\* The blocks that matter to the neighbours are among the words.
LEMMA TypeSaid ==
    ASSUME NEW bs \in Seq(ContentBlocks), NEW type \in {"tool_use", "tool_result"}
    PROVE  (\E k \in DOMAIN bs : bs[k].type = type)
             <=> \E k \in 1 .. Len(SaysOf(bs)) : SaysOf(bs)[k][1] = type
<1> DEFINE w == WordsOf(bs)
<1>1. DOMAIN bs = 1 .. Len(bs) /\ Len(bs) \in Nat
    BY SetOf
<1>2. /\ w \in Seq(Seq(Words)) /\ Len(w) = Len(bs) /\ \A k \in 1 .. Len(bs) : w[k] = Word(bs[k])
    BY WordsTyped
<1> HIDE DEF w
<1>3. \A x : (\E k \in 1 .. Len(FlattenSeq(w)) : FlattenSeq(w)[k] = x)
                <=> \E i \in 1 .. Len(w) : \E k \in 1 .. Len(w[i]) : w[i][k] = x
    <2>1. w \in Seq(Seq(Words))
        BY <1>2
    <2> QED
        BY ONLY <2>1, FlatMembers
<1>4. \A x : Word(x) = <<>> \/ /\ Word(x) = << <<x.type, x.text>> >>
                               /\ Len(Word(x)) = 1 /\ Word(x)[1] = <<x.type, x.text>>
                               /\ Word(x)[1][1] = x.type
    BY DEF Word
<1>5. \A x : x.type = type => Word(x) = << <<x.type, x.text>> >>
    BY PlaceholderIs DEF Word, Other, IsThinking
<1>6. ASSUME NEW k \in DOMAIN bs, bs[k].type = type
      PROVE  \E j \in 1 .. Len(FlattenSeq(w)) : FlattenSeq(w)[j][1] = type
    <2>1. w[k] = << <<bs[k].type, bs[k].text>> >>
        BY <1>1, <1>2, <1>5, <1>6
    <2> DEFINE x == <<bs[k].type, bs[k].text>>
    <2>2. x[1] = type
        BY <1>6
    <2>3. w[k] = <<x>>
        BY <2>1
    <2> HIDE DEF x
    <2>4. Len(w[k]) = 1 /\ w[k][1] = x
        BY <2>3
    <2>5. k \in 1 .. Len(w) /\ 1 \in 1 .. Len(w[k])
        BY <1>1, <1>2, <2>4
    <2>6. \E j \in 1 .. Len(FlattenSeq(w)) : FlattenSeq(w)[j] = x
        BY <1>3, <2>4, <2>5
    <2> QED
        BY <2>2, <2>6
<1>7. ASSUME NEW j \in 1 .. Len(FlattenSeq(w)), FlattenSeq(w)[j][1] = type
      PROVE  \E k \in DOMAIN bs : bs[k].type = type
    <2>1. PICK i \in 1 .. Len(w) : \E k \in 1 .. Len(w[i]) : w[i][k] = FlattenSeq(w)[j]
        BY <1>3
    <2>2. PICK k \in 1 .. Len(w[i]) : w[i][k] = FlattenSeq(w)[j]
        BY <2>1
    <2>3. w[i] # <<>>
        BY <2>2
    <2>4. i \in 1 .. Len(bs) /\ w[i] = Word(bs[i])
        BY <1>2
    <2>5. Len(w[i]) = 1 /\ w[i][1][1] = bs[i].type
        BY <1>4, <2>3, <2>4
    <2>6. k = 1
        BY <2>5
    <2> QED
        BY <1>1, <1>7, <2>2, <2>4, <2>5, <2>6
<1>8. SaysOf(bs) = FlattenSeq(w)
    BY DEF SaysOf, w
<1> QED
    BY <1>6, <1>7, <1>8

LEMMA TalkDecides ==
    ASSUME NEW m \in ChatMessages, NEW n \in ChatMessages,
           n.role = m.role, SaysOf(n.blocks) = SaysOf(m.blocks)
    PROVE  /\ HasToolResult(n) <=> HasToolResult(m)
           /\ CallsTool(n) <=> CallsTool(m)
<1>1. m.blocks \in Seq(ContentBlocks) /\ n.blocks \in Seq(ContentBlocks)
    BY DEF ChatMessages
<1>2. ASSUME NEW type \in {"tool_use", "tool_result"}
      PROVE  (\E k \in DOMAIN m.blocks : m.blocks[k].type = type)
               <=> \E k \in DOMAIN n.blocks : n.blocks[k].type = type
    <2>1. (\E k \in DOMAIN m.blocks : m.blocks[k].type = type)
            <=> \E k \in 1 .. Len(SaysOf(m.blocks)) : SaysOf(m.blocks)[k][1] = type
        BY <1>1, TypeSaid
    <2>2. (\E k \in DOMAIN n.blocks : n.blocks[k].type = type)
            <=> \E k \in 1 .. Len(SaysOf(n.blocks)) : SaysOf(n.blocks)[k][1] = type
        BY <1>1, TypeSaid
    <2>3. SaysOf(n.blocks) = SaysOf(m.blocks)
        OBVIOUS
    <2> QED
        BY <2>1, <2>2, <2>3
<1> QED
    BY <1>2 DEF HasToolResult, CallsTool

LEMMA CallsSay ==
    ASSUME NEW m \in ChatMessages, CallsTool(m)
    PROVE  SaysOf(m.blocks) # <<>>
<1>1. m.blocks \in Seq(ContentBlocks)
    BY DEF ChatMessages
<1>2. \E k \in 1 .. Len(SaysOf(m.blocks)) : SaysOf(m.blocks)[k][1] = "tool_use"
    BY <1>1, TypeSaid DEF CallsTool
<1> QED
    BY <1>2

LEMMA SubstanceTyped ==
    \A ms : Substance(ms) = FlattenSeq(SaysAll(ms))
BY DEF Substance, SaysAll

\* The neighbours in what is left, when only messages that nothing needs are dropped.
LEMMA DropKeeps ==
    ASSUME NEW ms \in Seq(ChatMessages), NEW ns \in Seq(ChatMessages), NEW D,
           SameTalk(ms, ns), MayDrop(ms, D)
    PROVE  /\ DropMessages(ns, D) \in Seq(ChatMessages)
           /\ Substance(DropMessages(ns, D)) = Substance(ms)
           /\ ResultsAnswerCalls(ms) => ResultsAnswerCalls(DropMessages(ns, D))
           /\ Alternating(ms) => Alternating(DropMessages(ns, D))
<1> DEFINE d == DropMessages(ns, D)
           n == Len(ms)
           I == (1 .. n) \ D
<1>1. n \in Nat /\ Len(ns) = n /\ DOMAIN ms = 1 .. n /\ DOMAIN ns = 1 .. n
    BY SetOf DEF SameTalk
<1>2. d \in Seq(ChatMessages) /\ Picks(d, ns, I)
    BY <1>1, DropPicks
<1>3. PICK p : PickedBy(p, d, ns, I)
    BY <1>2 DEF Picks
<1> DEFINE m == Len(d)
<1>4. DOMAIN d = 1 .. m /\ m \in Nat
    BY <1>2, SetOf
<1> HIDE DEF d, n, m
<1>5. /\ p \in [1 .. m -> 1 .. n]
      /\ \A i, j \in 1 .. m : i < j => p[i] < p[j]
      /\ \A j \in 1 .. m : d[j] = ns[p[j]] /\ p[j] \in I
      /\ \A i \in 1 .. n : i \in I => \E j \in 1 .. m : p[j] = i
    BY <1>1, <1>3 DEF PickedBy, m
<1>6. \A i \in 1 .. n : /\ ms[i] \in ChatMessages /\ ns[i] \in ChatMessages
                        /\ ns[i].role = ms[i].role /\ SaysOf(ns[i].blocks) = SaysOf(ms[i].blocks)
                        /\ ms[i].role \in {"user", "assistant"}
    BY <1>1, MessageFields DEF SameTalk, n
<1>7. \A i \in 1 .. n : i \notin I =>
        /\ ms[i].role = "assistant" /\ SaysOf(ms[i].blocks) = <<>>
        /\ ~WouldOrphanToolResults(ms, i)
    BY DEF MayDrop
<1> HIDE DEF I
<1>8. Substance(d) = Substance(ms)
    <2> DEFINE u == SaysAll(d)
               v == SaysAll(ns)
               w == SaysAll(ms)
    <2>1. u \in Seq(Seq(Words)) /\ Len(u) = m /\ \A i \in 1 .. m : u[i] = SaysOf(d[i].blocks)
        BY <1>2, SaysAllTyped DEF m
    <2>2. v \in Seq(Seq(Words)) /\ Len(v) = n /\ \A i \in 1 .. n : v[i] = SaysOf(ns[i].blocks)
        BY <1>1, SaysAllTyped
    <2>3. w \in Seq(Seq(Words)) /\ Len(w) = n /\ \A i \in 1 .. n : w[i] = SaysOf(ms[i].blocks)
        BY SaysAllTyped DEF n
    <2> HIDE DEF u, v, w
    <2>4. v = w
        BY <1>6, <2>2, <2>3, SeqEqual
    <2>4a. \A j \in 1 .. m : u[j] = v[p[j]]
        <3> SUFFICES ASSUME NEW j \in 1 .. m PROVE u[j] = v[p[j]]
            OBVIOUS
        <3>1. p[j] \in 1 .. n /\ d[j] = ns[p[j]]
            BY <1>5
        <3> QED
            BY <2>1, <2>2, <3>1
    <2>5. PickedBy(p, u, v, I)
        <3>1. Len(u) = m /\ Len(v) = n
            BY <2>1, <2>2
        <3> QED
            BY ONLY <1>1, <1>4, <1>5, <2>4a, <3>1 DEF PickedBy
    <2>6. Picks(u, v, I)
        BY <2>5 DEF Picks
    <2>7. \A i \in 1 .. Len(v) : i \notin I => v[i] = <<>>
        <3> SUFFICES ASSUME NEW i \in 1 .. n, i \notin I PROVE v[i] = <<>>
            BY <2>2
        <3>1. SaysOf(ns[i].blocks) = SaysOf(ms[i].blocks) /\ SaysOf(ms[i].blocks) = <<>>
            BY <1>6, <1>7
        <3> QED
            BY <2>2, <3>1
    <2>8. FlattenSeq(u) = FlattenSeq(v)
        BY ONLY <2>1, <2>2, <2>6, <2>7, FlatPicks
    <2> QED
        BY <2>4, <2>8, SubstanceTyped DEF u, w
<1>9. ASSUME ResultsAnswerCalls(ms) PROVE ResultsAnswerCalls(d)
    <2> SUFFICES ASSUME NEW j \in 1 .. m, HasToolResult(d[j])
                 PROVE  j > 1 /\ CallsTool(d[j - 1])
        BY <1>4 DEF ResultsAnswerCalls
    <2>1. /\ p[j] \in 1 .. n /\ d[j] = ns[p[j]] /\ j \in Nat
          /\ p[j] \in Nat
        BY <1>1, <1>4, <1>5
    <2>2. HasToolResult(ms[p[j]])
        BY <1>6, <2>1, TalkDecides
    <2>3. p[j] > 1 /\ CallsTool(ms[p[j] - 1])
        BY <1>1, <1>9, <2>1, <2>2 DEF ResultsAnswerCalls
    <2>4. p[j] - 1 \in 1 .. n
        BY <1>1, <2>1, <2>3
    <2>5. p[j] - 1 \in I
        BY <1>6, <1>7, <2>3, <2>4, CallsSay
    <2>6. PICK i \in 1 .. m : p[i] = p[j] - 1
        BY <1>5, <2>4, <2>5
    <2>7. i < j
        <3>1. ~(j < i)
            BY <1>5, <2>1, <2>6
        <3>2. i # j
            BY <2>1, <2>6
        <3> QED
            BY <1>4, <2>1, <3>1, <3>2
    <2>8. i = j - 1
        <3> SUFFICES ASSUME i < j - 1 PROVE FALSE
            BY <1>4, <2>1, <2>7
        <3>1. j - 1 \in 1 .. m /\ j - 1 < j
            BY <1>4, <2>1, <2>7
        <3>2. p[i] < p[j - 1] /\ p[j - 1] < p[j] /\ p[j - 1] \in 1 .. n /\ p[i] \in 1 .. n
            BY <1>5, <3>1
        <3> QED
            BY <1>1, <2>1, <2>6, <3>2
    <2>9. d[i] = ns[p[j] - 1] /\ j > 1
        BY <1>4, <1>5, <2>1, <2>6, <2>7
    <2>10. CallsTool(ns[p[j] - 1])
        BY <1>6, <2>3, <2>4, TalkDecides
    <2> QED
        BY <2>8, <2>9, <2>10
<1>10. ASSUME Alternating(ms) PROVE Alternating(d)
    <2>1. \A i \in 1 .. n - 1 : ms[i].role # ms[i + 1].role
        BY <1>10 DEF Alternating, n
    <2>2. ASSUME NEW i \in 1 .. n, i > 1, i < n PROVE i \in I
        <3> SUFFICES ASSUME i \notin I PROVE FALSE
            OBVIOUS
        <3>1. ms[i].role = "assistant" /\ ~WouldOrphanToolResults(ms, i)
            BY <1>7
        <3>2. i - 1 \in 1 .. n - 1 /\ i \in 1 .. n - 1 /\ i - 1 + 1 = i /\ i + 1 \in 1 .. n /\ i - 1 \in 1 .. n
            BY <1>1, <2>2
        <3>3. ms[i - 1].role # ms[i].role /\ ms[i].role # ms[i + 1].role
            BY <2>1, <3>2
        <3>4. ms[i - 1].role = "user" /\ ms[i + 1].role = "user"
            BY <1>6, <3>1, <3>2, <3>3
        <3> QED
            BY <2>2, <3>1, <3>4 DEF WouldOrphanToolResults, n
    <2> SUFFICES ASSUME NEW j \in 1 .. m - 1
                 PROVE  d[j].role # d[j + 1].role
        BY DEF Alternating, m
    <2>3. j \in 1 .. m /\ j + 1 \in 1 .. m /\ j < j + 1 /\ j \in Nat
        BY <1>4
    <2>4. /\ p[j] \in 1 .. n /\ p[j + 1] \in 1 .. n /\ p[j] < p[j + 1]
          /\ d[j] = ns[p[j]] /\ d[j + 1] = ns[p[j + 1]]
        BY <1>5, <2>3
    <2>5. p[j + 1] = p[j] + 1
        <3> SUFFICES ASSUME p[j] + 1 < p[j + 1] PROVE FALSE
            BY <1>1, <2>4
        <3>1. p[j] + 1 \in 1 .. n /\ p[j] + 1 > 1 /\ p[j] + 1 < n
            BY <1>1, <2>4
        <3>2. PICK i \in 1 .. m : p[i] = p[j] + 1
            BY <1>5, <2>2, <3>1
        <3>3. ~(i <= j)
            <4>1. CASE i = j
                BY <1>1, <2>4, <3>2, <4>1
            <4>2. CASE i < j
                <5>1. p[i] < p[j]
                    BY <1>5, <2>3, <4>2
                <5> QED
                    BY <1>1, <2>4, <3>2, <5>1
            <4>3. CASE i > j
                BY <1>4, <2>3, <4>3
            <4> QED
                BY <1>4, <2>3, <4>1, <4>2, <4>3
        <3>4. ~(i >= j + 1)
            <4>1. CASE i = j + 1
                BY <1>1, <2>4, <3>2, <4>1
            <4>2. CASE i > j + 1
                <5>1. p[j + 1] < p[i]
                    BY <1>5, <2>3, <4>2
                <5> QED
                    BY <1>1, <2>4, <3>2, <5>1
            <4>3. CASE i < j + 1
                BY <1>4, <2>3, <4>3
            <4> QED
                BY <1>4, <2>3, <4>1, <4>2, <4>3
        <3> QED
            BY <1>4, <2>3, <3>3, <3>4
    <2>6. p[j] \in 1 .. n - 1
        BY <1>1, <2>4, <2>5
    <2>7. ms[p[j]].role # ms[p[j] + 1].role
        BY <2>1, <2>6
    <2> QED
        BY <1>6, <2>4, <2>5, <2>7
<1> QED
    BY <1>2, <1>8, <1>9, <1>10 DEF d

--------------------------------------------------------------------------------
(* What a pass over a message leaves of it.                                   *)

\* Signatures come from the field or from the cache.
LEMMA Resolved ==
    ASSUME NEW b, NEW x \in ContentBlocks, cached \in [Texts -> RawSignatures],
           IsThinking(x) => x.text \in Texts
    PROVE  /\ IsThinking(x) => ResolveSignature(b, x) \in RawSignatures
           /\ x.sig.raw # "" /\ (x.sig.prefixed \/ IsValidSignature(b, x.sig.raw))
                => ResolveSignature(b, x) = x.sig.raw
           /\ ResolveSignature(b, x) # ""
                => \/ /\ ResolveSignature(b, x) = x.sig.raw
                      /\ x.sig.prefixed \/ IsValidSignature(b, x.sig.raw)
                   \/ HasCache /\ ResolveSignature(b, x) = cached[x.text]
<1>1. x.sig.raw \in RawSignatures
    <2>1. x.sig \in Signatures
        BY DEF ContentBlocks
    <2> QED
        BY <2>1 DEF Signatures
<1>2. "" \in RawSignatures
    BY DEF RawSignatures
<1> QED
    BY <1>1, <1>2 DEF ResolveSignature

LEMMA Updated ==
    ASSUME NEW b, NEW bs \in Seq(ContentBlocks), cached \in [Texts -> RawSignatures],
           \A x \in ToSet(bs) : IsThinking(x) => x.text \in Texts
    PROVE  /\ SurgicalUpdate(b, bs) \in Seq(ContentBlocks)
           /\ Len(SurgicalUpdate(b, bs)) = Len(bs)
           /\ SaysOf(SurgicalUpdate(b, bs)) = SaysOf(bs)
           /\ \A k \in 1 .. Len(bs) :
                LET x == bs[k]
                    y == SurgicalUpdate(b, bs)[k]
                IN  /\ y.type = x.type /\ y.text = x.text
                    /\ IsThinking(x) => y.sig = Bare(ResolveSignature(b, x))
                    /\ x.type = "tool_use" => y.sig = NoSignature
<1> DEFINE u == SurgicalUpdate(b, bs)
           n == Len(bs)
           F(x) == IF IsThinking(x) THEN [x EXCEPT !.sig = Bare(ResolveSignature(b, x))]
                   ELSE IF x.type = "tool_use" THEN [x EXCEPT !.sig = NoSignature] ELSE x
<1>1. n \in Nat /\ DOMAIN bs = 1 .. n /\ \A k \in 1 .. n : bs[k] \in ContentBlocks /\ bs[k] \in ToSet(bs)
    BY SetOf
<1>2. u = [k \in 1 .. n |-> F(bs[k])]
    BY <1>1 DEF SurgicalUpdate
<1>3. ASSUME NEW x \in ContentBlocks, IsThinking(x) => x.text \in Texts
      PROVE  /\ F(x) \in ContentBlocks /\ F(x).type = x.type /\ F(x).text = x.text
             /\ IsThinking(x) => F(x).sig = Bare(ResolveSignature(b, x))
             /\ x.type = "tool_use" => F(x).sig = NoSignature
             /\ Word(F(x)) = Word(x)
    <2>1. \A sig \in Signatures : /\ [x EXCEPT !.sig = sig] \in ContentBlocks
                                  /\ [x EXCEPT !.sig = sig].type = x.type
                                  /\ [x EXCEPT !.sig = sig].text = x.text
                                  /\ [x EXCEPT !.sig = sig].sig = sig
        BY DEF ContentBlocks
    <2>2. CASE IsThinking(x)
        <3>1. ResolveSignature(b, x) \in RawSignatures
            BY <1>3, <2>2, Resolved
        <3>2. Bare(ResolveSignature(b, x)) \in Signatures
            BY <3>1 DEF Bare, Signatures
        <3>3. F(x) = [x EXCEPT !.sig = Bare(ResolveSignature(b, x))] /\ x.type # "tool_use"
            BY <2>2 DEF IsThinking
        <3> HIDE DEF F
        <3>4. /\ F(x) \in ContentBlocks /\ F(x).type = x.type /\ F(x).text = x.text
              /\ F(x).sig = Bare(ResolveSignature(b, x))
            BY <2>1, <3>2, <3>3
        <3>5. IsThinking(F(x))
            BY <2>2, <3>4 DEF IsThinking
        <3> QED
            BY <2>2, <3>3, <3>4, <3>5, ThinkingSaysNothing
    <2>3. CASE x.type = "tool_use"
        <3>1. NoSignature \in Signatures
            <4>1. /\ NoSignature = [there |-> FALSE, prefixed |-> FALSE, raw |-> ""]
                  /\ FALSE \in BOOLEAN /\ "" \in RawSignatures
                BY DEF NoSignature, RawSignatures
            <4> QED
                BY ONLY <4>1 DEF Signatures
        <3>2. F(x) = [x EXCEPT !.sig = NoSignature] /\ ~IsThinking(x)
            BY <2>3 DEF IsThinking
        <3> HIDE DEF F
        <3>3. /\ F(x) \in ContentBlocks /\ F(x).type = x.type /\ F(x).text = x.text
              /\ F(x).sig = NoSignature
            BY <2>1, <3>1, <3>2
        <3>4. Word(F(x)) = Word(x)
            BY <2>3, <3>3, PlaceholderIs DEF Word, Other, IsThinking
        <3> QED
            BY <2>3, <3>2, <3>3, <3>4
    <2>4. CASE ~IsThinking(x) /\ x.type # "tool_use"
        BY <2>4
    <2> QED
        BY <2>2, <2>3, <2>4
<1>4. ASSUME NEW k \in 1 .. n PROVE bs[k] \in ContentBlocks /\ (IsThinking(bs[k]) => bs[k].text \in Texts)
    BY <1>1
<1> HIDE DEF F, u, n
<1>5. u \in Seq(ContentBlocks) /\ Len(u) = n /\ \A k \in 1 .. n : u[k] = F(bs[k])
    BY <1>1, <1>2, <1>3, <1>4
<1>6. SaysOf(u) = SaysOf(bs)
    <2> DEFINE v == WordsOf(u)
               w == WordsOf(bs)
    <2>1. v \in Seq(Seq(Words)) /\ Len(v) = n /\ \A k \in 1 .. n : v[k] = Word(u[k])
        BY <1>5, WordsTyped
    <2>2. w \in Seq(Seq(Words)) /\ Len(w) = n /\ \A k \in 1 .. n : w[k] = Word(bs[k])
        BY WordsTyped DEF n
    <2> HIDE DEF v, w
    <2>3. \A k \in 1 .. n : v[k] = w[k]
        <3> SUFFICES ASSUME NEW k \in 1 .. n PROVE v[k] = w[k]
            OBVIOUS
        <3>1. v[k] = Word(F(bs[k])) /\ w[k] = Word(bs[k])
            BY <1>5, <2>1, <2>2
        <3>2. Word(F(bs[k])) = Word(bs[k])
            BY <1>3, <1>4
        <3> QED
            BY <3>1, <3>2
    <2>4. v = w
        BY <2>1, <2>2, <2>3, SeqEqual
    <2> QED
        BY <2>4 DEF SaysOf, v, w
<1>7. ASSUME NEW k \in 1 .. n
      PROVE  /\ u[k].type = bs[k].type /\ u[k].text = bs[k].text
             /\ IsThinking(bs[k]) => u[k].sig = Bare(ResolveSignature(b, bs[k]))
             /\ bs[k].type = "tool_use" => u[k].sig = NoSignature
    BY <1>3, <1>4, <1>5
<1> QED
    BY <1>5, <1>6, <1>7 DEF u, n

\* Picking keeps thinking first.
LEMMA PicksStayOrdered ==
    ASSUME NEW c \in Seq(ContentBlocks), NEW bs \in Seq(ContentBlocks), NEW I, Picks(c, bs, I),
           ~NeedsReorder(bs)
    PROVE  ~NeedsReorder(c)
<1>1. PICK p : PickedBy(p, c, bs, I)
    BY DEF Picks
<1>2. DOMAIN c = 1 .. Len(c) /\ DOMAIN bs = 1 .. Len(bs)
    BY SetOf
<1> SUFFICES ASSUME NEW i \in 1 .. Len(c), NEW j \in 1 .. Len(c), i < j,
                    Other(c[i]), IsThinking(c[j])
             PROVE  FALSE
    BY <1>2 DEF NeedsReorder
<1>3. /\ p[i] \in 1 .. Len(bs) /\ p[j] \in 1 .. Len(bs) /\ p[i] < p[j]
      /\ c[i] = bs[p[i]] /\ c[j] = bs[p[j]]
    BY <1>1 DEF PickedBy
<1>4. Other(bs[p[i]]) /\ IsThinking(bs[p[j]])
    BY <1>3
<1> QED
    BY <1>2, <1>3, <1>4 DEF NeedsReorder

LEMMA WithBlocksIs ==
    ASSUME NEW m \in ChatMessages, NEW bs \in Seq(ContentBlocks)
    PROVE  /\ WithBlocks(m, bs) \in ChatMessages /\ WithBlocks(m, bs).role = m.role
           /\ WithBlocks(m, bs).blocks = bs /\ WithBlocks(m, bs).form = "blocks"
           /\ WithBlocks(m, bs).reasoning = m.reasoning
BY DEF WithBlocks, ChatMessages

\* A pass that finds other signatures, or that has to put thinking first.
LEMMA Rebuilt ==
    ASSUME NEW b, NEW m \in ChatMessages, cached \in [Texts -> RawSignatures], Assistant(m),
           \A x \in ToSet(m.blocks) : IsThinking(x) => x.text \in Texts
    PROVE  LET u == SurgicalUpdate(b, m.blocks)
               n == RebuildContent(m, u)
           IN  /\ n \in ChatMessages /\ n.role = m.role /\ SaysOf(n.blocks) = SaysOf(m.blocks)
               /\ n.blocks # <<>> => n.form = "blocks"
               /\ ~NeedsReorder(n.blocks)
               /\ ToSet(n.blocks) = {x \in ToSet(u) : Signed(x)}
               /\ SaysOf(Kept(u)) = SaysOf(m.blocks) /\ ToSet(Kept(u)) = {x \in ToSet(u) : Signed(x)}
               /\ Kept(u) # <<>> /\ ~NeedsReorder(m.blocks) => n = WithBlocks(m, Kept(u))
<1> DEFINE u == SurgicalUpdate(b, m.blocks)
           c == Kept(u)
           n == RebuildContent(m, u)
<1>1. m.blocks \in Seq(ContentBlocks)
    BY DEF ChatMessages
<1>2. /\ u \in Seq(ContentBlocks) /\ Len(u) = Len(m.blocks) /\ SaysOf(u) = SaysOf(m.blocks)
      /\ \A k \in 1 .. Len(m.blocks) : u[k].type = m.blocks[k].type
    BY <1>1, Updated
<1> HIDE DEF u
<1>3. /\ c \in Seq(ContentBlocks) /\ ToSet(c) = {x \in ToSet(u) : Signed(x)}
      /\ SaysOf(c) = SaysOf(m.blocks) /\ Picks(c, u, {k \in DOMAIN u : Signed(u[k])})
    BY <1>2, ChosenBlocks, SaysTheSame
<1>4. n = IF NeedsReorder(m.blocks) THEN WithBlocks(m, ThinkingFirst(c))
          ELSE IF c = <<>> THEN [m EXCEPT !.form = "null", !.blocks = <<>>]
          ELSE WithBlocks(m, c)
    BY DEF RebuildContent
<1>5. ~NeedsReorder(m.blocks) => ~NeedsReorder(c)
    <2> SUFFICES ASSUME ~NeedsReorder(m.blocks) PROVE ~NeedsReorder(c)
        OBVIOUS
    <2>1. DOMAIN u = 1 .. Len(u) /\ DOMAIN m.blocks = 1 .. Len(u)
        BY <1>1, <1>2, SetOf
    <2>2. ~NeedsReorder(u)
        BY <1>2, <2>1 DEF NeedsReorder, Other, IsThinking
    <2> DEFINE I == {k \in DOMAIN u : Signed(u[k])}
    <2>3. Picks(c, u, I)
        BY <1>3
    <2> HIDE DEF I, c
    <2> QED
        BY <1>2, <1>3, <2>2, <2>3, PicksStayOrdered
<1> HIDE DEF c, n
<1>6. CASE NeedsReorder(m.blocks)
    <2>1. ThinkingFirst(c) \in Seq(ContentBlocks) /\ ToSet(ThinkingFirst(c)) = ToSet(c)
          /\ ~NeedsReorder(ThinkingFirst(c)) /\ SaysOf(ThinkingFirst(c)) = SaysOf(c)
        BY <1>3, FirstBlocks, SaysTheSame
    <2>2. n = WithBlocks(m, ThinkingFirst(c))
        BY <1>4, <1>6
    <2>3. /\ n \in ChatMessages /\ n.role = m.role /\ n.blocks = ThinkingFirst(c) /\ n.form = "blocks"
        BY <2>1, <2>2, WithBlocksIs
    <2> QED
        BY <1>3, <1>6, <2>1, <2>3 DEF n, c, u
<1>7. CASE ~NeedsReorder(m.blocks) /\ c = <<>>
    <2>1. n = [m EXCEPT !.form = "null", !.blocks = <<>>]
        BY <1>4, <1>7
    <2>2. <<>> \in Seq(ContentBlocks)
        OBVIOUS
    <2>3. n \in ChatMessages /\ n.role = m.role /\ n.blocks = <<>>
        BY <2>1, <2>2 DEF ChatMessages
    <2> QED
        BY <1>3, <1>5, <1>7, <2>3 DEF n, c, u
<1>8. CASE ~NeedsReorder(m.blocks) /\ c # <<>>
    <2>1. n = WithBlocks(m, c)
        BY <1>4, <1>8
    <2>2. /\ n \in ChatMessages /\ n.role = m.role /\ n.blocks = c /\ n.form = "blocks"
        BY <1>3, <2>1, WithBlocksIs
    <2> QED
        BY <1>3, <1>5, <1>8, <2>1, <2>2 DEF n, c, u
<1> QED
    BY <1>6, <1>7, <1>8

--------------------------------------------------------------------------------
(* The body while it is processed: o is the client's, h what was held.        *)

\* A thinking block whose signature the client vouches for.
ClientSigns(o, x) ==
    IsThinking(x) /\ x.sig.raw # "" /\ (x.sig.prefixed \/ IsValidSignature(o, x.sig.raw))

Vouched(o, text, raw) ==
    \E i \in 1 .. Len(o.messages) :
        /\ Assistant(o.messages[i])
        /\ \E z \in ToSet(o.messages[i].blocks) :
             ClientSigns(o, z) /\ z.text = text /\ z.sig.raw = raw

\* Blocks that an upstream accepts.
Presentable(o, h, bs) ==
    /\ ~NeedsReorder(bs)
    /\ \A x \in ToSet(bs) :
         /\ x.type = "tool_use" => ~x.sig.there
         /\ IsThinking(x) => /\ x.sig = Bare(x.sig.raw) /\ x.sig.raw # ""
                             /\ Vouched(o, x.text, x.sig.raw) \/ <<x.text, x.sig.raw>> \in h

\* A signature of the client that the blocks still have.
Carries(bs, x) == \E y \in ToSet(bs) : IsThinking(y) /\ y.text = x.text /\ y.sig.raw = x.sig.raw

\* Message n is what processing makes of m.
Processed(o, h, m, n) ==
    /\ ~Assistant(m) => n = m
    /\ Assistant(m) =>
         /\ Presentable(o, h, n.blocks)
         /\ \A x \in ToSet(m.blocks) : ClientSigns(o, x) => Carries(n.blocks, x)
         /\ n.blocks # <<>> => n.form = "blocks"

\* What was prepared for an upstream that validates signatures.
BodyPresentable(o, h, ms) ==
    /\ \A i \in 1 .. Len(ms) : Assistant(ms[i]) => Presentable(o, h, ms[i].blocks)
    /\ \A i \in 1 .. Len(o.messages) : \A x \in ToSet(o.messages[i].blocks) :
         Assistant(o.messages[i]) /\ ClientSigns(o, x) =>
             \E j \in 1 .. Len(ms) : Assistant(ms[j]) /\ Carries(ms[j].blocks, x)

\* Message i on its way from m to n, where message a is next and d are to go.
MessageInv(o, h, a, d, i, m, n) ==
    /\ i >= a \/ i \in d => n = m
    /\ i \in d => i < a /\ \A x \in ToSet(m.blocks) : ~ClientSigns(o, x)
    /\ i < a /\ i \notin d => Processed(o, h, m, n)

Work(o, h, a, d, ms) ==
    /\ HasCache /\ HasThinkingBlocks(o)
    /\ a \in 1 .. Len(o.messages) + 1
    /\ SameTalk(o.messages, ms) /\ MayDrop(o.messages, d)
    /\ \A i \in 1 .. Len(o.messages) : MessageInv(o, h, a, d, i, o.messages[i], ms[i])

BodyInv ==
    /\ BodyOK(original)
    /\ body.messages \in Seq(ChatMessages)
    /\ body = [original EXCEPT !.messages = body.messages]

SignaturesInv ==
    /\ cached \in [Texts -> RawSignatures]
    /\ \A t \in Texts : cached[t] # "" => <<t, cached[t]>> \in held
    /\ \A w \in buffered :
         w \in held /\ w[2] \in RawSignatures /\ w = <<w[1], w[2]>>
    /\ upcoming \in Seq(StreamedEvents \cup Responses)

PhaseInv ==
    /\ phase \in {"arrived", "processing", "rebuilding", "prepared", "too large"}
    /\ phase \in {"arrived", "too large"} => body = original /\ at = 1 /\ drops = {}
    /\ phase \in {"processing", "rebuilding"} => Work(original, held, at, drops, body.messages)
    /\ phase = "rebuilding" =>
         at \in 1 .. Len(original.messages) /\ Assistant(original.messages[at])
    /\ phase = "prepared" /\ HasCache /\ HasThinkingBlocks(original) =>
         BodyPresentable(original, held, body.messages)
    /\ stage # "ready" => phase = "prepared"

ConversationInv == BodyInv /\ SignaturesInv /\ PhaseInv /\ ConversationKept /\ AttemptFits

\* Bodies and their messages.
LEMMA BodyFields ==
    ASSUME BodyInv
    PROVE  /\ original.messages \in Seq(ChatMessages) /\ body.messages \in Seq(ChatMessages)
           /\ body.group = original.group /\ body.model = original.model
           /\ body.json = original.json /\ body.tooLarge = original.tooLarge
           /\ body.markers = original.markers
<1>1. original \in [messages : Seq(ChatMessages), thinking : BOOLEAN, model : STRING,
                    group : STRING, json : BOOLEAN, tooLarge : BOOLEAN,
                    markers : SUBSET {"thinking", "reasoning"}]
    BY DEF BodyInv, BodyOK
<1>2. body = [original EXCEPT !.messages = body.messages] /\ body.messages \in Seq(ChatMessages)
    BY DEF BodyInv
<1> QED
    BY <1>1, <1>2

LEMMA OriginalBlocks ==
    ASSUME BodyInv, NEW i \in 1 .. Len(original.messages), NEW x \in ToSet(original.messages[i].blocks)
    PROVE  /\ IsThinking(x) => x.text \in Texts
           /\ x.sig.raw # "" => x.sig.there
<1>1. DOMAIN original.messages = 1 .. Len(original.messages)
    BY BodyFields, SetOf
<1>2. x \in Blocks(original)
    BY <1>1 DEF Blocks
<1> QED
    BY <1>2 DEF BodyInv, BodyOK

\* What was held stays so.
LEMMA StillPresentable ==
    ASSUME NEW o, NEW h, NEW k, h \subseteq k
    PROVE  /\ \A bs : Presentable(o, h, bs) => Presentable(o, k, bs)
           /\ \A ms : BodyPresentable(o, h, ms) => BodyPresentable(o, k, ms)
           /\ \A a, d, ms : Work(o, h, a, d, ms) => Work(o, k, a, d, ms)
<1>1. \A bs : Presentable(o, h, bs) => Presentable(o, k, bs)
    BY DEF Presentable
<1>2. \A ms : BodyPresentable(o, h, ms) => BodyPresentable(o, k, ms)
    BY <1>1 DEF BodyPresentable
<1>3. \A m, n : Processed(o, h, m, n) => Processed(o, k, m, n)
    BY <1>1 DEF Processed
<1>4. \A a, d, ms : Work(o, h, a, d, ms) => Work(o, k, a, d, ms)
    BY <1>3 DEF Work, MessageInv
<1> QED
    BY <1>1, <1>2, <1>4

\* Steps that leave the body and the attempts alone.
LEMMA BodyUntouched ==
    ASSUME ConversationInv, SignaturesInv', held \subseteq held',
           UNCHANGED <<original, body, phase, at, drops, affinity, exchangeVars>>
    PROVE  ConversationInv'
<1>1. BodyInv'
    BY DEF ConversationInv, BodyInv
<1>2. PhaseInv'
    <2>1. PhaseInv
        BY DEF ConversationInv
    <2>2. /\ Work(original, held, at, drops, body.messages)
                => Work(original, held', at, drops, body.messages)
          /\ BodyPresentable(original, held, body.messages)
                => BodyPresentable(original, held', body.messages)
        BY StillPresentable
    <2>3. stage' = stage
        BY DEF exchangeVars
    <2> QED
        BY <2>1, <2>2, <2>3 DEF PhaseInv
<1>3. ConversationKept'
    BY DEF ConversationInv, ConversationKept
<1>4. AttemptFits'
    BY DEF ConversationInv, AttemptFits, exchangeVars
<1> QED
    BY <1>1, <1>2, <1>3, <1>4 DEF ConversationInv

LEMMA SameOrphans ==
    ASSUME NEW ms \in Seq(ChatMessages), NEW ns \in Seq(ChatMessages), SameTalk(ms, ns),
           NEW i \in 1 .. Len(ms)
    PROVE  WouldOrphanToolResults(ns, i) <=> WouldOrphanToolResults(ms, i)
<1>1. /\ Len(ns) = Len(ms) /\ Len(ms) \in Nat
      /\ \A j \in 1 .. Len(ms) :
           /\ ms[j] \in ChatMessages /\ ns[j] \in ChatMessages
           /\ ns[j].role = ms[j].role /\ SaysOf(ns[j].blocks) = SaysOf(ms[j].blocks)
    BY MessageFields DEF SameTalk
<1>2. \A j \in 1 .. Len(ms) : HasToolResult(ns[j]) <=> HasToolResult(ms[j])
    BY <1>1, TalkDecides
<1>3. i < Len(ms) => i + 1 \in 1 .. Len(ms)
    BY <1>1
<1>4. i > 1 => i - 1 \in 1 .. Len(ms)
    BY <1>1
<1> QED
    BY <1>1, <1>2, <1>3, <1>4 DEF WouldOrphanToolResults

\* The signed blocks of an assistant's message, in any order that begins with thinking.
LEMMA SignedArePresentable ==
    ASSUME BodyInv, SignaturesInv, HasCache,
           NEW i \in 1 .. Len(original.messages), Assistant(original.messages[i]),
           NEW cs, ~NeedsReorder(cs),
           ToSet(cs) = {x \in ToSet(SurgicalUpdate(body, original.messages[i].blocks)) : Signed(x)}
    PROVE  /\ Presentable(original, held, cs)
           /\ \A x \in ToSet(original.messages[i].blocks) :
                ClientSigns(original, x) => Carries(cs, x)
<1> DEFINE bs == original.messages[i].blocks
           u == SurgicalUpdate(body, bs)
           n == Len(bs)
<1>1. original.messages[i] \in ChatMessages /\ bs \in Seq(ContentBlocks)
    BY BodyFields, MessageFields
<1>2. \A x \in ToSet(bs) : IsThinking(x) => x.text \in Texts
    BY OriginalBlocks
<1>3. cached \in [Texts -> RawSignatures]
    BY DEF SignaturesInv
<1> HIDE DEF bs
<1>4. /\ u \in Seq(ContentBlocks) /\ Len(u) = n
      /\ \A k \in 1 .. n : /\ u[k].type = bs[k].type /\ u[k].text = bs[k].text
                           /\ IsThinking(bs[k]) => u[k].sig = Bare(ResolveSignature(body, bs[k]))
                           /\ bs[k].type = "tool_use" => u[k].sig = NoSignature
    BY <1>1, <1>2, <1>3, Updated
<1>5. /\ ToSet(u) = {u[k] : k \in 1 .. n} /\ ToSet(bs) = {bs[k] : k \in 1 .. n} /\ n \in Nat
      /\ \A k \in 1 .. n : bs[k] \in ContentBlocks
    BY <1>1, <1>4, SetOf
<1>6. ToSet(cs) = {x \in ToSet(u) : Signed(x)}
    BY DEF bs
<1> HIDE DEF u, n
<1>7. \A raw : IsValidSignature(body, raw) <=> IsValidSignature(original, raw)
    BY BodyFields DEF IsValidSignature
<1>8. ASSUME NEW k \in 1 .. n, IsThinking(bs[k])
      PROVE  /\ IsThinking(u[k]) /\ u[k].text = bs[k].text
             /\ u[k].sig = Bare(u[k].sig.raw) /\ u[k].sig.raw = ResolveSignature(body, bs[k])
    <2>1. u[k].sig = Bare(ResolveSignature(body, bs[k])) /\ u[k].text = bs[k].text
        BY <1>4, <1>8
    <2>2. \A raw : Bare(raw).raw = raw
        BY DEF Bare
    <2> QED
        BY <1>4, <1>8, <2>1, <2>2 DEF IsThinking
<1>9. ASSUME NEW k \in 1 .. n, IsThinking(bs[k])
      PROVE  /\ ClientSigns(original, bs[k]) => ResolveSignature(body, bs[k]) = bs[k].sig.raw
             /\ ResolveSignature(body, bs[k]) # "" =>
                  \/ Vouched(original, bs[k].text, ResolveSignature(body, bs[k]))
                  \/ <<bs[k].text, ResolveSignature(body, bs[k])>> \in held
    <2> DEFINE x == bs[k]
               raw == ResolveSignature(body, x)
    <2>1. x \in ContentBlocks /\ x.text \in Texts /\ x \in ToSet(bs)
        BY <1>2, <1>5, <1>9
    <2>2. /\ x.sig.raw # "" /\ (x.sig.prefixed \/ IsValidSignature(body, x.sig.raw)) => raw = x.sig.raw
          /\ raw # "" => \/ raw = x.sig.raw /\ (x.sig.prefixed \/ IsValidSignature(body, x.sig.raw))
                         \/ HasCache /\ raw = cached[x.text]
        BY <1>3, <2>1, Resolved
    <2> HIDE DEF raw
    <2>3. ClientSigns(original, x) => raw = x.sig.raw
        BY <1>7, <2>2 DEF ClientSigns
    <2>4. ASSUME raw # "" PROVE Vouched(original, x.text, raw) \/ <<x.text, raw>> \in held
        <3>1. CASE raw = x.sig.raw /\ (x.sig.prefixed \/ IsValidSignature(body, x.sig.raw))
            <4>1. ClientSigns(original, x)
                BY <1>7, <1>9, <2>4, <3>1 DEF ClientSigns
            <4> QED
                BY <2>1, <3>1, <4>1 DEF Vouched, bs
        <3>2. CASE raw = cached[x.text]
            BY <2>1, <2>4, <3>2 DEF SignaturesInv
        <3> QED
            BY <2>2, <2>4, <3>1, <3>2
    <2> QED
        BY <2>3, <2>4 DEF raw
<1>10. Presentable(original, held, cs)
    <2>1. ASSUME NEW x \in ToSet(cs), x.type = "tool_use" PROVE ~x.sig.there
        <3>1. PICK k \in 1 .. n : x = u[k]
            BY <1>5, <1>6
        <3> QED
            <4>1. x.sig = NoSignature
                BY <1>4, <2>1, <3>1
            <4>2. ~NoSignature.there
                BY DEF NoSignature
            <4> QED
                BY <4>1, <4>2
    <2>2. ASSUME NEW x \in ToSet(cs), IsThinking(x)
          PROVE  /\ x.sig = Bare(x.sig.raw) /\ x.sig.raw # ""
                 /\ Vouched(original, x.text, x.sig.raw) \/ <<x.text, x.sig.raw>> \in held
        <3>1. PICK k \in 1 .. n : x = u[k] /\ Signed(u[k])
            BY <1>5, <1>6
        <3>2. IsThinking(bs[k])
            BY <1>4, <2>2, <3>1 DEF IsThinking
        <3>3. x.sig = Bare(x.sig.raw) /\ x.text = bs[k].text /\ x.sig.raw = ResolveSignature(body, bs[k])
            BY <1>8, <3>1, <3>2
        <3>4. x.sig.raw # ""
            BY <2>2, <3>1 DEF Signed, Other
        <3> QED
            BY <1>9, <3>2, <3>3, <3>4
    <2> QED
        BY <2>1, <2>2 DEF Presentable
<1>11. ASSUME NEW x \in ToSet(bs), ClientSigns(original, x) PROVE Carries(cs, x)
    <2>1. PICK k \in 1 .. n : x = bs[k]
        BY <1>5
    <2>2. IsThinking(bs[k]) /\ x.sig.raw # ""
        BY <1>11, <2>1 DEF ClientSigns
    <2>3. IsThinking(u[k]) /\ u[k].text = x.text /\ u[k].sig.raw = x.sig.raw
        BY <1>8, <1>9, <1>11, <2>1, <2>2
    <2>4. u[k] \in ToSet(cs)
        BY <1>5, <1>6, <2>2, <2>3 DEF Signed
    <2> QED
        BY <2>3, <2>4 DEF Carries
<1> QED
    BY <1>10, <1>11 DEF bs

\* A message is done: it was rewritten, or it is to go.
LEMMA MessageDone ==
    ASSUME NEW o, o.messages \in Seq(ChatMessages), NEW h, NEW a \in 1 .. Len(o.messages), NEW d,
           NEW ms \in Seq(ChatMessages), Work(o, h, a, d, ms), NEW n \in ChatMessages,
           n.role = o.messages[a].role, SaysOf(n.blocks) = SaysOf(o.messages[a].blocks),
           Processed(o, h, o.messages[a], n)
    PROVE  /\ [ms EXCEPT ![a] = n] \in Seq(ChatMessages)
           /\ Work(o, h, a + 1, d, [ms EXCEPT ![a] = n])
<1> DEFINE ns == [ms EXCEPT ![a] = n]
           k == Len(o.messages)
<1>1. k \in Nat /\ a \in 1 .. k
    BY SetOf
<1>2. /\ HasCache /\ HasThinkingBlocks(o) /\ MayDrop(o.messages, d)
      /\ Len(ms) = k
      /\ \A i \in 1 .. k : /\ ms[i].role = o.messages[i].role
                           /\ SaysOf(ms[i].blocks) = SaysOf(o.messages[i].blocks)
                           /\ MessageInv(o, h, a, d, i, o.messages[i], ms[i])
    BY DEF Work, SameTalk
<1>3. /\ ns \in Seq(ChatMessages) /\ Len(ns) = k
      /\ \A i \in 1 .. k : ns[i] = IF i = a THEN n ELSE ms[i]
    BY <1>1, <1>2
<1> HIDE DEF ns, k
<1>4. SameTalk(o.messages, ns)
    BY <1>2, <1>3 DEF SameTalk, k
<1>5. a \notin d
    BY <1>1, <1>2 DEF MessageInv
<1>6. ASSUME NEW i \in 1 .. k PROVE MessageInv(o, h, a + 1, d, i, o.messages[i], ns[i])
    <2>1. CASE i = a
        BY <1>1, <1>3, <1>5, <2>1 DEF MessageInv
    <2>2. CASE i < a
        <3>1. MessageInv(o, h, a, d, i, o.messages[i], ms[i]) /\ ns[i] = ms[i]
            BY <1>1, <1>2, <1>3, <2>2
        <3> QED
            BY <1>1, <2>2, <3>1 DEF MessageInv
    <2>3. CASE i > a
        <3>1. MessageInv(o, h, a, d, i, o.messages[i], ms[i]) /\ ns[i] = ms[i]
            BY <1>1, <1>2, <1>3, <2>3
        <3> QED
            BY <1>1, <2>3, <3>1 DEF MessageInv
    <2> QED
        BY <1>1, <2>1, <2>2, <2>3
<1>7. a + 1 \in 1 .. k + 1
    BY <1>1
<1>8. Work(o, h, a + 1, d, ns)
    BY <1>2, <1>4, <1>6, <1>7 DEF Work, k
<1> QED
    BY <1>3, <1>8 DEF ns

LEMMA MessageGoes ==
    ASSUME NEW o, o.messages \in Seq(ChatMessages), NEW h, NEW a \in 1 .. Len(o.messages), NEW d,
           NEW ms \in Seq(ChatMessages), Work(o, h, a, d, ms),
           o.messages[a].role = "assistant", SaysOf(o.messages[a].blocks) = <<>>,
           ~WouldOrphanToolResults(o.messages, a),
           \A x \in ToSet(o.messages[a].blocks) : ~ClientSigns(o, x)
    PROVE  Work(o, h, a + 1, d \cup {a}, ms)
<1> DEFINE k == Len(o.messages)
<1>1. k \in Nat /\ a \in 1 .. k
    BY SetOf
<1>2. /\ HasCache /\ HasThinkingBlocks(o) /\ MayDrop(o.messages, d) /\ SameTalk(o.messages, ms)
      /\ \A i \in 1 .. k : MessageInv(o, h, a, d, i, o.messages[i], ms[i])
    BY DEF Work
<1> HIDE DEF k
<1>3. MayDrop(o.messages, d \cup {a})
    BY <1>2 DEF MayDrop
<1>4. ASSUME NEW i \in 1 .. k PROVE MessageInv(o, h, a + 1, d \cup {a}, i, o.messages[i], ms[i])
    <2>1. MessageInv(o, h, a, d, i, o.messages[i], ms[i])
        BY <1>2
    <2>2. CASE i = a
        BY <1>1, <2>1, <2>2 DEF MessageInv
    <2>3. CASE i < a
        BY <1>1, <2>1, <2>3 DEF MessageInv
    <2>4. CASE i > a
        BY <1>1, <2>1, <2>4 DEF MessageInv
    <2> QED
        BY <1>1, <2>2, <2>3, <2>4
<1>5. a + 1 \in 1 .. k + 1
    BY <1>1
<1> QED
    BY <1>2, <1>3, <1>4, <1>5 DEF Work, k

--------------------------------------------------------------------------------
(* The steps of a request.                                                    *)

\* While a request is prepared nothing has been sent.
LEMMA NotPreparedYet ==
    ASSUME BodyInv', SignaturesInv, PhaseInv', phase' # "prepared",
           UNCHANGED <<cached, held, buffered, upcoming>>
    PROVE  ConversationInv'
<1>1. SignaturesInv'
    BY DEF SignaturesInv
<1>2. stage' = "ready"
    BY DEF PhaseInv
<1>3. ConversationKept' /\ AttemptFits'
    BY <1>2 DEF ConversationKept, AttemptFits
<1> QED
    BY <1>1, <1>3 DEF ConversationInv

LEMMA PrepareRequestKeeps ==
    ASSUME ConversationInv, PrepareRequest, UNCHANGED exchangeVars
    PROVE  ConversationInv'
<1>1. /\ BodyInv /\ SignaturesInv /\ PhaseInv
      /\ phase = "arrived" /\ body = original /\ at = 1 /\ drops = {} /\ stage = "ready"
    BY DEF ConversationInv, PhaseInv, PrepareRequest
<1>2. /\ original' = original /\ body' = body /\ at' = at /\ drops' = drops
      /\ held' = held /\ stage' = stage /\ UNCHANGED <<cached, held, buffered, upcoming>>
    BY DEF PrepareRequest, exchangeVars
<1>3. BodyInv'
    BY <1>1, <1>2 DEF BodyInv
<1>4. CASE body.tooLarge
    <2>1. phase' = "too large"
        BY <1>4 DEF PrepareRequest
    <2>2. PhaseInv'
        BY <1>1, <1>2, <2>1 DEF PhaseInv
    <2> QED
        BY <1>1, <1>2, <1>3, <2>1, <2>2, NotPreparedYet
<1>5. CASE ~body.tooLarge /\ HasCache /\ HasThinkingBlocks(body)
    <2>1. phase' = "processing"
        BY <1>5 DEF PrepareRequest
    <2> DEFINE ms == original.messages
    <2>2. /\ ms \in Seq(ChatMessages) /\ Len(ms) \in Nat
        BY BodyFields, <1>1, SetOf
    <2>3. SameTalk(ms, ms) /\ MayDrop(ms, {})
        BY DEF SameTalk, MayDrop
    <2>4. \A i \in 1 .. Len(ms) : MessageInv(original, held, 1, {}, i, ms[i], ms[i])
        BY <2>2 DEF MessageInv
    <2>5. Work(original, held, 1, {}, ms)
        BY <1>1, <1>5, <2>2, <2>3, <2>4 DEF Work
    <2>6. PhaseInv'
        BY <1>1, <1>2, <2>1, <2>5 DEF PhaseInv
    <2> QED
        BY <1>1, <1>2, <1>3, <2>1, <2>6, NotPreparedYet
<1>6. CASE ~body.tooLarge /\ ~(HasCache /\ HasThinkingBlocks(body))
    <2>1. phase' = "prepared" /\ affinity' = DetectThinkingAffinity(original)
        BY <1>1, <1>6 DEF PrepareRequest
    <2>2. HasThinkingBlocks(body) <=> HasThinkingBlocks(original)
        BY <1>1
    <2>3. PhaseInv'
        BY <1>1, <1>2, <1>6, <2>1, <2>2 DEF PhaseInv
    <2>4. SignaturesInv'
        BY <1>1, <1>2 DEF SignaturesInv
    <2>5. ConversationKept'
        BY <1>1, <1>2 DEF ConversationKept
    <2>6. AttemptFits'
        BY <1>1, <1>2 DEF AttemptFits
    <2> QED
        BY <1>3, <2>3, <2>4, <2>5, <2>6 DEF ConversationInv
<1> QED
    BY <1>4, <1>5, <1>6

\* The body with another message at one position.
LEMMA BodyWith ==
    ASSUME BodyInv, NEW i \in 1 .. Len(body.messages), NEW n \in ChatMessages,
           body' = [body EXCEPT !.messages[i] = n], original' = original
    PROVE  BodyInv' /\ body'.messages = [body.messages EXCEPT ![i] = n]
<1> DEFINE ms == [body.messages EXCEPT ![i] = n]
<1>1. original \in [messages : Seq(ChatMessages), thinking : BOOLEAN, model : STRING,
                    group : STRING, json : BOOLEAN, tooLarge : BOOLEAN,
                    markers : SUBSET {"thinking", "reasoning"}]
    BY DEF BodyInv, BodyOK
<1>2. body = [original EXCEPT !.messages = body.messages] /\ body.messages \in Seq(ChatMessages)
    BY DEF BodyInv
<1>3. ms \in Seq(ChatMessages)
    BY <1>2
<1>4. body' = [body EXCEPT !.messages = ms]
    OBVIOUS
<1> HIDE DEF ms
<1>5. body' = [original EXCEPT !.messages = ms] /\ body'.messages = ms
    BY <1>1, <1>2, <1>4
<1>6. BodyInv'
    BY <1>3, <1>5 DEF BodyInv
<1> QED
    BY <1>5, <1>6 DEF ms

\* The message that is being processed.
LEMMA AtWork ==
    ASSUME ConversationInv, phase \in {"processing", "rebuilding"}, at <= Len(body.messages)
    PROVE  /\ BodyInv /\ SignaturesInv /\ PhaseInv /\ HasCache
           /\ Work(original, held, at, drops, body.messages)
           /\ at \in 1 .. Len(original.messages) /\ at \in 1 .. Len(body.messages)
           /\ body.messages[at] = original.messages[at] /\ body.messages[at] \in ChatMessages
           /\ stage = "ready" /\ cached \in [Texts -> RawSignatures]
           /\ \A x \in ToSet(body.messages[at].blocks) : IsThinking(x) => x.text \in Texts
           /\ WouldOrphanToolResults(body.messages, at) <=> WouldOrphanToolResults(original.messages, at)
<1>1. /\ BodyInv /\ SignaturesInv /\ PhaseInv
      /\ Work(original, held, at, drops, body.messages) /\ stage = "ready"
    BY DEF ConversationInv, PhaseInv
<1>2. /\ original.messages \in Seq(ChatMessages) /\ body.messages \in Seq(ChatMessages)
      /\ Len(original.messages) \in Nat
    BY <1>1, BodyFields, SetOf
<1>3. /\ HasCache /\ at \in 1 .. Len(original.messages) + 1
      /\ SameTalk(original.messages, body.messages)
      /\ Len(body.messages) = Len(original.messages)
      /\ \A i \in 1 .. Len(original.messages) :
           MessageInv(original, held, at, drops, i, original.messages[i], body.messages[i])
    BY <1>1 DEF Work, SameTalk
<1>4. at \in 1 .. Len(original.messages)
    BY <1>2, <1>3
<1>5. body.messages[at] = original.messages[at] /\ body.messages[at] \in ChatMessages
    <2>1. at >= at
        BY <1>4
    <2> QED
        BY <1>2, <1>3, <1>4, <2>1 DEF MessageInv
<1>6. \A x \in ToSet(body.messages[at].blocks) : IsThinking(x) => x.text \in Texts
    BY <1>1, <1>4, <1>5, OriginalBlocks
<1>7. WouldOrphanToolResults(body.messages, at) <=> WouldOrphanToolResults(original.messages, at)
    BY <1>2, <1>3, <1>4, SameOrphans
<1>8. cached \in [Texts -> RawSignatures]
    BY <1>1 DEF SignaturesInv
<1> QED
    BY <1>1, <1>3, <1>4, <1>5, <1>6, <1>7, <1>8

\* The next message after the one that was rewritten.
LEMMA NextMessage ==
    ASSUME ConversationInv, phase \in {"processing", "rebuilding"}, at <= Len(body.messages),
           NEW n \in ChatMessages, n.role = body.messages[at].role,
           SaysOf(n.blocks) = SaysOf(body.messages[at].blocks),
           Processed(original, held, body.messages[at], n),
           body' = [body EXCEPT !.messages[at] = n], at' = at + 1, phase' = "processing",
           UNCHANGED <<original, drops, affinity, cached, held, buffered, upcoming, exchangeVars>>
    PROVE  ConversationInv'
<1>1. /\ BodyInv /\ SignaturesInv /\ PhaseInv
      /\ Work(original, held, at, drops, body.messages)
      /\ at \in 1 .. Len(original.messages) /\ at \in 1 .. Len(body.messages)
      /\ body.messages[at] = original.messages[at] /\ stage = "ready"
    BY AtWork
<1>2. original.messages \in Seq(ChatMessages) /\ body.messages \in Seq(ChatMessages)
    BY <1>1, BodyFields
<1>3. BodyInv' /\ body'.messages = [body.messages EXCEPT ![at] = n]
    BY <1>1, BodyWith
<1>4. Work(original, held, at + 1, drops, [body.messages EXCEPT ![at] = n])
    BY <1>1, <1>2, MessageDone
<1>5. Work(original, held, at + 1, drops, body'.messages)
    BY <1>3, <1>4
<1>6. PhaseInv'
    BY <1>1, <1>5 DEF PhaseInv, exchangeVars
<1> QED
    BY <1>1, <1>3, <1>6, NotPreparedYet

LEMMA RewrittenIsProcessed ==
    ASSUME ConversationInv, phase \in {"processing", "rebuilding"}, at <= Len(body.messages),
           Assistant(body.messages[at]),
           NEW n, n = RebuildContent(body.messages[at], SurgicalUpdate(body, body.messages[at].blocks))
    PROVE  /\ n \in ChatMessages /\ n.role = body.messages[at].role
           /\ SaysOf(n.blocks) = SaysOf(body.messages[at].blocks)
           /\ Processed(original, held, body.messages[at], n)
<1> DEFINE m == body.messages[at]
<1>1. /\ BodyInv /\ SignaturesInv /\ HasCache /\ at \in 1 .. Len(original.messages)
      /\ m = original.messages[at] /\ m \in ChatMessages
      /\ cached \in [Texts -> RawSignatures] /\ Assistant(m)
      /\ \A x \in ToSet(m.blocks) : IsThinking(x) => x.text \in Texts
    BY AtWork
<1>2. n = RebuildContent(m, SurgicalUpdate(body, m.blocks))
    OBVIOUS
<1> HIDE DEF m
<1>3. /\ n \in ChatMessages /\ n.role = m.role /\ SaysOf(n.blocks) = SaysOf(m.blocks)
      /\ n.blocks # <<>> => n.form = "blocks"
      /\ ~NeedsReorder(n.blocks)
      /\ ToSet(n.blocks) = {x \in ToSet(SurgicalUpdate(body, m.blocks)) : Signed(x)}
    <2> DEFINE k == RebuildContent(m, SurgicalUpdate(body, m.blocks))
    <2>1. /\ k \in ChatMessages /\ k.role = m.role /\ SaysOf(k.blocks) = SaysOf(m.blocks)
          /\ k.blocks # <<>> => k.form = "blocks"
          /\ ~NeedsReorder(k.blocks)
          /\ ToSet(k.blocks) = {x \in ToSet(SurgicalUpdate(body, m.blocks)) : Signed(x)}
        BY <1>1, Rebuilt
    <2>2. n = k
        BY <1>2
    <2> HIDE DEF k
    <2> QED
        BY <2>1, <2>2
<1>4. /\ Presentable(original, held, n.blocks)
      /\ \A x \in ToSet(m.blocks) : ClientSigns(original, x) => Carries(n.blocks, x)
    BY <1>1, <1>3, SignedArePresentable
<1>5. Processed(original, held, m, n)
    BY <1>1, <1>3, <1>4 DEF Processed
<1> QED
    BY <1>3, <1>5 DEF m

\* A message of which nothing is left.
LEMMA NothingSigned ==
    ASSUME ConversationInv, phase \in {"processing", "rebuilding"}, at <= Len(body.messages),
           Assistant(body.messages[at]),
           Kept(SurgicalUpdate(body, body.messages[at].blocks)) = <<>>
    PROVE  /\ SaysOf(body.messages[at].blocks) = <<>>
           /\ \A x \in ToSet(body.messages[at].blocks) : ~ClientSigns(original, x)
<1> DEFINE m == body.messages[at]
           u == SurgicalUpdate(body, m.blocks)
           c == Kept(u)
<1>1. /\ BodyInv /\ SignaturesInv /\ HasCache /\ at \in 1 .. Len(original.messages)
      /\ m = original.messages[at] /\ m \in ChatMessages
      /\ cached \in [Texts -> RawSignatures] /\ Assistant(m)
      /\ \A x \in ToSet(m.blocks) : IsThinking(x) => x.text \in Texts
    BY AtWork
<1>2. c = <<>>
    OBVIOUS
<1> HIDE DEF m, c
<1>3. SaysOf(c) = SaysOf(m.blocks) /\ ToSet(c) = {x \in ToSet(u) : Signed(x)}
    BY <1>1, Rebuilt DEF c
<1>4. <<>> \in Seq(ContentBlocks) /\ ToSet(<<>>) = {} /\ ~NeedsReorder(<<>>)
    BY DEF ToSet, NeedsReorder
<1>5. SaysOf(m.blocks) = <<>>
    <2>1. SaysOf(<<>>) = <<>>
        BY <1>4, SaysNothing
    <2> QED
        BY <1>2, <1>3, <2>1
<1>6. \A x \in ToSet(m.blocks) : ClientSigns(original, x) => Carries(<<>>, x)
    <2>1. ToSet(<<>>) = {x \in ToSet(u) : Signed(x)}
        BY <1>2, <1>3
    <2> QED
        BY <1>1, <1>4, <2>1, SignedArePresentable
<1>7. \A x : ~Carries(<<>>, x)
    BY <1>4 DEF Carries
<1> QED
    BY <1>5, <1>6, <1>7 DEF m

LEMMA RebuildKeeps ==
    ASSUME ConversationInv, Rebuild, UNCHANGED exchangeVars
    PROVE  ConversationInv'
<1> DEFINE m == body.messages[at]
           n == RebuildContent(m, SurgicalUpdate(body, m.blocks))
<1>1. /\ phase = "rebuilding" /\ at' = at + 1 /\ phase' = "processing"
      /\ body' = [body EXCEPT !.messages[at] = n]
      /\ UNCHANGED <<original, drops, affinity, cached, held, buffered, upcoming, exchangeVars>>
    BY DEF Rebuild
<1>2. at <= Len(body.messages) /\ Assistant(m)
    <2>1. /\ at \in 1 .. Len(original.messages) /\ Assistant(original.messages[at])
          /\ Work(original, held, at, drops, body.messages) /\ BodyInv
        BY <1>1 DEF ConversationInv, PhaseInv
    <2>2. /\ Len(body.messages) = Len(original.messages) /\ Len(original.messages) \in Nat
          /\ MessageInv(original, held, at, drops, at, original.messages[at], body.messages[at])
        BY <2>1, BodyFields, SetOf DEF Work, SameTalk
    <2> QED
        BY <2>1, <2>2 DEF MessageInv
<1>3. phase \in {"processing", "rebuilding"}
    BY <1>1
<1> HIDE DEF n
<1>4. /\ n \in ChatMessages /\ n.role = m.role /\ SaysOf(n.blocks) = SaysOf(m.blocks)
      /\ Processed(original, held, m, n)
    BY <1>2, <1>3, RewrittenIsProcessed DEF n
<1> QED
    BY <1>1, <1>2, <1>3, <1>4, NextMessage

LEMMA ProcessAssistantContentKeeps ==
    ASSUME ConversationInv, ProcessAssistantContent, UNCHANGED exchangeVars
    PROVE  ConversationInv'
<1> DEFINE m == body.messages[at]
           u == SurgicalUpdate(body, m.blocks)
           c == Kept(u)
<1>1. /\ phase = "processing" /\ phase \in {"processing", "rebuilding"} /\ at <= Len(body.messages)
      /\ UNCHANGED <<original, affinity, cached, held, buffered, upcoming, exchangeVars>>
    BY DEF ProcessAssistantContent
<1>2. /\ BodyInv /\ SignaturesInv /\ PhaseInv /\ HasCache
      /\ Work(original, held, at, drops, body.messages)
      /\ at \in 1 .. Len(original.messages) /\ at \in 1 .. Len(body.messages)
      /\ m = original.messages[at] /\ m \in ChatMessages /\ stage = "ready"
      /\ cached \in [Texts -> RawSignatures]
      /\ \A x \in ToSet(m.blocks) : IsThinking(x) => x.text \in Texts
      /\ WouldOrphanToolResults(body.messages, at) <=> WouldOrphanToolResults(original.messages, at)
    BY <1>1, AtWork
<1>3. original.messages \in Seq(ChatMessages) /\ body.messages \in Seq(ChatMessages)
    BY <1>2, BodyFields
<1>4. /\ [body.messages EXCEPT ![at] = m] = body.messages
      /\ [body EXCEPT !.messages[at] = m] = body
    <2>1. [body.messages EXCEPT ![at] = m] = body.messages
        BY <1>2, <1>3
    <2> DEFINE ms == body.messages
    <2>2. original \in [messages : Seq(ChatMessages), thinking : BOOLEAN, model : STRING,
                        group : STRING, json : BOOLEAN, tooLarge : BOOLEAN,
                        markers : SUBSET {"thinking", "reasoning"}]
          /\ body = [original EXCEPT !.messages = ms] /\ ms \in Seq(ChatMessages)
        BY <1>2 DEF BodyInv, BodyOK
    <2>3. [body EXCEPT !.messages = ms] = body
        BY ONLY <2>2
    <2>4. [body EXCEPT !.messages[at] = m] = [body EXCEPT !.messages = [body.messages EXCEPT ![at] = m]]
        OBVIOUS
    <2> QED
        BY <2>1, <2>3, <2>4
<1>5. CASE ~Assistant(m) /\ at' = at + 1 /\ UNCHANGED <<body, phase, drops>>
    <2>1. Processed(original, held, m, m)
        BY <1>5 DEF Processed
    <2>2. body' = [body EXCEPT !.messages[at] = m]
        BY <1>4, <1>5
    <2> QED
        BY <1>1, <1>2, <1>5, <2>1, <2>2, NextMessage
<1>6. CASE /\ Assistant(m) /\ c = <<>> /\ at' = at + 1 /\ UNCHANGED <<phase, drops>>
           /\ WouldOrphanToolResults(body.messages, at)
           /\ body' = [body EXCEPT !.messages[at] = WithBlocks(m, Placeholder)]
    <2> DEFINE n == WithBlocks(m, Placeholder)
    <2>1. /\ SaysOf(m.blocks) = <<>> /\ \A x \in ToSet(m.blocks) : ~ClientSigns(original, x)
        BY <1>1, <1>6, NothingSigned
    <2>2. /\ n \in ChatMessages /\ n.role = m.role /\ n.blocks = Placeholder /\ n.form = "blocks"
        BY <1>2, PlaceholderIs, WithBlocksIs
    <2>3. Presentable(original, held, Placeholder)
        BY PlaceholderIs DEF Presentable, IsThinking
    <2>4. Processed(original, held, m, n)
        BY <1>6, <2>1, <2>2, <2>3 DEF Processed
    <2>5. SaysOf(n.blocks) = SaysOf(m.blocks)
        BY <2>1, <2>2, ThinkingSaysNothing
    <2> HIDE DEF n
    <2>6. body' = [body EXCEPT !.messages[at] = n] /\ phase' = "processing"
        BY <1>1, <1>6 DEF n
    <2> QED
        BY <1>1, <1>6, <2>2, <2>4, <2>5, <2>6, NextMessage
<1>7. CASE /\ Assistant(m) /\ c = <<>> /\ at' = at + 1 /\ UNCHANGED phase
           /\ ~WouldOrphanToolResults(body.messages, at)
           /\ drops' = drops \cup {at} /\ UNCHANGED body
    <2>1. /\ SaysOf(m.blocks) = <<>> /\ \A x \in ToSet(m.blocks) : ~ClientSigns(original, x)
        BY <1>1, <1>7, NothingSigned
    <2>2. m.role = "assistant"
        BY <1>7 DEF Assistant
    <2>3. Work(original, held, at + 1, drops \cup {at}, body.messages)
        BY <1>2, <1>3, <1>7, <2>1, <2>2, MessageGoes
    <2>4. BodyInv'
        BY <1>1, <1>2, <1>7 DEF BodyInv
    <2>5. PhaseInv'
        BY <1>1, <1>2, <1>7, <2>3 DEF PhaseInv, exchangeVars
    <2> QED
        BY <1>1, <1>2, <1>7, <2>4, <2>5, NotPreparedYet
<1>8. CASE /\ Assistant(m) /\ c = u /\ c # <<>> /\ ~NeedsReorder(m.blocks) /\ at' = at + 1
           /\ body' = [body EXCEPT !.messages[at] = WithBlocks(m, u)]
           /\ UNCHANGED <<phase, drops>>
    <2> DEFINE n == RebuildContent(m, u)
    <2>1. n = WithBlocks(m, c)
        BY <1>2, <1>8, Rebuilt
    <2>2. body' = [body EXCEPT !.messages[at] = n] /\ phase' = "processing"
        BY <1>1, <1>8, <2>1
    <2> HIDE DEF n
    <2>3. /\ n \in ChatMessages /\ n.role = m.role /\ SaysOf(n.blocks) = SaysOf(m.blocks)
          /\ Processed(original, held, m, n)
        BY <1>1, <1>8, RewrittenIsProcessed DEF n
    <2> QED
        BY <1>1, <1>8, <2>2, <2>3, NextMessage
<1>9. CASE Assistant(m) /\ phase' = "rebuilding" /\ UNCHANGED <<body, at, drops>>
    <2>1. BodyInv'
        BY <1>1, <1>2, <1>9 DEF BodyInv
    <2>2. PhaseInv'
        BY <1>1, <1>2, <1>9 DEF PhaseInv, exchangeVars
    <2> QED
        BY <1>1, <1>2, <1>9, <2>1, <2>2, NotPreparedYet
<1> QED
    BY <1>5, <1>6, <1>7, <1>8, <1>9 DEF ProcessAssistantContent

LEMMA FinishRequestKeeps ==
    ASSUME ConversationInv, FinishRequest, UNCHANGED exchangeVars
    PROVE  ConversationInv'
<1> DEFINE ms == original.messages
           ns == body.messages
           d == DropMessages(ns, drops)
<1>1. /\ phase = "processing" /\ at > Len(ns) /\ phase' = "prepared"
      /\ body' = [body EXCEPT !.messages = d]
      /\ UNCHANGED <<original, at, drops, cached, held, buffered, upcoming, exchangeVars>>
    BY DEF FinishRequest
<1>2. /\ BodyInv /\ SignaturesInv /\ PhaseInv /\ Work(original, held, at, drops, ns)
      /\ stage = "ready"
    BY <1>1 DEF ConversationInv, PhaseInv
<1>3. ms \in Seq(ChatMessages) /\ ns \in Seq(ChatMessages) /\ Len(ms) \in Nat
    BY <1>2, BodyFields, SetOf
<1>4. /\ SameTalk(ms, ns) /\ MayDrop(ms, drops) /\ HasThinkingBlocks(original) /\ Len(ns) = Len(ms)
      /\ at \in 1 .. Len(ms) + 1
      /\ \A i \in 1 .. Len(ms) : MessageInv(original, held, at, drops, i, ms[i], ns[i])
    BY <1>2 DEF Work, SameTalk
<1>5. /\ d \in Seq(ChatMessages) /\ Substance(d) = Substance(ms)
      /\ ResultsAnswerCalls(ms) => ResultsAnswerCalls(d)
      /\ Alternating(ms) => Alternating(d)
    BY <1>3, <1>4, DropKeeps
<1>6. Picks(d, ns, (1 .. Len(ns)) \ drops)
    BY <1>3, DropPicks
<1>7. PICK p : PickedBy(p, d, ns, (1 .. Len(ns)) \ drops)
    BY <1>6 DEF Picks
<1> HIDE DEF d
<1>8. /\ p \in [1 .. Len(d) -> 1 .. Len(ms)]
      /\ \A j \in 1 .. Len(d) : d[j] = ns[p[j]] /\ p[j] \notin drops
      /\ \A i \in 1 .. Len(ms) : i \notin drops => \E j \in 1 .. Len(d) : p[j] = i
    BY <1>4, <1>7 DEF PickedBy
<1>9. \A i \in 1 .. Len(ms) : i \notin drops => Processed(original, held, ms[i], ns[i])
    BY <1>1, <1>3, <1>4 DEF MessageInv
<1>10. /\ body' = [original EXCEPT !.messages = d] /\ body'.messages = d
    <2>1. original \in [messages : Seq(ChatMessages), thinking : BOOLEAN, model : STRING,
                        group : STRING, json : BOOLEAN, tooLarge : BOOLEAN,
                        markers : SUBSET {"thinking", "reasoning"}]
          /\ body = [original EXCEPT !.messages = ns]
        BY <1>2 DEF BodyInv, BodyOK
    <2> HIDE DEF ns
    <2> QED
        BY <1>1, <2>1
<1>11. BodyInv'
    BY <1>1, <1>2, <1>5, <1>10 DEF BodyInv
<1>12. BodyPresentable(original, held, d)
    <2>1. ASSUME NEW j \in 1 .. Len(d), Assistant(d[j]) PROVE Presentable(original, held, d[j].blocks)
        <3>1. p[j] \in 1 .. Len(ms) /\ p[j] \notin drops /\ d[j] = ns[p[j]]
            BY <1>8
        <3>2. Processed(original, held, ms[p[j]], ns[p[j]])
            BY <1>9, <3>1
        <3> QED
            BY <2>1, <3>1, <3>2 DEF Processed
    <2>2. ASSUME NEW i \in 1 .. Len(ms), NEW x \in ToSet(ms[i].blocks),
                 Assistant(ms[i]), ClientSigns(original, x)
          PROVE  \E j \in 1 .. Len(d) : Assistant(d[j]) /\ Carries(d[j].blocks, x)
        <3>1. i \notin drops
            BY <1>4, <2>2 DEF MessageInv
        <3>2. PICK j \in 1 .. Len(d) : p[j] = i
            BY <1>8, <3>1
        <3>3. d[j] = ns[i]
            BY <1>8, <3>2
        <3>4. Carries(ns[i].blocks, x) /\ (ns[i].blocks # <<>> => ns[i].form = "blocks")
            BY <1>9, <2>2, <3>1 DEF Processed
        <3>5. ns[i].blocks # <<>>
            BY <3>4 DEF Carries, ToSet
        <3>6. ns[i].role = ms[i].role
            BY <1>4 DEF SameTalk
        <3> QED
            BY <2>2, <3>2, <3>3, <3>4, <3>5, <3>6 DEF Assistant
    <2> QED
        BY <2>1, <2>2 DEF BodyPresentable
<1>13. PhaseInv'
    <2> HIDE DEF ms, ns
    <2> QED
        BY <1>1, <1>4, <1>10, <1>12 DEF PhaseInv
<1>14. SignaturesInv'
    BY <1>1, <1>2 DEF SignaturesInv
<1>15. ConversationKept'
    BY <1>1, <1>5, <1>10 DEF ConversationKept
<1>16. AttemptFits'
    <2>1. stage' = "ready"
        BY <1>1, <1>2 DEF exchangeVars
    <2> QED
        BY <2>1 DEF AttemptFits
<1> QED
    BY <1>11, <1>13, <1>14, <1>15, <1>16 DEF ConversationInv

--------------------------------------------------------------------------------
(* The steps of an answer, and what the cache does by itself.                 *)

LEMMA ExpireKeeps ==
    ASSUME ConversationInv, Expire, UNCHANGED exchangeVars
    PROVE  ConversationInv'
<1>1. PICK t \in DOMAIN cached :
        /\ cached' = [cached EXCEPT ![t] = ""]
        /\ UNCHANGED <<original, body, phase, at, drops, affinity, held, upcoming, accumulated, buffered>>
    BY DEF Expire
<1>2. SignaturesInv
    BY DEF ConversationInv
<1>3. SignaturesInv'
    <2>1. "" \in RawSignatures
        BY DEF RawSignatures
    <2>2. cached' \in [Texts -> RawSignatures]
        BY <1>1, <1>2, <2>1 DEF SignaturesInv
    <2>3. \A u \in Texts : cached'[u] # "" => cached'[u] = cached[u]
        BY <1>1, <1>2 DEF SignaturesInv
    <2> QED
        BY <1>1, <1>2, <2>2, <2>3 DEF SignaturesInv
<1> QED
    BY <1>1, <1>3, BodyUntouched

LEMMA LandKeeps ==
    ASSUME ConversationInv, Land, UNCHANGED exchangeVars
    PROVE  ConversationInv'
<1>1. PICK w \in buffered :
        /\ buffered' = buffered \ {w}
        /\ \/ cached' = [t \in DOMAIN cached |-> IF t = w[1] THEN w[2] ELSE cached[t]]
           \/ UNCHANGED cached
        /\ UNCHANGED <<original, body, phase, at, drops, affinity, held, upcoming, accumulated>>
    BY DEF Land
<1>2. SignaturesInv
    BY DEF ConversationInv
<1>3. w \in held /\ w[2] \in RawSignatures /\ cached \in [Texts -> RawSignatures]
    BY <1>2 DEF SignaturesInv
<1>4. cached' \in [Texts -> RawSignatures]
    BY <1>1, <1>3
<1>5. ASSUME NEW t \in Texts, cached'[t] # "" PROVE <<t, cached'[t]>> \in held
    <2>1. CASE cached'[t] = cached[t]
        BY <1>2, <1>5, <2>1 DEF SignaturesInv
    <2>2. CASE cached'[t] # cached[t]
        <3>1. t = w[1] /\ cached'[t] = w[2]
            BY <1>1, <1>3, <2>2
        <3>2. w = <<w[1], w[2]>>
            BY <1>2 DEF SignaturesInv
        <3> QED
            BY <1>3, <3>1, <3>2
    <2> QED
        BY <2>1, <2>2
<1>6. SignaturesInv'
    BY <1>1, <1>2, <1>4, <1>5 DEF SignaturesInv
<1> QED
    BY <1>1, <1>6, BodyUntouched

LEMMA UpcomingTail ==
    ASSUME SignaturesInv, upcoming # <<>>
    PROVE  /\ Head(upcoming) \in StreamedEvents \cup Responses
           /\ Tail(upcoming) \in Seq(StreamedEvents \cup Responses)
<1> DEFINE S == StreamedEvents \cup Responses
<1>1. upcoming \in Seq(S)
    BY DEF SignaturesInv
<1> HIDE DEF S
<1>2. Head(upcoming) \in S /\ Tail(upcoming) \in Seq(S)
    BY <1>1
<1> QED
    BY <1>2 DEF S

\* Signatures on their way into the cache.
LEMMA CacheSetKeeps ==
    ASSUME ConversationInv, NEW written, CacheSet(written), UNCHANGED exchangeVars,
           \A w \in written : w[2] \in RawSignatures /\ w = <<w[1], w[2]>>,
           upcoming # <<>>, upcoming' = Tail(upcoming),
           UNCHANGED <<original, body, phase, at, drops, affinity, cached>>
    PROVE  ConversationInv'
<1>1. SignaturesInv
    BY DEF ConversationInv
<1>2. upcoming' \in Seq(StreamedEvents \cup Responses)
    BY <1>1, UpcomingTail
<1>3. SignaturesInv' /\ held \subseteq held'
    BY <1>1, <1>2 DEF SignaturesInv, CacheSet
<1> QED
    BY <1>3, BodyUntouched

LEMMA ProcessEventKeeps ==
    ASSUME ConversationInv, ProcessEvent, UNCHANGED exchangeVars
    PROVE  ConversationInv'
<1> DEFINE e == Head(upcoming)
           W == IF Cacheable(original, accumulated, e.raw) THEN {<<accumulated, e.raw>>} ELSE {}
<1>1. /\ upcoming # <<>> /\ e.type # "response" /\ upcoming' = Tail(upcoming)
      /\ UNCHANGED <<original, body, phase, at, drops, affinity, cached>>
      /\ UNCHANGED <<held, buffered>> \/ CacheSet(W)
    BY DEF ProcessEvent
<1>2. SignaturesInv
    BY DEF ConversationInv
<1>3. e.raw \in RawSignatures
    <2>1. e \in StreamedEvents \cup Responses
        BY <1>1, <1>2, UpcomingTail
    <2>2. e \notin Responses
        BY <1>1 DEF Responses
    <2> QED
        BY <2>1, <2>2 DEF StreamedEvents
<1> HIDE DEF e
<1>4. \A w \in W : w[2] \in RawSignatures /\ w = <<w[1], w[2]>>
    BY <1>3
<1> HIDE DEF W
<1>5. CASE UNCHANGED <<held, buffered>>
    <2>1. CacheSet({})
        BY <1>5 DEF CacheSet
    <2> QED
        BY <1>1, <2>1, CacheSetKeeps
<1>6. CASE CacheSet(W)
    BY <1>1, <1>4, <1>6, CacheSetKeeps
<1> QED
    BY <1>1, <1>5, <1>6

LEMMA ProcessNonStreamingResponseKeeps ==
    ASSUME ConversationInv, ProcessNonStreamingResponse, UNCHANGED exchangeVars
    PROVE  ConversationInv'
<1> DEFINE bs == Head(upcoming).blocks
           W == {<<x.text, x.raw>> : x \in
                    {y \in ToSet(bs) : Cacheable(original, y.text, y.raw)}}
<1>1. /\ upcoming # <<>> /\ Head(upcoming).type = "response" /\ upcoming' = Tail(upcoming)
      /\ CacheSet(W)
      /\ UNCHANGED <<original, body, phase, at, drops, affinity, cached>>
    BY DEF ProcessNonStreamingResponse
<1>2. SignaturesInv
    BY DEF ConversationInv
<1>3. bs \in Seq([text : Seq(STRING), raw : RawSignatures])
    <2>1. Head(upcoming) \in StreamedEvents \cup Responses
        BY <1>1, <1>2, UpcomingTail
    <2>2. Head(upcoming) \notin StreamedEvents
        BY <1>1 DEF StreamedEvents
    <2> QED
        BY <2>1, <2>2 DEF Responses
<1> HIDE DEF bs
<1>4. \A x \in ToSet(bs) : x.raw \in RawSignatures
    <2> DEFINE R == [text : Seq(STRING), raw : RawSignatures]
    <2>1. \A x \in R : x.raw \in RawSignatures
        OBVIOUS
    <2>2. bs \in Seq(R)
        BY <1>3
    <2> HIDE DEF R
    <2>3. ToSet(bs) = {bs[k] : k \in 1 .. Len(bs)} /\ \A k \in 1 .. Len(bs) : bs[k] \in R
        BY <2>2, SetOf
    <2> QED
        BY <2>1, <2>3
<1>5. \A w \in W : w[2] \in RawSignatures /\ w = <<w[1], w[2]>>
    BY <1>4
<1> HIDE DEF W
<1> QED
    BY <1>1, <1>5, CacheSetKeeps

--------------------------------------------------------------------------------
(* Attempts.                                                                  *)

LEMMA EmptySaysNothing == SaysOf(<<>>) = <<>> /\ <<>> \in Seq(ContentBlocks)
<1>1. <<>> \in Seq(ContentBlocks) /\ ToSet(<<>>) = {}
    BY DEF ToSet
<1> QED
    BY <1>1, SaysNothing

LEMMA StrippedMessage ==
    ASSUME NEW ms \in Seq(ChatMessages), NEW i \in 1 .. Len(ms)
    PROVE  LET n == StripMessage(ms, i)
           IN  /\ n \in ChatMessages /\ n.role = ms[i].role /\ ~n.reasoning
               /\ SaysOf(n.blocks) = SaysOf(ms[i].blocks)
               /\ i \notin StripDrops(ms) /\ Assistant(n) =>
                    \A x \in ToSet(n.blocks) : ~IsThinking(x)
<1> DEFINE m == [ms[i] EXCEPT !.reasoning = FALSE]
           others == Others(m.blocks)
           n == StripMessage(ms, i)
<1>1. ms[i] \in ChatMessages /\ i \in DOMAIN ms
    BY MessageFields, SetOf
<1>2. /\ m \in ChatMessages /\ m.role = ms[i].role /\ m.blocks = ms[i].blocks
      /\ m.form = ms[i].form /\ ~m.reasoning /\ m.blocks \in Seq(ContentBlocks)
    BY <1>1 DEF ChatMessages
<1>3. n = IF ~Assistant(m) \/ others = m.blocks THEN m
          ELSE IF others # <<>> THEN WithBlocks(m, others)
          ELSE IF WouldOrphanToolResults(ms, i) THEN WithBlocks(m, Placeholder)
          ELSE m
    BY DEF StripMessage
<1> HIDE DEF m
<1>4. /\ others \in Seq(ContentBlocks) /\ SaysOf(others) = SaysOf(m.blocks)
      /\ \A x \in ToSet(others) : ~IsThinking(x)
    BY <1>2, ChosenBlocks, SaysTheSame DEF Other
<1>5. others = Others(ms[i].blocks) /\ (Assistant(ms[i]) <=> Assistant(m))
    BY <1>2 DEF Assistant
<1> HIDE DEF others, n
<1>6. CASE ~Assistant(m) \/ others = m.blocks
    BY <1>2, <1>3, <1>4, <1>6 DEF n
<1>7. CASE Assistant(m) /\ others # m.blocks /\ others # <<>>
    <2>1. n = WithBlocks(m, others)
        BY <1>3, <1>7
    <2>2. /\ n \in ChatMessages /\ n.role = m.role /\ n.blocks = others /\ n.reasoning = m.reasoning
        BY <1>2, <1>4, <2>1, WithBlocksIs
    <2> QED
        BY <1>2, <1>4, <2>2 DEF n
<1>8. CASE Assistant(m) /\ others # m.blocks /\ others = <<>> /\ WouldOrphanToolResults(ms, i)
    <2>1. n = WithBlocks(m, Placeholder)
        BY <1>3, <1>8
    <2>2. /\ n \in ChatMessages /\ n.role = m.role /\ n.blocks = Placeholder /\ n.reasoning = m.reasoning
        BY <1>2, <2>1, PlaceholderIs, WithBlocksIs
    <2>3. SaysOf(n.blocks) = <<>> /\ SaysOf(m.blocks) = <<>>
        BY <1>4, <1>8, <2>2, ThinkingSaysNothing, EmptySaysNothing
    <2>4. \A x \in ToSet(Placeholder) : ~IsThinking(x)
        BY PlaceholderIs DEF IsThinking
    <2> QED
        BY <1>2, <2>2, <2>3, <2>4 DEF n
<1>9. CASE Assistant(m) /\ others # m.blocks /\ others = <<>> /\ ~WouldOrphanToolResults(ms, i)
    <2>1. n = m
        BY <1>3, <1>9
    <2>2. i \in StripDrops(ms)
        BY <1>1, <1>2, <1>5, <1>9 DEF StripDrops
    <2> QED
        BY <1>2, <2>1, <2>2 DEF n
<1> QED
    BY <1>6, <1>7, <1>8, <1>9

LEMMA StripMayDrop ==
    ASSUME NEW ms \in Seq(ChatMessages)
    PROVE  MayDrop(ms, StripDrops(ms))
<1> SUFFICES ASSUME NEW i \in StripDrops(ms)
             PROVE  /\ i \in 1 .. Len(ms) /\ ms[i].role = "assistant" /\ SaysOf(ms[i].blocks) = <<>>
                    /\ ~WouldOrphanToolResults(ms, i)
    BY DEF MayDrop
<1>1. /\ i \in 1 .. Len(ms) /\ Assistant(ms[i]) /\ Others(ms[i].blocks) = <<>>
      /\ ~WouldOrphanToolResults(ms, i)
    BY SetOf DEF StripDrops
<1>2. ms[i].blocks \in Seq(ContentBlocks)
    BY <1>1, MessageFields
<1>3. SaysOf(ms[i].blocks) = <<>>
    BY <1>1, <1>2, SaysTheSame, EmptySaysNothing
<1> QED
    BY <1>1, <1>3 DEF Assistant

LEMMA Stripped ==
    ASSUME NEW ms \in Seq(ChatMessages),
           \A i \in 1 .. Len(ms) : ms[i].reasoning => ms[i].role = "assistant"
    PROVE  /\ StripMessages(ms) \in Seq(ChatMessages)
           /\ Substance(StripMessages(ms)) = Substance(ms)
           /\ ResultsAnswerCalls(ms) => ResultsAnswerCalls(StripMessages(ms))
           /\ Alternating(ms) => Alternating(StripMessages(ms))
           /\ \A j \in 1 .. Len(StripMessages(ms)) :
                /\ ~StripMessages(ms)[j].reasoning
                /\ Assistant(StripMessages(ms)[j]) =>
                     \A x \in ToSet(StripMessages(ms)[j].blocks) : ~IsThinking(x)
<1> DEFINE n == Len(ms)
           F(i) == IF ms[i].role = "assistant" THEN StripMessage(ms, i) ELSE ms[i]
           ns == [i \in DOMAIN ms |-> F(i)]
           D == StripDrops(ms)
           d == DropMessages(ns, D)
<1>1. n \in Nat /\ DOMAIN ms = 1 .. n
    BY SetOf
<1>2. StripMessages(ms) = d
    BY DEF StripMessages
<1>3. ASSUME NEW i \in 1 .. n
      PROVE  /\ F(i) \in ChatMessages /\ F(i).role = ms[i].role /\ ~F(i).reasoning
             /\ SaysOf(F(i).blocks) = SaysOf(ms[i].blocks)
             /\ i \notin D /\ Assistant(F(i)) => \A x \in ToSet(F(i).blocks) : ~IsThinking(x)
    <2>1. CASE ms[i].role = "assistant"
        BY <2>1, StrippedMessage
    <2>2. CASE ms[i].role # "assistant"
        BY <2>2, MessageFields DEF Assistant
    <2> QED
        BY <2>1, <2>2
<1>4. ns = [i \in 1 .. n |-> F(i)]
    BY <1>1
<1> HIDE DEF F, ns, n, d
<1>5. ns \in Seq(ChatMessages) /\ Len(ns) = n /\ \A i \in 1 .. n : ns[i] = F(i)
    BY <1>1, <1>3, <1>4
<1>6. SameTalk(ms, ns)
    BY <1>3, <1>5 DEF SameTalk, n
<1>7. MayDrop(ms, D)
    BY StripMayDrop
<1> HIDE DEF D
<1>8. /\ d \in Seq(ChatMessages) /\ Substance(d) = Substance(ms)
      /\ ResultsAnswerCalls(ms) => ResultsAnswerCalls(d)
      /\ Alternating(ms) => Alternating(d)
    BY <1>5, <1>6, <1>7, DropKeeps DEF d
<1>9. Picks(d, ns, (1 .. Len(ns)) \ D)
    BY <1>5, DropPicks DEF d
<1>10. PICK p : PickedBy(p, d, ns, (1 .. Len(ns)) \ D)
    BY <1>9 DEF Picks
<1>11. \A j \in 1 .. Len(d) : p[j] \in 1 .. n /\ p[j] \notin D /\ d[j] = ns[p[j]]
    BY <1>5, <1>10 DEF PickedBy
<1>12. ASSUME NEW j \in 1 .. Len(d)
       PROVE  /\ ~d[j].reasoning
              /\ Assistant(d[j]) => \A x \in ToSet(d[j].blocks) : ~IsThinking(x)
    <2>1. p[j] \in 1 .. n /\ p[j] \notin D /\ d[j] = F(p[j])
        BY <1>5, <1>11
    <2> QED
        BY <1>3, <2>1
<1> QED
    BY <1>2, <1>8, <1>12

\* The body that an attempt starts from.
LEMMA BodyToUseFits ==
    ASSUME ConversationInv, phase = "prepared"
    PROVE  /\ BodyToUse \in [messages : Seq(ChatMessages), thinking : BOOLEAN, model : STRING,
                             group : STRING, json : BOOLEAN, tooLarge : BOOLEAN,
                             markers : SUBSET {"thinking", "reasoning"}]
           /\ BodyToUse.model = original.model /\ BodyToUse.json = original.json
           /\ attempt > 1 /\ affinity /\ original.markers # {} => Free(BodyToUse)
           /\ Substance(BodyToUse.messages) = Substance(original.messages)
           /\ Alternating(original.messages) => Alternating(BodyToUse.messages)
           /\ ResultsAnswerCalls(original.messages) => ResultsAnswerCalls(BodyToUse.messages)
<1> DEFINE R == [messages : Seq(ChatMessages), thinking : BOOLEAN, model : STRING,
                 group : STRING, json : BOOLEAN, tooLarge : BOOLEAN,
                 markers : SUBSET {"thinking", "reasoning"}]
           ms == original.messages
<1>1. /\ BodyInv /\ original \in R /\ ms \in Seq(ChatMessages)
    BY BodyFields DEF ConversationInv, PhaseInv, BodyInv, BodyOK
<1>2. CASE attempt > 1 /\ affinity /\ original.markers # {}
    <2> DEFINE ss == StripMessages(ms)
    <2>1. BodyToUse = [original EXCEPT !.thinking = FALSE, !.messages = ss]
        <3>1. HasThinkingBlocks(original) \/ "reasoning" \in original.markers
            BY <1>1, <1>2 DEF HasThinkingBlocks
        <3> QED
            BY <1>2, <3>1 DEF BodyToUse, StripThinkingForProviderSwitch
    <2>2. \A i \in 1 .. Len(ms) : ms[i].reasoning => ms[i].role = "assistant"
        <3>1. DOMAIN ms = 1 .. Len(ms)
            BY <1>1, SetOf
        <3> QED
            BY <1>1, <3>1 DEF BodyInv, BodyOK
    <2>3. /\ ss \in Seq(ChatMessages) /\ Substance(ss) = Substance(ms)
          /\ ResultsAnswerCalls(ms) => ResultsAnswerCalls(ss)
          /\ Alternating(ms) => Alternating(ss)
          /\ \A j \in 1 .. Len(ss) :
               /\ ~ss[j].reasoning
               /\ Assistant(ss[j]) => \A x \in ToSet(ss[j].blocks) : ~IsThinking(x)
        BY <1>1, <2>2, Stripped
    <2> HIDE DEF ss
    <2>4. /\ BodyToUse \in R /\ BodyToUse.model = original.model /\ BodyToUse.json = original.json
          /\ BodyToUse.messages = ss /\ BodyToUse.thinking = FALSE
        BY <1>1, <2>1, <2>3
    <2>5. Free(BodyToUse)
        <3>1. /\ DOMAIN ss = 1 .. Len(ss) /\ ToSet(ss) = {ss[j] : j \in 1 .. Len(ss)}
            BY <2>3, SetOf
        <3>2. \A m \in ToSet(ss) : Assistant(m) => \A x \in ToSet(m.blocks) : ~IsThinking(x)
            BY <2>3, <3>1
        <3>3. \A m \in ToSet(ss) : Assistant(m) =>
                {m.blocks[k] : k \in {j \in DOMAIN m.blocks : IsThinking(m.blocks[j])}} = {}
            BY <3>2 DEF ToSet
        <3>4. Thoughts(BodyToUse) = {}
            BY <2>4, <3>3 DEF Thoughts
        <3> QED
            BY <2>3, <2>4, <3>1, <3>4 DEF Free
    <2> QED
        BY <2>3, <2>4, <2>5
<1>3. CASE ~(attempt > 1 /\ affinity)
    <2>1. BodyToUse = body
        BY <1>3 DEF BodyToUse
    <2>2. body \in R /\ body.model = original.model /\ body.json = original.json
        <3>1. body = [original EXCEPT !.messages = body.messages] /\ body.messages \in Seq(ChatMessages)
            BY <1>1 DEF BodyInv
        <3> QED
            BY <1>1, <3>1
    <2>3. /\ Substance(body.messages) = Substance(ms)
          /\ Alternating(ms) => Alternating(body.messages)
          /\ ResultsAnswerCalls(ms) => ResultsAnswerCalls(body.messages)
        BY DEF ConversationInv, ConversationKept
    <2> QED
        BY <1>3, <2>1, <2>2, <2>3
<1>4. CASE attempt > 1 /\ affinity /\ original.markers = {}
    <2>1. BodyToUse = original
        BY <1>4 DEF BodyToUse, StripThinkingForProviderSwitch, HasThinkingBlocks
    <2> QED
        BY <1>1, <1>4, <2>1
<1> QED
    BY <1>2, <1>3, <1>4

LEMMA SendKeeps ==
    ASSUME ConversationInv, Send
    PROVE  ConversationInv'
<1> DEFINE b == BodyToUse
           R == [messages : Seq(ChatMessages), thinking : BOOLEAN, model : STRING,
                 group : STRING, json : BOOLEAN, tooLarge : BOOLEAN,
                 markers : SUBSET {"thinking", "reasoning"}]
           r == RewriteModel(Provider, b)
           out == TransformRequest(Provider, r)
<1>1. /\ phase = "prepared" /\ stage' = "sent"
      /\ sent' = [to |-> Provider, body |-> out.body, url |-> out.url]
      /\ UNCHANGED <<attempt, thinkingVars>>
    BY DEF Send
<1>2. /\ b \in R /\ b.model = original.model /\ b.json = original.json
      /\ attempt > 1 /\ affinity /\ original.markers # {} => Free(b)
      /\ Substance(b.messages) = Substance(original.messages)
      /\ Alternating(original.messages) => Alternating(b.messages)
      /\ ResultsAnswerCalls(original.messages) => ResultsAnswerCalls(b.messages)
    BY <1>1, BodyToUseFits
<1> HIDE DEF b
<1>3. ASSUME original.json
      PROVE  /\ out.body.messages = b.messages /\ out.body.thinking = b.thinking
             /\ Provider \in Cloud =>
                  /\ out.url = <<"model", Mapped(Provider, Mapped(Provider, original.model))>>
                  /\ out.body.model = ""
             /\ Provider \notin Cloud =>
                  out.url = <<"static">> /\ out.body.model = Mapped(Provider, original.model)
    <2>1. r = [b EXCEPT !.model = Mapped(Provider, original.model)]
        BY <1>2, <1>3 DEF RewriteModel
    <2> HIDE DEF r
    <2>2. /\ r.messages = b.messages /\ r.thinking = b.thinking /\ r.json
          /\ r.model = Mapped(Provider, original.model) /\ DOMAIN r = DOMAIN b
        BY <1>2, <1>3, <2>1
    <2>3. CASE Provider \in Cloud
        <3> DEFINE q == [r EXCEPT !.model = ""]
                   url == <<"model", Mapped(Provider, r.model)>>
        <3>1. out = [url |-> url, body |-> q]
            BY <2>2, <2>3 DEF TransformRequest
        <3>2. q.messages = r.messages /\ q.thinking = r.thinking /\ q.model = ""
            BY <1>2, <2>2
        <3>3. url = <<"model", Mapped(Provider, Mapped(Provider, original.model))>>
            BY <2>2
        <3> HIDE DEF q, url
        <3>4. out.url = url /\ out.body = q
            BY <3>1
        <3> HIDE DEF out
        <3> QED
            BY <2>2, <2>3, <3>2, <3>3, <3>4
    <2>4. CASE Provider \notin Cloud
        <3>1. out = [url |-> <<"static">>, body |-> r]
            BY <2>4 DEF TransformRequest
        <3>2. out.url = <<"static">> /\ out.body = r
            BY <3>1
        <3> HIDE DEF out
        <3> QED
            BY <2>2, <2>4, <3>2
    <2> QED
        BY <2>3, <2>4
<1> HIDE DEF out
<1>4. /\ original' = original /\ affinity' = affinity /\ attempt' = attempt
      /\ sent'.to = Provider /\ sent'.body = out.body /\ sent'.url = out.url
    BY <1>1 DEF thinkingVars
<1>5. ASSUME original.json, attempt > 1, affinity, original.markers # {} PROVE Free(out.body)
    <2>1. out.body.messages = b.messages /\ out.body.thinking = b.thinking /\ Free(b)
        BY <1>2, <1>3, <1>5
    <2>2. Thoughts(out.body) = Thoughts(b)
        BY <2>1 DEF Thoughts
    <2> QED
        BY <2>1, <2>2 DEF Free
<1>6. AttemptFits'
    BY <1>2, <1>3, <1>4, <1>5 DEF AttemptFits
<1>7. BodyInv' /\ SignaturesInv' /\ ConversationKept'
    BY <1>1 DEF ConversationInv, thinkingVars, BodyInv, SignaturesInv, ConversationKept
<1>8. PhaseInv'
    BY <1>1 DEF ConversationInv, thinkingVars, PhaseInv
<1> QED
    BY <1>6, <1>7, <1>8 DEF ConversationInv

--------------------------------------------------------------------------------
(* The conversation through the whole exchange.                               *)

LEMMA InitConversation == Init => ConversationInv
<1> SUFFICES ASSUME Init PROVE ConversationInv
    OBVIOUS
<1>1. PICK s \in Scenarios : ThinkingInit(s.body, s.entries, s.upcoming) /\ stage = "ready"
    BY DEF Init
<1>2. /\ BodyOK(s.body) /\ s.entries \in [Texts -> RawSignatures]
      /\ s.upcoming \in Seq(StreamedEvents \cup Responses)
    BY ExchangeAssumption
<1>3. /\ original = s.body /\ body = original /\ phase = "arrived" /\ at = 1 /\ drops = {}
      /\ cached = s.entries /\ upcoming = s.upcoming /\ buffered = {}
      /\ held = {<<t, cached[t]>> : t \in {u \in Texts : cached[u] # ""}}
    BY <1>1 DEF ThinkingInit
<1>4. BodyInv
    <2>1. BodyOK(original)
        BY <1>2, <1>3
    <2>2. original \in [messages : Seq(ChatMessages), thinking : BOOLEAN, model : STRING,
                        group : STRING, json : BOOLEAN, tooLarge : BOOLEAN,
                        markers : SUBSET {"thinking", "reasoning"}]
        BY <2>1 DEF BodyOK
    <2>3. original.messages \in Seq(ChatMessages)
          /\ original = [original EXCEPT !.messages = original.messages]
        BY ONLY <2>2
    <2> QED
        BY <1>3, <2>1, <2>3 DEF BodyInv
<1>5. SignaturesInv
    BY <1>2, <1>3 DEF SignaturesInv
<1>6. PhaseInv
    BY <1>1, <1>3 DEF PhaseInv
<1>7. ConversationKept /\ AttemptFits
    BY <1>1, <1>3 DEF ConversationKept, AttemptFits
<1> QED
    BY <1>4, <1>5, <1>6, <1>7 DEF ConversationInv

LEMMA ThinkingStep ==
    ASSUME ConversationInv, ThinkingNext, UNCHANGED exchangeVars
    PROVE  ConversationInv'
<1>1. CASE PrepareRequest
    BY <1>1, PrepareRequestKeeps
<1>2. CASE ProcessAssistantContent
    BY <1>2, ProcessAssistantContentKeeps
<1>3. CASE Rebuild
    BY <1>3, RebuildKeeps
<1>4. CASE FinishRequest
    BY <1>4, FinishRequestKeeps
<1>5. CASE ProcessEvent
    BY <1>5, ProcessEventKeeps
<1>6. CASE ProcessNonStreamingResponse
    BY <1>6, ProcessNonStreamingResponseKeeps
<1>7. CASE Expire
    BY <1>7, ExpireKeeps
<1>8. CASE Land
    BY <1>8, LandKeeps
<1> QED
    BY <1>1, <1>2, <1>3, <1>4, <1>5, <1>6, <1>7, <1>8 DEF ThinkingNext

\* Steps that send nothing and leave the body alone.
LEMMA AnswerStep ==
    ASSUME ConversationInv, UNCHANGED thinkingVars,
           UNCHANGED exchangeVars \/ Refused \/ Accepted
    PROVE  ConversationInv'
<1>1. SignaturesInv' /\ held' = held
    BY DEF ConversationInv, SignaturesInv, thinkingVars
<1>2. CASE UNCHANGED exchangeVars
    BY <1>1, <1>2, BodyUntouched DEF thinkingVars
<1>3. CASE Refused \/ Accepted
    <2>1. stage = "sent" /\ stage' # "sent"
        BY <1>3 DEF Refused, Accepted
    <2>2. BodyInv' /\ ConversationKept'
        BY DEF ConversationInv, thinkingVars, BodyInv, ConversationKept
    <2>3. PhaseInv'
        BY <2>1 DEF ConversationInv, thinkingVars, PhaseInv
    <2>4. AttemptFits'
        BY <2>1 DEF AttemptFits
    <2> QED
        BY <1>1, <2>2, <2>3, <2>4 DEF ConversationInv
<1> QED
    BY <1>2, <1>3

LEMMA StepConversation == ConversationInv /\ [Next]_vars => ConversationInv'
<1> SUFFICES ASSUME ConversationInv, [Next]_vars PROVE ConversationInv'
    OBVIOUS
<1>1. CASE ThinkingNext /\ UNCHANGED <<streamVars, exchangeVars>>
    BY <1>1, ThinkingStep
<1>2. CASE Send
    BY <1>2, SendKeeps
<1>3. CASE Refused \/ Accepted
    <2>1. UNCHANGED thinkingVars
        BY <1>3 DEF Refused, Accepted
    <2> QED
        BY <1>3, <2>1, AnswerStep
<1>4. CASE StreamNext /\ UNCHANGED <<thinkingVars, exchangeVars>>
    BY <1>4, AnswerStep
<1>5. CASE UNCHANGED vars
    BY <1>5, AnswerStep DEF vars
<1> QED
    BY <1>1, <1>2, <1>3, <1>4, <1>5 DEF Next

\* Element by element, what was prepared is what ThinkingPresentable asks for.
LEMMA ThoughtsAre ==
    ASSUME NEW b, b.messages \in Seq(ChatMessages)
    PROVE  \A t : t \in Thoughts(b) <=>
             \E i \in 1 .. Len(b.messages) :
                 /\ Assistant(b.messages[i]) /\ t \in ToSet(b.messages[i].blocks) /\ IsThinking(t)
<1>1. ToSet(b.messages) = {b.messages[i] : i \in 1 .. Len(b.messages)}
    BY SetOf
<1> DEFINE T(m) == {m.blocks[k] : k \in {j \in DOMAIN m.blocks : IsThinking(m.blocks[j])}}
<1>2. \A m : \A t : t \in T(m) <=> t \in ToSet(m.blocks) /\ IsThinking(t)
    BY DEF ToSet
<1>3. Thoughts(b) = UNION {T(m) : m \in {n \in ToSet(b.messages) : Assistant(n)}}
    BY DEF Thoughts
<1> HIDE DEF T
<1>4. \A t : t \in Thoughts(b) <=> \E m \in ToSet(b.messages) : Assistant(m) /\ t \in T(m)
    BY <1>3
<1> QED
    BY <1>1, <1>2, <1>4

LEMMA PreparedIsPresentable == ConversationInv => ThinkingPresentable
<1> SUFFICES ASSUME ConversationInv, phase = "prepared", HasCache, HasThinkingBlocks(original)
             PROVE  /\ \A i \in DOMAIN body.messages :
                         Assistant(body.messages[i]) =>
                             /\ ~NeedsReorder(body.messages[i].blocks)
                             /\ \A k \in DOMAIN body.messages[i].blocks :
                                  body.messages[i].blocks[k].type = "tool_use" =>
                                      ~body.messages[i].blocks[k].sig.there
                    /\ LET sentSigned == {<<t.text, t.sig.raw>> : t \in Thoughts(body)}
                       IN  /\ \A t \in Thoughts(body) : t.sig = Bare(t.sig.raw) /\ t.sig.raw # ""
                           /\ sentSigned \subseteq ClientSigned \cup held
                           /\ ClientSigned \subseteq sentSigned
    BY DEF ThinkingPresentable
<1> DEFINE ms == body.messages
<1>1. BodyInv /\ BodyPresentable(original, held, ms)
    BY DEF ConversationInv, PhaseInv
<1>2. /\ ms \in Seq(ChatMessages) /\ original.messages \in Seq(ChatMessages)
      /\ DOMAIN ms = 1 .. Len(ms)
    BY <1>1, BodyFields, SetOf
<1>3. \A t : t \in Thoughts(body) <=>
        \E i \in 1 .. Len(ms) : Assistant(ms[i]) /\ t \in ToSet(ms[i].blocks) /\ IsThinking(t)
    BY <1>2, ThoughtsAre
<1>4. \A t : t \in Thoughts(original) <=>
        \E i \in 1 .. Len(original.messages) :
            /\ Assistant(original.messages[i]) /\ t \in ToSet(original.messages[i].blocks)
            /\ IsThinking(t)
    BY <1>2, ThoughtsAre
<1>5. \A t : t \in Thoughts(original) /\ ClientSigns(original, t)
               => <<t.text, t.sig.raw>> \in ClientSigned
    BY DEF ClientSigned, ClientSigns
<1>6. ASSUME NEW c \in ClientSigned
      PROVE  \E t \in Thoughts(original) : ClientSigns(original, t) /\ c = <<t.text, t.sig.raw>>
    BY <1>4 DEF ClientSigned, ClientSigns
<1>7. ASSUME NEW i \in DOMAIN ms, Assistant(ms[i])
      PROVE  /\ ~NeedsReorder(ms[i].blocks)
             /\ \A k \in DOMAIN ms[i].blocks :
                  ms[i].blocks[k].type = "tool_use" => ~ms[i].blocks[k].sig.there
    <2>1. Presentable(original, held, ms[i].blocks)
        BY <1>1, <1>2, <1>7 DEF BodyPresentable
    <2> QED
        BY <2>1 DEF Presentable, ToSet
<1>8. ASSUME NEW t \in Thoughts(body)
      PROVE  /\ t.sig = Bare(t.sig.raw) /\ t.sig.raw # ""
             /\ <<t.text, t.sig.raw>> \in ClientSigned \cup held
    <2>1. PICK i \in 1 .. Len(ms) : Assistant(ms[i]) /\ t \in ToSet(ms[i].blocks) /\ IsThinking(t)
        BY <1>3
    <2>2. Presentable(original, held, ms[i].blocks)
        BY <1>1, <2>1 DEF BodyPresentable
    <2>3. /\ t.sig = Bare(t.sig.raw) /\ t.sig.raw # ""
          /\ Vouched(original, t.text, t.sig.raw) \/ <<t.text, t.sig.raw>> \in held
        BY <2>1, <2>2 DEF Presentable
    <2>4. ASSUME Vouched(original, t.text, t.sig.raw) PROVE <<t.text, t.sig.raw>> \in ClientSigned
        <3>1. PICK j \in 1 .. Len(original.messages) :
                /\ Assistant(original.messages[j])
                /\ \E z \in ToSet(original.messages[j].blocks) :
                     ClientSigns(original, z) /\ z.text = t.text /\ z.sig.raw = t.sig.raw
            BY <2>4 DEF Vouched
        <3>2. PICK z \in ToSet(original.messages[j].blocks) :
                ClientSigns(original, z) /\ z.text = t.text /\ z.sig.raw = t.sig.raw
            BY <3>1
        <3>3. z \in Thoughts(original)
            BY <1>4, <3>1, <3>2 DEF ClientSigns
        <3>4. <<z.text, z.sig.raw>> \in ClientSigned
            BY <1>5, <3>2, <3>3
        <3> QED
            BY <3>2, <3>4
    <2> QED
        BY <2>3, <2>4
<1>9. ASSUME NEW c \in ClientSigned
      PROVE  \E t \in Thoughts(body) : c = <<t.text, t.sig.raw>>
    <2>1. PICK x \in Thoughts(original) : ClientSigns(original, x) /\ c = <<x.text, x.sig.raw>>
        BY <1>6
    <2>2. PICK i \in 1 .. Len(original.messages) :
            Assistant(original.messages[i]) /\ x \in ToSet(original.messages[i].blocks)
        BY <1>4
    <2>3. PICK j \in 1 .. Len(ms) : Assistant(ms[j]) /\ Carries(ms[j].blocks, x)
        BY <1>1, <2>1, <2>2 DEF BodyPresentable
    <2>4. PICK y \in ToSet(ms[j].blocks) : IsThinking(y) /\ y.text = x.text /\ y.sig.raw = x.sig.raw
        BY <2>3 DEF Carries
    <2>5. y \in Thoughts(body)
        BY <1>3, <2>3, <2>4
    <2> QED
        BY <2>1, <2>4, <2>5
<1> QED
    BY <1>7, <1>8, <1>9

\* What is being done to a conversation, in every state of every exchange.
THEOREM ConversationInvariant == Spec => []ConversationInv
<1> QED
    BY InitConversation, StepConversation, PTL DEF Spec

\* Preparing a request loses nothing but thinking, no result loses its call, and no two
\* messages of one side meet that did not (ProcessRequestThinking, dropMessagesByIndex).
THEOREM ConversationKeptHolds == Spec => []ConversationKept
<1>1. ConversationInv => ConversationKept
    BY DEF ConversationInv
<1> QED
    BY <1>1, ConversationInvariant, PTL

\* Every thinking block that is sent is first and signed, by the client or by an entry the
\* cache had for that text, and no valid signature of the client is lost
\* (resolveThinkingSignature, rebuildContent).
THEOREM ThinkingPresentableHolds == Spec => []ThinkingPresentable
<1> QED
    BY ConversationInvariant, PreparedIsPresentable, PTL

\* Every attempt is made for its own provider and from the client's conversation
\* (StripThinkingForProviderSwitch, ModelRewriter, TransformRequest).
THEOREM AttemptFitsHolds == Spec => []AttemptFits
<1>1. ConversationInv => AttemptFits
    BY DEF ConversationInv
<1> QED
    BY <1>1, ConversationInvariant, PTL

================================================================================
