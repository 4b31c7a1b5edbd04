--------------------------------- MODULE Cache ---------------------------------
(***************************************************************************)
(* internal/cache: the factory that makes one of the three backends, and   *)
(* the calls of many goroutines on it while the container's shutdown       *)
(* closes it. Ristretto and Olric are external: Ristretto buffers its      *)
(* writes, makes them later and may drop them; a key may go at any time; a *)
(* call on Olric may fail, and what it wrote may still arrive.             *)
(***************************************************************************)
EXTENDS Naturals, FiniteSets

CONSTANTS
    Callers,   \* goroutines that use the cache
    Keys,
    Values,
    Nothing,   \* no value, no call
    MaxLate,   \* bound: equal writes that a backend holds back; further ones are dropped
    Configs    \* the configurations that the factory may be given

VARIABLES
    config,    \* the cache configuration
    factory,   \* where it is: "new", "node", "dmap", then "open" or "failed"
    backend,   \* external: "none", "starting", "up", "down" (ended by itself), "shut",
               \* "stuck" (it was to be shut, and said that it failed)
    store,     \* external: [Keys -> Values \cup {Nothing}]
    late,      \* external: [Keys -> [Values -> the writes that are still to be made]]
    closed,    \* the flag of ristrettoCache, olricCache or noopCache
    readers,   \* the callers that hold mu for reading
    writer,    \* the caller that waits for mu, or holds it, for writing
    pc,        \* [Callers -> place in the call]
    call,      \* [Callers -> the call that is made, or Nothing]
    reply      \* [Callers -> what the last call returned, until the next]

factoryVars == <<config, factory>>
muVars == <<readers, writer>>
cacheVars == <<factoryVars, backend, store, late, closed, muVars, pc, call, reply>>

Contract == INSTANCE CacheContract WITH
                content <- store, eager <- config.mode = "ha", open <- ~closed, pending <- call

Call == Contract!Call
Just(status) == Contract!Just(status)

ASSUME CacheAssumption ==
    /\ Nothing \notin Call /\ Nothing \notin Values /\ Nothing \notin Callers
    /\ MaxLate \in Nat

Places == {"idle", "first", "rlock", "second", "backend", "lock", "drain", "close2", "shut",
           "store", "stored"}

CacheTypeOK ==
    /\ config \in Configs
    /\ factory \in {"new", "node", "dmap", "open", "failed"}
    /\ backend \in {"none", "starting", "up", "down", "shut", "stuck"}
    /\ store \in [Keys -> Values \cup {Nothing}]
    /\ late \in [Keys -> [Values -> Nat]]
    /\ closed \in BOOLEAN
    /\ readers \subseteq Callers
    /\ writer \in Callers \cup {Nothing}
    /\ pc \in [Callers -> Places]
    /\ call \in [Callers -> Call \cup {Nothing}]
    /\ reply \in [Callers -> Contract!Reply]

CacheInit ==
    /\ config \in Configs
    /\ factory = "new"
    /\ backend = "none"
    /\ store = [k \in Keys |-> Nothing]
    /\ late = [k \in Keys |-> [v \in Values |-> 0]]
    /\ closed = FALSE
    /\ readers = {}
    /\ writer = Nothing
    /\ pc = [c \in Callers |-> "idle"]
    /\ call = [c \in Callers |-> Nothing]
    /\ reply = [c \in Callers |-> Just("none")]

--------------------------------------------------------------------------------
(* The factory. *)

ValidOlric(o) ==
    /\ IF o.embedded THEN o.bindAddr ELSE o.addresses
    /\ o.environment
    /\ \A quorum \in {o.readQuorum, o.writeQuorum} :
          quorum > 0 /\ o.replicas > 0 => quorum <= o.replicas

Valid(c) ==
    \/ c.mode = "single" /\ c.sized
    \/ c.mode = "ha" /\ ValidOlric(c.olric)
    \/ c.mode = "disabled"

Embedded == config.mode = "ha" /\ config.olric.embedded
Client == config.mode = "ha" /\ ~config.olric.embedded
Noop == config.mode = "disabled"

FactoryUnchanged == UNCHANGED <<config, store, late, closed, muVars, pc, call, reply>>

\* A backend is told to end: whether it has failed to is logged, if at all.
Terminal == {"shut", "stuck"}

\* New: a configuration is refused, or asks for the cache that needs nothing.
New ==
    /\ factory = "new"
    /\ \/ ~Valid(config) /\ factory' = "failed"
       \/ Noop /\ factory' = "open"
    /\ UNCHANGED backend
    /\ FactoryUnchanged

NewRistretto ==
    /\ factory = "new"
    /\ Valid(config)
    /\ config.mode = "single"
    /\ \/ factory' = "open" /\ backend' = "up"
       \/ factory' = "failed" /\ UNCHANGED backend
    /\ FactoryUnchanged

\* olric.New, then Start in a goroutine.
NewEmbedded ==
    /\ factory = "new"
    /\ Valid(config)
    /\ Embedded
    /\ \/ factory' = "node" /\ backend' = "starting"
       \/ factory' = "failed" /\ UNCHANGED backend
    /\ FactoryUnchanged

\* The node is ready, has failed to start, or has taken longer than ten seconds,
\* and then is used as it is.
NodeStarted ==
    /\ factory = "node"
    /\ \/ backend = "up" /\ factory' = "dmap"
       \/ backend = "down" /\ factory' = "failed"
       \/ backend = "starting" /\ factory' = "dmap"
    /\ UNCHANGED backend
    /\ FactoryUnchanged

NewClient ==
    /\ factory = "new"
    /\ Valid(config)
    /\ Client
    /\ \/ factory' = "dmap" /\ backend' = "up"
       \/ factory' = "failed" /\ UNCHANGED backend
    /\ FactoryUnchanged

\* NewDMap of a client; when it fails the client is closed.
ClientDMap ==
    /\ factory = "dmap"
    /\ Client
    /\ \/ factory' = "open" /\ UNCHANGED backend
       \/ factory' = "failed" /\ backend' \in Terminal
    /\ FactoryUnchanged

\* Mutant: the node is left running when the map cannot be made.
EmbeddedDMapLeaky ==
    /\ factory = "dmap"
    /\ Embedded
    /\ factory' \in {"open", "failed"}
    /\ UNCHANGED backend
    /\ FactoryUnchanged

\* NewDMap of an embedded node; when it fails the node is shut down.
EmbeddedDMap ==
    /\ factory = "dmap"
    /\ Embedded
    /\ \/ factory' = "open" /\ UNCHANGED backend
       \/ factory' = "failed" /\ backend' \in Terminal
    /\ FactoryUnchanged

\* External: the goroutine that starts the node reports.
NodeStarts ==
    /\ backend = "starting"
    /\ backend' \in {"up", "down"}
    /\ UNCHANGED factory
    /\ FactoryUnchanged

--------------------------------------------------------------------------------
(* What each implementation does under its lock: its answers, and what it  *)
(* then holds and has still to make.                                       *)

Outcome(r, s, l) == [reply |-> r, store |-> s, late |-> l]
Only(r) == Outcome(r, store, late)
Failing == {Only(Just("failed"))}
Written(k, x) == [store EXCEPT ![k] = x]
Delayed(k, v) == [late EXCEPT ![k][v] = @ + 1]
Later(r, k, v) == IF late[k][v] < MaxLate THEN {Outcome(r, store, Delayed(k, v))} ELSE {}
Lookup(k) ==
    IF store[k] = Nothing THEN Just("missing") ELSE [status |-> "value", value |-> store[k]]
Presence(k) == Just(IF store[k] = Nothing THEN "no" ELSE "yes")

RistrettoGet(k) == {Only(Lookup(k))}
\* An entry may be replaced at once; a new one goes to a buffer, or is dropped.
RistrettoSet(k, v) ==
    {Outcome(Just("ok"), Written(k, v), late), Only(Just("ok"))} \cup Later(Just("ok"), k, v)
RistrettoSetWithTTL(k, v) == RistrettoSet(k, v)
\* What is in the buffer stays there.
RistrettoDelete(k) == {Outcome(Just("ok"), Written(k, Nothing), late)}
RistrettoExists(k) == {Only(Presence(k))}
RistrettoStats == {Only(Just("ok"))}

\* The ones that fail on a node that does not run may also fail on one that does.
OrFailed(outcomes) == IF backend = "up" THEN outcomes \cup Failing ELSE Failing

OlricGet(k) == OrFailed({Only(Lookup(k))})
\* A write whose answer was not waited for may have been made, or still be under way.
OlricSet(k, v) ==
    OrFailed({Outcome(Just(status), Written(k, v), late) : status \in {"ok", "failed"}}
             \cup Later(Just("failed"), k, v))
OlricSetWithTTL(k, v) == OlricSet(k, v)
OlricDelete(k) ==
    OrFailed({Outcome(Just(status), Written(k, Nothing), late) : status \in {"ok", "failed"}})
OlricExists(k) == OrFailed({Only(Presence(k))})
OlricPing == OrFailed({Only(Just("ok"))})
OlricStats == {Only(Just("ok"))}
\* The node's statistics give up after two seconds, with an empty answer.
OlricMembers == {Only(Just("ok"))}

--------------------------------------------------------------------------------
(* The calls. *)

CallUnchanged == UNCHANGED <<factoryVars, backend>>
Goto(c, place) == pc' = [pc EXCEPT ![c] = place]

Return(c, r) ==
    /\ Goto(c, "idle")
    /\ call' = [call EXCEPT ![c] = Nothing]
    /\ reply' = [reply EXCEPT ![c] = r]

Unlock(c) == readers' = readers \ {c}

\* The call has done its work: defer mu.RUnlock().
Returns(c, outcomes) ==
    /\ \E o \in outcomes : store' = o.store /\ late' = o.late /\ Return(c, o.reply)
    /\ Unlock(c)

\* Only an Olric cache can be pinged.
Begin(c) ==
    /\ factory = "open"
    /\ pc[c] = "idle"
    /\ \E x \in Call :
          /\ x.op = "ping" => config.mode = "ha"
          /\ call' = [call EXCEPT ![c] = x]
    /\ Goto(c, "first")
    /\ reply' = [reply EXCEPT ![c] = Just("none")]
    /\ CallUnchanged
    /\ UNCHANGED <<store, late, closed, muVars>>

\* The answers of the no-op cache, which has no lock and stores nothing.
NoopReply(x) ==
    Just(IF closed THEN "closed"
         ELSE IF x.op = "get" THEN "missing" ELSE IF x.op = "exists" THEN "no" ELSE "ok")

NoopCall(c) ==
    /\ pc[c] = "first"
    /\ Noop
    /\ call[c].op \notin {"close", "report"}
    /\ Return(c, NoopReply(call[c]))
    /\ CallUnchanged
    /\ UNCHANGED <<store, late, closed, muVars>>

\* Close loads the flag, and stores it later; the statistics do not look at it.
NoopClose(c) ==
    /\ Noop
    /\ \/ /\ pc[c] = "first"
          /\ call[c].op = "close" /\ ~closed
          /\ Goto(c, "store")
          /\ UNCHANGED <<closed, call, reply>>
       \/ /\ pc[c] = "first"
          /\ call[c].op = "close" => closed
          /\ call[c].op \in {"close", "report"}
          /\ Return(c, Just("ok"))
          /\ UNCHANGED closed
       \/ /\ pc[c] = "store"
          /\ closed' = TRUE
          /\ Goto(c, "stored")
          /\ UNCHANGED <<call, reply>>
       \/ /\ pc[c] = "stored"
          /\ Return(c, Just("ok"))
          /\ UNCHANGED closed
    /\ CallUnchanged
    /\ UNCHANGED <<store, late, muVars>>

\* ctx.Err() and the flag, before the lock. Reports have no context, and those
\* of the members do not look at the flag.
FirstCheck(c) ==
    /\ pc[c] = "first"
    /\ ~Noop
    /\ call[c].op # "close"
    /\ \/ /\ call[c].op # "report"
          /\ Return(c, Just("cancelled"))
       \/ /\ closed
          /\ Return(c, Just(IF call[c].op = "report" THEN "ok" ELSE "closed"))
       \/ /\ ~closed \/ call[c].op = "report"
          /\ Goto(c, "rlock")
          /\ UNCHANGED <<call, reply>>
    /\ CallUnchanged
    /\ UNCHANGED <<store, late, closed, muVars>>

\* A writer that waits keeps new readers out.
RLock(c) ==
    /\ pc[c] = "rlock"
    /\ writer = Nothing
    /\ readers' = readers \cup {c}
    /\ Goto(c, "second")
    /\ CallUnchanged
    /\ UNCHANGED <<store, late, closed, writer, call, reply>>

\* Mutant: what was seen before the lock is trusted.
SecondCheckTrusting(c) ==
    /\ pc[c] = "second"
    /\ Goto(c, "backend")
    /\ UNCHANGED <<readers, call, reply>>
    /\ CallUnchanged
    /\ UNCHANGED <<store, late, closed, writer>>

\* Mutant: the early return keeps the lock.
SecondCheckHolding(c) ==
    /\ pc[c] = "second"
    /\ \/ /\ closed
          /\ Return(c, Just(IF call[c].op = "report" THEN "ok" ELSE "closed"))
          /\ UNCHANGED readers
       \/ /\ ~closed
          /\ Goto(c, "backend")
          /\ UNCHANGED <<readers, call, reply>>
    /\ CallUnchanged
    /\ UNCHANGED <<store, late, closed, writer>>

SecondCheck(c) ==
    /\ pc[c] = "second"
    /\ \/ /\ closed
          /\ Return(c, Just(IF call[c].op = "report" THEN "ok" ELSE "closed"))
          /\ Unlock(c)
       \/ /\ ~closed
          /\ Goto(c, "backend")
          /\ UNCHANGED <<readers, call, reply>>
    /\ CallUnchanged
    /\ UNCHANGED <<store, late, closed, writer>>

RistrettoServes(c) ==
    LET x == call[c] IN
    \/ x.op = "get" /\ Returns(c, RistrettoGet(x.key))
    \/ x.op = "set" /\ Returns(c, RistrettoSet(x.key, x.value))
    \/ x.op = "setTTL" /\ Returns(c, RistrettoSetWithTTL(x.key, x.value))
    \/ x.op = "delete" /\ Returns(c, RistrettoDelete(x.key))
    \/ x.op = "exists" /\ Returns(c, RistrettoExists(x.key))
    \/ x.op = "report" /\ Returns(c, RistrettoStats)

OlricServes(c) ==
    LET x == call[c] IN
    \/ x.op = "get" /\ Returns(c, OlricGet(x.key))
    \/ x.op = "set" /\ Returns(c, OlricSet(x.key, x.value))
    \/ x.op = "setTTL" /\ Returns(c, OlricSetWithTTL(x.key, x.value))
    \/ x.op = "delete" /\ Returns(c, OlricDelete(x.key))
    \/ x.op = "exists" /\ Returns(c, OlricExists(x.key))
    \/ x.op = "ping" /\ Returns(c, OlricPing)
    \/ x.op = "report" /\ Returns(c, OlricStats \cup OlricMembers)

Serve(c) ==
    /\ pc[c] = "backend"
    /\ \/ config.mode = "single" /\ RistrettoServes(c)
       \/ config.mode = "ha" /\ OlricServes(c)
    /\ CallUnchanged
    /\ UNCHANGED <<closed, writer>>

--------------------------------------------------------------------------------
(* Close. *)

CloseFirst(c) ==
    /\ pc[c] = "first"
    /\ ~Noop
    /\ call[c].op = "close"
    /\ IF closed THEN Return(c, Just("ok"))
       ELSE Goto(c, "lock") /\ UNCHANGED <<call, reply>>
    /\ CallUnchanged
    /\ UNCHANGED <<store, late, closed, muVars>>

\* mu.Lock(): one writer at a time, which then waits for the readers to leave.
Lock(c) ==
    /\ pc[c] = "lock"
    /\ writer = Nothing
    /\ writer' = c
    /\ Goto(c, "drain")
    /\ CallUnchanged
    /\ UNCHANGED <<store, late, closed, readers, call, reply>>

Drain(c) ==
    /\ pc[c] = "drain"
    /\ readers = {}
    /\ Goto(c, "close2")
    /\ CallUnchanged
    /\ UNCHANGED <<store, late, closed, muVars, call, reply>>

\* Mutant: a close that has waited for another one shuts the backend again.
CloseAgain(c) ==
    /\ pc[c] = "close2"
    /\ Goto(c, "shut")
    /\ closed' = TRUE
    /\ CallUnchanged
    /\ UNCHANGED <<store, late, muVars, call, reply>>

CloseSecond(c) ==
    /\ pc[c] = "close2"
    /\ IF closed
       THEN Return(c, Just("ok")) /\ writer' = Nothing /\ UNCHANGED closed
       ELSE Goto(c, "shut") /\ closed' = TRUE /\ UNCHANGED <<writer, call, reply>>
    /\ CallUnchanged
    /\ UNCHANGED <<store, late, readers>>

ShutDown(c, status) ==
    /\ pc[c] = "shut"
    /\ backend' = IF status = "ok" THEN "shut" ELSE "stuck"
    /\ Return(c, Just(status))
    /\ writer' = Nothing
    /\ UNCHANGED <<factoryVars, store, late, closed, readers>>

\* The pending writes are waited for, and Ristretto is closed.
RistrettoClose(c) ==
    /\ config.mode = "single"
    /\ \A k \in Keys, v \in Values : late[k][v] = 0
    /\ ShutDown(c, "ok")

\* The map is closed whatever it says; then the node is shut down, or the client
\* is closed, and its error is the answer.
OlricClose(c) == config.mode = "ha" /\ \E status \in {"ok", "failed"} : ShutDown(c, status)

--------------------------------------------------------------------------------
\* External: expiry, eviction, a member that leaves.
Forget(k) ==
    /\ store' = [store EXCEPT ![k] = Nothing]
    /\ UNCHANGED <<factoryVars, backend, late, closed, muVars, pc, call, reply>>

\* External: a write that was kept back is made, or dropped.
Settle(k, v) ==
    /\ backend = "up"
    /\ late[k][v] > 0
    /\ late' = [late EXCEPT ![k][v] = @ - 1]
    /\ store' = Written(k, v) \/ UNCHANGED store
    /\ UNCHANGED <<factoryVars, backend, closed, muVars, pc, call, reply>>

Settles == \E k \in Keys, v \in Values : Settle(k, v)

CallerStep(c) ==
    \/ NoopCall(c) \/ NoopClose(c)
    \/ FirstCheck(c) \/ RLock(c) \/ SecondCheck(c) \/ Serve(c)
    \/ CloseFirst(c) \/ Lock(c) \/ Drain(c) \/ CloseSecond(c)
    \/ RistrettoClose(c) \/ OlricClose(c)

FactoryStep ==
    \/ New \/ NewRistretto \/ NewClient \/ ClientDMap
    \/ NewEmbedded \/ NodeStarted \/ EmbeddedDMap \/ NodeStarts

CacheNext ==
    \/ FactoryStep
    \/ \E c \in Callers : Begin(c) \/ CallerStep(c)
    \/ \E k \in Keys : Forget(k)
    \/ Settles

CacheSpec == CacheInit /\ [][CacheNext]_cacheVars

\* Goroutines run, Ristretto's own one among them, and every call on a backend returns.
FairSpec ==
    /\ CacheSpec
    /\ \A c \in Callers : WF_cacheVars(CallerStep(c))
    /\ WF_cacheVars(Settles)

--------------------------------------------------------------------------------
\* Every read of every backend sees what is there at one moment of the call, every write is
\* made at most once, by Olric before "ok" is answered, and after Close none but ErrClosed is
\* answered: cache.go:41-72, with the two looks at the flag in each method.
ContractSpec == Contract!Spec

\* No call works on a backend that Close has shut down, and no second Close does: the
\* methods hold mu while they use it (ristretto.go:86-93, olric.go:299-306, 503-510).
NoUseAfterClose ==
    \A c \in Callers : pc[c] \in {"backend", "shut"} => backend \notin Terminal

\* A factory that fails leaves no node running and no client connected that it has not told
\* to end, whichever of its steps failed (olric.go:157-288).
NothingLeaked == factory = "failed" => backend \in {"none", "down"} \cup Terminal

\* Every call returns, those that wait behind a Close included: the lock is given back on
\* every path (ristretto.go:86-87, 240-241), and the pending writes come to an end (250).
CallsReturn == \A c \in Callers : pc[c] # "idle" ~> pc[c] = "idle"
================================================================================
