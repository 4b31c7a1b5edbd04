------------------------------ MODULE RouterLoad ------------------------------
(***************************************************************************)
(* Provider selection with the least_loaded strategy: the router that      *)
(* RouterService caches and rebuilds when the configuration changes        *)
(* (internal/di/router_service.go), LiveRouter, which fetches it anew for  *)
(* every call (internal/router/router.go), the counters of                 *)
(* LeastLoadedRouter, and the handler that acquires one provider after     *)
(* another and releases all of them when it returns.                       *)
(***************************************************************************)
EXTENDS Integers, Sequences, SequencesExt

CONSTANTS
    Requests,
    Order,        \* the providers, in the order of the configuration
    Priority,     \* [provider -> its priority]
    Routings,     \* pairs of a strategy and a failover timeout
    LeastLoaded,  \* those whose strategy is least_loaded
    NoRouting,    \* the pair of the empty cache entry
    MaxRouters    \* bound: routers ever created

Providers == ToSet(Order)

RouterIds == 1 .. MaxRouters

\* minLoad and candidates before the loop; -1 stands for no minimum yet.
NoMinimum == [min |-> -1, best |-> {}]

VARIABLES
    routing,   \* what the configuration says now
    cache,     \* RouterService.router: a router and what it was built for
    made,      \* routers created so far
    load,      \* LeastLoadedRouter.inFlight of each router
    pc,        \* where each request is
    call,      \* the LiveRouter method it is in
    got,       \* what it has read of the configuration
    router,    \* the router it has fetched
    unread,    \* healthy providers Select has still to look at
    least,     \* the least load it has read so far, and the providers that have it
    reads,     \* the providers and loads it has read (history)
    chosen,    \* the provider it has selected
    held       \* the providers it has acquired and not released

routerVars == <<routing, cache, made, load>>
fetchVars == <<call, got, router>>
selectVars == <<unread, least, reads, chosen>>
loadVars == <<routerVars, pc, fetchVars, selectVars, held>>

Init ==
    /\ routing \in Routings
    /\ cache = [routing |-> NoRouting, router |-> 1]
    /\ made = 0
    /\ load = [i \in RouterIds |-> [p \in Providers |-> 0]]
    /\ pc = [r \in Requests |-> "config"]
    /\ call = [r \in Requests |-> "select"]
    /\ got = [r \in Requests |-> NoRouting]
    /\ router = [r \in Requests |-> 1]
    /\ unread = [r \in Requests |-> {}]
    /\ least = [r \in Requests |-> NoMinimum]
    /\ reads = [r \in Requests |-> {}]
    /\ chosen = [r \in Requests |-> Order[1]]
    /\ held = [r \in Requests |-> <<>>]

Step(r, from, to) == pc[r] = from /\ pc' = [pc EXCEPT ![r] = to]

\* The request calls LiveRouter's method c, which begins with GetRouter.
Call(r, from, c) == Step(r, from, "config") /\ call' = [call EXCEPT ![r] = c]

\* The call has returned, and its locals are gone.
Forget(r) == got' = [got EXCEPT ![r] = NoRouting] /\ router' = [router EXCEPT ![r] = 1]

\* Deferred calls: the provider acquired last is released first.
Return(r, from, to) ==
    IF held'[r] = <<>> THEN Step(r, from, to) /\ UNCHANGED call
                       ELSE Call(r, from, "release")

\* Only a least_loaded router counts.
Counts(r) == got[r] \in LeastLoaded

Add(r, p, n) ==
    load' = IF Counts(r) THEN [load EXCEPT ![router[r]][p] = @ + n] ELSE load

------------------------------------------------------------------------------
(* GetRouter. *)

ReadConfig(r) ==
    /\ Step(r, "config", "cache")
    /\ got' = [got EXCEPT ![r] = routing]
    /\ UNCHANGED <<routerVars, call, router, selectVars, held>>

LoadCache(r) ==
    /\ \/ /\ cache.routing = got[r]
          /\ Step(r, "cache", call[r])
          /\ router' = [router EXCEPT ![r] = cache.router]
          /\ UNCHANGED made
       \/ /\ cache.routing # got[r]
          /\ made < MaxRouters
          /\ Step(r, "cache", "store")
          /\ made' = made + 1
          /\ router' = [router EXCEPT ![r] = made + 1]
    /\ UNCHANGED <<routing, cache, load, call, got, selectVars, held>>

\* Racing updates may overwrite each other: the last one wins.
StoreCache(r) ==
    /\ Step(r, "store", call[r])
    /\ cache' = [routing |-> got[r], router |-> router[r]]
    /\ UNCHANGED <<routing, made, load, fetchVars, selectVars, held>>

------------------------------------------------------------------------------
(* Select, Acquire and Release. *)

\* Mutant: providers that were tried are candidates again.
AnyCandidates(r) == SUBSET Providers

\* The providers that are healthy, have a usable key and were not tried yet.
Candidates(r) == SUBSET (Providers \ ToSet(held[r]))

SelectBegins(r) ==
    \E healthy \in Candidates(r) :
        /\ UNCHANGED <<routerVars, least, reads, chosen, held>>
        /\ unread' = [unread EXCEPT ![r] = healthy]
        /\ \/ /\ healthy = {}
              /\ Return(r, "select", "done")
              /\ Forget(r)
           \/ /\ healthy # {}
              /\ Step(r, "select", "scan")
              /\ UNCHANGED fetchVars

\* The next of them in the order of the configuration.
FirstOf(S) ==
    Order[CHOOSE i \in DOMAIN Order : Order[i] \in S /\ \A j \in 1 .. i - 1 : Order[j] \notin S]

\* One turn of the loop: provider p has load n.
Scanned(acc, p, n) ==
    CASE acc.min = -1 \/ n < acc.min -> [min |-> n, best |-> {p}]
      [] acc.min # -1 /\ n = acc.min -> [acc EXCEPT !.best = @ \cup {p}]
      [] OTHER -> acc

\* One counter at a time, while other requests acquire and release.
ReadLoad(r) ==
    LET p == FirstOf(unread[r])
        n == load[router[r]][p]
    IN  /\ pc[r] = "scan"
        /\ Counts(r)
        /\ unread[r] # {}
        /\ least' = [least EXCEPT ![r] = Scanned(@, p, n)]
        /\ reads' = [reads EXCEPT ![r] = @ \cup {[provider |-> p, load |-> n]}]
        /\ unread' = [unread EXCEPT ![r] = @ \ {p}]
        /\ UNCHANGED <<routerVars, pc, fetchVars, chosen, held>>

\* Ties go to the highest priority, then to chance.  What another strategy picks is
\* left open.
Ties(r) ==
    LET best == least[r].best
    IN  IF Counts(r) THEN {p \in best : \A q \in best : Priority[q] <= Priority[p]}
                     ELSE unread[r]

Pick(r) ==
    /\ Counts(r) => unread[r] = {}
    /\ Call(r, "scan", "acquire")
    /\ \E p \in Ties(r) : chosen' = [chosen EXCEPT ![r] = p]
    /\ unread' = [unread EXCEPT ![r] = {}]
    /\ least' = [least EXCEPT ![r] = NoMinimum]
    /\ Forget(r)
    /\ UNCHANGED <<routerVars, reads, held>>

Acquire(r) ==
    /\ Step(r, "acquire", "serving")
    /\ Add(r, chosen[r], 1)
    /\ held' = [held EXCEPT ![r] = Append(@, chosen[r])]
    /\ reads' = [reads EXCEPT ![r] = {}]
    /\ chosen' = [chosen EXCEPT ![r] = Order[1]]
    /\ Forget(r)
    /\ UNCHANGED <<routing, cache, made, call, unread, least>>

\* The answer is final, or the request goes on to another provider.
Served(r) ==
    /\ UNCHANGED <<routerVars, got, router, selectVars, held>>
    /\ \/ Return(r, "serving", "done")
       \/ Call(r, "serving", "select")

\* Mutant: every deferred call releases the provider that was acquired first.
ReleaseFirst(r) ==
    /\ pc[r] = "release"
    /\ Add(r, Head(held[r]), -1)
    /\ held' = [held EXCEPT ![r] = Front(@)]
    /\ Return(r, "release", "done")
    /\ Forget(r)
    /\ UNCHANGED <<routing, cache, made, selectVars>>

Release(r) ==
    /\ pc[r] = "release"
    /\ Add(r, Last(held[r]), -1)
    /\ held' = [held EXCEPT ![r] = Front(@)]
    /\ Return(r, "release", "done")
    /\ Forget(r)
    /\ UNCHANGED <<routing, cache, made, selectVars>>

\* The handler has returned.
Leave(r) ==
    /\ Call(r, "done", "select")
    /\ UNCHANGED <<routerVars, got, router, selectVars, held>>

Reload ==
    /\ routing' \in Routings \ {routing}
    /\ UNCHANGED <<cache, made, load, pc, fetchVars, selectVars, held>>

GetRouter(r) == ReadConfig(r) \/ LoadCache(r) \/ StoreCache(r)

Handle(r) ==
    \/ GetRouter(r) \/ SelectBegins(r) \/ ReadLoad(r) \/ Pick(r)
    \/ Acquire(r) \/ Served(r) \/ Release(r)

Next == (\E r \in Requests : Handle(r) \/ Leave(r)) \/ Reload

Spec == Init /\ [][Next]_loadVars

------------------------------------------------------------------------------

LoadTypeOK ==
    /\ routing \in Routings
    /\ cache \in [routing: Routings \cup {NoRouting}, router: RouterIds]
    /\ made \in 0 .. MaxRouters
    /\ load \in [RouterIds -> [Providers -> Int]]
    /\ pc \in [Requests -> {"config", "cache", "store", "select", "scan",
                            "acquire", "serving", "release", "done"}]
    /\ call \in [Requests -> {"select", "acquire", "release"}]
    /\ got \in [Requests -> Routings \cup {NoRouting}]
    /\ router \in [Requests -> RouterIds]
    /\ unread \in [Requests -> SUBSET Providers]
    /\ least \in [Requests -> [min: Int, best: SUBSET Providers]]
    /\ reads \in [Requests -> SUBSET [provider: Providers, load: Int]]
    /\ held \in [Requests -> Seq(Providers)]
    /\ chosen \in [Requests -> Providers]

\* The places in what the requests hold at which provider p is.
Holds(p) ==
    UNION {{<<r, i>> : i \in {j \in DOMAIN held[r] : held[r][j] = p}} : r \in Requests}

\* How often the requests hold a provider.
Holding(p) == Cardinality(Holds(p))

\* The sum over all routers ever built, and the load of a provider in all of them.
Total(f) ==
    LET sum[n \in 0 .. MaxRouters] == IF n = 0 THEN 0 ELSE sum[n - 1] + f[n]
    IN  sum[MaxRouters]
TotalLoad(p) == Total([i \in RouterIds |-> load[i][p]])

\* Whatever routers race to be cached, and whichever of them a call reaches: over all
\* of them no acquisition and no release of a provider is lost or counted twice.
LoadsConserved == Routings \subseteq LeastLoaded => \A p \in Providers : TotalLoad(p) = Holding(p)

\* "LeastLoadedRouter selects the provider with the fewest in-flight requests": of
\* the loads it has read, the one it goes by is the least.
PicksLeastLoaded ==
    \A r \in Requests : call[r] = "acquire" =>
        \A x, y \in reads[r] : x.provider = chosen[r] => x.load <= y.load

===============================================================================
