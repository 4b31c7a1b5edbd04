-------------------------------- MODULE Serving --------------------------------
(***************************************************************************)
(* Requests from the concurrency limit to the provider: the middleware     *)
(* admits a request, the handler selects, acquires and releases providers, *)
(* and the middleware lets go of the slot when the handler returns.  A     *)
(* reload may change the limit and the routing at any moment.              *)
(***************************************************************************)
EXTENDS ConcurrencyLimiter, Sequences

CONSTANTS Order, Priority, Routings, LeastLoaded, NoRouting, MaxRouters

VARIABLES
    routing, cache, made, load, pc, call, got, router, unread, least, reads, chosen, held

Routers == INSTANCE RouterLoad

\* There is a provider, and the entry of an empty cache is none that is configured.
ASSUME ServingAssumption ==
    /\ Order \in Seq(Routers!Providers) \ {<<>>}
    /\ NoRouting \notin Routings
    /\ MaxRouters \in Nat \ {0}

handlerVars ==
    <<routing, cache, made, load, pc, call, got, router, unread, least, reads, chosen, held>>

servingVars == <<limiterVars, handlerVars>>

ServingInit == Init /\ Routers!Init

\* TryAcquire, before the handler is called.
Arrive(r) ==
    /\ TryAcquire(r)
    /\ UNCHANGED handlerVars

\* next.ServeHTTP.
Handle(r) ==
    /\ slot[r] = "in"
    /\ Routers!Handle(r)
    /\ UNCHANGED limiterVars

\* The deferred release.
Depart(r) == Release(r) /\ Routers!Leave(r)

Reload ==
    \/ SetLimit /\ UNCHANGED handlerVars
    \/ Routers!Reload /\ UNCHANGED limiterVars

ServingNext == (\E r \in Requests : Arrive(r) \/ Handle(r) \/ Depart(r)) \/ Reload

ServingSpec == ServingInit /\ [][ServingNext]_servingVars

--------------------------------------------------------------------------------

TypeOK == LimiterTypeOK /\ Routers!LoadTypeOK

\* No acquisition and no release of a provider is lost or counted twice, whatever
\* routers race to be cached.
LoadsConserved == Routers!LoadsConserved

\* No provider has more requests in flight than the server has admitted, although a
\* request that is retried keeps every provider it has tried until it returns.
LoadWithinLimit == \A p \in Routers!Providers : Routers!Holding(p) <= current

\* Select goes by the least of the loads it has read.
PicksLeastLoaded == Routers!PicksLeastLoaded

================================================================================
