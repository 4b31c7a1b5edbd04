------------------------------ MODULE ProxyCache ------------------------------
(***************************************************************************)
(* Requests during a reload.  A request reads the routing list, the keys   *)
(* and the pools one after the other, and takes the cached proxy of its    *)
(* provider if that was made for the same key and pool, and for the same   *)
(* instance, or with OpenAI providers for the same base URL; if not, it    *)
(* makes a proxy and puts it in the other one's place.                     *)
(***************************************************************************)
EXTENDS HotReload

CONSTANTS
    Requests,
    UrlOf,      \* a provider's base URL in a content,
    KeyOf,      \* its first enabled key there,
    NoKey,      \* or none
    Pooled      \* the providers of a content with a pool

ASSUME ProxyAssumption ==
    /\ Pooled \in [Contents -> SUBSET Providers]
    /\ \A c \in Contents : /\ Pooled[c] \subseteq Enabled[c]
                           /\ DOMAIN UrlOf[c] = Providers
                           /\ DOMAIN KeyOf[c] = Providers
                           /\ \A p \in Providers \ Enabled[c] : KeyOf[c][p] = NoKey

NoPool == -1
NotSettled == -1

PoolsOf(p) == IF p \in OpenAI THEN "OpenAIKeyPoolMap" ELSE "KeyPoolMap"
InfosOf(p) == IF p \in OpenAI THEN "OpenAIProviderInfo" ELSE "ProviderInfo"

Keys == {KeyOf[c][p] : c \in Contents, p \in Providers}
Pools == Loads \cup {NoPool}

\* What a proxy is made for: the load of the instance, the key, the load of the pool.
Inputs == [made : Loads, key : Keys \cup {NoKey}, pool : Pools]

VARIABLES
    proxies,    \* Handler.providerProxies of both handlers
    step,       \* where a request is
    provider,   \* the provider it was given,
    inputs,     \* what it has read,
    sentWith,   \* and the proxy it goes through
    began       \* history: the load that all services held when it was routed

requestVars == <<step, provider, inputs, sentWith, began>>
cacheVars == <<proxies, requestVars>>
proxyVars == <<reloadAll, cacheVars>>

ProxyType == [made : Loads, key : Keys \cup {NoKey}, pool : Pools, exists : BOOLEAN]

NoProxy == [made |-> 0, key |-> NoKey, pool |-> NoPool, exists |-> FALSE]
Proxy(in) == [made |-> in.made, key |-> in.key, pool |-> in.pool, exists |-> TRUE]

\* What a load gives a provider.
UrlAt(n, p) == UrlOf[read[n]][p]
KeyAt(n, p) == KeyOf[read[n]][p]
PoolAt(n, p) == IF p \in Pooled[read[n]] THEN n ELSE NoPool

\* The routing list.
Routable(p) ==
    LET s == InfosOf(p)
    IN  p \in Enabled[read[held[s]]] /\ p \in created[madeBy[s]]

\* NewHandler makes a proxy for every provider of the first list.
Init ==
    /\ ReloadInit
    /\ proxies = [p \in Providers |->
                    IF p \in Enabled[Initial]
                    THEN Proxy([made |-> 0, key |-> KeyOf[Initial][p],
                                pool |-> IF p \in Pooled[Initial] THEN 0 ELSE NoPool])
                    ELSE NoProxy]
    /\ step = [q \in Requests |-> "idle"]
    /\ provider \in [Requests -> {CHOOSE p \in Providers : TRUE}]
    /\ inputs = [q \in Requests |-> [made |-> 0, key |-> NoKey, pool |-> NoPool]]
    /\ sentWith = [q \in Requests |-> NoProxy]
    /\ began = [q \in Requests |-> NotSettled]

--------------------------------------------------------------------------------

Goes(q, from, to) == step[q] = from /\ step' = [step EXCEPT ![q] = to]

\* The Anthropic handler reads the keys before the pools, the OpenAI handler after them.
PoolsFirst(q) == provider[q] \in OpenAI

\* The list is read and a provider of it selected; one whose pool has no key left
\* may have been passed over.  A server that shuts down takes no new requests.
Select(q, p) ==
    /\ phase = "serving"
    /\ Goes(q, "idle", IF p \in OpenAI THEN "pools" ELSE "keys")
    /\ Routable(p)
    /\ provider' = [provider EXCEPT ![q] = p]
    /\ inputs' = [inputs EXCEPT ![q].made = madeBy[InfosOf(p)]]
    /\ began' = [began EXCEPT ![q] = IF NoReload /\ ~mixed THEN last ELSE NotSettled]
    /\ UNCHANGED <<proxies, sentWith>>

ReadKeys(q) ==
    /\ Goes(q, "keys", IF PoolsFirst(q) THEN "fast" ELSE "pools")
    /\ LET p == provider[q] IN
         inputs' = [inputs EXCEPT ![q].key = KeyAt(held[PoolsOf(p)], p)]
    /\ UNCHANGED <<proxies, provider, sentWith, began>>

ReadPools(q) ==
    /\ Goes(q, "pools", IF PoolsFirst(q) THEN "keys" ELSE "fast")
    /\ LET p == provider[q] IN
         inputs' = [inputs EXCEPT ![q].pool = PoolAt(held[PoolsOf(p)], p)]
    /\ UNCHANGED <<proxies, provider, sentWith, began>>

\* openaiProxyMatches asks for the same base URL, proxyMatches for the same instance.
Alike(p, made, present) ==
    IF p \in OpenAI THEN UrlAt(made, p) = UrlAt(present, p) ELSE made = present

\* Mutant: a proxy with the provider's URL and key will do, whatever its pool.
MatchesAnyPool(p, proxy, in) ==
    /\ proxy.exists
    /\ UrlAt(proxy.made, p) = UrlAt(in.made, p)
    /\ proxy.key = in.key

Matches(p, proxy, in) ==
    /\ proxy.exists
    /\ Alike(p, proxy.made, in.made)
    /\ proxy.key = in.key
    /\ proxy.pool = in.pool

Cached(q) == Matches(provider[q], proxies[provider[q]], inputs[q])

Take(q, proxy) == sentWith' = [sentWith EXCEPT ![q] = proxy]

\* The read lock.
FastPath(q) ==
    /\ Cached(q)
    /\ Goes(q, "fast", "sent")
    /\ Take(q, proxies[provider[q]])
    /\ UNCHANGED <<proxies, provider, inputs, began>>

MissFast(q) ==
    /\ ~Cached(q)
    /\ Goes(q, "fast", "slow")
    /\ UNCHANGED <<proxies, provider, inputs, sentWith, began>>

\* The write lock: looked up again, and made if it still does not match.
SlowPath(q) ==
    /\ Goes(q, "slow", "sent")
    /\ proxies' = IF Cached(q) THEN proxies
                  ELSE [proxies EXCEPT ![provider[q]] = Proxy(inputs[q])]
    /\ Take(q, proxies'[provider[q]])
    /\ UNCHANGED <<provider, inputs, began>>

\* The answer: the next attempt, or the next request, starts anew.
Answered(q) ==
    /\ Goes(q, "sent", "idle")
    /\ began' = [began EXCEPT ![q] = NotSettled]
    /\ inputs' = [inputs EXCEPT ![q] = [made |-> 0, key |-> NoKey, pool |-> NoPool]]
    /\ sentWith' = [sentWith EXCEPT ![q] = NoProxy]
    /\ UNCHANGED <<proxies, provider>>

RequestStep(q) ==
    \/ \E p \in Providers : Select(q, p)
    \/ ReadKeys(q)
    \/ ReadPools(q)
    \/ FastPath(q)
    \/ MissFast(q)
    \/ SlowPath(q)
    \/ Answered(q)

\* The signal to stop is let come between requests: server.Shutdown waits for those
\* in flight before the services are shut down.  The proxies of a server that takes no
\* more requests are not looked at again, and forgotten.
ReloadBeside ==
    /\ ReloadNext
    /\ UNCHANGED requestVars
    /\ IF phase' = "serving"
       THEN UNCHANGED proxies
       ELSE /\ \A q \in Requests : step[q] = "idle"
            /\ proxies' = [p \in Providers |-> NoProxy]

Next ==
    \/ ReloadBeside
    \/ \E q \in Requests : RequestStep(q) /\ UNCHANGED reloadAll

Spec == Init /\ [][Next]_proxyVars

--------------------------------------------------------------------------------
(***************************************************************************)
(* Properties.                                                             *)
(***************************************************************************)

TypeOK ==
    /\ ReloadTypeOK
    /\ proxies \in [Providers -> ProxyType]
    /\ step \in [Requests -> {"idle", "keys", "pools", "fast", "slow", "sent"}]
    /\ provider \in [Requests -> Providers]
    /\ inputs \in [Requests -> Inputs]
    /\ sentWith \in [Requests -> ProxyType]
    /\ began \in [Requests -> Loads \cup {NotSettled}]

\* A request that was routed when no reload was at work, with no other load since, is
\* sent to the present instance of a provider that the last configuration enables, or
\* with OpenAI providers to the base URL of that instance, with that configuration's
\* key and the pool that was built for it, whatever proxies older or slower requests
\* have left in the cache (getOrCreateProxy, getOrCreateOpenAIProxy).
NewRequestsCurrent ==
    \A q \in Requests :
        (step[q] = "sent" /\ began[q] = last) =>
            LET p == provider[q]
                present == held[MapOf[InfosOf(p)]]
                sent == sentWith[q]
            IN  /\ p \in Enabled[read[last]]
                /\ sent.exists
                /\ p \notin OpenAI => sent.made = present
                /\ UrlAt(sent.made, p) = UrlAt(present, p)
                /\ sent.key = KeyAt(last, p)
                /\ sent.pool = PoolAt(last, p)

================================================================================
