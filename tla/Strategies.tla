------------------------------ MODULE Strategies ------------------------------
(***************************************************************************)
(* How a request finds its provider: the candidates (model routing, the    *)
(* exclusions of a retry, thinking affinity), the healthy ones among them, *)
(* and the choice of one by the strategy with the state it keeps           *)
(* (proxy/handler.go, retry.go, model_filter.go; internal/router).         *)
(*                                                                         *)
(* Health is looked at before the strategy's mutex is taken, and by each   *)
(* stage anew; requests interleave and health changes between any two      *)
(* steps. Random draws are left open. The least-loaded strategy is module  *)
(* RouterLoad.                                                             *)
(***************************************************************************)
EXTENDS Integers, FiniteSets, SequencesExt

CONSTANTS
    Listed,         \* the providers in the order of the configuration, a sequence
    WeightOf, PriorityOf,   \* [providers -> Int]
    Models,         \* models that requests name
    TargetOf,       \* [Models -> names]: findProviderForModel, or the default
    Exclusions,     \* sets of providers without a key available, or given up by a retry
    Used,           \* the strategies of an instance
    Requests,
    IndexPeriod     \* bound: the round-robin counter is kept modulo this

Providers == ToSet(Listed)
Strategies == {"round_robin", "shuffle", "weighted_round_robin", "failover",
               "model_based", "weighted_failover", "priority_weighted_failover"}
Stateful == {"round_robin", "shuffle", "weighted_round_robin"}
Lists == {list \in Seq(Providers) : IsInjective(list)}

\* The counter wraps at 2^64; its remainder by every list length is the same
\* modulo any multiple of the lengths.
ASSUME StrategiesAssumption ==
    /\ Listed \in Seq(Providers) /\ IsInjective(Listed) /\ Listed # <<>>
    /\ WeightOf \in [Providers -> Int] /\ PriorityOf \in [Providers -> Int]
    /\ DOMAIN TargetOf = Models
    /\ Exclusions \subseteq SUBSET Providers
    /\ Used \subseteq Strategies
    /\ IndexPeriod \in Nat \ {0} /\ \A n \in 1..Len(Listed) : IndexPeriod % n = 0

VARIABLES
    strategy,       \* the configured one
    healthy,        \* providers whose IsHealthy holds
    deck, position, lastLen,    \* ShuffleRouter: shuffledOrder, position, lastLen
    index,                      \* RoundRobinRouter.index
    weights, lastIDs,           \* WeightedRoundRobinRouter: currentWeights, lastProviderIDs
    req,            \* [Requests -> Request]
    result,         \* of the request that has ended last
    round           \* history: the choices made since the strategy's state began anew

routerVars == <<deck, position, lastLen, index, weights, lastIDs, round>>
vars == <<strategy, healthy, routerVars, req, result>>

None == "none"
Outcomes == {"served", "excluded", "unhealthy", "stopped", "failed"}

\* candidates: as narrowed so far; asked: what they were before affinity; steady
\* (history): the providers healthy ever since; tried: outcomes of SelectWithRetry.
Attempt == [provider : Providers, outcome : {"ok", "failover", "stop"}]
Request == [pc : {"idle", "affinity", "filter", "pick", "try", "race"}, affine : BOOLEAN,
            retry : BOOLEAN, asked : Lists, candidates : Lists, list : Seq(Providers),
            steady : SUBSET Providers, tried : Seq(Attempt), racing : SUBSET Providers]
NoRequest == [pc |-> "idle", affine |-> FALSE, retry |-> FALSE, asked |-> <<>>,
              candidates |-> <<>>, list |-> <<>>, steady |-> {}, tried |-> <<>>, racing |-> {}]

\* A result: the outcome, and the provider that the last attempt went to.
Result == [outcome : Outcomes, provider : Providers \cup {None}]
NoResult == [outcome |-> "served", provider |-> None]

\* The choices made from the same list: same is FALSE once another list was used.
Round == [list : Lists, same : BOOLEAN, counts : [Providers -> Nat]]
NewRound(list) == [list |-> list, same |-> TRUE, counts |-> [p \in Providers |-> 0]]

TypeOK ==
    /\ strategy \in Used
    /\ healthy \subseteq Providers
    /\ deck \in Seq(0..Len(Listed) - 1) /\ position \in 0..Len(deck) /\ lastLen = Len(deck)
    /\ index \in 0..IndexPeriod - 1
    /\ weights \in Seq(Int) /\ lastIDs \in Lists /\ Len(weights) = Len(lastIDs)
    /\ req \in [Requests -> Request]
    /\ result \in Result
    /\ round \in Round

Init ==
    /\ strategy \in Used
    /\ healthy = Providers
    /\ deck = <<>> /\ position = 0 /\ lastLen = 0
    /\ index = 0
    /\ weights = <<>> /\ lastIDs = <<>>
    /\ req = [r \in Requests |-> NoRequest]
    /\ result = NoResult
    /\ round = NewRound(<<>>)

--------------------------------------------------------------------------------
\* The sums of the first elements of a sequence, none to all of them.
Sums(s) == LET sum[i \in 0..Len(s)] == IF i = 0 THEN 0 ELSE sum[i - 1] + s[i] IN sum
Total(s) == Sums(s)[Len(s)]

\* The providers of a list that are in S, in its order.
Within(list, S) ==
    LET kept[i \in 0..Len(list)] ==
            IF i = 0 THEN <<>>
            ELSE IF list[i] \in S THEN Append(kept[i - 1], list[i]) ELSE kept[i - 1]
    IN  kept[Len(list)]

EffectiveWeight(p) == IF WeightOf[p] <= 0 THEN 1 ELSE WeightOf[p]
Weights(list) == [i \in DOMAIN list |-> EffectiveWeight(list[i])]
TotalWeight(list) == Total(Weights(list))
FilterHealthy(list) == Within(list, healthy)
Without(list, S) == Within(list, Providers \ S)

\* The provider that the model is mapped to, or all when it is not among them.
FilterProvidersByModel(model) ==
    LET filtered == Within(Listed, {TargetOf[model]})
    IN  IF filtered = <<>> THEN Listed ELSE filtered

Ends(r, outcome, p) ==
    /\ result' = [outcome |-> outcome, provider |-> p]
    /\ req' = [req EXCEPT ![r] = NoRequest]
Goes(r, q) ==
    /\ req' = [req EXCEPT ![r] = q]
    /\ result' = NoResult

\* selectProvider, selectProviderExcluding: the candidates of a request. Under a
\* strategy without state requests share nothing: one at a time is enough.
Arrive(r) ==
    /\ req[r].pc = "idle"
    /\ strategy \in Stateful \/ \A other \in Requests : req[other].pc = "idle"
    /\ \E model \in Models, excluded \in Exclusions, affine \in BOOLEAN, retry \in BOOLEAN :
        LET all == IF strategy = "model_based" THEN FilterProvidersByModel(model) ELSE Listed
            candidates == Without(all, excluded)
            q == [NoRequest EXCEPT !.affine = affine, !.retry = retry, !.asked = candidates,
                                   !.candidates = candidates, !.steady = healthy]
        IN  /\ retry => strategy \in {"failover", "model_based", "weighted_failover"}
            /\ IF candidates = <<>>
               THEN Ends(r, "excluded", None)
               ELSE Goes(r, [q EXCEPT !.pc = IF affine /\ Len(candidates) > 1
                                             THEN "affinity" ELSE "filter"])
    /\ UNCHANGED <<strategy, healthy, routerVars>>

\* applyThinkingAffinity: only the first candidate that is healthy now.
Affinity(r) ==
    /\ req[r].pc = "affinity"
    /\ LET able == FilterHealthy(req[r].candidates)
       IN  Goes(r, [req[r] EXCEPT !.pc = "filter",
                        !.candidates = IF able = <<>> THEN @ ELSE <<able[1]>>])
    /\ UNCHANGED <<strategy, healthy, routerVars>>

\* The beginning of every Select: the list of the healthy ones, before the mutex.
Filter(r) ==
    /\ req[r].pc = "filter"
    /\ LET list == FilterHealthy(req[r].candidates)
       IN  IF list = <<>> THEN Ends(r, "unhealthy", None)
           ELSE Goes(r, [req[r] EXCEPT !.pc = IF req[r].retry THEN "try" ELSE "pick", !.list = list])
    /\ UNCHANGED <<strategy, healthy, routerVars>>

--------------------------------------------------------------------------------
(* The strategies. *)

\* The history of choices: it begins anew with another list, and when each
\* provider has had its share.
Share(p) == IF strategy = "weighted_round_robin" THEN EffectiveWeight(p) ELSE 1
RoundTotal(rnd) == Total([i \in DOMAIN rnd.list |-> rnd.counts[rnd.list[i]]])
Chosen(rnd, p) ==
    LET counted == [rnd EXCEPT !.counts[p] = @ + 1]
    IN  IF counted.same /\ \A x \in ToSet(rnd.list) : counted.counts[x] = Share(x)
        THEN NewRound(rnd.list) ELSE counted
RoundFor(list) == IF round.list = list THEN round ELSE NewRound(list)

\* Mutant: the place is read and written back in two steps, as by a counter
\* that is not atomic; a second request reads the same place.
RoundRobinUnmoved(r, p) ==
    LET list == req[r].list
    IN  /\ p = list[(index % Len(list)) + 1]
        /\ index' \in {index, (index + 1) % IndexPeriod}
        /\ round' = Chosen(RoundFor(list), p)
        /\ UNCHANGED <<deck, position, lastLen, weights, lastIDs>>

\* RoundRobinRouter: an atomic counter.
RoundRobin(r, p) ==
    LET list == req[r].list
    IN  /\ p = list[(index % Len(list)) + 1]
        /\ index' = (index + 1) % IndexPeriod
        /\ round' = Chosen(RoundFor(list), p)
        /\ UNCHANGED <<deck, position, lastLen, weights, lastIDs>>

Decks(n) == {f \in [1..n -> 0..n - 1] : IsInjective(f)}

\* ShuffleRouter: a deck of positions, shuffled anew when it is used up or the
\* number of healthy providers has changed.
Shuffle(r, p) ==
    LET list == req[r].list
        again == deck = <<>> \/ Len(list) # lastLen \/ position >= Len(deck)
        current == IF again THEN NewRound(list)
                   ELSE [round EXCEPT !.same = @ /\ round.list = list]
    IN  /\ IF again THEN deck' \in Decks(Len(list)) ELSE UNCHANGED deck
        /\ lastLen' = IF again THEN Len(list) ELSE lastLen
        /\ LET at == IF again THEN 0 ELSE position
           IN  p = list[deck'[at + 1] + 1] /\ position' = at + 1
        /\ round' = Chosen(current, p)
        /\ UNCHANGED <<index, weights, lastIDs>>

\* Mutant: the weight of the chosen one only is taken from it.
WeightedRoundRobinOwnWeight(r, p) ==
    LET list == req[r].list
        kept == IF lastIDs = list THEN weights ELSE [i \in DOMAIN list |-> 0]
        raised == [i \in DOMAIN list |-> kept[i] + EffectiveWeight(list[i])]
        best == CHOOSE i \in DOMAIN list :
                  /\ \A j \in DOMAIN list : raised[j] <= raised[i]
                  /\ \A j \in 1..i - 1 : raised[j] < raised[i]
    IN  /\ p = list[best]
        /\ weights' = [raised EXCEPT ![best] = @ - 2 * EffectiveWeight(p)]
        /\ lastIDs' = list
        /\ round' = Chosen(IF lastIDs = list THEN round ELSE NewRound(list), p)
        /\ UNCHANGED <<deck, position, lastLen, index>>

\* WeightedRoundRobinRouter: every current weight rises by the provider's own,
\* the first of the highest is taken and lowered by the total.
WeightedRoundRobin(r, p) ==
    LET list == req[r].list
        kept == IF lastIDs = list THEN weights ELSE [i \in DOMAIN list |-> 0]
        raised == [i \in DOMAIN list |-> kept[i] + EffectiveWeight(list[i])]
        best == CHOOSE i \in DOMAIN list :
                  /\ \A j \in DOMAIN list : raised[j] <= raised[i]
                  /\ \A j \in 1..i - 1 : raised[j] < raised[i]
    IN  /\ p = list[best]
        /\ weights' = [raised EXCEPT ![best] = @ - TotalWeight(list)]
        /\ lastIDs' = list
        /\ round' = Chosen(IF lastIDs = list THEN round ELSE NewRound(list), p)
        /\ UNCHANGED <<deck, position, lastLen, index>>

\* Mutant: the first tier that is met in the list.
TopTierFirst(list) == Within(list, {p \in ToSet(list) : PriorityOf[p] = PriorityOf[list[1]]})

\* sortByPriority and groupByPriorityDesc put these first, in the list's order.
TopTier(list) ==
    Within(list, {p \in ToSet(list) : \A q \in ToSet(list) : PriorityOf[q] <= PriorityOf[p]})

\* weightedIndex, weightedRandomSelect: the roll falls into the share of one.
DrawnBy(list, roll) ==
    LET until == Sums(Weights(list))
    IN  list[CHOOSE i \in DOMAIN list : until[i - 1] <= roll /\ roll < until[i]]
Drawn(list) == {DrawnBy(list, roll) : roll \in 0..TotalWeight(list) - 1}

\* Strategies without state.
Stateless(r, p) ==
    /\ p \in CASE strategy \in {"failover", "model_based"} -> {TopTier(req[r].list)[1]}
               [] strategy = "weighted_failover" -> Drawn(req[r].list)
               [] strategy = "priority_weighted_failover" -> Drawn(TopTier(req[r].list))
               [] OTHER -> {}
    /\ UNCHANGED routerVars

\* The rest of Select, in one step: the strategy holds its mutex.
Pick(r) ==
    /\ req[r].pc = "pick"
    /\ \E p \in ToSet(req[r].list) :
        /\ \/ strategy = "round_robin" /\ RoundRobin(r, p)
           \/ strategy = "shuffle" /\ Shuffle(r, p)
           \/ strategy = "weighted_round_robin" /\ WeightedRoundRobin(r, p)
           \/ Stateless(r, p)
        /\ Ends(r, "served", p)
    /\ UNCHANGED <<strategy, healthy>>

--------------------------------------------------------------------------------
(* SelectWithRetry: the strategy makes the attempts itself. *)
Attempted(q) == {q.tried[i].provider : i \in DOMAIN q.tried}
Untried(q) == Without(q.list, Attempted(q))

\* The next provider in the strategy's order: by priority, or drawn by weight.
NextToTry(q) ==
    IF strategy = "weighted_failover" THEN Drawn(Untried(q))
    ELSE {TopTier(Untried(q))[1]}

Tried(q, p, outcome) ==
    [q EXCEPT !.tried = Append(@, [provider |-> p, outcome |-> outcome])]

\* An attempt: success, an error that no trigger knows, or one that makes the
\* router go on: to the next in the order, or to a race of all of them.
TryNext(r) ==
    /\ req[r].pc = "try"
    /\ \E p \in NextToTry(req[r]), outcome \in {"ok", "failover", "stop"} :
        LET q == Tried(req[r], p, outcome)
            over == CASE outcome = "ok" -> "served"
                      [] outcome = "stop" -> "stopped"
                      [] outcome = "failover" /\ Len(q.tried) = Len(q.list) -> "failed"
                      [] OTHER -> "no"
        IN  IF over # "no"
            THEN Ends(r, over, p)
            ELSE Goes(r, IF strategy = "weighted_failover" THEN q
                         ELSE [q EXCEPT !.pc = "race", !.tried = <<>>, !.racing = ToSet(q.list)])
    /\ UNCHANGED <<strategy, healthy, routerVars>>

\* Mutant: the first answer of the race ends it, whatever it is.
RaceResultFirst(r) ==
    /\ req[r].pc = "race"
    /\ \E p \in req[r].racing, outcome \in {"ok", "failover"} :
        Ends(r, IF outcome = "ok" THEN "served" ELSE "failed", p)
    /\ UNCHANGED <<strategy, healthy, routerVars>>

\* parallelRace: answers come in any order (a timeout is a failure), the first
\* success wins and the others are cancelled.
RaceResult(r) ==
    /\ req[r].pc = "race"
    /\ \E p \in req[r].racing, outcome \in {"ok", "failover"} :
        LET q == [Tried(req[r], p, outcome) EXCEPT !.racing = @ \ {p}]
        IN  IF outcome = "ok" \/ q.racing = {}
            THEN Ends(r, IF outcome = "ok" THEN "served" ELSE "failed", p)
            ELSE Goes(r, q)
    /\ UNCHANGED <<strategy, healthy, routerVars>>

\* A circuit opens or closes, or a pool runs dry or recovers.
HealthChanges ==
    /\ \E p \in Providers :
        healthy' = IF p \in healthy THEN healthy \ {p} ELSE healthy \cup {p}
    /\ req' = [r \in Requests |->
                IF req[r].pc = "idle" THEN req[r] ELSE [req[r] EXCEPT !.steady = @ \cap healthy']]
    /\ result' = NoResult
    /\ UNCHANGED <<strategy, routerVars>>

Next ==
    \/ \E r \in Requests :
        Arrive(r) \/ Affinity(r) \/ Filter(r) \/ Pick(r) \/ TryNext(r) \/ RaceResult(r)
    \/ HealthChanges

Spec == Init /\ [][Next]_vars

--------------------------------------------------------------------------------
\* As long as the healthy providers are the same, each gets its share before any
\* gets more: one request in a round of round robin or in a deck, its weight in
\* a round of weighted round robin, whatever requests interleave.
FairRounds ==
    strategy \in Stateful /\ round.same =>
        \A p \in Providers : round.counts[p] <= Share(p)

\* Weighted round robin is smooth: at any time a provider is less than one request
\* ahead of its share of the requests so far, and behind it by no more than one for
\* each of the others.
SmoothShares ==
    strategy = "weighted_round_robin" =>
        LET total == TotalWeight(round.list)
            due(p) == RoundTotal(round) * EffectiveWeight(p)
        IN  \A p \in ToSet(round.list) :
                /\ round.counts[p] * total < due(p) + total
                /\ due(p) <= (round.counts[p] + Len(round.list) - 1) * total

Ended(r) == req[r].pc # "idle" /\ req'[r].pc = "idle"

\* A request is refused only for a reason: none of its candidates stayed healthy
\* (with affinity, one did not); or the router's own attempts failed with every
\* provider of its list (but for an error that is none to retry).
RefusalJustified ==
    [][\A r \in Requests : Ended(r) =>
        LET q == req[r]
        IN  /\ result'.outcome = "unhealthy" =>
                  IF q.affine THEN ~(ToSet(q.asked) \subseteq q.steady)
                  ELSE ToSet(q.asked) \cap q.steady = {}
            /\ result'.outcome = "failed" =>
                  Attempted(q) \cup {result'.provider} = ToSet(q.list)]_vars

\* With priorities no candidate that stayed healthy is passed over for one of a
\* lower priority (without affinity, and when the router does not retry itself).
TopPriority ==
    [][\A r \in Requests :
        Ended(r) /\ result'.outcome = "served" /\ ~req[r].affine /\ ~req[r].retry
        /\ strategy \in {"failover", "model_based", "priority_weighted_failover"} =>
            \A p \in ToSet(req[r].asked) \cap req[r].steady :
                PriorityOf[p] <= PriorityOf[result'.provider]]_vars
================================================================================
