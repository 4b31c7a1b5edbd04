------------------------------ MODULE RetryLoop ------------------------------
(***************************************************************************)
(* One request at the Anthropic or the OpenAI endpoint: without retries    *)
(* (serveDirect, serveOpenAIDirect), or in the three-level retry of        *)
(* refused answers: the same key again, another key of the provider,       *)
(* another provider (internal/proxy/handler.go, retry.go, peek_writer.go;  *)
(* openai_handler.go, openai_retry.go).                                    *)
(*                                                                         *)
(* The endpoints hold the same two loops.  Without providers the Anthropic *)
(* one serves the default provider, the OpenAI one refuses.                *)
(*                                                                         *)
(* The two loops differ in when the client sees an answer that is not      *)
(* refused: a buffered one is flushed when it is complete, a streamed one  *)
(* is committed with its first byte.  The upstream's answers fall into     *)
(* three classes, the ones the loops tell apart.  Backoff is a delay and   *)
(* is left out: every step of the environment may fall between two steps.  *)
(***************************************************************************)
EXTENDS Naturals, FiniteSets, Sequences

CONSTANTS
    Providers,
    KeysOf,            \* the keys of each provider's pool, {} without a pool
    DefaultProvider,   \* served when the router has no candidates at all
    Transparent,       \* SupportsTransparentAuth: may be sent the client's credentials
    SameKeyRetries,    \* same_key_retries
    KeyRetries,        \* key_retries
    ProviderRetries,   \* provider_retries
    MaxTotalAttempts   \* max_total_attempts

ASSUME RetryAssumption ==
    /\ DOMAIN KeysOf = Providers
    /\ DefaultProvider \in Providers
    /\ Transparent \subseteq Providers
    /\ {SameKeyRetries, KeyRetries, ProviderRetries, MaxTotalAttempts}
         \subseteq Nat \ {0}

\* selectKeyFromPoolExcluding asks the pool this many times.
MaxDraws == 3

SingleKey == "default"

Pooled(p) == KeysOf[p] # {}

PoolKeys == UNION {{p} \X KeysOf[p] : p \in Providers}

Tried == PoolKeys \cup (Providers \X {SingleKey})

Busy == "429"
Forbidden == "403"
Final == "final"            \* every other status: a success or an error

Refusals == {Busy, Forbidden}
Answers == Refusals \cup {Final}

None == "none"
Unavailable == "503"        \* no provider, or no key of any provider
ProxyError == "500"

KeysExhausted == "429 of the relay"

Replies == {None, Unavailable, ProxyError, KeysExhausted} \cup Answers

Anthropic == "anthropic"
OpenAI == "openai"
Endpoints == {Anthropic, OpenAI}

VARIABLES
    endpoint,           \* the handler: Handler or OpenAIHandler
    retrying,           \* routing.retry.enabled
    clientAuth,         \* the client sends credentials of its own
    streaming,          \* isStreamingRequest
    live,               \* the providers the configuration enables
    available,          \* the keys of the pools that GetKey may return
    pc,
    providerAttempt, keyAttempt, sameKeyAttempt, draws,  \* loop counters
    excludedProviders, excludedKeys,                     \* retryContext
    triedKeys,          \* retryContext: <<provider, key>> of each attempt
    provider, key,      \* the ones being tried
    last,               \* lastRecorder, lastPeek
    answers,            \* what the upstream answered to each attempt
    reply,              \* what the client was sent
    shortRetryAfter     \* overrideRetryAfter was applied to it

configVars == <<endpoint, retrying, clientAuth, streaming, live>>
counters == <<providerAttempt, keyAttempt, sameKeyAttempt, draws>>
excluded == <<excludedProviders, excludedKeys>>
target == <<provider, key>>
history == <<triedKeys, answers>>
outcome == <<last, reply, shortRetryAfter>>

vars == <<configVars, available, pc, counters, excluded, target, history, outcome>>

Places == {"provider", "proxy", "key", "attempt", "upstream", "keyDone",
           "providerDone", "exhausted", "streaming", "done", "aborted",
           "direct", "directKey", "directAttempt", "directSent"}

AttemptCount == Len(triedKeys)

CanRetry == AttemptCount < MaxTotalAttempts

\* The keys GetKey may return: which one its selector prefers is left open
\* (module KeyPool).
Drawable(p) == {k \in KeysOf[p] : <<p, k>> \in available}

HasAvailableKeys(p) == ~Pooled(p) \/ Drawable(p) # {}

\* Mutant: providers given up are candidates again.
CandidatesAll == {p \in live : HasAvailableKeys(p)}

Candidates == {p \in live : HasAvailableKeys(p) /\ p \notin excludedProviders}

\* setAuth sends the client's credentials instead of a key.
OwnCredentials(p) == clientAuth /\ p \in Transparent

Init ==
    /\ endpoint \in Endpoints
    /\ retrying \in BOOLEAN
    /\ clientAuth \in BOOLEAN
    /\ endpoint = OpenAI => ~clientAuth
    /\ streaming \in BOOLEAN
    /\ live \in SUBSET Providers
    /\ available = PoolKeys
    /\ pc = IF retrying THEN "provider" ELSE "direct"
    /\ providerAttempt = 0 /\ keyAttempt = 0 /\ sameKeyAttempt = 0 /\ draws = 0
    /\ excludedProviders = {} /\ excludedKeys = {}
    /\ triedKeys = <<>> /\ answers = <<>>
    /\ provider = DefaultProvider /\ key = SingleKey
    /\ last = None /\ reply = None /\ shortRetryAfter = FALSE

\* The last refusal with a short Retry-After, or an error of the relay's own.
GiveUp(error) ==
    /\ pc' = "done"
    /\ reply' = IF last # None THEN last ELSE error
    /\ shortRetryAfter' = (last # None)
    /\ UNCHANGED last

\* providerCandidates has none; the OpenAI endpoint knows no default provider.
NoneConfigured == live = {} /\ endpoint = Anthropic

(***************************************************************************)
(* The provider loop.                                                      *)
(***************************************************************************)

\* selectProviderExcluding.  The router takes one of the candidates it finds
\* healthy; its strategy and the circuits (module CircuitBreaker) are left
\* open.  The pools are read one by one; since Environment may change them all
\* at once, reading them together loses no outcome.  When no provider is
\* enabled the default one is taken, whatever was excluded.
SelectProvider ==
    /\ pc = "provider" /\ providerAttempt <= ProviderRetries
    /\ provider' \in IF NoneConfigured THEN {DefaultProvider} ELSE Candidates
    /\ pc' = "proxy"
    /\ UNCHANGED <<configVars, available, counters, excluded, key, history, outcome>>

NoProvider ==
    /\ pc = "provider" /\ providerAttempt <= ProviderRetries
    /\ ~NoneConfigured
    /\ \E healthy \in SUBSET Providers : Candidates \cap healthy = {}
    /\ GiveUp(Unavailable)
    /\ UNCHANGED <<configVars, available, counters, excluded, target, history>>

GetProxy ==
    /\ pc = "proxy"
    /\ pc' = "key" /\ keyAttempt' = 0 /\ draws' = 0
    /\ UNCHANGED <<configVars, available, providerAttempt, sameKeyAttempt,
                   excluded, target, history, outcome>>

ProxyFails ==
    /\ pc = "proxy"
    /\ GiveUp(ProxyError)
    /\ UNCHANGED <<configVars, available, counters, excluded, target, history>>

\* Mutant: the loop goes on to the next provider without counting it.
ProviderDoneUncounted ==
    /\ pc = "providerDone"
    /\ excludedProviders' = excludedProviders \cup {provider}
    /\ pc' = IF CanRetry THEN "provider" ELSE "exhausted"
    /\ UNCHANGED <<configVars, available, counters, excludedKeys, target,
                   history, outcome>>

ProviderDone ==
    /\ pc = "providerDone"
    /\ excludedProviders' = excludedProviders \cup {provider}
    /\ \/ /\ CanRetry
          /\ pc' = "provider"
          /\ providerAttempt' = providerAttempt + 1
       \/ /\ ~CanRetry
          /\ pc' = "exhausted"
          /\ UNCHANGED providerAttempt
    /\ UNCHANGED <<configVars, available, keyAttempt, sameKeyAttempt, draws,
                   excludedKeys, target, history, outcome>>

Exhausted ==
    /\ \/ pc = "exhausted"
       \/ pc = "provider" /\ providerAttempt > ProviderRetries
    /\ GiveUp(Unavailable)
    /\ UNCHANGED <<configVars, available, counters, excluded, target, history>>

(***************************************************************************)
(* The key loop.                                                           *)
(***************************************************************************)

TakeKey(k) ==
    /\ key' = k
    /\ sameKeyAttempt' = 0
    /\ pc' = "attempt"

\* A provider without a pool has its one key drawn again on every turn: its
\* exclusion is recorded and not looked up.
SingleKeyTurn ==
    /\ pc = "key" /\ keyAttempt <= KeyRetries
    /\ ~Pooled(provider)
    /\ TakeKey(SingleKey)
    /\ UNCHANGED <<configVars, available, providerAttempt, keyAttempt, draws,
                   excluded, provider, history, outcome>>

\* Mutant: the exclusion list is not consulted.
DrawKeyUnchecked ==
    /\ pc = "key" /\ keyAttempt <= KeyRetries
    /\ Pooled(provider)
    /\ \E k \in Drawable(provider) : TakeKey(k)
    /\ UNCHANGED <<configVars, available, providerAttempt, keyAttempt, draws,
                   excluded, provider, history, outcome>>

DrawKey ==
    /\ pc = "key" /\ keyAttempt <= KeyRetries
    /\ Pooled(provider)
    /\ \E k \in Drawable(provider) :
         \/ /\ <<provider, k>> \notin excludedKeys
            /\ TakeKey(k)
            /\ UNCHANGED draws
         \/ /\ <<provider, k>> \in excludedKeys
            /\ draws' = draws + 1
            /\ pc' = IF draws' < MaxDraws THEN "key" ELSE "providerDone"
            /\ UNCHANGED <<key, sameKeyAttempt>>
    /\ UNCHANGED <<configVars, available, providerAttempt, keyAttempt, excluded,
                   provider, history, outcome>>

\* GetKey fails: every key cools down, is unhealthy or is at its limit.
NoKey ==
    /\ pc = "key" /\ keyAttempt <= KeyRetries
    /\ Pooled(provider) /\ Drawable(provider) = {}
    /\ pc' = "providerDone"
    /\ UNCHANGED <<configVars, available, counters, excluded, target, history, outcome>>

KeysSpent ==
    /\ pc = "key" /\ keyAttempt > KeyRetries
    /\ pc' = "providerDone"
    /\ UNCHANGED <<configVars, available, counters, excluded, target, history, outcome>>

KeyDone ==
    /\ pc = "keyDone"
    /\ excludedKeys' = excludedKeys \cup {<<provider, key>>}
    /\ \/ /\ CanRetry
          /\ pc' = "key" /\ keyAttempt' = keyAttempt + 1 /\ draws' = 0
       \/ /\ ~CanRetry
          /\ pc' = "providerDone"
          /\ UNCHANGED <<keyAttempt, draws>>
    /\ UNCHANGED <<configVars, available, providerAttempt, sameKeyAttempt,
                   excludedProviders, target, history, outcome>>

(***************************************************************************)
(* The same-key loop.                                                      *)
(***************************************************************************)

\* Mutant: only the levels bound the attempts.
AttemptUncounted ==
    /\ pc = "attempt" /\ sameKeyAttempt <= SameKeyRetries
    /\ triedKeys' = Append(triedKeys, <<provider, key>>)
    /\ pc' = "upstream"
    /\ UNCHANGED <<configVars, available, counters, excluded, target, answers, outcome>>

Attempt ==
    /\ pc = "attempt" /\ sameKeyAttempt <= SameKeyRetries
    /\ CanRetry
    /\ triedKeys' = Append(triedKeys, <<provider, key>>)
    /\ pc' = "upstream"
    /\ UNCHANGED <<configVars, available, counters, excluded, target, answers, outcome>>

LeaveKey ==
    /\ pc = "attempt"
    /\ sameKeyAttempt > SameKeyRetries \/ ~CanRetry
    /\ pc' = "keyDone"
    /\ UNCHANGED <<configVars, available, counters, excluded, target, history, outcome>>

\* modifyResponse has already dealt with the key when the loop sees the
\* refusal: a 403 always cools it down, a 429 for as long as the response asks
\* (module CooldownResolver).
Refusal(status) ==
    /\ pc = "upstream"
    /\ status \in Refusals
    /\ answers' = Append(answers, status)
    /\ available' \in IF status = Forbidden
                      THEN {available \ {<<provider, key>>}}
                      ELSE {available, available \ {<<provider, key>>}}
    /\ UNCHANGED <<configVars, providerAttempt, keyAttempt, draws, excluded,
                   target, triedKeys, reply, shortRetryAfter>>

SameKeyAgain ==
    /\ pc' = "attempt"
    /\ sameKeyAttempt' = sameKeyAttempt + 1

\* Only a 403 breaks out of the loop: the error category that would make a 429
\* do so (isTransient429) is never recorded.
Escalation(status) ==
    \/ status = Forbidden /\ pc' = "keyDone" /\ UNCHANGED sameKeyAttempt
    \/ status = Busy /\ SameKeyAgain

\* Mutant: the first refusal is kept for the client instead of the last.
RefusedKeepsFirst(status) ==
    /\ Refusal(status)
    /\ last' = IF last = None THEN status ELSE last
    /\ Escalation(status)

\* Mutant: a 403 stays in the same-key loop.
RefusedNoBreak(status) ==
    /\ Refusal(status)
    /\ last' = status
    /\ SameKeyAgain

Refused(status) ==
    /\ Refusal(status)
    /\ last' = status
    /\ Escalation(status)

(***************************************************************************)
(* Without retries.                                                        *)
(***************************************************************************)

\* A refusal of the relay's own ends the request.
Refuse(error) ==
    /\ pc' = "done"
    /\ reply' = error
    /\ UNCHANGED <<configVars, available, counters, excluded, target, history,
                   last, shortRetryAfter>>

\* Only the OpenAI endpoint looks at the keys before it asks the router.
DirectCandidates ==
    IF endpoint = OpenAI THEN {p \in live : HasAvailableKeys(p)} ELSE live

DirectSelect ==
    /\ pc = "direct"
    /\ provider' \in IF NoneConfigured THEN {DefaultProvider} ELSE DirectCandidates
    /\ pc' = "directKey"
    /\ UNCHANGED <<configVars, available, counters, excluded, key, history, outcome>>

\* No provider, none healthy, or none with a key.
DirectNoProvider ==
    /\ pc = "direct"
    /\ ~NoneConfigured
    /\ IF live # {} /\ DirectCandidates = {} THEN Refuse(KeysExhausted) ELSE Refuse(Unavailable)

\* The client's own credentials need no key; neither does a provider without a pool.
DirectKey ==
    /\ pc = "directKey"
    /\ key' \in IF Pooled(provider) /\ ~OwnCredentials(provider)
                 THEN Drawable(provider) ELSE {SingleKey}
    /\ pc' = "directAttempt"
    /\ UNCHANGED <<configVars, available, counters, excluded, provider, history, outcome>>

DirectNoKey ==
    /\ pc = "directKey"
    /\ \/ Refuse(ProxyError)
       \/ /\ Pooled(provider) /\ ~OwnCredentials(provider) /\ Drawable(provider) = {}
          /\ Refuse(KeysExhausted)

DirectAttempt ==
    /\ pc = "directAttempt"
    /\ triedKeys' = Append(triedKeys, <<provider, key>>)
    /\ pc' = "directSent"
    /\ UNCHANGED <<configVars, available, counters, excluded, target, answers, outcome>>

\* The answer is passed on, whatever it is.
DirectAnswered(status) ==
    /\ pc = "directSent"
    /\ answers' = Append(answers, status)
    /\ reply' = status
    /\ pc' = IF streaming THEN "streaming" ELSE "done"
    /\ \/ status # Forbidden /\ UNCHANGED available
       \/ status \in Refusals /\ available' = available \ {<<provider, key>>}
    /\ UNCHANGED <<configVars, counters, excluded, target, triedKeys, last, shortRetryAfter>>

(***************************************************************************)
(* The end of a request.                                                   *)
(***************************************************************************)

\* Any other status, 502 for an upstream that cannot be reached included.  The
\* buffer of a complete response becomes lastRecorder; a streamed answer leaves
\* lastPeek alone.
Answered ==
    /\ pc = "upstream"
    /\ answers' = Append(answers, Final)
    /\ reply' = Final
    /\ pc' = IF streaming THEN "streaming" ELSE "done"
    /\ last' = IF streaming THEN last ELSE Final
    /\ UNCHANGED <<configVars, available, counters, excluded, target, triedKeys,
                   shortRetryAfter>>

StreamEnds ==
    /\ pc = "streaming"
    /\ pc' = "done"
    /\ UNCHANGED <<configVars, available, counters, excluded, target, history, outcome>>

\* The body of an answer breaks off: the reverse proxy panics with
\* http.ErrAbortHandler and the request ends without an attempt more.
BodyBreaks ==
    /\ pc \in {"upstream", "streaming", "directSent"}
    /\ pc' = "aborted"
    /\ UNCHANGED <<configVars, available, counters, excluded, target, history, outcome>>

Ended == pc \in {"done", "aborted"}

\* Other requests and the passing of time change what the pools offer.  It
\* is read in four places only, and a change made elsewhere has the effect of
\* one made there.
Environment ==
    /\ pc \in {"provider", "key", "direct", "directKey"}
    /\ available' \in SUBSET PoolKeys
    /\ UNCHANGED <<configVars, pc, counters, excluded, target, history, outcome>>

ProviderLoop ==
    SelectProvider \/ NoProvider \/ GetProxy \/ ProxyFails \/ ProviderDone \/ Exhausted

KeyLoop == SingleKeyTurn \/ DrawKey \/ NoKey \/ KeysSpent \/ KeyDone

AttemptLoop ==
    \/ Attempt \/ LeaveKey \/ Answered \/ StreamEnds \/ BodyBreaks
    \/ \E status \in Refusals : Refused(status)

Direct ==
    \/ DirectSelect \/ DirectNoProvider \/ DirectKey \/ DirectNoKey \/ DirectAttempt
    \/ \E status \in Answers : DirectAnswered(status)

Step == ProviderLoop \/ KeyLoop \/ AttemptLoop \/ Direct

Next == Step \/ Environment

\* The goroutine of the request runs on; an upstream answers, or the transport
\* or the client gives up on it.
Spec == Init /\ [][Next]_vars /\ WF_vars(Step)

(***************************************************************************)
(* Properties.                                                             *)
(***************************************************************************)

TypeOK ==
    /\ endpoint \in Endpoints /\ retrying \in BOOLEAN /\ clientAuth \in BOOLEAN
    /\ streaming \in BOOLEAN /\ live \in SUBSET Providers
    /\ available \in SUBSET PoolKeys
    /\ pc \in Places
    /\ providerAttempt \in Nat /\ keyAttempt \in Nat /\ sameKeyAttempt \in Nat
    /\ draws \in 0 .. MaxDraws
    /\ excludedProviders \in SUBSET Providers /\ excludedKeys \in SUBSET Tried
    /\ triedKeys \in Seq(Tried) /\ answers \in Seq(Answers)
    /\ provider \in Providers
    /\ pc \in {"attempt", "upstream", "keyDone", "directAttempt"} => <<provider, key>> \in Tried
    /\ last \in {None} \cup Answers /\ reply \in Replies
    /\ shortRetryAfter \in BOOLEAN

\* The client gets the answer to the last attempt that was made, and an error
\* of the relay's own only when none was; the short Retry-After marks exactly
\* the refusals of a request with retries, and nothing is tried after the answer that was passed on.
ReplyIsLastAnswer ==
    /\ pc \in {"done", "streaming"} =>
         /\ Len(answers) = AttemptCount
         /\ IF answers = <<>> THEN reply \in {Unavailable, ProxyError, KeysExhausted}
                              ELSE reply = answers[Len(answers)]
         /\ shortRetryAfter <=> retrying /\ reply \in Refusals
    /\ \A i \in 1 .. Len(answers) - 1 : answers[i] \in Refusals

ProvidersTried == {triedKeys[i][1] : i \in 1 .. AttemptCount}

KeysTriedOf(p) ==
    {triedKeys[i][2] : i \in {j \in 1 .. AttemptCount : triedKeys[j][1] = p}}

\* max_total_attempts bounds the attempts of all levels together, and there is
\* but one without retries; with candidates to choose from, provider_retries
\* bounds the providers tried and key_retries the keys tried of each.
AttemptsBounded ==
    /\ AttemptCount <= IF retrying THEN MaxTotalAttempts ELSE 1
    /\ live # {} =>
         /\ Cardinality(ProvidersTried) <= ProviderRetries + 1
         /\ \A p \in ProvidersTried : Cardinality(KeysTriedOf(p)) <= KeyRetries + 1

\* A key of a pool that the loop has given up is not tried again, however
\* often the pool offers it: its attempts are consecutive and at most
\* same_key_retries + 1.
KeysVisitedOnce ==
    \A p \in Providers : Pooled(p) =>
        \A i, k \in 1 .. AttemptCount :
            (i < k /\ triedKeys[i] = triedKeys[k] /\ triedKeys[i][1] = p) =>
                /\ k - i <= SameKeyRetries
                /\ \A j \in i .. k : triedKeys[j] = triedKeys[i]

\* When some provider is enabled, one that was tried and given up is not
\* selected again.
ProvidersVisitedOnce ==
    [][SelectProvider /\ live # {} => provider' \notin ProvidersTried]_vars

LastTried == triedKeys[AttemptCount]

\* handler.go:809, "403 never benefits from same-key retry": a pool's key answered
\* 403 is left at once.  (The single key of a provider without a pool is not: the
\* key loop hands it out again.)
ForbiddenPoolKeyNotRetried ==
    [][Attempt /\ last = Forbidden /\ Pooled(provider)
         => LastTried' # LastTried]_vars

\* "Client's headers forwarded unchanged. CC-Relay acts as a pure proxy"
\* (architecture.md:291): what the client's own credentials are refused for is
\* not held against a key of the pool.
PoolLeftAlone ==
    [][\A status \in Refusals :
         Refused(status) /\ OwnCredentials(provider) => UNCHANGED available]_vars

\* Every request ends, whatever the pools, the circuits and the upstreams do.
RequestEnds == <>Ended

=============================================================================
