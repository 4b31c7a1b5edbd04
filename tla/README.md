# cc-relay in TLA+

cc-relay is an HTTP relay between Claude Code (or an OpenAI client) and several
LLM providers. It holds pools of API keys with their rate limits and cooldowns,
a circuit breaker per provider, routing strategies, a retry loop over keys and
providers, a limit on concurrent requests, a response cache, a token source
shared with the Codex app, and a configuration that is reloaded while requests
are served. The modules here specify the parts of it where concurrency, failure
and order decide the outcome. TLC checks them on small instances, and the TLA+
proof system proves the main theorems for all instances.

`PROJECT.json` lists components, runs, hazards, findings and theorems, and maps
every definition to the lines it models. Paths below are relative to
`src/internal`.

## The system

| Part | Code | State | Operations |
| --- | --- | --- | --- |
| Key pool | `keypool/` | per key: health, cooldown, limits and remaining counts learnt from headers, reset times; rotation counter | `GetKey`, `UpdateKeyFromHeaders`, `MarkKeyExhausted`, `MarkKeyUnhealthy`, `MarkKeyHealthy`, `GetEarliestResetTime` |
| Rate limiter | `ratelimit/` | a token bucket per key | `Allow`, `SetLimit` |
| Cooldown resolvers | `providers/cooldown.go`, `zai_errors.go`, `proxy/keypool_updater.go` | none | response to decision: cooldown, permanent, hidden from the circuit |
| Circuit breaker, tracker | `health/` | a map of circuits, one `gobreaker` each | `IsHealthyFunc`, `RecordSuccess`, `RecordFailure`, `GetState`, `Reset` |
| Health checker | `health/checker.go` | ticker, cancel function | `Start`, `Stop`, a check of every open circuit |
| Concurrency limit | `proxy/middleware.go` | limit and counter, atomics | `TryAcquire`, `Release`, `SetLimit` |
| Routing strategies | `router/`, `di/router_service.go` | cached router; in-flight count per provider; deck, weights, index | `Select`, `Acquire`, `Release`, `GetRouter`, `SelectWithRetry` |
| Selection | `proxy/handler.go`, `retry.go`, `model_filter.go` | none | model routing, thinking affinity, exclusions |
| Retry loop | `proxy/handler.go`, `retry.go`, `peek_writer.go`, `openai_*.go` | one `retryContext` per request | three nested loops, buffered or streamed; the direct path |
| Proxies | `proxy/handler.go`, `provider_proxy.go` | cache of provider proxies | `getOrCreateProxy`, `modifyResponse` |
| Bodies of requests | `proxy/thinking*.go`, `signature_cache.go`, `model_rewrite.go`, `providers/transform.go` | a signature cache | `ProcessRequestThinking`, `HasThinkingSignature`, `StripThinkingForProviderSwitch`, `TransformRequest` |
| Bedrock's answers | `providers/eventstream.go`, `proxy/provider_proxy.go` | two buffers per stream | `Read` of the wrapped body, `ProcessEventStream` |
| Images endpoint | `proxy/images_*.go` | the token source and its path | `resolveToken`, a loop of calls |
| Codex token source | `../codexauth/` | cached token, file's time and size; the token file itself | `Get`, `EnsureFresh`, `Refresh` under a lock between processes |
| Response cache | `cache/` | `closed`, a lock, one of three backends | `New`, `Get`, `Set`, `SetWithTTL`, `Delete`, `Exists`, `Stats`, `Ping`, `Close` |
| Reload | `config/watcher.go`, `runtime.go`, `di/*_service.go` | debounce timer, one goroutine per timer that fired, configuration pointer, provider maps, routing lists, pools | `handleEvent`, `triggerReload`, the callbacks in their order, `Close` |
| Checker service | `di/health_service.go`, `health/checker.go` | current checker, `started`, a mutex | `rebuildFrom`, `swapChecker`, `Shutdown` |
| The rest | `auth`, `config` (loading, validation), `di` (wiring), `cmd`, `vinfo`, docs | none shared between requests | |

**How they interact.** A request passes the concurrency limit. The handler
prepares its body once, and asks the live router for a provider; the router
filters candidates by the tracker's state and by whether the pool has an
available key. `GetKey` then gives a key of the provider's pool. The reverse
proxy forwards the request, and when an answer arrives `modifyResponse` updates
the key from the headers, applies the cooldown decision, reports to the circuit
and wraps an event stream. A 429 or 403 sends the request round the retry loop.
Deferred calls release the providers and, last, the slot. A reload changes the
limit, the routing, the pools and the circuits between any two of those steps.
An images request takes its token from a file that the Codex app rewrites.

**What is hard about it.** Nearly every lock is released before its result is
used: `GetKey` works on a copy of the keys, a report to a circuit takes three
critical sections, `LiveRouter` fetches the router anew for each call, the
healthy providers are read before the strategy's mutex is taken, and the
router cache is filled by whoever stores last. Answers come late and in any
order. Counters are bounded or must return to zero. The nested loops have a
dozen exits. The token file has a writer that knows no lock, refresh tokens are
good for one use, and any process may die between the server's answer and the
file. Calls on the cache meet its `Close`. A reload may overtake all of it.

**What makes each part correct.**

- *Key pool*: a usable key is found, tiers are kept, a limiter is not overdrawn,
  and the call ends.
- *Circuit breaker*: whatever reports race, the router sees one three-state
  breaker, and no probe slot is lost for good.
- *Concurrency limit*: the counter is the number of admitted requests and
  admissions respect the limits they were made under.
- *Routing*: loads are neither lost nor counted twice; every provider has its
  share; nobody is refused, or sent to a lower tier, without a reason.
- *Retry loop*: the client gets the last answer; attempts are bounded; nothing
  given up is tried again; the request ends.
- *Bodies and streams*: rewriting loses nothing but thinking, what is sent can be
  validated by the provider it goes to, and the client gets the events of a converted
  stream in their order, without a gap, and when it ends cleanly all of the complete messages
  that the converter takes (a last message that was cut off is not told from the end).
- *Token source*: a token returned was in the file during the call; refreshes do
  not ruin the login or spend a token twice; every call ends.
- *Images*: a request's token is its own file's, its answer what its calls brought.
- *Cache*: every read takes effect at one moment of the call, every write at most once,
  nobody touches a backend that was shut down, a factory that fails leaks nothing, and every
  call returns.
- *Reload*: no change of the file is missed, every service ends up with the
  newest configuration, the current health checker runs and any other has been
  told to stop, and new requests see nothing older.

## Modules

| Module | Models | Notes |
| --- | --- | --- |
| `CooldownResolver` | the resolvers | a function from a response (status, Retry-After, reset, class of body) to a decision |
| `KeyPool` | pool, selectors, limiters, responses | extends `CooldownResolver` |
| `Breaker` | what a circuit promises | abstract: one outcome at a time |
| `CircuitBreaker` | tracker, circuits, reporters, checker, reset | implements `Breaker` |
| `ConcurrencyLimiter` | the limiter and its middleware | |
| `RouterLoad` | router cache, live router, least-loaded counters | other strategies left open |
| `Serving` | `ConcurrencyLimiter` composed with `RouterLoad` | the handler runs inside the middleware |
| `Strategies` | selection, and every strategy but the least loaded | |
| `RetryLoop` | one request at either endpoint, direct or in the retry loops | |
| `Thinking` | the thinking blocks of a conversation | |
| `EventStream` | Bedrock's stream and its two converters | |
| `Exchange` | `Thinking` composed with `EventStream` over the attempts of one request | |
| `CodexToken` | the token source, its file, its lock, the server, the Codex app | |
| `CodexImages` | `CodexToken` with the images endpoint | extends `CodexToken` |
| `CacheContract` | what `cache.go` promises of every backend | abstract: a read is one moment, a write may come later |
| `Cache` | factory, backends, closing | implements `CacheContract` |
| `HotReload` | watcher, timer, overlapping reloads, callbacks, health checkers, shutdown | |
| `ProxyCache` | `HotReload` with requests and the cache of provider proxies | extends `HotReload` |
| `*Proofs` | theorems about the module they extend | `ServingProofs` also those of the limiter alone, `CodexProofs` those of `CodexToken` and `CodexImages`, `ExchangeProofs` those of `Exchange` and of `Cache`, where signatures are kept, `ReloadProofs` those of `HotReload` and `ProxyCache` |
| `MC*` | constants for TLC | |

Definitions marked `Mutant:` are plausible errors of the definition below them;
nothing uses them but `PROJECT.json`, which names for every property the error
that it catches.

**KeyPool.** Each step of `GetKey` is an action: the copy of the keys under the
lock (`GetKey`), a selection (`SelectKey`, `SelectFails`), and the limiter's
answer (`Allow`, `Refuse`). `pc` is the place of each request. A response is two
steps, as in the code: `Respond` applies the headers, `ApplyResponse` the
cooldown decision. Time counts ticks. Buckets count fractions of a request, so
refill is integer arithmetic; the code's float bucket has finer steps and the
same bounds. `usable`, `epoch` and `spent` are history variables: nothing but
the properties reads them. `MarkKeyHealthy` has no caller in the program except
tests; it is included as the pool's interface. A rebuilt pool (a reload) begins
in `Init`.

**CircuitBreaker.** `Route` and `IsHealthy` are the two critical sections of
`IsHealthyFunc`; `Record`, `Allow` and `Done` those of a report; the checker
reads a state without creating a circuit. `sony/gobreaker` is a library and is
modelled from how `circuit.go` uses it, including the generation that makes it
drop late outcomes. `Reset` leaves circuits in `breakers` that reporters still
hold.

**ConcurrencyLimiter, RouterLoad, Serving.** Every atomic load, add and
compare-and-swap is a step; so is every read of a counter in `Select`, which keeps the
providers it has still to read (`unread`) and the least load so far with those that have
it (`least`). `LiveRouter`
calls are `config -> cache -> (store ->) call`. `Serving` conjoins the two: the
handler's steps need an admitted request, and the handler's return is the step
in which the slot is released.

**Strategies.** A request is `Arrive` (candidates after model routing and
exclusions), `Affinity` or `Filter` (the look at health), `Pick` (the
strategy under its mutex, from the list that was read before), and for the
failover router's own retries `TryNext` and `RaceResult`. What a strategy keeps
is its variables: `index`, `deck` with `position` and `lastLen`, `weights`. The
counter of round robin wraps at 2^64 in the code and is kept modulo
`IndexPeriod`, a multiple of every list's length. Random draws are left open.
`round` is a history variable: the requests since the list of healthy providers
last changed. `SmoothShares` has two sides, and they differ: a provider is never a whole
request ahead of its share, but may be more than one behind (with weights 24, 24, 1, 1, 9
the last is 1.017 requests behind at one point), though never more than one for each of the
other providers. `SelectWithRetry` and its race have no caller in the program and
are included as the package's interface.

**RetryLoop.** `pc` is the place in the three loops, or on the direct path. The
endpoint is a variable: both have the same two loops, and differ in what they do
without providers and in what the direct path looks at first. The pools are one
set, `available`, that `Environment` changes arbitrarily. It is read at four places
only, and changes are made there: a change made elsewhere has the effect of one
made at the next read. The circuits are left open: any subset of the candidates
may be healthy. `live` is constant, so a reload during a request is not
modelled here. The body of the request is in memory before the loop begins, so
buffering it cannot fail. When no provider is enabled the Anthropic handler serves
its default provider and ignores the exclusions; the properties that do not hold
then say so (`live # {}`).

**Thinking, EventStream, Exchange.** `Thinking` has the body as messages of blocks;
each pass over a message (`ProcessAssistantContent`, `Rebuild`) is a step, between
which entries of the cache expire. A text is a sequence, because the events of
an answer accumulate it. A signature is its text and whether it has the relay's
prefix. `EventStream` counts the wire in units: a prelude of two and the rest of
each message; chunks end anywhere. `Offsets` and `FormatAll` are functions computed
message after message, like the loops of the source; so are the filters over blocks
(`Chosen`) and the removal of messages (`DropMessages`, from the last position to the first).
`BodyOK` says what a client may send: messages of the API's two roles, of which only the
assistant reasons, with any blocks in any order, signed or not. Some decisions are made on the parsed body
(`HasThinkingSignature`) and some by a search of its bytes (`HasThinkingBlocks`, and the one
for reasoning content), which finds two spellings and may find them in other places; so a
body has `markers`, which of the patterns occur in the client's bytes, and they need not
agree with its blocks. What is cached for an answer's text is buffered by the cache, and
lands some time later or never (`Land`). A message of a stream may claim to be shorter than
it is, or have headers that overrun it; the parser then fails or panics (`MayPanic`), and a
panic ends the stream with the events before it. `Exchange` sends a body per attempt, made for
the provider that is tried (`Send`), and accepts or refuses it freely.

**CodexToken, CodexImages.** A call of the source is a record: `pc` is its place
(cache, waiting for the lock, read, the server, persist, cache). Tokens are the
numbers of the server's answers. A stamp is a file's time and size, which is all that the
cache compares (`token.go:128`); any write may give any of them, so two may give the same.
`GetAnswer`, `ReadFile` and the rest are the steps of a caller; `AppNext` is
the Codex app, which takes no lock and refreshes in two steps: `AppPost` spends the file's
refresh token at the server, and `AppWrite` puts the new login into the file some time later,
so that whoever reads in between has a token that was already used. `Crash` kills a process, whose lock the system
gives back; `Expire` lets tokens run out. `CodexImages` adds `resolveToken` under
the handler's mutex and the loop of calls, each of which brings any number of images, or
fails. The errors of making a call's request (`images_handler.go:178-188`) are left out,
for they cannot occur: the prompt has been found non-empty at line 148, which is all that
`BuildCodexImageRequest` asks for, and the one part that `prependImageParts` looks for has
just been made. `cached[s].overtaken`, `call[c].since`, `theirs` and `stale`, `spent`, `lost`
and `held` are history. Only `Get` has a caller in the program; `EnsureFresh` and
`Refresh` are the package's interface and are what a `Get` has to live with.

**CacheContract, Cache.** In the contract a call is asked, takes effect, and is
answered; forgetting is always allowed. A write may also be kept (`late`) and made after its
answer, or dropped (`Settle`): Ristretto buffers its writes, which is why the tests of the
repository wait before they read (`thinking_test.go:94`) and why Close waits (`ristretto.go:250`).
A deletion does not reach what is in the buffer. An Olric cache is `eager`: what it has
answered with "ok" is there, but a write that it has answered with an error may still arrive. `Cache` has the two looks at `closed`
(`FirstCheck`, `SecondCheck`) around the read lock (`RLock`), the call on the backend
(`Serve`), `Close` with the lock asked for before it is free (`Lock`, `Drain`: Go's
`RWMutex` lets no new reader in), the steps of the factory with their failures, and
the start of an Olric node that outlives its timeout. A backend that is told to end and
reports a failure is `stuck`: the code logs it or returns it and goes on (`olric.go:212,
265, 526`). `INSTANCE CacheContract WITH`
maps `closed` to `~open` and the call in progress to `pending`.

**HotReload.** A load of the file has a number (0 at start-up), and what a load
builds is known by it: `held[s]` is the load that service `s` was last built
from, `madeBy` the load of the provider map that a routing list was made from.
`Callbacks` is the order in which the services register, and each callback is
one step (`RebuildProviders`, `RebuildInfos`, `Replace`), but for the checker's,
which is three: `SwapChecker` under the mutex, `StopOld`, and `StartNew` after
the old goroutine has returned. `pc[r]` and `at[r]` are the place of reload `r`;
several may be at work, each in the goroutine of its timer. `TimerFires` and
`HandleEvent` are separate, so a timer that has fired before it could be stopped
is included. The primary key pool has no reader after start-up and the limit on
requests is `ConcurrencyLimiter`'s; their callbacks are steps that change
nothing here (`Elsewhere`). The breaker of a new configuration is
`CircuitBreaker`'s `Reset`. A provider whose client cannot be created
(`Flaky`) is left out of the map, and an empty map leaves the old one in place.
`last` and `mixed` are history variables.

**ProxyCache.** A request reads the routing list, the keys and the pools, in
separate steps (`Select`, `ReadKeys`, `ReadPools`), and then takes or makes a
proxy (`FastPath`, `MissFast`, `SlowPath`). A proxy is what it was made for: instance, key
and pool. The two handlers differ: `proxyMatches` compares the instance, and reads the keys
before the pools; `openaiProxyMatches` compares the base URL (and the name, by which a proxy is looked up), and
reads the pools first (`Alike`, `PoolsFirst`). A proxy of an older instance with the same
base URL, key and pool is as good for the OpenAI handler, and `NewRequestsCurrent` asks no
more of it. A provider keeps its type across reloads. The signal to stop is let come
between requests, since `server.Shutdown` waits for those in flight.

## Runs

| Run | Instance | Question |
| --- | --- | --- |
| `keypool_tiers` | 3 keys in 2 tiers, rotated; 2 requests; Z.AI errors; 2 ticks | no false exhaustion, tiers kept, never `ErrNoKeys` |
| `keypool_headers` | 2 keys by capacity; headers that repeat and raise the limit; 3 ticks; fair | rate bound under replaced limiters, `GetKey` answers |
| `breaker` | 2 requests, checker, 2 circuits (one reload), thresholds 2 and 1, probes 2 and 1, 3 ticks; fair | probe slots accounted for, implements `Breaker`, half-open resolves |
| `serving` | 2 requests, 2 providers, limits none and 1, 2 routings, 2 routers | exact counter, admissions, loads conserved, loads within the limit |
| `routing` | 3 providers of weights 1, 2, 3 in 2 tiers; 2 requests; 7 strategies | shares, smoothness, refusals and tiers justified |
| `retry` | 3 providers (pools of 2, 1 and none), both endpoints, with and without retries, one retry per level, 5 attempts; fair | last answer, bounds, nothing given up is tried again, the request ends |
| `reload` | 2 changes, 3 contents (one unparsable), an Anthropic provider (flaky) and one for OpenAI, a request at a time, shutdown at any moment | no change missed, checkers accounted for, new requests current |
| `codex` | 2 goroutines of one process and one of another, 1 file, 2 stamps, 2 tokens (the login's and one more), crashes; fair | tokens current, the login kept, rejections explained, every call ends |
| `images` | 2 requests of up to 2 calls with up to 2 images each, 2 files, 2 stamps, 3 tokens (the logins' and one more) | a request's token is its file's, answers made of what the calls brought |
| `cache` | 2 goroutines, 1 key, 2 values, 2 equal writes kept back (`MaxLate`), 8 configurations of all backends; fair | nobody uses a closed backend, nothing leaked, keeps `CacheContract`, calls return |
| `exchange` | conversations around every assistant message of up to 2 blocks out of 10; 2 providers, one of them Bedrock; bodies with every combination of markers; streams of up to 3 messages cut at every unit | conversations kept, thinking presentable, attempts fit their provider, streams exact |
| `exchange_plain_content` | the same | must be violated, see below |

A few steps make the shortest story that could go wrong in each of
them, and each instance is large enough for it:

- `keypool_tiers`: a limit of one request per minute lets a bucket run out on
  the second request, so `Refuse` shortens the copy while the other request
  cools a key of the tier above down. Two ticks let a bucket refill in the
  middle of a call. Three keys give a tier with a choice and a rotation.
- `keypool_headers`: three ticks let a cooldown of one tick end and a limiter
  that was replaced refill again.
- `breaker`: an open period is one tick, so three ticks are enough for open,
  half-open, and open or closed again. Two requests and the checker make three
  reports at once, more than the probe slots of either configuration.
- `serving`: two requests are enough for both races (two routers built, two
  compare-and-swaps); the limits switch the counting on and off. Two routers
  are one rebuild, which is what splits an acquire from its release.
- `routing`: two requests are enough to read one list of healthy providers and to
  pick after the other has changed the deck or the weights. Three providers with
  different weights make a round in which order matters, and health that
  changes freely gives every sequence of lists. `IndexPeriod` is 6, a multiple of
  1, 2 and 3.
- `retry`: the levels multiply to 2 × 2 × 2 attempts, more than the total of 5,
  so that either bound may be the one that ends the request. Three draws of a
  key already given up are possible in the pool of two.
- `reload`: two changes are two reloads that may overlap at every callback; a
  third adds no new pair. One content is without health checks, one without a
  pool for its provider, and one cannot be parsed. The OpenAI provider has another base URL
  in the second, and its key never changes, so that each of URL and pool alone tells two
  proxies apart. One request at a time still
  meets what earlier requests left in the cache.
- `codex`: the two locks (a source's mutex, the file's) need two callers on one
  source and one on another. One token is issued besides the first: the races are over
  one refresh token, between two processes or a process and the app, and whoever comes
  second needs no new one to be refused. Longer chains of rotations are left to the
  theorems, which hold for any number. Two stamps are enough for writes that the cache can and
  cannot tell apart. Answers have no token, an access token, or both.
- `images`: the source is replaced when a request's file is not the one it was made
  for, which takes two files and two requests. Two calls of none to two images each give every
  way in which the images of several calls come together.
- `cache`: what goes wrong between two looks takes one caller and one `Close`; the
  second caller may itself close. Two writes of each value that are kept back let an old one
  land on a newer one and a newer one on an old one. One configuration of each backend is made, and
  five are refused or fail at each step.
- `exchange`: blocks of every kind (unsigned, signed by the client with and without the
  relay's prefix, badly signed, the sentinel, text, tool calls) in every pair show
  every combination of editing, dropping and reordering; two assistant messages and
  both kinds of user message give a dropped message all its neighbours. A chunk is at
  most 5 units, less than the longest message with its prelude, so a message may come
  in one piece, in several, or with the next. Scenarios vary one half at a time: the two
  halves share only the acceptance of an attempt.

Deadlock is checked where the system goes on for ever: it is off in `retry`, `exchange`
and `exchange_plain_content`, where a request ends, in `reload`, `codex` and `cache`,
where the server or the cache is closed and changes are bounded. Symmetry is used over
requests only; in `images` they are the callers too; in `routing` its temporal properties are action properties, which do
not depend on it, and no run with a liveness property uses it.

Type invariants have no run of their own where a theorem states them: `TypeOK` of
`KeyPool`, `CircuitBreaker`, `ConcurrencyLimiter`, `RouterLoad`, `Serving`, `Strategies`,
`RetryLoop`, `HotReload`, `ProxyCache` and `CodexImages`, `CacheTypeOK` of `Cache`, and
`TokenTypeOK` of `CodexToken`, are proved for all instances.

## Where the code and its documents disagree

`exchange_plain_content` is a run that TLC must find violated. `HasThinkingSignature`
promises to find thinking signatures in a conversation, and answers no as soon as any
message has its content as a plain string, which is the usual form of a user's message
(`proxy/thinking_affinity.go:53`: the body is read into a list of blocks, and an error is
taken for "none"). Such a conversation is routed freely, and a retry at another provider
sends it with the first one's signatures.

The following came up as well. Where a property is named it is defined in the module,
with the sentence of the documents that it restates, and TLC refutes it; no run of the
project checks it.

- `KeyPool`, `CooldownNotShortened`: a late 429 replaces the 5-hour cooldown of a 403 by
  20 seconds (`keypool/pool.go:247`). `LimiterKeptIfLimitsKept`: a response that repeats
  the known limits refills the bucket, although the comment says "if limits changed"
  (`pool.go:220`).
- `CircuitBreaker`, `LimitedProbes`: any number of requests reach a half-open provider,
  since routing takes no probe slot (`health/tracker.go:85`). A provider that cannot be
  reached never opens its circuit: the reverse proxy's `ErrorHandler` reports nothing
  (`proxy/provider_proxy.go:69`); nor does anything at the OpenAI endpoint.
- `Serving`, `PicksLeastLoaded`: two first requests build a router each; one load becomes
  −1, which `Select` takes for "no minimum yet" (`router/least_loaded.go:41`).
- `HotReload`, `LatestConfiguration`: a reload waits for its old health checker while a newer
  reload runs to its end; then it stores the older configuration last, and it stays
  (`config/watcher.go:162`).
- `CodexToken`, `RotationPickedUp`: the file's time is taken after the token was read, so a
  rotation by the Codex app in between is cached as if it had been read
  (`codexauth/refresh.go:269`). So is a token whose file is
  rewritten with the same size within a tick of the clock (`codexauth/token.go:128`;
  `token_test.go:50` goes round it by setting the time). `TokenCurrent` is the promise without
  these two cases, and there is no third.
- `Exchange`, `SwitchLeavesThinkingBehind`: whether a body has thinking is asked of the parsed
  body for affinity and of its bytes when it is stripped for another provider. Where the
  bytes have `"type" : "thinking"` or a line break after the colon, the stripper returns
  the body as it is (`proxy/thinking.go:716`), and signed thinking goes to a provider that cannot
  validate it. `AttemptFits` is about bodies in which the search finds the thinking.
- An event whose headers claim to be longer than the message, with checksums that fit, makes
  the payload's length wrap around and the slice panic (`providers/eventstream.go:82, 90, 97`).
  `EventStream` has it (`MayPanic`); what the client had before is still in order.
- `RetryLoop`, `PoolLeftAlone`: with retries a request that carries the client's own
  credentials still draws a key of the pool, cools it down for an answer to the client's
  credentials, and is refused when the pool is empty (`docs-site/content/en/docs/architecture.md:291`).
- A provider with a single key is sent the same request again after a 403: the
  exclusion of its key is recorded and not looked up (`handler.go:737`).
  `ForbiddenPoolKeyNotRetried` is about pools only.
- `Config.Validate` (`config/validator.go:80`) has no caller: neither at start-up
  nor on reload is a configuration rejected that parses but is invalid, although
  the documentation says so (`docs-site/content/en/docs/configuration.md:1212`).
- A request that reads the routing list before a reload disables its provider
  and the keys after it is sent without a key. The same page (1230) promises that
  a reload is atomic. `ProxyCache` has it; `NewRequestsCurrent` is about requests
  that no reload overlaps.
- The shuffled deck is known by its length only (`router/shuffle.go:69`): when one provider
  falls ill and another recovers, the old deck goes on over other providers. Weighted
  round robin starts anew whenever the list changes. `FairRounds` is therefore about
  rounds with the same healthy providers.
- The model's name is mapped twice on its way to a cloud provider, before the attempt and
  in `TransformRequest`; with a mapping that chains, the result is the second name's. The proof of
  `AttemptFits` found it; the property asks for the right URL only where the provider's name
  has no other name itself.
- The signature cache is never filled in the program: `ProcessNonStreamingResponse` and
  the event processor have no caller, although `architecture.md:125` describes them.
- The wrapped event stream stops at a damaged message for good and still ends cleanly,
  although `providers/eventstream.go:46` says that such messages are skipped;
  `StreamExact` has what each converter does. The direct converter (no caller) takes a body
  cut right behind a prelude for a clean end.

## Fairness

- `KeyPool`: weak fairness of each request's step inside `GetKey`. It is
  straight-line code of a running goroutine and waits for nothing but mutexes
  held for a few statements. The upstream's answer is not assumed.
- `CircuitBreaker`: weak fairness of each reporter's report, for the same
  reason. `HalfOpenResolves` then needs no request to arrive.
- `RetryLoop`: weak fairness of the request's steps. An upstream answers, or the
  transport's timeouts or the client give up on it. Nothing is assumed of
  `Environment`.
- `CodexToken`: weak fairness of each caller's step; a lock that is not free is given
  up after `refreshLockWait`, and the request to the token endpoint has a timeout. Strong
  fairness of `GetAnswer` and `ReadFile`, which wait for a source's mutex that others take
  again and again: a mutex of Go is handed to whoever has waited for a millisecond.
- `Cache`: weak fairness of each caller's step, so of the goroutines and of the backends'
  own calls, which must return; `Close` then finds the readers gone. Weak fairness of `Settles`, for Ristretto's own goroutine,
  which makes or drops what is buffered: `Close` waits for it with the lock held.
- `HotReload`, `Strategies`, `Serving`, `Exchange`, `CodexImages`: none. Their properties are
  about what is so whenever they say it.

## Proofs

All theorems hold for every value of the constants that satisfies the named assumptions:
`CooldownAssumption`, `KeyPoolAssumption`, `CircuitBreakerAssumption`, `LimiterAssumption`,
`ServingAssumption`, `StrategiesAssumption`, `RetryAssumption`, `ReloadAssumption`,
`ProxyAssumption`, `CodexAssumption`, `ImagesAssumption`, `CacheAssumption`,
`ThinkingAssumption`, `EventStreamAssumption`, `ExchangeAssumption`. These say that
configured numbers are naturals, positive where the code makes them so, that sets are finite
where they are counted, that a key and a pool belong to an enabled provider of a content,
that every auth file starts with a token of its own, that a stamp is a positive number (no
condition on which writes share one), that every provider has a base URL in every content, that the requests for images are calls
of one source that only they use, that an upstream sends the first units of some messages,
each with a checksum behind its prelude (`AnswerOK`; no condition on what is damaged or
where it is cut), that a client's body is one of the API (`BodyOK`; no condition on the
order of roles or blocks, on what is signed or by whom), that the cache has entries for the
texts of thinking blocks, that the placeholders for no signature, one that is too short and
the sentinel are not themselves signatures of a provider, and that no value is `Nothing`.
TLC evaluates them in the runs.

A sum, a filter or a count is an induction over data, and the library's induction theorems
cannot be instantiated here. The induction itself can be proved, from the fact that a set of
finite sets has a smallest member (`FS_StrictSubsetOrderingWellFounded` with `WFMin`): every
set of naturals has a least number (`LeastNumber`), so a set that contains 0 and with each
number the next contains them all (`CountingUp`). `ServingProofs`, `StrategiesProofs` and
`ExchangeProofs` rest on it: that a function defined by recursion exists and obeys its
equations (`TotalIsSum`, `SumsAre`, `WithinIs`, and `StepwiseExists` for any function
computed step by step), what a sum becomes when one term changes (`TotalChanges`), how two
sums compare (`TotalAtMost`), that it is linear (`TotalLinear`), and division with remainder
(`Division`, `Remainder`). For conversations the same induction gives an algebra of filters,
removals and concatenations: what is chosen from a sequence are its elements at some
positions in their order (`Picks`, with `ChosenPicks` and `DropPicks`), a flattened sequence is
not changed by elements that are empty (`FlatPicks`), and flattening distributes over
concatenation (`FlatConcat`) and has the elements of its parts (`FlatMembers`).

**KeyPoolProofs.** `TypeCorrect`, `CallInvariant`, `NoFalseExhaustionHolds`,
`NeverNoKeysHolds`, `PriorityKeptHolds`, `RateBoundHolds`. What `GetKey` promises
is about the end of a call and says nothing of its middle. The strengthening
`CallInv` does: a key usable all along is still in the copy, the copy is as long
as there are tries left, and the selected key comes from the highest tier that
had an available key. `RateBound` needs what is *left* in the bucket besides
what has been spent (`BoundOK`).

**CircuitBreakerProofs.** `TypeCorrect`, `HalfOpenAccountedHolds`,
`ImplementsBreaker`. The account of a half-open circuit needs `TicketOK`: a report
under way carries a generation that has existed and a circuit that has been
created, so a new generation begins with no report pending. `ImplementsBreaker`
is the refinement: every step maps to a step of `Breaker` or leaves the current
circuit as it is; steps on orphaned circuits are invisible.

**ServingProofs.** Of the limiter alone: `LimiterTypeCorrect`, `CountExactHolds`,
`AdmissionBoundHolds`; the invariant adds that a request about to swap has seen a
count below its limit (`Seen`). Of the composition: `ServingInvariant`, `TypesHold`,
`LimitHolds`, `LoadsConservedHolds`, `LoadWithinLimitHolds`. `HandlerInv` says of a request
that its place and its call agree, that it holds nothing before it is admitted or when it
is done, and something when it is about to release (`Placed`), that the providers it holds
are different ones (`Different`: it selects only what it does not hold), and `LoadsConserved`.
An acquisition adds one pair of request and place to those that hold the provider, and one
to one load (`HoldsMore`, `LoadMoves`); a release takes both away. Each request holds a
provider at most once, so those who hold it are no more than those admitted
(`HoldsOnce`).

**StrategiesProofs.** `StrategiesInvariant`, `StrategiesTypeCorrect`, `FairRoundsHolds`,
`SmoothSharesHolds`, `RefusalJustifiedHolds`, `TopPriorityHolds`, for any list of providers,
weights and priorities, any number of requests, and health that changes at any moment. The
invariant has two halves.

- `RequestsOK`: what a request that is under way knows. Its list has every candidate that
  stayed healthy since it arrived (`Chooses`), affinity narrows the candidates and nothing
  else does (`Narrowed`), the attempts so far are on different providers of the list, and in
  a race whoever has not failed is still racing (`Tries`).
- `RoundsOK`: what a strategy's state says of its choices. Round robin has dealt the last
  *k* places before its index (`Dealing`), shuffle at most the positions of the deck before
  `position` (`FromDeck`). Weighted round robin is `Balanced`: each current weight is
  `Lag`, *N w − c T* for *N* choices of total weight *T* of which *c* went to the provider
  of weight *w*, and is above *−T*. The raised weights add up to *T* (`RaisedTotal`), so the
  highest is positive, so its provider has had less than its share (`Left`); a round
  therefore ends with every provider at its weight, and all lags zero. That none is far
  behind follows from the lags adding up to zero (`NoneFarBehind`).

**RetryLoopProofs.** `TypeCorrect`, `ReplyIsLastAnswerHolds`,
`ProvidersVisitedOnceHolds`, `ForbiddenPoolKeyHolds`, `AttemptsBoundedHolds`,
`KeysVisitedOnceHolds`. The invariant `Inv` ties
the loop's place to its record: `Kept` (the last refusal is kept until the
request ends), `Matched` (every attempt but the one under way has its answer),
`OnItsWay` (the loops and the direct path do not mix), `ProvidersKnown` and
`KeysKnown` (what was tried is excluded or being tried), `DrawLeft` (draws are left
wherever a key is drawn).
The bounds on what was *tried* follow from bounds on what is *excluded*: a turn of the
provider loop excludes one provider (`ProvidersCounted`), a turn of the key loop one key,
and the key loop starts with none, because a provider with excluded keys is excluded itself
(`KeysCounted`). `Consecutive` says that the last attempts, as many as the same-key loop
has counted, are exactly those with the key in use.

**CodexProofs.** `TokenTypeCorrect`, `TokenCurrentHolds`, `LoginKeptHolds`,
`RejectionExplainedHolds`, for any number of processes, goroutines and files, in the
presence of the Codex app, crashes, lost answers and failed writes. `TokenInv` has, of the
whole: who reads and writes holds the lock (`LockInv`), numbers have been given out
(`NumberInv`), no token belongs to two files (`ApartInv`), a file's refresh token is good or
its successor is about to be written, by a refresher or by the app that has spent it
(`LoginInv`), and a cache that was not overtaken gives what the file has or
had (`CacheInv`). A stamp says nothing by itself, so `overtaken` does: the file has had the
stamp of the cached token while it held another. Of each call: tokens on their way are in no
other file and not in the app's hands (`OwnTokens`), a new one is good (`Successor`), what is
sent to the server is good or was spent by the app (`Sent`), and what the call may
return was in the file since it began (`MayReturn`).
On top of it `ImagesInvariant`, `TokenOfOwnPathHolds` and `ImagesAnsweredHolds`, of the images
endpoint: a request asks the source only while it has the handler's mutex, and then the
source reads the request's own file (`Asking`); what the source has cached was in the file
it reads (`CachedHeld`), so a token on its way to a request is its file's (`OwnToken`); and
the images that a request has are those of every call that brought some (`Collected`), one by
one, the only failure being the last call's (`Counted`).

**ExchangeProofs.** Of the cache: `CacheTypeCorrect`, `NoUseAfterCloseHolds`,
`NothingLeakedHolds`, `KeepsContract`. `LockInv` ties the lock to the places of the callers:
who works on the backend reads and has seen the cache open under the lock, and the flag
changes only when nobody reads. `KeepsContract` is the refinement: the moment at which a
call takes effect is the step on the backend, or the look that finds the cache closed; a
write that is kept back is kept in the contract too, and settles there when it does here. Of
the streams: `StreamInvariant`, `StreamExactHolds`, for every answer of any length, with any
messages damaged, cut anywhere, in chunks of any length. `StreamExact` compares what the
client has with what the whole answer promises, and says nothing of the way there.
`WrappedInv` does: what has been converted is `FormatAll` of the first `parsed` messages,
all of which parse, and the next one does *not* parse with what has been read, so when the
body has ended nothing more could have been converted. `DirectInv` has the undamaged
messages read so far; that none arrives after a clean end is `CleanEndIsLast`. The lemma
that both rest on is `Joined`: the events of earlier messages followed by those of later
ones are the events of both together; prefixes (`BeginsUpto`) and single steps
(`OneFormatted`) follow.
Of the conversation: `ConversationInvariant`, `ConversationKeptHolds`,
`ThinkingPresentableHolds`, `AttemptFitsHolds`, for bodies of any length with any blocks, a
cache whose entries appear and expire at any step, and any providers, mappings and attempts.
The three properties speak of a body that has been prepared; `ConversationInv` has to say
what is so while it is being rewritten. `Work` does, message by message: those from `at` on
and those that are to be dropped are still the client's, the others are `Processed`, that
is, in an order and with signatures that an upstream accepts (`Presentable`) and with every
signature that the client vouches for (`Carries`); what is to be dropped has none of these,
says nothing, and no neighbour needs it (`MayDrop`); and every message keeps its role and
what it says (`SameTalk`). Whether a neighbour needs a message is asked of the body that is
half rewritten, so `SameTalk` is what makes the answer the one the client's body would give.
`SignaturesInv` ties the cache to its history: what it has now, or has buffered, was written
to it, so that a block
signed in either pass over a message is signed by something that was cached for its text.
Dropping is right because of `DropKeeps`: in a conversation that alternates, a message of
the assistant between two others has the user on both sides and is never dropped, and
neither is one in front of a result, so the results keep the message they follow. That a
body stripped for another provider keeps what it has to (`Stripped`) uses the same lemma,
without the invariant: it is made of the client's body at once. `AttemptFits` first said
that the model in a cloud provider's URL is the client's under that provider's own name; its
proof failed, because the name is mapped twice (see the remarks on the code), and TLC shows
it with a mapping that chains, which the run now has.

**ReloadProofs.** `TypeCorrect`, `CheckersAccountedHolds`, `SettledOnFileHolds`,
`NewRequestsCurrentHolds`, for any number of changes, reloads at once, contents,
providers and requests, with any of them OpenAI providers.

- `CheckerInv`: a checker that runs, or is about to be started, was told to stop, is
  current, or is the next to be stopped by a reload (`Cared`). It needs that a
  reload before its swap is in nobody's hands (`Swapped`), so that what is
  current is never what a reload is about to stop (`StopsOther`).
- `ServiceInv`: an unread change has a notice, the timer or a reload under way
  (`NotMissed`), and a load that is alone has its mark on every service it has
  passed (`Alone`). That a map's callback precedes its routing list's is what
  keeps the lists on present instances (`MapFirst`).
- `RequestInv`: the load that a request began under is over (`BeganSettled`), so any
  change of the services makes another one the last; until then what the
  request has read is what the last load says (`ReadsLast`). Whatever it goes through was made
  by a load that has read the file (`MadeInv`), so the base URL by which a proxy of an
  older instance was found is not changed behind it.

**Model-checked only.**

- Liveness (`GetKeyAnswers`, `HalfOpenResolves`, `RequestEnds`, `CallsEnd`, `CallsReturn`):
  fairness and ENABLED are beyond the prover.

Every safety property of a passing run is stated by a theorem.

## Not modelled

- Rate limiter: `Wait`, `Reserve`, `ConsumeTokens` and the reactive wrapper have
  no caller in the program; the token bucket counts requests only.
- Health checker: the ticker and its jitter; a check may come at any time.
- The Responses converter (`proxy/responses_*.go`) and `ForwardSSE`
  (`proxy/sse_stream.go`) have no caller in the program, like the reactive cache
  (`cache/ro_cache.go`).
- Images: the fields of bodies, the transports, and the aggregation of one call's events,
  which is the outcome of the call.
- Providers' URLs, headers and signatures, and the rewriting of URLs and model lists at the OpenAI
  endpoint: plain data of one request.
- Thinking: the text of blocks; the keys of the cache beyond model group and text.
- The token source where the platform has no file lock (`filelock_other.go`): refreshes of
  several processes are then unprotected, and `LoginKept` does not hold.
- Configuration files: parsing, defaults and validation, sequential checks of one value.
- Authentication (one comparison per request), the HTTP surface (wiring, logging, error
  bodies), the container (construction before any request), the command line, the
  documentation site.
- Key pool heuristics with no promise to check: the order in which the headers of
  concurrent answers arrive; remaining counts that are never reset when their
  reset time has passed; a Retry-After that ignores cooldowns; an uncapped
  Retry-After for Z.AI answers without a code. The model has all of them.
- Durations of backoff; logging; debug output.

## Plan

Done, in this order: `KeyPool`, `CircuitBreaker`, `ConcurrencyLimiter` with
`RouterLoad`, `RetryLoop`, `HotReload` with `ProxyCache`, `CodexToken` with `CodexImages`,
`Strategies`, `Cache` with its contract, `Thinking` and `EventStream` in `Exchange`. What
would come next:

1. Key pool and retry loop composed: `available` replaced by the state of
   `KeyPool`, to see limiters and exclusions together (draws that spend a limiter's
   tokens, three draws of keys that were given up).
2. `HotReload`, more: once the file is quiet a reload ends and the services settle,
   as liveness; answers that a reload credits to the new pool.
3. `Strategies`: the refinement to "any healthy candidate", as a theorem.
