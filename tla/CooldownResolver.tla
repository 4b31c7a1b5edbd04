-------------------------- MODULE CooldownResolver --------------------------
(***************************************************************************)
(* How an upstream response becomes a decision about the key that was used *)
(* (internal/providers/cooldown.go, zai_errors.go and                      *)
(* internal/proxy/keypool_updater.go).                                     *)
(*                                                                         *)
(* A response is a record                                                  *)
(*   status     - the HTTP status code;                                    *)
(*   retryAfter - its Retry-After header in time units, NoHeader when the  *)
(*                header is absent or cannot be parsed.  A negative number *)
(*                of seconds is never applied, as 0 is not, and is not     *)
(*                enumerated;                                              *)
(*   reset      - the time left until the reset named by the OpenAI reset  *)
(*                headers, or by the text of a Z.AI 1308 error; 0 when     *)
(*                none is named or it has passed;                          *)
(*   body       - the business error code of the body, by its class.       *)
(***************************************************************************)
EXTENDS Naturals, Integers

CONSTANTS
    DefaultCooldown,      \* 20 s, and what Z.AI's transient codes suggest
    Retryable400Cooldown, \* 30 s
    PeriodicCooldown,     \* 1 h
    UsageCooldown,        \* 5 h
    ForbiddenCooldown,    \* 5 h
    MaxCooldownCap        \* 6 h

ASSUME CooldownAssumption ==
    /\ DefaultCooldown \in Nat \ {0}
    /\ Retryable400Cooldown \in Nat \ {0}
    /\ PeriodicCooldown \in Nat \ {0}
    /\ UsageCooldown \in Nat \ {0}
    /\ ForbiddenCooldown \in Nat \ {0}
    /\ MaxCooldownCap \in Nat \ {0}

NoHeader == -1

OK == 200
BadRequest == 400
Forbidden == 403
TooManyRequests == 429
ServerError == 500

\* Classes of body: no recognisable error code, a body that cannot be read,
\* and the groups of Z.AI codes that the code tells apart.
TransientCodes == {"concurrency", "unknown", "retryable400"}
QuotaCodes == {"daily", "usage", "periodic"}
PermanentCodes == {"locked"}
Codes == TransientCodes \cup QuotaCodes \cup PermanentCodes
Bodies == Codes \cup {"none", "unreadable"}

CooldownStrategies == {"generic", "openai", "zai"}

Response ==
    [status: {OK, BadRequest, Forbidden, TooManyRequests, ServerError},
     retryAfter: Nat \cup {NoHeader}, reset: Nat, body: Bodies]

Decision == [cooldown: Nat, permanent: BOOLEAN, skipCB: BOOLEAN]

NoDecision == [cooldown |-> 0, permanent |-> FALSE, skipCB |-> FALSE]

Cooldown(d, skip) == [cooldown |-> d, permanent |-> FALSE, skipCB |-> skip]

Permanent == [cooldown |-> 0, permanent |-> TRUE, skipCB |-> TRUE]

Capped(d) == IF d > MaxCooldownCap THEN MaxCooldownCap ELSE d

RetryAfterHeader(resp) ==
    IF resp.retryAfter = NoHeader THEN DefaultCooldown ELSE resp.retryAfter

GenericDecision(resp) == Cooldown(Capped(RetryAfterHeader(resp)), FALSE)

OpenAIDecision(resp) ==
    IF resp.reset > 0 THEN Cooldown(Capped(resp.reset), FALSE)
                      ELSE GenericDecision(resp)

ZaiCodeCooldown(resp) ==
    CASE resp.body = "usage" /\ resp.reset > 0 -> resp.reset
      [] resp.body = "usage" /\ resp.reset = 0 -> UsageCooldown
      [] resp.body \in {"daily", "periodic"}   -> PeriodicCooldown
      [] resp.body = "retryable400"            -> Retryable400Cooldown
      [] OTHER                                 -> DefaultCooldown

\* A body without a code falls back to Retry-After, and that path alone is not
\* capped.
Zai429Decision(resp) ==
    CASE resp.body \notin Codes       -> Cooldown(RetryAfterHeader(resp), FALSE)
      [] resp.body \in PermanentCodes -> Permanent
      [] OTHER -> Cooldown(Capped(ZaiCodeCooldown(resp)),
                           resp.body \in TransientCodes)

Zai400Decision(resp) ==
    IF resp.body = "retryable400" THEN Cooldown(Retryable400Cooldown, TRUE)
                                  ELSE NoDecision

Resolve(strategy, resp) ==
    CASE resp.status = TooManyRequests /\ strategy = "zai"    -> Zai429Decision(resp)
      [] resp.status = TooManyRequests /\ strategy = "openai" -> OpenAIDecision(resp)
      [] resp.status = TooManyRequests /\ strategy = "generic" -> GenericDecision(resp)
      [] resp.status = BadRequest /\ strategy = "zai"         -> Zai400Decision(resp)
      [] OTHER                                                -> NoDecision

\* The key's fate after a response: a 403 always costs ForbiddenCooldown and is
\* hidden from the circuit breaker, everything else is the resolver's choice.
KeyDecision(strategy, resp) ==
    IF resp.status = Forbidden THEN Cooldown(ForbiddenCooldown, TRUE)
                               ELSE Resolve(strategy, resp)

=============================================================================
