------------------------------ MODULE MCKeyPool ------------------------------
(* Small pools for TLC: two tiers, limits of one request a minute. *)
EXTENDS KeyPool, TLC

CONSTANTS r1, r2

Symmetry == Permutations(Requests)

\* Key 1 is alone in the high tier.
TwoTiers == <<2, 1, 1>>

OneEach == [k \in Keys |-> 1]
NoLimit == [k \in Keys |-> 0]

Resp(status, wait, code) ==
    [status |-> status, retryAfter |-> wait, reset |-> 0, body |-> code]

\* A success, a 429 with no wait, one that says to wait for nothing, a 403.
GenericResponses ==
    {Resp(OK, NoHeader, "none"), Resp(TooManyRequests, NoHeader, "none"),
     Resp(TooManyRequests, 0, "none"), Resp(Forbidden, NoHeader, "none")}

\* A Z.AI error that costs the key a cooldown, and one that costs it its health.
ZaiErrors ==
    {Resp(BadRequest, NoHeader, "retryable400"), Resp(TooManyRequests, NoHeader, "locked")}

PlainRateLimit == {Resp(TooManyRequests, NoHeader, "none")}

NoHeaders == [rpm |-> NoHeader, rpmRemaining |-> NoHeader, tpm |-> NoHeader,
              tpmRemaining |-> NoHeader, reset |-> NoHeader]

\* The limit the key already has, with none remaining, and a larger limit.
LimitHeaders ==
    {[NoHeaders EXCEPT !.rpm = 1, !.rpmRemaining = 0, !.reset = 2],
     [NoHeaders EXCEPT !.rpm = 2, !.rpmRemaining = 1]}

==============================================================================
