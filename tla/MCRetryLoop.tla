----------------------------- MODULE MCRetryLoop -----------------------------
\* Instances of RetryLoop: a provider with a pool of two keys, one whose pool
\* holds one of the same keys, and one with a single key.
EXTENDS RetryLoop

CONSTANTS zai, openai, anthropic, k1, k2

MCKeysOf == [p \in Providers |-> CASE p = anthropic -> {k1, k2}
                                   [] p = openai    -> {k1}
                                   [] OTHER         -> {}]
=============================================================================
