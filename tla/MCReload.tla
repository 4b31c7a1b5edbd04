-------------------------------- MODULE MCReload --------------------------------
(***************************************************************************)
(* Small instance of ProxyCache: a provider of each handler; the file      *)
(* holds one of two configurations or what is none.                        *)
(***************************************************************************)
EXTENDS ProxyCache, TLC

CONSTANTS cA, cB, bad, pA, pO, k1, u1, u2

\* cA has both providers; cB disables pA, and gives pO, which is for OpenAI, another URL
\* and a pool of the same keys.  From cB to cB only the pool of pO changes, from cA to
\* cA nothing of it does, and pA is made anew.
EnabledIn == cA :> {pA, pO} @@ cB :> {pO} @@ bad :> {}
PooledIn == cA :> {} @@ cB :> {pO} @@ bad :> {}
UrlsIn == [c \in Contents |-> pA :> u1 @@ pO :> (IF c = cB THEN u2 ELSE u1)]
KeysIn == [c \in Contents |-> [p \in Providers |-> IF p \in EnabledIn[c] THEN k1 ELSE NoKey]]

================================================================================
