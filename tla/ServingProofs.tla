----------------------------- MODULE ServingProofs -----------------------------
(***************************************************************************)
(* Theorems about requests from the concurrency limit to the provider, for *)
(* any number of requests, providers and routers, and any set of limits.   *)
(***************************************************************************)
EXTENDS Serving, FiniteSetTheorems, WellFoundedInduction, SequenceTheorems, TLAPS

(***************************************************************************)
(* The concurrency limit by itself: the counter is the number of admitted  *)
(* requests, and no limit that a reload sets lets in more than the         *)
(* requests' own limits allow.                                             *)
(***************************************************************************)

\* The types, with the counter as an integer: that it is never negative is a
\* consequence of CountExact.
Types ==
    /\ limit \in Limits
    /\ current \in Int
    /\ slot \in [Requests -> {"out", "unlimited", "load", "swap", "in"}]
    /\ seenLimit \in [Requests -> Limits \cup {0}]
    /\ seen \in [Requests -> Int]

\* A request that is about to swap has seen a count below its limit, and the limits
\* compare as the code has compared them.
Seen ==
    \A r \in Requests :
        /\ slot[r] = "swap" => seen[r] < seenLimit[r]
        /\ slot[r] = "unlimited" => seenLimit[r] <= 0

Inv == Types /\ Seen /\ CountExact /\ AdmissionBound

\* Any set of requests can be counted.
LEMMA RequestsFinite ==
    ASSUME NEW S, S \subseteq Requests
    PROVE  IsFiniteSet(S) /\ Cardinality(S) \in Nat
BY LimiterAssumption, FS_Subset, FS_CardinalityType

\* A new limiter has admitted nobody.
LEMMA InitInv == Init => Inv
<1> SUFFICES ASSUME Init PROVE Inv
  OBVIOUS
<1>1. Types /\ Seen
  BY LimiterAssumption DEF Init, Types, Seen
<1>2. In = {}
  BY DEF Init, In
<1> QED
  BY <1>1, <1>2, FS_EmptySet DEF Init, Inv, CountExact, AdmissionBound

\* Admitting one request more keeps the bound, when the count is below its limit or it
\* has none.
LEMMA AdmitBound ==
    ASSUME CountExact, AdmissionBound, seenLimit \in [Requests -> Int],
           NEW r \in Requests, In' = In \cup {r}, r \notin In, seenLimit' = seenLimit,
           seenLimit[r] <= 0 \/ current + 1 <= seenLimit[r]
    PROVE  AdmissionBound'
<1> SUFFICES ASSUME NEW S \in SUBSET In', S # {}
             PROVE  \E q \in S : seenLimit[q] <= 0 \/ Cardinality(S) <= seenLimit[q]
  BY DEF AdmissionBound
<1>1. In \subseteq Requests /\ IsFiniteSet(In) /\ IsFiniteSet(In')
  <2>1. In \subseteq Requests
    BY DEF In
  <2> QED
    BY <2>1, RequestsFinite, FS_AddElement
<1>2. CASE r \in S
  <2>1. Cardinality(In') = current + 1
    BY <1>1, FS_AddElement DEF CountExact
  <2>2. Cardinality(S) <= Cardinality(In')
    BY <1>1, FS_Subset
  <2>3. Cardinality(S) \in Nat /\ current \in Int /\ seenLimit[r] \in Int
    <3>1. S \subseteq Requests
      BY <1>1
    <3> QED
      BY <1>1, <3>1, RequestsFinite DEF CountExact
  <2> QED
    BY <1>2, <2>1, <2>2, <2>3
<1>3. CASE r \notin S
  BY <1>3 DEF AdmissionBound
<1> QED
  BY <1>2, <1>3

\* Steps that admit and release nobody keep the bound and the count.
LEMMA SameIn ==
    ASSUME CountExact, AdmissionBound, In' = In, current' = current,
           \A r \in In : seenLimit'[r] = seenLimit[r]
    PROVE  CountExact' /\ AdmissionBound'
<1>1. CountExact'
  BY DEF CountExact
<1>2. AdmissionBound'
  <2> SUFFICES ASSUME NEW S \in SUBSET In, S # {}
               PROVE  \E q \in S : seenLimit'[q] <= 0 \/ Cardinality(S) <= seenLimit'[q]
    BY DEF AdmissionBound
  <2>1. PICK q \in S : seenLimit[q] <= 0 \/ Cardinality(S) <= seenLimit[q]
    BY DEF AdmissionBound
  <2> QED
    BY <2>1
<1> QED
  BY <1>1, <1>2

\* Every step keeps the invariant.
LEMMA StepInv == Inv /\ [Next]_limiterVars => Inv'
<1> SUFFICES ASSUME Inv, [Next]_limiterVars PROVE Inv'
  OBVIOUS
<1> USE LimiterAssumption
<1>0. /\ Types /\ Seen /\ CountExact /\ AdmissionBound
      /\ In \subseteq Requests /\ IsFiniteSet(In)
      /\ seenLimit \in [Requests -> Int] /\ limit \in Int
  <2>1. In \subseteq Requests /\ IsFiniteSet(In)
    BY RequestsFinite DEF In
  <2>2. limit \in Int /\ Limits \cup {0} \subseteq Int
    BY DEF Inv, Types
  <2>3. seenLimit \in [Requests -> Int]
    BY <2>2 DEF Inv, Types
  <2> QED
    BY <2>1, <2>2, <2>3 DEF Inv
<1>1. ASSUME NEW r \in Requests, LoadLimit(r) PROVE Inv'
  <2>1. Types' /\ Seen'
    BY <1>0, <1>1 DEF LoadLimit, Goto, Types, Seen
  <2>2. In' = In /\ current' = current /\ \A q \in In : seenLimit'[q] = seenLimit[q]
    BY <1>0, <1>1 DEF LoadLimit, Goto, Types, In
  <2> QED
    BY <1>0, <2>1, <2>2, SameIn DEF Inv
<1>2. ASSUME NEW r \in Requests, AddUnlimited(r) PROVE Inv'
  <2>1. Types' /\ Seen'
    BY <1>0, <1>2 DEF AddUnlimited, Goto, Types, Seen
  <2>2. In' = In \cup {r} /\ r \notin In /\ current' = current + 1 /\ seenLimit' = seenLimit
    BY <1>0, <1>2 DEF AddUnlimited, Goto, Types, In
  <2>3. CountExact'
    BY <1>0, <2>2, FS_AddElement DEF CountExact
  <2>4. AdmissionBound'
    <3>1. seenLimit[r] <= 0
      BY <1>0, <1>2 DEF AddUnlimited, Goto, Seen
    <3> QED
      BY <1>0, <2>2, <3>1, AdmitBound
  <2> QED
    BY <2>1, <2>3, <2>4 DEF Inv
<1>3. ASSUME NEW r \in Requests, LoadCurrent(r) PROVE Inv'
  <2>1. Types' /\ Seen'
    BY <1>0, <1>3 DEF LoadCurrent, Goto, Types, Seen
  <2>2. In' = In /\ current' = current /\ \A q \in In : seenLimit'[q] = seenLimit[q]
    BY <1>0, <1>3 DEF LoadCurrent, Goto, Types, In
  <2> QED
    BY <1>0, <2>1, <2>2, SameIn DEF Inv
<1>4. ASSUME NEW r \in Requests, CompareAndSwap(r) PROVE Inv'
  <2>1. Types' /\ Seen'
    BY <1>0, <1>4 DEF CompareAndSwap, Goto, Types, Seen
  <2>2. CASE current = seen[r] /\ Goto(r, "swap", "in") /\ current' = current + 1
    <3>1. In' = In \cup {r} /\ r \notin In /\ seenLimit' = seenLimit
      BY <1>0, <1>4, <2>2 DEF CompareAndSwap, Goto, Types, In
    <3>2. CountExact'
      BY <1>0, <2>2, <3>1, FS_AddElement DEF CountExact
    <3>3. current + 1 <= seenLimit[r]
      BY <1>0, <2>2 DEF Goto, Seen, Types
    <3>4. AdmissionBound'
      BY <1>0, <3>1, <3>3, AdmitBound
    <3> QED
      BY <2>1, <3>2, <3>4 DEF Inv
  <2>3. CASE current # seen[r] /\ Goto(r, "swap", "load") /\ UNCHANGED current
    <3>1. In' = In /\ \A q \in In : seenLimit'[q] = seenLimit[q]
      BY <1>0, <1>4, <2>3 DEF CompareAndSwap, Goto, Types, In
    <3> QED
      BY <1>0, <2>1, <2>3, <3>1, SameIn DEF Inv
  <2> QED
    BY <1>4, <2>2, <2>3 DEF CompareAndSwap
<1>5. ASSUME NEW r \in Requests, Release(r) PROVE Inv'
  <2>1. Types' /\ Seen'
    BY <1>0, <1>5 DEF Release, Goto, Types, Seen
  <2>2. /\ r \in In /\ In' = In \ {r} /\ current' = current - 1
        /\ \A q \in In \ {r} : seenLimit'[q] = seenLimit[q]
    BY <1>0, <1>5 DEF Release, Goto, Types, In
  <2>3. CountExact'
    BY <1>0, <2>2, FS_RemoveElement DEF CountExact
  <2>4. AdmissionBound'
    <3> SUFFICES ASSUME NEW S \in SUBSET (In \ {r}), S # {}
                 PROVE  \E q \in S : seenLimit'[q] <= 0 \/ Cardinality(S) <= seenLimit'[q]
      BY <2>2 DEF AdmissionBound
    <3>1. PICK q \in S : seenLimit[q] <= 0 \/ Cardinality(S) <= seenLimit[q]
      BY <1>0 DEF AdmissionBound
    <3> QED
      BY <2>2, <3>1
  <2> QED
    BY <2>1, <2>3, <2>4 DEF Inv
<1>6. CASE SetLimit \/ UNCHANGED limiterVars
  <2>1. Types' /\ Seen'
    BY <1>0, <1>6 DEF SetLimit, limiterVars, Types, Seen
  <2>2. In' = In /\ current' = current /\ \A q \in In : seenLimit'[q] = seenLimit[q]
    BY <1>6 DEF SetLimit, limiterVars, In
  <2> QED
    BY <1>0, <2>1, <2>2, SameIn DEF Inv
<1> QED
  BY <1>1, <1>2, <1>3, <1>4, <1>5, <1>6 DEF Next, TryAcquire

\* The invariant holds throughout.
LEMMA InvHolds == Spec => []Inv
BY InitInv, StepInv, PTL DEF Spec

\* Every variable keeps its type, and the counter is never negative: a reload between
\* a limit and no limit leaves no request uncounted and none released twice.
THEOREM LimiterTypeCorrect == Spec => []LimiterTypeOK
<1>1. Inv => LimiterTypeOK
  <2> SUFFICES ASSUME Inv PROVE LimiterTypeOK
    OBVIOUS
  <2>1. In \subseteq Requests
    BY DEF In
  <2> QED
    BY <2>1, RequestsFinite DEF Inv, Types, CountExact, LimiterTypeOK
<1> QED
  BY <1>1, InvHolds, PTL

\* The counter is the number of admitted requests, for any number of requests and any
\* sequence of limits.
THEOREM CountExactHolds == Spec => []CountExact
<1>1. Inv => CountExact
  BY DEF Inv
<1> QED
  BY <1>1, InvHolds, PTL

\* No interleaving of admissions, releases and reloads lets more requests in at a time
\* than the largest of the limits they were admitted under.
THEOREM AdmissionBoundHolds == Spec => []AdmissionBound
<1>1. Inv => AdmissionBound
  BY DEF Inv
<1> QED
  BY <1>1, InvHolds, PTL

--------------------------------------------------------------------------------
(* Induction over finite sets and numbers, and sums. *)

\* Of any sets of elements of a finite set, one contains no other.
LEMMA SmallestSet ==
    ASSUME NEW S, IsFiniteSet(S), NEW F \in SUBSET SUBSET S, F # {}
    PROVE  \E T \in F : \A U \in F : U \subseteq T => U = T
<1> DEFINE R == StrictSubsetOrdering(S)
           G == FiniteSubsetsOf(S)
<1>1. IsWellFoundedOn(R, G)
    BY FS_StrictSubsetOrderingWellFounded
<1>2. G = SUBSET S
    BY FS_FiniteSubsetsOfFinite
<1>3. \A T, U \in SUBSET S : U \subseteq T /\ U # T => <<U, T>> \in R
    BY DEF StrictSubsetOrdering
<1> HIDE DEF R, G
<1>4. F \subseteq G
    BY <1>2
<1>5. PICK T \in F : \A U \in F : ~(<<U, T>> \in R)
    BY <1>1, <1>4, WFMin
<1>6. ASSUME NEW U \in F, U \subseteq T PROVE U = T
    BY <1>3, <1>5, <1>6
<1> QED
    BY <1>6

\* Of numbers up to n, one is the least.
LEMMA LeastNumber ==
    ASSUME NEW n \in Nat, NEW M \in SUBSET (0 .. n), M # {}
    PROVE  \E m \in M : \A k \in M : m <= k
<1> DEFINE Below(m) == {k \in M : k <= m}
           F == {Below(m) : m \in M}
           S == 0 .. n
<1>1. IsFiniteSet(S)
    BY FS_Interval
<1>2. F \in SUBSET SUBSET S /\ F # {} /\ \A k \in M : k \in Int
    <2>1. PICK m \in M : TRUE
        OBVIOUS
    <2>2. Below(m) \in F
        BY <2>1
    <2>3. \A k \in M : k \in Int /\ k \in S
        OBVIOUS
    <2> HIDE DEF S
    <2>4. ASSUME NEW k \in M PROVE Below(k) \in SUBSET S
        BY <2>3
    <2> HIDE DEF Below
    <2> QED
        BY <2>2, <2>3, <2>4
<1> HIDE DEF F, S
<1>3. PICK T \in F : \A U \in F : U \subseteq T => U = T
    BY <1>1, <1>2, SmallestSet
<1>4. PICK m \in M : T = Below(m)
    BY DEF F
<1>5. ASSUME NEW k \in M PROVE m <= k
    <2> SUFFICES ASSUME ~(m <= k) PROVE FALSE
        OBVIOUS
    <2>1. k \in Int /\ m \in Int /\ k <= m /\ ~(m <= k)
        BY <1>2
    <2>2. Below(k) \subseteq Below(m)
        <3>1. ASSUME NEW x \in M, x <= k PROVE x <= m
            BY <1>2, <2>1, <3>1
        <3> QED
            BY <3>1
    <2>3. Below(k) \in F
        BY DEF F
    <2>4. Below(k) = Below(m)
        BY <1>3, <1>4, <2>2, <2>3
    <2>5. m \in Below(m) /\ m \notin Below(k)
        BY <2>1
    <2> QED
        BY <2>4, <2>5
<1> QED
    BY <1>5

\* What holds of 0, and of a number when it does of the one before, holds up to n.
LEMMA CountingUp ==
    ASSUME NEW n \in Nat, NEW F, 0 \in F, \A i \in 1 .. n : i - 1 \in F => i \in F
    PROVE  \A i \in 0 .. n : i \in F
<1> SUFFICES ASSUME NEW j \in 0 .. n, j \notin F PROVE FALSE
    OBVIOUS
<1> DEFINE M == {i \in 0 .. n : i \notin F}
<1>1. M \in SUBSET (0 .. n) /\ M # {}
    OBVIOUS
<1> HIDE DEF M
<1>2. PICK m \in M : \A k \in M : m <= k
    BY <1>1, LeastNumber
<1>3. m \in 0 .. n /\ m \notin F
    BY DEF M
<1>4. m \in 1 .. n /\ m - 1 \in 0 .. n /\ ~(m <= m - 1)
    BY <1>3
<1>5. m - 1 \in F
    BY <1>2, <1>4 DEF M
<1> QED
    BY <1>3, <1>4, <1>5

\* The partial sums of f.
Sums(s, f) ==
    /\ s \in [0 .. MaxRouters -> Int] /\ s[0] = 0
    /\ \A n \in 1 .. MaxRouters : s[n] = s[n - 1] + f[n]

\* They exist, and the last one is the total.
LEMMA TotalIsSum ==
    ASSUME NEW f \in [1 .. MaxRouters -> Int]
    PROVE  \E s : Sums(s, f) /\ Routers!Total(f) = s[MaxRouters]
<1> DEFINE Upto(s, m) == /\ s \in [0 .. m -> Int] /\ s[0] = 0
                         /\ \A n \in 1 .. m : s[n] = s[n - 1] + f[n]
           F == {m \in 0 .. MaxRouters : \E s : Upto(s, m)}
<1>1. MaxRouters \in Nat
    BY ServingAssumption
<1>2. 0 \in F
    <2> DEFINE s == [n \in 0 .. 0 |-> 0]
    <2>1. Upto(s, 0)
        OBVIOUS
    <2>2. 0 \in 0 .. MaxRouters
        BY <1>1
    <2> HIDE DEF s, Upto
    <2> QED
        BY <2>1, <2>2
<1>3. ASSUME NEW m \in 1 .. MaxRouters, m - 1 \in F PROVE m \in F
    <2>1. PICK s : Upto(s, m - 1)
        BY <1>3
    <2> DEFINE t == [n \in 0 .. m |-> IF n = m THEN s[m - 1] + f[m] ELSE s[n]]
    <2>2. f[m] \in Int /\ m - 1 \in 0 .. m - 1 /\ s[m - 1] \in Int
        BY <2>1, <1>1
    <2>3. \A n \in 0 .. m : n = m \/ n \in 0 .. m - 1
        OBVIOUS
    <2>4. t \in [0 .. m -> Int]
        BY <2>1, <2>2, <2>3
    <2>5. t[0] = 0
        BY <2>1
    <2>6. ASSUME NEW n \in 1 .. m PROVE t[n] = t[n - 1] + f[n]
        <3>1. n \in 0 .. m /\ n - 1 \in 0 .. m /\ n - 1 # m
            BY <2>6
        <3>2. t[n - 1] = s[n - 1]
            BY <3>1
        <3>3. CASE n = m
            BY <3>1, <3>2, <3>3
        <3>4. CASE n # m
            BY <2>1, <3>1, <3>2, <3>4
        <3> QED
            BY <3>3, <3>4
    <2> HIDE DEF t
    <2>7. Upto(t, m)
        BY <2>4, <2>5, <2>6
    <2> HIDE DEF Upto
    <2> QED
        BY <2>7
<1>4. MaxRouters \in F
    <2> HIDE DEF F
    <2>1. \A m \in 0 .. MaxRouters : m \in F
        BY <1>1, <1>2, <1>3, CountingUp
    <2> QED
        BY <1>1, <2>1
<1>5. PICK s0 : Upto(s0, MaxRouters)
    BY <1>4
<1>6. s0 = [n \in 0 .. MaxRouters |-> IF n = 0 THEN 0 ELSE s0[n - 1] + f[n]]
    BY <1>1, <1>5
<1> DEFINE s == CHOOSE s : s = [n \in 0 .. MaxRouters |-> IF n = 0 THEN 0 ELSE s[n - 1] + f[n]]
<1>7. s = [n \in 0 .. MaxRouters |-> IF n = 0 THEN 0 ELSE s[n - 1] + f[n]]
    BY <1>6
<1>8. Routers!Total(f) = s[MaxRouters]
    BY DEF Routers!Total
<1> HIDE DEF s
<1>9. DOMAIN s = 0 .. MaxRouters /\ s[0] = 0 /\ \A n \in 1 .. MaxRouters : s[n] = s[n - 1] + f[n]
    BY <1>1, <1>7
<1>10. \A n \in 0 .. MaxRouters : s[n] \in Int
    <2> DEFINE G == {n \in 0 .. MaxRouters : s[n] \in Int}
    <2>1. 0 \in G /\ \A n \in 1 .. MaxRouters : n - 1 \in G => n \in G
        BY <1>1, <1>9
    <2> HIDE DEF G
    <2>2. \A n \in 0 .. MaxRouters : n \in G
        BY <1>1, <2>1, CountingUp
    <2> QED
        BY <2>2 DEF G
<1>11. s = [n \in 0 .. MaxRouters |-> s[n]]
    BY <1>7
<1> QED
    BY <1>8, <1>9, <1>10, <1>11 DEF Sums

\* When one number changes by d, so does the total.
LEMMA TotalChanges ==
    ASSUME NEW f \in [1 .. MaxRouters -> Int], NEW g \in [1 .. MaxRouters -> Int],
           NEW i \in 1 .. MaxRouters, NEW d \in Int, g[i] = f[i] + d,
           \A n \in 1 .. MaxRouters : n # i => g[n] = f[n]
    PROVE  Routers!Total(g) = Routers!Total(f) + d
<1>1. PICK s : Sums(s, f) /\ Routers!Total(f) = s[MaxRouters]
    BY TotalIsSum
<1>2. PICK t : Sums(t, g) /\ Routers!Total(g) = t[MaxRouters]
    BY TotalIsSum
<1>3. MaxRouters \in Nat
    BY ServingAssumption
<1> DEFINE G == {n \in 0 .. MaxRouters : t[n] = IF i <= n THEN s[n] + d ELSE s[n]}
<1>4. 0 \in G
    BY <1>1, <1>2, <1>3 DEF Sums
<1>5. ASSUME NEW n \in 1 .. MaxRouters, n - 1 \in G PROVE n \in G
    <2>1. s[n] = s[n - 1] + f[n] /\ t[n] = t[n - 1] + g[n]
        BY <1>1, <1>2 DEF Sums
    <2>4. n - 1 \in 0 .. MaxRouters
        BY <1>3
    <2>5. s[n - 1] \in Int /\ t[n - 1] \in Int
        BY <1>1, <1>2, <2>4 DEF Sums
    <2>6. f[n] \in Int /\ g[n] \in Int
        OBVIOUS
    <2>2. CASE n = i
        BY <1>5, <2>1, <2>2, <2>5, <2>6
    <2>3. CASE n # i
        BY <1>5, <2>1, <2>3, <2>5, <2>6
    <2> QED
        BY <2>2, <2>3
<1> HIDE DEF G
<1>6. \A n \in 0 .. MaxRouters : n \in G
    BY <1>3, <1>4, <1>5, CountingUp
<1> QED
    BY <1>1, <1>2, <1>3, <1>6 DEF G

\* The total of zeros is zero.
LEMMA TotalOfZeros ==
    ASSUME NEW f \in [1 .. MaxRouters -> Int], \A n \in 1 .. MaxRouters : f[n] = 0
    PROVE  Routers!Total(f) = 0
<1>1. PICK s : Sums(s, f) /\ Routers!Total(f) = s[MaxRouters]
    BY TotalIsSum
<1>2. MaxRouters \in Nat
    BY ServingAssumption
<1> DEFINE G == {n \in 0 .. MaxRouters : s[n] = 0}
<1>3. 0 \in G /\ \A n \in 1 .. MaxRouters : n - 1 \in G => n \in G
    BY <1>1, <1>2 DEF Sums
<1> HIDE DEF G
<1>4. \A n \in 0 .. MaxRouters : n \in G
    BY <1>2, <1>3, CountingUp
<1> QED
    BY <1>1, <1>2, <1>4 DEF G

--------------------------------------------------------------------------------
(***************************************************************************)
(* The handler: the inductive invariant.                                   *)
(***************************************************************************)

\* A request has read a configuration when it works with a router, releases only what
\* it holds, and holds nothing before it is admitted and after it has returned.
Placed(r) ==
    /\ pc[r] \in {"select", "scan"} => call[r] = "select"
    /\ pc[r] \in {"acquire", "release"} => call[r] = pc[r]
    /\ pc[r] \notin {"config", "serving", "done"} => got[r] \in Routings
    /\ pc[r] \in {"config", "cache", "store", "release"} /\ call[r] = "release" => held[r] # <<>>
    /\ pc[r] = "done" \/ slot[r] # "in" => held[r] = <<>>

\* It holds no provider twice, and what it may choose and has chosen is new to it.
HeldBy(r) == {held[r][i] : i \in DOMAIN held[r]}
Different(r) ==
    /\ \A i, j \in DOMAIN held[r] : held[r][i] = held[r][j] => i = j
    /\ pc[r] # "scan" => least[r] = Routers!NoMinimum
    /\ pc[r] = "scan" => (unread[r] \cup least[r].best) \cap HeldBy(r) = {}
    /\ pc[r] \in {"config", "cache", "store", "acquire"} /\ call[r] = "acquire"
         => chosen[r] \notin HeldBy(r)

HandlerInv ==
    /\ Routers!LoadTypeOK
    /\ \A r \in Requests : Placed(r) /\ Different(r)
    /\ Routers!LoadsConserved

--------------------------------------------------------------------------------
(* What a step does to sequences, to what is held and to the loads. *)

\* Appending an element keeps those there are.
LEMMA Appended ==
    ASSUME NEW T, NEW s \in Seq(T), NEW c \in T
    PROVE  /\ Append(s, c) \in Seq(T) /\ Len(s) \in Nat /\ Append(s, c) # <<>>
           /\ DOMAIN s = 1 .. Len(s) /\ DOMAIN Append(s, c) = 1 .. Len(s) + 1
           /\ Append(s, c)[Len(s) + 1] = c
           /\ \A i \in 1 .. Len(s) : Append(s, c)[i] = s[i]
OBVIOUS

\* The front of a sequence has all its elements but the last.
LEMMA Shortened ==
    ASSUME NEW T, NEW s \in Seq(T), s # <<>>
    PROVE  /\ Routers!Front(s) \in Seq(T) /\ Len(s) \in Nat \ {0}
           /\ DOMAIN s = 1 .. Len(s) /\ DOMAIN Routers!Front(s) = 1 .. Len(s) - 1
           /\ \A i \in 1 .. Len(s) - 1 : Routers!Front(s)[i] = s[i]
           /\ Routers!Last(s) = s[Len(s)] /\ s[Len(s)] \in T
BY DEF Routers!Front, Routers!Last

\* What is held of a provider can be counted: no request holds it twice.
LEMMA HoldsOnce ==
    ASSUME held \in [Requests -> Seq(Routers!Providers)], NEW p \in Routers!Providers,
           NEW S \in SUBSET Requests, \A r \in Requests : Different(r),
           \A r \in Requests \ S : held[r] = <<>>
    PROVE  /\ IsFiniteSet(Routers!Holds(p)) /\ Routers!Holding(p) \in Nat
           /\ Routers!Holding(p) <= Cardinality(S)
<1> DEFINE H == Routers!Holds(p)
           f == [h \in H |-> h[1]]
<1>1. \A h \in H : \E r \in Requests : \E j \in DOMAIN held[r] : h = <<r, j>> /\ held[r][j] = p
    BY DEF Routers!Holds
<1>2. \A h \in H : /\ h[1] \in Requests /\ h[2] \in DOMAIN held[h[1]]
                    /\ held[h[1]][h[2]] = p /\ h = <<h[1], h[2]>>
    BY <1>1
<1>3. \A h \in H : h[1] \in S
    BY <1>2
<1> HIDE DEF H
<1>4. f \in [H -> S]
    BY <1>3
<1>5. ASSUME NEW g \in H, NEW h \in H, f[g] = f[h] PROVE g = h
    <2>1. g[1] = h[1]
        BY <1>5
    <2>2. g[2] = h[2]
        BY <1>2, <2>1 DEF Different
    <2> QED
        BY <1>2, <2>1, <2>2
<1>6. f \in Injection(H, S)
    BY <1>4, <1>5 DEF Injection, IsInjective
<1>7. IsFiniteSet(S)
    BY RequestsFinite
<1> HIDE DEF f
<1>8. IsFiniteSet(H) /\ Cardinality(H) <= Cardinality(S)
    BY <1>6, <1>7, FS_Injection
<1>9. Cardinality(H) \in Nat
    BY <1>8, FS_CardinalityType
<1>10. Routers!Holding(p) = Cardinality(H)
    BY DEF H, Routers!Holding, Routers!Cardinality, Cardinality
<1> QED
    BY <1>8, <1>9, <1>10 DEF H

\* One counter of a router moves by one: the counters stay integers.
LEMMA LoadsStayTyped ==
    ASSUME NEW R, NEW P, NEW f \in [R -> [P -> Int]], NEW k \in R, NEW p \in P, NEW d \in Int
    PROVE  [f EXCEPT ![k][p] = @ + d] \in [R -> [P -> Int]]
<1>1. f[k] \in [P -> Int] /\ f[k][p] + d \in Int
    OBVIOUS
<1>2. [f[k] EXCEPT ![p] = f[k][p] + d] \in [P -> Int]
    BY <1>1
<1> QED
    BY <1>1, <1>2

\* A load that changes changes the total of its provider alone.
LEMMA LoadMoves ==
    ASSUME Routers!LoadTypeOK, NEW i \in Routers!RouterIds, NEW c \in Routers!Providers,
           NEW d \in Int, load' = [load EXCEPT ![i][c] = @ + d],
           NEW p \in Routers!Providers
    PROVE  /\ p = c => Routers!TotalLoad(p)' = Routers!TotalLoad(p) + d
           /\ p # c => Routers!TotalLoad(p)' = Routers!TotalLoad(p)
<1> DEFINE f == [n \in Routers!RouterIds |-> load[n][p]]
           g == [n \in Routers!RouterIds |-> load'[n][p]]
<1>1. Routers!RouterIds = 1 .. MaxRouters
    BY DEF Routers!RouterIds
<1>2. load \in [Routers!RouterIds -> [Routers!Providers -> Int]]
    BY DEF Routers!LoadTypeOK
<1>3. \A n \in Routers!RouterIds : load'[n] = IF n = i THEN [load[i] EXCEPT ![c] = @ + d] ELSE load[n]
    BY <1>2
<1>4. f \in [1 .. MaxRouters -> Int]
    BY <1>1, <1>2
<1>5. g \in [1 .. MaxRouters -> Int]
    <2>1. \A n \in Routers!RouterIds : load'[n][p] \in Int
        BY <1>2, <1>3
    <2> QED
        BY <1>1, <2>1
<1>6. Routers!TotalLoad(p) = Routers!Total(f) /\ Routers!TotalLoad(p)' = Routers!Total(g)
    BY DEF Routers!TotalLoad
<1>7. CASE p = c
    <2>1. g[i] = f[i] + d /\ \A n \in 1 .. MaxRouters : n # i => g[n] = f[n]
        BY <1>1, <1>2, <1>3, <1>7
    <2> HIDE DEF f, g
    <2> QED
        BY <1>1, <1>4, <1>5, <1>6, <1>7, <2>1, TotalChanges
<1>8. CASE p # c
    <2>1. g = f
        BY <1>2, <1>3, <1>8
    <2> QED
        BY <1>6, <1>8, <2>1
<1> QED
    BY <1>7, <1>8

--------------------------------------------------------------------------------
(* What a request holds, and what the loads of the routers add up to. *)

\* Two sets of the same pairs are the same.
LEMMA SamePairs ==
    ASSUME NEW A, NEW B, \A a \in A : a = <<a[1], a[2]>>, \A b \in B : b = <<b[1], b[2]>>,
           \A q, i : <<q, i>> \in A <=> <<q, i>> \in B
    PROVE  A = B
<1>1. ASSUME NEW a \in A PROVE a \in B
    BY <1>1
<1>2. ASSUME NEW b \in B PROVE b \in A
    BY <1>2
<1> QED
    BY <1>1, <1>2

\* The places in what the requests hold at which a provider is.
LEMMA HoldsAt ==
    ASSUME NEW p
    PROVE  /\ \A h \in Routers!Holds(p) : h = <<h[1], h[2]>>
           /\ \A q, i : <<q, i>> \in Routers!Holds(p) <=>
                            q \in Requests /\ i \in DOMAIN held[q] /\ held[q][i] = p
BY DEF Routers!Holds

\* Their number.
LEMMA HoldingIs == ASSUME NEW p PROVE Routers!Holding(p) = Cardinality(Routers!Holds(p))
BY DEF Routers!Holding, Routers!Cardinality, Cardinality

\* A request that acquires provider c holds it at one place more.
LEMMA HoldsMore ==
    ASSUME held \in [Requests -> Seq(Routers!Providers)], NEW r \in Requests,
           NEW c \in Routers!Providers, held' = [held EXCEPT ![r] = Append(@, c)],
           NEW p
    PROVE  /\ <<r, Len(held[r]) + 1>> \notin Routers!Holds(p)
           /\ p = c => Routers!Holds(p)' = Routers!Holds(p) \cup {<<r, Len(held[r]) + 1>>}
           /\ p # c => Routers!Holds(p)' = Routers!Holds(p)
<1> DEFINE n == Len(held[r]) + 1
           H == Routers!Holds(p)
           G == Routers!Holds(p)'
<1>1. /\ \A h \in H : h = <<h[1], h[2]>>
      /\ \A q, i : <<q, i>> \in H <=> q \in Requests /\ i \in DOMAIN held[q] /\ held[q][i] = p
    BY HoldsAt
<1>2. /\ \A h \in G : h = <<h[1], h[2]>>
      /\ \A q, i : <<q, i>> \in G <=> q \in Requests /\ i \in DOMAIN held'[q] /\ held'[q][i] = p
    BY DEF Routers!Holds
<1>3. /\ held'[r] = Append(held[r], c) /\ held[r] \in Seq(Routers!Providers)
      /\ \A q \in Requests \ {r} : held'[q] = held[q]
    OBVIOUS
<1>4. /\ DOMAIN held[r] = 1 .. n - 1 /\ DOMAIN held'[r] = 1 .. n /\ held'[r][n] = c
      /\ \A i \in 1 .. n - 1 : held'[r][i] = held[r][i]
      /\ n \in Nat
    <2>1. Len(held[r]) \in Nat /\ n - 1 = Len(held[r])
        BY <1>3
    <2> QED
        BY <1>3, <2>1, Appended
<1> HIDE DEF n, H, G
<1>5. <<r, n>> \notin H
    BY <1>1, <1>4
<1>6. \A q, i : <<q, i>> \in G <=> <<q, i>> \in H \/ (q = r /\ i = n /\ p = c)
    <2> SUFFICES ASSUME NEW q, NEW i
                 PROVE  <<q, i>> \in G <=> <<q, i>> \in H \/ (q = r /\ i = n /\ p = c)
        OBVIOUS
    <2>1. CASE q = r
        <3>1. i \in 1 .. n <=> i \in 1 .. n - 1 \/ i = n
            BY <1>4
        <3>2. n \notin 1 .. n - 1
            BY <1>4
        <3> QED
            BY <1>1, <1>2, <1>4, <2>1, <3>1, <3>2
    <2>2. CASE q # r
        BY <1>1, <1>2, <1>3, <2>2
    <2> QED
        BY <2>1, <2>2
<1>7. p = c => G = H \cup {<<r, n>>}
    BY <1>1, <1>2, <1>6
<1>8. p # c => G = H
    <2>1. p # c => \A q, i : <<q, i>> \in G <=> <<q, i>> \in H
        BY <1>6
    <2> QED
        BY <1>1, <1>2, <2>1, SamePairs
<1> QED
    BY <1>5, <1>7, <1>8 DEF n, H, G

\* A request that releases the provider it acquired last holds it at one place less.
LEMMA HoldsLess ==
    ASSUME held \in [Requests -> Seq(Routers!Providers)], NEW r \in Requests,
           held[r] # <<>>, held' = [held EXCEPT ![r] = Routers!Front(@)], NEW p
    PROVE  /\ p = Routers!Last(held[r]) =>
                /\ <<r, Len(held[r])>> \in Routers!Holds(p)
                /\ Routers!Holds(p)' = Routers!Holds(p) \ {<<r, Len(held[r])>>}
           /\ p # Routers!Last(held[r]) => Routers!Holds(p)' = Routers!Holds(p)
<1> DEFINE n == Len(held[r])
           c == Routers!Last(held[r])
           H == Routers!Holds(p)
           G == Routers!Holds(p)'
<1>1. /\ \A h \in H : h = <<h[1], h[2]>>
      /\ \A q, i : <<q, i>> \in H <=> q \in Requests /\ i \in DOMAIN held[q] /\ held[q][i] = p
    BY HoldsAt
<1>2. /\ \A h \in G : h = <<h[1], h[2]>>
      /\ \A q, i : <<q, i>> \in G <=> q \in Requests /\ i \in DOMAIN held'[q] /\ held'[q][i] = p
    BY DEF Routers!Holds
<1>3. /\ held'[r] = Routers!Front(held[r]) /\ held[r] \in Seq(Routers!Providers)
      /\ \A q \in Requests \ {r} : held'[q] = held[q]
    OBVIOUS
<1>4. /\ DOMAIN held[r] = 1 .. n /\ DOMAIN held'[r] = 1 .. n - 1 /\ held[r][n] = c
      /\ \A i \in 1 .. n - 1 : held'[r][i] = held[r][i]
      /\ n \in Nat \ {0}
    BY <1>3, Shortened
<1> HIDE DEF n, c, H, G
<1>5. p = c => <<r, n>> \in H
    BY <1>1, <1>4
<1>6. \A q, i : <<q, i>> \in G <=> <<q, i>> \in H /\ (q # r \/ i # n)
    <2> SUFFICES ASSUME NEW q, NEW i
                 PROVE  <<q, i>> \in G <=> <<q, i>> \in H /\ (q # r \/ i # n)
        OBVIOUS
    <2>1. CASE q = r
        <3>1. i \in 1 .. n - 1 <=> i \in 1 .. n /\ i # n
            BY <1>4
        <3>2. <<r, i>> \in G <=> i \in 1 .. n - 1 /\ held'[r][i] = p
            BY <1>2, <1>4
        <3>3. <<r, i>> \in H <=> i \in 1 .. n /\ held[r][i] = p
            BY <1>1, <1>4
        <3>4. i \in 1 .. n - 1 => held'[r][i] = held[r][i]
            BY <1>4
        <3> QED
            BY <2>1, <3>1, <3>2, <3>3, <3>4
    <2>2. CASE q # r
        BY <1>1, <1>2, <1>3, <2>2
    <2> QED
        BY <2>1, <2>2
<1>7. p = c => G = H \ {<<r, n>>}
    BY <1>1, <1>2, <1>6
<1>8. p # c => G = H
    <2>1. p # c => <<r, n>> \notin H
        BY <1>1, <1>4
    <2>2. p # c => \A q, i : <<q, i>> \in G <=> <<q, i>> \in H
        BY <1>6, <2>1
    <2> QED
        BY <1>1, <1>2, <2>2, SamePairs
<1> QED
    BY <1>5, <1>7, <1>8 DEF n, c, H, G

\* With no load and nothing held changed, the loads add up as before.
LEMMA SameLoads ==
    ASSUME Routers!LoadsConserved, load' = load, held' = held
    PROVE  Routers!LoadsConserved'
BY DEF Routers!LoadsConserved, Routers!TotalLoad, Routers!Holding, Routers!Holds

\* A provider that is acquired is counted once, on the router the call has reached.
LEMMA AcquireConserves ==
    ASSUME HandlerInv, NEW r \in Requests, Routers!Acquire(r)
    PROVE  Routers!LoadsConserved'
<1> SUFFICES ASSUME Routings \subseteq LeastLoaded, NEW p \in Routers!Providers
             PROVE  Routers!TotalLoad(p)' = Routers!Holding(p)'
    BY DEF Routers!LoadsConserved
<1> DEFINE c == chosen[r]
           i == router[r]
           one == 1
           h == <<r, Len(held[r]) + 1>>
           H == Routers!Holds(p)
<1>1. /\ pc[r] = "acquire" /\ held' = [held EXCEPT ![r] = Append(@, c)]
      /\ Routers!Counts(r) => load' = [load EXCEPT ![i][c] = @ + one]
    BY DEF Routers!Acquire, Routers!Step, Routers!Add
<1>2. Routers!LoadTypeOK /\ Placed(r) /\ \A q \in Requests : Different(q)
    BY DEF HandlerInv
<1>3. Routers!Counts(r)
    BY <1>1, <1>2 DEF Placed, Routers!Counts
<1>4. /\ c \in Routers!Providers /\ i \in Routers!RouterIds /\ one \in Int
      /\ held \in [Requests -> Seq(Routers!Providers)]
    BY <1>2 DEF Routers!LoadTypeOK
<1>5. Routers!TotalLoad(p) = Cardinality(H) /\ Routers!Holding(p)' = Cardinality(H')
    <2>1. Routers!TotalLoad(p) = Routers!Holding(p)
        BY DEF HandlerInv, Routers!LoadsConserved
    <2>2. Routers!Holding(p)' = Cardinality(H')
        BY DEF Routers!Holding, Routers!Cardinality, Cardinality
    <2> QED
        BY <2>1, <2>2, HoldingIs
<1>6. IsFiniteSet(H) /\ Cardinality(H) \in Nat
    BY <1>2, <1>4, HoldsOnce, FS_CardinalityType
<1>7. /\ h \notin H
      /\ p = c => H' = H \cup {h}
      /\ p # c => H' = H
    BY <1>1, <1>4, HoldsMore
<1> HIDE DEF c, i, one, H, h
<1>8. /\ p = c => Routers!TotalLoad(p)' = Routers!TotalLoad(p) + one
      /\ p # c => Routers!TotalLoad(p)' = Routers!TotalLoad(p)
    BY <1>1, <1>2, <1>3, <1>4, LoadMoves
<1>9. p = c => Cardinality(H') = Cardinality(H) + one
    BY <1>6, <1>7, FS_AddElement DEF one
<1> QED
    BY <1>5, <1>7, <1>8, <1>9

\* A provider that is released is taken off once.
LEMMA ReleaseConserves ==
    ASSUME HandlerInv, NEW r \in Requests, Routers!Release(r)
    PROVE  Routers!LoadsConserved'
<1> SUFFICES ASSUME Routings \subseteq LeastLoaded, NEW p \in Routers!Providers
             PROVE  Routers!TotalLoad(p)' = Routers!Holding(p)'
    BY DEF Routers!LoadsConserved
<1> DEFINE c == Routers!Last(held[r])
           i == router[r]
           one == -1
           h == <<r, Len(held[r])>>
           H == Routers!Holds(p)
<1>1. /\ pc[r] = "release" /\ held' = [held EXCEPT ![r] = Routers!Front(@)]
      /\ Routers!Counts(r) => load' = [load EXCEPT ![i][c] = @ + one]
    BY DEF Routers!Release, Routers!Add
<1>2. Routers!LoadTypeOK /\ Placed(r) /\ \A q \in Requests : Different(q)
    BY DEF HandlerInv
<1>3. Routers!Counts(r) /\ held[r] # <<>>
    BY <1>1, <1>2 DEF Placed, Routers!Counts
<1>4. /\ i \in Routers!RouterIds /\ one \in Int
      /\ held \in [Requests -> Seq(Routers!Providers)]
    BY <1>2 DEF Routers!LoadTypeOK
<1>5. Routers!TotalLoad(p) = Cardinality(H) /\ Routers!Holding(p)' = Cardinality(H')
    <2>1. Routers!TotalLoad(p) = Routers!Holding(p)
        BY DEF HandlerInv, Routers!LoadsConserved
    <2>2. Routers!Holding(p)' = Cardinality(H')
        BY DEF Routers!Holding, Routers!Cardinality, Cardinality
    <2> QED
        BY <2>1, <2>2, HoldingIs
<1>6. IsFiniteSet(H) /\ Cardinality(H) \in Nat
    BY <1>2, <1>4, HoldsOnce, FS_CardinalityType
<1>7. /\ p = c => h \in H /\ H' = H \ {h}
      /\ p # c => H' = H
    BY <1>1, <1>3, <1>4, HoldsLess
<1>8. c \in Routers!Providers
    BY <1>3, <1>4, Shortened
<1> HIDE DEF c, i, one, H, h
<1>9. /\ p = c => Routers!TotalLoad(p)' = Routers!TotalLoad(p) + one
      /\ p # c => Routers!TotalLoad(p)' = Routers!TotalLoad(p)
    BY <1>1, <1>2, <1>3, <1>4, <1>8, LoadMoves
<1>10. p = c => Cardinality(H') = Cardinality(H) + one
    BY <1>6, <1>7, FS_RemoveElement DEF one
<1> QED
    BY <1>5, <1>7, <1>9, <1>10

--------------------------------------------------------------------------------
(* Each action keeps the handler's invariant. *)

\* The next provider to be looked at is one of those that are left.
LEMMA FirstIsOne ==
    ASSUME NEW S \in SUBSET Routers!Providers, S # {}
    PROVE  Routers!FirstOf(S) \in S
<1>1. /\ Order \in Seq(Routers!Providers) /\ Len(Order) \in Nat
      /\ DOMAIN Order = 1 .. Len(Order)
    BY ServingAssumption
<1> DEFINE M == {i \in DOMAIN Order : Order[i] \in S}
<1>2. M \in SUBSET (0 .. Len(Order))
    BY <1>1
<1>3. M # {}
    <2>1. PICK p \in S : p \in Routers!Providers
        OBVIOUS
    <2>2. PICK i \in DOMAIN Order : Order[i] = p
        BY <2>1, <1>1 DEF Routers!Providers, Routers!ToSet
    <2> QED
        BY <2>2
<1>4. PICK m \in M : \A k \in M : m <= k
    <2> HIDE DEF M
    <2> QED
        BY <1>1, <1>2, <1>3, LeastNumber
<1>5. /\ m \in DOMAIN Order /\ Order[m] \in S
      /\ \A j \in 1 .. m - 1 : Order[j] \notin S
    <2>1. ASSUME NEW j \in 1 .. m - 1, Order[j] \in S PROVE FALSE
        <3>1. j \in DOMAIN Order /\ ~(m <= j)
            BY <1>1, <2>1
        <3> QED
            BY <1>4, <2>1, <3>1
    <2> QED
        BY <2>1
<1> QED
    BY <1>5 DEF Routers!FirstOf

\* The first provider is one.
LEMMA SomeProvider == Order[1] \in Routers!Providers /\ 1 \in Routers!RouterIds
<1>1. Order \in Seq(Routers!Providers) /\ Order # <<>> /\ MaxRouters \in Nat \ {0}
    BY ServingAssumption
<1>2. Order[1] \in Routers!Providers
    BY <1>1
<1>3. 1 \in Routers!RouterIds
    BY <1>1 DEF Routers!RouterIds
<1> QED
    BY <1>2, <1>3

\* What a request is about, as far as the invariant looks at it.
State(r) == <<pc[r], call[r], got[r], unread[r], least[r], chosen[r], held[r], slot[r]>>

\* A step of one request keeps what the invariant says of the others.
LEMMA OneMoves ==
    ASSUME HandlerInv, NEW r \in Requests, \A q \in Requests \ {r} : State(q)' = State(q),
           Routers!LoadTypeOK', Placed(r)', Different(r)', Routers!LoadsConserved'
    PROVE  HandlerInv'
<1>1. ASSUME NEW q \in Requests PROVE Placed(q)' /\ Different(q)'
    <2>1. CASE q = r
        BY <2>1
    <2>2. CASE q # r
        <3>1. Placed(q) /\ Different(q)
            BY DEF HandlerInv
        <3>2. State(q)' = State(q)
            BY <2>2
        <3>3. Placed(q)'
            BY <3>1, <3>2 DEF Placed, State
        <3>4. Different(q)'
            BY <3>1, <3>2 DEF Different, HeldBy, State, Routers!NoMinimum
        <3> QED
            BY <3>3, <3>4
    <2> QED
        BY <2>1, <2>2
<1> QED
    BY <1>1 DEF HandlerInv


\* The configuration is read first.
LEMMA ReadConfigKeeps ==
    ASSUME HandlerInv, NEW r \in Requests, slot' = slot, Routers!ReadConfig(r)
    PROVE  HandlerInv'
<1> USE DEF Routers!ReadConfig, Routers!Step, Routers!routerVars, Routers!selectVars
<1>1. Routers!LoadTypeOK /\ Placed(r) /\ Different(r) /\ Routers!LoadsConserved
    BY DEF HandlerInv
<1>2. Routers!LoadTypeOK'
    BY <1>1 DEF Routers!LoadTypeOK
<1>3. \A q \in Requests \ {r} : State(q)' = State(q)
    BY <1>1 DEF State, Routers!LoadTypeOK
<1>4. /\ pc[r] = "config" /\ pc'[r] = "cache" /\ got'[r] \in Routings
      /\ call' = call /\ held' = held
    BY <1>1 DEF Routers!LoadTypeOK
<1>5. Placed(r)'
    BY <1>1, <1>4 DEF Placed
<1>6. Different(r)'
    BY <1>1, <1>4 DEF Different, HeldBy, Routers!NoMinimum
<1> QED
    BY <1>1, <1>2, <1>3, <1>5, <1>6, OneMoves, SameLoads

\* A router that is cached or made is one of the routers.
LEMMA LoadCacheKeeps ==
    ASSUME HandlerInv, NEW r \in Requests, slot' = slot, Routers!LoadCache(r)
    PROVE  HandlerInv'
<1> USE DEF Routers!LoadCache, Routers!Step, Routers!selectVars
<1>1. Routers!LoadTypeOK /\ Placed(r) /\ Different(r) /\ Routers!LoadsConserved
    BY DEF HandlerInv
<1>2. Routers!LoadTypeOK'
    <2>1. /\ made \in 0 .. MaxRouters /\ MaxRouters \in Nat
          /\ router \in [Requests -> Routers!RouterIds] /\ cache.router \in Routers!RouterIds
          /\ pc \in [Requests -> {"config", "cache", "store", "select", "scan",
                                  "acquire", "serving", "release", "done"}]
          /\ call[r] \in {"select", "acquire", "release"}
        BY <1>1, ServingAssumption DEF Routers!LoadTypeOK
    <2>2. \E to \in {"store", call[r]} : pc' = [pc EXCEPT ![r] = to]
        OBVIOUS
    <2>3. pc' \in [Requests -> {"config", "cache", "store", "select", "scan",
                                "acquire", "serving", "release", "done"}]
        BY <2>1, <2>2
    <2>4. made < MaxRouters => made + 1 \in 0 .. MaxRouters /\ made + 1 \in Routers!RouterIds
        BY <2>1 DEF Routers!RouterIds
    <2>5. made' \in 0 .. MaxRouters
        BY <2>1, <2>4
    <2>6. \E i \in Routers!RouterIds : router' = [router EXCEPT ![r] = i]
        BY <2>1, <2>4
    <2>7. router' \in [Requests -> Routers!RouterIds]
        BY <2>1, <2>6
    <2> QED
        BY <1>1, <2>3, <2>5, <2>7 DEF Routers!LoadTypeOK
<1>3. \A q \in Requests \ {r} : State(q)' = State(q)
    BY <1>1 DEF State, Routers!LoadTypeOK
<1>4. /\ pc[r] = "cache" /\ pc'[r] \in {"store", call[r]} /\ got' = got
      /\ call' = call /\ held' = held /\ call[r] \in {"select", "acquire", "release"}
    BY <1>1 DEF Routers!LoadTypeOK
<1>5. Placed(r)'
    BY <1>1, <1>4 DEF Placed
<1>6. Different(r)'
    BY <1>1, <1>4 DEF Different, HeldBy, Routers!NoMinimum
<1> QED
    BY <1>1, <1>2, <1>3, <1>5, <1>6, OneMoves, SameLoads

\* The router that is stored is the one the request has made.
LEMMA StoreCacheKeeps ==
    ASSUME HandlerInv, NEW r \in Requests, slot' = slot, Routers!StoreCache(r)
    PROVE  HandlerInv'
<1> USE DEF Routers!StoreCache, Routers!Step, Routers!fetchVars, Routers!selectVars
<1>1. Routers!LoadTypeOK /\ Placed(r) /\ Different(r) /\ Routers!LoadsConserved
    BY DEF HandlerInv
<1>2. Routers!LoadTypeOK'
    <2>1. cache' \in [routing: Routings \cup {NoRouting}, router: Routers!RouterIds]
        BY <1>1 DEF Routers!LoadTypeOK
    <2>2. pc' \in [Requests -> {"config", "cache", "store", "select", "scan",
                                "acquire", "serving", "release", "done"}]
        BY <1>1 DEF Routers!LoadTypeOK
    <2> QED
        BY <1>1, <2>1, <2>2 DEF Routers!LoadTypeOK
<1>3. \A q \in Requests \ {r} : State(q)' = State(q)
    BY <1>1 DEF State, Routers!LoadTypeOK
<1>4. /\ pc[r] = "store" /\ pc'[r] = call[r] /\ got' = got
      /\ call' = call /\ held' = held /\ call[r] \in {"select", "acquire", "release"}
    BY <1>1 DEF Routers!LoadTypeOK
<1>5. Placed(r)'
    BY <1>1, <1>4 DEF Placed
<1>6. Different(r)'
    BY <1>1, <1>4 DEF Different, HeldBy, Routers!NoMinimum
<1> QED
    BY <1>1, <1>2, <1>3, <1>5, <1>6, OneMoves, SameLoads

\* A deferred call follows while something is held.
LEMMA Returns ==
    ASSUME Routers!LoadTypeOK, NEW r \in Requests, NEW from, Routers!Return(r, from, "done")
    PROVE  /\ pc[r] = from
           /\ pc' \in [Requests -> {"config", "cache", "store", "select", "scan",
                                    "acquire", "serving", "release", "done"}]
           /\ call' \in [Requests -> {"select", "acquire", "release"}]
           /\ \A q \in Requests \ {r} : pc'[q] = pc[q] /\ call'[q] = call[q]
           /\ \/ pc'[r] = "done" /\ held'[r] = <<>>
              \/ pc'[r] = "config" /\ call'[r] = "release" /\ held'[r] # <<>>
<1>1. CASE held'[r] = <<>>
    BY <1>1 DEF Routers!Return, Routers!Step, Routers!LoadTypeOK
<1>2. CASE held'[r] # <<>>
    BY <1>2 DEF Routers!Return, Routers!Call, Routers!Step, Routers!LoadTypeOK
<1> QED
    BY <1>1, <1>2

\* What the request has fetched is forgotten.
LEMMA Forgets ==
    ASSUME Routers!LoadTypeOK, NEW r \in Requests, Routers!Forget(r)
    PROVE  /\ got' \in [Requests -> Routings \cup {NoRouting}]
           /\ router' \in [Requests -> Routers!RouterIds]
           /\ \A q \in Requests \ {r} : got'[q] = got[q]
<1>1. got \in [Requests -> Routings \cup {NoRouting}] /\ router \in [Requests -> Routers!RouterIds]
    BY DEF Routers!LoadTypeOK
<1>2. 1 \in Routers!RouterIds
    BY SomeProvider
<1> QED
    BY <1>1, <1>2 DEF Routers!Forget

\* The providers that are candidates are new to the request.
LEMMA SelectBeginsKeeps ==
    ASSUME HandlerInv, NEW r \in Requests, slot[r] = "in", slot' = slot,
           Routers!SelectBegins(r)
    PROVE  HandlerInv'
<1>1. Routers!LoadTypeOK /\ Placed(r) /\ Different(r) /\ Routers!LoadsConserved
    BY DEF HandlerInv
<1>2. PICK healthy \in Routers!Candidates(r) :
        /\ UNCHANGED <<routing, cache, made, load, least, reads, chosen, held>>
        /\ unread' = [unread EXCEPT ![r] = healthy]
        /\ \/ /\ healthy = {}
              /\ Routers!Return(r, "select", "done")
              /\ Routers!Forget(r)
           \/ /\ healthy # {}
              /\ Routers!Step(r, "select", "scan")
              /\ UNCHANGED <<call, got, router>>
    BY DEF Routers!SelectBegins, Routers!routerVars, Routers!fetchVars
<1>3. healthy \subseteq Routers!Providers /\ healthy \cap HeldBy(r) = {}
    <2>1. held[r] \in Seq(Routers!Providers)
        BY <1>1 DEF Routers!LoadTypeOK
    <2> QED
        BY <2>1 DEF Routers!Candidates, Routers!ToSet, HeldBy
<1>4. unread' \in [Requests -> SUBSET Routers!Providers]
    BY <1>1, <1>2, <1>3 DEF Routers!LoadTypeOK
<1>5. unread'[r] = healthy /\ \A q \in Requests \ {r} : unread'[q] = unread[q]
    BY <1>1, <1>2 DEF Routers!LoadTypeOK
<1>6. held' = held /\ least' = least /\ chosen' = chosen /\ load' = load
    BY <1>2
<1>7. CASE healthy = {} /\ Routers!Return(r, "select", "done") /\ Routers!Forget(r)
    <2>1. /\ pc[r] = "select"
          /\ pc' \in [Requests -> {"config", "cache", "store", "select", "scan",
                                   "acquire", "serving", "release", "done"}]
          /\ call' \in [Requests -> {"select", "acquire", "release"}]
          /\ \A q \in Requests \ {r} : pc'[q] = pc[q] /\ call'[q] = call[q]
          /\ \/ pc'[r] = "done" /\ held'[r] = <<>>
             \/ pc'[r] = "config" /\ call'[r] = "release" /\ held'[r] # <<>>
        BY <1>1, <1>7, Returns
    <2>2. /\ got' \in [Requests -> Routings \cup {NoRouting}]
          /\ router' \in [Requests -> Routers!RouterIds]
          /\ \A q \in Requests \ {r} : got'[q] = got[q]
        BY <1>1, <1>7, Forgets
    <2>3. Routers!LoadTypeOK'
        BY <1>1, <1>2, <1>4, <2>1, <2>2 DEF Routers!LoadTypeOK
    <2>4. \A q \in Requests \ {r} : State(q)' = State(q)
        BY <1>5, <1>6, <2>1, <2>2 DEF State
    <2>5. Placed(r)'
        BY <1>1, <1>6, <2>1 DEF Placed
    <2>6. Different(r)'
        BY <1>1, <1>6, <2>1 DEF Different, HeldBy, Routers!NoMinimum
    <2> QED
        BY <1>1, <1>6, <2>3, <2>4, <2>5, <2>6, OneMoves, SameLoads
<1>8. CASE Routers!Step(r, "select", "scan") /\ UNCHANGED <<call, got, router>>
    <2>1. Routers!LoadTypeOK'
        BY <1>1, <1>2, <1>4, <1>8 DEF Routers!LoadTypeOK, Routers!Step
    <2>2. /\ pc[r] = "select" /\ pc'[r] = "scan" /\ call' = call /\ got' = got
          /\ \A q \in Requests \ {r} : pc'[q] = pc[q]
        BY <1>1, <1>8 DEF Routers!LoadTypeOK, Routers!Step
    <2>3. \A q \in Requests \ {r} : State(q)' = State(q)
        BY <1>5, <1>6, <2>2 DEF State
    <2>4. Placed(r)'
        BY <1>1, <1>6, <2>2 DEF Placed
    <2>5. Different(r)'
        <3>1. (unread'[r] \cup least'[r].best) \cap HeldBy(r)' = {}
            BY <1>1, <1>3, <1>5, <1>6, <2>2 DEF Different, HeldBy, Routers!NoMinimum
        <3> QED
            BY <1>1, <1>6, <2>2, <3>1 DEF Different
    <2> QED
        BY <1>1, <1>6, <2>1, <2>3, <2>4, <2>5, OneMoves, SameLoads
<1> QED
    BY <1>2, <1>7, <1>8

\* A provider that has been looked at was one of those to be looked at.
LEMMA ReadLoadKeeps ==
    ASSUME HandlerInv, NEW r \in Requests, slot' = slot, Routers!ReadLoad(r)
    PROVE  HandlerInv'
<1>1. Routers!LoadTypeOK /\ Placed(r) /\ Different(r) /\ Routers!LoadsConserved
    BY DEF HandlerInv
<1> DEFINE p == Routers!FirstOf(unread[r])
           n == load[router[r]][p]
           l == Routers!Scanned(least[r], p, n)
<1>2. /\ pc[r] = "scan" /\ unread[r] # {}
      /\ least' = [least EXCEPT ![r] = l]
      /\ reads' = [reads EXCEPT ![r] = @ \cup {[provider |-> p, load |-> n]}]
      /\ unread' = [unread EXCEPT ![r] = @ \ {p}]
      /\ UNCHANGED <<routing, cache, made, load, pc, call, got, router, chosen, held>>
    BY DEF Routers!ReadLoad, Routers!routerVars, Routers!fetchVars
<1>3. unread[r] \subseteq Routers!Providers /\ p \in unread[r]
    <2>1. unread[r] \in SUBSET Routers!Providers
        BY <1>1 DEF Routers!LoadTypeOK
    <2> QED
        BY <1>2, <2>1, FirstIsOne
<1> HIDE DEF p
<1>4. n \in Int
    BY <1>1, <1>3 DEF Routers!LoadTypeOK
<1> HIDE DEF n
<1>5. /\ least[r] \in [min: Int, best: SUBSET Routers!Providers]
      /\ l \in [min: Int, best: SUBSET Routers!Providers]
      /\ l.best \subseteq least[r].best \cup {p}
    <2>1. least[r] \in [min: Int, best: SUBSET Routers!Providers]
        BY <1>1 DEF Routers!LoadTypeOK
    <2>2. CASE least[r].min = -1 \/ n < least[r].min
        <3>1. l = [min |-> n, best |-> {p}]
            BY <1>4, <2>1, <2>2 DEF Routers!Scanned
        <3> HIDE DEF l
        <3> QED
            BY <1>3, <1>4, <2>1, <3>1
    <2>3. CASE ~(least[r].min = -1 \/ n < least[r].min) /\ n = least[r].min
        <3>1. l = [least[r] EXCEPT !.best = @ \cup {p}]
            BY <1>4, <2>3 DEF Routers!Scanned
        <3> HIDE DEF l
        <3> QED
            BY <1>3, <2>1, <3>1
    <2>4. CASE ~(least[r].min = -1 \/ n < least[r].min) /\ n # least[r].min
        <3>1. l = least[r]
            BY <2>4 DEF Routers!Scanned
        <3> QED
            BY <2>1, <3>1
    <2> QED
        BY <2>2, <2>3, <2>4
<1> HIDE DEF l
<1>6. Routers!LoadTypeOK'
    <2>1. least' \in [Requests -> [min: Int, best: SUBSET Routers!Providers]]
        BY <1>1, <1>2, <1>5 DEF Routers!LoadTypeOK
    <2>2. reads' \in [Requests -> SUBSET [provider: Routers!Providers, load: Int]]
        BY <1>1, <1>2, <1>3, <1>4 DEF Routers!LoadTypeOK
    <2>3. unread' \in [Requests -> SUBSET Routers!Providers]
        BY <1>1, <1>2 DEF Routers!LoadTypeOK
    <2> QED
        BY <1>1, <1>2, <2>1, <2>2, <2>3 DEF Routers!LoadTypeOK
<1>7. \A q \in Requests \ {r} : State(q)' = State(q)
    BY <1>1, <1>2 DEF State, Routers!LoadTypeOK
<1>8. Placed(r)'
    BY <1>1, <1>2 DEF Placed
<1>9. Different(r)'
    <2>1. unread'[r] = unread[r] \ {p} /\ least'[r] = l
        BY <1>1, <1>2 DEF Routers!LoadTypeOK
    <2>2. (unread'[r] \cup least'[r].best) \cap HeldBy(r)' = {}
        BY <1>1, <1>2, <1>3, <1>5, <2>1 DEF Different, HeldBy
    <2> QED
        BY <1>1, <1>2, <2>2 DEF Different
<1> QED
    BY <1>1, <1>2, <1>6, <1>7, <1>8, <1>9, OneMoves, SameLoads

\* What is chosen was a candidate.
LEMMA PickKeeps ==
    ASSUME HandlerInv, NEW r \in Requests, slot[r] = "in", slot' = slot, Routers!Pick(r)
    PROVE  HandlerInv'
<1>1. Routers!LoadTypeOK /\ Placed(r) /\ Different(r) /\ Routers!LoadsConserved
    BY DEF HandlerInv
<1>2. PICK p \in Routers!Ties(r) : chosen' = [chosen EXCEPT ![r] = p]
    BY DEF Routers!Pick
<1>3. /\ Routers!Call(r, "scan", "acquire") /\ Routers!Forget(r)
      /\ unread' = [unread EXCEPT ![r] = {}]
      /\ least' = [least EXCEPT ![r] = Routers!NoMinimum]
      /\ UNCHANGED <<routing, cache, made, load, reads, held>>
    BY DEF Routers!Pick, Routers!routerVars
<1>4. /\ pc[r] = "scan" /\ pc' = [pc EXCEPT ![r] = "config"]
      /\ call' = [call EXCEPT ![r] = "acquire"]
    BY <1>3 DEF Routers!Call, Routers!Step
<1>5. p \in Routers!Providers /\ p \notin HeldBy(r)
    <2>1. p \in unread[r] \cup least[r].best
        BY <1>2 DEF Routers!Ties
    <2>2. unread[r] \cup least[r].best \subseteq Routers!Providers
        BY <1>1 DEF Routers!LoadTypeOK
    <2> QED
        BY <1>1, <1>4, <2>1, <2>2 DEF Different
<1>6. /\ got' \in [Requests -> Routings \cup {NoRouting}]
      /\ router' \in [Requests -> Routers!RouterIds]
      /\ \A q \in Requests \ {r} : got'[q] = got[q]
    BY <1>1, <1>3, Forgets
<1>7. Routers!LoadTypeOK'
    <2>1. least' \in [Requests -> [min: Int, best: SUBSET Routers!Providers]]
        BY <1>1, <1>3 DEF Routers!LoadTypeOK, Routers!NoMinimum
    <2>2. unread' \in [Requests -> SUBSET Routers!Providers]
        BY <1>1, <1>3 DEF Routers!LoadTypeOK
    <2>3. chosen' \in [Requests -> Routers!Providers]
        BY <1>1, <1>2, <1>5 DEF Routers!LoadTypeOK
    <2>4. /\ pc' \in [Requests -> {"config", "cache", "store", "select", "scan",
                                   "acquire", "serving", "release", "done"}]
          /\ call' \in [Requests -> {"select", "acquire", "release"}]
        BY <1>1, <1>4 DEF Routers!LoadTypeOK
    <2> QED
        BY <1>1, <1>3, <1>6, <2>1, <2>2, <2>3, <2>4 DEF Routers!LoadTypeOK
<1>8. \A q \in Requests \ {r} : State(q)' = State(q)
    BY <1>1, <1>2, <1>3, <1>4, <1>6 DEF State, Routers!LoadTypeOK
<1>9. /\ pc'[r] = "config" /\ call'[r] = "acquire" /\ held' = held
      /\ chosen'[r] = p /\ least'[r] = Routers!NoMinimum
    BY <1>1, <1>2, <1>3, <1>4 DEF Routers!LoadTypeOK
<1>10. Placed(r)'
    BY <1>1, <1>9 DEF Placed
<1>11. Different(r)'
    <2>1. HeldBy(r)' = HeldBy(r) /\ Routers!NoMinimum' = Routers!NoMinimum
        BY <1>9 DEF HeldBy, Routers!NoMinimum
    <2> QED
        BY <1>1, <1>5, <1>9, <2>1 DEF Different
<1> QED
    BY <1>1, <1>3, <1>7, <1>8, <1>10, <1>11, OneMoves, SameLoads

\* The provider that is acquired is new to the request.
LEMMA AcquireKeeps ==
    ASSUME HandlerInv, NEW r \in Requests, slot[r] = "in", slot' = slot, Routers!Acquire(r)
    PROVE  HandlerInv'
<1>1. Routers!LoadTypeOK /\ Placed(r) /\ Different(r)
    BY DEF HandlerInv
<1> DEFINE c == chosen[r]
           n == Len(held[r]) + 1
<1>2. /\ pc[r] = "acquire" /\ pc' = [pc EXCEPT ![r] = "serving"]
      /\ Routers!Add(r, c, 1) /\ Routers!Forget(r)
      /\ held' = [held EXCEPT ![r] = Append(@, c)]
      /\ reads' = [reads EXCEPT ![r] = {}]
      /\ chosen' = [chosen EXCEPT ![r] = Order[1]]
      /\ UNCHANGED <<routing, cache, made, call, unread, least>>
    BY DEF Routers!Acquire, Routers!Step
<1>3. held[r] \in Seq(Routers!Providers) /\ c \in Routers!Providers
    BY <1>1 DEF Routers!LoadTypeOK
<1>4. c \notin HeldBy(r)
    BY <1>1, <1>2 DEF Placed, Different
<1>5. /\ got' \in [Requests -> Routings \cup {NoRouting}]
      /\ router' \in [Requests -> Routers!RouterIds]
      /\ \A q \in Requests \ {r} : got'[q] = got[q]
    BY <1>1, <1>2, Forgets
<1>6. held'[r] = Append(held[r], c) /\ \A q \in Requests \ {r} : held'[q] = held[q]
    BY <1>1, <1>2 DEF Routers!LoadTypeOK
<1>7. /\ Append(held[r], c) \in Seq(Routers!Providers) /\ Append(held[r], c) # <<>>
      /\ n \in Nat /\ n - 1 \in Nat
      /\ DOMAIN held[r] = 1 .. n - 1 /\ DOMAIN held'[r] = 1 .. n /\ held'[r][n] = c
      /\ \A i \in 1 .. n - 1 : held'[r][i] = held[r][i]
    <2>1. Len(held[r]) \in Nat /\ n - 1 = Len(held[r])
        BY <1>3
    <2> QED
        BY <1>3, <1>6, <2>1, Appended
<1> HIDE DEF c, n
<1>8. Routers!LoadTypeOK'
    <2>1. held' \in [Requests -> Seq(Routers!Providers)]
        BY <1>1, <1>2, <1>7 DEF Routers!LoadTypeOK
    <2>2. chosen' \in [Requests -> Routers!Providers]
        BY <1>1, <1>2, SomeProvider DEF Routers!LoadTypeOK
    <2>3. load' \in [Routers!RouterIds -> [Routers!Providers -> Int]]
        <3>1. /\ load \in [Routers!RouterIds -> [Routers!Providers -> Int]]
              /\ router[r] \in Routers!RouterIds
            BY <1>1 DEF Routers!LoadTypeOK
        <3>2. load' = [load EXCEPT ![router[r]][c] = @ + 1] \/ load' = load
            BY <1>2 DEF Routers!Add
        <3>3. CASE load' = [load EXCEPT ![router[r]][c] = @ + 1]
            BY ONLY <1>3, <3>1, <3>3, LoadsStayTyped
        <3> QED
            BY <3>1, <3>2, <3>3
    <2>4. /\ pc' \in [Requests -> {"config", "cache", "store", "select", "scan",
                                   "acquire", "serving", "release", "done"}]
          /\ reads' \in [Requests -> SUBSET [provider: Routers!Providers, load: Int]]
        BY <1>1, <1>2 DEF Routers!LoadTypeOK
    <2> QED
        BY <1>1, <1>2, <1>5, <2>1, <2>2, <2>3, <2>4 DEF Routers!LoadTypeOK
<1>9. \A q \in Requests \ {r} : State(q)' = State(q)
    BY <1>1, <1>2, <1>5, <1>6 DEF State, Routers!LoadTypeOK
<1>10. /\ pc'[r] = "serving" /\ held'[r] # <<>> /\ slot'[r] = "in"
       /\ least'[r] = Routers!NoMinimum
    BY <1>1, <1>2, <1>6, <1>7 DEF Routers!LoadTypeOK, Different
<1>11. Placed(r)'
    BY <1>10 DEF Placed
<1>12. Different(r)'
    <2>1. ASSUME NEW i \in 1 .. n, NEW j \in 1 .. n, held'[r][i] = held'[r][j]
          PROVE  i = j
        <3>1. \A k \in 1 .. n : k \in 1 .. n - 1 \/ k = n
            BY <1>7
        <3>2. \A k \in 1 .. n - 1 : held'[r][k] # c
            BY <1>4, <1>7 DEF HeldBy
        <3>3. \A k, m \in 1 .. n - 1 : held[r][k] = held[r][m] => k = m
            BY <1>1, <1>7 DEF Different
        <3> QED
            BY <1>7, <2>1, <3>1, <3>2, <3>3
    <2>2. Routers!NoMinimum' = Routers!NoMinimum
        BY DEF Routers!NoMinimum
    <2> QED
        BY <1>7, <1>10, <2>1, <2>2 DEF Different
<1>13. Routers!LoadsConserved'
    BY AcquireConserves
<1> QED
    BY <1>8, <1>9, <1>11, <1>12, <1>13, OneMoves

\* After an answer the request goes on with another provider or gives back what it holds.
LEMMA ServedKeeps ==
    ASSUME HandlerInv, NEW r \in Requests, slot[r] = "in", slot' = slot, Routers!Served(r)
    PROVE  HandlerInv'
<1>1. Routers!LoadTypeOK /\ Placed(r) /\ Different(r) /\ Routers!LoadsConserved
    BY DEF HandlerInv
<1>2. UNCHANGED <<routing, cache, made, load, got, router, unread, least, reads, chosen, held>>
    BY DEF Routers!Served, Routers!routerVars, Routers!selectVars
<1>3. /\ pc[r] = "serving"
      /\ pc' \in [Requests -> {"config", "cache", "store", "select", "scan",
                               "acquire", "serving", "release", "done"}]
      /\ call' \in [Requests -> {"select", "acquire", "release"}]
      /\ \A q \in Requests \ {r} : pc'[q] = pc[q] /\ call'[q] = call[q]
      /\ \/ pc'[r] = "done" /\ held'[r] = <<>>
         \/ pc'[r] = "config" /\ call'[r] = "release" /\ held'[r] # <<>>
         \/ pc'[r] = "config" /\ call'[r] = "select"
    <2>1. CASE Routers!Return(r, "serving", "done")
        BY <1>1, <2>1, Returns
    <2>2. CASE Routers!Call(r, "serving", "select")
        BY <1>1, <2>2 DEF Routers!Call, Routers!Step, Routers!LoadTypeOK
    <2> QED
        BY <2>1, <2>2 DEF Routers!Served
<1>4. Routers!LoadTypeOK'
    BY <1>1, <1>2, <1>3 DEF Routers!LoadTypeOK
<1>5. \A q \in Requests \ {r} : State(q)' = State(q)
    BY <1>2, <1>3 DEF State
<1>6. Placed(r)'
    BY <1>1, <1>2, <1>3 DEF Placed
<1>7. Different(r)'
    BY <1>1, <1>2, <1>3 DEF Different, HeldBy, Routers!NoMinimum
<1> QED
    BY <1>1, <1>2, <1>4, <1>5, <1>6, <1>7, OneMoves, SameLoads

\* What is released is held no more.
LEMMA ReleaseKeeps ==
    ASSUME HandlerInv, NEW r \in Requests, slot[r] = "in", slot' = slot, Routers!Release(r)
    PROVE  HandlerInv'
<1>1. Routers!LoadTypeOK /\ Placed(r) /\ Different(r)
    BY DEF HandlerInv
<1> DEFINE c == Routers!Last(held[r])
           n == Len(held[r])
<1>2. /\ pc[r] = "release" /\ Routers!Add(r, c, -1)
      /\ Routers!Return(r, "release", "done") /\ Routers!Forget(r)
      /\ held' = [held EXCEPT ![r] = Routers!Front(@)]
      /\ UNCHANGED <<routing, cache, made, unread, least, reads, chosen>>
    BY DEF Routers!Release, Routers!selectVars
<1>3. held[r] \in Seq(Routers!Providers) /\ held[r] # <<>>
    BY <1>1, <1>2 DEF Routers!LoadTypeOK, Placed
<1>4. /\ Routers!Front(held[r]) \in Seq(Routers!Providers) /\ n \in Nat \ {0}
      /\ DOMAIN held[r] = 1 .. n /\ DOMAIN Routers!Front(held[r]) = 1 .. n - 1
      /\ \A i \in 1 .. n - 1 : Routers!Front(held[r])[i] = held[r][i]
      /\ c \in Routers!Providers
    BY <1>3, Shortened
<1>5. /\ pc' \in [Requests -> {"config", "cache", "store", "select", "scan",
                               "acquire", "serving", "release", "done"}]
      /\ call' \in [Requests -> {"select", "acquire", "release"}]
      /\ \A q \in Requests \ {r} : pc'[q] = pc[q] /\ call'[q] = call[q]
      /\ \/ pc'[r] = "done" /\ held'[r] = <<>>
         \/ pc'[r] = "config" /\ call'[r] = "release" /\ held'[r] # <<>>
    BY <1>1, <1>2, Returns
<1>6. /\ got' \in [Requests -> Routings \cup {NoRouting}]
      /\ router' \in [Requests -> Routers!RouterIds]
      /\ \A q \in Requests \ {r} : got'[q] = got[q]
    BY <1>1, <1>2, Forgets
<1>7. held'[r] = Routers!Front(held[r]) /\ \A q \in Requests \ {r} : held'[q] = held[q]
    BY <1>1, <1>2 DEF Routers!LoadTypeOK
<1> HIDE DEF c, n
<1>8. Routers!LoadTypeOK'
    <2>1. held' \in [Requests -> Seq(Routers!Providers)]
        BY <1>1, <1>2, <1>4 DEF Routers!LoadTypeOK
    <2>2. load' \in [Routers!RouterIds -> [Routers!Providers -> Int]]
        <3>1. /\ load \in [Routers!RouterIds -> [Routers!Providers -> Int]]
              /\ router[r] \in Routers!RouterIds
            BY <1>1 DEF Routers!LoadTypeOK
        <3>2. load' = [load EXCEPT ![router[r]][c] = @ + -1] \/ load' = load
            BY <1>2 DEF Routers!Add
        <3>3. CASE load' = [load EXCEPT ![router[r]][c] = @ + -1]
            BY ONLY <1>4, <3>1, <3>3, LoadsStayTyped
        <3> QED
            BY <3>1, <3>2, <3>3
    <2> QED
        BY <1>1, <1>2, <1>5, <1>6, <2>1, <2>2 DEF Routers!LoadTypeOK
<1>9. \A q \in Requests \ {r} : State(q)' = State(q)
    BY <1>2, <1>5, <1>6, <1>7 DEF State
<1>10. Placed(r)'
    BY <1>5 DEF Placed
<1>11. Different(r)'
    <2>1. ASSUME NEW i \in 1 .. n - 1, NEW j \in 1 .. n - 1, held'[r][i] = held'[r][j]
          PROVE  i = j
        <3>1. i \in 1 .. n /\ j \in 1 .. n /\ held[r][i] = held[r][j]
            BY <1>4, <1>7, <2>1
        <3> QED
            BY <1>1, <1>4, <3>1 DEF Different
    <2>2. Routers!NoMinimum' = Routers!NoMinimum /\ least'[r] = Routers!NoMinimum
        BY <1>1, <1>2 DEF Routers!NoMinimum, Different
    <2> QED
        BY <1>4, <1>5, <1>7, <2>1, <2>2 DEF Different
<1>12. Routers!LoadsConserved'
    BY ReleaseConserves
<1> QED
    BY <1>8, <1>9, <1>10, <1>11, <1>12, OneMoves

\* A request that leaves holds nothing.
LEMMA LeaveKeeps ==
    ASSUME Inv, HandlerInv, NEW r \in Requests, Depart(r)
    PROVE  HandlerInv'
<1>1. Routers!LoadTypeOK /\ Placed(r) /\ Different(r) /\ Routers!LoadsConserved
    BY DEF HandlerInv
<1>2. /\ pc[r] = "done" /\ pc' = [pc EXCEPT ![r] = "config"]
      /\ call' = [call EXCEPT ![r] = "select"]
      /\ UNCHANGED <<routing, cache, made, load, got, router, unread, least, reads, chosen, held>>
    BY DEF Depart, Routers!Leave, Routers!Call, Routers!Step, Routers!routerVars,
           Routers!selectVars
<1>3. \A q \in Requests \ {r} : slot'[q] = slot[q]
    BY DEF Depart, Release, Goto, Inv, Types
<1>4. Routers!LoadTypeOK'
    BY <1>1, <1>2 DEF Routers!LoadTypeOK
<1>5. \A q \in Requests \ {r} : State(q)' = State(q)
    BY <1>1, <1>2, <1>3 DEF State, Routers!LoadTypeOK
<1>6. pc'[r] = "config" /\ call'[r] = "select" /\ held'[r] = <<>>
    BY <1>1, <1>2 DEF Routers!LoadTypeOK, Placed
<1>7. Placed(r)'
    BY <1>6 DEF Placed
<1>8. Different(r)'
    BY <1>1, <1>2, <1>6 DEF Different, HeldBy, Routers!NoMinimum
<1> QED
    BY <1>1, <1>2, <1>4, <1>5, <1>7, <1>8, OneMoves, SameLoads

\* A request that is still to be admitted holds nothing.
LEMMA ArriveKeeps ==
    ASSUME Inv, HandlerInv, NEW r \in Requests, Arrive(r)
    PROVE  HandlerInv'
<1>1. Routers!LoadTypeOK /\ Placed(r) /\ Different(r) /\ Routers!LoadsConserved
    BY DEF HandlerInv
<1>2. UNCHANGED <<routing, cache, made, load, pc, call, got, router, unread, least, reads,
                  chosen, held>>
    BY DEF Arrive, handlerVars
<1>3. slot[r] # "in" /\ \A q \in Requests \ {r} : slot'[q] = slot[q]
    BY DEF Arrive, TryAcquire, LoadLimit, AddUnlimited, LoadCurrent, CompareAndSwap, Goto,
           Inv, Types
<1>4. Routers!LoadTypeOK'
    BY <1>1, <1>2 DEF Routers!LoadTypeOK
<1>5. \A q \in Requests \ {r} : State(q)' = State(q)
    BY <1>2, <1>3 DEF State
<1>6. Placed(r)'
    BY <1>1, <1>2, <1>3 DEF Placed
<1>7. Different(r)'
    BY <1>1, <1>2 DEF Different, HeldBy, Routers!NoMinimum
<1> QED
    BY <1>1, <1>2, <1>4, <1>5, <1>6, <1>7, OneMoves, SameLoads

\* A reload and a stuttering step leave the requests where they are.
LEMMA ReloadKeeps ==
    ASSUME HandlerInv, Reload \/ UNCHANGED servingVars
    PROVE  HandlerInv'
<1>1. Routers!LoadTypeOK /\ Routers!LoadsConserved
    BY DEF HandlerInv
<1>2. /\ UNCHANGED <<cache, made, load, pc, call, got, router, unread, least, reads, chosen,
                     held, slot>>
      /\ routing' = routing \/ routing' \in Routings
    BY DEF Reload, SetLimit, Routers!Reload, Routers!fetchVars, Routers!selectVars, servingVars,
           handlerVars, limiterVars
<1>3. Routers!LoadTypeOK'
    BY <1>1, <1>2 DEF Routers!LoadTypeOK
<1>4. ASSUME NEW q \in Requests PROVE Placed(q)' /\ Different(q)'
    <2>1. Placed(q) /\ Different(q)
        BY DEF HandlerInv
    <2>2. Placed(q)'
        BY <1>2, <2>1 DEF Placed
    <2>3. Different(q)'
        BY <1>2, <2>1 DEF Different, HeldBy, Routers!NoMinimum
    <2> QED
        BY <2>2, <2>3
<1> QED
    BY <1>1, <1>2, <1>3, <1>4, SameLoads DEF HandlerInv

--------------------------------------------------------------------------------
(* The theorems about the limit and the handler together. *)

ServingInv == Inv /\ HandlerInv

\* At first nothing is held and no load is counted.
LEMMA InitServing == ServingInit => ServingInv
<1> SUFFICES ASSUME ServingInit PROVE ServingInv
    OBVIOUS
<1> USE DEF Routers!Init
<1>1. Inv
    BY InitInv DEF ServingInit
<1>2. Routers!LoadTypeOK
    <2>1. MaxRouters \in Nat
        BY ServingAssumption
    <2> QED
        BY <2>1, SomeProvider DEF ServingInit, Routers!LoadTypeOK, Routers!NoMinimum
<1>3. ASSUME NEW r \in Requests PROVE Placed(r) /\ Different(r)
    BY DEF ServingInit, Placed, Different, Routers!NoMinimum
<1>4. ASSUME NEW p \in Routers!Providers PROVE Routers!TotalLoad(p) = Routers!Holding(p)
    <2> DEFINE f == [i \in Routers!RouterIds |-> load[i][p]]
    <2>1. f = [i \in 1 .. MaxRouters |-> 0]
        BY DEF ServingInit, Routers!RouterIds
    <2>2. Routers!TotalLoad(p) = Routers!Total(f)
        BY DEF Routers!TotalLoad
    <2> HIDE DEF f
    <2>3. Routers!Total(f) = 0
        <3>1. f \in [1 .. MaxRouters -> Int] /\ \A n \in 1 .. MaxRouters : f[n] = 0
            BY <2>1
        <3> QED
            BY <3>1, TotalOfZeros
    <2>4. Routers!Holds(p) = {}
        BY DEF ServingInit, Routers!Holds
    <2>5. Routers!Holding(p) = 0
        BY <2>4, HoldingIs, FS_EmptySet
    <2> QED
        BY <2>2, <2>3, <2>5
<1> QED
    BY <1>1, <1>2, <1>3, <1>4 DEF ServingInv, HandlerInv, Routers!LoadsConserved

\* Every step of the server keeps both invariants.
LEMMA StepServing == ServingInv /\ [ServingNext]_servingVars => ServingInv'
<1> SUFFICES ASSUME ServingInv, [ServingNext]_servingVars PROVE ServingInv'
    OBVIOUS
<1>1. Inv /\ HandlerInv
    BY DEF ServingInv
<1>2. Inv'
    <2>1. [Next]_limiterVars
        BY DEF ServingNext, servingVars, Arrive, Handle, Depart, Reload, Next
    <2> QED
        BY <1>1, <2>1, StepInv
<1>3. ASSUME NEW r \in Requests, Handle(r) PROVE HandlerInv'
    <2>1. slot[r] = "in" /\ slot' = slot /\ Routers!Handle(r)
        BY <1>3 DEF Handle, limiterVars
    <2>2. CASE Routers!ReadConfig(r)
        BY <1>1, <2>1, <2>2, ReadConfigKeeps
    <2>3. CASE Routers!LoadCache(r)
        BY <1>1, <2>1, <2>3, LoadCacheKeeps
    <2>4. CASE Routers!StoreCache(r)
        BY <1>1, <2>1, <2>4, StoreCacheKeeps
    <2>5. CASE Routers!SelectBegins(r)
        BY <1>1, <2>1, <2>5, SelectBeginsKeeps
    <2>6. CASE Routers!ReadLoad(r)
        BY <1>1, <2>1, <2>6, ReadLoadKeeps
    <2>7. CASE Routers!Pick(r)
        BY <1>1, <2>1, <2>7, PickKeeps
    <2>8. CASE Routers!Acquire(r)
        BY <1>1, <2>1, <2>8, AcquireKeeps
    <2>9. CASE Routers!Served(r)
        BY <1>1, <2>1, <2>9, ServedKeeps
    <2>10. CASE Routers!Release(r)
        BY <1>1, <2>1, <2>10, ReleaseKeeps
    <2> QED
        BY <2>1, <2>2, <2>3, <2>4, <2>5, <2>6, <2>7, <2>8, <2>9, <2>10
           DEF Routers!Handle, Routers!GetRouter
<1>4. ASSUME NEW r \in Requests, Arrive(r) PROVE HandlerInv'
    BY <1>1, <1>4, ArriveKeeps
<1>5. ASSUME NEW r \in Requests, Depart(r) PROVE HandlerInv'
    BY <1>1, <1>5, LeaveKeeps
<1>6. ASSUME Reload \/ UNCHANGED servingVars PROVE HandlerInv'
    BY <1>1, <1>6, ReloadKeeps
<1> QED
    BY <1>2, <1>3, <1>4, <1>5, <1>6 DEF ServingNext, ServingInv

\* Both invariants hold throughout.
THEOREM ServingInvariant == ServingSpec => []ServingInv
BY InitServing, StepServing, PTL DEF ServingSpec

\* Every variable of the limit and of the handler keeps its type.
THEOREM TypesHold == ServingSpec => []TypeOK
<1>1. ServingInv => TypeOK
    <2> SUFFICES ASSUME ServingInv PROVE TypeOK
        OBVIOUS
    <2>1. In \subseteq Requests
        BY DEF In
    <2>2. current \in Nat
        BY <2>1, RequestsFinite DEF ServingInv, Inv, CountExact
    <2> QED
        BY <2>2 DEF ServingInv, Inv, Types, HandlerInv, TypeOK, LimiterTypeOK
<1> QED
    BY <1>1, ServingInvariant, PTL

\* Routers are built, raced for and replaced by reloads while requests acquire and
\* release: over all routers together the load of a provider is still what is held of it.
THEOREM LoadsConservedHolds == ServingSpec => []LoadsConserved
<1>1. ServingInv => LoadsConserved
    BY DEF ServingInv, HandlerInv, LoadsConserved
<1> QED
    BY <1>1, ServingInvariant, PTL

\* A provider never has more requests in flight than the server has admitted.
THEOREM LoadWithinLimitHolds == ServingSpec => []LoadWithinLimit
<1>1. ServingInv => LoadWithinLimit
    <2> SUFFICES ASSUME ServingInv, NEW p \in Routers!Providers
                 PROVE  Routers!Holding(p) <= current
        BY DEF LoadWithinLimit
    <2>1. /\ held \in [Requests -> Seq(Routers!Providers)]
          /\ \A r \in Requests : Placed(r) /\ Different(r)
        BY DEF ServingInv, HandlerInv, Routers!LoadTypeOK
    <2>2. In \in SUBSET Requests /\ \A r \in Requests \ In : held[r] = <<>>
        BY <2>1 DEF In, Placed
    <2>3. current = Cardinality(In)
        BY DEF ServingInv, Inv, CountExact
    <2> QED
        BY <2>1, <2>2, <2>3, HoldsOnce
<1> QED
    BY <1>1, ServingInvariant, PTL

\* Under the handler, too, the count of the limit is exact and its bound holds.
THEOREM LimitHolds == ServingSpec => [](CountExact /\ AdmissionBound)
<1>1. ServingInv => CountExact /\ AdmissionBound
    BY DEF ServingInv, Inv
<1> QED
    BY <1>1, ServingInvariant, PTL

================================================================================
