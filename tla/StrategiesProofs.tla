---------------------------- MODULE StrategiesProofs ----------------------------
(***************************************************************************)
(* Theorems about the choice of a provider, for any providers, weights,    *)
(* priorities, models, and any number of requests at a time.               *)
(***************************************************************************)
EXTENDS Strategies, FiniteSetTheorems, WellFoundedInduction, SequenceTheorems, TLAPS

(***************************************************************************)
(* Induction over finite sets and numbers.                                 *)
(***************************************************************************)

\* Of any sets of elements of a finite set, one contains no other.
LEMMA SmallestSet ==
    ASSUME NEW S, IsFiniteSet(S), NEW F \in SUBSET SUBSET S, F # {}
    PROVE  \E T \in F : \A U \in F : U \subseteq T => U = T
<1> DEFINE R == StrictSubsetOrdering(S)
           G == FiniteSubsetsOf(S)
<1>1. IsWellFoundedOn(R, G)
    BY FS_StrictSubsetOrderingWellFounded
<1>2. G = SUBSET S
    BY FS_FiniteSubsetsOfFinite
<1>3. \A T, U \in SUBSET S : U \subseteq T /\ U # T => <<U, T>> \in R
    BY DEF StrictSubsetOrdering
<1> HIDE DEF R, G
<1>4. F \subseteq G
    BY <1>2
<1>5. PICK T \in F : \A U \in F : ~(<<U, T>> \in R)
    BY <1>1, <1>4, WFMin
<1>6. ASSUME NEW U \in F, U \subseteq T PROVE U = T
    BY <1>3, <1>5, <1>6
<1> QED
    BY <1>6

\* Of numbers up to n, one is the least.
LEMMA LeastNumber ==
    ASSUME NEW n \in Nat, NEW M \in SUBSET (0 .. n), M # {}
    PROVE  \E m \in M : \A k \in M : m <= k
<1> DEFINE Below(m) == {k \in M : k <= m}
           F == {Below(m) : m \in M}
           S == 0 .. n
<1>1. IsFiniteSet(S)
    BY FS_Interval
<1>2. F \in SUBSET SUBSET S /\ F # {} /\ \A k \in M : k \in Int
    <2>1. PICK m \in M : TRUE
        OBVIOUS
    <2>2. Below(m) \in F
        BY <2>1
    <2>3. \A k \in M : k \in Int /\ k \in S
        OBVIOUS
    <2> HIDE DEF S
    <2>4. ASSUME NEW k \in M PROVE Below(k) \in SUBSET S
        BY <2>3
    <2> HIDE DEF Below
    <2> QED
        BY <2>2, <2>3, <2>4
<1> HIDE DEF F, S
<1>3. PICK T \in F : \A U \in F : U \subseteq T => U = T
    BY <1>1, <1>2, SmallestSet
<1>4. PICK m \in M : T = Below(m)
    BY DEF F
<1>5. ASSUME NEW k \in M PROVE m <= k
    <2> SUFFICES ASSUME ~(m <= k) PROVE FALSE
        OBVIOUS
    <2>1. k \in Int /\ m \in Int /\ k <= m /\ ~(m <= k)
        BY <1>2
    <2>2. Below(k) \subseteq Below(m)
        <3>1. ASSUME NEW x \in M, x <= k PROVE x <= m
            BY <1>2, <2>1, <3>1
        <3> QED
            BY <3>1
    <2>3. Below(k) \in F
        BY DEF F
    <2>4. Below(k) = Below(m)
        BY <1>3, <1>4, <2>2, <2>3
    <2>5. m \in Below(m) /\ m \notin Below(k)
        BY <2>1
    <2> QED
        BY <2>4, <2>5
<1> QED
    BY <1>5

\* What holds of 0, and of a number when it does of the one before, holds up to n.
LEMMA CountingUp ==
    ASSUME NEW n \in Nat, NEW F, 0 \in F, \A i \in 1 .. n : i - 1 \in F => i \in F
    PROVE  \A i \in 0 .. n : i \in F
<1> SUFFICES ASSUME NEW j \in 0 .. n, j \notin F PROVE FALSE
    OBVIOUS
<1> DEFINE M == {i \in 0 .. n : i \notin F}
<1>1. M \in SUBSET (0 .. n) /\ M # {}
    OBVIOUS
<1> HIDE DEF M
<1>2. PICK m \in M : \A k \in M : m <= k
    BY <1>1, LeastNumber
<1>3. m \in 0 .. n /\ m \notin F
    BY DEF M
<1>4. m \in 1 .. n /\ m - 1 \in 0 .. n /\ ~(m <= m - 1)
    BY <1>3
<1>5. m - 1 \in F
    BY <1>2, <1>4 DEF M
<1> QED
    BY <1>3, <1>4, <1>5

\* Division with remainder.
LEMMA Division ==
    ASSUME NEW n \in Int, n > 0, NEW x \in Int
    PROVE  \E q \in Int, a \in 0 .. n - 1 : a = x % n /\ x = n * q + a
<1>1. x % n = x - n * (x \div n)
    OBVIOUS
<1>2. x \div n \in Int /\ x % n \in 0 .. n - 1
    OBVIOUS
<1>3. PICK q \in Int, a \in 0 .. n - 1 : q = x \div n /\ a = x % n
    BY <1>2
<1>4. a = x - n * q
    BY <1>1, <1>3
<1>5. x = n * q + a
    BY <1>4
<1> QED
    BY <1>3, <1>5

\* A remainder is the only one.
LEMMA Remainder ==
    ASSUME NEW n \in Int, n > 0, NEW q \in Int, NEW a \in 0 .. n - 1,
           NEW x \in Int, x = n * q + a
    PROVE  x % n = a
<1>1. PICK p \in Int, b \in 0 .. n - 1 : b = x % n /\ x = n * p + b
    BY Division
<1>2. PICK d \in Int : d = q - p
    OBVIOUS
<1>3. n * d = b - a
    BY <1>1, <1>2
<1>4. d = 0
    <2>1. CASE d >= 1
        <3>1. n * d >= n
            BY <2>1
        <3> QED
            BY <1>3, <3>1
    <2>2. CASE d <= -1
        <3>1. n * d <= -n
            BY <2>2
        <3> QED
            BY <1>3, <3>1
    <2> QED
        BY <2>1, <2>2
<1> QED
    BY <1>1, <1>3, <1>4

\* A counter that is kept modulo a multiple of n goes on counting modulo n.
LEMMA Counting ==
    ASSUME NEW n \in Int, n > 0, NEW m \in Int, m > 0, m % n = 0, NEW x \in 0 .. m - 1
    PROVE  /\ x % n \in 0 .. n - 1 /\ (x + 1) % m \in 0 .. m - 1
           /\ ((x + 1) % m) % n = IF x % n = n - 1 THEN 0 ELSE (x % n) + 1
<1>1. PICK q \in Int, a \in 0 .. n - 1 : a = x % n /\ x = n * q + a
    BY Division
<1>2. PICK k \in Int, z \in 0 .. n - 1 : z = m % n /\ m = n * k + z
    BY Division
<1>3. m = n * k
    BY <1>2
<1> DEFINE zero == 0
<1>4. zero \in Int /\ zero \in 0 .. n - 1 /\ zero \in 0 .. m - 1 /\ zero = 0
    OBVIOUS
<1> HIDE DEF zero
<1>5. zero % n = zero
    <2>1. zero = n * zero + zero
        BY <1>4
    <2> QED
        BY <1>4, <2>1, Remainder
<1>6. PICK y \in Int : y = x + 1
    OBVIOUS
<1>7. CASE y = m
    <2>1. m = m * 1 + zero
        BY <1>4
    <2>2. PICK one \in Int : one = 1
        OBVIOUS
    <2>3. y = m * one + zero
        BY <1>4, <1>7, <2>2
    <2>4. y % m = zero
        BY <1>4, <2>3, Remainder
    <2>5. a = n - 1
        <3>1. n * (k - q) = a + 1
            BY <1>1, <1>3, <1>6, <1>7
        <3>2. k - q >= 1
            <4>1. CASE k - q <= 0
                <5>1. n * (k - q) <= 0
                    BY <4>1
                <5> QED
                    BY <3>1, <5>1
            <4> QED
                BY <4>1
        <3>3. n * (k - q) >= n
            BY <3>2
        <3> QED
            BY <3>1, <3>3
    <2> QED
        BY <1>1, <1>4, <1>5, <1>6, <2>4, <2>5
<1>8. CASE y # m
    <2>1. y \in 0 .. m - 1
        BY <1>6, <1>8
    <2>2. y % m = y
        <3>1. y = m * zero + y
            BY <1>4
        <3> QED
            BY <1>4, <2>1, <3>1, Remainder
    <2>3. CASE a = n - 1
        <3>1. PICK p \in Int : p = q + 1
            OBVIOUS
        <3>2. y = n * p + zero
            BY <1>1, <1>4, <1>6, <2>3, <3>1
        <3>3. y % n = zero
            BY <1>4, <3>2, Remainder
        <3> QED
            BY <1>1, <1>4, <1>6, <2>1, <2>2, <2>3, <3>3
    <2>4. CASE a # n - 1
        <3>1. PICK b \in 0 .. n - 1 : b = a + 1
            BY <2>4
        <3>2. y = n * q + b
            BY <1>1, <1>6, <3>1
        <3>3. y % n = b
            BY <3>2, Remainder
        <3> QED
            BY <1>1, <1>6, <2>1, <2>2, <2>4, <3>1, <3>3
    <2> QED
        BY <2>3, <2>4
<1> QED
    BY <1>7, <1>8

--------------------------------------------------------------------------------
(* Sequences: their sums, and what is kept of them. *)

\* What the recursive definition of the sums says.
SumsOf(t, s, L) ==
    /\ t \in [0 .. L -> Int] /\ t[0] = 0
    /\ \A n \in 1 .. L : t[n] = t[n - 1] + s[n]

LEMMA SumsAre ==
    ASSUME NEW L \in Nat, NEW s \in [1 .. L -> Int]
    PROVE  SumsOf(Sums(s), s, L) /\ Total(s) = Sums(s)[L] /\ Total(s) \in Int
<1> DEFINE Upto(t, m) == /\ t \in [0 .. m -> Int] /\ t[0] = 0
                         /\ \A n \in 1 .. m : t[n] = t[n - 1] + s[n]
           F == {m \in 0 .. L : \E t : Upto(t, m)}
<1>1. L \in Nat /\ Len(s) = L /\ \A n \in 1 .. L : s[n] \in Int
    OBVIOUS
<1> DEFINE sum == CHOOSE sum : sum = [i \in 0 .. L |-> IF i = 0 THEN 0 ELSE sum[i - 1] + s[i]]
<1>2. Sums(s) = sum
    BY <1>1 DEF Sums
<1>3. 0 \in F
    <2> DEFINE t == [n \in 0 .. 0 |-> 0]
    <2>1. Upto(t, 0)
        OBVIOUS
    <2>2. 0 \in 0 .. L
        BY <1>1
    <2> HIDE DEF t, Upto
    <2> QED
        BY <2>1, <2>2
<1>4. ASSUME NEW m \in 1 .. L, m - 1 \in F PROVE m \in F
    <2>1. PICK t : Upto(t, m - 1)
        BY <1>4
    <2> DEFINE u == [n \in 0 .. m |-> IF n = m THEN t[m - 1] + s[m] ELSE t[n]]
    <2>2. s[m] \in Int /\ m - 1 \in 0 .. m - 1 /\ t[m - 1] \in Int
        BY <2>1, <1>1
    <2>3. \A n \in 0 .. m : n = m \/ n \in 0 .. m - 1
        OBVIOUS
    <2>4. u \in [0 .. m -> Int]
        BY <2>1, <2>2, <2>3
    <2>5. u[0] = 0
        BY <2>1
    <2>6. ASSUME NEW n \in 1 .. m PROVE u[n] = u[n - 1] + s[n]
        <3>1. n \in 0 .. m /\ n - 1 \in 0 .. m /\ n - 1 # m
            BY <2>6
        <3>2. u[n - 1] = t[n - 1]
            BY <3>1
        <3>3. CASE n = m
            BY <3>1, <3>2, <3>3
        <3>4. CASE n # m
            BY <2>1, <3>1, <3>2, <3>4
        <3> QED
            BY <3>3, <3>4
    <2> HIDE DEF u
    <2>7. Upto(u, m)
        BY <2>4, <2>5, <2>6
    <2> HIDE DEF Upto
    <2> QED
        BY <2>7
<1>5. L \in F
    <2> HIDE DEF F
    <2>1. \A m \in 0 .. L : m \in F
        BY <1>1, <1>3, <1>4, CountingUp
    <2> QED
        BY <1>1, <2>1
<1>6. PICK t : Upto(t, L)
    BY <1>5
<1>7. t = [n \in 0 .. L |-> IF n = 0 THEN 0 ELSE t[n - 1] + s[n]]
    BY <1>1, <1>6
<1>8. sum = [n \in 0 .. L |-> IF n = 0 THEN 0 ELSE sum[n - 1] + s[n]]
    BY <1>7
<1> HIDE DEF sum
<1>9. DOMAIN sum = 0 .. L /\ sum[0] = 0 /\ \A n \in 1 .. L : sum[n] = sum[n - 1] + s[n]
    BY <1>1, <1>8
<1>10. \A n \in 0 .. L : sum[n] \in Int
    <2> DEFINE G == {n \in 0 .. L : sum[n] \in Int}
    <2>1. 0 \in G /\ \A n \in 1 .. L : n - 1 \in G => n \in G
        BY <1>1, <1>9
    <2> HIDE DEF G
    <2>2. \A n \in 0 .. L : n \in G
        BY <1>1, <2>1, CountingUp
    <2> QED
        BY <2>2 DEF G
<1>11. sum = [n \in 0 .. L |-> sum[n]]
    BY <1>8
<1> QED
    BY <1>1, <1>2, <1>9, <1>10, <1>11 DEF SumsOf, Total

\* A list is a finite sequence without repetitions.
LEMMA ListIs ==
    ASSUME NEW list \in Lists
    PROVE  /\ list \in Seq(Providers) /\ Len(list) \in Nat /\ DOMAIN list = 1 .. Len(list)
           /\ \A i \in 1 .. Len(list) : list[i] \in Providers
           /\ \A i, j \in 1 .. Len(list) : list[i] = list[j] => i = j
           /\ ToSet(list) = {list[i] : i \in 1 .. Len(list)}
           /\ list = <<>> <=> ToSet(list) = {}
BY DEF Lists, IsInjective, ToSet

\* Appending to a list something new makes a list.
LEMMA Appended ==
    ASSUME NEW list \in Lists, NEW p \in Providers, p \notin ToSet(list)
    PROVE  Append(list, p) \in Lists /\ ToSet(Append(list, p)) = ToSet(list) \cup {p}
<1> DEFINE t == Append(list, p)
           n == Len(list)
<1>1. /\ list \in Seq(Providers) /\ n \in Nat /\ ToSet(list) = {list[i] : i \in 1 .. n}
      /\ \A i, j \in 1 .. n : list[i] = list[j] => i = j
    BY ListIs
<1>2. /\ t \in Seq(Providers) /\ DOMAIN t = 1 .. n + 1 /\ t[n + 1] = p
      /\ \A i \in 1 .. n : t[i] = list[i] /\ t[i] \in ToSet(list)
    BY <1>1
<1> HIDE DEF t, n
<1>3. \A i \in 1 .. n + 1 : i = n + 1 \/ i \in 1 .. n
    BY <1>1
<1>4. ASSUME NEW i \in 1 .. n + 1, NEW j \in 1 .. n + 1, t[i] = t[j] PROVE i = j
    BY <1>1, <1>2, <1>3, <1>4
<1>5. ToSet(t) = ToSet(list) \cup {p}
    <2>1. ToSet(t) = {t[i] : i \in 1 .. n + 1}
        BY <1>2 DEF ToSet
    <2>2. ToSet(t) \subseteq ToSet(list) \cup {p}
        BY <1>2, <1>3, <2>1
    <2>3. \A i \in 1 .. n : i \in 1 .. n + 1
        BY <1>1
    <2>4. n + 1 \in 1 .. n + 1
        BY <1>1
    <2>5. ToSet(list) \cup {p} \subseteq ToSet(t)
        BY <1>1, <1>2, <2>1, <2>3, <2>4
    <2> QED
        BY <2>2, <2>5
<1> QED
    BY <1>2, <1>4, <1>5 DEF Lists, IsInjective, t

\* What is kept of a list is a list of those of its providers that are in S.
LEMMA WithinIs ==
    ASSUME NEW list \in Lists, NEW S
    PROVE  Within(list, S) \in Lists /\ ToSet(Within(list, S)) = ToSet(list) \cap S
<1> DEFINE n == Len(list)
           Next1(k, m) == IF list[m] \in S THEN Append(k[m - 1], list[m]) ELSE k[m - 1]
           First(m) == {list[i] : i \in 1 .. m} \cap S
           Upto(k, m) == /\ k \in [0 .. m -> Lists] /\ k[0] = <<>>
                         /\ \A i \in 1 .. m : k[i] = Next1(k, i)
                         /\ \A i \in 0 .. m : ToSet(k[i]) = First(i)
           F == {m \in 0 .. n : \E k : Upto(k, m)}
<1>1. /\ n \in Nat /\ \A i \in 1 .. n : list[i] \in Providers
      /\ \A i, j \in 1 .. n : list[i] = list[j] => i = j
      /\ ToSet(list) = {list[i] : i \in 1 .. n}
    BY ListIs
<1> DEFINE kept == CHOOSE kept : kept = [i \in 0 .. n |-> IF i = 0 THEN <<>> ELSE Next1(kept, i)]
<1>2. Within(list, S) = kept[n]
    BY DEF Within
<1> HIDE DEF n
<1>3. <<>> \in Lists /\ ToSet(<<>>) = {}
    BY DEF Lists, IsInjective, ToSet
<1>4. 0 \in F
    <2> DEFINE k == [i \in 0 .. 0 |-> <<>>]
    <2>1. \A i \in 0 .. 0 : i = 0 /\ 1 .. i = {}
        OBVIOUS
    <2>2. First(0) = {}
        OBVIOUS
    <2>3. k \in [0 .. 0 -> Lists] /\ k[0] = <<>> /\ 1 .. 0 = {}
        BY <1>3
    <2> HIDE DEF k, First, Next1
    <2>4. Upto(k, 0)
        BY <1>3, <2>1, <2>2, <2>3
    <2>5. 0 \in 0 .. n
        BY <1>1
    <2> HIDE DEF Upto
    <2> QED
        BY <2>4, <2>5
<1>5. ASSUME NEW m \in 1 .. n, m - 1 \in F PROVE m \in F
    <2>1. PICK k : Upto(k, m - 1)
        BY <1>5
    <2> DEFINE x == Next1(k, m)
               l == [i \in 0 .. m |-> IF i = m THEN x ELSE k[i]]
    <2>2. m - 1 \in 0 .. m - 1 /\ m \in 0 .. m /\ \A i \in 0 .. m : i = m \/ i \in 0 .. m - 1
        OBVIOUS
    <2>3. k[m - 1] \in Lists /\ ToSet(k[m - 1]) = First(m - 1)
        BY <2>1, <2>2
    <2>4. list[m] \notin First(m - 1) /\ list[m] \in Providers
        <3>1. \A i \in 1 .. m - 1 : i \in 1 .. n /\ i # m
            BY <1>1
        <3> QED
            BY <1>1, <3>1
    <2>5. First(m) = IF list[m] \in S THEN First(m - 1) \cup {list[m]} ELSE First(m - 1)
        <3>1. \A i : i \in 1 .. m <=> i \in 1 .. m - 1 \/ i = m
            BY <1>1
        <3> QED
            BY <3>1
    <2> HIDE DEF First
    <2>6. x \in Lists /\ ToSet(x) = First(m)
        <3>1. CASE list[m] \in S
            <4>1. x = Append(k[m - 1], list[m])
                BY <3>1
            <4> QED
                BY <2>3, <2>4, <2>5, <3>1, <4>1, Appended
        <3>2. CASE list[m] \notin S
            BY <2>3, <2>5, <3>2
        <3> QED
            BY <3>1, <3>2
    <2> HIDE DEF x
    <2>7. l \in [0 .. m -> Lists]
        BY <2>1, <2>2, <2>6
    <2>8. l[0] = <<>>
        BY <2>1
    <2>9. ASSUME NEW i \in 1 .. m PROVE l[i] = Next1(l, i)
        <3>1. i \in 0 .. m /\ i - 1 \in 0 .. m /\ i - 1 # m
            BY <2>9
        <3>2. l[i - 1] = k[i - 1]
            BY <3>1
        <3>3. CASE i = m
            BY <3>1, <3>2, <3>3 DEF x
        <3>4. CASE i # m
            <4>1. i \in 1 .. m - 1
                BY <3>4
            <4>2. k[i] = Next1(k, i)
                BY <2>1, <4>1
            <4>3. l[i] = k[i]
                BY <3>1, <3>4
            <4> QED
                BY <3>2, <4>2, <4>3
        <3> QED
            BY <3>3, <3>4
    <2>10. \A i \in 0 .. m : ToSet(l[i]) = First(i)
        BY <2>1, <2>2, <2>6
    <2> HIDE DEF l, Next1
    <2>11. Upto(l, m)
        BY <2>7, <2>8, <2>9, <2>10
    <2> HIDE DEF Upto
    <2> QED
        BY <2>11
<1>6. n \in F
    <2> HIDE DEF F
    <2>1. \A m \in 0 .. n : m \in F
        BY <1>1, <1>4, <1>5, CountingUp
    <2> QED
        BY <1>1, <2>1
<1>7. PICK k : Upto(k, n)
    BY <1>6
<1>8. k = [i \in 0 .. n |-> IF i = 0 THEN <<>> ELSE Next1(k, i)]
    <2>1. k \in [0 .. n -> Lists] /\ k[0] = <<>> /\ \A i \in 1 .. n : k[i] = Next1(k, i)
        BY <1>7
    <2> HIDE DEF Next1
    <2>2. \A i \in 0 .. n : k[i] = IF i = 0 THEN <<>> ELSE Next1(k, i)
        BY <1>1, <2>1
    <2> QED
        BY <2>1, <2>2
<1>9. kept = [i \in 0 .. n |-> IF i = 0 THEN <<>> ELSE Next1(kept, i)]
    BY <1>8
<1> HIDE DEF kept
<1>10. \A i \in 0 .. n : kept[i] = k[i]
    <2> DEFINE G == {i \in 0 .. n : kept[i] = k[i]}
    <2>1. 0 \in G
        BY <1>1, <1>8, <1>9
    <2>2. ASSUME NEW i \in 1 .. n, i - 1 \in G PROVE i \in G
        <3>1. i \in 0 .. n /\ i # 0 /\ kept[i - 1] = k[i - 1]
            BY <1>1, <2>2
        <3>2. kept[i] = Next1(kept, i) /\ k[i] = Next1(k, i)
            <4> HIDE DEF Next1
            <4> QED
                BY <1>8, <1>9, <3>1
        <3> QED
            BY <3>1, <3>2
    <2> HIDE DEF G
    <2>3. \A i \in 0 .. n : i \in G
        BY <1>1, <2>1, <2>2, CountingUp
    <2> QED
        BY <2>3 DEF G
<1>11. n \in 0 .. n
    BY <1>1
<1> QED
    BY <1>1, <1>2, <1>7, <1>10, <1>11

\* Sums and multiples of numbers.
LEMMA Adds ==
    ASSUME NEW a \in Int, NEW b \in Int, NEW c \in Int, NEW d \in Int, a <= b, c <= d
    PROVE  a + c <= b + d /\ (a < b \/ c < d => a + c < b + d)
OBVIOUS

LEMMA AddsLater ==
    ASSUME NEW a \in Int, NEW c \in Int, NEW d \in Int
    PROVE  (a + d) + c = (a + c) + d /\ a + (c + d) = (a + c) + d
OBVIOUS

LEMMA OneMore ==
    ASSUME NEW m \in Int, NEW c \in Int
    PROVE  (m - 1) * c + c = m * c
OBVIOUS

LEMMA Distributes ==
    ASSUME NEW a \in Int, NEW x \in Int, NEW y \in Int
    PROVE  a * (x + y) = a * x + a * y /\ a * (x - y) = a * x - a * y
           /\ a * x \in Int /\ a * y \in Int
OBVIOUS

\* A sum is no larger than another of larger terms, and smaller when term i is.
LEMMA TotalAtMost ==
    ASSUME NEW L \in Nat, NEW s \in [1 .. L -> Int], NEW t \in [1 .. L -> Int],
           \A n \in 1 .. L : s[n] <= t[n], NEW i \in 0 .. L, i # 0 => s[i] < t[i]
    PROVE  Total(s) <= Total(t) /\ (i # 0 => Total(s) < Total(t))
<1> DEFINE S == Sums(s)
           T == Sums(t)
           G == {m \in 0 .. L : S[m] <= T[m] /\ (i # 0 /\ i <= m => S[m] < T[m])}
<1>1. SumsOf(S, s, L) /\ SumsOf(T, t, L) /\ Total(s) = S[L] /\ Total(t) = T[L]
    BY SumsAre
<1>2. /\ L \in Nat /\ i \in 0 .. L
      /\ \A n \in 1 .. L : s[n] \in Int /\ t[n] \in Int /\ s[n] <= t[n]
    OBVIOUS
<1> HIDE DEF S, T
<1>3. /\ S[0] = 0 /\ T[0] = 0 /\ \A n \in 0 .. L : S[n] \in Int /\ T[n] \in Int
      /\ \A n \in 1 .. L : S[n] = S[n - 1] + s[n] /\ T[n] = T[n - 1] + t[n]
    BY <1>1 DEF SumsOf
<1>4. 0 \in G
    BY <1>2, <1>3
<1>5. ASSUME NEW m \in 1 .. L, m - 1 \in G PROVE m \in G
    <2>1. /\ m \in 0 .. L /\ m - 1 \in 0 .. L
          /\ S[m] \in Int /\ T[m] \in Int /\ S[m - 1] \in Int /\ T[m - 1] \in Int
        BY <1>2, <1>3
    <2>2. /\ S[m] = S[m - 1] + s[m] /\ T[m] = T[m - 1] + t[m]
          /\ s[m] \in Int /\ t[m] \in Int /\ s[m] <= t[m]
        BY <1>2, <1>3
    <2>3. S[m - 1] <= T[m - 1] /\ S[m] <= T[m]
        <3>1. S[m - 1] <= T[m - 1]
            BY <1>5
        <3> QED
            BY <2>1, <2>2, <3>1, Adds
    <2>4. ASSUME i # 0, i <= m PROVE S[m] < T[m]
        <3>1. CASE i = m
            <4>1. s[m] < t[m] /\ S[m - 1] <= T[m - 1]
                BY <1>5, <2>4, <3>1
            <4> QED
                BY <2>1, <2>2, <4>1, Adds
        <3>2. CASE i # m
            <4>1. i <= m - 1
                BY <1>2, <2>4, <3>2
            <4>2. S[m - 1] < T[m - 1]
                BY <1>5, <2>4, <4>1
            <4>3. S[m - 1] + s[m] < T[m - 1] + t[m]
                BY <2>1, <2>2, <4>2, Adds
            <4> QED
                BY <2>2, <4>3
        <3> QED
            BY <3>1, <3>2
    <2> QED
        BY <2>1, <2>3, <2>4
<1> HIDE DEF G
<1>6. \A m \in 0 .. L : m \in G
    BY <1>2, <1>4, <1>5, CountingUp
<1>7. L \in G /\ (i # 0 => i <= L)
    BY <1>2, <1>6
<1> QED
    BY <1>1, <1>7 DEF G

\* A sum is an integer; it changes by d when one term does.
Changed(s, t, i, d, L) ==
    /\ L \in Nat /\ i \in 1 .. L /\ d \in Int
    /\ s \in [1 .. L -> Int] /\ t \in [1 .. L -> Int]
    /\ t[i] = s[i] + d /\ \A n \in 1 .. L : n # i => t[n] = s[n]

LEMMA TotalChanges ==
    ASSUME NEW L, NEW s, NEW t, NEW i, NEW d, Changed(s, t, i, d, L)
    PROVE  Total(s) \in Int /\ Total(t) = Total(s) + d
<1> DEFINE S == Sums(s)
           T == Sums(t)
           G == {m \in 0 .. L : T[m] = IF i <= m THEN S[m] + d ELSE S[m]}
<1>8. L \in Nat /\ s \in [1 .. L -> Int] /\ t \in [1 .. L -> Int]
    BY DEF Changed
<1>1. SumsOf(S, s, L) /\ SumsOf(T, t, L) /\ Total(s) = S[L] /\ Total(t) = T[L]
    BY <1>8, SumsAre
<1>2. /\ L \in Nat /\ i \in 1 .. L /\ d \in Int
      /\ \A n \in 1 .. L : s[n] \in Int /\ t[n] \in Int
      /\ t[i] = s[i] + d /\ \A n \in 1 .. L : n # i => t[n] = s[n]
    BY DEF Changed
<1> HIDE DEF S, T
<1>3. /\ S[0] = 0 /\ T[0] = 0 /\ \A n \in 0 .. L : S[n] \in Int /\ T[n] \in Int
      /\ \A n \in 1 .. L : S[n] = S[n - 1] + s[n] /\ T[n] = T[n - 1] + t[n]
    BY <1>1 DEF SumsOf
<1>4. 0 \in G
    BY <1>2, <1>3
<1>5. ASSUME NEW m \in 1 .. L, m - 1 \in G PROVE m \in G
    <2>1. /\ m \in 0 .. L /\ m - 1 \in 0 .. L
          /\ S[m] \in Int /\ T[m] \in Int /\ S[m - 1] \in Int /\ T[m - 1] \in Int
        BY <1>2, <1>3
    <2>2. /\ S[m] = S[m - 1] + s[m] /\ T[m] = T[m - 1] + t[m]
          /\ s[m] \in Int /\ t[m] \in Int
        BY <1>2, <1>3
    <2>3. CASE m = i
        <3>1. T[m - 1] = S[m - 1] /\ t[m] = s[m] + d
            BY <1>2, <1>5, <2>3
        <3>2. T[m] = S[m - 1] + (s[m] + d)
            BY <2>2, <3>1
        <3>3. S[m - 1] + (s[m] + d) = (S[m - 1] + s[m]) + d
            BY <1>2, <2>1, <2>2, AddsLater
        <3> QED
            BY <2>1, <2>2, <2>3, <3>2, <3>3
    <2>4. CASE m # i
        <3>1. t[m] = s[m] /\ (i <= m <=> i <= m - 1)
            BY <1>2, <2>4
        <3>2. T[m - 1] = IF i <= m THEN S[m - 1] + d ELSE S[m - 1]
            BY <1>5, <3>1
        <3>4. (S[m - 1] + d) + s[m] = (S[m - 1] + s[m]) + d
            BY <1>2, <2>1, <2>2, AddsLater
        <3>3. T[m] = IF i <= m THEN S[m] + d ELSE S[m]
            BY <2>2, <3>1, <3>2, <3>4
        <3> QED
            BY <2>1, <3>3
    <2> QED
        BY <2>3, <2>4
<1> HIDE DEF G
<1>6. \A m \in 0 .. L : m \in G
    BY <1>2, <1>4, <1>5, CountingUp
<1>7. L \in G /\ i <= L /\ S[L] \in Int
    BY <1>2, <1>3, <1>6
<1> QED
    BY <1>1, <1>7 DEF G

\* The sum of equal terms.
LEMMA TotalOfEqual ==
    ASSUME NEW L \in Nat, NEW s \in [1 .. L -> Int], NEW c \in Int,
           \A n \in 1 .. L : s[n] = c
    PROVE  Total(s) = L * c
<1> DEFINE S == Sums(s)
           G == {m \in 0 .. L : S[m] = m * c}
<1>1. SumsOf(S, s, L) /\ Total(s) = S[L]
    BY SumsAre
<1>2. L \in Nat /\ \A n \in 1 .. L : s[n] = c
    OBVIOUS
<1> HIDE DEF S
<1>3. S[0] = 0 /\ \A n \in 1 .. L : S[n] = S[n - 1] + s[n]
    BY <1>1 DEF SumsOf
<1>4. 0 \in G
    BY <1>2, <1>3
<1>5. ASSUME NEW m \in 1 .. L, m - 1 \in G PROVE m \in G
    <2>1. S[m] = S[m - 1] + c /\ S[m - 1] = (m - 1) * c /\ m \in 0 .. L
        BY <1>2, <1>3, <1>5
    <2>2. (m - 1) * c + c = m * c
        BY OneMore
    <2> QED
        BY <2>1, <2>2
<1> HIDE DEF G
<1>6. \A m \in 0 .. L : m \in G
    BY <1>2, <1>4, <1>5, CountingUp
<1>7. L \in G
    BY <1>2, <1>6
<1> QED
    BY <1>1, <1>7 DEF G

\* A multiple of a sum less a multiple of another.
Combined(u, s, t, a, b, L) ==
    /\ L \in Nat /\ a \in Int /\ b \in Int
    /\ s \in [1 .. L -> Int] /\ t \in [1 .. L -> Int] /\ u \in [1 .. L -> Int]
    /\ \A n \in 1 .. L : u[n] = a * s[n] - b * t[n]
Difference(z, x, y, a, b) == x \in Int /\ y \in Int /\ z = a * x - b * y

LEMMA TotalLinear ==
    ASSUME NEW L, NEW s, NEW t, NEW u, NEW a, NEW b, Combined(u, s, t, a, b, L)
    PROVE  Difference(Total(u), Total(s), Total(t), a, b)
<1> DEFINE S == Sums(s)
           T == Sums(t)
           U == Sums(u)
           G == {m \in 0 .. L : U[m] = a * S[m] - b * T[m]}
<1>2. /\ L \in Nat /\ a \in Int /\ b \in Int
      /\ \A n \in 1 .. L : u[n] = a * s[n] - b * t[n]
    BY DEF Combined
<1>9. s \in [1 .. L -> Int] /\ t \in [1 .. L -> Int] /\ u \in [1 .. L -> Int]
    BY DEF Combined
<1>1. /\ SumsOf(S, s, L) /\ SumsOf(T, t, L) /\ SumsOf(U, u, L)
      /\ Total(s) = S[L] /\ Total(t) = T[L] /\ Total(u) = U[L]
    BY <1>2, <1>9, SumsAre
<1>8. \A n \in 1 .. L : s[n] \in Int /\ t[n] \in Int
    BY <1>9
<1> HIDE DEF S, T, U
<1>3. /\ S[0] = 0 /\ T[0] = 0 /\ U[0] = 0 /\ \A n \in 0 .. L : S[n] \in Int /\ T[n] \in Int
      /\ \A n \in 1 .. L : S[n] = S[n - 1] + s[n] /\ T[n] = T[n - 1] + t[n]
                           /\ U[n] = U[n - 1] + u[n]
    BY <1>1 DEF SumsOf
<1>4. 0 \in G
    BY <1>2, <1>3
<1>5. ASSUME NEW m \in 1 .. L, m - 1 \in G PROVE m \in G
    <2>1. /\ m \in 0 .. L /\ m - 1 \in 0 .. L
          /\ S[m - 1] \in Int /\ T[m - 1] \in Int
        BY <1>2, <1>3
    <2>2. /\ S[m] = S[m - 1] + s[m] /\ T[m] = T[m - 1] + t[m] /\ U[m] = U[m - 1] + u[m]
          /\ u[m] = a * s[m] - b * t[m] /\ U[m - 1] = a * S[m - 1] - b * T[m - 1]
        BY <1>2, <1>3, <1>5
    <2>5. s[m] \in Int /\ t[m] \in Int
        BY <1>8
    <2>3. (a * S[m - 1] - b * T[m - 1]) + (a * s[m] - b * t[m])
              = a * (S[m - 1] + s[m]) - b * (T[m - 1] + t[m])
        <3>1. a * (S[m - 1] + s[m]) = a * S[m - 1] + a * s[m]
              /\ a * S[m - 1] \in Int /\ a * s[m] \in Int
            BY <1>2, <2>1, <2>5, Distributes
        <3>2. b * (T[m - 1] + t[m]) = b * T[m - 1] + b * t[m]
              /\ b * T[m - 1] \in Int /\ b * t[m] \in Int
            BY <1>2, <2>1, <2>5, Distributes
        <3> DEFINE aS == a * S[m - 1]
                   as == a * s[m]
                   bT == b * T[m - 1]
                   bt == b * t[m]
        <3>3. /\ aS \in Int /\ as \in Int /\ bT \in Int /\ bt \in Int
              /\ a * (S[m - 1] + s[m]) = aS + as /\ b * (T[m - 1] + t[m]) = bT + bt
            BY <3>1, <3>2
        <3> HIDE DEF aS, as, bT, bt
        <3>4. (aS - bT) + (as - bt) = (aS + as) - (bT + bt)
            BY <3>3
        <3> QED
            BY <3>3, <3>4 DEF aS, as, bT, bt
    <2>4. U[m] = a * S[m] - b * T[m]
        BY <2>2, <2>3
    <2> QED
        BY <2>1, <2>4
<1> HIDE DEF G
<1>6. \A m \in 0 .. L : m \in G
    BY <1>2, <1>4, <1>5, CountingUp
<1>7. L \in G /\ S[L] \in Int /\ T[L] \in Int
    BY <1>2, <1>3, <1>6
<1> QED
    BY <1>1, <1>7 DEF G, Difference

\* Some term of a positive sum is positive.
LEMMA TotalPositive ==
    ASSUME NEW L \in Nat, NEW s \in [1 .. L -> Int], Total(s) > 0
    PROVE  \E n \in 1 .. L : s[n] > 0
<1> SUFFICES ASSUME \A n \in 1 .. L : ~(s[n] > 0) PROVE FALSE
    OBVIOUS
<1> DEFINE t == [n \in 1 .. L |-> 0]
           zero == 0
<1>1. t \in [1 .. L -> Int] /\ zero \in Int /\ zero \in 0 .. L /\ L * zero = 0
    OBVIOUS
<1>2. \A n \in 1 .. L : t[n] = zero
    OBVIOUS
<1>3. \A n \in 1 .. L : s[n] <= t[n]
    OBVIOUS
<1> HIDE DEF t, zero
<1>4. Total(t) = 0
    BY <1>1, <1>2, TotalOfEqual
<1>5. zero = 0
    BY DEF zero
<1>6. Total(s) <= Total(t)
    BY <1>1, <1>3, <1>5, TotalAtMost
<1>7. Total(s) \in Int
    BY SumsAre
<1> QED
    BY <1>4, <1>6, <1>7
\* Of some numbers, one that is first among the highest.
LEMMA Highest ==
    ASSUME NEW L \in Nat \ {0}, NEW v \in [1 .. L -> Int]
    PROVE  \E i \in 1 .. L : /\ \A j \in 1 .. L : v[j] <= v[i]
                             /\ \A j \in 1 .. i - 1 : v[j] < v[i]
<1> DEFINE Best(i, m) == /\ i \in 1 .. m
                         /\ \A j \in 1 .. m : v[j] <= v[i]
                         /\ \A j \in 1 .. i - 1 : v[j] < v[i]
           F == {m \in 0 .. L : m # 0 => \E i \in 1 .. L : Best(i, m)}
<1>1. L \in Nat /\ L # 0 /\ 0 \in F /\ \A m \in 1 .. L : v[m] \in Int
    OBVIOUS
<1>2. ASSUME NEW m \in 1 .. L, m - 1 \in F PROVE m \in F
    <2>1. m \in 0 .. L /\ \A j \in 1 .. m : j \in 1 .. L /\ (j \in 1 .. m - 1 \/ j = m)
        BY <1>1
    <2>2. CASE m = 1
        <3>1. Best(m, m)
            BY <1>1, <2>2
        <3> QED
            BY <2>1, <3>1
    <2>3. CASE m # 1
        <3>1. PICK i \in 1 .. L : Best(i, m - 1)
            BY <1>2, <2>3
        <3>2. i \in 1 .. m /\ i \in 1 .. m - 1
            BY <3>1
        <3>3. CASE v[m] <= v[i]
            <4>1. Best(i, m)
                BY <2>1, <3>1, <3>2, <3>3
            <4> HIDE DEF Best
            <4> QED
                BY <2>1, <4>1
        <3>4. CASE v[i] < v[m]
            <4>1. ASSUME NEW j \in 1 .. m - 1 PROVE v[j] < v[m]
                <5>1. v[j] <= v[i] /\ j \in 1 .. L
                    BY <2>1, <3>1, <4>1
                <5> QED
                    BY <1>1, <3>4, <5>1
            <4>2. m \in 1 .. m /\ v[m] <= v[m]
                BY <1>1
            <4>3. \A j \in 1 .. m : v[j] <= v[m]
                <5>1. ASSUME NEW j \in 1 .. m PROVE v[j] <= v[m]
                    BY <1>1, <2>1, <4>1, <4>2
                <5> QED
                    BY <5>1
            <4>4. Best(m, m)
                BY <4>1, <4>2, <4>3
            <4> HIDE DEF Best
            <4> QED
                BY <2>1, <4>4
        <3>5. v[i] \in Int /\ v[m] \in Int
            BY <1>1
        <3> QED
            BY <3>3, <3>4, <3>5
    <2> QED
        BY <2>2, <2>3
<1> HIDE DEF F
<1>3. \A m \in 0 .. L : m \in F
    BY <1>1, <1>2, CountingUp
<1>4. L \in F
    BY <1>1, <1>3
<1> QED
    BY <1>1, <1>4 DEF F

\* A sequence without repetitions is as long as its elements are many.
LEMMA Lengths ==
    ASSUME NEW n \in Nat, NEW f, DOMAIN f = 1 .. n, IsInjective(f),
           NEW S, S = {f[i] : i \in 1 .. n}
    PROVE  IsFiniteSet(S) /\ Cardinality(S) = n
<1> DEFINE g == [i \in 1 .. n |-> f[i]]
<1>1. g \in Injection(1 .. n, S) /\ g \in Surjection(1 .. n, S)
    BY DEF IsInjective, Injection, Surjection
<1>2. IsFiniteSet(1 .. n) /\ Cardinality(1 .. n) = n
    BY FS_Interval
<1> HIDE DEF g
<1>3. IsFiniteSet(S)
    BY <1>1, <1>2, FS_Surjection
<1>4. Cardinality(1 .. n) = Cardinality(S)
    BY <1>1, <1>2, <1>3, FS_Injection
<1> QED
    BY <1>2, <1>3, <1>4

\* What the assumption says of the constants.
LEMMA Constants ==
    /\ Listed \in Lists /\ Listed # <<>>
    /\ \A p \in Providers : WeightOf[p] \in Int /\ PriorityOf[p] \in Int
    /\ \A S \in Exclusions : S \subseteq Providers
    /\ Used \subseteq Strategies
    /\ IndexPeriod \in Nat /\ IndexPeriod # 0
    /\ \A n \in 1 .. Len(Listed) : IndexPeriod % n = 0
BY StrategiesAssumption DEF Lists

\* No list is longer than that of the configuration.
LEMMA ListLength ==
    ASSUME NEW list \in Lists
    PROVE  Len(list) <= Len(Listed)
<1>1. /\ Len(list) \in Nat /\ DOMAIN list = 1 .. Len(list) /\ IsInjective(list)
      /\ ToSet(list) = {list[i] : i \in 1 .. Len(list)} /\ ToSet(list) \subseteq Providers
    BY ListIs DEF Lists
<1>2. /\ Len(Listed) \in Nat /\ DOMAIN Listed = 1 .. Len(Listed) /\ IsInjective(Listed)
      /\ Providers = {Listed[i] : i \in 1 .. Len(Listed)}
    BY Constants, ListIs DEF Lists, Providers
<1>3. IsFiniteSet(ToSet(list)) /\ Cardinality(ToSet(list)) = Len(list)
    BY <1>1, Lengths
<1>4. IsFiniteSet(Providers) /\ Cardinality(Providers) = Len(Listed)
    BY <1>2, Lengths
<1> HIDE DEF Providers
<1>5. Cardinality(ToSet(list)) <= Cardinality(Providers)
    BY <1>1, <1>4, FS_Subset
<1> QED
    BY <1>3, <1>4, <1>5

\* The weights of a list are positive numbers, and so is their sum.
LEMMA WeightsAre ==
    ASSUME NEW list \in Lists
    PROVE  /\ Weights(list) \in [1 .. Len(list) -> Int]
           /\ \A i \in 1 .. Len(list) : Weights(list)[i] = EffectiveWeight(list[i])
           /\ \A p \in Providers : EffectiveWeight(p) \in Int /\ EffectiveWeight(p) >= 1
           /\ TotalWeight(list) \in Int
<1>1. \A p \in Providers : EffectiveWeight(p) \in Int /\ EffectiveWeight(p) >= 1
    BY Constants DEF EffectiveWeight
<1>2. /\ Len(list) \in Nat /\ DOMAIN list = 1 .. Len(list)
      /\ \A i \in 1 .. Len(list) : list[i] \in Providers
    BY ListIs
<1>3. /\ Weights(list) \in [1 .. Len(list) -> Int]
      /\ \A i \in 1 .. Len(list) : Weights(list)[i] = EffectiveWeight(list[i])
    <2> HIDE DEF EffectiveWeight
    <2> QED
        BY <1>1, <1>2 DEF Weights
<1>4. TotalWeight(list) \in Int
    BY <1>2, <1>3, SumsAre DEF TotalWeight
<1> QED
    BY <1>1, <1>3, <1>4

\* The first tier is not empty: those of the highest priority.
LEMMA TopTierIs ==
    ASSUME NEW list \in Lists, list # <<>>
    PROVE  /\ TopTier(list) \in Lists /\ TopTier(list) # <<>>
           /\ ToSet(TopTier(list)) \subseteq ToSet(list)
           /\ \A p \in ToSet(TopTier(list)) : \A q \in ToSet(list) : PriorityOf[q] <= PriorityOf[p]
<1> DEFINE S == {p \in ToSet(list) : \A q \in ToSet(list) : PriorityOf[q] <= PriorityOf[p]}
           v == [i \in 1 .. Len(list) |-> PriorityOf[list[i]]]
<1>1. /\ Len(list) \in Nat /\ Len(list) # 0 /\ ToSet(list) = {list[i] : i \in 1 .. Len(list)}
      /\ \A i \in 1 .. Len(list) : list[i] \in Providers
    BY ListIs
<1>2. v \in [1 .. Len(list) -> Int]
    BY <1>1, Constants
<1>3. PICK i \in 1 .. Len(list) : \A j \in 1 .. Len(list) : v[j] <= v[i]
    <2> HIDE DEF v
    <2> QED
        BY <1>1, <1>2, Highest
<1>4. list[i] \in S
    BY <1>1, <1>3
<1> HIDE DEF S
<1>5. TopTier(list) \in Lists /\ ToSet(TopTier(list)) = ToSet(list) \cap S
    BY WithinIs DEF TopTier, S
<1>6. TopTier(list) # <<>>
    BY <1>1, <1>4, <1>5, ListIs
<1> QED
    BY <1>5, <1>6 DEF S

\* A draw by weight draws a provider of the list: the roll falls into the share of one.
LEMMA DrawnIs ==
    ASSUME NEW list \in Lists
    PROVE  Drawn(list) \subseteq ToSet(list)
<1> SUFFICES ASSUME NEW roll \in 0 .. TotalWeight(list) - 1 PROVE DrawnBy(list, roll) \in ToSet(list)
    BY DEF Drawn
<1> DEFINE L == Len(list)
           S == Sums(Weights(list))
           M == {i \in 0 .. L : roll < S[i]}
<1>1. /\ L \in Nat /\ DOMAIN list = 1 .. L /\ ToSet(list) = {list[i] : i \in 1 .. L}
      /\ TotalWeight(list) \in Int
    BY ListIs, WeightsAre
<1>2. SumsOf(S, Weights(list), L) /\ TotalWeight(list) = S[L]
    BY <1>1, WeightsAre, SumsAre DEF TotalWeight
<1>3. roll \in Int /\ 0 <= roll /\ roll < S[L]
    BY <1>1, <1>2
<1> HIDE DEF L, S
<1>4. S[0] = 0 /\ \A i \in 0 .. L : S[i] \in Int
    BY <1>1, <1>2 DEF SumsOf
<1>5. M \in SUBSET (0 .. L) /\ M # {}
    <2>1. L \in M
        BY <1>1, <1>3
    <2> QED
        BY <2>1
<1>6. PICK m \in M : \A k \in M : m <= k
    <2> HIDE DEF M
    <2> QED
        BY <1>1, <1>5, LeastNumber
<1>7. m \in 0 .. L /\ m # 0 /\ roll < S[m]
    BY <1>3, <1>4, <1>6
<1>8. m \in 1 .. L /\ m - 1 \in 0 .. L /\ ~(m <= m - 1)
    BY <1>1, <1>7
<1>9. S[m - 1] <= roll
    <2>1. ~(roll < S[m - 1])
        BY <1>6, <1>8
    <2> QED
        BY <1>3, <1>4, <1>8, <2>1
<1>10. \E i \in DOMAIN list : S[i - 1] <= roll /\ roll < S[i]
    BY <1>1, <1>7, <1>8, <1>9
<1> DEFINE at == CHOOSE i \in DOMAIN list : S[i - 1] <= roll /\ roll < S[i]
<1>11. at \in DOMAIN list
    BY <1>10
<1>12. DrawnBy(list, roll) = list[at]
    BY DEF DrawnBy, S
<1> QED
    BY <1>1, <1>11, <1>12
--------------------------------------------------------------------------------
(* The requests: what is known of one at each stage. *)

\* The candidates are among those it asked for, and all of them without affinity;
\* nothing is tried before the list is made.
Narrowed(q) ==
    /\ q.asked # <<>> /\ q.candidates # <<>>
    /\ ToSet(q.candidates) \subseteq ToSet(q.asked)
    /\ (q.affine /\ q.pc # "affinity") \/ q.candidates = q.asked
    /\ q.pc = "affinity" => q.affine
    /\ q.pc \in {"affinity", "filter"} => q.tried = <<>>

\* The list has every candidate that stayed healthy.
Chooses(q) ==
    /\ q.list \in Lists /\ q.list # <<>>
    /\ ToSet(q.candidates) \cap q.steady \subseteq ToSet(q.list)
    /\ q.retry <=> q.pc # "pick"

\* No two attempts on the same provider.
Different(q) ==
    \A i, j \in 1 .. Len(q.tried) : q.tried[i].provider = q.tried[j].provider => i = j

\* The attempts so far: in order, each on a provider of its own, and not all of them
\* yet; or in a race, where those that have not answered are still racing.
Tries(q) ==
    /\ q.pc = "try" =>
          /\ Attempted(q) \subseteq ToSet(q.list) /\ Len(q.tried) < Len(q.list)
          /\ Different(q)
          /\ strategy # "weighted_failover" => q.tried = <<>>
    /\ q.pc = "race" =>
          Attempted(q) \cup q.racing = ToSet(q.list)

RequestOK(q) ==
    /\ q \in Request
    /\ q.pc # "idle" => q.steady \subseteq healthy /\ Narrowed(q)
    /\ q.pc \in {"pick", "try", "race"} => Chooses(q) /\ Tries(q)

RequestsOK == req \in [Requests -> Request] /\ \A r \in Requests : RequestOK(req[r])

SharedTypes ==
    /\ strategy \in Used
    /\ healthy \subseteq Providers

LEMMA EmptyList == <<>> \in Lists /\ <<>> \in Seq(Providers) /\ <<>> \in Seq(Attempt)
BY DEF Lists, IsInjective

LEMMA NoRequestOK == RequestOK(NoRequest) /\ NoRequest.pc = "idle"
BY EmptyList DEF RequestOK, NoRequest, Request

\* A request that ends or goes on leaves the others as they are.
LEMMA Ending ==
    ASSUME RequestsOK, NEW r \in Requests, NEW outcome \in Outcomes, NEW p \in Providers \cup {None},
           Ends(r, outcome, p), UNCHANGED <<strategy, healthy>>
    PROVE  RequestsOK' /\ result' \in Result
<1>1. req' = [req EXCEPT ![r] = NoRequest] /\ result' \in Result
    BY DEF Ends, Result
<1>2. RequestOK(NoRequest) /\ NoRequest \in Request
    BY NoRequestOK DEF RequestOK
<1>3. req' \in [Requests -> Request]
    BY <1>1, <1>2 DEF RequestsOK
<1>4. ASSUME NEW q \in Requests PROVE RequestOK(req[q])'
    <2>1. RequestOK(req'[q])
        BY <1>1, <1>2 DEF RequestsOK
    <2> QED
        BY <2>1 DEF RequestOK, Narrowed, Chooses, Tries, Different, Attempted
<1> QED
    BY <1>1, <1>3, <1>4 DEF RequestsOK

LEMMA GoingOn ==
    ASSUME RequestsOK, NEW r \in Requests, NEW t, RequestOK(t),
           Goes(r, t), UNCHANGED <<strategy, healthy>>
    PROVE  RequestsOK' /\ result' \in Result /\ (req'[r]).pc = t.pc
<1>1. req' = [req EXCEPT ![r] = t] /\ result' \in Result /\ t \in Request
    BY DEF Goes, Result, NoResult, Outcomes, RequestOK
<1>3. req' \in [Requests -> Request]
    BY <1>1 DEF RequestsOK
<1>4. ASSUME NEW q \in Requests PROVE RequestOK(req[q])'
    <2>1. RequestOK(req'[q])
        BY <1>1 DEF RequestsOK
    <2> QED
        BY <2>1 DEF RequestOK, Narrowed, Chooses, Tries, Different, Attempted
<1> QED
    BY <1>1, <1>3, <1>4 DEF RequestsOK

LEMMA ArriveOK ==
    ASSUME SharedTypes, RequestsOK, NEW r \in Requests, Arrive(r)
    PROVE  RequestsOK' /\ result' \in Result
<1>1. PICK model \in Models, excluded \in Exclusions, affine \in BOOLEAN, retry \in BOOLEAN :
        LET all == IF strategy = "model_based" THEN FilterProvidersByModel(model) ELSE Listed
            candidates == Without(all, excluded)
            q == [NoRequest EXCEPT !.affine = affine, !.retry = retry, !.asked = candidates,
                                   !.candidates = candidates, !.steady = healthy]
        IN  /\ retry => strategy \in {"failover", "model_based", "weighted_failover"}
            /\ IF candidates = <<>>
               THEN Ends(r, "excluded", None)
               ELSE Goes(r, [q EXCEPT !.pc = IF affine /\ Len(candidates) > 1
                                             THEN "affinity" ELSE "filter"])
    BY DEF Arrive
<1> DEFINE all == IF strategy = "model_based" THEN FilterProvidersByModel(model) ELSE Listed
           candidates == Without(all, excluded)
           stage == IF affine /\ Len(candidates) > 1 THEN "affinity" ELSE "filter"
           q == [NoRequest EXCEPT !.affine = affine, !.retry = retry, !.asked = candidates,
                                  !.candidates = candidates, !.steady = healthy]
           t == [q EXCEPT !.pc = stage]
<1>2. all \in Lists
    BY Constants, WithinIs DEF FilterProvidersByModel
<1> HIDE DEF all
<1>3. candidates \in Lists
    BY <1>2, WithinIs DEF Without
<1>4. IF candidates = <<>> THEN Ends(r, "excluded", None) ELSE Goes(r, t)
    BY <1>1 DEF all
<1>5. UNCHANGED <<strategy, healthy>>
    BY DEF Arrive
<1> HIDE DEF candidates
<1>6. CASE candidates = <<>>
    BY <1>4, <1>5, <1>6, Ending DEF Outcomes
<1>7. CASE candidates # <<>>
    <2>1. stage \in {"affinity", "filter"} /\ (stage = "affinity" => affine)
        OBVIOUS
    <2> HIDE DEF stage
    <2>2. /\ NoRequest \in Request /\ NoRequest.tried = <<>>
        BY EmptyList DEF NoRequest, Request
    <2>5. /\ t \in Request /\ t.pc = stage /\ t.affine = affine /\ t.steady = healthy
          /\ t.asked = candidates /\ t.candidates = candidates /\ t.tried = <<>>
        BY <1>3, <2>1, <2>2 DEF Request, SharedTypes
    <2> HIDE DEF t
    <2>3. RequestOK(t)
        <3>2. Narrowed(t)
            BY <1>7, <2>1, <2>5 DEF Narrowed
        <3> QED
            BY <2>1, <2>5, <3>2 DEF RequestOK
    <2>4. Goes(r, t)
        BY <1>4, <1>7
    <2> QED
        BY <1>5, <2>3, <2>4, GoingOn
<1> QED
    BY <1>6, <1>7

LEMMA AffinityOK ==
    ASSUME SharedTypes, RequestsOK, NEW r \in Requests, Affinity(r)
    PROVE  RequestsOK' /\ result' \in Result /\ (req'[r]).pc # "idle"
<1> DEFINE q == req[r]
           able == FilterHealthy(q.candidates)
           cs == IF able = <<>> THEN q.candidates ELSE <<able[1]>>
           t == [q EXCEPT !.pc = "filter", !.candidates = cs]
<1>1. /\ RequestOK(q) /\ q \in Request /\ q.pc = "affinity" /\ q.steady \subseteq healthy
      /\ Narrowed(q)
    BY DEF RequestsOK, RequestOK, Affinity
<1>2. Goes(r, t) /\ UNCHANGED <<strategy, healthy>>
    BY <1>1 DEF Affinity, Request
<1>3. q.candidates \in Lists
    BY <1>1 DEF Request
<1>4. able \in Lists /\ ToSet(able) \subseteq ToSet(q.candidates)
    BY <1>3, WithinIs DEF FilterHealthy
<1>5. cs \in Lists /\ cs # <<>> /\ ToSet(cs) \subseteq ToSet(q.candidates)
    <2>1. CASE able = <<>>
        BY <1>1, <1>3, <2>1 DEF Narrowed
    <2>2. CASE able # <<>>
        <3>1. able[1] \in Providers /\ able[1] \in ToSet(able)
            BY <1>4, <2>2, ListIs
        <3> HIDE DEF able
        <3>2. ToSet(<<able[1]>>) = {able[1]} /\ <<able[1]>> \in Lists
            BY <3>1 DEF ToSet, Lists, IsInjective
        <3> QED
            BY <1>4, <2>2, <3>1, <3>2
    <2> QED
        BY <2>1, <2>2
<1> HIDE DEF cs, q
<1>6. t \in Request /\ Narrowed(t) /\ t.pc = "filter" /\ t.steady = q.steady
    BY <1>1, <1>5 DEF Request, Narrowed
<1> HIDE DEF t
<1>7. RequestOK(t)
    BY <1>1, <1>6 DEF RequestOK
<1> QED
    BY <1>2, <1>6, <1>7, GoingOn

LEMMA FilterOK ==
    ASSUME SharedTypes, RequestsOK, NEW r \in Requests, Filter(r)
    PROVE  /\ RequestsOK' /\ result' \in Result
           /\ (req'[r]).pc = "idle" =>
                /\ result'.outcome = "unhealthy"
                /\ IF req[r].affine THEN ~(ToSet(req[r].asked) \subseteq req[r].steady)
                   ELSE ToSet(req[r].asked) \cap req[r].steady = {}
<1> DEFINE q == req[r]
           list == FilterHealthy(q.candidates)
           stage == IF q.retry THEN "try" ELSE "pick"
           t == [q EXCEPT !.pc = stage, !.list = list]
<1>1. /\ RequestOK(q) /\ q \in Request /\ q.pc = "filter" /\ q.steady \subseteq healthy
      /\ Narrowed(q) /\ q.tried = <<>>
    BY DEF RequestsOK, RequestOK, Filter, Narrowed
<1>2. /\ IF list = <<>> THEN Ends(r, "unhealthy", None) ELSE Goes(r, t)
      /\ UNCHANGED <<strategy, healthy>>
    BY <1>1 DEF Filter, Request
<1>3. q.candidates \in Lists
    BY <1>1 DEF Request
<1>4. list \in Lists /\ ToSet(list) = ToSet(q.candidates) \cap healthy
    BY <1>3, WithinIs DEF FilterHealthy
<1>5. CASE list = <<>>
    <2>1. Ends(r, "unhealthy", None)
        BY <1>2, <1>5
    <2>2. RequestsOK' /\ result' \in Result
        BY <1>2, <2>1, Ending DEF Outcomes
    <2>3. result'.outcome = "unhealthy"
        BY <2>1 DEF Ends
    <2>4. ToSet(q.candidates) \cap healthy = {} /\ ToSet(q.candidates) # {}
        BY <1>1, <1>3, <1>4, <1>5, ListIs DEF Narrowed
    <2>5. IF q.affine THEN ~(ToSet(q.asked) \subseteq q.steady)
          ELSE ToSet(q.asked) \cap q.steady = {}
        BY <1>1, <2>4 DEF Narrowed
    <2> QED
        BY <2>2, <2>3, <2>5
<1>6. CASE list # <<>>
    <2>1. Goes(r, t)
        BY <1>2, <1>6
    <2>2. stage \in {"try", "pick"} /\ (q.retry <=> stage # "pick")
        BY <1>1 DEF Request
    <2> HIDE DEF list, stage, q
    <2>3. /\ t \in Request /\ t.pc = stage /\ t.list = list /\ t.steady = q.steady
          /\ t.candidates = q.candidates /\ t.retry = q.retry /\ t.tried = <<>>
        BY <1>1, <1>4, <2>2 DEF Request, Lists
    <2>4. Narrowed(t)
        BY <1>1, <2>2 DEF Narrowed, Request
    <2>5. Chooses(t)
        BY <1>1, <1>4, <1>6, <2>2, <2>3 DEF Chooses
    <2>6. Tries(t)
        <3>1. Len(list) \in Nat /\ Len(list) # 0
            BY <1>4, <1>6, ListIs
        <3>2. Attempted(t) = {} /\ Len(t.tried) = 0
            BY <2>3 DEF Attempted
        <3> QED
            BY <2>2, <2>3, <3>1, <3>2 DEF Tries, Different
    <2> HIDE DEF t
    <2>7. RequestOK(t)
        BY <1>1, <2>3, <2>4, <2>5, <2>6 DEF RequestOK
    <2> QED
        BY <1>2, <2>1, <2>2, <2>3, <2>7, GoingOn
<1> QED
    BY <1>5, <1>6
\* A request that picks: of its list, by priority when the strategy goes by it.
LEMMA PickOK ==
    ASSUME SharedTypes, RequestsOK, NEW r \in Requests, Pick(r)
    PROVE  /\ RequestsOK' /\ result' \in Result /\ result'.outcome = "served"
           /\ strategy \in {"failover", "model_based", "priority_weighted_failover"} /\ ~req[r].affine =>
                \A p \in ToSet(req[r].asked) \cap req[r].steady :
                    PriorityOf[p] <= PriorityOf[result'.provider]
<1> DEFINE q == req[r]
<1>1. /\ RequestOK(q) /\ q \in Request /\ q.pc = "pick" /\ Narrowed(q) /\ Chooses(q)
      /\ UNCHANGED <<strategy, healthy>>
    BY DEF RequestsOK, RequestOK, Pick
<1>2. PICK p \in ToSet(q.list) :
        /\ \/ strategy = "round_robin" /\ RoundRobin(r, p)
           \/ strategy = "shuffle" /\ Shuffle(r, p)
           \/ strategy = "weighted_round_robin" /\ WeightedRoundRobin(r, p)
           \/ Stateless(r, p)
        /\ Ends(r, "served", p)
    BY DEF Pick
<1>3. q.list \in Lists /\ q.list # <<>> /\ p \in Providers
    BY <1>1, ListIs DEF Chooses
<1>4. RequestsOK' /\ result' \in Result
    BY <1>1, <1>2, <1>3, Ending DEF Outcomes
<1>5. result'.outcome = "served" /\ result'.provider = p
    BY <1>2 DEF Ends
<1>6. ASSUME strategy \in {"failover", "model_based", "priority_weighted_failover"}, ~q.affine,
             NEW x \in ToSet(q.asked) \cap q.steady
      PROVE  PriorityOf[x] <= PriorityOf[p]
    <2>1. x \in ToSet(q.list)
        BY <1>1, <1>6 DEF Narrowed, Chooses
    <2>2. Stateless(r, p)
        BY <1>2, <1>6
    <2>3. p \in ToSet(TopTier(q.list))
        <3>1. TopTier(q.list) \in Lists /\ TopTier(q.list) # <<>>
            BY <1>3, TopTierIs
        <3>2. TopTier(q.list)[1] \in ToSet(TopTier(q.list))
            BY <3>1, ListIs
        <3>3. Drawn(TopTier(q.list)) \subseteq ToSet(TopTier(q.list))
            BY <3>1, DrawnIs
        <3>4. CASE strategy \in {"failover", "model_based"}
            BY <2>2, <3>2, <3>4 DEF Stateless
        <3>5. CASE strategy = "priority_weighted_failover"
            BY <2>2, <3>3, <3>5 DEF Stateless
        <3> QED
            BY <1>6, <3>4, <3>5
    <2> QED
        BY <1>3, <2>1, <2>3, TopTierIs
<1> QED
    BY <1>4, <1>5, <1>6

\* An attempt more.
LEMMA Trying ==
    ASSUME NEW q \in Request, NEW p \in Providers, NEW outcome \in {"ok", "failover", "stop"},
           NEW t, t = Tried(q, p, outcome)
    PROVE  /\ t \in Request
           /\ t.pc = q.pc /\ t.list = q.list
           /\ t.steady = q.steady /\ t.asked = q.asked
           /\ t.candidates = q.candidates
           /\ t.affine = q.affine /\ t.retry = q.retry
           /\ t.racing = q.racing
           /\ Attempted(t) = Attempted(q) \cup {p}
<1> DEFINE a == [provider |-> p, outcome |-> outcome]
           s == Append(q.tried, a)
           n == Len(q.tried)
<1>1. t = [q EXCEPT !.tried = s]
    BY DEF Tried
<1>2. a \in Attempt /\ a.provider = p
    BY DEF Attempt
<1>3. q.tried \in Seq(Attempt)
    BY DEF Request
<1> HIDE DEF a
<1>4. /\ s \in Seq(Attempt) /\ n \in Nat /\ DOMAIN s = 1 .. n + 1 /\ Len(s) = n + 1
      /\ DOMAIN q.tried = 1 .. n /\ s[n + 1] = a /\ \A i \in 1 .. n : s[i] = q.tried[i]
    BY <1>2, <1>3
<1> HIDE DEF s
<1>5. /\ t \in Request /\ t.tried = s /\ t.pc = q.pc /\ t.list = q.list /\ t.racing = q.racing
      /\ t.steady = q.steady /\ t.asked = q.asked /\ t.candidates = q.candidates
      /\ t.affine = q.affine /\ t.retry = q.retry
    BY <1>1, <1>4 DEF Request
<1> HIDE DEF n
<1>6. /\ Attempted(t) = {s[i].provider : i \in 1 .. n + 1}
      /\ Attempted(q) = {q.tried[i].provider : i \in 1 .. n}
    BY <1>4, <1>5 DEF Attempted
<1>7. \A i \in 1 .. n + 1 : i \in 1 .. n \/ i = n + 1
    BY <1>4
<1>8. Attempted(t) = Attempted(q) \cup {p}
    <2>1. Attempted(t) \subseteq Attempted(q) \cup {p}
        BY <1>2, <1>4, <1>6, <1>7
    <2>2. n + 1 \in 1 .. n + 1 /\ \A i \in 1 .. n : i \in 1 .. n + 1
        BY <1>4
    <2>3. Attempted(q) \cup {p} \subseteq Attempted(t)
        BY <1>2, <1>4, <1>6, <2>2
    <2> QED
        BY <2>1, <2>3
<1> QED
    BY <1>5, <1>8

\* Attempts on different providers stay so with one on a provider not tried before.
LEMMA TryingAnother ==
    ASSUME NEW q \in Request, NEW p \in Providers, NEW outcome \in {"ok", "failover", "stop"},
           NEW t, t = Tried(q, p, outcome), Different(q), p \notin Attempted(q)
    PROVE  Different(t)
<1> DEFINE a == [provider |-> p, outcome |-> outcome]
           s == Append(q.tried, a)
           n == Len(q.tried)
<1>1. q.tried \in Seq(Attempt) /\ a \in Attempt /\ a.provider = p
    BY DEF Request, Attempt
<1>2. t.tried = s
    BY DEF Tried, Request
<1> HIDE DEF a
<1>3. /\ n \in Nat /\ Len(s) = n + 1 /\ DOMAIN q.tried = 1 .. n
      /\ s[n + 1] = a /\ \A i \in 1 .. n : s[i] = q.tried[i]
    BY <1>1
<1>4. \A i \in 1 .. n : q.tried[i].provider # p
    BY <1>3 DEF Attempted
<1> HIDE DEF s
<1>5. \A i, j \in 1 .. n : q.tried[i].provider = q.tried[j].provider => i = j
    BY DEF Different
<1> HIDE DEF n
<1>6. \A i \in 1 .. n + 1 : i \in 1 .. n \/ i = n + 1
    BY <1>3
<1>7. ASSUME NEW i \in 1 .. n + 1, NEW j \in 1 .. n + 1, s[i].provider = s[j].provider
      PROVE  i = j
    <2>1. CASE i \in 1 .. n /\ j \in 1 .. n
        BY <1>3, <1>5, <1>7, <2>1
    <2>2. CASE i = n + 1 /\ j \in 1 .. n
        BY <1>1, <1>3, <1>4, <1>7, <2>2
    <2>3. CASE j = n + 1 /\ i \in 1 .. n
        BY <1>1, <1>3, <1>4, <1>7, <2>3
    <2> QED
        BY <1>6, <2>1, <2>2, <2>3
<1> QED
    BY <1>2, <1>3, <1>7 DEF Different

\* The next provider to try is one of the list that was not tried yet.
LEMMA NextIs ==
    ASSUME NEW q \in Request, q.list \in Lists, Attempted(q) # ToSet(q.list),
           Attempted(q) \subseteq ToSet(q.list), NEW p \in NextToTry(q)
    PROVE  p \in ToSet(q.list) \ Attempted(q) /\ p \in Providers
<1>1. Untried(q) \in Lists /\ ToSet(Untried(q)) = ToSet(q.list) \ Attempted(q)
    <2>1. ToSet(q.list) \subseteq Providers
        BY ListIs
    <2> QED
        BY <2>1, WithinIs DEF Untried, Without
<1>2. Untried(q) # <<>>
    BY <1>1, ListIs
<1>3. Drawn(Untried(q)) \subseteq ToSet(Untried(q))
    BY <1>1, DrawnIs
<1>4. TopTier(Untried(q))[1] \in ToSet(Untried(q))
    <2>1. /\ TopTier(Untried(q)) \in Lists /\ TopTier(Untried(q)) # <<>>
          /\ ToSet(TopTier(Untried(q))) \subseteq ToSet(Untried(q))
        BY <1>1, <1>2, TopTierIs
    <2> QED
        BY <2>1, ListIs
<1>5. p \in ToSet(Untried(q))
    BY <1>3, <1>4 DEF NextToTry
<1>6. ToSet(q.list) \subseteq Providers
    BY ListIs
<1> QED
    BY <1>1, <1>5, <1>6

\* Different attempts on providers of a list are at most its length, and at that
\* length all have been tried.
LEMMA AllTried ==
    ASSUME NEW q \in Request, q.list \in Lists, Attempted(q) \subseteq ToSet(q.list),
           Different(q)
    PROVE  /\ Len(q.tried) \in Nat /\ Len(q.list) \in Nat /\ Len(q.tried) <= Len(q.list)
           /\ Len(q.tried) = Len(q.list) <=> Attempted(q) = ToSet(q.list)
<1> DEFINE n == Len(q.tried)
           f == [i \in 1 .. n |-> q.tried[i].provider]
<1>1. n \in Nat /\ DOMAIN q.tried = 1 .. n
    BY DEF Request
<1>2. DOMAIN f = 1 .. n /\ IsInjective(f) /\ Attempted(q) = {f[i] : i \in 1 .. n}
    BY <1>1 DEF Attempted, Different, IsInjective
<1> HIDE DEF f, n
<1>3. IsFiniteSet(Attempted(q)) /\ Cardinality(Attempted(q)) = n
    BY <1>1, <1>2, Lengths
<1>4. /\ Len(q.list) \in Nat /\ DOMAIN q.list = 1 .. Len(q.list) /\ IsInjective(q.list)
      /\ ToSet(q.list) = {q.list[i] : i \in 1 .. Len(q.list)}
    BY ListIs DEF Lists
<1>5. IsFiniteSet(ToSet(q.list)) /\ Cardinality(ToSet(q.list)) = Len(q.list)
    BY <1>4, Lengths
<1>6. /\ Cardinality(Attempted(q)) <= Cardinality(ToSet(q.list))
      /\ Cardinality(ToSet(q.list)) = Cardinality(Attempted(q)) => ToSet(q.list) = Attempted(q)
    BY <1>5, FS_Subset
<1> QED
    BY <1>1, <1>3, <1>4, <1>5, <1>6 DEF n
LEMMA TryNextOK ==
    ASSUME SharedTypes, RequestsOK, NEW r \in Requests, TryNext(r)
    PROVE  /\ RequestsOK' /\ result' \in Result
           /\ (req'[r]).pc = "idle" =>
                /\ req[r].retry /\ result'.outcome # "unhealthy"
                /\ result'.outcome = "failed" =>
                        Attempted(req[r]) \cup {result'.provider} = ToSet(req[r].list)
<1> DEFINE q == req[r]
<1>1. /\ RequestOK(q) /\ q \in Request /\ q.pc = "try" /\ q.steady \subseteq healthy
      /\ Narrowed(q) /\ Chooses(q) /\ Tries(q) /\ q.retry
      /\ UNCHANGED <<strategy, healthy>>
    BY DEF RequestsOK, RequestOK, TryNext, Chooses
<1>2. /\ q.list \in Lists /\ Attempted(q) \subseteq ToSet(q.list) /\ Len(q.tried) < Len(q.list)
      /\ Different(q)
    BY <1>1 DEF Chooses, Tries
<1>3. PICK p \in NextToTry(q), outcome \in {"ok", "failover", "stop"} :
        LET t == Tried(q, p, outcome)
            over == CASE outcome = "ok" -> "served"
                      [] outcome = "stop" -> "stopped"
                      [] outcome = "failover" /\ Len(t.tried) = Len(t.list) -> "failed"
                      [] OTHER -> "no"
        IN  IF over # "no"
            THEN Ends(r, over, p)
            ELSE Goes(r, IF strategy = "weighted_failover" THEN t
                         ELSE [t EXCEPT !.pc = "race", !.tried = <<>>, !.racing = ToSet(t.list)])
    BY DEF TryNext
<1> DEFINE t == Tried(q, p, outcome)
           over == CASE outcome = "ok" -> "served"
                     [] outcome = "stop" -> "stopped"
                     [] outcome = "failover" /\ Len(t.tried) = Len(t.list) -> "failed"
                     [] OTHER -> "no"
           next == [t EXCEPT !.pc = "race", !.tried = <<>>, !.racing = ToSet(t.list)]
<1>4. IF over # "no" THEN Ends(r, over, p)
      ELSE Goes(r, IF strategy = "weighted_failover" THEN t ELSE next)
    BY <1>3
<1>12. outcome \in {"ok", "failover", "stop"}
    BY <1>3
<1>13. t = Tried(q, p, outcome) /\ q \in Request /\ q.pc = "try"
    BY <1>1
<1> HIDE DEF t
<1>5. /\ over \in Outcomes \cup {"no"} /\ over # "unhealthy"
      /\ over \in {"failed", "no"} => outcome = "failover"
      /\ over = "failed" => Len(t.tried) = Len(t.list)
      /\ over = "no" => Len(t.tried) # Len(t.list)
    <2>1. CASE outcome = "ok"
        BY <2>1 DEF Outcomes
    <2>2. CASE outcome = "stop"
        BY <2>2 DEF Outcomes
    <2>3. CASE outcome = "failover"
        BY <2>3 DEF Outcomes
    <2> QED
        BY <1>12, <2>1, <2>2, <2>3
<1> HIDE DEF over, q
<1>6. p \in ToSet(q.list) \ Attempted(q) /\ p \in Providers
    <2>1. Attempted(q) # ToSet(q.list)
        BY <1>1, <1>2, AllTried
    <2> QED
        BY <1>1, <1>2, <1>3, <2>1, NextIs
<1>7. /\ t \in Request /\ t.pc = "try" /\ t.list = q.list
      /\ t.steady = q.steady /\ t.candidates = q.candidates /\ t.asked = q.asked
      /\ t.affine = q.affine /\ t.retry = q.retry
      /\ Attempted(t) = Attempted(q) \cup {p}
    BY <1>6, <1>12, <1>13, Trying
<1>8. Different(t)
    BY <1>2, <1>6, <1>12, <1>13, TryingAnother
<1>9. /\ Attempted(t) \subseteq ToSet(t.list) /\ Len(t.tried) <= Len(t.list)
      /\ Len(t.tried) \in Nat /\ Len(t.list) \in Nat
      /\ Len(t.tried) = Len(t.list) => Attempted(t) = ToSet(t.list)
    BY <1>2, <1>6, <1>7, <1>8, AllTried
<1>10. CASE over # "no"
    <2>1. Ends(r, over, p) /\ over \in Outcomes
        BY <1>4, <1>5, <1>10
    <2>2. RequestsOK' /\ result' \in Result
        BY <1>1, <1>6, <2>1, Ending
    <2>3. result'.outcome = over /\ result'.provider = p
        BY <2>1 DEF Ends
    <2> QED
        BY <1>1, <1>5, <1>7, <1>9, <2>2, <2>3 DEF q
<1>11. CASE over = "no"
    <2>1. CASE strategy = "weighted_failover"
        <3>1. Goes(r, t)
            BY <1>4, <1>11, <2>1
        <3>2. Narrowed(t) /\ Chooses(t)
            BY <1>1, <1>7 DEF Narrowed, Chooses
        <3>3. Tries(t)
            BY <1>5, <1>7, <1>8, <1>9, <1>11, <2>1 DEF Tries
        <3>4. RequestOK(t)
            BY <1>1, <1>7, <3>2, <3>3 DEF RequestOK
        <3> QED
            BY <1>1, <1>7, <3>1, <3>4, GoingOn
    <2>2. CASE strategy # "weighted_failover"
        <3>1. Goes(r, next)
            BY <1>4, <1>11, <2>2
        <3>2. ToSet(q.list) \subseteq Providers
            BY <1>2, ListIs
        <3>3. /\ next \in Request /\ next.pc = "race" /\ next.list = q.list
              /\ next.steady = q.steady /\ next.candidates = q.candidates /\ next.asked = q.asked
              /\ next.affine = q.affine /\ next.retry = q.retry
              /\ next.tried = <<>> /\ next.racing = ToSet(q.list)
            BY <1>7, <3>2, EmptyList DEF Request
        <3> HIDE DEF next
        <3>4. Narrowed(next) /\ Chooses(next)
            BY <1>1, <3>3 DEF Narrowed, Chooses
        <3>5. Tries(next)
            <4>1. Attempted(next) = {}
                BY <3>3 DEF Attempted
            <4> QED
                BY <3>3, <4>1 DEF Tries
        <3>6. RequestOK(next)
            BY <1>1, <3>3, <3>4, <3>5 DEF RequestOK
        <3> QED
            BY <1>1, <3>1, <3>3, <3>6, GoingOn
    <2> QED
        BY <2>1, <2>2
<1> QED
    BY <1>10, <1>11

LEMMA RaceResultOK ==
    ASSUME SharedTypes, RequestsOK, NEW r \in Requests, RaceResult(r)
    PROVE  /\ RequestsOK' /\ result' \in Result
           /\ (req'[r]).pc = "idle" =>
                /\ req[r].retry /\ result'.outcome # "unhealthy"
                /\ result'.outcome = "failed" =>
                        Attempted(req[r]) \cup {result'.provider} = ToSet(req[r].list)
<1> DEFINE q == req[r]
<1>1. /\ RequestOK(q) /\ q \in Request /\ q.pc = "race" /\ q.steady \subseteq healthy
      /\ Narrowed(q) /\ Chooses(q) /\ Tries(q) /\ q.retry
      /\ UNCHANGED <<strategy, healthy>>
    BY DEF RequestsOK, RequestOK, RaceResult, Chooses
<1>2. q.list \in Lists /\ Attempted(q) \cup q.racing = ToSet(q.list)
    BY <1>1 DEF Chooses, Tries
<1>3. PICK p \in q.racing, outcome \in {"ok", "failover"} :
        LET t == [Tried(q, p, outcome) EXCEPT !.racing = @ \ {p}]
        IN  IF outcome = "ok" \/ t.racing = {}
            THEN Ends(r, IF outcome = "ok" THEN "served" ELSE "failed", p)
            ELSE Goes(r, t)
    BY DEF RaceResult
<1> DEFINE tried == Tried(q, p, outcome)
           t == [tried EXCEPT !.racing = @ \ {p}]
           over == IF outcome = "ok" THEN "served" ELSE "failed"
<1>4. IF outcome = "ok" \/ t.racing = {} THEN Ends(r, over, p) ELSE Goes(r, t)
    BY <1>3
<1>5. over \in Outcomes /\ over # "unhealthy" /\ (over = "failed" => outcome # "ok")
    BY DEF Outcomes
<1> HIDE DEF over, q
<1>6. p \in Providers /\ outcome \in {"ok", "failover", "stop"}
    BY <1>1, <1>3 DEF Request
<1>12. tried = Tried(q, p, outcome) /\ q \in Request /\ q.pc = "race"
    BY <1>1
<1> HIDE DEF tried
<1>7. /\ tried \in Request /\ tried.pc = "race" /\ tried.list = q.list
      /\ tried.steady = q.steady /\ tried.candidates = q.candidates /\ tried.asked = q.asked
      /\ tried.affine = q.affine /\ tried.retry = q.retry
      /\ tried.racing = q.racing /\ Attempted(tried) = Attempted(q) \cup {p}
    BY <1>6, <1>12, Trying
<1>8. /\ t \in Request /\ t.pc = "race" /\ t.list = q.list
      /\ t.steady = q.steady /\ t.candidates = q.candidates /\ t.asked = q.asked
      /\ t.affine = q.affine /\ t.retry = q.retry
      /\ t.racing = q.racing \ {p} /\ t.tried = tried.tried
    BY <1>7 DEF Request
<1>9. Attempted(t) = Attempted(q) \cup {p}
    BY <1>7, <1>8 DEF Attempted
<1> HIDE DEF t
<1>10. CASE outcome = "ok" \/ t.racing = {}
    <2>1. Ends(r, over, p)
        BY <1>4, <1>10
    <2>2. RequestsOK' /\ result' \in Result
        BY <1>1, <1>5, <1>6, <2>1, Ending
    <2>3. result'.outcome = over /\ result'.provider = p
        BY <2>1 DEF Ends
    <2>4. outcome # "ok" => Attempted(q) \cup {p} = ToSet(q.list)
        BY <1>2, <1>3, <1>8, <1>10
    <2> QED
        BY <1>1, <1>5, <2>2, <2>3, <2>4 DEF q
<1>11. CASE ~(outcome = "ok" \/ t.racing = {})
    <2>1. Goes(r, t)
        BY <1>4, <1>11
    <2>2. Narrowed(t) /\ Chooses(t)
        BY <1>1, <1>8 DEF Narrowed, Chooses
    <2>3. Tries(t)
        BY <1>2, <1>3, <1>8, <1>9 DEF Tries
    <2>4. RequestOK(t)
        BY <1>1, <1>8, <2>2, <2>3 DEF RequestOK
    <2> QED
        BY <1>1, <1>8, <2>1, <2>4, GoingOn
<1> QED
    BY <1>10, <1>11

LEMMA HealthChangesOK ==
    ASSUME SharedTypes, RequestsOK, HealthChanges
    PROVE  /\ healthy' \subseteq Providers /\ RequestsOK' /\ result' \in Result
           /\ \A r \in Requests : (req'[r]).pc = req[r].pc
<1>1. healthy' \subseteq Providers /\ result' \in Result /\ strategy' = strategy
    BY DEF HealthChanges, SharedTypes, Result, NoResult, Outcomes
<1>2. ASSUME NEW r \in Requests
      PROVE  /\ req'[r] \in Request /\ RequestOK(req[r])' /\ (req'[r]).pc = req[r].pc
    <2>1. PICK q : q = req[r]
        OBVIOUS
    <2>6. RequestOK(q) /\ q \in Request
        BY <2>1 DEF RequestsOK, RequestOK
    <2>7. PICK t : t = [q EXCEPT !.steady = @ \cap healthy']
        OBVIOUS
    <2>2. req'[r] = IF q.pc = "idle" THEN q ELSE t
        BY <2>1, <2>6, <2>7 DEF HealthChanges
    <2>3. /\ t \in Request /\ t.pc = q.pc /\ t.list = q.list
          /\ t.steady = q.steady \cap healthy' /\ t.candidates = q.candidates /\ t.asked = q.asked
          /\ t.affine = q.affine /\ t.retry = q.retry
          /\ t.racing = q.racing /\ t.tried = q.tried
        BY <2>6, <2>7 DEF Request
    <2>8. ASSUME NEW x, RequestOK(x)', req'[r] = x PROVE RequestOK(req[r])'
        BY <2>8 DEF RequestOK, Narrowed, Chooses, Tries, Different, Attempted
    <2>4. CASE q.pc = "idle"
        <3>1. RequestOK(q)'
            BY <2>4, <2>6 DEF RequestOK
        <3>2. RequestOK(req[r])'
            BY <2>2, <2>4, <2>8, <3>1
        <3> QED
            BY <2>1, <2>2, <2>4, <2>6, <3>2
    <2>5. CASE q.pc # "idle"
        <3>1. Narrowed(q) /\ Narrowed(t)'
            BY <2>3, <2>5, <2>6 DEF RequestOK, Narrowed
        <3>2. q.pc \in {"pick", "try", "race"} => Chooses(t)'
            BY <2>3, <2>6 DEF RequestOK, Chooses
        <3>3. q.pc \in {"pick", "try", "race"} => Tries(t)'
            BY <1>1, <2>3, <2>6 DEF RequestOK, Tries, Different, Attempted
        <3>4. RequestOK(t)'
            BY <2>3, <3>1, <3>2, <3>3 DEF RequestOK
        <3>5. RequestOK(req[r])'
            BY <2>2, <2>5, <2>8, <3>4
        <3> QED
            BY <2>1, <2>2, <2>3, <2>5, <3>5
    <2> QED
        BY <2>4, <2>5
<1>3. req' \in [Requests -> Request]
    <2>1. req' = [r \in Requests |-> req'[r]]
        BY DEF HealthChanges
    <2> QED
        BY <1>2, <2>1
<1> QED
    BY <1>1, <1>2, <1>3 DEF RequestsOK
--------------------------------------------------------------------------------
(* The strategies: what their state says of the choices made so far. *)

RouterTypes ==
    /\ deck \in Seq(0 .. Len(Listed) - 1) /\ position \in 0 .. Len(deck) /\ lastLen = Len(deck)
    /\ index \in 0 .. IndexPeriod - 1
    /\ weights \in Seq(Int) /\ lastIDs \in Lists /\ Len(weights) = Len(lastIDs)
    /\ round \in Round

\* With a choice more every provider of the list has had its share.
Fills(rnd, p) ==
    rnd.same /\ \A x \in ToSet(rnd.list) :
                    (IF x = p THEN rnd.counts[x] + 1 ELSE rnd.counts[x]) = Share(x)

LEMMA NewRoundIs ==
    ASSUME NEW list \in Lists
    PROVE  /\ NewRound(list) \in Round /\ NewRound(list).list = list /\ NewRound(list).same
           /\ \A x \in Providers : NewRound(list).counts[x] = 0
BY DEF NewRound, Round

LEMMA ChosenIs ==
    ASSUME NEW rnd \in Round, NEW p \in Providers, NEW t, t = Chosen(rnd, p)
    PROVE  /\ t \in Round /\ t.list = rnd.list /\ t.same = rnd.same
           /\ \A x \in Providers :
                t.counts[x] = IF Fills(rnd, p) THEN 0
                              ELSE IF x = p THEN rnd.counts[x] + 1 ELSE rnd.counts[x]
<1> DEFINE c == [rnd.counts EXCEPT ![p] = @ + 1]
           counted == [rnd EXCEPT !.counts = c]
           full == counted.same /\ \A x \in ToSet(rnd.list) : counted.counts[x] = Share(x)
<1>1. t = IF full THEN NewRound(rnd.list) ELSE counted
    BY DEF Chosen, Round
<1>2. /\ c \in [Providers -> Nat] /\ rnd.list \in Lists /\ rnd.same \in BOOLEAN
      /\ \A x \in Providers : c[x] = IF x = p THEN rnd.counts[x] + 1 ELSE rnd.counts[x]
    BY DEF Round
<1> HIDE DEF c
<1>3. counted \in Round /\ counted.list = rnd.list /\ counted.same = rnd.same /\ counted.counts = c
    BY <1>2 DEF Round
<1>8. PICK list \in Lists : list = rnd.list
    BY <1>2
<1>4. \A x \in ToSet(rnd.list) : x \in Providers
    BY <1>8, ListIs
<1> HIDE DEF counted
<1>5. full <=> Fills(rnd, p)
    BY <1>2, <1>3, <1>4 DEF Fills
<1> HIDE DEF full
<1>6. CASE full
    <2>1. t = NewRound(list)
        BY <1>1, <1>6, <1>8
    <2>2. rnd.same
        BY <1>5, <1>6 DEF Fills
    <2>3. t.same = TRUE
        BY <2>1 DEF NewRound
    <2>4. /\ NewRound(list) \in Round /\ NewRound(list).list = list
          /\ \A x \in Providers : NewRound(list).counts[x] = 0
        BY NewRoundIs
    <2>5. t \in Round /\ t.list = rnd.list /\ t.same = rnd.same
        BY <1>2, <1>8, <2>1, <2>2, <2>3, <2>4
    <2>6. \A x \in Providers : t.counts[x] = 0
        BY <2>1, <2>4
    <2> QED
        BY <1>5, <1>6, <2>5, <2>6
<1>7. CASE ~full
    BY <1>1, <1>2, <1>3, <1>5, <1>7
<1> QED
    BY <1>6, <1>7

\* Nothing is counted of a provider that is not in the list.
OnlyOfList(rnd) == \A p \in Providers : p \notin ToSet(rnd.list) => rnd.counts[p] = 0

\* Round robin: the last ones before the next in turn have been dealt, around the list.
Dealt(n, a, k, i) == (a - k < i /\ i <= a) \/ n + a - k < i
Dealing(rnd, a) ==
    /\ rnd.same /\ OnlyOfList(rnd)
    /\ \E k \in 0 .. Len(rnd.list) - 1 : \A i \in 1 .. Len(rnd.list) :
            rnd.counts[rnd.list[i]] = IF Dealt(Len(rnd.list), a, k, i) THEN 1 ELSE 0

\* Shuffle: at most the positions dealt have been chosen.
FromDeck(rnd) ==
    /\ deck \in Decks(Len(deck))
    /\ rnd.same => /\ OnlyOfList(rnd)
                   /\ \A j \in 1 .. Len(rnd.list) :
                        rnd.counts[rnd.list[j]]
                            <= IF \E i \in 1 .. position : deck[i] + 1 = j THEN 1 ELSE 0

\* Weighted round robin: a current weight is how far the choices of that provider lag
\* behind its share of all, in parts of the total weight.
Lag(rnd, i) ==
    RoundTotal(rnd) * EffectiveWeight(rnd.list[i]) - rnd.counts[rnd.list[i]] * TotalWeight(rnd.list)
Balanced(rnd, w) ==
    /\ rnd.same /\ OnlyOfList(rnd)
    /\ \A i \in 1 .. Len(rnd.list) :
        /\ w[i] = Lag(rnd, i) /\ -TotalWeight(rnd.list) < w[i]
        /\ rnd.counts[rnd.list[i]] <= EffectiveWeight(rnd.list[i])
    /\ rnd.list # <<>> => \E i \in 1 .. Len(rnd.list) :
                            rnd.counts[rnd.list[i]] < EffectiveWeight(rnd.list[i])

RoundsOK ==
    /\ RouterTypes
    /\ strategy = "round_robin" /\ round.list # <<>> => Dealing(round, index % Len(round.list))
    /\ strategy = "round_robin" => round.same /\ OnlyOfList(round)
    /\ strategy = "shuffle" => FromDeck(round)
    /\ strategy = "weighted_round_robin" => lastIDs = round.list /\ Balanced(round, weights)

LEMMA RoundRobinOK ==
    ASSUME strategy = "round_robin", RoundsOK, NEW r \in Requests, NEW p, RoundRobin(r, p),
           req[r].list \in Lists, req[r].list # <<>>, strategy' = strategy
    PROVE  RoundsOK'
<1> DEFINE list == req[r].list
           n == Len(list)
           a == index % n
           rnd == RoundFor(list)
<1>1. /\ p = list[a + 1] /\ index' = (index + 1) % IndexPeriod /\ round' = Chosen(rnd, p)
      /\ UNCHANGED <<deck, position, lastLen, weights, lastIDs>>
    BY DEF RoundRobin
<1>2. /\ n \in Nat /\ n # 0 /\ \A i \in 1 .. n : list[i] \in Providers
      /\ \A i, j \in 1 .. n : list[i] = list[j] => i = j
      /\ ToSet(list) = {list[i] : i \in 1 .. n}
    BY ListIs
<1>3. n \in 1 .. Len(Listed) /\ IndexPeriod % n = 0
    <2>1. Len(list) <= Len(Listed) /\ Len(Listed) \in Nat
        BY ListLength, ListIs, Constants
    <2> HIDE DEF list
    <2>2. n \in 1 .. Len(Listed)
        BY <1>2, <2>1
    <2> HIDE DEF n
    <2> QED
        BY <2>2, Constants
<1>4. index \in 0 .. IndexPeriod - 1 /\ round \in Round
    BY DEF RoundsOK, RouterTypes
<1> HIDE DEF n
<1> DEFINE b == index' % n
<1>5. a \in 0 .. n - 1 /\ index' \in 0 .. IndexPeriod - 1 /\ b = IF a = n - 1 THEN 0 ELSE a + 1
    <2>1. IndexPeriod \in Int /\ IndexPeriod > 0 /\ n \in Int /\ n > 0
        BY <1>2, Constants
    <2> QED
        BY <1>1, <1>3, <1>4, <2>1, Counting
<1> HIDE DEF a, b
<1>6. p \in Providers
    BY <1>1, <1>2, <1>5
<1>7. /\ rnd \in Round /\ rnd.list = list /\ rnd.same /\ OnlyOfList(rnd)
      /\ \E k \in 0 .. n - 1 : \A i \in 1 .. n :
            rnd.counts[list[i]] = IF Dealt(n, a, k, i) THEN 1 ELSE 0
    <2>1. CASE round.list = list
        <3>1. rnd = round /\ Dealing(round, a)
            BY <2>1 DEF RoundFor, RoundsOK, a, n
        <3> QED
            BY <1>4, <2>1, <3>1 DEF Dealing, n
    <2>2. CASE round.list # list
        <3>1. rnd = NewRound(list)
            BY <2>2 DEF RoundFor
        <3>2. \A i \in 1 .. n : ~Dealt(n, a, 0, i)
            BY <1>2, <1>5 DEF Dealt
        <3>3. /\ rnd \in Round /\ rnd.list = list /\ rnd.same
              /\ \A x \in Providers : rnd.counts[x] = 0
            BY <3>1, NewRoundIs
        <3>4. 0 \in 0 .. n - 1
            BY <1>2
        <3> HIDE DEF list, rnd
        <3> QED
            BY <1>2, <3>2, <3>3, <3>4 DEF OnlyOfList
    <2> QED
        BY <2>1, <2>2
<1> HIDE DEF rnd, list
<1>8. /\ round' \in Round /\ (round').list = list /\ (round').same
      /\ \A x \in Providers :
            (round').counts[x] = IF Fills(rnd, p) THEN 0
                                 ELSE IF x = p THEN rnd.counts[x] + 1 ELSE rnd.counts[x]
    BY <1>1, <1>6, <1>7, ChosenIs
<1>9. PICK k \in 0 .. n - 1 : \A i \in 1 .. n :
            rnd.counts[list[i]] = IF Dealt(n, a, k, i) THEN 1 ELSE 0
    BY <1>7
<1>10. OnlyOfList(round')
    BY <1>1, <1>2, <1>5, <1>6, <1>7, <1>8 DEF OnlyOfList
<1>18. b \in 0 .. n - 1 /\ b = IF a = n - 1 THEN 0 ELSE a + 1
    BY <1>2, <1>5
<1>11. ASSUME NEW i \in 1 .. n
       PROVE  /\ Dealt(n, a, k, i) => i # a + 1
              /\ Dealt(n, b, k + 1, i) <=> Dealt(n, a, k, i) \/ i = a + 1
    <2>1. CASE a = n - 1
        BY <1>2, <1>5, <1>9, <1>18, <2>1 DEF Dealt
    <2>2. CASE a # n - 1
        BY <1>2, <1>5, <1>9, <1>18, <2>2 DEF Dealt
    <2> QED
        BY <2>1, <2>2
<1>12. ASSUME NEW i \in 1 .. n PROVE ~Dealt(n, b, 0, i)
    BY <1>2, <1>18 DEF Dealt
<1>13. ASSUME NEW i \in 1 .. n
       PROVE  (IF list[i] = p THEN rnd.counts[list[i]] + 1 ELSE rnd.counts[list[i]])
                = IF Dealt(n, b, k + 1, i) THEN 1 ELSE 0
    <2>1. list[i] = p <=> i = a + 1
        BY <1>1, <1>2, <1>5
    <2> QED
        BY <1>9, <1>11, <2>1
<1>14. \E m \in 0 .. n - 1 : \A i \in 1 .. n :
            (round').counts[list[i]] = IF Dealt(n, b, m, i) THEN 1 ELSE 0
    <2>1. CASE Fills(rnd, p)
        <3>1. 0 \in 0 .. n - 1
            BY <1>2
        <3>2. \A i \in 1 .. n : (round').counts[list[i]] = 0
            BY <1>2, <1>8, <2>1
        <3>3. \A i \in 1 .. n : (round').counts[list[i]] = IF Dealt(n, b, 0, i) THEN 1 ELSE 0
            BY <1>12, <3>2
        <3> QED
            BY <3>1, <3>3
    <2>2. CASE ~Fills(rnd, p)
        <3>1. k + 1 \in 0 .. n - 1
            <4>1. SUFFICES ASSUME k + 1 = n PROVE FALSE
                BY <1>2, <1>9
            <4>2. \A i \in 1 .. n : Dealt(n, b, k + 1, i)
                BY <1>2, <1>18, <4>1 DEF Dealt
            <4>3. \A x \in ToSet(rnd.list) :
                    (IF x = p THEN rnd.counts[x] + 1 ELSE rnd.counts[x]) = Share(x)
                <5>1. \A x : Share(x) = 1
                    BY DEF Share
                <5> QED
                    BY <1>2, <1>7, <1>13, <4>2, <5>1
            <4> QED
                BY <1>7, <2>2, <4>3 DEF Fills
        <3>2. \A i \in 1 .. n : (round').counts[list[i]] = IF Dealt(n, b, k + 1, i) THEN 1 ELSE 0
            BY <1>2, <1>8, <1>13, <2>2
        <3> QED
            BY <3>1, <3>2
    <2> QED
        BY <2>1, <2>2
<1>15. Dealing(round', b)
    BY <1>8, <1>10, <1>14 DEF Dealing, n
<1>16. Dealing(round, index % Len(round.list))'
    BY <1>8, <1>15 DEF Dealing, OnlyOfList, b, n
<1>17. RouterTypes'
    BY <1>1, <1>5, <1>8 DEF RoundsOK, RouterTypes
<1> QED
    BY <1>8, <1>10, <1>16, <1>17 DEF RoundsOK, OnlyOfList
LEMMA ShuffleOK ==
    ASSUME strategy = "shuffle", RoundsOK, NEW r \in Requests, NEW p, Shuffle(r, p),
           req[r].list \in Lists, req[r].list # <<>>, strategy' = strategy
    PROVE  RoundsOK'
<1> DEFINE list == req[r].list
           n == Len(list)
           again == deck = <<>> \/ Len(list) # lastLen \/ position >= Len(deck)
           current == IF again THEN NewRound(list)
                      ELSE [round EXCEPT !.same = @ /\ round.list = list]
           at == IF again THEN 0 ELSE position
<1>1. /\ IF again THEN deck' \in Decks(n) ELSE deck' = deck
      /\ lastLen' = IF again THEN n ELSE lastLen
      /\ p = list[deck'[at + 1] + 1] /\ position' = at + 1
      /\ round' = Chosen(current, p)
      /\ UNCHANGED <<index, weights, lastIDs>>
    BY DEF Shuffle
<1>2. /\ n \in Nat /\ n # 0 /\ \A i \in 1 .. n : list[i] \in Providers
      /\ \A i, j \in 1 .. n : list[i] = list[j] => i = j
      /\ ToSet(list) = {list[i] : i \in 1 .. n} /\ n <= Len(Listed) /\ Len(Listed) \in Nat
    BY ListIs, ListLength, Constants
<1>3. /\ RouterTypes /\ FromDeck(round) /\ round \in Round
    BY DEF RoundsOK, RouterTypes
<1>4. list \in Lists
    OBVIOUS
<1> HIDE DEF list
<1>5. /\ deck' \in Decks(n) /\ lastLen' = n /\ at \in 0 .. n - 1
    <2>1. CASE again
        BY <1>1, <1>2, <2>1
    <2>2. CASE ~again
        <3>1. Len(deck) = n /\ lastLen = n /\ position \in 0 .. n - 1
            BY <1>2, <1>3, <2>2 DEF RouterTypes
        <3> QED
            BY <1>1, <1>3, <2>2, <3>1 DEF FromDeck
    <2> QED
        BY <2>1, <2>2
<1>6. /\ current \in Round
      /\ current.same =>
            /\ current.list = list /\ OnlyOfList(current)
            /\ \A j \in 1 .. n :
                current.counts[list[j]] <= IF \E i \in 1 .. at : deck'[i] + 1 = j THEN 1 ELSE 0
    <2>1. CASE again
        <3>1. current = NewRound(list) /\ at = 0
            BY <2>1
        <3> HIDE DEF current
        <3>2. /\ current \in Round /\ current.list = list
              /\ \A x \in Providers : current.counts[x] = 0
            BY <1>4, <3>1, NewRoundIs
        <3>3. \A j \in 1 .. n : current.counts[list[j]] = 0 /\ current.counts[list[j]] <= 1
            BY <1>2, <3>2
        <3> QED
            BY <3>2, <3>3 DEF OnlyOfList
    <2>2. CASE ~again
        <3>1. current = [round EXCEPT !.same = @ /\ round.list = list] /\ at = position /\ deck' = deck
            BY <1>1, <2>2
        <3> HIDE DEF current, at
        <3>2. /\ current \in Round /\ current.list = round.list /\ current.counts = round.counts
              /\ current.same => round.same /\ round.list = list
            BY <1>3, <3>1 DEF Round
        <3> QED
            BY <1>3, <3>1, <3>2 DEF FromDeck, OnlyOfList
    <2> QED
        BY <2>1, <2>2
<1> HIDE DEF again, current, at
<1>7. /\ deck' \in [1 .. n -> 0 .. n - 1]
      /\ \A i, j \in 1 .. n : deck'[i] = deck'[j] => i = j
    BY <1>5 DEF Decks, IsInjective
<1>8. PICK m \in 1 .. n : m = deck'[at + 1] + 1
    BY <1>2, <1>5, <1>7
<1>9. p = list[m] /\ p \in Providers
    BY <1>1, <1>2, <1>8
<1>10. /\ round' \in Round /\ (round').list = current.list /\ (round').same = current.same
       /\ \A x \in Providers :
            (round').counts[x] = IF Fills(current, p) THEN 0
                                 ELSE IF x = p THEN current.counts[x] + 1 ELSE current.counts[x]
    BY <1>1, <1>6, <1>9, ChosenIs
<1>11. ASSUME (round').same
       PROVE  /\ OnlyOfList(round')
              /\ \A j \in 1 .. n :
                    (round').counts[list[j]] <= IF \E i \in 1 .. at + 1 : deck'[i] + 1 = j THEN 1 ELSE 0
    <2>1. /\ current.list = list /\ OnlyOfList(current)
          /\ \A j \in 1 .. n :
                current.counts[list[j]] <= IF \E i \in 1 .. at : deck'[i] + 1 = j THEN 1 ELSE 0
        BY <1>6, <1>10, <1>11
    <2>2. OnlyOfList(round')
        BY <1>2, <1>8, <1>9, <1>10, <2>1 DEF OnlyOfList
    <2>3. ASSUME NEW j \in 1 .. n
          PROVE  (round').counts[list[j]] <= IF \E i \in 1 .. at + 1 : deck'[i] + 1 = j THEN 1 ELSE 0
        <3>1. current.counts[list[j]] \in Nat /\ list[j] \in Providers
            BY <1>2, <1>6 DEF Round
        <3>2. at + 1 \in 1 .. at + 1 /\ \A i \in 1 .. at : i \in 1 .. at + 1 /\ i \in 1 .. n /\ i # at + 1
            BY <1>2, <1>5
        <3>3. at + 1 \in 1 .. n
            BY <1>2, <1>5
        <3>4. (\E i \in 1 .. at : deck'[i] + 1 = j) => \E i \in 1 .. at + 1 : deck'[i] + 1 = j
            BY <3>2
        <3>5. CASE j = m
            <4>1. ~\E i \in 1 .. at : deck'[i] + 1 = j
                BY <1>7, <1>8, <3>2, <3>3, <3>5
            <4>2. current.counts[list[j]] = 0
                BY <2>1, <3>1, <4>1
            <4>3. \E i \in 1 .. at + 1 : deck'[i] + 1 = j
                BY <1>8, <3>2, <3>5
            <4>4. (round').counts[list[j]] <= 1
                BY <1>9, <1>10, <3>1, <3>5, <4>2
            <4> QED
                BY <4>3, <4>4
        <3>6. CASE j # m
            <4>1. list[j] # p
                BY <1>2, <1>8, <1>9, <3>6
            <4>2. (round').counts[list[j]] <= current.counts[list[j]] /\ (round').counts[list[j]] \in Nat
                BY <1>10, <3>1, <4>1
            <4>3. CASE \E i \in 1 .. at : deck'[i] + 1 = j
                <5>1. current.counts[list[j]] <= 1
                    BY <2>1, <4>3
                <5>2. (round').counts[list[j]] <= 1
                    BY <3>1, <4>2, <5>1
                <5> QED
                    BY <3>4, <4>3, <5>2
            <4>4. CASE ~\E i \in 1 .. at : deck'[i] + 1 = j
                <5>1. current.counts[list[j]] <= 0
                    BY <2>1, <4>4
                <5>2. (round').counts[list[j]] <= 0 /\ (round').counts[list[j]] <= 1
                    BY <3>1, <4>2, <5>1
                <5> QED
                    BY <5>2
            <4> QED
                BY <4>3, <4>4
        <3> QED
            BY <3>5, <3>6
    <2> QED
        BY <2>2, <2>3
<1>12. Len(deck') = n /\ deck' \in Seq(0 .. Len(Listed) - 1)
    <2>1. deck' \in [1 .. n -> 0 .. Len(Listed) - 1]
        BY <1>2, <1>7
    <2> QED
        BY <1>2, <2>1
<1>13. FromDeck(round)'
    <2>1. ASSUME (round').same PROVE (round').list = list
        BY <1>6, <1>10, <2>1
    <2>2. (deck \in Decks(Len(deck)))'
        BY <1>5, <1>12
    <2>3. ASSUME (round').same
          PROVE  /\ OnlyOfList(round)'
                 /\ \A j \in 1 .. Len((round').list) :
                        (round').counts[(round').list[j]]
                            <= IF \E i \in 1 .. position' : deck'[i] + 1 = j THEN 1 ELSE 0
        <3>1. OnlyOfList(round)'
            BY <1>11, <2>3 DEF OnlyOfList
        <3>2. (round').list = list
            BY <2>1, <2>3
        <3>3. \A j \in 1 .. n :
                    (round').counts[list[j]] <= IF \E i \in 1 .. at + 1 : deck'[i] + 1 = j THEN 1 ELSE 0
            BY <1>11, <2>3
        <3> QED
            BY <1>1, <3>1, <3>2, <3>3
    <2> QED
        BY <2>2, <2>3 DEF FromDeck
<1>14. RouterTypes'
    BY <1>1, <1>2, <1>3, <1>5, <1>10, <1>12 DEF RouterTypes
<1> QED
    BY <1>13, <1>14 DEF RoundsOK
\* The choices of a list, one number for each provider.
LEMMA CountsAre ==
    ASSUME NEW rnd \in Round, NEW n \in Nat, n = Len(rnd.list),
           NEW C \in [1 .. n -> Int], \A i \in 1 .. n : C[i] = rnd.counts[rnd.list[i]]
    PROVE  /\ RoundTotal(rnd) = Total(C) /\ RoundTotal(rnd) \in Int
           /\ \A i \in 1 .. n : C[i] \in Nat
<1>1. PICK list \in Lists : list = rnd.list
    BY DEF Round
<1>2. DOMAIN list = 1 .. n /\ \A i \in 1 .. n : list[i] \in Providers
    BY <1>1, ListIs
<1>3. \A i \in 1 .. n : rnd.counts[list[i]] \in Nat
    BY <1>2 DEF Round
<1>4. \A i \in 1 .. n : C[i] \in Nat
    BY <1>1, <1>3
<1>5. RoundTotal(rnd) = Total(C)
    <2>1. C = [i \in 1 .. n |-> rnd.counts[rnd.list[i]]]
        OBVIOUS
    <2> QED
        BY <1>1, <1>2, <2>1 DEF RoundTotal
<1> QED
    BY <1>4, <1>5, SumsAre

LEMMA TotalWeightIs ==
    ASSUME NEW list \in Lists, list # <<>>
    PROVE  TotalWeight(list) \in Int /\ TotalWeight(list) > 0
<1> DEFINE n == Len(list)
           W == Weights(list)
           Z == [i \in 1 .. n |-> 0]
           zero == 0
           one == 1
<1>1. n \in Nat /\ n # 0 /\ \A i \in 1 .. n : list[i] \in Providers
    BY ListIs
<1>2. W \in [1 .. n -> Int] /\ \A i \in 1 .. n : W[i] >= 1
    <2>1. \A i \in 1 .. n : W[i] = EffectiveWeight(list[i]) /\ EffectiveWeight(list[i]) >= 1
        BY <1>1, WeightsAre
    <2> QED
        BY <2>1, WeightsAre
<1> HIDE DEF n, W
<1>3. Z \in [1 .. n -> Int] /\ one \in 0 .. n /\ one # 0 /\ zero \in Int /\ n * zero = 0
    BY <1>1
<1>4. \A i \in 1 .. n : Z[i] = zero /\ Z[i] <= W[i] /\ Z[i] < W[i]
    BY <1>2
<1>5. one \in 1 .. n
    BY <1>1
<1> HIDE DEF Z, zero, one
<1>6. Total(Z) = 0
    BY <1>1, <1>3, <1>4, TotalOfEqual
<1>7. Total(Z) < Total(W)
    BY <1>1, <1>2, <1>3, <1>4, <1>5, TotalAtMost
<1>8. TotalWeight(list) = Total(W) /\ TotalWeight(list) \in Int
    BY WeightsAre DEF TotalWeight, W
<1> QED
    BY <1>6, <1>7, <1>8

\* At the beginning of a round the current weights are zero.
LEMMA Fresh ==
    ASSUME NEW rnd \in Round, rnd.same, rnd.list # <<>>, NEW n \in Nat, n = Len(rnd.list),
           \A x \in Providers : rnd.counts[x] = 0, NEW w \in [1 .. n -> Int],
           \A i \in 1 .. n : w[i] = 0
    PROVE  Balanced(rnd, w)
<1> DEFINE C == [i \in 1 .. n |-> rnd.counts[rnd.list[i]]]
           zero == 0
<1>1. PICK list \in Lists : list = rnd.list /\ list # <<>>
    BY DEF Round
<1>2. n \in Nat /\ n # 0 /\ \A i \in 1 .. n : list[i] \in Providers
    BY <1>1, ListIs
<1>3. TotalWeight(list) \in Int /\ TotalWeight(list) > 0
    BY <1>1, TotalWeightIs
<1>4. C \in [1 .. n -> Int] /\ RoundTotal(rnd) = Total(C) /\ \A i \in 1 .. n : C[i] = zero
    <2>1. \A i \in 1 .. n : C[i] = zero /\ C[i] = rnd.counts[rnd.list[i]]
        BY <1>1, <1>2
    <2>2. C \in [1 .. n -> Int]
        BY <1>1, <1>2
    <2> HIDE DEF C
    <2> QED
        BY <2>1, <2>2, CountsAre
<1>5. zero \in Int /\ n * zero = 0
    BY <1>2
<1> HIDE DEF C, zero
<1>6. RoundTotal(rnd) = 0
    BY <1>2, <1>4, <1>5, TotalOfEqual
<1>7. \A i \in 1 .. n : EffectiveWeight(list[i]) \in Int /\ EffectiveWeight(list[i]) >= 1
    BY <1>2, WeightsAre
<1>8. ASSUME NEW i \in 1 .. n
      PROVE  /\ w[i] = Lag(rnd, i) /\ -TotalWeight(list) < w[i]
             /\ rnd.counts[list[i]] < EffectiveWeight(list[i])
    <2>1. rnd.counts[list[i]] = 0
        BY <1>2
    <2>2. PICK e \in Int, t \in Int : e = EffectiveWeight(list[i]) /\ e >= 1
                                      /\ t = TotalWeight(list) /\ t > 0
        BY <1>3, <1>7
    <2>3. Lag(rnd, i) = 0 * e - 0 * t
        BY <1>1, <1>6, <2>1, <2>2 DEF Lag
    <2>4. 0 * e - 0 * t = 0 /\ -t < 0
        BY <2>2
    <2> QED
        BY <2>1, <2>2, <2>3, <2>4
<1>9. 1 \in 1 .. n
    BY <1>2
<1>10. \A i \in 1 .. n : rnd.counts[list[i]] <= EffectiveWeight(list[i])
    BY <1>2, <1>7
<1>11. OnlyOfList(rnd)
    BY DEF OnlyOfList
<1> QED
    BY <1>1, <1>8, <1>9, <1>10, <1>11 DEF Balanced

\* The highest of the raised weights is positive, and its provider has choices left.
LEMMA Left ==
    ASSUME NEW T \in Int, NEW N \in Int, NEW w \in Int, NEW c \in Int,
           T > 0, N < T, w >= 1, (N + 1) * w - T * c > 0
    PROVE  c < w
<1>1. (T - (N + 1)) * w >= 0
    BY SMT
<1>2. T * w - (N + 1) * w >= 0
    BY <1>1
<1>3. T * w - T * c > 0
    BY <1>2
<1>4. PICK d \in Int : d = w - c
    OBVIOUS
<1>5. T * d > 0
    BY <1>3, <1>4
<1>6. d > 0
    <2>1. CASE d <= 0
        <3>1. T * d <= 0
            BY <2>1
        <3> QED
            BY <1>5, <3>1
    <2> QED
        BY <2>1
<1> QED
    BY <1>4, <1>6
\* All the weights raised add up to their total.
LEMMA RaisedTotal ==
    ASSUME NEW n, NEW W, NEW C, NEW R, NEW T \in Int, NEW N \in Int, NEW M,
           Combined(R, W, C, M, T, n), T = Total(W), N = Total(C), M = N + 1
    PROVE  Total(R) = T
<1>1. Difference(Total(R), Total(W), Total(C), M, T)
    BY TotalLinear
<1>2. Total(R) = M * T - T * N
    BY <1>1 DEF Difference
<1>3. M * T - T * N = T
    <2>1. (N + 1) * T - T * N = T
        OBVIOUS
    <2> QED
        BY <2>1
<1> QED
    BY <1>2, <1>3

\* A step of weighted round robin, in numbers: all the weights rise, the highest falls.
Raises(rnd, list, n, kept, R, b, w, t) ==
    /\ rnd \in Round /\ rnd.list = list /\ Balanced(rnd, kept) /\ t = Chosen(rnd, list[b])
    /\ list \in Lists /\ list # <<>> /\ n = Len(list)
    /\ kept \in [1 .. n -> Int] /\ R \in [1 .. n -> Int] /\ w \in [1 .. n -> Int]
    /\ \A i \in 1 .. n : R[i] = kept[i] + EffectiveWeight(list[i])
    /\ b \in 1 .. n /\ \A i \in 1 .. n : R[i] <= R[b]
    /\ w[b] = R[b] - TotalWeight(list) /\ \A i \in 1 .. n : i # b => w[i] = R[i]

LEMMA Balancing ==
    ASSUME strategy = "weighted_round_robin", NEW rnd, NEW list, NEW n, NEW kept, NEW R, NEW b,
           NEW w, NEW t, Raises(rnd, list, n, kept, R, b, w, t)
    PROVE  t \in Round /\ t.list = list /\ Balanced(t, w)
<1> DEFINE W == Weights(list)
           C == [i \in 1 .. n |-> rnd.counts[rnd.list[i]]]
           T == TotalWeight(list)
           N == RoundTotal(rnd)
           D == [i \in 1 .. n |-> IF i = b THEN C[i] + 1 ELSE C[i]]
           p == list[b]
<1>0. /\ rnd \in Round /\ rnd.list = list
      /\ list \in Lists /\ list # <<>> /\ n = Len(list) /\ b \in 1 .. n
      /\ kept \in [1 .. n -> Int] /\ R \in [1 .. n -> Int] /\ w \in [1 .. n -> Int]
    BY DEF Raises
<1>22. list \in Lists /\ list # <<>> /\ n = Len(list)
    BY <1>0
<1>23. rnd \in Round /\ rnd.list = list /\ n = Len(rnd.list)
    BY <1>0
<1>24. R \in [1 .. n -> Int] /\ w \in [1 .. n -> Int] /\ kept \in [1 .. n -> Int] /\ b \in 1 .. n
    BY <1>0
<1>1. /\ n \in Nat /\ n # 0 /\ \A i \in 1 .. n : list[i] \in Providers
      /\ \A i, j \in 1 .. n : list[i] = list[j] => i = j
      /\ ToSet(list) = {list[i] : i \in 1 .. n}
    BY <1>22, ListIs
<1>2. /\ W \in [1 .. n -> Int] /\ T = Total(W)
      /\ \A i \in 1 .. n : W[i] = EffectiveWeight(list[i]) /\ W[i] >= 1
    <2>1. \A i \in 1 .. n : W[i] = EffectiveWeight(list[i]) /\ EffectiveWeight(list[i]) >= 1
        BY <1>0, <1>1, WeightsAre
    <2> QED
        BY <1>0, <2>1, WeightsAre DEF TotalWeight
<1>3. T \in Int /\ T > 0
    BY <1>0, TotalWeightIs
<1>4. C \in [1 .. n -> Int] /\ \A i \in 1 .. n : C[i] = rnd.counts[rnd.list[i]]
    <2>1. \A i \in 1 .. n : rnd.counts[rnd.list[i]] \in Int
        BY <1>0, <1>1 DEF Round
    <2> QED
        BY <2>1
<1> HIDE DEF C
<1>5. /\ C \in [1 .. n -> Int] /\ N = Total(C) /\ N \in Int
      /\ \A i \in 1 .. n : C[i] = rnd.counts[list[i]] /\ C[i] \in Nat
    <2>1. /\ RoundTotal(rnd) = Total(C) /\ RoundTotal(rnd) \in Int
          /\ \A i \in 1 .. n : C[i] \in Nat
        BY <1>1, <1>4, <1>23, CountsAre
    <2> QED
        BY <1>4, <1>23, <2>1
<1>6. /\ rnd.same /\ OnlyOfList(rnd)
      /\ \A i \in 1 .. n : /\ kept[i] = N * W[i] - C[i] * T /\ -T < kept[i]
                           /\ C[i] <= W[i]
      /\ \E i \in 1 .. n : C[i] < W[i]
    <2>1. Balanced(rnd, kept)
        BY DEF Raises
    <2> QED
        BY <1>2, <1>5, <1>22, <1>23, <2>1 DEF Balanced, Lag
<1> HIDE DEF W, T, N
<1>21. /\ \A i \in 1 .. n : R[i] = kept[i] + W[i] /\ R[i] <= R[b]
       /\ w[b] = R[b] - T /\ \A i \in 1 .. n : i # b => w[i] = R[i]
    BY <1>2 DEF Raises, T
<1>7. N < T
    <2>1. PICK i \in 1 .. n : C[i] < W[i]
        BY <1>6
    <2>2. i \in 0 .. n /\ i # 0
        OBVIOUS
    <2> QED
        BY <1>1, <1>2, <1>5, <1>6, <2>1, <2>2, TotalAtMost
<1>8. \A i \in 1 .. n : R[i] = (N + 1) * W[i] - T * C[i]
    <2>1. ASSUME NEW i \in 1 .. n PROVE R[i] = (N + 1) * W[i] - T * C[i]
        <3>1. R[i] = (N * W[i] - C[i] * T) + W[i]
            BY <1>6, <1>21
        <3>2. PICK x \in Int, c \in Int : x = W[i] /\ c = C[i]
            BY <1>2, <1>5
        <3>3. (N * x - c * T) + x = (N + 1) * x - T * c
            BY <1>3, <1>5
        <3> QED
            BY <3>1, <3>2, <3>3
    <2> QED
        BY <2>1
<1>9. Total(R) = T
    <2>1. PICK M \in Int : M = N + 1
        BY <1>5
    <2>2. \A i \in 1 .. n : R[i] = M * W[i] - T * C[i]
        BY <1>8, <2>1
    <2>3. Combined(R, W, C, M, T, n)
        BY <1>1, <1>2, <1>3, <1>5, <1>24, <2>1, <2>2 DEF Combined
    <2>4. T \in Int /\ N \in Int /\ T = Total(W) /\ N = Total(C)
        BY <1>2, <1>3, <1>5
    <2> QED
        BY <2>1, <2>3, <2>4, RaisedTotal
<1>10. R[b] > 0
    <2>1. PICK i \in 1 .. n : R[i] > 0
        BY <1>0, <1>1, <1>3, <1>9, TotalPositive
    <2>2. R[i] <= R[b] /\ R[i] \in Int /\ R[b] \in Int
        BY <1>0, <1>21
    <2> QED
        BY <2>1, <2>2
<1>11. C[b] < W[b]
    <2>1. W[b] \in Int /\ C[b] \in Int /\ W[b] >= 1 /\ (N + 1) * W[b] - T * C[b] > 0
        BY <1>0, <1>2, <1>5, <1>8, <1>10
    <2> QED
        BY <1>3, <1>5, <1>7, <2>1, Left
<1>12. p \in Providers
    BY <1>0, <1>1
<1>13. /\ t \in Round /\ t.list = list /\ t.same
       /\ \A x \in Providers :
            t.counts[x] = IF Fills(rnd, p) THEN 0
                          ELSE IF x = p THEN rnd.counts[x] + 1 ELSE rnd.counts[x]
    <2>1. t = Chosen(rnd, p)
        BY DEF Raises
    <2> HIDE DEF p
    <2> QED
        BY <1>0, <1>6, <1>12, <2>1, ChosenIs
<1>14. /\ D \in [1 .. n -> Int] /\ D[b] = C[b] + 1 /\ \A i \in 1 .. n : i # b => D[i] = C[i]
       /\ \A i \in 1 .. n : D[i] \in Nat /\ D[i] <= W[i]
       /\ \A i \in 1 .. n : D[i] = IF list[i] = p THEN rnd.counts[list[i]] + 1 ELSE rnd.counts[list[i]]
    <2>1. D \in [1 .. n -> Int] /\ D[b] = C[b] + 1 /\ \A i \in 1 .. n : i # b => D[i] = C[i]
        BY <1>0, <1>5
    <2>2. \A i \in 1 .. n : list[i] = p <=> i = b
        BY <1>0, <1>1
    <2> HIDE DEF D, p
    <2> QED
        <3>1. ASSUME NEW i \in 1 .. n
              PROVE  /\ D[i] \in Nat /\ D[i] <= W[i]
                     /\ D[i] = IF list[i] = p THEN rnd.counts[list[i]] + 1 ELSE rnd.counts[list[i]]
            <4>1. W[i] \in Int /\ C[i] \in Nat /\ C[i] <= W[i] /\ C[i] = rnd.counts[list[i]]
                BY <1>2, <1>5, <1>6
            <4>2. CASE i = b
                BY <1>11, <2>1, <2>2, <4>1, <4>2
            <4>3. CASE i # b
                BY <2>1, <2>2, <4>1, <4>3
            <4> QED
                BY <4>2, <4>3
        <3> QED
            BY <2>1, <3>1
<1> HIDE DEF D, p
<1>15. Total(D) = N + 1
    <2>1. PICK one \in Int : one = 1
        OBVIOUS
    <2>2. D[b] = C[b] + one
        BY <1>14, <2>1
    <2>3. Total(D) = Total(C) + one
        <3>1. n \in Nat /\ D \in [1 .. n -> Int] /\ C \in [1 .. n -> Int] /\ b \in 1 .. n
            BY <1>1, <1>5, <1>14, <1>24
        <3>2. \A i \in 1 .. n : i # b => D[i] = C[i]
            BY <1>14
        <3>3. Changed(C, D, b, one, n)
            BY <2>1, <2>2, <3>1, <3>2 DEF Changed
        <3> QED
            BY <3>3, TotalChanges
    <2> QED
        BY <1>5, <2>1, <2>3
<1>16. \A i \in 1 .. n : w[i] = (N + 1) * W[i] - D[i] * T /\ -T < w[i]
    <2>1. ASSUME NEW i \in 1 .. n PROVE w[i] = (N + 1) * W[i] - D[i] * T /\ -T < w[i]
        <3>1. PICK x \in Int, c \in Int, M \in Int : x = W[i] /\ c = C[i] /\ M = N + 1
            BY <1>2, <1>5
        <3>2. R[i] = M * x - T * c
            BY <1>8, <3>1
        <3>3. CASE i = b
            <4>1. w[i] = (M * x - T * c) - T /\ D[i] = c + 1
                BY <1>14, <1>21, <3>1, <3>2, <3>3
            <4>2. (M * x - T * c) - T = M * x - (c + 1) * T
                BY <1>3
            <4>3. -T < w[i]
                BY <1>0, <1>3, <1>10, <1>21, <3>3
            <4> QED
                BY <3>1, <4>1, <4>2, <4>3
        <3>4. CASE i # b
            <4>1. w[i] = R[i] /\ D[i] = c
                BY <1>14, <1>21, <3>1, <3>4
            <4>2. M * x - T * c = M * x - c * T
                BY <1>3
            <4>3. -T < w[i]
                <5>1. -T < kept[i] /\ W[i] >= 1 /\ R[i] = kept[i] + W[i]
                    BY <1>2, <1>6, <1>21
                <5>2. kept[i] \in Int /\ W[i] \in Int
                    BY <1>2, <1>24
                <5> QED
                    BY <1>3, <4>1, <5>1, <5>2
            <4> QED
                BY <3>1, <3>2, <4>1, <4>2, <4>3
        <3> QED
            BY <3>3, <3>4
    <2> QED
        BY <2>1
<1>17. OnlyOfList(t)
    <2>1. p \in ToSet(list)
        BY <1>0, <1>1 DEF p
    <2> QED
        <3>1. \A x \in Providers : x \notin ToSet(list) => x # p /\ rnd.counts[x] = 0
            BY <1>6, <1>23, <2>1 DEF OnlyOfList
        <3> QED
            BY <1>13, <3>1 DEF OnlyOfList
<1>18. Fills(rnd, p) <=> \A i \in 1 .. n : D[i] = W[i]
    <2>1. \A x : Share(x) = EffectiveWeight(x)
        BY DEF Share
    <2> QED
        BY <1>0, <1>1, <1>2, <1>6, <1>14, <2>1 DEF Fills
<1>19. CASE Fills(rnd, p)
    <2>1. Total(D) = T
        <3>1. D = W
            <4>1. \A i \in 1 .. n : D[i] = W[i]
                BY <1>18, <1>19
            <4>2. D \in [1 .. n -> Int] /\ W \in [1 .. n -> Int]
                BY <1>2, <1>14
            <4>3. D = [i \in 1 .. n |-> D[i]] /\ W = [i \in 1 .. n |-> W[i]]
                BY <4>2
            <4>4. [i \in 1 .. n |-> D[i]] = [i \in 1 .. n |-> W[i]]
                BY <4>1
            <4> QED
                BY <4>3, <4>4
        <3> QED
            BY <1>2, <3>1
    <2>2. ASSUME NEW i \in 1 .. n PROVE w[i] = 0
        <3>1. PICK x \in Int : x = W[i] /\ x = D[i]
            BY <1>2, <1>14, <1>18, <1>19
        <3>2. w[i] = T * x - x * T
            BY <1>15, <1>16, <2>1, <3>1
        <3>3. T * x - x * T = 0
            BY <1>3
        <3> QED
            BY <3>2, <3>3
    <2>3. \A x \in Providers : t.counts[x] = 0
        BY <1>13, <1>19
    <2> QED
        BY <1>0, <1>1, <1>13, <2>2, <2>3, Fresh
<1>20. CASE ~Fills(rnd, p)
    <2>1. \A i \in 1 .. n : t.counts[list[i]] = D[i]
        BY <1>1, <1>13, <1>14, <1>20
    <2>2. RoundTotal(t) = N + 1
        <3>1. \A i \in 1 .. n : D[i] = t.counts[t.list[i]]
            BY <1>13, <2>1
        <3>2. n = Len(t.list)
            BY <1>0, <1>13
        <3> QED
            BY <1>1, <1>13, <1>14, <1>15, <3>1, <3>2, CountsAre
    <2>3. ASSUME NEW i \in 1 .. n
          PROVE  w[i] = Lag(t, i) /\ -T < w[i] /\ t.counts[list[i]] <= EffectiveWeight(list[i])
        <3>1. Lag(t, i) = (N + 1) * W[i] - D[i] * T
            BY <1>2, <1>13, <2>1, <2>2 DEF Lag, T
        <3> QED
            BY <1>2, <1>14, <1>16, <2>1, <3>1
    <2>4. \E i \in 1 .. n : t.counts[list[i]] < EffectiveWeight(list[i])
        <3>1. PICK i \in 1 .. n : D[i] # W[i]
            BY <1>18, <1>20
        <3>2. D[i] < W[i]
            BY <1>2, <1>14, <3>1
        <3> QED
            BY <1>2, <2>1, <3>2
    <2> QED
        BY <1>0, <1>13, <1>17, <2>3, <2>4 DEF Balanced, T
<1> QED
    BY <1>13, <1>19, <1>20

LEMMA WeightedRoundRobinOK ==
    ASSUME strategy = "weighted_round_robin", RoundsOK, NEW r \in Requests, NEW p,
           WeightedRoundRobin(r, p), req[r].list \in Lists, req[r].list # <<>>, strategy' = strategy
    PROVE  RoundsOK'
<1> DEFINE list == req[r].list
           n == Len(list)
           kept == IF lastIDs = list THEN weights ELSE [i \in DOMAIN list |-> 0]
           raised == [i \in DOMAIN list |-> kept[i] + EffectiveWeight(list[i])]
           best == CHOOSE i \in DOMAIN list :
                     /\ \A j \in DOMAIN list : raised[j] <= raised[i]
                     /\ \A j \in 1..i - 1 : raised[j] < raised[i]
           rnd == IF lastIDs = list THEN round ELSE NewRound(list)
<1>1. /\ p = list[best]
      /\ weights' = [raised EXCEPT ![best] = @ - TotalWeight(list)]
      /\ lastIDs' = list
      /\ round' = Chosen(rnd, p)
      /\ UNCHANGED <<deck, position, lastLen, index>>
    BY DEF WeightedRoundRobin
<1>2. /\ n \in Nat /\ n # 0 /\ DOMAIN list = 1 .. n
      /\ \A i \in 1 .. n : list[i] \in Providers
    BY ListIs
<1>3. list \in Lists /\ list # <<>>
    OBVIOUS
<1>4. /\ RouterTypes /\ round \in Round /\ lastIDs = round.list /\ Balanced(round, weights)
    BY DEF RoundsOK, RouterTypes
<1>5. TotalWeight(list) \in Int
    BY <1>3, WeightsAre
<1> HIDE DEF list
<1>6. /\ kept \in [1 .. n -> Int] /\ rnd \in Round /\ rnd.list = list /\ Balanced(rnd, kept)
    <2>1. CASE lastIDs = list
        <3>1. kept = weights /\ rnd = round
            BY <2>1
        <3>2. weights \in [1 .. n -> Int]
            BY <1>4, <2>1 DEF RouterTypes
        <3> QED
            BY <1>4, <2>1, <3>1, <3>2
    <2>2. CASE lastIDs # list
        <3>1. kept = [i \in 1 .. n |-> 0] /\ rnd = NewRound(list)
            BY <1>2, <2>2
        <3> HIDE DEF rnd, kept
        <3>2. /\ rnd \in Round /\ rnd.list = list /\ rnd.same
              /\ \A x \in Providers : rnd.counts[x] = 0
            BY <1>3, <3>1, NewRoundIs
        <3>3. kept \in [1 .. n -> Int] /\ \A i \in 1 .. n : kept[i] = 0
            BY <3>1
        <3> QED
            BY <1>2, <1>3, <3>2, <3>3, Fresh
    <2> QED
        BY <2>1, <2>2
<1> HIDE DEF rnd, kept, n
<1>7. /\ raised \in [1 .. n -> Int]
      /\ \A i \in 1 .. n : raised[i] = kept[i] + EffectiveWeight(list[i])
    <2>1. \A i \in 1 .. n : EffectiveWeight(list[i]) \in Int
        BY <1>2, <1>3, WeightsAre
    <2> QED
        BY <1>2, <1>6, <2>1
<1> HIDE DEF raised
<1>8. best \in 1 .. n /\ \A j \in 1 .. n : raised[j] <= raised[best]
    <2>1. \E i \in 1 .. n : /\ \A j \in 1 .. n : raised[j] <= raised[i]
                            /\ \A j \in 1 .. i - 1 : raised[j] < raised[i]
        BY <1>2, <1>7, Highest
    <2> QED
        BY <1>2, <2>1
<1> HIDE DEF best
<1>9. /\ weights' \in [1 .. n -> Int] /\ weights'[best] = raised[best] - TotalWeight(list)
      /\ \A i \in 1 .. n : i # best => weights'[i] = raised[i]
    BY <1>1, <1>5, <1>7, <1>8
<1>10. PICK w \in [1 .. n -> Int] : w = weights'
    BY <1>9
<1>11. PICK t : t = round'
    OBVIOUS
<1>12. t = Chosen(rnd, list[best])
    BY <1>1, <1>11
<1>13. n = Len(list)
    BY DEF n
<1>18. Raises(rnd, list, n, kept, raised, best, w, t)
    BY <1>3, <1>6, <1>7, <1>8, <1>9, <1>10, <1>12, <1>13 DEF Raises
<1>14. t \in Round /\ t.list = list /\ Balanced(t, w)
    BY <1>18, Balancing
<1>15. Balanced(round, weights)'
    BY <1>10, <1>11, <1>14 DEF Balanced, Lag, RoundTotal, OnlyOfList
<1>16. weights' \in Seq(Int) /\ Len(weights') = n
    BY <1>2, <1>9
<1>17. RouterTypes'
    BY <1>1, <1>3, <1>4, <1>11, <1>13, <1>14, <1>16 DEF RouterTypes
<1> QED
    BY <1>1, <1>11, <1>14, <1>15, <1>17 DEF RoundsOK

--------------------------------------------------------------------------------
(* The inductive invariant, and what it says of each property. *)

IInv == SharedTypes /\ RequestsOK /\ result \in Result /\ RoundsOK

\* Every request is idle and nothing has been chosen.
LEMMA InitOK == Init => IInv
<1> SUFFICES ASSUME Init PROVE IInv
    OBVIOUS
<1>1. /\ strategy \in Used /\ healthy = Providers /\ deck = <<>> /\ position = 0 /\ lastLen = 0
      /\ index = 0 /\ weights = <<>> /\ lastIDs = <<>>
      /\ req = [r \in Requests |-> NoRequest] /\ result = NoResult /\ round = NewRound(<<>>)
    BY DEF Init
<1>2. <<>> \in Lists
    BY EmptyList
<1>3. /\ round \in Round /\ round.list = <<>> /\ round.same
      /\ \A x \in Providers : round.counts[x] = 0
    BY <1>1, <1>2, NewRoundIs
<1>4. RequestsOK
    BY <1>1, NoRequestOK DEF RequestsOK, RequestOK
<1>5. RouterTypes
    <2>1. IndexPeriod \in Nat /\ IndexPeriod # 0
        BY Constants
    <2>2. 0 \in 0 .. IndexPeriod - 1
        BY <2>1
    <2>3. deck \in Seq(0 .. Len(Listed) - 1) /\ position \in 0 .. Len(deck) /\ lastLen = Len(deck)
        BY <1>1
    <2>4. weights \in Seq(Int) /\ lastIDs \in Lists /\ Len(weights) = Len(lastIDs)
        BY <1>1, <1>2
    <2> QED
        BY <1>1, <1>3, <2>2, <2>3, <2>4 DEF RouterTypes
<1>6. OnlyOfList(round)
    BY <1>3 DEF OnlyOfList
<1>7. Len(round.list) = 0 /\ \A j \in 1 .. Len(round.list) : FALSE
    BY <1>3
<1>8. FromDeck(round)
    <2>1. deck \in Decks(Len(deck))
        <3>1. Len(deck) = 0 /\ \A i \in 1 .. Len(deck) : FALSE
            BY <1>1
        <3>2. deck \in [1 .. 0 -> 0 .. 0 - 1] /\ IsInjective(deck)
            BY <1>1 DEF IsInjective
        <3> QED
            BY <3>1, <3>2 DEF Decks
    <2> QED
        BY <1>6, <1>7, <2>1 DEF FromDeck
<1>9. Balanced(round, weights)
    BY <1>3, <1>6, <1>7 DEF Balanced
<1>10. result \in Result
    BY <1>1 DEF NoResult, Result, Outcomes
<1>11. SharedTypes
    BY <1>1 DEF SharedTypes
<1> QED
    BY <1>1, <1>3, <1>4, <1>5, <1>6, <1>8, <1>9, <1>10, <1>11 DEF IInv, RoundsOK

\* What a step does not touch stays as it was.
LEMMA RoundsKept ==
    ASSUME RoundsOK, UNCHANGED routerVars, strategy' = strategy
    PROVE  RoundsOK'
BY DEF RoundsOK, routerVars, RouterTypes, Dealing, OnlyOfList, FromDeck, Balanced, Lag,
       RoundTotal

\* A choice keeps the history in step with the strategy's state.
LEMMA PickRounds ==
    ASSUME SharedTypes, RequestsOK, RoundsOK, NEW r \in Requests, Pick(r)
    PROVE  RoundsOK'
<1>1. PICK p \in ToSet(req[r].list) :
        \/ strategy = "round_robin" /\ RoundRobin(r, p)
        \/ strategy = "shuffle" /\ Shuffle(r, p)
        \/ strategy = "weighted_round_robin" /\ WeightedRoundRobin(r, p)
        \/ Stateless(r, p)
    BY DEF Pick
<1>2. req[r].pc = "pick" /\ strategy' = strategy
    BY DEF Pick
<1>3. req[r].list \in Lists /\ req[r].list # <<>>
    BY <1>2 DEF RequestsOK, RequestOK, Chooses
<1>4. CASE strategy = "round_robin" /\ RoundRobin(r, p)
    BY <1>2, <1>3, <1>4, RoundRobinOK
<1>5. CASE strategy = "shuffle" /\ Shuffle(r, p)
    BY <1>2, <1>3, <1>5, ShuffleOK
<1>6. CASE strategy = "weighted_round_robin" /\ WeightedRoundRobin(r, p)
    BY <1>2, <1>3, <1>6, WeightedRoundRobinOK
<1>7. CASE Stateless(r, p)
    <2>1. UNCHANGED routerVars
        BY <1>7 DEF Stateless
    <2> QED
        BY <1>2, <2>1, RoundsKept
<1> QED
    BY <1>1, <1>4, <1>5, <1>6, <1>7

LEMMA Step == IInv /\ [Next]_vars => IInv'
<1> SUFFICES ASSUME IInv, [Next]_vars PROVE IInv'
    OBVIOUS
<1>1. SharedTypes /\ RequestsOK /\ result \in Result /\ RoundsOK
    BY DEF IInv
<1>2. ASSUME NEW r \in Requests, Arrive(r) PROVE IInv'
    <2>1. UNCHANGED <<strategy, healthy>> /\ UNCHANGED routerVars
        BY <1>2 DEF Arrive
    <2> QED
        BY <1>1, <1>2, <2>1, ArriveOK, RoundsKept DEF IInv, SharedTypes
<1>3. ASSUME NEW r \in Requests, Affinity(r) PROVE IInv'
    <2>1. UNCHANGED <<strategy, healthy>> /\ UNCHANGED routerVars
        BY <1>3 DEF Affinity
    <2> QED
        BY <1>1, <1>3, <2>1, AffinityOK, RoundsKept DEF IInv, SharedTypes
<1>4. ASSUME NEW r \in Requests, Filter(r) PROVE IInv'
    <2>1. UNCHANGED <<strategy, healthy>> /\ UNCHANGED routerVars
        BY <1>4 DEF Filter
    <2> QED
        BY <1>1, <1>4, <2>1, FilterOK, RoundsKept DEF IInv, SharedTypes
<1>5. ASSUME NEW r \in Requests, Pick(r) PROVE IInv'
    <2>1. UNCHANGED <<strategy, healthy>>
        BY <1>5 DEF Pick
    <2> QED
        BY <1>1, <1>5, <2>1, PickOK, PickRounds DEF IInv, SharedTypes
<1>6. ASSUME NEW r \in Requests, TryNext(r) PROVE IInv'
    <2>1. UNCHANGED <<strategy, healthy>> /\ UNCHANGED routerVars
        BY <1>6 DEF TryNext
    <2> QED
        BY <1>1, <1>6, <2>1, TryNextOK, RoundsKept DEF IInv, SharedTypes
<1>7. ASSUME NEW r \in Requests, RaceResult(r) PROVE IInv'
    <2>1. UNCHANGED <<strategy, healthy>> /\ UNCHANGED routerVars
        BY <1>7 DEF RaceResult
    <2> QED
        BY <1>1, <1>7, <2>1, RaceResultOK, RoundsKept DEF IInv, SharedTypes
<1>8. CASE HealthChanges
    <2>1. strategy' = strategy /\ UNCHANGED routerVars
        BY <1>8 DEF HealthChanges
    <2> QED
        BY <1>1, <1>8, <2>1, HealthChangesOK, RoundsKept DEF IInv, SharedTypes
<1>9. CASE UNCHANGED vars
    <2>1. UNCHANGED <<strategy, healthy, req, result>> /\ UNCHANGED routerVars
        BY <1>9 DEF vars
    <2>2. RequestsOK'
        <3>1. ASSUME NEW q \in Requests PROVE RequestOK(req[q])'
            <4>1. RequestOK(req'[q])
                BY <1>1, <2>1 DEF RequestsOK
            <4> QED
                BY <2>1, <4>1 DEF RequestOK, Narrowed, Chooses, Tries, Different, Attempted
        <3> QED
            BY <1>1, <2>1, <3>1 DEF RequestsOK
    <2> QED
        BY <1>1, <2>1, <2>2, RoundsKept DEF IInv, SharedTypes
<1> QED
    BY <1>2, <1>3, <1>4, <1>5, <1>6, <1>7, <1>8, <1>9 DEF Next

\* The inductive invariant holds in every reachable state.
THEOREM StrategiesInvariant == Spec => []IInv
<1> QED
    BY InitOK, Step, PTL DEF Spec

\* The state keeps its types: the deck is one of positions, as many as lastLen says, and
\* the current weights are those of the providers remembered (shuffle.go,
\* weighted_round_robin.go).
THEOREM StrategiesTypeCorrect == Spec => []TypeOK
<1>1. IInv => TypeOK
    BY DEF IInv, SharedTypes, RequestsOK, RoundsOK, RouterTypes, TypeOK
<1> QED
    BY <1>1, StrategiesInvariant, PTL

LEMMA Fair == IInv => FairRounds
<1> SUFFICES ASSUME IInv, strategy \in Stateful, round.same, NEW p \in Providers
             PROVE  round.counts[p] <= Share(p)
    BY DEF FairRounds
<1>1. /\ RoundsOK /\ round \in Round /\ round.counts[p] \in Nat
    BY DEF IInv, RoundsOK, RouterTypes, Round
<1>2. PICK list \in Lists : list = round.list
    BY <1>1 DEF Round
<1>3. /\ Len(list) \in Nat /\ ToSet(list) = {list[i] : i \in 1 .. Len(list)}
      /\ list = <<>> <=> ToSet(list) = {}
    BY <1>2, ListIs
<1>4. EffectiveWeight(p) \in Int /\ EffectiveWeight(p) >= 1
    BY <1>2, WeightsAre
<1>5. Share(p) \in Int /\ Share(p) >= 1
    BY <1>4 DEF Share
<1>6. CASE p \notin ToSet(list)
    <2>1. OnlyOfList(round)
        <3>1. CASE strategy = "round_robin"
            BY <1>1, <3>1 DEF RoundsOK
        <3>2. CASE strategy = "shuffle"
            BY <1>1, <3>2 DEF RoundsOK, FromDeck
        <3>3. CASE strategy = "weighted_round_robin"
            BY <1>1, <3>3 DEF RoundsOK, Balanced
        <3> QED
            BY <3>1, <3>2, <3>3 DEF Stateful
    <2>2. round.counts[p] = 0
        BY <1>2, <1>6, <2>1 DEF OnlyOfList
    <2> QED
        BY <1>5, <2>2
<1>7. CASE p \in ToSet(list)
    <2>1. PICK i \in 1 .. Len(list) : p = list[i]
        BY <1>3, <1>7
    <2>2. CASE strategy = "round_robin"
        <3>1. Dealing(round, index % Len(round.list))
            BY <1>1, <1>2, <1>3, <1>7, <2>2 DEF RoundsOK
        <3>2. round.counts[p] = 0 \/ round.counts[p] = 1
            BY <1>2, <2>1, <3>1 DEF Dealing
        <3> QED
            BY <1>5, <3>2
    <2>3. CASE strategy = "shuffle"
        <3>1. round.counts[list[i]] <= IF \E j \in 1 .. position : deck[j] + 1 = i THEN 1 ELSE 0
            BY <1>1, <1>2, <2>3 DEF RoundsOK, FromDeck
        <3>2. round.counts[p] <= 1
            BY <1>1, <2>1, <3>1
        <3> QED
            BY <1>1, <1>5, <3>2
    <2>4. CASE strategy = "weighted_round_robin"
        <3>1. round.counts[list[i]] <= EffectiveWeight(list[i])
            BY <1>1, <1>2, <2>4 DEF RoundsOK, Balanced
        <3> QED
            BY <2>1, <2>4, <3>1 DEF Share
    <2> QED
        BY <2>2, <2>3, <2>4 DEF Stateful
<1> QED
    BY <1>6, <1>7

\* While the list of the healthy providers stays the same, every provider gets its share
\* before any gets more, under round robin, shuffle and weighted round robin, for every
\* list of providers and all weights, whatever requests interleave (round_robin.go,
\* shuffle.go, weighted_round_robin.go).
THEOREM FairRoundsHolds == Spec => []FairRounds
<1> QED
    BY Fair, StrategiesInvariant, PTL

EqualBut(u, least, i, d, n) ==
    /\ n \in Nat /\ i \in 1 .. n /\ least \in Int /\ d \in Int /\ u \in [1 .. n -> Int]
    /\ u[i] = least + d /\ \A j \in 1 .. n : j # i => u[j] = least

LEMMA AllButOne ==
    ASSUME NEW n, NEW u, NEW least, NEW d, NEW i, EqualBut(u, least, i, d, n)
    PROVE  Total(u) = n * least + d
<1>7. /\ n \in Nat /\ i \in 1 .. n /\ least \in Int /\ d \in Int /\ u \in [1 .. n -> Int]
      /\ u[i] = least + d /\ \A j \in 1 .. n : j # i => u[j] = least
    BY DEF EqualBut
<1> DEFINE v == [j \in 1 .. n |-> least]
<1>1. v \in [1 .. n -> Int] /\ \A j \in 1 .. n : v[j] = least
    BY <1>7
<1> HIDE DEF v
<1>2. u[i] = v[i] + d /\ \A j \in 1 .. n : j # i => u[j] = v[j]
    BY <1>1, <1>7
<1>3. Total(v) = n * least
    BY <1>1, <1>7, TotalOfEqual
<1>4. v \in [1 .. n -> Int]
    BY <1>1
<1>6. Changed(v, u, i, d, n)
    BY <1>2, <1>4, <1>7 DEF Changed
<1>5. Total(u) = Total(v) + d
    BY <1>6, TotalChanges
<1> QED
    BY <1>3, <1>5

\* Of numbers that add up to zero, each at least -t, none exceeds t for each of the others.
LEMMA NoneFarBehind ==
    ASSUME NEW n \in Nat, NEW w \in [1 .. n -> Int], NEW t \in Int, Total(w) = 0,
           \A j \in 1 .. n : -t <= w[j], NEW i \in 1 .. n
    PROVE  w[i] <= (n - 1) * t
<1> DEFINE u == [j \in 1 .. n |-> IF j = i THEN w[i] ELSE -t]
<1>1. PICK least \in Int : least = -t
    OBVIOUS
<1>2. PICK d \in Int : d = w[i] + t
    OBVIOUS
<1>3. u \in [1 .. n -> Int]
    OBVIOUS
<1>4. u[i] = least + d /\ \A j \in 1 .. n : j # i => u[j] = least
    BY <1>1, <1>2
<1>5. \A j \in 1 .. n : u[j] <= w[j]
    OBVIOUS
<1> HIDE DEF u
<1>6. Total(u) = n * least + d
    <2>1. EqualBut(u, least, i, d, n)
        BY <1>2, <1>3, <1>4 DEF EqualBut
    <2> QED
        BY <2>1, AllButOne
<1>7. Total(u) <= Total(w)
    <2>1. PICK none \in 0 .. n : none = 0
        OBVIOUS
    <2> QED
        BY <1>3, <1>5, <2>1, TotalAtMost
<1>8. PICK x \in Int : x = w[i]
    OBVIOUS
<1>9. n * least + (x + t) <= 0
    BY <1>2, <1>6, <1>7, <1>8
<1>10. n * (-t) + (x + t) = x - (n - 1) * t
    BY <1>8
<1>11. x - (n - 1) * t <= 0
    BY <1>1, <1>9, <1>10
<1>12. PICK y \in Int : y = (n - 1) * t
    OBVIOUS
<1> QED
    BY <1>8, <1>11, <1>12

LEMMA ShareBounds ==
    ASSUME NEW n \in Int, NEW T \in Int, NEW N \in Int, NEW x \in Int, NEW c \in Int,
           N * x - T * c <= (n - 1) * T, -T < N * x - T * c
    PROVE  c * T < N * x + T /\ N * x <= (c + n - 1) * T
<1>1. c * T = T * c
    OBVIOUS
<1>2. (c + n - 1) * T = T * c + (n - 1) * T
    OBVIOUS
<1> QED
    BY <1>1, <1>2

LEMMA Smooth == IInv => SmoothShares
<1> SUFFICES ASSUME IInv, strategy = "weighted_round_robin", NEW p \in ToSet(round.list)
             PROVE  /\ round.counts[p] * TotalWeight(round.list)
                         < RoundTotal(round) * EffectiveWeight(p) + TotalWeight(round.list)
                    /\ RoundTotal(round) * EffectiveWeight(p)
                         <= (round.counts[p] + Len(round.list) - 1) * TotalWeight(round.list)
    BY DEF SmoothShares
<1>1. /\ round \in Round /\ Balanced(round, weights) /\ lastIDs = round.list
      /\ weights \in Seq(Int) /\ Len(weights) = Len(lastIDs)
    BY DEF IInv, RoundsOK, RouterTypes
<1>2. PICK list \in Lists : list = round.list
    BY <1>1 DEF Round
<1> DEFINE n == Len(list)
           W == Weights(list)
           C == [i \in 1 .. n |-> round.counts[round.list[i]]]
           T == TotalWeight(list)
           N == RoundTotal(round)
<1>3. /\ n \in Nat /\ \A i \in 1 .. n : list[i] \in Providers
      /\ ToSet(list) = {list[i] : i \in 1 .. n}
    BY <1>2, ListIs
<1>4. PICK i \in 1 .. n : p = list[i]
    BY <1>2, <1>3
<1>5. list # <<>>
    BY <1>3, <1>4
<1>6. /\ W \in [1 .. n -> Int] /\ T = Total(W) /\ T \in Int
      /\ \A j \in 1 .. n : W[j] = EffectiveWeight(list[j])
    BY <1>2, WeightsAre DEF TotalWeight
<1>7. /\ C \in [1 .. n -> Int] /\ \A j \in 1 .. n : C[j] = round.counts[round.list[j]]
    <2>1. \A j \in 1 .. n : round.counts[round.list[j]] \in Int
        BY <1>1, <1>2, <1>3 DEF Round
    <2> QED
        BY <2>1
<1>8. weights \in [1 .. n -> Int]
    BY <1>1, <1>2
<1> HIDE DEF C
<1>9. N = Total(C) /\ N \in Int
    <2>1. n = Len(round.list)
        BY <1>2
    <2> QED
        BY <1>1, <1>3, <1>7, <2>1, CountsAre
<1>10. \A j \in 1 .. n : weights[j] = N * W[j] - T * C[j] /\ -T < weights[j]
    <2>1. ASSUME NEW j \in 1 .. n
          PROVE  weights[j] = N * W[j] - T * C[j] /\ -T < weights[j]
        <3>1. weights[j] = Lag(round, j) /\ -T < weights[j]
            BY <1>1, <1>2 DEF Balanced
        <3>2. PICK x \in Int, c \in Int : x = W[j] /\ c = C[j]
            BY <1>6, <1>7
        <3>3. weights[j] = N * x - c * T
            BY <1>2, <1>6, <1>7, <3>1, <3>2 DEF Lag
        <3>4. N * x - c * T = N * x - T * c
            BY <1>6
        <3> QED
            BY <3>1, <3>2, <3>3, <3>4
    <2> QED
        BY <2>1
<1> HIDE DEF n, W, T, N
<1>11. Total(weights) = 0
    <2>1. Combined(weights, W, C, N, T, n)
        BY <1>3, <1>6, <1>7, <1>8, <1>9, <1>10 DEF Combined
    <2>2. Difference(Total(weights), Total(W), Total(C), N, T)
        BY <2>1, TotalLinear
    <2>3. Total(weights) = N * T - T * N
        BY <1>6, <1>9, <2>2 DEF Difference
    <2>4. N * T - T * N = 0
        BY <1>6, <1>9
    <2> QED
        BY <2>3, <2>4
<1>12. weights[i] <= (n - 1) * T
    <2>1. \A j \in 1 .. n : -T <= weights[j]
        BY <1>6, <1>8, <1>10
    <2> QED
        BY <1>3, <1>6, <1>8, <1>11, <2>1, NoneFarBehind
<1>13. PICK x \in Int, c \in Int : x = EffectiveWeight(p) /\ c = round.counts[p]
    BY <1>2, <1>4, <1>6, <1>7
<1>14. weights[i] = N * x - T * c /\ -T < weights[i]
    BY <1>2, <1>4, <1>6, <1>7, <1>10, <1>13
<1>15. N * x - T * c <= (n - 1) * T /\ -T < N * x - T * c
    BY <1>12, <1>14
<1>17. c * T < N * x + T /\ N * x <= (c + n - 1) * T
    <2>1. n \in Int /\ T \in Int /\ N \in Int /\ x \in Int /\ c \in Int
        BY <1>3, <1>6, <1>9, <1>13
    <2> QED
        BY <1>15, <2>1, ShareBounds
<1> QED
    BY <1>2, <1>13, <1>17 DEF n, T, N

\* Under weighted round robin the requests are spread smoothly: a provider is never a
\* whole request ahead of its share of the requests so far, and behind it by no more than
\* one for each of the other providers, for all weights (weighted_round_robin.go).
THEOREM SmoothSharesHolds == Spec => []SmoothShares
<1> QED
    BY Smooth, StrategiesInvariant, PTL

\* A step of one request leaves the others where they are.
LEMMA OthersWait ==
    ASSUME RequestsOK, NEW r \in Requests, NEW other \in Requests, other # r,
           \/ Arrive(r) \/ Affinity(r) \/ Filter(r)
           \/ Pick(r) \/ TryNext(r) \/ RaceResult(r)
    PROVE  (req'[other]).pc = req[other].pc
<1>1. (\E t : req' = [req EXCEPT ![r] = t]) => (req'[other]).pc = req[other].pc
    BY DEF RequestsOK
<1>2. ASSUME NEW outcome, NEW p, Ends(r, outcome, p) PROVE \E t : req' = [req EXCEPT ![r] = t]
    BY <1>2 DEF Ends
<1>3. ASSUME NEW q, Goes(r, q) PROVE \E t : req' = [req EXCEPT ![r] = t]
    BY <1>3 DEF Goes
<1>4. CASE Arrive(r)
    BY <1>1, <1>2, <1>3, <1>4 DEF Arrive
<1>5. CASE Affinity(r)
    BY <1>1, <1>3, <1>5 DEF Affinity
<1>6. CASE Filter(r)
    BY <1>1, <1>2, <1>3, <1>6 DEF Filter
<1>7. CASE Pick(r)
    BY <1>1, <1>2, <1>7 DEF Pick
<1>8. CASE TryNext(r)
    BY <1>1, <1>2, <1>3, <1>8 DEF TryNext
<1>9. CASE RaceResult(r)
    BY <1>1, <1>2, <1>3, <1>9 DEF RaceResult
<1> QED
    BY <1>4, <1>5, <1>6, <1>7, <1>8, <1>9

\* The steps that end a request that was under way.
LEMMA Endings ==
    ASSUME IInv, [Next]_vars, NEW r \in Requests, Ended(r)
    PROVE  Filter(r) \/ Pick(r) \/ TryNext(r) \/ RaceResult(r)
<1>1. SharedTypes /\ RequestsOK
    BY DEF IInv
<1>2. req[r].pc # "idle" /\ (req'[r]).pc # req[r].pc
    BY DEF Ended
<1>3. ~Arrive(r)
    BY <1>2 DEF Arrive
<1>4. ~Affinity(r)
    BY <1>1, AffinityOK DEF Ended
<1>5. ~HealthChanges
    BY <1>1, <1>2, HealthChangesOK
<1>6. ~UNCHANGED vars
    BY <1>2 DEF vars
<1>7. PICK q \in Requests :
        Arrive(q) \/ Affinity(q) \/ Filter(q) \/ Pick(q) \/ TryNext(q) \/ RaceResult(q)
    BY <1>5, <1>6 DEF Next
<1>8. q = r
    BY <1>1, <1>2, <1>7, OthersWait
<1> QED
    BY <1>3, <1>4, <1>7, <1>8

\* What the end of a request says of its result.
LEMMA ResultExplained ==
    ASSUME IInv, [Next]_vars, NEW r \in Requests, Ended(r)
    PROVE  /\ result'.outcome = "unhealthy" =>
                IF req[r].affine THEN ~(ToSet(req[r].asked) \subseteq req[r].steady)
                ELSE ToSet(req[r].asked) \cap req[r].steady = {}
           /\ result'.outcome = "failed" =>
                Attempted(req[r]) \cup {result'.provider} = ToSet(req[r].list)
           /\ result'.outcome = "served" /\ ~req[r].affine /\ ~req[r].retry
              /\ strategy \in {"failover", "model_based", "priority_weighted_failover"} =>
                \A p \in ToSet(req[r].asked) \cap req[r].steady :
                    PriorityOf[p] <= PriorityOf[result'.provider]
<1>1. SharedTypes /\ RequestsOK
    BY DEF IInv
<1>2. (req'[r]).pc = "idle"
    BY DEF Ended
<1>3. CASE Filter(r)
    BY <1>1, <1>2, <1>3, FilterOK
<1>4. CASE Pick(r)
    BY <1>1, <1>4, PickOK
<1>5. CASE TryNext(r)
    BY <1>1, <1>2, <1>5, TryNextOK
<1>6. CASE RaceResult(r)
    BY <1>1, <1>2, <1>6, RaceResultOK
<1> QED
    BY <1>3, <1>4, <1>5, <1>6, Endings

\* A request is refused only for a reason: none of its candidates stayed healthy, or the
\* router's own attempts failed with every provider of its list, whatever the order of the
\* answers of a race and the changes of health in between (router.go, failover.go).
THEOREM RefusalJustifiedHolds == Spec => RefusalJustified
<1>1. IInv /\ [Next]_vars =>
        [\A r \in Requests : Ended(r) =>
            LET q == req[r]
            IN  /\ result'.outcome = "unhealthy" =>
                      IF q.affine THEN ~(ToSet(q.asked) \subseteq q.steady)
                      ELSE ToSet(q.asked) \cap q.steady = {}
                /\ result'.outcome = "failed" =>
                      Attempted(q) \cup {result'.provider} = ToSet(q.list)]_vars
    BY ResultExplained
<1> QED
    BY <1>1, StrategiesInvariant, PTL DEF Spec, RefusalJustified

\* Under the strategies with priorities no candidate that stayed healthy is passed over
\* for one of a lower priority, for every list of providers and all priorities
\* (failover.go, weighted_failover.go).
THEOREM TopPriorityHolds == Spec => TopPriority
<1>1. IInv /\ [Next]_vars =>
        [\A r \in Requests :
            Ended(r) /\ result'.outcome = "served" /\ ~req[r].affine /\ ~req[r].retry
            /\ strategy \in {"failover", "model_based", "priority_weighted_failover"} =>
                \A p \in ToSet(req[r].asked) \cap req[r].steady :
                    PriorityOf[p] <= PriorityOf[result'.provider]]_vars
    BY ResultExplained
<1> QED
    BY <1>1, StrategiesInvariant, PTL DEF Spec, TopPriority

================================================================================
