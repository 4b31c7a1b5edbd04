------------------------------ MODULE CodexProofs ------------------------------
(***************************************************************************)
(* Theorems about the Codex token source, for any number of goroutines,    *)
(* processes and auth files, and about the images endpoint that uses it,   *)
(* for any number of requests and images per request.                      *)
(***************************************************************************)
EXTENDS CodexImages, FiniteSetTheorems, SequenceTheorems, TLAPS

(***************************************************************************)
(* The inductive invariant.                                                *)
(***************************************************************************)

\* Between the read of the file under both locks and the return.
Working(c) == call[c].pc \in {"post", "persist", "cache"}
\* The server has replaced the refresh token of the file, which still has the old one.
Rotating(c) == call[c].pc = "persist" /\ "refresh" \in call[c].fields

\* Whoever reads, refreshes and writes holds the lock of the machine.
LockInv == \A c \in Callers : call[c].pc = "read" \/ Working(c) => lock = c

\* Tokens in use have been given out.
NumberInv == \A p \in Paths : file[p].refresh <= issued /\ app[p] <= issued

\* No refresh token belongs to two files, and what the app has yet to write is in
\* none and belongs to one.
ApartInv ==
    \A p, q \in Paths :
        /\ p # q /\ file[p].refresh # 0 => file[p].refresh # file[q].refresh
        /\ app[p] # 0 => app[p] # file[q].refresh
        /\ p # q /\ app[p] # 0 => app[p] # app[q]

\* As long as nothing is lost, a file's refresh token is good, or its successor
\* is about to be written, by the app that has spent it or by a refresher; and
\* what the app is about to write is good.
LoginInv == ~lost =>
    \A p \in Paths :
        /\ app[p] # 0 => app[p] \in valid
        /\ file[p].refresh # 0 =>
             \/ file[p].refresh \in valid
             \/ app[p] # 0 /\ file[p].refresh \in spent
             \/ \E c \in Callers : Rotating(c) /\ FileOf(c) = p

\* The cache gives what the file has, or had when a call that is not over yet
\* looked at it and since then.
CacheInv ==
    \A s \in Sources : cached[s].access # 0 /\ ~cached[s].overtaken =>
        /\ file[path[s]].stamp = cached[s].stamp => file[path[s]].access = cached[s].access
        /\ \A c \in Callers :
            Src(c) = s /\ call[c].pc = "get" /\ call[c].seen.stamp = cached[s].stamp
                => cached[s].access \in call[c].since

(* What is so of each call. *)

\* The tokens on their way to a file are in no other, a new one in none.
OwnTokens(c) ==
    /\ Working(c) =>
         /\ call[c].seen.refresh <= issued
         /\ call[c].seen.refresh # 0 =>
              \A q \in Paths : /\ q # FileOf(c) => call[c].seen.refresh # file[q].refresh
                              /\ call[c].seen.refresh # app[q]
    /\ call[c].pc = "post" => call[c].seen.refresh # 0
    /\ call[c].pc = "persist" =>
         /\ call[c].new # 0 /\ call[c].new <= issued
         /\ \A q \in Paths : call[c].new # file[q].refresh /\ call[c].new # app[q]

Successor(c) == ~lost /\ Rotating(c) => call[c].new \in valid

\* What is sent to the server is good, or the app has spent it.
Sent(c) == ~lost /\ call[c].pc = "post" => call[c].seen.refresh \in valid \cup spent

Answered(c) ==
    /\ Active(c) => call[c].out = "none"
    /\ call[c].out = "rejected" => call[c].theirs \/ lost
    /\ call[c].out = "token" /\ ~call[c].stale => call[c].got \in call[c].since

\* The tokens that a call may return.
MayReturn(c) ==
    /\ Active(c) => file[FileOf(c)].access \in call[c].since
    /\ Working(c) => call[c].seen.access \in call[c].since

CallInv(c) == OwnTokens(c) /\ Successor(c) /\ Sent(c) /\ Answered(c) /\ MayReturn(c)

TokenInv ==
    /\ TokenTypeOK
    /\ LockInv /\ NumberInv /\ ApartInv /\ LoginInv /\ CacheInv
    /\ \A c \in Callers : CallInv(c)

--------------------------------------------------------------------------------
(* How the records of the calls change. *)

\* A caller that does not take the step: its call goes on as it is, or what is
\* left of the last one is forgotten.
Rest(c) == call'[c] = call[c] \/ (call[c].pc = "idle" /\ call'[c] = Idle)

LEMMA IdleFacts ==
    /\ Idle \in Call
    /\ Idle.pc = "idle" /\ Idle.out = "none" /\ ~Idle.stale /\ ~Idle.theirs
BY CodexAssumption DEF Idle, Call, Absent, File, Token, Ops, Fields

LEMMA EndedFacts ==
    ASSUME NEW r \in Call, NEW out \in {"token", "error", "busy", "rejected"}, NEW got \in Token
    PROVE  /\ Ended(r, out, got) \in Call
           /\ Ended(r, out, got).pc = "idle"
           /\ Ended(r, out, got).out = out
           /\ Ended(r, out, got).got = got
           /\ Ended(r, out, got).since = IF out = "token" THEN r.since \cap {got} ELSE {}
<1>1. Idle \in Call
    BY IdleFacts
<1>2. r.since \in SUBSET Token
    BY DEF Call
<1>3. Ended(r, out, got) \in Call
    BY <1>1, <1>2 DEF Ended, Call
<1> QED
    BY <1>3 DEF Ended, Idle

LEMMA RejectedFacts ==
    ASSUME NEW r \in Call
    PROVE  /\ Rejected(r) \in Call /\ Rejected(r).pc = "idle" /\ Rejected(r).out = "rejected"
           /\ r.seen.refresh \in spent => Rejected(r).theirs
<1>1. 0 \in Token
    BY CodexAssumption DEF Token
<1>2. Ended(r, "rejected", 0) \in Call /\ Ended(r, "rejected", 0).pc = "idle"
      /\ Ended(r, "rejected", 0).out = "rejected"
    BY <1>1, EndedFacts
<1> DEFINE b == r.seen.refresh \in spent
           e == Ended(r, "rejected", 0)
<1>8. b \in BOOLEAN
    OBVIOUS
<1>3. PICK theirs \in BOOLEAN : theirs = b
    BY <1>8, Zenon
<1>4. Rejected(r) = [e EXCEPT !.theirs = theirs]
    BY <1>3, Zenon DEF Rejected
<1>5. r.seen.refresh \in spent => theirs
    BY <1>3, Zenon
<1>6. e \in Call /\ e.pc = "idle" /\ e.out = "rejected"
    BY <1>2
<1> HIDE DEF b, e
<1>7. /\ [e EXCEPT !.theirs = theirs] \in Call
      /\ [e EXCEPT !.theirs = theirs].pc = "idle" /\ [e EXCEPT !.theirs = theirs].out = "rejected"
      /\ [e EXCEPT !.theirs = theirs].theirs = theirs
    BY <1>6 DEF Call
<1> QED
    BY <1>4, <1>5, <1>7

LEMMA ContinueFacts ==
    ASSUME TokenTypeOK, NEW c \in Callers, NEW r \in Call, Continue(c, r)
    PROVE  /\ call' \in [Callers -> Call]
           /\ call'[c] = r
           /\ \A x \in Callers \ {c} : Rest(x)
BY IdleFacts DEF Continue, TokenTypeOK, Rest, Active

\* A write of a file: the calls in progress on it may return its token.
LEMMA SeenFacts ==
    ASSUME NEW cs \in [Callers -> Call], NEW p \in Paths, NEW f \in File, NEW c \in Callers
    PROVE  /\ Seen(cs, p, f)[c] \in Call
           /\ cs[c].pc = "idle" => Seen(cs, p, f)[c] \in {cs[c], Idle}
           /\ cs[c].pc # "idle" =>
                Seen(cs, p, f)[c] =
                    IF FileOf(c) = p THEN [cs[c] EXCEPT !.since = @ \cup {f.access}] ELSE cs[c]
BY IdleFacts DEF Seen, Call, File

--------------------------------------------------------------------------------
(* Types. *)

LEMMA FileTypes ==
    /\ Absent \in File
    /\ \A f \in File : f.stamp \in Nat /\ f.access \in Token /\ f.refresh \in Token
    /\ NotCached \in Cached
    /\ \A stamp \in Stamps : stamp \in Nat
    /\ \A stamp \in Nat, k \in Token :
        Login(stamp, k) \in File /\ Login(stamp, k).stamp = stamp /\ Login(stamp, k).refresh = k
BY CodexAssumption DEF Absent, File, Token, Cached, NotCached, Login

LEMMA TypeInit == TokenInit => TokenTypeOK
<1> SUFFICES ASSUME TokenInit PROVE TokenTypeOK
    OBVIOUS
<1>1. Cardinality(Paths) \in Nat /\ Cardinality(Paths) <= MaxIssued /\ MaxIssued \in Nat
    BY CodexAssumption, FS_CardinalityType
<1>2. 1 .. Cardinality(Paths) \subseteq Token /\ Cardinality(Paths) \in Token /\ 0 \in Token
    BY <1>1 DEF Token
<1>3. file \in [Paths -> File]
    <2>1. (CHOOSE stamp \in Stamps : TRUE) \in Nat
        BY CodexAssumption, FileTypes
    <2> QED
        BY <1>2, <2>1, FileTypes DEF TokenInit
<1>4. issued \in Token /\ valid \subseteq Token /\ expired \in Token
    BY <1>1, <1>2 DEF TokenInit
<1>5. path \in [Sources -> Paths] /\ cached \in [Sources -> Cached]
    BY CodexAssumption, FileTypes DEF TokenInit
<1>6. /\ call \in [Callers -> Call] /\ lost \in BOOLEAN
      /\ app \in [Paths -> Token] /\ spent \subseteq Token
    BY <1>2, IdleFacts DEF TokenInit
<1>7. lock \in Callers \cup {NoOne} /\ mu \in [Sources -> Callers \cup {NoOne}]
    BY DEF TokenInit
<1> QED
    BY <1>3, <1>4, <1>5, <1>6, <1>7 DEF TokenTypeOK

LEMMA RotateTypes ==
    ASSUME TokenTypeOK, NEW t, NEW fields, Rotate(t, fields)
    PROVE  issued' \in Token /\ issued' = issued + 1 /\ valid' \subseteq Token
BY CodexAssumption DEF TokenTypeOK, Rotate, Token

LEMMA MergedTypes ==
    ASSUME NEW r \in Call, NEW stamp \in Stamps
    PROVE  Merged(r, stamp) \in File
BY FileTypes DEF Merged, Call, File

\* What a write makes of the caches.
LEMMA OvertakeFacts ==
    ASSUME TokenTypeOK, NEW p \in Paths, NEW f \in File, Overtake(p, f)
    PROVE  /\ cached' \in [Sources -> Cached]
           /\ \A s \in Sources :
                /\ cached'[s].access = cached[s].access /\ cached'[s].stamp = cached[s].stamp
                /\ ~cached'[s].overtaken =>
                     /\ ~cached[s].overtaken
                     /\ path[s] = p /\ f.stamp = cached[s].stamp => f.access = cached[s].access
<1>1. cached' = [s \in Sources |-> cached'[s]]
    BY Zenon DEF Overtake
<1>2. ASSUME NEW s \in Sources
      PROVE  /\ cached'[s] \in Cached
             /\ cached'[s].access = cached[s].access /\ cached'[s].stamp = cached[s].stamp
             /\ ~cached'[s].overtaken =>
                  /\ ~cached[s].overtaken
                  /\ path[s] = p /\ f.stamp = cached[s].stamp => f.access = cached[s].access
    <2> DEFINE same == path[s] = p /\ f.stamp = cached[s].stamp /\ f.access # cached[s].access
    <2>1. cached[s] \in Cached
        BY DEF TokenTypeOK
    <2>2. cached'[s] = [cached[s] EXCEPT !.overtaken = @ \/ same]
        BY Zenon DEF Overtake
    <2>3. same \in BOOLEAN
        OBVIOUS
    <2>4. same <=> path[s] = p /\ f.stamp = cached[s].stamp /\ f.access # cached[s].access
        OBVIOUS
    <2> HIDE DEF same
    <2>5. cached[s].overtaken \in BOOLEAN
        BY <2>1 DEF Cached
    <2>6. (cached[s].overtaken \/ same) \in BOOLEAN
        OBVIOUS
    <2>7. PICK b \in BOOLEAN : b = (cached[s].overtaken \/ same)
        BY <2>6
    <2>8. cached'[s] = [cached[s] EXCEPT !.overtaken = b]
        BY <2>2, <2>7, Zenon
    <2>9. (cached[s].overtaken => b) /\ (same => b)
        BY <2>7, Zenon
    <2>10. /\ cached'[s] \in Cached /\ cached'[s].access = cached[s].access
           /\ cached'[s].stamp = cached[s].stamp /\ cached'[s].overtaken = b
        BY <2>1, <2>8 DEF Cached
    <2> QED
        BY <2>4, <2>9, <2>10
<1> QED
    BY <1>1, <1>2

LEMMA FlagTypes ==
    ASSUME NEW b \in BOOLEAN
    PROVE  /\ \A r \in Call : [r EXCEPT !.stale = b] \in Call
           /\ \A a \in Token, n \in Nat : [access |-> a, stamp |-> n, overtaken |-> b] \in Cached
BY DEF Call, Cached

\* The file is written: the call goes on with what it has written, or ends.
LEMMA PersistFacts ==
    ASSUME NEW c \in Callers, call[c] \in Call, Persist(c)
    PROVE  \E f \in File, d \in Call :
             /\ f.refresh = IF Rotating(c) THEN call[c].new ELSE call[c].seen.refresh
             /\ file' = [file EXCEPT ![FileOf(c)] = f] /\ Overtake(FileOf(c), f)
             /\ call' = Seen([call EXCEPT ![c] = d], FileOf(c), f)
             /\ \/ d.pc = "idle" /\ d.out = "error" /\ Release(c)
                \/ /\ d.pc = "cache" /\ d.seen = f /\ d.out = call[c].out
                   /\ d.since = call[c].since /\ UNCHANGED <<lock, mu>>
             /\ lost' = (lost \/ file[FileOf(c)] # call[c].seen)
             /\ UNCHANGED <<issued, valid, expired, path, app, spent>>
<1>1. PICK stamp \in Stamps :
        LET p == FileOf(c)
            f == Merged(call[c], stamp)
            r == [call[c] EXCEPT !.seen = f, !.fields = {}, !.new = 0]
        IN  /\ file' = [file EXCEPT ![p] = f]
            /\ lost' = (lost \/ file[p] # call[c].seen)
            /\ Overtake(p, f)
            /\ IF f.access = 0
               THEN /\ call' = Seen([call EXCEPT ![c] = Ended(r, "error", 0)], p, f)
                    /\ Release(c)
               ELSE /\ call' = Seen([call EXCEPT ![c] = [r EXCEPT !.pc = "cache"]], p, f)
                    /\ UNCHANGED <<lock, mu>>
    BY DEF Persist
<1> DEFINE f == Merged(call[c], stamp)
           r == [call[c] EXCEPT !.seen = f, !.fields = {}, !.new = 0]
           on == [r EXCEPT !.pc = "cache"]
           off == Ended(r, "error", 0)
<1>2. f \in File /\ f.refresh = IF Rotating(c) THEN call[c].new ELSE call[c].seen.refresh
    BY MergedTypes DEF Merged, Rotating, Persist
<1> HIDE DEF f
<1>3. 0 \in Token /\ {} \in SUBSET Fields
    BY CodexAssumption DEF Token
<1>4. r \in Call /\ r.seen = f /\ r.since = call[c].since /\ r.out = call[c].out
    BY <1>2, <1>3 DEF Call
<1> HIDE DEF r
<1>5. /\ on \in Call /\ on.pc = "cache" /\ on.seen = f /\ on.out = call[c].out
      /\ on.since = call[c].since
    BY <1>4 DEF Call
<1>6. off \in Call /\ off.pc = "idle" /\ off.out = "error"
    BY <1>3, <1>4, EndedFacts
<1> HIDE DEF on, off
<1>7. /\ file' = [file EXCEPT ![FileOf(c)] = f]
      /\ lost' = (lost \/ file[FileOf(c)] # call[c].seen)
      /\ Overtake(FileOf(c), f)
      /\ \/ call' = Seen([call EXCEPT ![c] = off], FileOf(c), f) /\ Release(c)
         \/ call' = Seen([call EXCEPT ![c] = on], FileOf(c), f) /\ UNCHANGED <<lock, mu>>
    BY <1>1 DEF f, r, on, off
<1>8. UNCHANGED <<issued, valid, expired, path, app, spent>>
    BY DEF Persist
<1>9. CASE call' = Seen([call EXCEPT ![c] = off], FileOf(c), f) /\ Release(c)
    BY <1>2, <1>6, <1>7, <1>8, <1>9
<1>10. CASE call' = Seen([call EXCEPT ![c] = on], FileOf(c), f) /\ UNCHANGED <<lock, mu>>
    BY <1>2, <1>5, <1>7, <1>8, <1>10
<1> QED
    BY <1>7, <1>9, <1>10

\* The file is looked at.
LEMMA LookedFacts ==
    ASSUME NEW r \in Call, NEW f \in File
    PROVE  LET d == [r EXCEPT !.pc = "get", !.seen.stamp = f.stamp]
           IN  /\ d \in Call /\ d.pc = "get" /\ d.seen.stamp = f.stamp
               /\ d.since = r.since /\ d.out = r.out
<1> DEFINE s == [r.seen EXCEPT !.stamp = f.stamp]
<1>1. s \in File /\ s.stamp = f.stamp
    BY DEF Call, File
<1>2. [r EXCEPT !.pc = "get", !.seen.stamp = f.stamp] = [r EXCEPT !.pc = "get", !.seen = s]
    BY DEF Call
<1> HIDE DEF s
<1> QED
    BY <1>1, <1>2 DEF Call

LEMMA TypeNext == TokenTypeOK /\ [TokenNext]_tokenVars => TokenTypeOK'
<1> SUFFICES ASSUME TokenTypeOK, [TokenNext]_tokenVars PROVE TokenTypeOK'
    OBVIOUS
<1> USE FileTypes, IdleFacts
<1>1. ASSUME NEW c \in Callers, Start(c) PROVE TokenTypeOK'
    <2>1. PICK op \in Ops : Continue(c, Begin(c, op, FileOf(c)))
        BY <1>1, CodexAssumption DEF Start
    <2>2. file[FileOf(c)].access \in Token
        BY CodexAssumption DEF TokenTypeOK, FileOf, Src
    <2>3. Begin(c, op, FileOf(c)) \in Call
        BY <2>2 DEF Begin, Call
    <2> QED
        BY <1>1, <2>1, <2>3, ContinueFacts DEF Start, TokenTypeOK
<1>2. ASSUME NEW c \in Callers, GetStat(c) PROVE TokenTypeOK'
    <2>1. call[c] \in Call /\ file[FileOf(c)] \in File /\ 0 \in Token
        BY CodexAssumption DEF TokenTypeOK, FileOf, Src, Token
    <2>2. [call[c] EXCEPT !.pc = "get", !.seen.stamp = file[FileOf(c)].stamp] \in Call
        BY <2>1, LookedFacts
    <2>3. call' \in [Callers -> Call]
        <3>1. Ended(call[c], "error", 0) \in Call
            BY <2>1, EndedFacts
        <3>2. PICK r \in Call : Continue(c, r)
            BY <1>2, <2>2, <3>1 DEF GetStat
        <3> QED
            BY <3>2, ContinueFacts
    <2> QED
        BY <1>2, <2>3 DEF GetStat, TokenTypeOK
<1>3. ASSUME NEW c \in Callers, GetAnswer(c) PROVE TokenTypeOK'
    <2>1. /\ call[c] \in Call /\ file[FileOf(c)] \in File /\ 0 \in Token
          /\ Src(c) \in Sources /\ cached[Src(c)] \in Cached
        BY CodexAssumption DEF TokenTypeOK, FileOf, Src, Token
    <2>2. /\ cached[Src(c)].access \in Token /\ file[FileOf(c)].access \in Token
          /\ call[c].seen.stamp \in Nat
        BY <2>1 DEF Cached, File, Call
    <2>3. [Ended(call[c], "token", cached[Src(c)].access)
              EXCEPT !.stale = cached[Src(c)].overtaken] \in Call
        <3>1. cached[Src(c)].overtaken \in BOOLEAN
            BY <2>1 DEF Cached
        <3>2. Ended(call[c], "token", cached[Src(c)].access) \in Call
            BY <2>1, <2>2, EndedFacts
        <3> QED
            BY <3>1, <3>2, FlagTypes
    <2>4. call' \in [Callers -> Call]
        <3>1. \A out \in {"token", "error"} :
                /\ Ended(call[c], out, file[FileOf(c)].access) \in Call
                /\ Ended(call[c], out, 0) \in Call
            BY <2>1, <2>2, EndedFacts
        <3>2. PICK r \in Call : Continue(c, r)
            BY <1>3, <2>3, <3>1 DEF GetAnswer
        <3> QED
            BY <3>2, ContinueFacts
    <2>5. cached' \in [Sources -> Cached]
        <3> DEFINE e == [access |-> file[FileOf(c)].access, stamp |-> call[c].seen.stamp,
                         overtaken |-> FALSE]
        <3>1. e \in Cached
            BY <2>2, FlagTypes
        <3>2. cached' = cached \/ cached' = [cached EXCEPT ![Src(c)] = e]
            BY <1>3 DEF GetAnswer
        <3>3. cached \in [Sources -> Cached]
            BY DEF TokenTypeOK
        <3> HIDE DEF e
        <3> QED
            BY <2>1, <3>1, <3>2, <3>3
    <2> QED
        BY <1>3, <2>4, <2>5 DEF GetAnswer, TokenTypeOK
<1>4. ASSUME NEW c \in Callers, Acquire(c) \/ GiveUp(c) PROVE TokenTypeOK'
    <2>1. call[c] \in Call /\ 0 \in Token
        BY CodexAssumption DEF TokenTypeOK, Token
    <2>2. [call[c] EXCEPT !.pc = "read"] \in Call
        BY <2>1 DEF Call
    <2>3. call' \in [Callers -> Call]
        <3>1. Ended(call[c], "busy", 0) \in Call /\ Ended(call[c], "error", 0) \in Call
            BY <2>1, EndedFacts
        <3>2. PICK r \in Call : Continue(c, r)
            BY <1>4, <2>2, <3>1 DEF Acquire, GiveUp
        <3> QED
            BY <3>2, ContinueFacts
    <2> QED
        BY <1>4, <2>3 DEF Acquire, GiveUp, TokenTypeOK
<1>5. ASSUME NEW c \in Callers, ReadFile(c) PROVE TokenTypeOK'
    <2> DEFINE f == file[FileOf(c)]
               r == [call[c] EXCEPT !.seen = f]
    <2>1. call[c] \in Call /\ f \in File /\ 0 \in Token /\ Src(c) \in Sources
        BY CodexAssumption DEF TokenTypeOK, FileOf, Src, Token
    <2>2. r \in Call /\ [r EXCEPT !.pc = "cache"] \in Call /\ [r EXCEPT !.pc = "post"] \in Call
        BY <2>1 DEF Call
    <2>3. call' \in [Callers -> Call]
        <3>1. Ended(r, "error", 0) \in Call
            BY <2>1, <2>2, EndedFacts
        <3>2. PICK d \in Call : Continue(c, d)
            BY <1>5, <2>2, <3>1 DEF ReadFile
        <3> QED
            BY <3>2, ContinueFacts
    <2>4. mu' \in [Sources -> Callers \cup {NoOne}] /\ lock' \in Callers \cup {NoOne}
        BY <1>5, <2>1 DEF ReadFile, TokenTypeOK
    <2> QED
        BY <1>5, <2>3, <2>4 DEF ReadFile, TokenTypeOK
<1>6. ASSUME NEW c \in Callers, PostRejected(c) \/ PostAnswered(c) \/ PostLost(c)
      PROVE  TokenTypeOK'
    <2>1. call[c] \in Call /\ 0 \in Token /\ Src(c) \in Sources
        BY CodexAssumption DEF TokenTypeOK, FileOf, Src, Token
    <2>2. issued' \in Token /\ valid' \subseteq Token
        BY <1>6, RotateTypes DEF PostRejected, PostAnswered, PostLost, TokenTypeOK
    <2>3. lock' \in Callers \cup {NoOne} /\ mu' \in [Sources -> Callers \cup {NoOne}]
        BY <1>6 DEF PostRejected, PostAnswered, PostLost, TokenTypeOK, Release
    <2>4. call' \in [Callers -> Call]
        <3>1. CASE \E fields \in Answers :
                     /\ Rotate(call[c].seen.refresh, fields)
                     /\ Continue(c, [call[c] EXCEPT !.pc = "persist", !.fields = fields,
                                                    !.new = issued + 1])
            <4>1. PICK fields \in Answers :
                     /\ Rotate(call[c].seen.refresh, fields)
                     /\ Continue(c, [call[c] EXCEPT !.pc = "persist", !.fields = fields,
                                                    !.new = issued + 1])
                BY <3>1
            <4>2. issued + 1 \in Token
                BY <4>1, RotateTypes
            <4>3. [call[c] EXCEPT !.pc = "persist", !.fields = fields, !.new = issued + 1] \in Call
                BY <2>1, <4>2, CodexAssumption DEF Call
            <4> QED
                BY <4>1, <4>3, ContinueFacts
        <3>2. CASE \E e \in {Rejected(call[c]), Ended(call[c], "error", 0)} : Continue(c, e)
            <4>1. PICK e \in {Rejected(call[c]), Ended(call[c], "error", 0)} : Continue(c, e)
                BY <3>2
            <4>2. e \in Call
                <5>1. Rejected(call[c]) \in Call
                    BY <2>1, RejectedFacts
                <5>2. Ended(call[c], "error", 0) \in Call
                    BY <2>1, EndedFacts
                <5> QED
                    BY <4>1, <5>1, <5>2
            <4> QED
                BY <4>1, <4>2, ContinueFacts
        <3> QED
            BY <1>6, <3>1, <3>2 DEF PostRejected, PostAnswered, PostLost
    <2>5. lost' \in BOOLEAN
        BY <1>6 DEF PostRejected, PostAnswered, PostLost, TokenTypeOK
    <2> QED
        BY <1>6, <2>2, <2>3, <2>4, <2>5 DEF PostRejected, PostAnswered, PostLost, TokenTypeOK
<1>7. ASSUME NEW c \in Callers, Persist(c) PROVE TokenTypeOK'
    <2>1. call[c] \in Call /\ 0 \in Token /\ Src(c) \in Sources /\ FileOf(c) \in Paths
        BY CodexAssumption DEF TokenTypeOK, FileOf, Src, Token
    <2>2. PICK f \in File, d \in Call :
            /\ file' = [file EXCEPT ![FileOf(c)] = f] /\ Overtake(FileOf(c), f)
            /\ call' = Seen([call EXCEPT ![c] = d], FileOf(c), f)
            /\ lost' = (lost \/ file[FileOf(c)] # call[c].seen)
            /\ Release(c) \/ UNCHANGED <<lock, mu>>
            /\ UNCHANGED <<issued, valid, expired, path, app, spent>>
        BY <1>7, <2>1, PersistFacts
    <2>3. call' \in [Callers -> Call]
        <3>1. [call EXCEPT ![c] = d] \in [Callers -> Call]
            BY DEF TokenTypeOK
        <3>2. \A x \in Callers : call'[x] \in Call
            BY <3>1, <2>1, <2>2, SeenFacts
        <3> QED
            BY <2>2, <3>2 DEF Seen
    <2>4. cached' \in [Sources -> Cached]
        BY <2>1, <2>2, OvertakeFacts
    <2> QED
        BY <2>1, <2>2, <2>3, <2>4 DEF Release, TokenTypeOK
<1>8. ASSUME NEW c \in Callers, PersistFails(c) PROVE TokenTypeOK'
    <2>1. call[c] \in Call /\ 0 \in Token /\ Src(c) \in Sources
        BY CodexAssumption DEF TokenTypeOK, FileOf, Src, Token
    <2>2. call' \in [Callers -> Call]
        <3>1. Ended(call[c], "error", 0) \in Call
            BY <2>1, EndedFacts
        <3>2. PICK r \in Call : Continue(c, r)
            BY <1>8, <3>1 DEF PersistFails
        <3> QED
            BY <3>2, ContinueFacts
    <2> QED
        BY <1>8, <2>2 DEF PersistFails, Release, TokenTypeOK
<1>9. ASSUME NEW c \in Callers, CacheLocked(c) PROVE TokenTypeOK'
    <2>1. /\ call[c] \in Call /\ 0 \in Token /\ Src(c) \in Sources
          /\ file[path[Src(c)]] \in File
        BY CodexAssumption DEF TokenTypeOK, FileOf, Src, Token
    <2>2. call[c].seen.access \in Token
        BY <2>1 DEF Call
    <2>3. call' \in [Callers -> Call]
        <3>1. /\ Ended(call[c], "token", call[c].seen.access) \in Call
              /\ Ended(call[c], "error", 0) \in Call
            BY <2>1, <2>2, EndedFacts
        <3>2. PICK r \in Call : Continue(c, r)
            BY <1>9, <3>1 DEF CacheLocked
        <3> QED
            BY <3>2, ContinueFacts
    <2>4. cached' \in [Sources -> Cached]
        <3> DEFINE now == file[path[Src(c)]]
        <3>1. [access |-> call[c].seen.access, stamp |-> now.stamp,
               overtaken |-> now.access # call[c].seen.access] \in Cached
            BY <2>1, <2>2 DEF Cached
        <3> QED
            BY <1>9, <2>1, <3>1 DEF CacheLocked, TokenTypeOK
    <2> QED
        BY <1>9, <2>3, <2>4 DEF CacheLocked, Release, TokenTypeOK
<1>10. ASSUME NEW s \in Sources, Crash(s) PROVE TokenTypeOK'
    BY <1>10 DEF Crash, TokenTypeOK
<1>11. ASSUME NEW p \in Paths, AppPost(p) \/ AppWrite(p) \/ AppLogin(p) \/ AppLogout(p)
       PROVE  TokenTypeOK'
    <2>1. file[p].refresh \in Token /\ app[p] \in Token /\ 0 \in Token
        BY CodexAssumption DEF TokenTypeOK, Token
    <2>2. issued' \in Token /\ valid' \subseteq Token /\ spent' \subseteq Token
          /\ app' \in [Paths -> Token]
        <3>1. CASE AppPost(p)
            BY <2>1, <3>1, RotateTypes DEF AppPost, TokenTypeOK
        <3>2. CASE AppWrite(p)
            BY <2>1, <3>2 DEF AppWrite, TokenTypeOK
        <3>3. CASE AppLogin(p)
            BY <3>3, CodexAssumption DEF AppLogin, TokenTypeOK, Token
        <3>4. CASE AppLogout(p)
            BY <2>1, <3>4 DEF AppLogout, TokenTypeOK
        <3> QED
            BY <1>11, <3>1, <3>2, <3>3, <3>4
    <2>3. CASE AppPost(p)
        BY <2>2, <2>3 DEF AppPost, TokenTypeOK
    <2>4. CASE AppWrite(p) \/ AppLogin(p) \/ AppLogout(p)
        <3>1. PICK f \in File : AppWrites(p, f)
            <4>1. CASE AppWrite(p)
                BY <2>1, <4>1 DEF AppWrite
            <4>2. CASE AppLogin(p)
                <5>1. issued + 1 \in Token
                    BY <2>2, <4>2 DEF AppLogin
                <5> QED
                    BY <4>2, <5>1 DEF AppLogin
            <4>3. CASE AppLogout(p)
                BY <4>3 DEF AppLogout
            <4> QED
                BY <2>4, <4>1, <4>2, <4>3
        <3>2. call' \in [Callers -> Call]
            <4>1. \A x \in Callers : Seen(call, p, f)[x] \in Call
                BY SeenFacts DEF TokenTypeOK
            <4> QED
                BY <3>1, <4>1 DEF AppWrites, Seen
        <3>3. cached' \in [Sources -> Cached]
            BY <3>1, OvertakeFacts DEF AppWrites
        <3> QED
            BY <2>2, <3>1, <3>2, <3>3 DEF AppWrites, TokenTypeOK
    <2> QED
        BY <1>11, <2>3, <2>4
<1>12. CASE Expire
    BY <1>12 DEF Expire, TokenTypeOK
<1>13. CASE UNCHANGED tokenVars
    BY <1>13 DEF tokenVars, TokenTypeOK
<1> QED
    BY <1>1, <1>2, <1>3, <1>4, <1>5, <1>6, <1>7, <1>8, <1>9, <1>10, <1>11, <1>12, <1>13
       DEF TokenNext, Step, AppNext

\* Every record keeps its type (tokens, times, places and locks of the calls).
THEOREM TokenTypeCorrect == TokenSpec => []TokenTypeOK
BY TypeInit, TypeNext, PTL DEF TokenSpec

--------------------------------------------------------------------------------
(* The invariant. *)

\* The call is over, with an answer that may be given.
Quits(c) ==
    /\ call'[c].pc = "idle"
    /\ call'[c].out = "rejected" => call'[c].theirs \/ lost'
    /\ call'[c].out = "token" /\ ~call'[c].stale => call'[c].got \in call'[c].since

Stays(c) == call'[c] = call[c] \/ Quits(c)

\* What holds of a call still holds when the files stay as they are and the call
\* goes on or ends.
LEMMA StaysInv ==
    ASSUME TokenTypeOK, NEW c \in Callers, CallInv(c), Stays(c),
           UNCHANGED <<file, path>>, issued' \in Nat, issued' >= issued,
           \A q \in Paths : app'[q] \in {0, app[q]} \/ app'[q] > issued,
           lost => lost',
           ~lost' /\ Rotating(c) => call[c].new \in valid',
           ~lost' /\ call[c].pc = "post" => call[c].seen.refresh \in valid' \cup spent'
    PROVE  CallInv(c)'
<1> USE DEF Working, Rotating, Active, FileOf, Src, Stays, Quits
<1>1. OwnTokens(c)'
    <2>1. issued \in Nat /\ call[c] \in Call
        BY CodexAssumption DEF TokenTypeOK, Token
    <2>2. call[c].seen.refresh \in Nat /\ call[c].new \in Nat
        BY <2>1, CodexAssumption DEF Call, File, Token
    <2> QED
        BY <2>1, <2>2 DEF CallInv, OwnTokens
<1>2. Successor(c)' /\ Sent(c)' /\ Answered(c)' /\ MayReturn(c)'
    BY DEF CallInv, Successor, Sent, Answered, MayReturn
<1> QED
    BY <1>1, <1>2 DEF CallInv

LEMMA RestStays ==
    ASSUME NEW c \in Callers, Rest(c)
    PROVE  Stays(c)
BY IdleFacts DEF Rest, Stays, Quits

\* Calls go on or end, and the files stay as they are.
LEMMA QuietStep ==
    ASSUME TokenInv, TokenTypeOK', UNCHANGED <<file, path, app, spent>>,
           \A c \in Callers : Stays(c),
           issued' >= issued, lost => lost', valid' = valid \/ lost',
           \A c \in Callers : Rotating(c) /\ call'[c] # call[c] => lost',
           LockInv', CacheInv'
    PROVE  TokenInv'
<1>1. issued' \in Nat /\ issued \in Nat
    BY CodexAssumption DEF TokenInv, TokenTypeOK, Token
<1>2. ASSUME NEW c \in Callers PROVE CallInv(c)'
    <2>1. ~lost' /\ Rotating(c) => call[c].new \in valid'
        BY DEF TokenInv, CallInv, Successor
    <2>2. ~lost' /\ call[c].pc = "post" => call[c].seen.refresh \in valid' \cup spent'
        BY DEF TokenInv, CallInv, Sent
    <2>3. \A q \in Paths : app'[q] \in {0, app[q]} \/ app'[q] > issued
        OBVIOUS
    <2> QED
        BY <1>1, <2>1, <2>2, <2>3, StaysInv DEF TokenInv
<1>3. NumberInv'
    <2>1. \A p \in Paths : file[p].refresh \in Nat /\ app[p] \in Nat
        BY CodexAssumption DEF TokenInv, TokenTypeOK, File, Token
    <2> QED
        BY <1>1, <2>1 DEF TokenInv, NumberInv
<1>4. LoginInv'
    BY DEF TokenInv, LoginInv, Rotating, FileOf, Src
<1> QED
    BY <1>2, <1>3, <1>4 DEF TokenInv, ApartInv

\* The cache keeps giving what it may as long as the files and caches stay.
LEMMA CacheKept ==
    ASSUME TokenTypeOK, CacheInv, UNCHANGED <<file, path>>,
           \A s \in Sources : cached'[s] = cached[s] \/ cached'[s].access = 0,
           \A c \in Callers : call'[c] = call[c] \/ call'[c].pc # "get"
    PROVE  CacheInv'
BY DEF CacheInv, Src

\* A call that ends by itself with e, for one of the reasons that need no more than
\* what is known of it.
LEMMA OverStays ==
    ASSUME TokenTypeOK, NEW c \in Callers, NEW e \in Call, e.pc = "idle",
           e.out = "rejected" => e.theirs \/ lost',
           e.out = "token" => e.got \in e.since,
           Continue(c, e)
    PROVE  /\ \A x \in Callers : Stays(x)
           /\ call'[c].pc = "idle"
           /\ \A x \in Callers \ {c} : call'[x] = call[x] \/ call'[x].pc = "idle"
           /\ \A x \in Callers \ {c} : call'[x] = call[x] \/ call[x].pc = "idle"
<1>1. call'[c] = e /\ \A x \in Callers \ {c} : Rest(x)
    BY ContinueFacts
<1>2. Quits(c)
    BY <1>1 DEF Quits
<1>3. \A x \in Callers : Stays(x)
    <2>1. Stays(c)
        BY <1>2 DEF Stays
    <2>2. ASSUME NEW x \in Callers \ {c} PROVE Stays(x)
        BY <1>1, RestStays
    <2> QED
        BY <2>1, <2>2
<1>4. ASSUME NEW x \in Callers \ {c}
      PROVE  /\ call'[x] = call[x] \/ call'[x].pc = "idle"
             /\ call'[x] = call[x] \/ call[x].pc = "idle"
    <2>1. Rest(x)
        BY <1>1
    <2> QED
        BY <2>1, IdleFacts DEF Rest
<1> QED
    BY <1>1, <1>3, <1>4

LEMMA EndStays ==
    ASSUME TokenTypeOK, NEW c \in Callers, NEW r \in Call, NEW got \in Token,
           NEW out \in {"token", "error", "busy"},
           out = "token" => got \in r.since,
           Continue(c, Ended(r, out, got))
    PROVE  /\ \A x \in Callers : Stays(x)
           /\ call'[c].pc = "idle"
           /\ \A x \in Callers \ {c} : call'[x] = call[x] \/ call'[x].pc = "idle"
           /\ \A x \in Callers \ {c} : call'[x] = call[x] \/ call[x].pc = "idle"
<1> DEFINE e == Ended(r, out, got)
<1>4. Ended(r, out, got) \in Call
    BY EndedFacts
<1>1. /\ e \in Call /\ e.pc = "idle" /\ e.out = out /\ e.got = got
      /\ e.since = IF out = "token" THEN r.since \cap {got} ELSE {}
    BY <1>4 DEF Ended, Idle
<1>2. Continue(c, e)
    OBVIOUS
<1> HIDE DEF e
<1>3. /\ e.out = "rejected" => e.theirs \/ lost'
      /\ e.out = "token" => e.got \in e.since
    BY <1>1
<1> QED
    BY <1>1, <1>2, <1>3, OverStays

\* The locks of a caller that returns are free, and it held the one of the machine.
LEMMA LockReturned ==
    ASSUME TokenTypeOK, LockInv, NEW c \in Callers,
           lock' = NoOne \/ lock' = lock, lock' = NoOne => lock \in {c, NoOne},
           \A x \in Callers \ {c} : call'[x] = call[x] \/ call'[x].pc = "idle",
           call'[c].pc = "idle"
    PROVE  LockInv'
BY CodexAssumption DEF LockInv, Working

LEMMA HoldsLock ==
    ASSUME TokenInv, NEW c \in Callers, call[c].pc = "read" \/ Working(c)
    PROVE  /\ lock = c
           /\ \A x \in Callers \ {c} : call[x].pc # "read" /\ ~Working(x) /\ ~Rotating(x)
BY DEF TokenInv, LockInv, Working, Rotating

LEMMA KeepsGiveUp ==
    ASSUME TokenInv, TokenTypeOK', NEW c \in Callers, GiveUp(c)
    PROVE  TokenInv'
<1>1. call[c] \in Call /\ 0 \in Token /\ TokenTypeOK /\ issued' \in Nat
    BY CodexAssumption DEF TokenInv, TokenTypeOK, Token
<1>2. PICK out \in {"busy", "error"} : Continue(c, Ended(call[c], out, 0))
    BY DEF GiveUp
<1>3. /\ \A x \in Callers : Stays(x)
      /\ call'[c].pc = "idle"
      /\ \A x \in Callers \ {c} : call'[x] = call[x] \/ call'[x].pc = "idle"
      /\ \A x \in Callers \ {c} : call'[x] = call[x] \/ call[x].pc = "idle"
    BY <1>1, <1>2, EndStays
<1>4. LockInv'
    BY <1>3 DEF GiveUp, TokenInv, LockInv, Working
<1>5. CacheInv'
    BY <1>1, <1>3, CacheKept DEF GiveUp, TokenInv
<1> QED
    BY <1>1, <1>3, <1>4, <1>5, QuietStep DEF GiveUp, TokenInv, Rotating

LEMMA KeepsGetStat ==
    ASSUME TokenInv, TokenTypeOK', NEW c \in Callers, GetStat(c)
    PROVE  TokenInv'
<1>1. /\ call[c] \in Call /\ 0 \in Token /\ TokenTypeOK /\ issued' \in Nat
      /\ FileOf(c) \in Paths /\ file[FileOf(c)] \in File
    BY CodexAssumption DEF TokenInv, TokenTypeOK, Token, FileOf, Src
<1>2. CASE ~Exists(file[FileOf(c)])
    <2>1. /\ \A x \in Callers : Stays(x)
          /\ call'[c].pc = "idle"
          /\ \A x \in Callers \ {c} : call'[x] = call[x] \/ call'[x].pc = "idle"
          /\ \A x \in Callers \ {c} : call'[x] = call[x] \/ call[x].pc = "idle"
        BY <1>1, <1>2, EndStays DEF GetStat
    <2>2. LockInv'
        BY <2>1 DEF GetStat, TokenInv, LockInv, Working
    <2>3. CacheInv'
        BY <1>1, <2>1, CacheKept DEF GetStat, TokenInv
    <2> QED
        BY <1>1, <2>1, <2>2, <2>3, QuietStep DEF GetStat, TokenInv, Rotating
<1>3. CASE Exists(file[FileOf(c)])
    <2> DEFINE r == [call[c] EXCEPT !.pc = "get", !.seen.stamp = file[FileOf(c)].stamp]
    <2>1. /\ r \in Call /\ r.pc = "get" /\ r.seen.stamp = file[FileOf(c)].stamp
          /\ r.since = call[c].since /\ r.out = call[c].out
        BY <1>1, LookedFacts
    <2>2. Continue(c, r) /\ Active(c) /\ UNCHANGED <<file, path, app, spent, issued, valid, lost>>
        BY <1>3 DEF GetStat, Active
    <2> HIDE DEF r
    <2>3. call'[c] = r /\ \A x \in Callers \ {c} : Rest(x)
        BY <1>1, <2>1, <2>2, ContinueFacts
    <2>4. ASSUME NEW x \in Callers \ {c} PROVE CallInv(x)'
        BY <1>1, <2>2, <2>3, RestStays, StaysInv, CodexAssumption
           DEF TokenInv, TokenTypeOK, Token, CallInv, Successor, Sent
    <2>5. CallInv(c)'
        BY <2>1, <2>2, <2>3
           DEF TokenInv, CallInv, OwnTokens, Successor, Sent, Answered, MayReturn,
               Working, Rotating, Active, FileOf, Src
    <2>6. LockInv' /\ NumberInv' /\ ApartInv'
        BY <2>1, <2>3, IdleFacts
           DEF GetStat, TokenInv, LockInv, Working, NumberInv, ApartInv, Rest
    <2>7. LoginInv'
        BY <2>1, <2>3, IdleFacts DEF GetStat, TokenInv, LoginInv, Rotating, Rest, FileOf, Src
    <2>8. CacheInv'
        <3>1. file[path[Src(c)]].access \in call'[c].since
            BY <2>1, <2>2, <2>3 DEF TokenInv, CallInv, MayReturn, FileOf
        <3>2. UNCHANGED <<file, path, cached>>
            BY DEF GetStat
        <3>3. ASSUME NEW s \in Sources, cached[s].access # 0, ~cached[s].overtaken,
                     NEW x \in Callers, Src(x) = s, call'[x].pc = "get",
                     call'[x].seen.stamp = cached[s].stamp
              PROVE  cached[s].access \in call'[x].since
            <4>1. CASE x = c
                <5>1. path[s] = FileOf(c) /\ call'[c].seen.stamp = file[FileOf(c)].stamp
                    BY <2>1, <2>3, <3>3, <4>1 DEF FileOf
                <5>2. file[path[s]].stamp = cached[s].stamp
                    BY <3>3, <4>1, <5>1
                <5>3. file[path[s]].access = cached[s].access
                    BY <3>3, <5>2 DEF TokenInv, CacheInv
                <5> QED
                    BY <3>1, <3>3, <4>1, <5>3
            <4>2. CASE x # c
                <5>1. call'[x] = call[x]
                    BY <2>3, <3>3, <4>2, IdleFacts DEF Rest
                <5> QED
                    BY <3>3, <5>1 DEF TokenInv, CacheInv
            <4> QED
                BY <4>1, <4>2
        <3> QED
            BY <3>2, <3>3 DEF TokenInv, CacheInv, Src
    <2> QED
        BY <2>4, <2>5, <2>6, <2>7, <2>8 DEF TokenInv
<1> QED
    BY <1>2, <1>3

LEMMA KeepsStart ==
    ASSUME TokenInv, TokenTypeOK', NEW c \in Callers, Start(c)
    PROVE  TokenInv'
<1>1. /\ TokenTypeOK /\ issued' \in Nat /\ FileOf(c) \in Paths /\ file[FileOf(c)] \in File
    BY CodexAssumption DEF TokenInv, TokenTypeOK, Token, FileOf, Src
<1>2. PICK op \in Ops : Continue(c, Begin(c, op, FileOf(c)))
    BY CodexAssumption DEF Start
<1> DEFINE r == Begin(c, op, FileOf(c))
<1>3. /\ r.pc \in {"stat", "lock"} /\ r.out = "none"
      /\ r.since = {file[FileOf(c)].access} /\ r \in Call
    <2>1. file[FileOf(c)].access \in Token
        BY <1>1, FileTypes
    <2> QED
        BY <2>1, IdleFacts DEF Begin, Call
<1>4. call'[c] = r /\ \A x \in Callers \ {c} : Rest(x)
    BY <1>1, <1>2, <1>3, ContinueFacts
<1>5. \A x \in Callers \ {c} : CallInv(x)'
    BY <1>1, <1>4, RestStays, StaysInv, CodexAssumption
       DEF Start, TokenInv, TokenTypeOK, Token, CallInv, Successor, Sent
<1>6. CallInv(c)'
    BY <1>3, <1>4
       DEF Start, CallInv, OwnTokens, Successor, Sent, Answered,
           MayReturn, Working, Rotating, Active, FileOf, Src
<1>7. LockInv' /\ NumberInv' /\ ApartInv'
    BY <1>3, <1>4, IdleFacts DEF Start, TokenInv, LockInv, Working, NumberInv, ApartInv, Rest
<1>8. LoginInv'
    BY <1>4, IdleFacts DEF Start, TokenInv, LoginInv, Rotating, Rest, FileOf, Src, Active
<1>9. CacheInv'
    BY <1>1, <1>3, <1>4, CacheKept, IdleFacts DEF Start, TokenInv, Rest
<1> QED
    BY <1>5, <1>6, <1>7, <1>8, <1>9 DEF TokenInv

LEMMA KeepsGetAnswer ==
    ASSUME TokenInv, TokenTypeOK', NEW c \in Callers, GetAnswer(c)
    PROVE  TokenInv'
<1> DEFINE s == Src(c)
           now == file[FileOf(c)]
           stamp == call[c].seen.stamp
<1>1. /\ call[c] \in Call /\ 0 \in Token /\ TokenTypeOK /\ issued' \in Nat
      /\ FileOf(c) \in Paths /\ now \in File /\ s \in Sources /\ cached[s] \in Cached
      /\ now.access \in Token /\ cached[s].access \in Token /\ stamp \in Nat
    <2>1. /\ call[c] \in Call /\ 0 \in Token /\ TokenTypeOK /\ issued' \in Nat
          /\ FileOf(c) \in Paths /\ now \in File /\ s \in Sources /\ cached[s] \in Cached
        BY CodexAssumption DEF TokenInv, TokenTypeOK, Token, FileOf, Src
    <2> QED
        BY <2>1 DEF File, Cached, Call
<1>2. now.access \in call[c].since
    BY DEF GetAnswer, TokenInv, CallInv, MayReturn, Active
<1>3. CASE cached[s].access # 0 /\ cached[s].stamp = stamp
    <2> DEFINE e == Ended(call[c], "token", cached[s].access)
               r == [e EXCEPT !.stale = cached[s].overtaken]
    <2>1. /\ e \in Call /\ e.pc = "idle" /\ e.got = cached[s].access /\ e.out = "token"
          /\ e.since = call[c].since \cap {cached[s].access}
        <3>1. Ended(call[c], "token", cached[s].access) \in Call
            BY <1>1, EndedFacts
        <3> QED
            BY <1>1, <3>1 DEF Ended, Idle
    <2>2. /\ r.pc = "idle" /\ r.got = e.got /\ r.since = e.since /\ r.out = e.out
          /\ r.stale = cached[s].overtaken
        BY <2>1 DEF Call
    <2>3. r \in Call
        BY <1>1, <2>1, FlagTypes DEF Cached
    <2>4. call'[c] = r /\ \A x \in Callers \ {c} : Rest(x)
        BY <1>1, <1>3, <2>3, ContinueFacts DEF GetAnswer
    <2>5. Quits(c)
        <3>1. ~cached[s].overtaken => cached[s].access \in call[c].since
            BY <1>1, <1>3 DEF GetAnswer, TokenInv, CacheInv
        <3> QED
            BY <2>1, <2>2, <2>4, <3>1 DEF Quits
    <2>6. /\ \A x \in Callers : Stays(x)
          /\ \A x \in Callers \ {c} : call'[x] = call[x] \/ call'[x].pc = "idle"
          /\ \A x \in Callers \ {c} : call'[x] = call[x] \/ call[x].pc = "idle"
        BY <2>4, <2>5, RestStays, IdleFacts DEF Stays, Rest
    <2>7. UNCHANGED cached
        BY <1>3 DEF GetAnswer
    <2>8. LockInv'
        BY <2>2, <2>1, <2>4, <2>6 DEF GetAnswer, TokenInv, LockInv, Working
    <2>9. CacheInv'
        BY <1>1, <2>1, <2>2, <2>4, <2>6, <2>7, CacheKept DEF GetAnswer, TokenInv
    <2> QED
        BY <1>1, <2>6, <2>7, <2>8, <2>9, QuietStep DEF GetAnswer, TokenInv, Rotating
<1>4. CASE ~(cached[s].access # 0 /\ cached[s].stamp = stamp)
    <2>1. PICK out \in {"token", "error"} :
             /\ Continue(c, Ended(call[c], out, IF out = "token" THEN now.access ELSE 0))
             /\ out = "token" =>
                  cached' = [cached EXCEPT ![s] =
                               [access |-> now.access, stamp |-> stamp, overtaken |-> FALSE]]
             /\ out = "error" => UNCHANGED cached
        BY <1>4 DEF GetAnswer
    <2>2. /\ \A x \in Callers : Stays(x)
          /\ call'[c].pc = "idle"
          /\ \A x \in Callers \ {c} : call'[x] = call[x] \/ call'[x].pc = "idle"
          /\ \A x \in Callers \ {c} : call'[x] = call[x] \/ call[x].pc = "idle"
        <3>1. CASE out = "token"
            BY <1>1, <1>2, <2>1, <3>1, EndStays
        <3>2. CASE out = "error"
            BY <1>1, <2>1, <3>2, EndStays
        <3> QED
            BY <3>1, <3>2
    <2>3. LockInv'
        BY <2>2 DEF GetAnswer, TokenInv, LockInv, Working
    <2>4. CacheInv'
        <3>1. CASE out = "error"
            BY <1>1, <2>1, <2>2, <3>1, CacheKept DEF GetAnswer, TokenInv
        <3>2. CASE out = "token"
            <4>1. /\ cached'[s].access = now.access /\ cached'[s].stamp = stamp
                  /\ \A t \in Sources \ {s} : cached'[t] = cached[t]
                BY <1>1, <2>1, <3>2 DEF TokenTypeOK
            <4>2. UNCHANGED <<file, path>>
                BY DEF GetAnswer
            <4>3. \A x \in Callers : Src(x) = s /\ call[x].pc = "get" => now.access \in call[x].since
                BY DEF TokenInv, CallInv, MayReturn, Active, FileOf
            <4>4. ASSUME NEW t \in Sources, cached'[t].access # 0, ~cached'[t].overtaken
                  PROVE  /\ file[path[t]].stamp = cached'[t].stamp
                                => file[path[t]].access = cached'[t].access
                         /\ \A x \in Callers :
                              Src(x) = t /\ call'[x].pc = "get"
                                  /\ call'[x].seen.stamp = cached'[t].stamp
                                => cached'[t].access \in call'[x].since
                <5>1. CASE t = s
                    BY <2>2, <4>1, <4>3, <5>1 DEF FileOf
                <5>2. CASE t # s
                    BY <2>2, <4>1, <4>4, <5>2 DEF TokenInv, CacheInv
                <5> QED
                    BY <5>1, <5>2
            <4> QED
                BY <4>2, <4>4 DEF CacheInv, Src
        <3> QED
            BY <3>1, <3>2
    <2> QED
        BY <1>1, <2>2, <2>3, <2>4, QuietStep DEF GetAnswer, TokenInv, Rotating
<1> QED
    BY <1>3, <1>4

LEMMA KeepsAcquire ==
    ASSUME TokenInv, TokenTypeOK', NEW c \in Callers, Acquire(c)
    PROVE  TokenInv'
<1> DEFINE r == [call[c] EXCEPT !.pc = "read"]
<1>1. TokenTypeOK /\ issued' \in Nat /\ call[c] \in Call /\ r \in Call
    <2>1. TokenTypeOK /\ issued' \in Nat /\ call[c] \in Call
        BY CodexAssumption DEF TokenInv, TokenTypeOK, Token
    <2> QED
        BY <2>1 DEF Call
<1>2. call'[c] = r /\ \A x \in Callers \ {c} : Rest(x)
    BY <1>1, ContinueFacts DEF Acquire
<1>3. /\ r.pc = "read" /\ r.out = call[c].out /\ r.since = call[c].since /\ Active(c)
    BY <1>1 DEF Call, Acquire, Active
<1>4. \A x \in Callers \ {c} : CallInv(x)'
    BY <1>1, <1>2, RestStays, StaysInv, CodexAssumption
       DEF Acquire, TokenInv, TokenTypeOK, Token, CallInv, Successor, Sent
<1>5. CallInv(c)'
    BY <1>2, <1>3
       DEF Acquire, TokenInv, CallInv, OwnTokens, Successor, Sent, Answered,
           MayReturn, Working, Rotating, Active, FileOf, Src
<1>6. LockInv'
    BY <1>2, IdleFacts, CodexAssumption DEF Acquire, TokenInv, LockInv, Working, Rest
<1>7. NumberInv' /\ ApartInv' /\ LoginInv'
    BY <1>2, <1>3, IdleFacts
       DEF Acquire, TokenInv, NumberInv, ApartInv, LoginInv, Rotating, Rest, FileOf, Src
<1>8. CacheInv'
    BY <1>1, <1>2, <1>3, CacheKept, IdleFacts DEF Acquire, TokenInv, Rest
<1> QED
    BY <1>4, <1>5, <1>6, <1>7, <1>8 DEF TokenInv

LEMMA KeepsReadFile ==
    ASSUME TokenInv, TokenTypeOK', NEW c \in Callers, ReadFile(c)
    PROVE  TokenInv'
<1> DEFINE f == file[FileOf(c)]
           r == [call[c] EXCEPT !.seen = f]
<1>1. /\ call[c] \in Call /\ 0 \in Token /\ TokenTypeOK /\ issued' \in Nat
      /\ FileOf(c) \in Paths /\ f \in File
    BY CodexAssumption DEF TokenInv, TokenTypeOK, Token, FileOf, Src
<1>2. r \in Call
    BY <1>1 DEF Call
<1>3. lock = c /\ \A x \in Callers \ {c} : call[x].pc # "read" /\ ~Working(x) /\ ~Rotating(x)
    BY HoldsLock DEF ReadFile
<1>4. CASE Continue(c, Ended(r, "error", 0)) /\ lock' = NoOne
    <2>1. /\ \A x \in Callers : Stays(x)
          /\ call'[c].pc = "idle"
          /\ \A x \in Callers \ {c} : call'[x] = call[x] \/ call'[x].pc = "idle"
          /\ \A x \in Callers \ {c} : call'[x] = call[x] \/ call[x].pc = "idle"
        BY <1>1, <1>2, <1>4, EndStays
    <2>2. LockInv'
        BY <1>1, <1>3, <1>4, <2>1, LockReturned DEF TokenInv
    <2>3. CacheInv'
        BY <1>1, <2>1, CacheKept DEF ReadFile, TokenInv
    <2> QED
        BY <1>1, <2>1, <2>2, <2>3, QuietStep DEF ReadFile, TokenInv, Rotating
<1>5. CASE \E place \in {"cache", "post"} :
              /\ Continue(c, [r EXCEPT !.pc = place]) /\ UNCHANGED lock
              /\ Exists(f) /\ (place = "post" => f.refresh # 0)
    <2>1. PICK place \in {"cache", "post"} :
              /\ Continue(c, [r EXCEPT !.pc = place]) /\ UNCHANGED lock
              /\ Exists(f) /\ (place = "post" => f.refresh # 0)
        BY <1>5
    <2> DEFINE d == [r EXCEPT !.pc = place]
    <2>2. d \in Call
        BY <1>2 DEF Call
    <2>3. call'[c] = d /\ \A x \in Callers \ {c} : Rest(x)
        BY <1>1, <2>1, <2>2, ContinueFacts
    <2>4. /\ d.pc \in {"cache", "post"} /\ (d.pc = "post" => f.refresh # 0)
          /\ d.seen = f /\ d.since = call[c].since /\ d.out = call[c].out
          /\ call[c].pc = "read"
        BY <1>1, <2>1 DEF Call, ReadFile
    <2>5. \A x \in Callers \ {c} : CallInv(x)'
        BY <1>1, <2>3, RestStays, StaysInv, CodexAssumption
           DEF ReadFile, TokenInv, TokenTypeOK, Token, CallInv, Successor, Sent
    <2>6. OwnTokens(c)'
        BY <1>1, <2>3, <2>4 DEF ReadFile, TokenInv, NumberInv, ApartInv, OwnTokens, Working, FileOf, Src
    <2>7. Sent(c)' /\ Successor(c)'
        <3>1. ~lost /\ f.refresh # 0 => f.refresh \in valid \cup spent
            BY <1>1, <1>3, <2>4 DEF TokenInv, LoginInv, Rotating
        <3> QED
            BY <2>3, <2>4, <3>1 DEF ReadFile, Sent, Successor, Rotating
    <2>8. Answered(c)' /\ MayReturn(c)'
        BY <2>3, <2>4
           DEF ReadFile, TokenInv, CallInv, Answered, MayReturn, Active, Working, FileOf, Src
    <2>9. LockInv'
        BY <1>3, <2>1, <2>3, <2>4, IdleFacts DEF TokenInv, LockInv, Working, Rest
    <2>10. NumberInv' /\ ApartInv' /\ LoginInv'
        BY <2>3, <2>4, IdleFacts
           DEF ReadFile, TokenInv, NumberInv, ApartInv, LoginInv, Rotating, Rest, FileOf, Src
    <2>11. CacheInv'
        BY <1>1, <2>3, <2>4, CacheKept, IdleFacts DEF ReadFile, TokenInv, Rest
    <2> QED
        BY <2>5, <2>6, <2>7, <2>8, <2>9, <2>10, <2>11 DEF TokenInv, CallInv
<1> QED
    BY <1>4, <1>5 DEF ReadFile

\* The request ends without an answer to write: the locks are given back.
LEMMA KeepsReturn ==
    ASSUME TokenInv, TokenTypeOK', NEW c \in Callers, Working(c),
           NEW e \in Call, e.pc = "idle", e.out \in {"error", "rejected"},
           e.out = "rejected" => e.theirs \/ lost', Continue(c, e),
           lock' = NoOne, UNCHANGED <<file, path, cached, app, spent>>,
           issued' >= issued, lost => lost', valid' = valid \/ lost', Rotating(c) => lost'
    PROVE  TokenInv'
<1>1. TokenTypeOK
    BY DEF TokenInv
<1>2. /\ \A x \in Callers : Stays(x)
      /\ call'[c].pc = "idle"
      /\ \A x \in Callers \ {c} : call'[x] = call[x] \/ call'[x].pc = "idle"
      /\ \A x \in Callers \ {c} : call'[x] = call[x] \/ call[x].pc = "idle"
    BY <1>1, OverStays
<1>3. LockInv'
    BY <1>1, <1>2, HoldsLock, LockReturned DEF TokenInv
<1>4. CacheInv'
    BY <1>1, <1>2, CacheKept DEF TokenInv
<1> QED
    BY <1>2, <1>3, <1>4, QuietStep DEF TokenInv, Rotating

\* The call fails.
LEMMA Failed0 ==
    ASSUME NEW r \in Call
    PROVE  /\ Ended(r, "error", 0) \in Call /\ Ended(r, "error", 0).pc = "idle"
           /\ Ended(r, "error", 0).out = "error"
BY CodexAssumption, EndedFacts DEF Token

LEMMA KeepsPostRejected ==
    ASSUME TokenInv, TokenTypeOK', NEW c \in Callers, PostRejected(c)
    PROVE  TokenInv'
<1>1. Working(c) /\ ~Rotating(c)
    BY DEF PostRejected, Working, Rotating
<1>2. issued \in Nat /\ call[c] \in Call
    BY CodexAssumption DEF TokenInv, TokenTypeOK, Token
<1> DEFINE e == Rejected(call[c])
<1>3. e \in Call /\ e.pc = "idle" /\ e.out = "rejected" /\ (e.theirs \/ lost)
    <2>1. call[c].seen.refresh \in spent \/ lost
        BY DEF PostRejected, TokenInv, CallInv, Sent
    <2> QED
        BY <1>2, <2>1, RejectedFacts
<1>4. Continue(c, e)
    BY DEF PostRejected
<1> HIDE DEF e
<1> QED
    BY <1>1, <1>2, <1>3, <1>4, KeepsReturn DEF PostRejected, Release

LEMMA KeepsPostLost ==
    ASSUME TokenInv, TokenTypeOK', NEW c \in Callers, PostLost(c)
    PROVE  TokenInv'
<1>1. Working(c) /\ ~Rotating(c)
    BY DEF PostLost, Working, Rotating
<1>2. issued \in Nat
    BY CodexAssumption DEF TokenInv, TokenTypeOK, Token
<1>3. PICK fields \in Answers :
        Rotate(call[c].seen.refresh, fields) /\ lost' = (lost \/ "refresh" \in fields)
    BY DEF PostLost
<1>4. lost \/ "refresh" \in fields => lost'
    BY <1>3, Zenon
<1>5. issued' >= issued /\ (lost => lost') /\ (valid' = valid \/ lost')
    BY <1>2, <1>3, <1>4 DEF Rotate
<1>6. call[c] \in Call
    BY DEF TokenInv, TokenTypeOK
<1> QED
    BY <1>1, <1>5, <1>6, Failed0, KeepsReturn DEF PostLost, Release

LEMMA KeepsPersistFails ==
    ASSUME TokenInv, TokenTypeOK', NEW c \in Callers, PersistFails(c)
    PROVE  TokenInv'
<1>1. Working(c) /\ issued \in Nat /\ call[c] \in Call
    BY CodexAssumption DEF PersistFails, Working, TokenInv, TokenTypeOK, Token
<1>2. lost \/ "refresh" \in call[c].fields => lost'
    BY Zenon DEF PersistFails
<1> QED
    BY <1>1, <1>2, Failed0, KeepsReturn DEF PersistFails, Release, Rotating

LEMMA KeepsPostAnswered ==
    ASSUME TokenInv, TokenTypeOK', NEW c \in Callers, PostAnswered(c)
    PROVE  TokenInv'
<1>1. Working(c) /\ ~Rotating(c) /\ call[c].pc = "post"
    BY DEF PostAnswered, Working, Rotating
<1>2. /\ TokenTypeOK /\ issued \in Nat /\ call[c] \in Call /\ FileOf(c) \in Paths
      /\ \A q \in Paths : file[q].refresh \in Nat /\ app[q] \in Nat
      /\ call[c].seen.refresh \in Nat
    <2>1. /\ TokenTypeOK /\ issued \in Nat /\ call[c] \in Call /\ FileOf(c) \in Paths
          /\ \A q \in Paths : file[q] \in File /\ app[q] \in Token
        BY CodexAssumption DEF TokenInv, TokenTypeOK, Token, FileOf, Src
    <2> QED
        BY <2>1, CodexAssumption DEF Call, File, Token
<1>3. PICK fields \in Answers :
        IF fields = {}
        THEN /\ Continue(c, Ended(call[c], "error", 0))
             /\ Release(c)
             /\ UNCHANGED <<issued, valid>>
        ELSE /\ Rotate(call[c].seen.refresh, fields)
             /\ Continue(c, [call[c] EXCEPT !.pc = "persist", !.fields = fields, !.new = issued + 1])
             /\ UNCHANGED <<lock, mu>>
    BY DEF PostAnswered
<1>4. CASE fields = {}
    BY <1>1, <1>2, <1>3, <1>4, Failed0, KeepsReturn DEF PostAnswered, Release
<1>5. CASE fields # {}
    <2> DEFINE d == [call[c] EXCEPT !.pc = "persist", !.fields = fields, !.new = issued + 1]
               t == call[c].seen.refresh
    <2>1. /\ issued' = issued + 1 /\ issued' \in Token
          /\ valid' = IF "refresh" \in fields THEN (valid \ {t}) \cup {issued + 1} ELSE valid
        BY <1>2, <1>3, <1>5, RotateTypes DEF Rotate
    <2>2. d \in Call
        BY <1>2, <2>1, CodexAssumption DEF Call
    <2>3. call'[c] = d /\ \A x \in Callers \ {c} : Rest(x)
        BY <1>2, <1>3, <1>5, <2>2, ContinueFacts
    <2>4. /\ d.pc = "persist" /\ d.fields = fields /\ d.new = issued + 1
          /\ d.seen = call[c].seen /\ d.since = call[c].since /\ d.out = call[c].out
        BY <1>2 DEF Call
    <2>5. UNCHANGED <<file, path, cached, app, spent, lost, lock>>
        BY <1>3, <1>5 DEF PostAnswered
    <2>6. \A x \in Callers \ {c} : ~Rotating(x) /\ ~Rotating(x)'
        BY <1>1, <2>3, HoldsLock, IdleFacts DEF Rest, Rotating
    <2>7. \A x \in Callers \ {c} : CallInv(x)'
        <3>1. SUFFICES ASSUME NEW x \in Callers, x # c PROVE CallInv(x)'
            OBVIOUS
        <3>2. /\ Stays(x) /\ ~Rotating(x) /\ call[x].pc # "post" /\ CallInv(x)
            BY <1>1, <2>3, <3>1, RestStays, HoldsLock DEF TokenInv, Working, Rotating
        <3>3. /\ issued' \in Nat /\ issued' >= issued /\ (lost => lost')
              /\ \A q \in Paths : app'[q] \in {0, app[q]} \/ app'[q] > issued
            BY <1>2, <2>1, <2>5
        <3> HIDE DEF d
        <3> QED
            BY <1>2, <2>5, <3>2, <3>3, StaysInv
    <2>8. OwnTokens(c)'
        <3>1. /\ t <= issued
              /\ t # 0 => \A q \in Paths : /\ q # FileOf(c) => t # file[q].refresh
                                          /\ t # app[q]
            BY <1>1 DEF TokenInv, CallInv, OwnTokens
        <3>2. \A q \in Paths : file[q].refresh <= issued /\ app[q] <= issued
            BY DEF TokenInv, NumberInv
        <3> QED
            BY <1>2, <2>1, <2>3, <2>4, <2>5, <3>1, <3>2 DEF OwnTokens, Working, FileOf, Src
    <2>9. Sent(c)' /\ Successor(c)'
        BY <2>1, <2>3, <2>4 DEF Sent, Successor, Rotating
    <2>10. Answered(c)' /\ MayReturn(c)'
        BY <1>1, <2>3, <2>4, <2>5
           DEF TokenInv, CallInv, Answered, MayReturn, Active, Working, FileOf, Src
    <2>11. LockInv'
        BY <1>1, <2>3, <2>5, HoldsLock, IdleFacts DEF TokenInv, LockInv, Working, Rest
    <2>12. NumberInv' /\ ApartInv'
        BY <1>2, <2>1, <2>5 DEF TokenInv, NumberInv, ApartInv
    <2>13. LoginInv'
        <3>1. SUFFICES ASSUME ~lost, NEW p \in Paths
                       PROVE  /\ app[p] # 0 => app[p] \in valid'
                              /\ file[p].refresh # 0 =>
                                   \/ file[p].refresh \in valid'
                                   \/ app[p] # 0 /\ file[p].refresh \in spent
                                   \/ \E x \in Callers : Rotating(x)' /\ FileOf(x) = p
            BY <2>5 DEF LoginInv, FileOf, Src
        <3>2. /\ app[p] # 0 => app[p] \in valid
              /\ file[p].refresh # 0 =>
                   \/ file[p].refresh \in valid
                   \/ app[p] # 0 /\ file[p].refresh \in spent
            BY <1>1, <2>6, <3>1 DEF TokenInv, LoginInv
        <3>3. t # 0 /\ \A q \in Paths : /\ q # FileOf(c) => t # file[q].refresh
                                       /\ t # app[q]
            BY <1>1 DEF TokenInv, CallInv, OwnTokens
        <3>4. app[p] # 0 => app[p] \in valid'
            BY <2>1, <3>2, <3>3
        <3>5. CASE "refresh" \in fields /\ p = FileOf(c)
            BY <2>3, <2>4, <3>4, <3>5 DEF Rotating
        <3>6. CASE ~("refresh" \in fields /\ p = FileOf(c))
            BY <2>1, <3>2, <3>3, <3>4, <3>6
        <3> QED
            BY <3>5, <3>6
    <2>14. CacheInv'
        BY <1>2, <2>3, <2>4, <2>5, CacheKept, IdleFacts DEF TokenInv, Rest
    <2> QED
        BY <2>7, <2>8, <2>9, <2>10, <2>11, <2>12, <2>13, <2>14 DEF TokenInv, CallInv
<1> QED
    BY <1>4, <1>5

LEMMA KeepsCacheLocked ==
    ASSUME TokenInv, TokenTypeOK', NEW c \in Callers, CacheLocked(c)
    PROVE  TokenInv'
<1> DEFINE s == Src(c)
           now == file[path[s]]
           got == call[c].seen.access
<1>1. /\ call[c] \in Call /\ 0 \in Token /\ TokenTypeOK /\ issued' \in Nat
      /\ s \in Sources /\ path[s] \in Paths /\ got \in Token
    <2>1. /\ call[c] \in Call /\ 0 \in Token /\ TokenTypeOK /\ issued' \in Nat
          /\ s \in Sources /\ path[s] \in Paths
        BY CodexAssumption DEF TokenInv, TokenTypeOK, Token, Src, CacheLocked
    <2> QED
        BY <2>1 DEF Call, File
<1>2. got \in call[c].since /\ Working(c) /\ ~Rotating(c)
    BY DEF CacheLocked, TokenInv, CallInv, MayReturn, Working, Rotating
<1>3. PICK out \in {"token", "error"} :
        /\ Continue(c, Ended(call[c], out, IF out = "token" THEN got ELSE 0))
        /\ out = "token" =>
             cached' = [cached EXCEPT ![s] = [access |-> got, stamp |-> now.stamp,
                                              overtaken |-> now.access # got]]
        /\ out = "error" => UNCHANGED cached
        /\ out = "token" => Exists(now)
    BY DEF CacheLocked
<1>4. /\ \A x \in Callers : Stays(x)
      /\ call'[c].pc = "idle"
      /\ \A x \in Callers \ {c} : call'[x] = call[x] \/ call'[x].pc = "idle"
      /\ \A x \in Callers \ {c} : call'[x] = call[x] \/ call[x].pc = "idle"
    <2>1. CASE out = "token"
        BY <1>1, <1>2, <1>3, <2>1, EndStays
    <2>2. CASE out = "error"
        BY <1>1, <1>3, <2>2, EndStays
    <2> QED
        BY <2>1, <2>2
<1>5. LockInv'
    BY <1>1, <1>2, <1>4, HoldsLock, LockReturned DEF CacheLocked, Release, TokenInv
<1>6. CacheInv'
    <2>1. CASE out = "error"
        BY <1>1, <1>3, <1>4, <2>1, CacheKept DEF CacheLocked, TokenInv
    <2>2. CASE out = "token"
        <3>1. /\ cached'[s].access = got /\ cached'[s].stamp = now.stamp
              /\ ~cached'[s].overtaken => now.access = got
              /\ \A t \in Sources \ {s} : cached'[t] = cached[t]
            <4>1. CASE now.access = got
                BY <1>1, <1>3, <2>2, <4>1 DEF TokenTypeOK
            <4>2. CASE now.access # got
                <5>1. cached' = [cached EXCEPT ![s] = [access |-> got, stamp |-> now.stamp,
                                                       overtaken |-> TRUE]]
                    BY <1>3, <2>2, <4>2, Zenon
                <5> QED
                    BY <1>1, <5>1 DEF TokenTypeOK
            <4> QED
                BY <4>1, <4>2
        <3>2. UNCHANGED <<file, path>>
            BY DEF CacheLocked
        <3>3. \A x \in Callers : Src(x) = s /\ call[x].pc = "get" => now.access \in call[x].since
            BY DEF TokenInv, CallInv, MayReturn, Active, FileOf
        <3>4. ASSUME NEW t \in Sources, cached'[t].access # 0, ~cached'[t].overtaken
              PROVE  /\ file[path[t]].stamp = cached'[t].stamp
                            => file[path[t]].access = cached'[t].access
                     /\ \A x \in Callers :
                          Src(x) = t /\ call'[x].pc = "get"
                              /\ call'[x].seen.stamp = cached'[t].stamp
                            => cached'[t].access \in call'[x].since
            <4>1. CASE t = s
                BY <1>4, <3>1, <3>3, <3>4, <4>1
            <4>2. CASE t # s
                BY <1>4, <3>1, <3>4, <4>2 DEF TokenInv, CacheInv
            <4> QED
                BY <4>1, <4>2
        <3> QED
            BY <3>2, <3>4 DEF CacheInv, Src
    <2> QED
        BY <2>1, <2>2
<1> QED
    BY <1>1, <1>2, <1>4, <1>5, <1>6, QuietStep DEF CacheLocked, TokenInv, Rotating

LEMMA KeepsCrash ==
    ASSUME TokenInv, TokenTypeOK', NEW s \in Sources, Crash(s)
    PROVE  TokenInv'
<1> DEFINE mine == {c \in Callers : Src(c) = s}
<1>1. issued \in Nat /\ TokenTypeOK
    BY CodexAssumption DEF TokenInv, TokenTypeOK, Token
<1>2. \A c \in Callers : call'[c] = IF c \in mine THEN Idle ELSE call[c]
    BY DEF Crash
<1>3. \A c \in Callers : Stays(c)
    BY <1>2, IdleFacts DEF Stays, Quits
<1>4. lost \/ (\E c \in mine : Rotating(c)) => lost'
    BY Zenon DEF Crash, Rotating
<1>5. LockInv'
    BY <1>2, IdleFacts DEF Crash, TokenInv, LockInv, Working
<1>6. \A t \in Sources : cached'[t] = cached[t] \/ cached'[t] = NotCached
    BY DEF Crash, TokenInv, TokenTypeOK
<1>7. CacheInv'
    BY <1>1, <1>2, <1>6, IdleFacts, CacheKept DEF Crash, TokenInv, NotCached
<1> QED
    BY <1>1, <1>2, <1>3, <1>4, <1>5, <1>7, QuietStep DEF Crash

(* Writes of a file. *)

\* What a write of f to p does to the call of another.
Touched(c, p, f) ==
    \/ call[c].pc = "idle" /\ call'[c] \in {call[c], Idle}
    \/ /\ call[c].pc # "idle" /\ call'[c].pc = call[c].pc
       /\ call'[c].seen = call[c].seen /\ call'[c].fields = call[c].fields
       /\ call'[c].new = call[c].new /\ call'[c].out = call[c].out
       /\ call[c].since \subseteq call'[c].since
       /\ FileOf(c) = p => f.access \in call'[c].since

LEMMA TouchedInv ==
    ASSUME TokenTypeOK, NEW c \in Callers, CallInv(c), NEW p \in Paths, NEW f \in File,
           Touched(c, p, f),
           file' = [file EXCEPT ![p] = f],
           UNCHANGED path, issued' \in Nat, issued' >= issued, lost => lost',
           \A q \in Paths : app'[q] \in {0, app[q]},
           Working(c) /\ call[c].seen.refresh # 0 => f.refresh # call[c].seen.refresh,
           call[c].pc = "persist" => f.refresh # call[c].new,
           ~lost' /\ Rotating(c) => call[c].new \in valid',
           ~lost' /\ call[c].pc = "post" => call[c].seen.refresh \in valid' \cup spent'
    PROVE  CallInv(c)'
<1>1. /\ issued \in Nat /\ call[c] \in Call /\ FileOf(c) \in Paths
      /\ FileOf(c)' = FileOf(c)
      /\ \A q \in Paths : file'[q] = IF q = p THEN f ELSE file[q]
    BY CodexAssumption DEF TokenTypeOK, Token, FileOf, Src
<1>2. call[c].seen.refresh \in Nat /\ call[c].new \in Nat /\ f.refresh \in Nat
    BY <1>1, CodexAssumption DEF Call, File, Token
<1>3. CASE call[c].pc = "idle"
    <2>1. call'[c].pc = "idle" /\ call'[c] \in {call[c], Idle}
        BY <1>3, IdleFacts DEF Touched
    <2> QED
        BY <2>1, IdleFacts
           DEF CallInv, OwnTokens, Successor, Sent, Answered, MayReturn, Working, Rotating, Active
<1>4. CASE call[c].pc # "idle"
    <2>1. /\ call'[c].pc = call[c].pc
          /\ call'[c].seen = call[c].seen /\ call'[c].fields = call[c].fields
          /\ call'[c].new = call[c].new /\ call'[c].out = call[c].out
          /\ call[c].since \subseteq call'[c].since
          /\ FileOf(c) = p => f.access \in call'[c].since
        BY <1>4 DEF Touched
    <2>2. OwnTokens(c)'
        BY <1>1, <1>2, <2>1 DEF CallInv, OwnTokens, Working
    <2>3. Successor(c)' /\ Sent(c)'
        BY <2>1 DEF CallInv, Successor, Sent, Rotating
    <2>4. Answered(c)' /\ MayReturn(c)'
        BY <1>1, <1>4, <2>1 DEF CallInv, Answered, MayReturn, Active, Working
    <2> QED
        BY <2>2, <2>3, <2>4 DEF CallInv
<1> QED
    BY <1>3, <1>4

\* A cache whose stamp the write gives to another token is overtaken, and the calls
\* in progress may return the token written, so the cache gives what it may.
LEMMA CacheAfterWrite ==
    ASSUME TokenInv, NEW p \in Paths, NEW f \in File,
           file' = [file EXCEPT ![p] = f], Overtake(p, f), UNCHANGED path,
           \A c \in Callers :
               call'[c].pc = "get" =>
                   /\ call[c].pc = "get" /\ call'[c].seen = call[c].seen
                   /\ call[c].since \subseteq call'[c].since
    PROVE  CacheInv'
<1>1. /\ TokenTypeOK /\ \A q \in Paths : file'[q] = IF q = p THEN f ELSE file[q]
      /\ \A s \in Sources : path[s] \in Paths
    BY DEF TokenInv, TokenTypeOK
<1>2. \A s \in Sources :
        /\ cached'[s].access = cached[s].access /\ cached'[s].stamp = cached[s].stamp
        /\ ~cached'[s].overtaken =>
             /\ ~cached[s].overtaken
             /\ path[s] = p /\ f.stamp = cached[s].stamp => f.access = cached[s].access
    BY <1>1, OvertakeFacts
<1> QED
    BY <1>1, <1>2 DEF TokenInv, CacheInv, Src

LEMMA KeepsPersist ==
    ASSUME TokenInv, TokenTypeOK', NEW c \in Callers, Persist(c)
    PROVE  TokenInv'
<1> DEFINE p == FileOf(c)
<1>1. /\ call[c] \in Call /\ 0 \in Token /\ TokenTypeOK /\ p \in Paths /\ issued \in Nat
    BY CodexAssumption DEF TokenInv, TokenTypeOK, FileOf, Src, Token
<1>2. PICK f \in File, d \in Call :
        /\ f.refresh = IF Rotating(c) THEN call[c].new ELSE call[c].seen.refresh
        /\ file' = [file EXCEPT ![p] = f] /\ Overtake(p, f)
        /\ call' = Seen([call EXCEPT ![c] = d], p, f)
        /\ \/ d.pc = "idle" /\ d.out = "error" /\ Release(c)
           \/ /\ d.pc = "cache" /\ d.seen = f /\ d.out = call[c].out
              /\ d.since = call[c].since /\ UNCHANGED <<lock, mu>>
        /\ lost' = (lost \/ file[p] # call[c].seen)
        /\ UNCHANGED <<issued, valid, expired, path, app, spent>>
    BY <1>1, PersistFacts
<1>3. f.access \in Token /\ f.refresh \in Nat
    BY CodexAssumption DEF File, Token
<1>4. \A q \in Paths : file'[q] = IF q = p THEN f ELSE file[q]
    BY <1>2 DEF TokenInv, TokenTypeOK
<1>5. /\ Working(c) /\ call[c].pc = "persist" /\ lock = c
      /\ \A x \in Callers \ {c} : call[x].pc # "read" /\ ~Working(x) /\ ~Rotating(x)
    BY HoldsLock DEF Persist, Working
<1>6. (lost => lost') /\ (~lost' => file[p] = call[c].seen)
    <2>1. lost \/ file[p] # call[c].seen => lost'
        BY <1>2, Zenon
    <2> QED
        BY <2>1
<1>7. /\ f.refresh <= issued
      /\ f.refresh # 0 => \A q \in Paths : /\ q # p => f.refresh # file[q].refresh
                                          /\ f.refresh # app[q]
    <2>1. OwnTokens(c)
        BY DEF TokenInv, CallInv
    <2> QED
        BY <1>2, <1>5, <2>1 DEF OwnTokens
<1>8. \/ d.pc = "idle" /\ d.out = "error" /\ lock' = NoOne
      \/ /\ d.pc = "cache" /\ d.seen = f /\ d.out = call[c].out
         /\ d.since = call[c].since /\ UNCHANGED lock
    BY <1>2 DEF Release
<1> HIDE DEF p
<1>9. \A x \in Callers \ {c} : Touched(x, p, f)
    <2>1. SUFFICES ASSUME NEW x \in Callers, x # c PROVE Touched(x, p, f)
        OBVIOUS
    <2> DEFINE cs == [call EXCEPT ![c] = d]
    <2>2. /\ cs \in [Callers -> Call] /\ cs[x] = call[x] /\ call[x] \in Call
          /\ call' = Seen(cs, p, f)
        BY <1>1, <1>2, <2>1 DEF TokenTypeOK
    <2> HIDE DEF cs
    <2>3. CASE call[x].pc = "idle"
        <3>1. Seen(cs, p, f)[x] \in {cs[x], Idle}
            BY <1>1, <1>2, <2>2, <2>3, SeenFacts
        <3> QED
            BY <2>2, <2>3, <3>1 DEF Touched
    <2>4. CASE call[x].pc # "idle"
        <3>1. call'[x] = IF FileOf(x) = p THEN [call[x] EXCEPT !.since = @ \cup {f.access}]
                                          ELSE call[x]
            BY <1>1, <1>2, <2>2, <2>4, SeenFacts
        <3> QED
            BY <1>5, <2>1, <2>2, <2>4, <3>1 DEF Touched, Call
    <2> QED
        BY <2>3, <2>4
<1>10. \/ call'[c].pc = "idle" /\ call'[c].out \in {"none", "error"} /\ lock' = NoOne
       \/ /\ call'[c].pc = "cache" /\ call'[c].seen = f /\ call'[c].out = call[c].out
          /\ call[c].since \subseteq call'[c].since /\ f.access \in call'[c].since
          /\ UNCHANGED lock
    <2> DEFINE cs == [call EXCEPT ![c] = d]
    <2>1. cs \in [Callers -> Call] /\ cs[c] = d
        BY <1>1 DEF TokenTypeOK
    <2>2. CASE d.pc = "idle"
        <3>1. call'[c] \in {d, Idle}
            BY <1>1, <1>2, <2>1, <2>2, SeenFacts
        <3> QED
            BY <1>8, <2>2, <3>1, IdleFacts
    <2>3. CASE d.pc # "idle"
        <3>1. call'[c] = [d EXCEPT !.since = @ \cup {f.access}]
            BY <1>1, <1>2, <2>1, <2>3, SeenFacts DEF p
        <3> QED
            BY <1>8, <2>3, <3>1 DEF Call
    <2> QED
        BY <2>2, <2>3
<1>11. \A x \in Callers \ {c} : CallInv(x)'
    <2>1. SUFFICES ASSUME NEW x \in Callers, x # c PROVE CallInv(x)'
        OBVIOUS
    <2>2. /\ ~Working(x) /\ ~Rotating(x) /\ CallInv(x) /\ Touched(x, p, f)
          /\ call[x].pc \notin {"post", "persist"}
        BY <1>5, <1>9, <2>1 DEF TokenInv, Working
    <2>3. /\ issued' \in Nat /\ issued' >= issued /\ UNCHANGED path
          /\ \A q \in Paths : app'[q] \in {0, app[q]}
        BY <1>1, <1>2
    <2> QED
        BY <1>1, <1>2, <1>6, <2>2, <2>3, TouchedInv
<1>12. CallInv(c)'
    <2>1. call[c].out = "none"
        BY <1>5 DEF TokenInv, CallInv, Answered, Active
    <2>2. FileOf(c)' = p /\ file'[p] = f
        BY <1>1, <1>2, <1>4 DEF p, FileOf, Src
    <2>3. OwnTokens(c)'
        BY <1>2, <1>4, <1>7, <1>10, <2>2 DEF OwnTokens, Working
    <2> QED
        BY <1>10, <2>1, <2>2, <2>3
           DEF CallInv, Successor, Sent, Answered, MayReturn, Working, Rotating, Active
<1>13. LockInv'
    BY <1>5, <1>9, <1>10, IdleFacts DEF LockInv, Working, Touched
<1>14. NumberInv' /\ ApartInv'
    <2>1. \A q \in Paths : file[q].refresh <= issued /\ app[q] <= issued
        BY DEF TokenInv, NumberInv
    <2>2. \A q1, q2 \in Paths :
            /\ q1 # q2 /\ file[q1].refresh # 0 => file[q1].refresh # file[q2].refresh
            /\ app[q1] # 0 => app[q1] # file[q2].refresh
            /\ q1 # q2 /\ app[q1] # 0 => app[q1] # app[q2]
        BY DEF TokenInv, ApartInv
    <2>3. app' = app /\ issued' = issued
        BY <1>2
    <2>4. NumberInv'
        BY <1>4, <1>7, <2>1, <2>3 DEF NumberInv
    <2>5. ApartInv'
        BY <1>4, <1>7, <2>2, <2>3 DEF ApartInv
    <2> QED
        BY <2>4, <2>5
<1>15. LoginInv'
    <2>1. SUFFICES ASSUME ~lost', NEW q \in Paths
                   PROVE  /\ app[q] # 0 => app[q] \in valid
                          /\ file'[q].refresh # 0 =>
                               \/ file'[q].refresh \in valid
                               \/ app[q] # 0 /\ file'[q].refresh \in spent
        BY <1>2 DEF LoginInv
    <2>2. /\ app[q] # 0 => app[q] \in valid
          /\ file[q].refresh # 0 =>
               \/ file[q].refresh \in valid
               \/ app[q] # 0 /\ file[q].refresh \in spent
               \/ Rotating(c) /\ q = p
        BY <1>5, <1>6, <2>1 DEF TokenInv, LoginInv, p
    <2>3. CASE q # p
        BY <1>4, <2>2, <2>3
    <2>4. CASE q = p /\ Rotating(c)
        BY <1>2, <1>4, <1>6, <2>1, <2>2, <2>4 DEF TokenInv, CallInv, Successor
    <2>5. CASE q = p /\ ~Rotating(c)
        BY <1>2, <1>4, <1>6, <2>1, <2>2, <2>5
    <2> QED
        BY <2>3, <2>4, <2>5
<1>16. CacheInv'
    <2>1. \A x \in Callers : call'[x].pc = "get" =>
            /\ call[x].pc = "get" /\ call'[x].seen = call[x].seen
            /\ call[x].since \subseteq call'[x].since
        BY <1>9, <1>10, IdleFacts DEF Touched
    <2> QED
        BY <1>1, <1>2, <2>1, CacheAfterWrite
<1> QED
    BY <1>11, <1>12, <1>13, <1>14, <1>15, <1>16 DEF TokenInv

\* The app has its token rotated: what it sent is spent, what it got is nowhere else.
LEMMA KeepsAppPost ==
    ASSUME TokenInv, TokenTypeOK', NEW p \in Paths, AppPost(p)
    PROVE  TokenInv'
<1> DEFINE t == file[p].refresh
<1>1. /\ TokenTypeOK /\ issued \in Nat /\ issued' \in Nat
      /\ \A q \in Paths : file[q].refresh \in Nat /\ app[q] \in Nat
    <2>1. /\ TokenTypeOK /\ issued \in Nat /\ issued' \in Nat
          /\ \A q \in Paths : file[q] \in File /\ app[q] \in Nat
        BY CodexAssumption DEF TokenInv, TokenTypeOK, Token
    <2> QED
        BY <2>1, CodexAssumption DEF File, Token
<1>2. /\ app[p] = 0 /\ t \in valid /\ issued' = issued + 1
      /\ valid' = (valid \ {t}) \cup {issued + 1} /\ spent' = spent \cup {t}
      /\ UNCHANGED <<file, lock, path, cached, call, lost>>
      /\ \A q \in Paths : app'[q] = IF q = p THEN issued + 1 ELSE app[q]
    BY <1>1 DEF AppPost, Rotate, TokenTypeOK
<1>3. \A q \in Paths : /\ file[q].refresh <= issued /\ app[q] <= issued
                       /\ app[q] # 0 => app[q] # t
                       /\ q # p /\ file[q].refresh # 0 => file[q].refresh # t
    BY DEF TokenInv, NumberInv, ApartInv
<1>4. ASSUME NEW c \in Callers PROVE CallInv(c)'
    <2>1. ~lost' /\ Rotating(c) => call[c].new \in valid'
        BY <1>2 DEF TokenInv, CallInv, Successor, OwnTokens, Rotating
    <2>2. ~lost' /\ call[c].pc = "post" => call[c].seen.refresh \in valid' \cup spent'
        BY <1>2 DEF TokenInv, CallInv, Sent
    <2>3. Stays(c) /\ CallInv(c)
        BY <1>2 DEF Stays, TokenInv
    <2>4. \A q \in Paths : app'[q] \in {0, app[q]} \/ app'[q] > issued
        BY <1>1, <1>2
    <2>5. issued' >= issued
        BY <1>1, <1>2
    <2> HIDE DEF t
    <2> QED
        BY <1>1, <1>2, <2>1, <2>2, <2>3, <2>4, <2>5, StaysInv
<1>5. LockInv'
    BY <1>2 DEF TokenInv, LockInv, Working
<1>6. NumberInv'
    BY <1>1, <1>2, <1>3 DEF NumberInv
<1>7. ApartInv'
    BY <1>1, <1>2, <1>3 DEF TokenInv, ApartInv
<1>8. LoginInv'
    <2>1. SUFFICES ASSUME ~lost, NEW q \in Paths
                   PROVE  /\ app'[q] # 0 => app'[q] \in valid'
                          /\ file[q].refresh # 0 =>
                               \/ file[q].refresh \in valid'
                               \/ app'[q] # 0 /\ file[q].refresh \in spent'
                               \/ \E x \in Callers : Rotating(x) /\ FileOf(x) = q
        BY <1>2 DEF LoginInv, Rotating, FileOf, Src
    <2>2. /\ app[q] # 0 => app[q] \in valid
          /\ file[q].refresh # 0 =>
               \/ file[q].refresh \in valid
               \/ app[q] # 0 /\ file[q].refresh \in spent
               \/ \E x \in Callers : Rotating(x) /\ FileOf(x) = q
        BY <2>1 DEF TokenInv, LoginInv
    <2>3. CASE q = p
        BY <1>1, <1>2, <2>3
    <2>4. CASE q # p
        BY <1>2, <1>3, <2>2, <2>4
    <2> QED
        BY <2>3, <2>4
<1>9. CacheInv'
    BY <1>1, <1>2, CacheKept DEF TokenInv
<1> QED
    BY <1>4, <1>5, <1>6, <1>7, <1>8, <1>9 DEF TokenInv

\* The app writes a file: nothing, a new login, or what it has got for the old one.
LEMMA KeepsApp ==
    ASSUME TokenInv, TokenTypeOK', NEW p \in Paths,
           AppWrite(p) \/ AppLogin(p) \/ AppLogout(p)
    PROVE  TokenInv'
<1> DEFINE t == file[p].refresh
<1>1. /\ TokenTypeOK /\ issued \in Nat /\ issued' \in Nat
      /\ \A q \in Paths : file[q].refresh \in Nat /\ app[q] \in Nat
    <2>1. /\ TokenTypeOK /\ issued \in Nat /\ issued' \in Nat
          /\ \A q \in Paths : file[q] \in File /\ app[q] \in Nat
        BY CodexAssumption DEF TokenInv, TokenTypeOK, Token
    <2> QED
        BY <2>1, CodexAssumption DEF File, Token
<1>2. PICK f \in File :
        /\ AppWrites(p, f)
        /\ \/ /\ f.refresh = 0 /\ issued' = issued /\ app' = app
              /\ valid' = valid \ {t} /\ spent' = spent \cup {t}
           \/ /\ f.refresh = issued + 1 /\ issued' = issued + 1 /\ app' = app
              /\ valid' = valid \cup {issued + 1} /\ spent' = spent
           \/ /\ f.refresh = app[p] /\ app[p] # 0 /\ issued' = issued
              /\ app' = [app EXCEPT ![p] = 0] /\ valid' = valid /\ spent' = spent
    <2>1. CASE AppLogout(p)
        <3>1. Absent \in File /\ Absent.refresh = 0
            BY FileTypes DEF Absent
        <3> QED
            BY <2>1, <3>1 DEF AppLogout
    <2>2. CASE AppLogin(p)
        <3>1. issued + 1 \in Token
            BY <2>2 DEF AppLogin, TokenTypeOK
        <3>2. PICK stamp \in Stamps : AppWrites(p, Login(stamp, issued + 1))
            BY <2>2 DEF AppLogin
        <3>3. Login(stamp, issued + 1) \in File /\ Login(stamp, issued + 1).refresh = issued + 1
            BY <3>1, FileTypes
        <3> QED
            BY <2>2, <3>2, <3>3 DEF AppLogin
    <2>3. CASE AppWrite(p)
        <3>1. app[p] \in Token
            BY <1>1 DEF TokenTypeOK
        <3>2. PICK stamp \in Stamps : AppWrites(p, Login(stamp, app[p]))
            BY <2>3 DEF AppWrite
        <3>3. Login(stamp, app[p]) \in File /\ Login(stamp, app[p]).refresh = app[p]
            BY <3>1, FileTypes
        <3> QED
            BY <2>3, <3>2, <3>3 DEF AppWrite
    <2> QED
        BY <2>1, <2>2, <2>3
<1>3. /\ file' = [file EXCEPT ![p] = f] /\ Overtake(p, f) /\ call' = Seen(call, p, f)
      /\ UNCHANGED <<lock, path, lost>>
      /\ \A q \in Paths : file'[q] = IF q = p THEN f ELSE file[q]
      /\ \A q \in Paths : app'[q] \in {0, app[q]} /\ (app'[q] # 0 => app'[q] = app[q])
    BY <1>1, <1>2 DEF AppWrites, TokenTypeOK
<1>4. /\ issued' >= issued /\ f.refresh <= issued'
      /\ f.refresh \in {0, issued + 1} \/ (f.refresh = app[p] /\ app[p] # 0 /\ app'[p] = 0)
      /\ valid \ {t} \subseteq valid' /\ valid \subseteq valid' \cup spent'
      /\ spent \subseteq spent'
    <2>1. \A q \in Paths : app[q] <= issued
        BY DEF TokenInv, NumberInv
    <2>2. app'[p] = 0 \/ app' = app
        BY <1>1, <1>2 DEF TokenTypeOK
    <2>3. f.refresh = app[p] /\ app[p] # 0 /\ app' = [app EXCEPT ![p] = 0] => app'[p] = 0
        BY <1>1 DEF TokenTypeOK
    <2> QED
        BY <1>1, <1>2, <2>1, <2>3
<1>5. \A x \in Callers : Touched(x, p, f)
    <2>1. SUFFICES ASSUME NEW x \in Callers PROVE Touched(x, p, f)
        OBVIOUS
    <2>2. call[x] \in Call /\ call \in [Callers -> Call]
        BY <1>1 DEF TokenTypeOK
    <2>3. CASE call[x].pc = "idle"
        BY <1>3, <2>2, <2>3, SeenFacts DEF Touched
    <2>4. CASE call[x].pc # "idle"
        <3>1. call'[x] = IF FileOf(x) = p THEN [call[x] EXCEPT !.since = @ \cup {f.access}]
                                          ELSE call[x]
            BY <1>3, <2>2, <2>4, SeenFacts
        <3> QED
            BY <2>2, <2>4, <3>1 DEF Touched, Call
    <2> QED
        BY <2>3, <2>4
<1>6. \A x \in Callers : CallInv(x)'
    <2>1. SUFFICES ASSUME NEW x \in Callers PROVE CallInv(x)'
        OBVIOUS
    <2>2. CallInv(x) /\ OwnTokens(x) /\ Successor(x) /\ Sent(x)
        BY DEF TokenInv, CallInv
    <2>3. call[x].seen.refresh \in Nat /\ call[x].new \in Nat
        <3>1. call[x] \in Call
            BY <1>1 DEF TokenTypeOK
        <3> QED
            BY <3>1, CodexAssumption DEF Call, File, Token
    <2>4. Working(x) /\ call[x].seen.refresh # 0 => f.refresh # call[x].seen.refresh
        BY <1>1, <1>4, <2>2, <2>3 DEF OwnTokens
    <2>5. call[x].pc = "persist" => f.refresh # call[x].new
        BY <1>1, <1>4, <2>2, <2>3 DEF OwnTokens
    <2>6. ~lost' /\ Rotating(x) => call[x].new \in valid'
        BY <1>3, <1>4, <2>2 DEF Successor, OwnTokens, Rotating
    <2>7. ~lost' /\ call[x].pc = "post" => call[x].seen.refresh \in valid' \cup spent'
        BY <1>3, <1>4, <2>2 DEF Sent
    <2> HIDE DEF t
    <2> QED
        BY <1>1, <1>3, <1>4, <1>5, <2>2, <2>4, <2>5, <2>6, <2>7, TouchedInv
<1>7. LockInv'
    BY <1>3, <1>5, IdleFacts DEF TokenInv, LockInv, Working, Touched
<1>8. NumberInv' /\ ApartInv'
    <2>1. \A q \in Paths : file[q].refresh <= issued /\ app[q] <= issued
        BY DEF TokenInv, NumberInv
    <2>2. \A q1, q2 \in Paths :
            /\ q1 # q2 /\ file[q1].refresh # 0 => file[q1].refresh # file[q2].refresh
            /\ app[q1] # 0 => app[q1] # file[q2].refresh
            /\ q1 # q2 /\ app[q1] # 0 => app[q1] # app[q2]
        BY DEF TokenInv, ApartInv
    <2>3. NumberInv'
        BY <1>1, <1>3, <1>4, <2>1 DEF NumberInv
    <2>4. ApartInv'
        BY <1>1, <1>3, <1>4, <2>1, <2>2 DEF ApartInv
    <2> QED
        BY <2>3, <2>4
<1>9. LoginInv'
    <2>1. SUFFICES ASSUME ~lost, NEW q \in Paths
                   PROVE  /\ app'[q] # 0 => app'[q] \in valid'
                          /\ file'[q].refresh # 0 =>
                               \/ file'[q].refresh \in valid'
                               \/ app'[q] # 0 /\ file'[q].refresh \in spent'
                               \/ \E x \in Callers : Rotating(x)' /\ FileOf(x)' = q
        BY <1>3 DEF LoginInv
    <2>2. /\ \A a \in Paths : app[a] # 0 => app[a] \in valid /\ app[a] # t
          /\ file[q].refresh # 0 =>
               \/ file[q].refresh \in valid
               \/ app[q] # 0 /\ file[q].refresh \in spent
               \/ \E x \in Callers : Rotating(x) /\ FileOf(x) = q
        BY <2>1 DEF TokenInv, LoginInv, ApartInv
    <2>3. app'[q] # 0 => app'[q] \in valid'
        BY <1>3, <1>4, <2>2
    <2>4. CASE q = p
        <3>1. f.refresh # 0 => f.refresh \in valid'
            BY <1>2, <1>4, <2>2
        <3> QED
            BY <1>3, <2>3, <2>4, <3>1
    <2>5. CASE q # p
        <3>1. file'[q].refresh = file[q].refresh /\ app'[q] = app[q]
            BY <1>1, <1>2, <1>3, <2>5 DEF TokenTypeOK
        <3>2. file[q].refresh # 0 => file[q].refresh # t
            BY <2>5 DEF TokenInv, ApartInv
        <3>3. \A x \in Callers : Rotating(x) /\ FileOf(x) = q => Rotating(x)' /\ FileOf(x)' = q
            BY <1>3, <1>5 DEF Touched, Rotating, FileOf, Src
        <3> QED
            BY <1>4, <2>2, <2>3, <3>1, <3>2, <3>3
    <2> QED
        BY <2>4, <2>5
<1>10. CacheInv'
    <2>1. \A x \in Callers : call'[x].pc = "get" =>
            /\ call[x].pc = "get" /\ call'[x].seen = call[x].seen
            /\ call[x].since \subseteq call'[x].since
        BY <1>5, IdleFacts DEF Touched
    <2> QED
        BY <1>3, <2>1, CacheAfterWrite
<1> QED
    BY <1>6, <1>7, <1>8, <1>9, <1>10 DEF TokenInv

--------------------------------------------------------------------------------
(***************************************************************************)
(* The theorems.                                                           *)
(***************************************************************************)

LEMMA InvInit == TokenInit => TokenInv
<1> SUFFICES ASSUME TokenInit PROVE TokenInv
    OBVIOUS
<1>1. TokenTypeOK
    BY TypeInit
<1>2. Cardinality(Paths) \in Nat
    BY CodexAssumption, FS_CardinalityType
<1>3. PICK n \in [Paths -> 1 .. Cardinality(Paths)] :
        /\ \A p, q \in Paths : p # q => n[p] # n[q]
        /\ file = [p \in Paths |-> Login(CHOOSE stamp \in Stamps : TRUE, n[p])]
    BY DEF TokenInit
<1>4. /\ issued = Cardinality(Paths)
      /\ valid = 1 .. Cardinality(Paths)
      /\ \A s \in Sources : cached[s] = NotCached
      /\ \A c \in Callers : call[c] = Idle
      /\ \A p \in Paths : app[p] = 0
    BY DEF TokenInit
<1>5. \A p \in Paths : file[p].refresh = n[p] /\ n[p] \in 1 .. Cardinality(Paths)
    BY <1>3 DEF Login
<1>6. LockInv
    BY <1>4, IdleFacts DEF LockInv, Working
<1>7. NumberInv
    BY <1>2, <1>4, <1>5 DEF NumberInv
<1>8. ApartInv /\ LoginInv
    BY <1>3, <1>4, <1>5 DEF ApartInv, LoginInv
<1>9. CacheInv
    BY <1>4 DEF CacheInv, NotCached
<1>10. \A c \in Callers : CallInv(c)
    BY <1>4, IdleFacts
       DEF CallInv, OwnTokens, Successor, Sent, Answered, MayReturn, Working, Rotating, Active
<1> QED
    BY <1>1, <1>6, <1>7, <1>8, <1>9, <1>10 DEF TokenInv

\* A step that changes nothing of what the invariant is about.
LEMMA KeepsStutter ==
    ASSUME TokenInv, TokenTypeOK',
           UNCHANGED <<file, issued, valid, lock, path, cached, call, app, spent, lost>>
    PROVE  TokenInv'
<1>1. \A c \in Callers : Stays(c)
    BY DEF Stays
<1>2. issued \in Nat /\ TokenTypeOK
    BY CodexAssumption DEF TokenInv, TokenTypeOK, Token
<1>3. LockInv' /\ CacheInv'
    BY <1>2, CacheKept DEF TokenInv, LockInv, Working
<1> QED
    BY <1>1, <1>2, <1>3, QuietStep DEF TokenInv

LEMMA InvNext == TokenInv /\ [TokenNext]_tokenVars => TokenInv'
<1> SUFFICES ASSUME TokenInv, [TokenNext]_tokenVars PROVE TokenInv'
    OBVIOUS
<1>1. TokenTypeOK'
    BY TypeNext DEF TokenInv
<1>2. ASSUME NEW c \in Callers, Start(c) \/ Step(c) PROVE TokenInv'
    BY <1>1, <1>2, KeepsStart, KeepsGetStat, KeepsGetAnswer, KeepsAcquire, KeepsGiveUp,
       KeepsReadFile, KeepsPostRejected, KeepsPostAnswered, KeepsPostLost, KeepsPersist,
       KeepsPersistFails, KeepsCacheLocked
       DEF Step
<1>3. ASSUME NEW s \in Sources, Crash(s) PROVE TokenInv'
    BY <1>1, <1>3, KeepsCrash
<1>4. CASE AppNext
    BY <1>1, <1>4, KeepsApp, KeepsAppPost DEF AppNext
<1>5. CASE Expire \/ UNCHANGED tokenVars
    BY <1>1, <1>5, KeepsStutter DEF Expire, tokenVars
<1> QED
    BY <1>2, <1>3, <1>4, <1>5 DEF TokenNext

\* The invariant: who holds the lock, whose the tokens are, what a cache may give.
THEOREM TokenInvariant == TokenSpec => []TokenInv
BY InvInit, InvNext, PTL DEF TokenSpec

\* A token that is returned was in the file at some time during the call (Get,
\* cacheLocked), but for one from a cache whose time and size the file had with
\* another token in it.
THEOREM TokenCurrentHolds == TokenSpec => []TokenCurrent
<1>1. TokenInv => TokenCurrent
    BY DEF TokenInv, CallInv, Answered, TokenCurrent
<1> QED
    BY <1>1, TokenInvariant, PTL

\* No refresh ruins the login: where nothing was lost on the way to a file and no
\* refresh is at work, the server accepts the refresh token in every file that the
\* app is not about to write.
THEOREM LoginKeptHolds == TokenSpec => []LoginKept
<1>1. TokenInv => LoginKept
    BY CodexAssumption DEF TokenInv, LoginInv, LockInv, Rotating, Working, LoginKept
<1> QED
    BY <1>1, TokenInvariant, PTL

\* Two refreshers never send the same refresh token: one is rejected only when the
\* Codex app has used or revoked it, even before it was read, or one was lost before.
THEOREM RejectionExplainedHolds == TokenSpec => []RejectionExplained
<1>1. TokenInv => RejectionExplained
    BY DEF TokenInv, CallInv, Answered, RejectionExplained
<1> QED
    BY <1>1, TokenInvariant, PTL

--------------------------------------------------------------------------------
(***************************************************************************)
(* The images endpoint: the inductive invariant.                           *)
(***************************************************************************)

\* A request that asks the source holds the handler's mutex, and while it does the
\* source stays on the request's own file; a caller of the handler's source is in no
\* call at any other time, and never in a refresh.
Asking(r) ==
    /\ call[r].pc \in {"idle", "stat", "get"}
    /\ IF job[r].pc = "get" THEN hmu = r /\ path[Handler] = job[r].path
                            ELSE call[r].pc = "idle"

\* A token that is on its way to a request, or has arrived, is one of its own file.
OwnToken(r) ==
    /\ job[r].pc = "get" /\ call[r].pc = "idle" /\ call[r].out = "token"
         => call[r].got \in held[job[r].path]
    /\ job[r].pc = "call" => job[r].token \in held[job[r].path]

\* What the source has cached was in the file that it reads.
CachedHeld ==
    /\ \A p \in Paths : file[p].access \in held[p]
    /\ cached[Handler].access # 0 => cached[Handler].access \in held[path[Handler]]

\* What the calls of the backend brought is collected.
Brought(j) == {i \in DOMAIN j.calls : j.calls[i].images > 0}
Collected(j) == UNION {{i} \X (1 .. j.calls[i].images) : i \in Brought(j)}
Failed(j) == {i \in DOMAIN j.calls : j.calls[i].failure # 200}
Counted(j) ==
    /\ Failed(j) \subseteq {Len(j.calls)}
    /\ j.data = Collected(j)
    /\ j.pc \in {"idle", "token", "get"} => j.calls = <<>>
    /\ j.pc = "call" => Failed(j) = {} /\ Len(j.calls) < j.n
    /\ j.pc = "done" /\ j.calls # <<>> =>
         /\ j.status = 200 <=> Brought(j) # {}
         /\ j.status = 200 /\ Len(j.calls) < j.n => Failed(j) # {}
         /\ j.status # 200 /\ Failed(j) = {1} => j.status = Mapped(j.calls[1].failure)

ImagesInv ==
    /\ TypeOK
    /\ CachedHeld
    /\ \A r \in Requests : Asking(r) /\ OwnToken(r) /\ Counted(job[r])

--------------------------------------------------------------------------------
(* What the steps of the token source mean for the handler. *)

\* The call of a request stays as it is, but for what is only remembered.
Same(r) == /\ call'[r].pc = call[r].pc
           /\ call'[r].out = call[r].out
           /\ call'[r].got = call[r].got

\* It goes on, or ends with a token from the cache or from the file.
Moves(r) ==
    \/ Same(r)
    \/ call[r].pc = "stat" /\ call'[r].pc = "get"
    \/ call[r].pc = "stat" /\ call'[r].pc = "idle" /\ call'[r].out # "token"
    \/ /\ call[r].pc = "get" /\ call'[r].pc = "idle"
       /\ call'[r].out = "token" =>
            \/ cached[Handler].access # 0 /\ call'[r].got = cached[Handler].access
            \/ call'[r].got = file[path[Handler]].access

\* The source of a request is the handler's, and no other caller's is.
LEMMA RequestFacts ==
    /\ \A r \in Requests : /\ r \in Callers /\ Src(r) = Handler /\ FileOf(r) = path[Handler]
                           /\ OpsOf[r] = {}
    /\ \A c \in Callers \ Requests : Src(c) # Handler
    /\ Handler \in Sources
BY ImagesAssumption DEF Src, FileOf

\* A write of a file leaves what is asked here of a call.
LEMMA SeenSame ==
    ASSUME NEW cs \in [Callers -> Call], NEW p \in Paths, NEW f \in File, NEW r \in Requests
    PROVE  /\ Seen(cs, p, f)[r] \in Call
           /\ Seen(cs, p, f)[r].pc = cs[r].pc
           /\ Seen(cs, p, f)[r].out = cs[r].out
           /\ Seen(cs, p, f)[r].got = cs[r].got
<1>1. r \in Callers /\ OpsOf[r] = {} /\ cs[r] \in Call
    BY RequestFacts
<1>2. Seen(cs, p, f)[r] \in {cs[r], [cs[r] EXCEPT !.since = @ \cup {f.access}]}
    BY <1>1 DEF Seen
<1>3. Seen(cs, p, f)[r] \in Call
    BY <1>1, SeenFacts
<1> QED
    BY <1>1, <1>2, <1>3 DEF Call

\* A caller of another source.
LEMMA OtherSource ==
    ASSUME TokenTypeOK, NEW c \in Callers \ Requests, Start(c) \/ Step(c)
    PROVE  /\ path' = path /\ cached'[Handler].access = cached[Handler].access
           /\ \A r \in Requests : Same(r)
<1>1. Src(c) # Handler /\ Src(c) \in Sources /\ Handler \in Sources /\ c \in Callers
    BY RequestFacts, CodexAssumption DEF Src
<1>2. path' = path
    BY DEF Start, Step, GetStat, GetAnswer, Acquire, GiveUp, ReadFile, PostRejected,
           PostAnswered, PostLost, Persist, PersistFails, CacheLocked
<1>8. ASSUME Persist(c)
      PROVE  \E h \in File, d \in Call :
                /\ call' = Seen([call EXCEPT ![c] = d], FileOf(c), h)
                /\ Overtake(FileOf(c), h)
    BY <1>1, <1>8, PersistFacts DEF TokenTypeOK
<1>9. FileOf(c) \in Paths
    BY <1>1 DEF TokenTypeOK, FileOf
<1>3. ~Persist(c) => cached' = cached \/ \E e : cached' = [cached EXCEPT ![Src(c)] = e]
    BY DEF Start, Step, GetStat, GetAnswer, Acquire, GiveUp, ReadFile, PostRejected,
           PostAnswered, PostLost, PersistFails, CacheLocked
<1>4. cached'[Handler].access = cached[Handler].access
    <2>1. CASE Persist(c)
        BY <1>1, <1>8, <1>9, <2>1, OvertakeFacts
    <2>2. CASE ~Persist(c)
        BY <1>1, <1>3, <2>2 DEF TokenTypeOK
    <2> QED
        BY <2>1, <2>2
<1>5. ASSUME NEW e, Continue(c, e), NEW r \in Requests PROVE Same(r)
    BY <1>5, RequestFacts DEF Continue, Same
<1>6. ASSUME Persist(c), NEW r \in Requests PROVE Same(r)
    <2>1. r \in Callers /\ r # c
        BY <1>1, RequestFacts
    <2>2. PICK f \in File, d \in Call : call' = Seen([call EXCEPT ![c] = d], FileOf(c), f)
        BY <1>6, <1>8
    <2> DEFINE cs == [call EXCEPT ![c] = d]
    <2>6. cs \in [Callers -> Call] /\ cs[r] = call[r]
        BY <2>1 DEF TokenTypeOK
    <2>7. call' = Seen(cs, FileOf(c), f)
        BY <2>2
    <2> HIDE DEF cs
    <2>8. call'[r].pc = cs[r].pc /\ call'[r].out = cs[r].out /\ call'[r].got = cs[r].got
        BY <1>9, <2>2, <2>6, <2>7, SeenSame
    <2> QED
        BY <2>6, <2>8 DEF Same
<1>7. (\E e : Continue(c, e)) \/ Persist(c)
    BY DEF Start, Step, GetStat, GetAnswer, Acquire, GiveUp, ReadFile, PostRejected,
           PostAnswered, PostLost, PersistFails, CacheLocked
<1> QED
    BY <1>2, <1>4, <1>5, <1>6, <1>7

\* A request's own call: a look at the file, or the answer.
LEMMA OwnCall ==
    ASSUME TokenTypeOK, NEW c \in Requests, Start(c) \/ Step(c), Asking(c)
    PROVE  /\ path' = path
           /\ \/ cached'[Handler].access = cached[Handler].access
              \/ cached'[Handler].access = file[path[Handler]].access
           /\ \A r \in Requests : Moves(r)
<1>1. /\ c \in Callers /\ Src(c) = Handler /\ FileOf(c) = path[Handler] /\ Handler \in Sources
      /\ call[c] \in Call /\ 0 \in Token /\ OpsOf[c] = {}
    BY RequestFacts, CodexAssumption DEF TokenTypeOK, Token
<1>2. GetStat(c) \/ GetAnswer(c)
    BY <1>1 DEF Asking, Start, Step, Acquire, GiveUp, ReadFile, PostRejected,
           PostAnswered, PostLost, Persist, PersistFails, CacheLocked
<1>3. ASSUME NEW e, Continue(c, e) PROVE call'[c] = e /\ \A r \in Requests \ {c} : call'[r] = call[r]
    BY <1>1, <1>3, RequestFacts DEF Continue
<1>4. ASSUME NEW e, Continue(c, e), Moves(c) PROVE \A r \in Requests : Moves(r)
    BY <1>3, <1>4 DEF Moves, Same
<1>5. ASSUME NEW out \in {"token", "error"}, NEW got
      PROVE  /\ Ended(call[c], out, got).pc = "idle" /\ Ended(call[c], out, got).out = out
             /\ Ended(call[c], out, got).got = got
             /\ [Ended(call[c], out, got) EXCEPT !.stale = cached[Handler].overtaken].pc = "idle"
             /\ [Ended(call[c], out, got) EXCEPT !.stale = cached[Handler].overtaken].out = out
             /\ [Ended(call[c], out, got) EXCEPT !.stale = cached[Handler].overtaken].got = got
    BY DEF Ended, Idle
<1>6. CASE GetStat(c)
    <2>1. path' = path /\ cached' = cached
        BY <1>6 DEF GetStat
    <2>2. call[c].pc = "stat"
        BY <1>6 DEF GetStat
    <2>3. CASE Exists(file[FileOf(c)])
        <3> DEFINE e == [call[c] EXCEPT !.pc = "get", !.seen.stamp = file[FileOf(c)].stamp]
        <3>1. Continue(c, e)
            BY <1>6, <2>3 DEF GetStat
        <3>2. e.pc = "get"
            <4>1. file[FileOf(c)] \in File
                BY <1>1 DEF TokenTypeOK
            <4> QED
                BY <1>1, <4>1, LookedFacts
        <3> HIDE DEF e
        <3> QED
            BY <1>3, <1>4, <2>1, <2>2, <3>1, <3>2 DEF Moves
    <2>4. CASE ~Exists(file[FileOf(c)])
        <3> DEFINE e == Ended(call[c], "error", 0)
        <3>1. Continue(c, e) /\ e.pc = "idle" /\ e.out = "error"
            BY <1>5, <1>6, <2>4 DEF GetStat
        <3> HIDE DEF e
        <3> QED
            BY <1>3, <1>4, <2>1, <2>2, <3>1 DEF Moves
    <2> QED
        BY <2>3, <2>4
<1>7. CASE GetAnswer(c)
    <2>1. path' = path /\ call[c].pc = "get"
        BY <1>7 DEF GetAnswer
    <2> DEFINE now == file[path[Handler]]
    <2>2. CASE cached[Handler].access # 0 /\ cached[Handler].stamp = call[c].seen.stamp
        <3> DEFINE e == [Ended(call[c], "token", cached[Handler].access)
                            EXCEPT !.stale = cached[Handler].overtaken]
        <3>1. Continue(c, e) /\ cached' = cached
            BY <1>1, <1>7, <2>2 DEF GetAnswer
        <3>2. e.pc = "idle" /\ e.got = cached[Handler].access
            BY <1>5
        <3> HIDE DEF e
        <3> QED
            BY <1>3, <1>4, <2>1, <2>2, <3>1, <3>2 DEF Moves
    <2>3. CASE /\ ~(cached[Handler].access # 0 /\ cached[Handler].stamp = call[c].seen.stamp)
               /\ Exists(now) /\ now.access # 0
        <3> DEFINE e == Ended(call[c], "token", now.access)
                   k == [access |-> now.access, stamp |-> call[c].seen.stamp, overtaken |-> FALSE]
        <3>1. Continue(c, e) /\ cached' = [cached EXCEPT ![Handler] = k]
            BY <1>1, <1>7, <2>3 DEF GetAnswer
        <3>2. e.pc = "idle" /\ e.got = now.access
            BY <1>5
        <3>3. k.access = now.access
            OBVIOUS
        <3> HIDE DEF e, k
        <3>4. cached'[Handler].access = now.access
            BY <1>1, <3>1, <3>3 DEF TokenTypeOK
        <3> QED
            BY <1>3, <1>4, <2>1, <3>1, <3>2, <3>4 DEF Moves
    <2>4. CASE /\ ~(cached[Handler].access # 0 /\ cached[Handler].stamp = call[c].seen.stamp)
               /\ ~(Exists(now) /\ now.access # 0)
        <3> DEFINE e == Ended(call[c], "error", 0)
        <3>1. Continue(c, e) /\ cached' = cached
            BY <1>1, <1>7, <2>4 DEF GetAnswer
        <3>2. e.pc = "idle" /\ e.out = "error"
            BY <1>5
        <3> HIDE DEF e
        <3> QED
            BY <1>3, <1>4, <2>1, <3>1, <3>2 DEF Moves
    <2> QED
        BY <2>2, <2>3, <2>4
<1> QED
    BY <1>2, <1>6, <1>7

\* The other steps: a process dies, the Codex app writes, time passes.
LEMMA OutsideStep ==
    ASSUME TokenTypeOK,
           (\E s \in Sources \ {Handler} : Crash(s)) \/ AppNext \/ Expire
    PROVE  /\ path' = path /\ cached'[Handler].access = cached[Handler].access
           /\ \A r \in Requests : Same(r)
<1>1. ASSUME NEW s \in Sources \ {Handler}, Crash(s)
      PROVE  /\ path' = path /\ cached'[Handler] = cached[Handler]
             /\ \A r \in Requests : Same(r)
    <2>1. path' = path /\ cached'[Handler] = cached[Handler]
        BY <1>1, RequestFacts DEF Crash, TokenTypeOK
    <2>2. ASSUME NEW r \in Requests PROVE call'[r] = call[r]
        BY <1>1, <2>2, RequestFacts DEF Crash
    <2> QED
        BY <2>1, <2>2 DEF Same
<1>2. ASSUME NEW p \in Paths, NEW f \in File, AppWrites(p, f)
      PROVE  /\ path' = path /\ cached'[Handler].access = cached[Handler].access
             /\ \A r \in Requests : Same(r)
    <2>1. /\ path' = path /\ call' = Seen(call, p, f) /\ Overtake(p, f)
          /\ call \in [Callers -> Call]
        BY <1>2 DEF AppWrites, TokenTypeOK
    <2>2. cached'[Handler].access = cached[Handler].access
        BY <2>1, RequestFacts, OvertakeFacts
    <2>3. ASSUME NEW r \in Requests PROVE Same(r)
        BY <2>1, SeenSame DEF Same
    <2> QED
        BY <2>1, <2>2, <2>3
<1>3. ASSUME NEW p \in Paths, AppWrite(p) \/ AppLogin(p) \/ AppLogout(p)
      PROVE  \E f \in File : AppWrites(p, f)
    <2>1. CASE AppLogout(p)
        BY <2>1, FileTypes DEF AppLogout
    <2>2. CASE AppWrite(p)
        <3>1. app[p] \in Token
            BY DEF TokenTypeOK
        <3> QED
            BY <2>2, <3>1, FileTypes DEF AppWrite
    <2>3. CASE AppLogin(p)
        <3>1. issued + 1 \in Token
            BY <2>3, CodexAssumption DEF AppLogin, Token, TokenTypeOK
        <3> QED
            BY <2>3, <3>1, FileTypes DEF AppLogin
    <2> QED
        BY <1>3, <2>1, <2>2, <2>3
<1>4. CASE Expire \/ \E p \in Paths : AppPost(p)
    BY <1>4 DEF Expire, AppPost, Same
<1> QED
    BY <1>1, <1>2, <1>3, <1>4 DEF AppNext

\* So the steps of the token source keep what the handler relies on.
LEMMA KeepsTokenStep ==
    ASSUME ImagesInv, TokenStep
    PROVE  ImagesInv'
<1>1. /\ path' = path
      /\ \/ cached'[Handler].access = cached[Handler].access
         \/ cached'[Handler].access = file[path[Handler]].access
      /\ \A r \in Requests : Moves(r)
    <2>1. CASE \E c \in Callers : Start(c) \/ Step(c)
        <3>1. PICK c \in Callers : Start(c) \/ Step(c)
            BY <2>1
        <3>2. CASE c \in Requests
            BY <3>1, <3>2, OwnCall DEF ImagesInv, TypeOK
        <3>3. CASE c \notin Requests
            BY <3>1, <3>3, OtherSource DEF ImagesInv, TypeOK, Moves
        <3> QED
            BY <3>2, <3>3
    <2>2. CASE (\E s \in Sources \ {Handler} : Crash(s)) \/ AppNext \/ Expire
        BY <2>2, OutsideStep DEF ImagesInv, TypeOK, Moves
    <2> QED
        BY <2>1, <2>2 DEF TokenStep
<1>2. TokenTypeOK'
    <2>1. TokenNext
        BY DEF TokenStep, TokenNext
    <2> QED
        BY <2>1, TypeNext DEF ImagesInv, TypeOK
<1>3. /\ authFile' = authFile /\ built' = built /\ hmu' = hmu /\ job' = job
      /\ held' = [p \in Paths |-> held[p] \cup {file'[p].access}]
    BY DEF TokenStep
<1>4. TypeOK'
    <2>1. \A p \in Paths : file'[p].access \in Token
        BY <1>2, FileTypes DEF TokenTypeOK
    <2>2. held' \in [Paths -> SUBSET Token]
        BY <1>3, <2>1 DEF ImagesInv, TypeOK
    <2> QED
        BY <1>2, <1>3, <2>2 DEF ImagesInv, TypeOK
<1>5. Handler \in Sources /\ path[Handler] \in Paths
    BY RequestFacts DEF ImagesInv, TypeOK, TokenTypeOK
<1>6. \A p \in Paths : held[p] \subseteq held'[p] /\ file'[p].access \in held'[p]
    BY <1>3
<1>7. file[path[Handler]].access \in held[path[Handler]]
    BY <1>5 DEF ImagesInv, CachedHeld
<1>8. CachedHeld'
    BY <1>1, <1>5, <1>6, <1>7 DEF ImagesInv, CachedHeld
<1>9. ASSUME NEW r \in Requests PROVE (Asking(r) /\ OwnToken(r) /\ Counted(job[r]))'
    <2>1. Asking(r) /\ OwnToken(r) /\ Counted(job[r])
        BY DEF ImagesInv
    <2>2. Asking(r)'
        BY <1>1, <1>3, <2>1 DEF Asking, Moves, Same
    <2>3. job[r].path \in Paths
        BY DEF ImagesInv, TypeOK, Job
    <2>4. job[r].pc = "call" => job[r].token \in held'[job[r].path]
        BY <1>6, <2>1, <2>3 DEF OwnToken
    <2>5. ASSUME job[r].pc = "get", call'[r].pc = "idle", call'[r].out = "token"
          PROVE  call'[r].got \in held'[job[r].path]
        <3>1. job[r].path = path[Handler]
            BY <2>1, <2>5 DEF Asking
        <3>2. CASE Same(r)
            BY <1>6, <2>1, <2>3, <2>5, <3>2 DEF OwnToken, Same
        <3>3. CASE cached[Handler].access # 0 /\ call'[r].got = cached[Handler].access
            BY <1>6, <2>3, <3>1, <3>3 DEF ImagesInv, CachedHeld
        <3>4. CASE call'[r].got = file[path[Handler]].access
            BY <1>6, <1>7, <2>3, <3>1, <3>4
        <3> QED
            BY <1>1, <2>5, <3>2, <3>3, <3>4 DEF Moves
    <2>6. OwnToken(r)'
        BY <1>3, <2>4, <2>5 DEF OwnToken
    <2>7. Counted(job[r])'
        BY <1>3, <2>1
    <2> QED
        BY <2>2, <2>6, <2>7
<1> QED
    BY <1>4, <1>8, <1>9 DEF ImagesInv

--------------------------------------------------------------------------------
(* The handler. *)

\* A request that has not come in.
LEMMA NoJobFacts ==
    /\ NoJob \in Job
    /\ NoJob.pc = "idle" /\ NoJob.calls = <<>> /\ NoJob.data = {}
<1>1. PathOf[Handler] \in Paths
    BY CodexAssumption, ImagesAssumption
<1>2. (CHOOSE p \in Paths : TRUE) \in Paths
    BY <1>1
<1>3. 0 \in Token /\ 1 \in 1 .. MaxN /\ <<>> \in Seq(Outcome)
    BY CodexAssumption, ImagesAssumption DEF Token
<1> QED
    BY <1>2, <1>3 DEF NoJob, Job

\* A step that is about the job of one request, which does not ask the source.
LEMMA JobStep ==
    ASSUME ImagesInv, NEW r \in Requests, NEW j \in Job, job' = [job EXCEPT ![r] = j],
           UNCHANGED <<tokenVars, authFile, built, hmu, held>>,
           job[r].pc # "get", j.pc # "get", Counted(j), Len(j.calls) <= j.n,
           j.pc = "call" => j.token \in held[j.path]
    PROVE  ImagesInv'
<1>1. job'[r] = j /\ \A q \in Requests \ {r} : job'[q] = job[q]
    BY DEF ImagesInv, TypeOK
<1>2. UNCHANGED <<file, path, cached, call, hmu, held>>
    BY DEF tokenVars
<1>3. TokenTypeOK'
    BY DEF ImagesInv, TypeOK, TokenTypeOK, tokenVars
<1>4. TypeOK'
    BY <1>1, <1>3 DEF ImagesInv, TypeOK
<1>5. CachedHeld'
    BY <1>2 DEF ImagesInv, CachedHeld
<1>6. ASSUME NEW q \in Requests PROVE (Asking(q) /\ OwnToken(q) /\ Counted(job[q]))'
    <2>1. CASE q = r
        <3>1. Counted(job[q])'
            BY <1>1, <2>1
        <3> QED
            BY <1>1, <1>2, <2>1, <3>1 DEF ImagesInv, Asking, OwnToken
    <2>2. CASE q # r
        <3>1. job'[q] = job[q]
            BY <1>1, <2>2
        <3>2. Counted(job[q])'
            BY <3>1 DEF ImagesInv
        <3> QED
            BY <1>2, <3>1, <3>2 DEF ImagesInv, Asking, OwnToken
    <2> QED
        BY <2>1, <2>2
<1> QED
    BY <1>4, <1>5, <1>6 DEF ImagesInv

\* What a job holds, and what the images that it has collected are.
LEMMA JobFacts ==
    ASSUME NEW j \in Job
    PROVE  /\ j.calls \in Seq(Outcome) /\ Len(j.calls) \in Nat /\ j.n \in Nat
           /\ DOMAIN j.calls = 1 .. Len(j.calls)
           /\ \A i \in 1 .. Len(j.calls) : j.calls[i].images \in Nat
           /\ j.data \in SUBSET (Nat \X Nat)
<1>1. /\ j.calls \in Seq(Outcome) /\ j.n \in 1 .. MaxN /\ j.data \in SUBSET (Nat \X Nat)
    BY DEF Job
<1>2. Len(j.calls) \in Nat /\ DOMAIN j.calls = 1 .. Len(j.calls) /\ j.n \in Nat
    BY <1>1, ImagesAssumption
<1>3. \A i \in 1 .. Len(j.calls) : j.calls[i] \in Outcome
    BY <1>1
<1>4. \A o \in Outcome : o.images \in Nat
    BY ImagesAssumption DEF Outcome
<1> QED
    BY <1>1, <1>2, <1>3, <1>4

LEMMA CollectedFacts ==
    ASSUME NEW j \in Job, NEW x
    PROVE  x \in Collected(j) <=>
             \E i \in 1 .. Len(j.calls) : \E h \in 1 .. j.calls[i].images : x = <<i, h>>
<1>1. /\ DOMAIN j.calls = 1 .. Len(j.calls)
      /\ \A i \in 1 .. Len(j.calls) : j.calls[i].images \in Nat
    BY JobFacts
<1>2. ASSUME NEW i \in 1 .. Len(j.calls), NEW h \in 1 .. j.calls[i].images
      PROVE  i \in Brought(j)
    BY <1>1 DEF Brought
<1>3. x \in Collected(j) <=>
        \E i \in Brought(j) : x \in {i} \X (1 .. j.calls[i].images)
    BY Zenon DEF Collected
<1>4. \A i : x \in {i} \X (1 .. j.calls[i].images) <=>
                \E h \in 1 .. j.calls[i].images : x = <<i, h>>
    OBVIOUS
<1>5. Brought(j) \subseteq 1 .. Len(j.calls)
    BY <1>1 DEF Brought
<1> QED
    BY <1>2, <1>3, <1>4, <1>5

LEMMA CollectedNone ==
    ASSUME NEW j \in Job
    PROVE  Collected(j) = {} <=> Brought(j) = {}
<1>1. ASSUME NEW i \in Brought(j) PROVE Collected(j) # {}
    <2>1. i \in 1 .. Len(j.calls) /\ 1 \in 1 .. j.calls[i].images
        BY JobFacts DEF Brought
    <2>2. <<i, 1>> \in Collected(j)
        BY <2>1, CollectedFacts
    <2> QED
        BY <2>2
<1>2. Brought(j) = {} => Collected(j) = {}
    BY DEF Collected
<1> QED
    BY <1>1, <1>2

\* A job that is answered, and one that has made another call.
Done(j, n) == [j EXCEPT !.pc = "done", !.status = n]
LEMMA JobDone ==
    ASSUME NEW j \in Job, NEW n \in Nat
    PROVE  /\ Done(j, n) \in Job /\ Done(j, n).pc = "done" /\ Done(j, n).status = n
           /\ Done(j, n).calls = j.calls /\ Done(j, n).n = j.n /\ Done(j, n).data = j.data
BY DEF Job, Done

\* The answer of a request, whatever it is.
LEMMA AnswerGiven ==
    ASSUME job \in [Requests -> Job], NEW r \in Requests, NEW n \in Nat, Answer(r, n)
    PROVE  job' = [job EXCEPT ![r] = Done(job[r], n)]
<1> DEFINE a == [job EXCEPT ![r].pc = "done"]
<1>1. /\ a[r] = [job[r] EXCEPT !.pc = "done"] /\ a[r] \in Job
      /\ \A q \in Requests \ {r} : a[q] = job[q]
      /\ DOMAIN a = Requests /\ a = [q \in Requests |-> a[q]]
    BY DEF Job
<1>2. job' = [a EXCEPT ![r].status = n]
    BY DEF Answer
<1> HIDE DEF a
<1>3. /\ job' = [q \in Requests |-> job'[q]]
      /\ job'[r] = [a[r] EXCEPT !.status = n]
      /\ \A q \in Requests \ {r} : job'[q] = a[q]
    BY <1>1, <1>2
<1>4. [a[r] EXCEPT !.status = n] = Done(job[r], n)
    BY <1>1 DEF Done, Job
<1> DEFINE d == Done(job[r], n)
<1>5. job'[r] = d /\ \A q \in Requests \ {r} : job'[q] = job[q]
    BY <1>1, <1>3, <1>4
<1> HIDE DEF d
<1>6. job' = [job EXCEPT ![r] = d]
    BY <1>3, <1>5
<1> QED
    BY <1>6 DEF d

\* One more call of the backend: what it brought is collected with the rest.
Called(j, k, f) ==
    [j EXCEPT !.data = @ \cup ({Len(j.calls) + 1} \X (1 .. k)),
              !.calls = Append(@, [images |-> k, failure |-> f])]

Noted(m, j, k, f) ==
    /\ m \in Job /\ m.pc = "call" /\ m.n = j.n /\ m.path = j.path /\ m.token = j.token
    /\ Len(m.calls) = Len(j.calls) + 1 /\ m.calls # <<>> /\ Len(m.calls) <= j.n
    /\ m.calls[Len(m.calls)] = [images |-> k, failure |-> f]
    /\ m.data = Collected(m)
    /\ f = 200 => Failed(m) = {}
    /\ f # 200 => Failed(m) = {Len(m.calls)}

LEMMA OneMoreCall ==
    ASSUME NEW j \in Job, Counted(j), j.pc = "call", NEW k \in 0 .. MaxImages,
           NEW f \in Failures \cup {200}
    PROVE  Noted(Called(j, k, f), j, k, f)
<1> DEFINE m == Called(j, k, f)
           o == [images |-> k, failure |-> f]
           l == Len(j.calls) + 1
           new == {l} \X (1 .. k)
<1>1. /\ j.calls \in Seq(Outcome) /\ Len(j.calls) \in Nat /\ j.n \in Nat
      /\ j.data \in SUBSET (Nat \X Nat)
    BY JobFacts
<1>2. o \in Outcome /\ o.images = k /\ o.failure = f
    BY DEF Outcome
<1>3. /\ m.calls = Append(j.calls, o)
      /\ m.pc = "call" /\ m.n = j.n /\ m.path = j.path /\ m.token = j.token /\ m.status = j.status
    BY DEF Called, Job
<1>10. m = [j EXCEPT !.data = j.data \cup new, !.calls = Append(j.calls, o)]
    BY DEF Called, Job
<1> HIDE DEF m, o
<1>4. /\ m.calls \in Seq(Outcome) /\ Len(m.calls) = l /\ m.calls # <<>>
      /\ m.calls[l] = o /\ \A i \in 1 .. Len(j.calls) : m.calls[i] = j.calls[i]
      /\ DOMAIN m.calls = 1 .. l /\ DOMAIN j.calls = 1 .. Len(j.calls)
    BY <1>1, <1>2, <1>3
<1>5. m \in Job /\ m.data = j.data \cup new
    <2>1. (j.data \cup new) \in SUBSET (Nat \X Nat) /\ Append(j.calls, o) \in Seq(Outcome)
        BY <1>1, <1>2, ImagesAssumption
    <2> DEFINE d == j.data \cup new
               calls == Append(j.calls, o)
    <2>2. d \in SUBSET (Nat \X Nat) /\ calls \in Seq(Outcome)
        BY <2>1
    <2>3. m = [j EXCEPT !.data = d, !.calls = calls]
        BY <1>10
    <2>4. d = j.data \cup new
        OBVIOUS
    <2> HIDE DEF d, calls, new
    <2>5. m \in Job /\ m.data = d
        <3>1. /\ [j EXCEPT !.data = d, !.calls = calls] \in Job
              /\ [j EXCEPT !.data = d, !.calls = calls].data = d
            BY ONLY <2>2, j \in Job DEF Job
        <3> QED
            BY <2>3, <3>1, Zenon
    <2> QED
        BY <2>4, <2>5
<1>6. Len(m.calls) <= j.n
    BY <1>1, <1>3, <1>4 DEF Counted
<1>7. (f = 200 => Failed(m) = {}) /\ (f # 200 => Failed(m) = {l})
    <2>1. \A i \in 1 .. Len(j.calls) : j.calls[i].failure = 200
        BY <1>4 DEF Counted, Failed
    <2>2. \A i \in 1 .. l : m.calls[i].failure # 200 <=> i = l /\ f # 200
        <3>1. m.calls[l].failure = f
            BY <1>2, <1>4
        <3>2. \A i \in 1 .. l : i = l \/ (i \in 1 .. Len(j.calls) /\ i # l)
            BY <1>1
        <3> QED
            BY <1>4, <2>1, <3>1, <3>2
    <2> QED
        BY <1>1, <1>4, <2>2 DEF Failed
<1>8. m.data = Collected(m)
    <2>1. j.data = Collected(j)
        BY DEF Counted
    <2>2. ASSUME NEW x PROVE x \in Collected(m) <=> x \in Collected(j) \/ x \in new
        <3>1. x \in new <=> \E h \in 1 .. k : x = <<l, h>>
            OBVIOUS
        <3> HIDE DEF new
        <3>2. 1 .. l = (1 .. Len(j.calls)) \cup {l} /\ m.calls[l].images = k
            BY <1>1, <1>2, <1>4
        <3>3. x \in Collected(m) <=>
                \E i \in 1 .. l : \E h \in 1 .. m.calls[i].images : x = <<i, h>>
            BY <1>4, <1>5, CollectedFacts
        <3>4. x \in Collected(j) <=>
                \E i \in 1 .. Len(j.calls) : \E h \in 1 .. m.calls[i].images : x = <<i, h>>
            <4>1. x \in Collected(j) <=>
                    \E i \in 1 .. Len(j.calls) : \E h \in 1 .. j.calls[i].images : x = <<i, h>>
                BY CollectedFacts
            <4>2. \A i \in 1 .. Len(j.calls) : 1 .. m.calls[i].images = 1 .. j.calls[i].images
                BY <1>4
            <4> HIDE DEF m
            <4> QED
                BY <4>1, <4>2, ZenonT(30)
        <3> QED
            BY <3>1, <3>2, <3>3, <3>4
    <2> HIDE DEF new
    <2> QED
        BY <1>5, <2>1, <2>2
<1>9. m.calls[l] = [images |-> k, failure |-> f]
    BY <1>4 DEF o
<1>11. Noted(m, j, k, f)
    BY <1>3, <1>4, <1>5, <1>6, <1>7, <1>8, <1>9 DEF Noted
<1> QED
    BY <1>11 DEF m

\* The loop ends: the images that have arrived are the answer.
LEMMA FinishedCounted ==
    ASSUME NEW m \in Job, m.calls # <<>>, m.data = Collected(m),
           Failed(m) \subseteq {Len(m.calls)}, Failed(m) # {1},
           Len(m.calls) < m.n => Failed(m) # {}
    PROVE  /\ Finished(m) \in Job /\ Counted(Finished(m)) /\ Finished(m).pc = "done"
           /\ Finished(m).calls = m.calls /\ Finished(m).n = m.n
<1> DEFINE d == Finished(m)
<1>1. /\ d \in Job /\ d.pc = "done" /\ d.calls = m.calls /\ d.n = m.n /\ d.data = m.data
      /\ d.status = IF m.data = {} THEN 502 ELSE 200
    <2> DEFINE n == IF m.data = {} THEN 502 ELSE 200
    <2>1. n \in Nat /\ d = Done(m, n)
        BY DEF Finished, Done
    <2> HIDE DEF n, d
    <2>2. /\ d \in Job /\ d.pc = "done" /\ d.calls = m.calls /\ d.n = m.n /\ d.data = m.data
          /\ d.status = n
        BY <2>1, JobDone
    <2> QED
        BY <2>2 DEF n
<1> HIDE DEF d
<1>3. Brought(d) = Brought(m) /\ Collected(d) = Collected(m) /\ Failed(d) = Failed(m)
    BY <1>1 DEF Brought, Collected, Failed
<1>4. Collected(m) = {} <=> Brought(m) = {}
    BY CollectedNone
<1>5. Counted(d)
    BY <1>1, <1>3, <1>4 DEF Counted
<1> QED
    BY <1>1, <1>5 DEF d

\* A request comes in, and is forgotten when it is over.
LEMMA KeepsArrive ==
    ASSUME ImagesInv, NEW r \in Requests, Arrive(r) \/ NextRequest(r)
    PROVE  ImagesInv'
<1>1. job[r].pc # "get" /\ UNCHANGED <<tokenVars, authFile, built, hmu, held>>
    BY DEF Arrive, NextRequest
<1>2. authFile \in Paths
    BY DEF ImagesInv, TypeOK
<1>3. PICK j \in Job : /\ job' = [job EXCEPT ![r] = j]
                       /\ j.pc \in {"idle", "token", "done"} /\ j.calls = <<>> /\ j.data = {}
    <2>1. CASE \E n \in 1 .. MaxN :
                  job' = [job EXCEPT ![r] = [NoJob EXCEPT !.pc = "token", !.n = n, !.path = authFile]]
        <3>1. PICK n \in 1 .. MaxN :
                  job' = [job EXCEPT ![r] = [NoJob EXCEPT !.pc = "token", !.n = n, !.path = authFile]]
            BY <2>1
        <3> DEFINE j == [NoJob EXCEPT !.pc = "token", !.n = n, !.path = authFile]
        <3>2. j \in Job
            BY <1>2, NoJobFacts DEF Job
        <3>3. j.pc = "token" /\ j.calls = <<>> /\ j.data = {}
            BY NoJobFacts DEF Job
        <3>4. job' = [job EXCEPT ![r] = j]
            BY <3>1
        <3> HIDE DEF j
        <3> QED
            BY <3>2, <3>3, <3>4
    <2>2. CASE job' = [job EXCEPT ![r] = [NoJob EXCEPT !.pc = "done", !.status = 400]]
        <3> DEFINE j == [NoJob EXCEPT !.pc = "done", !.status = 400]
        <3>1. j = Done(NoJob, 400)
            BY DEF Done
        <3>2. job' = [job EXCEPT ![r] = j]
            BY <2>2
        <3> HIDE DEF j
        <3>3. j \in Job /\ j.pc = "done" /\ j.calls = <<>> /\ j.data = {}
            BY <3>1, NoJobFacts, JobDone
        <3> QED
            BY <3>2, <3>3
    <2>3. CASE Arrive(r)
        BY <2>1, <2>2, <2>3 DEF Arrive
    <2>4. CASE NextRequest(r)
        BY <2>4, NoJobFacts DEF NextRequest
    <2> QED
        BY <2>3, <2>4
<1>4. Len(j.calls) <= j.n /\ Collected(j) = {} /\ Failed(j) = {}
    <2>1. j.n \in Nat /\ Len(<<>>) = 0 /\ DOMAIN <<>> = {}
        BY JobFacts
    <2> QED
        BY <1>3, <2>1, CollectedNone DEF Brought, Failed
<1>5. Counted(j)
    BY <1>3, <1>4 DEF Counted
<1> QED
    BY <1>1, <1>2, <1>3, <1>4, <1>5, JobStep

\* A call that brings an image, or an answer without one.
LEMMA KeepsCallSucceeds ==
    ASSUME ImagesInv, NEW r \in Requests, CallSucceeds(r)
    PROVE  ImagesInv'
<1>1. job[r] \in Job /\ Counted(job[r]) /\ OwnToken(r) /\ job[r].pc = "call"
    BY DEF ImagesInv, TypeOK, CallSucceeds
<1>2. PICK k \in 0 .. MaxImages :
        LET m == [job[r] EXCEPT !.data = @ \cup ({Len(job[r].calls) + 1} \X (1 .. k)),
                                !.calls = Append(@, [images |-> k, failure |-> 200])]
        IN  job' = [job EXCEPT ![r] = IF Len(m.calls) = m.n THEN Finished(m) ELSE m]
    BY DEF CallSucceeds
<1> DEFINE m == Called(job[r], k, 200)
<1>3. /\ m \in Job /\ m.n \in Nat /\ Len(m.calls) \in Nat
      /\ m.pc = "call" /\ m.n = job[r].n /\ m.path = job[r].path /\ m.token = job[r].token
      /\ Len(m.calls) = Len(job[r].calls) + 1 /\ m.calls # <<>> /\ Len(m.calls) <= m.n
      /\ m.data = Collected(m)
      /\ Failed(m) = {}
    <2>1. k \in 0 .. MaxImages /\ 200 \in Failures \cup {200}
        OBVIOUS
    <2>2. Noted(Called(job[r], k, 200), job[r], k, 200)
        BY <1>1, <2>1, OneMoreCall
    <2> HIDE DEF m
    <2>3. Noted(m, job[r], k, 200)
        BY <2>2 DEF m
    <2>5. m \in Job
        BY <2>3 DEF Noted
    <2>4. m.n \in Nat /\ Len(m.calls) \in Nat
        BY <2>5, JobFacts
    <2> QED
        BY <2>3, <2>4 DEF Noted
<1>4. job' = [job EXCEPT ![r] = IF Len(m.calls) = m.n THEN Finished(m) ELSE m]
    BY <1>2 DEF Called
<1>5. UNCHANGED <<tokenVars, authFile, built, hmu, held>>
    BY DEF CallSucceeds
<1> HIDE DEF m
<1>6. CASE Len(m.calls) = m.n
    <2>1. /\ Finished(m) \in Job /\ Counted(Finished(m)) /\ Finished(m).pc = "done"
          /\ Len(Finished(m).calls) <= Finished(m).n
        <3>1. Failed(m) \subseteq {Len(m.calls)} /\ Failed(m) # {1} /\ ~(Len(m.calls) < m.n)
            BY <1>3, <1>6
        <3>2. /\ Finished(m) \in Job /\ Counted(Finished(m)) /\ Finished(m).pc = "done"
              /\ Finished(m).calls = m.calls /\ Finished(m).n = m.n
            BY <1>3, <3>1, FinishedCounted
        <3> QED
            BY <1>3, <3>2
    <2> QED
        BY <1>1, <1>4, <1>5, <1>6, <2>1, JobStep
<1>7. CASE Len(m.calls) # m.n
    <2>1. Counted(m)
        BY <1>3, <1>7, JobFacts DEF Counted
    <2>2. m.token \in held[m.path]
        BY <1>1, <1>3 DEF OwnToken
    <2> QED
        BY <1>1, <1>3, <1>4, <1>5, <1>7, <2>1, <2>2, JobStep
<1> QED
    BY <1>6, <1>7

\* A call that fails: its status is the answer, or what came before.
LEMMA KeepsCallFails ==
    ASSUME ImagesInv, NEW r \in Requests, CallFails(r)
    PROVE  ImagesInv'
<1>1. job[r] \in Job /\ Counted(job[r]) /\ job[r].pc = "call"
    BY DEF ImagesInv, TypeOK, CallFails
<1>2. PICK f \in Failures :
        LET m == [job[r] EXCEPT !.calls = Append(@, [images |-> 0, failure |-> f])]
        IN  job' = [job EXCEPT ![r] =
                IF Len(m.calls) = 1 THEN [m EXCEPT !.pc = "done", !.status = Mapped(f)] ELSE Finished(m)]
    BY DEF CallFails
<1> DEFINE m == Called(job[r], 0, f)
<1>3. m = [job[r] EXCEPT !.calls = Append(@, [images |-> 0, failure |-> f])]
    <2>1. job[r].data \cup ({Len(job[r].calls) + 1} \X (1 .. 0)) = job[r].data
        OBVIOUS
    <2> QED
        BY <1>1, <2>1 DEF Called, Job
<1>4. f # 200 /\ f \in Nat /\ Mapped(f) \in Nat /\ Mapped(f) # 200
    BY ImagesAssumption DEF Mapped
<1>5. job' = [job EXCEPT ![r] =
                IF Len(m.calls) = 1 THEN [m EXCEPT !.pc = "done", !.status = Mapped(f)] ELSE Finished(m)]
    BY <1>2, <1>3
<1> HIDE DEF m
<1>6. /\ m \in Job /\ m.calls # <<>> /\ Len(m.calls) <= m.n /\ Len(m.calls) \in Nat
      /\ m.calls[Len(m.calls)] = [images |-> 0, failure |-> f]
      /\ m.data = Collected(m)
      /\ Failed(m) = {Len(m.calls)}
    <2>1. 0 \in 0 .. MaxImages /\ f \in Failures \cup {200}
        BY ImagesAssumption
    <2>4. Noted(Called(job[r], 0, f), job[r], 0, f)
        BY <1>1, <2>1, OneMoreCall
    <2>2. Noted(m, job[r], 0, f)
        BY <2>4 DEF m
    <2>5. m \in Job
        BY <2>2 DEF Noted
    <2>3. Len(m.calls) \in Nat
        BY <2>5, JobFacts
    <2> QED
        BY <1>4, <2>2, <2>3 DEF Noted
<1>7. UNCHANGED <<tokenVars, authFile, built, hmu, held>>
    BY DEF CallFails
<1>8. CASE Len(m.calls) # 1
    <2>1. Failed(m) # {1}
        BY <1>6, <1>8
    <2>2. /\ Finished(m) \in Job /\ Counted(Finished(m)) /\ Finished(m).pc = "done"
          /\ Len(Finished(m).calls) <= Finished(m).n
        <3>1. Failed(m) \subseteq {Len(m.calls)} /\ Failed(m) # {}
            BY <1>6
        <3>2. /\ Finished(m) \in Job /\ Counted(Finished(m)) /\ Finished(m).pc = "done"
              /\ Finished(m).calls = m.calls /\ Finished(m).n = m.n
            BY <1>6, <2>1, <3>1, FinishedCounted
        <3> QED
            BY <1>6, <3>2
    <2> QED
        BY <1>1, <1>5, <1>7, <1>8, <2>2, JobStep
<1>9. CASE Len(m.calls) = 1
    <2> DEFINE d == Done(m, Mapped(f))
    <2>1. /\ d \in Job /\ d.pc = "done" /\ d.calls = m.calls /\ d.n = m.n
          /\ d.data = m.data /\ d.status = Mapped(f)
        BY <1>4, <1>6, JobDone
    <2>2. job' = [job EXCEPT ![r] = d]
        BY <1>5, <1>9 DEF Done
    <2> HIDE DEF d
    <2>3. Brought(d) = Brought(m) /\ Collected(d) = Collected(m) /\ Failed(d) = Failed(m)
        BY <2>1 DEF Brought, Collected, Failed
    <2>4. Brought(d) = {}
        <3>2. m.calls[1].images = 0
            BY <1>6, <1>9
        <3>3. DOMAIN m.calls = {1}
            BY <1>6, <1>9, JobFacts
        <3> QED
            BY <2>3, <3>2, <3>3 DEF Brought
    <2>5. Counted(d)
        BY <1>4, <1>6, <1>9, <2>1, <2>3, <2>4 DEF Counted
    <2> QED
        BY <1>1, <1>6, <1>7, <2>1, <2>2, <2>5, JobStep
<1> QED
    BY <1>8, <1>9

\* The source is asked under the handler's mutex, for the file of the request: another
\* file replaces what it has, and what was cached is gone.
LEMMA KeepsResolveToken ==
    ASSUME ImagesInv, NEW r \in Requests, ResolveToken(r)
    PROVE  ImagesInv'
<1>1. /\ job[r].pc = "token" /\ hmu = NoOne /\ hmu' = r
      /\ job' = [job EXCEPT ![r].pc = "get"] /\ built' = TRUE
      /\ UNCHANGED <<file, issued, valid, expired, lock, mu, app, spent, lost, authFile, held>>
      /\ Continue(r, Begin(r, "Get", path'[Handler]))
    BY DEF ResolveToken
<1>2. /\ job[r] \in Job /\ Counted(job[r]) /\ r \in Callers /\ Handler \in Sources
      /\ path \in [Sources -> Paths] /\ cached \in [Sources -> Cached]
      /\ job[r].path \in Paths /\ r # NoOne
    BY RequestFacts, CodexAssumption DEF ImagesInv, TypeOK, TokenTypeOK, Job
<1>3. /\ path' \in [Sources -> Paths] /\ cached' \in [Sources -> Cached]
      /\ path'[Handler] = job[r].path
      /\ \/ path' = path /\ cached' = cached
         \/ cached'[Handler].access = 0
    <2>1. CASE built /\ path[Handler] = job[r].path
        BY <1>2, <2>1 DEF ResolveToken
    <2>2. CASE ~(built /\ path[Handler] = job[r].path)
        <3>1. /\ path' = [path EXCEPT ![Handler] = job[r].path]
              /\ cached' = [cached EXCEPT ![Handler] = NotCached]
            BY <2>2 DEF ResolveToken
        <3>2. NotCached \in Cached /\ NotCached.access = 0
            BY FileTypes, CodexAssumption DEF NotCached, Cached, Token
        <3> QED
            BY <1>2, <3>1, <3>2
    <2> QED
        BY <2>1, <2>2
<1> DEFINE b == Begin(r, "Get", path'[Handler])
<1>4. b \in Call /\ b.pc = "stat"
    <2>1. file[path'[Handler]].access \in Token
        BY <1>2, <1>3, FileTypes DEF ImagesInv, TypeOK, TokenTypeOK
    <2>2. Idle \in Call /\ "Get" \in Ops
        BY IdleFacts DEF Ops
    <2> QED
        BY <2>1, <2>2 DEF Begin, Call
<1> HIDE DEF b
<1>5. call' = [x \in Callers |-> IF x = r THEN b
                                 ELSE IF Active(x) \/ OpsOf[x] = {} THEN call[x] ELSE Idle]
    BY <1>1 DEF Continue, b
<1>6. call' \in [Callers -> Call] /\ call'[r].pc = "stat"
      /\ \A q \in Requests \ {r} : call'[q] = call[q]
    BY <1>2, <1>4, <1>5, IdleFacts, RequestFacts DEF ImagesInv, TypeOK, TokenTypeOK
<1>7. /\ job'[r] \in Job /\ job'[r].pc = "get" /\ job'[r].path = job[r].path
      /\ job'[r].calls = job[r].calls /\ job'[r].n = job[r].n /\ job'[r].data = job[r].data
      /\ \A q \in Requests \ {r} : job'[q] = job[q]
      /\ job' \in [Requests -> Job]
    BY <1>1, <1>2 DEF ImagesInv, TypeOK, Job
<1>8. TypeOK'
    <2>1. TokenTypeOK'
        BY <1>1, <1>3, <1>6 DEF ImagesInv, TypeOK, TokenTypeOK
    <2>2. \A q \in Requests : Len(job'[q].calls) <= job'[q].n
        BY <1>7 DEF ImagesInv, TypeOK
    <2> QED
        BY <1>1, <1>7, <2>1, <2>2 DEF ImagesInv, TypeOK
<1>9. CachedHeld'
    BY <1>1, <1>3 DEF ImagesInv, CachedHeld
<1>10. ASSUME NEW q \in Requests PROVE (Asking(q) /\ OwnToken(q) /\ Counted(job[q]))'
    <2>1. CASE q = r
        <3>1. Asking(q)' /\ OwnToken(q)'
            BY <1>1, <1>3, <1>6, <1>7, <2>1 DEF Asking, OwnToken
        <3>2. /\ Brought(job'[r]) = Brought(job[r]) /\ Failed(job'[r]) = Failed(job[r])
              /\ Collected(job'[r]) = Collected(job[r])
            BY <1>7 DEF Brought, Collected, Failed
        <3>3. Counted(job'[r])
            BY <1>1, <1>2, <1>7, <3>2 DEF Counted
        <3> QED
            BY <2>1, <3>1, <3>3
    <2>2. CASE q # r
        <3>1. job'[q] = job[q] /\ call'[q] = call[q] /\ held' = held
            BY <1>1, <1>6, <1>7, <2>2
        <3>2. Asking(q) /\ OwnToken(q) /\ Counted(job[q])
            BY DEF ImagesInv
        <3>3. job[q].pc # "get"
            BY <1>1, <3>2, CodexAssumption, RequestFacts DEF Asking
        <3>4. Counted(job'[q])
            BY <3>1, <3>2
        <3> QED
            BY <3>1, <3>2, <3>3, <3>4 DEF Asking, OwnToken
    <2> QED
        BY <2>1, <2>2
<1> QED
    BY <1>8, <1>9, <1>10 DEF ImagesInv

\* The token arrives: it is one of the request's own file, whose source nobody changed.
LEMMA KeepsTokenResolved ==
    ASSUME ImagesInv, NEW r \in Requests, TokenResolved(r)
    PROVE  ImagesInv'
<1>1. /\ job[r].pc = "get" /\ call[r].pc = "idle" /\ hmu' = NoOne
      /\ call' = [call EXCEPT ![r] = Idle]
      /\ UNCHANGED <<file, issued, valid, expired, lock, mu, path, cached, app, spent, lost,
                     authFile, built, held>>
    BY DEF TokenResolved, Active
<1>2. /\ job[r] \in Job /\ Counted(job[r]) /\ Asking(r) /\ OwnToken(r)
      /\ r \in Callers /\ call[r] \in Call /\ call[r].got \in Token
      /\ job[r].calls = <<>> /\ Failed(job[r]) = {} /\ job[r].n \in Nat /\ 0 < job[r].n
    <2>1. job[r] \in Job /\ Counted(job[r]) /\ Asking(r) /\ OwnToken(r)
        BY DEF ImagesInv, TypeOK
    <2>2. r \in Callers /\ call[r] \in Call /\ call[r].got \in Token
        BY RequestFacts DEF ImagesInv, TypeOK, TokenTypeOK, Call
    <2>3. job[r].calls = <<>>
        BY <1>1, <2>1 DEF Counted
    <2>4. Failed(job[r]) = {}
        BY <2>3 DEF Failed
    <2>5. job[r].n \in Nat /\ 0 < job[r].n
        BY <2>1, ImagesAssumption DEF Job
    <2> QED
        BY <2>1, <2>2, <2>3, <2>4, <2>5
<1>3. PICK j \in Job : /\ job' = [job EXCEPT ![r] = j]
                       /\ j.path = job[r].path /\ j.n = job[r].n /\ j.data = job[r].data
                       /\ j.calls = <<>>
                       /\ \/ j.pc = "done"
                          \/ j.pc = "call" /\ j.token \in held[j.path]
    <2>1. CASE call[r].out = "token"
        <3> DEFINE j == [job[r] EXCEPT !.pc = "call", !.token = call[r].got]
        <3>1. job' = [job EXCEPT ![r] = j]
            BY <2>1 DEF TokenResolved
        <3>2. /\ j \in Job /\ j.path = job[r].path /\ j.n = job[r].n /\ j.data = job[r].data
              /\ j.calls = <<>> /\ j.pc = "call" /\ j.token = call[r].got
            BY <1>2 DEF Job
        <3>3. call[r].got \in held[job[r].path]
            BY <1>1, <1>2, <2>1 DEF OwnToken
        <3> HIDE DEF j
        <3> QED
            BY <3>1, <3>2, <3>3
    <2>2. CASE call[r].out # "token"
        <3> DEFINE unavailable == 503
                   j == Done(job[r], unavailable)
        <3>1. job' = [job EXCEPT ![r] = j]
            <4>1. Answer(r, unavailable) /\ job \in [Requests -> Job] /\ unavailable \in Nat
                BY <2>2 DEF TokenResolved, ImagesInv, TypeOK
            <4> HIDE DEF unavailable
            <4> QED
                BY <4>1, AnswerGiven
        <3>2. j.path = job[r].path
            BY <1>2 DEF Done, Job
        <3> HIDE DEF j
        <3>3. unavailable \in Nat /\ j = Done(job[r], unavailable)
            BY DEF j
        <3> HIDE DEF unavailable
        <3>4. /\ j \in Job /\ j.n = job[r].n /\ j.data = job[r].data
              /\ j.calls = job[r].calls /\ j.pc = "done"
            BY <1>2, <3>3, JobDone
        <3> QED
            BY <1>2, <3>1, <3>2, <3>4
    <2> QED
        BY <2>1, <2>2
<1>4. Counted(j)
    <2>1. Collected(j) = Collected(job[r]) /\ Failed(j) = {} /\ Len(j.calls) = 0
        BY <1>2, <1>3 DEF Brought, Collected, Failed
    <2> QED
        BY <1>2, <1>3, <2>1 DEF Counted
<1>5. job'[r] = j /\ \A q \in Requests \ {r} : job'[q] = job[q]
    BY <1>3 DEF ImagesInv, TypeOK
<1>6. call'[r] = Idle /\ Idle.pc = "idle" /\ \A q \in Requests \ {r} : call'[q] = call[q]
    BY <1>1, <1>2, RequestFacts DEF ImagesInv, TypeOK, TokenTypeOK, Idle
<1>7. TypeOK'
    <2>1. TokenTypeOK'
        BY <1>1, IdleFacts DEF ImagesInv, TypeOK, TokenTypeOK
    <2>2. \A q \in Requests : Len(job'[q].calls) <= job'[q].n
        BY <1>2, <1>3, <1>5 DEF ImagesInv, TypeOK
    <2> QED
        BY <1>1, <1>3, <2>1, <2>2 DEF ImagesInv, TypeOK
<1>8. CachedHeld'
    BY <1>1 DEF ImagesInv, CachedHeld
<1>9. ASSUME NEW q \in Requests PROVE (Asking(q) /\ OwnToken(q) /\ Counted(job[q]))'
    <2>1. CASE q = r
        <3>1. Counted(job'[q])
            BY <1>4, <1>5, <2>1
        <3> QED
            BY <1>1, <1>3, <1>5, <1>6, <2>1, <3>1 DEF Asking, OwnToken
    <2>2. CASE q # r
        <3>1. job'[q] = job[q] /\ call'[q] = call[q] /\ held' = held
            BY <1>1, <1>5, <1>6, <2>2
        <3>2. Asking(q) /\ OwnToken(q) /\ Counted(job[q])
            BY DEF ImagesInv
        <3>3. job[q].pc # "get"
            BY <1>1, <1>2, <2>2, <3>2 DEF Asking
        <3>4. Counted(job'[q])
            BY <3>1, <3>2
        <3> QED
            BY <3>1, <3>2, <3>3, <3>4 DEF Asking, OwnToken
    <2> QED
        BY <2>1, <2>2
<1> QED
    BY <1>7, <1>8, <1>9 DEF ImagesInv

\* A reload of the configuration, or nothing, changes what nobody has read yet.
LEMMA KeepsReload ==
    ASSUME ImagesInv, ReloadPath \/ UNCHANGED vars
    PROVE  ImagesInv'
<1>1. UNCHANGED <<tokenVars, built, hmu, job, held>> /\ authFile' \in Paths
    BY DEF ReloadPath, vars, imageVars, ImagesInv, TypeOK
<1>2. TokenTypeOK'
    BY <1>1 DEF ImagesInv, TypeOK, TokenTypeOK, tokenVars
<1>3. TypeOK' /\ CachedHeld'
    BY <1>1, <1>2 DEF ImagesInv, TypeOK, CachedHeld, tokenVars
<1>4. ASSUME NEW q \in Requests PROVE (Asking(q) /\ OwnToken(q) /\ Counted(job[q]))'
    <2>1. job'[q] = job[q]
        BY <1>1
    <2>2. Counted(job'[q])
        BY <2>1 DEF ImagesInv
    <2> QED
        BY <1>1, <2>2 DEF ImagesInv, Asking, OwnToken, tokenVars
<1> QED
    BY <1>3, <1>4 DEF ImagesInv

\* At the start nothing has been asked for, and nothing is cached.
LEMMA ImagesInit == Init => ImagesInv
<1> SUFFICES ASSUME Init PROVE ImagesInv
    OBVIOUS
<1>1. TokenTypeOK
    BY TypeInit DEF Init
<1>2. /\ \A p \in Paths : file[p].access \in Token
      /\ \A r \in Requests : job[r] = NoJob
    BY <1>1, FileTypes DEF Init, TokenTypeOK
<1>3. NoJob.n \in Nat /\ Len(NoJob.calls) = 0
    <2>1. NoJob \in Job /\ Len(<<>>) = 0
        BY NoJobFacts
    <2>2. NoJob.n \in Nat
        BY <2>1, JobFacts
    <2>3. NoJob.calls = <<>>
        BY NoJobFacts
    <2> QED
        BY <2>1, <2>2, <2>3
<1>4. TypeOK
    <2>1. job \in [Requests -> Job]
        BY NoJobFacts DEF Init
    <2>2. held \in [Paths -> SUBSET Token]
        BY <1>2 DEF Init
    <2>3. \A r \in Requests : Len(job[r].calls) <= job[r].n
        BY <1>2, <1>3
    <2>4. authFile \in Paths /\ built \in BOOLEAN /\ hmu \in Requests \cup {NoOne}
        BY DEF Init
    <2> QED
        BY <1>1, <2>1, <2>2, <2>3, <2>4 DEF TypeOK
<1>5. cached[Handler].access = 0
    BY RequestFacts DEF Init, TokenInit, NotCached
<1>6. CachedHeld
    BY <1>5 DEF Init, CachedHeld
<1>7. \A r \in Requests : call[r].pc = "idle"
    BY RequestFacts DEF Init, TokenInit, Idle
<1>8. Counted(NoJob)
    <2>1. Brought(NoJob) = {} /\ Failed(NoJob) = {}
        BY NoJobFacts DEF Brought, Failed
    <2>2. Collected(NoJob) = {}
        BY <2>1, NoJobFacts, CollectedNone
    <2> QED
        BY <2>1, <2>2, NoJobFacts DEF Counted
<1> QED
    BY <1>2, <1>4, <1>6, <1>7, <1>8, NoJobFacts DEF ImagesInv, Asking, OwnToken

\* The invariant, and so what the handler keeps of the source and of its calls.
THEOREM ImagesInvariant == Spec => []ImagesInv
<1>1. ImagesInv /\ [Next]_vars => ImagesInv'
    <2> SUFFICES ASSUME ImagesInv, [Next]_vars PROVE ImagesInv'
        OBVIOUS
    <2>1. CASE TokenStep
        BY <2>1, KeepsTokenStep
    <2>2. ASSUME NEW r \in Requests, Arrive(r) \/ RequestStep(r) \/ NextRequest(r)
          PROVE  ImagesInv'
        <3>1. CASE Arrive(r) \/ NextRequest(r)
            BY <3>1, KeepsArrive
        <3>2. CASE ResolveToken(r)
            BY <3>2, KeepsResolveToken
        <3>3. CASE TokenResolved(r)
            BY <3>3, KeepsTokenResolved
        <3>4. CASE CallSucceeds(r)
            BY <3>4, KeepsCallSucceeds
        <3>5. CASE CallFails(r)
            BY <3>5, KeepsCallFails
        <3> QED
            BY <2>2, <3>1, <3>2, <3>3, <3>4, <3>5 DEF RequestStep
    <2>3. CASE ReloadPath \/ UNCHANGED vars
        BY <2>3, KeepsReload
    <2> QED
        BY <2>1, <2>2, <2>3 DEF Next
<1> QED
    BY ImagesInit, <1>1, PTL DEF Spec

\* The token that a request calls the backend with was in the auth file that the
\* configuration named when the request came, however the source, which requests for
\* different files share, was replaced in the meantime (resolveToken).
THEOREM TokenOfOwnPathHolds == Spec => []TokenOfOwnPath
<1>1. ImagesInv => TokenOfOwnPath
    BY DEF ImagesInv, OwnToken, TokenOfOwnPath
<1> QED
    BY ImagesInvariant, <1>1, PTL

\* An images request succeeds exactly when a call brought an image, with the images of
\* all calls up to the first failure; the error of the first call is the answer
\* (serveImages, callCodexImages, writeImagesErrorFromUpstream).
THEOREM ImagesAnsweredHolds == Spec => []ImagesAnswered
<1>1. ASSUME ImagesInv PROVE ImagesAnswered
    <2>1. ASSUME NEW r \in Requests
          PROVE  /\ Failed(job[r]) \subseteq {Len(job[r].calls)}
                 /\ job[r].pc = "done" /\ job[r].calls # <<>> =>
                      /\ job[r].data = Collected(job[r])
                      /\ job[r].status = 200 <=> Brought(job[r]) # {}
                      /\ job[r].status = 200 /\ Len(job[r].calls) < job[r].n
                           => Failed(job[r]) # {}
                      /\ job[r].status # 200 /\ Failed(job[r]) = {1}
                           => job[r].status = Mapped(job[r].calls[1].failure)
        <3>1. Counted(job[r])
            BY <1>1 DEF ImagesInv
        <3> QED
            BY <3>1 DEF Counted
    <2> QED
        BY <2>1 DEF Brought, Collected, Failed, ImagesAnswered
<1> QED
    BY ImagesInvariant, <1>1, PTL

================================================================================
