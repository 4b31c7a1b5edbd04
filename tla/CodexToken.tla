------------------------------ MODULE CodexToken ------------------------------
(***************************************************************************)
(* The Codex token source (codexauth): the login that the Codex app keeps  *)
(* in an auth file is read through a cache and, on demand, refreshed with  *)
(* the server and written back.                                            *)
(*                                                                         *)
(* Refreshes of all processes of the machine exclude each other by a file  *)
(* lock; the Codex app, which owns the file, does not take it. A token is  *)
(* the number of the answer of the server that issued it, 0 is no token.   *)
(* A stamp is the modification time and size of a file, all that the cache *)
(* compares: any two writes may give the same (a file of the same size     *)
(* rewritten within a tick of the clock). A file that is not there has 0.  *)
(***************************************************************************)
EXTENDS Integers, FiniteSets

CONSTANTS
    Callers,    \* goroutines that use a token source, in any process
    Sources,    \* token sources, each in a process of its own
    SourceOf,   \* [Callers -> Sources]
    Paths,      \* auth files
    PathOf,     \* [Sources -> Paths]: the file a source is created with
    OpsOf,      \* [Callers -> SUBSET Ops]: what a caller calls
    Stamps,     \* times and sizes that a write can give the file
    Answers,    \* which fields an answer of the token endpoint may have
    MaxIssued,  \* bound: how many tokens the server issues
    NoOne       \* holder of a lock that is free

VARIABLES
    file,       \* [Paths -> File]: the auth files
    issued,     \* the number of the last token the server issued
    valid,      \* refresh tokens the server accepts; each is good for one use
    expired,    \* access tokens up to this one have expired or are about to
    lock,       \* the caller that holds the cross-process lock
    mu,         \* [Sources -> Callers \cup {NoOne}]: TokenSource.mu
    path,       \* [Sources -> Paths]: TokenSource.path
    cached,     \* [Sources -> Cached]: cached token, mtime and size
    call,       \* [Callers -> Call]: the call a caller is in, or its last one
    app,        \* [Paths -> Token]: what the app got by a refresh and has yet to write
    spent,      \* history: refresh tokens that the app has used or revoked
    lost        \* history: a rotated refresh token did not reach the file, or was overwritten

tokenVars == <<file, issued, valid, expired, lock, mu, path, cached, call, app, spent, lost>>

Ops == {"Get", "EnsureFresh", "Refresh"}
Fields == {"id", "access", "refresh"}
Token == 0..MaxIssued
File == [stamp : Nat, access : Token, refresh : Token]
Absent == [stamp |-> 0, access |-> 0, refresh |-> 0]
Login(stamp, t) == [stamp |-> stamp, access |-> t, refresh |-> t]

\* What a source has cached; overtaken (history): the file has had the stamp of
\* the token while it held another one.
Cached == [access : Token, stamp : Nat, overtaken : BOOLEAN]
NotCached == [access |-> 0, stamp |-> 0, overtaken |-> FALSE]

\* seen: the file as last read, or its stamp when Get looked at it; fields: those
\* of the server's answer; got: the token returned. History: since, the access
\* tokens that the file held during the call; stale, the token was taken from an
\* overtaken cache; theirs, the app had used or revoked the refresh token sent.
Call == [op : Ops, pc : {"idle", "stat", "get", "lock", "read", "post", "persist", "cache"},
         seen : File, fields : SUBSET Fields, new : Token, got : Token,
         out : {"none", "token", "error", "busy", "rejected"},
         since : SUBSET Token, stale : BOOLEAN, theirs : BOOLEAN]
Idle == [op |-> "Get", pc |-> "idle", seen |-> Absent, fields |-> {}, new |-> 0, got |-> 0,
         out |-> "none", since |-> {}, stale |-> FALSE, theirs |-> FALSE]

ASSUME CodexAssumption ==
    /\ SourceOf \in [Callers -> Sources]
    /\ PathOf \in [Sources -> Paths]
    /\ OpsOf \in [Callers -> SUBSET Ops]
    /\ Stamps # {} /\ Stamps \subseteq Nat \ {0}
    /\ Answers \subseteq SUBSET Fields
    /\ IsFiniteSet(Paths)
    /\ MaxIssued \in Nat \ {0} /\ Cardinality(Paths) <= MaxIssued
    /\ NoOne \notin Callers

TokenTypeOK ==
    /\ file \in [Paths -> File]
    /\ issued \in Token
    /\ valid \subseteq Token
    /\ expired \in Token
    /\ lock \in Callers \cup {NoOne}
    /\ mu \in [Sources -> Callers \cup {NoOne}]
    /\ path \in [Sources -> Paths]
    /\ cached \in [Sources -> Cached]
    /\ call \in [Callers -> Call]
    /\ app \in [Paths -> Token]
    /\ spent \subseteq Token
    /\ lost \in BOOLEAN

\* A Codex login exists; one token has been issued to each file. Stamps are only
\* compared with each other, so the first may be any.
TokenInit ==
    \E n \in [Paths -> 1..Cardinality(Paths)] :
        /\ \A p, q \in Paths : p # q => n[p] # n[q]
        /\ file = [p \in Paths |-> Login(CHOOSE stamp \in Stamps : TRUE, n[p])]
        /\ issued = Cardinality(Paths)
        /\ valid = 1..Cardinality(Paths)
        /\ expired = 0
        /\ lock = NoOne
        /\ mu = [s \in Sources |-> NoOne]
        /\ path = PathOf
        /\ cached = [s \in Sources |-> NotCached]
        /\ call = [c \in Callers |-> Idle]
        /\ app = [p \in Paths |-> 0]
        /\ spent = {}
        /\ lost = FALSE

--------------------------------------------------------------------------------
Src(c) == SourceOf[c]
FileOf(c) == path[Src(c)]
Exists(f) == f.stamp # 0
Active(c) == call[c].pc # "idle"

\* needsRefresh: no access token but a way to get one, or one that expires
\* within accessRefreshWindow (an unknown expiry counts the same way by age).
NeedsRefresh(f) == IF f.access = 0 THEN f.refresh # 0 ELSE f.access <= expired

\* Update of one call. The result of another that has ended is forgotten, but by
\* a caller that goes on with it (one that makes no calls by itself).
Continue(c, r) ==
    call' = [x \in Callers |-> IF x = c THEN r
                              ELSE IF Active(x) \/ OpsOf[x] = {} THEN call[x] ELSE Idle]
\* The call ends; of the history it keeps what the properties ask.
Ended(r, out, got) ==
    [Idle EXCEPT !.out = out, !.got = got,
                 !.since = IF out = "token" THEN r.since \cap {got} ELSE {}]
Rejected(r) == [Ended(r, "rejected", 0) EXCEPT !.theirs = r.seen.refresh \in spent]

\* A write of path p seen by the calls cs: every call in progress that uses the
\* file may now return the new token.
Seen(cs, p, f) ==
    [c \in Callers |->
        IF cs[c].pc = "idle" THEN IF OpsOf[c] = {} THEN cs[c] ELSE Idle
        ELSE IF FileOf(c) = p THEN [cs[c] EXCEPT !.since = @ \cup {f.access}] ELSE cs[c]]

\* What a write of path p by anyone makes of the caches of that file.
Overtake(p, f) ==
    cached' = [s \in Sources |->
        [cached[s] EXCEPT !.overtaken = @ \/ /\ path[s] = p
                                             /\ f.stamp = cached[s].stamp
                                             /\ f.access # cached[s].access]]

\* Both locks are given back (defer mu.Unlock, defer unlock).
Release(c) ==
    /\ lock' = NoOne
    /\ mu' = [mu EXCEPT ![Src(c)] = NoOne]

--------------------------------------------------------------------------------
\* A call begins. Get looks at the file before it takes the mutex.
Begin(c, op, p) ==
    [Idle EXCEPT !.op = op, !.pc = IF op = "Get" THEN "stat" ELSE "lock",
                 !.since = {file[p].access}]
Start(c) ==
    /\ ~Active(c)
    /\ \E op \in OpsOf[c] : Continue(c, Begin(c, op, FileOf(c)))
    /\ UNCHANGED <<file, issued, valid, expired, lock, mu, path, cached, app, spent, lost>>

GetStat(c) ==
    /\ call[c].pc = "stat"
    /\ IF Exists(file[FileOf(c)])
       THEN Continue(c, [call[c] EXCEPT !.pc = "get", !.seen.stamp = file[FileOf(c)].stamp])
       ELSE Continue(c, Ended(call[c], "error", 0))
    /\ UNCHANGED <<file, issued, valid, expired, lock, mu, path, cached, app, spent, lost>>

\* Mutant: whatever is cached is returned, whether or not the file changed.
GetAnswerUnchecked(c) ==
    LET s == Src(c)
        now == file[FileOf(c)]
    IN  /\ call[c].pc = "get"
        /\ mu[s] = NoOne
        /\ IF cached[s].access # 0
           THEN Continue(c, Ended(call[c], "token", cached[s].access)) /\ UNCHANGED cached
           ELSE /\ Continue(c, Ended(call[c], "token", now.access))
                /\ cached' = [cached EXCEPT ![s] =
                      [access |-> now.access, stamp |-> call[c].seen.stamp, overtaken |-> FALSE]]
        /\ UNCHANGED <<file, issued, valid, expired, lock, mu, path, app, spent, lost>>

\* Under the mutex: the cached token if the file had the stamp it is cached
\* under, or else what the file holds now, cached under the stamp seen before.
GetAnswer(c) ==
    LET s == Src(c)
        now == file[FileOf(c)]
        stamp == call[c].seen.stamp
    IN  /\ call[c].pc = "get"
        /\ mu[s] = NoOne
        /\ IF cached[s].access # 0 /\ cached[s].stamp = stamp
           THEN /\ Continue(c, [Ended(call[c], "token", cached[s].access)
                                  EXCEPT !.stale = cached[s].overtaken])
                /\ UNCHANGED cached
           ELSE IF Exists(now) /\ now.access # 0
           THEN /\ Continue(c, Ended(call[c], "token", now.access))
                /\ cached' = [cached EXCEPT ![s] =
                                [access |-> now.access, stamp |-> stamp, overtaken |-> FALSE]]
           ELSE /\ Continue(c, Ended(call[c], "error", 0))
                /\ UNCHANGED cached
        /\ UNCHANGED <<file, issued, valid, expired, lock, mu, path, app, spent, lost>>

--------------------------------------------------------------------------------
\* Mutant: a lock of each process alone.
AcquireAnyway(c) ==
    /\ call[c].pc = "lock"
    /\ lock \in {NoOne} \cup {x \in Callers : Src(x) # Src(c)}
    /\ lock' = c
    /\ Continue(c, [call[c] EXCEPT !.pc = "read"])
    /\ UNCHANGED <<file, issued, valid, expired, mu, path, cached, app, spent, lost>>

\* lockRefresh: the lock of the whole machine, tried again for refreshLockWait.
Acquire(c) ==
    /\ call[c].pc = "lock"
    /\ lock = NoOne
    /\ lock' = c
    /\ Continue(c, [call[c] EXCEPT !.pc = "read"])
    /\ UNCHANGED <<file, issued, valid, expired, mu, path, cached, app, spent, lost>>

\* The wait for the lock is over, or its file cannot be opened or locked.
GiveUp(c) ==
    /\ call[c].pc = "lock"
    /\ \/ lock # NoOne /\ Continue(c, Ended(call[c], "busy", 0))
       \/ Continue(c, Ended(call[c], "error", 0))
    /\ UNCHANGED <<file, issued, valid, expired, lock, mu, path, cached, app, spent, lost>>

\* The file is read under both locks; a refresh that is not needed is skipped,
\* one without a refresh token fails.
ReadFile(c) ==
    LET f == file[FileOf(c)]
        skip == call[c].op # "Refresh" /\ ~NeedsRefresh(f)
        r == [call[c] EXCEPT !.seen = f]
    IN  /\ call[c].pc = "read"
        /\ mu[Src(c)] = NoOne
        /\ IF ~Exists(f) \/ (~skip /\ f.refresh = 0) \/ (skip /\ f.access = 0)
           THEN Continue(c, Ended(r, "error", 0)) /\ lock' = NoOne /\ UNCHANGED mu
           ELSE /\ Continue(c, [r EXCEPT !.pc = IF skip THEN "cache" ELSE "post"])
                /\ mu' = [mu EXCEPT ![Src(c)] = c]
                /\ UNCHANGED lock
        /\ UNCHANGED <<file, issued, valid, expired, path, cached, app, spent, lost>>

\* The server uses up the refresh token t and issues the fields of its answer.
Rotate(t, fields) ==
    /\ t \in valid
    /\ issued < MaxIssued
    /\ issued' = issued + 1
    /\ valid' = IF "refresh" \in fields THEN (valid \ {t}) \cup {issued + 1} ELSE valid

\* Mutant: the mutex is not given back after a rejection.
PostRejectedKeepsMutex(c) ==
    /\ call[c].pc = "post"
    /\ call[c].seen.refresh \notin valid
    /\ Continue(c, Rejected(call[c]))
    /\ lock' = NoOne
    /\ UNCHANGED <<file, issued, valid, expired, mu, path, cached, app, spent, lost>>

PostRejected(c) ==
    /\ call[c].pc = "post"
    /\ call[c].seen.refresh \notin valid
    /\ Continue(c, Rejected(call[c]))
    /\ Release(c)
    /\ UNCHANGED <<file, issued, valid, expired, path, cached, app, spent, lost>>

\* An answer with some of the fields; one with none is an error.
PostAnswered(c) ==
    /\ call[c].pc = "post"
    /\ \E fields \in Answers :
        IF fields = {}
        THEN /\ Continue(c, Ended(call[c], "error", 0))
             /\ Release(c)
             /\ UNCHANGED <<issued, valid>>
        ELSE /\ Rotate(call[c].seen.refresh, fields)
             /\ Continue(c, [call[c] EXCEPT !.pc = "persist", !.fields = fields, !.new = issued + 1])
             /\ UNCHANGED <<lock, mu>>
    /\ UNCHANGED <<file, expired, path, cached, app, spent, lost>>

\* The server has rotated the token, and its answer does not arrive, or not in
\* time, or cannot be read.
PostLost(c) ==
    /\ call[c].pc = "post"
    /\ \E fields \in Answers :
        /\ Rotate(call[c].seen.refresh, fields)
        /\ lost' = (lost \/ "refresh" \in fields)
    /\ Continue(c, Ended(call[c], "error", 0))
    /\ Release(c)
    /\ UNCHANGED <<file, expired, path, cached, app, spent>>

\* Mutant: the rotated refresh token is not put in.
MergedAccess(r, stamp) ==
    [stamp |-> stamp,
     access |-> IF "access" \in r.fields THEN r.new ELSE r.seen.access,
     refresh |-> r.seen.refresh]

\* The document that was read, with the fields of the answer put in.
Merged(r, stamp) ==
    [stamp |-> stamp,
     access |-> IF "access" \in r.fields THEN r.new ELSE r.seen.access,
     refresh |-> IF "refresh" \in r.fields THEN r.new ELSE r.seen.refresh]

\* persistRefreshedTokens: the file is replaced at once (write aside, rename),
\* whatever it holds by now.
Persist(c) ==
    /\ call[c].pc = "persist"
    /\ \E stamp \in Stamps :
        LET p == FileOf(c)
            f == Merged(call[c], stamp)
            r == [call[c] EXCEPT !.seen = f, !.fields = {}, !.new = 0]
        IN  /\ file' = [file EXCEPT ![p] = f]
            /\ lost' = (lost \/ file[p] # call[c].seen)
            /\ Overtake(p, f)
            /\ IF f.access = 0
               THEN /\ call' = Seen([call EXCEPT ![c] = Ended(r, "error", 0)], p, f)
                    /\ Release(c)
               ELSE /\ call' = Seen([call EXCEPT ![c] = [r EXCEPT !.pc = "cache"]], p, f)
                    /\ UNCHANGED <<lock, mu>>
    /\ UNCHANGED <<issued, valid, expired, path, app, spent>>

PersistFails(c) ==
    /\ call[c].pc = "persist"
    /\ lost' = (lost \/ "refresh" \in call[c].fields)
    /\ Continue(c, Ended(call[c], "error", 0))
    /\ Release(c)
    /\ UNCHANGED <<file, issued, valid, expired, path, cached, app, spent>>

\* cacheLocked: the token is cached under the stamp that the file has now.
CacheLocked(c) ==
    LET s == Src(c)
        now == file[path[s]]
        r == call[c]
    IN  /\ r.pc = "cache"
        /\ IF Exists(now)
           THEN /\ cached' = [cached EXCEPT ![s] =
                                [access |-> r.seen.access, stamp |-> now.stamp,
                                 overtaken |-> now.access # r.seen.access]]
                /\ Continue(c, Ended(r, "token", r.seen.access))
           ELSE /\ Continue(c, Ended(r, "error", 0))
                /\ UNCHANGED cached
        /\ Release(c)
        /\ UNCHANGED <<file, issued, valid, expired, path, app, spent, lost>>

\* The process of source s dies: its calls are gone, the system releases the lock.
Crash(s) ==
    LET mine == {c \in Callers : Src(c) = s}
    IN  /\ \E c \in mine : Active(c)
        /\ call' = [c \in Callers |-> IF c \in mine THEN Idle ELSE call[c]]
        /\ lock' = IF lock \in mine THEN NoOne ELSE lock
        /\ mu' = [mu EXCEPT ![s] = NoOne]
        /\ cached' = [cached EXCEPT ![s] = NotCached]
        /\ lost' = (lost \/ \E c \in mine : call[c].pc = "persist" /\ "refresh" \in call[c].fields)
        /\ UNCHANGED <<file, issued, valid, expired, path, app, spent>>

--------------------------------------------------------------------------------
(* The Codex app, and time. The app does not take the lock. *)
AppWrites(p, f) ==
    /\ file' = [file EXCEPT ![p] = f]
    /\ call' = Seen(call, p, f)
    /\ Overtake(p, f)
    /\ UNCHANGED <<expired, lock, mu, path, lost>>

\* The app refreshes its login: the server rotates the token, and only then, if
\* the answer arrives, does the app write the file, whatever that holds by now.
AppPost(p) ==
    /\ app[p] = 0
    /\ Rotate(file[p].refresh, {"refresh"})
    /\ app' = [app EXCEPT ![p] = issued + 1]
    /\ spent' = spent \cup {file[p].refresh}
    /\ UNCHANGED <<file, expired, lock, mu, path, cached, call, lost>>

AppWrite(p) ==
    /\ app[p] # 0
    /\ \E stamp \in Stamps : AppWrites(p, Login(stamp, app[p]))
    /\ app' = [app EXCEPT ![p] = 0]
    /\ UNCHANGED <<issued, valid, spent>>

\* A new login, besides whatever sessions the server already has.
AppLogin(p) ==
    /\ issued < MaxIssued
    /\ issued' = issued + 1
    /\ valid' = valid \cup {issued + 1}
    /\ \E stamp \in Stamps : AppWrites(p, Login(stamp, issued + 1))
    /\ UNCHANGED <<app, spent>>

AppLogout(p) ==
    /\ Exists(file[p])
    /\ valid' = valid \ {file[p].refresh}
    /\ spent' = spent \cup {file[p].refresh}
    /\ AppWrites(p, Absent)
    /\ UNCHANGED <<issued, app>>

Expire ==
    /\ expired < issued
    /\ expired' = issued
    /\ UNCHANGED <<file, issued, valid, lock, mu, path, cached, call, app, spent, lost>>

\* The steps of a call after its start.
Step(c) ==
    \/ GetStat(c) \/ GetAnswer(c)
    \/ Acquire(c) \/ GiveUp(c) \/ ReadFile(c)
    \/ PostRejected(c) \/ PostAnswered(c) \/ PostLost(c)
    \/ Persist(c) \/ PersistFails(c) \/ CacheLocked(c)
AppNext == \E p \in Paths : AppPost(p) \/ AppWrite(p) \/ AppLogin(p) \/ AppLogout(p)
TokenNext ==
    \/ \E c \in Callers : Start(c) \/ Step(c)
    \/ \E s \in Sources : Crash(s)
    \/ AppNext
    \/ Expire
TokenSpec == TokenInit /\ [][TokenNext]_tokenVars

\* Every call goes on: the lock is polled until refreshLockWait, the request to
\* the token endpoint has a timeout. A mutex is handed to the goroutine that has
\* waited long enough (strong fairness).
Fairness ==
    \A c \in Callers : WF_tokenVars(Step(c)) /\ SF_tokenVars(GetAnswer(c) \/ ReadFile(c))
TokenFairSpec == TokenSpec /\ Fairness

--------------------------------------------------------------------------------
\* A token that is returned was in the file at some time during the call (Get,
\* cacheLocked). The one exception is a token from a cache whose time and size
\* the file had with another token in it.
TokenCurrent ==
    \A c \in Callers :
        call[c].out = "token" /\ ~call[c].stale => call[c].got \in call[c].since

\* The same without the exception, as the package promises: a rotation by the
\* Codex app is picked up by the next Get.
RotationPickedUp ==
    \A c \in Callers : call[c].out = "token" => call[c].got \in call[c].since

\* No refresh ruins the login: as long as no rotated token was lost on the way
\* to the file (a crash, an answer or write that failed, a file overwritten
\* that was no longer the one read) and no refresh is at work, the server accepts
\* the refresh token in a file (refreshLocked, persistRefreshedTokens), but while
\* the app has yet to write what it got for it.
LoginKept ==
    ~lost /\ lock = NoOne =>
        \A p \in Paths : app[p] = 0 /\ file[p].refresh # 0 => file[p].refresh \in valid

\* Two refreshers never send the same refresh token: the server rejects one only
\* when the Codex app has used or revoked it, even before it was read from the
\* file, or a token was lost before.
RejectionExplained ==
    \A c \in Callers : call[c].out = "rejected" => call[c].theirs \/ lost

\* Every call of the token source ends (the lock is given up after
\* refreshLockWait, and is never kept by a caller that has returned).
CallsEnd == \A c \in Callers : []<>~Active(c)
================================================================================
