----------------------------- MODULE CacheContract -----------------------------
(***************************************************************************)
(* What internal/cache/cache.go promises of every implementation of Cache: *)
(* a read takes effect at one moment between its begin and its answer, and *)
(* so does a write of an eager cache.  Any other cache may keep a write    *)
(* that it has answered and make it later, once, or never; so may an eager *)
(* one with a write that it has answered with an error.  A cache may       *)
(* forget (expiry, eviction), and once it is closed it answers ErrClosed   *)
(* for ever.                                                               *)
(***************************************************************************)
EXTENDS Naturals

CONSTANTS
    Callers,   \* goroutines that use the cache
    Keys,
    Values,
    Nothing    \* no value, no call

VARIABLES
    content,   \* [Keys -> Values \cup {Nothing}]
    late,      \* [Keys -> [Values -> the number of writes still to be made]]
    eager,     \* "ok" to a write means that it has been made
    open,
    pending,   \* [Callers -> a call that has no answer yet, or Nothing]
    reply      \* [Callers -> the answer of the last call, until the next]

vars == <<content, late, eager, open, pending, reply>>

\* The operations; a report is Stats, MemberlistAddr or ClusterMembers.
Call ==
    [op : {"get", "exists", "delete"}, key : Keys, value : {Nothing}]
    \cup [op : {"set", "setTTL"}, key : Keys, value : Values]
    \cup [op : {"ping", "report", "close"}, key : {Nothing}, value : {Nothing}]

Status == {"none", "value", "missing", "ok", "yes", "no", "closed", "cancelled", "failed"}
Reply == [status : Status, value : Values \cup {Nothing}]
Just(status) == [status |-> status, value |-> Nothing]

Init ==
    /\ content = [k \in Keys |-> Nothing]
    /\ late = [k \in Keys |-> [v \in Values |-> 0]]
    /\ eager \in BOOLEAN
    /\ open = TRUE
    /\ pending = [c \in Callers |-> Nothing]
    /\ reply = [c \in Callers |-> Just("none")]

Ask(c) ==
    /\ pending[c] = Nothing
    /\ \E call \in Call : pending' = [pending EXCEPT ![c] = call]
    /\ reply' = [reply EXCEPT ![c] = Just("none")]
    /\ UNCHANGED <<content, late, eager, open>>

Answer(c, r) ==
    /\ pending[c] # Nothing
    /\ pending' = [pending EXCEPT ![c] = Nothing]
    /\ reply' = [reply EXCEPT ![c] = r]

Read(c) ==
    /\ pending[c].op = "get"
    /\ open
    /\ LET x == content[pending[c].key] IN
       Answer(c, IF x = Nothing THEN Just("missing") ELSE [status |-> "value", value |-> x])
    /\ UNCHANGED <<content, late, eager, open>>

Probe(c) ==
    /\ pending[c].op = "exists"
    /\ open
    /\ Answer(c, Just(IF content[pending[c].key] = Nothing THEN "no" ELSE "yes"))
    /\ UNCHANGED <<content, late, eager, open>>

Sets(c) == pending[c].op \in {"set", "setTTL"}
Writes(c) == Sets(c) \/ pending[c].op = "delete"

\* The write is made: what was there is replaced.
Made(c) ==
    /\ content' = [content EXCEPT ![pending[c].key] = pending[c].value]
    /\ UNCHANGED late

\* The write is kept to be made later.
Kept(c) ==
    /\ Sets(c)
    /\ late' = [late EXCEPT ![pending[c].key][pending[c].value] = @ + 1]
    /\ UNCHANGED content

Write(c) ==
    /\ Writes(c)
    /\ open
    /\ \/ Made(c)
       \/ ~eager /\ Kept(c)
       \/ ~eager /\ Sets(c) /\ UNCHANGED <<content, late>>
    /\ Answer(c, Just("ok"))
    /\ UNCHANGED <<eager, open>>

Inspect(c) ==
    /\ pending[c].op \in {"ping", "report"}
    /\ open \/ pending[c].op = "report"
    /\ Answer(c, Just("ok"))
    /\ UNCHANGED <<content, late, eager, open>>

\* The backend fails, or the caller's context is over: a write may have been made, or
\* may still be.
Fail(c) ==
    /\ pending[c].op # "close"
    /\ \/ UNCHANGED <<content, late>>
       \/ open /\ Writes(c) /\ (Made(c) \/ Kept(c))
    /\ \E s \in {"failed", "cancelled"} : (s = "failed" => open) /\ Answer(c, Just(s))
    /\ UNCHANGED <<eager, open>>

Refuse(c) ==
    /\ ~open
    /\ pending[c].op # "close"
    /\ Answer(c, Just("closed"))
    /\ UNCHANGED <<content, late, eager, open>>

Shut(c) ==
    /\ open
    /\ pending[c] # Nothing
    /\ pending[c].op = "close"
    /\ open' = FALSE
    /\ UNCHANGED <<content, late, eager, pending, reply>>

Closed(c) ==
    /\ ~open
    /\ pending[c].op = "close"
    /\ \E s \in {"ok", "failed"} : Answer(c, Just(s))
    /\ UNCHANGED <<content, late, eager, open>>

Forget(k) ==
    /\ content' = [content EXCEPT ![k] = Nothing]
    /\ UNCHANGED <<late, eager, open, pending, reply>>

\* A write that was kept is made, or given up.
Settle(k, v) ==
    /\ late[k][v] > 0
    /\ late' = [late EXCEPT ![k][v] = @ - 1]
    /\ content' = [content EXCEPT ![k] = v] \/ UNCHANGED content
    /\ UNCHANGED <<eager, open, pending, reply>>

Served(c) ==
    /\ pending[c] # Nothing
    /\ Read(c) \/ Probe(c) \/ Write(c) \/ Inspect(c) \/ Fail(c) \/ Refuse(c) \/ Closed(c)

Next ==
    \/ \E c \in Callers : Ask(c) \/ Served(c) \/ Shut(c)
    \/ \E k \in Keys : Forget(k)
    \/ \E k \in Keys, v \in Values : Settle(k, v)

Spec == Init /\ [][Next]_vars
================================================================================
