------------------------------- MODULE HotReload -------------------------------
(***************************************************************************)
(* The configuration file is watched, debounced and loaded again, and the  *)
(* callbacks of a reload renew the services one after the other while      *)
(* requests are served.  A reload runs in the goroutine of the timer that  *)
(* started it: a change during a slow reload starts a second one beside it.*)
(*                                                                         *)
(* A load of the file has a number, 0 for the one at start-up; a service   *)
(* holds the number of the load it was last built from, and everything a   *)
(* load builds (provider instances, pools, a health checker) is known by   *)
(* the number.                                                             *)
(***************************************************************************)
EXTENDS Integers, Sequences, FiniteSets

CONSTANTS
    Contents,   \* what the file may hold,
    Parsed,     \* the contents that Load accepts,
    Initial,    \* the content at start-up
    Providers,
    OpenAI,     \* the providers listed under openai_providers
    Enabled,    \* the enabled providers of a content
    Flaky,      \* providers whose client cannot always be created
    Checked,    \* contents with health checks
    MaxEdits    \* bound: changes of the file

Loads == 0 .. MaxEdits
Reloads == 1 .. MaxEdits

\* In the order in which the services register them; those for OpenAI exist only if the
\* file lists such providers at start-up.
Callbacks ==
    IF OpenAI = {}
    THEN <<"ProviderMap", "KeyPool", "KeyPoolMap", "ProviderInfo", "Concurrency",
           "Checker", "Config">>
    ELSE <<"ProviderMap", "KeyPool", "KeyPoolMap", "ProviderInfo", "Concurrency",
           "OpenAIProviderMap", "OpenAIKeyPoolMap", "OpenAIProviderInfo", "Checker", "Config">>

\* The primary pool is not read after start-up, and the limit is ConcurrencyLimiter's.
Elsewhere == {"KeyPool", "Concurrency"}
Services == {Callbacks[i] : i \in DOMAIN Callbacks} \ Elsewhere
Maps == Services \cap {"ProviderMap", "OpenAIProviderMap"}
Infos == Services \cap {"ProviderInfo", "OpenAIProviderInfo"}

\* The list in the configuration that a service is built from.
Listed(s) ==
    IF s \in {"OpenAIProviderMap", "OpenAIKeyPoolMap", "OpenAIProviderInfo"}
    THEN OpenAI ELSE Providers \ OpenAI

MapOf == [s \in Infos |-> IF s = "ProviderInfo" THEN "ProviderMap" ELSE "OpenAIProviderMap"]

ASSUME ReloadAssumption ==
    /\ MaxEdits \in Nat
    /\ Parsed \subseteq Contents /\ Initial \in Parsed
    /\ OpenAI \subseteq Providers /\ Flaky \subseteq Providers
    /\ Enabled \in [Contents -> SUBSET Providers]
    /\ Enabled[Initial] \ OpenAI # {}
    /\ Checked \subseteq Contents

VARIABLES
    file, edits, events,        \* the file and the notices of its changes
    watching, timer,            \* the watch loop and its debounce timer
    pc, at, read, created, old, \* the reloads, by their load
    held, madeBy,               \* the services: their load, and their map's
    alive, cancelled,           \* the health checkers, by their load
    started, locked,            \* CheckerService.started and its mutex
    phase,                      \* of the shutdown
    last, mixed                 \* history: the last load; whether it found another at work

watcherVars == <<file, edits, events, watching, timer>>
reloadVars == <<pc, at, read, created, old>>
serviceVars == <<held, madeBy>>
checkerVars == <<alive, cancelled, started, locked>>
history == <<last, mixed>>

reloadAll == <<watcherVars, reloadVars, serviceVars, checkerVars, phase, history>>

ReloadTypeOK ==
    /\ file \in Contents
    /\ edits \in 0 .. MaxEdits /\ events \in 0 .. edits
    /\ watching \in BOOLEAN /\ timer \in BOOLEAN
    /\ pc \in [Loads -> {"idle", "fired", "load", "run", "stop", "wait", "done"}]
    /\ at \in [Loads -> 1 .. Len(Callbacks)]
    /\ read \in [Loads -> Contents]
    /\ created \in [Loads -> SUBSET Providers]
    /\ old \in [Loads -> Loads]
    /\ held \in [Services -> Loads]
    /\ madeBy \in [Infos -> Loads]
    /\ alive \subseteq Loads /\ cancelled \subseteq Loads
    /\ started \in BOOLEAN /\ locked \in BOOLEAN
    /\ phase \in {"serving", "draining", "stopping", "closing", "closed"}
    /\ last \in Loads /\ mixed \in BOOLEAN

\* The services are built, the checker is started, and then the file is watched.
ReloadInit ==
    /\ file = Initial /\ edits = 0 /\ events = 0
    /\ watching = TRUE /\ timer = FALSE
    /\ pc = [n \in Loads |-> IF n = 0 THEN "done" ELSE "idle"]
    /\ at = [n \in Loads |-> 1]
    /\ read = [n \in Loads |-> Initial]
    /\ created = [n \in Loads |-> IF n = 0 THEN Enabled[Initial] ELSE {}]
    /\ old = [n \in Loads |-> 0]
    /\ held = [s \in Services |-> 0]
    /\ madeBy = [s \in Infos |-> 0]
    /\ alive = IF Initial \in Checked THEN {0} ELSE {}
    /\ cancelled = {}
    /\ started = TRUE /\ locked = FALSE
    /\ phase = "serving"
    /\ last = 0 /\ mixed = FALSE

--------------------------------------------------------------------------------
(***************************************************************************)
(* The file and the watch loop.                                            *)
(***************************************************************************)

\* Somebody writes the file, or renames another over it.
Edit(c) ==
    /\ edits < MaxEdits
    /\ file' = c
    /\ edits' = edits + 1
    /\ events' = events + 1
    /\ UNCHANGED <<watching, timer, reloadVars, serviceVars, checkerVars, phase, history>>

\* The old timer is stopped, if it has not fired, and a new one is set.
HandleEvent ==
    /\ watching /\ events > 0
    /\ events' = events - 1
    /\ timer' = TRUE
    /\ UNCHANGED <<file, edits, watching, reloadVars, serviceVars, checkerVars, phase, history>>

\* The watch context is done; a closed channel of events ends the loop as well,
\* and leaves the timer.
LoopEnds ==
    /\ watching /\ phase # "serving"
    /\ watching' = FALSE
    /\ timer' \in {FALSE, timer /\ phase = "closed"}
    /\ UNCHANGED <<file, edits, events, reloadVars, serviceVars, checkerVars, phase, history>>

Active(r) == pc[r] \notin {"idle", "done"}

\* A goroutine of its own.
TimerFires(r) ==
    /\ timer /\ pc[r] = "idle" /\ pc[r - 1] # "idle"
    /\ timer' = FALSE
    /\ pc' = [pc EXCEPT ![r] = "fired"]
    /\ UNCHANGED <<file, edits, events, watching, at, read, created, old,
                   serviceVars, checkerVars, phase, history>>

\* A watcher that was closed in the meantime reloads nothing.
CheckClosed(r) ==
    /\ pc[r] = "fired"
    /\ pc' = [pc EXCEPT ![r] = IF phase = "closed" THEN "done" ELSE "load"]
    /\ UNCHANGED <<watcherVars, at, read, created, old, serviceVars, checkerVars, phase, history>>

Loaded(r) == pc[r] \in {"run", "stop", "wait"}

\* What cannot be parsed ends the reload.
Load(r) ==
    /\ pc[r] = "load"
    /\ read' = [read EXCEPT ![r] = file]
    /\ IF file \in Parsed
       THEN /\ pc' = [pc EXCEPT ![r] = "run"]
            /\ last' = r
            /\ mixed' = \E q \in Reloads : Loaded(q)
       ELSE /\ pc' = [pc EXCEPT ![r] = "done"]
            /\ UNCHANGED history
    /\ UNCHANGED <<watcherVars, at, created, old, serviceVars, checkerVars, phase>>

--------------------------------------------------------------------------------
(***************************************************************************)
(* The callbacks.                                                          *)
(***************************************************************************)

Calls(r, s) == pc[r] = "run" /\ Callbacks[at[r]] = s

\* On to the next callback, whatever this one returned.
Advance(r) ==
    IF at[r] = Len(Callbacks)
    THEN /\ pc' = [pc EXCEPT ![r] = "done"]
         /\ UNCHANGED at
    ELSE /\ pc' = [pc EXCEPT ![r] = "run"]
         /\ at' = [at EXCEPT ![r] = @ + 1]

Store(r, s) == held' = [held EXCEPT ![s] = r]

\* New instances of the enabled providers, but for those that cannot be created;
\* with none at all the current ones are kept.
RebuildProviders(r, s) ==
    /\ s \in Maps /\ Calls(r, s)
    /\ \E broken \in SUBSET Flaky :
         LET providers == (Enabled[read[r]] \cap Listed(s)) \ broken
         IN  IF providers = {}
             THEN UNCHANGED <<created, held>>
             ELSE /\ created' = [created EXCEPT ![r] = @ \cup providers]
                  /\ Store(r, s)
    /\ Advance(r)
    /\ UNCHANGED <<watcherVars, read, old, madeBy, checkerVars, phase, history>>

\* Mutant: rebuilt from cfgSvc.Get(), which the reload has not changed yet.
RebuildInfosFromCurrent(r, s) ==
    /\ s \in Infos /\ Calls(r, s)
    /\ Store(held["Config"], s)
    /\ madeBy' = [madeBy EXCEPT ![s] = held[MapOf[s]]]
    /\ Advance(r)
    /\ UNCHANGED <<watcherVars, read, created, old, checkerVars, phase, history>>

\* The configuration of this reload and the provider map of this moment.
RebuildInfos(r, s) ==
    /\ s \in Infos /\ Calls(r, s)
    /\ Store(r, s)
    /\ madeBy' = [madeBy EXCEPT ![s] = held[MapOf[s]]]
    /\ Advance(r)
    /\ UNCHANGED <<watcherVars, read, created, old, checkerVars, phase, history>>

RebuildElsewhere(r) ==
    /\ \E s \in Elsewhere : Calls(r, s)
    /\ Advance(r)
    /\ UNCHANGED <<watcherVars, read, created, old, serviceVars, checkerVars, phase, history>>

\* The pools with the keys, and the configuration itself.
Replace(r, s) ==
    /\ s \in {"KeyPoolMap", "OpenAIKeyPoolMap", "Config"} /\ Calls(r, s)
    /\ Store(r, s)
    /\ Advance(r)
    /\ UNCHANGED <<watcherVars, read, created, old, madeBy, checkerVars, phase, history>>

Current == held["Checker"]

\* Under the mutex the new checker takes the place of the old one; the old one is
\* stopped and the new one started after it, and only if checkers run at all.
SwapChecker(r) ==
    /\ Calls(r, "Checker") /\ ~locked
    /\ Store(r, "Checker")
    /\ old' = [old EXCEPT ![r] = Current]
    /\ IF started
       THEN pc' = [pc EXCEPT ![r] = "stop"] /\ UNCHANGED at
       ELSE Advance(r)
    /\ UNCHANGED <<watcherVars, read, created, madeBy, checkerVars, phase, history>>

StopOld(r) ==
    /\ pc[r] = "stop"
    /\ cancelled' = cancelled \cup {old[r]}
    /\ pc' = [pc EXCEPT ![r] = "wait"]
    /\ UNCHANGED <<watcherVars, at, read, created, old, serviceVars, alive, started, locked,
                   phase, history>>

\* The old checker's goroutine, which may be in the middle of a check, has returned.
StartNew(r) ==
    /\ pc[r] = "wait" /\ old[r] \notin alive
    /\ alive' = IF read[r] \in Checked THEN alive \cup {r} ELSE alive
    /\ Advance(r)
    /\ UNCHANGED <<watcherVars, read, created, old, serviceVars, cancelled, started, locked,
                   phase, history>>

\* A checker's loop notices that it was cancelled.
CheckerEnds(n) ==
    /\ n \in alive \cap cancelled
    /\ alive' = alive \ {n}
    /\ UNCHANGED <<watcherVars, reloadVars, serviceVars, cancelled, started, locked, phase, history>>

--------------------------------------------------------------------------------
(***************************************************************************)
(* The shutdown: the watch context, the checker, then the watcher.         *)
(***************************************************************************)

CancelWatch ==
    /\ phase = "serving"
    /\ phase' = "draining"
    /\ UNCHANGED <<watcherVars, reloadVars, serviceVars, checkerVars, history>>

\* CheckerService.Shutdown keeps the mutex until the checker has ended.
StopCurrent ==
    /\ phase = "draining" /\ ~locked
    /\ locked' = TRUE
    /\ cancelled' = cancelled \cup {Current}
    /\ phase' = "stopping"
    /\ UNCHANGED <<watcherVars, reloadVars, serviceVars, alive, started, history>>

\* Mutant: the service goes on as if its checker ran.
CheckerStoppedStillStarted ==
    /\ phase = "stopping" /\ Current \notin alive
    /\ locked' = FALSE
    /\ phase' = "closing"
    /\ UNCHANGED <<watcherVars, reloadVars, serviceVars, alive, cancelled, started, history>>

CheckerStopped ==
    /\ phase = "stopping" /\ Current \notin alive
    /\ started' = FALSE
    /\ locked' = FALSE
    /\ phase' = "closing"
    /\ UNCHANGED <<watcherVars, reloadVars, serviceVars, alive, cancelled, history>>

CloseWatcher ==
    /\ phase = "closing"
    /\ phase' = "closed"
    /\ UNCHANGED <<watcherVars, reloadVars, serviceVars, checkerVars, history>>

Shutdown == StopCurrent \/ CheckerStopped \/ CloseWatcher

--------------------------------------------------------------------------------

ReloadStep(r) ==
    \/ CheckClosed(r)
    \/ Load(r)
    \/ \E s \in Services : RebuildProviders(r, s) \/ RebuildInfos(r, s) \/ Replace(r, s)
    \/ RebuildElsewhere(r)
    \/ SwapChecker(r)
    \/ StopOld(r)
    \/ StartNew(r)

ReloadNext ==
    \/ \E c \in Contents : Edit(c)
    \/ HandleEvent
    \/ LoopEnds
    \/ \E r \in Reloads : TimerFires(r) \/ ReloadStep(r)
    \/ \E n \in Loads : CheckerEnds(n)
    \/ CancelWatch
    \/ Shutdown

ReloadSpec == ReloadInit /\ [][ReloadNext]_reloadAll

--------------------------------------------------------------------------------
(***************************************************************************)
(* Properties.                                                             *)
(***************************************************************************)

NoReload == \A r \in Reloads : ~Active(r)

\* Every notice was taken and every reload is over.
Settled == NoReload /\ ~timer /\ events = 0 /\ watching /\ phase = "serving"

\* The services of load n: all of them hold it, except where it built nothing, and
\* the routing lists name the instances of the present provider map.
AllHold(n) ==
    /\ \A s \in Services \ Maps : held[s] = n
    /\ \A s \in Maps : held[s] = n \/ created[n] \cap Listed(s) = {}
    /\ \A s \in Infos : madeBy[s] = held[MapOf[s]]

\* No change of the file is missed, and no service is left behind: once all is quiet,
\* the last load accepted is the file, or the file is no configuration, and if it ran
\* beside no other reload then every service holds it (triggerReload, invokeCallbacks).
SettledOnFile ==
    Settled =>
        /\ file \in Parsed => read[last] = file
        /\ ~mixed => AllHold(last)

\* Whatever reloads and a shutdown overlap, a checker that runs and was not told to
\* stop is the current one of a service not shut down, or is about to be stopped by
\* the reload that replaced it; and the current one runs, unless its reload has yet to
\* start it (swapChecker, CheckerService.Shutdown).
CheckersAccounted ==
    /\ \A n \in alive \ cancelled :
         \/ n = Current /\ phase \notin {"closing", "closed"}
         \/ \E r \in Reloads : pc[r] = "stop" /\ old[r] = n
    /\ (/\ phase \in {"serving", "draining"}
        /\ read[Current] \in Checked
        /\ pc[Current] \notin {"stop", "wait"}) => Current \in alive \ cancelled

\* The configuration that requests read (ConfigService.Get) is the file's when all is
\* quiet: "New requests use the latest configuration after reload completes."
LatestConfiguration ==
    (Settled /\ file \in Parsed) => read[held["Config"]] = file

================================================================================
