------------------------------ MODULE CodexImages ------------------------------
(***************************************************************************)
(* The images endpoint (images_handler.go) on top of the token source: one *)
(* token is taken for a request, and the Codex backend is called with it   *)
(* once per image, while the Codex app and other processes rotate the      *)
(* login and a reload of the configuration names another auth file.        *)
(***************************************************************************)
EXTENDS CodexToken, Sequences

CONSTANTS
    Requests,   \* callers that serve an images request
    Handler,    \* the source that the handler keeps (ImagesHandler.tokenSrc)
    MaxN,       \* GetMaxImagesPerRequest
    MaxImages,  \* bound: images that one call of the backend brings
    Failures    \* how a call of the backend can fail: statuses, 0 for no response

VARIABLES
    authFile,   \* the auth file in the current configuration
    built,      \* tokenSrc has been made
    hmu,        \* the request that holds ImagesHandler.mu
    job,        \* [Requests -> Job]
    held        \* history, [Paths -> SUBSET Token]: access tokens a file has held

imageVars == <<authFile, built, hmu, job, held>>
vars == <<tokenVars, imageVars>>

ASSUME ImagesAssumption ==
    /\ Requests \subseteq Callers
    /\ Handler \in Sources
    /\ \A c \in Callers : SourceOf[c] = Handler <=> c \in Requests
    /\ \A r \in Requests : OpsOf[r] = {}
    /\ MaxN \in Nat \ {0} /\ MaxImages \in Nat
    /\ Failures \subseteq Nat \ {200}

\* data: the images collected, each as its call and its place in what that
\* brought; calls: what each call brought (history), images or a failure.
Outcome == [images : 0..MaxImages, failure : Failures \cup {200}]
Job == [pc : {"idle", "token", "get", "call", "done"}, n : 1..MaxN, path : Paths,
        token : Token, data : SUBSET (Nat \X Nat), calls : Seq(Outcome), status : Nat]
NoJob == [pc |-> "idle", n |-> 1, path |-> CHOOSE p \in Paths : TRUE, token |-> 0,
          data |-> {}, calls |-> <<>>, status |-> 0]

TypeOK ==
    /\ TokenTypeOK
    /\ authFile \in Paths
    /\ built \in BOOLEAN
    /\ hmu \in Requests \cup {NoOne}
    /\ job \in [Requests -> Job]
    /\ held \in [Paths -> SUBSET Token]
    /\ \A r \in Requests : Len(job[r].calls) <= job[r].n

Init ==
    /\ TokenInit
    /\ authFile \in Paths
    /\ built = FALSE
    /\ hmu = NoOne
    /\ job = [r \in Requests |-> NoJob]
    /\ held = [p \in Paths |-> {file[p].access}]

--------------------------------------------------------------------------------
Answer(r, status) == job' = [job EXCEPT ![r].pc = "done", ![r].status = status]

\* A request comes in: the configuration is read, the parameters are checked
\* (no prompt, an unsupported format, too many images, an edit without image).
Arrive(r) ==
    /\ job[r].pc = "idle"
    /\ \/ \E n \in 1..MaxN :
            job' = [job EXCEPT ![r] = [NoJob EXCEPT !.pc = "token", !.n = n, !.path = authFile]]
       \/ job' = [job EXCEPT ![r] = [NoJob EXCEPT !.pc = "done", !.status = 400]]
    /\ UNCHANGED <<tokenVars, authFile, built, hmu, held>>

\* Mutant: a source that is there is kept, whatever file it reads.
ResolveTokenKept(r) ==
    /\ job[r].pc = "token"
    /\ hmu = NoOne
    /\ hmu' = r
    /\ job' = [job EXCEPT ![r].pc = "get"]
    /\ built' = TRUE
    /\ IF built THEN UNCHANGED <<path, cached>>
       ELSE /\ path' = [path EXCEPT ![Handler] = job[r].path]
            /\ cached' = [cached EXCEPT ![Handler] = NotCached]
    /\ Continue(r, Begin(r, "Get", path'[Handler]))
    /\ UNCHANGED <<file, issued, valid, expired, lock, mu, app, spent, lost, authFile, held>>

\* resolveToken: under the handler's mutex a source for another file replaces
\* the one that is there, with nothing cached, and is asked for the token.
ResolveToken(r) ==
    /\ job[r].pc = "token"
    /\ hmu = NoOne
    /\ hmu' = r
    /\ job' = [job EXCEPT ![r].pc = "get"]
    /\ built' = TRUE
    /\ IF built /\ path[Handler] = job[r].path
       THEN UNCHANGED <<path, cached>>
       ELSE /\ path' = [path EXCEPT ![Handler] = job[r].path]
            /\ cached' = [cached EXCEPT ![Handler] = NotCached]
    /\ Continue(r, Begin(r, "Get", path'[Handler]))
    /\ UNCHANGED <<file, issued, valid, expired, lock, mu, app, spent, lost, authFile, held>>

\* The token arrives, or none: 503.
TokenResolved(r) ==
    /\ job[r].pc = "get"
    /\ ~Active(r)
    /\ hmu' = NoOne
    /\ IF call[r].out = "token"
       THEN job' = [job EXCEPT ![r].pc = "call", ![r].token = call[r].got]
       ELSE Answer(r, 503)
    /\ call' = [call EXCEPT ![r] = Idle]
    /\ UNCHANGED <<file, issued, valid, expired, lock, mu, path, cached, app, spent, lost,
                   authFile, built, held>>

\* writeImagesErrorFromUpstream
Mapped(failure) ==
    CASE failure = 401 -> 503
      [] failure \in {403, 429} -> failure
      [] OTHER -> 502

\* The end of the loop: the images that arrived, or a gateway error for none.
Finished(j) == [j EXCEPT !.pc = "done", !.status = IF j.data = {} THEN 502 ELSE 200]

\* One call of the backend, with every image that its stream brings. (The errors
\* of making its request cannot occur: the prompt has been checked, and the one
\* part that prependImageParts looks for has just been made.) An error of the
\* first call is the answer, a later one ends the loop with what there is.
CallSucceeds(r) ==
    /\ job[r].pc = "call"
    /\ \E k \in 0..MaxImages :
        LET j == [job[r] EXCEPT !.data = @ \cup ({Len(job[r].calls) + 1} \X (1..k)),
                                !.calls = Append(@, [images |-> k, failure |-> 200])]
        IN  job' = [job EXCEPT ![r] = IF Len(j.calls) = j.n THEN Finished(j) ELSE j]
    /\ UNCHANGED <<tokenVars, authFile, built, hmu, held>>

\* Mutant: the error of a later call takes the place of the images before it.
CallFailsAlways(r) ==
    /\ job[r].pc = "call"
    /\ \E f \in Failures :
        LET j == [job[r] EXCEPT !.calls = Append(@, [images |-> 0, failure |-> f])]
        IN  /\ f = 401 => job[r].token <= expired
            /\ job' = [job EXCEPT ![r] = [j EXCEPT !.pc = "done", !.status = Mapped(f)]]
    /\ UNCHANGED <<tokenVars, authFile, built, hmu, held>>

CallFails(r) ==
    /\ job[r].pc = "call"
    /\ \E f \in Failures :
        LET j == [job[r] EXCEPT !.calls = Append(@, [images |-> 0, failure |-> f])]
        IN  /\ f = 401 => job[r].token <= expired
            /\ job' = [job EXCEPT ![r] =
                    IF Len(j.calls) = 1 THEN [j EXCEPT !.pc = "done", !.status = Mapped(f)]
                    ELSE Finished(j)]
    /\ UNCHANGED <<tokenVars, authFile, built, hmu, held>>

NextRequest(r) ==
    /\ job[r].pc = "done"
    /\ job' = [job EXCEPT ![r] = NoJob]
    /\ UNCHANGED <<tokenVars, authFile, built, hmu, held>>

\* A reload names another auth file.
ReloadPath ==
    /\ \E p \in Paths \ {authFile} : authFile' = p
    /\ UNCHANGED <<tokenVars, built, hmu, job, held>>

RequestStep(r) ==
    ResolveToken(r) \/ TokenResolved(r) \/ CallSucceeds(r) \/ CallFails(r)

\* The gateway itself does not crash here: its state is only in memory.
TokenStep ==
    /\ \/ \E c \in Callers : Start(c) \/ Step(c)
       \/ \E s \in Sources \ {Handler} : Crash(s)
       \/ AppNext
       \/ Expire
    /\ held' = [p \in Paths |-> held[p] \cup {file'[p].access}]
    /\ UNCHANGED <<authFile, built, hmu, job>>

Next ==
    \/ TokenStep
    \/ \E r \in Requests : Arrive(r) \/ RequestStep(r) \/ NextRequest(r)
    \/ ReloadPath

Spec == Init /\ [][Next]_vars

--------------------------------------------------------------------------------
\* The token of a request comes from the auth file that the configuration named
\* when the request came, whatever other requests made of the source (resolveToken).
TokenOfOwnPath ==
    \A r \in Requests :
        job[r].pc = "call" => job[r].token \in held[job[r].path]

\* The answer of an images request (serveImages): success exactly when a call
\* brought an image, and then all the images of all calls up to the first
\* failure; otherwise an error, the backend's own when the first call failed.
ImagesAnswered ==
    \A r \in Requests :
        LET calls == job[r].calls
            failed == {i \in DOMAIN calls : calls[i].failure # 200}
            brought == {i \in DOMAIN calls : calls[i].images > 0}
        IN  /\ failed \subseteq {Len(calls)}
            /\ job[r].pc = "done" /\ calls # <<>> =>
                /\ job[r].data = UNION {{i} \X (1..calls[i].images) : i \in brought}
                /\ job[r].status = 200 <=> brought # {}
                /\ job[r].status = 200 /\ Len(calls) < job[r].n => failed # {}
                /\ job[r].status # 200 /\ failed = {1} => job[r].status = Mapped(calls[1].failure)

================================================================================
