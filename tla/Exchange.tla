------------------------------ MODULE Exchange ------------------------------
(***************************************************************************)
(* One exchange at the Anthropic endpoint, seen from its contents: the     *)
(* body is prepared once (Thinking), every attempt sends a body made for   *)
(* the provider that is tried (Handler.serveWithRetry, ModelRewriter,      *)
(* ProviderProxy.rewrite), and the answer that is accepted is converted on *)
(* its way back (EventStream).  Which attempts there are, with which keys, *)
(* is RetryLoop's matter: here an attempt is refused or accepted freely.   *)
(***************************************************************************)
EXTENDS Thinking, EventStream

CONSTANTS
    Order,          \* the providers that are tried, one after the other
    Cloud,          \* RequiresBodyTransform: the model goes into the URL
    EventStreamers, \* StreamingContentType is the event stream's
    ModelMapping,   \* the models each provider has other names for
    Scenarios       \* the requests: body, cache entries, answers

ASSUME ExchangeAssumption ==
    /\ Order \in Seq(STRING) /\ Order # <<>>
    /\ DOMAIN ModelMapping = ToSet(Order)
    /\ Cloud \cup EventStreamers \subseteq ToSet(Order)
    /\ \A s \in Scenarios :
         /\ AnswerOK(s.answer)
         /\ BodyOK(s.body)
         /\ s.entries \in [Texts -> RawSignatures]
         /\ s.upcoming \in Seq(StreamedEvents \cup Responses)

VARIABLES
    attempt,    \* providerAttempt + 1
    stage,      \* "ready", "sent", "accepted", "refused"
    sent        \* the request of the last attempt, NotSent before

exchangeVars == <<attempt, stage, sent>>

vars == <<thinkingVars, streamVars, exchangeVars>>

NotSent == [to |-> "", body |-> original, url |-> <<>>]

Provider == Order[attempt]

\* A body that is not an object, or a model without a mapping, stays.
Mapped(p, model) ==
    IF model \in DOMAIN ModelMapping[p] THEN ModelMapping[p][model] ELSE model

RewriteModel(p, b) == IF b.json THEN [b EXCEPT !.model = Mapped(p, @)] ELSE b

\* The providers of Google and Amazon take the model from the URL and know
\* their mapping themselves; a body they cannot transform goes as it is.
TransformRequest(p, b) ==
    IF p \in Cloud /\ b.json
    THEN [url |-> <<"model", Mapped(p, b.model)>>, body |-> [b EXCEPT !.model = ""]]
    ELSE [url |-> <<"static">>, body |-> b]

\* Mutant: an attempt starts from what the last one sent.
BodyNotReset == IF attempt > 1 /\ affinity THEN StripThinkingForProviderSwitch(original)
                ELSE IF sent.to = "" THEN body ELSE sent.body

BodyToUse == IF attempt > 1 /\ affinity THEN StripThinkingForProviderSwitch(original) ELSE body

Send ==
    /\ phase = "prepared" /\ stage = "ready"
    /\ LET out == TransformRequest(Provider, RewriteModel(Provider, BodyToUse))
       IN  sent' = [to |-> Provider, body |-> out.body, url |-> out.url]
    /\ stage' = "sent"
    /\ UNCHANGED <<attempt, thinkingVars, streamVars>>

\* The same provider again, the next one, or the refusal is the answer.
Refused ==
    /\ stage = "sent"
    /\ \/ stage' = "ready" /\ UNCHANGED attempt
       \/ stage' = "ready" /\ attempt < Len(Order) /\ attempt' = attempt + 1
       \/ stage' = "refused" /\ UNCHANGED attempt
    /\ UNCHANGED <<sent, thinkingVars, streamVars>>

Accepted ==
    /\ stage = "sent"
    /\ answer.ofBedrock <=> Provider \in EventStreamers
    /\ stage' = "accepted"
    /\ UNCHANGED <<attempt, sent, thinkingVars, streamVars>>

Init ==
    \E s \in Scenarios :
        /\ ThinkingInit(s.body, s.entries, s.upcoming)
        /\ StreamInit(s.answer)
        /\ attempt = 1 /\ stage = "ready" /\ sent = NotSent

Next ==
    \/ ThinkingNext /\ UNCHANGED <<streamVars, exchangeVars>>
    \/ Send \/ Refused \/ Accepted
    \/ stage = "accepted" /\ StreamNext /\ UNCHANGED <<thinkingVars, exchangeVars>>

Spec == Init /\ [][Next]_vars

----------------------------------------------------------------------------
Free(b) ==
    /\ Thoughts(b) = {}
    /\ ~b.thinking
    /\ \A i \in DOMAIN b.messages : ~b.messages[i].reasoning

(* "StripThinkingForProviderSwitch removes all thinking-related content    *)
(* from the request body to prepare it for a different provider"           *)
(* (thinking.go:702).  Not from a body with a space before the colon of    *)
(* "type": affinity parses it and says yes, the fast path searches two     *)
(* spellings and returns it as it is (thinking.go:716).  No run checks     *)
(* this.                                                                   *)
SwitchLeavesThinkingBehind ==
    stage = "sent" /\ original.json /\ attempt > 1 /\ affinity => Free(sent.body)

(* Every attempt is made for the provider it goes to, whatever was sent to *)
(* others before: a conversation that was recognised as one with signed    *)
(* thinking, and in whose bytes the stripper finds what it searches for,   *)
(* leaves all of it behind at another provider; nothing else is lost, and  *)
(* the model is the client's under that provider's own name                *)
(* (handler.go:765-775; StripThinkingForProviderSwitch, thinking.go:714).  *)
(* A cloud provider is asked for its name twice, by the ModelRewriter and  *)
(* by TransformRequest (bedrock.go:232): the model in the URL is right     *)
(* only where that name has no other name itself.                          *)
AttemptFits ==
    stage = "sent" /\ original.json =>
        /\ attempt > 1 /\ affinity /\ original.markers # {} => Free(sent.body)
        /\ Substance(sent.body.messages) = Substance(original.messages)
        /\ Alternating(original.messages) => Alternating(sent.body.messages)
        /\ ResultsAnswerCalls(original.messages) => ResultsAnswerCalls(sent.body.messages)
        /\ LET model == Mapped(sent.to, original.model)
           IN  IF sent.to \in Cloud
               THEN /\ sent.body.model = ""
                    /\ Mapped(sent.to, model) = model => sent.url = <<"model", model>>
               ELSE sent.url = <<"static">> /\ sent.body.model = model
============================================================================
