----------------------------- MODULE MCExchange -----------------------------
(***************************************************************************)
(* Conversations of up to four messages around every assistant message of  *)
(* up to two blocks, and answers of up to three messages cut anywhere.     *)
(***************************************************************************)
EXTENDS Exchange

MCTexts == {<<"t">>, <<"u">>}
MCOrder == <<"anthropic", "bedrock">>
MCMapping == [p \in {"anthropic", "bedrock"} |->
                 IF p = "bedrock" THEN [claude |-> "eu.claude", gemini |-> "claude"]
                 ELSE [claude |-> "opus", gemini |-> "claude"]]

Block(type, text, sig) == [type |-> type, text |-> text, sig |-> sig]

Thought(sig) == Block("thinking", <<"t">>, sig)
Said == Block("text", <<"hello">>, NoSignature)
Call == Block("tool_use", <<"call">>, NoSignature)
Result == Block("tool_result", <<"call">>, NoSignature)
SignedCall == Block("tool_use", <<"call">>, Bare("s1"))
Unsigned == Thought(NoSignature)
OtherThought == Block("thinking", <<"u">>, NoSignature)
Own == Thought(Bare("s2"))
Prefixed == Thought(FormatSignature("s1"))

Alphabet == {Unsigned, OtherThought, Thought(Bare("bad")), Own, Prefixed,
             Thought(FormatSignature("")), Thought(Bare("sentinel")), Said, Call, SignedCall}

Message(role, blocks) ==
    [role |-> role, form |-> "blocks", blocks |-> blocks, reasoning |-> FALSE]
Plain(role) == [role |-> role, form |-> "plain", blocks |-> <<>>, reasoning |-> FALSE]
User == Message("user", <<Said>>)
UserResult == Message("user", <<Result>>)
Users == {User, UserResult}

Contents == {<<>>} \cup {<<a>> : a \in Alphabet} \cup (Alphabet \X Alphabet)
FewContents == {<<Own>>, <<OtherThought>>, <<Thought(Bare("bad"))>>, <<Unsigned>>, <<Unsigned, Call>>, <<Said>>}
Answers == {Message("assistant", c) : c \in FewContents}

Conversations ==
    {<<User, Message("assistant", c), u>> : c \in Contents, u \in Users}
      \cup {<<User, a1, u, a2>> : a1 \in Answers, u \in Users, a2 \in Answers}
      \cup {<<a1, a2, u>> : a1 \in Answers, a2 \in Answers, u \in Users}
      \cup {<<Plain("user"), Message("assistant", <<Own, Said>>), User>>,
            <<User, Plain("assistant"), User, Message("assistant", <<Own, Unsigned>>)>>,
            <<User, [Message("assistant", <<Said>>) EXCEPT !.reasoning = TRUE], User>>}

\* What is found in the bytes of a body that is written without spaces.
Compact(ms) ==
    LET blocks == UNION {ToSet(ms[i].blocks) : i \in DOMAIN ms}
    IN  (IF (\E b \in blocks : IsThinking(b)) /\ (\E b \in blocks : b.sig.there)
         THEN {"thinking"} ELSE {})
          \cup (IF \E i \in DOMAIN ms : ms[i].reasoning THEN {"reasoning"} ELSE {})

Body(ms) ==
    [messages |-> ms, thinking |-> TRUE, model |-> "claude", group |-> "claude",
     json |-> TRUE, tooLarge |-> FALSE, markers |-> Compact(ms)]

\* Thinking that is spelled otherwise, and patterns that something else has.
Spelled ==
    {[Body(<<User, a, u>>) EXCEPT !.markers = found] :
        a \in Answers, u \in Users, found \in SUBSET {"thinking", "reasoning"}}

Bodies ==
    {Body(ms) : ms \in Conversations} \cup Spelled
      \cup {[Body(<<User, Message("assistant", <<Thought(Bare("sentinel")), Call>>), UserResult>>)
                EXCEPT !.group = "gemini", !.model = "gemini"],
            [Body(<<>>) EXCEPT !.json = FALSE], [Body(<<User>>) EXCEPT !.tooLarge = TRUE]}

Entries == {e \in [MCTexts -> {"", "s1"}] : e[<<"u">>] # "" => e[<<"t">>] # ""}

Delta(text) == [type |-> "thinking_delta", text |-> text, raw |-> ""]
Signature(raw) == [type |-> "signature_delta", text |-> "", raw |-> raw]
Ping == [type |-> "ping", text |-> "", raw |-> ""]
Streams == {<<Ping, Delta("t"), Signature("s2")>>,
            <<Delta("u"), Signature(""), Signature("s1")>>,
            <<Signature("s2"), Delta("t"), Signature("bad")>>,
            <<[type |-> "response", blocks |-> <<[text |-> <<"t">>, raw |-> "s1"],
                                                 [text |-> <<"u">>, raw |-> "bad"]>>]>>}

\* Messages of three to five units; one claims to be shorter, one has headers
\* that claim to be longer than it is.
Header(name, type) == [name |-> name, type |-> type, whole |-> TRUE]
Framed(rest, headers) ==
    [claims |-> "right", rest |-> rest, intact |-> TRUE, headers |-> headers]
EventType == Header(":event-type", "string")
Event == Framed(2, <<EventType>>)
Exception == Framed(1, <<Header(":exception-type", "string"), EventType>>)
Silent == Framed(1, <<Header(":event-type", "bytes")>>)
Damaged == [Event EXCEPT !.intact = FALSE]
Misheaded == Framed(3, <<EventType, [Header("other", "fixed") EXCEPT !.whole = FALSE]>>)
Short == [Framed(1, <<EventType>>) EXCEPT !.claims = "short"]
Overrun == [Event EXCEPT !.claims = "overrun"]
Wire == {Event, Exception, Silent, Damaged, Misheaded, Short, Overrun}

Upstream(media, ofBedrock, ms, cut, ending) ==
    [media |-> media, ofBedrock |-> ofBedrock, msgs |-> ms, cut |-> cut, ending |-> ending]

NoAnswer == Upstream("json", FALSE, <<>>, 0, "eof")

Framings == {<<m>> : m \in Wire} \cup (Wire \X Wire) \cup ({Event} \X Wire \X {Event})

EventStreams ==
    UNION {{Upstream("eventstream", TRUE, ms, cut, ending) :
                cut \in 0..Offsets(ms)[Len(ms)], ending \in {"eof", "error"}} : ms \in Framings}
      \cup {Upstream("eventstream with parameters", TRUE, <<Event>>, 4, "eof"),
            Upstream("sse", FALSE, <<Event>>, 4, "eof"),
            Upstream("json", TRUE, <<>>, 0, "eof")}

Request(b, e, up, a) == [body |-> b, entries |-> e, upcoming |-> up, answer |-> a]

NoEntries == [t \in MCTexts |-> ""]

MCScenarios ==
    {Request(b, e, <<>>, NoAnswer) : b \in Bodies, e \in Entries}
      \cup {Request(Body(<<User, a, u>>), NoEntries, up, NoAnswer) :
                a \in Answers, u \in Users, up \in Streams}
      \cup {Request(Body(<<User>>), NoEntries, <<>>, a) : a \in EventStreams}
============================================================================
