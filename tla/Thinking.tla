------------------------------ MODULE Thinking ------------------------------
(***************************************************************************)
(* The thinking blocks of a conversation before it goes upstream           *)
(* (Handler.prepareRequest; internal/proxy/thinking.go,                    *)
(* signature_cache.go, sse.go, thinking_affinity.go).                      *)
(*                                                                         *)
(* Every thinking block must carry a signature that the provider made for  *)
(* it.  The relay takes the client's, with or without the relay's prefix,  *)
(* then the one its cache holds for the text, and drops a block that has   *)
(* none.  It removes signatures from tool calls, moves thinking in front   *)
(* of the other blocks, and keeps a message that would be empty as a       *)
(* placeholder where its neighbours need it.                               *)
(*                                                                         *)
(* A message whose blocks only need other signatures is edited in place;   *)
(* for the others every signature is looked up a second time.  Each pass   *)
(* over a message is one step: entries of the cache appear and expire in   *)
(* between.  The cache is keyed by model group and text; here it is the    *)
(* part of it that belongs to the group of this conversation.  A write to  *)
(* it lands later than the call that made it, or never.                    *)
(*                                                                         *)
(* Answers are processed by ProcessEvent and ProcessNonStreamingResponse,  *)
(* which nothing in the program calls: `upcoming` is an answer that a      *)
(* caller passes through the event processor.  What it writes to the       *)
(* cache is kept, the text it hands back to the client is not.             *)
(***************************************************************************)
EXTENDS Naturals, Sequences, SequencesExt

CONSTANTS
    Texts,          \* the texts that thinking blocks have
    Raw,            \* signatures of providers that are long enough
    HasCache,       \* a signature cache is configured
    SeveralProviders

ASSUME ThinkingAssumption ==
    /\ {HasCache, SeveralProviders} \subseteq BOOLEAN
    /\ {"", "bad", "sentinel"} \cap Raw = {}
    /\ Texts \subseteq Seq(STRING)

VARIABLES
    original,   \* the client's body
    body,       \* the body as it is being rewritten
    phase,      \* "arrived", "processing", "rebuilding", "prepared",
                \* or "too large", the 413
    at,         \* the message that is being processed
    drops,      \* dropMessageIndexes
    affinity,   \* hasThinking
    cached,     \* text -> signature, "" for none
    held,       \* history: every entry the cache has had or was to have
    upcoming,   \* events of the answer that are still to come
    accumulated,\* thinkingText
    buffered    \* writes of the cache that have not landed, <<text, raw>>

thinkingVars == <<original, body, phase, at, drops, affinity,
                  cached, held, upcoming, accumulated, buffered>>

(***************************************************************************)
(* Signatures.                                                             *)
(***************************************************************************)

\* A signature field: absent, or a raw signature with or without our prefix.
NoSignature == [there |-> FALSE, prefixed |-> FALSE, raw |-> ""]
Bare(raw) == [there |-> TRUE, prefixed |-> FALSE, raw |-> raw]
FormatSignature(raw) == [there |-> TRUE, prefixed |-> TRUE, raw |-> raw]

\* "bad" is too short; the sentinel is accepted for one group of models.
RawSignatures == Raw \cup {"", "bad", "sentinel"}

IsValidSignature(b, raw) ==
    IF raw = "sentinel" THEN b.group = "gemini" ELSE raw \in Raw

\* Mutant: the cache is asked before the client.
ResolveSignatureFromCache(b, block) ==
    IF HasCache /\ cached[block.text] # "" THEN cached[block.text]
    ELSE IF block.sig.prefixed \/ IsValidSignature(b, block.sig.raw) THEN block.sig.raw
    ELSE ""

\* A prefix is believed: what follows it is neither checked nor replaced.
ResolveSignature(b, block) ==
    IF block.sig.prefixed THEN block.sig.raw
    ELSE IF IsValidSignature(b, block.sig.raw) THEN block.sig.raw
    ELSE IF HasCache THEN cached[block.text]
    ELSE ""

(***************************************************************************)
(* Bodies: the messages in order, the top-level thinking field, the model  *)
(* with its group, and which of the patterns the fast paths search for are *)
(* among the client's bytes.  A message's content is a plain string, a     *)
(* list of blocks, or null.                                                *)
(***************************************************************************)

IsThinking(block) == block.type = "thinking"
Other(block) == ~IsThinking(block)

Blocks(b) == UNION {ToSet(b.messages[i].blocks) : i \in DOMAIN b.messages}

\* "other" stands for the blocks that every pass leaves as they are.
BlockTypes == {"thinking", "text", "tool_use", "tool_result", "other"}
Signatures == [there : BOOLEAN, prefixed : BOOLEAN, raw : RawSignatures]
ContentBlocks == [type : BlockTypes, text : Seq(STRING), sig : Signatures]
ChatMessages == [role : {"user", "assistant"}, form : {"blocks", "plain", "null"},
                 blocks : Seq(ContentBlocks), reasoning : BOOLEAN]

\* What a client may send: the API's two roles, of which the assistant
\* reasons, and any blocks in any order.
BodyOK(b) ==
    /\ b \in [messages : Seq(ChatMessages), thinking : BOOLEAN, model : STRING,
              group : STRING, json : BOOLEAN, tooLarge : BOOLEAN,
              markers : SUBSET {"thinking", "reasoning"}]
    /\ \A i \in DOMAIN b.messages :
         b.messages[i].reasoning =>
             b.messages[i].role = "assistant" /\ "reasoning" \in b.markers
    /\ \A block \in Blocks(b) :
         /\ IsThinking(block) => block.text \in Texts
         /\ block.sig.raw # "" => block.sig.there

\* "signature", and "type" with "thinking" after a colon and at most one
\* space: a block that is spelled otherwise is missed, and a tool's input
\* may be spelled so.  It is asked of the client's bytes only.
HasThinkingBlocks(b) == "thinking" \in b.markers

Assistant(m) == m.role = "assistant" /\ m.form = "blocks"

HasToolResult(m) ==
    m.role = "user" /\ \E k \in DOMAIN m.blocks : m.blocks[k].type = "tool_result"

WouldOrphanToolResults(ms, i) ==
    /\ i < Len(ms)
    /\ \/ i > 1 /\ ms[i - 1].role = "user" /\ ms[i + 1].role = "user"
       \/ HasToolResult(ms[i + 1])

Placeholder == << [type |-> "text", text |-> <<>>, sig |-> NoSignature] >>

WithBlocks(m, blocks) == [m EXCEPT !.form = "blocks", !.blocks = blocks]

\* The elements of s at the positions I, in their order.
Chosen(s, I) ==
    LET upto[n \in 0..Len(s)] ==
            IF n = 0 THEN <<>>
            ELSE IF n \in I THEN Append(upto[n - 1], s[n]) ELSE upto[n - 1]
    IN  upto[Len(s)]

Thinkings(blocks) == Chosen(blocks, {k \in DOMAIN blocks : IsThinking(blocks[k])})
Others(blocks) == Chosen(blocks, {k \in DOMAIN blocks : Other(blocks[k])})

ThinkingFirst(blocks) == Thinkings(blocks) \o Others(blocks)

NeedsReorder(blocks) ==
    \E i, j \in DOMAIN blocks : i < j /\ Other(blocks[i]) /\ IsThinking(blocks[j])

\* Mutant: the positions are removed from the first to the last.
DropMessagesAscending(ms, positions) ==
    LET left[i \in 0..Len(ms)] ==
            IF i = 0 THEN ms
            ELSE IF i \in positions /\ i <= Len(left[i - 1]) THEN RemoveAt(left[i - 1], i)
            ELSE left[i - 1]
    IN  left[Len(ms)]

\* The positions are removed from the last to the first.
DropMessages(ms, positions) ==
    LET left[n \in 0..Len(ms)] ==
            IF n = 0 THEN ms
            ELSE IF Len(ms) - n + 1 \in positions
            THEN RemoveAt(left[n - 1], Len(ms) - n + 1) ELSE left[n - 1]
    IN  left[Len(ms)]

(***************************************************************************)
(* Requests.                                                               *)
(***************************************************************************)

\* A body with a plain string anywhere does not fit the struct it is read
\* into: nothing is detected then.
HasThinkingSignature(b) ==
    /\ \A i \in DOMAIN b.messages : b.messages[i].form # "plain"
    /\ \E i \in DOMAIN b.messages :
         /\ b.messages[i].role = "assistant"
         /\ \E k \in DOMAIN b.messages[i].blocks :
              LET block == b.messages[i].blocks[k]
              IN  IsThinking(block) /\ block.sig.raw # ""

DetectThinkingAffinity(b) == SeveralProviders /\ HasThinkingSignature(b)

PrepareRequest ==
    /\ phase = "arrived"
    /\ IF body.tooLarge THEN phase' = "too large" /\ UNCHANGED affinity
       ELSE IF HasCache /\ HasThinkingBlocks(body)
       THEN phase' = "processing" /\ UNCHANGED affinity
       ELSE phase' = "prepared" /\ affinity' = DetectThinkingAffinity(body)
    /\ UNCHANGED <<original, body, at, drops, cached, held, upcoming, accumulated, buffered>>

\* In place: thinking gets its signature, a tool call loses its own.
SurgicalUpdate(b, blocks) ==
    [k \in DOMAIN blocks |->
        IF IsThinking(blocks[k])
        THEN [blocks[k] EXCEPT !.sig = Bare(ResolveSignature(b, blocks[k]))]
        ELSE IF blocks[k].type = "tool_use"
        THEN [blocks[k] EXCEPT !.sig = NoSignature]
        ELSE blocks[k]]

Signed(block) == Other(block) \/ block.sig.raw # ""

Kept(blocks) == Chosen(blocks, {k \in DOMAIN blocks : Signed(blocks[k])})

\* The slow path; a list nothing was collected into is written as null.
RebuildContent(m, blocks) ==
    LET kept == Kept(blocks)
    IN  IF NeedsReorder(m.blocks) THEN WithBlocks(m, ThinkingFirst(kept))
        ELSE IF kept = <<>> THEN [m EXCEPT !.form = "null", !.blocks = <<>>]
        ELSE WithBlocks(m, kept)

\* Thinking that nothing signs is dropped where no message is needed.
ProcessAssistantContent ==
    /\ phase = "processing" /\ at <= Len(body.messages)
    /\ LET m == body.messages[at]
           updated == SurgicalUpdate(body, m.blocks)
           kept == Kept(updated)
       IN  \/ /\ ~Assistant(m)
              /\ at' = at + 1
              /\ UNCHANGED <<body, phase, drops>>
           \/ /\ Assistant(m) /\ kept = <<>>
              /\ at' = at + 1
              /\ IF WouldOrphanToolResults(body.messages, at)
                 THEN /\ body' = [body EXCEPT !.messages[at] = WithBlocks(m, Placeholder)]
                      /\ UNCHANGED drops
                 ELSE drops' = drops \cup {at} /\ UNCHANGED body
              /\ UNCHANGED phase
           \/ /\ Assistant(m) /\ kept = updated /\ kept # <<>> /\ ~NeedsReorder(m.blocks)
              /\ at' = at + 1
              /\ body' = [body EXCEPT !.messages[at] = WithBlocks(m, updated)]
              /\ UNCHANGED <<phase, drops>>
           \/ /\ Assistant(m) /\ kept # <<>>
              /\ kept # updated \/ NeedsReorder(m.blocks)
              /\ phase' = "rebuilding"
              /\ UNCHANGED <<body, at, drops>>
    /\ UNCHANGED <<original, affinity, cached, held, upcoming, accumulated, buffered>>

Rebuild ==
    /\ phase = "rebuilding"
    /\ LET m == body.messages[at]
       IN  body' = [body EXCEPT !.messages[at] =
                       RebuildContent(m, SurgicalUpdate(body, m.blocks))]
    /\ at' = at + 1
    /\ phase' = "processing"
    /\ UNCHANGED <<original, drops, affinity, cached, held, upcoming, accumulated, buffered>>

\* Affinity is asked of the body that was processed.
FinishRequest ==
    /\ phase = "processing" /\ at > Len(body.messages)
    /\ body' = [body EXCEPT !.messages = DropMessages(body.messages, drops)]
    /\ phase' = "prepared"
    /\ affinity' = DetectThinkingAffinity(body')
    /\ UNCHANGED <<original, at, drops, cached, held, upcoming, accumulated, buffered>>

(***************************************************************************)
(* Another provider gets the client's body without any thinking, unless    *)
(* nothing that is searched for is found in it.                            *)
(***************************************************************************)

StripMessage(ms, i) ==
    LET m == [ms[i] EXCEPT !.reasoning = FALSE]
        others == Others(m.blocks)
    IN  IF ~Assistant(m) \/ others = m.blocks THEN m
        ELSE IF others # <<>> THEN WithBlocks(m, others)
        ELSE IF WouldOrphanToolResults(ms, i) THEN WithBlocks(m, Placeholder)
        ELSE m

\* Messages of thinking only that no neighbour needs.
StripDrops(ms) ==
    {i \in DOMAIN ms :
        /\ Assistant(ms[i]) /\ ms[i].blocks # <<>>
        /\ Others(ms[i].blocks) = <<>>
        /\ ~WouldOrphanToolResults(ms, i)}

StripMessages(ms) ==
    DropMessages([i \in DOMAIN ms |->
                     IF ms[i].role = "assistant" THEN StripMessage(ms, i) ELSE ms[i]],
                 StripDrops(ms))

StripThinkingForProviderSwitch(b) ==
    IF ~HasThinkingBlocks(b) /\ "reasoning" \notin b.markers THEN b
    ELSE [b EXCEPT !.thinking = FALSE, !.messages = StripMessages(b.messages)]

(***************************************************************************)
(* Answers: thinking is accumulated until its signature comes, which is to *)
(* be cached for the text.                                                 *)
(***************************************************************************)

Cacheable(b, text, raw) == HasCache /\ text # <<>> /\ IsValidSignature(b, raw)

CacheSet(written) ==
    /\ buffered' = buffered \cup written
    /\ held' = held \cup written

ProcessEvent ==
    /\ upcoming # <<>> /\ Head(upcoming).type # "response"
    /\ upcoming' = Tail(upcoming)
    /\ LET e == Head(upcoming)
       IN  \/ /\ e.type = "thinking_delta"
              /\ accumulated' = Append(accumulated, e.text)
              /\ UNCHANGED <<held, buffered>>
           \/ /\ e.type = "signature_delta" /\ e.raw # ""
              /\ CacheSet(IF Cacheable(original, accumulated, e.raw)
                          THEN {<<accumulated, e.raw>>} ELSE {})
              /\ accumulated' = <<>>
           \/ /\ e.type # "thinking_delta"
              /\ e.type = "signature_delta" => e.raw = ""
              /\ UNCHANGED <<held, accumulated, buffered>>
    /\ UNCHANGED <<original, body, phase, at, drops, affinity, cached>>

\* An answer that was not streamed: every thinking block that is signed.
ProcessNonStreamingResponse ==
    /\ upcoming # <<>> /\ Head(upcoming).type = "response"
    /\ CacheSet({<<x.text, x.raw>> : x \in
                    {y \in ToSet(Head(upcoming).blocks) : Cacheable(original, y.text, y.raw)}})
    /\ upcoming' = Tail(upcoming)
    /\ UNCHANGED <<original, body, phase, at, drops, affinity, cached, accumulated>>

\* An entry of the cache expires or is evicted; nothing reads it later.
Expire ==
    \E t \in DOMAIN cached :
        /\ phase # "prepared" /\ cached[t] # ""
        /\ cached' = [cached EXCEPT ![t] = ""]
        /\ UNCHANGED <<original, body, phase, at, drops, affinity,
                       held, upcoming, accumulated, buffered>>

\* A write lands in the cache, or is dropped.
Land ==
    \E w \in buffered :
        /\ phase # "prepared"
        /\ buffered' = buffered \ {w}
        /\ \/ cached' = [t \in DOMAIN cached |-> IF t = w[1] THEN w[2] ELSE cached[t]]
           \/ UNCHANGED cached
        /\ UNCHANGED <<original, body, phase, at, drops, affinity,
                       held, upcoming, accumulated>>

StreamedEvents == [type : STRING \ {"response"}, text : STRING, raw : RawSignatures]
Responses == [type : {"response"}, blocks : Seq([text : Seq(STRING), raw : RawSignatures])]

ThinkingInit(b, entries, stream) ==
    /\ original = b
    /\ body = original
    /\ phase = "arrived" /\ at = 1 /\ drops = {} /\ affinity = FALSE
    /\ cached = entries
    /\ held = {<<t, cached[t]>> : t \in {u \in Texts : cached[u] # ""}}
    /\ upcoming = stream
    /\ accumulated = <<>> /\ buffered = {}

ThinkingNext ==
    \/ PrepareRequest \/ ProcessAssistantContent \/ Rebuild \/ FinishRequest
    \/ ProcessEvent \/ ProcessNonStreamingResponse \/ Expire \/ Land

----------------------------------------------------------------------------
Alternating(ms) == \A i \in 1..(Len(ms) - 1) : ms[i].role # ms[i + 1].role

CallsTool(m) == \E k \in DOMAIN m.blocks : m.blocks[k].type = "tool_use"

ResultsAnswerCalls(ms) ==
    \A i \in DOMAIN ms : HasToolResult(ms[i]) => i > 1 /\ CallsTool(ms[i - 1])

\* Everything that was said besides thinking, message after message.
Word(block) ==
    IF Other(block) /\ block # Placeholder[1] THEN << <<block.type, block.text>> >> ELSE <<>>

Says(m) == FlattenSeq([k \in DOMAIN m.blocks |-> Word(m.blocks[k])])

Substance(ms) == FlattenSeq([i \in DOMAIN ms |-> Says(ms[i])])

(* Rewriting loses nothing but thinking, and the conversation stays one    *)
(* that an upstream accepts: results still follow the calls they answer,   *)
(* and no two messages of the user meet (ProcessRequestThinking,           *)
(* thinking.go:61, with WouldOrphanToolResults and dropMessagesByIndex).   *)
ConversationKept ==
    phase = "prepared" =>
        /\ Substance(body.messages) = Substance(original.messages)
        /\ ResultsAnswerCalls(original.messages) => ResultsAnswerCalls(body.messages)
        /\ Alternating(original.messages) => Alternating(body.messages)

Thoughts(b) ==
    UNION {{m.blocks[k] : k \in {j \in DOMAIN m.blocks : IsThinking(m.blocks[j])}} :
              m \in {n \in ToSet(b.messages) : Assistant(n)}}

\* The signatures that the client's own blocks bring.
ClientSigned ==
    {<<t.text, t.sig.raw>> : t \in {u \in Thoughts(original) :
        u.sig.raw # "" /\ (u.sig.prefixed \/ IsValidSignature(original, u.sig.raw))}}

(* Where thinking is found in the client's bytes, what is sent upstream    *)
(* can be validated there: thinking comes first and signed, without the    *)
(* relay's prefix, by the client's own signature where it is valid and     *)
(* otherwise by one that was cached for that very text; what the client    *)
(* signed is never lost, and no tool call is signed                        *)
(* (resolveThinkingSignature, thinking.go:300; rebuildContent).            *)
ThinkingPresentable ==
    phase = "prepared" /\ HasCache /\ HasThinkingBlocks(original) =>
        /\ \A i \in DOMAIN body.messages :
             Assistant(body.messages[i]) =>
                 /\ ~NeedsReorder(body.messages[i].blocks)
                 /\ \A k \in DOMAIN body.messages[i].blocks :
                      body.messages[i].blocks[k].type = "tool_use" =>
                          ~body.messages[i].blocks[k].sig.there
        /\ LET sentSigned == {<<t.text, t.sig.raw>> : t \in Thoughts(body)}
           IN  /\ \A t \in Thoughts(body) : t.sig = Bare(t.sig.raw) /\ t.sig.raw # ""
               /\ sentSigned \subseteq ClientSigned \cup held
               /\ ClientSigned \subseteq sentSigned

(* A conversation with signed thinking is recognised as one, so that it    *)
(* stays with its provider (HasThinkingSignature, thinking_affinity.go:14: *)
(* "checks if the request body contains thinking signatures in assistant   *)
(* messages").                                                             *)
AffinityDetected ==
    phase = "prepared" /\ SeveralProviders =>
        ((\E t \in Thoughts(body) : t.sig.raw # "") => affinity)
============================================================================
