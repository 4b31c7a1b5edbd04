---------------------------- MODULE EventStream ----------------------------
(***************************************************************************)
(* The answer of Amazon Bedrock on its way to the client: messages in the  *)
(* AWS Event Stream framing become server-sent events                      *)
(* (internal/proxy/provider_proxy.go, internal/providers/eventstream.go).  *)
(*                                                                         *)
(* There are two converters over one parser.  The relay wraps the body of  *)
(* the answer: the wrapper is read by the reverse proxy, collects chunks   *)
(* of any length in a buffer and converts the messages that are complete   *)
(* ("wrapped").  Provider.TransformResponse reads one message after the    *)
(* other and writes to the client itself ("direct"); the relay does not    *)
(* call it.                                                                *)
(*                                                                         *)
(* The wire is counted in units: a message is a prelude of PreludeLen      *)
(* units (lengths and their checksum) and `rest` units of headers, payload *)
(* and checksum.  An event is the pair of what it becomes and the position *)
(* of its message; names, payloads and checksums are left out.             *)
(***************************************************************************)
EXTENDS Integers, Sequences, SequencesExt

CONSTANTS
    MaxChunk        \* the units one Read of the upstream's body returns at most

ASSUME EventStreamAssumption == MaxChunk \in Nat \ {0}

VARIABLES
    answer,     \* the upstream's answer: media, ofBedrock, msgs, cut, ending
    mode,       \* who converts it: "waiting", "unchanged", "wrapped", "direct"
    got,        \* esBuffer: the units read so far
    parsed,     \* the messages taken out of them
    sse,        \* sseBuffer: events converted and not yet read
    client,     \* events that reached the client
    done,       \* done: the upstream's body has ended
    result      \* what the reader of the body, or the caller, was told

streamVars == <<answer, mode, got, parsed, sse, client, done, result>>

PreludeLen == 2
MinLen == PreludeLen + 1

Open == "open"
Ended == "eof"
Failed == "error"
NoProgress == "ErrStreamClosed"
Panicked == "panic"

Size(m) == PreludeLen + m.rest

\* The units before the message at position i + 1.
Offsets(ms) ==
    LET offset[i \in 0..Len(ms)] == IF i = 0 THEN 0 ELSE offset[i - 1] + Size(ms[i])
    IN  offset

Offset(i) == Offsets(answer.msgs)[i]

\* What an upstream may send: messages with at least a checksum behind their
\* prelude, the first units of them or all, and one of the two endings.  A
\* prelude may claim too short a message, or headers that overrun it.
AnswerOK(a) ==
    /\ a.msgs \in Seq([claims : {"right", "short", "overrun"}, rest : Nat \ {0}, intact : BOOLEAN,
                       headers : Seq([name : STRING, type : STRING, whole : BOOLEAN])])
    /\ a.cut \in 0..Offsets(a.msgs)[Len(a.msgs)]
    /\ a.ending \in {Ended, Failed}

(***************************************************************************)
(* One message, given the units that are there from its beginning.         *)
(***************************************************************************)

StringType == "string"
SkippedTypes == {"bool", "fixed", "bytes"}

\* One bad header spoils the message; only a string has a value.
HeadersParse(hs) ==
    \A i \in DOMAIN hs : hs[i].whole /\ hs[i].type \in SkippedTypes \cup {StringType}

Valued(hs) == {hs[i].name : i \in {j \in DOMAIN hs : hs[j].type = StringType}}

PreludeParses(m, have) == m.claims # "short" /\ Size(m) <= have

ParseMessage(m, have) ==
    /\ have >= MinLen
    /\ PreludeParses(m, have)
    /\ m.intact
    /\ HeadersParse(m.headers) /\ m.claims # "overrun"

\* Headers that overrun their message are read from whatever follows it: an
\* error, or a payload whose length wraps around and whose bounds panic.
MayPanic(m, have) ==
    have >= MinLen /\ PreludeParses(m, have) /\ m.intact /\ m.claims = "overrun"

\* An exception is an event of the type error; without a type nothing is sent.
FormatMessage(ms, i) ==
    LET names == Valued(ms[i].headers)
    IN  IF ":exception-type" \in names THEN << <<"error", i>> >>
        ELSE IF ":event-type" \in names THEN << <<"event", i>> >>
        ELSE <<>>

\* The events of the messages at the positions I, in their order.
EventsUpto(ms, I) ==
    LET events[k \in 0..Len(ms)] ==
            IF k = 0 THEN <<>>
            ELSE IF k \in I THEN events[k - 1] \o FormatMessage(ms, k) ELSE events[k - 1]
    IN  events

FormatAll(ms, I) == EventsUpto(ms, I)[Len(ms)]

(***************************************************************************)
(* The wrapper.                                                            *)
(***************************************************************************)

\* Mutant: one message for every chunk.
ParseOne(have) ==
    LET Parses(i) == ParseMessage(answer.msgs[i], have - Offset(i - 1))
    IN  /\ parsed' = IF parsed < Len(answer.msgs) /\ Parses(parsed + 1)
                     THEN parsed + 1 ELSE parsed
        /\ sse' = sse \o FormatAll(answer.msgs, (parsed + 1)..parsed')

\* Every message that is complete is converted; the first that does not
\* parse, unfinished or damaged, keeps everything after it in the buffer.
ParseBuffer(have) ==
    LET Parses(i) == ParseMessage(answer.msgs[i], have - Offset(i - 1))
    IN  \E k \in parsed..Len(answer.msgs) :
          /\ \A i \in (parsed + 1)..k : Parses(i)
          /\ k = Len(answer.msgs) \/ ~Parses(k + 1)
          /\ parsed' = k
          /\ sse' = sse \o FormatAll(answer.msgs, (parsed + 1)..k)

\* What the upstream's body may return: some units, and at their end, or
\* later, the end of the body; or nothing at all.
BodyReads ==
    LET Within == {<<n, Open>> : n \in {k \in 0..MaxChunk : k <= answer.cut - got}}
        AtEnd == IF answer.cut - got > MaxChunk THEN {}
                 ELSE {<<answer.cut - got, answer.ending>>}
    IN  Within \cup AtEnd

ReadAndBuffer ==
    \E r \in BodyReads :
        LET n == r[1] end == r[2]
        IN  IF n = 0 /\ end = Open
            THEN /\ result' = NoProgress
                 /\ UNCHANGED <<got, parsed, sse, done>>
            ELSE /\ got' = got + n
                 /\ ParseBuffer(got + n)
                 /\ \/ /\ done' = (end = Ended)
                       /\ result' = IF end = Failed THEN Failed ELSE Open
                    \/ /\ parsed' < Len(answer.msgs)
                       /\ MayPanic(answer.msgs[parsed' + 1], got' - Offset(parsed'))
                       /\ result' = Panicked
                       /\ UNCHANGED done

\* Read: what is converted first, then the upstream, then the end.  When
\* the upstream fails, what the last chunk was converted to is not returned.
ReadConverted ==
    /\ sse # <<>>
    /\ \E n \in 1..Len(sse) :
         /\ client' = client \o SubSeq(sse, 1, n)
         /\ sse' = SubSeq(sse, n + 1, Len(sse))
    /\ UNCHANGED <<got, parsed, done, result>>

ReadUpstream ==
    /\ sse = <<>> /\ ~done
    /\ ReadAndBuffer
    /\ UNCHANGED client

ReadEnd ==
    /\ sse = <<>> /\ done
    /\ result' = Ended
    /\ UNCHANGED <<got, parsed, sse, client, done>>

Read ==
    /\ mode = "wrapped" /\ result = Open
    /\ \/ ReadConverted
       \/ ReadUpstream
       \/ ReadEnd
    /\ UNCHANGED <<answer, mode>>

(***************************************************************************)
(* The direct converter: one message after the other.                      *)
(***************************************************************************)

Skipped(m) == ~ParseMessage(m, Size(m))

Remaining == answer.cut - Offset(parsed)

\* The body ended between two messages, or right behind a prelude: the
\* error about a missing rest wraps the end of the file.
CleanEnd ==
    /\ answer.ending = Ended
    /\ \/ Remaining = 0
       \/ Remaining = PreludeLen /\ answer.msgs[parsed + 1].claims # "short"

Complete ==
    /\ parsed < Len(answer.msgs)
    /\ Remaining >= Size(answer.msgs[parsed + 1])
    /\ answer.msgs[parsed + 1].claims # "short"

ReadNextMessage ==
    \/ /\ ~Complete
       /\ result' = IF CleanEnd THEN Ended ELSE Failed
       /\ UNCHANGED <<parsed, client>>
    \/ /\ Complete
       /\ parsed' = parsed + 1
       /\ IF Skipped(answer.msgs[parsed + 1])
          THEN /\ UNCHANGED client
               /\ \/ UNCHANGED result
                  \/ /\ MayPanic(answer.msgs[parsed + 1], Size(answer.msgs[parsed + 1]))
                     /\ result' = Panicked
          ELSE \/ /\ client' = client \o FormatMessage(answer.msgs, parsed + 1)
                  /\ UNCHANGED result
               \/ /\ FormatMessage(answer.msgs, parsed + 1) # <<>>     \* the client is gone
                  /\ result' = Failed
                  /\ UNCHANGED client

ProcessEventStream ==
    /\ mode = "direct" /\ result = Open
    /\ ReadNextMessage
    /\ UNCHANGED <<answer, mode, got, sse, done>>

(***************************************************************************)
(* Who converts.  The relay parses the media type and asks the provider    *)
(* what it streams; TransformResponse compares the whole header.           *)
(***************************************************************************)

EventStreamType(a) == a.media \in {"eventstream", "eventstream with parameters"}

ModifyResponse ==
    /\ mode = "waiting"
    /\ mode' = IF answer.ofBedrock /\ EventStreamType(answer) THEN "wrapped" ELSE "unchanged"
    /\ UNCHANGED <<answer, got, parsed, sse, client, done, result>>

TransformResponse ==
    /\ mode = "waiting" /\ answer.ofBedrock
    /\ mode' = IF answer.media = "eventstream" THEN "direct" ELSE "unchanged"
    /\ UNCHANGED <<answer, got, parsed, sse, client, done, result>>

StreamInit(a) ==
    /\ answer = a
    /\ mode = "waiting"
    /\ got = 0 /\ parsed = 0
    /\ sse = <<>> /\ client = <<>>
    /\ done = FALSE
    /\ result = Open

StreamNext == ModifyResponse \/ TransformResponse \/ Read \/ ProcessEventStream

----------------------------------------------------------------------------
(* Both converters deliver a prefix of what they promise, and all of it    *)
(* when they report a clean end: the wrapper (eventStreamToSSEBody.Read,   *)
(* provider_proxy.go:276) every event before the first message that does   *)
(* not parse, however the body was cut into chunks; the direct one         *)
(* (processEventStream, eventstream.go:325) every event of the messages    *)
(* that arrived whole, the damaged ones left out.                          *)
Arrived(a) == {i \in 1..Len(a.msgs) : Offsets(a.msgs)[i] <= a.cut}

Undamaged(a) == {i \in Arrived(a) : ~Skipped(a.msgs[i])}

UntilDamage(a) == {i \in Arrived(a) : \A j \in 1..i : ~Skipped(a.msgs[j])}

Promised ==
    FormatAll(answer.msgs, IF mode = "wrapped" THEN UntilDamage(answer) ELSE Undamaged(answer))

StreamExact ==
    mode \in {"wrapped", "direct"} =>
        /\ IsPrefix(client \o sse, Promised)
        /\ result = Ended => client = Promised
============================================================================
