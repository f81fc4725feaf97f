--------------------------- MODULE RequestLifecycle ---------------------------
(***************************************************************************)
(* One request of a client through anthropic/handlers.rs (post_messages,   *)
(* post_messages_cc and the four ways they answer) and websearch.rs:       *)
(*   "stream"    handle_stream_request, events forwarded as they come      *)
(*   "buffered"  handle_stream_request_buffered, events kept to the end    *)
(*   "whole"     handle_non_stream_request, one JSON answer                *)
(*   "search"    handle_websearch_request, an MCP call and a fixed stream  *)
(* It calls the upstream through ProviderRetry, decodes the body with      *)
(* EventDecoder and keeps its entry in the CallLog up to date.  What the   *)
(* events mean is SseStream's matter: here an event is the number of the   *)
(* frame it came in.  The client may leave at any time.                    *)
(***************************************************************************)
EXTENDS ProviderRetry, EventDecoder, CallLog, Selections

CONSTANTS
  Routes,     \* the routes a client may take
  Bodies,     \* upstream bodies: the damage of each frame
  ChunkSizes, \* cells in one chunk
  MaxPings,   \* pings sent to the client
  MaxOthers   \* entries the log takes in for other requests

ASSUME RequestAssumption == Bodies \subseteq Seq(STRING) /\ ChunkSizes \subseteq Nat

VARIABLES
  route, phase,  \* which way, and how far
  reply,         \* status of the response, 0 before there is one
  frames,        \* damage of each frame of the upstream body
  wire,          \* its cells that have not been read
  decoder,       \* EventStreamDecoder
  refused,       \* the decoder refused a chunk
  first,         \* first_token_recorded
  kept,          \* event_buffer of the buffered route
  out,           \* what the client was sent
  log,           \* the call log
  mine,          \* log_id, 0 before the entry exists
  ended          \* how the body ended: "no", "done", "error"

bodyVars    == <<frames, wire, decoder, refused, first, kept, ended>>
handlerVars == <<route, phase, reply, out, mine>>
vars        == <<retryVars, bodyVars, handlerVars, log>>

\* What is sent besides the events of the frames, told apart from their numbers.
START == -1
PING  == -2
FINAL == -3

Entry(success, cred) ==
  [id |-> 0, success |-> success, cred |-> cred, first |-> FALSE,
   total |-> FALSE, input |-> FALSE, reported |-> FALSE]

Init ==
  /\ RetryInit
  /\ route = "none" /\ phase = "new" /\ reply = 0
  /\ frames = <<>> /\ wire = <<>> /\ decoder = NewDecoder
  /\ refused = FALSE /\ first = FALSE /\ kept = <<>> /\ ended = "no"
  /\ out = <<>> /\ mine = 0
  /\ log = NewLog(MAX_CAPACITY)

-----------------------------------------------------------------------------
\* record
LogEntry(success, cred) ==
  /\ log' = Recorded(log, Entry(success, cred))
  /\ mine' = log.next

\* The handler gets past the conversion, or takes the web search route.
Accept(r, m) ==
  /\ phase = "new" /\ route' = r /\ phase' = "calling"
  /\ Call(IF r = "search" THEN "mcp" ELSE "api", m)
  /\ UNCHANGED <<bodyVars, reply, out, mine, log>>

\* No provider, no convertible message: an error that leaves no entry.
Reject ==
  /\ phase = "new" /\ phase' = "closed"
  /\ reply' \in {400, 500, 503}
  /\ UNCHANGED <<retryVars, bodyVars, route, out, mine, log>>

\* A web search without a query: an error with an entry.
NoQuery ==
  /\ phase = "new" /\ "search" \in Routes
  /\ route' = "search" /\ phase' = "closed" /\ reply' = 400
  /\ LogEntry(FALSE, NoCred)
  /\ UNCHANGED <<retryVars, bodyVars, out>>

\* The provider returns: its locals are gone, the guard is the caller's.
CallReturned ==
  /\ step' = "idle" /\ attempt' = 0 /\ hop' = 0 /\ body' = "original"
  /\ forced' = {} /\ verdict' = "none" /\ kind' = "api" /\ asked' = "none"
  /\ UNCHANGED sharedVars

\* map_provider_error after the entry of a failed request.
Fail ==
  /\ phase = "calling" /\ step = "failed" /\ route # "search"
  /\ CallReturned /\ UNCHANGED slot
  /\ LogEntry(FALSE, NoCred)
  /\ phase' = "closed" /\ reply' \in {400, 429, 502}
  /\ UNCHANGED <<bodyVars, route, out>>

\* The response is at hand: entry, guard into the context, first events.
Connect(damages) ==
  /\ phase = "calling" /\ step = "ok" /\ route # "search"
  /\ CallReturned /\ UNCHANGED slot
  /\ LET entry == Recorded(log, Entry(TRUE, slot))
     IN  log' = IF route = "whole" THEN Updated(entry, log.next, {"first"})
                ELSE entry
  /\ mine' = log.next
  /\ frames' = damages
  /\ wire' = FlattenSeq([n \in DOMAIN damages |-> FrameCells(n, damages[n])])
  /\ phase' = "reading"
  /\ reply' = IF route = "whole" THEN 0 ELSE 200
  /\ out' = IF route = "stream" THEN <<START>> ELSE <<>>
  /\ UNCHANGED <<decoder, refused, first, kept, ended, route>>

\* call_mcp hands out the head of its answer; its slot is free again, and the
\* body is still to be read.
McpAnswered ==
  /\ phase = "calling" /\ step = "ok" /\ route = "search"
  /\ CallReturned /\ UNCHANGED slot
  /\ phase' = "searching"
  /\ UNCHANGED <<bodyVars, route, reply, out, mine, log>>

\* The results are made into a complete stream, and the entry follows.
SearchResults ==
  /\ LogEntry(TRUE, NoCred)
  /\ phase' = "closed" /\ reply' = 200 /\ out' = <<START, FINAL>>
  /\ UNCHANGED <<bodyVars, route>>

\* The body of the MCP answer has been read and parsed, or could not be.
AnswerSearch ==
  /\ phase = "searching" /\ SearchResults
  /\ UNCHANGED retryVars

\* No attempt of call_mcp succeeded: the client gets the same, without results.
SearchFails ==
  /\ phase = "calling" /\ step = "failed" /\ route = "search"
  /\ CallReturned /\ UNCHANGED slot
  /\ SearchResults

-----------------------------------------------------------------------------
Streaming == phase = "reading" /\ route \in {"stream", "buffered"}

\* Some(Ok(chunk)): feed, decode, forward or keep the events; the first one
\* is noted in the log.
ReadChunk(size) ==
  /\ Streaming /\ ended = "no" /\ wire # <<>>
  /\ LET chunk == SubSeq(wire, 1, Min({size, Len(wire)}))
         after == Absorb(decoder, chunk)
     IN  /\ wire' = SubSeq(wire, size + 1, Len(wire))
         /\ decoder' = [after EXCEPT !.out = <<>>]
         /\ refused' = (refused \/ Overflows(decoder, chunk))
         /\ first' = (first \/ after.out # <<>>)
         /\ log' = IF ~first /\ first' THEN Updated(log, mine, {"first"}) ELSE log
         /\ IF route = "stream" THEN out' = out \o after.out /\ kept' = kept
                                ELSE kept' = kept \o after.out /\ out' = out
  /\ UNCHANGED <<retryVars, frames, ended, route, phase, reply, mine>>

\* What the upstream says of its tokens comes in the last frame of its body.
UsageSeen == \E i \in DOMAIN (out \o kept) : (out \o kept)[i] = Len(frames)

\* What the handler writes into its entry at the end.
EndOf(usage) == {"total", "reported"} \cup {f \in {"input"} : usage}

\* A mutant: the initial events come with the final ones in any route.
HeldAlways == <<START>> \o kept

\* What was kept back until the whole is ready.
Held == IF route = "buffered" THEN <<START>> \o kept ELSE <<>>

\* Some(Err(e)) or None: the entry is completed before and after the final
\* events are made; what is left in the decoder is not looked at.
Finish(how) ==
  /\ Streaming /\ ended = "no"
  /\ how = "done" => wire = <<>>
  /\ ended' = how /\ phase' = "ending"
  /\ log' = Updated(log, mine, EndOf(UsageSeen))
  /\ out' = out \o Held \o <<FINAL>>
  /\ kept' = <<>>
  /\ UNCHANGED <<retryVars, frames, wire, decoder, refused, first, route, reply, mine>>

UpstreamDone  == Finish("done")
UpstreamError == Finish("error")

\* The ping timer wins the select.
Ping ==
  /\ Streaming /\ Len(Within(out, {PING})) < MaxPings
  /\ out' = Append(out, PING)
  /\ UNCHANGED <<retryVars, bodyVars, route, phase, reply, mine, log>>

\* The client has taken the final events and polls once more: the stream
\* ends, and with it the context and its guard.
Drain ==
  /\ phase = "ending" /\ phase' = "closed" /\ slot' = NoCred
  /\ UNCHANGED <<step, kind, asked, attempt, hop, body, forced, verdict, sharedVars,
                 bodyVars, route, reply, out, mine, log>>

\* The whole body at once: one feed, one pass of the decoder.
ReadWhole ==
  /\ phase = "reading" /\ route = "whole"
  /\ LET after == Absorb(decoder, wire)
     IN  /\ out' = after.out
         /\ refused' = Overflows(decoder, wire)
         /\ decoder' = [after EXCEPT !.out = <<>>]
         /\ log' = Updated(log, mine,
                     EndOf(\E i \in DOMAIN after.out : after.out[i] = Len(frames)))
  /\ wire' = <<>> /\ ended' = "done"
  /\ phase' = "closed" /\ reply' = 200 /\ slot' = NoCred
  /\ UNCHANGED <<step, kind, asked, attempt, hop, body, forced, verdict, sharedVars,
                 frames, first, kept, route, mine>>

\* The body cannot be read: an early return.
ReadFails ==
  /\ phase = "reading" /\ route = "whole"
  /\ ended' = "error" /\ phase' = "closed" /\ reply' = 502 /\ slot' = NoCred
  /\ UNCHANGED <<step, kind, asked, attempt, hop, body, forced, verdict, sharedVars,
                 frames, wire, decoder, refused, first, kept, route, out, mine, log>>

\* The client goes away: the future or the stream is dropped at an await,
\* its guard with it, and nothing more is written down.
Disconnect ==
  /\ phase \in {"calling", "searching", "reading", "ending"}
  /\ step \notin {"ok", "failed"}
  /\ phase' = "closed" /\ slot' = NoCred
  /\ CallReturned
  /\ UNCHANGED <<bodyVars, route, reply, out, mine, log>>

-----------------------------------------------------------------------------
\* Other requests and the admin API use the log too, while this request still
\* has something to write into its entry.
OtherEntry ==
  /\ phase = "reading" /\ log.next <= mine + MaxOthers
  /\ log' = Recorded(log, Entry(TRUE, NoCred))
  /\ UNCHANGED <<retryVars, bodyVars, handlerVars>>

AdminLog ==
  /\ phase = "reading"
  /\ log' \in {Cleared(log)} \cup {Resized(log, n) : n \in {0, MAX_CAPACITY + 1}}
  /\ UNCHANGED <<retryVars, bodyVars, handlerVars>>

CallStep ==
  /\ phase = "calling" /\ RetryStep
  /\ UNCHANGED <<bodyVars, handlerVars, log>>

OtherCalls ==
  /\ phase = "calling" /\ RetryEnv
  /\ UNCHANGED <<bodyVars, handlerVars, log>>

Respond ==
  \/ Reject \/ NoQuery \/ CallStep \/ Fail
  \/ McpAnswered \/ AnswerSearch \/ SearchFails
  \/ \E r \in Routes, m \in {"name", "id", "none"} : Accept(r, m)
  \/ \E damages \in Bodies : Connect(damages)
  \/ \E size \in ChunkSizes : ReadChunk(size)
  \/ UpstreamDone \/ UpstreamError \/ Drain \/ ReadWhole \/ ReadFails

Next == Respond \/ Ping \/ Disconnect \/ OtherEntry \/ AdminLog \/ OtherCalls

Spec == Init /\ [][Next]_vars

\* The handler and the retry loop run on; the HTTP client gives up on an
\* answer or a body after its 720 s; the client reads on or goes away.
\* Nothing says that the upstream sends a chunk or ends its body.
Proceed ==
  \/ Reject \/ CallStep \/ Fail \/ McpAnswered \/ AnswerSearch \/ SearchFails
  \/ \E damages \in Bodies : Connect(damages)
  \/ UpstreamError \/ ReadFails \/ Drain

FairSpec == Spec /\ WF_vars(Proceed)

-----------------------------------------------------------------------------
TypeOK ==
  /\ step \in {"idle", "acquire", "prepare", "profile", "model", "send", "judge",
               "refreshing", "backoff", "ok", "failed"}
  /\ kind \in {"api", "mcp"} /\ asked \in {"name", "id", "none"}
  /\ attempt \in 0 .. MaxRetries /\ hop \in 0 .. Proxies - 1
  /\ slot \in Cred \cup {NoCred} /\ forced \subseteq Cred
  /\ body \in {"original", "listed", "default"}
  /\ verdict \in Verdict \cup {"none"}
  /\ failures \in [Cred -> 0 .. MAX_FAILURES_PER_CREDENTIAL] /\ off \subseteq Cred
  /\ lacking \subseteq Enterprise /\ cache \in {"fresh", "stale"}
  /\ route \in Routes \cup {"none"}
  /\ phase \in {"new", "calling", "searching", "reading", "ending", "closed"}
  /\ reply \in {0, 200, 400, 429, 500, 502, 503}
  /\ decoder.state \in {"Ready", "Recovering", "Stopped"}
  /\ decoder.errors \in 0 .. MaxErrors
  /\ Len(decoder.buffer) <= MaxBuffer
  /\ ended \in {"no", "done", "error"}
  /\ Len(log.entries) <= log.capacity /\ mine < log.next

\* A slot is held from the moment the pool grants it through the attempt it
\* was granted for and, for a call of the model, until the answer has been read
\* to the end (or the client is gone): never given back while the upstream is
\* still at work on a message, never kept after.  An MCP call is different:
\* its slot goes with the attempt, before the body of the answer is read
\* (provider.rs:426), so a search holds none while it reads ("searching").
SlotCoversUse ==
  slot # NoCred <=>
    \/ step \in {"prepare", "profile", "model", "send", "judge", "refreshing", "backoff"}
    \/ step = "ok" /\ kind = "api"
    \/ phase \in {"reading", "ending"}

\* A request that names a model is sent for an enterprise credential with an
\* id the upstream understands, and for any other credential as it came:
\* nothing of an earlier attempt, with another credential, is left in it.
BodyFitsCredential ==
  LET rewrites == kind = "api" /\ slot \in Enterprise
  IN  step \in {"send", "judge"} =>
        /\ rewrites /\ asked = "name" => body # "original"
        /\ ~rewrites \/ asked = "id" => body = "original"

\* A call blames a credential only for a verdict of the upstream on that
\* credential (or for an endpoint nobody has); for a token called invalid,
\* only after a refresh was tried.  Network errors and overload never
\* disable anything.
NoFalseBlame ==
  [][\A c \in Cred :
       step' # step /\ (failures'[c] > failures[c] \/ c \in off' \ off) =>
         /\ c = slot
         /\ \/ verdict \in {"quota", "denied"}
            \/ verdict = "bearer" /\ c \in forced
            \/ c \in UnknownEndpoint /\ step = "prepare"]_vars

\* The entry of the request, while the log still has it, says what the
\* handler knows; every other entry is left as its own request wrote it.
LogTells ==
  \A i \in DOMAIN log.entries :
    LET e == log.entries[i]
    IN  /\ i > 1 => log.entries[i - 1].id = e.id - 1
        /\ e.id = mine =>
             /\ e.total = (ended = "done" \/ (ended = "error" /\ route # "whole"))
             /\ e.reported = e.total
             /\ e.input => e.first
             /\ e.first <=> first \/ (route = "whole" /\ e.success)
        /\ e.id # mine => ~(e.first \/ e.total \/ e.input \/ e.reported)

\* Decoded frames come out in the order they were sent, each at most once,
\* and recovering from a damaged frame never costs an intact one: what was
\* read is either decoded or still in the buffer.  (Not once a chunk was
\* refused or the decoder has given up.)
Decoded == Without(out \o kept, {START, PING, FINAL})

ReadUpTo(n) == \A i \in DOMAIN wire : wire[i].frame # n

NoFrameSkipped ==
  LET d == Decoded
  IN  /\ \A i \in DOMAIN d : frames[d[i]] = "none"
      /\ \A i, j \in DOMAIN d : i < j => d[i] < d[j]
      /\ ~refused /\ decoder.state # "Stopped" =>
           \A n \in DOMAIN frames :
             frames[n] = "none" /\ ReadUpTo(n) =>
               \/ \E i \in DOMAIN d : d[i] = n
               \/ \E i \in DOMAIN decoder.buffer :
                    decoder.buffer[i].frame = n /\ decoder.buffer[i].part = 1

\* A client that stays gets one complete stream: a start, then events, one
\* final part, and nothing behind it; in the buffered route nothing but
\* pings before the whole is ready.
StreamShape ==
  LET at(x) == {i \in DOMAIN out : out[i] = x}
  IN  reply = 200 /\ route # "whole" =>
        /\ Cardinality(at(FINAL)) = (IF phase = "ending" \/ route = "search"
                                          \/ ended # "no" THEN 1 ELSE 0)
        /\ \A i \in at(FINAL) : i = Len(out)
        /\ Cardinality(at(START)) <= 1
        /\ \A i \in DOMAIN out : out[i] \notin {START, PING} =>
             \E j \in at(START) : j < i
        /\ route = "buffered" /\ ended = "no" => \A i \in DOMAIN out : out[i] = PING

\* Every request ends, and then holds no slot (SlotCoversUse).
RequestCloses == <>(phase = "closed")

\* The reader decodes all available frames (decoder.rs:79), past a frame whose
\* data is damaged (decoder.rs:227).  Refuted: the iterator of a chunk ends at
\* an error, and what is behind it waits for a next chunk that may not come.
AvailableFramesDecoded ==
  ended = "done" /\ ~refused =>
    \A n \in DOMAIN frames : frames[n] = "none" => n \in ToSet(Decoded)
=============================================================================
