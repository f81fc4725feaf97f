----------------------------- MODULE SseStream ------------------------------
(***************************************************************************)
(* StreamContext and SseStateManager (anthropic/stream.rs): the events of  *)
(* the upstream, in the order and in the pieces in which they arrive, made *)
(* into the events of an Anthropic message.                                *)
(*                                                                         *)
(* One action is the handling of one upstream event (process_kiro_event),  *)
(* all it emits included.  `ctx` is the StreamContext: the text kept back  *)
(* in thinking_buffer, where the stream is with respect to the thinking    *)
(* (`section` is the pair in_thinking_block, thinking_extracted), the      *)
(* content blocks by index, the blocks in use, the stop reason, and in     *)
(* `sent` everything it has emitted.  Token counts are in UsageReport.     *)
(* Tool input is a fragment or nothing: its text plays no part.            *)
(***************************************************************************)
EXTENDS ThinkingTags, EventProtocol, Selections

CONSTANTS
  Chunks,      \* the pieces of text an assistantResponseEvent may carry
  Tool,        \* tool_use_ids
  MaxEvents    \* bound on the upstream events

ASSUME StreamAssumption ==
  /\ \A chunk \in Chunks : chunk \in Seq(ToSet(chunk))
  /\ MaxEvents \in Nat

VARIABLES
  ctx,         \* the StreamContext
  received,    \* history: all text received
  toolInput,   \* history: fragments received for a tool before its stop
  count        \* upstream events so far

vars == <<ctx, received, toolInput, count>>

Sections    == {"before", "inside", "after"}
StopReasons == {"none", "tool_use", "end_turn", "max_tokens",
                "model_context_window_exceeded"}
Space       == "space"

(***************************************************************************)
(* SseStateManager                                                         *)
(***************************************************************************)
Send(c, e) == [c EXCEPT !.sent = Append(@, e)]

IsOpen(c, b) == b \in DOMAIN c.blocks /\ c.blocks[b].open

OpenBlocks(c, kinds) ==
  {b \in DOMAIN c.blocks : c.blocks[b].open /\ c.blocks[b].kind \in kinds}

StopBlock(c, b) ==
  IF IsOpen(c, b)
  THEN Send([c EXCEPT !.blocks[b].open = FALSE],
            [event |-> "block_stop", block |-> b])
  ELSE c

(* One stop for each of these open blocks.  In which order a HashMap yields  *)
(* them does not matter here.                                                *)
StopAll(c, blocks) ==
  LET order == SetToSeq(blocks)
  IN  [c EXCEPT
         !.blocks = [b \in DOMAIN @ |-> IF b \in blocks THEN [@[b] EXCEPT !.open = FALSE] ELSE @[b]],
         !.sent = @ \o [i \in DOMAIN order |-> [event |-> "block_stop", block |-> order[i]]]]

(* next_block_index and handle_content_block_start: the index is new.        *)
StartBlock(c, kind) ==
  LET d == IF kind = "tool_use" THEN StopAll(c, OpenBlocks(c, {"text"})) ELSE c
  IN  Send([d EXCEPT !.blocks = Append(@, [kind |-> kind, open |-> TRUE])],
           [event |-> "block_start", block |-> Len(d.blocks) + 1])

(* handle_content_block_delta refuses a block that is not open...             *)
Delta(c, b, text) ==
  IF IsOpen(c, b) THEN Send(c, [event |-> "block_delta", block |-> b, text |-> text])
                  ELSE c

(* ...and create_thinking_delta_event does not ask.                           *)
ThinkingDelta(c, text) ==
  Send(c, [event |-> "block_delta", block |-> c.thinkingBlock, text |-> text])

FinalStopReason(c) ==
  CASE c.stopReason # "none" -> c.stopReason
    [] c.stopReason = "none" /\ c.hasToolUse -> "tool_use"
    [] OTHER -> "end_turn"

MessageEnd(c) ==
  LET closed == StopAll(c, OpenBlocks(c, {"text", "thinking", "tool_use"}))
  IN  Send(Send(closed, [event |-> "message_delta", reason |-> FinalStopReason(c)]),
           [event |-> "message_stop"])

(***************************************************************************)
(* Text                                                                    *)
(***************************************************************************)
(* Mutants: the index is taken twice; a closed block is not replaced.        *)
TextSkipsIndex(c, text) ==
  Delta([StartBlock(c, "text") EXCEPT !.textBlock = Len(c.blocks) + 2],
        Len(c.blocks) + 1, text)
TextIntoClosed(c, text) == Delta(c, c.textBlock, text)

(* create_text_delta_events: a text block that a tool call closed is         *)
(* replaced by a new one.                                                    *)
Text(c, text) ==
  LET open == IF IsOpen(c, c.textBlock) /\ c.blocks[c.textBlock].kind = "text"
              THEN c
              ELSE [StartBlock(c, "text") EXCEPT !.textBlock = Len(c.blocks) + 1]
  IN  Delta(open, open.textBlock, text)

TextUnlessBlank(c, text) == IF IsBlank(text) THEN c ELSE Text(c, text)
TextUnlessEmpty(c, text) == IF text = <<>> THEN c ELSE Text(c, text)
ThinkingUnlessEmpty(c, text) == IF text = <<>> THEN c ELSE ThinkingDelta(c, text)

(* A mutant: the stop is sent first.                                          *)
CloseThinkingFirst(c) == ThinkingDelta(StopBlock(c, c.thinkingBlock), <<>>)

(* The end of the thinking: an empty delta, then the stop of its block.      *)
CloseThinking(c) == StopBlock(ThinkingDelta(c, <<>>), c.thinkingBlock)

Upto(text, i)  == SubSeq(text, 1, i)
Beyond(text, i) == SubSeq(text, i + 1, Len(text))

(* First branch of the loop of process_content_with_thinking.                *)
ScanForStart(c) ==
  LET start == StartTag(c.buffer)
      safe  == Upto(c.buffer, SafeLen(c.buffer, Len(OpenTag)))
  IN  CASE start # 0 ->
             LET d == StartBlock(TextUnlessBlank(c, Upto(c.buffer, start - 1)), "thinking")
             IN  [d EXCEPT !.section = "inside", !.strip = TRUE,
                           !.thinkingBlock = Len(d.blocks),
                           !.buffer = After(OpenTag, @, start)]
        [] start = 0 /\ ~IsBlank(safe) ->
             [Text(c, safe) EXCEPT !.buffer = Beyond(@, Len(safe))]
        [] OTHER -> c

(* The newline after <thinking>, which may come in a later piece.            *)
StripNewline(c) ==
  IF c.strip /\ c.buffer # <<>>
  THEN [c EXCEPT !.strip = FALSE,
                 !.buffer = IF Head(@) = Newline THEN Tail(@) ELSE @]
  ELSE c

(* Second branch: two more characters are kept back for the newlines that    *)
(* must follow the closing tag.                                              *)
ScanForEnd(d) ==
  LET c    == StripNewline(d)
      end  == EndTag(c.buffer)
      safe == Upto(c.buffer, SafeLen(c.buffer, Len(CloseTag) + 2))
  IN  IF end # 0
      THEN [CloseThinking(ThinkingUnlessEmpty(c, Upto(c.buffer, end - 1)))
              EXCEPT !.section = "after",
                     !.buffer = Beyond(@, end + Len(CloseTag) + 1)]
      ELSE [ThinkingUnlessEmpty(c, safe) EXCEPT !.buffer = Beyond(@, Len(safe))]

(* Third branch.                                                             *)
FlushRest(c) == [TextUnlessEmpty(c, c.buffer) EXCEPT !.buffer = <<>>]

(* The loop takes each branch at most once, in this order.                   *)
ContentWithThinking(c, chunk) ==
  LET c0 == [c EXCEPT !.buffer = @ \o chunk]
      c1 == IF c0.section = "before" THEN ScanForStart(c0) ELSE c0
      c2 == IF c1.section = "inside" THEN ScanForEnd(c1) ELSE c1
  IN  IF c2.section = "after" THEN FlushRest(c2) ELSE c2

(* A closing tag with only white space behind it, at a tool call or at the   *)
(* end of the stream: what follows the tag is text.                          *)
CloseAtBufferEnd(c) ==
  LET end == EndTagAtBufferEnd(c.buffer)
      d   == CloseThinking(ThinkingUnlessEmpty(c, Upto(c.buffer, end - 1)))
  IN  TextUnlessEmpty([d EXCEPT !.section = "after", !.buffer = <<>>],
                      TrimStart(After(CloseTag, c.buffer, end)))

(* A mutant: the text kept back stays where it is.                            *)
NoBoundary(c) == c

(* What process_tool_use does before it opens the block of the tool.         *)
BoundaryOfTool(c) ==
  LET d == IF c.section = "inside" /\ EndTagAtBufferEnd(c.buffer) # 0
           THEN CloseAtBufferEnd(c) ELSE c
  IN  IF d.section = "before" /\ d.buffer # <<>>
      THEN [Text(d, d.buffer) EXCEPT !.buffer = <<>>]
      ELSE d

(* What generate_final_events does with the text that is left.               *)
FlushAtEnd(c) ==
  CASE c.buffer = <<>> -> c
    [] c.buffer # <<>> /\ c.section = "inside" ->
         IF EndTagAtBufferEnd(c.buffer) # 0
         THEN CloseAtBufferEnd(c)
         ELSE [CloseThinking(ThinkingDelta(c, c.buffer)) EXCEPT !.buffer = <<>>]
    [] OTHER -> [Text(c, c.buffer) EXCEPT !.buffer = <<>>]

HasNonThinkingBlocks(c) == \E b \in DOMAIN c.blocks : c.blocks[b].kind # "thinking"

(* A mutant: the answer is added and the stop reason left as it was.          *)
AnswerKeepsReason(c) ==
  IF c.thinkingBlock # 0 /\ ~HasNonThinkingBlocks(c) THEN Text(c, <<Space>>) ELSE c

(* Thinking alone is no answer: a text of one space is added.                *)
AnswerIfNone(c) ==
  IF c.thinkingBlock # 0 /\ ~HasNonThinkingBlocks(c)
  THEN Text([c EXCEPT !.stopReason = "max_tokens"], <<Space>>)
  ELSE c

(***************************************************************************)
(* The specification                                                       *)
(***************************************************************************)
NewContext(thinking) ==
  [phase |-> "new", thinkingEnabled |-> thinking,
   section |-> "before", strip |-> FALSE, buffer |-> <<>>,
   blocks |-> <<>>, textBlock |-> 0, thinkingBlock |-> 0,
   toolBlock |-> [t \in Tool |-> 0],
   stopReason |-> "none", hasToolUse |-> FALSE, sent |-> <<>>]

Init ==
  /\ ctx \in {NewContext(thinking) : thinking \in BOOLEAN}
  /\ received = <<>>
  /\ toolInput = [t \in Tool |-> 0]
  /\ count = 0

(* generate_initial_events: without thinking, the text block is opened now.  *)
Start ==
  /\ ctx.phase = "new"
  /\ LET c == [Send(ctx, [event |-> "message_start"]) EXCEPT !.phase = "open"]
     IN  ctx' = IF c.thinkingEnabled THEN c
                ELSE [StartBlock(c, "text") EXCEPT !.textBlock = 1]
  /\ UNCHANGED <<received, toolInput, count>>

Upstream ==
  /\ ctx.phase = "open"
  /\ count < MaxEvents
  /\ count' = count + 1

(* assistantResponseEvent                                                    *)
AssistantResponse(chunk) ==
  /\ Upstream
  /\ ctx' = CASE chunk = <<>> -> ctx
              [] chunk # <<>> /\ ctx.thinkingEnabled -> ContentWithThinking(ctx, chunk)
              [] OTHER -> Text(ctx, chunk)
  /\ received' = received \o chunk
  /\ UNCHANGED toolInput

(* toolUseEvent: the first of a tool opens its block, and every one closes   *)
(* the open text.                                                            *)
ToolUse(t, fragment, stop) ==
  /\ Upstream
  /\ LET used == [ctx EXCEPT !.hasToolUse = TRUE]
         c == IF ctx.thinkingEnabled THEN BoundaryOfTool(used) ELSE used
         d == IF c.toolBlock[t] = 0
              THEN [StartBlock(c, "tool_use") EXCEPT !.toolBlock[t] = Len(c.blocks) + 1]
              ELSE StopAll(c, OpenBlocks(c, {"text"}))
         f == IF fragment THEN Delta(d, d.toolBlock[t], <<t>>) ELSE d
     IN  /\ ctx' = IF stop THEN StopBlock(f, f.toolBlock[t]) ELSE f
         /\ toolInput' = IF fragment /\ (ctx.toolBlock[t] = 0 \/ IsOpen(ctx, ctx.toolBlock[t]))
                         THEN [toolInput EXCEPT ![t] = @ + 1] ELSE toolInput
  /\ UNCHANGED received

(* contextUsageEvent or tokenUsage at 100 percent, ContentLengthExceeded.    *)
LimitReached(reason) ==
  /\ Upstream
  /\ ctx' = [ctx EXCEPT !.stopReason = reason]
  /\ UNCHANGED <<received, toolInput>>

(* A web search answers with a fixed sequence of events (websearch.rs): what  *)
(* is searched for, the call, its result, and a summary in pieces.            *)
Block(b, texts) ==
  <<[event |-> "block_start", block |-> b]>>
  \o [i \in DOMAIN texts |-> [event |-> "block_delta", block |-> b, text |-> <<texts[i]>>]]
  \o <<[event |-> "block_stop", block |-> b]>>

SearchBlocks ==
  [b \in 1 .. 4 |->
     [open |-> FALSE,
      kind |-> <<"text", "server_tool_use", "web_search_tool_result", "text">>[b]]]

WebSearchAnswer(decision, summary) ==
  /\ ctx.phase = "new"
  /\ ctx' = [ctx EXCEPT
       !.phase = "ended", !.blocks = SearchBlocks,
       !.sent = <<[event |-> "message_start"]>>
                \o Block(1, <<decision>>) \o Block(2, <<>>) \o Block(3, <<>>)
                \o Block(4, summary)
                \o <<[event |-> "message_delta", reason |-> "end_turn"],
                     [event |-> "message_stop"]>>]
  /\ received' = <<decision>> \o summary
  /\ UNCHANGED <<toolInput, count>>

(* generate_final_events                                                     *)
Finish ==
  /\ ctx.phase = "open"
  /\ LET flushed == IF ctx.thinkingEnabled THEN AnswerIfNone(FlushAtEnd(ctx)) ELSE ctx
     IN  ctx' = [MessageEnd(flushed) EXCEPT !.phase = "ended"]
  /\ UNCHANGED <<received, toolInput, count>>

Next ==
  \/ Start
  \/ WebSearchAnswer("query", <<"results">>)
  \/ WebSearchAnswer("query", <<"results", "notice">>)
  \/ \E chunk \in Chunks : AssistantResponse(chunk)
  \/ \E t \in Tool, fragment, stop \in BOOLEAN : ToolUse(t, fragment, stop)
  \/ \E reason \in {"max_tokens", "model_context_window_exceeded"} : LimitReached(reason)
  \/ Finish

Spec == Init /\ [][Next]_vars

(***************************************************************************)
(* Properties                                                              *)
(***************************************************************************)
(* The characters that are neither part of a tag nor white space.            *)
Visible(text) ==
  Without(text, Blanks \cup ToSet(OpenTag) \cup ToSet(CloseTag) \cup Tool \cup {Space})

(* The text of all deltas of the blocks of some kinds, in the order sent.    *)
SentText(c, kinds) ==
  FlattenSeq([i \in DOMAIN c.sent |->
    LET e == c.sent[i]
    IN  IF e.event = "block_delta" /\ c.blocks[e.block].kind \in kinds THEN e.text ELSE <<>>])

TypeOK ==
  /\ ctx.phase \in {"new", "open", "ended"}
  /\ ctx.section \in Sections
  /\ ctx.stopReason \in StopReasons
  /\ ctx.textBlock \in 0 .. Len(ctx.blocks)
  /\ ctx.thinkingBlock \in 0 .. Len(ctx.blocks)
  /\ ctx.toolBlock \in [Tool -> 0 .. Len(ctx.blocks)]
  /\ count \in 0 .. MaxEvents

(* Whatever the upstream sends and wherever its text is cut, the events are  *)
(* those of a message: three handlers open, fill and close the blocks, and   *)
(* the deltas of the thinking are sent without asking the state manager.     *)
WellFormed ==
  /\ Accepted(ctx.sent)
  /\ ctx.phase = "ended" => Complete(ctx.sent)

(* Nothing that is shown to a user is lost, doubled or put out of order by    *)
(* the search for tags, by a tool call that closes the open text, or by the   *)
(* end: it was sent or it is still kept back, and at the end it was sent.     *)
(* Input of a tool arrives as long as the tool was not stopped.               *)
NothingLost ==
  /\ Visible(SentText(ctx, {"text", "thinking"}) \o ctx.buffer) = Visible(received)
  /\ ctx.phase = "ended" => ctx.buffer = <<>>
  /\ \A t \in Tool : toolInput[t] =
       Len(Within(SentText(ctx, {"tool_use"}), {t}))

(* Where a block starts in what was sent.                                    *)
FirstStart(events, b) ==
  SelectInSeq(events, LAMBDA e : e.event = "block_start" /\ e.block = b)

(* Text received before a tool call is sent before it, not behind it, unless  *)
(* the thinking is still open (comment at anthropic/stream.rs:1096-1098).     *)
TextBeforeTool ==
  [][\A t \in Tool :
       ctx.toolBlock[t] = 0 /\ ctx'.toolBlock[t] # 0 /\ ctx'.section # "inside"
         => /\ ctx'.buffer = <<>>
            /\ LET first == FirstStart(ctx'.sent, ctx'.toolBlock[t])
                   before == [ctx' EXCEPT !.sent = SubSeq(@, 1, first)]
               IN  Visible(SentText(before, {"text", "thinking"})) = Visible(received)]_vars

(* A message that thinks also answers: its content never ends as thinking    *)
(* alone.  Where it had no answer, the client is told that tokens ran out,    *)
(* whatever the upstream had reported; where it had one, its reason stands,   *)
(* and the text still kept back when it ends makes no difference.             *)
ReasonGiven(events) == events[Len(events) - 1].reason
ThinkingIsNotAll ==
  [][ctx.phase = "open" /\ ctx'.phase = "ended" /\ ctx.thinkingBlock # 0
       => /\ HasNonThinkingBlocks(ctx')
          /\ ReasonGiven(ctx'.sent) = IF HasNonThinkingBlocks(ctx)
                                      THEN FinalStopReason(ctx) ELSE "max_tokens"]_vars

(* Where a text is cut does not decide what is thinking.  Stated for texts   *)
(* whose tags are either quoted on both sides or on none, and whose thinking  *)
(* is closed: a quote in front of a tag, a full stop being one, counts only   *)
(* until it has been sent, and the complete text still has it.  The answer to *)
(* a web search is not looked through for tags.                               *)
Tagged(tag, text) ==
  {i \in 1 .. Len(text) - Len(tag) + 1 : SubSeq(text, i, i + Len(tag) - 1) = tag}
PlainTags(text) ==
  \A tag \in {OpenTag, CloseTag} : \A i \in Tagged(tag, text) :
    IsQuote(text, i - 1) <=> IsQuote(text, i + Len(tag))
SameAsComplete ==
  LET complete == ExtractComplete(received)
  IN  complete.thinking # <<>> \/ ctx.section = "after" =>
        /\ Visible(SentText(ctx, {"thinking"})) = Visible(complete.thinking)
        /\ Visible(SentText(ctx, {"text"})) = Visible(complete.text)

NoToolUsed == \A t \in Tool : ctx.toolBlock[t] = 0
Searched   == \E b \in DOMAIN ctx.blocks : ctx.blocks[b].kind = "server_tool_use"

CutsDoNotMatter ==
  ctx.phase = "ended" /\ ctx.thinkingEnabled /\ ~Searched /\ NoToolUsed /\ PlainTags(received)
    => SameAsComplete
=============================================================================
