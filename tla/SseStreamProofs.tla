-------------------------- MODULE SseStreamProofs ---------------------------
(***************************************************************************)
(* Theorems about SseStream: the events sent are those of a message, the   *)
(* content is never thinking alone, no visible text is lost, text received *)
(* before a tool call precedes the block of the tool, and where a text is  *)
(* cut does not decide what is thinking, whatever the texts, the tags, the *)
(* tools and the number of upstream events.                                *)
(***************************************************************************)
EXTENDS SseStream, SequenceLemmas

Char  == {Space, "query", "results", "notice"} \cup Tool
           \cup UNION {ToSet(chunk) : chunk \in Chunks}
Texts == Seq(Char)
Kinds == {"text", "thinking", "tool_use"}
BlockStates == [kind : Kinds, open : BOOLEAN]

Events ==
  [event : {"message_start", "message_stop"}]
    \cup [event : {"block_start", "block_stop"}, block : Nat]
    \cup [event : {"block_delta"}, block : Nat, text : Texts]
    \cup [event : {"message_delta"}, reason : StopReasons]

-----------------------------------------------------------------------------
(* What the client has observed after each event.                            *)
Observers ==
  [phase : {"silent", "content", "closing", "stopped", "refused"},
   open : SUBSET Nat, closed : SUBSET Nat]

Observes(g, s) ==
  /\ g \in [0 .. Len(s) -> Observers]
  /\ g[0] = Silent
  /\ \A i \in 1 .. Len(s) : g[i] = Observe(g[i - 1], s[i])

LEMMA SilentType == Silent \in Observers
BY DEF Silent, Observers

LEMMA ObserveType ==
  ASSUME NEW p \in Observers, NEW e \in Events
  PROVE  Observe(p, e) \in Observers
<1>1. Refuse(p) \in Observers
  BY DEF Refuse, Observers
<1>2. e.event \in {"block_start", "block_stop", "block_delta"} => e.block \in Nat
  BY DEF Events
<1> QED BY <1>1, <1>2 DEF Observe, Observers

LEMMA ObservedExists ==
  ASSUME NEW s \in Seq(Events)
  PROVE  \E g : Observes(g, s) /\ Observed(s) = g[Len(s)]
<1> DEFINE n == Len(s)
           step == [i \in 1 .. n |-> [v \in Observers |-> Observe(v, s[i])]]
           E(g) == [i \in 0 .. n |-> IF i = 0 THEN Silent ELSE Observe(g[i - 1], s[i])]
           after == CHOOSE g : g = E(g)
<1>1. n \in Nat /\ \A i \in 1 .. n : s[i] \in Events
  OBVIOUS
<1>2. Observed(s) = after[n]
  BY DEF Observed
<1> HIDE DEF n
<1>3. StaysIn(Observers, n, step)
  BY <1>1, ObserveType DEF StaysIn
<1>4. \A i \in 1 .. n, v \in Observers : step[i][v] = Observe(v, s[i])
  OBVIOUS
<1> HIDE DEF step
<1>5. PICK f : Recurs(f, Observers, n, Silent, step)
  BY <1>1, <1>3, SilentType, Recursion
<1>6. f \in [0 .. n -> Observers] /\ f[0] = Silent
  BY <1>5 DEF Recurs
<1>7. \A i \in 1 .. n : f[i] = Observe(f[i - 1], s[i])
  <2> TAKE i \in 1 .. n
  <2>1. f[i - 1] \in Observers
    BY <1>1, <1>6
  <2> QED BY <2>1, <1>4, <1>5 DEF Recurs
<1>8. f = E(f)
  <2>1. \A i \in 0 .. n : f[i] = E(f)[i]
    BY <1>1, <1>6, <1>7
  <2>2. DOMAIN E(f) = 0 .. n /\ E(f) = [i \in 0 .. n |-> E(f)[i]]
    OBVIOUS
  <2>3. f = [i \in 0 .. n |-> f[i]]
    BY <1>6
  <2> HIDE DEF E
  <2> QED BY <2>1, <2>2, <2>3
<1>9. after = E(after)
  <2> HIDE DEF E
  <2> QED BY <1>8
<1> HIDE DEF after
<1>10. after[0] = Silent /\ \A i \in 1 .. n : after[i] = Observe(after[i - 1], s[i])
  <2>1. E(after)[0] = Silent /\ \A i \in 1 .. n : E(after)[i] = Observe(after[i - 1], s[i])
    BY <1>1
  <2> HIDE DEF E
  <2> QED BY <1>9, <2>1
<1>11. \A i \in 0 .. n : after[i] = f[i]
  <2> DEFINE T == {i \in 0 .. n : after[i] = f[i]}
  <2>1. 0 \in T
    BY <1>1, <1>6, <1>10
  <2>2. ASSUME NEW i \in 1 .. n, i - 1 \in T PROVE i \in T
    <3>1. after[i - 1] = f[i - 1]
      BY <2>2
    <3>2. after[i] = Observe(after[i - 1], s[i]) /\ f[i] = Observe(f[i - 1], s[i])
      BY <1>7, <1>10
    <3> QED BY <3>1, <3>2
  <2> HIDE DEF T
  <2>3. 0 .. n \subseteq T
    BY <1>1, <2>1, <2>2, InductionUpTo
  <2> QED BY <2>3 DEF T
<1>12. n \in 0 .. n
  BY <1>1
<1>13. Observes(f, s)
  BY <1>6, <1>7 DEF Observes, n
<1> QED BY <1>2, <1>11, <1>12, <1>13 DEF n

LEMMA ObservedType ==
  ASSUME NEW s \in Seq(Events)
  PROVE  Observed(s) \in Observers
<1>1. PICK g : Observes(g, s) /\ Observed(s) = g[Len(s)]
  BY ObservedExists
<1>2. Len(s) \in 0 .. Len(s)
  OBVIOUS
<1> QED BY <1>1, <1>2 DEF Observes

LEMMA ObservedEmpty == Observed(<<>>) = Silent
<1>1. <<>> \in Seq(Events) /\ Len(<<>>) = 0
  OBVIOUS
<1>2. PICK g : Observes(g, <<>>) /\ Observed(<<>>) = g[0]
  BY <1>1, ObservedExists
<1> QED BY <1>2 DEF Observes

LEMMA ObservedAppend ==
  ASSUME NEW s \in Seq(Events), NEW e \in Events
  PROVE  Observed(Append(s, e)) = Observe(Observed(s), e)
<1> DEFINE n == Len(s)
           t == Append(s, e)
<1>1. n \in Nat /\ t \in Seq(Events) /\ Len(t) = n + 1 /\ t[n + 1] = e
      /\ \A i \in 1 .. n : t[i] = s[i]
  OBVIOUS
<1> HIDE DEF t
<1>2. PICK f : Observes(f, s) /\ Observed(s) = f[n]
  BY ObservedExists
<1>3. PICK g : Observes(g, t) /\ Observed(t) = g[n + 1]
  BY <1>1, ObservedExists
<1> HIDE DEF n
<1>4. /\ f[0] = Silent /\ \A i \in 1 .. n : f[i] = Observe(f[i - 1], s[i])
      /\ g[0] = Silent /\ \A i \in 1 .. n + 1 : g[i] = Observe(g[i - 1], t[i])
  BY <1>1, <1>2, <1>3 DEF Observes, n
<1>5. \A i \in 0 .. n : f[i] = g[i]
  <2> DEFINE T == {i \in 0 .. n : f[i] = g[i]}
  <2>1. 0 \in T
    BY <1>1, <1>4
  <2>2. ASSUME NEW i \in 1 .. n, i - 1 \in T PROVE i \in T
    <3>1. f[i - 1] = g[i - 1] /\ i \in 1 .. n + 1
      BY <1>1, <2>2
    <3>2. f[i] = Observe(f[i - 1], s[i]) /\ g[i] = Observe(g[i - 1], s[i])
      BY <1>1, <1>4, <3>1
    <3> QED BY <3>1, <3>2
  <2> HIDE DEF T
  <2>3. 0 .. n \subseteq T
    BY <1>1, <2>1, <2>2, InductionUpTo
  <2> QED BY <2>3 DEF T
<1>6. n \in 0 .. n /\ n + 1 \in 1 .. n + 1 /\ (n + 1) - 1 = n
  BY <1>1
<1>7. g[n + 1] = Observe(g[n], e)
  BY <1>1, <1>4, <1>6
<1> QED BY <1>2, <1>3, <1>5, <1>6, <1>7 DEF t

-----------------------------------------------------------------------------
(* A context in the middle of a message: the client has seen its blocks open *)
(* and close as the context has them, and the blocks in use are of the right *)
(* kind.                                                                     *)
Contexts ==
  [phase : {"new", "open", "ended"}, thinkingEnabled : BOOLEAN,
   section : Sections, strip : BOOLEAN, buffer : Texts,
   blocks : Seq(BlockStates), textBlock : Nat, thinkingBlock : Nat,
   toolBlock : [Tool -> Nat],
   stopReason : StopReasons, hasToolUse : BOOLEAN, sent : Seq(Events)]

Opened(c) == {b \in DOMAIN c.blocks : c.blocks[b].open}
OfKind(c, b, kind) == b = 0 \/ (b \in DOMAIN c.blocks /\ c.blocks[b].kind = kind)

Blocked(c) ==
  /\ OfKind(c, c.textBlock, "text")
  /\ OfKind(c, c.thinkingBlock, "thinking")
  /\ \A t \in Tool : OfKind(c, c.toolBlock[t], "tool_use")

(* Every delta is of a block there is.                                       *)
Placed(c) ==
  \A i \in DOMAIN c.sent : c.sent[i].event = "block_delta" => c.sent[i].block \in DOMAIN c.blocks

Watched(c) ==
  Observed(c.sent) = [phase |-> "content", open |-> Opened(c),
                      closed |-> (DOMAIN c.blocks) \ Opened(c)]

Core(c) == c \in Contexts /\ Blocked(c) /\ Placed(c) /\ Watched(c)

(* What was said up to now, and what a handler adds to it.                    *)
Said(c, kinds, i) ==
  LET e == c.sent[i]
  IN  IF e.event = "block_delta" /\ c.blocks[e.block].kind \in kinds THEN e.text ELSE <<>>

LEMMA EventTypes ==
  /\ [event |-> "message_start"] \in Events /\ [event |-> "message_stop"] \in Events
  /\ \A b \in Nat : /\ [event |-> "block_start", block |-> b] \in Events
                    /\ [event |-> "block_stop", block |-> b] \in Events
  /\ \A b \in Nat, text \in Texts : [event |-> "block_delta", block |-> b, text |-> text] \in Events
  /\ \A reason \in StopReasons : [event |-> "message_delta", reason |-> reason] \in Events
BY DEF Events

LEMMA SendFacts ==
  ASSUME NEW c \in Contexts, NEW e \in Events
  PROVE  /\ Send(c, e) \in Contexts
         /\ Send(c, e).blocks = c.blocks
         /\ Send(c, e).sent = Append(c.sent, e)
         /\ Send(c, e) = [c EXCEPT !.sent = Append(c.sent, e)]
<1>1. Append(c.sent, e) \in Seq(Events)
  BY DEF Contexts
<1> QED BY <1>1 DEF Send, Contexts

(* The pieces of text of a sequence of events.                                *)
LEMMA SaidType ==
  ASSUME NEW c, c.sent \in Seq(Events), NEW kinds
  PROVE  /\ [i \in DOMAIN c.sent |-> Said(c, kinds, i)] \in Seq(Texts)
         /\ SentText(c, kinds) = FlattenSeq([i \in DOMAIN c.sent |-> Said(c, kinds, i)])
         /\ SentText(c, kinds) \in Texts
<1> DEFINE f == [i \in DOMAIN c.sent |-> Said(c, kinds, i)]
<1>1. PICK n \in Nat : n = Len(c.sent) /\ DOMAIN c.sent = 1 .. n
  OBVIOUS
<1>2. \A i \in 1 .. n : Said(c, kinds, i) \in Texts
  <2> TAKE i \in 1 .. n
  <2>1. c.sent[i] \in Events
    BY <1>1
  <2>2. c.sent[i].event = "block_delta" => c.sent[i].text \in Texts
    BY <2>1 DEF Events
  <2>3. <<>> \in Texts
    BY DEF Texts
  <2> QED BY <2>2, <2>3 DEF Said
<1>3. f \in [1 .. n -> Texts]
  BY <1>1, <1>2
<1>4. f \in Seq(Texts)
  BY <1>3, FunctionIsSeq
<1>5. SentText(c, kinds) = FlattenSeq(f)
  BY DEF SentText, Said
<1> HIDE DEF f
<1>6. FlattenSeq(f) \in Texts
  BY <1>4, FlattenType DEF Texts
<1> QED BY <1>4, <1>5, <1>6 DEF f

LEMMA SentTextAppend ==
  ASSUME NEW c, c.sent \in Seq(Events), NEW e \in Events, NEW kinds,
         NEW d, d.blocks = c.blocks, d.sent = Append(c.sent, e)
  PROVE  SentText(d, kinds) =
           SentText(c, kinds) \o
             (IF e.event = "block_delta" /\ c.blocks[e.block].kind \in kinds THEN e.text ELSE <<>>)
<1> DEFINE f == [i \in DOMAIN c.sent |-> Said(c, kinds, i)]
           g == [i \in DOMAIN d.sent |-> Said(d, kinds, i)]
           x == IF e.event = "block_delta" /\ c.blocks[e.block].kind \in kinds THEN e.text ELSE <<>>
<1>1. d.blocks = c.blocks /\ d.sent = Append(c.sent, e) /\ c.sent \in Seq(Events)
  OBVIOUS
<1>2. d.sent \in Seq(Events)
  BY <1>1
<1>3. f \in Seq(Texts) /\ SentText(c, kinds) = FlattenSeq(f)
  BY <1>1, SaidType
<1>4. g \in Seq(Texts) /\ SentText(d, kinds) = FlattenSeq(g)
  BY <1>2, SaidType
<1>5. x \in Texts
  <2>1. e.event = "block_delta" => e.text \in Texts
    BY DEF Events
  <2>2. <<>> \in Texts
    BY DEF Texts
  <2> QED BY <2>1, <2>2
<1>6. PICK n \in Nat : n = Len(c.sent) /\ DOMAIN c.sent = 1 .. n
  BY <1>1
<1>7. DOMAIN d.sent = 1 .. n + 1 /\ d.sent[n + 1] = e /\ \A i \in 1 .. n : d.sent[i] = c.sent[i]
  BY <1>1, <1>6
<1>8. Len(f) = n /\ Len(g) = n + 1
  <2>1. DOMAIN f = 1 .. n /\ DOMAIN g = 1 .. n + 1
    BY <1>6, <1>7
  <2> HIDE DEF f, g
  <2> QED BY <2>1, <1>3, <1>4
<1>9. (\A i \in 1 .. n : g[i] = f[i]) /\ g[n + 1] = x
  <2>1. \A i \in 1 .. n : g[i] = Said(d, kinds, i) /\ f[i] = Said(c, kinds, i)
    BY <1>6, <1>7
  <2>2. g[n + 1] = Said(d, kinds, n + 1)
    BY <1>7
  <2>3. \A i \in 1 .. n : Said(d, kinds, i) = Said(c, kinds, i)
    BY <1>1, <1>7 DEF Said
  <2>4. Said(d, kinds, n + 1) = x
    BY <1>1, <1>7 DEF Said
  <2> HIDE DEF f, g, x
  <2> QED BY <2>1, <2>2, <2>3, <2>4
<1> HIDE DEF f, g, x
<1>10. g = Append(f, x)
  <2> DEFINE h == Append(f, x)
  <2>1. h \in Seq(Texts) /\ Len(h) = n + 1 /\ h[n + 1] = x /\ \A i \in 1 .. n : h[i] = f[i]
    BY <1>3, <1>5, <1>8, AppendProperties
  <2> HIDE DEF h
  <2>2. \A i \in 1 .. n + 1 : h[i] = g[i]
    <3> TAKE i \in 1 .. n + 1
    <3>1. i \in 1 .. n \/ i = n + 1
      OBVIOUS
    <3> QED BY <3>1, <2>1, <1>9
  <2>3. h = g
    BY <2>1, <2>2, <1>4, <1>8, SeqEqual
  <2> QED BY <2>3 DEF h
<1>11. FlattenSeq(Append(f, x)) = FlattenSeq(f) \o x
  BY <1>3, <1>5, FlattenAppend DEF Texts
<1> QED BY <1>3, <1>4, <1>10, <1>11 DEF x

LEMMA SentTextSend ==
  ASSUME NEW c \in Contexts, NEW e \in Events, NEW kinds
  PROVE  SentText(Send(c, e), kinds) =
           SentText(c, kinds) \o
             (IF e.event = "block_delta" /\ c.blocks[e.block].kind \in kinds THEN e.text ELSE <<>>)
<1>1. c.sent \in Seq(Events)
  BY DEF Contexts
<1>2. Send(c, e).blocks = c.blocks /\ Send(c, e).sent = Append(c.sent, e)
  BY SendFacts
<1> QED BY <1>1, <1>2, SentTextAppend

KindsKept(c, d) ==
  \A b \in DOMAIN c.blocks : b \in DOMAIN d.blocks /\ d.blocks[b].kind = c.blocks[b].kind

(* The kinds of the blocks decide, not whether they are open.                 *)
LEMMA SentTextKinds ==
  ASSUME NEW c, NEW d, NEW kinds, c.sent \in Seq(Events), d.sent = c.sent, Placed(c),
         KindsKept(c, d)
  PROVE  SentText(d, kinds) = SentText(c, kinds)
<1> DEFINE f == [i \in DOMAIN c.sent |-> Said(c, kinds, i)]
           g == [i \in DOMAIN d.sent |-> Said(d, kinds, i)]
<1>1. \A i \in DOMAIN c.sent : Said(d, kinds, i) = Said(c, kinds, i)
  BY DEF Said, Placed, KindsKept
<1>2. f = g
  BY <1>1
<1>3. SentText(c, kinds) = FlattenSeq(f) /\ SentText(d, kinds) = FlattenSeq(g)
  BY DEF SentText, Said
<1> QED BY <1>2, <1>3

Hidden == Blanks \cup ToSet(OpenTag) \cup ToSet(CloseTag) \cup Tool \cup {Space}

\* Concatenation is associative, for the texts of this module.
Regroups(x, y, z) == (x \o y) \o z = x \o (y \o z)

LEMMA TextsAssociate ==
  \A x \in Texts, y \in Texts, z \in Texts : Regroups(x, y, z)
<1>1. ASSUME NEW x \in Texts, NEW y \in Texts, NEW z \in Texts
      PROVE  (x \o y) \o z = x \o (y \o z)
  BY ConcatAssociative DEF Texts
<1> QED BY <1>1 DEF Regroups

LEMMA VisibleFacts ==
  /\ \A a \in Texts : Visible(a) \in Texts
  /\ \A a \in Texts, b \in Texts : Visible(a \o b) = Visible(a) \o Visible(b)
  /\ \A a \in Texts : (\A i \in DOMAIN a : a[i] \in Hidden) => Visible(a) = <<>>
  /\ Visible(<<>>) = <<>>
<1>1. \A a : Visible(a) = Without(a, Hidden)
  BY DEF Visible, Hidden
<1>2. \A a \in Texts : Visible(a) \in Texts
  BY <1>1, WithoutFacts DEF Texts
<1>3. ASSUME NEW a \in Texts, NEW b \in Texts PROVE Visible(a \o b) = Visible(a) \o Visible(b)
  <2>1. Without(a \o b, Hidden) = Without(a, Hidden) \o Without(b, Hidden)
    BY WithoutConcat DEF Texts
  <2> QED BY <2>1, <1>1
<1>4. \A a \in Texts : (\A i \in DOMAIN a : a[i] \in Hidden) => Visible(a) = <<>>
  BY <1>1, WithoutFacts DEF Texts
<1>5. <<>> \in Texts /\ DOMAIN <<>> = {}
  BY DEF Texts
<1>6. Visible(<<>>) = <<>>
  BY <1>4, <1>5
<1> QED BY <1>2, <1>3, <1>4, <1>6

Shown(c) == Visible(SentText(c, {"text", "thinking"}))
Given(c, t) == Len(Within(SentText(c, {"tool_use"}), {t}))
Says(c, d, text) == Shown(d) = Shown(c) \o Visible(text) /\ \A t \in Tool : Given(d, t) = Given(c, t)

(* What no handler of a block touches, and what becomes of the blocks.       *)
Kept(c, d) ==
  /\ d.phase = c.phase /\ d.thinkingEnabled = c.thinkingEnabled
  /\ d.section = c.section /\ d.strip = c.strip /\ d.buffer = c.buffer
  /\ d.thinkingBlock = c.thinkingBlock /\ d.toolBlock = c.toolBlock
  /\ d.stopReason = c.stopReason /\ d.hasToolUse = c.hasToolUse
OpenKept(c, d, kinds) ==
  \A b \in DOMAIN c.blocks : c.blocks[b].kind \in kinds => (d.blocks[b].open <=> c.blocks[b].open)

Becomes(c, d, text) == Core(d) /\ Kept(c, d) /\ KindsKept(c, d) /\ Says(c, d, text)

LEMMA SameMessage ==
  ASSUME NEW c, NEW d, d.sent = c.sent, d.blocks = c.blocks
  PROVE  Shown(d) = Shown(c) /\ \A t \in Tool : Given(d, t) = Given(c, t)
<1>1. ASSUME NEW kinds PROVE SentText(d, kinds) = SentText(c, kinds)
  BY DEF SentText
<1> QED BY <1>1 DEF Shown, Given

LEMMA ShownType == \A c : c.sent \in Seq(Events) => Shown(c) \in Texts
BY SaidType, VisibleFacts DEF Shown

LEMMA KeptTransitive ==
  ASSUME NEW c, NEW d, NEW e, Kept(c, d), Kept(d, e) PROVE Kept(c, e)
BY DEF Kept

LEMMA KindsTransitive ==
  ASSUME NEW c, NEW d, NEW e, KindsKept(c, d), KindsKept(d, e) PROVE KindsKept(c, e)
BY DEF KindsKept

LEMMA SaysTransitive ==
  ASSUME NEW c, NEW d, NEW e, c.sent \in Seq(Events), NEW a \in Texts, NEW b \in Texts,
         Says(c, d, a), Says(d, e, b)
  PROVE  Says(c, e, a \o b)
<1>1. /\ Shown(c) \in Texts /\ Visible(a) \in Texts /\ Visible(b) \in Texts
      /\ Visible(a \o b) = Visible(a) \o Visible(b)
  BY ShownType, VisibleFacts
<1>2. Shown(e) = (Shown(c) \o Visible(a)) \o Visible(b)
  BY DEF Says
<1>3. Shown(e) = Shown(c) \o (Visible(a) \o Visible(b))
  BY <1>1, <1>2, ConcatAssociative, SMTT(20) DEF Texts
<1>4. \A t \in Tool : Given(e, t) = Given(c, t)
  BY DEF Says
<1> QED BY <1>1, <1>3, <1>4 DEF Says

LEMMA SaysNothing ==
  ASSUME NEW c, NEW d, c.sent \in Seq(Events), \A kinds : SentText(d, kinds) = SentText(c, kinds)
  PROVE  Says(c, d, <<>>)
<1>1. Shown(d) = Shown(c) /\ \A t \in Tool : Given(d, t) = Given(c, t)
  BY DEF Shown, Given
<1>2. Shown(c) \in Texts
  BY ShownType
<1>3. Shown(c) \o <<>> = Shown(c)
  BY <1>2, ConcatEmptySeq DEF Texts
<1> QED BY <1>1, <1>3, VisibleFacts DEF Says

LEMMA BecomesTransitive ==
  ASSUME NEW c, NEW d, NEW e, Core(c), NEW a \in Texts, NEW b \in Texts,
         Becomes(c, d, a), Becomes(d, e, b)
  PROVE  Becomes(c, e, a \o b)
<1>1. c.sent \in Seq(Events)
  BY DEF Core, Contexts
<1> QED BY <1>1, KeptTransitive, KindsTransitive, SaysTransitive DEF Becomes

(* An event that is no delta, and blocks of the same kinds.                    *)
Reframed(c, B, s) == [c EXCEPT !.blocks = B, !.sent = s]

LEMMA Reframe ==
  ASSUME NEW c, c \in Contexts, Blocked(c), Placed(c),
         NEW B \in Seq(BlockStates), NEW s \in Seq(Events), NEW d,
         d = Reframed(c, B, s),
         \A b \in DOMAIN c.blocks : b \in DOMAIN B /\ B[b].kind = c.blocks[b].kind
  PROVE  /\ d \in Contexts /\ Blocked(d) /\ Kept(c, d) /\ KindsKept(c, d)
         /\ d.blocks = B /\ d.sent = s /\ d.textBlock = c.textBlock
<1>1. d.blocks = B /\ d.sent = s /\ d.textBlock = c.textBlock /\ Kept(c, d)
  BY DEF Contexts, Kept, Reframed
<1>2. d \in Contexts
  BY DEF Contexts, Reframed
<1>3. KindsKept(c, d)
  BY <1>1 DEF KindsKept
<1>4. Blocked(d)
  BY <1>1, <1>3 DEF Blocked, OfKind, KindsKept, Kept
<1> QED BY <1>1, <1>2, <1>3, <1>4

LEMMA ReframeSays ==
  ASSUME NEW c, c \in Contexts, Blocked(c), Placed(c),
         NEW B \in Seq(BlockStates), NEW e \in Events, e.event # "block_delta", NEW d,
         d = Reframed(c, B, Append(c.sent, e)),
         \A b \in DOMAIN c.blocks : b \in DOMAIN B /\ B[b].kind = c.blocks[b].kind
  PROVE  /\ d \in Contexts /\ Blocked(d) /\ Kept(c, d) /\ KindsKept(c, d) /\ Placed(d)
         /\ d.blocks = B /\ d.textBlock = c.textBlock /\ d.sent = Append(c.sent, e)
         /\ Says(c, d, <<>>)
<1>1. c.sent \in Seq(Events) /\ Append(c.sent, e) \in Seq(Events)
  BY DEF Contexts
<1>2. /\ d \in Contexts /\ Blocked(d) /\ Kept(c, d) /\ KindsKept(c, d)
      /\ d.blocks = B /\ d.sent = Append(c.sent, e) /\ d.textBlock = c.textBlock
  <2> DEFINE s == Append(c.sent, e)
  <2>1. s \in Seq(Events) /\ d = Reframed(c, B, s)
    BY <1>1
  <2> HIDE DEF s
  <2>2. /\ d \in Contexts /\ Blocked(d) /\ Kept(c, d) /\ KindsKept(c, d)
        /\ d.blocks = B /\ d.sent = s /\ d.textBlock = c.textBlock
    BY <2>1, Reframe
  <2> QED BY <2>2 DEF s
<1>3. Placed(d)
  <2> SUFFICES ASSUME NEW i \in DOMAIN d.sent, d.sent[i].event = "block_delta"
               PROVE  d.sent[i].block \in DOMAIN d.blocks
    BY DEF Placed
  <2>1. i # Len(c.sent) + 1
    BY <1>1, <1>2
  <2>2. i \in DOMAIN c.sent /\ d.sent[i] = c.sent[i]
    BY <1>1, <1>2, <2>1
  <2> QED BY <2>2, <1>2 DEF Placed
<1>4. ASSUME NEW kinds PROVE SentText(d, kinds) = SentText(c, kinds)
  <2> DEFINE f == Send(c, e)
  <2>1. f.blocks = c.blocks /\ f.sent = Append(c.sent, e)
    BY SendFacts
  <2>2. SentText(f, kinds) = SentText(c, kinds) \o <<>>
    BY SentTextSend
  <2> HIDE DEF f
  <2>3. SentText(c, kinds) \in Texts
    BY <1>1, SaidType
  <2>4. SentText(f, kinds) = SentText(c, kinds)
    BY <2>2, <2>3, ConcatEmptySeq DEF Texts
  <2>5. Placed(f)
    <3> SUFFICES ASSUME NEW i \in DOMAIN f.sent, f.sent[i].event = "block_delta"
                 PROVE  f.sent[i].block \in DOMAIN f.blocks
      BY DEF Placed
    <3>1. i # Len(c.sent) + 1
      BY <1>1, <2>1
    <3>2. i \in DOMAIN c.sent /\ f.sent[i] = c.sent[i]
      BY <1>1, <2>1, <3>1
    <3> QED BY <3>2, <2>1 DEF Placed
  <2>6. SentText(d, kinds) = SentText(f, kinds)
    <3>1. f.sent \in Seq(Events) /\ d.sent = f.sent
      BY <1>1, <1>2, <2>1
    <3>2. KindsKept(f, d)
      BY <1>2, <2>1 DEF KindsKept
    <3> QED BY <3>1, <3>2, <2>5, SentTextKinds
  <2> QED BY <2>4, <2>6
<1>5. Says(c, d, <<>>)
  BY <1>1, <1>4, SaysNothing
<1> QED BY <1>2, <1>3, <1>5

-----------------------------------------------------------------------------
(* One event at a time.                                                      *)
Content(O, C) == [phase |-> "content", open |-> O, closed |-> C]

LEMMA ObserveStart ==
  ASSUME NEW O, NEW C, NEW b, b \notin O \cup C
  PROVE  Observe(Content(O, C), [event |-> "block_start", block |-> b]) = Content(O \cup {b}, C)
BY DEF Content, Observe

LEMMA ObserveStop ==
  ASSUME NEW O, NEW C, NEW b, b \in O
  PROVE  Observe(Content(O, C), [event |-> "block_stop", block |-> b])
           = Content(O \ {b}, C \cup {b})
BY DEF Content, Observe

LEMMA ObserveDelta ==
  ASSUME NEW O, NEW C, NEW b, b \in O, NEW text
  PROVE  Observe(Content(O, C), [event |-> "block_delta", block |-> b, text |-> text])
           = Content(O, C)
BY DEF Content, Observe

LEMMA BlockFacts ==
  ASSUME NEW c, Core(c)
  PROVE  /\ c.sent \in Seq(Events) /\ c.blocks \in Seq(BlockStates)
         /\ Len(c.blocks) \in Nat /\ DOMAIN c.blocks = 1 .. Len(c.blocks)
         /\ \A b \in DOMAIN c.blocks : c.blocks[b] \in BlockStates
         /\ Observed(c.sent) = Content(Opened(c), (DOMAIN c.blocks) \ Opened(c))
<1>1. c.sent \in Seq(Events) /\ c.blocks \in Seq(BlockStates)
  BY DEF Core, Contexts
<1> QED BY <1>1 DEF Core, Watched, Content

LEMMA ObserveBlock ==
  ASSUME NEW c, Core(c), NEW e \in Events, NEW d, d.sent = Append(c.sent, e)
  PROVE  Observed(d.sent) = Observe(Content(Opened(c), (DOMAIN c.blocks) \ Opened(c)), e)
<1>1. c.sent \in Seq(Events)
  BY BlockFacts
<1>2. Observed(d.sent) = Observe(Observed(c.sent), e)
  BY <1>1, ObservedAppend
<1> QED BY <1>2, BlockFacts

(* A block is changed, and no other.                                           *)
BlockSet(c, d, b, block) ==
  /\ Len(d.blocks) = Len(c.blocks) /\ DOMAIN d.blocks = DOMAIN c.blocks
  /\ \A x \in DOMAIN c.blocks : d.blocks[x] = IF x = b THEN block ELSE c.blocks[x]

LEMMA StopOpenBlock ==
  ASSUME NEW c, Core(c), NEW b \in Nat, IsOpen(c, b), NEW d, d = StopBlock(c, b)
  PROVE  /\ Becomes(c, d, <<>>) /\ d.textBlock = c.textBlock
         /\ BlockSet(c, d, b, [kind |-> c.blocks[b].kind, open |-> FALSE])
         /\ d.sent = Append(c.sent, [event |-> "block_stop", block |-> b])
         /\ d = Reframed(c, d.blocks, d.sent)
<1> DEFINE e == [event |-> "block_stop", block |-> b]
           x == [kind |-> c.blocks[b].kind, open |-> FALSE]
           B == [c.blocks EXCEPT ![b].open = FALSE]
<1>1. c \in Contexts /\ Blocked(c) /\ Placed(c)
  BY DEF Core
<1>2. b \in DOMAIN c.blocks /\ c.blocks[b].open /\ b \in 1 .. Len(c.blocks)
  BY BlockFacts DEF IsOpen
<1>3. x \in BlockStates /\ x.kind = c.blocks[b].kind /\ ~x.open
      /\ [c.blocks[b] EXCEPT !.open = FALSE] = x
  <2> DEFINE y == c.blocks[b]
  <2>1. y \in BlockStates
    BY <1>2, BlockFacts
  <2> HIDE DEF y
  <2>2. y.kind \in Kinds /\ [y EXCEPT !.open = FALSE] = [kind |-> y.kind, open |-> FALSE]
    <3> DEFINE z == [y EXCEPT !.open = FALSE]
               w == [kind |-> y.kind, open |-> FALSE]
    <3>1. z \in BlockStates /\ z.kind = y.kind /\ ~z.open
      BY <2>1 DEF BlockStates
    <3>2. y.kind \in Kinds /\ w \in BlockStates /\ w.kind = y.kind /\ ~w.open
      BY <2>1 DEF BlockStates
    <3> HIDE DEF z, w
    <3>3. z = w
      BY <3>1, <3>2 DEF BlockStates
    <3> QED BY <3>2, <3>3 DEF z, w
  <2> QED BY <2>2 DEF BlockStates, y
<1>4. B = [c.blocks EXCEPT ![b] = x]
  BY <1>3
<1>5. e \in Events /\ e.event # "block_delta"
  BY EventTypes
<1>6. d = Reframed(c, B, Append(c.sent, e))
  BY <1>1 DEF StopBlock, Send, Reframed, Contexts
<1> HIDE DEF B, e, x
<1>7. /\ B \in Seq(BlockStates) /\ Len(B) = Len(c.blocks)
      /\ \A i \in 1 .. Len(c.blocks) : B[i] = IF i = b THEN x ELSE c.blocks[i]
  <2> DEFINE s == c.blocks
  <2>1. s \in Seq(BlockStates) /\ b \in 1 .. Len(s) /\ B = [s EXCEPT ![b] = x]
    BY <1>2, <1>4, BlockFacts
  <2> HIDE DEF s
  <2>2. /\ B \in Seq(BlockStates) /\ Len(B) = Len(s)
        /\ \A i \in 1 .. Len(s) : B[i] = IF i = b THEN x ELSE s[i]
    BY <2>1, <1>3, ExceptSeq
  <2> QED BY <2>2 DEF s
<1>8. DOMAIN B = DOMAIN c.blocks /\ DOMAIN c.blocks = 1 .. Len(c.blocks)
  BY <1>7, BlockFacts
<1>9. \A i \in DOMAIN c.blocks : i \in DOMAIN B /\ B[i].kind = c.blocks[i].kind
  BY <1>3, <1>7, <1>8
<1>10. /\ d \in Contexts /\ Blocked(d) /\ Kept(c, d) /\ KindsKept(c, d) /\ Placed(d)
       /\ d.blocks = B /\ d.textBlock = c.textBlock /\ d.sent = Append(c.sent, e)
       /\ Says(c, d, <<>>)
  BY <1>1, <1>5, <1>6, <1>7, <1>9, ReframeSays
<1>11. Observed(d.sent) = Observe(Content(Opened(c), (DOMAIN c.blocks) \ Opened(c)), e)
  BY <1>5, <1>10, ObserveBlock
<1>12. b \in Opened(c)
  BY <1>2 DEF Opened
<1>13. Observe(Content(Opened(c), (DOMAIN c.blocks) \ Opened(c)), e)
         = Content(Opened(c) \ {b}, ((DOMAIN c.blocks) \ Opened(c)) \cup {b})
  <2> DEFINE O == Opened(c)
             C == (DOMAIN c.blocks) \ Opened(c)
  <2>1. b \in O
    BY <1>12
  <2> HIDE DEF O, C
  <2>2. Observe(Content(O, C), e) = Content(O \ {b}, C \cup {b})
    BY <2>1, ObserveStop DEF e
  <2> QED BY <2>2 DEF O, C
<1>14. Opened(d) = Opened(c) \ {b}
  BY <1>3, <1>7, <1>8, <1>10 DEF Opened
<1>15. (DOMAIN d.blocks) \ Opened(d) = ((DOMAIN c.blocks) \ Opened(c)) \cup {b}
  BY <1>2, <1>8, <1>10, <1>14
<1>16. Watched(d)
  BY <1>11, <1>13, <1>14, <1>15 DEF Watched, Content
<1>17. BlockSet(c, d, b, x)
  BY <1>7, <1>8, <1>10 DEF BlockSet
<1>18. d = Reframed(c, d.blocks, d.sent)
  BY <1>6, <1>10
<1> QED BY <1>10, <1>16, <1>17, <1>18 DEF Becomes, Core, x, e

LEMMA BecomesItself ==
  ASSUME NEW c, Core(c)
  PROVE  Becomes(c, c, <<>>)
<1>1. Says(c, c, <<>>)
  BY BlockFacts, SaysNothing
<1> QED BY <1>1 DEF Becomes, Kept, KindsKept

LEMMA StopBlockFacts ==
  ASSUME NEW c, Core(c), NEW b \in Nat, NEW d, d = StopBlock(c, b)
  PROVE  /\ Becomes(c, d, <<>>) /\ d.textBlock = c.textBlock
         /\ Len(d.blocks) = Len(c.blocks) /\ DOMAIN d.blocks = DOMAIN c.blocks
         /\ \A x \in DOMAIN c.blocks : x # b => d.blocks[x] = c.blocks[x]
         /\ b \in DOMAIN c.blocks => ~d.blocks[b].open
<1>1. CASE ~IsOpen(c, b)
  <2>1. d = c
    BY <1>1 DEF StopBlock
  <2> QED BY <1>1, <2>1, BecomesItself DEF IsOpen
<1>2. CASE IsOpen(c, b)
  <2> DEFINE x == [kind |-> c.blocks[b].kind, open |-> FALSE]
  <2>1. /\ Becomes(c, d, <<>>) /\ d.textBlock = c.textBlock
        /\ BlockSet(c, d, b, x) /\ ~x.open
    BY <1>2, StopOpenBlock
  <2> HIDE DEF x
  <2> QED BY <2>1 DEF BlockSet
<1> QED BY <1>1, <1>2

BlockAdded(c, d, block) ==
  /\ Len(d.blocks) = Len(c.blocks) + 1
  /\ DOMAIN d.blocks = (DOMAIN c.blocks) \cup {Len(c.blocks) + 1}
  /\ \A x \in DOMAIN c.blocks : d.blocks[x] = c.blocks[x]
  /\ d.blocks[Len(c.blocks) + 1] = block

LEMMA OpenBlock ==
  ASSUME NEW c, Core(c), NEW x \in BlockStates, x.open, NEW d,
         d = Reframed(c, Append(c.blocks, x),
                      Append(c.sent, [event |-> "block_start", block |-> Len(c.blocks) + 1]))
  PROVE  Becomes(c, d, <<>>) /\ d.textBlock = c.textBlock /\ BlockAdded(c, d, x)
<1> DEFINE n == Len(c.blocks) + 1
           e == [event |-> "block_start", block |-> n]
           B == Append(c.blocks, x)
<1>1. c \in Contexts /\ Blocked(c) /\ Placed(c)
  BY DEF Core
<1>2. /\ c.blocks \in Seq(BlockStates) /\ Len(c.blocks) \in Nat
      /\ DOMAIN c.blocks = 1 .. Len(c.blocks)
  BY BlockFacts
<1>3. n \in Nat /\ n \notin DOMAIN c.blocks
  BY <1>2
<1>4. e \in Events /\ e.event # "block_delta"
  BY <1>3, EventTypes
<1>5. /\ B \in Seq(BlockStates) /\ Len(B) = n /\ B[n] = x
      /\ \A b \in 1 .. Len(c.blocks) : B[b] = c.blocks[b]
  BY <1>2, AppendProperties
<1>6. DOMAIN B = (DOMAIN c.blocks) \cup {n}
  <2>1. DOMAIN B = 1 .. n
    BY <1>5
  <2> HIDE DEF B
  <2> QED BY <1>2, <2>1
<1>7. d = Reframed(c, B, Append(c.sent, e))
  OBVIOUS
<1> HIDE DEF B, e
<1>8. \A b \in DOMAIN c.blocks : b \in DOMAIN B /\ B[b].kind = c.blocks[b].kind
  BY <1>2, <1>5, <1>6
<1>9. /\ d \in Contexts /\ Blocked(d) /\ Kept(c, d) /\ KindsKept(c, d) /\ Placed(d)
      /\ d.blocks = B /\ d.textBlock = c.textBlock /\ d.sent = Append(c.sent, e)
      /\ Says(c, d, <<>>)
  BY <1>1, <1>4, <1>5, <1>7, <1>8, ReframeSays
<1>10. Observed(d.sent) = Observe(Content(Opened(c), (DOMAIN c.blocks) \ Opened(c)), e)
  BY <1>4, <1>9, ObserveBlock
<1>11. BlockAdded(c, d, x)
  BY <1>2, <1>5, <1>6, <1>9 DEF BlockAdded
<1> HIDE DEF n
<1>12. Opened(c) \subseteq DOMAIN c.blocks
  BY DEF Opened
<1>13. Observe(Content(Opened(c), (DOMAIN c.blocks) \ Opened(c)), e)
         = Content(Opened(c) \cup {n}, (DOMAIN c.blocks) \ Opened(c))
  <2> DEFINE O == Opened(c)
             C == (DOMAIN c.blocks) \ Opened(c)
  <2>1. n \notin O \cup C
    BY <1>3, <1>12
  <2> HIDE DEF O, C
  <2>2. Observe(Content(O, C), e) = Content(O \cup {n}, C)
    BY <2>1, ObserveStart DEF e
  <2> QED BY <2>2 DEF O, C
<1>14. Opened(d) = Opened(c) \cup {n}
  <2>1. \A b \in DOMAIN c.blocks : d.blocks[b] = c.blocks[b]
    BY <1>2, <1>5, <1>9
  <2>2. d.blocks[n].open /\ DOMAIN d.blocks = (DOMAIN c.blocks) \cup {n}
    BY <1>5, <1>6, <1>9
  <2> QED BY <2>1, <2>2 DEF Opened
<1>15. (DOMAIN d.blocks) \ Opened(d) = (DOMAIN c.blocks) \ Opened(c)
  BY <1>3, <1>6, <1>9, <1>14
<1>16. Watched(d)
  BY <1>10, <1>13, <1>14, <1>15 DEF Watched, Content
<1> QED BY <1>9, <1>11, <1>16 DEF Becomes, Core

(* The stops of several blocks, one by one.                                   *)
Stops(o, k) == [i \in 1 .. k |-> [event |-> "block_stop", block |-> o[i]]]
Ended(c, blocks) == \A b \in DOMAIN c.blocks : c.blocks[b].open => b \notin blocks
StoppedUpTo(c, d, o, k) ==
  /\ Becomes(c, d, <<>>) /\ d.textBlock = c.textBlock
  /\ d = Reframed(c, d.blocks, d.sent)
  /\ d.sent = c.sent \o Stops(o, k)
  /\ DOMAIN d.blocks = DOMAIN c.blocks
  /\ \A b \in DOMAIN c.blocks :
       d.blocks[b] = IF \E i \in 1 .. k : o[i] = b
                     THEN [kind |-> c.blocks[b].kind, open |-> FALSE] ELSE c.blocks[b]

LEMMA StopsType ==
  ASSUME NEW n \in Nat, NEW o \in [1 .. n -> Nat], NEW k \in 0 .. n
  PROVE  Stops(o, k) \in Seq(Events) /\ Len(Stops(o, k)) = k
         /\ \A i \in 1 .. k : Stops(o, k)[i] = [event |-> "block_stop", block |-> o[i]]
<1>1. k \in Nat /\ \A i \in 1 .. k : i \in 1 .. n
  OBVIOUS
<1>2. Stops(o, k) \in [1 .. k -> Events]
  <2>1. \A i \in 1 .. k : [event |-> "block_stop", block |-> o[i]] \in Events
    BY <1>1, EventTypes
  <2> QED BY <2>1 DEF Stops
<1>3. Stops(o, k) \in Seq(Events) /\ Len(Stops(o, k)) = k
  BY <1>1, <1>2, FunctionIsSeq
<1> QED BY <1>3 DEF Stops

LEMMA StopsAppend ==
  ASSUME NEW s \in Seq(Events), NEW n \in Nat, NEW o \in [1 .. n -> Nat], NEW k \in 1 .. n
  PROVE  s \o Stops(o, k) = Append(s \o Stops(o, k - 1), [event |-> "block_stop", block |-> o[k]])
<1> DEFINE e == [event |-> "block_stop", block |-> o[k]]
           a == Stops(o, k - 1)
           b == Stops(o, k)
<1>1. /\ k - 1 \in Nat /\ k - 1 \in 0 .. n /\ k \in 0 .. n /\ k \in 1 .. k
      /\ \A i \in 1 .. k - 1 : i \in 1 .. k
      /\ \A i \in 1 .. k : i = k \/ i \in 1 .. k - 1
  OBVIOUS
<1>2. /\ a \in Seq(Events) /\ Len(a) = k - 1 /\ b \in Seq(Events) /\ Len(b) = k /\ e \in Events
      /\ b[k] = e /\ \A i \in 1 .. k - 1 : b[i] = a[i]
  <2>1. /\ b \in Seq(Events) /\ Len(b) = k
        /\ \A i \in 1 .. k : b[i] = [event |-> "block_stop", block |-> o[i]]
    BY <1>1, StopsType
  <2>2. /\ a \in Seq(Events) /\ Len(a) = k - 1
        /\ \A i \in 1 .. k - 1 : a[i] = [event |-> "block_stop", block |-> o[i]]
    BY <1>1, StopsType
  <2> HIDE DEF a, b
  <2> QED BY <1>1, <2>1, <2>2, EventTypes
<1> HIDE DEF a, b, e
<1>3. b = Append(a, e)
  <2> DEFINE h == Append(a, e)
  <2>1. h \in Seq(Events) /\ Len(h) = k /\ h[k] = e /\ \A i \in 1 .. k - 1 : h[i] = a[i]
    BY <1>2, AppendProperties
  <2> HIDE DEF h
  <2>2. \A i \in 1 .. k : h[i] = b[i]
    BY <1>1, <1>2, <2>1
  <2>3. h = b
    BY <1>2, <2>1, <2>2, SeqEqual
  <2> QED BY <2>3 DEF h
<1>4. Append(a, e) = a \o <<e>> /\ <<e>> \in Seq(Events)
  BY <1>2, AppendIsConcat
<1>5. s \o (a \o <<e>>) = (s \o a) \o <<e>>
  <2> DEFINE u == <<e>>
  <2>1. u \in Seq(Events) /\ a \in Seq(Events)
    BY <1>2, <1>4
  <2> HIDE DEF u
  <2>2. s \o (a \o u) = (s \o a) \o u
    BY <2>1, ConcatAssociative, SMTT(20)
  <2> QED BY <2>2 DEF u
<1>6. s \o a \in Seq(Events)
  BY <1>2, ConcatProperties
<1>7. Append(s \o a, e) = (s \o a) \o <<e>>
  BY <1>2, <1>6, AppendIsConcat
<1> QED BY <1>3, <1>4, <1>5, <1>7 DEF a, b, e

LEMMA ReframedTwice ==
  ASSUME NEW c \in Contexts, NEW d, NEW f,
         d = Reframed(c, d.blocks, d.sent), f = Reframed(d, f.blocks, f.sent)
  PROVE  f = Reframed(c, f.blocks, f.sent)
<1>1. \A B, s, x, y : Reframed(Reframed(c, B, s), x, y) = Reframed(c, x, y)
  BY DEF Reframed, Contexts
<1> QED BY <1>1

LEMMA StopUpTo ==
  ASSUME NEW c, Core(c), NEW blocks \in SUBSET Opened(c),
         NEW n \in Nat, NEW o, Lists(o, n, blocks)
  PROVE  \E d : StoppedUpTo(c, d, o, n)
<1>1. /\ o \in [1 .. n -> Nat] /\ c.sent \in Seq(Events)
      /\ \A i \in 1 .. n : o[i] \in DOMAIN c.blocks /\ c.blocks[o[i]].open
      /\ \A i \in 1 .. n, j \in 1 .. n : o[i] = o[j] => i = j
  <2>1. DOMAIN c.blocks = 1 .. Len(c.blocks) /\ Len(c.blocks) \in Nat /\ c.sent \in Seq(Events)
    BY BlockFacts
  <2>2. Opened(c) \in SUBSET Nat
    BY <2>1 DEF Opened
  <2>3. o \in [1 .. n -> blocks] /\ \A i \in 1 .. n, j \in 1 .. n : o[i] = o[j] => i = j
    BY DEF Lists
  <2>4. \A i \in 1 .. n : o[i] \in Opened(c)
    BY <2>3
  <2>5. o \in [1 .. n -> Nat]
    BY <2>2, <2>3
  <2> QED BY <2>1, <2>3, <2>4, <2>5 DEF Opened
<1> DEFINE T == {k \in 0 .. n : \E d : StoppedUpTo(c, d, o, k)}
<1>2. 0 \in T
  <2>1. Stops(o, 0) = <<>>
    BY DEF Stops
  <2>2. c.sent \o <<>> = c.sent
    BY <1>1, ConcatEmptySeq
  <2>3. c = Reframed(c, c.blocks, c.sent)
    BY DEF Reframed, Core, Contexts
  <2>4. ~\E i \in 1 .. 0 : TRUE
    OBVIOUS
  <2>5. \A b \in DOMAIN c.blocks : ~\E i \in 1 .. 0 : o[i] = b
    BY <2>4
  <2>6. Becomes(c, c, <<>>) /\ c.sent = c.sent \o Stops(o, 0)
    BY <2>1, <2>2, BecomesItself
  <2> HIDE DEF T
  <2>7. StoppedUpTo(c, c, o, 0)
    BY <2>3, <2>5, <2>6 DEF StoppedUpTo
  <2> QED BY <2>7 DEF T
<1>3. ASSUME NEW k \in 1 .. n, k - 1 \in T PROVE k \in T
  <2>1. PICK d : StoppedUpTo(c, d, o, k - 1)
    BY <1>3
  <2> DEFINE b == o[k]
             f == StopBlock(d, b)
  <2>2. b \in Nat /\ b \in DOMAIN c.blocks /\ c.blocks[b].open /\ k - 1 \in 0 .. n
        /\ ~\E i \in 1 .. k - 1 : o[i] = b
    BY <1>1
  <2>3. Core(d) /\ Becomes(c, d, <<>>) /\ d.textBlock = c.textBlock
        /\ d = Reframed(c, d.blocks, d.sent) /\ d.sent = c.sent \o Stops(o, k - 1)
        /\ DOMAIN d.blocks = DOMAIN c.blocks
    BY <2>1 DEF StoppedUpTo, Becomes
  <2>4. d.blocks[b] = c.blocks[b]
    BY <2>1, <2>2 DEF StoppedUpTo
  <2>5. IsOpen(d, b)
    BY <2>2, <2>3, <2>4 DEF IsOpen
  <2>6. f = StopBlock(d, b)
    OBVIOUS
  <2> HIDE DEF f, b
  <2>7. /\ Becomes(d, f, <<>>) /\ f.textBlock = d.textBlock
        /\ BlockSet(d, f, b, [kind |-> d.blocks[b].kind, open |-> FALSE])
        /\ f.sent = Append(d.sent, [event |-> "block_stop", block |-> b])
        /\ f = Reframed(d, f.blocks, f.sent)
    BY <2>2, <2>3, <2>5, <2>6, StopOpenBlock, ZenonT(40)
  <2>8. Becomes(c, f, <<>>)
    <3>1. <<>> \in Texts /\ <<>> \o <<>> = <<>>
      BY ConcatEmptySeq DEF Texts
    <3>2. Becomes(c, f, <<>> \o <<>>)
      BY <2>3, <2>7, <3>1, BecomesTransitive
    <3> QED BY <3>1, <3>2
  <2>9. f = Reframed(c, f.blocks, f.sent)
    BY <2>3, <2>7, ReframedTwice DEF Core
  <2>10. f.sent = c.sent \o Stops(o, k)
    <3>1. c.sent \o Stops(o, k) = Append(c.sent \o Stops(o, k - 1), [event |-> "block_stop", block |-> o[k]])
      BY <1>1, StopsAppend
    <3> QED BY <2>3, <2>7, <3>1 DEF b
  <2>11. ASSUME NEW x \in DOMAIN c.blocks
         PROVE  f.blocks[x] = IF \E i \in 1 .. k : o[i] = x
                              THEN [kind |-> c.blocks[x].kind, open |-> FALSE] ELSE c.blocks[x]
    <3>1. f.blocks[x] = IF x = b THEN [kind |-> d.blocks[b].kind, open |-> FALSE] ELSE d.blocks[x]
      BY <2>3, <2>7 DEF BlockSet
    <3>2. CASE x = b
      <4>1. \E i \in 1 .. k : o[i] = x
        BY <3>2 DEF b
      <4> QED BY <2>4, <3>1, <3>2, <4>1
    <3>3. CASE x # b
      <4>1. (\E i \in 1 .. k : o[i] = x) <=> (\E i \in 1 .. k - 1 : o[i] = x)
        BY <3>3 DEF b
      <4>2. d.blocks[x] = IF \E i \in 1 .. k - 1 : o[i] = x
                          THEN [kind |-> c.blocks[x].kind, open |-> FALSE] ELSE c.blocks[x]
        BY <2>1 DEF StoppedUpTo
      <4> QED BY <3>1, <3>3, <4>1, <4>2
    <3> QED BY <3>2, <3>3
  <2>12. DOMAIN f.blocks = DOMAIN c.blocks
    BY <2>3, <2>7 DEF BlockSet
  <2>13. StoppedUpTo(c, f, o, k)
    BY <2>3, <2>7, <2>8, <2>9, <2>10, <2>11, <2>12 DEF StoppedUpTo
  <2> QED BY <2>13
<1> HIDE DEF T
<1>4. 0 .. n \subseteq T
  BY <1>2, <1>3, InductionUpTo
<1>5. n \in T
  BY <1>4
<1> QED BY <1>5 DEF T

LEMMA StopAllFacts ==
  ASSUME NEW c, Core(c), NEW blocks \in SUBSET Opened(c), NEW d, d = StopAll(c, blocks)
  PROVE  /\ Becomes(c, d, <<>>) /\ d.textBlock = c.textBlock
         /\ DOMAIN d.blocks = DOMAIN c.blocks
         /\ \A b \in DOMAIN c.blocks :
              d.blocks[b] = IF b \in blocks THEN [kind |-> c.blocks[b].kind, open |-> FALSE]
                                            ELSE c.blocks[b]
<1> DEFINE o == SetToSeq(blocks)
           B == [b \in DOMAIN c.blocks |->
                   IF b \in blocks THEN [c.blocks[b] EXCEPT !.open = FALSE] ELSE c.blocks[b]]
           s == c.sent \o [i \in DOMAIN o |-> [event |-> "block_stop", block |-> o[i]]]
<1>1. IsFiniteSet(blocks)
  <2> DEFINE m == Len(c.blocks)
  <2>1. blocks \in SUBSET (1 .. m) /\ m \in Nat
    BY BlockFacts DEF Opened
  <2> HIDE DEF m
  <2>2. IsFiniteSet(1 .. m)
    BY <2>1, FS_Interval
  <2> QED BY <2>1, <2>2, FS_Subset
<1>2. PICK n \in Nat : Lists(o, n, blocks)
  BY <1>1, SetToSeqLists
<1>3. d = Reframed(c, B, s)
  BY DEF StopAll, Reframed, Core, Contexts
<1> HIDE DEF o
<1>4. PICK f : StoppedUpTo(c, f, o, n)
  BY <1>2, StopUpTo
<1>5. DOMAIN o = 1 .. n /\ \A b : (\E i \in 1 .. n : o[i] = b) <=> b \in blocks
  BY <1>2 DEF Lists
<1>6. s = f.sent
  BY <1>4, <1>5 DEF StoppedUpTo, Stops
<1>7. \A b \in DOMAIN c.blocks :
        [c.blocks[b] EXCEPT !.open = FALSE] = [kind |-> c.blocks[b].kind, open |-> FALSE]
  <2> TAKE b \in DOMAIN c.blocks
  <2> DEFINE y == c.blocks[b]
  <2>1. y \in BlockStates
    BY BlockFacts
  <2> HIDE DEF y
  <2>2. [y EXCEPT !.open = FALSE] = [kind |-> y.kind, open |-> FALSE]
    <3> DEFINE z == [y EXCEPT !.open = FALSE]
               w == [kind |-> y.kind, open |-> FALSE]
    <3>1. z \in BlockStates /\ z.kind = y.kind /\ ~z.open
      BY <2>1 DEF BlockStates
    <3>2. w \in BlockStates /\ w.kind = y.kind /\ ~w.open
      BY <2>1 DEF BlockStates
    <3> HIDE DEF z, w
    <3>3. z = w
      BY <3>1, <3>2 DEF BlockStates
    <3> QED BY <3>3 DEF z, w
  <2> QED BY <2>2 DEF y
<1>8. \A b \in DOMAIN c.blocks : f.blocks[b] = B[b]
  BY <1>4, <1>5, <1>7 DEF StoppedUpTo
<1>9. f.blocks = B
  <2>1. Core(f)
    BY <1>4 DEF StoppedUpTo, Becomes
  <2>2. f.blocks \in Seq(BlockStates)
    BY <2>1, BlockFacts
  <2>3. DOMAIN f.blocks = DOMAIN c.blocks
    BY <1>4 DEF StoppedUpTo
  <2>4. f.blocks = [b \in DOMAIN f.blocks |-> f.blocks[b]]
    BY <2>2
  <2> DEFINE D == DOMAIN c.blocks
  <2>5. \A b \in D : f.blocks[b] = B[b]
    BY <1>8
  <2>6. f.blocks = [b \in D |-> f.blocks[b]] /\ B = [b \in D |-> B[b]]
    BY <2>3, <2>4
  <2> HIDE DEF D, B
  <2> QED BY <2>5, <2>6
<1>10. d = f
  <2>1. f = Reframed(c, f.blocks, f.sent)
    BY <1>4 DEF StoppedUpTo
  <2> HIDE DEF B, s
  <2> QED BY <1>3, <1>6, <1>9, <2>1
<1> HIDE DEF B, s
<1> QED BY <1>4, <1>5, <1>10 DEF StoppedUpTo

(* A new block; for a tool the open text is stopped first.                    *)
Started(c, d, kind) ==
  /\ Becomes(c, d, <<>>) /\ d.textBlock = c.textBlock
  /\ Len(d.blocks) = Len(c.blocks) + 1
  /\ DOMAIN d.blocks = (DOMAIN c.blocks) \cup {Len(c.blocks) + 1}
  /\ d.blocks[Len(c.blocks) + 1] = [kind |-> kind, open |-> TRUE]
  /\ \A b \in DOMAIN c.blocks :
       c.blocks[b].kind # "text" \/ kind # "tool_use" => d.blocks[b] = c.blocks[b]

LEMMA StartBlockFacts ==
  ASSUME NEW c, Core(c), NEW kind \in {"text", "thinking", "tool_use"},
         NEW d, d = StartBlock(c, kind)
  PROVE  Started(c, d, kind)
<1> DEFINE f == IF kind = "tool_use" THEN StopAll(c, OpenBlocks(c, {"text"})) ELSE c
           x == [kind |-> kind, open |-> TRUE]
<1>1. /\ Becomes(c, f, <<>>) /\ f.textBlock = c.textBlock
      /\ Len(f.blocks) = Len(c.blocks) /\ DOMAIN f.blocks = DOMAIN c.blocks
      /\ \A b \in DOMAIN c.blocks :
           c.blocks[b].kind # "text" \/ kind # "tool_use" => f.blocks[b] = c.blocks[b]
  <2>1. CASE kind # "tool_use"
    BY <2>1, BecomesItself
  <2>2. CASE kind = "tool_use"
    <3> DEFINE o == OpenBlocks(c, {"text"})
    <3>1. o \in SUBSET Opened(c) /\ \A b \in o : c.blocks[b].kind = "text"
      BY DEF OpenBlocks, Opened
    <3>2. f = StopAll(c, o)
      BY <2>2
    <3> HIDE DEF f, o
    <3>3. /\ Becomes(c, f, <<>>) /\ f.textBlock = c.textBlock
          /\ DOMAIN f.blocks = DOMAIN c.blocks
          /\ \A b \in DOMAIN c.blocks :
               f.blocks[b] = IF b \in o THEN [kind |-> c.blocks[b].kind, open |-> FALSE]
                                        ELSE c.blocks[b]
      BY <3>1, <3>2, StopAllFacts
    <3>4. Len(f.blocks) = Len(c.blocks)
      <4>1. Core(f)
        BY <3>3 DEF Becomes
      <4>2. 1 .. Len(f.blocks) = 1 .. Len(c.blocks) /\ Len(f.blocks) \in Nat /\ Len(c.blocks) \in Nat
        BY <3>3, <4>1, BlockFacts
      <4> QED BY <4>2
    <3> QED BY <2>2, <3>1, <3>3, <3>4
  <2> QED BY <2>1, <2>2
<1>2. d = Send([f EXCEPT !.blocks = Append(@, x)],
               [event |-> "block_start", block |-> Len(f.blocks) + 1])
  BY DEF StartBlock
<1>3. x \in BlockStates /\ x.open
  BY DEF BlockStates, Kinds
<1> HIDE DEF f, x
<1>4. Core(f)
  BY <1>1 DEF Becomes
<1>5. d = Reframed(f, Append(f.blocks, x),
                   Append(f.sent, [event |-> "block_start", block |-> Len(f.blocks) + 1]))
  BY <1>2, <1>4 DEF Send, Reframed, Core, Contexts
<1>6. Becomes(f, d, <<>>) /\ d.textBlock = f.textBlock /\ BlockAdded(f, d, x)
  BY <1>3, <1>4, <1>5, OpenBlock
<1>7. Becomes(c, d, <<>>)
  <2>1. <<>> \in Texts /\ <<>> \o <<>> = <<>>
    BY ConcatEmptySeq DEF Texts
  <2>2. Becomes(c, d, <<>> \o <<>>)
    BY <1>1, <1>6, <2>1, BecomesTransitive
  <2> QED BY <2>1, <2>2
<1> QED BY <1>1, <1>6, <1>7 DEF Started, BlockAdded, x

-----------------------------------------------------------------------------
(* A delta.                                                                   *)
Extends(c, d, kind, text) ==
  \A kinds : SentText(d, kinds) = SentText(c, kinds) \o (IF kind \in kinds THEN text ELSE <<>>)

LEMMA DeltaFacts ==
  ASSUME NEW c, Core(c), NEW b \in DOMAIN c.blocks, c.blocks[b].open, NEW text \in Texts,
         NEW d, d = Send(c, [event |-> "block_delta", block |-> b, text |-> text])
  PROVE  /\ Core(d) /\ Kept(c, d) /\ KindsKept(c, d)
         /\ d.textBlock = c.textBlock /\ d.blocks = c.blocks
         /\ Extends(c, d, c.blocks[b].kind, text)
<1> DEFINE e == [event |-> "block_delta", block |-> b, text |-> text]
<1>1. c \in Contexts /\ Blocked(c) /\ Placed(c)
  BY DEF Core
<1>2. b \in Nat /\ c.sent \in Seq(Events) /\ b \in Opened(c)
  <2>1. c.sent \in Seq(Events) /\ DOMAIN c.blocks = 1 .. Len(c.blocks) /\ Len(c.blocks) \in Nat
    BY BlockFacts
  <2> QED BY <2>1 DEF Opened
<1>3. e \in Events
  BY <1>2, EventTypes
<1>4. e.event = "block_delta" /\ e.block = b /\ e.text = text
  OBVIOUS
<1>5. d = Send(c, e)
  OBVIOUS
<1> HIDE DEF e
<1>6. d \in Contexts /\ d.blocks = c.blocks /\ d.sent = Append(c.sent, e)
      /\ d = [c EXCEPT !.sent = Append(c.sent, e)]
  BY <1>1, <1>3, <1>5, SendFacts, ZenonT(40)
<1>7. Kept(c, d) /\ d.textBlock = c.textBlock
  BY <1>1, <1>6 DEF Kept, Contexts
<1>8. KindsKept(c, d)
  BY <1>6 DEF KindsKept
<1>9. Blocked(d)
  BY <1>1, <1>6, <1>7 DEF Blocked, OfKind, Kept
<1>10. Placed(d)
  <2> SUFFICES ASSUME NEW i \in DOMAIN d.sent, d.sent[i].event = "block_delta"
               PROVE  d.sent[i].block \in DOMAIN d.blocks
    BY DEF Placed
  <2>1. CASE i = Len(c.sent) + 1
    BY <1>2, <1>3, <1>4, <1>6, <2>1
  <2>2. CASE i # Len(c.sent) + 1
    <3>1. i \in DOMAIN c.sent /\ d.sent[i] = c.sent[i]
      BY <1>2, <1>3, <1>6, <2>2
    <3> QED BY <3>1, <1>1, <1>6 DEF Placed
  <2> QED BY <2>1, <2>2
<1>11. Observed(d.sent) = Observe(Content(Opened(c), (DOMAIN c.blocks) \ Opened(c)), e)
  BY <1>3, <1>6, ObserveBlock
<1>12. Observe(Content(Opened(c), (DOMAIN c.blocks) \ Opened(c)), e)
         = Content(Opened(c), (DOMAIN c.blocks) \ Opened(c))
  <2> DEFINE O == Opened(c)
             C == (DOMAIN c.blocks) \ Opened(c)
  <2>1. b \in O
    BY <1>2
  <2> HIDE DEF O, C
  <2>2. Observe(Content(O, C), e) = Content(O, C)
    BY <2>1, ObserveDelta DEF e
  <2> QED BY <2>2 DEF O, C
<1>13. Watched(d)
  BY <1>6, <1>11, <1>12 DEF Watched, Content, Opened
<1>14. ASSUME NEW kinds
       PROVE  SentText(d, kinds) =
                SentText(c, kinds) \o (IF c.blocks[b].kind \in kinds THEN text ELSE <<>>)
  <2>1. SentText(Send(c, e), kinds) =
          SentText(c, kinds) \o
            (IF e.event = "block_delta" /\ c.blocks[e.block].kind \in kinds THEN e.text ELSE <<>>)
    BY <1>1, <1>3, SentTextSend
  <2> QED BY <2>1, <1>4, <1>5
<1> QED BY <1>6, <1>7, <1>8, <1>9, <1>10, <1>13, <1>14 DEF Core, Extends

(* Text of an answer or of its thinking is shown...                           *)
LEMMA ShownDelta ==
  ASSUME NEW c, Core(c), NEW b \in DOMAIN c.blocks, c.blocks[b].open, NEW text \in Texts,
         c.blocks[b].kind \in {"text", "thinking"},
         NEW d, d = Send(c, [event |-> "block_delta", block |-> b, text |-> text])
  PROVE  Becomes(c, d, text) /\ d.textBlock = c.textBlock /\ d.blocks = c.blocks
<1> DEFINE shown == {"text", "thinking"}
<1>1. /\ Core(d) /\ Kept(c, d) /\ KindsKept(c, d)
      /\ d.textBlock = c.textBlock /\ d.blocks = c.blocks
      /\ Extends(c, d, c.blocks[b].kind, text)
  BY DeltaFacts
<1>2. c.sent \in Seq(Events)
  BY BlockFacts
<1>3. \A kinds : SentText(c, kinds) \in Texts
  BY <1>2, SaidType
<1>4. SentText(d, shown) = SentText(c, shown) \o text
  BY <1>1 DEF Extends
<1>5. Shown(d) = Shown(c) \o Visible(text)
  <2> DEFINE s == SentText(c, shown)
  <2>1. s \in Texts /\ text \in Texts
    BY <1>3
  <2>2. SentText(d, shown) = s \o text
    BY <1>4
  <2>3. Shown(d) = Visible(SentText(d, shown)) /\ Shown(c) = Visible(s)
    BY DEF Shown
  <2> HIDE DEF s
  <2>4. Visible(s \o text) = Visible(s) \o Visible(text)
    BY <2>1, VisibleFacts
  <2> QED BY <2>2, <2>3, <2>4
<1>6. c.blocks[b].kind \notin {"tool_use"}
  OBVIOUS
<1>7. SentText(d, {"tool_use"}) = SentText(c, {"tool_use"}) \o <<>>
  BY <1>1, <1>6 DEF Extends
<1>8. SentText(c, {"tool_use"}) \o <<>> = SentText(c, {"tool_use"})
  BY <1>3, ConcatEmptySeq DEF Texts
<1>9. \A t \in Tool : Given(d, t) = Given(c, t)
  BY <1>7, <1>8 DEF Given
<1> QED BY <1>1, <1>5, <1>9 DEF Becomes, Says

(* ...and the input of a tool is given to it.                                 *)
GivenOne(c, d, t) ==
  \A u \in Tool : Given(d, u) = IF u = t THEN Given(c, u) + 1 ELSE Given(c, u)

LEMMA GivenDelta ==
  ASSUME NEW c, Core(c), NEW b \in DOMAIN c.blocks, c.blocks[b].open, NEW t \in Tool,
         c.blocks[b].kind = "tool_use",
         NEW d, d = Send(c, [event |-> "block_delta", block |-> b, text |-> <<t>>])
  PROVE  /\ Core(d) /\ Kept(c, d) /\ KindsKept(c, d)
         /\ d.textBlock = c.textBlock /\ d.blocks = c.blocks
         /\ Shown(d) = Shown(c) /\ GivenOne(c, d, t)
<1> DEFINE text == <<t>>
           shown == {"text", "thinking"}
<1>1. text \in Texts /\ text = <<t>>
  BY DEF Texts, Char
<1>2. d = Send(c, [event |-> "block_delta", block |-> b, text |-> text])
  OBVIOUS
<1> HIDE DEF text
<1>3. /\ Core(d) /\ Kept(c, d) /\ KindsKept(c, d)
      /\ d.textBlock = c.textBlock /\ d.blocks = c.blocks
      /\ Extends(c, d, c.blocks[b].kind, text)
  BY <1>1, <1>2, DeltaFacts
<1>4. c.sent \in Seq(Events)
  BY BlockFacts
<1>5. \A kinds : SentText(c, kinds) \in Texts
  BY <1>4, SaidType
<1>6. SentText(d, shown) = SentText(c, shown) \o <<>>
  BY <1>3 DEF Extends
<1>7. SentText(c, shown) \o <<>> = SentText(c, shown)
  BY <1>5, ConcatEmptySeq DEF Texts
<1>8. Shown(d) = Shown(c)
  BY <1>6, <1>7 DEF Shown
<1> DEFINE s == SentText(c, {"tool_use"})
<1>9. SentText(d, {"tool_use"}) = s \o text
  BY <1>3 DEF Extends
<1>10. s \in Seq(Char) /\ text \in Seq(Char)
  BY <1>1, <1>5 DEF Texts
<1> HIDE DEF s
<1>11. ASSUME NEW u \in Tool
       PROVE  Given(d, u) = IF u = t THEN Given(c, u) + 1 ELSE Given(c, u)
  <2> DEFINE w == Within(s, {u})
             v == Within(text, {u})
  <2>1. Within(s \o text, {u}) = w \o v
    BY <1>10, WithinConcat
  <2>2. v = IF u = t THEN <<t>> ELSE <<>>
    <3>1. v = IF t \in {u} THEN <<t>> ELSE <<>>
      BY <1>1, WithinSingle
    <3> QED BY <3>1
  <2>3. w \in Seq(Char) /\ v \in Seq(Char)
    BY <1>10, WithinType
  <2> HIDE DEF w, v
  <2>4. Len(w \o v) = Len(w) + Len(v)
    BY <2>3, ConcatProperties
  <2>5. Len(v) = IF u = t THEN 1 ELSE 0
    BY <2>2
  <2>6. Given(d, u) = Len(w \o v)
    BY <1>9, <2>1 DEF Given
  <2>7. Given(c, u) = Len(w)
    BY DEF Given, w, s
  <2>8. Len(w) \in Nat
    BY <2>3
  <2> QED BY <2>4, <2>5, <2>6, <2>7, <2>8
<1> QED BY <1>3, <1>8, <1>11 DEF GivenOne

-----------------------------------------------------------------------------
(* Where a text is cut.                                                       *)
LEMMA CutHidden ==
  ASSUME NEW text \in Texts, NEW i \in 0 .. Len(text), NEW j \in i .. Len(text),
         \A k \in i + 1 .. j : text[k] \in Hidden
  PROVE  /\ Upto(text, i) \in Texts /\ Len(Upto(text, i)) = i /\ Beyond(text, j) \in Texts
         /\ Visible(text) = Visible(Upto(text, i)) \o Visible(Beyond(text, j))
<1> DEFINE n == Len(text)
           a == SubSeq(text, 1, i)
           b == SubSeq(text, i + 1, j)
           d == SubSeq(text, j + 1, n)
<1>1. n \in Nat /\ i \in 0 .. n /\ j \in i .. n /\ text \in Seq(Char) /\ n = Len(text)
  BY DEF Texts
<1>2. a \in Texts /\ Len(a) = i
  BY <1>1 DEF Texts
<1>3. b \in Texts /\ Len(b) = j - i /\ \A k \in 1 .. j - i : b[k] = text[i + k]
  BY <1>1 DEF Texts
<1>4. d \in Texts
  BY <1>1 DEF Texts
<1>5. a \o b = SubSeq(text, 1, j)
  <2>1. 1 \in 1 .. n + 1 /\ i \in 1 - 1 .. n /\ j \in i .. n
    BY <1>1
  <2> HIDE DEF n
  <2> QED BY <1>1, <2>1, ConcatAdjacentSubSeq
<1>6. SubSeq(text, 1, j) \o d = text
  <2>1. SubSeq(text, 1, j) \o d = SubSeq(text, 1, n)
    <3>1. 1 \in 1 .. n + 1 /\ j \in 1 - 1 .. n /\ n \in j .. n
      BY <1>1
    <3> QED BY <1>1, <3>1, ConcatAdjacentSubSeq
  <2> QED BY <1>1, <2>1, SubSeqFull
<1>7. Upto(text, i) = a /\ Beyond(text, j) = d
  BY DEF Upto, Beyond
<1> HIDE DEF a, b, d, n
<1>8. Visible(b) = <<>>
  <2>1. DOMAIN b = 1 .. j - i
    BY <1>3 DEF Texts
  <2>2. \A k \in 1 .. j - i : b[k] \in Hidden
    BY <1>1, <1>3
  <2> QED BY <1>3, <2>1, <2>2, VisibleFacts
<1>9. Visible(a \o b) = Visible(a)
  <2>1. Visible(a \o b) = Visible(a) \o Visible(b) /\ Visible(a) \in Texts
    BY <1>2, <1>3, VisibleFacts
  <2> QED BY <2>1, <1>8, ConcatEmptySeq DEF Texts
<1>10. a \o b \in Texts
  BY <1>2, <1>3, ConcatProperties DEF Texts
<1>11. text = (a \o b) \o d
  BY <1>5, <1>6
<1>12. Visible((a \o b) \o d) = Visible(a \o b) \o Visible(d)
  BY <1>4, <1>10, VisibleFacts
<1> QED BY <1>2, <1>4, <1>7, <1>9, <1>11, <1>12

LEMMA CutVisible ==
  ASSUME NEW text \in Texts, NEW i \in 0 .. Len(text)
  PROVE  /\ Upto(text, i) \in Texts /\ Len(Upto(text, i)) = i /\ Beyond(text, i) \in Texts
         /\ Visible(text) = Visible(Upto(text, i)) \o Visible(Beyond(text, i))
<1>1. i \in i .. Len(text) /\ \A k \in i + 1 .. i : text[k] \in Hidden
  BY DEF Texts
<1> QED BY <1>1, CutHidden

LEMMA FirstFacts ==
  ASSUME NEW S \in SUBSET Nat, First(S) # 0
  PROVE  First(S) \in S
BY MinOfNats DEF First

Tags == {OpenTag, CloseTag}

LEMMA TagFacts ==
  ASSUME NEW text \in Texts, NEW tag \in Tags, NEW i \in RealTags(tag, text)
  PROVE  /\ Len(tag) \in Nat /\ i \in 1 .. Len(text) /\ i + Len(tag) - 1 \in i .. Len(text)
         /\ \A k \in i .. i + Len(tag) - 1 : text[k] \in Hidden
<1> DEFINE n == Len(text)
           m == Len(tag)
<1>1. n \in Nat /\ m \in Nat /\ m > 0 /\ tag \in Seq(ToSet(tag)) /\ ToSet(tag) \subseteq Hidden
  BY TagAssumption DEF Tags, Hidden, Texts
<1>2. i \in 1 .. n - m + 1 /\ SubSeq(text, i, i + m - 1) = tag
  BY DEF RealTags
<1>3. i \in Nat /\ i >= 1 /\ i + m - 1 \in 0 .. n /\ i + m - 1 \in i .. n /\ i \in 1 .. n
  BY <1>1, <1>2
<1>4. \A k \in 1 .. (i + m - 1) - i + 1 : tag[k] = text[i + k - 1]
  BY <1>1, <1>2, <1>3 DEF Texts
<1>5. ASSUME NEW k \in i .. i + m - 1 PROVE text[k] \in Hidden
  <2> DEFINE j == k - i + 1
  <2>1. j \in 1 .. m /\ j \in 1 .. (i + m - 1) - i + 1 /\ i + j - 1 = k
    BY <1>1, <1>3
  <2>2. tag[j] = text[k]
    BY <1>4, <2>1
  <2>3. tag[j] \in ToSet(tag)
    BY <1>1, <2>1
  <2> QED BY <1>1, <2>2, <2>3
<1> QED BY <1>1, <1>3, <1>5

LEMMA TagsAreNats ==
  ASSUME NEW text \in Texts, NEW tag \in Tags
  PROVE  RealTags(tag, text) \in SUBSET Nat
BY TagAssumption DEF RealTags, Tags, Texts

LEMMA BlankHidden == Blanks \subseteq Hidden /\ Newline \in Hidden
BY TagAssumption DEF Hidden

LEMMA AfterIsBeyond ==
  ASSUME NEW text \in Texts, NEW tag \in Tags, NEW i \in RealTags(tag, text)
  PROVE  /\ After(tag, text, i) = Beyond(text, i + Len(tag) - 1)
         /\ After(tag, text, i) \in Texts
         /\ Len(After(tag, text, i)) = Len(text) - (i + Len(tag) - 1)
         /\ \A k \in 1 .. Len(text) - (i + Len(tag) - 1) :
              After(tag, text, i)[k] = text[i + Len(tag) - 1 + k]
<1> DEFINE n == Len(text)
           m == Len(tag)
           j == i + m - 1
<1>1. n \in Nat /\ m \in Nat /\ j \in 0 .. n /\ i \in Nat
  BY TagFacts DEF Texts
<1>2. After(tag, text, i) = SubSeq(text, j + 1, n) /\ Beyond(text, j) = SubSeq(text, j + 1, n)
  BY <1>1 DEF After, Beyond
<1> HIDE DEF j
<1>3. /\ SubSeq(text, j + 1, n) \in Texts
      /\ Len(SubSeq(text, j + 1, n)) = IF j + 1 <= n THEN n - (j + 1) + 1 ELSE 0
      /\ \A k \in 1 .. n - (j + 1) + 1 : SubSeq(text, j + 1, n)[k] = text[(j + 1) + k - 1]
  BY <1>1 DEF Texts
<1>4. /\ Len(SubSeq(text, j + 1, n)) = n - j
      /\ \A k \in 1 .. n - j : SubSeq(text, j + 1, n)[k] = text[j + k]
  BY <1>1, <1>3
<1> QED BY <1>2, <1>3, <1>4 DEF j

(* The opening tag hides nothing...                                           *)
LEMMA StartTagCut ==
  ASSUME NEW text \in Texts, StartTag(text) # 0
  PROVE  /\ Upto(text, StartTag(text) - 1) \in Texts
         /\ After(OpenTag, text, StartTag(text)) \in Texts
         /\ Visible(text) = Visible(Upto(text, StartTag(text) - 1))
                              \o Visible(After(OpenTag, text, StartTag(text)))
<1> DEFINE i == StartTag(text)
<1>1. OpenTag \in Tags
  BY DEF Tags
<1>2. i \in RealTags(OpenTag, text)
  BY <1>1, TagsAreNats, FirstFacts DEF StartTag
<1> HIDE DEF i
<1>3. /\ Len(OpenTag) \in Nat /\ i \in 1 .. Len(text) /\ i + Len(OpenTag) - 1 \in i .. Len(text)
      /\ \A k \in i .. i + Len(OpenTag) - 1 : text[k] \in Hidden
  BY <1>1, <1>2, TagFacts
<1>4. /\ i - 1 \in 0 .. Len(text) /\ (i - 1) + 1 = i
      /\ i + Len(OpenTag) - 1 \in i - 1 .. Len(text)
  BY <1>3
<1>5. /\ After(OpenTag, text, i) = Beyond(text, i + Len(OpenTag) - 1)
      /\ After(OpenTag, text, i) \in Texts
  BY <1>1, <1>2, AfterIsBeyond
<1> DEFINE h == i - 1
           j == i + Len(OpenTag) - 1
<1>6. h \in 0 .. Len(text) /\ j \in h .. Len(text) /\ \A k \in h + 1 .. j : text[k] \in Hidden
  BY <1>3, <1>4
<1> HIDE DEF h, j
<1>7. /\ Upto(text, h) \in Texts
      /\ Visible(text) = Visible(Upto(text, h)) \o Visible(Beyond(text, j))
  BY <1>6, CutHidden
<1> QED BY <1>5, <1>7 DEF h, j, i

(* ...nor does the closing one with its two newlines...                       *)
LEMMA EndTagCut ==
  ASSUME NEW text \in Texts, EndTag(text) # 0
  PROVE  /\ Upto(text, EndTag(text) - 1) \in Texts
         /\ Beyond(text, EndTag(text) + Len(CloseTag) + 1) \in Texts
         /\ Visible(text) = Visible(Upto(text, EndTag(text) - 1))
                              \o Visible(Beyond(text, EndTag(text) + Len(CloseTag) + 1))
<1> DEFINE i == EndTag(text)
           m == Len(CloseTag)
           S == {k \in RealTags(CloseTag, text) :
                   IsPrefix(<<Newline, Newline>>, After(CloseTag, text, k))}
<1>1. CloseTag \in Tags
  BY DEF Tags
<1>2. i \in S
  <2>1. S \in SUBSET Nat /\ i = First(S)
    BY <1>1, TagsAreNats DEF EndTag
  <2> HIDE DEF S
  <2> QED BY <2>1, FirstFacts
<1> HIDE DEF i
<1>3. i \in RealTags(CloseTag, text) /\ IsPrefix(<<Newline, Newline>>, After(CloseTag, text, i))
  BY <1>2
<1>4. /\ m \in Nat /\ i \in 1 .. Len(text) /\ i + m - 1 \in i .. Len(text)
      /\ \A k \in i .. i + m - 1 : text[k] \in Hidden
  BY <1>1, <1>3, TagFacts
<1> DEFINE rest == After(CloseTag, text, i)
<1>5. /\ rest \in Texts /\ Len(rest) = Len(text) - (i + m - 1)
      /\ \A k \in 1 .. Len(text) - (i + m - 1) : rest[k] = text[i + m - 1 + k]
  BY <1>1, <1>3, AfterIsBeyond
<1> HIDE DEF rest, m
<1>6. Len(rest) >= 2 /\ rest[1] = Newline /\ rest[2] = Newline
  <2> DEFINE nn == <<Newline, Newline>>
  <2>1. Len(nn) = 2 /\ nn[1] = Newline /\ nn[2] = Newline /\ nn = SubSeq(nn, 1, 2)
    OBVIOUS
  <2>2. IsPrefix(nn, rest)
    BY <1>3 DEF rest
  <2> HIDE DEF nn
  <2>3. Len(rest) >= 2 /\ \A k \in 1 .. 2 : rest[k] = nn[k]
    BY <1>5, <2>1, <2>2 DEF IsPrefix, Texts
  <2> QED BY <2>1, <2>3
<1> DEFINE h == i - 1
           j == i + m + 1
<1>7. /\ Len(text) \in Nat /\ h \in 0 .. Len(text) /\ j \in h .. Len(text)
      /\ text[i + m] = Newline /\ text[i + m + 1] = Newline
  BY <1>4, <1>5, <1>6 DEF Texts
<1>8. ASSUME NEW k \in h + 1 .. j PROVE text[k] \in Hidden
  <2>1. k \in i .. i + m - 1 \/ k = i + m \/ k = i + m + 1
    BY <1>4
  <2> QED BY <2>1, <1>4, <1>7, BlankHidden
<1> HIDE DEF h, j
<1>9. /\ Upto(text, h) \in Texts /\ Beyond(text, j) \in Texts
      /\ Visible(text) = Visible(Upto(text, h)) \o Visible(Beyond(text, j))
  BY <1>7, <1>8, CutHidden
<1> QED BY <1>9 DEF h, j, i, m

(* ...nor does the one at the end of what there is.                           *)
LEMMA LastTagCut ==
  ASSUME NEW text \in Texts, EndTagAtBufferEnd(text) # 0
  PROVE  /\ Upto(text, EndTagAtBufferEnd(text) - 1) \in Texts
         /\ Visible(text) = Visible(Upto(text, EndTagAtBufferEnd(text) - 1))
         /\ TrimStart(After(CloseTag, text, EndTagAtBufferEnd(text))) = <<>>
<1> DEFINE i == EndTagAtBufferEnd(text)
           m == Len(CloseTag)
           S == {k \in RealTags(CloseTag, text) : IsBlank(After(CloseTag, text, k))}
<1>1. CloseTag \in Tags
  BY DEF Tags
<1>2. i \in S
  <2>1. S \in SUBSET Nat /\ i = First(S)
    BY <1>1, TagsAreNats DEF EndTagAtBufferEnd
  <2> HIDE DEF S
  <2> QED BY <2>1, FirstFacts
<1> HIDE DEF i
<1>3. i \in RealTags(CloseTag, text) /\ IsBlank(After(CloseTag, text, i))
  BY <1>2
<1>4. /\ m \in Nat /\ i \in 1 .. Len(text) /\ i + m - 1 \in i .. Len(text)
      /\ \A k \in i .. i + m - 1 : text[k] \in Hidden
  BY <1>1, <1>3, TagFacts
<1> DEFINE rest == After(CloseTag, text, i)
<1>5. /\ rest \in Texts /\ Len(rest) = Len(text) - (i + m - 1)
      /\ \A k \in 1 .. Len(text) - (i + m - 1) : rest[k] = text[i + m - 1 + k]
  BY <1>1, <1>3, AfterIsBeyond
<1>6. TrimStart(rest) = <<>>
  BY <1>3 DEF TrimStart, IsBlank
<1> HIDE DEF rest, m
<1>7. \A k \in 1 .. Len(rest) : rest[k] \in Blanks
  BY <1>3, <1>5 DEF IsBlank, rest, Texts
<1> DEFINE h == i - 1
           j == Len(text)
<1>8. j \in Nat /\ h \in 0 .. j /\ j \in h .. j
  BY <1>4 DEF Texts
<1>9. ASSUME NEW k \in h + 1 .. j PROVE text[k] \in Hidden
  <2>1. CASE k \in i .. i + m - 1
    BY <2>1, <1>4
  <2>2. CASE k \notin i .. i + m - 1
    <3> DEFINE l == k - (i + m - 1)
    <3>1. l \in 1 .. Len(rest) /\ i + m - 1 + l = k
      BY <1>4, <1>5, <1>8, <2>2
    <3>2. rest[l] = text[k]
      BY <3>1, <1>5
    <3> QED BY <3>1, <3>2, <1>7, BlankHidden
  <2> QED BY <2>1, <2>2
<1>10. Beyond(text, j) = <<>>
  BY <1>8, SubSeqEmpty DEF Beyond
<1> HIDE DEF h
<1>11. /\ Upto(text, h) \in Texts /\ Beyond(text, j) \in Texts
       /\ Visible(text) = Visible(Upto(text, h)) \o Visible(Beyond(text, j))
  BY <1>8, <1>9, CutHidden
<1>12. Visible(Upto(text, h)) \o <<>> = Visible(Upto(text, h))
  BY <1>11, VisibleFacts, ConcatEmptySeq DEF Texts
<1>13. Visible(text) = Visible(Upto(text, h))
  BY <1>10, <1>11, <1>12, VisibleFacts
<1> QED BY <1>6, <1>11, <1>13 DEF h, i, rest

-----------------------------------------------------------------------------
(* What a handler of text may do to a message.                               *)
ToolsKept(c, d) ==
  \A b \in DOMAIN c.blocks : c.blocks[b].kind = "tool_use" => d.blocks[b] = c.blocks[b]
OthersKept(c, d) ==
  \A b \in DOMAIN c.blocks : c.blocks[b].kind # "text" => d.blocks[b] = c.blocks[b]
Wrote(c, d, text) == Becomes(c, d, text) /\ OthersKept(c, d)

LEMMA WroteTransitive ==
  ASSUME NEW c, NEW d, NEW e, Core(c), NEW a \in Texts, NEW b \in Texts,
         Wrote(c, d, a), Wrote(d, e, b)
  PROVE  Wrote(c, e, a \o b)
<1>1. Becomes(c, e, a \o b)
  BY BecomesTransitive DEF Wrote
<1>2. OthersKept(c, e)
  BY DEF Wrote, Becomes, OthersKept, KindsKept
<1> QED BY <1>1, <1>2 DEF Wrote

LEMMA WroteTypes ==
  ASSUME NEW c, NEW d, NEW text, Wrote(c, d, text)
  PROVE  Core(d) /\ Becomes(c, d, text) /\ OthersKept(c, d) /\ ToolsKept(c, d) /\ Kept(c, d)
         /\ KindsKept(c, d)
BY DEF Wrote, Becomes, OthersKept, ToolsKept

LEMMA EmptyText == <<>> \in Texts /\ Visible(<<>>) = <<>> /\ \A a \in Texts : a \o <<>> = a /\ <<>> \o a = a
<1>1. \A a \in Texts : a \o <<>> = a /\ <<>> \o a = a
  BY ConcatEmptySeq DEF Texts
<1> QED BY <1>1, VisibleFacts DEF Texts

(* The block that text goes to.                                               *)
LEMMA OpenTextBlock ==
  ASSUME NEW c, Core(c), NEW d,
         d = IF IsOpen(c, c.textBlock) /\ c.blocks[c.textBlock].kind = "text"
             THEN c ELSE [StartBlock(c, "text") EXCEPT !.textBlock = Len(c.blocks) + 1]
  PROVE  /\ Wrote(c, d, <<>>)
         /\ IsOpen(d, d.textBlock) /\ d.blocks[d.textBlock].kind = "text"
<1>1. CASE IsOpen(c, c.textBlock) /\ c.blocks[c.textBlock].kind = "text"
  BY <1>1, BecomesItself DEF Wrote, OthersKept
<1>2. CASE ~(IsOpen(c, c.textBlock) /\ c.blocks[c.textBlock].kind = "text")
  <2> DEFINE e == StartBlock(c, "text")
             n == Len(c.blocks) + 1
  <2>1. e = StartBlock(c, "text") /\ d = [e EXCEPT !.textBlock = n]
    BY <1>2
  <2> HIDE DEF e
  <2>2. Started(c, e, "text")
    BY <2>1, StartBlockFacts
  <2>3. /\ Core(e) /\ Kept(c, e) /\ KindsKept(c, e) /\ Says(c, e, <<>>)
        /\ n \in DOMAIN e.blocks /\ n \in Nat
        /\ e.blocks[n].kind = "text" /\ e.blocks[n].open
        /\ \A b \in DOMAIN c.blocks : e.blocks[b] = c.blocks[b]
    BY <2>2, BlockFacts DEF Started, Becomes
  <2> HIDE DEF n
  <2>4. /\ d \in Contexts /\ d.textBlock = n /\ d.blocks = e.blocks /\ d.sent = e.sent
        /\ Kept(e, d)
    BY <2>1, <2>3, ZenonT(40) DEF Core, Contexts, Kept
  <2>5. Core(d)
    <3>1. Blocked(d)
      <4>1. OfKind(d, d.textBlock, "text")
        BY <2>3, <2>4 DEF OfKind
      <4>2. OfKind(e, e.thinkingBlock, "thinking") /\ \A t \in Tool : OfKind(e, e.toolBlock[t], "tool_use")
        BY <2>3 DEF Core, Blocked
      <4>3. OfKind(d, d.thinkingBlock, "thinking") /\ \A t \in Tool : OfKind(d, d.toolBlock[t], "tool_use")
        BY <2>4, <4>2 DEF OfKind, Kept
      <4> QED BY <4>1, <4>3 DEF Blocked
    <3>2. Placed(d) /\ Watched(d)
      BY <2>3, <2>4, ZenonT(40) DEF Core, Placed, Watched, Opened
    <3> QED BY <2>4, <3>1, <3>2 DEF Core
  <2>6. Says(c, d, <<>>)
    <3>1. d.sent = e.sent /\ d.blocks = e.blocks
      BY <2>4
    <3>2. Shown(d) = Shown(e) /\ \A t \in Tool : Given(d, t) = Given(e, t)
      BY <3>1, SameMessage
    <3> QED BY <2>3, <3>2 DEF Says
  <2>7. Kept(c, d) /\ KindsKept(c, d)
    BY <2>3, <2>4 DEF Kept, KindsKept
  <2>8. OthersKept(c, d)
    BY <2>3, <2>4 DEF OthersKept
  <2> QED BY <2>3, <2>4, <2>5, <2>6, <2>7, <2>8 DEF Wrote, Becomes, IsOpen
<1> QED BY <1>1, <1>2

LEMMA TextFacts ==
  ASSUME NEW c, Core(c), NEW text \in Texts, NEW d, d = Text(c, text)
  PROVE  /\ Wrote(c, d, text)
         /\ d.textBlock \in DOMAIN d.blocks /\ d.blocks[d.textBlock].kind = "text"
<1> DEFINE e == IF IsOpen(c, c.textBlock) /\ c.blocks[c.textBlock].kind = "text"
                THEN c ELSE [StartBlock(c, "text") EXCEPT !.textBlock = Len(c.blocks) + 1]
<1>1. d = Delta(e, e.textBlock, text)
  BY DEF Text
<1>2. Wrote(c, e, <<>>) /\ IsOpen(e, e.textBlock) /\ e.blocks[e.textBlock].kind = "text"
  BY OpenTextBlock
<1> HIDE DEF e
<1>3. Core(e) /\ e.textBlock \in DOMAIN e.blocks /\ e.blocks[e.textBlock].open
  BY <1>2 DEF Wrote, Becomes, IsOpen
<1> DEFINE b == e.textBlock
<1>4. d = Send(e, [event |-> "block_delta", block |-> b, text |-> text])
  BY <1>1, <1>2 DEF Delta
<1>5. b \in DOMAIN e.blocks /\ e.blocks[b].open /\ e.blocks[b].kind = "text" /\ b = e.textBlock
  BY <1>2, <1>3
<1> HIDE DEF b
<1>6. Becomes(e, d, text) /\ d.textBlock = e.textBlock /\ d.blocks = e.blocks
  BY <1>3, <1>4, <1>5, ShownDelta
<1>7. Wrote(e, d, text)
  BY <1>6 DEF Wrote, OthersKept
<1>8. Wrote(c, d, <<>> \o text)
  BY <1>2, <1>7, EmptyText, WroteTransitive
<1> QED BY <1>5, <1>6, <1>8, EmptyText

Inside(c) == c.thinkingBlock \in DOMAIN c.blocks /\ c.blocks[c.thinkingBlock].open

LEMMA ThinkingDeltaFacts ==
  ASSUME NEW c, Core(c), Inside(c), NEW text \in Texts, NEW d, d = ThinkingDelta(c, text)
  PROVE  Wrote(c, d, text) /\ d.blocks = c.blocks /\ Inside(d)
<1> DEFINE b == c.thinkingBlock
<1>1. b \in DOMAIN c.blocks /\ c.blocks[b].open /\ c.blocks[b].kind = "thinking"
  <2>1. b # 0
    <3>1. DOMAIN c.blocks = 1 .. Len(c.blocks) /\ Len(c.blocks) \in Nat
      BY BlockFacts
    <3> QED BY <3>1 DEF Inside
  <2> QED BY <2>1 DEF Inside, Core, Blocked, OfKind
<1>2. d = Send(c, [event |-> "block_delta", block |-> b, text |-> text])
  BY DEF ThinkingDelta
<1> HIDE DEF b
<1>3. Becomes(c, d, text) /\ d.textBlock = c.textBlock /\ d.blocks = c.blocks
  BY <1>1, <1>2, ShownDelta
<1> QED BY <1>3 DEF Wrote, OthersKept, Inside, Becomes, Kept

LEMMA CloseThinkingFacts ==
  ASSUME NEW c, Core(c), Inside(c), NEW d, d = CloseThinking(c)
  PROVE  Becomes(c, d, <<>>) /\ ToolsKept(c, d)
<1> DEFINE e == ThinkingDelta(c, <<>>)
           b == c.thinkingBlock
<1>1. Wrote(c, e, <<>>) /\ e.blocks = c.blocks
  BY EmptyText, ThinkingDeltaFacts
<1>2. d = StopBlock(e, b)
  BY DEF CloseThinking
<1> HIDE DEF e
<1>3. Core(e) /\ Becomes(c, e, <<>>)
  BY <1>1 DEF Wrote, Becomes
<1>4. b \in Nat /\ OfKind(c, b, "thinking")
  BY DEF Core, Contexts, Blocked
<1> HIDE DEF b
<1>5. /\ Becomes(e, d, <<>>)
      /\ \A x \in DOMAIN e.blocks : x # b => d.blocks[x] = e.blocks[x]
  BY <1>2, <1>3, <1>4, StopBlockFacts
<1>6. Becomes(c, d, <<>> \o <<>>)
  BY <1>3, <1>5, EmptyText, BecomesTransitive
<1>7. ToolsKept(c, d)
  <2>1. ASSUME NEW x \in DOMAIN c.blocks, c.blocks[x].kind = "tool_use" PROVE x # b
    <3>1. DOMAIN c.blocks = 1 .. Len(c.blocks) /\ Len(c.blocks) \in Nat
      BY BlockFacts
    <3>2. x # 0
      BY <3>1
    <3> QED BY <1>4, <2>1, <3>2 DEF OfKind
  <2> QED BY <1>1, <1>5, <2>1 DEF ToolsKept
<1> QED BY <1>6, <1>7, EmptyText

-----------------------------------------------------------------------------
(* The handlers of thinking, which also move text out of the buffer.          *)
Entered(c) == c.section = "before" => c.thinkingBlock = 0
Stable(c) == Core(c) /\ (c.section = "inside" => Inside(c)) /\ Entered(c)
Balance(c) == Shown(c) \o Visible(c.buffer)

Handled(c, d) ==
  /\ Stable(d) /\ KindsKept(c, d) /\ ToolsKept(c, d)
  /\ d.phase = c.phase /\ d.thinkingEnabled = c.thinkingEnabled
  /\ d.toolBlock = c.toolBlock
  /\ Balance(d) = Balance(c) /\ \A t \in Tool : Given(d, t) = Given(c, t)

(* The same without a word on the thinking: at the end it may stop open.      *)
Carried(c, d) ==
  /\ Core(d) /\ KindsKept(c, d)
  /\ d.phase = c.phase /\ d.thinkingEnabled = c.thinkingEnabled
  /\ d.toolBlock = c.toolBlock
  /\ Balance(d) = Balance(c) /\ \A t \in Tool : Given(d, t) = Given(c, t)

Retouched(c, d) ==
  /\ d \in Contexts
  /\ d.blocks = c.blocks /\ d.sent = c.sent /\ d.textBlock = c.textBlock
  /\ d.toolBlock = c.toolBlock /\ d.phase = c.phase
  /\ d.thinkingEnabled = c.thinkingEnabled
  /\ OfKind(c, d.thinkingBlock, "thinking")

LEMMA RetouchedCore ==
  ASSUME NEW c, NEW d, Core(c), Retouched(c, d)
  PROVE  Core(d) /\ Shown(d) = Shown(c) /\ \A t \in Tool : Given(d, t) = Given(c, t)
<1>1. Blocked(d)
  BY DEF Core, Retouched, Blocked, OfKind
<1>2. Placed(d) /\ Watched(d)
  BY DEF Core, Retouched, Placed, Watched, Opened
<1>3. Shown(d) = Shown(c) /\ \A t \in Tool : Given(d, t) = Given(c, t)
  BY SameMessage DEF Retouched
<1> QED BY <1>1, <1>2, <1>3 DEF Core, Retouched

LEMMA HandledTransitive ==
  ASSUME NEW c, NEW d, NEW e, Handled(c, d), Handled(d, e) PROVE Handled(c, e)
BY DEF Handled, KindsKept, ToolsKept

LEMMA HandledItself ==
  ASSUME NEW c, Stable(c) PROVE Handled(c, c)
BY DEF Handled, KindsKept, ToolsKept

LEMMA HandledCarries ==
  ASSUME NEW c, NEW d, Handled(c, d) PROVE Carried(c, d)
BY DEF Handled, Carried, Stable

LEMMA BalanceCarried ==
  ASSUME NEW c, NEW e, NEW d, Core(c), NEW text \in Texts, NEW rest \in Texts,
         Becomes(c, e, text), Retouched(e, d), d.buffer = rest,
         Visible(c.buffer) = Visible(text) \o Visible(rest)
  PROVE  Carried(c, d)
<1>1. Core(e) /\ Kept(c, e) /\ KindsKept(c, e) /\ Says(c, e, text)
  BY DEF Becomes
<1>2. Core(d) /\ Shown(d) = Shown(e) /\ \A t \in Tool : Given(d, t) = Given(e, t)
  BY <1>1, RetouchedCore
<1>3. Shown(c) \in Texts /\ Visible(text) \in Texts /\ Visible(rest) \in Texts
  BY BlockFacts, ShownType, VisibleFacts
<1>4. Balance(d) = (Shown(c) \o Visible(text)) \o Visible(rest)
  BY <1>1, <1>2 DEF Balance, Says
<1>5. Balance(d) = Balance(c)
  <2> DEFINE x == Shown(c)
             y == Visible(text)
             z == Visible(rest)
  <2>1. x \in Texts /\ y \in Texts /\ z \in Texts
    BY <1>3
  <2> HIDE DEF x, y, z
  <2>2. Regroups(x, y, z)
    BY <2>1, TextsAssociate
  <2>3. (x \o y) \o z = x \o (y \o z)
    BY <2>2 DEF Regroups
  <2> QED BY <1>4, <2>3 DEF Balance, x, y, z
<1>6. \A t \in Tool : Given(d, t) = Given(c, t)
  BY <1>1, <1>2 DEF Says
<1>7. KindsKept(c, d)
  BY <1>1 DEF KindsKept, Retouched
<1> QED BY <1>1, <1>2, <1>5, <1>6, <1>7 DEF Carried, Retouched, Kept

LEMMA BalanceKept ==
  ASSUME NEW c, NEW e, NEW d, Core(c), NEW text \in Texts, NEW rest \in Texts,
         Becomes(c, e, text), ToolsKept(c, e), Retouched(e, d), d.buffer = rest,
         d.section = "inside" => Inside(d), Entered(d),
         Visible(c.buffer) = Visible(text) \o Visible(rest)
  PROVE  Handled(c, d)
<1>1. Carried(c, d)
  BY BalanceCarried
<1>2. Kept(c, e) /\ KindsKept(c, e)
  BY DEF Becomes
<1> QED BY <1>1, <1>2 DEF Carried, Handled, Stable, Retouched, Kept, ToolsKept

LEMMA WroteVisible ==
  ASSUME NEW c, NEW d, NEW a, NEW b, Visible(a) = Visible(b), Wrote(c, d, a)
  PROVE  Wrote(c, d, b)
BY DEF Wrote, Becomes, Says

LEMMA WroteNothing ==
  ASSUME NEW c, Core(c), NEW text, Visible(text) = <<>>
  PROVE  Wrote(c, c, text)
<1>1. Wrote(c, c, <<>>)
  BY BecomesItself DEF Wrote, OthersKept
<1> QED BY <1>1, EmptyText, WroteVisible

LEMMA UnlessFacts ==
  ASSUME NEW c, Core(c), NEW text \in Texts
  PROVE  /\ Wrote(c, TextUnlessBlank(c, text), text)
         /\ Wrote(c, TextUnlessEmpty(c, text), text)
         /\ Inside(c) => /\ Wrote(c, ThinkingUnlessEmpty(c, text), text)
                         /\ Inside(ThinkingUnlessEmpty(c, text))
<1>1. Wrote(c, Text(c, text), text)
  BY TextFacts
<1>2. IsBlank(text) => Visible(text) = <<>>
  BY BlankHidden, VisibleFacts DEF IsBlank
<1>3. Wrote(c, TextUnlessBlank(c, text), text)
  BY <1>1, <1>2, WroteNothing DEF TextUnlessBlank
<1>4. Wrote(c, TextUnlessEmpty(c, text), text)
  BY <1>1, EmptyText, WroteNothing DEF TextUnlessEmpty
<1>5. ASSUME Inside(c)
      PROVE  Wrote(c, ThinkingUnlessEmpty(c, text), text) /\ Inside(ThinkingUnlessEmpty(c, text))
  <2>1. Wrote(c, ThinkingDelta(c, text), text) /\ Inside(ThinkingDelta(c, text))
    BY <1>5, ThinkingDeltaFacts
  <2>2. text = <<>> => Wrote(c, c, text)
    BY EmptyText, WroteNothing
  <2> QED BY <1>5, <2>1, <2>2 DEF ThinkingUnlessEmpty
<1> QED BY <1>3, <1>4, <1>5

LEMMA BufferText ==
  ASSUME NEW c, Core(c)
  PROVE  c.buffer \in Texts /\ c.buffer \in Seq(Char) /\ Len(c.buffer) \in Nat
BY DEF Core, Contexts, Texts

LEMMA SafeText ==
  ASSUME NEW text \in Texts, NEW reserve \in Nat
  PROVE  /\ SafeLen(text, reserve) \in 0 .. Len(text)
         /\ Upto(text, SafeLen(text, reserve)) \in Texts
         /\ Beyond(text, Len(Upto(text, SafeLen(text, reserve)))) \in Texts
         /\ Visible(text) = Visible(Upto(text, SafeLen(text, reserve)))
              \o Visible(Beyond(text, Len(Upto(text, SafeLen(text, reserve)))))
<1> DEFINE i == SafeLen(text, reserve)
<1>1. i \in 0 .. Len(text)
  BY DEF SafeLen, Texts
<1> HIDE DEF i
<1>2. /\ Upto(text, i) \in Texts /\ Len(Upto(text, i)) = i /\ Beyond(text, i) \in Texts
      /\ Visible(text) = Visible(Upto(text, i)) \o Visible(Beyond(text, i))
  BY <1>1, CutVisible
<1> QED BY <1>1, <1>2 DEF i

(* Core after a change of the fields that a handler of thinking sets itself.  *)
Refilled(c, section, strip, block, buffer) ==
  [c EXCEPT !.section = section, !.strip = strip, !.thinkingBlock = block, !.buffer = buffer]

LEMMA RefilledFacts ==
  ASSUME NEW c, Core(c), NEW section \in Sections, NEW strip \in BOOLEAN,
         NEW block \in Nat, OfKind(c, block, "thinking"), NEW buffer \in Texts,
         NEW d, d = Refilled(c, section, strip, block, buffer)
  PROVE  /\ Retouched(c, d) /\ d.section = section /\ d.buffer = buffer
         /\ d.thinkingBlock = block
BY DEF Core, Contexts, Retouched, Refilled

LEMMA ScanForStartFacts ==
  ASSUME NEW c, Stable(c), c.section = "before", NEW d, d = ScanForStart(c)
  PROVE  Handled(c, d)
<1> DEFINE start == StartTag(c.buffer)
           safe  == Upto(c.buffer, SafeLen(c.buffer, Len(OpenTag)))
<1>1. Core(c) /\ c.buffer \in Texts /\ Len(OpenTag) \in Nat
  BY BufferText, TagAssumption DEF Stable
<1>2. CASE start # 0
  <2> DEFINE a == Upto(c.buffer, start - 1)
             rest == After(OpenTag, c.buffer, start)
             e == TextUnlessBlank(c, a)
             f == StartBlock(e, "thinking")
             n == Len(f.blocks)
  <2>1. a \in Texts /\ rest \in Texts /\ Visible(c.buffer) = Visible(a) \o Visible(rest)
    BY <1>1, <1>2, StartTagCut
  <2>2. d = [f EXCEPT !.section = "inside", !.strip = TRUE, !.thinkingBlock = n,
                      !.buffer = After(OpenTag, @, start)]
    BY <1>2 DEF ScanForStart
  <2> HIDE DEF a
  <2>3. Wrote(c, e, a)
    BY <1>1, <2>1, UnlessFacts
  <2>4. f = StartBlock(e, "thinking") /\ n = Len(f.blocks)
    OBVIOUS
  <2> HIDE DEF e
  <2>5. Core(e) /\ Becomes(c, e, a) /\ ToolsKept(c, e) /\ Kept(c, e)
    BY <2>3, WroteTypes
  <2> HIDE DEF f
  <2>6. Started(e, f, "thinking")
    BY <2>4, <2>5, StartBlockFacts
  <2>7. /\ Becomes(e, f, <<>>) /\ Core(f) /\ Kept(e, f) /\ KindsKept(e, f)
        /\ n = Len(e.blocks) + 1 /\ n \in DOMAIN f.blocks
        /\ f.blocks[n] = [kind |-> "thinking", open |-> TRUE]
        /\ \A b \in DOMAIN e.blocks : f.blocks[b] = e.blocks[b]
    BY <2>6 DEF Started, Becomes
  <2>8. f.buffer = c.buffer /\ n \in Nat
    <3>1. Len(e.blocks) \in Nat
      BY <2>5, BlockFacts
    <3> QED BY <2>5, <2>7, <3>1 DEF Kept
  <2>9. Becomes(c, f, a)
    BY <1>1, <2>1, <2>5, <2>7, EmptyText, BecomesTransitive, ZenonT(40)
  <2>10. ToolsKept(c, f)
    BY <2>5, <2>7 DEF ToolsKept, Becomes, KindsKept
  <2>11. d = Refilled(f, "inside", TRUE, n, rest)
    BY <2>2, <2>7, <2>8 DEF Refilled, Core, Contexts
  <2>12. OfKind(f, n, "thinking")
    BY <2>7 DEF OfKind
  <2> HIDE DEF rest, n
  <2>13. Retouched(f, d) /\ d.section = "inside" /\ d.buffer = rest /\ d.thinkingBlock = n
    <3>1. "inside" \in Sections
      BY DEF Sections
    <3>2. PICK strip \in BOOLEAN : d = Refilled(f, "inside", strip, n, rest)
      BY <2>11
    <3> QED BY <2>1, <2>7, <2>8, <2>12, <3>1, <3>2, RefilledFacts
  <2>14. Inside(d)
    BY <2>7, <2>13 DEF Inside, Retouched
  <2>15. Entered(d)
    BY <2>13 DEF Entered
  <2> QED BY <1>1, <2>1, <2>9, <2>10, <2>13, <2>14, <2>15, BalanceKept
<1>3. CASE start = 0 /\ ~IsBlank(safe)
  <2> DEFINE rest == Beyond(c.buffer, Len(safe))
             f == Text(c, safe)
  <2>1. safe \in Texts /\ rest \in Texts /\ Visible(c.buffer) = Visible(safe) \o Visible(rest)
    BY <1>1, SafeText
  <2>2. d = [f EXCEPT !.buffer = Beyond(@, Len(safe))]
    BY <1>3 DEF ScanForStart
  <2>3. f = Text(c, safe)
    OBVIOUS
  <2> HIDE DEF f, start
  <2>4. Wrote(c, f, safe)
    BY <1>1, <2>1, <2>3, TextFacts
  <2>5. Core(f) /\ Becomes(c, f, safe) /\ ToolsKept(c, f) /\ Kept(c, f)
    BY <2>4, WroteTypes
  <2>6. /\ f.strip \in BOOLEAN /\ f.thinkingBlock \in Nat /\ OfKind(f, f.thinkingBlock, "thinking")
        /\ f.section = "before" /\ f.buffer = c.buffer /\ f.thinkingBlock = 0
    BY <2>5 DEF Core, Contexts, Blocked, Kept, Stable, Entered
  <2> HIDE DEF safe
  <2>7. d = Refilled(f, "before", f.strip, f.thinkingBlock, rest)
    BY <2>2, <2>5, <2>6, ZenonT(60) DEF Refilled, Core, Contexts
  <2> HIDE DEF rest
  <2>8. /\ Retouched(f, d) /\ d.section = "before" /\ d.buffer = rest
        /\ d.thinkingBlock = f.thinkingBlock
    <3>1. "before" \in Sections
      BY DEF Sections
    <3> QED BY <2>1, <2>5, <2>6, <2>7, <3>1, RefilledFacts
  <2>9. Entered(d)
    BY <2>6, <2>8 DEF Entered
  <2> QED BY <1>1, <2>1, <2>5, <2>8, <2>9, BalanceKept
<1>4. CASE start = 0 /\ IsBlank(safe)
  <2>1. d = c
    BY <1>4 DEF ScanForStart
  <2> QED BY <2>1, HandledItself
<1> QED BY <1>2, <1>3, <1>4

(* The section and the buffer change after some text was said.                *)
Moved(e, section, rest) == [e EXCEPT !.section = section, !.buffer = rest]
MayEnter(e, section) ==
  /\ section \in Sections
  /\ section = "inside" => Inside(e)
  /\ section = "before" => e.thinkingBlock = 0

LEMMA MovedFacts ==
  ASSUME NEW c, Core(c), NEW e, NEW text \in Texts, NEW rest \in Texts,
         Becomes(c, e, text), ToolsKept(c, e),
         Visible(c.buffer) = Visible(text) \o Visible(rest),
         NEW section, MayEnter(e, section), NEW d, d = Moved(e, section, rest)
  PROVE  Handled(c, d) /\ d.section = section /\ d.buffer = rest /\ d.blocks = e.blocks
         /\ d.stopReason = e.stopReason /\ d.thinkingBlock = e.thinkingBlock
<1>1. Core(e)
  BY DEF Becomes
<1>2. e.strip \in BOOLEAN /\ e.thinkingBlock \in Nat /\ OfKind(e, e.thinkingBlock, "thinking")
  BY <1>1 DEF Core, Contexts, Blocked
<1>3. d = Refilled(e, section, e.strip, e.thinkingBlock, rest) /\ section \in Sections
  BY <1>1 DEF Refilled, Moved, MayEnter, Core, Contexts
<1>4. Retouched(e, d) /\ d.section = section /\ d.buffer = rest /\ d.thinkingBlock = e.thinkingBlock
  BY <1>1, <1>2, <1>3, RefilledFacts
<1>5. d.section = "inside" => Inside(d)
  BY <1>4 DEF Inside, Retouched, MayEnter
<1>6. Handled(c, d)
  <2>1. Entered(d)
    BY <1>4 DEF Entered, MayEnter
  <2> QED BY <1>4, <1>5, <2>1, BalanceKept
<1>7. d.stopReason = e.stopReason
  BY <1>1 DEF Moved, Core, Contexts
<1> QED BY <1>4, <1>6, <1>7 DEF Retouched

LEMMA StripNewlineFacts ==
  ASSUME NEW c, Stable(c), c.section = "inside", NEW d, d = StripNewline(c)
  PROVE  Handled(c, d) /\ d.section = "inside" /\ d.stopReason = c.stopReason
<1>1. CASE ~(c.strip /\ c.buffer # <<>>)
  BY <1>1, HandledItself DEF StripNewline
<1>2. CASE c.strip /\ c.buffer # <<>>
  <2> DEFINE rest == IF Head(c.buffer) = Newline THEN Tail(c.buffer) ELSE c.buffer
  <2>1. Core(c) /\ Inside(c) /\ c.buffer \in Texts /\ c.buffer \in Seq(Char) /\ Len(c.buffer) \in Nat
    BY BufferText DEF Stable
  <2>2. rest \in Texts /\ Visible(c.buffer) = Visible(rest)
    <3>1. CASE Head(c.buffer) # Newline
      BY <2>1, <3>1
    <3>2. CASE Head(c.buffer) = Newline
      <4> DEFINE text == c.buffer
      <4>1. text \in Seq(Char) /\ text # <<>> /\ Head(text) = Newline /\ Len(text) \in Nat
            /\ text \in Texts
        BY <1>2, <2>1, <3>2
      <4> HIDE DEF text
      <4>2. 0 \in 0 .. Len(text) /\ 1 \in 0 .. Len(text) /\ \A k \in 0 + 1 .. 1 : text[k] \in Hidden
        BY <4>1, BlankHidden
      <4>3. /\ Upto(text, 0) \in Texts /\ Beyond(text, 1) \in Texts
            /\ Visible(text) = Visible(Upto(text, 0)) \o Visible(Beyond(text, 1))
        BY <4>1, <4>2, CutHidden
      <4>4. Upto(text, 0) = <<>>
        BY SubSeqEmpty DEF Upto
      <4>5. Beyond(text, 1) = Tail(text)
        BY <4>1, TailIsSubSeq DEF Beyond
      <4>6. Visible(text) = Visible(Tail(text))
        BY <4>3, <4>4, <4>5, EmptyText, VisibleFacts
      <4> QED BY <3>2, <4>3, <4>5, <4>6 DEF text
    <3> QED BY <3>1, <3>2
  <2>3. d = [c EXCEPT !.strip = FALSE, !.buffer = rest]
    BY <1>2 DEF StripNewline
  <2> HIDE DEF rest
  <2>4. d = Refilled(c, "inside", FALSE, c.thinkingBlock, rest)
    BY <2>1, <2>3, ZenonT(40) DEF Refilled, Core, Contexts
  <2>5. PICK strip \in BOOLEAN : d = Refilled(c, "inside", strip, c.thinkingBlock, rest)
    BY <2>4
  <2>6. /\ c.thinkingBlock \in Nat /\ OfKind(c, c.thinkingBlock, "thinking")
        /\ "inside" \in Sections
    BY <2>1 DEF Core, Contexts, Blocked, Sections
  <2>7. /\ Retouched(c, d) /\ d.section = "inside" /\ d.buffer = rest
        /\ d.thinkingBlock = c.thinkingBlock
    BY <2>1, <2>2, <2>5, <2>6, RefilledFacts
  <2>8. Inside(d)
    BY <2>1, <2>7 DEF Inside, Retouched
  <2>9. Becomes(c, c, <<>>) /\ ToolsKept(c, c)
    BY <2>1, BecomesItself DEF ToolsKept
  <2>10. Visible(c.buffer) = Visible(<<>>) \o Visible(rest)
    BY <2>2, EmptyText, VisibleFacts
  <2>11. Handled(c, d)
    <3>1. Entered(d)
      BY <2>7 DEF Entered
    <3> QED BY <2>1, <2>2, <2>7, <2>8, <2>9, <2>10, <3>1, EmptyText, BalanceKept
  <2>12. d.stopReason = c.stopReason
    BY <2>1, <2>3 DEF Core, Contexts
  <2> QED BY <2>7, <2>11, <2>12
<1> QED BY <1>1, <1>2

LEMMA ThoughtFacts ==
  ASSUME NEW c, Core(c), Inside(c), NEW text \in Texts, NEW e,
         NEW f, Wrote(c, f, text), Inside(f), e = CloseThinking(f)
  PROVE  Becomes(c, e, text) /\ ToolsKept(c, e)
<1>1. Core(f) /\ Becomes(c, f, text) /\ ToolsKept(c, f)
  BY WroteTypes
<1>2. Becomes(f, e, <<>>) /\ ToolsKept(f, e)
  BY <1>1, CloseThinkingFacts
<1>3. Becomes(c, e, text \o <<>>)
  BY <1>1, <1>2, EmptyText, BecomesTransitive
<1>4. ToolsKept(c, e)
  BY <1>1, <1>2 DEF ToolsKept, Becomes, KindsKept
<1> QED BY <1>3, <1>4, EmptyText

LEMMA EndOfThinking ==
  ASSUME NEW c, Stable(c), c.section = "inside", NEW text \in Texts, NEW rest \in Texts,
         Visible(c.buffer) = Visible(text) \o Visible(rest), NEW d,
         d = Moved(CloseThinking(ThinkingUnlessEmpty(c, text)), "after", rest)
  PROVE  Handled(c, d) /\ d.section = "after" /\ d.buffer = rest
<1> DEFINE f == ThinkingUnlessEmpty(c, text)
           e == CloseThinking(f)
<1>1. Core(c) /\ Inside(c)
  BY DEF Stable
<1>2. Wrote(c, f, text) /\ Inside(f)
  BY <1>1, UnlessFacts
<1>3. e = CloseThinking(f) /\ d = Moved(e, "after", rest)
  OBVIOUS
<1> HIDE DEF e, f
<1>4. Becomes(c, e, text) /\ ToolsKept(c, e)
  BY <1>1, <1>2, <1>3, ThoughtFacts
<1>5. MayEnter(e, "after")
  BY DEF Sections, MayEnter
<1> QED BY <1>1, <1>3, <1>4, <1>5, MovedFacts

LEMMA ScanForEndFacts ==
  ASSUME NEW c, Stable(c), c.section = "inside", NEW d, d = ScanForEnd(c)
  PROVE  Handled(c, d)
<1> DEFINE s    == StripNewline(c)
           end  == EndTag(s.buffer)
           safe == Upto(s.buffer, SafeLen(s.buffer, Len(CloseTag) + 2))
<1>1. s = StripNewline(c)
  OBVIOUS
<1>2. d = IF end # 0
          THEN [CloseThinking(ThinkingUnlessEmpty(s, Upto(s.buffer, end - 1)))
                  EXCEPT !.section = "after", !.buffer = Beyond(@, end + Len(CloseTag) + 1)]
          ELSE [ThinkingUnlessEmpty(s, safe) EXCEPT !.buffer = Beyond(@, Len(safe))]
  BY DEF ScanForEnd
<1> HIDE DEF s
<1>3. Handled(c, s) /\ s.section = "inside"
  BY <1>1, StripNewlineFacts
<1>4. Stable(s) /\ Core(s) /\ Inside(s) /\ s.buffer \in Texts
  BY <1>3, BufferText DEF Handled, Stable
<1>5. CASE end # 0
  <2> DEFINE a == Upto(s.buffer, end - 1)
             rest == Beyond(s.buffer, end + Len(CloseTag) + 1)
             f == ThinkingUnlessEmpty(s, a)
             e == CloseThinking(f)
  <2>1. a \in Texts /\ rest \in Texts /\ Visible(s.buffer) = Visible(a) \o Visible(rest)
    BY <1>4, <1>5, EndTagCut
  <2>2. d = [e EXCEPT !.section = "after", !.buffer = Beyond(@, end + Len(CloseTag) + 1)]
    BY <1>2, <1>5
  <2>3. Wrote(s, f, a) /\ Inside(f)
    <3> HIDE DEF a
    <3> QED BY <1>4, <2>1, UnlessFacts
  <2>4. e = CloseThinking(f)
    OBVIOUS
  <2> HIDE DEF a, f, e, end
  <2>5. Becomes(s, e, a)
    BY <1>4, <2>1, <2>3, <2>4, ThoughtFacts
  <2>6. e.buffer = s.buffer /\ e \in Contexts
    BY <2>5 DEF Becomes, Kept, Core
  <2>7. d = Moved(e, "after", rest)
    BY <2>2, <2>6 DEF Contexts, Moved
  <2>8. d = Moved(CloseThinking(ThinkingUnlessEmpty(s, a)), "after", rest)
    BY <2>7 DEF e, f
  <2> HIDE DEF rest
  <2>9. Handled(s, d)
    BY <1>3, <1>4, <2>1, <2>8, EndOfThinking, SMTT(40)
  <2> QED BY <1>3, <2>9, HandledTransitive
<1>6. CASE end = 0
  <2> DEFINE rest == Beyond(s.buffer, Len(safe))
             f == ThinkingUnlessEmpty(s, safe)
  <2>1. safe \in Texts /\ rest \in Texts /\ Visible(s.buffer) = Visible(safe) \o Visible(rest)
    <3>1. Len(CloseTag) + 2 \in Nat
      BY TagAssumption
    <3> QED BY <1>4, <3>1, SafeText
  <2>2. d = [f EXCEPT !.buffer = Beyond(@, Len(safe))]
    BY <1>2, <1>6
  <2> HIDE DEF safe, end
  <2>3. Wrote(s, f, safe) /\ Inside(f)
    BY <1>4, <2>1, UnlessFacts
  <2> HIDE DEF f
  <2>4. Becomes(s, f, safe) /\ ToolsKept(s, f) /\ Core(f) /\ Kept(s, f)
    BY <2>3, WroteTypes
  <2>5. f.buffer = s.buffer /\ f.section = "inside" /\ f \in Contexts
    BY <1>3, <2>4 DEF Kept, Core
  <2>6. d = Moved(f, "inside", rest)
    BY <2>2, <2>5 DEF Contexts, Moved
  <2> HIDE DEF rest
  <2>7. MayEnter(f, "inside")
    BY <2>3 DEF Sections, MayEnter
  <2>8. Handled(s, d)
    BY <1>4, <2>1, <2>3, <2>4, <2>6, <2>7, MovedFacts
  <2> QED BY <1>3, <2>8, HandledTransitive
<1> QED BY <1>5, <1>6

(* All that is kept back is written as text.                                  *)
LEMMA EmptiedFacts ==
  ASSUME NEW c, Stable(c), c.section # "inside", NEW f, Wrote(c, f, c.buffer),
         NEW d, d = Moved(f, c.section, <<>>)
  PROVE  Handled(c, d) /\ d.section = c.section /\ d.buffer = <<>> /\ d.blocks = f.blocks
         /\ d.stopReason = c.stopReason /\ d.thinkingBlock = c.thinkingBlock
<1>1. Core(c) /\ c.buffer \in Texts
  BY BufferText DEF Stable
<1>2. Core(f) /\ Becomes(c, f, c.buffer) /\ ToolsKept(c, f) /\ Kept(c, f)
  BY WroteTypes
<1> DEFINE x == c.section
<1>3. d = Moved(f, x, <<>>)
  OBVIOUS
<1>4. MayEnter(f, x)
  BY <1>1, <1>2 DEF MayEnter, Core, Contexts, Stable, Entered, Kept
<1>5. Visible(c.buffer) = Visible(c.buffer) \o Visible(<<>>)
  BY <1>1, EmptyText, VisibleFacts
<1> DEFINE a == c.buffer
<1> HIDE DEF x
<1>6. a \in Texts /\ Becomes(c, f, a) /\ Visible(c.buffer) = Visible(a) \o Visible(<<>>)
      /\ Core(c) /\ ToolsKept(c, f)
  BY <1>1, <1>2, <1>5
<1> HIDE DEF a
<1>7. /\ Handled(c, d) /\ d.section = x /\ d.buffer = <<>> /\ d.blocks = f.blocks
      /\ d.stopReason = f.stopReason /\ d.thinkingBlock = f.thinkingBlock
  <2> DEFINE y == <<>>
  <2>1. y \in Texts /\ Visible(c.buffer) = Visible(a) \o Visible(y)
        /\ d = Moved(f, x, y) /\ a \in Texts /\ Becomes(c, f, a) /\ Core(c) /\ ToolsKept(c, f)
        /\ MayEnter(f, x)
    BY <1>3, <1>4, <1>6, EmptyText
  <2> HIDE DEF y
  <2>2. /\ Handled(c, d) /\ d.section = x /\ d.buffer = y /\ d.blocks = f.blocks
        /\ d.stopReason = f.stopReason /\ d.thinkingBlock = f.thinkingBlock
    BY <2>1, MovedFacts
  <2> QED BY <2>2 DEF y
<1> QED BY <1>2, <1>7 DEF x, Kept

(* A piece of text when thinking is enabled.                                  *)
Received(c, chunk) == [c EXCEPT !.buffer = @ \o chunk]

LEMMA ReceivedFacts ==
  ASSUME NEW c, Stable(c), NEW chunk \in Texts, NEW d, d = Received(c, chunk)
  PROVE  /\ Stable(d) /\ KindsKept(c, d) /\ ToolsKept(c, d)
         /\ d.phase = c.phase /\ d.thinkingEnabled = c.thinkingEnabled
         /\ d.toolBlock = c.toolBlock
         /\ Balance(d) = Balance(c) \o Visible(chunk)
         /\ \A t \in Tool : Given(d, t) = Given(c, t)
<1>1. Core(c) /\ c.buffer \in Texts
  BY BufferText DEF Stable
<1>2. c.buffer \o chunk \in Texts
  BY <1>1, ConcatProperties DEF Texts
<1>3. /\ Retouched(c, d) /\ d.buffer = c.buffer \o chunk /\ d.section = c.section
      /\ d.thinkingBlock = c.thinkingBlock
  <2> DEFINE a == c.buffer \o chunk
  <2>1. a \in Texts /\ d = [c EXCEPT !.buffer = a]
    BY <1>2 DEF Received
  <2> HIDE DEF a
  <2>2. /\ d \in Contexts /\ d.buffer = a /\ d.section = c.section
        /\ d.thinkingBlock = c.thinkingBlock /\ d.blocks = c.blocks /\ d.sent = c.sent
        /\ d.textBlock = c.textBlock /\ d.toolBlock = c.toolBlock /\ d.phase = c.phase
        /\ d.thinkingEnabled = c.thinkingEnabled
    BY <1>1, <2>1 DEF Core, Contexts
  <2>3. OfKind(c, d.thinkingBlock, "thinking")
    BY <1>1, <2>2 DEF Core, Blocked
  <2> QED BY <2>2, <2>3 DEF Retouched, a
<1>4. Core(d) /\ Shown(d) = Shown(c) /\ \A t \in Tool : Given(d, t) = Given(c, t)
  BY <1>1, <1>3, RetouchedCore
<1>5. Stable(d)
  BY <1>3, <1>4 DEF Stable, Inside, Retouched, Entered
<1>6. Balance(d) = Balance(c) \o Visible(chunk)
  <2> DEFINE s == Shown(c)
             b == c.buffer
             vb == Visible(b)
             vc == Visible(chunk)
  <2>1. s \in Texts /\ vb \in Texts /\ vc \in Texts /\ Visible(b \o chunk) = vb \o vc
    BY <1>1, BlockFacts, ShownType, VisibleFacts
  <2>2. Balance(d) = s \o Visible(b \o chunk)
    BY <1>3, <1>4 DEF Balance
  <2>3. Balance(c) = s \o vb
    BY DEF Balance
  <2> HIDE DEF s, b, vb, vc
  <2>4. s \o (vb \o vc) = (s \o vb) \o vc
    <3>1. s \in Seq(Char) /\ vb \in Seq(Char) /\ vc \in Seq(Char)
      BY <2>1 DEF Texts
    <3> QED BY <3>1, ConcatAssociative
  <2> QED BY <2>1, <2>2, <2>3, <2>4 DEF vc
<1>7. KindsKept(c, d) /\ ToolsKept(c, d)
  BY <1>3 DEF KindsKept, ToolsKept, Retouched
<1> QED BY <1>3, <1>4, <1>5, <1>6, <1>7 DEF Retouched

LEMMA FlushRestFacts ==
  ASSUME NEW c, Stable(c), c.section = "after", NEW d, d = FlushRest(c)
  PROVE  Handled(c, d) /\ d.buffer = <<>>
<1> DEFINE f == TextUnlessEmpty(c, c.buffer)
<1>1. Core(c) /\ c.buffer \in Texts
  BY BufferText DEF Stable
<1>2. Wrote(c, f, c.buffer)
  BY <1>1, UnlessFacts
<1>3. d = [f EXCEPT !.buffer = <<>>]
  BY DEF FlushRest
<1> HIDE DEF f
<1>4. f \in Contexts /\ f.section = c.section
  BY <1>2, WroteTypes DEF Core, Kept
<1>5. d = Moved(f, c.section, <<>>)
  BY <1>3, <1>4 DEF Moved, Contexts
<1>6. c.section # "inside"
  OBVIOUS
<1>7. ASSUME NEW x, x = Moved(f, c.section, <<>>) PROVE Handled(c, x) /\ x.buffer = <<>>
  BY <1>2, <1>6, <1>7, EmptiedFacts, ZenonT(40)
<1> QED BY <1>5, <1>7

(* Behind the thinking nothing is kept back.                                  *)
Drained(c) == c.section = "after" => c.buffer = <<>>

LEMMA ContentFacts ==
  ASSUME NEW c, Stable(c), NEW chunk \in Texts, NEW d, d = ContentWithThinking(c, chunk)
  PROVE  Handled(Received(c, chunk), d) /\ Drained(d)
<1> DEFINE c0 == Received(c, chunk)
           c1 == IF c0.section = "before" THEN ScanForStart(c0) ELSE c0
           c2 == IF c1.section = "inside" THEN ScanForEnd(c1) ELSE c1
<1>1. d = IF c2.section = "after" THEN FlushRest(c2) ELSE c2
  BY DEF ContentWithThinking, Received
<1>2. Stable(c0)
  BY ReceivedFacts
<1>3. c1 = IF c0.section = "before" THEN ScanForStart(c0) ELSE c0
  OBVIOUS
<1>4. c2 = IF c1.section = "inside" THEN ScanForEnd(c1) ELSE c1
  OBVIOUS
<1> HIDE DEF c0, c1, c2
<1>5. Handled(c0, c1)
  BY <1>2, <1>3, ScanForStartFacts, HandledItself
<1>6. Stable(c1)
  BY <1>5 DEF Handled
<1>7. Handled(c1, c2)
  BY <1>4, <1>6, ScanForEndFacts, HandledItself
<1>8. Stable(c2)
  BY <1>7 DEF Handled
<1>9. Handled(c2, d) /\ Drained(d)
  BY <1>1, <1>8, FlushRestFacts, HandledItself DEF Drained
<1>10. Handled(c0, d)
  BY <1>5, <1>7, <1>9, HandledTransitive
<1> QED BY <1>9, <1>10 DEF c0

LEMMA CloseAtBufferEndFacts ==
  ASSUME NEW c, Stable(c), c.section = "inside", EndTagAtBufferEnd(c.buffer) # 0,
         NEW d, d = CloseAtBufferEnd(c)
  PROVE  Handled(c, d) /\ d.section = "after" /\ d.buffer = <<>>
<1> DEFINE end == EndTagAtBufferEnd(c.buffer)
           a == Upto(c.buffer, end - 1)
           f == [CloseThinking(ThinkingUnlessEmpty(c, a)) EXCEPT !.section = "after", !.buffer = <<>>]
<1>1. Core(c) /\ c.buffer \in Texts
  BY BufferText DEF Stable
<1>2. /\ a \in Texts /\ Visible(c.buffer) = Visible(a)
      /\ TrimStart(After(CloseTag, c.buffer, end)) = <<>>
  BY <1>1, LastTagCut
<1>3. d = TextUnlessEmpty(f, TrimStart(After(CloseTag, c.buffer, end)))
  BY DEF CloseAtBufferEnd
<1>4. d = f
  BY <1>2, <1>3 DEF TextUnlessEmpty
<1>5. d = Moved(CloseThinking(ThinkingUnlessEmpty(c, a)), "after", <<>>)
  BY <1>4 DEF Moved
<1> HIDE DEF f, a, end
<1>6. Visible(c.buffer) = Visible(a) \o Visible(<<>>)
  BY <1>2, EmptyText, VisibleFacts
<1> DEFINE rest == <<>>
<1>7. /\ rest \in Texts /\ Visible(c.buffer) = Visible(a) \o Visible(rest)
      /\ d = Moved(CloseThinking(ThinkingUnlessEmpty(c, a)), "after", rest)
  BY <1>5, <1>6, EmptyText
<1> HIDE DEF rest
<1>8. Handled(c, d) /\ d.section = "after" /\ d.buffer = rest
  BY <1>2, <1>7, EndOfThinking
<1> QED BY <1>8 DEF rest

LEMMA BoundaryFacts ==
  ASSUME NEW c, Stable(c), Drained(c), NEW d, d = BoundaryOfTool(c)
  PROVE  Handled(c, d) /\ (d.section # "inside" => d.buffer = <<>>)
<1> DEFINE e == IF c.section = "inside" /\ EndTagAtBufferEnd(c.buffer) # 0
                THEN CloseAtBufferEnd(c) ELSE c
           f == Text(e, e.buffer)
<1>1. d = IF e.section = "before" /\ e.buffer # <<>> THEN [f EXCEPT !.buffer = <<>>] ELSE e
  BY DEF BoundaryOfTool
<1>2. Handled(c, e) /\ Drained(e)
  BY CloseAtBufferEndFacts, HandledItself DEF Drained
<1> HIDE DEF e
<1>3. Stable(e) /\ Core(e) /\ e.buffer \in Texts /\ e.section \in Sections
  BY <1>2, BufferText DEF Handled, Stable, Core, Contexts
<1>4. Wrote(e, f, e.buffer)
  BY <1>3, TextFacts
<1> HIDE DEF f
<1>5. f \in Contexts /\ f.section = e.section
  BY <1>4, WroteTypes DEF Core, Kept
<1>6. CASE e.section = "before" /\ e.buffer # <<>>
  <2>1. d = Moved(f, e.section, <<>>)
    BY <1>1, <1>5, <1>6 DEF Moved, Contexts
  <2>2. e.section # "inside"
    BY <1>6
  <2>3. ASSUME NEW x, x = Moved(f, e.section, <<>>) PROVE Handled(e, x) /\ x.buffer = <<>>
    BY <1>3, <1>4, <2>2, <2>3, EmptiedFacts, ZenonT(40)
  <2>4. Handled(e, d) /\ d.buffer = <<>>
    BY <2>1, <2>3
  <2> QED BY <1>2, <2>4, HandledTransitive
<1>7. CASE ~(e.section = "before" /\ e.buffer # <<>>)
  BY <1>1, <1>2, <1>3, <1>7 DEF Drained, Sections
<1> QED BY <1>6, <1>7

LEMMA FlushAtEndFacts ==
  ASSUME NEW c, Stable(c), NEW d, d = FlushAtEnd(c)
  PROVE  Carried(c, d) /\ d.buffer = <<>>
<1>1. Core(c) /\ c.buffer \in Texts
  BY BufferText DEF Stable
<1>2. CASE c.buffer = <<>>
  <2>1. d = c
    BY <1>2 DEF FlushAtEnd
  <2> QED BY <1>2, <2>1, HandledItself, HandledCarries
<1>3. CASE c.buffer # <<>> /\ c.section = "inside" /\ EndTagAtBufferEnd(c.buffer) # 0
  <2>1. d = CloseAtBufferEnd(c)
    BY <1>3 DEF FlushAtEnd
  <2>2. Handled(c, d) /\ d.buffer = <<>>
    BY <1>3, <2>1, CloseAtBufferEndFacts
  <2> QED BY <2>2, HandledCarries
<1>4. CASE c.buffer # <<>> /\ c.section = "inside" /\ EndTagAtBufferEnd(c.buffer) = 0
  <2> DEFINE f == ThinkingDelta(c, c.buffer)
             e == CloseThinking(f)
             a == c.buffer
  <2>1. d = [e EXCEPT !.buffer = <<>>]
    BY <1>4 DEF FlushAtEnd
  <2>2. Inside(c) /\ a \in Texts
    BY <1>1, <1>4 DEF Stable
  <2>3. Wrote(c, f, a) /\ Inside(f)
    BY <1>1, <2>2, ThinkingDeltaFacts
  <2>4. e = CloseThinking(f)
    OBVIOUS
  <2> HIDE DEF f, e
  <2>5. Becomes(c, e, a) /\ ToolsKept(c, e)
    <3> HIDE DEF a
    <3> QED BY <1>1, <2>2, <2>3, <2>4, ThoughtFacts
  <2>6. Core(e) /\ Kept(c, e)
    BY <2>5 DEF Becomes
  <2> DEFINE rest == <<>>
  <2>7. d.buffer = rest /\ rest \in Texts
    BY <2>1, <2>6, EmptyText DEF Core, Contexts
  <2>8. Retouched(e, d)
    <3>1. e.thinkingBlock \in Nat /\ OfKind(e, e.thinkingBlock, "thinking")
      BY <2>6 DEF Core, Contexts, Blocked
    <3>2. d = [e EXCEPT !.buffer = rest]
      BY <2>1
    <3> HIDE DEF rest
    <3>3. /\ d \in Contexts /\ d.thinkingBlock = e.thinkingBlock /\ d.blocks = e.blocks
          /\ d.sent = e.sent /\ d.textBlock = e.textBlock /\ d.toolBlock = e.toolBlock
          /\ d.phase = e.phase
          /\ d.thinkingEnabled = e.thinkingEnabled
      BY <2>6, <2>7, <3>2 DEF Core, Contexts
    <3> QED BY <3>1, <3>3 DEF Retouched
  <2>9. Visible(c.buffer) = Visible(a) \o Visible(rest)
    BY <2>2, EmptyText, VisibleFacts
  <2> HIDE DEF a, rest
  <2>10. Carried(c, d)
    BY <1>1, <2>2, <2>5, <2>7, <2>8, <2>9, BalanceCarried
  <2> QED BY <2>7, <2>10 DEF rest
<1>5. CASE c.buffer # <<>> /\ c.section # "inside"
  <2> DEFINE f == Text(c, c.buffer)
  <2>1. d = [f EXCEPT !.buffer = <<>>]
    BY <1>5 DEF FlushAtEnd
  <2>2. Wrote(c, f, c.buffer)
    BY <1>1, TextFacts
  <2> HIDE DEF f
  <2>3. f \in Contexts /\ f.section = c.section
    BY <2>2, WroteTypes DEF Core, Kept
  <2>4. d = Moved(f, c.section, <<>>)
    BY <2>1, <2>3 DEF Moved, Contexts
  <2>5. c.section # "inside"
    BY <1>5
  <2>6. Handled(c, d) /\ d.buffer = <<>>
    <3>1. ASSUME NEW x, x = Moved(f, c.section, <<>>)
          PROVE  Handled(c, x) /\ x.section = c.section /\ x.buffer = <<>> /\ x.blocks = f.blocks
                 /\ x.stopReason = c.stopReason /\ x.thinkingBlock = c.thinkingBlock
      BY <2>2, <2>5, <3>1, EmptiedFacts, ZenonT(40)
    <3> QED BY <2>4, <3>1
  <2> QED BY <2>6, HandledCarries
<1> QED BY <1>2, <1>3, <1>4, <1>5

-----------------------------------------------------------------------------
(* The end of the message.                                                    *)
LEMMA SendQuiet ==
  ASSUME NEW c \in Contexts, NEW e \in Events, e.event # "block_delta", NEW d, d = Send(c, e)
  PROVE  /\ d \in Contexts /\ d.blocks = c.blocks /\ Kept(c, d) /\ d.textBlock = c.textBlock
         /\ Observed(d.sent) = Observe(Observed(c.sent), e)
         /\ Shown(d) = Shown(c) /\ \A t \in Tool : Given(d, t) = Given(c, t)
<1>1. c.sent \in Seq(Events)
  BY DEF Contexts
<1>2. d \in Contexts /\ d.blocks = c.blocks /\ d.sent = Append(c.sent, e)
      /\ d = [c EXCEPT !.sent = Append(c.sent, e)]
  BY SendFacts
<1>3. Kept(c, d) /\ d.textBlock = c.textBlock
  BY <1>2 DEF Kept, Contexts
<1>4. Observed(d.sent) = Observe(Observed(c.sent), e)
  BY <1>1, <1>2, ObservedAppend
<1>5. ASSUME NEW kinds PROVE SentText(d, kinds) = SentText(c, kinds)
  <2>1. SentText(d, kinds) = SentText(c, kinds) \o <<>>
    BY SentTextSend
  <2>2. SentText(c, kinds) \in Texts
    BY <1>1, SaidType
  <2> QED BY <2>1, <2>2, EmptyText
<1>6. Shown(d) = Shown(c) /\ \A t \in Tool : Given(d, t) = Given(c, t)
  BY <1>5 DEF Shown, Given
<1> QED BY <1>2, <1>3, <1>4, <1>6

LEMMA ObserveFirst == Observe(Silent, [event |-> "message_start"]) = Content({}, {})
<1> DEFINE p == Silent
<1>1. p = [phase |-> "silent", open |-> {}, closed |-> {}]
  BY DEF Silent
<1>2. Observe(p, [event |-> "message_start"]) = [p EXCEPT !.phase = "content"]
  BY <1>1 DEF Observe
<1>3. [p EXCEPT !.phase = "content"] = Content({}, {})
  BY <1>1 DEF Content
<1> QED BY <1>2, <1>3

LEMMA ObserveEnd ==
  ASSUME NEW C, NEW reason
  PROVE  LET p == Observe(Content({}, C), [event |-> "message_delta", reason |-> reason])
         IN  Observe(p, [event |-> "message_stop"]).phase = "stopped"
<1> DEFINE p == Observe(Content({}, C), [event |-> "message_delta", reason |-> reason])
<1>1. p = [phase |-> "closing", open |-> {}, closed |-> C]
  BY DEF Content, Observe
<1> HIDE DEF p
<1>2. Observe(p, [event |-> "message_stop"]).phase = "stopped"
  BY <1>1 DEF Observe
<1> QED BY <1>2 DEF p

Limits(c) ==
  /\ c.section \in Sections
  /\ c.stopReason \in StopReasons
  /\ c.textBlock \in 0 .. Len(c.blocks)
  /\ c.thinkingBlock \in 0 .. Len(c.blocks)
  /\ c.toolBlock \in [Tool -> 0 .. Len(c.blocks)]

LEMMA CoreLimits ==
  ASSUME NEW c, c \in Contexts, Blocked(c)
  PROVE  Limits(c)
<1>1. /\ c.section \in Sections /\ c.stopReason \in StopReasons /\ c.toolBlock \in [Tool -> Nat]
      /\ c.blocks \in Seq(BlockStates)
  BY DEF Contexts
<1>2. Len(c.blocks) \in Nat /\ DOMAIN c.blocks = 1 .. Len(c.blocks)
  BY <1>1
<1>3. \A b, kind : OfKind(c, b, kind) => b \in 0 .. Len(c.blocks)
  BY <1>2 DEF OfKind
<1>4. c.textBlock \in 0 .. Len(c.blocks) /\ c.thinkingBlock \in 0 .. Len(c.blocks)
  BY <1>3 DEF Blocked
<1>5. c.toolBlock \in [Tool -> 0 .. Len(c.blocks)]
  BY <1>1, <1>3 DEF Blocked
<1> QED BY <1>1, <1>4, <1>5 DEF Limits

LEMMA FinalStopReasonType ==
  ASSUME NEW c, c \in Contexts PROVE FinalStopReason(c) \in StopReasons
BY DEF FinalStopReason, StopReasons, Contexts

LEMMA MessageEndFacts ==
  ASSUME NEW c, Core(c), NEW d, d = MessageEnd(c)
  PROVE  /\ d \in Contexts /\ Blocked(d) /\ Kept(c, d) /\ KindsKept(c, d)
         /\ Observed(d.sent).phase = "stopped" /\ ReasonGiven(d.sent) = FinalStopReason(c)
         /\ Shown(d) = Shown(c) /\ \A t \in Tool : Given(d, t) = Given(c, t)
<1> DEFINE o == OpenBlocks(c, {"text", "thinking", "tool_use"})
           e == StopAll(c, o)
           m == [event |-> "message_delta", reason |-> FinalStopReason(c)]
           z == [event |-> "message_stop"]
           f == Send(e, m)
<1>1. o = Opened(c)
  <2>1. \A b \in DOMAIN c.blocks : c.blocks[b] \in BlockStates
    BY BlockFacts
  <2> QED BY <2>1 DEF OpenBlocks, Opened, BlockStates, Kinds
<1>2. d = Send(f, z) /\ e = StopAll(c, o) /\ f = Send(e, m)
  BY DEF MessageEnd
<1>3. m \in Events /\ z \in Events /\ m.event # "block_delta" /\ z.event # "block_delta"
  <2>1. c \in Contexts
    BY DEF Core
  <2> QED BY <2>1, EventTypes, FinalStopReasonType
<1>4. \A C : Observe(Observe(Content({}, C), m), z).phase = "stopped"
  <2> TAKE C
  <2>1. LET p == Observe(Content({}, C), m) IN Observe(p, z).phase = "stopped"
    BY ObserveEnd
  <2> QED BY <2>1
<1> HIDE DEF o, e, m, z, f
<1>5. /\ Becomes(c, e, <<>>)
      /\ DOMAIN e.blocks = DOMAIN c.blocks
      /\ \A b \in DOMAIN c.blocks :
           e.blocks[b] = IF b \in o THEN [kind |-> c.blocks[b].kind, open |-> FALSE]
                                    ELSE c.blocks[b]
  BY <1>1, <1>2, StopAllFacts
<1>6. Opened(e) = {}
  <2>1. ASSUME NEW b \in DOMAIN e.blocks PROVE ~e.blocks[b].open
    <3>1. CASE b \in o
      <4>1. e.blocks[b] = [kind |-> c.blocks[b].kind, open |-> FALSE]
        BY <1>5, <3>1
      <4> QED BY <4>1
    <3>2. CASE b \notin o
      <4>1. e.blocks[b] = c.blocks[b] /\ b \in DOMAIN c.blocks
        BY <1>5, <3>2
      <4> QED BY <1>1, <3>2, <4>1 DEF Opened
    <3> QED BY <3>1, <3>2
  <2> QED BY <2>1 DEF Opened
<1>7. Core(e) /\ Kept(c, e) /\ KindsKept(c, e) /\ Says(c, e, <<>>)
  BY <1>5 DEF Becomes
<1>8. Observed(e.sent) = Content({}, DOMAIN e.blocks)
  <2>1. Observed(e.sent) = Content(Opened(e), (DOMAIN e.blocks) \ Opened(e))
    BY <1>7, BlockFacts
  <2> QED BY <1>6, <2>1
<1>9. e \in Contexts /\ Blocked(e)
  BY <1>7 DEF Core
<1>10. /\ f \in Contexts /\ f.blocks = e.blocks /\ Kept(e, f) /\ f.textBlock = e.textBlock
       /\ Observed(f.sent) = Observe(Observed(e.sent), m)
       /\ Shown(f) = Shown(e) /\ \A t \in Tool : Given(f, t) = Given(e, t)
  BY <1>2, <1>3, <1>9, SendQuiet
<1>11. /\ d \in Contexts /\ d.blocks = f.blocks /\ Kept(f, d) /\ d.textBlock = f.textBlock
       /\ Observed(d.sent) = Observe(Observed(f.sent), z)
       /\ Shown(d) = Shown(f) /\ \A t \in Tool : Given(d, t) = Given(f, t)
  BY <1>2, <1>3, <1>10, SendQuiet
<1>12. Observed(d.sent).phase = "stopped"
  BY <1>4, <1>8, <1>10, <1>11
<1>13. Blocked(d)
  BY <1>9, <1>10, <1>11 DEF Blocked, OfKind, Kept
<1>14. Kept(c, d)
  BY <1>7, <1>10, <1>11, KeptTransitive
<1>15. KindsKept(c, d)
  BY <1>7, <1>10, <1>11 DEF KindsKept
<1>16. Shown(c) \in Texts /\ Shown(e) = Shown(c) \o <<>> /\ \A t \in Tool : Given(e, t) = Given(c, t)
  BY <1>7, BlockFacts, ShownType, EmptyText DEF Says
<1>17. Shown(d) = Shown(c) /\ \A t \in Tool : Given(d, t) = Given(c, t)
  BY <1>10, <1>11, <1>16, EmptyText
<1>18. ReasonGiven(d.sent) = FinalStopReason(c)
  <2>1. f.sent = Append(e.sent, m) /\ e.sent \in Seq(Events)
    <3>1. Send(e, m).sent = Append(e.sent, m)
      BY <1>3, <1>9, SendFacts
    <3> QED BY <1>2, <1>9, <3>1 DEF Contexts
  <2>2. d.sent = Append(f.sent, z)
    <3>1. Send(f, z).sent = Append(f.sent, z)
      BY <1>3, <1>10, SendFacts
    <3> QED BY <1>2, <3>1
  <2>3. Len(d.sent) = Len(e.sent) + 2 /\ Len(e.sent) \in Nat /\ f.sent \in Seq(Events)
    BY <1>3, <2>1, <2>2
  <2>4. d.sent[Len(e.sent) + 1] = m
    BY <1>3, <2>1, <2>2, <2>3
  <2>5. Len(d.sent) - 1 = Len(e.sent) + 1
    BY <2>3
  <2>6. ReasonGiven(d.sent) = m.reason
    BY <2>4, <2>5 DEF ReasonGiven
  <2> QED BY <2>6 DEF m
<1> QED BY <1>11, <1>12, <1>13, <1>14, <1>15, <1>17, <1>18

AnswerGiven(c, d) ==
  IF c.thinkingBlock # 0 /\ ~HasNonThinkingBlocks(c)
  THEN HasNonThinkingBlocks(d) /\ d.stopReason = "max_tokens"
  ELSE d = c

LEMMA AnswerFacts ==
  ASSUME NEW c, Core(c), NEW d, d = AnswerIfNone(c)
  PROVE  Core(d) /\ AnswerGiven(c, d) /\ d.buffer = c.buffer /\ d.phase = c.phase
         /\ d.toolBlock = c.toolBlock
         /\ Shown(d) = Shown(c) /\ \A t \in Tool : Given(d, t) = Given(c, t)
<1>1. CASE ~(c.thinkingBlock # 0 /\ ~HasNonThinkingBlocks(c))
  BY <1>1 DEF AnswerIfNone, AnswerGiven
<1>2. CASE c.thinkingBlock # 0 /\ ~HasNonThinkingBlocks(c)
  <2> DEFINE e == [c EXCEPT !.stopReason = "max_tokens"]
             text == <<Space>>
  <2>1. d = Text(e, text)
    BY <1>2 DEF AnswerIfNone
  <2>2. Retouched(c, e) /\ e.buffer = c.buffer
    <3>1. "max_tokens" \in StopReasons
      BY DEF StopReasons
    <3>2. c \in Contexts /\ OfKind(c, c.thinkingBlock, "thinking")
      BY DEF Core, Blocked
    <3> QED BY <3>1, <3>2 DEF Contexts, Retouched
  <2>3. text \in Texts /\ \A i \in DOMAIN text : text[i] \in Hidden
    BY DEF Texts, Char, Hidden
  <2> HIDE DEF e, text
  <2>4. Core(e) /\ Shown(e) = Shown(c) /\ \A t \in Tool : Given(e, t) = Given(c, t)
    BY <2>2, RetouchedCore
  <2>5. /\ Wrote(e, d, text)
        /\ d.textBlock \in DOMAIN d.blocks /\ d.blocks[d.textBlock].kind = "text"
    BY <2>1, <2>3, <2>4, TextFacts
  <2>6. Visible(text) = <<>>
    BY <2>3, VisibleFacts
  <2>7. Core(d) /\ Kept(e, d) /\ Says(e, d, text)
    BY <2>5 DEF Wrote, Becomes
  <2>8. Shown(d) = Shown(c) /\ \A t \in Tool : Given(d, t) = Given(c, t)
    <3>1. Shown(c) \in Texts
      BY BlockFacts, ShownType
    <3>2. Shown(d) = Shown(c) \o <<>>
      BY <2>4, <2>6, <2>7 DEF Says
    <3> QED BY <2>4, <2>7, <3>1, <3>2, EmptyText DEF Says
  <2>9. HasNonThinkingBlocks(d)
    BY <2>5 DEF HasNonThinkingBlocks
  <2>10. d.stopReason = "max_tokens"
    <3>1. e.stopReason = "max_tokens"
      BY DEF e, Core, Contexts
    <3> QED BY <2>7, <3>1 DEF Kept
  <2> QED BY <1>2, <2>2, <2>7, <2>8, <2>9, <2>10 DEF Kept, Retouched, AnswerGiven
<1> QED BY <1>1, <1>2

-----------------------------------------------------------------------------
(* The invariant.                                                             *)
Running(c) ==
  /\ Stable(c) /\ Balance(c) = Visible(received)
  /\ ~c.thinkingEnabled => c.thinkingBlock = 0 /\ c.buffer = <<>>
  /\ Drained(c)
Done(c) ==
  /\ c.sent \in Seq(Events) /\ Complete(c.sent) /\ Limits(c)
  /\ c.buffer = <<>> /\ Shown(c) = Visible(received)
GivenAll(c) == \A t \in Tool : Given(c, t) = toolInput[t]

Inv ==
  /\ ctx.phase \in {"new", "open", "ended"}
  /\ count \in 0 .. MaxEvents /\ received \in Texts /\ toolInput \in [Tool -> Nat]
  /\ ctx.phase = "new" => ctx \in {NewContext(thinking) : thinking \in BOOLEAN} /\ received = <<>>
  /\ ctx.phase = "open" => Running(ctx)
  /\ ctx.phase = "ended" => Done(ctx)
  /\ GivenAll(ctx)

LEMMA NewFacts ==
  ASSUME NEW thinking \in BOOLEAN, NEW c, c = NewContext(thinking)
  PROVE  /\ c \in Contexts /\ Blocked(c) /\ Placed(c)
         /\ c.blocks = <<>> /\ c.sent = <<>> /\ c.buffer = <<>>
         /\ c.phase = "new" /\ c.section = "before" /\ c.thinkingBlock = 0
         /\ Shown(c) = <<>> /\ \A t \in Tool : Given(c, t) = 0
<1>1. c \in Contexts /\ c.blocks = <<>> /\ c.sent = <<>> /\ c.buffer = <<>>
      /\ c.phase = "new" /\ c.section = "before" /\ c.thinkingBlock = 0
  BY EmptyText DEF NewContext, Contexts, Sections, StopReasons
<1>2. Blocked(c) /\ Placed(c)
  BY DEF NewContext, Blocked, OfKind, Placed
<1>3. ASSUME NEW kinds PROVE SentText(c, kinds) = <<>>
  <2>1. [i \in DOMAIN c.sent |-> Said(c, kinds, i)] = <<>>
    BY <1>1
  <2>2. c.sent \in Seq(Events)
    BY <1>1
  <2>3. SentText(c, kinds) = FlattenSeq([i \in DOMAIN c.sent |-> Said(c, kinds, i)])
    BY <2>2, SaidType
  <2> QED BY <2>1, <2>3, FlattenEmpty
<1>4. Shown(c) = <<>>
  BY <1>3, EmptyText DEF Shown
<1>5. \A t \in Tool : Given(c, t) = 0
  BY <1>3, WithinEmpty DEF Given
<1> QED BY <1>1, <1>2, <1>4, <1>5

LEMMA InitInv == Init => Inv
<1> SUFFICES ASSUME Init PROVE Inv
  OBVIOUS
<1>1. PICK thinking \in BOOLEAN : ctx = NewContext(thinking)
  BY DEF Init
<1>2. ctx.phase = "new" /\ \A t \in Tool : Given(ctx, t) = 0
  BY <1>1, NewFacts
<1>3. received = <<>> /\ toolInput = [t \in Tool |-> 0] /\ count = 0
  BY DEF Init
<1> QED BY <1>1, <1>2, <1>3, EmptyText, StreamAssumption DEF Inv, GivenAll

LEMMA StartInv == Inv /\ Start => Inv' /\ ctx'.toolBlock = ctx.toolBlock
<1> SUFFICES ASSUME Inv, Start PROVE Inv' /\ ctx'.toolBlock = ctx.toolBlock
  OBVIOUS
<1> DEFINE e == [event |-> "message_start"]
           s == Send(ctx, e)
           c == [s EXCEPT !.phase = "open"]
<1>1. PICK thinking \in BOOLEAN : ctx = NewContext(thinking)
  BY DEF Inv, Start
<1>2. /\ ctx \in Contexts /\ Blocked(ctx) /\ Placed(ctx)
      /\ ctx.blocks = <<>> /\ ctx.sent = <<>> /\ ctx.buffer = <<>>
      /\ ctx.section = "before" /\ ctx.thinkingBlock = 0
      /\ Shown(ctx) = <<>> /\ \A t \in Tool : Given(ctx, t) = 0
  BY <1>1, NewFacts
<1>3. ctx' = IF c.thinkingEnabled THEN c ELSE [StartBlock(c, "text") EXCEPT !.textBlock = 1]
  BY DEF Start
<1>4. e \in Events /\ e.event # "block_delta"
  BY EventTypes
<1>5. s = Send(ctx, e) /\ c = [s EXCEPT !.phase = "open"]
  OBVIOUS
<1> HIDE DEF s, c
<1>6. /\ s \in Contexts /\ s.blocks = <<>> /\ Kept(ctx, s) /\ s.textBlock = ctx.textBlock
      /\ Observed(s.sent) = Observe(Observed(ctx.sent), e)
      /\ Shown(s) = <<>> /\ \A t \in Tool : Given(s, t) = 0
  BY <1>2, <1>4, <1>5, SendQuiet
<1>7. Observed(s.sent) = Content({}, {})
  BY <1>2, <1>6, ObservedEmpty, ObserveFirst
<1>8. s.sent = Append(ctx.sent, e)
  BY <1>2, <1>4, <1>5, SendFacts
<1>9. /\ c \in Contexts /\ c.blocks = <<>> /\ c.sent = s.sent /\ c.buffer = <<>>
      /\ c.section = "before" /\ c.thinkingBlock = 0 /\ c.phase = "open"
      /\ c.textBlock = ctx.textBlock /\ c.toolBlock = ctx.toolBlock
  BY <1>2, <1>5, <1>6 DEF Contexts, Kept
<1>10. Core(c)
  <2>1. Blocked(c)
    BY <1>2, <1>9 DEF Blocked, OfKind
  <2>2. Placed(c)
    <3>1. DOMAIN c.sent = {1} /\ c.sent[1] = e
      BY <1>2, <1>8, <1>9
    <3> QED BY <1>4, <3>1 DEF Placed
  <2>3. Watched(c)
    <3>1. DOMAIN c.blocks = {} /\ Opened(c) = {}
      BY <1>9 DEF Opened
    <3> QED BY <1>7, <1>9, <3>1 DEF Watched, Content
  <2> QED BY <1>9, <2>1, <2>2, <2>3 DEF Core
<1>11. Shown(c) = <<>> /\ \A t \in Tool : Given(c, t) = 0
  <2>1. c.sent = s.sent /\ c.blocks = s.blocks
    BY <1>6, <1>9
  <2> QED BY <1>6, <2>1, SameMessage
<1>12. /\ Core(ctx') /\ Kept(c, ctx') /\ Shown(ctx') = <<>>
       /\ \A t \in Tool : Given(ctx', t) = 0
  <2>1. CASE c.thinkingEnabled
    BY <1>3, <1>10, <1>11, <2>1 DEF Kept
  <2>2. CASE ~c.thinkingEnabled
    <3> DEFINE d == IF IsOpen(c, c.textBlock) /\ c.blocks[c.textBlock].kind = "text"
                    THEN c ELSE [StartBlock(c, "text") EXCEPT !.textBlock = Len(c.blocks) + 1]
    <3>1. ~IsOpen(c, c.textBlock) /\ Len(c.blocks) = 0
      BY <1>9 DEF IsOpen
    <3>2. ctx' = d
      BY <1>3, <2>2, <3>1
    <3> HIDE DEF d
    <3>3. Wrote(c, d, <<>>)
      BY <1>10, OpenTextBlock DEF d
    <3>4. Core(d) /\ Kept(c, d) /\ Says(c, d, <<>>)
      BY <3>3 DEF Wrote, Becomes
    <3>5. Shown(d) = <<>> /\ \A t \in Tool : Given(d, t) = 0
      BY <1>11, <3>4, EmptyText DEF Says
    <3> QED BY <3>2, <3>4, <3>5
  <2> QED BY <2>1, <2>2
<1> DEFINE d == ctx'
<1>13. /\ Core(d) /\ d.phase = "open" /\ d.section = "before" /\ d.buffer = <<>>
       /\ d.thinkingBlock = 0 /\ Shown(d) = <<>> /\ \A t \in Tool : Given(d, t) = 0
  BY <1>9, <1>12 DEF Kept
<1> HIDE DEF d
<1>14. Stable(d) /\ Balance(d) = <<>>
  BY <1>13, EmptyText DEF Stable, Balance, Entered
<1>15. received' = <<>> /\ toolInput' = toolInput /\ count' = count /\ received = <<>>
  BY DEF Start, Inv
<1>16. \A t \in Tool : toolInput[t] = 0
  BY <1>2 DEF Inv, GivenAll
<1>17. Balance(d) = Visible(received')
  BY <1>14, <1>15, EmptyText
<1>18. Running(ctx)'
  BY <1>13, <1>14, <1>17 DEF Running, Drained, d
<1>19. GivenAll(ctx)'
  BY <1>13, <1>15, <1>16 DEF GivenAll, d
<1>20. ctx'.toolBlock = ctx.toolBlock
  BY <1>9, <1>12 DEF Kept
<1> QED BY <1>13, <1>15, <1>18, <1>19, <1>20 DEF Inv, d

LEMMA OpenFacts ==
  ASSUME Inv, ctx.phase = "open"
  PROVE  /\ Running(ctx) /\ Stable(ctx) /\ Core(ctx) /\ ctx \in Contexts /\ ctx.buffer \in Texts
         /\ Balance(ctx) = Visible(received) /\ received \in Texts
         /\ ~ctx.thinkingEnabled => ctx.thinkingBlock = 0 /\ ctx.buffer = <<>>
         /\ Drained(ctx) /\ GivenAll(ctx)
<1>1. Running(ctx) /\ received \in Texts /\ GivenAll(ctx)
  BY DEF Inv
<1>2. Stable(ctx) /\ Core(ctx)
  BY <1>1 DEF Running, Stable
<1> QED BY <1>1, <1>2, BufferText DEF Running, Core

LEMMA AssistantResponseInv ==
  ASSUME Inv, NEW chunk \in Chunks, AssistantResponse(chunk)
  PROVE  Inv' /\ ctx'.toolBlock = ctx.toolBlock /\ ctx'.phase = "open"
<1> DEFINE d == ctx'
           more == received \o chunk
<1>1. ctx.phase = "open" /\ count' \in 0 .. MaxEvents
  BY StreamAssumption DEF AssistantResponse, Upstream, Inv
<1>2. /\ Stable(ctx) /\ Core(ctx) /\ ctx \in Contexts /\ ctx.buffer \in Texts
      /\ Balance(ctx) = Visible(received) /\ received \in Texts
      /\ ~ctx.thinkingEnabled => ctx.thinkingBlock = 0 /\ ctx.buffer = <<>>
      /\ Drained(ctx) /\ GivenAll(ctx)
  BY <1>1, OpenFacts
<1>3. chunk \in Texts
  <2>1. chunk \in Seq(ToSet(chunk)) /\ ToSet(chunk) \subseteq Char
    BY StreamAssumption DEF Char
  <2> QED BY <2>1, SeqMonotonic DEF Texts
<1>4. received' = more /\ toolInput' = toolInput /\ more \in Texts
      /\ Visible(more) = Visible(received) \o Visible(chunk)
  BY <1>2, <1>3, ConcatProperties, VisibleFacts DEF AssistantResponse, Texts
<1>5. d = CASE chunk = <<>> -> ctx
            [] chunk # <<>> /\ ctx.thinkingEnabled -> ContentWithThinking(ctx, chunk)
            [] OTHER -> Text(ctx, chunk)
  BY DEF AssistantResponse
<1> HIDE DEF d
<1>6. /\ Stable(d) /\ d.phase = "open" /\ Balance(d) = Visible(more)
      /\ ~d.thinkingEnabled => d.thinkingBlock = 0 /\ d.buffer = <<>>
      /\ Drained(d) /\ \A t \in Tool : Given(d, t) = Given(ctx, t)
      /\ d.toolBlock = ctx.toolBlock
  <2>1. CASE chunk = <<>>
    <3>1. d = ctx
      BY <1>5, <2>1
    <3>2. Visible(more) = Visible(received)
      BY <1>2, <1>4, <2>1, EmptyText, VisibleFacts
    <3> QED BY <1>1, <1>2, <3>1, <3>2
  <2>2. CASE chunk # <<>> /\ ctx.thinkingEnabled
    <3> DEFINE c == Received(ctx, chunk)
    <3>1. d = ContentWithThinking(ctx, chunk)
      BY <1>5, <2>2
    <3>2. Handled(c, d) /\ Drained(d)
      BY <1>2, <1>3, <3>1, ContentFacts
    <3>3. c = Received(ctx, chunk)
      OBVIOUS
    <3> HIDE DEF c
    <3>4. /\ c.phase = ctx.phase /\ c.thinkingEnabled = ctx.thinkingEnabled
          /\ c.toolBlock = ctx.toolBlock
          /\ Balance(c) = Balance(ctx) \o Visible(chunk)
          /\ \A t \in Tool : Given(c, t) = Given(ctx, t)
      BY <1>2, <1>3, <3>3, ReceivedFacts, ZenonT(40)
    <3> QED BY <1>1, <1>2, <1>4, <2>2, <3>2, <3>4 DEF Handled
  <2>3. CASE chunk # <<>> /\ ~ctx.thinkingEnabled
    <3>1. d = Text(ctx, chunk)
      BY <1>5, <2>3
    <3>2. Wrote(ctx, d, chunk)
      BY <1>2, <1>3, <3>1, TextFacts
    <3>3. Core(d) /\ Kept(ctx, d) /\ Says(ctx, d, chunk) /\ OthersKept(ctx, d)
          /\ KindsKept(ctx, d)
      BY <3>2 DEF Wrote, Becomes
    <3>4. Inside(ctx) = FALSE
      <4>1. DOMAIN ctx.blocks = 1 .. Len(ctx.blocks)
        BY <1>2, BlockFacts
      <4>2. ctx.thinkingBlock = 0 /\ 0 \notin 1 .. Len(ctx.blocks)
        BY <1>2, <2>3
      <4> QED BY <4>1, <4>2 DEF Inside
    <3>5. Stable(d)
      BY <1>2, <3>3, <3>4 DEF Stable, Kept, Entered
    <3>6. /\ d.buffer = <<>> /\ ctx.buffer = <<>> /\ d.thinkingBlock = 0
          /\ d.phase = "open" /\ d.toolBlock = ctx.toolBlock
      BY <1>1, <1>2, <2>3, <3>3 DEF Kept
    <3>7. Shown(ctx) \in Texts /\ Shown(d) \in Texts
      BY <1>2, <3>3, BlockFacts, ShownType
    <3>8. Shown(d) = Shown(ctx) \o Visible(chunk) /\ Shown(ctx) = Visible(received)
      BY <1>2, <3>3, <3>6, <3>7, EmptyText DEF Says, Balance
    <3>9. Balance(d) = Visible(more)
      BY <1>4, <3>6, <3>7, <3>8, EmptyText DEF Balance
    <3>10. \A t \in Tool : Given(d, t) = Given(ctx, t)
      BY <3>3 DEF Says
    <3> QED BY <3>5, <3>6, <3>9, <3>10 DEF Drained
  <2> QED BY <2>1, <2>2, <2>3
<1>7. Running(ctx)'
  BY <1>4, <1>6 DEF Running, d
<1>8. GivenAll(ctx)'
  BY <1>2, <1>4, <1>6 DEF GivenAll, d
<1>9. toolInput' \in [Tool -> Nat] /\ received' \in Texts /\ ctx'.phase = "open"
  BY <1>4, <1>6 DEF Inv, d
<1> QED BY <1>1, <1>6, <1>7, <1>8, <1>9 DEF Inv, d

LEMMA LimitReachedInv ==
  ASSUME Inv, NEW reason \in {"max_tokens", "model_context_window_exceeded"},
         LimitReached(reason)
  PROVE  Inv' /\ ctx'.toolBlock = ctx.toolBlock /\ ctx'.phase = "open"
<1> DEFINE d == ctx'
<1>1. ctx.phase = "open" /\ count' \in 0 .. MaxEvents
  BY StreamAssumption DEF LimitReached, Upstream, Inv
<1>2. /\ Running(ctx) /\ Stable(ctx) /\ Core(ctx) /\ GivenAll(ctx)
  BY <1>1, OpenFacts
<1>3. d = [ctx EXCEPT !.stopReason = reason] /\ reason \in StopReasons
      /\ received' = received /\ toolInput' = toolInput
  BY DEF LimitReached, StopReasons
<1> HIDE DEF d
<1>4. /\ Retouched(ctx, d) /\ d.buffer = ctx.buffer /\ d.section = ctx.section
      /\ d.thinkingBlock = ctx.thinkingBlock
  <2>1. ctx \in Contexts /\ OfKind(ctx, ctx.thinkingBlock, "thinking")
    BY <1>2 DEF Core, Blocked
  <2> QED BY <1>3, <2>1 DEF Contexts, Retouched
<1>5. Core(d) /\ Shown(d) = Shown(ctx) /\ \A t \in Tool : Given(d, t) = Given(ctx, t)
  BY <1>2, <1>4, RetouchedCore
<1>6. Stable(d) /\ Balance(d) = Balance(ctx)
  BY <1>2, <1>4, <1>5 DEF Stable, Balance, Inside, Retouched, Entered
<1>7. Running(ctx)'
  BY <1>2, <1>3, <1>4, <1>6 DEF Running, Retouched, Drained, d
<1>8. GivenAll(ctx)'
  BY <1>2, <1>3, <1>5 DEF GivenAll, d
<1>9. ctx'.phase = "open" /\ ctx'.toolBlock = ctx.toolBlock
  BY <1>1, <1>4 DEF Retouched, d
<1> QED BY <1>1, <1>3, <1>7, <1>8, <1>9 DEF Inv

LEMMA FinishInv ==
  ASSUME Inv, Finish PROVE Inv' /\ ctx'.toolBlock = ctx.toolBlock
<1> DEFINE f == FlushAtEnd(ctx)
           c == IF ctx.thinkingEnabled THEN AnswerIfNone(f) ELSE ctx
           m == MessageEnd(c)
           d == ctx'
<1>1. ctx.phase = "open" /\ received' = received /\ toolInput' = toolInput /\ count' = count
  BY DEF Finish
<1>2. /\ Stable(ctx) /\ Core(ctx) /\ ctx \in Contexts
      /\ Balance(ctx) = Visible(received) /\ received \in Texts
      /\ ~ctx.thinkingEnabled => ctx.thinkingBlock = 0 /\ ctx.buffer = <<>>
      /\ GivenAll(ctx)
  BY <1>1, OpenFacts
<1>3. d = [m EXCEPT !.phase = "ended"]
  BY DEF Finish
<1>4. f = FlushAtEnd(ctx) /\ m = MessageEnd(c)
      /\ c = IF ctx.thinkingEnabled THEN AnswerIfNone(f) ELSE ctx
  OBVIOUS
<1> HIDE DEF d, m, c, f
<1>5. Carried(ctx, f) /\ f.buffer = <<>>
  BY <1>2, <1>4, FlushAtEndFacts
<1>6. /\ Core(c) /\ c.toolBlock = ctx.toolBlock /\ c.buffer = <<>> /\ Shown(c) = Visible(received)
      /\ \A t \in Tool : Given(c, t) = Given(ctx, t)
  <2>1. CASE ctx.thinkingEnabled
    <3>1. Core(f) /\ f.toolBlock = ctx.toolBlock /\ Balance(f) = Balance(ctx) /\ \A t \in Tool : Given(f, t) = Given(ctx, t)
      BY <1>5 DEF Carried
    <3>2. /\ Core(c) /\ c.toolBlock = f.toolBlock /\ c.buffer = f.buffer /\ Shown(c) = Shown(f)
          /\ \A t \in Tool : Given(c, t) = Given(f, t)
      BY <1>4, <2>1, <3>1, AnswerFacts
    <3>3. Shown(f) \in Texts
      BY <3>1, BlockFacts, ShownType
    <3>4. Shown(f) = Visible(received)
      BY <1>2, <1>5, <3>1, <3>3, EmptyText DEF Balance
    <3> QED BY <1>5, <3>1, <3>2, <3>4
  <2>2. CASE ~ctx.thinkingEnabled
    <3>1. Shown(ctx) \in Texts
      BY <1>2, BlockFacts, ShownType
    <3>2. Shown(ctx) = Visible(received)
      BY <1>2, <2>2, <3>1, EmptyText DEF Balance
    <3> QED BY <1>2, <1>4, <2>2, <3>2
  <2> QED BY <2>1, <2>2
<1>7. /\ m \in Contexts /\ Blocked(m) /\ Kept(c, m) /\ KindsKept(c, m)
      /\ Observed(m.sent).phase = "stopped"
      /\ Shown(m) = Shown(c) /\ \A t \in Tool : Given(m, t) = Given(c, t)
  BY <1>4, <1>6, MessageEndFacts
<1>8. /\ d \in Contexts /\ d.blocks = m.blocks /\ d.sent = m.sent /\ d.buffer = m.buffer
      /\ d.textBlock = m.textBlock /\ d.thinkingBlock = m.thinkingBlock
      /\ d.toolBlock = m.toolBlock /\ d.phase = "ended"
  BY <1>3, <1>7 DEF Contexts
<1>9. Limits(d)
  <2>1. Blocked(d)
    BY <1>7, <1>8 DEF Blocked, OfKind
  <2> QED BY <1>8, <2>1, CoreLimits
<1>11. Shown(d) = Visible(received) /\ \A t \in Tool : Given(d, t) = Given(ctx, t)
  BY <1>6, <1>7, <1>8, SameMessage
<1>12. d.sent \in Seq(Events) /\ Complete(d.sent) /\ d.buffer = <<>>
  BY <1>6, <1>7, <1>8 DEF Complete, Kept, Contexts
<1>13. Done(ctx)'
  BY <1>1, <1>9, <1>11, <1>12 DEF Done, d
<1>14. GivenAll(ctx)'
  BY <1>1, <1>2, <1>11 DEF GivenAll, d
<1>15. ctx'.phase = "ended" /\ ctx'.toolBlock = ctx.toolBlock
  BY <1>6, <1>7, <1>8 DEF d, Kept
<1> QED BY <1>1, <1>13, <1>14, <1>15 DEF Inv

-----------------------------------------------------------------------------
(* This event of a sequence, and no other, starts the block.                  *)
Starts(s, i, b) == s[i].event = "block_start" /\ s[i].block = b
OnlyStart(s, m, b) ==
  m \in 1 .. Len(s) /\ Starts(s, m, b) /\ \A i \in 1 .. Len(s) : i # m => ~Starts(s, i, b)

LEMMA FirstStartFacts ==
  ASSUME NEW s \in Seq(Events), NEW m, NEW b, OnlyStart(s, m, b)
  PROVE  FirstStart(s, b) = m
<1> DEFINE I == {i \in 1 .. Len(s) : s[i].event = "block_start" /\ s[i].block = b}
<1>1. I = {m} /\ m \in Int
  BY DEF OnlyStart, Starts
<1>2. FirstStart(s, b) = IF I # {} THEN Min(I) ELSE 0
  BY DEF FirstStart, SelectInSeq
<1> HIDE DEF I
<1>3. Min({m}) = m
  BY DEF Min
<1> QED BY <1>1, <1>2, <1>3

LEMMA ObserveStarts ==
  ASSUME NEW p \in Observers, NEW e \in Events, Observe(p, e).phase # "refused"
  PROVE  /\ p.phase # "refused"
         /\ p.open \cup p.closed \subseteq Observe(p, e).open \cup Observe(p, e).closed
         /\ e.event = "block_start" => e.block \in Observe(p, e).open
<1>1. Refuse(p).phase = "refused"
  BY DEF Refuse, Observers
<1> QED BY <1>1 DEF Observe, Observers

(* A block that was started is open or closed.                                *)
Seen(p, s, i) ==
  p.phase # "refused" =>
    \A j \in 1 .. i : s[j].event = "block_start" => s[j].block \in p.open \cup p.closed

LEMMA StartsSeen ==
  ASSUME NEW s \in Seq(Events) PROVE Seen(Observed(s), s, Len(s))
<1>1. PICK g : Observes(g, s) /\ Observed(s) = g[Len(s)]
  BY ObservedExists
<1>2. PICK n \in Nat : n = Len(s) /\ \A i \in 1 .. n : s[i] \in Events
  OBVIOUS
<1> DEFINE T == {i \in 0 .. n : Seen(g[i], s, i)}
<1>3. 0 \in T
  BY DEF Seen
<1>4. ASSUME NEW i \in 1 .. n, i - 1 \in T PROVE i \in T
  <2>1. g[i] = Observe(g[i - 1], s[i]) /\ g[i - 1] \in Observers /\ s[i] \in Events
    BY <1>1, <1>2 DEF Observes
  <2>2. Seen(g[i - 1], s, i - 1)
    BY <1>4
  <2> SUFFICES ASSUME g[i].phase # "refused", NEW j \in 1 .. i, s[j].event = "block_start"
               PROVE  s[j].block \in g[i].open \cup g[i].closed
    BY DEF Seen
  <2>3. /\ g[i - 1].phase # "refused"
        /\ g[i - 1].open \cup g[i - 1].closed \subseteq g[i].open \cup g[i].closed
        /\ s[i].event = "block_start" => s[i].block \in g[i].open
    BY <2>1, ObserveStarts
  <2>4. CASE j = i
    BY <2>3, <2>4
  <2>5. CASE j # i
    <3>1. j \in 1 .. i - 1
      BY <2>5
    <3>2. s[j].block \in g[i - 1].open \cup g[i - 1].closed
      BY <2>2, <2>3, <3>1 DEF Seen
    <3> QED BY <2>3, <3>2
  <2> QED BY <2>4, <2>5
<1> HIDE DEF T
<1>5. 0 .. n \subseteq T
  BY <1>2, <1>3, <1>4, InductionUpTo
<1>6. n \in 0 .. n
  BY <1>2
<1> QED BY <1>1, <1>2, <1>5, <1>6 DEF T

(* A context of which only the part up to the start of a block was sent.     *)
Upfront(c, n) == [c EXCEPT !.sent = SubSeq(@, 1, FirstStart(@, n))]

(* Events that start no block.                                                *)
Quiet(s) == s \in Seq(Events) /\ \A i \in DOMAIN s : s[i].event # "block_start"
Adds(c, d) == KindsKept(c, d) /\ d.toolBlock = c.toolBlock /\ \E s : Quiet(s) /\ d.sent = c.sent \o s

LEMMA QuietOne ==
  ASSUME NEW e \in Events, e.event # "block_start" PROVE Quiet(<<e>>)
BY DEF Quiet

LEMMA AddsNothing ==
  ASSUME NEW c, Core(c) PROVE Adds(c, c)
<1>1. c.sent \o <<>> = c.sent
  BY BlockFacts, ConcatEmptySeq
<1>2. Quiet(<<>>)
  BY DEF Quiet
<1> QED BY <1>1, <1>2 DEF Adds, KindsKept

LEMMA AddsOne ==
  ASSUME NEW c, Core(c), NEW d, KindsKept(c, d), d.toolBlock = c.toolBlock,
         NEW e \in Events, e.event # "block_start", d.sent = Append(c.sent, e)
  PROVE  Adds(c, d)
<1>1. d.sent = c.sent \o <<e>>
  <2>1. c.sent \in Seq(Events)
    BY BlockFacts
  <2> QED BY <2>1
<1> QED BY <1>1, QuietOne DEF Adds

LEMMA AddsTransitive ==
  ASSUME NEW c, NEW d, NEW e, Core(c), Adds(c, d), Adds(d, e) PROVE Adds(c, e)
<1>1. PICK s : Quiet(s) /\ d.sent = c.sent \o s
  BY DEF Adds
<1>2. PICK t : Quiet(t) /\ e.sent = d.sent \o t
  BY DEF Adds
<1>3. s \in Seq(Events) /\ t \in Seq(Events) /\ c.sent \in Seq(Events)
  BY <1>1, <1>2, BlockFacts DEF Quiet
<1>4. (c.sent \o s) \o t = c.sent \o (s \o t)
  <2> DEFINE a == c.sent
  <2>1. a \in Seq(Events)
    BY <1>3
  <2> HIDE DEF a
  <2>2. (a \o s) \o t = a \o (s \o t)
    BY <1>3, <2>1, ConcatAssociative, SMTT(30)
  <2> QED BY <2>2 DEF a
<1>5. Quiet(s \o t)
  <2>1. PICK m \in Nat, n \in Nat : m = Len(s) /\ n = Len(t) /\ DOMAIN s = 1 .. m /\ DOMAIN t = 1 .. n
    BY <1>3
  <2>2. s \o t \in Seq(Events) /\ DOMAIN (s \o t) = 1 .. m + n
        /\ \A i \in 1 .. m + n : (s \o t)[i] = IF i <= m THEN s[i] ELSE t[i - m]
    BY <1>3, <2>1
  <2>3. ASSUME NEW i \in 1 .. m + n PROVE (s \o t)[i].event # "block_start"
    <3>1. i <= m => i \in DOMAIN s
      BY <2>1
    <3>2. ~(i <= m) => i - m \in DOMAIN t
      BY <2>1
    <3> QED BY <1>1, <1>2, <2>2, <3>1, <3>2 DEF Quiet
  <2> QED BY <2>2, <2>3 DEF Quiet
<1>6. e.sent = c.sent \o (s \o t)
  BY <1>1, <1>2, <1>4
<1>7. KindsKept(c, e) /\ e.toolBlock = c.toolBlock
  BY KindsTransitive DEF Adds
<1> QED BY <1>5, <1>6, <1>7 DEF Adds

(* What is sent after the start of a block leaves what was sent before it.    *)
LEMMA UpfrontFacts ==
  ASSUME NEW f, Core(f), NEW n, n \notin DOMAIN f.blocks,
         NEW e, Core(e), e.sent = Append(f.sent, [event |-> "block_start", block |-> n]),
         NEW d, Core(d), Adds(e, d)
  PROVE  Shown(Upfront(d, n)) = Shown(e)
<1>a. PICK extra : Quiet(extra) /\ d.sent = e.sent \o extra
  BY DEF Adds
<1> DEFINE start == [event |-> "block_start", block |-> n]
<1>0. f.sent \in Seq(Events) /\ e.sent \in Seq(Events) /\ d.sent \in Seq(Events)
  BY BlockFacts
<1>1. PICK m \in Nat : m = Len(f.sent) /\ DOMAIN f.sent = 1 .. m
  BY <1>0
<1>2. /\ Len(e.sent) = m + 1 /\ \A i \in 1 .. m : e.sent[i] = f.sent[i]
      /\ e.sent[m + 1].event = "block_start" /\ e.sent[m + 1].block = n
  <2>1. e.sent = Append(f.sent, start)
    OBVIOUS
  <2>2. start.event = "block_start" /\ start.block = n
    OBVIOUS
  <2> HIDE DEF start
  <2>3. Len(e.sent) = m + 1 /\ (\A i \in 1 .. m : e.sent[i] = f.sent[i]) /\ e.sent[m + 1] = start
    BY <1>0, <1>1, <2>1
  <2> QED BY <2>2, <2>3
<1>3. PICK k \in Nat : k = Len(extra) /\ DOMAIN extra = 1 .. k
  BY <1>a DEF Quiet
<1>4. /\ Len(d.sent) = m + 1 + k
      /\ \A i \in 1 .. m + 1 : d.sent[i] = e.sent[i]
      /\ \A i \in 1 .. k : d.sent[m + 1 + i] = extra[i]
  <2>1. d.sent = e.sent \o extra /\ extra \in Seq(Events)
    BY <1>a DEF Quiet
  <2>2. /\ Len(e.sent \o extra) = Len(e.sent) + Len(extra)
        /\ \A i \in 1 .. Len(e.sent) + Len(extra) :
             (e.sent \o extra)[i] = IF i <= Len(e.sent) THEN e.sent[i] ELSE extra[i - Len(e.sent)]
    BY <1>0, <2>1, ConcatProperties
  <2>3. /\ Len(d.sent) = m + 1 + k
        /\ \A i \in 1 .. m + 1 + k : d.sent[i] = IF i <= m + 1 THEN e.sent[i] ELSE extra[i - (m + 1)]
    BY <1>2, <1>3, <2>1, <2>2
  <2>4. ASSUME NEW i \in 1 .. k PROVE d.sent[m + 1 + i] = extra[i]
    <3> DEFINE x == m + 1 + i
    <3>1. x \in 1 .. m + 1 + k /\ ~(x <= m + 1) /\ x - (m + 1) = i
      OBVIOUS
    <3> HIDE DEF x
    <3>2. d.sent[x] = IF x <= m + 1 THEN e.sent[x] ELSE extra[x - (m + 1)]
      BY <2>3, <3>1
    <3> QED BY <3>1, <3>2 DEF x
  <2>5. \A i \in 1 .. m + 1 : i \in 1 .. m + 1 + k /\ i <= m + 1
    OBVIOUS
  <2> QED BY <2>3, <2>4, <2>5
<1>5. ASSUME NEW i \in 1 .. Len(d.sent), i # m + 1
      PROVE  ~Starts(d.sent, i, n)
  <2>1. CASE i \in 1 .. m
    <3>1. d.sent[i] = f.sent[i]
      BY <1>2, <1>4, <2>1
    <3>2. Seen(Observed(f.sent), f.sent, Len(f.sent))
      BY <1>0, StartsSeen
    <3>3. Observed(f.sent) = Content(Opened(f), (DOMAIN f.blocks) \ Opened(f))
      BY BlockFacts
    <3>4. f.sent[i].event = "block_start" => f.sent[i].block \in DOMAIN f.blocks
      BY <1>1, <2>1, <3>2, <3>3 DEF Seen, Content, Opened
    <3> QED BY <3>1, <3>4 DEF Starts
  <2>2. CASE i \notin 1 .. m
    <3>1. PICK j \in 1 .. k : i = m + 1 + j
      <4>1. i - (m + 1) \in 1 .. k /\ i = m + 1 + (i - (m + 1))
        BY <1>4, <1>5, <2>2
      <4> QED BY <4>1
    <3> QED BY <1>a, <1>3, <1>4, <3>1 DEF Starts, Quiet
  <2> QED BY <2>1, <2>2
<1>6. FirstStart(d.sent, n) = m + 1
  <2>1. m + 1 \in 1 .. Len(d.sent)
    BY <1>4
  <2>2. Starts(d.sent, m + 1, n)
    <3>1. m + 1 \in 1 .. m + 1
      OBVIOUS
    <3>2. d.sent[m + 1] = e.sent[m + 1]
      BY <1>4, <3>1
    <3> QED BY <1>2, <3>2 DEF Starts
  <2>3. OnlyStart(d.sent, m + 1, n)
    BY <1>5, <2>1, <2>2 DEF OnlyStart
  <2> QED BY <1>0, <2>3, FirstStartFacts
<1>7. SubSeq(d.sent, 1, m + 1) = e.sent
  <2> DEFINE u == SubSeq(d.sent, 1, m + 1)
  <2>1. u \in Seq(Events) /\ Len(u) = m + 1
    BY <1>0, <1>4, SubSeqProperties
  <2>2. \A i \in 1 .. m + 1 : u[i] = d.sent[i]
    BY <1>0, <1>4, SubSeqProperties
  <2> HIDE DEF u
  <2>3. u = e.sent
    BY <1>0, <1>2, <1>4, <2>1, <2>2, SeqEqual, SMTT(30)
  <2> QED BY <2>3 DEF u
<1> DEFINE u == Upfront(d, n)
<1>8. u.sent = e.sent /\ u.blocks = d.blocks
  <2>1. d \in Contexts
    BY DEF Core
  <2> QED BY <1>6, <1>7, <2>1 DEF Upfront, Contexts
<1> HIDE DEF u
<1>9. KindsKept(e, u) /\ Placed(e)
  BY <1>8 DEF Adds, KindsKept, Core
<1>10. \A kinds : SentText(u, kinds) = SentText(e, kinds)
  BY <1>0, <1>8, <1>9, SentTextKinds
<1> QED BY <1>10 DEF Shown, u

-----------------------------------------------------------------------------
(* A tool call: nothing is shown by it, and its fragment is given to it.      *)
Aside(c, d) ==
  /\ Stable(d) /\ d.phase = c.phase /\ d.thinkingEnabled = c.thinkingEnabled
  /\ d.section = c.section /\ d.buffer = c.buffer
  /\ d.thinkingBlock = c.thinkingBlock /\ Shown(d) = Shown(c)

LEMMA AsideTransitive ==
  ASSUME NEW c, NEW d, NEW e, Aside(c, d), Aside(d, e) PROVE Aside(c, e)
BY DEF Aside

LEMMA AsideBecomes ==
  ASSUME NEW c, NEW d, Stable(c), Becomes(c, d, <<>>),
         c.section = "inside" => d.blocks[c.thinkingBlock].open
  PROVE  Aside(c, d) /\ \A t \in Tool : Given(d, t) = Given(c, t)
<1>1. Core(c) /\ Core(d) /\ Kept(c, d) /\ KindsKept(c, d) /\ Says(c, d, <<>>)
  BY DEF Stable, Becomes
<1>2. Shown(c) \in Texts
  BY <1>1, BlockFacts, ShownType
<1>3. Shown(d) = Shown(c)
  BY <1>1, <1>2, EmptyText DEF Says
<1>4. Stable(d)
  BY <1>1 DEF Stable, Inside, Kept, KindsKept, Entered
<1> QED BY <1>1, <1>3, <1>4 DEF Aside, Kept, Says

ToolBlock(c, t) ==
  IF c.toolBlock[t] = 0
  THEN [StartBlock(c, "tool_use") EXCEPT !.toolBlock[t] = Len(c.blocks) + 1]
  ELSE StopAll(c, OpenBlocks(c, {"text"}))

(* The block of the tool is there, and open unless it was closed before.      *)
ToolReady(c, d, t) ==
  /\ d.toolBlock[t] \in DOMAIN d.blocks /\ d.blocks[d.toolBlock[t]].kind = "tool_use"
  /\ d.blocks[d.toolBlock[t]].open <=> (c.toolBlock[t] = 0 \/ IsOpen(c, c.toolBlock[t]))

LEMMA ToolBlockFacts ==
  ASSUME NEW c, Stable(c), NEW t \in Tool, NEW d, d = ToolBlock(c, t)
  PROVE  Aside(c, d) /\ ToolReady(c, d, t) /\ \A u \in Tool : Given(d, u) = Given(c, u)
<1>1. Core(c) /\ (c.section = "inside" => Inside(c)) /\ c.toolBlock \in [Tool -> Nat]
  BY DEF Stable, Core, Contexts
<1>2. c.section = "inside" => c.thinkingBlock \in DOMAIN c.blocks
        /\ c.blocks[c.thinkingBlock].open /\ c.blocks[c.thinkingBlock].kind = "thinking"
  <2>1. OfKind(c, c.thinkingBlock, "thinking") /\ DOMAIN c.blocks = 1 .. Len(c.blocks)
    BY <1>1, BlockFacts DEF Core, Blocked
  <2> QED BY <1>1, <2>1 DEF Inside, OfKind
<1>3. CASE c.toolBlock[t] = 0
  <2> DEFINE e == StartBlock(c, "tool_use")
             n == Len(c.blocks) + 1
  <2>1. e = StartBlock(c, "tool_use") /\ d = [e EXCEPT !.toolBlock[t] = n]
    BY <1>3 DEF ToolBlock
  <2> HIDE DEF e
  <2>2. Started(c, e, "tool_use")
    BY <1>1, <2>1, StartBlockFacts
  <2>3. /\ Becomes(c, e, <<>>) /\ Core(e) /\ Kept(c, e) /\ n \in DOMAIN e.blocks
        /\ e.blocks[n].kind = "tool_use" /\ e.blocks[n].open
        /\ \A b \in DOMAIN c.blocks : c.blocks[b].kind # "text" => e.blocks[b] = c.blocks[b]
    BY <2>2 DEF Started, Becomes
  <2>4. Aside(c, e) /\ \A u \in Tool : Given(e, u) = Given(c, u)
    <3>1. c.section = "inside" => e.blocks[c.thinkingBlock].open
      BY <1>2, <2>3
    <3> QED BY <2>3, <3>1, AsideBecomes
  <2>5. n \in Nat
    BY <1>1, BlockFacts
  <2> HIDE DEF n
  <2>6. /\ d \in Contexts /\ d.blocks = e.blocks /\ d.sent = e.sent
        /\ d.textBlock = e.textBlock /\ Kept([e EXCEPT !.toolBlock = d.toolBlock], d)
        /\ d.toolBlock = [e.toolBlock EXCEPT ![t] = n]
        /\ d.phase = e.phase /\ d.thinkingEnabled = e.thinkingEnabled /\ d.section = e.section
        /\ d.buffer = e.buffer /\ d.thinkingBlock = e.thinkingBlock
    BY <2>1, <2>3, <2>5, ZenonT(60) DEF Core, Contexts, Kept
  <2>7. e.toolBlock \in [Tool -> Nat]
    BY <2>3 DEF Core, Contexts
  <2>8. Core(d)
    <3>1. Blocked(e) /\ Placed(e) /\ Watched(e)
      BY <2>3 DEF Core
    <3>2. \A u \in Tool : OfKind(d, d.toolBlock[u], "tool_use")
      <4> TAKE u \in Tool
      <4>1. d.toolBlock[u] = IF u = t THEN n ELSE e.toolBlock[u]
        BY <2>6, <2>7
      <4> QED BY <2>3, <2>6, <3>1, <4>1 DEF Blocked, OfKind
    <3>3. Blocked(d)
      BY <2>6, <3>1, <3>2 DEF Blocked, OfKind
    <3>4. Placed(d) /\ Watched(d)
      BY <2>6, <3>1 DEF Placed, Watched, Opened
    <3> QED BY <2>6, <3>3, <3>4 DEF Core
  <2>9. Shown(d) = Shown(e) /\ \A u \in Tool : Given(d, u) = Given(e, u)
    BY <2>6, SameMessage
  <2>10. Stable(d)
    BY <2>4, <2>6, <2>8 DEF Stable, Inside, Aside, Entered
  <2>11. Aside(e, d)
    BY <2>6, <2>9, <2>10 DEF Aside
  <2>12. d.toolBlock[t] = n
    BY <2>6, <2>7
  <2>13. ToolReady(c, d, t)
    BY <1>3, <2>3, <2>6, <2>12 DEF ToolReady
  <2> QED BY <2>4, <2>9, <2>11, <2>13, AsideTransitive
<1>4. CASE c.toolBlock[t] # 0
  <2> DEFINE o == OpenBlocks(c, {"text"})
             b == c.toolBlock[t]
  <2>1. o \in SUBSET Opened(c) /\ \A x \in o : c.blocks[x].kind = "text"
    BY DEF OpenBlocks, Opened
  <2>2. d = StopAll(c, o)
    BY <1>4 DEF ToolBlock
  <2> HIDE DEF o
  <2>3. /\ Becomes(c, d, <<>>)
        /\ DOMAIN d.blocks = DOMAIN c.blocks
        /\ \A x \in DOMAIN c.blocks :
             d.blocks[x] = IF x \in o THEN [kind |-> c.blocks[x].kind, open |-> FALSE]
                                      ELSE c.blocks[x]
    BY <1>1, <2>1, <2>2, StopAllFacts
  <2>4. \A x \in DOMAIN c.blocks : c.blocks[x].kind # "text" => d.blocks[x] = c.blocks[x]
    BY <2>1, <2>3
  <2>5. Aside(c, d) /\ \A u \in Tool : Given(d, u) = Given(c, u)
    <3>1. c.section = "inside" => d.blocks[c.thinkingBlock].open
      BY <1>2, <2>4
    <3> QED BY <2>3, <3>1, AsideBecomes
  <2>6. b \in DOMAIN c.blocks /\ c.blocks[b].kind = "tool_use"
    BY <1>1, <1>4 DEF Core, Blocked, OfKind
  <2>7. d.toolBlock = c.toolBlock
    BY <2>3 DEF Becomes, Kept
  <2>8. ToolReady(c, d, t)
    BY <1>4, <2>3, <2>4, <2>6, <2>7 DEF ToolReady, IsOpen
  <2> QED BY <2>5, <2>8
<1> QED BY <1>3, <1>4

(* The block of a tool that has none starts after all that was sent.          *)
ToolPlaced(c, e, t, n) ==
  /\ c.toolBlock[t] # 0 => e.toolBlock = c.toolBlock
  /\ c.toolBlock[t] = 0 =>
       /\ e.toolBlock = [c.toolBlock EXCEPT ![t] = n]
       /\ \E f : /\ Core(f) /\ n \notin DOMAIN f.blocks
                 /\ e.sent = Append(f.sent, [event |-> "block_start", block |-> n])

LEMMA ToolBlockPlace ==
  ASSUME NEW c, Core(c), NEW t \in Tool, NEW e, e = ToolBlock(c, t)
  PROVE  \E n \in Nat : ToolPlaced(c, e, t, n)
<1> DEFINE o == OpenBlocks(c, {"text"})
           f == StopAll(c, o)
           n == Len(c.blocks) + 1
           x == [kind |-> "tool_use", open |-> TRUE]
           start == [event |-> "block_start", block |-> n]
<1>1. o \in SUBSET Opened(c) /\ f = StopAll(c, o)
  BY DEF OpenBlocks, Opened
<1>2. e = IF c.toolBlock[t] = 0
          THEN [Send([f EXCEPT !.blocks = Append(@, x)],
                     [event |-> "block_start", block |-> Len(f.blocks) + 1]) EXCEPT !.toolBlock[t] = n]
          ELSE f
  BY DEF ToolBlock, StartBlock
<1> HIDE DEF o, f, x
<1>3. /\ Becomes(c, f, <<>>) /\ DOMAIN f.blocks = DOMAIN c.blocks
      /\ Len(c.blocks) \in Nat /\ DOMAIN c.blocks = 1 .. Len(c.blocks)
  BY <1>1, StopAllFacts, BlockFacts
<1>4. Core(f) /\ f.toolBlock = c.toolBlock /\ f \in Contexts
  BY <1>3 DEF Becomes, Kept, Core
<1>5. Len(f.blocks) = Len(c.blocks)
  <2>1. 1 .. Len(f.blocks) = 1 .. Len(c.blocks) /\ Len(f.blocks) \in Nat
    BY <1>3, <1>4, BlockFacts
  <2> QED BY <1>3, <2>1
<1>6. n \in Nat /\ n \notin DOMAIN f.blocks
  BY <1>3
<1>7. c.toolBlock[t] # 0 => e.toolBlock = c.toolBlock
  BY <1>2, <1>4
<1>8. ASSUME c.toolBlock[t] = 0
      PROVE  e.toolBlock = [c.toolBlock EXCEPT ![t] = n] /\ e.sent = Append(f.sent, start)
  <2> DEFINE g == Send([f EXCEPT !.blocks = Append(@, x)], start)
  <2>1. g.toolBlock = f.toolBlock /\ g.sent = Append(f.sent, start)
        /\ {"toolBlock", "sent"} \subseteq DOMAIN g
    BY <1>4 DEF Send, Contexts
  <2>2. e = [g EXCEPT !.toolBlock[t] = n]
    BY <1>2, <1>5, <1>8
  <2> HIDE DEF g, n, start
  <2> QED BY <1>4, <2>1, <2>2
<1> HIDE DEF n
<1>9. ToolPlaced(c, e, t, n)
  BY <1>4, <1>6, <1>7, <1>8 DEF ToolPlaced
<1> QED BY <1>6, <1>9

LEMMA InputFacts ==
  ASSUME NEW c, Stable(c), NEW t \in Tool, NEW b \in DOMAIN c.blocks,
         c.blocks[b].kind = "tool_use", NEW fragment \in BOOLEAN,
         NEW d, d = IF fragment THEN Delta(c, b, <<t>>) ELSE c
  PROVE  /\ Aside(c, d) /\ d.blocks = c.blocks /\ d.toolBlock = c.toolBlock /\ Adds(c, d)
         /\ \A u \in Tool : Given(d, u) = IF fragment /\ c.blocks[b].open /\ u = t
                                          THEN Given(c, u) + 1 ELSE Given(c, u)
<1>1. Core(c)
  BY DEF Stable
<1>2. CASE fragment /\ c.blocks[b].open
  <2>1. d = Send(c, [event |-> "block_delta", block |-> b, text |-> <<t>>])
    BY <1>2 DEF Delta, IsOpen
  <2>2. /\ Core(d) /\ Kept(c, d) /\ KindsKept(c, d)
        /\ d.textBlock = c.textBlock /\ d.blocks = c.blocks
        /\ Shown(d) = Shown(c) /\ GivenOne(c, d, t)
    BY <1>1, <1>2, <2>1, GivenDelta
  <2>3. Stable(d)
    BY <2>2 DEF Stable, Inside, Kept, Entered
  <2>4. Adds(c, d)
    <3> DEFINE e == [event |-> "block_delta", block |-> b, text |-> <<t>>]
    <3>1. e \in Events /\ e.event # "block_start"
      <4>1. b \in Nat /\ <<t>> \in Texts
        <5>1. b \in Nat
          <6>1. DOMAIN c.blocks = 1 .. Len(c.blocks)
            BY <1>1, BlockFacts
          <6> QED BY <6>1
        <5> QED BY <5>1 DEF Texts, Char
      <4> QED BY <4>1, EventTypes
    <3>2. d = Send(c, e)
      BY <2>1
    <3> HIDE DEF e
    <3>3. d.sent = Append(c.sent, e)
      BY <1>1, <3>1, <3>2, SendFacts DEF Core
    <3> QED BY <1>1, <2>2, <3>1, <3>3, AddsOne DEF Kept
  <2> QED BY <1>2, <2>2, <2>3, <2>4 DEF Aside, Kept, GivenOne
<1>3. CASE ~(fragment /\ c.blocks[b].open)
  <2>1. d = c
    BY <1>3 DEF Delta, IsOpen
  <2> QED BY <1>1, <1>3, <2>1, AddsNothing DEF Aside
<1> QED BY <1>2, <1>3

LEMMA StopToolFacts ==
  ASSUME NEW c, Stable(c), NEW b \in DOMAIN c.blocks, c.blocks[b].kind = "tool_use",
         NEW stop \in BOOLEAN, NEW d, d = IF stop THEN StopBlock(c, b) ELSE c
  PROVE  Aside(c, d) /\ Adds(c, d) /\ \A u \in Tool : Given(d, u) = Given(c, u)
<1>1. Core(c) /\ b \in Nat /\ DOMAIN c.blocks = 1 .. Len(c.blocks)
  <2>1. Core(c)
    BY DEF Stable
  <2>2. DOMAIN c.blocks = 1 .. Len(c.blocks) /\ Len(c.blocks) \in Nat
    BY <2>1, BlockFacts
  <2> QED BY <2>1, <2>2
<1>2. CASE stop
  <2>1. /\ Becomes(c, d, <<>>)
        /\ \A x \in DOMAIN c.blocks : x # b => d.blocks[x] = c.blocks[x]
    BY <1>1, <1>2, StopBlockFacts
  <2>2. c.section = "inside" => d.blocks[c.thinkingBlock].open
    <3> SUFFICES ASSUME c.section = "inside" PROVE d.blocks[c.thinkingBlock].open
      OBVIOUS
    <3>1. c.thinkingBlock \in DOMAIN c.blocks /\ c.blocks[c.thinkingBlock].open
      BY DEF Stable, Inside
    <3>2. c.blocks[c.thinkingBlock].kind = "thinking"
      BY <1>1, <3>1 DEF Core, Blocked, OfKind
    <3> QED BY <2>1, <3>1, <3>2
  <2>3. Adds(c, d)
    <3> DEFINE e == [event |-> "block_stop", block |-> b]
    <3>1. KindsKept(c, d) /\ d.toolBlock = c.toolBlock
      BY <2>1 DEF Becomes, Kept
    <3>2. e \in Events /\ e.event # "block_start"
      BY <1>1, EventTypes
    <3>3. d = IF IsOpen(c, b) THEN Send([c EXCEPT !.blocks[b].open = FALSE], e) ELSE c
      BY <1>2 DEF StopBlock
    <3> HIDE DEF e
    <3>4. IsOpen(c, b) => d.sent = Append(c.sent, e)
      BY <1>1, <3>3 DEF Send, Core, Contexts
    <3> QED BY <1>1, <3>1, <3>2, <3>3, <3>4, AddsOne, AddsNothing
  <2> QED BY <2>1, <2>2, <2>3, AsideBecomes
<1>3. CASE ~stop
  BY <1>1, <1>3, AddsNothing DEF Aside
<1> QED BY <1>2, <1>3

LEMMA ToolAfterText ==
  ASSUME NEW c, Core(c), NEW t \in Tool, NEW e, e = ToolBlock(c, t), Core(e), Shown(e) = Shown(c),
         NEW d, Core(d), Adds(e, d), NEW u \in Tool, c.toolBlock[u] = 0, d.toolBlock[u] # 0
  PROVE  Shown(Upfront(d, d.toolBlock[u])) = Shown(c)
<1>1. PICK n \in Nat : ToolPlaced(c, e, t, n)
  BY ToolBlockPlace
<1>2. d.toolBlock = e.toolBlock /\ c.toolBlock \in [Tool -> Nat]
  BY DEF Adds, Core, Contexts
<1>3. c.toolBlock[t] = 0
  BY <1>1, <1>2 DEF ToolPlaced
<1>4. e.toolBlock = [c.toolBlock EXCEPT ![t] = n]
  BY <1>1, <1>3 DEF ToolPlaced
<1>5. d.toolBlock[u] = n
  BY <1>2, <1>4
<1>6. PICK f : /\ Core(f) /\ n \notin DOMAIN f.blocks
               /\ e.sent = Append(f.sent, [event |-> "block_start", block |-> n])
  BY <1>1, <1>3 DEF ToolPlaced
<1>7. Shown(Upfront(d, n)) = Shown(e)
  BY <1>6, UpfrontFacts
<1> QED BY <1>5, <1>7

(* What a step owes to a tool whose block it starts.                          *)
TextFirst(u) ==
  ctx.toolBlock[u] = 0 /\ ctx'.toolBlock[u] # 0 /\ ctx'.section # "inside"
    => ctx'.buffer = <<>> /\ Shown(Upfront(ctx', ctx'.toolBlock[u])) = Visible(received)

LEMMA ToolUseInv ==
  ASSUME Inv, NEW t \in Tool, NEW fragment \in BOOLEAN, NEW stop \in BOOLEAN,
         ToolUse(t, fragment, stop)
  PROVE  Inv' /\ ctx'.toolBlock[t] # 0 /\ ctx'.phase = "open" /\ \A u \in Tool : TextFirst(u)
<1> DEFINE used == [ctx EXCEPT !.hasToolUse = TRUE]
           c == IF ctx.thinkingEnabled THEN BoundaryOfTool(used) ELSE used
           e == ToolBlock(c, t)
           b == e.toolBlock[t]
           f == IF fragment THEN Delta(e, b, <<t>>) ELSE e
           d == ctx'
           given == fragment /\ (ctx.toolBlock[t] = 0 \/ IsOpen(ctx, ctx.toolBlock[t]))
<1>1. ctx.phase = "open" /\ count' \in 0 .. MaxEvents
  BY StreamAssumption DEF ToolUse, Upstream, Inv
<1>2. /\ Stable(ctx) /\ Core(ctx) /\ ctx \in Contexts
      /\ Balance(ctx) = Visible(received) /\ received \in Texts
      /\ ~ctx.thinkingEnabled => ctx.thinkingBlock = 0 /\ ctx.buffer = <<>>
      /\ Drained(ctx) /\ GivenAll(ctx)
  BY <1>1, OpenFacts
<1>3. d = IF stop THEN StopBlock(f, f.toolBlock[t]) ELSE f
  BY DEF ToolUse, ToolBlock
<1>4. received' = received
      /\ toolInput' = IF given THEN [toolInput EXCEPT ![t] = @ + 1] ELSE toolInput
  BY DEF ToolUse
<1>5. /\ c = IF ctx.thinkingEnabled THEN BoundaryOfTool(used) ELSE used
      /\ e = ToolBlock(c, t)
      /\ f = IF fragment THEN Delta(e, b, <<t>>) ELSE e
  OBVIOUS
<1>6. /\ Retouched(ctx, used) /\ used.buffer = ctx.buffer /\ used.section = ctx.section
      /\ used.thinkingBlock = ctx.thinkingBlock
  <2>1. OfKind(ctx, ctx.thinkingBlock, "thinking")
    BY <1>2 DEF Core, Blocked
  <2> QED BY <1>2, <2>1 DEF Contexts, Retouched
<1> HIDE DEF used, c, e, f, d
<1>7. /\ Core(used) /\ Shown(used) = Shown(ctx) /\ \A u \in Tool : Given(used, u) = Given(ctx, u)
  BY <1>2, <1>6, RetouchedCore
<1>8. Handled(ctx, used) /\ Aside(ctx, used)
  <2>1. Stable(used)
    BY <1>2, <1>6, <1>7 DEF Stable, Inside, Retouched, Entered
  <2>2. KindsKept(ctx, used) /\ ToolsKept(ctx, used)
    BY <1>6 DEF KindsKept, ToolsKept, Retouched
  <2>3. Balance(used) = Balance(ctx)
    BY <1>6, <1>7 DEF Balance
  <2> QED BY <1>6, <1>7, <2>1, <2>2, <2>3 DEF Handled, Aside, Retouched
<1>9. /\ Handled(ctx, c)
      /\ ~ctx.thinkingEnabled => c.thinkingBlock = 0 /\ c.buffer = <<>>
      /\ Drained(c) /\ (c.section # "inside" => c.buffer = <<>>)
  <2>1. CASE ctx.thinkingEnabled
    <3>1. Stable(used) /\ Drained(used)
      BY <1>2, <1>6, <1>8 DEF Aside, Drained
    <3>2. Handled(used, c) /\ Drained(c) /\ (c.section # "inside" => c.buffer = <<>>)
      BY <1>5, <2>1, <3>1, BoundaryFacts DEF Drained
    <3> QED BY <1>8, <2>1, <3>2, HandledTransitive
  <2>2. CASE ~ctx.thinkingEnabled
    BY <1>2, <1>5, <1>6, <1>8, <2>2 DEF Drained
  <2> QED BY <2>1, <2>2
<1>10. /\ Stable(c) /\ c.phase = "open" /\ Balance(c) = Visible(received)
       /\ c.thinkingEnabled = ctx.thinkingEnabled
       /\ c.toolBlock = ctx.toolBlock /\ \A u \in Tool : Given(c, u) = Given(ctx, u)
  BY <1>1, <1>2, <1>9 DEF Handled
<1>11. (c.toolBlock[t] = 0 \/ IsOpen(c, c.toolBlock[t]))
         <=> (ctx.toolBlock[t] = 0 \/ IsOpen(ctx, ctx.toolBlock[t]))
  <2> SUFFICES ASSUME ctx.toolBlock[t] # 0
               PROVE  IsOpen(c, ctx.toolBlock[t]) <=> IsOpen(ctx, ctx.toolBlock[t])
    BY <1>10
  <2>1. ctx.toolBlock[t] \in DOMAIN ctx.blocks /\ ctx.blocks[ctx.toolBlock[t]].kind = "tool_use"
    BY <1>2 DEF Core, Blocked, OfKind
  <2>2. ctx.toolBlock[t] \in DOMAIN c.blocks /\ c.blocks[ctx.toolBlock[t]] = ctx.blocks[ctx.toolBlock[t]]
    BY <1>9, <2>1 DEF Handled, KindsKept, ToolsKept
  <2> QED BY <2>1, <2>2 DEF IsOpen
<1>12. Aside(c, e) /\ ToolReady(c, e, t) /\ \A u \in Tool : Given(e, u) = Given(c, u)
  BY <1>5, <1>10, ToolBlockFacts
<1>13. /\ Stable(e) /\ b \in DOMAIN e.blocks /\ e.blocks[b].kind = "tool_use"
       /\ e.blocks[b].open <=> (ctx.toolBlock[t] = 0 \/ IsOpen(ctx, ctx.toolBlock[t]))
  BY <1>11, <1>12 DEF Aside, ToolReady
<1>14. b = e.toolBlock[t]
  OBVIOUS
<1> HIDE DEF b
<1>15. /\ Aside(e, f) /\ Adds(e, f) /\ f.blocks = e.blocks /\ f.toolBlock = e.toolBlock
       /\ \A u \in Tool : Given(f, u) = IF fragment /\ e.blocks[b].open /\ u = t
                                        THEN Given(e, u) + 1 ELSE Given(e, u)
  BY <1>5, <1>13, InputFacts
<1>16. Aside(f, d) /\ Adds(f, d) /\ \A u \in Tool : Given(d, u) = Given(f, u)
  <2>1. Stable(f) /\ b \in DOMAIN f.blocks /\ f.blocks[b].kind = "tool_use"
    BY <1>13, <1>15 DEF Aside
  <2>2. d = IF stop THEN StopBlock(f, b) ELSE f
    BY <1>3, <1>14, <1>15
  <2> QED BY <2>1, <2>2, StopToolFacts
<1>17. Aside(c, d)
  BY <1>12, <1>15, <1>16, AsideTransitive
<1>18. /\ Stable(d) /\ d.phase = "open" /\ Balance(d) = Visible(received)
       /\ ~d.thinkingEnabled => d.thinkingBlock = 0 /\ d.buffer = <<>>
       /\ Drained(d)
  BY <1>9, <1>10, <1>17 DEF Aside, Balance, Drained
<1>19. \A u \in Tool : Given(d, u) = IF given /\ u = t THEN toolInput[u] + 1 ELSE toolInput[u]
  BY <1>2, <1>10, <1>12, <1>13, <1>15, <1>16 DEF GivenAll
<1> HIDE DEF given
<1>20. toolInput \in [Tool -> Nat]
  BY DEF Inv
<1>21. toolInput' \in [Tool -> Nat] /\ \A u \in Tool : Given(d, u) = toolInput'[u]
  BY <1>4, <1>19, <1>20
<1>22. Running(ctx)'
  BY <1>4, <1>18 DEF Running, d
<1>23. GivenAll(ctx)'
  BY <1>21 DEF GivenAll, d
<1>24. ctx'.phase = "open" /\ received' \in Texts
  BY <1>2, <1>4, <1>18 DEF d
<1>25. ASSUME NEW u \in Tool PROVE TextFirst(u)
  <2>1. Core(c) /\ Core(e) /\ Core(f) /\ Core(d)
    BY <1>10, <1>12, <1>15, <1>16 DEF Aside, Stable
  <2>2. Shown(e) = Shown(c) /\ d.section = c.section /\ d.buffer = c.buffer
    BY <1>12, <1>17 DEF Aside
  <2>3. Adds(e, d)
    BY <1>15, <1>16, <2>1, AddsTransitive
  <2>4. c.buffer = <<>> => Shown(c) = Visible(received)
    <3>1. Shown(c) \in Texts
      BY <2>1, BlockFacts, ShownType
    <3> QED BY <1>10, <3>1, EmptyText DEF Balance
  <2>5. c.toolBlock[u] = 0 /\ d.toolBlock[u] # 0 => Shown(Upfront(d, d.toolBlock[u])) = Shown(c)
    BY <1>5, <2>1, <2>2, <2>3, ToolAfterText
  <2> QED BY <1>9, <1>10, <2>2, <2>4, <2>5 DEF TextFirst, d
<1>26. ctx'.toolBlock[t] # 0
  <2>1. DOMAIN e.blocks = 1 .. Len(e.blocks)
    BY <1>13, BlockFacts DEF Stable
  <2>2. b # 0
    BY <1>13, <2>1
  <2>3. d.toolBlock = e.toolBlock
    BY <1>15, <1>16 DEF Adds
  <2> QED BY <1>14, <2>2, <2>3 DEF d
<1> QED BY <1>1, <1>21, <1>22, <1>23, <1>24, <1>25, <1>26 DEF Inv

-----------------------------------------------------------------------------
(* The fixed sequence of a web search, event by event: the client has seen   *)
(* the blocks O open and the blocks C close, and `text` has been shown.      *)
Page(s) == [blocks |-> SearchBlocks, sent |-> s]
Shows(s, O, C, text) ==
  /\ s \in Seq(Events)
  /\ Observed(s) = Content(O, C)
  /\ text \in Texts
  /\ SentText(Page(s), {"text", "thinking"}) = text
  /\ SentText(Page(s), {"tool_use"}) = <<>>

LEMMA PageAppend ==
  ASSUME NEW s \in Seq(Events), NEW e \in Events, NEW kinds
  PROVE  SentText(Page(Append(s, e)), kinds) =
           SentText(Page(s), kinds) \o
             (IF e.event = "block_delta" /\ SearchBlocks[e.block].kind \in kinds THEN e.text ELSE <<>>)
<1>1. Page(s).sent = s /\ Page(s).blocks = SearchBlocks
      /\ Page(Append(s, e)).sent = Append(s, e) /\ Page(Append(s, e)).blocks = SearchBlocks
  BY DEF Page
<1> QED BY <1>1, SentTextAppend

LEMMA ShowsQuiet ==
  ASSUME NEW s, NEW O, NEW C, NEW text, Shows(s, O, C, text), NEW e \in Events,
         e.event # "block_delta", NEW P, NEW D, Observe(Content(O, C), e) = Content(P, D)
  PROVE  Shows(Append(s, e), P, D, text)
<1>1. s \in Seq(Events) /\ Observed(s) = Content(O, C) /\ text \in Texts
  BY DEF Shows
<1>2. Observed(Append(s, e)) = Content(P, D)
  BY <1>1, ObservedAppend
<1>3. \A kinds : SentText(Page(Append(s, e)), kinds) = SentText(Page(s), kinds) \o <<>>
  BY <1>1, PageAppend
<1>4. text \o <<>> = text /\ <<>> \o <<>> = <<>>
  BY <1>1, EmptyText
<1>5. Append(s, e) \in Seq(Events)
  BY <1>1
<1> QED BY <1>1, <1>2, <1>3, <1>4, <1>5 DEF Shows

LEMMA ShowsDelta ==
  ASSUME NEW s, NEW C, NEW b \in {1, 4}, NEW text, Shows(s, {b}, C, text), NEW x \in Char
  PROVE  Shows(Append(s, [event |-> "block_delta", block |-> b, text |-> <<x>>]),
               {b}, C, Append(text, x))
<1> DEFINE e == [event |-> "block_delta", block |-> b, text |-> <<x>>]
<1>1. s \in Seq(Events) /\ Observed(s) = Content({b}, C) /\ text \in Texts
      /\ SentText(Page(s), {"text", "thinking"}) = text /\ SentText(Page(s), {"tool_use"}) = <<>>
  BY DEF Shows
<1>2. <<x>> \in Texts /\ b \in Nat
  BY DEF Texts
<1>3. e \in Events
  BY <1>2, EventTypes
<1>4. e.event = "block_delta" /\ e.block = b /\ e.text = <<x>>
  OBVIOUS
<1>5. Observe(Content({b}, C), e) = Content({b}, C)
  BY ObserveDelta
<1> HIDE DEF e
<1>6. SearchBlocks[b].kind = "text"
  BY DEF SearchBlocks
<1>7. SentText(Page(Append(s, e)), {"text", "thinking"}) = text \o <<x>>
  <2>1. e.event = "block_delta" /\ SearchBlocks[e.block].kind \in {"text", "thinking"}
    BY <1>4, <1>6
  <2> HIDE DEF Page
  <2> QED BY <1>1, <1>3, <1>4, <2>1, PageAppend
<1>8. SentText(Page(Append(s, e)), {"tool_use"}) = <<>> \o <<>>
  <2>1. ~(e.event = "block_delta" /\ SearchBlocks[e.block].kind \in {"tool_use"})
    BY <1>4, <1>6
  <2> QED BY <1>1, <1>3, <2>1, PageAppend
<1>9. text \o <<x>> = Append(text, x) /\ <<>> \o <<>> = <<>> /\ Append(text, x) \in Texts
  BY <1>1, <1>2, EmptyText DEF Texts
<1>10. Observed(Append(s, e)) = Content({b}, C) /\ Append(s, e) \in Seq(Events)
  BY <1>1, <1>3, <1>5, ObservedAppend
<1>11. Shows(Append(s, e), {b}, C, Append(text, x))
  BY <1>7, <1>8, <1>9, <1>10 DEF Shows
<1> QED BY <1>11 DEF e

LEMMA ShowsStart ==
  ASSUME NEW s, NEW C, NEW b \in 1 .. 4, b \notin C, NEW text, Shows(s, {}, C, text)
  PROVE  Shows(Append(s, [event |-> "block_start", block |-> b]), {b}, C, text)
<1> DEFINE e == [event |-> "block_start", block |-> b]
<1>1. e \in Events /\ e.event # "block_delta"
  <2>1. b \in Nat
    OBVIOUS
  <2> QED BY <2>1, EventTypes
<1>2. Observe(Content({}, C), e) = Content({b}, C)
  <2>1. Observe(Content({}, C), e) = Content({} \cup {b}, C)
    BY ObserveStart
  <2> QED BY <2>1
<1> HIDE DEF e
<1>3. Shows(Append(s, e), {b}, C, text)
  BY <1>1, <1>2, ShowsQuiet
<1> QED BY <1>3 DEF e

LEMMA ShowsStop ==
  ASSUME NEW s, NEW C, NEW b \in 1 .. 4, NEW text, Shows(s, {b}, C, text)
  PROVE  Shows(Append(s, [event |-> "block_stop", block |-> b]), {}, C \cup {b}, text)
<1> DEFINE e == [event |-> "block_stop", block |-> b]
<1>1. e \in Events /\ e.event # "block_delta"
  <2>1. b \in Nat
    OBVIOUS
  <2> QED BY <2>1, EventTypes
<1>2. Observe(Content({b}, C), e) = Content({}, C \cup {b})
  <2>1. Observe(Content({b}, C), e) = Content({b} \ {b}, C \cup {b})
    BY ObserveStop
  <2>2. {b} \ {b} = {}
    OBVIOUS
  <2> QED BY <2>1, <2>2
<1> HIDE DEF e
<1>3. Shows(Append(s, e), {}, C \cup {b}, text)
  BY <1>1, <1>2, ShowsQuiet
<1> QED BY <1>3 DEF e

(* A whole block, and the text it adds: nothing, one piece or two.            *)
LEMMA ShowsBlock ==
  ASSUME NEW s, NEW C, NEW b \in 1 .. 4, b \notin C, NEW text, Shows(s, {}, C, text),
         NEW x \in Char, NEW y \in Char,
         NEW texts \in {<<>>, <<x>>, <<x, y>>}, texts # <<>> => b \in {1, 4}
  PROVE  Shows(s \o Block(b, texts), {}, C \cup {b}, text \o texts)
<1> DEFINE start == [event |-> "block_start", block |-> b]
           stop  == [event |-> "block_stop", block |-> b]
           dx == [event |-> "block_delta", block |-> b, text |-> <<x>>]
           dy == [event |-> "block_delta", block |-> b, text |-> <<y>>]
           deltas == [i \in DOMAIN texts |->
                        [event |-> "block_delta", block |-> b, text |-> <<texts[i]>>]]
           s1 == Append(s, start)
<1>1. start \in Events /\ stop \in Events /\ dx \in Events /\ dy \in Events
  <2>1. <<x>> \in Texts /\ <<y>> \in Texts /\ b \in Nat
    BY DEF Texts
  <2> QED BY <2>1, EventTypes
<1>2. Block(b, texts) = <<start>> \o deltas \o <<stop>>
  BY DEF Block
<1> HIDE DEF deltas, start, stop, dx, dy
<1>4. s \in Seq(Events) /\ s1 \in Seq(Events) /\ text \in Texts
  BY <1>1 DEF Shows
<1>21. deltas \in Seq(Events) => s \o Block(b, texts) = Append(s1 \o deltas, stop)
  <2> SUFFICES ASSUME deltas \in Seq(Events)
               PROVE  s \o Block(b, texts) = Append(s1 \o deltas, stop)
    OBVIOUS
  <2> HIDE DEF s1
  <2>1. s \o (<<start>> \o deltas \o <<stop>>) = Append(Append(s, start) \o deltas, stop)
    BY <1>1, <1>4, PutBetween
  <2> QED BY <1>2, <2>1 DEF s1
<1>3. Shows(s1, {b}, C, text)
  BY ShowsStart DEF start
<1>5. CASE texts = <<>>
  <2>1. deltas = <<>>
    BY <1>5 DEF deltas
  <2>2. s \o Block(b, texts) = Append(s1, stop)
    BY <1>1, <1>4, <1>21, <2>1, PutBehind
  <2>3. Shows(Append(s1, stop), {}, C \cup {b}, text)
    BY <1>3, ShowsStop DEF stop
  <2> QED BY <1>4, <1>5, <2>2, <2>3, EmptyText
<1>6. CASE texts = <<x>>
  <2>1. deltas = <<dx>>
    BY <1>6 DEF deltas, dx
  <2>2. b \in {1, 4}
    BY <1>6
  <2>3. Shows(Append(s1, dx), {b}, C, Append(text, x))
    BY <1>3, <2>2, ShowsDelta DEF dx
  <2>4. Shows(Append(Append(s1, dx), stop), {}, C \cup {b}, Append(text, x))
    BY <2>3, ShowsStop DEF stop
  <2>5. s \o Block(b, texts) = Append(Append(s1, dx), stop)
    BY <1>1, <1>4, <1>21, <2>1, PutBehind
  <2>6. text \o texts = Append(text, x)
    BY <1>4, <1>6 DEF Texts
  <2> QED BY <2>4, <2>5, <2>6
<1>7. CASE texts = <<x, y>>
  <2>1. deltas = <<dx, dy>>
    BY <1>7 DEF deltas, dx, dy
  <2>2. b \in {1, 4}
    BY <1>7
  <2>3. Shows(Append(s1, dx), {b}, C, Append(text, x))
    BY <1>3, <2>2, ShowsDelta DEF dx
  <2>4. Shows(Append(Append(s1, dx), dy), {b}, C, Append(Append(text, x), y))
    BY <2>2, <2>3, ShowsDelta DEF dy
  <2>5. Shows(Append(Append(Append(s1, dx), dy), stop), {}, C \cup {b}, Append(Append(text, x), y))
    BY <2>4, ShowsStop DEF stop
  <2>6. s \o Block(b, texts) = Append(Append(Append(s1, dx), dy), stop)
    BY <1>1, <1>4, <1>21, <2>1, PutBehind, SMTT(20)
  <2>7. text \o texts = Append(Append(text, x), y)
    BY <1>4, <1>7 DEF Texts
  <2> QED BY <2>5, <2>6, <2>7
<1> QED BY <1>5, <1>6, <1>7

LEMMA ShowsFirst == Shows(<<[event |-> "message_start"]>>, {}, {}, <<>>)
<1> DEFINE e == [event |-> "message_start"]
<1>1. e \in Events /\ e.event # "block_delta" /\ <<>> \in Seq(Events) /\ <<e>> = Append(<<>>, e)
  BY EventTypes
<1>2. Observe(Silent, e) = Content({}, {})
  BY ObserveFirst
<1> HIDE DEF e
<1>3. <<e>> \in Seq(Events) /\ Observed(<<e>>) = Content({}, {})
  <2>1. Observed(Append(<<>>, e)) = Observe(Observed(<<>>), e)
    BY <1>1, ObservedAppend
  <2> QED BY <1>1, <1>2, <2>1, ObservedEmpty
<1>4. ASSUME NEW kinds PROVE SentText(Page(<<e>>), kinds) = <<>>
  <2> DEFINE c == Page(<<>>)
  <2>1. c.sent = <<>> /\ c.sent \in Seq(Events)
    BY <1>1 DEF Page
  <2> HIDE DEF c
  <2>2. [i \in DOMAIN c.sent |-> Said(c, kinds, i)] = <<>>
    BY <2>1
  <2>3. SentText(c, kinds) = <<>>
    <3>1. SentText(c, kinds) = FlattenSeq([i \in DOMAIN c.sent |-> Said(c, kinds, i)])
      BY <2>1, SaidType
    <3> QED BY <2>2, <3>1, FlattenEmpty
  <2>4. SentText(Page(Append(<<>>, e)), kinds) = SentText(Page(<<>>), kinds) \o <<>>
    BY <1>1, PageAppend
  <2> QED BY <1>1, <2>3, <2>4, EmptyText DEF c
<1>5. Shows(<<e>>, {}, {}, <<>>)
  BY <1>3, <1>4, EmptyText DEF Shows
<1> QED BY <1>5 DEF e

LEMMA ShowsLast ==
  ASSUME NEW s, NEW C, NEW text, Shows(s, {}, C, text),
         NEW c, c.blocks = SearchBlocks,
         c.sent = s \o <<[event |-> "message_delta", reason |-> "end_turn"],
                         [event |-> "message_stop"]>>
  PROVE  /\ c.sent \in Seq(Events) /\ Complete(c.sent) /\ Shown(c) = Visible(text)
         /\ \A t \in Tool : Given(c, t) = 0
<1> DEFINE m == [event |-> "message_delta", reason |-> "end_turn"]
           z == [event |-> "message_stop"]
           u == Append(s, m)
           v == Append(u, z)
<1>1. m \in Events /\ z \in Events /\ m.event # "block_delta" /\ z.event # "block_delta"
  <2>1. "end_turn" \in StopReasons
    BY DEF StopReasons
  <2> QED BY <2>1, EventTypes
<1>2. \A D : Observe(Observe(Content({}, D), m), z).phase = "stopped"
  <2> TAKE D
  <2>1. LET p == Observe(Content({}, D), m) IN Observe(p, z).phase = "stopped"
    BY ObserveEnd
  <2> QED BY <2>1
<1>3. c.sent = s \o <<m, z>>
  OBVIOUS
<1> HIDE DEF m, z
<1>4. /\ s \in Seq(Events) /\ Observed(s) = Content({}, C) /\ text \in Texts
      /\ SentText(Page(s), {"text", "thinking"}) = text /\ SentText(Page(s), {"tool_use"}) = <<>>
  BY DEF Shows
<1>5. c.sent = v /\ u \in Seq(Events) /\ v \in Seq(Events)
  BY <1>1, <1>3, <1>4, PutBehind
<1>6. Observed(v) = Observe(Observe(Content({}, C), m), z)
  <2>1. Observed(u) = Observe(Content({}, C), m)
    BY <1>1, <1>4, ObservedAppend
  <2> QED BY <1>1, <1>5, <2>1, ObservedAppend
<1>7. Complete(c.sent)
  BY <1>2, <1>5, <1>6 DEF Complete
<1>8. \A kinds : SentText(Page(u), kinds) = SentText(Page(s), kinds) \o <<>>
  BY <1>1, <1>4, PageAppend
<1> HIDE DEF u
<1>9. \A kinds : SentText(Page(v), kinds) = SentText(Page(u), kinds) \o <<>>
  BY <1>1, <1>5, PageAppend
<1> HIDE DEF v
<1>10. \A kinds : SentText(c, kinds) = SentText(Page(v), kinds)
  BY <1>5 DEF SentText, Page
<1>11. SentText(c, {"text", "thinking"}) = text
  BY <1>4, <1>8, <1>9, <1>10, EmptyText
<1>12. SentText(c, {"tool_use"}) = <<>>
  BY <1>4, <1>8, <1>9, <1>10, EmptyText
<1>13. \A t \in Tool : Given(c, t) = 0
  BY <1>12, WithinEmpty DEF Given
<1> QED BY <1>5, <1>7, <1>11, <1>13 DEF Shown

LEMMA WebSearchAnswerInv ==
  ASSUME Inv, NEW x \in {"query", "results", "notice"}, NEW y \in {"query", "results", "notice"},
         NEW decision \in {"query"}, NEW summary \in {<<x>>, <<x, y>>},
         WebSearchAnswer(decision, summary)
  PROVE  Inv' /\ ctx'.toolBlock = ctx.toolBlock
<1> DEFINE s0 == <<[event |-> "message_start"]>>
           s1 == s0 \o Block(1, <<decision>>)
           s2 == s1 \o Block(2, <<>>)
           s3 == s2 \o Block(3, <<>>)
           s4 == s3 \o Block(4, summary)
           d == ctx'
<1>1. PICK thinking \in BOOLEAN : ctx = NewContext(thinking)
  BY DEF Inv, WebSearchAnswer
<1>2. /\ ctx \in Contexts /\ ctx.buffer = <<>> /\ ctx.thinkingBlock = 0
      /\ \A t \in Tool : Given(ctx, t) = 0
  BY <1>1, NewFacts
<1>3. ctx.textBlock = 0 /\ ctx.toolBlock = [t \in Tool |-> 0] /\ ctx.section \in Sections
      /\ ctx.stopReason \in StopReasons
  BY <1>1, <1>2 DEF NewContext, Contexts
<1>4. d = [ctx EXCEPT !.phase = "ended", !.blocks = SearchBlocks,
             !.sent = s4 \o <<[event |-> "message_delta", reason |-> "end_turn"],
                              [event |-> "message_stop"]>>]
  BY DEF WebSearchAnswer
<1>5. received' = <<decision>> \o summary /\ toolInput' = toolInput /\ count' = count
  BY DEF WebSearchAnswer
<1>6. decision \in Char /\ x \in Char /\ y \in Char
  BY DEF Char
<1>7. s4 = s3 \o Block(4, summary) /\ s3 = s2 \o Block(3, <<>>) /\ s2 = s1 \o Block(2, <<>>)
      /\ s1 = s0 \o Block(1, <<decision>>) /\ s0 = <<[event |-> "message_start"]>>
  OBVIOUS
<1> HIDE DEF s0, s1, s2, s3, s4, d
<1>8. Shows(s0, {}, {}, <<>>)
  BY <1>7, ShowsFirst
<1>9. Shows(s1, {}, {} \cup {1}, <<>> \o <<decision>>)
  <2> DEFINE texts == <<decision>>
             b == 1
  <2>1. texts \in {<<>>, <<decision>>, <<decision, decision>>} /\ b \in {1, 4}
        /\ b \in 1 .. 4 /\ b \notin {} /\ s1 = s0 \o Block(b, texts)
    BY <1>7
  <2> HIDE DEF texts, b
  <2>2. Shows(s1, {}, {} \cup {b}, <<>> \o texts)
    BY <1>6, <1>8, <2>1, ShowsBlock
  <2> QED BY <2>2 DEF texts, b
<1>10. Shows(s1, {}, {1}, <<decision>>)
  BY <1>9, <1>6, EmptyText DEF Texts
<1>11. ASSUME NEW s, NEW C, NEW b \in 1 .. 4, b \notin C, NEW text, Shows(s, {}, C, text),
              NEW t, t = s \o Block(b, <<>>)
       PROVE  Shows(t, {}, C \cup {b}, text)
  <2>1. Shows(t, {}, C \cup {b}, text \o <<>>)
    BY <1>6, <1>11, ShowsBlock
  <2>2. text \in Texts
    BY <1>11 DEF Shows
  <2> QED BY <2>1, <2>2, EmptyText
<1>12. Shows(s2, {}, {1} \cup {2}, <<decision>>)
  <2>1. 2 \in 1 .. 4 /\ 2 \notin {1}
    OBVIOUS
  <2> QED BY <1>7, <1>10, <1>11, <2>1
<1>13. Shows(s3, {}, ({1} \cup {2}) \cup {3}, <<decision>>)
  <2>1. 3 \in 1 .. 4 /\ 3 \notin {1} \cup {2}
    OBVIOUS
  <2> QED BY <1>7, <1>11, <1>12, <2>1
<1>14. Shows(s4, {}, (({1} \cup {2}) \cup {3}) \cup {4}, <<decision>> \o summary)
  <2> DEFINE C == ({1} \cup {2}) \cup {3}
  <2>1. 4 \notin C /\ 4 \in 1 .. 4
    OBVIOUS
  <2> HIDE DEF C
  <2>2. Shows(s3, {}, C, <<decision>>)
    BY <1>13 DEF C
  <2>3. Shows(s4, {}, C \cup {4}, <<decision>> \o summary)
    BY <1>6, <1>7, <2>1, <2>2, ShowsBlock
  <2> QED BY <2>3 DEF C
<1>15. /\ d.blocks = SearchBlocks /\ d.phase = "ended" /\ d.buffer = <<>>
       /\ d.thinkingBlock = 0 /\ d.textBlock = 0 /\ d.toolBlock = [t \in Tool |-> 0]
       /\ d.section \in Sections /\ d.stopReason \in StopReasons
       /\ d.sent = s4 \o <<[event |-> "message_delta", reason |-> "end_turn"],
                           [event |-> "message_stop"]>>
  BY <1>2, <1>3, <1>4 DEF Contexts
<1>16. /\ d.sent \in Seq(Events) /\ Complete(d.sent) /\ Shown(d) = Visible(received')
       /\ \A t \in Tool : Given(d, t) = 0
  <2> DEFINE text == <<decision>> \o summary
             C == (({1} \cup {2}) \cup {3}) \cup {4}
  <2>1. Shows(s4, {}, C, text) /\ received' = text
    BY <1>5, <1>14
  <2> HIDE DEF text, C
  <2>2. /\ d.sent \in Seq(Events) /\ Complete(d.sent) /\ Shown(d) = Visible(text)
        /\ \A t \in Tool : Given(d, t) = 0
    <3>1. /\ d.blocks = SearchBlocks
          /\ d.sent = s4 \o <<[event |-> "message_delta", reason |-> "end_turn"],
                              [event |-> "message_stop"]>>
      BY <1>15
    <3> QED BY <2>1, <3>1, ShowsLast
  <2> QED BY <2>1, <2>2
<1>17. Limits(d)
  <2>1. Len(d.blocks) \in Nat
    <3>1. d.blocks \in [1 .. 4 -> {SearchBlocks[b] : b \in 1 .. 4}]
      BY <1>15 DEF SearchBlocks
    <3>2. d.blocks \in Seq({SearchBlocks[b] : b \in 1 .. 4})
      BY <3>1, FunctionIsSeq
    <3> QED BY <3>2
  <2> QED BY <1>15, <2>1 DEF Limits
<1>18. Done(ctx)'
  BY <1>15, <1>16, <1>17 DEF Done, d
<1>19. toolInput \in [Tool -> Nat] /\ \A t \in Tool : toolInput[t] = 0
  BY <1>2 DEF Inv, GivenAll
<1>20. GivenAll(ctx)'
  BY <1>5, <1>16, <1>19 DEF GivenAll, d
<1>21. received' \in Texts
  <2>1. <<decision>> \o summary \in Texts
    BY <1>14 DEF Shows
  <2> QED BY <1>5, <2>1
<1>22. ctx'.phase = "ended" /\ ctx'.toolBlock = ctx.toolBlock
  BY <1>3, <1>15 DEF d
<1>23. count' \in 0 .. MaxEvents /\ toolInput' \in [Tool -> Nat]
  BY <1>5 DEF Inv
<1> QED BY <1>18, <1>20, <1>21, <1>22, <1>23 DEF Inv

LEMMA NextInv == Inv /\ [Next]_vars => Inv' /\ \A u \in Tool : TextFirst(u)
<1> SUFFICES ASSUME Inv, [Next]_vars PROVE Inv' /\ \A u \in Tool : TextFirst(u)
  OBVIOUS
<1>a. ctx'.toolBlock = ctx.toolBlock => \A u \in Tool : TextFirst(u)
  BY DEF TextFirst
<1>1. CASE Start
  BY <1>a, <1>1, StartInv
<1>2. CASE WebSearchAnswer("query", <<"results">>)
  <2>1. <<"results">> \in {<<"results">>, <<"results", "notice">>}
    OBVIOUS
  <2> QED BY <1>a, <1>2, <2>1, WebSearchAnswerInv
<1>3. CASE WebSearchAnswer("query", <<"results", "notice">>)
  <2>1. <<"results", "notice">> \in {<<"results">>, <<"results", "notice">>}
    OBVIOUS
  <2> QED BY <1>a, <1>3, <2>1, WebSearchAnswerInv
<1>4. CASE \E chunk \in Chunks : AssistantResponse(chunk)
  BY <1>a, <1>4, AssistantResponseInv
<1>5. CASE \E t \in Tool, fragment, stop \in BOOLEAN : ToolUse(t, fragment, stop)
  BY <1>5, ToolUseInv
<1>6. CASE \E reason \in {"max_tokens", "model_context_window_exceeded"} : LimitReached(reason)
  BY <1>a, <1>6, LimitReachedInv
<1>7. CASE Finish
  BY <1>a, <1>7, FinishInv
<1>8. CASE UNCHANGED vars
  BY <1>a, <1>8 DEF vars, Inv, Running, Done, GivenAll
<1> QED BY <1>1, <1>2, <1>3, <1>4, <1>5, <1>6, <1>7, <1>8 DEF Next

-----------------------------------------------------------------------------
(* How a message ends that has thought.                                      *)
LEMMA CloseThinkingKeeps ==
  ASSUME NEW c, Core(c), Inside(c), NEW text \in Texts, NEW f, Wrote(c, f, text),
         f.blocks = c.blocks, Inside(f), NEW d, d = CloseThinking(f)
  PROVE  /\ d \in Contexts /\ Kept(c, d)
         /\ HasNonThinkingBlocks(d) <=> HasNonThinkingBlocks(c)
<1> DEFINE e == ThinkingDelta(f, <<>>)
           b == f.thinkingBlock
<1>1. Core(f) /\ Kept(c, f)
  BY WroteTypes
<1>2. Wrote(f, e, <<>>) /\ e.blocks = f.blocks
  BY <1>1, EmptyText, ThinkingDeltaFacts
<1>3. d = StopBlock(e, b)
  BY DEF CloseThinking
<1> HIDE DEF e
<1>4. Core(e) /\ Kept(f, e)
  BY <1>2, WroteTypes
<1>5. b \in Nat
  BY <1>1 DEF Core, Contexts
<1> HIDE DEF b
<1>6. Becomes(e, d, <<>>) /\ DOMAIN d.blocks = DOMAIN e.blocks
  BY <1>3, <1>4, <1>5, StopBlockFacts
<1>7. Core(d) /\ Kept(e, d) /\ KindsKept(e, d)
  BY <1>6 DEF Becomes
<1>8. Kept(c, d)
  BY <1>1, <1>4, <1>7, KeptTransitive
<1>9. HasNonThinkingBlocks(d) <=> HasNonThinkingBlocks(c)
  BY <1>2, <1>6, <1>7 DEF HasNonThinkingBlocks, KindsKept
<1> QED BY <1>7, <1>8, <1>9 DEF Core

(* What is still kept back when the message ends is thinking.                 *)
SameEnd(c, d) ==
  /\ d.thinkingBlock = c.thinkingBlock
  /\ d.stopReason = c.stopReason /\ d.hasToolUse = c.hasToolUse
  /\ HasNonThinkingBlocks(d) <=> HasNonThinkingBlocks(c)

LEMMA FlushKeepsEnd ==
  ASSUME NEW c, Stable(c), Drained(c), c.thinkingBlock # 0, NEW d, d = FlushAtEnd(c)
  PROVE  SameEnd(c, d)
<1>1. Core(c) /\ c.buffer \in Texts /\ c.section \in Sections
  BY BufferText DEF Stable, Core, Contexts
<1>2. CASE c.buffer = <<>>
  BY <1>2 DEF FlushAtEnd, SameEnd
<1>3. CASE c.buffer # <<>>
  <2>1. c.section = "inside" /\ Inside(c)
    BY <1>1, <1>3 DEF Stable, Entered, Drained, Sections
  <2>2. CASE EndTagAtBufferEnd(c.buffer) # 0
    <3> DEFINE end == EndTagAtBufferEnd(c.buffer)
               a == Upto(c.buffer, end - 1)
               f == ThinkingUnlessEmpty(c, a)
               e == CloseThinking(f)
    <3>1. a \in Texts /\ TrimStart(After(CloseTag, c.buffer, end)) = <<>>
      BY <1>1, <2>2, LastTagCut
    <3>2. d = [e EXCEPT !.section = "after", !.buffer = <<>>]
      BY <1>3, <2>1, <2>2, <3>1 DEF FlushAtEnd, CloseAtBufferEnd, TextUnlessEmpty
    <3>3. e = CloseThinking(f) /\ f = ThinkingUnlessEmpty(c, a)
      OBVIOUS
    <3> HIDE DEF a, e, f, end
    <3>4. Wrote(c, f, a) /\ Inside(f)
      BY <1>1, <2>1, <3>1, <3>3, UnlessFacts
    <3>5. f.blocks = c.blocks
      BY <1>1, <2>1, <3>1, <3>3, ThinkingDeltaFacts DEF ThinkingUnlessEmpty
    <3>6. /\ e \in Contexts /\ Kept(c, e)
          /\ HasNonThinkingBlocks(e) <=> HasNonThinkingBlocks(c)
      BY <1>1, <2>1, <3>1, <3>3, <3>4, <3>5, CloseThinkingKeeps
    <3>7. /\ d.blocks = e.blocks /\ d.thinkingBlock = e.thinkingBlock
          /\ d.stopReason = e.stopReason /\ d.hasToolUse = e.hasToolUse
      BY <3>2, <3>6 DEF Contexts
    <3> QED BY <3>6, <3>7 DEF SameEnd, Kept, HasNonThinkingBlocks
  <2>3. CASE EndTagAtBufferEnd(c.buffer) = 0
    <3> DEFINE a == c.buffer
               f == ThinkingDelta(c, a)
               e == CloseThinking(f)
    <3>1. d = [e EXCEPT !.buffer = <<>>]
      BY <1>3, <2>1, <2>3 DEF FlushAtEnd
    <3>2. e = CloseThinking(f) /\ f = ThinkingDelta(c, a) /\ a \in Texts
      BY <1>1
    <3> HIDE DEF a, e, f
    <3>3. Wrote(c, f, a) /\ f.blocks = c.blocks /\ Inside(f)
      BY <1>1, <2>1, <3>2, ThinkingDeltaFacts
    <3>4. /\ e \in Contexts /\ Kept(c, e)
          /\ HasNonThinkingBlocks(e) <=> HasNonThinkingBlocks(c)
      BY <1>1, <2>1, <3>2, <3>3, CloseThinkingKeeps
    <3>5. /\ d.blocks = e.blocks /\ d.thinkingBlock = e.thinkingBlock
          /\ d.stopReason = e.stopReason /\ d.hasToolUse = e.hasToolUse
      BY <3>1, <3>4 DEF Contexts
    <3> QED BY <3>4, <3>5 DEF SameEnd, Kept, HasNonThinkingBlocks
  <2> QED BY <2>2, <2>3
<1> QED BY <1>2, <1>3

(* What a step owes to a message that has thought.                            *)
ThinkingAnswered ==
  ctx.phase = "open" /\ ctx'.phase = "ended" /\ ctx.thinkingBlock # 0
    => /\ HasNonThinkingBlocks(ctx')
       /\ ReasonGiven(ctx'.sent) = IF HasNonThinkingBlocks(ctx)
                                   THEN FinalStopReason(ctx) ELSE "max_tokens"

LEMMA FinishAnswers == Inv /\ Finish => ThinkingAnswered
<1> SUFFICES ASSUME Inv, Finish, ctx.thinkingBlock # 0
             PROVE  /\ HasNonThinkingBlocks(ctx')
                    /\ ReasonGiven(ctx'.sent) = IF HasNonThinkingBlocks(ctx)
                                                THEN FinalStopReason(ctx) ELSE "max_tokens"
  BY DEF ThinkingAnswered
<1> DEFINE f == FlushAtEnd(ctx)
           c == AnswerIfNone(f)
           m == MessageEnd(c)
           d == ctx'
<1>1. ctx.phase = "open"
  BY DEF Finish
<1>2. Stable(ctx) /\ Drained(ctx) /\ ctx.thinkingEnabled
  BY <1>1, OpenFacts
<1>3. d = [m EXCEPT !.phase = "ended"]
  BY <1>2 DEF Finish
<1>4. f = FlushAtEnd(ctx) /\ c = AnswerIfNone(f) /\ m = MessageEnd(c)
  OBVIOUS
<1> HIDE DEF d, m, c, f
<1>5. Core(f) /\ SameEnd(ctx, f)
  BY <1>2, <1>4, FlushAtEndFacts, FlushKeepsEnd DEF Carried
<1>6. Core(c) /\ AnswerGiven(f, c)
  BY <1>4, <1>5, AnswerFacts
<1>7. m \in Contexts /\ KindsKept(c, m) /\ ReasonGiven(m.sent) = FinalStopReason(c)
  BY <1>4, <1>6, MessageEndFacts
<1>8. d.blocks = m.blocks /\ d.sent = m.sent
  BY <1>3, <1>7 DEF Contexts
<1>9. HasNonThinkingBlocks(c)
  BY <1>5, <1>6 DEF AnswerGiven, SameEnd
<1>10. HasNonThinkingBlocks(d)
  BY <1>7, <1>8, <1>9 DEF KindsKept, HasNonThinkingBlocks
<1>11. FinalStopReason(c) = IF HasNonThinkingBlocks(ctx) THEN FinalStopReason(ctx) ELSE "max_tokens"
  BY <1>5, <1>6 DEF AnswerGiven, SameEnd, FinalStopReason
<1> QED BY <1>7, <1>8, <1>10, <1>11 DEF d

LEMMA NextAnswers == Inv /\ [Next]_vars => ThinkingAnswered
<1> SUFFICES ASSUME Inv, [Next]_vars, ctx.phase = "open" PROVE ThinkingAnswered
  BY DEF ThinkingAnswered
<1>1. CASE \E chunk \in Chunks : AssistantResponse(chunk)
  BY <1>1, AssistantResponseInv DEF ThinkingAnswered
<1>2. CASE \E t \in Tool, fragment, stop \in BOOLEAN : ToolUse(t, fragment, stop)
  BY <1>2, ToolUseInv DEF ThinkingAnswered
<1>3. CASE \E reason \in {"max_tokens", "model_context_window_exceeded"} : LimitReached(reason)
  BY <1>3, LimitReachedInv DEF ThinkingAnswered
<1>4. CASE Finish
  BY <1>4, FinishAnswers
<1>5. CASE UNCHANGED vars
  BY <1>5 DEF vars, ThinkingAnswered
<1> QED BY <1>1, <1>2, <1>3, <1>4, <1>5 DEF Next, Start, WebSearchAnswer

-----------------------------------------------------------------------------
(* Parts of a text, and what they show of the whole.                         *)
LEMMA BeyondFacts ==
  ASSUME NEW text \in Texts, NEW i \in 0 .. Len(text)
  PROVE  /\ Len(text) \in Nat /\ Beyond(text, i) \in Texts
         /\ Len(Beyond(text, i)) = Len(text) - i
         /\ \A k \in 1 .. Len(text) - i : Beyond(text, i)[k] = text[i + k]
<1> DEFINE n == Len(text)
<1>1. n \in Nat /\ i \in 0 .. n /\ text \in Seq(Char)
  BY DEF Texts
<1>2. /\ SubSeq(text, i + 1, n) \in Texts
      /\ Len(SubSeq(text, i + 1, n)) = IF i + 1 <= n THEN n - (i + 1) + 1 ELSE 0
      /\ \A k \in 1 .. n - (i + 1) + 1 : SubSeq(text, i + 1, n)[k] = text[(i + 1) + k - 1]
  BY <1>1 DEF Texts
<1>3. /\ Len(SubSeq(text, i + 1, n)) = n - i
      /\ \A k \in 1 .. n - i : SubSeq(text, i + 1, n)[k] = text[i + k]
  BY <1>1, <1>2
<1> QED BY <1>1, <1>2, <1>3 DEF Beyond

LEMMA UptoFacts ==
  ASSUME NEW text \in Texts, NEW i \in 0 .. Len(text)
  PROVE  /\ Upto(text, i) \in Texts /\ Len(Upto(text, i)) = i
         /\ \A k \in 1 .. i : Upto(text, i)[k] = text[k]
BY DEF Texts, Upto

LEMMA TagLength ==
  ASSUME NEW tag \in Tags
  PROVE  Len(tag) \in Nat /\ Len(tag) > 0 /\ tag \in Seq(ToSet(tag))
BY TagAssumption DEF Tags

Fits(tag, text, i) ==
  /\ i \in Nat /\ i >= 1 /\ i + Len(tag) - 1 <= Len(text)
  /\ \A k \in 1 .. Len(tag) : text[i + k - 1] = tag[k]

LEMMA TaggedFits ==
  ASSUME NEW tag \in Tags, NEW text \in Texts, NEW i
  PROVE  i \in Tagged(tag, text) <=> Fits(tag, text, i)
<1> DEFINE n == Len(text)
           m == Len(tag)
<1>1. n \in Nat /\ m \in Nat /\ m > 0 /\ tag \in Seq(ToSet(tag)) /\ text \in Seq(Char)
  BY TagLength DEF Texts
<1>2. i \in 1 .. n - m + 1 <=> i \in Nat /\ i >= 1 /\ i + m - 1 <= n
  BY <1>1
<1>3. ASSUME i \in 1 .. n - m + 1
      PROVE  SubSeq(text, i, i + m - 1) = tag
               <=> \A k \in 1 .. m : text[i + k - 1] = tag[k]
  <2> DEFINE part == SubSeq(text, i, i + m - 1)
  <2>1. i \in Nat /\ i >= 1 /\ i + m - 1 \in i .. n
    BY <1>1, <1>3
  <2>2. /\ part \in Seq(Char) /\ Len(part) = m
        /\ \A k \in 1 .. m : part[k] = text[i + k - 1]
    BY <1>1, <2>1
  <2>3. DOMAIN part = 1 .. m /\ DOMAIN tag = 1 .. m
    BY <1>1, <2>2
  <2> HIDE DEF part
  <2>4. (\A k \in 1 .. m : part[k] = tag[k]) => part = tag
    <3>1. part = [k \in 1 .. m |-> part[k]] /\ tag = [k \in 1 .. m |-> tag[k]]
      BY <1>1, <2>2, <2>3
    <3> HIDE DEF m
    <3> QED BY <3>1
  <2> QED BY <2>2, <2>4 DEF part
<1> QED BY <1>2, <1>3 DEF Tagged, Fits

LEMMA TaggedBeyond ==
  ASSUME NEW tag \in Tags, NEW text \in Texts, NEW p \in 0 .. Len(text), NEW k \in Nat, k >= 1
  PROVE  k \in Tagged(tag, Beyond(text, p)) <=> p + k \in Tagged(tag, text)
<1> DEFINE n == Len(text)
           m == Len(tag)
           rest == Beyond(text, p)
<1>1. n \in Nat /\ m \in Nat /\ m > 0 /\ p \in 0 .. n
  BY TagLength DEF Texts
<1>2. rest \in Texts /\ Len(rest) = n - p /\ \A j \in 1 .. n - p : rest[j] = text[p + j]
  BY BeyondFacts
<1> HIDE DEF rest
<1>3. Fits(tag, rest, k) <=> Fits(tag, text, p + k)
  <2>1. k + m - 1 <= Len(rest) <=> (p + k) + m - 1 <= n
    BY <1>1, <1>2
  <2>2. ASSUME k + m - 1 <= Len(rest), NEW j \in 1 .. m
        PROVE  rest[k + j - 1] = text[(p + k) + j - 1]
    <3>1. k + j - 1 \in 1 .. n - p /\ p + (k + j - 1) = (p + k) + j - 1
      BY <1>1, <1>2, <2>2
    <3> QED BY <1>2, <3>1
  <2>3. p + k \in Nat /\ p + k >= 1
    BY <1>1
  <2> HIDE DEF m, n
  <2> QED BY <2>1, <2>2, <2>3 DEF Fits, m, n
<1> QED BY <1>2, <1>3, TaggedFits DEF rest

LEMMA TaggedConcat ==
  ASSUME NEW tag \in Tags, NEW a \in Texts, NEW b \in Texts, NEW k
  PROVE  /\ k \in Tagged(tag, a) => k \in Tagged(tag, a \o b)
         /\ k \in Tagged(tag, a \o b) /\ k + Len(tag) - 1 <= Len(a) => k \in Tagged(tag, a)
         /\ k \in Tagged(tag, a) => k \in Nat /\ k >= 1 /\ k + Len(tag) - 1 <= Len(a)
         /\ k \in Tagged(tag, a \o b) => k \in Nat /\ k >= 1
<1> DEFINE m == Len(tag)
           t == a \o b
<1>1. /\ m \in Nat /\ m > 0 /\ Len(a) \in Nat /\ Len(b) \in Nat /\ Len(t) \in Nat
      /\ t \in Texts /\ Len(t) = Len(a) + Len(b) /\ \A i \in 1 .. Len(a) : t[i] = a[i]
  BY TagLength, ConcatFacts DEF Texts
<1>2. Fits(tag, a, k) => k \in Nat /\ k >= 1 /\ k + m - 1 <= Len(a)
  BY DEF Fits
<1>3. Fits(tag, t, k) => k \in Nat /\ k >= 1
  BY DEF Fits
<1> HIDE DEF t, m
<1>4. ASSUME k \in Nat, k >= 1, k + m - 1 <= Len(a)
      PROVE  Fits(tag, t, k) <=> Fits(tag, a, k)
  <2>1. \A j \in 1 .. m : k + j - 1 \in 1 .. Len(a)
    BY <1>1, <1>4
  <2>2. \A j \in 1 .. m : t[k + j - 1] = a[k + j - 1]
    BY <1>1, <2>1
  <2>3. k + m - 1 <= Len(t)
    BY <1>1, <1>4
  <2> QED BY <1>4, <2>2, <2>3 DEF Fits, m
<1>5. /\ k \in Tagged(tag, a) <=> Fits(tag, a, k)
      /\ k \in Tagged(tag, t) <=> Fits(tag, t, k)
  BY <1>1, TaggedFits
<1> QED BY <1>2, <1>3, <1>4, <1>5 DEF t, m

LEMMA QuoteBeyond ==
  ASSUME NEW text \in Texts, NEW p \in 0 .. Len(text), NEW j \in Int
  PROVE  IsQuote(Beyond(text, p), j) <=> j >= 1 /\ IsQuote(text, p + j)
<1>1. /\ Len(text) \in Nat /\ p \in 0 .. Len(text) /\ DOMAIN text = 1 .. Len(text)
      /\ DOMAIN Beyond(text, p) = 1 .. Len(text) - p
      /\ \A k \in 1 .. Len(text) - p : Beyond(text, p)[k] = text[p + k]
  BY BeyondFacts DEF Texts
<1>2. j \in 1 .. Len(text) - p <=> j >= 1 /\ p + j \in 1 .. Len(text)
  BY <1>1
<1> QED BY <1>1, <1>2 DEF IsQuote

LEMMA QuoteConcat ==
  ASSUME NEW a \in Texts, NEW b \in Texts, NEW j \in Int
  PROVE  /\ j <= Len(a) => (IsQuote(a \o b, j) <=> IsQuote(a, j))
         /\ IsQuote(a, j) => IsQuote(a \o b, j)
<1> DEFINE t == a \o b
<1>1. /\ Len(a) \in Nat /\ Len(b) \in Nat /\ DOMAIN a = 1 .. Len(a)
      /\ DOMAIN t = 1 .. Len(a) + Len(b) /\ \A i \in 1 .. Len(a) : t[i] = a[i]
  BY ConcatFacts DEF Texts
<1> HIDE DEF t
<1>2. j \in 1 .. Len(a) => j \in 1 .. Len(a) + Len(b) /\ t[j] = a[j]
  BY <1>1
<1>3. j <= Len(a) /\ j \in 1 .. Len(a) + Len(b) => j \in 1 .. Len(a)
  BY <1>1
<1> QED BY <1>1, <1>2, <1>3 DEF IsQuote, t

LEMMA Parts ==
  ASSUME NEW a \in Texts, NEW b \in Texts, NEW p \in 0 .. Len(a)
  PROVE  /\ a \o b \in Texts /\ Len(a \o b) = Len(a) + Len(b) /\ p \in 0 .. Len(a \o b)
         /\ Beyond(a \o b, p) = Beyond(a, p) \o b
         /\ Upto(a \o b, p) = Upto(a, p)
<1> DEFINE t == a \o b
           n == Len(a)
           m == Len(b)
<1>1. /\ n \in Nat /\ m \in Nat /\ p \in 0 .. n /\ t \in Texts /\ Len(t) = n + m
      /\ \A i \in 1 .. n : t[i] = a[i]
      /\ \A i \in 1 .. m : t[n + i] = b[i]
  BY ConcatFacts DEF Texts
<1>2. p \in 0 .. Len(t)
  BY <1>1
<1> DEFINE u == Beyond(a, p)
           v == u \o b
           w == Beyond(t, p)
<1>3. /\ u \in Texts /\ Len(u) = n - p
      /\ \A k \in 1 .. n - p : u[k] = a[p + k]
  BY BeyondFacts
<1> HIDE DEF t, u
<1>4. /\ w \in Texts /\ Len(w) = n + m - p
      /\ \A k \in 1 .. n + m - p : w[k] = t[p + k]
  <2>1. /\ w \in Texts /\ Len(w) = Len(t) - p
        /\ \A k \in 1 .. Len(t) - p : w[k] = t[p + k]
    BY <1>1, <1>2, BeyondFacts
  <2> HIDE DEF w
  <2> QED BY <1>1, <2>1
<1>5. /\ v \in Texts /\ Len(v) = (n - p) + m
      /\ \A i \in 1 .. n - p : v[i] = u[i]
      /\ \A i \in 1 .. m : v[(n - p) + i] = b[i]
  <2>1. u \in Seq(Char) /\ b \in Seq(Char)
    BY <1>3 DEF Texts
  <2>2. /\ v \in Seq(Char) /\ Len(v) = Len(u) + Len(b)
        /\ \A i \in 1 .. Len(u) : v[i] = u[i]
        /\ \A i \in 1 .. Len(b) : v[Len(u) + i] = b[i]
    BY <2>1, ConcatFacts
  <2> QED BY <1>3, <2>2 DEF Texts
<1> HIDE DEF v, w
<1>6. \A i \in 1 .. n - p : v[i] = w[i]
  <2> TAKE i \in 1 .. n - p
  <2>1. p + i \in 1 .. n /\ i \in 1 .. n + m - p
    BY <1>1
  <2> QED BY <2>1, <1>1, <1>3, <1>4, <1>5
<1>7. \A i \in 1 .. m : v[(n - p) + i] = w[(n - p) + i]
  <2> TAKE i \in 1 .. m
  <2>1. (n - p) + i \in 1 .. n + m - p /\ p + ((n - p) + i) = n + i
    BY <1>1
  <2> QED BY <2>1, <1>1, <1>4, <1>5
<1>8. v = w
  <2>1. n - p \in Nat /\ m \in Nat /\ Len(v) = (n - p) + m /\ Len(w) = (n - p) + m
    BY <1>1, <1>4, <1>5
  <2>2. v \in Seq(Char) /\ w \in Seq(Char)
    BY <1>4, <1>5 DEF Texts
  <2>3. PICK k \in Nat : k = n - p
    BY <2>1
  <2> HIDE DEF n, m
  <2>4. /\ Len(v) = k + m /\ Len(w) = k + m /\ k \in Nat /\ m \in Nat
        /\ \A i \in 1 .. k : v[i] = w[i]
        /\ \A i \in 1 .. m : v[k + i] = w[k + i]
    BY <1>6, <1>7, <2>1, <2>3
  <2> QED BY <2>2, <2>4, EqualByParts
<1>9. Upto(t, p) = Upto(a, p)
  <2>1. /\ Upto(t, p) \in Seq(Char) /\ Len(Upto(t, p)) = p /\ \A k \in 1 .. p : Upto(t, p)[k] = t[k]
    BY <1>1, <1>2, UptoFacts DEF Texts
  <2>2. /\ Upto(a, p) \in Seq(Char) /\ Len(Upto(a, p)) = p /\ \A k \in 1 .. p : Upto(a, p)[k] = a[k]
    BY UptoFacts DEF Texts
  <2>3. \A k \in 1 .. p : Upto(t, p)[k] = Upto(a, p)[k]
    <3> TAKE k \in 1 .. p
    <3>1. k \in 1 .. n
      BY <1>1
    <3> QED BY <1>1, <2>1, <2>2, <3>1
  <2> HIDE DEF n, m
  <2> QED BY <2>1, <2>2, <2>3, SeqEqual
<1> QED BY <1>1, <1>2, <1>8, <1>9 DEF t, u, v, w

LEMMA PartOfPart ==
  ASSUME NEW text \in Texts, NEW p \in 0 .. Len(text), NEW k \in 0 .. Len(text) - p
  PROVE  /\ p + k \in 0 .. Len(text)
         /\ Beyond(Beyond(text, p), k) = Beyond(text, p + k)
         /\ Visible(Upto(text, p + k)) = Visible(Upto(text, p)) \o Visible(Upto(Beyond(text, p), k))
<1> DEFINE n == Len(text)
           u == Beyond(text, p)
<1>1. n \in Nat /\ p \in 0 .. n /\ k \in 0 .. n - p /\ p + k \in 0 .. n
  BY DEF Texts
<1>2. /\ u \in Texts /\ Len(u) = n - p /\ \A i \in 1 .. n - p : u[i] = text[p + i]
  BY BeyondFacts
<1> HIDE DEF u
<1>3. /\ Beyond(text, p + k) \in Texts /\ Len(Beyond(text, p + k)) = n - (p + k)
      /\ \A i \in 1 .. n - (p + k) : Beyond(text, p + k)[i] = text[(p + k) + i]
  <2>1. PICK j \in 0 .. Len(text) : j = p + k
    BY <1>1
  <2>2. /\ Beyond(text, j) \in Texts /\ Len(Beyond(text, j)) = Len(text) - j
        /\ \A i \in 1 .. Len(text) - j : Beyond(text, j)[i] = text[j + i]
    BY BeyondFacts
  <2> QED BY <2>1, <2>2
<1>4. /\ k \in 0 .. Len(u) /\ Beyond(u, k) \in Texts /\ Len(Beyond(u, k)) = (n - p) - k
      /\ \A i \in 1 .. (n - p) - k : Beyond(u, k)[i] = u[k + i]
  <2>1. k \in 0 .. Len(u)
    BY <1>1, <1>2
  <2>2. /\ Beyond(u, k) \in Texts /\ Len(Beyond(u, k)) = Len(u) - k
        /\ \A i \in 1 .. Len(u) - k : Beyond(u, k)[i] = u[k + i]
    BY <1>2, <2>1, BeyondFacts
  <2> QED BY <1>2, <2>1, <2>2
<1>5. Beyond(u, k) = Beyond(text, p + k)
  <2>1. \A i \in 1 .. n - (p + k) : Beyond(u, k)[i] = Beyond(text, p + k)[i]
    <3> TAKE i \in 1 .. n - (p + k)
    <3>1. i \in 1 .. (n - p) - k /\ k + i \in 1 .. n - p /\ p + (k + i) = (p + k) + i
      BY <1>1
    <3> QED BY <1>2, <1>3, <1>4, <3>1
  <2>2. Len(Beyond(u, k)) = n - (p + k) /\ n - (p + k) \in Nat
    BY <1>1, <1>4
  <2> QED BY <1>3, <1>4, <2>1, <2>2, SeqEqual DEF Texts
<1>6. Upto(text, p) \o Upto(u, k) = Upto(text, p + k)
  <2> DEFINE a == Upto(text, p)
             b == Upto(u, k)
             c == Upto(text, p + k)
  <2>1. /\ a \in Texts /\ Len(a) = p /\ \A i \in 1 .. p : a[i] = text[i]
    BY <1>1, UptoFacts
  <2>2. /\ b \in Texts /\ Len(b) = k /\ \A i \in 1 .. k : b[i] = u[i]
    BY <1>2, <1>4, UptoFacts
  <2>3. /\ c \in Texts /\ Len(c) = p + k /\ \A i \in 1 .. p + k : c[i] = text[i]
    BY <1>1, UptoFacts
  <2> HIDE DEF a, b, c
  <2>4. /\ a \o b \in Seq(Char) /\ Len(a \o b) = p + k
        /\ \A i \in 1 .. p : (a \o b)[i] = a[i]
        /\ \A i \in 1 .. k : (a \o b)[p + i] = b[i]
    <3>1. a \in Seq(Char) /\ b \in Seq(Char)
      BY <2>1, <2>2 DEF Texts
    <3>2. /\ a \o b \in Seq(Char) /\ Len(a \o b) = Len(a) + Len(b)
          /\ \A i \in 1 .. Len(a) : (a \o b)[i] = a[i]
          /\ \A i \in 1 .. Len(b) : (a \o b)[Len(a) + i] = b[i]
      BY <3>1, ConcatFacts
    <3> QED BY <2>1, <2>2, <3>2
  <2>5. \A i \in 1 .. p : (a \o b)[i] = c[i]
    BY <1>1, <2>1, <2>3, <2>4
  <2>6. \A i \in 1 .. k : (a \o b)[p + i] = c[p + i]
    <3> TAKE i \in 1 .. k
    <3>1. i \in 1 .. n - p /\ p + i \in 1 .. p + k
      BY <1>1
    <3> QED BY <1>2, <2>2, <2>3, <2>4, <3>1
  <2>7. a \o b = c
    <3>1. c \in Seq(Char) /\ p \in Nat /\ k \in Nat
      BY <1>1, <2>3 DEF Texts
    <3> HIDE DEF n
    <3> QED BY <2>3, <2>4, <2>5, <2>6, <3>1, EqualByParts
  <2> QED BY <2>7 DEF a, b, c
<1>7. Upto(text, p) \in Texts /\ Upto(u, k) \in Texts
  BY <1>1, <1>2, <1>4, UptoFacts
<1>8. Visible(Upto(text, p) \o Upto(u, k)) = Visible(Upto(text, p)) \o Visible(Upto(u, k))
  BY <1>7, VisibleFacts
<1> QED BY <1>1, <1>5, <1>6, <1>8 DEF u

-----------------------------------------------------------------------------
(* Tags in a text that grows.  No tag is quoted on one side only, as far as  *)
(* its surroundings have come; where a tag may open the thinking; where it   *)
(* does; what is behind it; and where the thinking may end.                  *)
Settled(text) ==
  \A tag \in Tags : \A i \in Tagged(tag, text) :
    i + Len(tag) <= Len(text) => (IsQuote(text, i - 1) <=> IsQuote(text, i + Len(tag)))
Bare(text)       == {i \in Tagged(OpenTag, text) : ~IsQuote(text, i - 1)}
OpensAt(text, q) == q \in Bare(text) /\ \A i \in Bare(text) : q <= i
Inner(text, q)   == Beyond(text, q + Len(OpenTag) - 1)
TwoLines(text, i) == i + 1 <= Len(text) /\ text[i] = Newline /\ text[i + 1] = Newline
Ends(text)       == {k \in Tagged(CloseTag, text) : TwoLines(text, k + Len(CloseTag))}
EndsAt(text, k)  == k \in Ends(text) /\ \A j \in Ends(text) : k <= j

LEMMA BothAreTags == OpenTag \in Tags /\ CloseTag \in Tags
BY DEF Tags

LEMMA TaggedNats ==
  ASSUME NEW tag \in Tags, NEW text \in Texts, NEW i \in Tagged(tag, text)
  PROVE  i \in Nat /\ i >= 1 /\ i + Len(tag) - 1 <= Len(text)
BY TaggedFits DEF Fits

LEMMA SettledBefore ==
  ASSUME NEW a \in Texts, NEW b \in Texts, Settled(a \o b)
  PROVE  Settled(a)
<1> SUFFICES ASSUME NEW tag \in Tags, NEW i \in Tagged(tag, a), i + Len(tag) <= Len(a)
             PROVE  IsQuote(a, i - 1) <=> IsQuote(a, i + Len(tag))
  BY DEF Settled
<1> DEFINE t == a \o b
<1>1. /\ Len(tag) \in Nat /\ i \in Nat /\ i - 1 \in Int /\ i + Len(tag) \in Int
      /\ i \in Tagged(tag, t) /\ Len(a) \in Nat /\ i - 1 <= Len(a)
      /\ Len(t) = Len(a) + Len(b) /\ Len(b) \in Nat
  <2>1. Len(t) = Len(a) + Len(b) /\ Len(a) \in Nat /\ Len(b) \in Nat
    BY ConcatFacts DEF Texts
  <2>2. i \in Tagged(tag, t) /\ i \in Nat
    BY TaggedConcat
  <2> QED BY <2>1, <2>2, TagLength
<1>2. /\ IsQuote(t, i - 1) <=> IsQuote(a, i - 1)
      /\ IsQuote(t, i + Len(tag)) <=> IsQuote(a, i + Len(tag))
  BY <1>1, QuoteConcat
<1>3. IsQuote(t, i - 1) <=> IsQuote(t, i + Len(tag))
  <2>1. i + Len(tag) <= Len(t) /\ Settled(t)
    BY <1>1
  <2> HIDE DEF t
  <2> QED BY <1>1, <2>1 DEF Settled
<1> QED BY <1>2, <1>3

LEMMA BareConcat ==
  ASSUME NEW a \in Texts, NEW b \in Texts, NEW i
  PROVE  /\ i \in Bare(a) => i \in Bare(a \o b)
         /\ i \in Bare(a \o b) /\ i + Len(OpenTag) - 1 <= Len(a) => i \in Bare(a)
         /\ i \in Bare(a) => i \in Nat /\ i >= 1 /\ i + Len(OpenTag) - 1 <= Len(a)
         /\ i \in Bare(a \o b) => i \in Nat /\ i >= 1
<1>1. OpenTag \in Tags /\ Len(OpenTag) \in Nat /\ Len(OpenTag) > 0 /\ Len(a) \in Nat
  BY BothAreTags, TagLength DEF Texts
<1>2. /\ i \in Tagged(OpenTag, a) => i \in Tagged(OpenTag, a \o b)
      /\ i \in Tagged(OpenTag, a \o b) /\ i + Len(OpenTag) - 1 <= Len(a) => i \in Tagged(OpenTag, a)
      /\ i \in Tagged(OpenTag, a) => i \in Nat /\ i >= 1 /\ i + Len(OpenTag) - 1 <= Len(a)
      /\ i \in Tagged(OpenTag, a \o b) => i \in Nat /\ i >= 1
  BY <1>1, TaggedConcat
<1>3. i \in Nat /\ i + Len(OpenTag) - 1 <= Len(a) => (IsQuote(a \o b, i - 1) <=> IsQuote(a, i - 1))
  <2>1. i \in Nat /\ i + Len(OpenTag) - 1 <= Len(a) => i - 1 \in Int /\ i - 1 <= Len(a)
    BY <1>1
  <2> QED BY <2>1, QuoteConcat
<1> QED BY <1>2, <1>3 DEF Bare

(* Once the thinking is open, more text does not change where.                *)
LEMMA OpensConcat ==
  ASSUME NEW a \in Texts, NEW b \in Texts, NEW q, OpensAt(a, q)
  PROVE  /\ OpensAt(a \o b, q) /\ q \in Nat /\ q >= 1
         /\ q + Len(OpenTag) - 1 \in 0 .. Len(a) /\ q - 1 \in 0 .. Len(a)
         /\ Inner(a \o b, q) = Inner(a, q) \o b /\ Inner(a, q) \in Texts
         /\ Upto(a \o b, q - 1) = Upto(a, q - 1)
<1>1. Len(OpenTag) \in Nat /\ Len(OpenTag) > 0 /\ Len(a) \in Nat
  BY BothAreTags, TagLength DEF Texts
<1>2. q \in Bare(a) /\ \A i \in Bare(a) : q <= i
  BY DEF OpensAt
<1>3. q \in Nat /\ q >= 1 /\ q + Len(OpenTag) - 1 <= Len(a) /\ q \in Bare(a \o b)
  BY <1>2, BareConcat
<1>4. q + Len(OpenTag) - 1 \in 0 .. Len(a) /\ q - 1 \in 0 .. Len(a)
  BY <1>1, <1>3
<1>5. ASSUME NEW i \in Bare(a \o b), i < q PROVE FALSE
  <2>1. i \in Nat
    BY BareConcat
  <2>2. i + Len(OpenTag) - 1 <= Len(a)
    BY <1>1, <1>3, <1>5, <2>1
  <2>3. i \in Bare(a)
    BY <2>2, BareConcat
  <2> QED BY <1>2, <1>3, <1>5, <2>1, <2>3
<1>6. OpensAt(a \o b, q)
  <2>1. ASSUME NEW i \in Bare(a \o b) PROVE q <= i
    <3>1. i \in Nat
      BY BareConcat
    <3> QED BY <1>3, <1>5, <3>1
  <2> QED BY <1>3, <2>1 DEF OpensAt
<1>7. PICK j \in 0 .. Len(a) : j = q + Len(OpenTag) - 1
  BY <1>4
<1>8. Inner(a \o b, q) = Inner(a, q) \o b /\ Inner(a, q) \in Texts
  BY <1>7, Parts, BeyondFacts DEF Inner
<1>9. PICK h \in 0 .. Len(a) : h = q - 1
  BY <1>4
<1>10. Upto(a \o b, q - 1) = Upto(a, q - 1)
  BY <1>9, Parts
<1> QED BY <1>3, <1>4, <1>6, <1>8, <1>10

LEMMA EndsNats ==
  ASSUME NEW text \in Texts, NEW k \in Ends(text)
  PROVE  /\ k \in Nat /\ k >= 1 /\ k + Len(CloseTag) + 1 <= Len(text)
         /\ text[k + Len(CloseTag)] = Newline /\ text[k + Len(CloseTag) + 1] = Newline
BY BothAreTags, TaggedNats DEF Ends, TwoLines

LEMMA EndsConcat ==
  ASSUME NEW a \in Texts, NEW b \in Texts, NEW k
  PROVE  /\ k \in Ends(a) => k \in Ends(a \o b)
         /\ k \in Ends(a \o b) /\ k + Len(CloseTag) + 1 <= Len(a) => k \in Ends(a)
<1> DEFINE m == Len(CloseTag)
           t == a \o b
<1>1. /\ CloseTag \in Tags /\ m \in Nat /\ m > 0 /\ Len(a) \in Nat /\ Len(b) \in Nat
      /\ Len(t) = Len(a) + Len(b) /\ \A i \in 1 .. Len(a) : t[i] = a[i]
  BY BothAreTags, TagLength, ConcatFacts DEF Texts
<1>2. /\ k \in Tagged(CloseTag, a) => k \in Tagged(CloseTag, t)
      /\ k \in Tagged(CloseTag, t) /\ k + m - 1 <= Len(a) => k \in Tagged(CloseTag, a)
      /\ k \in Tagged(CloseTag, a) => k \in Nat /\ k >= 1
      /\ k \in Tagged(CloseTag, t) => k \in Nat /\ k >= 1
  BY <1>1, TaggedConcat
<1> HIDE DEF t, m
<1>3. ASSUME k \in Nat, k >= 1, k + m + 1 <= Len(a)
      PROVE  TwoLines(t, k + m) <=> TwoLines(a, k + m)
  <2>1. k + m \in 1 .. Len(a) /\ k + m + 1 \in 1 .. Len(a) /\ k + m + 1 <= Len(t)
    BY <1>1, <1>3
  <2>2. t[k + m] = a[k + m] /\ t[k + m + 1] = a[k + m + 1]
    BY <1>1, <2>1
  <2> QED BY <1>3, <2>1, <2>2 DEF TwoLines
<1>4. ASSUME k \in Ends(a) PROVE k \in Ends(t)
  <2>1. k \in Tagged(CloseTag, a) /\ TwoLines(a, k + m)
    BY <1>4 DEF Ends, m
  <2>2. k \in Nat /\ k >= 1 /\ k + m + 1 <= Len(a)
    BY <1>2, <2>1 DEF TwoLines
  <2> QED BY <1>2, <1>3, <2>1, <2>2 DEF Ends, m
<1>5. ASSUME k \in Ends(t), k + m + 1 <= Len(a) PROVE k \in Ends(a)
  <2>1. k \in Tagged(CloseTag, t) /\ TwoLines(t, k + m)
    BY <1>5 DEF Ends, m
  <2>2. k \in Nat /\ k >= 1 /\ k + m - 1 <= Len(a)
    BY <1>1, <1>2, <1>5, <2>1
  <2> QED BY <1>2, <1>3, <1>5, <2>1, <2>2 DEF Ends, m
<1> QED BY <1>4, <1>5 DEF t, m

LEMMA EndsBeyond ==
  ASSUME NEW text \in Texts, NEW p \in 0 .. Len(text), NEW k \in Nat, k >= 1
  PROVE  k \in Ends(Beyond(text, p)) <=> p + k \in Ends(text)
<1> DEFINE m == Len(CloseTag)
           rest == Beyond(text, p)
<1>1. /\ CloseTag \in Tags /\ m \in Nat /\ m > 0 /\ Len(text) \in Nat /\ p \in 0 .. Len(text)
      /\ Len(rest) = Len(text) - p /\ \A j \in 1 .. Len(text) - p : rest[j] = text[p + j]
  BY BothAreTags, TagLength, BeyondFacts DEF Texts
<1>2. k \in Tagged(CloseTag, rest) <=> p + k \in Tagged(CloseTag, text)
  BY <1>1, TaggedBeyond
<1> HIDE DEF rest, m
<1>3. TwoLines(rest, k + m) <=> TwoLines(text, (p + k) + m)
  <2>1. k + m + 1 <= Len(rest) <=> (p + k) + m + 1 <= Len(text)
    BY <1>1
  <2>2. ASSUME k + m + 1 <= Len(rest)
        PROVE  rest[k + m] = text[(p + k) + m] /\ rest[k + m + 1] = text[(p + k) + m + 1]
    <3>1. /\ k + m \in 1 .. Len(text) - p /\ k + m + 1 \in 1 .. Len(text) - p
          /\ p + (k + m) = (p + k) + m /\ p + (k + m + 1) = (p + k) + m + 1
      BY <1>1, <2>2
    <3> QED BY <1>1, <3>1
  <2> QED BY <2>1, <2>2 DEF TwoLines
<1> QED BY <1>2, <1>3 DEF Ends, rest, m

(* A closing tag with two newlines behind is found where no quote precedes.  *)
LEMMA AfterTagged ==
  ASSUME NEW text \in Texts, NEW tag \in Tags, NEW i \in Tagged(tag, text)
  PROVE  /\ i + Len(tag) - 1 \in 0 .. Len(text)
         /\ After(tag, text, i) = Beyond(text, i + Len(tag) - 1)
<1>1. /\ i \in Nat /\ i >= 1 /\ i + Len(tag) - 1 <= Len(text) /\ Len(tag) \in Nat /\ Len(tag) > 0
      /\ Len(text) \in Nat
  BY TaggedNats, TagLength DEF Texts
<1>2. (i + Len(tag) - 1) + 1 = i + Len(tag) /\ i + Len(tag) - 1 \in 0 .. Len(text)
  BY <1>1
<1> QED BY <1>2 DEF After, Beyond

LEMMA EndTagSet ==
  ASSUME NEW text \in Texts
  PROVE  EndTag(text) = First({k \in Ends(text) : ~IsQuote(text, k - 1)})
<1> DEFINE m == Len(CloseTag)
           nn == <<Newline, Newline>>
<1>1. CloseTag \in Tags /\ m \in Nat /\ m > 0 /\ Len(text) \in Nat
  BY BothAreTags, TagLength DEF Texts
<1>2. ASSUME NEW k \in Tagged(CloseTag, text)
      PROVE  IsPrefix(nn, After(CloseTag, text, k)) <=> TwoLines(text, k + m)
  <2>1. /\ k \in Nat /\ k >= 1 /\ k + m - 1 \in 0 .. Len(text)
        /\ After(CloseTag, text, k) = Beyond(text, k + m - 1)
    BY <1>1, TaggedNats, AfterTagged
  <2>2. PICK j \in 0 .. Len(text) : j = k + m - 1
    BY <2>1
  <2> DEFINE rest == Beyond(text, j)
  <2>3. /\ rest \in Texts /\ Len(rest) = Len(text) - j
        /\ \A x \in 1 .. Len(text) - j : rest[x] = text[j + x]
    BY BeyondFacts
  <2> HIDE DEF rest
  <2>4. Len(nn) = 2 /\ nn[1] = Newline /\ nn[2] = Newline /\ nn = SubSeq(nn, 1, 2)
    OBVIOUS
  <2>5. IsPrefix(nn, rest) <=> Len(rest) >= 2 /\ rest[1] = Newline /\ rest[2] = Newline
    <3>1. Len(rest) \in Nat /\ rest \in Seq(Char)
      BY <2>3 DEF Texts
    <3>2. ASSUME Len(rest) >= 2
          PROVE  SubSeq(rest, 1, 2) = nn <=> rest[1] = Newline /\ rest[2] = Newline
      <4> DEFINE a == SubSeq(rest, 1, 2)
      <4>1. a \in Seq(Char \cup {Newline}) /\ Len(a) = 2 /\ a[1] = rest[1] /\ a[2] = rest[2]
        BY <3>1, <3>2
      <4>2. nn \in Seq(Char \cup {Newline})
        OBVIOUS
      <4> HIDE DEF a, nn
      <4>3. a[1] = nn[1] /\ a[2] = nn[2] => a = nn
        <5>1. a[1] = nn[1] /\ a[2] = nn[2] => \A i \in 1 .. 2 : a[i] = nn[i]
          OBVIOUS
        <5> QED BY <2>4, <4>1, <4>2, <5>1, SeqEqual
      <4> QED BY <2>4, <4>1, <4>3 DEF a
    <3>3. IsPrefix(nn, rest) <=> Len(rest) >= 2 /\ nn = SubSeq(rest, 1, 2)
      BY <2>4, <3>1 DEF IsPrefix
    <3> HIDE DEF nn
    <3> QED BY <3>2, <3>3
  <2>6. Len(rest) >= 2 <=> (k + m) + 1 <= Len(text)
    BY <1>1, <2>1, <2>2, <2>3
  <2>7. Len(rest) >= 2 => rest[1] = text[k + m] /\ rest[2] = text[k + m + 1]
    <3>1. ASSUME Len(rest) >= 2 PROVE /\ 1 \in 1 .. Len(text) - j /\ 2 \in 1 .. Len(text) - j
                                      /\ j + 1 = k + m /\ j + 2 = k + m + 1
      BY <1>1, <2>1, <2>2, <2>3, <3>1
    <3> QED BY <2>3, <3>1
  <2> QED BY <2>1, <2>2, <2>5, <2>6, <2>7 DEF TwoLines, rest
<1>3. ASSUME NEW k \in Tagged(CloseTag, text), TwoLines(text, k + m)
      PROVE  ~IsQuote(text, k + m)
  BY <1>3, TagAssumption DEF TwoLines, IsQuote
<1> DEFINE S == {i \in RealTags(CloseTag, text) : IsPrefix(nn, After(CloseTag, text, i))}
           T == {k \in Ends(text) : ~IsQuote(text, k - 1)}
<1>4. ASSUME NEW k PROVE k \in S <=> k \in T
  <2>1. k \in RealTags(CloseTag, text)
          <=> k \in Tagged(CloseTag, text) /\ ~IsQuote(text, k - 1) /\ ~IsQuote(text, k + m)
    BY DEF RealTags, Tagged
  <2>2. k \in Ends(text) <=> k \in Tagged(CloseTag, text) /\ TwoLines(text, k + m)
    BY DEF Ends
  <2> HIDE DEF nn
  <2> QED BY <1>2, <1>3, <2>1, <2>2
<1>5. EndTag(text) = First(S)
  BY DEF EndTag
<1> HIDE DEF S, T
<1>6. S = T
  BY <1>4
<1> QED BY <1>5, <1>6 DEF T

LEMMA FirstIs ==
  ASSUME NEW S, \A x \in S : x \in Nat /\ x >= 1
  PROVE  /\ First(S) = 0 => S = {}
         /\ S = {} => First(S) = 0
         /\ First(S) # 0 => First(S) \in S /\ \A x \in S : First(S) <= x
         /\ \A m \in S : (\A x \in S : m <= x) => First(S) = m
<1>1. S \in SUBSET Nat
  OBVIOUS
<1>2. S # {} => First(S) = Min(S) /\ Min(S) \in S /\ \A x \in S : Min(S) <= x
  BY <1>1, MinOfNats DEF First
<1>3. S = {} => First(S) = 0
  BY DEF First
<1>4. S # {} => First(S) \in S /\ First(S) # 0 /\ \A x \in S : First(S) <= x
  BY <1>2
<1>5. ASSUME NEW m \in S, \A x \in S : m <= x PROVE First(S) = m
  <2>1. First(S) \in Nat /\ m \in Nat /\ m <= First(S) /\ First(S) <= m
    BY <1>4, <1>5
  <2> QED BY <2>1
<1> QED BY <1>3, <1>4, <1>5

(* A tag that opens the thinking is the first bare one, as soon as the       *)
(* buffer has it.                                                            *)
StartScan(text, p) ==
  /\ p > 0 => Len(text) - p > Len(OpenTag)
  /\ \A i \in Bare(text) : i > p
LEMMA StartScanned ==
  ASSUME NEW text \in Texts, NEW p \in 0 .. Len(text), Settled(text), StartScan(text, p),
         NEW s, s = StartTag(Beyond(text, p))
  PROVE  /\ s = 0 => Bare(text) = {}
         /\ s # 0 => s \in Nat /\ s >= 1 /\ OpensAt(text, p + s)
                     /\ s \in RealTags(OpenTag, Beyond(text, p))
<1> DEFINE m == Len(OpenTag)
           b == Beyond(text, p)
           R == RealTags(OpenTag, b)
<1>1. /\ OpenTag \in Tags /\ m \in Nat /\ m > 0 /\ Len(text) \in Nat /\ p \in 0 .. Len(text)
      /\ b \in Texts /\ Len(b) = Len(text) - p
  BY BothAreTags, TagLength, BeyondFacts DEF Texts
<1>2. \A x \in R : x \in Tagged(OpenTag, b) /\ ~IsQuote(b, x - 1) /\ ~IsQuote(b, x + m)
  BY DEF RealTags, Tagged
<1>3. \A x \in Tagged(OpenTag, b) : ~IsQuote(b, x - 1) /\ ~IsQuote(b, x + m) => x \in R
  BY DEF RealTags, Tagged
<1>4. ASSUME NEW i \in Bare(text) PROVE i - p \in R /\ i \in Nat
  <2>1. i \in Tagged(OpenTag, text) /\ ~IsQuote(text, i - 1) /\ i > p
    BY DEF Bare, StartScan
  <2>2. i \in Nat
    BY <1>1, <2>1, TaggedNats
  <2>3. PICK k \in Nat : k = i - p /\ k >= 1 /\ p + k = i
    BY <1>1, <2>1, <2>2
  <2>4. k \in Tagged(OpenTag, b)
    BY <1>1, <2>1, <2>3, TaggedBeyond
  <2>5. ~IsQuote(b, k - 1)
    <3>1. k - 1 \in Int /\ p + (k - 1) = i - 1
      BY <1>1, <2>2, <2>3
    <3>2. IsQuote(b, k - 1) <=> k - 1 >= 1 /\ IsQuote(text, p + (k - 1))
      BY <3>1, QuoteBeyond
    <3> QED BY <2>1, <3>1, <3>2
  <2>6. ~IsQuote(b, k + m)
    <3>1. k + m \in Int /\ p + (k + m) = i + m
      BY <1>1, <2>2, <2>3
    <3>2. IsQuote(b, k + m) <=> k + m >= 1 /\ IsQuote(text, p + (k + m))
      BY <3>1, QuoteBeyond
    <3>3. IsQuote(text, i + m) => i + m <= Len(text)
      BY <1>1, <2>2 DEF IsQuote, Texts
    <3>4. i + m <= Len(text) => (IsQuote(text, i - 1) <=> IsQuote(text, i + m))
      BY <1>1, <2>1 DEF Settled
    <3> QED BY <2>1, <3>1, <3>2, <3>3, <3>4
  <2> QED BY <1>3, <2>2, <2>3, <2>4, <2>5, <2>6
<1>5. ASSUME NEW x \in R PROVE p + x \in Bare(text) /\ x \in Nat /\ x >= 1
  <2>1. x \in Tagged(OpenTag, b) /\ ~IsQuote(b, x - 1) /\ ~IsQuote(b, x + m)
    BY <1>2
  <2>2. x \in Nat /\ x >= 1
    BY <1>1, <2>1, TaggedNats
  <2>3. p + x \in Tagged(OpenTag, text)
    BY <1>1, <2>1, <2>2, TaggedBeyond
  <2>4. ~IsQuote(text, (p + x) - 1)
    <3>1. CASE x > 1
      <4>1. x - 1 \in Int /\ x - 1 >= 1 /\ p + (x - 1) = (p + x) - 1
        BY <1>1, <2>2, <3>1
      <4>2. IsQuote(b, x - 1) <=> x - 1 >= 1 /\ IsQuote(text, p + (x - 1))
        BY <4>1, QuoteBeyond
      <4> QED BY <2>1, <4>1, <4>2
    <3>2. CASE x = 1 /\ p = 0
      <4>1. (p + x) - 1 = 0 /\ 0 \notin DOMAIN text
        BY <1>1, <3>2 DEF Texts
      <4> QED BY <4>1 DEF IsQuote
    <3>3. CASE x = 1 /\ p > 0
      <4>1. Len(text) - p > m
        BY <3>3 DEF StartScan
      <4>2. (p + x) + m <= Len(text) /\ x + m \in Int /\ x + m >= 1 /\ p + (x + m) = (p + x) + m
        BY <1>1, <2>2, <3>3, <4>1
      <4>3. IsQuote(text, (p + x) - 1) <=> IsQuote(text, (p + x) + m)
        BY <1>1, <2>3, <4>2 DEF Settled
      <4>4. IsQuote(b, x + m) <=> x + m >= 1 /\ IsQuote(text, p + (x + m))
        BY <4>2, QuoteBeyond
      <4> QED BY <2>1, <4>2, <4>3, <4>4
    <3> QED BY <1>1, <2>2, <3>1, <3>2, <3>3
  <2> QED BY <2>2, <2>3, <2>4 DEF Bare
<1>6. s = First(R)
  BY DEF StartTag
<1> HIDE DEF R, b
<1>7. /\ s = 0 => R = {}
      /\ s # 0 => s \in R /\ \A x \in R : s <= x
  BY <1>5, <1>6, FirstIs
<1>8. s = 0 => Bare(text) = {}
  BY <1>4, <1>7
<1>9. ASSUME s # 0 PROVE s \in Nat /\ s >= 1 /\ OpensAt(text, p + s) /\ s \in R
  <2>1. s \in R /\ p + s \in Bare(text) /\ s \in Nat /\ s >= 1
    BY <1>5, <1>7, <1>9
  <2>2. ASSUME NEW i \in Bare(text) PROVE p + s <= i
    <3>1. i \in Nat /\ s <= i - p
      BY <1>4, <1>7, <1>9
    <3> QED BY <1>1, <2>1, <3>1
  <2> QED BY <2>1, <2>2 DEF OpensAt
<1> QED BY <1>8, <1>9 DEF R, b

LEMMA EndsPlain ==
  ASSUME NEW text \in Texts, Settled(text), NEW q, OpensAt(text, q), NEW k \in Ends(Inner(text, q))
  PROVE  ~IsQuote(Inner(text, q), k - 1)
<1> DEFINE m == Len(CloseTag)
<1>1. CloseTag \in Tags /\ m \in Nat /\ m > 0 /\ Len(text) \in Nat /\ text \o <<>> = text /\ <<>> \in Texts
  BY BothAreTags, TagLength, EmptyText DEF Texts
<1>2. q + Len(OpenTag) - 1 \in 0 .. Len(text) /\ Inner(text, q) \in Texts
  BY <1>1, OpensConcat
<1>3. PICK j \in 0 .. Len(text) : j = q + Len(OpenTag) - 1
  BY <1>2
<1>4. Inner(text, q) = Beyond(text, j)
  BY <1>3 DEF Inner
<1>5. k \in Nat /\ k >= 1
  BY <1>2, EndsNats
<1>6. j + k \in Ends(text)
  BY <1>4, <1>5, EndsBeyond
<1>7. j + k \in Tagged(CloseTag, text) /\ (j + k) + m <= Len(text) /\ text[(j + k) + m] = Newline
  BY <1>1, <1>5, <1>6 DEF Ends, TwoLines
<1>8. ~IsQuote(text, (j + k) + m)
  BY <1>7, TagAssumption DEF IsQuote
<1>9. ~IsQuote(text, (j + k) - 1)
  BY <1>1, <1>7, <1>8 DEF Settled
<1>10. k - 1 \in Int /\ j + (k - 1) = (j + k) - 1
  BY <1>5
<1>11. IsQuote(Beyond(text, j), k - 1) => IsQuote(text, j + (k - 1))
  BY <1>10, QuoteBeyond
<1> QED BY <1>4, <1>9, <1>10, <1>11

LEMMA EndScanned ==
  ASSUME NEW text \in Texts, Settled(text), NEW q, OpensAt(text, q),
         NEW in, in = Inner(text, q), NEW p \in 0 .. Len(in), \A k \in Ends(in) : k > p,
         NEW e, e = EndTag(Beyond(in, p))
  PROVE  /\ e = 0 => Ends(in) = {}
         /\ e # 0 => e \in Nat /\ e >= 1 /\ EndsAt(in, p + e) /\ e \in Ends(Beyond(in, p))
<1> DEFINE b == Beyond(in, p)
<1>1. text \o <<>> = text /\ <<>> \in Texts
  BY EmptyText
<1>2. in \in Texts
  BY <1>1, OpensConcat
<1>3. b \in Texts /\ Len(in) \in Nat /\ p \in 0 .. Len(in)
  BY <1>2, BeyondFacts DEF Texts
<1>4. ASSUME NEW x \in Ends(b) PROVE x \in Nat /\ x >= 1 /\ p + x \in Ends(in) /\ ~IsQuote(b, x - 1)
  <2>1. x \in Nat /\ x >= 1
    BY <1>3, EndsNats
  <2>2. p + x \in Ends(in)
    BY <1>2, <2>1, EndsBeyond
  <2>3. ~IsQuote(in, (p + x) - 1)
    BY <2>2, EndsPlain
  <2>4. x - 1 \in Int /\ p + (x - 1) = (p + x) - 1
    BY <1>3, <2>1
  <2>5. IsQuote(b, x - 1) => IsQuote(in, p + (x - 1))
    BY <1>2, <2>4, QuoteBeyond
  <2> QED BY <2>1, <2>2, <2>3, <2>4, <2>5
<1>5. ASSUME NEW k \in Ends(in) PROVE k \in Nat /\ k - p \in Ends(b)
  <2>1. k \in Nat /\ k > p
    BY <1>2, EndsNats
  <2>2. PICK x \in Nat : x = k - p /\ x >= 1 /\ p + x = k
    BY <1>3, <2>1
  <2>3. x \in Ends(b)
    BY <1>2, <2>2, EndsBeyond
  <2> QED BY <2>1, <2>2, <2>3
<1> DEFINE T == {k \in Ends(b) : ~IsQuote(b, k - 1)}
<1>6. e = First(T)
  BY <1>3, EndTagSet
<1>7. T = Ends(b)
  BY <1>4
<1> HIDE DEF T, b
<1>8. /\ e = 0 => Ends(b) = {}
      /\ e # 0 => e \in Ends(b) /\ \A x \in Ends(b) : e <= x
  BY <1>4, <1>6, <1>7, FirstIs
<1>9. e = 0 => Ends(in) = {}
  BY <1>5, <1>8
<1>10. ASSUME e # 0 PROVE e \in Nat /\ e >= 1 /\ EndsAt(in, p + e) /\ e \in Ends(b)
  <2>1. e \in Nat /\ e >= 1 /\ p + e \in Ends(in) /\ e \in Ends(b)
    BY <1>4, <1>8, <1>10
  <2>2. ASSUME NEW k \in Ends(in) PROVE p + e <= k
    <3>1. k \in Nat /\ e <= k - p
      BY <1>5, <1>8, <1>10
    <3> QED BY <1>3, <2>1, <3>1
  <2> QED BY <2>1, <2>2 DEF EndsAt
<1> QED BY <1>9, <1>10 DEF b

-----------------------------------------------------------------------------
(* What the answer and the thinking say, apart from each other.              *)
Spoken(c)  == Visible(SentText(c, {"text"}))
Thought(c) == Visible(SentText(c, {"thinking"}))
Tells(c, d, text, thought) ==
  /\ Spoken(d) = Spoken(c) \o Visible(text)
  /\ Thought(d) = Thought(c) \o Visible(thought)
Mute(c, d) == \A kinds : SentText(d, kinds) = SentText(c, kinds)

LEMMA SpokenTypes ==
  ASSUME NEW c, c.sent \in Seq(Events)
  PROVE  Spoken(c) \in Texts /\ Thought(c) \in Texts
BY SaidType, VisibleFacts DEF Spoken, Thought

LEMMA MuteTells ==
  ASSUME NEW c, NEW d, c.sent \in Seq(Events), Mute(c, d)
  PROVE  Tells(c, d, <<>>, <<>>)
<1>1. Spoken(d) = Spoken(c) /\ Thought(d) = Thought(c)
  BY DEF Mute, Spoken, Thought
<1> QED BY <1>1, SpokenTypes, EmptyText DEF Tells

LEMMA MuteTransitive ==
  ASSUME NEW c, NEW d, NEW e, Mute(c, d), Mute(d, e) PROVE Mute(c, e)
BY DEF Mute

LEMMA MuteSame ==
  ASSUME NEW c, NEW d, d.sent = c.sent, d.blocks = c.blocks PROVE Mute(c, d)
BY DEF Mute, SentText

LEMMA TellsTransitive ==
  ASSUME NEW c, NEW d, NEW e, c.sent \in Seq(Events),
         NEW a \in Texts, NEW b \in Texts, NEW s \in Texts, NEW t \in Texts,
         Tells(c, d, a, s), Tells(d, e, b, t)
  PROVE  Tells(c, e, a \o b, s \o t)
<1>1. /\ Spoken(c) \in Texts /\ Thought(c) \in Texts
      /\ Visible(a) \in Texts /\ Visible(b) \in Texts /\ Visible(s) \in Texts /\ Visible(t) \in Texts
      /\ Visible(a \o b) = Visible(a) \o Visible(b)
      /\ Visible(s \o t) = Visible(s) \o Visible(t)
  BY SpokenTypes, VisibleFacts
<1>2. Spoken(e) = (Spoken(c) \o Visible(a)) \o Visible(b)
  BY DEF Tells
<1>3. Thought(e) = (Thought(c) \o Visible(s)) \o Visible(t)
  BY DEF Tells
<1>4. (Spoken(c) \o Visible(a)) \o Visible(b) = Spoken(c) \o (Visible(a) \o Visible(b))
  <2> DEFINE x == Spoken(c)
             y == Visible(a)
             z == Visible(b)
  <2>1. x \in Texts /\ y \in Texts /\ z \in Texts
    BY <1>1
  <2> HIDE DEF x, y, z
  <2>2. (x \o y) \o z = x \o (y \o z)
    <3>1. x \in Seq(Char) /\ y \in Seq(Char) /\ z \in Seq(Char)
      BY <2>1 DEF Texts
    <3> QED BY <3>1, ConcatAssociative
  <2> QED BY <2>2 DEF x, y, z
<1>5. (Thought(c) \o Visible(s)) \o Visible(t) = Thought(c) \o (Visible(s) \o Visible(t))
  <2> DEFINE x == Thought(c)
             y == Visible(s)
             z == Visible(t)
  <2>1. x \in Texts /\ y \in Texts /\ z \in Texts
    BY <1>1
  <2> HIDE DEF x, y, z
  <2>2. (x \o y) \o z = x \o (y \o z)
    <3>1. x \in Seq(Char) /\ y \in Seq(Char) /\ z \in Seq(Char)
      BY <2>1 DEF Texts
    <3> QED BY <3>1, ConcatAssociative
  <2> QED BY <2>2 DEF x, y, z
<1> QED BY <1>1, <1>2, <1>3, <1>4, <1>5 DEF Tells

LEMMA ExtendsTells ==
  ASSUME NEW c, NEW d, c.sent \in Seq(Events), NEW text \in Texts
  PROVE  /\ Extends(c, d, "text", text) => Tells(c, d, text, <<>>)
         /\ Extends(c, d, "thinking", text) => Tells(c, d, <<>>, text)
<1>1. /\ SentText(c, {"text"}) \in Texts /\ SentText(c, {"thinking"}) \in Texts
      /\ \A a \in Texts : Visible(a \o text) = Visible(a) \o Visible(text)
      /\ \A a \in Texts : a \o <<>> = a /\ Visible(a) \o Visible(<<>>) = Visible(a)
  BY SaidType, VisibleFacts, EmptyText
<1>2. "text" \notin {"thinking"} /\ "thinking" \notin {"text"}
  OBVIOUS
<1>3. ASSUME Extends(c, d, "text", text) PROVE Tells(c, d, text, <<>>)
  <2>1. SentText(d, {"text"}) = SentText(c, {"text"}) \o text
    BY <1>3 DEF Extends
  <2>2. SentText(d, {"thinking"}) = SentText(c, {"thinking"}) \o <<>>
    BY <1>2, <1>3 DEF Extends
  <2>3. Spoken(d) = Spoken(c) \o Visible(text)
    BY <1>1, <2>1, <2>2 DEF Spoken
  <2>4. Thought(d) = Thought(c) \o Visible(<<>>)
    BY <1>1, <2>1, <2>2 DEF Thought
  <2> QED BY <2>3, <2>4 DEF Tells
<1>4. ASSUME Extends(c, d, "thinking", text) PROVE Tells(c, d, <<>>, text)
  <2>1. SentText(d, {"thinking"}) = SentText(c, {"thinking"}) \o text
    BY <1>4 DEF Extends
  <2>2. SentText(d, {"text"}) = SentText(c, {"text"}) \o <<>>
    BY <1>2, <1>4 DEF Extends
  <2>3. Spoken(d) = Spoken(c) \o Visible(<<>>)
    BY <1>1, <2>1, <2>2 DEF Spoken
  <2>4. Thought(d) = Thought(c) \o Visible(text)
    BY <1>1, <2>1, <2>2 DEF Thought
  <2> QED BY <2>3, <2>4 DEF Tells
<1> QED BY <1>3, <1>4

(* An event that is no delta says nothing, nor do several.                    *)
LEMMA MuteEvent ==
  ASSUME NEW c, c.sent \in Seq(Events), Placed(c), NEW e \in Events, e.event # "block_delta",
         NEW d, KindsKept(c, d), d.sent = Append(c.sent, e)
  PROVE  Mute(c, d)
<1> SUFFICES ASSUME NEW kinds PROVE SentText(d, kinds) = SentText(c, kinds)
  BY DEF Mute
<1> DEFINE x == [blocks |-> d.blocks, sent |-> c.sent]
<1>1. x.blocks = d.blocks /\ x.sent = c.sent
  OBVIOUS
<1> HIDE DEF x
<1>2. SentText(x, kinds) = SentText(c, kinds)
  <2>1. KindsKept(c, x)
    BY <1>1 DEF KindsKept
  <2> QED BY <1>1, <2>1, SentTextKinds
<1>3. SentText(d, kinds) = SentText(x, kinds) \o <<>>
  <2>1. x.sent \in Seq(Events) /\ d.blocks = x.blocks /\ d.sent = Append(x.sent, e)
    BY <1>1
  <2>2. SentText(d, kinds) = SentText(x, kinds) \o
          (IF e.event = "block_delta" /\ x.blocks[e.block].kind \in kinds THEN e.text ELSE <<>>)
    BY <2>1, SentTextAppend
  <2> QED BY <2>2
<1>4. SentText(x, kinds) \in Texts
  BY <1>1, SaidType
<1> QED BY <1>2, <1>3, <1>4, EmptyText

LEMMA AppendBehind ==
  ASSUME NEW S, NEW s \in Seq(S), NEW t \in Seq(S), NEW e \in S
  PROVE  s \o t \in Seq(S) /\ s \o Append(t, e) = Append(s \o t, e)
<1> DEFINE x == <<e>>
           y == s \o t
<1>1. x \in Seq(S) /\ y \in Seq(S)
  BY ConcatProperties
<1>2. Append(t, e) = t \o x /\ Append(y, e) = y \o x
  BY <1>1, AppendIsConcat
<1> HIDE DEF x
<1>3. (s \o t) \o x = s \o (t \o x)
  BY <1>1, ConcatAssociative
<1> QED BY <1>1, <1>2, <1>3

NoDelta(s) == \A i \in DOMAIN s : s[i].event # "block_delta"

LEMMA MuteEvents ==
  ASSUME NEW c, c.sent \in Seq(Events), NEW s \in Seq(Events), NoDelta(s),
         NEW d, d.blocks = c.blocks, d.sent = c.sent \o s
  PROVE  Mute(c, d)
<1> SUFFICES ASSUME NEW kinds PROVE SentText(d, kinds) = SentText(c, kinds)
  BY DEF Mute
<1> DEFINE At(u) == [blocks |-> c.blocks, sent |-> c.sent \o u]
           P == {u \in Seq(Events) : NoDelta(u) => SentText(At(u), kinds) = SentText(c, kinds)}
<1>1. <<>> \in P
  <2>1. At(<<>>).sent = c.sent /\ At(<<>>).blocks = c.blocks
    BY ConcatEmptySeq
  <2>2. SentText(At(<<>>), kinds) = SentText(c, kinds)
    BY <2>1, MuteSame DEF Mute
  <2> QED BY <2>2
<1>2. ASSUME NEW u \in Seq(Events), NEW e \in Events, u \in P
      PROVE  Append(u, e) \in P
  <2> SUFFICES ASSUME NoDelta(Append(u, e))
               PROVE  SentText(At(Append(u, e)), kinds) = SentText(c, kinds)
    OBVIOUS
  <2>1. NoDelta(u) /\ e.event # "block_delta"
    <3>1. /\ Len(u) \in Nat /\ DOMAIN u = 1 .. Len(u) /\ DOMAIN Append(u, e) = 1 .. Len(u) + 1
          /\ Append(u, e)[Len(u) + 1] = e /\ \A i \in 1 .. Len(u) : Append(u, e)[i] = u[i]
      OBVIOUS
    <3>2. Len(u) + 1 \in DOMAIN Append(u, e) /\ \A i \in DOMAIN u : i \in DOMAIN Append(u, e)
      BY <3>1
    <3> QED BY <3>1, <3>2 DEF NoDelta
  <2> DEFINE x == At(u)
             y == At(Append(u, e))
  <2>2. x.blocks = c.blocks /\ x.sent = c.sent \o u /\ x.sent \in Seq(Events)
    BY ConcatProperties
  <2>3. y.blocks = x.blocks /\ y.sent = Append(x.sent, e)
    <3>1. c.sent \o Append(u, e) = Append(c.sent \o u, e)
      <4> DEFINE r == c.sent
      <4>1. r \in Seq(Events)
        OBVIOUS
      <4> HIDE DEF r
      <4>2. r \o Append(u, e) = Append(r \o u, e)
        BY <4>1, AppendBehind
      <4> QED BY <4>2 DEF r
    <3> QED BY <3>1
  <2>4. SentText(x, kinds) = SentText(c, kinds)
    BY <1>2, <2>1
  <2> HIDE DEF x, y, P, At
  <2>5. SentText(y, kinds) = SentText(x, kinds) \o <<>>
    <3>1. ASSUME NEW f, f = x, NEW g, g = y
          PROVE  SentText(g, kinds) = SentText(f, kinds) \o
            (IF e.event = "block_delta" /\ f.blocks[e.block].kind \in kinds THEN e.text ELSE <<>>)
      <4>1. f.sent \in Seq(Events) /\ g.blocks = f.blocks /\ g.sent = Append(f.sent, e)
        BY <2>2, <2>3, <3>1
      <4> QED BY <4>1, SentTextAppend
    <3> QED BY <2>1, <3>1
  <2>6. SentText(x, kinds) \in Texts
    BY <2>2, SaidType
  <2>7. SentText(y, kinds) = SentText(c, kinds)
    BY <2>4, <2>5, <2>6, EmptyText
  <2> QED BY <2>7 DEF y
<1> HIDE DEF P
<1>3. s \in P
  BY <1>1, <1>2, SeqInduction, ZenonT(20)
<1>4. SentText(At(s), kinds) = SentText(c, kinds)
  BY <1>3 DEF P
<1>5. SentText(d, kinds) = SentText(At(s), kinds)
  BY MuteSame DEF Mute
<1> QED BY <1>4, <1>5

LEMMA TellsThen ==
  ASSUME NEW c, NEW e, NEW d, NEW text, NEW thought, Tells(c, e, text, thought), Mute(e, d)
  PROVE  Tells(c, d, text, thought)
BY DEF Tells, Mute, Spoken, Thought

LEMMA MuteFirst ==
  ASSUME NEW c, NEW e, NEW d, NEW text, NEW thought, Mute(c, e), Tells(e, d, text, thought)
  PROVE  Tells(c, d, text, thought)
BY DEF Tells, Mute, Spoken, Thought

LEMMA MuteStop ==
  ASSUME NEW c, Core(c), NEW b \in Nat, NEW d, d = StopBlock(c, b)
  PROVE  Mute(c, d)
<1>1. CASE ~IsOpen(c, b)
  BY <1>1 DEF StopBlock, Mute
<1>2. CASE IsOpen(c, b)
  <2> DEFINE e == [event |-> "block_stop", block |-> b]
  <2>1. Becomes(c, d, <<>>) /\ d.sent = Append(c.sent, e)
    BY <1>2, StopOpenBlock
  <2>2. e \in Events /\ e.event # "block_delta"
    BY EventTypes
  <2> HIDE DEF e
  <2>3. c.sent \in Seq(Events) /\ Placed(c) /\ KindsKept(c, d)
    BY <2>1, BlockFacts DEF Core, Becomes
  <2> QED BY <2>1, <2>2, <2>3, MuteEvent
<1> QED BY <1>1, <1>2

LEMMA MuteStart ==
  ASSUME NEW c, Core(c), NEW kind \in {"text", "thinking"}, NEW d, d = StartBlock(c, kind)
  PROVE  Mute(c, d)
<1> DEFINE n == Len(c.blocks) + 1
           e == [event |-> "block_start", block |-> n]
<1>1. Started(c, d, kind)
  BY StartBlockFacts
<1>2. n \in Nat /\ c.sent \in Seq(Events) /\ c \in Contexts
  <2>1. Len(c.blocks) \in Nat /\ c.sent \in Seq(Events)
    BY BlockFacts
  <2> QED BY <2>1 DEF Core
<1>3. e \in Events /\ e.event # "block_delta"
  BY <1>2, EventTypes
<1>4. d.sent = Append(c.sent, e)
  <2>1. d = Send([c EXCEPT !.blocks = Append(@, [kind |-> kind, open |-> TRUE])], e)
    BY DEF StartBlock
  <2> HIDE DEF e
  <2> QED BY <1>2, <2>1 DEF Send, Contexts
<1> HIDE DEF e
<1>5. Placed(c) /\ KindsKept(c, d)
  BY <1>1 DEF Core, Started, Becomes
<1> QED BY <1>2, <1>3, <1>4, <1>5, MuteEvent

LEMMA TextTells ==
  ASSUME NEW c, Core(c), NEW text \in Texts, NEW d, d = Text(c, text)
  PROVE  Tells(c, d, text, <<>>)
<1> DEFINE e == IF IsOpen(c, c.textBlock) /\ c.blocks[c.textBlock].kind = "text"
                THEN c ELSE [StartBlock(c, "text") EXCEPT !.textBlock = Len(c.blocks) + 1]
<1>1. d = Delta(e, e.textBlock, text)
  BY DEF Text
<1>2. Wrote(c, e, <<>>) /\ IsOpen(e, e.textBlock) /\ e.blocks[e.textBlock].kind = "text"
  BY OpenTextBlock
<1>3. Mute(c, e)
  <2>1. CASE IsOpen(c, c.textBlock) /\ c.blocks[c.textBlock].kind = "text"
    BY <2>1 DEF Mute
  <2>2. CASE ~(IsOpen(c, c.textBlock) /\ c.blocks[c.textBlock].kind = "text")
    <3> DEFINE f == StartBlock(c, "text")
    <3>1. e = [f EXCEPT !.textBlock = Len(c.blocks) + 1]
      BY <2>2
    <3>2. Mute(c, f) /\ Started(c, f, "text")
      BY MuteStart, StartBlockFacts
    <3> HIDE DEF e, f
    <3>3. f \in Contexts
      BY <3>2 DEF Started, Becomes, Core
    <3>4. e.sent = f.sent /\ e.blocks = f.blocks
      BY <3>1, <3>3 DEF Contexts
    <3> QED BY <3>2, <3>4, MuteSame, MuteTransitive
  <2> QED BY <2>1, <2>2
<1> HIDE DEF e
<1>4. Core(e) /\ e.textBlock \in DOMAIN e.blocks /\ e.blocks[e.textBlock].open
  BY <1>2 DEF Wrote, Becomes, IsOpen
<1> DEFINE b == e.textBlock
<1>5. d = Send(e, [event |-> "block_delta", block |-> b, text |-> text])
  BY <1>1, <1>2 DEF Delta
<1>6. b \in DOMAIN e.blocks /\ e.blocks[b].open /\ e.blocks[b].kind = "text"
  BY <1>2, <1>4
<1> HIDE DEF b
<1>7. Extends(e, d, "text", text)
  BY <1>4, <1>5, <1>6, DeltaFacts
<1>8. Tells(e, d, text, <<>>)
  BY <1>4, <1>7, BlockFacts, ExtendsTells
<1> QED BY <1>3, <1>8, MuteFirst

LEMMA ThinkingTells ==
  ASSUME NEW c, Core(c), Inside(c), NEW text \in Texts, NEW d, d = ThinkingDelta(c, text)
  PROVE  Tells(c, d, <<>>, text)
<1> DEFINE b == c.thinkingBlock
<1>1. b \in DOMAIN c.blocks /\ c.blocks[b].open /\ c.blocks[b].kind = "thinking"
  <2>1. b # 0
    <3>1. DOMAIN c.blocks = 1 .. Len(c.blocks) /\ Len(c.blocks) \in Nat
      BY BlockFacts
    <3> QED BY <3>1 DEF Inside
  <2> QED BY <2>1 DEF Inside, Core, Blocked, OfKind
<1>2. d = Send(c, [event |-> "block_delta", block |-> b, text |-> text])
  BY DEF ThinkingDelta
<1> HIDE DEF b
<1>3. Extends(c, d, "thinking", text)
  BY <1>1, <1>2, DeltaFacts
<1> QED BY <1>3, BlockFacts, ExtendsTells

LEMMA CloseTells ==
  ASSUME NEW c, Core(c), Inside(c), NEW d, d = CloseThinking(c)
  PROVE  Tells(c, d, <<>>, <<>>)
<1> DEFINE e == ThinkingDelta(c, <<>>)
           b == c.thinkingBlock
           a == <<>>
<1>1. a \in Texts /\ e = ThinkingDelta(c, a) /\ d = StopBlock(e, b)
  BY EmptyText DEF CloseThinking
<1>2. b \in Nat
  BY DEF Core, Contexts
<1> HIDE DEF a, b, e
<1>3. Tells(c, e, <<>>, a) /\ Wrote(c, e, a)
  BY <1>1, ThinkingTells, ThinkingDeltaFacts
<1>4. Mute(e, d)
  BY <1>1, <1>2, <1>3, WroteTypes, MuteStop
<1>5. Tells(c, d, <<>>, a)
  BY <1>3, <1>4, TellsThen
<1> QED BY <1>5 DEF a

LEMMA UnlessTells ==
  ASSUME NEW c, Core(c), NEW text \in Texts
  PROVE  /\ Tells(c, TextUnlessBlank(c, text), text, <<>>)
         /\ Tells(c, TextUnlessEmpty(c, text), text, <<>>)
         /\ Inside(c) => Tells(c, ThinkingUnlessEmpty(c, text), <<>>, text)
<1>1. Tells(c, Text(c, text), text, <<>>)
  BY TextTells
<1>2. IsBlank(text) => Visible(text) = <<>>
  BY BlankHidden, VisibleFacts DEF IsBlank
<1>3. Tells(c, c, <<>>, <<>>)
  BY BlockFacts, MuteTells DEF Mute
<1>4. ASSUME Visible(text) = <<>> PROVE Tells(c, c, text, <<>>) /\ Tells(c, c, <<>>, text)
  BY <1>3, <1>4, EmptyText DEF Tells
<1>5. Tells(c, TextUnlessBlank(c, text), text, <<>>)
  BY <1>1, <1>2, <1>4 DEF TextUnlessBlank
<1>6. Tells(c, TextUnlessEmpty(c, text), text, <<>>)
  BY <1>1, <1>4, EmptyText DEF TextUnlessEmpty
<1>7. ASSUME Inside(c) PROVE Tells(c, ThinkingUnlessEmpty(c, text), <<>>, text)
  <2>1. Tells(c, ThinkingDelta(c, text), <<>>, text)
    BY <1>7, ThinkingTells
  <2> QED BY <1>4, <2>1, EmptyText DEF ThinkingUnlessEmpty
<1> QED BY <1>5, <1>6, <1>7

(* The thinking that is closed behind a text.                                 *)
LEMMA ClosedTells ==
  ASSUME NEW c, Core(c), Inside(c), NEW text \in Texts, NEW f, NEW e,
         Wrote(c, f, text), Inside(f), Tells(c, f, <<>>, text), e = CloseThinking(f)
  PROVE  Tells(c, e, <<>>, text)
<1>1. Core(f)
  BY WroteTypes
<1>2. Tells(f, e, <<>>, <<>>)
  BY <1>1, CloseTells
<1>3. Spoken(f) \in Texts /\ Thought(f) \in Texts
  BY <1>1, BlockFacts, SpokenTypes
<1>4. Spoken(e) = Spoken(f) /\ Thought(e) = Thought(f)
  BY <1>2, <1>3, EmptyText DEF Tells
<1> QED BY <1>4 DEF Tells

LEMMA MuteStopAll ==
  ASSUME NEW c, Core(c), NEW blocks \in SUBSET Opened(c), NEW d, d = StopAll(c, blocks)
  PROVE  Mute(c, d)
<1> DEFINE o == SetToSeq(blocks)
           s == [i \in DOMAIN o |-> [event |-> "block_stop", block |-> o[i]]]
<1>1. IsFiniteSet(blocks)
  <2> DEFINE m == Len(c.blocks)
  <2>1. blocks \in SUBSET (1 .. m) /\ m \in Nat
    BY BlockFacts DEF Opened
  <2> HIDE DEF m
  <2>2. IsFiniteSet(1 .. m)
    BY <2>1, FS_Interval
  <2> QED BY <2>1, <2>2, FS_Subset
<1>2. PICK n \in Nat : Lists(o, n, blocks)
  BY <1>1, SetToSeqLists
<1>3. d.sent = c.sent \o s
  BY DEF StopAll, Core, Contexts
<1> HIDE DEF o
<1>4. DOMAIN o = 1 .. n /\ \A i \in 1 .. n : o[i] \in blocks
  BY <1>2 DEF Lists
<1>5. \A i \in 1 .. n : [event |-> "block_stop", block |-> o[i]] \in Events
  <2>1. DOMAIN c.blocks = 1 .. Len(c.blocks) /\ Len(c.blocks) \in Nat
    BY BlockFacts
  <2>2. \A i \in 1 .. n : o[i] \in Nat
    BY <1>4, <2>1 DEF Opened
  <2> QED BY <2>2, EventTypes
<1>6. s \in Seq(Events) /\ NoDelta(s)
  <2>1. s \in [1 .. n -> Events]
    BY <1>4, <1>5
  <2>2. NoDelta(s)
    BY DEF NoDelta
  <2> HIDE DEF s
  <2> QED BY <2>1, <2>2, FunctionIsSeq
<1> HIDE DEF s
<1>7. Becomes(c, d, <<>>)
  BY StopAllFacts
<1> DEFINE x == [blocks |-> d.blocks, sent |-> c.sent]
<1>8. x.blocks = d.blocks /\ x.sent = c.sent /\ c.sent \in Seq(Events)
  BY BlockFacts
<1> HIDE DEF x
<1>9. Mute(c, x)
  <2>1. KindsKept(c, x) /\ Placed(c)
    BY <1>7, <1>8 DEF KindsKept, Becomes, Core
  <2> QED BY <1>8, <2>1, SentTextKinds DEF Mute
<1>10. Mute(x, d)
  <2>1. x.sent \in Seq(Events) /\ d.blocks = x.blocks /\ d.sent = x.sent \o s
    BY <1>3, <1>8
  <2> QED BY <1>6, <2>1, MuteEvents
<1> QED BY <1>9, <1>10, MuteTransitive

LEMMA MuteSend ==
  ASSUME NEW c \in Contexts, NEW e \in Events, e.event # "block_delta", NEW d, d = Send(c, e)
  PROVE  Mute(c, d) /\ d \in Contexts
<1>1. d \in Contexts /\ d.blocks = c.blocks /\ d.sent = Append(c.sent, e) /\ c.sent \in Seq(Events)
  BY SendFacts DEF Contexts
<1>2. ASSUME NEW kinds PROVE SentText(d, kinds) = SentText(c, kinds)
  <2>1. SentText(d, kinds) = SentText(c, kinds) \o <<>>
    BY SentTextSend
  <2> QED BY <1>1, <2>1, SaidType, EmptyText
<1> QED BY <1>1, <1>2 DEF Mute

LEMMA MuteEnd ==
  ASSUME NEW c, Core(c), NEW d, d = MessageEnd(c)
  PROVE  Mute(c, d)
<1> DEFINE o == OpenBlocks(c, {"text", "thinking", "tool_use"})
           e == StopAll(c, o)
           m == [event |-> "message_delta", reason |-> FinalStopReason(c)]
           z == [event |-> "message_stop"]
           f == Send(e, m)
<1>1. o \in SUBSET Opened(c)
  BY DEF OpenBlocks, Opened
<1>2. d = Send(f, z) /\ e = StopAll(c, o) /\ f = Send(e, m)
  BY DEF MessageEnd
<1>3. m \in Events /\ z \in Events /\ m.event # "block_delta" /\ z.event # "block_delta"
  <2>1. c \in Contexts
    BY DEF Core
  <2> QED BY <2>1, EventTypes, FinalStopReasonType
<1> HIDE DEF o, e, m, z, f
<1>4. Mute(c, e) /\ Becomes(c, e, <<>>)
  BY <1>1, <1>2, MuteStopAll, StopAllFacts
<1>5. e \in Contexts
  BY <1>4 DEF Becomes, Core
<1>6. Mute(e, f) /\ f \in Contexts
  BY <1>2, <1>3, <1>5, MuteSend
<1>7. Mute(f, d)
  BY <1>2, <1>3, <1>6, MuteSend
<1> QED BY <1>4, <1>6, <1>7, MuteTransitive

LEMMA AnswerTells ==
  ASSUME NEW c, Core(c), NEW d, d = AnswerIfNone(c)
  PROVE  Spoken(d) = Spoken(c) /\ Thought(d) = Thought(c) /\ d.section = c.section
<1>1. CASE ~(c.thinkingBlock # 0 /\ ~HasNonThinkingBlocks(c))
  BY <1>1 DEF AnswerIfNone
<1>2. CASE c.thinkingBlock # 0 /\ ~HasNonThinkingBlocks(c)
  <2> DEFINE e == [c EXCEPT !.stopReason = "max_tokens"]
             text == <<Space>>
  <2>1. d = Text(e, text)
    BY <1>2 DEF AnswerIfNone
  <2>2. Retouched(c, e) /\ e.section = c.section
    <3>1. "max_tokens" \in StopReasons
      BY DEF StopReasons
    <3>2. c \in Contexts /\ OfKind(c, c.thinkingBlock, "thinking")
      BY DEF Core, Blocked
    <3> QED BY <3>1, <3>2 DEF Contexts, Retouched
  <2>3. text \in Texts /\ \A i \in DOMAIN text : text[i] \in Hidden
    BY DEF Texts, Char, Hidden
  <2> HIDE DEF e, text
  <2>4. Core(e) /\ Mute(c, e)
    BY <2>2, RetouchedCore, MuteSame DEF Retouched
  <2>5. Wrote(e, d, text) /\ Tells(e, d, text, <<>>)
    BY <2>1, <2>3, <2>4, TextFacts, TextTells
  <2>6. Visible(text) = <<>>
    BY <2>3, VisibleFacts
  <2>7. Spoken(e) = Spoken(c) /\ Thought(e) = Thought(c)
    BY <2>4 DEF Mute, Spoken, Thought
  <2>8. Spoken(e) \in Texts /\ Thought(e) \in Texts
    BY <2>4, BlockFacts, SpokenTypes
  <2>9. Spoken(d) = Spoken(e) /\ Thought(d) = Thought(e)
    BY <2>5, <2>6, <2>8, EmptyText DEF Tells
  <2>10. d.section = e.section
    BY <2>5, WroteTypes DEF Kept
  <2> QED BY <2>2, <2>7, <2>9, <2>10
<1> QED BY <1>1, <1>2

-----------------------------------------------------------------------------
(* What was told of the text received, by section.  In the first, the text   *)
(* up to some p was told, and no bare tag has come; behind p there is either *)
(* all of the text or room for a tag.                                        *)
LookingAt(c, text, p) ==
  /\ p \in 0 .. Len(text)
  /\ c.buffer = Beyond(text, p) /\ Spoken(c) = Visible(Upto(text, p)) /\ Thought(c) = <<>>
Looking(c, text) ==
  /\ Bare(text) = {}
  /\ \E p : LookingAt(c, text, p) /\ (p > 0 => Len(text) - p >= Len(OpenTag))
ToSearch(c, text) == \E p : LookingAt(c, text, p) /\ StartScan(text, p)

(* In the second, what precedes the tag was told as text, and what follows   *)
(* it up to some p as thinking; behind p there is room for a closing tag and *)
(* its newlines, or nothing was told but the newline that is not shown.      *)
Reserve(text, p) ==
  p = 0 \/ (p = 1 /\ text[1] = Newline) \/ Len(text) - p >= Len(CloseTag) + 2
ThinksAt(c, front, text, p) ==
  /\ p \in 0 .. Len(text) /\ Reserve(text, p) /\ (c.strip => p = 0)
  /\ c.buffer = Beyond(text, p) /\ Thought(c) = Visible(Upto(text, p)) /\ Spoken(c) = Visible(front)
Thinks(c, text) ==
  \E q : /\ OpensAt(text, q) /\ Ends(Inner(text, q)) = {}
         /\ \E p : ThinksAt(c, Upto(text, q - 1), Inner(text, q), p)
EndsLater(text, p) == \A k \in Ends(text) : k > p
ToThink(c, text) ==
  \E q : /\ OpensAt(text, q)
         /\ \E p : /\ ThinksAt(c, Upto(text, q - 1), Inner(text, q), p)
                   /\ EndsLater(Inner(text, q), p)

(* In the third, the thinking is what lies between the tags, and the text is *)
(* what lies around them, what is in the buffer included.                    *)
AnsweredAt(c, front, text, k) ==
  /\ EndsAt(text, k)
  /\ Thought(c) = Visible(Upto(text, k - 1))
  /\ Spoken(c) \o Visible(c.buffer) = Visible(front) \o Visible(Beyond(text, k + Len(CloseTag) + 1))
Answered(c, text) ==
  \E q, k : OpensAt(text, q) /\ AnsweredAt(c, Upto(text, q - 1), Inner(text, q), k)

LEMMA OpensFacts ==
  ASSUME NEW text \in Texts, NEW q, OpensAt(text, q)
  PROVE  /\ q \in Nat /\ q >= 1 /\ q - 1 \in 0 .. Len(text)
         /\ q + Len(OpenTag) - 1 \in 0 .. Len(text)
         /\ Inner(text, q) \in Texts /\ Upto(text, q - 1) \in Texts
<1>1. text \o <<>> = text /\ <<>> \in Texts
  BY EmptyText
<1>2. /\ q \in Nat /\ q >= 1 /\ q - 1 \in 0 .. Len(text)
      /\ q + Len(OpenTag) - 1 \in 0 .. Len(text) /\ Inner(text, q) \in Texts
  BY <1>1, OpensConcat
<1>3. PICK h \in 0 .. Len(text) : h = q - 1
  BY <1>2
<1> QED BY <1>2, <1>3, UptoFacts

(* More text arrives.                                                         *)
Grown(c, d, chunk) == Mute(c, d) /\ d.buffer = c.buffer \o chunk /\ d.strip = c.strip

LEMMA GrownTells ==
  ASSUME NEW c, NEW d, NEW chunk, Grown(c, d, chunk)
  PROVE  Spoken(d) = Spoken(c) /\ Thought(d) = Thought(c)
BY DEF Grown, Mute, Spoken, Thought

LEMMA LookingGrows ==
  ASSUME NEW c, NEW text \in Texts, NEW chunk \in Texts, chunk # <<>>, Looking(c, text),
         NEW d, Grown(c, d, chunk)
  PROVE  ToSearch(d, text \o chunk)
<1>1. PICK p : LookingAt(c, text, p) /\ (p > 0 => Len(text) - p >= Len(OpenTag))
  BY DEF Looking
<1>2. Bare(text) = {} /\ p \in 0 .. Len(text)
  BY <1>1 DEF Looking, LookingAt
<1> DEFINE t == text \o chunk
<1>3. /\ t \in Texts /\ Len(t) = Len(text) + Len(chunk) /\ p \in 0 .. Len(t)
      /\ Beyond(t, p) = Beyond(text, p) \o chunk /\ Upto(t, p) = Upto(text, p)
  BY <1>2, Parts
<1>4. Len(text) \in Nat /\ Len(chunk) \in Nat /\ Len(chunk) > 0 /\ Len(OpenTag) \in Nat
      /\ Len(OpenTag) > 0
  BY BothAreTags, TagLength DEF Texts
<1>5. ASSUME NEW i \in Bare(t) PROVE i > p
  <2>1. i \in Nat /\ i >= 1 /\ (i + Len(OpenTag) - 1 <= Len(text) => i \in Bare(text))
    BY BareConcat
  <2>2. CASE p = 0
    BY <2>1, <2>2
  <2>3. CASE p > 0 /\ i <= p
    <3>1. i + Len(OpenTag) - 1 <= Len(text)
      BY <1>1, <1>2, <1>4, <2>1, <2>3
    <3> QED BY <1>2, <2>1, <3>1
  <2> QED BY <1>2, <2>1, <2>2, <2>3
<1> HIDE DEF t
<1>6. StartScan(t, p)
  <2>1. p > 0 => Len(t) - p > Len(OpenTag)
    BY <1>1, <1>2, <1>3, <1>4
  <2> QED BY <1>5, <2>1 DEF StartScan
<1>7. LookingAt(d, t, p)
  BY <1>1, <1>3, GrownTells DEF LookingAt, Grown
<1> QED BY <1>6, <1>7 DEF ToSearch, t

LEMMA ThinksGrows ==
  ASSUME NEW c, NEW text \in Texts, NEW chunk \in Texts, Thinks(c, text),
         NEW d, Grown(c, d, chunk)
  PROVE  ToThink(d, text \o chunk)
<1>1. PICK q : /\ OpensAt(text, q) /\ Ends(Inner(text, q)) = {}
               /\ \E p : ThinksAt(c, Upto(text, q - 1), Inner(text, q), p)
  BY DEF Thinks
<1> DEFINE front == Upto(text, q - 1)
           in    == Inner(text, q)
<1>2. /\ OpensAt(text \o chunk, q) /\ Inner(text \o chunk, q) = in \o chunk /\ in \in Texts
      /\ Upto(text \o chunk, q - 1) = front
  BY <1>1, OpensConcat
<1>3. PICK p : ThinksAt(c, front, in, p)
  BY <1>1
<1>4. Ends(in) = {}
  BY <1>1
<1> HIDE DEF front, in
<1> DEFINE t == in \o chunk
<1>5. p \in 0 .. Len(in) /\ Reserve(in, p) /\ (c.strip => p = 0)
  BY <1>3 DEF ThinksAt
<1>6. /\ t \in Texts /\ Len(t) = Len(in) + Len(chunk) /\ p \in 0 .. Len(t)
      /\ Beyond(t, p) = Beyond(in, p) \o chunk /\ Upto(t, p) = Upto(in, p)
  BY <1>2, <1>5, Parts
<1>7. /\ Len(in) \in Nat /\ Len(chunk) \in Nat /\ Len(CloseTag) \in Nat /\ Len(CloseTag) > 0
      /\ \A i \in 1 .. Len(in) : t[i] = in[i]
  BY <1>2, BothAreTags, TagLength, ConcatFacts DEF Texts
<1> HIDE DEF t
<1>8. p = 1 /\ in[1] = Newline => t[1] = Newline /\ 1 \in 1 .. Len(in)
  BY <1>5, <1>7
<1>9. Reserve(t, p)
  BY <1>5, <1>6, <1>7, <1>8 DEF Reserve
<1>10. ASSUME NEW k \in Ends(t) PROVE k > p
  <2>1. /\ k \in Nat /\ k >= 1 /\ k + Len(CloseTag) + 1 <= Len(t)
    BY <1>6, EndsNats
  <2>2. ~(k + Len(CloseTag) + 1 <= Len(in))
    BY <1>2, <1>4, <1>10, EndsConcat DEF t
  <2>3. CASE p = 0
    BY <2>1, <2>3
  <2>4. CASE p = 1 /\ in[1] = Newline
    <3>1. CASE k = 1
      <4>1. CloseTag \in Tags /\ 1 \in Tagged(CloseTag, t)
        BY <1>10, <3>1, BothAreTags DEF Ends
      <4>2. Fits(CloseTag, t, 1)
        BY <1>6, <4>1, TaggedFits
      <4>3. 1 \in 1 .. Len(CloseTag) /\ 1 + 1 - 1 = 1
        BY <1>7
      <4>4. t[1] = CloseTag[1]
        BY <4>2, <4>3 DEF Fits
      <4> QED BY <1>8, <2>4, <4>4, TagAssumption
    <3> QED BY <2>1, <2>4, <3>1
  <2>5. CASE Len(in) - p >= Len(CloseTag) + 2
    BY <1>5, <1>7, <2>1, <2>2, <2>5
  <2> QED BY <1>5, <2>3, <2>4, <2>5 DEF Reserve
<1>11. EndsLater(t, p)
  BY <1>10 DEF EndsLater
<1>12. ThinksAt(d, front, t, p)
  BY <1>3, <1>6, <1>9, GrownTells DEF ThinksAt, Grown
<1>13. /\ Upto(text \o chunk, q - 1) = front /\ Inner(text \o chunk, q) = t
       /\ OpensAt(text \o chunk, q)
  BY <1>2 DEF t
<1> QED BY <1>11, <1>12, <1>13 DEF ToThink

LEMMA EndsAtConcat ==
  ASSUME NEW a \in Texts, NEW b \in Texts, NEW k, EndsAt(a, k)
  PROVE  /\ EndsAt(a \o b, k) /\ k \in Nat /\ k >= 1
         /\ k - 1 \in 0 .. Len(a) /\ k + Len(CloseTag) + 1 \in 0 .. Len(a)
<1>1. /\ k \in Ends(a) /\ \A j \in Ends(a) : k <= j
  BY DEF EndsAt
<1>2. /\ k \in Nat /\ k >= 1 /\ k + Len(CloseTag) + 1 <= Len(a)
      /\ Len(a) \in Nat /\ Len(CloseTag) \in Nat
  BY <1>1, EndsNats, BothAreTags, TagLength DEF Texts
<1>3. k \in Ends(a \o b)
  BY <1>1, EndsConcat
<1>4. ASSUME NEW j \in Ends(a \o b) PROVE k <= j
  <2>1. j \in Nat
    <3>1. a \o b \in Texts
      BY ConcatProperties DEF Texts
    <3> QED BY <3>1, EndsNats
  <2>2. j + Len(CloseTag) + 1 <= Len(a) => j \in Ends(a)
    BY EndsConcat
  <2> QED BY <1>1, <1>2, <2>1, <2>2
<1> QED BY <1>2, <1>3, <1>4 DEF EndsAt

LEMMA AnsweredGrows ==
  ASSUME NEW c, c.sent \in Seq(Events), c.buffer \in Texts,
         NEW text \in Texts, NEW chunk \in Texts, Answered(c, text),
         NEW d, Grown(c, d, chunk)
  PROVE  Answered(d, text \o chunk)
<1>1. PICK q, k : OpensAt(text, q) /\ AnsweredAt(c, Upto(text, q - 1), Inner(text, q), k)
  BY DEF Answered
<1> DEFINE front == Upto(text, q - 1)
           in    == Inner(text, q)
<1>2. /\ OpensAt(text \o chunk, q) /\ Inner(text \o chunk, q) = in \o chunk /\ in \in Texts
      /\ Upto(text \o chunk, q - 1) = front /\ front \in Texts
  BY <1>1, OpensConcat, OpensFacts
<1>3. AnsweredAt(c, front, in, k)
  BY <1>1
<1> HIDE DEF front, in
<1> DEFINE t == in \o chunk
<1>4. EndsAt(in, k)
  BY <1>3 DEF AnsweredAt
<1>5. /\ EndsAt(t, k) /\ k - 1 \in 0 .. Len(in) /\ k + Len(CloseTag) + 1 \in 0 .. Len(in)
  BY <1>2, <1>4, EndsAtConcat
<1>6. Upto(t, k - 1) = Upto(in, k - 1)
  <2>1. PICK h \in 0 .. Len(in) : h = k - 1
    BY <1>5
  <2> QED BY <1>2, <2>1, Parts
<1>7. PICK j \in 0 .. Len(in) : j = k + Len(CloseTag) + 1
  BY <1>5
<1>8. /\ Beyond(t, j) = Beyond(in, j) \o chunk /\ Beyond(in, j) \in Texts
  <2>1. Beyond(in, j) \in Texts
    BY <1>2, BeyondFacts
  <2> QED BY <1>2, <2>1, Parts
<1> HIDE DEF t
<1>9. Spoken(d) \o Visible(d.buffer) = Visible(front) \o Visible(Beyond(t, j))
  <2> DEFINE s == Spoken(c)
             b == Visible(c.buffer)
             x == Visible(front)
             y == Visible(Beyond(in, j))
             z == Visible(chunk)
  <2>1. /\ s \in Texts /\ b \in Texts /\ x \in Texts /\ y \in Texts
        /\ z \in Texts
    BY <1>2, <1>8, SpokenTypes, VisibleFacts
  <2>2. Visible(d.buffer) = b \o z /\ Spoken(d) = s
    BY GrownTells, VisibleFacts DEF Grown
  <2>3. Visible(Beyond(t, j)) = y \o z
    BY <1>8, VisibleFacts
  <2>4. s \o b = x \o y
    BY <1>3, <1>7 DEF AnsweredAt
  <2> HIDE DEF s, b, x, y, z
  <2>5. Regroups(s, b, z)
    BY <2>1, TextsAssociate
  <2>6. Regroups(x, y, z)
    BY <2>1, TextsAssociate
  <2>7. s \o (b \o z) = x \o (y \o z)
    BY <2>4, <2>5, <2>6 DEF Regroups
  <2> QED BY <2>2, <2>3, <2>7 DEF x
<1>10. AnsweredAt(d, front, t, k)
  BY <1>3, <1>5, <1>6, <1>7, <1>9, GrownTells DEF AnsweredAt
<1>11. /\ Upto(text \o chunk, q - 1) = front /\ Inner(text \o chunk, q) = t
       /\ OpensAt(text \o chunk, q)
  BY <1>2 DEF t
<1> QED BY <1>10, <1>11 DEF Answered

(* A part of the buffer is told.                                              *)
PartTo(text, p, b, k, n) ==
  /\ n \in 0 .. Len(text) /\ n = p + k
  /\ Beyond(b, k) = Beyond(text, n)
  /\ Visible(Upto(text, n)) = Visible(Upto(text, p)) \o Visible(Upto(b, k))

LEMMA PartTold ==
  ASSUME NEW text \in Texts, NEW p, p \in 0 .. Len(text), NEW b, b = Beyond(text, p),
         NEW k, k \in 0 .. Len(b)
  PROVE  \E n : PartTo(text, p, b, k, n)
<1>1. Len(Beyond(text, p)) = Len(text) - p
  BY BeyondFacts
<1>2. k \in 0 .. Len(text) - p
  BY <1>1
<1>3. PICK n \in 0 .. Len(text) :
           /\ n = p + k
           /\ Beyond(Beyond(text, p), k) = Beyond(text, n)
           /\ Visible(Upto(text, n)) = Visible(Upto(text, p)) \o Visible(Upto(Beyond(text, p), k))
  BY <1>2, PartOfPart
<1> QED BY <1>3 DEF PartTo

LEMMA SafeFacts ==
  ASSUME NEW text \in Texts, NEW reserve \in Nat, NEW j, j = SafeLen(text, reserve)
  PROVE  /\ j \in 0 .. Len(text) /\ (j > 0 => Len(text) - j = reserve)
         /\ Len(Upto(text, j)) = j
<1>1. j \in 0 .. Len(text) /\ (j > 0 => Len(text) - j = reserve)
  BY DEF SafeLen, Texts
<1> QED BY <1>1, UptoFacts

LEMMA ScanForStartTells ==
  ASSUME NEW c, Core(c), NEW d, d = ScanForStart(c), NEW start, start = StartTag(c.buffer)
  PROVE  /\ start # 0 =>
              /\ d.section = "inside" /\ d.buffer = After(OpenTag, c.buffer, start)
              /\ Tells(c, d, Upto(c.buffer, start - 1), <<>>)
         /\ start = 0 => \E j \in 0 .. Len(c.buffer) :
              /\ d.section = c.section /\ d.buffer = Beyond(c.buffer, j)
              /\ j > 0 => Len(c.buffer) - j = Len(OpenTag)
              /\ Tells(c, d, Upto(c.buffer, j), <<>>)
<1> DEFINE n == SafeLen(c.buffer, Len(OpenTag))
           safe == Upto(c.buffer, n)
<1>1. c.buffer \in Texts /\ Len(OpenTag) \in Nat /\ c.sent \in Seq(Events)
  <2>1. c.buffer \in Texts /\ c.sent \in Seq(Events)
    BY BufferText, BlockFacts
  <2> QED BY <2>1, TagAssumption
<1>2. ASSUME start # 0
      PROVE  /\ d.section = "inside" /\ d.buffer = After(OpenTag, c.buffer, start)
             /\ Tells(c, d, Upto(c.buffer, start - 1), <<>>)
  <2> DEFINE a == Upto(c.buffer, start - 1)
             rest == After(OpenTag, c.buffer, start)
             e == TextUnlessBlank(c, a)
             f == StartBlock(e, "thinking")
  <2>1. a \in Texts
    BY <1>1, <1>2, StartTagCut
  <2>2. d = [f EXCEPT !.section = "inside", !.strip = TRUE, !.thinkingBlock = Len(f.blocks),
                      !.buffer = After(OpenTag, @, start)]
    BY <1>2 DEF ScanForStart
  <2> HIDE DEF a
  <2>3. Wrote(c, e, a) /\ Tells(c, e, a, <<>>)
    BY <2>1, UnlessFacts, UnlessTells
  <2>4. f = StartBlock(e, "thinking")
    OBVIOUS
  <2> HIDE DEF e
  <2>5. Core(e) /\ Kept(c, e)
    BY <2>3, WroteTypes
  <2> HIDE DEF f
  <2>6. Started(e, f, "thinking") /\ Mute(e, f)
    BY <2>4, <2>5, StartBlockFacts, MuteStart
  <2>7. Core(f) /\ Kept(e, f)
    BY <2>6 DEF Started, Becomes
  <2>8. f \in Contexts /\ f.buffer = c.buffer
    BY <2>5, <2>7 DEF Core, Kept
  <2>9. d.section = "inside" /\ d.buffer = rest /\ d.sent = f.sent /\ d.blocks = f.blocks
    BY <2>2, <2>8 DEF Contexts
  <2>10. Tells(c, d, a, <<>>)
    BY <2>3, <2>6, <2>9, TellsThen, MuteSame
  <2> QED BY <2>9, <2>10 DEF a
<1>3. ASSUME start = 0
      PROVE  \E j \in 0 .. Len(c.buffer) :
              /\ d.section = c.section /\ d.buffer = Beyond(c.buffer, j)
              /\ j > 0 => Len(c.buffer) - j = Len(OpenTag)
              /\ Tells(c, d, Upto(c.buffer, j), <<>>)
  <2>1. CASE ~IsBlank(safe)
    <3> DEFINE f == Text(c, safe)
    <3>1. d = [f EXCEPT !.buffer = Beyond(@, Len(safe))]
      BY <1>3, <2>1 DEF ScanForStart
    <3>2. n \in 0 .. Len(c.buffer) /\ (n > 0 => Len(c.buffer) - n = Len(OpenTag)) /\ Len(safe) = n
      BY <1>1, SafeFacts
    <3>3. safe \in Texts
      <4> HIDE DEF n
      <4> QED BY <1>1, <3>2, UptoFacts
    <3> HIDE DEF n, safe
    <3>4. Wrote(c, f, safe) /\ Tells(c, f, safe, <<>>)
      BY <3>3, TextFacts, TextTells
    <3> HIDE DEF f
    <3>5. f \in Contexts /\ f.buffer = c.buffer /\ f.section = c.section
      BY <3>4, WroteTypes DEF Core, Kept
    <3>6. d.section = c.section /\ d.buffer = Beyond(c.buffer, n) /\ d.sent = f.sent /\ d.blocks = f.blocks
      BY <3>1, <3>2, <3>5 DEF Contexts
    <3>7. Tells(c, d, Upto(c.buffer, n), <<>>)
      BY <3>4, <3>6, TellsThen, MuteSame DEF safe
    <3> QED BY <3>2, <3>6, <3>7
  <2>2. CASE IsBlank(safe)
    <3>1. d = c
      BY <1>3, <2>2 DEF ScanForStart
    <3>2. 0 \in 0 .. Len(c.buffer) /\ Beyond(c.buffer, 0) = c.buffer /\ Upto(c.buffer, 0) = <<>>
      <4>1. c.buffer \in Seq(Char)
        BY <1>1 DEF Texts
      <4> QED BY <4>1, SubSeqFull, SubSeqEmpty DEF Beyond, Upto
    <3>3. Tells(c, c, <<>>, <<>>)
      BY <1>1, MuteTells DEF Mute
    <3> QED BY <3>1, <3>2, <3>3
  <2> QED BY <2>1, <2>2
<1> QED BY <1>2, <1>3

LEMMA StripTells ==
  ASSUME NEW c, Core(c), NEW d, d = StripNewline(c)
  PROVE  /\ Mute(c, d) /\ d.section = c.section
         /\ d.strip => d.buffer = <<>>
         /\ \E j \in {0, 1} :
              /\ j \in 0 .. Len(c.buffer) /\ d.buffer = Beyond(c.buffer, j)
              /\ j = 1 => c.strip /\ c.buffer[1] = Newline
              /\ d.strip => c.strip /\ j = 0
<1>1. c.buffer \in Texts /\ c.buffer \in Seq(Char) /\ Len(c.buffer) \in Nat /\ c \in Contexts
  BY BufferText DEF Core
<1>2. 0 \in 0 .. Len(c.buffer) /\ Beyond(c.buffer, 0) = c.buffer
  BY <1>1, SubSeqFull DEF Beyond
<1>3. CASE ~(c.strip /\ c.buffer # <<>>)
  <2>1. d = c
    BY <1>3 DEF StripNewline
  <2> QED BY <1>2, <1>3, <2>1 DEF Mute
<1>4. CASE c.strip /\ c.buffer # <<>>
  <2> DEFINE rest == IF Head(c.buffer) = Newline THEN Tail(c.buffer) ELSE c.buffer
  <2>1. d = [c EXCEPT !.strip = FALSE, !.buffer = rest]
    BY <1>4 DEF StripNewline
  <2>2. \E j \in {0, 1} : /\ j \in 0 .. Len(c.buffer) /\ rest = Beyond(c.buffer, j)
                          /\ j = 1 => c.buffer[1] = Newline
    <3>1. CASE Head(c.buffer) # Newline
      BY <1>2, <3>1
    <3>2. CASE Head(c.buffer) = Newline
      <4>1. 1 \in 0 .. Len(c.buffer) /\ c.buffer[1] = Newline
        BY <1>1, <1>4, <3>2
      <4>2. Tail(c.buffer) = Beyond(c.buffer, 1)
        BY <1>1, <1>4, TailIsSubSeq DEF Beyond
      <4> QED BY <3>2, <4>1, <4>2
    <3> QED BY <3>1, <3>2
  <2> HIDE DEF rest
  <2>3. d.section = c.section /\ d.buffer = rest /\ d.sent = c.sent /\ d.blocks = c.blocks
        /\ d.strip = FALSE
    BY <1>1, <2>1 DEF Contexts
  <2>4. Mute(c, d)
    BY <2>3, MuteSame
  <2> QED BY <1>4, <2>2, <2>3, <2>4
<1> QED BY <1>3, <1>4

LEMMA ScanForEndTells ==
  ASSUME NEW c, Stable(c), c.section = "inside", NEW d, d = ScanForEnd(c),
         NEW s, s = StripNewline(c), NEW end, end = EndTag(s.buffer)
  PROVE  /\ end # 0 =>
              /\ d.section = "after" /\ d.buffer = Beyond(s.buffer, end + Len(CloseTag) + 1)
              /\ Tells(s, d, <<>>, Upto(s.buffer, end - 1))
         /\ end = 0 => \E j \in 0 .. Len(s.buffer) :
              /\ d.section = "inside" /\ d.strip = s.strip /\ d.buffer = Beyond(s.buffer, j)
              /\ j > 0 => Len(s.buffer) - j = Len(CloseTag) + 2
              /\ Tells(s, d, <<>>, Upto(s.buffer, j))
<1> DEFINE n == SafeLen(s.buffer, Len(CloseTag) + 2)
           safe == Upto(s.buffer, n)
<1>1. d = IF end # 0
          THEN [CloseThinking(ThinkingUnlessEmpty(s, Upto(s.buffer, end - 1)))
                  EXCEPT !.section = "after", !.buffer = Beyond(@, end + Len(CloseTag) + 1)]
          ELSE [ThinkingUnlessEmpty(s, safe) EXCEPT !.buffer = Beyond(@, Len(safe))]
  BY DEF ScanForEnd
<1>2. Handled(c, s) /\ s.section = "inside"
  BY StripNewlineFacts
<1>3. Core(s) /\ Inside(s) /\ s.buffer \in Texts
  BY <1>2, BufferText DEF Handled, Stable
<1>4. ASSUME end # 0
      PROVE  /\ d.section = "after" /\ d.buffer = Beyond(s.buffer, end + Len(CloseTag) + 1)
             /\ Tells(s, d, <<>>, Upto(s.buffer, end - 1))
  <2> DEFINE a == Upto(s.buffer, end - 1)
             f == ThinkingUnlessEmpty(s, a)
             e == CloseThinking(f)
  <2>1. a \in Texts
    BY <1>3, <1>4, EndTagCut
  <2>2. d = [e EXCEPT !.section = "after", !.buffer = Beyond(@, end + Len(CloseTag) + 1)]
    BY <1>1, <1>4
  <2> HIDE DEF a
  <2>3. Wrote(s, f, a) /\ Inside(f) /\ Tells(s, f, <<>>, a)
    BY <1>3, <2>1, UnlessFacts, UnlessTells
  <2>4. e = CloseThinking(f)
    OBVIOUS
  <2> HIDE DEF f, e
  <2>5. Tells(s, e, <<>>, a) /\ Becomes(s, e, a)
    BY <1>3, <2>1, <2>3, <2>4, ClosedTells, ThoughtFacts
  <2>6. e.buffer = s.buffer /\ e \in Contexts
    BY <2>5 DEF Becomes, Kept, Core
  <2>7. /\ d.section = "after" /\ d.buffer = Beyond(s.buffer, end + Len(CloseTag) + 1)
        /\ d.sent = e.sent /\ d.blocks = e.blocks
    BY <2>2, <2>6 DEF Contexts
  <2>8. Tells(s, d, <<>>, a)
    BY <2>5, <2>7, TellsThen, MuteSame
  <2> QED BY <2>7, <2>8 DEF a
<1>5. ASSUME end = 0
      PROVE  \E j \in 0 .. Len(s.buffer) :
              /\ d.section = "inside" /\ d.strip = s.strip /\ d.buffer = Beyond(s.buffer, j)
              /\ j > 0 => Len(s.buffer) - j = Len(CloseTag) + 2
              /\ Tells(s, d, <<>>, Upto(s.buffer, j))
  <2> DEFINE f == ThinkingUnlessEmpty(s, safe)
  <2>1. d = [f EXCEPT !.buffer = Beyond(@, Len(safe))]
    BY <1>1, <1>5
  <2>2. n \in 0 .. Len(s.buffer) /\ (n > 0 => Len(s.buffer) - n = Len(CloseTag) + 2) /\ Len(safe) = n
    <3>1. Len(CloseTag) + 2 \in Nat
      BY TagAssumption
    <3> QED BY <1>3, <3>1, SafeFacts
  <2>3. safe \in Texts
    <3> HIDE DEF n
    <3> QED BY <1>3, <2>2, UptoFacts
  <2> HIDE DEF n, safe
  <2>4. Wrote(s, f, safe) /\ Tells(s, f, <<>>, safe)
    BY <1>3, <2>3, UnlessFacts, UnlessTells
  <2> HIDE DEF f
  <2>5. f \in Contexts /\ f.buffer = s.buffer /\ f.section = s.section /\ f.strip = s.strip
    BY <2>4, WroteTypes DEF Core, Kept
  <2>6. /\ d.section = "inside" /\ d.strip = s.strip /\ d.buffer = Beyond(s.buffer, n)
        /\ d.sent = f.sent /\ d.blocks = f.blocks
    BY <1>2, <2>1, <2>2, <2>5 DEF Contexts
  <2>7. Tells(s, d, <<>>, Upto(s.buffer, n))
    BY <2>4, <2>6, TellsThen, MuteSame DEF safe
  <2> QED BY <2>2, <2>6, <2>7
<1> QED BY <1>4, <1>5

LEMMA TellsText ==
  ASSUME NEW c, NEW d, c.sent \in Seq(Events), NEW text \in Texts
  PROVE  /\ Tells(c, d, text, <<>>) =>
              Spoken(d) = Spoken(c) \o Visible(text) /\ Thought(d) = Thought(c)
         /\ Tells(c, d, <<>>, text) =>
              Spoken(d) = Spoken(c) /\ Thought(d) = Thought(c) \o Visible(text)
<1>1. Spoken(c) \o <<>> = Spoken(c) /\ Thought(c) \o <<>> = Thought(c) /\ Visible(<<>>) = <<>>
  BY SpokenTypes, EmptyText
<1> QED BY <1>1 DEF Tells

LEMMA ToldText ==
  ASSUME NEW c, NEW d, c.sent \in Seq(Events), NEW text \in Texts, Tells(c, d, text, <<>>)
  PROVE  Spoken(d) = Spoken(c) \o Visible(text) /\ Thought(d) = Thought(c)
BY TellsText

LEMMA ToldThinking ==
  ASSUME NEW c, NEW d, c.sent \in Seq(Events), NEW text \in Texts, Tells(c, d, <<>>, text)
  PROVE  Spoken(d) = Spoken(c) /\ Thought(d) = Thought(c) \o Visible(text)
BY TellsText

LEMMA NoText ==
  ASSUME NEW text \in Texts
  PROVE  /\ 0 \in 0 .. Len(text) /\ Beyond(text, 0) = text /\ Upto(text, 0) = <<>>
         /\ Visible(Upto(text, 0)) = <<>>
<1>1. text \in Seq(Char) /\ Len(text) \in Nat
  BY DEF Texts
<1>2. Beyond(text, 0) = text
  BY <1>1, SubSeqFull DEF Beyond
<1>3. Upto(text, 0) = <<>>
  BY <1>1, SubSeqEmpty DEF Upto
<1>4. Visible(<<>>) = <<>>
  BY EmptyText
<1> QED BY <1>1, <1>2, <1>3, <1>4

LEMMA SearchTells ==
  ASSUME NEW c, Core(c), NEW text \in Texts, Settled(text), ToSearch(c, text),
         c.section = "before", NEW d, d = ScanForStart(c)
  PROVE  \/ d.section = "before" /\ Looking(d, text)
         \/ d.section = "inside" /\ ToThink(d, text)
<1>1. PICK p : LookingAt(c, text, p) /\ StartScan(text, p)
  BY DEF ToSearch
<1>2. /\ p \in 0 .. Len(text) /\ c.buffer = Beyond(text, p)
      /\ Spoken(c) = Visible(Upto(text, p)) /\ Thought(c) = <<>>
  BY <1>1 DEF LookingAt
<1>3. /\ c.sent \in Seq(Events) /\ c.buffer \in Texts /\ Len(c.buffer) = Len(text) - p
      /\ Len(text) \in Nat /\ OpenTag \in Tags /\ Len(OpenTag) \in Nat /\ Len(OpenTag) > 0
  <2>1. c.sent \in Seq(Events)
    BY BlockFacts
  <2>2. c.buffer \in Texts /\ Len(c.buffer) = Len(text) - p /\ Len(text) \in Nat
    BY <1>2, BeyondFacts
  <2> QED BY <2>1, <2>2, BothAreTags, TagLength
<1> DEFINE start == StartTag(c.buffer)
<1>4. /\ start = 0 => Bare(text) = {}
      /\ start # 0 => start \in Nat /\ start >= 1 /\ OpensAt(text, p + start)
                      /\ start \in RealTags(OpenTag, c.buffer)
  BY <1>1, <1>2, StartScanned
<1>5. start = StartTag(c.buffer)
  OBVIOUS
<1> HIDE DEF start
<1>6. CASE start = 0
  <2>1. PICK j \in 0 .. Len(c.buffer) :
              /\ d.section = c.section /\ d.buffer = Beyond(c.buffer, j)
              /\ j > 0 => Len(c.buffer) - j = Len(OpenTag)
              /\ Tells(c, d, Upto(c.buffer, j), <<>>)
    BY <1>5, <1>6, ScanForStartTells
  <2>2. PICK n :
          /\ n \in 0 .. Len(text) /\ n = p + j /\ Beyond(c.buffer, j) = Beyond(text, n)
          /\ Visible(Upto(text, n)) = Visible(Upto(text, p)) \o Visible(Upto(c.buffer, j))
    <3>1. PICK n : PartTo(text, p, c.buffer, j, n)
      BY <1>2, <2>1, PartTold
    <3> QED BY <3>1 DEF PartTo
  <2>3. Upto(c.buffer, j) \in Texts
    BY <1>3, <2>1, UptoFacts
  <2>4. Spoken(d) = Visible(Upto(text, n)) /\ Thought(d) = <<>>
    <3>1. Spoken(d) = Spoken(c) \o Visible(Upto(c.buffer, j)) /\ Thought(d) = Thought(c)
      BY <1>3, <2>1, <2>3, ToldText
    <3> QED BY <1>2, <2>2, <3>1
  <2>5. n > 0 => Len(text) - n >= Len(OpenTag)
    <3>1. CASE j > 0
      BY <1>2, <1>3, <2>1, <2>2, <3>1
    <3>2. CASE j = 0
      <4>1. p > 0 => Len(text) - p > Len(OpenTag)
        BY <1>1 DEF StartScan
      <4> QED BY <1>2, <1>3, <2>2, <3>2, <4>1
    <3> QED BY <2>1, <3>1, <3>2
  <2>6. LookingAt(d, text, n)
    BY <2>1, <2>2, <2>4 DEF LookingAt
  <2> QED BY <1>4, <1>6, <2>1, <2>5, <2>6 DEF Looking
<1>7. CASE start # 0
  <2>1. /\ d.section = "inside" /\ d.buffer = After(OpenTag, c.buffer, start)
        /\ Tells(c, d, Upto(c.buffer, start - 1), <<>>)
    BY <1>5, <1>7, ScanForStartTells
  <2>2. PICK q \in Nat : q = p + start /\ OpensAt(text, q)
    BY <1>2, <1>4, <1>7
  <2> DEFINE front == Upto(text, q - 1)
             in    == Inner(text, q)
  <2>3. in \in Texts /\ front \in Texts /\ q - 1 \in 0 .. Len(text)
        /\ q + Len(OpenTag) - 1 \in 0 .. Len(text)
    BY <2>2, OpensFacts
  <2>4. start - 1 \in 0 .. Len(c.buffer) /\ start + Len(OpenTag) - 1 \in 0 .. Len(c.buffer)
        /\ d.buffer = Beyond(c.buffer, start + Len(OpenTag) - 1)
    <3>1. /\ After(OpenTag, c.buffer, start) = Beyond(c.buffer, start + Len(OpenTag) - 1)
          /\ start \in 1 .. Len(c.buffer) /\ start + Len(OpenTag) - 1 \in start .. Len(c.buffer)
      BY <1>3, <1>4, <1>7, AfterIsBeyond, TagFacts
    <3> QED BY <1>3, <2>1, <3>1
  <2>5. d.buffer = in
    <3>1. PICK j \in 0 .. Len(c.buffer) : j = start + Len(OpenTag) - 1
      BY <2>4
    <3>2. PICK n :
            /\ n \in 0 .. Len(text) /\ n = p + j /\ Beyond(c.buffer, j) = Beyond(text, n)
            /\ Visible(Upto(text, n)) = Visible(Upto(text, p)) \o Visible(Upto(c.buffer, j))
      <4>1. PICK n : PartTo(text, p, c.buffer, j, n)
        BY <1>2, <3>1, PartTold
      <4> QED BY <4>1 DEF PartTo
    <3>3. n = q + Len(OpenTag) - 1
      <4>1. p \in Int /\ start \in Int /\ Len(OpenTag) \in Int
        BY <1>2, <1>3, <1>4, <1>7
      <4> QED BY <2>2, <3>1, <3>2, <4>1
    <3> QED BY <2>4, <3>1, <3>2, <3>3 DEF Inner
  <2>6. Spoken(d) = Visible(front) /\ Thought(d) = <<>>
    <3>1. PICK j \in 0 .. Len(c.buffer) : j = start - 1
      BY <2>4
    <3>2. PICK n :
            /\ n \in 0 .. Len(text) /\ n = p + j /\ Beyond(c.buffer, j) = Beyond(text, n)
            /\ Visible(Upto(text, n)) = Visible(Upto(text, p)) \o Visible(Upto(c.buffer, j))
      <4>1. PICK n : PartTo(text, p, c.buffer, j, n)
        BY <1>2, <3>1, PartTold
      <4> QED BY <4>1 DEF PartTo
    <3>3. n = q - 1
      <4>1. p \in Int /\ start \in Int /\ Len(OpenTag) \in Int
        BY <1>2, <1>3, <1>4, <1>7
      <4> QED BY <2>2, <3>1, <3>2, <4>1
    <3>4. Upto(c.buffer, j) \in Texts
      BY <1>3, UptoFacts
    <3>5. Tells(c, d, Upto(c.buffer, j), <<>>)
      BY <2>1, <3>1
    <3>6. Spoken(d) = Spoken(c) \o Visible(Upto(c.buffer, j)) /\ Thought(d) = Thought(c)
      BY <1>3, <3>4, <3>5, ToldText
    <3> QED BY <1>2, <3>2, <3>3, <3>6
  <2> HIDE DEF front, in
  <2>7. /\ 0 \in 0 .. Len(in) /\ Beyond(in, 0) = in /\ Visible(Upto(in, 0)) = <<>>
    BY <2>3, NoText
  <2>8. ThinksAt(d, front, in, 0)
    BY <2>5, <2>6, <2>7 DEF ThinksAt, Reserve
  <2>9. EndsLater(in, 0)
    <3>1. ASSUME NEW k \in Ends(in) PROVE k > 0
      BY <2>3, <3>1, EndsNats
    <3> QED BY <3>1 DEF EndsLater
  <2> QED BY <2>1, <2>2, <2>8, <2>9 DEF ToThink, front, in
<1> QED BY <1>6, <1>7

(* The newline behind the tag is not shown and opens no closing tag.          *)
LEMMA StripThinks ==
  ASSUME NEW c, Stable(c), c.section = "inside", NEW front, NEW text \in Texts,
         NEW p, ThinksAt(c, front, text, p), EndsLater(text, p), NEW d, d = StripNewline(c)
  PROVE  \E n : ThinksAt(d, front, text, n) /\ EndsLater(text, n)
<1>1. /\ p \in 0 .. Len(text) /\ Reserve(text, p) /\ (c.strip => p = 0)
      /\ c.buffer = Beyond(text, p) /\ Thought(c) = Visible(Upto(text, p)) /\ Spoken(c) = Visible(front)
  BY DEF ThinksAt
<1>2. /\ Mute(c, d)
      /\ \E j \in {0, 1} :
              /\ j \in 0 .. Len(c.buffer) /\ d.buffer = Beyond(c.buffer, j)
              /\ j = 1 => c.strip /\ c.buffer[1] = Newline
              /\ d.strip => c.strip /\ j = 0
  BY StripTells DEF Stable
<1>3. PICK j \in {0, 1} :
              /\ j \in 0 .. Len(c.buffer) /\ d.buffer = Beyond(c.buffer, j)
              /\ j = 1 => c.strip /\ c.buffer[1] = Newline
              /\ d.strip => c.strip /\ j = 0
  BY <1>2
<1>4. Spoken(d) = Spoken(c) /\ Thought(d) = Thought(c)
  BY <1>2 DEF Mute, Spoken, Thought
<1>5. CASE j = 0
  <2>1. d.buffer = c.buffer /\ (d.strip => p = 0)
    <3>1. c.buffer \in Texts
      BY <1>1, BeyondFacts
    <3> QED BY <1>1, <1>3, <1>5, <3>1, NoText
  <2>2. ThinksAt(d, front, text, p)
    BY <1>1, <1>4, <2>1 DEF ThinksAt
  <2> QED BY <2>2
<1>6. CASE j = 1
  <2>1. p = 0 /\ c.buffer = text /\ text[1] = Newline /\ 1 \in 0 .. Len(text)
        /\ Thought(c) = <<>>
    BY <1>1, <1>3, <1>6, NoText
  <2>2. Visible(Upto(text, 1)) = <<>>
    <3>1. Upto(text, 1) \in Texts /\ Len(Upto(text, 1)) = 1 /\ Upto(text, 1)[1] = text[1]
      <4>1. PICK h \in 0 .. Len(text) : h = 1
        BY <2>1
      <4>2. /\ Upto(text, h) \in Texts /\ Len(Upto(text, h)) = h
            /\ \A i \in 1 .. h : Upto(text, h)[i] = text[i]
        BY <4>1, UptoFacts
      <4> QED BY <4>1, <4>2
    <3>2. DOMAIN Upto(text, 1) = {1}
      BY <3>1 DEF Texts
    <3> QED BY <2>1, <3>1, <3>2, BlankHidden, VisibleFacts
  <2>3. ThinksAt(d, front, text, 1)
    BY <1>1, <1>3, <1>4, <1>6, <2>1, <2>2 DEF ThinksAt, Reserve
  <2>4. ASSUME NEW k \in Ends(text) PROVE k > 1
    <3>1. k \in Nat /\ k >= 1
      BY EndsNats
    <3>2. k # 1
      <4>1. SUFFICES ASSUME 1 \in Ends(text) PROVE FALSE
        BY <2>4
      <4>2. CloseTag \in Tags /\ Fits(CloseTag, text, 1) /\ Len(CloseTag) \in Nat /\ Len(CloseTag) > 0
        BY <4>1, BothAreTags, TaggedFits, TagLength DEF Ends
      <4>3. 1 \in 1 .. Len(CloseTag) /\ 1 + 1 - 1 = 1
        BY <4>2
      <4>4. text[1] = CloseTag[1]
        BY <4>2, <4>3 DEF Fits
      <4> QED BY <2>1, <4>4, TagAssumption
    <3> QED BY <3>1, <3>2
  <2> QED BY <2>3, <2>4 DEF EndsLater
<1> QED BY <1>3, <1>5, <1>6

LEMMA ThinkTells ==
  ASSUME NEW c, Stable(c), NEW text \in Texts, Settled(text), ToThink(c, text),
         c.section = "inside", NEW d, d = ScanForEnd(c)
  PROVE  \/ d.section = "inside" /\ Thinks(d, text)
         \/ d.section = "after" /\ Answered(d, text)
<1>1. PICK q : /\ OpensAt(text, q)
               /\ \E p : /\ ThinksAt(c, Upto(text, q - 1), Inner(text, q), p)
                         /\ EndsLater(Inner(text, q), p)
  BY DEF ToThink
<1> DEFINE front == Upto(text, q - 1)
           in    == Inner(text, q)
           s     == StripNewline(c)
<1>2. in \in Texts /\ front \in Texts
  BY <1>1, OpensFacts
<1>3. PICK p : ThinksAt(s, front, in, p) /\ EndsLater(in, p)
  BY <1>1, <1>2, StripThinks
<1>4. in = Inner(text, q) /\ front = Upto(text, q - 1) /\ s = StripNewline(c)
  OBVIOUS
<1> HIDE DEF front, in, s
<1>5. /\ p \in 0 .. Len(in) /\ Reserve(in, p) /\ (s.strip => p = 0)
      /\ s.buffer = Beyond(in, p) /\ Thought(s) = Visible(Upto(in, p)) /\ Spoken(s) = Visible(front)
  BY <1>3 DEF ThinksAt
<1>6. /\ s.sent \in Seq(Events) /\ s.buffer \in Texts /\ Len(s.buffer) = Len(in) - p
      /\ Len(in) \in Nat /\ Len(CloseTag) \in Nat
      /\ s.strip => s.buffer = <<>>
  <2>1. Core(s)
    BY <1>4, StripNewlineFacts DEF Handled, Stable
  <2>2. s.sent \in Seq(Events)
    BY <2>1, BlockFacts
  <2>3. s.buffer \in Texts /\ Len(s.buffer) = Len(in) - p /\ Len(in) \in Nat
    BY <1>2, <1>5, BeyondFacts
  <2>4. s.strip => s.buffer = <<>>
    BY <1>4, StripTells DEF Stable
  <2> QED BY <2>2, <2>3, <2>4, BothAreTags, TagLength
<1> DEFINE end == EndTag(s.buffer)
<1>7. /\ end = 0 => Ends(in) = {}
      /\ end # 0 => end \in Nat /\ end >= 1 /\ EndsAt(in, p + end) /\ end \in Ends(s.buffer)
  <2>1. \A k \in Ends(in) : k > p
    BY <1>3 DEF EndsLater
  <2>2. p \in 0 .. Len(in) /\ end = EndTag(Beyond(in, p)) /\ in = Inner(text, q)
    BY <1>4, <1>5
  <2> QED BY <1>1, <1>5, <2>1, <2>2, EndScanned
<1>8. end = EndTag(s.buffer)
  OBVIOUS
<1> HIDE DEF end
<1>9. CASE end = 0
  <2>1. PICK j \in 0 .. Len(s.buffer) :
              /\ d.section = "inside" /\ d.strip = s.strip /\ d.buffer = Beyond(s.buffer, j)
              /\ j > 0 => Len(s.buffer) - j = Len(CloseTag) + 2
              /\ Tells(s, d, <<>>, Upto(s.buffer, j))
    BY <1>4, <1>8, <1>9, ScanForEndTells
  <2>2. PICK n :
          /\ n \in 0 .. Len(in) /\ n = p + j /\ Beyond(s.buffer, j) = Beyond(in, n)
          /\ Visible(Upto(in, n)) = Visible(Upto(in, p)) \o Visible(Upto(s.buffer, j))
    <3>1. PICK n : PartTo(in, p, s.buffer, j, n)
      BY <1>2, <1>5, <2>1, PartTold
    <3> QED BY <3>1 DEF PartTo
  <2>3. Upto(s.buffer, j) \in Texts
    BY <1>6, <2>1, UptoFacts
  <2>4. Thought(d) = Visible(Upto(in, n)) /\ Spoken(d) = Visible(front)
    <3>1. Spoken(d) = Spoken(s) /\ Thought(d) = Thought(s) \o Visible(Upto(s.buffer, j))
      BY <1>6, <2>1, <2>3, ToldThinking
    <3> QED BY <1>5, <2>2, <3>1
  <2>5. Reserve(in, n)
    <3>1. CASE j > 0
      <4>1. Len(in) - n >= Len(CloseTag) + 2
        BY <1>5, <1>6, <2>1, <2>2, <3>1
      <4> QED BY <4>1 DEF Reserve
    <3>2. CASE j = 0
      <4>1. n = p
        BY <1>5, <2>2, <3>2
      <4> QED BY <1>5, <4>1
    <3> QED BY <2>1, <3>1, <3>2
  <2>6. d.strip => n = 0
    <3>1. Len(<<>>) = 0
      OBVIOUS
    <3> QED BY <1>5, <1>6, <2>1, <2>2, <3>1
  <2>7. ThinksAt(d, front, in, n)
    BY <2>1, <2>2, <2>4, <2>5, <2>6 DEF ThinksAt
  <2> QED BY <1>1, <1>4, <1>7, <1>9, <2>1, <2>7 DEF Thinks
<1>10. CASE end # 0
  <2>1. /\ d.section = "after" /\ d.buffer = Beyond(s.buffer, end + Len(CloseTag) + 1)
        /\ Tells(s, d, <<>>, Upto(s.buffer, end - 1))
    BY <1>4, <1>8, <1>10, ScanForEndTells
  <2>2. PICK k \in Nat : k = p + end /\ EndsAt(in, k)
    BY <1>5, <1>7, <1>10
  <2>3. end - 1 \in 0 .. Len(s.buffer) /\ end + Len(CloseTag) + 1 \in 0 .. Len(s.buffer)
    <3>1. end + Len(CloseTag) + 1 <= Len(s.buffer) /\ end \in Nat /\ end >= 1
      BY <1>6, <1>7, <1>10, EndsNats
    <3> QED BY <1>6, <3>1
  <2>4. d.buffer = Beyond(in, k + Len(CloseTag) + 1)
    <3>1. PICK j \in 0 .. Len(s.buffer) : j = end + Len(CloseTag) + 1
      BY <2>3
    <3>2. PICK n :
            /\ n \in 0 .. Len(in) /\ n = p + j /\ Beyond(s.buffer, j) = Beyond(in, n)
            /\ Visible(Upto(in, n)) = Visible(Upto(in, p)) \o Visible(Upto(s.buffer, j))
      <4>1. PICK n : PartTo(in, p, s.buffer, j, n)
        BY <1>2, <1>5, <3>1, PartTold
      <4> QED BY <4>1 DEF PartTo
    <3>3. n = k + Len(CloseTag) + 1
      <4>1. p \in Int /\ end \in Int
        BY <1>5, <1>6, <1>7, <1>10
      <4> QED BY <2>2, <3>1, <3>2, <4>1
    <3> QED BY <2>1, <3>1, <3>2, <3>3
  <2>5. Thought(d) = Visible(Upto(in, k - 1)) /\ Spoken(d) = Visible(front)
    <3>1. PICK j \in 0 .. Len(s.buffer) : j = end - 1
      BY <2>3
    <3>2. PICK n :
            /\ n \in 0 .. Len(in) /\ n = p + j /\ Beyond(s.buffer, j) = Beyond(in, n)
            /\ Visible(Upto(in, n)) = Visible(Upto(in, p)) \o Visible(Upto(s.buffer, j))
      <4>1. PICK n : PartTo(in, p, s.buffer, j, n)
        BY <1>2, <1>5, <3>1, PartTold
      <4> QED BY <4>1 DEF PartTo
    <3>3. n = k - 1
      <4>1. p \in Int /\ end \in Int
        BY <1>5, <1>6, <1>7, <1>10
      <4> QED BY <2>2, <3>1, <3>2, <4>1
    <3>4. Upto(s.buffer, j) \in Texts
      BY <1>6, UptoFacts
    <3>5. Tells(s, d, <<>>, Upto(s.buffer, j))
      BY <2>1, <3>1
    <3>6. Spoken(d) = Spoken(s) /\ Thought(d) = Thought(s) \o Visible(Upto(s.buffer, j))
      BY <1>6, <3>4, <3>5, ToldThinking
    <3> QED BY <1>5, <3>2, <3>3, <3>6
  <2>6. AnsweredAt(d, front, in, k)
    BY <2>2, <2>4, <2>5 DEF AnsweredAt
  <2> QED BY <1>1, <1>4, <2>1, <2>6 DEF Answered
<1> QED BY <1>9, <1>10

LEMMA FlushRestTells ==
  ASSUME NEW c, Core(c), NEW text, Answered(c, text), NEW d, d = FlushRest(c)
  PROVE  Answered(d, text) /\ d.section = c.section
<1> DEFINE b == c.buffer
           f == TextUnlessEmpty(c, b)
<1>1. b = c.buffer /\ b \in Texts /\ c.sent \in Seq(Events)
  BY BufferText, BlockFacts
<1>2. d = [f EXCEPT !.buffer = <<>>]
  BY DEF FlushRest
<1>3. f = TextUnlessEmpty(c, b)
  OBVIOUS
<1> HIDE DEF b, f
<1>4. Wrote(c, f, b) /\ Tells(c, f, b, <<>>)
  BY <1>1, <1>3, UnlessFacts, UnlessTells
<1>5. f \in Contexts /\ f.section = c.section
  BY <1>4, WroteTypes DEF Core, Kept
<1>6. d.section = c.section /\ d.buffer = <<>> /\ d.sent = f.sent /\ d.blocks = f.blocks
  BY <1>2, <1>5 DEF Contexts
<1>7. Tells(c, d, b, <<>>)
  BY <1>4, <1>6, TellsThen, MuteSame
<1>8. Spoken(d) = Spoken(c) \o Visible(b) /\ Thought(d) = Thought(c)
  BY <1>1, <1>7, ToldText
<1>9. d.sent \in Seq(Events)
  BY <1>5, <1>6 DEF Contexts
<1>10. Spoken(d) \o Visible(d.buffer) = Spoken(d)
  BY <1>6, <1>9, SpokenTypes, EmptyText
<1>11. PICK q, k : OpensAt(text, q) /\ AnsweredAt(c, Upto(text, q - 1), Inner(text, q), k)
  BY DEF Answered
<1>12. AnsweredAt(d, Upto(text, q - 1), Inner(text, q), k)
  BY <1>1, <1>8, <1>10, <1>11 DEF AnsweredAt
<1> QED BY <1>6, <1>11, <1>12 DEF Answered

(* What was told fits the section the search has reached.                     *)
Followed(c, text) ==
  /\ c.section = "before" => Looking(c, text)
  /\ c.section = "inside" => Thinks(c, text)
  /\ c.section = "after"  => Answered(c, text)

LEMMA ReceivedGrown ==
  ASSUME NEW c, Core(c), NEW chunk \in Texts, NEW d, d = Received(c, chunk)
  PROVE  Grown(c, d, chunk) /\ d.section = c.section
<1>1. c \in Contexts
  BY DEF Core
<1> DEFINE a == c.buffer \o chunk
<1>2. d = [c EXCEPT !.buffer = a]
  BY DEF Received
<1> HIDE DEF a
<1>3. /\ d.buffer = a /\ d.section = c.section /\ d.strip = c.strip
      /\ d.sent = c.sent /\ d.blocks = c.blocks
  BY <1>1, <1>2 DEF Contexts
<1> QED BY <1>3, MuteSame DEF Grown, a

LEMMA ContentFollows ==
  ASSUME NEW c, Stable(c), NEW chunk \in Texts, chunk # <<>>, NEW text \in Texts,
         Settled(text \o chunk), Followed(c, text), NEW d, d = ContentWithThinking(c, chunk)
  PROVE  Followed(d, text \o chunk)
<1> DEFINE t  == text \o chunk
           c0 == Received(c, chunk)
           c1 == IF c0.section = "before" THEN ScanForStart(c0) ELSE c0
           c2 == IF c1.section = "inside" THEN ScanForEnd(c1) ELSE c1
<1>1. d = IF c2.section = "after" THEN FlushRest(c2) ELSE c2
  BY DEF ContentWithThinking, Received
<1>2. Stable(c0)
  BY ReceivedFacts
<1>3. /\ c0 = Received(c, chunk)
      /\ c1 = IF c0.section = "before" THEN ScanForStart(c0) ELSE c0
      /\ c2 = IF c1.section = "inside" THEN ScanForEnd(c1) ELSE c1
  OBVIOUS
<1>4. t = text \o chunk /\ t \in Texts /\ Settled(t)
  BY ConcatProperties DEF Texts
<1> HIDE DEF c0, c1, c2
<1>5. Core(c) /\ c.sent \in Seq(Events) /\ c.buffer \in Texts
  BY BlockFacts, BufferText DEF Stable
<1>6. Grown(c, c0, chunk) /\ c0.section = c.section
  BY <1>3, <1>5, ReceivedGrown
<1>7. /\ c0.section = "before" => ToSearch(c0, t)
      /\ c0.section = "inside" => ToThink(c0, t)
      /\ c0.section = "after" => Answered(c0, t)
  <2>1. ASSUME c0.section = "before" PROVE ToSearch(c0, t)
    BY <1>6, <2>1, LookingGrows DEF Followed
  <2>2. ASSUME c0.section = "inside" PROVE ToThink(c0, t)
    BY <1>6, <2>2, ThinksGrows DEF Followed
  <2>3. ASSUME c0.section = "after" PROVE Answered(c0, t)
    BY <1>5, <1>6, <2>3, AnsweredGrows DEF Followed
  <2> QED BY <2>1, <2>2, <2>3
<1> HIDE DEF t
<1>8. Stable(c1) /\ Core(c0)
  BY <1>2, <1>3, ScanForStartFacts DEF Handled, Stable
<1>9. /\ c1.section = "before" => Looking(c1, t)
      /\ c1.section = "inside" => ToThink(c1, t)
      /\ c1.section = "after" => Answered(c1, t)
  <2>1. CASE c0.section = "before"
    <3>1. \/ c1.section = "before" /\ Looking(c1, t)
          \/ c1.section = "inside" /\ ToThink(c1, t)
      BY <1>3, <1>4, <1>7, <1>8, <2>1, SearchTells
    <3> QED BY <3>1
  <2>2. CASE c0.section # "before"
    BY <1>3, <1>7, <2>2
  <2> QED BY <2>1, <2>2
<1>10. Stable(c2)
  BY <1>3, <1>8, ScanForEndFacts DEF Handled
<1>11. Followed(c2, t)
  <2>1. CASE c1.section = "inside"
    <3>1. \/ c2.section = "inside" /\ Thinks(c2, t)
          \/ c2.section = "after" /\ Answered(c2, t)
      BY <1>3, <1>4, <1>8, <1>9, <2>1, ThinkTells
    <3> QED BY <3>1 DEF Followed
  <2>2. CASE c1.section # "inside"
    BY <1>3, <1>9, <2>2 DEF Followed
  <2> QED BY <2>1, <2>2
<1>12. Followed(d, t)
  <2>1. CASE c2.section = "after"
    <3>1. Answered(c2, t) /\ Core(c2) /\ d = FlushRest(c2)
      BY <1>1, <1>10, <1>11, <2>1 DEF Followed, Stable
    <3>2. Answered(d, t) /\ d.section = "after"
      BY <2>1, <3>1, FlushRestTells
    <3> QED BY <3>2 DEF Followed
  <2>2. CASE c2.section # "after"
    BY <1>1, <1>11, <2>2
  <2> QED BY <2>1, <2>2
<1> QED BY <1>4, <1>12

-----------------------------------------------------------------------------
(* The complete text.  Where every tag is quoted on both sides or on none, a *)
(* quote in front says all.                                                  *)
LEMMA PlainSettled ==
  ASSUME NEW text \in Texts, PlainTags(text) PROVE Settled(text)
BY DEF PlainTags, Settled, Tags

LEMMA StartIs ==
  ASSUME NEW text \in Texts, PlainTags(text)
  PROVE  /\ Bare(text) = {} => StartTag(text) = 0
         /\ \A q : OpensAt(text, q) =>
              StartTag(text) = q /\ q # 0 /\ After(OpenTag, text, q) = Inner(text, q)
<1> DEFINE B == Bare(text)
<1>1. RealTags(OpenTag, text) = B
  <2>1. \A i \in Tagged(OpenTag, text) : IsQuote(text, i - 1) <=> IsQuote(text, i + Len(OpenTag))
    BY DEF PlainTags
  <2> QED BY <2>1 DEF RealTags, Bare, Tagged
<1>2. \A x \in B : x \in Nat /\ x >= 1 /\ x \in Tagged(OpenTag, text)
  BY TaggedNats, BothAreTags DEF Bare
<1>3. StartTag(text) = First(B)
  BY <1>1 DEF StartTag
<1>4. ASSUME NEW q, OpensAt(text, q)
      PROVE  StartTag(text) = q /\ q # 0 /\ After(OpenTag, text, q) = Inner(text, q)
  <2>1. q \in B /\ \A i \in B : q <= i
    BY <1>4 DEF OpensAt
  <2>2. After(OpenTag, text, q) = Inner(text, q)
    BY <1>2, <2>1, AfterTagged, BothAreTags DEF Inner
  <2> HIDE DEF B
  <2>3. First(B) = q
    BY <1>2, <2>1, FirstIs
  <2> QED BY <1>2, <1>3, <2>1, <2>2, <2>3
<1> HIDE DEF B
<1>5. B = {} => StartTag(text) = 0
  BY <1>2, <1>3, FirstIs
<1> QED BY <1>4, <1>5 DEF B

LEMMA PlainBeyond ==
  ASSUME NEW text \in Texts, PlainTags(text), NEW p \in 0 .. Len(text),
         NEW k \in Tagged(CloseTag, Beyond(text, p)), IsQuote(Beyond(text, p), k - 1)
  PROVE  IsQuote(Beyond(text, p), k + Len(CloseTag))
<1>1. CloseTag \in Tags /\ Len(CloseTag) \in Nat /\ Len(CloseTag) > 0 /\ p \in Nat
  BY BothAreTags, TagLength DEF Texts
<1>2. k \in Nat /\ k >= 1
  BY <1>1, BeyondFacts, TaggedNats
<1>3. p + k \in Tagged(CloseTag, text)
  BY <1>1, <1>2, TaggedBeyond
<1>4. PICK h \in Int : h = k - 1
  BY <1>2
<1>5. IsQuote(text, p + h)
  BY <1>4, QuoteBeyond
<1>6. p + h = (p + k) - 1
  BY <1>1, <1>2, <1>4
<1>7. IsQuote(text, (p + k) + Len(CloseTag))
  BY <1>3, <1>5, <1>6 DEF PlainTags
<1>8. PICK j \in Int : j = k + Len(CloseTag)
  BY <1>1, <1>2
<1>9. p + j = (p + k) + Len(CloseTag) /\ j >= 1
  BY <1>1, <1>2, <1>8
<1> QED BY <1>7, <1>8, <1>9, QuoteBeyond

(* A closing tag with only white space behind it.                             *)
Lasts(text) == {k \in Tagged(CloseTag, text) : IsBlank(After(CloseTag, text, k))}

LEMMA LastsFacts ==
  ASSUME NEW text \in Texts, NEW k
  PROVE  k \in Lasts(text) <=>
           /\ k \in Tagged(CloseTag, text)
           /\ \A i \in k + Len(CloseTag) .. Len(text) : text[i] \in Blanks
<1> DEFINE m == Len(CloseTag)
<1>1. CloseTag \in Tags /\ m \in Nat /\ m > 0 /\ Len(text) \in Nat
  BY BothAreTags, TagLength DEF Texts
<1>2. ASSUME k \in Tagged(CloseTag, text)
      PROVE  IsBlank(After(CloseTag, text, k)) <=> \A i \in k + m .. Len(text) : text[i] \in Blanks
  <2>1. k \in Nat /\ k >= 1 /\ k + m - 1 \in 0 .. Len(text)
        /\ After(CloseTag, text, k) = Beyond(text, k + m - 1)
    BY <1>1, <1>2, TaggedNats, AfterTagged
  <2>2. PICK j \in 0 .. Len(text) : j = k + m - 1
    BY <2>1
  <2> DEFINE rest == Beyond(text, j)
  <2>3. /\ rest \in Texts /\ Len(rest) = Len(text) - j
        /\ \A x \in 1 .. Len(text) - j : rest[x] = text[j + x]
    BY BeyondFacts
  <2>4. After(CloseTag, text, k) = rest
    BY <2>1, <2>2
  <2>5. DOMAIN rest = 1 .. Len(text) - j
    BY <2>3 DEF Texts
  <2> HIDE DEF rest, m
  <2>6. ASSUME \A x \in 1 .. Len(text) - j : rest[x] \in Blanks, NEW i \in k + m .. Len(text)
        PROVE  text[i] \in Blanks
    <3>1. PICK x \in 1 .. Len(text) - j : i = j + x
      <4>1. i - j \in 1 .. Len(text) - j /\ i = j + (i - j)
        BY <1>1, <2>1, <2>2
      <4> QED BY <4>1
    <3> QED BY <2>3, <2>6, <3>1
  <2>7. ASSUME \A i \in k + m .. Len(text) : text[i] \in Blanks, NEW x \in 1 .. Len(text) - j
        PROVE  rest[x] \in Blanks
    <3>1. PICK i \in k + m .. Len(text) : i = j + x
      <4>1. j + x \in k + m .. Len(text)
        BY <1>1, <2>1, <2>2
      <4> QED BY <4>1
    <3> QED BY <2>3, <2>7, <3>1
  <2> QED BY <2>4, <2>5, <2>6, <2>7 DEF IsBlank
<1> QED BY <1>2 DEF Lasts

LEMMA LastTagSet ==
  ASSUME NEW text \in Texts, PlainTags(text), NEW p \in 0 .. Len(text),
         NEW b, b = Beyond(text, p)
  PROVE  /\ b \in Texts /\ EndTagAtBufferEnd(b) = First(Lasts(b))
         /\ (EndTagAtBufferEnd(b) = 0 <=> Lasts(b) = {})
<1> DEFINE m == Len(CloseTag)
<1>1. b \in Texts /\ CloseTag \in Tags /\ m \in Nat /\ m > 0 /\ Len(b) \in Nat /\ DOMAIN b = 1 .. Len(b)
  BY BothAreTags, TagLength, BeyondFacts DEF Texts
<1> HIDE DEF m
<1>2. ASSUME NEW k \in Lasts(b) PROVE k \in Nat /\ k >= 1 /\ ~IsQuote(b, k + m) /\ ~IsQuote(b, k - 1)
  <2>1. /\ k \in Tagged(CloseTag, b) /\ \A i \in k + m .. Len(b) : b[i] \in Blanks
    BY <1>1, <1>2, LastsFacts DEF m
  <2>2. k \in Nat /\ k >= 1
    BY <1>1, <2>1, TaggedNats
  <2>3. ASSUME IsQuote(b, k + m) PROVE FALSE
    <3>1. k + m \in 1 .. Len(b) /\ b[k + m] \in QuoteChars
      BY <1>1, <2>3 DEF IsQuote
    <3>2. k + m \in k + m .. Len(b)
      BY <1>1, <2>2, <3>1
    <3> QED BY <2>1, <3>1, <3>2, TagAssumption
  <2>4. ~IsQuote(b, k - 1)
    BY <2>1, <2>3, PlainBeyond DEF m
  <2> QED BY <2>2, <2>3, <2>4
<1> DEFINE S == {k \in RealTags(CloseTag, b) : IsBlank(After(CloseTag, b, k))}
           L == Lasts(b)
<1>3. S = L
  <2>1. \A k : k \in RealTags(CloseTag, b) <=> k \in Tagged(CloseTag, b) /\ ~IsQuote(b, k - 1) /\ ~IsQuote(b, k + m)
    BY DEF RealTags, Tagged, m
  <2> QED BY <1>2, <2>1 DEF Lasts
<1>4. EndTagAtBufferEnd(b) = First(S)
  BY DEF EndTagAtBufferEnd
<1>5. \A x \in L : x \in Nat /\ x >= 1
  BY <1>2
<1> HIDE DEF S, L
<1>6. First(L) = 0 <=> L = {}
  BY <1>5, FirstIs
<1> QED BY <1>1, <1>3, <1>4, <1>6 DEF L

LEMMA LastsBeyond ==
  ASSUME NEW text \in Texts, NEW p \in 0 .. Len(text), Lasts(text) = {}
  PROVE  Lasts(Beyond(text, p)) = {}
<1> DEFINE b == Beyond(text, p)
           m == Len(CloseTag)
<1>1. CloseTag \in Tags /\ m \in Nat /\ m > 0 /\ Len(text) \in Nat /\ p \in 0 .. Len(text)
  BY BothAreTags, TagLength DEF Texts
<1>2. b \in Texts /\ Len(b) = Len(text) - p /\ \A x \in 1 .. Len(text) - p : b[x] = text[p + x]
  BY BeyondFacts
<1>3. ASSUME NEW k \in Lasts(b) PROVE FALSE
  <2>1. /\ k \in Tagged(CloseTag, b) /\ \A i \in k + m .. Len(b) : b[i] \in Blanks
    BY <1>2, <1>3, LastsFacts
  <2>2. k \in Nat /\ k >= 1
    BY <1>1, <1>2, <2>1, TaggedNats
  <2>3. p + k \in Tagged(CloseTag, text)
    BY <1>1, <2>1, <2>2, TaggedBeyond
  <2> HIDE DEF b, m
  <2>4. ASSUME NEW i \in (p + k) + m .. Len(text) PROVE text[i] \in Blanks
    <3>1. PICK x \in k + m .. Len(b) : i = p + x
      <4>1. i - p \in k + m .. Len(b) /\ i = p + (i - p)
        BY <1>1, <1>2, <2>2
      <4> QED BY <4>1
    <3>2. x \in 1 .. Len(text) - p
      BY <1>1, <1>2, <2>2, <3>1
    <3> QED BY <1>2, <2>1, <3>1, <3>2
  <2>5. PICK j : j = p + k
    OBVIOUS
  <2>6. j \in Lasts(text)
    BY <2>3, <2>4, <2>5, LastsFacts DEF m
  <2> QED BY <2>6
<1> QED BY <1>3 DEF b

Extracted(r, rest, before, i, tail) ==
  /\ r.thinking = IF i > 1 /\ rest[1] = Newline THEN SubSeq(rest, 2, i - 1)
                                                ELSE SubSeq(rest, 1, i - 1)
  /\ r.text = (IF IsBlank(before) THEN <<>> ELSE before) \o tail

LEMMA ExtractFacts ==
  ASSUME NEW text, NEW start, start = StartTag(text), NEW rest, rest = After(OpenTag, text, start),
         NEW end, end = EndTag(rest), NEW last, last = EndTagAtBufferEnd(rest),
         NEW before, before = SubSeq(text, 1, start - 1),
         NEW r, r = ExtractComplete(text)
  PROVE  /\ start # 0 /\ end # 0 =>
              Extracted(r, rest, before, end, SubSeq(rest, end + Len(CloseTag) + 2, Len(rest)))
         /\ start # 0 /\ end = 0 /\ last # 0 =>
              Extracted(r, rest, before, last, TrimStart(After(CloseTag, rest, last)))
         /\ start = 0 \/ (end = 0 /\ last = 0) => r.thinking = <<>>
<1>1. ASSUME start # 0, end # 0
      PROVE  Extracted(r, rest, before, end, SubSeq(rest, end + Len(CloseTag) + 2, Len(rest)))
  BY <1>1 DEF ExtractComplete, Extracted
<1>2. ASSUME start # 0, end = 0, last # 0
      PROVE  Extracted(r, rest, before, last, TrimStart(After(CloseTag, rest, last)))
  BY <1>2 DEF ExtractComplete, Extracted
<1>3. ASSUME start = 0 \/ (end = 0 /\ last = 0) PROVE r.thinking = <<>>
  BY <1>3 DEF ExtractComplete
<1> QED BY <1>1, <1>2, <1>3

(* The newline behind the tag does not show.                                  *)
LEMMA SkipNewline ==
  ASSUME NEW text \in Texts, NEW i \in Nat, i >= 1, i - 1 \in 0 .. Len(text),
         NEW part, part = IF i > 1 /\ text[1] = Newline THEN SubSeq(text, 2, i - 1)
                                                        ELSE SubSeq(text, 1, i - 1)
  PROVE  Visible(part) = Visible(Upto(text, i - 1))
<1>1. PICK h \in 0 .. Len(text) : h = i - 1
  OBVIOUS
<1> DEFINE u == Upto(text, h)
<1>2. u \in Texts /\ Len(u) = h /\ h \in Nat /\ Len(text) \in Nat /\ \A k \in 1 .. h : u[k] = text[k]
  BY <1>1, UptoFacts DEF Texts
<1>3. CASE ~(i > 1 /\ text[1] = Newline)
  BY <1>1, <1>3 DEF Upto
<1>4. CASE i > 1 /\ text[1] = Newline
  <2>1. part = SubSeq(text, 2, h) /\ h >= 1
    BY <1>1, <1>4
  <2>2. SubSeq(text, 2, h) = Beyond(u, 1)
    <3>1. /\ Beyond(u, 1) \in Texts /\ Len(Beyond(u, 1)) = h - 1
          /\ \A k \in 1 .. h - 1 : Beyond(u, 1)[k] = u[1 + k]
      <4>1. PICK j \in 0 .. Len(u) : j = 1
        BY <1>2, <2>1
      <4> HIDE DEF u
      <4>2. /\ Beyond(u, j) \in Texts /\ Len(Beyond(u, j)) = Len(u) - j
            /\ \A k \in 1 .. Len(u) - j : Beyond(u, j)[k] = u[j + k]
        BY <1>2, <4>1, BeyondFacts
      <4> QED BY <1>2, <4>1, <4>2
    <3>2. /\ SubSeq(text, 2, h) \in Seq(Char) /\ Len(SubSeq(text, 2, h)) = h - 1
          /\ \A k \in 1 .. h - 1 : SubSeq(text, 2, h)[k] = text[1 + k]
      BY <1>1, <1>2, <2>1 DEF Texts
    <3> DEFINE a == SubSeq(text, 2, h)
               b == Beyond(u, 1)
    <3>3. a \in Seq(Char) /\ b \in Seq(Char) /\ Len(a) = Len(b) /\ \A k \in 1 .. Len(a) : a[k] = b[k]
      <4>1. \A k \in 1 .. h - 1 : 1 + k \in 1 .. h
        BY <1>2
      <4> HIDE DEF u, a, b
      <4> QED BY <1>2, <3>1, <3>2, <4>1 DEF Texts, a, b
    <3> HIDE DEF a, b, u
    <3>4. a = b
      BY <3>3
    <3> QED BY <3>4 DEF a, b
  <2> HIDE DEF u
  <2>3. Visible(u) = Visible(Upto(u, 0)) \o Visible(Beyond(u, 1))
    <3>1. PICK z \in 0 .. Len(u) : z = 0
      BY <1>2
    <3>2. PICK j \in z .. Len(u) : j = 1
      BY <1>2, <2>1, <3>1
    <3>3. \A k \in z + 1 .. j : u[k] \in Hidden
      <4>1. u[1] = Newline
        BY <1>2, <1>4, <2>1
      <4>2. \A k \in z + 1 .. j : k = 1
        BY <3>1, <3>2
      <4> QED BY <4>1, <4>2, BlankHidden
    <3>4. Visible(u) = Visible(Upto(u, z)) \o Visible(Beyond(u, j))
      BY <1>2, <3>1, <3>2, <3>3, CutHidden
    <3> QED BY <3>1, <3>2, <3>4
  <2>4. Visible(Upto(u, 0)) = <<>>
    BY <1>2, NoText
  <2>5. Beyond(u, 1) \in Texts /\ Visible(Beyond(u, 1)) \in Texts
    <3>1. PICK j \in 0 .. Len(u) : j = 1
      BY <1>2, <2>1
    <3> QED BY <1>2, <3>1, BeyondFacts, VisibleFacts
  <2>6. Visible(part) = Visible(u)
    BY <2>1, <2>2, <2>3, <2>4, <2>5, EmptyText
  <2> QED BY <1>1, <2>6 DEF u
<1> QED BY <1>3, <1>4

LEMMA BlankShown ==
  ASSUME NEW a \in Texts, NEW b \in Texts
  PROVE  Visible((IF IsBlank(a) THEN <<>> ELSE a) \o b) = Visible(a) \o Visible(b)
<1>1. Visible(b) \in Texts /\ <<>> \o b = b /\ <<>> \o Visible(b) = Visible(b)
  BY VisibleFacts, EmptyText
<1>2. IsBlank(a) => Visible(a) = <<>>
  BY BlankHidden, VisibleFacts DEF IsBlank
<1>3. Visible(a \o b) = Visible(a) \o Visible(b)
  BY VisibleFacts
<1> QED BY <1>1, <1>2, <1>3

LEMMA CompleteEnds ==
  ASSUME NEW text \in Texts, PlainTags(text), NEW q, OpensAt(text, q),
         NEW in, in = Inner(text, q), NEW k, EndsAt(in, k), NEW r, r = ExtractComplete(text)
  PROVE  /\ Visible(r.thinking) = Visible(Upto(in, k - 1))
         /\ Visible(r.text) = Visible(Upto(text, q - 1)) \o Visible(Beyond(in, k + Len(CloseTag) + 1))
<1> DEFINE m == Len(CloseTag)
           front == Upto(text, q - 1)
<1>1. StartTag(text) = q /\ q # 0 /\ After(OpenTag, text, q) = in /\ Settled(text)
  BY StartIs, PlainSettled
<1>2. in \in Texts /\ front \in Texts
  BY OpensFacts
<1>3. k \in Nat /\ k >= 1 /\ k - 1 \in 0 .. Len(in) /\ k + m + 1 \in 0 .. Len(in) /\ m \in Nat
  BY <1>2, EmptyText, EndsAtConcat, BothAreTags, TagLength
<1>4. EndTag(in) = k /\ k # 0
  <2> DEFINE E == Ends(in)
  <2>1. \A j \in E : j \in Nat /\ j >= 1 /\ ~IsQuote(in, j - 1)
    BY <1>1, <1>2, EndsNats, EndsPlain
  <2> DEFINE F == {j \in E : ~IsQuote(in, j - 1)}
  <2>2. EndTag(in) = First(F)
    BY <1>2, EndTagSet
  <2>3. F = E
    BY <2>1
  <2>4. k \in E /\ \A j \in E : k <= j
    BY DEF EndsAt
  <2> HIDE DEF E, F
  <2>5. First(E) = k
    BY <2>1, <2>4, FirstIs
  <2> QED BY <1>3, <2>2, <2>3, <2>5
<1> HIDE DEF m
<1>5. PICK last : last = EndTagAtBufferEnd(in)
  OBVIOUS
<1>6. front = SubSeq(text, 1, q - 1)
  BY DEF Upto
<1> HIDE DEF front
<1>7. /\ r.thinking = IF k > 1 /\ in[1] = Newline THEN SubSeq(in, 2, k - 1) ELSE SubSeq(in, 1, k - 1)
      /\ r.text = (IF IsBlank(front) THEN <<>> ELSE front) \o SubSeq(in, k + m + 2, Len(in))
  <2>1. /\ q = StartTag(text) /\ in = After(OpenTag, text, q) /\ k = EndTag(in)
        /\ last = EndTagAtBufferEnd(in) /\ front = SubSeq(text, 1, q - 1)
        /\ r = ExtractComplete(text) /\ q # 0 /\ k # 0
    BY <1>1, <1>4, <1>5, <1>6
  <2>2. Extracted(r, in, front, k, SubSeq(in, k + Len(CloseTag) + 2, Len(in)))
    BY <2>1, ExtractFacts
  <2> QED BY <2>2 DEF Extracted, m
<1>8. Visible(r.thinking) = Visible(Upto(in, k - 1))
  BY <1>2, <1>3, <1>7, SkipNewline
<1>9. PICK j \in 0 .. Len(in) : j = k + m + 1
  BY <1>3
<1>10. SubSeq(in, k + m + 2, Len(in)) = Beyond(in, j) /\ Beyond(in, j) \in Texts
  <2>1. k + m + 2 = j + 1
    BY <1>3, <1>9
  <2>2. Beyond(in, j) \in Texts
    BY <1>2, <1>9, BeyondFacts
  <2> QED BY <2>1, <2>2 DEF Beyond
<1> DEFINE b == Beyond(in, j)
<1>11. r.text = (IF IsBlank(front) THEN <<>> ELSE front) \o b /\ b \in Texts
  BY <1>7, <1>10
<1> HIDE DEF b
<1>12. Visible(r.text) = Visible(front) \o Visible(b)
  BY <1>2, <1>11, BlankShown
<1> QED BY <1>8, <1>9, <1>12 DEF front, b, m

LEMMA CompleteLasts ==
  ASSUME NEW text \in Texts, PlainTags(text), NEW q, OpensAt(text, q),
         NEW in, in = Inner(text, q), Ends(in) = {}, NEW r, r = ExtractComplete(text)
  PROVE  /\ Lasts(in) = {} => r.thinking = <<>>
         /\ Lasts(in) # {} =>
              /\ Visible(r.thinking) = Visible(in)
              /\ Visible(r.text) = Visible(Upto(text, q - 1))
<1> DEFINE front == Upto(text, q - 1)
           last  == EndTagAtBufferEnd(in)
<1>1. StartTag(text) = q /\ q # 0 /\ After(OpenTag, text, q) = in
  BY StartIs
<1>2. in \in Texts /\ front \in Texts /\ q + Len(OpenTag) - 1 \in 0 .. Len(text)
  BY OpensFacts
<1>3. EndTag(in) = 0
  <2> DEFINE E == {j \in Ends(in) : ~IsQuote(in, j - 1)}
  <2>1. E = {} /\ EndTag(in) = First(E)
    BY <1>2, EndTagSet
  <2> QED BY <2>1 DEF First
<1>4. last = First(Lasts(in)) /\ (last = 0 <=> Lasts(in) = {})
  <2>1. PICK j \in 0 .. Len(text) : j = q + Len(OpenTag) - 1
    BY <1>2
  <2>2. in = Beyond(text, j)
    BY <2>1 DEF Inner
  <2> QED BY <2>1, <2>2, LastTagSet
<1>5. PICK end : end = EndTag(in)
  OBVIOUS
<1>6. front = SubSeq(text, 1, q - 1)
  BY DEF Upto
<1>7. last = EndTagAtBufferEnd(in)
  OBVIOUS
<1> HIDE DEF front, last
<1>8. /\ last = 0 => r.thinking = <<>>
      /\ last # 0 =>
           /\ r.thinking = IF last > 1 /\ in[1] = Newline THEN SubSeq(in, 2, last - 1)
                                                          ELSE SubSeq(in, 1, last - 1)
           /\ r.text = (IF IsBlank(front) THEN <<>> ELSE front) \o TrimStart(After(CloseTag, in, last))
  <2>1. /\ q = StartTag(text) /\ in = After(OpenTag, text, q) /\ end = EndTag(in)
        /\ last = EndTagAtBufferEnd(in) /\ front = SubSeq(text, 1, q - 1)
        /\ r = ExtractComplete(text)
    BY <1>1, <1>5, <1>6, <1>7
  <2>2. /\ q # 0 /\ end = 0 /\ last # 0 =>
             Extracted(r, in, front, last, TrimStart(After(CloseTag, in, last)))
        /\ q = 0 \/ (end = 0 /\ last = 0) => r.thinking = <<>>
    BY <2>1, ExtractFacts
  <2> QED BY <1>1, <1>3, <1>5, <2>2 DEF Extracted
<1>9. ASSUME last # 0
      PROVE  Visible(r.thinking) = Visible(in) /\ Visible(r.text) = Visible(front)
  <2>1. Visible(in) = Visible(Upto(in, last - 1)) /\ TrimStart(After(CloseTag, in, last)) = <<>>
    BY <1>2, <1>7, <1>9, LastTagCut
  <2>2. last \in Nat /\ last >= 1 /\ last - 1 \in 0 .. Len(in)
    <3> DEFINE L == Lasts(in)
    <3>1. \A x \in L : x \in Nat /\ x >= 1 /\ x + Len(CloseTag) - 1 <= Len(in)
      BY <1>2, TaggedNats, BothAreTags DEF Lasts
    <3> HIDE DEF L
    <3>2. last \in L
      BY <1>4, <1>9, <3>1, FirstIs DEF L
    <3>3. Len(CloseTag) \in Nat /\ Len(CloseTag) > 0 /\ Len(in) \in Nat
      BY <1>2, BothAreTags, TagLength DEF Texts
    <3> QED BY <3>1, <3>2, <3>3
  <2>3. Visible(r.thinking) = Visible(in)
    BY <1>2, <1>8, <1>9, <2>1, <2>2, SkipNewline
  <2>4. Visible(r.text) = Visible(front) \o Visible(<<>>)
    <3>1. PICK b \in Texts : b = <<>>
      BY EmptyText
    <3>2. r.text = (IF IsBlank(front) THEN <<>> ELSE front) \o b
      BY <1>8, <1>9, <2>1, <3>1
    <3>3. Visible(r.text) = Visible(front) \o Visible(b)
      BY <1>2, <3>2, BlankShown
    <3> QED BY <3>1, <3>3
  <2>5. Visible(front) \in Texts
    BY <1>2, VisibleFacts
  <2> QED BY <2>3, <2>4, <2>5, EmptyText
<1> QED BY <1>4, <1>8, <1>9 DEF front

-----------------------------------------------------------------------------
(* The end of the stream tells what is left.                                  *)
LEMMA FlushThinkingTells ==
  ASSUME NEW c, Stable(c), c.section = "inside", NEW d, d = FlushAtEnd(c)
  PROVE  /\ Tells(c, d, <<>>, c.buffer)
         /\ EndTagAtBufferEnd(c.buffer) = 0 => d.section = "inside"
<1> DEFINE b   == c.buffer
           end == EndTagAtBufferEnd(b)
<1>1. Core(c) /\ Inside(c) /\ c.sent \in Seq(Events) /\ b \in Texts /\ c.buffer = b
  BY BufferText, BlockFacts DEF Stable
<1>2. CASE b = <<>>
  <2>1. d = c
    BY <1>2 DEF FlushAtEnd
  <2>2. Tells(c, d, <<>>, <<>>)
    BY <1>1, <2>1, MuteTells DEF Mute
  <2> QED BY <1>2, <2>1, <2>2
<1>3. CASE b # <<>> /\ end # 0
  <2> DEFINE a == Upto(b, end - 1)
             f == ThinkingUnlessEmpty(c, a)
             e == CloseThinking(f)
             g == [e EXCEPT !.section = "after", !.buffer = <<>>]
  <2>1. d = TextUnlessEmpty(g, TrimStart(After(CloseTag, b, end)))
    BY <1>3 DEF FlushAtEnd, CloseAtBufferEnd
  <2>2. a \in Texts /\ Visible(b) = Visible(a) /\ TrimStart(After(CloseTag, b, end)) = <<>>
    BY <1>1, <1>3, LastTagCut
  <2>3. d = g
    BY <2>1, <2>2 DEF TextUnlessEmpty
  <2> HIDE DEF a, b
  <2>4. Wrote(c, f, a) /\ Inside(f) /\ Tells(c, f, <<>>, a)
    BY <1>1, <2>2, UnlessFacts, UnlessTells
  <2>5. e = CloseThinking(f) /\ d = [e EXCEPT !.section = "after", !.buffer = <<>>]
    BY <2>3
  <2> HIDE DEF f, e, g
  <2>6. Tells(c, e, <<>>, a) /\ Becomes(c, e, a)
    BY <1>1, <2>2, <2>4, <2>5, ClosedTells, ThoughtFacts
  <2>7. d.sent = e.sent /\ d.blocks = e.blocks
    BY <2>5, <2>6 DEF Becomes, Core, Contexts
  <2>8. Tells(c, d, <<>>, a)
    BY <2>6, <2>7, TellsThen, MuteSame
  <2>9. Tells(c, d, <<>>, b)
    BY <2>2, <2>8 DEF Tells
  <2> QED BY <1>1, <1>3, <2>9 DEF b
<1>4. CASE b # <<>> /\ end = 0
  <2> DEFINE f == ThinkingDelta(c, b)
             e == CloseThinking(f)
  <2>1. d = [e EXCEPT !.buffer = <<>>] /\ e = CloseThinking(f) /\ f = ThinkingDelta(c, b)
    BY <1>4 DEF FlushAtEnd
  <2> HIDE DEF b, f, e
  <2>2. Wrote(c, f, b) /\ Inside(f) /\ Tells(c, f, <<>>, b)
    BY <1>1, <2>1, ThinkingDeltaFacts, ThinkingTells
  <2>3. Tells(c, e, <<>>, b) /\ Becomes(c, e, b)
    BY <1>1, <2>1, <2>2, ClosedTells, ThoughtFacts
  <2>4. d.sent = e.sent /\ d.blocks = e.blocks /\ d.section = "inside"
    BY <2>1, <2>3 DEF Becomes, Kept, Core, Contexts
  <2>5. Tells(c, d, <<>>, b)
    BY <2>3, <2>4, TellsThen, MuteSame
  <2> QED BY <2>4, <2>5 DEF b
<1> QED BY <1>2, <1>3, <1>4

LEMMA FlushBefore ==
  ASSUME NEW c, Core(c), c.section = "before", NEW d, d = FlushAtEnd(c)
  PROVE  d.section = "before"
<1>1. CASE c.buffer = <<>>
  BY <1>1 DEF FlushAtEnd
<1>2. CASE c.buffer # <<>>
  <2> DEFINE b == c.buffer
             f == Text(c, b)
  <2>1. d = [f EXCEPT !.buffer = <<>>]
    BY <1>2 DEF FlushAtEnd
  <2>2. b \in Texts
    BY BufferText
  <2>3. f = Text(c, b)
    OBVIOUS
  <2> HIDE DEF b, f
  <2>4. Wrote(c, f, b)
    BY <2>2, <2>3, TextFacts
  <2>5. f \in Contexts /\ f.section = "before"
    BY <2>4, WroteTypes DEF Core, Kept
  <2> QED BY <2>1, <2>5 DEF Contexts
<1> QED BY <1>1, <1>2

Agrees(c, text) ==
  LET complete == ExtractComplete(text)
  IN  complete.thinking # <<>> \/ c.section = "after" =>
        /\ Thought(c) = Visible(complete.thinking)
        /\ Spoken(c) = Visible(complete.text)

LEMMA EndAgrees ==
  ASSUME NEW c, Stable(c), NEW text \in Texts, PlainTags(text), Followed(c, text), Drained(c),
         NEW d, d = FlushAtEnd(c)
  PROVE  Agrees(d, text)
<1> DEFINE r == ExtractComplete(text)
<1>1. Core(c) /\ c.section \in Sections /\ c.buffer \in Texts /\ c.sent \in Seq(Events)
  BY BufferText, BlockFacts DEF Stable, Core, Contexts
<1>2. r = ExtractComplete(text)
  OBVIOUS
<1> HIDE DEF r
<1>3. CASE c.section = "before"
  <2>1. Bare(text) = {} /\ d.section = "before"
    BY <1>1, <1>3, FlushBefore DEF Followed, Looking
  <2>2. StartTag(text) = 0
    BY <2>1, StartIs
  <2>3. r.thinking = <<>>
    BY <1>2, <2>2 DEF ExtractComplete
  <2> QED BY <1>2, <2>1, <2>3 DEF Agrees
<1>4. CASE c.section = "after"
  <2>1. c.buffer = <<>> /\ Answered(c, text)
    BY <1>4 DEF Drained, Followed
  <2>2. d = c
    BY <2>1 DEF FlushAtEnd
  <2>3. PICK q, k : OpensAt(text, q) /\ AnsweredAt(c, Upto(text, q - 1), Inner(text, q), k)
    BY <2>1 DEF Answered
  <2> DEFINE in == Inner(text, q)
  <2>4. /\ EndsAt(in, k) /\ Thought(c) = Visible(Upto(in, k - 1))
        /\ Spoken(c) \o Visible(c.buffer)
             = Visible(Upto(text, q - 1)) \o Visible(Beyond(in, k + Len(CloseTag) + 1))
    BY <2>3 DEF AnsweredAt
  <2>5. in = Inner(text, q)
    OBVIOUS
  <2> HIDE DEF in
  <2>6. Spoken(c) \o Visible(c.buffer) = Spoken(c)
    BY <1>1, <2>1, SpokenTypes, EmptyText
  <2>7. /\ Visible(r.thinking) = Visible(Upto(in, k - 1))
        /\ Visible(r.text) = Visible(Upto(text, q - 1)) \o Visible(Beyond(in, k + Len(CloseTag) + 1))
    BY <1>2, <2>3, <2>4, <2>5, CompleteEnds
  <2> QED BY <1>2, <2>2, <2>4, <2>6, <2>7 DEF Agrees
<1>5. CASE c.section = "inside"
  <2>1. PICK q : /\ OpensAt(text, q) /\ Ends(Inner(text, q)) = {}
                 /\ \E p : ThinksAt(c, Upto(text, q - 1), Inner(text, q), p)
    BY <1>5 DEF Followed, Thinks
  <2> DEFINE in    == Inner(text, q)
             front == Upto(text, q - 1)
  <2>2. PICK p : ThinksAt(c, front, in, p)
    BY <2>1
  <2>3. in \in Texts /\ front \in Texts /\ q + Len(OpenTag) - 1 \in 0 .. Len(text)
    BY <2>1, OpensFacts
  <2>4. in = Inner(text, q) /\ front = Upto(text, q - 1) /\ Ends(in) = {}
    BY <2>1
  <2> HIDE DEF in, front
  <2>5. /\ p \in 0 .. Len(in) /\ c.buffer = Beyond(in, p)
        /\ Thought(c) = Visible(Upto(in, p)) /\ Spoken(c) = Visible(front)
    BY <2>2 DEF ThinksAt
  <2> DEFINE b == c.buffer
  <2>6. Tells(c, d, <<>>, b) /\ (EndTagAtBufferEnd(b) = 0 => d.section = "inside")
    BY <1>5, FlushThinkingTells
  <2>7. b = Beyond(in, p) /\ b \in Texts
    BY <1>1, <2>5
  <2> HIDE DEF b
  <2>8. Thought(d) = Visible(in) /\ Spoken(d) = Visible(front)
    <3>1. Spoken(d) = Spoken(c) /\ Thought(d) = Thought(c) \o Visible(b)
      BY <1>1, <2>6, <2>7, ToldThinking
    <3>2. Visible(in) = Visible(Upto(in, p)) \o Visible(b)
      BY <2>3, <2>5, <2>7, CutVisible
    <3> QED BY <2>5, <3>1, <3>2
  <2>9. /\ Lasts(in) = {} => r.thinking = <<>>
        /\ Lasts(in) # {} => Visible(r.thinking) = Visible(in) /\ Visible(r.text) = Visible(front)
    BY <1>2, <2>1, <2>4, CompleteLasts
  <2>10. CASE Lasts(in) # {}
    BY <1>2, <2>8, <2>9, <2>10 DEF Agrees
  <2>11. CASE Lasts(in) = {}
    <3>1. Lasts(b) = {}
      BY <2>3, <2>5, <2>7, <2>11, LastsBeyond
    <3>2. PICK j \in 0 .. Len(text) : j = q + Len(OpenTag) - 1
      BY <2>3
    <3>3. in = Beyond(text, j)
      BY <2>4, <3>2 DEF Inner
    <3>4. PICK n \in 0 .. Len(text) : b = Beyond(text, n)
      <4>1. \E n : PartTo(text, j, in, p, n)
        BY <2>5, <3>2, <3>3, PartTold
      <4> QED BY <2>7, <4>1 DEF PartTo
    <3>5. EndTagAtBufferEnd(b) = 0
      BY <3>1, <3>4, LastTagSet
    <3> QED BY <1>2, <2>6, <2>9, <2>11, <3>5 DEF Agrees
  <2> QED BY <2>10, <2>11
<1> QED BY <1>1, <1>3, <1>4, <1>5 DEF Sections

-----------------------------------------------------------------------------
(* The invariant of the search: as long as no tool was called and no tag is  *)
(* quoted on one side only, what was told fits the section.                  *)
FollowedSoFar ==
  ctx.phase = "open" /\ ctx.thinkingEnabled /\ NoToolUsed /\ Settled(received)
    => Followed(ctx, received)
Following == Inv /\ FollowedSoFar /\ CutsDoNotMatter

LEMMA FollowedSame ==
  ASSUME NEW c, NEW text, Followed(c, text), NEW d, Mute(c, d), d.section = c.section,
         d.buffer = c.buffer, d.strip = c.strip
  PROVE  Followed(d, text)
<1>1. Spoken(d) = Spoken(c) /\ Thought(d) = Thought(c)
  BY DEF Mute, Spoken, Thought
<1>2. \A p : LookingAt(c, text, p) => LookingAt(d, text, p)
  BY <1>1 DEF LookingAt
<1>3. \A front, rest, p : ThinksAt(c, front, rest, p) => ThinksAt(d, front, rest, p)
  BY <1>1 DEF ThinksAt
<1>4. \A front, rest, k : AnsweredAt(c, front, rest, k) => AnsweredAt(d, front, rest, k)
  BY <1>1 DEF AnsweredAt
<1>5. Looking(c, text) => Looking(d, text)
  BY <1>2 DEF Looking
<1>6. Thinks(c, text) => Thinks(d, text)
  BY <1>3 DEF Thinks
<1>7. Answered(c, text) => Answered(d, text)
  BY <1>4 DEF Answered
<1> QED BY <1>5, <1>6, <1>7 DEF Followed

LEMMA NothingSaid ==
  ASSUME NEW c, c.sent = <<>>
  PROVE  Spoken(c) = <<>> /\ Thought(c) = <<>>
<1>1. ASSUME NEW kinds PROVE SentText(c, kinds) = <<>>
  <2>1. [i \in DOMAIN c.sent |-> Said(c, kinds, i)] = <<>>
    OBVIOUS
  <2>2. c.sent \in Seq(Events)
    OBVIOUS
  <2>3. SentText(c, kinds) = FlattenSeq([i \in DOMAIN c.sent |-> Said(c, kinds, i)])
    BY <2>2, SaidType
  <2> QED BY <2>1, <2>3, FlattenEmpty
<1> QED BY <1>1, EmptyText DEF Spoken, Thought

LEMMA LookingAtNothing ==
  ASSUME NEW c, c.buffer = <<>>, Spoken(c) = <<>>, Thought(c) = <<>>
  PROVE  Looking(c, <<>>)
<1> DEFINE text == <<>>
<1>1. text \in Texts /\ Len(text) = 0
  BY EmptyText
<1>2. Bare(text) = {}
  <2>1. ASSUME NEW i \in Bare(text) PROVE FALSE
    <3>1. i \in Nat /\ i >= 1 /\ i + Len(OpenTag) - 1 <= Len(text)
      BY <1>1, TaggedNats, BothAreTags DEF Bare
    <3> QED BY <1>1, <3>1, BothAreTags, TagLength
  <2> QED BY <2>1
<1>3. c.buffer = text /\ Spoken(c) = Visible(text) /\ Thought(c) = <<>>
  BY EmptyText
<1> HIDE DEF text
<1>4. 0 \in 0 .. Len(text) /\ Beyond(text, 0) = text /\ Upto(text, 0) = <<>>
      /\ Visible(Upto(text, 0)) = <<>>
  BY <1>1, NoText
<1>5. LookingAt(c, text, 0)
  BY <1>3, <1>4, EmptyText DEF LookingAt, text
<1> QED BY <1>2, <1>5 DEF Looking, text

LEMMA StartFollows == Following /\ Start => FollowedSoFar' /\ CutsDoNotMatter'
<1> SUFFICES ASSUME Following, Start PROVE FollowedSoFar' /\ CutsDoNotMatter'
  OBVIOUS
<1> DEFINE e == [event |-> "message_start"]
           s == Send(ctx, e)
           c == [s EXCEPT !.phase = "open"]
           d == ctx'
<1>1. PICK thinking \in BOOLEAN : ctx = NewContext(thinking)
  BY DEF Following, Inv, Start
<1>2. ctx \in Contexts /\ ctx.sent = <<>> /\ ctx.buffer = <<>> /\ ctx.section = "before"
  BY <1>1, NewFacts
<1>3. received' = <<>>
  BY DEF Following, Inv, Start
<1>4. d = IF c.thinkingEnabled THEN c ELSE [StartBlock(c, "text") EXCEPT !.textBlock = 1]
  BY DEF Start
<1>5. e \in Events /\ e.event # "block_delta"
  BY EventTypes
<1>6. s = Send(ctx, e) /\ c = [s EXCEPT !.phase = "open"]
  OBVIOUS
<1>7. s.buffer = ctx.buffer /\ s.section = ctx.section
  BY <1>2 DEF Send, Contexts
<1> HIDE DEF e, s, c, d
<1>8. Mute(ctx, s) /\ s \in Contexts
  BY <1>2, <1>5, <1>6, MuteSend
<1>9. /\ c \in Contexts /\ c.sent = s.sent /\ c.blocks = s.blocks /\ c.buffer = <<>>
      /\ c.section = "before" /\ c.phase = "open"
  BY <1>2, <1>6, <1>7, <1>8 DEF Contexts
<1>10. CASE c.thinkingEnabled
  <2>1. Mute(ctx, c)
    BY <1>8, <1>9, MuteSame, MuteTransitive
  <2>2. Spoken(c) = <<>> /\ Thought(c) = <<>>
    <3>1. Spoken(ctx) = <<>> /\ Thought(ctx) = <<>>
      BY <1>2, NothingSaid
    <3> QED BY <2>1, <3>1 DEF Mute, Spoken, Thought
  <2>3. Followed(c, <<>>)
    BY <1>9, <2>2, LookingAtNothing DEF Followed
  <2>4. d = c
    BY <1>4, <1>10
  <2> QED BY <1>3, <1>9, <2>3, <2>4 DEF FollowedSoFar, CutsDoNotMatter, d
<1>11. CASE ~c.thinkingEnabled
  <2>1. d = [StartBlock(c, "text") EXCEPT !.textBlock = 1]
    BY <1>4, <1>11
  <2>2. ~d.thinkingEnabled
    BY <1>9, <1>11, <2>1 DEF StartBlock, Send, Contexts
  <2> QED BY <2>2 DEF FollowedSoFar, CutsDoNotMatter, d
<1> QED BY <1>10, <1>11

LEMMA AssistantResponseFollows ==
  ASSUME Following, NEW chunk \in Chunks, AssistantResponse(chunk)
  PROVE  FollowedSoFar' /\ CutsDoNotMatter'
<1> DEFINE d == ctx'
<1>1. ctx.phase = "open"
  BY DEF AssistantResponse, Upstream
<1>2. Stable(ctx) /\ Core(ctx) /\ received \in Texts
  BY <1>1, OpenFacts DEF Following
<1>3. chunk \in Texts
  <2>1. chunk \in Seq(ToSet(chunk)) /\ ToSet(chunk) \subseteq Char
    BY StreamAssumption DEF Char
  <2> QED BY <2>1, SeqMonotonic DEF Texts
<1>4. received' = received \o chunk
  BY DEF AssistantResponse
<1>5. d = CASE chunk = <<>> -> ctx
            [] chunk # <<>> /\ ctx.thinkingEnabled -> ContentWithThinking(ctx, chunk)
            [] OTHER -> Text(ctx, chunk)
  BY DEF AssistantResponse
<1>6. d.toolBlock = ctx.toolBlock
  BY AssistantResponseInv DEF Following
<1> HIDE DEF d
<1>7. CASE chunk = <<>>
  <2>1. d = ctx
    BY <1>5, <1>7
  <2>2. received' = received
    BY <1>2, <1>4, <1>7, EmptyText
  <2> QED BY <1>1, <2>1, <2>2 DEF Following, FollowedSoFar, CutsDoNotMatter, NoToolUsed, d
<1>8. CASE chunk # <<>> /\ ctx.thinkingEnabled
  <2>1. d = ContentWithThinking(ctx, chunk)
    BY <1>5, <1>8
  <2>2. d.phase = "open"
    <3> DEFINE c == Received(ctx, chunk)
    <3>1. Handled(c, d)
      BY <1>2, <1>3, <2>1, ContentFacts
    <3>2. c = Received(ctx, chunk)
      OBVIOUS
    <3> HIDE DEF c
    <3>3. c.phase = ctx.phase
      BY <1>2, <1>3, <3>2, ReceivedFacts, ZenonT(40)
    <3> QED BY <1>1, <3>1, <3>3 DEF Handled
  <2>3. ASSUME NoToolUsed', Settled(received') PROVE Followed(d, received')
    <3>1. NoToolUsed
      BY <1>6, <2>3 DEF NoToolUsed, d
    <3>2. Settled(received \o chunk) /\ Settled(received)
      BY <1>2, <1>3, <1>4, <2>3, SettledBefore
    <3>3. Followed(ctx, received)
      BY <1>1, <1>8, <3>1, <3>2 DEF Following, FollowedSoFar
    <3>4. Followed(d, received \o chunk)
      BY <1>2, <1>3, <1>8, <2>1, <3>2, <3>3, ContentFollows
    <3> QED BY <1>4, <3>4
  <2> QED BY <2>2, <2>3 DEF FollowedSoFar, CutsDoNotMatter, d
<1>9. CASE chunk # <<>> /\ ~ctx.thinkingEnabled
  <2>1. d = Text(ctx, chunk)
    BY <1>5, <1>9
  <2>2. Kept(ctx, d)
    BY <1>2, <1>3, <2>1, TextFacts DEF Wrote, Becomes
  <2> QED BY <1>9, <2>2 DEF Kept, FollowedSoFar, CutsDoNotMatter, d
<1> QED BY <1>7, <1>8, <1>9

LEMMA LimitReachedFollows ==
  ASSUME Following, NEW reason, LimitReached(reason)
  PROVE  FollowedSoFar' /\ CutsDoNotMatter'
<1> DEFINE d == ctx'
<1>1. ctx.phase = "open" /\ d = [ctx EXCEPT !.stopReason = reason] /\ received' = received
  BY DEF LimitReached, Upstream
<1>2. ctx \in Contexts
  BY <1>1, OpenFacts DEF Following
<1> HIDE DEF d
<1>3. /\ d.phase = "open" /\ d.thinkingEnabled = ctx.thinkingEnabled /\ d.toolBlock = ctx.toolBlock
      /\ d.section = ctx.section /\ d.buffer = ctx.buffer /\ d.strip = ctx.strip
      /\ d.sent = ctx.sent /\ d.blocks = ctx.blocks
  BY <1>1, <1>2 DEF Contexts
<1>4. Mute(ctx, d)
  BY <1>3, MuteSame
<1>5. ASSUME d.thinkingEnabled, NoToolUsed', Settled(received') PROVE Followed(d, received')
  <2>1. Followed(ctx, received)
    BY <1>1, <1>3, <1>5 DEF Following, FollowedSoFar, NoToolUsed, d
  <2> QED BY <1>1, <1>3, <1>4, <2>1, FollowedSame
<1> QED BY <1>3, <1>5 DEF FollowedSoFar, CutsDoNotMatter, d

LEMMA FinishFollows == Following /\ Finish => FollowedSoFar' /\ CutsDoNotMatter'
<1> SUFFICES ASSUME Following, Finish PROVE FollowedSoFar' /\ CutsDoNotMatter'
  OBVIOUS
<1> DEFINE f == FlushAtEnd(ctx)
           c == IF ctx.thinkingEnabled THEN AnswerIfNone(f) ELSE ctx
           m == MessageEnd(c)
           d == ctx'
<1>1. ctx.phase = "open" /\ received' = received
  BY DEF Finish
<1>2. Stable(ctx) /\ Core(ctx) /\ received \in Texts /\ Drained(ctx)
  BY <1>1, OpenFacts DEF Following
<1>3. d = [m EXCEPT !.phase = "ended"]
  BY DEF Finish
<1>4. f = FlushAtEnd(ctx) /\ m = MessageEnd(c)
      /\ c = IF ctx.thinkingEnabled THEN AnswerIfNone(f) ELSE ctx
  OBVIOUS
<1>5. d.toolBlock = ctx.toolBlock
  BY FinishInv DEF Following
<1> HIDE DEF d, m, c, f
<1>6. Core(f) /\ f.thinkingEnabled = ctx.thinkingEnabled
  BY <1>2, <1>4, FlushAtEndFacts DEF Carried
<1>7. Core(c)
  BY <1>2, <1>4, <1>6, AnswerFacts
<1>8. m \in Contexts /\ Kept(c, m) /\ Mute(c, m)
  BY <1>4, <1>7, MessageEndFacts, MuteEnd
<1>9. /\ d.phase = "ended" /\ d.sent = m.sent /\ d.blocks = m.blocks /\ d.section = m.section
      /\ d.thinkingEnabled = m.thinkingEnabled
  BY <1>3, <1>8 DEF Contexts
<1>10. Mute(c, d) /\ d.section = c.section /\ d.thinkingEnabled = c.thinkingEnabled
  <2>1. Mute(m, d)
    BY <1>9, MuteSame
  <2> QED BY <1>8, <1>9, <2>1, MuteTransitive DEF Kept
<1>11. ASSUME d.thinkingEnabled, NoToolUsed', PlainTags(received') PROVE SameAsComplete'
  <2>1. ctx.thinkingEnabled
    BY <1>4, <1>10, <1>11
  <2>2. Followed(ctx, received)
    <3>1. Settled(received)
      BY <1>1, <1>2, <1>11, PlainSettled
    <3>2. NoToolUsed
      BY <1>5, <1>11 DEF NoToolUsed, d
    <3> QED BY <1>1, <2>1, <3>1, <3>2 DEF Following, FollowedSoFar
  <2>3. Agrees(f, received)
    BY <1>1, <1>2, <1>4, <1>11, <2>2, EndAgrees
  <2>4. Spoken(c) = Spoken(f) /\ Thought(c) = Thought(f) /\ c.section = f.section
    BY <1>4, <1>6, <2>1, AnswerTells
  <2>5. Spoken(d) = Spoken(f) /\ Thought(d) = Thought(f) /\ d.section = f.section
    BY <1>10, <2>4 DEF Mute, Spoken, Thought
  <2>6. Agrees(d, received')
    BY <1>1, <2>3, <2>5 DEF Agrees
  <2> QED BY <2>6 DEF Agrees, SameAsComplete, Spoken, Thought, d
<1> QED BY <1>9, <1>11 DEF FollowedSoFar, CutsDoNotMatter, d

LEMMA WebSearchAnswerFollows ==
  ASSUME Following, NEW decision, NEW summary, WebSearchAnswer(decision, summary)
  PROVE  FollowedSoFar' /\ CutsDoNotMatter'
<1> DEFINE d == ctx'
<1>1. PICK thinking \in BOOLEAN : ctx = NewContext(thinking)
  BY DEF Following, Inv, WebSearchAnswer
<1>2. ctx \in Contexts
  BY <1>1, NewFacts
<1>3. d.phase = "ended" /\ d.blocks = SearchBlocks
  BY <1>2 DEF WebSearchAnswer, Contexts
<1>4. 2 \in DOMAIN SearchBlocks /\ SearchBlocks[2].kind = "server_tool_use"
  BY DEF SearchBlocks
<1>5. Searched'
  BY <1>3, <1>4 DEF Searched
<1> QED BY <1>3, <1>5 DEF FollowedSoFar, CutsDoNotMatter

LEMMA InitFollows == Init => Following
<1> SUFFICES ASSUME Init PROVE Following
  OBVIOUS
<1>1. PICK thinking \in BOOLEAN : ctx = NewContext(thinking)
  BY DEF Init
<1>2. ctx.phase = "new"
  BY <1>1, NewFacts
<1> QED BY <1>2, InitInv DEF Following, FollowedSoFar, CutsDoNotMatter

LEMMA NextFollows == Following /\ [Next]_vars => Following'
<1> SUFFICES ASSUME Following, [Next]_vars PROVE Following'
  OBVIOUS
<1>1. Inv'
  BY NextInv DEF Following
<1>2. FollowedSoFar' /\ CutsDoNotMatter'
  <2>1. CASE Start
    BY <2>1, StartFollows
  <2>2. CASE WebSearchAnswer("query", <<"results">>)
    BY <2>2, WebSearchAnswerFollows
  <2>3. CASE WebSearchAnswer("query", <<"results", "notice">>)
    BY <2>3, WebSearchAnswerFollows
  <2>4. CASE \E chunk \in Chunks : AssistantResponse(chunk)
    BY <2>4, AssistantResponseFollows
  <2>5. CASE \E t \in Tool, fragment, stop \in BOOLEAN : ToolUse(t, fragment, stop)
    <3>1. PICK t \in Tool : ctx'.toolBlock[t] # 0
      BY <2>5, ToolUseInv DEF Following
    <3> QED BY <3>1 DEF FollowedSoFar, CutsDoNotMatter, NoToolUsed
  <2>6. CASE \E reason \in {"max_tokens", "model_context_window_exceeded"} : LimitReached(reason)
    BY <2>6, LimitReachedFollows
  <2>7. CASE Finish
    BY <2>7, FinishFollows
  <2>8. CASE UNCHANGED vars
    BY <2>8 DEF vars, Following, FollowedSoFar, CutsDoNotMatter, NoToolUsed, Searched, SameAsComplete
  <2> QED BY <2>1, <2>2, <2>3, <2>4, <2>5, <2>6, <2>7, <2>8 DEF Next
<1> QED BY <1>1, <1>2 DEF Following

-----------------------------------------------------------------------------
(* Whatever the upstream sends, every block has the state the client has     *)
(* seen, the text sent and kept back is the text received, and every tool    *)
(* has been given its fragments.                                             *)
THEOREM Invariant == Spec => []Inv
BY InitInv, NextInv, PTL DEF Spec

(* The indices of the blocks in use are those of blocks there are.           *)
THEOREM Types == Spec => []TypeOK
<1>1. Inv => TypeOK
  <2> SUFFICES ASSUME Inv PROVE TypeOK
    OBVIOUS
  <2>1. Limits(ctx)
    <3>1. CASE ctx.phase = "new"
      <4>1. PICK thinking \in BOOLEAN : ctx = NewContext(thinking)
        BY <3>1 DEF Inv
      <4> QED BY <4>1, NewFacts, CoreLimits
    <3>2. CASE ctx.phase = "open"
      BY <3>2, OpenFacts, CoreLimits DEF Core
    <3>3. CASE ctx.phase = "ended"
      BY <3>3 DEF Inv, Done
    <3> QED BY <3>1, <3>2, <3>3 DEF Inv
  <2> QED BY <2>1 DEF Inv, Limits, TypeOK
<1> QED BY <1>1, Invariant, PTL

(* Whatever the upstream sends and wherever it cuts its text, the events are  *)
(* those of a message, and a finished one is complete.                        *)
THEOREM MessagesAreWellFormed == Spec => []WellFormed
<1>1. Inv => WellFormed
  <2> SUFFICES ASSUME Inv PROVE WellFormed
    OBVIOUS
  <2>1. CASE ctx.phase = "new"
    <3>1. PICK thinking \in BOOLEAN : ctx = NewContext(thinking)
      BY <2>1 DEF Inv
    <3>2. ctx.sent = <<>>
      BY <3>1, NewFacts
    <3> QED BY <2>1, <3>2, ObservedEmpty DEF WellFormed, Accepted, Silent
  <2>2. CASE ctx.phase = "open"
    <3>1. Watched(ctx)
      BY <2>2, OpenFacts DEF Core
    <3> QED BY <2>2, <3>1 DEF WellFormed, Accepted, Watched
  <2>3. CASE ctx.phase = "ended"
    BY <2>3 DEF Inv, Done, WellFormed, Accepted, Complete
  <2> QED BY <2>1, <2>2, <2>3 DEF Inv
<1> QED BY <1>1, Invariant, PTL

(* Of what is shown to a user, nothing is lost, doubled or put out of order,  *)
(* and every tool is given each fragment of its input once.                   *)
THEOREM NothingIsLost == Spec => []NothingLost
<1>1. Inv => NothingLost
  <2> SUFFICES ASSUME Inv PROVE NothingLost
    OBVIOUS
  <2> DEFINE said == SentText(ctx, {"text", "thinking"})
  <2>1. /\ said \in Texts /\ ctx.buffer \in Texts
        /\ Visible(said) \o Visible(ctx.buffer) = Visible(received)
    <3>1. CASE ctx.phase = "new"
      <4>1. PICK thinking \in BOOLEAN : ctx = NewContext(thinking)
        BY <3>1 DEF Inv
      <4>2. ctx.sent = <<>> /\ ctx.buffer = <<>> /\ Shown(ctx) = <<>> /\ received = <<>>
        BY <3>1, <4>1, NewFacts DEF Inv
      <4>3. ctx.sent \in Seq(Events)
        BY <4>2
      <4>4. said \in Texts
        BY <4>3, SaidType
      <4> QED BY <4>2, <4>4, EmptyText DEF Shown
    <3>2. CASE ctx.phase = "open"
      <4>1. Core(ctx) /\ ctx.buffer \in Texts /\ Balance(ctx) = Visible(received)
        BY <3>2, OpenFacts
      <4>2. said \in Texts
        BY <4>1, BlockFacts, SaidType
      <4> QED BY <4>1, <4>2 DEF Balance, Shown
    <3>3. CASE ctx.phase = "ended"
      <4>1. ctx.buffer = <<>> /\ Shown(ctx) = Visible(received) /\ ctx.sent \in Seq(Events)
        BY <3>3 DEF Inv, Done
      <4>2. said \in Texts /\ Visible(said) \in Texts
        BY <4>1, SaidType, VisibleFacts
      <4> QED BY <4>1, <4>2, EmptyText DEF Shown
    <3> QED BY <3>1, <3>2, <3>3 DEF Inv
  <2>2. Visible(said \o ctx.buffer) = Visible(received)
    BY <2>1, VisibleFacts
  <2>3. ctx.phase = "ended" => ctx.buffer = <<>>
    BY DEF Inv, Done
  <2>4. \A t \in Tool : toolInput[t] = Len(Within(SentText(ctx, {"tool_use"}), {t}))
    BY DEF Inv, GivenAll, Given
  <2> QED BY <2>2, <2>3, <2>4 DEF NothingLost
<1> QED BY <1>1, Invariant, PTL

(* Whatever was received before a tool was called is sent before its block    *)
(* starts, unless the thinking is still open, wherever the text was cut.      *)
THEOREM TextGoesFirst == Spec => TextBeforeTool
<1> DEFINE Step == \A t \in Tool :
       ctx.toolBlock[t] = 0 /\ ctx'.toolBlock[t] # 0 /\ ctx'.section # "inside"
         => /\ ctx'.buffer = <<>>
            /\ LET first == FirstStart(ctx'.sent, ctx'.toolBlock[t])
                   before == [ctx' EXCEPT !.sent = SubSeq(@, 1, first)]
               IN  Visible(SentText(before, {"text", "thinking"})) = Visible(received)
<1>1. (\A u \in Tool : TextFirst(u)) => Step
  BY DEF TextFirst, Shown, Upfront
<1>2. Inv /\ [Next]_vars => [Step]_vars
  BY <1>1, NextInv
<1> QED BY <1>2, Invariant, PTL DEF Spec, TextBeforeTool

(* A message that thinks also answers, and tokens are said to have run out    *)
(* exactly where it had no answer of its own.                                 *)
THEOREM ThinkingAnswers == Spec => ThinkingIsNotAll
<1> DEFINE Step == ctx.phase = "open" /\ ctx'.phase = "ended" /\ ctx.thinkingBlock # 0
       => /\ HasNonThinkingBlocks(ctx')
          /\ ReasonGiven(ctx'.sent) = IF HasNonThinkingBlocks(ctx)
                                      THEN FinalStopReason(ctx) ELSE "max_tokens"
<1>1. ThinkingAnswered => Step
  BY DEF ThinkingAnswered
<1>2. Inv /\ [Next]_vars => [Step]_vars
  BY <1>1, NextAnswers
<1> QED BY <1>2, Invariant, PTL DEF Spec, ThinkingIsNotAll

(* Where the upstream cuts its text does not decide what is thinking and     *)
(* what is answer: a finished message says of both what extraction from the  *)
(* complete text does.                                                       *)
THEOREM CutsAreHarmless == Spec => []CutsDoNotMatter
<1>1. Following => CutsDoNotMatter
  BY DEF Following
<1> QED BY <1>1, InitFollows, NextFollows, PTL DEF Spec
=============================================================================
