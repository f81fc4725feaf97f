---------------------------- MODULE ThinkingTags ----------------------------
(***************************************************************************)
(* The search for <thinking> and </thinking> in the text of an answer      *)
(* (anthropic/stream.rs), as operators on sequences of characters.  A tag  *)
(* is a constant sequence of characters: what the code depends on is that  *)
(* a tag may be cut between any two of them, how many characters are kept  *)
(* back for one that may still be growing, and which characters count as   *)
(* quotes.  The first and the last character of both tags do.              *)
(***************************************************************************)
EXTENDS Integers, SequencesExt

CONSTANTS
  OpenTag,     \* <thinking>
  CloseTag,    \* </thinking>
  Newline,
  Blanks,      \* white space, the newline included
  QuoteChars   \* QUOTE_CHARS

ASSUME TagAssumption ==
  /\ OpenTag \in Seq(ToSet(OpenTag)) /\ CloseTag \in Seq(ToSet(CloseTag))
  /\ Len(OpenTag) > 0
  /\ Len(CloseTag) > 0
  /\ Newline \in Blanks
  /\ Blanks \cap QuoteChars = {}
  /\ {OpenTag[1], OpenTag[Len(OpenTag)], CloseTag[1], CloseTag[Len(CloseTag)]}
        \subseteq QuoteChars

IsQuote(text, i) == i \in DOMAIN text /\ text[i] \in QuoteChars

After(tag, text, i) == SubSeq(text, i + Len(tag), Len(text))

(* Where `tag` stands with no quote on either side.                         *)
RealTags(tag, text) ==
  {i \in 1 .. Len(text) - Len(tag) + 1 :
     /\ SubSeq(text, i, i + Len(tag) - 1) = tag
     /\ ~IsQuote(text, i - 1)
     /\ ~IsQuote(text, i + Len(tag))}

IsBlank(text) == \A i \in DOMAIN text : text[i] \in Blanks

(* 0 stands for None.                                                       *)
First(positions) == IF positions = {} THEN 0 ELSE Min(positions)

StartTag(text) == First(RealTags(OpenTag, text))

(* A closing tag ends the thinking when two newlines follow...               *)
EndTag(text) ==
  First({i \in RealTags(CloseTag, text) :
           IsPrefix(<<Newline, Newline>>, After(CloseTag, text, i))})

(* ...or, at a tool call or at the end, when only white space does.          *)
EndTagAtBufferEnd(text) ==
  First({i \in RealTags(CloseTag, text) : IsBlank(After(CloseTag, text, i))})

TrimStart(text) ==
  LET kept == {i \in DOMAIN text : text[i] \notin Blanks}
  IN  IF kept = {} THEN <<>> ELSE SubSeq(text, Min(kept), Len(text))

(* A mutant: nothing is kept back.                                          *)
SafeLenAll(text, reserve) == Len(text)

(* How much of the buffer cannot belong to a tag that is still growing.      *)
SafeLen(text, reserve) == IF Len(text) > reserve THEN Len(text) - reserve ELSE 0

(* The same on a complete text, for an answer that is not streamed.          *)
ExtractComplete(text) ==
  LET start  == StartTag(text)
      before == SubSeq(text, 1, start - 1)
      inside == After(OpenTag, text, start)
      end    == EndTag(inside)
      last   == EndTagAtBufferEnd(inside)
      Found(i, tail) ==
        [thinking |-> IF i > 1 /\ inside[1] = Newline THEN SubSeq(inside, 2, i - 1)
                                                      ELSE SubSeq(inside, 1, i - 1),
         text     |-> (IF IsBlank(before) THEN <<>> ELSE before) \o tail]
  IN  CASE start # 0 /\ end # 0 ->
             Found(end, SubSeq(inside, end + Len(CloseTag) + 2, Len(inside)))
        [] start # 0 /\ end = 0 /\ last # 0 ->
             Found(last, TrimStart(After(CloseTag, inside, last)))
        [] OTHER -> [thinking |-> <<>>, text |-> text]
=============================================================================
