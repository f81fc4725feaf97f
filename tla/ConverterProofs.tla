-------------------------- MODULE ConverterProofs ---------------------------
(***************************************************************************)
(* Theorems about Converter, for any messages, options, names and ids.     *)
(*                                                                         *)
(*   HistoryIsFaithful  roles alternate, and merging loses nothing         *)
(*   PairingIsKept      every tool use sent has one answer                 *)
(*   ToolsAreDefined    every name sent is defined, short and reversible   *)
(*                                                                         *)
(* Each has an invariant of its own beside the types (Typed): Tracked says *)
(* that history and buffers together hold what was read so far, Shaped     *)
(* how they join, Paired what is paired once, Defined where names are from.*)
(***************************************************************************)
EXTENDS Converter, SequenceLemmas

-----------------------------------------------------------------------------
(* What some messages have, in a row.                                        *)
Rows(f, T, S) == \A i \in T : f[i] \in Seq(S)

LEMMA OverTypes ==
  ASSUME NEW S, NEW T, NEW f, Rows(f, T, S), NEW is \in Seq(T)
  PROVE  [k \in DOMAIN is |-> f[is[k]]] \in Seq(Seq(S)) /\ OverMessages(is, f) \in Seq(S)
<1>1. PICK n \in Nat : n = Len(is) /\ DOMAIN is = 1 .. n
  OBVIOUS
<1> DEFINE V == Seq(S)
<1>2. \A i \in T : f[i] \in V
  BY DEF Rows
<1> HIDE DEF V
<1>3. [k \in DOMAIN is |-> f[is[k]]] \in [1 .. n -> V]
  BY <1>1, <1>2
<1>4. [k \in DOMAIN is |-> f[is[k]]] \in Seq(V)
  BY <1>3, FunctionIsSeq
<1> QED BY <1>4, FlattenType DEF V, OverMessages

LEMMA OverNone == \A f : OverMessages(<<>>, f) = <<>>
<1> SUFFICES ASSUME NEW f PROVE OverMessages(<<>>, f) = <<>>
  OBVIOUS
<1>1. [k \in DOMAIN <<>> |-> f[<<>>[k]]] = <<>>
  OBVIOUS
<1> QED BY <1>1, FlattenEmpty DEF OverMessages

LEMMA OverOne ==
  ASSUME NEW S, NEW f, NEW i, f[i] \in Seq(S)
  PROVE  OverMessages(<<i>>, f) = f[i]
<1>1. [k \in DOMAIN <<i>> |-> f[<<i>>[k]]] = <<f[i]>>
  OBVIOUS
<1> QED BY <1>1, FlattenSingle DEF OverMessages

LEMMA OverAppend ==
  ASSUME NEW S, NEW T, NEW f, Rows(f, T, S), NEW is \in Seq(T), NEW i \in T
  PROVE  OverMessages(Append(is, i), f) = OverMessages(is, f) \o f[i]
<1> DEFINE V == Seq(S)
<1> DEFINE r == [k \in DOMAIN is |-> f[is[k]]]
<1> DEFINE t == [k \in DOMAIN Append(is, i) |-> f[Append(is, i)[k]]]
<1>1. \A k \in T : f[k] \in V
  BY DEF Rows
<1>2. r \in Seq(V) /\ t \in Seq(V)
  <2>1. Append(is, i) \in Seq(T)
    OBVIOUS
  <2> QED BY <2>1, OverTypes
<1> HIDE DEF V
<1>3. t = Append(r, f[i])
  <2>1. /\ Len(Append(is, i)) = Len(is) + 1 /\ Len(is) \in Nat /\ DOMAIN is = 1 .. Len(is)
        /\ DOMAIN Append(is, i) = 1 .. Len(is) + 1
        /\ Append(is, i)[Len(is) + 1] = i
        /\ \A k \in 1 .. Len(is) : Append(is, i)[k] = is[k]
    OBVIOUS
  <2>2. Len(r) = Len(is) /\ DOMAIN r = 1 .. Len(is) /\ \A k \in 1 .. Len(is) : r[k] = f[is[k]]
    BY <1>2, <2>1
  <2>3. Len(t) = Len(is) + 1 /\ \A k \in 1 .. Len(is) + 1 : t[k] = f[Append(is, i)[k]]
    BY <1>2, <2>1
  <2> HIDE DEF r, t
  <2>4. \A k \in 1 .. Len(r) : t[k] = r[k]
    BY <2>1, <2>2, <2>3
  <2>5. t[Len(r) + 1] = f[i]
    BY <2>1, <2>2, <2>3
  <2>6. Len(t) = Len(r) + 1
    BY <2>2, <2>3
  <2>7. \A k \in 1 .. Len(r) + 1 : k \in 1 .. Len(r) \/ k = Len(r) + 1
    BY <2>2, <2>1
  <2> QED BY <1>1, <1>2, <2>4, <2>5, <2>6, <2>7
<1>4. FlattenSeq(Append(r, f[i])) = FlattenSeq(r) \o f[i]
  <2> HIDE DEF r
  <2> QED BY <1>1, <1>2, FlattenAppend DEF V
<1> QED BY <1>3, <1>4 DEF OverMessages
-----------------------------------------------------------------------------
(* Types.                                                                    *)
Kinds   == {"words", "blank", "thinking", "image", "space", "system", "promise", "ok"}
Pieces  == Nat \X Kinds
Entries == [role : {"user", "assistant"}, content : Seq(Pieces), images : Seq(Pieces),
            results : Seq(Ids), uses : Seq(Uses)]

LEMMA PieceType ==
  ASSUME NEW S, NEW i \in S, NEW kind \in Kinds
  PROVE  Piece(i, kind) \in Seq(S \X Kinds)
BY DEF Piece

LEMMA SpaceType == Space \in Seq({0} \X Kinds) /\ Space \in Seq(Pieces)
<1>1. 0 \in {0} /\ 0 \in Nat /\ "space" \in Kinds
  BY DEF Kinds
<1> QED BY <1>1, PieceType DEF Space, Pieces

LEMMA MapNameType ==
  ASSUME NEW n \in Names
  PROVE  MapName(n) \in Names
BY ConverterAssumption DEF MapName

LEMMA OneOfMessages ==
  ASSUME messages \in Seq(Message), NEW i \in DOMAIN messages
  PROVE  /\ i \in Nat /\ messages[i] \in Message
         /\ messages[i].results \in Seq(Ids) /\ messages[i].uses \in Seq(Uses)
         /\ messages[i].text \in {"none", "blank", "words"}
         /\ messages[i].image \in BOOLEAN /\ messages[i].thinking \in BOOLEAN
<1>1. messages[i] \in Message /\ i \in Nat
  OBVIOUS
<1> QED BY <1>1 DEF Message

LEMMA TextType ==
  ASSUME messages \in Seq(Message), NEW S, NEW i \in DOMAIN messages, i \in S
  PROVE  TextOf[i] \in Seq(S \X Kinds)
<1>1. TextOf[i] = IF messages[i].text = "none" THEN <<>> ELSE Piece(i, messages[i].text)
  BY DEF TextOf
<1>2. messages[i].text = "none" \/ messages[i].text \in Kinds
  BY OneOfMessages DEF Kinds
<1>3. messages[i].text \in Kinds => Piece(i, messages[i].text) \in Seq(S \X Kinds)
  BY PieceType
<1>4. <<>> \in Seq(S \X Kinds)
  OBVIOUS
<1> QED BY <1>1, <1>2, <1>3, <1>4

LEMMA ImagesType ==
  ASSUME messages \in Seq(Message), NEW i \in DOMAIN messages
  PROVE  ImagesOf[i] \in Seq(Pieces)
<1>1. ImagesOf[i] = IF messages[i].image THEN Piece(i, "image") ELSE <<>>
  BY DEF ImagesOf
<1>2. i \in Nat /\ "image" \in Kinds
  BY OneOfMessages DEF Kinds
<1>3. Piece(i, "image") \in Seq(Pieces)
  BY <1>2, PieceType DEF Pieces
<1>4. <<>> \in Seq(Pieces)
  OBVIOUS
<1> QED BY <1>1, <1>3, <1>4

LEMMA ResultsType ==
  ASSUME messages \in Seq(Message), NEW i \in DOMAIN messages
  PROVE  ResultsOf[i] \in Seq(Ids)
BY OneOfMessages DEF ResultsOf

LEMMA UsesType ==
  ASSUME messages \in Seq(Message), NEW i \in DOMAIN messages
  PROVE  UsesOf[i] \in Seq(Uses)
<1> DEFINE s == messages[i].uses
<1>1. s \in Seq(Uses)
  BY OneOfMessages
<1>2. UsesOf[i] = [k \in DOMAIN s |-> [id |-> s[k].id, name |-> MapName(s[k].name)]]
  BY DEF UsesOf
<1> HIDE DEF s
<1>3. PICK n \in Nat : n = Len(s) /\ DOMAIN s = 1 .. n
  BY <1>1
<1>4. \A k \in 1 .. n : [id |-> s[k].id, name |-> MapName(s[k].name)] \in Uses
  <2> TAKE k \in 1 .. n
  <2>1. s[k] \in Uses
    BY <1>1, <1>3
  <2>2. s[k].id \in Ids /\ s[k].name \in Names
    BY <2>1 DEF Uses
  <2>3. MapName(s[k].name) \in Names
    BY <2>2, MapNameType
  <2> QED BY <2>2, <2>3 DEF Uses
<1>5. UsesOf[i] \in [1 .. n -> Uses]
  BY <1>2, <1>3, <1>4
<1> QED BY <1>5, FunctionIsSeq

LEMMA ContentType ==
  ASSUME messages \in Seq(Message), NEW S, NEW i \in DOMAIN messages, i \in S, 0 \in S
  PROVE  ContentOf[i] \in Seq(S \X Kinds) /\ WordsOf[i] \in Seq(S \X Kinds)
<1>1. ContentOf[i] = CASE messages[i].thinking -> Piece(i, "thinking") \o TextOf[i]
                       [] ~messages[i].thinking /\ TextOf[i] = <<>> /\ UsesOf[i] # <<>> -> Space
                       [] OTHER -> TextOf[i]
  BY DEF ContentOf
<1>2. TextOf[i] \in Seq(S \X Kinds)
  BY TextType
<1>3. Piece(i, "thinking") \in Seq(S \X Kinds) /\ Space \in Seq(S \X Kinds)
  <2>1. "thinking" \in Kinds /\ "space" \in Kinds
    BY DEF Kinds
  <2> QED BY <2>1, PieceType DEF Space
<1>4. Piece(i, "thinking") \o TextOf[i] \in Seq(S \X Kinds)
  BY <1>2, <1>3, ConcatProperties
<1>5. ContentOf[i] \in Seq(S \X Kinds)
  BY <1>1, <1>2, <1>3, <1>4
<1>6. WordsOf[i] = IF Blank(ContentOf[i]) THEN <<>> ELSE ContentOf[i]
  BY DEF WordsOf
<1>7. <<>> \in Seq(S \X Kinds)
  OBVIOUS
<1> QED BY <1>5, <1>6, <1>7

Roles == {"user", "assistant"}
Indices(role) == Seq(By(role))

LEMMA IndexTypes ==
  ASSUME NEW role
  PROVE  By(role) \subseteq DOMAIN messages
BY DEF By

LEMMA UserTypes ==
  ASSUME messages \in Seq(Message), NEW is \in Seq(By("user"))
  PROVE  /\ MergeUsers(is) \in Entries
         /\ OverMessages(is, TextOf) \in Seq(By("user") \X Kinds)
         /\ OverMessages(is, TextOf) \in Seq(Pieces)
         /\ OverMessages(is, ImagesOf) \in Seq(Pieces) /\ OverMessages(is, ResultsOf) \in Seq(Ids)
<1>1. \A i \in By("user") : i \in DOMAIN messages /\ i \in Nat
  BY OneOfMessages DEF By
<1>2. OverMessages(is, TextOf) \in Seq(By("user") \X Kinds)
  <2>1. Rows(TextOf, By("user"), By("user") \X Kinds)
    BY <1>1, TextType DEF Rows
  <2> QED BY <2>1, OverTypes
<1>3. OverMessages(is, TextOf) \in Seq(Pieces)
  <2>1. Rows(TextOf, By("user"), Pieces)
    BY <1>1, TextType DEF Pieces, Rows
  <2> QED BY <2>1, OverTypes
<1>4. OverMessages(is, ImagesOf) \in Seq(Pieces)
  <2>1. Rows(ImagesOf, By("user"), Pieces)
    BY <1>1, ImagesType DEF Rows
  <2> QED BY <2>1, OverTypes
<1>5. OverMessages(is, ResultsOf) \in Seq(Ids)
  <2>1. Rows(ResultsOf, By("user"), Ids)
    BY <1>1, ResultsType DEF Rows
  <2> QED BY <2>1, OverTypes
<1>6. <<>> \in Seq(Uses)
  OBVIOUS
<1>7. MergeUsers(is) \in Entries
  BY <1>3, <1>4, <1>5, <1>6 DEF MergeUsers, UserEntry, Entries
<1> QED BY <1>2, <1>3, <1>4, <1>5, <1>7

Said(is) == IF Len(is) = 1 THEN ContentOf[is[1]]
            ELSE IF Len(is) > 1 /\ OverMessages(is, WordsOf) = <<>> /\ OverMessages(is, UsesOf) # <<>>
            THEN Space ELSE OverMessages(is, WordsOf)

LEMMA AboveOne == \A n \in Nat : n > 1 => n # 1
OBVIOUS

LEMMA AssistantTypes ==
  ASSUME messages \in Seq(Message), NEW is \in Seq(By("assistant"))
  PROVE  /\ MergeAssistants(is) \in Entries
         /\ MergeAssistants(is) = AssistantEntry(Said(is), OverMessages(is, UsesOf))
         /\ Said(is) \in Seq((By("assistant") \cup {0}) \X Kinds)
         /\ OverMessages(is, ContentOf) \in Seq((By("assistant") \cup {0}) \X Kinds)
         /\ OverMessages(is, ContentOf) \in Seq(Pieces)
         /\ OverMessages(is, UsesOf) \in Seq(Uses)
<1> DEFINE A == By("assistant")
<1> DEFINE N == A \cup {0}
<1>1. \A i \in A : i \in DOMAIN messages /\ i \in Nat /\ i \in N
  BY OneOfMessages DEF By
<1>0. 0 \in N
  OBVIOUS
<1> HIDE DEF A, N
<1>a. is \in Seq(A)
  BY DEF A
<1>2. \A i \in A : ContentOf[i] \in Seq(N \X Kinds) /\ WordsOf[i] \in Seq(N \X Kinds)
  BY <1>0, <1>1, ContentType
<1>3. \A i \in A : ContentOf[i] \in Seq(Pieces) /\ WordsOf[i] \in Seq(Pieces)
  BY <1>1, ContentType DEF Pieces
<1>4. OverMessages(is, ContentOf) \in Seq(N \X Kinds) /\ OverMessages(is, WordsOf) \in Seq(N \X Kinds)
  <2>1. Rows(ContentOf, A, N \X Kinds) /\ Rows(WordsOf, A, N \X Kinds)
    BY <1>2 DEF Rows
  <2> QED BY <1>a, <2>1, OverTypes
<1>5. OverMessages(is, ContentOf) \in Seq(Pieces) /\ OverMessages(is, WordsOf) \in Seq(Pieces)
  <2>1. Rows(ContentOf, A, Pieces) /\ Rows(WordsOf, A, Pieces)
    BY <1>3 DEF Rows
  <2> QED BY <1>a, <2>1, OverTypes
<1>6. OverMessages(is, UsesOf) \in Seq(Uses)
  <2>1. Rows(UsesOf, A, Uses)
    BY <1>1, UsesType DEF Rows
  <2> QED BY <1>a, <2>1, OverTypes
<1>7. Len(is) \in Nat /\ (Len(is) = 1 => is[1] \in A)
  <2>1. \A k \in 1 .. Len(is) : is[k] \in A
    BY <1>a
  <2>2. Len(is) \in Nat
    BY <1>a
  <2> QED BY <2>1, <2>2
<1>8. Space \in Seq(N \X Kinds) /\ Space \in Seq(Pieces)
  <2>1. "space" \in Kinds
    BY DEF Kinds
  <2> QED BY <2>1, <1>0, PieceType, SpaceType DEF Space
<1>9. Said(is) \in Seq(N \X Kinds) /\ Said(is) \in Seq(Pieces)
  BY <1>2, <1>3, <1>4, <1>5, <1>7, <1>8 DEF Said
<1>10. MergeAssistants(is) = AssistantEntry(Said(is), OverMessages(is, UsesOf))
  <2> DEFINE uses == OverMessages(is, UsesOf)
  <2> DEFINE words == OverMessages(is, WordsOf)
  <2> DEFINE one == ContentOf[is[1]]
  <2>1. MergeAssistants(is) = AssistantEntry(CASE Len(is) = 1 -> one
          [] Len(is) > 1 /\ words = <<>> /\ uses # <<>> -> Space
          [] OTHER -> words, uses)
    BY DEF MergeAssistants
  <2>2. Said(is) = IF Len(is) = 1 THEN one
                   ELSE IF Len(is) > 1 /\ words = <<>> /\ uses # <<>> THEN Space ELSE words
    BY DEF Said
  <2> HIDE DEF uses, words, one
  <2>3. (CASE Len(is) = 1 -> one
          [] Len(is) > 1 /\ words = <<>> /\ uses # <<>> -> Space
          [] OTHER -> words) = Said(is)
    <3>1. CASE Len(is) = 1
      BY <3>1, <2>2
    <3>2. CASE Len(is) > 1 /\ words = <<>> /\ uses # <<>>
      <4>1. Len(is) # 1
        BY <3>2, <1>7, AboveOne, Zenon
      <4> QED BY <3>2, <4>1, <2>2
    <3>3. CASE Len(is) # 1 /\ ~(Len(is) > 1 /\ words = <<>> /\ uses # <<>>)
      BY <3>3, <2>2
    <3> QED BY <3>1, <3>2, <3>3
  <2>4. MergeAssistants(is) = AssistantEntry(Said(is), uses)
    BY <2>1, <2>3
  <2> QED BY <2>4 DEF uses
<1>11. AssistantEntry(Said(is), OverMessages(is, UsesOf)) \in Entries
  <2>1. <<>> \in Seq(Pieces) /\ <<>> \in Seq(Ids)
    OBVIOUS
  <2> QED BY <2>1, <1>6, <1>9 DEF AssistantEntry, Entries
<1> QED BY <1>4, <1>5, <1>6, <1>9, <1>10, <1>11 DEF A, N
-----------------------------------------------------------------------------
(* What the messages of a history have, in a row.                            *)
ContentIn(h) == FlattenSeq([k \in DOMAIN h |-> h[k].content])
ImagesIn(h)  == FlattenSeq([k \in DOMAIN h |-> h[k].images])
ResultsIn(h) == FlattenSeq([k \in DOMAIN h |-> h[k].results])
UsesIn(h)    == FlattenSeq([k \in DOMAIN h |-> h[k].uses])

LEMMA InHistory ==
  /\ HistoryContent = ContentIn(history) /\ HistoryImages = ImagesIn(history)
  /\ HistoryResults = ResultsIn(history) /\ HistoryUses = UsesIn(history)
BY DEF HistoryContent, HistoryImages, HistoryResults, HistoryUses,
       ContentIn, ImagesIn, ResultsIn, UsesIn

\* A row of what a function has for each entry.
Row(h, f) == [k \in DOMAIN h |-> f[h[k]]]
RowAppended(h, e, f, S) ==
  /\ Row(h, f) \in Seq(Seq(S))
  /\ FlattenSeq(Row(h, f)) \in Seq(S)
  /\ FlattenSeq(Row(h \o <<e>>, f)) = FlattenSeq(Row(h, f)) \o f[e]

LEMMA RowAppend ==
  ASSUME NEW E, NEW S, NEW f \in [E -> Seq(S)], NEW h \in Seq(E), NEW e \in E
  PROVE  RowAppended(h, e, f, S)
<1>1. Rows(f, E, S)
  BY DEF Rows
<1>2. h \o <<e>> = Append(h, e)
  BY AppendIsConcat
<1>3. Row(h, f) \in Seq(Seq(S)) /\ OverMessages(h, f) \in Seq(S)
  BY <1>1, OverTypes DEF Row
<1>4. OverMessages(Append(h, e), f) = OverMessages(h, f) \o f[e]
  BY <1>1, OverAppend
<1> QED BY <1>2, <1>3, <1>4 DEF OverMessages, Row, RowAppended

Extends(h, g, content, images, answers, uses) ==
  /\ g \in Seq(Entries)
  /\ ContentIn(g) = ContentIn(h) \o content /\ ImagesIn(g) = ImagesIn(h) \o images
  /\ ResultsIn(g) = ResultsIn(h) \o answers /\ UsesIn(g) = UsesIn(h) \o uses

InTypes(h) ==
  /\ ContentIn(h) \in Seq(Pieces) /\ ImagesIn(h) \in Seq(Pieces)
  /\ ResultsIn(h) \in Seq(Ids) /\ UsesIn(h) \in Seq(Uses)

LEMMA EntryAppended ==
  ASSUME NEW h \in Seq(Entries), NEW e \in Entries
  PROVE  InTypes(h) /\ Extends(h, h \o <<e>>, e.content, e.images, e.results, e.uses)
<1> DEFINE c == [x \in Entries |-> x.content]
<1> DEFINE m == [x \in Entries |-> x.images]
<1> DEFINE a == [x \in Entries |-> x.results]
<1> DEFINE u == [x \in Entries |-> x.uses]
<1>1. \A x \in Entries : /\ x.content \in Seq(Pieces) /\ x.images \in Seq(Pieces)
                         /\ x.results \in Seq(Ids) /\ x.uses \in Seq(Uses)
  BY DEF Entries
<1>2. h \o <<e>> \in Seq(Entries)
  OBVIOUS
<1>3. \A g \in Seq(Entries) : \A k \in DOMAIN g : g[k] \in Entries
  OBVIOUS
<1>4. \A g \in Seq(Entries) :
        /\ Row(g, c) = [k \in DOMAIN g |-> g[k].content]
        /\ Row(g, m) = [k \in DOMAIN g |-> g[k].images]
        /\ Row(g, a) = [k \in DOMAIN g |-> g[k].results]
        /\ Row(g, u) = [k \in DOMAIN g |-> g[k].uses]
  BY <1>3 DEF Row
<1>5. c[e] = e.content /\ m[e] = e.images /\ a[e] = e.results /\ u[e] = e.uses
  OBVIOUS
<1>6. c \in [Entries -> Seq(Pieces)] /\ m \in [Entries -> Seq(Pieces)]
      /\ a \in [Entries -> Seq(Ids)] /\ u \in [Entries -> Seq(Uses)]
  BY <1>1
<1> HIDE DEF c, m, a, u
<1>7. RowAppended(h, e, c, Pieces) /\ RowAppended(h, e, m, Pieces)
      /\ RowAppended(h, e, a, Ids) /\ RowAppended(h, e, u, Uses)
  BY <1>6, RowAppend
<1>8. \A g \in Seq(Entries) :
        /\ ContentIn(g) = FlattenSeq(Row(g, c)) /\ ImagesIn(g) = FlattenSeq(Row(g, m))
        /\ ResultsIn(g) = FlattenSeq(Row(g, a)) /\ UsesIn(g) = FlattenSeq(Row(g, u))
  BY <1>4 DEF ContentIn, ImagesIn, ResultsIn, UsesIn
<1>9. InTypes(h)
  BY <1>7, <1>8 DEF InTypes, RowAppended
<1>10. /\ ContentIn(h \o <<e>>) = ContentIn(h) \o e.content
       /\ ImagesIn(h \o <<e>>) = ImagesIn(h) \o e.images
       /\ ResultsIn(h \o <<e>>) = ResultsIn(h) \o e.results
       /\ UsesIn(h \o <<e>>) = UsesIn(h) \o e.uses
  BY <1>2, <1>5, <1>7, <1>8 DEF RowAppended
<1> QED BY <1>2, <1>9, <1>10 DEF Extends

LEMMA EntryTypes ==
  ASSUME NEW h \in Seq(Entries)
  PROVE  InTypes(h)
<1> DEFINE e == AssistantEntry(<<>>, <<>>)
<1>1. e \in Entries
  <2>1. <<>> \in Seq(Pieces) /\ <<>> \in Seq(Ids) /\ <<>> \in Seq(Uses)
    OBVIOUS
  <2> QED BY <2>1 DEF AssistantEntry, Entries
<1> QED BY <1>1, EntryAppended

LEMMA NothingIn == ContentIn(<<>>) = <<>> /\ ImagesIn(<<>>) = <<>> /\ ResultsIn(<<>>) = <<>> /\ UsesIn(<<>>) = <<>>
<1>1. /\ [k \in DOMAIN <<>> |-> <<>>[k].content] = <<>> /\ [k \in DOMAIN <<>> |-> <<>>[k].images] = <<>>
      /\ [k \in DOMAIN <<>> |-> <<>>[k].results] = <<>> /\ [k \in DOMAIN <<>> |-> <<>>[k].uses] = <<>>
  OBVIOUS
<1> QED BY <1>1, FlattenEmpty DEF ContentIn, ImagesIn, ResultsIn, UsesIn

-----------------------------------------------------------------------------
(* What a role has said, in a row of pieces.                                 *)
Heard(c, role) == Within(c, Spoken(role))

LEMMA HeardConcat ==
  ASSUME NEW a \in Seq(Pieces), NEW b \in Seq(Pieces), NEW role
  PROVE  Heard(a \o b, role) = Heard(a, role) \o Heard(b, role) /\ Heard(a, role) \in Seq(Pieces)
<1>1. Within(a \o b, Spoken(role)) = Within(a, Spoken(role)) \o Within(b, Spoken(role))
  BY WithinConcat
<1>2. Within(a, Spoken(role)) \in Seq(Pieces)
  BY WithinType
<1> QED BY <1>1, <1>2 DEF Heard

LEMMA HeardNothing ==
  ASSUME NEW S, NEW role, NEW c \in Seq(S \X Kinds), S \cap By(role) = {}
  PROVE  Heard(c, role) = <<>>
<1>1. \A i \in DOMAIN c : c[i] \in S \X Kinds
  OBVIOUS
<1>2. \A i \in DOMAIN c : c[i] \notin Spoken(role)
  BY <1>1 DEF Spoken
<1> QED BY <1>2, WithinNone DEF Heard

LEMMA RolesApart ==
  /\ By("user") \cap By("assistant") = {}
  /\ messages \in Seq(Message) => 0 \notin By("user") /\ 0 \notin By("assistant")
<1>1. "user" # "assistant"
  OBVIOUS
<1>2. messages \in Seq(Message) => 0 \notin DOMAIN messages
  OBVIOUS
<1> QED BY <1>1, <1>2 DEF By

LEMMA SameWords ==
  ASSUME messages \in Seq(Message), NEW is \in Seq(By("assistant"))
  PROVE  /\ Heard(OverMessages(is, WordsOf), "assistant") = Heard(OverMessages(is, ContentOf), "assistant")
         /\ Heard(Said(is), "assistant") = Heard(OverMessages(is, ContentOf), "assistant")
<1> DEFINE A == By("assistant")
<1> DEFINE W(r) == Heard(OverMessages(r, WordsOf), "assistant")
<1> DEFINE C(r) == Heard(OverMessages(r, ContentOf), "assistant")
<1>1. \A i \in A : ContentOf[i] \in Seq(Pieces) /\ WordsOf[i] \in Seq(Pieces)
  <2> TAKE i \in A
  <2>1. i \in DOMAIN messages
    BY DEF By
  <2>2. i \in Nat
    BY <2>1, OneOfMessages
  <2> QED BY <2>1, <2>2, ContentType DEF Pieces
<1>2. \A i \in A : Heard(WordsOf[i], "assistant") = Heard(ContentOf[i], "assistant")
  <2> TAKE i \in A
  <2>1. i \in DOMAIN messages
    BY DEF By
  <2>2. WordsOf[i] = IF Blank(ContentOf[i]) THEN <<>> ELSE ContentOf[i]
    BY <2>1 DEF WordsOf
  <2>3. ASSUME Blank(ContentOf[i]) PROVE Heard(ContentOf[i], "assistant") = <<>>
    <3>1. PICK c \in Seq(Pieces) : c = ContentOf[i]
      BY <1>1
    <3>2. \A k \in DOMAIN c : c[k][2] \in {"blank", "space"}
      BY <2>3, <3>1 DEF Blank
    <3>3. \A k \in DOMAIN c : c[k] \notin Spoken("assistant")
      <4> SUFFICES ASSUME NEW k \in DOMAIN c, c[k] \in Spoken("assistant") PROVE FALSE
        OBVIOUS
      <4>1. c[k][2] \in {"words", "thinking"}
        BY DEF Spoken
      <4> QED BY <4>1, <3>2
    <3>4. Within(c, Spoken("assistant")) = <<>>
      BY <3>3, WithinNone
    <3> QED BY <3>1, <3>4 DEF Heard
  <2>4. Heard(<<>>, "assistant") = <<>>
    BY WithinEmpty DEF Heard
  <2> QED BY <2>2, <2>3, <2>4
<1> HIDE DEF A
<1> DEFINE P == {r \in Seq(A) : W(r) = C(r)}
<1>3. <<>> \in P
  <2>1. <<>> \in Seq(A)
    OBVIOUS
  <2> QED BY <2>1, OverNone
<1>4. ASSUME NEW r \in Seq(A), NEW i \in A, r \in P PROVE Append(r, i) \in P
  <2>1. W(r) = C(r)
    BY <1>4
  <2>a. Rows(WordsOf, A, Pieces) /\ Rows(ContentOf, A, Pieces)
    BY <1>1 DEF Rows
  <2>2. OverMessages(r, WordsOf) \in Seq(Pieces) /\ OverMessages(r, ContentOf) \in Seq(Pieces)
    BY <2>a, OverTypes
  <2>3. OverMessages(Append(r, i), WordsOf) = OverMessages(r, WordsOf) \o WordsOf[i]
    BY <2>a, OverAppend
  <2>4. OverMessages(Append(r, i), ContentOf) = OverMessages(r, ContentOf) \o ContentOf[i]
    BY <2>a, OverAppend
  <2>5. WordsOf[i] \in Seq(Pieces) /\ ContentOf[i] \in Seq(Pieces)
    BY <1>1
  <2>6. W(Append(r, i)) = W(r) \o Heard(WordsOf[i], "assistant")
    <3>1. Heard(OverMessages(r, WordsOf) \o WordsOf[i], "assistant")
            = Heard(OverMessages(r, WordsOf), "assistant") \o Heard(WordsOf[i], "assistant")
      <4>1. PICK a, b : a = OverMessages(r, WordsOf) /\ b = WordsOf[i]
        OBVIOUS
      <4>2. a \in Seq(Pieces) /\ b \in Seq(Pieces)
        BY <2>2, <2>5, <4>1
      <4>3. Heard(a \o b, "assistant") = Heard(a, "assistant") \o Heard(b, "assistant")
        BY <4>2, HeardConcat
      <4> QED BY <4>1, <4>3
    <3> QED BY <2>3, <3>1
  <2>7. C(Append(r, i)) = C(r) \o Heard(ContentOf[i], "assistant")
    <3>1. Heard(OverMessages(r, ContentOf) \o ContentOf[i], "assistant")
            = Heard(OverMessages(r, ContentOf), "assistant") \o Heard(ContentOf[i], "assistant")
      <4>1. PICK a, b : a = OverMessages(r, ContentOf) /\ b = ContentOf[i]
        OBVIOUS
      <4>2. a \in Seq(Pieces) /\ b \in Seq(Pieces)
        BY <2>2, <2>5, <4>1
      <4>3. Heard(a \o b, "assistant") = Heard(a, "assistant") \o Heard(b, "assistant")
        BY <4>2, HeardConcat
      <4> QED BY <4>1, <4>3
    <3> QED BY <2>4, <3>1
  <2>8. Append(r, i) \in Seq(A)
    OBVIOUS
  <2> HIDE DEF W, C
  <2> QED BY <1>2, <2>1, <2>6, <2>7, <2>8
<1> HIDE DEF P
<1>5. Seq(A) \subseteq P
  BY <1>3, <1>4, SeqInduction
<1>6. W(is) = C(is)
  BY <1>5 DEF P, A
<1>7. Heard(Said(is), "assistant") = C(is)
  <2>1. CASE Len(is) = 1
    <3>1. is = <<is[1]>> /\ is[1] \in A
      BY <2>1 DEF A
    <3>2. OverMessages(<<is[1]>>, ContentOf) = ContentOf[is[1]]
      <4>1. PICK i : i = is[1]
        OBVIOUS
      <4>2. ContentOf[i] \in Seq(Pieces)
        BY <3>1, <4>1, <1>1
      <4>3. OverMessages(<<i>>, ContentOf) = ContentOf[i]
        BY <4>2, OverOne
      <4> QED BY <4>1, <4>3
    <3> QED BY <2>1, <3>1, <3>2 DEF Said
  <2>2. CASE Len(is) # 1 /\ OverMessages(is, WordsOf) = <<>>
    <3>1. Heard(<<>>, "assistant") = <<>>
      BY WithinEmpty DEF Heard
    <3>2. Heard(Space, "assistant") = <<>>
      <4>1. {0} \cap By("assistant") = {}
        BY RolesApart
      <4> QED BY <4>1, SpaceType, HeardNothing
    <3>3. Said(is) = Space \/ Said(is) = <<>>
      BY <2>2 DEF Said
    <3>4. Heard(Said(is), "assistant") = W(is)
      BY <2>2, <3>1, <3>2, <3>3
    <3> HIDE DEF W, C
    <3> QED BY <1>6, <3>4
  <2>3. CASE Len(is) # 1 /\ OverMessages(is, WordsOf) # <<>>
    <3>1. Said(is) = OverMessages(is, WordsOf)
      BY <2>3 DEF Said
    <3> QED BY <1>6, <3>1
  <2> QED BY <2>1, <2>2, <2>3
<1> QED BY <1>6, <1>7
-----------------------------------------------------------------------------
(* What has been said so far, on either side: in the history and in a buffer. *)
View == [users |-> By("user"), assistants |-> By("assistant"), text |-> TextOf, images |-> ImagesOf,
         answers |-> ResultsOf, content |-> ContentOf, uses |-> UsesOf]

Voice(c, X) == Within(c, X \X {"words", "thinking"})

UserSide(h, is, v) ==
  << Voice(ContentIn(h), v.users) \o Voice(OverMessages(is, v.text), v.users),
     ImagesIn(h) \o OverMessages(is, v.images), ResultsIn(h) \o OverMessages(is, v.answers) >>
AssistantSide(h, is, v) ==
  << Voice(ContentIn(h), v.assistants) \o Voice(OverMessages(is, v.content), v.assistants),
     UsesIn(h) \o OverMessages(is, v.uses) >>

Viewed(v) ==
  /\ v.users \subseteq Nat /\ v.assistants \subseteq Nat
  /\ Rows(v.text, v.users, Pieces) /\ Rows(v.images, v.users, Pieces) /\ Rows(v.answers, v.users, Ids)
  /\ Rows(v.content, v.assistants, Pieces) /\ Rows(v.uses, v.assistants, Uses)

LEMMA ViewFacts ==
  ASSUME messages \in Seq(Message)
  PROVE  /\ View.users = By("user") /\ View.assistants = By("assistant") /\ View.text = TextOf
         /\ View.images = ImagesOf /\ View.answers = ResultsOf /\ View.content = ContentOf
         /\ View.uses = UsesOf
         /\ \A c : Heard(c, "user") = Voice(c, View.users) /\ Heard(c, "assistant") = Voice(c, View.assistants)
         /\ Viewed(View)
<1>1. /\ View.users = By("user") /\ View.assistants = By("assistant") /\ View.text = TextOf
      /\ View.images = ImagesOf /\ View.answers = ResultsOf /\ View.content = ContentOf
      /\ View.uses = UsesOf
  BY DEF View
<1>2. \A c : Heard(c, "user") = Voice(c, View.users) /\ Heard(c, "assistant") = Voice(c, View.assistants)
  BY <1>1 DEF Heard, Voice, Spoken
<1>3. \A role : \A i \in By(role) : i \in DOMAIN messages /\ i \in Nat
  BY OneOfMessages DEF By
<1>4. By("user") \subseteq Nat /\ By("assistant") \subseteq Nat
  BY <1>3
<1>5. Rows(TextOf, By("user"), Pieces)
  BY <1>3, TextType DEF Pieces, Rows
<1>6. Rows(ImagesOf, By("user"), Pieces) /\ Rows(ResultsOf, By("user"), Ids)
  BY <1>3, ImagesType, ResultsType DEF Rows
<1>7. Rows(ContentOf, By("assistant"), Pieces)
  BY <1>3, ContentType DEF Pieces, Rows
<1>8. Rows(UsesOf, By("assistant"), Uses)
  BY <1>3, UsesType DEF Rows
<1>9. Viewed(View)
  BY <1>1, <1>4, <1>5, <1>6, <1>7, <1>8 DEF Viewed
<1> QED BY <1>1, <1>2, <1>9

LEMMA VoiceFacts ==
  ASSUME NEW X
  PROVE  /\ Voice(<<>>, X) = <<>>
         /\ \A a \in Seq(Pieces) : Voice(a, X) \in Seq(Pieces)
<1>1. Voice(<<>>, X) = <<>>
  BY WithinEmpty DEF Voice
<1>2. ASSUME NEW a \in Seq(Pieces) PROVE Voice(a, X) \in Seq(Pieces)
  BY WithinType DEF Voice
<1> QED BY <1>1, <1>2

LEMMA VoiceConcat ==
  ASSUME NEW X, NEW a \in Seq(Pieces), NEW b \in Seq(Pieces)
  PROVE  Voice(a \o b, X) = Voice(a, X) \o Voice(b, X)
BY WithinConcat DEF Voice

Gives(f, i, x) == x = f[i]
RowGrows(f, a, is, i, x) == a \o OverMessages(Append(is, i), f) = (a \o OverMessages(is, f)) \o x
VoiceGrows(T, f, a, is, i, x) ==
  a \o Voice(OverMessages(Append(is, i), f), T) = (a \o Voice(OverMessages(is, f), T)) \o Voice(x, T)

LEMMA RowMore ==
  ASSUME NEW S, NEW T, NEW f, Rows(f, T, S), NEW a \in Seq(S), NEW is \in Seq(T), NEW i \in T,
         NEW x, Gives(f, i, x)
  PROVE  RowGrows(f, a, is, i, x)
<1>1. OverMessages(Append(is, i), f) = OverMessages(is, f) \o x
  BY OverAppend DEF Gives
<1>2. OverMessages(is, f) \in Seq(S)
  BY OverTypes
<1>3. x \in Seq(S)
  BY DEF Rows, Gives
<1>4. (a \o OverMessages(is, f)) \o x = a \o (OverMessages(is, f) \o x)
  <2>1. PICK b \in Seq(S) : b = OverMessages(is, f)
    BY <1>2
  <2>2. (a \o b) \o x = a \o (b \o x)
    BY <1>3, <2>1, Associate, SMTT(30)
  <2> QED BY <2>1, <2>2
<1> QED BY <1>1, <1>4 DEF RowGrows

LEMMA VoiceMore ==
  ASSUME NEW T, NEW f, Rows(f, T, Pieces), NEW a \in Seq(Pieces), NEW is \in Seq(T), NEW i \in T,
         NEW x, Gives(f, i, x)
  PROVE  VoiceGrows(T, f, a, is, i, x)
<1>1. OverMessages(Append(is, i), f) = OverMessages(is, f) \o x
  BY OverAppend DEF Gives
<1>2. OverMessages(is, f) \in Seq(Pieces)
  BY OverTypes
<1>3. x \in Seq(Pieces)
  BY DEF Rows, Gives
<1>4. Voice(OverMessages(is, f) \o x, T) = Voice(OverMessages(is, f), T) \o Voice(x, T)
  BY <1>2, <1>3, VoiceConcat
<1>5. Voice(OverMessages(is, f), T) \in Seq(Pieces) /\ Voice(x, T) \in Seq(Pieces)
  BY <1>2, <1>3, VoiceFacts
<1>6. (a \o Voice(OverMessages(is, f), T)) \o Voice(x, T) = a \o (Voice(OverMessages(is, f), T) \o Voice(x, T))
  <2>1. PICK b \in Seq(Pieces), c \in Seq(Pieces) : b = Voice(OverMessages(is, f), T) /\ c = Voice(x, T)
    BY <1>5
  <2>2. (a \o b) \o c = a \o (b \o c)
    BY Associate, SMTT(30)
  <2> QED BY <2>1, <2>2
<1> QED BY <1>1, <1>4, <1>6 DEF VoiceGrows

\* What one message more adds to a side.
LEMMA UserMore ==
  ASSUME NEW v, Viewed(v), NEW h \in Seq(Entries), NEW is \in Seq(v.users), NEW i \in v.users
  PROVE  UserSide(h, Append(is, i), v) =
           << UserSide(h, is, v)[1] \o Voice(v.text[i], v.users),
              UserSide(h, is, v)[2] \o v.images[i], UserSide(h, is, v)[3] \o v.answers[i] >>
<1>1. PICK U, text, images, answers : v.users = U /\ v.text = text /\ v.images = images /\ v.answers = answers
  OBVIOUS
<1>2. Rows(text, U, Pieces) /\ Rows(images, U, Pieces) /\ Rows(answers, U, Ids)
  BY <1>1 DEF Viewed
<1>3. PICK c, m, a : c = Voice(ContentIn(h), U) /\ m = ImagesIn(h) /\ a = ResultsIn(h)
  OBVIOUS
<1>4. c \in Seq(Pieces) /\ m \in Seq(Pieces) /\ a \in Seq(Ids)
  BY <1>3, EntryTypes, VoiceFacts DEF InTypes
<1>5. is \in Seq(U) /\ i \in U
  BY <1>1
<1>a. PICK x, y, z : x = text[i] /\ y = images[i] /\ z = answers[i]
  OBVIOUS
<1>b. Gives(text, i, x) /\ Gives(images, i, y) /\ Gives(answers, i, z)
  BY <1>a DEF Gives
<1>6. VoiceGrows(U, text, c, is, i, x)
  BY <1>2, <1>4, <1>5, <1>b, VoiceMore
<1>7. RowGrows(images, m, is, i, y)
  BY <1>2, <1>4, <1>5, <1>b, RowMore
<1>8. RowGrows(answers, a, is, i, z)
  BY <1>2, <1>4, <1>5, <1>b, RowMore
<1>9. \A js : UserSide(h, js, v) = << c \o Voice(OverMessages(js, text), U), m \o OverMessages(js, images),
                                     a \o OverMessages(js, answers) >>
  BY <1>1, <1>3 DEF UserSide
<1>10. PICK p, q, r : p = c \o Voice(OverMessages(is, text), U) /\ q = m \o OverMessages(is, images)
                      /\ r = a \o OverMessages(is, answers)
  OBVIOUS
<1>11. UserSide(h, is, v) = <<p, q, r>>
  BY <1>9, <1>10
<1>12. UserSide(h, is, v)[1] = p /\ UserSide(h, is, v)[2] = q /\ UserSide(h, is, v)[3] = r
  BY <1>11
<1>13. UserSide(h, Append(is, i), v) = <<p \o Voice(x, U), q \o y, r \o z>>
  BY <1>6, <1>7, <1>8, <1>9, <1>10 DEF RowGrows, VoiceGrows
<1> QED BY <1>1, <1>12, <1>13, <1>a

LEMMA AssistantMore ==
  ASSUME NEW v, Viewed(v), NEW h \in Seq(Entries), NEW is \in Seq(v.assistants), NEW i \in v.assistants
  PROVE  AssistantSide(h, Append(is, i), v) =
           << AssistantSide(h, is, v)[1] \o Voice(v.content[i], v.assistants),
              AssistantSide(h, is, v)[2] \o v.uses[i] >>
<1>1. PICK A, content, uses : v.assistants = A /\ v.content = content /\ v.uses = uses
  OBVIOUS
<1>2. Rows(content, A, Pieces) /\ Rows(uses, A, Uses)
  BY <1>1 DEF Viewed
<1>3. PICK c, u : c = Voice(ContentIn(h), A) /\ u = UsesIn(h)
  OBVIOUS
<1>4. c \in Seq(Pieces) /\ u \in Seq(Uses)
  BY <1>3, EntryTypes, VoiceFacts DEF InTypes
<1>5. is \in Seq(A) /\ i \in A
  BY <1>1
<1>a. PICK x, y : x = content[i] /\ y = uses[i]
  OBVIOUS
<1>b. Gives(content, i, x) /\ Gives(uses, i, y)
  BY <1>a DEF Gives
<1>6. VoiceGrows(A, content, c, is, i, x)
  BY <1>2, <1>4, <1>5, <1>b, VoiceMore
<1>7. RowGrows(uses, u, is, i, y)
  BY <1>2, <1>4, <1>5, <1>b, RowMore
<1>8. \A js : AssistantSide(h, js, v) = << c \o Voice(OverMessages(js, content), A), u \o OverMessages(js, uses) >>
  BY <1>1, <1>3 DEF AssistantSide
<1>9. PICK p, q : p = c \o Voice(OverMessages(is, content), A) /\ q = u \o OverMessages(is, uses)
  OBVIOUS
<1>10. AssistantSide(h, is, v) = <<p, q>>
  BY <1>8, <1>9
<1>11. AssistantSide(h, is, v)[1] = p /\ AssistantSide(h, is, v)[2] = q
  BY <1>10
<1>12. AssistantSide(h, Append(is, i), v) = <<p \o Voice(x, A), q \o y>>
  BY <1>6, <1>7, <1>8, <1>9 DEF RowGrows, VoiceGrows
<1> QED BY <1>1, <1>11, <1>12, <1>a

\* What a flush of a buffer leaves of the two sides.
UsersFlushed(h, is, g, v) ==
  /\ g \in Seq(Entries)
  /\ UserSide(g, <<>>, v) = UserSide(h, is, v)
  /\ \A js : AssistantSide(g, js, v) = AssistantSide(h, js, v)
AssistantsFlushed(h, is, g, v) ==
  /\ g \in Seq(Entries)
  /\ AssistantSide(g, <<>>, v) = AssistantSide(h, is, v)
  /\ \A js : UserSide(g, js, v) = UserSide(h, js, v)

LEMMA FlushUsers ==
  ASSUME messages \in Seq(Message), NEW h \in Seq(Entries), NEW is \in Seq(By("user")),
         NEW g, g = h \o Flush(is, MergeUsers)
  PROVE  UsersFlushed(h, is, g, View)
<1>0. \A f : OverMessages(<<>>, f) = <<>>
  BY OverNone
<1>1. CASE is = <<>>
  <2>1. g = h
    BY <1>1 DEF Flush
  <2> QED BY <1>1, <2>1 DEF UsersFlushed
<1>2. CASE is # <<>>
  <2> DEFINE e == MergeUsers(is)
  <2>1. g = h \o <<e>>
    BY <1>2 DEF Flush
  <2>2. /\ e \in Entries /\ e.content = OverMessages(is, TextOf) /\ e.images = OverMessages(is, ImagesOf)
        /\ e.results = OverMessages(is, ResultsOf) /\ e.uses = <<>>
        /\ e.content \in Seq(By("user") \X Kinds) /\ e.content \in Seq(Pieces)
        /\ e.images \in Seq(Pieces) /\ e.results \in Seq(Ids)
    BY UserTypes DEF MergeUsers, UserEntry
  <2> HIDE DEF e
  <2>3. InTypes(h) /\ Extends(h, g, e.content, e.images, e.results, e.uses)
    BY <2>1, <2>2, EntryAppended
  <2>4. ContentIn(h) \in Seq(Pieces) /\ ImagesIn(g) \in Seq(Pieces) /\ ResultsIn(g) \in Seq(Ids) /\ UsesIn(h) \in Seq(Uses)
        /\ ContentIn(g) \in Seq(Pieces)
    BY <2>3, EntryTypes DEF InTypes, Extends
  <2>5. Voice(ContentIn(g), View.users) = Voice(ContentIn(h), View.users) \o Voice(e.content, View.users)
    <3>1. Voice(ContentIn(h) \o e.content, View.users) = Voice(ContentIn(h), View.users) \o Voice(e.content, View.users)
      <4>1. PICK a, b, X : a = ContentIn(h) /\ b = e.content /\ X = View.users
        OBVIOUS
      <4>2. a \in Seq(Pieces) /\ b \in Seq(Pieces)
        BY <2>2, <2>4, <4>1
      <4>3. Voice(a \o b, X) = Voice(a, X) \o Voice(b, X)
        BY <4>2, VoiceConcat
      <4> QED BY <4>1, <4>3
    <3> QED BY <3>1, <2>3 DEF Extends
  <2>6. Voice(ContentIn(g), View.assistants) = Voice(ContentIn(h), View.assistants)
    <3>1. Voice(e.content, View.assistants) = <<>>
      <4>1. Heard(e.content, "assistant") = <<>>
        BY <2>2, RolesApart, HeardNothing
      <4> QED BY <4>1, ViewFacts
    <3>2. Voice(ContentIn(g), View.assistants) = Voice(ContentIn(h), View.assistants) \o Voice(e.content, View.assistants)
      <4>1. Voice(ContentIn(h) \o e.content, View.assistants) = Voice(ContentIn(h), View.assistants) \o Voice(e.content, View.assistants)
        <5>1. PICK a, b, X : a = ContentIn(h) /\ b = e.content /\ X = View.assistants
          OBVIOUS
        <5>2. a \in Seq(Pieces) /\ b \in Seq(Pieces)
          BY <2>2, <2>4, <5>1
        <5>3. Voice(a \o b, X) = Voice(a, X) \o Voice(b, X)
          BY <5>2, VoiceConcat
        <5> QED BY <5>1, <5>3
      <4> QED BY <4>1, <2>3 DEF Extends
    <3>3. Voice(ContentIn(h), View.assistants) \in Seq(Pieces)
      BY <2>4, VoiceFacts
    <3> QED BY <3>1, <3>2, <3>3, Nothing
  <2>7. UsesIn(g) = UsesIn(h)
    BY <2>2, <2>3, <2>4, Nothing DEF Extends
  <2>8. \A js : AssistantSide(g, js, View) = AssistantSide(h, js, View)
    BY <2>6, <2>7 DEF AssistantSide
  <2>9. UserSide(g, <<>>, View) = << Voice(ContentIn(g), View.users), ImagesIn(g), ResultsIn(g) >>
    <3>1. Voice(ContentIn(g), View.users) \in Seq(Pieces) /\ Voice(<<>>, View.users) = <<>>
      BY <2>4, VoiceFacts
    <3>2. UserSide(g, <<>>, View) = << Voice(ContentIn(g), View.users) \o <<>>, ImagesIn(g) \o <<>>, ResultsIn(g) \o <<>> >>
      BY <1>0, <3>1 DEF UserSide
    <3> QED BY <2>4, <3>1, <3>2, Nothing
  <2>10. UserSide(h, is, View) = << Voice(ContentIn(g), View.users), ImagesIn(g), ResultsIn(g) >>
    BY <2>2, <2>3, <2>5, ViewFacts DEF UserSide, Extends
  <2>11. g \in Seq(Entries)
    BY <2>3 DEF Extends
  <2> QED BY <2>8, <2>9, <2>10, <2>11 DEF UsersFlushed
<1> QED BY <1>1, <1>2

LEMMA FlushAssistants ==
  ASSUME messages \in Seq(Message), NEW h \in Seq(Entries), NEW is \in Seq(By("assistant")),
         NEW g, g = h \o Flush(is, MergeAssistants)
  PROVE  AssistantsFlushed(h, is, g, View)
<1>0. \A f : OverMessages(<<>>, f) = <<>>
  BY OverNone
<1>1. CASE is = <<>>
  <2>1. g = h
    BY <1>1 DEF Flush
  <2> QED BY <1>1, <2>1 DEF AssistantsFlushed
<1>2. CASE is # <<>>
  <2> DEFINE e == MergeAssistants(is)
  <2>1. g = h \o <<e>>
    BY <1>2 DEF Flush
  <2>2. /\ e \in Entries /\ e.content = Said(is) /\ e.images = <<>>
        /\ e.results = <<>> /\ e.uses = OverMessages(is, UsesOf)
        /\ e.content \in Seq((By("assistant") \cup {0}) \X Kinds)
        /\ OverMessages(is, ContentOf) \in Seq(Pieces)
    BY AssistantTypes DEF AssistantEntry
  <2> HIDE DEF e
  <2>a. e.content \in Seq(Pieces)
    BY <2>2 DEF Entries
  <2>3. InTypes(h) /\ Extends(h, g, e.content, e.images, e.results, e.uses)
    BY <2>1, <2>2, EntryAppended
  <2>4. ContentIn(h) \in Seq(Pieces) /\ ImagesIn(h) \in Seq(Pieces) /\ ResultsIn(h) \in Seq(Ids) /\ UsesIn(g) \in Seq(Uses)
        /\ ContentIn(g) \in Seq(Pieces)
    BY <2>3, EntryTypes DEF InTypes, Extends
  <2>5. Voice(ContentIn(g), View.assistants)
          = Voice(ContentIn(h), View.assistants) \o Voice(OverMessages(is, ContentOf), View.assistants)
    <3>1. Voice(e.content, View.assistants) = Voice(OverMessages(is, ContentOf), View.assistants)
      BY <2>2, SameWords, ViewFacts
    <3>2. Voice(ContentIn(h) \o e.content, View.assistants) = Voice(ContentIn(h), View.assistants) \o Voice(e.content, View.assistants)
      <4>1. PICK a, b, X : a = ContentIn(h) /\ b = e.content /\ X = View.assistants
        OBVIOUS
      <4>2. a \in Seq(Pieces) /\ b \in Seq(Pieces)
        BY <2>a, <2>4, <4>1
      <4>3. Voice(a \o b, X) = Voice(a, X) \o Voice(b, X)
        BY <4>2, VoiceConcat
      <4> QED BY <4>1, <4>3
    <3> QED BY <2>3, <3>1, <3>2 DEF Extends
  <2>6. Voice(ContentIn(g), View.users) = Voice(ContentIn(h), View.users)
    <3>1. Voice(e.content, View.users) = <<>>
      <4>1. (By("assistant") \cup {0}) \cap By("user") = {}
        BY RolesApart
      <4>2. Heard(e.content, "user") = <<>>
        BY <2>2, <4>1, HeardNothing
      <4> QED BY <4>2, ViewFacts
    <3>2. Voice(ContentIn(g), View.users) = Voice(ContentIn(h), View.users) \o Voice(e.content, View.users)
      <4>1. Voice(ContentIn(h) \o e.content, View.users) = Voice(ContentIn(h), View.users) \o Voice(e.content, View.users)
        <5>1. PICK a, b, X : a = ContentIn(h) /\ b = e.content /\ X = View.users
          OBVIOUS
        <5>2. a \in Seq(Pieces) /\ b \in Seq(Pieces)
          BY <2>a, <2>4, <5>1
        <5>3. Voice(a \o b, X) = Voice(a, X) \o Voice(b, X)
          BY <5>2, VoiceConcat
        <5> QED BY <5>1, <5>3
      <4> QED BY <4>1, <2>3 DEF Extends
    <3>3. Voice(ContentIn(h), View.users) \in Seq(Pieces)
      BY <2>4, VoiceFacts
    <3> QED BY <3>1, <3>2, <3>3, Nothing
  <2>7. ImagesIn(g) = ImagesIn(h) /\ ResultsIn(g) = ResultsIn(h)
    BY <2>2, <2>3, <2>4, Nothing DEF Extends
  <2>8. \A js : UserSide(g, js, View) = UserSide(h, js, View)
    BY <2>6, <2>7 DEF UserSide
  <2>9. AssistantSide(g, <<>>, View) = << Voice(ContentIn(g), View.assistants), UsesIn(g) >>
    <3>1. Voice(ContentIn(g), View.assistants) \in Seq(Pieces) /\ Voice(<<>>, View.assistants) = <<>>
      BY <2>4, VoiceFacts
    <3> QED BY <1>0, <2>4, <3>1, Nothing DEF AssistantSide
  <2>10. AssistantSide(h, is, View) = << Voice(ContentIn(g), View.assistants), UsesIn(g) >>
    BY <2>2, <2>3, <2>5, ViewFacts DEF AssistantSide, Extends
  <2>11. g \in Seq(Entries)
    BY <2>3 DEF Extends
  <2> QED BY <2>8, <2>9, <2>10, <2>11 DEF AssistantsFlushed
<1> QED BY <1>1, <1>2

LEMMA OthersSilent ==
  ASSUME messages \in Seq(Message), NEW h \in Seq(Entries), NEW e \in Entries,
         e.content \in Seq({0} \X Kinds), e.images = <<>>, e.results = <<>>, e.uses = <<>>
  PROVE  /\ h \o <<e>> \in Seq(Entries)
         /\ \A js : AssistantSide(h \o <<e>>, js, View) = AssistantSide(h, js, View)
         /\ \A js : UserSide(h \o <<e>>, js, View) = UserSide(h, js, View)
<1> DEFINE g == h \o <<e>>
<1>1. InTypes(h) /\ Extends(h, g, e.content, e.images, e.results, e.uses)
  BY EntryAppended
<1> HIDE DEF g
<1>2. e.content \in Seq(Pieces)
  BY DEF Entries
<1>3. ContentIn(h) \in Seq(Pieces) /\ ImagesIn(h) \in Seq(Pieces) /\ ResultsIn(h) \in Seq(Ids) /\ UsesIn(h) \in Seq(Uses)
  BY <1>1 DEF InTypes
<1>4. ASSUME NEW role \in Roles PROVE Heard(ContentIn(g), role) = Heard(ContentIn(h), role)
  <2>1. {0} \cap By(role) = {}
    BY RolesApart DEF Roles
  <2>2. Heard(e.content, role) = <<>>
    BY <2>1, HeardNothing
  <2>3. Heard(ContentIn(h) \o e.content, role) = Heard(ContentIn(h), role) \o Heard(e.content, role)
        /\ Heard(ContentIn(h), role) \in Seq(Pieces)
    <3>1. e.content \in Seq(Pieces) /\ ContentIn(h) \in Seq(Pieces)
      BY <1>2, <1>3
    <3> QED BY <3>1, HeardConcat
  <2> QED BY <1>1, <2>2, <2>3, Nothing DEF Extends
<1>5. Voice(ContentIn(g), View.users) = Voice(ContentIn(h), View.users)
      /\ Voice(ContentIn(g), View.assistants) = Voice(ContentIn(h), View.assistants)
  BY <1>4, ViewFacts DEF Roles
<1>6. ImagesIn(g) = ImagesIn(h) /\ ResultsIn(g) = ResultsIn(h) /\ UsesIn(g) = UsesIn(h)
  BY <1>1, <1>3, Nothing DEF Extends
<1>7. /\ \A js : AssistantSide(g, js, View) = AssistantSide(h, js, View)
      /\ \A js : UserSide(g, js, View) = UserSide(h, js, View)
  BY <1>5, <1>6 DEF UserSide, AssistantSide
<1>8. g \in Seq(Entries)
  BY <1>1 DEF Extends
<1> QED BY <1>7, <1>8 DEF g
-----------------------------------------------------------------------------
(* The messages of a role, up to one of them.                                *)
EarlierTo(n, X) == Within([i \in 1 .. n |-> i], X)

LEMMA EarlierFacts ==
  ASSUME NEW n \in Nat, NEW X
  PROVE  /\ EarlierTo(n, X) \in Seq(Nat) /\ EarlierTo(n, X) \in Seq(X \cap 1 .. n)
         /\ ToSet(EarlierTo(n, X)) = X \cap 1 .. n
         /\ EarlierTo(0, X) = <<>>
         /\ EarlierTo(n + 1, X) = IF n + 1 \in X THEN Append(EarlierTo(n, X), n + 1)
                                  ELSE EarlierTo(n, X)
<1> DEFINE s(m) == [i \in 1 .. m |-> i]
<1>1. \A m \in Nat : s(m) \in Seq(Nat) /\ Len(s(m)) = m /\ DOMAIN s(m) = 1 .. m
  <2> TAKE m \in Nat
  <2>1. s(m) \in [1 .. m -> Nat]
    OBVIOUS
  <2> QED BY <2>1, FunctionIsSeq
<1>2. ToSet(s(n)) = 1 .. n
  BY <1>1 DEF ToSet
<1>3. EarlierTo(n, X) \in Seq(Nat)
  BY <1>1, WithinType DEF EarlierTo
<1>4. ToSet(EarlierTo(n, X)) = X \cap 1 .. n
  BY <1>1, <1>2, WithinElements DEF EarlierTo
<1>5. EarlierTo(n, X) \in Seq(X \cap 1 .. n)
  BY <1>3, <1>4, SeqOfElements
<1>6. EarlierTo(0, X) = <<>>
  <2>1. s(0) = <<>>
    BY <1>1
  <2> QED BY <2>1, WithinEmpty DEF EarlierTo
<1>7. s(n + 1) = Append(s(n), n + 1)
  <2>1. n + 1 \in Nat
    OBVIOUS
  <2>2. /\ s(n + 1) \in Seq(Nat) /\ Len(s(n + 1)) = n + 1 /\ DOMAIN s(n + 1) = 1 .. n + 1
        /\ s(n) \in Seq(Nat) /\ Len(s(n)) = n
    BY <1>1, <2>1
  <2>3. \A i \in 1 .. n + 1 : s(n + 1)[i] = Append(s(n), n + 1)[i]
    <3> TAKE i \in 1 .. n + 1
    <3>1. CASE i \in 1 .. n
      <4>1. s(n)[i] = i /\ s(n + 1)[i] = i
        BY <3>1
      <4>2. Append(s(n), n + 1)[i] = s(n)[i]
        BY <2>2, <3>1
      <4> QED BY <4>1, <4>2
    <3>2. CASE i = n + 1
      <4>1. s(n + 1)[i] = n + 1
        BY <3>2
      <4>2. Append(s(n), n + 1)[i] = n + 1
        BY <2>2, <3>2
      <4> QED BY <4>1, <4>2
    <3> QED BY <3>1, <3>2
  <2>4. Append(s(n), n + 1) \in Seq(Nat) /\ Len(Append(s(n), n + 1)) = n + 1
    BY <2>1, <2>2
  <2> HIDE DEF s
  <2> QED BY <2>2, <2>3, <2>4
<1>8. EarlierTo(n + 1, X) = IF n + 1 \in X THEN Append(EarlierTo(n, X), n + 1) ELSE EarlierTo(n, X)
  <2>1. n + 1 \in Nat /\ s(n) \in Seq(Nat) /\ Within(s(n), X) \in Seq(Nat)
    BY <1>1, <1>3 DEF EarlierTo
  <2> HIDE DEF s
  <2>2. PICK t, m : t = s(n) /\ m = n + 1
    OBVIOUS
  <2>3. Within(Append(t, m), X) = IF m \in X THEN Append(Within(t, X), m) ELSE Within(t, X)
    <3>1. t \in Seq(Nat) /\ m \in Nat /\ Within(t, X) \in Seq(Nat)
      BY <2>1, <2>2
    <3>2. PICK S : S = Nat
      OBVIOUS
    <3>3. t \in Seq(S) /\ m \in S /\ Within(t, X) \in Seq(S)
      BY <3>1, <3>2
    <3> QED BY <3>3, WithinAppend
  <2>4. EarlierTo(n, X) = Within(t, X)
    BY <2>2 DEF EarlierTo, s
  <2>5. EarlierTo(n + 1, X) = Within(Append(t, m), X)
    BY <1>7, <2>2 DEF EarlierTo, s
  <2> QED BY <2>2, <2>3, <2>4, <2>5
<1> QED BY <1>3, <1>4, <1>5, <1>6, <1>8

LEMMA NoEntries == <<>> \in Seq(Entries)
OBVIOUS

LEMMA OutsideEntries ==
  /\ LET e == UserEntry(Piece(0, "system"), <<>>, <<>>)
     IN  /\ e \in Entries /\ e.content \in Seq({0} \X Kinds) /\ e.images = <<>> /\ e.results = <<>>
         /\ e.uses = <<>>
  /\ \A kind \in {"promise", "ok"} :
       LET e == AssistantEntry(Piece(0, kind), <<>>)
       IN  /\ e \in Entries /\ e.content \in Seq({0} \X Kinds) /\ e.images = <<>> /\ e.results = <<>>
           /\ e.uses = <<>>
<1>1. \A kind \in {"system", "promise", "ok"} :
        Piece(0, kind) \in Seq({0} \X Kinds) /\ Piece(0, kind) \in Seq(Pieces)
  <2> TAKE kind \in {"system", "promise", "ok"}
  <2>1. kind \in Kinds /\ 0 \in {0} /\ 0 \in Nat
    BY DEF Kinds
  <2> QED BY <2>1, PieceType DEF Pieces
<1>2. <<>> \in Seq(Pieces) /\ <<>> \in Seq(Ids) /\ <<>> \in Seq(Uses)
  OBVIOUS
<1> QED BY <1>1, <1>2 DEF UserEntry, AssistantEntry, Entries

LEMMA EarlierIs ==
  ASSUME NEW role
  PROVE  Earlier(role) = EarlierTo(Len(messages) - 1, By(role))
BY DEF Earlier, EarlierTo

-----------------------------------------------------------------------------
(* What the whole history says, against what the messages said.               *)
Aligned(h, us, as, n, v) ==
  /\ UserSide(h, us, v) = UserSide(<<>>, EarlierTo(n, v.users), v)
  /\ AssistantSide(h, as, v) = AssistantSide(<<>>, EarlierTo(n, v.assistants), v)

LEMMA AlignedUser ==
  ASSUME messages \in Seq(Message), NEW h \in Seq(Entries), NEW us \in Seq(By("user")),
         NEW as \in Seq(By("assistant")), NEW n \in Nat, Aligned(h, us, as, n, View),
         n + 1 \in By("user"), NEW g, g = h \o Flush(as, MergeAssistants)
  PROVE  g \in Seq(Entries) /\ Aligned(g, Append(us, n + 1), <<>>, n + 1, View)
<1>1. PICK v : v = View
  OBVIOUS
<1>2. Viewed(v) /\ v.users = By("user") /\ v.assistants = By("assistant")
  BY <1>1, ViewFacts
<1>3. /\ g \in Seq(Entries)
      /\ AssistantSide(g, <<>>, v) = AssistantSide(h, as, v)
      /\ \A js : UserSide(g, js, v) = UserSide(h, js, v)
  BY <1>1, FlushAssistants, ZenonT(30) DEF AssistantsFlushed
<1>4. PICK es : es = EarlierTo(n, v.users)
  OBVIOUS
<1>5. es \in Seq(v.users) /\ EarlierTo(n + 1, v.users) = Append(es, n + 1)
  <2>1. es \in Seq(v.users \cap 1 .. n) /\ EarlierTo(n + 1, v.users) = Append(es, n + 1)
    BY <1>2, <1>4, EarlierFacts
  <2> QED BY <2>1
<1>6. EarlierTo(n + 1, v.assistants) = EarlierTo(n, v.assistants)
  <2>1. n + 1 \notin v.assistants
    BY <1>2, RolesApart
  <2> QED BY <2>1, EarlierFacts
<1>7. UserSide(h, us, v) = UserSide(<<>>, es, v) /\ AssistantSide(h, as, v) = AssistantSide(<<>>, EarlierTo(n, v.assistants), v)
  BY <1>1, <1>4 DEF Aligned
<1>8. <<>> \in Seq(Entries) /\ us \in Seq(v.users) /\ n + 1 \in v.users
  <2>1. us \in Seq(v.users) /\ n + 1 \in v.users
    BY <1>2, Zenon
  <2> QED BY <2>1, NoEntries, Zenon
<1>9. PICK i : i = n + 1
  OBVIOUS
<1>10. UserSide(h, Append(us, i), v) = UserSide(<<>>, Append(es, i), v)
  <2>1. UserSide(h, Append(us, i), v) =
          << UserSide(h, us, v)[1] \o Voice(v.text[i], v.users),
             UserSide(h, us, v)[2] \o v.images[i], UserSide(h, us, v)[3] \o v.answers[i] >>
    BY <1>2, <1>8, <1>9, UserMore
  <2>2. UserSide(<<>>, Append(es, i), v) =
          << UserSide(<<>>, es, v)[1] \o Voice(v.text[i], v.users),
             UserSide(<<>>, es, v)[2] \o v.images[i], UserSide(<<>>, es, v)[3] \o v.answers[i] >>
    BY <1>2, <1>5, <1>8, <1>9, UserMore
  <2> QED BY <1>7, <2>1, <2>2
<1> QED BY <1>1, <1>3, <1>5, <1>6, <1>7, <1>9, <1>10 DEF Aligned

LEMMA AlignedAssistant ==
  ASSUME messages \in Seq(Message), NEW h \in Seq(Entries), NEW us \in Seq(By("user")),
         NEW as \in Seq(By("assistant")), NEW n \in Nat, Aligned(h, us, as, n, View),
         n + 1 \in By("assistant"), NEW g, g = h \o Flush(us, MergeUsers)
  PROVE  g \in Seq(Entries) /\ Aligned(g, <<>>, Append(as, n + 1), n + 1, View)
<1>1. PICK v : v = View
  OBVIOUS
<1>2. Viewed(v) /\ v.users = By("user") /\ v.assistants = By("assistant")
  BY <1>1, ViewFacts
<1>3. /\ g \in Seq(Entries)
      /\ UserSide(g, <<>>, v) = UserSide(h, us, v)
      /\ \A js : AssistantSide(g, js, v) = AssistantSide(h, js, v)
  BY <1>1, FlushUsers DEF UsersFlushed
<1>4. PICK es : es = EarlierTo(n, v.assistants)
  OBVIOUS
<1>5. es \in Seq(v.assistants) /\ EarlierTo(n + 1, v.assistants) = Append(es, n + 1)
  <2>1. es \in Seq(v.assistants \cap 1 .. n) /\ EarlierTo(n + 1, v.assistants) = Append(es, n + 1)
    BY <1>2, <1>4, EarlierFacts
  <2> QED BY <2>1
<1>6. EarlierTo(n + 1, v.users) = EarlierTo(n, v.users)
  <2>1. n + 1 \notin v.users
    BY <1>2, RolesApart
  <2> QED BY <2>1, EarlierFacts
<1>7. AssistantSide(h, as, v) = AssistantSide(<<>>, es, v) /\ UserSide(h, us, v) = UserSide(<<>>, EarlierTo(n, v.users), v)
  BY <1>1, <1>4 DEF Aligned
<1>8. <<>> \in Seq(Entries) /\ as \in Seq(v.assistants) /\ n + 1 \in v.assistants
  <2>1. as \in Seq(v.assistants) /\ n + 1 \in v.assistants
    BY <1>2, Zenon
  <2> QED BY <2>1, NoEntries, Zenon
<1>9. PICK i : i = n + 1
  OBVIOUS
<1>10. AssistantSide(h, Append(as, i), v) = AssistantSide(<<>>, Append(es, i), v)
  <2>1. AssistantSide(h, Append(as, i), v) =
          << AssistantSide(h, as, v)[1] \o Voice(v.content[i], v.assistants),
             AssistantSide(h, as, v)[2] \o v.uses[i] >>
    BY <1>2, <1>8, <1>9, AssistantMore
  <2>2. AssistantSide(<<>>, Append(es, i), v) =
          << AssistantSide(<<>>, es, v)[1] \o Voice(v.content[i], v.assistants),
             AssistantSide(<<>>, es, v)[2] \o v.uses[i] >>
    BY <1>2, <1>5, <1>8, <1>9, AssistantMore
  <2> QED BY <1>7, <2>1, <2>2
<1> QED BY <1>1, <1>3, <1>5, <1>6, <1>7, <1>9, <1>10 DEF Aligned

LEMMA AlignedOther ==
  ASSUME NEW h, NEW us, NEW as, NEW n \in Nat, NEW v, Aligned(h, us, as, n, v),
         n + 1 \notin v.users, n + 1 \notin v.assistants
  PROVE  Aligned(h, us, as, n + 1, v)
BY EarlierFacts DEF Aligned
LEMMA AlignedClose ==
  ASSUME messages \in Seq(Message), NEW h \in Seq(Entries), NEW us \in Seq(By("user")),
         NEW as \in Seq(By("assistant")), NEW n, Aligned(h, us, as, n, View),
         NEW g, g = h \o Flush(as, MergeAssistants) \o Flush(us, MergeUsers) \o Ok(us)
  PROVE  g \in Seq(Entries) /\ Aligned(g, <<>>, <<>>, n, View)
<1>1. PICK p : p = h \o Flush(as, MergeAssistants)
  OBVIOUS
<1>2. /\ p \in Seq(Entries)
      /\ AssistantSide(p, <<>>, View) = AssistantSide(h, as, View)
      /\ \A js : UserSide(p, js, View) = UserSide(h, js, View)
  BY <1>1, FlushAssistants DEF AssistantsFlushed
<1>3. PICK q : q = p \o Flush(us, MergeUsers)
  OBVIOUS
<1>4. /\ q \in Seq(Entries)
      /\ UserSide(q, <<>>, View) = UserSide(p, us, View)
      /\ \A js : AssistantSide(q, js, View) = AssistantSide(p, js, View)
  BY <1>2, <1>3, FlushUsers, ZenonT(30) DEF UsersFlushed
<1>5. g = q \o Ok(us)
  BY <1>1, <1>3
<1>6. Aligned(q, <<>>, <<>>, n, View)
  BY <1>2, <1>4 DEF Aligned
<1>7. CASE us = <<>>
  <2>1. g = q
    BY <1>4, <1>5, <1>7, Nothing DEF Ok
  <2> QED BY <1>4, <1>6, <2>1
<1>8. CASE us # <<>>
  <2> DEFINE e == AssistantEntry(Piece(0, "ok"), <<>>)
  <2>1. g = q \o <<e>>
    BY <1>5, <1>8 DEF Ok
  <2>2. /\ e \in Entries /\ e.content \in Seq({0} \X Kinds) /\ e.images = <<>> /\ e.results = <<>>
        /\ e.uses = <<>>
    BY OutsideEntries
  <2> HIDE DEF e
  <2>3. /\ g \in Seq(Entries)
        /\ \A js : AssistantSide(g, js, View) = AssistantSide(q, js, View)
        /\ \A js : UserSide(g, js, View) = UserSide(q, js, View)
    BY <1>4, <2>1, <2>2, OthersSilent
  <2> QED BY <1>6, <2>3 DEF Aligned
<1> QED BY <1>7, <1>8

LEMMA AlignedOpen ==
  ASSUME messages \in Seq(Message)
  PROVE  /\ Aligned(<<>>, <<>>, <<>>, 0, View)
         /\ LET pair == <<UserEntry(Piece(0, "system"), <<>>, <<>>), AssistantEntry(Piece(0, "promise"), <<>>)>>
            IN  pair \in Seq(Entries) /\ Aligned(pair, <<>>, <<>>, 0, View) /\ UsesIn(pair) = <<>>
<1>1. \A X : EarlierTo(0, X) = <<>>
  BY EarlierFacts
<1>2. Aligned(<<>>, <<>>, <<>>, 0, View)
  BY <1>1 DEF Aligned
<1> DEFINE e == UserEntry(Piece(0, "system"), <<>>, <<>>)
<1> DEFINE f == AssistantEntry(Piece(0, "promise"), <<>>)
<1>3. /\ e \in Entries /\ e.content \in Seq({0} \X Kinds) /\ e.images = <<>> /\ e.results = <<>>
      /\ e.uses = <<>>
      /\ f \in Entries /\ f.content \in Seq({0} \X Kinds) /\ f.images = <<>> /\ f.results = <<>>
      /\ f.uses = <<>>
  BY OutsideEntries
<1> HIDE DEF e, f
<1>4. PICK p : p = <<>> \o <<e>>
  OBVIOUS
<1>5. /\ p \in Seq(Entries)
      /\ \A js : AssistantSide(p, js, View) = AssistantSide(<<>>, js, View)
      /\ \A js : UserSide(p, js, View) = UserSide(<<>>, js, View)
  BY <1>3, <1>4, NoEntries, OthersSilent
<1>6. PICK q : q = p \o <<f>>
  OBVIOUS
<1>7. /\ q \in Seq(Entries)
      /\ \A js : AssistantSide(q, js, View) = AssistantSide(p, js, View)
      /\ \A js : UserSide(q, js, View) = UserSide(p, js, View)
  BY <1>3, <1>5, <1>6, OthersSilent
<1>8. Aligned(q, <<>>, <<>>, 0, View)
  BY <1>2, <1>5, <1>7 DEF Aligned
<1>9. UsesIn(q) = <<>>
  <2>1. UsesIn(p) = UsesIn(<<>>) \o e.uses
    BY <1>3, <1>4, NoEntries, EntryAppended DEF Extends
  <2>2. UsesIn(q) = UsesIn(p) \o f.uses
    BY <1>3, <1>5, <1>6, EntryAppended DEF Extends
  <2>3. UsesIn(p) = <<>>
    BY <1>3, <2>1, NothingIn
  <2> QED BY <1>3, <2>2, <2>3
<1>10. q = <<e, f>>
  <2>1. p = <<e>>
    BY <1>3, <1>4
  <2>2. Append(<<e>>, f) = <<e, f>>
    BY <1>3, PairAppended
  <2>3. q = Append(p, f)
    BY <1>3, <1>5, <1>6, AppendIsConcat
  <2> QED BY <2>1, <2>2, <2>3
<1> QED BY <1>2, <1>7, <1>8, <1>9, <1>10 DEF e, f

-----------------------------------------------------------------------------
(* What an aligned history tells.                                            *)
Tells(h) ==
  /\ Heard(ContentIn(h), "user") = Heard(OverMessages(Earlier("user"), TextOf), "user")
  /\ Heard(ContentIn(h), "assistant") = Heard(OverMessages(Earlier("assistant"), ContentOf), "assistant")
  /\ ImagesIn(h) = OverMessages(Earlier("user"), ImagesOf)
  /\ ResultsIn(h) = OverMessages(Earlier("user"), ResultsOf)

LEMMA SidesAlone ==
  ASSUME NEW v, Viewed(v), NEW h \in Seq(Entries), NEW us \in Seq(v.users), NEW as \in Seq(v.assistants)
  PROVE  /\ UserSide(h, <<>>, v) = << Voice(ContentIn(h), v.users), ImagesIn(h), ResultsIn(h) >>
         /\ AssistantSide(h, <<>>, v) = << Voice(ContentIn(h), v.assistants), UsesIn(h) >>
         /\ UserSide(<<>>, us, v) = << Voice(OverMessages(us, v.text), v.users),
                                       OverMessages(us, v.images), OverMessages(us, v.answers) >>
         /\ AssistantSide(<<>>, as, v) = << Voice(OverMessages(as, v.content), v.assistants),
                                            OverMessages(as, v.uses) >>
<1>1. PICK U, text, images, answers, A, content, uses :
        /\ v.users = U /\ v.text = text /\ v.images = images /\ v.answers = answers
        /\ v.assistants = A /\ v.content = content /\ v.uses = uses
  OBVIOUS
<1>2. /\ Rows(text, U, Pieces) /\ Rows(images, U, Pieces) /\ Rows(answers, U, Ids)
      /\ Rows(content, A, Pieces) /\ Rows(uses, A, Uses)
  BY <1>1 DEF Viewed
<1>3. us \in Seq(U) /\ as \in Seq(A)
  BY <1>1
<1>4. PICK cu, ca, m, a, u : /\ cu = Voice(ContentIn(h), U) /\ ca = Voice(ContentIn(h), A) /\ m = ImagesIn(h)
                             /\ a = ResultsIn(h) /\ u = UsesIn(h)
  OBVIOUS
<1>5. cu \in Seq(Pieces) /\ ca \in Seq(Pieces) /\ m \in Seq(Pieces) /\ a \in Seq(Ids) /\ u \in Seq(Uses)
  BY <1>4, EntryTypes, VoiceFacts DEF InTypes
<1>6. PICK ot, oi, oa, oc, ou :
        /\ ot = OverMessages(us, text) /\ oi = OverMessages(us, images) /\ oa = OverMessages(us, answers)
        /\ oc = OverMessages(as, content) /\ ou = OverMessages(as, uses)
  OBVIOUS
<1>7. /\ ot \in Seq(Pieces) /\ oi \in Seq(Pieces) /\ oa \in Seq(Ids)
      /\ oc \in Seq(Pieces) /\ ou \in Seq(Uses)
  BY <1>2, <1>3, <1>6, OverTypes
<1>8. Voice(ot, U) \in Seq(Pieces) /\ Voice(oc, A) \in Seq(Pieces)
  BY <1>7, VoiceFacts
<1>9. \A f : OverMessages(<<>>, f) = <<>>
  BY OverNone
<1>10. \A X : Voice(<<>>, X) = <<>>
  BY VoiceFacts
<1>11. UserSide(h, <<>>, v) = <<cu, m, a>>
  <2>1. UserSide(h, <<>>, v) = <<cu \o <<>>, m \o <<>>, a \o <<>>>>
    BY <1>1, <1>4, <1>9, <1>10 DEF UserSide
  <2> QED BY <1>5, <2>1, Nothing
<1>12. AssistantSide(h, <<>>, v) = <<ca, u>>
  <2>1. AssistantSide(h, <<>>, v) = <<ca \o <<>>, u \o <<>>>>
    BY <1>1, <1>4, <1>9, <1>10 DEF AssistantSide
  <2> QED BY <1>5, <2>1, Nothing
<1>13. UserSide(<<>>, us, v) = <<Voice(ot, U), oi, oa>>
  <2>1. UserSide(<<>>, us, v) = <<<<>> \o Voice(ot, U), <<>> \o oi, <<>> \o oa>>
    BY <1>1, <1>6, <1>10, NothingIn DEF UserSide
  <2> QED BY <1>7, <1>8, <2>1, Nothing
<1>14. AssistantSide(<<>>, as, v) = <<Voice(oc, A), ou>>
  <2>1. AssistantSide(<<>>, as, v) = <<<<>> \o Voice(oc, A), <<>> \o ou>>
    BY <1>1, <1>6, <1>10, NothingIn DEF AssistantSide
  <2> QED BY <1>7, <1>8, <2>1, Nothing
<1> QED BY <1>1, <1>4, <1>6, <1>11, <1>12, <1>13, <1>14

LEMMA AlignedTells ==
  ASSUME messages \in Seq(Message), messages # <<>>, NEW h \in Seq(Entries),
         Aligned(h, <<>>, <<>>, Len(messages) - 1, View)
  PROVE  Tells(h) /\ UsesIn(h) = OverMessages(Earlier("assistant"), UsesOf)
<1>1. PICK n \in Nat : n = Len(messages) - 1
  OBVIOUS
<1>2. PICK v : v = View
  OBVIOUS
<1>3. /\ Viewed(v) /\ v.users = By("user") /\ v.assistants = By("assistant") /\ v.text = TextOf
      /\ v.images = ImagesOf /\ v.answers = ResultsOf /\ v.content = ContentOf /\ v.uses = UsesOf
  BY <1>2, ViewFacts
<1>4. PICK us, as : us = EarlierTo(n, v.users) /\ as = EarlierTo(n, v.assistants)
  OBVIOUS
<1>5. us \in Seq(v.users) /\ as \in Seq(v.assistants)
  <2>1. PICK U, A : U = v.users /\ A = v.assistants
    OBVIOUS
  <2>2. us \in Seq(U \cap 1 .. n) /\ as \in Seq(A \cap 1 .. n)
    BY <1>4, <2>1, EarlierFacts
  <2>3. us \in Seq(U) /\ as \in Seq(A)
    BY <2>2, Wider
  <2> QED BY <2>1, <2>3
<1>6. us = Earlier("user") /\ as = Earlier("assistant")
  BY <1>1, <1>3, <1>4, EarlierIs
<1>7. UserSide(h, <<>>, v) = UserSide(<<>>, us, v) /\ AssistantSide(h, <<>>, v) = AssistantSide(<<>>, as, v)
  BY <1>1, <1>2, <1>4 DEF Aligned
<1>8. /\ UserSide(h, <<>>, v) = << Voice(ContentIn(h), v.users), ImagesIn(h), ResultsIn(h) >>
      /\ AssistantSide(h, <<>>, v) = << Voice(ContentIn(h), v.assistants), UsesIn(h) >>
      /\ UserSide(<<>>, us, v) = << Voice(OverMessages(us, v.text), v.users),
                                    OverMessages(us, v.images), OverMessages(us, v.answers) >>
      /\ AssistantSide(<<>>, as, v) = << Voice(OverMessages(as, v.content), v.assistants),
                                         OverMessages(as, v.uses) >>
  BY <1>3, <1>5, SidesAlone
<1>9. /\ Voice(ContentIn(h), v.users) = Voice(OverMessages(us, v.text), v.users)
      /\ ImagesIn(h) = OverMessages(us, v.images) /\ ResultsIn(h) = OverMessages(us, v.answers)
      /\ Voice(ContentIn(h), v.assistants) = Voice(OverMessages(as, v.content), v.assistants)
      /\ UsesIn(h) = OverMessages(as, v.uses)
  <2>1. \A a, b, c, x, y, z : <<a, b, c>> = <<x, y, z>> => a = x /\ b = y /\ c = z
    OBVIOUS
  <2>2. \A a, b, x, y : <<a, b>> = <<x, y>> => a = x /\ b = y
    OBVIOUS
  <2>3. << Voice(ContentIn(h), v.users), ImagesIn(h), ResultsIn(h) >>
          = << Voice(OverMessages(us, v.text), v.users), OverMessages(us, v.images), OverMessages(us, v.answers) >>
    BY <1>7, <1>8, Zenon
  <2>4. << Voice(ContentIn(h), v.assistants), UsesIn(h) >>
          = << Voice(OverMessages(as, v.content), v.assistants), OverMessages(as, v.uses) >>
    BY <1>7, <1>8, Zenon
  <2>5. Voice(ContentIn(h), v.users) = Voice(OverMessages(us, v.text), v.users)
        /\ ImagesIn(h) = OverMessages(us, v.images) /\ ResultsIn(h) = OverMessages(us, v.answers)
    BY <2>1, <2>3, Zenon
  <2>6. Voice(ContentIn(h), v.assistants) = Voice(OverMessages(as, v.content), v.assistants)
        /\ UsesIn(h) = OverMessages(as, v.uses)
    BY <2>2, <2>4, Zenon
  <2> QED BY <2>5, <2>6
<1>10. \A c : Heard(c, "user") = Voice(c, v.users) /\ Heard(c, "assistant") = Voice(c, v.assistants)
  BY <1>2, ViewFacts
<1> QED BY <1>3, <1>6, <1>9, <1>10 DEF Tells
-----------------------------------------------------------------------------
(* What pruning leaves.                                                      *)
Pruned(h, X) == [k \in DOMAIN h |-> [h[k] EXCEPT !.uses = Without(@, X)]]
KeepsBut(h, g, X) ==
  /\ g \in Seq(Entries) /\ Len(g) = Len(h)
  /\ \A k \in 1 .. Len(h) : /\ g[k].role = h[k].role /\ g[k].content = h[k].content
                            /\ g[k].results = h[k].results /\ ToSet(g[k].uses) = ToSet(h[k].uses) \ X
  /\ ContentIn(g) = ContentIn(h) /\ ImagesIn(g) = ImagesIn(h) /\ ResultsIn(g) = ResultsIn(h)
  /\ UsesIn(g) = Without(UsesIn(h), X)

LEMMA PruneFacts ==
  ASSUME NEW h \in Seq(Entries), NEW X
  PROVE  KeepsBut(h, Pruned(h, X), X)
<1>1. PICK n \in Nat : n = Len(h) /\ DOMAIN h = 1 .. n
  OBVIOUS
<1>2. PICK g : g = Pruned(h, X)
  OBVIOUS
<1>3. DOMAIN g = 1 .. n /\ \A k \in 1 .. n : g[k] = [h[k] EXCEPT !.uses = Without(@, X)]
  BY <1>1, <1>2 DEF Pruned
<1>4. \A k \in 1 .. n : h[k] \in Entries
  BY <1>1
<1>5. ASSUME NEW k \in 1 .. n
      PROVE  /\ g[k] \in Entries /\ g[k].role = h[k].role /\ g[k].content = h[k].content
             /\ g[k].images = h[k].images /\ g[k].results = h[k].results
             /\ g[k].uses = Without(h[k].uses, X)
             /\ ToSet(g[k].uses) = ToSet(h[k].uses) \ X
  <2>1. PICK e, us, ws : e = h[k] /\ us = h[k].uses /\ ws = Without(us, X)
    OBVIOUS
  <2>2. e \in Entries /\ us = e.uses /\ us \in Seq(Uses)
    BY <1>4, <2>1 DEF Entries
  <2>3. ws \in Seq(Uses) /\ ToSet(ws) = ToSet(us) \ X
    BY <2>1, <2>2, WithoutFacts
  <2>4. g[k] = [e EXCEPT !.uses = ws]
    BY <1>3, <2>1
  <2>5. /\ g[k] \in Entries /\ g[k].role = e.role /\ g[k].content = e.content
        /\ g[k].images = e.images /\ g[k].results = e.results /\ g[k].uses = ws
    BY <2>2, <2>3, <2>4 DEF Entries
  <2> QED BY <2>1, <2>3, <2>5
<1>6. g \in Seq(Entries) /\ Len(g) = n
  <2>1. g \in [1 .. n -> Entries]
    <3>1. g = [k \in 1 .. n |-> g[k]]
      BY <1>1, <1>2 DEF Pruned
    <3> QED BY <1>5, <3>1
  <2> QED BY <2>1, FunctionIsSeq
<1>7. ContentIn(g) = ContentIn(h) /\ ImagesIn(g) = ImagesIn(h) /\ ResultsIn(g) = ResultsIn(h)
  <2>1. /\ [k \in 1 .. n |-> g[k].content] = [k \in 1 .. n |-> h[k].content]
        /\ [k \in 1 .. n |-> g[k].images] = [k \in 1 .. n |-> h[k].images]
        /\ [k \in 1 .. n |-> g[k].results] = [k \in 1 .. n |-> h[k].results]
    BY <1>5
  <2> QED BY <1>1, <1>3, <2>1 DEF ContentIn, ImagesIn, ResultsIn
<1>8. UsesIn(g) = Without(UsesIn(h), X)
  <2>1. PICK s : s = [k \in 1 .. n |-> h[k].uses]
    OBVIOUS
  <2>2. s \in Seq(Seq(Uses)) /\ DOMAIN s = 1 .. n
    <3>1. \A k \in 1 .. n : h[k].uses \in Seq(Uses)
      BY <1>4 DEF Entries
    <3>2. s \in [1 .. n -> Seq(Uses)]
      BY <2>1, <3>1
    <3> QED BY <3>2, FunctionIsSeq
  <2>3. FlattenSeq([k \in DOMAIN s |-> Without(s[k], X)]) = Without(FlattenSeq(s), X)
    BY <2>2, WithoutFlatten
  <2>4. [k \in DOMAIN s |-> Without(s[k], X)] = [k \in 1 .. n |-> g[k].uses]
    <3>1. \A k \in 1 .. n : Without(s[k], X) = g[k].uses
      BY <1>5, <2>1
    <3> QED BY <2>2, <3>1
  <2> QED BY <1>1, <1>3, <2>1, <2>3, <2>4 DEF UsesIn
<1> QED BY <1>1, <1>2, <1>5, <1>6, <1>7, <1>8 DEF KeepsBut
-----------------------------------------------------------------------------
(* The state.                                                                *)
Before(role) == By(role) \cap 1 .. Len(messages) - 1
Steps == {"client", "rejected", "opening", "reading", "pairing", "pruning", "defining", "converted"}

Typed ==
  /\ request \in Seq(Message) /\ options \in Options /\ pc \in Steps
  /\ messages \in Seq(Message) /\ next \in Nat \ {0}
  /\ history \in Seq(Entries)
  /\ users \in Seq(By("user")) /\ assistants \in Seq(Before("assistant"))
  /\ results \in Seq(Ids) /\ orphans \subseteq Ids
  /\ pc \in {"client", "rejected", "opening"} =>
       history = <<>> /\ users = <<>> /\ assistants = <<>> /\ next = 1
  /\ pc \notin {"client", "rejected"} => next <= Len(messages)

LEMMA Unmoved ==
  ASSUME messages' = messages
  PROVE  /\ By("user")' = By("user") /\ By("assistant")' = By("assistant")
         /\ Before("assistant")' = Before("assistant") /\ View' = View
         /\ Earlier("user")' = Earlier("user") /\ Earlier("assistant")' = Earlier("assistant")
         /\ TextOf' = TextOf /\ ImagesOf' = ImagesOf /\ ResultsOf' = ResultsOf
         /\ UsesOf' = UsesOf /\ ContentOf' = ContentOf
         /\ Spoken("user")' = Spoken("user") /\ Spoken("assistant")' = Spoken("assistant")
<1>1. By("user")' = By("user") /\ By("assistant")' = By("assistant")
  BY DEF By
<1>2. TextOf' = TextOf /\ ImagesOf' = ImagesOf /\ ResultsOf' = ResultsOf /\ UsesOf' = UsesOf
  BY DEF TextOf, ImagesOf, ResultsOf, UsesOf
<1>3. ContentOf' = ContentOf
  BY <1>2 DEF ContentOf
<1>4. Earlier("user")' = Earlier("user") /\ Earlier("assistant")' = Earlier("assistant")
  BY <1>1 DEF Earlier
<1>5. Spoken("user")' = Spoken("user") /\ Spoken("assistant")' = Spoken("assistant")
  BY <1>1 DEF Spoken
<1>6. Before("assistant")' = Before("assistant")
  BY <1>1 DEF Before
<1>7. View' = View
  BY <1>1, <1>2, <1>3 DEF View
<1> QED BY <1>1, <1>2, <1>3, <1>4, <1>5, <1>6, <1>7

LEMMA LastUserIs ==
  ASSUME request \in Seq(Message), HasUser
  PROVE  /\ LastUser \in DOMAIN request
         /\ Conversation \in Seq(Message) /\ Len(Conversation) = LastUser
<1>1. PICK n \in Nat : n = Len(request) /\ DOMAIN request = 1 .. n
  OBVIOUS
<1> DEFINE Behind == {d \in 0 .. n - 1 : request[n - d].role = "user"}
<1>2. Behind \in SUBSET Nat
  OBVIOUS
<1>3. Behind # {}
  <2>1. PICK i \in 1 .. n : request[i].role = "user"
    BY <1>1 DEF HasUser
  <2>2. n - i \in 0 .. n - 1 /\ n - (n - i) = i
    BY <2>1
  <2>3. n - i \in Behind
    BY <2>1, <2>2
  <2> QED BY <2>3
<1> HIDE DEF Behind
<1>4. PICK d : d = Min(Behind)
  OBVIOUS
<1>5. d \in Behind /\ \A x \in Behind : d <= x
  BY <1>2, <1>3, <1>4, MinOfNats
<1>6. d \in 0 .. n - 1 /\ request[n - d].role = "user"
  BY <1>5 DEF Behind
<1>7. n - d \in DOMAIN request
  BY <1>1, <1>6
<1>8. \A j \in n - d + 1 .. Len(request) : request[j].role # "user"
  <2>1. SUFFICES ASSUME NEW j \in n - d + 1 .. n, request[j].role = "user" PROVE FALSE
    BY <1>1
  <2>2. n - j \in 0 .. n - 1 /\ n - (n - j) = j /\ n - j < d
    BY <1>6, <2>1
  <2>3. n - j \in Behind
    BY <2>1, <2>2 DEF Behind
  <2> QED BY <1>5, <1>6, <2>2, <2>3
<1>9. LastUser \in DOMAIN request
  <2>1. \E i \in DOMAIN request : /\ request[i].role = "user"
                                  /\ \A j \in i + 1 .. Len(request) : request[j].role # "user"
    BY <1>6, <1>7, <1>8
  <2> QED BY <2>1 DEF LastUser
<1>10. PICK l \in 1 .. n : l = LastUser
  BY <1>1, <1>9
<1>11. SubSeq(request, 1, l) \in Seq(Message) /\ Len(SubSeq(request, 1, l)) = l
  BY <1>1, <1>10
<1> QED BY <1>9, <1>10, <1>11 DEF Conversation
LEMMA ContentsType == ASSUME NEW m \in Contents PROVE m \in Message
BY ConverterAssumption

LEMMA AssistantsBefore ==
  ASSUME Typed
  PROVE  assistants \in Seq(By("assistant"))
BY Wider DEF Typed, Before

LEMMA FlushTypes ==
  ASSUME Typed
  PROVE  /\ history \o Flush(assistants, MergeAssistants) \in Seq(Entries)
         /\ history \o Flush(users, MergeUsers) \in Seq(Entries)
         /\ history \o Flush(assistants, MergeAssistants) \o Flush(users, MergeUsers) \o Ok(users) \in Seq(Entries)
<1>1. assistants \in Seq(By("assistant")) /\ users \in Seq(By("user")) /\ messages \in Seq(Message)
      /\ history \in Seq(Entries)
  BY AssistantsBefore DEF Typed
<1>2. PICK p : p = history \o Flush(assistants, MergeAssistants)
  OBVIOUS
<1>3. p \in Seq(Entries)
  BY <1>1, <1>2, FlushAssistants DEF AssistantsFlushed
<1>4. PICK q : q = p \o Flush(users, MergeUsers)
  OBVIOUS
<1>5. q \in Seq(Entries)
  BY <1>1, <1>3, <1>4, FlushUsers DEF UsersFlushed
<1>6. PICK r : r = history \o Flush(users, MergeUsers)
  OBVIOUS
<1>7. r \in Seq(Entries)
  BY <1>1, <1>6, FlushUsers DEF UsersFlushed
<1>8. Ok(users) \in Seq(Entries)
  <2>1. AssistantEntry(Piece(0, "ok"), <<>>) \in Entries
    BY OutsideEntries
  <2>2. <<AssistantEntry(Piece(0, "ok"), <<>>)>> \in Seq(Entries)
    BY <2>1
  <2> QED BY <2>2, NoEntries DEF Ok
<1>9. q \o Ok(users) \in Seq(Entries)
  BY <1>5, <1>8
<1> QED BY <1>2, <1>3, <1>4, <1>6, <1>7, <1>9

LEMMA AnswersType ==
  ASSUME NEW answers \in Seq(Ids)
  PROVE  /\ FirstAnswers(answers) \in Seq(Ids) /\ Differ(FirstAnswers(answers))
         /\ ToSet(FirstAnswers(answers)) = ToSet(answers) \cap Unpaired
<1>1. PICK w : w = Within(answers, Unpaired)
  OBVIOUS
<1>2. w \in Seq(Ids) /\ ToSet(w) = ToSet(answers) \cap Unpaired
  BY <1>1, WithinType, WithinElements
<1>3. Firsts(w) \in Seq(Ids) /\ ToSet(Firsts(w)) = ToSet(w) /\ Differ(Firsts(w))
  BY <1>2, FirstsFacts
<1> QED BY <1>1, <1>2, <1>3 DEF FirstAnswers

LEMMA OpenUses ==
  ASSUME history \in Seq(Entries)
  PROVE  UseIds \subseteq Ids /\ Unpaired \subseteq Ids
<1>1. \A k \in DOMAIN history : history[k].uses \in Seq(Uses)
  <2>1. \A k \in DOMAIN history : history[k] \in Entries
    OBVIOUS
  <2> QED BY <2>1 DEF Entries
<1>2. \A k \in DOMAIN history : \A j \in DOMAIN history[k].uses : history[k].uses[j] \in Uses
  BY <1>1
<1>3. \A k \in DOMAIN history : \A j \in DOMAIN history[k].uses : history[k].uses[j].id \in Ids
  BY <1>2 DEF Uses
<1> QED BY <1>3 DEF UseIds, Unpaired

LEMMA TypedInit == Init => Typed
<1> SUFFICES ASSUME Init PROVE Typed
  OBVIOUS
<1>1. <<>> \in Seq(Message) /\ <<>> \in Seq(By("user")) /\ <<>> \in Seq(Before("assistant")) /\ <<>> \in Seq(Ids)
  OBVIOUS
<1> QED BY <1>1, NoEntries DEF Init, Typed, Steps

LEMMA TypedNext == Typed /\ [Next]_vars => Typed'
<1> SUFFICES ASSUME Typed, [Next]_vars PROVE Typed'
  OBVIOUS
<1>u. messages' = messages =>
        By("user")' = By("user") /\ Before("assistant")' = Before("assistant")
  BY Unmoved
<1>1. ASSUME NEW m \in Contents, Say(m) PROVE Typed'
  <2>1. Append(request, m) \in Seq(Message)
    BY ContentsType DEF Typed
  <2> QED BY <1>1, <1>u, <2>1 DEF Say, buffers, Typed
<1>2. CASE Reject
  BY <1>2, <1>u DEF Reject, buffers, Typed, Steps
<1>3. CASE Accept
  <2>1. messages' \in Seq(Message) /\ Len(messages') \in Nat \ {0}
    BY <1>3, LastUserIs DEF Accept, Typed
  <2>2. users' = <<>> /\ assistants' = <<>> /\ next' = 1 /\ history' = <<>>
    BY <1>3 DEF Accept, buffers, Typed
  <2>3. users' \in Seq(By("user")') /\ assistants' \in Seq(Before("assistant")')
    BY <2>2
  <2> QED BY <1>3, <2>1, <2>2, <2>3 DEF Accept, Typed, Steps
<1>4. CASE Open
  <2>1. history' \in Seq(Entries)
    <3>1. <<UserEntry(Piece(0, "system"), <<>>, <<>>), AssistantEntry(Piece(0, "promise"), <<>>)>> \in Seq(Entries)
      BY AlignedOpen DEF Typed
    <3> QED BY <1>4, <3>1, NoEntries DEF Open
  <2> QED BY <1>4, <1>u, <2>1 DEF Open, buffers, Typed, Steps
<1>5. CASE TakeUser
  <2>1. history' \in Seq(Entries)
    BY <1>5, FlushTypes DEF TakeUser
  <2>2. next \in By("user")
    BY <1>5 DEF TakeUser, Reads, By, Typed
  <2>3. Append(users, next) \in Seq(By("user")) /\ <<>> \in Seq(Before("assistant"))
    BY <2>2 DEF Typed
  <2>4. next + 1 <= Len(messages) /\ next + 1 \in Nat \ {0}
    BY <1>5 DEF TakeUser, Reads, Typed
  <2> QED BY <1>5, <1>u, <2>1, <2>3, <2>4 DEF TakeUser, Reads, Typed, Steps
<1>6. CASE TakeAssistant
  <2>1. history' \in Seq(Entries)
    BY <1>6, FlushTypes DEF TakeAssistant
  <2>2. next \in Before("assistant")
    BY <1>6 DEF TakeAssistant, Reads, By, Before, Typed
  <2>3. Append(assistants, next) \in Seq(Before("assistant")) /\ <<>> \in Seq(By("user"))
    BY <2>2 DEF Typed
  <2>4. next + 1 <= Len(messages) /\ next + 1 \in Nat \ {0}
    BY <1>6 DEF TakeAssistant, Reads, Typed
  <2> QED BY <1>6, <1>u, <2>1, <2>3, <2>4 DEF TakeAssistant, Reads, Typed, Steps
<1>7. CASE SkipOther
  <2>1. next + 1 <= Len(messages) /\ next + 1 \in Nat \ {0}
    BY <1>7 DEF SkipOther, Typed
  <2> QED BY <1>7, <1>u, <2>1 DEF SkipOther, Typed, Steps
<1>8. CASE CloseHistory
  <2>1. history' \in Seq(Entries)
    BY <1>8, FlushTypes DEF CloseHistory
  <2> QED BY <1>8, <1>u, <2>1 DEF CloseHistory, buffers, Typed, Steps
<1>9. CASE Pair
  <2>1. messages[Len(messages)].results \in Seq(Ids)
    <3>1. Len(messages) \in DOMAIN messages
      BY <1>9 DEF Pair, Typed
    <3> QED BY <3>1, OneOfMessages DEF Typed
  <2>2. results' \in Seq(Ids)
    BY <1>9, <2>1, AnswersType DEF Pair
  <2>3. orphans' \subseteq Ids
    BY <1>9, OpenUses DEF Pair, Typed
  <2> QED BY <1>9, <1>u, <2>2, <2>3 DEF Pair, buffers, Typed, Steps
<1>10. CASE Prune
  <2>1. history' = Pruned(history, Orphaned)
    BY <1>10 DEF Prune, Pruned
  <2>2. history' \in Seq(Entries)
    BY <2>1, PruneFacts DEF Typed, KeepsBut
  <2> QED BY <1>10, <1>u, <2>2 DEF Prune, buffers, Typed, Steps
<1>11. CASE Define
  BY <1>11, <1>u DEF Define, buffers, Typed, Steps
<1>12. CASE UNCHANGED vars
  BY <1>12, <1>u DEF vars, buffers, Typed
<1> QED BY <1>1, <1>2, <1>3, <1>4, <1>5, <1>6, <1>7, <1>8, <1>9, <1>10, <1>11, <1>12 DEF Next

-----------------------------------------------------------------------------
(* The history tells what the messages said.                                 *)
Tracked ==
  /\ pc = "reading" => Aligned(history, users, assistants, next - 1, View)
  /\ pc \in {"pairing", "pruning"} => Aligned(history, <<>>, <<>>, Len(messages) - 1, View)
  /\ pc \in {"defining", "converted"} =>
       /\ Tells(history)
       /\ UsesIn(history) = Without(OverMessages(Earlier("assistant"), UsesOf), Orphaned)

LEMMA SameTelling ==
  ASSUME messages' = messages, Orphaned' = Orphaned, Tells(history),
         ContentIn(history') = ContentIn(history), ImagesIn(history') = ImagesIn(history),
         ResultsIn(history') = ResultsIn(history),
         UsesIn(history') = Without(OverMessages(Earlier("assistant"), UsesOf), Orphaned)
  PROVE  /\ Tells(history)'
         /\ (UsesIn(history) = Without(OverMessages(Earlier("assistant"), UsesOf), Orphaned))'
BY Unmoved DEF Tells, Heard

LEMMA TrackedNext == Typed /\ Tracked /\ [Next]_vars => Tracked'
<1> SUFFICES ASSUME Typed, Tracked, [Next]_vars PROVE Tracked'
  OBVIOUS
<1>u. messages' = messages => View' = View
  BY Unmoved
<1>1. ASSUME pc' \in {"client", "rejected", "opening"} PROVE Tracked'
  BY <1>1 DEF Tracked
<1>2. ASSUME NEW m \in Contents, Say(m) PROVE Tracked'
  BY <1>1, <1>2 DEF Say
<1>3. CASE Reject
  BY <1>1, <1>3 DEF Reject
<1>4. CASE Accept
  BY <1>1, <1>4 DEF Accept
<1>5. CASE Open
  <2>1. /\ pc' = "reading" /\ users' = <<>> /\ assistants' = <<>> /\ next' = 1 /\ View' = View
    BY <1>5, <1>u DEF Open, buffers, Typed
  <2>2. Aligned(history', <<>>, <<>>, 0, View)
    <3>1. /\ Aligned(<<>>, <<>>, <<>>, 0, View)
          /\ Aligned(<<UserEntry(Piece(0, "system"), <<>>, <<>>), AssistantEntry(Piece(0, "promise"), <<>>)>>,
                     <<>>, <<>>, 0, View)
      BY AlignedOpen DEF Typed
    <3> QED BY <1>5, <3>1 DEF Open
  <2>3. Aligned(history', users', assistants', next' - 1, View')
    BY <2>1, <2>2
  <2> QED BY <2>1, <2>3 DEF Tracked
<1>6. CASE TakeUser
  <2>1. PICK n \in Nat : n = next - 1 /\ next = n + 1
    BY DEF Typed
  <2>2. /\ pc = "reading" /\ pc' = "reading" /\ users' = Append(users, next) /\ assistants' = <<>>
        /\ next' = next + 1 /\ history' = history \o Flush(assistants, MergeAssistants) /\ View' = View
    BY <1>6, <1>u DEF TakeUser, Reads
  <2>3. next \in By("user")
    BY <1>6 DEF TakeUser, Reads, By, Typed
  <2>4. Aligned(history, users, assistants, n, View)
    BY <2>1, <2>2 DEF Tracked
  <2>5. messages \in Seq(Message) /\ history \in Seq(Entries) /\ users \in Seq(By("user"))
        /\ assistants \in Seq(By("assistant"))
    BY AssistantsBefore DEF Typed
  <2>6. Aligned(history', Append(users, n + 1), <<>>, n + 1, View)
    BY <2>1, <2>2, <2>3, <2>4, <2>5, AlignedUser
  <2>7. next' - 1 = n + 1
    BY <2>1, <2>2
  <2>8. Aligned(history', users', assistants', next' - 1, View')
    BY <2>1, <2>2, <2>6, <2>7
  <2> QED BY <2>2, <2>8 DEF Tracked
<1>7. CASE TakeAssistant
  <2>1. PICK n \in Nat : n = next - 1 /\ next = n + 1
    BY DEF Typed
  <2>2. /\ pc = "reading" /\ pc' = "reading" /\ assistants' = Append(assistants, next) /\ users' = <<>>
        /\ next' = next + 1 /\ history' = history \o Flush(users, MergeUsers) /\ View' = View
    BY <1>7, <1>u DEF TakeAssistant, Reads
  <2>3. next \in By("assistant")
    BY <1>7 DEF TakeAssistant, Reads, By, Typed
  <2>4. Aligned(history, users, assistants, n, View)
    BY <2>1, <2>2 DEF Tracked
  <2>5. messages \in Seq(Message) /\ history \in Seq(Entries) /\ users \in Seq(By("user"))
        /\ assistants \in Seq(By("assistant"))
    BY AssistantsBefore DEF Typed
  <2>6. Aligned(history', <<>>, Append(assistants, n + 1), n + 1, View)
    BY <2>1, <2>2, <2>3, <2>4, <2>5, AlignedAssistant
  <2>7. next' - 1 = n + 1
    BY <2>1, <2>2
  <2>8. Aligned(history', users', assistants', next' - 1, View')
    BY <2>1, <2>2, <2>6, <2>7
  <2> QED BY <2>2, <2>8 DEF Tracked
<1>8. CASE SkipOther
  <2>1. PICK n \in Nat : n = next - 1 /\ next = n + 1
    BY DEF Typed
  <2>2. /\ pc = "reading" /\ pc' = "reading" /\ users' = users /\ assistants' = assistants
        /\ next' = next + 1 /\ history' = history /\ View' = View
    BY <1>8, <1>u DEF SkipOther
  <2>3. next \notin By("user") /\ next \notin By("assistant")
    BY <1>8 DEF SkipOther, By
  <2>4. next \notin View.users /\ next \notin View.assistants
    BY <2>3 DEF View
  <2>5. Aligned(history, users, assistants, n, View)
    BY <2>1, <2>2 DEF Tracked
  <2>6. Aligned(history, users, assistants, n + 1, View)
    BY <2>1, <2>4, <2>5, AlignedOther
  <2>7. next' - 1 = n + 1
    BY <2>1, <2>2
  <2>8. Aligned(history', users', assistants', next' - 1, View')
    BY <2>2, <2>6, <2>7
  <2> QED BY <2>2, <2>8 DEF Tracked
<1>9. CASE CloseHistory
  <2>1. /\ pc = "reading" /\ pc' = "pairing" /\ next - 1 = Len(messages) - 1 /\ View' = View /\ messages' = messages
        /\ history' = history \o Flush(assistants, MergeAssistants) \o Flush(users, MergeUsers) \o Ok(users)
    BY <1>9, <1>u DEF CloseHistory
  <2>2. messages \in Seq(Message) /\ history \in Seq(Entries) /\ users \in Seq(By("user"))
        /\ assistants \in Seq(By("assistant"))
    BY AssistantsBefore DEF Typed
  <2>3. Aligned(history, users, assistants, next - 1, View)
    BY <2>1 DEF Tracked
  <2>4. Aligned(history', <<>>, <<>>, next - 1, View)
    BY <2>1, <2>2, <2>3, AlignedClose
  <2>5. Aligned(history', <<>>, <<>>, Len(messages') - 1, View')
    BY <2>1, <2>4
  <2> QED BY <2>1, <2>5 DEF Tracked
<1>10. CASE Pair
  <2>1. pc = "pairing" /\ pc' = "pruning" /\ history' = history /\ messages' = messages /\ View' = View
    BY <1>10, <1>u DEF Pair
  <2>2. Aligned(history, <<>>, <<>>, Len(messages) - 1, View)
    BY <2>1 DEF Tracked
  <2>3. Aligned(history', <<>>, <<>>, Len(messages') - 1, View')
    BY <2>1, <2>2
  <2> QED BY <2>1, <2>3 DEF Tracked
<1>11. CASE Prune
  <2>1. /\ pc = "pruning" /\ pc' = "defining" /\ history' = Pruned(history, Orphaned) /\ messages' = messages
        /\ orphans' = orphans
    BY <1>11 DEF Prune, Pruned
  <2>2. Aligned(history, <<>>, <<>>, Len(messages) - 1, View)
    BY <2>1 DEF Tracked
  <2>3. messages # <<>>
    BY <2>1 DEF Typed
  <2>4. Tells(history) /\ UsesIn(history) = OverMessages(Earlier("assistant"), UsesOf)
    BY <2>2, <2>3, AlignedTells DEF Typed
  <2>5. KeepsBut(history, history', Orphaned)
    BY <2>1, PruneFacts DEF Typed
  <2>6. Orphaned' = Orphaned
    BY <2>1 DEF Orphaned
  <2>7. UsesIn(history') = Without(OverMessages(Earlier("assistant"), UsesOf), Orphaned)
    BY <2>4, <2>5 DEF KeepsBut
  <2>8. Tells(history)' /\ (UsesIn(history) = Without(OverMessages(Earlier("assistant"), UsesOf), Orphaned))'
    <3>1. ContentIn(history') = ContentIn(history) /\ ImagesIn(history') = ImagesIn(history)
          /\ ResultsIn(history') = ResultsIn(history)
      BY <2>5 DEF KeepsBut
    <3> QED BY <2>1, <2>4, <2>6, <2>7, <3>1, SameTelling
  <2> QED BY <2>1, <2>8 DEF Tracked
<1>12. CASE Define \/ UNCHANGED vars
  <2>1. /\ pc \in {"defining", "converted"} <=> pc' \in {"defining", "converted"}
        /\ Define => pc \in {"defining", "converted"}
        /\ history' = history /\ messages' = messages /\ orphans' = orphans /\ View' = View
        /\ users' = users /\ assistants' = assistants /\ next' = next
    BY <1>12, <1>u DEF Define, vars, buffers
  <2>2. CASE pc \in {"defining", "converted"}
    <3>1. Tells(history) /\ UsesIn(history) = Without(OverMessages(Earlier("assistant"), UsesOf), Orphaned)
      BY <2>2 DEF Tracked
    <3>2. Orphaned' = Orphaned
      BY <2>1 DEF Orphaned
    <3>3. Tells(history)' /\ (UsesIn(history) = Without(OverMessages(Earlier("assistant"), UsesOf), Orphaned))'
      BY <2>1, <3>1, <3>2, SameTelling
    <3> QED BY <2>1, <2>2, <3>3 DEF Tracked
  <2>3. CASE pc \notin {"defining", "converted"}
    <3>1. pc' = pc
      BY <1>12, <2>1, <2>3 DEF vars
    <3> QED BY <2>1, <2>3, <3>1 DEF Tracked
  <2> QED BY <2>2, <2>3
<1> QED BY <1>2, <1>3, <1>4, <1>5, <1>6, <1>7, <1>8, <1>9, <1>10, <1>11, <1>12 DEF Next
-----------------------------------------------------------------------------
(* The roles alternate.                                                      *)
Promised(h) == Opens /\ h[2].content = Piece(0, "promise")
Base(h) == h = <<>> \/ (Len(h) = 2 /\ h[2].role = "assistant" /\ Promised(h))
Ends(h, role) == h # <<>> => h[Len(h)].role = role
Joins(h) == \A k \in 1 .. Len(h) - 1 : h[k].role # h[k + 1].role \/ (k = 2 /\ Promised(h))

Shaped ==
  /\ Joins(history)
  /\ pc = "reading" =>
       \/ users = <<>> /\ assistants = <<>> /\ Base(history)
       \/ users # <<>> /\ assistants = <<>> /\ Ends(history, "assistant")
       \/ users = <<>> /\ assistants # <<>> /\ (Base(history) \/ Ends(history, "user"))
  /\ pc \in {"pairing", "pruning", "defining", "converted"} => Ends(history, "assistant")

LEMMA JoinsMore ==
  ASSUME NEW h \in Seq(Entries), Joins(h), NEW e \in Entries, NEW role, NEW other, other # role,
         e.role = role, Ends(h, other) \/ Base(h), NEW g, g = h \o <<e>>
  PROVE  g \in Seq(Entries) /\ Joins(g) /\ Ends(g, role)
<1>1. PICK n \in Nat : n = Len(h)
  OBVIOUS
<1>2. g \in Seq(Entries) /\ Len(g) = n + 1 /\ g[n + 1] = e /\ \A k \in 1 .. n : g[k] = h[k]
  BY <1>1
<1>3. Ends(g, role)
  BY <1>2 DEF Ends
<1>4. ASSUME NEW k \in 1 .. n PROVE g[k].role # g[k + 1].role \/ (k = 2 /\ Promised(g))
  <2>1. CASE k < n
    <3>1. k \in 1 .. n - 1 /\ g[k] = h[k] /\ g[k + 1] = h[k + 1]
      BY <1>2, <2>1
    <3>2. h[k].role # h[k + 1].role \/ (k = 2 /\ Promised(h))
      BY <1>1, <3>1 DEF Joins
    <3>3. k = 2 => g[2] = h[2]
      BY <3>1
    <3> QED BY <3>1, <3>2, <3>3 DEF Promised
  <2>2. CASE k = n
    <3>1. g[k] = h[n] /\ g[k + 1] = e /\ n # 0 /\ h # <<>>
      BY <1>1, <1>2, <2>2
    <3>2. CASE Ends(h, other)
      <4>1. h[n].role = other
        BY <1>1, <3>1, <3>2 DEF Ends
      <4> QED BY <3>1, <4>1
    <3>3. CASE Base(h)
      <4>1. n = 2 /\ Promised(h)
        BY <1>1, <3>1, <3>3 DEF Base
      <4>2. g[2] = h[2] /\ k = 2
        BY <1>2, <2>2, <4>1
      <4> QED BY <4>1, <4>2 DEF Promised
    <3> QED BY <3>2, <3>3
  <2> QED BY <1>1, <2>1, <2>2
<1>5. Joins(g)
  BY <1>2, <1>4 DEF Joins
<1> QED BY <1>2, <1>3, <1>5

LEMMA BaseEnds == ASSUME NEW h, Base(h) PROVE Ends(h, "assistant")
BY DEF Base, Ends

\* What a flush adds to a history, if it adds anything.
LEMMA FlushJoins ==
  ASSUME Typed, NEW h \in Seq(Entries), Joins(h)
  PROVE  /\ \A g : users # <<>> /\ Ends(h, "assistant") /\ g = h \o Flush(users, MergeUsers)
                     => g \in Seq(Entries) /\ Joins(g) /\ Ends(g, "user")
         /\ \A g : assistants # <<>> /\ (Ends(h, "user") \/ Base(h)) /\ g = h \o Flush(assistants, MergeAssistants)
                     => g \in Seq(Entries) /\ Joins(g) /\ Ends(g, "assistant")
         /\ \A g : Ends(h, "user") /\ users # <<>> /\ g = h \o Ok(users)
                     => g \in Seq(Entries) /\ Joins(g) /\ Ends(g, "assistant")
<1>0. "user" # "assistant"
  OBVIOUS
<1>1. MergeUsers(users) \in Entries /\ MergeUsers(users).role = "user"
  <2>1. MergeUsers(users) \in Entries
    BY UserTypes DEF Typed
  <2> QED BY <2>1 DEF MergeUsers, UserEntry
<1>2. MergeAssistants(assistants) \in Entries /\ MergeAssistants(assistants).role = "assistant"
  <2>1. /\ MergeAssistants(assistants) \in Entries
        /\ MergeAssistants(assistants) = AssistantEntry(Said(assistants), OverMessages(assistants, UsesOf))
    BY AssistantsBefore, AssistantTypes DEF Typed
  <2>2. AssistantEntry(Said(assistants), OverMessages(assistants, UsesOf)).role = "assistant"
    BY DEF AssistantEntry
  <2> QED BY <2>1, <2>2
<1>3. AssistantEntry(Piece(0, "ok"), <<>>) \in Entries /\ AssistantEntry(Piece(0, "ok"), <<>>).role = "assistant"
  BY OutsideEntries DEF AssistantEntry
<1>4. ASSUME NEW g, users # <<>>, Ends(h, "assistant"), g = h \o Flush(users, MergeUsers)
      PROVE  g \in Seq(Entries) /\ Joins(g) /\ Ends(g, "user")
  <2>1. PICK e : e = MergeUsers(users)
    OBVIOUS
  <2>2. g = h \o <<e>>
    BY <1>4, <2>1 DEF Flush
  <2> QED BY <1>0, <1>1, <1>4, <2>1, <2>2, JoinsMore
<1>5. ASSUME NEW g, assistants # <<>>, Ends(h, "user") \/ Base(h), g = h \o Flush(assistants, MergeAssistants)
      PROVE  g \in Seq(Entries) /\ Joins(g) /\ Ends(g, "assistant")
  <2>1. PICK e : e = MergeAssistants(assistants)
    OBVIOUS
  <2>2. g = h \o <<e>>
    BY <1>5, <2>1 DEF Flush
  <2> QED BY <1>0, <1>2, <1>5, <2>1, <2>2, JoinsMore
<1>6. ASSUME NEW g, Ends(h, "user"), users # <<>>, g = h \o Ok(users)
      PROVE  g \in Seq(Entries) /\ Joins(g) /\ Ends(g, "assistant")
  <2>1. PICK e : e = AssistantEntry(Piece(0, "ok"), <<>>)
    OBVIOUS
  <2>2. g = h \o <<e>>
    BY <1>6, <2>1 DEF Ok
  <2> QED BY <1>0, <1>3, <1>6, <2>1, <2>2, JoinsMore
<1> QED BY <1>4, <1>5, <1>6

LEMMA FlushNothing ==
  ASSUME Typed
  PROVE  /\ users = <<>> => \A h \in Seq(Entries) : h \o Flush(users, MergeUsers) = h /\ h \o Ok(users) = h
         /\ assistants = <<>> => \A h \in Seq(Entries) : h \o Flush(assistants, MergeAssistants) = h
BY Nothing DEF Flush, Ok

LEMMA ShapedNext == Typed /\ Shaped /\ [Next]_vars => Shaped'
<1> SUFFICES ASSUME Typed, Shaped, [Next]_vars PROVE Shaped'
  OBVIOUS
<1>h. history \in Seq(Entries)
  BY DEF Typed
<1>1. ASSUME history' = history, options' = options,
             pc' = pc \/ pc' \in {"client", "rejected", "opening"}
               \/ {pc, pc'} \subseteq {"pairing", "pruning", "defining", "converted"},
             pc' = "reading" => users' = users /\ assistants' = assistants
      PROVE  Shaped'
  BY <1>1 DEF Shaped, Joins, Ends, Base, Promised, Opens
<1>2. ASSUME NEW m \in Contents, Say(m) PROVE Shaped'
  BY <1>1, <1>2 DEF Say, buffers
<1>3. CASE Reject
  BY <1>1, <1>3 DEF Reject, buffers
<1>4. CASE Accept
  BY <1>1, <1>4 DEF Accept, buffers
<1>5. CASE Open
  <2>1. pc' = "reading" /\ users' = <<>> /\ assistants' = <<>> /\ Opens' = Opens
    BY <1>5 DEF Open, buffers, Typed, Opens
  <2>2. CASE Opens
    <3>1. PICK e, f : e = UserEntry(Piece(0, "system"), <<>>, <<>>) /\ f = AssistantEntry(Piece(0, "promise"), <<>>)
      OBVIOUS
    <3>2. history' = <<e, f>>
      BY <1>5, <2>2, <3>1 DEF Open
    <3>3. e.role = "user" /\ f.role = "assistant" /\ f.content = Piece(0, "promise")
      BY <3>1 DEF UserEntry, AssistantEntry
    <3>4. history'[1] = e /\ history'[2] = f /\ Len(history') = 2
      BY <3>2
    <3>5. Promised(history)'
      BY <2>1, <2>2, <3>3, <3>4 DEF Promised
    <3>6. Base(history)' /\ Joins(history)'
      BY <3>3, <3>4, <3>5 DEF Base, Joins
    <3> QED BY <2>1, <3>6 DEF Shaped
  <2>3. CASE ~Opens
    <3>1. history' = <<>> /\ Len(history') = 0
      BY <1>5, <2>3 DEF Open
    <3> QED BY <2>1, <3>1 DEF Shaped, Base, Joins
  <2> QED BY <2>2, <2>3
<1>6. CASE TakeUser
  <2>1. /\ pc = "reading" /\ pc' = "reading" /\ users' = Append(users, next) /\ assistants' = <<>>
        /\ history' = history \o Flush(assistants, MergeAssistants) /\ options' = options
    BY <1>6 DEF TakeUser, Reads
  <2>2. users' # <<>>
    <3>1. users \in Seq(By("user")) /\ next \in By("user")
      BY <1>6 DEF TakeUser, Reads, By, Before, Typed
    <3> QED BY <2>1, <3>1
  <2>3. Joins(history') /\ Ends(history', "assistant")
    <3>1. CASE assistants = <<>>
      <4>1. history' = history
        BY <1>h, <2>1, <3>1, FlushNothing
      <4>2. Ends(history, "assistant") /\ Joins(history)
        BY <2>1, <3>1, BaseEnds DEF Shaped
      <4> QED BY <4>1, <4>2
    <3>2. CASE assistants # <<>>
      BY <1>h, <2>1, <3>2, FlushJoins DEF Shaped
    <3> QED BY <3>1, <3>2
  <2>4. Joins(history)'
    BY <2>1, <2>3 DEF Joins, Promised, Opens
  <2> QED BY <2>1, <2>2, <2>3, <2>4 DEF Shaped
<1>7. CASE TakeAssistant
  <2>1. /\ pc = "reading" /\ pc' = "reading" /\ assistants' = Append(assistants, next) /\ users' = <<>>
        /\ history' = history \o Flush(users, MergeUsers) /\ options' = options
    BY <1>7 DEF TakeAssistant, Reads
  <2>2. assistants' # <<>>
    <3>1. assistants \in Seq(Before("assistant")) /\ next \in Before("assistant")
      BY <1>7 DEF TakeAssistant, Reads, By, Before, Typed
    <3> QED BY <2>1, <3>1
  <2>3. Joins(history') /\ (Base(history') \/ Ends(history', "user"))
    <3>1. CASE users = <<>>
      <4>1. history' = history
        BY <1>h, <2>1, <3>1, FlushNothing
      <4>2. (Base(history) \/ Ends(history, "user")) /\ Joins(history)
        BY <2>1, <3>1 DEF Shaped
      <4> QED BY <4>1, <4>2
    <3>2. CASE users # <<>>
      BY <1>h, <2>1, <3>2, FlushJoins DEF Shaped
    <3> QED BY <3>1, <3>2
  <2>4. Joins(history)' /\ (Base(history)' \/ Ends(history', "user"))
    BY <2>1, <2>3 DEF Joins, Base, Promised, Opens
  <2> QED BY <2>1, <2>2, <2>4 DEF Shaped
<1>8. CASE SkipOther
  BY <1>1, <1>8 DEF SkipOther
<1>9. CASE CloseHistory
  <2>1. /\ pc = "reading" /\ pc' = "pairing" /\ options' = options
        /\ history' = history \o Flush(assistants, MergeAssistants) \o Flush(users, MergeUsers) \o Ok(users)
    BY <1>9 DEF CloseHistory
  <2>2. PICK p, q : p = history \o Flush(assistants, MergeAssistants) /\ q = p \o Flush(users, MergeUsers)
    OBVIOUS
  <2>3. history' = q \o Ok(users)
    BY <2>1, <2>2
  <2>4. CASE users = <<>>
    <3>1. p \in Seq(Entries) /\ Joins(p) /\ Ends(p, "assistant")
      <4>1. CASE assistants = <<>>
        <5>1. p = history
          BY <1>h, <2>2, <4>1, FlushNothing
        <5> QED BY <1>h, <2>1, <2>4, <4>1, <5>1, BaseEnds DEF Shaped
      <4>2. CASE assistants # <<>>
        BY <1>h, <2>1, <2>2, <2>4, <4>2, FlushJoins DEF Shaped
      <4> QED BY <4>1, <4>2
    <3>2. q = p /\ history' = p
      BY <2>2, <2>3, <2>4, <3>1, FlushNothing
    <3>3. Joins(history)'
      BY <2>1, <3>1, <3>2 DEF Joins, Promised, Opens
    <3> QED BY <2>1, <3>1, <3>2, <3>3 DEF Shaped
  <2>5. CASE users # <<>>
    <3>1. assistants = <<>> /\ Ends(history, "assistant") /\ Joins(history)
      BY <2>1, <2>5 DEF Shaped
    <3>2. p = history
      BY <1>h, <2>2, <3>1, FlushNothing
    <3>3. q \in Seq(Entries) /\ Joins(q) /\ Ends(q, "user")
      BY <1>h, <2>2, <2>5, <3>1, <3>2, FlushJoins
    <3>4. Joins(history') /\ Ends(history', "assistant")
      BY <2>3, <2>5, <3>3, FlushJoins
    <3>5. Joins(history)'
      BY <2>1, <3>4 DEF Joins, Promised, Opens
    <3> QED BY <2>1, <3>4, <3>5 DEF Shaped
  <2> QED BY <2>4, <2>5
<1>10. CASE Pair
  BY <1>1, <1>10 DEF Pair
<1>11. CASE Prune
  <2>1. history' = Pruned(history, Orphaned) /\ pc = "pruning" /\ pc' = "defining" /\ options' = options
    BY <1>11 DEF Prune, Pruned
  <2>2. /\ history' \in Seq(Entries) /\ Len(history') = Len(history)
        /\ \A k \in 1 .. Len(history) : history'[k].role = history[k].role /\ history'[k].content = history[k].content
    BY <1>h, <2>1, PruneFacts DEF KeepsBut
  <2>3. PICK n \in Nat : n = Len(history) /\ (n = 0 <=> history = <<>>) /\ (n = 0 <=> history' = <<>>)
    BY <1>h, <2>2
  <2>4. Joins(history)'
    <3>1. SUFFICES ASSUME NEW k \in 1 .. n - 1
                   PROVE  history'[k].role # history'[k + 1].role \/ (k = 2 /\ Promised(history)')
      BY <2>2, <2>3 DEF Joins
    <3>2. history[k].role # history[k + 1].role \/ (k = 2 /\ Promised(history))
      BY <2>3 DEF Shaped, Joins
    <3>3. k \in 1 .. n /\ k + 1 \in 1 .. n
      OBVIOUS
    <3>4. k = 2 => history'[2].content = history[2].content
      BY <2>2, <2>3, <3>3
    <3> QED BY <2>1, <2>2, <2>3, <3>2, <3>3, <3>4 DEF Promised, Opens
  <2>5. Ends(history', "assistant")
    <3>1. Ends(history, "assistant")
      BY <2>1 DEF Shaped
    <3>2. n # 0 => n \in 1 .. n
      OBVIOUS
    <3> QED BY <2>2, <2>3, <3>1, <3>2 DEF Ends
  <2> QED BY <2>1, <2>4, <2>5 DEF Shaped
<1>12. CASE Define
  BY <1>1, <1>12 DEF Define
<1>13. CASE UNCHANGED vars
  BY <1>1, <1>13 DEF vars, buffers
<1> QED BY <1>2, <1>3, <1>4, <1>5, <1>6, <1>7, <1>8, <1>9, <1>10, <1>11, <1>12, <1>13 DEF Next

LEMMA FaithfulState == Typed /\ Tracked /\ Shaped => HistoryFaithful
<1> SUFFICES ASSUME Typed, Tracked, Shaped, pc = "converted" PROVE HistoryFaithful
  BY DEF HistoryFaithful
<1>1. Tells(history) /\ UsesIn(history) = Without(OverMessages(Earlier("assistant"), UsesOf), Orphaned)
  BY DEF Tracked
<1>2. DOMAIN history = 1 .. Len(history) /\ Len(history) \in Nat
  BY DEF Typed
<1>3. ASSUME NEW k \in DOMAIN history
      PROVE  \/ k = Len(history) /\ history[k].role = "assistant"
             \/ k < Len(history) /\ history[k].role # history[k + 1].role
             \/ k = 2 /\ Opens /\ history[2].content = Piece(0, "promise")
  <2>1. CASE k = Len(history)
    <3>1. history # <<>>
      BY <1>2
    <3> QED BY <2>1, <3>1 DEF Shaped, Ends
  <2>2. CASE k # Len(history)
    <3>1. k \in 1 .. Len(history) - 1 /\ k < Len(history)
      BY <1>2, <2>2
    <3> QED BY <3>1 DEF Shaped, Joins, Promised
  <2> QED BY <2>1, <2>2
<1> QED BY <1>1, <1>3, InHistory DEF HistoryFaithful, Tells, Heard

\* Roles alternate up to an assistant, and merging loses or reorders neither words nor
\* images nor answers nor answered tool uses of the earlier messages (build_history) --
\* whatever the messages, their roles, the system prompt and the tool ids.
THEOREM HistoryIsFaithful == Spec => []HistoryFaithful
<1>1. Init => Typed /\ Tracked /\ Shaped
  <2>1. Init => Typed
    BY TypedInit
  <2>2. ASSUME Init PROVE Tracked /\ Shaped
    <3>1. pc = "client" /\ history = <<>> /\ Len(history) = 0
      BY <2>2 DEF Init
    <3> QED BY <3>1 DEF Tracked, Shaped, Joins
  <2> QED BY <2>1, <2>2
<1>2. Typed /\ Tracked /\ Shaped /\ [Next]_vars => (Typed /\ Tracked /\ Shaped)'
  BY TypedNext, TrackedNext, ShapedNext
<1>3. Typed /\ Tracked /\ Shaped => HistoryFaithful
  BY FaithfulState
<1> QED BY <1>1, <1>2, <1>3, PTL DEF Spec
-----------------------------------------------------------------------------
(* Every use has an answer.                                                  *)
Paired ==
  /\ pc = "pruning" => /\ ToSet(results) \subseteq Unpaired /\ Differ(results)
                       /\ orphans = Unpaired \ ToSet(results)
  /\ pc \in {"defining", "converted"} =>
       /\ UseIds \subseteq Answered \cup ToSet(results)
       /\ ToSet(results) \subseteq UseIds \ Answered /\ Differ(results)

LEMMA PairedNext == Typed /\ Paired /\ [Next]_vars => Paired'
<1> SUFFICES ASSUME Typed, Paired, [Next]_vars PROVE Paired'
  OBVIOUS
<1>1. ASSUME pc' \notin {"pruning", "defining", "converted"} PROVE Paired'
  BY <1>1 DEF Paired
<1>2. ASSUME NEW m \in Contents, Say(m) PROVE Paired'
  BY <1>1, <1>2 DEF Say
<1>3. CASE Reject
  BY <1>1, <1>3 DEF Reject
<1>4. CASE Accept
  BY <1>1, <1>4 DEF Accept
<1>5. CASE Open
  BY <1>1, <1>5 DEF Open
<1>6. CASE TakeUser
  BY <1>1, <1>6 DEF TakeUser, Reads
<1>7. CASE TakeAssistant
  BY <1>1, <1>7 DEF TakeAssistant, Reads
<1>8. CASE SkipOther
  BY <1>1, <1>8 DEF SkipOther
<1>9. CASE CloseHistory
  BY <1>1, <1>9 DEF CloseHistory
<1>10. CASE Pair
  <2>1. PICK answers : answers = messages[Len(messages)].results
    OBVIOUS
  <2>2. answers \in Seq(Ids)
    <3>1. Len(messages) \in DOMAIN messages
      BY <1>10 DEF Pair, Typed
    <3> QED BY <2>1, <3>1, OneOfMessages DEF Typed
  <2>3. results' = FirstAnswers(answers)
    BY <1>10, <2>1 DEF Pair
  <2>4. Differ(results') /\ ToSet(results') \subseteq Unpaired
    BY <2>2, <2>3, AnswersType
  <2>5. orphans' = Unpaired \ ToSet(results') /\ pc' = "pruning" /\ history' = history
    BY <1>10 DEF Pair
  <2>6. Unpaired' = Unpaired
    BY <2>5 DEF Unpaired, UseIds, Answered
  <2> QED BY <2>4, <2>5, <2>6 DEF Paired
<1>11. CASE Prune
  <2>1. history' = Pruned(history, Orphaned) /\ pc = "pruning" /\ pc' = "defining" /\ results' = results
    BY <1>11 DEF Prune, Pruned
  <2>2. ToSet(results) \subseteq Unpaired /\ Differ(results) /\ orphans = Unpaired \ ToSet(results)
    BY <2>1 DEF Paired
  <2>3. PICK n \in Nat : n = Len(history) /\ DOMAIN history = 1 .. n
    BY DEF Typed
  <2>4. /\ history' \in Seq(Entries) /\ Len(history') = n
        /\ \A k \in 1 .. n : /\ history'[k].results = history[k].results
                             /\ ToSet(history'[k].uses) = ToSet(history[k].uses) \ Orphaned
    <3>1. KeepsBut(history, history', Orphaned)
      BY <2>1, PruneFacts DEF Typed
    <3> QED BY <2>3, <3>1 DEF KeepsBut
  <2>5. DOMAIN history' = 1 .. n
    BY <2>4
  <2>6. Answered' = Answered
    BY <2>3, <2>4, <2>5 DEF Answered
  <2>7. UseIds = {u.id : u \in UNION {ToSet(history[k].uses) : k \in 1 .. n}}
    BY <2>3 DEF UseIds, ToSet
  <2>8. UseIds' = {u.id : u \in UNION {ToSet(history'[k].uses) : k \in 1 .. n}}
    BY <2>5 DEF UseIds, ToSet
  <2>9. \A k \in 1 .. n : ToSet(history[k].uses) \subseteq Uses
    <3> TAKE k \in 1 .. n
    <3>1. history[k] \in Entries
      BY <2>3 DEF Typed
    <3>2. PICK us : us = history[k].uses
      OBVIOUS
    <3>3. us \in Seq(Uses)
      BY <3>1, <3>2 DEF Entries
    <3>4. ToSet(us) \subseteq Uses
      BY <3>3 DEF ToSet
    <3> QED BY <3>2, <3>4
  <2>10. UseIds' = UseIds \ orphans
    <3>1. ASSUME NEW x \in UseIds' PROVE x \in UseIds \ orphans
      <4>1. PICK k \in 1 .. n : \E u \in ToSet(history'[k].uses) : x = u.id
        BY <2>8
      <4>a. PICK u \in ToSet(history'[k].uses) : x = u.id
        BY <4>1
      <4>2. u \in ToSet(history[k].uses) /\ u \notin Orphaned
        BY <2>4, <4>a
      <4>3. u \in Uses /\ u.id \notin orphans
        BY <2>9, <4>2 DEF Orphaned
      <4> QED BY <2>7, <4>a, <4>2, <4>3
    <3>2. ASSUME NEW x \in UseIds \ orphans PROVE x \in UseIds'
      <4>1. PICK k \in 1 .. n : \E u \in ToSet(history[k].uses) : x = u.id
        BY <2>7
      <4>a. PICK u \in ToSet(history[k].uses) : x = u.id
        BY <4>1
      <4>2. u \notin Orphaned
        BY <3>2, <4>a DEF Orphaned
      <4>3. u \in ToSet(history'[k].uses)
        BY <2>4, <4>a, <4>2
      <4> QED BY <2>8, <4>a, <4>3
    <3> QED BY <3>1, <3>2
  <2>11. UseIds' \subseteq Answered' \cup ToSet(results')
    BY <2>1, <2>2, <2>6, <2>10 DEF Unpaired
  <2>12. ToSet(results') \subseteq UseIds' \ Answered'
    BY <2>1, <2>2, <2>6, <2>10 DEF Unpaired
  <2> QED BY <2>1, <2>2, <2>11, <2>12 DEF Paired
<1>12. CASE Define
  <2>1. pc = "defining" /\ pc' = "converted" /\ history' = history /\ results' = results
    BY <1>12 DEF Define
  <2>2. UseIds' = UseIds /\ Answered' = Answered
    BY <2>1 DEF UseIds, Answered
  <2> QED BY <2>1, <2>2 DEF Paired
<1>13. CASE UNCHANGED vars
  <2>1. pc' = pc /\ history' = history /\ results' = results /\ orphans' = orphans
    BY <1>13 DEF vars
  <2>2. UseIds' = UseIds /\ Answered' = Answered
    BY <2>1 DEF UseIds, Answered
  <2> QED BY <2>1, <2>2 DEF Paired, Unpaired
<1> QED BY <1>2, <1>3, <1>4, <1>5, <1>6, <1>7, <1>8, <1>9, <1>10, <1>11, <1>12, <1>13 DEF Next

LEMMA PairedState == Typed /\ Paired => PairingHolds
<1> SUFFICES ASSUME Typed, Paired, pc \in {"defining", "converted"} PROVE PairingHolds
  BY DEF PairingHolds
<1>1. /\ UseIds \subseteq Answered \cup ToSet(results)
      /\ ToSet(results) \subseteq UseIds \ Answered /\ Differ(results)
  BY DEF Paired
<1>2. \A k \in DOMAIN results : results[k] \in ToSet(results)
  BY DEF ToSet
<1>3. \A k \in DOMAIN results : \A j \in DOMAIN results \ {k} : results[j] # results[k]
  BY <1>1 DEF Differ
<1> QED BY <1>1, <1>2, <1>3 DEF PairingHolds

\* Every tool use that goes upstream is answered once, in the history or in the current
\* message, and the current message answers only uses of the history that nothing there
\* answers (validate_tool_pairing, remove_orphaned_tool_uses) -- whatever ids the client
\* repeats, leaves open or makes up.
THEOREM PairingIsKept == Spec => []PairingHolds
<1>1. Init => Typed /\ Paired
  <2>1. Init => Typed
    BY TypedInit
  <2>2. Init => Paired
    BY DEF Init, Paired
  <2> QED BY <2>1, <2>2
<1>2. Typed /\ Paired /\ [Next]_vars => (Typed /\ Paired)'
  BY TypedNext, PairedNext
<1>3. Typed /\ Paired => PairingHolds
  BY PairedState
<1> QED BY <1>1, <1>2, <1>3, PTL DEF Spec
-----------------------------------------------------------------------------
(* Every name sent leads back to a name of the client.                        *)
\* A name over the limit is cut from one of the client.
Cut(n, own) == n \in Long => CutOf(n, own)
SendableNames == {n \in Names : Cut(n, ClientNames) /\ (n \in DOMAIN names \/ n \in ClientNames)}
SentUses == {u \in Uses : u.name \in SendableNames}

\* The names of ns that none of these tools has, in any case.
Extra(own, ns) == Firsts(Within(ns, {n \in Names : Lower[n] \notin {Lower[own[k]] : k \in DOMAIN own}}))

Defined ==
  /\ \A s \in DOMAIN names : names[s] \in ClientNames
  /\ pc \in {"client", "rejected"} => names = <<>>
  /\ pc \notin {"client", "rejected"} => UsesIn(history) \in Seq(SentUses)
  /\ pc \in {"opening", "reading", "pairing", "pruning", "defining"} =>
       tools \in Seq(SendableNames) /\ Len(tools) = Len(options.tools)
  /\ pc = "converted" => \E own \in Seq(SendableNames) :
                           Len(own) = Len(options.tools) /\ tools = own \o Extra(own, NamesUsed)

LEMMA ClientToolsType ==
  ASSUME Typed
  PROVE  options.tools \in Seq(Names)
BY ConverterAssumption DEF Typed

\* What map_tool_name adds for some names.
LEMMA NotedFacts ==
  ASSUME NEW ns, NEW C, ns \subseteq C, \A s \in DOMAIN names : names[s] \in C
  PROVE  /\ DOMAIN Noted(ns) = DOMAIN names \cup {Short[n] : n \in ns \cap Long}
         /\ \A s \in DOMAIN Noted(ns) : Noted(ns)[s] \in C
<1> DEFINE shorts == {Short[n] : n \in ns \cap Long}
<1>1. Noted(ns) = [s \in DOMAIN names \cup shorts |->
                     IF s \in shorts THEN CHOOSE n \in ns \cap Long : Short[n] = s ELSE names[s]]
  BY DEF Noted
<1>2. ASSUME NEW s \in DOMAIN names \cup shorts PROVE Noted(ns)[s] \in C
  <2>1. CASE s \in shorts
    <3>1. \E n \in ns \cap Long : Short[n] = s
      BY <2>1
    <3>2. (CHOOSE n \in ns \cap Long : Short[n] = s) \in ns \cap Long
      BY <3>1
    <3>3. Noted(ns)[s] = CHOOSE n \in ns \cap Long : Short[n] = s
      BY <1>1, <2>1
    <3> QED BY <3>2, <3>3
  <2>2. CASE s \notin shorts
    <3>1. Noted(ns)[s] = names[s] /\ s \in DOMAIN names
      BY <1>1, <1>2, <2>2
    <3> QED BY <3>1
  <2> QED BY <2>1, <2>2
<1>3. DOMAIN Noted(ns) = DOMAIN names \cup shorts
  BY <1>1
<1> QED BY <1>2, <1>3

\* A name that went through map_tool_name may be sent.
LEMMA MappedNames ==
  ASSUME NEW n \in Names, NEW ns, n \in ns, NEW C, ns \subseteq C,
         \A s \in DOMAIN names : names[s] \in C
  PROVE  /\ MapName(n) \in Names /\ Cut(MapName(n), C)
         /\ MapName(n) \in DOMAIN Noted(ns) \/ MapName(n) \in C
<1>1. MapName(n) \in Names
  BY MapNameType
<1>2. CASE n \in Long
  <2>1. MapName(n) = Short[n] /\ n \in ns \cap Long
    BY <1>2 DEF MapName
  <2>2. DOMAIN Noted(ns) = DOMAIN names \cup {Short[m] : m \in ns \cap Long}
    BY NotedFacts
  <2>3. Short[n] \in {Short[m] : m \in ns \cap Long}
    BY <2>1
  <2>4. ASSUME Short[n] \in Long PROVE CutOf(Short[n], C)
    <3>1. Size[Short[n]] > TOOL_NAME_MAX_LEN
      BY <2>4 DEF Long
    <3>2. Size[Short[n]] = Lead[n] + 1 + 8 /\ Lead[n] \in Nat /\ TOOL_NAME_MAX_LEN \in Nat
      BY <1>2, ConverterAssumption DEF Long
    <3>3. Lead[n] > PREFIX_MAX
      BY <3>1, <3>2 DEF PREFIX_MAX
    <3>4. n \in C \cap Long
      BY <1>2
    <3> QED BY <3>3, <3>4 DEF CutOf
  <2> QED BY <1>1, <2>1, <2>2, <2>3, <2>4 DEF Cut
<1>3. CASE n \notin Long
  <2>1. MapName(n) = n
    BY <1>3 DEF MapName
  <2> QED BY <1>1, <1>3, <2>1 DEF Cut
<1> QED BY <1>2, <1>3

\* The names of buffered messages are names of the client.
LEMMA BufferedNames ==
  ASSUME Typed, pc \notin {"client", "rejected"}
  PROVE  NamesIn(assistants) \subseteq NamesIn(Earlier("assistant"))
<1>1. PICK n \in Nat : n = Len(messages) - 1
  <2>1. Len(messages) \in Nat /\ next \in Nat \ {0} /\ next <= Len(messages)
    BY DEF Typed
  <2>2. Len(messages) - 1 \in Nat
    BY <2>1
  <2> QED BY <2>2
<1>2. ToSet(Earlier("assistant")) = By("assistant") \cap 1 .. n
  BY <1>1, EarlierIs, EarlierFacts
<1>3. ToSet(assistants) \subseteq Before("assistant")
  BY DEF Typed, ToSet
<1>4. ToSet(assistants) \subseteq ToSet(Earlier("assistant"))
  BY <1>1, <1>2, <1>3 DEF Before
<1> QED BY <1>4 DEF NamesIn

\* What the buffered messages use may be sent once their names are noted.
LEMMA BufferedUses ==
  ASSUME Typed, pc \notin {"client", "rejected"}, \A s \in DOMAIN names : names[s] \in ClientNames,
         NEW T, T = {u \in Uses : /\ u.name \in Names /\ Cut(u.name, ClientNames)
                                  /\ u.name \in DOMAIN Noted(NamesIn(assistants)) \/ u.name \in ClientNames}
  PROVE  OverMessages(assistants, UsesOf) \in Seq(T)
<1>1. PICK ns : ns = NamesIn(assistants)
  OBVIOUS
<1>2. ns \subseteq ClientNames
  BY <1>1, BufferedNames DEF ClientNames
<1>3. assistants \in Seq(By("assistant")) /\ messages \in Seq(Message)
  BY AssistantsBefore DEF Typed
<1>4. PICK S : S = ToSet(assistants)
  OBVIOUS
<1>5. assistants \in Seq(S)
  BY <1>3, <1>4, SeqOfElements
<1>6. S \subseteq DOMAIN messages
  <2>1. S \subseteq By("assistant")
    BY <1>3, <1>4 DEF ToSet
  <2> QED BY <2>1, IndexTypes
<1>7. ASSUME NEW i \in S PROVE UsesOf[i] \in Seq(T)
  <2>1. i \in DOMAIN messages
    BY <1>6
  <2>2. PICK us : us = messages[i].uses
    OBVIOUS
  <2>3. us \in Seq(Uses)
    BY <1>3, <2>1, <2>2, OneOfMessages
  <2>4. PICK ws : ws = UsesOf[i]
    OBVIOUS
  <2>5. ws = [k \in DOMAIN us |-> [id |-> us[k].id, name |-> MapName(us[k].name)]]
    BY <2>1, <2>2, <2>4 DEF UsesOf
  <2>6. ASSUME NEW k \in DOMAIN us PROVE [id |-> us[k].id, name |-> MapName(us[k].name)] \in T
    <3>1. us[k] \in Uses
      BY <2>3
    <3>2. us[k].id \in Ids /\ us[k].name \in Names
      BY <3>1 DEF Uses
    <3>3. us[k].name \in ns
      <4>1. us[k].name \in {messages[i].uses[j].name : j \in DOMAIN messages[i].uses}
        BY <2>2
      <4>2. i \in ToSet(assistants)
        BY <1>4, <1>7
      <4>3. \A x : x \in {messages[i].uses[j].name : j \in DOMAIN messages[i].uses} => x \in NamesIn(assistants)
        BY <4>2, Zenon DEF NamesIn
      <4> QED BY <1>1, <4>1, <4>3
    <3>4. MapName(us[k].name) \in Names /\ Cut(MapName(us[k].name), ClientNames)
          /\ (MapName(us[k].name) \in DOMAIN Noted(ns) \/ MapName(us[k].name) \in ClientNames)
      BY <1>2, <3>2, <3>3, MappedNames
    <3> QED BY <1>1, <3>2, <3>4 DEF Uses
  <2>7. PICK n \in Nat : n = Len(us) /\ DOMAIN us = 1 .. n
    BY <2>3
  <2>8. ws \in [1 .. n -> T]
    BY <2>5, <2>6, <2>7
  <2>9. ws \in Seq(T)
    BY <2>8, FunctionIsSeq
  <2> QED BY <2>4, <2>9
<1>8. Rows(UsesOf, S, T)
  BY <1>7 DEF Rows
<1> QED BY <1>5, <1>8, OverTypes
LEMMA FlushUses ==
  ASSUME Typed, NEW h \in Seq(Entries)
  PROVE  /\ \A g : g = h \o Flush(users, MergeUsers) => g \in Seq(Entries) /\ UsesIn(g) = UsesIn(h)
         /\ \A g : g = h \o Ok(users) => g \in Seq(Entries) /\ UsesIn(g) = UsesIn(h)
         /\ \A g : g = h \o Flush(assistants, MergeAssistants)
                     => g \in Seq(Entries) /\ UsesIn(g) = UsesIn(h) \o OverMessages(assistants, UsesOf)
<1>0. UsesIn(h) \in Seq(Uses)
  BY EntryTypes DEF InTypes
<1>1. ASSUME NEW e \in Entries, NEW g, g = h \o <<e>>
      PROVE  g \in Seq(Entries) /\ UsesIn(g) = UsesIn(h) \o e.uses
  BY <1>1, EntryAppended DEF Extends
<1>2. ASSUME NEW g, g = h \o Flush(users, MergeUsers) PROVE g \in Seq(Entries) /\ UsesIn(g) = UsesIn(h)
  <2>1. CASE users = <<>>
    <3>1. g = h
      BY <1>2, <2>1, FlushNothing
    <3> QED BY <3>1
  <2>2. CASE users # <<>>
    <3>1. PICK e : e = MergeUsers(users)
      OBVIOUS
    <3>2. e \in Entries /\ e.uses = <<>>
      <4>1. e \in Entries
        BY <3>1, UserTypes DEF Typed
      <4> QED BY <3>1, <4>1 DEF MergeUsers, UserEntry
    <3>3. g = h \o <<e>>
      BY <1>2, <2>2, <3>1 DEF Flush
    <3>4. g \in Seq(Entries) /\ UsesIn(g) = UsesIn(h) \o <<>>
      BY <1>1, <3>2, <3>3
    <3> QED BY <1>0, <3>4, Nothing
  <2> QED BY <2>1, <2>2
<1>3. ASSUME NEW g, g = h \o Ok(users) PROVE g \in Seq(Entries) /\ UsesIn(g) = UsesIn(h)
  <2>1. CASE users = <<>>
    <3>1. g = h
      BY <1>3, <2>1, FlushNothing
    <3> QED BY <3>1
  <2>2. CASE users # <<>>
    <3>1. PICK e : e = AssistantEntry(Piece(0, "ok"), <<>>)
      OBVIOUS
    <3>2. e \in Entries /\ e.uses = <<>>
      BY <3>1, OutsideEntries
    <3>3. g = h \o <<e>>
      BY <1>3, <2>2, <3>1 DEF Ok
    <3>4. g \in Seq(Entries) /\ UsesIn(g) = UsesIn(h) \o <<>>
      BY <1>1, <3>2, <3>3
    <3> QED BY <1>0, <3>4, Nothing
  <2> QED BY <2>1, <2>2
<1>4. ASSUME NEW g, g = h \o Flush(assistants, MergeAssistants)
      PROVE  g \in Seq(Entries) /\ UsesIn(g) = UsesIn(h) \o OverMessages(assistants, UsesOf)
  <2>1. CASE assistants = <<>>
    <3>1. g = h
      BY <1>4, <2>1, FlushNothing
    <3>2. OverMessages(assistants, UsesOf) = <<>>
      BY <2>1, OverNone
    <3> QED BY <1>0, <3>1, <3>2, Nothing
  <2>2. CASE assistants # <<>>
    <3>1. PICK e : e = MergeAssistants(assistants)
      OBVIOUS
    <3>2. e \in Entries /\ e.uses = OverMessages(assistants, UsesOf)
      <4>1. e \in Entries /\ e = AssistantEntry(Said(assistants), OverMessages(assistants, UsesOf))
        BY <3>1, AssistantsBefore, AssistantTypes DEF Typed
      <4> QED BY <4>1 DEF AssistantEntry
    <3>3. g = h \o <<e>>
      BY <1>4, <2>2, <3>1 DEF Flush
    <3> QED BY <1>1, <3>2, <3>3
  <2> QED BY <2>1, <2>2
<1> QED BY <1>2, <1>3, <1>4

LEMMA SameClient ==
  ASSUME messages' = messages, options' = options
  PROVE  /\ ClientNames' = ClientNames
         /\ DOMAIN names \subseteq DOMAIN names' => SendableNames \subseteq SendableNames' /\ SentUses \subseteq SentUses'
<1>1. NamesIn(Earlier("assistant"))' = NamesIn(Earlier("assistant"))
  BY Unmoved DEF NamesIn
<1>2. ClientNames' = ClientNames
  BY <1>1 DEF ClientNames
<1>3. DOMAIN names \subseteq DOMAIN names' => SendableNames \subseteq SendableNames'
  BY <1>2 DEF SendableNames
<1> QED BY <1>2, <1>3 DEF SentUses

\* A step that notes the names it flushes, or none.
LEMMA DefinedMore ==
  ASSUME Typed, Defined, messages' = messages, options' = options, tools' = tools,
         DOMAIN names \subseteq DOMAIN names',
         \A s \in DOMAIN names' : names'[s] \in ClientNames,
         pc' \in {"reading", "pairing", "pruning", "defining"},
         pc \in {"opening", "reading", "pairing", "pruning", "defining"},
         UsesIn(history') \in Seq(SentUses')
  PROVE  Defined'
<1>1. ClientNames' = ClientNames /\ SendableNames \subseteq SendableNames'
  BY SameClient
<1>2. PICK S, T, ts : S = SendableNames /\ T = SendableNames' /\ ts = tools
  OBVIOUS
<1>3. ts \in Seq(S) /\ Len(ts) = Len(options.tools)
  BY <1>2 DEF Defined
<1>4. ts \in Seq(T)
  BY <1>1, <1>2, <1>3, WiderSeq
<1>5. tools' \in Seq(SendableNames') /\ Len(tools') = Len(options'.tools)
  BY <1>2, <1>3, <1>4
<1>6. UsesIn(history)' \in Seq(SentUses')
  OBVIOUS
<1> QED BY <1>1, <1>5, <1>6 DEF Defined

LEMMA NotedUses ==
  ASSUME Typed, Defined, pc = "reading", messages' = messages, options' = options,
         names' = Noted(NamesIn(assistants))
  PROVE  /\ DOMAIN names \subseteq DOMAIN names'
         /\ \A s \in DOMAIN names' : names'[s] \in ClientNames
         /\ OverMessages(assistants, UsesOf) \in Seq(SentUses')
         /\ UsesIn(history) \in Seq(SentUses')
<1>1. PICK ns, C : ns = NamesIn(assistants) /\ C = ClientNames
  OBVIOUS
<1>2. ns \subseteq C /\ \A s \in DOMAIN names : names[s] \in C
  BY <1>1, BufferedNames DEF ClientNames, Defined
<1>3. /\ DOMAIN Noted(ns) = DOMAIN names \cup {Short[n] : n \in ns \cap Long}
      /\ \A s \in DOMAIN Noted(ns) : Noted(ns)[s] \in C
  BY <1>2, NotedFacts
<1>4. DOMAIN names \subseteq DOMAIN names' /\ \A s \in DOMAIN names' : names'[s] \in ClientNames
  BY <1>1, <1>3
<1>5. ClientNames' = ClientNames /\ SentUses \subseteq SentUses'
  BY <1>4, SameClient
<1>6. PICK T : T = {u \in Uses : /\ u.name \in Names /\ Cut(u.name, ClientNames)
                                 /\ u.name \in DOMAIN Noted(NamesIn(assistants)) \/ u.name \in ClientNames}
  OBVIOUS
<1>7. T = SentUses'
  BY <1>5, <1>6 DEF SentUses, SendableNames
<1>8. OverMessages(assistants, UsesOf) \in Seq(T)
  <2>1. \A s \in DOMAIN names : names[s] \in ClientNames
    BY DEF Defined
  <2> QED BY <1>6, <2>1, BufferedUses
<1>9. UsesIn(history) \in Seq(T)
  <2>1. PICK S, u : S = SentUses /\ u = UsesIn(history)
    OBVIOUS
  <2>2. u \in Seq(S) /\ S \subseteq T
    BY <1>5, <1>7, <2>1 DEF Defined
  <2> QED BY <2>1, <2>2, WiderSeq
<1> QED BY <1>4, <1>7, <1>8, <1>9

LEMMA DefinedAccept == ASSUME Typed, Defined, Accept PROVE Defined'
<1>1. PICK ts, ns, C : ts = options.tools /\ ns = ToSet(ts) /\ C = ClientNames'
  OBVIOUS
<1>2. ts \in Seq(Names)
  BY <1>1, ClientToolsType
<1>3. names = <<>> /\ names' = Noted(ns) /\ pc' = "opening" /\ history' = history /\ options' = options
      /\ tools' = [k \in DOMAIN ts |-> MapName(ts[k])]
  BY <1>1 DEF Accept, Defined
<1>4. ns \subseteq C /\ \A s \in DOMAIN names : names[s] \in C
  <2>1. DOMAIN names = {}
    BY <1>3
  <2> QED BY <1>1, <1>3, <2>1 DEF ClientNames
<1>5. \A s \in DOMAIN names' : names'[s] \in C
  BY <1>3, <1>4, NotedFacts
<1>6. PICK T : T = SendableNames'
  OBVIOUS
<1>7. ASSUME NEW k \in DOMAIN ts PROVE MapName(ts[k]) \in T
  <2>1. PICK n : n = ts[k]
    OBVIOUS
  <2>2. n \in Names /\ n \in ns
    BY <1>1, <1>2, <2>1 DEF ToSet
  <2>3. MapName(n) \in Names /\ Cut(MapName(n), C) /\ (MapName(n) \in DOMAIN Noted(ns) \/ MapName(n) \in C)
    BY <1>4, <2>2, MappedNames
  <2> QED BY <1>1, <1>3, <1>6, <2>1, <2>3 DEF SendableNames
<1>8. tools' \in Seq(T) /\ Len(tools') = Len(ts)
  <2>1. PICK n \in Nat : n = Len(ts) /\ DOMAIN ts = 1 .. n
    BY <1>2
  <2>2. tools' \in [1 .. n -> T]
    BY <1>3, <1>7, <2>1
  <2> QED BY <2>1, <2>2, FunctionIsSeq
<1>9. UsesIn(history') = <<>>
  BY <1>3, NothingIn DEF Accept, Typed
<1>10. UsesIn(history)' \in Seq(SentUses')
  <2>1. PICK U : U = SentUses'
    OBVIOUS
  <2>2. <<>> \in Seq(U)
    OBVIOUS
  <2> QED BY <1>9, <2>1, <2>2
<1> QED BY <1>1, <1>3, <1>5, <1>6, <1>8, <1>10 DEF Defined

LEMMA DefinedNext == Typed /\ Defined /\ [Next]_vars => Defined'
<1> SUFFICES ASSUME Typed, Defined, [Next]_vars PROVE Defined'
  OBVIOUS
<1>h. history \in Seq(Entries)
  BY DEF Typed
<1>n. \A s \in DOMAIN names : names[s] \in ClientNames
  BY DEF Defined
<1>0. ASSUME pc' \in {"client", "rejected"}, pc = "client", names' = names PROVE Defined'
  <2>1. names' = <<>> /\ DOMAIN names' = {}
    BY <1>0 DEF Defined
  <2> QED BY <1>0, <2>1 DEF Defined
<1>s. ASSUME messages' = messages, options' = options, names' = names, history' \in Seq(Entries),
             pc \notin {"client", "rejected"}, UsesIn(history') = UsesIn(history)
      PROVE  UsesIn(history') \in Seq(SentUses')
  <2>1. SentUses' = SentUses
    BY <1>s, SameClient DEF SentUses, SendableNames
  <2> QED BY <1>s, <2>1 DEF Defined
<1>1. ASSUME NEW m \in Contents, Say(m) PROVE Defined'
  BY <1>0, <1>1 DEF Say
<1>2. CASE Reject
  BY <1>0, <1>2 DEF Reject
<1>3. CASE Accept
  BY <1>3, DefinedAccept
<1>4. CASE Open
  <2>1. UsesIn(history') = <<>>
    <3>1. UsesIn(<<UserEntry(Piece(0, "system"), <<>>, <<>>), AssistantEntry(Piece(0, "promise"), <<>>)>>) = <<>>
      BY AlignedOpen DEF Typed
    <3> QED BY <1>4, <3>1, NothingIn DEF Open
  <2>2. UsesIn(history') \in Seq(SentUses')
    <3>1. PICK U : U = SentUses'
      OBVIOUS
    <3>2. <<>> \in Seq(U)
      OBVIOUS
    <3> QED BY <2>1, <3>1, <3>2
  <2> QED BY <1>4, <1>n, <2>2, DefinedMore DEF Open
<1>5. CASE TakeUser
  <2>1. pc = "reading" /\ pc' = "reading" /\ messages' = messages /\ options' = options /\ tools' = tools
        /\ names' = Noted(NamesIn(assistants)) /\ history' = history \o Flush(assistants, MergeAssistants)
    BY <1>5 DEF TakeUser, Reads
  <2>2. /\ DOMAIN names \subseteq DOMAIN names'
        /\ \A s \in DOMAIN names' : names'[s] \in ClientNames
        /\ OverMessages(assistants, UsesOf) \in Seq(SentUses')
        /\ UsesIn(history) \in Seq(SentUses')
    BY <2>1, NotedUses
  <2>3. UsesIn(history') = UsesIn(history) \o OverMessages(assistants, UsesOf)
    BY <1>h, <2>1, FlushUses
  <2>4. UsesIn(history') \in Seq(SentUses')
    BY <2>2, <2>3, ConcatType
  <2> QED BY <2>1, <2>2, <2>4, DefinedMore
<1>6. CASE TakeAssistant
  <2>1. pc = "reading" /\ pc' = "reading" /\ messages' = messages /\ options' = options /\ tools' = tools
        /\ names' = names /\ history' = history \o Flush(users, MergeUsers)
    BY <1>6 DEF TakeAssistant, Reads
  <2>2. history' \in Seq(Entries) /\ UsesIn(history') = UsesIn(history)
    BY <1>h, <2>1, FlushUses
  <2>3. UsesIn(history') \in Seq(SentUses')
    BY <1>s, <2>1, <2>2
  <2> QED BY <1>n, <2>1, <2>3, DefinedMore
<1>7. CASE SkipOther
  <2>1. pc = "reading" /\ pc' = "reading" /\ messages' = messages /\ options' = options /\ tools' = tools
        /\ names' = names /\ history' = history
    BY <1>7 DEF SkipOther
  <2>2. UsesIn(history') \in Seq(SentUses')
    BY <1>h, <1>s, <2>1
  <2> QED BY <1>n, <2>1, <2>2, DefinedMore
<1>8. CASE CloseHistory
  <2>1. pc = "reading" /\ pc' = "pairing" /\ messages' = messages /\ options' = options /\ tools' = tools
        /\ names' = Noted(NamesIn(assistants))
        /\ history' = history \o Flush(assistants, MergeAssistants) \o Flush(users, MergeUsers) \o Ok(users)
    BY <1>8 DEF CloseHistory
  <2>2. /\ DOMAIN names \subseteq DOMAIN names'
        /\ \A s \in DOMAIN names' : names'[s] \in ClientNames
        /\ OverMessages(assistants, UsesOf) \in Seq(SentUses')
        /\ UsesIn(history) \in Seq(SentUses')
    BY <2>1, NotedUses
  <2>3. PICK p, q : p = history \o Flush(assistants, MergeAssistants) /\ q = p \o Flush(users, MergeUsers)
    OBVIOUS
  <2>4. p \in Seq(Entries) /\ UsesIn(p) = UsesIn(history) \o OverMessages(assistants, UsesOf)
    BY <1>h, <2>3, FlushUses
  <2>5. q \in Seq(Entries) /\ UsesIn(q) = UsesIn(p)
    BY <2>3, <2>4, FlushUses
  <2>6. history' = q \o Ok(users)
    BY <2>1, <2>3
  <2>7. UsesIn(history') = UsesIn(q)
    BY <2>5, <2>6, FlushUses
  <2>8. UsesIn(history') \in Seq(SentUses')
    BY <2>2, <2>4, <2>5, <2>7, ConcatType
  <2> QED BY <2>1, <2>2, <2>8, DefinedMore
<1>9. CASE Pair
  <2>1. pc = "pairing" /\ pc' = "pruning" /\ messages' = messages /\ options' = options /\ tools' = tools
        /\ names' = names /\ history' = history
    BY <1>9 DEF Pair
  <2>2. UsesIn(history') \in Seq(SentUses')
    BY <1>h, <1>s, <2>1
  <2> QED BY <1>n, <2>1, <2>2, DefinedMore
<1>10. CASE Prune
  <2>1. pc = "pruning" /\ pc' = "defining" /\ messages' = messages /\ options' = options /\ tools' = tools
        /\ names' = names /\ history' = Pruned(history, Orphaned)
    BY <1>10 DEF Prune, Pruned
  <2>2. UsesIn(history') = Without(UsesIn(history), Orphaned)
    BY <1>h, <2>1, PruneFacts DEF KeepsBut
  <2>3. PICK S, u, x : S = SentUses /\ u = UsesIn(history) /\ x = Without(u, Orphaned)
    OBVIOUS
  <2>4. u \in Seq(S)
    BY <2>1, <2>3 DEF Defined
  <2>5. x \in Seq(S)
    BY <2>3, <2>4, WithoutFacts
  <2>6. SentUses' = SentUses
    BY <2>1, SameClient DEF SentUses, SendableNames
  <2>7. UsesIn(history') \in Seq(SentUses')
    BY <2>2, <2>3, <2>5, <2>6
  <2> QED BY <1>n, <2>1, <2>7, DefinedMore
<1>11. CASE Define
  <2>1. pc = "defining" /\ pc' = "converted" /\ messages' = messages /\ options' = options
        /\ names' = names /\ history' = history /\ tools' = tools \o Extra(tools, NamesUsed)
    BY <1>11 DEF Define, Undefined, Extra
  <2>2. ClientNames' = ClientNames /\ SendableNames' = SendableNames /\ SentUses' = SentUses
    BY <2>1, SameClient DEF SentUses, SendableNames
  <2>3. NamesUsed' = NamesUsed /\ UsesIn(history)' = UsesIn(history)
    BY <2>1 DEF NamesUsed, HistoryUses
  <2>4. tools \in Seq(SendableNames) /\ Len(tools) = Len(options.tools) /\ UsesIn(history) \in Seq(SentUses)
    BY <2>1 DEF Defined
  <2>5. \E own \in Seq(SendableNames') : Len(own) = Len(options'.tools) /\ tools' = own \o Extra(own, NamesUsed')
    BY <2>1, <2>2, <2>3, <2>4
  <2> QED BY <1>n, <2>1, <2>2, <2>3, <2>4, <2>5 DEF Defined, Extra
<1>12. CASE UNCHANGED vars
  <2>1. pc' = pc /\ messages' = messages /\ options' = options /\ names' = names /\ history' = history /\ tools' = tools
    BY <1>12 DEF vars
  <2>2. ClientNames' = ClientNames /\ SendableNames' = SendableNames /\ SentUses' = SentUses
    BY <2>1, SameClient DEF SentUses, SendableNames
  <2>3. NamesUsed' = NamesUsed /\ UsesIn(history)' = UsesIn(history)
    BY <2>1 DEF NamesUsed, HistoryUses
  <2> QED BY <2>1, <2>2, <2>3 DEF Defined, Extra
<1> QED BY <1>1, <1>2, <1>3, <1>4, <1>5, <1>6, <1>7, <1>8, <1>9, <1>10, <1>11, <1>12 DEF Next

LEMMA DefinedState == Typed /\ Defined => ToolsDefined
<1> SUFFICES ASSUME Typed, Defined, pc = "converted" PROVE ToolsDefined
  BY DEF ToolsDefined
<1>1. PICK own \in Seq(SendableNames) : Len(own) = Len(options.tools) /\ tools = own \o Extra(own, NamesUsed)
  BY DEF Defined
<1>2. PICK S, used, us : S = SendableNames /\ used = NamesUsed /\ us = UsesIn(history)
  OBVIOUS
<1>3. us \in Seq(SentUses)
  BY <1>2 DEF Defined
<1>4. used = [k \in DOMAIN us |-> us[k].name]
  BY <1>2, InHistory DEF NamesUsed
<1>5. used \in Seq(S)
  <2>1. PICK n \in Nat : n = Len(us) /\ DOMAIN us = 1 .. n
    BY <1>3
  <2>2. \A k \in 1 .. n : us[k] \in SentUses
    BY <1>3, <2>1
  <2>3. \A k \in 1 .. n : us[k].name \in S
    BY <1>2, <2>2 DEF SentUses
  <2>4. used \in [1 .. n -> S]
    BY <1>4, <2>1, <2>3
  <2> QED BY <2>4, FunctionIsSeq
<1>6. PICK D, X : D = {Lower[own[k]] : k \in DOMAIN own} /\ X = {n \in Names : Lower[n] \notin D}
  OBVIOUS
<1>7. PICK w, x : w = Within(used, X) /\ x = Firsts(w)
  OBVIOUS
<1>8. w \in Seq(S) /\ ToSet(w) = ToSet(used) \cap X
  BY <1>5, <1>7, WithinType, WithinElements
<1>9. x \in Seq(S) /\ ToSet(x) = ToSet(used) \cap X
  BY <1>7, <1>8, FirstsFacts
<1>10. own \in Seq(S) /\ tools = own \o x
  BY <1>1, <1>2, <1>6, <1>7 DEF Extra
<1>11. PICK m \in Nat, n \in Nat : m = Len(own) /\ n = Len(x) /\ DOMAIN own = 1 .. m /\ DOMAIN x = 1 .. n
  BY <1>9, <1>10
<1>12. /\ tools \in Seq(S) /\ Len(tools) = m + n
       /\ \A i \in 1 .. m : tools[i] = own[i]
       /\ \A i \in 1 .. n : tools[m + i] = x[i]
  BY <1>9, <1>10, <1>11, ConcatFacts
<1>13. DOMAIN tools = 1 .. m + n
  BY <1>12
<1>14. ASSUME NEW n1 \in ToSet(used) PROVE \E k \in DOMAIN tools : Lower[tools[k]] = Lower[n1]
  <2>1. CASE Lower[n1] \in D
    <3>1. PICK k \in 1 .. m : Lower[own[k]] = Lower[n1]
      BY <1>6, <1>11, <2>1
    <3>2. k \in DOMAIN tools /\ tools[k] = own[k]
      BY <1>12, <1>13
    <3> QED BY <3>1, <3>2
  <2>2. CASE Lower[n1] \notin D
    <3>1. n1 \in X
      <4>1. n1 \in S
        BY <1>5 DEF ToSet
      <4>2. n1 \in Names
        BY <1>2, <4>1 DEF SendableNames
      <4> QED BY <1>6, <2>2, <4>2
    <3>2. n1 \in ToSet(x)
      BY <1>9, <3>1
    <3>3. PICK i \in 1 .. n : x[i] = n1
      BY <1>11, <3>2 DEF ToSet
    <3>4. m + i \in DOMAIN tools /\ tools[m + i] = n1
      BY <1>12, <1>13, <3>3
    <3> QED BY <3>4
  <2> QED BY <2>1, <2>2
<1>15. ASSUME NEW j \in 1 .. m, NEW k \in m + 1 .. Len(tools) PROVE Lower[tools[j]] # Lower[tools[k]]
  <2>1. Lower[tools[j]] \in D
    BY <1>6, <1>11, <1>12
  <2>2. PICK i \in 1 .. n : k = m + i
    <3>1. k - m \in 1 .. n /\ k = m + (k - m)
      BY <1>12
    <3> QED BY <3>1
  <2>3. tools[k] \in X
    <3>1. x[i] \in ToSet(x)
      BY <1>11 DEF ToSet
    <3>2. tools[k] = x[i]
      BY <1>12, <2>2
    <3> QED BY <1>9, <3>1, <3>2
  <2>4. Lower[tools[k]] \notin D
    BY <1>6, <2>3
  <2> QED BY <2>1, <2>4
<1>16. ASSUME NEW s \in ToSet(used) \cup ToSet(tools)
       PROVE  Original(s) \in ClientNames /\ (s \in Long => CutOf(s, ClientNames))
  <2>1. s \in S
    BY <1>5, <1>12 DEF ToSet
  <2>2. (s \in Long => CutOf(s, ClientNames)) /\ (s \in DOMAIN names \/ s \in ClientNames)
    BY <1>2, <2>1 DEF SendableNames, Cut
  <2>3. Original(s) \in ClientNames
    BY <2>2 DEF Original, Defined
  <2> QED BY <2>2, <2>3
<1>17. m = Len(options.tools)
  BY <1>1, <1>11
<1> QED BY <1>2, <1>14, <1>15, <1>16, <1>17 DEF ToolsDefined, SentNames

\* A tool that the history names is defined, a definition added for one repeats no tool
\* of the client in another case, every name sent leads back to a name of the client,
\* and one over the limit is cut from a name of the client whose kept characters alone
\* are over it (convert_request, map_tool_name) -- whatever names the tools and the
\* messages have, ASCII or not, as long as the hash tells them apart.
THEOREM ToolsAreDefined == Spec => []ToolsDefined
<1>1. Init => Typed /\ Defined
  <2>1. Init => Typed
    BY TypedInit
  <2>2. ASSUME Init PROVE Defined
    <3>1. pc = "client" /\ names = <<>> /\ DOMAIN names = {}
      BY <2>2 DEF Init
    <3> QED BY <3>1 DEF Defined
  <2> QED BY <2>1, <2>2
<1>2. Typed /\ Defined /\ [Next]_vars => (Typed /\ Defined)'
  BY TypedNext, DefinedNext
<1>3. Typed /\ Defined => ToolsDefined
  BY DefinedState
<1> QED BY <1>1, <1>2, <1>3, PTL DEF Spec
=============================================================================
