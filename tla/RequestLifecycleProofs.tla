------------------------ MODULE RequestLifecycleProofs ------------------------
(***************************************************************************)
(* Theorems about RequestLifecycle, for any number of credentials, proxies *)
(* and attempts, any body and any client.                                  *)
(*                                                                         *)
(*   SlotCovers       a slot is held exactly while it is used              *)
(*   BodyFits         no model of an earlier attempt is left in a request  *)
(*   NoFalseBlameHolds  only a verdict on a credential is held against it  *)
(*   LogTellsAlways   the entry of a request says what its handler knows   *)
(*                                                                         *)
(*   NoFrameIsSkipped  frames are decoded in order, no intact one is lost  *)
(*   StreamIsWhole    a client that stays gets one complete stream         *)
(*   Types            every variable in its type, every counter bounded    *)
(*                                                                         *)
(* Four invariants carry them: ControlInv (where call and handler are),    *)
(* LogInv (the entry), BodyInv (decoder, wire and what came out belong to  *)
(* one body) and ShapeInv (the client's stream); CallInv bounds the        *)
(* counters of the call.                                                   *)
(*                                                                         *)
(* BodyInv rests on a theorem about the decoder alone, for any frame size  *)
(* and limits, any body of damaged and intact frames and any cut of it     *)
(* into chunks.                                                            *)
(*                                                                         *)
(*   AbsorbSound      a chunk that is fed and decoded loses no intact one  *)
(*                                                                         *)
(* Its invariant, Sound, says what Remains of a body: the cells in the     *)
(* buffer and on the wire ascend, they lie Ahead of everything decoded,    *)
(* and while nothing was refused each is followed by the rest of its frame *)
(* and each intact frame is decoded or still Starts among them.  Recovery  *)
(* keeps it since the cells it drops start no intact frame (Spares).       *)
(***************************************************************************)
EXTENDS RequestLifecycle, SequenceLemmas

-----------------------------------------------------------------------------
(* The cells of a body, and what is left of it in the buffer and on the wire. *)
Size(fs, n) == IF fs[n] = "stray" THEN 1 ELSE FrameSize
Cells(fs) == UNION {{Cell(n, p, fs[n]) : p \in 1 .. Size(fs, n)} : n \in DOMAIN fs}

Before(c, e) == c.frame < e.frame \/ (c.frame = e.frame /\ c.part < e.part)
Ascending(r) == \A i, j \in DOMAIN r : i < j => Before(r[i], r[j])
\* Behind a cell comes the rest of its frame.
Adjoining(fs, r) ==
  \A i \in DOMAIN r : \A m \in 0 .. Size(fs, r[i].frame) - r[i].part :
    /\ i + m \in DOMAIN r
    /\ r[i + m].frame = r[i].frame /\ r[i + m].part = r[i].part + m
Starts(r, n) == \E i \in DOMAIN r : r[i].frame = n /\ r[i].part = 1
\* Of the intact frames, those not yet decoded are still to come.
Present(fs, got, r) ==
  \A n \in DOMAIN fs : fs[n] = "none" => (\E i \in DOMAIN got : got[i] = n) \/ Starts(r, n)

InOrder(fs, got) ==
  /\ got \in Seq(DOMAIN fs)
  /\ \A i \in DOMAIN got : fs[got[i]] = "none"
  /\ \A i, j \in DOMAIN got : i < j => got[i] < got[j]
Ahead(got, r) == \A i \in DOMAIN got, j \in DOMAIN r : got[i] < r[j].frame

Left(fs, got, r) == r \in Seq(Cells(fs)) /\ InOrder(fs, got) /\ Ascending(r) /\ Ahead(got, r)
Unbroken(fs, got, r) == Adjoining(fs, r) /\ Present(fs, got, r)
Remains(fs, got, r, full) == Left(fs, got, r) /\ (full => Unbroken(fs, got, r))
IntactStart(fs, c) == fs[c.frame] = "none" /\ c.part = 1
Spares(fs, b, k, full) == full => \A i \in 1 .. k : ~IntactStart(fs, b[i])

LEMMA SizeFacts ==
  ASSUME NEW fs, NEW n PROVE Size(fs, n) \in 1 .. FrameSize /\ FrameSize \in Nat /\ FrameSize > 0
BY DecoderAssumption DEF Size

LEMMA CellFacts ==
  ASSUME NEW fs \in Seq(STRING), NEW c \in Cells(fs)
  PROVE  /\ c.frame \in DOMAIN fs /\ c.frame \in Nat /\ c.part \in 1 .. Size(fs, c.frame)
         /\ c.part \in 1 .. FrameSize /\ c = Cell(c.frame, c.part, fs[c.frame])
<1>1. PICK n \in DOMAIN fs : \E p \in 1 .. Size(fs, n) : c = Cell(n, p, fs[n])
  BY DEF Cells
<1>2. PICK p \in 1 .. Size(fs, n) : c = Cell(n, p, fs[n])
  BY <1>1
<1>3. c.frame = n /\ c.part = p
  BY <1>2 DEF Cell
<1> QED BY <1>2, <1>3, SizeFacts

\* What parse_frame finds at the head of the buffer.
LEMMA HeadFacts ==
  ASSUME NEW fs \in Seq(STRING), NEW c \in Cells(fs)
  PROVE  /\ c.flaw \in {"none", "prelude", "message", "header"}
         /\ c.len \in {0, FrameSize, FrameSize + 1}
         /\ c.len # 0 /\ c.flaw # "prelude" =>
              c.len = FrameSize /\ c.part = 1 /\ Size(fs, c.frame) = FrameSize
         /\ c.flaw # "prelude" => c.part = 1 /\ c.len = FrameSize
         /\ c.flaw = "none" => fs[c.frame] \in {"none", "content"} /\ c.damage = fs[c.frame]
         /\ fs[c.frame] = "none" /\ c.part = 1 => c.flaw = "none" /\ c.len = FrameSize
<1> DEFINE n == c.frame
           p == c.part
           damage == fs[n]
<1>1. c = Cell(n, p, damage) /\ p \in 1 .. Size(fs, n)
  BY CellFacts
<1> HIDE DEF n, p, damage
<1>2. /\ c.len = CASE p = 1 /\ damage \in BoundaryKept -> FrameSize
                   [] p = 1 /\ damage = "long"         -> FrameSize + 1
                   [] p = 2 /\ damage = "shifted"      -> FrameSize
                   [] OTHER                            -> 0
      /\ c.flaw = CASE p = 1 /\ damage \in {"none", "content"}   -> "none"
                    [] p = 1 /\ damage \in {"message", "header"} -> damage
                    [] OTHER                                     -> "prelude"
      /\ c.damage = damage
  BY <1>1 DEF Cell
<1>3. CASE p = 1 /\ damage \in {"none", "content"}
  <2>1. c.len = FrameSize /\ c.flaw = "none"
    BY <1>2, <1>3 DEF BoundaryKept
  <2> QED BY <2>1, <1>2, <1>3 DEF n, p, damage, Size
<1>4. CASE p = 1 /\ damage \in {"message", "header"}
  <2>1. c.len = FrameSize /\ c.flaw = damage
    BY <1>2, <1>4 DEF BoundaryKept
  <2> QED BY <2>1, <1>4 DEF n, p, damage, Size
<1>5. CASE ~(p = 1 /\ damage \in {"none", "content", "message", "header"})
  <2>1. c.flaw = "prelude"
    BY <1>2, <1>5
  <2>2. c.len \in {0, FrameSize, FrameSize + 1}
    BY <1>2, <1>5
  <2> QED BY <2>1, <2>2, <1>5 DEF n, p, damage
<1> QED BY <1>3, <1>4, <1>5

\* What is left of a sequence when its first k elements are gone.
Dropped(r, k, s) ==
  /\ Len(s) = Len(r) - k
  /\ \A i \in DOMAIN s : i \in Nat /\ i > 0 /\ i + k \in DOMAIN r /\ s[i] = r[i + k]
  /\ \A i \in DOMAIN r : i > k => i - k \in DOMAIN s /\ s[i - k] = r[i]

LEMMA DropFacts ==
  ASSUME NEW S, NEW r \in Seq(S), NEW k \in 0 .. Len(r), NEW s, s = SubSeq(r, k + 1, Len(r))
  PROVE  s \in Seq(S) /\ Dropped(r, k, s)
<1>1. s \in Seq(S) /\ Len(s) = Len(r) - k /\ Len(r) \in Nat
      /\ \A i \in 1 .. Len(r) - k : s[i] = r[i + k]
  <2>1. \A i \in 1 .. Len(r) - k : i + k = (k + 1) + i - 1
    OBVIOUS
  <2> QED OBVIOUS
<1>2. DOMAIN s = 1 .. Len(r) - k /\ DOMAIN r = 1 .. Len(r)
  BY <1>1
<1>3. \A i \in 1 .. Len(r) : i > k => i - k \in 1 .. Len(r) - k /\ i = (i - k) + k
  BY <1>1
<1>4. \A i \in DOMAIN r : i > k => i - k \in DOMAIN s /\ s[i - k] = r[i]
  BY <1>1, <1>2, <1>3
<1>5. \A i \in DOMAIN s : i \in Nat /\ i > 0 /\ i + k \in DOMAIN r /\ s[i] = r[i + k]
  <2>1. PICK n \in Nat : n = Len(r)
    BY <1>1
  <2>2. \A i \in 1 .. n - k : i \in Nat /\ i > 0 /\ i + k \in 1 .. n
    <3>1. k \in Nat
      BY <2>1
    <3> QED BY <3>1
  <2> QED BY <1>1, <1>2, <2>1, <2>2
<1> QED BY <1>1, <1>4, <1>5 DEF Dropped

LEMMA DropLeft ==
  ASSUME NEW fs \in Seq(STRING), NEW r \in Seq(Cells(fs)), NEW k \in Nat, NEW s, Dropped(r, k, s)
  PROVE  /\ Ascending(r) => Ascending(s)
         /\ \A got : Ahead(got, r) => Ahead(got, s)
         /\ Adjoining(fs, r) => Adjoining(fs, s)
<1>1. \A i \in DOMAIN s : i \in Nat /\ i + k \in DOMAIN r /\ s[i] = r[i + k]
  BY DEF Dropped
<1>2. Ascending(r) => Ascending(s)
  <2> SUFFICES ASSUME Ascending(r), NEW i \in DOMAIN s, NEW j \in DOMAIN s, i < j
               PROVE  Before(s[i], s[j])
    BY DEF Ascending
  <2>1. i + k < j + k /\ i + k \in DOMAIN r /\ j + k \in DOMAIN r
    BY <1>1
  <2>2. Before(r[i + k], r[j + k])
    BY <2>1 DEF Ascending
  <2> QED BY <1>1, <2>2
<1>3. \A got : Ahead(got, r) => Ahead(got, s)
  BY <1>1 DEF Ahead
<1>4. Adjoining(fs, r) => Adjoining(fs, s)
  <2> SUFFICES ASSUME Adjoining(fs, r), NEW i \in DOMAIN s,
                      NEW m \in 0 .. Size(fs, s[i].frame) - s[i].part
               PROVE  /\ i + m \in DOMAIN s
                      /\ s[i + m].frame = s[i].frame /\ s[i + m].part = s[i].part + m
    BY DEF Adjoining
  <2>1. i \in Nat /\ i > 0 /\ i + k \in DOMAIN r /\ s[i] = r[i + k]
    BY DEF Dropped
  <2>2. /\ (i + k) + m \in DOMAIN r
        /\ r[(i + k) + m].frame = s[i].frame /\ r[(i + k) + m].part = s[i].part + m
    BY <2>1 DEF Adjoining
  <2>3. m \in Nat
    <3>1. r[i + k] \in Cells(fs)
      BY <2>1
    <3>2. s[i].part \in Nat /\ Size(fs, s[i].frame) \in Nat
      BY <2>1, <3>1, CellFacts, SizeFacts, SMTT(20)
    <3> QED BY <3>2
  <2>4. (i + k) + m > k /\ ((i + k) + m) - k = i + m
    BY <2>1, <2>3
  <2> QED BY <2>2, <2>4 DEF Dropped
<1> QED BY <1>2, <1>3, <1>4

\* A prefix of the buffer is a prefix of all that is left.
LEMMA DropConcat ==
  ASSUME NEW S, NEW b \in Seq(S), NEW w \in Seq(S), NEW k \in 0 .. Len(b)
  PROVE  /\ SubSeq(b, k + 1, Len(b)) \in Seq(S)
         /\ Len(SubSeq(b, k + 1, Len(b))) = Len(b) - k
         /\ SubSeq(b, k + 1, Len(b)) \o w \in Seq(S)
         /\ Dropped(b \o w, k, SubSeq(b, k + 1, Len(b)) \o w)
<1> DEFINE t == SubSeq(b, k + 1, Len(b))
           r == b \o w
           s == t \o w
<1>1. t \in Seq(S) /\ Dropped(b, k, t)
  BY DropFacts
<1> HIDE DEF t
<1>2. /\ r \in Seq(S) /\ Len(r) = Len(b) + Len(w)
      /\ \A i \in 1 .. Len(b) : r[i] = b[i]
      /\ \A i \in 1 .. Len(w) : r[Len(b) + i] = w[i]
  BY ConcatFacts
<1>3. /\ s \in Seq(S) /\ Len(s) = Len(t) + Len(w)
      /\ \A i \in 1 .. Len(t) : s[i] = t[i]
      /\ \A i \in 1 .. Len(w) : s[Len(t) + i] = w[i]
  BY <1>1, ConcatFacts
<1> HIDE DEF r, s
<1>4. Len(t) = Len(b) - k /\ Len(b) \in Nat /\ Len(w) \in Nat /\ Len(t) \in Nat
      /\ DOMAIN r = 1 .. Len(b) + Len(w) /\ DOMAIN s = 1 .. Len(t) + Len(w)
  BY <1>1, <1>2, <1>3 DEF Dropped
<1>5. \A i \in 1 .. Len(t) : t[i] = b[i + k] /\ i + k \in 1 .. Len(b)
  BY <1>1, <1>4 DEF Dropped
<1>6. ASSUME NEW i \in DOMAIN s PROVE i \in Nat /\ i > 0 /\ i + k \in DOMAIN r /\ s[i] = r[i + k]
  <2>1. CASE i \in 1 .. Len(t)
    <3>1. s[i] = b[i + k] /\ i + k \in 1 .. Len(b)
      BY <1>3, <1>5, <2>1
    <3>2. r[i + k] = b[i + k]
      BY <1>2, <3>1
    <3> QED BY <1>4, <3>1, <3>2
  <2>2. CASE i \notin 1 .. Len(t)
    <3>1. i - Len(t) \in 1 .. Len(w) /\ i = Len(t) + (i - Len(t))
          /\ i + k = Len(b) + (i - Len(t))
      BY <1>4, <2>2
    <3>2. s[i] = w[i - Len(t)] /\ r[i + k] = w[i - Len(t)]
      BY <1>2, <1>3, <3>1
    <3> QED BY <1>4, <3>1, <3>2
  <2> QED BY <2>1, <2>2
<1>7. \A i \in DOMAIN r : i > k => i - k \in DOMAIN s /\ i = (i - k) + k
  BY <1>4
<1>8. Dropped(r, k, s)
  <2>1. Len(s) = Len(r) - k
    BY <1>2, <1>3, <1>4
  <2>2. \A i \in DOMAIN r : i > k => i - k \in DOMAIN s /\ s[i - k] = r[i]
    BY <1>6, <1>7
  <2> QED BY <1>6, <2>1, <2>2 DEF Dropped
<1> QED BY <1>1, <1>3, <1>4, <1>8 DEF t, r, s

\* Cells that begin no intact frame may go.
LEMMA SkipFacts ==
  ASSUME NEW fs \in Seq(STRING), NEW got, NEW b \in Seq(Cells(fs)), NEW w \in Seq(Cells(fs)),
         NEW k \in 0 .. Len(b), NEW full \in BOOLEAN,
         Remains(fs, got, b \o w, full), Spares(fs, b, k, full),
         NEW t, t = SubSeq(b, k + 1, Len(b))
  PROVE  Remains(fs, got, t \o w, full)
<1> DEFINE r == b \o w
           s == t \o w
<1>1. /\ t \in Seq(Cells(fs)) /\ Len(t) = Len(b) - k
      /\ s \in Seq(Cells(fs)) /\ Dropped(r, k, s)
  BY DropConcat
<1>2. r \in Seq(Cells(fs)) /\ Len(b) \in Nat /\ \A i \in 1 .. Len(b) : r[i] = b[i]
  BY ConcatFacts
<1> HIDE DEF r, s
<1>3. k \in Nat
  OBVIOUS
<1>4. Left(fs, got, s)
  BY <1>1, <1>2, <1>3, DropLeft DEF Remains, Left, r
<1>5. ASSUME full PROVE Unbroken(fs, got, s)
  <2>1. Adjoining(fs, r) /\ Present(fs, got, r)
    BY <1>5 DEF Remains, Unbroken, r
  <2>2. Adjoining(fs, s)
    BY <1>1, <1>2, <1>3, <2>1, DropLeft
  <2>3. ASSUME NEW n, fs[n] = "none", Starts(r, n) PROVE Starts(s, n)
    <3>1. PICK i \in DOMAIN r : r[i].frame = n /\ r[i].part = 1
      BY <2>3 DEF Starts
    <3>2. i > k
      <4>1. i \in 1 .. Len(r)
        BY <1>2, <3>1
      <4>2. CASE i <= k
        <5>1. i \in 1 .. k /\ i \in 1 .. Len(b)
          BY <1>2, <4>1, <4>2
        <5>2. r[i] = b[i]
          BY <1>2, <5>1
        <5> QED BY <1>5, <2>3, <3>1, <5>1, <5>2 DEF Spares, IntactStart
      <4> QED BY <1>3, <4>1, <4>2
    <3>3. i - k \in DOMAIN s /\ s[i - k] = r[i]
      BY <1>1, <3>1, <3>2 DEF Dropped
    <3> QED BY <3>1, <3>3 DEF Starts
  <2>4. Present(fs, got, s)
    BY <2>1, <2>3 DEF Present
  <2> QED BY <2>2, <2>4 DEF Unbroken
<1>6. Remains(fs, got, s, full)
  BY <1>4, <1>5 DEF Remains
<1> QED BY <1>1, <1>6 DEF s

\* A whole frame is taken from the buffer: nothing of it is left behind.
LEMMA TakeFacts ==
  ASSUME NEW fs \in Seq(STRING), NEW got \in Seq(DOMAIN fs),
         NEW b \in Seq(Cells(fs)), NEW w \in Seq(Cells(fs)), NEW full \in BOOLEAN,
         Remains(fs, got, b \o w, full),
         FrameSize <= Len(b), Whole(b), b[1].flaw = "none",
         NEW t, t = SubSeq(b, FrameSize + 1, Len(b)),
         NEW more, more = got \o EventOf(b[1])
  PROVE  Remains(fs, more, t \o w, full)
<1> DEFINE r == b \o w
           s == t \o w
           n == b[1].frame
<1>1. FrameSize \in 0 .. Len(b) /\ FrameSize \in Nat /\ FrameSize > 0 /\ Len(b) \in Nat
  <2>1. FrameSize \in Nat /\ FrameSize > 0
    BY DecoderAssumption
  <2> QED BY <2>1
<1>2. /\ t \in Seq(Cells(fs)) /\ Len(t) = Len(b) - FrameSize
      /\ s \in Seq(Cells(fs)) /\ Dropped(r, FrameSize, s)
  BY <1>1, DropConcat
<1>3. /\ r \in Seq(Cells(fs)) /\ Len(r) = Len(b) + Len(w) /\ Len(w) \in Nat
      /\ \A i \in 1 .. Len(b) : r[i] = b[i]
  BY ConcatFacts
<1> HIDE DEF r, s
<1>4. b[1] \in Cells(fs) /\ b[FrameSize] = r[FrameSize] /\ FrameSize \in DOMAIN r
  BY <1>1, <1>3
<1>5. /\ n \in DOMAIN fs /\ n \in Nat /\ fs[n] \in {"none", "content"} /\ b[1].damage = fs[n]
  BY <1>4, CellFacts, HeadFacts
<1>6. \A i \in 1 .. FrameSize : r[i].frame = n /\ r[i].part = i
  <2>1. \A i \in 1 .. FrameSize : b[i].frame = n /\ b[i].part = i
    BY DEF Whole
  <2>2. \A i \in 1 .. FrameSize : i \in 1 .. Len(b)
    BY <1>1
  <2> QED BY <1>3, <2>1, <2>2
<1> HIDE DEF n
<1>7. \A i \in DOMAIN s : s[i].frame > n
  <2> TAKE i \in DOMAIN s
  <2>1. i \in Nat /\ i > 0 /\ i + FrameSize \in DOMAIN r /\ s[i] = r[i + FrameSize]
    BY <1>2 DEF Dropped
  <2>2. FrameSize < i + FrameSize
    BY <1>1, <2>1
  <2>3. Before(r[FrameSize], r[i + FrameSize])
    BY <1>4, <2>1, <2>2 DEF Remains, Left, Ascending, r
  <2>4. s[i] \in Cells(fs)
    BY <1>2
  <2>5. s[i].part \in 1 .. FrameSize /\ s[i].frame \in Nat
    BY <2>4, CellFacts
  <2>6. r[FrameSize].frame = n /\ r[FrameSize].part = FrameSize
    BY <1>1, <1>6
  <2> QED BY <1>1, <1>5, <2>1, <2>3, <2>5, <2>6 DEF Before
<1>8. \A i \in DOMAIN got : got[i] < n
  <2>1. 1 \in DOMAIN r /\ r[1].frame = n
    BY <1>1, <1>3, <1>6
  <2> QED BY <2>1 DEF Remains, Left, Ahead, r
<1>9. InOrder(fs, got) /\ Ascending(s) /\ Ahead(got, s)
  BY <1>1, <1>2, <1>3, DropLeft DEF Remains, Left, r
<1>10. /\ more = IF fs[n] = "none" THEN Append(got, n) ELSE got
       /\ more \in Seq(DOMAIN fs)
  <2>1. more = got \o (IF fs[n] = "content" THEN <<>> ELSE <<n>>)
    BY <1>5 DEF EventOf, n
  <2>2. got \o <<>> = got /\ got \o <<n>> = Append(got, n)
    BY <1>5, PutBehind
  <2>3. CASE fs[n] = "none"
    BY <1>5, <2>1, <2>2, <2>3
  <2>4. CASE fs[n] = "content"
    BY <1>5, <2>1, <2>2, <2>4
  <2> QED BY <1>5, <2>3, <2>4
<1>11. InOrder(fs, more) /\ Ahead(more, s)
  <2>1. CASE fs[n] # "none"
    BY <1>9, <1>10, <2>1
  <2>2. CASE fs[n] = "none"
    <3>1. more = Append(got, n)
      BY <1>10, <2>2
    <3>2. /\ DOMAIN more = 1 .. Len(got) + 1 /\ more[Len(got) + 1] = n
          /\ \A i \in 1 .. Len(got) : more[i] = got[i]
          /\ DOMAIN got = 1 .. Len(got) /\ Len(got) \in Nat
      BY <1>5, <3>1
    <3>3. \A i \in DOMAIN more : i = Len(got) + 1 \/ (i \in DOMAIN got /\ more[i] = got[i])
      BY <3>2
    <3>4. \A i \in DOMAIN more : fs[more[i]] = "none"
      BY <1>9, <2>2, <3>2, <3>3 DEF InOrder
    <3>5. ASSUME NEW i \in DOMAIN more, NEW j \in DOMAIN more, i < j PROVE more[i] < more[j]
      <4>1. i \in DOMAIN got /\ more[i] = got[i]
        BY <3>2, <3>3, <3>5
      <4>2. CASE j = Len(got) + 1
        BY <1>8, <3>2, <4>1, <4>2
      <4>3. CASE j \in DOMAIN got /\ more[j] = got[j]
        BY <1>9, <3>5, <4>1, <4>3 DEF InOrder
      <4> QED BY <3>3, <4>2, <4>3
    <3>6. InOrder(fs, more)
      BY <1>10, <3>4, <3>5 DEF InOrder
    <3>7. \A i \in DOMAIN s : s[i].frame \in Nat
      <4> TAKE i \in DOMAIN s
      <4>1. s[i] \in Cells(fs)
        BY <1>2
      <4> QED BY <4>1, CellFacts
    <3>8. Ahead(more, s)
      <4> SUFFICES ASSUME NEW i \in DOMAIN more, NEW j \in DOMAIN s PROVE more[i] < s[j].frame
        BY DEF Ahead
      <4>1. CASE i = Len(got) + 1
        BY <1>5, <1>7, <3>2, <3>7, <4>1
      <4>2. CASE i \in DOMAIN got /\ more[i] = got[i]
        BY <1>9, <4>2 DEF Ahead
      <4> QED BY <3>3, <4>1, <4>2
    <3> QED BY <3>6, <3>8
  <2> QED BY <2>1, <2>2
<1>12. Left(fs, more, s)
  BY <1>2, <1>9, <1>11 DEF Left
<1>13. ASSUME full PROVE Unbroken(fs, more, s)
  <2>1. Adjoining(fs, r) /\ Present(fs, got, r)
    BY <1>13 DEF Remains, Unbroken, r
  <2>2. Adjoining(fs, s)
    BY <1>1, <1>2, <1>3, <2>1, DropLeft
  <2>3. \A m : (\E i \in DOMAIN got : got[i] = m) => \E i \in DOMAIN more : more[i] = m
    <3> SUFFICES ASSUME NEW i \in DOMAIN got PROVE \E j \in DOMAIN more : more[j] = got[i]
      OBVIOUS
    <3>1. DOMAIN got = 1 .. Len(got) /\ Len(got) \in Nat
      OBVIOUS
    <3>2. i \in DOMAIN Append(got, n) /\ Append(got, n)[i] = got[i]
      BY <1>5, <3>1
    <3>3. i \in DOMAIN more /\ more[i] = got[i]
      BY <1>10, <3>2
    <3> QED BY <3>3
  <2>4. ASSUME NEW m, fs[m] = "none", Starts(r, m)
        PROVE  (\E i \in DOMAIN more : more[i] = m) \/ Starts(s, m)
    <3>1. PICK i \in DOMAIN r : r[i].frame = m /\ r[i].part = 1
      BY <2>4 DEF Starts
    <3>2. CASE i <= FrameSize
      <4>1. i \in 1 .. FrameSize
        BY <1>1, <1>3, <3>1, <3>2
      <4>2. m = n
        BY <1>6, <3>1, <4>1
      <4>3. more = Append(got, n)
        BY <1>10, <2>4, <4>2
      <4>4. Len(got) + 1 \in DOMAIN more /\ more[Len(got) + 1] = n
        BY <1>5, <4>3
      <4> QED BY <4>2, <4>4
    <3>3. CASE ~(i <= FrameSize)
      <4>1. i > FrameSize
        BY <1>1, <1>3, <3>1, <3>3
      <4>2. i - FrameSize \in DOMAIN s /\ s[i - FrameSize] = r[i]
        BY <1>2, <3>1, <4>1 DEF Dropped
      <4> QED BY <3>1, <4>2 DEF Starts
    <3> QED BY <3>2, <3>3
  <2>5. Present(fs, more, s)
    BY <2>1, <2>3, <2>4 DEF Present
  <2> QED BY <2>2, <2>5 DEF Unbroken
<1>14. Remains(fs, more, s, full)
  BY <1>12, <1>13 DEF Remains
<1> QED BY <1>2, <1>10, <1>14 DEF s

-----------------------------------------------------------------------------
(* The decoder.  past is what it gave out before, w what is still to come.    *)
Decoders(fs) ==
  [buffer : Seq(Cells(fs)), state : {"Ready", "Recovering", "Stopped"},
   errors : 0 .. MaxErrors, out : Seq(DOMAIN fs)]

Sound(fs, past, d, w, full) ==
  /\ d \in Decoders(fs)
  /\ Len(d.buffer) <= MaxBuffer
  /\ d.state # "Stopped" => d.errors < MaxErrors
  /\ Remains(fs, past \o d.out, d.buffer \o w, full)

\* What the verdict of parse_frame says of the buffer.
LEMMA ParseFacts ==
  ASSUME NEW fs \in Seq(STRING), NEW b \in Seq(Cells(fs)), NEW x, x = Parse(b)
  PROVE  /\ x \in {"more", "none", "prelude", "message", "header"}
         /\ x = "none" => FrameSize <= Len(b) /\ Whole(b) /\ b[1].flaw = "none"
         /\ x \in {"prelude", "header"} => b # <<>> /\ ~IntactStart(fs, b[1])
         /\ x = "message" => /\ b # <<>> /\ b[1].len = FrameSize /\ FrameSize <= Len(b)
                             /\ b[1].part = 1 /\ Size(fs, b[1].frame) = FrameSize
                             /\ Whole(b) => ~IntactStart(fs, b[1])
<1>1. CASE b = <<>>
  BY <1>1 DEF Parse
<1>2. CASE b # <<>>
  <2> DEFINE c == b[1]
  <2>1. c \in Cells(fs)
    BY <1>2
  <2>2. x = IF c.len = 0 THEN "prelude"
            ELSE IF Len(b) < c.len THEN "more"
            ELSE IF c.flaw = "prelude" THEN "prelude"
            ELSE IF ~Whole(b) THEN "message"
            ELSE c.flaw
    BY <1>2 DEF Parse, HeaderFlaw
  <2> HIDE DEF c
  <2>3. /\ c.flaw \in {"none", "prelude", "message", "header"}
        /\ c.len \in {0, FrameSize, FrameSize + 1}
        /\ c.len # 0 /\ c.flaw # "prelude" =>
             c.len = FrameSize /\ c.part = 1 /\ Size(fs, c.frame) = FrameSize
        /\ IntactStart(fs, c) => c.flaw = "none" /\ c.len = FrameSize
    BY <2>1, HeadFacts DEF IntactStart
  <2>4. FrameSize \in Nat /\ FrameSize > 0 /\ Len(b) \in Nat
    BY DecoderAssumption
  <2>5. CASE c.len = 0 \/ Len(b) < c.len \/ c.flaw = "prelude"
    <3>1. ~IntactStart(fs, c) \/ x = "more"
      BY <2>2, <2>3, <2>4, <2>5
    <3>2. x \in {"more", "prelude"}
      BY <2>2, <2>5
    <3> QED BY <1>2, <3>1, <3>2 DEF c
  <2>6. CASE ~(c.len = 0 \/ Len(b) < c.len \/ c.flaw = "prelude")
    <3>1. /\ c.len = FrameSize /\ c.part = 1 /\ Size(fs, c.frame) = FrameSize
          /\ FrameSize <= Len(b)
      BY <2>3, <2>4, <2>6
    <3>2. x = IF ~Whole(b) THEN "message" ELSE c.flaw
      BY <2>2, <2>6
    <3> QED BY <1>2, <2>3, <2>6, <3>1, <3>2 DEF c
  <2> QED BY <2>5, <2>6
<1> QED BY <1>1, <1>2

\* The buffer begins with a frame that is all there.
LEMMA WholeFacts ==
  ASSUME NEW fs \in Seq(STRING), NEW b \in Seq(Cells(fs)), NEW w \in Seq(Cells(fs)),
         Adjoining(fs, b \o w), b[1].part = 1, Size(fs, b[1].frame) = FrameSize,
         FrameSize <= Len(b)
  PROVE  /\ Whole(b)
         /\ \A i \in 2 .. FrameSize : ~IntactStart(fs, b[i])
<1> DEFINE r == b \o w
<1>1. FrameSize \in Nat /\ FrameSize > 0
  BY DecoderAssumption
<1>2. /\ r \in Seq(Cells(fs)) /\ Len(b) \in Nat /\ Len(r) \in Nat /\ Len(r) >= Len(b)
      /\ \A i \in 1 .. Len(b) : r[i] = b[i]
  <2>1. Len(r) = Len(b) + Len(w) /\ Len(b) \in Nat /\ Len(w) \in Nat
    BY ConcatFacts
  <2> QED BY <2>1, ConcatFacts
<1>3. Adjoining(fs, r)
  OBVIOUS
<1> HIDE DEF r
<1>4. 1 \in DOMAIN r /\ r[1] = b[1]
  BY <1>1, <1>2
<1>5. ASSUME NEW i \in 1 .. FrameSize PROVE b[i].frame = b[1].frame /\ b[i].part = i
  <2>1. i - 1 \in 0 .. Size(fs, r[1].frame) - r[1].part
    BY <1>1, <1>4
  <2>2. r[1 + (i - 1)].frame = r[1].frame /\ r[1 + (i - 1)].part = r[1].part + (i - 1)
    BY <1>3, <1>4, <2>1 DEF Adjoining
  <2>3. 1 + (i - 1) = i /\ i \in 1 .. Len(b)
    BY <1>1, <1>2
  <2> QED BY <1>2, <1>4, <2>2, <2>3
<1>6. Whole(b)
  BY <1>5 DEF Whole
<1>7. \A i \in 2 .. FrameSize : i \in 1 .. FrameSize /\ i # 1
  OBVIOUS
<1> QED BY <1>5, <1>6, <1>7 DEF IntactStart

LEMMA SoundParts ==
  ASSUME NEW fs, NEW past, NEW d, NEW w, NEW full, Sound(fs, past, d, w, full)
  PROVE  /\ d \in Decoders(fs)
         /\ d.buffer \in Seq(Cells(fs)) /\ d.errors \in 0 .. MaxErrors
         /\ d.state \in {"Ready", "Recovering", "Stopped"} /\ d.out \in Seq(DOMAIN fs)
         /\ Len(d.buffer) <= MaxBuffer
         /\ d.state # "Stopped" => d.errors < MaxErrors
         /\ Remains(fs, past \o d.out, d.buffer \o w, full)
BY DEF Sound, Decoders

\* Errors are passed over without the loss of an intact frame.
LEMMA RecoverSound ==
  ASSUME NEW fs \in Seq(STRING), NEW past, NEW w \in Seq(Cells(fs)), NEW full \in BOOLEAN,
         NEW d, Sound(fs, past, d, w, full),
         NEW x, x = Parse(d.buffer), x \notin {"more", "none"},
         NEW t, t = Recovered(d.buffer, x)
  PROVE  /\ t \in Seq(Cells(fs)) /\ Len(t) <= Len(d.buffer)
         /\ Remains(fs, past \o d.out, t \o w, full)
<1> DEFINE b == d.buffer
           got == past \o d.out
           skip == IF x = "message" THEN b[1].len ELSE 1
<1>1. b \in Seq(Cells(fs)) /\ Remains(fs, got, b \o w, full)
  BY SoundParts
<1>2. t = SubSeq(b, skip + 1, Len(b))
  BY DEF Recovered
<1>3. /\ x \in {"prelude", "message", "header"} /\ b # <<>>
      /\ x \in {"prelude", "header"} => ~IntactStart(fs, b[1])
      /\ x = "message" => /\ b[1].len = FrameSize /\ FrameSize <= Len(b)
                          /\ b[1].part = 1 /\ Size(fs, b[1].frame) = FrameSize
                          /\ Whole(b) => ~IntactStart(fs, b[1])
  BY <1>1, ParseFacts
<1>4. FrameSize \in Nat /\ FrameSize > 0 /\ Len(b) \in Nat
  BY <1>1, DecoderAssumption
<1>5. skip \in 0 .. Len(b)
  BY <1>1, <1>3, <1>4
<1>6. ASSUME full, NEW i \in 1 .. skip PROVE ~IntactStart(fs, b[i])
  <2>1. CASE x # "message"
    <3>1. i = 1
      BY <2>1
    <3> QED BY <1>3, <2>1, <3>1
  <2>2. CASE x = "message"
    <3>1. i \in 1 .. FrameSize
      BY <1>3, <2>2
    <3>2. Adjoining(fs, b \o w)
      BY <1>1, <1>6 DEF Remains, Unbroken
    <3> HIDE DEF b
    <3>3. Whole(b) /\ \A j \in 2 .. FrameSize : ~IntactStart(fs, b[j])
      BY <1>1, <1>3, <2>2, <3>2, WholeFacts
    <3>4. i = 1 \/ i \in 2 .. FrameSize
      BY <3>1
    <3> QED BY <1>3, <2>2, <3>3, <3>4
  <2> QED BY <2>1, <2>2
<1> HIDE DEF b, got, skip
<1>7. Spares(fs, b, skip, full)
  BY <1>6 DEF Spares
<1>8. /\ t \in Seq(Cells(fs)) /\ Len(t) = Len(b) - skip
      /\ Remains(fs, got, t \o w, full)
  <2>1. t \in Seq(Cells(fs)) /\ Len(t) = Len(b) - skip
    BY <1>1, <1>2, <1>5, DropFacts DEF Dropped
  <2>2. Remains(fs, got, t \o w, full)
    BY <1>1, <1>2, <1>5, <1>7, SkipFacts
  <2> QED BY <2>1, <2>2
<1>9. Len(t) <= Len(b)
  BY <1>4, <1>5, <1>8
<1> QED BY <1>8, <1>9 DEF b, got

\* decode keeps what is left, and gives out what it takes.
LEMMA DecodeSound ==
  ASSUME NEW fs \in Seq(STRING), NEW past \in Seq(DOMAIN fs), NEW w \in Seq(Cells(fs)),
         NEW full \in BOOLEAN, NEW d, Sound(fs, past, d, w, full), d.state # "Stopped",
         NEW e, e = Decode(d)
  PROVE  Sound(fs, past, e, w, full)
<1> DEFINE b == d.buffer
           x == Parse(b)
<1>1. /\ d \in Decoders(fs) /\ b \in Seq(Cells(fs)) /\ d.errors \in 0 .. MaxErrors
      /\ d.out \in Seq(DOMAIN fs) /\ Len(b) <= MaxBuffer /\ d.errors < MaxErrors
      /\ Remains(fs, past \o d.out, b \o w, full)
  BY SoundParts
<1>2. e = CASE x = "more" -> [d EXCEPT !.state = "Ready"]
            [] x = "none" ->
                 [d EXCEPT !.buffer = SubSeq(@, FrameSize + 1, Len(@)),
                           !.state = "Ready", !.errors = 0,
                           !.out = @ \o EventOf(b[1])]
            [] OTHER ->
                 IF d.errors + 1 >= MaxErrors
                   THEN [d EXCEPT !.errors = @ + 1, !.state = "Stopped"]
                   ELSE [d EXCEPT !.errors = @ + 1, !.state = "Recovering",
                                  !.buffer = Recovered(@, x)]
  BY DEF Decode
<1>3. /\ MaxErrors \in Nat /\ MaxErrors > 0 /\ MaxBuffer \in Nat
      /\ FrameSize \in Nat /\ FrameSize > 0 /\ Len(b) \in Nat
  BY <1>1, DecoderAssumption
<1>4. CASE x = "more"
  <2>1. e = [d EXCEPT !.state = "Ready"]
    BY <1>2, <1>4
  <2>2. /\ e \in Decoders(fs) /\ e.state = "Ready" /\ e.buffer = b /\ e.out = d.out
        /\ e.errors = d.errors
    BY <1>1, <2>1 DEF Decoders
  <2> HIDE DEF b
  <2> QED BY <1>1, <2>2 DEF Sound
<1>5. CASE x = "none"
  <2> DEFINE t == SubSeq(b, FrameSize + 1, Len(b))
             got == past \o d.out
             more == got \o EventOf(b[1])
  <2>1. e = [d EXCEPT !.buffer = t, !.state = "Ready", !.errors = 0,
                      !.out = d.out \o EventOf(b[1])]
    BY <1>2, <1>5
  <2> HIDE DEF b
  <2>2. FrameSize <= Len(b) /\ Whole(b) /\ b[1].flaw = "none"
    BY <1>1, <1>5, ParseFacts
  <2>3. got \in Seq(DOMAIN fs)
    BY <1>1, ConcatFacts
  <2>4. EventOf(b[1]) \in Seq(DOMAIN fs)
    <3>1. b[1] \in Cells(fs)
      BY <1>1, <1>3, <2>2
    <3>2. b[1].frame \in DOMAIN fs
      BY <3>1, CellFacts
    <3>3. EventOf(b[1]) \in {<<>>, <<b[1].frame>>}
      BY DEF EventOf
    <3>4. <<>> \in Seq(DOMAIN fs) /\ <<b[1].frame>> \in Seq(DOMAIN fs)
      BY <3>2
    <3> QED BY <3>3, <3>4
  <2> DEFINE y == EventOf(b[1])
  <2> HIDE DEF y
  <2>5. more = past \o (d.out \o y) /\ d.out \o y \in Seq(DOMAIN fs)
    <3>1. y \in Seq(DOMAIN fs) /\ more = (past \o d.out) \o y
      BY <2>4 DEF y
    <3>2. (past \o d.out) \o y = past \o (d.out \o y)
      <4> DEFINE o == d.out
      <4>1. o \in Seq(DOMAIN fs)
        BY <1>1
      <4> HIDE DEF o
      <4>2. (past \o o) \o y = past \o (o \o y)
        BY <3>1, <4>1, ConcatAssociative, SMTT(20)
      <4> QED BY <4>2 DEF o
    <3>3. d.out \o y \in Seq(DOMAIN fs)
      BY <1>1, <3>1, ConcatFacts
    <3> QED BY <3>1, <3>2, <3>3
  <2> HIDE DEF t, got, more
  <2>6. Remains(fs, got, b \o w, full)
    BY <1>1 DEF got
  <2>7. /\ t \in Seq(Cells(fs)) /\ Len(t) = Len(b) - FrameSize
        /\ Remains(fs, more, t \o w, full)
    <3>1. t = SubSeq(b, FrameSize + 1, Len(b)) /\ more = got \o EventOf(b[1])
      BY DEF t, more
    <3>2. Remains(fs, more, t \o w, full)
      BY <1>1, <2>2, <2>3, <2>6, <3>1, TakeFacts
    <3>3. FrameSize \in 0 .. Len(b)
      BY <1>3, <2>2
    <3>4. t \in Seq(Cells(fs)) /\ Dropped(b, FrameSize, t)
      BY <1>1, <3>1, <3>3, DropFacts
    <3>5. t \in Seq(Cells(fs)) /\ Len(t) = Len(b) - FrameSize
      BY <3>4 DEF Dropped
    <3> QED BY <3>2, <3>5
  <2>8. e = [d EXCEPT !.buffer = t, !.state = "Ready", !.errors = 0, !.out = d.out \o y]
    BY <2>1 DEF y
  <2>9. 0 \in 0 .. MaxErrors /\ 0 < MaxErrors /\ Len(t) <= MaxBuffer
    BY <1>1, <1>3, <2>2, <2>7
  <2>10. /\ e \in Decoders(fs) /\ e.state = "Ready" /\ e.buffer = t /\ e.out = d.out \o y
         /\ e.errors = 0
    BY <1>1, <2>5, <2>7, <2>8, <2>9 DEF Decoders
  <2>11. past \o e.out = more
    BY <2>5, <2>10
  <2> QED BY <2>7, <2>9, <2>10, <2>11 DEF Sound
<1>6. CASE x \notin {"more", "none"}
  <2>1. CASE d.errors + 1 >= MaxErrors
    <3>1. e = [d EXCEPT !.errors = d.errors + 1, !.state = "Stopped"]
      BY <1>2, <1>6, <2>1
    <3>2. d.errors + 1 \in 0 .. MaxErrors
      BY <1>1, <1>3
    <3>3. /\ e \in Decoders(fs) /\ e.state = "Stopped" /\ e.buffer = b /\ e.out = d.out
      BY <1>1, <3>1, <3>2 DEF Decoders
    <3> HIDE DEF b
    <3> QED BY <1>1, <3>3 DEF Sound
  <2>2. CASE ~(d.errors + 1 >= MaxErrors)
    <3> DEFINE t == Recovered(b, x)
    <3>1. e = [d EXCEPT !.errors = d.errors + 1, !.state = "Recovering", !.buffer = t]
      BY <1>2, <1>6, <2>2
    <3>2. /\ t \in Seq(Cells(fs)) /\ Len(t) <= Len(b)
          /\ Remains(fs, past \o d.out, t \o w, full)
      BY <1>6, RecoverSound
    <3> HIDE DEF t, x
    <3>3. d.errors + 1 \in 0 .. MaxErrors /\ d.errors + 1 < MaxErrors /\ Len(t) <= MaxBuffer
      BY <1>1, <1>3, <2>2, <3>2, SMTT(20)
    <3>4. /\ e \in Decoders(fs) /\ e.state = "Recovering" /\ e.buffer = t /\ e.out = d.out
          /\ e.errors = d.errors + 1
      BY <1>1, <3>1, <3>2, <3>3 DEF Decoders
    <3> HIDE DEF b
    <3> QED BY <3>2, <3>3, <3>4 DEF Sound
  <2> QED BY <2>1, <2>2
<1> QED BY <1>4, <1>5, <1>6

\* decode_iter: round after round.
LEMMA Quotients == \A x \in Nat, y \in Nat : y > 0 => x \div y \in Nat
OBVIOUS

LEMMA IterSound ==
  ASSUME NEW fs \in Seq(STRING), NEW past \in Seq(DOMAIN fs), NEW w \in Seq(Cells(fs)),
         NEW full \in BOOLEAN, NEW d, Sound(fs, past, d, w, full), d.out = <<>>,
         NEW e, e = DecodeIter(d)
  PROVE  Sound(fs, past, e, w, full)
<1> DEFINE n == Len(d.buffer) \div FrameSize + 2
           V == {v \in Decoders(fs) : Sound(fs, past, v, w, full)}
           turn == [i \in 1 .. n |-> [v \in V |-> DecodeNext(v)]]
           b == [d EXCEPT !.out = <<>>]
           E(g) == [i \in 0 .. n |-> IF i = 0 THEN b ELSE DecodeNext(g[i - 1])]
           round == CHOOSE g : g = E(g)
<1>1. n \in Nat
  <2>1. Len(d.buffer) \in Nat /\ FrameSize \in Nat /\ FrameSize > 0
    <3>1. d.buffer \in Seq(Cells(fs))
      BY SoundParts
    <3> QED BY <3>1, DecoderAssumption
  <2>3. Len(d.buffer) \div FrameSize \in Nat
    BY <2>1, Quotients, ZenonT(30)
  <2> QED BY <2>3
<1>2. e = round[n]
  BY DEF DecodeIter
<1> HIDE DEF n
<1>3. b = d /\ b \in V
  <2>1. d \in Decoders(fs)
    BY SoundParts
  <2>2. b = d
    BY <2>1 DEF Decoders
  <2> QED BY <2>1, <2>2
<1> HIDE DEF b
<1>4. \A v \in V : DecodeNext(v) \in V
  <2> TAKE v \in V
  <2>1. v \in Decoders(fs) /\ Sound(fs, past, v, w, full)
    OBVIOUS
  <2>2. CASE v.state \in {"Stopped", "Recovering"}
    BY <2>1, <2>2 DEF DecodeNext
  <2>3. CASE v.state \notin {"Stopped", "Recovering"}
    <3> DEFINE x == Decode(v)
    <3>1. DecodeNext(v) = x
      BY <2>3 DEF DecodeNext
    <3>2. v.state # "Stopped"
      BY <2>3
    <3>3. Sound(fs, past, x, w, full)
      BY <2>1, <3>2, DecodeSound
    <3> HIDE DEF x
    <3>4. x \in Decoders(fs)
      BY <3>3, SoundParts
    <3> QED BY <3>1, <3>3, <3>4
  <2> QED BY <2>2, <2>3
<1> HIDE DEF V
<1>5. StaysIn(V, n, turn)
  BY <1>4 DEF StaysIn
<1>6. \A i \in 1 .. n, v \in V : turn[i][v] = DecodeNext(v)
  OBVIOUS
<1> HIDE DEF turn
<1>7. PICK f : Recurs(f, V, n, b, turn)
  BY <1>1, <1>3, <1>5, Recursion
<1>8. f \in [0 .. n -> V] /\ f[0] = b
  BY <1>7 DEF Recurs
<1>9. \A i \in 1 .. n : f[i] = DecodeNext(f[i - 1])
  <2> TAKE i \in 1 .. n
  <2>1. f[i - 1] \in V
    BY <1>1, <1>8
  <2> QED BY <2>1, <1>6, <1>7 DEF Recurs
<1>10. f = E(f)
  <2>1. \A i \in 0 .. n : f[i] = E(f)[i]
    BY <1>1, <1>8, <1>9
  <2>2. DOMAIN E(f) = 0 .. n /\ E(f) = [i \in 0 .. n |-> E(f)[i]]
    OBVIOUS
  <2>3. f = [i \in 0 .. n |-> f[i]]
    BY <1>8
  <2> HIDE DEF E
  <2> QED BY <2>1, <2>2, <2>3
<1>11. round = E(round)
  <2> HIDE DEF E
  <2> QED BY <1>10
<1> HIDE DEF round
<1>12. round[0] = b /\ \A i \in 1 .. n : round[i] = DecodeNext(round[i - 1])
  <2>1. E(round)[0] = b /\ \A i \in 1 .. n : E(round)[i] = DecodeNext(round[i - 1])
    BY <1>1
  <2> HIDE DEF E
  <2> QED BY <1>11, <2>1
<1> DEFINE T == {i \in 0 .. n : round[i] \in V}
<1>13. 0 \in T
  BY <1>1, <1>3, <1>12
<1>14. ASSUME NEW i \in 1 .. n, i - 1 \in T PROVE i \in T
  <2>1. round[i - 1] \in V
    BY <1>14
  <2> QED BY <1>4, <1>12, <2>1
<1> HIDE DEF T
<1>15. 0 .. n \subseteq T
  BY <1>1, <1>13, <1>14, InductionUpTo
<1>16. round[n] \in V
  BY <1>1, <1>15 DEF T
<1> QED BY <1>2, <1>16 DEF V

\* feed: what is accepted moves from the wire to the buffer, what is refused
\* is gone.
LEMMA FeedSound ==
  ASSUME NEW fs \in Seq(STRING), NEW past \in Seq(DOMAIN fs),
         NEW chunk \in Seq(Cells(fs)), NEW w \in Seq(Cells(fs)),
         NEW full \in BOOLEAN, NEW d, Sound(fs, past, d, chunk \o w, full),
         NEW still \in BOOLEAN, still => full /\ ~Overflows(d, chunk),
         NEW e, e = Feed(d, chunk)
  PROVE  Sound(fs, past, e, w, still) /\ e.out = d.out
<1> DEFINE b == d.buffer
           got == past \o d.out
           x == b \o chunk
<1>1. /\ d \in Decoders(fs) /\ b \in Seq(Cells(fs))
      /\ d.state \in {"Ready", "Recovering", "Stopped"} /\ d.errors \in 0 .. MaxErrors
      /\ Len(b) <= MaxBuffer /\ (d.state # "Stopped" => d.errors < MaxErrors)
      /\ Remains(fs, got, b \o (chunk \o w), full)
  BY SoundParts
<1>2. CASE ~Overflows(d, chunk)
  <2>1. e = [d EXCEPT !.buffer = x,
                      !.state = IF d.state = "Recovering" THEN "Ready" ELSE d.state]
    BY <1>2 DEF Feed
  <2>2. x \in Seq(Cells(fs)) /\ Len(x) = Len(b) + Len(chunk)
    BY <1>1, ConcatFacts
  <2>3. x \o w = b \o (chunk \o w)
    <3>1. b \in Seq(Cells(fs))
      BY <1>1
    <3> HIDE DEF b
    <3> QED BY <3>1, ConcatAssociative, SMTT(20)
  <2>4. Len(x) <= MaxBuffer
    <3>1. Len(b) \in Nat /\ Len(chunk) \in Nat /\ MaxBuffer \in Nat
      BY <1>1, DecoderAssumption
    <3> QED BY <1>2, <2>2, <3>1 DEF Overflows
  <2> HIDE DEF x
  <2>5. /\ e \in Decoders(fs) /\ e.buffer = x /\ e.out = d.out /\ e.errors = d.errors
        /\ e.state = IF d.state = "Recovering" THEN "Ready" ELSE d.state
    BY <1>1, <2>1, <2>2 DEF Decoders
  <2>6. Remains(fs, got, x \o w, still)
    BY <1>1, <2>3 DEF Remains
  <2>7. e.state # "Stopped" => e.errors < MaxErrors
    BY <1>1, <2>5
  <2>8. Remains(fs, past \o e.out, e.buffer \o w, still)
    BY <2>5, <2>6
  <2> QED BY <2>4, <2>5, <2>7, <2>8 DEF Sound
<1>3. CASE Overflows(d, chunk)
  <2> DEFINE r == b \o (chunk \o w)
             s == b \o w
             at(i) == IF i <= Len(b) THEN i ELSE i + Len(chunk)
  <2>1. e = d /\ ~still
    BY <1>3 DEF Feed
  <2>2. chunk \o w \in Seq(Cells(fs)) /\ Len(chunk \o w) = Len(chunk) + Len(w)
        /\ \A i \in 1 .. Len(w) : (chunk \o w)[Len(chunk) + i] = w[i]
    BY ConcatFacts
  <2> DEFINE v == chunk \o w
  <2>3. v \in Seq(Cells(fs)) /\ Len(v) = Len(chunk) + Len(w)
        /\ \A i \in 1 .. Len(w) : v[Len(chunk) + i] = w[i]
    BY <2>2
  <2> HIDE DEF v, b
  <2>4. /\ b \o v \in Seq(Cells(fs)) /\ Len(b \o v) = Len(b) + Len(v)
        /\ \A i \in 1 .. Len(b) : (b \o v)[i] = b[i]
        /\ \A i \in 1 .. Len(v) : (b \o v)[Len(b) + i] = v[i]
    <3>1. b \in Seq(Cells(fs)) /\ v \in Seq(Cells(fs))
      BY <1>1, <2>3
    <3> QED BY <3>1, ConcatFacts
  <2>5. /\ r \in Seq(Cells(fs)) /\ Len(r) = Len(b) + Len(v)
        /\ \A i \in 1 .. Len(b) : r[i] = b[i]
        /\ \A i \in 1 .. Len(v) : r[Len(b) + i] = v[i]
    BY <2>4 DEF v
  <2>6. /\ s \in Seq(Cells(fs)) /\ Len(s) = Len(b) + Len(w)
        /\ \A i \in 1 .. Len(b) : s[i] = b[i]
        /\ \A i \in 1 .. Len(w) : s[Len(b) + i] = w[i]
    BY <1>1, ConcatFacts
  <2> HIDE DEF r, s
  <2>7. Len(b) \in Nat /\ Len(chunk) \in Nat /\ Len(w) \in Nat
        /\ DOMAIN s = 1 .. Len(b) + Len(w) /\ DOMAIN r = 1 .. Len(b) + (Len(chunk) + Len(w))
    BY <1>1, <2>3, <2>5, <2>6
  <2>8. ASSUME NEW i \in DOMAIN s PROVE i \in Nat /\ at(i) \in DOMAIN r /\ s[i] = r[at(i)]
    <3>1. CASE i <= Len(b)
      <4>1. i \in 1 .. Len(b) /\ at(i) = i
        BY <2>7, <3>1
      <4> QED BY <2>5, <2>6, <2>7, <4>1
    <3>2. CASE ~(i <= Len(b))
      <4>1. i - Len(b) \in 1 .. Len(w) /\ i = Len(b) + (i - Len(b))
        BY <2>7, <3>2
      <4>2. /\ at(i) = Len(b) + (Len(chunk) + (i - Len(b)))
            /\ Len(chunk) + (i - Len(b)) \in 1 .. Len(v)
        BY <2>3, <2>7, <3>2, <4>1
      <4>3. r[at(i)] = v[Len(chunk) + (i - Len(b))]
        BY <2>5, <4>2
      <4>4. r[at(i)] = w[i - Len(b)]
        BY <2>3, <4>1, <4>3
      <4>5. s[i] = w[i - Len(b)]
        BY <2>6, <4>1
      <4>6. Len(b) + (Len(chunk) + (i - Len(b))) \in 1 .. Len(b) + (Len(chunk) + Len(w))
        BY <2>7, <4>1
      <4>7. at(i) \in DOMAIN r
        BY <2>7, <4>2, <4>6
      <4>8. i \in Nat
        BY <2>7
      <4> HIDE DEF at
      <4> QED BY <4>4, <4>5, <4>7, <4>8
    <3> QED BY <3>1, <3>2
  <2>9. \A i, j \in DOMAIN s : i < j => at(i) < at(j)
    BY <2>7, <2>8
  <2> HIDE DEF at
  <2>10. InOrder(fs, got) /\ Ascending(r) /\ Ahead(got, r)
    BY <1>1 DEF Remains, Left, r, b
  <2>11. Ascending(s)
    BY <2>8, <2>9, <2>10 DEF Ascending
  <2>12. Ahead(got, s)
    BY <2>8, <2>10 DEF Ahead
  <2>13. Remains(fs, got, s, still)
    BY <2>1, <2>6, <2>10, <2>11, <2>12 DEF Remains, Left
  <2>14. Remains(fs, past \o e.out, e.buffer \o w, still)
    BY <2>1, <2>13 DEF s, b
  <2>15. Len(e.buffer) <= MaxBuffer
    BY <1>1, <2>1 DEF b
  <2> QED BY <1>1, <2>1, <2>14, <2>15 DEF Sound
<1> QED BY <1>2, <1>3

\* One chunk of a body, whatever its size: the events decoded from it are
\* intact frames, in the order they were sent and behind all those decoded
\* before; and unless a chunk was refused or the decoder has stopped, every
\* intact frame is decoded, or its start still in the buffer or on the wire
\* (feed and decode_iter, decoder.rs).
THEOREM AbsorbSound ==
  ASSUME NEW fs \in Seq(STRING), NEW past \in Seq(DOMAIN fs),
         NEW chunk \in Seq(Cells(fs)), NEW w \in Seq(Cells(fs)),
         NEW full \in BOOLEAN, NEW d, Sound(fs, past, d, chunk \o w, full), d.out = <<>>,
         NEW still \in BOOLEAN, still => full /\ ~Overflows(d, chunk),
         NEW e, e = Absorb(d, chunk)
  PROVE  Sound(fs, past, e, w, still)
<1> DEFINE f == Feed(d, chunk)
<1>1. e = DecodeIter(f)
  BY DEF Absorb
<1>2. Sound(fs, past, f, w, still) /\ f.out = d.out
  BY FeedSound
<1> HIDE DEF f
<1> QED BY <1>1, <1>2, IterSound

\* What was decoded is handed on.
Emptied(d) == [d EXCEPT !.out = <<>>]

LEMMA HandedOn ==
  ASSUME NEW fs \in Seq(STRING), NEW past \in Seq(DOMAIN fs), NEW w \in Seq(Cells(fs)),
         NEW full \in BOOLEAN, NEW d, Sound(fs, past, d, w, full)
  PROVE  Emptied(d).out = <<>> /\ Sound(fs, past \o d.out, Emptied(d), w, full)
<1> DEFINE e == Emptied(d)
           got == past \o d.out
<1>1. /\ d \in Decoders(fs) /\ d.out \in Seq(DOMAIN fs) /\ Len(d.buffer) <= MaxBuffer
      /\ d.state # "Stopped" => d.errors < MaxErrors
      /\ Remains(fs, got, d.buffer \o w, full)
  BY SoundParts
<1>2. got \in Seq(DOMAIN fs)
  BY <1>1, ConcatFacts
<1>3. <<>> \in Seq(DOMAIN fs)
  OBVIOUS
<1>4. /\ e \in Decoders(fs) /\ e.out = <<>> /\ e.buffer = d.buffer /\ e.state = d.state
      /\ e.errors = d.errors
  BY <1>1, <1>3 DEF Decoders, Emptied
<1>5. got \o e.out = got
  BY <1>2, <1>4, ConcatEmptySeq
<1>6. Remains(fs, got \o e.out, e.buffer \o w, full)
  BY <1>1, <1>4, <1>5
<1> QED BY <1>1, <1>2, <1>4, <1>6 DEF Sound

-----------------------------------------------------------------------------
(* The body as it is sent. *)
Frames(fs) == [n \in DOMAIN fs |-> FrameCells(n, fs[n])]

\* The first k frames of a body, as cells.
Sent(fs, k, r) ==
  /\ r \in Seq(Cells(fs)) /\ Ascending(r) /\ Adjoining(fs, r)
  /\ \A i \in DOMAIN r : r[i].frame <= k
  /\ \A n \in 1 .. k : Starts(r, n)

LEMMA FrameFacts ==
  ASSUME NEW fs \in Seq(STRING), NEW n \in DOMAIN fs, NEW x, x = FrameCells(n, fs[n])
  PROVE  /\ x \in Seq(Cells(fs)) /\ Len(x) = Size(fs, n) /\ DOMAIN x = 1 .. Size(fs, n)
         /\ \A p \in 1 .. Size(fs, n) : x[p].frame = n /\ x[p].part = p
<1>1. Size(fs, n) \in Nat
  BY SizeFacts
<1>2. x = [p \in 1 .. Size(fs, n) |-> Cell(n, p, fs[n])]
  BY DEF FrameCells, Size
<1>3. \A p \in 1 .. Size(fs, n) : Cell(n, p, fs[n]) \in Cells(fs)
  BY DEF Cells
<1>4. x \in [1 .. Size(fs, n) -> Cells(fs)]
  BY <1>2, <1>3
<1>5. x \in Seq(Cells(fs)) /\ Len(x) = Size(fs, n) /\ DOMAIN x = 1 .. Size(fs, n)
  BY <1>1, <1>4, FunctionIsSeq
<1>6. \A p \in 1 .. Size(fs, n) : x[p].frame = n /\ x[p].part = p
  <2> TAKE p \in 1 .. Size(fs, n)
  <2>1. x[p] = Cell(n, p, fs[n])
    BY <1>2
  <2> QED BY <2>1 DEF Cell
<1> QED BY <1>5, <1>6

LEMMA SentNext ==
  ASSUME NEW fs \in Seq(STRING), NEW k \in Nat, NEW n \in DOMAIN fs, n = k + 1,
         NEW r, Sent(fs, k, r), NEW x, x = FrameCells(n, fs[n]), NEW s, s = r \o x
  PROVE  Sent(fs, n, s)
<1> DEFINE m == Size(fs, n)
           a == Len(r)
<1>1. /\ r \in Seq(Cells(fs)) /\ Ascending(r) /\ Adjoining(fs, r)
      /\ \A i \in DOMAIN r : r[i].frame <= k
      /\ \A j \in 1 .. k : Starts(r, j)
  BY DEF Sent
<1>2. /\ x \in Seq(Cells(fs)) /\ Len(x) = m
      /\ \A p \in 1 .. m : x[p].frame = n /\ x[p].part = p
  BY FrameFacts
<1>3. m \in Nat /\ m > 0
  <2>1. FrameSize \in Nat
    BY DecoderAssumption
  <2> QED BY <2>1, SizeFacts
<1> HIDE DEF m
<1>4. /\ s \in Seq(Cells(fs)) /\ Len(s) = a + m
      /\ \A i \in 1 .. a : s[i] = r[i]
      /\ \A p \in 1 .. m : s[a + p] = x[p]
  <2>1. r \in Seq(Cells(fs)) /\ x \in Seq(Cells(fs))
    BY <1>1, <1>2
  <2>2. /\ r \o x \in Seq(Cells(fs)) /\ Len(r \o x) = Len(r) + Len(x)
        /\ \A i \in 1 .. Len(r) : (r \o x)[i] = r[i]
        /\ \A p \in 1 .. Len(x) : (r \o x)[Len(r) + p] = x[p]
    BY <2>1, ConcatFacts
  <2> QED BY <1>2, <2>2
<1>5. a \in Nat /\ DOMAIN r = 1 .. a /\ DOMAIN s = 1 .. a + m
  BY <1>1, <1>3, <1>4
<1> HIDE DEF a
<1>6. ASSUME NEW i \in DOMAIN s
      PROVE  \/ i \in DOMAIN r /\ s[i] = r[i] /\ s[i].frame <= k
             \/ i \notin DOMAIN r /\ i - a \in 1 .. m /\ s[i].frame = n /\ s[i].part = i - a
  <2>1. CASE i <= a
    <3>1. i \in 1 .. a
      BY <1>3, <1>5, <2>1
    <3> QED BY <1>1, <1>4, <1>5, <3>1
  <2>2. CASE ~(i <= a)
    <3>1. i - a \in 1 .. m /\ i = a + (i - a) /\ i \notin 1 .. a
      BY <1>3, <1>5, <2>2
    <3>2. s[i] = x[i - a]
      BY <1>4, <3>1
    <3> QED BY <1>2, <1>5, <3>1, <3>2, SMTT(20)
  <2> QED BY <2>1, <2>2
<1>7. \A i \in DOMAIN s : s[i].frame \in Nat
  <2> TAKE i \in DOMAIN s
  <2>1. s[i] \in Cells(fs)
    BY <1>4
  <2> QED BY <2>1, CellFacts
<1>8. Ascending(s)
  <2> SUFFICES ASSUME NEW i \in DOMAIN s, NEW j \in DOMAIN s, i < j PROVE Before(s[i], s[j])
    BY DEF Ascending
  <2>1. CASE i \in DOMAIN r /\ j \in DOMAIN r
    BY <1>1, <1>6, <2>1 DEF Ascending
  <2>2. CASE i \in DOMAIN r /\ j \notin DOMAIN r
    <3>1. s[i].frame <= k /\ s[j].frame = n
      BY <1>6, <2>2
    <3> QED BY <1>7, <3>1 DEF Before
  <2>3. CASE i \notin DOMAIN r
    <3>1. j \notin DOMAIN r
      BY <1>5, <2>3
    <3>2. s[i].frame = n /\ s[j].frame = n /\ s[i].part = i - a /\ s[j].part = j - a
      BY <1>6, <2>3, <3>1
    <3>3. i - a < j - a
      BY <1>5
    <3> QED BY <3>2, <3>3 DEF Before
  <2> QED BY <2>1, <2>2, <2>3
<1>9. Adjoining(fs, s)
  <2> SUFFICES ASSUME NEW i \in DOMAIN s, NEW q \in 0 .. Size(fs, s[i].frame) - s[i].part
               PROVE  /\ i + q \in DOMAIN s
                      /\ s[i + q].frame = s[i].frame /\ s[i + q].part = s[i].part + q
    BY DEF Adjoining
  <2>1. CASE i \in DOMAIN r
    <3>1. s[i] = r[i]
      BY <1>6, <2>1
    <3>2. i + q \in DOMAIN r /\ r[i + q].frame = r[i].frame /\ r[i + q].part = r[i].part + q
      BY <1>1, <2>1, <3>1 DEF Adjoining
    <3>3. i + q \in DOMAIN s /\ s[i + q] = r[i + q]
      BY <1>3, <1>4, <1>5, <3>2
    <3> QED BY <3>1, <3>2, <3>3
  <2>2. CASE i \notin DOMAIN r
    <3>1. s[i].frame = n /\ s[i].part = i - a /\ i - a \in 1 .. m
      BY <1>6, <2>2
    <3>2. q \in 0 .. m - (i - a)
      BY <3>1 DEF m
    <3>3. i \in Int /\ q \in Int /\ i + q = a + ((i - a) + q) /\ (i - a) + q \in 1 .. m
          /\ i + q \in 1 .. a + m
      <4>1. i \in Nat /\ i - a >= 1 /\ i - a <= m
        BY <1>3, <1>5, <3>1
      <4>2. q \in Int /\ q >= 0 /\ q <= m - (i - a)
        BY <1>3, <1>5, <3>2, <4>1
      <4> DEFINE v == i - a
      <4>3. v \in Int /\ v >= 1 /\ q <= m - v /\ i = a + v
        BY <1>5, <4>1, <4>2
      <4> HIDE DEF v
      <4>4. v + q \in Int /\ v + q >= 1 /\ v + q <= m /\ m \in Int /\ a \in Nat
        BY <1>3, <1>5, <4>2, <4>3
      <4>5. i + q = a + (v + q)
        BY <1>5, <4>2, <4>3
      <4>6. v + q \in 1 .. m /\ i + q \in 1 .. a + m
        BY <4>4, <4>5
      <4> QED BY <4>1, <4>2, <4>5, <4>6 DEF v
    <3>4. s[i + q] = x[(i - a) + q]
      BY <1>4, <3>3
    <3>5. x[(i - a) + q].frame = n /\ x[(i - a) + q].part = (i - a) + q
      BY <1>2, <3>3
    <3>6. i + q \in DOMAIN s
      BY <1>5, <3>3
    <3> QED BY <3>1, <3>4, <3>5, <3>6
  <2> QED BY <2>1, <2>2
<1>10. \A i \in DOMAIN s : s[i].frame <= n
  <2> TAKE i \in DOMAIN s
  <2>1. s[i].frame <= k \/ s[i].frame = n
    BY <1>6
  <2> QED BY <1>7, <2>1
<1>11. \A j \in 1 .. n : Starts(s, j)
  <2> TAKE j \in 1 .. n
  <2>1. CASE j = n
    <3>1. a + 1 \in DOMAIN s /\ s[a + 1] = x[1] /\ 1 \in 1 .. m
      BY <1>3, <1>4, <1>5
    <3>2. s[a + 1].frame = n /\ s[a + 1].part = 1
      BY <1>2, <3>1
    <3> QED BY <2>1, <3>1, <3>2 DEF Starts
  <2>2. CASE j # n
    <3>1. j \in 1 .. k
      BY <2>2
    <3>2. PICK i \in DOMAIN r : r[i].frame = j /\ r[i].part = 1
      BY <1>1, <3>1 DEF Starts
    <3>3. i \in DOMAIN s /\ s[i] = r[i]
      BY <1>3, <1>4, <1>5
    <3> QED BY <3>2, <3>3 DEF Starts
  <2> QED BY <2>1, <2>2
<1> QED BY <1>4, <1>8, <1>9, <1>10, <1>11 DEF Sent

LEMMA BodySent ==
  ASSUME NEW fs \in Seq(STRING) PROVE Sent(fs, Len(fs), FlattenSeq(Frames(fs)))
<1> DEFINE F == Frames(fs)
<1>1. Len(fs) \in Nat /\ DOMAIN fs = 1 .. Len(fs)
  OBVIOUS
<1>2. \A n \in DOMAIN fs : F[n] = FrameCells(n, fs[n]) /\ F[n] \in Seq(Cells(fs))
  <2> TAKE n \in DOMAIN fs
  <2>1. F[n] = FrameCells(n, fs[n])
    BY DEF Frames
  <2> QED BY <2>1, FrameFacts
<1>3. F \in Seq(Seq(Cells(fs))) /\ Len(F) = Len(fs)
  <2>1. F \in [1 .. Len(fs) -> Seq(Cells(fs))]
    <3>1. DOMAIN F = 1 .. Len(fs) /\ F = [n \in 1 .. Len(fs) |-> F[n]]
      BY <1>1 DEF Frames
    <3> HIDE DEF F
    <3> QED BY <1>1, <1>2, <3>1
  <2> HIDE DEF F
  <2> QED BY <1>1, <2>1, FunctionIsSeq
<1> HIDE DEF F
<1>4. PICK g : Flattens(g, Cells(fs), F) /\ FlattenSeq(F) = g[Len(F)]
  BY <1>3, FlattenExists
<1>5. g[0] = <<>> /\ \A i \in 1 .. Len(fs) : g[i] = g[i - 1] \o F[i]
  BY <1>3, <1>4 DEF Flattens, Cat
<1> DEFINE T == {i \in 0 .. Len(fs) : Sent(fs, i, g[i])}
<1>6. 0 \in T
  <2>1. g[0] \in Seq(Cells(fs)) /\ DOMAIN g[0] = {}
    BY <1>5
  <2>2. Sent(fs, 0, g[0])
    BY <2>1 DEF Sent, Ascending, Adjoining
  <2> QED BY <1>1, <2>2
<1>7. ASSUME NEW i \in 1 .. Len(fs), i - 1 \in T PROVE i \in T
  <2>1. /\ Sent(fs, i - 1, g[i - 1]) /\ i \in DOMAIN fs /\ i - 1 \in Nat /\ i = (i - 1) + 1
        /\ g[i] = g[i - 1] \o F[i] /\ F[i] = FrameCells(i, fs[i])
    <3>1. i - 1 \in Nat /\ i = (i - 1) + 1 /\ i \in DOMAIN fs
      BY <1>1
    <3>2. Sent(fs, i - 1, g[i - 1])
      BY <1>7
    <3> QED BY <1>2, <1>5, <3>1, <3>2
  <2>2. Sent(fs, i, g[i])
    <3> DEFINE k == i - 1
               r == g[i - 1]
    <3>1. k \in Nat /\ i = k + 1 /\ Sent(fs, k, r) /\ g[i] = r \o F[i]
      BY <2>1
    <3> HIDE DEF k, r
    <3> QED BY <2>1, <3>1, SentNext
  <2> QED BY <2>2
<1> HIDE DEF T
<1>8. 0 .. Len(fs) \subseteq T
  BY <1>1, <1>6, <1>7, InductionUpTo
<1>9. Sent(fs, Len(fs), g[Len(fs)])
  BY <1>1, <1>8 DEF T
<1> QED BY <1>3, <1>4, <1>9 DEF F

\* A new decoder before a whole body.
LEMMA FreshSound ==
  ASSUME NEW fs \in Seq(STRING), NEW w, w = FlattenSeq(Frames(fs)), NEW full \in BOOLEAN
  PROVE  w \in Seq(Cells(fs)) /\ Sound(fs, <<>>, NewDecoder, w, full)
<1>1. /\ w \in Seq(Cells(fs)) /\ Ascending(w) /\ Adjoining(fs, w)
      /\ \A n \in 1 .. Len(fs) : Starts(w, n)
  BY BodySent DEF Sent
<1>2. /\ MaxErrors \in Nat /\ MaxErrors > 0 /\ MaxBuffer \in Nat
  BY DecoderAssumption
<1>3. /\ NewDecoder \in Decoders(fs) /\ NewDecoder.buffer = <<>> /\ NewDecoder.out = <<>>
      /\ NewDecoder.errors = 0
  BY <1>2 DEF NewDecoder, Decoders
<1>4. <<>> \o w = w /\ <<>> \o <<>> = <<>>
  BY <1>1, ConcatEmptySeq
<1>5. <<>> \in Seq(DOMAIN fs) /\ DOMAIN <<>> = {}
  OBVIOUS
<1>6. Left(fs, <<>>, w)
  BY <1>1, <1>5 DEF Left, InOrder, Ahead
<1>7. Unbroken(fs, <<>>, w)
  <2>1. DOMAIN fs = 1 .. Len(fs)
    OBVIOUS
  <2> QED BY <1>1, <2>1 DEF Unbroken, Present
<1>8. Remains(fs, <<>>, w, full)
  BY <1>6, <1>7 DEF Remains
<1>9. Remains(fs, <<>> \o NewDecoder.out, NewDecoder.buffer \o w, full)
  BY <1>3, <1>4, <1>8
<1>10. Len(NewDecoder.buffer) <= MaxBuffer /\ NewDecoder.errors < MaxErrors
  BY <1>2, <1>3
<1> QED BY <1>1, <1>3, <1>9, <1>10 DEF Sound

\* The wire is cut into a chunk and the rest.
Chunk(w, size) == SubSeq(w, 1, Min({size, Len(w)}))
Later(w, size)  == SubSeq(w, size + 1, Len(w))

LEMMA CutFacts ==
  ASSUME NEW S, NEW w \in Seq(S), NEW size \in Nat
  PROVE  /\ Chunk(w, size) \in Seq(S) /\ Later(w, size) \in Seq(S)
         /\ Chunk(w, size) \o Later(w, size) = w
<1> DEFINE c == Chunk(w, size)
           t == Later(w, size)
<1>1. Len(w) \in Nat /\ {size, Len(w)} \in SUBSET Nat /\ {size, Len(w)} # {}
  OBVIOUS
<1> DEFINE m == Min({size, Len(w)})
<1>2. m \in {size, Len(w)} /\ m <= size /\ m <= Len(w)
  BY <1>1, MinOfNats
<1>3. c = SubSeq(w, 1, m) /\ t = SubSeq(w, size + 1, Len(w))
  BY DEF Chunk, Later
<1> HIDE DEF m, c, t
<1>4. m \in 0 .. Len(w) /\ (m = size \/ (m = Len(w) /\ Len(w) < size))
  <2>1. m \in Nat /\ m >= 0 /\ m <= Len(w)
    BY <1>1, <1>2
  <2>2. m = Len(w) => m = size \/ Len(w) < size
    BY <1>1, <1>2
  <2> QED BY <1>1, <1>2, <2>1, <2>2
<1>5. t = SubSeq(w, m + 1, Len(w))
  <2>1. CASE m = size
    BY <1>3, <2>1
  <2>2. CASE m = Len(w) /\ Len(w) < size
    <3>1. /\ size + 1 \in Int /\ Len(w) \in Int /\ m + 1 \in Int
          /\ Len(w) < size + 1 /\ Len(w) < m + 1
      BY <1>1, <2>2
    <3>2. SubSeq(w, size + 1, Len(w)) = <<>> /\ SubSeq(w, m + 1, Len(w)) = <<>>
      BY <3>1, SubSeqEmpty
    <3> QED BY <1>3, <3>2
  <2> QED BY <1>4, <2>1, <2>2
<1>6. c \o t = w
  <2>1. 1 \in 1 .. Len(w) + 1 /\ m \in 1 - 1 .. Len(w) /\ Len(w) \in m .. Len(w)
    BY <1>1, <1>4
  <2>2. SubSeq(w, 1, m) \o SubSeq(w, m + 1, Len(w)) = SubSeq(w, 1, Len(w))
    BY <2>1, ConcatAdjacentSubSeq
  <2>3. SubSeq(w, 1, Len(w)) = w
    BY SubSeqFull
  <2> QED BY <1>3, <1>5, <2>2, <2>3
<1>7. c \in Seq(S) /\ t \in Seq(S)
  <2>1. t \in Seq(S)
    BY <1>4, <1>5, DropFacts
  <2>2. m \in Int /\ \A i \in 1 .. m : w[i] \in S
    BY <1>1, <1>4
  <2>3. c \in Seq(S)
    <3>1. 1 \in Int
      OBVIOUS
    <3>2. SubSeq(w, 1, m) \in Seq(S)
      BY <2>2, <3>1, SubSeqProperties, Zenon
    <3> QED BY <1>3, <3>2
  <2> QED BY <2>1, <2>3
<1> QED BY <1>6, <1>7 DEF c, t

-----------------------------------------------------------------------------
(* Where the call and the handler are, and what they then have. *)

Working == {"prepare", "profile", "model", "send", "judge", "refreshing", "backoff"}
CallSteps == Working \cup {"acquire", "ok", "failed"}

\* The call runs exactly while the handler waits for it.
CallWithHandler ==
  /\ phase \in {"new", "calling", "searching", "reading", "ending", "closed"}
  /\ step \in CallSteps \cup {"idle"}
  /\ step # "idle" <=> phase = "calling"

ControlTypes ==
  /\ kind \in {"api", "mcp"}
  /\ slot \in Cred \cup {NoCred}
  /\ off \subseteq Cred
  /\ failures \in [Cred -> Nat]
  /\ phase = "calling" => (kind = "mcp" <=> route = "search")
  /\ phase = "searching" => route = "search"

\* A request is prepared from the client's, step by step.
BodyPrepared ==
  /\ step \in {"idle", "acquire", "prepare", "profile", "model"} => body = "original"
  /\ step \in {"profile", "model"} => kind = "api"
  /\ step = "model" => slot \in Enterprise

\* Only a token the upstream called invalid is refreshed by force.
RefreshJustified == step = "refreshing" => verdict = "bearer" /\ slot \in forced

ControlInv ==
  CallWithHandler /\ ControlTypes /\ SlotCoversUse /\ BodyPrepared
    /\ BodyFitsCredential /\ RefreshJustified

LEMMA ControlInit == Init => ControlInv
  BY ProviderAssumption
     DEF Init, RetryInit, ControlInv, CallWithHandler, ControlTypes, SlotCoversUse,
         BodyPrepared, BodyFitsCredential, RefreshJustified, CallSteps, Working

\* Preparing a request: from the grant of a slot to the sending.
LEMMA PreparingControl ==
  ASSUME ControlInv, phase = "calling",
         \/ \E c \in Cred : Acquire(c)
         \/ AcquireBusy \/ AcquireFails \/ NoEndpoint \/ Prepare \/ ResolveProfile
         \/ ModelPlain \/ ModelFromCache \/ ModelFetched \/ ModelFetchFails,
         UNCHANGED <<phase, route>>
  PROVE  ControlInv'
  BY ProviderAssumption
     DEF ControlInv, CallWithHandler, ControlTypes, SlotCoversUse, BodyPrepared,
         BodyFitsCredential, RefreshJustified, CallSteps, Working, Acquire, AcquireBusy,
         AcquireFails, NoEndpoint, Prepare, ResolveProfile, ModelPlain, ModelFromCache,
         ModelFetched, ModelFetchFails, GiveUp, NextAttempt, Rest, FailureCounted,
         sharedVars, poolVars

\* Sending it, and what the answer leads to.
LEMMA SendingControl ==
  ASSUME ControlInv, phase = "calling",
         \/ NoClient \/ SendFails
         \/ \E v \in Verdict : Answered(v)
         \/ Succeed \/ Refused \/ Transient \/ WakeUp,
         UNCHANGED <<phase, route>>
  PROVE  ControlInv'
  BY ProviderAssumption
     DEF ControlInv, CallWithHandler, ControlTypes, SlotCoversUse, BodyPrepared,
         BodyFitsCredential, RefreshJustified, CallSteps, Working, NoClient, SendFails,
         Answered, Judged, Succeed, Refused, Transient, WakeUp, BackOffOrEnd, GiveUp,
         NextAttempt, Rest, Verdict, sharedVars, poolVars

LEMMA BlamingControl ==
  ASSUME ControlInv, phase = "calling",
         OutOfQuota \/ TokenInvalid \/ Denied \/ Refreshed \/ NotRefreshed,
         UNCHANGED <<phase, route>>
  PROVE  ControlInv'
  BY ProviderAssumption
     DEF ControlInv, CallWithHandler, ControlTypes, SlotCoversUse, BodyPrepared,
         BodyFitsCredential, RefreshJustified, CallSteps, Working, Judged, OutOfQuota,
         TokenInvalid, Denied, Refreshed, NotRefreshed, FailureCounted, QuotaCounted,
         FailOver, GiveUp, NextAttempt, Rest, sharedVars, poolVars

\* The handler starts the call, takes its outcome, or is dropped.
LEMMA HandlerControl ==
  ASSUME ControlInv,
         \/ \E r \in Routes, m \in {"name", "id", "none"} : Accept(r, m)
         \/ Reject \/ NoQuery \/ Fail \/ McpAnswered \/ AnswerSearch \/ SearchFails
         \/ Disconnect \/ \E damages \in Bodies : Connect(damages)
  PROVE  ControlInv'
<1>1. ASSUME NEW r \in Routes, NEW m \in {"name", "id", "none"}, Accept(r, m)
      PROVE  ControlInv'
  <2>1. /\ phase = "new" /\ route' = r /\ phase' = "calling"
        /\ kind' = (IF r = "search" THEN "mcp" ELSE "api")
        /\ step' \in {"acquire", "failed"}
        /\ UNCHANGED <<slot, body, failures, off>>
    BY <1>1 DEF Accept, Call, sharedVars, poolVars
  <2>2. step = "idle"
    BY <2>1 DEF ControlInv, CallWithHandler
  <2> QED BY <2>1, <2>2
          DEF ControlInv, CallWithHandler, ControlTypes, SlotCoversUse, BodyPrepared,
              BodyFitsCredential, RefreshJustified, CallSteps, Working
<1>2. ASSUME Reject \/ NoQuery
      PROVE  ControlInv'
  <2>1. CASE Reject
    BY <2>1 DEF Reject, retryVars, sharedVars, poolVars, ControlInv, CallWithHandler, ControlTypes,
                SlotCoversUse, BodyPrepared, BodyFitsCredential, RefreshJustified
  <2>2. CASE NoQuery
    <3>1. phase = "new" /\ phase' = "closed" /\ UNCHANGED retryVars
      BY <2>2 DEF NoQuery
    <3> QED BY <3>1 DEF retryVars, sharedVars, poolVars, ControlInv, CallWithHandler, ControlTypes,
                        SlotCoversUse, BodyPrepared, BodyFitsCredential, RefreshJustified
  <2> QED BY <1>2, <2>1, <2>2
<1>3. ASSUME Fail \/ McpAnswered \/ SearchFails \/ \E damages \in Bodies : Connect(damages)
      PROVE  ControlInv'
  <2>1. /\ phase = "calling" /\ step' = "idle" /\ body' = "original" /\ kind' = "api"
        /\ UNCHANGED <<slot, failures, off, route>>
    BY <1>3 DEF Fail, McpAnswered, SearchFails, SearchResults, Connect, CallReturned,
                sharedVars, poolVars
  <2>2. \/ step = "failed" /\ phase' = "closed"
        \/ step = "ok" /\ route = "search" /\ phase' = "searching"
        \/ step = "ok" /\ route # "search" /\ phase' = "reading"
    <3>1. CASE Fail
      BY <3>1 DEF Fail
    <3>2. CASE McpAnswered \/ SearchFails
      BY <3>2 DEF McpAnswered, SearchFails, SearchResults
    <3>3. CASE \E damages \in Bodies : Connect(damages)
      BY <3>3 DEF Connect
    <3> QED BY <1>3, <3>1, <3>2, <3>3
  <2>3. phase' = "reading" <=> slot # NoCred
    BY <2>1, <2>2 DEF ControlInv, ControlTypes, SlotCoversUse
  <2>4. phase' \in {"closed", "searching", "reading"} /\ (phase' = "searching" => route = "search")
    BY <2>2
  <2> QED BY <2>1, <2>3, <2>4
          DEF ControlInv, CallWithHandler, ControlTypes, SlotCoversUse, BodyPrepared,
              BodyFitsCredential, RefreshJustified, CallSteps, Working
<1>4. ASSUME Disconnect
      PROVE  ControlInv'
  BY <1>4 DEF Disconnect, CallReturned, sharedVars, poolVars, ControlInv, CallWithHandler,
              ControlTypes, SlotCoversUse, BodyPrepared, BodyFitsCredential, RefreshJustified
<1>5. ASSUME AnswerSearch
      PROVE  ControlInv'
  <2>1. phase = "searching" /\ phase' = "closed" /\ UNCHANGED retryVars
    BY <1>5 DEF AnswerSearch, SearchResults
  <2> QED BY <2>1 DEF retryVars, ControlInv, CallWithHandler, ControlTypes, SlotCoversUse,
                      BodyPrepared, BodyFitsCredential, RefreshJustified
<1> QED BY <1>1, <1>2, <1>3, <1>4, <1>5

\* The call is over: its guard is all that is left of it.
LEMMA ReadingControl ==
  ASSUME ControlInv,
         \/ \E size \in ChunkSizes : ReadChunk(size)
         \/ UpstreamDone \/ UpstreamError \/ Drain \/ ReadWhole \/ ReadFails \/ Ping
         \/ OtherEntry \/ AdminLog
  PROVE  ControlInv'
<1>1. CASE \/ \E size \in ChunkSizes : ReadChunk(size)
           \/ Ping \/ OtherEntry \/ AdminLog
  <2>1. UNCHANGED <<retryVars, phase, route>>
    BY <1>1 DEF ReadChunk, Ping, OtherEntry, AdminLog, handlerVars
  <2> QED BY <2>1
          DEF retryVars, ControlInv, CallWithHandler, ControlTypes, SlotCoversUse, BodyPrepared,
              BodyFitsCredential, RefreshJustified
<1>2. CASE UpstreamDone \/ UpstreamError
  <2>1. phase = "reading" /\ phase' = "ending" /\ UNCHANGED <<retryVars, route>>
    BY <1>2 DEF UpstreamDone, UpstreamError, Finish, Streaming
  <2> QED BY <2>1
          DEF retryVars, ControlInv, CallWithHandler, ControlTypes, SlotCoversUse, BodyPrepared,
              BodyFitsCredential, RefreshJustified
<1>3. CASE Drain \/ ReadWhole \/ ReadFails
  <2>1. /\ phase \in {"reading", "ending"} /\ phase' = "closed" /\ slot' = NoCred
        /\ UNCHANGED <<step, kind, asked, body, forced, verdict, failures, off, route>>
    BY <1>3 DEF Drain, ReadWhole, ReadFails, sharedVars
  <2> QED BY <2>1
          DEF ControlInv, CallWithHandler, ControlTypes, SlotCoversUse, BodyPrepared,
              BodyFitsCredential, RefreshJustified, CallSteps, Working
<1> QED BY <1>1, <1>2, <1>3

LEMMA OthersControl ==
  ASSUME ControlInv, OtherCalls
  PROVE  ControlInv'
  BY ProviderAssumption
     DEF ControlInv, CallWithHandler, ControlTypes, SlotCoversUse, BodyPrepared,
         BodyFitsCredential, RefreshJustified, CallSteps, Working, OtherCalls, RetryEnv,
         OthersSwitchOff, OthersSwitchOn, ListModels, ModelsExpire, Local, handlerVars, poolVars

LEMMA ControlNext == ControlInv /\ [Next]_vars => ControlInv'
<1> SUFFICES ASSUME ControlInv, [Next]_vars PROVE ControlInv'
  OBVIOUS
<1>1. CASE CallStep
  BY <1>1, PreparingControl, SendingControl, BlamingControl DEF CallStep, RetryStep, handlerVars
<1>2. CASE Respond /\ ~CallStep
  BY <1>2, HandlerControl, ReadingControl DEF Respond
<1>3. CASE Ping \/ Disconnect \/ OtherEntry \/ AdminLog \/ OtherCalls
  BY <1>3, HandlerControl, ReadingControl, OthersControl
<1>4. CASE UNCHANGED vars
  BY <1>4 DEF ControlInv, CallWithHandler, ControlTypes, SlotCoversUse, BodyPrepared,
              BodyFitsCredential, RefreshJustified, vars, retryVars, handlerVars
<1> QED BY <1>1, <1>2, <1>3, <1>4 DEF Next

LEMMA Controlled == Spec => []ControlInv
<1> QED BY ControlInit, ControlNext, PTL DEF Spec

\* A slot is held from its grant to the end of the attempt and, where a message
\* was asked for, to the end of the body of its answer, whichever way the call,
\* the body or the client ends; the body of an MCP answer is read without one.
THEOREM SlotCovers == Spec => []SlotCoversUse
<1> QED BY Controlled, PTL DEF ControlInv

\* What is sent for a credential was made for that credential.
THEOREM BodyFits == Spec => []BodyFitsCredential
<1> QED BY Controlled, PTL DEF ControlInv

-----------------------------------------------------------------------------
(* Blame. *)

FairBlame ==
  \A c \in Cred :
    step' # step /\ (failures'[c] > failures[c] \/ c \in off' \ off) =>
      /\ c = slot
      /\ \/ verdict \in {"quota", "denied"}
         \/ verdict = "bearer" /\ c \in forced
         \/ c \in UnknownEndpoint /\ step = "prepare"

\* What a report changes, it changes for one credential.
LEMMA ReportsOne ==
  ASSUME ControlTypes, NEW c \in Cred, NEW d \in Cred,
         FailureCounted(d) \/ QuotaCounted(d),
         failures'[c] > failures[c] \/ c \in off' \ off
  PROVE  c = d
  BY DEF ControlTypes, FailureCounted, QuotaCounted, poolVars

LEMMA ReportsFair ==
  ASSUME ControlInv, OutOfQuota \/ Denied \/ NotRefreshed \/ NoEndpoint
  PROVE  FairBlame
<1> SUFFICES ASSUME NEW c \in Cred, step' # step,
                    failures'[c] > failures[c] \/ c \in off' \ off
             PROVE  /\ c = slot
                    /\ \/ verdict \in {"quota", "denied"}
                       \/ verdict = "bearer" /\ c \in forced
                       \/ c \in UnknownEndpoint /\ step = "prepare"
  BY DEF FairBlame
<1>1. slot \in Cred
  BY ProviderAssumption
     DEF ControlInv, ControlTypes, SlotCoversUse, OutOfQuota, Denied, NotRefreshed,
         NoEndpoint, Judged
<1>2. c = slot
  BY <1>1, ReportsOne DEF ControlInv, OutOfQuota, Denied, NotRefreshed, NoEndpoint
<1> QED BY <1>2
        DEF ControlInv, RefreshJustified, OutOfQuota, Denied, NotRefreshed, NoEndpoint, Judged

\* A success clears a counter; nothing else of the call touches the pool.
LEMMA SuccessFair == ASSUME ControlInv, Succeed PROVE FairBlame
<1>1. \A c \in Cred : failures'[c] <= failures[c] /\ off' = off
  BY DEF ControlInv, ControlTypes, Succeed
<1> QED BY <1>1 DEF FairBlame, ControlInv, ControlTypes, Succeed

LEMMA NobodyBlamed == ASSUME ControlTypes, UNCHANGED poolVars PROVE FairBlame
  BY DEF ControlTypes, FairBlame, poolVars

LEMMA BlameNext == ControlInv /\ [Next]_vars => FairBlame
<1> SUFFICES ASSUME ControlInv, [Next]_vars PROVE FairBlame
  OBVIOUS
<1>1. CASE CallStep
  <2>1. CASE OutOfQuota \/ Denied \/ NotRefreshed \/ NoEndpoint
    BY <2>1, ReportsFair
  <2>2. CASE Succeed
    BY <2>2, SuccessFair
  <2>3. CASE \/ \E c \in Cred : Acquire(c)
             \/ AcquireBusy \/ AcquireFails \/ Prepare \/ ResolveProfile
             \/ ModelPlain \/ ModelFromCache \/ ModelFetched \/ ModelFetchFails
             \/ NoClient \/ SendFails \/ \E v \in Verdict : Answered(v)
             \/ Refused \/ TokenInvalid \/ Refreshed \/ Transient \/ WakeUp
    <3>1. UNCHANGED poolVars
      BY <2>3 DEF Acquire, AcquireBusy, AcquireFails, Prepare, ResolveProfile, ModelPlain,
                  ModelFromCache, ModelFetched, ModelFetchFails, NoClient, SendFails, Answered,
                  Refused, TokenInvalid, Refreshed, Transient, WakeUp, sharedVars, poolVars
    <3> QED BY <3>1, NobodyBlamed DEF ControlInv
  <2> QED BY <1>1, <2>1, <2>2, <2>3 DEF CallStep, RetryStep
<1>2. CASE OtherCalls
  <2>1. step' = step
    BY <1>2, ProviderAssumption
       DEF OtherCalls, RetryEnv, OthersSwitchOff, OthersSwitchOn, ListModels, ModelsExpire, Local
  <2> QED BY <2>1 DEF FairBlame
<1>3. CASE ~CallStep /\ ~OtherCalls
  <2> SUFFICES UNCHANGED poolVars
    BY NobodyBlamed DEF ControlInv
  <2>1. CASE \E r \in Routes, m \in {"name", "id", "none"} : Accept(r, m)
    BY <2>1 DEF Accept, Call, sharedVars, poolVars
  <2>2. CASE \/ Fail \/ McpAnswered \/ SearchFails \/ Disconnect
             \/ \E damages \in Bodies : Connect(damages)
    <3>1. CallReturned
      BY <2>2 DEF Fail, McpAnswered, SearchFails, Disconnect, Connect
    <3> QED BY <3>1 DEF CallReturned, sharedVars, poolVars
  <2>3. CASE \/ Reject \/ NoQuery \/ AnswerSearch \/ UpstreamDone \/ UpstreamError \/ Ping \/ OtherEntry
             \/ AdminLog \/ \E size \in ChunkSizes : ReadChunk(size)
    <3>1. UNCHANGED retryVars
      BY <2>3 DEF Reject, NoQuery, AnswerSearch, UpstreamDone, UpstreamError, Finish, Ping, OtherEntry, AdminLog,
                  ReadChunk
    <3> QED BY <3>1 DEF retryVars, sharedVars, poolVars
  <2>4. CASE Drain \/ ReadWhole \/ ReadFails
    BY <2>4 DEF Drain, ReadWhole, ReadFails, sharedVars, poolVars
  <2>5. CASE UNCHANGED vars
    BY <2>5 DEF vars, retryVars, sharedVars, poolVars
  <2> QED BY <1>3, <2>1, <2>2, <2>3, <2>4, <2>5 DEF Next, Respond
<1> QED BY <1>1, <1>2, <1>3

\* Whatever happens to a call, a credential is blamed only for a verdict of the
\* upstream on it, or for an endpoint nobody has.
THEOREM NoFalseBlameHolds == Spec => NoFalseBlame
<1>1. ControlInv /\ [Next]_vars => [FairBlame]_vars
  BY BlameNext
<1>2. Spec => [][FairBlame]_vars
  BY <1>1, Controlled, PTL DEF Spec
<1> QED BY <1>2, PTL DEF NoFalseBlame, FairBlame

-----------------------------------------------------------------------------
(* The entries of the log, and what its operations make of them. *)

LogEntries == [id : Nat, success : BOOLEAN, cred : Cred \cup {NoCred}, first : BOOLEAN,
               total : BOOLEAN, input : BOOLEAN, reported : BOOLEAN]
Logs == [entries : Seq(LogEntries), capacity : Nat \ {0}, next : Nat \ {0}]

\* Ids count up to the one given out last.
Consecutive(l) ==
  \A i \in DOMAIN l.entries : l.entries[i].id = l.next - Len(l.entries) + i - 1

LEMMA EntryIs ==
  ASSUME NEW b \in BOOLEAN, NEW c \in Cred \cup {NoCred}, NEW n \in Nat
  PROVE  LET e == [Entry(b, c) EXCEPT !.id = n]
         IN  e \in LogEntries /\ e.id = n
  BY DEF LogEntries, Entry

LEMMA FirstFilled ==
  ASSUME NEW e \in LogEntries
  PROVE  LET d == Filled(e, {"first"})
         IN  d \in LogEntries /\ d.id = e.id /\ d = [e EXCEPT !.first = TRUE]
             /\ d.success = e.success /\ d.first = TRUE /\ d.total = e.total
             /\ d.input = e.input /\ d.reported = e.reported
  BY DEF LogEntries, Filled

LEMMA EndFilled ==
  ASSUME NEW e \in LogEntries, NEW x \in BOOLEAN
  PROVE  LET d == Filled(e, EndOf(x))
         IN  /\ d \in LogEntries /\ d.id = e.id
             /\ d.success = e.success /\ d.first = e.first /\ d.total = TRUE
             /\ (d.input <=> (e.input \/ x)) /\ d.reported = TRUE
  BY DEF LogEntries, Filled, EndOf

LEMMA TrimmedIs ==
  ASSUME NEW S, NEW s \in Seq(S), NEW n \in Nat \ {0}
  PROVE  LET t == Trimmed(s, n)
         IN  /\ t \in Seq(S)
             /\ Len(t) <= Len(s)
             /\ \A i \in 1 .. Len(t) : t[i] = s[Len(s) - Len(t) + i]
<1>1. CASE Len(s) <= n
  BY <1>1 DEF Trimmed
<1>2. CASE ~(Len(s) <= n)
  <2>1. Trimmed(s, n) = SubSeq(s, Len(s) - n + 1, Len(s)) /\ Len(Trimmed(s, n)) = n
    BY <1>2 DEF Trimmed
  <2> QED BY <1>2, <2>1
<1> QED BY <1>1, <1>2

LEMMA LogIs ==
  ASSUME NEW l \in Logs
  PROVE  /\ l.entries \in Seq(LogEntries) /\ l.capacity \in Nat \ {0} /\ l.next \in Nat \ {0}
         /\ Len(l.entries) \in Nat /\ DOMAIN l.entries = 1 .. Len(l.entries)
         /\ \A i \in DOMAIN l.entries : l.entries[i] \in LogEntries
  BY DEF Logs

\* The last entries of a log are consecutive, too.
LEMMA LastOnes ==
  ASSUME NEW s \in Seq(LogEntries), NEW n \in Nat \ {0}, NEW next \in Nat \ {0},
         \A k \in DOMAIN s : s[k].id = next - Len(s) + k - 1
  PROVE  LET t == Trimmed(s, n)
         IN  /\ t \in Seq(LogEntries)
             /\ \A i \in DOMAIN t : /\ t[i].id = next - Len(t) + i - 1
                                    /\ \E k \in DOMAIN s : t[i] = s[k]
<1> DEFINE t == Trimmed(s, n)
<1>1. /\ t \in Seq(LogEntries) /\ Len(t) <= Len(s)
      /\ \A i \in 1 .. Len(t) : t[i] = s[Len(s) - Len(t) + i]
  BY TrimmedIs
<1> HIDE DEF t
<1>2. /\ DOMAIN t = 1 .. Len(t) /\ DOMAIN s = 1 .. Len(s)
      /\ Len(t) \in Nat /\ Len(s) \in Nat
  BY <1>1
<1>3. ASSUME NEW i \in DOMAIN t
      PROVE  /\ t[i].id = next - Len(t) + i - 1
             /\ \E k \in DOMAIN s : t[i] = s[k]
  <2>1. Len(s) - Len(t) + i \in DOMAIN s /\ t[i] = s[Len(s) - Len(t) + i]
    BY <1>1, <1>2
  <2>2. t[i].id = next - Len(s) + (Len(s) - Len(t) + i) - 1
    BY <2>1
  <2> QED BY <1>2, <2>1, <2>2
<1> QED BY <1>1, <1>3 DEF t

LEMMA RecordedIs ==
  ASSUME NEW l \in Logs, Consecutive(l), NEW b \in BOOLEAN, NEW c \in Cred \cup {NoCred}
  PROVE  LET r == Recorded(l, Entry(b, c))
         IN  /\ r \in Logs /\ r.next = l.next + 1 /\ Consecutive(r)
             /\ \A i \in DOMAIN r.entries :
                  \/ r.entries[i] = [Entry(b, c) EXCEPT !.id = l.next]
                  \/ \E j \in DOMAIN l.entries : r.entries[i] = l.entries[j]
<1> DEFINE e == [Entry(b, c) EXCEPT !.id = l.next]
           s == Append(l.entries, e)
           t == Trimmed(s, l.capacity)
           r == Recorded(l, Entry(b, c))
<1>1. e \in LogEntries /\ e.id = l.next
  BY EntryIs, LogIs
<1> HIDE DEF e
<1>2. /\ s \in Seq(LogEntries) /\ Len(s) = Len(l.entries) + 1 /\ DOMAIN s = 1 .. Len(s)
      /\ \A k \in DOMAIN s : \/ k \in DOMAIN l.entries /\ s[k] = l.entries[k]
                             \/ k = Len(s) /\ s[k] = e
  BY <1>1, LogIs
<1>3. r = [l EXCEPT !.next = @ + 1, !.entries = t]
  BY DEF Recorded, e
<1> HIDE DEF s
<1> DEFINE n == l.next + 1
<1>0. n \in Nat \ {0} /\ n = l.next + 1
  BY LogIs
<1> HIDE DEF n
<1>4. ASSUME NEW k \in DOMAIN s
      PROVE  s[k].id = n - Len(s) + k - 1
  <2>1. /\ Len(l.entries) \in Nat /\ l.next \in Nat /\ k \in Nat
        /\ Len(s) = Len(l.entries) + 1
    BY <1>2, LogIs
  <2>2. CASE k \in DOMAIN l.entries /\ s[k] = l.entries[k]
    <3>1. s[k].id = l.next - Len(l.entries) + k - 1
      BY <2>2 DEF Consecutive
    <3>2. n - Len(s) = l.next - Len(l.entries)
      BY <1>0, <2>1
    <3> QED BY <3>1, <3>2
  <2>3. CASE k = Len(s) /\ s[k] = e
    <3>1. s[k].id = l.next
      BY <1>1, <2>3
    <3>2. n - Len(s) + k - 1 = l.next
      <4>1. k = Len(s) /\ Len(s) \in Nat /\ n = l.next + 1 /\ l.next \in Nat
        BY <1>0, <2>1, <2>3
      <4> QED BY <4>1
    <3> QED BY <3>1, <3>2
  <2> QED BY <1>2, <2>2, <2>3
<1>5. /\ t \in Seq(LogEntries)
      /\ \A i \in DOMAIN t : /\ t[i].id = n - Len(t) + i - 1
                             /\ \E k \in DOMAIN s : t[i] = s[k]
  <2>1. l.capacity \in Nat \ {0}
    BY LogIs
  <2>2. s \in Seq(LogEntries)
    BY <1>2
  <2> QED BY <1>0, <1>4, <2>1, <2>2, LastOnes
<1> HIDE DEF t, r
<1>6. r \in Logs /\ r.next = n /\ r.entries = t
  BY <1>3, <1>0, <1>5 DEF Logs
<1>7. Consecutive(r)
  BY <1>5, <1>6 DEF Consecutive
<1>8. \A i \in DOMAIN t : t[i] = e \/ \E j \in DOMAIN l.entries : t[i] = l.entries[j]
  BY <1>2, <1>5
<1> QED BY <1>0, <1>6, <1>7, <1>8 DEF r, e

\* A log that is filled in keeps its ids.
LEMMA UpdatedIs ==
  ASSUME NEW l \in Logs, Consecutive(l), NEW id, NEW fields,
         \A e \in LogEntries : Filled(e, fields) \in LogEntries /\ Filled(e, fields).id = e.id
  PROVE  LET u == Updated(l, id, fields)
         IN  /\ u \in Logs /\ u.next = l.next /\ Consecutive(u)
             /\ DOMAIN u.entries = DOMAIN l.entries
             /\ \A i \in DOMAIN l.entries :
                  u.entries[i] = IF l.entries[i].id = id THEN Filled(l.entries[i], fields)
                                                        ELSE l.entries[i]
<1> DEFINE f == [i \in DOMAIN l.entries |-> IF l.entries[i].id = id
                                            THEN Filled(l.entries[i], fields)
                                            ELSE l.entries[i]]
           u == Updated(l, id, fields)
<1>1. DOMAIN l.entries = 1 .. Len(l.entries) /\ Len(l.entries) \in Nat
      /\ \A i \in DOMAIN l.entries : l.entries[i] \in LogEntries
  BY DEF Logs
<1>2. f \in Seq(LogEntries) /\ Len(f) = Len(l.entries)
  BY <1>1
<1>3. u.entries = f /\ u.next = l.next /\ u \in Logs
  BY <1>2 DEF Updated, Logs
<1> QED BY <1>1, <1>2, <1>3 DEF Consecutive

LEMMA ManagedIs ==
  ASSUME NEW l \in Logs, Consecutive(l), NEW r,
         r \in {Cleared(l)} \cup {Resized(l, n) : n \in {0, MAX_CAPACITY + 1}}
  PROVE  /\ r \in Logs /\ r.next = l.next /\ Consecutive(r)
         /\ \A i \in DOMAIN r.entries : \E j \in DOMAIN l.entries : r.entries[i] = l.entries[j]
<1>1. CASE r = Cleared(l)
  <2>1. r = [l EXCEPT !.entries = <<>>]
    BY <1>1 DEF Cleared
  <2>2. <<>> \in Seq(LogEntries)
    OBVIOUS
  <2>3. r \in Logs /\ r.next = l.next /\ r.entries = <<>>
    BY <2>1, <2>2 DEF Logs
  <2> QED BY <2>3 DEF Consecutive
<1>2. ASSUME NEW n \in {0, MAX_CAPACITY + 1}, r = Resized(l, n)
      PROVE  /\ r \in Logs /\ r.next = l.next /\ Consecutive(r)
             /\ \A i \in DOMAIN r.entries : \E j \in DOMAIN l.entries : r.entries[i] = l.entries[j]
  <2> DEFINE t == Trimmed(l.entries, Clamp(n))
  <2>1. Clamp(n) \in Nat \ {0}
    BY LogAssumption DEF Clamp
  <2>2. /\ t \in Seq(LogEntries)
        /\ \A i \in DOMAIN t : /\ t[i].id = l.next - Len(t) + i - 1
                               /\ \E k \in DOMAIN l.entries : t[i] = l.entries[k]
    <3>1. l.entries \in Seq(LogEntries) /\ l.next \in Nat \ {0}
      BY LogIs
    <3>2. \A k \in DOMAIN l.entries : l.entries[k].id = l.next - Len(l.entries) + k - 1
      BY DEF Consecutive
    <3> QED BY <2>1, <3>1, <3>2, LastOnes
  <2> HIDE DEF t
  <2>3. r = [l EXCEPT !.capacity = Clamp(n), !.entries = t]
    BY <1>2 DEF Resized, t
  <2>4. r \in Logs /\ r.entries = t /\ r.next = l.next
    BY <2>1, <2>2, <2>3 DEF Logs
  <2> QED BY <2>2, <2>4 DEF Consecutive
<1> QED BY <1>1, <1>2

-----------------------------------------------------------------------------
(* The entry of the request. *)

\* What an entry says, as long as the log has it, by the request's state.
ToldBy(e, id, end, way, noted, at) ==
  IF e.id = id
  THEN /\ e.total <=> (end = "done" \/ (end = "error" /\ way # "whole"))
       /\ e.reported <=> e.total
       /\ e.input => e.first
       /\ e.first <=> (noted \/ (way = "whole" /\ e.success))
       /\ at = "reading" => e.success
  ELSE ~(e.first \/ e.total \/ e.input \/ e.reported)

Told(e) == ToldBy(e, mine, ended, route, first, phase)

ToldNext(e) == ToldBy(e, mine', ended', route', first', phase')

\* Until the first event is noted, no event was sent or kept.
NothingRead == out \in Seq({START, PING}) /\ kept = <<>>

Stages ==
  /\ first \in BOOLEAN /\ ended \in {"no", "done", "error"}
  /\ phase \in {"new", "calling", "searching"} =>
       /\ mine = 0 /\ log.entries = <<>> /\ ended = "no" /\ ~first /\ kept = <<>>
  /\ phase = "reading" => ended = "no" /\ frames \in Seq(STRING)
  /\ phase = "reading" /\ ~first => NothingRead

LogInv ==
  /\ log \in Logs /\ Consecutive(log)
  /\ mine \in Nat /\ mine < log.next
  /\ \A i \in DOMAIN log.entries : Told(log.entries[i])
  /\ Stages

LEMMA LogInit == Init => LogInv
<1> SUFFICES ASSUME Init PROVE LogInv
  OBVIOUS
<1>1. <<>> \in Seq(LogEntries) /\ Clamp(MAX_CAPACITY) \in Nat \ {0}
  BY LogAssumption DEF Clamp
<1>2. log \in Logs /\ log.entries = <<>> /\ log.next = 1
  BY <1>1 DEF Init, NewLog, Logs
<1>3. DOMAIN log.entries = {}
  BY <1>2
<1>4. Stages /\ mine = 0
  BY <1>2 DEF Init, Stages
<1> QED BY <1>2, <1>3, <1>4 DEF LogInv, Consecutive

\* The log stays as it is, and so does what is said of it.
LEMMA LogKept ==
  ASSUME LogInv, UNCHANGED <<log, mine, ended, first>>, Stages',
         \/ UNCHANGED route
         \/ log.entries = <<>>,
         phase' = "reading" => phase = "reading"
  PROVE  LogInv'
<1>1. \A i \in DOMAIN log.entries : ToldNext(log.entries[i])
  BY DEF LogInv, Told, ToldNext, ToldBy, Stages
<1> QED BY <1>1 DEF LogInv, Consecutive, Told, ToldNext

\* The handler creates its entry.
LEMMA EntryMade ==
  ASSUME LogInv, phase \in {"new", "calling", "searching"}, phase' = "closed",
         NEW b \in BOOLEAN, NEW c \in Cred \cup {NoCred},
         LogEntry(b, c), UNCHANGED <<ended, first>>, ~(b /\ route' = "whole")
  PROVE  LogInv'
<1>1. log \in Logs /\ Consecutive(log) /\ log.entries = <<>>
  BY DEF LogInv, Stages
<1>2. /\ log' \in Logs /\ log'.next = log.next + 1 /\ Consecutive(log')
      /\ \A i \in DOMAIN log'.entries : log'.entries[i] = [Entry(b, c) EXCEPT !.id = log.next]
  BY <1>1, RecordedIs DEF LogEntry
<1>3. mine' \in Nat /\ mine' < log'.next
  BY <1>1, <1>2, LogIs DEF LogEntry
<1> DEFINE e == [Entry(b, c) EXCEPT !.id = log.next]
<1>6. /\ e.id = log.next /\ e.success = b
      /\ ~e.first /\ ~e.total /\ ~e.input /\ ~e.reported
  BY DEF Entry
<1> HIDE DEF e
<1>7. mine' = log.next /\ ~first' /\ ended' = "no"
  BY DEF LogInv, Stages, LogEntry
<1>4. \A i \in DOMAIN log'.entries : ToldNext(log'.entries[i])
  <2> SUFFICES ASSUME NEW i \in DOMAIN log'.entries PROVE ToldNext(log'.entries[i])
    OBVIOUS
  <2>1. log'.entries[i] = e
    BY <1>2 DEF e
  <2> QED BY <1>6, <1>7, <2>1 DEF ToldNext, ToldBy
<1>5. Stages'
  BY DEF LogInv, Stages
<1> QED BY <1>2, <1>3, <1>4, <1>5 DEF LogInv, Consecutive, Told, ToldNext

LEMMA ConnectLog ==
  ASSUME LogInv, ControlTypes, NEW damages \in Bodies, Connect(damages)
  PROVE  LogInv'
<1> DEFINE r == Recorded(log, Entry(TRUE, slot))
           e == [Entry(TRUE, slot) EXCEPT !.id = log.next]
<1>1. /\ log \in Logs /\ Consecutive(log) /\ log.entries = <<>> /\ DOMAIN log.entries = {}
      /\ slot \in Cred \cup {NoCred}
  BY DEF LogInv, Stages, Connect, ControlTypes
<1>2. /\ r \in Logs /\ r.next = log.next + 1 /\ Consecutive(r)
      /\ \A i \in DOMAIN r.entries : r.entries[i] = e
  BY <1>1, RecordedIs
<1>3. /\ e \in LogEntries /\ e.id = log.next /\ e.success
      /\ ~e.first /\ ~e.total /\ ~e.input /\ ~e.reported
  BY <1>1, EntryIs, LogIs DEF Entry
<1>4. /\ phase = "calling" /\ phase' = "reading" /\ mine' = log.next
      /\ UNCHANGED <<route, first, ended, kept>>
      /\ frames' = damages /\ out' \in {<<>>, <<START>>}
      /\ log' = IF route = "whole" THEN Updated(r, log.next, {"first"}) ELSE r
      /\ ended' = "no" /\ ~first' /\ kept' = <<>>
  BY DEF Connect, LogInv, Stages
<1> HIDE DEF r, e
<1>5. Stages'
  <2>1. <<>> \in Seq({START, PING}) /\ <<START>> \in Seq({START, PING})
    OBVIOUS
  <2>2. frames' \in Seq(STRING)
    BY <1>4, RequestAssumption
  <2>3. NothingRead'
    BY <1>4, <2>1 DEF NothingRead
  <2>4. first' \in BOOLEAN /\ phase' = "reading" /\ ended' = "no"
    BY <1>4 DEF LogInv, Stages
  <2> QED BY <2>2, <2>3, <2>4 DEF Stages
<1>6. CASE route = "whole"
  <2>1. log' = Updated(r, log.next, {"first"})
    BY <1>4, <1>6
  <2>2. \A d \in LogEntries : Filled(d, {"first"}) \in LogEntries /\ Filled(d, {"first"}).id = d.id
    BY FirstFilled
  <2>3. /\ log' \in Logs /\ log'.next = r.next /\ Consecutive(log')
        /\ \A i \in DOMAIN log'.entries : log'.entries[i] = Filled(e, {"first"})
    BY <1>2, <1>3, <2>1, <2>2, UpdatedIs
  <2>4. Filled(e, {"first"}) = [e EXCEPT !.first = TRUE]
    BY <1>3, FirstFilled
  <2>5. \A i \in DOMAIN log'.entries : ToldNext(log'.entries[i])
    <3> SUFFICES ASSUME NEW i \in DOMAIN log'.entries PROVE ToldNext(log'.entries[i])
      OBVIOUS
    <3>1. log'.entries[i] = [e EXCEPT !.first = TRUE]
      BY <2>3, <2>4
    <3> QED BY <1>3, <1>4, <1>6, <3>1 DEF ToldNext, ToldBy, LogEntries
  <2>6. mine' \in Nat /\ mine' < log'.next
    BY <1>1, <1>2, <1>4, <2>3, LogIs
  <2> QED BY <1>5, <2>3, <2>5, <2>6 DEF LogInv, Consecutive, Told, ToldNext
<1>7. CASE route # "whole"
  <2>1. log' = r
    BY <1>4, <1>7
  <2>2. \A i \in DOMAIN log'.entries : ToldNext(log'.entries[i])
    BY <1>2, <1>3, <1>4, <1>7, <2>1 DEF ToldNext, ToldBy
  <2>3. mine' \in Nat /\ mine' < log'.next
    BY <1>1, <1>2, <1>4, <2>1, LogIs
  <2> QED BY <1>2, <1>5, <2>1, <2>2, <2>3 DEF LogInv, Consecutive, Told, ToldNext
<1> QED BY <1>6, <1>7

\* The handler fills its entry in: what holds of each entry then decides.
LEMMA EntryFilled ==
  ASSUME LogInv, NEW fields,
         \A e \in LogEntries : Filled(e, fields) \in LogEntries /\ Filled(e, fields).id = e.id,
         log' = Updated(log, mine, fields), mine' = mine, Stages',
         \A e \in LogEntries : Told(e) /\ e.id = mine => ToldNext(Filled(e, fields)),
         \A e \in LogEntries : Told(e) /\ e.id # mine => ToldNext(e)
  PROVE  LogInv'
<1>1. /\ log' \in Logs /\ log'.next = log.next /\ Consecutive(log')
      /\ DOMAIN log'.entries = DOMAIN log.entries
      /\ \A i \in DOMAIN log.entries :
           log'.entries[i] = IF log.entries[i].id = mine THEN Filled(log.entries[i], fields)
                                                        ELSE log.entries[i]
  BY UpdatedIs DEF LogInv
<1>2. \A i \in DOMAIN log'.entries : ToldNext(log'.entries[i])
  <2> SUFFICES ASSUME NEW i \in DOMAIN log'.entries PROVE ToldNext(log'.entries[i])
    OBVIOUS
  <2>1. log.entries[i] \in LogEntries /\ Told(log.entries[i])
    BY <1>1, LogIs DEF LogInv
  <2>2. CASE log.entries[i].id = mine
    <3>1. log'.entries[i] = Filled(log.entries[i], fields)
      BY <1>1, <2>2
    <3>2. ToldNext(Filled(log.entries[i], fields))
      BY <2>1, <2>2
    <3> QED BY <3>1, <3>2
  <2> QED BY <1>1, <2>1, <2>2
<1> QED BY <1>1, <1>2 DEF LogInv, Consecutive, Told, ToldNext

\* Chunks: the first event is noted, and nothing else is written.
LEMMA ReadChunkLog ==
  ASSUME LogInv, NEW size, ReadChunk(size)
  PROVE  LogInv'
<1> DEFINE events == Absorb(decoder, SubSeq(wire, 1, Min({size, Len(wire)}))).out
<1>1. /\ phase = "reading" /\ route # "whole" /\ ended = "no"
      /\ UNCHANGED <<phase, route, ended, mine, frames>>
      /\ first' = (first \/ events # <<>>)
      /\ log' = IF ~first /\ first' THEN Updated(log, mine, {"first"}) ELSE log
      /\ \/ out' = out \o events /\ kept' = kept
         \/ kept' = kept \o events /\ out' = out
  BY DEF ReadChunk, Streaming
<1> HIDE DEF events
<1>2. /\ frames' \in Seq(STRING) /\ first \in BOOLEAN /\ first' \in BOOLEAN
      /\ phase' = "reading" /\ ended' = "no"
  BY <1>1 DEF LogInv, Stages
<1>3. ASSUME ~first'
      PROVE  NothingRead'
  <2>1. events = <<>> /\ NothingRead
    BY <1>1, <1>3 DEF LogInv, Stages
  <2>2. out \o <<>> = out /\ kept \o <<>> = kept
    BY <2>1 DEF NothingRead
  <2> QED BY <1>1, <2>1, <2>2 DEF NothingRead
<1>4. Stages'
  BY <1>2, <1>3 DEF Stages
<1>5. CASE ~first /\ first'
  <2>1. \A e \in LogEntries : /\ Filled(e, {"first"}) \in LogEntries
                              /\ Filled(e, {"first"}).id = e.id
    BY FirstFilled
  <2>2. \A e \in LogEntries : Told(e) /\ e.id = mine => ToldNext(Filled(e, {"first"}))
    <3> SUFFICES ASSUME NEW e \in LogEntries, Told(e), e.id = mine
                 PROVE  ToldNext(Filled(e, {"first"}))
      OBVIOUS
    <3> DEFINE d == Filled(e, {"first"})
    <3>1. /\ d.id = e.id /\ d.success = e.success /\ d.first = TRUE
          /\ d.total = e.total /\ d.input = e.input /\ d.reported = e.reported
      BY FirstFilled
    <3> HIDE DEF d
    <3>2. ToldNext(d)
      BY <1>1, <1>5, <3>1 DEF Told, ToldNext, ToldBy
    <3> QED BY <3>2 DEF d
  <2>3. \A e \in LogEntries : Told(e) /\ e.id # mine => ToldNext(e)
    BY <1>1 DEF Told, ToldNext, ToldBy
  <2> QED BY <1>1, <1>4, <1>5, <2>1, <2>2, <2>3, EntryFilled
<1>6. CASE ~(~first /\ first')
  BY <1>1, <1>2, <1>4, <1>6, LogKept
<1> QED BY <1>5, <1>6

\* The end of a stream: usage is only ever seen after a first event.
LEMMA FinishLog ==
  ASSUME LogInv, NEW how \in {"done", "error"}, Finish(how)
  PROVE  LogInv'
<1>1. /\ phase = "reading" /\ route # "whole" /\ ended = "no" /\ ended' = how
      /\ phase' = "ending" /\ UNCHANGED <<route, mine, first>>
      /\ log' = Updated(log, mine, EndOf(UsageSeen))
  BY DEF Finish, Streaming
<1>2. UsageSeen \in BOOLEAN
  BY DEF UsageSeen
<1>3. UsageSeen => first
  <2> SUFFICES ASSUME ~first, UsageSeen PROVE FALSE
    OBVIOUS
  <2>1. NothingRead /\ Len(frames) \in Nat
    BY <1>1 DEF LogInv, Stages
  <2>2. out \o kept = out /\ \A i \in DOMAIN out : out[i] \in {START, PING}
    BY <2>1 DEF NothingRead
  <2> QED BY <2>1, <2>2 DEF UsageSeen, START, PING
<1>4. Stages'
  BY <1>1 DEF LogInv, Stages
<1> DEFINE x == UsageSeen
<1> HIDE DEF x
<1>5. x \in BOOLEAN /\ (x => first) /\ log' = Updated(log, mine, EndOf(x))
  BY <1>1, <1>2, <1>3 DEF x
<1>6. \A e \in LogEntries :
        /\ Filled(e, EndOf(x)) \in LogEntries /\ Filled(e, EndOf(x)).id = e.id
  BY <1>5, EndFilled
<1>7. \A e \in LogEntries : Told(e) /\ e.id = mine => ToldNext(Filled(e, EndOf(x)))
  <2> SUFFICES ASSUME NEW e \in LogEntries, Told(e), e.id = mine
               PROVE  ToldNext(Filled(e, EndOf(x)))
    OBVIOUS
  <2> DEFINE d == Filled(e, EndOf(x))
  <2>1. /\ d.id = e.id /\ d.success = e.success /\ d.first = e.first
        /\ d.total = TRUE /\ (d.input <=> (e.input \/ x)) /\ d.reported = TRUE
    BY <1>5, EndFilled
  <2> HIDE DEF d
  <2>2. ToldNext(d)
    BY <1>1, <1>5, <2>1 DEF Told, ToldNext, ToldBy
  <2> QED BY <2>2 DEF d
<1>8. \A e \in LogEntries : Told(e) /\ e.id # mine => ToldNext(e)
  BY <1>1 DEF Told, ToldNext, ToldBy
<1> QED BY <1>1, <1>4, <1>5, <1>6, <1>7, <1>8, EntryFilled

LEMMA ReadWholeLog == ASSUME LogInv, ReadWhole PROVE LogInv'
<1> DEFINE x == \E i \in DOMAIN Absorb(decoder, wire).out :
                  Absorb(decoder, wire).out[i] = Len(frames)
<1>1. /\ phase = "reading" /\ route = "whole" /\ ended' = "done"
      /\ phase' = "closed" /\ UNCHANGED <<route, mine, first>>
      /\ log' = Updated(log, mine, EndOf(x)) /\ x \in BOOLEAN
  BY DEF ReadWhole
<1> HIDE DEF x
<1>2. Stages'
  BY <1>1 DEF LogInv, Stages
<1>3. \A e \in LogEntries :
        /\ Filled(e, EndOf(x)) \in LogEntries /\ Filled(e, EndOf(x)).id = e.id
  BY <1>1, EndFilled
<1>4. \A e \in LogEntries : Told(e) /\ e.id = mine => ToldNext(Filled(e, EndOf(x)))
  <2> SUFFICES ASSUME NEW e \in LogEntries, Told(e), e.id = mine
               PROVE  ToldNext(Filled(e, EndOf(x)))
    OBVIOUS
  <2> DEFINE d == Filled(e, EndOf(x))
  <2>1. /\ d.id = e.id /\ d.success = e.success /\ d.first = e.first
        /\ d.total = TRUE /\ (d.input <=> (e.input \/ x)) /\ d.reported = TRUE
    BY <1>1, EndFilled
  <2> HIDE DEF d
  <2>2. ToldNext(d)
    BY <1>1, <2>1 DEF Told, ToldNext, ToldBy
  <2> QED BY <2>2 DEF d
<1>5. \A e \in LogEntries : Told(e) /\ e.id # mine => ToldNext(e)
  BY <1>1 DEF Told, ToldNext, ToldBy
<1> QED BY <1>1, <1>2, <1>3, <1>4, <1>5, EntryFilled

LEMMA ReadFailsLog == ASSUME LogInv, ReadFails PROVE LogInv'
<1>1. /\ phase = "reading" /\ route = "whole" /\ ended = "no" /\ ended' = "error"
      /\ phase' = "closed" /\ UNCHANGED <<route, mine, first, log>>
  BY DEF ReadFails, LogInv, Stages
<1>2. Stages'
  BY <1>1 DEF LogInv, Stages
<1>3. \A i \in DOMAIN log.entries : ToldNext(log.entries[i])
  BY <1>1 DEF LogInv, Told, ToldNext, ToldBy
<1> QED BY <1>1, <1>2, <1>3 DEF LogInv, Consecutive, Told, ToldNext

\* Another request's entry gets an id of its own.
LEMMA OtherEntryLog == ASSUME LogInv, ControlTypes, OtherEntry PROVE LogInv'
<1>1. /\ log' = Recorded(log, Entry(TRUE, NoCred))
      /\ UNCHANGED <<phase, route, mine, first, ended, frames, out, kept>>
  BY DEF OtherEntry, bodyVars, handlerVars
<1>2. log \in Logs /\ Consecutive(log) /\ mine \in Nat /\ mine < log.next /\ log.next \in Nat
  BY LogIs DEF LogInv
<1> DEFINE e == [Entry(TRUE, NoCred) EXCEPT !.id = log.next]
           r == Recorded(log, Entry(TRUE, NoCred))
<1>3. NoCred \in Cred \cup {NoCred} /\ TRUE \in BOOLEAN
  OBVIOUS
<1>4. /\ r \in Logs /\ r.next = log.next + 1 /\ Consecutive(r)
      /\ \A i \in DOMAIN r.entries :
           r.entries[i] = e \/ \E j \in DOMAIN log.entries : r.entries[i] = log.entries[j]
  BY <1>2, <1>3, RecordedIs
<1> HIDE DEF r
<1>5. /\ log' \in Logs /\ log'.next = log.next + 1 /\ Consecutive(log')
      /\ \A i \in DOMAIN log'.entries :
           log'.entries[i] = e \/ \E j \in DOMAIN log.entries : log'.entries[i] = log.entries[j]
  BY <1>1, <1>4 DEF r
<1>6. e.id # mine /\ ~(e.first \/ e.total \/ e.input \/ e.reported)
  BY <1>2 DEF Entry
<1> HIDE DEF e
<1>7. ToldNext(e)
  BY <1>1, <1>6 DEF ToldNext, ToldBy
<1>8. \A j \in DOMAIN log.entries : ToldNext(log.entries[j])
  BY <1>1 DEF LogInv, Told, ToldNext
<1>9. Stages'
  BY <1>1, <1>2 DEF LogInv, Stages, NothingRead, OtherEntry
<1>10. mine' \in Nat /\ mine' < log'.next
  <2>1. mine' = mine /\ log'.next = log.next + 1
    BY <1>1, <1>5
  <2>2. mine \in Nat /\ log.next \in Nat /\ mine < log.next
    BY <1>2
  <2> QED BY <2>1, <2>2
<1>11. \A i \in DOMAIN log'.entries : ToldNext(log'.entries[i])
  BY <1>5, <1>7, <1>8
<1> QED BY <1>5, <1>9, <1>10, <1>11 DEF LogInv, Consecutive, Told, ToldNext

LEMMA AdminLogLog == ASSUME LogInv, AdminLog PROVE LogInv'
<1>1. /\ log' \in {Cleared(log)} \cup {Resized(log, n) : n \in {0, MAX_CAPACITY + 1}}
      /\ UNCHANGED <<phase, route, mine, first, ended, frames, out, kept>>
      /\ phase = "reading"
  BY DEF AdminLog, bodyVars, handlerVars
<1>2. /\ log' \in Logs /\ log'.next = log.next /\ Consecutive(log')
      /\ \A i \in DOMAIN log'.entries :
           \E j \in DOMAIN log.entries : log'.entries[i] = log.entries[j]
  BY <1>1, ManagedIs DEF LogInv
<1>3. \A j \in DOMAIN log.entries : ToldNext(log.entries[j])
  BY <1>1 DEF LogInv, Told, ToldNext
<1>4. Stages'
  BY <1>1 DEF LogInv, Stages, NothingRead
<1>5. \A i \in DOMAIN log'.entries : ToldNext(log'.entries[i])
  BY <1>2, <1>3
<1> QED BY <1>1, <1>2, <1>4, <1>5 DEF LogInv, Consecutive, Told, ToldNext

\* Steps that do not touch the log.
LEMMA LogAlone ==
  ASSUME LogInv,
         \/ \E r \in Routes, m \in {"name", "id", "none"} : Accept(r, m)
         \/ Reject \/ CallStep \/ OtherCalls \/ McpAnswered \/ Ping \/ Drain \/ Disconnect
         \/ UNCHANGED vars
  PROVE  LogInv'
<1>1. CASE \E r \in Routes, m \in {"name", "id", "none"} : Accept(r, m)
  <2>1. /\ phase = "new" /\ phase' = "calling"
        /\ UNCHANGED <<log, mine, ended, first, kept>>
    BY <1>1 DEF Accept, bodyVars
  <2>2. Stages' /\ log.entries = <<>>
    BY <2>1 DEF LogInv, Stages
  <2> QED BY <2>1, <2>2, LogKept
<1>2. CASE Ping
  <2>1. /\ UNCHANGED <<phase, route, log, mine, ended, first, kept, frames>>
        /\ phase = "reading" /\ out' = Append(out, PING)
    BY <1>2 DEF Ping, Streaming, bodyVars
  <2>2. ASSUME ~first
        PROVE  NothingRead'
    <3>1. out \in Seq({START, PING}) /\ kept = <<>>
      BY <2>1, <2>2 DEF LogInv, Stages, NothingRead
    <3>2. Append(out, PING) \in Seq({START, PING})
      BY <3>1
    <3> QED BY <2>1, <3>1, <3>2 DEF NothingRead
  <2>3. Stages'
    BY <2>1, <2>2 DEF LogInv, Stages
  <2> QED BY <2>1, <2>3, LogKept
<1>3. CASE \/ Reject \/ CallStep \/ OtherCalls \/ McpAnswered \/ Drain \/ Disconnect
           \/ UNCHANGED vars
  <2>1. UNCHANGED <<log, mine, ended, first, kept, frames, route, out>>
    BY <1>3 DEF Reject, CallStep, OtherCalls, McpAnswered, Drain, Disconnect, vars, bodyVars, handlerVars
  <2>2. phase' \in {phase, "closed"} \/ (phase = "calling" /\ phase' = "searching")
    BY <1>3 DEF Reject, CallStep, OtherCalls, McpAnswered, Drain, Disconnect, vars, bodyVars, handlerVars
  <2>3. Stages'
    BY <2>1, <2>2 DEF LogInv, Stages, NothingRead
  <2> QED BY <2>1, <2>2, <2>3, LogKept
<1> QED BY <1>1, <1>2, <1>3

LEMMA LogNext == LogInv /\ ControlInv /\ [Next]_vars => LogInv'
<1> SUFFICES ASSUME LogInv, ControlInv, [Next]_vars PROVE LogInv'
  OBVIOUS
<1>1. CASE NoQuery \/ Fail \/ AnswerSearch \/ SearchFails
  <2>1. /\ phase \in {"new", "calling", "searching"} /\ phase' = "closed" /\ UNCHANGED <<ended, first>>
        /\ \/ LogEntry(FALSE, NoCred)
           \/ LogEntry(TRUE, NoCred) /\ route' = "search"
    <3>1. CASE NoQuery
      BY <3>1 DEF NoQuery, bodyVars
    <3>2. CASE Fail
      BY <3>2 DEF Fail, bodyVars
    <3>3. CASE AnswerSearch \/ SearchFails
      BY <3>3 DEF AnswerSearch, SearchFails, SearchResults, bodyVars, ControlInv, ControlTypes
    <3> QED BY <1>1, <3>1, <3>2, <3>3
  <2> QED BY <2>1, EntryMade
<1>2. CASE \E damages \in Bodies : Connect(damages)
  BY <1>2, ConnectLog DEF ControlInv
<1>3. CASE \E size \in ChunkSizes : ReadChunk(size)
  BY <1>3, ReadChunkLog
<1>4. CASE UpstreamDone \/ UpstreamError \/ ReadWhole \/ ReadFails
  BY <1>4, FinishLog, ReadWholeLog, ReadFailsLog DEF UpstreamDone, UpstreamError
<1>5. CASE OtherEntry \/ AdminLog
  BY <1>5, OtherEntryLog, AdminLogLog DEF ControlInv
<1>6. CASE \/ \E r \in Routes, m \in {"name", "id", "none"} : Accept(r, m)
           \/ Reject \/ CallStep \/ OtherCalls \/ McpAnswered \/ Ping \/ Drain \/ Disconnect
           \/ UNCHANGED vars
  BY <1>6, LogAlone
<1> QED BY <1>1, <1>2, <1>3, <1>4, <1>5, <1>6 DEF Next, Respond

\* What the invariant says of the log is what a reader of it relies on.
LEMMA LogInvTells == LogInv => LogTells
<1> SUFFICES ASSUME LogInv, NEW i \in DOMAIN log.entries
             PROVE  LET e == log.entries[i]
                    IN  /\ i > 1 => log.entries[i - 1].id = e.id - 1
                        /\ e.id = mine =>
                             /\ e.total = (ended = "done" \/ (ended = "error" /\ route # "whole"))
                             /\ e.reported = e.total
                             /\ e.input => e.first
                             /\ e.first <=> first \/ (route = "whole" /\ e.success)
                        /\ e.id # mine => ~(e.first \/ e.total \/ e.input \/ e.reported)
  BY DEF LogTells
<1>1. /\ log.entries[i] \in LogEntries /\ DOMAIN log.entries = 1 .. Len(log.entries)
      /\ Len(log.entries) \in Nat /\ log.next \in Nat /\ Consecutive(log)
  BY LogIs DEF LogInv
<1>2. i > 1 => log.entries[i - 1].id = log.entries[i].id - 1
  <2> SUFFICES ASSUME i > 1 PROVE log.entries[i - 1].id = log.entries[i].id - 1
    OBVIOUS
  <2>1. i \in Nat /\ i - 1 \in DOMAIN log.entries
    BY <1>1
  <2>2. /\ log.entries[i].id = log.next - Len(log.entries) + i - 1
        /\ log.entries[i - 1].id = log.next - Len(log.entries) + (i - 1) - 1
    BY <1>1, <2>1 DEF Consecutive
  <2> QED BY <1>1, <2>1, <2>2
<1>3. Told(log.entries[i])
  BY DEF LogInv
<1> QED BY <1>1, <1>2, <1>3 DEF Told, ToldBy, LogEntries

\* The entry of a request says what its handler knows, and nothing is ever
\* written into another's.
THEOREM LogTellsAlways == Spec => []LogTells
<1>1. Init => LogInv
  BY LogInit
<1>2. LogInv /\ ControlInv /\ [Next]_vars => LogInv'
  BY LogNext
<1> QED BY <1>1, <1>2, Controlled, LogInvTells, PTL DEF Spec

-----------------------------------------------------------------------------
(* What the handler has made of the body. *)
Marks == {START, PING, FINAL}

LEMMA Unmarked ==
  ASSUME NEW fs \in Seq(STRING)
  PROVE  DOMAIN fs \cap Marks = {} /\ DOMAIN fs \subseteq Nat
<1>1. DOMAIN fs = 1 .. Len(fs)
  OBVIOUS
<1> QED BY <1>1 DEF Marks, START, PING, FINAL

\* What was decoded is what was sent without its marks, and what is kept.
LEMMA HeardParts ==
  ASSUME NEW fs \in Seq(STRING), NEW o \in Seq(DOMAIN fs \cup Marks), NEW k \in Seq(DOMAIN fs)
  PROVE  /\ Without(o, Marks) \in Seq(DOMAIN fs)
         /\ Without(o \o k, Marks) = Without(o, Marks) \o k
<1> DEFINE S == DOMAIN fs \cup Marks
           v == Without(o, Marks)
<1>1. o \in Seq(S) /\ k \in Seq(S)
  OBVIOUS
<1> HIDE DEF S
<1>2. v \in Seq(S) /\ ToSet(v) = ToSet(o) \ Marks
  BY <1>1, WithoutFacts
<1>3. v \in Seq(DOMAIN fs)
  <2> HIDE DEF v
  <2>1. \A i \in DOMAIN v : v[i] \in S /\ v[i] \notin Marks
    BY <1>2 DEF ToSet
  <2>2. \A i \in DOMAIN v : v[i] \in DOMAIN fs
    BY <2>1 DEF S
  <2> QED BY <1>2, <2>2
<1>4. Without(k, Marks) = k
  BY Unmarked, WithoutAll
<1>5. Without(o \o k, Marks) = Without(o, Marks) \o Without(k, Marks)
  BY <1>1, WithoutConcat
<1> QED BY <1>3, <1>4, <1>5

\* The handler hands on what it has decoded.
LEMMA HeardMore ==
  ASSUME NEW fs \in Seq(STRING), NEW o \in Seq(DOMAIN fs \cup Marks), NEW k \in Seq(DOMAIN fs),
         NEW a \in Seq(DOMAIN fs)
  PROVE  /\ Without(o \o (k \o a), Marks) = Without(o \o k, Marks) \o a
         /\ k = <<>> => Without((o \o a) \o k, Marks) = Without(o \o k, Marks) \o a
<1> DEFINE S == DOMAIN fs \cup Marks
           v == Without(o, Marks)
<1>1. o \in Seq(S) /\ a \in Seq(S)
  OBVIOUS
<1> HIDE DEF S
<1>0. \A x, y \in Seq(S) : Without(x \o y, Marks) = Without(x, Marks) \o Without(y, Marks)
  BY WithoutConcat
<1>2. v \in Seq(DOMAIN fs) /\ Without(o \o k, Marks) = v \o k
  BY HeardParts
<1>7. Without(o \o (k \o a), Marks) = v \o (k \o a)
  <2>1. k \o a \in Seq(DOMAIN fs)
    BY ConcatFacts
  <2> QED BY <2>1, HeardParts
<1>8. v \o (k \o a) = (v \o k) \o a
  <2>1. v \in Seq(DOMAIN fs)
    BY <1>2
  <2> HIDE DEF v
  <2>2. (v \o k) \o a = v \o (k \o a)
    BY <2>1, ConcatAssociative, SMTT(20)
  <2> QED BY <2>2
<1>9. Without(o \o a, Marks) = v \o a
  BY HeardParts
<1>10. o \o a \in Seq(S)
  BY <1>1, ConcatFacts
<1>11. k = <<>> => Without((o \o a) \o k, Marks) = (v \o k) \o a
  <2> HAVE k = <<>>
  <2>1. (o \o a) \o k = o \o a /\ v \o k = v
    BY <1>2, <1>10, ConcatEmptySeq
  <2> QED BY <1>9, <2>1
<1> QED BY <1>2, <1>7, <1>8, <1>11

\* It sends marks, and in the end what it kept.
LEMMA HeardMarks ==
  ASSUME NEW fs \in Seq(STRING), NEW o \in Seq(DOMAIN fs \cup Marks), NEW k \in Seq(DOMAIN fs)
  PROVE  /\ Without(Append(o, PING) \o k, Marks) = Without(o \o k, Marks)
         /\ Without(((o \o (<<START>> \o k)) \o <<FINAL>>) \o <<>>, Marks) = Without(o \o k, Marks)
         /\ k = <<>> => Without(((o \o <<>>) \o <<FINAL>>) \o <<>>, Marks) = Without(o \o k, Marks)
<1> DEFINE S == DOMAIN fs \cup Marks
           v == Without(o, Marks)
<1>1. /\ o \in Seq(S) /\ k \in Seq(S) /\ DOMAIN fs \subseteq S
      /\ START \in S /\ PING \in S /\ FINAL \in S
  BY DEF Marks
<1> HIDE DEF S
<1>0. \A x, y \in Seq(S) : Without(x \o y, Marks) = Without(x, Marks) \o Without(y, Marks)
  BY WithoutConcat
<1>2. v \in Seq(DOMAIN fs) /\ Without(o \o k, Marks) = v \o k
  BY HeardParts
<1>3. Without(k, Marks) = k
  BY Unmarked, WithoutAll
<1>4. \A m \in Marks : Without(<<m>>, Marks) = <<>>
  <2> TAKE m \in Marks
  <2>1. <<m>> \in Seq(Marks) /\ \A i \in DOMAIN <<m>> : <<m>>[i] \in Marks
    OBVIOUS
  <2> QED BY <2>1, WithoutFacts
<1>5. START \in Marks /\ PING \in Marks /\ FINAL \in Marks
  BY DEF Marks
<1>6. <<START>> \in Seq(S) /\ <<PING>> \in Seq(S) /\ <<FINAL>> \in Seq(S)
  BY <1>1
<1>12. Without(Append(o, PING) \o k, Marks) = v \o k
  <2>1. Append(o, PING) = o \o <<PING>>
    BY <1>1, AppendIsConcat
  <2>2. Without(o \o <<PING>>, Marks) = v \o <<>>
    BY <1>0, <1>1, <1>4, <1>5, <1>6, ZenonT(40)
  <2>3. v \o <<>> = v
    BY <1>2, ConcatEmptySeq
  <2>4. Append(o, PING) \in Seq(DOMAIN fs \cup Marks)
    BY <1>1 DEF S
  <2>5. Without(Append(o, PING) \o k, Marks) = Without(Append(o, PING), Marks) \o k
    BY <2>4, HeardParts
  <2> QED BY <2>1, <2>2, <2>3, <2>5
<1>13. Without(<<START>> \o k, Marks) = k
  <2>1. Without(<<START>> \o k, Marks) = <<>> \o k
    <3>1. Without(<<START>> \o k, Marks) = Without(<<START>>, Marks) \o Without(k, Marks)
      BY <1>0, <1>1, <1>6
    <3>2. Without(<<START>>, Marks) = <<>> /\ Without(k, Marks) = k
      BY <1>3, <1>4, <1>5
    <3> QED BY <3>1, <3>2
  <2> QED BY <2>1, ConcatEmptySeq
<1>14. ASSUME NEW h \in Seq(S), Without(h, Marks) = k
       PROVE  Without(((o \o h) \o <<FINAL>>) \o <<>>, Marks) = v \o k
  <2>1. o \o h \in Seq(S) /\ (o \o h) \o <<FINAL>> \in Seq(S)
    BY <1>1, <1>6, ConcatProperties
  <2>2. ((o \o h) \o <<FINAL>>) \o <<>> = (o \o h) \o <<FINAL>>
    BY <2>1, ConcatEmptySeq
  <2>3. Without((o \o h) \o <<FINAL>>, Marks) = Without(o \o h, Marks) \o <<>>
    BY <1>0, <1>4, <1>5, <1>6, <2>1, ZenonT(40)
  <2>4. Without(o \o h, Marks) = v \o k
    BY <1>0, <1>1, <1>14
  <2>5. v \o k \in Seq(DOMAIN fs)
    BY <1>2, ConcatFacts
  <2>6. (v \o k) \o <<>> = v \o k
    BY <2>5, ConcatEmptySeq
  <2> QED BY <2>2, <2>3, <2>4, <2>6
<1>15. Without(((o \o (<<START>> \o k)) \o <<FINAL>>) \o <<>>, Marks) = v \o k
  <2>1. <<START>> \o k \in Seq(S)
    BY <1>1, <1>6, ConcatProperties
  <2> QED BY <1>13, <1>14, <2>1
<1>16. k = <<>> => Without(((o \o <<>>) \o <<FINAL>>) \o <<>>, Marks) = v \o k
  <2> HAVE k = <<>>
  <2>1. <<>> \in Seq(S) /\ Without(<<>>, Marks) = k
    BY <1>1, <1>3
  <2> QED BY <1>14, <2>1
<1> QED BY <1>2, <1>12, <1>15, <1>16

\* The decoder, the wire and what was decoded are those of one body.
Flowing(fs, w, d, gone, o, k) ==
  /\ fs \in Seq(STRING) /\ w \in Seq(Cells(fs)) /\ gone \in BOOLEAN
  /\ o \in Seq(DOMAIN fs \cup Marks) /\ k \in Seq(DOMAIN fs)
  /\ d.out = <<>>
  /\ \E full \in BOOLEAN : (full <=> ~gone) /\ Sound(fs, Without(o \o k, Marks), d, w, full)

BodyInv ==
  /\ Flowing(frames, wire, decoder, refused, out, kept)
  /\ phase \in {"new", "calling", "searching"} =>
       frames = <<>> /\ wire = <<>> /\ decoder = NewDecoder /\ ~refused /\ out = <<>>
  /\ phase = "reading" /\ route = "whole" => out = <<>> /\ ~refused
  /\ route # "buffered" \/ phase \in {"new", "calling", "searching"} => kept = <<>>

LEMMA WithoutNothing == Without(<<>> \o <<>>, Marks) = <<>>
<1>1. <<>> \in Seq(Marks)
  OBVIOUS
<1>2. \A i \in DOMAIN <<>> : <<>>[i] \in Marks
  OBVIOUS
<1>3. Without(<<>>, Marks) = <<>>
  BY <1>1, <1>2, WithoutFacts
<1>4. <<>> \o <<>> = <<>>
  BY <1>1, ConcatEmptySeq
<1> QED BY <1>3, <1>4

LEMMA FreshFlow ==
  ASSUME NEW fs \in Seq(STRING), NEW w, w = FlattenSeq(Frames(fs)),
         NEW o, o = <<>> \/ o = <<START>>
  PROVE  Flowing(fs, w, NewDecoder, FALSE, o, <<>>)
<1>1. PICK full \in BOOLEAN : full
  OBVIOUS
<1>2. w \in Seq(Cells(fs)) /\ Sound(fs, <<>>, NewDecoder, w, full)
  BY FreshSound
<1>3. o \in Seq(DOMAIN fs \cup Marks) /\ <<>> \in Seq(DOMAIN fs) /\ o \in Seq(Marks)
  <2>1. START \in Marks
    BY DEF Marks
  <2>2. CASE o = <<>>
    BY <2>2
  <2>3. CASE o = <<START>>
    BY <2>1, <2>3
  <2> QED BY <2>2, <2>3
<1>4. o \o <<>> = o
  BY <1>3, ConcatEmptySeq
<1>5. Without(o, Marks) = <<>>
  <2>1. \A i \in DOMAIN o : o[i] \in Marks
    BY <1>3
  <2> QED BY <1>3, <2>1, WithoutFacts
<1>6. NewDecoder.out = <<>>
  BY DEF NewDecoder
<1>7. Sound(fs, Without(o \o <<>>, Marks), NewDecoder, w, full)
  BY <1>2, <1>4, <1>5
<1> QED BY <1>1, <1>2, <1>3, <1>6, <1>7 DEF Flowing

LEMMA BodyInit == Init => BodyInv
<1> SUFFICES ASSUME Init PROVE BodyInv
  OBVIOUS
<1>1. /\ frames = <<>> /\ wire = <<>> /\ decoder = NewDecoder /\ refused = FALSE
      /\ out = <<>> /\ kept = <<>> /\ phase = "new"
  BY DEF Init
<1>2. Frames(<<>>) = <<>> /\ <<>> \in Seq(STRING)
  BY DEF Frames
<1>3. <<>> = FlattenSeq(Frames(<<>>))
  BY <1>2, FlattenEmpty
<1>4. Flowing(<<>>, <<>>, NewDecoder, FALSE, <<>>, <<>>)
  BY <1>2, <1>3, FreshFlow
<1> QED BY <1>1, <1>4 DEF BodyInv

Handing(o, k, x, p, q) ==
  (p = o \o x /\ q = k /\ k = <<>>) \/ (p = o /\ q = k \o x)

Losing(gone, d, chunk, lost) == lost \in BOOLEAN /\ (~lost => ~gone /\ ~Overflows(d, chunk))

\* A chunk is fed and decoded, and what comes out handed on.
LEMMA AbsorbFlow ==
  ASSUME NEW fs, NEW w, NEW d, NEW gone, NEW o, NEW k, Flowing(fs, w, d, gone, o, k),
         NEW chunk \in Seq(Cells(fs)), NEW rest \in Seq(Cells(fs)), w = chunk \o rest,
         NEW e, e = Absorb(d, chunk),
         NEW lost, Losing(gone, d, chunk, lost),
         NEW p, NEW q, Handing(o, k, e.out, p, q)
  PROVE  Flowing(fs, rest, Emptied(e), lost, p, q)
<1> DEFINE past == Without(o \o k, Marks)
           f == Emptied(e)
           got == past \o e.out
<1>1. /\ fs \in Seq(STRING) /\ o \in Seq(DOMAIN fs \cup Marks) /\ k \in Seq(DOMAIN fs)
      /\ d.out = <<>>
  BY DEF Flowing
<1>2. PICK full \in BOOLEAN : (full <=> ~gone) /\ Sound(fs, past, d, w, full)
  BY DEF Flowing
<1>3. PICK still \in BOOLEAN : still <=> ~lost
  OBVIOUS
<1>0. lost \in BOOLEAN /\ (~lost => ~gone /\ ~Overflows(d, chunk))
  BY DEF Losing
<1>4. past \in Seq(DOMAIN fs)
  <2>1. /\ Without(o, Marks) \in Seq(DOMAIN fs)
        /\ Without(o \o k, Marks) = Without(o, Marks) \o k
    BY <1>1, HeardParts
  <2> QED BY <1>1, <2>1, ConcatFacts
<1>5. Sound(fs, past, e, rest, still)
  <2>1. still => full /\ ~Overflows(d, chunk)
    BY <1>0, <1>2, <1>3
  <2>2. Sound(fs, past, d, chunk \o rest, full)
    BY <1>2
  <2> HIDE DEF past
  <2> QED BY <1>1, <1>4, <2>1, <2>2, AbsorbSound
<1>6. e.out \in Seq(DOMAIN fs)
  BY <1>5, SoundParts
<1>7. f.out = <<>> /\ Sound(fs, got, f, rest, still)
  <2>1. f = Emptied(e) /\ got = past \o e.out
    OBVIOUS
  <2> HIDE DEF past, f, got
  <2>2. fs \in Seq(STRING) /\ past \in Seq(DOMAIN fs) /\ Sound(fs, past, e, rest, still)
    BY <1>1, <1>4, <1>5
  <2>3. Emptied(e).out = <<>> /\ Sound(fs, past \o e.out, Emptied(e), rest, still)
    BY <2>2, HandedOn
  <2>4. f.out = <<>> /\ Sound(fs, got, f, rest, still)
    BY <2>1, <2>3
  <2> QED BY <2>3, <2>4
<1>8. Without(p \o q, Marks) = got
  <2>1. /\ Without(o \o (k \o e.out), Marks) = got
        /\ k = <<>> => Without((o \o e.out) \o k, Marks) = got
    BY <1>1, <1>6, HeardMore
  <2> QED BY <2>1 DEF Handing
<1>9. p \in Seq(DOMAIN fs \cup Marks) /\ q \in Seq(DOMAIN fs)
  <2>1. e.out \in Seq(DOMAIN fs \cup Marks)
    BY <1>6
  <2>2. o \o e.out \in Seq(DOMAIN fs \cup Marks)
    BY <1>1, <2>1, ConcatProperties
  <2>3. k \o e.out \in Seq(DOMAIN fs)
    BY <1>1, <1>6, ConcatFacts
  <2> QED BY <1>1, <2>2, <2>3 DEF Handing
<1>10. Sound(fs, Without(p \o q, Marks), f, rest, still)
  BY <1>7, <1>8
<1> HIDE DEF f
<1>11. Flowing(fs, rest, f, lost, p, q)
  BY <1>0, <1>1, <1>3, <1>7, <1>9, <1>10 DEF Flowing
<1> QED BY <1>11 DEF f

LEMMA ReadChunkBody ==
  ASSUME BodyInv, NEW size \in ChunkSizes, ReadChunk(size) PROVE BodyInv'
<1> DEFINE chunk == Chunk(wire, size)
           after == Absorb(decoder, chunk)
<1>1. /\ phase = "reading" /\ route \in {"stream", "buffered"} /\ UNCHANGED <<phase, route, frames>>
      /\ wire' = Later(wire, size) /\ decoder' = Emptied(after)
      /\ refused' = (refused \/ Overflows(decoder, chunk))
      /\ IF route = "stream" THEN out' = out \o after.out /\ kept' = kept
                             ELSE kept' = kept \o after.out /\ out' = out
  BY DEF ReadChunk, Streaming, Chunk, Later, Emptied
<1>2. Flowing(frames, wire, decoder, refused, out, kept) /\ (route = "stream" => kept = <<>>)
  BY <1>1 DEF BodyInv
<1>3. wire \in Seq(Cells(frames)) /\ size \in Nat /\ refused \in BOOLEAN
  BY <1>2, RequestAssumption DEF Flowing
<1>4. after = Absorb(decoder, chunk)
  OBVIOUS
<1>5. /\ chunk \in Seq(Cells(frames)) /\ wire' \in Seq(Cells(frames)) /\ wire = chunk \o wire'
  BY <1>1, <1>3, CutFacts
<1> HIDE DEF chunk, after
<1>6. Losing(refused, decoder, chunk, refused')
  <2>1. refused' \in BOOLEAN
    BY <1>1, <1>3
  <2> QED BY <1>1, <2>1 DEF Losing
<1>7. Handing(out, kept, after.out, out', kept')
  BY <1>1, <1>2 DEF Handing
<1>8. Flowing(frames, wire', Emptied(after), refused', out', kept')
  BY <1>2, <1>4, <1>5, <1>6, <1>7, AbsorbFlow
<1>9. kept' = <<>> \/ route = "buffered"
  BY <1>1, <1>2
<1> QED BY <1>1, <1>8, <1>9 DEF BodyInv

LEMMA ReadWholeBody == ASSUME BodyInv, ReadWhole PROVE BodyInv'
<1> DEFINE after == Absorb(decoder, wire)
<1>1. /\ phase = "reading" /\ route = "whole" /\ phase' = "closed"
      /\ UNCHANGED <<route, frames, kept>>
      /\ wire' = <<>> /\ decoder' = Emptied(after)
      /\ refused' = Overflows(decoder, wire) /\ out' = after.out
  BY DEF ReadWhole, Emptied
<1>2. /\ Flowing(frames, wire, decoder, refused, out, kept)
      /\ kept = <<>> /\ out = <<>> /\ ~refused
  BY <1>1 DEF BodyInv
<1>3. wire \in Seq(Cells(frames)) /\ wire' \in Seq(Cells(frames))
  BY <1>1, <1>2 DEF Flowing
<1>4. wire = wire \o wire'
  BY <1>1, <1>3, ConcatEmptySeq
<1>5. after = Absorb(decoder, wire)
  OBVIOUS
<1> HIDE DEF after
<1>6. Losing(refused, decoder, wire, refused')
  <2>1. refused' \in BOOLEAN
    BY <1>1 DEF Overflows
  <2> QED BY <1>1, <1>2, <2>1 DEF Losing
<1>7. Handing(out, kept, after.out, out, kept \o after.out)
      /\ Handing(out, kept, after.out, out \o after.out, kept)
  BY <1>2 DEF Handing
<1>8. Flowing(frames, wire', Emptied(after), refused', out \o after.out, kept)
  BY <1>2, <1>3, <1>4, <1>5, <1>6, <1>7, AbsorbFlow
<1>9. out \o after.out = out'
  <2>1. Flowing(frames, wire', Emptied(after), refused', out, kept \o after.out)
    BY <1>2, <1>3, <1>4, <1>5, <1>6, <1>7, AbsorbFlow
  <2> QED BY <1>1, <1>2
<1>10. kept' = <<>>
  BY <1>1, <1>2
<1> QED BY <1>1, <1>8, <1>9, <1>10 DEF BodyInv

LEMMA ConnectBody ==
  ASSUME BodyInv, NEW damages \in Bodies, Connect(damages) PROVE BodyInv'
<1>1. /\ phase = "calling" /\ phase' = "reading" /\ frames' = damages
      /\ wire' = FlattenSeq(Frames(damages))
      /\ out' = (IF route = "stream" THEN <<START>> ELSE <<>>)
      /\ UNCHANGED <<decoder, refused, kept, route>>
  BY DEF Connect, Frames
<1>2. decoder = NewDecoder /\ refused = FALSE /\ kept = <<>>
  BY <1>1 DEF BodyInv, Flowing
<1>3. damages \in Seq(STRING)
  BY RequestAssumption
<1>4. Flowing(damages, wire', NewDecoder, FALSE, out', <<>>)
  BY <1>1, <1>3, FreshFlow
<1>5. Flowing(frames', wire', decoder', refused', out', kept')
  BY <1>1, <1>2, <1>4
<1>6. route = "whole" => out' = <<>>
  BY <1>1
<1> QED BY <1>1, <1>2, <1>5, <1>6 DEF BodyInv

\* The other steps of the handler that send something.
LEMMA SendBody ==
  ASSUME NEW fs, NEW w, NEW d, NEW gone, NEW o, NEW k, Flowing(fs, w, d, gone, o, k),
         NEW p, NEW q,
         \/ p = Append(o, PING) /\ q = k
         \/ p = (o \o (<<START>> \o k)) \o <<FINAL>> /\ q = <<>>
         \/ p = (o \o <<>>) \o <<FINAL>> /\ q = <<>> /\ k = <<>>
  PROVE  Flowing(fs, w, d, gone, p, q)
<1> DEFINE S == DOMAIN fs \cup Marks
<1>1. fs \in Seq(STRING) /\ o \in Seq(S) /\ k \in Seq(DOMAIN fs)
  BY DEF Flowing
<1>2. Without(p \o q, Marks) = Without(o \o k, Marks)
  BY <1>1, HeardMarks
<1>3. <<>> \in Seq(S) /\ <<START>> \in Seq(S) /\ <<FINAL>> \in Seq(S) /\ PING \in S /\ k \in Seq(S)
  BY <1>1 DEF Marks
<1>4. p \in Seq(S)
  <2> HIDE DEF S
  <2>1. \A x, y \in Seq(S) : x \o y \in Seq(S)
    BY ConcatProperties
  <2>2. <<START>> \o k \in Seq(S) /\ o \o <<>> \in Seq(S)
    BY <1>1, <1>3, <2>1
  <2>3. o \o (<<START>> \o k) \in Seq(S)
    BY <1>1, <2>1, <2>2
  <2>4. (o \o (<<START>> \o k)) \o <<FINAL>> \in Seq(S) /\ (o \o <<>>) \o <<FINAL>> \in Seq(S)
    BY <1>3, <2>1, <2>2, <2>3
  <2>5. Append(o, PING) \in Seq(S)
    BY <1>1, <1>3
  <2> QED BY <2>4, <2>5
<1>5. q \in Seq(DOMAIN fs)
  <2>1. <<>> \in Seq(DOMAIN fs)
    OBVIOUS
  <2> QED BY <1>1, <2>1
<1> QED BY <1>2, <1>4, <1>5 DEF Flowing

LEMMA BodyNext == BodyInv /\ [Next]_vars => BodyInv'
<1> SUFFICES ASSUME BodyInv, [Next]_vars PROVE BodyInv'
  OBVIOUS
<1>0. Flowing(frames, wire, decoder, refused, out, kept)
  BY DEF BodyInv
<1>1. CASE \E size \in ChunkSizes : ReadChunk(size)
  BY <1>1, ReadChunkBody
<1>2. CASE ReadWhole
  BY <1>2, ReadWholeBody
<1>3. CASE \E damages \in Bodies : Connect(damages)
  BY <1>3, ConnectBody
<1>4. CASE Ping
  <2>1. /\ phase = "reading" /\ route \in {"stream", "buffered"} /\ out' = Append(out, PING)
        /\ UNCHANGED <<phase, route, frames, wire, decoder, refused, kept>>
    BY <1>4 DEF Ping, Streaming, bodyVars
  <2>2. Flowing(frames, wire, decoder, refused, out', kept)
    BY <1>0, <2>1, SendBody
  <2> QED BY <2>1, <2>2 DEF BodyInv
<1>5. CASE UpstreamDone \/ UpstreamError
  <2>1. PICK how \in {"done", "error"} : Finish(how)
    BY <1>5 DEF UpstreamDone, UpstreamError
  <2>2. /\ phase = "reading" /\ route \in {"stream", "buffered"} /\ phase' = "ending"
        /\ out' = (out \o Held) \o <<FINAL>> /\ kept' = <<>>
        /\ UNCHANGED <<route, frames, wire, decoder, refused>>
    BY <2>1 DEF Finish, Streaming
  <2>3. CASE route = "buffered"
    <3>1. out' = (out \o (<<START>> \o kept)) \o <<FINAL>>
      BY <2>2, <2>3 DEF Held
    <3>2. Flowing(frames, wire, decoder, refused, out', kept')
      BY <1>0, <2>2, <3>1, SendBody
    <3> QED BY <2>2, <3>2 DEF BodyInv
  <2>4. CASE route # "buffered"
    <3>1. out' = (out \o <<>>) \o <<FINAL>> /\ kept = <<>>
      BY <2>2, <2>4 DEF Held, BodyInv
    <3>2. Flowing(frames, wire, decoder, refused, out', kept')
      BY <1>0, <2>2, <3>1, SendBody
    <3> QED BY <2>2, <3>2 DEF BodyInv
  <2> QED BY <2>3, <2>4
<1>6. CASE AnswerSearch \/ SearchFails
  <2>1. /\ phase \in {"calling", "searching"} /\ phase' = "closed" /\ out' = <<START, FINAL>>
        /\ UNCHANGED <<route, frames, wire, decoder, refused, kept>>
    BY <1>6 DEF AnswerSearch, SearchFails, SearchResults, bodyVars
  <2>2. out = <<>> /\ kept = <<>> /\ frames \in Seq(STRING)
    BY <2>1 DEF BodyInv, Flowing
  <2>3. (<<>> \o (<<START>> \o <<>>)) \o <<FINAL>> = <<START, FINAL>>
    <3>1. START \in Marks /\ FINAL \in Marks
      BY DEF Marks
    <3>2. <<>> \o (<<START>> \o <<>>) = <<START>>
      BY <3>1, ConcatEmptySeq
    <3>3. <<START>> \o <<FINAL>> = Append(<<START>>, FINAL)
      BY <3>1, AppendIsConcat
    <3>4. Append(<<START>>, FINAL) = <<START, FINAL>>
      BY <3>1, PairAppended
    <3> QED BY <3>2, <3>3, <3>4
  <2>4. Flowing(frames, wire, decoder, refused, out', kept')
    BY <1>0, <2>1, <2>2, <2>3, SendBody
  <2> QED BY <2>1, <2>2, <2>4 DEF BodyInv
<1>7. CASE \/ \E r \in Routes, m \in {"name", "id", "none"} : Accept(r, m)
           \/ Reject \/ NoQuery \/ McpAnswered
  <2>1. /\ phase \in {"new", "calling"} /\ phase' \in {"calling", "searching", "closed"}
        /\ UNCHANGED <<frames, wire, decoder, refused, kept, out>>
    BY <1>7 DEF Accept, Reject, NoQuery, McpAnswered, bodyVars
  <2> QED BY <2>1 DEF BodyInv
<1>8. CASE \/ CallStep \/ OtherCalls \/ Fail \/ Drain \/ ReadFails \/ Disconnect
           \/ OtherEntry \/ AdminLog \/ UNCHANGED vars
  <2>1. /\ phase' \in {phase, "closed"}
        /\ UNCHANGED <<frames, wire, decoder, refused, kept, out, route>>
    BY <1>8 DEF CallStep, OtherCalls, Fail, Drain, ReadFails, Disconnect, OtherEntry, AdminLog,
                vars, bodyVars, handlerVars
  <2> QED BY <2>1 DEF BodyInv
<1> QED BY <1>1, <1>2, <1>3, <1>4, <1>5, <1>6, <1>7, <1>8 DEF Next, Respond

\* What is decoded comes in order, and nothing intact is passed over.
LEMMA BodyTells == BodyInv => NoFrameSkipped
<1> SUFFICES ASSUME BodyInv PROVE NoFrameSkipped
  OBVIOUS
<1> DEFINE d == Decoded
           r == decoder.buffer \o wire
<1>1. /\ frames \in Seq(STRING) /\ wire \in Seq(Cells(frames)) /\ decoder.out = <<>>
      /\ out \in Seq(DOMAIN frames \cup Marks) /\ kept \in Seq(DOMAIN frames)
  BY DEF BodyInv, Flowing
<1>2. d = Without(out \o kept, Marks)
  BY DEF Decoded, Marks
<1>3. PICK full \in BOOLEAN : (full <=> ~refused) /\ Sound(frames, d, decoder, wire, full)
  BY <1>2 DEF BodyInv, Flowing
<1>4. d \in Seq(DOMAIN frames)
  <2>1. /\ Without(out, Marks) \in Seq(DOMAIN frames)
        /\ Without(out \o kept, Marks) = Without(out, Marks) \o kept
    BY <1>1, HeardParts
  <2> QED BY <1>1, <1>2, <2>1, ConcatFacts
<1> HIDE DEF d
<1>5. decoder.buffer \in Seq(Cells(frames)) /\ Remains(frames, d \o decoder.out, r, full)
  BY <1>3, SoundParts
<1>6. d \o decoder.out = d
  BY <1>1, <1>4, ConcatEmptySeq
<1>7. /\ \A i \in DOMAIN d : frames[d[i]] = "none"
      /\ \A i, j \in DOMAIN d : i < j => d[i] < d[j]
  BY <1>5, <1>6 DEF Remains, Left, InOrder
<1>8. ASSUME ~refused, NEW n \in DOMAIN frames, frames[n] = "none", ReadUpTo(n)
      PROVE  \/ \E i \in DOMAIN d : d[i] = n
             \/ \E i \in DOMAIN decoder.buffer :
                  decoder.buffer[i].frame = n /\ decoder.buffer[i].part = 1
  <2>1. (\E i \in DOMAIN d : d[i] = n) \/ Starts(r, n)
    BY <1>3, <1>5, <1>6, <1>8 DEF Remains, Unbroken, Present
  <2>2. ASSUME Starts(r, n)
        PROVE  \E i \in DOMAIN decoder.buffer :
                 decoder.buffer[i].frame = n /\ decoder.buffer[i].part = 1
    <3>1. PICK i \in DOMAIN r : r[i].frame = n /\ r[i].part = 1
      BY <2>2 DEF Starts
    <3> DEFINE b == decoder.buffer
    <3>2. b \in Seq(Cells(frames)) /\ wire \in Seq(Cells(frames))
      BY <1>1, <1>5
    <3> HIDE DEF b
    <3>3. /\ Len(b \o wire) = Len(b) + Len(wire) /\ b \o wire \in Seq(Cells(frames))
          /\ \A j \in 1 .. Len(b) : (b \o wire)[j] = b[j]
          /\ \A j \in 1 .. Len(wire) : (b \o wire)[Len(b) + j] = wire[j]
      BY <3>2, ConcatFacts
    <3>4. r = b \o wire
      BY DEF b
    <3>5. CASE i <= Len(b)
      <4>1. i \in 1 .. Len(b) /\ i \in DOMAIN b
        BY <3>1, <3>2, <3>3, <3>4, <3>5
      <4> QED BY <3>1, <3>3, <3>4, <4>1 DEF b
    <3>6. CASE ~(i <= Len(b))
      <4>1. i - Len(b) \in 1 .. Len(wire) /\ i = Len(b) + (i - Len(b)) /\ i - Len(b) \in DOMAIN wire
        BY <3>1, <3>2, <3>3, <3>4, <3>6
      <4>2. r[i] = wire[i - Len(b)]
        BY <3>3, <3>4, <4>1
      <4> QED BY <1>8, <3>1, <4>1, <4>2 DEF ReadUpTo
    <3> QED BY <3>5, <3>6
  <2> QED BY <2>1, <2>2
<1> QED BY <1>7, <1>8 DEF NoFrameSkipped, d

\* Frames come out in their order and at most once, and no damage of others, no
\* cut of the body and no step of others makes the decoder pass over an intact one.
THEOREM NoFrameIsSkipped == Spec => []NoFrameSkipped
<1> QED BY BodyInit, BodyNext, BodyTells, PTL DEF Spec

-----------------------------------------------------------------------------
(* The stream of the client, by how far it is. *)
Pings(o) == \A i \in DOMAIN o : o[i] = PING

StartsAt(o, k, n) ==
  /\ k \in 1 .. n /\ o[k] = START
  /\ \A i \in 1 .. n : /\ i < k => o[i] = PING
                       /\ i # k => o[i] # START
                       /\ o[i] # FINAL

Started(o)  == \E k \in Nat : StartsAt(o, k, Len(o))
Finished(o) == Len(o) > 0 /\ o[Len(o)] = FINAL /\ \E k \in Nat : StartsAt(o, k, Len(o) - 1)

LEMMA PingsMore == ASSUME NEW S, PING \in S, NEW o \in Seq(S), Pings(o) PROVE Pings(Append(o, PING))
BY DEF Pings

LEMMA StartedMore ==
  ASSUME NEW S, NEW o \in Seq(S), NEW a \in Seq(S), Started(o),
         \A i \in DOMAIN a : a[i] # START /\ a[i] # FINAL
  PROVE  Started(o \o a)
<1>1. /\ Len(o) \in Nat /\ Len(a) \in Nat /\ DOMAIN a = 1 .. Len(a)
      /\ Len(o \o a) = Len(o) + Len(a)
      /\ \A i \in 1 .. Len(o) + Len(a) :
           (o \o a)[i] = IF i <= Len(o) THEN o[i] ELSE a[i - Len(o)]
  BY ConcatProperties
<1>2. PICK k \in Nat : StartsAt(o, k, Len(o))
  BY DEF Started
<1>3. k \in 1 .. Len(o) /\ o[k] = START
  BY <1>2 DEF StartsAt
<1>4. k \in 1 .. Len(o \o a) /\ (o \o a)[k] = START
  BY <1>1, <1>3
<1>5. ASSUME NEW i \in 1 .. Len(o \o a)
      PROVE  /\ i < k => (o \o a)[i] = PING
             /\ i # k => (o \o a)[i] # START
             /\ (o \o a)[i] # FINAL
  <2>1. CASE i <= Len(o)
    <3>1. i \in 1 .. Len(o) /\ (o \o a)[i] = o[i]
      BY <1>1, <2>1
    <3> QED BY <1>2, <3>1 DEF StartsAt
  <2>2. CASE i > Len(o)
    <3>1. i - Len(o) \in DOMAIN a /\ (o \o a)[i] = a[i - Len(o)] /\ ~(i < k)
      BY <1>1, <1>3, <2>2
    <3> QED BY <3>1
  <2> QED BY <1>1, <2>1, <2>2
<1>6. StartsAt(o \o a, k, Len(o \o a))
  BY <1>4, <1>5 DEF StartsAt
<1> QED BY <1>6 DEF Started

LEMMA PingsStarted ==
  ASSUME NEW S, NEW o \in Seq(S), NEW a \in Seq(S), Pings(o), START \in S,
         \A i \in DOMAIN a : a[i] # START /\ a[i] # FINAL
  PROVE  Started(o \o (<<START>> \o a))
<1> DEFINE p == <<START>>
           q == o \o p
<1>1. p \in Seq(S) /\ Len(p) = 1 /\ p[1] = START
  OBVIOUS
<1> HIDE DEF p
<1>2. /\ Len(o) \in Nat /\ DOMAIN o = 1 .. Len(o)
      /\ q \in Seq(S) /\ Len(q) = Len(o) + 1
      /\ \A i \in 1 .. Len(o) + 1 : q[i] = IF i <= Len(o) THEN o[i] ELSE p[i - Len(o)]
  <2>1. /\ o \o p \in Seq(S) /\ Len(o \o p) = Len(o) + Len(p)
        /\ \A i \in 1 .. Len(o) + Len(p) :
             (o \o p)[i] = IF i <= Len(o) THEN o[i] ELSE p[i - Len(o)]
    BY <1>1, ConcatProperties
  <2>2. Len(o) \in Nat /\ DOMAIN o = 1 .. Len(o)
    OBVIOUS
  <2> QED BY <1>1, <2>1, <2>2
<1>3. q[Len(o) + 1] = START
  <2>1. Len(o) + 1 \in 1 .. Len(o) + 1 /\ ~(Len(o) + 1 <= Len(o)) /\ Len(o) + 1 - Len(o) = 1
    BY <1>2
  <2>2. q[Len(o) + 1] = p[Len(o) + 1 - Len(o)]
    BY <1>2, <2>1
  <2> QED BY <1>1, <2>1, <2>2
<1>4. \A i \in 1 .. Len(o) + 1 : i # Len(o) + 1 => q[i] = PING
  <2> TAKE i \in 1 .. Len(o) + 1
  <2> HAVE i # Len(o) + 1
  <2>1. i \in DOMAIN o /\ i <= Len(o)
    BY <1>2
  <2> QED BY <1>2, <2>1 DEF Pings
<1>5. START # PING /\ START # FINAL /\ PING # FINAL
  BY DEF START, PING, FINAL
<1> HIDE DEF q
<1>6. StartsAt(q, Len(o) + 1, Len(q))
  BY <1>2, <1>3, <1>4, <1>5 DEF StartsAt
<1>7. Started(q)
  BY <1>2, <1>6 DEF Started
<1>8. Started(q \o a)
  BY <1>2, <1>7, StartedMore
<1>9. (o \o p) \o a = o \o (p \o a)
  BY <1>1, ConcatAssociative
<1> QED BY <1>8, <1>9 DEF p, q

LEMMA StartedPing ==
  ASSUME NEW S, PING \in S, NEW o \in Seq(S), Started(o)
  PROVE  Started(Append(o, PING))
<1>1. <<PING>> \in Seq(S) /\ \A i \in DOMAIN <<PING>> : <<PING>>[i] # START /\ <<PING>>[i] # FINAL
  BY DEF START, PING, FINAL
<1>2. Started(o \o <<PING>>)
  BY <1>1, StartedMore
<1>3. o \o <<PING>> = Append(o, PING)
  BY AppendIsConcat
<1> QED BY <1>2, <1>3

LEMMA StartedFinal ==
  ASSUME NEW S, FINAL \in S, NEW o \in Seq(S), Started(o)
  PROVE  Finished(o \o <<FINAL>>)
<1> DEFINE p == Append(o, FINAL)
<1>1. /\ Len(o) \in Nat /\ Len(p) = Len(o) + 1 /\ p[Len(p)] = FINAL
      /\ \A i \in 1 .. Len(o) : p[i] = o[i]
  OBVIOUS
<1>2. PICK k \in Nat : StartsAt(o, k, Len(o))
  BY DEF Started
<1> HIDE DEF p
<1>3. StartsAt(p, k, Len(o))
  BY <1>1, <1>2 DEF StartsAt
<1>4. Len(p) - 1 = Len(o) /\ Len(p) > 0
  BY <1>1
<1>5. Finished(p)
  BY <1>1, <1>3, <1>4 DEF Finished
<1>6. o \o <<FINAL>> = p
  BY AppendIsConcat DEF p
<1> QED BY <1>5, <1>6

ShapeInv ==
  /\ phase \in {"new", "calling", "searching"} => reply = 0 /\ out = <<>> /\ ended = "no"
  /\ phase = "reading" => ended = "no" /\ route # "search"
  /\ phase = "searching" => route = "search"
  /\ phase = "ending" => ended # "no"
  /\ reply = 200 /\ route # "whole" =>
       IF ended # "no" \/ route = "search" THEN Finished(out)
       ELSE IF route = "stream" THEN Started(out)
       ELSE Pings(out)

LEMMA ShapeInit == Init => ShapeInv
BY DEF Init, ShapeInv

LEMMA ShapeTells ==
  ASSUME NEW S, out \in Seq(S), ShapeInv
  PROVE  StreamShape
<1> DEFINE at(x) == {i \in DOMAIN out : out[i] = x}
           n == Len(out)
<1> SUFFICES ASSUME reply = 200, route # "whole"
             PROVE  /\ Cardinality(at(FINAL)) = (IF phase = "ending" \/ route = "search"
                                                    \/ ended # "no" THEN 1 ELSE 0)
                    /\ \A i \in at(FINAL) : i = Len(out)
                    /\ Cardinality(at(START)) <= 1
                    /\ \A i \in DOMAIN out : out[i] \notin {START, PING} =>
                         \E j \in at(START) : j < i
                    /\ route = "buffered" /\ ended = "no" => \A i \in DOMAIN out : out[i] = PING
  BY DEF StreamShape
<1>1. n \in Nat /\ DOMAIN out = 1 .. n
  OBVIOUS
<1>2. START # PING /\ START # FINAL /\ PING # FINAL
  BY DEF START, PING, FINAL
<1>3. \A x : Cardinality({x}) = 1
  BY FS_Singleton
<1>4. Cardinality({}) = 0
  BY FS_EmptySet
<1> HIDE DEF START, PING, FINAL
<1>5. CASE ended # "no" \/ route = "search"
  <2>1. Finished(out)
    BY <1>5 DEF ShapeInv
  <2>2. PICK k \in Nat : StartsAt(out, k, n - 1)
    BY <2>1 DEF Finished
  <2>3. n > 0 /\ out[n] = FINAL
    BY <2>1 DEF Finished
  <2>4. k \in 1 .. n - 1 /\ out[k] = START
    BY <2>2 DEF StartsAt
  <2>5. \A i \in 1 .. n - 1 : /\ i < k => out[i] = PING
                              /\ i # k => out[i] # START
                              /\ out[i] # FINAL
    BY <2>2 DEF StartsAt
  <2> HIDE DEF n
  <2>6. \A i \in 1 .. n : i = n \/ i \in 1 .. n - 1
    BY <1>1
  <2>7. at(FINAL) = {n}
    BY <1>1, <2>3, <2>5, <2>6
  <2>8. at(START) = {k}
    <3>1. k \in 1 .. n
      BY <1>1, <2>4
    <3> QED BY <1>1, <1>2, <2>3, <2>4, <2>5, <2>6, <3>1
  <2>9. \A i \in DOMAIN out : out[i] \notin {START, PING} => k < i
    <3> TAKE i \in DOMAIN out
    <3> HAVE out[i] \notin {START, PING}
    <3>1. CASE i = n
      BY <1>1, <2>4, <3>1
    <3>2. CASE i \in 1 .. n - 1
      BY <1>1, <2>4, <2>5, <3>2
    <3> QED BY <1>1, <2>6, <3>1, <3>2
  <2>10. Cardinality(at(FINAL)) = 1 /\ Cardinality(at(START)) <= 1
    <3> HIDE DEF at
    <3>1. Cardinality({k}) = 1
      BY <1>3
    <3>2. Cardinality(at(START)) = Cardinality({k})
      BY <2>8
    <3>3. Cardinality(at(FINAL)) = 1
      BY <1>3, <2>7, <2>8
    <3> QED BY <3>1, <3>2, <3>3
  <2>11. ~(route = "buffered" /\ ended = "no")
    BY <1>5
  <2> QED BY <1>5, <2>7, <2>8, <2>9, <2>10, <2>11 DEF n
<1>6. CASE ended = "no" /\ route # "search" /\ route = "stream"
  <2>1. Started(out) /\ phase # "ending"
    BY <1>6 DEF ShapeInv
  <2>2. PICK k \in Nat : StartsAt(out, k, n)
    BY <2>1 DEF Started
  <2>3. k \in 1 .. n /\ out[k] = START
    BY <2>2 DEF StartsAt
  <2>4. \A i \in 1 .. n : /\ i < k => out[i] = PING
                          /\ i # k => out[i] # START
                          /\ out[i] # FINAL
    BY <2>2 DEF StartsAt
  <2> HIDE DEF n
  <2>5. at(FINAL) = {} /\ at(START) = {k}
    BY <1>1, <2>3, <2>4
  <2>6. \A i \in DOMAIN out : out[i] \notin {START, PING} => k < i
    BY <1>1, <2>3, <2>4
  <2>7. Cardinality(at(FINAL)) = 0 /\ Cardinality(at(START)) <= 1
    <3> HIDE DEF at
    <3>1. Cardinality({k}) = 1
      BY <1>3
    <3>2. Cardinality(at(START)) = Cardinality({k})
      BY <2>5
    <3>3. Cardinality(at(FINAL)) = 0
      BY <1>3, <1>4, <2>5
    <3> QED BY <3>1, <3>2, <3>3
  <2> QED BY <1>6, <2>1, <2>5, <2>6, <2>7
<1>7. CASE ended = "no" /\ route # "search" /\ route # "stream"
  <2>1. Pings(out) /\ phase # "ending"
    BY <1>7 DEF ShapeInv
  <2>2. \A i \in DOMAIN out : out[i] = PING
    BY <2>1 DEF Pings
  <2>3. at(FINAL) = {} /\ at(START) = {}
    BY <1>2, <2>2
  <2>4. Cardinality(at(FINAL)) = 0 /\ Cardinality(at(START)) <= 1
    <3> HIDE DEF at
    <3> QED BY <1>4, <2>3
  <2> QED BY <1>7, <2>1, <2>2, <2>3, <2>4
<1> QED BY <1>5, <1>6, <1>7

\* What a chunk is decoded into are events, no marks.
LEMMA ChunkEvents ==
  ASSUME NEW fs, NEW w, NEW d, NEW gone, NEW o, NEW k, Flowing(fs, w, d, gone, o, k),
         NEW chunk \in Seq(Cells(fs)), NEW rest \in Seq(Cells(fs)), w = chunk \o rest
  PROVE  Absorb(d, chunk).out \in Seq(DOMAIN fs)
<1> DEFINE past == Without(o \o k, Marks)
           e == Absorb(d, chunk)
<1>1. /\ fs \in Seq(STRING) /\ o \in Seq(DOMAIN fs \cup Marks) /\ k \in Seq(DOMAIN fs)
      /\ d.out = <<>>
  BY DEF Flowing
<1>2. PICK full \in BOOLEAN : (full <=> ~gone) /\ Sound(fs, past, d, w, full)
  BY DEF Flowing
<1>3. PICK still \in BOOLEAN : ~still
  OBVIOUS
<1>4. past \in Seq(DOMAIN fs)
  <2>1. /\ Without(o, Marks) \in Seq(DOMAIN fs)
        /\ Without(o \o k, Marks) = Without(o, Marks) \o k
    BY <1>1, HeardParts
  <2> QED BY <1>1, <2>1, ConcatFacts
<1>5. Sound(fs, past, e, rest, still)
  <2>1. still => full /\ ~Overflows(d, chunk)
    BY <1>3
  <2>2. Sound(fs, past, d, chunk \o rest, full)
    BY <1>2
  <2>3. e = Absorb(d, chunk)
    OBVIOUS
  <2> HIDE DEF past, e
  <2> QED BY <1>1, <1>4, <2>1, <2>2, <2>3, AbsorbSound
<1> QED BY <1>5, SoundParts

LEMMA EventsUnmarked ==
  ASSUME NEW fs \in Seq(STRING), NEW a \in Seq(DOMAIN fs)
  PROVE  \A i \in DOMAIN a : a[i] # START /\ a[i] # FINAL
<1>1. \A i \in DOMAIN a : a[i] \in DOMAIN fs
  OBVIOUS
<1> QED BY <1>1, Unmarked DEF Marks

LEMMA ReadChunkShape ==
  ASSUME BodyInv, ShapeInv, NEW size \in ChunkSizes, ReadChunk(size)
  PROVE  ShapeInv'
<1> DEFINE chunk == Chunk(wire, size)
           after == Absorb(decoder, chunk)
           S == DOMAIN frames \cup Marks
<1>1. /\ phase = "reading" /\ ended = "no" /\ route # "search"
      /\ UNCHANGED <<phase, route, reply, ended>>
      /\ IF route = "stream" THEN out' = out \o after.out ELSE out' = out
  BY DEF ReadChunk, Streaming, Chunk, ShapeInv
<1>2. Flowing(frames, wire, decoder, refused, out, kept)
  BY DEF BodyInv
<1>3. wire \in Seq(Cells(frames)) /\ size \in Nat /\ frames \in Seq(STRING) /\ out \in Seq(S)
  BY <1>2, RequestAssumption DEF Flowing
<1>4. /\ chunk \in Seq(Cells(frames)) /\ Later(wire, size) \in Seq(Cells(frames))
      /\ wire = chunk \o Later(wire, size)
  BY <1>3, CutFacts
<1>5. after.out \in Seq(DOMAIN frames)
  <2> HIDE DEF chunk
  <2> QED BY <1>2, <1>4, ChunkEvents
<1> HIDE DEF after
<1>6. \A i \in DOMAIN after.out : after.out[i] # START /\ after.out[i] # FINAL
  BY <1>3, <1>5, EventsUnmarked
<1>7. after.out \in Seq(S)
  BY <1>5
<1> HIDE DEF S
<1>8. Started(out) => Started(out \o after.out)
  <2> HAVE Started(out)
  <2> QED BY <1>3, <1>6, <1>7, StartedMore
<1> QED BY <1>1, <1>8 DEF ShapeInv

LEMMA FinishShape ==
  ASSUME BodyInv, ShapeInv, NEW how \in {"done", "error"}, Finish(how)
  PROVE  ShapeInv'
<1> DEFINE S == DOMAIN frames \cup Marks
<1>1. /\ phase = "reading" /\ ended = "no" /\ route \in {"stream", "buffered"}
      /\ phase' = "ending" /\ ended' = how /\ UNCHANGED <<route, reply>>
      /\ out' = (out \o Held) \o <<FINAL>>
  BY DEF Finish, Streaming, ShapeInv
<1>2. Flowing(frames, wire, decoder, refused, out, kept)
  BY DEF BodyInv
<1>3. frames \in Seq(STRING) /\ out \in Seq(S) /\ kept \in Seq(DOMAIN frames)
  BY <1>2 DEF Flowing
<1>4. START \in S /\ FINAL \in S /\ kept \in Seq(S)
  BY <1>3 DEF Marks
<1>5. \A i \in DOMAIN kept : kept[i] # START /\ kept[i] # FINAL
  BY <1>3, EventsUnmarked
<1> HIDE DEF S
<1>6. <<START>> \o kept \in Seq(S) /\ out \o <<>> = out
  <2>1. <<START>> \in Seq(S)
    BY <1>4
  <2> QED BY <1>3, <1>4, <2>1, ConcatFacts, ConcatEmptySeq
<1>7. ASSUME reply = 200 PROVE Finished(out')
  <2>1. CASE route = "buffered"
    <3> DEFINE p == out \o (<<START>> \o kept)
    <3>1. Pings(out)
      BY <1>1, <1>7, <2>1 DEF ShapeInv
    <3>2. Started(p)
      BY <1>3, <1>4, <1>5, <3>1, PingsStarted
    <3>3. p \in Seq(S)
      BY <1>3, <1>6, ConcatFacts
    <3>4. Finished(p \o <<FINAL>>)
      <4> HIDE DEF p
      <4> QED BY <1>4, <3>2, <3>3, StartedFinal
    <3>5. out' = p \o <<FINAL>>
      BY <1>1, <2>1 DEF Held
    <3> QED BY <3>4, <3>5
  <2>2. CASE route = "stream"
    <3>1. Started(out)
      BY <1>1, <1>7, <2>2 DEF ShapeInv
    <3>2. Finished(out \o <<FINAL>>)
      BY <1>3, <1>4, <3>1, StartedFinal
    <3>3. out' = out \o <<FINAL>>
      BY <1>1, <1>6, <2>2 DEF Held
    <3> QED BY <3>2, <3>3
  <2> QED BY <1>1, <2>1, <2>2
<1>8. ended' # "no" /\ phase' = "ending"
  BY <1>1
<1> QED BY <1>1, <1>7, <1>8 DEF ShapeInv

LEMMA ShapeNext == ControlInv /\ BodyInv /\ ShapeInv /\ [Next]_vars => ShapeInv'
<1> SUFFICES ASSUME ControlInv, BodyInv, ShapeInv, [Next]_vars PROVE ShapeInv'
  OBVIOUS
<1> DEFINE S == DOMAIN frames \cup Marks
<1>0. out \in Seq(S) /\ START \in S /\ PING \in S /\ FINAL \in S
  BY DEF BodyInv, Flowing, Marks
<1>1. CASE \E size \in ChunkSizes : ReadChunk(size)
  BY <1>1, ReadChunkShape
<1>2. CASE UpstreamDone \/ UpstreamError
  BY <1>2, FinishShape DEF UpstreamDone, UpstreamError
<1>3. CASE Ping
  <2>1. /\ phase = "reading" /\ ended = "no" /\ route # "search" /\ out' = Append(out, PING)
        /\ UNCHANGED <<phase, route, reply, ended>>
    BY <1>3 DEF Ping, Streaming, bodyVars, ShapeInv
  <2> HIDE DEF S
  <2>2. Started(out) => Started(out')
    BY <1>0, <2>1, StartedPing
  <2>3. Pings(out) => Pings(out')
    BY <1>0, <2>1, PingsMore
  <2> QED BY <2>1, <2>2, <2>3 DEF ShapeInv
<1>4. CASE \E damages \in Bodies : Connect(damages)
  <2>1. /\ phase = "calling" /\ phase' = "reading" /\ route # "search"
        /\ out' = (IF route = "stream" THEN <<START>> ELSE <<>>)
        /\ UNCHANGED <<route, ended>>
    BY <1>4 DEF Connect
  <2>2. ended = "no"
    BY <2>1 DEF ShapeInv
  <2>3. Pings(<<>>)
    BY DEF Pings
  <2>4. Started(<<START>>)
    <3>1. StartsAt(<<START>>, 1, 1)
      BY DEF StartsAt, START, FINAL
    <3> QED BY <3>1 DEF Started
  <2> QED BY <2>1, <2>2, <2>3, <2>4 DEF ShapeInv
<1>5. CASE AnswerSearch \/ SearchFails
  <2>1. /\ phase' = "closed" /\ route = "search" /\ out' = <<START, FINAL>>
        /\ UNCHANGED <<route, ended>>
    BY <1>5 DEF AnswerSearch, SearchFails, SearchResults, bodyVars, ShapeInv
  <2>2. Finished(<<START, FINAL>>)
    <3>1. StartsAt(<<START, FINAL>>, 1, 1)
      BY DEF StartsAt, START, FINAL
    <3> QED BY <3>1 DEF Finished
  <2> QED BY <2>1, <2>2 DEF ShapeInv
<1>6. CASE ReadWhole \/ ReadFails
  <2>1. phase = "reading" /\ route = "whole" /\ phase' = "closed" /\ route' = "whole"
    BY <1>6 DEF ReadWhole, ReadFails
  <2> QED BY <2>1 DEF ShapeInv
<1>7. CASE Reject \/ NoQuery \/ Fail
  <2>1. phase' = "closed" /\ reply' \in {400, 429, 500, 502, 503}
    <3>1. CASE Reject
      BY <3>1 DEF Reject
    <3>2. CASE NoQuery
      BY <3>2 DEF NoQuery
    <3>3. CASE Fail
      BY <3>3 DEF Fail
    <3> QED BY <1>7, <3>1, <3>2, <3>3
  <2> QED BY <2>1 DEF ShapeInv
<1>8. CASE McpAnswered \/ \E r \in Routes, m \in {"name", "id", "none"} : Accept(r, m)
  <2>1. /\ phase \in {"new", "calling"} /\ phase' \in {"calling", "searching"}
        /\ phase' = "searching" => route' = "search"
        /\ UNCHANGED <<reply, out, ended>>
    BY <1>8 DEF Accept, McpAnswered, bodyVars
  <2> QED BY <2>1 DEF ShapeInv
<1>9. CASE Disconnect \/ Drain
  <2>1. /\ phase \in {"calling", "searching", "reading", "ending"} /\ phase' = "closed"
        /\ UNCHANGED <<route, reply, out, ended>>
    BY <1>9 DEF Disconnect, Drain, bodyVars
  <2> QED BY <2>1 DEF ShapeInv
<1>10. CASE CallStep \/ OtherCalls \/ OtherEntry \/ AdminLog \/ UNCHANGED vars
  <2>1. UNCHANGED <<phase, route, reply, out, ended>>
    BY <1>10 DEF CallStep, OtherCalls, OtherEntry, AdminLog, vars, bodyVars, handlerVars
  <2> QED BY <2>1 DEF ShapeInv
<1> QED BY <1>1, <1>2, <1>3, <1>4, <1>5, <1>6, <1>7, <1>8, <1>9, <1>10 DEF Next, Respond

\* A client that stays is sent one complete stream (RequestLifecycle's
\* StreamShape), whatever the upstream sends and however it is cut.
THEOREM StreamIsWhole == Spec => []StreamShape
<1>1. Init => ControlInv /\ BodyInv /\ ShapeInv
  BY ControlInit, BodyInit, ShapeInit
<1>2. ControlInv /\ BodyInv /\ ShapeInv /\ [Next]_vars => (ControlInv /\ BodyInv /\ ShapeInv)'
  BY ControlNext, BodyNext, ShapeNext
<1>3. BodyInv /\ ShapeInv => StreamShape
  <2> SUFFICES ASSUME BodyInv, ShapeInv PROVE StreamShape
    OBVIOUS
  <2>1. out \in Seq(DOMAIN frames \cup Marks)
    BY DEF BodyInv, Flowing
  <2> QED BY <2>1, ShapeTells
<1> QED BY <1>1, <1>2, <1>3, PTL DEF Spec

-----------------------------------------------------------------------------
(* The counters of the call. *)
Attempts ==
  /\ attempt \in 0 .. MaxRetries /\ hop \in 0 .. Proxies - 1
  /\ step \in Working \cup {"acquire"} => attempt < MaxRetries
  /\ step = "idle" => attempt = 0

\* A credential at the limit of its failures is off.
Blames ==
  /\ failures \in [Cred -> 0 .. MAX_FAILURES_PER_CREDENTIAL]
  /\ off \subseteq Cred
  /\ \A c \in Cred \ off : failures[c] < MAX_FAILURES_PER_CREDENTIAL

Selected ==
  /\ asked \in {"name", "id", "none"} /\ forced \subseteq Cred
  /\ body \in {"original", "listed", "default"} /\ verdict \in Verdict \cup {"none"}
  /\ lacking \subseteq Enterprise /\ cache \in {"fresh", "stale"}
  /\ route \in Routes \cup {"none"}
  /\ reply \in {0, 200, 400, 429, 500, 502, 503}

CallInv == Attempts /\ Blames /\ Selected

LEMMA MaxRetriesNat == MaxRetries \in Nat
<1>1. Cardinality(Cred) \in Nat
  BY ProviderAssumption, FS_CardinalityType
<1>2. Cardinality(Cred) * MAX_RETRIES_PER_CREDENTIAL \in Nat
  BY <1>1, ProviderAssumption
<1> QED BY <1>2, ProviderAssumption DEF MaxRetries

LEMMA CallInit == Init => CallInv
<1>1. 0 \in 0 .. MaxRetries /\ 0 \in 0 .. Proxies - 1
  BY MaxRetriesNat, ProviderAssumption
<1> QED BY <1>1, ProviderAssumption
        DEF Init, RetryInit, CallInv, Attempts, Blames, Selected, Working

LEMMA BlamesCounted ==
  ASSUME Blames, NEW c \in Cred, FailureCounted(c) \/ QuotaCounted(c)
  PROVE  Blames'
<1>0. MAX_FAILURES_PER_CREDENTIAL \in Nat \ {0}
  BY ProviderAssumption
<1>1. CASE UNCHANGED poolVars
  BY <1>1 DEF Blames, poolVars
<1>2. CASE c \notin off /\ FailureCounted(c)
  <2>1. failures[c] \in 0 .. MAX_FAILURES_PER_CREDENTIAL /\ failures[c] < MAX_FAILURES_PER_CREDENTIAL
    BY <1>2 DEF Blames
  <2>2. failures[c] + 1 \in 0 .. MAX_FAILURES_PER_CREDENTIAL
    BY <1>0, <2>1
  <2>3. failures' = [failures EXCEPT ![c] = failures[c] + 1]
    BY <1>2 DEF FailureCounted
  <2>4. /\ failures[c] + 1 >= MAX_FAILURES_PER_CREDENTIAL => off' = off \cup {c}
        /\ ~(failures[c] + 1 >= MAX_FAILURES_PER_CREDENTIAL) => off' = off
    BY <1>2 DEF FailureCounted
  <2>5. failures' \in [Cred -> 0 .. MAX_FAILURES_PER_CREDENTIAL] /\ off' \subseteq Cred
    BY <2>2, <2>3, <2>4 DEF Blames
  <2>6. ASSUME NEW x \in Cred \ off' PROVE failures'[x] < MAX_FAILURES_PER_CREDENTIAL
    <3>1. x \in Cred \ off
      BY <2>4
    <3>2. CASE x = c
      BY <1>0, <2>1, <2>3, <2>4, <3>2 DEF Blames
    <3>3. CASE x # c
      BY <2>3, <3>1, <3>3 DEF Blames
    <3> QED BY <3>2, <3>3
  <2> QED BY <2>5, <2>6 DEF Blames
<1>3. CASE c \notin off /\ QuotaCounted(c)
  <2>1. /\ failures' = [failures EXCEPT ![c] = MAX_FAILURES_PER_CREDENTIAL]
        /\ off' = off \cup {c}
    BY <1>3 DEF QuotaCounted
  <2> QED BY <1>0, <2>1 DEF Blames
<1> QED BY <1>1, <1>2, <1>3 DEF FailureCounted, QuotaCounted

LEMMA BlamesReset ==
  ASSUME Blames, NEW c \in Cred, failures' = [failures EXCEPT ![c] = 0],
         off' = off \/ off' = off \ {c}
  PROVE  Blames'
BY ProviderAssumption DEF Blames

LEMMA AttemptsNext ==
  ASSUME Attempts, step \in Working \cup {"acquire"},
         \/ NextAttempt \/ GiveUp \/ BackOffOrEnd
         \/ step' \in Working /\ UNCHANGED attempt /\ hop' \in 0 .. Proxies - 1
         \/ step' = "ok" /\ UNCHANGED <<attempt, hop>>
  PROVE  Attempts'
<1>0. MaxRetries \in Nat /\ 0 \in 0 .. Proxies - 1
  BY MaxRetriesNat, ProviderAssumption
<1>1. attempt \in 0 .. MaxRetries /\ attempt < MaxRetries /\ hop \in 0 .. Proxies - 1
  BY DEF Attempts
<1> HIDE DEF MaxRetries
<1>2. CASE NextAttempt
  <2>1. attempt + 1 \in 0 .. MaxRetries
    BY <1>0, <1>1
  <2>2. /\ attempt' = attempt + 1 /\ hop' = 0 /\ step' \in {"acquire", "failed"}
        /\ step' = "acquire" => attempt + 1 < MaxRetries
    BY <1>2 DEF NextAttempt, Rest
  <2> QED BY <1>0, <2>1, <2>2 DEF Attempts, Working
<1>3. CASE GiveUp
  <2>1. attempt' = attempt /\ hop' = 0 /\ step' = "failed"
    BY <1>3 DEF GiveUp, Rest
  <2> QED BY <1>0, <1>1, <2>1 DEF Attempts, Working
<1>4. CASE BackOffOrEnd /\ ~NextAttempt
  BY <1>0, <1>1, <1>4 DEF BackOffOrEnd, Attempts, Working
<1>5. CASE step' \in Working /\ UNCHANGED attempt /\ hop' \in 0 .. Proxies - 1
  BY <1>0, <1>1, <1>5 DEF Attempts, Working
<1>6. CASE step' = "ok" /\ UNCHANGED <<attempt, hop>>
  BY <1>0, <1>1, <1>6 DEF Attempts, Working
<1> QED BY <1>2, <1>3, <1>4, <1>5, <1>6

\* The steps that go on with the same attempt.
LEMMA SameAttempt ==
  ASSUME ControlInv, CallInv,
         \/ \E c \in Cred : Acquire(c)
         \/ Prepare \/ ResolveProfile
         \/ ModelPlain \/ ModelFromCache \/ ModelFetched \/ ModelFetchFails
         \/ \E v \in Verdict : Answered(v)
         \/ Succeed \/ TokenInvalid,
         UNCHANGED <<route, reply>>
  PROVE  CallInv'
<1>1. Attempts'
  <2>1. /\ step \in Working \cup {"acquire"} /\ UNCHANGED <<attempt, hop>>
        /\ step' \in Working \cup {"ok"}
    BY DEF Acquire, Prepare, ResolveProfile, ModelPlain, ModelFromCache, ModelFetched,
           ModelFetchFails, Answered, Succeed, TokenInvalid, Judged, Working
  <2>2. Attempts /\ hop \in 0 .. Proxies - 1
    BY DEF CallInv, Attempts
  <2> QED BY <2>1, <2>2, AttemptsNext
<1>2. Blames'
  <2>1. CASE Succeed
    <3>1. slot \in Cred
      BY <2>1 DEF Succeed, Judged, ControlInv, SlotCoversUse, ControlTypes
    <3> QED BY <2>1, <3>1, BlamesReset DEF Succeed, CallInv
  <2>2. CASE ~Succeed
    <3>1. UNCHANGED poolVars
      BY <2>2 DEF Acquire, Prepare, ResolveProfile, ModelPlain, ModelFromCache, ModelFetched,
           ModelFetchFails, Answered, TokenInvalid, poolVars, sharedVars
    <3> QED BY <3>1 DEF poolVars, Blames, CallInv
  <2> QED BY <2>1, <2>2
<1>3. Selected'
  <2>1. CASE TokenInvalid
    <3>1. slot \in Cred
      BY <2>1 DEF TokenInvalid, Judged, ControlInv, SlotCoversUse, ControlTypes
    <3> QED BY <2>1, <3>1 DEF TokenInvalid, CallInv, Selected, sharedVars
  <2>2. CASE ~TokenInvalid
    BY <2>2 DEF Acquire, Prepare, ResolveProfile, ModelPlain, ModelFromCache, ModelFetched,
           ModelFetchFails, Answered, Succeed, CallInv, Selected, sharedVars
  <2> QED BY <2>1, <2>2
<1> QED BY <1>1, <1>2, <1>3 DEF CallInv

\* The steps that end an attempt, or the call.
LEMMA EndAttempt ==
  ASSUME ControlInv, CallInv,
         \/ AcquireBusy \/ AcquireFails \/ NoEndpoint \/ NoClient \/ SendFails
         \/ OutOfQuota \/ Refused \/ Denied
         \/ Refreshed \/ NotRefreshed \/ Transient \/ WakeUp,
         UNCHANGED <<route, reply>>
  PROVE  CallInv'
<1>1. step \in Working \cup {"acquire"}
  BY DEF AcquireBusy, AcquireFails, NoEndpoint, NoClient, SendFails, OutOfQuota, Refused,
         Denied, Refreshed, NotRefreshed, Transient, WakeUp, Judged, Working
<1>2. \/ NextAttempt \/ GiveUp \/ BackOffOrEnd
      \/ /\ step' \in Working /\ attempt' = attempt /\ hop' \in 0 .. Proxies - 1
         /\ UNCHANGED <<body, asked, verdict>>
  <2>1. CASE SendFails
    <3>1. CASE hop + 1 < Proxies
      <4>1. hop + 1 \in 0 .. Proxies - 1
        BY <3>1, ProviderAssumption DEF CallInv, Attempts
      <4> QED BY <2>1, <3>1, <4>1 DEF SendFails, Working
    <3> QED BY <2>1, <3>1 DEF SendFails
  <2>2. CASE ~SendFails
    BY <2>2 DEF AcquireBusy, AcquireFails, NoEndpoint, NoClient, OutOfQuota, Refused,
         Denied, Refreshed, NotRefreshed, Transient, WakeUp, FailOver
  <2> QED BY <2>1, <2>2
<1>3. Attempts'
  BY <1>1, <1>2, AttemptsNext DEF CallInv
<1>4. \/ UNCHANGED poolVars
      \/ slot \in Cred /\ (FailureCounted(slot) \/ QuotaCounted(slot))
  BY DEF AcquireBusy, AcquireFails, NoEndpoint, NoClient, SendFails, OutOfQuota, Refused,
         Denied, Refreshed, NotRefreshed, Transient, WakeUp, Judged, poolVars, sharedVars,
         ControlInv, SlotCoversUse, ControlTypes
<1>5. Blames'
  <2>1. CASE UNCHANGED poolVars
    BY <2>1 DEF poolVars, Blames, CallInv
  <2> QED BY <1>4, <2>1, BlamesCounted DEF CallInv
<1>6. UNCHANGED <<forced, lacking, cache>>
  BY DEF AcquireBusy, AcquireFails, NoEndpoint, NoClient, SendFails, OutOfQuota, Refused,
         Denied, Refreshed, NotRefreshed, Transient, WakeUp, sharedVars
<1>7. asked' = asked /\ body' \in {body, "original"} /\ verdict' \in {verdict, "none"}
  <2>1. CASE NextAttempt
    BY <2>1 DEF NextAttempt, Rest
  <2>2. CASE GiveUp
    BY <2>2 DEF GiveUp, Rest
  <2>3. CASE BackOffOrEnd /\ ~NextAttempt
    BY <2>3 DEF BackOffOrEnd
  <2> QED BY <1>2, <2>1, <2>2, <2>3
<1>8. Selected'
  BY <1>6, <1>7 DEF CallInv, Selected
<1> QED BY <1>3, <1>5, <1>8 DEF CallInv

\* Other calls blame and restore credentials too.
LEMMA OthersCall ==
  ASSUME CallInv, RetryEnv, UNCHANGED <<route, reply>>
  PROVE  CallInv'
<1>1. UNCHANGED <<step, asked, attempt, hop, body, forced, verdict, lacking>>
      /\ cache' \in {"fresh", "stale"}
  BY DEF RetryEnv, OthersSwitchOff, OthersSwitchOn, ListModels, ModelsExpire, Local, CallInv, Selected
<1>2. Attempts' /\ Selected'
  BY <1>1 DEF CallInv, Attempts, Selected
<1>3. Blames'
  <2>1. CASE UNCHANGED poolVars
    BY <2>1 DEF poolVars, Blames, CallInv
  <2>2. CASE \E c \in Cred : OthersSwitchOn(c)
    <3>1. PICK c \in Cred : /\ failures' = [failures EXCEPT ![c] = 0]
                            /\ off' = off \ {c}
      BY <2>2 DEF OthersSwitchOn
    <3> QED BY <3>1, BlamesReset DEF CallInv
  <2>3. CASE \E c \in Cred : OthersSwitchOff(c)
    <3>1. PICK c \in Cred : QuotaCounted(c)
      BY <2>3 DEF OthersSwitchOff, QuotaCounted
    <3> QED BY <3>1, BlamesCounted DEF CallInv
  <2> QED BY <2>1, <2>2, <2>3 DEF RetryEnv, ListModels, ModelsExpire
<1> QED BY <1>2, <1>3 DEF CallInv

\* The handler starts and ends the call.
LEMMA HandlerCall ==
  ASSUME CallInv, ControlInv,
         \/ Reject \/ NoQuery \/ Fail \/ ReadWhole \/ ReadFails \/ Disconnect
         \/ McpAnswered \/ AnswerSearch \/ SearchFails
         \/ \E r \in Routes, m \in {"name", "id", "none"} : Accept(r, m)
         \/ \E damages \in Bodies : Connect(damages)
  PROVE  CallInv'
<1>0. MaxRetries \in Nat /\ 0 \in 0 .. MaxRetries /\ 0 \in 0 .. Proxies - 1
  BY MaxRetriesNat, ProviderAssumption
<1>1. UNCHANGED sharedVars
  BY ZenonT(40) DEF Reject, NoQuery, Fail, McpAnswered, AnswerSearch, SearchFails,
         ReadWhole, ReadFails, Disconnect, Accept, Connect, CallReturned, Call, retryVars, sharedVars
<1>2. Blames' /\ lacking' \subseteq Enterprise /\ cache' \in {"fresh", "stale"}
  BY <1>1 DEF CallInv, Blames, Selected, sharedVars
<1>3. Attempts'
  <2>1. CASE CallReturned
    BY <1>0, <2>1 DEF CallReturned, Attempts, Working
  <2>2. CASE \E r \in Routes, m \in {"name", "id", "none"} : Accept(r, m)
    <3>1. /\ step = "idle" /\ UNCHANGED <<attempt, hop>>
          /\ step' = IF MaxRetries > 0 THEN "acquire" ELSE "failed"
      BY <2>2 DEF Accept, Call
    <3>2. attempt = 0 /\ hop \in 0 .. Proxies - 1
      BY <3>1 DEF CallInv, Attempts
    <3> QED BY <1>0, <3>1, <3>2 DEF Attempts, Working
  <2>3. CASE UNCHANGED <<step, attempt, hop>>
    BY <2>3 DEF CallInv, Attempts
  <2> QED BY <2>1, <2>2, <2>3, ZenonT(40)
          DEF Reject, NoQuery, Fail, McpAnswered, AnswerSearch, SearchFails, ReadWhole,
              ReadFails, Disconnect, Connect, retryVars
<1>4. /\ asked' \in {"name", "id", "none"} /\ forced' \subseteq Cred
      /\ body' \in {"original", "listed", "default"} /\ verdict' \in Verdict \cup {"none"}
  <2>1. CASE CallReturned
    BY <2>1 DEF CallReturned
  <2>2. CASE \E r \in Routes, m \in {"name", "id", "none"} : Accept(r, m)
    BY <2>2 DEF Accept, Call, CallInv, Selected
  <2>3. CASE UNCHANGED <<asked, forced, body, verdict>>
    BY <2>3 DEF CallInv, Selected
  <2> QED BY <2>1, <2>2, <2>3, ZenonT(40)
          DEF Reject, NoQuery, Fail, McpAnswered, AnswerSearch, SearchFails, ReadWhole,
              ReadFails, Disconnect, Connect, retryVars
<1>5. route' \in Routes \cup {"none"}
  <2>1. UNCHANGED route \/ route' \in Routes
    BY ZenonT(40) DEF Reject, NoQuery, Fail, McpAnswered, AnswerSearch, SearchFails,
                      SearchResults, ReadWhole, ReadFails, Disconnect, Accept, Connect
  <2> QED BY <2>1 DEF CallInv, Selected
<1>6. reply' \in {0, 200, 400, 429, 500, 502, 503}
  <2>1. CASE \E damages \in Bodies : Connect(damages)
    BY <2>1 DEF Connect
  <2>2. CASE Reject \/ NoQuery
    BY <2>2, ZenonT(40) DEF Reject, NoQuery
  <2>3. CASE Fail \/ AnswerSearch \/ SearchFails
    BY <2>3, ZenonT(40) DEF Fail, AnswerSearch, SearchFails, SearchResults
  <2>4. CASE ReadWhole \/ ReadFails
    BY <2>4, ZenonT(40) DEF ReadWhole, ReadFails
  <2>5. CASE UNCHANGED reply
    BY <2>5 DEF CallInv, Selected
  <2> QED BY <2>1, <2>2, <2>3, <2>4, <2>5 DEF Disconnect, Accept, McpAnswered
<1> QED BY <1>2, <1>3, <1>4, <1>5, <1>6 DEF CallInv, Selected

LEMMA CallNext == ControlInv /\ CallInv /\ [Next]_vars => CallInv'
<1> SUFFICES ASSUME ControlInv, CallInv, [Next]_vars PROVE CallInv'
  OBVIOUS
<1>1. CASE CallStep
  <2>1. RetryStep /\ UNCHANGED <<route, reply>>
    BY <1>1 DEF CallStep, handlerVars
  <2> QED BY <2>1, SameAttempt, EndAttempt DEF RetryStep
<1>2. CASE OtherCalls
  BY <1>2, OthersCall DEF OtherCalls, handlerVars
<1>3. CASE \/ Reject \/ NoQuery \/ Fail \/ ReadWhole \/ ReadFails \/ Disconnect
           \/ McpAnswered \/ AnswerSearch \/ SearchFails
           \/ \E r \in Routes, m \in {"name", "id", "none"} : Accept(r, m)
           \/ \E damages \in Bodies : Connect(damages)
  BY <1>3, HandlerCall
<1>4. CASE \/ \E size \in ChunkSizes : ReadChunk(size)
           \/ UpstreamDone \/ UpstreamError \/ Ping \/ Drain \/ OtherEntry \/ AdminLog
           \/ UNCHANGED vars
  <2>1. UNCHANGED <<step, asked, attempt, hop, body, forced, verdict, sharedVars, route, reply>>
    BY <1>4 DEF ReadChunk, UpstreamDone, UpstreamError, Finish, Ping, Drain, OtherEntry, AdminLog,
                vars, retryVars, handlerVars, sharedVars
  <2> QED BY <2>1 DEF sharedVars, CallInv, Attempts, Blames, Selected
<1> QED BY <1>1, <1>2, <1>3, <1>4 DEF Next, Respond

-----------------------------------------------------------------------------
(* The log within its capacity. *)
Fits(l) == Len(l.entries) <= l.capacity

LEMMA TrimmedFits ==
  ASSUME NEW S, NEW s \in Seq(S), NEW n \in Nat \ {0}
  PROVE  Len(Trimmed(s, n)) <= n
<1>1. CASE Len(s) <= n
  BY <1>1 DEF Trimmed
<1>2. CASE ~(Len(s) <= n)
  <2>1. Trimmed(s, n) = SubSeq(s, Len(s) - n + 1, Len(s)) /\ Len(Trimmed(s, n)) = n
    BY <1>2 DEF Trimmed
  <2> QED BY <2>1
<1> QED BY <1>1, <1>2

LEMMA RecordedFits ==
  ASSUME NEW l \in Logs, NEW b \in BOOLEAN, NEW c \in Cred \cup {NoCred}
  PROVE  Fits(Recorded(l, Entry(b, c)))
<1> DEFINE e == [Entry(b, c) EXCEPT !.id = l.next]
           s == Append(l.entries, e)
           t == Trimmed(s, l.capacity)
           r == Recorded(l, Entry(b, c))
<1>1. l.capacity \in Nat \ {0} /\ l.entries \in Seq(LogEntries) /\ l.next \in Nat
  BY LogIs
<1>2. e \in LogEntries
  BY <1>1, EntryIs
<1>3. r = [l EXCEPT !.next = @ + 1, !.entries = t]
  BY DEF Recorded
<1> HIDE DEF e, r
<1>4. s \in Seq(LogEntries)
  BY <1>1, <1>2
<1> HIDE DEF s
<1>5. Len(t) <= l.capacity
  BY <1>1, <1>4, TrimmedFits
<1> HIDE DEF t
<1>6. r.entries = t /\ r.capacity = l.capacity
  BY <1>3 DEF Logs
<1> QED BY <1>5, <1>6 DEF Fits, r

LEMMA UpdatedFits ==
  ASSUME NEW l \in Logs, Fits(l), NEW id, NEW fields
  PROVE  Fits(Updated(l, id, fields))
<1> DEFINE f == [i \in DOMAIN l.entries |-> IF l.entries[i].id = id
                                            THEN Filled(l.entries[i], fields)
                                            ELSE l.entries[i]]
           u == Updated(l, id, fields)
<1>1. DOMAIN l.entries = 1 .. Len(l.entries) /\ Len(l.entries) \in Nat
  BY LogIs
<1>2. Len(f) = Len(l.entries)
  BY <1>1
<1>3. u = [l EXCEPT !.entries = f]
  BY DEF Updated
<1> HIDE DEF f, u
<1>4. u.entries = f /\ u.capacity = l.capacity
  BY <1>3 DEF Logs
<1> QED BY <1>2, <1>4 DEF Fits, u

LEMMA ManagedFits ==
  ASSUME NEW l \in Logs, NEW r,
         r \in {Cleared(l)} \cup {Resized(l, n) : n \in {0, MAX_CAPACITY + 1}}
  PROVE  Fits(r)
<1>1. CASE r = Cleared(l)
  <2>1. r = [l EXCEPT !.entries = <<>>]
    BY <1>1 DEF Cleared
  <2>2. r.entries = <<>> /\ r.capacity = l.capacity /\ l.capacity \in Nat
    BY <2>1 DEF Logs
  <2> QED BY <2>2 DEF Fits
<1>2. ASSUME NEW n \in {0, MAX_CAPACITY + 1}, r = Resized(l, n) PROVE Fits(r)
  <2> DEFINE t == Trimmed(l.entries, Clamp(n))
  <2>1. Clamp(n) \in Nat \ {0}
    BY LogAssumption DEF Clamp
  <2>2. Len(t) <= Clamp(n)
    BY <2>1, LogIs, TrimmedFits
  <2> HIDE DEF t
  <2>3. r = [l EXCEPT !.capacity = Clamp(n), !.entries = t]
    BY <1>2 DEF Resized, t
  <2>4. r.entries = t /\ r.capacity = Clamp(n)
    BY <2>3 DEF Logs
  <2> QED BY <2>2, <2>4 DEF Fits
<1> QED BY <1>1, <1>2

LEMMA FitsNext == LogInv /\ ControlInv /\ Fits(log) /\ [Next]_vars => Fits(log')
<1> SUFFICES ASSUME LogInv, ControlInv, Fits(log), [Next]_vars PROVE Fits(log')
  OBVIOUS
<1>0. log \in Logs /\ slot \in Cred \cup {NoCred} /\ TRUE \in BOOLEAN /\ FALSE \in BOOLEAN
  BY DEF LogInv, ControlInv, ControlTypes
<1>1. CASE NoQuery \/ Fail \/ AnswerSearch \/ SearchFails \/ OtherEntry
  <2>1. PICK b \in BOOLEAN : log' = Recorded(log, Entry(b, NoCred))
    BY <1>1 DEF NoQuery, Fail, AnswerSearch, SearchFails, SearchResults, OtherEntry, LogEntry
  <2> QED BY <1>0, <2>1, RecordedFits
<1>2. CASE \E damages \in Bodies : Connect(damages)
  <2> DEFINE l == Recorded(log, Entry(TRUE, slot))
  <2>1. log' = l \/ log' = Updated(l, log.next, {"first"})
    BY <1>2 DEF Connect
  <2>2. l \in Logs /\ Fits(l)
    <3>1. Consecutive(log)
      BY DEF LogInv
    <3> QED BY <1>0, <3>1, RecordedIs, RecordedFits
  <2> HIDE DEF l
  <2> QED BY <2>1, <2>2, UpdatedFits
<1>3. CASE \/ \E size \in ChunkSizes : ReadChunk(size)
           \/ UpstreamDone \/ UpstreamError \/ ReadWhole
  <2>1. log' = log \/ \E fields : log' = Updated(log, mine, fields)
    BY <1>3 DEF ReadChunk, UpstreamDone, UpstreamError, Finish, ReadWhole
  <2> QED BY <1>0, <2>1, UpdatedFits
<1>4. CASE AdminLog
  BY <1>0, <1>4, ManagedFits DEF AdminLog
<1>5. CASE \/ Reject \/ CallStep \/ OtherCalls \/ McpAnswered \/ Ping \/ Drain \/ ReadFails \/ Disconnect
           \/ \E r \in Routes, m \in {"name", "id", "none"} : Accept(r, m)
           \/ UNCHANGED vars
  <2>1. log' = log
    BY <1>5 DEF Reject, CallStep, OtherCalls, McpAnswered, Ping, Drain, ReadFails, Disconnect, Accept, vars
  <2> QED BY <2>1
<1> QED BY <1>1, <1>2, <1>3, <1>4, <1>5 DEF Next, Respond

\* Every variable of a request stays in its type, every counter of it within
\* its bound, and its entry is one the log has numbered (RequestLifecycle's
\* TypeOK).
THEOREM Types == Spec => []TypeOK
<1> DEFINE Inv == ControlInv /\ BodyInv /\ CallInv /\ LogInv /\ Fits(log)
<1>1. Init => Inv
  <2>1. Init => Fits(log)
    BY LogAssumption DEF Init, Fits, NewLog, Clamp
  <2> QED BY <2>1, ControlInit, BodyInit, CallInit, LogInit
<1>2. Inv /\ [Next]_vars => Inv'
  BY ControlNext, BodyNext, CallNext, LogNext, FitsNext
<1>3. Inv => TypeOK
  <2> SUFFICES ASSUME Inv PROVE TypeOK
    OBVIOUS
  <2>1. /\ decoder.state \in {"Ready", "Recovering", "Stopped"}
        /\ decoder.errors \in 0 .. MaxErrors
        /\ Len(decoder.buffer) <= MaxBuffer
    BY SoundParts DEF BodyInv, Flowing
  <2>2. Len(log.entries) <= log.capacity /\ mine < log.next
    BY DEF LogInv, Fits
  <2>3. ended \in {"no", "done", "error"}
    BY DEF LogInv, Stages
  <2>4. step \in CallSteps \cup {"idle"}
        /\ phase \in {"new", "calling", "searching", "reading", "ending", "closed"}
    BY DEF ControlInv, CallWithHandler
  <2>5. kind \in {"api", "mcp"} /\ slot \in Cred \cup {NoCred} /\ off \subseteq Cred
    BY DEF ControlInv, ControlTypes
  <2> QED BY <2>1, <2>2, <2>3, <2>4, <2>5
          DEF CallInv, Attempts, Blames, Selected, TypeOK, CallSteps, Working
<1> QED BY <1>1, <1>2, <1>3, PTL DEF Spec
=============================================================================
