----------------------------- MODULE EventDecoder -----------------------------
(***************************************************************************)
(* The AWS event-stream decoder: kiro/parser/decoder.rs over               *)
(* kiro/parser/frame.rs.  A byte stream is a sequence of cells; a frame is *)
(* FrameSize of them, the first one its prelude.  A cell shows what        *)
(* parse_frame would read with that cell at the head of the buffer:        *)
(*   len   the total length it declares, in cells; 0 is out of range       *)
(*   flaw  what the checks find once that much is there: "none",           *)
(*         "prelude" (prelude CRC), "message" (message CRC, length or name *)
(*         of a header), "header" (any other error in a header)            *)
(* and which frame and part it is.  Damage is one of                       *)
(*   "none"      the frame is intact                                       *)
(*   "content"   the frame is intact, its event cannot be parsed           *)
(*   "message", "header"   the boundary is right, the data damaged         *)
(*   "absurd"    the declared length is out of range                       *)
(*   "long"      the declared length is in range but too long              *)
(*   "shifted"   out of range, and bytes behind it read as a length        *)
(*   "stray"     one cell of garbage that belongs to no frame              *)
(* What is constant here is that a frame is longer than the errors allowed *)
(* in a row: in the code, at least 16 bytes against 5.                     *)
(***************************************************************************)
EXTENDS Integers, SequencesExt

CONSTANTS FrameSize,   \* cells of a frame
          MaxErrors,   \* DEFAULT_MAX_ERRORS
          MaxBuffer    \* DEFAULT_MAX_BUFFER_SIZE, in cells

ASSUME DecoderAssumption ==
  /\ MaxErrors \in Nat \ {0}
  /\ FrameSize \in Nat /\ FrameSize > MaxErrors
  /\ MaxBuffer \in Nat

BoundaryKept == {"none", "content", "message", "header"}

Cell(n, part, damage) ==
  [frame |-> n, part |-> part, damage |-> damage,
   len  |-> CASE part = 1 /\ damage \in BoundaryKept -> FrameSize
              [] part = 1 /\ damage = "long"         -> FrameSize + 1
              [] part = 2 /\ damage = "shifted"      -> FrameSize
              [] OTHER                               -> 0,
   flaw |-> CASE part = 1 /\ damage \in {"none", "content"}   -> "none"
              [] part = 1 /\ damage \in {"message", "header"} -> damage
              [] OTHER                                        -> "prelude"]

FrameCells(n, damage) ==
  [part \in 1 .. (IF damage = "stray" THEN 1 ELSE FrameSize) |-> Cell(n, part, damage)]

NewDecoder == [buffer |-> <<>>, state |-> "Ready", errors |-> 0, out |-> <<>>]

\* feed: a chunk that does not fit is refused whole; one that is accepted
\* ends a recovery.
Overflows(d, chunk) == Len(d.buffer) + Len(chunk) > MaxBuffer

Feed(d, chunk) ==
  IF Overflows(d, chunk) THEN d
  ELSE [d EXCEPT !.buffer = @ \o chunk,
                 !.state  = IF @ = "Recovering" THEN "Ready" ELSE @]

\* The message CRC covers all cells of the frame, in their order.
Whole(buffer) ==
  \A i \in 1 .. FrameSize : buffer[i].frame = buffer[1].frame /\ buffer[i].part = i

\* parse_frame: the length is judged first, the CRCs only when that many
\* bytes are there, the headers last (HeaderFlaw).
HeaderFlaw(cell) == cell.flaw

Parse(buffer) ==
  IF buffer = <<>> THEN "more"
  ELSE LET head == buffer[1]
       IN  IF head.len = 0 THEN "prelude"
           ELSE IF Len(buffer) < head.len THEN "more"
           ELSE IF head.flaw = "prelude" THEN "prelude"
           ELSE IF ~Whole(buffer) THEN "message"
           ELSE HeaderFlaw(head)

\* A mutant: the declared length is trusted after any error.
RecoveredWhole(buffer, error) ==
  LET skip == IF buffer[1].len > 0 THEN buffer[1].len ELSE 1
  IN  SubSeq(buffer, skip + 1, Len(buffer))

\* try_recover: the whole frame after damage the code calls one of the data,
\* one byte after any other error.
Recovered(buffer, error) ==
  LET skip == IF error = "message" THEN buffer[1].len ELSE 1
  IN  SubSeq(buffer, skip + 1, Len(buffer))

\* Event::from_frame: the reader passes over a frame whose event it cannot
\* make out.
EventOf(cell) == IF cell.damage = "content" THEN <<>> ELSE <<cell.frame>>

\* decode, called by the iterator unless the decoder is stopped or recovering.
Decode(d) ==
  LET result == Parse(d.buffer)
  IN  CASE result = "more" -> [d EXCEPT !.state = "Ready"]
        [] result = "none" ->
             [d EXCEPT !.buffer = SubSeq(@, FrameSize + 1, Len(@)),
                       !.state = "Ready", !.errors = 0,
                       !.out = @ \o EventOf(d.buffer[1])]
        [] OTHER ->
             IF d.errors + 1 >= MaxErrors
               THEN [d EXCEPT !.errors = @ + 1, !.state = "Stopped"]
               ELSE [d EXCEPT !.errors = @ + 1, !.state = "Recovering",
                              !.buffer = Recovered(@, result)]

DecodeNext(d) == IF d.state \in {"Stopped", "Recovering"} THEN d ELSE Decode(d)

\* decode_iter, run to its end: each round takes a frame, stops or waits.
DecodeIter(d) ==
  LET rounds == Len(d.buffer) \div FrameSize + 2
      round[i \in 0 .. rounds] ==
        IF i = 0 THEN [d EXCEPT !.out = <<>>] ELSE DecodeNext(round[i - 1])
  IN  round[rounds]

\* One round of the reader: feed, and decode what there is.
Absorb(d, chunk) == DecodeIter(Feed(d, chunk))
=============================================================================
