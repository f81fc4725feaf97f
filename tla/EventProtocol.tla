--------------------------- MODULE EventProtocol ----------------------------
(***************************************************************************)
(* What a client of the Messages API may expect of a stream of events, as  *)
(* the comment of SseStateManager lists it (anthropic/stream.rs:288):      *)
(* one message_start, first; every block is started once, then gets its    *)
(* deltas, then is stopped once; one message_delta, when every block is    *)
(* stopped; message_stop last.  The automaton observes one event after another. *)
(***************************************************************************)
EXTENDS Integers, SequencesExt

(* The kinds of events; `block` is the index of a content block.            *)
Silent == [phase |-> "silent", open |-> {}, closed |-> {}]
Refuse(p) == [p EXCEPT !.phase = "refused"]

Observe(p, e) ==
  CASE e.event = "message_start" /\ p.phase = "silent" ->
         [p EXCEPT !.phase = "content"]
    [] e.event = "block_start" /\ p.phase = "content"
         /\ e.block \notin p.open \cup p.closed ->
         [p EXCEPT !.open = @ \cup {e.block}]
    [] e.event = "block_delta" /\ p.phase = "content" /\ e.block \in p.open -> p
    [] e.event = "block_stop" /\ p.phase = "content" /\ e.block \in p.open ->
         [p EXCEPT !.open = @ \ {e.block}, !.closed = @ \cup {e.block}]
    [] e.event = "message_delta" /\ p.phase = "content" /\ p.open = {} ->
         [p EXCEPT !.phase = "closing"]
    [] e.event = "message_stop" /\ p.phase = "closing" ->
         [p EXCEPT !.phase = "stopped"]
    [] OTHER -> Refuse(p)

Observed(events) ==
  LET after[i \in 0 .. Len(events)] ==
        IF i = 0 THEN Silent ELSE Observe(after[i - 1], events[i])
  IN  after[Len(events)]

Accepted(events) == Observed(events).phase # "refused"
Complete(events) == Observed(events).phase = "stopped"
=============================================================================
