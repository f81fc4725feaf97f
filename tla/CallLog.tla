------------------------------- MODULE CallLog -------------------------------
(***************************************************************************)
(* The in-memory history of requests (anthropic/call_log.rs): a ring of    *)
(* entries, each under a process-wide id, which the handler that created   *)
(* an entry fills in as its request goes on.  Every operation is one       *)
(* section under the write lock.                                           *)
(***************************************************************************)
EXTENDS Integers, SequencesExt

CONSTANT MAX_CAPACITY

ASSUME LogAssumption == MAX_CAPACITY \in Nat \ {0}

\* A log, as CallLog::new leaves it.
Clamp(n) == IF n < 1 THEN 1 ELSE IF n > MAX_CAPACITY THEN MAX_CAPACITY ELSE n

NewLog(n) == [entries |-> <<>>, capacity |-> Clamp(n), next |-> 1]

\* A mutant: room is made before the new entry is counted.
TrimmedEarly(entries, capacity) ==
  IF Len(entries) <= capacity + 1 THEN entries ELSE Tail(entries)

\* Drop the oldest entries above the capacity.
Trimmed(entries, capacity) ==
  IF Len(entries) <= capacity THEN entries
  ELSE SubSeq(entries, Len(entries) - capacity + 1, Len(entries))

\* record: the entry gets the next id and goes to the back.
Recorded(log, entry) ==
  [log EXCEPT !.next = @ + 1,
              !.entries = Trimmed(Append(@, [entry EXCEPT !.id = log.next]), log.capacity)]

\* The fields of an entry that have been given a value.
Filled(entry, fields) ==
  [entry EXCEPT !.first = @ \/ "first" \in fields, !.total = @ \/ "total" \in fields,
                !.input = @ \/ "input" \in fields, !.reported = @ \/ "reported" \in fields]

\* A mutant: the entry is taken to be the newest one.
UpdatedLast(log, id, fields) ==
  [log EXCEPT !.entries =
     [i \in DOMAIN @ |-> IF i = Len(@) THEN Filled(@[i], fields) ELSE @[i]]]

\* update_timing, update_input_tokens, update_reported_input_tokens: the
\* entry with that id is filled in, if it is still there.
Updated(log, id, fields) ==
  [log EXCEPT !.entries =
     [i \in DOMAIN @ |-> IF @[i].id = id THEN Filled(@[i], fields) ELSE @[i]]]

Cleared(log) == [log EXCEPT !.entries = <<>>]

Resized(log, n) ==
  [log EXCEPT !.capacity = Clamp(n), !.entries = Trimmed(@, Clamp(n))]
=============================================================================
