----------------------------- MODULE PromptCache -----------------------------
(***************************************************************************)
(* Requests that share the cache tracker and the optimizer configuration,  *)
(* from the estimate of their input to the usage their client is told, on  *)
(* the three paths of a response: streamed (StreamContext), read as a      *)
(* whole (handle_non_stream_request) and buffered (BufferedStreamContext). *)
(* The configuration is locked for each reading of it only, so it may      *)
(* change between two readings of one report.                              *)
(***************************************************************************)
EXTENDS UsageReport

CONSTANTS
  Requests, Credentials,
  Bodies,       \* what clients send: [model, tools, system, messages, estimate]
  Jitters,      \* prefix_hit_input_jitter(), 1 .. 1000
  UsageEvents,  \* what the upstream reports
  Configs,      \* optimizer configurations an administrator sets
  Started,      \* those the program may start with
  MaxEvents,    \* bound: usage events of one response
  MaxChanges,   \* bound: changes of the configuration
  MaxTime       \* bound: the clock

I32 == -MaxInt - 1 .. MaxInt
Count == 0 .. MaxInt
Parts == [text : DOMAIN TokensOf, ttl : {0, Short, Long}]

\* get_i32 (metadata.rs:106) clamps the parts to 0 .. i32::MAX.
UsageEvent ==
  [kind : {"context"}, tokens : I32]
    \cup [kind : {"usage"}, parts : {<<>>} \cup (Count \X Count \X Count), rest : I32]

ASSUME PromptCacheAssumption ==
  /\ \A body \in Bodies : /\ body.tools \in Seq(Parts) /\ body.system \in Seq(Parts)
                           /\ body.messages \in Seq(Seq(Parts)) /\ body.estimate \in I32
  /\ Jitters \subseteq Nat \ {0} /\ UsageEvents \subseteq UsageEvent
  /\ Configs \subseteq Configuration /\ Started \subseteq Configuration

VARIABLES
  accounting,   \* prompt_cache_accounting_enabled, read once at start-up
  now, entries, optimizer,
  req,          \* [Requests -> what the handler knows]
  served,       \* history: the requests that have updated the tracker
  changes

vars == <<accounting, now, entries, optimizer, req, served, changes>>

Idle == [pc |-> "idle"]
Gone == [pc |-> "gone"]

Init ==
  /\ accounting \in BOOLEAN
  /\ now = 0
  /\ entries = {}
  /\ optimizer \in Started
  /\ req = [r \in Requests |-> Idle]
  /\ served = {}
  /\ changes = 0

-----------------------------------------------------------------------------
\* The profile of each body, with the handler's estimate of its input.
Profiles == [body \in Bodies |-> Profile(body, body.estimate)]
ProfileOf(q) == Profiles[q.body]

\* Bound: while an answer is read and reported, nobody arrives and no time passes.
Quiet == \A r \in Requests : req[r].pc \in {"idle", "sent", "connected", "open", "gone"}

\* The handler estimates the input and looks the prefix up for credential 0,
\* which has no entries: only the pruning is left of it.
Arrive(r) ==
  \E body \in Bodies :
    /\ req[r] = Idle /\ Quiet
    /\ req' = [req EXCEPT ![r] =
         [pc |-> "sent", body |-> body, path |-> None, estimate |-> body.estimate,
          cred |-> None, at |-> None, cache |-> <<>>,
          events |-> 0, input |-> body.estimate, context |-> None, upstream |-> None,
          parts |-> <<>>, bypass |-> FALSE, fields |-> <<>>, billed |-> None,
          touched |-> FALSE, reports |-> <<>>]]
    /\ entries' = IF accounting THEN Pruned(entries, Profiles[body], now) ELSE entries
    /\ UNCHANGED <<accounting, now, optimizer, served, changes>>

\* The provider returns the answer of a credential: compute() ...
Connect(r) ==
  /\ req[r].pc = "sent" /\ accounting
  /\ \E c \in Credentials, j \in Jitters :
       req' = [req EXCEPT ![r] = [@ EXCEPT !.pc = "connected", !.cred = c, !.at = now,
                 !.cache = <<Computed(entries, c, ProfileOf(req[r]), now, j)>>]]
  /\ entries' = Pruned(entries, ProfileOf(req[r]), now)
  /\ UNCHANGED <<accounting, now, optimizer, served, changes>>

ConnectUncounted(r) ==
  /\ req[r].pc = "sent" /\ ~accounting
  /\ req' = [req EXCEPT ![r].pc = "open"]
  /\ UNCHANGED <<accounting, now, entries, optimizer, served, changes>>

\* ... and update(), in a section of its own.
Record(r) ==
  /\ req[r].pc = "connected"
  /\ entries' = Updated(entries, req[r].cred, ProfileOf(req[r]), now)
  /\ served' = served \cup {[body |-> req[r].body, cred |-> req[r].cred, at |-> req[r].at,
                             time |-> now, paid |-> req[r].cache[1].creation > 0]}
  /\ req' = [req EXCEPT ![r].pc = "open", ![r].at = None]
  /\ UNCHANGED <<accounting, now, optimizer, changes>>

\* The call fails, or the client leaves while the handler waits.
Abandon(r) ==
  /\ req[r].pc \in {"sent", "open", "reading"}
  /\ req' = [req EXCEPT ![r] = Gone]
  /\ UNCHANGED <<accounting, now, entries, optimizer, served, changes>>

-----------------------------------------------------------------------------
(* A usage event is a percentage of the context window, turned into tokens, *)
(* or a tokenUsage with parts (<<uncached, read, write>>, or <<>>) and the  *)
(* rest of its total over its output.                                       *)
InputOf(e) ==
  LET sum == IF e.parts = <<>> THEN 0 ELSE Saturated(Saturated(e.parts[1] + e.parts[2]) + e.parts[3])
  IN  IF sum > 0 THEN sum ELSE IF e.rest > 0 THEN e.rest ELSE None

UpstreamCache(parts) ==
  [NoCache EXCEPT !.read = Most(parts[2], 0), !.creation = Most(parts[3], 0), !.known = FALSE]

\* process_kiro_event: a tokenUsage replaces the estimate, too.
Streamed(q, e) ==
  LET i == InputOf(e)
      counted == IF i = None THEN q
                 ELSE [q EXCEPT !.input = i, !.context = i, !.upstream = i]
  IN  IF e.parts = <<>> THEN counted ELSE [counted EXCEPT !.cache = <<UpstreamCache(e.parts)>>]

\* handle_non_stream_request keeps the estimate and the last tokenUsage.
Collected(q, e) == [q EXCEPT !.upstream = InputOf(e), !.parts = e.parts]

Heard(q) == [q EXCEPT !.events = @ + 1]

\* A percentage counts until a tokenUsage has told the input.
Received(q, e) ==
  IF e.kind = "context"
  THEN IF q.upstream = None THEN [q EXCEPT !.context = e.tokens] ELSE q
  ELSE IF q.path = "whole" THEN Collected(q, e) ELSE Streamed(q, e)

\* Bound: an answer is read and reported at time 0 and while no other request is
\* under way.  It shares nothing with the others but the configuration and does
\* not look at the clock, so that its steps commute with all of theirs.
Alone(r) == now = 0 /\ \A x \in Requests \ {r} : req[x] \in {Idle, Gone}

\* The route and the stream flag of the request decide who reads the answer.
Respond(r) ==
  \E path \in Paths :
    /\ req[r].pc = "open" /\ Alone(r)
    /\ req' = [req EXCEPT ![r].pc = "reading", ![r].path = path]
    /\ UNCHANGED <<accounting, now, entries, optimizer, served, changes>>

Receive(r) ==
  \E e \in UsageEvents :
    /\ req[r].pc = "reading" /\ req[r].events < MaxEvents
    /\ req' = [req EXCEPT ![r] = Received(Heard(@), e)]
    /\ UNCHANGED <<accounting, now, entries, optimizer, served, changes>>

Close(r) ==
  /\ req[r].pc = "reading"
  /\ req' = [req EXCEPT ![r].pc = "bypass"]
  /\ UNCHANGED <<accounting, now, entries, optimizer, served, changes>>

-----------------------------------------------------------------------------
(* The report.  The buffered path makes it twice: StreamContext for the     *)
(* message_delta, and finish_and_get_all_events for the message_start.      *)
FinalInput(q) ==
  IF q.path = "whole" /\ q.upstream /= None THEN q.upstream
  ELSE IF q.context /= None THEN q.context ELSE q.input

FinalCache(q) ==
  IF q.path = "whole" /\ q.parts /= <<>> THEN <<UpstreamCache(q.parts)>>
  ELSE [i \in DOMAIN q.cache |-> Scaled(q.cache[i], q.input, FinalInput(q))]

DecideBypass(r) ==
  /\ req[r].pc = "bypass"
  /\ req' = [req EXCEPT ![r] =
       [@ EXCEPT !.pc = "fields", !.bypass = Bypass(optimizer, req[r].path, req[r].input)]]
  /\ UNCHANGED <<accounting, now, entries, optimizer, served, changes>>

\* The whole response bills before the cache fields are rewritten, a stream after.
RewriteFields(r) ==
  LET q == req[r]
      final == FinalInput(q)
      cache == FinalCache(q)
      Outcomes == IF q.bypass \/ cache = <<>> THEN {cache}
                 ELSE {<<c>> : c \in Fields(cache[1], final, optimizer, q.path)}
      BilledBy(fields) == IF fields = <<>> THEN final ELSE Billed(final, fields[1])
  IN  /\ q.pc = "fields"
      /\ \E fields \in Outcomes :
           req' = [req EXCEPT ![r] =
             [q EXCEPT !.pc = "input", !.fields = fields, !.touched = @ \/ fields /= cache,
                       !.billed = BilledBy(IF q.path = "whole" THEN cache ELSE fields)]]
      /\ UNCHANGED <<accounting, now, entries, optimizer, served, changes>>

\* The message_delta of the buffered path keeps its cache fields and gets the
\* second input.
RewriteInput(r) ==
  LET q == req[r]
      Outcomes == IF q.bypass THEN {q.billed} ELSE Inputs(q.billed, optimizer, q.path)
      again == q.path = "buffered" /\ q.reports = <<>>
  IN  /\ q.pc = "input"
      /\ \E input \in Outcomes :
           req' = [req EXCEPT ![r] =
             [q EXCEPT !.pc = IF again THEN "bypass" ELSE "done",
                       !.touched = @ \/ input /= q.billed,
                       !.reports = [i \in DOMAIN @ |-> [@[i] EXCEPT !.input = input]]
                                     \o <<[input |-> input, cache |-> q.fields]>>]]
      /\ UNCHANGED <<accounting, now, entries, optimizer, served, changes>>

Leave(r) ==
  /\ req[r].pc = "done"
  /\ req' = [req EXCEPT ![r] = Gone]
  /\ UNCHANGED <<accounting, now, entries, optimizer, served, changes>>

-----------------------------------------------------------------------------
\* Bound: a change while no answer is read is as good as one at the start of it.
SetOptimizer ==
  /\ changes < MaxChanges
  /\ ~Quiet
  /\ changes' = changes + 1
  /\ optimizer' \in Configs \ {optimizer}
  /\ UNCHANGED <<accounting, now, entries, req, served>>

Tick ==
  /\ now < MaxTime /\ Quiet
  /\ now' = now + 1
  /\ UNCHANGED <<accounting, entries, optimizer, req, served, changes>>

Next ==
  \/ \E r \in Requests :
       \/ Arrive(r) \/ Connect(r) \/ ConnectUncounted(r) \/ Record(r) \/ Respond(r)
       \/ Receive(r) \/ Close(r)
       \/ DecideBypass(r) \/ RewriteFields(r) \/ RewriteInput(r) \/ Leave(r) \/ Abandon(r)
  \/ SetOptimizer \/ Tick

Spec == Init /\ [][Next]_vars

-----------------------------------------------------------------------------
Usages(N) == [read : N, creation : N, m5 : N, h1 : N, known : BOOLEAN, jitter : Jitters \cup {0}]
CacheUsage == Usages(Count)

(* What the bounds and the sums below speak of: estimates and percentages that *)
(* are not negative, parts whose sum is an i32, and configured bounds that     *)
(* come through `as i32`.  The code enforces none of the three.                *)
InputsFit ==
  /\ \A body \in Bodies : body.estimate >= 0
  /\ \A e \in UsageEvents : e.kind = "context" => e.tokens >= 0

Sum(parts) == parts[1] + parts[2] + parts[3]
PartsFit ==
  \A e \in UsageEvents : e.kind = "usage" /\ e.parts /= <<>> => Sum(e.parts) <= MaxInt

RangeFits(range) == range[1] <= MaxInt /\ range[2] <= MaxInt
ConfigFits(config) ==
  /\ RangeFits(config.read) /\ RangeFits(config.write) /\ config.inputMax <= MaxInt
  /\ \A range \in config.readSegments \cup config.writeSegments : RangeFits(range)
ConfigsFit == \A config \in Configs \cup Started : ConfigFits(config)

\* Type invariant: the tracker is a map from credential and prefix to an expiry
\* (cache_tracker.rs:62), and every number a client is told is an i32, whatever is
\* scaled, multiplied and billed on the way.  Of estimates and percentages that are
\* not negative, a number below 0 is told only by a configured bound that is too
\* large for `as i32` (cache_rewriter.rs:253), and never where nothing was rewritten.
TypeOK ==
  /\ \A e, f \in entries : e.cred = f.cred /\ e.prefix = f.prefix => e = f
  /\ \A r \in Requests : req[r].pc = "done" =>
       LET Numbers == IF InputsFit /\ (ConfigsFit \/ ~req[r].touched) THEN Count ELSE I32
       IN  \A i \in DOMAIN req[r].reports :
             /\ req[r].reports[i].input \in Numbers
             /\ \A j \in DOMAIN req[r].reports[i].cache :
                  req[r].reports[i].cache[j] \in Usages(Numbers)

Points(body) == Profiles[body].points
Shares(s, body) ==
  \E p \in Recent(Points(body)), i \in DOMAIN Points(s.body) : Points(s.body)[i].prefix = p.prefix

\* Who has paid for a prefix reads it for the shortest time to live at least,
\* and what counts as a read was put there by a request of the same credential
\* within the longest (cache_tracker.rs:140, 206), although look-up and update
\* are two sections, expired entries stay until somebody prunes them and a
\* known entry is not extended.
CacheRemembers ==
  [][\A r \in Requests :
       req[r].pc = "sent" /\ req'[r].pc = "connected" =>
         LET q == req'[r]
             mine == {s \in served : s.cred = q.cred}
             isRead == q.cache[1].jitter > 0
         IN  /\ \A s \in mine :
                  s.paid /\ s.body = q.body /\ now - s.at < Least(Short, MaxTtl) => isRead
             /\ isRead =>
                  \E s \in mine : now - s.time < Least(Long, MaxTtl) /\ Shares(s, q.body)]_vars

\* The cache fields as they came in.
Unscaled(q) == IF q.path = "whole" /\ q.parts /= <<>> THEN <<UpstreamCache(q.parts)>> ELSE q.cache

\* While no number was rewritten, what is billed, read and created adds up to an input
\* above 0, on the three paths and for any order of the upstream's events
\* (handlers.rs:290, stream.rs:1323).  Of an input of 0, which a percentage of 0 makes,
\* it does not: scale_cache_context returns early (handlers.rs:306), and the client is
\* told an input of 0 beside the cache fields as they came in.  Nothing is said of a
\* report with a number that was rewritten.
UsageAddsUp ==
  \A r \in Requests :
    req[r].pc = "done" /\ ~req[r].touched =>
      \A i \in DOMAIN req[r].reports :
        LET report == req[r].reports[i]
            total == FinalInput(req[r])
            cached == IF report.cache = <<>> THEN 0
                      ELSE report.cache[1].read + report.cache[1].creation
        IN  /\ total > 0 => report.input + cached = total
            /\ total = 0 => report.input = 0 /\ report.cache = Unscaled(req[r])

\* Where the split is reported, its parts add up to the total (cache_rewriter.rs:140:
\* downstream billing goes by the parts), after any scaling and rewriting.
SplitAddsUp ==
  \A r \in Requests : req[r].pc = "done" =>
    \A i \in DOMAIN req[r].reports : \A j \in DOMAIN req[r].reports[i].cache :
      LET c == req[r].reports[i].cache[j]
      IN  c.known => c.m5 + c.h1 = c.creation

\* A probe is told from a request by the input estimated when it came in
\* (config.rs:103, cache_rewriter.rs:19).  Refuted: the streaming paths compare the
\* upstream's count as soon as it has reported one.  Stated for a configuration
\* that does not change.
ProbeByEstimate ==
  \A r \in Requests : req[r].pc \in {"fields", "input"} =>
    (req[r].bypass <=> Bypass(optimizer, req[r].path, req[r].estimate))
=============================================================================
