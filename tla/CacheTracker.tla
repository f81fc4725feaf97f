---------------------------- MODULE CacheTracker ----------------------------
(***************************************************************************)
(* The model of the upstream's prompt cache (anthropic/cache_tracker.rs):  *)
(* a request is flattened into blocks, some of which are breakpoints, and  *)
(* the prefix up to a breakpoint is remembered per credential until it     *)
(* expires.  A prefix stands for its SHA-256 chain.  The token_count and   *)
(* ttl of an entry are written and never read, so an entry is its prefix   *)
(* and its expiry.  Time is in units of the caller's choosing.             *)
(***************************************************************************)
EXTENDS Integers, Sequences, Selections

CONSTANTS
  TokensOf,     \* [text -> tokens] (token.rs)
  Billing,      \* texts that start with x-anthropic-billing-header:
  MinTokens,    \* [model -> tokens], minimum_cacheable_tokens_for_model
  Short, Long,  \* 5 minutes and 1 hour
  MaxTtl,       \* max_supported_ttl, from prompt_cache_ttl_seconds
  LookBack,     \* PREFIX_LOOKBACK_LIMIT (10)
  Divisor,      \* PREFIX_HIT_INPUT_TOKEN_DIVISOR (10)
  MaxInt        \* i32::MAX

ASSUME TrackerAssumption ==
  /\ Short \in Nat \ {0} /\ Long \in Nat /\ Short < Long /\ MaxTtl \in Nat \ {0}
  /\ LookBack \in Nat \ {0} /\ Divisor \in Nat \ {0} /\ MaxInt \in Nat \ {0}
  /\ \A text \in DOMAIN TokensOf : TokensOf[text] \in 0 .. MaxInt

Least(a, b) == IF a < b THEN a ELSE b
Most(a, b) == IF a < b THEN b ELSE a
Saturated(n) == Least(Most(n, -MaxInt - 1), MaxInt)
Clamped(n, high) == Least(Most(n, 0), high)

-----------------------------------------------------------------------------
(* Flattening: cache_control is stripped from the value, so two blocks that *)
(* differ in their ttl only have one fingerprint.                           *)
Canonical(kind, text) == IF kind = "system" /\ text \in Billing THEN "billing" ELSE text

Marked(kind, index, part) ==
  [j \in DOMAIN part |->
     [value |-> <<kind, index, j, Canonical(kind, part[j].text)>>,
      tokens |-> TokensOf[part[j].text],
      ttl |-> part[j].ttl,
      end |-> kind = "message" /\ j = Len(part)]]

Flattened(body) ==
  Marked("tool", 0, body.tools) \o Marked("system", 0, body.system)
    \o FlattenSeq([i \in DOMAIN body.messages |-> Marked("message", i, body.messages[i])])

\* The breakpoints of a body: a marked block, and from the first one on every
\* end of a message, with the ttl of the last mark.
Breakpoints(blocks, model) ==
  LET cumulative[i \in 0 .. Len(blocks)] ==
        IF i = 0 THEN 0 ELSE Saturated(cumulative[i - 1] + blocks[i].tokens)
      activeTtl[i \in 0 .. Len(blocks)] ==
        IF i = 0 THEN 0
        ELSE IF blocks[i].ttl > 0 THEN Least(blocks[i].ttl, MaxTtl) ELSE activeTtl[i - 1]
      Point(i) == [prefix |-> <<model>> \o [j \in 1 .. i |-> blocks[j].value],
                   tokens |-> cumulative[i], ttl |-> activeTtl[i]]
      IsPoint(i) == blocks[i].ttl > 0 \/ (blocks[i].end /\ activeTtl[i] > 0)
  IN  FlattenSeq([i \in DOMAIN blocks |-> IF IsPoint(i) THEN <<Point(i)>> ELSE <<>>])

\* What the tracker keeps of a request: its total and its cacheable breakpoints.
Profile(body, total) ==
  LET points == Breakpoints(Flattened(body), body.model)
      enough == {p \in ToSet(points) : p.tokens >= MinTokens[body.model]}
  IN  [total |-> Most(total, 0), points |-> Within(points, enough)]

-----------------------------------------------------------------------------
PrefixHitInput(tokens, jitter) ==
  IF tokens <= 0 THEN 0 ELSE Clamped(Saturated(tokens \div Divisor + jitter), tokens)

NoCache == [read |-> 0, creation |-> 0, m5 |-> 0, h1 |-> 0, known |-> TRUE, jitter |-> 0]

Creation(profile) ==
  LET last == profile.points[Len(profile.points)]
      tokens == Least(last.tokens, profile.total)
      fresh == Clamped(tokens, profile.total)
  IN  [NoCache EXCEPT !.creation = tokens,
                      !.m5 = IF last.ttl = Long THEN 0 ELSE fresh,
                      !.h1 = IF last.ttl = Long THEN fresh ELSE 0]

PrefixHit(total, jitter) ==
  [NoCache EXCEPT !.read = total - PrefixHitInput(total, jitter), !.jitter = jitter]

\* Mutant of Live: an entry lasts through the instant it expires at.
LiveAtExpiry(entries, now) == {e \in entries : e.expires >= now}

Live(entries, now) == {e \in entries : e.expires > now}

\* The last LookBack breakpoints are looked up, latest first.
Recent(points) == {points[i] : i \in {j \in DOMAIN points : j > Len(points) - LookBack}}

Hit(entries, cred, profile, now) ==
  \E e \in Live(entries, now), p \in Recent(profile.points) : e.cred = cred /\ e.prefix = p.prefix

Computed(entries, cred, profile, now, jitter) ==
  IF profile.points = <<>> THEN NoCache
  ELSE IF Hit(entries, cred, profile, now) THEN PrefixHit(profile.total, jitter)
  ELSE Creation(profile)

\* compute() prunes the expired entries of every credential if it looks at any.
Pruned(entries, profile, now) ==
  IF profile.points = <<>> THEN entries ELSE Live(entries, now)

\* A known prefix keeps its expiry: "reads do not extend it".
Updated(entries, cred, profile, now) ==
  LET live == Live(entries, now)
      Known(p) == \E e \in live : e.cred = cred /\ e.prefix = p.prefix
      new == {p \in {profile.points[i] : i \in DOMAIN profile.points} : ~Known(p)}
  IN  live \cup {[cred |-> cred, prefix |-> p.prefix, expires |-> now + p.ttl] : p \in new}
=============================================================================
