-------------------------- MODULE PromptCacheProofs --------------------------
(***************************************************************************)
(* Theorems about PromptCache, for any times to live, depth of the         *)
(* look-back, divisor and range, and requests in any order.                *)
(*                                                                         *)
(*   Types             every number told to a client is in its range       *)
(*   SplitsAddUp       the 5m and 1h parts of a creation add up to it      *)
(*   UsageSumsUp       billed, read and created add up to the input        *)
(*   LookUpsRemember   a look-up finds what the credential has paid        *)
(*                     for, and only what one of its requests put there    *)
(***************************************************************************)
EXTENDS PromptCache, SequenceLemmas, TLAPS

-----------------------------------------------------------------------------
(* Arithmetic of counts.                                                      *)

LEMMA Constants ==
  /\ MaxInt \in Nat /\ MaxInt > 0 /\ Divisor \in Nat /\ Divisor > 0
  /\ Short \in Nat /\ Long \in Nat /\ Short > 0 /\ Long > Short /\ MaxTtl \in Nat /\ MaxTtl > 0
  /\ LookBack \in Nat /\ LookBack > 0
BY TrackerAssumption

LEMMA LeastMost ==
  ASSUME NEW a \in Int, NEW b \in Int
  PROVE  /\ Least(a, b) \in {a, b} /\ Least(a, b) <= a /\ Least(a, b) <= b
         /\ Most(a, b) \in {a, b} /\ Most(a, b) >= a /\ Most(a, b) >= b
BY DEF Least, Most

LEMMA SaturatedFacts ==
  ASSUME NEW n \in Int
  PROVE  /\ Saturated(n) \in I32
         /\ n \in I32 => Saturated(n) = n
         /\ n >= 0 => Saturated(n) \in Count /\ Saturated(n) <= n
BY Constants DEF Saturated, Least, Most, I32, Count

LEMMA ClampedFacts ==
  ASSUME NEW n \in Int, NEW high \in Nat
  PROVE  /\ Clamped(n, high) \in 0 .. high
         /\ n \in 0 .. high => Clamped(n, high) = n
BY DEF Clamped, Least, Most

LEMMA HitInput ==
  ASSUME NEW tokens \in Int, NEW jitter \in Nat
  PROVE  /\ PrefixHitInput(tokens, jitter) \in Nat
         /\ tokens >= 0 => PrefixHitInput(tokens, jitter) <= tokens
<1>1. CASE tokens <= 0
  BY <1>1 DEF PrefixHitInput
<1>2. CASE tokens > 0
  <2>1. tokens \div Divisor \in Int
    BY Constants, <1>2
  <2>2. PICK n \in Int : n = Saturated(tokens \div Divisor + jitter)
    BY <2>1, SaturatedFacts DEF I32
  <2>3. PrefixHitInput(tokens, jitter) = Clamped(n, tokens)
    BY <1>2, <2>2 DEF PrefixHitInput
  <2>4. Clamped(n, tokens) \in 0 .. tokens
    BY <1>2, ClampedFacts
  <2> QED BY <1>2, <2>3, <2>4
<1> QED BY <1>1, <1>2

\* Half of the divisor more is not enough for another one.
LEMMA RoundedBack ==
  ASSUME NEW v \in Nat, NEW a \in Nat, a > 0
  PROVE  (v * a + a \div 2) \div a = v
<1>1. PICK h \in Nat : h = a \div 2 /\ h < a
  OBVIOUS
<1>2. (v * a + h) \div a = v
  BY <1>1
<1> QED BY <1>1, <1>2

\* What is below i32::MAX comes through `as i32`.
LEMMA AsI32Facts ==
  ASSUME NEW n \in Nat
  PROVE  /\ AsI32(n) \in I32
         /\ n <= MaxInt => AsI32(n) = n
<1>1. \A x \in Nat, y \in Nat : y > 0 => x % y \in 0 .. y - 1 /\ (x < y => x % y = x)
  OBVIOUS
<1>2. PICK x \in Nat : x = n + MaxInt + 1
  BY Constants
<1>3. PICK y \in Nat : y = 2 * (MaxInt + 1) /\ y > 0
  BY Constants
<1>4. AsI32(n) = (x % y) - (MaxInt + 1)
  BY <1>2, <1>3 DEF AsI32
<1>5. PICK z \in 0 .. y - 1 : z = x % y /\ (x < y => z = x)
  BY <1>1, <1>3
<1>6. z - (MaxInt + 1) \in -MaxInt - 1 .. MaxInt
  BY <1>3, <1>5, Constants
<1>7. n <= MaxInt => x < y
  BY <1>2, <1>3, Constants
<1> QED BY <1>2, <1>4, <1>5, <1>6, <1>7, Constants DEF I32

-----------------------------------------------------------------------------
(* The profile of a body.                                                     *)
Values == {"tool", "system", "message"} \X Nat \X Nat \X (DOMAIN TokensOf \cup {"billing"})
Blocks == [value : Values, tokens : Count, ttl : {0, Short, Long}, end : BOOLEAN]

\* The times to live a breakpoint can have.
Lifetimes == {Least(Short, MaxTtl), Least(Long, MaxTtl)}
Shortest == Least(Short, MaxTtl)
Longest == Least(Long, MaxTtl)

\* What is known of a set of breakpoints: each counts within bounds, lives for
\* a time, and no other has its prefix.
Pointed(V) ==
  /\ \A x \in V : x.tokens \in Count /\ x.ttl \in Lifetimes
  /\ \A x, y \in V : x.prefix = y.prefix => x = y

Profiled(profile) ==
  /\ profile.total \in Count
  /\ \E V : Pointed(V) /\ profile.points \in Seq(V)

LEMMA LifetimeFacts ==
  /\ Lifetimes \subseteq Nat \ {0} /\ Shortest \in Lifetimes /\ Longest \in Lifetimes
  /\ \A t \in Lifetimes : Shortest <= t /\ t <= Longest
  /\ \A t \in {Short, Long} : t > 0 /\ Least(t, MaxTtl) \in Lifetimes
BY Constants DEF Lifetimes, Shortest, Longest, Least

LEMMA MarkedBlocks ==
  ASSUME NEW kind \in {"tool", "system", "message"}, NEW index \in Nat, NEW part \in Seq(Parts)
  PROVE  Marked(kind, index, part) \in Seq(Blocks)
<1>1. PICK n \in Nat : n = Len(part) /\ DOMAIN part = 1 .. n
  OBVIOUS
<1>2. ASSUME NEW j \in 1 .. n
      PROVE  [value |-> <<kind, index, j, Canonical(kind, part[j].text)>>,
              tokens |-> TokensOf[part[j].text],
              ttl |-> part[j].ttl,
              end |-> kind = "message" /\ j = Len(part)] \in Blocks
  <2>1. part[j] \in Parts
    BY <1>1
  <2>2. part[j].text \in DOMAIN TokensOf /\ part[j].ttl \in {0, Short, Long}
    BY <2>1 DEF Parts
  <2>3. Canonical(kind, part[j].text) \in DOMAIN TokensOf \cup {"billing"}
    BY <2>2 DEF Canonical
  <2>4. TokensOf[part[j].text] \in Count
    BY <2>2, TrackerAssumption DEF Count
  <2> DEFINE v == <<kind, index, j, Canonical(kind, part[j].text)>>
             e == (kind = "message" /\ j = Len(part))
  <2>5. v \in Values
    BY <2>3 DEF Values
  <2>6. e \in BOOLEAN
    OBVIOUS
  <2> HIDE DEF v, e
  <2>7. [value |-> v, tokens |-> TokensOf[part[j].text], ttl |-> part[j].ttl, end |-> e] \in Blocks
    BY <2>2, <2>4, <2>5, <2>6 DEF Blocks
  <2> QED BY <2>7 DEF v, e
<1>3. Marked(kind, index, part) \in [1 .. n -> Blocks]
  BY <1>1, <1>2 DEF Marked
<1> QED BY <1>3, FunctionIsSeq

LEMMA FlattenedBlocks ==
  ASSUME NEW body \in Bodies
  PROVE  Flattened(body) \in Seq(Blocks)
<1>1. /\ body.tools \in Seq(Parts) /\ body.system \in Seq(Parts)
      /\ body.messages \in Seq(Seq(Parts))
  BY PromptCacheAssumption
<1>2. Marked("tool", 0, body.tools) \in Seq(Blocks) /\ Marked("system", 0, body.system) \in Seq(Blocks)
  BY <1>1, MarkedBlocks
<1> DEFINE f == [i \in DOMAIN body.messages |-> Marked("message", i, body.messages[i])]
<1>3. f \in Seq(Seq(Blocks))
  <2>1. PICK n \in Nat : n = Len(body.messages) /\ DOMAIN body.messages = 1 .. n
    BY <1>1
  <2>2. \A i \in 1 .. n : Marked("message", i, body.messages[i]) \in Seq(Blocks)
    <3> TAKE i \in 1 .. n
    <3>1. body.messages[i] \in Seq(Parts) /\ i \in Nat
      BY <1>1, <2>1
    <3> QED BY <3>1, MarkedBlocks
  <2>3. f \in [1 .. n -> Seq(Blocks)]
    BY <2>1, <2>2
  <2> QED BY <2>3, FunctionIsSeq
<1> HIDE DEF f
<1>4. FlattenSeq(f) \in Seq(Blocks)
  BY <1>3, FlattenType
<1>5. \A a, b \in Seq(Blocks) : a \o b \in Seq(Blocks)
  BY ConcatFacts
<1>6. Flattened(body) = Marked("tool", 0, body.tools) \o Marked("system", 0, body.system) \o FlattenSeq(f)
  BY DEF Flattened, f
<1>7. (Marked("tool", 0, body.tools) \o Marked("system", 0, body.system)) \in Seq(Blocks)
  BY <1>2, <1>5
<1> QED BY <1>4, <1>5, <1>6, <1>7

\* The sum of tokens up to each block.
LEMMA Cumulated ==
  ASSUME NEW blocks \in Seq(Blocks), NEW n \in Nat, n = Len(blocks), NEW r,
         r = CHOOSE g : g = [i \in 0 .. n |->
               IF i = 0 THEN 0 ELSE Saturated(g[i - 1] + blocks[i].tokens)]
  PROVE  \A i \in 0 .. n : r[i] \in Count
<1> DEFINE step == [i \in 1 .. n |-> [v \in Count |-> Saturated(v + blocks[i].tokens)]]
           E(g) == [i \in 0 .. n |-> IF i = 0 THEN 0 ELSE Saturated(g[i - 1] + blocks[i].tokens)]
<1>1. \A i \in 1 .. n, v \in Count : Saturated(v + blocks[i].tokens) \in Count
  <2> TAKE i \in 1 .. n, v \in Count
  <2>1. blocks[i] \in Blocks
    OBVIOUS
  <2>2. blocks[i].tokens \in Count
    BY <2>1 DEF Blocks
  <2>3. v + blocks[i].tokens \in Int /\ v + blocks[i].tokens >= 0
    BY <2>2 DEF Count
  <2> QED BY <2>3, SaturatedFacts
<1>2. StaysIn(Count, n, step)
  BY <1>1 DEF StaysIn
<1>3. \A i \in 1 .. n, v \in Count : step[i][v] = Saturated(v + blocks[i].tokens)
  OBVIOUS
<1> HIDE DEF step
<1>4. 0 \in Count
  BY Constants DEF Count
<1>5. PICK f : Recurs(f, Count, n, 0, step)
  BY <1>2, <1>4, Recursion
<1>6. f \in [0 .. n -> Count] /\ f[0] = 0
  BY <1>5 DEF Recurs
<1>7. \A i \in 1 .. n : f[i] = Saturated(f[i - 1] + blocks[i].tokens)
  <2> TAKE i \in 1 .. n
  <2>1. f[i - 1] \in Count
    BY <1>6
  <2> QED BY <2>1, <1>3, <1>5 DEF Recurs
<1>8. f = E(f)
  <2>1. \A i \in 0 .. n : f[i] = E(f)[i]
    BY <1>6, <1>7
  <2>2. DOMAIN E(f) = 0 .. n /\ E(f) = [i \in 0 .. n |-> E(f)[i]]
    OBVIOUS
  <2>3. f = [i \in 0 .. n |-> f[i]]
    BY <1>6
  <2> HIDE DEF E
  <2> QED BY <2>1, <2>2, <2>3
<1>9. r = E(r)
  <2>1. r = CHOOSE g : g = E(g)
    OBVIOUS
  <2> HIDE DEF E
  <2> QED BY <1>8, <2>1
<1>10. r[0] = 0 /\ \A i \in 1 .. n : r[i] = Saturated(r[i - 1] + blocks[i].tokens)
  <2>1. E(r)[0] = 0 /\ \A i \in 1 .. n : E(r)[i] = Saturated(r[i - 1] + blocks[i].tokens)
    OBVIOUS
  <2> HIDE DEF E
  <2> QED BY <1>9, <2>1
<1> DEFINE T == {i \in 0 .. n : r[i] \in Count}
<1>11. 0 \in T
  BY <1>4, <1>10
<1>12. ASSUME NEW i \in 1 .. n, i - 1 \in T PROVE i \in T
  <2>1. r[i - 1] \in Count
    BY <1>12
  <2> QED BY <1>1, <1>10, <2>1, SMTT(20)
<1> HIDE DEF T
<1>13. 0 .. n \subseteq T
  BY <1>11, <1>12, InductionUpTo
<1> QED BY <1>13 DEF T
\* The lifetime of the last mark up to each block.
LEMMA Activated ==
  ASSUME NEW blocks \in Seq(Blocks), NEW n \in Nat, n = Len(blocks), NEW r,
         r = CHOOSE g : g = [i \in 0 .. n |->
               IF i = 0 THEN 0
               ELSE IF blocks[i].ttl > 0 THEN Least(blocks[i].ttl, MaxTtl) ELSE g[i - 1]]
  PROVE  /\ \A i \in 0 .. n : r[i] \in Lifetimes \cup {0}
         /\ \A i \in 1 .. n : blocks[i].ttl > 0 => r[i] \in Lifetimes
<1> DEFINE V == Lifetimes \cup {0}
           Following(i, v) == IF blocks[i].ttl > 0 THEN Least(blocks[i].ttl, MaxTtl) ELSE v
           step == [i \in 1 .. n |-> [v \in V |-> Following(i, v)]]
           E(g) == [i \in 0 .. n |-> IF i = 0 THEN 0 ELSE Following(i, g[i - 1])]
<1>0. \A i \in 1 .. n : \A v : blocks[i].ttl > 0 => Following(i, v) \in Lifetimes
  <2> TAKE i \in 1 .. n
  <2> TAKE v
  <2>1. blocks[i] \in Blocks
    OBVIOUS
  <2>2. blocks[i].ttl \in {0, Short, Long}
    BY <2>1 DEF Blocks
  <2>3. blocks[i].ttl > 0 => blocks[i].ttl \in {Short, Long}
    BY <2>2
  <2> QED BY <2>3, LifetimeFacts
<1>1. \A i \in 1 .. n, v \in V : Following(i, v) \in V
  BY <1>0
<1>2. StaysIn(V, n, step)
  BY <1>1 DEF StaysIn
<1>3. \A i \in 1 .. n, v \in V : step[i][v] = Following(i, v)
  OBVIOUS
<1>4. 0 \in V
  OBVIOUS
<1>a. r = CHOOSE g : g = E(g)
  OBVIOUS
<1> HIDE DEF step, V, Following
<1>5. PICK f : Recurs(f, V, n, 0, step)
  BY <1>2, <1>4, Recursion
<1>6. f \in [0 .. n -> V] /\ f[0] = 0
  BY <1>5 DEF Recurs
<1>7. \A i \in 1 .. n : f[i] = Following(i, f[i - 1])
  <2> TAKE i \in 1 .. n
  <2>1. f[i - 1] \in V
    BY <1>6
  <2> QED BY <2>1, <1>3, <1>5 DEF Recurs
<1>8. f = E(f)
  <2>1. \A i \in 0 .. n : f[i] = E(f)[i]
    BY <1>6, <1>7
  <2>2. DOMAIN E(f) = 0 .. n /\ E(f) = [i \in 0 .. n |-> E(f)[i]]
    OBVIOUS
  <2>3. f = [i \in 0 .. n |-> f[i]]
    BY <1>6
  <2> HIDE DEF E
  <2> QED BY <2>1, <2>2, <2>3
<1>9. r = E(r)
  <2> HIDE DEF E
  <2> QED BY <1>8, <1>a
<1>10. r[0] = 0 /\ \A i \in 1 .. n : r[i] = Following(i, r[i - 1])
  <2>1. E(r)[0] = 0 /\ \A i \in 1 .. n : E(r)[i] = Following(i, r[i - 1])
    OBVIOUS
  <2> HIDE DEF E
  <2> QED BY <1>9, <2>1
<1> DEFINE T == {i \in 0 .. n : r[i] \in V}
<1>11. 0 \in T
  BY <1>4, <1>10
<1>12. ASSUME NEW i \in 1 .. n, i - 1 \in T PROVE i \in T
  <2>1. r[i - 1] \in V
    BY <1>12
  <2> QED BY <1>1, <1>10, <2>1
<1> HIDE DEF T
<1>13. 0 .. n \subseteq T
  BY <1>11, <1>12, InductionUpTo
<1>14. \A i \in 0 .. n : r[i] \in V
  BY <1>13 DEF T
<1> QED BY <1>0, <1>10, <1>14 DEF V

LEMMA BreakpointFacts ==
  ASSUME NEW blocks \in Seq(Blocks), NEW model
  PROVE  \E V : Pointed(V) /\ Breakpoints(blocks, model) \in Seq(V)
<1>1. PICK n \in Nat : n = Len(blocks) /\ DOMAIN blocks = 1 .. n
  OBVIOUS
<1> DEFINE cumulative == CHOOSE g : g = [i \in 0 .. n |->
               IF i = 0 THEN 0 ELSE Saturated(g[i - 1] + blocks[i].tokens)]
           activeTtl == CHOOSE g : g = [i \in 0 .. n |->
               IF i = 0 THEN 0
               ELSE IF blocks[i].ttl > 0 THEN Least(blocks[i].ttl, MaxTtl) ELSE g[i - 1]]
           Prefix(i) == <<model>> \o [j \in 1 .. i |-> blocks[j].value]
           Point(i) == [prefix |-> Prefix(i), tokens |-> cumulative[i], ttl |-> activeTtl[i]]
           IsPoint(i) == blocks[i].ttl > 0 \/ (blocks[i].end /\ activeTtl[i] > 0)
           f == [i \in 1 .. n |-> IF IsPoint(i) THEN <<Point(i)>> ELSE <<>>]
           V == {Point(i) : i \in {j \in 1 .. n : IsPoint(j)}}
<1>2. Breakpoints(blocks, model) = FlattenSeq(f)
  BY <1>1 DEF Breakpoints
<1>3. \A i \in 0 .. n : cumulative[i] \in Count
  BY <1>1, Cumulated
<1>4. /\ \A i \in 0 .. n : activeTtl[i] \in Lifetimes \cup {0}
      /\ \A i \in 1 .. n : blocks[i].ttl > 0 => activeTtl[i] \in Lifetimes
  BY <1>1, Activated
<1> HIDE DEF cumulative, activeTtl
<1>5. \A i \in 1 .. n : IsPoint(i) => cumulative[i] \in Count /\ activeTtl[i] \in Lifetimes
  <2> TAKE i \in 1 .. n
  <2>1. i \in 0 .. n
    OBVIOUS
  <2> QED BY <1>3, <1>4, <2>1
<1>6. \A i \in 1 .. n : Len(Prefix(i)) = i + 1
  <2> TAKE i \in 1 .. n
  <2> DEFINE q == [j \in 1 .. i |-> blocks[j].value]
             S == {model} \cup {blocks[j].value : j \in 1 .. i}
  <2>1. q \in [1 .. i -> S] /\ i \in Nat
    OBVIOUS
  <2>2. q \in Seq(S) /\ Len(q) = i
    BY <2>1, FunctionIsSeq
  <2>3. <<model>> \in Seq(S) /\ Len(<<model>>) = 1
    OBVIOUS
  <2>4. Len(<<model>> \o q) = Len(<<model>>) + Len(q)
    BY <2>2, <2>3, ConcatFacts
  <2> QED BY <2>2, <2>3, <2>4
<1> HIDE DEF Prefix
<1>7. Pointed(V)
  <2>1. \A x \in V : x.tokens \in Count /\ x.ttl \in Lifetimes
    BY <1>5
  <2>2. ASSUME NEW x \in V, NEW y \in V, x.prefix = y.prefix PROVE x = y
    <3>1. PICK i \in 1 .. n : x = Point(i)
      OBVIOUS
    <3>2. PICK j \in 1 .. n : y = Point(j)
      OBVIOUS
    <3>3. Prefix(i) = Prefix(j)
      BY <2>2, <3>1, <3>2
    <3>4. i = j
      BY <1>6, <3>3
    <3> QED BY <3>1, <3>2, <3>4
  <2> QED BY <2>1, <2>2 DEF Pointed
<1>8. f \in Seq(Seq(V))
  <2>1. \A i \in 1 .. n : (IF IsPoint(i) THEN <<Point(i)>> ELSE <<>>) \in Seq(V)
    <3> TAKE i \in 1 .. n
    <3>1. CASE IsPoint(i)
      <4> DEFINE p == Point(i)
      <4>1. p \in V
        BY <3>1
      <4> HIDE DEF p, V
      <4>2. <<p>> \in Seq(V)
        BY <4>1
      <4> QED BY <3>1, <4>2 DEF p
    <3>2. CASE ~IsPoint(i)
      BY <3>2
    <3> QED BY <3>1, <3>2
  <2>2. f \in [1 .. n -> Seq(V)]
    BY <2>1
  <2> HIDE DEF f, V
  <2> QED BY <2>2, FunctionIsSeq
<1> HIDE DEF f, V
<1>9. FlattenSeq(f) \in Seq(V)
  BY <1>8, FlattenType
<1> QED BY <1>2, <1>7, <1>9

LEMMA ProfileFacts ==
  ASSUME NEW body \in Bodies
  PROVE  Profiled(Profiles[body])
<1> DEFINE points == Breakpoints(Flattened(body), body.model)
           enough == {p \in ToSet(points) : p.tokens >= MinTokens[body.model]}
<1>1. Flattened(body) \in Seq(Blocks)
  BY FlattenedBlocks
<1>2. PICK V : Pointed(V) /\ points \in Seq(V)
  BY <1>1, BreakpointFacts
<1>3. Profiles[body] = [total |-> Most(body.estimate, 0), points |-> Within(points, enough)]
  BY DEF Profiles, Profile
<1> HIDE DEF points, enough
<1>4. Within(points, enough) \in Seq(V)
  BY <1>2, WithinType
<1>5. body.estimate \in I32
  BY PromptCacheAssumption
<1>6. Most(body.estimate, 0) \in Count
  BY <1>5, Constants DEF I32, Count, Most
<1> QED BY <1>2, <1>3, <1>4, <1>6 DEF Profiled
-----------------------------------------------------------------------------
(* The usage of the cache and its scaling.                                    *)
Split(c) == c.known => c.m5 + c.h1 = c.creation
OneSided(c) == c.m5 = 0 \/ c.h1 = 0
Apart(c) == c.read = 0 \/ c.creation = 0

LEMMA UsageTypes ==
  /\ CacheUsage = Usages(Count) /\ 0 \in Count /\ NoCache \in CacheUsage
  /\ \A j \in Jitters : j \in Nat /\ j > 0
  /\ Count \subseteq Int /\ I32 \subseteq Int /\ Count \subseteq I32 /\ None \in I32
  /\ \A n \in I32 : n >= 0 => n \in Count
<1>1. \A j \in Jitters : j \in Nat /\ j > 0
  BY PromptCacheAssumption
<1> QED BY <1>1, Constants DEF CacheUsage, Usages, NoCache, Count, I32, None

LEMMA CreationFacts ==
  ASSUME NEW profile, Profiled(profile), profile.points # <<>>,
         NEW c, c = Creation(profile)
  PROVE  /\ c \in CacheUsage /\ Split(c) /\ OneSided(c) /\ c.read = 0 /\ c.jitter = 0
         /\ c.creation <= profile.total
<1>1. PICK V : Pointed(V) /\ profile.points \in Seq(V)
  BY DEF Profiled
<1>2. PICK last \in V : last = profile.points[Len(profile.points)]
  BY <1>1
<1>3. last.tokens \in Count /\ profile.total \in Count
  BY <1>1, <1>2 DEF Pointed, Profiled
<1>4. PICK tokens \in Count : tokens = Least(last.tokens, profile.total) /\ tokens <= profile.total
  BY <1>3, LeastMost, UsageTypes DEF Count
<1>5. Clamped(tokens, profile.total) = tokens
  <2>1. profile.total \in Nat /\ tokens \in 0 .. profile.total /\ tokens \in Int
    BY <1>3, <1>4, Constants DEF Count
  <2> QED BY <2>1, ClampedFacts
<1>6. c = [NoCache EXCEPT !.creation = tokens,
                          !.m5 = IF last.ttl = Long THEN 0 ELSE tokens,
                          !.h1 = IF last.ttl = Long THEN tokens ELSE 0]
  BY <1>2, <1>4, <1>5 DEF Creation
<1>7. c = [read |-> 0, creation |-> tokens, m5 |-> IF last.ttl = Long THEN 0 ELSE tokens,
           h1 |-> IF last.ttl = Long THEN tokens ELSE 0, known |-> TRUE, jitter |-> 0]
  BY <1>6 DEF NoCache
<1>8. c \in CacheUsage
  BY <1>4, <1>7, UsageTypes DEF CacheUsage, Usages
<1>9. Split(c) /\ OneSided(c)
  BY <1>4, <1>7 DEF Split, OneSided, Count
<1> QED BY <1>4, <1>7, <1>8, <1>9

LEMMA PrefixHitFacts ==
  ASSUME NEW total \in Count, NEW jitter \in Jitters, NEW c, c = PrefixHit(total, jitter)
  PROVE  /\ c \in CacheUsage /\ Split(c) /\ OneSided(c) /\ c.creation = 0 /\ c.jitter > 0
         /\ c.read <= total
<1>1. PICK n \in Nat : n = PrefixHitInput(total, jitter) /\ n <= total
  <2>1. total \in Int /\ total >= 0 /\ jitter \in Nat
    BY UsageTypes DEF Count
  <2> QED BY <2>1, HitInput
<1>2. c = [read |-> total - n, creation |-> 0, m5 |-> 0, h1 |-> 0, known |-> TRUE,
           jitter |-> jitter]
  BY <1>1 DEF PrefixHit, NoCache
<1>3. total - n \in Count
  BY <1>1, Constants DEF Count
<1>4. c \in CacheUsage
  BY <1>2, <1>3, UsageTypes DEF CacheUsage, Usages
<1> QED BY <1>1, <1>2, <1>4, UsageTypes DEF Split, OneSided, Count

\* compute() tells a read from a creation by what it found.
LEMMA ComputedFacts ==
  ASSUME NEW known, NEW cred, NEW profile, Profiled(profile), NEW time, NEW jitter \in Jitters,
         NEW c, c = Computed(known, cred, profile, time, jitter)
  PROVE  /\ c \in CacheUsage /\ Split(c) /\ OneSided(c) /\ Apart(c)
         /\ c.read + c.creation <= profile.total
         /\ c.jitter > 0 <=> profile.points # <<>> /\ Hit(known, cred, profile, time)
         /\ c.creation > 0 => profile.points # <<>> /\ ~Hit(known, cred, profile, time)
<1>0. profile.total \in Count
  BY DEF Profiled
<1>1. CASE profile.points = <<>>
  <2>1. c = NoCache
    BY <1>1 DEF Computed
  <2>2. c \in CacheUsage /\ Split(c) /\ OneSided(c) /\ Apart(c)
        /\ c.read = 0 /\ c.creation = 0 /\ c.jitter = 0
    BY <2>1, UsageTypes DEF NoCache, Split, OneSided, Apart
  <2> QED BY <1>0, <1>1, <2>2 DEF Count
<1>2. CASE profile.points # <<>> /\ Hit(known, cred, profile, time)
  <2>1. c = PrefixHit(profile.total, jitter)
    BY <1>2 DEF Computed
  <2>2. /\ c \in CacheUsage /\ Split(c) /\ OneSided(c) /\ c.creation = 0 /\ c.jitter > 0
        /\ c.read <= profile.total
    BY <1>0, <2>1, PrefixHitFacts
  <2>3. c.read \in Int
    BY <2>2 DEF CacheUsage, Usages, Count
  <2> QED BY <1>2, <2>2, <2>3 DEF Apart
<1>3. CASE profile.points # <<>> /\ ~Hit(known, cred, profile, time)
  <2>1. c = Creation(profile)
    BY <1>3 DEF Computed
  <2>2. /\ c \in CacheUsage /\ Split(c) /\ OneSided(c) /\ c.read = 0 /\ c.jitter = 0
        /\ c.creation <= profile.total
    BY <1>3, <2>1, CreationFacts
  <2>3. c.creation \in Int
    BY <2>2 DEF CacheUsage, Usages, Count
  <2> QED BY <1>3, <2>2, <2>3 DEF Apart
<1> QED BY <1>1, <1>2, <1>3

LEMMA ScaledTokenFacts ==
  ASSUME NEW value \in Nat, NEW estimated \in Int, NEW actual \in Nat,
         NEW t, t = ScaledTokens(value, estimated, actual)
  PROVE  /\ t \in 0 .. actual
         /\ value = 0 => t = 0
         /\ estimated = actual /\ actual > 0 => t <= value
<1>1. CASE value = 0
  BY <1>1 DEF ScaledTokens
<1>2. CASE value > 0
  <2>1. PICK m \in Nat : m = Most(estimated, 1) /\ m > 0
    BY LeastMost
  <2>2. Most(actual, 0) = actual
    BY DEF Most
  <2>3. \A v, a, d \in Nat : d > 0 => (v * a + d \div 2) \div d \in Int
    <3> TAKE v, a, d \in Nat
    <3>1. v * a \in Nat /\ d \div 2 \in Nat
      OBVIOUS
    <3>2. \A x, y \in Nat : y > 0 => x \div y \in Int
      OBVIOUS
    <3> QED BY <3>1, <3>2
  <2>4. PICK n \in Int : n = (value * actual + m \div 2) \div m
    BY <2>1, <2>3
  <2>5. t = Most(Least(n, actual), 0)
    BY <1>2, <2>1, <2>2, <2>4 DEF ScaledTokens
  <2>6. t \in 0 .. actual /\ (t <= n \/ t = 0)
    BY <2>5 DEF Least, Most
  <2>7. ASSUME estimated = actual, actual > 0 PROVE t <= value
    <3>1. m = actual
      BY <2>1, <2>7 DEF Most
    <3>2. n = value
      BY <2>4, <2>7, <3>1, RoundedBack
    <3> QED BY <1>2, <2>6, <3>2
  <2> QED BY <1>2, <2>6, <2>7
<1> QED BY <1>1, <1>2
\* The sum after scaling is at most the actual count: what is too much is taken
\* from the creation.  Two counts whose sum is above i32::MAX would saturate
\* before they are compared, hence the condition.
Reduced(read, creation, actual) ==
  Saturated(creation - Most(Saturated(creation + read) - actual, 0))
Fitting(x, read, creation, actual) ==
  /\ x \in 0 .. actual
  /\ creation + read <= MaxInt => x + read <= actual
  /\ creation = 0 => x = 0

LEMMA Overflowing ==
  ASSUME NEW actual \in Count, NEW read \in 0 .. actual, NEW creation \in 0 .. actual
  PROVE  Fitting(Reduced(read, creation, actual), read, creation, actual)
<1> DEFINE x == Reduced(read, creation, actual)
<1>1. actual \in Nat /\ actual <= MaxInt /\ read \in Nat /\ creation \in Nat /\ MaxInt \in Nat
  BY Constants DEF Count
<1>2. PICK s \in Int : /\ s = Saturated(creation + read) /\ s >= 0 /\ s <= creation + read
                       /\ creation + read <= MaxInt => s = creation + read
  BY <1>1, SaturatedFacts DEF Count, I32
<1>3. PICK over \in Int : over = Most(s - actual, 0) /\ over >= 0
                          /\ (over = 0 \/ over = s - actual) /\ over >= s - actual
  BY <1>1, <1>2 DEF Most
<1>4. creation - over \in 0 .. actual
  BY <1>1, <1>2, <1>3
<1>5. x = creation - over
  <2>1. creation - over \in I32
    BY <1>1, <1>4 DEF I32
  <2>2. x = Saturated(creation - over)
    BY <1>2, <1>3 DEF Reduced
  <2> QED BY <1>3, <1>4, <2>1, <2>2, SaturatedFacts
<1> HIDE DEF x
<1>6. Fitting(x, read, creation, actual)
  <2>1. x \in 0 .. actual
    BY <1>4, <1>5
  <2>2. creation + read <= MaxInt => x + read <= actual
    BY <1>1, <1>2, <1>3, <1>5
  <2>3. creation = 0 => x = 0
    BY <1>1, <1>2, <1>3, <1>5
  <2> QED BY <2>1, <2>2, <2>3 DEF Fitting
<1> QED BY <1>6 DEF x

Scalable(c) == c \in CacheUsage /\ Split(c) /\ OneSided(c)

\* The sum of what is reported must not be more than what it is a part of.
Bounded(c, estimated, actual) ==
  /\ c.read + c.creation > 0 => estimated > 0
  /\ Apart(c) \/ (c.read + c.creation <= MaxInt /\ estimated = actual)

Changed(c, read, creation, m5, h1) ==
  [c EXCEPT !.creation = creation, !.read = read, !.m5 = m5, !.h1 = h1]
Usage(read, creation, m5, h1, known, jitter) ==
  [read |-> read, creation |-> creation, m5 |-> m5, h1 |-> h1, known |-> known, jitter |-> jitter]

LEMMA UsageChanged ==
  ASSUME NEW c, Scalable(c), NEW read, NEW creation, NEW m5, NEW h1
  PROVE  Changed(c, read, creation, m5, h1) = Usage(read, creation, m5, h1, c.known, c.jitter)
<1> DEFINE s == Changed(c, read, creation, m5, h1)
<1>1. s \in [read : {read}, creation : {creation}, m5 : {m5}, h1 : {h1},
             known : {c.known}, jitter : {c.jitter}]
  BY DEF Scalable, CacheUsage, Usages, Changed
<1> HIDE DEF s
<1>2. s = [read |-> read, creation |-> creation, m5 |-> m5, h1 |-> h1,
           known |-> c.known, jitter |-> c.jitter]
  BY <1>1
<1> QED BY <1>2 DEF s, Usage

LEMMA ScaledFacts ==
  ASSUME NEW c, Scalable(c), NEW estimated \in I32, NEW actual \in I32,
         NEW s, s = Scaled(c, estimated, actual)
  PROVE  /\ s \in CacheUsage /\ Split(s)
         /\ Bounded(c, estimated, actual) /\ actual > 0 => s.read + s.creation <= actual
<1>0. c = [read |-> c.read, creation |-> c.creation, m5 |-> c.m5, h1 |-> c.h1,
           known |-> c.known, jitter |-> c.jitter]
      /\ c.read \in Nat /\ c.creation \in Nat /\ c.m5 \in Nat /\ c.h1 \in Nat
      /\ c.known \in BOOLEAN /\ c.jitter \in Jitters \cup {0} /\ c.jitter \in Nat
  BY UsageTypes DEF Scalable, CacheUsage, Usages, Count
<1>a. estimated \in Int /\ actual \in Int /\ actual <= MaxInt /\ MaxInt \in Nat
  BY Constants DEF I32
<1>1. CASE estimated <= 0 \/ actual <= 0
  <2>1. s = c
    BY <1>1 DEF Scaled
  <2>2. Bounded(c, estimated, actual) /\ actual > 0 => s.read + s.creation <= actual
    BY <1>0, <1>1, <1>a, <2>1 DEF Bounded
  <2> QED BY <2>1, <2>2 DEF Scalable
<1>2. CASE estimated > 0 /\ actual > 0 /\ c.jitter > 0 /\ c.creation = 0 /\ c.read > 0
  <2>1. PICK n \in Nat : n = PrefixHitInput(actual, c.jitter) /\ n <= actual
    BY <1>0, <1>2, <1>a, HitInput
  <2>2. s = [c EXCEPT !.read = actual - n, !.m5 = 0, !.h1 = 0]
    BY <1>2, <1>a, <2>1 DEF Scaled
  <2>3. s = [read |-> actual - n, creation |-> 0, m5 |-> 0, h1 |-> 0,
             known |-> c.known, jitter |-> c.jitter]
    BY <1>0, <1>2, <2>2
  <2>4. actual - n \in Count /\ 0 \in Count
    BY <1>2, <1>a, <2>1 DEF Count
  <2>5. s \in CacheUsage
    BY <1>0, <2>3, <2>4 DEF CacheUsage, Usages
  <2>6. Split(s) /\ s.read + s.creation <= actual
    BY <1>a, <2>1, <2>3 DEF Split
  <2> QED BY <2>5, <2>6
<1>3. CASE estimated > 0 /\ actual > 0 /\ ~(c.jitter > 0 /\ c.creation = 0 /\ c.read > 0)
  <2> DEFINE To(n) == ScaledTokens(n, estimated, actual)
  <2>1. actual \in Nat /\ actual \in Count
    BY <1>3, <1>a DEF Count
  <2>2. PICK read \in 0 .. actual : read = To(c.read) /\ (c.read = 0 => read = 0)
                                    /\ (estimated = actual => read <= c.read)
    BY <1>0, <1>3, <1>a, <2>1, ScaledTokenFacts, ZenonT(60)
  <2>3. PICK creation \in 0 .. actual :
           creation = To(c.creation) /\ (c.creation = 0 => creation = 0)
           /\ (estimated = actual => creation <= c.creation)
    BY <1>0, <1>3, <1>a, <2>1, ScaledTokenFacts
  <2>4. PICK m5 \in 0 .. actual : m5 = To(c.m5) /\ (c.m5 = 0 => m5 = 0)
    BY <1>0, <1>3, <1>a, <2>1, ScaledTokenFacts
  <2>5. PICK h1 \in 0 .. actual : h1 = To(c.h1) /\ (c.h1 = 0 => h1 = 0)
    BY <1>0, <1>3, <1>a, <2>1, ScaledTokenFacts
  <2>6. PICK x : x = Reduced(read, creation, actual) /\ Fitting(x, read, creation, actual)
    <3>1. Fitting(Reduced(read, creation, actual), read, creation, actual)
      BY <2>1, <2>2, <2>3, Overflowing
    <3> QED BY <3>1
  <2> DEFINE all == [c EXCEPT !.creation = To(c.creation), !.read = To(c.read),
                              !.m5 = To(c.m5), !.h1 = To(c.h1)]
             w == [all EXCEPT !.creation = x]
  <2>7. s = WithSplit(w, c)
    <3>1. all.creation = creation /\ all.read = read
      BY <1>0, <2>2, <2>3
    <3>2. ~(estimated <= 0 \/ actual <= 0)
      BY <1>3, <1>a
    <3>3. s = WithSplit([all EXCEPT !.creation =
                 Saturated(@ - Most(Saturated(all.creation + all.read) - actual, 0))], c)
      BY <1>3, <3>2 DEF Scaled
    <3> QED BY <2>6, <3>1, <3>3 DEF Reduced
  <2>8. w = [read |-> read, creation |-> x, m5 |-> m5, h1 |-> h1,
             known |-> c.known, jitter |-> c.jitter]
    <3>1. all = [read |-> read, creation |-> creation, m5 |-> m5, h1 |-> h1,
                 known |-> c.known, jitter |-> c.jitter]
      <4>1. all = Changed(c, read, creation, m5, h1)
        <5> HIDE DEF To
        <5> QED BY <2>2, <2>3, <2>4, <2>5 DEF Changed
      <4>2. Changed(c, read, creation, m5, h1) = Usage(read, creation, m5, h1, c.known, c.jitter)
        BY UsageChanged
      <4> QED BY <4>1, <4>2 DEF Usage
    <3> HIDE DEF all
    <3> QED BY <3>1
  <2> HIDE DEF w, To
  <2>9. /\ s = [read |-> read, creation |-> x, m5 |-> s.m5, h1 |-> s.h1,
                known |-> c.known, jitter |-> c.jitter]
        /\ \/ s.h1 = x /\ s.m5 = 0
           \/ s.m5 = x /\ s.h1 = 0
           \/ s.m5 = m5 /\ s.h1 = h1 /\ ~(c.h1 > 0 /\ c.m5 = 0) /\ ~(c.m5 > 0 /\ c.h1 = 0)
    <3>1. CASE c.h1 > 0 /\ c.m5 = 0
      BY <2>7, <2>8, <3>1 DEF WithSplit
    <3>2. CASE c.m5 > 0 /\ c.h1 = 0
      BY <1>0, <2>7, <2>8, <3>2 DEF WithSplit
    <3>3. CASE ~(c.h1 > 0 /\ c.m5 = 0) /\ ~(c.m5 > 0 /\ c.h1 = 0)
      BY <2>7, <2>8, <3>3 DEF WithSplit
    <3> QED BY <3>1, <3>2, <3>3
  <2>10. 0 .. actual \subseteq Count /\ 0 \in Count
    BY <2>1, <1>a DEF Count
  <2>11. s.m5 \in Count /\ s.h1 \in Count
    BY <2>6, <2>9, <2>10 DEF Fitting
  <2>12. s \in CacheUsage
    BY <1>0, <2>6, <2>9, <2>10, <2>11 DEF CacheUsage, Usages, Fitting
  <2>13. Split(s)
    <3>1. CASE s.h1 = x /\ s.m5 = 0
      BY <2>1, <2>6, <2>9, <3>1 DEF Split, Fitting
    <3>2. CASE s.m5 = x /\ s.h1 = 0
      BY <2>1, <2>6, <2>9, <3>2 DEF Split, Fitting
    <3>3. CASE s.m5 = m5 /\ s.h1 = h1 /\ ~(c.h1 > 0 /\ c.m5 = 0) /\ ~(c.m5 > 0 /\ c.h1 = 0)
      <4>1. c.m5 = 0 /\ c.h1 = 0
        BY <1>0, <3>3 DEF Scalable, OneSided
      <4>2. m5 = 0 /\ h1 = 0
        BY <2>4, <2>5, <4>1
      <4>3. c.known => x = 0
        BY <1>0, <2>3, <2>6, <4>1 DEF Scalable, Split, Fitting
      <4>4. s.m5 + s.h1 = 0 /\ s.known = c.known /\ s.creation = x
        BY <2>9, <3>3, <4>2
      <4> QED BY <4>3, <4>4 DEF Split
    <3> QED BY <2>9, <3>1, <3>2, <3>3
  <2>14. ASSUME Bounded(c, estimated, actual) PROVE s.read + s.creation <= actual
    <3>1. creation + read <= MaxInt
      <4>1. CASE Apart(c)
        <5>1. creation = 0 \/ read = 0
          BY <2>2, <2>3, <4>1 DEF Apart
        <5> QED BY <1>a, <2>1, <5>1
      <4>2. CASE c.read + c.creation <= MaxInt /\ estimated = actual
        <5>1. read <= c.read /\ creation <= c.creation
          BY <2>2, <2>3, <4>2
        <5> QED BY <1>0, <1>a, <2>1, <4>2, <5>1
      <4> QED BY <2>14, <4>1, <4>2 DEF Bounded
    <3>2. x + read <= actual
      BY <2>6, <3>1 DEF Fitting
    <3>3. s.read = read /\ s.creation = x
      BY <2>9
    <3> QED BY <2>1, <2>2, <2>6, <3>2, <3>3 DEF Fitting
  <2> QED BY <2>12, <2>13, <2>14
<1>4. \/ estimated <= 0 \/ actual <= 0
      \/ estimated > 0 /\ actual > 0 /\ c.jitter > 0 /\ c.creation = 0 /\ c.read > 0
      \/ estimated > 0 /\ actual > 0 /\ ~(c.jitter > 0 /\ c.creation = 0 /\ c.read > 0)
  BY <1>a
<1> QED BY <1>1, <1>2, <1>3, <1>4

\* What is billed is the rest.
LEMMA BilledFacts ==
  ASSUME NEW input \in I32, NEW c \in CacheUsage, NEW b, b = Billed(input, c)
  PROVE  /\ b \in Count
         /\ c.read + c.creation <= input => b + c.read + c.creation = input
<1>1. c.read \in Nat /\ c.creation \in Nat /\ c.read <= MaxInt /\ c.creation <= MaxInt
      /\ MaxInt \in Nat /\ input \in Int /\ input <= MaxInt
  BY Constants DEF CacheUsage, Usages, Count, I32
<1>2. PICK m \in I32 : m = Saturated(input - c.creation)
                       /\ (input - c.creation \in I32 => m = input - c.creation)
  <2>1. input - c.creation \in Int
    BY <1>1
  <2> QED BY <2>1, SaturatedFacts
<1>3. PICK k \in I32 : k = Saturated(m - c.read) /\ (m - c.read \in I32 => k = m - c.read)
  BY <1>1, <1>2, SaturatedFacts DEF I32
<1>4. b = Most(k, 0)
  BY <1>2, <1>3 DEF Billed
<1>5. b \in Count
  BY <1>1, <1>3, <1>4 DEF Most, I32, Count
<1>6. ASSUME c.read + c.creation <= input PROVE b + c.read + c.creation = input
  <2>1. m = input - c.creation
    BY <1>1, <1>2, <1>6 DEF I32
  <2>2. k = m - c.read
    BY <1>1, <1>3, <1>6, <2>1 DEF I32
  <2>3. k >= 0 /\ k \in Int
    BY <1>1, <1>6, <2>1, <2>2
  <2> QED BY <1>1, <1>4, <2>1, <2>2, <2>3 DEF Most
<1> QED BY <1>5, <1>6
-----------------------------------------------------------------------------
(* What the operator's rewriting makes of it.                                 *)

\* The numbers a client may be told.
Told == IF InputsFit /\ ConfigsFit THEN Count ELSE I32

Admitted(range) == range \in Bounds /\ (ConfigsFit => RangeFits(range))
Admissible(config) == config \in Configuration /\ (ConfigsFit => ConfigFits(config))

LEMMA ToldFacts == Count \subseteq Told /\ Told \subseteq Int /\ 0 \in Told /\ CacheUsage \subseteq Usages(Told)
<1>1. Count \subseteq Told /\ Told \subseteq Int /\ 0 \in Told
  BY UsageTypes DEF Told
<1>2. CacheUsage \subseteq Usages(Told)
  BY <1>1 DEF CacheUsage, Usages
<1> QED BY <1>1, <1>2

LEMMA RangeTold ==
  ASSUME NEW range, Admitted(range)
  PROVE  InRange(range) \subseteq Told /\ AsI32(range[2]) \in Told
<1>1. range[1] \in Nat /\ range[2] \in Nat /\ (ConfigsFit => RangeFits(range))
  BY DEF Admitted, Bounds
<1>2. ASSUME NEW n \in Nat, ConfigsFit => n <= MaxInt PROVE AsI32(n) \in Told
  <2>1. AsI32(n) \in I32 /\ (n <= MaxInt => AsI32(n) = n)
    BY AsI32Facts
  <2>2. n <= MaxInt => n \in Count
    BY DEF Count
  <2> QED BY <1>2, <2>1, <2>2 DEF Told
<1>3. AsI32(range[2]) \in Told /\ AsI32(range[1]) \in Told
  BY <1>1, <1>2 DEF RangeFits
<1>4. \A n \in range[1] .. range[2] : AsI32(n) \in Told
  <2> TAKE n \in range[1] .. range[2]
  <2>1. n \in Nat /\ (ConfigsFit => n <= MaxInt)
    BY <1>1, Constants DEF RangeFits
  <2> QED BY <1>2, <2>1
<1>5. InRange(range) \subseteq Told
  BY <1>3, <1>4 DEF InRange
<1> QED BY <1>3, <1>5

LEMMA SegmentsTold ==
  ASSUME NEW segments, \A range \in segments : Admitted(range), NEW fallback, Admitted(fallback)
  PROVE  FromSegments(segments, fallback) \subseteq Told
<1>1. CASE segments = {}
  BY <1>1, RangeTold DEF FromSegments
<1>2. CASE segments # {}
  <2>1. \A range \in segments : InRange(range) \subseteq Told
    BY RangeTold
  <2>2. FromSegments(segments, fallback) = UNION {InRange(s) : s \in segments}
    BY <1>2 DEF FromSegments
  <2> QED BY <2>1, <2>2
<1> QED BY <1>1, <1>2

LEMMA Admissions ==
  ASSUME NEW config, Admissible(config)
  PROVE  /\ Admitted(config.read) /\ Admitted(config.write) /\ Admitted(<<1, config.inputMax>>)
         /\ \A range \in config.readSegments : Admitted(range)
         /\ \A range \in config.writeSegments : Admitted(range)
<1>1. /\ config.read \in Bounds /\ config.write \in Bounds /\ config.inputMax \in Nat
      /\ config.readSegments \subseteq Bounds /\ config.writeSegments \subseteq Bounds
  BY DEF Admissible, Configuration
<1>2. Admitted(config.read) /\ Admitted(config.write)
  BY <1>1 DEF Admissible, Admitted, ConfigFits
<1>3. Admitted(<<1, config.inputMax>>)
  BY <1>1, Constants DEF Admissible, Admitted, ConfigFits, Bounds, RangeFits
<1>4. /\ \A range \in config.readSegments : Admitted(range)
      /\ \A range \in config.writeSegments : Admitted(range)
  BY <1>1 DEF Admissible, Admitted, ConfigFits
<1> QED BY <1>2, <1>3, <1>4

LEMMA WeightedTold ==
  ASSUME NEW read, NEW write, NEW config, Admissible(config)
  PROVE  Weighted(read, write, config) \subseteq Told \X Told
<1> DEFINE reads == FromSegments(config.readSegments, config.read)
           writes == FromSegments(config.writeSegments, config.write)
           Of(shape) == CASE shape = "readOnly"  -> reads \X {0}
                          [] shape = "writeOnly" -> {0} \X writes
                          [] shape = "readWrite" -> reads \X writes
                          [] shape = "none"      -> {<<0, 0>>}
           Shapes == {"readOnly", "writeOnly", "readWrite", "none"}
<1>1. reads \subseteq Told /\ writes \subseteq Told
  BY Admissions, SegmentsTold
<1>2. config.shapes \subseteq Shapes
  BY DEF Admissible, Configuration
<1>3. \A s \in Shapes : Bent(s, read, write, config) \in Shapes
  BY DEF Bent
<1>4. Weighted(read, write, config)
        = IF config.shapes = {} THEN {<<0, 0>>}
          ELSE UNION {Of(Bent(s, read, write, config)) : s \in config.shapes}
  BY DEF Weighted
<1> HIDE DEF reads, writes
<1>5. \A s \in Shapes : Of(s) \subseteq Told \X Told
  <2>1. 0 \in Told
    BY ToldFacts
  <2>2. /\ Of("readOnly") = reads \X {0} /\ Of("writeOnly") = {0} \X writes
        /\ Of("readWrite") = reads \X writes /\ Of("none") = {<<0, 0>>}
    OBVIOUS
  <2> HIDE DEF Of
  <2> QED BY <1>1, <2>1, <2>2
<1> HIDE DEF Of, Shapes
<1>6. \A s \in config.shapes : Of(Bent(s, read, write, config)) \subseteq Told \X Told
  BY <1>2, <1>3, <1>5
<1>7. {<<0, 0>>} \subseteq Told \X Told
  BY ToldFacts
<1> QED BY <1>4, <1>6, <1>7

LEMMA RewrittenTold ==
  ASSUME NEW read \in Told, NEW write \in Told, NEW config, Admissible(config), NEW path
  PROVE  Rewritten(read, write, config, path) \subseteq Told \X Told
<1> DEFINE R == Rewritten(read, write, config, path)
<1>1. {<<read, write>>} \subseteq Told \X Told /\ {<<0, 0>>} \subseteq Told \X Told
  BY ToldFacts
<1>2. CASE ~Applies(config, path) \/ (config.onlyPresent /\ read = 0 /\ write = 0)
  BY <1>1, <1>2 DEF Rewritten
<1>3. CASE ~(~Applies(config, path) \/ (config.onlyPresent /\ read = 0 /\ write = 0))
  <2>1. config.mode \in {"passthrough", "zero", "cap", "random", "weighted"}
    BY DEF Admissible, Configuration
  <2>2. CASE config.mode \in {"passthrough", "zero"}
    BY <1>1, <1>3, <2>2 DEF Rewritten
  <2>3. CASE config.mode = "cap"
    <3>1. R = {<<Least(read, AsI32(config.read[2])), Least(write, AsI32(config.write[2]))>>}
      BY <1>3, <2>3 DEF Rewritten
    <3>2. AsI32(config.read[2]) \in Told /\ AsI32(config.write[2]) \in Told
      BY Admissions, RangeTold
    <3>3. /\ Least(read, AsI32(config.read[2])) \in Told
          /\ Least(write, AsI32(config.write[2])) \in Told
      BY <3>2 DEF Least
    <3> QED BY <3>1, <3>3
  <2>4. CASE config.mode = "random"
    <3>1. R = InRange(config.read) \X InRange(config.write)
      BY <1>3, <2>4 DEF Rewritten
    <3>2. InRange(config.read) \subseteq Told /\ InRange(config.write) \subseteq Told
      BY Admissions, RangeTold
    <3> QED BY <3>1, <3>2
  <2>5. CASE config.mode = "weighted"
    <3>1. R = Weighted(read, write, config)
      BY <1>3, <2>5 DEF Rewritten
    <3> QED BY <3>1, WeightedTold
  <2> QED BY <2>1, <2>2, <2>3, <2>4, <2>5
<1> QED BY <1>2, <1>3
Scales == [min : Nat, max : Nat, read : Nat, write : Nat]

\* A usage as it may be reported.
Reported(c) == c \in Usages(Told) /\ Split(c)

LEMMA WrittenFacts ==
  ASSUME NEW c, Reported(c), NEW read \in Told, NEW creation \in Told
  PROVE  Reported(Written(c, read, creation))
<1> DEFINE w == Written(c, read, creation)
<1>1. /\ c \in Usages(Told) /\ 0 \in Told /\ Told \subseteq Int
      /\ (c.known => c.m5 + c.h1 = c.creation)
  BY ToldFacts DEF Reported, Split
<1>2. CASE creation = c.creation
  <2>1. w = [c EXCEPT !.read = read]
    BY <1>2 DEF Written
  <2> HIDE DEF w
  <2>2. w \in Usages(Told)
    BY <1>1, <2>1 DEF Usages
  <2>3. w.known = c.known /\ w.m5 = c.m5 /\ w.h1 = c.h1 /\ w.creation = c.creation
    BY <1>1, <2>1 DEF Usages
  <2> QED BY <1>1, <2>2, <2>3 DEF Reported, Split, w
<1>3. CASE creation # c.creation
  <2>1. w = [c EXCEPT !.read = read, !.creation = creation, !.m5 = creation, !.h1 = 0]
    BY <1>3 DEF Written
  <2> HIDE DEF w
  <2>2. w \in Usages(Told)
    BY <1>1, <2>1 DEF Usages
  <2>3. w.m5 = creation /\ w.h1 = 0 /\ w.creation = creation
    BY <1>1, <2>1 DEF Usages
  <2>4. creation + 0 = creation
    BY <1>1
  <2> QED BY <2>2, <2>3, <2>4 DEF Reported, Split, w
<1> QED BY <1>2, <1>3

LEMMA TimesTold ==
  ASSUME NEW value \in Told, NEW tenths \in Nat, NEW cap \in Nat \cup {None}
  PROVE  Times(value, tenths, cap) \in Told
<1>1. value \in Int
  BY ToldFacts
<1>2. CASE value <= 0
  BY <1>2 DEF Times
<1>3. CASE value > 0
  <2>1. \A v, t \in Nat : (v * t + 5) \div 10 \in Nat
    <3> TAKE v, t \in Nat
    <3>1. v * t \in Nat
      OBVIOUS
    <3> QED BY <3>1
  <2>2. PICK product \in Nat : product = (value * tenths + 5) \div 10
    BY <1>1, <1>3, <2>1
  <2>3. Times(value, tenths, cap)
          = Least(IF cap = None THEN product ELSE Least(product, cap), MaxInt)
    BY <1>1, <1>3, <2>2 DEF Times
  <2>4. PICK n \in Nat : n = IF cap = None THEN product ELSE Least(product, cap)
    BY <2>2 DEF Least
  <2>5. Least(n, MaxInt) \in Count
    BY Constants DEF Least, Count
  <2> QED BY <2>3, <2>4, <2>5, ToldFacts
<1> QED BY <1>1, <1>2, <1>3

LEMMA InputScaledFacts ==
  ASSUME NEW c, Reported(c), NEW input, NEW config, Admissible(config)
  PROVE  Reported(InputScaled(c, input, config))
<1> DEFINE fitting == {s \in ToSet(config.scale) : s.min <= Most(input, 0) /\ Most(input, 0) <= s.max}
           segments == Within(config.scale, fitting)
<1>1. /\ config.scale \in Seq(Scales) /\ config.capRead \in Nat \cup {None}
      /\ config.capWrite \in Nat \cup {None}
  BY DEF Admissible, Configuration, Scales
<1>2. segments \in Seq(Scales)
  <2> HIDE DEF fitting
  <2> QED BY <1>1, WithinType
<1>3. InputScaled(c, input, config)
        = IF ~config.enabled \/ segments = <<>> THEN c
          ELSE Written(c, Times(c.read, segments[1].read, config.capRead),
                          Times(c.creation, segments[1].write, config.capWrite))
  BY DEF InputScaled
<1> HIDE DEF segments
<1>4. CASE ~config.enabled \/ segments = <<>>
  BY <1>3, <1>4
<1>5. CASE ~(~config.enabled \/ segments = <<>>)
  <2>1. segments[1] \in Scales
    BY <1>2, <1>5
  <2>2. segments[1].read \in Nat /\ segments[1].write \in Nat
    BY <2>1 DEF Scales
  <2>3. c.read \in Told /\ c.creation \in Told
    BY DEF Reported, Usages
  <2> DEFINE x == Times(c.read, segments[1].read, config.capRead)
             y == Times(c.creation, segments[1].write, config.capWrite)
  <2>4. x \in Told /\ y \in Told
    BY <1>1, <2>2, <2>3, TimesTold
  <2> HIDE DEF x, y
  <2>5. Reported(Written(c, x, y))
    BY <2>4, WrittenFacts
  <2> QED BY <1>3, <1>5, <2>5 DEF x, y
<1> QED BY <1>4, <1>5

\* Whatever the configuration, the split that is reported adds up.
LEMMA FieldsReported ==
  ASSUME NEW c, Reported(c), NEW input, NEW config, Admissible(config), NEW path
  PROVE  \A f \in Fields(c, input, config, path) : Reported(f)
<1>1. c.read \in Told /\ c.creation \in Told
  BY DEF Reported, Usages
<1>2. Rewritten(c.read, c.creation, config, path) \subseteq Told \X Told
  BY <1>1, RewrittenTold
<1>3. ASSUME NEW pair \in Rewritten(c.read, c.creation, config, path)
      PROVE  Reported(InputScaled(Written(c, pair[1], pair[2]), input, config))
  <2>1. pair[1] \in Told /\ pair[2] \in Told
    BY <1>2
  <2> DEFINE w == Written(c, pair[1], pair[2])
  <2>2. Reported(w)
    BY <2>1, WrittenFacts
  <2> HIDE DEF w
  <2>3. Reported(InputScaled(w, input, config))
    BY <2>2, InputScaledFacts
  <2> QED BY <2>3 DEF w
<1>4. Fields(c, input, config, path)
        = {InputScaled(Written(c, pair[1], pair[2]), input, config) :
             pair \in Rewritten(c.read, c.creation, config, path)}
  BY DEF Fields
<1> QED BY <1>3, <1>4

LEMMA InputsTold ==
  ASSUME NEW input \in Told, NEW config, Admissible(config), NEW path
  PROVE  Inputs(input, config, path) \subseteq Told
<1>1. CASE ~Applies(config, path) \/ config.inputMax = 0
  BY <1>1 DEF Inputs
<1>2. CASE ~(~Applies(config, path) \/ config.inputMax = 0)
  <2>1. Inputs(input, config, path) = InRange(<<1, config.inputMax>>)
    BY <1>2 DEF Inputs
  <2>2. InRange(<<1, config.inputMax>>) \subseteq Told
    BY Admissions, RangeTold
  <2> QED BY <2>1, <2>2
<1> QED BY <1>1, <1>2

-----------------------------------------------------------------------------
(* Types: a request under way, and what is known of it at each step.          *)
Working == {"reading", "bypass", "fields", "input", "done"}
Active == {"sent", "connected", "open"} \cup Working

\* What a client may be told its input is, before the operator's rewriting.
Counted == IF InputsFit THEN Count ELSE I32

Sources == {c \in CacheUsage : Split(c) /\ OneSided(c)}
Reportable == {c \in Usages(Told) : Split(c)}
Report == [input : Told, cache : Seq(Reportable)]
Triples == {<<>>} \cup (I32 \X I32 \X I32)

Handling ==
  [pc : Active, body : Bodies, path : Paths \cup {None}, estimate : I32,
   cred : Credentials \cup {None}, at : Nat \cup {None}, cache : Seq(Sources), events : Nat,
   input : Counted, context : Counted \cup {None}, upstream : Count \cup {None},
   parts : Triples, bypass : BOOLEAN, fields : Seq(Reportable), billed : Told \cup {None},
   touched : BOOLEAN, reports : Seq(Report)]

\* Before the report nothing is reported; before the input is rewritten it is billed.
Handled ==
  {q \in Handling :
     /\ q.pc = "input" => q.billed \in Told
     /\ q.pc \in {"sent", "connected", "open", "reading"} => q.reports = <<>>
     /\ q.pc = "connected" => q.at \in Nat /\ q.cred \in Credentials /\ q.cache # <<>>}

Handles == [Requests -> Handled \cup {Idle, Gone}]

Typed ==
  /\ accounting \in BOOLEAN /\ now \in Nat
  /\ optimizer \in Configs \cup Started
  /\ req \in Handles

LEMMA CountedFacts ==
  /\ Counted \subseteq I32 /\ Counted \subseteq Told /\ Count \subseteq Counted
  /\ None \notin Count /\ None \in I32
<1>1. Count \subseteq I32 /\ I32 \subseteq Int /\ None \in I32
  BY UsageTypes
<1>2. None \notin Count
  BY Constants DEF None, Count
<1>3. CASE InputsFit /\ ConfigsFit
  BY <1>1, <1>2, <1>3 DEF Counted, Told
<1>4. CASE ~(InputsFit /\ ConfigsFit)
  BY <1>1, <1>2, <1>4 DEF Counted, Told
<1> QED BY <1>3, <1>4

\* What a request under way has of every field.
LEMMA HandlingFields ==
  ASSUME NEW q \in Handled
  PROVE  /\ q \in Handling
         /\ q.pc \in Active /\ q.body \in Bodies /\ q.path \in Paths \cup {None}
         /\ q.cache \in Seq(Sources) /\ q.fields \in Seq(Reportable)
         /\ q.input \in Counted /\ q.context \in Counted \cup {None}
         /\ q.upstream \in Count \cup {None} /\ q.parts \in Triples
         /\ q.reports \in Seq(Report) /\ q.touched \in BOOLEAN
BY DEF Handled, Handling

LEMMA ActiveRequest ==
  ASSUME req \in Handles, NEW r \in Requests, req[r].pc \in Active
  PROVE  req[r] \in Handled
BY DEF Handles, Idle, Gone, Active, Working

LEMMA SetRequest ==
  ASSUME req \in Handles, NEW r \in Requests, NEW q, q \in Handled \cup {Idle, Gone},
         req' = [req EXCEPT ![r] = q]
  PROVE  /\ req' \in Handles /\ req'[r] = q
         /\ \A x \in Requests \ {r} : req'[x] = req[x]
BY DEF Handles

\* A tokenUsage tells a positive input, or none.
LEMMA InputOfFacts ==
  ASSUME NEW e \in UsageEvents, e.kind = "usage"
  PROVE  /\ e.parts \in Triples
         /\ InputOf(e) \in Count \cup {None}
         /\ InputOf(e) # None => InputOf(e) > 0
         /\ e.parts # <<>> => e.parts \in Count \X Count \X Count
         /\ PartsFit /\ e.parts # <<>> /\ Sum(e.parts) > 0 => InputOf(e) = Sum(e.parts)
<1>1. e \in UsageEvent
  BY PromptCacheAssumption
<1>2. /\ e.parts \in Triples /\ e.rest \in I32
      /\ e.parts # <<>> => e.parts \in Count \X Count \X Count
  BY <1>1, UsageTypes DEF UsageEvent, Triples
<1> DEFINE s == IF e.parts = <<>> THEN 0
                ELSE Saturated(Saturated(e.parts[1] + e.parts[2]) + e.parts[3])
<1>3. InputOf(e) = IF s > 0 THEN s ELSE IF e.rest > 0 THEN e.rest ELSE None
  BY DEF InputOf
<1>4. s \in I32 /\ (PartsFit /\ e.parts # <<>> => s = Sum(e.parts))
  <2>1. CASE e.parts = <<>>
    BY <2>1, UsageTypes
  <2>2. CASE e.parts # <<>>
    <3>1. PICK a \in I32, b \in I32, c \in I32 : a = e.parts[1] /\ b = e.parts[2] /\ c = e.parts[3]
      BY <1>2, <2>2 DEF Triples
    <3>2. a \in Int /\ b \in Int /\ c \in Int
      BY <3>1, UsageTypes
    <3>3. Saturated(a + b) \in I32 /\ (a + b \in I32 => Saturated(a + b) = a + b)
      BY <3>2, SaturatedFacts
    <3>4. PICK t \in Int : t = Saturated(a + b)
      BY <3>3, UsageTypes
    <3>5. Saturated(t + c) \in I32 /\ (t + c \in I32 => Saturated(t + c) = t + c)
      BY <3>2, SaturatedFacts
    <3>6. s = Saturated(t + c)
      BY <2>2, <3>1, <3>4
    <3>7. ASSUME PartsFit PROVE s = Sum(e.parts)
      <4>0. a >= 0 /\ b >= 0 /\ c >= 0
        BY <1>2, <2>2, <3>1 DEF Count
      <4>1. a >= 0 /\ b >= 0 /\ c >= 0 /\ Sum(e.parts) <= MaxInt /\ Sum(e.parts) = a + b + c
        BY <2>2, <3>1, <3>7, <4>0 DEF PartsFit, Sum
      <4>2. a + b \in I32 /\ a + b + c \in I32
        BY <3>2, <4>1, Constants DEF I32
      <4> QED BY <3>3, <3>4, <3>5, <3>6, <4>1, <4>2
    <3> QED BY <3>5, <3>6, <3>7
  <2> QED BY <2>1, <2>2
<1> HIDE DEF s
<1>5. \A n \in I32 : n > 0 => n \in Count /\ n # None
  BY UsageTypes DEF None
<1> QED BY <1>2, <1>3, <1>4, <1>5

LEMMA UpstreamCacheFacts ==
  ASSUME NEW parts \in I32 \X I32 \X I32, NEW c, c = UpstreamCache(parts)
  PROVE  /\ c \in Sources
         /\ c.read = Most(parts[2], 0) /\ c.creation = Most(parts[3], 0)
<1>1. \A n \in I32 : Most(n, 0) \in Count
  <2>1. \A n \in I32 : n \in Int /\ (n >= 0 => n \in Count)
    BY UsageTypes
  <2> QED BY <2>1, UsageTypes, LeastMost
<1>2. parts[2] \in I32 /\ parts[3] \in I32
  OBVIOUS
<1> DEFINE a == Most(parts[2], 0)
           b == Most(parts[3], 0)
<1>3. a \in Count /\ b \in Count
  BY <1>1, <1>2
<1>4. c = [NoCache EXCEPT !.read = a, !.creation = b, !.known = FALSE]
  BY DEF UpstreamCache
<1> HIDE DEF a, b
<1>5. c = [read |-> a, creation |-> b, m5 |-> 0, h1 |-> 0, known |-> FALSE, jitter |-> 0]
  BY <1>4 DEF NoCache
<1>6. c \in CacheUsage /\ Split(c) /\ OneSided(c)
  BY <1>3, <1>5, UsageTypes DEF CacheUsage, Usages, Split, OneSided
<1> QED BY <1>5, <1>6 DEF Sources, a, b

\* Whatever the fields have become, what is billed is a count.
LEMMA BilledCount ==
  ASSUME NEW input \in I32, NEW c, c.read \in Int, c.creation \in Int
  PROVE  Billed(input, c) \in Count
<1>1. PICK n \in Int : n = input - c.creation
  BY UsageTypes
<1>2. PICK m \in I32 : m = Saturated(n)
  BY SaturatedFacts
<1>3. PICK k \in Int : k = m - c.read
  BY UsageTypes
<1>4. PICK l \in I32 : l = Saturated(k)
  BY SaturatedFacts
<1>5. l \in Int /\ (l >= 0 => l \in Count) /\ 0 \in Count
  BY UsageTypes
<1>6. Most(l, 0) \in Count
  BY <1>5, LeastMost
<1>7. Billed(input, c) = Most(l, 0)
  BY <1>1, <1>2, <1>3, <1>4 DEF Billed
<1> QED BY <1>6, <1>7

\* The input and the usage a report is made of.
Billable == {c \in CacheUsage : Split(c)}

LEMMA FinalFacts ==
  ASSUME NEW q \in Handled
  PROVE  /\ FinalInput(q) \in Counted
         /\ FinalCache(q) \in Seq(Billable)
<1>1. FinalInput(q) \in Counted
  <2>1. /\ q.input \in Counted /\ q.context \in Counted \cup {None}
        /\ q.upstream \in Count \cup {None}
    BY HandlingFields
  <2> QED BY <2>1, CountedFacts DEF FinalInput
<1>2. CASE q.path = "whole" /\ q.parts # <<>>
  <2>1. q.parts \in I32 \X I32 \X I32
    BY <1>2, HandlingFields DEF Triples
  <2>2. UpstreamCache(q.parts) \in Billable
    BY <2>1, UpstreamCacheFacts DEF Sources, Billable
  <2>3. FinalCache(q) = <<UpstreamCache(q.parts)>>
    BY <1>2 DEF FinalCache
  <2>4. \A x \in Billable : <<x>> \in Seq(Billable)
    OBVIOUS
  <2> QED BY <1>1, <2>2, <2>3, <2>4
<1>3. CASE ~(q.path = "whole" /\ q.parts # <<>>)
  <2>1. PICK n \in Nat : n = Len(q.cache) /\ DOMAIN q.cache = 1 .. n
    BY HandlingFields
  <2>2. ASSUME NEW i \in 1 .. n PROVE Scaled(q.cache[i], q.input, FinalInput(q)) \in Billable
    <3>1. q.cache[i] \in Sources
      BY <2>1, HandlingFields
    <3>2. Scalable(q.cache[i])
      BY <3>1 DEF Sources, Scalable
    <3>3. q.input \in I32 /\ FinalInput(q) \in I32
      BY <1>1, HandlingFields, CountedFacts
    <3> QED BY <3>2, <3>3, ScaledFacts DEF Billable
  <2>3. FinalCache(q) = [i \in 1 .. n |-> Scaled(q.cache[i], q.input, FinalInput(q))]
    BY <1>3, <2>1 DEF FinalCache
  <2>4. [i \in 1 .. n |-> Scaled(q.cache[i], q.input, FinalInput(q))] \in [1 .. n -> Billable]
    BY <2>2
  <2> DEFINE f == [i \in 1 .. n |-> Scaled(q.cache[i], q.input, FinalInput(q))]
  <2> HIDE DEF f
  <2>5. f \in Seq(Billable)
    BY <2>1, <2>4, FunctionIsSeq DEF f
  <2> QED BY <1>1, <2>3, <2>5 DEF f
<1> QED BY <1>1, <1>2, <1>3

-----------------------------------------------------------------------------
(* Every step keeps the types.                                                *)
Fresh(body) ==
  [pc |-> "sent", body |-> body, path |-> None, estimate |-> body.estimate,
   cred |-> None, at |-> None, cache |-> <<>>,
   events |-> 0, input |-> body.estimate, context |-> None, upstream |-> None,
   parts |-> <<>>, bypass |-> FALSE, fields |-> <<>>, billed |-> None,
   touched |-> FALSE, reports |-> <<>>]

LEMMA FreshHandled ==
  ASSUME NEW body \in Bodies
  PROVE  Fresh(body) \in Handled
<1>1. body.estimate \in I32 /\ (InputsFit => body.estimate >= 0)
  BY PromptCacheAssumption DEF InputsFit
<1>2. body.estimate \in I32 /\ body.estimate \in Counted
  BY <1>1, UsageTypes DEF Counted
<1>3. <<>> \in Seq(Sources) /\ <<>> \in Seq(Reportable) /\ <<>> \in Seq(Report)
  OBVIOUS
<1>4. Fresh(body) \in Handling
  BY <1>2, <1>3 DEF Fresh, Handling, Active, Triples
<1> QED BY <1>4 DEF Handled, Fresh

LEMMA ArriveSets ==
  ASSUME NEW r \in Requests, Arrive(r)
  PROVE  \E body \in Bodies :
           /\ req[r] = Idle /\ req' = [req EXCEPT ![r] = Fresh(body)]
           /\ entries' = IF accounting THEN Pruned(entries, Profiles[body], now) ELSE entries
BY DEF Arrive, Fresh

\* What compute() and its caller leave of a request.
Asked(q, cred, time, c) ==
  [q EXCEPT !.pc = "connected", !.cred = cred, !.at = time, !.cache = <<c>>]

LEMMA AskedHandled ==
  ASSUME NEW q \in Handled, q.pc = "sent", NEW cred \in Credentials, NEW time \in Nat,
         NEW c \in Sources
  PROVE  Asked(q, cred, time, c) \in Handled
<1>1. <<c>> \in Seq(Sources) /\ <<c>> # <<>>
  OBVIOUS
<1>2. Asked(q, cred, time, c) \in Handling
  BY <1>1, HandlingFields DEF Asked, Handling, Active
<1>3. Asked(q, cred, time, c).reports = <<>>
  BY DEF Asked, Handled, Handling
<1>4. /\ Asked(q, cred, time, c).pc = "connected" /\ Asked(q, cred, time, c).at = time
      /\ Asked(q, cred, time, c).cred = cred /\ Asked(q, cred, time, c).cache = <<c>>
  BY HandlingFields DEF Asked, Handling
<1> QED BY <1>1, <1>2, <1>3, <1>4 DEF Handled

LEMMA ComputedSource ==
  ASSUME NEW q \in Handled, NEW known, NEW cred, NEW time, NEW jitter \in Jitters
  PROVE  Computed(known, cred, ProfileOf(q), time, jitter) \in Sources
<1>1. q.body \in Bodies
  BY HandlingFields
<1>2. Profiled(ProfileOf(q))
  BY <1>1, ProfileFacts DEF ProfileOf
<1> DEFINE c == Computed(known, cred, ProfileOf(q), time, jitter)
<1>3. c \in CacheUsage /\ Split(c) /\ OneSided(c)
  BY <1>2, ComputedFacts
<1> HIDE DEF c
<1> QED BY <1>3 DEF Sources, c

\* The steps that read an answer and decide about it.
Opened(q) == [q EXCEPT !.pc = "open"]
Recorded(q) == [q EXCEPT !.pc = "open", !.at = None]
Answered(q, path) == [q EXCEPT !.pc = "reading", !.path = path]
Closed(q) == [q EXCEPT !.pc = "bypass"]
Decided(q, bypass) == [q EXCEPT !.pc = "fields", !.bypass = bypass]

LEMMA MovedHandled ==
  ASSUME NEW q \in Handled, NEW path \in Paths, NEW bypass \in BOOLEAN
  PROVE  /\ q.pc \in {"sent", "connected"} => Opened(q) \in Handled /\ Recorded(q) \in Handled
         /\ q.pc = "open" => Answered(q, path) \in Handled
         /\ Closed(q) \in Handled
         /\ Decided(q, bypass) \in Handled
<1>1. /\ Opened(q) \in Handling /\ Opened(q).pc = "open" /\ Opened(q).reports = q.reports
      /\ Recorded(q) \in Handling /\ Recorded(q).pc = "open" /\ Recorded(q).reports = q.reports
  BY HandlingFields, ZenonT(60) DEF Opened, Recorded, Handling, Active
<1>2. /\ Answered(q, path) \in Handling /\ Answered(q, path).pc = "reading"
      /\ Answered(q, path).reports = q.reports
  BY HandlingFields, ZenonT(60) DEF Answered, Handling, Active, Working
<1>3. Closed(q) \in Handling /\ Closed(q).pc = "bypass"
  BY HandlingFields, ZenonT(60) DEF Closed, Handling, Active, Working
<1>4. Decided(q, bypass) \in Handling /\ Decided(q, bypass).pc = "fields"
  BY HandlingFields, ZenonT(60) DEF Decided, Handling, Active, Working
<1>5. q.pc \in {"sent", "connected", "open"} => q.reports = <<>>
  BY DEF Handled
<1> QED BY <1>1, <1>2, <1>3, <1>4, <1>5 DEF Handled

\* What an event of the answer leaves of it.

\* Nothing but these fields changes in the course of an answer.
SameCourse(x, q) ==
  x.pc = q.pc /\ x.path = q.path /\ x.reports = q.reports /\ x.body = q.body
    /\ x.touched = q.touched /\ x.at = q.at /\ x.cred = q.cred

LEMMA HeardFacts ==
  ASSUME NEW q \in Handling
  PROVE  /\ Heard(q) \in Handling /\ SameCourse(Heard(q), q)
         /\ Heard(q).cache = q.cache /\ Heard(q).input = q.input /\ Heard(q).context = q.context
         /\ Heard(q).upstream = q.upstream /\ Heard(q).parts = q.parts
<1>1. PICK n \in Nat : n = q.events + 1
  BY DEF Handling
<1>2. Heard(q) = [q EXCEPT !.events = n]
  BY <1>1 DEF Heard
<1> QED BY <1>2, ZenonT(60) DEF Handling, SameCourse

LEMMA ContextFacts ==
  ASSUME NEW q \in Handling, NEW tokens \in Counted \cup {None}, NEW x,
         x = [q EXCEPT !.context = tokens]
  PROVE  /\ x \in Handling /\ SameCourse(x, q)
         /\ x.cache = q.cache /\ x.input = q.input /\ x.context = tokens
         /\ x.upstream = q.upstream /\ x.parts = q.parts
BY DEF Handling, SameCourse

LEMMA CollectedFacts ==
  ASSUME NEW q \in Handling, NEW e \in UsageEvents, e.kind = "usage", NEW x, x = Collected(q, e)
  PROVE  /\ x \in Handling /\ SameCourse(x, q)
         /\ x.cache = q.cache /\ x.input = q.input /\ x.context = q.context
         /\ x.upstream = InputOf(e) /\ x.parts = e.parts
BY InputOfFacts DEF Handling, SameCourse, Collected

LEMMA StreamedFacts ==
  ASSUME NEW q \in Handling, NEW e \in UsageEvents, e.kind = "usage", NEW x, x = Streamed(q, e)
  PROVE  /\ x \in Handling /\ SameCourse(x, q)
         /\ x.cache = IF e.parts = <<>> THEN q.cache ELSE <<UpstreamCache(e.parts)>>
         /\ x.input = IF InputOf(e) = None THEN q.input ELSE InputOf(e)
         /\ x.context = IF InputOf(e) = None THEN q.context ELSE InputOf(e)
         /\ x.upstream = IF InputOf(e) = None THEN q.upstream ELSE InputOf(e)
         /\ x.parts = q.parts
<1> DEFINE i == InputOf(e)
           y == IF i = None THEN q ELSE [q EXCEPT !.input = i, !.context = i, !.upstream = i]
<1>1. i \in Count \cup {None}
  BY InputOfFacts
<1>2. i # None => i \in Counted
  BY <1>1, CountedFacts
<1> HIDE DEF i
<1>3. /\ y \in Handling /\ SameCourse(y, q) /\ y.cache = q.cache /\ y.parts = q.parts
      /\ y.input = IF i = None THEN q.input ELSE i
      /\ y.context = IF i = None THEN q.context ELSE i
      /\ y.upstream = IF i = None THEN q.upstream ELSE i
  BY <1>1, <1>2, ZenonT(60) DEF Handling, SameCourse
<1> HIDE DEF y
<1>4. x = IF e.parts = <<>> THEN y ELSE [y EXCEPT !.cache = <<UpstreamCache(e.parts)>>]
  BY DEF Streamed, y, i
<1>5. CASE e.parts = <<>>
  BY <1>3, <1>4, <1>5 DEF i
<1>6. CASE e.parts # <<>>
  <2>1. e.parts \in I32 \X I32 \X I32
    BY <1>6, InputOfFacts DEF Triples
  <2>2. PICK c \in Sources : c = UpstreamCache(e.parts)
    BY <2>1, UpstreamCacheFacts
  <2>3. <<c>> \in Seq(Sources)
    BY <2>2
  <2>4. x = [y EXCEPT !.cache = <<c>>]
    BY <1>4, <1>6, <2>2
  <2>5. /\ x \in Handling /\ SameCourse(x, y) /\ x.cache = <<c>> /\ x.parts = y.parts
        /\ x.input = y.input /\ x.context = y.context /\ x.upstream = y.upstream
    BY <1>3, <2>3, <2>4, ZenonT(60) DEF Handling, SameCourse
  <2>6. SameCourse(x, q)
    BY <1>3, <2>5 DEF SameCourse
  <2> QED BY <1>3, <1>6, <2>2, <2>5, <2>6 DEF i
<1> QED BY <1>5, <1>6

LEMMA ReceivedHandled ==
  ASSUME NEW q \in Handled, q.pc = "reading", NEW e \in UsageEvents
  PROVE  Received(Heard(q), e) \in Handled /\ SameCourse(Received(Heard(q), e), q)
<1>1. q \in Handling /\ q.reports = <<>>
  BY DEF Handled
<1>2. PICK h \in Handling : h = Heard(q) /\ SameCourse(h, q)
  BY <1>1, HeardFacts
<1>3. ASSUME NEW x, x \in Handling, SameCourse(x, h)
      PROVE  x \in Handled /\ SameCourse(x, q)
  BY <1>1, <1>2, <1>3 DEF Handled, SameCourse
<1>4. e \in UsageEvent
  BY PromptCacheAssumption
<1>5. CASE e.kind = "context"
  <2>1. e.tokens \in I32 /\ (InputsFit => e.tokens >= 0)
    BY <1>4, <1>5 DEF UsageEvent, InputsFit
  <2>2. e.tokens \in Counted
    BY <2>1, UsageTypes DEF Counted
  <2>3. Received(h, e) = h \/ Received(h, e) = [h EXCEPT !.context = e.tokens]
    BY <1>2, <1>5 DEF Received
  <2>4. SameCourse(h, h)
    BY DEF SameCourse
  <2>5. CASE Received(h, e) = h
    BY <1>2, <1>3, <2>4, <2>5
  <2>6. CASE Received(h, e) = [h EXCEPT !.context = e.tokens]
    <3>1. Received(h, e) \in Handling /\ SameCourse(Received(h, e), h)
      BY <1>2, <2>2, <2>6, ContextFacts
    <3> QED BY <1>2, <1>3, <3>1
  <2> QED BY <2>3, <2>5, <2>6
<1>6. CASE e.kind # "context"
  <2>1. e.kind = "usage"
    BY <1>4, <1>6 DEF UsageEvent
  <2>2. Received(h, e) = Collected(h, e) \/ Received(h, e) = Streamed(h, e)
    BY <1>2, <1>6 DEF Received
  <2>3. Received(h, e) \in Handling /\ SameCourse(Received(h, e), h)
    BY <1>2, <2>1, <2>2, CollectedFacts, StreamedFacts
  <2> QED BY <1>2, <1>3, <2>3
<1> QED BY <1>5, <1>6

\* What the cache fields may become, what is billed with them, and the request then.
Outcomes(q, config) ==
  IF q.bypass \/ FinalCache(q) = <<>> THEN {FinalCache(q)}
  ELSE {<<c>> : c \in Fields(FinalCache(q)[1], FinalInput(q), config, q.path)}
Paid(q, fields) == IF fields = <<>> THEN FinalInput(q) ELSE Billed(FinalInput(q), fields[1])
Refielded(q, fields) ==
  [q EXCEPT !.pc = "input", !.fields = fields, !.touched = @ \/ fields /= FinalCache(q),
            !.billed = Paid(q, IF q.path = "whole" THEN FinalCache(q) ELSE fields)]

LEMMA RewriteFieldsSets ==
  ASSUME NEW r \in Requests, RewriteFields(r)
  PROVE  /\ req[r].pc = "fields"
         /\ \E fields \in Outcomes(req[r], optimizer) :
              req' = [req EXCEPT ![r] = Refielded(req[r], fields)]
BY DEF RewriteFields, Outcomes, Refielded, Paid

LEMMA OutcomesReportable ==
  ASSUME NEW q \in Handled, NEW config, Admissible(config), NEW fields \in Outcomes(q, config)
  PROVE  fields \in Seq(Reportable)
<1>1. FinalCache(q) \in Seq(Billable)
  BY FinalFacts
<1>2. Billable \subseteq Reportable
  BY ToldFacts DEF Billable, Reportable
<1>3. CASE q.bypass \/ FinalCache(q) = <<>>
  <2>1. fields = FinalCache(q)
    BY <1>3 DEF Outcomes
  <2> QED BY <1>1, <1>2, <2>1
<1>4. CASE ~(q.bypass \/ FinalCache(q) = <<>>)
  <2>1. FinalCache(q)[1] \in Billable
    BY <1>1, <1>4
  <2>2. Reported(FinalCache(q)[1])
    BY <1>2, <2>1 DEF Reported, Reportable
  <2>3. PICK c \in Fields(FinalCache(q)[1], FinalInput(q), config, q.path) : fields = <<c>>
    BY <1>4 DEF Outcomes
  <2>4. Reported(c)
    BY <2>2, <2>3, FieldsReported
  <2>5. c \in Reportable
    BY <2>4 DEF Reported, Reportable
  <2> QED BY <2>3, <2>5
<1> QED BY <1>3, <1>4

LEMMA PaidTold ==
  ASSUME NEW q \in Handled, NEW fields \in Seq(Reportable)
  PROVE  Paid(q, fields) \in Told
<1>1. FinalInput(q) \in I32 /\ FinalInput(q) \in Told
  BY FinalFacts, CountedFacts
<1>2. CASE fields = <<>>
  BY <1>1, <1>2 DEF Paid
<1>3. CASE fields # <<>>
  <2>1. fields[1] \in Reportable
    BY <1>3
  <2>2. fields[1].read \in Told /\ fields[1].creation \in Told
    BY <2>1 DEF Reportable, Usages
  <2>3. Billed(FinalInput(q), fields[1]) \in Count
    BY <1>1, <2>2, BilledCount, ToldFacts
  <2> QED BY <1>3, <2>3, ToldFacts DEF Paid
<1> QED BY <1>2, <1>3

LEMMA RefieldedHandled ==
  ASSUME NEW q \in Handled, NEW config, Admissible(config), NEW fields \in Outcomes(q, config)
  PROVE  Refielded(q, fields) \in Handled
<1>1. fields \in Seq(Reportable) /\ FinalCache(q) \in Seq(Reportable)
  <2>1. Billable \subseteq Reportable
    BY ToldFacts DEF Billable, Reportable
  <2> QED BY <2>1, OutcomesReportable, FinalFacts
<1> DEFINE b == Paid(q, IF q.path = "whole" THEN FinalCache(q) ELSE fields)
           t == q.touched \/ fields /= FinalCache(q)
<1>2. b \in Told
  BY <1>1, PaidTold
<1>3. t \in BOOLEAN
  BY HandlingFields
<1>4. Refielded(q, fields) = [q EXCEPT !.pc = "input", !.fields = fields, !.touched = t, !.billed = b]
  BY DEF Refielded
<1> HIDE DEF b, t
<1>5. Refielded(q, fields) \in Handling
  BY <1>1, <1>2, <1>3, <1>4, HandlingFields, ZenonT(60) DEF Handling, Active, Working
<1>6. Refielded(q, fields).pc = "input" /\ Refielded(q, fields).billed = b
  BY <1>4, HandlingFields DEF Handling
<1> QED BY <1>2, <1>5, <1>6 DEF Handled

\* The input is told, in the reports there are and in one more.
Retold(q, input) ==
  [q EXCEPT !.pc = IF q.path = "buffered" /\ q.reports = <<>> THEN "bypass" ELSE "done",
            !.touched = @ \/ input /= q.billed,
            !.reports = [i \in DOMAIN @ |-> [@[i] EXCEPT !.input = input]]
                          \o <<[input |-> input, cache |-> q.fields]>>]
Retellings(q, config) == IF q.bypass THEN {q.billed} ELSE Inputs(q.billed, config, q.path)
Telling(q, input) ==
  [i \in DOMAIN q.reports |-> [q.reports[i] EXCEPT !.input = input]]
    \o <<[input |-> input, cache |-> q.fields]>>

LEMMA RewriteInputSets ==
  ASSUME NEW r \in Requests, RewriteInput(r)
  PROVE  /\ req[r].pc = "input"
         /\ \E input \in Retellings(req[r], optimizer) :
              req' = [req EXCEPT ![r] = Retold(req[r], input)]
BY DEF RewriteInput, Retold, Retellings

LEMMA TellingFacts ==
  ASSUME NEW q \in Handled, NEW input \in Told
  PROVE  /\ Telling(q, input) \in Seq(Report)
         /\ \A i \in DOMAIN Telling(q, input) :
              \/ i \in DOMAIN q.reports /\ Telling(q, input)[i] = [input |-> input, cache |-> q.reports[i].cache]
              \/ Telling(q, input)[i] = [input |-> input, cache |-> q.fields]
<1>1. PICK n \in Nat : n = Len(q.reports) /\ DOMAIN q.reports = 1 .. n
  BY HandlingFields
<1> DEFINE f == [i \in 1 .. n |-> [q.reports[i] EXCEPT !.input = input]]
           x == [input |-> input, cache |-> q.fields]
<1>2. ASSUME NEW i \in 1 .. n
      PROVE  /\ [q.reports[i] EXCEPT !.input = input] \in Report
             /\ [q.reports[i] EXCEPT !.input = input]
                  = [input |-> input, cache |-> q.reports[i].cache]
  <2>1. q.reports[i] \in Report
    BY <1>1, HandlingFields
  <2> QED BY <2>1 DEF Report
<1>3. f \in [1 .. n -> Report]
  BY <1>2
<1>4. f \in Seq(Report) /\ Len(f) = n
  <2> HIDE DEF f
  <2> QED BY <1>3, FunctionIsSeq
<1>5. x \in Report
  BY HandlingFields DEF Report
<1>6. Telling(q, input) = f \o <<x>>
  BY <1>1 DEF Telling
<1>7. \A i \in 1 .. n : f[i] = [input |-> input, cache |-> q.reports[i].cache]
  BY <1>2
<1> HIDE DEF f, x
<1>8. f \o <<x>> \in Seq(Report) /\ DOMAIN (f \o <<x>>) = 1 .. n + 1
  BY <1>4, <1>5
<1>9. \A i \in 1 .. n + 1 : (f \o <<x>>)[i] = IF i <= n THEN f[i] ELSE x
  BY <1>4, <1>5
<1> QED BY <1>1, <1>6, <1>7, <1>8, <1>9 DEF x

LEMMA RetoldHandled ==
  ASSUME NEW q \in Handled, q.pc = "input", NEW config, Admissible(config),
         NEW input \in Retellings(q, config)
  PROVE  Retold(q, input) \in Handled /\ input \in Told
<1>1. q.billed \in Told
  BY DEF Handled
<1>2. input \in Told
  BY <1>1, InputsTold DEF Retellings
<1>3. Telling(q, input) \in Seq(Report)
  BY <1>2, TellingFacts
<1> DEFINE t == q.touched \/ input /= q.billed
           p == IF q.path = "buffered" /\ q.reports = <<>> THEN "bypass" ELSE "done"
<1>4. Retold(q, input) = [q EXCEPT !.pc = p, !.touched = t, !.reports = Telling(q, input)]
  BY DEF Retold, Telling
<1>5. t \in BOOLEAN /\ p \in {"bypass", "done"}
  BY HandlingFields
<1> HIDE DEF t, p
<1>6. Retold(q, input) \in Handling /\ Retold(q, input).pc \in {"bypass", "done"}
  BY <1>3, <1>4, <1>5, HandlingFields, ZenonT(60) DEF Handling, Active, Working
<1> QED BY <1>2, <1>6 DEF Handled

-----------------------------------------------------------------------------
(* What one step makes of one request.                                        *)
Connecting(q, x) ==
  q.pc = "sent" /\ \E known, cred, time, j :
    /\ cred \in Credentials /\ time \in Nat /\ j \in Jitters
    /\ x = Asked(q, cred, time, Computed(known, cred, ProfileOf(q), time, j))
Opening(q, x) == (q.pc = "sent" /\ x = Opened(q)) \/ (q.pc = "connected" /\ x = Recorded(q))
Answering(q, x) == q.pc = "open" /\ \E path \in Paths : x = Answered(q, path)
Receiving(q, x) == q.pc = "reading" /\ \E e \in UsageEvents : x = Received(Heard(q), e)
Deciding(q, x) ==
  (q.pc = "reading" /\ x = Closed(q))
    \/ (q.pc = "bypass" /\ \E bypass \in BOOLEAN : x = Decided(q, bypass))
Refielding(q, x) ==
  q.pc = "fields" /\ \E config : Admissible(config) /\ \E fields \in Outcomes(q, config) :
                       x = Refielded(q, fields)
Retelling(q, x) ==
  q.pc = "input" /\ \E config : Admissible(config) /\ \E input \in Retellings(q, config) :
                      x = Retold(q, input)

Proceeds(q, x) ==
  \/ Connecting(q, x) \/ Opening(q, x) \/ Answering(q, x) \/ Receiving(q, x)
  \/ Deciding(q, x) \/ Refielding(q, x) \/ Retelling(q, x)

\* A request stays as it is, comes, goes or proceeds.
Evolves(q, x) ==
  \/ x = q
  \/ q = Idle /\ \E body \in Bodies : x = Fresh(body)
  \/ x = Gone
  \/ q \in Handled /\ Proceeds(q, x)

LEMMA ProceedsHandled ==
  ASSUME NEW q \in Handled, NEW x, Proceeds(q, x)
  PROVE  x \in Handled
<1>1. CASE Connecting(q, x)
  <2>1. PICK known, cred, time, j :
          /\ cred \in Credentials /\ time \in Nat /\ j \in Jitters /\ q.pc = "sent"
          /\ x = Asked(q, cred, time, Computed(known, cred, ProfileOf(q), time, j))
    BY <1>1 DEF Connecting
  <2>2. Computed(known, cred, ProfileOf(q), time, j) \in Sources
    BY <2>1, ComputedSource
  <2> QED BY <2>1, <2>2, AskedHandled
<1>2. CASE Opening(q, x)
  BY <1>2, MovedHandled DEF Opening, Paths
<1>3. CASE Answering(q, x)
  BY <1>3, MovedHandled DEF Answering
<1>4. CASE Receiving(q, x)
  BY <1>4, ReceivedHandled DEF Receiving
<1>5. CASE Deciding(q, x)
  BY <1>5, MovedHandled DEF Deciding, Paths
<1>6. CASE Refielding(q, x)
  BY <1>6, RefieldedHandled DEF Refielding
<1>7. CASE Retelling(q, x)
  BY <1>7, RetoldHandled DEF Retelling
<1> QED BY <1>1, <1>2, <1>3, <1>4, <1>5, <1>6, <1>7 DEF Proceeds

LEMMA EvolvesHandled ==
  ASSUME NEW q \in Handled \cup {Idle, Gone}, NEW x, Evolves(q, x)
  PROVE  x \in Handled \cup {Idle, Gone}
BY FreshHandled, ProceedsHandled DEF Evolves

StartedAdmissible == \A config \in Configs \cup Started : Admissible(config)
LEMMA Admitting == StartedAdmissible
BY PromptCacheAssumption DEF StartedAdmissible, Admissible, ConfigsFit

RequestStep(r) ==
  \/ Arrive(r) \/ Connect(r) \/ ConnectUncounted(r) \/ Record(r) \/ Respond(r)
  \/ Receive(r) \/ Close(r)
  \/ DecideBypass(r) \/ RewriteFields(r) \/ RewriteInput(r) \/ Leave(r) \/ Abandon(r)

\* The step of a request changes that request.
LEMMA StepEvolves ==
  ASSUME Typed, NEW r \in Requests, RequestStep(r)
  PROVE  \E x : Evolves(req[r], x) /\ req' = [req EXCEPT ![r] = x]
<1> DEFINE q == req[r]
<1>1. req \in Handles /\ now \in Nat /\ Admissible(optimizer)
  BY Admitting DEF Typed, StartedAdmissible
<1>2. q.pc \in Active => q \in Handled
  BY <1>1, ActiveRequest
<1> HIDE DEF q
<1>3. CASE Arrive(r)
  BY <1>3, ArriveSets DEF Evolves, q
<1>4. CASE Connect(r)
  <2>1. PICK cred \in Credentials, j \in Jitters :
          /\ q.pc = "sent"
          /\ req' = [req EXCEPT ![r] = Asked(q, cred, now, Computed(entries, cred, ProfileOf(q), now, j))]
    BY <1>4 DEF Connect, Asked, q
  <2>2. Connecting(q, Asked(q, cred, now, Computed(entries, cred, ProfileOf(q), now, j)))
    BY <1>1, <2>1 DEF Connecting
  <2> QED BY <1>2, <2>1, <2>2 DEF Evolves, Proceeds, Active, q
<1>5. CASE ConnectUncounted(r) \/ Record(r)
  <2>1. \/ q.pc = "sent" /\ req' = [req EXCEPT ![r] = Opened(q)]
        \/ q.pc = "connected" /\ req' = [req EXCEPT ![r] = Recorded(q)]
    BY <1>5 DEF ConnectUncounted, Record, Opened, Recorded, q
  <2> QED BY <1>2, <2>1 DEF Evolves, Proceeds, Opening, Active, q
<1>6. CASE Respond(r)
  <2>1. PICK path \in Paths : q.pc = "open" /\ req' = [req EXCEPT ![r] = Answered(q, path)]
    BY <1>6 DEF Respond, Answered, q
  <2> QED BY <1>2, <2>1 DEF Evolves, Proceeds, Answering, Active, q
<1>7. CASE Receive(r)
  <2>1. PICK e \in UsageEvents : q.pc = "reading" /\ req' = [req EXCEPT ![r] = Received(Heard(q), e)]
    BY <1>7 DEF Receive, q
  <2> QED BY <1>2, <2>1 DEF Evolves, Proceeds, Receiving, Active, Working, q
<1>8. CASE Close(r) \/ DecideBypass(r)
  <2>1. CASE Close(r)
    <3>1. q.pc = "reading" /\ req' = [req EXCEPT ![r] = Closed(q)]
      BY <2>1 DEF Close, Closed, q
    <3> QED BY <1>2, <3>1 DEF Evolves, Proceeds, Deciding, Active, Working, q
  <2>2. CASE DecideBypass(r)
    <3>1. q.pc = "bypass" /\ req' = [req EXCEPT ![r] = Decided(q, Bypass(optimizer, q.path, q.input))]
      BY <2>2 DEF DecideBypass, Decided, q
    <3>2. Bypass(optimizer, q.path, q.input) \in BOOLEAN
      BY DEF Bypass
    <3> QED BY <1>2, <3>1, <3>2 DEF Evolves, Proceeds, Deciding, Active, Working, q
  <2> QED BY <1>8, <2>1, <2>2
<1>9. CASE RewriteFields(r)
  <2>1. PICK fields \in Outcomes(q, optimizer) :
          q.pc = "fields" /\ req' = [req EXCEPT ![r] = Refielded(q, fields)]
    BY <1>9, RewriteFieldsSets DEF q
  <2>2. Refielding(q, Refielded(q, fields))
    BY <1>1, <2>1 DEF Refielding
  <2> QED BY <1>2, <2>1, <2>2 DEF Evolves, Proceeds, Active, Working, q
<1>10. CASE RewriteInput(r)
  <2>1. PICK input \in Retellings(q, optimizer) :
          q.pc = "input" /\ req' = [req EXCEPT ![r] = Retold(q, input)]
    BY <1>10, RewriteInputSets DEF q
  <2>2. Retelling(q, Retold(q, input))
    BY <1>1, <2>1 DEF Retelling
  <2> QED BY <1>2, <2>1, <2>2 DEF Evolves, Proceeds, Active, Working, q
<1>11. CASE Leave(r) \/ Abandon(r)
  <2>1. req' = [req EXCEPT ![r] = Gone]
    BY <1>11 DEF Leave, Abandon
  <2> QED BY <2>1 DEF Evolves
<1> QED BY <1>3, <1>4, <1>5, <1>6, <1>7, <1>8, <1>9, <1>10, <1>11 DEF RequestStep

LEMMA NextCases ==
  ASSUME Next
  PROVE  (\E r \in Requests : RequestStep(r)) \/ SetOptimizer \/ Tick
BY DEF Next, RequestStep

LEMMA StepFrame ==
  ASSUME NEW r \in Requests, RequestStep(r)
  PROVE  /\ UNCHANGED <<accounting, now, optimizer>>
         /\ Record(r) \/ served' = served
BY DEF RequestStep, Arrive, Connect, ConnectUncounted, Record, Respond, Receive, Close,
       DecideBypass, RewriteFields, RewriteInput, Leave, Abandon

LEMMA TypedStep ==
  ASSUME Typed, [Next]_vars
  PROVE  Typed' /\ \A r \in Requests : Evolves(req[r], req'[r])
<1>1. CASE \E r \in Requests : RequestStep(r)
  <2>1. PICK r \in Requests : RequestStep(r)
    BY <1>1
  <2>2. PICK x : Evolves(req[r], x) /\ req' = [req EXCEPT ![r] = x]
    BY <2>1, StepEvolves
  <2>3. req \in Handles /\ req[r] \in Handled \cup {Idle, Gone}
    BY DEF Typed, Handles
  <2>4. x \in Handled \cup {Idle, Gone}
    BY <2>2, <2>3, EvolvesHandled
  <2>5. req' \in Handles /\ req'[r] = x /\ \A y \in Requests \ {r} : req'[y] = req[y]
    BY <2>2, <2>3, <2>4, SetRequest
  <2>6. \A y \in Requests : Evolves(req[y], req'[y])
    BY <2>2, <2>5 DEF Evolves
  <2>7. UNCHANGED <<accounting, now, optimizer>>
    BY <2>1, StepFrame
  <2> QED BY <2>5, <2>6, <2>7 DEF Typed
<1>2. CASE SetOptimizer \/ Tick
  <2>1. req' = req /\ accounting' = accounting
    BY <1>2 DEF SetOptimizer, Tick
  <2>2. now' \in Nat /\ optimizer' \in Configs \cup Started
    BY <1>2 DEF SetOptimizer, Tick, Typed
  <2> QED BY <2>1, <2>2 DEF Typed, Evolves
<1>3. CASE UNCHANGED vars
  BY <1>3 DEF vars, Typed, Evolves
<1> QED BY <1>1, <1>2, <1>3, NextCases

LEMMA TypedInit ==
  ASSUME Init
  PROVE  Typed
BY DEF Init, Typed, Handles

LEMMA TypedAlways == Spec => []Typed
<1>1. Typed /\ [Next]_vars => Typed'
  BY TypedStep
<1> QED BY <1>1, TypedInit, PTL DEF Spec

-----------------------------------------------------------------------------
(* The tracker is a map.                                                      *)
Mapped == \A e, f \in entries : e.cred = f.cred /\ e.prefix = f.prefix => e = f

\* What a step makes of the entries: fewer of them, or those of Record.
Fewer == \A e \in entries' : e \in entries
LEMMA EntriesStep ==
  ASSUME [Next]_vars
  PROVE  Fewer \/ \E r \in Requests : Record(r)
<1>1. ASSUME NEW profile PROVE Pruned(entries, profile, now) \subseteq entries
  BY DEF Pruned, Live
<1>2. ASSUME NEW r \in Requests, RequestStep(r) PROVE Fewer \/ Record(r)
  <2>1. CASE Arrive(r)
    BY <1>1, <2>1, ArriveSets DEF Fewer
  <2>2. CASE Connect(r)
    BY <1>1, <2>2 DEF Fewer, Connect
  <2>3. CASE Record(r)
    BY <2>3
  <2>4. CASE ~(Arrive(r) \/ Connect(r) \/ Record(r))
    <3>1. entries' = entries
      BY <1>2, <2>4 DEF RequestStep, ConnectUncounted, Respond, Receive, Close,
           DecideBypass, RewriteFields, RewriteInput, Leave, Abandon
    <3> QED BY <3>1 DEF Fewer
  <2> QED BY <2>1, <2>2, <2>3, <2>4
<1>3. CASE SetOptimizer \/ Tick \/ UNCHANGED vars
  BY <1>3 DEF SetOptimizer, Tick, vars, Fewer
<1> QED BY <1>2, <1>3, NextCases

LEMMA UpdatedMapped ==
  ASSUME Mapped, NEW cred, NEW profile, Profiled(profile), NEW time, NEW known,
         known = Updated(entries, cred, profile, time)
  PROVE  \A e, f \in known : e.cred = f.cred /\ e.prefix = f.prefix => e = f
<1> DEFINE live == Live(entries, time)
           Known(p) == \E e \in live : e.cred = cred /\ e.prefix = p.prefix
           all == {profile.points[i] : i \in DOMAIN profile.points}
           Entry(p) == [cred |-> cred, prefix |-> p.prefix, expires |-> time + p.ttl]
<1>1. \A p, s \in all : p.prefix = s.prefix => p = s
  <2>1. PICK V : Pointed(V) /\ profile.points \in Seq(V)
    BY DEF Profiled
  <2>2. all \subseteq V
    BY <2>1
  <2> QED BY <2>1, <2>2 DEF Pointed
<1>2. known = live \cup {Entry(p) : p \in {p \in all : ~Known(p)}}
  BY DEF Updated
<1>3. live \subseteq entries
  BY DEF Live
<1>4. ASSUME NEW p PROVE Entry(p).cred = cred /\ Entry(p).prefix = p.prefix
  OBVIOUS
<1> SUFFICES ASSUME NEW e \in known, NEW f \in known, e.cred = f.cred, e.prefix = f.prefix
             PROVE  e = f
  OBVIOUS
<1>5. CASE e \in live /\ f \in live
  BY <1>3, <1>5 DEF Mapped
<1>6. CASE e \notin live /\ f \notin live
  <2>1. PICK p \in all, s \in all : e = Entry(p) /\ f = Entry(s)
    BY <1>2, <1>6
  <2> HIDE DEF Entry, all
  <2>2. p.prefix = s.prefix
    BY <1>4, <2>1
  <2> QED BY <1>1, <2>1, <2>2
<1>7. CASE e \in live /\ f \notin live
  <2>1. PICK s \in all : f = Entry(s) /\ ~Known(s)
    BY <1>2, <1>7
  <2>2. f.cred = cred /\ f.prefix = s.prefix
    BY <1>4, <2>1
  <2> QED BY <1>7, <2>1, <2>2
<1>8. CASE e \notin live /\ f \in live
  <2>1. PICK s \in all : e = Entry(s) /\ ~Known(s)
    BY <1>2, <1>8
  <2>2. e.cred = cred /\ e.prefix = s.prefix
    BY <1>4, <2>1
  <2> QED BY <1>8, <2>1, <2>2
<1> QED BY <1>5, <1>6, <1>7, <1>8

LEMMA MappedStep ==
  ASSUME Typed, Mapped, [Next]_vars
  PROVE  Mapped'
<1>1. CASE Fewer
  BY <1>1 DEF Mapped, Fewer
<1>2. CASE \E r \in Requests : Record(r)
  <2>1. PICK r \in Requests : /\ req[r].pc = "connected"
                              /\ entries' = Updated(entries, req[r].cred, ProfileOf(req[r]), now)
    BY <1>2 DEF Record
  <2>2. req[r] \in Handled
    BY <2>1, ActiveRequest DEF Typed, Active
  <2>3. Profiled(ProfileOf(req[r]))
    BY <2>2, HandlingFields, ProfileFacts DEF ProfileOf
  <2> QED BY <2>1, <2>3, UpdatedMapped DEF Mapped
<1> QED BY <1>1, <1>2, EntriesStep

LEMMA ReportedUsage ==
  ASSUME Typed, NEW r \in Requests, req[r].pc = "done", NEW i \in DOMAIN req[r].reports
  PROVE  /\ req[r].reports[i].input \in Told
         /\ \A j \in DOMAIN req[r].reports[i].cache : req[r].reports[i].cache[j] \in Reportable
<1>1. req[r] \in Handled
  BY ActiveRequest DEF Typed, Active, Working
<1>2. req[r].reports \in Seq(Report)
  BY <1>1, HandlingFields
<1>3. req[r].reports[i] \in Report
  BY <1>2
<1>4. req[r].reports[i].input \in Told /\ req[r].reports[i].cache \in Seq(Reportable)
  BY <1>3 DEF Report
<1> QED BY <1>4

LEMMA MappedAlways == Spec => [](Typed /\ Mapped)
<1>1. Init => Typed /\ Mapped
  BY TypedInit DEF Init, Mapped
<1>2. Typed /\ Mapped /\ [Next]_vars => (Typed /\ Mapped)'
  BY TypedStep, MappedStep
<1> QED BY <1>1, <1>2, PTL DEF Spec

LEMMA TypedSplits ==
  ASSUME Typed
  PROVE  SplitAddsUp
<1>1. ASSUME NEW r \in Requests, req[r].pc = "done", NEW i \in DOMAIN req[r].reports,
             NEW j \in DOMAIN req[r].reports[i].cache
      PROVE  Split(req[r].reports[i].cache[j])
  <2>1. req[r].reports[i].cache[j] \in Reportable
    BY <1>1, ReportedUsage
  <2> QED BY <2>1 DEF Reportable
<1> QED BY <1>1 DEF SplitAddsUp, Split

\* Where the 5m and 1h parts of a creation are reported, they add up to it, after any
\* scaling, any rewriting and whatever the upstream and the configuration hold
\* (handlers.rs:301, cache_rewriter.rs:140).
THEOREM SplitsAddUp == Spec => []SplitAddsUp
BY TypedAlways, TypedSplits, PTL

-----------------------------------------------------------------------------
(* What is reported adds up.                                                  *)

\* A usage that is kept is part of an input: of the estimate, or of the upstream's.
Sourced(q, c) ==
  /\ c.read + c.creation > 0 => q.input > 0
  /\ \/ Apart(c)
     \/ /\ c.read + c.creation <= MaxInt /\ q.input > 0
        /\ q.path # "whole" /\ q.upstream # None /\ q.context = q.input
AllSourced(q) == \A i \in DOMAIN q.cache : Sourced(q, q.cache[i])

\* The parts a whole response keeps are parts of the input it keeps.
Whole(q) ==
  q.parts # <<>> =>
    /\ q.path = "whole"
    /\ q.upstream = None => Most(q.parts[2], 0) = 0 /\ Most(q.parts[3], 0) = 0
    /\ q.upstream # None => Most(q.parts[2], 0) + Most(q.parts[3], 0) <= q.upstream

\* What is reported without a rewriting, and has been so far.
Plain(q) == [input |-> Paid(q, FinalCache(q)), cache |-> FinalCache(q)]
Untouched(q) ==
  ~q.touched =>
    /\ \A i \in DOMAIN q.reports : q.reports[i] = Plain(q)
    /\ q.pc = "input" => q.fields = FinalCache(q) /\ q.billed = Paid(q, FinalCache(q))

\* Before the answer is read, only a look-up or an estimate is known of it.
Early(q) == q.parts = <<>> /\ \A i \in DOMAIN q.cache : Apart(q.cache[i])

Balanced(q) ==
  /\ q.pc = "sent" => q.input = q.body.estimate
  /\ q.pc \in {"sent", "connected", "open"} => Early(q)
  /\ PartsFit => AllSourced(q) /\ Whole(q)
  /\ Untouched(q)

\* What a report is made of.
SameAnswer(x, q) ==
  /\ x.path = q.path /\ x.parts = q.parts /\ x.cache = q.cache
  /\ x.input = q.input /\ x.context = q.context /\ x.upstream = q.upstream

LEMMA SameFinal ==
  ASSUME NEW q, NEW x, SameAnswer(x, q)
  PROVE  /\ FinalInput(x) = FinalInput(q) /\ FinalCache(x) = FinalCache(q)
         /\ Plain(x) = Plain(q) /\ Paid(x, FinalCache(x)) = Paid(q, FinalCache(q))
         /\ AllSourced(q) => AllSourced(x)
         /\ Whole(q) => Whole(x)
<1>1. FinalInput(x) = FinalInput(q)
  BY DEF SameAnswer, FinalInput
<1>2. FinalCache(x) = FinalCache(q)
  BY <1>1 DEF SameAnswer, FinalCache
<1>3. Paid(x, FinalCache(x)) = Paid(q, FinalCache(q))
  BY <1>1, <1>2 DEF Paid
<1>4. Plain(x) = Plain(q)
  BY <1>2, <1>3 DEF Plain
<1>5. AllSourced(q) => AllSourced(x)
  BY DEF SameAnswer, AllSourced, Sourced
<1>6. Whole(q) => Whole(x)
  BY DEF SameAnswer, Whole
<1> QED BY <1>1, <1>2, <1>3, <1>4, <1>5, <1>6

LEMMA NothingReported ==
  ASSUME NEW q, q.reports = <<>>, q.pc # "input"
  PROVE  Untouched(q)
BY DEF Untouched

LEMMA MovedAnswer ==
  ASSUME NEW q \in Handled, NEW bypass \in BOOLEAN
  PROVE  /\ SameAnswer(Opened(q), q) /\ Opened(q).pc = "open" /\ Opened(q).reports = q.reports
         /\ SameAnswer(Recorded(q), q) /\ Recorded(q).pc = "open" /\ Recorded(q).reports = q.reports
         /\ SameAnswer(Closed(q), q) /\ Closed(q).pc = "bypass" /\ Closed(q).reports = q.reports
         /\ SameAnswer(Decided(q, bypass), q) /\ Decided(q, bypass).pc = "fields"
         /\ Decided(q, bypass).reports = q.reports /\ Decided(q, bypass).touched = q.touched
BY HandlingFields DEF Opened, Recorded, Closed, Decided, SameAnswer, Handling

LEMMA AskedAnswer ==
  ASSUME NEW q \in Handled, NEW cred, NEW time, NEW c, NEW x, x = Asked(q, cred, time, c)
  PROVE  /\ x.pc = "connected" /\ x.reports = q.reports /\ x.cache = <<c>> /\ x.path = q.path
         /\ x.parts = q.parts /\ x.input = q.input /\ x.upstream = q.upstream
         /\ x.context = q.context /\ x.body = q.body
BY HandlingFields DEF Asked, Handling

LEMMA AnsweredAnswer ==
  ASSUME NEW q \in Handled, NEW path, NEW x, x = Answered(q, path)
  PROVE  /\ x.pc = "reading" /\ x.reports = q.reports /\ x.cache = q.cache /\ x.path = path
         /\ x.parts = q.parts /\ x.input = q.input /\ x.upstream = q.upstream
         /\ x.context = q.context
BY HandlingFields DEF Answered, Handling

LEMMA FreshBalanced ==
  ASSUME NEW body
  PROVE  Balanced(Fresh(body))
<1> DEFINE q == Fresh(body)
<1>1. /\ q.pc = "sent" /\ q.input = q.body.estimate /\ q.reports = <<>>
      /\ q.cache = <<>> /\ q.parts = <<>>
  BY DEF Fresh
<1> HIDE DEF q
<1>2. AllSourced(q) /\ Whole(q) /\ Untouched(q) /\ Early(q)
  BY <1>1, NothingReported DEF AllSourced, Whole, Early
<1> QED BY <1>1, <1>2 DEF Balanced, q

LEMMA ProfileTotal ==
  ASSUME NEW q \in Handled
  PROVE  ProfileOf(q).total = Most(q.body.estimate, 0) /\ q.body.estimate \in Int
<1>1. q.body \in Bodies
  BY HandlingFields
<1>2. q.body.estimate \in Int
  BY <1>1, PromptCacheAssumption, UsageTypes
<1> QED BY <1>1, <1>2 DEF ProfileOf, Profiles, Profile

LEMMA AskedBalanced ==
  ASSUME NEW q \in Handled, Balanced(q), NEW x, Connecting(q, x)
  PROVE  Balanced(x)
<1>1. PICK known, cred, time, j :
        /\ cred \in Credentials /\ time \in Nat /\ j \in Jitters /\ q.pc = "sent"
        /\ x = Asked(q, cred, time, Computed(known, cred, ProfileOf(q), time, j))
  BY DEF Connecting
<1> DEFINE c == Computed(known, cred, ProfileOf(q), time, j)
<1>2. q.body \in Bodies
  BY HandlingFields
<1>3. Profiled(ProfileOf(q))
  BY <1>2, ProfileFacts DEF ProfileOf
<1>4. Apart(c) /\ c.read + c.creation <= ProfileOf(q).total /\ c \in CacheUsage
  BY <1>1, <1>3, ComputedFacts
<1>5. x = Asked(q, cred, time, c)
  BY <1>1
<1> HIDE DEF c
<1>6. q.input = q.body.estimate /\ Early(q) /\ q.reports = <<>>
  BY <1>1 DEF Balanced, Handled
<1>7. c.read + c.creation > 0 => q.input > 0
  <2>0. c.read \in Count /\ c.creation \in Count
    BY <1>4 DEF CacheUsage, Usages
  <2>1. c.read + c.creation \in Int
    BY <2>0, Constants DEF Count
  <2> QED BY <1>4, <1>6, <2>1, ProfileTotal, LeastMost
<1>8. /\ x.pc = "connected" /\ x.reports = q.reports /\ x.cache = <<c>> /\ x.path = q.path
      /\ x.parts = q.parts /\ x.input = q.input /\ x.upstream = q.upstream
  BY <1>5, AskedAnswer
<1>9. AllSourced(x) /\ Early(x)
  BY <1>4, <1>6, <1>7, <1>8 DEF AllSourced, Sourced, Early
<1>10. Whole(x)
  BY <1>6, <1>8 DEF Early, Whole
<1>11. Untouched(x)
  BY <1>6, <1>8, NothingReported
<1> QED BY <1>6, <1>8, <1>9, <1>10, <1>11 DEF Balanced

LEMMA MovedBalanced ==
  ASSUME NEW q \in Handled, Balanced(q), NEW x, Opening(q, x) \/ Deciding(q, x)
  PROVE  Balanced(x)
<1>1. \/ x = Opened(q) /\ q.pc = "sent"
      \/ x = Recorded(q) /\ q.pc = "connected"
      \/ x = Closed(q) /\ q.pc = "reading"
      \/ q.pc = "bypass" /\ \E bypass \in BOOLEAN : x = Decided(q, bypass)
  BY DEF Opening, Deciding
<1>2. SameAnswer(x, q) /\ x.reports = q.reports /\ x.pc \in {"open", "bypass", "fields"}
  <2>1. CASE x = Opened(q)
    BY <2>1, MovedAnswer
  <2>2. CASE x = Recorded(q)
    BY <2>2, MovedAnswer
  <2>3. CASE x = Closed(q)
    BY <2>3, MovedAnswer
  <2>4. CASE \E bypass \in BOOLEAN : x = Decided(q, bypass)
    BY <2>4, MovedAnswer
  <2> QED BY <1>1, <2>1, <2>2, <2>3, <2>4
<1>3. PartsFit => AllSourced(x) /\ Whole(x)
  BY <1>2, SameFinal DEF Balanced
<1>4. x.pc = "open" => Early(x)
  <2>1. q.pc \in {"sent", "connected"} => Early(x)
    BY <1>2 DEF Balanced, Early, SameAnswer
  <2>2. q.pc \in {"reading", "bypass"} => x.pc # "open"
    BY <1>1, MovedAnswer
  <2> QED BY <1>1, <2>1, <2>2
<1>5. Untouched(x)
  <2>1. CASE q.pc \in {"sent", "connected", "reading"}
    <3>1. q.reports = <<>>
      BY <2>1 DEF Handled
    <3> QED BY <1>2, <3>1, NothingReported
  <2>2. CASE q.pc \notin {"sent", "connected", "reading"}
    <3>1. x.touched = q.touched
      BY <1>1, <2>2, MovedAnswer
    <3>2. Plain(x) = Plain(q)
      BY <1>2, SameFinal
    <3> QED BY <1>2, <3>1, <3>2 DEF Untouched, Balanced
  <2> QED BY <2>1, <2>2
<1> QED BY <1>2, <1>3, <1>4, <1>5 DEF Balanced

LEMMA AnsweredBalanced ==
  ASSUME NEW q \in Handled, Balanced(q), NEW x, Answering(q, x)
  PROVE  Balanced(x)
<1>1. PICK path \in Paths : q.pc = "open" /\ x = Answered(q, path)
  BY DEF Answering
<1>2. Early(q) /\ q.reports = <<>>
  BY <1>1 DEF Balanced, Handled
<1>3. /\ x.pc = "reading" /\ x.reports = q.reports /\ x.cache = q.cache
      /\ x.parts = q.parts /\ x.input = q.input
  BY <1>1, AnsweredAnswer
<1>4. ASSUME PartsFit PROVE AllSourced(x)
  <2>1. \A i \in DOMAIN q.cache : Sourced(q, q.cache[i])
    BY <1>4 DEF Balanced, AllSourced
  <2>2. \A i \in DOMAIN x.cache : Sourced(x, x.cache[i])
    BY <1>2, <1>3, <2>1 DEF Sourced, Early
  <2> QED BY <2>2 DEF AllSourced
<1>5. Whole(x)
  BY <1>2, <1>3 DEF Whole, Early
<1>6. Untouched(x)
  BY <1>2, <1>3, NothingReported
<1> QED BY <1>3, <1>4, <1>5, <1>6 DEF Balanced

LEMMA ReceivedAnswer ==
  ASSUME NEW q \in Handled, q.pc = "reading", NEW e \in UsageEvents, NEW x, x = Received(Heard(q), e)
  PROVE  \/ e.kind = "context" /\ x.upstream = q.upstream /\ x.parts = q.parts
            /\ x.cache = q.cache /\ x.input = q.input /\ x.path = q.path
            /\ (q.upstream # None => x.context = q.context)
         \/ e.kind = "usage" /\ q.path = "whole" /\ x.upstream = InputOf(e) /\ x.parts = e.parts
            /\ x.cache = q.cache /\ x.input = q.input /\ x.path = q.path
         \/ e.kind = "usage" /\ q.path # "whole" /\ x.path = q.path /\ x.parts = q.parts
            /\ x.cache = (IF e.parts = <<>> THEN q.cache ELSE <<UpstreamCache(e.parts)>>)
            /\ x.input = (IF InputOf(e) = None THEN q.input ELSE InputOf(e))
            /\ x.context = (IF InputOf(e) = None THEN q.context ELSE InputOf(e))
            /\ x.upstream = (IF InputOf(e) = None THEN q.upstream ELSE InputOf(e))
<1>1. PICK h \in Handling : /\ h = Heard(q) /\ SameCourse(h, q)
                            /\ h.cache = q.cache /\ h.input = q.input /\ h.context = q.context
                            /\ h.upstream = q.upstream /\ h.parts = q.parts
  BY HandlingFields, HeardFacts
<1>2. h.path = q.path
  BY <1>1 DEF SameCourse
<1>3. e \in UsageEvent
  BY PromptCacheAssumption
<1>4. CASE e.kind = "context"
  <2>1. x = IF h.upstream = None THEN [h EXCEPT !.context = e.tokens] ELSE h
    BY <1>1, <1>4 DEF Received
  <2>2. e.tokens \in I32 /\ (InputsFit => e.tokens >= 0)
    BY <1>3, <1>4 DEF UsageEvent, InputsFit
  <2>3. e.tokens \in Counted
    BY <2>2, UsageTypes DEF Counted
  <2>4. CASE h.upstream = None
    <3>1. /\ SameCourse(x, h) /\ x.cache = h.cache /\ x.input = h.input
          /\ x.upstream = h.upstream /\ x.parts = h.parts
      BY <1>1, <2>1, <2>3, <2>4, ContextFacts
    <3>2. x.path = h.path
      BY <3>1 DEF SameCourse
    <3> QED BY <1>1, <1>2, <1>4, <2>4, <3>1, <3>2
  <2>5. CASE h.upstream # None
    BY <1>1, <1>2, <1>4, <2>1, <2>5
  <2> QED BY <2>4, <2>5
<1>5. CASE e.kind # "context"
  <2>1. e.kind = "usage"
    BY <1>3, <1>5 DEF UsageEvent
  <2>2. CASE q.path = "whole"
    <3>1. x = Collected(h, e)
      BY <1>1, <1>2, <1>5, <2>2 DEF Received
    <3>2. /\ SameCourse(x, h) /\ x.cache = h.cache /\ x.input = h.input
          /\ x.upstream = InputOf(e) /\ x.parts = e.parts
      BY <1>1, <2>1, <3>1, CollectedFacts
    <3>3. x.path = h.path
      BY <3>2 DEF SameCourse
    <3> QED BY <1>1, <1>2, <2>1, <2>2, <3>2, <3>3
  <2>3. CASE q.path # "whole"
    <3>1. x = Streamed(h, e)
      BY <1>1, <1>2, <1>5, <2>3 DEF Received
    <3>2. /\ SameCourse(x, h) /\ x.parts = h.parts
          /\ x.cache = (IF e.parts = <<>> THEN h.cache ELSE <<UpstreamCache(e.parts)>>)
          /\ x.input = (IF InputOf(e) = None THEN h.input ELSE InputOf(e))
          /\ x.context = (IF InputOf(e) = None THEN h.context ELSE InputOf(e))
          /\ x.upstream = (IF InputOf(e) = None THEN h.upstream ELSE InputOf(e))
      BY <1>1, <2>1, <3>1, StreamedFacts
    <3>3. x.path = h.path
      BY <3>2 DEF SameCourse
    <3> QED BY <1>1, <1>2, <2>1, <2>3, <3>2, <3>3
  <2> QED BY <2>2, <2>3
<1> QED BY <1>4, <1>5

\* The parts of a tokenUsage are parts of the input it tells.
LEMMA PartsOfInput ==
  ASSUME PartsFit, NEW e \in UsageEvents, e.kind = "usage", e.parts # <<>>
  PROVE  /\ Most(e.parts[2], 0) \in Count /\ Most(e.parts[3], 0) \in Count
         /\ InputOf(e) # None => Most(e.parts[2], 0) + Most(e.parts[3], 0) <= InputOf(e)
                                 /\ InputOf(e) > 0
         /\ InputOf(e) = None => Most(e.parts[2], 0) = 0 /\ Most(e.parts[3], 0) = 0
         /\ Most(e.parts[2], 0) + Most(e.parts[3], 0) <= MaxInt
<1>1. PICK a \in Int, b \in Int, c \in Int :
        e.parts[1] = a /\ e.parts[2] = b /\ e.parts[3] = c
  <2>1. e.parts \in I32 \X I32 \X I32
    BY InputOfFacts DEF Triples
  <2> QED BY <2>1, UsageTypes
<1>2. a >= 0 /\ b >= 0 /\ c >= 0 /\ a + b + c <= MaxInt /\ Sum(e.parts) = a + b + c
  <2>1. e.parts \in Count \X Count \X Count
    BY InputOfFacts
  <2>2. a >= 0 /\ b >= 0 /\ c >= 0
    BY <1>1, <2>1 DEF Count
  <2> QED BY <1>1, <2>2 DEF PartsFit, Sum
<1>3. Most(e.parts[2], 0) = b /\ Most(e.parts[3], 0) = c
  BY <1>1, <1>2 DEF Most
<1>4. Sum(e.parts) > 0 => InputOf(e) = Sum(e.parts)
  BY InputOfFacts
<1>5. InputOf(e) # None => InputOf(e) > 0
  BY InputOfFacts
<1>6. a + b + c > 0 => InputOf(e) = a + b + c
  BY <1>2, <1>4
<1>7. CASE a + b + c > 0
  BY <1>1, <1>2, <1>3, <1>6, <1>7, Constants DEF Count, None
<1>8. CASE a + b + c = 0
  <2>1. b = 0 /\ c = 0
    BY <1>1, <1>2, <1>8
  <2>2. InputOf(e) \in Int
    BY InputOfFacts, CountedFacts, UsageTypes
  <2> QED BY <1>3, <1>5, <2>1, <2>2, Constants DEF Count
<1> QED BY <1>1, <1>2, <1>7, <1>8

LEMMA ReceivedBalanced ==
  ASSUME NEW q \in Handled, Balanced(q), NEW x, Receiving(q, x)
  PROVE  Balanced(x)
<1>1. PICK e \in UsageEvents : q.pc = "reading" /\ x = Received(Heard(q), e)
  BY DEF Receiving
<1>2. SameCourse(x, q) /\ q.reports = <<>>
  BY <1>1, ReceivedHandled DEF Handled
<1>3. x.pc = "reading" /\ x.reports = <<>>
  BY <1>1, <1>2 DEF SameCourse
<1>4. Untouched(x)
  BY <1>3, NothingReported
<1>5. ASSUME PartsFit PROVE AllSourced(x) /\ Whole(x)
  <2>1. Whole(q) /\ \A i \in DOMAIN q.cache : Sourced(q, q.cache[i])
    BY <1>5 DEF Balanced, AllSourced
  <2>2. CASE e.kind = "context" /\ x.upstream = q.upstream /\ x.parts = q.parts
            /\ x.cache = q.cache /\ x.input = q.input /\ x.path = q.path
            /\ (q.upstream # None => x.context = q.context)
    <3>1. \A i \in DOMAIN x.cache : Sourced(x, x.cache[i])
      BY <2>1, <2>2 DEF Sourced
    <3>2. Whole(x)
      BY <2>1, <2>2 DEF Whole
    <3> QED BY <3>1, <3>2 DEF AllSourced
  <2>3. CASE e.kind = "usage" /\ q.path = "whole" /\ x.upstream = InputOf(e) /\ x.parts = e.parts
            /\ x.cache = q.cache /\ x.input = q.input /\ x.path = q.path
    <3>1. \A i \in DOMAIN x.cache : Sourced(x, x.cache[i])
      BY <2>1, <2>3 DEF Sourced
    <3>2. Whole(x)
      BY <1>5, <2>3, PartsOfInput DEF Whole
    <3> QED BY <3>1, <3>2 DEF AllSourced
  <2>4. CASE e.kind = "usage" /\ q.path # "whole" /\ x.path = q.path /\ x.parts = q.parts
            /\ x.cache = (IF e.parts = <<>> THEN q.cache ELSE <<UpstreamCache(e.parts)>>)
            /\ x.input = (IF InputOf(e) = None THEN q.input ELSE InputOf(e))
            /\ x.context = (IF InputOf(e) = None THEN q.context ELSE InputOf(e))
            /\ x.upstream = (IF InputOf(e) = None THEN q.upstream ELSE InputOf(e))
    <3>1. Whole(x)
      BY <2>1, <2>4 DEF Whole
    <3>2. InputOf(e) # None => InputOf(e) > 0
      BY <2>4, InputOfFacts
    <3>3. CASE e.parts = <<>>
      <4>1. \A i \in DOMAIN x.cache : Sourced(x, x.cache[i])
        BY <2>1, <2>4, <3>2, <3>3 DEF Sourced
      <4> QED BY <3>1, <4>1 DEF AllSourced
    <3>4. CASE e.parts # <<>>
      <4> DEFINE c == UpstreamCache(e.parts)
      <4>1. e.parts \in I32 \X I32 \X I32
        BY <2>4, <3>4, InputOfFacts DEF Triples
      <4>2. c.read = Most(e.parts[2], 0) /\ c.creation = Most(e.parts[3], 0)
        BY <4>1, UpstreamCacheFacts
      <4>3. /\ c.read \in Count /\ c.creation \in Count /\ c.read + c.creation <= MaxInt
            /\ InputOf(e) = None => c.read = 0 /\ c.creation = 0
        BY <1>5, <2>4, <3>4, <4>2, PartsOfInput
      <4>4. x.cache = <<c>>
        BY <2>4, <3>4
      <4> HIDE DEF c
      <4>6. Sourced(x, c)
        BY <2>4, <3>2, <4>3, Constants DEF Sourced, Apart, Count
      <4> QED BY <3>1, <4>4, <4>6 DEF AllSourced
    <3> QED BY <3>3, <3>4
  <2> QED BY <1>1, <2>2, <2>3, <2>4, ReceivedAnswer
<1> QED BY <1>3, <1>4, <1>5 DEF Balanced

LEMMA RefieldedBalanced ==
  ASSUME NEW q \in Handled, Balanced(q), NEW x, Refielding(q, x)
  PROVE  Balanced(x)
<1>1. PICK config, fields :
        q.pc = "fields" /\ fields \in Outcomes(q, config) /\ x = Refielded(q, fields)
  BY DEF Refielding
<1> DEFINE b == Paid(q, IF q.path = "whole" THEN FinalCache(q) ELSE fields)
           t == q.touched \/ fields /= FinalCache(q)
<1>2. x = [q EXCEPT !.pc = "input", !.fields = fields, !.touched = t, !.billed = b]
  BY <1>1 DEF Refielded
<1> HIDE DEF b, t
<1>3. /\ x.pc = "input" /\ x.fields = fields /\ x.touched = t /\ x.billed = b
      /\ x.reports = q.reports /\ SameAnswer(x, q)
  BY <1>2, HandlingFields DEF Handling, SameAnswer
<1>4. PartsFit => AllSourced(x) /\ Whole(x)
  BY <1>3, SameFinal DEF Balanced
<1>5. ASSUME ~x.touched
      PROVE  /\ \A i \in DOMAIN x.reports : x.reports[i] = Plain(x)
             /\ x.fields = FinalCache(x) /\ x.billed = Paid(x, FinalCache(x))
  <2>1. ~q.touched /\ fields = FinalCache(q)
    BY <1>3, <1>5 DEF t
  <2>2. b = Paid(q, FinalCache(q))
    BY <2>1 DEF b
  <2>3. \A i \in DOMAIN q.reports : q.reports[i] = Plain(q)
    BY <2>1 DEF Balanced, Untouched
  <2> QED BY <1>3, <2>1, <2>2, <2>3, SameFinal
<1>6. Untouched(x)
  BY <1>5 DEF Untouched
<1> QED BY <1>3, <1>4, <1>6 DEF Balanced

LEMMA RetoldBalanced ==
  ASSUME NEW q \in Handled, Balanced(q), NEW x, Retelling(q, x)
  PROVE  Balanced(x)
<1>1. PICK config, input :
        /\ q.pc = "input" /\ Admissible(config) /\ input \in Retellings(q, config)
        /\ x = Retold(q, input)
  BY DEF Retelling
<1>2. input \in Told
  BY <1>1, RetoldHandled
<1> DEFINE t == q.touched \/ input /= q.billed
           p == IF q.path = "buffered" /\ q.reports = <<>> THEN "bypass" ELSE "done"
<1>3. x = [q EXCEPT !.pc = p, !.touched = t, !.reports = Telling(q, input)]
  BY <1>1 DEF Retold, Telling
<1>4. p \in {"bypass", "done"}
  OBVIOUS
<1> HIDE DEF t, p
<1>5. /\ x.pc = p /\ x.touched = t /\ x.reports = Telling(q, input) /\ SameAnswer(x, q)
  BY <1>3, HandlingFields DEF Handling, SameAnswer
<1>6. PartsFit => AllSourced(x) /\ Whole(x)
  BY <1>5, SameFinal DEF Balanced
<1>7. ASSUME ~x.touched, NEW i \in DOMAIN x.reports
      PROVE  x.reports[i] = Plain(x)
  <2>1. ~q.touched /\ input = q.billed
    BY <1>5, <1>7 DEF t
  <2>2. /\ \A k \in DOMAIN q.reports : q.reports[k] = Plain(q)
        /\ q.fields = FinalCache(q) /\ q.billed = Paid(q, FinalCache(q))
    BY <1>1, <2>1 DEF Balanced, Untouched
  <2>3. \A k \in DOMAIN q.reports : q.reports[k].cache = FinalCache(q)
    BY <2>2 DEF Plain
  <2>4. \/ i \in DOMAIN q.reports /\ x.reports[i] = [input |-> input, cache |-> q.reports[i].cache]
        \/ x.reports[i] = [input |-> input, cache |-> q.fields]
    BY <1>2, <1>5, <1>7, TellingFacts
  <2>5. x.reports[i] = [input |-> Paid(q, FinalCache(q)), cache |-> FinalCache(q)]
    BY <2>1, <2>2, <2>3, <2>4
  <2>6. Plain(x) = Plain(q)
    BY <1>5, SameFinal
  <2> QED BY <2>5, <2>6 DEF Plain
<1>8. Untouched(x)
  BY <1>4, <1>5, <1>7 DEF Untouched
<1> QED BY <1>4, <1>5, <1>6, <1>8 DEF Balanced

LEMMA ProceedsBalanced ==
  ASSUME NEW q \in Handled, Balanced(q), NEW x, Proceeds(q, x)
  PROVE  Balanced(x)
BY AskedBalanced, MovedBalanced, AnsweredBalanced, ReceivedBalanced, RefieldedBalanced,
   RetoldBalanced DEF Proceeds

AllBalanced == \A r \in Requests : req[r] \in Handled => Balanced(req[r])

LEMMA NotHandled == Idle \notin Handled /\ Gone \notin Handled
BY DEF Handled, Handling, Idle, Gone, Active, Working

LEMMA BalancedStep ==
  ASSUME Typed, AllBalanced, [Next]_vars
  PROVE  AllBalanced'
<1> SUFFICES ASSUME NEW r \in Requests, req'[r] \in Handled PROVE Balanced(req'[r])
  BY DEF AllBalanced
<1>1. Evolves(req[r], req'[r])
  BY TypedStep
<1>2. CASE req'[r] = req[r]
  BY <1>2 DEF AllBalanced
<1>3. CASE \E body \in Bodies : req'[r] = Fresh(body)
  BY <1>3, FreshBalanced
<1>4. CASE req'[r] = Gone
  BY <1>4, NotHandled
<1>5. CASE req[r] \in Handled /\ Proceeds(req[r], req'[r])
  BY <1>5, ProceedsBalanced DEF AllBalanced
<1> QED BY <1>1, <1>2, <1>3, <1>4, <1>5 DEF Evolves

\* What is read and created is part of the input a report is made of.
LEMMA FinalSum ==
  ASSUME PartsFit, NEW q \in Handled, Balanced(q), FinalInput(q) > 0,
         NEW i \in DOMAIN FinalCache(q)
  PROVE  FinalCache(q)[i].read + FinalCache(q)[i].creation <= FinalInput(q)
<1>1. AllSourced(q) /\ Whole(q)
  BY DEF Balanced
<1>2. CASE q.path = "whole" /\ q.parts # <<>>
  <2> DEFINE c == UpstreamCache(q.parts)
  <2>1. q.parts \in I32 \X I32 \X I32
    BY <1>2, HandlingFields DEF Triples
  <2>2. c.read = Most(q.parts[2], 0) /\ c.creation = Most(q.parts[3], 0)
    BY <2>1, UpstreamCacheFacts
  <2>3. FinalCache(q) = <<c>>
    BY <1>2 DEF FinalCache
  <2> HIDE DEF c
  <2>4. FinalCache(q)[i] = c
    BY <2>3
  <2>5. CASE q.upstream = None
    <3>1. c.read = 0 /\ c.creation = 0
      BY <1>1, <1>2, <2>2, <2>5 DEF Whole
    <3>2. FinalInput(q) \in Int
      BY FinalFacts, CountedFacts, UsageTypes
    <3> QED BY <2>4, <3>1, <3>2
  <2>6. CASE q.upstream # None
    <3>1. FinalInput(q) = q.upstream
      BY <1>2, <2>6 DEF FinalInput
    <3> QED BY <1>1, <1>2, <2>2, <2>4, <2>6, <3>1 DEF Whole
  <2> QED BY <2>5, <2>6
<1>3. CASE ~(q.path = "whole" /\ q.parts # <<>>)
  <2>1. FinalCache(q) = [k \in DOMAIN q.cache |-> Scaled(q.cache[k], q.input, FinalInput(q))]
    BY <1>3 DEF FinalCache
  <2>2. i \in DOMAIN q.cache /\ FinalCache(q)[i] = Scaled(q.cache[i], q.input, FinalInput(q))
    BY <2>1
  <2>3. Sourced(q, q.cache[i])
    BY <1>1, <2>2 DEF AllSourced
  <2>4. q.cache[i] \in Sources
    BY <2>2, HandlingFields
  <2>5. Scalable(q.cache[i])
    BY <2>4 DEF Sources, Scalable
  <2>6. q.input \in I32 /\ FinalInput(q) \in I32
    BY FinalFacts, HandlingFields, CountedFacts
  <2>7. q.path # "whole" /\ q.context # None => FinalInput(q) = q.context
    BY DEF FinalInput
  <2>8. q.input > 0 => q.input # None
    BY DEF None
  <2>9. Bounded(q.cache[i], q.input, FinalInput(q))
    BY <2>3, <2>7, <2>8 DEF Sourced, Bounded
  <2> QED BY <2>2, <2>5, <2>6, <2>9, ScaledFacts
<1> QED BY <1>2, <1>3

Cached(report) ==
  IF report.cache = <<>> THEN 0 ELSE report.cache[1].read + report.cache[1].creation

LEMMA PlainAddsUp ==
  ASSUME PartsFit, NEW q \in Handled, Balanced(q), FinalInput(q) > 0, NEW report, report = Plain(q)
  PROVE  report.input + Cached(report) = FinalInput(q)
<1>1. FinalInput(q) \in I32 /\ FinalInput(q) \in Int /\ FinalCache(q) \in Seq(Billable)
  BY FinalFacts, CountedFacts, UsageTypes
<1>2. report.input = Paid(q, FinalCache(q)) /\ report.cache = FinalCache(q)
  BY DEF Plain
<1>3. CASE FinalCache(q) = <<>>
  BY <1>1, <1>2, <1>3 DEF Paid, Cached
<1>4. CASE FinalCache(q) # <<>>
  <2>1. PICK c \in Billable : c = FinalCache(q)[1] /\ 1 \in DOMAIN FinalCache(q)
    BY <1>1, <1>4
  <2>2. c.read + c.creation <= FinalInput(q)
    BY <2>1, FinalSum
  <2>3. c \in CacheUsage
    BY DEF Billable
  <2>4. PICK b \in Count : b = Billed(FinalInput(q), c)
    BY <1>1, <2>3, BilledFacts
  <2>5. b + c.read + c.creation = FinalInput(q)
    BY <1>1, <2>2, <2>3, <2>4, BilledFacts
  <2>6. report.input = b
    BY <1>2, <1>4, <2>1, <2>4 DEF Paid
  <2>7. c.read \in Int /\ c.creation \in Int /\ b \in Int
    BY <2>3, <2>4, UsageTypes DEF Usages
  <2> QED BY <1>2, <1>4, <2>1, <2>5, <2>6, <2>7 DEF Cached
<1> QED BY <1>3, <1>4

\* Of no input nothing is billed, and the cache fields stay as they are.
LEMMA NothingBilled ==
  ASSUME NEW q \in Handled, FinalInput(q) = 0
  PROVE  Plain(q).input = 0 /\ FinalCache(q) = Unscaled(q)
<1>1. FinalCache(q) \in Seq(Billable)
  BY FinalFacts
<1>2. Plain(q).input = Paid(q, FinalCache(q))
  BY DEF Plain
<1>3. ASSUME FinalCache(q) = <<>> PROVE Plain(q).input = 0
  BY <1>2, <1>3 DEF Paid
<1>4. ASSUME FinalCache(q) # <<>> PROVE Plain(q).input = 0
  <2>1. PICK c \in CacheUsage : c = FinalCache(q)[1]
    BY <1>1, <1>4 DEF Billable
  <2>2. c.read \in Count /\ c.creation \in Count
    BY <2>1, UsageTypes DEF Usages
  <2>3. \A n \in Int : n <= 0 => Saturated(n) \in Int /\ Saturated(n) <= 0
    BY Constants DEF Saturated, Least, Most
  <2>4. PICK m \in Int : m = Saturated(0 - c.creation) /\ m <= 0
    BY <2>2, <2>3 DEF Count
  <2>5. PICK k \in Int : k = Saturated(m - c.read) /\ k <= 0
    BY <2>2, <2>3, <2>4 DEF Count
  <2>6. Billed(0, c) = Most(k, 0)
    BY <2>4, <2>5 DEF Billed
  <2>7. Most(k, 0) = 0
    BY <2>5 DEF Most
  <2> QED BY <1>2, <1>4, <2>1, <2>6, <2>7 DEF Paid
<1>5. FinalCache(q) = Unscaled(q)
  <2>1. CASE q.path = "whole" /\ q.parts # <<>>
    BY <2>1 DEF FinalCache, Unscaled
  <2>2. CASE ~(q.path = "whole" /\ q.parts # <<>>)
    <3>1. FinalCache(q) = [i \in DOMAIN q.cache |-> Scaled(q.cache[i], q.input, 0)]
      BY <2>2 DEF FinalCache
    <3>2. \A c : Scaled(c, q.input, 0) = c
      BY DEF Scaled
    <3>3. q.cache = [i \in DOMAIN q.cache |-> q.cache[i]]
      BY HandlingFields
    <3> QED BY <2>2, <3>1, <3>2, <3>3 DEF Unscaled
  <2> QED BY <2>1, <2>2
<1> QED BY <1>3, <1>4, <1>5

\* What was not rewritten is the plain report.
LEMMA UntouchedIsPlain ==
  ASSUME Typed, AllBalanced, NEW r \in Requests, req[r].pc = "done", ~req[r].touched,
         NEW i \in DOMAIN req[r].reports
  PROVE  req[r] \in Handled /\ Balanced(req[r]) /\ req[r].reports[i] = Plain(req[r])
<1>1. req[r] \in Handled
  BY ActiveRequest DEF Typed, Active, Working
<1>2. Balanced(req[r])
  BY <1>1 DEF AllBalanced
<1> QED BY <1>1, <1>2 DEF Balanced, Untouched

LEMMA BalancedAddsUp ==
  ASSUME PartsFit, Typed, AllBalanced
  PROVE  UsageAddsUp
<1> SUFFICES ASSUME NEW r \in Requests, req[r].pc = "done", ~req[r].touched,
                    NEW i \in DOMAIN req[r].reports
             PROVE  /\ FinalInput(req[r]) > 0 =>
                         req[r].reports[i].input + Cached(req[r].reports[i]) = FinalInput(req[r])
                    /\ FinalInput(req[r]) = 0 =>
                         /\ req[r].reports[i].input = 0
                         /\ req[r].reports[i].cache = Unscaled(req[r])
  BY DEF UsageAddsUp, Cached
<1>1. PICK q \in Handled : q = req[r] /\ Balanced(q) /\ req[r].reports[i] = Plain(q)
  BY UntouchedIsPlain
<1>2. FinalInput(q) > 0 => Plain(q).input + Cached(Plain(q)) = FinalInput(q)
  BY <1>1, PlainAddsUp
<1>3. FinalInput(q) = 0 => Plain(q).input = 0 /\ Plain(q).cache = Unscaled(q)
  BY NothingBilled DEF Plain
<1> QED BY <1>1, <1>2, <1>3

LEMMA BalancedAlways == Spec => [](Typed /\ AllBalanced)
<1>1. Init => Typed /\ AllBalanced
  BY TypedInit, NotHandled DEF Init, AllBalanced
<1>2. Typed /\ AllBalanced /\ [Next]_vars => (Typed /\ AllBalanced)'
  BY TypedStep, BalancedStep
<1> QED BY <1>1, <1>2, PTL DEF Spec

\* Where no number was rewritten, what is billed, read and created adds up to an input
\* above 0 on each of the three paths, whatever percentages and tokenUsages the upstream
\* sends in whatever order (handlers.rs:290, stream.rs:1323), and of an input of 0 the
\* client is told 0 beside the cache fields as they came in (handlers.rs:306) -- if the
\* sum of the parts of a tokenUsage is an i32.
THEOREM UsageSumsUp ==
  ASSUME PartsFit
  PROVE  Spec => []UsageAddsUp
<1>1. Typed /\ AllBalanced => UsageAddsUp
  BY BalancedAddsUp
<1> QED BY <1>1, BalancedAlways, PTL

\* Where nothing was rewritten, no number is negative.
LEMMA PlainCounts ==
  ASSUME InputsFit, NEW q \in Handled
  PROVE  Plain(q).input \in Count /\ Plain(q).cache \in Seq(Billable)
<1>1. FinalInput(q) \in Count /\ FinalCache(q) \in Seq(Billable)
  BY FinalFacts DEF Counted
<1>2. CASE FinalCache(q) = <<>>
  BY <1>1, <1>2 DEF Plain, Paid
<1>3. CASE FinalCache(q) # <<>>
  <2>1. PICK c \in CacheUsage : c = FinalCache(q)[1]
    BY <1>1, <1>3 DEF Billable
  <2>2. Billed(FinalInput(q), c) \in Count
    BY <1>1, UsageTypes, BilledFacts
  <2> QED BY <1>1, <1>3, <2>1, <2>2 DEF Plain, Paid
<1> QED BY <1>2, <1>3

Numbered(r, i, N) ==
  /\ req[r].reports[i].input \in N
  /\ \A j \in DOMAIN req[r].reports[i].cache : req[r].reports[i].cache[j] \in Usages(N)

LEMMA TypedIsTypeOK ==
  ASSUME Typed, Mapped, AllBalanced
  PROVE  TypeOK
<1>1. ASSUME NEW r \in Requests, req[r].pc = "done", NEW i \in DOMAIN req[r].reports
      PROVE  Numbered(r, i, Told)
  <2>1. Reportable \subseteq Usages(Told)
    BY DEF Reportable
  <2> QED BY <1>1, <2>1, ReportedUsage DEF Numbered
<1>2. ASSUME NEW r \in Requests, req[r].pc = "done", NEW i \in DOMAIN req[r].reports,
             InputsFit, ~req[r].touched
      PROVE  Numbered(r, i, Count)
  <2>1. PICK q \in Handled : req[r].reports[i] = Plain(q)
    BY <1>2, UntouchedIsPlain
  <2>2. Plain(q).input \in Count /\ Plain(q).cache \in Seq(Billable)
    BY <1>2, PlainCounts
  <2>3. Billable \subseteq Usages(Count)
    BY UsageTypes DEF Billable
  <2> QED BY <2>1, <2>2, <2>3 DEF Numbered
<1>3. ASSUME NEW r \in Requests, NEW i, Numbered(r, i, Count)
      PROVE  Numbered(r, i, I32)
  <2>1. Usages(Count) \subseteq Usages(I32)
    BY UsageTypes DEF Usages
  <2> QED BY <1>3, <2>1, UsageTypes DEF Numbered
<1>4. ASSUME NEW r \in Requests, req[r].pc = "done", NEW i \in DOMAIN req[r].reports
      PROVE  Numbered(r, i, IF InputsFit /\ (ConfigsFit \/ ~req[r].touched) THEN Count ELSE I32)
  <2>1. CASE InputsFit /\ ConfigsFit
    BY <1>1, <1>4, <2>1 DEF Told
  <2>2. CASE InputsFit /\ ~ConfigsFit /\ ~req[r].touched
    BY <1>2, <1>4, <2>2
  <2>3. CASE ~(InputsFit /\ (ConfigsFit \/ ~req[r].touched))
    BY <1>1, <1>4, <2>3 DEF Told
  <2> QED BY <2>1, <2>2, <2>3
<1> QED BY <1>4 DEF TypeOK, Mapped, Numbered

\* Whatever is scaled to the upstream's count, bounded, multiplied and billed, by
\* whatever configuration, every number a client is told is an i32, and the tracker
\* never holds two expiries of one prefix of a credential (cache_tracker.rs:62,
\* handlers.rs:301, cache_rewriter.rs:60).  Of estimates and percentages that are not
\* negative a number below 0 has only one source: a configured bound too large for
\* `as i32` (cache_rewriter.rs:253), and then only in a report that was rewritten.
THEOREM Types == Spec => []TypeOK
<1>1. Typed /\ Mapped /\ AllBalanced => TypeOK
  BY TypedIsTypeOK
<1> QED BY <1>1, MappedAlways, BalancedAlways, PTL

-----------------------------------------------------------------------------
(* What the tracker remembers.                                                *)
Matching(e, cred, p) == e.cred = cred /\ e.prefix = p.prefix

\* Each entry was put there by a request that is served.
Explained(e, s) ==
  s.cred = e.cred /\ \E i \in DOMAIN Points(s.body) :
    Points(s.body)[i].prefix = e.prefix /\ e.expires = s.time + Points(s.body)[i].ttl
Explaining(known, history) == \A e \in known : \E s \in history : Explained(e, s)

\* What was asked at a time is kept for the shortest time to live from then on.
Kept(known, cred, body, at) ==
  \A p \in Recent(Points(body)) : \E e \in known :
    Matching(e, cred, p) /\ e.expires >= at + Shortest

\* What was asked and not found: what there is of it had expired or came later.
Stale(known, cred, body, at) ==
  \A p \in Recent(Points(body)) : \A e \in known :
    Matching(e, cred, p) => e.expires <= at \/ e.expires >= at + Shortest

Serving ==
  served \subseteq [body : Bodies, cred : Credentials, at : Nat, time : Nat, paid : BOOLEAN]
Paying(s, known, time) ==
  s.paid => /\ s.at <= time /\ Points(s.body) # <<>>
            /\ time < s.at + Shortest => Kept(known, s.cred, s.body, s.at)
Waiting(q, known, time) ==
  q.pc = "connected" =>
    /\ q.at <= time
    /\ q.cache[1].creation > 0 =>
         Points(q.body) # <<>> /\ Stale(known, q.cred, q.body, q.at)

Remembering ==
  /\ Serving /\ Explaining(entries, served)
  /\ \A s \in served : Paying(s, entries, now)
  /\ \A r \in Requests : Waiting(req[r], entries, now)

LEMMA PointFacts ==
  ASSUME NEW body \in Bodies
  PROVE  /\ \A i \in DOMAIN Points(body) : Points(body)[i].ttl \in Lifetimes
         /\ Recent(Points(body)) \subseteq {Points(body)[i] : i \in DOMAIN Points(body)}
         /\ Points(body) # <<>> => Recent(Points(body)) # {}
<1>1. Profiled(Profiles[body]) /\ Points(body) = Profiles[body].points
  BY ProfileFacts DEF Points
<1>2. PICK V : Pointed(V) /\ Points(body) \in Seq(V)
  BY <1>1 DEF Profiled
<1>3. ASSUME NEW i \in DOMAIN Points(body) PROVE Points(body)[i].ttl \in Lifetimes
  BY <1>2 DEF Pointed
<1>4. Recent(Points(body)) \subseteq {Points(body)[i] : i \in DOMAIN Points(body)}
  BY DEF Recent
<1>5. ASSUME Points(body) # <<>> PROVE Recent(Points(body)) # {}
  <2>1. PICK n \in Nat : n = Len(Points(body)) /\ n > 0 /\ DOMAIN Points(body) = 1 .. n
    BY <1>2, <1>5
  <2>2. n \in DOMAIN Points(body) /\ n > n - LookBack
    BY <2>1, Constants
  <2>3. Points(body)[n] \in Recent(Points(body))
    BY <2>1, <2>2 DEF Recent
  <2> QED BY <2>3
<1> QED BY <1>3, <1>4, <1>5

LEMMA ExpiresInTime ==
  ASSUME Serving, NEW e, NEW s \in served, Explained(e, s)
  PROVE  e.expires \in Nat /\ e.expires <= s.time + Longest /\ s.time \in Nat
<1>1. s.body \in Bodies /\ s.time \in Nat
  BY DEF Serving
<1>2. PICK i \in DOMAIN Points(s.body) : e.expires = s.time + Points(s.body)[i].ttl
  BY DEF Explained
<1>3. PICK t \in Lifetimes : t = Points(s.body)[i].ttl
  BY <1>1, PointFacts
<1>4. t \in Nat /\ t <= Longest /\ Longest \in Nat
  BY LifetimeFacts
<1> QED BY <1>1, <1>2, <1>3, <1>4

LEMMA EntriesInTime ==
  ASSUME Serving, Explaining(entries, served)
  PROVE  \A e \in entries : e.expires \in Nat
BY ExpiresInTime DEF Explaining

\* Pruning and time keep what is kept ...
LEMMA LiveKept ==
  ASSUME \A e \in entries : e.expires \in Nat, NEW time \in Nat, NEW cred, NEW body,
         NEW at \in Nat, time < at + Shortest, Kept(entries, cred, body, at),
         NEW known, Live(entries, time) \subseteq known
  PROVE  Kept(known, cred, body, at)
<1>1. Shortest \in Nat
  BY LifetimeFacts
<1> SUFFICES ASSUME NEW p \in Recent(Points(body))
             PROVE  \E e \in known : Matching(e, cred, p) /\ e.expires >= at + Shortest
  BY DEF Kept
<1>2. PICK e \in entries : Matching(e, cred, p) /\ e.expires >= at + Shortest
  BY DEF Kept
<1>3. e.expires \in Nat
  BY <1>2
<1>4. e.expires > time
  BY <1>1, <1>2, <1>3
<1>5. e \in Live(entries, time)
  BY <1>2, <1>4 DEF Live
<1> QED BY <1>2, <1>5

\* ... and what was stale stays so: what is added lives long enough.
LEMMA FewerStale ==
  ASSUME NEW known, known \subseteq entries, NEW cred, NEW body, NEW at,
         Stale(entries, cred, body, at)
  PROVE  Stale(known, cred, body, at)
BY DEF Stale

\* An entry an update adds; what an update leaves of a breakpoint.
Added(e, cred, body, time) ==
  \E i \in DOMAIN Points(body) :
    /\ e.cred = cred /\ e.prefix = Points(body)[i].prefix
    /\ e.expires = time + Points(body)[i].ttl
Present(p, known, cred, time) ==
  \/ \E e \in Live(entries, time) : Matching(e, cred, p)
  \/ \E e \in known : Matching(e, cred, p) /\ e.expires = time + p.ttl

LEMMA UpdatedFacts ==
  ASSUME NEW body \in Bodies, NEW cred, NEW time \in Nat, NEW known,
         known = Updated(entries, cred, Profiles[body], time)
  PROVE  /\ Live(entries, time) \subseteq known
         /\ \A e \in known : e \in entries \/ Added(e, cred, body, time)
         /\ \A i \in DOMAIN Points(body) : Present(Points(body)[i], known, cred, time)
<1> DEFINE live == Live(entries, time)
           Known(p) == \E e \in live : e.cred = cred /\ e.prefix = p.prefix
           all == {Points(body)[i] : i \in DOMAIN Points(body)}
           Entry(p) == [cred |-> cred, prefix |-> p.prefix, expires |-> time + p.ttl]
<1>1. known = live \cup {Entry(p) : p \in {p \in all : ~Known(p)}}
  BY DEF Updated, Points
<1>2. live \subseteq entries
  BY DEF Live
<1>3. ASSUME NEW p
      PROVE  Entry(p).cred = cred /\ Entry(p).prefix = p.prefix /\ Entry(p).expires = time + p.ttl
  OBVIOUS
<1> HIDE DEF live, Entry
<1>4. ASSUME NEW e \in known, e \notin entries
      PROVE  Added(e, cred, body, time)
  <2>1. PICK p \in all : e = Entry(p)
    BY <1>1, <1>2, <1>4
  <2>2. PICK i \in DOMAIN Points(body) : p = Points(body)[i]
    BY <2>1
  <2> QED BY <1>3, <2>1, <2>2 DEF Added
<1>5. ASSUME NEW i \in DOMAIN Points(body), ~Known(Points(body)[i])
      PROVE  \E e \in known : Matching(e, cred, Points(body)[i])
                              /\ e.expires = time + Points(body)[i].ttl
  <2>1. Entry(Points(body)[i]) \in known
    BY <1>1, <1>5
  <2> QED BY <1>3, <2>1 DEF Matching
<1>6. \A i \in DOMAIN Points(body) : Present(Points(body)[i], known, cred, time)
  BY <1>5 DEF Present, live, Matching
<1> QED BY <1>1, <1>4, <1>6 DEF live

LEMMA UpdatedStale ==
  ASSUME NEW body \in Bodies, NEW cred, NEW time \in Nat, NEW known,
         known = Updated(entries, cred, Profiles[body], time),
         NEW asker, NEW asked, NEW at \in Nat, at <= time, Stale(entries, asker, asked, at)
  PROVE  Stale(known, asker, asked, at)
<1> SUFFICES ASSUME NEW p \in Recent(Points(asked)), NEW e \in known, Matching(e, asker, p)
             PROVE  e.expires <= at \/ e.expires >= at + Shortest
  BY DEF Stale
<1>1. CASE e \in entries
  BY <1>1 DEF Stale
<1>2. CASE e \notin entries
  <2>0. Added(e, cred, body, time)
    BY <1>2, UpdatedFacts
  <2>1. PICK i \in DOMAIN Points(body) : e.expires = time + Points(body)[i].ttl
    BY <2>0 DEF Added
  <2>2. PICK t \in Lifetimes : t = Points(body)[i].ttl
    BY PointFacts
  <2>3. t \in Nat /\ Shortest \in Nat /\ Shortest <= t
    BY LifetimeFacts
  <2> QED BY <2>1, <2>2, <2>3
<1> QED BY <1>1, <1>2

LEMMA UpdatedKept ==
  ASSUME \A e \in entries : e.expires \in Nat,
         NEW body \in Bodies, NEW cred, NEW time \in Nat, NEW known,
         known = Updated(entries, cred, Profiles[body], time),
         NEW at \in Nat, at <= time, Stale(entries, cred, body, at)
  PROVE  Kept(known, cred, body, at)
<1> SUFFICES ASSUME NEW p \in Recent(Points(body))
             PROVE  \E e \in known : Matching(e, cred, p) /\ e.expires >= at + Shortest
  BY DEF Kept
<1>1. PICK i \in DOMAIN Points(body) : p = Points(body)[i]
  BY PointFacts
<1>2. CASE \E e \in Live(entries, time) : Matching(e, cred, p)
  <2>1. PICK e \in Live(entries, time) : Matching(e, cred, p)
    BY <1>2
  <2>2. e \in entries /\ e.expires > time
    BY <2>1 DEF Live
  <2>3. e.expires <= at \/ e.expires >= at + Shortest
    BY <2>1, <2>2 DEF Stale
  <2>4. e.expires \in Nat
    BY <2>2
  <2>5. e.expires >= at + Shortest
    BY <2>2, <2>3, <2>4
  <2>6. e \in known
    BY <2>1, UpdatedFacts
  <2> QED BY <2>1, <2>5, <2>6
<1>3. CASE \E e \in known : Matching(e, cred, p) /\ e.expires = time + p.ttl
  <2>1. PICK e \in known : Matching(e, cred, p) /\ e.expires = time + p.ttl
    BY <1>3
  <2>2. PICK t \in Lifetimes : t = p.ttl
    BY <1>1, PointFacts
  <2>3. t \in Nat /\ Shortest \in Nat /\ Shortest <= t
    BY LifetimeFacts
  <2> QED BY <2>1, <2>2, <2>3
<1>4. Present(p, known, cred, time)
  BY <1>1, UpdatedFacts
<1> QED BY <1>2, <1>3, <1>4 DEF Present

\* Nothing but Connect makes a request one that waits for its update.
LEMMA OthersDoNotConnect ==
  ASSUME Typed, NEW r \in Requests, RequestStep(r), ~Connect(r)
  PROVE  req'[r].pc # "connected"
<1> DEFINE q == req[r]
<1>1. req \in Handles /\ Admissible(optimizer)
  BY Admitting DEF Typed, StartedAdmissible
<1>2. q.pc \in Active => q \in Handled
  BY <1>1, ActiveRequest
<1>3. ASSUME NEW x, req' = [req EXCEPT ![r] = x] PROVE req'[r] = x
  BY <1>1, <1>3 DEF Handles
<1> HIDE DEF q
<1>4. CASE Arrive(r)
  BY <1>3, <1>4, ArriveSets DEF Fresh
<1>5. CASE ConnectUncounted(r) \/ Record(r)
  <2>1. \/ q.pc = "sent" /\ req' = [req EXCEPT ![r] = Opened(q)]
        \/ q.pc = "connected" /\ req' = [req EXCEPT ![r] = Recorded(q)]
    BY <1>5 DEF ConnectUncounted, Record, Opened, Recorded, q
  <2>2. q \in Handled
    BY <1>2, <2>1 DEF Active
  <2> QED BY <1>3, <2>1, <2>2, MovedAnswer
<1>6. CASE Respond(r)
  <2>1. PICK path \in Paths : q.pc = "open" /\ req' = [req EXCEPT ![r] = Answered(q, path)]
    BY <1>6 DEF Respond, Answered, q
  <2>2. q \in Handled
    BY <1>2, <2>1 DEF Active
  <2> QED BY <1>3, <2>1, <2>2, AnsweredAnswer, ZenonT(60)
<1>7. CASE Receive(r)
  <2>1. PICK e \in UsageEvents : q.pc = "reading" /\ req' = [req EXCEPT ![r] = Received(Heard(q), e)]
    BY <1>7 DEF Receive, q
  <2>2. q \in Handled
    BY <1>2, <2>1 DEF Active, Working
  <2>3. SameCourse(Received(Heard(q), e), q)
    BY <2>1, <2>2, ReceivedHandled
  <2> QED BY <1>3, <2>1, <2>3 DEF SameCourse
<1>8. CASE Close(r)
  <2>1. q.pc = "reading" /\ req' = [req EXCEPT ![r] = Closed(q)]
    BY <1>8 DEF Close, Closed, q
  <2>2. q \in Handled
    BY <1>2, <2>1 DEF Active, Working
  <2> QED BY <1>3, <2>1, <2>2, MovedAnswer
<1>9. CASE DecideBypass(r)
  <2>1. q.pc = "bypass" /\ req' = [req EXCEPT ![r] = Decided(q, Bypass(optimizer, q.path, q.input))]
    BY <1>9 DEF DecideBypass, Decided, q
  <2>2. q \in Handled /\ Bypass(optimizer, q.path, q.input) \in BOOLEAN
    BY <1>2, <2>1 DEF Active, Working, Bypass
  <2> QED BY <1>3, <2>1, <2>2, MovedAnswer
<1>10. CASE RewriteFields(r)
  <2>1. PICK fields : q.pc = "fields" /\ req' = [req EXCEPT ![r] = Refielded(q, fields)]
    BY <1>10, RewriteFieldsSets DEF q
  <2>2. q \in Handling
    BY <1>2, <2>1, HandlingFields DEF Active, Working
  <2>3. Refielded(q, fields).pc = "input"
    BY <2>2 DEF Refielded, Handling
  <2> QED BY <1>3, <2>1, <2>3
<1>11. CASE RewriteInput(r)
  <2>1. PICK input \in Retellings(q, optimizer) :
          q.pc = "input" /\ req' = [req EXCEPT ![r] = Retold(q, input)]
    BY <1>11, RewriteInputSets DEF q
  <2>2. q \in Handling
    BY <1>2, <2>1, HandlingFields DEF Active, Working
  <2>3. Retold(q, input).pc \in {"bypass", "done"}
    BY <2>2 DEF Retold, Handling
  <2> QED BY <1>3, <2>1, <2>3
<1>12. CASE Leave(r) \/ Abandon(r)
  <2>1. req' = [req EXCEPT ![r] = Gone]
    BY <1>12 DEF Leave, Abandon
  <2>2. req'[r] = Gone
    BY <1>3, <2>1
  <2>3. Gone.pc # "connected"
    BY DEF Gone
  <2> QED BY <2>2, <2>3
<1> QED BY <1>4, <1>5, <1>6, <1>7, <1>8, <1>9, <1>10, <1>11, <1>12 DEF RequestStep

LEMMA ConnectedBy ==
  ASSUME Typed, [Next]_vars, NEW r \in Requests, req'[r].pc = "connected"
  PROVE  req'[r] = req[r] \/ Connect(r)
<1>1. CASE \E x \in Requests : RequestStep(x)
  <2>1. PICK x \in Requests : RequestStep(x)
    BY <1>1
  <2>2. PICK y : Evolves(req[x], y) /\ req' = [req EXCEPT ![x] = y]
    BY <2>1, StepEvolves
  <2>3. CASE x = r
    BY <2>1, <2>3, OthersDoNotConnect
  <2>4. CASE x # r
    BY <2>2, <2>4 DEF Typed, Handles
  <2> QED BY <2>3, <2>4
<1>2. CASE SetOptimizer \/ Tick \/ UNCHANGED vars
  BY <1>2 DEF SetOptimizer, Tick, vars
<1> QED BY <1>1, <1>2, NextCases

\* What Connect makes of the request, and of the entries.
Connects(r, cred, j) ==
  /\ req[r] \in Handled /\ cred \in Credentials /\ j \in Jitters
  /\ req'[r] = Asked(req[r], cred, now, Computed(entries, cred, ProfileOf(req[r]), now, j))
  /\ entries' = Pruned(entries, ProfileOf(req[r]), now)
  /\ now' = now /\ served' = served

LEMMA ConnectSets ==
  ASSUME Typed, NEW r \in Requests, Connect(r)
  PROVE  \E cred, j : Connects(r, cred, j)
<1>1. PICK cred \in Credentials, j \in Jitters :
        /\ req[r].pc = "sent"
        /\ req' = [req EXCEPT ![r] =
             Asked(req[r], cred, now, Computed(entries, cred, ProfileOf(req[r]), now, j))]
  BY DEF Connect, Asked
<1>2. req[r] \in Handled
  BY <1>1, ActiveRequest DEF Typed, Active
<1>3. req'[r] = Asked(req[r], cred, now, Computed(entries, cred, ProfileOf(req[r]), now, j))
  BY <1>1 DEF Typed, Handles
<1>4. /\ entries' = Pruned(entries, ProfileOf(req[r]), now)
      /\ now' = now /\ served' = served
  BY DEF Connect
<1> QED BY <1>1, <1>2, <1>3, <1>4 DEF Connects

\* What Connect leaves a request with.
LEMMA ConnectedFacts ==
  ASSUME NEW r \in Requests, NEW cred, NEW j, Connects(r, cred, j), NEW q, q = req'[r],
         NEW c, c = Computed(entries, cred, ProfileOf(req[r]), now, j)
  PROVE  /\ q.body = req[r].body /\ q.body \in Bodies /\ q.cred = cred /\ q.at = now
         /\ q.cache[1] = c /\ ProfileOf(q) = ProfileOf(req[r])
         /\ ProfileOf(q).points = Points(q.body)
         /\ c.jitter > 0 <=> Points(q.body) # <<>> /\ Hit(entries, cred, ProfileOf(q), now)
         /\ c.creation > 0 => Points(q.body) # <<>> /\ ~Hit(entries, cred, ProfileOf(q), now)
<1>1. req[r] \in Handled /\ j \in Jitters /\ q = Asked(req[r], cred, now, c)
  BY DEF Connects
<1>2. req[r].body \in Bodies /\ req[r] \in Handling
  BY <1>1, HandlingFields
<1>3. q.body = req[r].body /\ q.cred = cred /\ q.at = now /\ q.cache = <<c>>
  BY <1>1, <1>2 DEF Asked, Handling
<1>4. ProfileOf(q) = ProfileOf(req[r]) /\ ProfileOf(q).points = Points(q.body)
  BY <1>3 DEF ProfileOf, Points
<1>5. Profiled(ProfileOf(q))
  BY <1>2, <1>3, ProfileFacts DEF ProfileOf
<1>6. c = Computed(entries, cred, ProfileOf(q), now, j)
  BY <1>4
<1>7. /\ c.jitter > 0 <=> ProfileOf(q).points # <<>> /\ Hit(entries, cred, ProfileOf(q), now)
      /\ c.creation > 0 => ProfileOf(q).points # <<>> /\ ~Hit(entries, cred, ProfileOf(q), now)
  BY <1>1, <1>5, <1>6, ComputedFacts
<1> QED BY <1>2, <1>3, <1>4, <1>7

LEMMA MissIsStale ==
  ASSUME \A e \in entries : e.expires \in Nat, NEW time \in Nat, NEW cred, NEW body,
         ~Hit(entries, cred, Profiles[body], time)
  PROVE  Stale(entries, cred, body, time)
<1>1. \A e \in Live(entries, time) : \A p \in Recent(Points(body)) : ~Matching(e, cred, p)
  BY DEF Hit, Points, Matching
<1>2. \A e \in entries : e.expires > time => e \in Live(entries, time)
  BY DEF Live
<1>3. \A e \in entries : e.expires > time \/ e.expires <= time
  OBVIOUS
<1> QED BY <1>1, <1>2, <1>3 DEF Stale

\* What a step that is not a Record makes of the store: it prunes, or time passes.
Prunes ==
  /\ served' = served /\ entries' \subseteq entries /\ Live(entries, now) \subseteq entries'
  /\ now' \in Nat /\ now <= now'

LEMMA StoreStep ==
  ASSUME Typed, [Next]_vars
  PROVE  Prunes \/ \E r \in Requests : Record(r)
<1>1. now \in Nat
  BY DEF Typed
<1>2. Live(entries, now) \subseteq entries
  BY DEF Live
<1>3. ASSUME NEW profile
      PROVE  /\ Pruned(entries, profile, now) \subseteq entries
             /\ Live(entries, now) \subseteq Pruned(entries, profile, now)
  BY <1>2 DEF Pruned
<1>4. ASSUME NEW r \in Requests, RequestStep(r) PROVE Prunes \/ Record(r)
  <2>1. CASE Record(r)
    BY <2>1
  <2>2. CASE ~Record(r)
    <3>1. now' = now /\ served' = served
      BY <1>4, <2>2, StepFrame
    <3>2. entries' = entries \/ \E profile : entries' = Pruned(entries, profile, now)
      <4>1. CASE Arrive(r)
        BY <4>1, ArriveSets
      <4>2. CASE Connect(r)
        BY <4>2 DEF Connect
      <4>3. CASE ~(Arrive(r) \/ Connect(r) \/ Record(r))
        BY <1>4, <4>3 DEF RequestStep, ConnectUncounted, Respond, Receive, Close,
             DecideBypass, RewriteFields, RewriteInput, Leave, Abandon
      <4> QED BY <2>2, <4>1, <4>2, <4>3
    <3>3. entries' \subseteq entries /\ Live(entries, now) \subseteq entries'
      BY <1>2, <1>3, <3>2
    <3> QED BY <1>1, <3>1, <3>3 DEF Prunes
  <2> QED BY <2>1, <2>2
<1>5. CASE SetOptimizer \/ UNCHANGED vars
  BY <1>1, <1>2, <1>5 DEF SetOptimizer, vars, Prunes
<1>6. CASE Tick
  BY <1>1, <1>2, <1>6 DEF Tick, Prunes
<1> QED BY <1>4, <1>5, <1>6, NextCases

\* The requests that wait, after a step that only prunes.
LEMMA PrunesWaiting ==
  ASSUME Typed, Remembering, [Next]_vars, Prunes, NEW r \in Requests
  PROVE  Waiting(req'[r], entries', now')
<1> DEFINE q == req'[r]
<1> SUFFICES ASSUME q.pc = "connected"
             PROVE  /\ q.at <= now'
                    /\ q.cache[1].creation > 0 =>
                         Points(q.body) # <<>> /\ Stale(entries', q.cred, q.body, q.at)
  BY DEF Waiting
<1>1. now \in Nat /\ now' \in Nat /\ now <= now'
  BY DEF Typed, Prunes
<1>2. \A e \in entries : e.expires \in Nat
  BY EntriesInTime DEF Remembering
<1>3. CASE q = req[r]
  <2>1. /\ q.at <= now
        /\ q.cache[1].creation > 0 =>
             Points(q.body) # <<>> /\ Stale(entries, q.cred, q.body, q.at)
    BY <1>3 DEF Remembering, Waiting
  <2>2. q.at \in Nat
    <3>1. q \in Handled
      BY <1>3, ActiveRequest DEF Typed, Active
    <3> QED BY <3>1 DEF Handled
  <2>3. q.at <= now'
    BY <1>1, <2>1, <2>2
  <2>4. entries' \subseteq entries
    BY DEF Prunes
  <2> QED BY <2>1, <2>3, <2>4, FewerStale
<1>4. CASE Connect(r)
  <2>1. PICK cred, j : Connects(r, cred, j)
    BY <1>4, ConnectSets
  <2>2. /\ q.body \in Bodies /\ q.cred = cred /\ q.at = now
        /\ q.cache[1].creation > 0 => Points(q.body) # <<>> /\ ~Hit(entries, cred, ProfileOf(q), now)
    BY <2>1, ConnectedFacts
  <2>3. q.at <= now'
    BY <1>1, <2>2
  <2>4. ASSUME q.cache[1].creation > 0
        PROVE  Points(q.body) # <<>> /\ Stale(entries', q.cred, q.body, q.at)
    <3>1. Points(q.body) # <<>> /\ ~Hit(entries, cred, Profiles[q.body], now)
      BY <2>2, <2>4 DEF ProfileOf
    <3>2. Stale(entries, cred, q.body, now)
      BY <1>1, <1>2, <3>1, MissIsStale
    <3>3. entries' \subseteq entries
      BY DEF Prunes
    <3> QED BY <2>2, <3>1, <3>2, <3>3, FewerStale
  <2> QED BY <2>3, <2>4
<1> QED BY <1>3, <1>4, ConnectedBy

LEMMA PrunesRemembering ==
  ASSUME Typed, Remembering, [Next]_vars, Prunes
  PROVE  Remembering'
<1>1. now \in Nat /\ now' \in Nat /\ now <= now'
  BY DEF Typed, Prunes
<1>2. \A e \in entries : e.expires \in Nat
  BY EntriesInTime DEF Remembering
<1>3. Serving'
  BY DEF Remembering, Serving, Prunes
<1>4. Explaining(entries', served')
  BY DEF Remembering, Explaining, Prunes
<1>5. ASSUME NEW s \in served, s.paid
      PROVE  /\ s.at <= now' /\ Points(s.body) # <<>>
             /\ now' < s.at + Shortest => Kept(entries', s.cred, s.body, s.at)
  <2>1. /\ s.at <= now /\ Points(s.body) # <<>>
        /\ now < s.at + Shortest => Kept(entries, s.cred, s.body, s.at)
    BY <1>5 DEF Remembering, Paying
  <2>2. s.at \in Nat /\ Shortest \in Nat
    BY LifetimeFacts DEF Remembering, Serving
  <2>3. s.at <= now'
    BY <1>1, <2>1, <2>2
  <2>4. ASSUME now' < s.at + Shortest PROVE Kept(entries', s.cred, s.body, s.at)
    <3>1. now < s.at + Shortest
      BY <1>1, <2>2, <2>4
    <3>2. Live(entries, now) \subseteq entries'
      BY DEF Prunes
    <3> QED BY <1>1, <1>2, <2>1, <2>2, <3>1, <3>2, LiveKept
  <2> QED BY <2>1, <2>3, <2>4
<1>6. \A s \in served' : Paying(s, entries', now')
  BY <1>5 DEF Paying, Prunes
<1>7. \A r \in Requests : Waiting(req'[r], entries', now')
  BY PrunesWaiting
<1> QED BY <1>3, <1>4, <1>6, <1>7 DEF Remembering

\* What Record makes of the request, the store and the history.
Ticket(q) ==
  [body |-> q.body, cred |-> q.cred, at |-> q.at, time |-> now, paid |-> q.cache[1].creation > 0]
Records(r) ==
  /\ req[r] \in Handled /\ req[r].pc = "connected"
  /\ req[r].body \in Bodies /\ req[r].cred \in Credentials /\ req[r].at \in Nat
  /\ req'[r].pc = "open" /\ \A x \in Requests \ {r} : req'[x] = req[x]
  /\ entries' = Updated(entries, req[r].cred, Profiles[req[r].body], now)
  /\ served' = served \cup {Ticket(req[r])} /\ now' = now

LEMMA RecordSets ==
  ASSUME Typed, NEW r \in Requests, Record(r)
  PROVE  Records(r)
<1>1. /\ req[r].pc = "connected" /\ req' = [req EXCEPT ![r] = Recorded(req[r])]
      /\ entries' = Updated(entries, req[r].cred, Profiles[req[r].body], now)
      /\ served' = served \cup {Ticket(req[r])} /\ now' = now
  BY DEF Record, Recorded, Ticket, ProfileOf
<1>2. req[r] \in Handled
  BY <1>1, ActiveRequest DEF Typed, Active
<1>3. req[r].body \in Bodies /\ req[r].cred \in Credentials /\ req[r].at \in Nat
  BY <1>1, <1>2, HandlingFields DEF Handled
<1>4. req'[r] = Recorded(req[r]) /\ \A x \in Requests \ {r} : req'[x] = req[x]
  BY <1>1 DEF Typed, Handles
<1>5. req'[r].pc = "open"
  BY <1>2, <1>4, MovedAnswer
<1> QED BY <1>1, <1>2, <1>3, <1>4, <1>5 DEF Records

LEMMA RecordRemembering ==
  ASSUME Typed, Remembering, NEW r \in Requests, Records(r)
  PROVE  Remembering'
<1> DEFINE q == req[r]
           t == Ticket(q)
<1>1. now \in Nat /\ now' = now /\ q.body \in Bodies /\ q.cred \in Credentials /\ q.at \in Nat
  BY DEF Typed, Records
<1>2. \A e \in entries : e.expires \in Nat
  BY EntriesInTime DEF Remembering
<1>3. /\ entries' = Updated(entries, q.cred, Profiles[q.body], now)
      /\ served' = served \cup {t}
  BY DEF Records
<1>4. /\ q.at <= now
      /\ q.cache[1].creation > 0 =>
           Points(q.body) # <<>> /\ Stale(entries, q.cred, q.body, q.at)
  BY DEF Records, Remembering, Waiting
<1> HIDE DEF q
<1>5. /\ t.body = q.body /\ t.cred = q.cred /\ t.at = q.at /\ t.time = now
      /\ t.paid = (q.cache[1].creation > 0) /\ t.paid \in BOOLEAN
      /\ t = [body |-> t.body, cred |-> t.cred, at |-> t.at, time |-> t.time, paid |-> t.paid]
  BY DEF Ticket
<1> HIDE DEF t
<1>6. Serving'
  <2>1. [body |-> t.body, cred |-> t.cred, at |-> t.at, time |-> t.time, paid |-> t.paid]
          \in [body : Bodies, cred : Credentials, at : Nat, time : Nat, paid : BOOLEAN]
    BY <1>1, <1>5
  <2>2. t \in [body : Bodies, cred : Credentials, at : Nat, time : Nat, paid : BOOLEAN]
    BY <1>5, <2>1, Zenon
  <2> QED BY <1>3, <2>2 DEF Remembering, Serving
<1>7. Explaining(entries', served')
  <2> SUFFICES ASSUME NEW e \in entries' PROVE \E s \in served' : Explained(e, s)
    BY DEF Explaining
  <2>1. CASE e \in entries
    BY <1>3, <2>1 DEF Remembering, Explaining
  <2>2. CASE Added(e, q.cred, q.body, now)
    <3>1. Explained(e, t)
      BY <1>5, <2>2 DEF Added, Explained
    <3> QED BY <1>3, <3>1
  <2> QED BY <1>1, <1>3, <2>1, <2>2, UpdatedFacts, SMTT(20)
<1>8. ASSUME NEW s \in served' PROVE Paying(s, entries', now')
  <2>1. CASE s \in served
    <3> SUFFICES ASSUME s.paid
                 PROVE  /\ s.at <= now' /\ Points(s.body) # <<>>
                        /\ now' < s.at + Shortest => Kept(entries', s.cred, s.body, s.at)
      BY DEF Paying
    <3>1. /\ s.at <= now /\ Points(s.body) # <<>>
          /\ now < s.at + Shortest => Kept(entries, s.cred, s.body, s.at)
      BY <2>1 DEF Remembering, Paying
    <3>2. s.at \in Nat
      BY <2>1 DEF Remembering, Serving
    <3>3. Live(entries, now) \subseteq entries'
      BY <1>1, <1>3, UpdatedFacts
    <3>4. now < s.at + Shortest => Kept(entries', s.cred, s.body, s.at)
      BY <1>1, <1>2, <3>1, <3>2, <3>3, LiveKept
    <3> QED BY <1>1, <3>1, <3>4
  <2>2. CASE s = t
    <3> SUFFICES ASSUME q.cache[1].creation > 0
                 PROVE  /\ q.at <= now /\ Points(q.body) # <<>>
                        /\ Kept(entries', q.cred, q.body, q.at)
      BY <1>1, <1>5, <2>2 DEF Paying
    <3>1. Kept(entries', q.cred, q.body, q.at)
      BY <1>1, <1>2, <1>3, <1>4, UpdatedKept
    <3> QED BY <1>4, <3>1
  <2> QED BY <1>3, <2>1, <2>2
<1>9. ASSUME NEW x \in Requests PROVE Waiting(req'[x], entries', now')
  <2> SUFFICES ASSUME req'[x].pc = "connected"
               PROVE  /\ req'[x].at <= now
                      /\ req'[x].cache[1].creation > 0 =>
                           /\ Points(req'[x].body) # <<>>
                           /\ Stale(entries', req'[x].cred, req'[x].body, req'[x].at)
    BY <1>1 DEF Waiting
  <2>1. req'[x] = req[x]
    BY DEF Records
  <2>2. /\ req[x].at <= now
        /\ req[x].cache[1].creation > 0 =>
             Points(req[x].body) # <<>> /\ Stale(entries, req[x].cred, req[x].body, req[x].at)
    BY <2>1 DEF Remembering, Waiting
  <2>3. req[x].at \in Nat
    <3>1. req[x] \in Handled
      BY <2>1, ActiveRequest DEF Typed, Active
    <3> QED BY <2>1, <3>1 DEF Handled
  <2>4. ASSUME req[x].cache[1].creation > 0
        PROVE  Stale(entries', req[x].cred, req[x].body, req[x].at)
    BY <1>1, <1>3, <2>2, <2>3, <2>4, UpdatedStale
  <2> QED BY <2>1, <2>2, <2>4
<1> QED BY <1>6, <1>7, <1>8, <1>9 DEF Remembering

LEMMA RememberingStep ==
  ASSUME Typed, Remembering, [Next]_vars
  PROVE  Remembering'
BY StoreStep, PrunesRemembering, RecordSets, RecordRemembering

\* A connection finds what was paid for, and only what somebody put there.
LEMMA ConnectRemembers ==
  ASSUME Typed, Remembering, NEW r \in Requests, NEW cred, NEW j, Connects(r, cred, j),
         NEW q, q = req'[r]
  PROVE  /\ \A s \in served : s.cred = q.cred /\ s.paid /\ s.body = q.body
                                /\ now - s.at < Least(Short, MaxTtl) => q.cache[1].jitter > 0
         /\ q.cache[1].jitter > 0 =>
              \E s \in served : s.cred = q.cred /\ now - s.time < Least(Long, MaxTtl)
                                  /\ Shares(s, q.body)
<1> DEFINE profile == ProfileOf(q)
<1>1. /\ q.body \in Bodies /\ q.cred = cred /\ profile.points = Points(q.body)
      /\ q.cache[1].jitter > 0 <=> Points(q.body) # <<>> /\ Hit(entries, cred, profile, now)
  <2>1. /\ q.body \in Bodies /\ q.cred = cred
        /\ q.cache[1] = Computed(entries, cred, ProfileOf(req[r]), now, j)
        /\ ProfileOf(q).points = Points(q.body)
    BY ConnectedFacts
  <2> DEFINE c == Computed(entries, cred, ProfileOf(req[r]), now, j)
  <2>2. c.jitter > 0 <=> Points(q.body) # <<>> /\ Hit(entries, cred, ProfileOf(q), now)
    BY ConnectedFacts
  <2> HIDE DEF c
  <2>3. q.cache[1] = c
    BY <2>1 DEF c
  <2> QED BY <2>1, <2>2, <2>3
<1> HIDE DEF profile
<1>2. now \in Nat /\ Shortest \in Nat /\ Longest \in Nat
  BY LifetimeFacts DEF Typed
<1>3. Hit(entries, cred, profile, now)
        <=> \E e \in Live(entries, now) : \E p \in Recent(Points(q.body)) : Matching(e, cred, p)
  BY <1>1 DEF Hit, Matching
<1>4. \A e \in entries : e.expires \in Nat
  BY EntriesInTime DEF Remembering
<1>5. ASSUME NEW s \in served, s.cred = q.cred, s.paid, s.body = q.body, now - s.at < Shortest
      PROVE  q.cache[1].jitter > 0
  <2>1. s.at \in Nat
    BY DEF Remembering, Serving
  <2>2. now < s.at + Shortest
    BY <1>2, <1>5, <2>1
  <2>3. Points(q.body) # <<>> /\ Kept(entries, cred, q.body, s.at)
    BY <1>1, <1>5, <2>2 DEF Remembering, Paying
  <2>4. PICK p : p \in Recent(Points(q.body))
    BY <1>1, <2>3, PointFacts
  <2>5. PICK e \in entries : Matching(e, cred, p) /\ e.expires >= s.at + Shortest
    BY <2>3, <2>4 DEF Kept
  <2>6. e.expires > now
    BY <1>2, <1>4, <2>1, <2>2, <2>5
  <2>7. e \in Live(entries, now)
    BY <2>5, <2>6 DEF Live
  <2> QED BY <1>1, <1>3, <2>3, <2>4, <2>5, <2>7
<1>6. ASSUME q.cache[1].jitter > 0
      PROVE  \E s \in served : s.cred = q.cred /\ now - s.time < Longest /\ Shares(s, q.body)
  <2>1. PICK e \in Live(entries, now), p \in Recent(Points(q.body)) : Matching(e, cred, p)
    BY <1>1, <1>3, <1>6
  <2>2. e \in entries /\ e.expires > now
    BY <2>1 DEF Live
  <2>3. PICK s \in served : Explained(e, s)
    BY <2>2 DEF Remembering, Explaining
  <2>4. e.expires \in Nat /\ e.expires <= s.time + Longest /\ s.time \in Nat
    BY <2>3, ExpiresInTime DEF Remembering
  <2>5. now - s.time < Longest
    BY <1>2, <2>2, <2>4
  <2>6. s.cred = q.cred
    BY <1>1, <2>1, <2>3 DEF Explained, Matching
  <2>7. Shares(s, q.body)
    BY <2>1, <2>3 DEF Shares, Explained, Matching
  <2> QED BY <2>3, <2>5, <2>6, <2>7
<1> QED BY <1>5, <1>6 DEF Shortest, Longest

AllRemember ==
  \A r \in Requests :
    req[r].pc = "sent" /\ req'[r].pc = "connected" =>
      LET q == req'[r]
          mine == {s \in served : s.cred = q.cred}
          isRead == q.cache[1].jitter > 0
      IN  /\ \A s \in mine :
               s.paid /\ s.body = q.body /\ now - s.at < Least(Short, MaxTtl) => isRead
          /\ isRead =>
               \E s \in mine : now - s.time < Least(Long, MaxTtl) /\ Shares(s, q.body)

LEMMA StepRemembers ==
  ASSUME Typed, Remembering, [Next]_vars
  PROVE  AllRemember
<1>1. ASSUME NEW r \in Requests, req[r].pc = "sent", req'[r].pc = "connected"
      PROVE  /\ \A s \in served : s.cred = req'[r].cred /\ s.paid /\ s.body = req'[r].body
                                    /\ now - s.at < Least(Short, MaxTtl) => req'[r].cache[1].jitter > 0
             /\ req'[r].cache[1].jitter > 0 =>
                  \E s \in served : s.cred = req'[r].cred /\ now - s.time < Least(Long, MaxTtl)
                                      /\ Shares(s, req'[r].body)
  <2>1. Connect(r)
    BY <1>1, ConnectedBy
  <2>2. PICK cred, j : Connects(r, cred, j)
    BY <2>1, ConnectSets
  <2> QED BY <2>2, ConnectRemembers
<1> QED BY <1>1 DEF AllRemember

LEMMA RememberingAlways == Spec => [](Typed /\ Remembering)
<1>1. Init => Typed /\ Remembering
  BY TypedInit DEF Init, Remembering, Serving, Explaining, Waiting, Idle
<1>2. Typed /\ Remembering /\ [Next]_vars => (Typed /\ Remembering)'
  BY TypedStep, RememberingStep
<1> QED BY <1>1, <1>2, PTL DEF Spec

\* The look-up of a credential finds what the credential has paid for as long as the
\* shortest time to live, and finds only what one of its requests has put there within
\* the longest (cache_tracker.rs:140, 206), however the look-ups, the updates and the
\* prunings of other requests come between.
THEOREM LookUpsRemember == Spec => CacheRemembers
<1>1. Typed /\ Remembering /\ [Next]_vars => [AllRemember]_vars
  BY StepRemembers
<1>2. Spec => [][AllRemember]_vars
  BY <1>1, RememberingAlways, PTL DEF Spec
<1> QED BY <1>2, PTL DEF CacheRemembers, AllRemember
=============================================================================
