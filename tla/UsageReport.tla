----------------------------- MODULE UsageReport -----------------------------
(***************************************************************************)
(* From the usage of the cache to the numbers a client is told: scaling to *)
(* the upstream's count of tokens (handlers.rs:301, stream.rs:1330), the   *)
(* rewriting of cache fields and input tokens the operator configures, and *)
(* its exemption for probes (cache_rewriter.rs).  A random choice is the   *)
(* set of its outcomes; a multiplier is in tenths.                         *)
(***************************************************************************)
EXTENDS CacheTracker

None == -1
Paths == {"stream", "whole", "buffered"}

\* `n as i32` of an unsigned number.
AsI32(n) == ((n + MaxInt + 1) % (2 * (MaxInt + 1))) - (MaxInt + 1)

\* Mutant of Billed: what was read is billed as well.
BilledWithReads(input, c) == Most(Saturated(input - c.creation), 0)

Billed(input, c) == Most(Saturated(Saturated(input - c.creation) - c.read), 0)

ScaledTokens(value, estimated, actual) ==
  IF value <= 0 THEN 0
  ELSE Most(Least((value * Most(actual, 0) + Most(estimated, 1) \div 2) \div Most(estimated, 1),
                  Most(actual, 0)), 0)

\* The split follows the total when one of its parts was all of it.
WithSplit(c, old) ==
  IF old.h1 > 0 /\ old.m5 = 0 THEN [c EXCEPT !.h1 = c.creation, !.m5 = 0]
  ELSE IF old.m5 > 0 /\ old.h1 = 0 THEN [c EXCEPT !.m5 = c.creation, !.h1 = 0]
  ELSE c

Scaled(c, estimated, actual) ==
  LET To(n) == ScaledTokens(n, estimated, actual)
      all == [c EXCEPT !.creation = To(c.creation), !.read = To(c.read),
                       !.m5 = To(c.m5), !.h1 = To(c.h1)]
      overflow == Most(Saturated(all.creation + all.read) - actual, 0)
  IN  IF estimated <= 0 \/ actual <= 0 THEN c
      ELSE IF c.jitter > 0 /\ c.creation = 0 /\ c.read > 0
      THEN [c EXCEPT !.read = actual - PrefixHitInput(actual, c.jitter), !.m5 = 0, !.h1 = 0]
      ELSE WithSplit([all EXCEPT !.creation = Saturated(all.creation - overflow)], c)

-----------------------------------------------------------------------------
(* The optimizer configuration: enabled, paths (enabled_stream, ...), mode, *)
(* read and write (<<min, max>>), shapes (those of a weight above 0),       *)
(* readSegments and writeSegments (ranges of a weight above 0, empty unless *)
(* use_segment_weights), onlyPresent (rewrite_only_when_present), inputMax  *)
(* (input_random_max), probeMax and probePaths, scale (the segments of      *)
(* input_scale, empty unless input_scale_enabled) and its two caps.         *)
Bounds == Nat \X Nat

Configuration ==
  [enabled : BOOLEAN, paths : SUBSET Paths,
   mode : {"passthrough", "zero", "cap", "random", "weighted"}, read : Bounds, write : Bounds,
   shapes : SUBSET {"readOnly", "writeOnly", "readWrite", "none"},
   readSegments : SUBSET Bounds, writeSegments : SUBSET Bounds,
   onlyPresent : BOOLEAN, inputMax : Nat, probeMax : Nat \cup {None}, probePaths : SUBSET Paths,
   scale : Seq([min : Nat, max : Nat, read : Nat, write : Nat]),
   capRead : Nat \cup {None}, capWrite : Nat \cup {None}]

Bypass(config, path, input) ==
  /\ config.probeMax /= None /\ path \in config.probePaths
  /\ input >= 0 /\ input <= config.probeMax

Applies(config, path) == config.enabled /\ path \in config.paths

InRange(range) ==
  IF range[1] >= range[2] THEN {AsI32(range[1])} ELSE {AsI32(n) : n \in range[1] .. range[2]}

FromSegments(segments, fallback) ==
  IF segments = {} THEN InRange(fallback) ELSE UNION {InRange(s) : s \in segments}

\* A shape the upstream's usage does not have is bent to the one it has.
Bent(shape, read, write, config) ==
  IF ~config.onlyPresent THEN shape
  ELSE IF read > 0 /\ write <= 0 /\ shape \in {"writeOnly", "readWrite"} THEN "readOnly"
  ELSE IF read <= 0 /\ write > 0 /\ shape \in {"readOnly", "readWrite"} THEN "writeOnly"
  ELSE IF read <= 0 /\ write <= 0 THEN "none" ELSE shape

Weighted(read, write, config) ==
  LET reads == FromSegments(config.readSegments, config.read)
      writes == FromSegments(config.writeSegments, config.write)
      Of(shape) == CASE shape = "readOnly"  -> reads \X {0}
                     [] shape = "writeOnly" -> {0} \X writes
                     [] shape = "readWrite" -> reads \X writes
                     [] shape = "none"      -> {<<0, 0>>}
  IN  IF config.shapes = {} THEN {<<0, 0>>}
      ELSE UNION {Of(Bent(s, read, write, config)) : s \in config.shapes}

\* The pairs of read and write rewrite_cache_usage may return.
Rewritten(read, write, config, path) ==
  IF ~Applies(config, path) THEN {<<read, write>>}
  ELSE IF config.onlyPresent /\ read = 0 /\ write = 0 THEN {<<0, 0>>}
  ELSE CASE config.mode = "passthrough" -> {<<read, write>>}
         [] config.mode = "zero"        -> {<<0, 0>>}
         [] config.mode = "cap"         -> {<<Least(read, AsI32(config.read[2])),
                                              Least(write, AsI32(config.write[2]))>>}
         [] config.mode = "random"      -> InRange(config.read) \X InRange(config.write)
         [] config.mode = "weighted"    -> Weighted(read, write, config)

\* Mutant of Written: the split is left as it was.
WrittenTotal(c, read, creation) == [c EXCEPT !.read = read, !.creation = creation]

\* A changed total is all of it 5m.
Written(c, read, creation) ==
  IF creation = c.creation THEN [c EXCEPT !.read = read]
  ELSE [c EXCEPT !.read = read, !.creation = creation, !.m5 = creation, !.h1 = 0]

\* Mutant of Times: a product without a configured cap is not bounded.
TimesUnbounded(value, tenths, cap) ==
  LET product == (value * tenths + 5) \div 10
  IN  IF value <= 0 THEN value ELSE IF cap = None THEN product ELSE Least(product, cap)

Times(value, tenths, cap) ==
  LET product == (value * tenths + 5) \div 10
  IN  IF value <= 0 THEN value
      ELSE Least(IF cap = None THEN product ELSE Least(product, cap), MaxInt)

InputScaled(c, input, config) ==
  LET fitting == {s \in ToSet(config.scale) : s.min <= Most(input, 0) /\ Most(input, 0) <= s.max}
      segments == Within(config.scale, fitting)
  IN  IF ~config.enabled \/ segments = <<>> THEN c
      ELSE Written(c, Times(c.read, segments[1].read, config.capRead),
                      Times(c.creation, segments[1].write, config.capWrite))

\* What the cache fields may become.
Fields(c, input, config, path) ==
  {InputScaled(Written(c, pair[1], pair[2]), input, config) :
     pair \in Rewritten(c.read, c.creation, config, path)}

\* What input_tokens may become.
Inputs(input, config, path) ==
  IF ~Applies(config, path) \/ config.inputMax = 0 THEN {input}
  ELSE InRange(<<1, config.inputMax>>)
=============================================================================
