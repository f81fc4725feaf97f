---------------------------- MODULE MCPromptCache ----------------------------
(* Small values for PromptCache: two conversations with a common beginning,  *)
(* one of them with a 1h mark, three configurations, one of them off.        *)
EXTENDS PromptCache, TLC

MCTokensOf == [t \in {"tool", "bill1", "bill2", "hi", "more", "end"} |->
                 IF t = "more" THEN 20 ELSE IF t = "hi" THEN 12 ELSE 4]
MCBilling == {"bill1", "bill2"}
MCMinTokens == [m \in {"sonnet"} |-> 16]

Part(text, ttl) == [text |-> text, ttl |-> ttl]
Body(bill, messages, estimate) ==
  [model |-> "sonnet", tools |-> <<Part("tool", 0)>>, system |-> <<Part(bill, Short)>>,
   messages |-> messages, estimate |-> estimate]

MCBodies ==
  { Body("bill1", <<<<Part("hi", 0)>>>>, 22),
    Body("bill2", <<<<Part("hi", 0)>>, <<Part("end", 0)>>, <<Part("more", Long), Part("end", 0)>>>>, 50),
    Body("bill1", <<>>, 4) }

Usage(parts, rest) == [kind |-> "usage", parts |-> parts, rest |-> rest]
MCUsageEvents ==
  { [kind |-> "context", tokens |-> 30], [kind |-> "context", tokens |-> 0],
    Usage(<<>>, 15), Usage(<<5, 10, 20>>, 0), Usage(<<0, 0, 0>>, 0) }

Off == [enabled |-> FALSE, paths |-> Paths, mode |-> "passthrough", read |-> <<0, 0>>,
        write |-> <<0, 0>>, shapes |-> {}, readSegments |-> {}, writeSegments |-> {},
        onlyPresent |-> TRUE, inputMax |-> 0, probeMax |-> None, probePaths |-> {},
        scale |-> <<>>, capRead |-> None, capWrite |-> None]
Capped == [Off EXCEPT !.enabled = TRUE, !.mode = "cap", !.read = <<0, 9>>, !.write = <<0, 12>>,
                      !.probeMax = 16, !.probePaths = {"stream", "buffered"},
                      !.scale = <<[min |-> 10, max |-> 40, read |-> 150, write |-> 25]>>]
Mixed == [Off EXCEPT !.enabled = TRUE, !.mode = "weighted", !.paths = {"stream", "whole"},
                     !.shapes = {"readOnly", "readWrite"}, !.readSegments = {<<40, 41>>},
                     !.write = <<7, 3>>, !.inputMax = 2]
MCConfigs == {Off, Capped, Mixed}
MCStarted == {Off}
MCProbe == {Capped}

\* In the main run no number may be negative.
ASSUME MCFits ==
  InputsFit /\ PartsFit /\ \A config \in MCConfigs \cup MCStarted : ConfigFits(config)

MCSymmetry == Permutations(Requests) \cup Permutations(Credentials)
=============================================================================
