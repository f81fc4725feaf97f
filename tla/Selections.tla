----------------------------- MODULE Selections ------------------------------
(* What a sequence has of a set, and what it has besides, in its order.      *)
EXTENDS SequencesExt

Within(s, X)  == FlattenSeq([i \in DOMAIN s |-> IF s[i] \in X THEN <<s[i]>> ELSE <<>>])
Without(s, X) == Within(s, ToSet(s) \ X)

\* The elements of a sequence, each where it comes first.
Firsts(s) == FlattenSeq([i \in DOMAIN s |->
               IF \E j \in 1 .. i - 1 : s[j] = s[i] THEN <<>> ELSE <<s[i]>>])
=============================================================================
