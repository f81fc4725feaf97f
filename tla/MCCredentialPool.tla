-------------------------- MODULE MCCredentialPool --------------------------
(* Instances of CredentialPool for TLC: the values of its constants.       *)
EXTENDS CredentialPool, TLC

CONSTANTS r1, r2, r3, s1, none

MCRequest2 == {r1, r2}
MCRequest3 == {r1, r2, r3}
MCSession  == {s1}

\* All requests belong to one conversation, or to none.
OneSession == [r \in Request |-> s1]
Anonymous  == [r \in Request |-> none]

AllEnabled == [c \in Id |-> "Enabled"]
FirstOnly  == [c \in Id |-> IF c = 1 THEN "Enabled" ELSE "Absent"]
OneBroken  == [c \in Id |-> IF c = 2 THEN "InvalidConfig" ELSE "Enabled"]

LimitOne        == [c \in Id |-> 1]
SecondUnlimited == [c \in Id |-> IF c = 1 THEN 1 ELSE 0]
ByRank          == [c \in Id |-> c]

Symmetric == Permutations(Request)
=============================================================================
