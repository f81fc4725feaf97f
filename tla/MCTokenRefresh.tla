--------------------------- MODULE MCTokenRefresh ---------------------------
(* Instances of TokenRefresh for TLC: the values of its constants.         *)
EXTENDS TokenRefresh

CONSTANTS t1, t2, t3, c1

MCTask2 == {t1, t2}
MCTask3 == {t1, t2, t3}
OneCred == {c1}

\* A request, a usage query, and a call of another kind.
Kinds == [t \in Task |-> CASE t = t1 -> {"ensure"}
                           [] t = t2 -> {"usage"}
                           [] OTHER  -> {"force", "edit", "delete"}]

\* A request against an edit.
RefreshAndEdit == [t \in Task |-> IF t = t1 THEN {"ensure"} ELSE {"edit"}]

\* The access tokens are due for a refresh once time passes.
SoonExpired == [c \in Cred |-> 3]
=============================================================================
