-------------------------- MODULE ConcurrencySlots --------------------------
(***************************************************************************)
(* What the credential pool promises about concurrency, and nothing of how *)
(* it does it: each credential is a counting semaphore whose capacity the  *)
(* operator may change at any time (0 means unlimited), a request holds    *)
(* one slot of at most one credential, and a slot that is held is given    *)
(* back.  Lowering a capacity never takes a slot away from its holder.     *)
(*                                                                         *)
(* The promise is that of ConcurrencyGuard and of the second layer of      *)
(* doc/凭据并发控制方案.md as kiro/token_manager.rs implements them.        *)
(***************************************************************************)
EXTENDS Naturals, FiniteSets

CONSTANTS Request,    \* the requests that may ask for a slot
          Credential, \* the credentials
          None        \* "holds nothing"

VARIABLES held, \* held[r]: the credential r holds a slot of, or None
          cap   \* cap[c]: max_concurrency of c, 0 when it has none

vars == <<held, cap>>

Users(c) == {r \in Request : held[r] = c}

HasRoom(c) == cap[c] = 0 \/ Cardinality(Users(c)) < cap[c]

Init == /\ held = [r \in Request |-> None]
        /\ cap \in [Credential -> Nat]

Acquire(r, c) == /\ held[r] = None
                 /\ HasRoom(c)
                 /\ held' = [held EXCEPT ![r] = c]
                 /\ UNCHANGED cap

Release(r) == /\ held[r] # None
              /\ held' = [held EXCEPT ![r] = None]
              /\ UNCHANGED cap

Retune == /\ cap' \in [Credential -> Nat]
          /\ UNCHANGED held

Next == \/ \E r \in Request : Release(r) \/ \E c \in Credential : Acquire(r, c)
        \/ Retune

Spec == Init /\ [][Next]_vars /\ \A r \in Request : WF_vars(Release(r))
=============================================================================
