------------------------ MODULE CredentialPoolProofs ------------------------
(***************************************************************************)
(* Theorems about CredentialPool, for any finite set of requests, any      *)
(* sessions and credentials, any limits, thresholds and bounds.            *)
(*                                                                         *)
(*   TypeAndOwnership   the types, and what a request owns at each section *)
(*   SlotsSafe          `active` counts the guards                         *)
(*   HardLimitHolds     admission respects max_concurrency                 *)
(*   SlotsImplemented   the pool refines ConcurrencySlots (safety)         *)
(*   EnabledAreFit      a credential that is on is below the thresholds    *)
(*   OnlyAdminReenablesHolds  self-healing heals consecutive failures only *)
(*   WaitersSafe        `waiting` is never below the number of waiters     *)
(***************************************************************************)
EXTENDS CredentialPool, FiniteSetTheorems, TLAPS

-----------------------------------------------------------------------------
(* Types *)

\* The credentials present are finitely many (total_count is a number).
LEMMA PresentIsFinite ==
  ASSUME TypeOK
  PROVE  Cardinality(Present) \in Nat
  <1>1. IsFiniteSet(Id) /\ Present \subseteq Id
    BY PoolAssumption, FS_Interval DEF Id, Present
  <1> QED BY <1>1, FS_Subset, FS_CardinalityType

\* min_by_key over the priorities picks among what it is given.
LEMMA TopPriorityIsSubset ==
  ASSUME NEW S
  PROVE  TopPriority(S) \subseteq S
  BY DEF TopPriority

\* current_id moves to a credential or stays where it is.
LEMMA SuccessorsType ==
  ASSUME TypeOK, NEW S \in SUBSET Id
  PROVE  Successors(S) \subseteq Id \cup {None}
  BY TopPriorityIsSubset DEF Successors, TypeOK

\* The state MultiTokenManager::new builds is well typed.
LEMMA TypeInit == Init => TypeOK
  <1> SUFFICES ASSUME Init PROVE TypeOK
    OBVIOUS
  <1>1. currentId \in Id \cup {None}
    BY TopPriorityIsSubset DEF Init, Enabled
  <1>2. status \in [Id -> Status] /\ todo \in Seq(Todo)
    BY PoolAssumption DEF Init, Status, Disabled
  <1>3. pc \in [Request -> PC]
    BY DEF Init, PC, Seeking
  <1> QED BY <1>1, <1>2, <1>3, PoolAssumption DEF Init, TypeOK, Modes, None

\* The sets a credential is chosen from hold ids only.
LEMMA ChoicesAreIds ==
  ASSUME NEW r \in Request
  PROVE  /\ Candidates(r) \subseteq Id
         /\ Best(r) \subseteq Candidates(r)
         /\ WaitTargets(r) \subseteq Id
  BY DEF Candidates, Usable, Enabled, Best, WaitTargets, LeastActive, TopPriority

\* What a counter becomes is again a function from ids to naturals.
LEMMA IncrementType ==
  ASSUME NEW f \in [Id -> Nat], NEW c
  PROVE  [f EXCEPT ![c] = @ + 1] \in [Id -> Nat]
  <1>1. CASE c \in Id
    BY <1>1
  <1>2. CASE c \notin Id
    BY <1>2
  <1> QED BY <1>1, <1>2

\* ... by saturating_sub as well.
LEMMA DecrementType ==
  ASSUME NEW f \in [Id -> Nat], NEW c
  PROVE  [f EXCEPT ![c] = Pred(@)] \in [Id -> Nat]
  <1>1. CASE c \in Id
    BY <1>1 DEF Pred
  <1>2. CASE c \notin Id
    BY <1>2
  <1> QED BY <1>1, <1>2

\* adjust_waiting and ConcurrencyGuard::drop keep the counters in their types.
LEMMA CountersType ==
  ASSUME TypeOK, NEW r \in Request
  PROVE  /\ \A c : Counted(c) \in [Id -> Nat]
         /\ Uncounted(r) \in [Id -> Nat]
         /\ Freed(r) \in [Id -> Nat]
  <1>1. active \in [Id -> Nat] /\ waiting \in [Id -> Nat]
    BY DEF TypeOK
  <1>2. \A c : Counted(c) \in [Id -> Nat]
    BY <1>1, IncrementType DEF Counted
  <1>3. Uncounted(r) \in [Id -> Nat]
    BY <1>1, DecrementType DEF Uncounted
  <1>4. Freed(r) \in [Id -> Nat]
    BY <1>1, DecrementType DEF Freed
  <1> QED BY <1>2, <1>3, <1>4

\* So do reserve_best and reserve_one ...
LEMMA TakeType ==
  ASSUME TypeOK, NEW r \in Request, NEW c \in Id, Take(r, c)
  PROVE  /\ active' \in [Id -> Nat]
         /\ guard' \in [Request -> Id \cup {None}]
         /\ stale' \in SUBSET Request
  <1>1. active' \in [Id -> Nat]
    BY IncrementType DEF TypeOK, Take
  <1>2. guard' \in [Request -> Id \cup {None}] /\ stale' \in SUBSET Request
    BY DEF TypeOK, Take
  <1> QED BY <1>1, <1>2

\* ... and dropping a guard.
LEMMA DropType ==
  ASSUME TypeOK, NEW r \in Request, Drop(r)
  PROVE  /\ active' \in [Id -> Nat]
         /\ guard' \in [Request -> Id \cup {None}]
  <1>1. active' \in [Id -> Nat]
    BY CountersType DEF Drop
  <1>2. guard' \in [Request -> Id \cup {None}]
    BY DEF TypeOK, Drop
  <1> QED BY <1>1, <1>2

\* Acquiring: everything up to the hand-over of the guard.
LEMMA TypeSeek ==
  ASSUME TypeOK, OwnershipInv, NEW r \in Request
  PROVE  \/ Arrive(r) \/ Attempt(r) \/ LookupAffinity(r) \/ TryBound(r)
         \/ StickyGate(r) \/ StickyEnqueue(r) \/ StickyPoll(r) \/ LeaveWait(r)
         \/ Forget(r) \/ ReadMode(r) \/ Reserve(r) \/ Wait(r) \/ Settle(r)
         \/ Point(r) \/ Autoheal(r)
         => TypeOK'
  <1> USE DEF entryVars, routeVars, adminVars, history
  <1>0. /\ pc \in [Request -> PC] /\ polls \in [Request -> Nat]
        /\ active \in [Id -> Nat] /\ waiting \in [Id -> Nat]
        /\ cred \in [Request -> Id \cup {None}]
        /\ guard \in [Request -> Id \cup {None}] /\ stale \in SUBSET Request
    BY DEF TypeOK
  <1>1. ASSUME Arrive(r) PROVE TypeOK'
    <2>1. budget' \in [Request -> Int]
      BY <1>1, PresentIsFinite, PoolAssumption DEF Arrive, TypeOK
    <2> QED BY <1>1, <2>1 DEF TypeOK, Arrive, Go, PC, Seeking
  <1>2. ASSUME Attempt(r) PROVE TypeOK'
    BY <1>2 DEF TypeOK, Attempt, Go, PC, Seeking, Final, Route
  <1>3. ASSUME LookupAffinity(r) PROVE TypeOK'
    <2>1. affinity[SessionOf[r]] \in Id \cup {None}
      BY <1>3, PoolAssumption DEF TypeOK, LookupAffinity, OwnershipInv, HasKey
    <2> QED BY <1>3, <2>1 DEF TypeOK, LookupAffinity, Go, PC, Seeking
  <1>4. ASSUME TryBound(r) PROVE TypeOK'
    <2>1. pc' \in [Request -> PC]
      BY <1>0, <1>4 DEF TryBound, Go, PC, Seeking, Holding
    <2>2. active' \in [Id -> Nat] /\ guard' \in [Request -> Id \cup {None}]
          /\ stale' \in SUBSET Request
      BY <1>0, <1>4, TakeType, ChoicesAreIds DEF TryBound
    <2> QED BY <1>4, <2>1, <2>2 DEF TypeOK, TryBound
  <1>5. ASSUME StickyGate(r) PROVE TypeOK'
    BY <1>5 DEF TypeOK, StickyGate, Go, PC, Seeking
  <1>6. ASSUME StickyEnqueue(r) PROVE TypeOK'
    <2>1. waiting' \in [Id -> Nat]
      BY <1>6, CountersType DEF StickyEnqueue
    <2>2. pc' \in [Request -> PC]
      BY <1>0, <1>6 DEF StickyEnqueue, Go, PC, Seeking
    <2> QED BY <1>6, <2>1, <2>2 DEF TypeOK, StickyEnqueue
  <1>7. ASSUME StickyPoll(r) PROVE TypeOK'
    <2>1. pc' \in [Request -> PC] /\ polls' \in [Request -> Nat]
      BY <1>0, <1>7 DEF StickyPoll, Go, PC, Seeking, Holding
    <2>2. active' \in [Id -> Nat] /\ guard' \in [Request -> Id \cup {None}]
          /\ stale' \in SUBSET Request
      BY <1>0, <1>7, TakeType, ChoicesAreIds DEF StickyPoll
    <2> QED BY <1>7, <2>1, <2>2 DEF TypeOK, StickyPoll
  <1>8. ASSUME LeaveWait(r) PROVE TypeOK'
    <2>1. waiting' \in [Id -> Nat]
      BY <1>8, CountersType DEF LeaveWait
    <2>2. pc' \in [Request -> PC]
      BY <1>0, <1>8 DEF LeaveWait, AfterWait, Go, PC, Seeking, Holding, Final
    <2> QED BY <1>8, <2>1, <2>2 DEF TypeOK, LeaveWait
  <1>9. ASSUME Forget(r) PROVE TypeOK'
    BY <1>9 DEF TypeOK, Forget, Unbound, Go, PC, Seeking
  <1>10. ASSUME Reserve(r) PROVE TypeOK'
    <2>1. pc' \in [Request -> PC]
      BY <1>0, <1>10 DEF Reserve, Go, PC, Seeking, Holding
    <2>2. active' \in [Id -> Nat] /\ guard' \in [Request -> Id \cup {None}]
          /\ stale' \in SUBSET Request /\ cred' \in [Request -> Id \cup {None}]
      BY <1>0, <1>10, TakeType, ChoicesAreIds DEF Reserve
    <2> QED BY <1>10, <2>1, <2>2 DEF TypeOK, Reserve
  <1>11. ASSUME Wait(r) PROVE TypeOK'
    <2>1. waiting' \in [Id -> Nat]
      BY <1>0, <1>11, CountersType DEF Wait
    <2>2. pc' \in [Request -> PC] /\ polls' \in [Request -> Nat]
      BY <1>0, <1>11 DEF Wait, Go, PC, Seeking
    <2> QED BY <1>11, <2>1, <2>2 DEF TypeOK, Wait
  <1>12. ASSUME Settle(r) \/ Point(r) PROVE TypeOK'
    BY <1>12 DEF TypeOK, Settle, Point, Go, PC, Holding
  <1>13. ASSUME Autoheal(r) PROVE TypeOK'
    BY <1>13 DEF TypeOK, Autoheal, HealedCounters, AfterHeal, Go, Status, PC, Seeking, Final
  <1>14. ASSUME ReadMode(r) PROVE TypeOK'
    BY <1>14 DEF TypeOK, ReadMode, Go, PC, Seeking
  <1> QED
    BY <1>1, <1>2, <1>3, <1>4, <1>5, <1>6, <1>7, <1>8, <1>9, <1>10, <1>11, <1>12, <1>13,
       <1>14

\* Switching a credential off, as every report may.
LEMMA SwitchOffType ==
  ASSUME TypeOK, NEW c, NEW why \in Disabled, SwitchOff(c, why)
  PROVE  status' \in [Id -> Status] /\ currentId' \in Id \cup {None}
  <1>1. status' \in [Id -> Status]
    BY DEF TypeOK, SwitchOff, Status
  <1>2. currentId' \in Id \cup {None}
    BY SuccessorsType DEF SwitchOff, Enabled
  <1> QED BY <1>1, <1>2

\* Using the context: token, reports, the upstream call, the end of the guard.
LEMMA TypeUse ==
  ASSUME TypeOK, OwnershipInv, NEW r \in Request
  PROVE  \/ TokenOk(r) \/ RefreshFails(r) \/ RefreshRejects(r) \/ Remember(r) \/ Bind(r)
         \/ ReportRefreshFailure(r) \/ ReportRefreshTokenInvalid(r) \/ Purge(r)
         \/ CallSucceeds(r) \/ CallRejected(r) \/ CallTokenReplaced(r)
         \/ CallOutOfQuota(r) \/ CallFails(r) \/ Release(r) \/ CancelHolder(r) \/ CancelWaiter(r)
         => TypeOK'
  <1> USE DEF entryVars, routeVars, adminVars, history
  <1>0. /\ pc \in [Request -> PC] /\ budget \in [Request -> Int]
        /\ status \in [Id -> Status] /\ currentId \in Id \cup {None}
        /\ failures \in [Id -> Nat] /\ refreshFailures \in [Id -> Nat]
        /\ affinity \in [Session -> Id \cup {None}]
        /\ cred \in [Request -> Id \cup {None}]
        /\ MaxFailures \in Nat
    BY PoolAssumption DEF TypeOK
  <1>1. ASSUME TokenOk(r) PROVE TypeOK'
    <2>1. refreshFailures' \in [Id -> Nat]
      BY <1>0, <1>1 DEF TokenOk
    <2>2. pc' \in [Request -> PC]
      BY <1>0, <1>1 DEF TokenOk, Go, PC, Holding
    <2> QED BY <1>1, <2>1, <2>2 DEF TypeOK, TokenOk
  <1>2. ASSUME NEW kind, NEW next \in {"refreshErr", "invalidErr"},
               TokenError(r, kind, next)
        PROVE  TypeOK'
    <2>1. pc' \in [Request -> PC]
      BY <1>0, <1>2 DEF TokenError, Go, PC, Seeking
    <2>2. affinity' \in [Session -> Id \cup {None}]
      BY <1>0, <1>2 DEF TokenError, Unbound
    <2> QED BY <1>2, <2>1, <2>2, DropType DEF TypeOK, TokenError
  <1>3. ASSUME Remember(r) \/ Bind(r) PROVE TypeOK'
    <2>1. affinity' \in [Session -> Id \cup {None}]
      BY <1>0, <1>3 DEF Remember, Bind
    <2> QED BY <1>3, <2>1 DEF TypeOK, Remember, Bind, Go, PC, Holding
  <1>4. ASSUME ReportRefreshFailure(r) PROVE TypeOK'
    <2>1. pc' \in [Request -> PC] /\ budget' \in [Request -> Int]
      BY <1>0, <1>4 DEF ReportRefreshFailure, Go, PC, Seeking, Final
    <2>2. failures' \in [Id -> Nat] /\ refreshFailures' \in [Id -> Nat]
      BY <1>0, <1>4, IncrementType DEF ReportRefreshFailure, IgnoredReport
    <2>3. status' \in [Id -> Status] /\ currentId' \in Id \cup {None}
      BY <1>0, <1>4, SwitchOffType
         DEF ReportRefreshFailure, IgnoredReport, Disabled
    <2> QED BY <1>4, <2>1, <2>2, <2>3 DEF TypeOK, ReportRefreshFailure
  <1>5. ASSUME ReportRefreshTokenInvalid(r) PROVE TypeOK'
    <2>1. pc' \in [Request -> PC] /\ budget' \in [Request -> Int]
      BY <1>0, <1>5 DEF ReportRefreshTokenInvalid, Go, PC, Seeking, Final
    <2>2. failures' \in [Id -> Nat] /\ refreshFailures' \in [Id -> Nat]
      BY <1>0, <1>5 DEF ReportRefreshTokenInvalid, IgnoredReport
    <2>3. status' \in [Id -> Status] /\ currentId' \in Id \cup {None}
      BY <1>0, <1>5, SwitchOffType
         DEF ReportRefreshTokenInvalid, IgnoredReport, Disabled
    <2> QED BY <1>5, <2>1, <2>2, <2>3 DEF TypeOK, ReportRefreshTokenInvalid
  <1>6. ASSUME Purge(r) PROVE TypeOK'
    <2>1. pc' \in [Request -> PC]
      BY <1>0, <1>6 DEF Purge, AfterPurge, Go, PC, Seeking, Holding, Final
    <2>2. affinity' \in [Session -> Id \cup {None}]
      BY <1>0, <1>6 DEF Purge, Unlinked
    <2> QED BY <1>6, <2>1, <2>2 DEF TypeOK, Purge
  <1>7. ASSUME CallSucceeds(r) \/ CallTokenReplaced(r) PROVE TypeOK'
    <2>1. failures' \in [Id -> Nat] /\ refreshFailures' \in [Id -> Nat]
      BY <1>0, <1>7 DEF CallSucceeds, CallTokenReplaced
    <2>2. pc' \in [Request -> PC]
      BY <1>0, <1>7 DEF CallSucceeds, CallTokenReplaced, Go, PC, Holding
    <2> QED BY <1>7, <2>1, <2>2 DEF TypeOK, CallSucceeds, CallTokenReplaced
  <1>8. ASSUME CallRejected(r) PROVE TypeOK'
    <2>1. pc' \in [Request -> PC]
      BY <1>0, <1>8 DEF CallRejected, Go, PC, Holding
    <2>2. failures' \in [Id -> Nat] /\ refreshFailures' \in [Id -> Nat]
      BY <1>0, <1>8, IncrementType DEF CallRejected, IgnoredReport
    <2>3. status' \in [Id -> Status] /\ currentId' \in Id \cup {None}
      BY <1>0, <1>8, SwitchOffType DEF CallRejected, IgnoredReport, Disabled
    <2> QED BY <1>8, <2>1, <2>2, <2>3 DEF TypeOK, CallRejected
  <1>9. ASSUME CallOutOfQuota(r) PROVE TypeOK'
    <2>1. pc' \in [Request -> PC]
      BY <1>0, <1>9 DEF CallOutOfQuota, Go, PC, Holding
    <2>2. failures' \in [Id -> Nat] /\ refreshFailures' \in [Id -> Nat]
      BY <1>0, <1>9 DEF CallOutOfQuota, IgnoredReport
    <2>3. status' \in [Id -> Status] /\ currentId' \in Id \cup {None}
      BY <1>0, <1>9, SwitchOffType DEF CallOutOfQuota, IgnoredReport, Disabled
    <2> QED BY <1>9, <2>1, <2>2, <2>3 DEF TypeOK, CallOutOfQuota
  <1>10. ASSUME CallFails(r) PROVE TypeOK'
    BY <1>10 DEF TypeOK, CallFails, Go, PC, Holding
  <1>11. ASSUME Release(r) PROVE TypeOK'
    <2>1. pc' \in [Request -> PC]
      BY <1>0, <1>11 DEF Release, Go, PC, Final
    <2> QED BY <1>11, <2>1, DropType DEF TypeOK, Release
  <1>12. ASSUME CancelHolder(r) PROVE TypeOK'
    <2>1. pc' \in [Request -> PC]
      BY <1>0, <1>12 DEF CancelHolder, Go, PC, Final
    <2> QED BY <1>12, <2>1, DropType DEF TypeOK, CancelHolder
  <1>13. ASSUME CancelWaiter(r) PROVE TypeOK'
    BY <1>13 DEF TypeOK, CancelWaiter, Go, PC, Final
  <1> QED
    BY <1>1, <1>2, <1>3, <1>4, <1>5, <1>6, <1>7, <1>8, <1>9, <1>10, <1>11, <1>12, <1>13
    DEF RefreshFails, RefreshRejects

\* The sections of an admin call that is under way, and the affinity TTL.
LEMMA TypeAdminStep ==
  ASSUME TypeOK, AdminStep \/ \E s \in Session : AffinityExpires(s)
  PROVE  TypeOK'
  <1> USE DEF entryVars, routeVars, adminVars, history, reqVars
  <1>0. /\ affinity \in [Session -> Id \cup {None}] /\ currentId \in Id \cup {None}
        /\ status \in [Id -> Status] /\ todo \in Seq(Todo)
    BY DEF TypeOK
  <1>1. ASSUME NEW section, Continue(section) PROVE todo' \in Seq(Todo)
    BY <1>0, <1>1 DEF Continue
  <1>2. ASSUME AdminDisable PROVE TypeOK'
    <2>1. status' \in [Id -> Status]
      BY <1>0, <1>2 DEF AdminDisable, Status, Disabled
    <2>2. todo' \in Seq(Todo)
      BY <1>1, <1>2 DEF AdminDisable
    <2> QED BY <1>2, <2>1, <2>2 DEF TypeOK, AdminDisable, Continue
  <1>3. ASSUME AdminPurge PROVE TypeOK'
    <2>1. affinity' \in [Session -> Id \cup {None}]
      BY <1>0, <1>3 DEF AdminPurge, Unlinked
    <2>2. todo' \in Seq(Todo)
      BY <1>1, <1>3 DEF AdminPurge
    <2> QED BY <1>3, <2>1, <2>2 DEF TypeOK, AdminPurge, Continue
  <1>4. ASSUME AdminSwitch PROVE TypeOK'
    <2>1. currentId' \in Id \cup {None}
      BY <1>0, <1>4, SuccessorsType DEF AdminSwitch, Enabled
    <2>2. todo' \in Seq(Todo)
      BY <1>1, <1>4 DEF AdminSwitch
    <2> QED BY <1>4, <2>1, <2>2 DEF TypeOK, AdminSwitch, Continue
  <1>5. ASSUME AdminSelect PROVE TypeOK'
    <2>1. currentId' \in Id \cup {None}
      BY <1>5, SuccessorsType DEF AdminSelect, Enabled
    <2>2. todo' \in Seq(Todo)
      BY <1>1, <1>5 DEF AdminSelect
    <2> QED BY <1>5, <2>1, <2>2 DEF TypeOK, AdminSelect, Continue
  <1>6. ASSUME AdminZero PROVE TypeOK'
    <2>1. todo' \in Seq(Todo)
      BY <1>1, <1>6 DEF AdminZero
    <2> QED BY <1>6, <2>1 DEF TypeOK, AdminZero, Continue
  <1>7. ASSUME AdminClearAffinity PROVE TypeOK'
    <2>1. todo' \in Seq(Todo)
      BY <1>1, <1>7 DEF AdminClearAffinity
    <2> QED BY <1>7, <2>1 DEF TypeOK, AdminClearAffinity, Continue
  <1>8. ASSUME AdminPersistMode PROVE TypeOK'
    <2>1. todo' \in Seq(Todo)
      BY <1>1, <1>8 DEF AdminPersistMode
    <2> QED BY <1>8, <2>1 DEF TypeOK, AdminPersistMode, Continue, OtherMode, Modes
  <1>9. ASSUME NEW s \in Session, AffinityExpires(s) PROVE TypeOK'
    BY <1>9 DEF TypeOK, AffinityExpires
  <1> QED BY <1>2, <1>3, <1>4, <1>5, <1>6, <1>7, <1>8, <1>9 DEF AdminStep

\* The first section of an admin call.
LEMMA TypeAdminCall ==
  ASSUME TypeOK, AdminCall
  PROVE  TypeOK'
  <1> USE DEF entryVars, routeVars, history, reqVars
  <1>0. /\ status \in [Id -> Status] /\ failures \in [Id -> Nat]
        /\ refreshFailures \in [Id -> Nat] /\ active \in [Id -> Nat]
        /\ waiting \in [Id -> Nat] /\ limit \in [Id -> Nat]
        /\ priority \in [Id -> Nat] /\ Limits \subseteq Nat /\ Priorities \subseteq Nat
        /\ recycled \in SUBSET Id /\ stale \in SUBSET Request
    BY PoolAssumption DEF TypeOK
  <1>1. ASSUME NEW op, NEW sections \in Seq(Todo), NEW c \in Id \cup {None},
               Begin(op, sections, c)
        PROVE  todo' \in Seq(Todo) /\ target' \in Id \cup {None} /\ adminOps' \in Nat
    BY <1>1 DEF Begin, TypeOK
  <1>2. /\ <<>> \in Seq(Todo)
        /\ \A a \in Todo : <<a>> \in Seq(Todo)
        /\ \A a, b \in Todo : <<a, b>> \in Seq(Todo)
        /\ \A a, b, c \in Todo : <<a, b, c>> \in Seq(Todo)
    OBVIOUS
  <1>3. ASSUME NEW c \in Id, SwitchOn(c)
        PROVE  /\ status' \in [Id -> Status] /\ failures' \in [Id -> Nat]
               /\ refreshFailures' \in [Id -> Nat]
    BY <1>0, <1>3 DEF SwitchOn, Status
  <1>4. ASSUME NEW c \in Id, StartDisable(c) PROVE TypeOK'
    <2>1. todo' \in Seq(Todo) /\ target' \in Id \cup {None} /\ adminOps' \in Nat
      BY <1>1, <1>2, <1>4 DEF StartDisable, Todo
    <2> QED BY <1>4, <2>1 DEF StartDisable, TypeOK
  <1>5. ASSUME NEW c \in Id, AdminEnable(c) PROVE TypeOK'
    <2>1. todo' \in Seq(Todo) /\ target' \in Id \cup {None} /\ adminOps' \in Nat
      BY <1>1, <1>2, <1>5 DEF AdminEnable
    <2> QED BY <1>3, <1>5, <2>1 DEF AdminEnable, SwitchOn, TypeOK
  <1>6. ASSUME NEW c \in Id, AdminReset(c) PROVE TypeOK'
    <2>1. todo' \in Seq(Todo) /\ target' \in Id \cup {None} /\ adminOps' \in Nat
      BY <1>1, <1>2, <1>6 DEF AdminReset
    <2> QED BY <1>3, <1>6, <2>1 DEF AdminReset, SwitchOn, TypeOK
  <1>7. ASSUME NEW c \in Id, DeleteCredential(c) PROVE TypeOK'
    <2>1. todo' \in Seq(Todo) /\ target' \in Id \cup {None} /\ adminOps' \in Nat
      BY <1>1, <1>2, <1>7 DEF DeleteCredential, Todo
    <2>2. /\ status' \in [Id -> Status] /\ failures' \in [Id -> Nat]
          /\ refreshFailures' \in [Id -> Nat] /\ active' \in [Id -> Nat]
          /\ waiting' \in [Id -> Nat] /\ limit' \in [Id -> Nat]
          /\ priority' \in [Id -> Nat]
      BY <1>0, <1>7 DEF DeleteCredential, Status
    <2>3. stale' \in SUBSET Request
      BY <1>0, <1>7 DEF DeleteCredential, Holders
    <2> QED BY <1>7, <2>1, <2>2, <2>3 DEF DeleteCredential, TypeOK
  <1>8. ASSUME NEW c \in Id, NEW p \in Priorities, AdminSetPriority(c, p) PROVE TypeOK'
    <2>1. todo' \in Seq(Todo) /\ target' \in Id \cup {None} /\ adminOps' \in Nat
      BY <1>1, <1>2, <1>8 DEF AdminSetPriority, Todo
    <2>2. priority' \in [Id -> Nat]
      BY <1>0, <1>8 DEF AdminSetPriority
    <2> QED BY <1>8, <2>1, <2>2 DEF AdminSetPriority, TypeOK
  <1>9. ASSUME NEW S, NEW m \in Limits, AdminSetLimit(S, m) PROVE TypeOK'
    <2>1. todo' \in Seq(Todo) /\ target' \in Id \cup {None} /\ adminOps' \in Nat
      BY <1>1, <1>2, <1>9 DEF AdminSetLimit
    <2>2. limit' \in [Id -> Nat]
      BY <1>0, <1>9 DEF AdminSetLimit
    <2> QED BY <1>9, <2>1, <2>2 DEF AdminSetLimit, TypeOK
  <1>10. ASSUME NEW m \in Limits, NEW p \in Priorities, AddCredential(m, p) PROVE TypeOK'
    <2>1. todo' \in Seq(Todo) /\ target' \in Id \cup {None} /\ adminOps' \in Nat
      BY <1>1, <1>2, <1>10 DEF AddCredential
    <2>2. /\ status' \in [Id -> Status] /\ failures' \in [Id -> Nat]
          /\ refreshFailures' \in [Id -> Nat] /\ active' \in [Id -> Nat]
          /\ waiting' \in [Id -> Nat] /\ limit' \in [Id -> Nat]
          /\ priority' \in [Id -> Nat]
      BY <1>0, <1>10 DEF AddCredential, Status
    <2>3. recycled' \in SUBSET Id
      BY <1>0, <1>10 DEF AddCredential
    <2>4. UNCHANGED <<routeVars, reqVars, stale>>
      BY <1>10 DEF AddCredential
    <2> QED BY <2>1, <2>2, <2>3, <2>4 DEF TypeOK
  <1>11. ASSUME AdminSetMode PROVE TypeOK'
    <2>1. todo' \in Seq(Todo) /\ target' \in Id \cup {None} /\ adminOps' \in Nat
      BY <1>1, <1>2, <1>11 DEF AdminSetMode, Todo
    <2>2. mode' \in Modes
      BY <1>11 DEF AdminSetMode, OtherMode, Modes
    <2> QED BY <1>11, <2>1, <2>2 DEF AdminSetMode, TypeOK
  <1>12. ASSUME NEW c \in Id, AdminRefresh(c) PROVE TypeOK'
    <2>1. todo' \in Seq(Todo) /\ target' \in Id \cup {None} /\ adminOps' \in Nat
      BY <1>1, <1>2, <1>12 DEF AdminRefresh
    <2>2. refreshFailures' \in [Id -> Nat]
      BY <1>0, <1>12 DEF AdminRefresh
    <2> QED BY <1>12, <2>1, <2>2 DEF AdminRefresh, TypeOK
  <1> QED
    BY <1>4, <1>5, <1>6, <1>7, <1>8, <1>9, <1>10, <1>11, <1>12 DEF AdminCall

-----------------------------------------------------------------------------
(* What a request owns at each section *)

\* A request that has not started owns nothing.
LEMMA OwnershipInit == Init => OwnershipInv
  BY DEF Init, OwnershipInv, Holding

\* A step of r leaves what the other requests own alone.
LEMMA OwnershipRequest ==
  ASSUME TypeOK, OwnershipInv, NEW r \in Request,
         RequestStep(r) \/ CancelHolder(r) \/ CancelWaiter(r)
  PROVE  OwnershipInv'
  <1> USE DEF entryVars, routeVars, adminVars, history, Go, OwnershipInv,
              Holding, Queued, Modes, None
  <1>0. /\ pc \in [Request -> PC] /\ guard \in [Request -> Id \cup {None}]
        /\ waitOn \in [Request -> Id \cup {None}] /\ None \notin Id
    BY DEF TypeOK, Id
  <1>1. ASSUME \/ Arrive(r) \/ Attempt(r) \/ LookupAffinity(r) \/ StickyGate(r)
               \/ StickyEnqueue(r) \/ LeaveWait(r) \/ Forget(r)
        PROVE  OwnershipInv'
    BY <1>0, <1>1 DEF Arrive, Attempt, LookupAffinity, StickyGate, StickyEnqueue,
                      LeaveWait, AfterWait, Forget, Route, HasKey
  <1>2. ASSUME NEW c \in Candidates(r), Take(r, c)
        PROVE  guard'[r] # None /\ \A q \in Request \ {r} : guard'[q] = guard[q]
    BY <1>0, <1>2, ChoicesAreIds DEF Take
  <1>3. ASSUME Drop(r)
        PROVE  guard'[r] = None /\ \A q \in Request \ {r} : guard'[q] = guard[q]
    BY <1>0, <1>3 DEF Drop
  <1>4. ASSUME TryBound(r) PROVE OwnershipInv'
    BY <1>0, <1>2, <1>4 DEF TryBound
  <1>5. ASSUME StickyPoll(r) PROVE OwnershipInv'
    BY <1>0, <1>2, <1>5 DEF StickyPoll
  <1>6. ASSUME Reserve(r) PROVE OwnershipInv'
    BY <1>0, <1>2, <1>6, ChoicesAreIds DEF Reserve
  <1>7. ASSUME \/ Wait(r) \/ Settle(r) \/ Point(r) \/ Autoheal(r) \/ TokenOk(r)
               \/ Remember(r) \/ Bind(r)
        PROVE  OwnershipInv'
    BY <1>0, <1>7 DEF Wait, Settle, Point, Autoheal, AfterHeal, TokenOk, Remember, Bind,
                      HasKey
  <1>8. ASSUME RefreshFails(r) \/ RefreshRejects(r) PROVE OwnershipInv'
    BY <1>0, <1>3, <1>8 DEF RefreshFails, RefreshRejects, TokenError
  <1>9. ASSUME ReportRefreshFailure(r) \/ ReportRefreshTokenInvalid(r)
        PROVE  OwnershipInv'
    BY <1>0, <1>9 DEF ReportRefreshFailure, ReportRefreshTokenInvalid
  <1>10. ASSUME Purge(r) PROVE OwnershipInv'
    BY <1>0, <1>10 DEF Purge, AfterPurge
  <1>11. ASSUME \/ CallSucceeds(r) \/ CallRejected(r) \/ CallTokenReplaced(r)
                \/ CallOutOfQuota(r) \/ CallFails(r)
         PROVE  OwnershipInv'
    BY <1>0, <1>11 DEF CallSucceeds, CallRejected, CallTokenReplaced, CallOutOfQuota,
                       CallFails
  <1>12. ASSUME Release(r) \/ CancelHolder(r) PROVE OwnershipInv'
    BY <1>0, <1>3, <1>12 DEF Release, CancelHolder
  <1>13. ASSUME CancelWaiter(r) PROVE OwnershipInv'
    BY <1>0, <1>13 DEF CancelWaiter
  <1>14. ASSUME ReadMode(r) PROVE OwnershipInv'
    <2>1. mode \in Modes
      BY DEF TypeOK
    <2> QED BY <1>0, <1>14, <2>1 DEF ReadMode
  <1> QED
    BY <1>1, <1>4, <1>5, <1>6, <1>7, <1>8, <1>9, <1>10, <1>11, <1>12, <1>13,
       <1>14
    DEF RequestStep

\* Administrators and the TTL move no request.
LEMMA RequestsUntouched ==
  ASSUME AdminStep \/ AdminCall \/ \E s \in Session : AffinityExpires(s)
  PROVE  UNCHANGED reqVars
  BY DEF AdminStep, AdminDisable, AdminPurge, AdminSwitch, AdminSelect, AdminZero,
         AdminClearAffinity, AdminPersistMode, Continue, AdminCall, StartDisable,
         AdminEnable, AdminReset, SwitchOn, DeleteCredential, AdminSetPriority,
         AdminSetLimit, AddCredential, AdminSetMode, AdminRefresh, AffinityExpires

\* A step of the system in the cases the proofs below go through.
LEMMA NextCases ==
  ASSUME [Next]_vars
  PROVE  \/ \E r \in Request : RequestStep(r) \/ CancelHolder(r) \/ CancelWaiter(r)
         \/ \E s \in Session : AffinityExpires(s)
         \/ AdminStep
         \/ AdminCall
         \/ UNCHANGED vars
  BY DEF Next

\* The state is always well typed, and requests own what their section says: a guard
\* exactly from the reservation to the release on every path through acquire_context,
\* its error returns and disconnects.
THEOREM TypeAndOwnership == Spec => [](TypeOK /\ OwnershipInv)
  <1>1. Init => TypeOK /\ OwnershipInv
    BY TypeInit, OwnershipInit
  <1>2. TypeOK /\ OwnershipInv /\ [Next]_vars => TypeOK' /\ OwnershipInv'
    <2> SUFFICES ASSUME TypeOK, OwnershipInv, [Next]_vars
                 PROVE  TypeOK' /\ OwnershipInv'
      OBVIOUS
    <2>1. ASSUME NEW r \in Request, RequestStep(r) \/ CancelHolder(r) \/ CancelWaiter(r)
          PROVE  TypeOK' /\ OwnershipInv'
      BY <2>1, TypeSeek, TypeUse, OwnershipRequest DEF RequestStep
    <2>2. CASE AdminStep \/ AdminCall \/ \E s \in Session : AffinityExpires(s)
      <3>1. TypeOK'
        BY <2>2, TypeAdminStep, TypeAdminCall
      <3>2. OwnershipInv'
        BY <2>2, RequestsUntouched DEF OwnershipInv, HasKey, reqVars
      <3> QED BY <3>1, <3>2
    <2>3. CASE UNCHANGED vars
      BY <2>3 DEF vars, entryVars, routeVars, reqVars, adminVars, history, TypeOK,
                  OwnershipInv, HasKey
    <2> QED BY <2>1, <2>2, <2>3, NextCases
  <1> QED BY <1>1, <1>2, PTL DEF Spec

-----------------------------------------------------------------------------
(* Slots: every step takes one, gives one back, or leaves both sides alone,  *)
(* unless it creates or deletes a credential.                                *)

SlotTaken(r, c) == /\ guard[r] = None /\ c \in Candidates(r) /\ Take(r, c)
                   /\ UNCHANGED <<status, limit, recycled>>
SlotGivenBack(r) == /\ guard[r] \in Id /\ Drop(r)
                    /\ UNCHANGED <<status, limit, recycled, stale>>
SlotsUntouched == /\ UNCHANGED <<active, guard, recycled, stale>>
                  /\ Present' = Present

\* Every step of the pool is of one of these kinds.
LEMMA SlotSteps ==
  ASSUME TypeOK, OwnershipInv, [Next]_vars
  PROVE  \/ \E r \in Request : \E c \in Id : SlotTaken(r, c)
         \/ \E r \in Request : SlotGivenBack(r)
         \/ SlotsUntouched
         \/ \E m \in Limits, p \in Priorities : AddCredential(m, p)
         \/ \E c \in Id : DeleteCredential(c)
  <1> DEFINE Goal == \/ \E r \in Request : \E c \in Id : SlotTaken(r, c)
                     \/ \E r \in Request : SlotGivenBack(r)
                     \/ SlotsUntouched
                     \/ \E m \in Limits, p \in Priorities : AddCredential(m, p)
                     \/ \E c \in Id : DeleteCredential(c)
  <1> USE DEF entryVars, routeVars, adminVars, history
  <1>0. status \in [Id -> Status] /\ guard \in [Request -> Id \cup {None}]
    BY DEF TypeOK
  <1>1. ASSUME NEW r \in Request, NEW c, pc[r] \notin Holding, c \in Candidates(r),
               Take(r, c), UNCHANGED <<status, limit, recycled>>
        PROVE  Goal
    <2>1. guard[r] = None /\ c \in Id
      BY <1>1, ChoicesAreIds DEF OwnershipInv
    <2> QED BY <1>1, <2>1 DEF SlotTaken
  <1>2. ASSUME NEW r \in Request, pc[r] \in Holding, Drop(r),
               UNCHANGED <<status, limit, recycled, stale>>
        PROVE  Goal
    <2>1. guard[r] \in Id
      BY <1>0, <1>2 DEF OwnershipInv
    <2> QED BY <1>2, <2>1 DEF SlotGivenBack
  <1>3. ASSUME UNCHANGED <<status, active, guard, recycled, stale>> PROVE Goal
    BY <1>3 DEF SlotsUntouched, Present
  <1>4. ASSUME NEW c \in Enabled, NEW why \in Disabled, SwitchOff(c, why),
               UNCHANGED <<active, guard, recycled, stale>>
        PROVE  Goal
    <2>1. Present' = Present
      BY <1>0, <1>4 DEF SwitchOff, Enabled, Present, Disabled
    <2> QED BY <1>4, <2>1 DEF SlotsUntouched
  <1>5. ASSUME NEW r \in Request, TryBound(r) \/ StickyPoll(r) PROVE Goal
    BY <1>1, <1>3, <1>5 DEF TryBound, StickyPoll, Holding
  <1>6. ASSUME NEW r \in Request, Reserve(r) PROVE Goal
    BY <1>1, <1>3, <1>6, ChoicesAreIds DEF Reserve, Holding, Modes
  <1>7. ASSUME NEW r \in Request,
               RefreshFails(r) \/ RefreshRejects(r) \/ Release(r) \/ CancelHolder(r)
        PROVE  Goal
    BY <1>2, <1>7 DEF RefreshFails, RefreshRejects, TokenError, Release, CancelHolder,
                      Holding
  <1>8. ASSUME NEW r \in Request, ReportRefreshFailure(r) PROVE Goal
    BY <1>3, <1>4, <1>8 DEF ReportRefreshFailure, IgnoredReport, Disabled
  <1>9. ASSUME NEW r \in Request, ReportRefreshTokenInvalid(r) PROVE Goal
    BY <1>3, <1>4, <1>9 DEF ReportRefreshTokenInvalid, IgnoredReport, Disabled
  <1>10. ASSUME NEW r \in Request, CallRejected(r) PROVE Goal
    BY <1>3, <1>4, <1>10 DEF CallRejected, IgnoredReport, Disabled
  <1>11. ASSUME NEW r \in Request, CallOutOfQuota(r) PROVE Goal
    BY <1>3, <1>4, <1>11 DEF CallOutOfQuota, IgnoredReport, Disabled
  <1>12. ASSUME NEW r \in Request, Autoheal(r) PROVE Goal
    <2>1. Present' = Present
      BY <1>0, <1>12 DEF Autoheal, Healable, Present
    <2> QED BY <1>12, <2>1 DEF Autoheal, SlotsUntouched
  <1>13. ASSUME NEW r \in Request,
                \/ Arrive(r) \/ Attempt(r) \/ LookupAffinity(r) \/ StickyGate(r)
                \/ StickyEnqueue(r) \/ LeaveWait(r) \/ Forget(r) \/ Wait(r) \/ Settle(r)
                \/ ReadMode(r) \/ Point(r) \/ TokenOk(r) \/ Remember(r) \/ Bind(r) \/ Purge(r)
                \/ CallSucceeds(r) \/ CallTokenReplaced(r) \/ CallFails(r)
                \/ CancelWaiter(r)
         PROVE  Goal
    BY <1>3, <1>13 DEF Arrive, Attempt, LookupAffinity, StickyGate, StickyEnqueue,
       LeaveWait, Forget, ReadMode, Wait, Settle, Point, TokenOk, Remember, Bind, Purge,
       CallSucceeds, CallTokenReplaced, CallFails, CancelWaiter
  <1>14. ASSUME AdminStep \/ \E s \in Session : AffinityExpires(s) PROVE Goal
    <2>1. CASE AdminDisable
      <3>1. Present' = Present
        BY <1>0, <2>1 DEF AdminDisable, Present
      <3> QED BY <2>1, <3>1 DEF AdminDisable, Continue, reqVars, SlotsUntouched
    <2>2. CASE \/ AdminPurge \/ AdminSwitch \/ AdminSelect \/ AdminZero
               \/ AdminClearAffinity \/ AdminPersistMode
               \/ \E s \in Session : AffinityExpires(s)
      BY <1>3, <2>2 DEF AdminPurge, AdminSwitch, AdminSelect, AdminZero,
         AdminClearAffinity, AdminPersistMode, Continue, AffinityExpires, reqVars
    <2> QED BY <1>14, <2>1, <2>2 DEF AdminStep
  <1>15. ASSUME AdminCall PROVE Goal
    <2>1. ASSUME NEW c \in Id, AdminEnable(c) \/ AdminReset(c) PROVE Goal
      <3>1. Present' = Present
        BY <1>0, <2>1 DEF AdminEnable, AdminReset, SwitchOn, Present
      <3> QED BY <2>1, <3>1 DEF AdminEnable, AdminReset, SwitchOn, reqVars, SlotsUntouched
    <2>2. ASSUME \/ \E c \in Id : \/ StartDisable(c) \/ AdminRefresh(c)
                                  \/ \E p \in Priorities : AdminSetPriority(c, p)
                 \/ \E S \in SUBSET Present, m \in Limits : AdminSetLimit(S, m)
                 \/ AdminSetMode
          PROVE  Goal
      BY <1>3, <2>2 DEF StartDisable, AdminRefresh, AdminSetPriority, AdminSetLimit,
                        AdminSetMode, reqVars
    <2> QED BY <1>15, <2>1, <2>2 DEF AdminCall
  <1>16. CASE UNCHANGED vars
    BY <1>3, <1>16 DEF vars, reqVars
  <1>17. ASSUME NEW r \in Request, RequestStep(r) \/ CancelHolder(r) \/ CancelWaiter(r)
         PROVE  Goal
    BY <1>5, <1>6, <1>7, <1>8, <1>9, <1>10, <1>11, <1>12, <1>13, <1>17 DEF RequestStep
  <1> QED BY <1>14, <1>15, <1>16, <1>17, NextCases

\* A set of requests can be counted.
LEMMA HoldersAreFinite ==
  ASSUME NEW S \in SUBSET Request
  PROVE  IsFiniteSet(S) /\ Cardinality(S) \in Nat
  BY PoolAssumption, FS_Subset, FS_CardinalityType

\* reserve_best and reserve_one add one to `active` and one guard.
LEMMA SlotTakenKeepsCount ==
  ASSUME TypeOK, SlotsMatchGuards, NEW r \in Request, NEW c \in Id, SlotTaken(r, c)
  PROVE  SlotsMatchGuards'
  <1>1. /\ active \in [Id -> Nat] /\ guard \in [Request -> Id \cup {None}]
        /\ None \notin Id
    BY DEF TypeOK, Id, None
  <1>2. /\ Holders(c)' = Holders(c) \cup {r} /\ r \notin Holders(c)
        /\ \A d \in Id \ {c} : Holders(d)' = Holders(d)
    BY <1>1 DEF SlotTaken, Take, Holders
  <1>3. Cardinality(Holders(c)') = Cardinality(Holders(c)) + 1
    BY <1>2, HoldersAreFinite, FS_AddElement DEF Holders
  <1>4. active' = [active EXCEPT ![c] = @ + 1] /\ (Present \ recycled)' = Present \ recycled
    BY DEF SlotTaken, Take, Present
  <1>5. Cardinality(Holders(c)) \in Nat
    BY HoldersAreFinite DEF Holders
  <1>6. ASSUME NEW d \in Id
        PROVE  /\ active'[d] <= Cardinality(Holders(d)')
               /\ d \in (Present \ recycled)' => active'[d] = Cardinality(Holders(d)')
    <2>1. CASE d = c
      BY <1>1, <1>3, <1>4, <1>5, <2>1 DEF SlotsMatchGuards
    <2>2. CASE d # c
      BY <1>1, <1>2, <1>4, <2>2 DEF SlotsMatchGuards
    <2> QED BY <2>1, <2>2
  <1> QED BY <1>6 DEF SlotsMatchGuards

\* release_active_slot takes one off `active`, and the guard is gone.
LEMMA SlotGivenBackKeepsCount ==
  ASSUME TypeOK, SlotsMatchGuards, NEW r \in Request, SlotGivenBack(r)
  PROVE  SlotsMatchGuards'
  <1>0. PICK c \in Id : c = guard[r]
    BY DEF SlotGivenBack
  <1>1. /\ active \in [Id -> Nat] /\ guard \in [Request -> Id \cup {None}]
        /\ None \notin Id
    BY DEF TypeOK, Id, None
  <1>2. /\ Holders(c)' = Holders(c) \ {r} /\ r \in Holders(c)
        /\ \A d \in Id \ {c} : Holders(d)' = Holders(d)
    BY <1>0, <1>1 DEF SlotGivenBack, Drop, Holders
  <1>3. Cardinality(Holders(c)') = Cardinality(Holders(c)) - 1
    BY <1>2, HoldersAreFinite, FS_RemoveElement DEF Holders
  <1>4. /\ active' = [active EXCEPT ![c] = Pred(@)]
        /\ (Present \ recycled)' = Present \ recycled
    BY <1>0 DEF SlotGivenBack, Drop, Freed, Present
  <1>5. Cardinality(Holders(c)) \in Nat /\ Cardinality(Holders(c)') \in Nat
    BY HoldersAreFinite DEF Holders
  <1>6. ASSUME NEW d \in Id
        PROVE  /\ active'[d] <= Cardinality(Holders(d)')
               /\ d \in (Present \ recycled)' => active'[d] = Cardinality(Holders(d)')
    <2>1. CASE d = c
      <3>1. active'[c] = Pred(active[c]) /\ active[c] \in Nat
        BY <1>1, <1>4
      <3>2. /\ active[c] <= Cardinality(Holders(c))
            /\ c \in Present \ recycled => active[c] = Cardinality(Holders(c))
        BY <1>1 DEF SlotsMatchGuards
      <3> QED BY <1>3, <1>4, <1>5, <2>1, <3>1, <3>2 DEF Pred
    <2>2. CASE d # c
      BY <1>1, <1>2, <1>4, <2>2 DEF SlotsMatchGuards
    <2> QED BY <2>1, <2>2
  <1> QED BY <1>6 DEF SlotsMatchGuards

\* A new credential starts with an empty count; if the id has holders it is recycled.
LEMMA AddKeepsCount ==
  ASSUME TypeOK, SlotsMatchGuards,
         NEW m \in Limits, NEW p \in Priorities, AddCredential(m, p)
  PROVE  SlotsMatchGuards'
  <1>1. PICK c \in Id :
          /\ status' = [status EXCEPT ![c] = "Enabled"]
          /\ active' = [active EXCEPT ![c] = 0]
          /\ recycled' = IF Holders(c) \cup Waiters(c) = {} THEN recycled
                         ELSE recycled \cup {c}
          /\ guard' = guard
    BY DEF AddCredential, reqVars
  <1>2. active \in [Id -> Nat] /\ status \in [Id -> Status]
    BY DEF TypeOK
  <1>3. ASSUME NEW d \in Id
        PROVE  /\ active'[d] <= Cardinality(Holders(d)')
               /\ d \in (Present \ recycled)' => active'[d] = Cardinality(Holders(d)')
    <2>1. Holders(d)' = Holders(d) /\ Cardinality(Holders(d)) \in Nat
      BY <1>1, HoldersAreFinite DEF Holders
    <2>2. CASE d = c
      <3>1. active'[d] = 0
        BY <1>1, <1>2, <2>2
      <3>2. d \notin recycled' => Cardinality(Holders(d)) = 0
        BY <1>1, <2>2, FS_EmptySet
      <3> QED BY <2>1, <3>1, <3>2
    <2>3. CASE d # c
      <3>1. active'[d] = active[d]
        BY <1>1, <1>2, <2>3
      <3>2. d \in (Present \ recycled)' => d \in Present \ recycled
        BY <1>1, <1>2, <2>3 DEF Present
      <3> QED BY <2>1, <3>1, <3>2 DEF SlotsMatchGuards
    <2> QED BY <2>2, <2>3
  <1> QED BY <1>3 DEF SlotsMatchGuards

\* delete_credential forgets the count; no holder of the id is counted any more.
LEMMA DeleteKeepsCount ==
  ASSUME TypeOK, SlotsMatchGuards, NEW c \in Id, DeleteCredential(c)
  PROVE  SlotsMatchGuards'
  <1>1. /\ status' = [status EXCEPT ![c] = "Absent"]
        /\ active' = [active EXCEPT ![c] = 0]
        /\ recycled' = recycled /\ guard' = guard
    BY DEF DeleteCredential, reqVars
  <1>2. active \in [Id -> Nat] /\ status \in [Id -> Status]
    BY DEF TypeOK
  <1>3. ASSUME NEW d \in Id
        PROVE  /\ active'[d] <= Cardinality(Holders(d)')
               /\ d \in (Present \ recycled)' => active'[d] = Cardinality(Holders(d)')
    <2>1. Holders(d)' = Holders(d) /\ Cardinality(Holders(d)) \in Nat
      BY <1>1, HoldersAreFinite DEF Holders
    <2>2. CASE d = c
      <3>1. active'[d] = 0 /\ d \notin Present'
        BY <1>1, <1>2, <2>2 DEF Present
      <3> QED BY <2>1, <3>1
    <2>3. CASE d # c
      <3>1. active'[d] = active[d]
        BY <1>1, <1>2, <2>3
      <3>2. d \in (Present \ recycled)' => d \in Present \ recycled
        BY <1>1, <1>2, <2>3 DEF Present
      <3> QED BY <2>1, <3>1, <3>2 DEF SlotsMatchGuards
    <2> QED BY <2>2, <2>3
  <1> QED BY <1>3 DEF SlotsMatchGuards

\* No slot leaks and none is given back twice, for any number of requests and
\* credentials (reserve_best, reserve_one, ConcurrencyGuard::drop).
THEOREM SlotsSafe == Spec => []SlotsMatchGuards
  <1>1. Init => SlotsMatchGuards
    <2> SUFFICES ASSUME Init, NEW c \in Id PROVE active[c] = 0 /\ Holders(c) = {}
      BY FS_EmptySet DEF SlotsMatchGuards
    <2> QED BY DEF Init, Holders, Id, None
  <1>2. TypeOK /\ OwnershipInv /\ SlotsMatchGuards /\ [Next]_vars => SlotsMatchGuards'
    <2> SUFFICES ASSUME TypeOK, OwnershipInv, SlotsMatchGuards, [Next]_vars
                 PROVE  SlotsMatchGuards'
      OBVIOUS
    <2>1. CASE SlotsUntouched
      BY <2>1 DEF SlotsUntouched, SlotsMatchGuards, Holders
    <2> QED
      BY <2>1, SlotSteps, SlotTakenKeepsCount, SlotGivenBackKeepsCount, AddKeepsCount,
         DeleteKeepsCount
  <1> QED BY <1>1, <1>2, TypeAndOwnership, PTL DEF Spec

-----------------------------------------------------------------------------
(* The hard limit *)

\* Whoever is admitted finds fewer than max_concurrency live holders.
LEMMA AdmittedWithinLimit ==
  ASSUME TypeOK, SlotsMatchGuards, NEW r \in Request, NEW c \in Id, SlotTaken(r, c),
         c \notin recycled, limit[c] # 0
  PROVE  Cardinality(Holders(c)) < limit[c]
  <1>1. c \in Present /\ ~Full(c)
    BY DEF SlotTaken, Candidates, Usable, Enabled, Present
  <1>2. active[c] = Cardinality(Holders(c))
    BY <1>1 DEF SlotsMatchGuards
  <1>3. limit[c] \in Nat /\ active[c] \in Nat
    BY DEF TypeOK
  <1> QED BY <1>1, <1>2, <1>3 DEF Full

\* Live holders of c grow only by a reservation of c.
LEMMA HoldersGrowOnlyWhenTaken ==
  ASSUME TypeOK, OwnershipInv, [Next]_vars, NEW c \in Id,
         ~(LiveHolders(c)' \subseteq LiveHolders(c))
  PROVE  \E r \in Request : SlotTaken(r, c)
  <1> USE DEF LiveHolders, Holders
  <1>1. guard \in [Request -> Id \cup {None}] /\ None \notin Id
    BY DEF TypeOK, Id, None
  <1>2. ASSUME NEW r \in Request, NEW d \in Id, SlotTaken(r, d) PROVE d = c
    BY <1>1, <1>2 DEF SlotTaken, Take
  <1>3. ~ \E r \in Request : SlotGivenBack(r)
    BY <1>1 DEF SlotGivenBack, Drop
  <1>4. ~SlotsUntouched
    BY DEF SlotsUntouched
  <1>5. ~ \E m \in Limits, p \in Priorities : AddCredential(m, p)
    BY DEF AddCredential, reqVars
  <1>6. ~ \E d \in Id : DeleteCredential(d)
    BY DEF DeleteCredential, reqVars
  <1> QED BY <1>2, <1>3, <1>4, <1>5, <1>6, SlotSteps

\* max_concurrency bounds the requests admitted to a credential, whatever the
\* interleaving of reservations, releases, disconnects and admin calls, as long as
\* its id was not handed over to it with a request still holding the old one.
THEOREM HardLimitHolds == Spec => HardLimit
  <1>1. ASSUME TypeOK, OwnershipInv, SlotsMatchGuards, [Next]_vars
        PROVE  \A c \in Id \ recycled : AdmitsWithinLimit(c)
    <2> SUFFICES ASSUME NEW c \in Id \ recycled,
                        ~(LiveHolders(c)' \subseteq LiveHolders(c)), limit[c] # 0
                 PROVE  Cardinality(LiveHolders(c)) < limit[c]
      BY DEF AdmitsWithinLimit
    <2>1. Cardinality(Holders(c)) < limit[c]
      BY <1>1, HoldersGrowOnlyWhenTaken, AdmittedWithinLimit
    <2>2. /\ IsFiniteSet(Holders(c)) /\ Cardinality(Holders(c)) \in Nat
          /\ Cardinality(LiveHolders(c)) \in Nat
          /\ LiveHolders(c) \subseteq Holders(c)
      BY HoldersAreFinite DEF Holders, LiveHolders
    <2>3. Cardinality(LiveHolders(c)) <= Cardinality(Holders(c))
      BY <2>2, FS_Subset
    <2>4. limit[c] \in Nat
      BY <1>1 DEF TypeOK
    <2> QED BY <2>1, <2>2, <2>3, <2>4
  <1>2. TypeOK /\ OwnershipInv /\ SlotsMatchGuards /\ [Next]_vars
          => [\A c \in Id \ recycled : AdmitsWithinLimit(c)]_vars
    BY <1>1
  <1> QED BY <1>2, TypeAndOwnership, SlotsSafe, PTL DEF Spec, HardLimit

\* Without id reuse, the pool implements the safety part of ConcurrencySlots: every
\* step of the pool is a step of the counting semaphores or leaves them alone.
THEOREM SlotsImplemented ==
  Spec /\ [](recycled = {}) => Slots!Init /\ [][Slots!Next]_(Slots!vars)
  <1>1. Init => Slots!Init
    BY PoolAssumption DEF Init, Slots!Init, Id
  <1>2. ASSUME TypeOK, TypeOK', OwnershipInv, SlotsMatchGuards, recycled = {},
               [Next]_vars
        PROVE  [Slots!Next]_(Slots!vars)
    <2>1. /\ guard \in [Request -> Id \cup {None}] /\ None \notin Id
          /\ limit' \in [Id -> Nat]
      BY <1>2 DEF TypeOK, Id, None
    <2>2. ASSUME NEW r \in Request, NEW c \in Id, SlotTaken(r, c)
          PROVE  Slots!Acquire(r, c)
      <3>1. Slots!HasRoom(c)
        <4>1. limit[c] # 0 => Cardinality(Holders(c)) < limit[c]
          BY <1>2, <2>2, AdmittedWithinLimit
        <4>2. Slots!Users(c) = Holders(c)
          BY DEF Slots!Users, Holders
        <4>3. Slots!Cardinality(Holders(c)) = Cardinality(Holders(c))
          BY DEF Slots!Cardinality, Cardinality
        <4> QED BY <4>1, <4>2, <4>3 DEF Slots!HasRoom
      <3> QED BY <2>2, <3>1 DEF Slots!Acquire, SlotTaken, Take
    <2>3. ASSUME NEW r \in Request, SlotGivenBack(r)
          PROVE  Slots!Release(r)
      BY <2>1, <2>3 DEF Slots!Release, SlotGivenBack, Drop
    <2>4. ASSUME guard' = guard PROVE Slots!Retune
      BY <2>1, <2>4 DEF Slots!Retune
    <2>5. ASSUME \/ \E m \in Limits, p \in Priorities : AddCredential(m, p)
                 \/ \E c \in Id : DeleteCredential(c)
          PROVE  guard' = guard
      BY <2>5 DEF AddCredential, DeleteCredential, reqVars
    <2> QED
      BY <1>2, <2>2, <2>3, <2>4, <2>5, SlotSteps DEF Slots!Next, SlotsUntouched
  <1> QED BY <1>1, <1>2, TypeAndOwnership, SlotsSafe, PTL DEF Spec

-----------------------------------------------------------------------------
(* Switching credentials on and off *)

\* EnabledBelowThreshold says nothing of a disabled credential, so that it is not
\* preserved by self-healing on its own: the refresh counter, which try_autoheal does
\* not reset, must be known to be low on the credentials it heals.
HealableBelowThreshold ==
  \A c \in Healable : refreshFailures[c] < MaxFailures

\* Every step, try_autoheal included, preserves the strengthened invariant.
LEMMA ThresholdStep ==
  ASSUME TypeOK, EnabledBelowThreshold, HealableBelowThreshold, [Next]_vars
  PROVE  EnabledBelowThreshold' /\ HealableBelowThreshold'
  <1> DEFINE Fit(c) == failures[c] < MaxFailures /\ refreshFailures[c] < MaxFailures
             Goal == EnabledBelowThreshold' /\ HealableBelowThreshold'
  <1> USE DEF entryVars, routeVars, adminVars, history, EnabledBelowThreshold,
              HealableBelowThreshold, Enabled, Healable
  <1>0. /\ status \in [Id -> Status] /\ failures \in [Id -> Nat]
        /\ refreshFailures \in [Id -> Nat] /\ MaxFailures \in Nat \ {0}
    BY PoolAssumption DEF TypeOK
  <1>1. ASSUME UNCHANGED <<status, failures, refreshFailures>> PROVE Goal
    BY <1>1
  <1>2. ASSUME NEW r \in Request, Autoheal(r) PROVE Goal
    BY <1>0, <1>2 DEF Autoheal, HealedCounters
  <1>3. ASSUME NEW r \in Request, TokenOk(r) \/ CallSucceeds(r) \/ CallTokenReplaced(r)
        PROVE  Goal
    BY <1>0, <1>3 DEF TokenOk, CallSucceeds, CallTokenReplaced
  <1>4. ASSUME NEW r \in Request, ReportRefreshFailure(r) PROVE Goal
    BY <1>0, <1>4 DEF ReportRefreshFailure, IgnoredReport, SwitchOff
  <1>5. ASSUME NEW r \in Request, ReportRefreshTokenInvalid(r) PROVE Goal
    BY <1>0, <1>5 DEF ReportRefreshTokenInvalid, IgnoredReport, SwitchOff
  <1>6. ASSUME NEW r \in Request, CallRejected(r) PROVE Goal
    BY <1>0, <1>6 DEF CallRejected, IgnoredReport, SwitchOff
  <1>7. ASSUME NEW r \in Request, CallOutOfQuota(r) PROVE Goal
    BY <1>0, <1>7 DEF CallOutOfQuota, IgnoredReport, SwitchOff
  <1>8. ASSUME NEW r \in Request,
               \/ Arrive(r) \/ Attempt(r) \/ LookupAffinity(r) \/ TryBound(r)
               \/ StickyGate(r) \/ StickyEnqueue(r) \/ StickyPoll(r) \/ LeaveWait(r)
               \/ Forget(r) \/ ReadMode(r) \/ Reserve(r) \/ Wait(r) \/ Settle(r)
               \/ Point(r) \/ RefreshFails(r) \/ RefreshRejects(r) \/ Remember(r) \/ Bind(r)
               \/ Purge(r) \/ CallFails(r) \/ Release(r) \/ CancelHolder(r) \/ CancelWaiter(r)
        PROVE  Goal
    BY <1>1, <1>8 DEF Arrive, Attempt, LookupAffinity, TryBound, StickyGate,
       StickyEnqueue, StickyPoll, LeaveWait, Forget, ReadMode, Reserve, Wait, Settle, Point,
       RefreshFails, RefreshRejects, TokenError, Remember, Bind, Purge, CallFails,
       Release, CancelHolder, CancelWaiter
  <1>9. ASSUME AdminStep \/ \E s \in Session : AffinityExpires(s) PROVE Goal
    <2>1. CASE AdminDisable
      BY <1>0, <2>1 DEF AdminDisable
    <2>2. CASE \/ AdminPurge \/ AdminSwitch \/ AdminSelect \/ AdminZero
               \/ AdminClearAffinity \/ AdminPersistMode
               \/ \E s \in Session : AffinityExpires(s)
      BY <1>1, <2>2 DEF AdminPurge, AdminSwitch, AdminSelect, AdminZero,
         AdminClearAffinity, AdminPersistMode, AffinityExpires
    <2> QED BY <1>9, <2>1, <2>2 DEF AdminStep
  <1>10. ASSUME AdminCall PROVE Goal
    <2>1. ASSUME NEW c \in Id, SwitchOn(c) PROVE Goal
      BY <1>0, <2>1 DEF SwitchOn
    <2>2. ASSUME NEW m \in Limits, NEW p \in Priorities, AddCredential(m, p) PROVE Goal
      BY <1>0, <2>2 DEF AddCredential
    <2>3. ASSUME NEW c \in Id, DeleteCredential(c) PROVE Goal
      BY <1>0, <2>3 DEF DeleteCredential
    <2>4. ASSUME \/ \E c \in Id : \/ StartDisable(c)
                                  \/ \E p \in Priorities : AdminSetPriority(c, p)
                 \/ \E S \in SUBSET Present, m \in Limits : AdminSetLimit(S, m)
                 \/ AdminSetMode
          PROVE  Goal
      BY <1>1, <2>4 DEF StartDisable, AdminSetPriority, AdminSetLimit, AdminSetMode
    <2>5. ASSUME NEW c \in Id, AdminRefresh(c) PROVE Goal
      BY <1>0, <2>5 DEF AdminRefresh
    <2> QED BY <1>10, <2>1, <2>2, <2>3, <2>4, <2>5 DEF AdminCall, AdminEnable, AdminReset
  <1>11. CASE UNCHANGED vars
    BY <1>1, <1>11 DEF vars
  <1> QED
    BY <1>2, <1>3, <1>4, <1>5, <1>6, <1>7, <1>8, <1>9, <1>10, <1>11, NextCases
    DEF RequestStep

\* A credential that is on is never at a threshold, however it was switched on.
THEOREM EnabledAreFit == Spec => []EnabledBelowThreshold
  <1>1. Init => EnabledBelowThreshold /\ HealableBelowThreshold
    BY PoolAssumption DEF Init, EnabledBelowThreshold, HealableBelowThreshold, Healable,
                          Enabled
  <1>2. TypeOK /\ EnabledBelowThreshold /\ HealableBelowThreshold /\ [Next]_vars
          => EnabledBelowThreshold' /\ HealableBelowThreshold'
    BY ThresholdStep
  <1>3. Spec => []TypeOK
    BY TypeAndOwnership, PTL
  <1> QED BY <1>1, <1>2, <1>3, PTL DEF Spec

\* Only an administrator brings back a credential that was not switched off by
\* consecutive failures: the sections of a request, try_autoheal included, do not.
THEOREM OnlyAdminReenablesHolds == Spec => OnlyAdminReenables
  <1> DEFINE Back(c) == /\ status[c] \in Disabled \ {"TooManyFailures"}
                        /\ status'[c] = "Enabled"
             Goal == \A c \in Id : Back(c) => adminOps' = adminOps + 1
  <1>1. ASSUME TypeOK, [Next]_vars PROVE Goal
    <2> USE DEF entryVars
    <2>0. status \in [Id -> Status] /\ "Enabled" \notin Disabled
      BY <1>1 DEF TypeOK, Disabled
    <2>1. ASSUME UNCHANGED status PROVE Goal
      BY <2>0, <2>1
    <2>2. ASSUME NEW c, NEW why \in Disabled, SwitchOff(c, why) PROVE Goal
      BY <2>0, <2>2 DEF SwitchOff
    <2>3. ASSUME NEW op, NEW sections, NEW c, Begin(op, sections, c) PROVE Goal
      BY <2>3 DEF Begin
    <2>4. ASSUME NEW r \in Request, Autoheal(r) PROVE Goal
      BY <2>0, <2>4 DEF Autoheal, Healable
    <2>5. ASSUME NEW r \in Request,
                 \/ ReportRefreshFailure(r) \/ ReportRefreshTokenInvalid(r)
                 \/ CallRejected(r) \/ CallOutOfQuota(r)
          PROVE  Goal
      BY <2>1, <2>2, <2>5 DEF ReportRefreshFailure, ReportRefreshTokenInvalid,
         CallRejected, CallOutOfQuota, IgnoredReport, Disabled
    <2>6. ASSUME NEW r \in Request,
                 \/ Arrive(r) \/ Attempt(r) \/ LookupAffinity(r) \/ TryBound(r)
                 \/ StickyGate(r) \/ StickyEnqueue(r) \/ StickyPoll(r) \/ LeaveWait(r)
                 \/ Forget(r) \/ ReadMode(r) \/ Reserve(r) \/ Wait(r) \/ Settle(r)
                 \/ Point(r) \/ TokenOk(r) \/ RefreshFails(r) \/ RefreshRejects(r) \/ Remember(r)
                 \/ Bind(r) \/ Purge(r) \/ CallSucceeds(r) \/ CallTokenReplaced(r)
                 \/ CallFails(r) \/ Release(r)
                 \/ CancelHolder(r) \/ CancelWaiter(r)
          PROVE  Goal
      BY <2>1, <2>6 DEF Arrive, Attempt, LookupAffinity, TryBound, StickyGate,
         StickyEnqueue, StickyPoll, LeaveWait, Forget, ReadMode, Reserve, Wait, Settle, Point,
         TokenOk, RefreshFails, RefreshRejects, TokenError, Remember, Bind, Purge,
         CallSucceeds, CallTokenReplaced, CallFails, Release, CancelHolder, CancelWaiter
    <2>7. ASSUME AdminStep \/ \E s \in Session : AffinityExpires(s) PROVE Goal
      <3>1. CASE AdminDisable
        BY <2>0, <3>1 DEF AdminDisable
      <3>2. CASE \/ AdminPurge \/ AdminSwitch \/ AdminSelect \/ AdminZero
                 \/ AdminClearAffinity \/ AdminPersistMode
                 \/ \E s \in Session : AffinityExpires(s)
        BY <2>1, <3>2 DEF AdminPurge, AdminSwitch, AdminSelect, AdminZero,
           AdminClearAffinity, AdminPersistMode, AffinityExpires
      <3> QED BY <2>7, <3>1, <3>2 DEF AdminStep
    <2>8. ASSUME AdminCall PROVE Goal
      BY <2>3, <2>8 DEF AdminCall, StartDisable, AdminEnable, AdminReset, AdminRefresh,
         DeleteCredential, AdminSetPriority, AdminSetLimit, AddCredential, AdminSetMode
    <2>9. CASE UNCHANGED vars
      BY <2>1, <2>9 DEF vars
    <2> QED BY <1>1, <2>4, <2>5, <2>6, <2>7, <2>8, <2>9, NextCases DEF RequestStep
  <1>2. TypeOK /\ [Next]_vars => [Goal]_vars
    BY <1>1
  <1>3. Spec => []TypeOK
    BY TypeAndOwnership, PTL
  <1>4. [Goal]_vars => [\A c \in Id : status[c] \in Disabled \ {"TooManyFailures"}
                                     /\ status'[c] = "Enabled"
                                   => adminOps' = adminOps + 1]_vars
    OBVIOUS
  <1> QED BY <1>2, <1>3, <1>4, PTL DEF Spec, OnlyAdminReenables

-----------------------------------------------------------------------------
(* Waiters *)

\* adjust_waiting keeps up with the wait_target on every way in and out of a wait.
LEMMA WaitingStep ==
  ASSUME TypeOK, OwnershipInv, WaitersAreCounted, [Next]_vars
  PROVE  WaitersAreCounted'
  <1> USE DEF entryVars, routeVars, adminVars, history
  <1>0. /\ status \in [Id -> Status] /\ waiting \in [Id -> Nat]
        /\ waitOn \in [Request -> Id \cup {None}] /\ None \notin Id
        /\ cred \in [Request -> Id \cup {None}]
    BY DEF TypeOK, Id, None
  <1>1. /\ \A c : Cardinality(Waiters(c)) \in Nat /\ IsFiniteSet(Waiters(c))
        /\ \A c : Cardinality(Waiters(c)') \in Nat /\ IsFiniteSet(Waiters(c)')
    BY HoldersAreFinite DEF Waiters
  <1>2. ASSUME (Present \ recycled)' \subseteq Present \ recycled,
               UNCHANGED <<waiting, waitOn>>
        PROVE  WaitersAreCounted'
    BY <1>2 DEF WaitersAreCounted, Waiters
  <1>3. ASSUME NEW r \in Request, StickyEnqueue(r) PROVE WaitersAreCounted'
    <2>1. waitOn[r] = None /\ Present' = Present /\ recycled' = recycled
      BY <1>0, <1>3 DEF StickyEnqueue, OwnershipInv, Queued, Modes, Present
    <2> SUFFICES ASSUME NEW c \in Present \ recycled
                 PROVE  Cardinality(Waiters(c)') <= waiting'[c]
      BY <2>1 DEF WaitersAreCounted
    <2>2. CASE c = cred[r]
      <3>1. waiting'[c] = waiting[c] + 1
        BY <1>0, <1>3, <2>2 DEF StickyEnqueue, Counted, Present
      <3>2. Waiters(c)' = Waiters(c) \cup {r} /\ r \notin Waiters(c)
        BY <1>0, <1>3, <2>1, <2>2 DEF StickyEnqueue, Waiters, Present
      <3>3. Cardinality(Waiters(c)') = Cardinality(Waiters(c)) + 1
        BY <1>1, <3>2, FS_AddElement
      <3> QED BY <1>0, <1>1, <3>1, <3>3 DEF WaitersAreCounted, Present
    <2>3. CASE c # cred[r]
      <3>1. waiting'[c] = waiting[c]
        BY <1>0, <1>3, <2>3 DEF StickyEnqueue, Counted, Present
      <3>2. Waiters(c)' = Waiters(c)
        BY <1>0, <1>3, <2>1, <2>3 DEF StickyEnqueue, Waiters, Present
      <3> QED BY <3>1, <3>2 DEF WaitersAreCounted
    <2> QED BY <2>2, <2>3
  \* What leaving w does to the counter and to the number of waiters of w.
  <1>4. ASSUME NEW r \in Request, NEW w \in Present \ recycled, waitOn[r] = w,
               waiting'[w] = Pred(waiting[w]), Waiters(w)' = Waiters(w) \ {r}
        PROVE  Cardinality(Waiters(w)') <= waiting'[w]
    <2>1. r \in Waiters(w)
      BY <1>4 DEF Waiters
    <2>2. Cardinality(Waiters(w)') = Cardinality(Waiters(w)) - 1
      BY <1>1, <1>4, <2>1, FS_RemoveElement
    <2>3. waiting[w] \in Nat /\ Cardinality(Waiters(w)) <= waiting[w]
      BY <1>0 DEF WaitersAreCounted, Present
    <2> QED BY <1>1, <1>4, <2>2, <2>3 DEF Pred
  <1>5. ASSUME NEW r \in Request, LeaveWait(r) PROVE WaitersAreCounted'
    <2>1. Present' = Present /\ recycled' = recycled
      BY <1>5 DEF LeaveWait, Present
    <2> SUFFICES ASSUME NEW c \in Present \ recycled
                 PROVE  Cardinality(Waiters(c)') <= waiting'[c]
      BY <2>1 DEF WaitersAreCounted
    <2>2. CASE c = waitOn[r]
      <3>1. waiting'[c] = Pred(waiting[c])
        BY <1>0, <1>5, <2>2 DEF LeaveWait, Uncounted, Present
      <3>2. Waiters(c)' = Waiters(c) \ {r}
        BY <1>0, <1>5, <2>2 DEF LeaveWait, Waiters, Present
      <3> QED BY <1>4, <2>2, <3>1, <3>2
    <2>3. CASE c # waitOn[r]
      <3>1. waiting'[c] = waiting[c]
        BY <1>0, <1>5, <2>3 DEF LeaveWait, Uncounted, Present
      <3>2. Waiters(c)' = Waiters(c)
        BY <1>0, <1>5, <2>3 DEF LeaveWait, Waiters, Present
      <3> QED BY <3>1, <3>2 DEF WaitersAreCounted
    <2> QED BY <2>2, <2>3
  <1>6. ASSUME NEW r \in Request, Wait(r) PROVE WaitersAreCounted'
    <2>1. Present' = Present /\ recycled' = recycled
          /\ waitOn' = [waitOn EXCEPT ![r] = cred[r]]
      BY <1>6 DEF Wait, Present
    <2> SUFFICES ASSUME NEW c \in Present \ recycled
                 PROVE  Cardinality(Waiters(c)') <= waiting'[c]
      BY <2>1 DEF WaitersAreCounted
    <2>2. c \in Id /\ waiting[c] \in Nat /\ Cardinality(Waiters(c)) <= waiting[c]
      BY <1>0 DEF Present, WaitersAreCounted
    <2>3. CASE waitOn[r] = cred[r]
      BY <1>0, <1>6, <2>1, <2>2, <2>3 DEF Wait, Waiters
    <2>4. CASE waitOn[r] # cred[r] /\ c = cred[r]
      <3>1. waiting'[c] = waiting[c] + 1
        BY <1>0, <1>6, <2>2, <2>4 DEF Wait, Counted
      <3>2. Waiters(c)' = Waiters(c) \cup {r} /\ r \notin Waiters(c)
        BY <1>0, <2>1, <2>2, <2>4 DEF Waiters
      <3>3. Cardinality(Waiters(c)') = Cardinality(Waiters(c)) + 1
        BY <1>1, <3>2, FS_AddElement
      <3> QED BY <1>1, <2>2, <3>1, <3>3
    <2>5. CASE waitOn[r] # cred[r] /\ c = waitOn[r]
      <3>1. waiting'[c] = Pred(waiting[c])
        BY <1>0, <1>6, <2>2, <2>5 DEF Wait, Uncounted
      <3>2. Waiters(c)' = Waiters(c) \ {r}
        BY <1>0, <2>1, <2>2, <2>5 DEF Waiters
      <3> QED BY <1>4, <2>5, <3>1, <3>2
    <2>6. CASE c # cred[r] /\ c # waitOn[r]
      <3>1. waiting'[c] = waiting[c]
        BY <1>0, <1>6, <2>2, <2>6 DEF Wait, Uncounted
      <3>2. Waiters(c)' = Waiters(c)
        BY <1>0, <2>1, <2>2, <2>6 DEF Waiters
      <3> QED BY <2>2, <3>1, <3>2
    <2> QED BY <2>3, <2>4, <2>5, <2>6
  <1>7. ASSUME NEW r \in Request, CancelWaiter(r) PROVE WaitersAreCounted'
    <2>1. Present' = Present /\ recycled' = recycled /\ waiting' = waiting
      BY <1>7 DEF CancelWaiter, Present
    <2>2. \A c \in Id : Waiters(c)' \subseteq Waiters(c)
      BY <1>0, <1>7 DEF CancelWaiter, Waiters
    <2>3. \A c \in Id : Cardinality(Waiters(c)') <= Cardinality(Waiters(c))
      BY <1>1, <2>2, FS_Subset
    <2> QED BY <1>0, <1>1, <2>1, <2>3 DEF WaitersAreCounted, Present
  <1>8. ASSUME NEW m \in Limits, NEW p \in Priorities, AddCredential(m, p)
        PROVE  WaitersAreCounted'
    <2>1. PICK c \in Id :
            /\ status' = [status EXCEPT ![c] = "Enabled"]
            /\ waiting' = [waiting EXCEPT ![c] = 0]
            /\ recycled' = IF Holders(c) \cup Waiters(c) = {} THEN recycled
                           ELSE recycled \cup {c}
            /\ waitOn' = waitOn
      BY <1>8 DEF AddCredential, reqVars
    <2> SUFFICES ASSUME NEW d \in (Present \ recycled)'
                 PROVE  Cardinality(Waiters(d)') <= waiting'[d]
      BY DEF WaitersAreCounted
    <2>2. CASE d = c
      BY <1>0, <2>1, <2>2, FS_EmptySet DEF Waiters, Present
    <2>3. CASE d # c
      BY <1>0, <2>1, <2>3 DEF Waiters, Present, WaitersAreCounted
    <2> QED BY <2>2, <2>3
  <1>9. ASSUME NEW c \in Id, DeleteCredential(c) PROVE WaitersAreCounted'
    <2>1. /\ status' = [status EXCEPT ![c] = "Absent"]
          /\ waiting' = [waiting EXCEPT ![c] = 0]
          /\ recycled' = recycled /\ waitOn' = waitOn
      BY <1>9 DEF DeleteCredential, reqVars
    <2>2. ASSUME NEW d \in (Present \ recycled)'
          PROVE  d \in Present \ recycled /\ waiting'[d] = waiting[d]
      BY <1>0, <2>1, <2>2 DEF Present
    <2> QED BY <2>1, <2>2 DEF WaitersAreCounted, Waiters
  \* Every other step leaves both sides alone.
  <1>10. ASSUME UNCHANGED <<waiting, waitOn>> PROVE WaitersAreCounted'
    <2>1. \/ (Present \ recycled)' \subseteq Present \ recycled
          \/ \E m \in Limits, p \in Priorities : AddCredential(m, p)
          \/ \E c \in Id : DeleteCredential(c)
      BY SlotSteps DEF SlotTaken, SlotGivenBack, SlotsUntouched, Present
    <2> QED BY <1>2, <1>8, <1>9, <1>10, <2>1
  <1>11. ASSUME NEW r \in Request,
                \/ Arrive(r) \/ Attempt(r) \/ LookupAffinity(r) \/ TryBound(r)
                \/ StickyGate(r) \/ StickyPoll(r) \/ Forget(r) \/ ReadMode(r) \/ Reserve(r)
                \/ Settle(r) \/ Point(r) \/ Autoheal(r) \/ TokenOk(r)
                \/ RefreshFails(r) \/ RefreshRejects(r) \/ Remember(r) \/ Bind(r)
                \/ CallTokenReplaced(r) \/ ReportRefreshFailure(r)
                \/ ReportRefreshTokenInvalid(r) \/ Purge(r) \/ CallSucceeds(r)
                \/ CallRejected(r) \/ CallOutOfQuota(r) \/ CallFails(r) \/ Release(r)
                \/ CancelHolder(r)
         PROVE  WaitersAreCounted'
    <2>1. UNCHANGED <<waiting, waitOn>>
      BY <1>11 DEF Arrive, Attempt, LookupAffinity, TryBound, StickyGate, StickyPoll,
         Forget, ReadMode, Reserve, Settle, Point, Autoheal, TokenOk, RefreshFails, RefreshRejects,
         TokenError, Remember, Bind, CallTokenReplaced, ReportRefreshFailure, ReportRefreshTokenInvalid, Purge,
         CallSucceeds, CallRejected, CallOutOfQuota, CallFails, Release, CancelHolder
    <2> QED BY <1>10, <2>1
  <1>12. ASSUME AdminStep \/ \E s \in Session : AffinityExpires(s)
         PROVE  WaitersAreCounted'
    <2>1. UNCHANGED <<waiting, waitOn>>
      BY <1>12, RequestsUntouched DEF reqVars, AdminStep, AdminDisable, AdminPurge,
         AdminSwitch, AdminSelect, AdminZero, AdminClearAffinity, AdminPersistMode,
         AffinityExpires
    <2> QED BY <1>10, <2>1
  <1>13. ASSUME AdminCall PROVE WaitersAreCounted'
    <2>1. CASE \/ \E c \in Id : \/ StartDisable(c) \/ AdminEnable(c) \/ AdminReset(c)
                                \/ AdminRefresh(c)
                                \/ \E p \in Priorities : AdminSetPriority(c, p)
               \/ \E S \in SUBSET Present, m \in Limits : AdminSetLimit(S, m)
               \/ AdminSetMode
      <3>1. UNCHANGED <<waiting, waitOn>>
        BY <2>1 DEF reqVars, StartDisable, AdminEnable, AdminReset, SwitchOn, AdminRefresh,
           AdminSetPriority, AdminSetLimit, AdminSetMode
      <3> QED BY <1>10, <3>1
    <2> QED BY <1>8, <1>9, <1>13, <2>1 DEF AdminCall
  <1>14. CASE UNCHANGED vars
    BY <1>10, <1>14 DEF vars, reqVars
  <1> QED
    BY <1>3, <1>5, <1>6, <1>7, <1>11, <1>12, <1>13, <1>14, NextCases DEF RequestStep

\* The gate of wait_for_sticky never sees fewer waiters than there are.
THEOREM WaitersSafe == Spec => []WaitersAreCounted
  <1>1. Init => WaitersAreCounted
    <2> SUFFICES ASSUME Init, NEW c \in Present PROVE waiting[c] = 0 /\ Waiters(c) = {}
      BY FS_EmptySet DEF WaitersAreCounted
    <2> QED BY DEF Init, Waiters, Id, None, Present
  <1>2. TypeOK /\ OwnershipInv /\ WaitersAreCounted /\ [Next]_vars => WaitersAreCounted'
    BY WaitingStep
  <1> QED BY <1>1, <1>2, TypeAndOwnership, PTL DEF Spec
=============================================================================
