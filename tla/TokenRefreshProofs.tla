------------------------- MODULE TokenRefreshProofs -------------------------
(* Proofs about TokenRefresh, for all values of its constants.             *)
EXTENDS TokenRefresh, TLAPS

\* A task that refreshes holds refresh_lock, and only a call under way holds it.
LockOwned ==
  /\ \A t \in Task : pc[t] \in {"send", "store"} => lock = t
  /\ lock # NoTask => pc[lock] \in {"send", "store", "collect", "write", "fill"}

LEMMA InitType == Init => TypeOK /\ LockOwned
<1> SUFFICES ASSUME Init PROVE TypeOK /\ LockOwned
  OBVIOUS
<1> USE RefreshAssumption
<1>1. IsFile(stored) /\ IsFile(file)
  BY DEF Init, IsFile, Credential
<1>2. on \in [Task -> Cred]
  BY DEF Init
<1>3. snap \in [Task -> Credential]
  BY DEF Init, Blank, Credential
<1>4. image = [t \in Task |-> image[t]] /\ \A t \in Task : IsFile(image[t])
  BY DEF Init, Empty, IsFile
<1>5. pc \in [Task -> PC]
  BY DEF Init, PC
<1> QED
  BY <1>1, <1>2, <1>3, <1>4, <1>5 DEF Init, TypeOK, LockOwned

\* Copies of a file that stay files.
LEMMA FileUpdate ==
  ASSUME NEW f, IsFile(f)
  PROVE  /\ \A c \in DOMAIN f : f[c] \in Credential /\ c \in Cred
         /\ \A c \in DOMAIN f : IsFile([f EXCEPT ![c].settings = @ + 1])
         /\ \A c \in DOMAIN f : IsFile([d \in DOMAIN f \ {c} |-> f[d]])
         /\ \A c \in Cred, x \in Credential :
              IsFile([d \in DOMAIN f |-> IF d = c THEN x ELSE f[d]])
<1>1. \A c \in DOMAIN f : f[c] \in Credential /\ c \in Cred
  BY DEF IsFile
<1>2. ASSUME NEW c \in DOMAIN f
      PROVE  IsFile([f EXCEPT ![c].settings = @ + 1])
  <2>1. f[c] \in Credential
    BY <1>1
  <2>2. [f[c] EXCEPT !.settings = @ + 1] \in Credential
    BY <2>1 DEF Credential
  <2>3. [f EXCEPT ![c].settings = @ + 1] = [f EXCEPT ![c] = [f[c] EXCEPT !.settings = @ + 1]]
    BY DEF IsFile
  <2> QED
    BY <2>2, <2>3 DEF IsFile
<1> QED
  BY <1>1, <1>2 DEF IsFile

\* Local variables are given up.
LEMMA EndType ==
  ASSUME TypeOK, NEW t \in Task, NEW l \in PC, End(t, l)
  PROVE  /\ pc' \in [Task -> PC]
         /\ lock' \in Task \cup {NoTask}
         /\ snap' \in [Task -> Credential]
         /\ tries' \in [Task -> Nat]
<1>1. Blank \in Credential
  BY DEF Blank, Credential
<1> QED
  BY <1>1 DEF End, Goto, Released, TypeOK

LEMMA AfterWriteType ==
  ASSUME TypeOK, NEW t \in Task, NEW ok \in BOOLEAN, AfterWrite(t, ok)
  PROVE  /\ pc' \in [Task -> PC]
         /\ lock' \in Task \cup {NoTask}
         /\ earlier' \in [Task -> SUBSET Task]
         /\ late' \subseteq Task
         /\ image' = [u \in Task |-> image'[u]] /\ \A u \in Task : IsFile(image'[u])
<1>1. IsFile(Empty)
  BY DEF Empty, IsFile
<1>2. pc' \in [Task -> PC]
  BY DEF AfterWrite, Goto, TypeOK, PC, Ended
<1>3. lock' \in Task \cup {NoTask}
  BY DEF AfterWrite, Released, TypeOK
<1>4. earlier' \in [Task -> SUBSET Task] /\ late' \subseteq Task
  BY DEF AfterWrite, TypeOK
<1>5. image' = [u \in Task |-> image'[u]] /\ \A u \in Task : IsFile(image'[u])
  BY <1>1 DEF AfterWrite, TypeOK
<1> QED
  BY <1>2, <1>3, <1>4, <1>5

LEMMA TypeStep ==
  ASSUME TypeOK, [Next]_vars
  PROVE  TypeOK'
<1> USE RefreshAssumption
<1> USE DEF Refreshing, Present
<1>1. ASSUME NEW t \in Task, ReadSnapshot(t)
      PROVE  TypeOK'
  <2>1. PICK c \in Present : /\ on' = [on EXCEPT ![t] = c]
                             /\ snap' = [snap EXCEPT ![t] = stored[c]] \/ snap' = snap
    BY <1>1 DEF ReadSnapshot
  <2>2. c \in Cred /\ stored[c] \in Credential
    BY FileUpdate DEF TypeOK
  <2>3. on' \in [Task -> Cred] /\ snap' \in [Task -> Credential]
    BY <2>1, <2>2 DEF TypeOK
  <2>4. pc' \in [Task -> PC]
    BY <1>1 DEF ReadSnapshot, Goto, Refreshed, TypeOK, PC, Ended
  <2> QED
    BY <1>1, <2>3, <2>4 DEF ReadSnapshot, TypeOK, history
<1>2. ASSUME NEW t \in Task, LockForced(t)
      PROVE  TypeOK'
  BY <1>2 DEF LockForced, Goto, TypeOK, PC, history
<1>3. ASSUME NEW t \in Task, LockDue(t)
      PROVE  TypeOK'
  <2>1. stored[on[t]] \in Credential
    BY <1>3, FileUpdate DEF LockDue, TypeOK
  <2> QED
    BY <1>3, <2>1 DEF LockDue, Reread, Goto, TypeOK, PC, history
<1>4. ASSUME NEW t \in Task, LockNotDue(t)
      PROVE  TypeOK'
  <2>1. End(t, Refreshed(t)) \/ End(t, "failed")
    BY <1>4 DEF LockNotDue
  <2>2. Refreshed(t) \in PC /\ "failed" \in PC
    BY DEF Refreshed, PC, Ended
  <2>3. /\ pc' \in [Task -> PC]
        /\ lock' \in Task \cup {NoTask}
        /\ snap' \in [Task -> Credential]
        /\ tries' \in [Task -> Nat]
    BY <2>1, <2>2, EndType
  <2> QED
    BY <1>4, <2>3 DEF LockNotDue, TypeOK, history
<1>5. ASSUME NEW t \in Task, Granted(t)
      PROVE  TypeOK'
  <2>1. PICK r \in {valid[on[t]], valid[on[t]] + 1},
             e \in {snap[t].exp} \cup {clock + d : d \in Lifetimes} :
          /\ valid' = [valid EXCEPT ![on[t]] = r]
          /\ \/ /\ lost' = IF r # valid[on[t]] THEN lost \cup {on[t]} ELSE lost
                /\ End(t, "failed")
             \/ /\ snap' = [snap EXCEPT ![t] = Answer(snap[t], r, e)]
                /\ Goto(t, "store")
                /\ UNCHANGED <<lock, lost, tries>>
    BY <1>5 DEF Granted
  <2>2. r \in Nat /\ e \in Nat /\ on[t] \in Cred /\ snap[t] \in Credential
    BY <1>5 DEF TypeOK, Credential
  <2>3. Answer(snap[t], r, e) \in Credential
    BY <2>2 DEF Answer, Credential
  <2>4. valid' \in [Cred -> Nat] /\ lost' \subseteq Cred
    BY <2>1, <2>2 DEF TypeOK
  <2>5. /\ pc' \in [Task -> PC]
        /\ lock' \in Task \cup {NoTask}
        /\ snap' \in [Task -> Credential]
        /\ tries' \in [Task -> Nat]
    <3>1. CASE End(t, "failed")
      BY <3>1, EndType DEF PC, Ended
    <3>2. CASE /\ snap' = [snap EXCEPT ![t] = Answer(snap[t], r, e)]
               /\ Goto(t, "store")
               /\ UNCHANGED <<lock, lost, tries>>
      BY <3>2, <2>3 DEF Goto, TypeOK, PC
    <3> QED
      BY <2>1, <3>1, <3>2
  <2> QED
    BY <1>5, <2>4, <2>5 DEF Granted, TypeOK
<1>6. ASSUME NEW t \in Task, NextProxy(t)
      PROVE  /\ pc' \in [Task -> PC]
             /\ lock' \in Task \cup {NoTask}
             /\ snap' \in [Task -> Credential]
             /\ tries' \in [Task -> Nat]
  <2>1. CASE End(t, "failed")
    BY <2>1, EndType DEF PC, Ended
  <2>2. CASE /\ tries' = [tries EXCEPT ![t] = @ + 1]
             /\ UNCHANGED <<pc, lock, snap>>
    BY <2>2 DEF TypeOK
  <2> QED
    BY <1>6, <2>1, <2>2 DEF NextProxy
<1>7. ASSUME NEW t \in Task, GrantLost(t)
      PROVE  TypeOK'
  <2>1. on[t] \in Cred /\ valid[on[t]] \in Nat
    BY <1>7 DEF TypeOK
  <2>2. valid' \in [Cred -> Nat] /\ lost' \subseteq Cred
    BY <1>7, <2>1 DEF GrantLost, TypeOK
  <2> QED
    BY <1>6, <1>7, <2>2 DEF GrantLost, TypeOK
<1>8. ASSUME NEW t \in Task, NotGranted(t)
      PROVE  TypeOK'
  BY <1>6, <1>8 DEF NotGranted, TypeOK, history
<1>9. ASSUME NEW t \in Task, Store(t)
      PROVE  TypeOK'
  <2>1. Blank \in Credential
    BY DEF Blank, Credential
  <2>2. IsFile(Overwritten(t))
    BY FileUpdate DEF TypeOK, Overwritten
  <2> QED
    BY <1>9, <2>1, <2>2 DEF Store, Saved, Goto, TypeOK, PC, history
<1>10. ASSUME NEW t \in Task, LimitsRead(t) \/ LimitsFail(t)
       PROVE  TypeOK'
  BY <1>10 DEF LimitsRead, LimitsFail, Goto, TypeOK, PC, Ended, history
<1>11. ASSUME NEW t \in Task, LimitsAnswered(t) \/ Edit(t) \/ Delete(t)
       PROVE  TypeOK'
  <2>1. \A c \in Present : IsFile(Edited(c)) /\ IsFile([d \in Present \ {c} |-> stored[d]])
    BY FileUpdate DEF TypeOK, Edited
  <2>2. IsFile(stored')
    <3>1. \/ \E c \in Present : stored' = Edited(c)
          \/ \E c \in Present : stored' = [d \in Present \ {c} |-> stored[d]]
          \/ stored' = stored
      BY <1>11 DEF LimitsAnswered, Edit, Delete
    <3>2. IsFile(stored)
      BY DEF TypeOK
    <3> QED
      BY <2>1, <3>1, <3>2
  <2>3. pc' \in [Task -> PC]
    BY <1>11 DEF LimitsAnswered, Edit, Delete, Saved, Goto, TypeOK, PC, Ended
  <2> QED
    BY <1>11, <2>2, <2>3 DEF LimitsAnswered, Edit, Delete, TypeOK, history
<1>12. ASSUME NEW t \in Task, Collect(t)
       PROVE  TypeOK'
  BY <1>12 DEF Collect, Goto, TypeOK, PC
<1>13. ASSUME NEW t \in Task, Truncate(t)
       PROVE  TypeOK'
  <2>1. IsFile(Empty)
    BY DEF Empty, IsFile
  <2> QED
    BY <1>13, <2>1 DEF Truncate, Goto, TypeOK, PC, history
<1>14. ASSUME NEW t \in Task, Fill(t)
       PROVE  TypeOK'
  <2>1. file' = Torn \/ IsFile(file')
    BY <1>14 DEF Fill, TypeOK
  <2>2. fileIs' \in {"newest", "outdated"}
    BY <1>14 DEF Fill
  <2> QED
    BY <1>14, <2>1, <2>2, AfterWriteType DEF Fill, TypeOK
<1>15. ASSUME NEW t \in Task, WriteFails(t)
       PROVE  TypeOK'
  BY <1>15, AfterWriteType DEF WriteFails, TypeOK
<1>16. ASSUME NEW t \in Task, Cancel(t)
       PROVE  TypeOK'
  <2>1. on[t] \in Cred /\ valid[on[t]] \in Nat
    BY <1>16 DEF TypeOK
  <2>2. valid' \in [Cred -> Nat] /\ lost' \subseteq Cred
    BY <1>16, <2>1 DEF Cancel, TypeOK
  <2>3. End(t, "failed") /\ "failed" \in PC
    BY <1>16 DEF Cancel, PC, Ended
  <2> QED
    BY <1>16, <2>2, <2>3, EndType DEF Cancel, TypeOK
<1>17. CASE Tick
  BY <1>17 DEF Tick, TypeOK, taskVars, history
<1>18. CASE Restart
  <2>1. Blank \in Credential /\ IsFile(Empty)
    BY DEF Blank, Credential, Empty, IsFile
  <2>2. IsFile(file) /\ lost' \subseteq Cred
    BY <1>18, FileUpdate DEF Restart, TypeOK
  <2>3. pc' \in [Task -> PC]
    BY <1>18 DEF Restart, TypeOK, PC, Ended
  <2>4. image' = [u \in Task |-> image'[u]] /\ \A u \in Task : IsFile(image'[u])
    BY <1>18, <2>1 DEF Restart
  <2>5. IsFile(stored') /\ IsFile(file')
    BY <1>18, <2>2 DEF Restart
  <2>6. snap' \in [Task -> Credential] /\ tries' \in [Task -> Nat]
    BY <1>18, <2>1 DEF Restart
  <2>7. /\ earlier' \in [Task -> SUBSET Task]
        /\ late' \subseteq Task
        /\ fileIs' \in {"newest", "outdated"}
        /\ lock' \in Task \cup {NoTask}
    BY <1>18 DEF Restart
  <2>9. crashes' \in Nat
    BY <1>18 DEF Restart, TypeOK
  <2>8. /\ valid' \in [Cred -> Nat]
        /\ clock' \in Nat
        /\ kind' \in [Task -> Kind]
        /\ on' \in [Task -> Cred]
    BY <1>18 DEF Restart, TypeOK
  <2> QED
    BY <2>2, <2>3, <2>4, <2>5, <2>6, <2>7, <2>8, <2>9 DEF TypeOK
<1>19. CASE UNCHANGED vars
  BY <1>19 DEF vars, TypeOK, taskVars, history
<1> QED
  BY <1>1, <1>2, <1>3, <1>4, <1>5, <1>7, <1>8, <1>9, <1>10, <1>11, <1>12, <1>13, <1>14,
     <1>15, <1>16, <1>17, <1>18, <1>19 DEF Next, Continue

-----------------------------------------------------------------------------
(* refresh_lock *)

Window == {"send", "store", "collect", "write", "fill"}

\* A section of t that keeps the lock as it is, takes it, or drops it.
LEMMA LockClasses ==
  ASSUME TypeOK, LockOwned, NEW t \in Task, NEW l, Goto(t, l),
         \/ /\ lock' = lock
            /\ l \in {"send", "store"} => lock = t
            /\ lock = t => l \in Window
         \/ lock = NoTask /\ lock' = t /\ l = "send"
         \/ Released(t) /\ l \notin {"send", "store"}
  PROVE  LockOwned'
<1> USE RefreshAssumption
<1>1. /\ pc'[t] = l
      /\ \A u \in Task \ {t} : pc'[u] = pc[u]
  BY DEF Goto, TypeOK
<1>2. ASSUME NEW u \in Task, pc'[u] \in {"send", "store"}
      PROVE  lock' = u
  BY <1>1, <1>2 DEF LockOwned, Released
<1>3. lock' # NoTask => pc'[lock'] \in Window
  BY <1>1 DEF LockOwned, Released, TypeOK, Window
<1> QED
  BY <1>2, <1>3 DEF LockOwned, Window

LEMMA LockStep ==
  ASSUME TypeOK, LockOwned, [Next]_vars
  PROVE  LockOwned'
<1> USE RefreshAssumption DEF Window
<1>1. ASSUME NEW t \in Task, pc[t] \notin Window
      PROVE  lock # t
  BY <1>1 DEF LockOwned
<1>2. ASSUME NEW t \in Task,
             \/ ReadSnapshot(t) \/ LimitsRead(t) \/ LimitsFail(t) \/ LimitsAnswered(t)
             \/ Edit(t) \/ Delete(t)
      PROVE  LockOwned'
  <2>1. pc[t] \notin Window /\ lock' = lock
    BY <1>2 DEF ReadSnapshot, LimitsRead, LimitsFail, LimitsAnswered, Edit, Delete
  <2>2. PICK l \in {"lock", "limits", "done", "query", "failed", "collect"} : Goto(t, l)
    BY <1>2 DEF ReadSnapshot, Refreshed, LimitsRead, LimitsFail, LimitsAnswered, Edit,
                Delete, Saved
  <2> QED
    BY <1>1, <2>1, <2>2, LockClasses
<1>3. ASSUME NEW t \in Task, LockForced(t) \/ LockDue(t)
      PROVE  LockOwned'
  <2>1. lock = NoTask /\ lock' = t /\ Goto(t, "send")
    BY <1>3 DEF LockForced, LockDue
  <2> QED
    BY <2>1, LockClasses
<1>4. ASSUME NEW t \in Task, NEW l \in {"limits", "done", "failed"},
             Goto(t, l), Released(t)
      PROVE  LockOwned'
  BY <1>4, LockClasses
<1>5. ASSUME NEW t \in Task, LockNotDue(t) \/ Cancel(t)
      PROVE  LockOwned'
  <2>1. PICK l \in {"limits", "done", "failed"} : Goto(t, l) /\ Released(t)
    BY <1>5 DEF LockNotDue, Refreshed, Cancel, End
  <2> QED
    BY <1>4, <2>1
<1>6. ASSUME NEW t \in Task, NextProxy(t)
      PROVE  LockOwned'
  <2>1. CASE End(t, "failed")
    BY <1>4, <2>1 DEF End
  <2>2. CASE UNCHANGED <<pc, lock>>
    BY <2>2 DEF LockOwned
  <2> QED
    BY <1>6, <2>1, <2>2 DEF NextProxy
<1>7. ASSUME NEW t \in Task, Granted(t)
      PROVE  LockOwned'
  <2>1. pc[t] = "send" /\ lock = t
    BY <1>7 DEF Granted, LockOwned
  <2>2. CASE End(t, "failed")
    BY <1>4, <2>2 DEF End
  <2>3. CASE Goto(t, "store") /\ lock' = lock
    BY <2>1, <2>3, LockClasses
  <2> QED
    BY <1>7, <2>2, <2>3 DEF Granted
<1>8. ASSUME NEW t \in Task, GrantLost(t) \/ NotGranted(t)
      PROVE  LockOwned'
  BY <1>6, <1>8 DEF GrantLost, NotGranted
<1>9. ASSUME NEW t \in Task, Store(t) \/ Collect(t) \/ Truncate(t)
      PROVE  LockOwned'
  <2>1. lock' = lock
    BY <1>9 DEF Store, Collect, Truncate
  <2>2. PICK l \in {"collect", "write", "fill"} : Goto(t, l)
    BY <1>9 DEF Store, Saved, Collect, Truncate
  <2> QED
    BY <2>1, <2>2, LockClasses
<1>10. ASSUME NEW t \in Task, Fill(t) \/ WriteFails(t)
       PROVE  LockOwned'
  <2>1. AfterWrite(t, TRUE) \/ AfterWrite(t, FALSE)
    BY <1>10 DEF Fill, WriteFails
  <2>2. PICK l \in {"limits", "done", "failed"} : Goto(t, l) /\ Released(t)
    BY <2>1 DEF AfterWrite
  <2> QED
    BY <1>4, <2>2
<1>11. CASE Tick
  BY <1>11 DEF Tick, taskVars, LockOwned
<1>12. CASE Restart
  <2>1. \A t \in Task : pc'[t] \notin {"send", "store"}
    BY <1>12 DEF Restart
  <2>2. lock' = NoTask
    BY <1>12 DEF Restart
  <2> QED
    BY <2>1, <2>2 DEF LockOwned
<1>13. CASE UNCHANGED vars
  BY <1>13 DEF vars, taskVars, LockOwned
<1> QED
  BY <1>2, <1>3, <1>5, <1>7, <1>8, <1>9, <1>10, <1>11, <1>12, <1>13 DEF Next, Continue

\* The state keeps its types, and refresh_lock is held by the one task that sends or
\* stores a refresh (the scope of _guard in try_ensure_token and its siblings).
THEOREM RefreshTypes == Spec => [](TypeOK /\ LockOwned)
<1>1. Init => TypeOK /\ LockOwned
  BY InitType
<1>2. TypeOK /\ LockOwned /\ [Next]_vars => (TypeOK /\ LockOwned)'
  BY TypeStep, LockStep
<1> QED
  BY <1>1, <1>2, PTL DEF Spec

-----------------------------------------------------------------------------
(* The double check *)

TaskStep(t) == ReadSnapshot(t) \/ Edit(t) \/ Delete(t) \/ Continue(t) \/ Cancel(t)

\* A step of one task leaves the others where they are.
LEMMA Frame ==
  ASSUME TypeOK, NEW t \in Task, TaskStep(t)
  PROVE  /\ \A u \in Task \ {t} : /\ pc'[u] = pc[u]
                                  /\ snap'[u] = snap[u]
                                  /\ on'[u] = on[u]
         /\ kind' = kind /\ clock' = clock
<1> USE DEF TypeOK, Goto, End, Saved, history
<1>1. CASE ReadSnapshot(t)
  BY <1>1 DEF ReadSnapshot
<1>2. CASE Edit(t) \/ Delete(t) \/ Cancel(t)
  BY <1>2 DEF Edit, Delete, Cancel
<1>3. CASE LockForced(t) \/ LockDue(t) \/ LockNotDue(t)
  BY <1>3 DEF LockForced, LockDue, LockNotDue
<1>4. CASE Granted(t)
  BY <1>4 DEF Granted
<1>5. CASE GrantLost(t) \/ NotGranted(t)
  BY <1>5 DEF GrantLost, NotGranted, NextProxy
<1>6. CASE Store(t) \/ LimitsRead(t) \/ LimitsFail(t) \/ LimitsAnswered(t)
  BY <1>6 DEF Store, LimitsRead, LimitsFail, LimitsAnswered
<1>7. CASE Collect(t) \/ Truncate(t) \/ Fill(t) \/ WriteFails(t)
  BY <1>7 DEF Collect, Truncate, Fill, WriteFails, AfterWrite
<1> QED
  BY <1>1, <1>2, <1>3, <1>4, <1>5, <1>6, <1>7 DEF TaskStep, Continue

\* An entry that is edited keeps its tokens.
LEMMA EditKeepsTokens ==
  ASSUME TypeOK, NEW c \in Present
  PROVE  /\ DOMAIN Edited(c) = Present
         /\ \A d \in Present : /\ Edited(c)[d].rt = stored[d].rt
                               /\ Edited(c)[d].exp = stored[d].exp
<1>1. stored[c] \in Credential
  BY FileUpdate DEF TypeOK, Present
<1>2. Edited(c) = [stored EXCEPT ![c] = [stored[c] EXCEPT !.settings = @ + 1]]
  BY DEF Edited
<1>3. /\ [stored[c] EXCEPT !.settings = @ + 1].rt = stored[c].rt
      /\ [stored[c] EXCEPT !.settings = @ + 1].exp = stored[c].exp
  BY <1>1 DEF Credential
<1> QED
  BY <1>2, <1>3 DEF Present, TypeOK, IsFile

SameTokens ==
  \A c \in DOMAIN stored' : /\ c \in Present
                            /\ stored'[c].rt = stored[c].rt
                            /\ stored'[c].exp = stored[c].exp

\* Only Store changes the tokens of an entry.
LEMMA TokensChange ==
  ASSUME TypeOK, NEW t \in Task, TaskStep(t), ~Store(t)
  PROVE  SameTokens
<1>1. ASSUME NEW c \in Present, stored' = Edited(c)
      PROVE  SameTokens
  BY <1>1, EditKeepsTokens DEF SameTokens
<1>2. ASSUME NEW c \in Present, stored' = [d \in Present \ {c} |-> stored[d]]
      PROVE  SameTokens
  BY <1>2 DEF SameTokens
<1>3. ASSUME stored' = stored
      PROVE  SameTokens
  BY <1>3 DEF SameTokens, Present
<1>4. CASE Edit(t) \/ Delete(t) \/ LimitsAnswered(t)
  BY <1>1, <1>2, <1>3, <1>4 DEF Edit, Delete, LimitsAnswered
<1>5. CASE ReadSnapshot(t) \/ Cancel(t) \/ LockForced(t) \/ LockDue(t) \/ LockNotDue(t)
  BY <1>3, <1>5 DEF ReadSnapshot, Cancel, LockForced, LockDue, LockNotDue
<1>6. CASE Granted(t) \/ GrantLost(t) \/ NotGranted(t) \/ LimitsRead(t) \/ LimitsFail(t)
  BY <1>3, <1>6 DEF Granted, GrantLost, NotGranted, LimitsRead, LimitsFail
<1>7. CASE Collect(t) \/ Truncate(t) \/ Fill(t) \/ WriteFails(t)
  BY <1>3, <1>7 DEF Collect, Truncate, Fill, WriteFails
<1> QED
  BY <1>4, <1>5, <1>6, <1>7 DEF TaskStep, Continue

\* Only the two sections under the lock send; an attempt through the next proxy sends
\* the same snapshot.
LEMMA Sending ==
  ASSUME TypeOK, NEW t \in Task, TaskStep(t), pc'[t] = "send",
         ~LockForced(t), ~LockDue(t)
  PROVE  pc[t] = "send" /\ snap'[t] = snap[t] /\ on'[t] = on[t]
<1> USE DEF TypeOK, Goto, End, Saved, history
<1>1. ~ReadSnapshot(t) /\ ~Edit(t) /\ ~Delete(t) /\ ~Cancel(t)
  BY DEF ReadSnapshot, Refreshed, Edit, Delete, Cancel
<1>2. ~LockNotDue(t) /\ ~Granted(t) /\ ~Store(t)
  BY DEF LockNotDue, Refreshed, Granted, Store
<1>3. ~LimitsRead(t) /\ ~LimitsFail(t) /\ ~LimitsAnswered(t)
  BY DEF LimitsRead, LimitsFail, LimitsAnswered
<1>4. ~Collect(t) /\ ~Truncate(t) /\ ~Fill(t) /\ ~WriteFails(t)
  BY DEF Collect, Truncate, Fill, WriteFails, AfterWrite
<1>5. CASE GrantLost(t) \/ NotGranted(t)
  BY <1>5 DEF GrantLost, NotGranted, NextProxy
<1> QED
  BY <1>1, <1>2, <1>3, <1>4, <1>5 DEF TaskStep, Continue

LEMMA DueStep ==
  ASSUME TypeOK, LockOwned, RefreshIsDue, [Next]_vars
  PROVE  RefreshIsDue'
<1> USE RefreshAssumption
<1>1. ASSUME NEW t \in Task, TaskStep(t)
      PROVE  RefreshIsDue'
  <2> SUFFICES ASSUME NEW u \in Task, pc'[u] = "send", kind'[u] # "force",
                      on'[u] \in DOMAIN stored'
               PROVE  /\ NeedsRefresh(stored[on[u]])'
                      /\ stored'[on'[u]].rt = snap'[u].rt
    BY DEF RefreshIsDue, Present
  <2>1. CASE LockDue(t) /\ u = t
    <3>1. /\ NeedsRefresh(stored[on[t]])
          /\ snap' = [snap EXCEPT ![t] = stored[on[t]]]
          /\ UNCHANGED <<stored, clock, on>>
      BY <2>1 DEF LockDue, Reread
    <3>2. NeedsRefresh(stored[on[t]])'
      BY <3>1 DEF NeedsRefresh, Expired, ExpiringSoon
    <3>3. stored'[on'[t]].rt = snap'[t].rt
      BY <3>1 DEF TypeOK
    <3> QED
      BY <2>1, <3>2, <3>3
  <2>2. CASE ~(LockDue(t) /\ u = t)
    <3>1. ~(LockForced(t) /\ u = t)
      BY DEF LockForced
    <3>2. pc[u] = "send" /\ snap'[u] = snap[u] /\ on'[u] = on[u]
      BY <1>1, <2>2, <3>1, Frame, Sending
    <3>3. ~Store(t)
      BY <3>2, Frame, <1>1 DEF Store, LockOwned
    <3>4. SameTokens
      BY <1>1, <3>3, TokensChange
    <3>5. kind' = kind /\ clock' = clock
      BY <1>1, Frame
    <3>6. NeedsRefresh(stored[on[u]]) /\ stored[on[u]].rt = snap[u].rt
      BY <3>2, <3>4, <3>5 DEF RefreshIsDue, SameTokens
    <3>7. NeedsRefresh(stored[on[u]])'
      BY <3>2, <3>4, <3>5, <3>6 DEF SameTokens, NeedsRefresh, Expired, ExpiringSoon
    <3> QED
      BY <3>2, <3>4, <3>6, <3>7 DEF SameTokens
  <2> QED
    BY <2>1, <2>2
<1>2. CASE Tick
  <2>1. /\ UNCHANGED <<stored, pc, on, snap, kind>>
        /\ clock' = clock + 1
    BY <1>2 DEF Tick, taskVars
  <2>2. \A c \in Present : stored[c].exp \in Nat
    BY FileUpdate DEF TypeOK, Credential, Present
  <2>3. \A c \in Present : NeedsRefresh(stored[c]) => NeedsRefresh(stored[c])'
    BY <2>1, <2>2 DEF NeedsRefresh, Expired, ExpiringSoon, TypeOK
  <2> QED
    BY <2>1, <2>3 DEF RefreshIsDue, Present
<1>3. CASE Restart
  <2>1. \A t \in Task : pc'[t] # "send"
    BY <1>3 DEF Restart
  <2> QED
    BY <2>1 DEF RefreshIsDue
<1>4. CASE UNCHANGED vars
  BY <1>4 DEF vars, taskVars, RefreshIsDue, Present, NeedsRefresh, Expired, ExpiringSoon
<1> QED
  BY <1>1, <1>2, <1>3, <1>4 DEF Next, TaskStep

\* While ensure or usage refreshes, the entry still needs it and still has the token that
\* is sent: the second check under refresh_lock is enough.
THEOREM RefreshIsDueHolds == Spec => []RefreshIsDue
<1>1. Init => RefreshIsDue
  BY DEF Init, RefreshIsDue
<1>2. TypeOK /\ LockOwned /\ RefreshIsDue /\ [Next]_vars => RefreshIsDue'
  BY DueStep
<1> QED
  BY <1>1, <1>2, RefreshTypes, PTL DEF Spec

-----------------------------------------------------------------------------
(* The refresh token kept is the one the upstream accepts *)

\* A refresh that is about to be stored has the newest token.
StoreIsNewest ==
  \A t \in Task : pc[t] = "store" => snap[t].rt = valid[on[t]]

\* The upstream changes the token of the credential a task refreshes; the task then has
\* the new token, or it is lost.
LEMMA ValidChange ==
  ASSUME TypeOK, NEW t \in Task, TaskStep(t)
  PROVE  /\ lost \subseteq lost'
         /\ pc[t] = "send" \/ valid' = valid
         /\ \A c \in Cred \ {on[t]} : valid'[c] = valid[c]
         /\ \/ valid' = valid
            \/ on[t] \in lost'
            \/ pc'[t] = "store"
         /\ pc'[t] = "store" => on'[t] = on[t] /\ snap'[t].rt = valid'[on[t]]
<1> USE DEF TypeOK, Goto, Saved, history
<1>1. CASE Granted(t)
  <2>1. PICK r \in {valid[on[t]], valid[on[t]] + 1},
             e \in {snap[t].exp} \cup {clock + d : d \in Lifetimes} :
          /\ valid' = [valid EXCEPT ![on[t]] = r]
          /\ \/ /\ lost' = IF r # valid[on[t]] THEN lost \cup {on[t]} ELSE lost
                /\ End(t, "failed")
             \/ /\ snap' = [snap EXCEPT ![t] = Answer(snap[t], r, e)]
                /\ Goto(t, "store")
                /\ UNCHANGED <<lock, lost, tries>>
    BY <1>1 DEF Granted
  <2>2. pc[t] = "send" /\ on' = on
    BY <1>1 DEF Granted
  <2>3. Answer(snap[t], r, e).rt = r
    BY DEF Answer, Credential
  <2>4. on[t] \in Cred /\ valid'[on[t]] = r /\ lost \subseteq lost'
    BY <2>1
  <2>5. \A c \in Cred \ {on[t]} : valid'[c] = valid[c]
    BY <2>1
  <2>6. CASE End(t, "failed")
    <3>1. pc'[t] = "failed"
      BY <2>6 DEF End
    <3>2. lost' = IF r # valid[on[t]] THEN lost \cup {on[t]} ELSE lost
      BY <2>1, <3>1
    <3>3. r = valid[on[t]] => valid' = valid
      BY <2>1
    <3> QED
      BY <2>2, <2>4, <2>5, <3>1, <3>2, <3>3
  <2>7. CASE snap' = [snap EXCEPT ![t] = Answer(snap[t], r, e)] /\ Goto(t, "store")
    <3>1. pc'[t] = "store" /\ snap'[t].rt = r
      BY <2>3, <2>7
    <3> QED
      BY <2>2, <2>4, <2>5, <3>1
  <2> QED
    BY <2>1, <2>6, <2>7
<1>2. CASE GrantLost(t)
  BY <1>2 DEF GrantLost, NextProxy, End
<1>3. CASE Cancel(t)
  BY <1>3 DEF Cancel, End
<1>4. CASE NotGranted(t)
  BY <1>4 DEF NotGranted, NextProxy, End
<1>5. CASE ReadSnapshot(t) \/ Edit(t) \/ Delete(t)
  BY <1>5 DEF ReadSnapshot, Refreshed, Edit, Delete
<1>6. CASE LockForced(t) \/ LockDue(t) \/ LockNotDue(t)
  BY <1>6 DEF LockForced, LockDue, LockNotDue, Refreshed, End
<1>7. CASE Store(t) \/ LimitsRead(t) \/ LimitsFail(t) \/ LimitsAnswered(t)
  BY <1>7 DEF Store, LimitsRead, LimitsFail, LimitsAnswered
<1>8. CASE Collect(t) \/ Truncate(t)
  BY <1>8 DEF Collect, Truncate
<1>9. CASE Fill(t) \/ WriteFails(t)
  BY <1>9 DEF Fill, WriteFails, AfterWrite
<1> QED
  BY <1>1, <1>2, <1>3, <1>4, <1>5, <1>6, <1>7, <1>8, <1>9 DEF TaskStep, Continue

\* From its answer a refresh goes on to store it.
LEMMA AfterAnswer ==
  ASSUME NEW t \in Task, TaskStep(t), pc[t] = "store"
  PROVE  Store(t)
  BY DEF TaskStep, Continue, ReadSnapshot, Edit, Delete, Cancel, LockForced, LockDue,
         LockNotDue, Granted, GrantLost, NotGranted, LimitsRead, LimitsFail,
         LimitsAnswered, Collect, Truncate, Fill, WriteFails

LEMMA CurrentStep ==
  ASSUME TypeOK, LockOwned, StoreIsNewest, TokensCurrent, [Next]_vars
  PROVE  StoreIsNewest' /\ TokensCurrent'
<1> USE RefreshAssumption
<1>1. ASSUME NEW t \in Task, TaskStep(t)
      PROVE  StoreIsNewest' /\ TokensCurrent'
  <2>1. ASSUME NEW u \in Task, pc[u] = "store", u # t
        PROVE  pc'[u] = "store" /\ on'[u] = on[u] /\ snap'[u] = snap[u] /\ valid' = valid
    <3>1. pc[t] # "send" /\ pc[t] # "store"
      BY <2>1 DEF LockOwned
    <3> QED
      BY <1>1, <2>1, <3>1, Frame, ValidChange
  <2>2. StoreIsNewest'
    <3> SUFFICES ASSUME NEW u \in Task, pc'[u] = "store"
                 PROVE  snap'[u].rt = valid'[on'[u]]
      BY DEF StoreIsNewest
    <3>1. CASE u = t
      BY <1>1, <3>1, ValidChange
    <3>2. CASE u # t
      BY <1>1, <2>1, <3>2, Frame DEF StoreIsNewest
    <3> QED
      BY <3>1, <3>2
  <2>3. CASE Store(t)
    <3>1. /\ valid' = valid /\ lost' = lost /\ pc[t] = "store"
          /\ stored' = [c \in Present |-> IF c = on[t] THEN snap[t] ELSE stored[c]]
      BY <2>3 DEF Store, Overwritten, history
    <3>2. ASSUME NEW c \in DOMAIN stored', c \notin lost'
          PROVE  stored'[c].rt = valid'[c]
      <4>1. \A u \in Task : pc[u] = "store" => u = t
        BY <3>1 DEF LockOwned
      <4>2. snap[t].rt = valid[on[t]]
        BY <3>1 DEF StoreIsNewest
      <4>3. c \in Present \ lost
        BY <3>1, <3>2
      <4>4. CASE c = on[t]
        BY <3>1, <4>2, <4>3, <4>4
      <4>5. CASE c # on[t]
        BY <3>1, <4>1, <4>3, <4>5 DEF TokensCurrent
      <4> QED
        BY <4>4, <4>5
    <3> QED
      BY <2>2, <3>2 DEF TokensCurrent, Present
  <2>4. CASE ~Store(t)
    <3>1. SameTokens /\ pc[t] # "store"
      BY <1>1, <2>4, TokensChange, AfterAnswer
    <3>2. ASSUME NEW c \in DOMAIN stored', c \notin lost'
          PROVE  \/ stored'[c].rt = valid'[c]
                 \/ \E u \in Task : /\ pc'[u] = "store"
                                    /\ on'[u] = c
                                    /\ snap'[u].rt = valid'[c]
      <4>1. c \in Present \ lost /\ stored'[c].rt = stored[c].rt /\ c \in Cred
        BY <1>1, <3>1, <3>2, ValidChange, FileUpdate DEF SameTokens, Present, TypeOK
      <4>2. CASE \E u \in Task : pc[u] = "store" /\ on[u] = c /\ snap[u].rt = valid[c]
        BY <2>1, <3>1, <4>2
      <4>3. CASE stored[c].rt = valid[c]
        <5>1. CASE valid'[c] = valid[c]
          BY <4>1, <4>3, <5>1
        <5>2. CASE valid'[c] # valid[c]
          <6>1. c = on[t]
            BY <1>1, <4>1, <5>2, ValidChange
          <6>2. pc'[t] = "store" /\ on'[t] = c /\ snap'[t].rt = valid'[c]
            BY <1>1, <3>2, <5>2, <6>1, ValidChange
          <6> QED
            BY <6>2
        <5> QED
          BY <5>1, <5>2
      <4> QED
        BY <4>1, <4>2, <4>3 DEF TokensCurrent
    <3> QED
      BY <2>2, <3>2 DEF TokensCurrent, Present
  <2> QED
    BY <2>3, <2>4
<1>2. CASE Tick
  BY <1>2 DEF Tick, taskVars, history, StoreIsNewest, TokensCurrent, Present
<1>3. CASE Restart
  <2>1. \A t \in Task : pc'[t] # "store"
    BY <1>3 DEF Restart
  <2>2. /\ stored' = file /\ valid' = valid
        /\ lost' = {c \in DOMAIN file : file[c].rt # valid[c]}
    BY <1>3 DEF Restart
  <2> QED
    BY <2>1, <2>2 DEF StoreIsNewest, TokensCurrent, Present
<1>4. CASE UNCHANGED vars
  BY <1>4 DEF vars, taskVars, history, StoreIsNewest, TokensCurrent, Present
<1> QED
  BY <1>1, <1>2, <1>3, <1>4 DEF Next, TaskStep

\* No refresh token that the upstream replaced is kept or put back, unless its successor
\* never arrived or was discarded.
THEOREM TokensCurrentHolds == Spec => []TokensCurrent
<1>1. Init => StoreIsNewest /\ TokensCurrent
  BY DEF Init, StoreIsNewest, TokensCurrent, Present
<1>2. TypeOK /\ LockOwned /\ StoreIsNewest /\ TokensCurrent /\ [Next]_vars
        => (StoreIsNewest /\ TokensCurrent)'
  BY CurrentStep
<1> QED
  BY <1>1, <1>2, RefreshTypes, PTL DEF Spec

-----------------------------------------------------------------------------
\* No step but a restart puts a deleted entry back.
THEOREM DeletedStaysDeletedHolds == Spec => DeletedStaysDeleted
<1>1. ASSUME TypeOK, [Next]_vars, crashes' = crashes
      PROVE  DOMAIN stored' \subseteq Present
  <2>1. ASSUME NEW t \in Task, TaskStep(t)
        PROVE  DOMAIN stored' \subseteq Present
    <3>1. CASE Store(t)
      BY <3>1 DEF Store, Overwritten
    <3>2. CASE ~Store(t)
      BY <1>1, <2>1, <3>2, TokensChange DEF SameTokens
    <3> QED
      BY <3>1, <3>2
  <2>2. ~Restart
    BY <1>1 DEF Restart, TypeOK
  <2>3. CASE Tick \/ UNCHANGED vars
    BY <2>3 DEF Tick, vars, Present
  <2> QED
    BY <1>1, <2>1, <2>2, <2>3 DEF Next, TaskStep
<1>2. TypeOK /\ [Next]_vars => [crashes' = crashes => DOMAIN stored' \subseteq Present]_vars
  BY <1>1
<1> QED
  BY <1>2, RefreshTypes, PTL DEF Spec, DeletedStaysDeleted

-----------------------------------------------------------------------------
(* Every change gets to the file *)

Writing(u) == pc[u] \in {"write", "fill"}

\* When every change was collected, an image that is neither late nor followed by a newer
\* one is the memory.
ImagesCurrent ==
  /\ \A t \in Task : t \notin earlier[t]
  /\ (\A t \in Task : pc[t] # "collect") =>
       \A u \in Task : Writing(u) =>
         \/ u \in late
         \/ image[u] = stored
         \/ \E v \in Task : Writing(v) /\ u \in earlier[v]

FileInv == ImagesCurrent /\ FileMatchesMemory

LEMMA ChangeIsCollected ==
  ASSUME FileInv, NEW t \in Task, pc'[t] = "collect", earlier' = earlier
  PROVE  FileInv'
  BY DEF FileInv, ImagesCurrent, FileMatchesMemory

LEMMA SilentStep ==
  ASSUME FileInv, UNCHANGED <<stored, file, image, earlier, late, fileIs>>,
         \A u \in Task : /\ pc'[u] = "collect" <=> pc[u] = "collect"
                         /\ Writing(u)' <=> Writing(u)
  PROVE  FileInv'
<1>1. ImagesCurrent'
  BY DEF FileInv, ImagesCurrent
<1>2. FileMatchesMemory'
  BY DEF FileInv, FileMatchesMemory, Writing
<1> QED
  BY <1>1, <1>2 DEF FileInv

LEMMA CollectStep ==
  ASSUME TypeOK, FileInv, NEW t \in Task, Collect(t)
  PROVE  FileInv'
<1>1. /\ pc[t] = "collect" /\ pc'[t] = "write"
      /\ \A u \in Task \ {t} : pc'[u] = pc[u]
      /\ stored' = stored /\ late' = late
  BY DEF Collect, Goto, TypeOK
<1>2. /\ image'[t] = stored
      /\ earlier'[t] = {u \in Task : Writing(u)}
      /\ \A u \in Task \ {t} : earlier'[u] = earlier[u]
  BY DEF Collect, TypeOK, Writing
<1>3. \A u \in Task : u \notin earlier'[u]
  BY <1>1, <1>2 DEF FileInv, ImagesCurrent, Writing
<1>4. ASSUME NEW u \in Task, Writing(u)'
      PROVE  image'[u] = stored' \/ \E v \in Task : Writing(v)' /\ u \in earlier'[v]
  <2>1. CASE u = t
    BY <1>1, <1>2, <2>1
  <2>2. CASE u # t
    BY <1>1, <1>2, <1>4, <2>2 DEF Writing
  <2> QED
    BY <2>1, <2>2
<1>5. ImagesCurrent'
  BY <1>3, <1>4 DEF ImagesCurrent
<1>6. FileMatchesMemory'
  BY <1>1 DEF FileMatchesMemory
<1> QED
  BY <1>5, <1>6 DEF FileInv

LEMMA WriteStep ==
  ASSUME TypeOK, FileInv, NEW t \in Task, Fill(t) \/ WriteFails(t)
  PROVE  FileInv'
<1>1. /\ Writing(t) /\ stored' = stored
      /\ fileIs' = "newest" => t \notin late /\ file' = image[t]
  BY DEF Fill, WriteFails, Writing
<1>2. AfterWrite(t, TRUE) \/ AfterWrite(t, FALSE)
  BY DEF Fill, WriteFails
<1>3. /\ pc'[t] \notin {"collect", "write", "fill"}
      /\ \A u \in Task \ {t} : pc'[u] = pc[u]
  BY <1>2 DEF AfterWrite, Goto, TypeOK
<1>4. /\ earlier' = [u \in Task |-> IF u = t THEN {} ELSE earlier[u] \ {t}]
      /\ late' = (late \cup earlier[t]) \ {t}
      /\ image' = [image EXCEPT ![t] = Empty]
  BY <1>2 DEF AfterWrite
<1>5. \A u \in Task : u \notin earlier'[u]
  BY <1>4 DEF FileInv, ImagesCurrent
<1>6. ASSUME \A u \in Task : pc'[u] # "collect"
      PROVE  \A u \in Task : pc[u] # "collect"
  BY <1>1, <1>3, <1>6 DEF Writing
<1>7. ASSUME NEW u \in Task, Writing(u)', \A v \in Task : pc'[v] # "collect"
      PROVE  \/ u \in late'
             \/ image'[u] = stored'
             \/ \E v \in Task : Writing(v)' /\ u \in earlier'[v]
  <2>1. u # t /\ Writing(u)
    BY <1>3, <1>7 DEF Writing
  <2>2. image'[u] = image[u]
    BY <1>4, <2>1 DEF TypeOK
  <2>3. CASE u \in late
    BY <1>4, <2>1, <2>3
  <2>4. CASE image[u] = stored
    BY <1>1, <2>2, <2>4
  <2>5. ASSUME NEW v \in Task, Writing(v), u \in earlier[v]
        PROVE  u \in late' \/ (Writing(v)' /\ u \in earlier'[v])
    BY <1>3, <1>4, <2>1, <2>5 DEF Writing
  <2> QED
    BY <1>6, <1>7, <2>1, <2>3, <2>4, <2>5 DEF FileInv, ImagesCurrent
<1>8. ImagesCurrent'
  BY <1>5, <1>7 DEF ImagesCurrent
<1>9. ASSUME fileIs' = "newest",
             \A u \in Task : pc'[u] \notin {"collect", "write", "fill"}
      PROVE  file' = stored'
  <2>1. \A u \in Task \ {t} : ~Writing(u)
    BY <1>3, <1>9 DEF Writing
  <2>2. t \notin late /\ t \notin earlier[t]
    BY <1>1, <1>9 DEF FileInv, ImagesCurrent
  <2>3. image[t] = stored
    BY <1>1, <1>6, <1>9, <2>1, <2>2 DEF FileInv, ImagesCurrent
  <2> QED
    BY <1>1, <1>9, <2>3
<1> QED
  BY <1>8, <1>9 DEF FileInv, FileMatchesMemory

LEMMA FileStep ==
  ASSUME TypeOK, FileInv, [Next]_vars
  PROVE  FileInv'
<1> USE DEF history
<1>1. ASSUME NEW t \in Task, Edit(t) \/ Delete(t) \/ Store(t)
      PROVE  FileInv'
  BY <1>1, ChangeIsCollected DEF Edit, Delete, Store, Saved, Goto, TypeOK
<1>2. ASSUME NEW t \in Task, LimitsAnswered(t)
      PROVE  FileInv'
  <2>1. CASE Saved(t)
    BY <1>2, <2>1, ChangeIsCollected DEF LimitsAnswered, Saved, Goto, TypeOK
  <2>2. CASE Goto(t, "done") /\ UNCHANGED stored
    <3>1. \A u \in Task : /\ pc'[u] = "collect" <=> pc[u] = "collect"
                          /\ Writing(u)' <=> Writing(u)
      BY <1>2, <2>2 DEF LimitsAnswered, Goto, TypeOK, Writing
    <3> QED
      BY <1>2, <2>2, <3>1, SilentStep DEF LimitsAnswered
  <2> QED
    BY <1>2, <2>1, <2>2 DEF LimitsAnswered
<1>3. ASSUME NEW t \in Task, NEW l \in {"lock", "send", "store", "limits", "query", "done", "failed"},
             Goto(t, l) \/ pc' = pc, pc[t] \notin {"collect", "write", "fill"},
             UNCHANGED <<stored, file, image, earlier, late, fileIs>>
      PROVE  FileInv'
  <2>1. \A u \in Task : /\ pc'[u] = "collect" <=> pc[u] = "collect"
                        /\ Writing(u)' <=> Writing(u)
    BY <1>3 DEF Goto, TypeOK, Writing
  <2> QED
    BY <1>3, <2>1, SilentStep
<1>4. ASSUME NEW t \in Task, ReadSnapshot(t) \/ LimitsRead(t) \/ LimitsFail(t)
      PROVE  FileInv'
  <2>1. PICK l \in {"lock", "send", "store", "limits", "query", "done", "failed"} : Goto(t, l)
    BY <1>4 DEF ReadSnapshot, Refreshed, LimitsRead, LimitsFail
  <2> QED
    BY <1>3, <1>4, <2>1 DEF ReadSnapshot, LimitsRead, LimitsFail
<1>5. ASSUME NEW t \in Task, LockForced(t) \/ LockDue(t) \/ LockNotDue(t)
      PROVE  FileInv'
  <2>1. PICK l \in {"lock", "send", "store", "limits", "query", "done", "failed"} : Goto(t, l)
    BY <1>5 DEF LockForced, LockDue, LockNotDue, Refreshed, End
  <2> QED
    BY <1>3, <1>5, <2>1 DEF LockForced, LockDue, LockNotDue
<1>6. ASSUME NEW t \in Task, Granted(t) \/ Cancel(t)
      PROVE  FileInv'
  <2>1. PICK l \in {"lock", "send", "store", "limits", "query", "done", "failed"} : Goto(t, l)
    BY <1>6 DEF Granted, Cancel, End
  <2> QED
    BY <1>3, <1>6, <2>1 DEF Granted, Cancel
<1>7. ASSUME NEW t \in Task, GrantLost(t) \/ NotGranted(t)
      PROVE  FileInv'
  <2>1. Goto(t, "failed") \/ pc' = pc
    BY <1>7 DEF GrantLost, NotGranted, NextProxy, End
  <2> QED
    BY <1>3, <1>7, <2>1 DEF GrantLost, NotGranted
<1>8. ASSUME NEW t \in Task, Collect(t)
      PROVE  FileInv'
  BY <1>8, CollectStep
<1>9. ASSUME NEW t \in Task, Truncate(t)
      PROVE  FileInv'
  <2>1. /\ pc[t] = "write" /\ pc'[t] = "fill"
        /\ \A u \in Task \ {t} : pc'[u] = pc[u]
        /\ UNCHANGED <<stored, image, earlier, late>>
    BY <1>9 DEF Truncate, Goto, TypeOK
  <2>2. ImagesCurrent'
    BY <2>1 DEF FileInv, ImagesCurrent, Writing
  <2>3. FileMatchesMemory'
    BY <2>1 DEF FileMatchesMemory
  <2> QED
    BY <2>2, <2>3 DEF FileInv
<1>10. ASSUME NEW t \in Task, Fill(t) \/ WriteFails(t)
       PROVE  FileInv'
  BY <1>10, WriteStep
<1>11. CASE Tick \/ UNCHANGED vars
  <2>1. UNCHANGED <<stored, file, image, earlier, late, fileIs, pc>>
    BY <1>11 DEF Tick, vars, taskVars
  <2> QED
    BY <2>1, SilentStep DEF Writing
<1>12. CASE Restart
  <2>1. /\ \A t \in Task : pc'[t] \notin {"collect", "write", "fill"}
        /\ \A t \in Task : earlier'[t] = {}
        /\ file' = stored'
    BY <1>12 DEF Restart
  <2> QED
    BY <2>1 DEF FileInv, ImagesCurrent, FileMatchesMemory, Writing
<1> QED
  BY <1>1, <1>2, <1>4, <1>5, <1>6, <1>7, <1>8, <1>9, <1>10, <1>11, <1>12 DEF Next, Continue

\* Whatever the interleaving of the calls, a change of the entries is in the file once no
\* call is about to write, unless a write failed or landed after a newer one.
THEOREM FileMatchesMemoryHolds == Spec => []FileMatchesMemory
<1>1. Init => FileInv
  BY DEF Init, FileInv, ImagesCurrent, FileMatchesMemory, Writing
<1>2. TypeOK /\ FileInv /\ [Next]_vars => FileInv'
  BY FileStep
<1>3. FileInv => FileMatchesMemory
  BY DEF FileInv
<1> QED
  BY <1>1, <1>2, <1>3, RefreshTypes, PTL DEF Spec
=============================================================================
