---------------------------- MODULE TokenRefresh ----------------------------
(***************************************************************************)
(* Refreshing and storing credentials in MultiTokenManager                 *)
(* (kiro/token_manager.rs): the double-checked refresh under refresh_lock, *)
(* the forced refresh, the usage query that refreshes first, the writes    *)
(* that edit one field or delete an entry, the credentials file, and a     *)
(* restart from it.                                                        *)
(*                                                                         *)
(* A Task is one call of one of these operations.  Tasks run on a multi-   *)
(* threaded executor; an action is one critical section of the `entries`   *)
(* lock, one answer of the upstream, or one step of std::fs::write, and    *)
(* pc[t] names the one that is next.  refresh_lock is held across awaits.  *)
(*                                                                         *)
(* A credential is its refresh token, the expiry of its access token and   *)
(* `settings`, which counts the edits of all its other fields (priority,   *)
(* max_concurrency, profile_arn, subscription_title...).  Time passes in   *)
(* periods of five minutes.  The upstream accepts the refresh token it     *)
(* handed out last and may replace it at any use.                          *)
(***************************************************************************)
EXTENDS Integers

CONSTANTS
  Task,        \* the calls that are ever made
  NoTask,      \* "nobody holds refresh_lock"
  Torn,        \* a file that does not parse
  KindsOf,     \* [Task -> SUBSET Kind]: the operations a task may be
  Cred,        \* credential ids
  Expiry,      \* [Cred -> Nat]: expires_at in the file at start-up
  Lifetimes,   \* expires_in of an answer, in periods
  Proxies,     \* length of proxy_candidates_for
  MaxClock,    \* bound on the clock
  MaxCrashes   \* bound on the crashes

Kind       == {"ensure", "usage", "force", "edit", "delete"}
Refreshing == {"ensure", "usage", "force"}

ASSUME RefreshAssumption ==
  /\ NoTask \notin Task
  /\ Cred # {}
  /\ KindsOf \in [Task -> SUBSET Kind]
  /\ Expiry \in [Cred -> Nat]
  /\ Lifetimes \subseteq Nat
  /\ Proxies \in Nat \ {0}
  /\ MaxClock \in Nat
  /\ MaxCrashes \in Nat

VARIABLES
  stored,    \* the credentials of `entries`, by id
  file,      \* the credentials file
  valid,     \* upstream: the refresh token it accepts, per credential
  clock,     \* Utc::now(), in periods
  lock,      \* the task that holds refresh_lock
  kind,      \* the operation a task is
  pc,        \* next section of a task
  on,        \* the credential a task works on
  snap,      \* its local copy of that credential
  tries,     \* attempt of refresh_token_with_proxy_fallback
  image,     \* what persist_credentials collected and is to write
  crashes,
  \* history, read by properties only: credentials whose newest refresh token will
  \* never reach `entries`; the tasks that had an older image to write when a task
  \* collected its own; the tasks whose image is older than the file; "outdated" when
  \* the file was overwritten with an older image or a write to it failed
  lost, earlier, late, fileIs

taskVars == <<kind, pc, on, snap, tries, image>>
history  == <<lost, earlier, late, fileIs>>
vars     == <<stored, file, valid, clock, lock, taskVars, crashes, history>>

Ended == {"done", "failed"}
PC    == Ended \cup {"idle", "lock", "send", "store", "collect", "write", "fill",
                     "limits", "query"}

Credential == [rt : Nat, exp : Nat, settings : Nat]
IsFile(f)  == DOMAIN f \subseteq Cred /\ f \in [DOMAIN f -> Credential]
Empty      == [c \in {} |-> 0]
Blank      == [rt |-> 0, exp |-> 0, settings |-> 0]

Present == DOMAIN stored

\* is_token_expired (five minutes ahead) and is_token_expiring_soon (ten).
Expired(x)      == x.exp <= clock + 1
ExpiringSoon(x) == x.exp <= clock + 2
NeedsRefresh(x) == Expired(x) \/ ExpiringSoon(x)

Init ==
  /\ stored = [c \in Cred |-> [rt |-> 0, exp |-> Expiry[c], settings |-> 0]]
  /\ file = stored
  /\ valid = [c \in Cred |-> 0]
  /\ clock = 0
  /\ lock = NoTask
  /\ kind \in [Task -> Kind] /\ \A t \in Task : kind[t] \in KindsOf[t]
  /\ pc = [t \in Task |-> "idle"]
  /\ on = [t \in Task |-> CHOOSE c \in Cred : TRUE]
  /\ snap = [t \in Task |-> Blank]
  /\ tries = [t \in Task |-> 0]
  /\ image = [t \in Task |-> Empty]
  /\ crashes = 0
  /\ lost = {}
  /\ earlier = [t \in Task |-> {}]
  /\ late = {}
  /\ fileIs = "newest"

Goto(t, l) == pc' = [pc EXCEPT ![t] = l]

\* Seeded fault: the lock guard outlives the call.
Kept(t) == lock' = lock
\* The guard of refresh_lock, if t has it, is dropped.
Released(t) == lock' = IF lock = t THEN NoTask ELSE lock

\* Seeded fault: a deletion is not written to the file.
SavedButDeletion(t) == Goto(t, IF kind[t] = "delete" THEN "done" ELSE "collect")
\* persist_credentials is called next.
Saved(t) == Goto(t, "collect")

\* The call returns, and with it go its local variables.
End(t, l) ==
  /\ Goto(t, l)
  /\ Released(t)
  /\ snap' = [snap EXCEPT ![t] = Blank]
  /\ tries' = [tries EXCEPT ![t] = 0]

-----------------------------------------------------------------------------
(* Reading, and the two checks *)

\* Where a call goes with a token that is fresh.
Refreshed(t) == IF kind[t] = "usage" THEN "limits" ELSE "done"

\* The caller's snapshot of an entry.  ensure and usage check it at once; force goes
\* for the lock in any case.
ReadSnapshot(t) ==
  /\ pc[t] = "idle"
  /\ kind[t] \in Refreshing
  /\ \E c \in Present :
       /\ on' = [on EXCEPT ![t] = c]
       /\ \/ /\ kind[t] = "force" \/ NeedsRefresh(stored[c])
             /\ snap' = [snap EXCEPT ![t] = stored[c]]
             /\ Goto(t, "lock")
          \/ /\ kind[t] # "force" /\ ~NeedsRefresh(stored[c])
             /\ Goto(t, Refreshed(t))
             /\ UNCHANGED snap
  /\ UNCHANGED <<stored, file, valid, clock, kind, lock, tries, image, crashes, history>>

\* Seeded fault: the snapshot from before the lock is not read again.
NotReread(c, x) == x
\* The entry as read under refresh_lock.
Reread(c, x) == stored[c]

\* force_refresh_token_for: refreshes with the snapshot taken before the lock.
LockForced(t) ==
  /\ pc[t] = "lock"
  /\ kind[t] = "force"
  /\ lock = NoTask
  /\ lock' = t
  /\ tries' = [tries EXCEPT ![t] = 1]
  /\ Goto(t, "send")
  /\ UNCHANGED <<stored, file, valid, clock, kind, on, snap, image, crashes, history>>

\* Second check, under the lock, finds that the refresh is still due.
LockDue(t) ==
  /\ pc[t] = "lock"
  /\ kind[t] # "force"
  /\ lock = NoTask
  /\ on[t] \in Present
  /\ LET x == Reread(on[t], snap[t]) IN
       /\ NeedsRefresh(x)
       /\ snap' = [snap EXCEPT ![t] = x]
  /\ lock' = t
  /\ tries' = [tries EXCEPT ![t] = 1]
  /\ Goto(t, "send")
  /\ UNCHANGED <<stored, file, valid, clock, kind, on, image, crashes, history>>

\* Second check finds that somebody else refreshed, or that the entry is gone; the
\* lock is taken and dropped in the same section.
LockNotDue(t) ==
  /\ pc[t] = "lock"
  /\ kind[t] # "force"
  /\ lock = NoTask
  /\ \/ /\ on[t] \in Present
        /\ ~NeedsRefresh(Reread(on[t], snap[t]))
        /\ End(t, Refreshed(t))
     \/ /\ on[t] \notin Present
        /\ End(t, "failed")
  /\ UNCHANGED <<stored, file, valid, clock, kind, on, image, crashes, history>>

-----------------------------------------------------------------------------
(* refresh_token_with_proxy_fallback: every attempt sends the same snapshot *)

\* After an attempt that brought no answer: the next proxy, or the error.
NextProxy(t) ==
  IF tries[t] < Proxies
  THEN /\ tries' = [tries EXCEPT ![t] = @ + 1]
       /\ UNCHANGED <<pc, lock, snap>>
  ELSE End(t, "failed")

\* Seeded fault: the new refresh token of the answer is ignored.
AnswerKeepsToken(x, r, e) == [x EXCEPT !.exp = e]
\* Seeded fault: the safety margin is taken off expires_at.
AnswerLessMargin(x, r, e) == [x EXCEPT !.rt = r, !.exp = e - 2]
\* refresh_social_token, refresh_idc_token: a copy of the snapshot with the new tokens.
Answer(x, r, e) == [x EXCEPT !.rt = r, !.exp = e]

\* The upstream answers; it may replace the refresh token, and may omit expires_in.
\* ensure gives up on an answer that is already expired, before storing it.
Granted(t) ==
  /\ pc[t] = "send"
  /\ snap[t].rt = valid[on[t]]
  /\ \E r \in {valid[on[t]], valid[on[t]] + 1},
        e \in {snap[t].exp} \cup {clock + d : d \in Lifetimes} :
       LET x == Answer(snap[t], r, e) IN
         /\ valid' = [valid EXCEPT ![on[t]] = r]
         /\ IF kind[t] = "ensure" /\ Expired(x)
            THEN /\ lost' = IF r # valid[on[t]] THEN lost \cup {on[t]} ELSE lost
                 /\ End(t, "failed")
            ELSE /\ snap' = [snap EXCEPT ![t] = x]
                 /\ Goto(t, "store")
                 /\ UNCHANGED <<lock, lost, tries>>
  /\ UNCHANGED <<stored, file, clock, kind, on, image, crashes, earlier, late,
                 fileIs>>

\* The upstream replaced the refresh token, but its answer is lost on the way.
GrantLost(t) ==
  /\ pc[t] = "send"
  /\ snap[t].rt = valid[on[t]]
  /\ valid' = [valid EXCEPT ![on[t]] = @ + 1]
  /\ lost' = lost \cup {on[t]}
  /\ NextProxy(t)
  /\ UNCHANGED <<stored, file, clock, kind, on, image, crashes, earlier, late, fileIs>>

\* Rejected (the only answer to a token that is not valid), unreachable or timed out.
NotGranted(t) ==
  /\ pc[t] = "send"
  /\ NextProxy(t)
  /\ UNCHANGED <<stored, file, valid, clock, kind, on, image, crashes, history>>

\* Seeded fault: an entry that is gone is put back.
OverwrittenOrAdded(t) ==
  [c \in Present \cup {on[t]} |-> IF c = on[t] THEN snap[t] ELSE stored[c]]
\* The whole credential is overwritten, if its entry still exists.
Overwritten(t) == [c \in Present |-> IF c = on[t] THEN snap[t] ELSE stored[c]]

Store(t) ==
  /\ pc[t] = "store"
  /\ stored' = Overwritten(t)
  /\ snap' = [snap EXCEPT ![t] = Blank]
  /\ tries' = [tries EXCEPT ![t] = 0]
  /\ Saved(t)
  /\ UNCHANGED <<file, valid, clock, kind, lock, on, image, crashes, history>>

-----------------------------------------------------------------------------
(* get_usage_limits_for after the refresh, and the plain edits *)

\* The entry is read once more.
LimitsRead(t) ==
  /\ pc[t] = "limits"
  /\ Goto(t, IF on[t] \in Present THEN "query" ELSE "failed")
  /\ UNCHANGED <<stored, file, valid, clock, kind, lock, on, snap, tries, image, crashes,
                 history>>

LimitsFail(t) ==
  /\ pc[t] = "query"
  /\ Goto(t, "failed")
  /\ UNCHANGED <<stored, file, valid, clock, kind, lock, on, snap, tries, image, crashes,
                 history>>

Edited(c) == [stored EXCEPT ![c].settings = @ + 1]

\* The answer may bring another subscription title.
LimitsAnswered(t) ==
  /\ pc[t] = "query"
  /\ \/ /\ on[t] \in Present
        /\ stored' = Edited(on[t])
        /\ Saved(t)
     \/ /\ Goto(t, "done")
        /\ UNCHANGED stored
  /\ UNCHANGED <<file, valid, clock, kind, lock, on, snap, tries, image, crashes, history>>

\* set_priority, set_max_concurrency, update_profile_arn: one field of one entry.
Edit(t) ==
  /\ pc[t] = "idle"
  /\ kind[t] = "edit"
  /\ \E c \in Present : stored' = Edited(c)
  /\ Saved(t)
  /\ UNCHANGED <<file, valid, clock, kind, lock, on, snap, tries, image, crashes, history>>

\* delete_credential; that the entry must be disabled first is CredentialPool's.
Delete(t) ==
  /\ pc[t] = "idle"
  /\ kind[t] = "delete"
  /\ \E c \in Present : stored' = [d \in Present \ {c} |-> stored[d]]
  /\ Saved(t)
  /\ UNCHANGED <<file, valid, clock, kind, lock, on, snap, tries, image, crashes, history>>

-----------------------------------------------------------------------------
(* persist_credentials: collect under the lock, write after it *)

Collect(t) ==
  /\ pc[t] = "collect"
  /\ image' = [image EXCEPT ![t] = stored]
  /\ earlier' = [earlier EXCEPT ![t] = {u \in Task : pc[u] \in {"write", "fill"}}]
  /\ Goto(t, "write")
  /\ UNCHANGED <<stored, file, valid, clock, kind, lock, on, snap, tries, crashes, lost,
                 late, fileIs>>

\* std::fs::write truncates, then writes.
Truncate(t) ==
  /\ pc[t] = "write"
  /\ file' = Empty
  /\ Goto(t, "fill")
  /\ UNCHANGED <<stored, valid, clock, kind, lock, on, snap, tries, image, crashes, history>>

\* What follows a write: usage refreshed under the lock and goes on to its query; a
\* refresh only logs that the write failed, an edit reports it.
AfterWrite(t, ok) ==
  /\ Goto(t, CASE kind[t] = "usage" /\ lock = t -> "limits"
               [] kind[t] \in Refreshing \/ ok  -> "done"
               [] OTHER -> "failed")
  /\ Released(t)
  /\ earlier' = [u \in Task |-> IF u = t THEN {} ELSE earlier[u] \ {t}]
  /\ late' = (late \cup earlier[t]) \ {t}
  /\ image' = [image EXCEPT ![t] = Empty]

\* When another task wrote since this one truncated, the longer of the two leaves its
\* tail behind.
Fill(t) ==
  /\ pc[t] = "fill"
  /\ \/ /\ file' = image[t]
        /\ fileIs' = IF t \in late THEN "outdated" ELSE "newest"
     \/ /\ file \notin {Empty, image[t]}
        /\ file' = Torn
        /\ fileIs' = "outdated"
  /\ AfterWrite(t, TRUE)
  /\ UNCHANGED <<stored, valid, clock, kind, on, snap, tries, crashes, lost>>

\* The file cannot be opened, or cannot be written once it is truncated.
WriteFails(t) ==
  /\ pc[t] \in {"write", "fill"}
  /\ fileIs' = "outdated"
  /\ AfterWrite(t, FALSE)
  /\ UNCHANGED <<stored, file, valid, clock, kind, on, snap, tries, crashes, lost>>

-----------------------------------------------------------------------------
(* The environment *)

\* The caller's future is dropped at an await; the upstream may have served the call.
Cancel(t) ==
  /\ pc[t] \in {"lock", "send", "query"}
  /\ \/ UNCHANGED <<valid, lost>>
     \/ /\ pc[t] = "send"
        /\ snap[t].rt = valid[on[t]]
        /\ valid' = [valid EXCEPT ![on[t]] = @ + 1]
        /\ lost' = lost \cup {on[t]}
  /\ End(t, "failed")
  /\ UNCHANGED <<stored, file, clock, kind, on, image, crashes, earlier, late, fileIs>>

Tick ==
  /\ clock < MaxClock
  /\ clock' = clock + 1
  /\ UNCHANGED <<stored, file, valid, lock, taskVars, crashes, history>>

\* The process dies and starts again from the file; an empty file is an empty list, one
\* that does not parse ends the start-up.
Restart ==
  /\ crashes < MaxCrashes
  /\ file # Torn
  /\ crashes' = crashes + 1
  /\ stored' = file
  /\ lock' = NoTask
  /\ pc' = [t \in Task |-> IF pc[t] \in {"idle", "done"} THEN pc[t] ELSE "failed"]
  /\ lost' = {c \in DOMAIN file : file[c].rt # valid[c]}
  /\ earlier' = [t \in Task |-> {}]
  /\ late' = {}
  /\ fileIs' = "newest"
  /\ snap' = [t \in Task |-> Blank]
  /\ tries' = [t \in Task |-> 0]
  /\ image' = [t \in Task |-> Empty]
  /\ UNCHANGED <<file, valid, clock, kind, on>>

-----------------------------------------------------------------------------
\* What a task does on its own once it has begun.
Continue(t) ==
  \/ LockForced(t) \/ LockDue(t) \/ LockNotDue(t)
  \/ Granted(t) \/ GrantLost(t) \/ NotGranted(t) \/ Store(t)
  \/ LimitsRead(t) \/ LimitsFail(t) \/ LimitsAnswered(t)
  \/ Collect(t) \/ Truncate(t) \/ Fill(t) \/ WriteFails(t)

Next ==
  \/ \E t \in Task : \/ ReadSnapshot(t) \/ Edit(t) \/ Delete(t)
                     \/ Continue(t)
                     \/ Cancel(t)
  \/ Tick
  \/ Restart

Spec == Init /\ [][Next]_vars

\* The executor runs what is runnable, and each upstream call has a timeout.
FairSpec == Spec /\ \A t \in Task : WF_vars(Continue(t))

-----------------------------------------------------------------------------
(* Properties *)

\* Every variable keeps its type.
TypeOK ==
  /\ IsFile(stored)
  /\ file = Torn \/ IsFile(file)
  /\ valid \in [Cred -> Nat]
  /\ clock \in Nat
  /\ lock \in Task \cup {NoTask}
  /\ kind \in [Task -> Kind]
  /\ pc \in [Task -> PC]
  /\ on \in [Task -> Cred]
  /\ snap \in [Task -> Credential]
  /\ tries \in [Task -> Nat]
  /\ image = [t \in Task |-> image[t]] /\ \A t \in Task : IsFile(image[t])
  /\ crashes \in Nat
  /\ lost \subseteq Cred
  /\ earlier \in [Task -> SUBSET Task]
  /\ late \subseteq Task
  /\ fileIs \in {"newest", "outdated"}

\* The double check: as long as a refresh by ensure or usage is under way, the entry
\* still needs it and still has the refresh token that is being sent, whatever the
\* other tasks did before the lock and edit meanwhile.
RefreshIsDue ==
  \A t \in Task :
    (pc[t] = "send" /\ kind[t] # "force" /\ on[t] \in Present) =>
      /\ NeedsRefresh(stored[on[t]])
      /\ stored[on[t]].rt = snap[t].rt

\* A refresh token that was replaced is never kept or put back: each entry has the one
\* the upstream accepts, or the task that received it is about to store it.  Excepted
\* are tokens whose answer never arrived or was discarded.
TokensCurrent ==
  \A c \in Present \ lost :
    \/ stored[c].rt = valid[c]
    \/ \E t \in Task : pc[t] = "store" /\ on[t] = c /\ snap[t].rt = valid[c]

\* Every change of the entries gets to the file: when nobody is about to write, the file
\* is the memory, except where the code gives up on it (a write that failed, or two
\* writes in the opposite order of their images).
FileMatchesMemory ==
  (fileIs = "newest" /\ \A t \in Task : pc[t] \notin {"collect", "write", "fill"}) =>
    file = stored

\* A deletion stands: no refresh that was under way puts the entry back, at its store or
\* by any later step; only a restart may find it in the file again.
DeletedStaysDeleted == [][crashes' = crashes => DOMAIN stored' \subseteq Present]_vars

\* Every call that has begun ends, whoever holds refresh_lock: as each task is one call,
\* in the end there is none under way for good.
TasksEnd == <>[](\A t \in Task : pc[t] \in Ended \cup {"idle"})

\* The comment of set_priority (kiro/token_manager.rs:2384): an edit takes effect in
\* memory in any case; so no later step but a restart takes it back.  A refresh that
\* read the entry before the edit does.
SettingsKept ==
  [][crashes' = crashes =>
       \A c \in Present \cap DOMAIN stored' :
         stored'[c].settings >= stored[c].settings]_vars
=============================================================================
