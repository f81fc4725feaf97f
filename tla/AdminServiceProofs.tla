------------------------- MODULE AdminServiceProofs -------------------------
(***************************************************************************)
(* Theorems about AdminService, for any number of handlers, accounts,      *)
(* settings and calls.                                                     *)
(*                                                                         *)
(*   AdminTypes           the types, and the calls a handler may be in     *)
(*   DistinctHolds        ids and accounts repeat only over an overlap     *)
(*   ReferencesHoldAlways proxies of a credential exist                    *)
(*   BalancesFollowAlways a cached balance is that of its credential       *)
(*   FileAgreesAlways     config.json holds what is in force               *)
(***************************************************************************)
EXTENDS AdminService, WellFoundedInduction, TLAPS

-----------------------------------------------------------------------------
(* Types: what a handler carries at each section of its call. *)

Contents == [mode : Modes, optimizer : Settings, mapping : Settings, proxies : Profiles]
Image == {<<>>} \cup {<<c>> : c \in Contents}
Steps == {"loading", "writing", "filling", "applying"}

Adding == [pc : {"granting"}, account : Accounts, proxies : SUBSET Ids]
            \cup [pc : {"pushing"}, id : Ids, account : Accounts, proxies : SUBSET Ids]
Deleting == [pc : {"clearing", "saving", "removing"}, id : Ids]
Asking == [pc : {"asked", "fetching", "setting", "saving"}, id : Ids, overage : BOOLEAN,
           account : Accounts]
Assigning == [pc : {"assigning"}, ids : SUBSET Ids, proxies : SUBSET Ids]
WritingMode == [pc : Steps, field : {"mode"}, value : Modes, old : Modes,
                base : Image, alone : BOOLEAN]
WritingSetting == [pc : Steps, field : {"optimizer", "mapping"}, value : Settings, old : Settings,
                   base : Image, alone : BOOLEAN]
WritingProxies == [pc : Steps \cup {"copying"}, field : {"proxies"}, value : Profiles,
                   old : {<<>>}, base : Image, alone : BOOLEAN]
\* config.json was loaded before it is written.
Writing == {c \in WritingMode \cup WritingSetting \cup WritingProxies :
              c.pc \in {"writing", "filling", "applying"} => c.base # <<>>}
Waiting == {Idle} \cup Adding \cup Deleting \cup Asking \cup Assigning
Calls == Waiting \cup Writing

Overlaps == [ids : SUBSET Ids, accounts : SUBSET Accounts, balances : SUBSET Ids,
             proxies : SUBSET Ids, fields : SUBSET Fields]

TypeInv ==
  /\ TypeOK
  /\ file \in Image
  /\ task \in [Tasks -> Calls]
  /\ races \in Overlaps

LEMMA EmptyProfile == <<>> \in Profiles /\ <<>> \in Balances
  <1>1. <<>> \in [{} -> Hosts] /\ <<>> \in [{} -> Accounts]
    OBVIOUS
  <1> QED BY <1>1 DEF Profiles, Balances

\* A map that is set, cut or filled stays a map from ids.
LEMMA SetProfile ==
  ASSUME NEW f \in Profiles, NEW id \in Ids, NEW host \in Hosts
  PROVE  Set(f, id, host) \in Profiles /\ Without(f, id) \in Profiles
  <1>1. PICK ps \in SUBSET Ids : f \in [ps -> Hosts]
    BY DEF Profiles
  <1>2. Set(f, id, host) \in [ps \cup {id} -> Hosts] /\ Without(f, id) \in [ps \ {id} -> Hosts]
    BY <1>1 DEF Set, Without
  <1>3. ps \cup {id} \in SUBSET Ids /\ ps \ {id} \in SUBSET Ids
    OBVIOUS
  <1> QED BY <1>2, <1>3 DEF Profiles

LEMMA SetBalance ==
  ASSUME NEW f \in Balances, NEW id \in Ids, NEW a \in Accounts
  PROVE  Set(f, id, a) \in Balances /\ Without(f, id) \in Balances
  <1>1. PICK ids \in SUBSET Ids : f \in [ids -> Accounts]
    BY DEF Balances
  <1>2. Set(f, id, a) \in [ids \cup {id} -> Accounts] /\ Without(f, id) \in [ids \ {id} -> Accounts]
    BY <1>1 DEF Set, Without
  <1>3. ids \cup {id} \in SUBSET Ids /\ ids \ {id} \in SUBSET Ids
    OBVIOUS
  <1> QED BY <1>2, <1>3 DEF Balances

LEMMA TypeInit == Init => TypeInv
  <1> SUFFICES ASSUME Init PROVE TypeInv
    OBVIOUS
  <1>1. credentials \in Starts /\ \A i \in DOMAIN credentials : i \in Places /\ credentials[i] \in Entries
    BY AdminAssumption DEF Init
  <1>2. proxies \in Profiles
    <2>1. UNION {credentials[i].proxies : i \in DOMAIN credentials} \in SUBSET Ids
      BY <1>1 DEF Entries
    <2> QED BY <2>1 DEF Init, Profiles
  <1>3. PICK m \in Modes, s \in Settings :
          /\ live = [mode |-> m, optimizer |-> s, mapping |-> s]
          /\ file = <<[mode |-> m, optimizer |-> s, mapping |-> s, proxies |-> proxies]>>
    BY DEF Init
  <1>4. live \in [mode : Modes, optimizer : Settings, mapping : Settings]
    BY <1>3
  <1>5. file \in Image /\ file[1] \in Contents
    BY <1>2, <1>3 DEF Image, Contents
  <1>6. task \in [Tasks -> Calls]
    BY DEF Init, Calls, Waiting
  <1>7. races \in Overlaps
    BY DEF Init, Overlaps
  <1>8. balances \in Balances /\ saved \in Balances /\ calls \in 0 .. MaxCalls
    BY EmptyProfile, AdminAssumption DEF Init
  <1> QED BY <1>1, <1>2, <1>4, <1>5, <1>6, <1>7, <1>8 DEF TypeInv, TypeOK, Contents

\* A handler that writes config.json carries what such a call carries.
LEMMA WriterShape ==
  ASSUME TypeInv, NEW u \in Tasks
  PROVE  /\ task[u] \in Calls
         /\ u \in Writers <=> task[u] \in Writing
         /\ u \in Writers => task[u].field \in Fields
  <1>1. task[u] \in Calls
    BY DEF TypeInv
  <1>2. task[u] \in Waiting => u \notin Writers
    BY DEF Waiting, Adding, Deleting, Asking, Assigning, Idle, Writers
  <1>3. task[u] \in Writing => u \in Writers /\ task[u].field \in Fields
    BY DEF Writing, WritingMode, WritingSetting, WritingProxies, Writers, Steps, Fields
  <1>4. ~ (task[u] \in Writing /\ task[u] \in Waiting)
    BY <1>2, <1>3
  <1> QED BY <1>1, <1>2, <1>3 DEF Calls

\* The calls a handler may carry are closed under what the sections change.
LEMMA AloneShape ==
  ASSUME NEW c \in Writing, NEW b \in BOOLEAN
  PROVE  [c EXCEPT !.alone = b] \in Writing
  <1>1. CASE c \in WritingMode
    BY <1>1 DEF WritingMode, Writing
  <1>2. CASE c \in WritingSetting
    BY <1>2 DEF WritingSetting, Writing
  <1>3. CASE c \in WritingProxies
    BY <1>3 DEF WritingProxies, Writing
  <1> QED BY <1>1, <1>2, <1>3 DEF Writing

LEMMA StepShape ==
  ASSUME NEW c \in Writing, NEW pc \in Steps, c.base # <<>>
  PROVE  [c EXCEPT !.pc = pc] \in Writing
  <1>1. CASE c \in WritingMode
    BY <1>1 DEF WritingMode, Writing
  <1>2. CASE c \in WritingSetting
    BY <1>2 DEF WritingSetting, Writing
  <1>3. CASE c \in WritingProxies
    BY <1>3 DEF WritingProxies, Writing
  <1> QED BY <1>1, <1>2, <1>3 DEF Writing

LEMMA JoinType ==
  ASSUME TypeInv, NEW t \in Tasks, NEW call \in Writing, NEW doubt \in Overlaps,
         Join(t, call, doubt)
  PROVE  task' \in [Tasks -> Calls] /\ races' \in Overlaps
  <1> DEFINE others == Writers \ {t}
             alone == others = {}
  <1>1. alone \in BOOLEAN
    OBVIOUS
  <1>2. task' = [u \in Tasks |->
                   IF u = t THEN [call EXCEPT !.alone = alone]
                   ELSE IF u \in others THEN [task[u] EXCEPT !.alone = FALSE] ELSE task[u]]
    BY DEF Join
  <1>3. [call EXCEPT !.alone = alone] \in Calls
    BY <1>1, AloneShape DEF Calls
  <1>4. \A u \in Tasks : u \in others => [task[u] EXCEPT !.alone = FALSE] \in Calls
    BY WriterShape, AloneShape DEF Calls
  <1>5. \A u \in Tasks : task[u] \in Calls
    BY WriterShape
  <1>6. task' \in [Tasks -> Calls]
    BY <1>2, <1>3, <1>4, <1>5
  <1>7. {call.field} \cup FieldsOf(others) \subseteq Fields
    <2>1. call.field \in Fields
      BY DEF Writing, WritingMode, WritingSetting, WritingProxies, Fields
    <2>2. others \subseteq Tasks
      BY DEF Writers
    <2> QED BY <2>1, <2>2, WriterShape DEF FieldsOf
  <1>8. races' = IF alone THEN doubt
                 ELSE [doubt EXCEPT !.fields = @ \cup {call.field} \cup FieldsOf(others)]
    BY DEF Join
  <1>9. races' \in Overlaps
    BY <1>7, <1>8 DEF Overlaps
  <1> QED BY <1>6, <1>9

\* The parts of the types, each for the variables it is about.
TypesOf(cs, ps, l, f, bs, sv, n, ts, rs) ==
  /\ \A i \in DOMAIN cs : i \in Places /\ cs[i] \in Entries
  /\ ps \in Profiles
  /\ l \in [mode : Modes, optimizer : Settings, mapping : Settings]
  /\ f \in Image
  /\ bs \in Balances /\ sv \in Balances
  /\ n \in 0 .. MaxCalls
  /\ ts \in [Tasks -> Calls]
  /\ rs \in Overlaps

LEMMA TypesAre ==
  TypeInv <=> TypesOf(credentials, proxies, live, file, balances, saved, calls, task, races)
  <1>1. \A f \in Image : f # <<>> => f[1] \in Contents
    BY DEF Image
  <1> QED BY <1>1 DEF TypeInv, TypeOK, TypesOf, Contents

LEMMA TypesAreNext ==
  TypesOf(credentials', proxies', live', file', balances', saved', calls', task', races')
    => TypeInv'
  <1>1. \A f \in Image : f # <<>> => f[1] \in Contents
    BY DEF Image
  <1> QED BY <1>1 DEF TypeInv, TypeOK, TypesOf, Contents

\* Any set of places has a least one.
LEMMA LeastPlace ==
  ASSUME NEW S \in SUBSET Places, S # {}
  PROVE  \E i \in S : \A j \in S : i <= j
  <1>1. S \subseteq Nat
    BY AdminAssumption DEF Places
  <1> DEFINE Less == {ss \in Nat \X Nat : ss[1] < ss[2]}
  <1>2. IsWellFoundedOn(Less, Nat)
    BY NatLessThanWellFounded DEF OpToRel
  <1> HIDE DEF Less
  <1>3. PICK i \in S : \A j \in S : ~ (<<j, i>> \in Less)
    BY <1>1, <1>2, WFMin
  <1>4. \A j \in S : <<j, i>> \in Less <=> j < i
    BY <1>1 DEF Less
  <1>5. \A j \in S : i <= j
    <2> SUFFICES ASSUME NEW j \in S PROVE i <= j
      OBVIOUS
    <2>1. ~ (j < i)
      BY <1>3, <1>4
    <2>2. i \in Nat /\ j \in Nat
      BY <1>1
    <2> QED BY <2>1, <2>2
  <1> QED BY <1>5

\* The place of a credential that is known.
LEMMA FirstOfKnown ==
  ASSUME TypeInv, NEW id \in Known
  PROVE  First(id) \in DOMAIN credentials /\ credentials[First(id)].id = id
  <1> DEFINE S == {i \in DOMAIN credentials : credentials[i].id = id}
  <1>1. S \in SUBSET Places /\ S # {}
    BY DEF TypeInv, TypeOK, Known
  <1>2. PICK i \in S : \A j \in S : i <= j
    BY <1>1, LeastPlace
  <1> QED BY <1>2 DEF First

\* A handler's next call is one of Calls.
LEMMA CallType ==
  ASSUME TypeInv, NEW t \in Tasks, NEW c \in Calls, task' = [task EXCEPT ![t] = c]
  PROVE  task' \in [Tasks -> Calls]
  BY DEF TypeInv

LEMMA AddingTypes ==
  ASSUME TypeInv, NEW t \in Tasks,
         CheckDuplicate(t) \/ NotGranted(t) \/ NumberIt(t) \/ Push(t)
  PROVE  TypeInv'
  <1> USE DEF TypesOf
  <1>0. TypesOf(credentials, proxies, live, file, balances, saved, calls, task, races)
    BY TypesAre
  <1>a. task[t] \in Calls /\ Idle \in Calls
    BY <1>0 DEF Calls, Waiting
  <1>b. Adding \subseteq Calls
    BY DEF Calls, Waiting
  <1>c. calls + 1 <= MaxCalls => calls + 1 \in 0 .. MaxCalls
    BY <1>0, AdminAssumption
  <1>1. CASE CheckDuplicate(t)
    <2>1. PICK a \in Accounts, ps \in SUBSET Ids :
            /\ Begin(t, [pc |-> "granting", account |-> a, proxies |-> ps])
            /\ races' = IF \E u \in At("granting") \cup At("pushing") : task[u].account = a
                        THEN [races EXCEPT !.accounts = @ \cup {a}] ELSE races
      BY <1>1 DEF CheckDuplicate
    <2>2. [pc |-> "granting", account |-> a, proxies |-> ps] \in Calls
      BY <1>b DEF Adding
    <2>3. races' \in Overlaps
      BY <1>0, <2>1 DEF Overlaps
    <2>4. task' \in [Tasks -> Calls] /\ calls' \in 0 .. MaxCalls
      BY <1>0, <1>c, <2>1, <2>2, CallType, AdminAssumption DEF Begin, Call
    <2> QED BY <1>0, <1>1, <2>3, <2>4, TypesAreNext DEF CheckDuplicate
  <1>2. CASE NotGranted(t)
    BY <1>0, <1>a, <1>2, TypesAreNext DEF NotGranted, Return
  <1>3. CASE NumberIt(t)
    <2>1. PICK n \in Ids :
            /\ task[t].pc = "granting"
            /\ task' = [task EXCEPT ![t] = [pc |-> "pushing", id |-> n,
                                            account |-> @.account, proxies |-> @.proxies]]
            /\ races' = IF \E u \in At("pushing") : task[u].id = n
                        THEN [races EXCEPT !.ids = @ \cup {n}] ELSE races
      BY <1>3 DEF NumberIt
    <2>2. task[t].account \in Accounts /\ task[t].proxies \in SUBSET Ids
      BY <1>a, <2>1 DEF Calls, Waiting, Adding, Deleting, Asking, Assigning, Writing,
                        WritingMode, WritingSetting, WritingProxies, Steps, Idle
    <2>3. [pc |-> "pushing", id |-> n, account |-> task[t].account,
           proxies |-> task[t].proxies] \in Calls
      BY <1>b, <2>2 DEF Adding
    <2>4. races' \in Overlaps
      BY <1>0, <2>1 DEF Overlaps
    <2>5. task' \in [Tasks -> Calls]
      BY <1>0, <2>1, <2>3
    <2> QED BY <1>0, <1>3, <2>4, <2>5, TypesAreNext DEF NumberIt
  <1>4. CASE Push(t)
    <2>1. PICK place \in Places :
            credentials' = Set(credentials, place,
                               [id |-> task[t].id, account |-> task[t].account,
                                proxies |-> task[t].proxies, disabled |-> FALSE])
      BY <1>4 DEF Push
    <2>2. task[t].id \in Ids /\ task[t].account \in Accounts /\ task[t].proxies \in SUBSET Ids
      BY <1>a, <1>4 DEF Push, Calls, Waiting, Adding, Deleting, Asking, Assigning, Writing,
                        WritingMode, WritingSetting, WritingProxies, Steps, Idle
    <2>3. \A i \in DOMAIN credentials' : i \in Places /\ credentials'[i] \in Entries
      BY <1>0, <2>1, <2>2 DEF Set, Entries
    <2>4. races' \in Overlaps
      <3>1. Missing(task[t].proxies) \in SUBSET Ids
        BY <2>2 DEF Missing
      <3> QED BY <1>0, <1>4, <3>1 DEF Push, Overlaps
    <2> QED BY <1>0, <1>a, <1>4, <2>3, <2>4, TypesAreNext DEF Push, Return
  <1> QED BY <1>1, <1>2, <1>3, <1>4

LEMMA DeletingTypes ==
  ASSUME TypeInv, NEW t \in Tasks,
         SetDisabled(t) \/ Delete(t) \/ DeleteUnsaved(t) \/ ClearBalance(t) \/ SaveBalances(t)
  PROVE  TypeInv'
  <1> USE DEF TypesOf
  <1>0. TypesOf(credentials, proxies, live, file, balances, saved, calls, task, races)
    BY TypesAre
  <1>a. task[t] \in Calls /\ Idle \in Calls
    BY <1>0 DEF Calls, Waiting
  <1>b. Deleting \subseteq Calls
    BY DEF Calls, Waiting
  <1>c. calls < MaxCalls => calls + 1 \in 0 .. MaxCalls
    BY <1>0, AdminAssumption
  <1>d. Known \subseteq Ids
    BY <1>0 DEF Known, Entries
  <1>1. CASE SetDisabled(t)
    <2>1. PICK id \in Known, disabled \in BOOLEAN :
            /\ Answer(t)
            /\ credentials' = [credentials EXCEPT ![First(id)].disabled = disabled]
      BY <1>1 DEF SetDisabled
    <2>2. \A i \in DOMAIN credentials' : i \in Places /\ credentials'[i] \in Entries
      BY <1>0, <2>1 DEF Entries
    <2> QED BY <1>0, <1>c, <1>1, <2>1, <2>2, TypesAreNext DEF SetDisabled, Answer, Call
  <1>2. CASE Delete(t)
    <2>1. PICK id \in Known :
            /\ Begin(t, [pc |-> "clearing", id |-> id])
            /\ credentials' = [i \in {j \in DOMAIN credentials : credentials[j].id # id}
                                 |-> credentials[i]]
      BY <1>2 DEF Delete
    <2>2. [pc |-> "clearing", id |-> id] \in Calls
      BY <1>b, <1>d DEF Deleting
    <2>3. task' \in [Tasks -> Calls] /\ calls' \in 0 .. MaxCalls
      BY <1>0, <1>c, <2>1, <2>2 DEF Begin, Call
    <2>4. \A i \in DOMAIN credentials' : i \in Places /\ credentials'[i] \in Entries
      BY <1>0, <2>1
    <2> QED BY <1>0, <1>2, <2>3, <2>4, TypesAreNext DEF Delete
  <1>3. CASE DeleteUnsaved(t) \/ ClearBalance(t)
    <2>1. task[t].pc = "clearing"
      BY <1>3 DEF DeleteUnsaved, ClearBalance
    <2>2. task[t] \in Deleting /\ task[t].id \in Ids
      BY <1>a, <2>1 DEF Calls, Waiting, Adding, Deleting, Asking, Assigning, Writing,
                        WritingMode, WritingSetting, WritingProxies, Steps, Idle
    <2>3. [task[t] EXCEPT !.pc = "saving"] \in Calls
      BY <1>b, <2>2 DEF Deleting
    <2>4. CASE DeleteUnsaved(t)
      <3>1. races' \in Overlaps
        BY <1>0, <2>2, <2>4 DEF DeleteUnsaved, Overlaps
      <3> QED BY <1>0, <1>a, <2>4, <3>1, TypesAreNext DEF DeleteUnsaved, Return
    <2>5. CASE ClearBalance(t)
      <3>1. races' \in Overlaps
        BY <1>0, <2>2, <2>5 DEF ClearBalance, Overlaps
      <3>2. balances' \in Balances
        <4>1. PICK ids \in SUBSET Ids : balances \in [ids -> Accounts]
          BY <1>0 DEF Balances
        <4>2. balances' \in [ids \ {task[t].id} -> Accounts]
          BY <2>5, <4>1 DEF ClearBalance, Cleared, Without
        <4> QED BY <4>1, <4>2 DEF Balances
      <3>3. task' \in [Tasks -> Calls]
        BY <1>0, <2>3, <2>5 DEF ClearBalance, Go
      <3> QED BY <1>0, <2>5, <3>1, <3>2, <3>3, TypesAreNext DEF ClearBalance
    <2> QED BY <1>3, <2>4, <2>5
  <1>4. CASE SaveBalances(t)
    BY <1>0, <1>a, <1>4, TypesAreNext DEF SaveBalances, Return
  <1> QED BY <1>1, <1>2, <1>3, <1>4

LEMMA AskingTypes ==
  ASSUME TypeInv, NEW t \in Tasks,
         AskBalance(t) \/ SendRequest(t) \/ RequestFails(t) \/ SetPreference(t) \/ CacheBalance(t)
  PROVE  TypeInv'
  <1> USE DEF TypesOf
  <1>0. TypesOf(credentials, proxies, live, file, balances, saved, calls, task, races)
    BY TypesAre
  <1>a. task[t] \in Calls /\ Idle \in Calls
    BY <1>0 DEF Calls, Waiting
  <1>b. Asking \subseteq Calls
    BY DEF Calls, Waiting
  <1>c. calls < MaxCalls => calls + 1 \in 0 .. MaxCalls
    BY <1>0, AdminAssumption
  <1>d. \A id \in Known : id \in Ids /\ credentials[First(id)].account \in Accounts
    BY <1>0, FirstOfKnown DEF Known, Entries
  <1>e. task[t].pc \in {"asked", "fetching", "setting"} => task[t] \in Asking
    BY <1>a DEF Calls, Waiting, Adding, Deleting, Asking, Assigning, Writing,
                WritingMode, WritingSetting, WritingProxies, Steps, Idle
  <1>1. CASE AskBalance(t)
    <2>1. PICK id \in Known, overage \in BOOLEAN :
            Begin(t, [pc |-> "asked", id |-> id, overage |-> overage,
                      account |-> credentials[First(id)].account])
      BY <1>1 DEF AskBalance
    <2>2. [pc |-> "asked", id |-> id, overage |-> overage,
           account |-> credentials[First(id)].account] \in Calls
      BY <1>b, <1>d DEF Asking
    <2>3. task' \in [Tasks -> Calls] /\ calls' \in 0 .. MaxCalls
      BY <1>0, <1>c, <2>1, <2>2 DEF Begin, Call
    <2> QED BY <1>0, <1>1, <2>3, TypesAreNext DEF AskBalance
  <1>2. CASE SendRequest(t)
    <2>1. [task[t] EXCEPT !.pc = "fetching"] \in Calls
      BY <1>b, <1>e, <1>2 DEF SendRequest, Asking
    <2>2. task' \in [Tasks -> Calls]
      BY <1>0, <1>a, <1>2, <2>1 DEF SendRequest, Go, Return
    <2> QED BY <1>0, <1>2, <2>2, TypesAreNext DEF SendRequest
  <1>3. CASE RequestFails(t)
    BY <1>0, <1>a, <1>3, TypesAreNext DEF RequestFails, Return
  <1>4. CASE SetPreference(t)
    <2>1. task[t] \in Asking
      BY <1>e, <1>4 DEF SetPreference
    <2>2. task[t].id \in Known =>
            [task[t] EXCEPT !.pc = "setting", !.account = credentials[First(task[t].id)].account]
              \in Calls
      BY <1>b, <1>d, <2>1 DEF Asking
    <2>3. task' \in [Tasks -> Calls]
      BY <1>0, <1>a, <1>4, <2>2 DEF SetPreference, Return
    <2> QED BY <1>0, <1>4, <2>3, TypesAreNext DEF SetPreference
  <1>5. CASE CacheBalance(t)
    <2>1. task[t] \in Asking
      BY <1>e, <1>5 DEF CacheBalance
    <2>2. balances' \in Balances
      BY <1>0, <1>5, <2>1, SetBalance DEF CacheBalance, Asking
    <2>3. [task[t] EXCEPT !.pc = "saving"] \in Calls
      BY <1>b, <2>1 DEF Asking
    <2>4. task' \in [Tasks -> Calls]
      BY <1>0, <1>5, <2>3 DEF CacheBalance, Go
    <2> QED BY <1>0, <1>5, <2>2, <2>4, TypesAreNext DEF CacheBalance
  <1> QED BY <1>1, <1>2, <1>3, <1>4, <1>5

\* A call whose handler is at one of the sections of an update carries an update.
LEMMA WritingShape ==
  ASSUME TypeInv, NEW u \in Tasks,
         task[u].pc \in {"copying", "loading", "writing", "filling", "applying"}
  PROVE  /\ task[u] \in Writing
         /\ task[u].field \in Fields /\ task[u].base \in Image
         /\ task[u].pc \in {"writing", "filling", "applying"} => task[u].base # <<>>
         /\ task[u].field = "mode" => task[u].old \in Modes
         /\ task[u].field = "mode" => task[u].value \in Modes
         /\ task[u].field \in {"optimizer", "mapping"} => task[u].value \in Settings
         /\ task[u].field = "proxies" => task[u].value \in Profiles
         /\ task[u].pc = "copying" => task[u] \in WritingProxies
  <1>1. task[u] \in Writing
    BY WriterShape DEF Writers
  <1>a. task[u].pc \in {"writing", "filling", "applying"} => task[u].base # <<>>
    BY <1>1 DEF Writing
  <1>2. CASE task[u] \in WritingMode
    BY <1>1, <1>a, <1>2 DEF WritingMode, Fields, Steps
  <1>3. CASE task[u] \in WritingSetting
    BY <1>1, <1>a, <1>3 DEF WritingSetting, Fields, Steps
  <1>4. CASE task[u] \in WritingProxies
    BY <1>1, <1>a, <1>4 DEF WritingProxies, Fields
  <1> QED BY <1>1, <1>2, <1>3, <1>4 DEF Writing

LEMMA JoiningTypes ==
  ASSUME TypeInv, NEW t \in Tasks,
         SetConfig(t) \/ SetMode(t) \/ CreateProxy(t) \/ UpdateProxy(t)
  PROVE  TypeInv'
  <1> USE DEF TypesOf
  <1>0. TypesOf(credentials, proxies, live, file, balances, saved, calls, task, races)
    BY TypesAre
  <1>a. Call => calls' \in 0 .. MaxCalls
    BY <1>0, AdminAssumption DEF Call
  <1>b. Writer("proxies", <<>>, <<>>) \in Writing
    BY EmptyProfile DEF Writer, Writing, WritingProxies, Image, Steps
  <1>1. CASE SetConfig(t)
    <2>1. PICK field \in {"optimizer", "mapping"}, value \in Settings :
            Call /\ Join(t, Writer(field, value, value), races)
      BY <1>1 DEF SetConfig
    <2>2. Writer(field, value, value) \in Writing
      BY DEF Writer, Writing, WritingSetting, Image, Steps
    <2>3. task' \in [Tasks -> Calls] /\ races' \in Overlaps
      BY <1>0, <2>1, <2>2, JoinType
    <2> QED BY <1>0, <1>a, <1>1, <2>1, <2>3, TypesAreNext DEF SetConfig
  <1>2. CASE SetMode(t)
    <2>1. PICK mode \in ValidModes :
            /\ Call
            /\ live' = [live EXCEPT !.mode = mode]
            /\ Join(t, Writer("mode", mode, live.mode), races)
      BY <1>2 DEF SetMode
    <2>2. mode \in Modes /\ live.mode \in Modes
      BY <1>0 DEF ValidModes
    <2>3. Writer("mode", mode, live.mode) \in Writing
      BY <2>2 DEF Writer, Writing, WritingMode, Image, Steps
    <2>4. task' \in [Tasks -> Calls] /\ races' \in Overlaps
      BY <1>0, <2>1, <2>3, JoinType
    <2>5. live' \in [mode : Modes, optimizer : Settings, mapping : Settings]
      BY <1>0, <2>1, <2>2
    <2> QED BY <1>0, <1>a, <1>2, <2>1, <2>4, <2>5, TypesAreNext DEF SetMode
  <1>3. CASE CreateProxy(t)
    <2>1. PICK host \in Hosts, n \in Ids :
            /\ Call
            /\ proxies' = Set(proxies, n, host)
            /\ Join(t, Writer("proxies", <<>>, <<>>), races)
      BY <1>3 DEF CreateProxy
    <2>2. task' \in [Tasks -> Calls] /\ races' \in Overlaps
      BY <1>0, <1>b, <2>1, JoinType
    <2>3. proxies' \in Profiles
      BY <1>0, <2>1, SetProfile
    <2> QED BY <1>0, <1>a, <1>3, <2>1, <2>2, <2>3, TypesAreNext DEF CreateProxy
  <1>4. CASE UpdateProxy(t)
    <2>1. PICK id \in DOMAIN proxies, host \in Hosts :
            /\ Call
            /\ proxies' = [proxies EXCEPT ![id] = host]
            /\ Join(t, Writer("proxies", <<>>, <<>>), races)
      BY <1>4 DEF UpdateProxy
    <2>2. task' \in [Tasks -> Calls] /\ races' \in Overlaps
      BY <1>0, <1>b, <2>1, JoinType
    <2>3. proxies' \in Profiles
      BY <1>0, <2>1 DEF Profiles
    <2> QED BY <1>0, <1>a, <1>4, <2>1, <2>2, <2>3, TypesAreNext DEF UpdateProxy
  <1> QED BY <1>1, <1>2, <1>3, <1>4

LEMMA ProxyTypes ==
  ASSUME TypeInv, NEW t \in Tasks,
         CheckUnused(t) \/ RemoveProxy(t) \/ CheckProxies(t) \/ AssignProxies(t) \/ CopyProxies(t)
  PROVE  TypeInv'
  <1> USE DEF TypesOf
  <1>0. TypesOf(credentials, proxies, live, file, balances, saved, calls, task, races)
    BY TypesAre
  <1>a. task[t] \in Calls /\ Idle \in Calls
    BY <1>0 DEF Calls, Waiting
  <1>b. Deleting \subseteq Calls /\ Assigning \subseteq Calls
    BY DEF Calls, Waiting
  <1>c. Call => calls' \in 0 .. MaxCalls
    BY <1>0, AdminAssumption DEF Call
  <1>d. Known \subseteq Ids /\ DOMAIN proxies \subseteq Ids
    BY <1>0 DEF Known, Entries, Profiles
  <1>1. CASE CheckUnused(t)
    <2>1. PICK id \in DOMAIN proxies : Begin(t, [pc |-> "removing", id |-> id])
      BY <1>1 DEF CheckUnused
    <2>2. [pc |-> "removing", id |-> id] \in Calls
      BY <1>b, <1>d DEF Deleting
    <2>3. task' \in [Tasks -> Calls] /\ calls' \in 0 .. MaxCalls
      BY <1>0, <1>c, <2>1, <2>2 DEF Begin
    <2> QED BY <1>0, <1>1, <2>3, TypesAreNext DEF CheckUnused
  <1>2. CASE RemoveProxy(t)
    <2>1. CASE task[t].id \in DOMAIN proxies
      <3>1. Writer("proxies", <<>>, <<>>) \in Writing
        BY EmptyProfile DEF Writer, Writing, WritingProxies, Image, Steps
      <3>2. task' \in [Tasks -> Calls] /\ races' \in Overlaps
        BY <1>0, <1>2, <2>1, <3>1, JoinType DEF RemoveProxy
      <3>3. proxies' \in Profiles
        <4>1. PICK ps \in SUBSET Ids : proxies \in [ps -> Hosts]
          BY <1>0 DEF Profiles
        <4>2. proxies' \in [ps \ {task[t].id} -> Hosts]
          BY <1>2, <2>1, <4>1 DEF RemoveProxy, Without
        <4> QED BY <4>1, <4>2 DEF Profiles
      <3> QED BY <1>0, <1>2, <3>2, <3>3, TypesAreNext DEF RemoveProxy
    <2>2. CASE task[t].id \notin DOMAIN proxies
      BY <1>0, <1>a, <1>2, <2>2, TypesAreNext DEF RemoveProxy, Return
    <2> QED BY <2>1, <2>2
  <1>3. CASE CheckProxies(t)
    <2>1. PICK ids \in SUBSET Known, ps \in SUBSET DOMAIN proxies :
            Begin(t, [pc |-> "assigning", ids |-> ids, proxies |-> ps])
      BY <1>3 DEF CheckProxies
    <2>2. [pc |-> "assigning", ids |-> ids, proxies |-> ps] \in Calls
      BY <1>b, <1>d DEF Assigning
    <2>3. task' \in [Tasks -> Calls] /\ calls' \in 0 .. MaxCalls
      BY <1>0, <1>c, <2>1, <2>2 DEF Begin
    <2> QED BY <1>0, <1>3, <2>3, TypesAreNext DEF CheckProxies
  <1>4. CASE AssignProxies(t)
    <2>1. task[t].proxies \in SUBSET Ids
      BY <1>a, <1>4 DEF AssignProxies, Calls, Waiting, Adding, Deleting, Asking, Assigning, Writing,
                        WritingMode, WritingSetting, WritingProxies, Steps, Idle
    <2>2. \A i \in DOMAIN credentials' : i \in Places /\ credentials'[i] \in Entries
      BY <1>0, <1>4, <2>1 DEF AssignProxies, Entries
    <2>3. races' \in Overlaps
      BY <1>0, <1>4, <2>1 DEF AssignProxies, Missing, Overlaps
    <2> QED BY <1>0, <1>a, <1>4, <2>2, <2>3, TypesAreNext DEF AssignProxies, Return
  <1>5. CASE CopyProxies(t)
    <2>1. task[t] \in WritingProxies
      BY <1>5, WritingShape DEF CopyProxies
    <2>2. [task[t] EXCEPT !.pc = "loading", !.value = proxies] \in WritingProxies
      BY <1>0, <2>1 DEF WritingProxies, Steps
    <2>3. task' \in [Tasks -> Calls]
      <3>1. [task[t] EXCEPT !.pc = "loading", !.value = proxies].pc = "loading"
        BY <2>1 DEF WritingProxies
      <3>2. [task[t] EXCEPT !.pc = "loading", !.value = proxies] \in Calls
        BY <2>2, <3>1 DEF Calls, Writing
      <3> QED BY <1>0, <1>5, <3>2 DEF CopyProxies
    <2> QED BY <1>0, <1>5, <2>3, TypesAreNext DEF CopyProxies
  <1> QED BY <1>1, <1>2, <1>3, <1>4, <1>5

LEMMA FileTypes ==
  ASSUME TypeInv, NEW t \in Tasks,
         \/ Load(t) \/ LoadFails(t) \/ SaveFails(t) \/ Truncate(t)
         \/ WriteFails(t) \/ Fill(t) \/ Apply(t)
  PROVE  TypeInv'
  <1> USE DEF TypesOf
  <1>0. TypesOf(credentials, proxies, live, file, balances, saved, calls, task, races)
    BY TypesAre
  <1>a. /\ task[t] \in Writing
        /\ task[t].field \in Fields /\ task[t].base \in Image
        /\ task[t].pc \in {"writing", "filling", "applying"} => task[t].base # <<>>
    BY WritingShape DEF Load, LoadFails, SaveFails, Truncate, WriteFails, Fill, Apply
  <1>b. Idle \in Calls /\ Writing \subseteq Calls /\ <<>> \in Image
    BY DEF Calls, Waiting, Image
  <1>c. Return(t) => task' \in [Tasks -> Calls]
    BY <1>0, <1>b DEF Return
  <1>d. \A pc \in Steps : task[t].base # <<>> /\ Go(t, pc) => task' \in [Tasks -> Calls]
    BY <1>0, <1>a, <1>b, StepShape DEF Go
  <1>e. Restored(t) \in [mode : Modes, optimizer : Settings, mapping : Settings]
    BY <1>0, WritingShape, <1>a DEF Restored, Writing, WritingMode, WritingSetting, WritingProxies
  <1>f. ASSUME NEW doubt \in SUBSET Fields, Fail(t, doubt)
        PROVE  /\ live' \in [mode : Modes, optimizer : Settings, mapping : Settings]
               /\ races' \in Overlaps /\ task' \in [Tasks -> Calls]
    BY <1>0, <1>a, <1>c, <1>e, <1>f DEF Fail, Overlaps
  <1>g. Settled(t) \in Overlaps
    BY <1>0 DEF Settled, Overlaps
  <1>1. CASE Load(t)
    <2>1. [task[t] EXCEPT !.pc = "writing", !.base = file] \in Writing
      <3>1. file \in Image /\ file # <<>>
        BY <1>0, <1>1 DEF Load
      <3>2. CASE task[t] \in WritingMode
        BY <3>1, <3>2 DEF WritingMode, Writing, Steps
      <3>3. CASE task[t] \in WritingSetting
        BY <3>1, <3>3 DEF WritingSetting, Writing, Steps
      <3>4. CASE task[t] \in WritingProxies
        BY <3>1, <3>4 DEF WritingProxies, Writing, Steps
      <3> QED BY <1>a, <3>2, <3>3, <3>4 DEF Writing
    <2>2. task' \in [Tasks -> Calls]
      BY <1>0, <1>b, <1>1, <2>1 DEF Load
    <2> QED BY <1>0, <1>1, <2>2, TypesAreNext DEF Load
  <1>2. CASE LoadFails(t)
    BY <1>0, <1>2, <1>f, TypesAreNext DEF LoadFails
  <1>3. CASE SaveFails(t)
    BY <1>0, <1>3, <1>f, TypesAreNext DEF SaveFails
  <1>4. CASE Truncate(t)
    BY <1>0, <1>4, <1>a, <1>b, <1>d, TypesAreNext DEF Truncate, Steps
  <1>5. CASE WriteFails(t)
    BY <1>0, <1>5, <1>b, <1>f, TypesAreNext DEF WriteFails
  <1>6. CASE Fill(t)
    <2> DEFINE updated == <<[task[t].base[1] EXCEPT ![task[t].field] = task[t].value]>>
    <2>1. task[t].pc = "filling" /\ task[t].base # <<>>
      BY <1>6, <1>a DEF Fill
    <2>2. updated \in Image
      <3>1. PICK c \in Contents : task[t].base = <<c>>
        BY <1>a, <2>1 DEF Image
      <3>2. [c EXCEPT ![task[t].field] = task[t].value] \in Contents
        BY <1>a, <2>1, WritingShape DEF Contents, Fields
      <3> QED BY <3>1, <3>2 DEF Image
    <2>3. file' \in Image
      BY <1>6, <1>b, <2>2 DEF Fill
    <2>4. races' \in Overlaps
      BY <1>0, <1>6, <1>g DEF Fill, Overlaps
    <2>5. task' \in [Tasks -> Calls]
      BY <1>6, <1>c, <1>d, <2>1 DEF Fill, Steps
    <2> QED BY <1>0, <1>6, <2>3, <2>4, <2>5, TypesAreNext DEF Fill
  <1>7. CASE Apply(t)
    <2>1. task[t].pc = "applying"
      BY <1>7 DEF Apply
    <2>2. live' \in [mode : Modes, optimizer : Settings, mapping : Settings]
      BY <1>0, <1>7, <1>a, <2>1, WritingShape DEF Apply, Fields
    <2> QED BY <1>0, <1>7, <1>c, <1>g, <2>2, TypesAreNext DEF Apply
  <1> QED BY <1>1, <1>2, <1>3, <1>4, <1>5, <1>6, <1>7

LEMMA TypeNext == TypeInv /\ [Next]_vars => TypeInv'
  <1> SUFFICES ASSUME TypeInv, [Next]_vars PROVE TypeInv'
    OBVIOUS
  <1>1. CASE UNCHANGED vars
    BY <1>1, TypesAre, TypesAreNext DEF vars
  <1>2. CASE Next
    <2>1. PICK t \in Tasks :
            \/ CheckDuplicate(t) \/ NotGranted(t) \/ NumberIt(t) \/ Push(t) \/ SetDisabled(t)
            \/ Delete(t) \/ DeleteUnsaved(t) \/ ClearBalance(t) \/ SaveBalances(t)
            \/ AskBalance(t) \/ SendRequest(t) \/ RequestFails(t) \/ SetPreference(t)
            \/ CacheBalance(t) \/ SetConfig(t) \/ SetMode(t) \/ CreateProxy(t) \/ UpdateProxy(t)
            \/ CheckUnused(t) \/ RemoveProxy(t) \/ CheckProxies(t) \/ AssignProxies(t)
            \/ CopyProxies(t) \/ Load(t) \/ LoadFails(t) \/ SaveFails(t) \/ Truncate(t)
            \/ WriteFails(t) \/ Fill(t) \/ Apply(t)
      BY <1>2 DEF Next
    <2> QED BY <2>1, AddingTypes, DeletingTypes, AskingTypes, JoiningTypes, ProxyTypes, FileTypes
  <1> QED BY <1>1, <1>2

\* Credentials, proxies, settings, caches and config.json keep their types over
\* every interleaving of the admin calls (AdminService, MultiTokenManager).
THEOREM AdminTypes == Spec => []TypeOK
  <1>1. TypeInv => TypeOK
    BY DEF TypeInv
  <1> QED BY <1>1, TypeInit, TypeNext, PTL DEF Spec

-----------------------------------------------------------------------------
(* What the sections of an update leave alone. *)

Sections == {"granting", "pushing", "clearing", "saving", "removing",
             "asked", "fetching", "setting", "assigning"}

SettingsStep(t) ==
  \/ SetConfig(t) \/ SetMode(t) \/ CreateProxy(t) \/ UpdateProxy(t) \/ RemoveProxy(t)
  \/ CopyProxies(t) \/ Load(t) \/ LoadFails(t) \/ SaveFails(t) \/ Truncate(t)
  \/ WriteFails(t) \/ Fill(t) \/ Apply(t)

LEMMA SectionsApart ==
  /\ Idle.pc \notin Sections
  /\ \A c \in Writing : c.pc \notin Sections
  BY DEF Sections, Writing, WritingMode, WritingSetting, WritingProxies, Steps, Idle

LEMMA JoinFrame ==
  ASSUME TypeInv, NEW t \in Tasks, NEW call \in Writing, NEW doubt \in Overlaps,
         Join(t, call, doubt)
  PROVE  /\ task'[t].pc \notin Sections
         /\ \A u \in Tasks \ {t} : \/ task'[u] = task[u]
                                   \/ task[u].pc \notin Sections /\ task'[u].pc \notin Sections
         /\ races'.ids = doubt.ids /\ races'.accounts = doubt.accounts
         /\ races'.balances = doubt.balances /\ races'.proxies = doubt.proxies
  <1> DEFINE others == Writers \ {t}
             alone == others = {}
  <1>1. alone \in BOOLEAN
    OBVIOUS
  <1>2. task' = [u \in Tasks |->
                   IF u = t THEN [call EXCEPT !.alone = alone]
                   ELSE IF u \in others THEN [task[u] EXCEPT !.alone = FALSE] ELSE task[u]]
    BY DEF Join
  <1>3. task'[t] \in Writing
    BY <1>1, <1>2, AloneShape
  <1>4. \A u \in Tasks : u \in others => task[u] \in Writing /\ task'[u] \in Writing
    BY <1>2, WriterShape, AloneShape
  <1>5. \A u \in Tasks \ {t} : u \notin others => task'[u] = task[u]
    BY <1>2
  <1>6. races' = IF alone THEN doubt
                 ELSE [doubt EXCEPT !.fields = @ \cup {call.field} \cup FieldsOf(others)]
    BY DEF Join
  <1>7. /\ races'.ids = doubt.ids /\ races'.accounts = doubt.accounts
        /\ races'.balances = doubt.balances /\ races'.proxies = doubt.proxies
    BY <1>6 DEF Overlaps
  <1> QED BY <1>3, <1>4, <1>5, <1>7, SectionsApart

\* An update touches no credential, no balance and no call of another kind.
LEMMA SettingsFrame ==
  ASSUME TypeInv, NEW t \in Tasks, SettingsStep(t)
  PROVE  /\ credentials' = credentials /\ balances' = balances
         /\ races'.ids = races.ids /\ races'.accounts = races.accounts
         /\ races'.balances = races.balances /\ races'.proxies = races.proxies
         /\ \A u \in Tasks : task'[u].pc \in Sections => task'[u] = task[u]
         /\ \A u \in Tasks : task[u].pc \in Sections \ {"removing"} => task'[u] = task[u]
         /\ \A u \in Tasks \ {t} : task[u].pc = "removing" => task'[u] = task[u]
         /\ task'[t].pc \notin Sections
         /\ task[t].pc \notin Sections \ {"removing"}
  <1>0. races \in Overlaps /\ task \in [Tasks -> Calls]
    BY DEF TypeInv
  <1>1. CASE SetConfig(t) \/ SetMode(t) \/ CreateProxy(t) \/ UpdateProxy(t)
    <2>1. PICK call \in Writing : Join(t, call, races)
      <3>1. CASE SetConfig(t)
        <4>1. PICK field \in {"optimizer", "mapping"}, value \in Settings :
                Join(t, Writer(field, value, value), races)
          BY <3>1 DEF SetConfig
        <4>2. Writer(field, value, value) \in Writing
          BY DEF Writer, Writing, WritingSetting, Image, Steps
        <4> QED BY <4>1, <4>2
      <3>2. CASE SetMode(t)
        <4>1. PICK mode \in ValidModes : Join(t, Writer("mode", mode, live.mode), races)
          BY <3>2 DEF SetMode
        <4>2. live.mode \in Modes /\ mode \in Modes
          BY DEF TypeInv, TypeOK, ValidModes
        <4>3. Writer("mode", mode, live.mode) \in Writing
          BY <4>2 DEF Writer, Writing, WritingMode, Image, Steps
        <4> QED BY <4>1, <4>3
      <3>3. CASE CreateProxy(t) \/ UpdateProxy(t)
        <4>1. Writer("proxies", <<>>, <<>>) \in Writing
          BY EmptyProfile DEF Writer, Writing, WritingProxies, Image, Steps
        <4> QED BY <3>3, <4>1 DEF CreateProxy, UpdateProxy
      <3> QED BY <1>1, <3>1, <3>2, <3>3
    <2>2. task[t] = Idle /\ credentials' = credentials /\ balances' = balances
      BY <1>1 DEF SetConfig, SetMode, CreateProxy, UpdateProxy
    <2>3. /\ task'[t].pc \notin Sections
          /\ \A u \in Tasks \ {t} : \/ task'[u] = task[u]
                                    \/ task[u].pc \notin Sections /\ task'[u].pc \notin Sections
          /\ races'.ids = races.ids /\ races'.accounts = races.accounts
          /\ races'.balances = races.balances /\ races'.proxies = races.proxies
      BY <1>0, <2>1, JoinFrame
    <2>4. task[t].pc \notin Sections
      BY <2>2, SectionsApart
    <2>5. "removing" \in Sections
      BY DEF Sections
    <2> QED BY <2>2, <2>3, <2>4, <2>5
  <1>2. CASE RemoveProxy(t)
    <2>1. CASE task[t].id \in DOMAIN proxies
      <3>1. Writer("proxies", <<>>, <<>>) \in Writing
        BY EmptyProfile DEF Writer, Writing, WritingProxies, Image, Steps
      <3>2. /\ task'[t].pc \notin Sections
            /\ \A u \in Tasks \ {t} : \/ task'[u] = task[u]
                                      \/ task[u].pc \notin Sections /\ task'[u].pc \notin Sections
            /\ races'.ids = races.ids /\ races'.accounts = races.accounts
            /\ races'.balances = races.balances /\ races'.proxies = races.proxies
        BY <1>0, <1>2, <2>1, <3>1, JoinFrame DEF RemoveProxy
      <3>3. task[t].pc = "removing" /\ credentials' = credentials /\ balances' = balances
        BY <1>2 DEF RemoveProxy
      <3>4. "removing" \in Sections
        BY DEF Sections
      <3> QED BY <3>2, <3>3, <3>4
    <2>2. CASE task[t].id \notin DOMAIN proxies
      BY <1>0, <1>2, <2>2, SectionsApart DEF RemoveProxy, Return
    <2> QED BY <2>1, <2>2
  <1>3. CASE \/ CopyProxies(t) \/ Load(t) \/ LoadFails(t) \/ SaveFails(t) \/ Truncate(t)
             \/ WriteFails(t) \/ Fill(t) \/ Apply(t)
    <2>1. task[t] \in Writing
      BY <1>3, WritingShape DEF CopyProxies, Load, LoadFails, SaveFails, Truncate, WriteFails,
                                Fill, Apply
    <2>2. task'[t].pc \notin Sections /\ \A u \in Tasks \ {t} : task'[u] = task[u]
      <3>1. DOMAIN task[t] = {"pc", "field", "value", "old", "base", "alone"}
        BY <2>1 DEF Writing, WritingMode, WritingSetting, WritingProxies
      <3>2. \A pc \in Steps : [task[t] EXCEPT !.pc = pc].pc = pc
        BY <3>1
      <3>3. [task[t] EXCEPT !.pc = "loading", !.value = proxies].pc = "loading"
        BY <3>1
      <3>4. [task[t] EXCEPT !.pc = "writing", !.base = file].pc = "writing"
        BY <3>1
      <3>5. \A pc \in Steps : pc \notin Sections
        BY DEF Steps, Sections
      <3>6. \A pc \in Steps : Go(t, pc) => task'[t].pc = pc /\ \A u \in Tasks \ {t} : task'[u] = task[u]
        BY <1>0, <3>2 DEF Go
      <3>7. Return(t) => task'[t] = Idle /\ \A u \in Tasks \ {t} : task'[u] = task[u]
        BY <1>0 DEF Return
      <3>8. CASE CopyProxies(t)
        BY <1>0, <3>3, <3>5, <3>8 DEF CopyProxies, Steps
      <3>9. CASE Load(t)
        BY <1>0, <3>4, <3>5, <3>9 DEF Load, Steps
      <3> QED BY <1>3, <3>5, <3>6, <3>7, <3>8, <3>9, SectionsApart
              DEF LoadFails, SaveFails, Truncate, WriteFails, Fill, Apply, Fail, Steps
    <2>3. credentials' = credentials /\ balances' = balances
      BY <1>3 DEF CopyProxies, Load, LoadFails, SaveFails, Truncate, WriteFails, Fill, Apply
    <2>4. /\ races'.ids = races.ids /\ races'.accounts = races.accounts
          /\ races'.balances = races.balances /\ races'.proxies = races.proxies
      BY <1>0, <1>3 DEF CopyProxies, Load, LoadFails, SaveFails, Truncate, WriteFails, Fill, Apply,
                        Fail, Settled, Overlaps
    <2> QED BY <2>1, <2>2, <2>3, <2>4, SectionsApart
  <1> QED BY <1>1, <1>2, <1>3 DEF SettingsStep

-----------------------------------------------------------------------------
(* Ids and accounts.  Distinct is not inductive: what matters is that an    *)
(* addition on its way repeats neither an entry nor another addition.       *)

Adders == At("granting") \cup At("pushing")

NewIdsFree == \A u \in At("pushing") : task[u].id \in Known => task[u].id \in races.ids
NewIdsApart == \A u, v \in At("pushing") :
                 u # v /\ task[u].id = task[v].id => task[u].id \in races.ids
NewAccountsFree == \A u \in Adders : Duplicate(task[u].account) => task[u].account \in races.accounts
NewAccountsApart == \A u, v \in Adders :
                      u # v /\ task[u].account = task[v].account => task[u].account \in races.accounts

DistinctInv == Distinct /\ NewIdsFree /\ NewIdsApart /\ NewAccountsFree /\ NewAccountsApart

OtherStep(t) ==
  \/ SetDisabled(t) \/ Delete(t) \/ DeleteUnsaved(t) \/ ClearBalance(t) \/ SaveBalances(t)
  \/ AskBalance(t) \/ SendRequest(t) \/ RequestFails(t) \/ SetPreference(t) \/ CacheBalance(t)
  \/ CheckUnused(t) \/ CheckProxies(t) \/ AssignProxies(t)

\* What a call on its way to or from a service, or to a balance, carries.
LEMMA ShapeAt ==
  ASSUME TypeInv, NEW u \in Tasks
  PROVE  /\ task[u].pc \in {"asked", "fetching", "setting"} => task[u] \in Asking
         /\ task[u].pc \in {"clearing", "removing"} => task[u] \in Deleting
         /\ task[u].pc = "saving" => task[u] \in Deleting \cup Asking
         /\ task[u].pc = "assigning" => task[u] \in Assigning
         /\ task[u].pc \in {"granting", "pushing"} => task[u] \in Adding
  BY WriterShape DEF Calls, Waiting, Adding, Deleting, Asking, Assigning, Writing,
                     WritingMode, WritingSetting, WritingProxies, Steps, Idle

\* A step that is neither an addition nor an update leaves the additions alone,
\* and adds no entry.
LEMMA OthersFrame ==
  ASSUME TypeInv, NEW t \in Tasks, OtherStep(t)
  PROVE  /\ \A u \in Tasks \ {t} : task'[u] = task[u]
         /\ task'[t].pc \notin {"granting", "pushing"} \/ task'[t] = task[t]
         /\ task'[t].pc = "removing" => task'[t] = task[t] \/ CheckUnused(t)
         /\ races'.ids = races.ids /\ races'.accounts = races.accounts
         /\ \A i \in DOMAIN credentials' :
              /\ i \in DOMAIN credentials
              /\ credentials'[i].id = credentials[i].id
              /\ credentials'[i].account = credentials[i].account
  <1>0. races \in Overlaps /\ task \in [Tasks -> Calls]
        /\ \A i \in DOMAIN credentials : credentials[i] \in Entries
    BY DEF TypeInv, TypeOK
  <1>1. ASSUME NEW c, Begin(t, c)
        PROVE  task'[t] = c /\ \A u \in Tasks \ {t} : task'[u] = task[u]
    BY <1>0, <1>1 DEF Begin
  <1>2. Return(t) => task'[t].pc = "idle" /\ \A u \in Tasks \ {t} : task'[u] = task[u]
    BY <1>0 DEF Return, Idle
  <1>3. ASSUME NEW pc, Go(t, pc), task[t] \in Asking \cup Deleting
        PROVE  task'[t].pc = pc /\ \A u \in Tasks \ {t} : task'[u] = task[u]
    BY <1>0, <1>3 DEF Go, Asking, Deleting
  <1>4. CASE SetDisabled(t) \/ Delete(t)
    <2>1. CASE SetDisabled(t)
      BY <1>0, <2>1 DEF SetDisabled, Answer, Entries
    <2>2. CASE Delete(t)
      <3>1. PICK id \in Known :
              /\ Begin(t, [pc |-> "clearing", id |-> id])
              /\ credentials' = [i \in {j \in DOMAIN credentials : credentials[j].id # id}
                                   |-> credentials[i]]
              /\ races' = races
        BY <2>2 DEF Delete
      <3> QED BY <1>1, <3>1
    <2> QED BY <1>4, <2>1, <2>2
  <1>5. CASE DeleteUnsaved(t) \/ ClearBalance(t) \/ SaveBalances(t)
    <2>1. races'.ids = races.ids /\ races'.accounts = races.accounts /\ credentials' = credentials
      BY <1>0, <1>5 DEF DeleteUnsaved, ClearBalance, SaveBalances, Overlaps
    <2>2. Return(t) \/ (Go(t, "saving") /\ task[t] \in Deleting)
      BY <1>5, ShapeAt DEF DeleteUnsaved, ClearBalance, SaveBalances
    <2> QED BY <1>2, <1>3, <2>1, <2>2
  <1>6. CASE AskBalance(t)
    <2>1. PICK id \in Known, overage \in BOOLEAN :
            Begin(t, [pc |-> "asked", id |-> id, overage |-> overage,
                      account |-> credentials[First(id)].account])
      BY <1>6 DEF AskBalance
    <2> QED BY <1>1, <1>6, <2>1 DEF AskBalance
  <1>7. CASE SendRequest(t) \/ RequestFails(t) \/ CacheBalance(t)
    <2>1. races' = races /\ credentials' = credentials
      BY <1>7 DEF SendRequest, RequestFails, CacheBalance
    <2>2. Return(t) \/ (task[t] \in Asking /\ \E pc \in {"fetching", "saving"} : Go(t, pc))
      BY <1>7, ShapeAt DEF SendRequest, RequestFails, CacheBalance
    <2> QED BY <1>2, <1>3, <2>1, <2>2
  <1>8. CASE SetPreference(t)
    <2>1. task[t] \in Asking
      BY <1>8, ShapeAt DEF SetPreference
    <2>2. [task[t] EXCEPT !.pc = "setting", !.account = credentials[First(task[t].id)].account].pc
            = "setting"
      BY <2>1 DEF Asking
    <2> QED BY <1>0, <1>2, <1>8, <2>2 DEF SetPreference
  <1>9. CASE CheckUnused(t) \/ CheckProxies(t)
    <2>1. races' = races /\ credentials' = credentials
      BY <1>9 DEF CheckUnused, CheckProxies
    <2>2. \E c : Begin(t, c) /\ (c.pc = "assigning" \/ (c.pc = "removing" /\ CheckUnused(t)))
      <3>1. CASE CheckUnused(t)
        <4>1. PICK id \in DOMAIN proxies : Begin(t, [pc |-> "removing", id |-> id])
          BY <3>1 DEF CheckUnused
        <4> QED BY <3>1, <4>1
      <3>2. CASE CheckProxies(t)
        <4>1. PICK ids \in SUBSET Known, ps \in SUBSET DOMAIN proxies :
                Begin(t, [pc |-> "assigning", ids |-> ids, proxies |-> ps])
          BY <3>2 DEF CheckProxies
        <4> QED BY <4>1
      <3> QED BY <1>9, <3>1, <3>2
    <2> QED BY <1>1, <2>1, <2>2
  <1>10. CASE AssignProxies(t)
    <2>1. \A i \in DOMAIN credentials' :
              /\ i \in DOMAIN credentials
              /\ credentials'[i].id = credentials[i].id
              /\ credentials'[i].account = credentials[i].account
      BY <1>0, <1>10 DEF AssignProxies, Entries
    <2>2. races'.ids = races.ids /\ races'.accounts = races.accounts
      BY <1>0, <1>10 DEF AssignProxies, Overlaps
    <2> QED BY <1>2, <1>10, <2>1, <2>2 DEF AssignProxies
  <1> QED BY <1>4, <1>5, <1>6, <1>7, <1>8, <1>9, <1>10 DEF OtherStep

\* A step that adds nothing keeps ids and accounts apart.
LEMMA NothingAdded ==
  ASSUME TypeInv, DistinctInv,
         \A u \in Tasks : task'[u].pc \in {"granting", "pushing"} => task'[u] = task[u],
         races.ids \subseteq races'.ids, races.accounts \subseteq races'.accounts,
         \A i \in DOMAIN credentials' :
              /\ i \in DOMAIN credentials
              /\ credentials'[i].id = credentials[i].id
              /\ credentials'[i].account = credentials[i].account
  PROVE  DistinctInv'
  <1>1. Distinct'
    BY DEF DistinctInv, Distinct
  <1>2. Known' \subseteq Known /\ \A a : Duplicate(a)' => Duplicate(a)
    BY DEF Known, Duplicate
  <1>3. /\ \A u \in At("pushing")' : u \in At("pushing") /\ task'[u] = task[u]
        /\ \A u \in Adders' : u \in Adders /\ task'[u] = task[u]
    BY DEF At, Adders
  <1>4. NewIdsFree' /\ NewIdsApart'
    BY <1>2, <1>3 DEF DistinctInv, NewIdsFree, NewIdsApart
  <1>5. NewAccountsFree'
    BY <1>2, <1>3 DEF DistinctInv, NewAccountsFree
  <1>6. NewAccountsApart'
    BY <1>3 DEF DistinctInv, NewAccountsApart
  <1> QED BY <1>1, <1>4, <1>5, <1>6 DEF DistinctInv

LEMMA CheckDuplicateDistinct ==
  ASSUME TypeInv, DistinctInv, NEW t \in Tasks, CheckDuplicate(t)
  PROVE  DistinctInv'
  <1>1. PICK a \in Accounts, ps \in SUBSET Ids :
          /\ ~Duplicate(a)
          /\ task[t] = Idle /\ task' = [task EXCEPT ![t] = [pc |-> "granting", account |-> a, proxies |-> ps]]
          /\ races' = IF \E u \in At("granting") \cup At("pushing") : task[u].account = a
                      THEN [races EXCEPT !.accounts = @ \cup {a}] ELSE races
          /\ credentials' = credentials
    BY DEF CheckDuplicate, Begin
  <1>2. /\ task'[t] = [pc |-> "granting", account |-> a, proxies |-> ps]
        /\ \A u \in Tasks \ {t} : task'[u] = task[u]
    BY <1>1 DEF TypeInv
  <1>3. /\ races'.ids = races.ids /\ races.accounts \subseteq races'.accounts
        /\ \A u \in Adders : task[u].account = a => a \in races'.accounts
    BY <1>1 DEF TypeInv, Overlaps, Adders
  <1>4. /\ At("pushing")' = At("pushing") /\ t \notin At("pushing") /\ t \notin Adders
        /\ Adders' = Adders \cup {t}
    BY <1>1, <1>2 DEF At, Adders, Idle
  <1>5. Distinct'
    BY <1>1, <1>3 DEF DistinctInv, Distinct
  <1>6. NewIdsFree' /\ NewIdsApart'
    <2>1. \A u \in At("pushing") : task'[u] = task[u]
      BY <1>2, <1>4 DEF At
    <2> QED BY <1>1, <1>3, <1>4, <2>1 DEF DistinctInv, NewIdsFree, NewIdsApart, Known
  <1>7. NewAccountsFree' /\ NewAccountsApart'
    <2>1. \A u \in Adders : u \in Tasks \ {t} /\ task'[u] = task[u]
      BY <1>2, <1>4 DEF At, Adders
    <2>2. \A b : Duplicate(b)' <=> Duplicate(b)
      BY <1>1 DEF Duplicate
    <2>3. task'[t].account = a
      BY <1>2
    <2> QED BY <1>1, <1>3, <1>4, <2>1, <2>2, <2>3 DEF DistinctInv, NewAccountsFree, NewAccountsApart
  <1> QED BY <1>5, <1>6, <1>7 DEF DistinctInv

LEMMA NumberItDistinct ==
  ASSUME TypeInv, DistinctInv, NEW t \in Tasks, NumberIt(t)
  PROVE  DistinctInv'
  <1>1. PICK n \in Ids :
          /\ task[t].pc = "granting"
          /\ IsNewId(n)
          /\ task' = [task EXCEPT ![t] = [pc |-> "pushing", id |-> n,
                                          account |-> @.account, proxies |-> @.proxies]]
          /\ races' = IF \E u \in At("pushing") : task[u].id = n
                      THEN [races EXCEPT !.ids = @ \cup {n}] ELSE races
          /\ credentials' = credentials
    BY DEF NumberIt
  <1>2. /\ task'[t] = [pc |-> "pushing", id |-> n,
                       account |-> task[t].account, proxies |-> task[t].proxies]
        /\ \A u \in Tasks \ {t} : task'[u] = task[u]
    BY <1>1 DEF TypeInv
  <1>3. /\ races'.accounts = races.accounts /\ races.ids \subseteq races'.ids
        /\ \A u \in At("pushing") : task[u].id = n => n \in races'.ids
    BY <1>1 DEF TypeInv, Overlaps
  <1>4. /\ t \in Adders /\ t \notin At("pushing")
        /\ At("pushing")' = At("pushing") \cup {t} /\ Adders' = Adders
    BY <1>1, <1>2 DEF At, Adders
  <1>5. n \notin Known
    <2>1. Known \subseteq Int
      BY DEF TypeInv, TypeOK, Known, Entries, Ids
    <2> QED BY <1>1, <2>1 DEF IsNewId, IsNext, Ids
  <1>6. Distinct'
    BY <1>1, <1>3 DEF DistinctInv, Distinct
  <1>7. NewIdsFree' /\ NewIdsApart'
    <2>1. \A u \in At("pushing") : u \in Tasks \ {t} /\ task'[u] = task[u]
      BY <1>2, <1>4 DEF At
    <2>2. Known' = Known
      BY <1>1 DEF Known
    <2>3. task'[t].id = n
      BY <1>2
    <2> QED BY <1>3, <1>4, <1>5, <2>1, <2>2, <2>3 DEF DistinctInv, NewIdsFree, NewIdsApart
  <1>8. NewAccountsFree' /\ NewAccountsApart'
    <2>1. \A u \in Adders : task'[u].account = task[u].account
      BY <1>2 DEF At, Adders
    <2>2. \A b : Duplicate(b)' <=> Duplicate(b)
      BY <1>1 DEF Duplicate
    <2> QED BY <1>3, <1>4, <2>1, <2>2 DEF DistinctInv, NewAccountsFree, NewAccountsApart
  <1> QED BY <1>6, <1>7, <1>8 DEF DistinctInv

LEMMA PushDistinct ==
  ASSUME TypeInv, DistinctInv, NEW t \in Tasks, Push(t)
  PROVE  DistinctInv'
  <1> DEFINE new == [id |-> task[t].id, account |-> task[t].account,
                     proxies |-> task[t].proxies, disabled |-> FALSE]
  <1>1. PICK place \in Places :
          /\ task[t].pc = "pushing"
          /\ IsNext(place, DOMAIN credentials)
          /\ credentials' = Set(credentials, place, new)
          /\ races' = [races EXCEPT !.proxies = @ \cup Missing(task[t].proxies)]
          /\ Return(t)
    BY DEF Push
  <1>2. task'[t] = Idle /\ \A u \in Tasks \ {t} : task'[u] = task[u]
    BY <1>1 DEF Return, TypeInv
  <1>3. races'.ids = races.ids /\ races'.accounts = races.accounts
    BY <1>1 DEF TypeInv, Overlaps
  <1>4. /\ t \in At("pushing") /\ t \in Adders
        /\ At("pushing")' = At("pushing") \ {t} /\ Adders' = Adders \ {t}
    BY <1>1, <1>2 DEF At, Adders, Idle
  <1>5. place \notin DOMAIN credentials
    <2>1. DOMAIN credentials \subseteq Int /\ place \in Int
      BY DEF TypeInv, TypeOK, Places
    <2> QED BY <1>1, <2>1 DEF IsNext
  <1>6. /\ DOMAIN credentials' = DOMAIN credentials \cup {place}
        /\ credentials'[place] = new
        /\ \A i \in DOMAIN credentials : credentials'[i] = credentials[i]
    BY <1>1, <1>5 DEF Set
  <1>7. \A u \in Adders' : u \in Adders \ {t} /\ u \in Tasks \ {t} /\ task'[u] = task[u]
    BY <1>2, <1>4 DEF At, Adders
  <1>8. At("pushing")' \subseteq Adders'
    BY DEF Adders
  <1>9. Known' = Known \cup {task[t].id}
    BY <1>6 DEF Known
  <1>10. \A a : Duplicate(a)' <=> Duplicate(a) \/ a = task[t].account
    BY <1>6 DEF Duplicate
  <1>11. Distinct'
    <2>1. /\ \A i \in DOMAIN credentials : credentials[i].id = task[t].id => task[t].id \in races.ids
          /\ \A i \in DOMAIN credentials :
               credentials[i].account = task[t].account => task[t].account \in races.accounts
      BY <1>4 DEF DistinctInv, NewIdsFree, NewAccountsFree, Known, Duplicate
    <2> SUFFICES ASSUME NEW i \in DOMAIN credentials', NEW j \in DOMAIN credentials', i # j
                 PROVE  /\ credentials'[i].id = credentials'[j].id => credentials'[i].id \in races'.ids
                        /\ credentials'[i].account = credentials'[j].account
                             => credentials'[i].account \in races'.accounts
      BY DEF Distinct
    <2>2. CASE i # place /\ j # place
      BY <1>3, <1>6, <2>2 DEF DistinctInv, Distinct
    <2>3. CASE i = place
      BY <1>3, <1>6, <2>1, <2>3
    <2>4. CASE j = place
      BY <1>3, <1>6, <2>1, <2>4
    <2> QED BY <2>2, <2>3, <2>4
  <1>12. NewIdsFree' /\ NewIdsApart'
    BY <1>3, <1>4, <1>7, <1>8, <1>9 DEF DistinctInv, NewIdsFree, NewIdsApart
  <1>13. NewAccountsFree' /\ NewAccountsApart'
    BY <1>3, <1>4, <1>7, <1>10 DEF DistinctInv, NewAccountsFree, NewAccountsApart
  <1> QED BY <1>11, <1>12, <1>13 DEF DistinctInv

LEMMA DistinctInit == Init => DistinctInv
  <1> SUFFICES ASSUME Init PROVE DistinctInv
    OBVIOUS
  <1>1. At("granting") = {} /\ At("pushing") = {}
    BY DEF Init, At, Idle
  <1>2. Distinct
    BY AdminAssumption DEF Init, Distinct
  <1> QED BY <1>1, <1>2 DEF DistinctInv, NewIdsFree, NewIdsApart, NewAccountsFree, NewAccountsApart, Adders

LEMMA DistinctNext == TypeInv /\ DistinctInv /\ [Next]_vars => DistinctInv'
  <1> SUFFICES ASSUME TypeInv, DistinctInv, [Next]_vars PROVE DistinctInv'
    OBVIOUS
  <1>1. CASE UNCHANGED vars
    BY <1>1, NothingAdded DEF vars
  <1>2. CASE Next
    <2>1. PICK t \in Tasks :
            \/ CheckDuplicate(t) \/ NotGranted(t) \/ NumberIt(t) \/ Push(t)
            \/ OtherStep(t) \/ SettingsStep(t)
      BY <1>2 DEF Next, OtherStep, SettingsStep
    <2>2. CASE NotGranted(t)
      <3>1. \A u \in Tasks : task'[u].pc \in {"granting", "pushing"} => task'[u] = task[u]
        BY <2>2 DEF NotGranted, Return, TypeInv, Idle
      <3> QED BY <2>2, <3>1, NothingAdded DEF NotGranted
    <2>3. CASE OtherStep(t)
      <3>1. \A u \in Tasks : task'[u].pc \in {"granting", "pushing"} => task'[u] = task[u]
        BY <2>3, OthersFrame
      <3> QED BY <2>3, <3>1, OthersFrame, NothingAdded
    <2>4. CASE SettingsStep(t)
      <3>1. \A u \in Tasks : task'[u].pc \in {"granting", "pushing"} => task'[u] = task[u]
        BY <2>4, SettingsFrame DEF Sections
      <3> QED BY <2>4, <3>1, SettingsFrame, NothingAdded
    <2> QED BY <2>1, <2>2, <2>3, <2>4, CheckDuplicateDistinct, NumberItDistinct, PushDistinct
  <1> QED BY <1>1, <1>2

\* Two credentials share an id or an account only over two additions that
\* overlapped (add_credential), for any number of handlers, credentials and calls.
THEOREM DistinctHolds == Spec => []Distinct
  <1>1. DistinctInv => Distinct
    BY DEF DistinctInv
  <1> QED BY <1>1, TypeInit, TypeNext, DistinctInit, DistinctNext, PTL DEF Spec

-----------------------------------------------------------------------------
(* Proxies.  Between the look for users and the removal, a credential may   *)
(* come to name the profile only through a list counted in races.proxies.   *)

RemovalsSeen ==
  \A u \in At("removing") : \A i \in DOMAIN credentials :
    task[u].id \in credentials[i].proxies => task[u].id \in races.proxies

ReferencesInv == ReferencesHold /\ RemovalsSeen

\* A step that removes no profile and stores only lists that are counted.
LEMMA ReferencesKept ==
  ASSUME ReferencesInv,
         DOMAIN proxies \subseteq DOMAIN proxies', races.proxies \subseteq races'.proxies,
         \A u \in Tasks : task'[u].pc = "removing" => task'[u] = task[u],
         \A i \in DOMAIN credentials' :
           \/ i \in DOMAIN credentials /\ credentials'[i].proxies = credentials[i].proxies
           \/ Missing(credentials'[i].proxies) \subseteq races'.proxies
  PROVE  ReferencesInv'
  <1>1. ReferencesHold'
    <2> SUFFICES ASSUME NEW i \in DOMAIN credentials', NEW p \in credentials'[i].proxies
                 PROVE  p \in DOMAIN proxies' \/ p \in races'.proxies
      BY DEF ReferencesHold
    <2>1. CASE i \in DOMAIN credentials /\ credentials'[i].proxies = credentials[i].proxies
      BY <2>1 DEF ReferencesInv, ReferencesHold
    <2>2. CASE Missing(credentials'[i].proxies) \subseteq races'.proxies
      BY <2>2 DEF Missing
    <2> QED BY <2>1, <2>2
  <1>2. RemovalsSeen'
    <2> SUFFICES ASSUME NEW u \in At("removing")', NEW i \in DOMAIN credentials',
                        task'[u].id \in credentials'[i].proxies
                 PROVE  task'[u].id \in races'.proxies
      BY DEF RemovalsSeen
    <2>1. u \in At("removing") /\ task'[u] = task[u]
      BY DEF At
    <2>2. CASE i \in DOMAIN credentials /\ credentials'[i].proxies = credentials[i].proxies
      BY <2>1, <2>2 DEF ReferencesInv, RemovalsSeen
    <2>3. CASE Missing(credentials'[i].proxies) \subseteq races'.proxies
      BY <2>1, <2>3 DEF Missing
    <2> QED BY <2>2, <2>3
  <1> QED BY <1>1, <1>2 DEF ReferencesInv

LEMMA RemoveProxyReferences ==
  ASSUME TypeInv, ReferencesInv, NEW t \in Tasks, RemoveProxy(t)
  PROVE  ReferencesInv'
  <1>1. /\ credentials' = credentials /\ races'.proxies = races.proxies
        /\ \A u \in Tasks : task'[u].pc = "removing" => task'[u] = task[u]
    BY SettingsFrame DEF SettingsStep, Sections
  <1>2. t \in At("removing") /\ DOMAIN proxies' \subseteq DOMAIN proxies
        /\ \A p \in DOMAIN proxies : p \in DOMAIN proxies' \/ p = task[t].id
    BY DEF RemoveProxy, At, Without
  <1>3. ReferencesHold'
    <2> SUFFICES ASSUME NEW i \in DOMAIN credentials, NEW p \in credentials[i].proxies
                 PROVE  p \in DOMAIN proxies' \/ p \in races.proxies
      BY <1>1 DEF ReferencesHold
    <2>1. CASE p = task[t].id
      BY <1>2, <2>1 DEF ReferencesInv, RemovalsSeen
    <2>2. CASE p # task[t].id
      BY <1>2, <2>2 DEF ReferencesInv, ReferencesHold
    <2> QED BY <2>1, <2>2
  <1>4. RemovalsSeen'
    <2>1. \A u \in At("removing")' : u \in At("removing") /\ task'[u] = task[u]
      BY <1>1 DEF At
    <2> QED BY <1>1, <2>1 DEF ReferencesInv, RemovalsSeen
  <1> QED BY <1>3, <1>4 DEF ReferencesInv

LEMMA CheckUnusedReferences ==
  ASSUME TypeInv, ReferencesInv, NEW t \in Tasks, CheckUnused(t)
  PROVE  ReferencesInv'
  <1>1. PICK id \in DOMAIN proxies :
          ~Used(id) /\ task' = [task EXCEPT ![t] = [pc |-> "removing", id |-> id]]
    BY DEF CheckUnused, Begin
  <1>2. credentials' = credentials /\ proxies' = proxies /\ races' = races
    BY DEF CheckUnused
  <1>3. task'[t].id = id /\ \A u \in Tasks \ {t} : task'[u] = task[u]
    BY <1>1 DEF TypeInv
  <1>4. RemovalsSeen'
    <2> SUFFICES ASSUME NEW u \in At("removing")', NEW i \in DOMAIN credentials,
                        task'[u].id \in credentials[i].proxies
                 PROVE  task'[u].id \in races.proxies
      BY <1>2 DEF RemovalsSeen
    <2>1. u # t
      BY <1>1, <1>3 DEF Used
    <2>2. u \in At("removing") /\ task'[u] = task[u]
      BY <1>3, <2>1 DEF At
    <2> QED BY <2>2 DEF ReferencesInv, RemovalsSeen
  <1> QED BY <1>2, <1>4 DEF ReferencesInv, ReferencesHold

LEMMA ReferencesNext == TypeInv /\ ReferencesInv /\ [Next]_vars => ReferencesInv'
  <1> SUFFICES ASSUME TypeInv, ReferencesInv, [Next]_vars PROVE ReferencesInv'
    OBVIOUS
  <1>0. races \in Overlaps /\ task \in [Tasks -> Calls]
        /\ \A i \in DOMAIN credentials : credentials[i] \in Entries
    BY DEF TypeInv, TypeOK
  <1>1. CASE UNCHANGED vars
    BY <1>1, ReferencesKept DEF vars
  <1>2. CASE Next
    <2>1. PICK t \in Tasks :
            \/ CheckDuplicate(t) \/ NotGranted(t) \/ NumberIt(t) \/ Push(t)
            \/ OtherStep(t) \/ SettingsStep(t)
      BY <1>2 DEF Next, OtherStep, SettingsStep
    <2>2. CASE CheckDuplicate(t) \/ NotGranted(t) \/ NumberIt(t)
      <3>1. credentials' = credentials /\ proxies' = proxies /\ races'.proxies = races.proxies
        BY <1>0, <2>2 DEF CheckDuplicate, NotGranted, NumberIt, Overlaps
      <3>2. \A u \in Tasks : task'[u].pc = "removing" => task'[u] = task[u]
        BY <1>0, <2>2 DEF CheckDuplicate, NotGranted, NumberIt, Begin, Return, Idle
      <3> QED BY <3>1, <3>2, ReferencesKept
    <2>3. CASE Push(t)
      <3>1. PICK place \in Places :
              credentials' = Set(credentials, place,
                                 [id |-> task[t].id, account |-> task[t].account,
                                  proxies |-> task[t].proxies, disabled |-> FALSE])
        BY <2>3 DEF Push
      <3>2. races'.proxies = races.proxies \cup Missing(task[t].proxies) /\ proxies' = proxies
        BY <1>0, <2>3 DEF Push, Overlaps
      <3>3. \A u \in Tasks : task'[u].pc = "removing" => task'[u] = task[u]
        BY <1>0, <2>3 DEF Push, Return, Idle
      <3>4. \A i \in DOMAIN credentials' :
              \/ i \in DOMAIN credentials /\ credentials'[i].proxies = credentials[i].proxies
              \/ credentials'[i].proxies = task[t].proxies
        BY <3>1 DEF Set
      <3>5. \A i \in DOMAIN credentials' :
              \/ i \in DOMAIN credentials /\ credentials'[i].proxies = credentials[i].proxies
              \/ Missing(credentials'[i].proxies) \subseteq races'.proxies
        BY <3>2, <3>4
      <3> QED BY <3>2, <3>3, <3>5, ReferencesKept
    <2>4. CASE AssignProxies(t)
      <3>1. races'.proxies = races.proxies \cup Missing(task[t].proxies) /\ proxies' = proxies
        BY <1>0, <2>4 DEF AssignProxies, Overlaps
      <3>2. \A u \in Tasks : task'[u].pc = "removing" => task'[u] = task[u]
        BY <1>0, <2>4 DEF AssignProxies, Return, Idle
      <3>3. \A i \in DOMAIN credentials' :
              \/ i \in DOMAIN credentials /\ credentials'[i].proxies = credentials[i].proxies
              \/ credentials'[i].proxies = task[t].proxies
        BY <1>0, <2>4 DEF AssignProxies, Entries
      <3>4. \A i \in DOMAIN credentials' :
              \/ i \in DOMAIN credentials /\ credentials'[i].proxies = credentials[i].proxies
              \/ Missing(credentials'[i].proxies) \subseteq races'.proxies
        BY <3>1, <3>3
      <3> QED BY <3>1, <3>2, <3>4, ReferencesKept
    <2>5. CASE OtherStep(t) /\ ~ (CheckUnused(t) \/ AssignProxies(t))
      <3>1. proxies' = proxies /\ races'.proxies = races.proxies
        BY <1>0, <2>5 DEF OtherStep, SetDisabled, Delete, DeleteUnsaved, ClearBalance, SaveBalances,
              AskBalance, SendRequest, RequestFails, SetPreference, CacheBalance, CheckProxies,
              Overlaps
      <3>2. \A i \in DOMAIN credentials' :
              i \in DOMAIN credentials /\ credentials'[i].proxies = credentials[i].proxies
        <4>1. CASE SetDisabled(t)
          BY <1>0, <4>1 DEF SetDisabled, Entries
        <4>2. CASE Delete(t)
          BY <4>2 DEF Delete
        <4>3. CASE ~ (SetDisabled(t) \/ Delete(t))
          BY <2>5, <4>3 DEF OtherStep, DeleteUnsaved, ClearBalance, SaveBalances,
                AskBalance, SendRequest, RequestFails, SetPreference, CacheBalance, CheckProxies
        <4> QED BY <4>1, <4>2, <4>3
      <3>3. \A u \in Tasks : task'[u].pc = "removing" => task'[u] = task[u]
        BY <2>5, OthersFrame
      <3> QED BY <3>1, <3>2, <3>3, ReferencesKept
    <2>6. CASE SettingsStep(t) /\ ~RemoveProxy(t)
      <3>1. /\ credentials' = credentials /\ races'.proxies = races.proxies
            /\ \A u \in Tasks : task'[u].pc = "removing" => task'[u] = task[u]
        BY <2>6, SettingsFrame DEF Sections
      <3>2. DOMAIN proxies \subseteq DOMAIN proxies'
        BY <2>6 DEF SettingsStep, SetConfig, SetMode, CreateProxy, UpdateProxy, CopyProxies, Load,
              LoadFails, SaveFails, Truncate, WriteFails, Fill, Apply, Set
      <3> QED BY <3>1, <3>2, ReferencesKept
    <2>7. CheckUnused(t) \/ RemoveProxy(t) => ReferencesInv'
      BY CheckUnusedReferences, RemoveProxyReferences
    <2> QED BY <2>1, <2>2, <2>3, <2>4, <2>5, <2>6, <2>7
  <1> QED BY <1>1, <1>2

LEMMA ReferencesInit == Init => ReferencesInv
  <1> SUFFICES ASSUME Init PROVE ReferencesInv
    OBVIOUS
  <1>1. At("removing") = {}
    BY DEF Init, At, Idle
  <1>2. DOMAIN proxies = UNION {credentials[i].proxies : i \in DOMAIN credentials}
    BY DEF Init
  <1> QED BY <1>1, <1>2 DEF ReferencesInv, ReferencesHold, RemovalsSeen

\* The proxies a credential names exist, unless its list was stored unchecked or
\* over their removal (delete_proxy_profile, set_credential_proxy_ids,
\* add_credential), for any number of handlers, credentials and profiles.
THEOREM ReferencesHoldAlways == Spec => []ReferencesHold
  <1>1. ReferencesInv => ReferencesHold
    BY DEF ReferencesInv
  <1> QED BY <1>1, TypeInit, TypeNext, ReferencesInit, ReferencesNext, PTL DEF Spec

-----------------------------------------------------------------------------
(* Balances.  An answer under way is a balance not yet cached: what holds   *)
(* of the one has to hold of the other.                                     *)

Owner(id) == credentials[First(id)].account
Clearing(id) == \E u \in At("clearing") : task[u].id = id
Askers == At("asked") \cup At("fetching") \cup At("setting")

Follows(id, a) == id \in races.balances \/ (id \in Known /\ a = Owner(id)) \/ Clearing(id)
CachedFollow == \A id \in DOMAIN balances : Follows(id, balances[id])
AskedFollow == \A u \in Askers : Follows(task[u].id, task[u].account)

BalancesInv == CachedFollow /\ AskedFollow

FirstOf(cs, id) == CHOOSE i \in DOMAIN cs :
                     /\ cs[i].id = id
                     /\ \A j \in DOMAIN cs : cs[j].id = id => i <= j

\* The first entry of an id keeps its account when entries stay where they are
\* and those that come, come after it.
LEMMA FirstKept ==
  ASSUME NEW cs, NEW ds, NEW id,
         DOMAIN cs \subseteq Places, DOMAIN ds \subseteq Places,
         \E i \in DOMAIN cs : cs[i].id = id,
         \A i \in DOMAIN cs : cs[i].id = id =>
           i \in DOMAIN ds /\ ds[i].id = id /\ ds[i].account = cs[i].account,
         \A j \in DOMAIN ds : ds[j].id = id =>
           (j \in DOMAIN cs /\ cs[j].id = id) \/ \A i \in DOMAIN cs : i < j
  PROVE  /\ \E j \in DOMAIN ds : ds[j].id = id
         /\ ds[FirstOf(ds, id)].account = cs[FirstOf(cs, id)].account
  <1> DEFINE S == {i \in DOMAIN cs : cs[i].id = id}
  <1>1. S \in SUBSET Places /\ S # {}
    OBVIOUS
  <1>2. PICK f \in S : \A j \in S : f <= j
    BY <1>1, LeastPlace
  <1>3. Places \subseteq Int
    BY DEF Places
  <1>4. \A i, j \in Int : i <= j /\ j <= i => i = j
    OBVIOUS
  <1>5. FirstOf(cs, id) = f
    <2>1. /\ f \in DOMAIN cs /\ cs[f].id = id
          /\ \A j \in DOMAIN cs : cs[j].id = id => f <= j
      BY <1>2
    <2>2. \A g \in DOMAIN cs :
            cs[g].id = id /\ (\A j \in DOMAIN cs : cs[j].id = id => g <= j) => g = f
      BY <1>3, <1>4, <2>1
    <2> QED BY <2>1, <2>2 DEF FirstOf
  <1>6. FirstOf(ds, id) = f
    <2>1. f \in DOMAIN ds /\ ds[f].id = id
      BY <1>2
    <2>2. \A j \in DOMAIN ds : ds[j].id = id => f <= j
      <3>1. \A i, j \in Int : i < j => i <= j
        OBVIOUS
      <3> QED BY <1>2, <1>3, <3>1
    <2>3. \A g \in DOMAIN ds :
            ds[g].id = id /\ (\A j \in DOMAIN ds : ds[j].id = id => g <= j) => g = f
      BY <1>3, <1>4, <2>1, <2>2
    <2> QED BY <2>1, <2>2, <2>3 DEF FirstOf
  <1> QED BY <1>2, <1>5, <1>6

\* A credential keeps its account until it is deleted.
LEMMA OwnersKept ==
  ASSUME TypeInv, TypeInv', NEW id \in Known,
         \A i \in DOMAIN credentials : credentials[i].id = id =>
           /\ i \in DOMAIN credentials' /\ credentials'[i].id = id
           /\ credentials'[i].account = credentials[i].account,
         \A j \in DOMAIN credentials' : credentials'[j].id = id =>
           \/ j \in DOMAIN credentials /\ credentials[j].id = id
           \/ \A i \in DOMAIN credentials : i < j
  PROVE  id \in Known' /\ Owner(id)' = Owner(id)
  <1>1. DOMAIN credentials \subseteq Places /\ DOMAIN credentials' \subseteq Places
    BY DEF TypeInv, TypeOK
  <1>2. \E i \in DOMAIN credentials : credentials[i].id = id
    BY DEF Known
  <1>3. /\ \E j \in DOMAIN credentials' : credentials'[j].id = id
        /\ credentials'[FirstOf(credentials', id)].account
             = credentials[FirstOf(credentials, id)].account
    BY <1>1, <1>2, FirstKept
  <1>4. Owner(id) = credentials[FirstOf(credentials, id)].account
    BY DEF Owner, First, FirstOf
  <1>5. Owner(id)' = credentials'[FirstOf(credentials', id)].account
    BY DEF Owner, First, FirstOf
  <1> QED BY <1>3, <1>4, <1>5 DEF Known

\* A step that ends no clearing and caches nothing.
LEMMA NothingCached ==
  ASSUME BalancesInv,
         \A id, a : Follows(id, a) => Follows(id, a)',
         balances' = balances,
         \A u \in Tasks : task'[u].pc \in {"asked", "fetching", "setting"} =>
           \/ /\ task[u].pc \in {"asked", "fetching", "setting"}
              /\ task'[u].id = task[u].id /\ task'[u].account = task[u].account
           \/ Follows(task[u].id, task[u].account)'
  PROVE  BalancesInv'
  <1>1. CachedFollow'
    BY DEF BalancesInv, CachedFollow
  <1>2. AskedFollow'
    <2> SUFFICES ASSUME NEW u \in Askers' PROVE Follows(task[u].id, task[u].account)'
      BY DEF AskedFollow
    <2>1. u \in Tasks /\ task'[u].pc \in {"asked", "fetching", "setting"}
      BY DEF Askers, At
    <2>2. task[u].pc \in {"asked", "fetching", "setting"} => u \in Askers
      BY <2>1 DEF Askers, At
    <2> QED BY <2>1, <2>2 DEF BalancesInv, AskedFollow
  <1> QED BY <1>1, <1>2 DEF BalancesInv

LEMMA FollowsKept ==
  ASSUME \A id \in Known : (id \in Known' /\ Owner(id)' = Owner(id)) \/ Clearing(id)',
         races.balances \subseteq races'.balances,
         \A u \in Tasks : task[u].pc = "clearing" => task'[u] = task[u] \/ task[u].id \in races'.balances
  PROVE  \A id, a : Follows(id, a) => Follows(id, a)'
  <1> SUFFICES ASSUME NEW id, NEW a, Follows(id, a) PROVE Follows(id, a)'
    OBVIOUS
  <1>1. CASE id \in races.balances
    BY <1>1 DEF Follows
  <1>2. CASE id \in Known /\ a = Owner(id)
    BY <1>2 DEF Follows
  <1>3. CASE Clearing(id)
    <2>1. PICK u \in Tasks : task[u].pc = "clearing" /\ task[u].id = id
      BY <1>3 DEF Clearing, At
    <2> QED BY <2>1 DEF Follows, Clearing, At
  <1> QED BY <1>1, <1>2, <1>3 DEF Follows

LEMMA SameCredentials ==
  ASSUME credentials' = credentials
  PROVE  \A id \in Known : id \in Known' /\ Owner(id)' = Owner(id)
  BY DEF Known, Owner, First

\* Additions, switches and lists of proxies change no owner and no call that
\* asks for a balance.
LEMMA AddingBalances ==
  ASSUME TypeInv, TypeInv', BalancesInv, NEW t \in Tasks,
         \/ CheckDuplicate(t) \/ NotGranted(t) \/ NumberIt(t) \/ Push(t)
         \/ SetDisabled(t) \/ AssignProxies(t)
  PROVE  BalancesInv'
  <1>0. /\ races \in Overlaps /\ task \in [Tasks -> Calls]
        /\ \A i \in DOMAIN credentials : i \in Places /\ credentials[i] \in Entries
    BY DEF TypeInv, TypeOK
  <1>1. balances' = balances /\ races'.balances = races.balances
    BY <1>0 DEF CheckDuplicate, NotGranted, NumberIt, Push, SetDisabled, AssignProxies, Overlaps
  <1>2. /\ \A u \in Tasks : task[u].pc = "clearing" => task'[u] = task[u]
        /\ \A u \in Tasks : task'[u].pc \in {"asked", "fetching", "setting"} => task'[u] = task[u]
    BY <1>0 DEF CheckDuplicate, NotGranted, NumberIt, Push, SetDisabled, AssignProxies,
                Begin, Return, Answer, Idle
  <1>3. \A id \in Known : id \in Known' /\ Owner(id)' = Owner(id)
    <2>1. CASE CheckDuplicate(t) \/ NotGranted(t) \/ NumberIt(t)
      BY <2>1, SameCredentials DEF CheckDuplicate, NotGranted, NumberIt
    <2>2. CASE SetDisabled(t) \/ AssignProxies(t)
      <3>1. /\ DOMAIN credentials' = DOMAIN credentials
            /\ \A i \in DOMAIN credentials : /\ credentials'[i].id = credentials[i].id
                                             /\ credentials'[i].account = credentials[i].account
        <4>1. CASE SetDisabled(t)
          BY <1>0, <4>1 DEF SetDisabled, Entries
        <4>2. CASE AssignProxies(t)
          BY <1>0, <4>2 DEF AssignProxies, Entries
        <4> QED BY <2>2, <4>1, <4>2
      <3> QED BY <3>1, OwnersKept
    <2>3. CASE Push(t)
      <3>1. PICK place \in Places :
              /\ IsNext(place, DOMAIN credentials)
              /\ credentials' = Set(credentials, place,
                                    [id |-> task[t].id, account |-> task[t].account,
                                     proxies |-> task[t].proxies, disabled |-> FALSE])
        BY <2>3 DEF Push
      <3>2. \A i \in DOMAIN credentials : i < place /\ i # place
        BY <1>0, <3>1 DEF IsNext, Places
      <3>3. /\ DOMAIN credentials' = DOMAIN credentials \cup {place}
            /\ \A i \in DOMAIN credentials : credentials'[i] = credentials[i]
        BY <3>1, <3>2 DEF Set
      <3> QED BY <3>2, <3>3, OwnersKept
    <2> QED BY <2>1, <2>2, <2>3
  <1>4. \A id, a : Follows(id, a) => Follows(id, a)'
    BY <1>1, <1>2, <1>3, FollowsKept
  <1> QED BY <1>1, <1>2, <1>4, NothingCached

LEMMA DeleteBalances ==
  ASSUME TypeInv, TypeInv', BalancesInv, NEW t \in Tasks, Delete(t)
  PROVE  BalancesInv'
  <1>1. PICK gone \in Known :
          /\ task[t] = Idle /\ task' = [task EXCEPT ![t] = [pc |-> "clearing", id |-> gone]]
          /\ credentials' = [i \in {j \in DOMAIN credentials : credentials[j].id # gone}
                               |-> credentials[i]]
          /\ balances' = balances /\ races' = races
    BY DEF Delete, Begin
  <1>2. task'[t] = [pc |-> "clearing", id |-> gone] /\ \A u \in Tasks \ {t} : task'[u] = task[u]
    BY <1>1 DEF TypeInv
  <1>3. Clearing(gone)'
    BY <1>2 DEF Clearing, At
  <1>4. \A id \in Known \ {gone} : id \in Known' /\ Owner(id)' = Owner(id)
    BY <1>1, OwnersKept
  <1>5. \A id, a : Follows(id, a) => Follows(id, a)'
    <2>1. \A u \in Tasks : task[u].pc = "clearing" => task'[u] = task[u]
      BY <1>1, <1>2 DEF Idle
    <2> QED BY <1>1, <1>3, <1>4, <2>1, FollowsKept
  <1>6. \A u \in Tasks : task'[u].pc \in {"asked", "fetching", "setting"} => task'[u] = task[u]
    BY <1>2
  <1> QED BY <1>1, <1>5, <1>6, NothingCached

\* The balance goes: a request under way may bring it back, and is counted.
LEMMA ClearBalances ==
  ASSUME TypeInv, BalancesInv, NEW t \in Tasks, ClearBalance(t)
  PROVE  BalancesInv'
  <1> DEFINE gone == task[t].id
  <1>1. /\ task[t].pc = "clearing" /\ task[t] \in Deleting
        /\ balances' = Cleared(gone)
        /\ races' = IF Fetching(gone) THEN [races EXCEPT !.balances = @ \cup {gone}] ELSE races
        /\ task' = [task EXCEPT ![t].pc = "saving"]
        /\ credentials' = credentials
    BY ShapeAt DEF ClearBalance, Go
  <1>2. task'[t].pc = "saving" /\ \A u \in Tasks \ {t} : task'[u] = task[u]
    BY <1>1 DEF TypeInv, Deleting
  <1>3. races.balances \subseteq races'.balances /\ (Fetching(gone) => gone \in races'.balances)
    BY <1>1 DEF TypeInv, Overlaps
  <1>4. \A id, a : Follows(id, a) /\ id # gone => Follows(id, a)'
    <2> SUFFICES ASSUME NEW id, NEW a, Follows(id, a), id # gone PROVE Follows(id, a)'
      OBVIOUS
    <2>1. CASE id \in races.balances
      BY <1>3, <2>1 DEF Follows
    <2>2. CASE id \in Known /\ a = Owner(id)
      BY <1>1, <2>2, SameCredentials DEF Follows
    <2>3. CASE Clearing(id)
      <3>1. PICK u \in Tasks : task[u].pc = "clearing" /\ task[u].id = id
        BY <2>3 DEF Clearing, At
      <3>2. task'[u] = task[u]
        BY <1>2, <3>1
      <3> QED BY <3>1, <3>2 DEF Follows, Clearing, At
    <2> QED BY <2>1, <2>2, <2>3 DEF Follows
  <1>5. CachedFollow'
    <2>1. \A id \in DOMAIN balances' : id # gone /\ id \in DOMAIN balances /\ balances'[id] = balances[id]
      BY <1>1 DEF Cleared, Without
    <2> QED BY <1>4, <2>1 DEF BalancesInv, CachedFollow
  <1>6. AskedFollow'
    <2>1. \A u \in Askers' : u \in Askers /\ u \in Tasks /\ task'[u] = task[u]
      BY <1>2 DEF Askers, At
    <2>2. \A u \in Askers : task[u].id = gone => Fetching(gone)
      BY DEF Askers, Fetching
    <2> SUFFICES ASSUME NEW u \in Askers' PROVE Follows(task[u].id, task[u].account)'
      BY DEF AskedFollow
    <2>3. CASE task[u].id = gone
      BY <1>3, <2>1, <2>2, <2>3 DEF Follows
    <2>4. CASE task[u].id # gone
      BY <1>4, <2>1, <2>4 DEF BalancesInv, AskedFollow
    <2> QED BY <2>3, <2>4
  <1> QED BY <1>5, <1>6 DEF BalancesInv

\* Requests for balances: the account asked for is the owner's, as long as the
\* credential is there; what is cached is what was asked for.
LEMMA AskingBalances ==
  ASSUME TypeInv, BalancesInv, NEW t \in Tasks,
         AskBalance(t) \/ SendRequest(t) \/ RequestFails(t) \/ SetPreference(t) \/ CacheBalance(t)
  PROVE  BalancesInv'
  <1>0. task \in [Tasks -> Calls]
    BY DEF TypeInv
  <1>1. credentials' = credentials /\ races' = races
    BY DEF AskBalance, SendRequest, RequestFails, SetPreference, CacheBalance
  <1>2. \A u \in Tasks : task[u].pc = "clearing" => task'[u] = task[u]
    BY <1>0 DEF AskBalance, SendRequest, RequestFails, SetPreference, CacheBalance,
                Begin, Return, Go, Idle
  <1>3. \A id, a : Follows(id, a) => Follows(id, a)'
    BY <1>1, <1>2, SameCredentials, FollowsKept
  <1>4. \A id \in Known : Follows(id, Owner(id))'
    BY <1>1, SameCredentials DEF Follows
  <1>5. CASE AskBalance(t)
    <2>1. PICK id \in Known, overage \in BOOLEAN :
            task' = [task EXCEPT ![t] = [pc |-> "asked", id |-> id, overage |-> overage,
                                         account |-> credentials[First(id)].account]]
      BY <1>5 DEF AskBalance, Begin
    <2>2. /\ task'[t] = [pc |-> "asked", id |-> id, overage |-> overage, account |-> Owner(id)]
          /\ \A u \in Tasks \ {t} : task'[u] = task[u]
      BY <1>0, <2>1 DEF Owner
    <2>3. Follows(task[t].id, task[t].account)'
      <3>1. Owner(id)' = Owner(id)
        BY <1>1 DEF Owner, First
      <3>2. id \in Known'
        BY <1>1 DEF Known
      <3> QED BY <2>2, <3>1, <3>2 DEF Follows
    <2>4. \A u \in Tasks : task'[u].pc \in {"asked", "fetching", "setting"} =>
            \/ task[u].pc \in {"asked", "fetching", "setting"} /\ task'[u] = task[u]
            \/ Follows(task[u].id, task[u].account)'
      BY <2>2, <2>3
    <2> QED BY <1>3, <1>5, <2>4, NothingCached DEF AskBalance
  <1>6. CASE SendRequest(t) \/ RequestFails(t)
    <2>1. task[t] \in Asking
      BY <1>6, ShapeAt DEF SendRequest, RequestFails
    <2>2. \A u \in Tasks : task'[u].pc \in {"asked", "fetching", "setting"} =>
            /\ task[u].pc \in {"asked", "fetching", "setting"}
            /\ task'[u].id = task[u].id /\ task'[u].account = task[u].account
      BY <1>0, <1>6, <2>1 DEF SendRequest, RequestFails, Go, Return, Idle, Asking
    <2> QED BY <1>3, <1>6, <2>2, NothingCached DEF SendRequest, RequestFails
  <1>7. CASE SetPreference(t)
    <2>1. task[t] \in Asking /\ task[t].pc = "fetching"
      BY <1>7, ShapeAt DEF SetPreference
    <2>2. CASE task[t].id \in Known
      <3>1. task' = [task EXCEPT ![t].pc = "setting", ![t].account = Owner(task[t].id)]
        BY <1>7, <2>2 DEF SetPreference, Owner
      <3>2. /\ task'[t].id = task[t].id /\ task'[t].account = Owner(task[t].id)
            /\ \A u \in Tasks \ {t} : task'[u] = task[u]
        BY <1>0, <2>1, <3>1 DEF Asking
      <3>3. Follows(task[t].id, task[t].account)'
        <4>1. \A id : Owner(id)' = Owner(id)
          BY <1>1 DEF Owner, First
        <4>2. Known' = Known
          BY <1>1 DEF Known
        <4> QED BY <2>2, <3>2, <4>1, <4>2 DEF Follows
      <3>4. \A u \in Tasks : task'[u].pc \in {"asked", "fetching", "setting"} =>
              \/ task[u].pc \in {"asked", "fetching", "setting"} /\ task'[u] = task[u]
              \/ Follows(task[u].id, task[u].account)'
        BY <3>2, <3>3
      <3> QED BY <1>3, <1>7, <3>4, NothingCached DEF SetPreference
    <2>3. CASE task[t].id \notin Known
      <3>1. \A u \in Tasks : task'[u].pc \in {"asked", "fetching", "setting"} => task'[u] = task[u]
        BY <1>0, <1>7, <2>3 DEF SetPreference, Return, Idle
      <3> QED BY <1>3, <1>7, <3>1, NothingCached DEF SetPreference
    <2> QED BY <2>2, <2>3
  <1>8. CASE CacheBalance(t)
    <2>1. /\ task[t] \in Asking /\ t \in Askers
          /\ balances' = Set(balances, task[t].id, task[t].account)
      BY <1>8, ShapeAt DEF CacheBalance, Askers, At
    <2>2. task'[t].pc = "saving" /\ \A u \in Tasks \ {t} : task'[u] = task[u]
      BY <1>0, <1>8, <2>1 DEF CacheBalance, Go, Asking
    <2>3. CachedFollow'
      <3>1. Follows(task[t].id, task[t].account)
        BY <2>1 DEF BalancesInv, AskedFollow
      <3>2. \A id \in DOMAIN balances' :
              \/ id = task[t].id /\ balances'[id] = task[t].account
              \/ id \in DOMAIN balances /\ balances'[id] = balances[id]
        BY <2>1 DEF Set
      <3>3. \A id \in DOMAIN balances' : Follows(id, balances'[id])
        BY <3>1, <3>2 DEF BalancesInv, CachedFollow
      <3> SUFFICES ASSUME NEW id \in DOMAIN balances' PROVE Follows(id, balances[id])'
        BY DEF CachedFollow
      <3>4. PICK a : a = balances'[id]
        OBVIOUS
      <3>5. Follows(id, a)'
        BY <1>3, <3>3, <3>4
      <3> QED BY <3>4, <3>5 DEF Follows
    <2>4. AskedFollow'
      <3> SUFFICES ASSUME NEW u \in Askers' PROVE Follows(task[u].id, task[u].account)'
        BY DEF AskedFollow
      <3>1. u \in Askers /\ task'[u] = task[u]
        BY <2>2 DEF Askers, At
      <3>2. PICK id, a : id = task[u].id /\ a = task[u].account
        OBVIOUS
      <3>3. Follows(id, a)'
        BY <1>3, <3>1, <3>2 DEF BalancesInv, AskedFollow
      <3> QED BY <3>1, <3>2, <3>3 DEF Follows
    <2> QED BY <2>3, <2>4 DEF BalancesInv
  <1> QED BY <1>5, <1>6, <1>7, <1>8

LEMMA BalancesNext == TypeInv /\ TypeInv' /\ BalancesInv /\ [Next]_vars => BalancesInv'
  <1> SUFFICES ASSUME TypeInv, TypeInv', BalancesInv, [Next]_vars PROVE BalancesInv'
    OBVIOUS
  <1>0. races \in Overlaps /\ task \in [Tasks -> Calls]
    BY DEF TypeInv
  <1>a. ASSUME credentials' = credentials, balances' = balances, races.balances \subseteq races'.balances,
               \A u \in Tasks : task[u].pc = "clearing" =>
                 task'[u] = task[u] \/ task[u].id \in races'.balances,
               \A u \in Tasks : task'[u].pc \in {"asked", "fetching", "setting"} => task'[u] = task[u]
        PROVE  BalancesInv'
    <2>1. \A id, a : Follows(id, a) => Follows(id, a)'
      BY <1>a, SameCredentials, FollowsKept
    <2> QED BY <1>a, <2>1, NothingCached
  <1>1. CASE UNCHANGED vars
    BY <1>a, <1>1 DEF vars
  <1>2. CASE Next
    <2>1. PICK t \in Tasks :
            \/ CheckDuplicate(t) \/ NotGranted(t) \/ NumberIt(t) \/ Push(t)
            \/ OtherStep(t) \/ SettingsStep(t)
      BY <1>2 DEF Next, OtherStep, SettingsStep
    <2>2. CASE SettingsStep(t)
      BY <1>a, <2>2, SettingsFrame DEF Sections
    <2>3. CASE DeleteUnsaved(t)
      BY <1>0, <1>a, <2>3 DEF DeleteUnsaved, Return, Idle, Overlaps
    <2>4. CASE SaveBalances(t) \/ CheckUnused(t) \/ CheckProxies(t)
      BY <1>0, <1>a, <2>4 DEF SaveBalances, CheckUnused, CheckProxies, Begin, Return, Idle
    <2> QED BY <2>1, <2>2, <2>3, <2>4, AddingBalances, DeleteBalances, ClearBalances, AskingBalances
            DEF OtherStep
  <1> QED BY <1>1, <1>2

LEMMA BalancesInit == Init => BalancesInv
  BY DEF Init, BalancesInv, CachedFollow, AskedFollow, Askers, At, Idle

\* A cached balance is that of the credential with its id, or is about to be
\* cleared, but for the overlaps counted in races.balances (get_balance,
\* delete_credential), for any number of handlers, credentials and calls.
THEOREM BalancesFollowAlways == Spec => []BalancesFollow
  <1>1. BalancesInv => BalancesFollow
    BY DEF BalancesInv, CachedFollow, Follows, BalancesFollow, Owner, Clearing
  <1> QED BY <1>1, TypeInit, TypeNext, BalancesInit, BalancesNext, PTL DEF Spec

-----------------------------------------------------------------------------
(* config.json.  A field that is in no doubt and in no update is the same   *)
(* in force, in the file and in every copy of it; a field that one update   *)
(* has to itself is where that update has brought it.                       *)

Live(f) == IF f = "proxies" THEN proxies ELSE live[f]

Lost == file = <<>> => races.fields = Fields \/ At("filling") # {}

Agree ==
  \A f \in Fields \ (races.fields \cup FieldsOf(Writers)) :
    /\ file # <<>> => file[1][f] = Live(f)
    /\ \A u \in Writers : task[u].base # <<>> => task[u].base[1][f] = Live(f)

OneOrDoubt ==
  \A u \in Writers : IF task[u].alone THEN Writers = {u} ELSE task[u].field \in races.fields

\* What an update nobody overlaps has done already ...
Done ==
  \A u \in Writers : task[u].alone =>
    /\ task[u].field = "mode" => live.mode = task[u].value
    /\ task[u].field = "proxies" /\ task[u].pc # "copying" => task[u].value = proxies
    /\ task[u].pc = "filling" => file = <<>>
    /\ task[u].pc = "applying" => file # <<>> /\ file[1][task[u].field] = task[u].value

\* ... and what it would have to fall back to.
Undone ==
  \A u \in Writers : task[u].alone /\ task[u].field \notin races.fields /\ file # <<>> =>
    /\ task[u].field = "mode" => file[1].mode = task[u].old
    /\ task[u].field \in {"optimizer", "mapping"} /\ task[u].pc # "applying" =>
         file[1][task[u].field] = live[task[u].field]

OnlySettingsApply == \A u \in At("applying") : task[u].field \in {"optimizer", "mapping"}

FileInv == Lost /\ Agree /\ OneOrDoubt /\ Done /\ Undone /\ OnlySettingsApply

LEMMA FileInit == Init => FileInv
  <1> SUFFICES ASSUME Init PROVE FileInv
    OBVIOUS
  <1>1. Writers = {} /\ At("applying") = {}
    BY DEF Init, Writers, At, Idle
  <1>2. PICK m \in Modes, s \in Settings :
          /\ live = [mode |-> m, optimizer |-> s, mapping |-> s]
          /\ file = <<[mode |-> m, optimizer |-> s, mapping |-> s, proxies |-> proxies]>>
    BY DEF Init
  <1>3. file # <<>> /\ \A f \in Fields : file[1][f] = Live(f)
    BY <1>2 DEF Fields, Live
  <1> QED BY <1>1, <1>3 DEF FileInv, Lost, Agree, OneOrDoubt, Done, Undone, OnlySettingsApply

\* A step that is of no update.
LEMMA NoUpdate ==
  ASSUME FileInv, proxies' = proxies, live' = live, file' = file, races'.fields = races.fields,
         \A u \in Tasks : task[u] = task'[u] \/ (u \notin Writers /\ u \notin Writers')
  PROVE  FileInv'
  <1>1. Writers' = Writers /\ \A u \in Writers : task'[u] = task[u]
    BY DEF Writers
  <1>2. At("filling")' = At("filling") /\ At("applying")' = At("applying")
    BY DEF At, Writers
  <1>3. FieldsOf(Writers)' = FieldsOf(Writers)
    BY <1>1 DEF FieldsOf
  <1>4. \A f : Live(f)' = Live(f)
    BY DEF Live
  <1>5. Lost'
    BY <1>2 DEF FileInv, Lost
  <1>6. Agree'
    BY <1>1, <1>3, <1>4 DEF FileInv, Agree
  <1>7. OneOrDoubt'
    BY <1>1 DEF FileInv, OneOrDoubt
  <1>8. Done' /\ Undone'
    BY <1>1 DEF FileInv, Done, Undone
  <1>9. OnlySettingsApply'
    BY <1>1, <1>2 DEF FileInv, OnlySettingsApply, At, Writers
  <1> QED BY <1>5, <1>6, <1>7, <1>8, <1>9 DEF FileInv

\* The fields of an update besides the one that changes.
LEMMA AloneFields ==
  ASSUME NEW c \in Writing, NEW b \in BOOLEAN
  PROVE  LET d == [c EXCEPT !.alone = b]
         IN  /\ d.alone = b /\ d.pc = c.pc /\ d.field = c.field /\ d.value = c.value
             /\ d.old = c.old /\ d.base = c.base
  BY DEF Writing, WritingMode, WritingSetting, WritingProxies

LEMMA StepFields ==
  ASSUME NEW c \in Writing, NEW pc
  PROVE  LET d == [c EXCEPT !.pc = pc]
         IN  /\ d.pc = pc /\ d.alone = c.alone /\ d.field = c.field /\ d.value = c.value
             /\ d.old = c.old /\ d.base = c.base
  BY DEF Writing, WritingMode, WritingSetting, WritingProxies

LEMMA JoinFile ==
  ASSUME TypeInv, FileInv, NEW t \in Tasks, t \notin Writers, NEW call \in Writing,
         call.pc \in {"copying", "loading"}, call.base = <<>>, Join(t, call, races),
         file' = file,
         \A f \in Fields : f # call.field => Live(f)' = Live(f),
         call.field = "mode" => live'.mode = call.value /\ call.old = live.mode,
         call.field \in {"optimizer", "mapping"} => live' = live,
         call.field = "proxies" => call.pc = "copying"
  PROVE  FileInv'
  <1> DEFINE alone == Writers = {}
  <1>1. Writers \ {t} = Writers /\ alone \in BOOLEAN
    OBVIOUS
  <1>2. /\ task' = [u \in Tasks |->
                      IF u = t THEN [call EXCEPT !.alone = alone]
                      ELSE IF u \in Writers THEN [task[u] EXCEPT !.alone = FALSE] ELSE task[u]]
        /\ races' = IF alone THEN races
                    ELSE [races EXCEPT !.fields = @ \cup {call.field} \cup FieldsOf(Writers)]
    BY <1>1 DEF Join
  <1>3. /\ task'[t].alone = alone /\ task'[t].pc = call.pc /\ task'[t].field = call.field
        /\ task'[t].value = call.value /\ task'[t].old = call.old /\ task'[t].base = <<>>
    BY <1>1, <1>2, AloneFields
  <1>4. \A u \in Writers : /\ u \in Tasks /\ u # t /\ task'[u].alone = FALSE
                           /\ task'[u].pc = task[u].pc /\ task'[u].field = task[u].field
                           /\ task'[u].base = task[u].base
    <2> SUFFICES ASSUME NEW u \in Writers
                 PROVE  /\ u \in Tasks /\ u # t /\ task'[u].alone = FALSE
                        /\ task'[u].pc = task[u].pc /\ task'[u].field = task[u].field
                        /\ task'[u].base = task[u].base
      OBVIOUS
    <2>1. u \in Tasks /\ u # t /\ task[u] \in Writing
      BY WriterShape DEF Writers
    <2>2. task'[u] = [task[u] EXCEPT !.alone = FALSE]
      BY <1>2, <2>1
    <2> QED BY <2>1, <2>2, AloneFields
  <1>5. \A u \in Tasks : u # t /\ u \notin Writers => task'[u] = task[u]
    BY <1>2
  <1>6. Writers' = Writers \cup {t}
    BY <1>3, <1>4, <1>5 DEF Writers
  <1>7. At("filling")' = At("filling") /\ \A u \in At("applying")' : u \in At("applying") /\ u \in Writers
    BY <1>3, <1>4, <1>5 DEF At, Writers
  <1>8. FieldsOf(Writers)' = FieldsOf(Writers) \cup {call.field}
    BY <1>3, <1>4, <1>6 DEF FieldsOf
  <1>9. /\ call.field \in Fields
        /\ races.fields \subseteq Fields /\ FieldsOf(Writers) \subseteq Fields
    BY WriterShape DEF FieldsOf, TypeInv, Overlaps, Writing, WritingMode, WritingSetting,
                       WritingProxies, Fields, Writers
  <1>10. races'.fields = IF alone THEN races.fields
                         ELSE races.fields \cup {call.field} \cup FieldsOf(Writers)
    BY <1>2 DEF TypeInv, Overlaps
  <1>11. Lost'
    BY <1>7, <1>9, <1>10 DEF FileInv, Lost
  <1>12. Agree'
    <2> SUFFICES ASSUME NEW f \in Fields, f \notin races'.fields, f \notin FieldsOf(Writers)'
                 PROVE  /\ file # <<>> => file[1][f] = Live(f)'
                        /\ \A u \in Writers' : task'[u].base # <<>> => task'[u].base[1][f] = Live(f)'
      BY DEF Agree
    <2>1. f \in Fields \ (races.fields \cup FieldsOf(Writers)) /\ Live(f)' = Live(f)
      BY <1>8, <1>10
    <2> QED BY <1>3, <1>4, <1>6, <2>1 DEF FileInv, Agree
  <1>13. OneOrDoubt'
    <2>1. CASE alone
      BY <1>3, <1>6, <2>1 DEF OneOrDoubt
    <2>2. CASE ~alone
      BY <1>3, <1>4, <1>6, <1>10, <2>2 DEF OneOrDoubt, FieldsOf
    <2> QED BY <2>1, <2>2
  <1>14. Done'
    BY <1>3, <1>4, <1>6 DEF Done
  <1>15. Undone'
    <2>1. CASE alone
      <3>1. Writers' = {t} /\ FieldsOf(Writers) = {}
        BY <1>6, <2>1 DEF FieldsOf
      <3>2. call.field \notin races.fields /\ file # <<>> => file[1][call.field] = Live(call.field)
        BY <1>9, <3>1 DEF FileInv, Agree
      <3> QED BY <1>3, <1>10, <2>1, <3>1, <3>2 DEF Undone, Live
    <2>2. CASE ~alone
      BY <1>3, <1>4, <1>6, <2>2 DEF Undone
    <2> QED BY <2>1, <2>2
  <1>16. OnlySettingsApply'
    BY <1>4, <1>7 DEF FileInv, OnlySettingsApply
  <1> QED BY <1>11, <1>12, <1>13, <1>14, <1>15, <1>16 DEF FileInv

\* An update that goes on: it copies the proxies, loads config.json, or
\* truncates it.
LEMMA GoOnFile ==
  ASSUME TypeInv, FileInv, NEW t \in Tasks, CopyProxies(t) \/ Load(t) \/ Truncate(t)
  PROVE  FileInv'
  <1>1. /\ task[t] \in Writing /\ t \in Writers
        /\ live' = live /\ proxies' = proxies /\ races' = races
        /\ CopyProxies(t) => task[t].field = "proxies"
    BY WritingShape DEF CopyProxies, Load, Truncate, Writers, WritingProxies
  <1>2. /\ \A u \in Tasks \ {t} : task'[u] = task[u]
        /\ task'[t].alone = task[t].alone /\ task'[t].field = task[t].field
        /\ task'[t].old = task[t].old
        /\ \/ CopyProxies(t) /\ task'[t].pc = "loading" /\ task'[t].value = proxies
                /\ task'[t].base = task[t].base /\ file' = file
           \/ Load(t) /\ task'[t].pc = "writing" /\ task'[t].value = task[t].value
                /\ task'[t].base = file /\ file # <<>> /\ file' = file /\ task[t].pc = "loading"
           \/ Truncate(t) /\ task'[t].pc = "filling" /\ task'[t].value = task[t].value
                /\ task'[t].base = task[t].base /\ file' = <<>> /\ task[t].pc = "writing"
    <2>1. task \in [Tasks -> Calls]
      BY DEF TypeInv
    <2>2. DOMAIN task[t] = {"pc", "field", "value", "old", "base", "alone"}
      BY <1>1 DEF Writing, WritingMode, WritingSetting, WritingProxies
    <2>3. CASE CopyProxies(t)
      BY <2>1, <2>2, <2>3 DEF CopyProxies
    <2>4. CASE Load(t)
      BY <2>1, <2>2, <2>4 DEF Load
    <2>5. CASE Truncate(t)
      BY <2>1, <2>2, <2>5 DEF Truncate, Go
    <2> QED BY <2>3, <2>4, <2>5
  <1>3. Writers' = Writers /\ Writers \subseteq Tasks
    BY <1>1, <1>2 DEF Writers
  <1>4. FieldsOf(Writers)' = FieldsOf(Writers)
    BY <1>2, <1>3 DEF FieldsOf
  <1>5. \A f : Live(f)' = Live(f)
    BY <1>1 DEF Live
  <1>6. Lost'
    BY <1>1, <1>2 DEF FileInv, Lost, At, Load, CopyProxies
  <1>7. Agree'
    <2> SUFFICES ASSUME NEW f \in Fields \ (races.fields \cup FieldsOf(Writers))
                 PROVE  /\ file' # <<>> => file'[1][f] = Live(f)
                        /\ \A u \in Writers : task'[u].base # <<>> => task'[u].base[1][f] = Live(f)
      BY <1>1, <1>3, <1>4, <1>5 DEF Agree
    <2>1. /\ file # <<>> => file[1][f] = Live(f)
          /\ \A u \in Writers : task[u].base # <<>> => task[u].base[1][f] = Live(f)
      BY DEF FileInv, Agree
    <2> QED BY <1>2, <1>3, <2>1
  <1>8. OneOrDoubt'
    BY <1>1, <1>2, <1>3 DEF FileInv, OneOrDoubt
  <1>9. \A u \in Writers \ {t} : task[u].alone = FALSE
    <2> SUFFICES ASSUME NEW u \in Writers \ {t} PROVE task[u].alone = FALSE
      OBVIOUS
    <2>1. task[u].alone \in BOOLEAN
      BY WriterShape DEF Writers, Writing, WritingMode, WritingSetting, WritingProxies
    <2>2. ~ task[u].alone
      BY <1>1 DEF FileInv, OneOrDoubt
    <2> QED BY <2>1, <2>2
  <1>10. Done'
    <2>1. ASSUME task[t].alone
          PROVE  /\ task'[t].field = "mode" => live'.mode = task'[t].value
                 /\ task'[t].field = "proxies" /\ task'[t].pc # "copying" => task'[t].value = proxies'
                 /\ task'[t].pc = "filling" => file' = <<>>
                 /\ task'[t].pc # "applying"
      BY <1>1, <1>2, <2>1 DEF FileInv, Done
    <2> QED BY <1>2, <1>3, <1>9, <2>1 DEF Done
  <1>11. Undone'
    <2>1. ASSUME task[t].alone, task[t].field \notin races.fields, file' # <<>>
          PROVE  /\ task[t].field = "mode" => file'[1].mode = task'[t].old
                 /\ task[t].field \in {"optimizer", "mapping"} =>
                      file'[1][task[t].field] = live[task[t].field]
      BY <1>1, <1>2, <2>1 DEF FileInv, Undone
    <2> QED BY <1>1, <1>2, <1>3, <1>9, <2>1 DEF Undone
  <1>12. OnlySettingsApply'
    BY <1>2 DEF FileInv, OnlySettingsApply, At
  <1> QED BY <1>6, <1>7, <1>8, <1>10, <1>11, <1>12 DEF FileInv

\* What the end of an update leaves to show.
LEMMA LeaveFile ==
  ASSUME TypeInv, FileInv, NEW t \in Writers, Return(t), proxies' = proxies,
         Lost',
         Writers = {t} => \A f \in Fields \ races'.fields : file' # <<>> => file'[1][f] = Live(f)',
         Writers # {t} =>
           /\ races.fields \subseteq races'.fields
           /\ \A f \in Fields \ races'.fields :
                /\ f # task[t].field /\ Live(f)' = Live(f)
                /\ f \notin FieldsOf(Writers) /\ file' # <<>> => file'[1][f] = Live(f)
  PROVE  FileInv'
  <1>1. t \in Tasks /\ task' = [task EXCEPT ![t] = Idle]
    BY DEF Writers, Return
  <1>2. task'[t] = Idle /\ \A u \in Tasks \ {t} : task'[u] = task[u]
    BY <1>1 DEF TypeInv
  <1>3. Writers' = Writers \ {t}
    BY <1>2 DEF Writers, Idle
  <1>4. \A u \in Writers' : u \in Writers /\ task'[u] = task[u]
    BY <1>2, <1>3 DEF Writers
  <1>5. \A u \in Writers' : ~task[u].alone /\ task[u].field \in races.fields
    BY <1>3 DEF FileInv, OneOrDoubt
  <1>6. Writers' # {} => Writers # {t}
    BY <1>3
  <1>7. Agree'
    <2> SUFFICES ASSUME NEW f \in Fields, f \notin races'.fields, f \notin FieldsOf(Writers)'
                 PROVE  /\ file' # <<>> => file'[1][f] = Live(f)'
                        /\ \A u \in Writers' : task'[u].base # <<>> => task'[u].base[1][f] = Live(f)'
      BY DEF Agree
    <2>1. CASE Writers = {t}
      <3>1. Writers' = {} /\ FieldsOf(Writers) = {task[t].field}
        BY <1>3, <2>1 DEF FieldsOf
      <3> QED BY <2>1, <3>1
    <2>2. CASE Writers # {t}
      <3>1. Writers' # {} /\ f \notin races.fields /\ f # task[t].field
        BY <1>3, <1>6, <2>2
      <3>2. f \notin FieldsOf(Writers)
        BY <1>3, <1>4, <3>1 DEF FieldsOf
      <3> QED BY <1>4, <2>2, <3>1, <3>2 DEF FileInv, Agree
    <2> QED BY <2>1, <2>2
  <1>8. OneOrDoubt'
    BY <1>4, <1>5, <1>6 DEF OneOrDoubt
  <1>9. Done' /\ Undone'
    BY <1>4, <1>5 DEF Done, Undone
  <1>10. OnlySettingsApply'
    BY <1>2 DEF FileInv, OnlySettingsApply, At, Idle
  <1> QED BY <1>7, <1>8, <1>9, <1>10 DEF FileInv

LEMMA LiveSet ==
  ASSUME TypeInv, NEW g \in {"mode", "optimizer", "mapping"}, NEW x,
         proxies' = proxies, live' = [live EXCEPT ![g] = x]
  PROVE  Live(g)' = x /\ \A f \in Fields : f # g => Live(f)' = Live(f)
  <1>1. DOMAIN live = {"mode", "optimizer", "mapping"}
    BY DEF TypeInv, TypeOK
  <1>2. live'[g] = x /\ \A f \in DOMAIN live : f # g => live'[f] = live[f]
    BY <1>1
  <1>3. \A f \in Fields : f = "proxies" \/ f \in DOMAIN live
    BY <1>1 DEF Fields
  <1> QED BY <1>2, <1>3 DEF Live

\* What an update that is about to end has of config.json.
LEMMA Ending ==
  ASSUME TypeInv, FileInv, NEW t \in Writers
  PROVE  /\ t \in Tasks /\ task[t].field \in Fields
         /\ Writers # {t} => ~task[t].alone /\ task[t].field \in races.fields
         /\ task[t].field \notin races.fields => task[t].alone
         /\ \A f \in Fields : f # task[t].field /\ f \notin races.fields /\
                              (Writers = {t} \/ f \notin FieldsOf(Writers)) =>
              /\ file # <<>> => file[1][f] = Live(f)
              /\ task[t].base # <<>> => task[t].base[1][f] = Live(f)
  <1>1. t \in Tasks /\ task[t].field \in Fields
    BY WriterShape DEF Writers
  <1>2. Writers = {t} => FieldsOf(Writers) = {task[t].field}
    BY DEF FieldsOf
  <1> QED BY <1>1, <1>2 DEF FileInv, OneOrDoubt, Agree

LEMMA FailFile ==
  ASSUME TypeInv, FileInv, NEW t \in Tasks, LoadFails(t) \/ SaveFails(t)
  PROVE  FileInv'
  <1>1. /\ t \in Writers /\ task[t].pc \notin {"filling", "applying"}
        /\ Return(t) /\ proxies' = proxies /\ file' = file /\ live' = Restored(t)
        /\ races' = [races EXCEPT !.fields = @ \cup ({task[t].field} \cap {"proxies"})]
    BY DEF LoadFails, SaveFails, Fail, Writers
  <1>2. races'.fields = races.fields \cup ({task[t].field} \cap {"proxies"})
    BY <1>1 DEF TypeInv, Overlaps
  <1>3. \A f \in Fields : f # task[t].field => Live(f)' = Live(f)
    <2>1. CASE task[t].field = "mode"
      BY <1>1, <2>1, LiveSet DEF Restored
    <2>2. CASE task[t].field # "mode"
      BY <1>1, <2>2 DEF Restored, Live
    <2> QED BY <2>1, <2>2
  <1>4. Lost'
    <2>1. \A u \in At("filling") : u \in At("filling")'
      BY <1>1 DEF At, Return, TypeInv
    <2>2. races.fields = Fields => races'.fields = Fields
      BY <1>1, <1>2, Ending
    <2> QED BY <1>1, <2>1, <2>2 DEF FileInv, Lost
  <1>5. ASSUME Writers = {t}, NEW f \in Fields \ races'.fields, file' # <<>>
        PROVE  file'[1][f] = Live(f)'
    <2>1. CASE f # task[t].field
      BY <1>1, <1>2, <1>3, <1>5, <2>1, Ending
    <2>2. CASE f = task[t].field
      <3>0. f \in Fields /\ f \notin races.fields /\ f # "proxies"
        BY <1>2, <2>2
      <3>1. task[t].alone /\ f \in {"mode", "optimizer", "mapping"} /\ f \notin races.fields
        BY <1>1, <2>2, <3>0, Ending DEF Fields
      <3>2. CASE f = "mode"
        <4>1. Live("mode")' = task[t].old
          BY <1>1, <2>2, <3>2, LiveSet DEF Restored
        <4>2. file[1].mode = task[t].old
          BY <1>1, <1>5, <2>2, <3>1, <3>2 DEF FileInv, Undone
        <4> QED BY <1>1, <3>2, <4>1, <4>2
      <3>3. CASE f # "mode"
        BY <1>1, <1>5, <2>2, <3>1, <3>3 DEF FileInv, Undone, Live, Restored
      <3> QED BY <3>2, <3>3
    <2> QED BY <2>1, <2>2
  <1>6. ASSUME Writers # {t}, NEW f \in Fields \ races'.fields
        PROVE  /\ f # task[t].field /\ Live(f)' = Live(f)
               /\ f \notin FieldsOf(Writers) /\ file' # <<>> => file'[1][f] = Live(f)
    BY <1>1, <1>2, <1>3, <1>6, Ending
  <1>7. races.fields \subseteq races'.fields
    BY <1>2
  <1> QED BY <1>1, <1>4, <1>5, <1>6, <1>7, LeaveFile

\* When config.json is left in no state at all, everything is in doubt.
LEMMA SpoilFile ==
  ASSUME TypeInv, FileInv, NEW t \in Writers, Return(t), proxies' = proxies, races'.fields = Fields
  PROVE  FileInv'
  <1>1. Lost'
    BY DEF Lost
  <1>2. races.fields \subseteq races'.fields
    BY DEF TypeInv, Overlaps
  <1> QED BY <1>1, <1>2, LeaveFile

LEMMA ApplyFile ==
  ASSUME TypeInv, FileInv, NEW t \in Tasks, Apply(t)
  PROVE  FileInv'
  <1>1. /\ t \in Writers /\ t \in At("applying") /\ task[t].pc = "applying"
        /\ Return(t) /\ proxies' = proxies /\ file' = file
        /\ live' = [live EXCEPT ![task[t].field] = task[t].value] /\ races' = Settled(t)
    BY DEF Apply, Writers, At
  <1>2. PICK g \in {"optimizer", "mapping"} : g = task[t].field
    BY <1>1 DEF FileInv, OnlySettingsApply
  <1>3. /\ task[t].alone => races'.fields = races.fields \ {task[t].field}
        /\ ~task[t].alone => races' = races
    BY <1>1 DEF Settled, TypeInv, Overlaps
  <1>4. /\ \A f \in Fields : f # g => Live(f)' = Live(f)
        /\ Live(g)' = task[t].value
    <2>1. g \in {"mode", "optimizer", "mapping"} /\ live' = [live EXCEPT ![g] = task[t].value]
      BY <1>1, <1>2
    <2> QED BY <1>1, <2>1, LiveSet
  <1>5. Lost'
    <2>1. \A u \in At("filling") : u \in At("filling")'
      BY <1>1 DEF At, Return, TypeInv
    <2>2. task[t].alone => file # <<>>
      BY <1>1 DEF FileInv, Done
    <2> QED BY <1>1, <1>3, <2>1, <2>2 DEF FileInv, Lost
  <1>6. ASSUME Writers = {t}, NEW f \in Fields \ races'.fields, file' # <<>>
        PROVE  file'[1][f] = Live(f)'
    <2>1. CASE f # task[t].field
      BY <1>1, <1>2, <1>3, <1>4, <1>6, <2>1, Ending
    <2>2. CASE f = task[t].field
      <3>1. task[t].alone
        BY <1>3, <1>6, <2>2, Ending
      <3>2. file[1][task[t].field] = task[t].value
        BY <1>1, <3>1 DEF FileInv, Done
      <3> QED BY <1>1, <1>2, <1>4, <2>2, <3>2
    <2> QED BY <2>1, <2>2
  <1>7. ASSUME Writers # {t}, NEW f \in Fields \ races'.fields
        PROVE  /\ f # task[t].field /\ Live(f)' = Live(f)
               /\ f \notin FieldsOf(Writers) /\ file' # <<>> => file'[1][f] = Live(f)
    BY <1>1, <1>2, <1>3, <1>4, <1>7, Ending
  <1>8. Writers # {t} => races.fields \subseteq races'.fields
    BY <1>1, <1>3, Ending
  <1> QED BY <1>1, <1>5, <1>6, <1>7, <1>8, LeaveFile

\* What a copy of config.json holds once its field is changed.
LEMMA Updated ==
  ASSUME TypeInv, NEW t \in Tasks, task[t].pc = "filling"
  PROVE  LET updated == <<[task[t].base[1] EXCEPT ![task[t].field] = task[t].value]>>
         IN  /\ updated # <<>> /\ task[t].base # <<>>
             /\ updated[1][task[t].field] = task[t].value
             /\ \A f \in Fields : f # task[t].field => updated[1][f] = task[t].base[1][f]
  <1>1. task[t].field \in Fields /\ task[t].base \in Image /\ task[t].base # <<>>
    BY WritingShape
  <1>2. PICK c \in Contents : task[t].base = <<c>>
    BY <1>1 DEF Image
  <1>3. DOMAIN c = Fields
    BY DEF Contents, Fields
  <1>4. task[t].base[1] = c
    BY <1>2
  <1> QED BY <1>1, <1>3, <1>4

\* config.json is written in full, or two writers garble it.
LEMMA FillFile ==
  ASSUME TypeInv, FileInv, NEW t \in Tasks, Fill(t)
  PROVE  FileInv'
  <1> DEFINE field == task[t].field
             updated == <<[task[t].base[1] EXCEPT ![field] = task[t].value]>>
             applies == field \in {"optimizer", "mapping"}
  <1>1. /\ t \in Writers /\ t \in At("filling") /\ task[t].pc = "filling" /\ task[t] \in Writing
        /\ proxies' = proxies /\ live' = live
        /\ IF applies THEN Go(t, "applying") ELSE Return(t)
        /\ \/ file' = updated /\ races' = (IF applies THEN races ELSE Settled(t))
           \/ file # <<>> /\ file' = <<>> /\ races' = [races EXCEPT !.fields = Fields]
    BY WritingShape DEF Fill, Writers, At
  <1>2. /\ updated # <<>> /\ task[t].base # <<>>
        /\ updated[1][field] = task[t].value
        /\ \A f \in Fields : f # field => updated[1][f] = task[t].base[1][f]
    BY <1>1, Updated
  <1> HIDE DEF updated
  <1>3. \A f : Live(f)' = Live(f)
    BY <1>1 DEF Live
  <1>4. task[t].alone => file = <<>>
    BY <1>1 DEF FileInv, Done
  <1>5. CASE ~applies
    <2>1. Return(t)
      BY <1>1, <1>5
    <2>2. CASE races' = [races EXCEPT !.fields = Fields]
      <3>1. races'.fields = Fields
        BY <2>2 DEF TypeInv, Overlaps
      <3> QED BY <1>1, <2>1, <3>1, SpoilFile
    <2>3. CASE file' = updated /\ races' = Settled(t)
      <3>1. /\ task[t].alone => races'.fields = races.fields \ {field}
            /\ ~task[t].alone => races' = races
        BY <2>3 DEF Settled, TypeInv, Overlaps
      <3>2. Lost'
        BY <1>2, <2>3 DEF Lost
      <3>3. ASSUME Writers = {t}, NEW f \in Fields \ races'.fields
            PROVE  file'[1][f] = Live(f)'
        <4>1. CASE f # field
          BY <1>1, <1>2, <1>3, <2>3, <3>1, <3>3, <4>1, Ending
        <4>2. CASE f = field
          <5>1. task[t].alone
            BY <1>1, <3>1, <3>3, <4>2, Ending
          <5>2. f \in {"mode", "proxies"}
            BY <1>5, <4>2 DEF Fields
          <5>3. task[t].value = Live(f)
            BY <1>1, <4>2, <5>1, <5>2 DEF FileInv, Done, Live
          <5> QED BY <1>2, <1>3, <2>3, <4>2, <5>3
        <4> QED BY <4>1, <4>2
      <3>4. ASSUME Writers # {t}, NEW f \in Fields \ races'.fields
            PROVE  /\ f # field /\ Live(f)' = Live(f)
                   /\ f \notin FieldsOf(Writers) /\ file' # <<>> => file'[1][f] = Live(f)
        BY <1>1, <1>2, <1>3, <2>3, <3>1, <3>4, Ending
      <3>5. Writers # {t} => races.fields \subseteq races'.fields
        BY <1>1, <3>1, Ending
      <3> QED BY <1>1, <2>1, <3>2, <3>3, <3>4, <3>5, LeaveFile
    <2> QED BY <1>1, <1>5, <2>2, <2>3
  <1>6. CASE applies
    <2>1. task' = [task EXCEPT ![t].pc = "applying"]
      BY <1>1, <1>6 DEF Go
    <2>2. /\ task'[t] = [task[t] EXCEPT !.pc = "applying"]
          /\ \A u \in Tasks \ {t} : task'[u] = task[u]
      BY <2>1 DEF TypeInv
    <2>3. /\ task'[t].pc = "applying" /\ task'[t].alone = task[t].alone
          /\ task'[t].field = field /\ task'[t].value = task[t].value
          /\ task'[t].old = task[t].old /\ task'[t].base = task[t].base
      BY <1>1, <2>2, StepFields
    <2>4. Writers' = Writers /\ \A u \in Writers \ {t} : u \in Tasks /\ task'[u] = task[u]
      BY <1>1, <2>2, <2>3 DEF Writers
    <2>5. FieldsOf(Writers)' = FieldsOf(Writers)
      BY <2>3, <2>4 DEF FieldsOf
    <2>6. \A u \in Writers \ {t} : ~task[u].alone
      BY <1>1 DEF FileInv, OneOrDoubt
    <2>7. races.fields \subseteq races'.fields
      BY <1>1, <1>6 DEF TypeInv, Overlaps
    <2>8. file' = <<>> => races'.fields = Fields /\ ~task[t].alone
      BY <1>1, <1>2, <1>4 DEF TypeInv, Overlaps
    <2>9. file' # <<>> => file' = updated
      BY <1>1
    <2>10. Lost'
      BY <2>8 DEF Lost
    <2>11. Agree'
      <3> SUFFICES ASSUME NEW f \in Fields, f \notin races'.fields, f \notin FieldsOf(Writers)
                   PROVE  /\ file' # <<>> => file'[1][f] = Live(f)
                          /\ \A u \in Writers : task'[u].base # <<>> => task'[u].base[1][f] = Live(f)
        BY <1>3, <2>4, <2>5 DEF Agree
      <3>1. \A u \in Writers : task[u].base # <<>> => task[u].base[1][f] = Live(f)
        BY <2>7 DEF FileInv, Agree
      <3>2. f # field
        BY <1>1 DEF FieldsOf
      <3> QED BY <1>1, <1>2, <2>3, <2>4, <2>9, <3>1, <3>2
    <2>12. OneOrDoubt'
      BY <2>3, <2>4, <2>7 DEF FileInv, OneOrDoubt
    <2>13. Done'
      <3>1. field # "mode" /\ field # "proxies"
        BY <1>6
      <3>2. task[t].alone => file' # <<>> /\ file'[1][field] = task[t].value
        BY <1>2, <2>8, <2>9
      <3> QED BY <2>3, <2>4, <2>6, <3>1, <3>2 DEF Done
    <2>14. Undone'
      <3>1. field # "mode"
        BY <1>6
      <3> QED BY <2>3, <2>4, <2>6, <3>1 DEF Undone
    <2>15. OnlySettingsApply'
      BY <1>6, <2>2, <2>3 DEF FileInv, OnlySettingsApply, At
    <2> QED BY <2>10, <2>11, <2>12, <2>13, <2>14, <2>15 DEF FileInv
  <1> QED BY <1>5, <1>6

\* The calls that start an update.
LEMMA StartFile ==
  ASSUME TypeInv, FileInv, NEW t \in Tasks,
         SetConfig(t) \/ SetMode(t) \/ CreateProxy(t) \/ UpdateProxy(t) \/ RemoveProxy(t)
  PROVE  FileInv'
  <1>1. t \notin Writers
    BY DEF SetConfig, SetMode, CreateProxy, UpdateProxy, RemoveProxy, Writers, Idle
  <1>2. CASE SetConfig(t)
    <2>1. PICK field \in {"optimizer", "mapping"}, value \in Settings :
            Join(t, Writer(field, value, value), races)
      BY <1>2 DEF SetConfig
    <2> DEFINE call == Writer(field, value, value)
    <2>2. /\ call \in Writing /\ call.pc = "loading" /\ call.base = <<>>
          /\ call.field \in {"optimizer", "mapping"}
      BY DEF Writer, Writing, WritingSetting, Image, Steps
    <2>3. file' = file /\ live' = live /\ \A f : Live(f)' = Live(f)
      BY <1>2 DEF SetConfig, Live
    <2> HIDE DEF call
    <2> QED BY <1>1, <2>1, <2>2, <2>3, JoinFile DEF call
  <1>3. CASE SetMode(t)
    <2>1. PICK mode \in ValidModes :
            live' = [live EXCEPT !.mode = mode] /\ Join(t, Writer("mode", mode, live.mode), races)
      BY <1>3 DEF SetMode
    <2> DEFINE call == Writer("mode", mode, live.mode)
    <2>2. /\ call \in Writing /\ call.pc = "loading" /\ call.base = <<>>
          /\ call.field = "mode" /\ call.value = mode /\ call.old = live.mode
      <3>1. live.mode \in Modes /\ mode \in Modes
        BY DEF TypeInv, TypeOK, ValidModes
      <3> QED BY <3>1 DEF Writer, Writing, WritingMode, Image, Steps
    <2>3. file' = file /\ live'.mode = mode /\ \A f \in Fields : f # "mode" => Live(f)' = Live(f)
      <3>1. proxies' = proxies /\ file' = file
        BY <1>3 DEF SetMode
      <3>2. live'.mode = mode
        BY <2>1 DEF TypeInv, TypeOK
      <3> QED BY <2>1, <3>1, <3>2, LiveSet
    <2> HIDE DEF call
    <2> QED BY <1>1, <2>1, <2>2, <2>3, JoinFile DEF call
  <1>4. CASE CreateProxy(t) \/ UpdateProxy(t) \/ (RemoveProxy(t) /\ task[t].id \in DOMAIN proxies)
    <2> DEFINE call == Writer("proxies", <<>>, <<>>)
    <2>1. Join(t, call, races) /\ file' = file /\ live' = live
      BY <1>4 DEF CreateProxy, UpdateProxy, RemoveProxy
    <2>2. /\ call \in Writing /\ call.pc = "copying" /\ call.base = <<>> /\ call.field = "proxies"
      BY EmptyProfile DEF Writer, Writing, WritingProxies, Image, Steps
    <2>3. \A f \in Fields : f # "proxies" => Live(f)' = Live(f)
      BY <2>1 DEF Live
    <2> HIDE DEF call
    <2> QED BY <1>1, <2>1, <2>2, <2>3, JoinFile
  <1>5. CASE RemoveProxy(t) /\ task[t].id \notin DOMAIN proxies
    <2>1. \A u \in Tasks : task'[u] = task[u] \/ (u \notin Writers /\ u \notin Writers')
      BY <1>1, <1>5 DEF RemoveProxy, Return, TypeInv, Writers, Idle
    <2> QED BY <1>5, <2>1, NoUpdate DEF RemoveProxy
  <1> QED BY <1>2, <1>3, <1>4, <1>5

LEMMA OthersFile ==
  ASSUME TypeInv, FileInv, NEW t \in Tasks,
         \/ CheckDuplicate(t) \/ NotGranted(t) \/ NumberIt(t) \/ Push(t) \/ OtherStep(t)
  PROVE  FileInv'
  <1>0. races \in Overlaps /\ task \in [Tasks -> Calls]
    BY DEF TypeInv
  <1>1. proxies' = proxies /\ live' = live /\ file' = file
    BY DEF CheckDuplicate, NotGranted, NumberIt, Push, OtherStep, SetDisabled, Delete, DeleteUnsaved,
           ClearBalance, SaveBalances, AskBalance, SendRequest, RequestFails, SetPreference,
           CacheBalance, CheckUnused, CheckProxies, AssignProxies
  <1>2. races'.fields = races.fields
    <2>1. CASE CheckDuplicate(t) \/ NotGranted(t) \/ NumberIt(t) \/ Push(t)
      BY <1>0, <2>1 DEF CheckDuplicate, NotGranted, NumberIt, Push, Overlaps
    <2>2. CASE OtherStep(t)
      BY <1>0, <2>2 DEF OtherStep, SetDisabled, Delete, DeleteUnsaved, ClearBalance, SaveBalances,
            AskBalance, SendRequest, RequestFails, SetPreference, CacheBalance, CheckUnused,
            CheckProxies, AssignProxies, Overlaps
    <2> QED BY <2>1, <2>2
  <1>3. task[t].pc \in Sections \cup {"idle"}
    <2>1. CASE NotGranted(t) \/ NumberIt(t) \/ Push(t) \/ AssignProxies(t)
      BY <2>1 DEF NotGranted, NumberIt, Push, AssignProxies, Sections
    <2>2. CASE CheckDuplicate(t) \/ SetDisabled(t) \/ Delete(t) \/ AskBalance(t)
               \/ CheckUnused(t) \/ CheckProxies(t)
      <3>1. (\E c : Begin(t, c)) \/ Answer(t)
        <4>1. CASE CheckDuplicate(t)
          BY <4>1 DEF CheckDuplicate
        <4>2. CASE SetDisabled(t)
          BY <4>2 DEF SetDisabled
        <4>3. CASE Delete(t)
          BY <4>3 DEF Delete
        <4>4. CASE AskBalance(t)
          BY <4>4 DEF AskBalance
        <4>5. CASE CheckUnused(t) \/ CheckProxies(t)
          BY <4>5 DEF CheckUnused, CheckProxies
        <4> QED BY <2>2, <4>1, <4>2, <4>3, <4>4, <4>5
      <3> QED BY <3>1 DEF Begin, Answer, Idle
    <2>3. CASE DeleteUnsaved(t) \/ ClearBalance(t) \/ SaveBalances(t) \/ SendRequest(t)
               \/ RequestFails(t) \/ SetPreference(t) \/ CacheBalance(t)
      BY <2>3 DEF DeleteUnsaved, ClearBalance, SaveBalances, SendRequest, RequestFails,
                  SetPreference, CacheBalance, Sections
    <2> QED BY <2>1, <2>2, <2>3 DEF OtherStep
  <1>4. task'[t].pc \in Sections \cup {"idle"} /\ \A u \in Tasks \ {t} : task'[u] = task[u]
    <2>1. Return(t) => task'[t].pc = "idle" /\ \A u \in Tasks \ {t} : task'[u] = task[u]
      BY <1>0 DEF Return, Idle
    <2>2. ASSUME NEW c, Begin(t, c), c.pc \in Sections
          PROVE  task'[t].pc \in Sections /\ \A u \in Tasks \ {t} : task'[u] = task[u]
      BY <1>0, <2>2 DEF Begin
    <2>3. ASSUME NEW pc \in {"saving", "fetching"}, Go(t, pc), task[t] \in Asking \cup Deleting
          PROVE  task'[t].pc \in Sections /\ \A u \in Tasks \ {t} : task'[u] = task[u]
      BY <1>0, <2>3 DEF Go, Asking, Deleting, Sections
    <2>4. CASE CheckDuplicate(t) \/ NumberIt(t)
      <3>1. CASE CheckDuplicate(t)
        <4>1. PICK a \in Accounts, ps \in SUBSET Ids :
                Begin(t, [pc |-> "granting", account |-> a, proxies |-> ps])
          BY <3>1 DEF CheckDuplicate
        <4> QED BY <2>2, <4>1 DEF Sections
      <3>2. CASE NumberIt(t)
        BY <1>0, <3>2 DEF NumberIt, Sections
      <3> QED BY <2>4, <3>1, <3>2
    <2>5. CASE SetDisabled(t)
      BY <1>3, <2>5 DEF SetDisabled, Answer
    <2>6. CASE NotGranted(t) \/ Push(t) \/ DeleteUnsaved(t) \/ SaveBalances(t) \/ RequestFails(t)
                 \/ AssignProxies(t)
      BY <2>1, <2>6 DEF NotGranted, Push, DeleteUnsaved, SaveBalances, RequestFails, AssignProxies
    <2>7. CASE Delete(t) \/ AskBalance(t) \/ CheckUnused(t) \/ CheckProxies(t)
      <3>1. CASE Delete(t)
        <4>1. PICK id \in Known : Begin(t, [pc |-> "clearing", id |-> id])
          BY <3>1 DEF Delete
        <4> QED BY <2>2, <4>1 DEF Sections
      <3>2. CASE AskBalance(t)
        <4>1. PICK id \in Known, overage \in BOOLEAN :
                Begin(t, [pc |-> "asked", id |-> id, overage |-> overage,
                          account |-> credentials[First(id)].account])
          BY <3>2 DEF AskBalance
        <4> QED BY <2>2, <4>1 DEF Sections
      <3>3. CASE CheckUnused(t)
        <4>1. PICK id \in DOMAIN proxies : Begin(t, [pc |-> "removing", id |-> id])
          BY <3>3 DEF CheckUnused
        <4> QED BY <2>2, <4>1 DEF Sections
      <3>4. CASE CheckProxies(t)
        <4>1. PICK ids \in SUBSET Known, ps \in SUBSET DOMAIN proxies :
                Begin(t, [pc |-> "assigning", ids |-> ids, proxies |-> ps])
          BY <3>4 DEF CheckProxies
        <4> QED BY <2>2, <4>1 DEF Sections
      <3> QED BY <2>7, <3>1, <3>2, <3>3, <3>4
    <2>8. CASE ClearBalance(t) \/ SendRequest(t) \/ CacheBalance(t)
      BY <2>1, <2>3, <2>8, ShapeAt DEF ClearBalance, SendRequest, CacheBalance
    <2>9. CASE SetPreference(t)
      <3>1. task[t] \in Asking
        BY <2>9, ShapeAt DEF SetPreference
      <3> QED BY <1>0, <2>1, <2>9, <3>1 DEF SetPreference, Asking, Sections
    <2> QED BY <2>4, <2>5, <2>6, <2>7, <2>8, <2>9 DEF OtherStep
  <1>5. t \notin Writers /\ t \notin Writers'
    BY <1>3, <1>4 DEF Writers, Sections
  <1> QED BY <1>1, <1>2, <1>4, <1>5, NoUpdate

LEMMA FileNext == TypeInv /\ FileInv /\ [Next]_vars => FileInv'
  <1> SUFFICES ASSUME TypeInv, FileInv, [Next]_vars PROVE FileInv'
    OBVIOUS
  <1>1. CASE UNCHANGED vars
    BY <1>1, NoUpdate DEF vars
  <1>2. CASE Next
    <2>1. PICK t \in Tasks :
            \/ CheckDuplicate(t) \/ NotGranted(t) \/ NumberIt(t) \/ Push(t)
            \/ OtherStep(t) \/ SettingsStep(t)
      BY <1>2 DEF Next, OtherStep, SettingsStep
    <2>2. CASE WriteFails(t)
      <3>1. t \in Writers /\ Return(t) /\ proxies' = proxies
        BY <2>2 DEF WriteFails, Fail, Writers
      <3>2. races'.fields = Fields
        <4>1. races' = [races EXCEPT !.fields = @ \cup Fields \cup ({task[t].field} \cap {"proxies"})]
          BY <2>2 DEF WriteFails, Fail
        <4>2. races.fields \subseteq Fields
          BY DEF TypeInv, Overlaps
        <4> QED BY <4>1, <4>2 DEF TypeInv, Overlaps, Fields
      <3> QED BY <3>1, <3>2, SpoilFile
    <2> QED BY <2>1, <2>2, OthersFile, StartFile, GoOnFile, FailFile, FillFile, ApplyFile
            DEF SettingsStep
  <1> QED BY <1>1, <1>2

\* When no update is under way, config.json agrees with what is in force, but
\* for the fields counted in races.fields (update_config, set_load_balancing_mode,
\* persist_proxy_profiles), for any number of handlers, settings and profiles.
THEOREM FileAgreesAlways == Spec => []FileAgrees
  <1>1. FileInv => FileAgrees
    <2> SUFFICES ASSUME FileInv, Writers = {}, NEW f \in Fields \ races.fields
                 PROVE  file # <<>> /\ file[1][f] = IF f = "proxies" THEN proxies ELSE live[f]
      BY DEF FileAgrees
    <2>1. FieldsOf(Writers) = {} /\ At("filling") = {}
      BY DEF FieldsOf, At, Writers
    <2> QED BY <2>1 DEF FileInv, Lost, Agree, Live
  <1> QED BY <1>1, TypeInit, TypeNext, FileInit, FileNext, PTL DEF Spec
=============================================================================
