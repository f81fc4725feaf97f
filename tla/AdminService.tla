---------------------------- MODULE AdminService ----------------------------
(***************************************************************************)
(* Admin calls that run at the same time (AdminService over the token      *)
(* manager): credentials added and deleted, their balances asked for and   *)
(* cached, proxies kept and assigned, and the settings of config.json.     *)
(* Every lock is taken for one section only, so that two calls interleave  *)
(* between the sections; an await and a file access are such gaps, too.    *)
(***************************************************************************)
EXTENDS Integers, FiniteSets

CONSTANTS
  Tasks,        \* handlers that run admin calls
  Accounts,     \* who a refresh token or an API key belongs to
  Hosts,        \* where a proxy profile points
  Modes,        \* "priority", "balanced"
  AskedModes,   \* what a client may ask for
  Settings,     \* values of cache_optimizer and of model_mapping
  Starts,       \* the credentials a run may start with
  MaxId,        \* bound: ids handed out
  MaxCalls      \* bound: admin calls

Ids == 1 .. MaxId
Places == 1 .. MaxId + MaxCalls
Entries == [id : Ids, account : Accounts, proxies : SUBSET Ids, disabled : BOOLEAN]

ASSUME AdminAssumption ==
  /\ Modes \subseteq AskedModes /\ MaxId \in Nat /\ MaxCalls \in Nat
  \* MultiTokenManager::new refuses a credentials file with a repeated id.
  /\ \A start \in Starts : \A i, j \in DOMAIN start :
       /\ i \in Places /\ start[i] \in Entries
       /\ i # j => start[i].id # start[j].id /\ start[i].account # start[j].account

VARIABLES
  credentials,  \* entries: place -> [id, account, proxies, disabled], in their order
  proxies,      \* proxy_profiles: id -> host
  live,         \* the settings in force: mode, optimizer, mapping
  file,         \* config.json: <<its contents>>, or <<>> when it does not parse
  balances,     \* balance_cache: id -> account whose balance it is
  saved,        \* kiro_balance_cache.json
  task,         \* the call each handler is in, and where
  calls,
  races         \* history: what calls that overlapped may have left behind

vars == <<credentials, proxies, live, file, balances, saved, task, calls, races>>

Fields == {"mode", "optimizer", "mapping", "proxies"}
Idle == [pc |-> "idle"]
Without(f, x) == [y \in DOMAIN f \ {x} |-> f[y]]
Set(f, x, v) == [y \in DOMAIN f \cup {x} |-> IF y = x THEN v ELSE f[y]]

Init ==
  /\ credentials \in Starts
  /\ proxies \in [UNION {credentials[i].proxies : i \in DOMAIN credentials} -> Hosts]
  /\ \E m \in Modes, s \in Settings :
       /\ live = [mode |-> m, optimizer |-> s, mapping |-> s]
       /\ file = <<[mode |-> m, optimizer |-> s, mapping |-> s, proxies |-> proxies]>>
  /\ balances = <<>> /\ saved = <<>>
  /\ task = [t \in Tasks |-> Idle]
  /\ calls = 0
  /\ races = [ids |-> {}, accounts |-> {}, balances |-> {}, proxies |-> {}, fields |-> {}]

-----------------------------------------------------------------------------
\* What a call finds under the entries lock.
Known == {credentials[i].id : i \in DOMAIN credentials}
First(id) == CHOOSE i \in DOMAIN credentials :
               /\ credentials[i].id = id
               /\ \A j \in DOMAIN credentials : credentials[j].id = id => i <= j
\* n is one more than the greatest of `used`, or 1.
IsNext(n, used) == (\A k \in used : k < n) /\ (n = 1 \/ n - 1 \in used)

Call == calls < MaxCalls /\ calls' = calls + 1
Begin(t, call) == task[t] = Idle /\ Call /\ task' = [task EXCEPT ![t] = call]
Answer(t) == task[t] = Idle /\ Call /\ UNCHANGED task   \* a call of one section
Go(t, pc) == task' = [task EXCEPT ![t].pc = pc]
Return(t) == task' = [task EXCEPT ![t] = Idle]
At(pc) == {u \in Tasks : task[u].pc = pc}
\* Proxies that a list about to be stored names and that are gone, or about to be.
Missing(ps) == {p \in ps : p \notin DOMAIN proxies \/ \E u \in At("removing") : task[u].id = p}

-----------------------------------------------------------------------------
(* add_credential: duplicates are looked for, the credential is refreshed,  *)
(* its id is computed, and the entry is pushed, each on its own.            *)
Duplicate(account) == \E i \in DOMAIN credentials : credentials[i].account = account

CheckDuplicate(t) ==
  \E a \in Accounts, ps \in SUBSET Ids :
    /\ ~Duplicate(a)
    /\ Begin(t, [pc |-> "granting", account |-> a, proxies |-> ps])
    /\ races' = IF \E u \in At("granting") \cup At("pushing") : task[u].account = a
                THEN [races EXCEPT !.accounts = @ \cup {a}] ELSE races
    /\ UNCHANGED <<credentials, proxies, live, file, balances, saved>>

NotGranted(t) ==
  /\ task[t].pc = "granting"
  /\ Return(t)
  /\ UNCHANGED <<credentials, proxies, live, file, balances, saved, calls, races>>

IsNewIdByCount(n) == n = Cardinality(DOMAIN credentials) + 1
IsNewId(n) == IsNext(n, Known)

NumberIt(t) ==
  \E n \in Ids :
    /\ task[t].pc = "granting"
    /\ IsNewId(n)
    /\ task' = [task EXCEPT ![t] = [pc |-> "pushing", id |-> n,
                                    account |-> @.account, proxies |-> @.proxies]]
    /\ races' = IF \E u \in At("pushing") : task[u].id = n
                THEN [races EXCEPT !.ids = @ \cup {n}] ELSE races
    /\ UNCHANGED <<credentials, proxies, live, file, balances, saved, calls>>

\* proxy_ids of a new credential are taken as they are.
Push(t) ==
  \E place \in Places :
    /\ task[t].pc = "pushing"
    /\ IsNext(place, DOMAIN credentials)
    /\ credentials' = Set(credentials, place,
                          [id |-> task[t].id, account |-> task[t].account,
                           proxies |-> task[t].proxies, disabled |-> FALSE])
    /\ races' = [races EXCEPT !.proxies = @ \cup Missing(task[t].proxies)]
    /\ Return(t)
    /\ UNCHANGED <<proxies, live, file, balances, saved, calls>>

SetDisabled(t) ==
  \E id \in Known, disabled \in BOOLEAN :
    /\ Answer(t)
    /\ credentials[First(id)].disabled # disabled
    /\ credentials' = [credentials EXCEPT ![First(id)].disabled = disabled]
    /\ UNCHANGED <<proxies, live, file, balances, saved, races>>

-----------------------------------------------------------------------------
(* delete_credential: the entries go first, then the cached balance.        *)
Delete(t) ==
  \E id \in Known :
    /\ credentials[First(id)].disabled
    /\ Begin(t, [pc |-> "clearing", id |-> id])
    /\ credentials' = [i \in {j \in DOMAIN credentials : credentials[j].id # id} |-> credentials[i]]
    /\ UNCHANGED <<proxies, live, file, balances, saved, races>>

\* persist_credentials fails: the caller returns before it clears the balance.
DeleteUnsaved(t) ==
  /\ task[t].pc = "clearing"
  /\ races' = [races EXCEPT !.balances = @ \cup {task[t].id}]
  /\ Return(t)
  /\ UNCHANGED <<credentials, proxies, live, file, balances, saved, calls>>

Fetching(id) == \E u \in At("asked") \cup At("fetching") \cup At("setting") : task[u].id = id

ClearsNothing(id) == balances
Cleared(id) == Without(balances, id)

ClearBalance(t) ==
  LET id == task[t].id
  IN  /\ task[t].pc = "clearing"
      /\ balances' = Cleared(id)
      /\ races' = IF Fetching(id) THEN [races EXCEPT !.balances = @ \cup {id}] ELSE races
      /\ Go(t, "saving")
      /\ UNCHANGED <<credentials, proxies, live, file, saved, calls>>

\* save_balance_cache writes the file while it holds the lock.
SaveBalances(t) ==
  /\ task[t].pc = "saving"
  /\ saved' = balances
  /\ Return(t)
  /\ UNCHANGED <<credentials, proxies, live, file, balances, calls, races>>

-----------------------------------------------------------------------------
(* get_balance, get_balance_fresh and set_overage.  get_usage_limits_for    *)
(* reads the credential for its token, and again before the request; the    *)
(* answer is cached under the id whatever has become of it.                 *)
\* A hit within BALANCE_CACHE_TTL_SECS changes nothing and is left out.
AskBalance(t) ==
  \E id \in Known, overage \in BOOLEAN :
    /\ Begin(t, [pc |-> "asked", id |-> id, overage |-> overage,
                 account |-> credentials[First(id)].account])
    /\ UNCHANGED <<credentials, proxies, live, file, balances, saved, races>>

SendRequest(t) ==
  /\ task[t].pc = "asked"
  /\ IF task[t].id \in Known THEN Go(t, "fetching") ELSE Return(t)
  /\ UNCHANGED <<credentials, proxies, live, file, balances, saved, calls, races>>

RequestFails(t) ==
  /\ task[t].pc \in {"asked", "fetching", "setting"}
  /\ Return(t)
  /\ UNCHANGED <<credentials, proxies, live, file, balances, saved, calls, races>>

\* set_overage_for reads the credential a third time, for the preference.
SetPreference(t) ==
  LET q == task[t]
  IN  /\ q.pc = "fetching" /\ q.overage
      /\ IF q.id \in Known
         THEN task' = [task EXCEPT ![t].pc = "setting",
                                   ![t].account = credentials[First(q.id)].account]
         ELSE Return(t)
      /\ UNCHANGED <<credentials, proxies, live, file, balances, saved, calls, races>>

CacheBalance(t) ==
  LET q == task[t]
  IN  /\ q.pc = "setting" \/ (q.pc = "fetching" /\ ~q.overage)
      /\ balances' = Set(balances, q.id, q.account)
      /\ Go(t, "saving")
      /\ UNCHANGED <<credentials, proxies, live, file, saved, calls, races>>

-----------------------------------------------------------------------------
(* Settings.  Each update loads config.json, changes one field and writes   *)
(* the file: fs::write truncates it first.                                  *)
Writers == {u \in Tasks : task[u].pc \in {"copying", "loading", "writing", "filling", "applying"}}
FieldsOf(us) == {task[u].field : u \in us}

\* A call joins the writers; `doubt` is what it leaves in the way of the others.
Join(t, call, doubt) ==
  LET others == Writers \ {t}
      alone == others = {}
  IN  /\ task' = [u \in Tasks |->
                    IF u = t THEN [call EXCEPT !.alone = alone]
                    ELSE IF u \in others THEN [task[u] EXCEPT !.alone = FALSE] ELSE task[u]]
      /\ races' = IF alone THEN doubt
                  ELSE [doubt EXCEPT !.fields = @ \cup {call.field} \cup FieldsOf(others)]
Writer(field, value, old) ==
  [pc |-> IF field = "proxies" THEN "copying" ELSE "loading",
   field |-> field, value |-> value, old |-> old, base |-> <<>>, alone |-> TRUE]

SetConfig(t) ==
  \E field \in {"optimizer", "mapping"}, value \in Settings :
    /\ task[t] = Idle /\ Call
    /\ Join(t, Writer(field, value, value), races)
    /\ UNCHANGED <<credentials, proxies, live, file, balances, saved>>

AnyMode == AskedModes \ {live.mode}
ValidModes == (AskedModes \cap Modes) \ {live.mode}

\* set_load_balancing_mode changes the mode before the file.
SetMode(t) ==
  \E mode \in ValidModes :
    /\ task[t] = Idle /\ Call
    /\ live' = [live EXCEPT !.mode = mode]
    /\ Join(t, Writer("mode", mode, live.mode), races)
    /\ UNCHANGED <<credentials, proxies, file, balances, saved>>

CreateProxy(t) ==
  \E host \in Hosts, n \in Ids :
    /\ task[t] = Idle /\ Call
    /\ IsNext(n, DOMAIN proxies)
    /\ proxies' = Set(proxies, n, host)
    /\ Join(t, Writer("proxies", <<>>, <<>>), races)
    /\ UNCHANGED <<credentials, live, file, balances, saved>>

UpdateProxy(t) ==
  \E id \in DOMAIN proxies, host \in Hosts :
    /\ task[t] = Idle /\ Call
    /\ proxies' = [proxies EXCEPT ![id] = host]
    /\ Join(t, Writer("proxies", <<>>, <<>>), races)
    /\ UNCHANGED <<credentials, live, file, balances, saved>>

\* delete_proxy_profile looks at the entries, and then removes the profile.
UsedByEnabled(p) == \E i \in DOMAIN credentials :
                      p \in credentials[i].proxies /\ ~credentials[i].disabled
Used(p) == \E i \in DOMAIN credentials : p \in credentials[i].proxies

CheckUnused(t) ==
  \E id \in DOMAIN proxies :
    /\ ~Used(id)
    /\ Begin(t, [pc |-> "removing", id |-> id])
    /\ UNCHANGED <<credentials, proxies, live, file, balances, saved, races>>

RemoveProxy(t) ==
  LET id == task[t].id
  IN  /\ task[t].pc = "removing"
      /\ IF id \in DOMAIN proxies
         THEN /\ proxies' = Without(proxies, id)
              /\ Join(t, Writer("proxies", <<>>, <<>>), races)
         ELSE Return(t) /\ UNCHANGED <<proxies, races>>
      /\ UNCHANGED <<credentials, live, file, balances, saved, calls>>

\* set_credential_proxy_ids and its batch: the ids are checked, then stored.
CheckProxies(t) ==
  \E ids \in SUBSET Known, ps \in SUBSET DOMAIN proxies :
    /\ ids # {}
    /\ Begin(t, [pc |-> "assigning", ids |-> ids, proxies |-> ps])
    /\ UNCHANGED <<credentials, proxies, live, file, balances, saved, races>>

AssignProxies(t) ==
  /\ task[t].pc = "assigning"
  /\ credentials' = [i \in DOMAIN credentials |->
                       IF credentials[i].id \in task[t].ids
                       THEN [credentials[i] EXCEPT !.proxies = task[t].proxies]
                       ELSE credentials[i]]
  /\ races' = [races EXCEPT !.proxies = @ \cup Missing(task[t].proxies)]
  /\ Return(t)
  /\ UNCHANGED <<proxies, live, file, balances, saved, calls>>

\* persist_proxy_profiles
CopyProxies(t) ==
  /\ task[t].pc = "copying"
  /\ task' = [task EXCEPT ![t].pc = "loading", ![t].value = proxies]
  /\ UNCHANGED <<credentials, proxies, live, file, balances, saved, calls, races>>

Load(t) ==
  /\ task[t].pc = "loading" /\ file # <<>>
  /\ task' = [task EXCEPT ![t].pc = "writing", ![t].base = file]
  /\ UNCHANGED <<credentials, proxies, live, file, balances, saved, calls, races>>

\* An update that fails: set_load_balancing_mode restores what it found, the
\* proxies stay as they are in memory.
KeepsMode(t) == live
Restored(t) == IF task[t].field = "mode" THEN [live EXCEPT !.mode = task[t].old] ELSE live

Fail(t, doubt) ==
  /\ live' = Restored(t)
  /\ races' = [races EXCEPT !.fields = @ \cup doubt \cup ({task[t].field} \cap {"proxies"})]
  /\ Return(t)

LoadFails(t) ==
  /\ task[t].pc = "loading"
  /\ Fail(t, {})
  /\ UNCHANGED <<credentials, proxies, file, balances, saved, calls>>

SaveFails(t) ==
  /\ task[t].pc = "writing"
  /\ Fail(t, {})
  /\ UNCHANGED <<credentials, proxies, file, balances, saved, calls>>

Truncate(t) ==
  /\ task[t].pc = "writing"
  /\ file' = <<>>
  /\ Go(t, "filling")
  /\ UNCHANGED <<credentials, proxies, live, balances, saved, calls, races>>

WriteFails(t) ==
  /\ task[t].pc = "filling"
  /\ file' = <<>>
  /\ Fail(t, Fields)
  /\ UNCHANGED <<credentials, proxies, balances, saved, calls>>

\* Of an update nobody overlapped nothing is in doubt any more.
Settled(t) == IF task[t].alone THEN [races EXCEPT !.fields = @ \ {task[t].field}] ELSE races

Fill(t) ==
  LET q == task[t]
      updated == <<[q.base[1] EXCEPT ![q.field] = q.value]>>
      applies == q.field \in {"optimizer", "mapping"}
      \* Two writers at once may leave the end of the longer text behind the shorter.
      garbles == file # <<>>
  IN  /\ q.pc = "filling"
      /\ \/ /\ file' = updated
            /\ races' = IF applies THEN races ELSE Settled(t)
         \/ /\ garbles /\ file' = <<>>
            /\ races' = [races EXCEPT !.fields = Fields]
      /\ IF applies THEN Go(t, "applying") ELSE Return(t)
      /\ UNCHANGED <<credentials, proxies, live, balances, saved, calls>>

Apply(t) ==
  /\ task[t].pc = "applying"
  /\ live' = [live EXCEPT ![task[t].field] = task[t].value]
  /\ races' = Settled(t)
  /\ Return(t)
  /\ UNCHANGED <<credentials, proxies, file, balances, saved, calls>>

-----------------------------------------------------------------------------
Next == \E t \in Tasks :
  \/ CheckDuplicate(t) \/ NotGranted(t) \/ NumberIt(t) \/ Push(t) \/ SetDisabled(t)
  \/ Delete(t) \/ DeleteUnsaved(t) \/ ClearBalance(t) \/ SaveBalances(t)
  \/ AskBalance(t) \/ SendRequest(t) \/ RequestFails(t) \/ SetPreference(t) \/ CacheBalance(t)
  \/ SetConfig(t) \/ SetMode(t) \/ CreateProxy(t) \/ UpdateProxy(t)
  \/ CheckUnused(t) \/ RemoveProxy(t) \/ CheckProxies(t) \/ AssignProxies(t)
  \/ CopyProxies(t) \/ Load(t) \/ LoadFails(t) \/ SaveFails(t) \/ Truncate(t)
  \/ WriteFails(t) \/ Fill(t) \/ Apply(t)

Spec == Init /\ [][Next]_vars

-----------------------------------------------------------------------------
Profiles == UNION {[ps -> Hosts] : ps \in SUBSET Ids}
Balances == UNION {[ids -> Accounts] : ids \in SUBSET Ids}

TypeOK ==
  /\ \A i \in DOMAIN credentials : i \in Places /\ credentials[i] \in Entries
  /\ proxies \in Profiles
  /\ live \in [mode : Modes, optimizer : Settings, mapping : Settings]
  /\ file # <<>> =>
       file[1] \in [mode : Modes, optimizer : Settings, mapping : Settings, proxies : Profiles]
  /\ balances \in Balances /\ saved \in Balances
  /\ calls \in 0 .. MaxCalls

\* Two entries share an id, or an account, only when two additions overlapped:
\* between the computation of the id and the push, or between the look for
\* duplicates and the push (add_credential).
Distinct ==
  \A i, j \in DOMAIN credentials : i # j =>
    /\ credentials[i].id = credentials[j].id => credentials[i].id \in races.ids
    /\ credentials[i].account = credentials[j].account => credentials[i].account \in races.accounts

\* A cached balance is that of the credential with its id, whichever ids have
\* been given out again, unless a request for it was under way when the balance
\* of a deleted credential was cleared, or it was never cleared because the
\* deletion could not be saved (delete_credential, get_balance).
BalancesFollow ==
  \A id \in DOMAIN balances \ races.balances :
    \/ id \in Known /\ balances[id] = credentials[First(id)].account
    \/ \E u \in At("clearing") : task[u].id = id

\* The proxies of a credential exist, unless the list was stored unchecked, or
\* over the removal of one of them (delete_proxy_profile looks for users under
\* one lock and removes under another).
ReferencesHold ==
  \A i \in DOMAIN credentials : credentials[i].proxies \subseteq DOMAIN proxies \cup races.proxies

\* When no update is under way, config.json holds what is in force, but for the
\* fields of updates that overlapped and proxies that could not be saved: an
\* update that fails leaves neither of the two ahead of the other.
FileAgrees ==
  Writers = {} => \A f \in Fields \ races.fields :
    file # <<>> /\ file[1][f] = IF f = "proxies" THEN proxies ELSE live[f]
=============================================================================
