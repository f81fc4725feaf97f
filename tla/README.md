# A TLA+ model of the credential proxy

The repository is a Rust server that answers the Anthropic API by calling the
Kiro (CodeWhisperer) API with one of several credentials. This directory holds
TLA+ modules translated from its source, the TLC configurations that check
them, and TLAPS proofs about them. Paths below are relative to `src/src/` of
the repository unless they start with `doc/`.

## 1. Inventory

| component | state | operations | what makes it correct |
|---|---|---|---|
| credential pool, `kiro/token_manager.rs` | `entries` (one lock), `current_id` (nested in it or alone), `load_balancing_mode`, `session_affinity`, each with its own lock | `acquire_context_for_session`, `report_*`, drop of `ConcurrencyGuard`, `try_autoheal`, admin operations | no slot leaks or doubles; the hard limit holds at admission; every wait ends; only consecutive failures heal by themselves |
| token refresh, same file | tokens inside `entries`, `refresh_lock` (async) | `try_ensure_token`, `force_refresh_token_for`, `get_usage_limits_for`, `update_profile_arn`, `add_credential` | one refresh at a time, nothing else of a credential lost by it, a rotated refresh token never used again |
| persistence, same file | credentials file, stats file, `config.json` | `persist_credentials`, `save_stats*`, `persist_load_balancing_mode`, start-up in `new` | the newest state is what a restart finds |
| proxy profiles, same file | `proxy_profiles`, `proxy_ids` of each credential | create, update, delete, assign | no dangling reference |
| provider, `kiro/provider.rs` | `force_refreshed`, last error; caches of models and profiles | `call_api_with_retry`, `call_mcp` | bounded attempts; each outcome reported once, to the credential that produced it |
| admin service, `admin/` | balance cache, `config.json` | one per endpoint | caches follow the credentials; no update lost |
| handlers, `anthropic/handlers.rs` | per-stream state: decoder, `StreamContext`, guard, log id | streaming, buffered and plain requests | guard held to the end and no longer; one final event; back-fill of the call log |
| SSE state, `anthropic/stream.rs` | open blocks, thinking buffer, stop reason, usage | `process_kiro_event`, `generate_*` | a well-formed Anthropic event stream, whatever the upstream sends and wherever it is cut |
| decoder, `kiro/parser/` | buffer, state, error count | `feed`, `decode`, `decode_iter`, `try_recover` | every good frame is delivered once, in order; errors are bounded |
| cache tracker and rewriter, `anthropic/cache_*.rs` | fingerprints per credential with expiry | `build_profile`, `compute`, `update`; rewriting of usage | reads only what was created and has not expired; usage adds up |
| call log, log buffer | bounded queues, sequence numbers | `record`, `update_*`, `push`, `subscribe` | bounded, ids never reused, a back-fill hits its own entry |
| converter, web search | none | `convert_request`, the MCP path | tool uses and results pair up, roles alternate |
| the rest | none, or start-up only | endpoints, machine id, HTTP clients, models, config, token estimate, routers, middleware, auth, UI, logging, `main` | formatting and I/O |

How they interact: a handler calls the provider; the provider takes a context
and a guard from the pool for each attempt, calls the upstream, and reports the
outcome to the pool; on success the guard travels with the response to the
handler, which holds it until the body has been streamed. The admin service
calls the pool's admin operations from other tasks. Everything runs on tokio's
multi-threaded executor, so two tasks interleave at every lock, and a client's
disconnect drops a future at any of its awaits.

What is hard here: the pool's sections are atomic one by one but a request is a
sequence of a dozen of them; a future may be dropped while it waits; ids of
credentials are reused; refreshes hold no pool lock; several caches and files
are written after the lock that protected their contents was released; and the
SSE state machine is driven by text cut at arbitrary places. `hazards` in
`PROJECT.json` lists each of these at its line, with the properties that cover
it or a note on why none does.

## 2. Modules

| part | module | what it is |
|---|---|---|
| pool | `ConcurrencySlots` | the promise: every credential is a counting semaphore whose capacity may change |
| | `CredentialPool` | the pool in full: requests, waiting, affinity, failure counters, healing, admin operations |
| | `CredentialPoolProofs` | its theorems |
| refresh | `TokenRefresh` | refreshing, editing, deleting and storing credentials; the credentials file; a restart |
| | `TokenRefreshProofs` | its theorems |
| request | `ProviderRetry` | `kiro/provider.rs`: the retry loop of one call over a pool it shares |
| | `EventDecoder` | `kiro/parser/`: feed, parse, recover, as operators on a buffer of cells |
| | `CallLog` | `anthropic/call_log.rs`: the ring of entries, as operators |
| | `RequestLifecycle` | `anthropic/handlers.rs` and the route of `websearch.rs`; EXTENDS the three above |
| | `RequestLifecycleProofs` | its theorems, and what one feed and one pass of the decoder keep |
| stream | `ThinkingTags` | the search for the thinking tags, as operators on sequences |
| | `EventProtocol` | the promise: the automaton of events a client accepts |
| | `SseStream` | `anthropic/stream.rs`: upstream events become events of a message; EXTENDS both |
| | `SseStreamProofs` | its theorems |
| usage | `CacheTracker` | `anthropic/cache_tracker.rs`: profiles, breakpoints, look-up, update |
| | `UsageReport` | scaling, and `anthropic/cache_rewriter.rs`; EXTENDS it |
| | `PromptCache` | requests that share tracker and configuration, up to the usage they report; EXTENDS that |
| | `PromptCacheProofs` | its theorems |
| admin | `AdminService` | admin calls that overlap: credentials, balances, proxies, `config.json` |
| | `AdminServiceProofs` | its theorems |
| converter | `Converter` | `anthropic/converter.rs`: `convert_request` step by step |
| | `ConverterProofs` | its theorems |
| helpers | `Selections` | the elements of a sequence inside or outside a set, or where they come first |
| | `SequenceLemmas` | induction, recursion, folds, `FlattenSeq` and selections: the facts the proofs share |

`MCCredentialPool`, `MCTokenRefresh`, `MCRequestLifecycle`, `MCSseStream`,
`MCPromptCache`, `MCAdminService` and `MCConverter` give the constants their
values for TLC.

How the parts of the program meet in the modules. `CredentialPool` is the pool
seen by many requests, each of which fails in the ways a call can;
`ProviderRetry` is one call seen from inside, with the pool reduced to what the
call can tell of it (failure counts, who is off) and to what others do to that.
`RequestLifecycle` composes the call with the handler, the decoder and the log;
an event in it is the number of the frame it came in. What the events mean is
`SseStream`, and what they cost is `PromptCache`. `TokenRefresh` and
`AdminService` take apart the operations that are one outcome or one section in
`CredentialPool`.

### State and actions of `CredentialPool`

The fields of `CredentialEntry` are functions on credential ids: `status` (the
pair `disabled`, `disabled_reason`, and "Absent" when there is no such entry),
`failures`, `refreshFailures`, `active`, `waiting`, `limit`
(`max_concurrency`), `priority`. `mode`, `currentId` and `affinity` are the
other locked fields of `MultiTokenManager`. A request has a program counter,
the credential it works with (`cred`), that of its guard (`guard`), its
`wait_target` (`waitOn`), the sleeps of the present wait (`polls`) and the
attempts left (`budget`).

One action is one critical section. `pc[r]` names the next section of request
`r`, and the names follow the code:

- `Arrive`, `Attempt`: `acquire_context_for_session`, the attempts and the bail;
- `LookupAffinity`, `TryBound`, `StickyGate`, `StickyEnqueue`, `StickyPoll`,
  `Forget`: the affinity path of `reserve_context`, `reserve_one` and
  `wait_for_sticky`. The gate reads `waiting` in one section and joins in
  another, as the code does;
- `ReadMode`, `Reserve`, `Wait`, `LeaveWait`, `Settle`, `Point`, `Autoheal`:
  `reserve_best` and `reserve_best_with_wait`. Choice and increment are one
  section;
- `TokenOk`, `RefreshFails`, `RefreshRejects`, `Remember`, `Bind`,
  `ReportRefreshFailure`, `ReportRefreshTokenInvalid`, `Purge`: the outcomes of
  `try_ensure_token` and what follows each;
- `CallSucceeds`, `CallRejected`, `CallTokenReplaced`, `CallOutOfQuota`,
  `CallFails`, `Release`: one iteration of `call_api_with_retry` and the end of
  the guard;
- `CancelHolder`, `CancelWaiter`: the future is dropped at an await. The guard
  gives its slot back; `waiting` is not corrected, for no code does it;
- `AffinityExpires`: the TTL of an affinity entry;
- the admin operations, each a first section (`StartDisable`, `AdminEnable`,
  `AdminReset`, `AdminSetPriority`, `AdminSetLimit`, `AdminRefresh`,
  `AddCredential`, `DeleteCredential`, `AdminSetMode`) followed by the sections
  in `todo`.

Two variables are history and guard no action: `recycled`, the ids given to a new
credential while a request still referred to the old one, and `stale`, the
requests whose guard is of a credential deleted since.

### Abstractions of `CredentialPool`

- Statistics are left out. The tie-break on `success_count` and the order of
  the vector become a free choice among equals, which only adds behaviours.
- Where two sections touch nothing that any other action relates, they are one
  action: dropping the guard and unbinding the session after a failed refresh;
  the two `adjust_waiting` calls of a change of `wait_target`.
- Admin calls run one at a time, each in its own sections, so computing the new
  id and pushing the entry in `add_credential` are one action. `AdminService`
  has them apart.
- A token is refreshed or not, as an outcome. That a refresh writes back the
  whole credential it read earlier is the subject of `TokenRefresh`.
- The 2-second budget is `MaxPolls` sleeps at most; the deadline may also pass
  at any earlier poll.

### State and actions of `TokenRefresh`

A task is one call of `try_ensure_token` ("ensure"), `get_usage_limits_for`
("usage"), `force_refresh_token_for` ("force"), an operation that sets one field
of an entry ("edit") or `delete_credential` ("delete"). `stored` holds the
credentials of `entries`, each as its refresh token, the expiry of its access
token and a count of the edits of its other fields; `snap` is a task's clone of
one; `lock` is `refresh_lock`; `image` is what `persist_credentials` collected;
`file` is the credentials file; `valid` is the refresh token the upstream
accepts. Time is counted in periods of five minutes, so that "expired" and
"expiring soon" are one and two periods ahead.

- `ReadSnapshot`, `LockDue`, `LockNotDue`, `LockForced`: the first check, the
  lock and the second check. A forced refresh has neither check and keeps the
  snapshot it took before the lock;
- `Granted`, `GrantLost`, `NotGranted`: an attempt of
  `refresh_token_with_proxy_fallback`. The answer may replace the refresh token
  or not, and may lack a new expiry; ensure gives up on one that is already
  expired. Every proxy is tried with the same snapshot;
- `Store`: the whole entry is overwritten if it still exists;
- `LimitsRead`, `LimitsFail`, `LimitsAnswered`: the rest of the usage query,
  which may set the subscription title;
- `Edit`, `Delete`: the other writers of the entries;
- `Collect`, `Truncate`, `Fill`, `WriteFails`: `persist_credentials`, with
  `std::fs::write` in its two steps. Writers are not ordered: an older image
  may land last, and two writers at once may leave a file that does not parse;
- `Cancel`, `Tick`, `Restart`: a dropped future, time, and a crash followed by a
  start from the file.

`lost`, `earlier`, `late` and `fileIs` are history: which refresh tokens never
reached the entries, which images are older than which, and whether the file
was overtaken. They state where the code itself gives up.

Left out: API keys (they are never refreshed), profile ARNs as a value of their
own, file formats, and `disabled`, which the file also holds. That an entry must
be disabled before it is deleted is `CredentialPool`'s, and `add_credential`,
which refreshes without the lock a credential nobody else knows yet, is
`AdminService`'s.

### State and actions of `RequestLifecycle`

`step` is where the retry loop stands, `phase` where the handler stands; `slot`
is the credential whose guard the call or, after it, the response holds.

- `ProviderRetry`: `Acquire`, `AcquireBusy`, `AcquireFails` are what the pool
  answers; `NoEndpoint`, `Prepare`, `ResolveProfile`, `ModelPlain`,
  `ModelFromCache`, `ModelFetched`, `ModelFetchFails` make the request of one
  attempt; `NoClient`, `SendFails`, `Answered` send it over the proxies in turn;
  `Succeed`, `OutOfQuota`, `Refused`, `TokenInvalid`, `Denied`, `Transient`
  judge the answer as the chain of status checks does, `Refreshed` and
  `NotRefreshed` end the one forced refresh a credential gets in a call,
  `WakeUp` the back-off. `apply_payload_model_id` writes only over a `modelId`
  the request has, so that without one the default leaves it as it came.
  `OthersSwitchOff`, `OthersSwitchOn`, `ListModels` and `ModelsExpire` are the rest of the process.
- `EventDecoder` is used through `Absorb`, one feed and one pass of
  `decode_iter`. A body is a sequence of cells, each of which shows what the
  parser would make of a buffer that begins there, so that cutting, damage and
  recovery are exact while no CRC is computed.
- The handlers: `Accept`, `Reject`, `NoQuery` begin a request; `Fail` and
  `Connect` take the outcome of the call. A search takes two steps more:
  `McpAnswered` has the head of the answer, and the slot is free again, for
  `call_mcp` hands out a response without its guard; its body is then awaited
  (phase "searching"), and `AnswerSearch` sends what it brought or, if it could
  not be read, a message without results; so does `SearchFails` when the call
  failed. `ReadChunk`, `Ping`,
  `UpstreamDone`, `UpstreamError`, `Drain` are the branches of the `select!`
  loops of the two streaming routes; `ReadWhole` and `ReadFails` the route
  without a stream. `Disconnect` drops the future or the stream at an await.
- `CallLog` is used through `Recorded` and `Updated`; an entry shows which of
  its fields have a value (`Filled`), and `EndOf` names those a handler writes at
  the end of a body. `OtherEntry` and `AdminLog` are other requests and the admin API at the same log.

Left out: building the request and the JSON of an answer, status texts, the
choice of a proxy list (it has `Proxies` candidates), and the second pool call
by which models are listed.

### State and actions of `SseStream`

`ctx` is the `StreamContext`, with all it has sent in `sent`. One action handles
one upstream event completely: `AssistantResponse` (text, through
`ContentWithThinking` when thinking is enabled), `ToolUse`, `LimitReached`, and
`Finish` for `generate_final_events`; `Start` is `generate_initial_events`,
`WebSearchAnswer` the fixed sequence of a web search. A text is a sequence of
characters from a small alphabet in which a tag has two characters, so that it
can be cut in between; the reserve the code keeps back for a growing tag is the
code's expression of the tag's length. `received`, `toolInput` and `count` are
history. Left out: the text of tool inputs, JSON, and usage.

### State and actions of `PromptCache`

`entries` is the tracker: a set of credential, prefix and expiry, for hashes are
taken as injective. `req` is what a handler knows of its request.

- `Arrive` estimates and looks up credential 0, which the code does before it
  knows the credential and which can only prune; `Connect` is `compute` and
  `Record` is `update`, in the two sections they are; `ConnectUncounted` is the
  case without accounting; `Abandon` a lost call or client.
- `Respond`, `Receive`, `Close` read the answer on one of three paths, each of
  which treats `tokenUsage` and `contextUsage` in its own way.
- `DecideBypass`, `RewriteFields`, `RewriteInput` are the readings of the
  configuration a report makes, in the order of each path; the buffered path
  reports twice. `SetOptimizer` may come between any two. `Tick` is time.

A random draw is a choice among its outcomes. Numbers saturate and wrap as
`i32` does, at a small `MaxInt`; the parts of a `tokenUsage` are counts, for
`get_i32` clamps them (`kiro/model/events/metadata.rs:106`).

### State and actions of `AdminService`

`credentials` are the entries in their order, each as id, account, proxies and
disabled; `proxies`, `live` (the settings in force), `balances` are what the
process holds; `file` and `saved` what it stores. `task` is the call each
handler is in, one section after the other:

- `CheckDuplicate`, `NotGranted`, `NumberIt`, `Push`: `add_credential`;
- `Delete`, `DeleteUnsaved`, `ClearBalance`, `SaveBalances`, `SetDisabled`;
- `AskBalance`, `SendRequest`, `RequestFails`, `SetPreference`, `CacheBalance`:
  balances and the overage preference, with every reading of the credential;
- `SetConfig`, `SetMode`, `CreateProxy`, `UpdateProxy`, `CheckUnused`,
  `RemoveProxy`, `CheckProxies`, `AssignProxies`: settings and proxies;
- `CopyProxies`, `Load`, `LoadFails`, `SaveFails`, `Truncate`, `WriteFails`,
  `Fill`, `Apply`: the update of `config.json` each of them makes, with
  `std::fs::write` in its two steps.

The code holds no lock over these sections, so two calls that overlap can leave
behind what neither would alone. `races` is history: it records, per kind, the
ids, accounts, balances, proxies and fields about which an overlap, an unchecked
list or a failed write has left a doubt. The properties say that there is no
other reason. No action reads it. A field stops being in doubt when an update
of it that nobody overlapped has gone through. Hits of the balance cache change
nothing and are left out; `config.json` is taken to exist at the start.

### State and actions of `Converter`

A client adds messages (`Say`) and sends the request. `Reject` and `Accept` are
the checks and `convert_tools`; `Open` is the system prompt as a pair of
messages; `TakeUser`, `TakeAssistant`, `SkipOther`, `CloseHistory` are the loop
of `build_history` with its two buffers; `Pair` is `validate_tool_pairing`,
`Prune` `remove_orphaned_tool_uses`, `Define` the placeholder tools. A text is a
piece named after the message it came from, so that its order and fate can be
told. A tool name has a number of bytes (`Size`), and so have its first 54
characters (`Lead`): `map_tool_name` compares bytes with the limit
(`converter.rs:694`), `shorten_tool_name` keeps characters and adds nine bytes
(`:684`), so a shortened name is `Lead + 9` bytes long and may be `Long` again.
The hash is taken to tell the names apart that clients use. Model names,
conversation ids, schemas and wording are left out.

## 3. Runs

| run | expectation | what it asks |
|---|---|---|
| `pool_lifecycle` | pass | `TypeOK`, `SlotsMatchGuards`, `WaitersAreCounted`, `OnlyAdminReenables` while a credential fails, heals, is disabled, deleted and replaced under the same id |
| `pool_liveness` | pass | `RequestsEnd`, `HardLimit`, `RefinesSlots`, the refinement of `ConcurrencySlots`, fairness included, and `EnabledBelowThreshold`, which is checked here because refreshes fail in this run and not in the other |
| `refresh` | pass | `TypeOK`, `RefreshIsDue`, `TokensCurrent`, `FileMatchesMemory`, `DeletedStaysDeleted`, `TasksEnd` for a request, a usage query and a forced refresh, edit or deletion of one credential |
| `request` | pass | `TypeOK`, `SlotCoversUse`, `BodyFitsCredential`, `LogTells`, `NoFrameSkipped`, `StreamShape`, `NoFalseBlame`, `RequestCloses` for one request over each route, from acceptance to the end of its body |
| `stream` | pass | `TypeOK`, `WellFormed`, `NothingLost`, `ThinkingIsNotAll`, `CutsDoNotMatter`, `TextBeforeTool` for up to four upstream events |
| `prompt_cache` | pass | `TypeOK`, `UsageAddsUp`, `SplitAddsUp`, `CacheRemembers` for three requests over two credentials and a changing configuration |
| `admin` | pass | `TypeOK`, `Distinct`, `BalancesFollow`, `ReferencesHold`, `FileAgrees` for admin calls that overlap |
| `convert` | pass | `PairingHolds`, `HistoryFaithful`, `ToolsDefined` for requests of up to five messages, with a tool name that is too long and one that stays so |
| `pool_waiting_leak` | violation | `WaitingIsExact` |
| `refresh_settings` | violation | `SettingsKept` |
| `decode_all` | violation | `AvailableFramesDecoded` |
| `usage_probe` | violation | `ProbeByEstimate` |

Deadlock is not checked: each model stops once its requests, calls or bounds are
spent, as it should.

### Bounds

Pool. Three requests are enough for one that holds, one that waits and one
that arrives; two credentials for a choice, a wait target and a switch; one id
(`pool_lifecycle`) forces the id of a deleted credential to be reused at once.
`MaxFailures` is 1 or 2 instead of 3, `StickyMaxWaiting` 1 instead of 2 and
`MaxPolls` 1 instead of 25: each still has a value below, at and (for the
counters) past the threshold. `EnabledBelowThreshold` is checked with 1, so that
whatever is left of a counter by any path that switches on shows. `MaxAdminOps` bounds the admin operations, `MaxId`
the ids. `Events` and `AdminOps` choose what a run combines. Requests are
symmetric in `pool_lifecycle`, which has no liveness property.

Refresh. One credential makes every two tasks meet; two proxies give a
fallback and its last attempt; lifetimes of one and four periods give an answer
that is already expired and one that is fresh; one tick (`MaxClock`) makes a
fresh token due; one restart (`MaxCrashes`) may fall into any step. Entries
never relate to each other except through `refresh_lock` and the file, which the
tasks share with one credential as well as with two.

Request. Three credentials, one of them enterprise and one with an endpoint
nobody has, make the body of an attempt differ from that of the next; two
proxies give a fallback. `MAX_RETRIES_PER_CREDENTIAL` and
`MAX_FAILURES_PER_CREDENTIAL` are 1 instead of 3: three attempts, and a failure
that switches off. A frame is four cells and the decoder gives up after three
errors, so that garbage can be recovered from or not; chunks of three and five
cells cut it everywhere; eight cells of buffer (`MaxBuffer`) hold two frames, so
that a chunk behind damage overflows it. Bodies are two frames, the second
intact and the first damaged in each way the parser tells apart. The log holds
two entries and takes in one other (`MaxOthers`); one ping (`MaxPings`).

Stream. Four events (`MaxEvents`) are a tag cut in two, its end and a tool, and
two tools (`Tool`) that alternate; the pieces (`Chunks`) hold each tag whole, cut and
between quotes, with and without the newlines it needs.

Prompt cache. Bodies that share a prefix, differ in the billing header only, and
are below the minimum; times to live of 2 and 3 against a clock of 3
(`MaxTime`), so that a prefix is read, at its last instant, and gone; usage
events (`MaxEvents`) in both forms and a configuration off, capped and scaled, or
drawing at random, changed twice (`MaxChanges`); a percentage of 0 is among the
events. `MaxInt` is 127, so that scaling and sums reach it. To keep the product of
requests small, an answer is read while no other request is under way (`Quiet`,
`Alone`): a report shares only the configuration with others, and that may change
all the same.

Admin. Two handlers, three calls (`MaxCalls`), two ids (`MaxId`), two accounts,
hosts and values of a setting, one mode that is refused. Two calls overlap and a
third finds what they left; an id is deleted and given out again while its
balance is asked for.

Converter. Five messages (`MaxMessages`) are a run of each role, what answers it
and the current message; contents with two tool ids (`Ids`), names in two cases, one
that is too long and one, of wide characters, that is so after shortening, blank
texts, thinking, an image and repeated results.

### Fairness

The executor polls every runnable task and sleeps end, so weak fairness of a
task's own steps is what the code gives. In the pool (`FairSpec`) it covers each
request's steps; every upstream await is bounded by a client time-out (60
seconds for a refresh). In `TokenRefresh` it covers a call from its first
section on (`Continue`), and no call has to begin. In `RequestLifecycle` it is
weak fairness of `Proceed`: the retry loop and the handler run on, the HTTP
client ends an answer or a body with an error after its 720 seconds
(`UpstreamError`, `ReadFails`), and the client reads on or goes away. That the
upstream ever sends a chunk or ends its body is not assumed. Nothing is
assumed of clients, administrators, or a TTL.

### What the violations show

1. `pool_waiting_leak`. `waiting` is documented as the number of requests now
   waiting (`kiro/token_manager.rs:639`), and to be given back on leaving
   (`doc/凭据并发控制方案.md:166`). A disconnect during the sleep leaves it one
   too high. What does hold is `WaitersAreCounted`: it is never too low.
2. `refresh_settings`. A refresh clones the credential, awaits the upstream and
   assigns the clone back (`kiro/token_manager.rs:1665`). A priority set in
   between is undone, first in memory and then in the file, although its
   documentation says it takes effect in any case (`:2385`).
3. `decode_all`. After an error the decoder recovers and its iterator ends
   (`kiro/parser/decoder.rs:306`); only the next `feed` lets it go on. A damaged
   frame in the last chunk, or in a body that is read at once, hides the intact
   frames behind it, although the iterator is documented to decode all available
   frames (`:79`). What does hold is `NoFrameSkipped`: such a frame is still in
   the buffer.
4. `usage_probe`. The exemption of small requests is documented to go by the
   input estimated on arrival (`model/config.rs:103`). The streaming paths
   compare the upstream's count once it has come (`anthropic/stream.rs:1261`,
   `:1552`).

Seven observations shaped properties and have no run of their own. The id of
a deleted credential is given out again (`kiro/token_manager.rs:2969`), and a
guard that outlives its credential then decrements the new one:
`SlotsMatchGuards` and `HardLimit` are stated for ids outside `recycled`. Of two
requests that find the pool empty one heals it, and the other may report "all
credentials are disabled" (`:1522`) when they no longer are. A quote character
in front of a closing tag protects the tag only until it has been sent, so that
a streamed text and a complete one may differ where a tag is quoted on one side:
`CutsDoNotMatter` is stated for tags quoted on both or none. It leaves out the
answer to a web search, which no path of the code looks through for tags. The
slot of an MCP call ends with the attempt, before the body of its answer has been
read (`kiro/provider.rs:426`), so `SlotCoversUse` promises a slot to the end of
the body for messages only, and none while a search reads. An upstream that
reports 0 percent of its context makes an input of 0; scaling returns early then
(`anthropic/handlers.rs:306`), and the client is told an input of 0 beside cache fields
as they came in: `UsageAddsUp` says so of an input of 0, the sum of any other, and
nothing of a report with a number that was rewritten. A number drawn at random is
documented to lie in the configured range (`doc/模拟缓存方案.md:152`), but the draw
is of `u64` and goes through `as i32` (`anthropic/cache_rewriter.rs:253`): out of a
range above `i32::MAX` the client is told a negative number. `TypeOK` says that
this is the only way to one. And a shortened tool name is documented to
be within Kiro's 63 (`anthropic/converter.rs:674`, `:683`) while bytes are compared
and characters kept, so that a name of multi-byte characters stays too long:
`ToolsDefined` says that no other name does.

Some overlaps are in a model and no property catches them, since the code does
nothing against them: what `races` and `lost` record (section 2) is excepted by
the properties that read it. The hazards this concerns name no property and have
a note instead.


## 4. Proofs

`CredentialPoolProofs` proves, for every number of requests, sessions and
credentials, every limit, threshold and bound:

| theorem | statement |
|---|---|
| `TypeAndOwnership` | `Spec => [](TypeOK /\ OwnershipInv)` |
| `SlotsSafe` | `Spec => []SlotsMatchGuards` |
| `HardLimitHolds` | `Spec => HardLimit` |
| `SlotsImplemented` | while no id is recycled, the pool implements the initial predicate and every step of `ConcurrencySlots` |
| `EnabledAreFit` | `Spec => []EnabledBelowThreshold` |
| `OnlyAdminReenablesHolds` | `Spec => OnlyAdminReenables` |
| `WaitersSafe` | `Spec => []WaitersAreCounted` |

`TokenRefreshProofs` proves, for every number of tasks, credentials, proxies,
ticks and restarts:

| theorem | statement |
|---|---|
| `RefreshTypes` | `Spec => [](TypeOK /\ LockOwned)` |
| `RefreshIsDueHolds` | `Spec => []RefreshIsDue` |
| `TokensCurrentHolds` | `Spec => []TokensCurrent` |
| `FileMatchesMemoryHolds` | `Spec => []FileMatchesMemory` |
| `DeletedStaysDeletedHolds` | `Spec => DeletedStaysDeleted` |

`AdminServiceProofs` proves, for every number of handlers, credentials, accounts,
proxies, settings and calls:

| theorem | statement |
|---|---|
| `AdminTypes` | `Spec => []TypeOK` |
| `DistinctHolds` | `Spec => []Distinct` |
| `ReferencesHoldAlways` | `Spec => []ReferencesHold` |
| `BalancesFollowAlways` | `Spec => []BalancesFollow` |
| `FileAgreesAlways` | `Spec => []FileAgrees` |

`RequestLifecycleProofs` proves, for every number of credentials, proxies,
attempts and entries of others, every body and every client:

| theorem | statement |
|---|---|
| `SlotCovers` | `Spec => []SlotCoversUse` |
| `BodyFits` | `Spec => []BodyFitsCredential` |
| `NoFalseBlameHolds` | `Spec => NoFalseBlame` |
| `LogTellsAlways` | `Spec => []LogTells` |
| `NoFrameIsSkipped` | `Spec => []NoFrameSkipped` |
| `StreamIsWhole` | `Spec => []StreamShape` |
| `Types` | `Spec => []TypeOK` |

The last three use `AbsorbSound`, which is about a decoder on its own: for every
frame size and limit, every body and every cut.

`SseStreamProofs` proves, for every alphabet, all tags, tools and texts and any
number of upstream events:

| theorem | statement |
|---|---|
| `Types` | `Spec => []TypeOK` |
| `MessagesAreWellFormed` | `Spec => []WellFormed` |
| `NothingIsLost` | `Spec => []NothingLost` |
| `ThinkingAnswers` | `Spec => ThinkingIsNotAll` |
| `TextGoesFirst` | `Spec => TextBeforeTool` |
| `CutsAreHarmless` | `Spec => []CutsDoNotMatter` |

`PromptCacheProofs` proves, for every number of requests and credentials, all
bodies, usage events, configurations, times to live and widths of an integer:

| theorem | statement |
|---|---|
| `Types` | `Spec => []TypeOK` |
| `SplitsAddUp` | `Spec => []SplitAddsUp` |
| `UsageSumsUp` | `PartsFit` implies `Spec => []UsageAddsUp` |
| `LookUpsRemember` | `Spec => CacheRemembers` |

`ConverterProofs` proves, for every conversation, system prompt, set of tools, and
all tool ids and names:

| theorem | statement |
|---|---|
| `HistoryIsFaithful` | `Spec => []HistoryFaithful` |
| `PairingIsKept` | `Spec => []PairingHolds` |
| `ToolsAreDefined` | `Spec => []ToolsDefined` |

The assumptions are the types of the constants: `RefreshAssumption`,
`ProviderAssumption`, `DecoderAssumption`, `LogAssumption`, `RequestAssumption` (bodies are
sequences of frames, chunks have a size), `StreamAssumption` (texts are
sequences), `TrackerAssumption` and `PromptCacheAssumption` (a block has a count
of tokens, usage events and configurations have the fields they are parsed
into); `ConverterAssumption` (messages have ids from `Ids` and names that are strings,
a shortened name has the bytes the code gives it, and no two long names that
clients use are shortened to one);
`PoolAssumption`, by which the set of requests is also finite and `MaxFailures`
positive; `TagAssumption`, by which a tag is not empty, begins and ends with a
character the code counts as a quote (it does: `<` and `>` are among them), and
no blank is one; and `AdminAssumption`, by which the credentials a run starts
with have distinct ids (the program refuses others) and accounts. TLC evaluates
them in every run.

One theorem has a hypothesis on top, which the code does not enforce.
`UsageSumsUp` needs `PartsFit`: the sum of the three counts of a `tokenUsage` is an
`i32`. `get_i32` clamps each to `0 .. i32::MAX` (`kiro/model/events/metadata.rs:106`),
but a total that saturates is no sum of its parts. `Types` has no hypothesis:
`TypeOK` itself tells the two cases apart. With `InputsFit` (no estimate and no
percentage of the context is negative), a client is told numbers from 0 up if
`ConfigsFit`, and in any case where nothing was rewritten; a configured bound above
`i32::MAX`, which the rewriter's `as i32` makes negative, is the case left. The
instance TLC checks satisfies all three (`MCFits`).

The pool's argument. `SlotsMatchGuards` alone is not inductive: a request could hold a
guard in a section that takes another. `OwnershipInv` ties what a request owns
to its section (a guard exactly from the reservation to the release, a wait
target only inside a wait), and is proved together with the types. Each step is
then classified by what it does to slots: it takes one, drops one, deletes or adds
a credential, or leaves `active` and `guard` alone. The invariant is
preserved by each class, with the cardinality lemmas for sets that gain or lose
one element. `HardLimit` and the refinement follow from the same
classification. `EnabledBelowThreshold` needs the strengthening
`HealableBelowThreshold`: a credential that may heal has few failed refreshes,
since healing does not reset that counter.

The argument for refreshes. `LockOwned` says that whoever sends or stores holds
`refresh_lock`. So while a task sends, only edits and deletions touch its
entry, and these keep the tokens: hence `RefreshIsDue`. For `TokensCurrent` the
invariant needs `StoreIsNewest`, that an answer waiting to be stored has the
token the upstream accepts: no second refresh can be granted before the store.
For `FileMatchesMemory` it needs `ImagesCurrent`: once every change was
collected, each image still to be written is late, is followed by a newer one,
or is the memory; the last writer is then late or right.

The arguments for admin calls. `TypeInv` adds to the types the calls a handler
may be in, so that each section knows its own fields, and that a file is loaded
before it is written.

- `Distinct` is not inductive: the entry that repeats an id is pushed by a call
  that computed it earlier. `NewIdsFree` and `NewIdsApart` say that an addition
  under way repeats neither an entry nor another addition, unless that was
  counted; `NewAccountsFree` and `NewAccountsApart` the same of accounts.
- `ReferencesHold` needs `RemovalsSeen`: a proxy about to be removed is in no
  list that was not counted.
- `BalancesFollow` needs `AskedFollow`, which says of the answer a call waits
  for what the property says of a cached one, for it will be cached under its id
  whatever happens to the credential in between. When entries are deleted or
  added, the first with an id is a least place (`LeastPlace`).
- `FileAgrees` speaks of states without an update under way. `FileInv` says what
  holds during one: a file that does not parse is being filled, or is counted in
  full (`Lost`); the fields nobody is updating agree, in the file and in what
  the updates have loaded (`Agree`); an update is alone or its field counted
  (`OneOrDoubt`); of one that is alone, what it has done to memory or to the
  file (`Done`), and that the other side is as before (`Undone`).

The arguments for a request. `ControlInv` says where the call and the handler
may be together (`CallWithHandler`: the call runs exactly while the handler waits
for it), what they then hold, and of the request under preparation that it is the
client's until a model is put in for the credential at hand (`BodyPrepared`).
`RefreshJustified` is what `NoFalseBlame` needs: a step that reports a failed
refresh can only come after the upstream called the token invalid. `LogTells` is
proved with it from a second invariant, `LogInv`: the ids in the log count up to
the one given out last, whoever recorded, cleared or resized (`Consecutive`), so
that nothing but the request's own entry has its id; every entry says what the
handler has got to (`Told`); and until the first event is noted nothing was sent
but a start and pings (`NothingRead`), so that usage is never seen before it. What
the decoder makes of a chunk does not matter to these four; it does to the other
three.

The argument for frames. `AbsorbSound` is proved from an invariant of the decoder,
`Sound`, which speaks of what is left of a body (`Remains`), the buffer and the wire
in one: the cells ascend, they lie ahead of everything decoded, and, as long as no
chunk was refused, each is followed by the rest of its frame and each intact
frame is decoded or still begins among them. A frame that parses is taken off
the front; recovery drops cells of which none begins an intact frame
(`Spares`), since the search stops at the first that might. `decode_iter` is
a recursion over its rounds, and an induction over these carries `Sound` from a feed
to what the handler receives. `BodyInv` is that of the handler: decoder, wire and
output are `Sound` together (`Flowing`), in all three routes, the
output of the buffered one being what it holds back. `ShapeInv` says what
has been sent by how far the stream is: pings, a start and more, or a final part
at the end (`Pings`, `Started`, `Finished`). `CallInv` adds to the types of the call
that its counters stay below their limits.

The argument for messages. `WellFormed` folds an automaton over all that was
sent. `Observed` is that fold, and `Core` relates its state to the context: the
blocks the client saw open are those marked open, those it saw closed were
begun, and no other index is in use; each of the indices the context keeps names a
block of its kind (`Blocked`), and each delta a block there is (`Placed`). Each helper of `stream.rs` is a lemma that says how
it changes the context: it sends something and keeps the rest (`Becomes`,
`Wrote`), with what was said growing by the text it was given (`Says`). `NothingLost`
is then `Balance`: shown text and buffer together are the visible
part of what was received. For it the text in the buffer may be cut anywhere,
since only hidden characters are dropped at a cut (`StartTagCut`, `EndTagCut`,
`LastTagCut`). `ThinkingIsNotAll` is an action property of the end of a message: a
message of thinking alone is given a text and the reason that tokens ran out
(`AnswerFacts`), and any other keeps its reason. That the text still kept back at
the end makes no difference needs `Entered`: there is no thinking before its tag,
and behind it text is not kept back. `TextBeforeTool` is an action
property: of each handler `TextFirst` says that a block it starts for a tool comes after
all that was sent, with nothing kept back. That needs `Drained` (text behind the
thinking is sent at once), that the start is the only one of its index
(`StartsSeen`: the automaton has each block that was started as open or closed), and that
what the handler sends after it starts no block (`Adds`).

The argument for cuts. `CutsDoNotMatter` compares a finished message with
extraction from the complete text, and says nothing before the end. Its invariant,
`Following`, compares at every step: `Followed` says, by section, where in the text
received the context stands. Before the tag (`Looking`) the text up to some p was told,
no bare opening tag has come, and behind p is all of the text or room
for a tag. Inside (`Thinks`) the first such tag is at q, what precedes it was told as
text and what follows up to p as thinking, no end of the thinking has come, and
behind p there is room for one (`Reserve`). Behind the thinking (`Answered`)
thinking and text lie where the first end parts them. That room is
what the code keeps back, and it is why a tag or an end that more text completes
begins behind p (`StartScan`, `EndsLater`), so that the search in the buffer finds
the one a search in the whole text finds (`StartScanned`, `EndScanned`). The buffer no longer
has the character in front of it. `Settled`, that no tag is quoted on one
side only as far as its surroundings have come, makes up for that: a quote
in front would be one behind as well. It holds of every beginning of a text for which
it holds (`SettledBefore`), while `PlainTags` does not: the character behind a tag may not
have come. `PlainTags` of the complete text implies it, and at the
end an opening tag is real if it is bare (`StartIs`), and a closing one with
only white space behind it is real in the text if it is in the buffer (`LastTagSet`,
`LastsBeyond`), so that `FlushAtEnd` ends the thinking only where extraction does. `Tells` says of each
helper what it adds to the text and what to the thinking; `Becomes` adds the
two up.

The arguments for usage. `Typed` says where the handler of a request is and what
it then knows; `Mapped` that a credential has one entry per prefix. Of a report
not yet sent, `AllBalanced` says where its numbers come from: from the upstream
or from the tracker (`Sourced`), whole or not (`Whole`), and unchanged until it is
counted as touched (`Untouched`). A split is scaled and rewritten with its
total, so it adds up whatever the configuration: rounding is given to one part.
`Remembering` is what `CacheRemembers` needs: each entry was put there by a request
that was served (`Explaining`), whoever was served and has paid finds its entries
until they expire (`Paying`), and a request between its look-up and its update
will pay (`Waiting`).

The arguments for a conversion. `Typed` says what each step finds.

- `HistoryFaithful` needs two invariants. `Tracked`: at every turn of the loop the
  history and the two buffers together hold what was read so far (`Aligned`), for
  users their words, images and results (`UserSide`), for assistants their words
  and uses (`AssistantSide`). Taking a message lengthens both sides by it, and
  flushing a buffer moves it from one place to the other, since merging drops
  only what is blank. `Shaped`: at most one buffer is in use, the history ends with
  the other role or is the pair of the system prompt, and so every entry joins on.
- `PairingHolds` follows from `Paired`: what `Pair` has put in the current message are
  open uses, each once, and the orphans are the rest of them; what `Prune` leaves is
  answered. Pruning takes no answer away, for it looks only at uses.
- `ToolsDefined` follows from `Defined`: every entry of the name map leads to a name
  of the client (`ClientNames`), so every name sent leads back, and it is over the limit
  only if it is a client's name cut where the characters kept take more bytes than
  there are of them (`SendableNames`, `CutOf`); and the
  tools are the client's with one for each other name used (`Extra`).

Induction. The library's induction theorems take a predicate as a parameter, which
the provers cannot instantiate. `SequenceLemmas` therefore has induction over
the naturals for a set (`Induction`, from their well-foundedness) and, from it,
that a function defined by recursion exists and obeys its equation (`Recursion`), that a
fold is such a function (`Folding`), and what `FlattenSeq` and the operators of
`Selections` do to a concatenation.
What these lemmas say of a set is used for a predicate by taking the set of all
for which it holds.

Only model-checked: every liveness property (`RequestsEnd`, `TasksEnd`,
`RequestCloses`, and the fairness part of `RefinesSlots`), which with `ENABLED` is
out of the prover's reach. Every invariant and every other action property that a
run checks has a theorem.

## 5. Plan

What the plan set out to prove is proved. If the code changes, the invariants to
look at first are `Following` (the search for tags), `Inv` of the same module (the
blocks), and those of the pool. What is left are the nine hazards of
`PROJECT.json` without a property. Most are in a model already and want a code
that does something against them; a switch of the mode between a refresh and the
note of the session's credential is one to model more closely.

## 6. Not modelled

- The credentials model, endpoints, machine id, HTTP clients, serde models and
  the JSON of requests and answers, token estimate, routers, middleware,
  authentication, logging, the web UI and start-up: stateless formatting and
  I/O. A model of them would restate them.
- The log buffer (`log_buffer.rs`): it feeds a live display and nothing is
  decided on it.
- Statistics of credentials and their file: they break ties between equals, a
  choice the model leaves free.
- Connectivity tests of proxies, and listings and views of the admin API: they
  change nothing.

`PROJECT.json` names each component with what is left out of it.
