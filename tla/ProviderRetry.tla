---------------------------- MODULE ProviderRetry ----------------------------
(***************************************************************************)
(* One upstream call of kiro/provider.rs: KiroProvider::call_api_with_retry *)
(* and call_mcp_with_retry.  A call makes a bounded number of attempts;    *)
(* each takes a credential and its slot from the pool, prepares the        *)
(* request (endpoint, profile ARN, model id), sends it over the proxy      *)
(* candidates in turn and acts on the verdict.                             *)
(*                                                                         *)
(* The pool (CredentialPool) appears here as what the retry loop sees of   *)
(* it: who is switched off and the failure counters.  Other requests and   *)
(* the admin API switch credentials on and off at any time.                *)
(***************************************************************************)
EXTENDS Integers, FiniteSets

CONSTANTS
  Cred,            \* the credentials of the pool
  NoCred,          \* no credential is held
  Enterprise,      \* those whose requests carry a CodeWhisperer model id
  UnknownEndpoint, \* those naming an endpoint nobody registered
  Proxies,         \* how many proxy candidates each request has
  MAX_RETRIES_PER_CREDENTIAL,
  MAX_TOTAL_RETRIES,
  MAX_FAILURES_PER_CREDENTIAL

ASSUME ProviderAssumption ==
  /\ IsFiniteSet(Cred) /\ NoCred \notin Cred
  /\ Enterprise \subseteq Cred /\ UnknownEndpoint \subseteq Cred
  /\ Proxies \in Nat \ {0}
  /\ MAX_RETRIES_PER_CREDENTIAL \in Nat
  /\ MAX_TOTAL_RETRIES \in Nat
  /\ MAX_FAILURES_PER_CREDENTIAL \in Nat \ {0}

VARIABLES
  step,      \* where the call is
  kind,      \* "api" or "mcp"
  attempt,   \* index of the attempt
  slot,      \* the credential whose ConcurrencyGuard this call holds
  hop,       \* index of the proxy candidate
  asked,     \* the model of the request: "name", "id" (CodeWhisperer form) or "none"
  body,      \* the model id sent: "original", "listed" or "default"
  forced,    \* force_refreshed: credentials refreshed by force in this call
  failures,  \* failure_count of each credential
  off,       \* the disabled credentials
  verdict,   \* what the upstream answered to this attempt
  lacking,   \* the enterprise credentials without a profile ARN
  cache      \* model_cache: "fresh", or "stale" when empty or too old

retryVars == <<step, kind, asked, attempt, slot, hop, body, forced, verdict,
               failures, off, lacking, cache>>
poolVars  == <<failures, off>>
sharedVars == <<failures, off, lacking, cache>>   \* outlive the call

\* What a response means to the loop.
Verdict == {"ok", "quota", "client", "bearer", "denied", "transient"}

MaxRetries ==
  LET wanted == Cardinality(Cred) * MAX_RETRIES_PER_CREDENTIAL
  IN  IF wanted < MAX_TOTAL_RETRIES THEN wanted ELSE MAX_TOTAL_RETRIES

HasAvailable(disabled) == Cred \ disabled # {}

RetryInit ==
  /\ step = "idle" /\ kind = "api" /\ asked = "none" /\ attempt = 0 /\ hop = 0
  /\ slot = NoCred /\ body = "original" /\ forced = {} /\ verdict = "none"
  /\ failures = [c \in Cred |-> 0] /\ off = {}
  /\ lacking = Enterprise /\ cache = "stale"

-----------------------------------------------------------------------------
\* Mutants: the guard, or the body of the last attempt, outlives the iteration.
RestKeepsSlot == /\ hop' = 0 /\ body' = "original" /\ verdict' = "none"
                 /\ UNCHANGED <<kind, asked, slot>>
RestKeepsBody == /\ slot' = NoCred /\ hop' = 0 /\ verdict' = "none"
                 /\ UNCHANGED <<kind, asked, body>>

\* Leaving an iteration of the loop drops its locals: the guard, the body.
Rest == /\ slot' = NoCred /\ hop' = 0 /\ body' = "original"
        /\ verdict' = "none"
        /\ UNCHANGED <<kind, asked>>

\* A mutant: attempts are not counted.
NextAttemptForever == attempt' = attempt /\ step' = "acquire" /\ Rest

\* `continue`, or the end of the loop with the last error.
NextAttempt ==
  /\ attempt' = attempt + 1
  /\ step' = IF attempt + 1 < MaxRetries THEN "acquire" ELSE "failed"
  /\ Rest

\* `bail!`, `return Err(e)` or `?`.
GiveUp == step' = "failed" /\ attempt' = attempt /\ Rest

\* The sleep before the next attempt; the iteration, and its guard, live on.
BackOffOrEnd ==
  IF attempt + 1 < MaxRetries
    THEN step' = "backoff" /\ UNCHANGED <<attempt, slot, hop, body, kind, asked, verdict>>
    ELSE NextAttempt

\* report_failure: a disabled credential is not counted again.
FailureCounted(c) ==
  IF c \in off THEN UNCHANGED poolVars
  ELSE /\ failures' = [failures EXCEPT ![c] = @ + 1]
       /\ off' = IF failures[c] + 1 >= MAX_FAILURES_PER_CREDENTIAL
                   THEN off \cup {c} ELSE off

\* report_quota_exhausted
QuotaCounted(c) ==
  IF c \in off THEN UNCHANGED poolVars
  ELSE /\ failures' = [failures EXCEPT ![c] = MAX_FAILURES_PER_CREDENTIAL]
       /\ off' = off \cup {c}

\* After a report: go on with another credential if there is one.
FailOver == IF HasAvailable(off') THEN NextAttempt ELSE GiveUp

-----------------------------------------------------------------------------
\* call_api, call_api_stream, call_mcp
Call(k, m) ==
  /\ step = "idle" /\ kind' = k /\ asked' = m
  /\ step' = IF MaxRetries > 0 THEN "acquire" ELSE "failed"
  /\ UNCHANGED <<attempt, slot, hop, body, forced, verdict, sharedVars>>

\* acquire_context_for_session answers with a credential and its slot.
Acquire(c) ==
  /\ step = "acquire" /\ c \notin off
  /\ slot' = c /\ step' = "prepare"
  /\ UNCHANGED <<kind, asked, attempt, hop, body, forced, verdict, sharedVars>>

\* CONCURRENCY_BUSY ends an API call at once; the MCP loop tries again.
AcquireBusy ==
  /\ step = "acquire" /\ HasAvailable(off)
  /\ IF kind = "api" THEN GiveUp ELSE NextAttempt
  /\ UNCHANGED <<forced, sharedVars>>

\* Any other error of the pool: the next attempt, without a pause.
AcquireFails ==
  /\ step = "acquire" /\ NextAttempt
  /\ UNCHANGED <<forced, sharedVars>>

\* endpoint_for fails: the credential is blamed, whoever else is available.
NoEndpoint ==
  /\ step = "prepare" /\ slot \in UnknownEndpoint
  /\ FailureCounted(slot) /\ NextAttempt
  /\ UNCHANGED <<forced, lacking, cache>>

\* The endpoint is found; an API request goes on to its profile and model.
Prepare ==
  /\ step = "prepare" /\ slot \notin UnknownEndpoint
  /\ step' = IF kind = "api" THEN "profile" ELSE "send"
  /\ UNCHANGED <<kind, asked, attempt, slot, hop, body, forced, verdict, sharedVars>>

\* resolve_and_persist_profile_arn: one fetch for an enterprise credential
\* that lacks its ARN; whatever the outcome, the request goes on.
ResolveProfile ==
  /\ step = "profile"
  /\ lacking' \in {lacking, lacking \ {slot}}
  /\ step' = IF slot \in Enterprise THEN "model" ELSE "send"
  /\ UNCHANGED <<kind, asked, attempt, slot, hop, body, forced, verdict, cache, poolVars>>

\* resolve_codewhisperer_model_id: an id of the right form is kept; without a
\* name the default is taken, but apply_payload_model_id writes it only over a
\* modelId the request has (a blank one): it adds none.
ModelPlain ==
  /\ step = "model" /\ asked # "name"
  /\ body' \in {"original"} \cup {b \in {"default"} : asked = "none"}
  /\ step' = "send"
  /\ UNCHANGED <<kind, asked, attempt, slot, hop, forced, verdict, sharedVars>>

\* ... a name is looked up in a list younger than its TTL, and the default
\* taken when no model matches;
ModelFromCache ==
  /\ step = "model" /\ asked = "name" /\ cache = "fresh"
  /\ body' \in {"listed", "default"} /\ step' = "send"
  /\ UNCHANGED <<kind, asked, attempt, slot, hop, forced, verdict, sharedVars>>

\* ... without one, the list is fetched with this credential and cached;
ModelFetched ==
  /\ step = "model" /\ asked = "name" /\ cache # "fresh"
  /\ cache' = "fresh"
  /\ body' \in {"listed", "default"} /\ step' = "send"
  /\ UNCHANGED <<kind, asked, attempt, slot, hop, forced, verdict, lacking, poolVars>>

\* ... and when the fetch fails the default is taken and nothing is cached.
ModelFetchFails ==
  /\ step = "model" /\ asked = "name" /\ cache # "fresh"
  /\ body' = "default" /\ step' = "send"
  /\ UNCHANGED <<kind, asked, attempt, slot, hop, forced, verdict, sharedVars>>

\* client_for_proxy fails to build a client: `?` leaves the whole call.
NoClient ==
  /\ step = "send" /\ GiveUp
  /\ UNCHANGED <<forced, sharedVars>>

\* A network error: the next proxy candidate, else a pause; nobody is blamed.
SendFails ==
  /\ step = "send"
  /\ IF hop + 1 < Proxies
       THEN hop' = hop + 1 /\ UNCHANGED <<step, attempt, slot, body, kind, asked, verdict>>
       ELSE BackOffOrEnd
  /\ UNCHANGED <<forced, sharedVars>>

\* A response arrives; unless it is 2xx its body is read before it is judged.
Answered(v) ==
  /\ step = "send" /\ verdict' = v /\ step' = "judge"
  /\ UNCHANGED <<kind, asked, attempt, slot, hop, body, forced, sharedVars>>

Judged(v) == step = "judge" /\ verdict = v

\* 2xx: the counters of the credential are reset; an API call hands its
\* guard to the caller, an MCP call drops it on return.
Succeed ==
  /\ Judged("ok")
  /\ failures' = [failures EXCEPT ![slot] = 0]
  /\ step' = "ok"
  /\ slot' = IF kind = "api" THEN slot ELSE NoCred
  /\ UNCHANGED <<kind, asked, attempt, hop, body, forced, verdict, off, lacking, cache>>

\* 402 with the monthly limit reached.
OutOfQuota ==
  /\ Judged("quota") /\ QuotaCounted(slot) /\ FailOver
  /\ UNCHANGED <<forced, lacking, cache>>

\* 400, and the other 4xx that are nobody's credential.
Refused ==
  /\ Judged("client") /\ GiveUp
  /\ UNCHANGED <<forced, sharedVars>>

\* 401 or 403: a token the upstream calls invalid is first refreshed by
\* force, once for each credential; anything else counts as a failure.
TokenInvalid ==
  /\ Judged("bearer") /\ slot \notin forced
  /\ forced' = forced \cup {slot} /\ step' = "refreshing"
  /\ UNCHANGED <<kind, asked, attempt, slot, hop, body, verdict, sharedVars>>

Denied ==
  /\ Judged("denied") \/ (Judged("bearer") /\ slot \in forced)
  /\ FailureCounted(slot) /\ FailOver
  /\ UNCHANGED <<forced, lacking, cache>>

Refreshed ==
  /\ step = "refreshing" /\ NextAttempt
  /\ UNCHANGED <<forced, sharedVars>>

NotRefreshed ==
  /\ step = "refreshing" /\ FailureCounted(slot) /\ FailOver
  /\ UNCHANGED <<forced, lacking, cache>>

\* A mutant: overload counts as a failure.
TransientBlames ==
  /\ Judged("transient") /\ BackOffOrEnd /\ FailureCounted(slot)
  /\ UNCHANGED <<forced, lacking, cache>>

\* 408, 429, 5xx and any other status: a pause, nobody is blamed.
Transient ==
  /\ Judged("transient") /\ BackOffOrEnd
  /\ UNCHANGED <<forced, sharedVars>>

WakeUp ==
  /\ step = "backoff" /\ NextAttempt
  /\ UNCHANGED <<forced, sharedVars>>

RetryStep ==
  \/ \E c \in Cred : Acquire(c)
  \/ AcquireBusy \/ AcquireFails
  \/ NoEndpoint \/ Prepare \/ ResolveProfile
  \/ ModelPlain \/ ModelFromCache \/ ModelFetched \/ ModelFetchFails
  \/ NoClient \/ SendFails
  \/ \E v \in Verdict : Answered(v)
  \/ Succeed
  \/ OutOfQuota \/ Refused \/ TokenInvalid \/ Denied
  \/ Refreshed \/ NotRefreshed \/ Transient \/ WakeUp

-----------------------------------------------------------------------------
\* The rest of the process: other calls and the admin API switch credentials
\* on and off, GET /v1/models fills the cache, and its TTL runs out.
Local == UNCHANGED <<step, kind, asked, attempt, slot, hop, body, forced, verdict>>

OthersSwitchOff(c) ==
  /\ c \notin off /\ off' = off \cup {c}
  /\ failures' = [failures EXCEPT ![c] = MAX_FAILURES_PER_CREDENTIAL]
  /\ Local /\ UNCHANGED <<lacking, cache>>

OthersSwitchOn(c) ==
  /\ c \in off /\ off' = off \ {c}
  /\ failures' = [failures EXCEPT ![c] = 0]
  /\ Local /\ UNCHANGED <<lacking, cache>>

ListModels ==
  /\ cache # "fresh" /\ HasAvailable(off) /\ cache' = "fresh"
  /\ Local /\ UNCHANGED <<lacking, poolVars>>

ModelsExpire ==
  /\ cache = "fresh" /\ cache' = "stale"
  /\ Local /\ UNCHANGED <<lacking, poolVars>>

RetryEnv ==
  \/ \E c \in Cred : OthersSwitchOff(c) \/ OthersSwitchOn(c)
  \/ ListModels \/ ModelsExpire
=============================================================================
