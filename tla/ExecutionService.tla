-------------------------- MODULE ExecutionService --------------------------
(***************************************************************************)
(* ExecutionService.execute with the ProviderRegistry it asks and the      *)
(* InMemoryExecutionObserver it reports to.  Several requests run at once, *)
(* one per handler thread of the dashboard, and share only the observer.   *)
(* A request walks its list of candidate models: it asks each provider's   *)
(* health at most once, skips what is down, retries transient errors on    *)
(* the same model, then falls back to the next one.                        *)
(***************************************************************************)
EXTENDS Lists, SequencesExt

CONSTANTS Requests,        \* requests that may be in flight
          Models,
          Providers,
          ProviderOf,      \* the provider segment of a model id
          CandidateLists,  \* the candidate lists callers pass, duplicates included
          MaxRetries,      \* RetryPolicy.max_retries
          Failures         \* the ways provider calls of this instance fail

Retryable == {"provider_timeout", "provider_rate_limited", "provider_unavailable",
              "provider_internal"}
Permanent == {"provider_authentication", "provider_request_invalid", "provider_error"}

\* How a call fails: wait_for cuts it off; it raises an exception whose class
\* name contains these words and which carries this status code (0 for none);
\* the adapter itself breaks on what came back; or FaultInjectingProvider was
\* told to fail like this.
CutOff == [how |-> "cut_off"]
Raised(words, status) == [how |-> "raised", words |-> words, status |-> status]
Broken == [how |-> "broken"]
Injected(mode) == [how |-> "injected", mode |-> mode]

FAILURE_MODES == [provider_unavailable |-> "provider_unavailable",
                  timeout |-> "provider_timeout", rate_limit |-> "provider_rate_limited",
                  authentication |-> "provider_authentication"]

\* map_provider_error, first match: a name counts for as much as a status.
MapProviderError(words, status) ==
  LET Named(tokens) == words \cap tokens # {}
  IN IF Named({"timeout"}) THEN "provider_timeout"
     ELSE IF status \in {401, 403} \/ Named({"authentication", "permission"})
          THEN "provider_authentication"
     ELSE IF status = 429 \/ Named({"ratelimit"}) THEN "provider_rate_limited"
     ELSE IF status \in {400, 404, 409, 422} \/ Named({"badrequest", "invalidrequest"})
          THEN "provider_request_invalid"
     ELSE IF status \in {502, 503, 504} \/ Named({"connection", "unavailable", "service"})
          THEN "provider_unavailable"
     ELSE "provider_internal"

\* The code execute() acts on.
ErrorOf(failure) ==
  CASE failure.how = "cut_off"  -> "provider_timeout"
    [] failure.how = "raised"   -> MapProviderError(failure.words, failure.status)
    [] failure.how = "injected" -> FAILURE_MODES[failure.mode]
    [] failure.how = "broken"   -> "provider_internal"

ASSUME ExecutionAssumption ==
  /\ ProviderOf \in [Models -> Providers]
  /\ CandidateLists \subseteq Seq(Models) \ {<<>>}
  /\ MaxRetries \in Nat
  /\ \A failure \in Failures : ErrorOf(failure) \in Retryable \cup Permanent

VARIABLES pc,          \* where each request is
          candidates,  \* unique_candidates
          index,       \* candidate_index, counted from 1
          attempt,     \* attempt_number on the current candidate
          health,      \* health_cache: provider -> "unknown", "up" or "down"
          log,         \* attempts: the records of this request
          result,      \* outcome and final_error_type, once known
          metrics      \* the observer's counters

request == <<pc, candidates, index, attempt, health, log, result>>
vars == <<request, metrics>>

----------------------------------------------------------------------------
(* Records and counters *)

NoError == "none"
Actions == {"skip_unavailable", "return_response", "retry", "fallback", "fail"}
AttemptRecord == [model : Models, attempt : Nat, action : Actions,
                  error : Retryable \cup Permanent \cup {NoError}]

Outcomes == {"success", "failed", "all_providers_failed"}
Result == [outcome : Outcomes, error : Retryable \cup Permanent \cup {NoError}]
NoResult == [outcome |-> "none", error |-> NoError]

Counters == {"requests", "successes", "failures", "failed_attempts", "retries",
             "fallbacks", "unavailable_skips", "provider_attempts"}

Bump(names) == [c \in Counters |-> IF c \in names THEN metrics[c] + 1 ELSE metrics[c]]

\* Mutant of CountersOf: a skip counted as an attempt on the provider.
CountersOfSkipAttempted(action) ==
  CASE action = "skip_unavailable" -> {"unavailable_skips", "provider_attempts"}
    [] action = "return_response"  -> {"provider_attempts"}
    [] action = "retry"    -> {"provider_attempts", "failed_attempts", "retries"}
    [] action = "fallback" -> {"provider_attempts", "failed_attempts", "fallbacks"}
    [] action = "fail"     -> {"provider_attempts", "failed_attempts"}

\* The counters one attempt event moves (InMemoryExecutionObserver.record).
CountersOf(action) ==
  CASE action = "skip_unavailable" -> {"unavailable_skips"}
    [] action = "return_response"  -> {"provider_attempts"}
    [] action = "retry"    -> {"provider_attempts", "failed_attempts", "retries"}
    [] action = "fallback" -> {"provider_attempts", "failed_attempts", "fallbacks"}
    [] action = "fail"     -> {"provider_attempts", "failed_attempts"}

Model(r) == candidates[r][index[r]]

\* Mutant of IsLast: candidate_index < len(unique_candidates), one too far.
IsLastOffByOne(r) == index[r] = Len(candidates[r]) + 1

IsLast(r) == index[r] = Len(candidates[r])

Record(r, number, action, error) ==
  /\ log' = [log EXCEPT ![r] = Append(@, [model |-> Model(r), attempt |-> number,
                                          action |-> action, error |-> error])]
  /\ metrics' = Bump(CountersOf(action))

----------------------------------------------------------------------------
Init ==
  /\ pc         = [r \in Requests |-> "new"]
  /\ candidates = [r \in Requests |-> <<>>]
  /\ index      = [r \in Requests |-> 1]
  /\ attempt    = [r \in Requests |-> 1]
  /\ health     = [r \in Requests |-> [p \in Providers |-> "unknown"]]
  /\ log        = [r \in Requests |-> <<>>]
  /\ result     = [r \in Requests |-> NoResult]
  /\ metrics    = [c \in Counters |-> 0]

Start(r) ==
  /\ pc[r] = "new"
  /\ \E list \in CandidateLists : candidates' = [candidates EXCEPT ![r] = Dedupe(list)]
  /\ pc' = [pc EXCEPT ![r] = "candidate"]
  /\ metrics' = Bump({"requests"})
  /\ UNCHANGED <<index, attempt, health, log, result>>

\* Mutant of CheckHealth: the answer is forgotten.
CheckHealthForgetting(r) ==
  /\ pc[r] = "candidate"
  /\ health[r][ProviderOf[Model(r)]] = "unknown"
  /\ UNCHANGED vars

\* await registry.health(): unregistered and failing checks answer "down", a
\* provider without a health method "up".  Other requests run meanwhile.
CheckHealth(r) ==
  /\ pc[r] = "candidate"
  /\ health[r][ProviderOf[Model(r)]] = "unknown"
  /\ \E answer \in {"up", "down"} :
       health' = [health EXCEPT ![r][ProviderOf[Model(r)]] = answer]
  /\ UNCHANGED <<pc, candidates, index, attempt, log, result, metrics>>

\* On to the next candidate, or out of the loop with the error seen last.
NextCandidate(r, lastError) ==
  /\ attempt' = [attempt EXCEPT ![r] = 1]
  /\ IF IsLast(r)
     THEN /\ pc' = [pc EXCEPT ![r] = "finishing"]
          /\ result' = [result EXCEPT ![r] = [outcome |-> "all_providers_failed",
                                              error |-> lastError]]
          /\ UNCHANGED index
     ELSE /\ pc' = [pc EXCEPT ![r] = "candidate"]
          /\ index' = [index EXCEPT ![r] = @ + 1]
          /\ UNCHANGED result

SkipUnavailable(r) ==
  /\ pc[r] = "candidate"
  /\ health[r][ProviderOf[Model(r)]] = "down"
  /\ Record(r, 0, "skip_unavailable", "provider_unavailable")
  /\ NextCandidate(r, "provider_unavailable")
  /\ UNCHANGED <<candidates, health>>

MayCall(r) == pc[r] = "candidate" /\ health[r][ProviderOf[Model(r)]] = "up"

Succeed(r) ==
  /\ MayCall(r)
  /\ Record(r, attempt[r], "return_response", NoError)
  /\ pc' = [pc EXCEPT ![r] = "finishing"]
  /\ result' = [result EXCEPT ![r] = [outcome |-> "success", error |-> NoError]]
  /\ UNCHANGED <<candidates, index, attempt, health>>

\* Mutant of HasRetry: one retry too many.
HasRetryOnceMore(r, error) == error \in Retryable /\ attempt[r] <= MaxRetries + 1

HasRetry(r, error) == error \in Retryable /\ attempt[r] <= MaxRetries

\* Mutant of HasFallback: on to the next model after a permanent error too.
HasFallbackAlways(r, error) == ~IsLast(r)

HasFallback(r, error) == error \in Retryable /\ ~IsLast(r)

FailureAction(r, error) ==
  IF HasRetry(r, error) THEN "retry"
  ELSE IF HasFallback(r, error) THEN "fallback" ELSE "fail"

\* A provider call that raised, or that wait_for cut off at the timeout.
Fail(r) ==
  /\ MayCall(r)
  /\ \E error \in {ErrorOf(failure) : failure \in Failures} :
       /\ Record(r, attempt[r], FailureAction(r, error), error)
       /\ \/ /\ HasRetry(r, error)
             /\ attempt' = [attempt EXCEPT ![r] = @ + 1]
             /\ UNCHANGED <<pc, index, result>>
          \/ /\ error \notin Retryable
             /\ pc' = [pc EXCEPT ![r] = "finishing"]
             /\ result' = [result EXCEPT ![r] = [outcome |-> "failed", error |-> error]]
             /\ UNCHANGED <<index, attempt>>
          \/ /\ error \in Retryable
             /\ ~HasRetry(r, error)
             /\ NextCandidate(r, error)
  /\ UNCHANGED <<candidates, health>>

\* _finish: a separate call of the observer, after the last attempt's.
Finish(r) ==
  /\ pc[r] = "finishing"
  /\ pc' = [pc EXCEPT ![r] = "done"]
  /\ metrics' = Bump({IF result[r].outcome = "success" THEN "successes" ELSE "failures"})
  /\ UNCHANGED <<candidates, index, attempt, health, log, result>>

AllDone == (\A r \in Requests : pc[r] = "done") /\ UNCHANGED vars

Progress(r) == CheckHealth(r) \/ SkipUnavailable(r) \/ Succeed(r) \/ Fail(r) \/ Finish(r)

Next == AllDone \/ \E r \in Requests : Start(r) \/ Progress(r)

Spec == Init /\ [][Next]_vars

\* Every await returns: the provider call is bounded by wait_for's timeout, and
\* the health checks of the adapters under src/ answer without waiting.  No
\* caller is obliged to start a request.
FairSpec == Spec /\ \A r \in Requests : WF_vars(Progress(r))

----------------------------------------------------------------------------
(* Properties *)

TypeOK ==
  /\ pc \in [Requests -> {"new", "candidate", "finishing", "done"}]
  /\ candidates \in [Requests -> Seq(Models)]
  /\ index \in [Requests -> Nat \ {0}]
  /\ \A r \in Requests : pc[r] # "new" => index[r] \in DOMAIN candidates[r]
  /\ attempt \in [Requests -> 1..(MaxRetries + 1)]
  /\ health \in [Requests -> [Providers -> {"unknown", "up", "down"}]]
  /\ log \in [Requests -> Seq(AttemptRecord)]
  /\ result \in [Requests -> Result \cup {NoResult}]
  /\ metrics \in [Counters -> Nat]

Position(list, model) == SelectInSeq(list, LAMBDA m : m = model)

\* The record a caller sees tells a true story: the candidates appear in
\* order, a retry repeats the same model after a transient error and within
\* max_retries, a fallback comes only once the retries are used up and is
\* followed by the next candidate, nothing follows a success or a "fail", and
\* the models of a provider are either all called or all skipped, even if its
\* health changes while they wait.
FollowedBy(list, this, next) ==
  CASE this.action = "retry" ->
         /\ next.model = this.model
         /\ next.attempt = this.attempt + 1
         /\ next.action # "skip_unavailable"
    [] this.action \in {"fallback", "skip_unavailable"} ->
         /\ Position(list, next.model) = Position(list, this.model) + 1
         /\ next.attempt \in {0, 1}
    [] OTHER -> FALSE
RetriesThenFallsBack == \A r \in Requests :
  /\ log[r] # <<>> => log[r][1].model = candidates[r][1]
  /\ \A i \in 1..(Len(log[r]) - 1) : FollowedBy(candidates[r], log[r][i], log[r][i + 1])
  /\ \A i \in DOMAIN log[r] :
       LET this == log[r][i] IN
       /\ this.action = "retry" => this.error \in Retryable /\ this.attempt <= MaxRetries
       /\ this.action = "fallback" =>
            this.error \in Retryable /\ this.attempt = MaxRetries + 1
  /\ \A i, j \in DOMAIN log[r] : ProviderOf[log[r][i].model] = ProviderOf[log[r][j].model] =>
       (log[r][i].action = "skip_unavailable" <=> log[r][j].action = "skip_unavailable")

\* The outcome is what the attempts say: success if the last one succeeded,
\* "failed" if it met a permanent error, and "all_providers_failed" only
\* after every distinct candidate was called or skipped.  No request ends on
\* an attempt that announced a retry or a fallback.
ResultMatchesLog == \A r \in Requests : pc[r] \in {"finishing", "done"} =>
  LET last == Last(log[r]) IN
  /\ last.action \notin {"retry", "fallback"}
  /\ result[r].error = last.error
  /\ result[r].outcome = "success" <=> last.action = "return_response"
  /\ result[r].outcome = "failed" <=> last.error \in Permanent
  /\ result[r].outcome = "all_providers_failed" =>
       ToSet(candidates[r]) = {log[r][i].model : i \in DOMAIN log[r]}

\* The counters, bumped by all requests in any order, agree with the attempt
\* records the requests return, and every failed attempt is accounted for.
Entries(actions) ==
  UNION {{r} \X {i \in DOMAIN log[r] : log[r][i].action \in actions} : r \in Requests}
Ended(outcomes) == {r \in Requests : pc[r] = "done" /\ result[r].outcome \in outcomes}
MetricsAddUp ==
  /\ metrics["requests"] = Cardinality({r \in Requests : pc[r] # "new"})
  /\ metrics["successes"] = Cardinality(Ended({"success"}))
  /\ metrics["failures"] = Cardinality(Ended({"failed", "all_providers_failed"}))
  /\ metrics["unavailable_skips"] = Cardinality(Entries({"skip_unavailable"}))
  /\ metrics["provider_attempts"] = Cardinality(Entries(Actions \ {"skip_unavailable"}))
  /\ metrics["failed_attempts"] =
       metrics["retries"] + metrics["fallbacks"] + Cardinality(Entries({"fail"}))

\* Whatever the providers do, a request that started is answered.
EveryRequestAnswered == \A r \in Requests : pc[r] = "candidate" ~> pc[r] = "done"
============================================================================
