----------------------- MODULE ExecutionServiceProofs -----------------------
(***************************************************************************)
(* Proofs about ExecutionService, for any number of requests, any          *)
(* candidate lists, any retry limit and any failures: the record of a      *)
(* request tells a true story, its outcome agrees with it, and the shared  *)
(* counters agree with the records of all requests.                        *)
(***************************************************************************)
EXTENDS ExecutionService, CollectionLemmas

----------------------------------------------------------------------------
(* The inductive invariant *)

\* The record of a request, given its candidates, the health answers cached and
\* how far down the list it is: what RetriesThenFallsBack says of it, how it
\* agrees with the answers, and how far down the list it reaches.
Account(list, records, answers, reached) ==
  /\ \A i, j \in DOMAIN list : list[i] = list[j] => i = j
  /\ records # <<>> => records[1].model = list[1]
  /\ \A i \in 1..(Len(records) - 1) : FollowedBy(list, records[i], records[i + 1])
  /\ \A i \in DOMAIN records :
       /\ records[i].action = "retry" =>
            records[i].error \in Retryable /\ records[i].attempt <= MaxRetries
       /\ records[i].action = "fallback" =>
            records[i].error \in Retryable /\ records[i].attempt = MaxRetries + 1
       /\ answers[ProviderOf[records[i].model]] =
            IF records[i].action = "skip_unavailable" THEN "down" ELSE "up"
       /\ \E j \in 1..reached : records[i].model = list[j]
  /\ \A j \in 1..(reached - 1) : \E i \in DOMAIN records : records[i].model = list[j]
History(r) == Account(candidates[r], log[r], health[r], index[r])

\* Where the request stands is where its last record left it.
Standing(r) ==
  LET last == log[r][Len(log[r])] IN
  /\ pc[r] = "new" => log[r] = <<>> /\ index[r] = 1 /\ attempt[r] = 1
  /\ pc[r] = "candidate" /\ log[r] = <<>> => index[r] = 1
  /\ pc[r] = "candidate" /\ log[r] # <<>> =>
       \/ /\ last.action = "retry"
          /\ last.model = Model(r)
          /\ attempt[r] = last.attempt + 1
       \/ /\ last.action \in {"fallback", "skip_unavailable"}
          /\ index[r] > 1
          /\ last.model = candidates[r][index[r] - 1]
          /\ attempt[r] = 1
  /\ pc[r] \in {"finishing", "done"} =>
       /\ log[r] # <<>>
       /\ last.model = Model(r)
       /\ last.action \notin {"retry", "fallback"}
       /\ result[r].error = last.error
       /\ result[r].outcome \in Outcomes
       /\ result[r].outcome = "success" <=> last.action = "return_response"
       /\ result[r].outcome = "failed" <=> last.error \in Permanent
       /\ result[r].outcome = "all_providers_failed" => IsLast(r)

RequestsInv == TypeOK /\ \A r \in Requests : History(r) /\ Standing(r)

\* The counters, with the finiteness that counting needs.
Begun == {r \in Requests : pc[r] # "new"}
Calls == Actions \ {"skip_unavailable"}
MetricsInv ==
  /\ IsFiniteSet(Begun)
  /\ IsFiniteSet(Ended({"success"})) /\ IsFiniteSet(Ended({"failed", "all_providers_failed"}))
  /\ IsFiniteSet(Entries({"skip_unavailable"})) /\ IsFiniteSet(Entries(Calls))
  /\ IsFiniteSet(Entries({"fail"}))
  /\ MetricsAddUp

----------------------------------------------------------------------------
(* Lemmas about the operators *)

\* In a list without repetitions a model's position is its index.
LEMMA PositionFacts ==
  ASSUME NEW list \in Seq(Models),
         \A i, j \in DOMAIN list : list[i] = list[j] => i = j,
         NEW k \in DOMAIN list
  PROVE  Position(list, list[k]) = k
<1> DEFINE I == {i \in 1..Len(list) : list[i] = list[k]}
<1>1. I \in SUBSET Nat /\ I # {} /\ \A i \in I : i = k
  BY LenProperties
<1>2. Position(list, list[k]) = IF I # {} THEN Min(I) ELSE 0
  BY DEF Position, SelectInSeq
<1>3. Min(I) \in I
  <2> HIDE DEF I
  <2> QED
    BY <1>1, MinOfNaturals
<1> HIDE DEF I
<1> QED
  BY <1>1, <1>2, <1>3

\* What ErrorOf makes of the failures of the instance.
Errors == Retryable \cup Permanent \cup {NoError}

\* A record is appended to its request's log and to nobody else's.
LEMMA RecordFacts ==
  ASSUME TypeOK, NEW r \in Requests, pc[r] # "new",
         NEW number \in Nat, NEW action \in Actions, NEW error \in Errors,
         Record(r, number, action, error)
  PROVE  LET record == [model |-> Model(r), attempt |-> number,
                        action |-> action, error |-> error]
         IN  /\ Model(r) \in Models
             /\ record \in AttemptRecord
             /\ log' \in [Requests -> Seq(AttemptRecord)]
             /\ \A s \in Requests : s # r => log'[s] = log[s]
             /\ Len(log[r]) \in Nat /\ Len(log'[r]) = Len(log[r]) + 1
             /\ \A i \in 1..Len(log[r]) : log'[r][i] = log[r][i]
             /\ log'[r][Len(log[r]) + 1] = record
             /\ log'[r] # <<>>
             /\ metrics' \in [Counters -> Nat]
<1> DEFINE record == [model |-> Model(r), attempt |-> number,
                      action |-> action, error |-> error]
<1>1. Model(r) \in Models
  BY DEF TypeOK, Model
<1>2. record \in AttemptRecord
  BY <1>1 DEF AttemptRecord, Errors
<1>3. log[r] \in Seq(AttemptRecord)
  BY DEF TypeOK
<1> HIDE DEF record
<1>4. log' = [log EXCEPT ![r] = Append(log[r], record)]
  BY DEF Record, record
<1>5. /\ Append(log[r], record) \in Seq(AttemptRecord)
      /\ Append(log[r], record) # <<>>
      /\ Len(Append(log[r], record)) = Len(log[r]) + 1
      /\ \A i \in 1..Len(log[r]) : Append(log[r], record)[i] = log[r][i]
      /\ Append(log[r], record)[Len(log[r]) + 1] = record
      /\ Len(log[r]) \in Nat
  BY <1>2, <1>3, AppendProperties, LenProperties
<1>6. log'[r] = Append(log[r], record) /\ \A s \in Requests : s # r => log'[s] = log[s]
  BY <1>4 DEF TypeOK
<1>7. log' \in [Requests -> Seq(AttemptRecord)]
  BY <1>4, <1>5 DEF TypeOK
<1>8. metrics' \in [Counters -> Nat]
  BY DEF Record, Bump, TypeOK
<1> QED
  BY <1>1, <1>2, <1>5, <1>6, <1>7, <1>8 DEF record

\* The true story goes on when a record is added that the health answer, the
\* attempt number and the retry limit allow.
LEMMA HistoryGrows ==
  ASSUME TypeOK, NEW r \in Requests, History(r), Standing(r), pc[r] = "candidate",
         NEW number \in Nat, NEW action \in Actions, NEW error \in Errors,
         Record(r, number, action, error), UNCHANGED <<candidates, health>>,
         action = "skip_unavailable" => /\ health[r][ProviderOf[Model(r)]] = "down"
                                        /\ number = 0,
         action # "skip_unavailable" => /\ health[r][ProviderOf[Model(r)]] = "up"
                                        /\ number = attempt[r],
         action = "retry" => error \in Retryable /\ number <= MaxRetries,
         action = "fallback" => error \in Retryable /\ number = MaxRetries + 1,
         index'[r] \in {index[r], index[r] + 1}
  PROVE  History(r)'
<1> DEFINE list == candidates[r]
           n == Len(log[r])
           record == [model |-> list[index[r]], attempt |-> number,
                      action |-> action, error |-> error]
<1>1. /\ list[index[r]] \in Models
      /\ n \in Nat /\ Len(log'[r]) = n + 1
      /\ \A i \in 1..n : log'[r][i] = log[r][i]
      /\ log'[r][n + 1] = record
      /\ log'[r] \in Seq(AttemptRecord)
      /\ log[r] \in Seq(AttemptRecord)
      /\ DOMAIN log'[r] = 1..(n + 1) /\ DOMAIN log[r] = 1..n
  <2>1. pc[r] # "new"
    OBVIOUS
  <2>2. /\ Model(r) \in Models
        /\ log' \in [Requests -> Seq(AttemptRecord)]
        /\ n \in Nat /\ Len(log'[r]) = n + 1
        /\ \A i \in 1..n : log'[r][i] = log[r][i]
        /\ log'[r][n + 1] = [model |-> Model(r), attempt |-> number,
                             action |-> action, error |-> error]
    BY <2>1, RecordFacts
  <2>3. log[r] \in Seq(AttemptRecord) /\ log'[r] \in Seq(AttemptRecord)
    BY <2>2 DEF TypeOK
  <2>4. DOMAIN log'[r] = 1..(n + 1) /\ DOMAIN log[r] = 1..n
    BY <2>2, <2>3, LenProperties
  <2> QED
    BY <2>2, <2>3, <2>4 DEF Model
<1>2. list \in Seq(Models) /\ index[r] \in 1..Len(list) /\ candidates'[r] = list
  <2>1. list \in Seq(Models) /\ candidates'[r] = list
    BY DEF TypeOK
  <2>2. index[r] \in DOMAIN list
    BY DEF TypeOK
  <2> QED
    BY <2>1, <2>2, LenProperties
<1>3. \A i, j \in DOMAIN list : list[i] = list[j] => i = j
  BY DEF History, Account
<1>4. log'[r] # <<>> => log'[r][1].model = list[1]
  <2>1. CASE n = 0
    BY <1>1, <2>1 DEF Standing
  <2>2. CASE n > 0
    BY <1>1, <2>2 DEF History, Account
  <2> QED
    BY <1>1, <2>1, <2>2
<1>5. n > 0 => FollowedBy(list, log[r][n], record)
  <2> SUFFICES ASSUME n > 0 PROVE FollowedBy(list, log[r][n], record)
    OBVIOUS
  <2> DEFINE last == log[r][n]
  <2>1. log[r] # <<>> /\ n \in 1..n
    BY <1>1
  <2>2. CASE last.action = "retry"
    <3>1. last.model = list[index[r]] /\ attempt[r] = last.attempt + 1
      BY <2>1, <2>2 DEF Standing, Model
    <3>2. health[r][ProviderOf[list[index[r]]]] = "up"
      <4>1. n \in DOMAIN log[r] /\ last.action # "skip_unavailable"
        BY <1>1, <2>1, <2>2
      <4>2. health[r][ProviderOf[last.model]] = "up"
        BY <4>1 DEF History, Account
      <4> QED
        BY <3>1, <4>2
    <3>3. action # "skip_unavailable"
      BY <3>2 DEF Model
    <3> QED
      BY <2>2, <3>1, <3>3 DEF FollowedBy
  <2>3. CASE last.action \in {"fallback", "skip_unavailable"}
    <3>1. index[r] > 1 /\ last.model = list[index[r] - 1] /\ attempt[r] = 1
      BY <2>1, <2>3 DEF Standing
    <3>2. Position(list, list[index[r] - 1]) = index[r] - 1
      BY <1>2, <1>3, <3>1, PositionFacts
    <3>3. Position(list, list[index[r]]) = index[r]
      BY <1>2, <1>3, PositionFacts
    <3>4. number \in {0, 1}
      BY <3>1
    <3>5. Position(list, record.model) = Position(list, last.model) + 1
      BY <1>2, <3>1, <3>2, <3>3
    <3>6. record.attempt \in {0, 1}
      BY <3>4
    <3> HIDE DEF list, record
    <3> QED
      BY <2>3, <3>5, <3>6 DEF FollowedBy
  <2> QED
    BY <2>1, <2>2, <2>3 DEF Standing
<1>6. \A i \in 1..(Len(log'[r]) - 1) : FollowedBy(list, log'[r][i], log'[r][i + 1])
  <2> TAKE i \in 1..(Len(log'[r]) - 1)
  <2>0. i \in 1..n
    BY <1>1
  <2>1. CASE i = n
    BY <1>1, <1>5, <2>1
  <2>2. CASE i # n
    <3>1. i \in 1..(Len(log[r]) - 1)
      BY <1>1, <2>0, <2>2
    <3>2. FollowedBy(list, log[r][i], log[r][i + 1])
      BY <3>1 DEF History, Account
    <3>3. log'[r][i] = log[r][i] /\ log'[r][i + 1] = log[r][i + 1]
      <4>1. n \in Nat /\ \A k \in 1..n : log'[r][k] = log[r][k]
        BY <1>1
      <4>2. i \in 1..n /\ i + 1 \in 1..n
        BY <3>1, <4>1
      <4> HIDE DEF n
      <4> QED
        BY <4>1, <4>2
    <3> QED
      BY <3>2, <3>3
  <2> QED
    BY <2>1, <2>2
<1>7. ASSUME NEW i \in DOMAIN log'[r]
      PROVE  /\ log'[r][i].action = "retry" =>
                  log'[r][i].error \in Retryable /\ log'[r][i].attempt <= MaxRetries
             /\ log'[r][i].action = "fallback" =>
                  log'[r][i].error \in Retryable /\ log'[r][i].attempt = MaxRetries + 1
             /\ health[r][ProviderOf[log'[r][i].model]] =
                  IF log'[r][i].action = "skip_unavailable" THEN "down" ELSE "up"
             /\ \E j \in 1..index'[r] : log'[r][i].model = list[j]
  <2>1. CASE i = n + 1
    <3>1. log'[r][i] = record
      BY <1>1, <2>1
    <3>2. index[r] \in 1..index'[r]
      BY <1>2
    <3> QED
      BY <3>1, <3>2 DEF Model
  <2>2. CASE i \in 1..n
    <3>1. log'[r][i] = log[r][i]
      BY <1>1, <2>2
    <3>2. \E j \in 1..index[r] : log[r][i].model = list[j]
      BY <1>1, <2>2 DEF History, Account
    <3>3. \E j \in 1..index'[r] : log[r][i].model = list[j]
      BY <1>2, <3>2
    <3>4. /\ log[r][i].action = "retry" =>
               log[r][i].error \in Retryable /\ log[r][i].attempt <= MaxRetries
          /\ log[r][i].action = "fallback" =>
               log[r][i].error \in Retryable /\ log[r][i].attempt = MaxRetries + 1
          /\ health[r][ProviderOf[log[r][i].model]] =
               IF log[r][i].action = "skip_unavailable" THEN "down" ELSE "up"
      BY <1>1, <2>2 DEF History, Account
    <3> QED
      BY <3>1, <3>3, <3>4
  <2>3. i = n + 1 \/ i \in 1..n
    <3>1. n \in Nat /\ i \in 1..(n + 1)
      BY <1>1
    <3> HIDE DEF n
    <3> QED
      BY <3>1
  <2> QED
    BY <2>1, <2>2, <2>3
<1>8. ASSUME NEW j \in 1..(index'[r] - 1)
      PROVE  \E i \in DOMAIN log'[r] : log'[r][i].model = list[j]
  <2>1. CASE j = index[r]
    BY <1>1, <2>1
  <2>2. CASE j \in 1..(index[r] - 1)
    <3>1. PICK i \in DOMAIN log[r] : log[r][i].model = list[j]
      BY <2>2 DEF History, Account
    <3>2. i \in DOMAIN log'[r] /\ log'[r][i] = log[r][i]
      BY <1>1
    <3> QED
      BY <3>1, <3>2
  <2> QED
    BY <1>2, <2>1, <2>2
<1> QED
  BY <1>2, <1>3, <1>4, <1>6, <1>7, <1>8 DEF History, Account

----------------------------------------------------------------------------
(* The steps of a request *)

\* The initial states satisfy the invariant.
LEMMA InitRequests == Init => RequestsInv
<1> SUFFICES ASSUME Init PROVE RequestsInv
  OBVIOUS
<1>1. TypeOK
  <2>1. <<>> \in Seq(Models) /\ <<>> \in Seq(AttemptRecord) /\ 1 \in 1..(MaxRetries + 1)
    BY ExecutionAssumption
  <2> QED
    BY <2>1 DEF Init, TypeOK
<1>2. ASSUME NEW r \in Requests PROVE History(r) /\ Standing(r)
  BY DEF Init, History, Account, Standing
<1> QED
  BY <1>1, <1>2 DEF RequestsInv

\* A request nothing happened to stands where it stood.
LEMMA Unmoved ==
  ASSUME NEW s \in Requests, History(s), Standing(s),
         pc'[s] = pc[s], candidates'[s] = candidates[s], index'[s] = index[s],
         attempt'[s] = attempt[s], health'[s] = health[s], log'[s] = log[s],
         result'[s] = result[s]
  PROVE  History(s)' /\ Standing(s)'
<1>1. History(s)'
  BY DEF History
<1>2. Standing(s)'
  BY DEF Standing, Model, IsLast
<1> QED
  BY <1>1, <1>2

\* A step of one request leaves the others alone.
LEMMA OthersUnmoved ==
  ASSUME TypeOK, NEW r \in Requests, NEW s \in Requests, s # r, Start(r) \/ Progress(r)
  PROVE  /\ pc'[s] = pc[s] /\ candidates'[s] = candidates[s] /\ index'[s] = index[s]
         /\ attempt'[s] = attempt[s] /\ health'[s] = health[s] /\ log'[s] = log[s]
         /\ result'[s] = result[s]
<1>1. CASE Start(r)
  BY <1>1 DEF Start, TypeOK
<1>2. CASE CheckHealth(r)
  BY <1>2 DEF CheckHealth, TypeOK
<1>3. CASE SkipUnavailable(r)
  BY <1>3 DEF SkipUnavailable, Record, NextCandidate, TypeOK
<1>4. CASE Succeed(r)
  BY <1>4 DEF Succeed, Record, TypeOK
<1>5. CASE Fail(r)
  BY <1>5 DEF Fail, Record, NextCandidate, TypeOK
<1>6. CASE Finish(r)
  BY <1>6 DEF Finish, TypeOK
<1> QED
  BY <1>1, <1>2, <1>3, <1>4, <1>5, <1>6 DEF Progress

\* A request starts with its distinct candidates and an empty record.
LEMMA StartKeeps ==
  ASSUME RequestsInv, NEW r \in Requests, Start(r)
  PROVE  TypeOK' /\ History(r)' /\ Standing(r)'
<1>1. PICK list \in CandidateLists : candidates' = [candidates EXCEPT ![r] = Dedupe(list)]
  BY DEF Start
<1>2. list \in Seq(Models) /\ list # <<>>
  BY ExecutionAssumption
<1>3. /\ Dedupe(list) \in Seq(Models) /\ 1 \in DOMAIN Dedupe(list)
      /\ \A i, j \in DOMAIN Dedupe(list) : Dedupe(list)[i] = Dedupe(list)[j] => i = j
  BY <1>2, DedupeFacts, LenProperties
<1>4. log[r] = <<>> /\ index[r] = 1 /\ pc[r] = "new"
  BY DEF Start, RequestsInv, Standing
<1>5. candidates'[r] = Dedupe(list) /\ \A s \in Requests : s # r => candidates'[s] = candidates[s]
  BY <1>1 DEF RequestsInv, TypeOK
<1>6. metrics' \in [Counters -> Nat]
  BY DEF Start, Bump, RequestsInv, TypeOK
<1>7. TypeOK'
  BY <1>1, <1>3, <1>4, <1>5, <1>6 DEF Start, RequestsInv, TypeOK
<1>8. History(r)'
  BY <1>3, <1>4, <1>5 DEF Start, History, Account
<1>9. Standing(r)'
  BY <1>4 DEF Start, Standing, RequestsInv, TypeOK
<1> QED
  BY <1>7, <1>8, <1>9

\* A health answer is cached where none was: no record speaks of that provider.
LEMMA CheckHealthKeeps ==
  ASSUME RequestsInv, NEW r \in Requests, CheckHealth(r)
  PROVE  TypeOK' /\ History(r)' /\ Standing(r)'
<1> DEFINE p == ProviderOf[Model(r)]
<1>1. PICK answer \in {"up", "down"} : health' = [health EXCEPT ![r][p] = answer]
  BY DEF CheckHealth
<1>2. Model(r) \in Models /\ p \in Providers
  BY ExecutionAssumption DEF CheckHealth, RequestsInv, TypeOK, Model
<1>3. health'[r][p] = answer /\ \A q \in Providers : q # p => health'[r][q] = health[r][q]
  BY <1>1, <1>2 DEF RequestsInv, TypeOK
<1>4. TypeOK'
  BY <1>1, <1>2 DEF CheckHealth, RequestsInv, TypeOK
<1>5. \A i \in DOMAIN log[r] :
        /\ ProviderOf[log[r][i].model] \in Providers
        /\ ProviderOf[log[r][i].model] # p
  <2> TAKE i \in DOMAIN log[r]
  <2>1. log[r][i] \in AttemptRecord
    BY DEF RequestsInv, TypeOK
  <2>2. ProviderOf[log[r][i].model] \in Providers
    BY <2>1, ExecutionAssumption DEF AttemptRecord
  <2>3. health[r][ProviderOf[log[r][i].model]] # "unknown"
    BY DEF RequestsInv, History, Account
  <2> QED
    BY <2>2, <2>3 DEF CheckHealth
<1>6. History(r)'
  BY <1>3, <1>5 DEF CheckHealth, RequestsInv, History, Account
<1>7. Standing(r)'
  BY DEF CheckHealth, RequestsInv, Standing, Model, IsLast
<1> QED
  BY <1>4, <1>6, <1>7

\* What NextCandidate leaves, once the record it follows is written.
LEMMA NextCandidateFacts ==
  ASSUME TypeOK, NEW r \in Requests, pc[r] = "candidate",
         NEW error \in Errors, NextCandidate(r, error), UNCHANGED candidates
  PROVE  /\ pc' \in [Requests -> {"new", "candidate", "finishing", "done"}]
         /\ index' \in [Requests -> Nat \ {0}]
         /\ attempt' \in [Requests -> 1..(MaxRetries + 1)]
         /\ result' \in [Requests -> Result \cup {NoResult}]
         /\ attempt'[r] = 1
         /\ index[r] \in 1..Len(candidates[r])
         /\ IsLast(r) => /\ pc'[r] = "finishing" /\ index' = index
                         /\ result'[r] = [outcome |-> "all_providers_failed", error |-> error]
         /\ ~IsLast(r) => pc'[r] = "candidate" /\ index'[r] = index[r] + 1
         /\ \A s \in Requests : pc'[s] # "new" => index'[s] \in DOMAIN candidates'[s]
<1>1. index[r] \in 1..Len(candidates[r]) /\ DOMAIN candidates[r] = 1..Len(candidates[r])
  BY LenProperties DEF TypeOK
<1>2. 1 \in 1..(MaxRetries + 1)
  BY ExecutionAssumption
<1>3. CASE IsLast(r)
  <2>1. [outcome |-> "all_providers_failed", error |-> error] \in Result
    BY DEF Result, Outcomes, Errors
  <2>2. /\ index' = index /\ attempt' = [attempt EXCEPT ![r] = 1]
        /\ pc' = [pc EXCEPT ![r] = "finishing"]
        /\ result' = [result EXCEPT ![r] =
                        [outcome |-> "all_providers_failed", error |-> error]]
    BY <1>3 DEF NextCandidate
  <2> QED
    BY <1>1, <1>2, <1>3, <2>1, <2>2 DEF TypeOK
<1>4. CASE ~IsLast(r)
  <2>1. index[r] + 1 \in DOMAIN candidates[r]
    BY <1>1, <1>4, LenProperties DEF IsLast, TypeOK
  <2>2. /\ index' = [index EXCEPT ![r] = index[r] + 1]
        /\ pc' = [pc EXCEPT ![r] = "candidate"] /\ attempt' = [attempt EXCEPT ![r] = 1]
        /\ result' = result
    BY <1>4 DEF NextCandidate
  <2> QED
    BY <1>1, <1>2, <1>4, <2>1, <2>2 DEF TypeOK
<1> QED
  BY <1>3, <1>4

\* What a record followed by NextCandidate leaves: a skip, or the last failure
\* on a model.
LEMMA MovesOn ==
  ASSUME RequestsInv, NEW r \in Requests, pc[r] = "candidate",
         NEW number \in Nat, NEW action \in Actions, NEW error \in Retryable,
         Record(r, number, action, error), NextCandidate(r, error),
         UNCHANGED <<candidates, health>>,
         action = "skip_unavailable" => /\ health[r][ProviderOf[Model(r)]] = "down"
                                        /\ number = 0,
         action # "skip_unavailable" => /\ health[r][ProviderOf[Model(r)]] = "up"
                                        /\ number = attempt[r],
         action = "fallback" => number = MaxRetries + 1,
         action \in {"skip_unavailable", "fallback", "fail"},
         action = "fallback" => ~IsLast(r),
         action = "fail" => IsLast(r)
  PROVE  TypeOK' /\ History(r)' /\ Standing(r)'
<1> DEFINE n == Len(log[r])
           record == [model |-> Model(r), attempt |-> number,
                      action |-> action, error |-> error]
<1>0. TypeOK /\ History(r) /\ Standing(r) /\ pc[r] # "new" /\ error \in Errors
  BY DEF RequestsInv, Errors
<1>1. /\ log' \in [Requests -> Seq(AttemptRecord)]
      /\ n \in Nat /\ Len(log'[r]) = n + 1
      /\ log'[r][n + 1] = record
      /\ log'[r] # <<>>
      /\ metrics' \in [Counters -> Nat]
  BY <1>0, RecordFacts
<1>2. /\ pc' \in [Requests -> {"new", "candidate", "finishing", "done"}]
      /\ index' \in [Requests -> Nat \ {0}]
      /\ attempt' \in [Requests -> 1..(MaxRetries + 1)]
      /\ result' \in [Requests -> Result \cup {NoResult}]
      /\ attempt'[r] = 1
      /\ index[r] \in 1..Len(candidates[r])
      /\ IsLast(r) => /\ pc'[r] = "finishing" /\ index' = index
                      /\ result'[r] = [outcome |-> "all_providers_failed", error |-> error]
      /\ ~IsLast(r) => pc'[r] = "candidate" /\ index'[r] = index[r] + 1
      /\ \A s \in Requests : pc'[s] # "new" => index'[s] \in DOMAIN candidates'[s]
  BY <1>0, NextCandidateFacts
<1>3. TypeOK'
  BY <1>0, <1>1, <1>2 DEF TypeOK
<1>4. index'[r] \in {index[r], index[r] + 1}
  BY <1>2
<1>5. History(r)'
  BY <1>0, <1>4, HistoryGrows
<1>6. candidates' = candidates /\ error \notin Permanent
  BY DEF Retryable, Permanent
<1>7. Standing(r)'
  <2>1. CASE IsLast(r)
    <3>1. action \notin {"retry", "fallback", "return_response"}
      BY <2>1
    <3> QED
      BY <1>1, <1>2, <1>6, <2>1, <3>1 DEF Standing, Model, IsLast, Outcomes
  <2>2. CASE ~IsLast(r)
    <3>1. action \in {"fallback", "skip_unavailable"}
      BY <2>2
    <3>2. index'[r] - 1 = index[r] /\ index'[r] > 1
      BY <1>2, <2>2
    <3> QED
      BY <1>1, <1>2, <1>6, <2>2, <3>1, <3>2 DEF Standing, Model
  <2> QED
    BY <2>1, <2>2
<1> QED
  BY <1>3, <1>5, <1>7

\* A provider that is down is passed over with a record that says so.
LEMMA SkipKeeps ==
  ASSUME RequestsInv, NEW r \in Requests, SkipUnavailable(r)
  PROVE  TypeOK' /\ History(r)' /\ Standing(r)'
<1>1. 0 \in Nat /\ "skip_unavailable" \in Actions /\ "provider_unavailable" \in Retryable
  BY DEF Actions, Retryable
<1> QED
  BY <1>1, MovesOn DEF SkipUnavailable

\* A response is the last record.
LEMMA SucceedKeeps ==
  ASSUME RequestsInv, NEW r \in Requests, Succeed(r)
  PROVE  TypeOK' /\ History(r)' /\ Standing(r)'
<1> DEFINE n == Len(log[r])
           record == [model |-> Model(r), attempt |-> attempt[r],
                      action |-> "return_response", error |-> NoError]
<1>0. /\ TypeOK /\ History(r) /\ Standing(r) /\ pc[r] = "candidate" /\ pc[r] # "new"
      /\ health[r][ProviderOf[Model(r)]] = "up"
      /\ "return_response" \in Actions /\ NoError \in Errors /\ attempt[r] \in Nat
      /\ Record(r, attempt[r], "return_response", NoError)
      /\ UNCHANGED <<candidates, index, attempt, health>>
  BY ExecutionAssumption
  DEF Succeed, MayCall, RequestsInv, Actions, Errors, TypeOK
<1>1. /\ log' \in [Requests -> Seq(AttemptRecord)]
      /\ n \in Nat /\ Len(log'[r]) = n + 1
      /\ log'[r][n + 1] = record
      /\ log'[r] # <<>>
      /\ metrics' \in [Counters -> Nat]
  BY <1>0, RecordFacts
<1>2. [outcome |-> "success", error |-> NoError] \in Result
  BY DEF Result, Outcomes
<1>3. TypeOK'
  BY <1>0, <1>1, <1>2 DEF Succeed, TypeOK
<1>4. index'[r] \in {index[r], index[r] + 1}
  BY <1>0
<1>5. History(r)'
  BY <1>0, <1>4, HistoryGrows
<1>6. /\ pc'[r] = "finishing"
      /\ result'[r] = [outcome |-> "success", error |-> NoError]
      /\ NoError \notin Permanent
  BY <1>0 DEF Succeed, TypeOK, Permanent, NoError
<1>7. Standing(r)'
  BY <1>0, <1>1, <1>6 DEF Standing, Model, Outcomes
<1> QED
  BY <1>3, <1>5, <1>7

\* A failure is retried, passed to the next model, or the end.
LEMMA FailKeeps ==
  ASSUME RequestsInv, NEW r \in Requests, Fail(r)
  PROVE  TypeOK' /\ History(r)' /\ Standing(r)'
<1> DEFINE n == Len(log[r])
<1>1. PICK error \in {ErrorOf(failure) : failure \in Failures} :
        /\ Record(r, attempt[r], FailureAction(r, error), error)
        /\ \/ /\ HasRetry(r, error)
              /\ attempt' = [attempt EXCEPT ![r] = @ + 1]
              /\ UNCHANGED <<pc, index, result>>
           \/ /\ error \notin Retryable
              /\ pc' = [pc EXCEPT ![r] = "finishing"]
              /\ result' = [result EXCEPT ![r] = [outcome |-> "failed", error |-> error]]
              /\ UNCHANGED <<index, attempt>>
           \/ /\ error \in Retryable
              /\ ~HasRetry(r, error)
              /\ NextCandidate(r, error)
  BY DEF Fail
<1>2. error \in Retryable \cup Permanent
  BY ExecutionAssumption
<1> DEFINE action == FailureAction(r, error)
           record == [model |-> Model(r), attempt |-> attempt[r],
                      action |-> action, error |-> error]
<1>3. /\ TypeOK /\ History(r) /\ Standing(r) /\ pc[r] = "candidate" /\ pc[r] # "new"
      /\ health[r][ProviderOf[Model(r)]] = "up"
      /\ UNCHANGED <<candidates, health>>
      /\ error \in Errors /\ attempt[r] \in Nat /\ attempt[r] \in 1..(MaxRetries + 1)
      /\ MaxRetries \in Nat
      /\ action \in Actions /\ action # "skip_unavailable"
  BY <1>2, ExecutionAssumption
  DEF Fail, MayCall, RequestsInv, Errors, TypeOK, FailureAction, Actions
<1>4. /\ log' \in [Requests -> Seq(AttemptRecord)]
      /\ n \in Nat /\ Len(log'[r]) = n + 1
      /\ log'[r][n + 1] = record
      /\ log'[r] # <<>>
      /\ metrics' \in [Counters -> Nat]
  BY <1>1, <1>3, RecordFacts
<1>5. CASE /\ HasRetry(r, error)
           /\ attempt' = [attempt EXCEPT ![r] = @ + 1]
           /\ UNCHANGED <<pc, index, result>>
  <2>1. action = "retry" /\ error \in Retryable /\ attempt[r] <= MaxRetries
    BY <1>5 DEF FailureAction, HasRetry
  <2>2. attempt' \in [Requests -> 1..(MaxRetries + 1)] /\ attempt'[r] = attempt[r] + 1
    BY <1>3, <1>5, <2>1 DEF TypeOK
  <2>3. TypeOK'
    BY <1>3, <1>4, <1>5, <2>2 DEF TypeOK
  <2>4. History(r)'
    <3>1. index'[r] \in {index[r], index[r] + 1}
      BY <1>5
    <3>2. Record(r, attempt[r], "retry", error) /\ "retry" \in Actions
      BY <1>1, <1>3, <2>1
    <3> QED
      BY <1>3, <2>1, <3>1, <3>2, HistoryGrows
  <2>5. Standing(r)'
    BY <1>3, <1>4, <1>5, <2>1, <2>2 DEF Standing, Model
  <2> QED
    BY <2>3, <2>4, <2>5
<1>6. CASE /\ error \notin Retryable
           /\ pc' = [pc EXCEPT ![r] = "finishing"]
           /\ result' = [result EXCEPT ![r] = [outcome |-> "failed", error |-> error]]
           /\ UNCHANGED <<index, attempt>>
  <2>1. action = "fail" /\ error \in Permanent
    BY <1>2, <1>6 DEF FailureAction, HasRetry, HasFallback
  <2>2. [outcome |-> "failed", error |-> error] \in Result
    BY <1>2 DEF Result, Outcomes
  <2>3. TypeOK'
    BY <1>3, <1>4, <1>6, <2>2 DEF TypeOK
  <2>4. History(r)'
    <3>1. index'[r] \in {index[r], index[r] + 1}
      BY <1>6
    <3>2. Record(r, attempt[r], "fail", error) /\ "fail" \in Actions
      BY <1>1, <1>3, <2>1
    <3> QED
      BY <1>3, <3>1, <3>2, HistoryGrows
  <2>5. pc'[r] = "finishing" /\ result'[r] = [outcome |-> "failed", error |-> error]
    BY <1>3, <1>6 DEF TypeOK
  <2>6. Standing(r)'
    BY <1>3, <1>4, <1>6, <2>1, <2>5 DEF Standing, Model, Outcomes
  <2> QED
    BY <2>3, <2>4, <2>6
<1>7. CASE error \in Retryable /\ ~HasRetry(r, error) /\ NextCandidate(r, error)
  <2>1. attempt[r] = MaxRetries + 1
    BY <1>3, <1>7 DEF HasRetry
  <2>2. action = IF IsLast(r) THEN "fail" ELSE "fallback"
    BY <1>7 DEF FailureAction, HasFallback
  <2>3. Record(r, attempt[r], action, error)
    BY <1>1
  <2> HIDE DEF action
  <2> QED
    BY <1>3, <1>7, <2>1, <2>2, <2>3, MovesOn
<1> QED
  BY <1>1, <1>5, <1>6, <1>7

\* Reporting the end to the observer changes nothing of the request's story.
LEMMA FinishKeeps ==
  ASSUME RequestsInv, NEW r \in Requests, Finish(r)
  PROVE  TypeOK' /\ History(r)' /\ Standing(r)'
<1>1. metrics' \in [Counters -> Nat]
  BY DEF Finish, Bump, RequestsInv, TypeOK
<1>2. TypeOK'
  BY <1>1 DEF Finish, RequestsInv, TypeOK
<1>3. History(r)'
  BY DEF Finish, RequestsInv, History
<1>4. Standing(r)'
  BY DEF Finish, RequestsInv, TypeOK, Standing, Model, IsLast
<1> QED
  BY <1>2, <1>3, <1>4

\* Every step keeps every request's story true.
LEMMA NextRequests == RequestsInv /\ [Next]_vars => RequestsInv'
<1> SUFFICES ASSUME RequestsInv, [Next]_vars PROVE RequestsInv'
  OBVIOUS
<1>1. CASE UNCHANGED vars
  <2>1. TypeOK'
    BY <1>1 DEF RequestsInv, TypeOK, vars, request
  <2>2. \A s \in Requests : History(s)' /\ Standing(s)'
    BY <1>1, Unmoved DEF RequestsInv, vars, request
  <2> QED
    BY <2>1, <2>2 DEF RequestsInv
<1>2. ASSUME NEW r \in Requests, Start(r) \/ Progress(r) PROVE RequestsInv'
  <2>1. TypeOK' /\ History(r)' /\ Standing(r)'
    BY <1>2, StartKeeps, CheckHealthKeeps, SkipKeeps, SucceedKeeps, FailKeeps, FinishKeeps
    DEF Progress
  <2>2. \A s \in Requests : s # r => History(s)' /\ Standing(s)'
    BY <1>2, OthersUnmoved, Unmoved DEF RequestsInv
  <2> QED
    BY <2>1, <2>2 DEF RequestsInv
<1> QED
  BY <1>1, <1>2 DEF Next, AllDone

----------------------------------------------------------------------------
(* The counters *)

\* A record adds one entry, to those of its action only.
LEMMA EntriesGrow ==
  ASSUME TypeOK, NEW r \in Requests, pc[r] # "new",
         NEW number \in Nat, NEW action \in Actions, NEW error \in Errors,
         Record(r, number, action, error), NEW actions
  PROVE  LET entry == <<r, Len(log[r]) + 1>>
         IN  /\ entry \notin Entries(actions)
             /\ Entries(actions)' = IF action \in actions THEN Entries(actions) \cup {entry}
                                    ELSE Entries(actions)
<1> DEFINE n == Len(log[r])
           entry == <<r, n + 1>>
           record == [model |-> Model(r), attempt |-> number,
                      action |-> action, error |-> error]
           Of(s) == {i \in DOMAIN log[s] : log[s][i].action \in actions}
           After(s) == {i \in DOMAIN log'[s] : log'[s][i].action \in actions}
<1>1. /\ log' \in [Requests -> Seq(AttemptRecord)]
      /\ \A s \in Requests : s # r => log'[s] = log[s]
      /\ n \in Nat /\ Len(log'[r]) = n + 1
      /\ \A i \in 1..n : log'[r][i] = log[r][i]
      /\ log'[r][n + 1] = record
  BY RecordFacts
<1>2. DOMAIN log[r] = 1..n /\ DOMAIN log'[r] = 1..(n + 1)
  BY <1>1, LenProperties DEF TypeOK
<1>3. n + 1 \notin Of(r)
  BY <1>1, <1>2
<1>4. After(r) = IF action \in actions THEN Of(r) \cup {n + 1} ELSE Of(r)
  <2>1. \A i \in 1..n : log'[r][i].action = log[r][i].action
    BY <1>1
  <2>2. log'[r][n + 1].action = action
    BY <1>1
  <2> HIDE DEF n
  <2> QED
    BY <1>1, <1>2, <2>1, <2>2
<1>5. \A s \in Requests : s # r => After(s) = Of(s)
  BY <1>1
<1>6. /\ Entries(actions) = UNION {{s} \X Of(s) : s \in Requests}
      /\ Entries(actions)' = UNION {{s} \X After(s) : s \in Requests}
  BY DEF Entries
<1> HIDE DEF n, Of, After
<1>7. entry \notin Entries(actions)
  BY <1>3, <1>6
<1>8. Entries(actions)' = IF action \in actions THEN Entries(actions) \cup {entry}
                          ELSE Entries(actions)
  <2>1. ASSUME NEW e \in Entries(actions)'
        PROVE  e \in Entries(actions) \/ (action \in actions /\ e = entry)
    <3>1. PICK s \in Requests : e \in {s} \X After(s)
      BY <1>6
    <3>2. PICK i \in After(s) : e = <<s, i>>
      BY <3>1
    <3> QED
      BY <1>4, <1>5, <1>6, <3>2
  <2>2. ASSUME NEW e \in Entries(actions) PROVE e \in Entries(actions)'
    <3>1. PICK s \in Requests : e \in {s} \X Of(s)
      BY <1>6
    <3>2. PICK i \in Of(s) : e = <<s, i>>
      BY <3>1
    <3> QED
      BY <1>4, <1>5, <1>6, <3>2
  <2>3. action \in actions => entry \in Entries(actions)'
    BY <1>4, <1>6
  <2> QED
    BY <2>1, <2>2, <2>3
<1> QED
  BY <1>7, <1>8 DEF n

\* A record counts the entries it adds, and nothing else.
LEMMA RecordCounts ==
  ASSUME TypeOK, MetricsInv, NEW r \in Requests, pc[r] = "candidate",
         NEW number \in Nat, NEW action \in Actions, NEW error \in Errors,
         Record(r, number, action, error),
         pc'[r] \in {"candidate", "finishing"},
         \A s \in Requests : s # r => pc'[s] = pc[s] /\ result'[s] = result[s]
  PROVE  MetricsInv'
<1> DEFINE entry == <<r, Len(log[r]) + 1>>
<1>1. Begun' = Begun /\ \A outcomes : Ended(outcomes)' = Ended(outcomes)
  BY DEF Begun, Ended
<1>2. \A actions : /\ entry \notin Entries(actions)
                   /\ Entries(actions)' = IF action \in actions
                                          THEN Entries(actions) \cup {entry}
                                          ELSE Entries(actions)
  <2>1. pc[r] # "new"
    OBVIOUS
  <2> QED
    BY <2>1, EntriesGrow
<1>3. \A actions : IsFiniteSet(Entries(actions)) =>
        /\ IsFiniteSet(Entries(actions)')
        /\ Cardinality(Entries(actions)) \in Nat
        /\ Cardinality(Entries(actions)') =
             IF action \in actions THEN Cardinality(Entries(actions)) + 1
             ELSE Cardinality(Entries(actions))
  <2> TAKE actions
  <2> HAVE IsFiniteSet(Entries(actions))
  <2>1. CASE action \in actions
    BY <1>2, <2>1, FS_AddElement, FS_CardinalityType
  <2>2. CASE action \notin actions
    BY <1>2, <2>2, FS_CardinalityType
  <2> QED
    BY <2>1, <2>2
<1>4. \A c \in Counters : /\ metrics[c] \in Nat
                          /\ metrics'[c] = IF c \in CountersOf(action) THEN metrics[c] + 1
                                           ELSE metrics[c]
  BY DEF Record, Bump, TypeOK
<1>5. /\ IsFiniteSet(Entries({"skip_unavailable"})) /\ IsFiniteSet(Entries(Calls))
      /\ IsFiniteSet(Entries({"fail"}))
  BY DEF MetricsInv
<1>6. /\ IsFiniteSet(Entries({"skip_unavailable"})') /\ IsFiniteSet(Entries(Calls)')
      /\ IsFiniteSet(Entries({"fail"})')
  BY <1>3, <1>5
<1>7. /\ metrics'["requests"] = metrics["requests"]
      /\ metrics'["successes"] = metrics["successes"]
      /\ metrics'["failures"] = metrics["failures"]
  BY <1>4 DEF Counters, CountersOf, Actions
<1>8. metrics'["unavailable_skips"] = Cardinality(Entries({"skip_unavailable"})')
  <2>1. metrics["unavailable_skips"] = Cardinality(Entries({"skip_unavailable"}))
    BY DEF MetricsInv, MetricsAddUp
  <2>2. "unavailable_skips" \in CountersOf(action) <=> action = "skip_unavailable"
    BY DEF CountersOf, Actions
  <2>3. "unavailable_skips" \in Counters
    BY DEF Counters
  <2> QED
    BY <1>3, <1>4, <1>5, <2>1, <2>2, <2>3
<1>9. metrics'["provider_attempts"] = Cardinality(Entries(Calls)')
  <2>1. metrics["provider_attempts"] = Cardinality(Entries(Calls))
    BY DEF MetricsInv, MetricsAddUp, Calls
  <2>2. "provider_attempts" \in CountersOf(action) <=> action \in Calls
    BY DEF CountersOf, Actions, Calls
  <2>3. "provider_attempts" \in Counters
    BY DEF Counters
  <2> QED
    BY <1>3, <1>4, <1>5, <2>1, <2>2, <2>3
<1>10. metrics'["failed_attempts"] =
         metrics'["retries"] + metrics'["fallbacks"] + Cardinality(Entries({"fail"})')
  <2>1. metrics["failed_attempts"] =
          metrics["retries"] + metrics["fallbacks"] + Cardinality(Entries({"fail"}))
    BY DEF MetricsInv, MetricsAddUp
  <2>2. /\ "failed_attempts" \in CountersOf(action) <=> action \in {"retry", "fallback", "fail"}
        /\ "retries" \in CountersOf(action) <=> action = "retry"
        /\ "fallbacks" \in CountersOf(action) <=> action = "fallback"
    BY DEF CountersOf, Actions
  <2>3. {"failed_attempts", "retries", "fallbacks"} \subseteq Counters
    BY DEF Counters
  <2>4. /\ Cardinality(Entries({"fail"})) \in Nat
        /\ Cardinality(Entries({"fail"})') =
             IF action = "fail" THEN Cardinality(Entries({"fail"})) + 1
             ELSE Cardinality(Entries({"fail"}))
    BY <1>3, <1>5
  <2> QED
    BY <1>4, <2>1, <2>2, <2>3, <2>4
<1> QED
  BY <1>1, <1>6, <1>7, <1>8, <1>9, <1>10 DEF MetricsInv, MetricsAddUp, Calls

\* Every step keeps the counters in agreement with the records.
LEMMA NextMetrics == RequestsInv /\ MetricsInv /\ [Next]_vars => MetricsInv'
<1> SUFFICES ASSUME RequestsInv, MetricsInv, [Next]_vars PROVE MetricsInv'
  OBVIOUS
<1>0. TypeOK
  BY DEF RequestsInv
<1>1. CASE UNCHANGED vars
  BY <1>1 DEF MetricsInv, MetricsAddUp, Begun, Ended, Entries, vars, request
<1>2. ASSUME NEW r \in Requests, Start(r) PROVE MetricsInv'
  <2>1. pc[r] = "new" /\ pc' = [pc EXCEPT ![r] = "candidate"]
    BY <1>2 DEF Start
  <2>2. Begun' = Begun \cup {r} /\ r \notin Begun
    BY <1>0, <2>1 DEF Begun, TypeOK
  <2>3. /\ \A outcomes : Ended(outcomes)' = Ended(outcomes)
        /\ \A actions : Entries(actions)' = Entries(actions)
    BY <1>0, <1>2, <2>1 DEF Start, Ended, Entries, TypeOK
  <2>4. IsFiniteSet(Begun') /\ Cardinality(Begun') = Cardinality(Begun) + 1
    BY <2>2, FS_AddElement DEF MetricsInv
  <2>5. \A c \in Counters : metrics'[c] = IF c = "requests" THEN metrics[c] + 1 ELSE metrics[c]
    BY <1>2 DEF Start, Bump
  <2>6. metrics'["requests"] = Cardinality(Begun')
    BY <2>4, <2>5 DEF MetricsInv, MetricsAddUp, Begun, Counters
  <2>7. \A c \in Counters \ {"requests"} : metrics'[c] = metrics[c]
    BY <2>5
  <2> QED
    BY <2>3, <2>4, <2>6, <2>7 DEF MetricsInv, MetricsAddUp, Begun, Counters
<1>3. ASSUME NEW r \in Requests, CheckHealth(r) PROVE MetricsInv'
  BY <1>3 DEF CheckHealth, MetricsInv, MetricsAddUp, Begun, Ended, Entries
<1>4. ASSUME NEW r \in Requests, SkipUnavailable(r) PROVE MetricsInv'
  <2>1. 0 \in Nat /\ "skip_unavailable" \in Actions /\ "provider_unavailable" \in Errors
    BY DEF Actions, Errors, Retryable
  <2>2. /\ pc'[r] \in {"candidate", "finishing"}
        /\ \A s \in Requests : s # r => pc'[s] = pc[s] /\ result'[s] = result[s]
    BY <1>0, <1>4 DEF SkipUnavailable, NextCandidate, TypeOK
  <2> QED
    BY <1>0, <1>4, <2>1, <2>2, RecordCounts DEF SkipUnavailable
<1>5. ASSUME NEW r \in Requests, Succeed(r) PROVE MetricsInv'
  <2>1. attempt[r] \in Nat /\ "return_response" \in Actions /\ NoError \in Errors
    BY <1>0, ExecutionAssumption DEF Actions, Errors, TypeOK
  <2>2. /\ pc'[r] \in {"candidate", "finishing"}
        /\ \A s \in Requests : s # r => pc'[s] = pc[s] /\ result'[s] = result[s]
    BY <1>0, <1>5 DEF Succeed, TypeOK
  <2> QED
    BY <1>0, <1>5, <2>1, <2>2, RecordCounts DEF Succeed, MayCall
<1>6. ASSUME NEW r \in Requests, Fail(r) PROVE MetricsInv'
  <2>1. PICK error \in {ErrorOf(failure) : failure \in Failures} :
          Record(r, attempt[r], FailureAction(r, error), error)
    BY <1>6 DEF Fail
  <2>2. attempt[r] \in Nat /\ FailureAction(r, error) \in Actions /\ error \in Errors
    BY <1>0, ExecutionAssumption DEF Actions, Errors, FailureAction, TypeOK
  <2>3. /\ pc[r] = "candidate"
        /\ pc'[r] \in {"candidate", "finishing"}
        /\ \A s \in Requests : s # r => pc'[s] = pc[s] /\ result'[s] = result[s]
    BY <1>0, <1>6 DEF Fail, MayCall, NextCandidate, TypeOK
  <2> QED
    BY <1>0, <2>1, <2>2, <2>3, RecordCounts
<1>7. ASSUME NEW r \in Requests, Finish(r) PROVE MetricsInv'
  <2>1. /\ pc[r] = "finishing" /\ pc' = [pc EXCEPT ![r] = "done"]
        /\ UNCHANGED <<log, result>>
        /\ result[r].outcome \in Outcomes
    BY <1>7 DEF Finish, RequestsInv, Standing
  <2>2. Begun' = Begun /\ \A actions : Entries(actions)' = Entries(actions)
    BY <1>0, <2>1 DEF Begun, Entries, TypeOK
  <2>3. \A outcomes : /\ r \notin Ended(outcomes)
                      /\ Ended(outcomes)' = IF result[r].outcome \in outcomes
                                            THEN Ended(outcomes) \cup {r} ELSE Ended(outcomes)
    BY <1>0, <2>1 DEF Ended, TypeOK
  <2>4. \A outcomes : IsFiniteSet(Ended(outcomes)) =>
          /\ IsFiniteSet(Ended(outcomes)')
          /\ Cardinality(Ended(outcomes)') =
               IF result[r].outcome \in outcomes THEN Cardinality(Ended(outcomes)) + 1
               ELSE Cardinality(Ended(outcomes))
    <3> TAKE outcomes
    <3> HAVE IsFiniteSet(Ended(outcomes))
    <3> QED
      BY <2>3, FS_AddElement
  <2>5. \A c \in Counters : metrics'[c] =
          IF c = (IF result[r].outcome = "success" THEN "successes" ELSE "failures")
          THEN metrics[c] + 1 ELSE metrics[c]
    BY <1>7 DEF Finish, Bump
  <2>6. result[r].outcome \in {"failed", "all_providers_failed"} <=> result[r].outcome # "success"
    BY <2>1 DEF Outcomes
  <2>7. /\ metrics'["successes"] = Cardinality(Ended({"success"})')
        /\ metrics'["failures"] = Cardinality(Ended({"failed", "all_providers_failed"})')
    <3>1. "successes" \in Counters /\ "failures" \in Counters
      BY DEF Counters
    <3> QED
      BY <2>4, <2>5, <2>6, <3>1 DEF MetricsInv, MetricsAddUp
  <2>8. \A c \in Counters \ {"successes", "failures"} : metrics'[c] = metrics[c]
    BY <2>5
  <2> QED
    BY <2>2, <2>4, <2>7, <2>8 DEF MetricsInv, MetricsAddUp, Begun, Counters
<1> QED
  BY <1>1, <1>2, <1>3, <1>4, <1>5, <1>6, <1>7 DEF Next, AllDone, Progress

\* The initial counters count nothing.
LEMMA InitMetrics == Init => MetricsInv
<1> SUFFICES ASSUME Init PROVE MetricsInv
  OBVIOUS
<1>1. Begun = {} /\ \A outcomes : Ended(outcomes) = {}
  BY DEF Init, Begun, Ended
<1>2. \A actions : Entries(actions) = {}
  BY DEF Init, Entries
<1>3. \A c \in Counters : metrics[c] = 0
  BY DEF Init
<1> QED
  BY <1>1, <1>2, <1>3, FS_EmptySet DEF MetricsInv, MetricsAddUp, Begun, Counters

----------------------------------------------------------------------------
(* The theorems *)

\* The two invariants hold in every reachable state.
THEOREM ExecutionInvariant == Spec => [](RequestsInv /\ MetricsInv)
<1>1. Init => RequestsInv /\ MetricsInv
  BY InitRequests, InitMetrics
<1>2. (RequestsInv /\ MetricsInv) /\ [Next]_vars => (RequestsInv /\ MetricsInv)'
  BY NextRequests, NextMetrics
<1> QED
  BY <1>1, <1>2, PTL DEF Spec

\* The variables keep their types; a request in its loop always points at one
\* of its candidates.
THEOREM TypeCorrect == Spec => []TypeOK
<1>1. RequestsInv => TypeOK
  BY DEF RequestsInv
<1> QED
  BY <1>1, ExecutionInvariant, PTL

\* The attempt records that execute() returns tell a true story of retries,
\* fallbacks and skips, whatever the providers answer.
THEOREM TrueStory == Spec => []RetriesThenFallsBack
<1>1. RequestsInv => RetriesThenFallsBack
  <2> SUFFICES ASSUME RequestsInv, NEW r \in Requests
               PROVE  /\ log[r] # <<>> => log[r][1].model = candidates[r][1]
                      /\ \A i \in 1..(Len(log[r]) - 1) :
                           FollowedBy(candidates[r], log[r][i], log[r][i + 1])
                      /\ \A i \in DOMAIN log[r] :
                           LET this == log[r][i] IN
                           /\ this.action = "retry" =>
                                this.error \in Retryable /\ this.attempt <= MaxRetries
                           /\ this.action = "fallback" =>
                                this.error \in Retryable /\ this.attempt = MaxRetries + 1
                      /\ \A i, j \in DOMAIN log[r] :
                           ProviderOf[log[r][i].model] = ProviderOf[log[r][j].model] =>
                             (log[r][i].action = "skip_unavailable" <=>
                                log[r][j].action = "skip_unavailable")
    BY DEF RetriesThenFallsBack
  <2>1. History(r)
    BY DEF RequestsInv
  <2>2. \A i, j \in DOMAIN log[r] :
          ProviderOf[log[r][i].model] = ProviderOf[log[r][j].model] =>
            (log[r][i].action = "skip_unavailable" <=> log[r][j].action = "skip_unavailable")
    BY <2>1 DEF History, Account
  <2> QED
    BY <2>1, <2>2 DEF History, Account
<1> QED
  BY <1>1, ExecutionInvariant, PTL

\* The outcome and the error that execute() returns are those its attempt
\* records imply; all_providers_failed means that no candidate was left out.
THEOREM OutcomeFollows == Spec => []ResultMatchesLog
<1>1. RequestsInv => ResultMatchesLog
  <2> SUFFICES ASSUME RequestsInv, NEW r \in Requests, pc[r] \in {"finishing", "done"}
               PROVE  LET last == Last(log[r]) IN
                      /\ last.action \notin {"retry", "fallback"}
                      /\ result[r].error = last.error
                      /\ result[r].outcome = "success" <=> last.action = "return_response"
                      /\ result[r].outcome = "failed" <=> last.error \in Permanent
                      /\ result[r].outcome = "all_providers_failed" =>
                           ToSet(candidates[r]) = {log[r][i].model : i \in DOMAIN log[r]}
    BY DEF ResultMatchesLog
  <2>1. TypeOK /\ History(r) /\ Standing(r)
    BY DEF RequestsInv
  <2>2. /\ candidates[r] \in Seq(Models) /\ log[r] \in Seq(AttemptRecord)
        /\ index[r] \in 1..Len(candidates[r])
        /\ DOMAIN candidates[r] = 1..Len(candidates[r])
        /\ DOMAIN log[r] = 1..Len(log[r]) /\ Len(log[r]) \in Nat
    BY <2>1, LenProperties DEF TypeOK
  <2>3. Len(log[r]) \in DOMAIN log[r]
    BY <2>1, <2>2, EmptySeq DEF Standing
  <2>4. ASSUME result[r].outcome = "all_providers_failed"
        PROVE  ToSet(candidates[r]) = {log[r][i].model : i \in DOMAIN log[r]}
    <3>1. index[r] = Len(candidates[r]) /\ log[r][Len(log[r])].model = candidates[r][index[r]]
      BY <2>1, <2>4 DEF Standing, IsLast, Model
    <3>2. ASSUME NEW j \in DOMAIN candidates[r]
          PROVE  \E i \in DOMAIN log[r] : log[r][i].model = candidates[r][j]
      <4>1. CASE j = index[r]
        BY <2>3, <3>1, <4>1
      <4>2. CASE j \in 1..(index[r] - 1)
        BY <2>1, <4>2 DEF History, Account
      <4> QED
        BY <2>2, <3>1, <4>1, <4>2
    <3>3. ASSUME NEW i \in DOMAIN log[r]
          PROVE  \E j \in DOMAIN candidates[r] : log[r][i].model = candidates[r][j]
      BY <2>1, <2>2, <3>1 DEF History, Account
    <3> QED
      BY <3>2, <3>3 DEF ToSet
  <2> QED
    BY <2>1, <2>4 DEF Standing, Last
<1> QED
  BY <1>1, ExecutionInvariant, PTL

\* The observer's counters, bumped by all requests in any order, agree with the
\* records the requests return.
THEOREM CountersAgree == Spec => []MetricsAddUp
<1>1. MetricsInv => MetricsAddUp
  BY DEF MetricsInv
<1> QED
  BY <1>1, ExecutionInvariant, PTL

=============================================================================
