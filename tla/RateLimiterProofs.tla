------------------------- MODULE RateLimiterProofs -------------------------
(***************************************************************************)
(* Proofs about RateLimiter, for any threads, clients, limit and window:   *)
(* how often a client gets through, and that nobody is refused for         *)
(* nothing.                                                                *)
(***************************************************************************)
EXTENDS RateLimiter, CollectionLemmas

----------------------------------------------------------------------------
(* The inductive invariant *)

\* A thread calls a limiter only once there is one, and counts in one that
\* exists.
LimiterIsThere ==
  \A t \in Threads :
    /\ thread[t].pc \in {"calling", "loaded", "timed"} => current # 0
    /\ thread[t].pc \in {"loaded", "timed"} => thread[t].limiter # 0

\* Limiters are made only by threads that came before the first was in place,
\* one each.
Creators == {t \in Threads : thread[t].pc = "creating"}
CreatorsAreFirstComers ==
  /\ current = 0 => windows = <<>>
  /\ Len(windows) + Cardinality(Creators) <= Cardinality(Threads)

\* Admissions take effect in the order of the clock.
InOrder ==
  /\ \A i \in DOMAIN admitted : admitted[i].at <= clock
  /\ \A i, j \in DOMAIN admitted : i <= j => admitted[i].at <= admitted[j].at

\* The timestamps of a client in a limiter are those of admissions, one each and
\* in their order, and younger by no more than the lag; an admission without a
\* timestamp any more is one from before the window.
AdmissionsTo(c, l) ==
  {i \in DOMAIN admitted : admitted[i].client = c /\ admitted[i].limiter = l}
StandFor(times, admission, c, l) ==
  /\ \A k \in DOMAIN times : times[k] <= admitted[admission[k]].at
                          /\ admitted[admission[k]].at <= times[k] + lag
  /\ \A j, k \in DOMAIN times : j < k => admission[j] < admission[k]
  /\ \A i \in AdmissionsTo(c, l) :
       \/ \E k \in DOMAIN times : i = admission[k]
       \/ admitted[i].at + Window <= clock + lag
TimestampsStandForAdmissions ==
  \A l \in DOMAIN windows, c \in Clients :
    \E admission \in [DOMAIN windows[l][c] -> AdmissionsTo(c, l)] :
      StandFor(windows[l][c], admission, c, l)

LimiterInv ==
  /\ TypeOK /\ LimiterIsThere /\ CreatorsAreFirstComers /\ InOrder
  /\ TimestampsStandForAdmissions /\ WindowHonouredUpToLag

----------------------------------------------------------------------------
(* The window *)

\* Pruning drops a prefix of timestamps that are past the window, up to the
\* first one that is not.
LEMMA PrunedFacts ==
  ASSUME NEW times \in Seq(Nat), NEW now \in Nat
  PROVE  \E n \in 0..Len(times) :
           /\ Pruned(times, now) = SubSeq(times, n + 1, Len(times))
           /\ \A k \in 1..n : times[k] <= now - Window
           /\ n < Len(times) => times[n + 1] > now - Window
<1> DEFINE I == {i \in 1..Len(times) : ~(times[i] <= now - Window)}
           first == IF I # {} THEN Min(I) ELSE 0
<1>1. Pruned(times, now) = IF first = 0 THEN <<>> ELSE SubSeq(times, first, Len(times))
  BY DEF Pruned, DropOld, SelectInSeq
<1>2. I # {} => Min(I) \in I /\ \A y \in I : Min(I) <= y
  <2>1. I \in SUBSET Nat
    OBVIOUS
  <2> HIDE DEF I
  <2> QED
    BY <2>1, MinOfNaturals
<1>3. Len(times) \in Nat /\ \A i \in 1..Len(times) : times[i] \in Nat
  BY ElementOfSeq, LenProperties
<1>4. \A i \in 1..Len(times) : i \in I <=> ~(times[i] <= now - Window)
  OBVIOUS
<1>5. I \subseteq 1..Len(times)
  OBVIOUS
<1>6. first = IF I # {} THEN Min(I) ELSE 0
  OBVIOUS
<1>7. Window \in Nat
  BY LimiterAssumption
<1> HIDE DEF I, first
<1>8. CASE I = {}
  <2>1. SubSeq(times, Len(times) + 1, Len(times)) = <<>>
    BY <1>3, SubSeqEmpty
  <2>2. Pruned(times, now) = SubSeq(times, Len(times) + 1, Len(times))
    BY <1>1, <1>6, <1>8, <2>1
  <2>3. \A k \in 1..Len(times) : times[k] <= now - Window
    BY <1>4, <1>8
  <2>4. Len(times) \in 0..Len(times)
    BY <1>3
  <2> QED
    BY <2>2, <2>3, <2>4
<1>9. CASE I # {}
  <2>1. first \in I /\ \A y \in I : first <= y
    BY <1>2, <1>6, <1>9
  <2>2. first \in 1..Len(times) /\ ~(times[first] <= now - Window)
    BY <1>4, <1>5, <2>1
  <2>3. ASSUME NEW k \in 1..(first - 1) PROVE times[k] <= now - Window
    <3>1. k \in 1..Len(times) /\ ~(first <= k)
      BY <1>3, <2>2
    <3> QED
      BY <1>4, <2>1, <3>1
  <2>4. times[first] > now - Window
    BY <1>3, <1>7, <2>2
  <2>5. Pruned(times, now) = SubSeq(times, first, Len(times))
    BY <1>1, <2>2
  <2>6. first - 1 \in 0..Len(times) /\ (first - 1) + 1 = first
    BY <1>3, <2>2
  <2> QED
    BY <2>3, <2>4, <2>5, <2>6
<1> QED
  BY <1>8, <1>9

\* What is left is a sequence of timestamps, no longer than before.
LEMMA SuffixFacts ==
  ASSUME NEW S, NEW times \in Seq(S), NEW n \in 0..Len(times)
  PROVE  LET rest == SubSeq(times, n + 1, Len(times))
         IN  /\ rest \in Seq(S)
             /\ Len(rest) = Len(times) - n
             /\ \A k \in 1..(Len(times) - n) : rest[k] = times[k + n]
<1>1. Len(times) \in Nat /\ \A i \in 1..Len(times) : times[i] \in S
  BY ElementOfSeq, LenProperties
<1>2. \A i \in (n + 1)..Len(times) : times[i] \in S
  BY <1>1
<1>3. n + 1 \in Int /\ Len(times) \in Int
  BY <1>1
<1> DEFINE rest == SubSeq(times, n + 1, Len(times))
<1>4. /\ rest \in Seq(S)
      /\ Len(rest) = IF n + 1 <= Len(times) THEN Len(times) - (n + 1) + 1 ELSE 0
      /\ \A i \in 1..(Len(times) - (n + 1) + 1) : rest[i] = times[(n + 1) + i - 1]
  BY <1>2, <1>3, SubSeqProperties
<1> HIDE DEF rest
<1>5. Len(rest) = Len(times) - n
  BY <1>1, <1>4
<1>6. \A k \in 1..(Len(times) - n) : rest[k] = times[k + n]
  BY <1>1, <1>4
<1> QED
  BY <1>4, <1>5, <1>6 DEF rest

----------------------------------------------------------------------------
(* Types *)

\* At the start no limiter exists and nobody was admitted.
LEMMA InitInv == Init => LimiterInv
<1> SUFFICES ASSUME Init PROVE LimiterInv
  OBVIOUS
<1>1. TypeOK
  BY LimiterAssumption DEF Init, TypeOK, Times, Idle
<1>2. LimiterIsThere
  BY DEF Init, LimiterIsThere, Idle
<1>3. CreatorsAreFirstComers
  <2>1. Creators = {}
    BY DEF Init, Creators, Idle
  <2>2. Cardinality(Threads) \in Nat
    BY LimiterAssumption, FS_CardinalityType
  <2> QED
    BY <2>1, <2>2, FS_EmptySet DEF Init, CreatorsAreFirstComers
<1>4. InOrder /\ TimestampsStandForAdmissions /\ WindowHonouredUpToLag
  BY DEF Init, InOrder, TimestampsStandForAdmissions, WindowHonouredUpToLag
<1> QED
  BY <1>1, <1>2, <1>3, <1>4 DEF LimiterInv

\* The history is as it was.
LEMMA HistoryUnmoved ==
  ASSUME LimiterInv, UNCHANGED <<clock, windows, admitted, lag>>
  PROVE  InOrder' /\ TimestampsStandForAdmissions' /\ WindowHonouredUpToLag'
<1>1. InOrder'
  BY DEF LimiterInv, InOrder
<1>2. TimestampsStandForAdmissions'
  BY DEF LimiterInv, TimestampsStandForAdmissions, StandFor, AdmissionsTo
<1>3. WindowHonouredUpToLag'
  BY DEF LimiterInv, WindowHonouredUpToLag, Admissions, Times
<1> QED
  BY <1>1, <1>2, <1>3

\* What a handler thread can be.
Handlers(limiters, times) ==
  [pc : {"creating", "calling", "loaded", "timed"}, client : Clients,
   limiter : limiters, time : times]

\* A thread moves on: nothing else changes.
LEMMA MoveInv ==
  ASSUME LimiterInv, NEW t \in Threads, NEW request \in Handlers(0..Len(windows), Times),
         arrivals' \in Nat, Moves(t, request),
         request.pc \in {"calling", "loaded", "timed"} => current # 0,
         request.pc \in {"loaded", "timed"} => request.limiter # 0,
         request.pc = "creating" => current = 0,
         UNCHANGED <<clock, current, windows, admitted, lag>>
  PROVE  LimiterInv'
<1>1. TypeOK'
  BY DEF LimiterInv, TypeOK, Times, Moves, Handlers
<1>2. \A u \in Threads : thread'[u] = IF u = t THEN request ELSE thread[u]
  BY DEF LimiterInv, TypeOK, Moves
<1>3. LimiterIsThere'
  BY <1>2 DEF LimiterInv, LimiterIsThere
<1>4. CreatorsAreFirstComers'
  <2>1. IsFiniteSet(Threads) /\ Creators \subseteq Threads /\ Creators' \subseteq Threads
    BY LimiterAssumption DEF Creators
  <2>2. /\ Cardinality(Creators) \in Nat /\ Cardinality(Creators') \in Nat
        /\ Cardinality(Threads) \in Nat /\ Cardinality(Creators') <= Cardinality(Threads)
    BY <2>1, FS_Subset, FS_CardinalityType
  <2>3. CASE request.pc = "creating"
    <3>1. windows' = <<>> /\ current' = 0
      BY <2>3 DEF LimiterInv, CreatorsAreFirstComers
    <3>2. Len(windows') = 0
      BY <3>1
    <3> QED
      BY <2>2, <3>1, <3>2 DEF CreatorsAreFirstComers
  <2>4. CASE request.pc # "creating"
    <3>1. Creators' \subseteq Creators
      BY <1>2, <2>4 DEF Creators
    <3>2. IsFiniteSet(Creators)
      BY <2>1, FS_Subset
    <3>3. Cardinality(Creators') <= Cardinality(Creators)
      BY <3>1, <3>2, FS_Subset
    <3>4. Len(windows) \in Nat
      BY LenProperties DEF LimiterInv, TypeOK
    <3> QED
      BY <2>2, <3>3, <3>4 DEF LimiterInv, CreatorsAreFirstComers
  <2> QED
    BY <2>3, <2>4
<1> QED
  BY <1>1, <1>3, <1>4, HistoryUnmoved DEF LimiterInv

LEMMA ArriveInv == ASSUME LimiterInv, NEW t \in Threads, Arrive(t) PROVE LimiterInv'
<1>1. PICK c \in Clients :
        Moves(t, Request(IF current = 0 THEN "creating" ELSE "calling", c, 0, 0))
  BY DEF Arrive
<1> DEFINE request == Request(IF current = 0 THEN "creating" ELSE "calling", c, 0, 0)
<1>2. Len(windows) \in Nat /\ clock \in Nat /\ arrivals \in Nat
  BY LenProperties DEF LimiterInv, TypeOK
<1>3. request \in Handlers(0..Len(windows), Times)
  BY <1>2 DEF Request, Handlers, Times
<1>4. /\ request.pc = IF current = 0 THEN "creating" ELSE "calling"
  BY DEF Request
<1>5. UNCHANGED <<clock, current, windows, admitted, lag>> /\ arrivals' = arrivals + 1
  BY DEF Arrive
<1> HIDE DEF request
<1> QED
  BY <1>1, <1>2, <1>3, <1>4, <1>5, MoveInv DEF request

\* Whoever is busy holds a request.
LEMMA BusyThread ==
  ASSUME LimiterInv, NEW t \in Threads, thread[t].pc # "idle"
  PROVE  /\ thread[t] \in Handlers(0..Len(windows), Times)
         /\ Len(windows) \in Nat /\ clock \in Nat /\ arrivals \in Nat
         /\ current \in 0..Len(windows)
<1>1. Len(windows) \in Nat
  BY LenProperties DEF LimiterInv, TypeOK
<1> QED
  BY <1>1 DEF LimiterInv, TypeOK, Idle, Handlers

LEMMA LoadInv == ASSUME LimiterInv, NEW t \in Threads, Load(t) PROVE LimiterInv'
<1> DEFINE request == [thread[t] EXCEPT !.pc = "loaded", !.limiter = current]
<1>1. thread[t] \in Handlers(0..Len(windows), Times) /\ current \in 0..Len(windows)
      /\ arrivals \in Nat
  BY BusyThread DEF Load
<1>2. request \in Handlers(0..Len(windows), Times)
  BY <1>1 DEF Handlers
<1>3. request.pc = "loaded" /\ request.limiter = current
  BY <1>1 DEF Handlers
<1>4. current # 0
  BY DEF Load, LimiterInv, LimiterIsThere
<1>5. Moves(t, request) /\ UNCHANGED <<clock, current, windows, arrivals, admitted, lag>>
  BY DEF Load
<1> HIDE DEF request
<1> QED
  BY <1>1, <1>2, <1>3, <1>4, <1>5, MoveInv

LEMMA ReadClockInv == ASSUME LimiterInv, NEW t \in Threads, ReadClock(t) PROVE LimiterInv'
<1> DEFINE request == [thread[t] EXCEPT !.pc = "timed", !.time = clock]
<1>1. thread[t] \in Handlers(0..Len(windows), Times) /\ clock \in Nat /\ arrivals \in Nat
  BY BusyThread DEF ReadClock
<1>2. request \in Handlers(0..Len(windows), Times)
  <2>1. clock \in Times
    BY <1>1 DEF Times
  <2> QED
    BY <1>1, <2>1 DEF Handlers
<1>3. request.pc = "timed" /\ request.limiter = thread[t].limiter
  BY <1>1 DEF Handlers
<1>4. current # 0 /\ thread[t].limiter # 0
  BY DEF ReadClock, LimiterInv, LimiterIsThere
<1>5. Moves(t, request) /\ UNCHANGED <<clock, current, windows, arrivals, admitted, lag>>
  BY DEF ReadClock
<1> HIDE DEF request
<1> QED
  BY <1>1, <1>2, <1>3, <1>4, <1>5, MoveInv

\* A new limiter has admitted nobody yet.
LEMMA CreateInv == ASSUME LimiterInv, NEW t \in Threads, Create(t) PROVE LimiterInv'
<1> DEFINE empty == [c \in Clients |-> <<>>]
           request == [thread[t] EXCEPT !.pc = "calling"]
           n == Len(windows)
<1>1. /\ thread[t] \in Handlers(0..n, Times) /\ n \in Nat /\ arrivals \in Nat
      /\ thread[t].pc = "creating"
  BY BusyThread DEF Create
<1>2. /\ windows' = Append(windows, empty) /\ current' = n + 1
      /\ thread' = [thread EXCEPT ![t] = request]
      /\ UNCHANGED <<clock, arrivals, admitted, lag>>
  BY DEF Create, Moves
<1>3. /\ clock \in Nat /\ lag \in Nat
      /\ windows \in Seq([Clients -> Seq(Times)])
      /\ \A l \in DOMAIN windows, c \in Clients : Len(windows[l][c]) <= Limit
      /\ DOMAIN windows = 1..n
      /\ admitted \in Seq([client : Clients, limiter : 1..n, at : Times])
  BY LenProperties DEF LimiterInv, TypeOK
<1>4. empty \in [Clients -> Seq(Times)] /\ \A c \in Clients : empty[c] = <<>>
  BY EmptySeq
<1> HIDE DEF empty, n
<1>5. /\ windows' \in Seq([Clients -> Seq(Times)])
      /\ Len(windows') = n + 1 /\ DOMAIN windows' = 1..(n + 1)
      /\ \A l \in 1..n : windows'[l] = windows[l]
      /\ windows'[n + 1] = empty
  BY <1>1, <1>2, <1>3, <1>4, AppendProperties, LenProperties DEF n
<1>6. /\ admitted \in Seq([client : Clients, limiter : 1..(n + 1), at : Times])
      /\ \A i \in DOMAIN admitted : admitted[i].limiter \in 1..n
  <2>1. [client : Clients, limiter : 1..n, at : Times]
          \subseteq [client : Clients, limiter : 1..(n + 1), at : Times]
    BY <1>1
  <2>2. \A i \in DOMAIN admitted : admitted[i] \in [client : Clients, limiter : 1..n, at : Times]
    BY <1>3, ElementOfSeq, LenProperties
  <2> QED
    BY <1>3, <2>1, <2>2, SeqMonotonic
<1>7. request \in Handlers(0..(n + 1), Times)
  BY <1>1 DEF Handlers
<1>8. \A u \in Threads : thread'[u] = IF u = t THEN request ELSE thread[u]
  BY <1>2 DEF LimiterInv, TypeOK
<1>9. request.pc = "calling" /\ request.limiter = thread[t].limiter
  BY <1>1 DEF Handlers
<1>10. TypeOK'
  <2>1. Times' = Times
    BY <1>2 DEF Times
  <2>2. \A l \in 1..(n + 1), c \in Clients : Len(windows'[l][c]) <= Limit
    <3>1. \A c \in Clients : Len(empty[c]) = 0
      BY <1>4, EmptySeq
    <3>2. Limit \in Nat
      BY LimiterAssumption
    <3> SUFFICES ASSUME NEW l \in 1..(n + 1), NEW c \in Clients
                 PROVE  Len(windows'[l][c]) <= Limit
      OBVIOUS
    <3>3. CASE l = n + 1
      <4>1. Len(windows'[l][c]) = 0
        BY <1>5, <3>1, <3>3
      <4> QED
        BY <3>2, <4>1
    <3>4. CASE l \in 1..n
      <4>1. windows'[l] = windows[l] /\ l \in DOMAIN windows
        BY <1>3, <1>5, <3>4
      <4> QED
        BY <1>3, <4>1
    <3> QED
      BY <1>1, <3>3, <3>4
  <2>3. thread \in [Threads -> {Idle} \cup Handlers(0..n, Times)]
    BY DEF LimiterInv, TypeOK, Handlers, n
  <2>4. Handlers(0..n, Times) \subseteq Handlers(0..(n + 1), Times)
    BY <1>1 DEF Handlers
  <2>5. thread' \in [Threads -> {Idle} \cup Handlers(0..(n + 1), Times)]
    BY <1>2, <1>7, <2>3, <2>4
  <2>6. current' \in 0..(n + 1)
    BY <1>1, <1>2
  <2>7. clock' \in Nat /\ arrivals' \in Nat /\ lag' \in Nat
    BY <1>1, <1>2, <1>3
  <2> QED
    BY <1>2, <1>5, <1>6, <2>1, <2>2, <2>5, <2>6, <2>7 DEF TypeOK, Handlers
<1>11. LimiterIsThere'
  <2>1. current' # 0
    BY <1>1, <1>2
  <2> QED
    BY <1>8, <1>9, <2>1 DEF LimiterInv, LimiterIsThere
<1>12. CreatorsAreFirstComers'
  <2>1. Creators' = Creators \ {t} /\ t \in Creators
    BY <1>1, <1>8, <1>9 DEF Creators
  <2>2. IsFiniteSet(Creators) /\ IsFiniteSet(Threads)
    BY LimiterAssumption, FS_Subset DEF Creators
  <2>3. /\ Cardinality(Creators') = Cardinality(Creators) - 1
        /\ Cardinality(Creators) \in Nat /\ Cardinality(Threads) \in Nat
    BY <2>1, <2>2, FS_RemoveElement, FS_CardinalityType
  <2>4. n + Cardinality(Creators) <= Cardinality(Threads)
    BY DEF LimiterInv, CreatorsAreFirstComers, n
  <2> QED
    BY <1>1, <1>2, <1>5, <2>3, <2>4 DEF CreatorsAreFirstComers
<1>13. InOrder'
  BY <1>2 DEF LimiterInv, InOrder
<1> DEFINE history == <<clock, admitted, lag>>
<1>14. history' = history
  BY <1>2
<1>15. DOMAIN windows' = 1..(n + 1)
  BY <1>5
<1>16. TimestampsStandForAdmissions'
  <2> SUFFICES ASSUME NEW l \in 1..(n + 1), NEW c \in Clients
               PROVE  (\E admission \in [DOMAIN windows[l][c] -> AdmissionsTo(c, l)] :
                         StandFor(windows[l][c], admission, c, l))'
    BY <1>15 DEF TimestampsStandForAdmissions
  <2>0. AdmissionsTo(c, l)' = AdmissionsTo(c, l)
    BY <1>14 DEF AdmissionsTo
  <2>1. CASE l \in 1..n
    <3>1. PICK admission \in [DOMAIN windows[l][c] -> AdmissionsTo(c, l)] :
            StandFor(windows[l][c], admission, c, l)
      BY <1>3, <2>1 DEF LimiterInv, TimestampsStandForAdmissions
    <3>2. windows'[l][c] = windows[l][c]
      BY <1>5, <2>1
    <3>3. StandFor(windows[l][c], admission, c, l)'
      BY <1>14, <2>0, <3>1, <3>2 DEF StandFor
    <3> QED
      BY <2>0, <3>1, <3>2, <3>3
  <2>2. CASE l = n + 1
    <3>1. windows'[l][c] = <<>>
      BY <1>4, <1>5, <2>2
    <3>2. AdmissionsTo(c, l) = {}
      BY <1>1, <1>6, <2>2 DEF AdmissionsTo
    <3>3. <<>> \in [{} -> AdmissionsTo(c, l)] /\ DOMAIN <<>> = {}
      OBVIOUS
    <3>4. StandFor(windows[l][c], <<>>, c, l)'
      BY <2>0, <3>1, <3>2, <3>3 DEF StandFor
    <3> QED
      BY <2>0, <3>1, <3>3, <3>4
  <2> QED
    BY <1>1, <2>1, <2>2
<1>17. WindowHonouredUpToLag'
  <2> SUFFICES ASSUME NEW c \in Clients, NEW l \in 1..(n + 1), NEW from \in Times
               PROVE  Cardinality(Admissions(c, l, from, from + Window - lag)) <= Limit
    <3>1. Times' = Times
      BY <1>14 DEF Times
    <3>2. \A c \in Clients, l \in 1..(n + 1), from \in Times :
            Admissions(c, l, from, from + Window - lag)'
              = Admissions(c, l, from, from + Window - lag)
      BY <1>14 DEF Admissions
    <3> QED
      BY <1>15, <3>1, <3>2 DEF WindowHonouredUpToLag
  <2>1. CASE l \in 1..n
    BY <1>3, <2>1 DEF LimiterInv, WindowHonouredUpToLag
  <2>2. CASE l = n + 1
    <3>1. Admissions(c, l, from, from + Window - lag) = {}
      BY <1>1, <1>6, <2>2 DEF Admissions
    <3> QED
      BY <3>1, FS_EmptySet, LimiterAssumption
  <2> QED
    BY <1>1, <2>1, <2>2
<1> QED
  BY <1>10, <1>11, <1>12, <1>13, <1>16, <1>17 DEF LimiterInv

\* With the clock only the windows that are over move on.
LEMMA TickInv == ASSUME LimiterInv, Tick PROVE LimiterInv'
<1>1. /\ clock' = clock + 1
      /\ UNCHANGED <<current, windows, thread, arrivals, admitted, lag>>
  BY DEF Tick
<1>2. /\ clock \in Nat /\ lag \in Nat /\ Window \in Nat
      /\ Times \subseteq Times' /\ Times' = Times \cup {clock + 1}
  BY <1>1, LimiterAssumption DEF LimiterInv, TypeOK, Times
<1>3. TypeOK'
  <2>1. windows' \in Seq([Clients -> Seq(Times')])
    <3>1. Seq(Times) \subseteq Seq(Times')
      BY <1>2, SeqMonotonic
    <3>2. [Clients -> Seq(Times)] \subseteq [Clients -> Seq(Times')]
      BY <3>1
    <3> QED
      BY <1>1, <3>2, SeqMonotonic DEF LimiterInv, TypeOK
  <2>2. admitted' \in Seq([client : Clients, limiter : DOMAIN windows, at : Times'])
    <3>1. [client : Clients, limiter : DOMAIN windows, at : Times]
            \subseteq [client : Clients, limiter : DOMAIN windows, at : Times']
      BY <1>2
    <3> QED
      BY <1>1, <3>1, SeqMonotonic DEF LimiterInv, TypeOK
  <2>3. thread' \in [Threads -> {Idle} \cup Handlers(0..Len(windows), Times')]
    <3>1. Handlers(0..Len(windows), Times) \subseteq Handlers(0..Len(windows), Times')
      BY <1>2 DEF Handlers
    <3>2. thread \in [Threads -> {Idle} \cup Handlers(0..Len(windows), Times)]
      BY DEF LimiterInv, TypeOK, Handlers
    <3> QED
      BY <1>1, <3>1, <3>2
  <2> QED
    BY <1>1, <1>2, <2>1, <2>2, <2>3 DEF LimiterInv, TypeOK, Handlers
<1>4. LimiterIsThere' /\ CreatorsAreFirstComers'
  BY <1>1 DEF LimiterInv, LimiterIsThere, CreatorsAreFirstComers, Creators
<1>5. \A i \in DOMAIN admitted : admitted[i].at \in Times /\ admitted[i].at \in Nat
  <2>1. \A i \in DOMAIN admitted :
          admitted[i] \in [client : Clients, limiter : DOMAIN windows, at : Times]
    BY ElementOfSeq, LenProperties DEF LimiterInv, TypeOK
  <2> QED
    BY <1>2, <2>1 DEF Times
<1>6. InOrder'
  BY <1>1, <1>2, <1>5 DEF LimiterInv, InOrder
<1>7. TimestampsStandForAdmissions'
  <2> SUFFICES ASSUME NEW l \in DOMAIN windows, NEW c \in Clients
               PROVE  \E admission \in [DOMAIN windows[l][c] -> AdmissionsTo(c, l)] :
                        StandFor(windows[l][c], admission, c, l)'
    BY <1>1 DEF TimestampsStandForAdmissions, AdmissionsTo
  <2>1. PICK admission \in [DOMAIN windows[l][c] -> AdmissionsTo(c, l)] :
          StandFor(windows[l][c], admission, c, l)
    BY DEF LimiterInv, TimestampsStandForAdmissions
  <2>2. \A i \in AdmissionsTo(c, l) :
          admitted[i].at + Window <= clock + lag => admitted[i].at + Window <= clock + 1 + lag
    BY <1>2, <1>5 DEF AdmissionsTo
  <2>3. StandFor(windows[l][c], admission, c, l)'
    BY <1>1, <2>1, <2>2 DEF StandFor, AdmissionsTo
  <2> QED
    BY <2>1, <2>3
<1>8. WindowHonouredUpToLag'
  <2> SUFFICES ASSUME NEW c \in Clients, NEW l \in DOMAIN windows, NEW from \in Times'
               PROVE  Cardinality(Admissions(c, l, from, from + Window - lag)) <= Limit
    BY <1>1 DEF WindowHonouredUpToLag, Admissions
  <2>1. CASE from \in Times
    BY <2>1 DEF LimiterInv, WindowHonouredUpToLag
  <2>2. CASE from = clock + 1
    <3>1. Admissions(c, l, from, from + Window - lag) = {}
      <4>1. \A i \in DOMAIN admitted : ~(from <= admitted[i].at)
        BY <1>2, <1>5, <2>2 DEF LimiterInv, InOrder
      <4> QED
        BY <4>1 DEF Admissions
    <3> QED
      BY <3>1, FS_EmptySet, LimiterAssumption
  <2> QED
    BY <1>2, <2>1, <2>2
<1> QED
  BY <1>3, <1>4, <1>6, <1>7, <1>8 DEF LimiterInv

----------------------------------------------------------------------------
(* The critical section *)

\* Every admission has its client, its limiter and its time.
LEMMA HistoryFacts ==
  ASSUME LimiterInv
  PROVE  /\ DOMAIN admitted = 1..Len(admitted) /\ Len(admitted) \in Nat
         /\ \A i \in DOMAIN admitted : admitted[i].at \in Nat /\ admitted[i].at <= clock
         /\ clock \in Nat /\ lag \in Nat /\ Window \in Nat /\ Limit \in Nat
<1>1. DOMAIN admitted = 1..Len(admitted) /\ Len(admitted) \in Nat
  BY LenProperties DEF LimiterInv, TypeOK
<1>2. \A i \in DOMAIN admitted :
        admitted[i] \in [client : Clients, limiter : DOMAIN windows, at : Times]
  BY <1>1, ElementOfSeq DEF LimiterInv, TypeOK
<1>3. \A i \in DOMAIN admitted : admitted[i].at \in 0..clock
  BY <1>2 DEF Times
<1> QED
  BY <1>1, <1>3, LimiterAssumption DEF LimiterInv, TypeOK

\* What a request finds once it has pruned: timestamps of the limit at most, the
\* first of them in its window, that still stand for all the admissions there are
\* since the window began.
LEMMA AfterPruning ==
  ASSUME LimiterInv, NEW t \in Threads, thread[t].pc = "timed"
  PROVE  LET c == thread[t].client
             l == thread[t].limiter
             now == thread[t].time
             times == Pruned(windows[l][c], now)
         IN  /\ c \in Clients /\ l \in DOMAIN windows /\ now \in Nat /\ now <= clock
             /\ times \in Seq(Times)
             /\ Len(times) \in Nat /\ Len(times) <= Limit /\ DOMAIN times = 1..Len(times)
             /\ Len(times) > 0 => times[1] > now - Window
             /\ \E admission \in [DOMAIN times -> AdmissionsTo(c, l)] :
                  StandFor(times, admission, c, l)
<1> DEFINE c == thread[t].client
           l == thread[t].limiter
           now == thread[t].time
           old == windows[l][c]
           times == Pruned(old, now)
<1>1. /\ c \in Clients /\ l \in DOMAIN windows /\ now \in Nat /\ now <= clock
  <2>1. thread[t] \in Handlers(0..Len(windows), Times) /\ clock \in Nat /\ Len(windows) \in Nat
    BY BusyThread
  <2>2. thread[t].limiter # 0
    BY DEF LimiterInv, LimiterIsThere
  <2>3. DOMAIN windows = 1..Len(windows)
    BY LenProperties DEF LimiterInv, TypeOK
  <2>4. now \in 0..clock /\ c \in Clients /\ l \in 0..Len(windows)
    BY <2>1 DEF Handlers, Times
  <2> QED
    BY <2>1, <2>2, <2>3, <2>4
<1>2. /\ old \in Seq(Times) /\ Len(old) <= Limit
  <2>1. windows[l] \in [Clients -> Seq(Times)]
    BY <1>1, ElementOfSeq, LenProperties DEF LimiterInv, TypeOK
  <2> QED
    BY <1>1, <2>1 DEF LimiterInv, TypeOK
<1>3. PICK admission \in [DOMAIN old -> AdmissionsTo(c, l)] : StandFor(old, admission, c, l)
  BY <1>1 DEF LimiterInv, TimestampsStandForAdmissions
<1> HIDE DEF c, l, now, old
<1>4. /\ Len(old) \in Nat /\ DOMAIN old = 1..Len(old) /\ old \in Seq(Nat)
      /\ \A k \in 1..Len(old) : old[k] \in Nat
  <2>1. clock \in Nat
    BY HistoryFacts
  <2>2. Times \subseteq Nat
    BY <2>1 DEF Times
  <2> QED
    BY <1>2, <2>2, SeqMonotonic, LenProperties, ElementOfSeq
<1>5. PICK n \in 0..Len(old) :
        /\ times = SubSeq(old, n + 1, Len(old))
        /\ \A k \in 1..n : old[k] <= now - Window
        /\ n < Len(old) => old[n + 1] > now - Window
  BY <1>1, <1>4, PrunedFacts
<1>6. /\ times \in Seq(Times)
      /\ Len(times) = Len(old) - n
      /\ \A k \in 1..(Len(old) - n) : times[k] = old[k + n]
  BY <1>2, <1>5, SuffixFacts
<1>7. DOMAIN times = 1..Len(times)
  BY <1>6, LenProperties
<1> HIDE DEF times
<1>8. Len(times) \in Nat /\ Len(times) <= Limit
  BY <1>2, <1>4, <1>6, LimiterAssumption
<1>9. Len(times) > 0 => times[1] > now - Window
  BY <1>4, <1>5, <1>6
<1> DEFINE kept == [k \in DOMAIN times |-> admission[k + n]]
<1>10. \A k \in DOMAIN times : k + n \in DOMAIN old /\ kept[k] = admission[k + n]
                                /\ times[k] = old[k + n] /\ k \in Nat
  BY <1>4, <1>6, <1>7
<1>11. kept \in [DOMAIN times -> AdmissionsTo(c, l)]
  BY <1>3, <1>10
<1>12. StandFor(times, kept, c, l)
  <2>1. \A k \in DOMAIN times : /\ times[k] <= admitted[kept[k]].at
                                /\ admitted[kept[k]].at <= times[k] + lag
    BY <1>3, <1>10 DEF StandFor
  <2>2. \A j, k \in DOMAIN times : j < k => kept[j] < kept[k]
    BY <1>3, <1>10 DEF StandFor
  <2>3. ASSUME NEW i \in AdmissionsTo(c, l)
        PROVE  \/ \E k \in DOMAIN times : i = kept[k]
               \/ admitted[i].at + Window <= clock + lag
    <3>1. CASE \E k \in DOMAIN old : i = admission[k]
      <4>1. PICK k \in DOMAIN old : i = admission[k]
        BY <3>1
      <4>2. CASE k <= n
        <5>1. old[k] <= now - Window
          BY <1>4, <1>5, <4>2
        <5>2. admitted[i].at <= old[k] + lag
          BY <1>3, <4>1 DEF StandFor
        <5>3. admitted[i].at \in Nat /\ old[k] \in Nat /\ lag \in Nat /\ Window \in Nat
              /\ clock \in Nat
          BY <1>4, <2>3, HistoryFacts DEF AdmissionsTo
        <5> QED
          BY <1>1, <5>1, <5>2, <5>3
      <4>3. CASE ~(k <= n)
        <5>1. k - n \in DOMAIN times /\ (k - n) + n = k
          BY <1>4, <1>6, <1>7, <4>3
        <5> QED
          BY <1>10, <4>1, <5>1
      <4> QED
        BY <4>2, <4>3
    <3>2. CASE ~\E k \in DOMAIN old : i = admission[k]
      BY <1>3, <3>2 DEF StandFor
    <3> QED
      BY <3>1, <3>2
  <2> HIDE DEF kept
  <2> QED
    BY <2>1, <2>2, <2>3 DEF StandFor
<1>13. \E f \in [DOMAIN times -> AdmissionsTo(c, l)] : StandFor(times, f, c, l)
  <2> HIDE DEF kept
  <2> QED
    BY <1>11, <1>12
<1> QED
  BY <1>1, <1>6, <1>7, <1>8, <1>9, <1>13 DEF c, l, now, old, times

LEMMA CheckInv == ASSUME LimiterInv, NEW t \in Threads, Check(t) PROVE LimiterInv'
<1>1. PICK c \in Clients, l \in DOMAIN windows, now \in Nat :
        c = thread[t].client /\ l = thread[t].limiter /\ now = thread[t].time
  BY AfterPruning DEF Check
<1> DEFINE times == Pruned(windows[l][c], now)
           entry == [client |-> c, limiter |-> l, at |-> clock]
<1>2. /\ c \in Clients /\ l \in DOMAIN windows /\ now \in Nat /\ now <= clock
      /\ times \in Seq(Times)
      /\ Len(times) \in Nat /\ Len(times) <= Limit /\ DOMAIN times = 1..Len(times)
      /\ \E f \in [DOMAIN times -> AdmissionsTo(c, l)] : StandFor(times, f, c, l)
  BY <1>1, AfterPruning DEF Check
<1>3. \/ /\ windows' = [windows EXCEPT ![l][c] = times]
         /\ admitted' = admitted
      \/ /\ ~Full(times)
         /\ windows' = [windows EXCEPT ![l][c] = Append(times, now)]
         /\ admitted' = Append(admitted, entry)
  BY <1>1 DEF Check
<1>4. /\ lag' = IF clock - now > lag THEN clock - now ELSE lag
      /\ thread' = [thread EXCEPT ![t] = Idle]
      /\ UNCHANGED <<clock, current, arrivals>>
  BY <1>1 DEF Check, Moves
<1>5. /\ DOMAIN admitted = 1..Len(admitted) /\ Len(admitted) \in Nat
      /\ \A i \in DOMAIN admitted : admitted[i].at \in Nat /\ admitted[i].at <= clock
      /\ clock \in Nat /\ lag \in Nat /\ Window \in Nat /\ Limit \in Nat
  BY HistoryFacts
<1>6. lag' \in Nat /\ lag <= lag' /\ clock <= now + lag'
  BY <1>2, <1>4, <1>5
<1>7. now \in Times /\ clock \in Times
  BY <1>2, <1>5 DEF Times
<1>8. PICK f \in [DOMAIN times -> AdmissionsTo(c, l)] : StandFor(times, f, c, l)
  BY <1>2
<1> HIDE DEF times
\* The timestamps.
<1>9. PICK queue \in Seq(Times) :
        /\ windows' = [windows EXCEPT ![l][c] = queue]
        /\ Len(queue) <= Limit
        /\ \/ queue = times /\ admitted' = admitted
           \/ /\ queue = Append(times, now) /\ admitted' = Append(admitted, entry)
              /\ Len(times) < Limit
  <2>1. CASE windows' = [windows EXCEPT ![l][c] = times] /\ admitted' = admitted
    BY <1>2, <2>1
  <2>2. CASE /\ ~Full(times)
             /\ windows' = [windows EXCEPT ![l][c] = Append(times, now)]
             /\ admitted' = Append(admitted, entry)
    <3>1. Append(times, now) \in Seq(Times) /\ Len(Append(times, now)) = Len(times) + 1
      BY <1>2, <1>7, AppendProperties
    <3>2. Len(times) < Limit
      BY <1>2, <1>5, <2>2 DEF Full
    <3>3. Len(Append(times, now)) <= Limit
      BY <1>2, <1>5, <3>1, <3>2
    <3> QED
      BY <2>2, <3>1, <3>2, <3>3
  <2> QED
    BY <1>3, <2>1, <2>2
<1>10. /\ DOMAIN windows' = DOMAIN windows /\ Len(windows') = Len(windows)
      /\ windows' \in Seq([Clients -> Seq(Times)])
      /\ \A m \in DOMAIN windows, d \in Clients :
           windows'[m][d] = IF m = l /\ d = c THEN queue ELSE windows[m][d]
  <2>1. /\ windows \in Seq([Clients -> Seq(Times)])
        /\ DOMAIN windows = 1..Len(windows)
        /\ \A m \in DOMAIN windows : windows[m] \in [Clients -> Seq(Times)]
    BY LenProperties, ElementOfSeq DEF LimiterInv, TypeOK
  <2> DEFINE changed == [windows[l] EXCEPT ![c] = queue]
  <2>2. windows' = [windows EXCEPT ![l] = changed]
    BY <1>9
  <2>3. /\ changed \in [Clients -> Seq(Times)]
        /\ \A d \in Clients : changed[d] = IF d = c THEN queue ELSE windows[l][d]
    BY <1>2, <2>1
  <2> HIDE DEF changed
  <2>4. /\ windows' \in Seq([Clients -> Seq(Times)]) /\ Len(windows') = Len(windows)
        /\ \A m \in 1..Len(windows) : windows'[m] = IF m = l THEN changed ELSE windows[m]
    BY <1>2, <2>1, <2>2, <2>3, ExceptSeq
  <2>5. DOMAIN windows' = DOMAIN windows
    BY <2>2
  <2> QED
    BY <2>1, <2>3, <2>4, <2>5
\* The history.
<1>11. /\ admitted' \in Seq([client : Clients, limiter : DOMAIN windows, at : Times])
       /\ DOMAIN admitted \subseteq DOMAIN admitted'
       /\ \A i \in DOMAIN admitted : admitted'[i] = admitted[i]
       /\ \A i \in DOMAIN admitted' : i \in DOMAIN admitted \/
            /\ i = Len(admitted) + 1 /\ admitted'[i] = entry
            /\ queue = Append(times, now) /\ Len(times) < Limit
       /\ queue = times \/ Len(admitted) + 1 \in DOMAIN admitted'
  <2> DEFINE Admission == [client : Clients, limiter : DOMAIN windows, at : Times]
  <2>1. admitted \in Seq(Admission)
    BY DEF LimiterInv, TypeOK
  <2>2. entry \in Admission
    BY <1>2, <1>7
  <2>3. CASE queue = times /\ admitted' = admitted
    BY <2>1, <2>3
  <2>4. CASE /\ queue = Append(times, now) /\ admitted' = Append(admitted, entry)
             /\ Len(times) < Limit
    <3> HIDE DEF entry, Admission
    <3>1. /\ admitted' \in Seq(Admission) /\ Len(admitted') = Len(admitted) + 1
          /\ \A i \in 1..Len(admitted) : admitted'[i] = admitted[i]
          /\ admitted'[Len(admitted) + 1] = entry
      BY <2>1, <2>2, <2>4, AppendProperties
    <3>2. DOMAIN admitted' = 1..(Len(admitted) + 1)
      BY <3>1, LenProperties
    <3>3. \A i \in DOMAIN admitted' : i \in DOMAIN admitted \/ i = Len(admitted) + 1
      BY <1>5, <3>2
    <3>4. /\ DOMAIN admitted \subseteq DOMAIN admitted'
          /\ Len(admitted) + 1 \in DOMAIN admitted'
      BY <1>5, <3>2
    <3> QED
      BY <1>5, <2>4, <3>1, <3>3, <3>4 DEF Admission
  <2> QED
    BY <1>9, <2>3, <2>4
<1>12. entry.client = c /\ entry.limiter = l /\ entry.at = clock
  OBVIOUS
<1> HIDE DEF entry
<1>13. \A u \in Threads : thread'[u] = IF u = t THEN Idle ELSE thread[u]
  BY <1>4 DEF LimiterInv, TypeOK
<1>14. TypeOK'
  <2>1. Times' = Times
    BY <1>4 DEF Times
  <2>2. \A m \in DOMAIN windows, d \in Clients : Len(windows'[m][d]) <= Limit
    BY <1>9, <1>10 DEF LimiterInv, TypeOK
  <2>3. thread' \in [Threads -> {Idle} \cup Handlers(0..Len(windows), Times)]
    <3>1. thread \in [Threads -> {Idle} \cup Handlers(0..Len(windows), Times)]
      BY DEF LimiterInv, TypeOK, Handlers
    <3> QED
      BY <1>4, <3>1
  <2>4. clock' \in Nat /\ arrivals' \in Nat /\ lag' \in Nat /\ current' \in 0..Len(windows)
    BY <1>4, <1>6 DEF LimiterInv, TypeOK
  <2> QED
    BY <1>10, <1>11, <2>1, <2>2, <2>3, <2>4 DEF TypeOK, Handlers
<1>15. LimiterIsThere'
  BY <1>4, <1>13 DEF LimiterInv, LimiterIsThere, Idle
<1>16. CreatorsAreFirstComers'
  <2>1. Creators' = Creators
    BY <1>13 DEF Creators, Check, Idle
  <2>2. current # 0
    BY DEF Check, LimiterInv, LimiterIsThere
  <2> QED
    BY <1>4, <1>10, <2>1, <2>2 DEF LimiterInv, CreatorsAreFirstComers
<1>17. InOrder'
  <2>1. \A i \in DOMAIN admitted' : admitted'[i].at <= clock
    BY <1>5, <1>11, <1>12
  <2>2. ASSUME NEW i \in DOMAIN admitted', NEW j \in DOMAIN admitted', i <= j
        PROVE  admitted'[i].at <= admitted'[j].at
    <3>1. CASE i \in DOMAIN admitted /\ j \in DOMAIN admitted
      BY <1>11, <2>2, <3>1 DEF LimiterInv, InOrder
    <3>2. CASE j \notin DOMAIN admitted
      <4>1. admitted'[j].at = clock
        BY <1>11, <1>12, <3>2
      <4> QED
        BY <2>1, <4>1
    <3>3. CASE i \notin DOMAIN admitted /\ j \in DOMAIN admitted
      <4>1. i = Len(admitted) + 1 /\ j \in 1..Len(admitted)
        BY <1>5, <1>11, <3>3
      <4> QED
        BY <1>5, <2>2, <4>1
    <3> QED
      BY <3>1, <3>2, <3>3
  <2> QED
    BY <1>4, <2>1, <2>2 DEF InOrder
<1>18. TimestampsStandForAdmissions'
  <2> SUFFICES ASSUME NEW m \in DOMAIN windows, NEW d \in Clients
               PROVE  (\E admission \in [DOMAIN windows[m][d] -> AdmissionsTo(d, m)] :
                         StandFor(windows[m][d], admission, d, m))'
    BY <1>10 DEF TimestampsStandForAdmissions
  \* As long as it admits nobody more, a limiter with the timestamps it had, or
  \* with fewer, keeps its promise.
  <2>1. ASSUME NEW seq \in Seq(Times), NEW g \in [DOMAIN seq -> AdmissionsTo(d, m)],
               StandFor(seq, g, d, m), windows'[m][d] = seq,
               AdmissionsTo(d, m)' = AdmissionsTo(d, m)
        PROVE  (\E admission \in [DOMAIN windows[m][d] -> AdmissionsTo(d, m)] :
                  StandFor(windows[m][d], admission, d, m))'
    <3>1. \A k \in DOMAIN seq : /\ g[k] \in DOMAIN admitted /\ seq[k] \in Nat
                                /\ admitted'[g[k]] = admitted[g[k]]
                                /\ admitted[g[k]].at \in Nat
      <4>1. \A k \in DOMAIN seq : seq[k] \in Times
        BY ElementOfSeq, LenProperties
      <4> QED
        BY <1>5, <1>11, <4>1 DEF AdmissionsTo, Times
    <3>2. \A i \in AdmissionsTo(d, m) : i \in DOMAIN admitted /\ admitted'[i] = admitted[i]
                                        /\ admitted[i].at \in Nat
      BY <1>5, <1>11 DEF AdmissionsTo
    <3>3. \A k \in DOMAIN seq : /\ seq[k] <= admitted'[g[k]].at
                                /\ admitted'[g[k]].at <= seq[k] + lag'
      <4> SUFFICES ASSUME NEW k \in DOMAIN seq
                   PROVE  seq[k] <= admitted'[g[k]].at /\ admitted'[g[k]].at <= seq[k] + lag'
        OBVIOUS
      <4>1. seq[k] <= admitted[g[k]].at /\ admitted[g[k]].at <= seq[k] + lag
        BY <2>1 DEF StandFor
      <4> QED
        BY <1>5, <1>6, <3>1, <4>1
    <3>4. \A j, k \in DOMAIN seq : j < k => g[j] < g[k]
      BY <2>1 DEF StandFor
    <3>5. \A i \in AdmissionsTo(d, m) :
            \/ \E k \in DOMAIN seq : i = g[k]
            \/ admitted'[i].at + Window <= clock' + lag'
      <4>1. \A i \in AdmissionsTo(d, m) :
              admitted[i].at + Window <= clock + lag => admitted'[i].at + Window <= clock' + lag'
        BY <1>4, <1>5, <1>6, <3>2
      <4> QED
        BY <2>1, <4>1 DEF StandFor
    <3>6. StandFor(windows[m][d], g, d, m)'
      BY <2>1, <3>3, <3>4, <3>5 DEF StandFor
    <3> QED
      BY <2>1, <3>6
  <2>2. CASE m # l \/ d # c
    <3>1. windows'[m][d] = windows[m][d]
      BY <1>10, <2>2
    <3>2. AdmissionsTo(d, m)' = AdmissionsTo(d, m)
      BY <1>11, <1>12, <2>2 DEF AdmissionsTo
    <3>3. PICK g \in [DOMAIN windows[m][d] -> AdmissionsTo(d, m)] :
            StandFor(windows[m][d], g, d, m)
      BY DEF LimiterInv, TimestampsStandForAdmissions
    <3>4. windows[m][d] \in Seq(Times)
      <4>1. windows[m] \in [Clients -> Seq(Times)]
        BY ElementOfSeq, LenProperties DEF LimiterInv, TypeOK
      <4> QED
        BY <4>1
    <3> QED
      BY <2>1, <3>1, <3>2, <3>3, <3>4
  <2>3. CASE m = l /\ d = c /\ admitted' = admitted
    <3>1. queue = times
      <4>1. Len(admitted) + 1 \notin DOMAIN admitted
        BY <1>5
      <4> QED
        BY <1>11, <2>3, <4>1
    <3>2. AdmissionsTo(d, m)' = AdmissionsTo(d, m)
      BY <2>3 DEF AdmissionsTo
    <3>3. windows'[m][d] = times
      BY <1>10, <2>3, <3>1
    <3> QED
      BY <1>2, <1>8, <2>1, <2>3, <3>2, <3>3
  <2>4. CASE m = l /\ d = c /\ admitted' # admitted
    <3> DEFINE new == Len(admitted) + 1
    <3>0. PICK g :
            g = [k \in 1..(Len(times) + 1) |-> IF k \in DOMAIN times THEN f[k] ELSE new]
      OBVIOUS
    <3>1. queue = Append(times, now) /\ new \in DOMAIN admitted' /\ admitted'[new] = entry
      <4>1. queue = Append(times, now)
        BY <1>9, <2>4
      <4>2. Len(queue) = Len(times) + 1
        BY <1>2, <1>7, <4>1, AppendProperties
      <4>3. queue # times
        BY <1>2, <4>2
      <4>4. new \in DOMAIN admitted' /\ new \notin DOMAIN admitted
        BY <1>5, <1>11, <4>3
      <4> QED
        BY <1>11, <4>1, <4>4
    <3>2. /\ Len(queue) = Len(times) + 1 /\ DOMAIN queue = 1..(Len(times) + 1)
          /\ \A k \in DOMAIN times : queue[k] = times[k]
          /\ queue[Len(times) + 1] = now
      BY <1>2, <1>7, <3>1, AppendProperties, LenProperties
    <3>3. /\ \A i \in AdmissionsTo(c, l) : i \in AdmissionsTo(c, l)'
          /\ \A i \in AdmissionsTo(c, l)' : i \in AdmissionsTo(c, l) \/ i = new
          /\ new \in AdmissionsTo(c, l)'
      <4>1. \A i : i \in AdmissionsTo(c, l) <=>
              i \in DOMAIN admitted /\ admitted[i].client = c /\ admitted[i].limiter = l
        BY DEF AdmissionsTo
      <4>2. \A i : i \in AdmissionsTo(c, l)' <=>
              i \in DOMAIN admitted' /\ admitted'[i].client = c /\ admitted'[i].limiter = l
        BY DEF AdmissionsTo
      <4>3. \A i \in DOMAIN admitted' : i \in DOMAIN admitted \/ i = new
        BY <1>11
      <4>4. \A i \in DOMAIN admitted : i \in DOMAIN admitted' /\ admitted'[i] = admitted[i]
        BY <1>11
      <4>5. admitted'[new].client = c /\ admitted'[new].limiter = l
        BY <1>12, <3>1
      <4>6. \A i \in AdmissionsTo(c, l) : i \in AdmissionsTo(c, l)'
        BY <4>1, <4>2, <4>4
      <4>7. \A i \in AdmissionsTo(c, l)' : i \in AdmissionsTo(c, l) \/ i = new
        BY <4>1, <4>2, <4>3, <4>4
      <4>8. new \in AdmissionsTo(c, l)'
        BY <3>1, <4>2, <4>5
      <4> HIDE DEF new
      <4> QED
        BY <4>6, <4>7, <4>8
    <3>4. \A k \in DOMAIN times : /\ f[k] \in AdmissionsTo(c, l) /\ f[k] \in DOMAIN admitted
                                  /\ admitted'[f[k]] = admitted[f[k]]
                                  /\ admitted[f[k]].at \in Nat
                                  /\ times[k] \in Nat /\ f[k] < new
      <4>1. \A k \in DOMAIN times : times[k] \in Times
        BY <1>2, ElementOfSeq
      <4> QED
        BY <1>5, <1>11, <4>1 DEF AdmissionsTo, Times
    <3>5. /\ \A k \in DOMAIN times : g[k] = f[k]
          /\ g[Len(times) + 1] = new
          /\ DOMAIN g = DOMAIN queue
          /\ \A k \in DOMAIN queue : k \in DOMAIN times \/ k = Len(times) + 1
          /\ DOMAIN times \subseteq DOMAIN queue /\ Len(times) + 1 \in DOMAIN queue
      BY <1>2, <3>0, <3>2
    <3>6. g \in [DOMAIN queue -> AdmissionsTo(c, l)']
      <4>1. \A k \in 1..(Len(times) + 1) : g[k] \in AdmissionsTo(c, l)'
        BY <3>0, <3>3, <3>4
      <4> QED
        BY <3>0, <3>2, <4>1
    <3>7. \A k \in DOMAIN queue : /\ queue[k] <= admitted'[g[k]].at
                                  /\ admitted'[g[k]].at <= queue[k] + lag'
      <4>1. ASSUME NEW k \in DOMAIN times
            PROVE  queue[k] <= admitted'[g[k]].at /\ admitted'[g[k]].at <= queue[k] + lag'
        <5>1. times[k] <= admitted[f[k]].at /\ admitted[f[k]].at <= times[k] + lag
          BY <1>8 DEF StandFor
        <5> QED
          BY <1>5, <1>6, <3>2, <3>4, <3>5, <5>1
      <4>2. admitted'[new].at = clock /\ now <= clock /\ clock <= now + lag'
        BY <1>2, <1>6, <1>12, <3>1
      <4> QED
        BY <3>2, <3>5, <4>1, <4>2
    <3>8. ASSUME NEW j \in DOMAIN queue, NEW k \in DOMAIN queue, j < k PROVE g[j] < g[k]
      <4>1. CASE k \in DOMAIN times
        <5>1. j \in DOMAIN times
          BY <1>2, <3>2, <3>8, <4>1
        <5> QED
          BY <1>8, <3>5, <3>8, <4>1, <5>1 DEF StandFor
      <4>2. CASE k = Len(times) + 1
        <5>1. j \in DOMAIN times
          BY <1>2, <3>2, <3>8, <4>2
        <5> QED
          BY <3>4, <3>5, <4>2, <5>1
      <4> QED
        BY <3>5, <4>1, <4>2
    <3>9. ASSUME NEW i \in AdmissionsTo(c, l)'
          PROVE  \/ \E k \in DOMAIN queue : i = g[k]
                 \/ admitted'[i].at + Window <= clock' + lag'
      <4>1. CASE i = new
        BY <3>5, <4>1
      <4>2. CASE i \in AdmissionsTo(c, l)
        <5>1. CASE \E k \in DOMAIN times : i = f[k]
          BY <3>5, <5>1
        <5>2. CASE admitted[i].at + Window <= clock + lag
          <6>1. admitted'[i] = admitted[i] /\ admitted[i].at \in Nat
            BY <1>5, <1>11, <4>2 DEF AdmissionsTo
          <6> QED
            BY <1>4, <1>5, <1>6, <5>2, <6>1
        <5> QED
          BY <1>8, <4>2, <5>1, <5>2 DEF StandFor
      <4> QED
        BY <3>3, <4>1, <4>2
    <3>10. windows'[m][d] = queue
      BY <1>10, <2>4
    <3>11. AdmissionsTo(d, m)' = AdmissionsTo(c, l)'
      BY <2>4 DEF AdmissionsTo
    <3>12. StandFor(windows[m][d], g, d, m)'
      BY <3>7, <3>8, <3>9, <3>10, <3>11 DEF StandFor
    <3>13. g \in [DOMAIN windows'[m][d] -> AdmissionsTo(d, m)']
      BY <3>6, <3>10, <3>11
    <3> QED
      BY <3>12, <3>13
  <2> QED
    BY <2>2, <2>3, <2>4
<1>19. WindowHonouredUpToLag'
  <2> SUFFICES ASSUME NEW d \in Clients, NEW m \in DOMAIN windows, NEW from \in Times
               PROVE  Cardinality(Admissions(d, m, from, from + Window - lag)') <= Limit
    <3>1. Times' = Times
      BY <1>4 DEF Times
    <3> QED
      BY <1>10, <3>1 DEF WindowHonouredUpToLag
  <2> DEFINE before == Admissions(d, m, from, from + Window - lag)
             after == Admissions(d, m, from, from + Window - lag)'
             new == Len(admitted) + 1
  <2>1. \A i : i \in after <=>
          /\ i \in DOMAIN admitted' /\ admitted'[i].client = d /\ admitted'[i].limiter = m
          /\ from <= admitted'[i].at /\ admitted'[i].at < from + Window - lag'
    BY DEF Admissions
  <2>2. \A i : i \in before <=>
          /\ i \in DOMAIN admitted /\ admitted[i].client = d /\ admitted[i].limiter = m
          /\ from <= admitted[i].at /\ admitted[i].at < from + Window - lag
    BY DEF Admissions
  <2>3. Cardinality(before) <= Limit
    BY DEF LimiterInv, WindowHonouredUpToLag
  <2>4. IsFiniteSet(before)
    <3>1. IsFiniteSet(DOMAIN admitted)
      BY <1>5, FS_Interval
    <3>2. before \in SUBSET DOMAIN admitted
      BY <2>2
    <3> QED
      BY <3>1, <3>2, FS_Subset
  <2>5. from \in Nat
    BY <1>5 DEF Times
  <2> HIDE DEF before, after
  <2>6. ASSUME NEW i \in after, i \in DOMAIN admitted PROVE i \in before
    <3>1. /\ admitted[i].client = d /\ admitted[i].limiter = m
          /\ from <= admitted[i].at /\ admitted[i].at < from + Window - lag'
          /\ admitted[i].at \in Nat
      BY <1>5, <1>11, <2>1, <2>6
    <3>2. admitted[i].at < from + Window - lag
      BY <1>5, <1>6, <2>5, <3>1
    <3> QED
      BY <2>2, <2>6, <3>1, <3>2
  <2>7. CASE after \subseteq before
    <3>1. IsFiniteSet(after) /\ Cardinality(after) <= Cardinality(before)
      BY <2>4, <2>7, FS_Subset
    <3>2. Cardinality(after) \in Nat /\ Cardinality(before) \in Nat
      BY <2>4, <3>1, FS_CardinalityType
    <3> QED
      BY <1>5, <2>3, <3>1, <3>2 DEF after
  <2>8. CASE ~(after \subseteq before)
    <3>1. PICK i \in after : i \notin DOMAIN admitted
      BY <2>6, <2>8
    <3>2. /\ i = new /\ admitted'[i] = entry /\ Len(times) < Limit
          /\ d = c /\ m = l /\ from <= clock /\ clock < from + Window - lag'
      BY <1>11, <1>12, <2>1, <3>1
    <3>3. ASSUME NEW j \in after \ {new}
          PROVE  \E k \in 1..Len(times) : j = f[k]
      <4>1. j \in DOMAIN admitted /\ j \in AdmissionsTo(c, l)
        BY <1>11, <2>1, <3>2 DEF AdmissionsTo
      <4>2. admitted[j].at \in Nat /\ from <= admitted[j].at
        BY <1>5, <1>11, <2>1, <4>1
      <4>3. ~(admitted[j].at + Window <= clock + lag)
        <5> DEFINE at == admitted[j].at
                   later == lag'
        <5>1. at \in Nat /\ from <= at /\ later \in Nat /\ lag <= later
              /\ clock < from + Window - later
          BY <1>6, <3>2, <4>2
        <5> HIDE DEF at, later
        <5>2. ~(at + Window <= clock + lag)
          BY <1>5, <2>5, <5>1
        <5> QED
          BY <5>2 DEF at
      <4> QED
        BY <1>2, <1>8, <4>1, <4>3 DEF StandFor
    <3> DEFINE rest == after \ {new}
    <3>4. \A j \in rest : \E k \in 1..Len(times) : j = f[k]
      BY <3>3
    <3>5. f \in [1..Len(times) -> AdmissionsTo(c, l)]
      BY <1>2
    <3>6. after = rest \cup {new} /\ new \notin rest
      BY <3>1, <3>2
    <3> HIDE DEF rest, new
    <3>7. IsFiniteSet(rest) /\ Cardinality(rest) <= Len(times)
      BY <1>2, <3>4, <3>5, IndicesReach
    <3>8. Cardinality(rest \cup {new}) = Cardinality(rest) + 1 /\ Cardinality(rest) \in Nat
      BY <3>6, <3>7, FS_AddElement, FS_CardinalityType
    <3>9. Cardinality(after) = Cardinality(rest) + 1
      BY <3>6, <3>8
    <3>10. Cardinality(after) <= Limit
      BY <1>2, <1>5, <3>2, <3>7, <3>8, <3>9
    <3> QED
      BY <3>10 DEF after
  <2> QED
    BY <2>7, <2>8
<1> QED
  BY <1>14, <1>15, <1>16, <1>17, <1>18, <1>19 DEF LimiterInv

LEMMA NextInv == LimiterInv /\ [Next]_vars => LimiterInv'
<1> SUFFICES ASSUME LimiterInv, [Next]_vars PROVE LimiterInv'
  OBVIOUS
<1>1. CASE Tick
  BY <1>1, TickInv
<1>2. ASSUME NEW t \in Threads, Arrive(t) \/ Create(t) \/ Load(t) \/ ReadClock(t) \/ Check(t)
      PROVE  LimiterInv'
  BY <1>2, ArriveInv, CreateInv, LoadInv, ReadClockInv, CheckInv
<1>3. CASE UNCHANGED vars
  <2>1. TypeOK'
    BY <1>3 DEF vars, LimiterInv, TypeOK, Times
  <2>2. LimiterIsThere' /\ CreatorsAreFirstComers'
    BY <1>3 DEF vars, LimiterInv, LimiterIsThere, CreatorsAreFirstComers, Creators
  <2>3. UNCHANGED <<clock, windows, admitted, lag>>
    BY <1>3 DEF vars
  <2> QED
    BY <2>1, <2>2, <2>3, HistoryUnmoved DEF LimiterInv
<1> QED
  BY <1>1, <1>2, <1>3 DEF Next

----------------------------------------------------------------------------
(* Theorems *)

\* The invariant holds of every behaviour of the limiters and their threads.
THEOREM LimiterInvariant == Spec => []LimiterInv
  BY InitInv, NextInv, PTL DEF Spec

\* Every variable has its type: no thread calls a limiter that is not there, and
\* no limiter remembers more timestamps than the limit.
THEOREM TypeCorrect == Spec => []TypeOK
<1>1. LimiterInv => TypeOK
  BY DEF LimiterInv
<1> QED
  BY <1>1, LimiterInvariant, PTL

\* One limiter admits a client no more than Limit times within a window less the
\* lag, however the threads overtake each other between clock and lock.
THEOREM WindowHonoured == Spec => []WindowHonouredUpToLag
<1>1. LimiterInv => WindowHonouredUpToLag
  BY DEF LimiterInv
<1> QED
  BY <1>1, LimiterInvariant, PTL

\* The race of the first threads to make the limiter is worth Limit admissions
\* for each of them and no more.
THEOREM RaceBounded == Spec => []RaceIsBounded
<1>1. LimiterInv => RaceIsBounded
  <2> SUFFICES ASSUME LimiterInv, NEW c \in Clients, NEW from \in Times
               PROVE  Cardinality(UNION {Admissions(c, l, from, from + Window - lag) :
                                           l \in DOMAIN windows})
                        <= Limit * Cardinality(Threads)
    BY DEF RaceIsBounded
  <2> DEFINE n == Len(windows)
             F == [l \in 1..n |-> Admissions(c, l, from, from + Window - lag)]
             U == UNION {F[l] : l \in 1..n}
  <2>1. DOMAIN windows = 1..n /\ n \in Nat /\ Limit \in Nat
    BY LenProperties, LimiterAssumption DEF LimiterInv, TypeOK
  <2>2. \A l \in 1..n : IsFiniteSet(F[l]) /\ Cardinality(F[l]) <= Limit
    <3> SUFFICES ASSUME NEW l \in 1..n PROVE IsFiniteSet(F[l]) /\ Cardinality(F[l]) <= Limit
      OBVIOUS
    <3>1. F[l] = Admissions(c, l, from, from + Window - lag)
      OBVIOUS
    <3>2. F[l] \in SUBSET DOMAIN admitted
      BY <3>1 DEF Admissions
    <3>3. IsFiniteSet(DOMAIN admitted)
      BY HistoryFacts, FS_Interval
    <3>4. Cardinality(F[l]) <= Limit
      BY <2>1, <3>1 DEF LimiterInv, WindowHonouredUpToLag
    <3> HIDE DEF F
    <3> QED
      BY <3>2, <3>3, <3>4, FS_Subset
  <2>3. UNION {Admissions(c, l, from, from + Window - lag) : l \in DOMAIN windows} = U
    BY <2>1
  <2> HIDE DEF F, n
  <2>4. IsFiniteSet(U) /\ Cardinality(U) <= n * Limit
    BY <2>1, <2>2, UnionOfSmallSets
  <2> HIDE DEF U
  <2>5. n <= Cardinality(Threads) /\ Cardinality(Threads) \in Nat /\ Cardinality(U) \in Nat
    <3>1. IsFiniteSet(Creators) /\ IsFiniteSet(Threads)
      BY LimiterAssumption, FS_Subset DEF Creators
    <3>2. Cardinality(Creators) \in Nat /\ Cardinality(Threads) \in Nat /\ Cardinality(U) \in Nat
      BY <2>4, <3>1, FS_CardinalityType
    <3> QED
      BY <2>1, <3>2 DEF LimiterInv, CreatorsAreFirstComers, n
  <2>6. n * Limit <= Limit * Cardinality(Threads)
    <3> DEFINE spare == Cardinality(Threads) - n
    <3>1. spare \in Nat /\ Cardinality(Threads) = n + spare
      BY <2>1, <2>5
    <3> HIDE DEF spare
    <3>2. Limit * (n + spare) = n * Limit + Limit * spare /\ Limit * spare >= 0
          /\ n * Limit \in Int /\ Limit * spare \in Int
      BY <2>1, <3>1
    <3> QED
      BY <3>1, <3>2
  <2>7. n * Limit \in Int /\ Limit * Cardinality(Threads) \in Int
    BY <2>1, <2>5
  <2> DEFINE most == n * Limit
             allowed == Limit * Cardinality(Threads)
  <2>8. Cardinality(U) <= most /\ most <= allowed /\ most \in Int /\ allowed \in Int
    BY <2>4, <2>6, <2>7
  <2> HIDE DEF most, allowed
  <2>9. Cardinality(U) <= allowed
    BY <2>5, <2>8
  <2> QED
    BY <2>3, <2>9 DEF allowed
<1> QED
  BY <1>1, LimiterInvariant, PTL

\* A client that gets 429 was admitted Limit times, by the limiter that refuses
\* it, within the window that ends at the time its request read.
THEOREM RefusalsAreJustified == Spec => RefusalJustified
<1> DEFINE Justified ==
      \A t \in Threads :
        thread[t].pc = "timed" /\ thread'[t] = Idle /\ admitted' = admitted =>
          LET now == thread[t].time
          IN Cardinality(Admissions(thread[t].client, thread[t].limiter,
                                    now - Window + 1, clock + 1)) >= Limit
<1>1. LimiterInv /\ [Next]_vars => [Justified]_vars
  <2> SUFFICES ASSUME LimiterInv, Next, NEW t \in Threads,
                      thread[t].pc = "timed", thread'[t] = Idle, admitted' = admitted
               PROVE  Cardinality(Admissions(thread[t].client, thread[t].limiter,
                                    thread[t].time - Window + 1, clock + 1)) >= Limit
    OBVIOUS
  <2>1. Check(t)
    <3>1. thread'[t] # thread[t]
      BY DEF Idle
    <3>2. \A u \in Threads : Moves(u, thread'[u]) /\ u # t => thread'[t] = thread[t]
      BY DEF LimiterInv, TypeOK, Moves
    <3>3. thread \in [Threads -> {Idle} \cup Handlers(0..Len(windows), Times)]
      BY DEF LimiterInv, TypeOK, Handlers
    <3>4. ASSUME NEW u \in Threads, u # t, NEW r, Moves(u, r) PROVE FALSE
      BY <3>1, <3>3, <3>4 DEF Moves
    <3>5. PICK u \in Threads :
            Arrive(u) \/ Create(u) \/ Load(u) \/ ReadClock(u) \/ Check(u)
      BY <3>1 DEF Next, Tick, vars
    <3>6. u = t
      BY <3>4, <3>5 DEF Arrive, Create, Load, ReadClock, Check
    <3> QED
      BY <3>5, <3>6 DEF Arrive, Create, Load, ReadClock, Idle
  <2> DEFINE c == thread[t].client
             l == thread[t].limiter
             now == thread[t].time
             times == Pruned(windows[l][c], now)
             cause == Admissions(c, l, now - Window + 1, clock + 1)
  <2>2. /\ now \in Nat /\ now <= clock /\ times \in Seq(Times)
        /\ Len(times) \in Nat /\ Len(times) <= Limit /\ DOMAIN times = 1..Len(times)
        /\ Len(times) > 0 => times[1] > now - Window
        /\ \E f \in [DOMAIN times -> AdmissionsTo(c, l)] : StandFor(times, f, c, l)
    BY AfterPruning
  <2>3. PICK f \in [DOMAIN times -> AdmissionsTo(c, l)] : StandFor(times, f, c, l)
    BY <2>2
  <2>4. Full(times)
    <3> DEFINE entry == [client |-> c, limiter |-> l, at |-> clock]
    <3>1. Full(times) \/ admitted' = Append(admitted, entry)
      BY <2>1 DEF Check
    <3> HIDE DEF entry
    <3>2. Len(Append(admitted, entry)) = Len(admitted) + 1 /\ Len(admitted) \in Nat
      BY AppendProperties, LenProperties DEF LimiterInv, TypeOK
    <3> QED
      BY <3>1, <3>2
  <2>5. /\ DOMAIN admitted = 1..Len(admitted) /\ Len(admitted) \in Nat
        /\ \A i \in DOMAIN admitted : admitted[i].at \in Nat /\ admitted[i].at <= clock
        /\ clock \in Nat /\ Window \in Nat /\ Limit \in Nat
    BY HistoryFacts
  <2> HIDE DEF c, l, now, times
  <2>6. ASSUME NEW k \in 1..Len(times) PROVE f[k] \in cause
    <3>1. 1 \in DOMAIN times /\ k \in DOMAIN times /\ Len(times) > 0
      BY <2>2
    <3>2. f[1] \in DOMAIN admitted /\ f[k] \in AdmissionsTo(c, l) /\ f[k] \in DOMAIN admitted
      BY <2>3, <3>1 DEF AdmissionsTo
    <3>3. admitted[f[1]].at <= admitted[f[k]].at
      <4>1. f[1] <= f[k]
        <5>1. 1 = k \/ 1 < k
          OBVIOUS
        <5>2. 1 < k => f[1] < f[k]
          BY <2>3, <3>1 DEF StandFor
        <5> QED
          BY <2>5, <3>2, <5>1, <5>2
      <4> QED
        BY <3>2, <4>1 DEF LimiterInv, InOrder
    <3>4. times[1] <= admitted[f[1]].at /\ times[1] > now - Window /\ times[1] \in Nat
      <4>1. times[1] \in Times
        BY <2>2, <3>1, ElementOfSeq
      <4>2. times[1] \in Nat
        BY <2>5, <4>1 DEF Times
      <4>3. times[1] <= admitted[f[1]].at
        BY <2>3, <3>1 DEF StandFor
      <4> QED
        BY <2>2, <3>1, <4>2, <4>3
    <3>5. now - Window + 1 <= admitted[f[k]].at /\ admitted[f[k]].at < clock + 1
      <4>1. now \in Nat /\ Window \in Nat
        BY <2>2, <2>5
      <4>2. /\ admitted[f[1]].at \in Nat /\ admitted[f[k]].at \in Nat
            /\ admitted[f[k]].at <= clock /\ clock \in Nat
        BY <2>5, <3>2, <3>3
      <4> QED
        BY <3>3, <3>4, <4>1, <4>2
    <3> QED
      BY <3>2, <3>5 DEF Admissions, AdmissionsTo
  <2>7. IsFiniteSet(cause)
    <3>1. cause \in SUBSET DOMAIN admitted
      BY DEF Admissions
    <3>2. IsFiniteSet(DOMAIN admitted)
      BY <2>5, FS_Interval
    <3> HIDE DEF cause
    <3> QED
      BY <3>1, <3>2, FS_Subset
  <2> HIDE DEF cause
  <2>8. f \in [1..Len(times) -> cause]
    BY <2>2, <2>6
  <2>9. \A j, k \in 1..Len(times) : j < k => f[j] # f[k]
    <3>1. \A k \in 1..Len(times) : f[k] \in Nat
      BY <2>2, <2>3, <2>5 DEF AdmissionsTo
    <3>2. \A j, k \in 1..Len(times) : j < k => f[j] < f[k]
      BY <2>2, <2>3 DEF StandFor
    <3>3. \A a, b \in Nat : a < b => a # b
      OBVIOUS
    <3> QED
      BY <3>1, <3>2, <3>3
  <2>10. Len(times) <= Cardinality(cause) /\ Cardinality(cause) \in Nat
    BY <2>2, <2>7, <2>8, <2>9, IncreasingIndices, FS_CardinalityType
  <2> QED
    BY <2>2, <2>4, <2>5, <2>10 DEF Full, cause, c, l, now
<1> QED
  BY <1>1, LimiterInvariant, PTL DEF Spec, RefusalJustified

=============================================================================
