---------------------------- MODULE RateLimiter ----------------------------
(***************************************************************************)
(* The sliding-window limiter in front of /api and /v1: Handler._rate_limit*)
(* of the dashboard, which makes the limiter when the first request comes, *)
(* and InMemoryRateLimiter.check, which reads the clock before it takes    *)
(* the lock.  One thread is one handler thread of ThreadingHTTPServer, and *)
(* any of them may wait between two of the steps below.                    *)
(***************************************************************************)
EXTENDS Integers, FiniteSets, Sequences, SequencesExt

CONSTANTS Threads,
          Clients,      \* client addresses
          Limit,        \* rate_limit_per_minute
          Window,       \* the sixty seconds, in ticks of this clock
          MaxClock,     \* bound on the clock
          MaxRequests   \* bound on the requests that arrive

ASSUME LimiterAssumption ==
  /\ Limit \in Nat \ {0} /\ Window \in Nat \ {0}
  /\ MaxClock \in Nat /\ MaxRequests \in Nat
  /\ IsFiniteSet(Threads)

VARIABLES clock,      \* time.time(), taken not to run backwards
          current,    \* _RATE_LIMITER: 0 for None, else an index of windows
          windows,    \* limiters made so far: client -> timestamps (_requests)
          thread,     \* where each handler thread is
          arrivals,   \* requests so far
          admitted,   \* history: admissions, with the time they took effect
          lag         \* history: longest wait between reading the clock and the lock

vars == <<clock, current, windows, thread, arrivals, admitted, lag>>

----------------------------------------------------------------------------
Idle == [pc |-> "idle"]

\* A request of client c that has passed _authorize, at stage pc; it holds the
\* limiter it is about to call and the time it read, once it has them.
Request(pc, c, limiter, time) ==
  [pc |-> pc, client |-> c, limiter |-> limiter, time |-> time]

Moves(t, request) == thread' = [thread EXCEPT ![t] = request]

Init ==
  /\ clock = 0
  /\ current = 0
  /\ windows = <<>>
  /\ thread = [t \in Threads |-> Idle]
  /\ arrivals = 0
  /\ admitted = <<>>
  /\ lag = 0

\* Mutant of Arrive: a limiter of its own for every request.
ArriveAlwaysCreating(t) ==
  /\ thread[t] = Idle
  /\ arrivals < MaxRequests
  /\ arrivals' = arrivals + 1
  /\ \E c \in Clients : Moves(t, Request("creating", c, 0, 0))
  /\ UNCHANGED <<clock, current, windows, admitted, lag>>

\* if _RATE_LIMITER is None: nobody else is kept from asking the same.
Arrive(t) ==
  /\ thread[t] = Idle
  /\ arrivals < MaxRequests
  /\ arrivals' = arrivals + 1
  /\ \E c \in Clients :
       Moves(t, Request(IF current = 0 THEN "creating" ELSE "calling", c, 0, 0))
  /\ UNCHANGED <<clock, current, windows, admitted, lag>>

\* _RATE_LIMITER = InMemoryRateLimiter(): over whatever is there by now.
Create(t) ==
  /\ thread[t].pc = "creating"
  /\ windows' = Append(windows, [c \in Clients |-> <<>>])
  /\ current' = Len(windows) + 1
  /\ Moves(t, [thread[t] EXCEPT !.pc = "calling"])
  /\ UNCHANGED <<clock, arrivals, admitted, lag>>

\* _RATE_LIMITER.check(...): the global is read a second time.
Load(t) ==
  /\ thread[t].pc = "calling"
  /\ Moves(t, [thread[t] EXCEPT !.pc = "loaded", !.limiter = current])
  /\ UNCHANGED <<clock, current, windows, arrivals, admitted, lag>>

\* current = time.time(), before the lock.
ReadClock(t) ==
  /\ thread[t].pc = "loaded"
  /\ Moves(t, [thread[t] EXCEPT !.pc = "timed", !.time = clock])
  /\ UNCHANGED <<clock, current, windows, arrivals, admitted, lag>>

\* Drop the longest prefix of timestamps that all satisfy Old(_).
DropOld(times, Old(_)) ==
  LET firstFresh == SelectInSeq(times, LAMBDA s : ~Old(s))
  IN IF firstFresh = 0 THEN <<>> ELSE SubSeq(times, firstFresh, Len(times))

\* Mutants of Pruned: a window one tick short, and one tick long.
PrunedEarly(times, now) == DropOld(times, LAMBDA s : s <= now - Window + 1)
PrunedLate(times, now)  == DropOld(times, LAMBDA s : s < now - Window)

\* while timestamps and timestamps[0] <= cutoff: popleft().  Threads may have
\* appended out of order, and the loop stops at the first one that is fresh.
Pruned(times, now) == DropOld(times, LAMBDA s : s <= now - Window)

\* Mutant of Full: > in place of >=.
FullOneMore(times) == Len(times) > Limit

Full(times) == Len(times) >= Limit

\* The critical section: prune, then refuse (429) or count and admit.
Check(t) ==
  /\ thread[t].pc = "timed"
  /\ LET c == thread[t].client
         l == thread[t].limiter
         times == Pruned(windows[l][c], thread[t].time)
     IN \/ /\ Full(times)
           /\ windows' = [windows EXCEPT ![l][c] = times]
           /\ UNCHANGED admitted
        \/ /\ ~Full(times)
           /\ windows' = [windows EXCEPT ![l][c] = Append(times, thread[t].time)]
           /\ admitted' = Append(admitted, [client |-> c, limiter |-> l, at |-> clock])
  /\ lag' = LET waited == clock - thread[t].time IN IF waited > lag THEN waited ELSE lag
  /\ Moves(t, Idle)
  /\ UNCHANGED <<clock, current, arrivals>>

Tick ==
  /\ clock < MaxClock
  /\ clock' = clock + 1
  /\ UNCHANGED <<current, windows, thread, arrivals, admitted, lag>>

Next ==
  Tick \/ \E t \in Threads : Arrive(t) \/ Create(t) \/ Load(t) \/ ReadClock(t) \/ Check(t)

Spec == Init /\ [][Next]_vars

----------------------------------------------------------------------------
(* Properties *)

Times == 0..clock
TypeOK ==
  /\ clock \in Nat /\ arrivals \in Nat /\ lag \in Nat
  /\ current \in 0..Len(windows)
  /\ windows \in Seq([Clients -> Seq(Times)])
  /\ \A l \in DOMAIN windows, c \in Clients : Len(windows[l][c]) <= Limit
  /\ thread \in [Threads -> {Idle} \cup
        [pc : {"creating", "calling", "loaded", "timed"}, client : Clients,
         limiter : 0..Len(windows), time : Times]]
  /\ admitted \in Seq([client : Clients, limiter : DOMAIN windows, at : Times])

Admissions(c, l, from, to) ==
  {i \in DOMAIN admitted : /\ admitted[i].client = c
                           /\ admitted[i].limiter = l
                           /\ from <= admitted[i].at /\ admitted[i].at < to}

\* One limiter keeps its promise as far as its threads are prompt: no client is
\* admitted more than Limit times within a window, less the longest time a
\* thread spent between reading the clock and taking the lock.  A late thread
\* prunes with an early clock and the other way round; this bounds the harm.
WindowHonouredUpToLag ==
  \A c \in Clients, l \in DOMAIN windows, from \in Times :
    Cardinality(Admissions(c, l, from, from + Window - lag)) <= Limit

\* Nobody is refused without cause, even when timestamps are out of order and
\* an old one hides behind a fresh one: the limiter really admitted this client
\* Limit times in the window that ends at the time the request read.
RefusalJustified ==
  [][\A t \in Threads :
       thread[t].pc = "timed" /\ thread'[t] = Idle /\ admitted' = admitted =>
         LET now == thread[t].time
         IN Cardinality(Admissions(thread[t].client, thread[t].limiter,
                                   now - Window + 1, clock + 1)) >= Limit]_vars

\* "Apply a configurable per-client sliding-window limit" (specs/gateway/
\* authentication.md) holds of one limiter only: two threads that both find none
\* make one each, and the second replaces the first with what it has counted.
\* Only threads that came before the first one was in place make another, so
\* over all limiters a client gets at most Limit admissions for each thread.
RaceIsBounded ==
  \A c \in Clients, from \in Times :
    Cardinality(UNION {Admissions(c, l, from, from + Window - lag) : l \in DOMAIN windows})
      <= Limit * Cardinality(Threads)
============================================================================
