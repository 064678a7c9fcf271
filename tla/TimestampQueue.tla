--------------------------- MODULE TimestampQueue ---------------------------
(***************************************************************************)
(* aioworkers.queue.timeout: TimestampQueue, and UniqueQueue when Unique   *)
(* is TRUE.  Items become readable when their timestamp is due.  The queue *)
(* lives in one event loop, so a piece of code between two awaits is one   *)
(* step; the loop in _on_time is one step per iteration, and while         *)
(* onTime is TRUE only the clock may interleave with it.                   *)
(*                                                                         *)
(* A put or get call is used once and is its own identity: the item a call *)
(* p puts is p itself, with timestamp ts[p] and value val[p].  The heap is *)
(* the set queue; _schedule's rebuilt Item is the same p with p in sched,  *)
(* and the call_at handle of p is p in timers (an item is scheduled once). *)
(***************************************************************************)
EXTENDS Integers, Sequences, FiniteSets

CONSTANTS
  Puts, Gets,   \* calls of put and of get
  TimedGets,    \* get calls made with a timeout
  CancelGets,   \* get and put calls whose task may be cancelled
  CancelPuts,
  Values,       \* payloads (they matter to UniqueQueue only)
  MaxTime,      \* bound of the clock and of the scores
  MaxSize,      \* maxsize; 0 is unbounded
  Slack,        \* ticks by which the event loop may run a timer early
  Unique,       \* UniqueQueue instead of TimestampQueue
  None

ASSUME PutsAssumption == IsFiniteSet(Puts) /\ None \notin Puts
ASSUME GetsAssumption == /\ TimedGets \subseteq Gets
                         /\ CancelGets \subseteq Gets
                         /\ CancelPuts \subseteq Puts
ASSUME BoundsAssumption == /\ MaxTime \in Nat /\ MaxSize \in Nat
                           /\ Slack \in Nat /\ Unique \in BOOLEAN
ASSUME ValuesAssumption == IsFiniteSet(Values)

VARIABLES
  now,      \* _loop_time()
  queue,    \* _queue, the heap
  values,   \* UniqueQueue._values
  sched,    \* items whose scheduled flag is set
  timers,   \* pending call_at(_on_time) handles
  getters,  \* _getters, a deque of futures
  putters,  \* _putters, a deque of futures
  onTime,   \* _on_time is in the middle of its loop
  gstate,   \* state of each get call and of its future
  pstate,   \* state of each put call and of its future
  got,      \* item a get call received
  ts, val   \* timestamp and value of each item

vars == <<now, queue, values, sched, timers, getters, putters, onTime,
          gstate, pstate, got, ts, val>>

Time == 0..MaxTime

GetStates == {"new", "waiting", "resolved", "returned",
              "timedout", "cancelled", "failed"}
PutStates == {"new", "blocked", "returned", "cancelled", "failed"}

Init ==
  /\ now = 0 /\ queue = {} /\ sched = {} /\ timers = {}
  /\ values = [v \in Values |-> None]
  /\ getters = <<>> /\ putters = <<>> /\ onTime = FALSE
  /\ gstate = [g \in Gets |-> "new"]
  /\ pstate = [p \in Puts |-> "new"]
  /\ got = [g \in Gets |-> None]
  /\ ts = [p \in Puts |-> 0]
  /\ val \in [Puts -> Values]

-----------------------------------------------------------------------------
(* The heap and the table of values.                                       *)

\* Heap entries _pop can return: UniqueQueue skips an entry that its table
\* of values no longer maps to.
Live == IF Unique THEN {p \in queue : values[val[p]] = p} ELSE queue

Size == IF Unique THEN Cardinality({v \in Values : values[v] # None})
        ELSE Cardinality(queue)

Full == MaxSize > 0 /\ Size >= MaxSize

\* _pop returns x after throwing away the stale entries met on the way; the
\* heap orders entries of equal timestamps as it likes.
Pops(x, stale) ==
  /\ x \in Live
  /\ \A y \in Live : ts[x] <= ts[y]
  /\ stale \subseteq {q \in queue \ Live : ts[q] <= ts[x]}
  /\ \A q \in queue \ Live : ts[q] < ts[x] => q \in stale

\* The popped x leaves the queue.
Remove(x, stale) ==
  /\ queue' = queue \ (stale \cup {x})
  /\ values' = IF Unique THEN [values EXCEPT ![val[x]] = None] ELSE values

\* The popped x is pushed back, as it was.
PutBack(stale) ==
  /\ queue' = queue \ stale
  /\ UNCHANGED values

\* _put of a new item.
Insert(p) ==
  /\ queue' = queue \cup {p}
  /\ values' = IF Unique THEN [values EXCEPT ![val[p]] = p] ELSE values

\* Mutant of Schedule: the rebuilt Item does not carry the scheduled flag.
ScheduleUnflagged(x) ==
  /\ sched' = sched
  /\ timers' = IF x \in sched THEN timers ELSE timers \cup {x}

\* Mutant of Schedule: one pending timer is taken to be enough.
ScheduleOneTimer(x) ==
  /\ sched' = sched \cup {x}
  /\ timers' = IF x \in sched \/ timers # {} THEN timers ELSE timers \cup {x}

\* _schedule sets a timer only for an item that was not scheduled before.
Schedule(x) ==
  /\ sched' = sched \cup {x}
  /\ timers' = IF x \in sched THEN timers ELSE timers \cup {x}

-----------------------------------------------------------------------------
(* Futures of readers and writers.                                         *)

\* Some waiter in _getters is not done yet.
SomeWaiting == \E i \in DOMAIN getters : gstate[getters[i]] = "waiting"

\* _send hands x to the first waiter that is not done and drops the done ones
\* before it.
SendTo(x) ==
  \E i \in DOMAIN getters :
    /\ gstate[getters[i]] = "waiting"
    /\ \A j \in 1..(i - 1) : gstate[getters[j]] # "waiting"
    /\ getters' = SubSeq(getters, i + 1, Len(getters))
    /\ gstate' = [gstate EXCEPT ![getters[i]] = "resolved"]
    /\ got' = [got EXCEPT ![getters[i]] = x]

\* set_result on a done (cancelled) future raises InvalidStateError, which
\* leaves _release_putter and its caller.
ReleaseRaises ==
  /\ ~Full'
  /\ \E i \in DOMAIN putters : pstate[putters[i]] # "blocked"

\* Mutant of ReleasePutters: a free place releases one writer.
ReleaseOnePutter(st) ==
  IF Full' \/ putters = <<>> THEN putters' = putters /\ pstate' = st
  ELSE /\ putters' = Tail(putters)
       /\ pstate' = [st EXCEPT ![Head(putters)] = "returned"]

\* _release_putter, started when the put calls are in the states st: once the
\* queue is not full, every future up to the first done one is released.
ReleasePutters(st) ==
  IF Full' THEN putters' = putters /\ pstate' = st
  ELSE \E k \in 1..(Len(putters) + 1) :
         /\ \A i \in 1..(k - 1) : pstate[putters[i]] = "blocked"
         /\ k <= Len(putters) => pstate[putters[k]] # "blocked"
         /\ putters' = SubSeq(putters, k + 1, Len(putters))
         /\ pstate' = [p \in Puts |->
                         IF \E i \in 1..(k - 1) : putters[i] = p
                         THEN "returned" ELSE st[p]]

\* Mutant of BlockWhenFull: full() is tested before the item is inserted.
BlockIfWasFull(p) ==
  IF Full
  THEN /\ putters' = Append(putters, p)
       /\ pstate' = [pstate EXCEPT ![p] = "blocked"]
  ELSE /\ putters' = putters
       /\ pstate' = [pstate EXCEPT ![p] = "returned"]

\* The end of put: the caller waits when its item has made the queue full.
BlockWhenFull(p) ==
  IF Full'
  THEN /\ putters' = Append(putters, p)
       /\ pstate' = [pstate EXCEPT ![p] = "blocked"]
  ELSE /\ putters' = putters
       /\ pstate' = [pstate EXCEPT ![p] = "returned"]

Wait(g) ==
  /\ getters' = Append(getters, g)
  /\ gstate' = [gstate EXCEPT ![g] = "waiting"]
  /\ UNCHANGED <<got, putters, pstate>>

-----------------------------------------------------------------------------
(* get                                                                     *)

GetEmpty(g) ==
  /\ Live = {} /\ queue' = {}
  /\ Wait(g)
  /\ UNCHANGED <<values, sched, timers>>

GetEarly(g) ==
  \E x \in queue, stale \in SUBSET queue :
    /\ Pops(x, stale) /\ ts[x] > now
    /\ PutBack(stale)
    /\ Schedule(x)
    /\ Wait(g)

GetReady(g) ==
  \E x \in queue, stale \in SUBSET queue :
    /\ Pops(x, stale) /\ ts[x] <= now
    /\ Remove(x, stale)
    /\ ReleasePutters(pstate)
    /\ gstate' = [gstate EXCEPT ![g] = IF ReleaseRaises THEN "failed"
                                       ELSE "returned"]
    /\ got' = [got EXCEPT ![g] = IF ReleaseRaises THEN None ELSE x]
    /\ UNCHANGED <<sched, timers, getters>>

Get(g) ==
  /\ ~onTime /\ gstate[g] = "new"
  /\ GetEmpty(g) \/ GetEarly(g) \/ GetReady(g)
  /\ UNCHANGED <<now, onTime, ts, val>>

\* The task of a served reader runs again and get returns.
ResumeGet(g) ==
  /\ ~onTime /\ gstate[g] = "resolved"
  /\ gstate' = [gstate EXCEPT ![g] = "returned"]
  /\ UNCHANGED <<now, queue, values, sched, timers, getters, putters, onTime,
                 pstate, got, ts, val>>

\* _on_timeout: the done future stays in _getters.
OnTimeout(g) ==
  /\ ~onTime /\ g \in TimedGets /\ gstate[g] = "waiting"
  /\ gstate' = [gstate EXCEPT ![g] = "timedout"]
  /\ UNCHANGED <<now, queue, values, sched, timers, getters, putters, onTime,
                 pstate, got, ts, val>>

\* Task.cancel of a reader: a pending future becomes done; a reader whose
\* future has a result gets CancelledError instead of it.
CancelGet(g) ==
  /\ ~onTime /\ g \in CancelGets /\ gstate[g] \in {"waiting", "resolved"}
  /\ gstate' = [gstate EXCEPT ![g] = "cancelled"]
  /\ UNCHANGED <<now, queue, values, sched, timers, getters, putters, onTime,
                 pstate, got, ts, val>>
-----------------------------------------------------------------------------
(* put                                                                     *)

\* Readers wait and the score is past: the item bypasses the queue.
PutSend(p) ==
  /\ getters # <<>> /\ ts'[p] < now /\ SomeWaiting
  /\ SendTo(p)
  /\ UNCHANGED <<queue, values, sched, timers>>
  /\ ReleasePutters([pstate EXCEPT ![p] = IF ReleaseRaises THEN "failed"
                                          ELSE "returned"])

\* The same, but every waiter is done: _send has emptied _getters.
PutUnsent(p) ==
  /\ getters # <<>> /\ ts'[p] < now /\ ~SomeWaiting
  /\ getters' = <<>>
  /\ Insert(p)
  /\ BlockWhenFull(p)
  /\ UNCHANGED <<sched, timers, gstate, got>>

PutSchedule(p) ==
  /\ getters # <<>> /\ ts'[p] >= now
  /\ Insert(p)
  /\ Schedule(p)
  /\ BlockWhenFull(p)
  /\ UNCHANGED <<getters, gstate, got>>

PutStore(p) ==
  /\ getters = <<>>
  /\ Insert(p)
  /\ BlockWhenFull(p)
  /\ UNCHANGED <<sched, timers, getters, gstate, got>>

Put(p) ==
  /\ ~onTime /\ pstate[p] = "new"
  /\ \E t \in Time : ts' = [ts EXCEPT ![p] = t]
  /\ PutSend(p) \/ PutUnsent(p) \/ PutSchedule(p) \/ PutStore(p)
  /\ UNCHANGED <<now, onTime, val>>

\* Task.cancel of a blocked writer: its future is done and stays in _putters.
CancelPut(p) ==
  /\ ~onTime /\ p \in CancelPuts /\ pstate[p] = "blocked"
  /\ pstate' = [pstate EXCEPT ![p] = "cancelled"]
  /\ UNCHANGED <<now, queue, values, sched, timers, getters, putters, onTime,
                 gstate, got, ts, val>>
-----------------------------------------------------------------------------
(* _on_time                                                                *)

\* The event loop runs a due timer (or one that is Slack early).
OnTimeFire(p) ==
  /\ ~onTime /\ p \in timers /\ ts[p] <= now + Slack
  /\ timers' = timers \ {p}
  /\ onTime' = TRUE
  /\ UNCHANGED <<now, queue, values, sched, getters, putters, gstate, pstate,
                 got, ts, val>>

OnTimeNoGetters ==
  /\ getters = <<>>
  /\ onTime' = FALSE
  /\ UNCHANGED <<queue, values, sched, timers, getters, putters, gstate,
                 pstate, got>>

OnTimeEmpty ==
  /\ getters # <<>> /\ Live = {} /\ queue' = {}
  /\ onTime' = FALSE
  /\ UNCHANGED <<values, sched, timers, getters, putters, gstate, pstate, got>>

OnTimeEarly ==
  /\ getters # <<>>
  /\ \E x \in queue, stale \in SUBSET queue :
       /\ Pops(x, stale) /\ ts[x] > now
       /\ PutBack(stale)
       /\ Schedule(x)
  /\ onTime' = FALSE
  /\ UNCHANGED <<getters, putters, gstate, pstate, got>>

\* Mutant of OnTimeSend: the handler trusts its timer and does not look at the
\* timestamp of what it pops.
OnTimeSendUnchecked ==
  /\ SomeWaiting
  /\ \E x \in queue, stale \in SUBSET queue :
       /\ Pops(x, stale)
       /\ Remove(x, stale)
       /\ SendTo(x)
  /\ ReleasePutters(pstate)
  /\ onTime' = ~ReleaseRaises
  /\ UNCHANGED <<sched, timers>>

\* Mutant of OnTimeSend: one timer serves one reader.
OnTimeSendOnce ==
  /\ SomeWaiting
  /\ \E x \in queue, stale \in SUBSET queue :
       /\ Pops(x, stale) /\ ts[x] <= now
       /\ Remove(x, stale)
       /\ SendTo(x)
  /\ ReleasePutters(pstate)
  /\ onTime' = FALSE
  /\ UNCHANGED <<sched, timers>>

\* An exception of _release_putter ends the handler.
OnTimeSend ==
  /\ SomeWaiting
  /\ \E x \in queue, stale \in SUBSET queue :
       /\ Pops(x, stale) /\ ts[x] <= now
       /\ Remove(x, stale)
       /\ SendTo(x)
  /\ ReleasePutters(pstate)
  /\ onTime' = ~ReleaseRaises
  /\ UNCHANGED <<sched, timers>>

\* Mutant of OnTimeUnsent: the item nobody took is not put back.
OnTimeUnsentDropped ==
  /\ getters # <<>> /\ ~SomeWaiting
  /\ \E x \in queue, stale \in SUBSET queue :
       /\ Pops(x, stale) /\ ts[x] <= now
       /\ Remove(x, stale)
  /\ getters' = <<>>
  /\ UNCHANGED <<sched, timers, putters, onTime, gstate, pstate, got>>

OnTimeUnsent ==
  /\ getters # <<>> /\ ~SomeWaiting
  /\ \E x \in queue, stale \in SUBSET queue :
       /\ Pops(x, stale) /\ ts[x] <= now
       /\ PutBack(stale)
  /\ getters' = <<>>
  /\ UNCHANGED <<sched, timers, putters, onTime, gstate, pstate, got>>

OnTimeIterate ==
  /\ onTime
  /\ \/ OnTimeNoGetters \/ OnTimeEmpty \/ OnTimeEarly
     \/ OnTimeSend \/ OnTimeUnsent
  /\ UNCHANGED <<now, ts, val>>
-----------------------------------------------------------------------------
\* cleanup cancels every future that is not done and empties both deques.
Cleanup ==
  /\ ~onTime
  /\ getters' = <<>> /\ putters' = <<>>
  /\ gstate' = [g \in Gets |->
                  IF gstate[g] = "waiting" THEN "cancelled" ELSE gstate[g]]
  /\ pstate' = [p \in Puts |->
                  IF pstate[p] = "blocked" THEN "cancelled" ELSE pstate[p]]
  /\ UNCHANGED <<now, queue, values, sched, timers, onTime, got, ts, val>>

\* The clock moves whatever the event loop is doing.
Tick ==
  /\ now < MaxTime
  /\ now' = now + 1
  /\ UNCHANGED <<queue, values, sched, timers, getters, putters, onTime,
                 gstate, pstate, got, ts, val>>

Next ==
  \/ \E g \in Gets : Get(g) \/ ResumeGet(g) \/ OnTimeout(g) \/ CancelGet(g)
  \/ \E p \in Puts : Put(p) \/ CancelPut(p) \/ OnTimeFire(p)
  \/ OnTimeIterate
  \/ Cleanup
  \/ Tick

Spec == Init /\ [][Next]_vars

\* The clock advances, a due timer is run, a running handler goes on and a
\* task whose future is done is resumed: what the event loop guarantees.
Fairness ==
  /\ WF_vars(Tick)
  /\ WF_vars(OnTimeIterate)
  /\ \A p \in Puts : WF_vars(OnTimeFire(p))
  /\ \A g \in Gets : WF_vars(ResumeGet(g))

FairSpec == Spec /\ Fairness
-----------------------------------------------------------------------------
(* Properties                                                              *)

\* The shape of the state; a pending timer belongs to a scheduled item.
TypeOK ==
  /\ now \in Time
  /\ queue \subseteq Puts /\ sched \subseteq Puts /\ timers \subseteq sched
  /\ values \in [Values -> Puts \cup {None}]
  /\ getters \in Seq(Gets) /\ putters \in Seq(Puts)
  /\ onTime \in BOOLEAN
  /\ gstate \in [Gets -> GetStates]
  /\ pstate \in [Puts -> PutStates]
  /\ got \in [Gets -> Puts \cup {None}]
  /\ ts \in [Puts -> Time] /\ val \in [Puts -> Values]

\* No item reaches a reader before its timestamp, whichever of get, put and
\* _on_time hands it over.
NoEarlyDelivery ==
  \A g \in Gets : got[g] # None => ts[got[g]] <= now

\* When no handler is running and a reader waits, every item it could get has
\* a timer pending at or before its timestamp: nobody sleeps past a due item.
NoLostWakeup ==
  ~onTime /\ (\E g \in Gets : gstate[g] = "waiting")
    => \A q \in Live : \E r \in timers : ts[r] <= ts[q]

\* A put stays blocked only while the queue is full: every path that takes an
\* item out (get, put's _send, _on_time) releases the writers.
BlockedOnlyWhenFull ==
  \A p \in Puts : pstate[p] = "blocked" => Full

\* put inserts before it waits, so maxsize may be exceeded, but only by items
\* whose put has not returned normally.
Backpressure ==
  MaxSize > 0 =>
    Size < MaxSize + Cardinality({p \in Puts : pstate[p] \in
                                    {"blocked", "cancelled", "failed"}})

\* A reader gets an item ahead of one with an earlier timestamp only while a
\* timer is pending that covers the overtaken one (put's direct _send).
OvertakesOnlyScheduled ==
  [][\A g \in Gets : got'[g] # got[g] /\ got'[g] # None =>
       \A q \in Live' : ts'[q] < ts'[got'[g]] =>
         \E r \in timers' : ts'[r] <= ts'[q]]_vars

\* Readers and items do not wait for each other: with a reader waiting, an
\* item in the queue leaves it, once its time has come, unless the readers go
\* or a cancelled writer makes _release_putter raise out of _on_time.
DueItemServed ==
  \A p \in Puts :
    (p \in Live /\ \E g \in Gets : gstate[g] = "waiting")
      ~> \/ p \notin Live \/ \A g \in Gets : gstate[g] # "waiting"
         \/ \E w \in Puts : pstate[w] = "cancelled"

\* What the queue promises its users, whatever its timers do.
Abstract == INSTANCE TimedBag WITH pool <- Live,
  offered <- {p \in Puts : pstate[p] # "new"}

\* The queue implements a bag of timed items that are handed over once.
ImplementsTimedBag == Abstract!Spec
=============================================================================
