---------------------------- MODULE WorkerProofs ----------------------------
(***************************************************************************)
(* Theorems about Worker, for every set of workers, controllers and items  *)
(* and every number of tasks.                                              *)
(***************************************************************************)
EXTENDS Worker, TLAPS

-----------------------------------------------------------------------------
(* What a step of a runner does                                            *)

\* The states a task can go to once it runs.
RunStates == Sleeping \cup Working \cup Ended

\* _is_sleep goes with the state of the task, unless it is left alone: within
\* work, and by a task that ends cancelled.
SleepFollows(w, n, s) ==
  \/ s \in Working /\ SetSleep(w, "no")
  \/ s \in Sleeping \cup {"ended"} /\ SetSleep(w, "yes")
  \/ s \in Working /\ task[w][n] \in Working /\ UNCHANGED isSleep
  \/ s = "cancelled" /\ UNCHANGED isSleep

\* The head of the loop leads into a sleep or into work.
LEMMA IterateMoves ==
  ASSUME NEW w \in Workers, NEW n \in Runs, Iterate(w, n) \/ BeginWork(w, n)
  PROVE  \E s \in RunStates : /\ GoTo(w, n, s) /\ SleepFollows(w, n, s)
                              /\ s \in Sleeping \cup {"get", "run"}
<1>1. CASE BeginWork(w, n)
  BY <1>1 DEF BeginWork, GoTo, RunStates, SleepFollows, Working
<1>2. CASE Iterate(w, n)
  BY <1>1, <1>2 DEF Iterate, GoTo, RunStates, SleepFollows, Sleeping
<1> QED BY <1>1, <1>2

\* After work the hands are empty, and the task ends, sleeps or iterates.
LEMMA EndWorkMoves ==
  ASSUME NEW w \in Workers, NEW n \in Runs, EndWork(w, n)
  PROVE  /\ \E s \in RunStates : GoTo(w, n, s) /\ SleepFollows(w, n, s)
         /\ hold' = [hold EXCEPT ![w][n] = None]
         /\ \E b \in BOOLEAN : \/ stoppedAt' = [stoppedAt EXCEPT ![w] = b]
                               \/ UNCHANGED stoppedAt
<1>1. CASE ~persist[w]
  BY <1>1 DEF EndWork, RunStates, SleepFollows, Ended
<1>2. CASE persist[w] /\ w \in Sleeps
  BY <1>2 DEF EndWork, RunStates, SleepFollows, Sleeping
<1>3. CASE persist[w] /\ w \notin Sleeps
  BY <1>3, IterateMoves DEF EndWork
<1> QED BY <1>1, <1>2, <1>3 DEF EndWork

\* A step of the runner moves one live task, and nothing that start or stop
\* owns; only a cancelled task ends so, and only an uncancelled one goes on.
LEMMA RunnerFrame ==
  ASSUME NEW w \in Workers, NEW n \in Runs, RunnerStep(w, n)
  PROVE  /\ Alive(w, n)
         /\ \E s \in RunStates :
              /\ GoTo(w, n, s) /\ SleepFollows(w, n, s)
              /\ s = "cancelled" <=> cancel[w][n]
         /\ UNCHANGED <<future, cancel, persist, ctl>>
<1> USE DEF At
<1>1. CASE FirstStep(w, n)
  <2>1. \E s \in RunStates : GoTo(w, n, s) /\ SleepFollows(w, n, s) /\ s # "cancelled"
    BY <1>1, IterateMoves
    DEF FirstStep, RunStates, SleepFollows, Sleeping, Working
  <2> QED BY <1>1, <2>1 DEF FirstStep, Alive, Ended
<1>2. CASE Wake(w, n)
  <2>1. \E s \in RunStates : GoTo(w, n, s) /\ SleepFollows(w, n, s) /\ s # "cancelled"
    BY <1>2, IterateMoves DEF Wake, Sleeping
  <2> QED BY <1>2, <2>1 DEF Wake, Alive, Ended
<1>3. CASE TakeItem(w, n)
  BY <1>3 DEF TakeItem, Alive, Ended, Working, RunStates, SleepFollows
<1>4. ASSUME EndWork(w, n), ~cancel[w][n]
      PROVE  \E s \in RunStates :
               /\ GoTo(w, n, s) /\ SleepFollows(w, n, s)
               /\ s # "cancelled"
  BY <1>4, IterateMoves
  DEF EndWork, RunStates, SleepFollows, Sleeping, Working, Ended
<1>5. CASE RunDone(w, n)
  <2>1. \E s \in RunStates : GoTo(w, n, s) /\ SleepFollows(w, n, s) /\ s # "cancelled"
    BY <1>4, <1>5 DEF RunDone, RunStates, SleepFollows, Working
  <2> QED BY <1>5, <2>1 DEF RunDone, Alive, Ended
<1>6. CASE PutDone(w, n)
  BY <1>4, <1>6 DEF PutDone, Alive, Ended
<1>7. CASE WorkError(w, n)
  BY <1>4, <1>7 DEF WorkError, Alive, Ended, Working
<1>8. CASE Cancelled(w, n)
  BY <1>8 DEF Cancelled, RunStates, SleepFollows, Ended
<1> QED BY <1>1, <1>2, <1>3, <1>5, <1>6, <1>7, <1>8 DEF RunnerStep

-----------------------------------------------------------------------------
(* Type correctness                                                        *)

\* Items and hands keep their shape whatever the runner does.
LEMMA RunnerItems ==
  ASSUME TypeOK, NEW w \in Workers, NEW n \in Runs, RunnerStep(w, n)
  PROVE  /\ place' \in [Items -> Places]
         /\ hold' \in [Workers -> [Runs -> Items \cup {None}]]
         /\ stoppedAt' \in [Workers -> BOOLEAN]
<1> USE DEF TypeOK
<1>1. CASE FirstStep(w, n) \/ Wake(w, n)
  BY <1>1 DEF FirstStep, Wake
<1>2. CASE TakeItem(w, n)
  BY <1>2 DEF TakeItem, Places
<1>3. ASSUME NEW pl \in Places, Settle(w, n, pl)
      PROVE  place' \in [Items -> Places]
  BY <1>3, NoneAssumption DEF Settle
<1>4. "done" \in Places /\ "failed" \in Places /\ "lost" \in Places
  BY DEF Places
<1>5. ASSUME EndWork(w, n)
      PROVE  /\ hold' \in [Workers -> [Runs -> Items \cup {None}]]
             /\ stoppedAt' \in [Workers -> BOOLEAN]
  BY <1>5 DEF EndWork
<1>6. CASE RunDone(w, n)
  BY <1>3, <1>4, <1>5, <1>6 DEF RunDone
<1>7. CASE PutDone(w, n) \/ WorkError(w, n)
  BY <1>3, <1>4, <1>5, <1>7 DEF PutDone, WorkError
<1>8. CASE Cancelled(w, n)
  <2>1. Settle(w, n, "lost") /\ hold' = [hold EXCEPT ![w][n] = None]
    BY <1>8 DEF Cancelled
  <2>2. stoppedAt' \in [Workers -> BOOLEAN]
    BY <1>8 DEF Cancelled
  <2> QED BY <1>3, <1>4, <2>1, <2>2
<1> QED BY <1>1, <1>2, <1>6, <1>7, <1>8 DEF RunnerStep

LEMMA RunnerTypeOK ==
  ASSUME TypeOK, NEW w \in Workers, NEW n \in Runs, RunnerStep(w, n)
  PROVE  TypeOK'
<1>1. PICK s \in RunStates : GoTo(w, n, s) /\ SleepFollows(w, n, s)
  BY RunnerFrame
<1>2. Alive(w, n) /\ UNCHANGED <<future, cancel, persist, ctl>>
  BY RunnerFrame
<1>3. s \in TaskStates /\ s # "none"
  BY DEF RunStates, TaskStates, Sleeping, Working, Ended
<1>4. task' \in [Workers -> [Runs -> TaskStates]]
  BY <1>1, <1>3 DEF GoTo, TypeOK
<1>5. \A v \in Workers, m \in Runs : task'[v][m] = "none" <=> m > future'[v]
  BY <1>1, <1>2, <1>3 DEF GoTo, Alive, TypeOK
<1>6. isSleep' \in [Workers -> {"none", "yes", "no"}]
  BY <1>1 DEF SleepFollows, SetSleep, TypeOK
<1> QED BY <1>2, <1>4, <1>5, <1>6, RunnerItems DEF TypeOK

LEMMA StartTypeOK ==
  ASSUME TypeOK, NEW w \in Workers, Start(w)
  PROVE  TypeOK'
<1>1. future[w] \in 0..MaxRuns /\ future[w] + 1 \in Runs
  BY RunsAssumption DEF Start, TypeOK, Runs
<1>2. future' \in [Workers -> 0..MaxRuns]
  BY <1>1 DEF Start, TypeOK, Runs
<1>3. "created" \in TaskStates
  BY DEF TaskStates
<1>4. task' \in [Workers -> [Runs -> TaskStates]]
  BY <1>3 DEF Start, TypeOK
<1>5. ASSUME NEW v \in Workers, NEW m \in Runs
      PROVE  task'[v][m] = "none" <=> m > future'[v]
  <2>1. CASE v = w
    <3>1. future'[v] = future[w] + 1 /\ m \in Nat
      BY <1>1, <2>1 DEF Start, TypeOK, Runs
    <3>2. task[v][m] = "none" <=> m > future[w]
      BY <2>1 DEF TypeOK
    <3>3. CASE m = future[w] + 1
      <4>1. task'[v][m] = "created"
        BY <1>1, <2>1, <3>3 DEF Start, TypeOK
      <4> QED BY <1>1, <3>1, <3>3, <4>1
    <3>4. CASE m # future[w] + 1
      <4>1. task'[v][m] = task[v][m]
        BY <1>1, <2>1, <3>4 DEF Start, TypeOK
      <4> QED BY <1>1, <3>1, <3>2, <3>4, <4>1
    <3> QED BY <3>3, <3>4
  <2>2. CASE v # w
    BY <2>2 DEF Start, TypeOK
  <2> QED BY <2>1, <2>2
<1>6. stoppedAt' \in [Workers -> BOOLEAN]
  BY DEF Start, TypeOK
<1> QED BY <1>2, <1>4, <1>5, <1>6 DEF Start, TypeOK

\* A worker that is running has a last task.
LEMMA RunningTask ==
  ASSUME TypeOK, NEW w \in Workers, Running(w)
  PROVE  future[w] \in Runs
BY RunsAssumption DEF Running, TypeOK, Runs

LEMMA StopTypeOK ==
  ASSUME TypeOK, NEW c \in Controllers, NEW w \in Workers,
         NEW force \in BOOLEAN, Stop(c, w, force)
  PROVE  TypeOK'
<1>1. UNCHANGED <<future, task, place, hold>>
  BY DEF Stop
<1>2. ASSUME Running(w), Await(c, w, force)
      PROVE  ctl' \in [Controllers -> {Idle} \cup
                         [w : Workers, n : Runs, force : BOOLEAN]]
  BY <1>2, RunningTask DEF Await, TypeOK
<1>3. CASE StopNotRunning(w)
  BY <1>1, <1>3 DEF StopNotRunning, SetSleep, TypeOK
<1>4. CASE StopCancel(c, w, force)
  BY <1>1, <1>2, <1>4 DEF StopCancel, TypeOK
<1>5. CASE StopGraceful(c, w, force)
  BY <1>1, <1>2, <1>5 DEF StopGraceful, TypeOK
<1> QED BY <1>3, <1>4, <1>5 DEF Stop

LEMMA StopReturnsTypeOK ==
  ASSUME TypeOK, NEW c \in Controllers, StopReturns(c)
  PROVE  TypeOK'
BY DEF StopReturns, SetSleep, TypeOK

LEMMA ArriveTypeOK ==
  ASSUME TypeOK, NEW i \in Items, Arrive(i)
  PROVE  TypeOK'
BY DEF Arrive, TypeOK, Places

LEMMA InitTypeOK ==
  ASSUME Init
  PROVE  TypeOK
BY RunsAssumption DEF Init, TypeOK, TaskStates, Places, Runs

LEMMA NextTypeOK ==
  ASSUME TypeOK, [Next]_workerVars
  PROVE  TypeOK'
<1>1. CASE UNCHANGED workerVars
  BY <1>1 DEF workerVars, TypeOK
<1>2. CASE Next
  BY <1>2, WorkersAssumption, RunnerTypeOK, StartTypeOK, StopTypeOK,
     StopReturnsTypeOK, ArriveTypeOK DEF Next
<1> QED BY <1>1, <1>2

\* start, stop and the runner keep the shape of the state: a task is there
\* exactly when its number is not above that of the last one.
THEOREM TypeCorrect == Spec => []TypeOK
BY InitTypeOK, NextTypeOK, PTL DEF Spec

-----------------------------------------------------------------------------
(* One runner                                                              *)

\* Only the last task of a worker is ever live.
LastAlive == \A w \in Workers, n \in Runs : Alive(w, n) => n = future[w]

LEMMA NextLastAlive ==
  ASSUME TypeOK, LastAlive, [Next]_workerVars
  PROVE  LastAlive'
<1> SUFFICES ASSUME NEW v \in Workers, NEW m \in Runs, Alive(v, m)'
             PROVE  m = future'[v]
  BY DEF LastAlive
<1>1. ASSUME NEW w \in Workers, NEW n \in Runs, RunnerStep(w, n)
      PROVE  m = future'[v]
  <2>1. UNCHANGED future /\ Alive(w, n) /\ \E s \in RunStates : GoTo(w, n, s)
    BY <1>1, RunnerFrame
  <2>2. Alive(v, m)
    BY <2>1 DEF GoTo, Alive, TypeOK
  <2> QED BY <2>1, <2>2 DEF LastAlive
<1>2. ASSUME NEW w \in Workers, Start(w)
      PROVE  m = future'[v]
  <2>1. CASE v = w
    <3>1. ~Alive(v, m) \/ m # future[v]
      BY <1>2, <2>1, RunsAssumption DEF Start, Running, Runs, TypeOK
    <3>2. ~Alive(v, m)
      BY <3>1 DEF LastAlive
    <3>3. m = future[v] + 1
      BY <1>2, <2>1, <3>2 DEF Start, Alive, TypeOK
    <3> QED BY <1>2, <2>1, <3>3 DEF Start, TypeOK
  <2>2. CASE v # w
    BY <1>2, <2>2 DEF Start, Alive, LastAlive, TypeOK
  <2> QED BY <2>1, <2>2
<1>3. CASE UNCHANGED <<future, task>>
  BY <1>3 DEF Alive, LastAlive
<1> QED BY <1>1, <1>2, <1>3
        DEF Next, Stop, StopReturns, Arrive, workerVars

\* start makes a task only when the last one is over, so however start and
\* stop are interleaved a worker never has two live tasks.
THEOREM OneRunnerHolds == Spec => []OneRunner
<1> DEFINE Inv == TypeOK /\ LastAlive
<1>1. Init => Inv
  BY InitTypeOK DEF Init, LastAlive, Alive
<1>2. Inv /\ [Next]_workerVars => Inv'
  BY NextTypeOK, NextLastAlive
<1>3. Inv => OneRunner
  BY DEF LastAlive, OneRunner
<1> QED BY <1>1, <1>2, <1>3, PTL DEF Spec

-----------------------------------------------------------------------------
(* _is_sleep tells the truth.  What could spoil it is a stop that comes back *)
(* from its await after the worker was started again, and clears the flag.  *)

\* Whoever waits in stop waits for a task that exists.
AwaitsReal ==
  \A c \in Controllers, w \in Workers : ctl[c].w = w => ctl[c].n <= future[w]

\* As long as a stop has yet to come back from a task that is over, the task
\* that was started meanwhile has not run.
FreshWaits ==
  \A c \in Controllers, w \in Workers :
    ctl[c].w = w /\ task[w][ctl[c].n] \in Ended /\ Running(w)
      => task[w][future[w]] = "created"

SleepInv == TypeOK /\ LastAlive /\ AwaitsReal /\ FreshWaits /\ SleepFlagTrue

\* The call that a controller waits in is a number of the task of a worker.
LEMMA AwaitedTask ==
  ASSUME TypeOK, NEW c \in Controllers, NEW w \in Workers, ctl[c].w = w
  PROVE  ctl[c].n \in Runs /\ ctl[c] # Idle
BY NoneAssumption DEF TypeOK, Idle

LEMMA NextAwaitsReal ==
  ASSUME TypeOK, AwaitsReal, [Next]_workerVars
  PROVE  AwaitsReal'
<1> SUFFICES ASSUME NEW c \in Controllers, NEW v \in Workers, ctl'[c].w = v
             PROVE  ctl'[c].n <= future'[v]
  BY DEF AwaitsReal
<1>1. CASE UNCHANGED <<ctl, future>>
  BY <1>1 DEF AwaitsReal
<1>2. ASSUME NEW w \in Workers, NEW n \in Runs, RunnerStep(w, n)
      PROVE  UNCHANGED <<ctl, future>>
  BY <1>2, RunnerFrame
<1>3. ASSUME NEW w \in Workers, Start(w)
      PROVE  ctl'[c].n <= future'[v]
  <2>1. ctl' = ctl /\ ctl[c].n \in Int /\ future[v] \in Int
    BY <1>3, AwaitedTask DEF Start, TypeOK, Runs
  <2>2. future'[v] >= future[v]
    BY <1>3, <2>1 DEF Start, TypeOK
  <2>3. future'[v] \in Int
    BY <1>3, <2>1 DEF Start, TypeOK
  <2> QED BY <2>1, <2>2, <2>3 DEF AwaitsReal
<1>4. ASSUME NEW d \in Controllers, NEW w \in Workers, NEW force \in Forced,
             Stop(d, w, force)
      PROVE  ctl'[c].n <= future'[v]
  <2>1. UNCHANGED future
    BY <1>4 DEF Stop
  <2>2. CASE UNCHANGED ctl
    BY <1>1, <2>1, <2>2
  <2>3. CASE Await(d, w, force)
    <3>1. CASE c = d
      <4>1. ctl'[c] = [w |-> w, n |-> future[w], force |-> force]
        BY <2>3, <3>1 DEF Await, TypeOK
      <4> QED BY <2>1, <4>1 DEF TypeOK
    <3>2. CASE c # d
      BY <2>1, <2>3, <3>2 DEF Await, AwaitsReal, TypeOK
    <3> QED BY <3>1, <3>2
  <2> QED BY <1>4, <2>2, <2>3
          DEF Stop, StopNotRunning, StopCancel, StopGraceful
<1>5. ASSUME NEW d \in Controllers, StopReturns(d)
      PROVE  ctl'[c].n <= future'[v]
  <2>1. c # d
    BY <1>5, NoneAssumption DEF StopReturns, Idle, TypeOK
  <2> QED BY <1>5, <2>1 DEF StopReturns, AwaitsReal, TypeOK
<1> QED BY <1>1, <1>2, <1>3, <1>4, <1>5 DEF Next, Arrive, workerVars
\* A step of a runner is a step of the last task of its worker.
LEMMA RunnerMoves ==
  ASSUME TypeOK, LastAlive, NEW w \in Workers, NEW n \in Runs, RunnerStep(w, n)
  PROVE  /\ n = future[w] /\ Running(w)
         /\ \A v \in Workers : v # w => task'[v] = task[v]
         /\ \A m \in Runs : m # n => task'[w][m] = task[w][m]
         /\ task'[w][n] \in RunStates /\ SleepFollows(w, n, task'[w][n])
         /\ UNCHANGED <<future, ctl>>
<1>1. PICK s \in RunStates : GoTo(w, n, s) /\ SleepFollows(w, n, s)
  BY RunnerFrame
<1>2. Alive(w, n) /\ UNCHANGED <<future, ctl>>
  BY RunnerFrame
<1>3. n = future[w] /\ Running(w)
  BY <1>2 DEF LastAlive, Running, Runs
<1>4. task'[w][n] = s
  BY <1>1 DEF GoTo, TypeOK
<1> QED BY <1>1, <1>2, <1>3, <1>4 DEF GoTo, TypeOK

\* A task that has not run is not run before the stops of an earlier one are
\* back; this is what the order of the ready queue gives.
LEMMA FirstAfterStops ==
  ASSUME TypeOK, LastAlive, FreshWaits, NEW w \in Workers, NEW n \in Runs,
         RunnerStep(w, n), task'[w][n] \notin Ended
  PROVE  \A c \in Controllers : ctl[c].w = w => task[w][ctl[c].n] \notin Ended
<1>1. n = future[w] /\ Running(w)
  BY RunnerMoves
<1>2. CASE task[w][n] # "created"
  BY <1>1, <1>2 DEF FreshWaits
<1>3. CASE task[w][n] = "created"
  <2>1. FirstStep(w, n) \/ Cancelled(w, n)
    BY <1>3 DEF RunnerStep, FirstStep, Wake, TakeItem, RunDone, PutDone,
                WorkError, At, Working
  <2>2. ~Cancelled(w, n)
    BY DEF Cancelled, GoTo, TypeOK, Ended
  <2> QED BY <2>1, <2>2 DEF FirstStep
<1> QED BY <1>2, <1>3

LEMMA NextFreshWaits ==
  ASSUME TypeOK, LastAlive, AwaitsReal, FreshWaits, [Next]_workerVars
  PROVE  FreshWaits'
<1> SUFFICES ASSUME NEW c \in Controllers, NEW v \in Workers, ctl'[c].w = v,
                    task'[v][ctl'[c].n] \in Ended, Running(v)'
             PROVE  task'[v][future'[v]] = "created"
  BY DEF FreshWaits
<1>1. CASE UNCHANGED <<ctl, future, task>>
  BY <1>1 DEF FreshWaits, Running, Alive
<1>2. ASSUME NEW w \in Workers, NEW n \in Runs, RunnerStep(w, n)
      PROVE  task'[v][future'[v]] = "created"
  <2>1. /\ n = future[w] /\ Running(w) /\ UNCHANGED <<future, ctl>>
        /\ \A u \in Workers : u # w => task'[u] = task[u]
        /\ \A m \in Runs : m # n => task'[w][m] = task[w][m]
    BY <1>2, RunnerMoves
  <2>2. CASE v # w
    BY <2>1, <2>2 DEF FreshWaits, Running, Alive
  <2>3. CASE v = w
    <3>1. task'[w][n] \notin Ended
      BY <2>1, <2>3 DEF Running, Alive
    <3>2. task[w][ctl[c].n] \notin Ended
      BY <1>2, <2>1, <2>3, <3>1, FirstAfterStops
    <3>3. ctl[c].n \in Runs
      BY <2>1, <2>3, AwaitedTask
    <3> QED BY <2>1, <2>3, <3>1, <3>2, <3>3
  <2> QED BY <2>2, <2>3
<1>3. ASSUME NEW w \in Workers, Start(w)
      PROVE  task'[v][future'[v]] = "created"
  <2>1. CASE v = w
    <3>1. future[w] + 1 \in Runs
      BY <1>3, RunsAssumption DEF Start, TypeOK, Runs
    <3> QED BY <1>3, <2>1, <3>1 DEF Start, TypeOK
  <2>2. CASE v # w
    BY <1>3, <2>2 DEF Start, FreshWaits, Running, Alive, TypeOK
  <2> QED BY <2>1, <2>2
<1>4. ASSUME NEW d \in Controllers, NEW w \in Workers, NEW force \in Forced,
             Stop(d, w, force)
      PROVE  task'[v][future'[v]] = "created"
  <2>1. UNCHANGED <<future, task>>
    BY <1>4 DEF Stop
  <2>2. CASE UNCHANGED ctl
    BY <1>1, <2>1, <2>2
  <2>3. CASE Await(d, w, force) /\ Running(w)
    <3>1. CASE c = d
      <4>1. ctl'[c] = [w |-> w, n |-> future[w], force |-> force]
        BY <2>3, <3>1 DEF Await, TypeOK
      <4> QED BY <2>1, <2>3, <4>1 DEF Running, Alive
    <3>2. CASE c # d
      <4>1. ctl'[c] = ctl[c]
        BY <2>3, <3>2 DEF Await, TypeOK
      <4> QED BY <2>1, <4>1 DEF FreshWaits, Running, Alive
    <3> QED BY <3>1, <3>2
  <2> QED BY <1>4, <2>2, <2>3
          DEF Stop, StopNotRunning, StopCancel, StopGraceful
<1>5. ASSUME NEW d \in Controllers, StopReturns(d)
      PROVE  task'[v][future'[v]] = "created"
  <2>1. c # d
    BY <1>5, NoneAssumption DEF StopReturns, Idle, TypeOK
  <2>2. ctl'[c] = ctl[c] /\ UNCHANGED <<future, task>>
    BY <1>5, <2>1 DEF StopReturns, TypeOK
  <2> QED BY <2>2 DEF FreshWaits, Running, Alive
<1> QED BY <1>1, <1>2, <1>3, <1>4, <1>5 DEF Next, Arrive, workerVars

LEMMA NextSleepFlagTrue ==
  ASSUME SleepInv, [Next]_workerVars
  PROVE  SleepFlagTrue'
<1> USE DEF SleepInv
<1> SUFFICES ASSUME NEW v \in Workers, Running(v)'
             PROVE  /\ task'[v][future'[v]] \in Working => isSleep'[v] = "no"
                    /\ task'[v][future'[v]] \in Sleeping => isSleep'[v] = "yes"
  BY DEF SleepFlagTrue
<1> DEFINE Goal == /\ task'[v][future'[v]] \in Working => isSleep'[v] = "no"
                   /\ task'[v][future'[v]] \in Sleeping => isSleep'[v] = "yes"
<1>1. CASE UNCHANGED <<future, task>> /\ isSleep'[v] = isSleep[v]
  BY <1>1 DEF SleepFlagTrue, Running, Alive
<1>2. ASSUME NEW w \in Workers, NEW n \in Runs, RunnerStep(w, n)
      PROVE  Goal
  <2>1. /\ n = future[w] /\ Running(w) /\ UNCHANGED future
        /\ \A u \in Workers : u # w => task'[u] = task[u]
        /\ SleepFollows(w, n, task'[w][n])
    BY <1>2, RunnerMoves
  <2>2. CASE v # w
    <3>1. isSleep'[v] = isSleep[v]
      BY <2>1, <2>2 DEF SleepFollows, SetSleep, TypeOK
    <3> QED BY <2>1, <2>2, <3>1 DEF SleepFlagTrue, Running, Alive
  <2>3. CASE v = w
    BY <2>1, <2>3 DEF SleepFollows, SetSleep, SleepFlagTrue, TypeOK, Running,
                      Alive, Working, Sleeping, Ended
  <2> QED BY <2>2, <2>3
<1>3. ASSUME NEW w \in Workers, Start(w)
      PROVE  Goal
  <2>1. CASE v = w
    <3>1. future[w] + 1 \in Runs
      BY <1>3, RunsAssumption DEF Start, TypeOK, Runs
    <3>2. task'[v][future'[v]] = "created"
      BY <1>3, <2>1, <3>1 DEF Start, TypeOK
    <3> QED BY <3>2 DEF Working, Sleeping
  <2>2. CASE v # w
    BY <1>3, <2>2 DEF Start, SleepFlagTrue, Running, Alive, TypeOK
  <2> QED BY <2>1, <2>2
<1>4. ASSUME NEW d \in Controllers, NEW w \in Workers, NEW force \in Forced,
             Stop(d, w, force)
      PROVE  Goal
  <2>1. UNCHANGED <<future, task>>
    BY <1>4 DEF Stop
  <2>2. UNCHANGED isSleep \/ (StopNotRunning(w) /\ ~Running(w))
    BY <1>4 DEF Stop, StopNotRunning, StopCancel, StopGraceful
  <2>3. v # w \/ UNCHANGED isSleep
    BY <2>1, <2>2 DEF Running, Alive
  <2>4. isSleep'[v] = isSleep[v]
    BY <2>2, <2>3 DEF StopNotRunning, SetSleep, TypeOK
  <2> QED BY <1>1, <2>1, <2>4
<1>5. ASSUME NEW d \in Controllers, StopReturns(d)
      PROVE  Goal
  <2>1. UNCHANGED <<future, task>> /\ SetSleep(ctl[d].w, "none")
    BY <1>5 DEF StopReturns
  <2>2. CASE v = ctl[d].w
    <3>1. task[v][future[v]] = "created"
      BY <1>5, <2>1, <2>2 DEF StopReturns, FreshWaits, Running, Alive
    <3> QED BY <2>1, <3>1 DEF Working, Sleeping
  <2>3. CASE v # ctl[d].w
    BY <1>1, <2>1, <2>3 DEF SetSleep, TypeOK
  <2> QED BY <2>2, <2>3
<1> QED BY <1>1, <1>2, <1>3, <1>4, <1>5 DEF Next, Arrive, workerVars

LEMMA InitSleepInv ==
  ASSUME Init
  PROVE  SleepInv
BY InitTypeOK, NoneAssumption
DEF SleepInv, Init, LastAlive, AwaitsReal, FreshWaits, SleepFlagTrue, Running,
    Alive, Idle

LEMMA NextSleepInv ==
  ASSUME SleepInv, [Next]_workerVars
  PROVE  SleepInv'
BY NextTypeOK, NextLastAlive, NextAwaitsReal, NextFreshWaits, NextSleepFlagTrue
DEF SleepInv

\* stop spares a worker at work because of _is_sleep, which a late stop clears
\* behind the back of a worker that was started again: the flag nevertheless
\* tells the truth about a live task.
THEOREM SleepFlagTrueHolds == Spec => []SleepFlagTrue
<1>1. SleepInv => SleepFlagTrue
  BY DEF SleepInv
<1> QED BY <1>1, InitSleepInv, NextSleepInv, PTL DEF Spec
-----------------------------------------------------------------------------
(* A job is lost only by force                                             *)

\* Only a task in run or in put has an item in its hands.
HoldsInWork ==
  \A w \in Workers, n \in Runs :
    hold[w][n] # None => task[w][n] \in {"run", "put"}

\* A task cancelled at work has somebody waiting for it in a forced stop.
ForcedCancel ==
  \A w \in Workers, n \in Runs :
    cancel[w][n] /\ task[w][n] \in Working =>
      \E c \in Controllers : ctl[c] = [w |-> w, n |-> n, force |-> TRUE]

LossInv == SleepInv /\ HoldsInWork /\ ForcedCancel

\* Whoever takes an item goes on to run it, and who lets go has empty hands.
LEMMA RunnerHolds ==
  ASSUME TypeOK, HoldsInWork, NEW w \in Workers, NEW n \in Runs,
         RunnerStep(w, n)
  PROVE  /\ \A v \in Workers : v # w => hold'[v] = hold[v]
         /\ \A m \in Runs : m # n => hold'[w][m] = hold[w][m]
         /\ hold'[w][n] # None => task'[w][n] \in {"run", "put"}
<1> USE DEF TypeOK, GoTo
<1>1. CASE FirstStep(w, n) \/ Wake(w, n)
  BY <1>1 DEF FirstStep, Wake, At, HoldsInWork, Sleeping
<1>2. CASE TakeItem(w, n)
  BY <1>2 DEF TakeItem
<1>3. CASE hold' = [hold EXCEPT ![w][n] = None]
  BY <1>3
<1>4. CASE RunDone(w, n) /\ w \in Outputs
  BY <1>3, <1>4 DEF RunDone, EndWork
<1> QED BY <1>1, <1>2, <1>3, <1>4
        DEF RunnerStep, RunDone, PutDone, WorkError, Cancelled, EndWork

LEMMA NextHoldsInWork ==
  ASSUME TypeOK, LastAlive, HoldsInWork, [Next]_workerVars
  PROVE  HoldsInWork'
<1>1. CASE UNCHANGED <<task, hold>>
  BY <1>1 DEF HoldsInWork
<1>2. ASSUME NEW w \in Workers, NEW n \in Runs, RunnerStep(w, n)
      PROVE  HoldsInWork'
  <2>1. /\ \A v \in Workers : v # w => task'[v] = task[v]
        /\ \A m \in Runs : m # n => task'[w][m] = task[w][m]
    BY <1>2, RunnerMoves
  <2>2. /\ \A v \in Workers : v # w => hold'[v] = hold[v]
        /\ \A m \in Runs : m # n => hold'[w][m] = hold[w][m]
        /\ hold'[w][n] # None => task'[w][n] \in {"run", "put"}
    BY <1>2, RunnerHolds
  <2> QED BY <2>1, <2>2 DEF HoldsInWork
<1>3. ASSUME NEW w \in Workers, Start(w)
      PROVE  HoldsInWork'
  <2>1. future[w] + 1 \in Runs
    BY <1>3, RunsAssumption DEF Start, TypeOK, Runs
  <2>2. task[w][future[w] + 1] = "none"
    BY <2>1 DEF TypeOK, Runs
  <2>3. hold[w][future[w] + 1] = None
    BY <2>1, <2>2 DEF HoldsInWork
  <2>4. ASSUME NEW v \in Workers, NEW m \in Runs, v # w \/ m # future[w] + 1
        PROVE  task'[v][m] = task[v][m]
    BY <1>3, <2>1, <2>4 DEF Start, TypeOK
  <2> QED BY <1>3, <2>3, <2>4 DEF Start, HoldsInWork
<1> QED BY <1>1, <1>2, <1>3 DEF Next, Stop, StopReturns, Arrive, workerVars

LEMMA NextForcedCancel ==
  ASSUME LossInv, [Next]_workerVars
  PROVE  ForcedCancel'
<1> USE DEF LossInv, SleepInv
<1> DEFINE Waits(v, m, k) == k = [w |-> v, n |-> m, force |-> TRUE]
<1> SUFFICES ASSUME NEW v \in Workers, NEW m \in Runs, cancel'[v][m],
                    task'[v][m] \in Working
             PROVE  \E c \in Controllers : Waits(v, m, ctl'[c])
  BY DEF ForcedCancel
<1> HIDE DEF Waits
<1>0. ASSUME cancel[v][m], task[v][m] \in Working
      PROVE  \E c \in Controllers : Waits(v, m, ctl[c])
  BY <1>0 DEF ForcedCancel, Waits
<1>1. CASE UNCHANGED <<ctl, cancel, task>>
  BY <1>0, <1>1
<1>2. ASSUME NEW w \in Workers, NEW n \in Runs, RunnerStep(w, n)
      PROVE  \E c \in Controllers : Waits(v, m, ctl'[c])
  <2>1. UNCHANGED <<ctl, cancel>>
    BY <1>2, RunnerFrame
  <2>2. CASE v = w /\ m = n
    <3>1. PICK s \in RunStates : GoTo(w, n, s) /\ (s = "cancelled" <=> cancel[w][n])
      BY <1>2, RunnerFrame
    <3>2. task'[v][m] = "cancelled"
      BY <2>1, <2>2, <3>1 DEF GoTo, TypeOK
    <3> QED BY <3>2 DEF Working
  <2>3. CASE v # w \/ m # n
    <3>1. task'[v][m] = task[v][m]
      BY <1>2, <2>3, RunnerMoves
    <3> QED BY <1>0, <2>1, <3>1
  <2> QED BY <2>2, <2>3
<1>3. ASSUME NEW w \in Workers, Start(w)
      PROVE  \E c \in Controllers : Waits(v, m, ctl'[c])
  <2>1. UNCHANGED <<ctl, cancel>>
    BY <1>3 DEF Start
  <2>2. task'[v][m] = task[v][m]
    BY <1>3 DEF Start, TypeOK, Working
  <2> QED BY <1>0, <2>1, <2>2
<1>4. ASSUME NEW d \in Controllers, NEW w \in Workers, NEW force \in Forced,
             Stop(d, w, force)
      PROVE  \E c \in Controllers : Waits(v, m, ctl'[c])
  <2>1. ctl[d] = Idle /\ UNCHANGED <<future, task>>
    BY <1>4 DEF Stop
  <2>2. \A c \in Controllers : c # d => ctl'[c] = ctl[c]
    BY <1>4 DEF Stop, StopNotRunning, StopCancel, StopGraceful, Await, TypeOK
  <2>3. CASE cancel[v][m]
    <3>1. PICK c \in Controllers : Waits(v, m, ctl[c])
      BY <1>0, <2>1, <2>3
    <3>2. c # d
      BY <2>1, <3>1, NoneAssumption DEF Waits, Idle
    <3> QED BY <2>2, <3>1, <3>2
  <2>4. CASE ~cancel[v][m]
    <3>1. StopCancel(d, w, force)
      BY <1>4, <2>4 DEF Stop, StopNotRunning, StopGraceful
    <3>2. v = w /\ m = future[w] /\ Running(w)
      BY <2>4, <3>1 DEF StopCancel, TypeOK
    <3>3. isSleep[w] = "no"
      BY <2>1, <3>2 DEF SleepFlagTrue
    <3>4. force = TRUE
      BY <3>1, <3>3, WorkersAssumption DEF StopCancel
    <3>5. ctl'[d] = [w |-> v, n |-> m, force |-> TRUE]
      BY <3>1, <3>2, <3>4 DEF StopCancel, Await, TypeOK
    <3> QED BY <3>5 DEF Waits
  <2> QED BY <2>3, <2>4
<1>5. ASSUME NEW d \in Controllers, StopReturns(d)
      PROVE  \E c \in Controllers : Waits(v, m, ctl'[c])
  <2>1. PICK c \in Controllers : Waits(v, m, ctl[c])
    BY <1>0, <1>5 DEF StopReturns
  <2>2. c # d
    BY <1>5, <2>1 DEF StopReturns, Waits, Working, Ended
  <2> QED BY <1>5, <2>1, <2>2 DEF StopReturns, TypeOK
<1> QED BY <1>1, <1>2, <1>3, <1>4, <1>5 DEF Next, Arrive, workerVars

\* An item gets lost only out of the hands of a task that is cancelled.
LEMMA LosingStep ==
  ASSUME TypeOK, [Next]_workerVars, NEW i \in Items, place'[i] = "lost",
         place[i] # "lost"
  PROVE  \E w \in Workers, n \in Runs : Cancelled(w, n) /\ hold[w][n] = i
<1>1. place' # place
  OBVIOUS
<1>2. \A j \in Items : ~Arrive(j)
  BY DEF Arrive, TypeOK
<1>3. PICK w \in Workers, n \in Runs : RunnerStep(w, n)
  <2>1. Next
    BY <1>1 DEF workerVars
  <2>2. /\ \A w \in Workers : Start(w) => UNCHANGED place
        /\ \A c \in Controllers, w \in Workers, force \in Forced :
             Stop(c, w, force) => UNCHANGED place
        /\ \A c \in Controllers : StopReturns(c) => UNCHANGED place
    BY DEF Start, Stop, StopReturns
  <2> QED BY <1>1, <1>2, <2>1, <2>2 DEF Next
<1>4. ASSUME NEW pl, Settle(w, n, pl)
      PROVE  hold[w][n] = i /\ pl = "lost"
  BY <1>4 DEF Settle, TypeOK
<1>5. ~FirstStep(w, n) /\ ~Wake(w, n)
  BY <1>1 DEF FirstStep, Wake
<1>6. ~TakeItem(w, n)
  BY DEF TakeItem, TypeOK
<1>7. ~RunDone(w, n) /\ ~PutDone(w, n) /\ ~WorkError(w, n)
  BY <1>1, <1>4 DEF RunDone, PutDone, WorkError
<1>8. Cancelled(w, n)
  BY <1>3, <1>5, <1>6, <1>7 DEF RunnerStep
<1> QED BY <1>4, <1>8 DEF Cancelled

LEMMA InitLossInv ==
  ASSUME Init
  PROVE  LossInv
BY InitSleepInv DEF LossInv, Init, HoldsInWork, ForcedCancel

LEMMA NextLossInv ==
  ASSUME LossInv, [Next]_workerVars
  PROVE  LossInv'
BY NextSleepInv, NextHoldsInWork, NextForcedCancel DEF LossInv, SleepInv

LEMMA LossStep ==
  ASSUME LossInv, [Next]_workerVars, NEW i \in Items, place'[i] = "lost",
         place[i] # "lost"
  PROVE  \E c \in Controllers, w \in Workers, n \in Runs :
           /\ hold[w][n] = i
           /\ ctl[c] = [w |-> w, n |-> n, force |-> TRUE]
<1>1. PICK w \in Workers, n \in Runs : Cancelled(w, n) /\ hold[w][n] = i
  BY LosingStep DEF LossInv, SleepInv
<1>2. task[w][n] \in Working
  BY <1>1, NoneAssumption DEF LossInv, HoldsInWork, Working
<1>3. cancel[w][n]
  BY <1>1 DEF Cancelled
<1>4. \E c \in Controllers : ctl[c] = [w |-> w, n |-> n, force |-> TRUE]
  BY <1>2, <1>3 DEF LossInv, ForcedCancel
<1> QED BY <1>1, <1>4

\* A graceful stop lets a running job finish: an item is thrown away only when
\* its own task is stopped with force.
THEOREM LostOnlyByForceHolds == Spec => LostOnlyByForce
<1>1. LossInv /\ [Next]_workerVars =>
        [\A i \in Items : place'[i] = "lost" /\ place[i] # "lost" =>
           \E c \in Controllers, w \in Workers, n \in Runs :
             /\ hold[w][n] = i
             /\ ctl[c] = [w |-> w, n |-> n, force |-> TRUE]]_workerVars
  BY LossStep
<1> QED BY <1>1, InitLossInv, NextLossInv, PTL DEF Spec, LostOnlyByForce
=============================================================================
