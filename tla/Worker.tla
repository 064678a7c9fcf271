------------------------------- MODULE Worker -------------------------------
(***************************************************************************)
(* aioworkers.worker.base.Worker: start, stop, running, runner and work of *)
(* a set of workers in one event loop, driven by controllers (the context, *)
(* a supervisor, user code) that call start and stop and that wait while   *)
(* stop awaits the runner.  One step is the code between two awaits.       *)
(*                                                                         *)
(* Every start that finds the worker not running makes a new task: task n  *)
(* of worker w is in state task[w][n].  Counters and logs are left out.    *)
(***************************************************************************)
EXTENDS Integers, FiniteSets

CONSTANTS
  Workers, Controllers, Items,
  Inputs, Outputs,         \* workers with an input and with an output
  Sleeps, SleepStarts,     \* workers configured with sleep, sleep_start
  Crons, Persists,         \* ... with crontab, persist
  Forced,                  \* values of stop's force argument in use
  MaxRuns,                 \* bound on the tasks of a worker
  None

ASSUME WorkersAssumption ==
  /\ Inputs \subseteq Workers /\ Outputs \subseteq Workers
  /\ Sleeps \subseteq Workers /\ SleepStarts \subseteq Workers
  /\ Crons \subseteq Workers /\ Persists \subseteq Workers
  /\ Forced \subseteq BOOLEAN
ASSUME RunsAssumption == MaxRuns \in Nat
ASSUME NoneAssumption == None \notin Workers \cup Items

VARIABLES
  future,     \* the last task of each worker, 0 for _future = None
  task,       \* where each task is
  cancel,     \* Task.cancel was called and is not delivered yet
  isSleep,    \* _is_sleep: "none", "yes" or "no"
  persist,    \* _persist
  stoppedAt,  \* _stopped_at is set
  ctl,        \* the task each controller awaits in stop
  place,      \* where each item is
  hold        \* the item each task is working on

workerVars ==
  <<future, task, cancel, isSleep, persist, stoppedAt, ctl, place, hold>>

Runs == 1..MaxRuns
Sleeping == {"sleep_start", "crontab", "sleep"}
Working == {"get", "run", "put"}
Ended == {"ended", "cancelled"}
TaskStates == {"none", "created"} \cup Sleeping \cup Working \cup Ended
Places == {"new", "inbox", "held", "done", "failed", "lost"}
Idle == [w |-> None, n |-> 0, force |-> FALSE]

Init ==
  /\ future = [w \in Workers |-> 0]
  /\ task = [w \in Workers |-> [n \in Runs |-> "none"]]
  /\ cancel = [w \in Workers |-> [n \in Runs |-> FALSE]]
  /\ isSleep = [w \in Workers |-> "none"]
  /\ persist = [w \in Workers |->
                  w \in Inputs \cup Outputs \cup Crons \cup Persists]
  /\ stoppedAt = [w \in Workers |-> FALSE]
  /\ ctl = [c \in Controllers |-> Idle]
  /\ place = [i \in Items |-> "new"]
  /\ hold = [w \in Workers |-> [n \in Runs |-> None]]

\* A task that exists and is not done.
Alive(w, n) == task[w][n] \notin Ended \cup {"none"}

\* running()
Running(w) == future[w] # 0 /\ Alive(w, future[w])

-----------------------------------------------------------------------------
(* runner and work                                                         *)

GoTo(w, n, s) == task' = [task EXCEPT ![w][n] = s]
SetSleep(w, b) == isSleep' = [isSleep EXCEPT ![w] = b]

\* Mutant of BeginWork: _is_sleep is not cleared before the input is awaited.
BeginWorkUnmarked(w, n) ==
  /\ SetSleep(w, "yes")
  /\ GoTo(w, n, IF w \in Inputs THEN "get" ELSE "run")

\* work up to its first await.
BeginWork(w, n) ==
  /\ SetSleep(w, "no")
  /\ GoTo(w, n, IF w \in Inputs THEN "get" ELSE "run")

\* The head of the loop of runner; _is_sleep is True here.
Iterate(w, n) ==
  IF w \in Crons THEN GoTo(w, n, "crontab") /\ SetSleep(w, "yes")
  ELSE BeginWork(w, n)

\* After work, done or failed.
EndWork(w, n) ==
  /\ hold' = [hold EXCEPT ![w][n] = None]
  /\ \/ /\ ~persist[w]
        /\ GoTo(w, n, "ended") /\ SetSleep(w, "yes")
        /\ stoppedAt' = [stoppedAt EXCEPT ![w] = TRUE]
     \/ /\ persist[w] /\ w \in Sleeps
        /\ GoTo(w, n, "sleep") /\ SetSleep(w, "yes")
        /\ UNCHANGED stoppedAt
     \/ /\ persist[w] /\ w \notin Sleeps
        /\ Iterate(w, n)
        /\ UNCHANGED stoppedAt

\* The item in hand, if any, ends up at pl.
Settle(w, n, pl) ==
  place' = IF hold[w][n] = None THEN place
           ELSE [place EXCEPT ![hold[w][n]] = pl]

\* The task may make a step of its own: a cancelled task only ends.
At(w, n, s) == task[w][n] = s /\ ~cancel[w][n]

\* A new task is run after the callbacks already in the ready queue of the
\* loop: whoever awaited the previous task of the worker goes first.
FirstStep(w, n) ==
  /\ At(w, n, "created")
  /\ \A c \in Controllers :
       ctl[c].w = w => task[w][ctl[c].n] \notin Ended
  /\ IF w \in SleepStarts
     THEN GoTo(w, n, "sleep_start") /\ SetSleep(w, "yes")
     ELSE Iterate(w, n)
  /\ UNCHANGED <<future, cancel, persist, stoppedAt, ctl, place, hold>>

Wake(w, n) ==
  /\ \/ (At(w, n, "sleep_start") \/ At(w, n, "sleep")) /\ Iterate(w, n)
     \/ At(w, n, "crontab") /\ BeginWork(w, n)
  /\ UNCHANGED <<future, cancel, persist, stoppedAt, ctl, place, hold>>

\* input.get returns an item (which one is the queue's business).
TakeItem(w, n) ==
  /\ At(w, n, "get")
  /\ \E i \in Items :
       /\ place[i] = "inbox"
       /\ place' = [place EXCEPT ![i] = "held"]
       /\ hold' = [hold EXCEPT ![w][n] = i]
  /\ GoTo(w, n, "run")
  /\ UNCHANGED <<future, cancel, isSleep, persist, stoppedAt, ctl>>

\* run returns; the result goes to the output or nowhere.
RunDone(w, n) ==
  /\ At(w, n, "run")
  /\ \/ /\ w \in Outputs
        /\ GoTo(w, n, "put")
        /\ UNCHANGED <<isSleep, stoppedAt, place, hold>>
     \/ /\ w \notin Outputs
        /\ Settle(w, n, "done")
        /\ EndWork(w, n)
  /\ UNCHANGED <<future, cancel, persist, ctl>>

PutDone(w, n) ==
  /\ At(w, n, "put")
  /\ Settle(w, n, "done")
  /\ EndWork(w, n)
  /\ UNCHANGED <<future, cancel, persist, ctl>>

\* input.get, run or output.put raises: runner counts the error and goes on.
WorkError(w, n) ==
  /\ \E s \in Working : At(w, n, s)
  /\ Settle(w, n, "failed")
  /\ EndWork(w, n)
  /\ UNCHANGED <<future, cancel, persist, ctl>>

\* CancelledError ends the task; a task that never ran has no finally.
Cancelled(w, n) ==
  /\ cancel[w][n] /\ Alive(w, n)
  /\ GoTo(w, n, "cancelled")
  /\ stoppedAt' = [stoppedAt EXCEPT ![w] = @ \/ task[w][n] # "created"]
  /\ Settle(w, n, "lost")
  /\ hold' = [hold EXCEPT ![w][n] = None]
  /\ UNCHANGED <<future, cancel, isSleep, persist, ctl>>

-----------------------------------------------------------------------------
(* start and stop                                                          *)

\* Mutant of Start: _stopped_at is asked instead of the task.
StartByDate(w) ==
  /\ future[w] = 0 \/ stoppedAt[w]
  /\ future[w] < MaxRuns
  /\ future' = [future EXCEPT ![w] = @ + 1]
  /\ task' = [task EXCEPT ![w][future[w] + 1] = "created"]
  /\ stoppedAt' = [stoppedAt EXCEPT ![w] = FALSE]
  /\ UNCHANGED <<cancel, isSleep, persist, ctl, place, hold>>

\* Mutant of Start: the new task is not stored.
StartUnstored(w) ==
  /\ ~Running(w) /\ future[w] < MaxRuns
  /\ task' = [task EXCEPT ![w][future[w] + 1] = "created"]
  /\ stoppedAt' = [stoppedAt EXCEPT ![w] = FALSE]
  /\ UNCHANGED <<future, cancel, isSleep, persist, ctl, place, hold>>

\* start of a worker that is not running (of a running one it does nothing).
Start(w) ==
  /\ ~Running(w) /\ future[w] < MaxRuns
  /\ future' = [future EXCEPT ![w] = @ + 1]
  /\ task' = [task EXCEPT ![w][future[w] + 1] = "created"]
  /\ stoppedAt' = [stoppedAt EXCEPT ![w] = FALSE]
  /\ UNCHANGED <<cancel, isSleep, persist, ctl, place, hold>>

Await(c, w, force) ==
  ctl' = [ctl EXCEPT ![c] = [w |-> w, n |-> future[w], force |-> force]]

StopNotRunning(w) ==
  /\ ~Running(w)
  /\ SetSleep(w, "none")
  /\ UNCHANGED <<cancel, persist, stoppedAt, ctl>>

\* Mutant of StopCancel: a forced stop cancels a sleeping worker only.
StopCancelSleeping(c, w, force) ==
  /\ Running(w) /\ (force \/ isSleep[w] = "yes")
  /\ cancel' = [cancel EXCEPT ![w][future[w]] = isSleep[w] = "yes"]
  /\ stoppedAt' = [stoppedAt EXCEPT ![w] = TRUE]
  /\ Await(c, w, force)
  /\ UNCHANGED <<isSleep, persist>>

StopCancel(c, w, force) ==
  /\ Running(w) /\ (force \/ isSleep[w] = "yes")
  /\ cancel' = [cancel EXCEPT ![w][future[w]] = TRUE]
  /\ stoppedAt' = [stoppedAt EXCEPT ![w] = TRUE]
  /\ Await(c, w, force)
  /\ UNCHANGED <<isSleep, persist>>

StopGraceful(c, w, force) ==
  /\ Running(w) /\ ~(force \/ isSleep[w] = "yes")
  /\ persist' = [persist EXCEPT ![w] = FALSE]
  /\ Await(c, w, force)
  /\ UNCHANGED <<cancel, isSleep, stoppedAt>>

Stop(c, w, force) ==
  /\ ctl[c] = Idle
  /\ \/ StopNotRunning(w)
     \/ StopCancel(c, w, force)
     \/ StopGraceful(c, w, force)
  /\ UNCHANGED <<future, task, place, hold>>

\* The awaited task is done, by itself or cancelled.
StopReturns(c) ==
  /\ ctl[c] # Idle
  /\ task[ctl[c].w][ctl[c].n] \in Ended
  /\ SetSleep(ctl[c].w, "none")
  /\ ctl' = [ctl EXCEPT ![c] = Idle]
  /\ UNCHANGED <<future, task, cancel, persist, stoppedAt, place, hold>>

-----------------------------------------------------------------------------
(* The surroundings.                                                       *)

\* An item is put to the input of the workers.
Arrive(i) ==
  /\ place[i] = "new"
  /\ place' = [place EXCEPT ![i] = "inbox"]
  /\ UNCHANGED <<future, task, cancel, isSleep, persist, stoppedAt, ctl, hold>>

RunnerStep(w, n) ==
  \/ FirstStep(w, n) \/ Wake(w, n) \/ TakeItem(w, n) \/ RunDone(w, n)
  \/ PutDone(w, n) \/ WorkError(w, n) \/ Cancelled(w, n)

Next ==
  \/ \E w \in Workers, n \in Runs : RunnerStep(w, n)
  \/ \E w \in Workers : Start(w)
  \/ \E c \in Controllers, w \in Workers, force \in Forced : Stop(c, w, force)
  \/ \E c \in Controllers : StopReturns(c)
  \/ \E i \in Items : Arrive(i)

Spec == Init /\ [][Next]_workerVars

\* The event loop goes on with every task that can move: sleeps end, run and
\* put finish, items that are there are taken, a cancellation is delivered.
\* Nothing has to fail, and nobody has to call stop or to send items.
Fairness ==
  /\ \A w \in Workers, n \in Runs :
       /\ WF_workerVars(FirstStep(w, n)) /\ WF_workerVars(Wake(w, n))
       /\ WF_workerVars(TakeItem(w, n)) /\ WF_workerVars(RunDone(w, n))
       /\ WF_workerVars(PutDone(w, n)) /\ WF_workerVars(Cancelled(w, n))
  /\ \A c \in Controllers : WF_workerVars(StopReturns(c))

FairSpec == Spec /\ Fairness
-----------------------------------------------------------------------------
(* Properties                                                              *)

\* The shape of the state; only tasks up to the last one exist.
TypeOK ==
  /\ future \in [Workers -> 0..MaxRuns]
  /\ task \in [Workers -> [Runs -> TaskStates]]
  /\ \A w \in Workers, n \in Runs : task[w][n] = "none" <=> n > future[w]
  /\ cancel \in [Workers -> [Runs -> BOOLEAN]]
  /\ isSleep \in [Workers -> {"none", "yes", "no"}]
  /\ persist \in [Workers -> BOOLEAN] /\ stoppedAt \in [Workers -> BOOLEAN]
  /\ ctl \in [Controllers -> {Idle} \cup
                [w : Workers, n : Runs, force : BOOLEAN]]
  /\ place \in [Items -> Places]
  /\ hold \in [Workers -> [Runs -> Items \cup {None}]]

\* However start and stop are interleaved, a worker never has two live tasks.
OneRunner ==
  \A w \in Workers, m, n \in Runs : Alive(w, m) /\ Alive(w, n) => m = n

\* _is_sleep tells the truth about a live task, also after a restart that
\* races with the end of a stop: stop relies on it to spare a running job.
SleepFlagTrue ==
  \A w \in Workers : Running(w) =>
    /\ task[w][future[w]] \in Working => isSleep[w] = "no"
    /\ task[w][future[w]] \in Sleeping => isSleep[w] = "yes"

\* An item in work is thrown away only under a forced stop of its own task: a
\* graceful stop lets a running job finish.
LostOnlyByForce ==
  [][\A i \in Items : place'[i] = "lost" /\ place[i] # "lost" =>
       \E c \in Controllers, w \in Workers, n \in Runs :
         /\ hold[w][n] = i
         /\ ctl[c] = [w |-> w, n |-> n, force |-> TRUE]]_workerVars

\* A call of stop returns, unless the worker waits for an item that never
\* comes and the call is a graceful one.
StopCompletes ==
  \A c \in Controllers, w \in Workers :
    ctl[c].w = w ~> \/ ctl[c].w # w
                    \/ /\ ~ctl[c].force
                       /\ task[w][ctl[c].n] = "get"
                       /\ \A i \in Items : place[i] # "inbox"
=============================================================================
