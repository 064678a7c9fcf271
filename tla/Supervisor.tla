----------------------------- MODULE Supervisor -----------------------------
(***************************************************************************)
(* aioworkers.worker.supervisor.Supervisor and its children.  The children *)
(* are the workers of module Worker.  Their only controllers are the tasks *)
(* the supervisor makes for them with wait_all: the task of child w that   *)
(* runs w.stop is controller w, the tasks that run w.start are the set     *)
(* starting.  The supervisor is itself a Worker whose work is overridden;  *)
(* its runner is svTask.  Only one user at a time calls its stop.          *)
(***************************************************************************)
EXTENDS Worker

CONSTANTS
  Crashing,    \* children whose task someone else may cancel
  SvPersist,   \* _persist of the supervisor
  MaxSvRuns    \* bound on the starts of the supervisor

ASSUME SupervisorAssumption ==
  /\ Controllers = Workers /\ Workers # {} /\ IsFiniteSet(Workers)
  /\ Crashing \subseteq Workers
  /\ SvPersist \in BOOLEAN /\ MaxSvRuns \in Nat

VARIABLES
  svRuns,      \* number of tasks made by start
  svTask,      \* where the last one is
  svCancel,    \* its cancellation is not delivered yet
  starting,    \* children whose start task waits to run
  awaited,     \* the child tasks given to asyncio.wait
  svStop,      \* where the caller of stop is
  svStopRun,   \* the run of the supervisor it awaits
  svForce,     \* its force argument
  stopping     \* children whose stop task waits to run

svOnly == <<svRuns, svTask, svCancel, starting, awaited, svStop, svStopRun,
            svForce, stopping>>
svVars == <<workerVars, svOnly>>

SvStates == {"none", "created", "starting", "waiting", "pausing",
             "ended", "cancelled"}

SvInit ==
  /\ Init
  /\ svRuns = 0 /\ svTask = "none" /\ svCancel = FALSE
  /\ starting = {} /\ awaited = [w \in Workers |-> 0]
  /\ svStop = "idle" /\ svStopRun = 0 /\ svForce = FALSE /\ stopping = {}

SvAlive == svTask \notin Ended \cup {"none"}
SvAt(s) == svTask = s /\ ~svCancel

-----------------------------------------------------------------------------
(* start, and work of the supervisor                                       *)

SvStart ==
  /\ ~SvAlive /\ svRuns < MaxSvRuns
  /\ svRuns' = svRuns + 1
  /\ svTask' = "created" /\ svCancel' = FALSE
  /\ UNCHANGED <<workerVars, starting, awaited, svStop, svStopRun, svForce,
                 stopping>>

\* The bound on the tasks of the children stops the supervisor, not a child.
WithinRuns == \A w \in Workers : future[w] < MaxRuns

SvFirst ==
  /\ SvAt("created") /\ (svStop = "cancelling" => svStopRun = svRuns)
  /\ WithinRuns
  /\ starting' = Workers
  /\ svTask' = "starting"
  /\ UNCHANGED <<workerVars, svRuns, svCancel, awaited, svStop, svStopRun,
                 svForce, stopping>>

\* A start task runs: it starts the child unless the child is running.
ChildStart(w) ==
  /\ w \in starting
  /\ starting' = starting \ {w}
  /\ Start(w) \/ (Running(w) /\ UNCHANGED workerVars)
  /\ UNCHANGED <<svRuns, svTask, svCancel, awaited, svStop, svStopRun, svForce,
                 stopping>>

\* All start tasks are done: asyncio.wait gets the current futures.
SvWait ==
  /\ SvAt("starting") /\ starting = {}
  /\ awaited' = future
  /\ svTask' = "waiting"
  /\ UNCHANGED <<workerVars, svRuns, svCancel, starting, svStop, svStopRun,
                 svForce, stopping>>

\* A child's runner ends by return or by CancelledError, so the wait for
\* FIRST_EXCEPTION ends when all awaited tasks are done, like ALL_COMPLETED.
SvAllDone ==
  /\ SvAt("waiting")
  /\ \A w \in Workers : task[w][awaited[w]] \in Ended
  /\ svTask' = IF SvPersist THEN "pausing" ELSE "ended"
  /\ UNCHANGED <<workerVars, svRuns, svCancel, starting, awaited, svStop,
                 svStopRun, svForce, stopping>>

\* Mutant of SvRestart: the children that are not done are started.
SvRestartPending ==
  /\ SvAt("pausing") /\ WithinRuns
  /\ starting' = {w \in Workers : future[w] # awaited[w]}
  /\ svTask' = "starting"
  /\ UNCHANGED <<workerVars, svRuns, svCancel, awaited, svStop, svStopRun,
                 svForce, stopping>>

\* After the pause the children that nobody restarted are started (all of
\* them if there is none: _wait takes an empty sequence for no argument).
SvRestart ==
  /\ SvAt("pausing") /\ WithinRuns
  /\ LET same == {w \in Workers : future[w] = awaited[w]}
     IN  starting' = IF same = {} THEN Workers ELSE same
  /\ svTask' = "starting"
  /\ UNCHANGED <<workerVars, svRuns, svCancel, awaited, svStop, svStopRun,
                 svForce, stopping>>

\* CancelledError ends the runner; the start tasks it made go on.
SvCancelled ==
  /\ svCancel /\ SvAlive
  /\ svTask' = "cancelled" /\ svCancel' = FALSE
  /\ UNCHANGED <<workerVars, svRuns, starting, awaited, svStop, svStopRun,
                 svForce, stopping>>

-----------------------------------------------------------------------------
(* stop of the supervisor                                                  *)

\* Mutant of SvStop: the runner is awaited but not cancelled.
SvStopPatient(force) ==
  /\ svStop = "idle"
  /\ svForce' = force /\ svStopRun' = svRuns
  /\ IF SvAlive
     THEN svStop' = "cancelling" /\ UNCHANGED stopping
     ELSE svStop' = "children" /\ stopping' = Workers
  /\ UNCHANGED <<workerVars, svRuns, svTask, svCancel, starting, awaited>>

\* super().stop(force=True), and at once the stop tasks when nothing is to be
\* awaited.
SvStop(force) ==
  /\ svStop = "idle"
  /\ svForce' = force /\ svStopRun' = svRuns
  /\ IF SvAlive
     THEN svCancel' = TRUE /\ svStop' = "cancelling" /\ UNCHANGED stopping
     ELSE UNCHANGED svCancel /\ svStop' = "children" /\ stopping' = Workers
  /\ UNCHANGED <<workerVars, svRuns, svTask, starting, awaited>>

\* Mutant of SvStopChildren: only the children that run now are stopped.
SvStopRunning ==
  /\ svStop = "cancelling" /\ (svRuns = svStopRun => ~SvAlive)
  /\ svStop' = "children" /\ stopping' = {w \in Workers : Running(w)}
  /\ UNCHANGED <<workerVars, svRuns, svTask, svCancel, starting, awaited,
                 svStopRun, svForce>>

\* The runner is done.  Its start tasks were scheduled before the
\* cancellation, so the loop has run them.
SvStopChildren ==
  /\ svStop = "cancelling" /\ (svRuns = svStopRun => ~SvAlive)
  /\ starting = {}
  /\ svStop' = "children" /\ stopping' = Workers
  /\ UNCHANGED <<workerVars, svRuns, svTask, svCancel, starting, awaited,
                 svStopRun, svForce>>

\* A stop task runs up to its await (or returns at once).
ChildStop(w) ==
  /\ w \in stopping
  /\ stopping' = stopping \ {w}
  /\ Stop(w, w, svForce)
  /\ UNCHANGED <<svRuns, svTask, svCancel, starting, awaited, svStop, svStopRun,
                 svForce>>

\* Mutant of SvStopped: the stop tasks are made and not awaited.
SvStoppedAtOnce ==
  /\ svStop = "children" /\ stopping = {}
  /\ svStop' = "idle"
  /\ UNCHANGED <<workerVars, svRuns, svTask, svCancel, starting, awaited,
                 svStopRun, svForce, stopping>>

\* wait_all over the stop tasks is over.
SvStopped ==
  /\ svStop = "children" /\ stopping = {}
  /\ \A w \in Workers : ctl[w] = Idle
  /\ svStop' = "idle"
  /\ UNCHANGED <<workerVars, svRuns, svTask, svCancel, starting, awaited,
                 svStopRun, svForce, stopping>>

-----------------------------------------------------------------------------
\* Somebody cancels the task of a child behind the supervisor's back.
Crash(w) ==
  /\ w \in Crashing /\ Running(w)
  /\ cancel' = [cancel EXCEPT ![w][future[w]] = TRUE]
  /\ UNCHANGED <<future, task, isSleep, persist, stoppedAt, ctl, place, hold>>

\* A step of the children, of their stop tasks or of their surroundings.
ChildStep ==
  /\ \/ \E w \in Workers, n \in Runs : RunnerStep(w, n)
     \/ \E w \in Workers : Crash(w) \/ StopReturns(w)
     \/ \E i \in Items : Arrive(i)
  /\ UNCHANGED svOnly

SvNext ==
  \/ SvStart \/ SvFirst \/ SvWait \/ SvAllDone \/ SvRestart \/ SvCancelled
  \/ \E force \in Forced : SvStop(force)
  \/ SvStopChildren \/ SvStopped
  \/ \E w \in Workers : ChildStart(w) \/ ChildStop(w)
  \/ ChildStep

SvSpec == SvInit /\ [][SvNext]_svVars

\* The loop goes on with every task that can move.
SvFairness ==
  /\ Fairness
  /\ WF_svVars(SvFirst \/ SvWait \/ SvAllDone \/ SvRestart \/ SvCancelled)
  /\ WF_svVars(SvStopChildren \/ SvStopped)
  /\ \A w \in Workers : WF_svVars(ChildStart(w)) /\ WF_svVars(ChildStop(w))

SvFairSpec == SvSpec /\ SvFairness
-----------------------------------------------------------------------------
(* Properties                                                              *)

\* When stop of the supervisor returns and nobody has started it again, all
\* its children are down, those too whose start was under way.
StopLeavesNobody ==
  [][svStop = "children" /\ svStop' = "idle" /\ ~SvAlive
       => starting = {} /\ \A w \in Workers : ~Running(w)]_svVars

\* A child runs only under a live supervisor or while stop is at work, unless
\* the supervisor itself is done.
NoOrphan ==
  svTask = "cancelled" /\ svStop = "idle"
    => starting = {} /\ \A w \in Workers : ~Running(w)

\* When every child is down the supervisor starts them again, or is stopped.
\* (MaxRuns bounds the restarts.)
AllDownRestarted ==
  (svTask = "waiting" /\ \A w \in Workers : ~Running(w))
    ~> \/ \E w \in Workers : Running(w)
       \/ ~SvAlive \/ ~WithinRuns

\* stop of the supervisor returns, unless a child waits for an item that does
\* not come and the stop is the graceful one, which is the default.
SvStopCompletes ==
  svStop # "idle"
    ~> \/ svStop = "idle"
       \/ /\ ~svForce /\ \A i \in Items : place[i] # "inbox"
          /\ \E w \in Workers : \E n \in Runs : task[w][n] = "get"
=============================================================================
