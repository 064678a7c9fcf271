-------------------------- MODULE SupervisorProofs --------------------------
(***************************************************************************)
(* Theorems about Supervisor: what its stop leaves behind, for every set   *)
(* of children, whatever crashes, and however often it is started.         *)
(***************************************************************************)
EXTENDS Supervisor, WorkerProofs

-----------------------------------------------------------------------------
(* The children, seen from the supervisor                                  *)

\* Each child is stopped by the stop task of its own.
OwnStop == \A w \in Workers : ctl[w] # Idle => ctl[w].w = w

ChildInv == TypeOK /\ OwnStop /\ svForce \in BOOLEAN

LEMMA CrashTypeOK ==
  ASSUME TypeOK, NEW w \in Workers, Crash(w)
  PROVE  TypeOK'
BY DEF Crash, TypeOK

\* What ChildStep does to the children: none comes up, and a stop task is done
\* only when the task that it awaits is.
LEMMA ChildStepFrame ==
  ASSUME ChildInv, ChildStep
  PROVE  /\ ChildInv' /\ UNCHANGED <<future, svOnly>>
         /\ \A w \in Workers :
              /\ Running(w)' => Running(w)
              /\ \/ ctl'[w] = ctl[w]
                 \/ ctl'[w] = Idle /\ task[w][ctl[w].n] \in Ended
<1> USE DEF ChildInv
<1> DEFINE Goal == /\ TypeOK' /\ OwnStop' /\ UNCHANGED future
                   /\ \A w \in Workers :
                        /\ Running(w)' => Running(w)
                        /\ \/ ctl'[w] = ctl[w]
                           \/ /\ ctl'[w] = Idle
                              /\ task[w][ctl[w].n] \in Ended
<1>1. ASSUME NEW w \in Workers, NEW n \in Runs, RunnerStep(w, n)
      PROVE  Goal
  <2>1. /\ Alive(w, n) /\ UNCHANGED <<future, ctl>>
        /\ \E s \in RunStates : GoTo(w, n, s)
    BY <1>1, RunnerFrame
  <2>2. \A v \in Workers, m \in Runs : Alive(v, m)' => Alive(v, m)
    BY <2>1 DEF GoTo, Alive, TypeOK
  <2>3. \A v \in Workers : Running(v)' => Running(v)
    BY <2>1, <2>2, RunsAssumption DEF Running, TypeOK, Runs
  <2>4. TypeOK' /\ OwnStop'
    BY <1>1, <2>1, RunnerTypeOK DEF OwnStop
  <2> QED BY <2>1, <2>3, <2>4
<1>2. ASSUME NEW w \in Workers, Crash(w)
      PROVE  Goal
  <2>1. TypeOK' /\ UNCHANGED <<future, task, ctl>>
    BY <1>2, CrashTypeOK DEF Crash
  <2> QED BY <2>1 DEF OwnStop, Running, Alive
<1>3. ASSUME NEW w \in Workers, StopReturns(w)
      PROVE  Goal
  <2>1. UNCHANGED <<future, task>> /\ ctl' = [ctl EXCEPT ![w] = Idle]
    BY <1>3 DEF StopReturns
  <2>2. ctl[w].w = w /\ task[w][ctl[w].n] \in Ended
    BY <1>3 DEF StopReturns, OwnStop
  <2>3. w \in Controllers
    BY SupervisorAssumption
  <2>4. \A v \in Workers : ctl'[v] = IF v = w THEN Idle ELSE ctl[v]
    BY <2>1, SupervisorAssumption DEF TypeOK
  <2>5. TypeOK' /\ OwnStop'
    BY <1>3, <2>3, <2>4, StopReturnsTypeOK DEF OwnStop
  <2> QED BY <2>1, <2>2, <2>4, <2>5 DEF Running, Alive
<1>4. ASSUME NEW i \in Items, Arrive(i)
      PROVE  Goal
  <2>1. TypeOK' /\ UNCHANGED <<future, task, ctl>>
    BY <1>4, ArriveTypeOK DEF Arrive
  <2> QED BY <2>1 DEF OwnStop, Running, Alive
<1>5. UNCHANGED svOnly
  BY DEF ChildStep
<1>6. Goal
  BY <1>1, <1>2, <1>3, <1>4 DEF ChildStep
<1> QED BY <1>5, <1>6 DEF svOnly

\* A stop task finds the child down, or it awaits its last task.
LEMMA ChildStopFrame ==
  ASSUME ChildInv, NEW v \in Workers, ChildStop(v)
  PROVE  /\ ChildInv' /\ UNCHANGED <<future, task>>
         /\ v \in stopping /\ stopping' = stopping \ {v}
         /\ UNCHANGED <<svRuns, svTask, svCancel, starting, awaited, svStop,
                        svStopRun, svForce>>
         /\ \A w \in Workers : w # v => ctl'[w] = ctl[w]
         /\ \/ ~Running(v) /\ ctl'[v] = ctl[v]
            \/ ctl'[v] # Idle /\ ctl'[v].n = future[v]
<1> USE DEF ChildInv
<1>1. Stop(v, v, svForce) /\ v \in Controllers
  BY SupervisorAssumption DEF ChildStop
<1>2. TypeOK'
  BY <1>1, StopTypeOK
<1>3. CASE StopNotRunning(v)
  BY <1>1, <1>2, <1>3 DEF Stop, StopNotRunning, ChildStop, OwnStop
<1>4. CASE Running(v) /\ Await(v, v, svForce)
  <2>1. \A w \in Workers :
          ctl'[w] = IF w = v THEN [w |-> v, n |-> future[v], force |-> svForce]
                             ELSE ctl[w]
    BY <1>4, SupervisorAssumption DEF Await, TypeOK
  <2>2. ctl'[v] # Idle /\ OwnStop'
    <3>1. [w |-> v, n |-> future[v], force |-> svForce] # Idle
      BY NoneAssumption DEF Idle
    <3> QED BY <2>1, <3>1 DEF OwnStop
  <2> QED BY <1>1, <1>2, <2>1, <2>2 DEF Stop, ChildStop
<1> QED BY <1>1, <1>3, <1>4 DEF Stop, StopCancel, StopGraceful
\* A start task starts its child and nothing else.
LEMMA ChildStartFrame ==
  ASSUME ChildInv, NEW v \in Workers, ChildStart(v)
  PROVE  /\ ChildInv' /\ UNCHANGED ctl
         /\ v \in starting /\ starting' = starting \ {v}
         /\ UNCHANGED <<svRuns, svTask, svCancel, awaited, svStop, svStopRun,
                        svForce, stopping>>
<1> USE DEF ChildInv
<1>1. CASE Start(v)
  <2>1. TypeOK' /\ UNCHANGED ctl
    BY <1>1, StartTypeOK DEF Start
  <2> QED BY <2>1 DEF OwnStop, ChildStart
<1>2. CASE UNCHANGED workerVars
  <2>1. TypeOK' /\ UNCHANGED ctl
    BY <1>2 DEF workerVars, TypeOK
  <2> QED BY <2>1 DEF OwnStop, ChildStart
<1> QED BY <1>1, <1>2 DEF ChildStart

\* All other steps leave the children alone.
LEMMA WorkersRest ==
  ASSUME ChildInv, UNCHANGED workerVars, svForce' \in BOOLEAN
  PROVE  /\ ChildInv' /\ UNCHANGED <<future, task, ctl>>
         /\ \A w \in Workers : Running(w)' <=> Running(w)
BY DEF ChildInv, OwnStop, workerVars, TypeOK, Running, Alive

-----------------------------------------------------------------------------
(* What stop leaves behind                                                 *)

\* The runner of the supervisor is cancelled by the stop that waits for it.
CancelInStop ==
  svCancel /\ SvAlive => svStop = "cancelling" /\ svRuns = svStopRun

\* No start task is left where the supervisor waits, pauses or has returned.
Started == svTask \in {"none", "waiting", "pausing", "ended"} => starting = {}

\* It waits for the last task of every child.
WaitsForLast == svTask = "waiting" => awaited = future

\* Its work comes to an end, or to the pause, with all children down.
DownAfterWork ==
  svTask \in {"none", "pausing", "ended"} => \A w \in Workers : ~Running(w)

\* There are stop tasks within stop only.
StopTasks ==
  svStop # "children" => stopping = {} /\ \A w \in Workers : ctl[w] = Idle

\* Once the runner is cancelled, each child is down, or its stop task has yet
\* to run or awaits its last task.
StopReaches ==
  svTask = "cancelled" /\ svStop = "children" =>
    /\ starting = {}
    /\ \A w \in Workers :
         \/ w \in stopping \/ ~Running(w)
         \/ ctl[w] # Idle /\ ctl[w].n = future[w]

DownInv ==
  /\ ChildInv /\ CancelInStop /\ Started /\ WaitsForLast /\ DownAfterWork
  /\ StopTasks /\ StopReaches /\ NoOrphan

LEMMA InitDownInv ==
  ASSUME SvInit
  PROVE  DownInv
BY InitTypeOK, SupervisorAssumption
DEF SvInit, Init, DownInv, ChildInv, OwnStop, CancelInStop, Started,
    WaitsForLast, DownAfterWork, StopTasks, StopReaches, NoOrphan, SvAlive,
    Running, Idle

\* The steps of the supervisor itself: none of them touches a child.
SvOwnStep ==
  \/ SvStart \/ SvFirst \/ SvWait \/ SvAllDone \/ SvRestart \/ SvCancelled
  \/ \E force \in Forced : SvStop(force)
  \/ SvStopChildren \/ SvStopped

LEMMA OwnStepFrame ==
  ASSUME ChildInv, SvOwnStep
  PROVE  /\ ChildInv' /\ UNCHANGED <<future, task, ctl>>
         /\ \A w \in Workers : Running(w)' <=> Running(w)
<1>1. UNCHANGED workerVars
  BY DEF SvOwnStep, SvStart, SvFirst, SvWait, SvAllDone, SvRestart, SvCancelled,
         SvStop, SvStopChildren, SvStopped
<1>2. svForce' \in BOOLEAN
  <2>1. CASE \E force \in Forced : SvStop(force)
    BY <2>1, WorkersAssumption DEF SvStop
  <2>2. CASE UNCHANGED svForce
    BY <2>2 DEF ChildInv
  <2> QED BY <2>1, <2>2
          DEF SvOwnStep, SvStart, SvFirst, SvWait, SvAllDone, SvRestart,
              SvCancelled, SvStopChildren, SvStopped
<1> QED BY <1>1, <1>2, WorkersRest

LEMMA OwnStepDownInv ==
  ASSUME DownInv, SvOwnStep
  PROVE  DownInv'
<1> USE DEF DownInv, CancelInStop, Started, WaitsForLast, DownAfterWork,
            StopTasks, StopReaches, NoOrphan, SvAlive, SvAt, Ended
<1>1. /\ ChildInv' /\ UNCHANGED <<future, task, ctl>>
      /\ \A w \in Workers : Running(w)' <=> Running(w)
  BY OwnStepFrame
<1>2. CASE SvStart
  BY <1>1, <1>2 DEF SvStart
<1>3. CASE SvFirst \/ SvRestart
  BY <1>1, <1>3 DEF SvFirst, SvRestart
<1>4. CASE SvWait
  BY <1>1, <1>4 DEF SvWait
<1>5. CASE SvAllDone
  <2>1. \A w \in Workers : ~Running(w)
    BY <1>5 DEF SvAllDone, Running, Alive
  <2> QED BY <1>1, <1>5, <2>1 DEF SvAllDone
<1>6. CASE SvCancelled
  BY <1>1, <1>6 DEF SvCancelled
<1>7. CASE \E force \in Forced : SvStop(force)
  BY <1>1, <1>7 DEF SvStop
<1>8. CASE SvStopChildren
  BY <1>1, <1>8 DEF SvStopChildren
<1>9. CASE SvStopped
  BY <1>1, <1>9 DEF SvStopped
<1> QED BY <1>2, <1>3, <1>4, <1>5, <1>6, <1>7, <1>8, <1>9 DEF SvOwnStep
LEMMA ChildStartDownInv ==
  ASSUME DownInv, NEW v \in Workers, ChildStart(v)
  PROVE  DownInv'
<1>1. /\ ChildInv' /\ UNCHANGED ctl
      /\ v \in starting /\ starting' = starting \ {v}
      /\ UNCHANGED <<svRuns, svTask, svCancel, svStop, svStopRun, stopping>>
  BY ChildStartFrame DEF DownInv
<1>2. svTask \notin {"none", "waiting", "pausing", "ended"}
  BY <1>1 DEF DownInv, Started
<1>3. CancelInStop' /\ Started' /\ WaitsForLast' /\ DownAfterWork'
  BY <1>1, <1>2
  DEF DownInv, CancelInStop, Started, WaitsForLast, DownAfterWork, SvAlive
<1>4. StopTasks' /\ StopReaches' /\ NoOrphan'
  BY <1>1 DEF DownInv, StopTasks, StopReaches, NoOrphan
<1> QED BY <1>1, <1>3, <1>4 DEF DownInv

LEMMA ChildStopDownInv ==
  ASSUME DownInv, NEW v \in Workers, ChildStop(v)
  PROVE  DownInv'
<1>1. /\ ChildInv' /\ UNCHANGED <<future, task>>
      /\ v \in stopping /\ stopping' = stopping \ {v}
      /\ UNCHANGED <<svRuns, svTask, svCancel, starting, awaited, svStop,
                     svStopRun>>
      /\ \A w \in Workers : w # v => ctl'[w] = ctl[w]
      /\ \/ ~Running(v) /\ ctl'[v] = ctl[v]
         \/ ctl'[v] # Idle /\ ctl'[v].n = future[v]
  BY ChildStopFrame DEF DownInv
<1>2. \A w \in Workers : Running(w)' <=> Running(w)
  BY <1>1 DEF Running, Alive
<1>3. svStop = "children"
  BY <1>1 DEF DownInv, StopTasks
<1>4. CancelInStop' /\ Started' /\ WaitsForLast' /\ DownAfterWork'
  BY <1>1, <1>2
  DEF DownInv, CancelInStop, Started, WaitsForLast, DownAfterWork, SvAlive
<1>5. StopTasks' /\ NoOrphan'
  BY <1>1, <1>3 DEF StopTasks, NoOrphan
<1>6. ASSUME svTask = "cancelled", NEW w \in Workers
      PROVE  \/ w \in stopping' \/ ~Running(w)'
             \/ ctl'[w] # Idle /\ ctl'[w].n = future'[w]
  BY <1>1, <1>2, <1>3, <1>6 DEF DownInv, StopReaches
<1>7. StopReaches'
  BY <1>1, <1>3, <1>6 DEF DownInv, StopReaches
<1> QED BY <1>1, <1>4, <1>5, <1>7 DEF DownInv

LEMMA ChildStepDownInv ==
  ASSUME DownInv, ChildStep
  PROVE  DownInv'
<1>1. /\ ChildInv' /\ UNCHANGED future
      /\ \A w \in Workers :
           /\ Running(w)' => Running(w)
           /\ \/ ctl'[w] = ctl[w]
              \/ ctl'[w] = Idle /\ task[w][ctl[w].n] \in Ended
  BY ChildStepFrame DEF DownInv
<1>2. UNCHANGED <<svRuns, svTask, svCancel, starting, awaited, svStop,
                  svStopRun, stopping>>
  BY DEF ChildStep, svOnly
<1>3. CancelInStop' /\ Started' /\ WaitsForLast' /\ DownAfterWork'
  BY <1>1, <1>2
  DEF DownInv, CancelInStop, Started, WaitsForLast, DownAfterWork, SvAlive
<1>4. StopTasks'
  BY <1>1, <1>2 DEF DownInv, StopTasks, ChildInv, TypeOK, Idle
<1>5. NoOrphan'
  BY <1>1, <1>2 DEF DownInv, NoOrphan
<1>6. ASSUME svTask = "cancelled", svStop = "children", NEW w \in Workers
      PROVE  \/ w \in stopping' \/ ~Running(w)'
             \/ ctl'[w] # Idle /\ ctl'[w].n = future'[w]
  <2>1. CASE ctl'[w] = ctl[w]
    BY <1>1, <1>2, <1>6, <2>1 DEF DownInv, StopReaches
  <2>2. CASE task[w][ctl[w].n] \in Ended
    BY <1>1, <1>2, <1>6, <2>2 DEF DownInv, StopReaches, Running, Alive
  <2> QED BY <1>1, <2>1, <2>2
<1>7. StopReaches'
  BY <1>1, <1>2, <1>6 DEF DownInv, StopReaches
<1> QED BY <1>1, <1>3, <1>4, <1>5, <1>7 DEF DownInv

LEMMA NextDownInv ==
  ASSUME DownInv, [SvNext]_svVars
  PROVE  DownInv'
<1>1. CASE UNCHANGED svVars
  <2>1. ChildInv' /\ \A w \in Workers : Running(w)' <=> Running(w)
    BY <1>1, WorkersRest DEF svVars, svOnly, DownInv, ChildInv
  <2> QED BY <1>1, <2>1
          DEF svVars, svOnly, workerVars, DownInv, CancelInStop, Started,
              WaitsForLast, DownAfterWork, StopTasks, StopReaches, NoOrphan,
              SvAlive
<1>2. CASE SvNext
  BY <1>2, OwnStepDownInv, ChildStartDownInv, ChildStopDownInv, ChildStepDownInv
  DEF SvNext, SvOwnStep
<1> QED BY <1>1, <1>2

LEMMA DownAlways == SvSpec => []DownInv
BY InitDownInv, NextDownInv, PTL DEF SvSpec

\* When the supervisor's runner was cancelled and nobody is in stop any more,
\* no child runs and none is about to be started.
THEOREM NoOrphanHolds == SvSpec => []NoOrphan
<1>1. DownInv => NoOrphan
  BY DEF DownInv
<1> QED BY <1>1, DownAlways, PTL

\* The step with which stop returns leaves no child running under a supervisor
\* that is down, and no start task that would bring one up.
THEOREM StopLeavesNobodyHolds == SvSpec => StopLeavesNobody
<1>1. DownInv /\ [SvNext]_svVars =>
        [svStop = "children" /\ svStop' = "idle" /\ ~SvAlive
           => starting = {} /\ \A w \in Workers : ~Running(w)]_svVars
  <2> SUFFICES ASSUME DownInv, [SvNext]_svVars, svStop = "children",
                      svStop' = "idle", ~SvAlive
               PROVE  starting = {} /\ \A w \in Workers : ~Running(w)
    OBVIOUS
  <2>1. SvStopped
    <3>1. SvNext
      BY DEF svVars, svOnly
    <3>2. \A w \in Workers : ~ChildStart(w) /\ ~ChildStop(w)
      BY DEF ChildStart, ChildStop
    <3>3. ~ChildStep
      BY DEF ChildStep, svOnly
    <3> QED BY <3>1, <3>2, <3>3
            DEF SvNext, SvStart, SvFirst, SvWait, SvAllDone, SvRestart,
                SvCancelled, SvStop, SvStopChildren
  <2>2. stopping = {} /\ \A w \in Workers : ctl[w] = Idle
    BY <2>1 DEF SvStopped
  <2>3. CASE svTask = "cancelled"
    BY <2>2, <2>3 DEF DownInv, StopReaches
  <2>4. CASE svTask # "cancelled"
    BY <2>4 DEF DownInv, Started, DownAfterWork, SvAlive, Ended
  <2> QED BY <2>3, <2>4
<1> QED BY <1>1, DownAlways, PTL DEF SvSpec, StopLeavesNobody

-----------------------------------------------------------------------------
(* One runner and a true flag, under a supervisor too                      *)

\* The stop tasks have the argument that a caller of stop gave.
ForceGiven == svForce \in Forced \/ (svStop = "idle" /\ stopping = {})

\* What a supervisor does to its children they may see alone, a crash but for.
LEMMA ChildrenStep ==
  ASSUME ForceGiven, [SvNext]_svVars
  PROVE  [Next]_workerVars \/ \E w \in Workers : Crash(w)
<1>1. ASSUME NEW w \in Workers, ChildStop(w)
      PROVE  Next
  <2>1. w \in Controllers /\ svForce \in Forced /\ Stop(w, w, svForce)
    BY <1>1, SupervisorAssumption DEF ChildStop, ForceGiven
  <2> QED BY <2>1 DEF Next
<1>2. ASSUME NEW w \in Workers, ChildStart(w)
      PROVE  [Next]_workerVars
  BY <1>2 DEF ChildStart, Next
<1>3. CASE ChildStep
  <2>1. ASSUME NEW w \in Workers, StopReturns(w)
        PROVE  Next
    BY <2>1, SupervisorAssumption DEF Next
  <2> QED BY <1>3, <2>1 DEF ChildStep, Next
<1>4. CASE SvOwnStep \/ UNCHANGED svVars
  BY <1>4 DEF SvOwnStep, SvStart, SvFirst, SvWait, SvAllDone, SvRestart,
              SvCancelled, SvStop, SvStopChildren, SvStopped, svVars
<1> QED BY <1>1, <1>2, <1>3, <1>4 DEF SvNext, SvOwnStep

LEMMA NextForceGiven ==
  ASSUME ForceGiven, [SvNext]_svVars
  PROVE  ForceGiven'
<1>1. ASSUME NEW force \in Forced, SvStop(force)
      PROVE  ForceGiven'
  BY <1>1 DEF SvStop, ForceGiven
<1>2. CASE \E w \in Workers : ChildStart(w) \/ ChildStop(w)
  BY <1>2 DEF ChildStart, ChildStop, ForceGiven
<1>3. CASE SvStopChildren \/ SvStopped
  BY <1>3 DEF SvStopChildren, SvStopped, ForceGiven
<1>4. CASE UNCHANGED <<svForce, svStop, stopping>>
  BY <1>4 DEF ForceGiven
<1> QED BY <1>1, <1>2, <1>3, <1>4
        DEF SvNext, SvStart, SvFirst, SvWait, SvAllDone, SvRestart, SvCancelled,
            ChildStep, svOnly, svVars

\* A task cancelled from outside is as alive as before, until it runs.
LEMMA CrashSleepInv ==
  ASSUME SleepInv, NEW w \in Workers, Crash(w)
  PROVE  SleepInv'
<1>1. TypeOK' /\ UNCHANGED <<future, task, isSleep, ctl>>
  BY CrashTypeOK DEF SleepInv, Crash
<1> QED BY <1>1 DEF SleepInv, LastAlive, AwaitsReal, FreshWaits, SleepFlagTrue,
                    Running, Alive

LEMMA ChildrenSleepInv == SvSpec => []SleepInv
<1>1. SvInit => SleepInv /\ ForceGiven
  BY InitSleepInv DEF SvInit, ForceGiven
<1>2. SleepInv /\ ForceGiven /\ [SvNext]_svVars => SleepInv' /\ ForceGiven'
  BY ChildrenStep, NextForceGiven, NextSleepInv, CrashSleepInv
<1> QED BY <1>1, <1>2, PTL DEF SvSpec

\* The start tasks of a supervisor that was cancelled and started again, its
\* stop tasks and a crash leave each child with one runner at most.
THEOREM ChildrenOneRunner == SvSpec => []OneRunner
<1>1. SleepInv => OneRunner
  BY DEF SleepInv, LastAlive, OneRunner
<1> QED BY <1>1, ChildrenSleepInv, PTL

\* So the flag on which each stop task decides whether to cancel its child is
\* true as well, when it runs beside the start tasks of a new supervisor task.
THEOREM ChildrenSleepFlagTrue == SvSpec => []SleepFlagTrue
<1>1. SleepInv => SleepFlagTrue
  BY DEF SleepInv
<1> QED BY <1>1, ChildrenSleepInv, PTL

=============================================================================
