----------------------------- MODULE Subprocess -----------------------------
(***************************************************************************)
(* aioworkers.worker.subprocess.Subprocess: run_cmd, the keeper of a daemon,*)
(* start and stop.  One step is the code between two awaits.  What the      *)
(* class inherits is in module Worker; here its runner is one of the tasks  *)
(* that call run_cmd.                                                       *)
(*                                                                         *)
(* _processes is a WeakValueDictionary: a process that no task refers to is *)
(* forgotten whenever its handle is collected, and runs on.                 *)
(***************************************************************************)
EXTENDS Integers, FiniteSets

CONSTANTS
  Jobs,       \* tasks that call run_cmd
  Runner,     \* the one that is the worker's own
  Keepers,    \* tasks of _keep_daemon, one for each start
  Stops,      \* calls of stop
  Procs,      \* bound on the processes alive or known at a time
  Settings,   \* sections of the configuration, each with stop's force
  None

ASSUME SubprocessAssumption ==
  /\ Runner \in Jobs /\ None \notin Jobs \cup Keepers \cup Stops \cup Procs
  /\ Jobs \cap Keepers = {} /\ Stops \cap (Jobs \cup Keepers) = {}
  /\ Settings \subseteq [wait : BOOLEAN, daemon : BOOLEAN, aioworkers : BOOLEAN,
                         force : BOOLEAN]

VARIABLES
  conf,       \* the configuration
  proc,       \* what the operating system does
  killed,     \* processes that were sent SIGKILL
  known,      \* _processes
  at,         \* where each task is
  own,        \* the process a task refers to
  cancel,     \* keepers with a cancellation under way
  keeper,     \* _keeper
  event,      \* _event
  running,    \* the worker's runner goes on
  stop,       \* where each call of stop is
  todo,       \* the processes its loop has yet to visit
  changed,    \* the calls whose dictionary got a new entry within the loop
  careless    \* start was called with a keeper alive or within a stop

osVars == <<proc, killed, known>>
taskVars == <<at, own, cancel, keeper, event, running>>
stopVars == <<stop, todo, changed>>
vars == <<conf, osVars, taskVars, stopVars, careless>>

Tasks == Jobs \cup Keepers
Looping == {"loop", "exit"}
Under == {"keeper", "super"} \cup Looping
LiveKeeper(k) == at[k] \notin {"none", "ended", "failed"}

\* set_config: nobody waits for a daemon, and an aioworkers process is given the
\* configuration on its standard input.
Conf(s) ==
  [wait |-> s.wait /\ ~s.daemon, daemon |-> s.daemon, stdin |-> s.aioworkers,
   force |-> s.force]

Init ==
  /\ conf \in {Conf(s) : s \in Settings}
  /\ proc = [p \in Procs |-> "none"] /\ killed = {}
  /\ known = {}
  /\ at = [t \in Tasks |-> IF t \in Keepers THEN "none" ELSE "idle"]
  /\ own = [t \in Tasks \cup Stops |-> None]
  /\ cancel = {} /\ keeper = None /\ event = FALSE /\ running = FALSE
  /\ stop = [s \in Stops |-> "idle"]
  /\ todo = [s \in Stops |-> {}] /\ changed = {}
  /\ careless = FALSE

-----------------------------------------------------------------------------
(* run_cmd                                                                 *)

\* The frame of task t goes on at s, with a reference to p.
GoTo(t, s, p) == at' = [at EXCEPT ![t] = s] /\ own' = [own EXCEPT ![t] = p]

\* Where a call ends that was given its process: with wait in process.wait,
\* else with the process in the hands of its caller; the keeper sets _event
\* and waits itself.
Given(t, p) ==
  /\ GoTo(t, IF conf.wait \/ t \in Keepers THEN "wait" ELSE "kept", p)
  /\ event' = (event \/ t \in Keepers)

\* run_cmd raised, in _keep_daemon through its finally.
Raised(t) ==
  /\ GoTo(t, IF t \in Keepers THEN "failed" ELSE "idle", None)
  /\ event' = (event /\ t \notin Keepers)

Going(t) == t \notin cancel

\* The runner calls run_cmd from work, for which a daemon must be up.
Begin(j) ==
  /\ at[j] = "idle" /\ (j = Runner => running /\ (conf.daemon => event))
  /\ GoTo(j, "create", None)
  /\ UNCHANGED <<conf, osVars, cancel, keeper, event, running, stopVars, careless>>

\* create_subprocess returns; a new key in the dictionary upsets loops over it.
Created(t) ==
  /\ at[t] = "create" /\ Going(t)
  /\ \E p \in Procs :
       /\ proc[p] = "none"
       /\ p = CHOOSE q \in Procs : proc[q] = "none"
       /\ proc' = [proc EXCEPT ![p] = "running"]
       /\ known' = known \cup {p}
       /\ IF conf.stdin THEN GoTo(t, "drain", p) /\ UNCHANGED event ELSE Given(t, p)
  /\ changed' = changed \cup {s \in Stops : stop[s] \in Looping}
  /\ UNCHANGED <<conf, killed, cancel, keeper, running, stop, todo, careless>>

\* The configuration is written to the standard input.
Drained(t) ==
  /\ at[t] = "drain" /\ Going(t)
  /\ Given(t, own[t])
  /\ UNCHANGED <<conf, osVars, cancel, keeper, running, stopVars, careless>>

\* The command is not there, or the process closes its standard input.
RunFails(t) ==
  /\ at[t] \in {"create", "drain"} /\ Going(t)
  /\ Raised(t)
  /\ UNCHANGED <<conf, osVars, cancel, keeper, running, stopVars, careless>>

\* process.wait returns, and stdout is read.
Waited(j) ==
  /\ at[j] = "wait" /\ proc[own[j]] = "exited"
  /\ GoTo(j, "idle", None)
  /\ UNCHANGED <<conf, osVars, cancel, keeper, event, running, stopVars, careless>>

\* The caller of run_cmd is cancelled, or has no more use for the process.
LetGo(j) ==
  /\ at[j] \in {"create", "drain", "wait", "kept"}
  /\ GoTo(j, "idle", None)
  /\ UNCHANGED <<conf, osVars, cancel, keeper, event, running, stopVars, careless>>

-----------------------------------------------------------------------------
(* _keep_daemon                                                            *)

\* The first step of the task, or the end of sleep(1).
KeeperCreates(k) ==
  /\ at[k] \in {"created", "sleep"} /\ Going(k)
  /\ GoTo(k, "create", None)
  /\ UNCHANGED <<conf, osVars, cancel, keeper, event, running, stopVars, careless>>

\* The daemon has exited.  The variable process still refers to it.
KeeperSleeps(k) ==
  /\ at[k] = "wait" /\ Going(k) /\ proc[own[k]] = "exited"
  /\ GoTo(k, "sleep", own[k])
  /\ event' = FALSE
  /\ UNCHANGED <<conf, osVars, cancel, keeper, running, stopVars, careless>>

\* CancelledError: the finally clause runs if its try was entered.
KeeperCancelled(k) ==
  /\ LiveKeeper(k) /\ k \in cancel
  /\ GoTo(k, "ended", None)
  /\ event' = (event /\ at[k] \in {"created", "sleep"})
  /\ UNCHANGED <<conf, osVars, cancel, keeper, running, stopVars, careless>>

\* start makes a keeper, whether there is one or not.
Start ==
  /\ IF conf.daemon
       THEN \E k \in Keepers :
              /\ at[k] = "none"
              /\ GoTo(k, "created", None) /\ keeper' = k
       ELSE UNCHANGED <<at, own, keeper>>
  /\ running' = TRUE
  /\ careless' = (careless \/ (\E k \in Keepers : LiveKeeper(k))
                           \/ (\E s \in Stops : stop[s] \in Under))
  /\ UNCHANGED <<conf, osVars, cancel, event, stopVars>>

-----------------------------------------------------------------------------
(* stop                                                                    *)

StopAt(s, st) == stop' = [stop EXCEPT ![s] = st]
Refer(s, p) == own' = [own EXCEPT ![s] = p]
EnterLoop(s) ==
  StopAt(s, "loop") /\ todo' = [todo EXCEPT ![s] = known] /\ changed' = changed \ {s}

\* Mutant of Stop: the keeper is left alone.
StopKeeps(s) ==
  /\ stop[s] = "idle"
  /\ EnterLoop(s)
  /\ UNCHANGED <<conf, osVars, taskVars, careless>>

\* Up to the await of the keeper, or the head of the loop.
Stop(s) ==
  /\ stop[s] = "idle"
  /\ IF keeper # None
       THEN /\ StopAt(s, "keeper") /\ Refer(s, keeper)
            /\ cancel' = cancel \cup {k \in {keeper} : LiveKeeper(k)}
            /\ event' = FALSE
            /\ UNCHANGED <<todo, changed>>
       ELSE EnterLoop(s) /\ UNCHANGED <<cancel, event, own>>
  /\ UNCHANGED <<conf, osVars, at, keeper, running, careless>>

\* await self._keeper: a failed keeper raises its error here.
StopKeeperOver(s) ==
  /\ stop[s] = "keeper" /\ ~LiveKeeper(own[s])
  /\ Refer(s, None)
  /\ IF at[own[s]] = "failed"
       THEN StopAt(s, "raised") /\ UNCHANGED <<keeper, todo, changed>>
       ELSE keeper' = None /\ EnterLoop(s)
  /\ UNCHANGED <<conf, osVars, at, cancel, event, running, careless>>

\* Mutant of StopNext: force makes no difference.
StopNextPolite(s) ==
  /\ stop[s] = "loop"
  /\ \E p \in todo[s] :
       /\ todo' = [todo EXCEPT ![s] = @ \ {p}]
       /\ IF proc[p] = "running"
            THEN StopAt(s, "exit") /\ Refer(s, p)
            ELSE UNCHANGED <<stop, own>>
  /\ UNCHANGED <<conf, osVars, at, cancel, keeper, event, running, changed, careless>>

\* The next process of the dictionary: one that runs is killed or terminated.
StopNext(s) ==
  /\ stop[s] = "loop"
  /\ \E p \in todo[s] :
       /\ todo' = [todo EXCEPT ![s] = @ \ {p}]
       /\ IF proc[p] = "running"
            THEN /\ killed' = IF conf.force THEN killed \cup {p} ELSE killed
                 /\ StopAt(s, "exit") /\ Refer(s, p)
            ELSE UNCHANGED <<killed, stop, own>>
  /\ UNCHANGED <<conf, proc, known, at, cancel, keeper, event, running, changed,
                 careless>>

\* Mutant of StopWaits: the exit of the process is not awaited.
StopWaitsNot(s) ==
  /\ stop[s] = "exit"
  /\ StopAt(s, "loop")
  /\ UNCHANGED <<conf, osVars, taskVars, todo, changed, careless>>

\* await process.wait().
StopWaits(s) ==
  /\ stop[s] = "exit" /\ proc[own[s]] = "exited"
  /\ StopAt(s, "loop")
  /\ UNCHANGED <<conf, osVars, taskVars, todo, changed, careless>>

\* A dictionary that has changed within the loop raises RuntimeError, at once
\* or, if an entry has gone too, after the others.
StopUpset(s) ==
  /\ stop[s] = "loop" /\ s \in changed
  /\ StopAt(s, "raised") /\ Refer(s, None)
  /\ UNCHANGED <<conf, osVars, at, cancel, keeper, event, running, todo, changed,
                 careless>>

\* super().stop: the runner is cancelled, or awaited.
StopSuper(s) ==
  /\ \/ stop[s] = "loop" /\ todo[s] = {} /\ s \notin changed
     \/ stop[s] = "super"
  /\ IF conf.force \/ at[Runner] = "idle"
       THEN /\ StopAt(s, "done") /\ running' = FALSE
            /\ at' = [at EXCEPT ![Runner] = "idle"]
            /\ own' = [own EXCEPT ![s] = None, ![Runner] = None]
       ELSE StopAt(s, "super") /\ Refer(s, None) /\ UNCHANGED <<at, running>>
  /\ UNCHANGED <<conf, osVars, cancel, keeper, event, todo, changed, careless>>

-----------------------------------------------------------------------------
(* The surroundings                                                        *)

\* A process ends, by itself or by a signal; a forgotten one is gone for good.
Exit(p) ==
  /\ proc[p] = "running"
  /\ proc' = [proc EXCEPT ![p] = IF p \in known THEN "exited" ELSE "none"]
  /\ killed' = killed \ {p}
  /\ UNCHANGED <<conf, known, taskVars, stopVars, careless>>

\* The handle of a process that no task refers to is collected.
Collect(p) ==
  /\ p \in known /\ \A t \in Tasks \cup Stops : own[t] # p
  /\ known' = known \ {p}
  /\ proc' = [proc EXCEPT ![p] = IF @ = "exited" THEN "none" ELSE @]
  /\ todo' = [s \in Stops |-> todo[s] \ {p}]
  /\ UNCHANGED <<conf, killed, taskVars, stop, changed, careless>>

StopStep(s) ==
  StopKeeperOver(s) \/ StopNext(s) \/ StopWaits(s) \/ StopUpset(s) \/ StopSuper(s)

Next ==
  \/ \E j \in Jobs : Begin(j) \/ Waited(j) \/ LetGo(j)
  \/ \E t \in Tasks : Created(t) \/ Drained(t) \/ RunFails(t)
  \/ \E k \in Keepers : KeeperCreates(k) \/ KeeperSleeps(k) \/ KeeperCancelled(k)
  \/ Start
  \/ \E s \in Stops : Stop(s) \/ StopStep(s)
  \/ \E p \in Procs : Exit(p) \/ Collect(p)

Spec == Init /\ [][Next]_vars

\* The event loop goes on, cancellations are delivered and SIGKILL kills;
\* a process may ignore SIGTERM.
Fairness ==
  /\ \A s \in Stops : WF_vars(StopStep(s))
  /\ \A k \in Keepers : WF_vars(KeeperCancelled(k))
  /\ \A p \in Procs : WF_vars(p \in killed /\ Exit(p))

FairSpec == Spec /\ Fairness

-----------------------------------------------------------------------------
(* Properties                                                              *)

\* When stop is through with its loop, none of the processes it still knows is
\* running, whatever was started, forgotten or let go while it waited for one:
\* a new process makes it raise.
StopEndsKnown ==
  [][\A s \in Stops : stop[s] = "loop" /\ stop'[s] \in {"super", "done"} =>
       \A p \in known : proc[p] # "running"]_vars

\* After stop no keeper brings the daemon up again, unless start was called
\* with a keeper alive or within a stop: stop knows the last keeper only.
DaemonStaysDown ==
  ~careless =>
    \A s \in Stops : stop[s] = "done" /\ ~running =>
      \A k \in Keepers : ~LiveKeeper(k)

\* A call of stop comes to an end, unless a process ignores SIGTERM or the
\* runner of a graceful stop goes on.
StopReturns ==
  \A s \in Stops :
    stop[s] \in Under ~>
      \/ stop[s] \notin Under
      \/ ~conf.force /\ stop[s] \in {"exit", "super"}
=============================================================================
