-------------------------- MODULE SubprocessProofs --------------------------
(***************************************************************************)
(* Theorems about Subprocess: what stop is sure of when it returns, for any*)
(* number of calls of run_cmd, start and stop and of processes.            *)
(***************************************************************************)
EXTENDS Subprocess, TLAPS

-----------------------------------------------------------------------------
(* The invariants                                                          *)

Places == {"none", "idle", "created", "create", "drain", "wait", "kept", "sleep",
           "ended", "failed"}

Shape ==
  /\ at \in [Tasks -> Places]
  /\ own \in [Tasks \cup Stops -> Procs \cup Keepers \cup {None}]
  /\ stop \in [Stops -> Under \cup {"idle", "raised", "done"}]
  /\ todo \in [Stops -> SUBSET Procs]
  /\ proc \in [Procs -> {"none", "running", "exited"}]
  /\ known \subseteq Procs /\ changed \subseteq Stops
  /\ keeper \in Keepers \cup {None}

\* A running process that a loop still knows is ahead of it, or is the one it
\* waits for, unless the dictionary has got a new entry.
NoneBehind ==
  \A s \in Stops : stop[s] \in Looping /\ s \notin changed =>
    \A p \in known :
      proc[p] = "running" => p \in todo[s] \/ (stop[s] = "exit" /\ own[s] = p)

LoopInv == Shape /\ NoneBehind

\* The worker knows its only keeper, and so do the calls of stop that await it.
OneKeeper == \A k \in Keepers : LiveKeeper(k) => keeper = k
AwaitKeeper == \A s \in Stops : stop[s] = "keeper" => keeper \in {own[s], None}

\* Behind that await the keeper is gone.
KeeperGone ==
  \A s \in Stops : stop[s] \in Looping \cup {"super"} =>
    \A k \in Keepers : ~LiveKeeper(k)

CareInv ==
  /\ Shape
  /\ ~careless => OneKeeper /\ AwaitKeeper /\ KeeperGone
  /\ DaemonStaysDown

-----------------------------------------------------------------------------
(* Frames                                                                  *)

LEMMA GoToShape ==
  ASSUME Shape, NEW t \in Tasks,
         NEW s \in Places, NEW p \in Procs \cup Keepers \cup {None}, GoTo(t, s, p)
  PROVE  /\ at' \in [Tasks -> Places]
         /\ own' \in [Tasks \cup Stops -> Procs \cup Keepers \cup {None}]
         /\ at' = [at EXCEPT ![t] = s]
         /\ \A x \in Stops : own'[x] = own[x]
<1>1. t \notin Stops
  BY SubprocessAssumption DEF Tasks
<1> QED BY <1>1 DEF GoTo, Shape

\* Every step but Created, Collect and Exit leaves the processes alone, and
\* only the keeper of its own step moves to another place.
LEMMA TaskStep ==
  ASSUME Shape,
         \/ \E j \in Jobs : Begin(j) \/ Waited(j) \/ LetGo(j)
         \/ \E t \in Tasks : Drained(t) \/ RunFails(t)
         \/ \E k \in Keepers : KeeperCreates(k) \/ KeeperSleeps(k) \/ KeeperCancelled(k)
  PROVE  /\ Shape' /\ UNCHANGED <<stopVars, proc, known, keeper, running, careless>>
         /\ \A x \in Stops : own'[x] = own[x]
         /\ \A k \in Keepers : LiveKeeper(k)' => LiveKeeper(k)
<1>0. Jobs \subseteq Tasks /\ Keepers \subseteq Tasks /\ Jobs \cap Keepers = {}
  BY SubprocessAssumption DEF Tasks
<1> DEFINE Moves(t, s, p) == /\ t \in Tasks /\ GoTo(t, s, p)
                             /\ s \in Places
                             /\ p \in Procs \cup Keepers \cup {None}
                             /\ t \in Keepers => LiveKeeper(t)
                             /\ UNCHANGED <<stopVars, proc, known, keeper, running,
                                            careless>>
<1>1. ASSUME NEW t, NEW s, NEW p, Moves(t, s, p)
      PROVE  /\ Shape' /\ UNCHANGED <<stopVars, proc, known, keeper, running, careless>>
             /\ \A x \in Stops : own'[x] = own[x]
             /\ \A k \in Keepers : LiveKeeper(k)' => LiveKeeper(k)
  <2>1. /\ at' \in [Tasks -> Places]
        /\ own' \in [Tasks \cup Stops -> Procs \cup Keepers \cup {None}]
        /\ at' = [at EXCEPT ![t] = s]
        /\ \A x \in Stops : own'[x] = own[x]
    BY <1>1, GoToShape
  <2>2. Shape'
    BY <1>1, <2>1 DEF Shape, stopVars
  <2>3. \A k \in Keepers : LiveKeeper(k)' => LiveKeeper(k)
    BY <1>0, <1>1, <2>1 DEF LiveKeeper, Shape
  <2> QED BY <1>1, <2>1, <2>2, <2>3
<1>2. \A t \in Tasks : own[t] \in Procs \cup Keepers \cup {None}
  BY DEF Shape
<1>3. ASSUME NEW j \in Jobs, Begin(j) \/ Waited(j) \/ LetGo(j)
      PROVE  \E t, s, p : Moves(t, s, p)
  <2>1. Moves(j, "create", None) \/ Moves(j, "idle", None)
    BY <1>0, <1>3 DEF Begin, Waited, LetGo, osVars, Places
  <2> QED BY <2>1
<1>4. ASSUME NEW t \in Tasks, Drained(t) \/ RunFails(t)
      PROVE  \E u, s, p : Moves(u, s, p)
  <2>1. LiveKeeper(t)
    BY <1>4 DEF Drained, RunFails, LiveKeeper
  <2>2. \/ Moves(t, "wait", own[t]) \/ Moves(t, "kept", own[t])
        \/ Moves(t, "failed", None) \/ Moves(t, "idle", None)
    BY <1>2, <1>4, <2>1 DEF Drained, RunFails, Given, Raised, osVars, Places
  <2> QED BY <2>2
<1>5. ASSUME NEW k \in Keepers, KeeperCreates(k) \/ KeeperSleeps(k) \/ KeeperCancelled(k)
      PROVE  \E t, s, p : Moves(t, s, p)
  <2>1. LiveKeeper(k)
    BY <1>5 DEF KeeperCreates, KeeperSleeps, KeeperCancelled, LiveKeeper
  <2>2. \/ Moves(k, "create", None) \/ Moves(k, "sleep", own[k])
        \/ Moves(k, "ended", None)
    BY <1>0, <1>2, <1>5, <2>1 DEF KeeperCreates, KeeperSleeps, KeeperCancelled,
           osVars, Places
  <2> QED BY <2>2
<1> HIDE DEF Moves
<1> QED BY <1>1, <1>3, <1>4, <1>5

\* create_subprocess returns: a process is known that was not there before, and
\* the loops over the dictionary are upset.
LEMMA CreatedStep ==
  ASSUME Shape, NEW t \in Tasks, Created(t)
  PROVE  /\ Shape' /\ UNCHANGED <<stop, todo, keeper, running, careless>>
         /\ changed' = changed \cup {s \in Stops : stop[s] \in Looping}
         /\ \A x \in Stops : own'[x] = own[x]
         /\ \A k \in Keepers : LiveKeeper(k)' => LiveKeeper(k)
<1>1. PICK p \in Procs :
        /\ proc' = [proc EXCEPT ![p] = "running"] /\ known' = known \cup {p}
        /\ \E s \in {"drain", "wait", "kept"} : GoTo(t, s, p)
  BY DEF Created, Given
<1>2. /\ changed' = changed \cup {s \in Stops : stop[s] \in Looping}
      /\ UNCHANGED <<stop, todo, keeper, running, careless>>
  BY DEF Created
<1>3. PICK s \in {"drain", "wait", "kept"} : GoTo(t, s, p)
  BY <1>1
<1>4. /\ at' \in [Tasks -> Places]
      /\ own' \in [Tasks \cup Stops -> Procs \cup Keepers \cup {None}]
      /\ at' = [at EXCEPT ![t] = s]
      /\ \A x \in Stops : own'[x] = own[x]
  <2>1. s \in Places /\ p \in Procs \cup Keepers \cup {None}
    BY DEF Places
  <2> QED BY <1>3, <2>1, GoToShape
<1>5. Shape'
  BY <1>1, <1>2, <1>4 DEF Shape
<1>6. \A k \in Keepers : LiveKeeper(k)' => LiveKeeper(k)
  BY <1>4 DEF LiveKeeper, Created, Shape
<1> QED BY <1>2, <1>4, <1>5, <1>6

LEMMA StartStep ==
  ASSUME Shape, Start
  PROVE  /\ Shape' /\ UNCHANGED <<stopVars, proc, known>> /\ running' = TRUE
         /\ \A x \in Stops : own'[x] = own[x]
         /\ \/ UNCHANGED keeper /\ \A k \in Keepers : LiveKeeper(k)' <=> LiveKeeper(k)
            \/ /\ keeper' \in Keepers
               /\ \A k \in Keepers : LiveKeeper(k)' => LiveKeeper(k) \/ k = keeper'
<1>1. UNCHANGED <<stopVars, proc, known>> /\ running' = TRUE
  BY DEF Start, osVars
<1>2. CASE conf.daemon
  <2>1. PICK k \in Keepers : GoTo(k, "created", None) /\ keeper' = k
    BY <1>2 DEF Start
  <2>2. /\ k \in Tasks /\ "created" \in Places
        /\ None \in Procs \cup Keepers \cup {None} /\ Keepers \subseteq Tasks
    BY DEF Tasks, Places
  <2>3. /\ at' \in [Tasks -> Places]
        /\ own' \in [Tasks \cup Stops -> Procs \cup Keepers \cup {None}]
        /\ at' = [at EXCEPT ![k] = "created"]
        /\ \A x \in Stops : own'[x] = own[x]
    BY <2>1, <2>2, GoToShape
  <2>4. Shape'
    BY <1>1, <2>1, <2>3 DEF Shape, stopVars
  <2>5. \A l \in Keepers : LiveKeeper(l)' => LiveKeeper(l) \/ l = k
    BY <2>2, <2>3 DEF LiveKeeper, Shape
  <2> QED BY <1>1, <2>1, <2>3, <2>4, <2>5
<1>3. CASE ~conf.daemon
  <2>1. UNCHANGED <<at, own, keeper>>
    BY <1>3 DEF Start
  <2> QED BY <1>1, <2>1 DEF Shape, stopVars, LiveKeeper
<1> QED BY <1>2, <1>3

\* A call of stop moves itself alone, and no keeper.
LEMMA StopFrame ==
  ASSUME Shape, NEW s \in Stops, Stop(s) \/ StopStep(s)
  PROVE  /\ Shape' /\ UNCHANGED <<proc, known, careless>>
         /\ \A x \in Stops \ {s} :
              /\ stop'[x] = stop[x] /\ todo'[x] = todo[x] /\ own'[x] = own[x]
              /\ x \in changed => x \in changed'
         /\ \A k \in Keepers : LiveKeeper(k)' <=> LiveKeeper(k)
<1>1. /\ at' \in [Tasks -> Places] /\ \A k \in Keepers : at'[k] = at[k]
      /\ UNCHANGED <<proc, known, careless>>
  <2>1. /\ Runner \in Jobs /\ Runner \in Tasks /\ Runner \notin Keepers
        /\ Keepers \subseteq Tasks /\ "idle" \in Places
    BY SubprocessAssumption DEF Tasks, Places
  <2>2. at' = at \/ at' = [at EXCEPT ![Runner] = "idle"]
    BY DEF Stop, StopStep, StopKeeperOver, StopNext, StopWaits, StopUpset, StopSuper,
           taskVars
  <2> QED BY <2>1, <2>2
       DEF Stop, StopStep, StopKeeperOver, StopNext, StopWaits, StopUpset, StopSuper,
           osVars, Shape
<1>2. /\ own' \in [Tasks \cup Stops -> Procs \cup Keepers \cup {None}]
      /\ \A x \in Stops \ {s} : own'[x] = own[x]
  <2>1. Runner \notin Stops /\ Runner \in Tasks
    BY SubprocessAssumption DEF Tasks
  <2>2. \/ own' = own
        \/ \E p \in Procs \cup Keepers \cup {None} : own' = [own EXCEPT ![s] = p]
        \/ own' = [own EXCEPT ![s] = None, ![Runner] = None]
    <3>1. /\ keeper \in Procs \cup Keepers \cup {None}
          /\ todo[s] \subseteq Procs
      BY DEF Shape
    <3> QED BY <3>1 DEF Stop, StopStep, StopKeeperOver, StopNext, StopWaits,
                        StopUpset, StopSuper, taskVars, Refer
  <2> QED BY <2>1, <2>2 DEF Shape
<1>3. /\ stop' \in [Stops -> Under \cup {"idle", "raised", "done"}]
      /\ \A x \in Stops \ {s} : stop'[x] = stop[x]
  <2>1. stop' = stop \/ \E st \in Under \cup {"idle", "raised", "done"} :
                          stop' = [stop EXCEPT ![s] = st]
    BY DEF Stop, StopStep, StopKeeperOver, StopNext, StopWaits, StopUpset, StopSuper,
           StopAt, EnterLoop, Under, Looping
  <2> QED BY <2>1 DEF Shape
<1>4. /\ todo' \in [Stops -> SUBSET Procs]
      /\ \A x \in Stops \ {s} : todo'[x] = todo[x]
  <2>1. todo' = todo \/ \E P \in SUBSET Procs : todo' = [todo EXCEPT ![s] = P]
    BY DEF Stop, StopStep, StopKeeperOver, StopNext, StopWaits, StopUpset, StopSuper,
           StopAt, EnterLoop, Shape
  <2> QED BY <2>1 DEF Shape
<1>5. changed' \in {changed, changed \ {s}}
  BY DEF Stop, StopStep, StopKeeperOver, StopNext, StopWaits, StopUpset, StopSuper,
         EnterLoop
<1>6. keeper' \in {keeper, None}
  BY DEF Stop, StopStep, StopKeeperOver, StopNext, StopWaits, StopUpset, StopSuper,
         taskVars
<1>7. Shape'
  BY <1>1, <1>2, <1>3, <1>4, <1>5, <1>6 DEF Shape
<1>8. \A k \in Keepers : LiveKeeper(k)' <=> LiveKeeper(k)
  BY <1>1 DEF LiveKeeper
<1> QED BY <1>1, <1>2, <1>3, <1>4, <1>5, <1>7, <1>8

LEMMA OutsideFrame ==
  ASSUME Shape, NEW p \in Procs, Exit(p) \/ Collect(p)
  PROVE  /\ Shape' /\ UNCHANGED <<taskVars, stop, changed, careless>>
         /\ known' \subseteq known
         /\ \A q \in known' : /\ proc'[q] = "running" => proc[q] = "running"
                              /\ \A s \in Stops : q \in todo[s] => q \in todo'[s]
<1>1. CASE Exit(p)
  BY <1>1 DEF Exit, Shape, taskVars, stopVars
<1>2. CASE Collect(p)
  <2>1. /\ known' = known \ {p} /\ todo' = [s \in Stops |-> todo[s] \ {p}]
        /\ UNCHANGED <<taskVars, stop, changed, careless>>
        /\ proc' = [proc EXCEPT ![p] = IF @ = "exited" THEN "none" ELSE @]
    BY <1>2 DEF Collect
  <2>2. Shape'
    BY <2>1 DEF Shape, taskVars
  <2>3. \A q \in known' : proc'[q] = proc[q]
    BY <2>1 DEF Shape
  <2> QED BY <2>1, <2>2, <2>3
<1> QED BY <1>1, <1>2

-----------------------------------------------------------------------------
(* The loop of stop                                                        *)

LEMMA LoopInvInductive ==
  /\ Init => LoopInv
  /\ LoopInv /\ [Next]_vars => LoopInv'
<1>1. Init => LoopInv
  <2> SUFFICES ASSUME Init PROVE LoopInv
    OBVIOUS
  <2>1. Shape
    BY DEF Init, Shape, Places
  <2> QED BY <2>1 DEF Init, LoopInv, NoneBehind, Looping
<1>2. ASSUME LoopInv, [Next]_vars PROVE LoopInv'
  <2> USE <1>2 DEF LoopInv
  <2>1. ASSUME Shape', UNCHANGED <<stopVars, proc, known>>,
               \A x \in Stops : own'[x] = own[x]
        PROVE  LoopInv'
    BY <2>1 DEF NoneBehind, stopVars
  <2>2. ASSUME \/ \E j \in Jobs : Begin(j) \/ Waited(j) \/ LetGo(j)
               \/ \E t \in Tasks : Drained(t) \/ RunFails(t)
               \/ \E k \in Keepers : KeeperCreates(k) \/ KeeperSleeps(k)
                                     \/ KeeperCancelled(k)
        PROVE  LoopInv'
    BY <2>1, <2>2, TaskStep
  <2>3. ASSUME NEW t \in Tasks, Created(t) PROVE LoopInv'
    <3>1. /\ Shape' /\ UNCHANGED stop
          /\ changed' = changed \cup {s \in Stops : stop[s] \in Looping}
      BY <2>3, CreatedStep
    <3> QED BY <3>1 DEF NoneBehind
  <2>4. ASSUME Start PROVE LoopInv'
    BY <2>1, <2>4, StartStep
  <2>5. ASSUME NEW s \in Stops, Stop(s) \/ StopStep(s) PROVE LoopInv'
    <3>1. /\ Shape' /\ UNCHANGED <<proc, known>>
          /\ \A x \in Stops \ {s} :
               /\ stop'[x] = stop[x] /\ todo'[x] = todo[x] /\ own'[x] = own[x]
               /\ x \in changed => x \in changed'
      BY <2>5, StopFrame
    <3>2. \A p \in known :
            stop'[s] \in Looping /\ s \notin changed' /\ proc'[p] = "running" =>
              p \in todo'[s] \/ (stop'[s] = "exit" /\ own'[s] = p)
      <4>1. CASE Stop(s) \/ StopKeeperOver(s)
        BY <4>1 DEF Stop, StopKeeperOver, EnterLoop, StopAt, Looping, Shape
      <4>2. CASE StopNext(s)
        BY <3>1, <4>2 DEF StopNext, StopAt, Refer, NoneBehind, Looping, Shape
      <4>3. CASE StopWaits(s)
        BY <3>1, <4>3 DEF StopWaits, StopAt, NoneBehind, Looping, Shape, taskVars
      <4>4. CASE StopUpset(s) \/ StopSuper(s)
        BY <4>4 DEF StopUpset, StopSuper, StopAt, Looping, Shape
      <4> QED BY <2>5, <4>1, <4>2, <4>3, <4>4 DEF StopStep
    <3> QED BY <3>1, <3>2 DEF NoneBehind
  <2>6. ASSUME NEW p \in Procs, Exit(p) \/ Collect(p) PROVE LoopInv'
    <3>1. /\ Shape' /\ UNCHANGED <<taskVars, stop, changed>>
          /\ known' \subseteq known
          /\ \A q \in known' : /\ proc'[q] = "running" => proc[q] = "running"
                               /\ \A s \in Stops : q \in todo[s] => q \in todo'[s]
      BY <2>6, OutsideFrame
    <3> QED BY <3>1 DEF NoneBehind, taskVars
  <2>7. CASE UNCHANGED vars
    BY <2>1, <2>7 DEF vars, osVars, taskVars, Shape, stopVars
  <2> QED BY <1>2, <2>2, <2>3, <2>4, <2>5, <2>6, <2>7 DEF Next
<1> QED BY <1>1, <1>2

\* When stop is through with its loop, no process that it knows is running: it
\* has seen each of them end, or has found its dictionary changed and raised.
THEOREM StopEndsKnownHolds == Spec => StopEndsKnown
<1>1. ASSUME LoopInv, [Next]_vars, NEW s \in Stops,
             stop[s] = "loop", stop'[s] \in {"super", "done"}, NEW p \in known
      PROVE  proc[p] # "running"
  <2>1. todo[s] = {} /\ s \notin changed
    <3>1. \/ UNCHANGED stop
          \/ \E x \in Stops : Stop(x) \/ StopStep(x)
      BY <1>1, TaskStep, CreatedStep, StartStep, OutsideFrame
      DEF Next, vars, LoopInv, stopVars
    <3>2. PICK x \in Stops : Stop(x) \/ StopStep(x)
      BY <1>1, <3>1
    <3>3. x = s
      BY <1>1, <3>2, StopFrame DEF LoopInv
    <3>4. StopSuper(s)
      BY <1>1, <3>2, <3>3
      DEF Stop, StopStep, StopKeeperOver, StopNext, StopWaits, StopUpset, StopAt,
          EnterLoop, LoopInv, Shape
    <3> QED BY <1>1, <3>4 DEF StopSuper
  <2> QED BY <1>1, <2>1 DEF LoopInv, NoneBehind, Looping
<1>2. LoopInv /\ [Next]_vars =>
        [\A s \in Stops : stop[s] = "loop" /\ stop'[s] \in {"super", "done"} =>
           \A p \in known : proc[p] # "running"]_vars
  BY <1>1
<1> QED BY <1>2, LoopInvInductive, PTL DEF Spec, StopEndsKnown

-----------------------------------------------------------------------------
(* The keeper                                                              *)

LEMMA CareInvInductive ==
  /\ Init => CareInv
  /\ CareInv /\ [Next]_vars => CareInv'
<1>0. None \notin Keepers
  BY SubprocessAssumption
<1>1. Init => CareInv
  <2> SUFFICES ASSUME Init PROVE CareInv
    OBVIOUS
  <2>1. Shape
    BY DEF Init, Shape, Places
  <2>2. \A k \in Keepers : ~LiveKeeper(k)
    BY DEF Init, LiveKeeper, Tasks
  <2> QED BY <2>1, <2>2
       DEF Init, CareInv, OneKeeper, AwaitKeeper, KeeperGone, DaemonStaysDown
<1>2. ASSUME CareInv, [Next]_vars PROVE CareInv'
  <2> USE <1>2 DEF CareInv
  <2>1. ASSUME Shape', UNCHANGED <<stop, keeper, running, careless>>,
               \A x \in Stops : own'[x] = own[x],
               \A k \in Keepers : LiveKeeper(k)' => LiveKeeper(k)
        PROVE  CareInv'
    BY <2>1 DEF OneKeeper, AwaitKeeper, KeeperGone, DaemonStaysDown
  <2>2. ASSUME \/ \E j \in Jobs : Begin(j) \/ Waited(j) \/ LetGo(j)
               \/ \E t \in Tasks : Drained(t) \/ RunFails(t)
               \/ \E k \in Keepers : KeeperCreates(k) \/ KeeperSleeps(k)
                                     \/ KeeperCancelled(k)
        PROVE  CareInv'
    BY <2>1, <2>2, TaskStep DEF stopVars
  <2>3. ASSUME NEW t \in Tasks, Created(t) PROVE CareInv'
    BY <2>1, <2>3, CreatedStep
  <2>4. ASSUME Start PROVE CareInv'
    <3>1. /\ Shape' /\ stop' = stop /\ running' = TRUE
          /\ \A x \in Stops : own'[x] = own[x]
          /\ \/ UNCHANGED keeper /\ \A k \in Keepers : LiveKeeper(k)' <=> LiveKeeper(k)
             \/ /\ keeper' \in Keepers
                /\ \A k \in Keepers : LiveKeeper(k)' => LiveKeeper(k) \/ k = keeper'
      BY <2>4, StartStep DEF stopVars
    <3>2. ~careless' => /\ ~careless /\ \A k \in Keepers : ~LiveKeeper(k)
                        /\ \A s \in Stops : stop[s] \notin Under
      BY <2>4 DEF Start
    <3>3. ~careless' => OneKeeper'
      BY <3>1, <3>2 DEF OneKeeper
    <3>4. ~careless' => AwaitKeeper' /\ KeeperGone'
      BY <3>1, <3>2 DEF AwaitKeeper, KeeperGone, Under
    <3> QED BY <3>1, <3>3, <3>4 DEF DaemonStaysDown
  <2>5. ASSUME NEW s \in Stops, Stop(s) \/ StopStep(s) PROVE CareInv'
    <3>1. /\ Shape' /\ careless' = careless
          /\ \A x \in Stops \ {s} : stop'[x] = stop[x] /\ own'[x] = own[x]
          /\ \A k \in Keepers : LiveKeeper(k)' <=> LiveKeeper(k)
      BY <2>5, StopFrame
    <3>2. careless => CareInv'
      BY <3>1 DEF DaemonStaysDown
    <3> SUFFICES ASSUME ~careless PROVE CareInv'
      BY <3>2
    \* Where s may come to be, and what it then knows of the keeper.
    <3>3. /\ keeper' = keeper \/ (keeper' = None /\ \A k \in Keepers : ~LiveKeeper(k))
          /\ stop'[s] = "keeper" => keeper' = own'[s]
          /\ stop'[s] \in Looping \cup {"super", "done"} =>
               \A k \in Keepers : ~LiveKeeper(k)
          /\ running' = running \/ stop'[s] = "done"
      <4>1. CASE Stop(s)
        BY <1>0, <4>1 DEF Stop, StopAt, Refer, EnterLoop, Looping, Shape, OneKeeper
      <4>2. CASE StopKeeperOver(s)
        <5>1. \A k \in Keepers : ~LiveKeeper(k)
          BY <1>0, <4>2 DEF StopKeeperOver, OneKeeper, AwaitKeeper
        <5> QED BY <4>2, <5>1 DEF StopKeeperOver, StopAt, EnterLoop, Shape
      <4>3. CASE StopNext(s) \/ StopWaits(s) \/ StopUpset(s) \/ StopSuper(s)
        <5>1. stop[s] \in Looping \cup {"super"}
          BY <4>3 DEF StopNext, StopWaits, StopUpset, StopSuper, Looping
        <5>2. \A k \in Keepers : ~LiveKeeper(k)
          BY <5>1 DEF KeeperGone
        <5>3. keeper' = keeper /\ stop'[s] # "keeper"
          BY <4>3, <5>1
          DEF StopNext, StopWaits, StopUpset, StopSuper, StopAt, Looping, Shape, taskVars
        <5>4. running' = running \/ stop'[s] = "done"
          BY <4>3 DEF StopNext, StopWaits, StopUpset, StopSuper, StopAt, Shape, taskVars
        <5> QED BY <5>2, <5>3, <5>4
      <4> QED BY <2>5, <4>1, <4>2, <4>3 DEF StopStep
    <3>4. OneKeeper'
      BY <3>1, <3>3 DEF OneKeeper
    <3>5. AwaitKeeper'
      BY <3>1, <3>3 DEF AwaitKeeper
    <3>6. KeeperGone'
      BY <3>1, <3>3 DEF KeeperGone
    <3>7. DaemonStaysDown'
      BY <3>1, <3>3 DEF DaemonStaysDown
    <3> QED BY <3>1, <3>4, <3>5, <3>6, <3>7
  <2>6. ASSUME NEW p \in Procs, Exit(p) \/ Collect(p) PROVE CareInv'
    BY <2>1, <2>6, OutsideFrame DEF taskVars, LiveKeeper
  <2>7. CASE UNCHANGED vars
    BY <2>1, <2>7 DEF vars, osVars, taskVars, Shape, stopVars, LiveKeeper
  <2> QED BY <1>2, <2>2, <2>3, <2>4, <2>5, <2>6, <2>7 DEF Next
<1> QED BY <1>1, <1>2

\* After stop no keeper is left that could bring the daemon up again, unless
\* start was called with a keeper alive or within a stop (_keep_daemon, stop).
THEOREM DaemonStaysDownHolds == Spec => []DaemonStaysDown
<1>1. CareInv => DaemonStaysDown
  BY DEF CareInv
<1> QED BY <1>1, CareInvInductive, PTL DEF Spec
=============================================================================
