-------------------------------- MODULE Main --------------------------------
(***************************************************************************)
(* aioworkers.cli.main: plugins, files and --config-stdin make the          *)
(* configuration, groups choose the entities that are built, in this        *)
(* process or, with --multiprocessing, in children which the main process   *)
(* starts, watches, replaces and finally brings down.                       *)
(***************************************************************************)
EXTENDS Entities

CONSTANTS
  Plugins,       \* the sequence of plugins: configs and get_config of each
  Invocations,   \* command lines
  Cpus,          \* os.cpu_count()
  Number(_),     \* a setting as a number: count, and cpus in per cent
  MaxCrashes,    \* bound on the children that end unasked
  MaxInterrupts  \* bound on the KeyboardInterrupts

ASSUME MainAssumption ==
  /\ \A i \in DOMAIN Plugins : AllThere(Plugins[i].configs)
  /\ Cpus \in Nat \ {0} /\ MaxCrashes \in Nat /\ MaxInterrupts \in Nat

VARIABLES
  pc,          \* where the main process is
  inv,         \* its command line
  step,        \* the plugin, or the place in the list of processes, it is at
  slots,       \* processes: the child that each entry of the list refers to
  child,       \* what every child ever forked is doing, and for which entry
  awaited,     \* sentinels of the last wait
  expired,     \* shutdown_timeout is over
  crashes,     \* children that ended unasked
  interrupts   \* KeyboardInterrupts so far

bootVars == <<inv, objects>>
limitVars == <<expired, crashes, interrupts>>
procVars == <<slots, child, awaited, limitVars>>
vars == <<configVars, bootVars, procVars, pc, step>>

\* A child is "new" until its SIGTERM handler is there, then "up", "closing"
\* after a signal, and "hung" once its exit has come to what does not end.
Alive == {c \in DOMAIN child : child[c].st # "dead"}

Init ==
  /\ ConfigInit
  /\ inv \in Invocations
  /\ pc = "plugins" /\ step = 1
  /\ objects = <<>> /\ slots = <<>> /\ child = <<>> /\ awaited = {}
  /\ expired = FALSE /\ crashes = 0 /\ interrupts = 0

-----------------------------------------------------------------------------
(* Configuration                                                           *)

\* What Config raises goes through main.
Load(docs, next) ==
  \/ Apply(docs) /\ pc' = next
  \/ After(docs).tree = Raised /\ UNCHANGED configVars /\ pc' = "failed"

\* The loop over the plugins: config.load, then config.update(get_config()).
LoadPlugin ==
  /\ pc = "plugins" /\ step <= Len(Plugins)
  /\ Load(DocsOf(Plugins[step].configs) \o <<Plugins[step].own>>, "plugins")
  /\ step' = step + 1
  /\ UNCHANGED <<bootVars, procVars>>

\* config.load(*config_files).
LoadFiles ==
  /\ pc = "plugins" /\ step > Len(Plugins)
  /\ IF AllThere(inv.files)
       THEN Load(DocsOf(inv.files), "stdin")
       ELSE UNCHANGED configVars /\ pc' = "failed"
  /\ UNCHANGED <<step, bootVars, procVars>>

\* config_dict and config.update(config_dict).
LoadStdin ==
  /\ pc = "stdin"
  /\ Load(IF inv.stdin = NoDoc THEN <<>> ELSE <<inv.stdin>>, "resolve")
  /\ UNCHANGED <<step, bootVars, procVars>>

-----------------------------------------------------------------------------
(* One process                                                             *)

ProcessSections == {k \in {Last(q) : q \in Below(<<"processes">>)} :
                      IsDict(tree, <<"processes", k>>)}
ProcessGroups(k) == Groups(<<"processes", k>>)

\* --process without --multiprocessing stands for the groups of that process.
OwnResolver ==
  Resolver(inv.groups \cup UNION {ProcessGroups(k) : k \in inv.processes},
           inv.exclude, inv.all)

\* The context is built and entered, which module Lifecycle goes on with.
RunHere ==
  /\ pc = "resolve" /\ ~inv.multi
  /\ IF \A k \in inv.processes : Below(<<"processes", k>>) # {}
       THEN objects' = Build(OwnResolver) /\ pc' = "running"
       ELSE objects' = objects /\ pc' = "failed"
  /\ UNCHANGED <<configVars, inv, step, procVars>>

-----------------------------------------------------------------------------
(* --multiprocessing                                                       *)

\* process_iter: what count and cpus say, or one process.
Copies(k) ==
  LET n(key) == LET p == <<"processes", k, key>>
                IN IF Has(tree, p) THEN Number(tree[p]) ELSE 0
  IN IF \E key \in {"count", "cpus"} : Has(tree, <<"processes", k, key>>)
       THEN n("count") + (Cpus * n("cpus")) \div 100 ELSE 1
Wanted == {k \in ProcessSections : inv.processes = {} \/ k \in inv.processes}
ProcessIter ==
  LET sections == FlattenSeq([i \in 1..Cardinality(Wanted) |->
                    LET k == SetToSeq(Wanted)[i] IN [j \in 1..Copies(k) |-> k]])
  IN [i \in 1..Len(sections) |-> [section |-> sections[i], child |-> 0]]

\* Context.processes builds the entities of all groups before any fork; the
\* children find them built.
BuildAll ==
  /\ pc = "resolve" /\ inv.multi
  /\ objects' = Build(AllGroups)
  /\ slots' = ProcessIter
  /\ pc' = "create" /\ step' = 1
  /\ UNCHANGED <<configVars, inv, child, awaited, limitVars>>

\* create_process, up to the return of p.start().
Fork(to) ==
  /\ child' = Append(child, [slot |-> step, st |-> "new"])
  /\ pc' = to
  /\ UNCHANGED <<configVars, bootVars, slots, awaited, limitVars, step>>

Create == pc = "create" /\ step \in DOMAIN slots /\ Fork("created")

\* The new process is stored in its entry, and the loop goes on.
Store ==
  /\ pc \in {"created", "recreated"}
  /\ slots' = [slots EXCEPT ![step].child = Len(child)]
  /\ pc' = IF pc = "created" THEN "create" ELSE "check"
  /\ step' = step + 1
  /\ UNCHANGED <<configVars, bootVars, child, awaited, limitVars>>


\* One of the children has ended: connection.wait, after time.sleep(1) but for
\* the first time.
Waited ==
  /\ pc = "wait" /\ \E i \in DOMAIN slots : slots[i].child \notin Alive
  /\ pc' = "check" /\ step' = 1
  /\ UNCHANGED <<configVars, bootVars, procVars>>

\* is_alive, and the next entry.
CheckAlive ==
  /\ pc = "check" /\ step \in DOMAIN slots /\ slots[step].child \in Alive
  /\ step' = step + 1
  /\ UNCHANGED <<configVars, bootVars, procVars, pc>>

\* Mutant of Recreate: all are replaced when one has ended.
RecreateAny == pc = "check" /\ step \in DOMAIN slots /\ Fork("recreated")

Recreate ==
  /\ pc = "check" /\ step \in DOMAIN slots /\ slots[step].child \notin Alive
  /\ Fork("recreated")

\* The end of the loop over the processes.
RoundOver ==
  /\ pc \in {"create", "check"} /\ step \notin DOMAIN slots
  /\ pc' = "wait"
  /\ UNCHANGED <<configVars, bootVars, procVars, step>>

\* What SIGTERM does to a child: without a handler it dies.
Signalled(c) == [c EXCEPT !.st = CASE c.st = "new" -> "dead"
                                   [] c.st = "up"  -> "closing"
                                   [] OTHER        -> c.st]

\* KeyboardInterrupt in a child leads to its exit, and out of one that hangs.
Interrupted(c) ==
  [c EXCEPT !.st = IF c.st = "hung" THEN "closing" ELSE Signalled(c).st]

\* KeyboardInterrupt leads to the finally clause, and out of it.  From a terminal
\* the children have it as well.
Interrupt ==
  /\ interrupts < MaxInterrupts
  /\ pc \in {"create", "created", "wait", "check", "recreated",
             "leave", "await", "kill"}
  /\ pc' = IF pc \in {"leave", "await", "kill"} THEN "aborted" ELSE "leave"
  /\ child' \in {child, [c \in DOMAIN child |-> Interrupted(child[c])]}
  /\ interrupts' = interrupts + 1
  /\ UNCHANGED <<configVars, bootVars, slots, awaited, expired, crashes, step>>

\* The main process has no handler of SIGTERM.
Killed ==
  /\ pc \in {"create", "created", "wait", "check", "recreated",
             "leave", "await", "kill"}
  /\ pc' = "killed"
  /\ UNCHANGED <<configVars, bootVars, procVars, step>>

Terminate ==
  /\ pc = "leave"
  /\ child' = [c \in DOMAIN child |-> Signalled(child[c])]
  /\ awaited' = Alive'
  /\ pc' = IF awaited' = {} THEN "kill" ELSE "await"
  /\ UNCHANGED <<configVars, bootVars, slots, limitVars, step>>

\* Mutant of AwaitOne: nobody looks at the time.
AwaitOneForever ==
  /\ pc = "await" /\ \E c \in awaited : c \notin Alive
  /\ awaited' = Alive
  /\ pc' = IF awaited' = {} THEN "kill" ELSE "await"
  /\ UNCHANGED <<configVars, bootVars, slots, child, limitVars, step>>

\* connection.wait returns when one of the sentinels is ready, no earlier: the
\* time is looked at between two waits.
AwaitOne ==
  /\ pc = "await" /\ \E c \in awaited : c \notin Alive
  /\ awaited' = Alive
  /\ pc' = IF awaited' = {} \/ expired THEN "kill" ELSE "await"
  /\ UNCHANGED <<configVars, bootVars, slots, child, limitVars, step>>

Expire ==
  /\ pc = "await" /\ ~expired
  /\ expired' = TRUE
  /\ UNCHANGED <<configVars, bootVars, slots, child, awaited, crashes, interrupts,
                 pc, step>>

\* SIGKILL for whoever is left.
Kill ==
  /\ pc = "kill" /\ Alive # {}
  /\ child' = [c \in DOMAIN child |-> [child[c] EXCEPT !.st = "dead"]]
  /\ UNCHANGED <<configVars, bootVars, slots, awaited, limitVars, pc, step>>

End ==
  /\ pc = "kill" /\ Alive = {}
  /\ pc' = "ended"
  /\ UNCHANGED <<configVars, bootVars, procVars, step>>

-----------------------------------------------------------------------------
(* The children                                                            *)

Becomes(c, st) ==
  /\ child' = [child EXCEPT ![c].st = st]
  /\ UNCHANGED <<configVars, bootVars, slots, awaited, expired, interrupts, pc,
                 step>>

\* The context is entered: the handler of SIGTERM is there from now on.
Entered(c) == child[c].st = "new" /\ Becomes(c, "up") /\ UNCHANGED crashes
\* A child that has left its context ends; one that hangs in it does not.
Left(c) == child[c].st = "closing" /\ Becomes(c, "dead") /\ UNCHANGED crashes
Hangs(c) == child[c].st = "closing" /\ Becomes(c, "hung") /\ UNCHANGED crashes
Crash(c) ==
  /\ child[c].st \in {"new", "up"} /\ crashes < MaxCrashes
  /\ Becomes(c, "dead") /\ crashes' = crashes + 1

Boot == LoadPlugin \/ LoadFiles \/ LoadStdin \/ RunHere \/ BuildAll
Supervise ==
  \/ Create \/ Store \/ Waited \/ CheckAlive \/ Recreate \/ RoundOver
  \/ Terminate \/ AwaitOne \/ Kill \/ End

Next ==
  \/ Boot \/ Supervise \/ Expire \/ Interrupt \/ Killed
  \/ \E c \in DOMAIN child :
       Entered(c) \/ Left(c) \/ Hangs(c) \/ Crash(c)

\* The main process and the clock go on, children come up, and one that closes
\* ends unless it hangs.
Fairness ==
  /\ WF_vars(Supervise) /\ WF_vars(Expire)
  /\ WF_vars(\E c \in DOMAIN child : Entered(c))
  /\ WF_vars(\E c \in DOMAIN child : Left(c))

Spec == Init /\ [][Next]_vars
FairSpec == Spec /\ Fairness

-----------------------------------------------------------------------------
(* Properties                                                              *)

\* One entry of the list of processes never has two live processes, whatever
\* dies and is replaced while another one is looked at.
OneEach ==
  \A c, d \in Alive : child[c].slot = child[d].slot => c = d


Over == pc \in {"ended", "aborted", "killed"}

\* Once left, the main process ends, unless all that it waits for hang in their own
\* exits: wait has no timeout (cli.py 227).  Once shutdown_timeout is over, the end
\* of one child is enough: the others are killed, hang or not.
LeaveEnds ==
  /\ pc = "leave" ~>
       Over \/ (pc = "await" /\ \A c \in awaited : child[c].st = "hung")
  /\ pc = "await" /\ expired /\ (\E c \in awaited : c \notin Alive) ~> Over
=============================================================================
