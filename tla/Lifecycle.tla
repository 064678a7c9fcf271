----------------------------- MODULE Lifecycle ------------------------------
(***************************************************************************)
(* aioworkers.core.context: Context, its signals, wait_all and the group   *)
(* resolver, with the entities that put handlers on the signals            *)
(* (core.base.AbstractConnector and workers) and the two ways out of       *)
(* cli.loop_run: the end of the with statement and the shutdown task that  *)
(* each SIGTERM starts.  A caller is whoever sends the signals one after   *)
(* the other: Main, the with statement, or a shutdown task in Terms.       *)
(***************************************************************************)
EXTENDS FiniteSets

CONSTANTS
  Connectors, Workers,   \* the entities of the configuration
  Groups,                \* the groups of each entity
  Include, Exclude, All, Default,   \* the group resolver
  Sync,                  \* workers whose handlers are plain functions
  Failing,               \* entities whose handlers may raise
  Main, Terms,           \* the callers
  ConnectTimeout,        \* TRUE when connect_timeout is set
  SentStart              \* _sent_start

Entities == Connectors \cup Workers
Callers == {Main} \cup Terms

ASSUME LifecycleAssumption ==
  /\ Connectors \cap Workers = {} /\ Sync \subseteq Workers
  /\ Failing \subseteq Entities /\ Main \notin Terms
  /\ DOMAIN Groups = Entities
  /\ {All, Default, ConnectTimeout, SentStart} \subseteq BOOLEAN

VARIABLES
  at,        \* the signal each caller is waiting for, or where else it is
  run,       \* the state of the handlers each caller has sent its signal to
  link,      \* the connection of each connector
  started,   \* the workers whose start is done and whose stop is not
  cleaned    \* the connectors whose cleanup is done

vars == <<at, run, link, started, cleaned>>

Signals == {"init", "connect", "start", "stop", "disconnect", "cleanup"}
Exiting == {"stop", "disconnect", "cleanup"}
\* "up": in the body of the with statement; "stopping": loop.stop was called;
\* "over": returned; "raised": left by an exception.
Over == {"over", "raised"}
Where == Signals \cup {"idle", "up", "stopping"} \cup Over

\* GroupResolver.match, as a condition.
Match(groups) ==
  IF groups = {} THEN Default
  ELSE IF All THEN groups \cap Exclude = {}
  ELSE groups \cap Include # {}

Active == {e \in Entities : Match(Groups[e])}

\* Mutant of Handlers: the groups given to Signal.append are ignored.
HandlersAnyGroup(s) ==
  CASE s = "init" -> Entities
    [] s \in {"connect", "disconnect", "cleanup"} -> Connectors
    [] s \in {"start", "stop"} -> Workers

\* Who has a handler on a signal that the group resolver lets through.
Handlers(s) ==
  Active \cap CASE s = "init" -> Entities
                [] s \in {"connect", "disconnect", "cleanup"} -> Connectors
                [] s \in {"start", "stop"} -> Workers

Init ==
  /\ at = [c \in Callers |-> "idle"]
  /\ run = [c \in Callers |-> [e \in Entities |-> "none"]]
  /\ link = [e \in Connectors |-> "down"]
  /\ started = {} /\ cleaned = {}

-----------------------------------------------------------------------------
(* Signal.send and wait_all                                                *)

\* The plain functions run while the signal is sent: those in bad raise.
SyncEffect(s, bad) ==
  CASE s = "start" -> started' = started \cup ((Sync \cap Active) \ bad)
    [] s = "stop" -> started' = started \ ((Sync \cap Active) \ bad)
    [] OTHER -> UNCHANGED started

\* Caller c sends signal s: coroutines become tasks, a function that raised
\* becomes a failed future.
Send(c, s) ==
  \E bad \in SUBSET (Sync \cap Failing \cap Handlers(s)) :
    /\ at' = [at EXCEPT ![c] = s]
    /\ run' = [run EXCEPT ![c] = [e \in Entities |->
         CASE e \notin Handlers(s) -> "none"
           [] e \in bad -> "error"
           [] e \in (Sync \cap Handlers(s)) \ bad /\ s \in {"start", "stop"} -> "ok"
           [] OTHER -> "run"]]
    /\ SyncEffect(s, bad)
    /\ link' = IF s = "connect"
               THEN [e \in Connectors |->
                       IF e \in Active THEN "trying" ELSE link[e]]
               ELSE link
    /\ UNCHANGED cleaned

\* Mutant of AllDone: wait_all returns at the first task that is done.
AllDoneFirst(c) ==
  Handlers(at[c]) # {} => \E e \in Handlers(at[c]) : run[c][e] # "run"

\* asyncio.wait is over: wait_all waits for every task, failed ones included.
AllDone(c) == \A e \in Entities : run[c][e] # "run"

Failed(c) == \E e \in Entities : run[c][e] = "error"

Go(c, s) ==
  /\ at' = [at EXCEPT ![c] = s]
  /\ run' = [run EXCEPT ![c] = [e \in Entities |-> "none"]]
  /\ UNCHANGED <<link, started, cleaned>>

\* wait_all raises the last error; the signals after this one are not sent.
Raise(c) ==
  /\ at[c] \in Signals /\ AllDone(c) /\ Failed(c)
  /\ Go(c, "raised")

Done(c, s) == at[c] = s /\ AllDone(c) /\ ~Failed(c)
-----------------------------------------------------------------------------
(* __aenter__ and __aexit__                                                *)

Enter == at[Main] = "idle" /\ Send(Main, "init")

AfterInit == Done(Main, "init") /\ Send(Main, "connect")

AfterConnect ==
  /\ Done(Main, "connect")
  /\ IF SentStart THEN Send(Main, "start") ELSE Go(Main, "up")

AfterStart == Done(Main, "start") /\ Go(Main, "up")

\* __aexit__ begins.
Exit(c) == Send(c, IF SentStart THEN "stop" ELSE "disconnect")

\* Mutant of AfterStop: the connectors are left alone.
AfterStopNoDisconnect(c) == Done(c, "stop") /\ Send(c, "cleanup")

AfterStop(c) == Done(c, "stop") /\ Send(c, "disconnect")

AfterDisconnect(c) == Done(c, "disconnect") /\ Send(c, "cleanup")

\* run_forever is over, after loop.stop of a shutdown task or for another
\* reason, such as a KeyboardInterrupt: the body of the with statement ends.
Leave == at[Main] = "up" /\ Exit(Main)

MainOver == Done(Main, "cleanup") /\ Go(Main, "over")

\* SIGTERM, from the time the context is entered until the process ends.
Terminate(t) ==
  /\ at[t] = "idle" /\ at[Main] \in {"up"} \cup Exiting
  /\ Exit(t)

\* Mutant of TermOver: the loop is not stopped.
TermOverLoopRuns(t) == Done(t, "cleanup") /\ Go(t, "over")

\* shutdown calls loop.stop: run_forever returns at the end of this turn of the
\* loop and Main exits on its own, a second time; if Main is exiting already,
\* run_until_complete raises.
TermOver(t) ==
  /\ Done(t, "cleanup")
  /\ LET next == IF at[Main] \in {"up", "stopping"} THEN "stopping" ELSE "raised"
     IN  /\ at' = [at EXCEPT ![t] = "over", ![Main] = next]
         /\ run' = [c \in Callers |->
              IF c = t \/ (c = Main /\ next = "raised")
              THEN [e \in Entities |-> "none"] ELSE run[c]]
  /\ UNCHANGED <<link, started, cleaned>>

Leaving == at[Main] = "stopping" /\ Exit(Main)
-----------------------------------------------------------------------------
(* The handlers.  Nothing moves once Main is over: the loop is not run.    *)

Running(c, s, e) ==
  /\ at[c] = s /\ run[c][e] = "run" /\ at[Main] \notin Over

Return(c, e, outcome) == run' = [run EXCEPT ![c][e] = outcome]

\* A handler raises, or its task is cancelled.
HandlerFails(c, s, e) ==
  /\ e \in Failing /\ s # "connect"
  /\ Running(c, s, e) /\ Return(c, e, "error")
  /\ UNCHANGED <<at, link, started, cleaned>>

InitDone(e) ==
  /\ Running(Main, "init", e) /\ Return(Main, e, "ok")
  /\ UNCHANGED <<at, link, started, cleaned>>

\* robust_connect
ConnectOk(e) ==
  /\ Running(Main, "connect", e) /\ link[e] = "trying"
  /\ Return(Main, e, "ok")
  /\ link' = [link EXCEPT ![e] = "up"]
  /\ UNCHANGED <<at, started, cleaned>>

\* connect raises: sleep and try again.
ConnectFails(e) ==
  /\ Running(Main, "connect", e) /\ link[e] = "trying"
  /\ link' = [link EXCEPT ![e] = "pausing"]
  /\ UNCHANGED <<at, run, started, cleaned>>

Reconnect(e) ==
  /\ Running(Main, "connect", e) /\ link[e] = "pausing"
  /\ link' = [link EXCEPT ![e] = "trying"]
  /\ UNCHANGED <<at, run, started, cleaned>>

\* wait_for cancels robust_connect.  It takes the CancelledError that comes
\* out of connect for the end of its work; out of sleep it gets through.
ConnectTimesOut(e) ==
  /\ ConnectTimeout
  /\ Running(Main, "connect", e)
  /\ Return(Main, e, IF link[e] = "trying" THEN "ok" ELSE "error")
  /\ link' = [link EXCEPT ![e] = IF link[e] = "trying" THEN "gaveup" ELSE "down"]
  /\ UNCHANGED <<at, started, cleaned>>

StartDone(e) ==
  /\ Running(Main, "start", e) /\ Return(Main, e, "ok")
  /\ started' = started \cup {e}
  /\ UNCHANGED <<at, link, cleaned>>

StopDone(c, e) ==
  /\ Running(c, "stop", e) /\ Return(c, e, "ok")
  /\ started' = started \ {e}
  /\ UNCHANGED <<at, link, cleaned>>

DisconnectDone(c, e) ==
  /\ Running(c, "disconnect", e) /\ Return(c, e, "ok")
  /\ link' = [link EXCEPT ![e] = "down"]
  /\ UNCHANGED <<at, started, cleaned>>

CleanupDone(c, e) ==
  /\ Running(c, "cleanup", e) /\ Return(c, e, "ok")
  /\ cleaned' = cleaned \cup {e}
  /\ UNCHANGED <<at, link, started>>
-----------------------------------------------------------------------------
HandlerReturns(c, e) ==
  \/ StopDone(c, e) \/ DisconnectDone(c, e) \/ CleanupDone(c, e)
  \/ c = Main /\ (InitDone(e) \/ StartDone(e))

Move(c) == Raise(c) \/ AfterStop(c) \/ AfterDisconnect(c)

Next ==
  \/ Enter \/ AfterInit \/ AfterConnect \/ AfterStart
  \/ Leave \/ Leaving \/ MainOver
  \/ /\ at[Main] \notin Over
     /\ \/ \E c \in Callers : Move(c)
        \/ \E t \in Terms : Terminate(t) \/ TermOver(t)
  \/ \E c \in Callers, e \in Entities :
       \/ HandlerReturns(c, e)
       \/ \E s \in Signals : HandlerFails(c, s, e)
  \/ \E e \in Connectors :
       ConnectOk(e) \/ ConnectFails(e) \/ Reconnect(e) \/ ConnectTimesOut(e)

Spec == Init /\ [][Next]_vars

\* The loop runs every task that can move, a handler that does not raise comes
\* to its end, and a connection that is tried again and again gets through.
\* Nobody has to send SIGTERM or to leave the body of the with statement.
Fairness ==
  /\ WF_vars(AfterInit \/ AfterConnect \/ AfterStart \/ Leaving \/ MainOver)
  /\ \A c \in Callers :
       /\ WF_vars(at[Main] \notin Over /\ Move(c))
       /\ \A e \in Entities : WF_vars(HandlerReturns(c, e))
  /\ \A t \in Terms : WF_vars(at[Main] \notin Over /\ TermOver(t))
  /\ \A e \in Connectors : SF_vars(ConnectOk(e)) /\ WF_vars(Reconnect(e))

FairSpec == Spec /\ Fairness
-----------------------------------------------------------------------------
(* Properties                                                              *)

\* The shape of the state; only handlers of active entities are ever run.
TypeOK ==
  /\ at \in [Callers -> Where]
  /\ run \in [Callers -> [Entities -> {"none", "run", "ok", "error"}]]
  /\ \A c \in Callers, e \in Entities : run[c][e] # "none" => e \in Active
  /\ link \in [Connectors -> {"down", "trying", "pausing", "up", "gaveup"}]
  /\ started \subseteq Workers /\ cleaned \subseteq Connectors

\* While any worker is started, no connector has been disconnected or was never
\* tried, whatever raises and however many shutdowns run at once.
StartedServed ==
  started # {} =>
    \A e \in Connectors \cap Active : link[e] \in {"up", "gaveup"}

\* An exit that goes through leaves no worker started and no connection open,
\* and nothing comes up again while other exits are under way.
ExitLeavesNothing ==
  (\E c \in Callers : at[c] = "over") =>
    /\ started = {} /\ Connectors \cap Active \subseteq cleaned
    /\ \A e \in Connectors : link[e] = "down"

\* SIGTERM ends the process, unless a handler of its own exit raises: loop.stop
\* is skipped then.
TermEnds ==
  \A t \in Terms :
    at[t] \in Exiting ~> at[Main] \in Over \/ at[t] = "raised"

\* "Connect/disconnect: perform before starting and after stopping the
\* application": a worker is started when every connector is connected.
StartedConnected ==
  started # {} => \A e \in Connectors \cap Active : link[e] = "up"
=============================================================================
