-------------------------- MODULE LifecycleProofs ---------------------------
(***************************************************************************)
(* Theorems about Lifecycle: the order of start, stop and disconnect, for  *)
(* all entities, groups and handlers that raise, and any number of SIGTERMs*)
(* that exit at once.                                                      *)
(***************************************************************************)
EXTENDS Lifecycle, TLAPS

-----------------------------------------------------------------------------
(* The invariant                                                           *)

Served == {"up", "gaveup"}
ActiveConnectors == Connectors \cap Active
ActiveWorkers == Workers \cap Active

\* A caller waits for the handlers of the signal it has sent, and no others.
Sent ==
  \A c \in Callers, e \in Entities :
    run[c][e] # "none" <=> (at[c] \in Signals /\ e \in Handlers(at[c]))

\* A SIGTERM is of no effect before the context is entered.
EnteredFirst ==
  /\ at[Main] \in {"idle", "init", "connect", "start"} =>
       \A t \in Terms : at[t] = "idle"
  /\ \A t \in Terms : at[t] \notin {"init", "connect", "start"}

\* start is sent when every connector is served.
ServedFirst ==
  /\ at[Main] = "connect" =>
       \A e \in ActiveConnectors : run[Main][e] = "ok" => link[e] \in Served
  /\ at[Main] = "start" => SentStart /\ \A e \in ActiveConnectors : link[e] \in Served
  /\ at[Main] \in {"idle", "init", "connect"} => started = {}
  /\ started # {} => SentStart
  /\ started \subseteq Active

\* A worker that a caller has seen stopped is not started again.
StoppedFirst ==
  \A c \in Callers :
    /\ at[c] = "stop" => \A e \in Entities : run[c][e] = "ok" => e \notin started
    /\ at[c] \in {"disconnect", "cleanup", "over"} => started = {}

\* Nor is a connector up again that a caller has seen disconnected.
DownFirst ==
  /\ \A e \in Connectors : link[e] # "down" => e \in Active
  /\ \A c \in Callers :
       /\ at[c] = "disconnect" =>
            \A e \in Connectors : run[c][e] = "ok" => link[e] = "down"
       /\ at[c] \in {"cleanup", "over"} => \A e \in Connectors : link[e] = "down"

CleanedFirst ==
  \A c \in Callers :
    /\ at[c] = "cleanup" =>
         \A e \in Connectors : run[c][e] = "ok" => e \in cleaned
    /\ at[c] = "over" => ActiveConnectors \subseteq cleaned

ServiceInv ==
  /\ TypeOK /\ Sent /\ EnteredFirst /\ ServedFirst /\ StoppedFirst
  /\ StartedServed /\ DownFirst /\ CleanedFirst

-----------------------------------------------------------------------------
(* What an action does                                                     *)

Outcomes == {"none", "run", "ok", "error"}

LEMMA HandlersAre ==
  /\ Handlers("init") = Active
  /\ \A s \in {"connect", "disconnect", "cleanup"} :
       Handlers(s) = ActiveConnectors
  /\ \A s \in {"start", "stop"} : Handlers(s) = ActiveWorkers
  /\ \A s \in Signals : Handlers(s) \subseteq Active
  /\ Active \subseteq Entities
BY DEF Handlers, Active, ActiveConnectors, ActiveWorkers, Entities, Signals

\* A plain function is done when its signal has been sent.
LEMMA SendEffect ==
  ASSUME TypeOK, NEW c \in Callers, NEW s \in Signals, Send(c, s)
  PROVE  /\ TypeOK' /\ at' = [at EXCEPT ![c] = s] /\ cleaned' = cleaned
         /\ \A d \in Callers \ {c} : run'[d] = run[d]
         /\ \A e \in Entities :
              /\ run'[c][e] = "none" <=> e \notin Handlers(s)
              /\ run'[c][e] = "ok" => s \in {"start", "stop"}
              /\ run'[c][e] = "ok" /\ s = "stop" => e \notin started'
         /\ started' \subseteq started \cup ActiveWorkers
         /\ s # "start" => started' \subseteq started
         /\ \A e \in Connectors :
              link'[e] = IF s = "connect" /\ e \in Active THEN "trying" ELSE link[e]
<1>1. PICK bad \in SUBSET (Sync \cap Failing \cap Handlers(s)) :
        /\ at' = [at EXCEPT ![c] = s]
        /\ run' = [run EXCEPT ![c] = [e \in Entities |->
             CASE e \notin Handlers(s) -> "none"
               [] e \in bad -> "error"
               [] e \in (Sync \cap Handlers(s)) \ bad /\ s \in {"start", "stop"} -> "ok"
               [] OTHER -> "run"]]
        /\ SyncEffect(s, bad)
        /\ link' = IF s = "connect"
                   THEN [e \in Connectors |->
                           IF e \in Active THEN "trying" ELSE link[e]]
                   ELSE link
        /\ UNCHANGED cleaned
  BY DEF Send
<1>2. \A e \in Entities :
        /\ run'[c][e] \in Outcomes
        /\ run'[c][e] = "none" <=> e \notin Handlers(s)
        /\ run'[c][e] = "ok" =>
             e \in (Sync \cap Handlers(s)) \ bad /\ s \in {"start", "stop"}
  BY <1>1 DEF TypeOK, Outcomes
<1>3. \A d \in Callers \ {c} : run'[d] = run[d]
  BY <1>1 DEF TypeOK
<1>4. run' \in [Callers -> [Entities -> Outcomes]]
  <2>1. run'[c] = [e \in Entities |-> run'[c][e]]
    BY <1>1 DEF TypeOK
  <2>2. run' = [run EXCEPT ![c] = run'[c]]
    BY <1>1 DEF TypeOK
  <2> QED BY <1>2, <2>1, <2>2 DEF TypeOK, Outcomes
<1>5. /\ s # "start" => started' \subseteq started
      /\ started' \subseteq started \cup ActiveWorkers
      /\ s = "stop" => started' = started \ ((Sync \cap Active) \ bad)
  BY <1>1, LifecycleAssumption DEF SyncEffect, ActiveWorkers, Entities, Signals
<1>6. \A e \in Connectors :
        link'[e] = IF s = "connect" /\ e \in Active THEN "trying" ELSE link[e]
  BY <1>1 DEF TypeOK
<1>7. TypeOK'
  <2>1. at' \in [Callers -> Where]
    BY <1>1 DEF TypeOK, Where
  <2>2. link' \in [Connectors -> {"down", "trying", "pausing", "up", "gaveup"}]
    BY <1>1 DEF TypeOK
  <2>3. \A d \in Callers, e \in Entities : run'[d][e] # "none" => e \in Active
    BY <1>2, <1>3, HandlersAre DEF TypeOK
  <2>4. started' \subseteq Workers /\ cleaned' \subseteq Connectors
    BY <1>1, <1>5 DEF TypeOK, ActiveWorkers
  <2> QED BY <1>4, <2>1, <2>2, <2>3, <2>4 DEF TypeOK, Outcomes
<1> QED BY <1>1, <1>2, <1>3, <1>5, <1>6, <1>7, HandlersAre

LEMMA GoEffect ==
  ASSUME TypeOK, NEW c \in Callers, NEW s \in Where, Go(c, s)
  PROVE  /\ TypeOK' /\ at' = [at EXCEPT ![c] = s]
         /\ UNCHANGED <<link, started, cleaned>>
         /\ \A d \in Callers \ {c} : run'[d] = run[d]
         /\ \A e \in Entities : run'[c][e] = "none"
<1>1. /\ \A d \in Callers \ {c} : run'[d] = run[d]
      /\ \A e \in Entities : run'[c][e] = "none"
  BY DEF Go, TypeOK
<1> QED BY <1>1 DEF Go, TypeOK

\* A handler that returns ends the wait for itself alone.
LEMMA ReturnEffect ==
  ASSUME TypeOK, NEW c \in Callers, NEW e \in Entities,
         NEW outcome \in {"ok", "error"}, run[c][e] = "run",
         Return(c, e, outcome)
  PROVE  /\ run' \in [Callers -> [Entities -> Outcomes]]
         /\ \A d \in Callers, f \in Entities :
              run'[d][f] = IF d = c /\ f = e THEN outcome ELSE run[d][f]
         /\ \A d \in Callers, f \in Entities : run'[d][f] # "none" => f \in Active
<1>1. /\ run' \in [Callers -> [Entities -> Outcomes]]
      /\ \A d \in Callers, f \in Entities :
           run'[d][f] = IF d = c /\ f = e THEN outcome ELSE run[d][f]
  BY DEF Return, TypeOK, Outcomes
<1> QED BY <1>1 DEF TypeOK

-----------------------------------------------------------------------------
(* Each signal is sent in its time                                         *)

\* When a caller may send a signal.
InTime(c, s) ==
  /\ s \in {"init", "connect", "start"} => c = Main
  /\ s = "init" => at[Main] = "idle"
  /\ s = "connect" => at[Main] = "init"
  /\ s = "start" =>
       /\ at[Main] = "connect" /\ SentStart
       /\ \A e \in ActiveConnectors : link[e] \in Served
  /\ s \in Exiting => at[Main] \notin {"idle", "init", "connect", "start"}
  /\ s \in {"disconnect", "cleanup"} => started = {}
  /\ s = "cleanup" => \A e \in Connectors : link[e] = "down"

LEMMA SendKeeps ==
  ASSUME ServiceInv, NEW c \in Callers, NEW s \in Signals, Send(c, s), InTime(c, s)
  PROVE  ServiceInv'
<1> USE DEF ServiceInv
<1>1. /\ TypeOK' /\ at' = [at EXCEPT ![c] = s] /\ cleaned' = cleaned
      /\ \A d \in Callers \ {c} : run'[d] = run[d]
      /\ \A e \in Entities :
           /\ run'[c][e] = "none" <=> e \notin Handlers(s)
           /\ run'[c][e] = "ok" => s \in {"start", "stop"}
           /\ run'[c][e] = "ok" /\ s = "stop" => e \notin started'
      /\ started' \subseteq started \cup ActiveWorkers
      /\ s # "start" => started' \subseteq started
      /\ \A e \in Connectors :
           link'[e] = IF s = "connect" /\ e \in Active THEN "trying" ELSE link[e]
  BY SendEffect
<1>2. /\ at'[c] = s /\ \A d \in Callers \ {c} : at'[d] = at[d]
      /\ Main \in Callers /\ Terms \subseteq Callers /\ Main \notin Terms
  BY <1>1, LifecycleAssumption DEF TypeOK, Callers
<1>3. Sent'
  BY <1>1, <1>2 DEF Sent
<1>4. EnteredFirst'
  BY <1>2 DEF EnteredFirst, InTime, Exiting, Signals
<1>5. ServedFirst'
  <2>1. \A e \in ActiveConnectors : e \in Entities /\ e \in Connectors
    BY DEF ActiveConnectors, Entities
  <2>2. at'[Main] = "connect" =>
          \A e \in ActiveConnectors : run'[Main][e] = "ok" => link'[e] \in Served
    BY <1>1, <1>2, <2>1 DEF InTime, Exiting, Signals, EnteredFirst, ServedFirst
  <2>3. at'[Main] = "start" =>
          SentStart /\ \A e \in ActiveConnectors : link'[e] \in Served
    BY <1>1, <1>2, <2>1 DEF InTime, Exiting, Signals, EnteredFirst, ServedFirst
  <2>4. at'[Main] \in {"idle", "init", "connect"} => started' = {}
    BY <1>1, <1>2 DEF InTime, Exiting, Signals, EnteredFirst, ServedFirst
  <2>5. started' # {} => SentStart
    BY <1>1 DEF InTime, ServedFirst
  <2>6. started' \subseteq Active
    BY <1>1 DEF ServedFirst, ActiveWorkers
  <2> QED BY <2>2, <2>3, <2>4, <2>5, <2>6 DEF ServedFirst
<1>6. StoppedFirst'
  <2>1. s = "start" => \A d \in Callers : at'[d] \in {"idle", "start"}
    BY <1>2 DEF InTime, EnteredFirst, Callers
  <2>2. CASE s = "start"
    BY <2>1, <2>2 DEF StoppedFirst
  <2>3. CASE s # "start"
    BY <1>1, <1>2, <2>3 DEF StoppedFirst, InTime, Signals
  <2> QED BY <2>2, <2>3
<1>7. StartedServed'
  <2>1. s = "start" => \A e \in ActiveConnectors : link'[e] \in Served
    BY <1>1 DEF InTime, ActiveConnectors
  <2>2. s = "connect" => started' = {}
    BY <1>1 DEF InTime, ServedFirst
  <2>3. s \notin {"start", "connect"} =>
          started' \subseteq started /\ \A e \in Connectors : link'[e] = link[e]
    BY <1>1
  <2> QED BY <2>1, <2>2, <2>3 DEF StartedServed, ActiveConnectors, Served
<1>8. DownFirst'
  <2>1. \A e \in Connectors : link'[e] # "down" => e \in Active
    BY <1>1 DEF DownFirst
  <2>2. s = "connect" => \A d \in Callers : at'[d] \in {"idle", "connect"}
    BY <1>2 DEF InTime, EnteredFirst, Callers
  <2>3. CASE s = "connect"
    BY <2>1, <2>2, <2>3 DEF DownFirst
  <2>4. CASE s # "connect"
    BY <1>1, <1>2, <2>1, <2>4 DEF DownFirst, InTime, Entities, Signals
  <2> QED BY <2>3, <2>4
<1>9. CleanedFirst'
  BY <1>1, <1>2 DEF CleanedFirst, Entities, Signals
<1> QED BY <1>1, <1>3, <1>4, <1>5, <1>6, <1>7, <1>8, <1>9

\* A caller comes to a rest.
LEMMA GoKeeps ==
  ASSUME ServiceInv, NEW c \in Callers, NEW s \in {"up", "over", "raised"}, Go(c, s),
         s = "up" => c = Main /\ at[Main] \notin Over,
         at[Main] \in {"idle", "init", "connect", "start"} => c = Main,
         s = "over" => /\ started = {} /\ ActiveConnectors \subseteq cleaned
                       /\ \A e \in Connectors : link[e] = "down"
  PROVE  ServiceInv'
<1> USE DEF ServiceInv
<1>1. /\ TypeOK' /\ at' = [at EXCEPT ![c] = s]
      /\ UNCHANGED <<link, started, cleaned>>
      /\ \A d \in Callers \ {c} : run'[d] = run[d]
      /\ \A e \in Entities : run'[c][e] = "none"
  BY GoEffect DEF Where, Over
<1>2. /\ at'[c] = s /\ \A d \in Callers \ {c} : at'[d] = at[d]
      /\ Main \in Callers /\ Terms \subseteq Callers /\ Main \notin Terms
  BY <1>1, LifecycleAssumption DEF TypeOK, Callers
<1>3. Sent'
  BY <1>1, <1>2 DEF Sent, Signals
<1>4. EnteredFirst'
  BY <1>2 DEF EnteredFirst
<1>5. ServedFirst'
  BY <1>1, <1>2 DEF ServedFirst, ActiveConnectors, Entities
<1>6. StoppedFirst' /\ StartedServed'
  BY <1>1, <1>2 DEF StoppedFirst, StartedServed
<1>7. DownFirst' /\ CleanedFirst'
  BY <1>1, <1>2 DEF DownFirst, CleanedFirst
<1> QED BY <1>1, <1>3, <1>4, <1>5, <1>6, <1>7

-----------------------------------------------------------------------------
(* Handlers                                                                *)

LEMMA HandlerOf ==
  ASSUME TypeOK, Sent, NEW c \in Callers, NEW s \in Signals, NEW e \in Entities,
         Running(c, s, e)
  PROVE  /\ e \in Handlers(s) /\ e \in Active
         /\ s \in {"connect", "disconnect", "cleanup"} => e \in ActiveConnectors
         /\ s \in {"start", "stop"} => e \in ActiveWorkers
BY HandlersAre DEF Running, Sent, Signals

\* What the handler of entity e may have done when it returns or raises.
Did(s, e, outcome) ==
  /\ link' \in [Connectors -> {"down", "trying", "pausing", "up", "gaveup"}]
  /\ \A f \in Connectors :
       \/ link'[f] = link[f] /\ (f = e /\ outcome = "ok" => s \notin {"connect", "disconnect"})
       \/ f = e /\ s = "connect" /\ (outcome = "ok" => link'[e] \in Served)
       \/ f = e /\ s = "disconnect" /\ link'[e] = "down"
  /\ started' = CASE outcome = "ok" /\ s = "start" -> started \cup {e}
                  [] outcome = "ok" /\ s = "stop" -> started \ {e}
                  [] OTHER -> started
  /\ cleaned' = IF outcome = "ok" /\ s = "cleanup" THEN cleaned \cup {e} ELSE cleaned

LEMMA HandlerKeeps ==
  ASSUME ServiceInv, NEW c \in Callers, NEW s \in Signals, NEW e \in Entities,
         NEW outcome \in {"ok", "error"}, Running(c, s, e),
         s \in {"connect", "start"} => c = Main,
         at' = at, Return(c, e, outcome), Did(s, e, outcome)
  PROVE  ServiceInv'
<1> USE DEF ServiceInv
<1>1. /\ e \in Handlers(s) /\ e \in Active
      /\ s \in {"connect", "disconnect", "cleanup"} => e \in ActiveConnectors
      /\ s \in {"start", "stop"} => e \in ActiveWorkers
  BY HandlerOf
<1>2. /\ run' \in [Callers -> [Entities -> Outcomes]]
      /\ \A d \in Callers, f \in Entities :
           run'[d][f] = IF d = c /\ f = e THEN outcome ELSE run[d][f]
      /\ \A d \in Callers, f \in Entities : run'[d][f] # "none" => f \in Active
  BY ReturnEffect DEF Running
<1>3. /\ \A f \in Connectors : f # e => link'[f] = link[f]
      /\ s \notin {"connect", "disconnect"} => \A f \in Connectors : link'[f] = link[f]
      /\ s = "disconnect" => \A f \in Connectors : link'[f] \in {link[f], "down"}
      /\ s = "disconnect" /\ outcome = "ok" /\ e \in Connectors => link'[e] = "down"
      /\ s = "connect" /\ outcome = "ok" /\ e \in Connectors => link'[e] \in Served
  BY DEF Did
<1>4. /\ s = "start" => started' \subseteq started \cup {e}
      /\ s # "start" => started' \subseteq started
      /\ s = "stop" /\ outcome = "ok" => e \notin started'
      /\ cleaned \subseteq cleaned'
      /\ s = "cleanup" /\ outcome = "ok" => e \in cleaned'
  BY DEF Did, Signals
<1>5. at[c] = s /\ Main \in Callers /\ Terms \subseteq Callers /\ at' = at
  BY DEF Running, Callers
<1>6. s \in {"connect", "start"} =>
        \A d \in Callers : at[d] \notin {"stop", "disconnect", "cleanup", "over"}
  BY <1>5 DEF EnteredFirst, Callers
<1>7. TypeOK'
  <2>1. started' \subseteq Workers /\ cleaned' \subseteq Connectors
    BY <1>1 DEF Did, TypeOK, ActiveWorkers, ActiveConnectors
  <2> QED BY <1>2, <1>5, <2>1 DEF TypeOK, Did, Outcomes
<1>8. Sent'
  BY <1>2, <1>5 DEF Sent, Running
<1>9. EnteredFirst'
  BY <1>5 DEF EnteredFirst
<1>10. ServedFirst'
  <2>1. at'[Main] = "connect" =>
          \A f \in ActiveConnectors : run'[Main][f] = "ok" => link'[f] \in Served
    <3> SUFFICES ASSUME at[Main] = "connect", NEW f \in ActiveConnectors,
                        run'[Main][f] = "ok"
                 PROVE  link'[f] \in Served
      BY <1>5
    <3>1. c = Main /\ s = "connect"
      BY <1>5 DEF EnteredFirst, Callers, Signals
    <3>2. f \in Connectors /\ f \in Entities
      BY DEF ActiveConnectors, Entities
    <3>3. CASE f = e
      BY <1>2, <1>3, <3>1, <3>2, <3>3
    <3>4. CASE f # e
      BY <1>2, <1>3, <1>5, <3>1, <3>2, <3>4 DEF ServedFirst
    <3> QED BY <3>3, <3>4
  <2>2. at'[Main] = "start" =>
          SentStart /\ \A f \in ActiveConnectors : link'[f] \in Served
    <3> SUFFICES ASSUME at[Main] = "start"
                 PROVE  SentStart /\ \A f \in ActiveConnectors : link'[f] \in Served
      BY <1>5
    <3>1. s = "start"
      BY <1>5 DEF EnteredFirst, Callers, Signals
    <3> QED BY <1>3, <1>5, <3>1 DEF ServedFirst, ActiveConnectors
  <2>3. at'[Main] \in {"idle", "init", "connect"} => started' = {}
    BY <1>4, <1>5 DEF ServedFirst
  <2>4. started' # {} => SentStart
    <3>1. CASE s = "start"
      BY <1>5, <3>1 DEF ServedFirst
    <3>2. CASE s # "start"
      BY <1>4, <3>2 DEF ServedFirst
    <3> QED BY <3>1, <3>2
  <2>5. started' \subseteq Active
    BY <1>1, <1>4 DEF ServedFirst
  <2> QED BY <2>1, <2>2, <2>3, <2>4, <2>5 DEF ServedFirst
<1>11. StoppedFirst' /\ StartedServed'
  <2>1. s = "start" => StoppedFirst' /\ StartedServed'
    <3>1. s = "start" => \A d \in Callers : at'[d] \notin {"stop", "disconnect", "cleanup", "over"}
      BY <1>5, <1>6
    <3>2. s = "start" => \A f \in ActiveConnectors : link'[f] \in Served
      BY <1>5, <1>10 DEF ServedFirst
    <3> QED BY <3>1, <3>2 DEF StoppedFirst, StartedServed, ActiveConnectors, Served
  <2>2. s # "start" => StoppedFirst'
    BY <1>2, <1>4, <1>5 DEF StoppedFirst
  <2>3. s \notin {"start", "connect", "disconnect"} => StartedServed'
    BY <1>3, <1>4 DEF StartedServed
  <2>4. s \in {"connect", "disconnect"} => started' = {}
    BY <1>4, <1>5 DEF ServedFirst, StoppedFirst
  <2> QED BY <2>1, <2>2, <2>3, <2>4 DEF StartedServed
<1>12. DownFirst'
  <2>1. \A f \in Connectors : link'[f] # "down" => f \in Active
    BY <1>1, <1>3 DEF DownFirst
  <2>2. s = "connect" => DownFirst'
    BY <1>5, <1>6, <2>1 DEF DownFirst
  <2>3. s # "connect" => DownFirst'
    <3>1. s # "connect" => \A f \in Connectors : link'[f] \in {link[f], "down"}
      BY <1>3
    <3>2. s # "connect" =>
            \A d \in Callers : at[d] = "disconnect" =>
              \A f \in Connectors : run'[d][f] = "ok" => link'[f] = "down"
      BY <1>2, <1>3, <1>5, <3>1 DEF DownFirst, Entities
    <3> QED BY <1>5, <2>1, <3>1, <3>2 DEF DownFirst
  <2> QED BY <2>2, <2>3
<1>13. CleanedFirst'
  BY <1>2, <1>4, <1>5 DEF CleanedFirst, Entities
<1> QED BY <1>7, <1>8, <1>9, <1>10, <1>11, <1>12, <1>13

LEMMA ConnectKeeps ==
  ASSUME ServiceInv, NEW e \in Connectors, NEW l \in {"trying", "pausing"},
         Running(Main, "connect", e), link' = [link EXCEPT ![e] = l],
         UNCHANGED <<at, run, started, cleaned>>
  PROVE  ServiceInv'
<1> USE DEF ServiceInv
<1>1. Main \in Callers /\ e \in Entities /\ at[Main] = "connect" /\ run[Main][e] = "run"
  BY DEF Running, Callers, Entities
<1>2. e \in Active /\ started = {}
  BY <1>1, HandlerOf DEF ServedFirst, Signals
<1>3. \A f \in Connectors : link'[f] = IF f = e THEN l ELSE link[f]
  BY DEF TypeOK
<1>4. \A d \in Callers : at[d] \notin {"disconnect", "cleanup", "over"}
  BY <1>1 DEF EnteredFirst, Callers
<1>5. TypeOK' /\ Sent' /\ EnteredFirst'
  BY DEF TypeOK, Sent, EnteredFirst
<1>6. ServedFirst'
  BY <1>1, <1>2, <1>3 DEF ServedFirst, ActiveConnectors
<1>7. StoppedFirst' /\ StartedServed' /\ CleanedFirst'
  BY <1>2 DEF StoppedFirst, StartedServed, CleanedFirst
<1>8. DownFirst'
  BY <1>2, <1>3, <1>4 DEF DownFirst
<1> QED BY <1>5, <1>6, <1>7, <1>8

-----------------------------------------------------------------------------
(* The steps                                                               *)

\* The handlers a caller waited for have all returned.
LEMMA WaitedFor ==
  ASSUME ServiceInv, NEW c \in Callers, NEW s \in Signals, Done(c, s)
  PROVE  \A e \in Handlers(s) : e \in Entities /\ run[c][e] = "ok"
BY HandlersAre DEF Done, AllDone, Failed, Sent, ServiceInv, TypeOK

LEMMA AfterWait ==
  ASSUME ServiceInv, NEW c \in Callers
  PROVE  /\ Done(c, "connect") /\ c = Main =>
              \A e \in ActiveConnectors : link[e] \in Served
         /\ Done(c, "stop") => started = {}
         /\ Done(c, "disconnect") =>
              started = {} /\ \A e \in Connectors : link[e] = "down"
         /\ Done(c, "cleanup") =>
              /\ started = {} /\ ActiveConnectors \subseteq cleaned
              /\ \A e \in Connectors : link[e] = "down"
<1> USE DEF ServiceInv
<1>1. Done(c, "connect") /\ c = Main => \A e \in ActiveConnectors : link[e] \in Served
  BY WaitedFor, HandlersAre DEF ServedFirst, Done, Signals
<1>2. Done(c, "stop") => started = {}
  <2>1. started \subseteq ActiveWorkers
    BY DEF ServedFirst, TypeOK, ActiveWorkers
  <2> QED BY <2>1, WaitedFor, HandlersAre DEF StoppedFirst, Done, Signals
<1>3. Done(c, "disconnect") => started = {} /\ \A e \in Connectors : link[e] = "down"
  <2>1. Done(c, "disconnect") => \A e \in ActiveConnectors : link[e] = "down"
    BY WaitedFor, HandlersAre DEF DownFirst, Done, Signals, ActiveConnectors
  <2> QED BY <2>1 DEF DownFirst, StoppedFirst, Done, ActiveConnectors
<1>4. Done(c, "cleanup") => /\ started = {} /\ ActiveConnectors \subseteq cleaned
                            /\ \A e \in Connectors : link[e] = "down"
  <2>1. Done(c, "cleanup") => ActiveConnectors \subseteq cleaned
    BY WaitedFor, HandlersAre DEF CleanedFirst, Done, Signals, ActiveConnectors
  <2> QED BY <2>1 DEF DownFirst, StoppedFirst, Done
<1> QED BY <1>1, <1>2, <1>3, <1>4

LEMMA TermOverKeeps ==
  ASSUME ServiceInv, NEW t \in Terms, TermOver(t)
  PROVE  ServiceInv'
<1> USE DEF ServiceInv
<1>1. /\ t \in Callers /\ Main \in Callers /\ t # Main /\ Terms \subseteq Callers
      /\ at[t] = "cleanup"
  BY LifecycleAssumption DEF Callers, TermOver, Done
<1>2. /\ started = {} /\ ActiveConnectors \subseteq cleaned
      /\ \A e \in Connectors : link[e] = "down"
  BY <1>1, AfterWait DEF TermOver
<1>3. at[Main] \notin {"idle", "init", "connect", "start"}
  BY <1>1 DEF EnteredFirst
<1>4. PICK next \in {"stopping", "raised"} :
        /\ next = "raised" \/ at[Main] \in {"up", "stopping"}
        /\ at' = [at EXCEPT ![t] = "over", ![Main] = next]
        /\ run' = [c \in Callers |->
             IF c = t \/ (c = Main /\ next = "raised")
             THEN [e \in Entities |-> "none"] ELSE run[c]]
  BY DEF TermOver
<1>5. UNCHANGED <<link, started, cleaned>>
  BY DEF TermOver
<1>6. /\ at'[t] = "over" /\ at'[Main] = next
      /\ \A c \in Callers \ {t, Main} : at'[c] = at[c] /\ run'[c] = run[c]
      /\ \A e \in Entities : run'[t][e] = "none"
      /\ next = "raised" => \A e \in Entities : run'[Main][e] = "none"
      /\ next = "stopping" => run'[Main] = run[Main]
  BY <1>1, <1>4 DEF TypeOK
<1>7. TypeOK'
  <2>1. at' \in [Callers -> Where]
    BY <1>4 DEF TypeOK, Where, Over
  <2>2. run' \in [Callers -> [Entities -> Outcomes]]
    BY <1>4 DEF TypeOK, Outcomes
  <2>3. \A c \in Callers, e \in Entities : run'[c][e] # "none" => e \in Active
    BY <1>4, <1>6 DEF TypeOK
  <2> QED BY <1>5, <2>1, <2>2, <2>3 DEF TypeOK, Outcomes
<1>8. Sent'
  <2>2. next = "stopping" => at[Main] \notin Signals
    BY <1>4 DEF Signals
  <2>3. ASSUME NEW c \in Callers, NEW e \in Entities
        PROVE  run'[c][e] # "none" <=> (at'[c] \in Signals /\ e \in Handlers(at'[c]))
    <3>1. CASE c = t
      BY <1>6, <3>1 DEF Signals
    <3>2. CASE c = Main
      BY <1>1, <1>6, <2>2, <3>2 DEF Signals, Sent
    <3>3. CASE c \notin {t, Main}
      BY <1>6, <3>3 DEF Sent
    <3> QED BY <3>1, <3>2, <3>3
  <2> QED BY <2>3 DEF Sent
<1>9. EnteredFirst' /\ ServedFirst'
  <2>1. \A u \in Terms : at'[u] \in {at[u], "over"}
    BY <1>1, <1>6, LifecycleAssumption
  <2> QED BY <1>4, <1>5, <1>6, <2>1 DEF EnteredFirst, ServedFirst
<1>10. StoppedFirst' /\ StartedServed'
  BY <1>2, <1>5 DEF StoppedFirst, StartedServed
<1>11. DownFirst' /\ CleanedFirst'
  <2>1. \A c \in Callers :
          \/ at'[c] \in {"over", "stopping", "raised"}
          \/ at'[c] = at[c] /\ run'[c] = run[c]
    BY <1>4, <1>6
  <2> QED BY <1>2, <1>5, <2>1 DEF DownFirst, CleanedFirst
<1> QED BY <1>7, <1>8, <1>9, <1>10, <1>11

LEMMA MainStep ==
  ASSUME ServiceInv,
         \/ Enter \/ AfterInit \/ AfterConnect \/ AfterStart
         \/ Leave \/ Leaving \/ MainOver
  PROVE  ServiceInv'
<1> USE DEF ServiceInv
<1>1. Main \in Callers /\ Signals \cap Over = {}
  BY DEF Callers, Signals, Over
<1>2. ASSUME Enter PROVE ServiceInv'
  BY <1>1, <1>2, SendKeeps DEF Enter, InTime, Signals, Exiting
<1>3. ASSUME AfterInit PROVE ServiceInv'
  BY <1>1, <1>3, SendKeeps DEF AfterInit, Done, InTime, Signals, Exiting
<1>4. ASSUME AfterConnect PROVE ServiceInv'
  <2>1. at[Main] = "connect" /\ \A e \in ActiveConnectors : link[e] \in Served
    BY <1>1, <1>4, AfterWait DEF AfterConnect, Done
  <2>2. CASE SentStart
    BY <1>1, <1>4, <2>1, <2>2, SendKeeps DEF AfterConnect, InTime, Signals, Exiting
  <2>3. CASE ~SentStart
    BY <1>1, <1>4, <2>1, <2>3, GoKeeps DEF AfterConnect, Over
  <2> QED BY <2>2, <2>3
<1>5. ASSUME AfterStart PROVE ServiceInv'
  BY <1>1, <1>5, GoKeeps DEF AfterStart, Done, Over
<1>6. ASSUME Leave \/ Leaving PROVE ServiceInv'
  <2>1. at[Main] \in {"up", "stopping"} /\ Exit(Main)
    BY <1>6 DEF Leave, Leaving
  <2>2. CASE SentStart
    BY <1>1, <2>1, <2>2, SendKeeps DEF Exit, InTime, Signals, Exiting
  <2>3. CASE ~SentStart
    BY <1>1, <2>1, <2>3, SendKeeps DEF Exit, InTime, Signals, Exiting, ServedFirst
  <2> QED BY <2>2, <2>3
<1>7. ASSUME MainOver PROVE ServiceInv'
  BY <1>1, <1>7, AfterWait, GoKeeps DEF MainOver, Done
<1> QED BY <1>2, <1>3, <1>4, <1>5, <1>6, <1>7

LEMMA CallerStep ==
  ASSUME ServiceInv, at[Main] \notin Over,
         \/ \E c \in Callers : Move(c)
         \/ \E t \in Terms : Terminate(t) \/ TermOver(t)
  PROVE  ServiceInv'
<1> USE DEF ServiceInv
<1>1. ASSUME NEW c \in Callers, Raise(c) PROVE ServiceInv'
  <2>1. at[Main] \in {"idle", "init", "connect", "start"} => c = Main
    BY <1>1 DEF Raise, EnteredFirst, Callers, Signals
  <2> QED BY <1>1, <2>1, GoKeeps DEF Raise
<1>2. ASSUME NEW c \in Callers, AfterStop(c) \/ AfterDisconnect(c)
      PROVE  ServiceInv'
  <2>1. at[c] \in {"stop", "disconnect"}
    BY <1>2 DEF AfterStop, AfterDisconnect, Done
  <2>2. at[Main] \notin {"idle", "init", "connect", "start"}
    BY <2>1 DEF EnteredFirst, Callers
  <2>3. CASE AfterStop(c)
    BY <2>2, <2>3, AfterWait, SendKeeps DEF AfterStop, InTime, Signals
  <2>4. CASE AfterDisconnect(c)
    BY <2>2, <2>4, AfterWait, SendKeeps DEF AfterDisconnect, InTime, Signals
  <2> QED BY <1>2, <2>3, <2>4
<1>3. ASSUME NEW t \in Terms, Terminate(t) PROVE ServiceInv'
  <2>1. t \in Callers /\ at[Main] \in {"up"} \cup Exiting /\ Exit(t)
    BY <1>3 DEF Terminate, Callers
  <2>2. CASE SentStart
    BY <2>1, <2>2, SendKeeps DEF Exit, InTime, Signals, Exiting
  <2>3. CASE ~SentStart
    BY <2>1, <2>3, SendKeeps DEF Exit, InTime, Signals, Exiting, ServedFirst
  <2> QED BY <2>2, <2>3
<1>4. ASSUME NEW t \in Terms, TermOver(t) PROVE ServiceInv'
  BY <1>4, TermOverKeeps
<1> QED BY <1>1, <1>2, <1>3, <1>4 DEF Move

LEMMA HandlerStep ==
  ASSUME ServiceInv, NEW c \in Callers, NEW e \in Entities,
         HandlerReturns(c, e) \/ \E s \in Signals : HandlerFails(c, s, e)
  PROVE  ServiceInv'
<1> USE DEF ServiceInv
<1>1. ASSUME NEW s \in Signals, HandlerFails(c, s, e) PROVE ServiceInv'
  <2>1. s = "start" => c = Main
    BY <1>1 DEF HandlerFails, Running, EnteredFirst, Callers
  <2>2. Did(s, e, "error")
    BY <1>1 DEF HandlerFails, Did, TypeOK
  <2> QED BY <1>1, <2>1, <2>2, HandlerKeeps DEF HandlerFails
<1>2. ASSUME StopDone(c, e) PROVE ServiceInv'
  <2>1. Did("stop", e, "ok")
    BY <1>2 DEF StopDone, Did, TypeOK
  <2> QED BY <1>2, <2>1, HandlerKeeps DEF StopDone, Signals
<1>3. ASSUME DisconnectDone(c, e) PROVE ServiceInv'
  <2>1. Did("disconnect", e, "ok")
    BY <1>3 DEF DisconnectDone, Did, TypeOK
  <2> QED BY <1>3, <2>1, HandlerKeeps DEF DisconnectDone, Signals
<1>4. ASSUME CleanupDone(c, e) PROVE ServiceInv'
  <2>1. Did("cleanup", e, "ok")
    BY <1>4 DEF CleanupDone, Did, TypeOK
  <2> QED BY <1>4, <2>1, HandlerKeeps DEF CleanupDone, Signals
<1>5. ASSUME c = Main, InitDone(e) PROVE ServiceInv'
  <2>1. Did("init", e, "ok")
    BY <1>5 DEF InitDone, Did, TypeOK
  <2> QED BY <1>5, <2>1, HandlerKeeps DEF InitDone, Signals
<1>6. ASSUME c = Main, StartDone(e) PROVE ServiceInv'
  <2>1. Did("start", e, "ok")
    BY <1>6 DEF StartDone, Did, TypeOK
  <2> QED BY <1>6, <2>1, HandlerKeeps DEF StartDone, Signals
<1> QED BY <1>1, <1>2, <1>3, <1>4, <1>5, <1>6 DEF HandlerReturns

LEMMA ConnectorStep ==
  ASSUME ServiceInv, NEW e \in Connectors,
         ConnectOk(e) \/ ConnectFails(e) \/ Reconnect(e) \/ ConnectTimesOut(e)
  PROVE  ServiceInv'
<1> USE DEF ServiceInv
<1>1. Main \in Callers /\ e \in Entities
  BY DEF Callers, Entities
<1>2. ASSUME ConnectOk(e) PROVE ServiceInv'
  <2>1. Did("connect", e, "ok")
    BY <1>2 DEF ConnectOk, Did, TypeOK, Served
  <2> QED BY <1>1, <1>2, <2>1, HandlerKeeps DEF ConnectOk, Signals
<1>3. ASSUME ConnectFails(e) \/ Reconnect(e) PROVE ServiceInv'
  BY <1>3, ConnectKeeps DEF ConnectFails, Reconnect
<1>4. ASSUME ConnectTimesOut(e) PROVE ServiceInv'
  <2>1. CASE link[e] = "trying"
    <3>1. Did("connect", e, "ok")
      BY <1>4, <2>1 DEF ConnectTimesOut, Did, TypeOK, Served
    <3> QED BY <1>1, <1>4, <2>1, <3>1, HandlerKeeps DEF ConnectTimesOut, Signals
  <2>2. CASE link[e] # "trying"
    <3>1. Did("connect", e, "error")
      BY <1>4, <2>2 DEF ConnectTimesOut, Did, TypeOK
    <3> QED BY <1>1, <1>4, <2>2, <3>1, HandlerKeeps DEF ConnectTimesOut, Signals
  <2> QED BY <2>1, <2>2
<1> QED BY <1>2, <1>3, <1>4

LEMMA ServiceInvInductive ==
  /\ Init => ServiceInv
  /\ ServiceInv /\ [Next]_vars => ServiceInv'
<1>1. Init => ServiceInv
  <2> SUFFICES ASSUME Init PROVE ServiceInv
    OBVIOUS
  <2>1. TypeOK
    BY DEF Init, TypeOK, Where
  <2>2. Sent
    BY DEF Init, Sent, Signals
  <2>3. EnteredFirst /\ ServedFirst /\ StoppedFirst /\ StartedServed
    BY LifecycleAssumption
    DEF Init, EnteredFirst, ServedFirst, StoppedFirst, StartedServed, Callers
  <2>4. DownFirst /\ CleanedFirst
    BY DEF Init, DownFirst, CleanedFirst
  <2> QED BY <2>1, <2>2, <2>3, <2>4 DEF ServiceInv
<1>2. ASSUME ServiceInv, [Next]_vars PROVE ServiceInv'
  <2>1. CASE UNCHANGED vars
    BY <1>2, <2>1
    DEF vars, ServiceInv, TypeOK, Sent, AllDone, EnteredFirst, ServedFirst,
        StoppedFirst, StartedServed, DownFirst, CleanedFirst
  <2> QED BY <1>2, <2>1, MainStep, CallerStep, HandlerStep, ConnectorStep DEF Next
<1> QED BY <1>1, <1>2

-----------------------------------------------------------------------------
(* Theorems                                                                *)

THEOREM ServiceInvHolds == Spec => []ServiceInv
BY ServiceInvInductive, PTL DEF Spec

\* Only handlers of entities in the active groups are ever run, and the state
\* keeps its shape (Signal.send and wait_all).
THEOREM TypeCorrect == Spec => []TypeOK
<1>1. ServiceInv => TypeOK
  BY DEF ServiceInv
<1> QED BY <1>1, ServiceInvHolds, PTL

\* A worker is started only while every connector is connected or has given up,
\* whatever raises and however many exits run at once (__aenter__, __aexit__).
THEOREM StartedServedHolds == Spec => []StartedServed
<1>1. ServiceInv => StartedServed
  BY DEF ServiceInv
<1> QED BY <1>1, ServiceInvHolds, PTL

\* An exit that goes through leaves no worker started and no connector open or
\* without its cleanup, and nothing comes up again (__aexit__ and shutdown).
THEOREM ExitLeavesNothingHolds == Spec => []ExitLeavesNothing
<1>1. ServiceInv => ExitLeavesNothing
  BY DEF ServiceInv, ExitLeavesNothing, StoppedFirst, DownFirst, CleanedFirst,
         ActiveConnectors
<1> QED BY <1>1, ServiceInvHolds, PTL
=============================================================================
