----------------------------- MODULE MainProofs -----------------------------
(***************************************************************************)
(* Theorems about Main, for every configuration, every number of processes *)
(* and whatever the children do.                                           *)
(***************************************************************************)
EXTENDS Main, TLAPS

-----------------------------------------------------------------------------
(* The list of processes and the children                                  *)

ChildStates == {"new", "up", "closing", "hung", "dead"}
Child == [slot : Nat, st : ChildStates]
Forking == {"create", "created", "wait", "check", "recreated"}

\* A child keeps its entry; an entry knows a child that was forked, or none.
Shape ==
  /\ step \in Nat
  /\ child \in Seq(Child)
  /\ \A i \in DOMAIN slots :
       /\ i \in Int /\ slots[i].child \in 0..Len(child)
       /\ slots[i] = [section |-> slots[i].section, child |-> slots[i].child]

\* There is no child before the list of processes.
Unborn ==
  pc \in {"plugins", "stdin", "resolve", "running", "failed"} => child = <<>>

\* The first round has not come to the entries behind step.
Ahead ==
  pc \in {"create", "created"} =>
    \A i \in DOMAIN slots :
      i > step \/ (i = step /\ pc = "create") => slots[i].child = 0

\* A child that was forked and is not stored yet replaces a dead one, or none.
ForkedHere ==
  pc \in {"created", "recreated"} =>
    /\ step \in DOMAIN slots /\ slots[step].child \notin Alive
    /\ Len(child) \in DOMAIN child /\ child[Len(child)].slot = step

\* Any other live child is known to its entry.
Known ==
  pc \in Forking =>
    \A c \in Alive :
      \/ pc \in {"created", "recreated"} /\ c = Len(child)
      \/ child[c].slot \in DOMAIN slots /\ slots[child[c].slot].child = c

SlotInv == Shape /\ Unborn /\ Ahead /\ ForkedHere /\ Known /\ OneEach

LEMMA ChildOf ==
  ASSUME Shape
  PROVE  /\ DOMAIN child = 1..Len(child) /\ Len(child) \in Nat
         /\ \A c \in DOMAIN child :
              /\ child[c] \in Child
              /\ child[c].slot \in Nat /\ child[c].st \in ChildStates
<1>1. \A c \in DOMAIN child : child[c] \in Child
  BY DEF Shape
<1>2. DOMAIN child = 1..Len(child) /\ Len(child) \in Nat
  BY DEF Shape
<1> QED BY <1>1, <1>2 DEF Child

\* What the children do, and what is done to them, only takes live ones away.
Fading ==
  /\ DOMAIN child' = DOMAIN child /\ Len(child') = Len(child)
  /\ child' \in Seq(Child)
  /\ \A c \in DOMAIN child : child'[c].slot = child[c].slot
  /\ Alive' \subseteq Alive

LEMMA FadingKeeps ==
  ASSUME SlotInv, Fading, UNCHANGED <<slots, step, pc>>
  PROVE  SlotInv'
<1>1. Shape'
  BY DEF SlotInv, Shape, Fading
<1>2. Unborn'
  <2>1. child = <<>> => child' = <<>>
    BY DEF Fading
  <2> QED BY <2>1 DEF SlotInv, Unborn
<1>3. Ahead'
  BY DEF SlotInv, Ahead
<1>4. \A c \in Alive' : c \in Alive /\ child'[c].slot = child[c].slot
  BY DEF Fading, Alive
<1>5. ForkedHere'
  BY DEF SlotInv, ForkedHere, Fading
<1>6. Known'
  BY <1>4 DEF SlotInv, Known, Fading
<1>7. OneEach'
  BY <1>4 DEF SlotInv, OneEach
<1> QED BY <1>1, <1>2, <1>3, <1>5, <1>6, <1>7 DEF SlotInv
LEMMA ChildStepFades ==
  ASSUME Shape, NEW c \in DOMAIN child, Entered(c) \/ Left(c) \/ Hangs(c) \/ Crash(c)
  PROVE  Fading /\ UNCHANGED <<slots, step, pc>>
<1>1. PICK st \in {"up", "hung", "dead"} : Becomes(c, st)
  BY DEF Entered, Left, Hangs, Crash
<1>2. child' = [child EXCEPT ![c].st = st] /\ child[c].st # "dead"
  BY <1>1 DEF Becomes, Entered, Left, Hangs, Crash
<1>3. \A d \in DOMAIN child : child[d] \in Child
  BY ChildOf
<1>4. [child[c] EXCEPT !.st = st] \in Child
  BY <1>3 DEF Child, ChildStates
<1>5. /\ child' \in Seq(Child) /\ Len(child') = Len(child)
      /\ \A d \in DOMAIN child : child'[d].slot = child[d].slot
  <2>1. child' \in Seq(Child) /\ Len(child') = Len(child)
    BY <1>2, <1>4 DEF Shape
  <2>2. \A d \in DOMAIN child : child'[d].slot = child[d].slot
    BY <1>2, <1>3 DEF Child
  <2> QED BY <2>1, <2>2
<1>6. DOMAIN child' = DOMAIN child
  BY <1>2
<1>7. Alive' \subseteq Alive
  BY <1>2, <1>3, <1>6 DEF Alive
<1> QED BY <1>1, <1>5, <1>6, <1>7 DEF Fading, Becomes

\* A signal to all children leaves the dead ones dead.
LEMMA SignalFades ==
  ASSUME Shape, NEW st \in [DOMAIN child -> ChildStates],
         child' = [c \in DOMAIN child |-> [child[c] EXCEPT !.st = st[c]]],
         \A c \in DOMAIN child : child[c].st = "dead" => st[c] = "dead"
  PROVE  Fading
<1>1. \A c \in DOMAIN child : child[c] \in Child
  BY ChildOf
<1>2. \A c \in DOMAIN child :
        /\ child'[c] \in Child
        /\ child'[c].slot = child[c].slot /\ child'[c].st = st[c]
  BY <1>1 DEF Child
<1>3. DOMAIN child' = DOMAIN child /\ DOMAIN child = 1..Len(child)
      /\ Len(child) \in Nat
  BY ChildOf
<1>4. child' \in Seq(Child) /\ Len(child') = Len(child)
  BY <1>2, <1>3
<1>5. Alive' \subseteq Alive
  BY <1>2, <1>3 DEF Alive
<1> QED BY <1>2, <1>3, <1>4, <1>5 DEF Fading

LEMMA SignalsFade ==
  ASSUME Shape, Terminate \/ Kill \/ Interrupt
  PROVE  Fading /\ UNCHANGED <<slots, step>>
<1>1. \A c \in DOMAIN child : child[c].st \in ChildStates
  BY ChildOf
<1>2. CASE Terminate
  <2> DEFINE st == [c \in DOMAIN child |->
                      CASE child[c].st = "new" -> "dead"
                        [] child[c].st = "up"  -> "closing"
                        [] OTHER               -> child[c].st]
  <2>1. st \in [DOMAIN child -> ChildStates]
    BY <1>1 DEF ChildStates
  <2>2. child' = [c \in DOMAIN child |-> [child[c] EXCEPT !.st = st[c]]]
    BY <1>2 DEF Terminate, Signalled
  <2>3. \A c \in DOMAIN child : child[c].st = "dead" => st[c] = "dead"
    OBVIOUS
  <2> HIDE DEF st
  <2>4. Fading
    BY <2>1, <2>2, <2>3, SignalFades
  <2> QED BY <1>2, <2>4 DEF Terminate
<1>3. CASE Kill
  <2> DEFINE st == [c \in DOMAIN child |-> "dead"]
  <2>1. st \in [DOMAIN child -> ChildStates]
    BY DEF ChildStates
  <2>2. child' = [c \in DOMAIN child |-> [child[c] EXCEPT !.st = st[c]]]
    BY <1>3 DEF Kill
  <2>3. \A c \in DOMAIN child : child[c].st = "dead" => st[c] = "dead"
    OBVIOUS
  <2> HIDE DEF st
  <2>4. Fading
    BY <2>1, <2>2, <2>3, SignalFades
  <2> QED BY <1>3, <2>4 DEF Kill
<1>4. CASE Interrupt
  <2> DEFINE st == [c \in DOMAIN child |->
                      CASE child[c].st = "new"  -> "dead"
                        [] child[c].st = "up"   -> "closing"
                        [] child[c].st = "hung" -> "closing"
                        [] OTHER                -> child[c].st]
  <2>1. CASE child' = child
    BY <1>4, <2>1, ChildOf DEF Interrupt, Fading, Alive, Shape
  <2>2. CASE child' = [c \in DOMAIN child |-> Interrupted(child[c])]
    <3>1. st \in [DOMAIN child -> ChildStates]
      BY <1>1 DEF ChildStates
    <3>2. \A c \in DOMAIN child : Interrupted(child[c]) = [child[c] EXCEPT !.st = st[c]]
      <4> SUFFICES ASSUME NEW c \in DOMAIN child
                   PROVE  Interrupted(child[c]) = [child[c] EXCEPT !.st = st[c]]
        OBVIOUS
      <4>1. child[c] \in Child
        BY ChildOf
      <4> QED BY <4>1 DEF Interrupted, Signalled, Child
    <3>3. child' = [c \in DOMAIN child |-> [child[c] EXCEPT !.st = st[c]]]
      BY <2>2, <3>2
    <3>4. \A c \in DOMAIN child : child[c].st = "dead" => st[c] = "dead"
      OBVIOUS
    <3> HIDE DEF st
    <3>5. Fading
      BY <3>1, <3>3, <3>4, SignalFades
    <3> QED BY <1>4, <3>5 DEF Interrupt
  <2> QED BY <1>4, <2>1, <2>2 DEF Interrupt
<1> QED BY <1>2, <1>3, <1>4
-----------------------------------------------------------------------------
(* The steps of the main process                                           *)

\* A fork makes one more child, for the entry that step is at.
LEMMA ForkKeeps ==
  ASSUME SlotInv, NEW to \in {"created", "recreated"}, Fork(to),
         step \in DOMAIN slots, slots[step].child \notin Alive,
         \/ pc = "create" /\ to = "created"
         \/ pc = "check" /\ to = "recreated"
  PROVE  SlotInv'
<1> DEFINE n == Len(child) + 1
<1>0. /\ DOMAIN child = 1..Len(child) /\ Len(child) \in Nat
      /\ \A c \in DOMAIN child : child[c].slot \in Nat
      /\ step \in Nat
  BY ChildOf DEF SlotInv, Shape
<1>1. /\ pc' = to /\ UNCHANGED <<slots, step>>
      /\ child' = Append(child, [slot |-> step, st |-> "new"])
  BY DEF Fork
<1>2. [slot |-> step, st |-> "new"] \in Child
  BY <1>0 DEF Child, ChildStates
<1>3. /\ child' \in Seq(Child) /\ Len(child') = n /\ DOMAIN child' = 1..n
      /\ child'[n] = [slot |-> step, st |-> "new"]
      /\ \A c \in DOMAIN child : child'[c] = child[c]
  BY <1>0, <1>1, <1>2 DEF SlotInv, Shape
<1>4. /\ n \in 1..n /\ n \in Nat /\ n \notin DOMAIN child
      /\ 1..n = DOMAIN child \cup {n}
  BY <1>0
<1> HIDE DEF n
<1>5. Alive' = Alive \cup {n}
  <2>1. \A c \in DOMAIN child' : child'[c].st # "dead" <=> c \in Alive \cup {n}
    BY <1>3, <1>4 DEF Alive
  <2> QED BY <1>3, <1>4, <2>1 DEF Alive
<1>6. \A i \in DOMAIN slots : slots[i].child \in 0..Len(child)
  BY DEF SlotInv, Shape
<1>7. Shape'
  <2>1. \A i \in DOMAIN slots : slots[i].child \in 0..n
    BY <1>0, <1>6 DEF n
  <2> QED BY <1>1, <1>3, <2>1 DEF SlotInv, Shape
<1>8. slots[step].child # n
  BY <1>0, <1>6 DEF n
<1>9. ForkedHere'
  BY <1>1, <1>3, <1>4, <1>5, <1>8 DEF ForkedHere
<1>10. Known'
  BY <1>1, <1>3, <1>4, <1>5 DEF SlotInv, Known, Forking, Alive
<1>11. Ahead' /\ Unborn'
  BY <1>0, <1>1 DEF SlotInv, Ahead, Unborn
<1>12. OneEach'
  <2>1. ASSUME NEW c \in Alive'
        PROVE  \/ c = n \/ slots[child'[c].slot].child = c
    BY <1>1, <1>3, <1>10 DEF Known, Forking
  <2>2. ASSUME NEW c \in Alive', child'[c].slot = step
        PROVE  c = n
    BY <1>1, <1>9, <2>1, <2>2 DEF ForkedHere
  <2>3. child'[n].slot = step
    BY <1>3
  <2> QED BY <2>1, <2>2, <2>3 DEF OneEach
<1> QED BY <1>7, <1>9, <1>10, <1>11, <1>12 DEF SlotInv

LEMMA CreateKeeps ==
  ASSUME SlotInv, Create \/ Recreate
  PROVE  SlotInv'
<1>1. CASE Create
  <2>1. slots[step].child = 0
    BY <1>1 DEF SlotInv, Shape, Ahead, Create
  <2>2. 0 \notin Alive
    BY ChildOf DEF SlotInv, Alive
  <2> QED BY <1>1, <2>1, <2>2, ForkKeeps DEF Create
<1>2. CASE Recreate
  BY <1>2, ForkKeeps DEF Recreate
<1> QED BY <1>1, <1>2

\* The child is stored, and the loop is at the next entry.
LEMMA StoreKeeps ==
  ASSUME SlotInv, Store
  PROVE  SlotInv'
<1> USE DEF SlotInv
<1>1. /\ pc \in {"created", "recreated"} /\ step' = step + 1 /\ UNCHANGED child
      /\ slots' = [slots EXCEPT ![step].child = Len(child)]
      /\ pc' = IF pc = "created" THEN "create" ELSE "check"
  BY DEF Store
<1>2. /\ step \in DOMAIN slots /\ step \in Nat /\ slots[step].child \notin Alive
      /\ Len(child) \in DOMAIN child /\ child[Len(child)].slot = step
  BY <1>1 DEF ForkedHere, Shape
<1>3. /\ DOMAIN slots' = DOMAIN slots
      /\ \A i \in DOMAIN slots : i # step => slots'[i] = slots[i]
      /\ slots'[step] = [section |-> slots[step].section, child |-> Len(child)]
  BY <1>1, <1>2 DEF Shape
<1>4. Shape'
  BY <1>1, <1>2, <1>3, ChildOf DEF Shape
<1>5. Unborn' /\ ForkedHere'
  BY <1>1 DEF Unborn, ForkedHere
<1>6. Ahead'
  <2> SUFFICES ASSUME pc' = "create", NEW i \in DOMAIN slots, i >= step + 1
               PROVE  slots'[i].child = 0
    BY <1>1, <1>2, <1>3 DEF Ahead, Shape
  <2> QED BY <1>1, <1>2, <1>3 DEF Ahead, Shape
<1>7. Known'
  <2> SUFFICES ASSUME NEW c \in Alive
               PROVE  /\ child[c].slot \in DOMAIN slots
                      /\ slots'[child[c].slot].child = c
    BY <1>1, <1>3 DEF Known, Alive
  <2>1. c = Len(child) \/ (child[c].slot \in DOMAIN slots
                           /\ slots[child[c].slot].child = c)
    BY <1>1 DEF Known, Forking
  <2>2. CASE c = Len(child)
    BY <1>2, <1>3, <2>2
  <2>3. CASE child[c].slot \in DOMAIN slots /\ slots[child[c].slot].child = c
    BY <1>2, <1>3, <2>3
  <2> QED BY <2>1, <2>2, <2>3
<1>8. OneEach'
  BY <1>1 DEF OneEach, Alive
<1> QED BY <1>4, <1>5, <1>6, <1>7, <1>8

\* The list of processes is made: nobody has been forked for it.
LEMMA BuildAllKeeps ==
  ASSUME SlotInv, BuildAll
  PROVE  SlotInv'
<1>1. pc = "resolve" /\ pc' = "create" /\ step' = 1 /\ slots' = ProcessIter
  BY DEF BuildAll
<1>2. child = <<>> /\ child' = <<>>
  BY <1>1 DEF BuildAll, SlotInv, Unborn
<1>3. \A i \in DOMAIN slots' :
        /\ i \in Int /\ i >= 1 /\ slots'[i].child = 0
        /\ slots'[i] = [section |-> slots'[i].section, child |-> slots'[i].child]
  BY <1>1 DEF ProcessIter
<1>4. Shape'
  BY <1>1, <1>2, <1>3 DEF Shape
<1>5. Alive' = {}
  BY <1>2 DEF Alive
<1>6. Unborn' /\ Ahead' /\ ForkedHere' /\ Known' /\ OneEach'
  BY <1>1, <1>3, <1>5 DEF Unborn, Ahead, ForkedHere, Known, OneEach
<1> QED BY <1>4, <1>6 DEF SlotInv

\* Steps that leave list and children alone, and go on with the loop at most.
LEMMA OtherKeeps ==
  ASSUME SlotInv,
         \/ LoadPlugin \/ LoadFiles \/ LoadStdin \/ RunHere
         \/ Waited \/ CheckAlive \/ RoundOver \/ Killed
         \/ AwaitOne \/ Expire \/ End
  PROVE  SlotInv'
<1>1. UNCHANGED <<slots, child>>
  BY DEF LoadPlugin, LoadFiles, LoadStdin, RunHere, Waited, CheckAlive,
         RoundOver, Killed, AwaitOne, Expire, End, procVars
<1>2. Alive' = Alive
  BY <1>1 DEF Alive
<1>3. step' \in {step, step + 1, 1}
  BY DEF LoadPlugin, LoadFiles, LoadStdin, RunHere, Waited, CheckAlive,
         RoundOver, Killed, AwaitOne, Expire, End, procVars
<1>4. Shape' /\ OneEach'
  BY <1>1, <1>2, <1>3 DEF SlotInv, Shape, OneEach
<1>5. \/ pc' \in {"plugins", "stdin", "resolve", "running", "failed"}
         /\ pc \in {"plugins", "stdin", "resolve"}
      \/ pc' \in {"wait", "check"} /\ pc \in {"create", "wait", "check"}
      \/ pc' \in {"killed", "kill", "await", "ended"}
  BY DEF LoadPlugin, LoadFiles, LoadStdin, Load, RunHere, Waited, CheckAlive,
         RoundOver, Killed, AwaitOne, Expire, End
<1>6. Unborn' /\ Ahead' /\ ForkedHere' /\ Known'
  BY <1>1, <1>2, <1>5
  DEF SlotInv, Unborn, Ahead, ForkedHere, Known, Forking
<1> QED BY <1>4, <1>6 DEF SlotInv

\* Signals come when nobody forks any more.
LEMMA SignalsKeep ==
  ASSUME SlotInv, Terminate \/ Kill \/ Interrupt
  PROVE  SlotInv'
<1>1. Fading /\ UNCHANGED <<slots, step>>
  BY SignalsFade DEF SlotInv
<1>2. pc' \in {"kill", "await", "leave", "aborted"}
  BY DEF Terminate, Kill, Interrupt
<1>3. \A c \in Alive' : c \in Alive /\ child'[c].slot = child[c].slot
  BY <1>1 DEF Fading, Alive
<1>4. Shape' /\ OneEach'
  BY <1>1, <1>3 DEF SlotInv, Shape, Fading, OneEach
<1> QED BY <1>2, <1>4
        DEF SlotInv, Unborn, Ahead, ForkedHere, Known, Forking

LEMMA NextSlotInv ==
  ASSUME SlotInv, [Next]_vars
  PROVE  SlotInv'
<1>1. CASE UNCHANGED vars
  BY <1>1 DEF vars, procVars, SlotInv, Shape, Unborn, Ahead, ForkedHere, Known,
              OneEach, Alive
<1>2. ASSUME NEW c \in DOMAIN child, Entered(c) \/ Left(c) \/ Hangs(c) \/ Crash(c)
      PROVE  SlotInv'
  BY <1>2, ChildStepFades, FadingKeeps DEF SlotInv
<1>3. CASE Boot
  BY <1>3, BuildAllKeeps, OtherKeeps DEF Boot
<1>4. CASE Supervise
  BY <1>4, CreateKeeps, StoreKeeps, OtherKeeps, SignalsKeep DEF Supervise
<1> QED BY <1>1, <1>2, <1>3, <1>4, OtherKeeps, SignalsKeep DEF Next

LEMMA InitSlotInv ==
  ASSUME Init
  PROVE  SlotInv
BY DEF Init, SlotInv, Shape, Unborn, Ahead, ForkedHere, Known, Forking, OneEach,
       Alive

\* An entry of the list of processes never has two live processes, although a
\* new one is forked before it is stored, and whatever dies meanwhile.
THEOREM OneEachHolds == Spec => []OneEach
<1>1. SlotInv => OneEach
  BY DEF SlotInv
<1> QED BY <1>1, InitSlotInv, NextSlotInv, PTL DEF Spec
=============================================================================
