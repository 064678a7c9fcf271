---------------------------- MODULE MetaStorage ----------------------------
(***************************************************************************)
(* aioworkers.storage.meta and base over the storages of FileStorage:       *)
(* Fallback, Replicator, Cache, the copy and move of AbstractStorage,       *)
(* FieldStorageMixin and FutureStorage.  A call runs a program: it awaits   *)
(* one call of a storage after the other and acts on what they return.      *)
(***************************************************************************)
EXTENDS FileStorage

CONSTANTS
  Programs,       \* what callers may ask for
  Replicas,       \* the key in each storage of Fallback and Replicator
  Store, Source,  \* the key in the two storages of Cache
  WithField(_),   \* a value once its field has been set
  ExistsSet       \* exists_set of FutureStorage

VARIABLES
  prog,      \* the program of each call
  stage,     \* the number of the storage's call it is in
  carry,     \* the value it carries from one to the next
  turn,      \* whose turn it is in the Replicator's cycle
  current,   \* the entry of _futures: the call that made the future, or None
  future,    \* state of the future that each call made
  waitsFor,  \* the future each get of FutureStorage awaits
  raced      \* calls that ran into one another

metaVars == <<prog, stage, carry, turn, current, future, waitsFor, raced>>
vars == <<storageVars, metaVars>>
futureVars == <<current, future, waitsFor>>

FileKinds == {"set", "get", "open", "openw", "fscopy", "fsmove"}
MetaKinds == {"fallback", "replget", "replset", "cacheget", "cacheset",
              "fieldget", "fieldset", "copy", "move"}
FutureKinds == {"futset", "futget"}
AllPrograms == [kind : FileKinds \cup MetaKinds \cup FutureKinds,
                key : Keys \cup {None}, to : Keys \cup {None},
                val : Values \cup {None}]
NoProgram == [kind |-> "none", key |-> None, to |-> None, val |-> None]
FutureStates == {"unborn", "pending", "cancelled"} \cup Values \cup {None}

ASSUME MetaAssumption ==
  /\ Programs \subseteq AllPrograms
  /\ \A p \in Programs :
       /\ p.kind \in FileKinds \cup {"copy", "move", "fieldget", "fieldset"}
            => p.key \in Keys
       /\ p.kind \in {"fscopy", "fsmove", "copy", "move"}
            => p.to \in Keys /\ p.to # p.key
  /\ {"unborn", "pending", "cancelled"} \cap (Values \cup {None}) = {}
  /\ Replicas \in Seq(Keys) /\ Replicas # <<>>
  /\ {Store, Source} \subseteq Keys
  /\ \A v \in Values : WithField(v) \in Values
  /\ ExistsSet \in BOOLEAN

Init ==
  /\ StorageInit
  /\ prog = [c \in Calls |-> NoProgram]
  /\ stage = [c \in Calls |-> 0]
  /\ carry = [c \in Calls |-> None]
  /\ turn = 1
  /\ current = None
  /\ future = [c \in Calls |-> "unborn"]
  /\ waitsFor = [c \in Calls |-> None]
  /\ raced = {}

-----------------------------------------------------------------------------
(* A program and its calls of storages                                     *)

\* What the program p calls first.
FirstOp(p) ==
  CASE p.kind \in {"set", "get", "open", "openw"} -> [p EXCEPT !.to = None]
    [] p.kind = "fscopy" -> [p EXCEPT !.kind = "copy"]
    [] p.kind = "fsmove" -> [p EXCEPT !.kind = "move"]
    [] p.kind \in {"copy", "move", "fieldget", "fieldset"} -> OpGet(p.key)
    [] p.kind = "fallback" -> OpGet(Replicas[1])
    [] p.kind = "replget" -> OpGet(Replicas[turn])
    [] p.kind = "replset" -> OpSet(Replicas[1], p.val)
    [] p.kind = "cacheget" -> OpGet(Store)
    [] p.kind = "cacheset" -> OpSet(Store, p.val)

\* A Replicator.set that has begun and not written its last storage.
Replicating(c) ==
  /\ prog[c].kind = "replset" /\ pc[c] \notin {"failed", "cancelled"}
  /\ stage[c] < Len(Replicas) \/ pc[c] # "done"

\* A call that has read what it is going to write back, and has not done so:
\* a Cache.get that has found nothing, a set of a field that has the rest.
Between(c) ==
  LET writing == pc[c] \in {"check", "checked", "asleep", "woken", "write", "tmp"}
  IN \/ /\ prog[c].kind = "cacheget" /\ stage[c] > 0
        /\ stage[c] = 1 => pc[c] = "done" /\ result[c] = None
        /\ stage[c] = 3 => writing
     \/ /\ prog[c].kind = "fieldset"
        /\ IF stage[c] = 1 THEN pc[c] = "done" ELSE writing
BackKey(c) == IF prog[c].kind = "cacheget" THEN Store ELSE prog[c].key

Call(c, p) ==
  /\ pc[c] = "idle" /\ prog[c] = NoProgram /\ p.kind \notin FutureKinds
  /\ Begin(c, FirstOp(p))
  /\ prog' = [prog EXCEPT ![c] = p]
  /\ stage' = [stage EXCEPT ![c] = 1]
  /\ turn' = IF p.kind = "replget" THEN (turn % Len(Replicas)) + 1 ELSE turn
  /\ raced' = IF p.kind = "replset" /\ \E d \in Calls : Replicating(d)
              THEN raced \cup {c} ELSE raced
  /\ UNCHANGED <<carry, futureVars>>

\* The call of a storage has returned and the program goes on.
Then(c, kind, o) ==
  /\ pc[c] = "done" /\ prog[c].kind = kind
  /\ Begin(c, o)
  /\ stage' = [stage EXCEPT ![c] = @ + 1]
  /\ UNCHANGED <<prog, turn, futureVars, raced>>

\* Fallback.get tries the storages in order until one has a value.
TryNext(c) ==
  /\ result[c] = None /\ stage[c] < Len(Replicas)
  /\ Then(c, "fallback", OpGet(Replicas[stage[c] + 1]))
  /\ UNCHANGED carry

\* Mutant of ReplicateNext: set goes round in the cycle of get.
ReplicateNextTurn(c) ==
  /\ stage[c] < Len(Replicas)
  /\ Then(c, "replset", OpSet(Replicas[turn], prog[c].val))
  /\ UNCHANGED carry

\* Replicator.set writes one storage after the other.
ReplicateNext(c) ==
  /\ stage[c] < Len(Replicas)
  /\ Then(c, "replset", OpSet(Replicas[stage[c] + 1], prog[c].val))
  /\ UNCHANGED carry

\* Cache.get: the storage has nothing, the source is asked.
AskSource(c) ==
  /\ stage[c] = 1 /\ result[c] = None
  /\ Then(c, "cacheget", OpGet(Source))
  /\ UNCHANGED carry

\* Mutant of Fill: what the storage holds is filled again.
FillAlways(c) ==
  /\ stage[c] \in {1, 2} /\ (stage[c] = 1 => result[c] # None)
  /\ Then(c, "cacheget", OpSet(Store, result[c]))
  /\ carry' = [carry EXCEPT ![c] = result[c]]

\* Cache.get: what the source has, be it None, is put to the storage.
Fill(c) ==
  /\ stage[c] = 2
  /\ Then(c, "cacheget", OpSet(Store, result[c]))
  /\ carry' = [carry EXCEPT ![c] = result[c]]

\* copy: set of what get returned, also of None; copy says whether it was None.
CopySet(c, kind) ==
  /\ stage[c] = 1
  /\ Then(c, kind, OpSet(prog[c].to, result[c]))
  /\ carry' = [carry EXCEPT ![c] = result[c]]

\* move deletes the source if copy returned True: when there was nothing.
MoveDelete(c) ==
  /\ stage[c] = 2 /\ carry[c] = None
  /\ Then(c, "move", OpSet(prog[c].key, None))
  /\ UNCHANGED carry

\* FieldStorageMixin.set of a field: the value is got, changed and set.
FieldSet(c) ==
  /\ stage[c] = 1 /\ result[c] \in Values
  /\ Then(c, "fieldset", OpSet(prog[c].key, WithField(result[c])))
  /\ carry' = [carry EXCEPT ![c] = result[c]]

\* There is no value to take the field from, or to put it into.
FieldFails(c) ==
  /\ prog[c].kind \in {"fieldget", "fieldset"} /\ stage[c] = 1
  /\ pc[c] = "done" /\ result[c] \notin Values
  /\ GoTo(c, "failed")
  /\ UNCHANGED <<disk, litter, waiters, op, free, result, fd, outdated, lapses,
                 prog, stage, carry, turn, futureVars, raced>>

Continue(c) ==
  \/ TryNext(c) \/ ReplicateNext(c) \/ AskSource(c) \/ Fill(c)
  \/ CopySet(c, "copy") \/ CopySet(c, "move") \/ MoveDelete(c)
  \/ FieldSet(c) \/ FieldFails(c)

-----------------------------------------------------------------------------
(* FutureStorage, with the weak dictionary that is its default: an entry    *)
(* stays while somebody awaits the future.                                  *)

Awaited(f, w) == \E c \in Calls : w[c] = f
Kept(f, w) == IF f # None /\ Awaited(f, w) THEN f ELSE None

Entry == IF current = None THEN "unborn" ELSE future[current]

\* Mutant of FutureSet: a pending future is replaced.
FutureSetAnew(c, p) ==
  /\ p.kind = "futset"
  /\ UNCHANGED waitsFor
  /\ current' = Kept(c, waitsFor)
  /\ future' = [future EXCEPT ![c] = p.val]

\* A pending future gets the value.  Otherwise a new future is stored, which
\* nobody refers to, unless the key has a result that is not to be replaced.
FutureSet(c, p) ==
  /\ p.kind = "futset"
  /\ UNCHANGED waitsFor
  /\ \/ /\ Entry = "pending"
        /\ future' = [future EXCEPT ![current] = p.val]
        /\ UNCHANGED current
     \/ /\ Entry \notin {"pending", "unborn"} /\ ~ExistsSet
        /\ UNCHANGED <<current, future>>
     \/ /\ Entry # "pending" /\ (ExistsSet \/ Entry = "unborn")
        /\ future' = [future EXCEPT ![c] = p.val]
        /\ current' = Kept(c, waitsFor)

\* get returns the future of the key, which its caller awaits.
FutureGet(c, p) ==
  /\ p.kind = "futget"
  /\ LET f == IF current = None THEN c ELSE current
     IN  /\ current' = f
         /\ future' = [future EXCEPT ![f] = IF @ = "unborn" THEN "pending"
                                            ELSE @]
         /\ waitsFor' = [waitsFor EXCEPT ![c] = f]

FutureCall(c, p) ==
  /\ pc[c] = "idle" /\ prog[c] = NoProgram
  /\ FutureSet(c, p) \/ FutureGet(c, p)
  /\ prog' = [prog EXCEPT ![c] = p]
  /\ GoTo(c, IF p.kind = "futset" THEN "done" ELSE "idle")
  /\ UNCHANGED <<disk, litter, waiters, op, free, result, fd, outdated, lapses,
                 stage, carry, turn, raced>>

\* The future is done: its reader goes on, and lets go of it.
FutureResume(c) ==
  /\ waitsFor[c] # None /\ future[waitsFor[c]] # "pending"
  /\ waitsFor' = [waitsFor EXCEPT ![c] = None]
  /\ current' = Kept(current, waitsFor')
  /\ GoTo(c, IF future[waitsFor[c]] = "cancelled" THEN "failed" ELSE "done")
  /\ UNCHANGED <<disk, litter, waiters, op, free, result, fd, outdated,
                 lapses, prog, stage, carry, turn, future, raced>>

\* Task.cancel of a reader cancels the future that it shares with the others.
FutureCancel(c) ==
  /\ c \in Cancels /\ waitsFor[c] # None /\ future[waitsFor[c]] = "pending"
  /\ future' = [future EXCEPT ![waitsFor[c]] = "cancelled"]
  /\ UNCHANGED <<disk, litter, waiters, pc, op, free, result, fd, outdated,
                 lapses, prog, stage, carry, turn, current, waitsFor, raced>>

-----------------------------------------------------------------------------
\* A step of a storage.  A Replicator.set that raises stops half-way, and a
\* value may be put where another call is about to write back.
Races(c) ==
  {d \in Calls : \/ /\ d = c /\ Replicating(c)
                    /\ pc'[c] \in {"failed", "cancelled"}
                 \/ d # c /\ Between(d) /\ disk'[BackKey(d)] # disk[BackKey(d)]}

StorageStep(c) ==
  /\ Step(c)
  /\ raced' = raced \cup Races(c)
  /\ UNCHANGED <<prog, stage, carry, turn, futureVars>>

Next ==
  \E c \in Calls :
    \/ \E p \in Programs : Call(c, p) \/ FutureCall(c, p)
    \/ StorageStep(c) \/ Continue(c)
    \/ FutureResume(c) \/ FutureCancel(c)

Spec == Init /\ [][Next]_vars
-----------------------------------------------------------------------------
(* Properties                                                              *)

\* The shape of the state.
TypeOK ==
  /\ StorageTypeOK
  /\ prog \in [Calls -> Programs \cup {NoProgram}]
  /\ stage \in [Calls -> 0..(Len(Replicas) + 3)]
  /\ carry \in [Calls -> Contents]
  /\ turn \in DOMAIN Replicas
  /\ future \in [Calls -> FutureStates]
  /\ {current} \cup {waitsFor[c] : c \in Calls} \subseteq Calls \cup {None}

\* Somebody other than Replicator has written to one of its storages.
Meddled(c) == prog[c].kind \notin {"none", "replset", "replget", "fallback",
                                   "get", "open"} \cup FutureKinds

\* Once nobody writes to it, every storage of a Replicator holds the same,
\* unless two of its sets overlapped or one raised half-way: set is not atomic
\* (meta.py 38-41).
ReplicasAgree ==
  (~\E c \in Calls : Replicating(c)) =>
    \/ \E c \in Calls : Meddled(c) \/ (prog[c].kind = "replset" /\ c \in raced)
    \/ \A i, j \in DOMAIN Replicas : disk[Replicas[i]] = disk[Replicas[j]]

\* Nobody overwrites what he has not seen, unless it came after he had looked:
\* a Cache.get fills an empty storage, and a set of a field changes the value
\* it has got (meta.py 56-63, base.py 74-83).
WritesBackRaced ==
  [][\A c \in Calls :
       prog[c].kind \in {"cacheget", "fieldset"}
         /\ pc[c] \in {"write", "tmp"} /\ pc'[c] \in {"notify", "done"}
         => \/ disk[BackKey(c)] =
                 IF prog[c].kind = "cacheget" THEN None ELSE carry[c]
            \/ c \in raced]_vars

\* A reader of FutureStorage whose future is pending can be reached by the next
\* set: the weak dictionary has not forgotten it (meta.py 85-103).
WaitersReachable ==
  \A c \in Calls :
    waitsFor[c] # None /\ future[waitsFor[c]] = "pending"
      => waitsFor[c] = current
=============================================================================
