---------------------------- MODULE FileStorage ----------------------------
(***************************************************************************)
(* aioworkers.storage.filesystem: set, get, open, copy and move of storages *)
(* on one disk, with the limit of free space and the calls that wait for    *)
(* room.  A call hops between the event loop and the threads of the         *)
(* executor, so a step is either a piece of code between two awaits or the  *)
(* work of one thread.                                                      *)
(*                                                                         *)
(* A key is a file, normalised by raw_key; no key lies under another one.   *)
(* Keys outside Limited belong to a storage without limit_free_space.       *)
(***************************************************************************)
EXTENDS Integers, Sequences, SequencesExt, FiniteSetsExt

CONSTANTS
  Calls, Keys, Values,
  Size(_),        \* length of an encoded value
  Limited,        \* keys of the storages that have a limit
  Capacity,       \* size of the disk
  Limit,          \* limit_free_space
  Cancels,        \* calls that may be cancelled while they wait
  Faulty,         \* calls whose thread may meet an error of the system
  None, Empty     \* no file; a file without its value, which counts as empty

ASSUME StorageAssumption ==
  /\ IsFiniteSet(Calls) /\ IsFiniteSet(Keys)
  /\ Limited \subseteq Keys /\ Cancels \subseteq Calls /\ Faulty \subseteq Calls
  /\ None \notin Values \cup Keys \cup Calls /\ Empty \notin Values \cup {None}
  /\ Size(None) = 0 /\ Size(Empty) = 0 /\ \A v \in Values : Size(v) \in Nat
ASSUME DiskAssumption == Capacity \in Nat /\ Limit \in 1..Capacity

VARIABLES
  disk,      \* content of each file
  litter,    \* space taken by temporary files of failed writes
  waiters,   \* _space_waiters
  pc,        \* where each call is
  op,        \* what it was called with
  free,      \* the free space it read last
  result,    \* what it returned
  fd,        \* where the file is that a call has opened and is to fill
  outdated,  \* calls that went to wait for room on an old figure
  lapses     \* what has happened that limit, waiters and readers do not notice

storageVars ==
  <<disk, litter, waiters, pc, op, free, result, fd, outdated, lapses>>

Contents == Values \cup {None, Empty}
Kinds == {"set", "get", "open", "openw", "copy", "move"}
Ops == [kind : Kinds, key : Keys, to : Keys \cup {None}, val : Contents]
NoOp == [kind |-> "none", key |-> None, to |-> None, val |-> None]
OpSet(k, v) == [kind |-> "set", key |-> k, to |-> None, val |-> v]
OpGet(k) == [kind |-> "get", key |-> k, to |-> None, val |-> None]
States == {"idle", "check", "checked", "asleep", "woken", "write", "tmp",
           "exists", "read", "open", "opened", "copy", "filling",
           "notify", "notified", "done", "failed", "cancelled"}

StorageInit ==
  /\ disk = [k \in Keys |-> None]
  /\ litter = 0
  /\ waiters = <<>>
  /\ pc = [c \in Calls |-> "idle"]
  /\ op = [c \in Calls |-> NoOp]
  /\ free = [c \in Calls |-> 0]
  /\ result = [c \in Calls |-> None]
  /\ fd = [c \in Calls |-> None]
  /\ outdated = {}
  /\ lapses = {}

\* disk_usage().free: temporary files count too.
Used == [k \in Keys |-> Size(disk[k])]
Held == [c \in Calls |-> IF pc[c] = "tmp" THEN Size(op[c].val) ELSE 0]
Free == Capacity - litter - SumFunctionOnSet(Used, Keys)
                          - SumFunctionOnSet(Held, Calls)

-----------------------------------------------------------------------------
(* Helpers                                                                 *)

GoTo(c, s) == pc' = [pc EXCEPT ![c] = s]
Put(k, v) == disk' = [disk EXCEPT ![k] = v]
\* The file at key k is not the one any descriptor was opened for.
Unlinked(k) == [c \in Calls |-> IF fd[c] = k THEN None ELSE fd[c]]

\* From the figure on which it acts to the end of its write or wake-up.
Acting(s) == s \in {"checked", "woken", "write", "tmp", "notified"}

\* Copies, and storages without a limit, neither ask for room nor tell of it;
\* who opens a file for writing waits for room, but not for so much.
Unlimited(c) == op[c].kind \in {"copy", "move"} \/ op[c].key \notin Limited
Unasked(c) == Unlimited(c) \/ op[c].kind = "openw"

\* The files that are being written in place, and the copies that read one.
InPlace(k) == \E c \in Calls : fd[c] = k /\ op[c].kind \in {"copy", "openw"}
Copying(k) == {c \in Calls : /\ pc[c] = "filling" /\ op[c].kind = "copy"
                             /\ op[c].key = k /\ result[c] = disk[k]}

\* Two calls act on the free space, space is taken without a check, a call
\* that may have freed some has ended without a word; a file is read, copied or
\* opened again while it is written in place, opened so while it is copied, or
\* left without its value.
Crowded == \/ Cardinality({c \in Calls : Acting(pc'[c]) /\ ~Unlimited(c)'}) > 1
           \/ \E c \in Calls :
                /\ Unasked(c)'
                /\ \/ pc'[c] \in {"tmp", "filling"}
                   \/ litter' # litter /\ pc'[c] # pc[c]
Silent == \E c \in Calls : /\ pc[c] \in {"write", "tmp", "copy", "filling"}
                            /\ pc'[c] \in {"done", "opened"} /\ Unlimited(c)
Torn == \E c \in Calls :
          \/ pc[c] = "read" /\ pc'[c] # "read" /\ InPlace(op[c].key)
          \/ /\ pc[c] # "filling" /\ pc'[c] = "filling"
             /\ \/ InPlace(fd'[c]) \/ Copying(fd'[c]) # {}
                \/ op[c].kind = "copy" /\ InPlace(op[c].key)
          \/ pc[c] = "filling" /\ pc'[c] = "failed"
NoteLapses == lapses' = lapses \cup (IF Crowded THEN {"crowded"} ELSE {})
                               \cup (IF Silent THEN {"silent"} ELSE {})
                               \cup (IF Torn THEN {"torn"} ELSE {})

\* The work of the call itself, in the executor.
Work(o) == CASE o.kind = "set" -> "write"
             [] o.kind = "get" -> "exists"
             [] o.kind \in {"open", "openw"} -> "open"
             [] OTHER -> "copy"

\* set of a value and open call wait_free_space, which returns at once
\* without a limit.
WaitsForSpace(o) ==
  /\ o.key \in Limited
  /\ o.kind \in {"open", "openw"} \/ (o.kind = "set" /\ o.val # None)

\* After set and AsyncFile.close comes next_space_waiter.
AfterWrite(c) == IF op[c].key \in Limited THEN "notify" ELSE "done"

Begin(c, o) ==
  /\ op' = [op EXCEPT ![c] = o]
  /\ GoTo(c, IF WaitsForSpace(o) THEN "check" ELSE Work(o))
  /\ UNCHANGED <<disk, litter, waiters, free, result, fd, outdated>>
  /\ NoteLapses

-----------------------------------------------------------------------------
(* wait_free_space and next_space_waiter                                   *)

\* get_free_space, in the executor.
ReadFree(c) ==
  /\ pc[c] \in {"check", "notify"}
  /\ free' = [free EXCEPT ![c] = Free]
  /\ GoTo(c, IF pc[c] = "check" THEN "checked" ELSE "notified")
  /\ UNCHANGED <<disk, litter, waiters, op, result, fd, outdated>>
  /\ NoteLapses

\* Mutant of Fits: the size of the value is forgotten.
FitsLimit(c) == op[c].kind = "set" /\ free[c] >= Limit

\* open gives no size and always waits.
Fits(c) == op[c].kind = "set" /\ free[c] >= Size(op[c].val) + Limit

PassCheck(c) ==
  /\ pc[c] = "checked" /\ Fits(c)
  /\ GoTo(c, "write")
  /\ UNCHANGED <<disk, litter, waiters, op, free, result, fd, outdated, lapses>>

\* Mutant of Sleep: the future is awaited without being listed.
SleepUnlisted(c) ==
  /\ pc[c] = "checked" /\ ~Fits(c)
  /\ GoTo(c, "asleep")
  /\ UNCHANGED <<disk, litter, waiters, op, free, result, fd, outdated, lapses>>

Sleep(c) ==
  /\ pc[c] = "checked" /\ ~Fits(c)
  /\ waiters' = Append(waiters, c)
  /\ GoTo(c, "asleep")
  /\ outdated' = IF free[c] # Free THEN outdated \cup {c} ELSE outdated
  /\ UNCHANGED <<disk, litter, op, free, result, fd, lapses>>

\* The waiters that have room by the figure of c, and the first of them.
Roomy(c) == {i \in DOMAIN waiters : free[c] > Size(op[waiters[i]].val) + Limit}
First(c) == waiters[Min(Roomy(c))]

WakeNobody(c) ==
  /\ pc[c] = "notified" /\ Roomy(c) = {}
  /\ GoTo(c, "done")
  /\ UNCHANGED <<disk, litter, waiters, op, free, result, fd, outdated, lapses>>

WakeOne(c) ==
  /\ pc[c] = "notified" /\ Roomy(c) # {} /\ pc[First(c)] = "asleep"
  /\ waiters' = RemoveAt(waiters, Min(Roomy(c)))
  /\ pc' = [pc EXCEPT ![c] = "done", ![First(c)] = "woken"]
  /\ UNCHANGED <<disk, litter, op, free, result, fd, outdated>>
  /\ NoteLapses

\* set_result of the future of a cancelled waiter: InvalidStateError leaves
\* next_space_waiter before the entry is removed.
WakeRaises(c) ==
  /\ pc[c] = "notified" /\ Roomy(c) # {} /\ pc[First(c)] = "cancelled"
  /\ GoTo(c, "failed")
  /\ UNCHANGED <<disk, litter, waiters, op, free, result, fd, outdated, lapses>>

Resume(c) ==
  /\ pc[c] = "woken"
  /\ GoTo(c, Work(op[c]))
  /\ UNCHANGED <<disk, litter, waiters, op, free, result, fd, outdated, lapses>>

\* The task that waits for room, or has just been given it, is cancelled.
Cancel(c) ==
  /\ c \in Cancels /\ pc[c] \in {"asleep", "woken"}
  /\ GoTo(c, "cancelled")
  /\ UNCHANGED <<disk, litter, waiters, op, free, result, fd, outdated, lapses>>

-----------------------------------------------------------------------------
(* The threads of the executor                                             *)

\* Mutant of WriteTemp: the file itself is opened for writing.
WriteInPlace(c) ==
  /\ pc[c] = "write" /\ op[c].val # None /\ Free >= Size(op[c].val)
  /\ Put(op[c].key, Empty)
  /\ fd' = [fd EXCEPT ![c] = op[c].key]
  /\ GoTo(c, "tmp")
  /\ UNCHANGED <<litter, waiters, op, free, result, outdated>>
  /\ NoteLapses

WriteTemp(c) ==
  /\ pc[c] = "write" /\ op[c].val # None /\ Free >= Size(op[c].val)
  /\ GoTo(c, "tmp")
  /\ UNCHANGED <<disk, litter, waiters, op, free, result, fd, outdated>>
  /\ NoteLapses

\* shutil.move renames the temporary file to the key.
Rename(c) ==
  /\ pc[c] = "tmp"
  /\ Put(op[c].key, op[c].val)
  /\ fd' = Unlinked(op[c].key)
  /\ GoTo(c, AfterWrite(c))
  /\ UNCHANGED <<litter, waiters, op, free, result, outdated>>
  /\ NoteLapses

\* Mutant of Erase: the way out of _write that has no value skips
\* next_space_waiter.
EraseQuietly(c) ==
  /\ pc[c] = "write" /\ op[c].val = None
  /\ Put(op[c].key, None)
  /\ fd' = Unlinked(op[c].key)
  /\ GoTo(c, "done")
  /\ UNCHANGED <<litter, waiters, op, free, result, outdated>>
  /\ NoteLapses

Erase(c) ==
  /\ pc[c] = "write" /\ op[c].val = None
  /\ Put(op[c].key, None)
  /\ fd' = Unlinked(op[c].key)
  /\ GoTo(c, AfterWrite(c))
  /\ UNCHANGED <<litter, waiters, op, free, result, outdated>>
  /\ NoteLapses

\* OSError becomes StorageError; nobody is woken, and a temporary file that
\* did not fit stays.
WriteFails(c) ==
  /\ pc[c] = "write" /\ (c \in Faulty \/ Free < Size(op[c].val))
  /\ litter' = IF Free < Size(op[c].val) THEN litter + Free ELSE litter
  /\ GoTo(c, "failed")
  /\ UNCHANGED <<disk, waiters, op, free, result, fd, outdated>>
  /\ NoteLapses

\* get asks whether the file exists and then reads it, in two hops.
Exists(c) ==
  /\ pc[c] = "exists"
  /\ GoTo(c, IF disk[op[c].key] = None THEN "done" ELSE "read")
  /\ result' = [result EXCEPT ![c] = None]
  /\ UNCHANGED <<disk, litter, waiters, op, free, fd, outdated, lapses>>

Read(c) ==
  /\ pc[c] = "read"
  /\ result' = [result EXCEPT ![c] = disk[op[c].key]]
  /\ GoTo(c, IF disk[op[c].key] = None THEN "failed" ELSE "done")
  /\ UNCHANGED <<disk, litter, waiters, op, free, fd, outdated>>
  /\ NoteLapses

\* open(file, 'wb') empties the file, which then waits for the value v, and
\* takes from a copy that is reading it what that has not read.
OpenInPlace(c, k, v) ==
  /\ Put(k, Empty)
  /\ fd' = [fd EXCEPT ![c] = k]
  /\ \E cut \in SUBSET Copying(k) :
       result' = [d \in Calls |-> IF d = c THEN v
                                  ELSE IF d \in cut THEN Empty ELSE result[d]]
  /\ GoTo(c, "filling")
  /\ UNCHANGED <<litter, waiters, op, free, outdated>>
  /\ NoteLapses

\* The value reaches the file that was opened, wherever that is now.  The end of
\* a longer one that was written meanwhile stays: that makes no value.
Filled(c) == IF op[c].kind = "copy" THEN "done" ELSE "opened"
FileFills(c) ==
  /\ pc[c] = "filling"
  /\ \/ /\ fd[c] = None
        /\ UNCHANGED disk
        /\ GoTo(c, Filled(c))
     \/ /\ fd[c] # None /\ Free + Size(disk[fd[c]]) >= Size(result[c])
        /\ Put(fd[c], IF Size(result[c]) < Size(disk[fd[c]]) THEN Empty
                      ELSE result[c])
        /\ GoTo(c, Filled(c))
     \/ /\ fd[c] # None /\ Free + Size(disk[fd[c]]) < Size(result[c])
        /\ UNCHANGED disk
        /\ GoTo(c, "failed")
  /\ fd' = [fd EXCEPT ![c] = None]
  /\ result' = [result EXCEPT ![c] = None]
  /\ UNCHANGED <<litter, waiters, op, free, outdated>>
  /\ NoteLapses

\* open of a file for reading (what it reads is left out), or for writing: what
\* its user writes is in the file when it is closed at the latest.
OpenFile(c) ==
  /\ pc[c] = "open" /\ op[c].kind = "open"
  /\ GoTo(c, IF disk[op[c].key] = None THEN "failed" ELSE "opened")
  /\ UNCHANGED <<disk, litter, waiters, op, free, result, fd, outdated, lapses>>

OpenToWrite(c) ==
  /\ pc[c] = "open" /\ op[c].kind = "openw"
  /\ \E v \in Values : OpenInPlace(c, op[c].key, v)

\* AsyncFile.close.
CloseFile(c) ==
  /\ pc[c] = "opened"
  /\ GoTo(c, AfterWrite(c))
  /\ UNCHANGED <<disk, litter, waiters, op, free, result, fd, outdated, lapses>>

\* _copy without a source: what is at the destination goes.
CopyNothing(c) ==
  /\ pc[c] = "copy" /\ disk[op[c].key] = None
  /\ Put(op[c].to, None)
  /\ fd' = Unlinked(op[c].to)
  /\ GoTo(c, "done")
  /\ UNCHANGED <<litter, waiters, op, free, result, outdated>>
  /\ NoteLapses

\* shutil.copy opens both files.
CopyOpens(c) ==
  /\ pc[c] = "copy" /\ op[c].kind = "copy" /\ disk[op[c].key] # None
  /\ OpenInPlace(c, op[c].to, disk[op[c].key])

\* shutil.move renames the source.
Move(c) ==
  /\ pc[c] = "copy" /\ op[c].kind = "move" /\ disk[op[c].key] # None
  /\ disk' = [disk EXCEPT ![op[c].key] = None, ![op[c].to] = disk[op[c].key]]
  /\ fd' = [d \in Calls |-> CASE fd[d] = op[c].to -> None
                              [] fd[d] = op[c].key -> op[c].to
                              [] OTHER -> fd[d]]
  /\ GoTo(c, "done")
  /\ UNCHANGED <<litter, waiters, op, free, result, outdated>>
  /\ NoteLapses

Step(c) ==
  \/ ReadFree(c) \/ PassCheck(c) \/ Sleep(c) \/ Resume(c) \/ Cancel(c)
  \/ WakeNobody(c) \/ WakeOne(c) \/ WakeRaises(c)
  \/ WriteTemp(c) \/ Rename(c) \/ Erase(c) \/ WriteFails(c)
  \/ Exists(c) \/ Read(c)
  \/ OpenFile(c) \/ OpenToWrite(c) \/ FileFills(c) \/ CloseFile(c)
  \/ CopyNothing(c) \/ CopyOpens(c) \/ Move(c)
-----------------------------------------------------------------------------
(* Properties                                                              *)

StorageTypeOK ==
  /\ disk \in [Keys -> Contents]
  /\ litter \in 0..Capacity /\ Free \in 0..Capacity
  /\ waiters \in Seq(Calls)
  /\ \A c \in Calls : pc[c] = "asleep" => c \in ToSet(waiters)
  /\ pc \in [Calls -> States]
  /\ op \in [Calls -> Ops \cup {NoOp}]
  /\ free \in [Calls -> 0..Capacity]
  /\ result \in [Calls -> Contents]
  /\ fd \in [Calls -> Keys \cup {None}]

\* Nothing is going on but calls that wait for room.
Quiet == \A c \in Calls :
           pc[c] \in {"idle", "asleep", "done", "failed", "cancelled"}

\* A set that sleeps beside more room than it needs, with nobody left to wake
\* it, acted on a figure that was old when it went to sleep, unless a call
\* failed, was cancelled, or freed space where nobody is woken
\* (filesystem.py 384-402, 443-446).
RoomOffered ==
  Quiet =>
    \/ "silent" \in lapses
    \/ \E c \in Calls : pc[c] \in {"failed", "cancelled"}
    \/ \A c \in Calls : pc[c] = "asleep" /\ op[c].kind = "set" =>
         c \in outdated \/ Free <= Size(op[c].val) + Limit

\* limit_free_space holds as long as no two calls act on the free space at the
\* same time and nobody writes without asking: the check, the wake-up and the
\* temporary file together never take the disk below the limit.
LimitKept == "crowded" \notin lapses => Free >= Limit

\* Whoever reads, gets a value, and a file without one is about to be filled:
\* set replaces a file at once, and who still holds the old one, or one that was
\* moved, does no harm to what is at the key now.  Only a copy and open(key,
\* 'wb') write in place, which shows where a file is read, copied or opened
\* meanwhile, or the write fails (filesystem.py 104-113, 404-429, 459-468).
WholeValues ==
  "torn" \notin lapses =>
    /\ \A c \in Calls : result[c] # Empty
    /\ \A k \in Keys : disk[k] = Empty => InPlace(k)
=============================================================================
