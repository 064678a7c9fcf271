------------------------------ MODULE TimedBag ------------------------------
(***************************************************************************)
(* What TimestampQueue and UniqueQueue promise: an item is offered once,   *)
(* is handed to at most one reader and not before its timestamp, and       *)
(* otherwise stays in the bag, unless (UniqueQueue) a later item of the    *)
(* same value takes its place.  Timers, deques, blocking and cancellation  *)
(* do not appear here.                                                     *)
(***************************************************************************)
EXTENDS Integers

CONSTANTS Puts, Gets, Values, MaxTime, Unique, None

VARIABLES
  now, pool, offered,
  got,      \* item handed to each reader
  ts, val

bagVars == <<now, pool, offered, got, ts, val>>

Init ==
  /\ now = 0 /\ pool = {} /\ offered = {}
  /\ got = [g \in Gets |-> None]
  /\ ts = [p \in Puts |-> 0]
  /\ val \in [Puts -> Values]

Replaced(p) == IF Unique THEN {q \in pool : val[q] = val[p]} ELSE {}

Timestamped(p) ==
  /\ p \notin offered
  /\ offered' = offered \cup {p}
  /\ \E t \in 0..MaxTime : ts' = [ts EXCEPT ![p] = t]

Offer(p) ==
  /\ Timestamped(p)
  /\ pool' = (pool \ Replaced(p)) \cup {p}
  /\ UNCHANGED <<now, got, val>>

\* A due item goes from the bag to a reader.
Take(g, p) ==
  /\ p \in pool /\ ts[p] <= now /\ got[g] = None
  /\ pool' = pool \ {p}
  /\ got' = [got EXCEPT ![g] = p]
  /\ UNCHANGED <<now, offered, ts, val>>

\* A due item goes straight to a reader.
Pass(g, p) ==
  /\ Timestamped(p) /\ ts'[p] <= now /\ got[g] = None
  /\ got' = [got EXCEPT ![g] = p]
  /\ UNCHANGED <<now, pool, val>>

Tick ==
  /\ now < MaxTime /\ now' = now + 1
  /\ UNCHANGED <<pool, offered, got, ts, val>>

Next == \/ \E p \in Puts : Offer(p)
        \/ \E g \in Gets, p \in Puts : Take(g, p) \/ Pass(g, p)
        \/ Tick

Spec == Init /\ [][Next]_bagVars
=============================================================================
