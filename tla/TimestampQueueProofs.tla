------------------------ MODULE TimestampQueueProofs ------------------------
(***************************************************************************)
(* Theorems about TimestampQueue, for every set of calls and every bound.  *)
(***************************************************************************)
EXTENDS TimestampQueue, SequenceTheorems, FiniteSetTheorems, TLAPS

-----------------------------------------------------------------------------
(* Lemmas about the deques.                                                *)

\* popleft called i times leaves the rest of the deque, in order.
LEMMA PopLeft ==
  ASSUME NEW S, NEW s \in Seq(S), NEW i \in 0..(Len(s) + 1)
  PROVE  /\ SubSeq(s, i + 1, Len(s)) \in Seq(S)
         /\ \A j \in DOMAIN SubSeq(s, i + 1, Len(s)) :
              /\ j + i \in DOMAIN s
              /\ SubSeq(s, i + 1, Len(s))[j] = s[j + i]
         /\ \A m \in DOMAIN s :
              m > i => /\ m - i \in DOMAIN SubSeq(s, i + 1, Len(s))
                       /\ SubSeq(s, i + 1, Len(s))[m - i] = s[m]
<1> DEFINE r == SubSeq(s, i + 1, Len(s))
<1>0. Len(s) \in Nat /\ DOMAIN s = 1..Len(s) /\ i \in Nat
  OBVIOUS
<1>1. CASE i >= Len(s)
  <2>1. i + 1 \in Int /\ Len(s) \in Int /\ Len(s) < i + 1
    BY <1>0, <1>1
  <2>2. r = << >>
    BY ONLY <2>1, SubSeqEmpty
  <2> HIDE DEF r
  <2>3. r \in Seq(S) /\ DOMAIN r = {}
    BY <2>2
  <2>4. \A m \in DOMAIN s : ~(m > i)
    BY <1>0, <1>1
  <2> QED BY <2>3, <2>4 DEF r
<1>2. CASE i < Len(s)
  <2>1. \A j \in (i + 1)..Len(s) : s[j] \in S
    BY <1>0
  <2>2. i + 1 \in Int /\ Len(s) \in Int /\ i + 1 <= Len(s)
    BY <1>0, <1>2
  <2>3. /\ r \in Seq(S) /\ Len(r) = Len(s) - (i + 1) + 1
        /\ \A j \in 1..(Len(s) - (i + 1) + 1) : r[j] = s[i + 1 + j - 1]
    BY ONLY <2>1, <2>2, SubSeqProperties
  <2> HIDE DEF r
  <2>4. DOMAIN r = 1..(Len(s) - i)
    BY <2>3, <1>0
  <2>5. \A j \in DOMAIN r : j + i \in DOMAIN s /\ r[j] = s[j + i]
    BY <2>3, <2>4, <1>0
  <2>6. \A m \in DOMAIN s : m > i => m - i \in DOMAIN r /\ r[m - i] = s[m]
    BY <2>4, <2>5, <1>0
  <2> QED BY <2>3, <2>5, <2>6 DEF r
<1> QED BY <1>0, <1>1, <1>2

\* Handing an item over keeps the shape of the deque and of its futures.
LEMMA SendShape ==
  ASSUME TypeOK, NEW x \in Puts, SendTo(x)
  PROVE  /\ getters' \in Seq(Gets)
         /\ gstate' \in [Gets -> GetStates]
         /\ got' \in [Gets -> Puts \cup {None}]
<1>1. PICK i \in DOMAIN getters :
         /\ getters' = SubSeq(getters, i + 1, Len(getters))
         /\ gstate' = [gstate EXCEPT ![getters[i]] = "resolved"]
         /\ got' = [got EXCEPT ![getters[i]] = x]
  BY DEF SendTo
<1>2. getters \in Seq(Gets) /\ i \in 0..(Len(getters) + 1)
  BY DEF TypeOK
<1>3. getters' \in Seq(Gets)
  BY <1>1, <1>2, PopLeft
<1> QED BY <1>1, <1>3 DEF TypeOK, GetStates

\* So does releasing the writers.
LEMMA ReleaseShape ==
  ASSUME TypeOK, NEW st \in [Puts -> PutStates], ReleasePutters(st)
  PROVE  putters' \in Seq(Puts) /\ pstate' \in [Puts -> PutStates]
<1>1. CASE Full'
  BY <1>1 DEF ReleasePutters, TypeOK
<1>2. CASE ~Full'
  <2>1. PICK k \in 1..(Len(putters) + 1) :
           /\ putters' = SubSeq(putters, k + 1, Len(putters))
           /\ pstate' = [p \in Puts |->
                           IF \E i \in 1..(k - 1) : putters[i] = p
                           THEN "returned" ELSE st[p]]
    BY <1>2 DEF ReleasePutters
  <2>2. putters \in Seq(Puts) /\ k \in 0..(Len(putters) + 1)
    BY DEF TypeOK
  <2>3. putters' \in Seq(Puts)
    BY <2>1, <2>2, PopLeft
  <2>4. "returned" \in PutStates
    BY DEF PutStates
  <2> QED BY <2>1, <2>3, <2>4
<1> QED BY <1>1, <1>2

\* A put that ends blocked or not keeps the shape of the writers.
LEMMA BlockShape ==
  ASSUME TypeOK, NEW p \in Puts, BlockWhenFull(p)
  PROVE  putters' \in Seq(Puts) /\ pstate' \in [Puts -> PutStates]
<1>1. /\ putters' = Append(putters, p) \/ putters' = putters
      /\ \E w \in {"blocked", "returned"} : pstate' = [pstate EXCEPT ![p] = w]
  BY DEF BlockWhenFull
<1>2. putters \in Seq(Puts) /\ pstate \in [Puts -> PutStates]
  BY DEF TypeOK
<1>3. putters' \in Seq(Puts)
  BY <1>1, <1>2
<1>4. pstate' \in [Puts -> PutStates]
  BY <1>1, <1>2 DEF PutStates
<1> QED BY <1>3, <1>4

-----------------------------------------------------------------------------
(* Type correctness                                                        *)

LEMMA GetTypeOK ==
  ASSUME TypeOK, NEW g \in Gets, Get(g)
  PROVE  TypeOK'
<1>1. UNCHANGED <<now, onTime, ts, val>>
  BY DEF Get
<1>2. CASE GetEmpty(g)
  BY <1>1, <1>2 DEF GetEmpty, Wait, TypeOK, GetStates
<1>3. CASE GetEarly(g)
  BY <1>1, <1>3 DEF GetEarly, PutBack, Schedule, Wait, TypeOK, GetStates
<1>4. CASE GetReady(g)
  <2>1. PICK x \in queue, stale \in SUBSET queue :
           /\ Remove(x, stale)
           /\ got' = [got EXCEPT ![g] = IF ReleaseRaises THEN None ELSE x]
    BY <1>4 DEF GetReady
  <2>2. putters' \in Seq(Puts) /\ pstate' \in [Puts -> PutStates]
    BY <1>4, ReleaseShape DEF GetReady, TypeOK
  <2>3. queue' \subseteq Puts /\ values' \in [Values -> Puts \cup {None}]
    BY <2>1 DEF Remove, TypeOK
  <2>4. got' \in [Gets -> Puts \cup {None}]
    BY <2>1 DEF TypeOK
  <2>5. gstate' \in [Gets -> GetStates] /\ UNCHANGED <<sched, timers, getters>>
    BY <1>4 DEF GetReady, TypeOK, GetStates
  <2> QED BY <1>1, <2>2, <2>3, <2>4, <2>5 DEF TypeOK
<1> QED BY <1>2, <1>3, <1>4 DEF Get

LEMMA PutTypeOK ==
  ASSUME TypeOK, NEW p \in Puts, Put(p)
  PROVE  TypeOK'
<1>1. UNCHANGED <<now, onTime, val>> /\ ts' \in [Puts -> Time]
  BY DEF Put, TypeOK
<1>2. CASE PutSend(p)
  <2>1. /\ getters' \in Seq(Gets)
        /\ gstate' \in [Gets -> GetStates]
        /\ got' \in [Gets -> Puts \cup {None}]
    BY <1>2, SendShape DEF PutSend
  <2> DEFINE st == [pstate EXCEPT ![p] = IF ReleaseRaises THEN "failed"
                                         ELSE "returned"]
  <2>2. ReleasePutters(st)
    BY <1>2 DEF PutSend
  <2>3. st \in [Puts -> PutStates]
    BY DEF TypeOK, PutStates
  <2> HIDE DEF st
  <2>4. putters' \in Seq(Puts) /\ pstate' \in [Puts -> PutStates]
    BY <2>2, <2>3, ReleaseShape
  <2> QED BY <1>1, <1>2, <2>1, <2>4 DEF PutSend, TypeOK
<1>3. ASSUME BlockWhenFull(p), Insert(p)
      PROVE  /\ putters' \in Seq(Puts) /\ pstate' \in [Puts -> PutStates]
             /\ queue' \subseteq Puts
             /\ values' \in [Values -> Puts \cup {None}]
  BY <1>3, BlockShape DEF Insert, TypeOK
<1>4. CASE PutUnsent(p)
  BY <1>1, <1>3, <1>4 DEF PutUnsent, TypeOK
<1>5. CASE PutSchedule(p)
  BY <1>1, <1>3, <1>5 DEF PutSchedule, Schedule, TypeOK
<1>6. CASE PutStore(p)
  BY <1>1, <1>3, <1>6 DEF PutStore, TypeOK
<1> QED BY <1>2, <1>4, <1>5, <1>6 DEF Put

LEMMA OnTimeTypeOK ==
  ASSUME TypeOK, OnTimeIterate
  PROVE  TypeOK'
<1>1. UNCHANGED <<now, ts, val>>
  BY DEF OnTimeIterate
<1>2. CASE OnTimeNoGetters
  BY <1>1, <1>2 DEF OnTimeNoGetters, TypeOK
<1>3. CASE OnTimeEmpty
  BY <1>1, <1>3 DEF OnTimeEmpty, TypeOK
<1>4. CASE OnTimeEarly
  BY <1>1, <1>4 DEF OnTimeEarly, PutBack, Schedule, TypeOK
<1>5. CASE OnTimeSend
  <2>1. PICK x \in queue, stale \in SUBSET queue :
           Remove(x, stale) /\ SendTo(x)
    BY <1>5 DEF OnTimeSend
  <2>2. /\ getters' \in Seq(Gets)
        /\ gstate' \in [Gets -> GetStates]
        /\ got' \in [Gets -> Puts \cup {None}]
    BY <2>1, SendShape DEF TypeOK
  <2>3. putters' \in Seq(Puts) /\ pstate' \in [Puts -> PutStates]
    BY <1>5, ReleaseShape DEF OnTimeSend, TypeOK
  <2>4. queue' \subseteq Puts /\ values' \in [Values -> Puts \cup {None}]
    BY <2>1 DEF Remove, TypeOK
  <2>5. onTime' \in BOOLEAN
    BY <1>5 DEF OnTimeSend
  <2> QED BY <1>1, <1>5, <2>2, <2>3, <2>4, <2>5 DEF OnTimeSend, TypeOK
<1>6. CASE OnTimeUnsent
  BY <1>1, <1>6 DEF OnTimeUnsent, PutBack, TypeOK
<1> QED BY <1>2, <1>3, <1>4, <1>5, <1>6 DEF OnTimeIterate

LEMMA NextTypeOK ==
  ASSUME TypeOK, [Next]_vars
  PROVE  TypeOK'
<1>1. ASSUME NEW g \in Gets, Get(g) PROVE TypeOK'
  BY <1>1, GetTypeOK
<1>2. ASSUME NEW g \in Gets, ResumeGet(g) \/ OnTimeout(g) \/ CancelGet(g)
      PROVE TypeOK'
  BY <1>2 DEF ResumeGet, OnTimeout, CancelGet, TypeOK, GetStates
<1>3. ASSUME NEW p \in Puts, Put(p) PROVE TypeOK'
  BY <1>3, PutTypeOK
<1>4. ASSUME NEW p \in Puts, CancelPut(p) PROVE TypeOK'
  BY <1>4 DEF CancelPut, TypeOK, PutStates
<1>5. ASSUME NEW p \in Puts, OnTimeFire(p) PROVE TypeOK'
  BY <1>5 DEF OnTimeFire, TypeOK
<1>6. CASE OnTimeIterate
  BY <1>6, OnTimeTypeOK
<1>7. CASE Cleanup
  BY <1>7 DEF Cleanup, TypeOK, GetStates, PutStates
<1>8. CASE Tick
  BY <1>8, BoundsAssumption DEF Tick, TypeOK, Time
<1>9. CASE UNCHANGED vars
  BY <1>9 DEF vars, TypeOK
<1> QED BY <1>1, <1>2, <1>3, <1>4, <1>5, <1>6, <1>7, <1>8, <1>9 DEF Next

LEMMA InitTypeOK ==
  ASSUME Init
  PROVE  TypeOK
<1>1. now \in Time /\ ts \in [Puts -> Time] /\ val \in [Puts -> Values]
  BY BoundsAssumption DEF Init, Time
<1>2. /\ queue \subseteq Puts /\ sched \subseteq Puts /\ timers \subseteq sched
      /\ values \in [Values -> Puts \cup {None}]
      /\ got \in [Gets -> Puts \cup {None}]
  BY DEF Init
<1>3. getters \in Seq(Gets) /\ putters \in Seq(Puts)
  BY EmptySeq DEF Init
<1>5. onTime \in BOOLEAN
  BY DEF Init
<1>4. gstate \in [Gets -> GetStates] /\ pstate \in [Puts -> PutStates]
  BY DEF Init, GetStates, PutStates
<1> QED BY <1>1, <1>2, <1>3, <1>4, <1>5 DEF TypeOK

\* The state always has its declared shape, whatever is cancelled and however
\* early timers run.
THEOREM TypeCorrect == Spec => []TypeOK
BY InitTypeOK, NextTypeOK, PTL DEF Spec

-----------------------------------------------------------------------------
(* No item is handed over early                                            *)

\* A put that was not made has left no trace: its timestamp may still change.
Untouched ==
  \A p \in Puts : pstate[p] = "new" =>
    p \notin queue /\ p \notin sched /\ \A g \in Gets : got[g] # p

\* Releasing writers makes no put new.
LEMMA ReleaseNotNew ==
  ASSUME TypeOK, NEW st \in [Puts -> PutStates], ReleasePutters(st),
         NEW p \in Puts, pstate'[p] = "new"
  PROVE  st[p] = "new"
<1>1. CASE Full'
  BY <1>1 DEF ReleasePutters
<1>2. CASE ~Full'
  <2>1. PICK k \in 1..(Len(putters) + 1) :
           pstate' = [q \in Puts |->
                        IF \E i \in 1..(k - 1) : putters[i] = q
                        THEN "returned" ELSE st[q]]
    BY <1>2 DEF ReleasePutters
  <2> QED BY <2>1
<1> QED BY <1>1, <1>2

\* A finished put is not new, and the state of the others is as it was.
LEMMA BlockNotNew ==
  ASSUME TypeOK, NEW p \in Puts, BlockWhenFull(p),
         NEW q \in Puts, pstate'[q] = "new"
  PROVE  q # p /\ pstate[q] = "new"
<1>1. \E w \in {"blocked", "returned"} : pstate' = [pstate EXCEPT ![p] = w]
  BY DEF BlockWhenFull
<1> QED BY <1>1 DEF TypeOK

\* Only items of the queue are handed over by get and _on_time.
LEMMA GetUntouched ==
  ASSUME TypeOK, Untouched, NEW g \in Gets, Get(g)
  PROVE  Untouched'
<1>1. CASE GetEmpty(g)
  BY <1>1 DEF GetEmpty, Wait, Untouched, TypeOK
<1>2. CASE GetEarly(g)
  <2>1. /\ pstate' = pstate /\ got' = got /\ queue' \subseteq queue
        /\ \E x \in queue : sched' = sched \cup {x}
    BY <1>2 DEF GetEarly, Wait, PutBack, Schedule
  <2> QED BY <2>1 DEF Untouched
<1>3. CASE GetReady(g)
  <2>1. PICK x \in queue, stale \in SUBSET queue :
           /\ Remove(x, stale)
           /\ got' = [got EXCEPT ![g] = IF ReleaseRaises THEN None ELSE x]
    BY <1>3 DEF GetReady
  <2>2. sched' = sched /\ queue' \subseteq queue
    BY <1>3, <2>1 DEF GetReady, Remove
  <2>3. \A p \in Puts : pstate'[p] = "new" => pstate[p] = "new"
    BY <1>3, ReleaseNotNew DEF GetReady, TypeOK
  <2>4. \A h \in Gets : got'[h] \in {got[h], None, x}
    BY <2>1 DEF TypeOK
  <2> QED BY <2>2, <2>3, <2>4, PutsAssumption DEF Untouched
<1> QED BY <1>1, <1>2, <1>3 DEF Get

LEMMA PutUntouched ==
  ASSUME TypeOK, Untouched, NEW p \in Puts, Put(p)
  PROVE  Untouched'
<1>1. CASE PutSend(p)
  <2> DEFINE st == [pstate EXCEPT ![p] = IF ReleaseRaises THEN "failed"
                                         ELSE "returned"]
  <2>1. st \in [Puts -> PutStates] /\ st[p] # "new"
        /\ \A q \in Puts : st[q] = "new" => pstate[q] = "new"
    BY DEF TypeOK, PutStates
  <2>2. ReleasePutters(st)
    BY <1>1 DEF PutSend
  <2> HIDE DEF st
  <2>3. \A q \in Puts : pstate'[q] = "new" => q # p /\ pstate[q] = "new"
    BY <2>1, <2>2, ReleaseNotNew
  <2>4. \A h \in Gets : got'[h] \in {got[h], p}
    BY <1>1 DEF PutSend, SendTo, TypeOK
  <2>5. queue' = queue /\ sched' = sched
    BY <1>1 DEF PutSend
  <2> QED BY <2>3, <2>4, <2>5 DEF Untouched
<1>2. ASSUME BlockWhenFull(p), Insert(p), got' = got, sched' \subseteq sched \cup {p}
      PROVE  Untouched'
  <2>1. \A q \in Puts : pstate'[q] = "new" => q # p /\ pstate[q] = "new"
    BY <1>2, BlockNotNew
  <2>2. queue' = queue \cup {p}
    BY <1>2 DEF Insert
  <2> QED BY <1>2, <2>1, <2>2 DEF Untouched
<1>3. CASE PutUnsent(p)
  BY <1>2, <1>3 DEF PutUnsent
<1>4. CASE PutSchedule(p)
  BY <1>2, <1>4 DEF PutSchedule, Schedule
<1>5. CASE PutStore(p)
  BY <1>2, <1>5 DEF PutStore
<1> QED BY <1>1, <1>3, <1>4, <1>5 DEF Put

LEMMA OnTimeUntouched ==
  ASSUME TypeOK, Untouched, OnTimeIterate
  PROVE  Untouched'
<1>1. CASE OnTimeNoGetters
  BY <1>1 DEF OnTimeNoGetters, Untouched
<1>2. CASE OnTimeEmpty
  BY <1>2 DEF OnTimeEmpty, Untouched
<1>3. CASE OnTimeEarly
  <2>1. /\ pstate' = pstate /\ got' = got /\ queue' \subseteq queue
        /\ \E x \in queue : sched' = sched \cup {x}
    BY <1>3 DEF OnTimeEarly, PutBack, Schedule
  <2> QED BY <2>1 DEF Untouched
<1>4. CASE OnTimeSend
  <2>1. PICK x \in queue, stale \in SUBSET queue :
           Remove(x, stale) /\ SendTo(x)
    BY <1>4 DEF OnTimeSend
  <2>2. sched' = sched /\ queue' \subseteq queue
    BY <1>4, <2>1 DEF OnTimeSend, Remove
  <2>3. \A p \in Puts : pstate'[p] = "new" => pstate[p] = "new"
    BY <1>4, ReleaseNotNew DEF OnTimeSend, TypeOK
  <2>4. \A h \in Gets : got'[h] \in {got[h], x}
    BY <2>1 DEF SendTo, TypeOK
  <2> QED BY <2>2, <2>3, <2>4 DEF Untouched
<1>5. CASE OnTimeUnsent
  BY <1>5 DEF OnTimeUnsent, PutBack, Untouched
<1> QED BY <1>1, <1>2, <1>3, <1>4, <1>5 DEF OnTimeIterate

LEMMA NextUntouched ==
  ASSUME TypeOK, Untouched, [Next]_vars
  PROVE  Untouched'
<1>1. ASSUME NEW g \in Gets, Get(g) PROVE Untouched'
  BY <1>1, GetUntouched
<1>2. ASSUME NEW g \in Gets, ResumeGet(g) \/ OnTimeout(g) \/ CancelGet(g)
      PROVE Untouched'
  BY <1>2 DEF ResumeGet, OnTimeout, CancelGet, Untouched
<1>3. ASSUME NEW p \in Puts, Put(p) PROVE Untouched'
  BY <1>3, PutUntouched
<1>4. ASSUME NEW p \in Puts, CancelPut(p) PROVE Untouched'
  BY <1>4 DEF CancelPut, TypeOK, Untouched
<1>5. ASSUME NEW p \in Puts, OnTimeFire(p) PROVE Untouched'
  BY <1>5 DEF OnTimeFire, Untouched
<1>6. CASE OnTimeIterate
  BY <1>6, OnTimeUntouched
<1>7. CASE Cleanup
  BY <1>7 DEF Cleanup, Untouched
<1>8. CASE Tick
  BY <1>8 DEF Tick, Untouched
<1>9. CASE UNCHANGED vars
  BY <1>9 DEF vars, Untouched
<1> QED BY <1>1, <1>2, <1>3, <1>4, <1>5, <1>6, <1>7, <1>8, <1>9 DEF Next

\* What a step hands over is due, and what was handed over keeps its timestamp.
LEMMA NextNoEarlyDelivery ==
  ASSUME TypeOK, Untouched, NoEarlyDelivery, [Next]_vars
  PROVE  NoEarlyDelivery'
<1>1. \A p \in Puts : Put(p) =>
        \A q \in Puts : q # p => ts'[q] = ts[q]
  BY DEF Put, TypeOK
<1>3. ASSUME NEW g \in Gets, Get(g) PROVE NoEarlyDelivery'
  <2>1. now' = now /\ ts' = ts
    BY <1>3 DEF Get
  <2>2. \A h \in Gets : \/ got'[h] = None \/ got'[h] = got[h]
                        \/ got'[h] \in Puts /\ ts[got'[h]] <= now
    BY <1>3 DEF Get, GetEmpty, GetEarly, GetReady, Wait, TypeOK
  <2> QED BY <2>1, <2>2 DEF NoEarlyDelivery
<1>4. ASSUME NEW p \in Puts, Put(p) PROVE NoEarlyDelivery'
  <2>1. \A g \in Gets : got[g] # p
    BY <1>4 DEF Put, Untouched
  <2>2. \A h \in Gets : \/ got'[h] = got[h]
                        \/ got'[h] = p /\ ts'[p] < now
    BY <1>4 DEF Put, PutSend, SendTo, PutUnsent, PutSchedule, PutStore, TypeOK
  <2>3. now' = now /\ ts' \in [Puts -> Time]
    BY <1>4 DEF Put, TypeOK
  <2>4. now \in Int /\ \A q \in Puts : ts'[q] \in Int
    BY <2>3 DEF TypeOK, Time
  <2>5. SUFFICES ASSUME NEW g \in Gets, got'[g] # None
                 PROVE  ts'[got'[g]] <= now'
    BY DEF NoEarlyDelivery
  <2>6. CASE got'[g] = p /\ ts'[p] < now
    BY <2>3, <2>4, <2>6
  <2>7. CASE got'[g] = got[g]
    <3>1. got[g] \in Puts /\ got[g] # p /\ ts[got[g]] <= now
      BY <2>1, <2>5, <2>7 DEF NoEarlyDelivery, TypeOK
    <3> QED BY <1>1, <1>4, <2>3, <2>7, <3>1
  <2> QED BY <2>2, <2>6, <2>7
<1>5. CASE OnTimeIterate
  <2>1. now' = now /\ ts' = ts
    BY <1>5 DEF OnTimeIterate
  <2>2. \A h \in Gets : \/ got'[h] = got[h]
                        \/ got'[h] \in Puts /\ ts[got'[h]] <= now
    BY <1>5 DEF OnTimeIterate, OnTimeNoGetters, OnTimeEmpty, OnTimeEarly,
                OnTimeSend, OnTimeUnsent, SendTo, TypeOK
  <2> QED BY <2>1, <2>2 DEF NoEarlyDelivery
<1>6. ASSUME got' = got, ts' = ts, now' \in {now, now + 1}
      PROVE  NoEarlyDelivery'
  BY <1>6 DEF NoEarlyDelivery, TypeOK, Time
<1>7. ASSUME NEW g \in Gets, ResumeGet(g) \/ OnTimeout(g) \/ CancelGet(g)
      PROVE NoEarlyDelivery'
  BY <1>6, <1>7 DEF ResumeGet, OnTimeout, CancelGet
<1>8. ASSUME NEW p \in Puts, CancelPut(p) \/ OnTimeFire(p)
      PROVE NoEarlyDelivery'
  BY <1>6, <1>8 DEF CancelPut, OnTimeFire
<1>9. CASE Cleanup \/ Tick \/ UNCHANGED vars
  BY <1>6, <1>9 DEF Cleanup, Tick, vars
<1> QED BY <1>3, <1>4, <1>5, <1>7, <1>8, <1>9 DEF Next

\* No reader gets an item before its timestamp: whoever cancels, however early
\* timers run, for both classes of queue.
THEOREM NoEarlyDeliveryHolds == Spec => []NoEarlyDelivery
<1> DEFINE Inv == TypeOK /\ Untouched /\ NoEarlyDelivery
<1>1. Init => Inv
  BY InitTypeOK, PutsAssumption DEF Init, Untouched, NoEarlyDelivery
<1>2. Inv /\ [Next]_vars => Inv'
  BY NextTypeOK, NextUntouched, NextNoEarlyDelivery
<1> QED BY <1>1, <1>2, PTL DEF Spec

-----------------------------------------------------------------------------
(* Nobody waits in vain: the inductive invariant.  It needs timers that are *)
(* never early and blocked writers that are not cancelled.                  *)

Punctual == Slack = 0
\* No blocked writer is cancelled: an unbounded queue has none.
PatientWriters == CancelPuts = {} \/ MaxSize = 0

\* A reader that waits is in _getters, a blocked writer in _putters.
WaitersQueued ==
  \A g \in Gets : gstate[g] = "waiting" => \E i \in DOMAIN getters : getters[i] = g
WritersQueued ==
  \A p \in Puts : pstate[p] = "blocked" => \E i \in DOMAIN putters : putters[i] = p

\* Every future in _putters is pending, so set_result cannot raise.
PuttersPending == \A i \in DOMAIN putters : pstate[putters[i]] = "blocked"

\* An item whose scheduled flag is set keeps its timer while it is early.
ScheduledHasTimer ==
  \A x \in Live : x \in sched /\ ts[x] > now => x \in timers

WakeInv ==
  /\ WaitersQueued
  /\ ScheduledHasTimer
  /\ NoLostWakeup

WritersInv ==
  /\ WritersQueued
  /\ PuttersPending
  /\ BlockedOnlyWhenFull

-----------------------------------------------------------------------------
(* Lemmas about the heap.                                                  *)

\* Pushing the popped item back leaves the readable items as they were.
LEMMA LiveBack ==
  ASSUME NEW x, NEW stale, Pops(x, stale), PutBack(stale), UNCHANGED val
  PROVE  Live' = Live
BY DEF Pops, PutBack, Live

LEMMA LiveRemove ==
  ASSUME TypeOK, NEW x \in queue, NEW stale, Remove(x, stale), UNCHANGED val
  PROVE  Live' \subseteq Live
<1>1. CASE ~Unique
  BY <1>1 DEF Remove, Live
<1>2. CASE Unique
  <2>1. SUFFICES ASSUME NEW q \in queue', values'[val[q]] = q
                 PROVE  q \in queue /\ values[val[q]] = q
    BY <1>2 DEF Live
  <2>2. q \in queue /\ q \in Puts /\ val[q] \in Values /\ q # None
    BY PutsAssumption DEF Remove, TypeOK
  <2>3. values'[val[q]] \in {None, values[val[q]]}
    BY <1>2, <2>2 DEF Remove, TypeOK
  <2> QED BY <2>1, <2>2, <2>3
<1> QED BY <1>1, <1>2 DEF Live

LEMMA LiveInsert ==
  ASSUME TypeOK, NEW p \in Puts, Insert(p), UNCHANGED val
  PROVE  Live' \subseteq Live \cup {p}
<1>1. CASE ~Unique
  BY <1>1 DEF Insert, Live
<1>2. CASE Unique
  <2>1. SUFFICES ASSUME NEW q \in queue', values'[val[q]] = q, q # p
                 PROVE  q \in queue /\ values[val[q]] = q
    BY <1>2 DEF Live
  <2>2. q \in queue /\ q \in Puts /\ val[q] \in Values
    BY <2>1 DEF Insert, TypeOK
  <2>3. values'[val[q]] \in {p, values[val[q]]}
    BY <1>2, <2>2 DEF Insert, TypeOK
  <2> QED BY <2>1, <2>2, <2>3
<1> QED BY <1>1, <1>2 DEF Live

\* The size of the queue is that of its table of values, or of its heap.
LEMMA SameSize ==
  ASSUME UNCHANGED values, Unique \/ UNCHANGED queue
  PROVE  Full' <=> Full
BY DEF Full, Size

LEMMA BackSize ==
  ASSUME NEW x, NEW stale, Pops(x, stale), PutBack(stale)
  PROVE  Full' <=> Full
<1>1. CASE Unique
  BY <1>1, SameSize DEF PutBack
<1>2. CASE ~Unique
  <2>1. queue' = queue
    BY <1>2 DEF Pops, PutBack, Live
  <2> QED BY <2>1, SameSize DEF PutBack
<1> QED BY <1>1, <1>2

LEMMA EmptySize ==
  ASSUME Live = {}, queue' = {}, UNCHANGED values
  PROVE  Full' <=> Full
<1>1. CASE Unique
  BY <1>1, SameSize
<1>2. CASE ~Unique
  BY <1>2, SameSize DEF Live
<1> QED BY <1>1, <1>2

\* An insertion does not make a full queue less full.
LEMMA InsertFull ==
  ASSUME TypeOK, NEW p \in Puts, Insert(p), UNCHANGED val, Full
  PROVE  Full'
<1>1. CASE Unique
  <2> DEFINE used(tab) == {v \in Values : tab[v] # None}
  <2>1. used(values) \subseteq used(values')
    BY <1>1, PutsAssumption DEF Insert, TypeOK
  <2>2. IsFiniteSet(used(values'))
    BY ValuesAssumption, FS_Subset
  <2>3. Cardinality(used(values)) <= Cardinality(used(values'))
        /\ Cardinality(used(values)) \in Nat /\ Cardinality(used(values')) \in Nat
    BY <2>1, <2>2, FS_Subset, FS_CardinalityType
  <2>4. Size = Cardinality(used(values)) /\ Size' = Cardinality(used(values'))
    BY <1>1 DEF Size
  <2> QED BY <2>3, <2>4, BoundsAssumption DEF Full
<1>2. CASE ~Unique
  <2>1. queue \subseteq queue' /\ IsFiniteSet(queue')
    BY PutsAssumption, FS_Subset DEF Insert, TypeOK
  <2>2. Cardinality(queue) <= Cardinality(queue')
        /\ Cardinality(queue) \in Nat /\ Cardinality(queue') \in Nat
    BY <2>1, FS_Subset, FS_CardinalityType
  <2>3. Size = Cardinality(queue) /\ Size' = Cardinality(queue')
    BY <1>2 DEF Size
  <2> QED BY <2>2, <2>3, BoundsAssumption DEF Full
<1> QED BY <1>1, <1>2

-----------------------------------------------------------------------------
(* Writers                                                                 *)

\* While every queued writer is pending, _release_putter does not raise, and
\* it leaves nobody blocked beside a free place.
LEMMA ReleaseAll ==
  ASSUME TypeOK, WritersQueued, PuttersPending,
         NEW st \in [Puts -> PutStates], ReleasePutters(st),
         \A p \in Puts : st[p] = "blocked" <=> pstate[p] = "blocked"
  PROVE  WritersInv'
<1>1. CASE Full'
  <2>1. putters' = putters /\ pstate' = st
    BY <1>1 DEF ReleasePutters
  <2>2. \A i \in DOMAIN putters : putters[i] \in Puts
    BY DEF TypeOK
  <2> QED BY <1>1, <2>1, <2>2 DEF WritersInv, WritersQueued, PuttersPending,
                               BlockedOnlyWhenFull
<1>2. CASE ~Full'
  <2>1. PICK k \in 1..(Len(putters) + 1) :
           /\ k <= Len(putters) => pstate[putters[k]] # "blocked"
           /\ putters' = SubSeq(putters, k + 1, Len(putters))
           /\ pstate' = [q \in Puts |->
                           IF \E i \in 1..(k - 1) : putters[i] = q
                           THEN "returned" ELSE st[q]]
    BY <1>2 DEF ReleasePutters
  <2>2. putters \in Seq(Puts) /\ Len(putters) \in Nat
        /\ DOMAIN putters = 1..Len(putters)
    BY DEF TypeOK
  <2>3. k = Len(putters) + 1
    BY <2>1, <2>2 DEF PuttersPending
  <2>4. putters' = << >>
    <3>1. k + 1 \in Int /\ Len(putters) \in Int /\ Len(putters) < k + 1
      BY <2>2, <2>3
    <3> QED BY <2>1, <3>1, SubSeqEmpty
  <2>5. \A q \in Puts : pstate'[q] # "blocked"
    <3>1. SUFFICES ASSUME NEW q \in Puts, pstate'[q] = "blocked"
                   PROVE  FALSE
      OBVIOUS
    <3>2. st[q] = "blocked" /\ ~\E i \in 1..(k - 1) : putters[i] = q
      BY <2>1, <3>1
    <3>3. \E i \in DOMAIN putters : putters[i] = q
      BY <3>2 DEF WritersQueued
    <3> QED BY <2>2, <2>3, <3>2, <3>3
  <2> QED BY <2>4, <2>5 DEF WritersInv, WritersQueued, PuttersPending,
                        BlockedOnlyWhenFull
<1> QED BY <1>1, <1>2

LEMMA NeverRaises ==
  ASSUME PuttersPending
  PROVE  ~ReleaseRaises
BY DEF PuttersPending, ReleaseRaises

\* A put that inserts its item blocks exactly when the queue is then full.
LEMMA BlockWriters ==
  ASSUME TypeOK, WritersInv, NEW p \in Puts, pstate[p] = "new",
         BlockWhenFull(p), Full => Full'
  PROVE  WritersInv'
<1>1. \A i \in DOMAIN putters : putters[i] \in Puts /\ putters[i] # p
  BY DEF WritersInv, PuttersPending, TypeOK
<1>2. CASE Full'
  <2>1. /\ putters' = Append(putters, p)
        /\ pstate' = [pstate EXCEPT ![p] = "blocked"]
    BY <1>2 DEF BlockWhenFull
  <2>2. putters \in Seq(Puts) /\ pstate \in [Puts -> PutStates]
    BY DEF TypeOK
  <2>3. /\ DOMAIN putters' = 1..(Len(putters) + 1)
        /\ putters'[Len(putters) + 1] = p
        /\ \A i \in 1..Len(putters) : putters'[i] = putters[i]
        /\ DOMAIN putters = 1..Len(putters) /\ Len(putters) \in Nat
    BY <2>1, <2>2
  <2>4. PuttersPending'
    BY <1>1, <2>1, <2>2, <2>3 DEF PuttersPending, WritersInv
  <2>5. WritersQueued'
    BY <2>1, <2>2, <2>3 DEF WritersQueued, WritersInv
  <2> QED BY <1>2, <2>4, <2>5 DEF WritersInv, BlockedOnlyWhenFull
<1>3. CASE ~Full'
  <2>1. putters' = putters /\ pstate' = [pstate EXCEPT ![p] = "returned"]
    BY <1>3 DEF BlockWhenFull
  <2>2. \A q \in Puts : pstate[q] # "blocked"
    BY <1>3 DEF WritersInv, BlockedOnlyWhenFull
  <2>3. \A q \in Puts : pstate'[q] # "blocked"
    BY <2>1, <2>2 DEF TypeOK
  <2>4. DOMAIN putters' = {}
    BY <1>1, <2>1, <2>2 DEF PuttersPending, WritersInv
  <2> QED BY <2>3, <2>4 DEF WritersInv, WritersQueued, PuttersPending,
                        BlockedOnlyWhenFull
<1> QED BY <1>2, <1>3

\* Steps that leave the writers alone and the size as it was.
LEMMA SameWriters ==
  ASSUME WritersInv, UNCHANGED <<putters, pstate>>, Full' <=> Full
  PROVE  WritersInv'
BY DEF WritersInv, WritersQueued, PuttersPending, BlockedOnlyWhenFull

LEMMA PutWriters ==
  ASSUME TypeOK, WritersInv, NEW p \in Puts, Put(p)
  PROVE  WritersInv'
<1>1. pstate[p] = "new" /\ UNCHANGED val
  BY DEF Put
<1>2. CASE PutSend(p)
  <2> DEFINE st == [pstate EXCEPT ![p] = IF ReleaseRaises THEN "failed"
                                         ELSE "returned"]
  <2>1. st \in [Puts -> PutStates]
        /\ \A q \in Puts : st[q] = "blocked" <=> pstate[q] = "blocked"
    BY <1>1 DEF TypeOK, PutStates
  <2>2. ReleasePutters(st)
    BY <1>2 DEF PutSend
  <2> HIDE DEF st
  <2> QED BY <2>1, <2>2, ReleaseAll DEF WritersInv
<1>3. ASSUME Insert(p), BlockWhenFull(p) PROVE WritersInv'
  BY <1>1, <1>3, InsertFull, BlockWriters
<1> QED BY <1>2, <1>3 DEF Put, PutUnsent, PutSchedule, PutStore

LEMMA GetWriters ==
  ASSUME TypeOK, WritersInv, NEW g \in Gets, Get(g)
  PROVE  WritersInv'
<1>1. CASE GetEmpty(g)
  BY <1>1, EmptySize, SameWriters DEF GetEmpty, Wait
<1>2. CASE GetEarly(g)
  BY <1>2, BackSize, SameWriters DEF GetEarly, Wait
<1>3. CASE GetReady(g)
  BY <1>3, ReleaseAll DEF GetReady, WritersInv, TypeOK
<1> QED BY <1>1, <1>2, <1>3 DEF Get

LEMMA OnTimeWriters ==
  ASSUME TypeOK, WritersInv, OnTimeIterate
  PROVE  WritersInv'
<1>1. CASE OnTimeNoGetters
  BY <1>1, SameSize, SameWriters DEF OnTimeNoGetters
<1>2. CASE OnTimeEmpty
  BY <1>2, EmptySize, SameWriters DEF OnTimeEmpty
<1>3. CASE OnTimeEarly
  BY <1>3, BackSize, SameWriters DEF OnTimeEarly
<1>4. CASE OnTimeSend
  BY <1>4, ReleaseAll DEF OnTimeSend, WritersInv, TypeOK
<1>5. CASE OnTimeUnsent
  BY <1>5, BackSize, SameWriters DEF OnTimeUnsent
<1> QED BY <1>1, <1>2, <1>3, <1>4, <1>5 DEF OnTimeIterate

LEMMA NextWriters ==
  ASSUME PatientWriters, TypeOK, WritersInv, [Next]_vars
  PROVE  WritersInv'
<1>1. ASSUME NEW g \in Gets, Get(g) PROVE WritersInv'
  BY <1>1, GetWriters
<1>2. ASSUME NEW g \in Gets, ResumeGet(g) \/ OnTimeout(g) \/ CancelGet(g)
      PROVE WritersInv'
  BY <1>2, SameSize, SameWriters DEF ResumeGet, OnTimeout, CancelGet
<1>3. ASSUME NEW p \in Puts, Put(p) PROVE WritersInv'
  BY <1>3, PutWriters
<1>4. ASSUME NEW p \in Puts, CancelPut(p) PROVE WritersInv'
  BY <1>4, BoundsAssumption DEF CancelPut, PatientWriters, WritersInv,
                                BlockedOnlyWhenFull, Full
<1>5. ASSUME NEW p \in Puts, OnTimeFire(p) PROVE WritersInv'
  BY <1>5, SameSize, SameWriters DEF OnTimeFire
<1>6. CASE OnTimeIterate
  BY <1>6, OnTimeWriters
<1>7. CASE Cleanup
  <2>1. putters' = << >> /\ \A p \in Puts : pstate'[p] # "blocked"
    BY <1>7 DEF Cleanup
  <2> QED BY <2>1 DEF WritersInv, WritersQueued, PuttersPending,
                   BlockedOnlyWhenFull
<1>8. CASE Tick
  BY <1>8, SameSize, SameWriters DEF Tick
<1>9. CASE UNCHANGED vars
  BY <1>9, SameSize, SameWriters DEF vars
<1> QED BY <1>1, <1>2, <1>3, <1>4, <1>5, <1>6, <1>7, <1>8, <1>9 DEF Next

\* When no blocked writer is cancelled, a writer is blocked only while the
\* queue is full.
THEOREM BlockedOnlyWhenFullHolds ==
  PatientWriters => (Spec => []BlockedOnlyWhenFull)
<1> SUFFICES ASSUME PatientWriters PROVE Spec => []BlockedOnlyWhenFull
  OBVIOUS
<1> DEFINE Inv == TypeOK /\ WritersInv
<1>1. Init => Inv
  <2>1. ASSUME Init PROVE WritersInv
    BY <2>1 DEF Init, WritersInv, WritersQueued, PuttersPending,
                BlockedOnlyWhenFull
  <2> QED BY <2>1, InitTypeOK
<1>2. Inv /\ [Next]_vars => Inv'
  BY NextTypeOK, NextWriters
<1>3. Inv => BlockedOnlyWhenFull
  BY DEF WritersInv
<1> QED BY <1>1, <1>2, <1>3, PTL DEF Spec

-----------------------------------------------------------------------------
(* Backpressure                                                            *)

\* Puts that count against an item above maxsize.
Unreturned == {p \in Puts : pstate[p] \in {"blocked", "cancelled", "failed"}}

LEMMA Counts ==
  TypeOK => /\ Size \in Nat /\ IsFiniteSet(Unreturned)
            /\ Cardinality(Unreturned) \in Nat
<1> SUFFICES ASSUME TypeOK
             PROVE  /\ Size \in Nat /\ IsFiniteSet(Unreturned)
                    /\ Cardinality(Unreturned) \in Nat
  OBVIOUS
<1> DEFINE used == {v \in Values : values[v] # None}
<1>1. used \subseteq Values /\ queue \subseteq Puts /\ Unreturned \subseteq Puts
  BY DEF TypeOK, Unreturned
<1>2. IsFiniteSet(used) /\ IsFiniteSet(queue) /\ IsFiniteSet(Unreturned)
  BY <1>1, PutsAssumption, ValuesAssumption, FS_Subset
<1> HIDE DEF used
<1>3. /\ Cardinality(used) \in Nat /\ Cardinality(queue) \in Nat
      /\ Cardinality(Unreturned) \in Nat
  BY <1>2, FS_CardinalityType
<1> QED BY <1>2, <1>3 DEF Size, used

LEMMA CountsNext ==
  TypeOK' => /\ Size' \in Nat /\ IsFiniteSet(Unreturned')
             /\ Cardinality(Unreturned') \in Nat
<1>1. (TypeOK => /\ Size \in Nat /\ IsFiniteSet(Unreturned)
                 /\ Cardinality(Unreturned) \in Nat)'
  BY Counts, PTL
<1> QED BY <1>1

\* A queue with a free place is no concern.
LEMMA FreePlace ==
  ASSUME TypeOK', ~Full'
  PROVE  Backpressure'
<1>1. ASSUME MaxSize > 0
      PROVE  Size' < MaxSize + Cardinality(Unreturned')
  <2>1. Size' \in Nat /\ Cardinality(Unreturned') \in Nat
    BY CountsNext
  <2>2. ~(Size' >= MaxSize)
    BY <1>1 DEF Full
  <2> QED BY <2>1, <2>2, BoundsAssumption
<1> QED BY <1>1 DEF Backpressure, Unreturned

\* Neither is a step that adds no item and lets no put return.
LEMMA NoMoreItems ==
  ASSUME TypeOK, TypeOK', Backpressure, Size' <= Size,
         Unreturned \subseteq Unreturned'
  PROVE  Backpressure'
<1>1. /\ Size \in Nat /\ Cardinality(Unreturned) \in Nat
      /\ Size' \in Nat /\ IsFiniteSet(Unreturned')
      /\ Cardinality(Unreturned') \in Nat
  BY Counts, CountsNext
<1>2. Cardinality(Unreturned) <= Cardinality(Unreturned')
  BY <1>1, FS_Subset
<1> QED BY <1>1, <1>2, BoundsAssumption DEF Backpressure, Unreturned

\* An item more is paid for by a put that does not return.
LEMMA OneMore ==
  ASSUME TypeOK, TypeOK', Backpressure, Size' <= Size + 1, NEW p,
         p \notin Unreturned, Unreturned \cup {p} \subseteq Unreturned'
  PROVE  Backpressure'
<1>1. /\ Size \in Nat /\ Cardinality(Unreturned) \in Nat /\ IsFiniteSet(Unreturned)
      /\ Size' \in Nat /\ IsFiniteSet(Unreturned')
      /\ Cardinality(Unreturned') \in Nat
  BY Counts, CountsNext
<1>2. Cardinality(Unreturned \cup {p}) = Cardinality(Unreturned) + 1
  BY <1>1, FS_AddElement
<1>3. Cardinality(Unreturned \cup {p}) <= Cardinality(Unreturned')
  BY <1>1, FS_Subset
<1> QED BY <1>1, <1>2, <1>3, BoundsAssumption DEF Backpressure, Unreturned

\* Popping, pushing back and throwing away add no item.
LEMMA FewerItems ==
  ASSUME TypeOK, queue' \subseteq queue,
         \A v \in Values : values'[v] # None => values[v] # None
  PROVE  Size' <= Size
<1> DEFINE used(tab) == {v \in Values : tab[v] # None}
<1>1. used(values') \subseteq used(values) /\ used(values) \subseteq Values
  OBVIOUS
<1>2. IsFiniteSet(used(values)) /\ IsFiniteSet(queue)
  BY <1>1, PutsAssumption, ValuesAssumption, FS_Subset DEF TypeOK
<1>3. /\ Cardinality(used(values')) <= Cardinality(used(values))
      /\ Cardinality(queue') <= Cardinality(queue)
  BY <1>1, <1>2, FS_Subset
<1> QED BY <1>3 DEF Size

LEMMA InsertSize ==
  ASSUME TypeOK, NEW p \in Puts, Insert(p), UNCHANGED val
  PROVE  Size' <= Size + 1
<1>1. CASE Unique
  <2> DEFINE used(tab) == {v \in Values : tab[v] # None}
  <2>1. used(values') \subseteq used(values) \cup {val[p]}
    BY <1>1 DEF Insert, TypeOK
  <2>2. IsFiniteSet(used(values))
    BY ValuesAssumption, FS_Subset
  <2> HIDE DEF used
  <2>3. /\ IsFiniteSet(used(values) \cup {val[p]})
        /\ Cardinality(used(values) \cup {val[p]})
             \in {Cardinality(used(values)), Cardinality(used(values)) + 1}
    BY <2>2, FS_AddElement
  <2>4. Cardinality(used(values')) <= Cardinality(used(values) \cup {val[p]})
    BY <2>1, <2>3, FS_Subset
  <2>5. Cardinality(used(values)) \in Nat
    BY <2>2, FS_CardinalityType
  <2>6. /\ Size = Cardinality(used(values))
        /\ Size' = Cardinality(used(values'))
    BY <1>1 DEF Size, used
  <2>7. Cardinality(used(values')) \in Nat
    BY <2>1, <2>3, FS_Subset, FS_CardinalityType
  <2> QED BY <2>3, <2>4, <2>5, <2>6, <2>7
<1>2. CASE ~Unique
  <2>1. IsFiniteSet(queue) /\ queue' = queue \cup {p}
    BY PutsAssumption, FS_Subset DEF Insert, TypeOK
  <2>2. Cardinality(queue') \in {Cardinality(queue), Cardinality(queue) + 1}
    BY <2>1, FS_AddElement
  <2>3. Cardinality(queue) \in Nat
    BY <2>1, FS_CardinalityType
  <2> QED BY <1>2, <2>2, <2>3 DEF Size
<1> QED BY <1>1, <1>2

\* Where writers are released there is a free place; where none is, no put
\* has returned.
LEMMA ReleaseBackpressure ==
  ASSUME TypeOK, TypeOK', Backpressure, NEW st, ReleasePutters(st),
         Size' <= Size,
         \A p \in Puts : p \in Unreturned => st[p] = pstate[p]
  PROVE  Backpressure'
<1>1. CASE Full'
  <2>1. pstate' = st
    BY <1>1 DEF ReleasePutters
  <2>2. Unreturned \subseteq Unreturned'
    BY <2>1 DEF Unreturned
  <2> QED BY <2>2, NoMoreItems
<1> QED BY <1>1, FreePlace

LEMMA PutBackpressure ==
  ASSUME TypeOK, TypeOK', Backpressure, NEW p \in Puts, Put(p)
  PROVE  Backpressure'
<1>1. pstate[p] = "new" /\ UNCHANGED val
  BY DEF Put
<1>2. p \notin Unreturned
  BY <1>1 DEF Unreturned
<1>3. CASE PutSend(p)
  <2> DEFINE st == [pstate EXCEPT ![p] = IF ReleaseRaises THEN "failed"
                                         ELSE "returned"]
  <2>1. \A q \in Puts : q \in Unreturned => st[q] = pstate[q]
    BY <1>2 DEF TypeOK
  <2>2. ReleasePutters(st) /\ UNCHANGED <<queue, values>>
    BY <1>3 DEF PutSend
  <2> HIDE DEF st
  <2>3. Size' <= Size
    BY <2>2, FewerItems
  <2> QED BY <2>1, <2>2, <2>3, ReleaseBackpressure
<1>4. ASSUME Insert(p), BlockWhenFull(p) PROVE Backpressure'
  <2>1. CASE Full'
    <3>1. pstate' = [pstate EXCEPT ![p] = "blocked"]
      BY <1>4, <2>1 DEF BlockWhenFull
    <3>2. Unreturned \cup {p} \subseteq Unreturned'
      BY <3>1 DEF Unreturned, TypeOK
    <3>3. Size' <= Size + 1
      BY <1>1, <1>4, InsertSize
    <3> QED BY <1>2, <3>2, <3>3, OneMore
  <2> QED BY <2>1, FreePlace
<1> QED BY <1>3, <1>4 DEF Put, PutUnsent, PutSchedule, PutStore

LEMMA NextBackpressure ==
  ASSUME TypeOK, TypeOK', Backpressure, [Next]_vars
  PROVE  Backpressure'
<1>1. ASSUME NEW x \in queue, NEW stale, Remove(x, stale)
      PROVE  Size' <= Size
  BY <1>1, FewerItems DEF Remove, TypeOK
<1>2. ASSUME queue' \subseteq queue, UNCHANGED values,
             \A p \in Puts : pstate'[p] = pstate[p]
      PROVE  Backpressure'
  <2>1. Size' <= Size
    BY <1>2, FewerItems
  <2>2. Unreturned \subseteq Unreturned'
    BY <1>2 DEF Unreturned
  <2> QED BY <2>1, <2>2, NoMoreItems
<1>3. ASSUME NEW g \in Gets, Get(g) PROVE Backpressure'
  <2>1. CASE GetEmpty(g) \/ GetEarly(g)
    BY <1>2, <2>1 DEF GetEmpty, GetEarly, PutBack, Wait
  <2>2. CASE GetReady(g)
    <3>1. Size' <= Size /\ ReleasePutters(pstate)
      BY <1>1, <2>2 DEF GetReady
    <3> QED BY <3>1, ReleaseBackpressure
  <2> QED BY <1>3, <2>1, <2>2 DEF Get
<1>4. ASSUME NEW g \in Gets, ResumeGet(g) \/ OnTimeout(g) \/ CancelGet(g)
      PROVE Backpressure'
  BY <1>2, <1>4 DEF ResumeGet, OnTimeout, CancelGet
<1>5. ASSUME NEW p \in Puts, Put(p) PROVE Backpressure'
  BY <1>5, PutBackpressure
<1>6. ASSUME UNCHANGED <<queue, values>>,
             \A p \in Puts : p \in Unreturned => pstate'[p] \in {pstate[p], "cancelled"}
      PROVE  Backpressure'
  <2>1. Size' <= Size
    BY <1>6, FewerItems
  <2>2. Unreturned \subseteq Unreturned'
    BY <1>6 DEF Unreturned
  <2> QED BY <2>1, <2>2, NoMoreItems
<1>7. ASSUME NEW p \in Puts, CancelPut(p) PROVE Backpressure'
  BY <1>6, <1>7 DEF CancelPut, TypeOK
<1>8. ASSUME NEW p \in Puts, OnTimeFire(p) PROVE Backpressure'
  BY <1>2, <1>8 DEF OnTimeFire
<1>9. CASE OnTimeIterate
  <2>1. CASE OnTimeNoGetters \/ OnTimeEmpty \/ OnTimeEarly \/ OnTimeUnsent
    BY <1>2, <2>1 DEF OnTimeNoGetters, OnTimeEmpty, OnTimeEarly, OnTimeUnsent,
                      PutBack
  <2>2. CASE OnTimeSend
    <3>1. Size' <= Size /\ ReleasePutters(pstate)
      BY <1>1, <2>2 DEF OnTimeSend
    <3> QED BY <3>1, ReleaseBackpressure
  <2> QED BY <1>9, <2>1, <2>2 DEF OnTimeIterate
<1>10. CASE Cleanup
  BY <1>6, <1>10 DEF Cleanup, Unreturned
<1>11. CASE Tick \/ UNCHANGED vars
  BY <1>2, <1>11 DEF Tick, vars
<1> QED BY <1>3, <1>4, <1>5, <1>7, <1>8, <1>9, <1>10, <1>11 DEF Next

\* put inserts before it waits, so the queue may exceed maxsize, but never by
\* an item whose put returned: whoever is cancelled and whatever is released.
THEOREM BackpressureHolds == Spec => []Backpressure
<1> DEFINE Inv == TypeOK /\ Backpressure
<1>1. Init => Inv
  <2>1. ASSUME Init PROVE ~Full
    <3>1. Cardinality({}) = 0
      BY FS_EmptySet
    <3>2. {v \in Values : values[v] # None} = {} /\ queue = {}
      BY <2>1 DEF Init
    <3> QED BY <3>1, <3>2, BoundsAssumption DEF Full, Size
  <2>2. ASSUME Init PROVE Backpressure
    <3>1. /\ Size \in Nat /\ Cardinality(Unreturned) \in Nat
      BY <2>2, InitTypeOK, Counts
    <3> QED BY <2>1, <2>2, <3>1, BoundsAssumption DEF Full, Backpressure, Unreturned
  <2> QED BY <2>2, InitTypeOK
<1>2. Inv /\ [Next]_vars => Inv'
  BY NextTypeOK, NextBackpressure
<1> QED BY <1>1, <1>2, PTL DEF Spec

-----------------------------------------------------------------------------
(* Readers                                                                 *)

\* A served reader leaves the deque; the others that wait stay in it.
LEMMA SendWaiters ==
  ASSUME TypeOK, WaitersQueued, NEW x, SendTo(x)
  PROVE  WaitersQueued'
<1>1. PICK i \in DOMAIN getters :
         /\ \A j \in 1..(i - 1) : gstate[getters[j]] # "waiting"
         /\ getters' = SubSeq(getters, i + 1, Len(getters))
         /\ gstate' = [gstate EXCEPT ![getters[i]] = "resolved"]
  BY DEF SendTo
<1>2. /\ getters \in Seq(Gets) /\ i \in 0..(Len(getters) + 1)
      /\ getters[i] \in Gets /\ i \in Nat /\ DOMAIN getters = 1..Len(getters)
  BY DEF TypeOK
<1>3. SUFFICES ASSUME NEW g \in Gets, gstate'[g] = "waiting"
               PROVE  \E m \in DOMAIN getters' : getters'[m] = g
  BY DEF WaitersQueued
<1>4. gstate[g] = "waiting" /\ g # getters[i]
  BY <1>1, <1>2, <1>3 DEF TypeOK
<1>5. PICK m \in DOMAIN getters : getters[m] = g
  BY <1>4 DEF WaitersQueued
<1>6. m > i
  BY <1>1, <1>2, <1>4, <1>5
<1>7. m - i \in DOMAIN getters' /\ getters'[m - i] = getters[m]
  BY <1>1, <1>2, <1>6, PopLeft
<1> QED BY <1>5, <1>7

\* A new waiter joins the deque at its end.
LEMMA WaitQueued ==
  ASSUME TypeOK, WaitersQueued, NEW g \in Gets, Wait(g)
  PROVE  WaitersQueued'
<1>1. /\ getters \in Seq(Gets) /\ getters' = Append(getters, g)
      /\ gstate' = [gstate EXCEPT ![g] = "waiting"] /\ gstate \in [Gets -> GetStates]
  BY DEF TypeOK, Wait
<1>2. /\ DOMAIN getters = 1..Len(getters) /\ Len(getters) \in Nat
      /\ DOMAIN getters' = 1..(Len(getters) + 1)
      /\ getters'[Len(getters) + 1] = g
      /\ \A i \in 1..Len(getters) : getters'[i] = getters[i]
  BY <1>1
<1> QED BY <1>1, <1>2 DEF WaitersQueued

\* With no more readable items, no fewer timers and no more waiters, an idle
\* queue stays awake.
LEMMA StillAwake ==
  ASSUME TypeOK, WakeInv, WaitersQueued', Live' \subseteq Live,
         UNCHANGED <<now, ts>>, timers \subseteq timers', sched' = sched,
         onTime' \/ ~onTime,
         \A g \in Gets : gstate'[g] = "waiting" => gstate[g] = "waiting"
  PROVE  WakeInv'
<1>1. ScheduledHasTimer'
  BY DEF WakeInv, ScheduledHasTimer
<1>2. NoLostWakeup'
  BY DEF WakeInv, NoLostWakeup
<1> QED BY <1>1, <1>2 DEF WakeInv

\* The earliest item is early and is scheduled: its timer covers every item.
LEMMA ScheduleAwake ==
  ASSUME TypeOK, WakeInv, WaitersQueued', NEW x \in queue, NEW stale,
         Pops(x, stale), ts[x] > now, PutBack(stale), Schedule(x),
         UNCHANGED <<now, ts, val>>
  PROVE  WakeInv'
<1>1. Live' = Live
  BY LiveBack
<1>2. x \in timers'
  BY DEF Schedule, Pops, WakeInv, ScheduledHasTimer
<1>3. ScheduledHasTimer'
  BY <1>1, <1>2 DEF Schedule, WakeInv, ScheduledHasTimer
<1>4. NoLostWakeup'
  BY <1>1, <1>2 DEF Pops, NoLostWakeup
<1> QED BY <1>3, <1>4 DEF WakeInv

LEMMA GetWake ==
  ASSUME TypeOK, WakeInv, NEW g \in Gets, Get(g)
  PROVE  WakeInv'
<1>1. UNCHANGED <<now, onTime, ts, val>> /\ ~onTime
  BY DEF Get
<1>2. CASE GetEmpty(g)
  <2>1. WaitersQueued' /\ Live' = {}
    BY <1>2, WaitQueued DEF GetEmpty, WakeInv, Live
  <2> QED BY <2>1 DEF WakeInv, ScheduledHasTimer, NoLostWakeup
<1>3. CASE GetEarly(g)
  <2>1. WaitersQueued'
    BY <1>3, WaitQueued DEF GetEarly, WakeInv
  <2> QED BY <1>1, <1>3, <2>1, ScheduleAwake DEF GetEarly
<1>4. CASE GetReady(g)
  <2>1. Live' \subseteq Live
    BY <1>1, <1>4, LiveRemove DEF GetReady
  <2>2. \A h \in Gets : gstate'[h] = "waiting" => gstate[h] = "waiting"
    BY <1>4 DEF GetReady, TypeOK
  <2>3. WaitersQueued'
    BY <1>4, <2>2 DEF GetReady, WakeInv, WaitersQueued
  <2> QED BY <1>1, <1>4, <2>1, <2>2, <2>3, StillAwake DEF GetReady
<1> QED BY <1>2, <1>3, <1>4 DEF Get

LEMMA PutWake ==
  ASSUME TypeOK, Untouched, WakeInv, NEW p \in Puts, Put(p)
  PROVE  WakeInv'
<1>1. /\ UNCHANGED <<now, onTime, val>> /\ ~onTime
      /\ p \notin queue /\ p \notin sched
      /\ \A q \in Puts : q # p => ts'[q] = ts[q]
  BY DEF Put, Untouched, TypeOK
<1>2. \A q \in Live : q \in Puts /\ q # p /\ ts'[q] = ts[q]
  BY <1>1 DEF Live, TypeOK
<1>3. \A r \in timers : ts'[r] = ts[r]
  BY <1>1 DEF TypeOK
<1>4. CASE PutSend(p)
  <2>1. WaitersQueued'
    BY <1>4, SendWaiters DEF PutSend, WakeInv
  <2>2. Live' = Live /\ UNCHANGED <<sched, timers>>
    BY <1>1, <1>4 DEF PutSend, Live
  <2>3. \A g \in Gets : gstate'[g] = "waiting" => gstate[g] = "waiting"
    BY <1>4 DEF PutSend, SendTo, TypeOK
  <2>4. ScheduledHasTimer'
    BY <1>1, <1>2, <2>2 DEF WakeInv, ScheduledHasTimer
  <2>5. NoLostWakeup'
    BY <1>1, <1>2, <1>3, <2>2, <2>3 DEF WakeInv, NoLostWakeup
  <2> QED BY <2>1, <2>4, <2>5 DEF WakeInv
<1>5. ASSUME Insert(p), UNCHANGED <<sched, timers, gstate>>, WaitersQueued',
             \A g \in Gets : gstate[g] # "waiting"
      PROVE  WakeInv'
  <2>1. Live' \subseteq Live \cup {p}
    BY <1>1, <1>5, LiveInsert
  <2>2. ScheduledHasTimer'
    BY <1>1, <1>2, <1>5, <2>1 DEF WakeInv, ScheduledHasTimer
  <2>3. NoLostWakeup'
    BY <1>5 DEF NoLostWakeup
  <2> QED BY <1>5, <2>2, <2>3 DEF WakeInv
<1>6. CASE PutUnsent(p)
  <2>1. \A g \in Gets : gstate[g] # "waiting"
    BY <1>6 DEF PutUnsent, SomeWaiting, WakeInv, WaitersQueued
  <2>2. WaitersQueued'
    BY <1>6, <2>1 DEF PutUnsent, WaitersQueued
  <2> QED BY <1>5, <1>6, <2>1, <2>2 DEF PutUnsent
<1>7. CASE PutStore(p)
  <2>1. \A g \in Gets : gstate[g] # "waiting"
    BY <1>7 DEF PutStore, WakeInv, WaitersQueued
  <2>2. WaitersQueued'
    BY <1>7, <2>1 DEF PutStore, WaitersQueued
  <2> QED BY <1>5, <1>7, <2>1, <2>2 DEF PutStore
<1>8. CASE PutSchedule(p)
  <2>1. Live' \subseteq Live \cup {p}
    BY <1>1, <1>8, LiveInsert DEF PutSchedule
  <2>2. timers' = timers \cup {p} /\ sched' = sched \cup {p}
    BY <1>1, <1>8 DEF PutSchedule, Schedule
  <2>3. WaitersQueued' /\ gstate' = gstate
    BY <1>8 DEF PutSchedule, WakeInv, WaitersQueued
  <2>4. ScheduledHasTimer'
    BY <1>1, <1>2, <2>1, <2>2 DEF WakeInv, ScheduledHasTimer
  <2>5. NoLostWakeup'
    <3>1. SUFFICES ASSUME \E g \in Gets : gstate[g] = "waiting", NEW q \in Live'
                   PROVE  \E r \in timers' : ts'[r] <= ts'[q]
      BY <2>3 DEF NoLostWakeup
    <3>2. CASE q = p
      <4>1. ts'[p] <= ts'[p]
        BY DEF Put, TypeOK, Time
      <4> QED BY <2>2, <3>2, <4>1
    <3>3. CASE q \in Live
      <4>1. PICK r \in timers : ts[r] <= ts[q]
        BY <1>1, <3>1, <3>3 DEF WakeInv, NoLostWakeup
      <4> QED BY <1>2, <1>3, <2>2, <3>3, <4>1
    <3> QED BY <2>1, <3>2, <3>3
  <2> QED BY <2>3, <2>4, <2>5 DEF WakeInv
<1> QED BY <1>4, <1>6, <1>7, <1>8 DEF Put

LEMMA OnTimeWake ==
  ASSUME PuttersPending, TypeOK, WakeInv, OnTimeIterate
  PROVE  WakeInv'
<1>1. UNCHANGED <<now, ts, val>> /\ onTime
  BY DEF OnTimeIterate
<1>2. CASE OnTimeNoGetters
  <2>1. \A g \in Gets : gstate'[g] # "waiting"
    BY <1>2 DEF OnTimeNoGetters, WakeInv, WaitersQueued
  <2>2. Live' = Live
    BY <1>1, <1>2 DEF OnTimeNoGetters, Live
  <2>3. ScheduledHasTimer'
    BY <1>1, <1>2, <2>2 DEF OnTimeNoGetters, WakeInv, ScheduledHasTimer
  <2> QED BY <2>1, <2>3 DEF WakeInv, WaitersQueued, NoLostWakeup
<1>3. CASE OnTimeEmpty
  <2>1. Live' = {}
    BY <1>3 DEF OnTimeEmpty, Live
  <2>2. WaitersQueued'
    BY <1>3 DEF OnTimeEmpty, WakeInv, WaitersQueued
  <2> QED BY <2>1, <2>2 DEF WakeInv, ScheduledHasTimer, NoLostWakeup
<1>4. CASE OnTimeEarly
  <2>1. WaitersQueued'
    BY <1>4 DEF OnTimeEarly, WakeInv, WaitersQueued
  <2> QED BY <1>1, <1>4, <2>1, ScheduleAwake DEF OnTimeEarly
<1>5. CASE OnTimeSend
  <2>1. PICK x \in queue, stale \in SUBSET queue :
           Remove(x, stale) /\ SendTo(x)
    BY <1>5 DEF OnTimeSend
  <2>2. WaitersQueued'
    BY <2>1, SendWaiters DEF WakeInv
  <2>3. Live' \subseteq Live
    BY <1>1, <2>1, LiveRemove
  <2>4. onTime'
    BY <1>5, NeverRaises DEF OnTimeSend
  <2>5. \A g \in Gets : gstate'[g] = "waiting" => gstate[g] = "waiting"
    BY <2>1 DEF SendTo, TypeOK
  <2> QED BY <1>1, <1>5, <2>2, <2>3, <2>4, <2>5, StillAwake DEF OnTimeSend
<1>6. CASE OnTimeUnsent
  <2>1. \A g \in Gets : gstate'[g] # "waiting"
    BY <1>6 DEF OnTimeUnsent, SomeWaiting, WakeInv, WaitersQueued
  <2>2. Live' = Live
    BY <1>1, <1>6, LiveBack DEF OnTimeUnsent
  <2>3. ScheduledHasTimer'
    BY <1>1, <1>6, <2>2 DEF OnTimeUnsent, WakeInv, ScheduledHasTimer
  <2> QED BY <2>1, <2>3 DEF WakeInv, WaitersQueued, NoLostWakeup
<1> QED BY <1>2, <1>3, <1>4, <1>5, <1>6 DEF OnTimeIterate

LEMMA NextWake ==
  ASSUME Punctual, PuttersPending, TypeOK, Untouched, WakeInv, [Next]_vars
  PROVE  WakeInv'
<1>1. ASSUME NEW g \in Gets, Get(g) PROVE WakeInv'
  BY <1>1, GetWake
<1>2. ASSUME UNCHANGED <<now, queue, values, sched, timers, onTime, ts, val>>,
             WaitersQueued',
             \A g \in Gets : gstate'[g] = "waiting" => gstate[g] = "waiting"
      PROVE  WakeInv'
  BY <1>2 DEF WakeInv, ScheduledHasTimer, NoLostWakeup, Live
<1>3. ASSUME NEW g \in Gets, ResumeGet(g) \/ OnTimeout(g) \/ CancelGet(g)
      PROVE WakeInv'
  <2>1. \A h \in Gets : gstate'[h] = "waiting" => gstate[h] = "waiting"
    BY <1>3 DEF ResumeGet, OnTimeout, CancelGet, TypeOK
  <2>2. WaitersQueued'
    BY <1>3, <2>1 DEF ResumeGet, OnTimeout, CancelGet, WakeInv, WaitersQueued
  <2> QED BY <1>2, <1>3, <2>1, <2>2 DEF ResumeGet, OnTimeout, CancelGet
<1>4. ASSUME NEW p \in Puts, Put(p) PROVE WakeInv'
  BY <1>4, PutWake
<1>5. ASSUME NEW p \in Puts, CancelPut(p) PROVE WakeInv'
  BY <1>2, <1>5 DEF CancelPut, WakeInv, WaitersQueued
<1>6. ASSUME NEW p \in Puts, OnTimeFire(p) PROVE WakeInv'
  <2>1. ts[p] <= now /\ now \in Int /\ ts[p] \in Int
    BY <1>6 DEF OnTimeFire, Punctual, TypeOK, Time
  <2>2. WaitersQueued' /\ NoLostWakeup'
    BY <1>6 DEF OnTimeFire, WakeInv, WaitersQueued, NoLostWakeup
  <2>3. ScheduledHasTimer'
    BY <1>6, <2>1 DEF OnTimeFire, WakeInv, ScheduledHasTimer, Live
  <2> QED BY <2>2, <2>3 DEF WakeInv
<1>7. CASE OnTimeIterate
  BY <1>7, OnTimeWake
<1>8. CASE Cleanup
  <2>1. \A g \in Gets : gstate'[g] # "waiting"
    BY <1>8 DEF Cleanup
  <2> QED BY <1>2, <1>8, <2>1 DEF Cleanup, WaitersQueued
<1>9. CASE Tick
  <2>1. \A x \in Live : ts[x] > now' => ts[x] > now
    BY <1>9 DEF Tick, TypeOK, Time, Live
  <2> QED BY <1>9, <2>1 DEF Tick, WakeInv, WaitersQueued, ScheduledHasTimer,
                         NoLostWakeup, Live
<1>10. CASE UNCHANGED vars
  BY <1>2, <1>10 DEF vars, WakeInv, WaitersQueued
<1> QED BY <1>1, <1>3, <1>4, <1>5, <1>6, <1>7, <1>8, <1>9, <1>10 DEF Next

\* The invariant under punctual timers and patient writers.
QueueInv == TypeOK /\ Untouched /\ WritersInv /\ WakeInv

LEMMA InitQueueInv ==
  ASSUME Init
  PROVE  QueueInv
<1>1. WritersInv
  BY DEF Init, WritersInv, WritersQueued, PuttersPending, BlockedOnlyWhenFull
<1>2. WakeInv
  BY DEF Init, WakeInv, WaitersQueued, ScheduledHasTimer, NoLostWakeup, Live
<1>3. Untouched
  BY PutsAssumption DEF Init, Untouched
<1> QED BY <1>1, <1>2, <1>3, InitTypeOK DEF QueueInv

LEMMA NextQueueInv ==
  ASSUME Punctual, PatientWriters, QueueInv, [Next]_vars
  PROVE  QueueInv'
<1>1. PuttersPending
  BY DEF QueueInv, WritersInv
<1> QED BY <1>1, NextTypeOK, NextUntouched, NextWriters, NextWake DEF QueueInv

\* With punctual timers and writers that are not cancelled, no reader waits
\* without a pending timer that covers every item it could get.
THEOREM NoLostWakeupHolds ==
  Punctual /\ PatientWriters => (Spec => []NoLostWakeup)
<1> SUFFICES ASSUME Punctual, PatientWriters PROVE Spec => []NoLostWakeup
  OBVIOUS
<1>1. Init => QueueInv
  BY InitQueueInv
<1>2. QueueInv /\ [Next]_vars => QueueInv'
  BY NextQueueInv
<1>3. QueueInv => NoLostWakeup
  BY DEF QueueInv, WakeInv
<1> QED BY <1>1, <1>2, <1>3, PTL DEF Spec

-----------------------------------------------------------------------------
(* Who gets what                                                           *)

\* get and _on_time hand over the earliest item there is.
LEMMA EarliestFirst ==
  ASSUME TypeOK, NEW x \in queue, NEW stale, Pops(x, stale), Remove(x, stale),
         UNCHANGED <<ts, val>>
  PROVE  \A q \in Live' : ~(ts'[q] < ts'[x])
<1>1. Live' \subseteq Live
  BY LiveRemove
<1>2. \A q \in Live : ts[x] <= ts[q] /\ q \in Puts
  BY DEF Pops, Live, TypeOK
<1>3. x \in Puts /\ \A q \in Puts : ts[q] \in Int
  BY DEF TypeOK, Time
<1> QED BY <1>1, <1>2, <1>3

\* One step: an item is overtaken by a put only, and then a timer covers it.
LEMMA NextOvertakes ==
  ASSUME QueueInv, [Next]_vars, NEW g \in Gets, got'[g] # got[g], got'[g] # None,
         NEW q \in Live', ts'[q] < ts'[got'[g]]
  PROVE  \E r \in timers' : ts'[r] <= ts'[q]
<1>1. TypeOK /\ Untouched /\ NoLostWakeup
  BY DEF QueueInv, WakeInv
<1>2. ASSUME NEW h \in Gets, Get(h) PROVE FALSE
  <2>1. GetReady(h) /\ UNCHANGED <<ts, val>>
    BY <1>2 DEF Get, GetEmpty, GetEarly, Wait
  <2>2. PICK x \in queue, stale \in SUBSET queue :
           /\ Pops(x, stale) /\ Remove(x, stale)
           /\ got' = [got EXCEPT ![h] = IF ReleaseRaises THEN None ELSE x]
    BY <2>1 DEF GetReady
  <2>3. got'[g] = x
    BY <1>1, <2>2 DEF TypeOK
  <2> QED BY <1>1, <2>1, <2>2, <2>3, EarliestFirst
<1>3. CASE OnTimeIterate
  <2>1. OnTimeSend /\ UNCHANGED <<ts, val>>
    BY <1>3 DEF OnTimeIterate, OnTimeNoGetters, OnTimeEmpty, OnTimeEarly,
                OnTimeUnsent
  <2>2. PICK x \in queue, stale \in SUBSET queue :
           Pops(x, stale) /\ Remove(x, stale) /\ SendTo(x)
    BY <2>1 DEF OnTimeSend
  <2>3. got'[g] = x
    BY <1>1, <2>2 DEF SendTo, TypeOK
  <2> QED BY <1>1, <2>1, <2>2, <2>3, EarliestFirst
<1>4. ASSUME NEW p \in Puts, Put(p)
      PROVE  \E r \in timers' : ts'[r] <= ts'[q]
  <2>1. PutSend(p)
    BY <1>4 DEF Put, PutUnsent, PutSchedule, PutStore
  <2>2. /\ Live' = Live /\ timers' = timers
        /\ ~onTime /\ \E h \in Gets : gstate[h] = "waiting"
    BY <1>1, <1>4, <2>1 DEF Put, PutSend, SomeWaiting, Live, TypeOK
  <2>3. PICK r \in timers : ts[r] <= ts[q]
    BY <1>1, <2>2 DEF NoLostWakeup
  <2>4. p \notin queue /\ p \notin sched
        /\ \A y \in Puts : y # p => ts'[y] = ts[y]
    BY <1>1, <1>4 DEF Put, Untouched, TypeOK
  <2>5. ts'[r] = ts[r] /\ ts'[q] = ts[q]
    BY <1>1, <2>2, <2>4 DEF Live, TypeOK
  <2> QED BY <2>2, <2>3, <2>5
<1>5. ASSUME NEW h \in Gets, ResumeGet(h) \/ OnTimeout(h) \/ CancelGet(h)
      PROVE  FALSE
  BY <1>5 DEF ResumeGet, OnTimeout, CancelGet
<1>6. ASSUME NEW p \in Puts, CancelPut(p) \/ OnTimeFire(p) PROVE FALSE
  BY <1>6 DEF CancelPut, OnTimeFire
<1>7. CASE Cleanup \/ Tick \/ UNCHANGED vars
  BY <1>7 DEF Cleanup, Tick, vars
<1> QED BY <1>2, <1>3, <1>4, <1>5, <1>6, <1>7 DEF Next

\* An item handed over ahead of an earlier one went straight from put to its
\* reader, while the timer of the earlier one, or of one before it, is pending.
THEOREM OvertakesOnlyScheduledHolds ==
  Punctual /\ PatientWriters => (Spec => OvertakesOnlyScheduled)
<1> SUFFICES ASSUME Punctual, PatientWriters PROVE Spec => OvertakesOnlyScheduled
  OBVIOUS
<1> DEFINE Step == \A g \in Gets : got'[g] # got[g] /\ got'[g] # None =>
                     \A q \in Live' : ts'[q] < ts'[got'[g]] =>
                       \E r \in timers' : ts'[r] <= ts'[q]
<1>1. Init => QueueInv
  BY InitQueueInv
<1>2. QueueInv /\ [Next]_vars => QueueInv'
  BY NextQueueInv
<1>3. QueueInv /\ [Next]_vars => [Step]_vars
  BY NextOvertakes
<1> QED BY <1>1, <1>2, <1>3, PTL DEF Spec, OvertakesOnlyScheduled

-----------------------------------------------------------------------------
(* The queue implements TimedBag                                           *)

\* A reader that was not served has nothing in its hands.
EmptyHanded ==
  \A g \in Gets : gstate[g] \in {"new", "waiting"} => got[g] = None

LEMMA NextEmptyHanded ==
  ASSUME TypeOK, EmptyHanded, [Next]_vars
  PROVE  EmptyHanded'
<1>1. ASSUME NEW x, SendTo(x) PROVE EmptyHanded'
  BY <1>1 DEF SendTo, EmptyHanded, TypeOK
<1>2. ASSUME got' = got,
             \A g \in Gets : gstate'[g] \in {"new", "waiting"}
                               => gstate[g] \in {"new", "waiting"}
      PROVE  EmptyHanded'
  BY <1>2 DEF EmptyHanded
<1>3. ASSUME NEW g \in Gets, Get(g) PROVE EmptyHanded'
  <2>1. CASE GetEmpty(g) \/ GetEarly(g)
    BY <1>2, <1>3, <2>1 DEF Get, GetEmpty, GetEarly, Wait, TypeOK
  <2>2. CASE GetReady(g)
    BY <2>2 DEF GetReady, EmptyHanded, TypeOK
  <2> QED BY <1>3, <2>1, <2>2 DEF Get
<1>4. ASSUME NEW p \in Puts, Put(p) PROVE EmptyHanded'
  BY <1>1, <1>2, <1>4 DEF Put, PutSend, PutUnsent, PutSchedule, PutStore
<1>5. ASSUME NEW g \in Gets, ResumeGet(g) \/ OnTimeout(g) \/ CancelGet(g)
      PROVE EmptyHanded'
  BY <1>2, <1>5 DEF ResumeGet, OnTimeout, CancelGet, TypeOK
<1>6. ASSUME NEW p \in Puts, CancelPut(p) \/ OnTimeFire(p) PROVE EmptyHanded'
  BY <1>2, <1>6 DEF CancelPut, OnTimeFire
<1>7. CASE OnTimeIterate
  BY <1>1, <1>2, <1>7 DEF OnTimeIterate, OnTimeNoGetters, OnTimeEmpty,
                          OnTimeEarly, OnTimeSend, OnTimeUnsent
<1>8. CASE Cleanup \/ Tick \/ UNCHANGED vars
  BY <1>2, <1>8 DEF Cleanup, Tick, vars
<1> QED BY <1>3, <1>4, <1>5, <1>6, <1>7, <1>8 DEF Next

\* What is popped for a reader leaves the bag, and nothing else does.
LEMMA LiveTaken ==
  ASSUME TypeOK, NEW x \in queue, NEW stale, Pops(x, stale), Remove(x, stale),
         UNCHANGED val
  PROVE  Live' = Live \ {x}
<1>1. CASE ~Unique
  BY <1>1 DEF Pops, Remove, Live
<1>2. CASE Unique
  <2>1. x \in Puts /\ x # None /\ values[val[x]] = x
    BY <1>2, PutsAssumption DEF Pops, Live, TypeOK
  <2>2. /\ queue' = queue \ (stale \cup {x})
        /\ values' = [values EXCEPT ![val[x]] = None]
    BY <1>2 DEF Remove
  <2>3. \A q \in queue : q \in stale => values[val[q]] # q
    BY <1>2 DEF Pops, Live
  <2>4. \A q \in queue : q # x =>
          (values'[val[q]] = q <=> values[val[q]] = q)
    <3>1. SUFFICES ASSUME NEW q \in queue, q # x
                   PROVE  values'[val[q]] = q <=> values[val[q]] = q
      OBVIOUS
    <3>2. q \in Puts /\ q # None /\ val[q] \in Values
      BY PutsAssumption DEF TypeOK
    <3>3. CASE val[q] = val[x]
      BY <2>1, <2>2, <3>1, <3>2, <3>3 DEF TypeOK
    <3>4. CASE val[q] # val[x]
      BY <2>2, <3>2, <3>4 DEF TypeOK
    <3> QED BY <3>3, <3>4
  <2> QED BY <1>2, <2>2, <2>3, <2>4 DEF Live
<1> QED BY <1>1, <1>2

\* What is put joins the bag, in the place of an item with its value.
LEMMA LiveOffered ==
  ASSUME TypeOK, NEW p \in Puts, p \notin queue, Insert(p), UNCHANGED val
  PROVE  Live' = (Live \ (IF Unique THEN {q \in Live : val[q] = val[p]}
                          ELSE {})) \cup {p}
<1>1. CASE ~Unique
  BY <1>1 DEF Insert, Live
<1>2. CASE Unique
  <2>1. /\ queue' = queue \cup {p}
        /\ values' = [values EXCEPT ![val[p]] = p]
        /\ val[p] \in Values /\ values'[val[p]] = p
    BY <1>2 DEF Insert, TypeOK
  <2>2. \A q \in queue : values'[val[q]] = q
          <=> values[val[q]] = q /\ val[q] # val[p]
    <3>1. SUFFICES ASSUME NEW q \in queue
                   PROVE  values'[val[q]] = q
                            <=> values[val[q]] = q /\ val[q] # val[p]
      OBVIOUS
    <3>2. q # p /\ val[q] \in Values
      BY DEF TypeOK
    <3> QED BY <2>1, <3>2 DEF TypeOK
  <2> QED BY <1>2, <2>1, <2>2 DEF Live
<1> QED BY <1>1, <1>2

Offered == {p \in Puts : pstate[p] # "new"}

\* Steps that neither fill the bag nor empty it stutter.
LEMMA Stutters ==
  ASSUME Live' = Live, Offered' = Offered, UNCHANGED <<now, got, ts, val>>
  PROVE  UNCHANGED Abstract!bagVars
BY DEF Abstract!bagVars, Offered

\* Releasing writers offers nothing.
LEMMA ReleaseOffers ==
  ASSUME TypeOK, NEW st \in [Puts -> PutStates], ReleasePutters(st),
         \A p \in Puts : pstate[p] = "blocked" => st[p] # "new"
  PROVE  Offered' = {p \in Puts : st[p] # "new"}
<1>1. CASE Full'
  BY <1>1 DEF ReleasePutters, Offered
<1>2. CASE ~Full'
  <2>1. PICK k \in 1..(Len(putters) + 1) :
           /\ \A i \in 1..(k - 1) : pstate[putters[i]] = "blocked"
           /\ pstate' = [p \in Puts |->
                           IF \E i \in 1..(k - 1) : putters[i] = p
                           THEN "returned" ELSE st[p]]
    BY <1>2 DEF ReleasePutters
  <2>2. \A p \in Puts : pstate'[p] # "new" <=> st[p] # "new"
    BY <2>1
  <2> QED BY <2>2 DEF Offered
<1> QED BY <1>1, <1>2

\* A get takes an item or waits.
LEMMA GetImplements ==
  ASSUME TypeOK, PuttersPending, EmptyHanded, NEW g \in Gets, Get(g)
  PROVE  [Abstract!Next]_(Abstract!bagVars)
<1>1. UNCHANGED <<now, ts, val>> /\ got[g] = None
  BY DEF Get, EmptyHanded
<1>2. CASE GetEmpty(g)
  <2>1. Live' = Live /\ Offered' = Offered /\ UNCHANGED got
    BY <1>2 DEF GetEmpty, Wait, Live, Offered
  <2> QED BY <1>1, <2>1, Stutters
<1>3. CASE GetEarly(g)
  <2>1. Live' = Live
    BY <1>1, <1>3, LiveBack DEF GetEarly
  <2>2. Offered' = Offered /\ UNCHANGED got
    BY <1>3 DEF GetEarly, Wait, Offered
  <2> QED BY <1>1, <2>1, <2>2, Stutters
<1>4. CASE GetReady(g)
  <2>1. PICK x \in queue, stale \in SUBSET queue :
           /\ Pops(x, stale) /\ ts[x] <= now /\ Remove(x, stale)
           /\ got' = [got EXCEPT ![g] = IF ReleaseRaises THEN None ELSE x]
    BY <1>4 DEF GetReady
  <2>2. got' = [got EXCEPT ![g] = x]
    BY <2>1, NeverRaises
  <2>3. Live' = Live \ {x} /\ x \in Live /\ x \in Puts
    BY <1>1, <2>1, LiveTaken DEF Pops, TypeOK
  <2>4. Offered' = Offered
    BY <1>4, ReleaseOffers DEF GetReady, Offered, TypeOK
  <2>5. Abstract!Take(g, x)
    BY <1>1, <2>1, <2>2, <2>3, <2>4 DEF Abstract!Take, Offered
  <2> QED BY <2>3, <2>5 DEF Abstract!Next
<1> QED BY <1>2, <1>3, <1>4 DEF Get

\* A put passes its item to a reader or offers it to all.
LEMMA PutImplements ==
  ASSUME TypeOK, Untouched, EmptyHanded, NEW p \in Puts, Put(p)
  PROVE  [Abstract!Next]_(Abstract!bagVars)
<1>1. /\ pstate[p] = "new" /\ UNCHANGED <<now, val>> /\ p \notin queue
      /\ \E t \in 0..MaxTime : ts' = [ts EXCEPT ![p] = t]
  BY DEF Put, Untouched, Time
<1>2. CASE PutSend(p)
  <2> DEFINE st == [pstate EXCEPT ![p] = IF ReleaseRaises THEN "failed"
                                         ELSE "returned"]
  <2>1. /\ st \in [Puts -> PutStates]
        /\ \A q \in Puts : pstate[q] = "blocked" => st[q] # "new"
        /\ {q \in Puts : st[q] # "new"} = Offered \cup {p}
    BY DEF TypeOK, PutStates, Offered
  <2>2. ReleasePutters(st) /\ UNCHANGED <<queue, values>> /\ ts'[p] < now
    BY <1>2 DEF PutSend
  <2> HIDE DEF st
  <2>3. Offered' = Offered \cup {p}
    BY <2>1, <2>2, ReleaseOffers
  <2>4. PICK i \in DOMAIN getters :
           /\ gstate[getters[i]] = "waiting"
           /\ got' = [got EXCEPT ![getters[i]] = p]
    BY <1>2 DEF PutSend, SendTo
  <2>5. getters[i] \in Gets /\ got[getters[i]] = None
    BY <2>4 DEF EmptyHanded, TypeOK
  <2>6. ts'[p] <= now
    <3>1. ts'[p] \in Int /\ now \in Int
      BY <1>1 DEF TypeOK, Time
    <3> QED BY <2>2, <3>1
  <2>7. Live' = Live
    BY <1>1, <2>2 DEF Live
  <2>8. Abstract!Timestamped(p)
    BY <1>1, <2>3 DEF Abstract!Timestamped, Offered
  <2>9. Abstract!Pass(getters[i], p)
    BY <1>1, <2>4, <2>5, <2>6, <2>7, <2>8 DEF Abstract!Pass
  <2> QED BY <2>5, <2>9 DEF Abstract!Next
<1>3. ASSUME Insert(p), BlockWhenFull(p), UNCHANGED got
      PROVE  [Abstract!Next]_(Abstract!bagVars)
  <2>1. Live' = (Live \ (IF Unique THEN {q \in Live : val[q] = val[p]}
                         ELSE {})) \cup {p}
    BY <1>1, <1>3, LiveOffered
  <2>2. Offered' = Offered \cup {p}
    BY <1>3 DEF BlockWhenFull, Offered, TypeOK
  <2>3. Abstract!Timestamped(p)
    BY <1>1, <2>2 DEF Abstract!Timestamped, Offered
  <2>4. Abstract!Offer(p)
    BY <1>1, <1>3, <2>1, <2>3 DEF Abstract!Offer, Abstract!Replaced
  <2> QED BY <2>4 DEF Abstract!Next
<1> QED BY <1>2, <1>3 DEF Put, PutUnsent, PutSchedule, PutStore

\* A turn of _on_time takes an item for a reader or changes nothing.
LEMMA OnTimeImplements ==
  ASSUME TypeOK, EmptyHanded, OnTimeIterate
  PROVE  [Abstract!Next]_(Abstract!bagVars)
<1>1. UNCHANGED <<now, ts, val>>
  BY DEF OnTimeIterate
<1>2. CASE OnTimeNoGetters \/ OnTimeEmpty
  <2>1. Live' = Live /\ Offered' = Offered /\ UNCHANGED got
    BY <1>1, <1>2 DEF OnTimeNoGetters, OnTimeEmpty, Live, Offered
  <2> QED BY <1>1, <2>1, Stutters
<1>3. CASE OnTimeEarly \/ OnTimeUnsent
  <2>1. Live' = Live
    BY <1>1, <1>3, LiveBack DEF OnTimeEarly, OnTimeUnsent
  <2>2. Offered' = Offered /\ UNCHANGED got
    BY <1>3 DEF OnTimeEarly, OnTimeUnsent, Offered
  <2> QED BY <1>1, <2>1, <2>2, Stutters
<1>4. CASE OnTimeSend
  <2>1. PICK x \in queue, stale \in SUBSET queue :
           Pops(x, stale) /\ ts[x] <= now /\ Remove(x, stale) /\ SendTo(x)
    BY <1>4 DEF OnTimeSend
  <2>2. PICK i \in DOMAIN getters :
           /\ gstate[getters[i]] = "waiting"
           /\ got' = [got EXCEPT ![getters[i]] = x]
    BY <2>1 DEF SendTo
  <2>3. getters[i] \in Gets /\ got[getters[i]] = None
    BY <2>2 DEF EmptyHanded, TypeOK
  <2>4. Live' = Live \ {x} /\ x \in Live /\ x \in Puts
    BY <1>1, <2>1, LiveTaken DEF Pops, TypeOK
  <2>5. Offered' = Offered
    BY <1>4, ReleaseOffers DEF OnTimeSend, Offered, TypeOK
  <2>6. Abstract!Take(getters[i], x)
    BY <1>1, <2>1, <2>2, <2>3, <2>4, <2>5 DEF Abstract!Take, Offered
  <2> QED BY <2>3, <2>4, <2>6 DEF Abstract!Next
<1> QED BY <1>2, <1>3, <1>4 DEF OnTimeIterate

LEMMA NextImplements ==
  ASSUME TypeOK, Untouched, PuttersPending, EmptyHanded, [Next]_vars
  PROVE  [Abstract!Next]_(Abstract!bagVars)
<1>1. ASSUME NEW g \in Gets, Get(g) PROVE [Abstract!Next]_(Abstract!bagVars)
  BY <1>1, GetImplements
<1>2. ASSUME NEW p \in Puts, Put(p) PROVE [Abstract!Next]_(Abstract!bagVars)
  BY <1>2, PutImplements
<1>3. CASE OnTimeIterate
  BY <1>3, OnTimeImplements
<1>4. ASSUME UNCHANGED <<now, queue, values, got, ts, val>>,
             \A p \in Puts : pstate'[p] # "new" <=> pstate[p] # "new"
      PROVE  [Abstract!Next]_(Abstract!bagVars)
  <2>1. Live' = Live /\ Offered' = Offered
    BY <1>4 DEF Live, Offered
  <2> QED BY <1>4, <2>1, Stutters
<1>5. ASSUME NEW g \in Gets, ResumeGet(g) \/ OnTimeout(g) \/ CancelGet(g)
      PROVE  [Abstract!Next]_(Abstract!bagVars)
  BY <1>4, <1>5 DEF ResumeGet, OnTimeout, CancelGet
<1>6. ASSUME NEW p \in Puts, CancelPut(p) \/ OnTimeFire(p)
      PROVE  [Abstract!Next]_(Abstract!bagVars)
  BY <1>4, <1>6 DEF CancelPut, OnTimeFire, TypeOK
<1>7. CASE Cleanup
  BY <1>4, <1>7 DEF Cleanup
<1>8. CASE Tick
  <2>1. Live' = Live /\ Offered' = Offered
    BY <1>8 DEF Tick, Live, Offered
  <2>2. Abstract!Tick
    BY <1>8, <2>1 DEF Tick, Abstract!Tick, Offered
  <2> QED BY <2>2 DEF Abstract!Next
<1>9. CASE UNCHANGED vars
  BY <1>4, <1>9 DEF vars
<1> QED BY <1>1, <1>2, <1>3, <1>5, <1>6, <1>7, <1>8, <1>9 DEF Next

\* Where no blocked writer is cancelled, the queue with its timers, deques and
\* blocked writers does what TimedBag promises, however early its timers run:
\* every item is handed over at most once, to a reader that has none, when it
\* is due, and is not lost before.
THEOREM QueueImplementsTimedBag ==
  PatientWriters => (Spec => ImplementsTimedBag)
<1> SUFFICES ASSUME PatientWriters PROVE Spec => ImplementsTimedBag
  OBVIOUS
<1> DEFINE Inv == TypeOK /\ Untouched /\ WritersInv /\ EmptyHanded
<1>1. Init => Inv
  <2>1. ASSUME Init PROVE EmptyHanded
    BY <2>1 DEF Init, EmptyHanded
  <2> QED BY <2>1, InitQueueInv DEF QueueInv
<1>2. Inv /\ [Next]_vars => Inv'
  BY NextTypeOK, NextUntouched, NextWriters, NextEmptyHanded
<1>3. Init => Abstract!Init
  <2>1. ASSUME Init PROVE Live = {} /\ {p \in Puts : pstate[p] # "new"} = {}
    BY <2>1 DEF Init, Live
  <2> QED BY <2>1 DEF Init, Abstract!Init
<1>4. Inv /\ [Next]_vars => [Abstract!Next]_(Abstract!bagVars)
  <2>1. WritersInv => PuttersPending
    BY DEF WritersInv
  <2> QED BY <2>1, NextImplements
<1> QED BY <1>1, <1>2, <1>3, <1>4, PTL DEF Spec, ImplementsTimedBag, Abstract!Spec
=============================================================================
