------------------------ MODULE WebConnectionProofs -------------------------
(***************************************************************************)
(* Theorems about WebConnection, for any number of requests, any bodies,   *)
(* and whatever the parser rejects: it is the pausing of the transport that*)
(* keeps the handler tasks of one connection apart.                        *)
(***************************************************************************)
EXTENDS WebConnection, TLAPS

-----------------------------------------------------------------------------
(* The invariant                                                           *)

Results == Requests \cup {Pending, Lost}
Unanswered == {"working", "streaming"}

Shape ==
  /\ req \in 1..(Last + 1) /\ part \in Nat /\ sender \in Requests \cup {0}
  /\ feeding \in BOOLEAN /\ broken \in BOOLEAN /\ paused \in BOOLEAN
  /\ eof \in BOOLEAN /\ lost \in BOOLEAN
  /\ future \in Seq(Results) /\ future # <<>>
  /\ task \in [Requests -> TaskStates]
  /\ awaits \in [Requests -> Nat]
  /\ body \in [Requests -> Results]
  /\ started \in [Requests -> BOOLEAN]
  /\ out \in Seq(Requests)
  /\ spanned \in BOOLEAN /\ early \in BOOLEAN /\ late \in BOOLEAN
  /\ upgraded \in BOOLEAN /\ (upgraded => eof)

\* _sender is that of the last request that began, and _body_future has, if any,
\* the body of that one.
Current ==
  /\ sender = IF part = 0 THEN req - 1 ELSE req
  /\ broken => sender # 0
  /\ BodyFuture \in {Pending, sender, Lost}
  /\ req > 1 /\ part = 0 => BodyFuture # Pending

\* A task that has not answered is that of the request in the parser, or of the
\* one before while nothing is read.
OneTask ==
  \A r \in Requests : task[r] \in Unanswered =>
    \/ req = r /\ part >= 2
    \/ req = r + 1 /\ part = 0 /\ (paused \/ broken)

\* There is one body future for each request begun, and it has no other body; a
\* handler asks after its request began.
Futures ==
  /\ feeding => ~lost
  /\ Len(future) = IF sender = 0 THEN 1 ELSE sender
  /\ sender = 0 => lost \/ BodyFuture = Pending
  /\ \A i \in DOMAIN future : future[i] \in {Pending, i, Lost}
  /\ \A r \in Requests :
       /\ task[r] # "none" => r <= sender
       /\ awaits[r] # 0 => awaits[r] \in r..Len(future)
       /\ body[r] \in {Pending, Lost} \cup r..Last

\* A handler that asks before it answers, asks for the body of its own request.
OwnFuture ==
  \A r \in Requests \ tardy :
    /\ awaits[r] \in {0, r}
    /\ body[r] \in {Pending, r, Lost}

\* Heads are written once, up to that of the last request that began.
HeadsSoFar ==
  /\ \A i \in DOMAIN out : out[i] <= sender /\ started[out[i]]
  /\ \A i, j \in 1..Len(out) : i < j => out[i] < out[j]

InOrder == HeadsSoFar /\ (upgraded \/ (OneTask /\ OwnFuture))

\* What resumes a paused transport is still to come.
ResumeToCome ==
  /\ \A r \in Requests : Answered(r) => r < req \/ early
  /\ paused => early \/ eof \/ lost \/ \E r \in 1..(req - 1) : ~Answered(r)

ConnectionInv ==
  Shape /\ Current /\ Futures /\ (spanned \/ late \/ InOrder) /\ ResumeToCome

-----------------------------------------------------------------------------
(* What the parts of a step do                                             *)

LEMMA RequestsAre ==
  /\ Requests \subseteq Nat \ {0} /\ 0 \notin Requests
  /\ Pending \notin Requests /\ Lost \notin Requests /\ Pending # Lost
  /\ \A r \in Requests : r <= Last
  /\ Last \in Nat
BY WebAssumption DEF Requests

LEMMA SettleEffect ==
  ASSUME Shape, Current, Futures, NEW v \in {Lost, sender}, sender # 0 \/ v = Lost,
         Settle(v), sender' = sender
  PROVE  /\ future' \in Seq(Results) /\ future' # <<>> /\ Len(future') = Len(future)
         /\ BodyFuture' = IF BodyFuture = Pending THEN v ELSE BodyFuture
         /\ \A i \in DOMAIN future' : future'[i] \in {Pending, i, Lost}
<1>0. v \in Results /\ future \in Seq(Results) /\ future # <<>>
  BY DEF Shape, Results
<1>1. Len(future) \in Nat /\ Len(future) # 0 /\ Len(future) \in DOMAIN future
  BY <1>0
<1>2. BodyFuture \in Results
  BY <1>0, <1>1 DEF BodyFuture
<1>3. PICK w \in Results : /\ w = IF BodyFuture = Pending THEN v ELSE BodyFuture
                           /\ future' = [future EXCEPT ![Len(future)] = w]
  BY <1>0, <1>2 DEF Settle
<1> HIDE DEF Results
<1>4. future' \in Seq(Results) /\ Len(future') = Len(future)
  BY <1>0, <1>3
<1>5. future'[Len(future)] = w
  BY <1>0, <1>1, <1>3
<1>6. \A i \in DOMAIN future' : future'[i] \in {Pending, i, Lost}
  <2>1. w \in {Pending, Len(future), Lost}
    BY <1>1, <1>3 DEF Futures, BodyFuture
  <2>2. /\ DOMAIN future' = DOMAIN future
        /\ \A i \in DOMAIN future \ {Len(future)} : future'[i] = future[i]
    BY <1>0, <1>3
  <2> QED BY <1>5, <2>1, <2>2 DEF Futures
<1> QED BY <1>0, <1>1, <1>3, <1>4, <1>5, <1>6 DEF BodyFuture

\* A head is written for a request that has none, before write_eof.
HeadOf(r) ==
  /\ started' = [started EXCEPT ![r] = TRUE]
  /\ out' = out \/ (out' = Append(out, r) /\ ~started[r] /\ ~eof)

\* The last message of an answer resumes reading, unless it closes.
LEMMA SendEffect ==
  ASSUME Shape, NEW r \in Requests, NEW data \in BOOLEAN, NEW more \in BOOLEAN,
         Send(r, data, more)
  PROVE  /\ HeadOf(r) /\ eof' \in BOOLEAN /\ paused' \in BOOLEAN
         /\ paused' => paused
         /\ more => paused' = paused /\ eof' = eof
         /\ ~more /\ ~eof => eof' \/ ~paused'
         /\ eof => eof'
<1>1. started[r] \in BOOLEAN /\ eof \in BOOLEAN
  BY DEF Shape
<1> QED BY <1>1 DEF Send, HeadOf, Raises, Shape

LEMMA HeadShape ==
  ASSUME Shape, NEW r \in Requests, HeadOf(r)
  PROVE  /\ started' \in [Requests -> BOOLEAN] /\ out' \in Seq(Requests)
         /\ \A q \in Requests : started[q] => started'[q]
         /\ started'[r]
<1>1. out' = out \/ out' = Append(out, r)
  BY DEF HeadOf
<1>2. out \in Seq(Requests)
  BY DEF Shape
<1> HIDE DEF Requests
<1>3. out' \in Seq(Requests)
  BY <1>1, <1>2
<1> QED BY <1>3 DEF HeadOf, Shape

\* A 500 for a request that the parser gave up closes the connection.
LEMMA FeedRaisesEffect ==
  ASSUME ConnectionInv, sender \in Requests, FeedRaises
  PROVE  /\ ~feeding' /\ HeadOf(sender) /\ eof'
         /\ paused' \in BOOLEAN /\ lost' \in BOOLEAN /\ eof' \in BOOLEAN
         /\ feeding' \in BOOLEAN
         /\ future' \in Seq(Results) /\ future' # <<>> /\ Len(future') = Len(future)
         /\ BodyFuture' = BodyFuture \/ BodyFuture' = Lost
         /\ \A i \in DOMAIN future' : future'[i] \in {Pending, i, Lost}
         /\ UNCHANGED <<req, part, sender, taskVars, spanned, early, late, tardy>>
<1> USE DEF ConnectionInv
<1>0. UNCHANGED <<req, part, sender, taskVars, spanned, early, late, tardy>>
  BY DEF FeedRaises
<1>1. /\ future' \in Seq(Results) /\ future' # <<>> /\ Len(future') = Len(future)
      /\ BodyFuture' = BodyFuture \/ BodyFuture' = Lost
      /\ \A i \in DOMAIN future' : future'[i] \in {Pending, i, Lost}
  <2>1. CASE Raises(sender, FALSE)
    <3>1. Settle(Lost)
      BY <2>1 DEF FeedRaises
    <3> QED BY <1>0, <3>1, SettleEffect
  <2>2. CASE ~Raises(sender, FALSE)
    <3>1. future' = future
      BY <2>2 DEF FeedRaises
    <3> QED BY <3>1 DEF Shape, BodyFuture, Futures
  <2> QED BY <2>1, <2>2
<1>2. HeadOf(sender)
  BY DEF FeedRaises, HeadOf, Shape
<1>3. started[sender] \in BOOLEAN /\ Raises(sender, FALSE) \in BOOLEAN
  BY DEF Shape, Raises
<1> QED BY <1>0, <1>1, <1>2, <1>3 DEF FeedRaises, Shape

\* Only one task has not answered.
LEMMA TheTask ==
  ASSUME Shape, Current, OneTask, NEW r \in Requests, task[r] \in Unanswered
  PROVE  /\ r = sender
         /\ \A q \in Requests \ {r} : task[q] \notin Unanswered
<1>1. \A q \in Requests : task[q] \in Unanswered => q = sender
  BY RequestsAre DEF Shape, Current, OneTask
<1> QED BY <1>1

\* Heads stay in order when that task writes its own, or after write_eof.
LEMMA HeadKeeps ==
  ASSUME Shape, HeadsSoFar, NEW r \in Requests, HeadOf(r), r = sender \/ eof,
         sender' = sender
  PROVE  HeadsSoFar'
<1>1. /\ started' \in [Requests -> BOOLEAN] /\ out' \in Seq(Requests)
      /\ \A q \in Requests : started[q] => started'[q]
      /\ started'[r]
  BY HeadShape
<1>2. \A i \in DOMAIN out : out[i] \in Requests /\ out[i] \in Nat
  <2>1. out \in Seq(Requests)
    BY DEF Shape
  <2>2. \A i \in DOMAIN out : out[i] \in Requests
    BY <2>1
  <2> QED BY <2>2, RequestsAre
<1>3. CASE out' = out
  BY <1>1, <1>2, <1>3 DEF HeadsSoFar
<1>4. CASE out' = Append(out, r) /\ ~started[r] /\ ~eof
  <2>1. r = sender /\ \A i \in DOMAIN out : out[i] < sender
    BY <1>2, <1>4, RequestsAre DEF HeadsSoFar
  <2>2. /\ Len(out') = Len(out) + 1 /\ Len(out) \in Nat
        /\ DOMAIN out' = 1..Len(out') /\ DOMAIN out = 1..Len(out)
        /\ \A i \in DOMAIN out : out'[i] = out[i]
        /\ out'[Len(out')] = sender
    BY <1>4, <2>1 DEF Shape
  <2>3. \A i \in DOMAIN out' : i \in DOMAIN out \/ i = Len(out')
    BY <2>2
  <2>4. \A i \in DOMAIN out' : out'[i] <= sender /\ started'[out'[i]]
    BY <1>1, <1>2, <2>1, <2>2, <2>3, RequestsAre DEF HeadsSoFar
  <2>5. ASSUME NEW i \in 1..Len(out'), NEW j \in 1..Len(out'), i < j
        PROVE  out'[i] < out'[j]
    <3>1. i \in DOMAIN out
      BY <2>2, <2>5
    <3>2. CASE j \in DOMAIN out
      BY <2>2, <2>5, <3>1, <3>2 DEF HeadsSoFar
    <3>3. CASE j = Len(out')
      BY <2>1, <2>2, <3>1, <3>3
    <3> QED BY <2>2, <2>3, <3>2, <3>3
  <2> QED BY <2>4, <2>5 DEF HeadsSoFar
<1> QED BY <1>3, <1>4 DEF HeadOf

-----------------------------------------------------------------------------
(* The callbacks of the parser                                             *)

LEMMA FeedRaisesKeeps ==
  ASSUME ConnectionInv, sender \in Requests, FeedRaises, broken' \in BOOLEAN,
         upgraded' = TRUE \/ (broken' /\ upgraded' = upgraded)
  PROVE  ConnectionInv'
<1> USE DEF ConnectionInv
<1>1. /\ ~feeding' /\ HeadOf(sender) /\ eof'
      /\ paused' \in BOOLEAN /\ lost' \in BOOLEAN /\ eof' \in BOOLEAN
      /\ feeding' \in BOOLEAN
      /\ future' \in Seq(Results) /\ future' # <<>> /\ Len(future') = Len(future)
      /\ BodyFuture' = BodyFuture \/ BodyFuture' = Lost
      /\ \A i \in DOMAIN future' : future'[i] \in {Pending, i, Lost}
      /\ UNCHANGED <<req, part, sender, taskVars, spanned, early, late, tardy>>
  BY FeedRaisesEffect
<1>2. Shape'
  BY <1>1, HeadShape DEF Shape, taskVars
<1>3. Current' /\ Futures'
  BY <1>1, RequestsAre DEF Current, Futures, taskVars
<1>4. InOrder => InOrder'
  BY <1>1, HeadKeeps DEF InOrder, OneTask, OwnFuture, taskVars
<1>5. ResumeToCome'
  BY <1>1 DEF ResumeToCome, Answered, taskVars
<1> QED BY <1>1, <1>2, <1>3, <1>4, <1>5

LEMMA BadKeeps ==
  ASSUME ConnectionInv,
         \/ ReadAfterFailure
         \/ \E r \in Requests : OnBadRequest(r) \/ OnUpgrade(r) \/ OnBodyAgain(r)
  PROVE  ConnectionInv'
<1> USE DEF ConnectionInv
<1>1. CASE ReadAfterFailure
  <2>1. sender # 0 /\ ParseFails
    BY <1>1 DEF ReadAfterFailure, Current
  <2> QED BY <2>1, FeedRaisesKeeps DEF ParseFails, Shape
<1>2. ASSUME NEW r \in Requests, OnBadRequest(r) \/ OnBodyAgain(r)
      PROVE  ConnectionInv'
  <2>1. sender = r /\ ParseFails
    BY <1>2 DEF OnBadRequest, OnBodyAgain, Current
  <2> QED BY <2>1, FeedRaisesKeeps DEF ParseFails
<1>3. ASSUME NEW r \in Requests, OnUpgrade(r) PROVE ConnectionInv'
  <2>1. sender = r /\ FeedRaises /\ broken' = broken /\ upgraded' = TRUE
    BY <1>3, RequestsAre DEF OnUpgrade, Current
  <2> QED BY <2>1, FeedRaisesKeeps DEF Shape
<1> QED BY <1>1, <1>2, <1>3

LEMMA MessageBeginKeeps ==
  ASSUME ConnectionInv, NEW r \in Requests, OnMessageBegin(r)
  PROVE  ConnectionInv'
<1> USE DEF ConnectionInv
<1>1. /\ req = r /\ part = 0 /\ ~broken /\ feeding' = TRUE
      /\ feeding \/ ~paused
      /\ ~lost
      /\ sender' = r /\ part' = 1 /\ spanned' = (spanned \/ feeding)
      /\ UNCHANGED <<req, broken, connVars, taskVars, outVars, early, late, tardy,
                     upgraded>>
  BY DEF OnMessageBegin, Parse, Futures
<1>2. /\ future' \in Seq(Results) /\ future' # <<>> /\ BodyFuture' = Pending
      /\ Len(future') = r /\ Len(future) <= r
      /\ \A k \in DOMAIN future' : future'[k] \in {Pending, k, Lost}
  <2>1. Pending \in Results /\ future' = IF BodyFuture = Pending THEN future
                                         ELSE Append(future, Pending)
    BY DEF OnMessageBegin, Results
  <2>2. future \in Seq(Results) /\ future # <<>> /\ Len(future) \in Nat
    BY DEF Shape
  <2>3. CASE BodyFuture = Pending
    <3>1. r = 1 /\ Len(future) = 1 /\ future' = future
      BY <1>1, <2>1, <2>3, RequestsAre DEF Current, Futures
    <3>2. BodyFuture' = BodyFuture /\ Len(future') = Len(future)
      BY <3>1 DEF BodyFuture
    <3> QED BY <2>2, <2>3, <3>1, <3>2 DEF Futures, Shape
  <2>4. CASE BodyFuture # Pending
    <3>1. future' = Append(future, Pending)
      BY <2>1, <2>4
    <3>2. sender = r - 1 /\ r \in Nat
      BY <1>1, RequestsAre DEF Current
    <3>3. r # 1 /\ Len(future) = r - 1
      BY <1>1, <2>4, <3>2, RequestsAre DEF Futures
    <3>4. /\ Len(future') = r /\ future'[r] = Pending
          /\ \A k \in DOMAIN future' : k = r \/ (k \in DOMAIN future
                                                /\ future'[k] = future[k])
      BY <2>2, <3>1, <3>2, <3>3
    <3> QED BY <2>1, <2>2, <3>1, <3>2, <3>3, <3>4 DEF BodyFuture, Futures
  <2> QED BY <2>3, <2>4
<1>3. Shape'
  BY <1>1, <1>2 DEF Shape, connVars, taskVars, outVars
<1>4. Current'
  BY <1>1, <1>2, RequestsAre DEF Current
<1>8. Futures'
  <2>1. sender <= r
    BY <1>1, RequestsAre DEF Current
  <2> QED BY <1>1, <1>2, <2>1, RequestsAre DEF Futures, Shape, taskVars, connVars
<1>5. InOrder /\ ~spanned' => InOrder'
  <2> SUFFICES ASSUME InOrder, ~spanned' PROVE InOrder'
    OBVIOUS
  <2>1. ~paused
    BY <1>1 DEF Shape
  <2>2. ~upgraded => \A q \in Requests : task[q] \notin Unanswered
    BY <1>1, <2>1, RequestsAre DEF InOrder, OneTask
  <2>3. upgraded' \/ (OneTask' /\ OwnFuture')
    BY <1>1, <2>2 DEF InOrder, OneTask, OwnFuture, taskVars, Unanswered
  <2>4. sender \in Nat /\ sender <= sender' /\ sender' \in Nat
    BY <1>1, RequestsAre DEF Current, Shape
  <2>5. \A i \in DOMAIN out : out[i] \in Nat
    <3>1. out \in Seq(Requests)
      BY DEF Shape
    <3>2. \A i \in DOMAIN out : out[i] \in Requests
      BY <3>1
    <3> QED BY <3>2, RequestsAre
  <2>6. HeadsSoFar'
    BY <1>1, <2>4, <2>5 DEF InOrder, HeadsSoFar, outVars
  <2> QED BY <2>3, <2>6 DEF InOrder
<1>6. ResumeToCome'
  BY <1>1 DEF ResumeToCome, Answered, connVars, taskVars
<1> QED BY <1>1, <1>3, <1>4, <1>5, <1>6, <1>8 DEF Shape

LEMMA HeadersCompleteKeeps ==
  ASSUME ConnectionInv, NEW r \in Requests, OnHeadersComplete(r)
  PROVE  ConnectionInv'
<1> USE DEF ConnectionInv
<1>1. /\ req = r /\ part = 1 /\ ~broken /\ feeding' = TRUE
      /\ task' = [task EXCEPT ![r] = "working"] /\ part' = 2
      /\ UNCHANGED <<req, broken, connVars, future, sender, awaits, body, outVars,
                     history>>
  BY DEF OnHeadersComplete, Parse
<1>2. /\ task'[r] = "working" /\ task' \in [Requests -> TaskStates]
      /\ \A q \in Requests \ {r} : task'[q] = task[q]
  BY <1>1 DEF Shape, TaskStates
<1>3. Shape'
  BY <1>1, <1>2 DEF Shape, connVars, outVars, history
<1>4. Current' /\ Futures'
  <2>1. ~lost /\ sender = r
    BY <1>1, RequestsAre DEF OnHeadersComplete, Parse, Current, Futures
  <2>2. \A q \in Requests : task'[q] # "none" => q <= sender
    BY <1>2, <2>1, RequestsAre DEF Futures
  <2> QED BY <1>1, <2>1, <2>2 DEF Current, Futures, BodyFuture, connVars
<1>5. InOrder => InOrder'
  <2>1. OneTask => OneTask'
    BY <1>1, <1>2 DEF OneTask
  <2> QED BY <1>1, <2>1
      DEF InOrder, OwnFuture, HeadsSoFar, connVars, outVars, history
<1>6. ResumeToCome'
  <2>1. \A q \in 1..(req - 1) : q # r /\ q \in Requests
    BY <1>1, RequestsAre DEF Requests
  <2>2. \A q \in Requests : Answered(q)' => Answered(q)
    BY <1>2 DEF Answered
  <2>3. \A q \in 1..(req - 1) : Answered(q)' <=> Answered(q)
    BY <1>2, <2>1 DEF Answered
  <2> QED BY <1>1, <2>2, <2>3 DEF ResumeToCome, connVars, history
<1> QED BY <1>1, <1>3, <1>4, <1>5, <1>6 DEF history

LEMMA BodyKeeps ==
  ASSUME ConnectionInv, NEW r \in Requests, OnBody(r)
  PROVE  ConnectionInv'
<1> USE DEF ConnectionInv
<1>1. /\ req = r /\ part >= 2 /\ ~broken /\ feeding' = TRUE /\ Settle(r)
      /\ part' = part + 1
      /\ UNCHANGED <<req, broken, connVars, sender, taskVars, outVars, history>>
  BY WebAssumption DEF OnBody, Parse, Shape
<1>2. /\ future' \in Seq(Results) /\ future' # <<>> /\ Len(future') = Len(future)
      /\ BodyFuture' = IF BodyFuture = Pending THEN r ELSE BodyFuture
      /\ \A i \in DOMAIN future' : future'[i] \in {Pending, i, Lost}
  BY <1>1, SettleEffect, RequestsAre DEF Current, Shape
<1>3. Shape'
  BY <1>1, <1>2 DEF Shape, connVars, taskVars, outVars, history
<1>4. Current' /\ Futures'
  <2>1. ~lost
    BY DEF OnBody, Parse, Futures
  <2> QED BY <1>1, <1>2, <2>1 DEF Current, Futures, Shape, taskVars, connVars
<1>5. InOrder => InOrder'
  BY <1>1, <1>2, <1>3
  DEF InOrder, OneTask, OwnFuture, HeadsSoFar, taskVars, connVars, outVars, history,
      Shape
<1>6. ResumeToCome'
  BY <1>1 DEF ResumeToCome, Answered, connVars, taskVars, history
<1> QED BY <1>1, <1>3, <1>4, <1>5, <1>6 DEF history

LEMMA MessageCompleteKeeps ==
  ASSUME ConnectionInv, NEW r \in Requests, OnMessageComplete(r)
  PROVE  ConnectionInv'
<1> USE DEF ConnectionInv
<1>1. /\ req = r /\ part >= 2 /\ ~broken /\ feeding' = TRUE /\ Settle(r)
      /\ paused' = TRUE /\ req' = r + 1 /\ part' = 0
      /\ UNCHANGED <<broken, eof, lost, sender, taskVars, outVars, history>>
  BY DEF OnMessageComplete, Parse
<1>2. /\ future' \in Seq(Results) /\ future' # <<>> /\ Len(future') = Len(future)
      /\ BodyFuture' = IF BodyFuture = Pending THEN r ELSE BodyFuture
      /\ \A i \in DOMAIN future' : future'[i] \in {Pending, i, Lost}
  BY <1>1, SettleEffect, RequestsAre DEF Current, Shape
<1>3. Shape'
  <2>1. req' \in 1..(Last + 1)
    BY <1>1, RequestsAre
  <2> QED BY <1>1, <1>2, <2>1 DEF Shape, taskVars, outVars, history
<1>4. Current' /\ Futures'
  <2>1. ~lost
    BY DEF OnMessageComplete, Parse, Futures
  <2> QED BY <1>1, <1>2, <2>1, RequestsAre DEF Current, Futures, Shape, taskVars
<1>5. InOrder => InOrder'
  <2>1. OneTask => OneTask'
    BY <1>1, RequestsAre DEF OneTask, taskVars, Shape
  <2> QED BY <1>1, <1>2, <2>1
      DEF InOrder, OwnFuture, HeadsSoFar, taskVars, outVars, history
<1>6. ResumeToCome'
  <2>1. Answered(r) => early
    BY <1>1, RequestsAre DEF ResumeToCome
  <2>2. r \in 1..(req' - 1) /\ \A q \in Requests : q < req => q < req'
    BY <1>1, RequestsAre
  <2> QED BY <1>1, <2>1, <2>2 DEF ResumeToCome, Answered, taskVars, history
<1> QED BY <1>1, <1>3, <1>4, <1>5, <1>6 DEF history

LEMMA OutsideKeeps ==
  ASSUME ConnectionInv, EndRead \/ ConnectionLost
  PROVE  ConnectionInv'
<1> USE DEF ConnectionInv
<1>1. CASE EndRead
  BY <1>1
  DEF EndRead, Shape, Current, Futures, BodyFuture, InOrder, OneTask, OwnFuture, HeadsSoFar,
      ResumeToCome, Answered, connVars, taskVars, outVars, history
<1>2. CASE ConnectionLost
  <2>1. /\ lost' = TRUE /\ Settle(Lost)
        /\ UNCHANGED <<parserVars, paused, eof, sender, taskVars, outVars, history>>
    BY <1>2 DEF ConnectionLost
  <2>2. /\ future' \in Seq(Results) /\ future' # <<>> /\ Len(future') = Len(future)
        /\ BodyFuture' = IF BodyFuture = Pending THEN Lost ELSE BodyFuture
        /\ \A i \in DOMAIN future' : future'[i] \in {Pending, i, Lost}
    BY <2>1, SettleEffect
  <2>3. Shape'
    BY <2>1, <2>2 DEF Shape, parserVars, taskVars, outVars, history
  <2>4. Current' /\ Futures'
    BY <1>2, <2>1, <2>2, RequestsAre
    DEF ConnectionLost, Current, Futures, parserVars, taskVars
  <2>5. InOrder => InOrder'
    BY <2>1, <2>2
    DEF InOrder, OneTask, OwnFuture, HeadsSoFar, parserVars, taskVars, outVars,
        history
  <2>6. ResumeToCome'
    BY <2>1 DEF ResumeToCome, Answered, parserVars, taskVars, history
  <2> QED BY <2>1, <2>3, <2>4, <2>5, <2>6 DEF history
<1> QED BY <1>1, <1>2

-----------------------------------------------------------------------------
(* The handler tasks                                                       *)

\* A handler asks for a body, or is given one.
LEMMA AskKeeps ==
  ASSUME ConnectionInv, NEW r \in Requests, Receive(r) \/ Received(r)
  PROVE  ConnectionInv'
<1> USE DEF ConnectionInv
<1>0. UNCHANGED <<parserVars, connVars, future, sender, task, outVars, spanned, early,
                  late, upgraded>>
  BY DEF Receive, Received, history
<1>1. /\ Len(future) \in Nat \ {0} /\ DOMAIN future = 1..Len(future)
      /\ r \in Nat \ {0} /\ r <= Last
  BY RequestsAre DEF Shape
<1>2. CASE Receive(r)
  <2>1. /\ awaits' = [awaits EXCEPT ![r] = Len(future)] /\ body' = body
        /\ tardy \subseteq tardy' /\ (task[r] = "after" => r \in tardy')
        /\ task[r] \in Unanswered \cup {"after"}
    BY <1>2 DEF Receive, Unanswered
  <2>2. Shape'
    BY <1>0, <1>1, <2>1 DEF Shape, parserVars, connVars, outVars
  <2>3. Futures'
    <3>1. r <= sender /\ sender \in Nat
      BY <2>1, RequestsAre DEF Futures, Unanswered, Shape
    <3>2. r <= Len(future)
      BY <1>1, <3>1 DEF Futures
    <3> QED BY <1>0, <1>1, <2>1, <3>2
        DEF Futures, BodyFuture, Shape, parserVars, connVars
  <2>4. InOrder => InOrder'
    <3>1. ~upgraded /\ InOrder => OwnFuture'
      <4> SUFFICES ASSUME ~upgraded, InOrder PROVE OwnFuture'
        OBVIOUS
      <4>1. r \notin tardy' => task[r] \in Unanswered
        BY <2>1
      <4>2. r \notin tardy' => r = sender
        BY <4>1, TheTask DEF InOrder
      <4>3. r \notin tardy' => Len(future) = r
        BY <1>1, <4>2 DEF Futures
      <4> QED BY <2>1, <4>3 DEF InOrder, OwnFuture, Shape
    <3> QED BY <1>0, <3>1
        DEF InOrder, OneTask, HeadsSoFar, parserVars, connVars, outVars
  <2> QED BY <1>0, <2>2, <2>3, <2>4
      DEF Current, BodyFuture, ResumeToCome, Answered, parserVars, connVars
<1>3. CASE Received(r)
  <2>1. /\ awaits' = [awaits EXCEPT ![r] = 0] /\ tardy' = tardy
        /\ body' = [body EXCEPT ![r] = future[awaits[r]]]
        /\ awaits[r] # 0
    BY <1>3 DEF Received, history
  <2>2. /\ awaits[r] \in r..Len(future) /\ awaits[r] \in DOMAIN future
        /\ future[awaits[r]] \in {Pending, awaits[r], Lost}
        /\ awaits[r] <= Last
    BY <1>1, <2>1, RequestsAre DEF Futures, Shape
  <2>3. /\ body'[r] = future[awaits[r]] /\ body'[r] \in {Pending, Lost} \cup r..Last
        /\ \A q \in Requests \ {r} : body'[q] = body[q] /\ awaits'[q] = awaits[q]
        /\ awaits'[r] = 0 /\ awaits' \in [Requests -> Nat]
    BY <1>1, <2>1, <2>2 DEF Shape
  <2>4. Shape'
    <3>1. future[awaits[r]] \in Results
      BY <2>2 DEF Shape
    <3>2. body' \in [Requests -> Results]
      BY <2>1, <3>1 DEF Shape
    <3> QED BY <1>0, <2>3, <3>2 DEF Shape, parserVars, connVars, outVars
  <2>5. Futures'
    BY <1>0, <1>1, <2>3 DEF Futures, BodyFuture, parserVars, connVars
  <2>6. InOrder => InOrder'
    <3>1. OwnFuture => OwnFuture'
      <4> SUFFICES ASSUME OwnFuture, NEW q \in Requests \ tardy
                   PROVE  awaits'[q] \in {0, q} /\ body'[q] \in {Pending, q, Lost}
        BY <2>1 DEF OwnFuture
      <4> QED BY <2>1, <2>2, <2>3 DEF OwnFuture
    <3> QED BY <1>0, <3>1
        DEF InOrder, OneTask, HeadsSoFar, parserVars, connVars, outVars
  <2> QED BY <1>0, <2>4, <2>5, <2>6
      DEF Current, BodyFuture, ResumeToCome, Answered, parserVars, connVars
<1> QED BY <1>2, <1>3

\* A handler that begins a stream has still to end it.
LEMMA StreamKeeps ==
  ASSUME ConnectionInv, NEW r \in Requests, StreamFirst(r)
  PROVE  ConnectionInv'
<1> USE DEF ConnectionInv
<1>1. HeadOf(r) /\ paused' = paused /\ eof' = eof
  BY SendEffect DEF StreamFirst
<1>2. /\ task[r] = "working" /\ task' = [task EXCEPT ![r] = "streaming"]
      /\ UNCHANGED <<parserVars, connVars, future, sender, awaits, body, history>>
  BY <1>1 DEF StreamFirst, Step, connVars
<1>3. Shape'
  BY <1>1, <1>2, HeadShape DEF Shape, TaskStates, parserVars, connVars, history
<1>4. Current' /\ Futures'
  BY <1>2 DEF Current, Futures, Shape, BodyFuture, parserVars, connVars
<1>5. InOrder => InOrder'
  <2> SUFFICES ASSUME InOrder PROVE InOrder'
    OBVIOUS
  <2>1. r = sender \/ eof
    BY <1>2, TheTask DEF InOrder, Shape, Unanswered
  <2>2. HeadsSoFar'
    BY <1>1, <1>2, <2>1, HeadKeeps DEF InOrder
  <2>3. \A q \in Requests : task'[q] \in Unanswered => task[q] \in Unanswered
    BY <1>2 DEF Shape, Unanswered
  <2> QED BY <1>2, <2>2, <2>3
      DEF InOrder, OneTask, OwnFuture, parserVars, connVars, history
<1>6. ResumeToCome'
  <2>1. \A q \in Requests : Answered(q)' <=> Answered(q)
    BY <1>2 DEF Answered, Shape
  <2>2. \A q \in 1..(req - 1) : q \in Requests
    BY RequestsAre DEF Requests, Shape
  <2> QED BY <1>2, <2>1, <2>2 DEF ResumeToCome, parserVars, connVars, history
<1> QED BY <1>2, <1>3, <1>4, <1>5, <1>6 DEF history

\* A task that has answered leaves nothing to wait for.
LEMMA AnswerKeeps ==
  ASSUME ConnectionInv, NEW r \in Requests, task[r] \in Unanswered \cup {"after"},
         NEW s \in {"after", "done"}, task' = [task EXCEPT ![r] = s],
         HeadOf(r), eof' \in BOOLEAN, paused' \in BOOLEAN, paused' => paused,
         eof => eof', eof' \/ ~paused', Answering(r),
         late' \in BOOLEAN, late \/ task[r] = "after" => late'
  PROVE  ConnectionInv'
<1> USE DEF ConnectionInv
<1>1. /\ early' = (early \/ r >= req)
      /\ UNCHANGED <<parserVars, lost, future, sender, awaits, body, spanned, tardy,
                     upgraded>>
  BY DEF Answering
<1>2. /\ started' \in [Requests -> BOOLEAN] /\ out' \in Seq(Requests)
  BY HeadShape
<1>3. Shape'
  BY <1>1, <1>2 DEF Shape, TaskStates, parserVars
<1>4. Current' /\ Futures'
  BY <1>1 DEF Current, Futures, Shape, Unanswered, BodyFuture, parserVars
<1>5. InOrder /\ ~late' => InOrder'
  <2> SUFFICES ASSUME InOrder, ~late' PROVE InOrder'
    OBVIOUS
  <2>1. task[r] \in Unanswered
    OBVIOUS
  <2>2. r = sender \/ eof
    BY <2>1, TheTask DEF InOrder, Shape
  <2>3. HeadsSoFar'
    BY <1>1, <2>2, HeadKeeps DEF InOrder
  <2>4. \A q \in Requests : task'[q] \in Unanswered => task'[q] = task[q] /\ q # r
    BY DEF Shape, Unanswered
  <2>5. ~upgraded => \A q \in Requests : task'[q] \notin Unanswered
    BY <2>1, <2>4, TheTask DEF InOrder
  <2> QED BY <1>1, <2>3, <2>5 DEF InOrder, OneTask, OwnFuture, Unanswered
<1>6. ResumeToCome'
  <2>1. \A q \in Requests : Answered(q)' => Answered(q) \/ q = r
    BY DEF Answered, Shape
  <2>2. r < req \/ r >= req
    BY RequestsAre DEF Shape
  <2> QED BY <1>1, <2>1, <2>2 DEF ResumeToCome, parserVars
<1> QED BY <1>1, <1>3, <1>4, <1>5, <1>6

LEMMA TaskKeeps ==
  ASSUME ConnectionInv, NEW r \in Requests,
         \/ Receive(r) \/ Received(r) \/ Answer(r) \/ StreamFirst(r)
         \/ StreamLast(r) \/ HandlerFails(r) \/ SendFails(r) \/ HandlerEnds(r)
  PROVE  ConnectionInv'
<1> USE DEF ConnectionInv
<1>0. eof \in BOOLEAN /\ late \in BOOLEAN /\ started[r] \in BOOLEAN
  BY DEF Shape
<1>4. ASSUME Answer(r) \/ StreamLast(r) PROVE ConnectionInv'
  <2>1. PICK data \in BOOLEAN : ~Raises(r, data) /\ Send(r, data, FALSE)
    BY <1>4 DEF Answer, StreamLast
  <2>2. /\ HeadOf(r) /\ eof' \in BOOLEAN /\ paused' \in BOOLEAN
        /\ paused' => paused
        /\ eof => eof'
        /\ eof' \/ ~paused'
    BY <1>0, <2>1, SendEffect
  <2>3. PICK s \in {"after", "done"} : task' = [task EXCEPT ![r] = s]
    BY <1>4 DEF Answer, StreamLast, Step
  <2>4. /\ task[r] \in Unanswered \cup {"after"} /\ Answering(r)
        /\ late' \in BOOLEAN /\ (late \/ task[r] = "after" => late')
    BY <1>0, <1>4 DEF Answer, StreamLast, Step, Unanswered
  <2> QED BY <1>0, <1>4, <2>2, <2>3, <2>4, AnswerKeeps
<1>5. ASSUME HandlerFails(r) PROVE ConnectionInv'
  <2>1. /\ HeadOf(r) /\ eof' \in BOOLEAN /\ paused' \in BOOLEAN
        /\ paused' => paused
        /\ eof => eof'
        /\ eof' \/ ~paused'
    BY <1>0, <1>5, SendEffect DEF HandlerFails
  <2>3. PICK s \in {"after", "done"} : task' = [task EXCEPT ![r] = s]
    BY <1>5 DEF HandlerFails, Step
  <2>4. /\ task[r] \in Unanswered \cup {"after"} /\ Answering(r)
        /\ late' \in BOOLEAN /\ (late \/ task[r] = "after" => late')
    BY <1>0, <1>5 DEF HandlerFails, Step, Unanswered
  <2> QED BY <1>5, <2>1, <2>3, <2>4, AnswerKeeps
<1>6. ASSUME SendFails(r) PROVE ConnectionInv'
  <2>1. HeadOf(r) /\ eof /\ eof' = eof /\ paused' = FALSE /\ late' = late
    BY <1>6 DEF SendFails, HeadOf, Raises
  <2>3. PICK s \in {"after", "done"} : task' = [task EXCEPT ![r] = s]
    BY <1>6 DEF SendFails, Step
  <2>4. /\ task[r] \in Unanswered \cup {"after"} /\ Answering(r)
        /\ late' \in BOOLEAN /\ (late \/ task[r] = "after" => late')
    BY <1>0, <1>6, <2>1 DEF SendFails, Step, Unanswered
  <2> QED BY <1>0, <1>6, <2>1, <2>3, <2>4, AnswerKeeps
<1>7. ASSUME HandlerEnds(r) PROVE ConnectionInv'
  <2>1. /\ task[r] = "after" /\ task' = [task EXCEPT ![r] = "done"]
        /\ UNCHANGED <<parserVars, connVars, future, sender, awaits, body, outVars,
                       history>>
    BY <1>7 DEF HandlerEnds, Step
  <2>2. \A q \in Requests : /\ task'[q] \in Unanswered => task'[q] = task[q]
                            /\ Answered(q)' <=> Answered(q)
    BY <2>1 DEF Answered, Shape, Unanswered
  <2>3. Shape' /\ Current' /\ Futures'
    BY <2>1 DEF Shape, Current, Futures, BodyFuture, TaskStates, parserVars, connVars, outVars,
                history
  <2>4. InOrder => InOrder'
    BY <2>1, <2>2
    DEF InOrder, OneTask, OwnFuture, HeadsSoFar, Unanswered, parserVars, connVars, outVars,
        history
  <2>5. ResumeToCome'
    <3>1. \A q \in 1..(req - 1) : q \in Requests
      BY RequestsAre DEF Requests, Shape
    <3> QED BY <2>1, <2>2, <3>1 DEF ResumeToCome, parserVars, connVars, history
  <2> QED BY <2>1, <2>3, <2>4, <2>5 DEF history
<1> QED BY AskKeeps, StreamKeeps, <1>4, <1>5, <1>6, <1>7

LEMMA ConnectionInvInductive ==
  /\ Init => ConnectionInv
  /\ ConnectionInv /\ [Next]_vars => ConnectionInv'
<1>1. Init => ConnectionInv
  <2> SUFFICES ASSUME Init PROVE ConnectionInv
    OBVIOUS
  <2>1. Shape
    <3>1. Pending \in Results /\ req \in 1..(Last + 1)
      BY RequestsAre DEF Init, Results
    <3>2. future \in Seq(Results) /\ future # <<>>
      BY <3>1 DEF Init
    <3>3. /\ task \in [Requests -> TaskStates] /\ awaits \in [Requests -> Nat]
          /\ body \in [Requests -> Results] /\ started \in [Requests -> BOOLEAN]
      BY <3>1 DEF Init, TaskStates
    <3>4. sender \in Requests \cup {0} /\ part \in Nat /\ out \in Seq(Requests)
      BY DEF Init
    <3>5. /\ feeding \in BOOLEAN /\ broken \in BOOLEAN /\ paused \in BOOLEAN
          /\ eof \in BOOLEAN /\ lost \in BOOLEAN
          /\ spanned \in BOOLEAN /\ early \in BOOLEAN /\ late \in BOOLEAN
          /\ upgraded \in BOOLEAN /\ ~upgraded
      BY DEF Init
    <3> QED BY <3>1, <3>2, <3>3, <3>4, <3>5 DEF Shape
  <2>2. Current /\ Futures
    BY DEF Init, Current, Futures, BodyFuture
  <2>3. InOrder
    BY DEF Init, InOrder, OneTask, OwnFuture, HeadsSoFar, Unanswered
  <2>4. ResumeToCome
    BY DEF Init, ResumeToCome, Answered
  <2> QED BY <2>1, <2>2, <2>3, <2>4 DEF ConnectionInv
<1>2. ASSUME ConnectionInv, [Next]_vars PROVE ConnectionInv'
  <2>1. CASE UNCHANGED vars
    BY <1>2, <2>1
    DEF vars, ConnectionInv, Shape, Current, Futures, BodyFuture, InOrder, OneTask, OwnFuture,
        HeadsSoFar, ResumeToCome, Answered, parserVars, connVars, taskVars, outVars,
        history
  <2> QED BY <1>2, <2>1, BadKeeps, MessageBeginKeeps, HeadersCompleteKeeps, BodyKeeps,
             MessageCompleteKeeps, OutsideKeeps, TaskKeeps DEF Next
<1> QED BY <1>1, <1>2

-----------------------------------------------------------------------------
(* Theorems                                                                *)

THEOREM ConnectionInvHolds == Spec => []ConnectionInv
BY ConnectionInvInductive, PTL DEF Spec

\* The answers go out in the order of the requests, each begun once, as long as
\* no read holds parts of two requests and no handler raises after its answer.
THEOREM AnswersInOrderHolds == Spec => []AnswersInOrder
<1>1. ConnectionInv => AnswersInOrder
  BY DEF ConnectionInv, InOrder, HeadsSoFar, AnswersInOrder
<1> QED BY <1>1, ConnectionInvHolds, PTL

\* No handler is given the body of a request before its own, whatever happens; and
\* none but one that asks after its answer is given that of a later one, under the
\* same conditions and as long as nobody asks for another protocol.
THEOREM OwnBodyHolds == Spec => []OwnBody
<1>1. ConnectionInv => OwnBody
  BY DEF ConnectionInv, Futures, InOrder, OwnFuture, OwnBody
<1> QED BY <1>1, ConnectionInvHolds, PTL

\* Under no condition is reading left paused with every request answered, if no
\* answer came before the end of its request.
THEOREM NotStalledHolds == Spec => []NotStalled
<1>1. ConnectionInv => NotStalled
  BY DEF ConnectionInv, ResumeToCome, NotStalled
<1> QED BY <1>1, ConnectionInvHolds, PTL
=============================================================================
