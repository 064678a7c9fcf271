--------------------------- MODULE WebConnection ----------------------------
(***************************************************************************)
(* One connection of the web server: net.web.protocol.Protocol with its    *)
(* ASGIResponseSender, WebServer.handler and Application.__call__.  The    *)
(* client sends the requests 1..Last one after the other without waiting   *)
(* for the answers.  data_received feeds the parser, which calls back for  *)
(* each part of a request it finds; while feeding is TRUE no task runs.    *)
(*                                                                         *)
(* Bodies and heads are told apart by the request they belong to only.     *)
(***************************************************************************)
EXTENDS Integers, Sequences

CONSTANTS
  Last,         \* number of requests
  Pieces,       \* the most pieces in which a body comes
  Keep,         \* requests that leave the connection open
  Bad,          \* requests that the parser or a callback may reject, or that
                \* ask for another protocol
  Asks,         \* requests whose handler may ask for the body
  Streamed,     \* requests that may be answered by a stream
  Pending, Lost \* a body future not done, or done by the end of the connection

Requests == 1..Last

ASSUME WebAssumption ==
  /\ Last \in Nat /\ Pieces \in Nat
  /\ Keep \subseteq Requests /\ Bad \subseteq Requests
  /\ Asks \subseteq Requests /\ Streamed \subseteq Requests
  /\ Pending \notin Requests /\ Lost \notin Requests /\ Pending # Lost

VARIABLES
  req, part,   \* the request in the parser and the parts of it parsed
  feeding,     \* in the middle of data_received
  broken,      \* the parser has failed
  paused,      \* reading is paused
  eof,         \* write_eof was called
  lost,        \* the connection is lost
  future,      \* the body futures made so far, _body_future last
  sender,      \* the request of _sender, 0 before the first one
  task,        \* where the handler task of each request is
  awaits,      \* the body future each handler awaits, 0 for none
  body,        \* the body each handler was given last
  started,     \* _started of the sender of each request
  out,         \* the requests whose heads were written, in order
  spanned,     \* history: one read held parts of two requests
  early,       \* history: a request was answered before it was complete
  late,        \* history: a handler raised after it had answered
  tardy,       \* history: the handlers that asked for a body after answering
  upgraded     \* history: data_received has answered an upgrade

parserVars == <<req, part, feeding, broken>>
connVars == <<paused, eof, lost>>
taskVars == <<task, awaits, body>>
outVars == <<started, out>>
history == <<spanned, early, late, tardy, upgraded>>
vars == <<parserVars, connVars, future, sender, taskVars, outVars, history>>

TaskStates == {"none", "working", "streaming", "after", "done"}

Init ==
  /\ req = 1 /\ part = 0 /\ feeding = FALSE /\ broken = FALSE
  /\ paused = FALSE /\ eof = FALSE /\ lost = FALSE
  /\ future = <<Pending>> /\ sender = 0
  /\ task = [r \in Requests |-> "none"]
  /\ awaits = [r \in Requests |-> 0]
  /\ body = [r \in Requests |-> Pending]
  /\ started = [r \in Requests |-> FALSE] /\ out = <<>>
  /\ spanned = FALSE /\ early = FALSE /\ late = FALSE
  /\ tardy = {} /\ upgraded = FALSE

-----------------------------------------------------------------------------
(* ASGIResponseSender                                                      *)

\* write refuses to write after write_eof.
Raises(r, data) == eof /\ (~started[r] \/ data)

\* http.response.body, with data or empty, the last of the answer or not.  A
\* head goes before the first one.  Only the message that carries the head can
\* close the connection: close is a local variable of the code.
Send(r, data, more) ==
  LET close == ~started[r] /\ (more \/ r \notin Keep)
      ends == ~more /\ ~Raises(r, data)
  IN  /\ started' = [started EXCEPT ![r] = TRUE]
      /\ out' = IF started[r] \/ eof \/ lost THEN out ELSE Append(out, r)
      /\ eof' = (eof \/ (ends /\ close))
      /\ paused' = (paused /\ ~(ends /\ ~close))

-----------------------------------------------------------------------------
(* data_received and the callbacks of the parser                           *)

BodyFuture == future[Len(future)]
\* The body future is given the result v, unless it has one.
Settle(v) == future' = [future EXCEPT ![Len(future)] =
                          IF BodyFuture = Pending THEN v ELSE BodyFuture]

\* The parser finds part k of request r, within a read or at the start of one.
Parse(r, k) ==
  /\ req = r /\ part = k /\ ~broken
  /\ feeding \/ (~paused /\ ~lost)
  /\ feeding' = TRUE

\* An exception in feed_data: the answer of the current sender becomes a 500,
\* and the sending side is closed.  If that raises, the connection is aborted.
FeedRaises ==
  LET fails == Raises(sender, FALSE)
      close == ~started[sender] /\ sender \notin Keep
  IN  /\ feeding' = FALSE
      /\ started' = [started EXCEPT ![sender] = TRUE]
      /\ out' = IF started[sender] \/ eof \/ lost THEN out
                ELSE Append(out, sender)
      /\ paused' = (paused /\ (fails \/ close))
      /\ eof' = TRUE
      /\ lost' = (lost \/ fails)
      /\ IF fails THEN Settle(Lost) ELSE future' = future
      /\ UNCHANGED <<req, part, sender, taskVars, spanned, early, late, tardy>>

\* A parser that has raised an error raises for whatever comes after.
ParseFails == FeedRaises /\ broken' = TRUE /\ upgraded' = upgraded

\* Mutant of OnMessageBegin: the future of the former body is used again.
OnMessageBeginReuse(r) ==
  /\ Parse(r, 0)
  /\ sender' = r
  /\ part' = 1
  /\ spanned' = (spanned \/ feeding)
  /\ UNCHANGED <<req, broken, connVars, future, taskVars, outVars, early, late,
                 tardy, upgraded>>

OnMessageBegin(r) ==
  /\ Parse(r, 0)
  /\ future' = IF BodyFuture = Pending THEN future ELSE Append(future, Pending)
  /\ sender' = r
  /\ part' = 1
  /\ spanned' = (spanned \/ feeding)
  /\ UNCHANGED <<req, broken, connVars, taskVars, outVars, early, late, tardy,
                 upgraded>>

\* feed_data raises at the request line, the headers or the framing of the body,
\* found in the same read as what is before it or in one of their own.
OnBadRequest(r) ==
  /\ r \in Bad /\ req = r /\ part >= 1 /\ ~broken
  /\ feeding \/ (~paused /\ ~lost)
  /\ ParseFails

\* A request for another protocol: feed_data raises HttpParserUpgrade behind it,
\* and the parser goes on with the next read.
OnUpgrade(r) ==
  /\ r \in Bad /\ feeding /\ req = r + 1 /\ part = 0 /\ ~broken
  /\ FeedRaises
  /\ broken' = broken /\ upgraded' = TRUE

ReadAfterFailure ==
  /\ broken /\ ~feeding /\ ~paused /\ ~lost
  /\ ParseFails

OnHeadersComplete(r) ==
  /\ Parse(r, 1)
  /\ task' = [task EXCEPT ![r] = "working"]
  /\ part' = 2
  /\ UNCHANGED <<req, broken, connVars, future, sender, awaits, body, outVars,
                 history>>

OnBody(r) ==
  /\ part \in 2..(1 + Pieces)
  /\ Parse(r, part)
  /\ BodyFuture = Pending
  /\ Settle(r)
  /\ part' = part + 1
  /\ UNCHANGED <<req, broken, connVars, sender, taskVars, outVars, history>>

\* Another piece of the body: set_result raises InvalidStateError.
OnBodyAgain(r) ==
  /\ req = r /\ part \in 2..(1 + Pieces) /\ ~broken
  /\ feeding \/ (~paused /\ ~lost)
  /\ BodyFuture # Pending
  /\ ParseFails

\* Mutant of OnMessageComplete: a request without a body leaves its future.
OnMessageCompleteNoBody(r) ==
  /\ part >= 2 /\ Parse(r, part)
  /\ future' = future
  /\ paused' = TRUE
  /\ req' = r + 1 /\ part' = 0
  /\ UNCHANGED <<broken, eof, lost, sender, taskVars, outVars, history>>

\* Mutant of OnMessageComplete: reading goes on.
OnMessageCompleteReads(r) ==
  /\ part >= 2 /\ Parse(r, part)
  /\ Settle(r)
  /\ req' = r + 1 /\ part' = 0
  /\ UNCHANGED <<broken, connVars, sender, taskVars, outVars, history>>

\* The body ends, after any number of pieces.
OnMessageComplete(r) ==
  /\ part >= 2 /\ Parse(r, part)
  /\ Settle(r)
  /\ paused' = TRUE
  /\ req' = r + 1 /\ part' = 0
  /\ UNCHANGED <<broken, eof, lost, sender, taskVars, outVars, history>>

\* data_received returns.
EndRead ==
  /\ feeding /\ feeding' = FALSE
  /\ UNCHANGED <<req, part, broken, connVars, future, sender, taskVars, outVars,
                 history>>

\* Mutant of ConnectionLost: the body future is left alone.
ConnectionLostQuiet ==
  /\ ~feeding /\ ~lost /\ (paused => out # <<>>)
  /\ lost' = TRUE
  /\ UNCHANGED <<parserVars, paused, eof, future, sender, taskVars, outVars,
                 history>>

\* The client leaves or a write fails.  A paused transport sees only the latter.
ConnectionLost ==
  /\ ~feeding /\ ~lost /\ (paused => out # <<>>)
  /\ lost' = TRUE
  /\ Settle(Lost)
  /\ UNCHANGED <<parserVars, paused, eof, sender, taskVars, outVars, history>>
-----------------------------------------------------------------------------
(* The handler tasks, which run between two reads                          *)

\* A handler in one of the states from that waits for no body goes to one of to.
Step(r, from, to) ==
  /\ ~feeding /\ task[r] \in from /\ awaits[r] = 0
  /\ \E s \in to : task' = [task EXCEPT ![r] = s]

\* The handler asks for the body, once or again, before its answer, within or
\* after it: it awaits the future that the connection has at this moment.
Receive(r) ==
  /\ r \in Asks /\ ~feeding /\ awaits[r] = 0
  /\ task[r] \in {"working", "streaming", "after"}
  /\ awaits' = [awaits EXCEPT ![r] = Len(future)]
  /\ tardy' = IF task[r] = "after" THEN tardy \cup {r} ELSE tardy
  /\ UNCHANGED <<parserVars, connVars, future, sender, task, body, outVars, spanned,
                 early, late, upgraded>>

Received(r) ==
  /\ ~feeding /\ awaits[r] # 0 /\ future[awaits[r]] # Pending
  /\ body' = [body EXCEPT ![r] = future[awaits[r]]]
  /\ awaits' = [awaits EXCEPT ![r] = 0]
  /\ UNCHANGED <<parserVars, connVars, future, sender, task, outVars, history>>

\* What answering leaves alone, and the mark of an answer that came too early.
Answering(r) ==
  /\ early' = (early \/ r >= req)
  /\ UNCHANGED <<parserVars, lost, future, sender, awaits, body, spanned, tardy,
                 upgraded>>

\* The handler answers in full: no route, the result of the handler, or an
\* answer of its own making, after which it may go on for a while.
Answer(r) ==
  \E data \in BOOLEAN :
    /\ ~Raises(r, data)
    /\ Step(r, {"working"}, {"after", "done"})
    /\ Send(r, data, FALSE)
    /\ Answering(r) /\ late' = late

\* The application streams its answer.
StreamFirst(r) ==
  /\ r \in Streamed /\ ~eof
  /\ Step(r, {"working"}, {"streaming"})
  /\ Send(r, TRUE, TRUE)
  /\ UNCHANGED <<parserVars, lost, future, sender, awaits, body, history>>

StreamLast(r) ==
  \E data \in BOOLEAN :
    /\ ~Raises(r, data)
    /\ Step(r, {"streaming"}, {"after", "done"})
    /\ Send(r, data, FALSE)
    /\ Answering(r) /\ late' = late

\* Mutant of HandlerFails: no answer is sent for it.
HandlerFailsSilent(r) ==
  /\ Step(r, {"working", "streaming", "after"}, {"done"})
  /\ UNCHANGED <<eof, paused, outVars>>
  /\ Answering(r) /\ late' = (late \/ task[r] = "after")

\* The handler raises: WebServer.handler sends an empty 500, of which nothing
\* but its end is left after the head.
HandlerFails(r) ==
  /\ Step(r, {"working", "streaming", "after"}, {"done"})
  /\ Send(r, FALSE, FALSE)
  /\ Answering(r) /\ late' = (late \/ task[r] = "after")

\* send raises in the handler, having set _started: the 500 has no head left,
\* and resumes reading.
SendFails(r) ==
  /\ Raises(r, TRUE)
  /\ Step(r, {"working", "streaming"}, {"done"})
  /\ started' = [started EXCEPT ![r] = TRUE]
  /\ paused' = FALSE
  /\ UNCHANGED <<out, eof>>
  /\ Answering(r) /\ late' = late

HandlerEnds(r) ==
  /\ Step(r, {"after"}, {"done"})
  /\ UNCHANGED <<parserVars, connVars, future, sender, awaits, body, outVars,
                 history>>
-----------------------------------------------------------------------------
Next ==
  \/ \E r \in Requests :
       \/ OnMessageBegin(r) \/ OnBadRequest(r) \/ OnUpgrade(r)
       \/ OnHeadersComplete(r)
       \/ OnBody(r) \/ OnBodyAgain(r) \/ OnMessageComplete(r)
       \/ Receive(r) \/ Received(r) \/ Answer(r) \/ StreamFirst(r)
       \/ StreamLast(r) \/ HandlerFails(r) \/ SendFails(r) \/ HandlerEnds(r)
  \/ ReadAfterFailure \/ EndRead \/ ConnectionLost

Spec == Init /\ [][Next]_vars

\* Reads end, and a handler that has got the body it waits for comes to an answer
\* or to an error, however often it asks for the body before: it does not read for
\* ever.  The client may stop sending at any point.
Fairness ==
  /\ WF_vars(EndRead)
  /\ \A r \in Requests :
       /\ WF_vars(Received(r))
       /\ SF_vars(Answer(r) \/ StreamLast(r) \/ HandlerFails(r) \/ SendFails(r))

FairSpec == Spec /\ Fairness
-----------------------------------------------------------------------------
(* Properties                                                              *)

Answered(r) == task[r] \in {"after", "done"}
\* Request r is parsed to its end, and the connection still takes its answer.
Waiting(r) == r < req /\ ~eof /\ ~lost

\* On one connection the answers go out in the order of the requests, each
\* begun once, although every request has a task of its own: it is the pausing
\* of the transport that keeps the tasks in order (protocol.py 223 and 122).
\* Requests that come in one read, and errors after an answer, defeat it.
AnswersInOrder ==
  spanned \/ late \/ \A i, j \in 1..Len(out) : i < j => out[i] < out[j]

\* _receiver looks up _body_future of the connection when it is called, not the
\* one of its request (protocol.py 214-218).  No handler is ever given the body of
\* a request before its own; that of a later one only if it asks after its own
\* answer, which lets the next request in, or if something else did: a second
\* request in the same read, an error after an answer, the answer to an upgrade.
OwnBody ==
  \A r \in Requests :
    /\ body[r] \in {Pending, Lost} \cup r..Last
    /\ body[r] \in {Pending, Lost, r} \/ r \in tardy \/ spanned \/ late \/ upgraded

\* Reading is never left paused with nothing to do: some task has still to
\* answer, and will resume it (protocol.py 122).  An answer that came before the
\* end of its request resumed too early, and the connection hangs.
NotStalled ==
  (~feeding /\ paused) =>
    early \/ eof \/ lost \/ \E r \in 1..(req - 1) : ~Answered(r)

\* A complete request gets an answer, unless the connection ends or a second
\* request came in the same read (server.py 75-90 and protocol.py 220-222).
EachAnswered ==
  \A r \in Requests :
    Waiting(r) ~> (~Waiting(r) \/ spanned \/ late \/ Answered(r))

\* No handler goes on waiting for a body on a connection that is lost
\* (protocol.py 225-231).
LostEndsReceive ==
  \A r \in Requests : (lost /\ awaits[r] # 0) ~> (awaits[r] = 0)

\* Only a request that the parser rejects is answered by the 500 of
\* data_received; tests/test_net_web.py 41 and 56-57 have the body of a request
\* read in full.
OnlyBadFails == broken => sender \in Bad
=============================================================================
