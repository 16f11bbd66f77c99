------------------------------ MODULE HttpServer ------------------------------
(***************************************************************************)
(* http_server.cpp with http_response_writer.cpp: one task polls a few     *)
(* connections, each with one request and one answer.  A router or a       *)
(* stream that works on a file yields, and the yield (RemoteService::Yield)*)
(* polls the connections that write a response from inside the other one's *)
(* poll.  `stack' is that nesting.  The objects a request brings (a body   *)
(* sink, a response stream, a completion) delete themselves on their last  *)
(* call; a request has at most one.                                        *)
(*                                                                         *)
(* Time is kept as ages: an age is the time since a stamp was taken, so a  *)
(* stamp `now' taken when a frame began has that frame's age.              *)
(***************************************************************************)
EXTENDS Integers, Sequences, FiniteSets

CONSTANTS N,              \* maximum_connections
          MaxBody,        \* bytes of a body (a bound)
          MaxStreams,     \* slots for log and event streams
          HeaderTimeout, BodyTimeout, IdleTimeout, WriteTimeout,
          MaxCall,        \* how long a poll may take (a bound)
          MaxYields       \* yields of one call (a bound)

ASSUME HttpServerAssumption ==
  /\ N \in Nat \ {0} /\ MaxBody \in Nat /\ MaxStreams \in Nat
  /\ {HeaderTimeout, BodyTimeout, IdleTimeout, WriteTimeout} \subseteq Nat \ {0}
  /\ MaxCall \in Nat \ {0} /\ MaxYields \in Nat

VARIABLES conn,      \* connections_, with the object of the request
          polling_,
          stack,     \* the frames of Poll and PollResponsesCooperatively
          stopped    \* has the task ended?

vars == <<conn, polling_, stack, stopped>>

Conns == 0..(N - 1)

Fresh ==
  [active |-> FALSE, state |-> "Idle", transport |-> "none",
   sink |-> FALSE,         \* body_sink_ is not 0
   ended |-> TRUE,         \* body_sink_ended_
   remaining |-> 0,        \* body_remaining_
   unread |-> 0,           \* read_size_ - read_offset_
   writer |-> "Idle", body |-> "Empty",
   activated |-> FALSE, finished |-> FALSE,
   cancels |-> 0,          \* calls of Cancel; stream_cancelled_ is cancels > 0
   fragment |-> FALSE,     \* stream_offset_ < stream_size_
   completion |-> FALSE,   \* response_completion_ is not 0
   notified |-> FALSE, pending |-> FALSE, started |-> 0, progress |-> 0,
   kind |-> "none",        \* the object: upload, json, log, file or owned
   live |-> 0,             \* news minus deletes of it
   slot |-> FALSE,         \* does the router's slot point to it?
   moved |-> 0]            \* age of the last byte or armed timer (a history field)

Init ==
  /\ conn = [c \in Conns |-> Fresh] /\ polling_ = [c \in Conns |-> FALSE]
  /\ stack = <<>> /\ stopped = FALSE

-----------------------------------------------------------------------------
(* The objects of a request. *)

\* active_upload_ holds an upload, log_streams_ and active_event_streams_ a log.
New(k, kind) ==
  [k EXCEPT !.live = @ + 1, !.kind = kind, !.slot = kind \in {"upload", "log"}]

\* active_upload_ # 0
UploadActive == \E d \in Conns : conn[d].kind = "upload" /\ conn[d].slot

StreamFree == Cardinality({d \in Conns : conn[d].kind = "log" /\ conn[d].slot}) < MaxStreams

\* Mutant: an aborted sink keeps the router's slot.
AbortKeepsSlot(k) == [k EXCEPT !.live = @ - 1]

\* HttpBodySink::Abort releases the slot and deletes.
Abort(k) == [k EXCEPT !.live = @ - 1, !.slot = FALSE]

\* HttpCompletion::Complete does too.
Complete(k) == [k EXCEPT !.live = @ - 1, !.slot = FALSE]

-----------------------------------------------------------------------------
(* HttpResponseWriter. *)

WriterActive(k) == k.writer \in {"Headers", "FixedBody", "StreamBody"}

HasPendingOutput(k) ==
  k.writer \in {"Headers", "FixedBody"} \/ (k.writer = "StreamBody" /\ k.fragment)

\* Mutant: a stream that has not sent its headers is not cancelled.
WriterAbortLate(k) ==
  LET cancel == k.activated /\ k.writer = "StreamBody" /\ ~k.finished /\ k.cancels = 0
  IN  [k EXCEPT !.cancels = IF cancel THEN @ + 1 ELSE @,
                !.slot = @ /\ ~cancel,
                !.writer = IF @ = "Complete" THEN @ ELSE "Failed"]

\* HttpResponseWriter::Abort; Cancel of a stream releases its slot.
WriterAbort(k) ==
  LET cancel == k.activated /\ ~k.finished /\ k.cancels = 0
  IN  [k EXCEPT !.cancels = IF cancel THEN @ + 1 ELSE @,
                !.slot = @ /\ ~cancel,
                !.writer = IF @ = "Complete" THEN @ ELSE "Failed"]

WriterStart(k, body) ==
  [k EXCEPT !.writer = "Headers", !.body = body, !.activated = (body = "Stream"),
            !.finished = FALSE, !.cancels = 0, !.fragment = FALSE]

-----------------------------------------------------------------------------
(* HttpConnection. *)

Reading(k) == k.state \in {"ReadingHead", "ReadingBody"}

AbortBody(k) ==
  IF k.sink /\ ~k.ended THEN [Abort(k) EXCEPT !.sink = FALSE, !.ended = TRUE]
  ELSE [k EXCEPT !.sink = FALSE]

NotifyCompletion(k) ==
  IF k.notified THEN k
  ELSE LET n == [k EXCEPT !.notified = TRUE, !.completion = FALSE]
       IN  IF k.completion THEN Complete(n) ELSE n

\* Terminate: its argument only tells the log.
Terminate(k) ==
  IF ~k.active THEN k
  ELSE LET a == AbortBody(k)
           w == IF WriterActive(a) THEN WriterAbort(a) ELSE a
       IN  [NotifyCompletion(w) EXCEPT !.transport = "closed", !.active = FALSE,
                                       !.state = "Idle"]

\* phase_timing_pending_ = true: the stamps are not read until they are taken
\* again, so they are 0.
Rearm(k) == [k EXCEPT !.pending = TRUE, !.started = 0, !.progress = 0, !.moved = 0]

\* A response whose writer has started.
Started(k, body, completion) ==
  [Rearm(WriterStart(k, body)) EXCEPT !.state = "WritingResponse",
                                      !.completion = completion, !.notified = FALSE]

\* BeginResponse: the response starts; or it is not valid, its completion is
\* told so and an error response without one starts; or neither does.
BeginResponse(k, body, completion) ==
  LET refused == [IF completion THEN Complete(k) ELSE k EXCEPT !.writer = "Failed"]
  IN  {Started(k, body, completion), Started(refused, "Fixed", FALSE), Terminate(refused)}

BeginError(k) == BeginResponse(k, "Fixed", FALSE)

-----------------------------------------------------------------------------
(* The frames.  A connection whose Poll has called out is in a frame with  *)
(* that call as its op; otherwise the frame is in its loop, next at `at'.   *)

Top == stack[Len(stack)]
NewFrame(coop) == [coop |-> coop, age |-> 0, at |-> 0, op |-> "Loop", yields |-> 0]

\* Mutant: the nested loop polls the connection that yielded.
EligibleAny(c, coop) ==
  conn[c].active /\ (coop => conn[c].state = "WritingResponse")

\* Which connections the loop of Poll and of PollResponsesCooperatively take.
Eligible(c, coop) ==
  ~polling_[c] /\ conn[c].active /\ (coop => conn[c].state = "WritingResponse")

\* The loop of the innermost frame is at c.
Turn(c) ==
  /\ stack # <<>> /\ Top.op = "Loop" /\ c >= Top.at
  /\ Eligible(c, Top.coop)
  /\ \A d \in Top.at..(c - 1) : ~Eligible(d, Top.coop)

\* The Poll of c has called op, which has not returned.
In(c, op) == stack # <<>> /\ Top.op = op /\ Top.at = c

SetTop(at, op, yields) ==
  stack' = [stack EXCEPT ![Len(stack)] = [@ EXCEPT !.at = at, !.op = op, !.yields = yields]]

\* The Poll of c ends with one of these connections.
Returns(c, results) ==
  /\ \E k \in results : conn' = [conn EXCEPT ![c] = k]
  /\ polling_' = [polling_ EXCEPT ![c] = FALSE]
  /\ SetTop(c + 1, "Loop", 0)
  /\ UNCHANGED stopped

Call(c, k, op) ==
  /\ conn' = [conn EXCEPT ![c] = k]
  /\ polling_' = [polling_ EXCEPT ![c] = TRUE]
  /\ SetTop(c, op, 0)
  /\ UNCHANGED stopped

\* phase_timing_pending_: the timers of a phase start with its first Poll.
Armed(c) ==
  IF conn[c].pending
  THEN [conn[c] EXCEPT !.pending = FALSE, !.started = Top.age, !.progress = Top.age,
                       !.moved = 0]
  ELSE conn[c]

\* last_progress_ms_ = now_ms
Progress(k) == [k EXCEPT !.progress = Top.age, !.moved = 0]

\* A now_ms older than the stamp expires nothing.
Expired(age, duration) == age >= Top.age /\ age - Top.age >= duration

-----------------------------------------------------------------------------
(* The loop: HttpServer::Poll, RemoteService::Run and Yield. *)

\* TakeFinishedTransport.  The other fields stay as they were in the code, and
\* nothing reads them before Begin and Start have set them: they are set now.
TakeFinishedTransport(k) == [Fresh EXCEPT !.live = k.live, !.slot = k.slot]

ReleaseFinished(cs) ==
  [c \in Conns |-> IF cs[c].active THEN cs[c] ELSE TakeFinishedTransport(cs[c])]

\* HttpConnection::Begin.
Begin == [Fresh EXCEPT !.active = TRUE, !.state = "ReadingHead", !.transport = "open"]

\* Poll starts: ReleaseFinished, then Accept gives at most one new connection
\* to the first one that is not active.
ServerPoll ==
  /\ ~stopped /\ stack = <<>>
  /\ LET cs == ReleaseFinished(conn)
         free == {c \in Conns : ~cs[c].active}
     IN  \/ conn' = cs
         \/ \E c \in free :
              /\ \A d \in free : c <= d
              /\ cs[c].transport = "none"
              /\ conn' = [cs EXCEPT ![c] = Begin]
  /\ stack' = <<NewFrame(FALSE)>>
  /\ UNCHANGED <<polling_, stopped>>

\* The loop of a frame has no connection left: ReleaseFinished, and back to the
\* call that yielded.
LoopEnd ==
  /\ stack # <<>> /\ Top.op = "Loop" /\ \A c \in Conns : ~Turn(c)
  /\ conn' = ReleaseFinished(conn)
  /\ stack' = SubSeq(stack, 1, Len(stack) - 1)
  /\ UNCHANGED <<polling_, stopped>>

\* A call that works on a file yields: Begin and Finish of an upload, a Probe,
\* and Read of a file's stream.
Yield ==
  /\ stack # <<>> /\ Top.op # "Loop" /\ Top.yields < MaxYields
  /\ conn[Top.at].kind \notin {"json", "log"}
  /\ stack' = Append([stack EXCEPT ![Len(stack)].yields = @ + 1], NewFrame(TRUE))
  /\ UNCHANGED <<conn, polling_, stopped>>

\* RemoteService::Run ends its loop, on a stop request or a listener error:
\* HttpServer::Stop.
Stop ==
  /\ ~stopped /\ stack = <<>>
  /\ conn' = ReleaseFinished([c \in Conns |-> Terminate(conn[c])])
  /\ stopped' = TRUE
  /\ UNCHANGED <<polling_, stack>>

\* A stamp that something may read grows older, up to an age beyond which
\* nothing tells two stamps apart: it has expired in every frame.
Older(age, read, limit) == IF read /\ age < limit THEN age + 1 ELSE age

\* Time passes while the task sleeps between two polls, and inside the calls
\* that work on a whole file or wait for the emulator; a fragment takes none.
Tick ==
  /\ stack # <<>> => Top.op \in {"Probe", "Begin", "Finish"}
  /\ \A i \in DOMAIN stack : stack[i].age < MaxCall
  /\ conn' = [c \in Conns |->
                LET k == conn[c] IN
                [k EXCEPT
                   !.started = Older(@, ~k.pending /\ Reading(k),
                                     MaxCall + IF k.state = "ReadingHead"
                                               THEN HeaderTimeout ELSE BodyTimeout),
                   !.progress = Older(@, ~k.pending /\ k.active,
                                      MaxCall + IF Reading(k) THEN IdleTimeout
                                                ELSE WriteTimeout),
                   !.moved = Older(@, ~k.pending /\ k.active /\ ~Reading(k), WriteTimeout)]]
  /\ stack' = [i \in DOMAIN stack |-> [stack[i] EXCEPT !.age = @ + 1]]
  /\ UNCHANGED <<polling_, stopped>>

-----------------------------------------------------------------------------
(* HttpConnection::Poll, the head of a request. *)

\* Mutant: only a client that has begun its body is timed out.
HeadExpiredNever(k) == FALSE

HeadExpired(k) == Expired(k.started, HeaderTimeout) \/ Expired(k.progress, IdleTimeout)

PollHeadTimeout(c) ==
  /\ Turn(c) /\ Armed(c).state = "ReadingHead" /\ HeadExpired(Armed(c))
  /\ Returns(c, BeginError(Armed(c)))

BodyExpired(k) == Expired(k.started, BodyTimeout) \/ Expired(k.progress, IdleTimeout)

PollBodyTimeout(c) ==
  /\ Turn(c) /\ Armed(c).state = "ReadingBody" /\ BodyExpired(Armed(c))
  /\ Returns(c, BeginError(AbortBody(Armed(c))))

CanRead(c) ==
  /\ Turn(c)
  /\ \/ Armed(c).state = "ReadingHead" /\ ~HeadExpired(Armed(c))
     \/ Armed(c).state = "ReadingBody" /\ ~BodyExpired(Armed(c))

\* Read: nothing to read, or the client is gone or the socket has an error.
PollReadNone(c) == CanRead(c) /\ Returns(c, {Armed(c)})
PollReadEnd(c) == CanRead(c) /\ Returns(c, {Terminate(Armed(c))})

\* A part of the head, or one that the parser refuses.
PollHeadPart(c) ==
  /\ CanRead(c) /\ Armed(c).state = "ReadingHead"
  /\ Returns(c, {Progress(Armed(c))} \cup BeginError(Progress(Armed(c))))

\* The head is complete, with `unread' bytes behind it in the buffer.
HeadComplete(c) == CanRead(c) /\ Armed(c).state = "ReadingHead"
Request(c, unread) == [Progress(Armed(c)) EXCEPT !.unread = unread]

\* Route answers, with or without an object that owns the text; a request that
\* is refused, an upload or a stream that finds no slot included.
RouteRespond(c) ==
  /\ HeadComplete(c)
  /\ \E unread \in 0..MaxBody, body \in {"Empty", "Fixed"} :
       Returns(c, BeginResponse(Request(c, unread), body, FALSE)
                    \cup BeginResponse(New(Request(c, unread), "owned"), body, TRUE))

\* Route starts a stream of the log or of a file.
RouteStream(c) ==
  /\ HeadComplete(c)
  /\ \E unread \in 0..MaxBody, kind \in {"log", "file"} :
       /\ kind = "log" => StreamFree
       /\ Returns(c, BeginResponse(New(Request(c, unread), kind), "Stream", TRUE))

\* Route works on files itself (ProbeDeveloperFile of HEAD, or the deletion of a
\* directory) and answers.
RouteProbe(c) ==
  /\ HeadComplete(c)
  /\ \E unread \in 0..MaxBody : Call(c, Request(c, unread), "Probe")

ProbeReturns(c) ==
  /\ In(c, "Probe")
  /\ Returns(c, BeginResponse(conn[c], "Empty", FALSE)
                  \cup BeginResponse(New(conn[c], "owned"), "Empty", TRUE))

-----------------------------------------------------------------------------
(* HttpConnection::Poll, the body of a request. *)

\* RejectBody: the sink answers, or is aborted.
RejectBody(k) ==
  LET e == [k EXCEPT !.sink = FALSE, !.ended = TRUE, !.unread = 0]
  IN  BeginResponse([e EXCEPT !.slot = FALSE], "Fixed", TRUE) \cup BeginError(Abort(e))

\* ProcessBufferedInput for a body: data behind it, a sink that refuses it, a
\* part of it, or the last of it, which calls Finish.
ProcessBody(c, k) ==
  \/ k.unread > k.remaining /\ Returns(c, BeginError(AbortBody(k)))
  \/ k.unread \in 1..k.remaining /\ Returns(c, RejectBody(k))
  \/ k.unread < k.remaining
       /\ Returns(c, {[k EXCEPT !.remaining = @ - k.unread, !.unread = 0]})
  \/ k.unread = k.remaining
       /\ Call(c, [k EXCEPT !.remaining = 0, !.unread = 0, !.sink = FALSE, !.ended = TRUE],
               "Finish")

\* RouteRequest with the sink that Route gave it.
ReceiveBody(c, k, length) ==
  ProcessBody(c, [Rearm(k) EXCEPT !.sink = TRUE, !.ended = FALSE, !.remaining = length,
                                  !.state = "ReadingBody"])

\* A small JSON or text body; its length may be missing or too large.
RouteJson(c) ==
  /\ HeadComplete(c)
  /\ \E unread \in 0..MaxBody :
       LET k == New(Request(c, unread), "json") IN
       \/ \E length \in 0..MaxBody : ReceiveBody(c, k, length)
       \/ Returns(c, BeginError(AbortBody([k EXCEPT !.sink = TRUE, !.ended = FALSE])))

\* active_upload_ refuses a second upload.
UploadAllowed == ~UploadActive

\* An upload takes the slot before Begin hashes the file it replaces ...
RouteUpload(c) ==
  /\ HeadComplete(c) /\ UploadAllowed
  /\ \E unread \in 0..MaxBody : Call(c, New(Request(c, unread), "upload"), "Begin")

\* ... which may fail.
BeginReturns(c) ==
  /\ In(c, "Begin")
  /\ \/ \E length \in 0..MaxBody : ReceiveBody(c, conn[c], length)
     \/ Returns(c, BeginError(Abort(conn[c])))

PollReadBody(c) ==
  /\ CanRead(c) /\ Armed(c).state = "ReadingBody"
  /\ \E size \in 1..(MaxBody + 1) :
       ProcessBody(c, [Progress(Armed(c)) EXCEPT !.unread = size])

\* FinishBody: Finish answers and the object becomes the completion of the
\* response, or it is aborted.
FinishReturns(c) ==
  /\ In(c, "Finish")
  /\ Returns(c, BeginResponse([conn[c] EXCEPT !.slot = FALSE], "Fixed", TRUE)
                  \cup BeginError(Abort(conn[c])))

-----------------------------------------------------------------------------
(* HttpConnection::PollResponse. *)

Writing(c) == Turn(c) /\ Armed(c).state = "WritingResponse"

\* Data behind the request of a stream.
Unexpected(k) == k.body = "Stream" /\ k.unread > 0

PollUnexpected(c) ==
  /\ Writing(c) /\ Unexpected(Armed(c))
  /\ Returns(c, {Terminate(Armed(c))})

WriteExpired(k) == HasPendingOutput(k) /\ Expired(k.progress, WriteTimeout)

PollWriteTimeout(c) ==
  /\ Writing(c) /\ ~Unexpected(Armed(c)) /\ WriteExpired(Armed(c))
  /\ Returns(c, {Terminate(Armed(c))})

CanWrite(c) == Writing(c) /\ ~Unexpected(Armed(c)) /\ ~WriteExpired(Armed(c))

\* The rest of the headers, of the fixed body or of the fragment has been sent.
Sent(k) ==
  CASE k.writer = "Headers" /\ k.body = "Empty" -> Terminate([k EXCEPT !.writer = "Complete"])
    [] k.writer = "Headers" /\ k.body = "Fixed" -> [k EXCEPT !.writer = "FixedBody"]
    [] k.writer = "Headers" /\ k.body = "Stream" -> [k EXCEPT !.writer = "StreamBody"]
    [] k.writer = "FixedBody" -> Terminate([k EXCEPT !.writer = "Complete"])
    [] k.writer = "StreamBody" -> [k EXCEPT !.fragment = FALSE]

\* WritePending: nothing, a part or all of it is sent, or the client is gone or
\* the socket has an error.
WritePending(k) == {k, Progress(k), Sent(Progress(k)), Terminate(k)}

PollWrite(c) ==
  /\ CanWrite(c) /\ HasPendingOutput(Armed(c))
  /\ Returns(c, WritePending(Armed(c)))

\* The fragment has been sent: the stream is asked for the next one.
PollStreamRead(c) ==
  /\ CanWrite(c) /\ ~HasPendingOutput(Armed(c))
  /\ Call(c, Armed(c), "Read")

\* Data, which is written at once; nothing, so the client is probed; the end;
\* or an error.
StreamReadReturns(c) ==
  /\ In(c, "Read")
  /\ Returns(c, WritePending([conn[c] EXCEPT !.fragment = TRUE])
                  \cup {k \in {conn[c]} : k.kind = "log"}
                  \cup {Terminate(conn[c]),
                        Terminate([conn[c] EXCEPT !.finished = TRUE, !.writer = "Complete"])})

-----------------------------------------------------------------------------

Poll(c) ==
  \/ PollHeadTimeout(c) \/ PollBodyTimeout(c) \/ PollReadNone(c) \/ PollReadEnd(c)
  \/ PollHeadPart(c) \/ RouteRespond(c) \/ RouteStream(c) \/ RouteProbe(c) \/ ProbeReturns(c)
  \/ RouteJson(c) \/ RouteUpload(c) \/ BeginReturns(c) \/ PollReadBody(c) \/ FinishReturns(c)
  \/ PollUnexpected(c) \/ PollWriteTimeout(c) \/ PollWrite(c) \/ PollStreamRead(c)
  \/ StreamReadReturns(c)

Server == ServerPoll \/ LoopEnd \/ Yield \/ \E c \in Conns : Poll(c)

Next == Server \/ Stop \/ Tick

Spec == Init /\ [][Next]_vars

\* The task polls in an endless loop, a file has an end, and time does not stand
\* still: Run sleeps a millisecond between two polls (SF, since a clock whose
\* ticks fall between polls is not enabled continuously).
FairSpec == Spec /\ WF_vars(Server) /\ SF_vars(Tick)

-----------------------------------------------------------------------------
(* Properties. *)

Ops == {"Probe", "Begin", "Finish", "Read"}

TypeOK ==
  /\ \A c \in Conns :
       LET k == conn[c] IN
       /\ DOMAIN k = DOMAIN Fresh
       /\ k.state \in {"Idle", "ReadingHead", "ReadingBody", "WritingResponse"}
       /\ k.active = (k.state # "Idle")
       /\ k.transport \in {"none", "open", "closed"} /\ (k.transport = "open") = k.active
       /\ k.remaining \in 0..MaxBody /\ k.unread \in 0..(MaxBody + 1)
       /\ k.writer \in {"Idle", "Headers", "FixedBody", "StreamBody", "Complete", "Failed"}
       /\ k.body \in {"Empty", "Fixed", "Stream"}
       /\ {k.started, k.progress, k.moved} \subseteq Nat
       /\ k.kind \in {"none", "upload", "json", "log", "file", "owned"}
  /\ \A i \in DOMAIN stack :
       /\ stack[i].age \in 0..MaxCall /\ stack[i].at \in 0..N
       /\ stack[i].op \in Ops \cup {"Loop"} /\ stack[i].coop = (i > 1)

\* Is c in a call that has not returned?
Calls(c) == {i \in DOMAIN stack : stack[i].op # "Loop" /\ stack[i].at = c}

(***************************************************************************)
(* Every object of a request is deleted exactly once: a pointer to it is   *)
(* never left behind (AbortBody, NotifyCompletion, the writer's stream),   *)
(* and an object that lives is held by the sink or the completion pointer  *)
(* of its connection, or by the call that made it.                         *)
(***************************************************************************)
ObjectsOwned ==
  \A c \in Conns :
    LET k == conn[c] IN
    /\ k.live \in {0, 1}
    /\ k.sink \/ k.completion => k.live = 1 /\ k.active
    /\ ~(k.sink /\ k.completion)
    /\ k.sink => ~k.ended
    /\ WriterActive(k) /\ k.activated /\ ~k.finished /\ k.cancels = 0 => k.live = 1
    /\ ~k.active => ~WriterActive(k)
    /\ k.live = 1 => k.sink \/ k.completion \/ Calls(c) # {}

(***************************************************************************)
(* "Called exactly once if a started stream is terminated abnormally"      *)
(* (HttpResponseStream::Cancel): when a connection has ended, its stream   *)
(* was read to its end or cancelled, and never both.                       *)
(***************************************************************************)
StreamCancelledOnce ==
  \A c \in Conns :
    LET k == conn[c] IN
    /\ k.cancels <= 1
    /\ ~k.active /\ k.activated => k.finished # (k.cancels = 1)

(***************************************************************************)
(* The slots of the routers: at most one upload and MaxStreams logs hold   *)
(* one, and a slot is held by a request that is still being served, so a   *)
(* client that went away never leaves the next one "busy" for ever.        *)
(***************************************************************************)
SlotsHeldByRequests ==
  /\ \A c \in Conns : conn[c].slot => conn[c].active /\ conn[c].live = 1
  /\ Cardinality({c \in Conns : conn[c].kind = "upload" /\ conn[c].slot}) <= 1
  /\ Cardinality({c \in Conns : conn[c].kind = "log" /\ conn[c].slot}) <= MaxStreams

(***************************************************************************)
(* polling_ is what keeps a connection from being polled from inside its   *)
(* own Poll: it is set exactly while one frame has a call of that          *)
(* connection under way, and that connection has not ended under the call. *)
(***************************************************************************)
NotReentered ==
  \A c \in Conns :
    /\ Cardinality(Calls(c)) = IF polling_[c] THEN 1 ELSE 0
    /\ \A i \in Calls(c) :
         conn[c].state = CASE stack[i].op \in {"Probe", "Begin"} -> "ReadingHead"
                           [] stack[i].op = "Finish" -> "ReadingBody"
                           [] stack[i].op = "Read" -> "WritingResponse"

(***************************************************************************)
(* "without re-entering request parsing, routing, body sinks": from inside *)
(* a yield, no request is read or routed and no sink is called.            *)
(***************************************************************************)
RequestsNotNested == \A i \in DOMAIN stack : stack[i].op \in Ops \ {"Read"} => i = 1

(***************************************************************************)
(* The cooperative server stays in order: the objects of each request have *)
(* one owner, no connection is polled inside its own Poll and no request   *)
(* is served inside another.                                               *)
(***************************************************************************)
RequestsIsolated == TypeOK /\ ObjectsOwned /\ NotReentered /\ RequestsNotNested

(***************************************************************************)
(* "The outer timestamp is then stale, not evidence of a huge timeout"     *)
(* (Expired): a response is only given up for a write timeout when no byte *)
(* of it went out for that long.                                           *)
(***************************************************************************)
WriteTimeoutEarned ==
  [][\A c \in Conns : PollWriteTimeout(c) => Armed(c).moved >= WriteTimeout]_vars

(***************************************************************************)
(* A request is read to its end, answered or given up, whatever the client *)
(* sends and however slowly: the timers of the head and of the body.       *)
(***************************************************************************)
RequestEnds == \A c \in Conns : Reading(conn[c]) ~> ~Reading(conn[c])
=============================================================================
