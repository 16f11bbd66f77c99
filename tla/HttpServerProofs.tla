--------------------------- MODULE HttpServerProofs ---------------------------
(***************************************************************************)
(* The HTTP server for every number of connections, of streams and of      *)
(* yields inside one call.                                                 *)
(*                                                                         *)
(* The proof takes the operators on one connection first (Terminate,       *)
(* BeginResponse, WritePending ...), then the two ways a Poll leaves the   *)
(* innermost frame (ReturnsKeeps, CallKeeps), and then the actions.        *)
(***************************************************************************)
EXTENDS HttpServer, FiniteSetTheorems, SequenceTheorems, TLAPS

Fields == DOMAIN Fresh

\* The type of a connection, field by field.
IsConn(k) ==
  /\ DOMAIN k = Fields
  /\ k.active \in BOOLEAN /\ k.state \in {"Idle", "ReadingHead", "ReadingBody", "WritingResponse"}
  /\ k.transport \in {"none", "open", "closed"} /\ k.sink \in BOOLEAN /\ k.ended \in BOOLEAN
  /\ k.remaining \in 0..MaxBody /\ k.unread \in 0..(MaxBody + 1)
  /\ k.writer \in {"Idle", "Headers", "FixedBody", "StreamBody", "Complete", "Failed"}
  /\ k.body \in {"Empty", "Fixed", "Stream"} /\ k.activated \in BOOLEAN /\ k.finished \in BOOLEAN
  /\ k.cancels \in Nat /\ k.fragment \in BOOLEAN /\ k.completion \in BOOLEAN /\ k.notified \in BOOLEAN
  /\ k.pending \in BOOLEAN /\ k.started \in Nat /\ k.progress \in Nat
  /\ k.kind \in {"none", "upload", "json", "log", "file", "owned"}
  /\ k.live \in Int /\ k.slot \in BOOLEAN /\ k.moved \in Nat

FrameType ==
  [coop : BOOLEAN, age : 0..MaxCall, at : 0..N, op : Ops \cup {"Loop"}, yields : Nat]

Connected(k) ==
  (k.active <=> k.state # "Idle") /\ (k.active <=> k.transport = "open")

\* A request whose object, if there is one, is in no pointer, and without a response.
Clean(k) ==
  /\ ~k.sink /\ ~k.completion /\ ~WriterActive(k) /\ ~k.activated /\ k.cancels = 0

\* What a connection is in each state, and while a call of its Poll is under way.
IdleOK(k) ==
  /\ k.state = "Idle" /\ k.live = 0 /\ ~k.sink /\ ~k.completion /\ ~k.slot
  /\ ~WriterActive(k) /\ k.cancels <= 1 /\ (k.activated => (k.finished <=> k.cancels # 1))

HeadOK(k) == k.state = "ReadingHead" /\ Clean(k) /\ k.live = 0 /\ ~k.slot

BeginOK(k) == k.state = "ReadingHead" /\ Clean(k) /\ k.live = 1

BodyOK(k) ==
  /\ k.state = "ReadingBody" /\ k.sink /\ ~k.ended /\ ~k.completion /\ ~WriterActive(k)
  /\ ~k.activated /\ k.cancels = 0 /\ k.live = 1

FinishOK(k) == k.state = "ReadingBody" /\ Clean(k) /\ k.live = 1

WriteOK(k) ==
  /\ k.state = "WritingResponse" /\ ~k.sink /\ WriterActive(k) /\ ~k.notified
  /\ (k.completion => k.live = 1) /\ (~k.completion => k.live = 0) /\ (k.slot => k.completion)
  /\ k.cancels = 0 /\ ~k.finished /\ (k.activated => k.completion)
  /\ (k.activated <=> k.body = "Stream") /\ (k.writer = "StreamBody" => k.body = "Stream")
  /\ (k.writer = "FixedBody" => k.body = "Fixed")

\* What a connection is in a call of its Poll, and outside.
ConnOK(k, op) ==
  /\ IsConn(k) /\ Connected(k)
  /\ op = "Begin" => BeginOK(k)
  /\ op = "Probe" => HeadOK(k)
  /\ op = "Finish" => FinishOK(k)
  /\ op = "Read" => WriteOK(k) /\ k.writer = "StreamBody"
  /\ op = "Loop" => IdleOK(k) \/ HeadOK(k) \/ BodyOK(k) \/ WriteOK(k)

\* Only the innermost frame is in its loop; each of the others is in a call of a
\* connection of its own, which polling_ knows.
FramesOK ==
  /\ stack \in Seq(FrameType)
  /\ \A i \in DOMAIN stack : (stack[i].coop <=> i > 1)
  /\ \A i \in 1 .. Len(stack) - 1 : stack[i].op # "Loop"
  /\ \A i \in DOMAIN stack : stack[i].op \in Ops \ {"Read"} => i = 1
  /\ \A i \in DOMAIN stack : stack[i].op # "Loop" =>
       stack[i].at \in Conns /\ polling_[stack[i].at]
  /\ \A i, j \in DOMAIN stack :
       stack[i].op # "Loop" /\ stack[j].op # "Loop" /\ stack[i].at = stack[j].at => i = j
  /\ \A c \in Conns : polling_[c] => \E i \in DOMAIN stack : stack[i].op # "Loop" /\ stack[i].at = c

ConnsOK ==
  /\ conn = [c \in Conns |-> conn[c]] /\ polling_ \in [Conns -> BOOLEAN]
  /\ \A c \in Conns : ~polling_[c] => ConnOK(conn[c], "Loop")
  /\ \A i \in DOMAIN stack : stack[i].op # "Loop" => ConnOK(conn[stack[i].at], stack[i].op)

\* One upload and a bounded number of logs hold a router's slot.
SlotsOK ==
  /\ \A c, d \in Conns : conn[c].kind = "upload" /\ conn[c].slot
                         /\ conn[d].kind = "upload" /\ conn[d].slot => c = d
  /\ Cardinality({c \in Conns : conn[c].kind = "log" /\ conn[c].slot}) <= MaxStreams

\* The inductive invariant.
HttpInv == FramesOK /\ ConnsOK /\ SlotsOK

LEMMA FieldsAre ==
 Fields = {"active", "state", "transport", "sink", "ended", "remaining", "unread", "writer", "body",
   "activated", "finished", "cancels", "fragment", "completion", "notified", "pending", "started",
   "progress", "kind", "live", "slot", "moved"}
 BY DEF Fresh, Fields

\* A connection that Terminate may end: it has its object in one pointer or none.
Ending(k) ==
  /\ k.active /\ k.cancels = 0
  /\ (k.sink \/ k.completion => k.live = 1) /\ (~k.sink /\ ~k.completion => k.live = 0)
  /\ (k.slot => k.live = 1)
  /\ (k.sink => ~k.ended /\ ~k.completion) /\ (k.completion => ~k.notified)
  /\ (k.activated => (k.finished <=> ~WriterActive(k)))

\* The slot is kept or given up.
SlotKept(k, r) == r.slot => k.slot /\ r.kind = k.kind

LEMMA AbortBodyFacts ==
  ASSUME NEW k, IsConn(k), Connected(k), Ending(k)
  PROVE  LET r == AbortBody(k) IN
         /\ IsConn(r) /\ Connected(r) /\ Ending(r) /\ ~r.sink
         /\ r.state = k.state /\ SlotKept(k, r)
<1> DEFINE r == AbortBody(k)
<1>1. CASE k.sink
  <2>1. r = [Abort(k) EXCEPT !.sink = FALSE, !.ended = TRUE]
    BY <1>1 DEF AbortBody, Ending
  <2>2. IsConn(r)
    BY <2>1, FieldsAre DEF IsConn, Abort
  <2>3. ~r.sink /\ r.state = k.state /\ r.live = 0 /\ ~r.slot /\ ~r.completion
    BY <2>1, <1>1, FieldsAre DEF IsConn, Abort, Ending
  <2>4. Connected(r)
    BY <2>1, FieldsAre DEF IsConn, Abort, Connected
  <2>5. /\ r.active = k.active /\ r.cancels = k.cancels /\ r.activated = k.activated
        /\ r.finished = k.finished /\ r.writer = k.writer
    BY <2>1, FieldsAre DEF IsConn, Abort
  <2>6. QED
    BY <2>2, <2>3, <2>4, <2>5 DEF Ending, SlotKept, WriterActive
<1>2. CASE ~k.sink
  <2>1. r = [k EXCEPT !.sink = FALSE]
    BY <1>2 DEF AbortBody
  <2>2. IsConn(r)
    BY <2>1, FieldsAre DEF IsConn, Abort
  <2>3. ~r.sink /\ r.state = k.state /\ r.live = k.live /\ r.slot = k.slot /\ r.kind = k.kind
    BY <2>1, FieldsAre DEF IsConn, Ending
  <2>4. Connected(r)
    BY <2>1, FieldsAre DEF IsConn, Connected
  <2>5. /\ r.active = k.active /\ r.cancels = k.cancels /\ r.activated = k.activated
        /\ r.finished = k.finished /\ r.writer = k.writer /\ r.completion = k.completion
        /\ r.notified = k.notified
    BY <2>1, FieldsAre DEF IsConn
  <2>6. QED
    BY <1>2, <2>2, <2>3, <2>4, <2>5 DEF Ending, SlotKept, WriterActive
<1>3. QED
  BY <1>1, <1>2

\* What is left to Terminate when the writer is done.
Ended(k) ==
  /\ ~k.sink /\ ~WriterActive(k) /\ k.cancels <= 1
  /\ (k.activated => (k.finished <=> k.cancels # 1))
  /\ (k.completion => k.live = 1 /\ ~k.notified) /\ (~k.completion => k.live = 0)
  /\ (k.slot => k.live = 1)

LEMMA WriterAbortFacts ==
  ASSUME NEW k, IsConn(k), Ending(k), ~k.sink
  PROVE  LET r == IF WriterActive(k) THEN WriterAbort(k) ELSE k IN
         IsConn(r) /\ Ended(r) /\ SlotKept(k, r)
<1> DEFINE r == WriterAbort(k)
           cancel == k.activated /\ ~k.finished /\ k.cancels = 0
<1>1. CASE WriterActive(k)
  <2>1. r = [k EXCEPT !.cancels = IF cancel THEN @ + 1 ELSE @, !.slot = @ /\ ~cancel,
                      !.writer = IF @ = "Complete" THEN @ ELSE "Failed"]
    BY DEF WriterAbort
  <2>2. /\ r.cancels = (IF cancel THEN k.cancels + 1 ELSE k.cancels)
        /\ r.writer = "Failed" /\ r.live = k.live /\ r.kind = k.kind
    BY <2>1, <1>1, FieldsAre DEF IsConn, WriterActive
  <2>3. r.slot = (k.slot /\ ~cancel)
    BY <2>1, FieldsAre DEF IsConn
  <2>4. IsConn(r)
    BY <2>1, <2>2, <2>3, FieldsAre DEF IsConn
  <2>5. /\ r.sink = k.sink /\ r.completion = k.completion /\ r.notified = k.notified
        /\ r.activated = k.activated /\ r.finished = k.finished
    BY <2>1, FieldsAre DEF IsConn
  <2>6. cancel <=> k.activated
    BY <1>1 DEF Ending, IsConn
  <2> HIDE DEF cancel, r
  <2>7. r.slot => k.slot
    BY <2>3
  <2>8. Ended(r) /\ SlotKept(k, r)
    BY <1>1, <2>2, <2>4, <2>5, <2>6, <2>7 DEF Ending, Ended, SlotKept, WriterActive, IsConn
  <2>9. QED
    BY <1>1, <2>4, <2>8 DEF r
<1>2. CASE ~WriterActive(k)
  <2>1. Ended(k)
    BY <1>2 DEF Ending, Ended, IsConn
  <2>2. SlotKept(k, k)
    BY DEF SlotKept
  <2>3. QED
    BY <1>2, <2>1, <2>2
<1>3. QED
  BY <1>1, <1>2

LEMMA NotifyFacts ==
  ASSUME NEW k, IsConn(k), Ended(k)
  PROVE  LET r == [NotifyCompletion(k) EXCEPT !.transport = "closed", !.active = FALSE,
                                              !.state = "Idle"] IN
         IsConn(r) /\ Connected(r) /\ IdleOK(r) /\ SlotKept(k, r)
<1> DEFINE n == NotifyCompletion(k)
           r == [n EXCEPT !.transport = "closed", !.active = FALSE, !.state = "Idle"]
<1>1. /\ IsConn(n) /\ n.live = 0 /\ ~n.slot /\ ~n.completion /\ n.sink = k.sink
      /\ n.writer = k.writer /\ n.cancels = k.cancels /\ n.activated = k.activated
      /\ n.finished = k.finished
  <2>1. CASE k.completion
    <3>1. n = Complete([k EXCEPT !.notified = TRUE, !.completion = FALSE])
      BY <2>1 DEF NotifyCompletion, Ended
    <3>2. QED
      BY <2>1, <3>1, FieldsAre DEF Ended, Complete, IsConn
  <2>2. CASE ~k.completion
    <3>1. n = k \/ n = [k EXCEPT !.notified = TRUE, !.completion = FALSE]
      BY <2>2 DEF NotifyCompletion
    <3>2. CASE n = k
      BY <2>2, <3>2 DEF Ended, IsConn
    <3>3. CASE n = [k EXCEPT !.notified = TRUE, !.completion = FALSE]
      <4>1. IsConn(n) /\ ~n.completion
        BY <3>3, FieldsAre DEF IsConn
      <4>2. n.live = k.live /\ n.slot = k.slot /\ n.sink = k.sink
        BY <3>3, FieldsAre DEF IsConn
      <4>3. /\ n.writer = k.writer /\ n.cancels = k.cancels /\ n.activated = k.activated
            /\ n.finished = k.finished
        BY <3>3, FieldsAre DEF IsConn
      <4>4. k.live = 0 /\ ~k.slot
        BY <2>2 DEF Ended
      <4>5. QED
        BY <4>1, <4>2, <4>3, <4>4
    <3>4. QED
      BY <3>1, <3>2, <3>3
  <2>3. QED
    BY <2>1, <2>2
<1> HIDE DEF n
<1>2. IsConn(r) /\ ~r.active /\ r.state = "Idle" /\ r.transport = "closed"
  BY <1>1, FieldsAre DEF IsConn
<1>3. /\ r.live = 0 /\ ~r.slot /\ ~r.completion /\ r.sink = n.sink
      /\ r.writer = n.writer /\ r.cancels = n.cancels /\ r.activated = n.activated
      /\ r.finished = n.finished
  BY <1>1, FieldsAre DEF IsConn
<1> HIDE DEF r
<1>4. Connected(r) /\ IdleOK(r) /\ SlotKept(k, r)
  BY <1>1, <1>2, <1>3 DEF Ended, Connected, IdleOK, SlotKept, WriterActive
<1>5. QED
  BY <1>2, <1>4 DEF r, n

LEMMA TerminateFacts ==
  ASSUME NEW k, IsConn(k), Connected(k), Ending(k)
  PROVE  /\ IsConn(Terminate(k)) /\ Connected(Terminate(k)) /\ IdleOK(Terminate(k))
         /\ SlotKept(k, Terminate(k))
<1> DEFINE a == AbortBody(k)
           w == IF WriterActive(a) THEN WriterAbort(a) ELSE a
           r == [NotifyCompletion(w) EXCEPT !.transport = "closed", !.active = FALSE,
                                            !.state = "Idle"]
<1>1. Terminate(k) = r
  BY DEF Terminate, Ending
<1>2. IsConn(a) /\ Connected(a) /\ Ending(a) /\ ~a.sink /\ SlotKept(k, a)
  BY AbortBodyFacts
<1> HIDE DEF a
<1>3. IsConn(w) /\ Ended(w) /\ SlotKept(a, w)
  BY <1>2, WriterAbortFacts
<1> HIDE DEF w
<1>4. IsConn(r) /\ Connected(r) /\ IdleOK(r) /\ SlotKept(w, r)
  BY <1>3, NotifyFacts
<1> HIDE DEF r
<1>5. SlotKept(k, r)
  BY <1>2, <1>3, <1>4 DEF SlotKept
<1>6. QED
  BY <1>1, <1>4, <1>5

\* A request that is to be answered.
Ready(k, completion) ==
  /\ IsConn(k) /\ Connected(k) /\ k.active /\ Clean(k)
  /\ (completion => k.live = 1) /\ (~completion => k.live = 0 /\ ~k.slot)

LEMMA StartedFacts ==
  ASSUME NEW k, NEW completion \in BOOLEAN, Ready(k, completion),
         NEW body \in {"Empty", "Fixed", "Stream"}, body = "Stream" => completion
  PROVE  /\ ConnOK(Started(k, body, completion), "Loop")
         /\ SlotKept(k, Started(k, body, completion))
<1> DEFINE w == WriterStart(k, body)
           a == Rearm(w)
           r == Started(k, body, completion)
<1>1. r = [a EXCEPT !.state = "WritingResponse", !.completion = completion, !.notified = FALSE]
  BY DEF Started
<1>2. /\ IsConn(w) /\ w.writer = "Headers" /\ w.body = body /\ w.cancels = 0
  BY FieldsAre DEF Ready, WriterStart, IsConn
<1>3. /\ ~w.finished /\ ~w.fragment /\ (w.activated <=> body = "Stream")
  BY FieldsAre DEF Ready, WriterStart, IsConn
<1>4. /\ w.active = k.active /\ w.transport = k.transport /\ w.sink = k.sink
      /\ w.live = k.live /\ w.slot = k.slot /\ w.kind = k.kind
  BY FieldsAre DEF Ready, WriterStart, IsConn
<1> HIDE DEF w
<1>5. /\ IsConn(a) /\ a.writer = w.writer /\ a.body = w.body /\ a.cancels = w.cancels
      /\ a.finished = w.finished /\ a.activated = w.activated
  BY <1>2, FieldsAre DEF Rearm, IsConn
<1>6. /\ a.active = w.active /\ a.transport = w.transport /\ a.sink = w.sink
      /\ a.live = w.live /\ a.slot = w.slot /\ a.kind = w.kind
  BY <1>2, FieldsAre DEF Rearm, IsConn
<1> HIDE DEF a, r
<1>7. /\ IsConn(r) /\ r.state = "WritingResponse" /\ r.completion = completion /\ ~r.notified
  BY <1>1, <1>5, FieldsAre DEF IsConn
<1>8. /\ r.writer = a.writer /\ r.body = a.body /\ r.cancels = a.cancels
      /\ r.finished = a.finished /\ r.activated = a.activated
  BY <1>1, <1>5, FieldsAre DEF IsConn
<1>9. /\ r.active = a.active /\ r.transport = a.transport /\ r.sink = a.sink
      /\ r.live = a.live /\ r.slot = a.slot /\ r.kind = a.kind
  BY <1>1, <1>5, FieldsAre DEF IsConn
<1>10. WriteOK(r) /\ Connected(r) /\ SlotKept(k, r)
  BY <1>2, <1>3, <1>4, <1>5, <1>6, <1>7, <1>8, <1>9
     DEF WriteOK, Connected, SlotKept, Ready, Clean, WriterActive
<1>11. QED
  BY <1>7, <1>10 DEF ConnOK, r

LEMMA BeginResponseFacts ==
  ASSUME NEW k, NEW completion \in BOOLEAN, Ready(k, completion),
         NEW body \in {"Empty", "Fixed", "Stream"}, body = "Stream" => completion,
         NEW r \in BeginResponse(k, body, completion)
  PROVE  ConnOK(r, "Loop") /\ SlotKept(k, r)
<1> DEFINE o == IF completion THEN Complete(k) ELSE k
           f == [o EXCEPT !.writer = "Failed"]
<1>1. r \in {Started(k, body, completion), Started(f, "Fixed", FALSE), Terminate(f)}
  BY DEF BeginResponse
<1>2. Ready(o, FALSE) /\ SlotKept(k, o)
  <2>1. CASE completion
    <3>1. o = Complete(k)
      BY <2>1
    <3> HIDE DEF o
    <3>2. k.live = 1 /\ IsConn(k)
      BY <2>1 DEF Ready
    <3>3. IsConn(o) /\ o.live = 0
      BY <3>1, <3>2, FieldsAre DEF Complete, IsConn
    <3>4. ~o.slot
      BY <3>1, <3>2, FieldsAre DEF Complete, IsConn
    <3>5. /\ o.active = k.active /\ o.state = k.state /\ o.transport = k.transport
          /\ o.sink = k.sink /\ o.completion = k.completion
      BY <3>1, FieldsAre DEF Ready, Complete, IsConn
    <3>6. o.writer = k.writer /\ o.activated = k.activated /\ o.cancels = k.cancels
      BY <3>1, FieldsAre DEF Ready, Complete, IsConn
    <3>7. QED
      BY <3>3, <3>4, <3>5, <3>6 DEF Ready, Connected, Clean, WriterActive, SlotKept
  <2>2. CASE ~completion
    <3>1. o = k
      BY <2>2
    <3>2. QED
      BY <2>2, <3>1 DEF Ready, SlotKept
  <2>3. QED
    BY <2>1, <2>2
<1> HIDE DEF o
<1>3. Ready(f, FALSE) /\ SlotKept(k, f)
  <2>1. IsConn(f) /\ f.writer = "Failed" /\ f.live = o.live /\ f.slot = o.slot
    BY <1>2, FieldsAre DEF Ready, IsConn
  <2>2. /\ f.active = o.active /\ f.state = o.state /\ f.transport = o.transport
        /\ f.sink = o.sink /\ f.completion = o.completion
    BY <1>2, FieldsAre DEF Ready, IsConn
  <2>3. f.activated = o.activated /\ f.cancels = o.cancels /\ f.kind = o.kind
    BY <1>2, FieldsAre DEF Ready, IsConn
  <2> HIDE DEF f
  <2>4. QED
    BY <1>2, <2>1, <2>2, <2>3 DEF Ready, Connected, Clean, WriterActive, SlotKept
<1> HIDE DEF f
<1>4. CASE r = Started(k, body, completion)
  BY <1>4, StartedFacts
<1>5. CASE r = Started(f, "Fixed", FALSE)
  <2>1. ConnOK(r, "Loop") /\ SlotKept(f, r)
    BY <1>3, <1>5, StartedFacts
  <2>2. QED
    BY <1>3, <2>1 DEF SlotKept
<1>6. CASE r = Terminate(f)
  <2>1. IsConn(f) /\ Connected(f) /\ Ending(f)
    BY <1>3 DEF Ready, Clean, Ending
  <2>2. IsConn(r) /\ Connected(r) /\ IdleOK(r) /\ SlotKept(f, r)
    BY <1>6, <2>1, TerminateFacts
  <2>3. QED
    BY <1>3, <2>2 DEF SlotKept, ConnOK
<1>7. QED
  BY <1>1, <1>4, <1>5, <1>6

LEMMA FrameNew ==
  ASSUME NEW coop \in BOOLEAN
  PROVE  LET g == NewFrame(coop) IN
         /\ g \in FrameType
         /\ g.coop = coop /\ g.age = 0 /\ g.at = 0 /\ g.op = "Loop" /\ g.yields = 0
  BY HttpServerAssumption DEF FrameType, NewFrame
LEMMA FrameAge ==
  ASSUME NEW f \in FrameType, f.age < MaxCall
  PROVE  LET g == [f EXCEPT !.age = @ + 1] IN
         /\ g \in FrameType
         /\ g.coop = f.coop /\ g.age = f.age + 1 /\ g.at = f.at /\ g.op = f.op /\ g.yields = f.yields
  BY HttpServerAssumption DEF FrameType
LEMMA FrameYield ==
  ASSUME NEW f \in FrameType
  PROVE  LET g == [f EXCEPT !.yields = @ + 1] IN
         /\ g \in FrameType
         /\ g.coop = f.coop /\ g.age = f.age /\ g.at = f.at /\ g.op = f.op
  BY HttpServerAssumption DEF FrameType

\* Two connections that differ in their stamps and counts only.
Alike(k, r) ==
  /\ r.active = k.active /\ r.state = k.state /\ r.transport = k.transport
  /\ r.sink = k.sink /\ r.ended = k.ended /\ r.writer = k.writer /\ r.body = k.body
  /\ r.activated = k.activated /\ r.finished = k.finished /\ r.cancels = k.cancels
  /\ r.completion = k.completion /\ r.notified = k.notified
  /\ r.kind = k.kind /\ r.live = k.live /\ r.slot = k.slot

LEMMA AlikeOK ==
  ASSUME NEW k, NEW r, NEW op, IsConn(r), Alike(k, r), ConnOK(k, op)
  PROVE  ConnOK(r, op) /\ SlotKept(k, r)
<1>1. Connected(r) /\ SlotKept(k, r)
  BY DEF ConnOK, Alike, Connected, SlotKept
<1>2. /\ IdleOK(k) => IdleOK(r)
      /\ HeadOK(k) => HeadOK(r)
      /\ BeginOK(k) => BeginOK(r)
  BY DEF Alike, IdleOK, HeadOK, BeginOK, Clean, WriterActive
<1>3. /\ BodyOK(k) => BodyOK(r)
      /\ FinishOK(k) => FinishOK(r)
  BY DEF Alike, BodyOK, FinishOK, Clean, WriterActive
<1>4. WriteOK(k) => WriteOK(r)
  BY DEF Alike, WriteOK, WriterActive
<1>5. QED
  BY <1>1, <1>2, <1>3, <1>4 DEF ConnOK, Alike

LEMMA ArmedFacts ==
  ASSUME NEW c \in Conns, IsConn(conn[c]), Top.age \in Nat
  PROVE  /\ IsConn(Armed(c)) /\ Alike(conn[c], Armed(c))
         /\ Armed(c).unread = conn[c].unread /\ Armed(c).remaining = conn[c].remaining
         /\ Armed(c).fragment = conn[c].fragment
<1> DEFINE k == conn[c]
           r == Armed(c)
<1>1. CASE k.pending
  <2>1. r = [k EXCEPT !.pending = FALSE, !.started = Top.age, !.progress = Top.age, !.moved = 0]
    BY <1>1 DEF Armed
  <2> HIDE DEF r, k
  <2>2. IsConn(k)
    BY DEF k
  <2>3. IsConn(r)
    BY <2>1, <2>2, FieldsAre DEF IsConn
  <2>4. Alike(k, r)
    BY <2>1, <2>2, FieldsAre DEF IsConn, Alike
  <2>5. r.unread = k.unread /\ r.remaining = k.remaining /\ r.fragment = k.fragment
    BY <2>1, <2>2, FieldsAre DEF IsConn
  <2>6. QED
    BY <2>3, <2>4, <2>5 DEF k, r
<1>2. CASE ~k.pending
  BY <1>2 DEF Armed, Alike
<1>3. QED
  BY <1>1, <1>2

LEMMA ProgressFacts ==
  ASSUME NEW k, IsConn(k), Top.age \in Nat
  PROVE  /\ IsConn(Progress(k)) /\ Alike(k, Progress(k))
         /\ Progress(k).unread = k.unread /\ Progress(k).remaining = k.remaining
         /\ Progress(k).fragment = k.fragment
<1> DEFINE r == Progress(k)
           t == Top.age
<1>1. r = [k EXCEPT !.progress = t, !.moved = 0] /\ t \in Nat
  BY DEF Progress
<1> HIDE DEF r, t
<1>2. IsConn(r)
  BY <1>1, FieldsAre DEF IsConn
<1>3. Alike(k, r)
  BY <1>1, FieldsAre DEF IsConn, Alike
<1>4. r.unread = k.unread /\ r.remaining = k.remaining /\ r.fragment = k.fragment
  BY <1>1, FieldsAre DEF IsConn
<1>5. QED
  BY <1>2, <1>3, <1>4 DEF r

LEMMA UnreadFacts ==
  ASSUME NEW k, IsConn(k), NEW n \in 0 .. (MaxBody + 1)
  PROVE  LET r == [k EXCEPT !.unread = n] IN
         IsConn(r) /\ Alike(k, r) /\ r.unread = n /\ r.remaining = k.remaining
<1> DEFINE r == [k EXCEPT !.unread = n]
<1>1. IsConn(r)
  BY FieldsAre DEF IsConn
<1>2. Alike(k, r)
  BY FieldsAre DEF IsConn, Alike
<1>3. r.unread = n /\ r.remaining = k.remaining
  BY FieldsAre DEF IsConn
<1>4. QED
  BY <1>1, <1>2, <1>3

LEMMA AlikeTrans ==
  ASSUME NEW k, NEW q, NEW r, Alike(k, q), Alike(q, r)
  PROVE  Alike(k, r)
  BY DEF Alike

LEMMA RequestFacts ==
  ASSUME NEW c \in Conns, NEW unread \in 0 .. MaxBody, IsConn(conn[c]), Top.age \in Nat
  PROVE  /\ IsConn(Request(c, unread)) /\ Alike(conn[c], Request(c, unread))
         /\ Request(c, unread).unread = unread
<1> DEFINE a == Armed(c)
           p == Progress(a)
<1>1. IsConn(a) /\ Alike(conn[c], a)
  BY ArmedFacts
<1> HIDE DEF a
<1>2. IsConn(p) /\ Alike(a, p)
  BY <1>1, ProgressFacts
<1>3. unread \in 0 .. (MaxBody + 1)
  BY HttpServerAssumption
<1> HIDE DEF p
<1>4. /\ IsConn([p EXCEPT !.unread = unread]) /\ Alike(p, [p EXCEPT !.unread = unread])
      /\ [p EXCEPT !.unread = unread].unread = unread
  BY <1>2, <1>3, UnreadFacts
<1>5. Alike(conn[c], [p EXCEPT !.unread = unread])
  BY <1>1, <1>2, <1>4, AlikeTrans
<1>6. QED
  BY <1>4, <1>5 DEF Request, p, a

\* A request that is routed gets its object.
LEMMA NewFacts ==
  ASSUME NEW k, IsConn(k), Connected(k), HeadOK(k), NEW kind \in {"upload", "json", "log", "file", "owned"}
  PROVE  LET r == New(k, kind) IN
         /\ Ready(r, TRUE) /\ BeginOK(r) /\ r.unread = k.unread /\ r.kind = kind
         /\ (r.slot => kind \in {"upload", "log"})
<1> DEFINE r == New(k, kind)
<1>1. IsConn(r) /\ r.kind = kind /\ r.unread = k.unread
  BY FieldsAre DEF IsConn, New
<1>2. r.live = 1 /\ (r.slot => kind \in {"upload", "log"})
  <2>1. k.live = 0
    BY DEF HeadOK
  <2>2. r.live = 1
    BY <2>1, FieldsAre DEF IsConn, New
  <2>3. r.slot = (kind \in {"upload", "log"})
    BY FieldsAre DEF IsConn, New
  <2> HIDE DEF r
  <2>4. QED
    BY <2>2, <2>3
<1>3. /\ r.active = k.active /\ r.state = k.state /\ r.transport = k.transport
      /\ r.sink = k.sink /\ r.completion = k.completion
  BY FieldsAre DEF IsConn, New
<1>4. r.writer = k.writer /\ r.activated = k.activated /\ r.cancels = k.cancels
  BY FieldsAre DEF IsConn, New
<1> HIDE DEF r
<1>5. Connected(r) /\ Clean(r) /\ r.active /\ r.state = "ReadingHead"
  BY <1>3, <1>4 DEF HeadOK, Clean, Connected, WriterActive
<1>6. QED
  BY <1>1, <1>2, <1>5 DEF Ready, BeginOK, r

\* The innermost frame is in the loop and c is not in a call, or it is in a call of c.
AtTop(c) ==
  /\ stack # << >>
  /\ (Top.op = "Loop" /\ ~polling_[c]) \/ (Top.op # "Loop" /\ Top.at = c)

LEMMA TopFacts ==
  ASSUME FramesOK, stack # << >>
  PROVE  /\ Len(stack) \in Nat /\ Len(stack) > 0 /\ DOMAIN stack = 1 .. Len(stack)
         /\ Top = stack[Len(stack)] /\ Len(stack) \in DOMAIN stack
         /\ Top \in FrameType /\ Top.age \in Nat /\ Top.at \in 0 .. N /\ Top.op \in Ops \cup {"Loop"}
<1>1. Len(stack) \in Nat /\ Len(stack) > 0 /\ DOMAIN stack = 1 .. Len(stack)
  BY DEF FramesOK
<1>2. Top = stack[Len(stack)] /\ Len(stack) \in DOMAIN stack
  BY <1>1 DEF Top
<1>3. Top \in FrameType
  BY <1>1, <1>2 DEF FramesOK
<1>4. Top.age \in Nat /\ Top.at \in 0 .. N /\ Top.op \in Ops \cup {"Loop"}
  BY <1>3, HttpServerAssumption DEF FrameType
<1>5. QED
  BY <1>1, <1>2, <1>3, <1>4

\* The frames below the innermost one are in calls of other connections.
LEMMA OuterFrames ==
  ASSUME FramesOK, NEW c \in Conns, AtTop(c), NEW i \in DOMAIN stack, i # Len(stack)
  PROVE  stack[i].op # "Loop" /\ stack[i].at \in Conns \ {c}
<1>1. stack # << >>
  BY DEF AtTop
<1>2. i \in 1 .. Len(stack) - 1 /\ Len(stack) \in DOMAIN stack
  BY <1>1, TopFacts
<1>3. stack[i].op # "Loop" /\ stack[i].at \in Conns /\ polling_[stack[i].at]
  BY <1>2 DEF FramesOK
<1>4. CASE Top.op = "Loop" /\ ~polling_[c]
  BY <1>3, <1>4
<1>5. CASE Top.op # "Loop" /\ Top.at = c
  BY <1>2, <1>3, <1>5 DEF FramesOK, Top
<1>6. QED
  BY <1>3, <1>4, <1>5 DEF AtTop

\* A connection whose Poll is at work changes, and so does the innermost frame.
LEMMA TopStep ==
  ASSUME FramesOK, ConnsOK, NEW c \in Conns, AtTop(c),
         NEW k, NEW op \in Ops \cup {"Loop"}, NEW at \in 0 .. N,
         op # "Loop" => at = c, op \in Ops \ {"Read"} => Len(stack) = 1,
         ConnOK(k, op),
         conn' = [conn EXCEPT ![c] = k],
         polling_' = [polling_ EXCEPT ![c] = (op # "Loop")],
         SetTop(at, op, 0)
  PROVE  FramesOK' /\ ConnsOK'
<1> DEFINE n == Len(stack)
           f == stack[n]
           g == [f EXCEPT !.at = at, !.op = op, !.yields = 0]
<1>1. /\ stack # << >> /\ n \in Nat /\ n > 0 /\ DOMAIN stack = 1 .. n /\ n \in DOMAIN stack
      /\ f \in FrameType /\ stack \in Seq(FrameType) /\ Len(stack) = n
  <2>1. stack # << >>
    BY DEF AtTop
  <2>2. QED
    BY <2>1, TopFacts DEF FramesOK
<1>2. stack' = [stack EXCEPT ![n] = g]
  BY DEF SetTop
<1> HIDE DEF f
<1>3. /\ g \in FrameType
      /\ g.coop = f.coop /\ g.age = f.age /\ g.at = at /\ g.op = op
  BY <1>1 DEF FrameType
<1> HIDE DEF g, n
<1>4. /\ stack' \in Seq(FrameType) /\ Len(stack') = n /\ DOMAIN stack' = 1 .. n
      /\ stack'[n] = g /\ \A i \in 1 .. n : i # n => stack'[i] = stack[i]
  <2>1. stack'[n] = g /\ \A i \in 1 .. n : i # n => stack'[i] = stack[i]
    BY <1>1, <1>2
  <2>2. stack' \in Seq(FrameType) /\ Len(stack') = n /\ DOMAIN stack' = 1 .. n
    BY <1>1, <1>2, <1>3
  <2>3. QED
    BY <2>1, <2>2
<1>5. \A i \in 1 .. n : i # n => stack[i].op # "Loop" /\ stack[i].at \in Conns \ {c}
  BY <1>1, OuterFrames
<1>6. /\ polling_' \in [Conns -> BOOLEAN] /\ (polling_'[c] <=> op # "Loop")
      /\ \A d \in Conns \ {c} : polling_'[d] = polling_[d]
  BY DEF ConnsOK
<1>7. /\ conn' = [d \in Conns |-> conn'[d]] /\ conn'[c] = k
      /\ \A d \in Conns \ {c} : conn'[d] = conn[d]
  BY DEF ConnsOK
<1>8. FramesOK'
  <2>1. \A i \in DOMAIN stack' : (stack'[i].coop <=> i > 1)
    BY <1>1, <1>3, <1>4 DEF FramesOK, f
  <2>2. \A i \in 1 .. Len(stack') - 1 : stack'[i].op # "Loop"
    BY <1>1, <1>4, <1>5
  <2>3. \A i \in DOMAIN stack' : stack'[i].op \in Ops \ {"Read"} => i = 1
    BY <1>1, <1>3, <1>4 DEF FramesOK, n
  <2>4. \A i \in DOMAIN stack' : stack'[i].op # "Loop" =>
          stack'[i].at \in Conns /\ polling_'[stack'[i].at]
    BY <1>1, <1>3, <1>4, <1>5, <1>6 DEF FramesOK
  <2>5. \A i, j \in DOMAIN stack' :
          stack'[i].op # "Loop" /\ stack'[j].op # "Loop" /\ stack'[i].at = stack'[j].at => i = j
    BY <1>1, <1>3, <1>4, <1>5 DEF FramesOK
  <2>6. ASSUME NEW d \in Conns, polling_'[d]
        PROVE  \E i \in DOMAIN stack' : stack'[i].op # "Loop" /\ stack'[i].at = d
    <3>1. CASE d = c
      BY <2>6, <3>1, <1>1, <1>3, <1>4, <1>6
    <3>2. CASE d # c
      <4>1. PICK i \in DOMAIN stack : stack[i].op # "Loop" /\ stack[i].at = d
        BY <2>6, <3>2, <1>6 DEF FramesOK
      <4>2. i # n
        BY <3>2, <4>1 DEF AtTop, Top, n
      <4>3. QED
        BY <4>1, <4>2, <1>1, <1>4
    <3>3. QED
      BY <3>1, <3>2
  <2>7. QED
    BY <1>4, <2>1, <2>2, <2>3, <2>4, <2>5, <2>6 DEF FramesOK
<1>9. \A d \in Conns : ~polling_'[d] => ConnOK(conn'[d], "Loop")
  BY <1>6, <1>7 DEF ConnsOK
<1>10. \A i \in DOMAIN stack' : stack'[i].op # "Loop" => ConnOK(conn'[stack'[i].at], stack'[i].op)
  BY <1>1, <1>3, <1>4, <1>5, <1>7 DEF ConnsOK
<1>11. QED
  BY <1>6, <1>7, <1>8, <1>9, <1>10 DEF ConnsOK

\* Who holds the routers' slots.
Uploads == {c \in Conns : conn[c].kind = "upload" /\ conn[c].slot}
Logs == {c \in Conns : conn[c].kind = "log" /\ conn[c].slot}

\* A connection keeps or gives up its slot, or takes one that is free.
SlotStep(c, k) ==
  k.slot => \/ conn[c].slot /\ k.kind = conn[c].kind
            \/ k.kind = "upload" /\ UploadAllowed
            \/ k.kind = "log" /\ StreamFree
            \/ k.kind \notin {"upload", "log"}

LEMMA ConnsFinite == IsFiniteSet(Conns) /\ \A S \in SUBSET Conns : IsFiniteSet(S) /\ Cardinality(S) \in Nat
<1>1. IsFiniteSet(Conns)
  BY FS_Interval, HttpServerAssumption DEF Conns
<1>2. QED
  BY <1>1, FS_Subset, FS_CardinalityType

LEMMA LogsBound ==
  ASSUME SlotsOK, Logs' \subseteq Logs \/ (StreamFree /\ \E c \in Conns : Logs' \subseteq Logs \cup {c})
  PROVE  Cardinality(Logs') <= MaxStreams
<1>0. Logs \in SUBSET Conns /\ IsFiniteSet(Logs) /\ Cardinality(Logs) \in Nat
  BY ConnsFinite DEF Logs
<1>1. CASE Logs' \subseteq Logs
  <2>1. Cardinality(Logs') <= Cardinality(Logs) /\ Cardinality(Logs') \in Nat
    BY <1>0, <1>1, FS_Subset, FS_CardinalityType
  <2>2. Cardinality(Logs) <= MaxStreams
    BY DEF SlotsOK, Logs
  <2>3. QED
    BY <1>0, <2>1, <2>2, HttpServerAssumption
<1>2. ASSUME NEW c \in Conns, Logs' \subseteq Logs \cup {c}, StreamFree
      PROVE  Cardinality(Logs') <= MaxStreams
  <2>1. IsFiniteSet(Logs \cup {c}) /\ Cardinality(Logs \cup {c}) <= Cardinality(Logs) + 1
        /\ Cardinality(Logs \cup {c}) \in Nat
    BY <1>0, FS_AddElement, FS_CardinalityType
  <2>2. Cardinality(Logs') <= Cardinality(Logs \cup {c}) /\ Cardinality(Logs') \in Nat
    BY <2>1, <1>2, FS_Subset, FS_CardinalityType
  <2>3. Cardinality(Logs) < MaxStreams
    BY <1>2 DEF StreamFree, Logs
  <2>4. QED
    BY <1>0, <2>1, <2>2, <2>3, HttpServerAssumption
<1>3. QED
  BY <1>1, <1>2

LEMMA SlotsStep ==
  ASSUME SlotsOK, NEW c \in Conns, SlotStep(c, conn'[c]),
         \A d \in Conns : d # c => conn'[d] = conn[d]
  PROVE  SlotsOK'
<1>1. Logs' \subseteq Logs \/ (StreamFree /\ Logs' \subseteq Logs \cup {c})
  BY DEF Logs, SlotStep
<1>2. Cardinality(Logs') <= MaxStreams
  BY <1>1, LogsBound
<1>3. Uploads' \subseteq Uploads \/ (UploadAllowed /\ Uploads' \subseteq Uploads \cup {c})
  BY DEF Uploads, SlotStep
<1>4. UploadAllowed => Uploads = {}
  BY DEF Uploads, UploadAllowed, UploadActive
<1>5. \A d, e \in Uploads : d = e
  BY DEF SlotsOK, Uploads
<1>6. \A d, e \in Uploads' : d = e
  BY <1>3, <1>4, <1>5
<1>7. QED
  BY <1>2, <1>6 DEF SlotsOK, Uploads, Logs

LEMMA SlotsShrink ==
  ASSUME SlotsOK, \A d \in Conns : SlotKept(conn[d], conn'[d])
  PROVE  SlotsOK'
<1>1. Logs' \subseteq Logs /\ Uploads' \subseteq Uploads
  BY DEF Logs, Uploads, SlotKept
<1>2. Cardinality(Logs') <= MaxStreams
  BY <1>1, LogsBound
<1>3. \A d, e \in Uploads : d = e
  BY DEF SlotsOK, Uploads
<1>4. QED
  BY <1>1, <1>2, <1>3 DEF SlotsOK, Uploads, Logs

\* The Poll of c returns.
LEMMA ReturnsKeeps ==
  ASSUME HttpInv, NEW c \in Conns, AtTop(c), NEW S, Returns(c, S),
         \A k \in S : ConnOK(k, "Loop") /\ SlotStep(c, k)
  PROVE  HttpInv'
<1>1. PICK k \in S : conn' = [conn EXCEPT ![c] = k]
  BY DEF Returns
<1>2. polling_' = [polling_ EXCEPT ![c] = FALSE] /\ SetTop(c + 1, "Loop", 0)
  BY DEF Returns
<1>3. c + 1 \in 0 .. N
  BY HttpServerAssumption DEF Conns
<1>4. ("Loop" # "Loop") = FALSE
  OBVIOUS
<1>5. polling_' = [polling_ EXCEPT ![c] = ("Loop" # "Loop")]
  BY <1>2, <1>4
<1>6. FramesOK' /\ ConnsOK'
  BY <1>1, <1>2, <1>3, <1>5, TopStep DEF HttpInv, Ops
<1>7. conn'[c] = k /\ \A d \in Conns : d # c => conn'[d] = conn[d]
  BY <1>1 DEF HttpInv, ConnsOK
<1>8. SlotsOK'
  BY <1>7, SlotsStep DEF HttpInv
<1>9. QED
  BY <1>6, <1>8 DEF HttpInv

\* The Poll of c calls out.
LEMMA CallKeeps ==
  ASSUME HttpInv, NEW c \in Conns, AtTop(c), NEW k, NEW op \in Ops, Call(c, k, op),
         op # "Read" => Len(stack) = 1, ConnOK(k, op), SlotStep(c, k)
  PROVE  HttpInv'
<1>1. /\ conn' = [conn EXCEPT ![c] = k] /\ polling_' = [polling_ EXCEPT ![c] = TRUE]
      /\ SetTop(c, op, 0)
  BY DEF Call
<1>2. c \in 0 .. N
  BY HttpServerAssumption DEF Conns
<1>3. op # "Loop"
  BY DEF Ops
<1>4. (op # "Loop") = TRUE
  BY <1>3
<1>5. polling_' = [polling_ EXCEPT ![c] = (op # "Loop")]
  BY <1>1, <1>4
<1>6. FramesOK' /\ ConnsOK'
  BY <1>1, <1>2, <1>5, TopStep DEF HttpInv
<1>7. conn'[c] = k /\ \A d \in Conns : d # c => conn'[d] = conn[d]
  BY <1>1 DEF HttpInv, ConnsOK
<1>8. SlotsOK'
  BY <1>7, SlotsStep DEF HttpInv
<1>9. QED
  BY <1>6, <1>8 DEF HttpInv

-----------------------------------------------------------------------------
(* The steps of a Poll. *)

LEMMA SlotChain ==
  ASSUME NEW c \in Conns, NEW k, NEW r, SlotStep(c, k), SlotKept(k, r)
  PROVE  SlotStep(c, r)
  BY DEF SlotStep, SlotKept

LEMMA TurnFacts ==
  ASSUME HttpInv, NEW c \in Conns, Turn(c)
  PROVE  /\ AtTop(c) /\ Top.age \in Nat /\ IsConn(conn[c])
         /\ ConnOK(Armed(c), "Loop") /\ Alike(conn[c], Armed(c)) /\ SlotStep(c, Armed(c))
         /\ (Armed(c).state = "ReadingHead" => HeadOK(Armed(c)) /\ Len(stack) = 1)
         /\ (Armed(c).state = "ReadingBody" => BodyOK(Armed(c)) /\ Len(stack) = 1)
         /\ (Armed(c).state = "WritingResponse" => WriteOK(Armed(c)))
<1>1. /\ stack # << >> /\ Top.op = "Loop" /\ ~polling_[c]
      /\ (Top.coop => conn[c].state = "WritingResponse")
  BY DEF Turn, Eligible
<1>2. AtTop(c)
  BY <1>1 DEF AtTop
<1>3. Top.age \in Nat /\ Len(stack) \in Nat /\ Len(stack) > 0 /\ (Top.coop <=> Len(stack) > 1)
  BY <1>1, TopFacts DEF HttpInv, FramesOK
<1>4. ConnOK(conn[c], "Loop") /\ IsConn(conn[c])
  BY <1>1 DEF HttpInv, ConnsOK, ConnOK
<1> DEFINE k == Armed(c)
<1>5. IsConn(k) /\ Alike(conn[c], k)
  BY <1>3, <1>4, ArmedFacts
<1> HIDE DEF k
<1>6. ConnOK(k, "Loop") /\ SlotKept(conn[c], k)
  BY <1>4, <1>5, AlikeOK
<1>7. SlotStep(c, k)
  BY <1>6 DEF SlotStep, SlotKept
<1>8. /\ k.state = "ReadingHead" => HeadOK(k)
      /\ k.state = "ReadingBody" => BodyOK(k)
      /\ k.state = "WritingResponse" => WriteOK(k)
  BY <1>6 DEF ConnOK, IdleOK, HeadOK, BodyOK, WriteOK
<1>9. k.state = conn[c].state
  BY <1>5 DEF Alike
<1>10. ASSUME k.state # "WritingResponse" PROVE Len(stack) = 1
  <2>1. ~Top.coop
    BY <1>1, <1>9, <1>10
  <2>2. PICK n \in Nat : n = Len(stack)
    BY <1>3
  <2>3. n > 0 /\ ~(n > 1)
    BY <1>3, <2>1, <2>2
  <2>4. n = 1
    BY <2>3
  <2>5. QED
    BY <2>2, <2>4
<1>11. QED
  BY <1>2, <1>3, <1>4, <1>5, <1>6, <1>7, <1>8, <1>10 DEF k

LEMMA InFacts ==
  ASSUME HttpInv, NEW c \in Conns, NEW op \in Ops, In(c, op)
  PROVE  /\ AtTop(c) /\ Top.age \in Nat /\ ConnOK(conn[c], op) /\ SlotStep(c, conn[c])
         /\ (op # "Read" => Len(stack) = 1)
<1>1. stack # << >> /\ Top.op = op /\ Top.at = c /\ op # "Loop"
  BY DEF In, Ops
<1>2. AtTop(c) /\ Top.age \in Nat
  BY <1>1, TopFacts DEF AtTop, HttpInv
<1>3. Len(stack) \in DOMAIN stack /\ Top = stack[Len(stack)]
  BY <1>1, TopFacts DEF HttpInv
<1>4. ConnOK(conn[c], op)
  BY <1>1, <1>3 DEF HttpInv, ConnsOK
<1>5. op # "Read" => Len(stack) = 1
  BY <1>1, <1>3 DEF HttpInv, FramesOK
<1>6. QED
  BY <1>2, <1>4, <1>5 DEF SlotStep

\* An answer, whatever becomes of it.
LEMMA Answers ==
  ASSUME NEW c \in Conns, NEW k, NEW completion \in BOOLEAN, Ready(k, completion), SlotStep(c, k),
         NEW body \in {"Empty", "Fixed", "Stream"}, body = "Stream" => completion
  PROVE  \A r \in BeginResponse(k, body, completion) : ConnOK(r, "Loop") /\ SlotStep(c, r)
  BY BeginResponseFacts, SlotChain

LEMMA HeadReady ==
  ASSUME NEW k, ConnOK(k, "Loop"), HeadOK(k)
  PROVE  Ready(k, FALSE)
  BY DEF ConnOK, HeadOK, Ready, Connected

LEMMA BodyAborted ==
  ASSUME NEW k, IsConn(k), Connected(k), BodyOK(k)
  PROVE  Ready(AbortBody(k), FALSE) /\ SlotKept(k, AbortBody(k))
<1> DEFINE r == AbortBody(k)
<1>1. r = [Abort(k) EXCEPT !.sink = FALSE, !.ended = TRUE]
  BY DEF AbortBody, BodyOK
<1>2. IsConn(r)
  BY <1>1, FieldsAre DEF IsConn, Abort
<1>3. ~r.sink /\ ~r.slot
  BY <1>1, FieldsAre DEF IsConn, Abort
<1>4. r.live = k.live - 1 /\ r.completion = k.completion /\ r.activated = k.activated
  BY <1>1, FieldsAre DEF IsConn, Abort
<1>5. r.writer = k.writer /\ r.cancels = k.cancels
  BY <1>1, FieldsAre DEF IsConn, Abort
<1>6. r.active = k.active /\ r.state = k.state /\ r.transport = k.transport
  BY <1>1, FieldsAre DEF IsConn, Abort
<1> HIDE DEF r
<1>7. Ready(r, FALSE) /\ SlotKept(k, r)
  BY <1>2, <1>3, <1>4, <1>5, <1>6 DEF Ready, Connected, Clean, BodyOK, WriterActive, SlotKept
<1>8. QED
  BY <1>7 DEF r

LEMMA AbortConn ==
  ASSUME NEW k, IsConn(k)
  PROVE  IsConn(Abort(k))
  BY FieldsAre DEF IsConn, Abort

\* A request that still has its object, in a call or behind it: it ends with an
\* abort or an answer that the object owns.
LEMMA CallEnds ==
  ASSUME NEW k, IsConn(k), Connected(k), k.active, Clean(k), k.live = 1
  PROVE  /\ Ready(Abort(k), FALSE) /\ SlotKept(k, Abort(k))
         /\ Ready([k EXCEPT !.slot = FALSE], TRUE) /\ SlotKept(k, [k EXCEPT !.slot = FALSE])
<1> DEFINE r == Abort(k)
           e == [k EXCEPT !.slot = FALSE]
<1>1. IsConn(r) /\ ~r.slot /\ r.live = 0
  <2>1. IsConn(r)
    BY AbortConn
  <2>2. r.live = k.live - 1
    BY FieldsAre DEF IsConn, Abort
  <2>3. ~r.slot
    BY FieldsAre DEF IsConn, Abort
  <2> HIDE DEF r
  <2>4. QED
    BY <2>1, <2>2, <2>3
<1>2. /\ r.completion = k.completion /\ r.activated = k.activated /\ r.sink = k.sink
      /\ r.writer = k.writer /\ r.cancels = k.cancels
  BY FieldsAre DEF IsConn, Abort
<1>3. r.active = k.active /\ r.state = k.state /\ r.transport = k.transport
  BY FieldsAre DEF IsConn, Abort
<1>4. IsConn(e) /\ ~e.slot /\ e.live = k.live
  BY FieldsAre DEF IsConn
<1>5. /\ e.completion = k.completion /\ e.activated = k.activated /\ e.sink = k.sink
      /\ e.writer = k.writer /\ e.cancels = k.cancels
  BY FieldsAre DEF IsConn
<1>6. e.active = k.active /\ e.state = k.state /\ e.transport = k.transport
  BY FieldsAre DEF IsConn
<1> HIDE DEF r, e
<1>7. Ready(r, FALSE) /\ SlotKept(k, r)
  BY <1>1, <1>2, <1>3 DEF Ready, Connected, Clean, WriterActive, SlotKept
<1>8. Ready(e, TRUE) /\ SlotKept(k, e)
  BY <1>4, <1>5, <1>6 DEF Ready, Connected, Clean, WriterActive, SlotKept
<1>9. QED
  BY <1>7, <1>8 DEF r, e

\* The last of a body, or a part that the sink refuses: the sink is not called again.
LEMMA SinkTaken ==
  ASSUME NEW k, IsConn(k), Connected(k), BodyOK(k)
  PROVE  /\ LET r == [k EXCEPT !.remaining = 0, !.unread = 0, !.sink = FALSE, !.ended = TRUE] IN
            IsConn(r) /\ Connected(r) /\ FinishOK(r) /\ r.active /\ SlotKept(k, r)
         /\ LET r == [k EXCEPT !.sink = FALSE, !.ended = TRUE, !.unread = 0] IN
            IsConn(r) /\ Connected(r) /\ FinishOK(r) /\ r.active /\ SlotKept(k, r)
<1> DEFINE r == [k EXCEPT !.remaining = 0, !.unread = 0, !.sink = FALSE, !.ended = TRUE]
           e == [k EXCEPT !.sink = FALSE, !.ended = TRUE, !.unread = 0]
<1>0. 0 \in 0 .. (MaxBody + 1) /\ 0 \in 0 .. MaxBody
  BY HttpServerAssumption
<1>1. IsConn(r) /\ IsConn(e) /\ ~r.sink /\ ~e.sink
  BY <1>0, FieldsAre DEF IsConn
<1>2. /\ r.completion = k.completion /\ r.activated = k.activated /\ r.slot = k.slot
      /\ r.writer = k.writer /\ r.cancels = k.cancels /\ r.live = k.live /\ r.kind = k.kind
      /\ r.active = k.active /\ r.state = k.state /\ r.transport = k.transport
  BY FieldsAre DEF IsConn
<1>3. /\ e.completion = k.completion /\ e.activated = k.activated /\ e.slot = k.slot
      /\ e.writer = k.writer /\ e.cancels = k.cancels /\ e.live = k.live /\ e.kind = k.kind
      /\ e.active = k.active /\ e.state = k.state /\ e.transport = k.transport
  BY FieldsAre DEF IsConn
<1> HIDE DEF r, e
<1>4. Connected(r) /\ FinishOK(r) /\ r.active /\ SlotKept(k, r)
  BY <1>1, <1>2 DEF Connected, FinishOK, Clean, BodyOK, WriterActive, SlotKept
<1>5. Connected(e) /\ FinishOK(e) /\ e.active /\ SlotKept(k, e)
  BY <1>1, <1>3 DEF Connected, FinishOK, Clean, BodyOK, WriterActive, SlotKept
<1>6. QED
  BY <1>1, <1>4, <1>5 DEF r, e

LEMMA ProcessBodyKeeps ==
  ASSUME HttpInv, NEW c \in Conns, AtTop(c), Len(stack) = 1,
         NEW k, IsConn(k), Connected(k), BodyOK(k), SlotStep(c, k), ProcessBody(c, k)
  PROVE  HttpInv'
<1>1. ASSUME Returns(c, BeginError(AbortBody(k))) PROVE HttpInv'
  <2> DEFINE a == AbortBody(k)
  <2>1. Ready(a, FALSE) /\ SlotStep(c, a)
    BY BodyAborted, SlotChain
  <2> HIDE DEF a
  <2>2. \A r \in BeginError(a) : ConnOK(r, "Loop") /\ SlotStep(c, r)
    BY <2>1, Answers DEF BeginError
  <2>3. QED
    BY <1>1, <2>2, ReturnsKeeps DEF a
<1>2. ASSUME Returns(c, RejectBody(k)) PROVE HttpInv'
  <2> DEFINE e == [k EXCEPT !.sink = FALSE, !.ended = TRUE, !.unread = 0]
             s == [e EXCEPT !.slot = FALSE]
             a == Abort(e)
  <2>1. IsConn(e) /\ Connected(e) /\ FinishOK(e) /\ e.active /\ SlotKept(k, e)
    BY SinkTaken
  <2>2. RejectBody(k) = BeginResponse(s, "Fixed", TRUE) \cup BeginError(a)
    BY DEF RejectBody
  <2> HIDE DEF e
  <2>3. Ready(a, FALSE) /\ SlotKept(e, a) /\ Ready(s, TRUE) /\ SlotKept(e, s)
    BY <2>1, CallEnds DEF FinishOK
  <2>4. SlotStep(c, a) /\ SlotStep(c, s)
    BY <2>1, <2>3, SlotChain
  <2> HIDE DEF a, s
  <2>5. \A r \in BeginError(a) : ConnOK(r, "Loop") /\ SlotStep(c, r)
    BY <2>3, <2>4, Answers DEF BeginError
  <2>6. \A r \in BeginResponse(s, "Fixed", TRUE) : ConnOK(r, "Loop") /\ SlotStep(c, r)
    BY <2>3, <2>4, Answers
  <2>7. \A r \in RejectBody(k) : ConnOK(r, "Loop") /\ SlotStep(c, r)
    BY <2>2, <2>5, <2>6
  <2>8. QED
    BY <1>2, <2>7, ReturnsKeeps
<1>3. ASSUME k.unread < k.remaining,
             Returns(c, {[k EXCEPT !.remaining = @ - k.unread, !.unread = 0]})
      PROVE  HttpInv'
  <2> DEFINE r == [k EXCEPT !.remaining = @ - k.unread, !.unread = 0]
  <2>1. k.remaining - k.unread \in 0 .. MaxBody /\ 0 \in 0 .. (MaxBody + 1)
    BY <1>3, HttpServerAssumption DEF IsConn
  <2>2. IsConn(r)
    BY <2>1, FieldsAre DEF IsConn
  <2>3. Alike(k, r)
    BY FieldsAre DEF IsConn, Alike
  <2> HIDE DEF r
  <2>4. ConnOK(k, "Loop")
    BY DEF ConnOK
  <2>5. ConnOK(r, "Loop") /\ SlotStep(c, r)
    BY <2>2, <2>3, <2>4, AlikeOK, SlotChain
  <2>6. QED
    BY <1>3, <2>5, ReturnsKeeps DEF r
<1>4. ASSUME Call(c, [k EXCEPT !.remaining = 0, !.unread = 0, !.sink = FALSE, !.ended = TRUE],
                  "Finish")
      PROVE  HttpInv'
  <2> DEFINE r == [k EXCEPT !.remaining = 0, !.unread = 0, !.sink = FALSE, !.ended = TRUE]
  <2>1. IsConn(r) /\ Connected(r) /\ FinishOK(r) /\ SlotKept(k, r)
    BY SinkTaken
  <2>2. Call(c, r, "Finish")
    BY <1>4
  <2> HIDE DEF r
  <2>3. ConnOK(r, "Finish") /\ SlotStep(c, r)
    BY <2>1, SlotChain DEF ConnOK
  <2>4. QED
    BY <2>2, <2>3, CallKeeps DEF Ops
<1>5. QED
  BY <1>1, <1>2, <1>3, <1>4 DEF ProcessBody

LEMMA ReceiveBodyKeeps ==
  ASSUME HttpInv, NEW c \in Conns, AtTop(c), Len(stack) = 1, NEW length \in 0 .. MaxBody,
         NEW k, IsConn(k), Connected(k), BeginOK(k), SlotStep(c, k), ReceiveBody(c, k, length)
  PROVE  HttpInv'
<1> DEFINE a == Rearm(k)
           r == [a EXCEPT !.sink = TRUE, !.ended = FALSE, !.remaining = length,
                          !.state = "ReadingBody"]
<1>1. ProcessBody(c, r)
  BY DEF ReceiveBody
<1>2. IsConn(a)
  BY FieldsAre DEF IsConn, Rearm
<1>3. Alike(k, a)
  BY FieldsAre DEF IsConn, Rearm, Alike
<1> HIDE DEF a
<1>4. IsConn(r) /\ r.sink /\ ~r.ended /\ r.state = "ReadingBody"
  BY <1>2, FieldsAre DEF IsConn
<1>5. /\ r.completion = a.completion /\ r.activated = a.activated /\ r.slot = a.slot
      /\ r.writer = a.writer /\ r.cancels = a.cancels /\ r.live = a.live /\ r.kind = a.kind
      /\ r.active = a.active /\ r.transport = a.transport
  BY <1>2, FieldsAre DEF IsConn
<1> HIDE DEF r
<1>6. Connected(r) /\ BodyOK(r) /\ SlotKept(k, r)
  BY <1>3, <1>4, <1>5 DEF Alike, Connected, BodyOK, BeginOK, Clean, WriterActive, SlotKept
<1>7. SlotStep(c, r)
  BY <1>6, SlotChain
<1>8. QED
  BY <1>1, <1>4, <1>6, <1>7, ProcessBodyKeeps

\* A response that ends early.
LEMMA WriteEnding ==
  ASSUME NEW k, Connected(k), WriteOK(k)
  PROVE  Ending(k)
  BY DEF Connected, WriteOK, Ending

LEMMA SentFacts ==
  ASSUME NEW k, IsConn(k), Connected(k), WriteOK(k)
  PROVE  ConnOK(Sent(k), "Loop") /\ SlotKept(k, Sent(k))
<1> DEFINE d == [k EXCEPT !.writer = "Complete"]
<1>0. k.writer \in {"Headers", "FixedBody", "StreamBody"} /\ k.body \in {"Empty", "Fixed", "Stream"}
  BY DEF WriteOK, WriterActive, IsConn
<1>1. ASSUME k.body # "Stream"
      PROVE  ConnOK(Terminate(d), "Loop") /\ SlotKept(k, Terminate(d))
  <2>1. IsConn(d) /\ d.writer = "Complete"
    BY FieldsAre DEF IsConn
  <2>2. /\ d.active = k.active /\ d.state = k.state /\ d.transport = k.transport
        /\ d.sink = k.sink /\ d.completion = k.completion /\ d.notified = k.notified
    BY FieldsAre DEF IsConn
  <2>3. /\ d.cancels = k.cancels /\ d.live = k.live /\ d.slot = k.slot /\ d.kind = k.kind
        /\ d.activated = k.activated
    BY FieldsAre DEF IsConn
  <2> HIDE DEF d
  <2>4. Connected(d) /\ Ending(d) /\ SlotKept(k, d)
    BY <1>1, <2>1, <2>2, <2>3 DEF Connected, Ending, WriteOK, WriterActive, SlotKept
  <2>5. /\ IsConn(Terminate(d)) /\ Connected(Terminate(d)) /\ IdleOK(Terminate(d))
        /\ SlotKept(d, Terminate(d))
    BY <2>1, <2>4, TerminateFacts
  <2>6. QED
    BY <2>4, <2>5 DEF ConnOK, SlotKept
<1>2. ASSUME NEW w \in {"FixedBody", "StreamBody"},
             w = "FixedBody" => k.body = "Fixed", w = "StreamBody" => k.body = "Stream"
      PROVE  ConnOK([k EXCEPT !.writer = w], "Loop") /\ SlotKept(k, [k EXCEPT !.writer = w])
  <2> DEFINE r == [k EXCEPT !.writer = w]
  <2>1. IsConn(r) /\ r.writer = w
    BY FieldsAre DEF IsConn
  <2>2. /\ r.active = k.active /\ r.state = k.state /\ r.transport = k.transport
        /\ r.sink = k.sink /\ r.completion = k.completion /\ r.notified = k.notified
    BY FieldsAre DEF IsConn
  <2>3. /\ r.cancels = k.cancels /\ r.live = k.live /\ r.slot = k.slot /\ r.kind = k.kind
        /\ r.activated = k.activated /\ r.finished = k.finished /\ r.body = k.body
    BY FieldsAre DEF IsConn
  <2> HIDE DEF r
  <2>4. Connected(r) /\ WriteOK(r) /\ SlotKept(k, r)
    BY <1>2, <2>1, <2>2, <2>3 DEF Connected, WriteOK, WriterActive, SlotKept
  <2>5. QED
    BY <2>1, <2>4 DEF ConnOK, r
<1>3. /\ ConnOK([k EXCEPT !.fragment = FALSE], "Loop")
      /\ SlotKept(k, [k EXCEPT !.fragment = FALSE])
  <2> DEFINE r == [k EXCEPT !.fragment = FALSE]
  <2>1. IsConn(r)
    BY FieldsAre DEF IsConn
  <2>2. Alike(k, r)
    BY FieldsAre DEF IsConn, Alike
  <2>3. ConnOK(k, "Loop")
    BY DEF ConnOK
  <2> HIDE DEF r
  <2>4. ConnOK(r, "Loop") /\ SlotKept(k, r)
    BY <2>1, <2>2, <2>3, AlikeOK
  <2>5. QED
    BY <2>4 DEF r
<1>4. CASE k.writer = "Headers" /\ k.body = "Empty"
  BY <1>1, <1>4 DEF Sent
<1>5. CASE k.writer = "Headers" /\ k.body = "Fixed"
  <2>1. Sent(k) = [k EXCEPT !.writer = "FixedBody"]
    BY <1>5 DEF Sent
  <2>2. QED
    BY <1>2, <1>5, <2>1
<1>6. CASE k.writer = "Headers" /\ k.body = "Stream"
  <2>1. Sent(k) = [k EXCEPT !.writer = "StreamBody"]
    BY <1>6 DEF Sent
  <2>2. QED
    BY <1>2, <1>6, <2>1
<1>7. CASE k.writer = "FixedBody"
  <2>1. k.body # "Stream" /\ Sent(k) = Terminate(d)
    BY <1>7 DEF Sent, WriteOK
  <2>2. QED
    BY <1>1, <2>1
<1>8. CASE k.writer = "StreamBody"
  <2>1. Sent(k) = [k EXCEPT !.fragment = FALSE]
    BY <1>8 DEF Sent
  <2>2. QED
    BY <1>3, <2>1
<1>9. QED
  BY <1>0, <1>4, <1>5, <1>6, <1>7, <1>8

LEMMA TerminateOK ==
  ASSUME NEW k, IsConn(k), Connected(k), Ending(k)
  PROVE  ConnOK(Terminate(k), "Loop") /\ SlotKept(k, Terminate(k))
  BY TerminateFacts DEF ConnOK

LEMMA WritePendingFacts ==
  ASSUME NEW k, IsConn(k), Connected(k), WriteOK(k), Top.age \in Nat
  PROVE  \A r \in WritePending(k) : ConnOK(r, "Loop") /\ SlotKept(k, r)
<1>1. ConnOK(k, "Loop") /\ SlotKept(k, k)
  BY DEF ConnOK, SlotKept
<1> DEFINE p == Progress(k)
<1>2. IsConn(p) /\ Alike(k, p)
  BY ProgressFacts
<1> HIDE DEF p
<1>3. ConnOK(p, "Loop") /\ SlotKept(k, p)
  BY <1>1, <1>2, AlikeOK
<1>4. Connected(p) /\ WriteOK(p)
  BY <1>2, <1>3 DEF ConnOK, Alike, WriteOK, IdleOK, HeadOK, BodyOK
<1>5. ConnOK(Sent(p), "Loop") /\ SlotKept(p, Sent(p))
  BY <1>2, <1>4, SentFacts
<1>6. ConnOK(Terminate(k), "Loop") /\ SlotKept(k, Terminate(k))
  BY WriteEnding, TerminateOK
<1>7. SlotKept(k, Sent(p))
  BY <1>3, <1>5 DEF SlotKept
<1>8. WritePending(k) = {k, p, Sent(p), Terminate(k)}
  BY DEF WritePending, p
<1>9. QED
  BY <1>1, <1>3, <1>5, <1>6, <1>7, <1>8

\* The head of a request is complete.
LEMMA HeadCompleteFacts ==
  ASSUME HttpInv, NEW c \in Conns, HeadComplete(c), NEW unread \in 0 .. MaxBody
  PROVE  LET q == Request(c, unread) IN
         /\ AtTop(c) /\ Len(stack) = 1 /\ IsConn(q) /\ Connected(q) /\ HeadOK(q) /\ SlotStep(c, q)
         /\ Ready(q, FALSE) /\ q.unread = unread
<1>1. Turn(c) /\ Armed(c).state = "ReadingHead"
  BY DEF HeadComplete, CanRead
<1>2. /\ AtTop(c) /\ Top.age \in Nat /\ IsConn(conn[c]) /\ Alike(conn[c], Armed(c))
      /\ ConnOK(Armed(c), "Loop") /\ HeadOK(Armed(c)) /\ Len(stack) = 1
  BY <1>1, TurnFacts
<1> DEFINE q == Request(c, unread)
<1>3. IsConn(q) /\ Alike(conn[c], q) /\ q.unread = unread
  BY <1>2, RequestFacts
<1> HIDE DEF q
<1>4. Alike(Armed(c), q)
  BY <1>2, <1>3 DEF Alike
<1>5. ConnOK(q, "Loop") /\ SlotKept(Armed(c), q)
  BY <1>2, <1>3, <1>4, AlikeOK
<1>6. SlotStep(c, q)
  BY <1>3 DEF SlotStep, Alike
<1>7. Connected(q) /\ HeadOK(q)
  BY <1>1, <1>4, <1>5 DEF ConnOK, Alike, HeadOK, IdleOK, BodyOK, WriteOK
<1>8. Ready(q, FALSE)
  BY <1>5, <1>7, HeadReady
<1>9. QED
  BY <1>2, <1>3, <1>6, <1>7, <1>8 DEF q

\* Poll while it reads.
LEMMA PollReadKeeps ==
  ASSUME HttpInv, NEW c \in Conns,
         \/ PollHeadTimeout(c) \/ PollBodyTimeout(c) \/ PollReadNone(c) \/ PollReadEnd(c)
         \/ PollHeadPart(c) \/ PollReadBody(c)
  PROVE  HttpInv'
<1> DEFINE k == Armed(c)
<1>1. Turn(c)
  BY DEF PollHeadTimeout, PollBodyTimeout, PollReadNone, PollReadEnd, PollHeadPart, PollReadBody,
         CanRead
<1>2. /\ AtTop(c) /\ Top.age \in Nat /\ ConnOK(k, "Loop") /\ SlotStep(c, k)
      /\ (k.state = "ReadingHead" => HeadOK(k) /\ Len(stack) = 1)
      /\ (k.state = "ReadingBody" => BodyOK(k) /\ Len(stack) = 1)
  BY <1>1, TurnFacts
<1>3. IsConn(k) /\ Connected(k)
  BY <1>2 DEF ConnOK
<1> DEFINE p == Progress(k)
<1>4. IsConn(p) /\ Alike(k, p) /\ p.remaining = k.remaining
  BY <1>2, <1>3, ProgressFacts
<1>5. ConnOK(p, "Loop") /\ SlotStep(c, p)
  BY <1>2, <1>4, AlikeOK, SlotChain
<1>6. CASE PollHeadTimeout(c)
  <2>1. k.state = "ReadingHead" /\ Returns(c, BeginError(k))
    BY <1>6 DEF PollHeadTimeout
  <2> HIDE DEF k
  <2>2. Ready(k, FALSE)
    BY <1>2, <2>1, HeadReady
  <2>3. \A r \in BeginError(k) : ConnOK(r, "Loop") /\ SlotStep(c, r)
    BY <1>2, <2>2, Answers DEF BeginError
  <2>4. QED
    BY <1>2, <2>1, <2>3, ReturnsKeeps
<1>7. CASE PollBodyTimeout(c)
  <2> DEFINE a == AbortBody(k)
  <2>1. k.state = "ReadingBody" /\ Returns(c, BeginError(a))
    BY <1>7 DEF PollBodyTimeout
  <2> HIDE DEF k
  <2>2. Ready(a, FALSE) /\ SlotStep(c, a)
    BY <1>2, <1>3, <2>1, BodyAborted, SlotChain
  <2> HIDE DEF a
  <2>3. \A r \in BeginError(a) : ConnOK(r, "Loop") /\ SlotStep(c, r)
    BY <2>2, Answers DEF BeginError
  <2>4. QED
    BY <1>2, <2>1, <2>3, ReturnsKeeps
<1>8. CASE PollReadNone(c)
  <2>1. Returns(c, {k})
    BY <1>8 DEF PollReadNone
  <2> HIDE DEF k
  <2>2. QED
    BY <1>2, <2>1, ReturnsKeeps
<1>9. CASE PollReadEnd(c)
  <2>1. Returns(c, {Terminate(k)}) /\ (k.state = "ReadingHead" \/ k.state = "ReadingBody")
    BY <1>9 DEF PollReadEnd, CanRead
  <2> HIDE DEF k
  <2>2. Ending(k)
    BY <1>2, <1>3, <2>1 DEF Ending, Connected, HeadOK, BodyOK, Clean
  <2>3. ConnOK(Terminate(k), "Loop") /\ SlotStep(c, Terminate(k))
    BY <1>2, <1>3, <2>2, TerminateOK, SlotChain
  <2>4. QED
    BY <1>2, <2>1, <2>3, ReturnsKeeps
<1>10. CASE PollHeadPart(c)
  <2>1. k.state = "ReadingHead" /\ Returns(c, {p} \cup BeginError(p))
    BY <1>10 DEF PollHeadPart
  <2> HIDE DEF k, p
  <2>2. HeadOK(p)
    BY <1>4, <1>5, <2>1 DEF ConnOK, Alike, HeadOK, IdleOK, BodyOK, WriteOK
  <2>3. Ready(p, FALSE)
    BY <1>5, <2>2, HeadReady
  <2>4. \A r \in BeginError(p) : ConnOK(r, "Loop") /\ SlotStep(c, r)
    BY <1>5, <2>3, Answers DEF BeginError
  <2>5. \A r \in {p} \cup BeginError(p) : ConnOK(r, "Loop") /\ SlotStep(c, r)
    BY <1>5, <2>4
  <2>6. QED
    BY <1>2, <2>1, <2>5, ReturnsKeeps
<1>11. CASE PollReadBody(c)
  <2>1. PICK size \in 1 .. (MaxBody + 1) : ProcessBody(c, [p EXCEPT !.unread = size])
    BY <1>11 DEF PollReadBody
  <2>2. k.state = "ReadingBody"
    BY <1>11 DEF PollReadBody
  <2> DEFINE u == [p EXCEPT !.unread = size]
  <2>3. size \in 0 .. (MaxBody + 1)
    BY HttpServerAssumption
  <2> HIDE DEF k, p
  <2>4. IsConn(u) /\ Alike(p, u)
    BY <1>4, <2>3, UnreadFacts
  <2>5. ProcessBody(c, u)
    BY <2>1
  <2> HIDE DEF u
  <2>6. ConnOK(u, "Loop") /\ SlotStep(c, u) /\ u.state = "ReadingBody"
    BY <1>4, <1>5, <2>2, <2>4, AlikeOK, SlotChain DEF Alike
  <2>7. Connected(u) /\ BodyOK(u)
    BY <2>6 DEF ConnOK, HeadOK, IdleOK, BodyOK, WriteOK
  <2>8. QED
    BY <1>2, <2>2, <2>4, <2>5, <2>6, <2>7, ProcessBodyKeeps
<1>12. QED
  BY <1>6, <1>7, <1>8, <1>9, <1>10, <1>11

\* Route.
LEMMA RouteKeeps ==
  ASSUME HttpInv, NEW c \in Conns,
         \/ RouteRespond(c) \/ RouteStream(c) \/ RouteProbe(c) \/ RouteJson(c) \/ RouteUpload(c)
  PROVE  HttpInv'
<1>0. HeadComplete(c)
  BY DEF RouteRespond, RouteStream, RouteProbe, RouteJson, RouteUpload
<1>1. ASSUME NEW unread \in 0 .. MaxBody
      PROVE  /\ AtTop(c) /\ Len(stack) = 1
             /\ IsConn(Request(c, unread)) /\ Connected(Request(c, unread))
             /\ HeadOK(Request(c, unread)) /\ SlotStep(c, Request(c, unread))
             /\ Ready(Request(c, unread), FALSE)
  BY <1>0, HeadCompleteFacts
<1>2. ASSUME NEW unread \in 0 .. MaxBody, NEW kind \in {"upload", "json", "log", "file", "owned"}
      PROVE  LET r == New(Request(c, unread), kind) IN
             /\ Ready(r, TRUE) /\ BeginOK(r) /\ r.kind = kind
             /\ (r.slot => kind \in {"upload", "log"})
  BY <1>1, NewFacts
<1>3. ASSUME NEW unread \in 0 .. MaxBody, NEW kind \in {"upload", "json", "log", "file", "owned"},
             kind = "upload" => UploadAllowed, kind = "log" => StreamFree
      PROVE  SlotStep(c, New(Request(c, unread), kind))
  <2> DEFINE r == New(Request(c, unread), kind)
  <2>1. r.kind = kind
    BY <1>2
  <2> HIDE DEF r
  <2>2. SlotStep(c, r)
    BY <1>3, <2>1 DEF SlotStep
  <2>3. QED
    BY <2>2 DEF r
<1>4. CASE RouteRespond(c)
  <2>1. PICK unread \in 0 .. MaxBody, body \in {"Empty", "Fixed"} :
          Returns(c, BeginResponse(Request(c, unread), body, FALSE)
                       \cup BeginResponse(New(Request(c, unread), "owned"), body, TRUE))
    BY <1>4 DEF RouteRespond
  <2> DEFINE q == Request(c, unread)
             o == New(q, "owned")
  <2>2. AtTop(c) /\ Ready(q, FALSE) /\ SlotStep(c, q)
    BY <1>1
  <2>3. Ready(o, TRUE) /\ SlotStep(c, o)
    BY <1>2, <1>3
  <2>4. Returns(c, BeginResponse(q, body, FALSE) \cup BeginResponse(o, body, TRUE))
    BY <2>1
  <2> HIDE DEF q, o
  <2>5. \A r \in BeginResponse(q, body, FALSE) : ConnOK(r, "Loop") /\ SlotStep(c, r)
    BY <2>2, Answers
  <2>6. \A r \in BeginResponse(o, body, TRUE) : ConnOK(r, "Loop") /\ SlotStep(c, r)
    BY <2>3, Answers
  <2>7. \A r \in BeginResponse(q, body, FALSE) \cup BeginResponse(o, body, TRUE) :
          ConnOK(r, "Loop") /\ SlotStep(c, r)
    BY <2>5, <2>6
  <2>8. QED
    BY <2>2, <2>4, <2>7, ReturnsKeeps
<1>5. CASE RouteStream(c)
  <2>1. PICK unread \in 0 .. MaxBody, kind \in {"log", "file"} :
          /\ kind = "log" => StreamFree
          /\ Returns(c, BeginResponse(New(Request(c, unread), kind), "Stream", TRUE))
    BY <1>5 DEF RouteStream
  <2> DEFINE o == New(Request(c, unread), kind)
  <2>2. AtTop(c) /\ Ready(o, TRUE)
    BY <1>1, <1>2
  <2>3. SlotStep(c, o)
    BY <1>3, <2>1
  <2>4. Returns(c, BeginResponse(o, "Stream", TRUE))
    BY <2>1
  <2> HIDE DEF o
  <2>5. \A r \in BeginResponse(o, "Stream", TRUE) : ConnOK(r, "Loop") /\ SlotStep(c, r)
    BY <2>2, <2>3, Answers
  <2>6. QED
    BY <2>2, <2>4, <2>5, ReturnsKeeps
<1>6. CASE RouteProbe(c)
  <2>1. PICK unread \in 0 .. MaxBody : Call(c, Request(c, unread), "Probe")
    BY <1>6 DEF RouteProbe
  <2> DEFINE q == Request(c, unread)
  <2>2. /\ AtTop(c) /\ Len(stack) = 1 /\ IsConn(q) /\ Connected(q) /\ HeadOK(q) /\ SlotStep(c, q)
        /\ Call(c, q, "Probe")
    BY <1>1, <2>1
  <2> HIDE DEF q
  <2>3. ConnOK(q, "Probe")
    BY <2>2 DEF ConnOK
  <2>4. QED
    BY <2>2, <2>3, CallKeeps DEF Ops
<1>7. CASE RouteJson(c)
  <2>1. PICK unread \in 0 .. MaxBody :
          LET k == New(Request(c, unread), "json") IN
          \/ \E length \in 0 .. MaxBody : ReceiveBody(c, k, length)
          \/ Returns(c, BeginError(AbortBody([k EXCEPT !.sink = TRUE, !.ended = FALSE])))
    BY <1>7 DEF RouteJson
  <2> DEFINE k == New(Request(c, unread), "json")
  <2>2. AtTop(c) /\ Len(stack) = 1 /\ Ready(k, TRUE) /\ BeginOK(k) /\ SlotStep(c, k)
    BY <1>1, <1>2, <1>3
  <2>3. \/ \E length \in 0 .. MaxBody : ReceiveBody(c, k, length)
        \/ Returns(c, BeginError(AbortBody([k EXCEPT !.sink = TRUE, !.ended = FALSE])))
    BY <2>1
  <2> HIDE DEF k
  <2>4. IsConn(k) /\ Connected(k)
    BY <2>2 DEF Ready
  <2>5. CASE \E length \in 0 .. MaxBody : ReceiveBody(c, k, length)
    BY <2>2, <2>4, <2>5, ReceiveBodyKeeps
  <2>6. CASE Returns(c, BeginError(AbortBody([k EXCEPT !.sink = TRUE, !.ended = FALSE])))
    <3> DEFINE s == [k EXCEPT !.sink = TRUE, !.ended = FALSE]
               a == AbortBody(s)
    <3>1. IsConn(s) /\ s.sink /\ ~s.ended
      BY <2>4, FieldsAre DEF IsConn
    <3>2. /\ s.completion = k.completion /\ s.activated = k.activated /\ s.slot = k.slot
          /\ s.writer = k.writer /\ s.cancels = k.cancels /\ s.live = k.live /\ s.kind = k.kind
          /\ s.active = k.active /\ s.transport = k.transport /\ s.state = k.state
      BY <2>4, FieldsAre DEF IsConn
    <3> HIDE DEF s
    <3>3. Connected(s) /\ Ending(s) /\ SlotKept(k, s)
      BY <2>2, <2>4, <3>1, <3>2 DEF Connected, Ending, BeginOK, Clean, SlotKept
    <3>4. a = [Abort(s) EXCEPT !.sink = FALSE, !.ended = TRUE]
      BY <3>1 DEF AbortBody
    <3>5. IsConn(a) /\ ~a.sink /\ Connected(a) /\ Ending(a) /\ SlotKept(s, a)
      BY <3>1, <3>3, AbortBodyFacts
    <3>6. a.completion = s.completion /\ a.activated = s.activated /\ a.writer = s.writer
      BY <3>1, <3>4, FieldsAre DEF IsConn, Abort
    <3> HIDE DEF a
    <3>7. Ready(a, FALSE)
      BY <2>2, <3>2, <3>5, <3>6 DEF Ready, BeginOK, Clean, Ending, WriterActive
    <3>8. SlotStep(c, a)
      BY <2>2, <3>3, <3>5, SlotChain
    <3>9. \A r \in BeginError(a) : ConnOK(r, "Loop") /\ SlotStep(c, r)
      BY <3>7, <3>8, Answers DEF BeginError
    <3>10. QED
      BY <2>2, <2>6, <3>9, ReturnsKeeps DEF a, s
  <2>7. QED
    BY <2>3, <2>5, <2>6
<1>8. CASE RouteUpload(c)
  <2>1. PICK unread \in 0 .. MaxBody : Call(c, New(Request(c, unread), "upload"), "Begin")
    BY <1>8 DEF RouteUpload
  <2>2. UploadAllowed
    BY <1>8 DEF RouteUpload
  <2> DEFINE o == New(Request(c, unread), "upload")
  <2>3. AtTop(c) /\ Len(stack) = 1 /\ Ready(o, TRUE) /\ BeginOK(o)
    BY <1>1, <1>2
  <2>4. SlotStep(c, o)
    BY <1>3, <2>2
  <2>5. Call(c, o, "Begin")
    BY <2>1
  <2> HIDE DEF o
  <2>6. ConnOK(o, "Begin")
    BY <2>3 DEF ConnOK, Ready
  <2>7. QED
    BY <2>3, <2>4, <2>5, <2>6, CallKeeps DEF Ops
<1>9. QED
  BY <1>4, <1>5, <1>6, <1>7, <1>8

\* The calls that a router or a sink returns from.
LEMMA CallReturnsKeeps ==
  ASSUME HttpInv, NEW c \in Conns, ProbeReturns(c) \/ BeginReturns(c) \/ FinishReturns(c)
  PROVE  HttpInv'
<1> DEFINE k == conn[c]
<1>1. CASE ProbeReturns(c)
  <2> DEFINE o == New(k, "owned")
  <2>1. In(c, "Probe") /\ Returns(c, BeginResponse(k, "Empty", FALSE) \cup BeginResponse(o, "Empty", TRUE))
    BY <1>1 DEF ProbeReturns
  <2>2. AtTop(c) /\ ConnOK(k, "Probe") /\ SlotStep(c, k)
    BY <2>1, InFacts DEF Ops
  <2> HIDE DEF k
  <2>3. IsConn(k) /\ Connected(k) /\ HeadOK(k)
    BY <2>2 DEF ConnOK
  <2>4. Ready(k, FALSE)
    BY <2>3 DEF Ready, HeadOK, Connected
  <2>5. Ready(o, TRUE) /\ o.kind = "owned"
    BY <2>3, NewFacts
  <2> HIDE DEF o
  <2>6. SlotStep(c, o)
    BY <2>5 DEF SlotStep
  <2>7. \A r \in BeginResponse(k, "Empty", FALSE) : ConnOK(r, "Loop") /\ SlotStep(c, r)
    BY <2>2, <2>4, Answers
  <2>8. \A r \in BeginResponse(o, "Empty", TRUE) : ConnOK(r, "Loop") /\ SlotStep(c, r)
    BY <2>5, <2>6, Answers
  <2>9. \A r \in BeginResponse(k, "Empty", FALSE) \cup BeginResponse(o, "Empty", TRUE) :
          ConnOK(r, "Loop") /\ SlotStep(c, r)
    BY <2>7, <2>8
  <2>10. QED
    BY <2>1, <2>2, <2>9, ReturnsKeeps
<1>2. CASE BeginReturns(c)
  <2>1. /\ In(c, "Begin")
        /\ \/ \E length \in 0 .. MaxBody : ReceiveBody(c, k, length)
           \/ Returns(c, BeginError(Abort(k)))
    BY <1>2 DEF BeginReturns
  <2>2. AtTop(c) /\ ConnOK(k, "Begin") /\ SlotStep(c, k) /\ Len(stack) = 1
    BY <2>1, InFacts DEF Ops
  <2> HIDE DEF k
  <2>3. IsConn(k) /\ Connected(k) /\ BeginOK(k)
    BY <2>2 DEF ConnOK
  <2>4. CASE \E length \in 0 .. MaxBody : ReceiveBody(c, k, length)
    BY <2>2, <2>3, <2>4, ReceiveBodyKeeps
  <2>5. CASE Returns(c, BeginError(Abort(k)))
    <3> DEFINE a == Abort(k)
    <3>1. Ready(a, FALSE) /\ SlotKept(k, a)
      BY <2>3, CallEnds DEF BeginOK, Connected
    <3>2. SlotStep(c, a)
      BY <2>2, <3>1, SlotChain
    <3> HIDE DEF a
    <3>3. \A r \in BeginError(a) : ConnOK(r, "Loop") /\ SlotStep(c, r)
      BY <3>1, <3>2, Answers DEF BeginError
    <3>4. QED
      BY <2>2, <2>5, <3>3, ReturnsKeeps DEF a
  <2>6. QED
    BY <2>1, <2>4, <2>5
<1>3. CASE FinishReturns(c)
  <2> DEFINE s == [k EXCEPT !.slot = FALSE]
             a == Abort(k)
  <2>1. In(c, "Finish") /\ Returns(c, BeginResponse(s, "Fixed", TRUE) \cup BeginError(a))
    BY <1>3 DEF FinishReturns
  <2>2. AtTop(c) /\ ConnOK(k, "Finish") /\ SlotStep(c, k)
    BY <2>1, InFacts DEF Ops
  <2> HIDE DEF k
  <2>3. IsConn(k) /\ Connected(k) /\ FinishOK(k)
    BY <2>2 DEF ConnOK
  <2>4. Ready(a, FALSE) /\ SlotKept(k, a) /\ Ready(s, TRUE) /\ SlotKept(k, s)
    BY <2>3, CallEnds DEF FinishOK, Connected
  <2>5. SlotStep(c, a) /\ SlotStep(c, s)
    BY <2>2, <2>4, SlotChain
  <2> HIDE DEF a, s
  <2>6. \A r \in BeginResponse(s, "Fixed", TRUE) : ConnOK(r, "Loop") /\ SlotStep(c, r)
    BY <2>4, <2>5, Answers
  <2>7. \A r \in BeginError(a) : ConnOK(r, "Loop") /\ SlotStep(c, r)
    BY <2>4, <2>5, Answers DEF BeginError
  <2>8. \A r \in BeginResponse(s, "Fixed", TRUE) \cup BeginError(a) :
          ConnOK(r, "Loop") /\ SlotStep(c, r)
    BY <2>6, <2>7
  <2>9. QED
    BY <2>1, <2>2, <2>8, ReturnsKeeps
<1>4. QED
  BY <1>1, <1>2, <1>3

\* PollResponse.
LEMMA PollResponseKeeps ==
  ASSUME HttpInv, NEW c \in Conns,
         PollUnexpected(c) \/ PollWriteTimeout(c) \/ PollWrite(c) \/ PollStreamRead(c)
  PROVE  HttpInv'
<1> DEFINE k == Armed(c)
<1>1. Turn(c) /\ k.state = "WritingResponse"
  BY DEF PollUnexpected, PollWriteTimeout, PollWrite, PollStreamRead, CanWrite, Writing
<1>2. /\ AtTop(c) /\ Top.age \in Nat /\ ConnOK(k, "Loop") /\ SlotStep(c, k) /\ WriteOK(k)
  BY <1>1, TurnFacts
<1>3. IsConn(k) /\ Connected(k)
  BY <1>2 DEF ConnOK
<1>4. CASE PollUnexpected(c) \/ PollWriteTimeout(c)
  <2>1. Returns(c, {Terminate(k)})
    BY <1>4 DEF PollUnexpected, PollWriteTimeout
  <2> HIDE DEF k
  <2>2. ConnOK(Terminate(k), "Loop") /\ SlotStep(c, Terminate(k))
    BY <1>2, <1>3, WriteEnding, TerminateOK, SlotChain
  <2>3. QED
    BY <1>2, <2>1, <2>2, ReturnsKeeps
<1>5. CASE PollWrite(c)
  <2>1. Returns(c, WritePending(k))
    BY <1>5 DEF PollWrite
  <2> HIDE DEF k
  <2>2. \A r \in WritePending(k) : ConnOK(r, "Loop") /\ SlotKept(k, r)
    BY <1>2, <1>3, WritePendingFacts
  <2>3. \A r \in WritePending(k) : ConnOK(r, "Loop") /\ SlotStep(c, r)
    BY <1>2, <2>2, SlotChain
  <2>4. QED
    BY <1>2, <2>1, <2>3, ReturnsKeeps
<1>6. CASE PollStreamRead(c)
  <2>1. ~HasPendingOutput(k) /\ Call(c, k, "Read")
    BY <1>6 DEF PollStreamRead
  <2> HIDE DEF k
  <2>2. k.writer = "StreamBody"
    BY <1>2, <2>1 DEF HasPendingOutput, WriteOK, WriterActive
  <2>3. ConnOK(k, "Read")
    BY <1>2, <1>3, <2>2 DEF ConnOK
  <2>4. QED
    BY <1>2, <2>1, <2>3, CallKeeps DEF Ops
<1>7. QED
  BY <1>4, <1>5, <1>6

LEMMA StreamReadKeeps ==
  ASSUME HttpInv, NEW c \in Conns, StreamReadReturns(c)
  PROVE  HttpInv'
<1> DEFINE k == conn[c]
           d == [k EXCEPT !.fragment = TRUE]
           e == [k EXCEPT !.finished = TRUE, !.writer = "Complete"]
<1>1. /\ In(c, "Read")
      /\ Returns(c, WritePending(d) \cup {q \in {k} : q.kind = "log"}
                      \cup {Terminate(k), Terminate(e)})
  BY DEF StreamReadReturns
<1>2. AtTop(c) /\ Top.age \in Nat /\ ConnOK(k, "Read") /\ SlotStep(c, k)
  BY <1>1, InFacts DEF Ops
<1> HIDE DEF k
<1>3. IsConn(k) /\ Connected(k) /\ WriteOK(k) /\ k.writer = "StreamBody"
  BY <1>2 DEF ConnOK
<1>4. IsConn(d)
  BY <1>3, FieldsAre DEF IsConn
<1>5. Alike(k, d)
  BY <1>3, FieldsAre DEF IsConn, Alike
<1>6. ConnOK(k, "Loop")
  BY <1>3 DEF ConnOK
<1>7. IsConn(e)
  BY <1>3, FieldsAre DEF IsConn
<1>8. /\ e.writer = "Complete" /\ e.finished
      /\ e.active = k.active /\ e.state = k.state /\ e.transport = k.transport
      /\ e.sink = k.sink /\ e.completion = k.completion /\ e.notified = k.notified
      /\ e.cancels = k.cancels /\ e.live = k.live /\ e.slot = k.slot /\ e.kind = k.kind
  BY <1>3, FieldsAre DEF IsConn
<1> HIDE DEF d, e
<1>9. ConnOK(d, "Loop") /\ SlotKept(k, d)
  BY <1>4, <1>5, <1>6, AlikeOK
<1>10. Connected(d) /\ WriteOK(d)
  BY <1>3, <1>5, <1>9 DEF ConnOK, Alike, WriteOK, IdleOK, HeadOK, BodyOK
<1>11. \A r \in WritePending(d) : ConnOK(r, "Loop") /\ SlotKept(d, r)
  BY <1>2, <1>4, <1>10, WritePendingFacts
<1>12. SlotStep(c, d)
  BY <1>2, <1>9, SlotChain
<1>13. \A r \in WritePending(d) : ConnOK(r, "Loop") /\ SlotStep(c, r)
  BY <1>11, <1>12, SlotChain
<1>14. ConnOK(Terminate(k), "Loop") /\ SlotStep(c, Terminate(k))
  BY <1>2, <1>3, WriteEnding, TerminateOK, SlotChain
<1>15. Connected(e) /\ Ending(e) /\ SlotKept(k, e)
  BY <1>3, <1>8 DEF Connected, Ending, WriteOK, WriterActive, SlotKept
<1>16. ConnOK(Terminate(e), "Loop") /\ SlotKept(e, Terminate(e))
  BY <1>7, <1>15, TerminateOK
<1>17. SlotStep(c, Terminate(e))
  BY <1>2, <1>15, <1>16, SlotChain
<1>18. \A r \in WritePending(d) \cup {q \in {k} : q.kind = "log"} \cup {Terminate(k), Terminate(e)} :
         ConnOK(r, "Loop") /\ SlotStep(c, r)
  BY <1>2, <1>6, <1>13, <1>14, <1>16, <1>17
<1>19. QED
  BY <1>1, <1>2, <1>18, ReturnsKeeps

-----------------------------------------------------------------------------
(* The loop. *)

LEMMA FreshFacts ==
  ASSUME NEW live \in Int, NEW slot \in BOOLEAN
  PROVE  LET r == [Fresh EXCEPT !.live = live, !.slot = slot] IN
         /\ IsConn(r) /\ r.live = live /\ r.slot = slot /\ ~r.active /\ r.state = "Idle"
         /\ r.transport = "none" /\ ~r.sink /\ ~r.completion /\ r.writer = "Idle"
         /\ ~r.activated /\ r.cancels = 0
<1>0. 0 \in 0 .. MaxBody /\ 0 \in 0 .. (MaxBody + 1)
  BY HttpServerAssumption
<1>1. QED
  BY <1>0 DEF Fresh, IsConn, Fields

LEMMA TakenFacts ==
  ASSUME NEW k, IsConn(k), IdleOK(k)
  PROVE  ConnOK(TakeFinishedTransport(k), "Loop") /\ SlotKept(k, TakeFinishedTransport(k))
<1> DEFINE r == TakeFinishedTransport(k)
<1>1. k.live \in Int /\ k.slot \in BOOLEAN /\ k.live = 0 /\ ~k.slot
  BY DEF IsConn, IdleOK
<1>2. /\ IsConn(r) /\ r.live = k.live /\ r.slot = k.slot /\ ~r.active /\ r.state = "Idle"
      /\ r.transport = "none" /\ ~r.sink /\ ~r.completion /\ r.writer = "Idle"
      /\ ~r.activated /\ r.cancels = 0
  BY <1>1, FreshFacts DEF TakeFinishedTransport
<1> HIDE DEF r
<1>3. Connected(r) /\ IdleOK(r) /\ SlotKept(k, r)
  BY <1>1, <1>2 DEF Connected, IdleOK, WriterActive, SlotKept
<1>4. QED
  BY <1>2, <1>3 DEF ConnOK, r

LEMMA BeginConn == ConnOK(Begin, "Loop") /\ ~Begin.slot
<1>0. 0 \in 0 .. MaxBody /\ 0 \in 0 .. (MaxBody + 1)
  BY HttpServerAssumption
<1>1. IsConn(Begin) /\ ~Begin.slot
  BY <1>0 DEF Begin, Fresh, IsConn, Fields
<1>2. Connected(Begin) /\ HeadOK(Begin)
  BY DEF Begin, Fresh, Connected, HeadOK, Clean, WriterActive
<1>3. QED
  BY <1>1, <1>2 DEF ConnOK

\* ReleaseFinished only touches connections that have ended.
LEMMA Released ==
  ASSUME ConnsOK, FramesOK, NEW c \in Conns
  PROVE  /\ SlotKept(conn[c], ReleaseFinished(conn)[c])
         /\ (~polling_[c] => ConnOK(ReleaseFinished(conn)[c], "Loop"))
         /\ (polling_[c] => ReleaseFinished(conn)[c] = conn[c])
<1>1. ReleaseFinished(conn)[c] = IF conn[c].active THEN conn[c] ELSE TakeFinishedTransport(conn[c])
  BY DEF ReleaseFinished
<1>2. CASE polling_[c]
  <2>1. PICK i \in DOMAIN stack : stack[i].op # "Loop" /\ stack[i].at = c
    BY <1>2 DEF FramesOK
  <2>2. ConnOK(conn[c], stack[i].op) /\ stack[i].op \in Ops
    <3>1. stack[i] \in FrameType
      BY <2>1 DEF FramesOK
    <3>2. stack[i].op \in Ops
      BY <2>1, <3>1 DEF FrameType
    <3>3. QED
      BY <2>1, <3>2 DEF ConnsOK
  <2>3. conn[c].active
    BY <2>2 DEF ConnOK, Ops, Connected, BeginOK, HeadOK, FinishOK, WriteOK
  <2>4. QED
    BY <1>1, <1>2, <2>3 DEF SlotKept
<1>3. CASE ~polling_[c]
  <2>1. ConnOK(conn[c], "Loop")
    BY <1>3 DEF ConnsOK
  <2>2. CASE conn[c].active
    BY <1>1, <1>3, <2>1, <2>2 DEF SlotKept
  <2>3. CASE ~conn[c].active
    <3>1. IsConn(conn[c]) /\ IdleOK(conn[c])
      BY <2>1, <2>3 DEF ConnOK, Connected, HeadOK, BodyOK, WriteOK
    <3>2. QED
      BY <1>1, <1>3, <2>3, <3>1, TakenFacts
  <2>4. QED
    BY <2>2, <2>3
<1>4. QED
  BY <1>2, <1>3

LEMMA ReleasedIs == ReleaseFinished(conn) = [c \in Conns |-> ReleaseFinished(conn)[c]]
  BY DEF ReleaseFinished

\* No frame: no connection is in a call.
LEMMA NoFrame ==
  ASSUME HttpInv, stack = << >>
  PROVE  \A c \in Conns : ~polling_[c]
  BY DEF HttpInv, FramesOK

LEMMA ServerPollKeeps ==
  ASSUME HttpInv, ServerPoll
  PROVE  HttpInv'
<1> DEFINE cs == ReleaseFinished(conn)
<1>1. /\ stack = << >> /\ stack' = <<NewFrame(FALSE)>> /\ polling_' = polling_
  BY DEF ServerPoll
<1>2. \A c \in Conns : ~polling_[c]
  BY <1>1, NoFrame
<1>3. \A c \in Conns : ConnOK(cs[c], "Loop") /\ SlotKept(conn[c], cs[c])
  BY <1>2, Released DEF HttpInv
<1>4. cs = [c \in Conns |-> cs[c]]
  BY ReleasedIs
<1>5. conn' = cs \/ \E c \in Conns : conn' = [cs EXCEPT ![c] = Begin]
  BY DEF ServerPoll
<1> HIDE DEF cs
<1>6. /\ conn' = [c \in Conns |-> conn'[c]]
      /\ \A c \in Conns : ConnOK(conn'[c], "Loop") /\ SlotKept(conn[c], conn'[c])
  <2>1. CASE conn' = cs
    BY <1>3, <1>4, <2>1
  <2>2. ASSUME NEW c \in Conns, conn' = [cs EXCEPT ![c] = Begin]
        PROVE  /\ conn' = [d \in Conns |-> conn'[d]]
               /\ \A d \in Conns : ConnOK(conn'[d], "Loop") /\ SlotKept(conn[d], conn'[d])
    <3>1. conn' = [d \in Conns |-> conn'[d]] /\ conn'[c] = Begin
          /\ \A d \in Conns : d # c => conn'[d] = cs[d]
      BY <1>4, <2>2
    <3>2. SlotKept(conn[c], Begin)
      BY BeginConn DEF SlotKept
    <3>3. QED
      BY <1>3, <3>1, <3>2, BeginConn
  <2>3. QED
    BY <1>5, <2>1, <2>2
<1>7. SlotsOK'
  BY <1>6, SlotsShrink DEF HttpInv
<1>8. /\ stack' \in Seq(FrameType) /\ Len(stack') = 1 /\ DOMAIN stack' = {1}
      /\ ~stack'[1].coop /\ stack'[1].op = "Loop"
  <2> DEFINE g == NewFrame(FALSE)
  <2>1. g \in FrameType /\ ~g.coop /\ g.op = "Loop"
    BY FrameNew
  <2>2. stack' = <<g>>
    BY <1>1
  <2> HIDE DEF g
  <2>3. QED
    BY <2>1, <2>2
<1>9. FramesOK'
  <2>1. \A i \in DOMAIN stack' : i = 1 /\ stack'[i].op = "Loop" /\ ~stack'[i].coop
    BY <1>8
  <2>2. \A i \in DOMAIN stack' : (stack'[i].coop <=> i > 1)
    BY <2>1
  <2>3. \A i \in 1 .. Len(stack') - 1 : stack'[i].op # "Loop"
    BY <1>8
  <2>4. \A c \in Conns : ~polling_'[c]
    BY <1>1, <1>2
  <2>5. \A i \in DOMAIN stack' : stack'[i].op \in Ops \ {"Read"} => i = 1
    BY <2>1
  <2>6. QED
    BY <1>8, <2>1, <2>2, <2>3, <2>4, <2>5 DEF FramesOK
<1>10. ConnsOK'
  BY <1>1, <1>6, <1>8 DEF ConnsOK, HttpInv
<1>11. QED
  BY <1>7, <1>9, <1>10 DEF HttpInv

LEMMA LoopEndKeeps ==
  ASSUME HttpInv, LoopEnd
  PROVE  HttpInv'
<1> DEFINE n == Len(stack)
<1>1. /\ stack # << >> /\ Top.op = "Loop" /\ conn' = ReleaseFinished(conn)
      /\ stack' = SubSeq(stack, 1, n - 1) /\ polling_' = polling_
  BY DEF LoopEnd
<1>2. n \in Nat /\ n > 0 /\ DOMAIN stack = 1 .. n /\ stack[n].op = "Loop" /\ stack \in Seq(FrameType)
      /\ n = Len(stack)
  BY <1>1, TopFacts DEF HttpInv, FramesOK
<1> HIDE DEF n
<1>3. /\ stack' \in Seq(FrameType) /\ Len(stack') = n - 1 /\ DOMAIN stack' = 1 .. n - 1
      /\ \A i \in 1 .. n - 1 : stack'[i] = stack[i]
  BY <1>1, <1>2
<1>4. \A c \in Conns : /\ SlotKept(conn[c], conn'[c])
                       /\ (~polling_[c] => ConnOK(conn'[c], "Loop"))
                       /\ (polling_[c] => conn'[c] = conn[c])
  BY <1>1, Released DEF HttpInv
<1>5. conn' = [c \in Conns |-> conn'[c]]
  BY <1>1, ReleasedIs
<1>6. SlotsOK'
  BY <1>4, SlotsShrink DEF HttpInv
<1>7. FramesOK'
  <2>1. \A i \in DOMAIN stack' : i \in DOMAIN stack /\ stack'[i] = stack[i]
    BY <1>2, <1>3
  <2>2. \A i \in 1 .. Len(stack') - 1 : stack'[i].op # "Loop"
    BY <1>2, <1>3 DEF HttpInv, FramesOK
  <2>3. ASSUME NEW c \in Conns, polling_[c]
        PROVE  \E i \in DOMAIN stack' : stack'[i].op # "Loop" /\ stack'[i].at = c
    <3>1. PICK i \in DOMAIN stack : stack[i].op # "Loop" /\ stack[i].at = c
      BY <2>3 DEF HttpInv, FramesOK
    <3>2. i \in 1 .. n - 1
      BY <1>2, <3>1
    <3>3. QED
      BY <1>3, <3>1, <3>2
  <2>4. QED
    BY <1>1, <1>3, <2>1, <2>2, <2>3 DEF HttpInv, FramesOK
<1>8. \A i \in DOMAIN stack' : stack'[i].op # "Loop" => ConnOK(conn'[stack'[i].at], stack'[i].op)
  <2> SUFFICES ASSUME NEW i \in DOMAIN stack', stack'[i].op # "Loop"
               PROVE  ConnOK(conn'[stack'[i].at], stack'[i].op)
    OBVIOUS
  <2>1. i \in DOMAIN stack /\ stack'[i] = stack[i]
    BY <1>2, <1>3
  <2>2. stack[i].at \in Conns /\ polling_[stack[i].at] /\ ConnOK(conn[stack[i].at], stack[i].op)
    BY <2>1 DEF HttpInv, FramesOK, ConnsOK
  <2>3. QED
    BY <1>4, <2>1, <2>2
<1>9. ConnsOK'
  BY <1>1, <1>4, <1>5, <1>8 DEF ConnsOK, HttpInv
<1>10. QED
  BY <1>6, <1>7, <1>9 DEF HttpInv

LEMMA YieldKeeps ==
  ASSUME HttpInv, Yield
  PROVE  HttpInv'
<1> DEFINE n == Len(stack)
           f == stack[n]
           g == [f EXCEPT !.yields = @ + 1]
           h == NewFrame(TRUE)
<1>1. /\ stack # << >> /\ Top.op # "Loop" /\ UNCHANGED <<conn, polling_>>
      /\ stack' = Append([stack EXCEPT ![n] = g], h)
  BY DEF Yield
<1>2. n \in Nat /\ n > 0 /\ DOMAIN stack = 1 .. n /\ f.op # "Loop" /\ stack \in Seq(FrameType)
      /\ n = Len(stack) /\ f \in FrameType /\ f = stack[n]
  BY <1>1, TopFacts DEF HttpInv, FramesOK
<1> HIDE DEF n, f
<1>3. g \in FrameType /\ g.coop = f.coop /\ g.at = f.at /\ g.op = f.op
  BY <1>2, FrameYield
<1>4. h \in FrameType /\ h.coop /\ h.op = "Loop"
  BY FrameNew
<1> HIDE DEF g, h
<1> DEFINE s == [stack EXCEPT ![n] = g]
<1>5. s \in Seq(FrameType) /\ Len(s) = n /\ s[n] = g /\ \A i \in 1 .. n : i # n => s[i] = stack[i]
  BY <1>2, <1>3
<1> HIDE DEF s
<1>6. /\ stack' \in Seq(FrameType) /\ Len(stack') = n + 1 /\ DOMAIN stack' = 1 .. n + 1
      /\ stack'[n + 1] = h /\ \A i \in 1 .. n : stack'[i] = s[i]
  <2>1. stack' = Append(s, h)
    BY <1>1 DEF s
  <2>2. stack' \in Seq(FrameType) /\ Len(stack') = n + 1
    BY <1>4, <1>5, <2>1
  <2>3. stack'[Len(s) + 1] = h /\ \A i \in 1 .. Len(s) : stack'[i] = s[i]
    BY <1>4, <1>5, <2>1, AppendProperties
  <2>4. stack'[n + 1] = h /\ \A i \in 1 .. n : stack'[i] = s[i]
    BY <1>5, <2>3
  <2>5. QED
    BY <1>2, <2>2, <2>4
<1>7. \A i \in 1 .. n : /\ stack'[i].coop = stack[i].coop /\ stack'[i].at = stack[i].at
                        /\ stack'[i].op = stack[i].op
  BY <1>2, <1>3, <1>5, <1>6
<1>8. \A i \in DOMAIN stack' : i = n + 1 \/ i \in 1 .. n
  BY <1>2, <1>6
<1>9. FramesOK'
  <2>1. \A i \in DOMAIN stack' : (stack'[i].coop <=> i > 1)
    <3>1. ASSUME NEW i \in 1 .. n PROVE stack'[i].coop <=> i > 1
      BY <1>2, <1>7 DEF HttpInv, FramesOK
    <3>2. stack'[n + 1].coop /\ n + 1 > 1
      BY <1>2, <1>4, <1>6
    <3>3. QED
      BY <1>8, <3>1, <3>2
  <2>2. \A i \in 1 .. n : stack'[i].op # "Loop"
    BY <1>2, <1>7 DEF HttpInv, FramesOK
  <2>3. \A i \in 1 .. Len(stack') - 1 : stack'[i].op # "Loop"
    BY <1>2, <1>6, <2>2
  <2>4. \A i \in DOMAIN stack' : stack'[i].op \in Ops \ {"Read"} => i = 1
    BY <1>2, <1>4, <1>6, <1>7, <1>8 DEF HttpInv, FramesOK, Ops
  <2>5. \A i \in DOMAIN stack' : stack'[i].op # "Loop" =>
          stack'[i].at \in Conns /\ polling_'[stack'[i].at]
    <3> SUFFICES ASSUME NEW i \in 1 .. n
                 PROVE  stack'[i].at \in Conns /\ polling_'[stack'[i].at]
      BY <1>4, <1>6, <1>8
    <3>1. i \in DOMAIN stack /\ stack'[i].at = stack[i].at /\ stack[i].op # "Loop"
      BY <1>2, <1>7, <2>2
    <3>2. QED
      BY <1>1, <3>1 DEF HttpInv, FramesOK
  <2>6. \A i, j \in DOMAIN stack' :
          stack'[i].op # "Loop" /\ stack'[j].op # "Loop" /\ stack'[i].at = stack'[j].at => i = j
    BY <1>2, <1>4, <1>6, <1>7, <1>8 DEF HttpInv, FramesOK
  <2>7. ASSUME NEW c \in Conns, polling_'[c]
        PROVE  \E i \in DOMAIN stack' : stack'[i].op # "Loop" /\ stack'[i].at = c
    <3>1. PICK i \in DOMAIN stack : stack[i].op # "Loop" /\ stack[i].at = c
      BY <1>1, <2>7 DEF HttpInv, FramesOK
    <3>2. i \in 1 .. n /\ i \in DOMAIN stack'
      BY <1>2, <1>6
    <3>3. QED
      BY <1>7, <3>1, <3>2
  <2>8. QED
    BY <1>6, <2>1, <2>3, <2>4, <2>5, <2>6, <2>7 DEF FramesOK
<1>10. \A i \in DOMAIN stack' : stack'[i].op # "Loop" => ConnOK(conn'[stack'[i].at], stack'[i].op)
  <2> SUFFICES ASSUME NEW i \in 1 .. n, stack'[i].op # "Loop"
               PROVE  ConnOK(conn'[stack'[i].at], stack'[i].op)
    BY <1>4, <1>6, <1>8
  <2>1. i \in DOMAIN stack /\ stack'[i].at = stack[i].at /\ stack'[i].op = stack[i].op
    BY <1>2, <1>7
  <2>2. QED
    BY <1>1, <2>1 DEF HttpInv, ConnsOK
<1>11. ConnsOK'
  BY <1>1, <1>10 DEF ConnsOK, HttpInv
<1>12. SlotsOK'
  BY <1>1 DEF HttpInv, SlotsOK
<1>13. QED
  BY <1>9, <1>11, <1>12 DEF HttpInv

\* Stop terminates every connection; one that has ended stays as it is.
LEMMA StopKeeps ==
  ASSUME HttpInv, Stop
  PROVE  HttpInv'
<1> DEFINE ts == [c \in Conns |-> Terminate(conn[c])]
<1>1. stack = << >> /\ stack' = stack /\ polling_' = polling_ /\ conn' = ReleaseFinished(ts)
  BY DEF Stop
<1>2. \A c \in Conns : ~polling_[c]
  BY <1>1, NoFrame
<1>3. \A c \in Conns : ConnOK(conn[c], "Loop")
  BY <1>2 DEF HttpInv, ConnsOK
<1>4. ASSUME NEW c \in Conns
      PROVE  ConnOK(ts[c], "Loop") /\ IdleOK(ts[c]) /\ SlotKept(conn[c], ts[c])
  <2> DEFINE k == conn[c]
  <2>1. ts[c] = Terminate(k) /\ ConnOK(k, "Loop")
    BY <1>3
  <2> HIDE DEF k, ts
  <2>2. CASE k.active
    <3>1. IsConn(k) /\ Connected(k) /\ Ending(k)
      <4>1. IsConn(k) /\ Connected(k) /\ (HeadOK(k) \/ BodyOK(k) \/ WriteOK(k))
        BY <2>1, <2>2 DEF ConnOK, IdleOK, Connected
      <4>2. HeadOK(k) => Ending(k)
        BY <2>2 DEF HeadOK, Clean, Ending
      <4>3. BodyOK(k) => Ending(k)
        BY <2>2 DEF BodyOK, Ending
      <4>4. QED
        BY <4>1, <4>2, <4>3, WriteEnding
    <3>2. QED
      BY <2>1, <3>1, TerminateFacts DEF ConnOK, k
  <2>3. CASE ~k.active
    <3>1. Terminate(k) = k
      BY <2>3 DEF Terminate
    <3>2. IdleOK(k)
      BY <2>1, <2>3 DEF ConnOK, Connected, HeadOK, BodyOK, WriteOK
    <3>3. QED
      BY <2>1, <3>1, <3>2 DEF SlotKept, k
  <2>4. QED
    BY <2>2, <2>3
<1>5. ASSUME NEW c \in Conns
      PROVE  ConnOK(conn'[c], "Loop") /\ SlotKept(conn[c], conn'[c])
  <2>1. conn'[c] = IF ts[c].active THEN ts[c] ELSE TakeFinishedTransport(ts[c])
    BY <1>1 DEF ReleaseFinished
  <2> HIDE DEF ts
  <2>2. IsConn(ts[c])
    BY <1>4 DEF ConnOK
  <2>3. /\ ConnOK(TakeFinishedTransport(ts[c]), "Loop")
        /\ SlotKept(ts[c], TakeFinishedTransport(ts[c]))
    BY <1>4, <2>2, TakenFacts
  <2>4. SlotKept(conn[c], TakeFinishedTransport(ts[c]))
    BY <1>4, <2>3 DEF SlotKept
  <2>5. QED
    BY <1>4, <2>1, <2>3, <2>4
<1>6. conn' = [c \in Conns |-> conn'[c]]
  BY <1>1 DEF ReleaseFinished
<1>7. SlotsOK'
  BY <1>5, SlotsShrink DEF HttpInv
<1>8. FramesOK' /\ DOMAIN stack' = {}
  BY <1>1 DEF HttpInv, FramesOK
<1>9. ConnsOK'
  BY <1>1, <1>5, <1>6, <1>8 DEF ConnsOK, HttpInv
<1>10. QED
  BY <1>7, <1>8, <1>9 DEF HttpInv

LEMMA OlderType ==
  ASSUME NEW age \in Nat, NEW read \in BOOLEAN, NEW limit
  PROVE  Older(age, read, limit) \in Nat
  BY DEF Older

LEMMA TickKeeps ==
  ASSUME HttpInv, Tick
  PROVE  HttpInv'
<1>1. ASSUME NEW c \in Conns PROVE IsConn(conn[c])
  <2>1. CASE ~polling_[c]
    BY <2>1 DEF HttpInv, ConnsOK, ConnOK
  <2>2. CASE polling_[c]
    BY <2>2 DEF HttpInv, FramesOK, ConnsOK, ConnOK
  <2>3. QED
    BY <2>1, <2>2
<1>2. ASSUME NEW c \in Conns PROVE IsConn(conn'[c]) /\ Alike(conn[c], conn'[c])
  <2>1. PICK k : k = conn[c]
    OBVIOUS
  <2> DEFINE x == Older(k.started, ~k.pending /\ Reading(k),
                        MaxCall + IF k.state = "ReadingHead" THEN HeaderTimeout ELSE BodyTimeout)
             y == Older(k.progress, ~k.pending /\ k.active,
                        MaxCall + IF Reading(k) THEN IdleTimeout ELSE WriteTimeout)
             z == Older(k.moved, ~k.pending /\ k.active /\ ~Reading(k), WriteTimeout)
             r == [k EXCEPT !.started = x, !.progress = y, !.moved = z]
  <2>2. conn'[c] = r
    BY <2>1 DEF Tick
  <2>3. IsConn(k)
    BY <1>1, <2>1
  <2>4. /\ (~k.pending /\ Reading(k)) \in BOOLEAN /\ (~k.pending /\ k.active) \in BOOLEAN
        /\ (~k.pending /\ k.active /\ ~Reading(k)) \in BOOLEAN
    OBVIOUS
  <2>5. k.started \in Nat /\ k.progress \in Nat /\ k.moved \in Nat
    BY <2>3 DEF IsConn
  <2>6. x \in Nat /\ y \in Nat /\ z \in Nat
    BY <2>4, <2>5, OlderType
  <2> HIDE DEF x, y, z
  <2>7. IsConn(r)
    BY <2>3, <2>6, FieldsAre DEF IsConn
  <2>8. Alike(k, r)
    BY <2>3, FieldsAre DEF IsConn, Alike
  <2> HIDE DEF r
  <2>9. QED
    BY <2>1, <2>2, <2>7, <2>8
<1>3. conn' = [c \in Conns |-> conn'[c]] /\ polling_' = polling_
  BY DEF Tick
<1>4. ASSUME NEW c \in Conns, NEW op, ConnOK(conn[c], op) PROVE ConnOK(conn'[c], op)
  BY <1>2, <1>4, AlikeOK
<1>5. \A c \in Conns : SlotKept(conn[c], conn'[c])
  BY <1>2 DEF Alike, SlotKept
<1>6. SlotsOK'
  BY <1>5, SlotsShrink DEF HttpInv
<1> DEFINE n == Len(stack)
<1>7. n \in Nat /\ DOMAIN stack = 1 .. n /\ \A i \in 1 .. n : stack[i] \in FrameType
  BY DEF HttpInv, FramesOK
<1>8. stack' = [i \in 1 .. n |-> [stack[i] EXCEPT !.age = @ + 1]]
  BY <1>7 DEF Tick
<1>9. ASSUME NEW i \in 1 .. n
      PROVE  /\ stack'[i] \in FrameType /\ stack'[i].coop = stack[i].coop
             /\ stack'[i].at = stack[i].at /\ stack'[i].op = stack[i].op
  <2>1. PICK f \in FrameType : f = stack[i]
    BY <1>7
  <2>2. f.age < MaxCall
    BY <1>7, <2>1 DEF Tick
  <2>3. stack'[i] = [f EXCEPT !.age = @ + 1]
    BY <1>8, <2>1
  <2>4. QED
    BY <2>1, <2>2, <2>3, FrameAge
<1> HIDE DEF n
<1>10. stack' \in Seq(FrameType) /\ DOMAIN stack' = 1 .. n /\ Len(stack') = n
  BY <1>7, <1>8, <1>9
<1>11. FramesOK'
  <2>1. \A i \in 1 .. Len(stack') - 1 : stack'[i].op # "Loop"
    BY <1>7, <1>9, <1>10 DEF HttpInv, FramesOK, n
  <2>2. ASSUME NEW c \in Conns, polling_'[c]
        PROVE  \E i \in DOMAIN stack' : stack'[i].op # "Loop" /\ stack'[i].at = c
    <3>1. PICK i \in DOMAIN stack : stack[i].op # "Loop" /\ stack[i].at = c
      BY <1>3, <2>2 DEF HttpInv, FramesOK
    <3>2. QED
      BY <1>7, <1>9, <1>10, <3>1
  <2>3. \A i \in DOMAIN stack' : (stack'[i].coop <=> i > 1)
    BY <1>7, <1>9, <1>10 DEF HttpInv, FramesOK
  <2>4. \A i \in DOMAIN stack' : stack'[i].op \in Ops \ {"Read"} => i = 1
    BY <1>7, <1>9, <1>10 DEF HttpInv, FramesOK
  <2>5. \A i \in DOMAIN stack' : stack'[i].op # "Loop" =>
          stack'[i].at \in Conns /\ polling_'[stack'[i].at]
    BY <1>3, <1>7, <1>9, <1>10 DEF HttpInv, FramesOK
  <2>6. \A i, j \in DOMAIN stack' :
          stack'[i].op # "Loop" /\ stack'[j].op # "Loop" /\ stack'[i].at = stack'[j].at => i = j
    BY <1>7, <1>9, <1>10 DEF HttpInv, FramesOK
  <2>7. QED
    BY <1>10, <2>1, <2>2, <2>3, <2>4, <2>5, <2>6 DEF FramesOK
<1>12. ConnsOK'
  <2>1. \A c \in Conns : ~polling_'[c] => ConnOK(conn'[c], "Loop")
    BY <1>3, <1>4 DEF HttpInv, ConnsOK
  <2>2. ASSUME NEW i \in DOMAIN stack', stack'[i].op # "Loop"
        PROVE  ConnOK(conn'[stack'[i].at], stack'[i].op)
    <3>1. /\ i \in DOMAIN stack /\ stack'[i].op = stack[i].op /\ stack'[i].at = stack[i].at
      BY <1>7, <1>9, <1>10
    <3>2. stack[i].at \in Conns /\ ConnOK(conn[stack[i].at], stack[i].op)
      BY <2>2, <3>1 DEF HttpInv, FramesOK, ConnsOK
    <3>3. QED
      BY <1>4, <3>1, <3>2
  <2>3. QED
    BY <1>3, <2>1, <2>2 DEF ConnsOK, HttpInv
<1>13. QED
  BY <1>6, <1>11, <1>12 DEF HttpInv

-----------------------------------------------------------------------------

LEMMA HttpInvInit == Init => HttpInv
<1> SUFFICES ASSUME Init PROVE HttpInv
  OBVIOUS
<1>1. stack = << >> /\ polling_ = [c \in Conns |-> FALSE] /\ conn = [c \in Conns |-> Fresh]
  BY DEF Init
<1>2. Len(stack) = 0 /\ DOMAIN stack = {} /\ stack \in Seq(FrameType)
  BY <1>1
<1>3. FramesOK
  BY <1>1, <1>2 DEF FramesOK
<1>4. ConnOK(Fresh, "Loop") /\ ~Fresh.slot
  <2>1. 0 \in 0 .. MaxBody /\ 0 \in 0 .. (MaxBody + 1)
    BY HttpServerAssumption
  <2>2. IsConn(Fresh) /\ ~Fresh.slot
    BY <2>1 DEF Fresh, IsConn, Fields
  <2>3. Connected(Fresh) /\ IdleOK(Fresh)
    BY DEF Fresh, Connected, IdleOK, WriterActive
  <2>4. QED
    BY <2>2, <2>3 DEF ConnOK
<1>5. ConnsOK
  BY <1>1, <1>2, <1>4 DEF ConnsOK
<1>6. SlotsOK
  <2>1. \A c \in Conns : ~conn[c].slot
    BY <1>1, <1>4
  <2>2. {c \in Conns : conn[c].kind = "log" /\ conn[c].slot} = {}
    BY <2>1
  <2>3. Cardinality({}) <= MaxStreams
    BY FS_EmptySet, HttpServerAssumption
  <2>4. QED
    BY <2>1, <2>2, <2>3 DEF SlotsOK
<1>7. QED
  BY <1>3, <1>5, <1>6 DEF HttpInv

LEMMA HttpInvNext == HttpInv /\ [Next]_vars => HttpInv'
<1> SUFFICES ASSUME HttpInv, [Next]_vars PROVE HttpInv'
  OBVIOUS
<1>1. ASSUME NEW c \in Conns, Poll(c) PROVE HttpInv'
  BY <1>1, PollReadKeeps, RouteKeeps, CallReturnsKeeps, PollResponseKeeps, StreamReadKeeps DEF Poll
<1>2. CASE UNCHANGED vars
  BY <1>2 DEF vars, HttpInv, FramesOK, ConnsOK, SlotsOK
<1>3. QED
  BY <1>1, <1>2, ServerPollKeeps, LoopEndKeeps, YieldKeeps, StopKeeps, TickKeeps DEF Next, Server

LEMMA HttpInvariant == Spec => []HttpInv
  BY HttpInvInit, HttpInvNext, PTL DEF Spec

\* What the invariant says of every connection.
LEMMA EveryConnection ==
  ASSUME HttpInv, NEW c \in Conns
  PROVE  \E op \in Ops \cup {"Loop"} :
           /\ ConnOK(conn[c], op)
           /\ (op = "Loop" <=> ~polling_[c])
           /\ (op = "Loop" => Calls(c) = {})
           /\ (op # "Loop" => \E i \in DOMAIN stack : Calls(c) = {i} /\ stack[i].op = op)
<1>1. CASE ~polling_[c]
  <2>1. Calls(c) = {}
    BY <1>1 DEF Calls, HttpInv, FramesOK
  <2>2. ConnOK(conn[c], "Loop")
    BY <1>1 DEF HttpInv, ConnsOK
  <2>3. QED
    BY <1>1, <2>1, <2>2
<1>2. CASE polling_[c]
  <2>1. PICK i \in DOMAIN stack : stack[i].op # "Loop" /\ stack[i].at = c
    BY <1>2 DEF HttpInv, FramesOK
  <2>2. stack[i] \in FrameType
    BY DEF HttpInv, FramesOK
  <2>3. stack[i].op \in Ops
    BY <2>1, <2>2 DEF FrameType
  <2>4. ConnOK(conn[c], stack[i].op)
    BY <2>1 DEF HttpInv, ConnsOK
  <2>5. Calls(c) = {i}
    BY <2>1 DEF Calls, HttpInv, FramesOK
  <2>6. QED
    BY <1>2, <2>1, <2>3, <2>4, <2>5 DEF Calls
<1>3. QED
  BY <1>1, <1>2

LEMMA TypesFollow == HttpInv => TypeOK
<1> SUFFICES ASSUME HttpInv PROVE TypeOK
  OBVIOUS
<1>1. ASSUME NEW c \in Conns
      PROVE  LET k == conn[c] IN
             /\ DOMAIN k = DOMAIN Fresh
             /\ k.state \in {"Idle", "ReadingHead", "ReadingBody", "WritingResponse"}
             /\ k.active = (k.state # "Idle")
             /\ k.transport \in {"none", "open", "closed"} /\ (k.transport = "open") = k.active
             /\ k.remaining \in 0..MaxBody /\ k.unread \in 0..(MaxBody + 1)
             /\ k.writer \in {"Idle", "Headers", "FixedBody", "StreamBody", "Complete", "Failed"}
             /\ k.body \in {"Empty", "Fixed", "Stream"}
             /\ {k.started, k.progress, k.moved} \subseteq Nat
             /\ k.kind \in {"none", "upload", "json", "log", "file", "owned"}
  <2>1. PICK k : k = conn[c]
    OBVIOUS
  <2>2. IsConn(k) /\ Connected(k)
    BY <2>1, EveryConnection DEF ConnOK
  <2>3. k.active = (k.state # "Idle")
    BY <2>2 DEF IsConn, Connected
  <2>4. (k.transport = "open") = k.active
    BY <2>2 DEF IsConn, Connected
  <2>5. QED
    BY <2>1, <2>2, <2>3, <2>4 DEF IsConn, Fields
<1>2. ASSUME NEW i \in DOMAIN stack
      PROVE  /\ stack[i].age \in 0..MaxCall /\ stack[i].at \in 0..N
             /\ stack[i].op \in Ops \cup {"Loop"} /\ stack[i].coop = (i > 1)
  <2>1. PICK f \in FrameType : f = stack[i]
    BY DEF HttpInv, FramesOK
  <2>2. f.coop <=> i > 1
    BY <2>1 DEF HttpInv, FramesOK
  <2>3. f.coop = (i > 1)
    BY <2>2 DEF FrameType
  <2>4. QED
    BY <2>1, <2>3 DEF FrameType
<1>3. QED
  BY <1>1, <1>2 DEF TypeOK

LEMMA OwnersFollow == HttpInv => ObjectsOwned
<1> SUFFICES ASSUME HttpInv, NEW c \in Conns
             PROVE  LET k == conn[c] IN
                    /\ k.live \in {0, 1}
                    /\ k.sink \/ k.completion => k.live = 1 /\ k.active
                    /\ ~(k.sink /\ k.completion)
                    /\ k.sink => ~k.ended
                    /\ WriterActive(k) /\ k.activated /\ ~k.finished /\ k.cancels = 0 => k.live = 1
                    /\ ~k.active => ~WriterActive(k)
                    /\ k.live = 1 => k.sink \/ k.completion \/ Calls(c) # {}
  BY DEF ObjectsOwned
<1>1. PICK k : k = conn[c]
  OBVIOUS
<1>2. PICK op \in Ops \cup {"Loop"} :
        /\ ConnOK(k, op) /\ (op # "Loop" => \E i \in DOMAIN stack : Calls(c) = {i})
  BY <1>1, EveryConnection
<1>3. op # "Loop" => Calls(c) # {}
  BY <1>2
<1>4. Connected(k)
  BY <1>2 DEF ConnOK
<1>5. CASE op = "Begin" \/ op = "Finish"
  <2>1. (BeginOK(k) \/ FinishOK(k)) /\ Calls(c) # {}
    BY <1>2, <1>3, <1>5 DEF ConnOK
  <2>2. QED
    BY <1>1, <1>4, <2>1 DEF BeginOK, FinishOK, Clean, Connected
<1>6. CASE op = "Probe" \/ (op = "Loop" /\ HeadOK(k))
  <2>1. HeadOK(k)
    BY <1>2, <1>6 DEF ConnOK
  <2>2. QED
    BY <1>1, <1>4, <2>1 DEF HeadOK, Clean, Connected
<1>7. CASE op = "Read" \/ (op = "Loop" /\ WriteOK(k))
  <2>1. WriteOK(k)
    BY <1>2, <1>7 DEF ConnOK
  <2>2. QED
    BY <1>1, <1>4, <2>1 DEF WriteOK, Connected
<1>8. CASE op = "Loop" /\ IdleOK(k)
  BY <1>1, <1>4, <1>8 DEF IdleOK, Connected
<1>9. CASE op = "Loop" /\ BodyOK(k)
  BY <1>1, <1>4, <1>9 DEF BodyOK, Connected
<1>10. QED
  BY <1>2, <1>5, <1>6, <1>7, <1>8, <1>9 DEF ConnOK, Ops

LEMMA NotReenteredFollows == HttpInv => NotReentered
<1> SUFFICES ASSUME HttpInv, NEW c \in Conns
             PROVE  /\ Cardinality(Calls(c)) = IF polling_[c] THEN 1 ELSE 0
                    /\ \A i \in Calls(c) :
                         conn[c].state = CASE stack[i].op \in {"Probe", "Begin"} -> "ReadingHead"
                                           [] stack[i].op = "Finish" -> "ReadingBody"
                                           [] stack[i].op = "Read" -> "WritingResponse"
  BY DEF NotReentered
<1>1. PICK op \in Ops \cup {"Loop"} :
        /\ ConnOK(conn[c], op) /\ (op = "Loop" <=> ~polling_[c])
        /\ (op = "Loop" => Calls(c) = {})
        /\ (op # "Loop" => \E i \in DOMAIN stack : Calls(c) = {i} /\ stack[i].op = op)
  BY EveryConnection
<1>2. CASE op = "Loop"
  BY <1>1, <1>2, FS_EmptySet
<1>3. CASE op # "Loop"
  <2>1. PICK i \in DOMAIN stack : Calls(c) = {i} /\ stack[i].op = op
    BY <1>1, <1>3
  <2>2. Cardinality(Calls(c)) = 1
    BY <2>1, FS_Singleton
  <2>3. /\ op \in {"Probe", "Begin"} => conn[c].state = "ReadingHead"
        /\ op = "Finish" => conn[c].state = "ReadingBody"
        /\ op = "Read" => conn[c].state = "WritingResponse"
    BY <1>1 DEF ConnOK, HeadOK, BeginOK, FinishOK, WriteOK
  <2>4. conn[c].state = CASE op \in {"Probe", "Begin"} -> "ReadingHead"
                          [] op = "Finish" -> "ReadingBody"
                          [] op = "Read" -> "WritingResponse"
    BY <1>3, <2>3 DEF Ops
  <2>5. QED
    BY <1>1, <1>3, <2>1, <2>2, <2>4
<1>4. QED
  BY <1>2, <1>3

\* The cooperative server stays in order for every number of connections and every
\* nesting of yields: each object of a request has one owner and is deleted once, no
\* connection is polled inside its own Poll, and no request is read, routed or given
\* to a sink inside another (HttpServer::Poll, PollResponsesCooperatively).
THEOREM RequestsAreIsolated == Spec => []RequestsIsolated
<1>1. HttpInv => RequestsNotNested
  BY DEF HttpInv, FramesOK, RequestsNotNested
<1>2. HttpInv => RequestsIsolated
  BY <1>1, TypesFollow, OwnersFollow, NotReenteredFollows DEF RequestsIsolated
<1>3. QED
  BY <1>2, HttpInvariant, PTL

\* HttpResponseStream::Cancel is called exactly once for a started stream that is not
\* read to its end, and never for one that is, however the connection ends.
THEOREM StreamsAreCancelledOnce == Spec => []StreamCancelledOnce
<1>1. ASSUME HttpInv PROVE StreamCancelledOnce
  <2> SUFFICES ASSUME NEW c \in Conns
               PROVE  LET k == conn[c] IN
                      /\ k.cancels <= 1
                      /\ ~k.active /\ k.activated => k.finished # (k.cancels = 1)
    BY DEF StreamCancelledOnce
  <2>1. PICK k : k = conn[c]
    OBVIOUS
  <2>2. PICK op \in Ops \cup {"Loop"} : ConnOK(k, op)
    BY <1>1, <2>1, EveryConnection
  <2>3. IsConn(k) /\ Connected(k)
    BY <2>2 DEF ConnOK
  <2>4. IdleOK(k) \/ (k.active /\ k.cancels = 0)
    <3>1. BeginOK(k) \/ HeadOK(k) \/ FinishOK(k) \/ BodyOK(k) \/ WriteOK(k) \/ IdleOK(k)
      BY <2>2 DEF ConnOK, Ops
    <3>2. QED
      BY <2>3, <3>1 DEF Connected, BeginOK, HeadOK, FinishOK, BodyOK, WriteOK, Clean
  <2>5. CASE IdleOK(k)
    BY <2>1, <2>3, <2>5 DEF IdleOK, IsConn
  <2>6. CASE k.active /\ k.cancels = 0
    BY <2>1, <2>6
  <2>7. QED
    BY <2>4, <2>5, <2>6
<1>2. QED
  BY <1>1, HttpInvariant, PTL

\* The routers' slots are held by requests that are still served, one upload and at
\* most MaxStreams logs, whatever interleaving of requests, yields and lost clients.
THEOREM SlotsStayWithRequests == Spec => []SlotsHeldByRequests
<1>1. ASSUME HttpInv PROVE SlotsHeldByRequests
  <2>1. ASSUME NEW c \in Conns, conn[c].slot PROVE conn[c].active /\ conn[c].live = 1
    <3>1. PICK k : k = conn[c]
      OBVIOUS
    <3>2. PICK op \in Ops \cup {"Loop"} : ConnOK(k, op)
      BY <1>1, <3>1, EveryConnection
    <3>3. Connected(k)
      BY <3>2 DEF ConnOK
    <3>4. BeginOK(k) \/ HeadOK(k) \/ FinishOK(k) \/ BodyOK(k) \/ WriteOK(k) \/ IdleOK(k)
      BY <3>2 DEF ConnOK, Ops
    <3>5. QED
      BY <2>1, <3>1, <3>3, <3>4 DEF Connected, BeginOK, HeadOK, FinishOK, BodyOK, WriteOK, IdleOK
  <2>2. Cardinality(Uploads) <= 1
    <3>1. \A c, d \in Uploads : c = d
      BY <1>1 DEF HttpInv, SlotsOK, Uploads
    <3>2. Uploads = {} \/ \E c \in Uploads : Uploads = {c}
      BY <3>1
    <3>3. CASE Uploads = {}
      BY <3>3, FS_EmptySet
    <3>4. ASSUME NEW c, Uploads = {c} PROVE Cardinality(Uploads) <= 1
      <4>1. Cardinality({c}) = 1
        BY FS_Singleton
      <4>2. QED
        BY <3>4, <4>1
    <3>5. QED
      BY <3>2, <3>3, <3>4
  <2>3. Cardinality(Logs) <= MaxStreams
    BY <1>1 DEF HttpInv, SlotsOK, Logs
  <2>4. QED
    BY <2>1, <2>2, <2>3 DEF SlotsHeldByRequests, Uploads, Logs
<1>2. QED
  BY <1>1, HttpInvariant, PTL
=============================================================================
