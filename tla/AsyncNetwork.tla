----------------------------- MODULE AsyncNetwork -----------------------------
(***************************************************************************)
(* async_network.cpp: the emulated modem's TCP connections.  The emulator  *)
(* (core 1) starts and stops connections and moves bytes through the two   *)
(* queues of a slot; the worker (bmc64_async_net_process on core 0) does   *)
(* all socket calls, visiting the slots in turn.  An action is one         *)
(* critical section of a slot's mutex or of a queue's mutex.               *)
(*                                                                         *)
(* The fields of g_slots are variables of their own: a flag is the set of  *)
(* slots that have it, any other field a function of the slot.  A          *)
(* connection has a number besides the generation the code gives it, and a *)
(* byte is <<connection, position in its stream>>, so that the properties  *)
(* can say whose byte sits where.                                          *)
(***************************************************************************)
EXTENDS Integers, Sequences

CONSTANTS SlotCount,    \* kMaxConnections
          QueueSize,    \* kQueueSize
          TxChunk,      \* kTxChunkSize
          RxChunk,      \* kRxChunkSize
          GenLimit,     \* largest generation; UINT_MAX in the code
          MaxConns,     \* connections one behaviour starts (a bound)
          MaxBytes      \* bytes per connection and direction (a bound)

ASSUME AsyncNetworkAssumption ==
  /\ SlotCount \in Nat \ {0} /\ QueueSize \in Nat \ {0}
  /\ TxChunk \in Nat \ {0}
  /\ RxChunk \in 1 .. QueueSize
  /\ GenLimit \in Nat \ {0}
  /\ MaxConns \in Nat /\ MaxBytes \in Nat

VARIABLES inUse, releaseRequested, stopRequested, connectStarted,  \* sets of slots
          generation, connection,  \* the code's number of a slot's connection, and ours
          state, socket,     \* socket 0 is the null pointer
          rx, tx,            \* the two ByteQueues
          rxDropped,         \* rxDroppedBytes; the other statistics are left out
          nextGen,           \* g_nextGeneration
          handles,           \* the handles the emulator holds
          scan,              \* slot bmc64_async_net_start looks at, 0 outside it
          started,           \* connections started so far
          sockets,           \* sockets the network stack has open
          wslot, wpc,        \* the slot the worker is at, and where in it
          wsock,             \* the socket in the worker's hands, 0 for none
          wstate,            \* the state CloseSocket will publish
          wsent,             \* bytes send() took that are not dropped yet
          wrecv,             \* bytes receive() gave that are not queued yet
          pushedTx, sentTx, gotRx, readRx  \* bytes so far, per connection

flagVars == <<inUse, releaseRequested, stopRequested, connectStarted>>
idVars == <<generation, connection>>
queueVars == <<rx, tx, rxDropped>>
slotVars == <<flagVars, idVars, state, socket, queueVars>>
callVars == <<nextGen, handles, scan, started>>
localVars == <<wsock, wstate, wsent, wrecv>>
byteVars == <<pushedTx, sentTx, gotRx, readRx>>
netVars == <<slotVars, callVars, sockets, wslot, wpc, localVars, byteVars>>

Slots == 1 .. SlotCount
Connections == 1 .. MaxConns
States == {"CLOSED", "CONNECTING", "CONNECTED", "ERROR"}
WorkerPcs == {"Off", "Visit", "Free", "Freed", "Connect", "Connecting", "CloseAbandoned",
              "Pump", "Tx", "Drop", "Rx", "Push", "Close", "Closed"}

\* n bytes of connection c's stream after position k.
Stream(c, k, n) == [i \in 1 .. n |-> <<c, k + i>>]

Least(a, b) == IF a < b THEN a ELSE b

NetInit ==
  /\ inUse = {} /\ releaseRequested = {} /\ stopRequested = {} /\ connectStarted = {}
  /\ generation = [s \in Slots |-> 0] /\ connection = [s \in Slots |-> 0]
  /\ state = [s \in Slots |-> "CLOSED"] /\ socket = [s \in Slots |-> 0]
  /\ rx = [s \in Slots |-> << >>] /\ tx = [s \in Slots |-> << >>]
  /\ rxDropped = [s \in Slots |-> 0]
  /\ nextGen = 1 /\ handles = {} /\ scan = 0 /\ started = 0
  /\ sockets = {}
  /\ wslot = 1 /\ wpc = "Off"
  /\ wsock = 0 /\ wstate = "CLOSED" /\ wsent = 0 /\ wrecv = 0
  /\ pushedTx = [c \in Connections |-> 0] /\ sentTx = [c \in Connections |-> 0]
  /\ gotRx = [c \in Connections |-> 0] /\ readRx = [c \in Connections |-> 0]

-----------------------------------------------------------------------------
(* The emulator.  It is one thread: while bmc64_async_net_start scans the  *)
(* slots it makes no other call, and a handle it uses is checked and used  *)
(* in one step, because only the emulator itself could make it invalid.    *)

\* g_workerInitialized is wpc # "Off".
bmc64_async_net_initialize ==
  /\ wpc = "Off"
  /\ wpc' = "Visit"
  /\ UNCHANGED <<slotVars, callVars, sockets, wslot, localVars, byteVars>>

\* bmc64_async_net_start looks for a free slot, locking one at a time.
StartBegin ==
  /\ wpc # "Off"
  /\ scan = 0 /\ started < MaxConns
  /\ scan' = 1
  /\ UNCHANGED <<slotVars, nextGen, handles, started, sockets, wslot,
                 wpc, localVars, byteVars>>

NextGeneration == nextGen' = IF nextGen < GenLimit THEN nextGen + 1 ELSE 1

StartTake ==
  /\ scan \in Slots /\ scan \notin inUse
  /\ rx' = [rx EXCEPT ![scan] = << >>] /\ tx' = [tx EXCEPT ![scan] = << >>]
  /\ NextGeneration
  /\ generation' = [generation EXCEPT ![scan] = nextGen]
  /\ started' = started + 1
  /\ connection' = [connection EXCEPT ![scan] = started + 1]
  /\ socket' = [socket EXCEPT ![scan] = 0]
  /\ rxDropped' = [rxDropped EXCEPT ![scan] = 0]
  /\ releaseRequested' = releaseRequested \ {scan}
  /\ stopRequested' = stopRequested \ {scan}
  /\ connectStarted' = connectStarted \ {scan}
  /\ state' = [state EXCEPT ![scan] = "CONNECTING"]
  /\ inUse' = inUse \cup {scan}
  /\ handles' = handles \cup
       {[slot |-> scan, generation |-> nextGen, conn |-> started + 1]}
  /\ scan' = 0
  /\ UNCHANGED <<sockets, wslot, wpc, localVars, byteVars>>

\* No memory for the handle: the slot is left as it is.
StartNoMemory ==
  /\ scan \in Slots /\ scan \notin inUse
  /\ scan' = 0
  /\ UNCHANGED <<slotVars, nextGen, handles, started, sockets, wslot,
                 wpc, localVars, byteVars>>

\* The slot is taken: look at the next one, or give up.
StartSkip ==
  /\ scan \in inUse
  /\ scan' = IF scan < SlotCount THEN scan + 1 ELSE 0
  /\ UNCHANGED <<slotVars, nextGen, handles, started, sockets, wslot,
                 wpc, localVars, byteVars>>

\* SnapshotHandle: does the handle still name its connection?
Valid(h) == h.slot \in inUse /\ generation[h.slot] = h.generation

bmc64_async_net_stop(h) ==
  /\ scan = 0
  /\ LET stopped == IF Valid(h) THEN {h.slot} ELSE {} IN
     /\ stopRequested' = stopRequested \cup stopped
     /\ releaseRequested' = releaseRequested \cup stopped
  /\ handles' = handles \ {h}
  /\ UNCHANGED <<inUse, connectStarted, idVars, state, socket, queueVars, 
                 nextGen, scan, started, sockets, wslot, wpc, localVars, byteVars>>

\* Push takes the bytes that fit; the rest is refused.
bmc64_async_net_send(h, n) ==
  /\ scan = 0 /\ Valid(h)
  /\ pushedTx[h.conn] + n <= MaxBytes
  /\ LET k == Least(n, QueueSize - Len(tx[h.slot]))
     IN /\ tx' = [tx EXCEPT ![h.slot] = @ \o Stream(h.conn, pushedTx[h.conn], k)]
        /\ pushedTx' = [pushedTx EXCEPT ![h.conn] = @ + k]
  /\ UNCHANGED <<flagVars, idVars, state, socket, rx, rxDropped, callVars, sockets,
                 wslot, wpc, localVars, sentTx, gotRx, readRx>>

bmc64_async_net_receive(h, n) ==
  /\ scan = 0 /\ Valid(h)
  /\ LET k == Least(n, Len(rx[h.slot]))
     IN /\ rx' = [rx EXCEPT ![h.slot] = SubSeq(@, k + 1, Len(@))]
        /\ readRx' = [readRx EXCEPT ![h.conn] = @ + k]
  /\ UNCHANGED <<flagVars, idVars, state, socket, tx, rxDropped, callVars, sockets,
                 wslot, wpc, localVars, pushedTx, sentTx, gotRx>>

-----------------------------------------------------------------------------
(* The worker. *)

\* On to the next slot.
Advance ==
  /\ wslot' = IF wslot < SlotCount THEN wslot + 1 ELSE 1
  /\ wpc' = "Visit"

Goto(pc) == wpc' = pc /\ UNCHANGED wslot

\* What ProcessSlot does with the slot it sees.
Visited ==
  CASE wslot \notin inUse -> "Visit"
    [] wslot \in inUse \cap releaseRequested /\ socket[wslot] = 0
         /\ state[wslot] # "CONNECTING" -> "Free"
    [] wslot \in inUse \ connectStarted /\ state[wslot] = "CONNECTING" -> "Connect"
    [] wslot \in inUse /\ state[wslot] = "CONNECTED"
         /\ ~(wslot \in releaseRequested /\ socket[wslot] = 0) -> "Pump"
    [] wslot \in inUse \cap releaseRequested /\ socket[wslot] # 0
         /\ state[wslot] \in {"CLOSED", "ERROR"} -> "Free"
    [] OTHER -> "Visit"

\* ProcessSlot decides from a snapshot of the slot.
ProcessSlot ==
  /\ wpc = "Visit"
  /\ IF Visited = "Visit" THEN Advance ELSE Goto(Visited)
  /\ UNCHANGED <<slotVars, callVars, sockets, localVars, byteVars>>

\* FreeSlot clears the slot, takes its socket and closes it outside the lock.
FreeSlot ==
  /\ wpc = "Free"
  /\ wsock' = socket[wslot]
  /\ socket' = [socket EXCEPT ![wslot] = 0]
  /\ rx' = [rx EXCEPT ![wslot] = << >>] /\ tx' = [tx EXCEPT ![wslot] = << >>]
  /\ releaseRequested' = releaseRequested \ {wslot}
  /\ stopRequested' = stopRequested \ {wslot}
  /\ connectStarted' = connectStarted \ {wslot}
  /\ state' = [state EXCEPT ![wslot] = "CLOSED"]
  /\ inUse' = inUse \ {wslot}
  /\ Goto("Freed")
  /\ UNCHANGED <<idVars, rxDropped, callVars, sockets, wstate, wsent, wrecv, byteVars>>

FreeSlotClose ==
  /\ wpc = "Freed"
  /\ sockets' = sockets \ {wsock}
  /\ wsock' = 0
  /\ Advance
  /\ UNCHANGED <<slotVars, callVars, wstate, wsent, wrecv, byteVars>>

\* Connect marks the slot, then resolves and connects without the lock.
ConnectBegin ==
  /\ wpc = "Connect"
  /\ connectStarted' = connectStarted \cup {wslot}
  /\ Goto("Connecting")
  /\ UNCHANGED <<inUse, releaseRequested, stopRequested, idVars, state, socket,
                 queueVars, callVars, sockets, localVars, byteVars>>

\* Mutant: the failure is not published.
ConnectFailedQuiet ==
  /\ wpc = "Connecting"
  /\ socket' = [socket EXCEPT ![wslot] = 0]
  /\ Advance
  /\ UNCHANGED <<flagVars, idVars, state, queueVars, callVars, sockets, localVars, byteVars>>

\* The name is not resolved or the host refuses.
ConnectFailed ==
  /\ wpc = "Connecting"
  /\ state' = [state EXCEPT ![wslot] = "ERROR"]
  /\ socket' = [socket EXCEPT ![wslot] = 0]
  /\ Advance
  /\ UNCHANGED <<flagVars, idVars, queueVars, callVars, sockets, localVars, byteVars>>

\* The socket of a connection carries the connection's number.
ConnectDone ==
  /\ wpc = "Connecting" /\ wslot \notin stopRequested
  /\ sockets' = sockets \cup {connection[wslot]}
  /\ socket' = [socket EXCEPT ![wslot] = connection[wslot]]
  /\ state' = [state EXCEPT ![wslot] = "CONNECTED"]
  /\ Advance
  /\ UNCHANGED <<flagVars, idVars, queueVars, callVars, localVars, byteVars>>

\* Connected, but stopped meanwhile: the slot never gets the socket.
ConnectAbandoned ==
  /\ wpc = "Connecting" /\ wslot \in stopRequested
  /\ sockets' = sockets \cup {connection[wslot]}
  /\ socket' = [socket EXCEPT ![wslot] = 0]
  /\ wsock' = connection[wslot]
  /\ Goto("CloseAbandoned")
  /\ UNCHANGED <<flagVars, idVars, state, queueVars, callVars, wstate, wsent, wrecv,
                 byteVars>>

\* Mutant: the state stays CONNECTING.
CloseAbandonedQuiet ==
  /\ wpc = "CloseAbandoned"
  /\ sockets' = sockets \ {wsock}
  /\ wsock' = 0
  /\ Advance
  /\ UNCHANGED <<slotVars, callVars, wstate, wsent, wrecv, byteVars>>

CloseAbandoned ==
  /\ wpc = "CloseAbandoned"
  /\ sockets' = sockets \ {wsock}
  /\ wsock' = 0
  /\ state' = [state EXCEPT ![wslot] = "CLOSED"]
  /\ Advance
  /\ UNCHANGED <<flagVars, idVars, socket, queueVars, callVars, wstate, wsent, wrecv,
                 byteVars>>

\* CloseSocket(newState) is called next.
ThenClose(newState) == wstate' = newState /\ Goto("Close")

\* PumpConnected: SocketForConnected reads the stop request and the socket.
PumpStopped ==
  /\ wpc = "Pump" /\ wslot \in stopRequested
  /\ ThenClose("CLOSED")
  /\ UNCHANGED <<slotVars, callVars, sockets, wsock, wsent, wrecv, byteVars>>

PumpConnected ==
  /\ wpc = "Pump" /\ wslot \notin stopRequested
  /\ wsock' = IF state[wslot] = "CONNECTED" THEN socket[wslot] ELSE 0
  /\ IF wsock' # 0 THEN Goto("Tx") ELSE Advance
  /\ UNCHANGED <<slotVars, callVars, sockets, wstate, wsent, wrecv, byteVars>>

\* Peek and send: k bytes leave ...
PumpTx ==
  /\ wpc = "Tx"
  /\ \E k \in 1 .. Least(Len(tx[wslot]), TxChunk) :
       /\ wsent' = k
       /\ sentTx' = [sentTx EXCEPT ![wsock] = @ + k]
  /\ Goto("Drop")
  /\ UNCHANGED <<slotVars, callVars, sockets, wsock, wstate, wrecv, pushedTx, gotRx,
                 readRx>>

\* ... or there is nothing to send or the socket would block ...
PumpTxNone ==
  /\ wpc = "Tx"
  /\ Goto("Rx")
  /\ UNCHANGED <<slotVars, callVars, sockets, localVars, byteVars>>

\* ... or it failed.
PumpTxError ==
  /\ wpc = "Tx" /\ tx[wslot] # << >>
  /\ ThenClose("ERROR")
  /\ UNCHANGED <<slotVars, callVars, sockets, wsock, wsent, wrecv, byteVars>>

\* Mutant: drops what was offered, not what was sent.
PumpDropChunk ==
  /\ wpc = "Drop"
  /\ tx' = [tx EXCEPT ![wslot] = SubSeq(@, Least(Len(@), TxChunk) + 1, Len(@))]
  /\ wsent' = 0
  /\ Goto("Rx")
  /\ UNCHANGED <<flagVars, idVars, state, socket, rx, rxDropped, callVars, sockets,
                 wsock, wstate, wrecv, byteVars>>

PumpDrop ==
  /\ wpc = "Drop"
  /\ tx' = [tx EXCEPT ![wslot] = SubSeq(@, wsent + 1, Len(@))]
  /\ wsent' = 0
  /\ Goto("Rx")
  /\ UNCHANGED <<flagVars, idVars, state, socket, rx, rxDropped, callVars, sockets,
                 wsock, wstate, wrecv, byteVars>>

\* Is there room for a whole chunk?
RoomForChunk == Len(rx[wslot]) <= QueueSize - RxChunk

\* Receive only with room for a whole chunk: bytes ...
PumpRx ==
  /\ wpc = "Rx" /\ RoomForChunk
  /\ \E r \in 1 .. RxChunk :
       /\ gotRx[wsock] + r <= MaxBytes
       /\ wrecv' = r
       /\ gotRx' = [gotRx EXCEPT ![wsock] = @ + r]
  /\ Goto("Push")
  /\ UNCHANGED <<slotVars, callVars, sockets, wsock, wstate, wsent, pushedTx, sentTx,
                 readRx>>

\* ... nothing, or no room ...
PumpRxNone ==
  /\ wpc = "Rx"
  /\ Advance
  /\ UNCHANGED <<slotVars, callVars, sockets, localVars, byteVars>>

\* ... an error, or the peer's close.
PumpRxEnd ==
  /\ wpc = "Rx" /\ RoomForChunk
  /\ \E newState \in {"CLOSED", "ERROR"} : ThenClose(newState)
  /\ UNCHANGED <<slotVars, callVars, sockets, wsock, wsent, wrecv, byteVars>>

\* Push what fits; the rest would be lost.
PumpPush ==
  /\ wpc = "Push"
  /\ LET k == Least(wrecv, QueueSize - Len(rx[wslot]))
     IN /\ rx' = [rx EXCEPT ![wslot] = @ \o Stream(wsock, gotRx[wsock] - wrecv, k)]
        /\ rxDropped' = [rxDropped EXCEPT ![wslot] = @ + (wrecv - k)]
  /\ wrecv' = 0
  /\ Advance
  /\ UNCHANGED <<flagVars, idVars, state, socket, tx, callVars, sockets, wsock, wstate,
                 wsent, byteVars>>

\* CloseSocket takes the socket out of the slot ...
CloseSocket ==
  /\ wpc = "Close"
  /\ wsock' = socket[wslot]
  /\ socket' = [socket EXCEPT ![wslot] = 0]
  /\ Goto("Closed")
  /\ UNCHANGED <<flagVars, idVars, state, queueVars, callVars, sockets, wstate, wsent,
                 wrecv, byteVars>>

\* Mutant: the slot is freed with the socket.
CloseSocketDoneFrees ==
  /\ wpc = "Closed"
  /\ sockets' = sockets \ {wsock}
  /\ wsock' = 0
  /\ state' = [state EXCEPT ![wslot] = wstate]
  /\ inUse' = inUse \ {wslot}
  /\ Advance
  /\ UNCHANGED <<releaseRequested, stopRequested, connectStarted, idVars, socket,
                 queueVars, callVars, wstate, wsent, wrecv, byteVars>>

\* ... closes it, and only then publishes the new state.
CloseSocketDone ==
  /\ wpc = "Closed"
  /\ sockets' = sockets \ {wsock}
  /\ wsock' = 0
  /\ state' = [state EXCEPT ![wslot] = wstate]
  /\ Advance
  /\ UNCHANGED <<flagVars, idVars, socket, queueVars, callVars, wstate, wsent, wrecv,
                 byteVars>>

-----------------------------------------------------------------------------

NetCalls ==
  \/ bmc64_async_net_initialize
  \/ StartBegin \/ StartTake \/ StartNoMemory \/ StartSkip
  \/ \E h \in handles :
       \/ bmc64_async_net_stop(h)
       \/ \E n \in 1 .. MaxBytes :
            bmc64_async_net_send(h, n) \/ bmc64_async_net_receive(h, n)

Worker ==
  \/ ProcessSlot \/ FreeSlot \/ FreeSlotClose
  \/ ConnectBegin \/ ConnectFailed \/ ConnectDone \/ ConnectAbandoned \/ CloseAbandoned
  \/ PumpStopped \/ PumpConnected \/ PumpTx \/ PumpTxNone \/ PumpTxError \/ PumpDrop
  \/ PumpRx \/ PumpRxNone \/ PumpRxEnd \/ PumpPush
  \/ CloseSocket \/ CloseSocketDone

NetNext == NetCalls \/ Worker

NetSpec == NetInit /\ [][NetNext]_netVars

-----------------------------------------------------------------------------
(* Properties. *)

Bytes == Connections \X Nat
Queues == [Slots -> Seq(Bytes)]

SlotTypes ==
  /\ inUse \subseteq Slots /\ releaseRequested \subseteq Slots
  /\ stopRequested \subseteq Slots /\ connectStarted \subseteq Slots
  /\ generation \in [Slots -> 0 .. GenLimit] /\ connection \in [Slots -> 0 .. MaxConns]
  /\ state \in [Slots -> States] /\ socket \in [Slots -> 0 .. MaxConns]
  /\ rxDropped \in [Slots -> Nat]

CallTypes ==
  /\ nextGen \in 1 .. GenLimit
  /\ handles \subseteq [slot : Slots, generation : 1 .. GenLimit, conn : Connections]
  /\ scan \in 0 .. SlotCount /\ started \in 0 .. MaxConns
  /\ scan # 0 => started < MaxConns

WorkerTypes ==
  /\ sockets \subseteq Connections
  /\ wslot \in Slots /\ wpc \in WorkerPcs /\ wsock \in 0 .. MaxConns
  /\ wstate \in {"CLOSED", "ERROR"}
  /\ wsent \in 0 .. TxChunk /\ wrecv \in 0 .. RxChunk

QueueTypes ==
  /\ rx \in Queues /\ tx \in Queues
  /\ \A s \in Slots : Len(rx[s]) <= QueueSize /\ Len(tx[s]) <= QueueSize
  /\ pushedTx \in [Connections -> Nat] /\ sentTx \in [Connections -> Nat]
  /\ gotRx \in [Connections -> Nat] /\ readRx \in [Connections -> Nat]

\* Type invariant of the slots, the handles and the worker's local variables;
\* NextGeneration never hands out 0, and no queue outgrows its array.
NetTypeOK == SlotTypes /\ CallTypes /\ WorkerTypes /\ QueueTypes

\* A slot in use belongs to exactly one handle until that handle is stopped:
\* the worker never frees or recycles a slot under the emulator, also when
\* the connection failed or the peer closed it, and bmc64_async_net_start
\* leaves no slot behind that no handle can ever release.
HandlesValid ==
  /\ \A h \in handles :
       Valid(h) /\ connection[h.slot] = h.conn /\ h.slot \notin releaseRequested
  /\ \A s \in inUse \ releaseRequested : \E h \in handles : h.slot = s

\* The socket the worker took out of a slot and has to close.
Held == IF wpc \in {"CloseAbandoned", "Closed", "Freed"} THEN {wsock} ELSE {}

\* Every open socket is in exactly one place, a slot or the worker's hands,
\* whatever races a stop with Connect, PumpConnected and CloseSocket: none is
\* lost, closed twice or left in a slot that is free; and the socket the
\* worker sends to or receives from is open and still the slot's.
SocketsAccounted ==
  /\ sockets = ({socket[s] : s \in Slots} \cup Held) \ {0}
  /\ \A s, t \in Slots : socket[s] = socket[t] /\ s # t => socket[s] = 0
  /\ \A s \in Slots : socket[s] # 0 =>
       s \in inUse /\ state[s] = "CONNECTED" /\ socket[s] \notin Held
  /\ wpc \in {"Tx", "Drop", "Rx", "Push"} => wsock # 0 /\ wsock = socket[wslot]

\* No race of the worker with a start or a stop loses a slot or a socket.
SlotsConsistent == HandlesValid /\ SocketsAccounted

\* PumpConnected counts the receive queue before it receives, and the
\* emulator moves the queue meanwhile: what was received always fits.
NoRxDropped == \A s \in Slots : rxDropped[s] = 0

\* Bytes of a slot's connection that left its tx queue and entered its rx queue.
TxGone(s) == sentTx[connection[s]] - (IF wpc = "Drop" /\ wslot = s THEN wsent ELSE 0)
RxCome(s) == gotRx[connection[s]] - (IF wpc = "Push" /\ wslot = s THEN wrecv ELSE 0)

\* The queues of a slot hold exactly its own connection's bytes, in order and
\* without a gap or a repetition, through partial sends and through the reuse
\* of the slot: nothing of an earlier connection is sent or received.
StreamsInOrder ==
  \A s \in inUse :
    LET c == connection[s] IN
    /\ tx[s] = Stream(c, TxGone(s), pushedTx[c] - TxGone(s))
    /\ rx[s] = Stream(c, readRx[c], RxCome(s) - readRx[c])

\* Every byte arrives, once and in order.
StreamsExact == NoRxDropped /\ StreamsInOrder

\* A slot whose handle was stopped is freed: the eight slots do not run out.
ReleasedSlotFreed == \A s \in Slots : s \in releaseRequested ~> s \notin inUse

\* A connection attempt is always taken up and decided.
ConnectDecided ==
  \A s \in Slots : state[s] = "CONNECTING" ~> state[s] # "CONNECTING"

\* The worker gets round to every slot: attempts are decided, and handles that
\* were given up come back.
SlotsComeBack == ReleasedSlotFreed /\ ConnectDecided

-----------------------------------------------------------------------------
(* The inductive invariant behind the proofs. *)

\* A slot's connection is its own, its socket is the connection's, and it has
\* one exactly while it is connected and the worker is not closing it.
SlotInv ==
  \A s \in Slots :
    /\ s \in inUse => connection[s] \in 1 .. started
    /\ s \in stopRequested <=> s \in releaseRequested
    /\ s \in releaseRequested => s \in inUse
    /\ socket[s] # 0 => s \in inUse /\ socket[s] = connection[s] /\ state[s] = "CONNECTED"
    /\ state[s] = "CONNECTED" => socket[s] # 0 \/ (wpc = "Closed" /\ wslot = s)

ConnsDistinct == \A s, t \in inUse : connection[s] = connection[t] => s = t

\* What the worker knows of the slot it is in at each of its places.
WorkerInv ==
  /\ wpc \notin {"Off", "Visit", "Freed"} => wslot \in inUse
  /\ wpc = "Free" => wslot \in releaseRequested /\ state[wslot] # "CONNECTED"
  /\ wpc \in {"Connect", "Connecting"} => state[wslot] = "CONNECTING"
  /\ wpc = "CloseAbandoned" => state[wslot] = "CONNECTING" /\ wsock = connection[wslot]
  /\ wpc \in {"Pump", "Tx", "Drop", "Rx", "Push", "Close", "Closed"} =>
       state[wslot] = "CONNECTED"
  /\ wpc \in {"Tx", "Drop", "Rx", "Push"} => wsock = socket[wslot]
  /\ wpc = "Closed" => wsock = connection[wslot] /\ socket[wslot] = 0
  /\ wpc = "Freed" => wsock = 0

\* What the worker sent is still queued, and what it received fits.
PumpInv ==
  /\ wpc = "Drop" => wsent <= Len(tx[wslot])
  /\ wpc = "Push" => Len(rx[wslot]) + wrecv <= QueueSize /\ wrecv <= gotRx[wsock]

\* The open sockets, connection by connection.
SocketsInv ==
  \A c \in Connections : c \in sockets <=>
    \/ \E s \in Slots : socket[s] = c
    \/ wpc \in {"CloseAbandoned", "Closed"} /\ wsock = c

AsyncInv ==
  /\ NetTypeOK /\ HandlesValid /\ SlotInv /\ ConnsDistinct /\ WorkerInv /\ PumpInv
  /\ SocketsInv /\ NoRxDropped
=============================================================================
