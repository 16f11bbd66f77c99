-------------------------- MODULE AsyncNetworkProofs --------------------------
(***************************************************************************)
(* The safety properties of AsyncNetwork for every number of slots,        *)
(* connections and generations and every queue and chunk size.  AsyncInv   *)
(* is inductive: one step below for each action of NetNext, and under it one  *)
(* for each group of its conjuncts.                                        *)
(***************************************************************************)
EXTENDS AsyncNetwork, TLAPS, SequenceTheorems

USE AsyncNetworkAssumption
USE DEF netVars, slotVars, flagVars, idVars, queueVars, callVars, localVars, byteVars,
        States, WorkerPcs, AsyncInv

\* A connection number is one of those a slot can name, and is not 0.
LEMMA ConnsFact == \A c : c \in Connections <=> c \in 0 .. MaxConns /\ c # 0
  BY DEF Connections

\* The scan of bmc64_async_net_start and the worker's round stay in the slots.
LEMMA SlotsFact ==
  /\ 1 \in Slots
  /\ \A s \in Slots : s < SlotCount => s + 1 \in Slots
  /\ \A s : s \in 0 .. SlotCount <=> s = 0 \/ s \in Slots
  BY DEF Slots

\* A run of a connection's stream is a sequence of bytes of its length.
LEMMA StreamType ==
  ASSUME NEW c \in Connections, NEW k \in Nat, NEW n \in Nat
  PROVE  Stream(c, k, n) \in Seq(Bytes) /\ Len(Stream(c, k, n)) = n
  <1>1. \A i \in 1 .. n : <<c, k + i>> \in Bytes
    BY DEF Bytes
  <1>2. Stream(c, k, n) \in Seq(Bytes)
    BY <1>1 DEF Stream
  <1>3. DOMAIN Stream(c, k, n) = 1 .. n
    BY DEF Stream
  <1> QED
    BY <1>2, <1>3

\* Appending a run of a stream to a queue.
LEMMA PushType ==
  ASSUME NEW q \in Seq(Bytes), NEW c \in Connections, NEW k \in Nat, NEW n \in Nat
  PROVE  q \o Stream(c, k, n) \in Seq(Bytes)
         /\ Len(q \o Stream(c, k, n)) = Len(q) + n
  <1>1. Stream(c, k, n) \in Seq(Bytes) /\ Len(Stream(c, k, n)) = n
    BY StreamType
  <1> QED
    BY <1>1

\* The same for the last r of the g bytes received so far.
LEMMA PushPart ==
  ASSUME NEW q \in Seq(Bytes), NEW c \in Connections, NEW g \in Nat, NEW r \in Nat, g - r \in Nat
  PROVE  q \o Stream(c, g - r, r) \in Seq(Bytes)
         /\ Len(q \o Stream(c, g - r, r)) = Len(q) + r
  <1> DEFINE k == g - r
  <1>1. k \in Nat
    OBVIOUS
  <1> HIDE DEF k
  <1>2. q \o Stream(c, k, r) \in Seq(Bytes) /\ Len(q \o Stream(c, k, r)) = Len(q) + r
    BY <1>1, PushType, ZenonT(40)
  <1> QED
    BY <1>2 DEF k

\* Dropping the first k bytes of a queue leaves the rest of it.
LEMMA DropType ==
  ASSUME NEW q \in Seq(Bytes), NEW k \in Nat, k <= Len(q)
  PROVE  SubSeq(q, k + 1, Len(q)) \in Seq(Bytes)
         /\ Len(SubSeq(q, k + 1, Len(q))) = Len(q) - k
  OBVIOUS

\* The smaller of two numbers.
LEMMA LeastFact ==
  ASSUME NEW a \in Int, NEW b \in Int
  PROVE  /\ Least(a, b) \in Int /\ Least(a, b) <= a /\ Least(a, b) <= b
         /\ a >= 0 /\ b >= 0 => Least(a, b) \in Nat
         /\ a <= b => Least(a, b) = a
  BY DEF Least

\* One queue of one slot changes and keeps to its array.
LEMMA QueueType ==
  ASSUME NEW qs \in Queues, NEW s \in Slots, NEW q \in Seq(Bytes),
         \A t \in Slots : Len(qs[t]) <= QueueSize, Len(q) <= QueueSize
  PROVE  /\ [qs EXCEPT ![s] = q] \in Queues
         /\ \A t \in Slots : Len([qs EXCEPT ![s] = q][t]) <= QueueSize
  BY DEF Queues

\* The initial state satisfies the inductive invariant.
LEMMA AsyncInit == NetInit => AsyncInv
  <1> SUFFICES ASSUME NetInit PROVE AsyncInv
    OBVIOUS
  <1> USE SlotsFact DEF NetInit
  <1>2. NetTypeOK
    BY DEF NetTypeOK, SlotTypes, CallTypes, WorkerTypes, QueueTypes, Queues
  <1>3. HandlesValid /\ SlotInv /\ ConnsDistinct
    BY DEF HandlesValid, SlotInv, ConnsDistinct
  <1>4. WorkerInv /\ PumpInv /\ NoRxDropped
    BY DEF WorkerInv, PumpInv, NoRxDropped
  <1>5. SocketsInv
    BY ConnsFact DEF SocketsInv
  <1> QED
    BY <1>2, <1>3, <1>4, <1>5

\* Every step of the emulator and of the worker preserves it.
LEMMA AsyncStep == AsyncInv /\ [NetNext]_netVars => AsyncInv'
  <1> SUFFICES ASSUME AsyncInv, [NetNext]_netVars PROVE AsyncInv'
    OBVIOUS
  <1> USE ConnsFact, SlotsFact
  <1> SlotTypes /\ CallTypes /\ WorkerTypes /\ QueueTypes
    BY DEF NetTypeOK
  <1>1. CASE bmc64_async_net_initialize
    <2> USE <1>1 DEF bmc64_async_net_initialize
    <2>1. SlotTypes'
      BY DEF SlotTypes, WorkerTypes
    <2>2. CallTypes'
      BY DEF CallTypes, SlotTypes
    <2>3. WorkerTypes'
      BY DEF WorkerTypes, SlotTypes
    <2>4. QueueTypes'
      BY DEF QueueTypes, WorkerTypes
    <2>5. HandlesValid'
      BY DEF SlotTypes, CallTypes, WorkerTypes, HandlesValid, Valid
    <2>6. SlotInv'
      BY DEF SlotTypes, CallTypes, WorkerTypes, SlotInv, WorkerInv
    <2>7. ConnsDistinct'
      BY DEF SlotTypes, CallTypes, SlotInv, ConnsDistinct
    <2>8. WorkerInv'
      BY DEF SlotTypes, CallTypes, WorkerTypes, SlotInv, WorkerInv
    <2>9. SocketsInv'
      BY DEF SlotTypes, WorkerTypes, SlotInv, WorkerInv, ConnsDistinct, SocketsInv
    <2>10. PumpInv'
      BY DEF SlotTypes, WorkerTypes, QueueTypes, SlotInv, WorkerInv, PumpInv
    <2>11. NoRxDropped'
      BY DEF NoRxDropped, SlotTypes, WorkerTypes
    <2> QED
      BY <2>1, <2>2, <2>3, <2>4, <2>5, <2>6, <2>7, <2>8, <2>9, <2>10, <2>11, Zenon DEF NetTypeOK
  <1>2. CASE StartBegin
    <2> USE <1>2 DEF StartBegin
    <2>1. SlotTypes'
      BY DEF SlotTypes, WorkerTypes
    <2>2. CallTypes'
      BY DEF CallTypes, SlotTypes
    <2>3. WorkerTypes'
      BY DEF WorkerTypes, SlotTypes
    <2>4. QueueTypes'
      BY DEF QueueTypes, WorkerTypes
    <2>5. HandlesValid'
      BY DEF SlotTypes, CallTypes, WorkerTypes, HandlesValid, Valid
    <2>6. SlotInv'
      BY DEF SlotTypes, CallTypes, WorkerTypes, SlotInv, WorkerInv
    <2>7. ConnsDistinct'
      BY DEF SlotTypes, CallTypes, SlotInv, ConnsDistinct
    <2>8. WorkerInv'
      BY DEF SlotTypes, CallTypes, WorkerTypes, SlotInv, WorkerInv
    <2>9. SocketsInv'
      BY DEF SlotTypes, WorkerTypes, SlotInv, WorkerInv, ConnsDistinct, SocketsInv
    <2>10. PumpInv'
      BY DEF SlotTypes, WorkerTypes, QueueTypes, SlotInv, WorkerInv, PumpInv
    <2>11. NoRxDropped'
      BY DEF NoRxDropped, SlotTypes, WorkerTypes
    <2> QED
      BY <2>1, <2>2, <2>3, <2>4, <2>5, <2>6, <2>7, <2>8, <2>9, <2>10, <2>11, Zenon DEF NetTypeOK
  <1>3. CASE StartTake
    <2> USE <1>3 DEF StartTake, NextGeneration
    <2>0. scan \in Slots /\ scan \notin inUse /\ started + 1 \in Connections
      <3>1. scan \in Slots /\ scan # 0
        BY DEF Slots
      <3>2. started \in Nat /\ started < MaxConns
        BY <3>1 DEF CallTypes
      <3> QED
        BY <3>2 DEF Connections
    <2>1. SlotTypes'
      <3>1. (inUse \subseteq Slots /\ releaseRequested \subseteq Slots
             /\ stopRequested \subseteq Slots /\ connectStarted \subseteq Slots)'
        BY <2>0 DEF SlotTypes
      <3>2. (generation \in [Slots -> 0 .. GenLimit])'
        BY <2>0 DEF SlotTypes, CallTypes
      <3>3. (connection \in [Slots -> 0 .. MaxConns] /\ state \in [Slots -> States])'
        BY <2>0 DEF SlotTypes
      <3>4. (socket \in [Slots -> 0 .. MaxConns] /\ rxDropped \in [Slots -> Nat])'
        BY <2>0, SMTT(30) DEF SlotTypes
      <3> QED
        BY <3>1, <3>2, <3>3, <3>4 DEF SlotTypes
    <2>2. CallTypes'
      <3>1. (nextGen \in 1 .. GenLimit)'
        BY DEF CallTypes
      <3>2. [slot |-> scan, generation |-> nextGen, conn |-> started + 1]
              \in [slot : Slots, generation : 1 .. GenLimit, conn : Connections]
        BY <2>0 DEF CallTypes
      <3>3. started' \in 0 .. MaxConns
        BY <2>0, ConnsFact
      <3> QED
        BY <3>1, <3>2, <3>3 DEF CallTypes
    <2>3. WorkerTypes'
      BY DEF WorkerTypes, SlotTypes
    <2>4. QueueTypes'
      <3>1. << >> \in Seq(Bytes) /\ Len(<< >>) <= QueueSize
        OBVIOUS
      <3>2. (rx \in Queues /\ \A s \in Slots : Len(rx[s]) <= QueueSize)'
        BY <2>0, <3>1, QueueType DEF QueueTypes
      <3>3. (tx \in Queues /\ \A s \in Slots : Len(tx[s]) <= QueueSize)'
        BY <2>0, <3>1, QueueType DEF QueueTypes
      <3> QED
        BY <3>2, <3>3 DEF QueueTypes
    <2>5. HandlesValid'
      <3> DEFINE new == [slot |-> scan, generation |-> nextGen, conn |-> started + 1]
      <3>1. \A h \in handles : h.slot \in Slots /\ h.slot # scan
        BY <2>0 DEF HandlesValid, Valid, CallTypes
      <3>2. new.slot = scan /\ new.generation = nextGen /\ new.conn = started + 1
        OBVIOUS
      <3>3. handles' = handles \cup {new}
        OBVIOUS
      <3> HIDE DEF new
      <3>4. ASSUME NEW h \in handles'
            PROVE  (Valid(h) /\ connection[h.slot] = h.conn /\ h.slot \notin releaseRequested)'
        <4>1. CASE h \in handles
          BY <4>1, <3>1 DEF HandlesValid, Valid, SlotTypes
        <4>2. CASE h = new
          BY <4>2, <3>2, <2>0 DEF Valid, SlotTypes
        <4> QED
          BY <3>3, <4>1, <4>2
      <3>5. ASSUME NEW s \in inUse' \ releaseRequested'
            PROVE  \E h \in handles' : h.slot = s
        <4>1. CASE s = scan
          BY <4>1, <3>2, <3>3
        <4>2. CASE s # scan
          BY <4>2, <3>3 DEF HandlesValid
        <4> QED
          BY <4>1, <4>2
      <3> QED
        BY <3>4, <3>5 DEF HandlesValid
    <2>6. SlotInv'
      <3> SUFFICES ASSUME NEW s \in Slots
                   PROVE  (/\ s \in inUse => connection[s] \in 1 .. started
                           /\ s \in stopRequested <=> s \in releaseRequested
                           /\ s \in releaseRequested => s \in inUse
                           /\ socket[s] # 0 => s \in inUse /\ socket[s] = connection[s] /\ state[s] = "CONNECTED"
                           /\ state[s] = "CONNECTED" => socket[s] # 0 \/ (wpc = "Closed" /\ wslot = s))'
        BY DEF SlotInv
      <3>1. CASE s = scan
        BY <3>1, <2>0 DEF SlotTypes, CallTypes, SlotInv
      <3>2. CASE s # scan
        <4>1. /\ connection'[s] = connection[s] /\ socket'[s] = socket[s] /\ state'[s] = state[s]
              /\ s \in inUse' <=> s \in inUse
              /\ s \in stopRequested' <=> s \in stopRequested
              /\ s \in releaseRequested' <=> s \in releaseRequested
          BY <3>2, <2>0 DEF SlotTypes
        <4>2. started \in Nat /\ started' = started + 1 /\ wpc' = wpc /\ wslot' = wslot
          BY DEF CallTypes
        <4>3. s \in inUse => connection[s] \in 1 .. started
          BY DEF SlotInv
        <4>4. (s \in inUse => connection[s] \in 1 .. started)'
          BY <4>1, <4>2, <4>3
        <4> QED
          BY <4>1, <4>2, <4>4 DEF SlotInv
      <3> QED
        BY <3>1, <3>2
    <2>7. ConnsDistinct'
      <3>1. \A s \in inUse : connection[s] # started + 1
        BY DEF SlotTypes, CallTypes, SlotInv
      <3>2. \A s \in inUse : s # scan /\ connection'[s] = connection[s]
        BY <2>0 DEF SlotTypes
      <3>3. connection'[scan] = started + 1
        BY <2>0 DEF SlotTypes
      <3> QED
        BY <3>1, <3>2, <3>3 DEF ConnsDistinct
    <2>8. WorkerInv'
      <3>1. wpc' = wpc /\ wslot' = wslot /\ wsock' = wsock
        OBVIOUS
      <3>2. CASE wpc \in {"Off", "Visit", "Freed"}
        BY <3>1, <3>2 DEF WorkerInv
      <3>3. CASE wpc \notin {"Off", "Visit", "Freed"}
        <4>1. wslot \in inUse /\ wslot \in Slots /\ wslot # scan
          BY <3>3, <2>0 DEF WorkerInv, SlotTypes
        <4>2. /\ wslot \in inUse' /\ state'[wslot] = state[wslot]
              /\ connection'[wslot] = connection[wslot] /\ socket'[wslot] = socket[wslot]
              /\ wslot \in releaseRequested' <=> wslot \in releaseRequested
          BY <4>1, <2>0 DEF SlotTypes
        <4> QED
          BY <3>1, <4>2 DEF WorkerInv
      <3> QED
        BY <3>2, <3>3
    <2>9. SocketsInv'
      <3>1. socket[scan] = 0
        BY <2>0 DEF SlotInv
      <3>2. socket' = socket
        BY <3>1, <2>0 DEF SlotTypes
      <3> QED
        BY <3>2 DEF SocketsInv
    <2>10. PumpInv'
      <3>1. wpc \in {"Drop", "Push"} => wslot # scan
        BY <2>0 DEF WorkerInv
      <3> QED
        BY <3>1 DEF PumpInv, QueueTypes, Queues, WorkerTypes
    <2>11. NoRxDropped'
      BY DEF NoRxDropped, SlotTypes, WorkerTypes
    <2> QED
      BY <2>1, <2>2, <2>3, <2>4, <2>5, <2>6, <2>7, <2>8, <2>9, <2>10, <2>11, Zenon DEF NetTypeOK
  <1>4. CASE StartNoMemory
    <2> USE <1>4 DEF StartNoMemory
    <2>1. SlotTypes'
      BY DEF SlotTypes, WorkerTypes
    <2>2. CallTypes'
      BY DEF CallTypes, SlotTypes
    <2>3. WorkerTypes'
      BY DEF WorkerTypes, SlotTypes
    <2>4. QueueTypes'
      BY DEF QueueTypes, WorkerTypes
    <2>5. HandlesValid'
      BY DEF SlotTypes, CallTypes, WorkerTypes, HandlesValid, Valid
    <2>6. SlotInv'
      BY DEF SlotTypes, CallTypes, WorkerTypes, SlotInv, WorkerInv
    <2>7. ConnsDistinct'
      BY DEF SlotTypes, CallTypes, SlotInv, ConnsDistinct
    <2>8. WorkerInv'
      BY DEF SlotTypes, CallTypes, WorkerTypes, SlotInv, WorkerInv
    <2>9. SocketsInv'
      BY DEF SlotTypes, WorkerTypes, SlotInv, WorkerInv, ConnsDistinct, SocketsInv
    <2>10. PumpInv'
      BY DEF SlotTypes, WorkerTypes, QueueTypes, SlotInv, WorkerInv, PumpInv
    <2>11. NoRxDropped'
      BY DEF NoRxDropped, SlotTypes, WorkerTypes
    <2> QED
      BY <2>1, <2>2, <2>3, <2>4, <2>5, <2>6, <2>7, <2>8, <2>9, <2>10, <2>11, Zenon DEF NetTypeOK
  <1>5. CASE StartSkip
    <2> USE <1>5 DEF StartSkip
    <2>1. SlotTypes'
      BY DEF SlotTypes, WorkerTypes
    <2>2. CallTypes'
      <3>1. scan \in Slots /\ scan # 0
        BY DEF SlotTypes, Slots
      <3> QED
        BY <3>1 DEF CallTypes, SlotTypes
    <2>3. WorkerTypes'
      BY DEF WorkerTypes, SlotTypes
    <2>4. QueueTypes'
      BY DEF QueueTypes, WorkerTypes
    <2>5. HandlesValid'
      BY DEF SlotTypes, CallTypes, WorkerTypes, HandlesValid, Valid
    <2>6. SlotInv'
      BY DEF SlotTypes, CallTypes, WorkerTypes, SlotInv, WorkerInv
    <2>7. ConnsDistinct'
      BY DEF SlotTypes, CallTypes, SlotInv, ConnsDistinct
    <2>8. WorkerInv'
      BY DEF SlotTypes, CallTypes, WorkerTypes, SlotInv, WorkerInv
    <2>9. SocketsInv'
      BY DEF SlotTypes, WorkerTypes, SlotInv, WorkerInv, ConnsDistinct, SocketsInv
    <2>10. PumpInv'
      BY DEF SlotTypes, WorkerTypes, QueueTypes, SlotInv, WorkerInv, PumpInv
    <2>11. NoRxDropped'
      BY DEF NoRxDropped, SlotTypes, WorkerTypes
    <2> QED
      BY <2>1, <2>2, <2>3, <2>4, <2>5, <2>6, <2>7, <2>8, <2>9, <2>10, <2>11, Zenon DEF NetTypeOK
  <1>6. ASSUME NEW h \in handles, bmc64_async_net_stop(h) PROVE AsyncInv'
    <2> USE <1>6 DEF bmc64_async_net_stop, Valid
    <2>1. SlotTypes'
      BY DEF SlotTypes, WorkerTypes
    <2>2. CallTypes'
      BY DEF CallTypes, SlotTypes
    <2>3. WorkerTypes'
      BY DEF WorkerTypes, SlotTypes
    <2>4. QueueTypes'
      BY DEF QueueTypes, WorkerTypes
    <2>5. HandlesValid'
      BY DEF SlotTypes, CallTypes, WorkerTypes, HandlesValid, Valid
    <2>6. SlotInv'
      BY DEF SlotTypes, CallTypes, WorkerTypes, SlotInv, WorkerInv
    <2>7. ConnsDistinct'
      BY DEF SlotTypes, CallTypes, SlotInv, ConnsDistinct
    <2>8. WorkerInv'
      BY DEF SlotTypes, CallTypes, WorkerTypes, SlotInv, WorkerInv
    <2>9. SocketsInv'
      BY DEF SlotTypes, WorkerTypes, SlotInv, WorkerInv, ConnsDistinct, SocketsInv
    <2>10. PumpInv'
      BY DEF SlotTypes, WorkerTypes, QueueTypes, SlotInv, WorkerInv, PumpInv
    <2>11. NoRxDropped'
      BY DEF NoRxDropped, SlotTypes, WorkerTypes
    <2> QED
      BY <2>1, <2>2, <2>3, <2>4, <2>5, <2>6, <2>7, <2>8, <2>9, <2>10, <2>11, Zenon DEF NetTypeOK
  <1>7. ASSUME NEW h \in handles, NEW n \in 1 .. MaxBytes, bmc64_async_net_send(h, n) PROVE AsyncInv'
    <2>0. h.slot \in Slots /\ h.conn \in Connections /\ tx[h.slot] \in Seq(Bytes)
      BY DEF CallTypes, QueueTypes, Queues
    <2>r. QueueSize - Len(tx[h.slot]) \in Nat /\ n \in Nat
      BY <2>0 DEF QueueTypes
    <2> DEFINE k == Least(n, QueueSize - Len(tx[h.slot]))
               q == tx[h.slot] \o Stream(h.conn, pushedTx[h.conn], k)
    <2>u. UNCHANGED <<flagVars, idVars, state, socket, rx, rxDropped, callVars, sockets,
                      wslot, wpc, localVars, sentTx, gotRx, readRx>>
      BY <1>7 DEF bmc64_async_net_send
    <2>q. tx' = [tx EXCEPT ![h.slot] = q]
          /\ pushedTx' = [pushedTx EXCEPT ![h.conn] = pushedTx[h.conn] + k]
      BY <1>7 DEF bmc64_async_net_send
    <2>k. k \in Nat /\ Len(tx[h.slot]) + k <= QueueSize
      <3> DEFINE room == QueueSize - Len(tx[h.slot])
      <3>1. room \in Int /\ n \in Int /\ room >= 0 /\ n >= 0
        BY <2>r
      <3> HIDE DEF room
      <3>2. Least(n, room) \in Nat /\ Least(n, room) <= room
        BY <3>1, LeastFact
      <3> QED
        BY <2>0, <3>2 DEF room
    <2> HIDE DEF k
    <2>l. q \in Seq(Bytes) /\ Len(q) = Len(tx[h.slot]) + k
      BY <2>0, <2>k, PushType DEF QueueTypes
    <2> HIDE DEF q
    <2>m. Len(q) <= QueueSize
      BY <2>k, <2>l
    <2>t. (tx \in Queues /\ \A s \in Slots : Len(tx[s]) <= QueueSize)'
      BY <2>0, <2>m, <2>q, <2>l, QueueType DEF QueueTypes
    <2>n. \A s \in Slots : Len(tx[s]) <= Len(tx'[s])
      BY <2>0, <2>k, <2>q, <2>l DEF QueueTypes, Queues
    <2>1. SlotTypes'
      BY <2>u DEF SlotTypes, WorkerTypes
    <2>2. CallTypes'
      BY <2>u DEF CallTypes, SlotTypes
    <2>3. WorkerTypes'
      BY <2>u DEF WorkerTypes, SlotTypes
    <2>4. QueueTypes'
      <3>1. (pushedTx \in [Connections -> Nat])'
        BY <2>0, <2>k, <2>q, SMTT(30) DEF QueueTypes
      <3> QED
        BY <2>t, <2>u, <3>1 DEF QueueTypes
    <2>5. HandlesValid'
      BY <2>u DEF SlotTypes, CallTypes, WorkerTypes, HandlesValid, Valid
    <2>6. SlotInv'
      BY <2>u DEF SlotTypes, CallTypes, WorkerTypes, SlotInv, WorkerInv
    <2>7. ConnsDistinct'
      BY <2>u DEF SlotTypes, CallTypes, SlotInv, ConnsDistinct
    <2>8. WorkerInv'
      BY <2>u DEF SlotTypes, CallTypes, WorkerTypes, SlotInv, WorkerInv
    <2>9. SocketsInv'
      BY <2>u DEF SlotTypes, WorkerTypes, SlotInv, WorkerInv, ConnsDistinct, SocketsInv
    <2>10. PumpInv'
      <3>1. wslot \in Slots /\ tx[wslot] \in Seq(Bytes) /\ tx'[wslot] \in Seq(Bytes)
        BY <2>t DEF WorkerTypes, QueueTypes, Queues
      <3>2. Len(tx[wslot]) <= Len(tx'[wslot]) /\ wsent \in Nat
        BY <2>n, <3>1 DEF WorkerTypes
      <3> QED
        BY <2>u, <3>1, <3>2 DEF PumpInv
    <2>11. NoRxDropped'
      BY <2>u DEF NoRxDropped, SlotTypes, WorkerTypes
    <2> QED
      BY <2>1, <2>2, <2>3, <2>4, <2>5, <2>6, <2>7, <2>8, <2>9, <2>10, <2>11, Zenon DEF NetTypeOK
  <1>8. ASSUME NEW h \in handles, NEW n \in 1 .. MaxBytes, bmc64_async_net_receive(h, n) PROVE AsyncInv'
    <2>0. h.slot \in Slots /\ h.conn \in Connections /\ rx[h.slot] \in Seq(Bytes)
      BY DEF CallTypes, QueueTypes, Queues
    <2>r. Len(rx[h.slot]) \in Nat /\ n \in Nat
      BY <2>0
    <2> DEFINE k == Least(n, Len(rx[h.slot]))
               q == SubSeq(rx[h.slot], k + 1, Len(rx[h.slot]))
    <2>u. UNCHANGED <<flagVars, idVars, state, socket, tx, rxDropped, callVars, sockets,
                      wslot, wpc, localVars, pushedTx, sentTx, gotRx>>
      BY <1>8 DEF bmc64_async_net_receive
    <2>q. rx' = [rx EXCEPT ![h.slot] = q]
          /\ readRx' = [readRx EXCEPT ![h.conn] = readRx[h.conn] + k]
      BY <1>8 DEF bmc64_async_net_receive
    <2>k. k \in Nat /\ k <= Len(rx[h.slot])
      <3> DEFINE all == Len(rx[h.slot])
      <3>1. all \in Int /\ n \in Int /\ all >= 0 /\ n >= 0
        BY <2>r
      <3> HIDE DEF all
      <3>2. Least(n, all) \in Nat /\ Least(n, all) <= all
        BY <3>1, LeastFact
      <3> QED
        BY <3>2 DEF all
    <2> HIDE DEF k
    <2>l. q \in Seq(Bytes) /\ Len(q) = Len(rx[h.slot]) - k
      BY <2>0, <2>k, DropType
    <2> HIDE DEF q
    <2>m. Len(q) <= QueueSize
      BY <2>0, <2>k, <2>l DEF QueueTypes
    <2>t. (rx \in Queues /\ \A s \in Slots : Len(rx[s]) <= QueueSize)'
      BY <2>0, <2>m, <2>q, <2>l, QueueType DEF QueueTypes
    <2>n. \A s \in Slots : Len(rx'[s]) <= Len(rx[s])
      BY <2>0, <2>k, <2>q, <2>l DEF QueueTypes, Queues
    <2>1. SlotTypes'
      BY <2>u DEF SlotTypes, WorkerTypes
    <2>2. CallTypes'
      BY <2>u DEF CallTypes, SlotTypes
    <2>3. WorkerTypes'
      BY <2>u DEF WorkerTypes, SlotTypes
    <2>4. QueueTypes'
      <3>1. (readRx \in [Connections -> Nat])'
        BY <2>0, <2>k, <2>q DEF QueueTypes
      <3> QED
        BY <2>t, <2>u, <3>1 DEF QueueTypes
    <2>5. HandlesValid'
      BY <2>u DEF SlotTypes, CallTypes, WorkerTypes, HandlesValid, Valid
    <2>6. SlotInv'
      BY <2>u DEF SlotTypes, CallTypes, WorkerTypes, SlotInv, WorkerInv
    <2>7. ConnsDistinct'
      BY <2>u DEF SlotTypes, CallTypes, SlotInv, ConnsDistinct
    <2>8. WorkerInv'
      BY <2>u DEF SlotTypes, CallTypes, WorkerTypes, SlotInv, WorkerInv
    <2>9. SocketsInv'
      BY <2>u DEF SlotTypes, WorkerTypes, SlotInv, WorkerInv, ConnsDistinct, SocketsInv
    <2>10. PumpInv'
      <3>1. wslot \in Slots /\ rx[wslot] \in Seq(Bytes) /\ rx'[wslot] \in Seq(Bytes)
        BY <2>t DEF WorkerTypes, QueueTypes, Queues
      <3>2. Len(rx'[wslot]) <= Len(rx[wslot]) /\ wrecv \in Nat
        BY <2>n, <3>1 DEF WorkerTypes
      <3> QED
        BY <2>u, <3>1, <3>2 DEF PumpInv
    <2>11. NoRxDropped'
      BY <2>u DEF NoRxDropped, SlotTypes, WorkerTypes
    <2> QED
      BY <2>1, <2>2, <2>3, <2>4, <2>5, <2>6, <2>7, <2>8, <2>9, <2>10, <2>11, Zenon DEF NetTypeOK
  <1>9. CASE ProcessSlot
    <2> USE <1>9 DEF ProcessSlot, Visited, Advance, Goto
    <2>1. SlotTypes'
      BY DEF SlotTypes, WorkerTypes
    <2>2. CallTypes'
      BY DEF CallTypes, SlotTypes
    <2>3. WorkerTypes'
      BY DEF WorkerTypes, SlotTypes
    <2>4. QueueTypes'
      BY DEF QueueTypes, WorkerTypes
    <2>5. HandlesValid'
      BY DEF SlotTypes, CallTypes, WorkerTypes, HandlesValid, Valid
    <2>6. SlotInv'
      BY DEF SlotTypes, CallTypes, WorkerTypes, SlotInv, WorkerInv
    <2>7. ConnsDistinct'
      BY DEF SlotTypes, CallTypes, SlotInv, ConnsDistinct
    <2>8. WorkerInv'
      BY DEF SlotTypes, CallTypes, WorkerTypes, SlotInv, WorkerInv
    <2>9. SocketsInv'
      BY DEF SlotTypes, WorkerTypes, SlotInv, WorkerInv, ConnsDistinct, SocketsInv
    <2>10. PumpInv'
      BY DEF SlotTypes, WorkerTypes, QueueTypes, SlotInv, WorkerInv, PumpInv
    <2>11. NoRxDropped'
      BY DEF NoRxDropped, SlotTypes, WorkerTypes
    <2> QED
      BY <2>1, <2>2, <2>3, <2>4, <2>5, <2>6, <2>7, <2>8, <2>9, <2>10, <2>11, Zenon DEF NetTypeOK
  <1>10. CASE FreeSlot
    <2> USE <1>10 DEF FreeSlot, Goto
    <2>1. SlotTypes'
      BY SMTT(30) DEF SlotTypes, WorkerTypes
    <2>2. CallTypes'
      BY DEF CallTypes, SlotTypes
    <2>3. WorkerTypes'
      BY DEF WorkerTypes, SlotTypes
    <2>4. QueueTypes'
      <3>1. << >> \in Seq(Bytes) /\ Len(<< >>) <= QueueSize
        OBVIOUS
      <3>2. (rx \in Queues /\ \A s \in Slots : Len(rx[s]) <= QueueSize)'
        BY <3>1, QueueType DEF QueueTypes, WorkerTypes
      <3>3. (tx \in Queues /\ \A s \in Slots : Len(tx[s]) <= QueueSize)'
        BY <3>1, QueueType DEF QueueTypes, WorkerTypes
      <3> QED
        BY <3>2, <3>3 DEF QueueTypes
    <2>5. HandlesValid'
      <3>1. wslot \in releaseRequested
        BY DEF WorkerInv
      <3> QED
        BY <3>1 DEF HandlesValid, Valid
    <2>6. SlotInv'
      BY DEF SlotTypes, CallTypes, WorkerTypes, SlotInv, WorkerInv
    <2>7. ConnsDistinct'
      BY DEF SlotTypes, CallTypes, SlotInv, ConnsDistinct
    <2>8. WorkerInv'
      BY DEF SlotTypes, CallTypes, WorkerTypes, SlotInv, WorkerInv
    <2>9. SocketsInv'
      BY DEF SlotTypes, WorkerTypes, SlotInv, WorkerInv, ConnsDistinct, SocketsInv
    <2>10. PumpInv'
      BY DEF SlotTypes, WorkerTypes, QueueTypes, SlotInv, WorkerInv, PumpInv
    <2>11. NoRxDropped'
      BY DEF NoRxDropped, SlotTypes, WorkerTypes
    <2> QED
      BY <2>1, <2>2, <2>3, <2>4, <2>5, <2>6, <2>7, <2>8, <2>9, <2>10, <2>11, Zenon DEF NetTypeOK
  <1>11. CASE FreeSlotClose
    <2> USE <1>11 DEF FreeSlotClose, Advance
    <2>1. SlotTypes'
      BY DEF SlotTypes, WorkerTypes
    <2>2. CallTypes'
      BY DEF CallTypes, SlotTypes
    <2>3. WorkerTypes'
      BY DEF WorkerTypes, SlotTypes
    <2>4. QueueTypes'
      BY DEF QueueTypes, WorkerTypes
    <2>5. HandlesValid'
      BY DEF SlotTypes, CallTypes, WorkerTypes, HandlesValid, Valid
    <2>6. SlotInv'
      BY DEF SlotTypes, CallTypes, WorkerTypes, SlotInv, WorkerInv
    <2>7. ConnsDistinct'
      BY DEF SlotTypes, CallTypes, SlotInv, ConnsDistinct
    <2>8. WorkerInv'
      BY DEF SlotTypes, CallTypes, WorkerTypes, SlotInv, WorkerInv
    <2>9. SocketsInv'
      BY DEF SlotTypes, WorkerTypes, SlotInv, WorkerInv, ConnsDistinct, SocketsInv
    <2>10. PumpInv'
      BY DEF SlotTypes, WorkerTypes, QueueTypes, SlotInv, WorkerInv, PumpInv
    <2>11. NoRxDropped'
      BY DEF NoRxDropped, SlotTypes, WorkerTypes
    <2> QED
      BY <2>1, <2>2, <2>3, <2>4, <2>5, <2>6, <2>7, <2>8, <2>9, <2>10, <2>11, Zenon DEF NetTypeOK
  <1>12. CASE ConnectBegin
    <2> USE <1>12 DEF ConnectBegin, Goto
    <2>1. SlotTypes'
      BY DEF SlotTypes, WorkerTypes
    <2>2. CallTypes'
      BY DEF CallTypes, SlotTypes
    <2>3. WorkerTypes'
      BY DEF WorkerTypes, SlotTypes
    <2>4. QueueTypes'
      BY DEF QueueTypes, WorkerTypes
    <2>5. HandlesValid'
      BY DEF SlotTypes, CallTypes, WorkerTypes, HandlesValid, Valid
    <2>6. SlotInv'
      BY DEF SlotTypes, CallTypes, WorkerTypes, SlotInv, WorkerInv
    <2>7. ConnsDistinct'
      BY DEF SlotTypes, CallTypes, SlotInv, ConnsDistinct
    <2>8. WorkerInv'
      BY DEF SlotTypes, CallTypes, WorkerTypes, SlotInv, WorkerInv
    <2>9. SocketsInv'
      BY DEF SlotTypes, WorkerTypes, SlotInv, WorkerInv, ConnsDistinct, SocketsInv
    <2>10. PumpInv'
      BY DEF SlotTypes, WorkerTypes, QueueTypes, SlotInv, WorkerInv, PumpInv
    <2>11. NoRxDropped'
      BY DEF NoRxDropped, SlotTypes, WorkerTypes
    <2> QED
      BY <2>1, <2>2, <2>3, <2>4, <2>5, <2>6, <2>7, <2>8, <2>9, <2>10, <2>11, Zenon DEF NetTypeOK
  <1>13. CASE ConnectFailed
    <2> USE <1>13 DEF ConnectFailed, Advance
    <2>1. SlotTypes'
      BY DEF SlotTypes, WorkerTypes
    <2>2. CallTypes'
      BY DEF CallTypes, SlotTypes
    <2>3. WorkerTypes'
      BY DEF WorkerTypes, SlotTypes
    <2>4. QueueTypes'
      BY DEF QueueTypes, WorkerTypes
    <2>5. HandlesValid'
      BY DEF SlotTypes, CallTypes, WorkerTypes, HandlesValid, Valid
    <2>6. SlotInv'
      BY DEF SlotTypes, CallTypes, WorkerTypes, SlotInv, WorkerInv
    <2>7. ConnsDistinct'
      BY DEF SlotTypes, CallTypes, SlotInv, ConnsDistinct
    <2>8. WorkerInv'
      BY DEF SlotTypes, CallTypes, WorkerTypes, SlotInv, WorkerInv
    <2>9. SocketsInv'
      BY DEF SlotTypes, WorkerTypes, SlotInv, WorkerInv, ConnsDistinct, SocketsInv
    <2>10. PumpInv'
      BY DEF SlotTypes, WorkerTypes, QueueTypes, SlotInv, WorkerInv, PumpInv
    <2>11. NoRxDropped'
      BY DEF NoRxDropped, SlotTypes, WorkerTypes
    <2> QED
      BY <2>1, <2>2, <2>3, <2>4, <2>5, <2>6, <2>7, <2>8, <2>9, <2>10, <2>11, Zenon DEF NetTypeOK
  <1>14. CASE ConnectDone
    <2> USE <1>14 DEF ConnectDone, Advance
    <2>1. SlotTypes'
      BY DEF SlotTypes, WorkerTypes
    <2>2. CallTypes'
      BY DEF CallTypes, SlotTypes
    <2>3. WorkerTypes'
      <3>1. connection[wslot] \in Connections
        BY DEF WorkerTypes, SlotTypes, CallTypes, SlotInv, WorkerInv
      <3> QED
        BY <3>1 DEF WorkerTypes
    <2>4. QueueTypes'
      BY DEF QueueTypes, WorkerTypes
    <2>5. HandlesValid'
      BY DEF SlotTypes, CallTypes, WorkerTypes, HandlesValid, Valid
    <2>6. SlotInv'
      BY DEF SlotTypes, CallTypes, WorkerTypes, SlotInv, WorkerInv
    <2>7. ConnsDistinct'
      BY DEF SlotTypes, CallTypes, SlotInv, ConnsDistinct
    <2>8. WorkerInv'
      BY DEF SlotTypes, CallTypes, WorkerTypes, SlotInv, WorkerInv
    <2>9. SocketsInv'
      BY DEF SlotTypes, WorkerTypes, SlotInv, WorkerInv, ConnsDistinct, SocketsInv
    <2>10. PumpInv'
      BY DEF SlotTypes, WorkerTypes, QueueTypes, SlotInv, WorkerInv, PumpInv
    <2>11. NoRxDropped'
      BY DEF NoRxDropped, SlotTypes, WorkerTypes
    <2> QED
      BY <2>1, <2>2, <2>3, <2>4, <2>5, <2>6, <2>7, <2>8, <2>9, <2>10, <2>11, Zenon DEF NetTypeOK
  <1>15. CASE ConnectAbandoned
    <2> USE <1>15 DEF ConnectAbandoned, Goto
    <2>1. SlotTypes'
      BY DEF SlotTypes, WorkerTypes
    <2>2. CallTypes'
      BY DEF CallTypes, SlotTypes
    <2>3. WorkerTypes'
      <3>1. connection[wslot] \in Connections
        BY DEF WorkerTypes, SlotTypes, CallTypes, SlotInv, WorkerInv
      <3> QED
        BY <3>1, ConnsFact DEF WorkerTypes
    <2>4. QueueTypes'
      BY DEF QueueTypes, WorkerTypes
    <2>5. HandlesValid'
      BY DEF SlotTypes, CallTypes, WorkerTypes, HandlesValid, Valid
    <2>6. SlotInv'
      BY DEF SlotTypes, CallTypes, WorkerTypes, SlotInv, WorkerInv
    <2>7. ConnsDistinct'
      BY DEF SlotTypes, CallTypes, SlotInv, ConnsDistinct
    <2>8. WorkerInv'
      BY DEF SlotTypes, CallTypes, WorkerTypes, SlotInv, WorkerInv
    <2>9. SocketsInv'
      BY DEF SlotTypes, WorkerTypes, SlotInv, WorkerInv, ConnsDistinct, SocketsInv
    <2>10. PumpInv'
      BY DEF SlotTypes, WorkerTypes, QueueTypes, SlotInv, WorkerInv, PumpInv
    <2>11. NoRxDropped'
      BY DEF NoRxDropped, SlotTypes, WorkerTypes
    <2> QED
      BY <2>1, <2>2, <2>3, <2>4, <2>5, <2>6, <2>7, <2>8, <2>9, <2>10, <2>11, Zenon DEF NetTypeOK
  <1>16. CASE CloseAbandoned
    <2> USE <1>16 DEF CloseAbandoned, Advance
    <2>1. SlotTypes'
      BY DEF SlotTypes, WorkerTypes
    <2>2. CallTypes'
      BY DEF CallTypes, SlotTypes
    <2>3. WorkerTypes'
      BY DEF WorkerTypes, SlotTypes
    <2>4. QueueTypes'
      BY DEF QueueTypes, WorkerTypes
    <2>5. HandlesValid'
      BY DEF SlotTypes, CallTypes, WorkerTypes, HandlesValid, Valid
    <2>6. SlotInv'
      BY DEF SlotTypes, CallTypes, WorkerTypes, SlotInv, WorkerInv
    <2>7. ConnsDistinct'
      BY DEF SlotTypes, CallTypes, SlotInv, ConnsDistinct
    <2>8. WorkerInv'
      BY DEF SlotTypes, CallTypes, WorkerTypes, SlotInv, WorkerInv
    <2>9. SocketsInv'
      BY DEF SlotTypes, WorkerTypes, SlotInv, WorkerInv, ConnsDistinct, SocketsInv
    <2>10. PumpInv'
      BY DEF SlotTypes, WorkerTypes, QueueTypes, SlotInv, WorkerInv, PumpInv
    <2>11. NoRxDropped'
      BY DEF NoRxDropped, SlotTypes, WorkerTypes
    <2> QED
      BY <2>1, <2>2, <2>3, <2>4, <2>5, <2>6, <2>7, <2>8, <2>9, <2>10, <2>11, Zenon DEF NetTypeOK
  <1>17. CASE PumpStopped
    <2> USE <1>17 DEF PumpStopped, ThenClose, Goto
    <2>1. SlotTypes'
      BY DEF SlotTypes, WorkerTypes
    <2>2. CallTypes'
      BY DEF CallTypes, SlotTypes
    <2>3. WorkerTypes'
      BY DEF WorkerTypes, SlotTypes
    <2>4. QueueTypes'
      BY DEF QueueTypes, WorkerTypes
    <2>5. HandlesValid'
      BY DEF SlotTypes, CallTypes, WorkerTypes, HandlesValid, Valid
    <2>6. SlotInv'
      BY DEF SlotTypes, CallTypes, WorkerTypes, SlotInv, WorkerInv
    <2>7. ConnsDistinct'
      BY DEF SlotTypes, CallTypes, SlotInv, ConnsDistinct
    <2>8. WorkerInv'
      BY DEF SlotTypes, CallTypes, WorkerTypes, SlotInv, WorkerInv
    <2>9. SocketsInv'
      BY DEF SlotTypes, WorkerTypes, SlotInv, WorkerInv, ConnsDistinct, SocketsInv
    <2>10. PumpInv'
      BY DEF SlotTypes, WorkerTypes, QueueTypes, SlotInv, WorkerInv, PumpInv
    <2>11. NoRxDropped'
      BY DEF NoRxDropped, SlotTypes, WorkerTypes
    <2> QED
      BY <2>1, <2>2, <2>3, <2>4, <2>5, <2>6, <2>7, <2>8, <2>9, <2>10, <2>11, Zenon DEF NetTypeOK
  <1>18. CASE PumpConnected
    <2> USE <1>18 DEF PumpConnected, Advance, Goto
    <2>1. SlotTypes'
      BY DEF SlotTypes, WorkerTypes
    <2>2. CallTypes'
      BY DEF CallTypes, SlotTypes
    <2>3. WorkerTypes'
      BY DEF WorkerTypes, SlotTypes
    <2>4. QueueTypes'
      BY DEF QueueTypes, WorkerTypes
    <2>5. HandlesValid'
      BY DEF SlotTypes, CallTypes, WorkerTypes, HandlesValid, Valid
    <2>6. SlotInv'
      BY DEF SlotTypes, CallTypes, WorkerTypes, SlotInv, WorkerInv
    <2>7. ConnsDistinct'
      BY DEF SlotTypes, CallTypes, SlotInv, ConnsDistinct
    <2>8. WorkerInv'
      BY DEF SlotTypes, CallTypes, WorkerTypes, SlotInv, WorkerInv
    <2>9. SocketsInv'
      BY DEF SlotTypes, WorkerTypes, SlotInv, WorkerInv, ConnsDistinct, SocketsInv
    <2>10. PumpInv'
      BY DEF SlotTypes, WorkerTypes, QueueTypes, SlotInv, WorkerInv, PumpInv
    <2>11. NoRxDropped'
      BY DEF NoRxDropped, SlotTypes, WorkerTypes
    <2> QED
      BY <2>1, <2>2, <2>3, <2>4, <2>5, <2>6, <2>7, <2>8, <2>9, <2>10, <2>11, Zenon DEF NetTypeOK
  <1>19. CASE PumpTx
    <2> USE <1>19 DEF PumpTx, Goto, Least
    <2>0. wsock \in Connections /\ tx[wslot] \in Seq(Bytes) /\ wslot \in Slots
      BY DEF WorkerTypes, QueueTypes, Queues, WorkerInv, SlotInv
    <2>k. PICK k \in 1 .. Least(Len(tx[wslot]), TxChunk) :
            wsent' = k /\ sentTx' = [sentTx EXCEPT ![wsock] = @ + k]
      BY Zenon
    <2>m. k \in Nat /\ k <= Len(tx[wslot]) /\ k <= TxChunk
      BY <2>0, <2>k
    <2>1. SlotTypes'
      BY DEF SlotTypes, WorkerTypes
    <2>2. CallTypes'
      BY DEF CallTypes, SlotTypes
    <2>3. WorkerTypes'
      BY <2>k, <2>m DEF WorkerTypes
    <2>4. QueueTypes'
      BY <2>0, <2>k, <2>m DEF QueueTypes
    <2>5. HandlesValid'
      BY DEF SlotTypes, CallTypes, WorkerTypes, HandlesValid, Valid
    <2>6. SlotInv'
      BY DEF SlotTypes, CallTypes, WorkerTypes, SlotInv, WorkerInv
    <2>7. ConnsDistinct'
      BY DEF SlotTypes, CallTypes, SlotInv, ConnsDistinct
    <2>8. WorkerInv'
      BY DEF SlotTypes, CallTypes, WorkerTypes, SlotInv, WorkerInv
    <2>9. SocketsInv'
      BY DEF SlotTypes, WorkerTypes, SlotInv, WorkerInv, ConnsDistinct, SocketsInv
    <2>10. PumpInv'
      BY <2>k, <2>m DEF PumpInv
    <2>11. NoRxDropped'
      BY DEF NoRxDropped, SlotTypes, WorkerTypes
    <2> QED
      BY <2>1, <2>2, <2>3, <2>4, <2>5, <2>6, <2>7, <2>8, <2>9, <2>10, <2>11, Zenon DEF NetTypeOK
  <1>20. CASE PumpTxNone
    <2> USE <1>20 DEF PumpTxNone, Goto
    <2>1. SlotTypes'
      BY DEF SlotTypes, WorkerTypes
    <2>2. CallTypes'
      BY DEF CallTypes, SlotTypes
    <2>3. WorkerTypes'
      BY DEF WorkerTypes, SlotTypes
    <2>4. QueueTypes'
      BY DEF QueueTypes, WorkerTypes
    <2>5. HandlesValid'
      BY DEF SlotTypes, CallTypes, WorkerTypes, HandlesValid, Valid
    <2>6. SlotInv'
      BY DEF SlotTypes, CallTypes, WorkerTypes, SlotInv, WorkerInv
    <2>7. ConnsDistinct'
      BY DEF SlotTypes, CallTypes, SlotInv, ConnsDistinct
    <2>8. WorkerInv'
      BY DEF SlotTypes, CallTypes, WorkerTypes, SlotInv, WorkerInv
    <2>9. SocketsInv'
      BY DEF SlotTypes, WorkerTypes, SlotInv, WorkerInv, ConnsDistinct, SocketsInv
    <2>10. PumpInv'
      BY DEF SlotTypes, WorkerTypes, QueueTypes, SlotInv, WorkerInv, PumpInv
    <2>11. NoRxDropped'
      BY DEF NoRxDropped, SlotTypes, WorkerTypes
    <2> QED
      BY <2>1, <2>2, <2>3, <2>4, <2>5, <2>6, <2>7, <2>8, <2>9, <2>10, <2>11, Zenon DEF NetTypeOK
  <1>21. CASE PumpTxError
    <2> USE <1>21 DEF PumpTxError, ThenClose, Goto
    <2>1. SlotTypes'
      BY DEF SlotTypes, WorkerTypes
    <2>2. CallTypes'
      BY DEF CallTypes, SlotTypes
    <2>3. WorkerTypes'
      BY DEF WorkerTypes, SlotTypes
    <2>4. QueueTypes'
      BY DEF QueueTypes, WorkerTypes
    <2>5. HandlesValid'
      BY DEF SlotTypes, CallTypes, WorkerTypes, HandlesValid, Valid
    <2>6. SlotInv'
      BY DEF SlotTypes, CallTypes, WorkerTypes, SlotInv, WorkerInv
    <2>7. ConnsDistinct'
      BY DEF SlotTypes, CallTypes, SlotInv, ConnsDistinct
    <2>8. WorkerInv'
      BY DEF SlotTypes, CallTypes, WorkerTypes, SlotInv, WorkerInv
    <2>9. SocketsInv'
      BY DEF SlotTypes, WorkerTypes, SlotInv, WorkerInv, ConnsDistinct, SocketsInv
    <2>10. PumpInv'
      BY DEF SlotTypes, WorkerTypes, QueueTypes, SlotInv, WorkerInv, PumpInv
    <2>11. NoRxDropped'
      BY DEF NoRxDropped, SlotTypes, WorkerTypes
    <2> QED
      BY <2>1, <2>2, <2>3, <2>4, <2>5, <2>6, <2>7, <2>8, <2>9, <2>10, <2>11, Zenon DEF NetTypeOK
  <1>22. CASE PumpDrop
    <2> USE <1>22 DEF PumpDrop, Goto
    <2>1. SlotTypes'
      BY DEF SlotTypes, WorkerTypes
    <2>2. CallTypes'
      BY DEF CallTypes, SlotTypes
    <2>3. WorkerTypes'
      BY DEF WorkerTypes, SlotTypes
    <2>4. QueueTypes'
      <3>1. wsent \in Nat /\ wsent <= Len(tx[wslot]) /\ wslot \in Slots
        BY DEF PumpInv, WorkerTypes
      <3>2. LET q == SubSeq(tx[wslot], wsent + 1, Len(tx[wslot])) IN
            q \in Seq(Bytes) /\ Len(q) = Len(tx[wslot]) - wsent
        BY <3>1, DropType DEF QueueTypes, Queues
      <3>3. (tx \in Queues /\ \A s \in Slots : Len(tx[s]) <= QueueSize)'
        BY <3>1, <3>2, QueueType DEF QueueTypes, Queues
      <3> QED
        BY <3>3 DEF QueueTypes
    <2>5. HandlesValid'
      BY DEF SlotTypes, CallTypes, WorkerTypes, HandlesValid, Valid
    <2>6. SlotInv'
      BY DEF SlotTypes, CallTypes, WorkerTypes, SlotInv, WorkerInv
    <2>7. ConnsDistinct'
      BY DEF SlotTypes, CallTypes, SlotInv, ConnsDistinct
    <2>8. WorkerInv'
      BY DEF SlotTypes, CallTypes, WorkerTypes, SlotInv, WorkerInv
    <2>9. SocketsInv'
      BY DEF SlotTypes, WorkerTypes, SlotInv, WorkerInv, ConnsDistinct, SocketsInv
    <2>10. PumpInv'
      BY DEF SlotTypes, WorkerTypes, QueueTypes, SlotInv, WorkerInv, PumpInv
    <2>11. NoRxDropped'
      BY DEF NoRxDropped, SlotTypes, WorkerTypes
    <2> QED
      BY <2>1, <2>2, <2>3, <2>4, <2>5, <2>6, <2>7, <2>8, <2>9, <2>10, <2>11, Zenon DEF NetTypeOK
  <1>23. CASE PumpRx
    <2> USE <1>23 DEF PumpRx, Goto, RoomForChunk
    <2>0. wsock \in Connections /\ rx[wslot] \in Seq(Bytes) /\ wslot \in Slots
      BY DEF WorkerTypes, QueueTypes, Queues, WorkerInv, SlotInv
    <2>r. PICK r \in 1 .. RxChunk : wrecv' = r /\ gotRx' = [gotRx EXCEPT ![wsock] = @ + r]
      BY Zenon
    <2>m. r \in Nat /\ Len(rx[wslot]) + r <= QueueSize
      BY <2>0, <2>r
    <2>1. SlotTypes'
      BY DEF SlotTypes, WorkerTypes
    <2>2. CallTypes'
      BY DEF CallTypes, SlotTypes
    <2>3. WorkerTypes'
      BY <2>r DEF WorkerTypes
    <2>4. QueueTypes'
      <3>1. (gotRx \in [Connections -> Nat])'
        BY <2>0, <2>r, <2>m, SMTT(30) DEF QueueTypes
      <3> QED
        BY <3>1 DEF QueueTypes
    <2>5. HandlesValid'
      BY DEF SlotTypes, CallTypes, WorkerTypes, HandlesValid, Valid
    <2>6. SlotInv'
      BY DEF SlotTypes, CallTypes, WorkerTypes, SlotInv, WorkerInv
    <2>7. ConnsDistinct'
      BY DEF SlotTypes, CallTypes, SlotInv, ConnsDistinct
    <2>8. WorkerInv'
      BY DEF SlotTypes, CallTypes, WorkerTypes, SlotInv, WorkerInv
    <2>9. SocketsInv'
      BY DEF SlotTypes, WorkerTypes, SlotInv, WorkerInv, ConnsDistinct, SocketsInv
    <2>10. PumpInv'
      BY <2>0, <2>r, <2>m DEF PumpInv, QueueTypes
    <2>11. NoRxDropped'
      BY DEF NoRxDropped, SlotTypes, WorkerTypes
    <2> QED
      BY <2>1, <2>2, <2>3, <2>4, <2>5, <2>6, <2>7, <2>8, <2>9, <2>10, <2>11, Zenon DEF NetTypeOK
  <1>24. CASE PumpRxNone
    <2> USE <1>24 DEF PumpRxNone, Advance
    <2>1. SlotTypes'
      BY DEF SlotTypes, WorkerTypes
    <2>2. CallTypes'
      BY DEF CallTypes, SlotTypes
    <2>3. WorkerTypes'
      BY DEF WorkerTypes, SlotTypes
    <2>4. QueueTypes'
      BY DEF QueueTypes, WorkerTypes
    <2>5. HandlesValid'
      BY DEF SlotTypes, CallTypes, WorkerTypes, HandlesValid, Valid
    <2>6. SlotInv'
      BY DEF SlotTypes, CallTypes, WorkerTypes, SlotInv, WorkerInv
    <2>7. ConnsDistinct'
      BY DEF SlotTypes, CallTypes, SlotInv, ConnsDistinct
    <2>8. WorkerInv'
      BY DEF SlotTypes, CallTypes, WorkerTypes, SlotInv, WorkerInv
    <2>9. SocketsInv'
      BY DEF SlotTypes, WorkerTypes, SlotInv, WorkerInv, ConnsDistinct, SocketsInv
    <2>10. PumpInv'
      BY DEF SlotTypes, WorkerTypes, QueueTypes, SlotInv, WorkerInv, PumpInv
    <2>11. NoRxDropped'
      BY DEF NoRxDropped, SlotTypes, WorkerTypes
    <2> QED
      BY <2>1, <2>2, <2>3, <2>4, <2>5, <2>6, <2>7, <2>8, <2>9, <2>10, <2>11, Zenon DEF NetTypeOK
  <1>25. CASE PumpRxEnd
    <2> USE <1>25 DEF PumpRxEnd, ThenClose, Goto, RoomForChunk
    <2>1. SlotTypes'
      BY DEF SlotTypes, WorkerTypes
    <2>2. CallTypes'
      BY DEF CallTypes, SlotTypes
    <2>3. WorkerTypes'
      BY DEF WorkerTypes, SlotTypes
    <2>4. QueueTypes'
      BY DEF QueueTypes, WorkerTypes
    <2>5. HandlesValid'
      BY DEF SlotTypes, CallTypes, WorkerTypes, HandlesValid, Valid
    <2>6. SlotInv'
      BY DEF SlotTypes, CallTypes, WorkerTypes, SlotInv, WorkerInv
    <2>7. ConnsDistinct'
      BY DEF SlotTypes, CallTypes, SlotInv, ConnsDistinct
    <2>8. WorkerInv'
      BY DEF SlotTypes, CallTypes, WorkerTypes, SlotInv, WorkerInv
    <2>9. SocketsInv'
      BY DEF SlotTypes, WorkerTypes, SlotInv, WorkerInv, ConnsDistinct, SocketsInv
    <2>10. PumpInv'
      BY DEF SlotTypes, WorkerTypes, QueueTypes, SlotInv, WorkerInv, PumpInv
    <2>11. NoRxDropped'
      BY DEF NoRxDropped, SlotTypes, WorkerTypes
    <2> QED
      BY <2>1, <2>2, <2>3, <2>4, <2>5, <2>6, <2>7, <2>8, <2>9, <2>10, <2>11, Zenon DEF NetTypeOK
  <1>26. CASE PumpPush
    <2>0. wslot \in Slots /\ wsock \in Connections /\ rx[wslot] \in Seq(Bytes) /\ wpc = "Push"
      BY <1>26 DEF PumpPush, WorkerTypes, QueueTypes, Queues, WorkerInv, SlotInv
    <2>w. wrecv \in Nat /\ gotRx[wsock] - wrecv \in Nat
          /\ Len(rx[wslot]) + wrecv <= QueueSize
      BY <2>0 DEF PumpInv, WorkerTypes, QueueTypes
    <2> DEFINE q == rx[wslot] \o Stream(wsock, gotRx[wsock] - wrecv, wrecv)
    <2>k. Least(wrecv, QueueSize - Len(rx[wslot])) = wrecv
      <3>1. wrecv \in Int /\ QueueSize - Len(rx[wslot]) \in Int
            /\ wrecv <= QueueSize - Len(rx[wslot])
        BY <2>0, <2>w
      <3> QED
        BY <3>1, LeastFact
    <2>u. /\ wrecv' = 0 /\ Advance
          /\ UNCHANGED <<flagVars, idVars, state, socket, tx, callVars, sockets, wsock,
                         wstate, wsent, byteVars>>
      BY <1>26 DEF PumpPush
    <2>q. /\ rx' = [rx EXCEPT ![wslot] = q]
          /\ rxDropped' = [rxDropped EXCEPT ![wslot] = rxDropped[wslot] + (wrecv - wrecv)]
      BY <1>26, <2>k DEF PumpPush
    <2>l. q \in Seq(Bytes) /\ Len(q) = Len(rx[wslot]) + wrecv
      <3>1. gotRx[wsock] \in Nat
        BY <2>0 DEF QueueTypes
      <3>2. rx[wslot] \in Seq(Bytes) /\ wsock \in Connections
            /\ wrecv \in Nat /\ gotRx[wsock] - wrecv \in Nat
        BY <2>0, <2>w
      <3> QED
        BY ONLY <3>1, <3>2, PushPart, Zenon DEF q
    <2> HIDE DEF q
    <2>d. rxDropped' = rxDropped
      BY <2>0, <2>q, <2>w DEF SlotTypes
    <2>1. SlotTypes'
      BY <2>u, <2>d DEF SlotTypes, WorkerTypes
    <2>2. CallTypes'
      BY <2>u, <2>d DEF CallTypes, SlotTypes
    <2>3. WorkerTypes'
      BY <2>0, <2>u DEF WorkerTypes, Advance
    <2>4. QueueTypes'
      <3>1. (rx \in Queues /\ \A s \in Slots : Len(rx[s]) <= QueueSize)'
        <4>1. Len(q) <= QueueSize
          BY <2>w, <2>l
        <4> QED
          BY <2>0, <4>1, <2>q, <2>l, QueueType DEF QueueTypes
      <3> QED
        BY <2>u, <3>1 DEF QueueTypes
    <2>5. HandlesValid'
      BY <2>u, <2>d DEF SlotTypes, CallTypes, WorkerTypes, HandlesValid, Valid
    <2>6. SlotInv'
      BY <2>0, <2>u DEF SlotInv, Advance
    <2>7. ConnsDistinct'
      BY <2>u, <2>d DEF SlotTypes, CallTypes, SlotInv, ConnsDistinct
    <2>8. WorkerInv'
      BY <2>0, <2>u DEF WorkerInv, Advance
    <2>9. SocketsInv'
      BY <2>0, <2>u DEF SocketsInv, Advance
    <2>10. PumpInv'
      BY <2>u DEF PumpInv, Advance
    <2>11. NoRxDropped'
      BY <2>u, <2>d DEF NoRxDropped, SlotTypes, WorkerTypes
    <2> QED
      BY <2>1, <2>2, <2>3, <2>4, <2>5, <2>6, <2>7, <2>8, <2>9, <2>10, <2>11, Zenon DEF NetTypeOK
  <1>27. CASE CloseSocket
    <2> USE <1>27 DEF CloseSocket, Goto
    <2>1. SlotTypes'
      BY DEF SlotTypes, WorkerTypes
    <2>2. CallTypes'
      BY DEF CallTypes, SlotTypes
    <2>3. WorkerTypes'
      BY DEF WorkerTypes, SlotTypes
    <2>4. QueueTypes'
      BY DEF QueueTypes, WorkerTypes
    <2>5. HandlesValid'
      BY DEF SlotTypes, CallTypes, WorkerTypes, HandlesValid, Valid
    <2>6. SlotInv'
      BY DEF SlotTypes, CallTypes, WorkerTypes, SlotInv, WorkerInv
    <2>7. ConnsDistinct'
      BY DEF SlotTypes, CallTypes, SlotInv, ConnsDistinct
    <2>8. WorkerInv'
      BY DEF SlotTypes, CallTypes, WorkerTypes, SlotInv, WorkerInv
    <2>9. SocketsInv'
      BY DEF SlotTypes, WorkerTypes, SlotInv, WorkerInv, ConnsDistinct, SocketsInv
    <2>10. PumpInv'
      BY DEF SlotTypes, WorkerTypes, QueueTypes, SlotInv, WorkerInv, PumpInv
    <2>11. NoRxDropped'
      BY DEF NoRxDropped, SlotTypes, WorkerTypes
    <2> QED
      BY <2>1, <2>2, <2>3, <2>4, <2>5, <2>6, <2>7, <2>8, <2>9, <2>10, <2>11, Zenon DEF NetTypeOK
  <1>28. CASE CloseSocketDone
    <2> USE <1>28 DEF CloseSocketDone, Advance
    <2>1. SlotTypes'
      BY DEF SlotTypes, WorkerTypes
    <2>2. CallTypes'
      BY DEF CallTypes, SlotTypes
    <2>3. WorkerTypes'
      BY DEF WorkerTypes, SlotTypes
    <2>4. QueueTypes'
      BY DEF QueueTypes, WorkerTypes
    <2>5. HandlesValid'
      BY DEF SlotTypes, CallTypes, WorkerTypes, HandlesValid, Valid
    <2>6. SlotInv'
      BY DEF SlotTypes, CallTypes, WorkerTypes, SlotInv, WorkerInv
    <2>7. ConnsDistinct'
      BY DEF SlotTypes, CallTypes, SlotInv, ConnsDistinct
    <2>8. WorkerInv'
      BY DEF SlotTypes, CallTypes, WorkerTypes, SlotInv, WorkerInv
    <2>9. SocketsInv'
      BY DEF SlotTypes, WorkerTypes, SlotInv, WorkerInv, ConnsDistinct, SocketsInv
    <2>10. PumpInv'
      BY DEF SlotTypes, WorkerTypes, QueueTypes, SlotInv, WorkerInv, PumpInv
    <2>11. NoRxDropped'
      BY DEF NoRxDropped, SlotTypes, WorkerTypes
    <2> QED
      BY <2>1, <2>2, <2>3, <2>4, <2>5, <2>6, <2>7, <2>8, <2>9, <2>10, <2>11, Zenon DEF NetTypeOK
  <1>s. CASE UNCHANGED netVars
    <2> USE <1>s
    <2>1. NetTypeOK'
      BY DEF NetTypeOK, SlotTypes, CallTypes, WorkerTypes, QueueTypes
    <2>2. HandlesValid' /\ SlotInv' /\ ConnsDistinct'
      BY DEF HandlesValid, Valid, SlotInv, ConnsDistinct
    <2>3. WorkerInv' /\ PumpInv' /\ SocketsInv' /\ NoRxDropped'
      BY DEF WorkerInv, PumpInv, SocketsInv, NoRxDropped
    <2> QED
      BY <2>1, <2>2, <2>3
  <1> HIDE DEF AsyncInv
  <1> QED
    BY <1>1, <1>2, <1>3, <1>4, <1>5, <1>6, <1>7, <1>8, <1>9, <1>10, <1>11, <1>12, <1>13, <1>14, <1>15, <1>16, <1>17, <1>18, <1>19, <1>20, <1>21, <1>22, <1>23, <1>24, <1>25, <1>26, <1>27, <1>28, <1>s DEF NetNext, NetCalls, Worker

\* Of the invariant, the exact account of the open sockets.
LEMMA AsyncSockets == AsyncInv => SocketsAccounted
  <1> SUFFICES ASSUME AsyncInv PROVE SocketsAccounted
    OBVIOUS
  <1> USE DEF NetTypeOK, SlotTypes, WorkerTypes, SlotInv, WorkerInv
  <1>1. sockets = ({socket[s] : s \in Slots} \cup Held) \ {0}
    <2>1. \A c \in Connections : c \in sockets <=> c \in ({socket[s] : s \in Slots} \cup Held) \ {0}
      BY ConnsFact DEF SocketsInv, Held
    <2>2. ({socket[s] : s \in Slots} \cup Held) \ {0} \subseteq Connections
      BY ConnsFact DEF Held
    <2> QED
      BY <2>1, <2>2
  <1>2. \A s, t \in Slots : socket[s] = socket[t] /\ s # t => socket[s] = 0
    BY DEF ConnsDistinct
  <1>3. \A s \in Slots : socket[s] # 0 =>
          s \in inUse /\ state[s] = "CONNECTED" /\ socket[s] \notin Held
    BY DEF ConnsDistinct, Held
  <1>4. wpc \in {"Tx", "Drop", "Rx", "Push"} => wsock # 0 /\ wsock = socket[wslot]
    OBVIOUS
  <1> QED
    BY <1>1, <1>2, <1>3, <1>4 DEF SocketsAccounted

LEMMA AsyncInvariant == NetSpec => []AsyncInv
  <1> HIDE DEF AsyncInv, netVars
  <1> QED
    BY AsyncInit, AsyncStep, PTL DEF NetSpec

\* All state of the slots, the handles and the worker stays in its types: no
\* queue ever outgrows its array, and no generation is 0.
THEOREM AsyncTypeCorrect == NetSpec => []NetTypeOK
  <1>1. AsyncInv => NetTypeOK
    OBVIOUS
  <1> HIDE DEF AsyncInv
  <1> QED
    BY AsyncInvariant, <1>1, PTL

\* A slot is never freed or recycled under a live handle, and no slot in use
\* is without one before its release is requested.
THEOREM HandlesStayValid == NetSpec => []HandlesValid
  <1>1. AsyncInv => HandlesValid
    OBVIOUS
  <1> HIDE DEF AsyncInv
  <1> QED
    BY AsyncInvariant, <1>1, PTL

\* No socket leaks or is closed twice, and none is used after its close, for
\* any number of slots and connections.
THEOREM SocketsNeverLeak == NetSpec => []SocketsAccounted
  <1> HIDE DEF AsyncInv
  <1> QED
    BY AsyncInvariant, AsyncSockets, PTL

\* PumpConnected never loses a received byte, whatever the queue and chunk sizes.
THEOREM ReceivedBytesFit == NetSpec => []NoRxDropped
  <1>1. AsyncInv => NoRxDropped
    OBVIOUS
  <1> HIDE DEF AsyncInv
  <1> QED
    BY AsyncInvariant, <1>1, PTL

\* SlotsConsistent: slots, handles and sockets stay in step for every number of
\* slots and connections and every width of the generation.
THEOREM SlotsStayConsistent == NetSpec => []SlotsConsistent
<1>1. SlotsConsistent <=> HandlesValid /\ SocketsAccounted
  BY DEF SlotsConsistent
<1> QED
  BY <1>1, HandlesStayValid, SocketsNeverLeak, PTL

-----------------------------------------------------------------------------
(* The order of the bytes. *)

\* The queues hold the part of their connection's stream that is neither gone yet nor
\* still to come; a connection that was not started has no bytes.
TxInOrder(s) ==
  LET c == connection[s] IN
  /\ TxGone(s) \in Nat /\ TxGone(s) <= pushedTx[c]
  /\ tx[s] = Stream(c, TxGone(s), pushedTx[c] - TxGone(s))
RxInOrder(s) ==
  LET c == connection[s] IN
  /\ RxCome(s) \in Nat /\ readRx[c] <= RxCome(s)
  /\ rx[s] = Stream(c, readRx[c], RxCome(s) - readRx[c])

OrderInv ==
  /\ \A s \in inUse : TxInOrder(s) /\ RxInOrder(s)
  /\ \A c \in Connections : c > started =>
       pushedTx[c] = 0 /\ sentTx[c] = 0 /\ gotRx[c] = 0 /\ readRx[c] = 0

\* Two runs of a stream that follow each other are one.
Joined(c, k, n, m) == Stream(c, k, n) \o Stream(c, k + n, m) = Stream(c, k, n + m)

LEMMA StreamAppend ==
  ASSUME NEW c \in Connections, NEW k \in Nat, NEW n \in Nat, NEW m \in Nat
  PROVE  Joined(c, k, n, m)
<1> DEFINE a == Stream(c, k, n)
           b == Stream(c, k + n, m)
           d == Stream(c, k, n + m)
<1>1. /\ a \in Seq(Bytes) /\ Len(a) = n /\ b \in Seq(Bytes) /\ Len(b) = m
      /\ d \in Seq(Bytes) /\ Len(d) = n + m
  BY StreamType, k + n \in Nat, n + m \in Nat
<1>2. /\ \A i \in 1 .. n : a[i] = <<c, k + i>>
      /\ \A i \in 1 .. m : b[i] = <<c, k + n + i>>
      /\ \A i \in 1 .. (n + m) : d[i] = <<c, k + i>>
  BY DEF Stream
<1> HIDE DEF a, b, d
<1>3. a \o b \in Seq(Bytes) /\ Len(a \o b) = n + m
  BY <1>1
<1>4. ASSUME NEW i \in 1 .. (n + m) PROVE (a \o b)[i] = d[i]
  <2>0. i \in Nat /\ (i <= n \/ i > n)
    OBVIOUS
  <2>1. CASE i <= n
    <3>1. i \in 1 .. n /\ (a \o b)[i] = a[i]
      BY <2>1, <1>1
    <3>2. QED
      BY <3>1, <1>2
  <2>2. CASE i > n
    <3>1. i - n \in 1 .. m /\ (a \o b)[i] = b[i - n]
      BY <2>2, <1>1
    <3>2. b[i - n] = <<c, k + n + (i - n)>>
      BY <3>1, <1>2
    <3>3. k + n + (i - n) = k + i
      BY <3>1
    <3>4. QED
      BY <3>1, <3>2, <3>3, <1>2
  <2>3. QED
    BY <2>0, <2>1, <2>2
<1>5. a \o b = d
  BY <1>1, <1>3, <1>4, SeqEqual
<1>6. QED
  BY <1>5 DEF a, b, d, Joined

\* What is left of a run when its first bytes are gone.
LEMMA StreamDrop ==
  ASSUME NEW c \in Connections, NEW k \in Nat, NEW n \in Nat, NEW j \in 0 .. n
  PROVE  SubSeq(Stream(c, k, n), j + 1, n) = Stream(c, k + j, n - j)
<1> DEFINE a == Stream(c, k, n)
           d == Stream(c, k + j, n - j)
           r == SubSeq(a, j + 1, n)
<1>1. /\ a \in Seq(Bytes) /\ Len(a) = n /\ d \in Seq(Bytes) /\ Len(d) = n - j
  BY StreamType, k + j \in Nat, n - j \in Nat
<1>2. /\ \A i \in 1 .. n : a[i] = <<c, k + i>>
      /\ \A i \in 1 .. (n - j) : d[i] = <<c, k + j + i>>
  BY DEF Stream
<1> HIDE DEF a, d
<1>3. r \in Seq(Bytes) /\ Len(r) = n - j
  BY <1>1
<1>4. ASSUME NEW i \in 1 .. (n - j) PROVE r[i] = d[i]
  <2>1. j + i \in 1 .. n /\ r[i] = a[j + i]
    BY <1>1
  <2>2. a[j + i] = <<c, k + (j + i)>>
    BY <2>1, <1>2
  <2>3. k + (j + i) = k + j + i
    BY <2>1
  <2>4. QED
    BY <2>1, <2>2, <2>3, <1>2
<1> HIDE DEF r
<1>5. r = d
  BY <1>1, <1>3, <1>4, SeqEqual
<1>6. QED
  BY <1>5 DEF a, d, r

LEMMA OrderFacts ==
  ASSUME AsyncInv
  PROVE  /\ \A s \in inUse : s \in Slots /\ connection[s] \in Connections /\ connection[s] <= started
         /\ \A s, t \in inUse : connection[s] = connection[t] => s = t
         /\ \A s \in Slots : /\ tx[s] \in Seq(Bytes) /\ Len(tx[s]) \in 0 .. QueueSize
                            /\ rx[s] \in Seq(Bytes) /\ Len(rx[s]) \in 0 .. QueueSize
         /\ \A c \in Connections : /\ pushedTx[c] \in Nat /\ sentTx[c] \in Nat
                            /\ gotRx[c] \in Nat /\ readRx[c] \in Nat
         /\ wsent \in Nat /\ wrecv \in Nat /\ started \in 0 .. MaxConns /\ wslot \in Slots
         /\ wpc \in {"Tx", "Drop", "Rx", "Push"} => wslot \in inUse /\ wsock = connection[wslot]
<1>1. \A s \in inUse : s \in Slots /\ connection[s] \in Connections /\ connection[s] <= started
  BY DEF NetTypeOK, SlotTypes, CallTypes, SlotInv, Connections
<1>2. \A s, t \in inUse : connection[s] = connection[t] => s = t
  BY DEF ConnsDistinct
<1>3. \A s \in Slots : /\ tx[s] \in Seq(Bytes) /\ Len(tx[s]) \in 0 .. QueueSize
                     /\ rx[s] \in Seq(Bytes) /\ Len(rx[s]) \in 0 .. QueueSize
  BY DEF NetTypeOK, QueueTypes, Queues
<1>4. \A c \in Connections : /\ pushedTx[c] \in Nat /\ sentTx[c] \in Nat
                     /\ gotRx[c] \in Nat /\ readRx[c] \in Nat
  BY DEF NetTypeOK, QueueTypes
<1>5. wsent \in Nat /\ wrecv \in Nat /\ started \in 0 .. MaxConns /\ wslot \in Slots
  BY DEF NetTypeOK, WorkerTypes, CallTypes
<1>6. wpc \in {"Tx", "Drop", "Rx", "Push"} => wslot \in inUse /\ wsock = connection[wslot]
  <2> SUFFICES ASSUME wpc \in {"Tx", "Drop", "Rx", "Push"}
               PROVE  wslot \in inUse /\ wsock = connection[wslot]
    OBVIOUS
  <2>1. wslot \in inUse /\ state[wslot] = "CONNECTED" /\ wsock = socket[wslot]
    BY DEF WorkerInv
  <2>2. wpc # "Closed"
    OBVIOUS
  <2>3. QED
    BY <2>1, <2>2, <1>5 DEF SlotInv
<1>7. QED
  BY <1>1, <1>2, <1>3, <1>4, <1>5, <1>6

\* A step that neither moves bytes nor starts or ends a transfer.
LEMMA OrderKept ==
  ASSUME OrderInv, inUse' \subseteq inUse,
         UNCHANGED <<started, byteVars>>,
         \A s \in inUse' : connection'[s] = connection[s] /\ tx'[s] = tx[s] /\ rx'[s] = rx[s],
         \/ UNCHANGED <<wpc, wslot, wsent, wrecv>>
         \/ wpc \notin {"Drop", "Push"} /\ wpc' \notin {"Drop", "Push"}
  PROVE  OrderInv'
<1>1. ASSUME NEW s \in inUse' PROVE TxInOrder(s)' /\ RxInOrder(s)'
  <2>1. TxInOrder(s) /\ RxInOrder(s)
    BY DEF OrderInv
  <2>2. TxGone(s)' = TxGone(s) /\ RxCome(s)' = RxCome(s)
    BY DEF TxGone, RxCome
  <2>3. QED
    BY <2>1, <2>2 DEF TxInOrder, RxInOrder
<1>2. QED
  BY <1>1 DEF OrderInv

\* What no slot has yet starts empty.
LEMMA OrderStartTake ==
  ASSUME AsyncInv, OrderInv, StartTake
  PROVE  OrderInv'
<1> HIDE DEF AsyncInv
<1>1. PICK n \in Slots : n = scan
  BY DEF StartTake
<1>2. started + 1 \in Connections /\ n \notin inUse
  BY <1>1 DEF AsyncInv, NetTypeOK, CallTypes, StartTake, Connections, Slots
<1>3. /\ inUse' = inUse \cup {n} /\ started' = started + 1
      /\ connection' = [connection EXCEPT ![n] = started + 1]
      /\ tx' = [tx EXCEPT ![n] = << >>] /\ rx' = [rx EXCEPT ![n] = << >>]
      /\ UNCHANGED <<wpc, wslot, wsent, wrecv, byteVars>>
  BY <1>1 DEF StartTake
<1>4. connection \in [Slots -> 0 .. MaxConns] /\ tx \in Queues /\ rx \in Queues
  BY DEF AsyncInv, NetTypeOK, SlotTypes, QueueTypes
<1>5. TxInOrder(n)' /\ RxInOrder(n)'
  <2> DEFINE c == started + 1
  <2>1. connection'[n] = c /\ tx'[n] = << >> /\ rx'[n] = << >>
    BY <1>3, <1>4 DEF Queues
  <2>2. pushedTx[c] = 0 /\ sentTx[c] = 0 /\ gotRx[c] = 0 /\ readRx[c] = 0
    BY <1>2, OrderFacts DEF OrderInv
  <2> HIDE DEF c
  <2>3. ~(wpc \in {"Drop", "Push"} /\ wslot = n)
    BY <1>2, OrderFacts
  <2>4. TxGone(n)' = 0 /\ RxCome(n)' = 0
    BY <2>1, <2>2, <2>3, <1>3 DEF TxGone, RxCome
  <2>5. Stream(c, 0, 0) = << >>
    BY DEF Stream
  <2>6. QED
    BY <2>1, <2>2, <2>4, <2>5, <1>3 DEF TxInOrder, RxInOrder
<1>6. ASSUME NEW s \in inUse PROVE TxInOrder(s)' /\ RxInOrder(s)'
  <2>1. TxInOrder(s) /\ RxInOrder(s) /\ s # n /\ s \in Slots
    BY <1>2, OrderFacts DEF OrderInv
  <2>2. connection'[s] = connection[s] /\ tx'[s] = tx[s] /\ rx'[s] = rx[s]
    BY <2>1, <1>3, <1>4 DEF Queues
  <2>3. TxGone(s)' = TxGone(s) /\ RxCome(s)' = RxCome(s)
    BY <2>2, <1>3 DEF TxGone, RxCome
  <2>4. QED
    BY <2>1, <2>2, <2>3, <1>3 DEF TxInOrder, RxInOrder
<1>7. \A c \in Connections : c > started' =>
         pushedTx'[c] = 0 /\ sentTx'[c] = 0 /\ gotRx'[c] = 0 /\ readRx'[c] = 0
  BY <1>3, OrderFacts DEF OrderInv, Connections
<1>8. QED
  BY <1>3, <1>5, <1>6, <1>7 DEF OrderInv

\* One slot's queue and its counter change: the other slots do not notice.
LEMMA OtherSlots ==
  ASSUME AsyncInv, OrderInv, NEW s \in inUse,
         UNCHANGED <<inUse, connection, started>>,
         \A t \in inUse \ {s} : tx'[t] = tx[t] /\ rx'[t] = rx[t],
         \A c \in Connections \ {connection[s]} :
           /\ pushedTx'[c] = pushedTx[c] /\ sentTx'[c] = sentTx[c]
           /\ gotRx'[c] = gotRx[c] /\ readRx'[c] = readRx[c],
         \/ UNCHANGED <<wpc, wslot, wsent, wrecv>>
         \/ /\ wpc \in {"Drop", "Push"} => wslot = s
            /\ wpc' \in {"Drop", "Push"} => wslot' = s,
         TxInOrder(s)', RxInOrder(s)'
  PROVE  OrderInv'
<1> HIDE DEF AsyncInv
<1>1. ASSUME NEW t \in inUse, t # s PROVE TxInOrder(t)' /\ RxInOrder(t)'
  <2>1. TxInOrder(t) /\ RxInOrder(t) /\ connection[t] \in Connections /\ connection[t] # connection[s]
    BY <1>1, OrderFacts DEF OrderInv
  <2>2. TxGone(t)' = TxGone(t) /\ RxCome(t)' = RxCome(t)
    BY <2>1, <1>1 DEF TxGone, RxCome
  <2>3. QED
    BY <2>1, <2>2, <1>1 DEF TxInOrder, RxInOrder
<1>2. connection[s] \in Connections /\ connection[s] <= started
  BY OrderFacts
<1>3. ASSUME NEW c \in Connections, c > started
      PROVE  pushedTx'[c] = 0 /\ sentTx'[c] = 0 /\ gotRx'[c] = 0 /\ readRx'[c] = 0
  <2>1. c # connection[s]
    BY <1>2, <1>3, OrderFacts DEF Connections
  <2>2. QED
    BY <2>1, <1>3 DEF OrderInv
<1>4. QED
  BY <1>1, <1>3 DEF OrderInv

\* Push of the bytes that fit.
LEMMA OrderSend ==
  ASSUME AsyncInv, OrderInv, NEW h \in handles, NEW n \in 1 .. MaxBytes,
         bmc64_async_net_send(h, n)
  PROVE  OrderInv'
<1> HIDE DEF AsyncInv
<1>1. h.slot \in inUse /\ connection[h.slot] = h.conn /\ h.slot \in Slots
  BY OrderFacts DEF AsyncInv, HandlesValid, Valid
<1>2. PICK s \in inUse : s = h.slot
  BY <1>1
<1> DEFINE c == connection[s]
           k == Least(n, QueueSize - Len(tx[s]))
<1>3. c \in Connections /\ s \in Slots
  BY OrderFacts
<1>4. k \in Nat
  <2>1. Len(tx[s]) \in 0 .. QueueSize
    BY <1>3, OrderFacts
  <2>2. QED
    BY <2>1 DEF Least
<1>5. /\ tx' = [tx EXCEPT ![s] = tx[s] \o Stream(c, pushedTx[c], k)]
      /\ pushedTx' = [pushedTx EXCEPT ![c] = pushedTx[c] + k]
      /\ UNCHANGED <<inUse, connection, started, rx, wpc, wslot, wsent, wrecv, sentTx, gotRx, readRx>>
  BY <1>1, <1>2 DEF bmc64_async_net_send
<1>6. tx \in Queues /\ pushedTx \in [Connections -> Nat]
  BY DEF AsyncInv, NetTypeOK, QueueTypes
<1> HIDE DEF k
<1>7. /\ tx'[s] = tx[s] \o Stream(c, pushedTx[c], k) /\ pushedTx'[c] = pushedTx[c] + k
      /\ \A t \in inUse \ {s} : tx'[t] = tx[t]
      /\ \A d \in Connections \ {c} : pushedTx'[d] = pushedTx[d]
  BY <1>3, <1>5, <1>6, OrderFacts DEF Queues
<1>8. TxInOrder(s) /\ RxInOrder(s)
  BY DEF OrderInv
<1>9. TxGone(s)' = TxGone(s) /\ RxCome(s)' = RxCome(s)
  BY <1>5 DEF TxGone, RxCome
<1>10. TxInOrder(s)'
  <2> DEFINE g == TxGone(s)
             p == pushedTx[c]
  <2>1. g \in Nat /\ p \in Nat /\ g <= p /\ tx[s] = Stream(c, g, p - g)
    BY <1>3, <1>8, OrderFacts DEF TxInOrder
  <2> HIDE DEF g, p
  <2> DEFINE w == p - g
  <2>2. w \in Nat /\ g + w = p /\ w + k = (p + k) - g /\ g <= p + k
    BY <2>1, <1>4
  <2>3. tx[s] = Stream(c, g, w) /\ tx'[s] = tx[s] \o Stream(c, p, k)
    BY <2>1, <1>7 DEF p
  <2>4. connection'[s] = c /\ pushedTx'[c] = p + k /\ TxGone(s)' = g
    BY <1>5, <1>7, <1>9 DEF p, g
  <2> DEFINE l == (p + k) - g
  <2>5. c \in Connections /\ g \in Nat /\ w \in Nat /\ k \in Nat /\ p \in Nat /\ l \in Nat
        /\ p = g + w /\ l = w + k
    BY <2>1, <2>2, <1>3, <1>4
  <2> HIDE DEF c, w, l
  <2>6. Joined(c, g, w, k)
    BY <2>5, StreamAppend
  <2>7. tx'[s] = Stream(c, g, (p + k) - g) /\ g <= p + k
    BY <2>2, <2>3, <2>5, <2>6 DEF l, Joined
  <2>8. QED
    BY <2>1, <2>4, <2>7 DEF TxInOrder
<1>11. RxInOrder(s)'
  BY <1>5, <1>8, <1>9 DEF RxInOrder
<1>12. QED
  BY <1>5, <1>7, <1>10, <1>11, OtherSlots

\* Pop.
LEMMA OrderReceive ==
  ASSUME AsyncInv, OrderInv, NEW h \in handles, NEW n \in 1 .. MaxBytes,
         bmc64_async_net_receive(h, n)
  PROVE  OrderInv'
<1> HIDE DEF AsyncInv
<1>1. h.slot \in inUse /\ connection[h.slot] = h.conn /\ h.slot \in Slots
  BY OrderFacts DEF AsyncInv, HandlesValid, Valid
<1>2. PICK s \in inUse : s = h.slot
  BY <1>1
<1> DEFINE c == connection[s]
           k == Least(n, Len(rx[s]))
<1>3. c \in Connections /\ s \in Slots
  BY OrderFacts
<1>4. k \in Nat /\ k <= Len(rx[s])
  <2>1. Len(rx[s]) \in 0 .. QueueSize
    BY <1>3, OrderFacts
  <2>2. QED
    BY <2>1 DEF Least
<1>5. /\ rx' = [rx EXCEPT ![s] = SubSeq(rx[s], k + 1, Len(rx[s]))]
      /\ readRx' = [readRx EXCEPT ![c] = readRx[c] + k]
      /\ UNCHANGED <<inUse, connection, started, tx, wpc, wslot, wsent, wrecv, pushedTx, sentTx, gotRx>>
  BY <1>1, <1>2 DEF bmc64_async_net_receive
<1>6. rx \in Queues /\ readRx \in [Connections -> Nat]
  BY DEF AsyncInv, NetTypeOK, QueueTypes
<1> HIDE DEF k
<1>7. /\ rx'[s] = SubSeq(rx[s], k + 1, Len(rx[s])) /\ readRx'[c] = readRx[c] + k
      /\ \A t \in inUse \ {s} : rx'[t] = rx[t]
      /\ \A d \in Connections \ {c} : readRx'[d] = readRx[d]
  BY <1>3, <1>5, <1>6, OrderFacts DEF Queues
<1>8. TxInOrder(s) /\ RxInOrder(s)
  BY DEF OrderInv
<1>9. TxGone(s)' = TxGone(s) /\ RxCome(s)' = RxCome(s)
  BY <1>5 DEF TxGone, RxCome
<1>10. RxInOrder(s)'
  <2> DEFINE g == RxCome(s)
             p == readRx[c]
  <2>1. g \in Nat /\ p \in Nat /\ p <= g /\ rx[s] = Stream(c, p, g - p)
    BY <1>3, <1>8, OrderFacts DEF RxInOrder
  <2> HIDE DEF g, p
  <2> DEFINE w == g - p
  <2>2. w \in Nat /\ rx[s] = Stream(c, p, w)
    BY <2>1
  <2>3. Len(rx[s]) = w
    BY <2>1, <2>2, <1>3, StreamType
  <2>4. w - k = g - (p + k) /\ p + k <= g /\ k \in 0 .. w
    BY <2>1, <2>3, <1>4
  <2> HIDE DEF w
  <2>5. SubSeq(Stream(c, p, w), k + 1, w) = Stream(c, p + k, w - k)
    BY <2>1, <2>2, <2>4, <1>3, StreamDrop
  <2>6. rx'[s] = Stream(c, p + k, g - (p + k))
    BY <2>2, <2>3, <2>4, <2>5, <1>7
  <2>7. connection'[s] = c /\ readRx'[c] = p + k /\ RxCome(s)' = g
    BY <1>5, <1>7, <1>9 DEF p, g
  <2>8. QED
    BY <2>1, <2>4, <2>6, <2>7 DEF RxInOrder
<1>11. TxInOrder(s)'
  BY <1>5, <1>8, <1>9 DEF TxInOrder
<1>12. QED
  BY <1>5, <1>7, <1>10, <1>11, OtherSlots

\* send takes bytes that stay queued until they are dropped.
LEMMA OrderPumpTx ==
  ASSUME AsyncInv, OrderInv, PumpTx
  PROVE  OrderInv'
<1> HIDE DEF AsyncInv
<1>1. PICK s \in inUse : s = wslot /\ wsock = connection[s]
  BY OrderFacts DEF PumpTx
<1> DEFINE c == connection[s]
<1>2. PICK k \in 1 .. Least(Len(tx[s]), TxChunk) :
        wsent' = k /\ sentTx' = [sentTx EXCEPT ![c] = sentTx[c] + k]
  BY <1>1 DEF PumpTx
<1>3. /\ wpc = "Tx" /\ wpc' = "Drop" /\ wslot = s /\ wslot' = s
      /\ UNCHANGED <<inUse, connection, started, tx, rx, pushedTx, gotRx, readRx>>
  BY <1>1 DEF PumpTx, Goto
<1>4. c \in Connections /\ s \in Slots /\ Len(tx[s]) \in Nat /\ sentTx[c] \in Nat
  BY OrderFacts
<1>5. sentTx'[c] = sentTx[c] + k /\ \A d \in Connections \ {c} : sentTx'[d] = sentTx[d]
  BY <1>2, <1>4 DEF AsyncInv, NetTypeOK, QueueTypes
<1>6. k \in Nat
  BY <1>4
<1>7. TxGone(s)' = TxGone(s) /\ RxCome(s)' = RxCome(s)
  BY <1>2, <1>3, <1>4, <1>5, <1>6 DEF TxGone, RxCome
<1>8. TxInOrder(s)' /\ RxInOrder(s)'
  BY <1>3, <1>7 DEF OrderInv, TxInOrder, RxInOrder
<1>9. QED
  BY <1>3, <1>5, <1>8, OtherSlots

LEMMA OrderPumpDrop ==
  ASSUME AsyncInv, OrderInv, PumpDrop
  PROVE  OrderInv'
<1> HIDE DEF AsyncInv
<1>1. PICK s \in inUse : s = wslot /\ wsock = connection[s]
  BY OrderFacts DEF PumpDrop
<1> DEFINE c == connection[s]
           k == wsent
<1>2. /\ wpc = "Drop" /\ wpc' = "Rx" /\ wslot = s /\ wslot' = s
      /\ tx' = [tx EXCEPT ![s] = SubSeq(tx[s], k + 1, Len(tx[s]))]
      /\ UNCHANGED <<inUse, connection, started, rx, byteVars>>
  BY <1>1 DEF PumpDrop, Goto
<1>3. c \in Connections /\ s \in Slots /\ Len(tx[s]) \in Nat /\ sentTx[c] \in Nat /\ k \in Nat
  BY OrderFacts
<1>4. k <= Len(tx[s])
  BY <1>2 DEF AsyncInv, PumpInv
<1>5. tx'[s] = SubSeq(tx[s], k + 1, Len(tx[s])) /\ \A t \in inUse \ {s} : tx'[t] = tx[t]
  BY <1>2, <1>3, OrderFacts DEF AsyncInv, NetTypeOK, QueueTypes, Queues
<1>6. TxGone(s) = sentTx[c] - k /\ TxGone(s)' = sentTx[c] /\ RxCome(s)' = RxCome(s)
  BY <1>2, <1>3 DEF TxGone, RxCome
<1>7. TxInOrder(s) /\ RxInOrder(s)
  BY DEF OrderInv
<1>8. TxInOrder(s)'
  <2> DEFINE g == TxGone(s)
             p == pushedTx[c]
             w == p - g
  <2>1. g \in Nat /\ p \in Nat /\ w \in Nat /\ tx[s] = Stream(c, g, w) /\ p = g + w
    BY <1>3, <1>7, OrderFacts DEF TxInOrder
  <2>2. TxGone(s)' = g + k /\ connection'[s] = c /\ pushedTx'[c] = p
    BY <1>2, <1>3, <1>6
  <2> HIDE DEF g, p, w, k
  <2>3. Len(tx[s]) = w
    BY <2>1, <1>3, StreamType
  <2>4. c \in Connections /\ k \in 0 .. w
    BY <2>1, <2>3, <1>3, <1>4
  <2>5. w - k = p - (g + k) /\ g + k \in Nat /\ g + k <= p
    BY <2>1, <2>4
  <2> HIDE DEF c
  <2>6. SubSeq(Stream(c, g, w), k + 1, w) = Stream(c, g + k, w - k)
    BY <2>1, <2>4, StreamDrop
  <2>7. tx'[s] = Stream(c, g + k, p - (g + k))
    BY <2>1, <2>3, <2>5, <2>6, <1>5
  <2>8. QED
    BY <2>2, <2>5, <2>7 DEF TxInOrder
<1>9. RxInOrder(s)'
  BY <1>2, <1>6, <1>7 DEF RxInOrder
<1>10. QED
  BY <1>2, <1>5, <1>8, <1>9, OtherSlots

\* What receive() gave has not come yet.
LEMMA OrderPumpRx ==
  ASSUME AsyncInv, OrderInv, PumpRx
  PROVE  OrderInv'
<1> HIDE DEF AsyncInv
<1>1. PICK s \in inUse : s = wslot /\ wsock = connection[s]
  BY OrderFacts DEF PumpRx
<1> DEFINE c == connection[s]
<1>2. PICK r \in 1 .. RxChunk :
        wrecv' = r /\ gotRx' = [gotRx EXCEPT ![c] = gotRx[c] + r]
  BY <1>1 DEF PumpRx
<1>3. /\ wpc = "Rx" /\ wpc' = "Push" /\ wslot = s /\ wslot' = s
      /\ UNCHANGED <<inUse, connection, started, tx, rx, pushedTx, sentTx, readRx>>
  BY <1>1 DEF PumpRx, Goto
<1>4. c \in Connections /\ s \in Slots /\ gotRx[c] \in Nat /\ r \in Nat
  BY OrderFacts
<1>5. gotRx'[c] = gotRx[c] + r /\ \A d \in Connections \ {c} : gotRx'[d] = gotRx[d]
  BY <1>2, <1>4 DEF AsyncInv, NetTypeOK, QueueTypes
<1>6. TxGone(s)' = TxGone(s) /\ RxCome(s)' = RxCome(s)
  BY <1>2, <1>3, <1>4, <1>5 DEF TxGone, RxCome
<1>7. TxInOrder(s)' /\ RxInOrder(s)'
  BY <1>3, <1>6 DEF OrderInv, TxInOrder, RxInOrder
<1>8. QED
  BY <1>3, <1>5, <1>7, OtherSlots

LEMMA OrderPumpPush ==
  ASSUME AsyncInv, OrderInv, PumpPush
  PROVE  OrderInv'
<1> HIDE DEF AsyncInv
<1>1. PICK s \in inUse : s = wslot /\ wsock = connection[s]
  BY OrderFacts DEF PumpPush
<1> DEFINE c == connection[s]
           r == wrecv
<1>2. c \in Connections /\ s \in Slots /\ Len(rx[s]) \in Nat /\ gotRx[c] \in Nat /\ r \in Nat
  BY OrderFacts
<1>3. wpc = "Push" /\ wslot = s /\ Len(rx[s]) + r <= QueueSize /\ r <= gotRx[c]
  BY <1>1 DEF AsyncInv, PumpInv, PumpPush
<1>4. Least(r, QueueSize - Len(rx[s])) = r
  BY <1>2, <1>3 DEF Least
<1>5. /\ wpc' = "Visit"
      /\ rx' = [rx EXCEPT ![s] = rx[s] \o Stream(c, gotRx[c] - r, r)]
      /\ UNCHANGED <<inUse, connection, started, tx, byteVars>>
  BY <1>1, <1>4 DEF PumpPush, Advance
<1>6. /\ rx'[s] = rx[s] \o Stream(c, gotRx[c] - r, r)
      /\ \A t \in inUse \ {s} : rx'[t] = rx[t]
  BY <1>2, <1>5, OrderFacts DEF AsyncInv, NetTypeOK, QueueTypes, Queues
<1>7. RxCome(s) = gotRx[c] - r /\ RxCome(s)' = gotRx[c] /\ TxGone(s)' = TxGone(s)
  BY <1>2, <1>3, <1>5 DEF TxGone, RxCome
<1>8. TxInOrder(s) /\ RxInOrder(s)
  BY DEF OrderInv
<1>9. RxInOrder(s)'
  <2> DEFINE g == RxCome(s)
             p == readRx[c]
             w == g - p
  <2>1. g \in Nat /\ p \in Nat /\ w \in Nat /\ rx[s] = Stream(c, p, w) /\ g = p + w
    BY <1>2, <1>8, OrderFacts DEF RxInOrder
  <2>2. connection'[s] = c /\ readRx'[c] = p
    BY <1>5
  <2>3. g = gotRx[c] - r /\ RxCome(s)' = gotRx[c]
    BY <1>7
  <2> HIDE DEF g, p, w
  <2>4. rx'[s] = rx[s] \o Stream(c, g, r)
    BY <1>6, <2>3
  <2>5. gotRx[c] = g + r
    BY <1>2, <2>3
  <2>6. c \in Connections /\ r \in Nat
    BY <1>2
  <2> HIDE DEF c, r
  <2> DEFINE l == (g + r) - p
  <2>7. l \in Nat /\ l = w + r /\ g + r \in Nat /\ p <= g + r
    BY <2>1, <2>6
  <2> HIDE DEF l
  <2>8. Joined(c, p, w, r)
    BY <2>1, <2>6, StreamAppend
  <2>9. rx'[s] = Stream(c, p, (g + r) - p) /\ RxCome(s)' = g + r
    BY <2>1, <2>3, <2>4, <2>5, <2>7, <2>8 DEF l, Joined
  <2>10. QED
    BY <2>2, <2>7, <2>9 DEF RxInOrder
<1>10. TxInOrder(s)'
  BY <1>5, <1>7, <1>8 DEF TxInOrder
<1>11. QED
  BY <1>3, <1>5, <1>6, <1>9, <1>10, OtherSlots

\* No other step moves a byte.
LEMMA OrderStep ==
  ASSUME AsyncInv, OrderInv, [NetNext]_netVars
  PROVE  OrderInv'
<1> HIDE DEF AsyncInv
<1>1. CASE StartTake
  BY <1>1, OrderStartTake
<1>2. ASSUME NEW h \in handles, NEW n \in 1 .. MaxBytes,
             bmc64_async_net_send(h, n) \/ bmc64_async_net_receive(h, n)
      PROVE  OrderInv'
  BY <1>2, OrderSend, OrderReceive
<1>3. CASE PumpTx \/ PumpDrop \/ PumpRx \/ PumpPush
  BY <1>3, OrderPumpTx, OrderPumpDrop, OrderPumpRx, OrderPumpPush
<1>4. CASE bmc64_async_net_initialize \/ StartBegin \/ StartNoMemory \/ StartSkip
  BY <1>4, OrderKept DEF bmc64_async_net_initialize, StartBegin, StartNoMemory, StartSkip
<1>5. ASSUME NEW h \in handles, bmc64_async_net_stop(h) PROVE OrderInv'
  BY <1>5, OrderKept DEF bmc64_async_net_stop
<1>6. CASE ProcessSlot
  <2>1. wpc = "Visit" /\ wpc' \notin {"Drop", "Push"}
    BY <1>6 DEF ProcessSlot, Visited, Advance, Goto
  <2>2. QED
    BY <1>6, <2>1, OrderKept DEF ProcessSlot
<1>7. CASE FreeSlot
  <2>1. \A s \in inUse' : s # wslot /\ s \in Slots
    BY <1>7, OrderFacts DEF FreeSlot
  <2>2. \A s \in inUse' : connection'[s] = connection[s] /\ tx'[s] = tx[s] /\ rx'[s] = rx[s]
    BY <1>7, <2>1 DEF FreeSlot, AsyncInv, NetTypeOK, QueueTypes, Queues
  <2>3. wpc = "Free" /\ wpc' = "Freed" /\ inUse' \subseteq inUse /\ UNCHANGED <<started, byteVars>>
    BY <1>7 DEF FreeSlot, Goto
  <2>4. QED
    BY <2>2, <2>3, OrderKept
<1>8. CASE FreeSlotClose \/ ConnectBegin \/ ConnectFailed \/ ConnectDone
  BY <1>8, OrderKept DEF FreeSlotClose, ConnectBegin, ConnectFailed, ConnectDone, Advance, Goto
<1>9. CASE ConnectAbandoned \/ CloseAbandoned \/ PumpStopped \/ PumpTxNone \/ PumpTxError
  BY <1>9, OrderKept DEF ConnectAbandoned, CloseAbandoned, PumpStopped, PumpTxNone, PumpTxError,
                         ThenClose, Advance, Goto
<1>10. CASE PumpConnected
  <2>1. wpc = "Pump" /\ wpc' \notin {"Drop", "Push"}
    BY <1>10 DEF PumpConnected, Advance, Goto
  <2>2. QED
    BY <1>10, <2>1, OrderKept DEF PumpConnected
<1>11. CASE PumpRxNone \/ PumpRxEnd \/ CloseSocket \/ CloseSocketDone
  BY <1>11, OrderKept DEF PumpRxNone, PumpRxEnd, CloseSocket, CloseSocketDone, ThenClose,
                          Advance, Goto
<1>12. CASE UNCHANGED netVars
  BY <1>12, OrderKept
<1>13. QED
  BY <1>1, <1>2, <1>3, <1>4, <1>5, <1>6, <1>7, <1>8, <1>9, <1>10, <1>11, <1>12
     DEF NetNext, NetCalls, Worker

\* Every byte the emulator sends or the peer gives arrives once, in order and on its
\* own connection, however sends are cut and slots are used again, for every queue
\* and chunk size.
THEOREM StreamsStayExact == NetSpec => []StreamsExact
<1>1. NetInit => OrderInv
  BY DEF NetInit, OrderInv
<1>2. AsyncInv /\ OrderInv => StreamsExact
  BY DEF OrderInv, TxInOrder, RxInOrder, StreamsExact, StreamsInOrder
<1> HIDE DEF AsyncInv, netVars
<1>3. QED
  BY <1>1, <1>2, OrderStep, AsyncInvariant, PTL DEF NetSpec
=============================================================================
