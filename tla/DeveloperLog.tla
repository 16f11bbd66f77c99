----------------------------- MODULE DeveloperLog ---------------------------
(***************************************************************************)
(* The developer log: DeveloperLogRing, written by every core and          *)
(* overwritten as it fills, and the streams of RouteLogs that send it to   *)
(* browsers.  A browser may lose its connection at any byte and returns    *)
(* with the epoch and the cursor of what it has; the machine may reboot in *)
(* between, after which sequence numbers start again at 0.                 *)
(*                                                                         *)
(* A byte of the log is named by its boot and its sequence number.  The    *)
(* epoch, a random number of 64 bits, is the boot's number.  The browser   *)
(* (sdcard/bmx/dev/ui) is external.                                        *)
(***************************************************************************)
EXTENDS Naturals

CONSTANTS
  Browsers,
  LogCapacity,        \* bytes of the ring
  MaxSequence,        \* bound: bytes logged in one boot
  MaxAppend,          \* bound: bytes of one message
  MaxChunk,           \* bytes of one read
  MaxBoots            \* bound: boots

ASSUME LogAssumption ==
  /\ LogCapacity \in Nat \ {0} /\ MaxSequence \in Nat
  /\ MaxAppend \in Nat /\ MaxChunk \in Nat \ {0} /\ MaxBoots \in Nat \ {0}

VARIABLES
  boot, bytes, next_sequence,     \* the ring
  log_streams,                    \* DeveloperRouter::log_streams_
  browser,                        \* what a browser knows
  faithful                        \* history: browsers that were never misled

logVars == <<boot, bytes, next_sequence, log_streams, browser, faithful>>

StreamSlots == 1..2
NoStream == [owner |-> "none", sequence |-> 0, end |-> 0, follow |-> FALSE]

LogByte == [boot : 0..MaxBoots, seq : 0..MaxSequence]

LogTypeOK ==
  /\ boot \in 1..MaxBoots
  /\ bytes \in [0..LogCapacity - 1 -> LogByte]
  /\ next_sequence \in 0..MaxSequence
  /\ log_streams \in [StreamSlots ->
       {NoStream} \cup [owner : Browsers, sequence : 0..MaxSequence,
                        end : 0..MaxSequence, follow : BOOLEAN]]
  /\ browser \in [Browsers -> [epoch : 0..MaxBoots, cursor : 0..MaxSequence,
                               end : 0..MaxSequence,
                               state : {"closed", "open", "complete"}]]
  /\ faithful \subseteq Browsers

LogInit ==
  /\ boot = 1
  /\ bytes = [i \in 0..LogCapacity - 1 |-> [boot |-> 0, seq |-> 0]]
  /\ next_sequence = 0
  /\ log_streams = [s \in StreamSlots |-> NoStream]
  /\ browser = [b \in Browsers |->
                  [epoch |-> 0, cursor |-> 0, end |-> 0, state |-> "closed"]]
  /\ faithful = Browsers

\* The window the ring still holds starts here.
Oldest == IF next_sequence > LogCapacity THEN next_sequence - LogCapacity ELSE 0

---------------------------------------------------------------------------
(* DeveloperLogRing.                                                        *)

\* The first byte of a message of n bytes that the ring can keep.
FirstRetained(n) == next_sequence + (IF n > LogCapacity THEN n - LogCapacity ELSE 0)

\* Append, under the spin lock, from any core: the last bytes of the message
\* go round the ring.
RingAppend(n) ==
  LET retained == IF n > LogCapacity THEN LogCapacity ELSE n
      skipped  == n - retained
  IN  /\ next_sequence + n <= MaxSequence
      /\ bytes' = [i \in DOMAIN bytes |->
                     LET k == (i + LogCapacity - (FirstRetained(n) % LogCapacity)) % LogCapacity
                     IN  IF k < retained
                         THEN [boot |-> boot, seq |-> next_sequence + skipped + k]
                         ELSE bytes[i]]
      /\ next_sequence' = next_sequence + n
      /\ UNCHANGED <<boot, log_streams, browser, faithful>>

\* Read: where it starts, how many bytes it gives, and whether some were lost.
RingRead(sequence, capacity) ==
  LET start == CASE sequence < Oldest        -> Oldest
                 [] sequence > next_sequence -> next_sequence
                 [] OTHER                    -> sequence
      available == next_sequence - start
      size  == IF available > capacity THEN capacity ELSE available
  IN  [start |-> start, size |-> size, gap |-> sequence < Oldest]

\* The byte the ring holds for a sequence number.
RingByte(sequence) == bytes[sequence % LogCapacity]

---------------------------------------------------------------------------
(* RouteLogs.                                                               *)

\* Mutant: a cursor of another boot is taken for one of this boot.
EpochResetNever(q) == FALSE

\* The epoch the browser names is not this boot's.
EpochReset(q) == q.epoch # 0 /\ q.epoch # boot

\* A request without a cursor (epoch 0) asks for all the ring has.
Requested(q) == IF q.epoch = 0 THEN Oldest ELSE q.cursor
Gap(q) == EpochReset(q) \/ Requested(q) < Oldest \/ Requested(q) > next_sequence
Start(q) == IF Gap(q) THEN Oldest ELSE Requested(q)

\* A browser opens a stream, anew or where its last one stopped.  It believes the
\* headers: epoch, start, end, and that nothing is missing unless they say so.
RouteLogs(b, follow, resume) ==
  LET old == browser[b]
      q   == IF resume THEN old ELSE [old EXCEPT !.epoch = 0]
  IN  /\ old.state # "open"
      /\ \E s \in StreamSlots :
           /\ log_streams[s] = NoStream
           /\ \A t \in StreamSlots : t < s => log_streams[t] # NoStream
           /\ log_streams' = [log_streams EXCEPT ![s] =
                [owner |-> b, sequence |-> Start(q), end |-> next_sequence, follow |-> follow]]
      /\ browser' = [browser EXCEPT ![b] =
           [epoch |-> boot, cursor |-> Start(q), end |-> next_sequence, state |-> "open"]]
      /\ faithful' = IF q.epoch = 0 \/ Gap(q) \/ (q.epoch = boot /\ q.cursor = Start(q))
                     THEN faithful ELSE faithful \ {b}
      /\ UNCHANGED <<boot, bytes, next_sequence>>

---------------------------------------------------------------------------
(* LogStream.                                                               *)

StreamCapacity(r) ==
  IF ~r.follow /\ r.end - r.sequence < MaxChunk THEN r.end - r.sequence ELSE MaxChunk

\* The ring has overwritten the byte that is due.
Overrun(r) == RingRead(r.sequence, StreamCapacity(r)).gap

\* The server asks the stream for bytes and they reach the browser.
ReadData(s) ==
  LET r == log_streams[s]
      b == r.owner
      d == RingRead(r.sequence, StreamCapacity(r))
  IN  /\ r # NoStream
      /\ r.follow \/ r.sequence < r.end
      /\ ~Overrun(r) /\ d.size > 0
      /\ log_streams' = [log_streams EXCEPT ![s].sequence = d.start + d.size]
      /\ browser' = [browser EXCEPT ![b].cursor = @ + d.size]
      /\ faithful' = IF \A k \in 0..d.size - 1 :
                          RingByte(d.start + k) = [boot |-> browser[b].epoch,
                                                   seq  |-> browser[b].cursor + k]
                     THEN faithful ELSE faithful \ {b}
      /\ UNCHANGED <<boot, bytes, next_sequence>>

\* A stream that has ended is released, and its slot with it.
Released(s) == log_streams' = [log_streams EXCEPT ![s] = NoStream]

\* A snapshot that has sent everything ends as it should.
ReadEnd(s) ==
  LET r == log_streams[s]
  IN  /\ r # NoStream /\ ~r.follow /\ r.sequence = r.end
      /\ Released(s)
      /\ browser' = [browser EXCEPT ![r.owner].state = "complete"]
      /\ UNCHANGED <<boot, bytes, next_sequence, faithful>>

\* Mutant: it waits for the byte instead.
ReadErrorWaits(s) ==
  /\ log_streams[s] # NoStream
  /\ Overrun(log_streams[s])
  /\ UNCHANGED logVars

\* A stream that was overrun breaks off.
ReadError(s) ==
  LET r == log_streams[s]
  IN  /\ r # NoStream
      /\ r.follow \/ r.sequence < r.end
      /\ Overrun(r)
      /\ Released(s)
      /\ browser' = [browser EXCEPT ![r.owner].state = "closed"]
      /\ UNCHANGED <<boot, bytes, next_sequence, faithful>>

\* The connection is lost, bytes under way included.
Disconnect(s) ==
  /\ log_streams[s] # NoStream
  /\ Released(s)
  /\ browser' = [browser EXCEPT ![log_streams[s].owner].state = "closed"]
  /\ UNCHANGED <<boot, bytes, next_sequence, faithful>>

\* The memory of the new ring holds anything, here what the old one had.
Reboot ==
  /\ boot < MaxBoots
  /\ boot' = boot + 1 /\ next_sequence' = 0
  /\ log_streams' = [s \in StreamSlots |-> NoStream]
  /\ browser' = [b \in Browsers |->
                   IF browser[b].state = "open" THEN [browser[b] EXCEPT !.state = "closed"]
                   ELSE browser[b]]
  /\ UNCHANGED <<bytes, faithful>>

StreamRead(s) == ReadData(s) \/ ReadEnd(s) \/ ReadError(s)

LogNext ==
  \/ \E n \in 1..MaxAppend : RingAppend(n)
  \/ \E b \in Browsers, follow, resume \in BOOLEAN : RouteLogs(b, follow, resume)
  \/ \E s \in StreamSlots : StreamRead(s) \/ Disconnect(s)
  \/ Reboot

LogSpec == LogInit /\ [][LogNext]_logVars

---------------------------------------------------------------------------
(* Properties.                                                              *)

\* LogStream::Read and RouteLogs: whatever is overwritten, lost or rebooted,
\* every byte a browser receives is the one it believes to receive, the next of
\* the same boot, unless the response said that some are missing.
LogNeverMisleads == faithful = Browsers

\* A snapshot that ended as it should gave all bytes from its start to its end.
SnapshotWhole ==
  \A b \in Browsers : browser[b].state = "complete" => browser[b].cursor = browser[b].end

\* A byte inside the window the ring announces is in the ring.
WindowRetained ==
  \A q \in 0..MaxSequence :
    Oldest <= q /\ q < next_sequence => RingByte(q) = [boot |-> boot, seq |-> q]

\* The log a browser shows is the log that was written, as far as it claims to be.
LogFaithful == LogTypeOK /\ LogNeverMisleads /\ SnapshotWhole /\ WindowRetained

\* The server's calls: each stream is read on.
LogFairness == \A s \in StreamSlots : WF_logVars(StreamRead(s))
LogFairSpec == LogSpec /\ LogFairness

\* A snapshot is finite: it ends, whole or with an error, however much is
\* logged meanwhile.
SnapshotEnds ==
  \A s \in StreamSlots :
    log_streams[s] # NoStream /\ ~log_streams[s].follow ~> log_streams[s] = NoStream
=============================================================================
