------------------------- MODULE UpdateProgressMailbox -------------------------
(***************************************************************************)
(* update_progress_mailbox.h: the latest progress and a ring of the phase  *)
(* transitions that the menu has not shown yet.  Its user holds the lock.  *)
(* An event is its phase: the numbers beside it are coalesced.             *)
(***************************************************************************)
EXTENDS Integers, Sequences

CONSTANTS Phases,    \* UpdateForegroundPhase, 0 is Discovery
          Capacity   \* kTransitionCapacity

ASSUME UpdateProgressMailboxAssumption ==
  Phases \subseteq Nat /\ 0 \in Phases /\ Capacity \in Nat \ {0}

VARIABLES latest,       \* latest_, NoPhase when not latest_valid_
          transitions,  \* the ring
          head, count,
          history       \* the transitions presented since Reset (a history variable)

mailboxVars == <<latest, transitions, head, count, history>>

NoPhase == -1

MailboxInit ==
  /\ latest = NoPhase
  /\ transitions = [i \in 0..(Capacity - 1) |-> 0]
  /\ head = 0 /\ count = 0 /\ history = <<>>

Reset ==
  /\ latest' = NoPhase /\ head' = 0 /\ count' = 0 /\ history' = <<>>
  /\ UNCHANGED transitions

\* Mutant: a full ring is overwritten, but its oldest entry stays the head.
DropOldestHeadStays == [head |-> head, count |-> Capacity - 1]

\* A full ring gives up its oldest transition.
DropOldest == [head |-> (head + 1) % Capacity, count |-> count - 1]

Room == IF count = Capacity THEN DropOldest ELSE [head |-> head, count |-> count]

Present(phase) ==
  /\ latest' = phase
  /\ IF latest = phase THEN UNCHANGED <<transitions, head, count, history>>
     ELSE LET room == Room IN
          /\ transitions' = [transitions EXCEPT ![(room.head + room.count) % Capacity] = phase]
          /\ head' = room.head /\ count' = room.count + 1
          /\ history' = Append(history, phase)

PopTransition ==
  /\ count > 0
  /\ head' = (head + 1) % Capacity /\ count' = count - 1
  /\ UNCHANGED <<latest, transitions, history>>

\* What PopTransition will return, in its order.
Queued == [i \in 1..count |-> transitions[(head + i - 1) % Capacity]]

MailboxTypeOK ==
  /\ latest \in Phases \cup {NoPhase}
  /\ transitions \in [0..(Capacity - 1) -> Phases]
  /\ head \in 0..(Capacity - 1) /\ count \in 0..Capacity
  /\ history \in Seq(Phases)
=============================================================================
