----------------------------- MODULE CoreEvents -----------------------------
(***************************************************************************)
(* The event registers of the cores (ARM, external).  SEV sets all of      *)
(* them; WFE waits until the core's own is set and clears it, so an event  *)
(* that arrives between a check and the WFE after it is not lost.  Core 0  *)
(* never waits; only the registers of the other two are kept.              *)
(***************************************************************************)
VARIABLE event

Sleepers == {"core1", "core2"}

EventTypeOK == event \in [Sleepers -> BOOLEAN]
EventInit == event = [c \in Sleepers |-> FALSE]

SEV == event' = [c \in Sleepers |-> TRUE]
WFE(c) == event[c] /\ event' = [event EXCEPT ![c] = FALSE]
=============================================================================
