---------------------------- MODULE Core0Mailbox ----------------------------
(***************************************************************************)
(* core0_mailbox.h and its two users in kernel.cpp.  Core 1, which runs    *)
(* the emulator, fills mCore0Request, publishes it, sends an event and     *)
(* sleeps in WFE until it sees the answer; core 0, which owns the legacy   *)
(* display, polls the mailbox between two turns of its scheduler and never *)
(* sleeps.  WFE returns at once when an event has arrived since the last   *)
(* one: that latch is what makes the sleep safe.                           *)
(***************************************************************************)
EXTENDS CoreEvents

CONSTANTS
  Core0Requests,         \* the calls core 1 may make, with their arguments
  NoCore0Request         \* "nothing", also the result 0 of a call without a result

ASSUME Core0Assumption == NoCore0Request \notin Core0Requests

VARIABLES
  mState,           \* Core0Mailbox::mState
  mCore0Request,    \* its command and arguments, and the result
  caller,           \* where core 1 is in SubmitCore0Request
  core0,            \* where core 0 is in RunCore0Scheduler
  requested,            \* history: the call core 1 is in
  returned          \* history: the result it left its last call with

core0Vars == <<mState, mCore0Request, caller, core0, requested, returned>>

Core0TypeOK ==
  /\ mState \in {"Idle", "Pending", "Completed"}
  /\ mCore0Request \in [command : Core0Requests \cup {NoCore0Request}, result : Core0Requests \cup {NoCore0Request}]
  /\ caller \in {"Running", "Signal", "Check", "WFE"}
  /\ core0 \in {"Yield", "Execute", "Complete", "Signal"}
  /\ requested \in Core0Requests \cup {NoCore0Request} /\ returned \in Core0Requests \cup {NoCore0Request}

Core0Init ==
  /\ mState = "Idle"
  /\ mCore0Request = [command |-> NoCore0Request, result |-> NoCore0Request]
  /\ caller = "Running" /\ core0 = "Yield"
  /\ requested = NoCore0Request /\ returned = NoCore0Request

IsIdle == mState = "Idle"
HasPendingRequest == mState = "Pending"

\* Signal: DSB and SEV.
Signal == SEV

---------------------------------------------------------------------------
(* Core 1.                                                                  *)

\* SubmitCore0Request and RequestAndWait up to the store of Pending.
Request(r) ==
  /\ caller = "Running"
  /\ IsIdle
  /\ mCore0Request' = [mCore0Request EXCEPT !.command = r]
  /\ mState' = "Pending"
  /\ caller' = "Signal"
  /\ requested' = r
  /\ UNCHANGED <<event, core0, returned>>

\* Its own event, which core 1 receives as well.
SignalRequest ==
  /\ caller = "Signal"
  /\ Signal
  /\ caller' = "Check"
  /\ UNCHANGED <<mState, mCore0Request, core0, requested, returned>>

\* The loop: not completed, so wait for an event.
CheckFails ==
  /\ caller = "Check"
  /\ mState # "Completed"
  /\ caller' = "WFE"
  /\ UNCHANGED <<mState, mCore0Request, event, core0, requested, returned>>

WaitForSignal ==
  /\ caller = "WFE"
  /\ WFE("core1")
  /\ caller' = "Check"
  /\ UNCHANGED <<mState, mCore0Request, core0, requested, returned>>

\* The answer is there and the mailbox may be used again; the caller reads the
\* result, which nobody changes before its next request.
CheckSucceeds ==
  /\ caller = "Check"
  /\ mState = "Completed"
  /\ mState' = "Idle"
  /\ caller' = "Running"
  /\ requested' = NoCore0Request
  /\ returned' = mCore0Request.result
  /\ UNCHANGED <<mCore0Request, event, core0>>

---------------------------------------------------------------------------
(* Core 0.                                                                  *)

\* ProcessCore0Request: nothing to do, or the call begins; between two calls
\* the scheduler runs the other tasks of core 0.
ProcessCore0Request ==
  /\ core0 = "Yield"
  /\ HasPendingRequest
  /\ core0' = "Execute"
  /\ mCore0Request' = [mCore0Request EXCEPT !.result = NoCore0Request]
  /\ UNCHANGED <<mState, event, caller, requested, returned>>

\* The switch over the commands; the result is named after its request.
Execute ==
  /\ core0 = "Execute"
  /\ core0' = "Complete"
  /\ mCore0Request' = [mCore0Request EXCEPT !.result = mCore0Request.command]
  /\ UNCHANGED <<mState, event, caller, requested, returned>>

\* Mutant: the request is taken for completed when it has been seen.
CompletesEarly == core0 \in {"Execute", "Complete"}

Completes == core0 = "Complete"

\* CompleteRequest publishes the answer ...
CompleteRequest ==
  /\ Completes
  /\ HasPendingRequest
  /\ mState' = "Completed"
  /\ core0' = "Signal"
  /\ UNCHANGED <<mCore0Request, event, caller, requested, returned>>

\* ... and wakes core 1.
SignalCompletion ==
  /\ core0 = "Signal"
  /\ Signal
  /\ core0' = "Yield"
  /\ UNCHANGED <<mState, mCore0Request, caller, requested, returned>>

Waiting == SignalRequest \/ CheckFails \/ WaitForSignal \/ CheckSucceeds
Core0Loop == ProcessCore0Request \/ Execute \/ CompleteRequest \/ SignalCompletion

Core0Next == (\E r \in Core0Requests : Request(r)) \/ Waiting \/ Core0Loop

\* The mailbox with any other events around it.
Core0Spec ==
  /\ Core0Init /\ EventInit
  /\ [][Core0Next \/ (SEV /\ UNCHANGED core0Vars)]_<<core0Vars, event>>

---------------------------------------------------------------------------
(* Properties.                                                              *)

\* The mailbox is a call: core 0 carries out the request once, with its own
\* arguments, and core 1 leaves RequestAndWait with that request's result.
Remote == INSTANCE RemoteCall WITH
  CallArgs <- Core0Requests, NoCallArg <- NoCore0Request,
  calling <- requested,
  done <- requested # NoCore0Request /\ mState = "Completed",
  returned <- returned
IsRemoteCall == Remote!RemoteCallSpec

\* A core 1 that has entered the mailbox comes out of it: no event is lost
\* between its check and its WFE.
CallReturns == (caller # "Running") ~> (caller = "Running")
=============================================================================
