---------------------------- MODULE CommandMailbox ----------------------------
(***************************************************************************)
(* remote/command_mailbox.{h,cpp}: the handoff between the HTTP task on    *)
(* core 0 and the emulator's safe point on core 1.  One cell holds a       *)
(* system command, one cell a control request with its response.  Every    *)
(* method of the class runs under lock_, so each is one atomic action      *)
(* here; the callers are in RemoteControl.                                 *)
(***************************************************************************)
EXTENDS Naturals

CONSTANT TokenLimit     \* largest control token; UINT32_MAX in the code

ASSUME TokenLimitAssumption == TokenLimit \in Nat /\ TokenLimit >= 1

VARIABLES command,              \* command_: "None" or "SystemReboot"
          control_state,        \* control_state_
          next_control_token,   \* next_control_token_
          control_token,        \* control_token_, 0 when the cell is empty
          control_request,      \* control_request_ with control_text_
          control_response      \* control_response_

mailboxVars == <<command, control_state, next_control_token, control_token,
                 control_request, control_response>>

controlVars == <<control_state, next_control_token, control_token,
                 control_request, control_response>>

-----------------------------------------------------------------------------
(* Request, response and payload values.  A request is told apart by its   *)
(* operation and by a number (id) the program does not have: it lets the   *)
(* properties say which request a response answers although tokens wrap.   *)

Commands == {"None", "SystemReboot"}
ControlStates == {"Empty", "Posted", "Running", "Abandoned", "Complete"}

Operations == {"State", "Memory", "Screenshot", "Audio"}
Requests == [op : Operations \cup {"None"}, id : Nat]
NoRequest == [op |-> "None", id |-> 0]

\* A BmxBinaryPayload: nothing, a malloc'ed block or the screenshot buffer.
Payloads == [kind : {"none", "heap", "shot"}, id : Nat]
NoPayload == [kind |-> "none", id |-> 0]

Responses == [id : Nat, binary : Payloads]
NoResponse == [id |-> 0, binary |-> NoPayload]

-----------------------------------------------------------------------------

MailboxInit ==
  /\ command = "None"
  /\ control_state = "Empty"
  /\ next_control_token = 0
  /\ control_token = 0
  /\ control_request = NoRequest
  /\ control_response = NoResponse

ResetControlLocked ==
  /\ control_request' = NoRequest
  /\ control_response' = NoResponse
  /\ control_token' = 0
  /\ control_state' = "Empty"
  /\ UNCHANGED next_control_token

\* Both cells must be free before either accepts something.
Accepting == command = "None" /\ control_state = "Empty"

Post(c) ==
  /\ command' = IF Accepting THEN c ELSE command
  /\ UNCHANGED controlVars

Take ==
  /\ command' = "None"
  /\ UNCHANGED controlVars

\* A 32-bit increment that skips 0, the "no token" value.
NextToken(t) == IF t < TokenLimit THEN t + 1 ELSE 1

PostControl(request) ==
  /\ Accepting
  /\ next_control_token' = NextToken(next_control_token)
  /\ control_token' = NextToken(next_control_token)
  /\ control_request' = request
  /\ control_response' = NoResponse
  /\ control_state' = "Posted"
  /\ UNCHANGED command

TakeControl ==
  /\ control_state = "Posted"
  /\ control_state' = "Running"
  /\ UNCHANGED <<command, next_control_token, control_token, control_request,
                 control_response>>

\* The value CompleteControl returns: the response was stored.
CompleteAccepted(token) ==
  control_state = "Running" /\ control_token = token

\* Mutant: a late completion of an abandoned request is only dropped.
CompleteControlKeepsAbandoned(token, response) ==
  /\ UNCHANGED command
  /\ \/ /\ CompleteAccepted(token)
        /\ control_response' = response
        /\ control_state' = "Complete"
        /\ UNCHANGED <<next_control_token, control_token, control_request>>
     \/ /\ ~CompleteAccepted(token)
        /\ UNCHANGED controlVars

CompleteControl(token, response) ==
  /\ UNCHANGED command
  /\ \/ /\ CompleteAccepted(token)
        /\ control_response' = response
        /\ control_state' = "Complete"
        /\ UNCHANGED <<next_control_token, control_token, control_request>>
     \/ /\ control_state = "Abandoned" /\ control_token = token
        /\ ResetControlLocked
     \/ /\ ~CompleteAccepted(token)
        /\ ~(control_state = "Abandoned" /\ control_token = token)
        /\ UNCHANGED controlVars

\* Mutant: a request counts as answered once it has been taken.
PollStatusTakenIsDone(token) ==
  CASE control_state = "Empty" \/ control_token # token -> "Missing"
    [] control_state # "Posted" /\ control_token = token -> "Complete"
    [] OTHER -> "Pending"

\* ControlPollStatus as PollControl computes it.
PollStatus(token) ==
  CASE control_state = "Empty" \/ control_token # token -> "Missing"
    [] control_state = "Complete" /\ control_token = token -> "Complete"
    [] OTHER -> "Pending"

PollControl(token) ==
  /\ UNCHANGED command
  /\ IF PollStatus(token) = "Complete" THEN ResetControlLocked
                                       ELSE UNCHANGED controlVars

\* The payload CancelControl hands back to the caller that gave up.
CancelledPayload(token) ==
  IF control_state = "Complete" /\ control_token = token
  THEN control_response.binary ELSE NoPayload

\* Mutant: withdrawing a running request frees the cell at once.
CancelControlFreesRunning(token) ==
  /\ UNCHANGED command
  /\ IF control_state # "Empty" /\ control_token = token
     THEN ResetControlLocked ELSE UNCHANGED controlVars

CancelControl(token) ==
  /\ UNCHANGED command
  /\ \/ /\ control_state = "Running" /\ control_token = token
        /\ control_state' = "Abandoned"
        /\ UNCHANGED <<next_control_token, control_token, control_request,
                       control_response>>
     \/ /\ control_state \in {"Posted", "Complete"} /\ control_token = token
        /\ ResetControlLocked
     \/ /\ control_state \in {"Empty", "Abandoned"} \/ control_token # token
        /\ UNCHANGED controlVars

MailboxTypeOK ==
  /\ command \in Commands
  /\ control_state \in ControlStates
  /\ next_control_token \in 0 .. TokenLimit
  /\ control_token \in 0 .. TokenLimit
  /\ control_request \in Requests
  /\ control_response \in Responses
=============================================================================
