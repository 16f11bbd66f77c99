----------------------------- MODULE RemoteCall -----------------------------
(***************************************************************************)
(* What a call that one core makes on another promises: it is carried out  *)
(* once, with the arguments of this call, and the caller leaves it with    *)
(* its result.  Core0Mailbox implements it.                                *)
(***************************************************************************)
CONSTANTS CallArgs, NoCallArg

VARIABLES
  calling,      \* the arguments of the call in progress, or NoCallArg
  done,         \* it has been carried out
  returned      \* the result the last call has left with

callVars == <<calling, done, returned>>

CallInit == calling = NoCallArg /\ done = FALSE /\ returned = NoCallArg

Call(a) ==
  /\ calling = NoCallArg
  /\ calling' = a
  /\ UNCHANGED <<done, returned>>

\* The work; its result is named after the arguments it belongs to.
Execute ==
  /\ calling # NoCallArg /\ ~done
  /\ done' = TRUE
  /\ UNCHANGED <<calling, returned>>

ReturnFromCall ==
  /\ done
  /\ calling' = NoCallArg /\ done' = FALSE
  /\ returned' = calling

CallNext == (\E a \in CallArgs : Call(a)) \/ Execute \/ ReturnFromCall

RemoteCallSpec == CallInit /\ [][CallNext]_callVars
=============================================================================
