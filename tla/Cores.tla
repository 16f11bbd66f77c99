-------------------------------- MODULE Cores --------------------------------
(***************************************************************************)
(* The three cores together: core 1 calls core 0 through Core0Mailbox,     *)
(* hands SID jobs to core 2 through sidworker.cpp, and is in at most one   *)
(* of the two at a time; an accepted SID job may be calculated while core  *)
(* 1 waits for core 0.  All of them wake each other with the same events,  *)
(* so that a WFE may also return for an event that was meant for another   *)
(* wait, and an event may be consumed before the wait it was sent for.     *)
(***************************************************************************)
EXTENDS Core0Mailbox, SidWorker

coresVars == <<core0Vars, sidVars, event>>

CoresInit == Core0Init /\ SidInit /\ EventInit

\* Core 1 begins something, when it chooses to ...
Core1Begins ==
  /\ caller = "Running" /\ core1 = "Mix"
  /\ \/ (\E r \in Core0Requests : Request(r)) /\ UNCHANGED sidVars
     \/ (\E j \in SidJobs : Submit(j)) /\ UNCHANGED core0Vars
     \/ SubmitRefused /\ UNCHANGED core0Vars
     \/ Wait /\ UNCHANGED core0Vars

\* ... and goes on with it.
Core1Goes ==
  \/ Waiting /\ UNCHANGED sidVars
  \/ Core1Mixes /\ UNCHANGED core0Vars

Core0Goes == Core0Loop /\ UNCHANGED sidVars
Core2Goes == SidWorkerRun /\ UNCHANGED core0Vars

CoresNext == Core1Begins \/ Core1Goes \/ Core0Goes \/ Core2Goes

\* Every core executes its instructions.
CoresFairness ==
  WF_coresVars(Core1Goes) /\ WF_coresVars(Core0Goes) /\ WF_coresVars(Core2Goes)

CoresSpec == CoresInit /\ [][CoresNext]_coresVars /\ CoresFairness

\* RequestAndWait, bmx_sid_worker_wait: core 1 comes back from both of its
\* waits, although each of them may consume an event that was sent for the other.
CoresReturn == CallReturns /\ WaitReturns
=============================================================================
