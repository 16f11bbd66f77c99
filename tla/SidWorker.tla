------------------------------ MODULE SidWorker ------------------------------
(***************************************************************************)
(* sidworker.cpp: the second SID of a stereo machine is calculated on core *)
(* 2 while core 1 calculates the first.  One job, two semaphores and a     *)
(* busy flag; core 1 submits and later waits (sid.c).  The header asks     *)
(* that every submit be paired with a wait; the model lets core 1 call     *)
(* both in any order, as the functions guard themselves.  The semaphores   *)
(* (semaphore.c) sleep in WFE while they are 0, and send an event when     *)
(* they become 1.                                                          *)
(***************************************************************************)
EXTENDS Naturals, CoreEvents

CONSTANT
  SidJobs           \* calculate, sid, buffer, frames ... of one submit

NoJob == "none"
ASSUME SidJobsAssumption == NoJob \notin SidJobs

VARIABLES
  g_ready,
  g_busy,
  g_job,            \* the job's arguments and its result
  g_request,        \* semaphore
  g_done,           \* semaphore
  core1,            \* where core 1 is in submit or wait
  core2,            \* where core 2 is in bmx_sid_worker_run
  job,              \* core 1: the arguments of the submit it is in
  working,          \* core 2: the arguments its calculation started with
  outstanding,      \* history: the job accepted and not waited for
  collected         \* history: the result core 1 got last

sidVars == <<g_ready, g_busy, g_job, g_request, g_done, core1, core2, job, working,
             outstanding, collected>>

MaybeJobs == SidJobs \cup {NoJob}

SidTypeOK ==
  /\ g_ready \in BOOLEAN /\ g_busy \in BOOLEAN
  /\ g_job \in [args : MaybeJobs, result : MaybeJobs]
  /\ g_request \in 0..1 /\ g_done \in 0..1
  /\ core1 \in {"Mix", "Fill", "Post", "WaitDone", "WaitEvent", "Collect", "Release"}
  /\ core2 \in {"Start", "Wait", "Event", "Calculate", "Store", "Done"}
  /\ job \in MaybeJobs /\ working \in MaybeJobs
  /\ outstanding \in MaybeJobs /\ collected \in MaybeJobs

SidInit ==
  /\ g_ready = FALSE /\ g_busy = FALSE
  /\ g_job = [args |-> NoJob, result |-> NoJob]
  /\ g_request = 0 /\ g_done = 0
  /\ core1 = "Mix" /\ core2 = "Start"
  /\ job = NoJob /\ working = NoJob /\ outstanding = NoJob /\ collected = NoJob

\* sem_dec finds the semaphore positive, or goes to sleep; sem_inc.
sem_dec(value, value1) == value > 0 /\ value1 = value - 1 /\ UNCHANGED event
sem_sleeps(value) == value = 0 /\ UNCHANGED event

\* Mutant: an increment nobody hears of.
sem_inc_silent(value, value1) == value1 = value + 1 /\ UNCHANGED event

sem_inc(value, value1) ==
  /\ value1 = value + 1
  /\ IF value = 0 THEN SEV ELSE UNCHANGED event

---------------------------------------------------------------------------
(* Core 1.                                                                  *)

\* Mutant: a second job is accepted while one is outstanding.
MayExchangeAnyway == TRUE

\* The exchange of g_busy finds 0.
MayExchange == ~g_busy

\* bmx_sid_worker_submit: refused before the worker runs or while it is busy; the
\* mixer then calculates both SIDs itself.
SubmitRefused ==
  /\ core1 = "Mix"
  /\ ~g_ready \/ ~MayExchange
  /\ UNCHANGED <<event, sidVars>>

Submit(j) ==
  /\ core1 = "Mix"
  /\ g_ready /\ MayExchange
  /\ g_busy' = TRUE
  /\ job' = j
  /\ core1' = "Fill"
  /\ UNCHANGED <<event, g_ready, g_job, g_request, g_done, core2, working, outstanding, collected>>

SubmitFill ==
  /\ core1 = "Fill"
  /\ g_job' = [args |-> job, result |-> NoJob]
  /\ core1' = "Post"
  /\ UNCHANGED <<event, g_ready, g_busy, g_request, g_done, core2, job, working, outstanding, collected>>

SubmitPost ==
  /\ core1 = "Post"
  /\ sem_inc(g_request, g_request')
  /\ outstanding' = job
  /\ job' = NoJob
  /\ core1' = "Mix"
  /\ UNCHANGED <<g_ready, g_busy, g_job, g_done, core2, working, collected>>

\* bmx_sid_worker_wait: without a job there is nothing to wait for.
Wait ==
  /\ core1 = "Mix"
  /\ g_busy
  /\ core1' = "WaitDone"
  /\ UNCHANGED <<event, g_ready, g_busy, g_job, g_request, g_done, core2, job, working,
                 outstanding, collected>>

WaitDone ==
  /\ core1 = "WaitDone"
  /\ sem_dec(g_done, g_done')
  /\ core1' = "Collect"
  /\ UNCHANGED <<g_ready, g_busy, g_job, g_request, core2, job, working, outstanding, collected>>

WaitSleeps ==
  /\ core1 = "WaitDone"
  /\ sem_sleeps(g_done)
  /\ core1' = "WaitEvent"
  /\ UNCHANGED <<g_ready, g_busy, g_job, g_request, g_done, core2, job, working,
                 outstanding, collected>>

WaitWakes ==
  /\ core1 = "WaitEvent"
  /\ WFE("core1")
  /\ core1' = "WaitDone"
  /\ UNCHANGED <<g_ready, g_busy, g_job, g_request, g_done, core2, job, working,
                 outstanding, collected>>

Collect ==
  /\ core1 = "Collect"
  /\ collected' = g_job.result
  /\ core1' = "Release"
  /\ UNCHANGED <<event, g_ready, g_busy, g_job, g_request, g_done, core2, job, working, outstanding>>

WaitRelease ==
  /\ core1 = "Release"
  /\ g_busy' = FALSE
  /\ outstanding' = NoJob /\ collected' = NoJob
  /\ core1' = "Mix"
  /\ UNCHANGED <<event, g_ready, g_job, g_request, g_done, core2, job, working>>

---------------------------------------------------------------------------
(* Core 2: bmx_sid_worker_run.                                              *)

WorkerReady ==
  /\ core2 = "Start"
  /\ g_ready' = TRUE
  /\ core2' = "Wait"
  /\ UNCHANGED <<event, g_busy, g_job, g_request, g_done, core1, job, working, outstanding, collected>>

WorkerTakes ==
  /\ core2 = "Wait"
  /\ sem_dec(g_request, g_request')
  /\ core2' = "Calculate"
  /\ UNCHANGED <<g_ready, g_busy, g_job, g_done, core1, job, working, outstanding, collected>>

WorkerSleeps ==
  /\ core2 = "Wait"
  /\ sem_sleeps(g_request)
  /\ core2' = "Event"
  /\ UNCHANGED <<g_ready, g_busy, g_job, g_request, g_done, core1, job, working,
                 outstanding, collected>>

WorkerWakes ==
  /\ core2 = "Event"
  /\ WFE("core2")
  /\ core2' = "Wait"
  /\ UNCHANGED <<g_ready, g_busy, g_job, g_request, g_done, core1, job, working,
                 outstanding, collected>>

\* calculate reads its arguments ...
WorkerCalculates ==
  /\ core2 = "Calculate"
  /\ working' = g_job.args
  /\ core2' = "Store"
  /\ UNCHANGED <<event, g_ready, g_busy, g_job, g_request, g_done, core1, job, outstanding, collected>>

\* ... and returns: the result is named after the arguments it was made from.
WorkerStores ==
  /\ core2 = "Store"
  /\ g_job' = [g_job EXCEPT !.result = working]
  /\ working' = NoJob
  /\ core2' = "Done"
  /\ UNCHANGED <<event, g_ready, g_busy, g_request, g_done, core1, job, outstanding, collected>>

WorkerDone ==
  /\ core2 = "Done"
  /\ sem_inc(g_done, g_done')
  /\ core2' = "Wait"
  /\ UNCHANGED <<g_ready, g_busy, g_job, g_request, core1, job, working, outstanding, collected>>

Core1Mixes ==
  \/ SubmitFill \/ SubmitPost
  \/ WaitDone \/ WaitSleeps \/ WaitWakes \/ Collect \/ WaitRelease
SidWorkerRun ==
  \/ WorkerReady \/ WorkerTakes \/ WorkerSleeps \/ WorkerWakes
  \/ WorkerCalculates \/ WorkerStores \/ WorkerDone

SidNext ==
  \/ (\E j \in SidJobs : Submit(j)) \/ SubmitRefused \/ Wait
  \/ Core1Mixes \/ SidWorkerRun

\* The worker with any other events around it.
SidSpec ==
  /\ SidInit /\ EventInit
  /\ [][SidNext \/ (SEV /\ UNCHANGED sidVars)]_<<sidVars, event>>

---------------------------------------------------------------------------
(* Properties.                                                              *)

\* While core 2 has the job, from the request to the done semaphore, nobody
\* writes its arguments: they are those core 1 posted.
JobStable ==
  (g_request > 0 \/ core2 \in {"Calculate", "Store"})
    => /\ g_job.args = outstanding
       /\ core2 = "Store" => working = outstanding

\* A wait returns the result of the job whose submit was accepted last, complete.
ResultIsOwn == (core1 = "Release") => collected = outstanding /\ outstanding # NoJob

\* The accepted job is in exactly one place, so a semaphore is never left one off
\* for the jobs after it.
InRequest == g_request = 1
InWorker == core2 \in {"Calculate", "Store", "Done"}
InDone == g_done = 1
InWait == core1 \in {"Collect", "Release"}
OneJobInFlight ==
  LET places == {p \in 1..4 : <<InRequest, InWorker, InDone, InWait>>[p]}
  IN  /\ places = {} <=> (outstanding = NoJob)
      /\ \A p, q \in places : p = q

\* The SID job between core 1 and core 2 has one owner at any time.
SidJobOwned == SidTypeOK /\ JobStable /\ ResultIsOwn /\ OneJobInFlight

\* Core 1 does not stay in a wait.
WaitReturns == (core1 \in {"WaitDone", "WaitEvent"}) ~> (core1 = "Mix")
=============================================================================
