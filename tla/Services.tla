------------------------------ MODULE Services ------------------------------
(***************************************************************************)
(* The services a program or a user asks and waits for: an upload, the     *)
(* files of the C library, the developer log and the network jobs of the   *)
(* menu.  They share no state and do not call each other; like HandOffs    *)
(* this module is their sum.                                               *)
(***************************************************************************)
EXTENDS FileTransaction, StdioFiles, DeveloperLog, NetworkJobs

VARIABLE part      \* the component that moves

servicesVars == <<part, vars, stdioVars, logVars, jobsVars>>

ServicesInit ==
  /\ part \in {"upload", "stdio", "log", "jobs"}
  /\ Init /\ StdioInit /\ LogInit /\ JobsInit
  /\ part # "stdio" => disk = <<>>                  \* one state is enough
  /\ part # "upload" => fs["target"] = Missing

\* A step of one component.
UploadPart(A) == part = "upload" /\ A /\ UNCHANGED <<part, stdioVars, logVars, jobsVars>>
StdioPart(A) == part = "stdio" /\ A /\ UNCHANGED <<part, vars, logVars, jobsVars>>
LogPart(A) == part = "log" /\ A /\ UNCHANGED <<part, vars, stdioVars, jobsVars>>
JobsPart(A) == part = "jobs" /\ A /\ UNCHANGED <<part, vars, stdioVars, logVars>>

ServicesNext ==
  \/ UploadPart(Next) \/ StdioPart(StdioNext) \/ LogPart(LogNext) \/ JobsPart(JobsNext)

\* The fairness of each component: the server reads every log stream on, the
\* network worker and the loop of each caller keep running.
ServicesFairness ==
  /\ \A s \in StreamSlots : WF_servicesVars(LogPart(StreamRead(s)))
  /\ WF_servicesVars(JobsPart(Worker))
  /\ \A c \in Callers : WF_servicesVars(JobsPart(PollLoop(c)))

ServicesSpec == ServicesInit /\ [][ServicesNext]_servicesVars /\ ServicesFairness
=============================================================================
