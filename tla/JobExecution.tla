------------------------------ MODULE JobExecution ------------------------------
(***************************************************************************)
(* A job from the enqueuer's judgement to the end of its execution: the    *)
(* payload that JobBuild seals is the one that JobRun executes.  Jobs come *)
(* one after the other; the executors live on.                             *)
(***************************************************************************)
EXTENDS JobBuild, JobRun

vars == <<buildVars, runVars>>

TypeOK == BuildTypeOK /\ RunTypeOK

Init == BuildInit /\ RunInit

\* The next job comes when the one before it has ended.
Claim == run = "idle" /\ ClaimJob /\ UNCHANGED runVars
Build == BuildStep /\ UNCHANGED runVars

\* The node receives the payload and looks for the repository with its own
\* allowlist; the enqueuer is done with the job.
Deliver ==
  /\ build = "built"
  /\ Receive(route.kind \in Chat, RepoUrlForJob(Payload(route), NodeAliases) # None)
  /\ ForgetJob

Run == RunStep /\ UNCHANGED buildVars

Next == Claim \/ Build \/ Deliver \/ Run

Spec == Init /\ [][Next]_vars

\* Every request and every subprocess has a timeout.
FairSpec == Spec /\ WF_vars(Build \/ Deliver \/ Run)

\* A claimed job is given up or executed to an end, however often the model's
\* replies are rejected and its backends fail (_execute).
JobEnds ==
  /\ build # "idle" ~> build = "idle"
  /\ run # "idle" ~> run = "idle"
================================================================================
