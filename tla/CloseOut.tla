------------------------------ MODULE CloseOut -------------------------------
(***************************************************************************)
(* What the home side promises of a job with a terminal object: a review   *)
(* branch that is made once, a result that is reported with one status     *)
(* however often, and with no commit but the branch's, and evidence that   *)
(* goes last.  PatchLanding is how _reconcile_one and PatchLander.land     *)
(* come to that, with git, a flock and several processes on several hosts. *)
(***************************************************************************)
CONSTANTS
  Sha,      \* the commits that can be made of the patch
  None,     \* no commit, no branch
  Status    \* the final statuses of a job

VARIABLES
  branch,   \* hive/node-<jobid> on the remote
  status,   \* the job's status on the bus
  commit,   \* the commit that its result there names
  open      \* whether terminal/<uuid> is in the bucket

closeVars == <<branch, status, commit, open>>

CloseInit == branch = None /\ status = "running" /\ commit = None /\ open = TRUE

\* The branch is pushed, by whichever reconciler wins.
Land ==
  /\ branch = None
  /\ branch' \in Sha
  /\ UNCHANGED <<status, commit, open>>

\* A PATCH is accepted, of a job that was landed or of one that was not.
Tell(s) ==
  /\ status \in {"running", s}
  /\ status' = s
  /\ commit' \in {None, branch}
  /\ UNCHANGED <<branch, open>>

\* The terminal object is purged.
Close ==
  /\ status # "running"
  /\ open' = FALSE
  /\ UNCHANGED <<branch, status, commit>>

CloseNext == Land \/ (\E s \in Status : Tell(s)) \/ Close

CloseSpec == CloseInit /\ [][CloseNext]_closeVars
==============================================================================
