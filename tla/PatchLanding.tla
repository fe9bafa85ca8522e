---------------------------- MODULE PatchLanding -----------------------------
(***************************************************************************)
(* Closing one job out: _reconcile_one and the PatchLander it calls, run   *)
(* by several reconcilers on one or several home hosts.                    *)
(*                                                                         *)
(* A terminal payload with a patch under review is landed as the branch    *)
(* hive/node-<jobid> before the hive is told; a patch that cannot be       *)
(* landed is kept in the result and in the host's orphan directory.  The   *)
(* cached clone of the repository and its flock are per host; the remote   *)
(* repository, the terminal object and the hive are shared.                *)
(***************************************************************************)
EXTENDS Naturals

CONSTANTS
  Reconciler,  \* the reconciler processes
  Host,        \* the home hosts, each with a lander cache directory
  On,          \* [Reconciler -> Host]
  Sha,         \* the commits that `git am` of the patch can make
  None         \* no commit, no branch, nobody

ASSUME HostAssumption == On \in [Reconciler -> Host]
ASSUME ShaAssumption == None \notin Sha /\ None \notin Reconciler /\ "base" \notin Sha

VARIABLES
  payload,   \* the terminal payload: its status (needs-review also by its flag),
             \* whether it holds a patch, and one that exceeds MAX_RESULT_BYTES
  legacy,    \* whether this hive rejects the status needs-review
  terminal,  \* whether terminal/<uuid> is in the bucket
  branch,    \* hive/node-<jobid> on the remote
  lock,      \* per host: who holds the repository's flock
  head,      \* per host: what the cached clone's HEAD is
  orphan,    \* per host: the job's file in orphans/
  hive,      \* the job's record on the bus
  pc,        \* program counter of a reconciler
  sha,       \* the commit it is about to push or to report
  saved      \* whether save_orphan_patch returned a path

shared == <<terminal, branch, lock, head, orphan, hive>>
local == <<sha, saved>>
given == <<payload, legacy>>
vars == <<given, shared, pc, local>>

Payload ==
  [status : {"done", "failed", "needs-review"}, patch : BOOLEAN, big : BOOLEAN]

\* The steps that run under the repository's flock.
Landing == {"probe", "prepare", "apply", "push", "reprobe"}

TypeOK ==
  /\ payload \in Payload
  /\ legacy \in BOOLEAN
  /\ terminal \in BOOLEAN
  /\ branch \in Sha \cup {None}
  /\ lock \in [Host -> Reconciler \cup {None}]
  /\ head \in [Host -> Sha \cup {"base", "other"}]
  /\ orphan \in [Host -> {"absent", "empty", "full"}]
  /\ hive \in [status : {"running", "done", "failed", "needs-review"},
               sha : Sha \cup {None}, patch : BOOLEAN, saved : BOOLEAN]
  /\ pc \in [Reconciler -> {"idle", "lock", "save", "write", "report", "fallback", "purge"}
                             \cup Landing]
  /\ sha \in [Reconciler -> Sha \cup {None}]
  /\ saved \in [Reconciler -> BOOLEAN]

\* needs_review of the result.
Review == payload.status = "needs-review"

Init ==
  /\ payload \in {p \in Payload : (p.patch => p.status = "needs-review") /\ (p.big => p.patch)}
  /\ legacy \in BOOLEAN
  /\ terminal = TRUE
  /\ branch = None
  /\ lock = [h \in Host |-> None]
  /\ head = [h \in Host |-> "other"]
  /\ orphan = [h \in Host |-> "absent"]
  /\ hive = [status |-> "running", sha |-> None, patch |-> FALSE, saved |-> FALSE]
  /\ pc = [r \in Reconciler |-> "idle"]
  /\ sha = [r \in Reconciler |-> None]
  /\ saved = [r \in Reconciler |-> FALSE]

-------------------------------------------------------------------------------
Goto(r, label) == pc' = [pc EXCEPT ![r] = label]

Unlock(r) == lock' = [lock EXCEPT ![On[r]] = None]

\* The sweep opens the terminal object and branches on what it holds.
Open(r) ==
  /\ pc[r] = "idle" /\ terminal
  /\ Goto(r, IF Review /\ payload.patch THEN "lock" ELSE "report")
  /\ sha' = [sha EXCEPT ![r] = None]
  /\ saved' = [saved EXCEPT ![r] = FALSE]
  /\ UNCHANGED <<given, shared>>

\* land()'s checks of the payload and of the host's credentials refuse it.
LandRefused(r) ==
  /\ pc[r] = "lock"
  /\ Goto(r, "save")
  /\ UNCHANGED <<given, shared, local>>

\* Mutant: the flock is not waited for.
EnterUnlocked(r) ==
  /\ pc[r] = "lock"
  /\ lock' = [lock EXCEPT ![On[r]] = r]
  /\ Goto(r, "probe")
  /\ UNCHANGED <<given, terminal, branch, head, orphan, hive, local>>

TakeLock(r) ==
  /\ pc[r] = "lock" /\ lock[On[r]] = None
  /\ lock' = [lock EXCEPT ![On[r]] = r]
  /\ Goto(r, "probe")
  /\ UNCHANGED <<given, terminal, branch, head, orphan, hive, local>>

\* ls-remote finds the branch of an earlier landing, before or after a push of
\* ours was refused: that landing is reported.
BranchFound(r) ==
  /\ pc[r] \in {"probe", "reprobe"} /\ branch # None
  /\ sha' = [sha EXCEPT ![r] = branch]
  /\ Unlock(r)
  /\ Goto(r, "report")
  /\ UNCHANGED <<given, terminal, branch, head, orphan, hive, saved>>

BranchAbsent(r) ==
  /\ pc[r] = "probe" /\ branch = None
  /\ Goto(r, "prepare")
  /\ UNCHANGED <<given, shared, local>>

\* Mutant: the clone is used as the last landing left it.
KeepWorktree(r) ==
  /\ pc[r] = "prepare"
  /\ Goto(r, "apply")
  /\ UNCHANGED <<given, shared, local>>

\* Clone or fetch, then put the clone back on the default branch.
Prepare(r) ==
  /\ pc[r] = "prepare"
  /\ head' = [head EXCEPT ![On[r]] = "base"]
  /\ Goto(r, "apply")
  /\ UNCHANGED <<given, terminal, branch, lock, orphan, hive, local>>

\* git am commits the patch on HEAD (a HEAD that has it already stays), and
\* rev-parse names the commit.
Apply(r) ==
  /\ pc[r] = "apply"
  /\ \E s \in IF head[On[r]] = "base" THEN Sha ELSE {head[On[r]]} :
       /\ head' = [head EXCEPT ![On[r]] = s]
       /\ sha' = [sha EXCEPT ![r] = s]
  /\ Goto(r, "push")
  /\ UNCHANGED <<given, terminal, branch, lock, orphan, hive, saved>>

\* Mutant: a forced push.
ForcePush(r) ==
  /\ pc[r] = "push"
  /\ branch' = head[On[r]]
  /\ Unlock(r)
  /\ Goto(r, "report")
  /\ UNCHANGED <<given, terminal, head, orphan, hive, local>>

\* The clone's HEAD becomes the branch, unless the branch is another commit.
Push(r) ==
  /\ pc[r] = "push" /\ branch \in {None, head[On[r]]}
  /\ branch' = head[On[r]]
  /\ Unlock(r)
  /\ Goto(r, "report")
  /\ UNCHANGED <<given, terminal, head, orphan, hive, local>>

\* The push took effect, but git reported a failure, or timed out.
PushUnconfirmed(r) ==
  /\ pc[r] = "push" /\ branch \in {None, head[On[r]]}
  /\ branch' = head[On[r]]
  /\ \/ Goto(r, "reprobe") /\ UNCHANGED lock
     \/ Goto(r, "idle") /\ Unlock(r)
  /\ UNCHANGED <<given, terminal, head, orphan, hive, local>>

\* The push is refused because the branch exists, or fails.
PushRefused(r) ==
  /\ pc[r] = "push"
  /\ Goto(r, "reprobe")
  /\ UNCHANGED <<given, shared, local>>

\* Mutant: a failed git command leaves the flock held.
FailLocked(r) ==
  /\ pc[r] \in Landing
  /\ Goto(r, "idle")
  /\ UNCHANGED <<given, shared, local>>

\* A git command fails under the lock; the message it prints decides whether
\* the job is left for the next sweep or closed out with its patch preserved.
\* After a refused push this is what an absent branch means; a push that times
\* out is always left for the next sweep.
LandFailed(r) ==
  /\ pc[r] \in Landing
  /\ Unlock(r)
  /\ Goto(r, "idle") \/ (pc[r] # "push" /\ Goto(r, "save"))
  /\ head' \in {head, [head EXCEPT ![On[r]] = "other"]}
  /\ UNCHANGED <<given, terminal, branch, orphan, hive, local>>

-------------------------------------------------------------------------------
(* save_orphan_patch and what follows it                                   *)

\* Opening the file truncates an earlier copy of it.
SaveOpen(r) ==
  /\ pc[r] = "save"
  /\ orphan' = [orphan EXCEPT ![On[r]] = "empty"]
  /\ Goto(r, "write")
  /\ UNCHANGED <<given, terminal, branch, lock, head, hive, local>>

SaveWrite(r) ==
  /\ pc[r] = "write"
  /\ orphan' = [orphan EXCEPT ![On[r]] = "full"]
  /\ saved' = [saved EXCEPT ![r] = TRUE]
  /\ sha' = [sha EXCEPT ![r] = None]
  /\ Goto(r, "report")
  /\ UNCHANGED <<given, terminal, branch, lock, head, hive>>

\* Mutant: a failed save is closed out whatever the size of the patch.
CloseUnsaved(r) ==
  /\ pc[r] \in {"save", "write"}
  /\ sha' = [sha EXCEPT ![r] = None]
  /\ Goto(r, "report")
  /\ UNCHANGED <<given, shared, saved>>

\* Without a copy on disk the job is only closed out if the result holds one.
SaveFailed(r) ==
  /\ pc[r] \in {"save", "write"}
  /\ sha' = [sha EXCEPT ![r] = None]
  /\ Goto(r, IF payload.big THEN "idle" ELSE "report")
  /\ UNCHANGED <<given, shared, saved>>

-------------------------------------------------------------------------------
(* The PATCH and the purge                                                 *)

\* The job's record after a PATCH: _shrink_result drops a patch that is too big.
Result(r, status) ==
  [status |-> status, sha |-> sha[r],
   patch |-> status # "failed" /\ payload.patch /\ ~payload.big,
   saved |-> saved[r]]

\* The hive accepts the PATCH; its answer may be lost.
Accept(r, status) ==
  /\ hive' = Result(r, status)
  /\ Goto(r, "purge") \/ Goto(r, "idle")
  /\ UNCHANGED <<given, terminal, branch, lock, head, orphan, local>>

PatchTerminal(r) ==
  /\ pc[r] = "report" /\ ~Review
  /\ Accept(r, payload.status)

PatchReview(r) ==
  /\ pc[r] = "report" /\ Review /\ ~legacy
  /\ Accept(r, "needs-review")

\* 400 or 422: this hive does not know the status.
ReviewRejected(r) ==
  /\ pc[r] = "report" /\ Review /\ legacy
  /\ Goto(r, "fallback")
  /\ UNCHANGED <<given, shared, local>>

PatchFallback(r) ==
  /\ pc[r] = "fallback"
  /\ Accept(r, "done")

\* Mutant: any failure of the first PATCH falls back to done.
FallBackAlways(r) ==
  /\ pc[r] \in {"report", "fallback"}
  /\ Goto(r, "fallback")
  /\ UNCHANGED <<given, shared, local>>

\* Mutant: an unanswered PATCH counts as accepted.
PurgeUnanswered(r) ==
  /\ pc[r] \in {"report", "fallback"}
  /\ Goto(r, "purge")
  /\ UNCHANGED <<given, shared, local>>

\* Any other answer, or none: the bucket objects stay for the next sweep.
PatchFailed(r) ==
  /\ pc[r] \in {"report", "fallback"}
  /\ Goto(r, "idle")
  /\ UNCHANGED <<given, shared, local>>

Purge(r) ==
  /\ pc[r] = "purge"
  /\ terminal' = FALSE
  /\ Goto(r, "idle")
  /\ UNCHANGED <<given, branch, lock, head, orphan, hive, local>>

\* The process dies: the kernel drops its flock, and the clone is left as it is
\* in the middle of a git command.
Crash(r) ==
  /\ pc[r] # "idle"
  /\ Goto(r, "idle")
  /\ IF pc[r] \in Landing
     THEN Unlock(r) /\ head' \in {head, [head EXCEPT ![On[r]] = "other"]}
     ELSE UNCHANGED <<lock, head>>
  /\ UNCHANGED <<given, terminal, branch, orphan, hive, local>>

-------------------------------------------------------------------------------
Land(r) ==
  \/ LandRefused(r) \/ TakeLock(r) \/ BranchFound(r) \/ BranchAbsent(r)
  \/ Prepare(r) \/ Apply(r) \/ Push(r) \/ PushUnconfirmed(r) \/ PushRefused(r)
  \/ LandFailed(r)

Save(r) == SaveOpen(r) \/ SaveWrite(r) \/ SaveFailed(r)

Report(r) ==
  \/ PatchTerminal(r) \/ PatchReview(r) \/ ReviewRejected(r) \/ PatchFallback(r)
  \/ PatchFailed(r) \/ Purge(r)

Next == \E r \in Reconciler : Open(r) \/ Land(r) \/ Save(r) \/ Report(r) \/ Crash(r)

Spec == Init /\ [][Next]_vars

\* The loops sweep for ever (a crashed service is started again), and what they
\* retry without end succeeds at last: the flock, git, the disk and the hive.
Acknowledged(r) ==
  /\ PatchTerminal(r) \/ PatchReview(r) \/ PatchFallback(r)
  /\ pc'[r] = "purge"

Fairness ==
  \A r \in Reconciler :
    /\ WF_vars(Land(r) \/ Save(r) \/ Report(r))
    /\ SF_vars(Open(r)) /\ SF_vars(TakeLock(r))
    /\ SF_vars(BranchFound(r)) /\ SF_vars(BranchAbsent(r))
    /\ SF_vars(Prepare(r)) /\ SF_vars(Apply(r)) /\ SF_vars(Push(r))
    /\ SF_vars(SaveOpen(r)) /\ SF_vars(SaveWrite(r))
    /\ SF_vars(ReviewRejected(r)) /\ SF_vars(Acknowledged(r)) /\ SF_vars(Purge(r))

FairSpec == Spec /\ Fairness

-------------------------------------------------------------------------------
(* Properties                                                              *)

\* "Close out, but never lose the patch": once the bucket's copy of a patch under
\* review is gone and no reconciler is at work on the job (crashed ones are not),
\* the patch is on the remote, in a host's orphan directory, or in the hive's
\* result.
PatchNeverLost ==
  payload.patch /\ ~terminal /\ (\A r \in Reconciler : pc[r] = "idle") =>
    \/ branch \in Sha
    \/ \E h \in Host : orphan[h] = "full"
    \/ hive.patch

\* A landed commit that the hive was told of is the head of the review branch on
\* the canonical remote, whichever reconciler won the push.
ReportedCommitLanded == hive.sha # None => branch = hive.sha

\* A job under review is closed as done only on a bus that rejects the status.
ReviewStaysReview == Review /\ hive.status = "done" => legacy

\* The branch is one landing: no second reconciler or retry moves it.
BranchStands == [][branch # None => branch' = branch]_vars

\* However many reconcilers race, retry and crash, the job is closed out as one
\* would do it: its branch made once, one status, and no purge before a report.
Closing == INSTANCE CloseOut WITH
  status <- hive.status, commit <- hive.sha, open <- terminal,
  Status <- {"done", "failed", "needs-review"}
ClosesOut == Closing!CloseSpec

\* Under fairness every terminal object is closed out and purged.
ClosedOut == terminal ~> ~terminal
===============================================================================
