--------------------------------- MODULE JobRun ---------------------------------
(***************************************************************************)
(* The node's executors on one job: the chain of model backends            *)
(* (FallbackExecutor), which is kept from job to job, and the loop of      *)
(* attempts in a fresh clone (AgenticRepoExecutor).  The lease under which *)
(* a job runs is ClaimLease's subject.                                     *)
(*                                                                         *)
(* A file is abstracted to what the guards tell apart.  All files are      *)
(* Python, of 40 lines or more in the clone.                               *)
(***************************************************************************)
EXTENDS Naturals

CONSTANTS
  Backends,  \* length of the chain of backends
  Retries,   \* NODE_RELAY_DIFF_RETRIES
  File,      \* paths in the clone
  Ignored,   \* those that the repository's .gitignore names
  HeadTree,  \* [File -> Content or Absent]: the tree of HEAD
  Absent,    \* no such file; in a reply: delete it
  Outside,   \* an unsafe path, with no file at it
  Offered    \* the replies a model may give, as functions from paths

Backend == 1 .. Backends

\* head: as in HEAD; edit: a good replacement; short: much shorter; drops: without
\* one of the top-level names; broken: not Python.
Content == {"head", "edit", "short", "drops", "broken"}
Path == File \cup {Outside}

ASSUME ChainAssumption == Backends \in Nat \ {0} /\ Retries \in Nat
ASSUME FileAssumption ==
  /\ Outside \notin File /\ Ignored \subseteq File /\ Absent \notin Content
  /\ HeadTree \in [File -> {"head", Absent}] /\ \A f \in Ignored : HeadTree[f] = Absent
ASSUME OfferedAssumption ==
  Offered \subseteq UNION {[D -> Content \cup {Absent}] : D \in SUBSET Path}

VARIABLES
  run,       \* program counter of the executor
  failed,    \* _failed_for_job
  pos,       \* where in the chain execute() is
  bare,      \* the repository does not ignore bytecode
  tree,      \* the files of the clone
  litter,    \* there is bytecode in the clone
  reply,     \* the file blocks of the last reply
  feedback,  \* what the next request will complain of
  attempt,   \* attempts begun before this one
  commit,    \* the files of the commit
  result,    \* how the job ended
  broken,    \* history: the backends that failed since the job began
  reset      \* history: every reset of the clone has worked

runVars == <<run, failed, pos, bare, tree, litter, reply, feedback, attempt, commit, result,
             broken, reset>>
clone == <<bare, tree, litter, reset>>
talk == <<reply, feedback, attempt>>

NoChanges == [p \in {} |-> Absent]
Tree == [File -> Content \cup {Absent}]

RunTypeOK ==
  /\ run \in {"idle", "chat", "suggest", "clone", "files", "ask", "judge", "write", "compile",
              "commit", "end"}
  /\ failed \in SUBSET Backend /\ broken \in SUBSET Backend
  /\ pos \in 1 .. Backends + 1
  /\ bare \in BOOLEAN /\ litter \in BOOLEAN /\ reset \in BOOLEAN
  /\ tree \in Tree /\ commit \in Tree
  /\ \E D \in SUBSET Path : reply \in [D -> Content \cup {Absent}]
  /\ feedback \in {"none", "blocks", "truncated", "dropped", "syntax"}
  /\ attempt \in 0 .. Retries
  /\ result \in {"none", "answer", "patch", "review", "rejected", "raised",
                "unanswered"}

RunInit ==
  /\ run = "idle"
  /\ failed = {} /\ pos = 1 /\ broken = {}
  /\ bare = FALSE /\ tree = HeadTree /\ litter = FALSE /\ reset = TRUE
  /\ reply = NoChanges /\ feedback = "none" /\ attempt = 0
  /\ commit = HeadTree /\ result = "none"

RunGoto(label) == run' = label

\* Mutant: a backend's failure is remembered for the jobs that follow.
KeepFailures == UNCHANGED failed

\* begin_job and end_job
ForgetFailures == failed' = {}

\* The job ends; the clone is removed, and kept here for the properties only.
Finish(outcome) ==
  /\ RunGoto("end") /\ result' = outcome /\ ForgetFailures

\* The locals of an execution.
Fresh ==
  /\ pos' = 1 /\ broken' = {}
  /\ bare' = FALSE /\ tree' = HeadTree /\ litter' = FALSE /\ reset' = TRUE
  /\ reply' = NoChanges /\ feedback' = "none" /\ attempt' = 0
  /\ commit' = HeadTree /\ result' = "none"

\* DispatchingExecutor: no-commit work is chat; other work without a repository
\* gets a suggestion, and the rest a clone.
Receive(chat, mapped) ==
  /\ run = "idle"
  /\ RunGoto(IF chat THEN "chat" ELSE IF mapped THEN "clone" ELSE "suggest")
  /\ IF chat THEN UNCHANGED failed ELSE ForgetFailures
  /\ Fresh

\* The outcome is on its way home; the executor waits for the next job.
Return ==
  /\ run = "end" /\ RunGoto("idle") /\ Fresh
  /\ UNCHANGED failed

-------------------------------------------------------------------------------
(* FallbackExecutor                                                        *)

\* execute() tries the whole chain, whatever failed before.
ChatAnswer ==
  /\ run \in {"chat", "suggest"} /\ pos <= Backends
  /\ Finish(IF run = "chat" THEN "answer" ELSE "review")
  /\ UNCHANGED <<pos, clone, talk, commit, broken>>

ChatFails ==
  /\ run \in {"chat", "suggest"} /\ pos <= Backends
  /\ pos' = pos + 1 /\ broken' = broken \cup {pos}
  /\ UNCHANGED <<run, failed, clone, talk, commit, result>>

\* A suggestion that fails says so in its text.
ChatExhausted ==
  /\ run \in {"chat", "suggest"} /\ pos > Backends
  /\ Finish(IF run = "chat" THEN "unanswered" ELSE "review")
  /\ UNCHANGED <<pos, clone, talk, commit, broken>>

\* complete() asks the first backend that has not failed for this job.
Asking == run \in {"files", "ask"}
Asked(b) == b \in Backend \ failed /\ 1 .. b - 1 \subseteq failed

BackendFails ==
  /\ Asking
  /\ \E b \in Backend :
       Asked(b) /\ failed' = failed \cup {b} /\ broken' = broken \cup {b}
  /\ UNCHANGED <<run, pos, clone, talk, commit, result>>

ChainExhausted ==
  /\ Asking /\ failed = Backend
  /\ Finish("unanswered")
  /\ UNCHANGED <<pos, clone, talk, commit, broken>>

-------------------------------------------------------------------------------
(* AgenticRepoExecutor                                                     *)

CloneRepo ==
  /\ run = "clone" /\ RunGoto("files")
  /\ bare' \in BOOLEAN
  /\ UNCHANGED <<failed, pos, tree, litter, reset, talk, commit, result, broken>>

\* git, the compiler or the file system raises, or runs into a timeout.
ToolRaises ==
  /\ run \in {"clone", "judge", "write", "compile", "commit"}
  /\ run = "judge" => reply # NoChanges
  /\ Finish("raised")
  /\ UNCHANGED <<pos, clone, talk, commit, broken>>

RequestFileList ==
  /\ run = "files" /\ failed # Backend
  /\ RunGoto("ask")
  /\ UNCHANGED <<failed, pos, clone, talk, commit, result, broken>>

RequestChanges ==
  /\ run = "ask" /\ failed # Backend
  /\ \E c \in Offered : reply' = c
  /\ RunGoto("judge")
  /\ UNCHANGED <<failed, pos, clone, feedback, attempt, commit, result, broken>>

\* Mutant: one attempt more than the retries allow.
TryPast(complaint) ==
  /\ feedback' = complaint
  /\ IF attempt <= Retries
     THEN attempt' = attempt + 1 /\ RunGoto("ask") /\ UNCHANGED <<failed, result>>
     ELSE UNCHANGED attempt /\ Finish("rejected")

\* The attempt is rejected: the next one is told why, if there is one.
TryAgain(complaint) ==
  /\ feedback' = complaint
  /\ IF attempt < Retries
     THEN attempt' = attempt + 1 /\ RunGoto("ask") /\ UNCHANGED <<failed, result>>
     ELSE UNCHANGED attempt /\ Finish("rejected")

\* Mutant: a reply without blocks is not counted as an attempt.
AskOnce ==
  /\ run = "judge" /\ reply = NoChanges
  /\ RunGoto("ask") /\ feedback' = "blocks"
  /\ UNCHANGED <<failed, pos, clone, reply, attempt, commit, result, broken>>

NoBlocks ==
  /\ run = "judge" /\ reply = NoChanges
  /\ TryAgain("blocks")
  /\ UNCHANGED <<pos, clone, reply, commit, broken>>

\* git checkout and git clean: ignored files stay where they are.
Pristine == [f \in File |-> IF f \in Ignored THEN tree[f] ELSE HeadTree[f]]

\* The guards compare a replacement with the file that is there.
Truncates(old, new) == new = "short" /\ old \notin {Absent, "short"}
Drops(old, new) == new = "drops" /\ old \notin {Absent, "drops"}
Truncated(files) == {f \in File \cap DOMAIN reply : Truncates(files[f], reply[f])}
Dropped(files) == {f \in File \cap DOMAIN reply : Drops(files[f], reply[f])}

\* Mutant: the guards run before the reset.
JudgeDirty ==
  /\ run = "judge" /\ reply # NoChanges
  /\ tree' = Pristine
  /\ litter' = (litter /\ ~bare)
  /\ IF Truncated(tree) # {} THEN TryAgain("truncated")
     ELSE IF Dropped(tree) # {} THEN TryAgain("dropped")
     ELSE RunGoto("write") /\ UNCHANGED <<failed, feedback, attempt, result>>
  /\ UNCHANGED <<pos, bare, reset, reply, commit, broken>>

\* Mutant: the guards compare with HEAD, but nothing is reset.
JudgeOnly ==
  /\ run = "judge" /\ reply # NoChanges
  /\ IF Truncated(Pristine) # {} THEN TryAgain("truncated")
     ELSE IF Dropped(Pristine) # {} THEN TryAgain("dropped")
     ELSE RunGoto("write") /\ UNCHANGED <<failed, feedback, attempt, result>>
  /\ UNCHANGED <<pos, clone, reply, commit, broken>>

\* What an earlier attempt wrote is reset, if git can: its failure is not looked at.
JudgeReply ==
  /\ run = "judge" /\ reply # NoChanges
  /\ \/ tree' = Pristine /\ litter' = (litter /\ ~bare) /\ UNCHANGED reset
     \/ reset' = FALSE /\ UNCHANGED <<tree, litter>>
  /\ IF Truncated(tree') # {} THEN TryAgain("truncated")
     ELSE IF Dropped(tree') # {} THEN TryAgain("dropped")
     ELSE RunGoto("write") /\ UNCHANGED <<failed, feedback, attempt, result>>
  /\ UNCHANGED <<pos, bare, reply, commit, broken>>

Overlay(files) == [f \in File |-> IF f \in DOMAIN reply THEN reply[f] ELSE files[f]]

\* An unsafe path rejects the whole reply.
Write ==
  /\ run = "write"
  /\ IF Outside \in DOMAIN reply
     THEN Finish("review") /\ UNCHANGED tree
     ELSE tree' = Overlay(tree) /\ RunGoto("compile") /\ UNCHANGED <<failed, result>>
  /\ UNCHANGED <<pos, bare, litter, reset, talk, commit, broken>>

Written == {f \in File \cap DOMAIN reply : reply[f] # Absent}

\* py_compile leaves its bytecode beside the files that do compile.
Compile ==
  /\ run = "compile"
  /\ litter' = (litter \/ \E f \in Written : reply[f] # "broken")
  /\ IF \E f \in Written : reply[f] = "broken"
     THEN TryAgain("syntax")
     ELSE RunGoto("commit") /\ UNCHANGED <<failed, feedback, attempt, result>>
  /\ UNCHANGED <<pos, bare, tree, reset, reply, commit, broken>>

\* git add -A: all but the ignored files.
Staged == [f \in File |-> IF f \in Ignored THEN HeadTree[f] ELSE tree[f]]

\* Nothing staged means that the replacements were identical to what was there.
Commit ==
  /\ run = "commit"
  /\ IF Staged = HeadTree /\ ~(litter /\ bare)
     THEN Finish("review") /\ UNCHANGED commit
     ELSE Finish("patch") /\ commit' = Staged
  /\ UNCHANGED <<pos, clone, talk, broken>>

RunStep ==
  \/ ChatAnswer \/ ChatFails \/ ChatExhausted \/ BackendFails \/ ChainExhausted
  \/ CloneRepo \/ ToolRaises \/ RequestFileList \/ RequestChanges
  \/ NoBlocks \/ JudgeReply \/ Write \/ Compile \/ Commit \/ Return

-------------------------------------------------------------------------------
(* Properties                                                              *)

\* The commit is HEAD with the last reply laid over it, nothing of the attempts
\* before it, and that reply passes every guard when it is compared with HEAD,
\* unless git failed to reset the clone (_execute).  Bytecode is not looked at.
CommitGuarded ==
  run = "end" /\ result = "patch" /\ reset =>
    /\ \A f \in File \ Ignored : commit[f] = Overlay(HeadTree)[f]
    /\ Outside \notin DOMAIN reply
    /\ \A f \in File \cap DOMAIN reply :
         /\ ~Truncates(HeadTree[f], reply[f]) /\ ~Drops(HeadTree[f], reply[f])
         /\ reply[f] # "broken"

\* "the guards below must compare against pristine HEAD, not a previous attempt's
\* tree": a model, or who reads the outcome, is only told of a file that was cut or
\* lost names if HEAD has them, or if git clean leaves the file alone (_execute).
FeedbackTrue ==
  (run = "ask" \/ result = "rejected") /\ feedback \in {"truncated", "dropped"} /\ reset =>
    \E f \in File \cap DOMAIN reply :
      Truncates(HeadTree[f], reply[f]) \/ Drops(HeadTree[f], reply[f]) \/ f \in Ignored

\* A job that ends for want of a backend has seen every backend fail since it
\* began: failures of earlier jobs are forgotten (begin_job, end_job).
OnlyOwnFailures == run = "end" /\ result = "unanswered" => Backend \subseteq broken
================================================================================
