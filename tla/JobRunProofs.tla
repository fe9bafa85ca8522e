----------------------------- MODULE JobRunProofs -----------------------------
(***************************************************************************)
(* Proofs about JobRun as JobExecution composes it: types, what a commit   *)
(* holds, what a model is told, and when a job ends for want of a backend. *)
(***************************************************************************)
EXTENDS JobBuildProofs

USE DEF RunGoto

\* What a step of JobExecution is to the executors.
RunNext == RunStep \/ \E chat, mapped \in BOOLEAN : Receive(chat, mapped)

\* Every step of the composition is one of RunNext or leaves runVars alone.
LEMMA RunView == ASSUME [Next]_vars PROVE [RunNext]_runVars
  <1>1. CASE Deliver
    <2>1. (route.kind \in Chat) \in BOOLEAN /\ (RepoUrlForJob(Payload(route), NodeAliases) # None) \in BOOLEAN
      OBVIOUS
    <2> QED BY <1>1, <2>1 DEF Deliver, RunNext
  <1> QED BY <1>1 DEF Next, vars, RunNext, Claim, Build, Run

-------------------------------------------------------------------------------
(* Types                                                                   *)

\* A reply is a function from paths to contents or Absent.
IsReply(r) == \E D \in SUBSET Path : r \in [D -> Content \cup {Absent}]

\* The reply without changes and the replies offered are replies.
LEMMA Replies == IsReply(NoChanges) /\ \A c \in Offered : IsReply(c)
  <1>1. IsReply(NoChanges)
    <2>1. NoChanges \in [{} -> Content \cup {Absent}]
      BY DEF NoChanges
    <2> QED BY <2>1 DEF IsReply
  <1>2. \A c \in Offered : IsReply(c)
    BY OfferedAssumption DEF IsReply
  <1> QED BY <1>1, <1>2

\* The tree of HEAD is a tree, and so is what the resets, the writes and the staging
\* make of trees.
LEMMA Trees ==
  /\ HeadTree \in Tree
  /\ tree \in Tree => Pristine \in Tree /\ Staged \in Tree
  /\ tree \in Tree /\ IsReply(reply) => Overlay(tree) \in Tree
  <1>1. HeadTree \in Tree
    BY FileAssumption DEF Tree, Content
  <1>2. ASSUME tree \in Tree PROVE Pristine \in Tree /\ Staged \in Tree
    BY <1>1, <1>2 DEF Tree, Pristine, Staged
  <1>3. ASSUME tree \in Tree, IsReply(reply) PROVE Overlay(tree) \in Tree
    <2>1. \A f \in DOMAIN reply : reply[f] \in Content \cup {Absent}
      BY <1>3 DEF IsReply
    <2> QED BY <1>3, <2>1 DEF Tree, Overlay
  <1> QED BY <1>1, <1>2, <1>3

\* RunTypeOK holds at the start.
LEMMA RunTypeInit == ASSUME RunInit PROVE RunTypeOK
  <1>1. pos \in 1 .. Backends + 1 /\ attempt \in 0 .. Retries
    BY ChainAssumption DEF RunInit
  <1>2. tree \in Tree /\ commit \in Tree
    BY Trees DEF RunInit
  <1>3. IsReply(reply)
    BY Replies DEF RunInit
  <1> QED BY <1>1, <1>2, <1>3 DEF RunInit, RunTypeOK, IsReply

\* The effects that several actions share keep the types.
LEMMA TypedEffects ==
  /\ \A o \in {"answer", "patch", "review", "rejected", "raised", "unanswered"} :
       Finish(o) => /\ run' = "end" /\ failed' = {}
                    /\ result' \in {"answer", "patch", "review", "rejected", "raised", "unanswered"}
  /\ \A m \in {"blocks", "truncated", "dropped", "syntax"} :
       RunTypeOK /\ TryAgain(m) =>
         /\ run' \in {"ask", "end"} /\ failed' \in SUBSET Backend
         /\ attempt' \in 0 .. Retries /\ feedback' = m
         /\ result' \in {"none", "answer", "patch", "review", "rejected", "raised", "unanswered"}
  /\ Fresh =>
       /\ pos' \in 1 .. Backends + 1 /\ broken' \in SUBSET Backend
       /\ bare' \in BOOLEAN /\ litter' \in BOOLEAN /\ reset' \in BOOLEAN
       /\ tree' \in Tree /\ commit' \in Tree /\ IsReply(reply') /\ feedback' = "none"
       /\ attempt' \in 0 .. Retries /\ result' = "none"
  <1>1. \A o \in {"answer", "patch", "review", "rejected", "raised", "unanswered"} :
          Finish(o) => /\ run' = "end" /\ failed' = {}
                       /\ result' \in {"answer", "patch", "review", "rejected", "raised", "unanswered"}
    BY DEF Finish, ForgetFailures
  <1>2. ASSUME NEW m \in {"blocks", "truncated", "dropped", "syntax"}, RunTypeOK, TryAgain(m)
        PROVE /\ run' \in {"ask", "end"} /\ failed' \in SUBSET Backend
              /\ attempt' \in 0 .. Retries /\ feedback' = m
              /\ result' \in {"none", "answer", "patch", "review", "rejected", "raised", "unanswered"}
    <2>1. CASE attempt < Retries
      BY <1>2, <2>1, ChainAssumption DEF TryAgain, RunTypeOK
    <2>2. CASE ~(attempt < Retries)
      BY <1>2, <2>2 DEF TryAgain, RunTypeOK, Finish, ForgetFailures
    <2> QED BY <2>1, <2>2
  <1>3. ASSUME Fresh
        PROVE /\ pos' \in 1 .. Backends + 1 /\ broken' \in SUBSET Backend
              /\ bare' \in BOOLEAN /\ litter' \in BOOLEAN /\ reset' \in BOOLEAN
              /\ tree' \in Tree /\ commit' \in Tree /\ IsReply(reply') /\ feedback' = "none"
              /\ attempt' \in 0 .. Retries /\ result' = "none"
    <2>1. pos' \in 1 .. Backends + 1 /\ attempt' \in 0 .. Retries
      BY <1>3, ChainAssumption DEF Fresh
    <2>2. tree' \in Tree /\ commit' \in Tree
      BY <1>3, Trees DEF Fresh
    <2>3. IsReply(reply')
      BY <1>3, Replies DEF Fresh
    <2> QED BY <1>3, <2>1, <2>2, <2>3 DEF Fresh
  <1> QED BY <1>1, <1>2, <1>3

\* RunTypeOK is kept by every step.
LEMMA RunTypeStep ==
  ASSUME RunTypeOK, [RunNext]_runVars PROVE RunTypeOK'
  <1> USE DEF RunTypeOK, clone, talk
  <1>a. IsReply(reply)
    BY DEF IsReply
  <1>1. CASE ChatAnswer
    BY <1>1, TypedEffects DEF ChatAnswer
  <1>2. CASE ChatFails
    <2>1. pos' \in 1 .. Backends + 1 /\ broken' \in SUBSET Backend
      BY <1>2, ChainAssumption DEF ChatFails, Backend
    <2> QED BY <1>2, <2>1 DEF ChatFails
  <1>3. CASE ChatExhausted
    BY <1>3, TypedEffects DEF ChatExhausted
  <1>4. CASE BackendFails
    BY <1>4 DEF BackendFails
  <1>5. CASE ChainExhausted
    BY <1>5, TypedEffects DEF ChainExhausted
  <1>6. CASE CloneRepo
    BY <1>6 DEF CloneRepo
  <1>7. CASE ToolRaises
    BY <1>7, TypedEffects DEF ToolRaises
  <1>8. CASE RequestFileList
    BY <1>8 DEF RequestFileList
  <1>9. CASE RequestChanges
    <2>1. IsReply(reply')
      BY <1>9, Replies DEF RequestChanges
    <2> QED BY <1>9, <2>1 DEF RequestChanges, IsReply
  <1>10. CASE NoBlocks
    BY <1>10, TypedEffects DEF NoBlocks
  <1>11. CASE JudgeReply
    <2>1. tree' \in Tree /\ litter' \in BOOLEAN /\ reset' \in BOOLEAN
      BY <1>11, Trees DEF JudgeReply
    <2>2. /\ run' \in {"ask", "end", "write"} /\ failed' \in SUBSET Backend
          /\ attempt' \in 0 .. Retries
          /\ feedback' \in {"none", "blocks", "truncated", "dropped", "syntax"}
          /\ result' \in {"none", "answer", "patch", "review", "rejected", "raised", "unanswered"}
      BY <1>11, TypedEffects DEF JudgeReply
    <2> QED BY <1>11, <2>1, <2>2 DEF JudgeReply
  <1>12. CASE Write
    <2>1. CASE Outside \in DOMAIN reply
      BY <1>12, <2>1, TypedEffects DEF Write
    <2>2. CASE Outside \notin DOMAIN reply
      BY <1>12, <2>2, <1>a, Trees DEF Write
    <2> QED BY <2>1, <2>2
  <1>13. CASE Compile
    <2>1. /\ run' \in {"ask", "end", "commit"} /\ failed' \in SUBSET Backend
          /\ attempt' \in 0 .. Retries
          /\ feedback' \in {"none", "blocks", "truncated", "dropped", "syntax"}
          /\ result' \in {"none", "answer", "patch", "review", "rejected", "raised", "unanswered"}
      BY <1>13, TypedEffects DEF Compile
    <2>2. litter' \in BOOLEAN
      BY <1>13 DEF Compile
    <2> QED BY <1>13, <2>1, <2>2 DEF Compile
  <1>14. CASE Commit
    BY <1>14, Trees, TypedEffects DEF Commit
  <1>15. CASE Return
    BY <1>15, TypedEffects DEF Return, IsReply
  <1>16. ASSUME NEW chat \in BOOLEAN, NEW mapped \in BOOLEAN, Receive(chat, mapped)
         PROVE RunTypeOK'
    <2>1. run' \in {"chat", "clone", "suggest"} /\ failed' \in SUBSET Backend
      BY <1>16 DEF Receive, ForgetFailures
    <2> QED BY <1>16, <2>1, TypedEffects DEF Receive, IsReply
  <1>17. CASE UNCHANGED runVars
    BY <1>17 DEF runVars
  <1> QED
    BY <1>1, <1>2, <1>3, <1>4, <1>5, <1>6, <1>7, <1>8, <1>9, <1>10, <1>11, <1>12, <1>13,
       <1>14, <1>15, <1>16, <1>17 DEF RunNext, RunStep

\* The types of all the variables, of the enqueuer's and of the executors'.
THEOREM TypeCorrect == Spec => []TypeOK
  <1>1. Init => RunTypeOK
    BY RunTypeInit DEF Init
  <1>2. RunTypeOK /\ [Next]_vars => RunTypeOK'
    BY RunView, RunTypeStep
  <1>3. BuildTypeOK /\ RunTypeOK => TypeOK
    BY DEF TypeOK
  <1> QED BY <1>1, <1>2, <1>3, BuildTypeCorrect, PTL DEF Spec

-------------------------------------------------------------------------------
(* What a commit holds and what a model is told                            *)

\* The files that git clean does not leave alone are those of HEAD.
CleanTree == \A f \in File \ Ignored : tree[f] = HeadTree[f]

\* The reply laid over HEAD is what these files are.
LaidTree == \A f \in File \ Ignored : tree[f] = Overlay(HeadTree)[f]

\* The reply passes the guards when it is compared with HEAD.
Passes ==
  \A f \in File \cap DOMAIN reply :
    ~Truncates(HeadTree[f], reply[f]) /\ ~Drops(HeadTree[f], reply[f])

\* What holds of an attempt between the reset and the commit, unless git failed to
\* reset the clone: the guards have seen HEAD, and nothing but the reply is written.
Attempt ==
  /\ run = "files" => feedback = "none"
  /\ run = "clone" => feedback = "none"
  /\ result # "none" => run = "end"
  /\ reset /\ run = "write" => CleanTree /\ Passes
  /\ reset /\ run \in {"compile", "commit"} => LaidTree /\ Passes /\ Outside \notin DOMAIN reply
  /\ run = "commit" => \A f \in File \cap DOMAIN reply : reply[f] # "broken"
  /\ CommitGuarded
  /\ FeedbackTrue

\* After the reset, what the guards say of the files that are there they say of HEAD.
LEMMA GuardsSeeHead ==
  ASSUME NEW files, NEW f \in File, NEW new, f \notin Ignored => files[f] = HeadTree[f]
  PROVE /\ Truncates(files[f], new) => Truncates(HeadTree[f], new) \/ f \in Ignored
        /\ Drops(files[f], new) => Drops(HeadTree[f], new) \/ f \in Ignored
        /\ ~Truncates(files[f], new) => ~Truncates(HeadTree[f], new)
        /\ ~Drops(files[f], new) => ~Drops(HeadTree[f], new)
  BY FileAssumption DEF Truncates, Drops

\* A step to the end that commits nothing and rejects no attempt.
LEMMA AttemptEnds ==
  ASSUME Attempt, run' = "end", result' \in {"answer", "review", "raised", "unanswered"}
  PROVE Attempt'
  BY DEF Attempt, CommitGuarded, FeedbackTrue

\* An attempt that is rejected without a word about a file's size or names.
LEMMA AttemptRejected ==
  ASSUME NEW m \in {"blocks", "syntax"}, TryAgain(m) PROVE result = "none" => Attempt'
  <1>1. feedback' = m /\ ((run' = "ask" /\ result' = result) \/ (run' = "end" /\ result' = "rejected"))
    BY DEF TryAgain, Finish
  <1> QED BY <1>1 DEF Attempt, CommitGuarded, FeedbackTrue

\* JudgeReply makes the attempt what Attempt says.
LEMMA AttemptJudged ==
  ASSUME Attempt, JudgeReply PROVE Attempt'
  <1>1. run = "judge" /\ result = "none" /\ reply' = reply
    BY DEF JudgeReply, Attempt
  <1>2. CASE ~reset'
    <2>1. run' \in {"ask", "end", "write"} /\ (result' = "none" \/ (run' = "end" /\ result' = "rejected"))
      BY <1>1 DEF JudgeReply, TryAgain, Finish
    <2> QED BY <1>2, <2>1 DEF Attempt, CommitGuarded, FeedbackTrue
  <1>3. CASE reset'
    <2>1. tree' = Pristine
      BY <1>3 DEF JudgeReply
    <2>2. \A f \in File : f \notin Ignored => tree'[f] = HeadTree[f]
      BY <2>1 DEF Pristine
    <2>3. CASE Truncated(tree') # {}
      <3>1. PICK f \in File \cap DOMAIN reply : Truncates(tree'[f], reply[f])
        BY <2>3 DEF Truncated
      <3>2. Truncates(HeadTree[f], reply[f]) \/ f \in Ignored
        BY <2>2, <3>1, GuardsSeeHead
      <3>3. TryAgain("truncated")
        BY <2>3 DEF JudgeReply
      <3>4. \/ run' = "ask" /\ result' = "none"
            \/ run' = "end" /\ result' = "rejected"
        BY <1>1, <3>3 DEF TryAgain, Finish
      <3> QED BY <1>1, <3>2, <3>4 DEF Attempt, CommitGuarded, FeedbackTrue
    <2>4. CASE Truncated(tree') = {} /\ Dropped(tree') # {}
      <3>1. PICK f \in File \cap DOMAIN reply : Drops(tree'[f], reply[f])
        BY <2>4 DEF Dropped
      <3>2. Drops(HeadTree[f], reply[f]) \/ f \in Ignored
        BY <2>2, <3>1, GuardsSeeHead
      <3>3. TryAgain("dropped")
        BY <2>4 DEF JudgeReply
      <3>4. \/ run' = "ask" /\ result' = "none"
            \/ run' = "end" /\ result' = "rejected"
        BY <1>1, <3>3 DEF TryAgain, Finish
      <3> QED BY <1>1, <3>2, <3>4 DEF Attempt, CommitGuarded, FeedbackTrue
    <2>5. CASE Truncated(tree') = {} /\ Dropped(tree') = {}
      <3>1. run' = "write" /\ result' = "none"
        BY <1>1, <2>5 DEF JudgeReply
      <3>2. ASSUME NEW f \in File \cap DOMAIN reply
            PROVE ~Truncates(HeadTree[f], reply[f]) /\ ~Drops(HeadTree[f], reply[f])
        <4>1. ~Truncates(tree'[f], reply[f]) /\ ~Drops(tree'[f], reply[f])
          BY <2>5, <3>2 DEF Truncated, Dropped
        <4> QED BY <2>2, <3>2, <4>1, GuardsSeeHead
      <3>3. CleanTree'
        BY <2>2 DEF CleanTree
      <3>4. Passes'
        BY <1>1, <3>2 DEF Passes
      <3> QED BY <3>1, <3>3, <3>4 DEF Attempt, CommitGuarded, FeedbackTrue
    <2> QED BY <2>3, <2>4, <2>5
  <1> QED BY <1>2, <1>3

\* Attempt is kept by every step.
LEMMA AttemptStep ==
  ASSUME Attempt, [RunNext]_runVars PROVE Attempt'
  <1> USE DEF clone, talk
  <1>1. CASE ChatAnswer
    BY <1>1, AttemptEnds DEF ChatAnswer, Finish
  <1>2. CASE ChatFails
    BY <1>2 DEF ChatFails, Attempt, CommitGuarded, FeedbackTrue
  <1>3. CASE ChatExhausted
    BY <1>3, AttemptEnds DEF ChatExhausted, Finish
  <1>4. CASE BackendFails
    <2>1. UNCHANGED <<run, tree, reset, reply, feedback, commit, result>>
      BY <1>4 DEF BackendFails
    <2>2. Asking
      BY <1>4 DEF BackendFails
    <2> QED BY <2>1, <2>2 DEF Asking, Attempt, CommitGuarded, FeedbackTrue
  <1>5. CASE ChainExhausted
    BY <1>5, AttemptEnds DEF ChainExhausted, Finish
  <1>6. CASE CloneRepo
    BY <1>6 DEF CloneRepo, Attempt, CommitGuarded, FeedbackTrue
  <1>7. CASE ToolRaises
    BY <1>7, AttemptEnds DEF ToolRaises, Finish
  <1>8. CASE RequestFileList
    BY <1>8 DEF RequestFileList, Attempt, CommitGuarded, FeedbackTrue
  <1>9. CASE RequestChanges
    BY <1>9 DEF RequestChanges, Attempt, CommitGuarded, FeedbackTrue
  <1>10. CASE NoBlocks
    BY <1>10, AttemptRejected DEF NoBlocks, Attempt
  <1>11. CASE JudgeReply
    BY <1>11, AttemptJudged
  <1>12. CASE Write
    <2>1. CASE Outside \in DOMAIN reply
      BY <1>12, <2>1, AttemptEnds DEF Write, Finish
    <2>2. CASE Outside \notin DOMAIN reply
      <3>1. /\ run = "write" /\ run' = "compile" /\ tree' = Overlay(tree)
            /\ UNCHANGED <<reset, reply, feedback, commit, result>>
        BY <1>12, <2>2 DEF Write
      <3>2. reset => LaidTree'
        BY <3>1 DEF Attempt, CleanTree, LaidTree, Overlay
      <3>3. reset => Passes'
        BY <3>1 DEF Attempt, Passes
      <3>4. result = "none"
        BY <3>1 DEF Attempt
      <3> QED BY <2>2, <3>1, <3>2, <3>3, <3>4 DEF Attempt, CommitGuarded, FeedbackTrue
    <2> QED BY <2>1, <2>2
  <1>13. CASE Compile
    <2>1. CASE \E f \in Written : reply[f] = "broken"
      BY <1>13, <2>1, AttemptRejected DEF Compile, Attempt
    <2>2. CASE ~\E f \in Written : reply[f] = "broken"
      <3>1. /\ run = "compile" /\ run' = "commit" /\ UNCHANGED <<tree, reset, reply, commit, result>>
        BY <1>13, <2>2 DEF Compile
      <3>2. \A f \in File \cap DOMAIN reply : reply[f] # "broken"
        BY <2>2, FileAssumption DEF Written, Content
      <3>3. reset => LaidTree' /\ Passes' /\ Outside \notin DOMAIN reply
        BY <3>1 DEF Attempt, LaidTree, Passes, Overlay
      <3>4. result = "none"
        BY <3>1 DEF Attempt
      <3> QED BY <3>1, <3>2, <3>3, <3>4 DEF Attempt, CommitGuarded, FeedbackTrue
    <2> QED BY <2>1, <2>2
  <1>14. CASE Commit
    <2>1. CASE Staged = HeadTree /\ ~(litter /\ bare)
      BY <1>14, <2>1, AttemptEnds DEF Commit, Finish
    <2>2. CASE ~(Staged = HeadTree /\ ~(litter /\ bare))
      <3>1. /\ run = "commit" /\ run' = "end" /\ result' = "patch" /\ commit' = Staged
            /\ UNCHANGED <<reset, reply>>
        BY <1>14, <2>2 DEF Commit, Finish
      <3>2. ASSUME reset
            PROVE /\ \A f \in File \ Ignored : commit'[f] = Overlay(HeadTree)[f]
                  /\ Outside \notin DOMAIN reply /\ Passes
                  /\ \A f \in File \cap DOMAIN reply : reply[f] # "broken"
        <4>1. \A f \in File \ Ignored : commit'[f] = tree[f]
          BY <3>1 DEF Staged
        <4> QED BY <3>1, <3>2, <4>1 DEF Attempt, LaidTree
      <3>3. CommitGuarded'
        BY <3>1, <3>2 DEF CommitGuarded, Passes, Overlay
      <3> QED BY <3>1, <3>3 DEF Attempt, FeedbackTrue
    <2> QED BY <2>1, <2>2
  <1>15. CASE Return
    BY <1>15 DEF Return, Fresh, Attempt, CommitGuarded, FeedbackTrue
  <1>16. ASSUME NEW chat \in BOOLEAN, NEW mapped \in BOOLEAN, Receive(chat, mapped)
         PROVE Attempt'
    <2>1. run' \in {"chat", "clone", "suggest"} /\ feedback' = "none" /\ result' = "none"
      BY <1>16 DEF Receive, Fresh
    <2> QED BY <2>1 DEF Attempt, CommitGuarded, FeedbackTrue
  <1>17. CASE UNCHANGED runVars
    BY <1>17 DEF runVars, Attempt, CleanTree, LaidTree, Passes, Overlay, CommitGuarded, FeedbackTrue
  <1> QED
    BY <1>1, <1>2, <1>3, <1>4, <1>5, <1>6, <1>7, <1>8, <1>9, <1>10, <1>11, <1>12, <1>13,
       <1>14, <1>15, <1>16, <1>17 DEF RunNext, RunStep

\* Attempt holds always.
LEMMA AttemptAlways == Spec => []Attempt
  <1>1. Init => Attempt
    BY DEF Init, RunInit, Attempt, CommitGuarded, FeedbackTrue
  <1>2. Attempt /\ [Next]_vars => Attempt'
    BY RunView, AttemptStep
  <1> QED BY <1>1, <1>2, PTL DEF Spec

\* A commit is HEAD with one reply laid over it that passes every guard against HEAD,
\* whatever the files, the replies and the number of retries are (_execute).
THEOREM AttemptsJudgedAgainstHead == Spec => []CommitGuarded
  <1>1. Attempt => CommitGuarded
    BY DEF Attempt
  <1> QED BY <1>1, AttemptAlways, PTL

\* What the coder is told of its last reply is true of that reply and of HEAD: no
\* attempt is blamed for what an earlier one left in the work tree (_execute).
THEOREM FeedbackIsTrue == Spec => []FeedbackTrue
  <1>1. Attempt => FeedbackTrue
    BY DEF Attempt
  <1> QED BY <1>1, AttemptAlways, PTL

-------------------------------------------------------------------------------
(* Backends                                                                *)

\* What the executor holds against its backends they did during this job.
OwnFailures ==
  /\ run \in {"clone", "files", "ask", "judge", "write", "compile", "commit"} => failed \subseteq broken
  /\ run \in {"chat", "suggest"} => pos \in Nat /\ 1 .. pos - 1 \subseteq broken
  /\ OnlyOwnFailures

\* A step of the attempts touches neither the chain nor its history, or ends the job
\* with an outcome of another kind.
LEMMA AttemptLeavesChain ==
  ASSUME NEW m, TryAgain(m), UNCHANGED broken, OwnFailures, run \in {"judge", "compile"}
  PROVE OwnFailures'
  <1>1. CASE attempt < Retries
    BY <1>1 DEF TryAgain, OwnFailures, OnlyOwnFailures
  <1>2. CASE ~(attempt < Retries)
    BY <1>2 DEF TryAgain, Finish, OwnFailures, OnlyOwnFailures
  <1> QED BY <1>1, <1>2

\* OwnFailures is kept by every step.
LEMMA OwnFailuresStep ==
  ASSUME OwnFailures, [RunNext]_runVars PROVE OwnFailures'
  <1> USE DEF clone, talk
  <1>1. CASE ChatAnswer
    BY <1>1 DEF ChatAnswer, Finish, OwnFailures, OnlyOwnFailures
  <1>2. CASE ChatFails
    <2>1. /\ run \in {"chat", "suggest"} /\ run' = run /\ pos' = pos + 1
          /\ broken' = broken \cup {pos}
      BY <1>2 DEF ChatFails
    <2>2. pos \in Nat /\ 1 .. pos - 1 \subseteq broken
      BY <2>1 DEF OwnFailures
    <2>3. pos' \in Nat /\ 1 .. pos' - 1 \subseteq broken'
      BY <2>1, <2>2
    <2> QED BY <2>1, <2>3 DEF OwnFailures, OnlyOwnFailures
  <1>3. CASE ChatExhausted
    <2>1. /\ run \in {"chat", "suggest"} /\ pos > Backends /\ run' = "end" /\ broken' = broken
      BY <1>3 DEF ChatExhausted, Finish
    <2>2. pos \in Nat /\ 1 .. pos - 1 \subseteq broken
      BY <2>1 DEF OwnFailures
    <2>3. Backend \subseteq broken
      BY <2>1, <2>2, ChainAssumption DEF Backend
    <2> QED BY <2>1, <2>3 DEF OwnFailures, OnlyOwnFailures
  <1>4. CASE BackendFails
    <2>1. PICK b \in Backend : failed' = failed \cup {b} /\ broken' = broken \cup {b}
      BY <1>4 DEF BackendFails
    <2>2. run \in {"files", "ask"} /\ run' = run
      BY <1>4 DEF BackendFails, Asking
    <2> QED BY <2>1, <2>2 DEF OwnFailures, OnlyOwnFailures
  <1>5. CASE ChainExhausted
    <2>1. run \in {"files", "ask"} /\ failed = Backend /\ run' = "end" /\ broken' = broken
      BY <1>5 DEF ChainExhausted, Asking, Finish
    <2> QED BY <2>1 DEF OwnFailures, OnlyOwnFailures
  <1>6. CASE CloneRepo
    BY <1>6 DEF CloneRepo, OwnFailures, OnlyOwnFailures
  <1>7. CASE ToolRaises
    BY <1>7 DEF ToolRaises, Finish, OwnFailures, OnlyOwnFailures
  <1>8. CASE RequestFileList
    BY <1>8 DEF RequestFileList, OwnFailures, OnlyOwnFailures
  <1>9. CASE RequestChanges
    BY <1>9 DEF RequestChanges, OwnFailures, OnlyOwnFailures
  <1>10. CASE NoBlocks
    BY <1>10, AttemptLeavesChain DEF NoBlocks
  <1>11. CASE JudgeReply
    <2>1. CASE \E m \in {"truncated", "dropped"} : TryAgain(m)
      BY <1>11, <2>1, AttemptLeavesChain DEF JudgeReply
    <2>2. CASE ~\E m \in {"truncated", "dropped"} : TryAgain(m)
      <3>1. run = "judge" /\ run' = "write" /\ UNCHANGED <<failed, broken>>
        BY <1>11, <2>2 DEF JudgeReply
      <3> QED BY <3>1 DEF OwnFailures, OnlyOwnFailures
    <2> QED BY <2>1, <2>2
  <1>12. CASE Write
    BY <1>12 DEF Write, Finish, OwnFailures, OnlyOwnFailures
  <1>13. CASE Compile
    <2>1. CASE \E f \in Written : reply[f] = "broken"
      BY <1>13, <2>1, AttemptLeavesChain DEF Compile
    <2>2. CASE ~\E f \in Written : reply[f] = "broken"
      BY <1>13, <2>2 DEF Compile, OwnFailures, OnlyOwnFailures
    <2> QED BY <2>1, <2>2
  <1>14. CASE Commit
    BY <1>14 DEF Commit, Finish, OwnFailures, OnlyOwnFailures
  <1>15. CASE Return
    BY <1>15 DEF Return, Fresh, OwnFailures, OnlyOwnFailures
  <1>16. ASSUME NEW chat \in BOOLEAN, NEW mapped \in BOOLEAN, Receive(chat, mapped)
         PROVE OwnFailures'
    <2>1. CASE chat
      BY <1>16, <2>1 DEF Receive, Fresh, OwnFailures, OnlyOwnFailures
    <2>2. CASE ~chat
      BY <1>16, <2>2 DEF Receive, Fresh, ForgetFailures, OwnFailures, OnlyOwnFailures
    <2> QED BY <2>1, <2>2
  <1>17. CASE UNCHANGED runVars
    BY <1>17 DEF runVars, OwnFailures, OnlyOwnFailures
  <1> QED
    BY <1>1, <1>2, <1>3, <1>4, <1>5, <1>6, <1>7, <1>8, <1>9, <1>10, <1>11, <1>12, <1>13,
       <1>14, <1>15, <1>16, <1>17 DEF RunNext, RunStep

\* A job that ends for want of a backend has seen them all fail, however long the chain
\* is and whatever the jobs before it met (begin_job, end_job, complete, execute).
THEOREM FailuresForgotten == Spec => []OnlyOwnFailures
  <1>1. Init => OwnFailures
    BY DEF Init, RunInit, OwnFailures, OnlyOwnFailures
  <1>2. OwnFailures /\ [Next]_vars => OwnFailures'
    BY RunView, OwnFailuresStep
  <1>3. OwnFailures => OnlyOwnFailures
    BY DEF OwnFailures
  <1> QED BY <1>1, <1>2, <1>3, PTL DEF Spec
================================================================================
