---------------------------- MODULE JobBuildProofs ----------------------------
(***************************************************************************)
(* Proofs about JobBuild as JobExecution composes it: a job that is sealed *)
(* has a repository on the node, and its context is complete.              *)
(***************************************************************************)
EXTENDS JobExecution, FiniteSums, TLAPS

USE DEF BuildGoto, GiveUp

\* What a step of JobExecution is to the enqueuer.
BuildNext == ClaimJob \/ BuildStep \/ ForgetJob

\* Every step of the composition is one of BuildNext or leaves buildVars alone.
LEMMA BuildView == ASSUME [Next]_vars PROVE [BuildNext]_buildVars
  BY DEF Next, vars, BuildNext, Claim, Build, Deliver, Run

-------------------------------------------------------------------------------
(* Types                                                                   *)

\* The empty sequence is a sequence of memories.
LEMMA EmptySeq == <<>> \in Seq(Memory)
  OBVIOUS

\* The bounded sequences that ClaimJob and Search choose from are sequences.
LEMMA UpToSeq ==
  ASSUME NEW S, NEW n \in Nat, NEW s \in UpTo(n, S) PROVE s \in Seq(S)
  <1>1. PICK k \in 0 .. n : s \in [1 .. k -> S]
    BY DEF UpTo
  <1> QED BY <1>1

\* A job that is forgotten leaves well-typed variables.
LEMMA ForgetTypes == ASSUME ForgetJob PROVE BuildTypeOK'
  BY DEF ForgetJob, BuildTypeOK

\* Add keeps the types of what it changes.
LEMMA AddTypes ==
  ASSUME BuildTypeOK, todo # <<>>, Add(Head(todo)) PROVE BuildTypeOK'
  <1>1. Head(todo) \in Memory /\ Tail(todo) \in Seq(Memory)
    BY DEF BuildTypeOK
  <1>2. Weight[Head(todo)] \in Nat
    BY <1>1, WeightAssumption
  <1>3. CASE bytes + Weight[Head(todo)] > MaxBytes
    BY <1>3, ForgetTypes DEF Add
  <1>4. CASE ~(bytes + Weight[Head(todo)] > MaxBytes)
    <2>1. /\ bytes' = bytes + Weight[Head(todo)] /\ todo' = Tail(todo)
          /\ packed' = Append(packed, Head(todo))
          /\ UNCHANGED <<build, route, refs, config>>
      BY <1>4 DEF Add
    <2>2. bytes' \in Nat
      BY <2>1, <1>2 DEF BuildTypeOK
    <2>3. packed' \in Seq(Memory)
      BY <2>1, <1>1 DEF BuildTypeOK
    <2> QED BY <1>1, <2>1, <2>2, <2>3 DEF BuildTypeOK
  <1> QED BY <1>3, <1>4

\* BuildTypeOK holds at the start.
LEMMA BuildTypeInit == ASSUME BuildInit PROVE BuildTypeOK
  BY DEF BuildInit, BuildTypeOK

\* BuildTypeOK is kept by every step.
LEMMA BuildTypeStep ==
  ASSUME BuildTypeOK, [BuildNext]_buildVars PROVE BuildTypeOK'
  <1>1. CASE ClaimJob
    <2>1. refs' \in Seq(Memory)
      BY <1>1, UpToSeq, BudgetAssumption DEF ClaimJob
    <2>2. route' \in Route
      BY <1>1, RoutesAssumption DEF ClaimJob
    <2> QED BY <1>1, <2>1, <2>2 DEF ClaimJob, BuildTypeOK
  <1>2. CASE ForgetJob
    BY <1>2, ForgetTypes
  <1>3. CASE Judge
    <2>1. CASE ShouldOffload(route)
      BY <1>3, <2>1 DEF Judge, BuildTypeOK
    <2>2. CASE ~ShouldOffload(route)
      BY <1>3, <2>2, ForgetTypes DEF Judge
    <2> QED BY <2>1, <2>2
  <1>4. CASE CheckRefs
    <2>1. CASE ~ForgetJob
      <3>1. PICK c \in Config :
              /\ config' = c /\ todo' = (IF c.mode = "off" THEN <<>> ELSE refs)
              /\ build' = "exact" /\ UNCHANGED <<route, refs, packed, bytes>>
        BY <1>4, <2>1 DEF CheckRefs
      <3>2. todo' = <<>> \/ todo' = refs
        BY <3>1
      <3>3. todo' \in Seq(Memory)
        BY <3>2, EmptySeq DEF BuildTypeOK
      <3> QED BY <3>1, <3>3 DEF BuildTypeOK
    <2> QED BY <2>1, ForgetTypes
  <1>5. CASE GetExact
    BY <1>5, AddTypes, ForgetTypes DEF GetExact
  <1>6. CASE ExactDone
    BY <1>6 DEF ExactDone, BuildTypeOK
  <1>7. CASE Search
    <2>1. CASE ForgetJob
      BY <2>1, ForgetTypes
    <2>2. CASE todo' \in UpTo(MaxFound, Memory) /\ ~ForgetJob
      <3>1. todo' \in Seq(Memory)
        BY <2>2, UpToSeq, BudgetAssumption
      <3> QED BY <1>7, <2>2, <3>1 DEF Search, BuildTypeOK
    <2> QED BY <1>7, <2>1, <2>2 DEF Search
  <1>8. CASE PackFound
    <2>1. CASE Head(todo) \in Range(Exact)
      <3>1. todo' = Tail(todo) /\ todo # <<>> /\ UNCHANGED <<build, route, refs, config, packed, bytes>>
        BY <1>8, <2>1 DEF PackFound
      <3>2. todo' \in Seq(Memory)
        BY <3>1 DEF BuildTypeOK
      <3> QED BY <3>1, <3>2 DEF BuildTypeOK
    <2>2. CASE Head(todo) \notin Range(Exact)
      BY <1>8, <2>2, AddTypes DEF PackFound
    <2> QED BY <2>1, <2>2
  <1>9. CASE Packed
    BY <1>9 DEF Packed, BuildTypeOK
  <1>10. CASE UNCHANGED buildVars
    BY <1>10 DEF buildVars, BuildTypeOK
  <1> QED
    BY <1>1, <1>2, <1>3, <1>4, <1>5, <1>6, <1>7, <1>8, <1>9, <1>10 DEF BuildNext, BuildStep

\* The types of the enqueuer's variables (build_payload).
THEOREM BuildTypeCorrect == Spec => []BuildTypeOK
  <1>1. Init => BuildTypeOK
    BY BuildTypeInit DEF Init
  <1>2. BuildTypeOK /\ [Next]_vars => BuildTypeOK'
    BY BuildView, BuildTypeStep
  <1> QED BY <1>1, <1>2, PTL DEF Spec

-------------------------------------------------------------------------------
(* Routing                                                                 *)

\* A commit job that _node_should_offload takes has a repository on the node.
LEMMA OffloadedRoutes ==
  ASSUME NEW job \in Route, ShouldOffload(job), job.kind \notin Chat, Plain(job),
         HomeAliases = NodeAliases
  PROVE RepoUrlForJob(Payload(job), NodeAliases) # None
  <1>1. /\ Payload(job).workspace = None /\ Payload(job).kind = job.kind
        /\ Payload(job).project = job.project /\ Payload(job).repo = job.repo
        /\ Payload(job).hint = job.hint
    BY DEF Payload, Route
  <1>2. WorkspaceOf(Payload(job)) = job.project /\ WorkspaceOf(job) = job.project
    BY <1>1 DEF WorkspaceOf, Plain
  <1>3. CASE RepoUrlForKind(job.kind, HomeAliases) # None
    BY <1>1, <1>2, <1>3 DEF RepoUrlForJob, Plain
  <1>4. CASE RepoUrlForJob(job, HomeAliases) # None
    BY <1>1, <1>2, <1>4 DEF RepoUrlForJob, Plain
  <1> QED BY <1>3, <1>4 DEF ShouldOffload

\* A job that is being packed or is sealed was judged fit for the node.
Judged ==
  /\ build \in {"check", "exact", "search", "pack", "built"} => ShouldOffload(route)
  /\ build \in {"judge", "check", "exact", "search", "pack", "built"} => route \in Route

\* Judged is kept by every step: the route does not change until the job is forgotten.
LEMMA JudgedStep ==
  ASSUME Judged, [BuildNext]_buildVars PROVE Judged'
  <1>1. CASE ClaimJob
    BY <1>1, RoutesAssumption DEF ClaimJob, Judged
  <1>2. CASE ForgetJob
    BY <1>2 DEF ForgetJob, Judged
  <1>3. CASE Judge
    BY <1>3, <1>2 DEF Judge, Judged, ShouldOffload
  <1>4. CASE CheckRefs
    BY <1>4, <1>2 DEF CheckRefs, Judged, ShouldOffload
  <1>5. CASE GetExact
    BY <1>5, <1>2 DEF GetExact, Add, Judged, ShouldOffload
  <1>6. CASE ExactDone
    BY <1>6 DEF ExactDone, Judged, ShouldOffload
  <1>7. CASE Search
    BY <1>7, <1>2 DEF Search, Judged, ShouldOffload
  <1>8. CASE PackFound
    BY <1>8, <1>2 DEF PackFound, Add, Judged, ShouldOffload
  <1>9. CASE Packed
    BY <1>9 DEF Packed, Judged, ShouldOffload
  <1>10. CASE UNCHANGED buildVars
    BY <1>10 DEF buildVars, Judged, ShouldOffload
  <1> QED
    BY <1>1, <1>2, <1>3, <1>4, <1>5, <1>6, <1>7, <1>8, <1>9, <1>10 DEF BuildNext, BuildStep

\* "The node only takes work it can actually complete", whatever the allowlist, the
\* kinds and the jobs are (_node_should_offload, repo_url_for_job).
THEOREM RoutesResolve == Spec => []OffloadedResolves
  <1>1. Init => Judged
    BY DEF Init, BuildInit, Judged
  <1>2. Judged /\ [Next]_vars => Judged'
    BY BuildView, JudgedStep
  <1>3. Judged => OffloadedResolves
    BY OffloadedRoutes DEF Judged, OffloadedResolves
  <1> QED BY <1>1, <1>2, <1>3, PTL DEF Spec

-------------------------------------------------------------------------------
(* The context                                                             *)

\* How far the context is: in the first loop, what is packed and what is still to
\* be packed make up Exact; after it, the context begins with Exact, and what
\* follows is none of it.
PackedSoFar ==
  /\ build \in {"idle", "judge", "check"} => packed = <<>>
  /\ build = "exact" =>
       /\ Len(packed) + Len(todo) = Len(Exact)
       /\ \A i \in 1 .. Len(packed) : packed[i] = Exact[i]
       /\ \A i \in 1 .. Len(todo) : todo[i] = Exact[Len(packed) + i]
  /\ build \in {"search", "pack", "built"} =>
       /\ Len(Exact) <= Len(packed)
       /\ \A i \in 1 .. Len(Exact) : packed[i] = Exact[i]
       /\ \A i \in Len(Exact) + 1 .. Len(packed) : packed[i] \notin Range(Exact)

\* Exact is a sequence of memories.
LEMMA ExactSeq == ASSUME BuildTypeOK PROVE Exact \in Seq(Memory)
  <1>1. Exact = <<>> \/ Exact = refs
    BY DEF Exact
  <1> QED BY <1>1, EmptySeq DEF BuildTypeOK

\* A sequence whose first elements are those of another one has it as a prefix.
LEMMA ElementsPrefix ==
  ASSUME NEW S, NEW s \in Seq(S), NEW t \in Seq(S), Len(s) <= Len(t),
         \A i \in 1 .. Len(s) : t[i] = s[i]
  PROVE IsPrefix(s, t)
  <1>1. SubSeq(s, 1, Len(s)) = SubSeq(t, 1, Len(s))
    <2>1. SubSeq(s, 1, Len(s)) = [i \in 1 .. Len(s) |-> s[i]]
      OBVIOUS
    <2>2. SubSeq(t, 1, Len(s)) = [i \in 1 .. Len(s) |-> t[i]]
      OBVIOUS
    <2> QED BY <2>1, <2>2
  <1> QED BY <1>1 DEF IsPrefix

\* What Add leaves of the context and of what is to do, unless the job is forgotten.
LEMMA AddElements ==
  ASSUME BuildTypeOK, todo # <<>>, Add(Head(todo)), ~ForgetJob
  PROVE /\ UNCHANGED <<build, route, refs, config>>
        /\ Len(packed') = Len(packed) + 1 /\ Len(todo') = Len(todo) - 1
        /\ packed'[Len(packed) + 1] = todo[1]
        /\ \A i \in 1 .. Len(packed) : packed'[i] = packed[i]
        /\ \A i \in 1 .. Len(todo) - 1 : todo'[i] = todo[i + 1]
  <1>1. /\ packed' = Append(packed, Head(todo)) /\ todo' = Tail(todo)
        /\ UNCHANGED <<build, route, refs, config>>
    BY DEF Add
  <1>2. packed \in Seq(Memory) /\ todo \in Seq(Memory) /\ Head(todo) = todo[1]
    BY DEF BuildTypeOK
  <1>3. /\ Len(packed') = Len(packed) + 1 /\ packed'[Len(packed) + 1] = todo[1]
        /\ \A i \in 1 .. Len(packed) : packed'[i] = packed[i]
    BY <1>1, <1>2
  <1>4. Len(todo') = Len(todo) - 1 /\ \A i \in 1 .. Len(todo) - 1 : todo'[i] = todo[i + 1]
    BY <1>1, <1>2
  <1> QED BY <1>1, <1>3, <1>4

\* A forgotten job has nothing packed.
LEMMA ForgetPacked == ASSUME ForgetJob PROVE PackedSoFar'
  BY DEF ForgetJob, PackedSoFar

\* Exact depends on the references and the settings alone.
LEMMA ExactKept == ASSUME UNCHANGED <<refs, config>> PROVE Exact' = Exact
  BY DEF Exact

\* PackedSoFar is kept by every step.
LEMMA PackedStep ==
  ASSUME BuildTypeOK, PackedSoFar, [BuildNext]_buildVars PROVE PackedSoFar'
  <1> USE ForgetPacked
  <1>1. CASE ClaimJob
    <2>1. build = "idle" /\ build' = "judge" /\ packed' = packed
      BY <1>1 DEF ClaimJob
    <2> QED BY <2>1 DEF PackedSoFar
  <1>2. CASE ForgetJob
    BY <1>2
  <1>3. CASE Judge
    BY <1>3 DEF Judge, PackedSoFar
  <1>4. CASE CheckRefs
    <2>1. CASE ForgetJob
      BY <2>1
    <2>2. CASE ~ForgetJob
      <3>1. PICK c \in Config :
              /\ config' = c /\ todo' = (IF c.mode = "off" THEN <<>> ELSE refs)
              /\ build' = "exact" /\ UNCHANGED <<route, refs, packed, bytes>>
        BY <1>4, <2>2 DEF CheckRefs
      <3>2. todo' = Exact'
        BY <3>1 DEF Exact
      <3>3. packed' = <<>>
        BY <1>4, <3>1 DEF CheckRefs, PackedSoFar
      <3>4. Exact' \in Seq(Memory)
        BY <3>1, EmptySeq DEF Exact, BuildTypeOK
      <3>5. Len(Exact') \in Nat
        BY <3>4
      <3> QED BY <3>1, <3>2, <3>3, <3>5 DEF PackedSoFar
    <2> QED BY <2>1, <2>2
  <1>5. CASE GetExact
    <2>1. CASE ForgetJob
      BY <2>1
    <2>2. CASE ~ForgetJob
      <3>1. Add(Head(todo)) /\ todo # <<>> /\ build = "exact"
        BY <1>5, <2>2 DEF GetExact
      <3>2. /\ UNCHANGED <<build, route, refs, config>>
            /\ Len(packed') = Len(packed) + 1 /\ Len(todo') = Len(todo) - 1
            /\ packed'[Len(packed) + 1] = todo[1]
            /\ \A i \in 1 .. Len(packed) : packed'[i] = packed[i]
            /\ \A i \in 1 .. Len(todo) - 1 : todo'[i] = todo[i + 1]
        BY <3>1, <2>2, AddElements
      <3>3. Exact' = Exact /\ Len(Exact) \in Nat /\ Len(todo) \in Nat \ {0} /\ Len(packed) \in Nat
        BY <3>1, <3>2, ExactKept, ExactSeq DEF BuildTypeOK
      <3>4. /\ Len(packed) + Len(todo) = Len(Exact)
            /\ \A i \in 1 .. Len(packed) : packed[i] = Exact[i]
            /\ \A i \in 1 .. Len(todo) : todo[i] = Exact[Len(packed) + i]
        BY <3>1 DEF PackedSoFar
      <3>5. packed'[Len(packed) + 1] = Exact[Len(packed) + 1]
        BY <3>2, <3>3, <3>4
      <3>6. \A i \in 1 .. Len(packed') : packed'[i] = Exact'[i]
        BY <3>2, <3>3, <3>4, <3>5
      <3>7. \A i \in 1 .. Len(todo') : todo'[i] = Exact'[Len(packed') + i]
        <4> TAKE i \in 1 .. Len(todo')
        <4>1. i \in 1 .. Len(todo) - 1 /\ i + 1 \in 1 .. Len(todo)
          BY <3>2, <3>3
        <4>2. todo'[i] = todo[i + 1] /\ todo[i + 1] = Exact[Len(packed) + (i + 1)]
          BY <3>2, <3>4, <4>1
        <4>3. Len(packed) + (i + 1) = Len(packed') + i
          BY <3>2, <3>3, <4>1
        <4> QED BY <4>2, <4>3, <3>3
      <3>8. Len(packed') + Len(todo') = Len(Exact')
        <4>1. Len(packed') = Len(packed) + 1 /\ Len(todo') = Len(todo) - 1
          BY <3>2
        <4>2. Len(packed) + Len(todo) = Len(Exact)
          BY <3>4
        <4>3. Len(Exact') = Len(Exact)
          BY <3>3
        <4> QED BY <4>1, <4>2, <4>3, <3>3
      <3>9. build' = "exact"
        BY <3>1, <3>2
      <3> QED BY <3>6, <3>7, <3>8, <3>9 DEF PackedSoFar
    <2> QED BY <2>1, <2>2
  <1>6. CASE ExactDone
    <2>1. /\ build = "exact" /\ todo = <<>> /\ build' \in {"search", "pack"}
          /\ UNCHANGED <<route, refs, config, todo, packed, bytes>>
      BY <1>6 DEF ExactDone
    <2>2. Exact' = Exact /\ Len(Exact) \in Nat /\ Len(packed) \in Nat
      BY <2>1, ExactKept, ExactSeq DEF BuildTypeOK
    <2>3. Len(packed) = Len(Exact) /\ \A i \in 1 .. Len(packed) : packed[i] = Exact[i]
      BY <2>1, <2>2 DEF PackedSoFar
    <2> QED BY <2>1, <2>2, <2>3 DEF PackedSoFar
  <1>7. CASE Search
    <2>1. CASE ~ForgetJob
      <3>1. build = "search" /\ build' = "pack" /\ UNCHANGED <<refs, config, packed>>
        BY <1>7, <2>1 DEF Search
      <3>2. Exact' = Exact
        BY <3>1, ExactKept
      <3> QED BY <3>1, <3>2 DEF PackedSoFar
    <2> QED BY <2>1
  <1>8. CASE PackFound
    <2>1. CASE ForgetJob
      BY <2>1
    <2>2. CASE ~ForgetJob /\ Head(todo) \in Range(Exact)
      <3>1. build = "pack" /\ build' = build /\ UNCHANGED <<refs, config, packed>>
        BY <1>8, <2>2 DEF PackFound
      <3>2. Exact' = Exact
        BY <3>1, ExactKept
      <3> QED BY <3>1, <3>2 DEF PackedSoFar
    <2>3. CASE ~ForgetJob /\ Head(todo) \notin Range(Exact)
      <3>1. Add(Head(todo)) /\ todo # <<>> /\ build = "pack"
        BY <1>8, <2>3 DEF PackFound
      <3>2. /\ UNCHANGED <<build, route, refs, config>>
            /\ Len(packed') = Len(packed) + 1
            /\ packed'[Len(packed) + 1] = todo[1]
            /\ \A i \in 1 .. Len(packed) : packed'[i] = packed[i]
        BY <3>1, <2>3, AddElements
      <3>3. Exact' = Exact /\ Len(Exact) \in Nat /\ Len(packed) \in Nat /\ Head(todo) = todo[1]
        BY <3>1, <3>2, ExactKept, ExactSeq DEF BuildTypeOK
      <3>4. /\ Len(Exact) <= Len(packed)
            /\ \A i \in 1 .. Len(Exact) : packed[i] = Exact[i]
            /\ \A i \in Len(Exact) + 1 .. Len(packed) : packed[i] \notin Range(Exact)
        BY <3>1 DEF PackedSoFar
      <3>5. \A i \in Len(Exact) + 1 .. Len(packed') : packed'[i] \notin Range(Exact)
        <4> TAKE i \in Len(Exact) + 1 .. Len(packed')
        <4>1. CASE i = Len(packed) + 1
          BY <4>1, <3>2, <3>3, <2>3
        <4>2. CASE i # Len(packed) + 1
          <5>1. i \in Len(Exact) + 1 .. Len(packed) /\ i \in 1 .. Len(packed)
            BY <4>2, <3>2, <3>3
          <5> QED BY <5>1, <3>2, <3>4
        <4> QED BY <4>1, <4>2
      <3>6. Len(Exact) <= Len(packed') /\ \A i \in 1 .. Len(Exact) : packed'[i] = Exact[i]
        BY <3>2, <3>3, <3>4
      <3> QED BY <3>1, <3>2, <3>3, <3>5, <3>6 DEF PackedSoFar
    <2> QED BY <2>1, <2>2, <2>3
  <1>9. CASE Packed
    <2>1. build = "pack" /\ build' = "built" /\ UNCHANGED <<refs, config, packed>>
      BY <1>9 DEF Packed
    <2>2. Exact' = Exact
      BY <2>1, ExactKept
    <2> QED BY <2>1, <2>2 DEF PackedSoFar
  <1>10. CASE UNCHANGED buildVars
    <2>1. UNCHANGED <<build, refs, config, todo, packed>>
      BY <1>10 DEF buildVars
    <2>2. Exact' = Exact
      BY <2>1, ExactKept
    <2> QED BY <2>1, <2>2 DEF PackedSoFar
  <1> QED
    BY <1>1, <1>2, <1>3, <1>4, <1>5, <1>6, <1>7, <1>8, <1>9, <1>10 DEF BuildNext, BuildStep

\* "Exact references are mandatory job context": whatever the limits, the settings and
\* the memories are, a sealed context begins with all of them and repeats none
\* (build_payload).
THEOREM ExactMandatory == Spec => []ContextComplete
  <1>1. Init => BuildTypeOK /\ PackedSoFar
    BY BuildTypeInit DEF Init, BuildInit, PackedSoFar
  <1>2. BuildTypeOK /\ PackedSoFar /\ [Next]_vars => BuildTypeOK' /\ PackedSoFar'
    BY BuildView, BuildTypeStep, PackedStep
  <1>3. BuildTypeOK /\ PackedSoFar => ContextComplete
    <2> SUFFICES ASSUME BuildTypeOK, PackedSoFar, build = "built" PROVE
          /\ IsPrefix(Exact, packed)
          /\ \A i \in Len(Exact) + 1 .. Len(packed) : packed[i] \notin Range(Exact)
      BY DEF ContextComplete
    <2>1. Exact \in Seq(Memory) /\ packed \in Seq(Memory)
      BY ExactSeq DEF BuildTypeOK
    <2>2. /\ Len(Exact) <= Len(packed)
          /\ \A i \in 1 .. Len(Exact) : packed[i] = Exact[i]
          /\ \A i \in Len(Exact) + 1 .. Len(packed) : packed[i] \notin Range(Exact)
      BY DEF PackedSoFar
    <2>3. IsPrefix(Exact, packed)
      BY <2>1, <2>2, ElementsPrefix
    <2> QED BY <2>2, <2>3
  <1> QED BY <1>1, <1>2, <1>3, PTL DEF Spec

-------------------------------------------------------------------------------
(* The budget                                                              *)

\* The bytes of each memory of a context.
Bytes(s) == [i \in DOMAIN s |-> Weight[s[i]]]

\* SumBytes is a sum that FiniteSums has laws of.
LEMMA SumBytesIs ==
  ASSUME NEW s \in Seq(Memory)
  PROVE  SumBytes(s) = SumFunctionOnSet(Bytes(s), DOMAIN s)
  <1> DEFINE D == DOMAIN s
  <1>1. IsFiniteSet(D)
    <2>1. D = 1 .. Len(s) /\ Len(s) \in Nat
      OBVIOUS
    <2> QED
      BY <2>1, FS_Interval
  <1>2. \E f : SumsUp(f, Bytes(s), D)
    BY <1>1, TableExists
  <1> DEFINE Table(h) ==
    h = [t \in SUBSET D |-> IF t = {} THEN 0 ELSE LET x == CHOOSE x \in t : TRUE IN Weight[s[x]] + h[t \ {x}]]
  <1>3. SumBytes(s) = (CHOOSE h : Table(h))[D]
    BY DEF SumBytes, MapThenSumSet, MapThenFoldSet
  <1>4. ASSUME NEW h PROVE Table(h) <=> SumsUp(h, Bytes(s), D)
    <2>1. \A t \in SUBSET D : t # {} => (CHOOSE x \in t : TRUE) \in D
      OBVIOUS
    <2> QED
      BY <2>1 DEF SumsUp, Bytes
  <1>5. PICK g : SumsUp(g, Bytes(s), D) /\ SumBytes(s) = g[D]
    <2> HIDE DEF Table
    <2> QED BY <1>2, <1>3, <1>4
  <1>6. SumBytes(s) = SumFunctionOnSet(Bytes(s), D)
    <2> HIDE DEF D, Table
    <2> QED
      BY <1>1, <1>5, EntryIsSum
  <1> QED
    BY <1>6

\* The empty context has no bytes.
LEMMA SumBytesEmpty == SumBytes(<<>>) = 0
  <1>1. DOMAIN <<>> = {}
    OBVIOUS
  <1>2. <<>> \in Seq(Memory)
    OBVIOUS
  <1> QED
    BY <1>1, <1>2, SumBytesIs, SumEmpty

\* A memory more is its bytes more.
LEMMA SumBytesAppend ==
  ASSUME NEW s \in Seq(Memory), NEW m \in Memory
  PROVE  SumBytes(Append(s, m)) = SumBytes(s) + Weight[m]
  <1> DEFINE t == Append(s, m)
             n == Len(s) + 1
             T == DOMAIN t
             S == DOMAIN s
  <1>1. /\ t \in Seq(Memory) /\ n \in T /\ T \ {n} = S
        /\ t[n] = m /\ \A i \in S : t[i] = s[i]
    <2>1. /\ t \in Seq(Memory) /\ Len(s) \in Nat /\ S = 1 .. Len(s) /\ T = 1 .. n
          /\ t[n] = m /\ \A i \in S : t[i] = s[i]
      OBVIOUS
    <2>2. n \in T /\ T \ {n} = S
      BY <2>1
    <2> QED
      BY <2>1, <2>2
  <1>2. IsFiniteSet(T) /\ IsFiniteSet(S)
    <2>1. T = 1 .. n /\ S = 1 .. Len(s) /\ n \in Nat /\ Len(s) \in Nat
      OBVIOUS
    <2> QED
      BY <2>1, FS_Interval
  <1>3. /\ Bytes(t)[n] = Weight[m]
        /\ \A i \in S : Bytes(t)[i] = Bytes(s)[i] /\ Bytes(s)[i] \in Nat
        /\ \A i \in T : Bytes(t)[i] \in Nat
    BY <1>1, WeightAssumption DEF Bytes
  <1>4. SumFunctionOnSet(Bytes(t), T) = Weight[m] + SumFunctionOnSet(Bytes(t), S)
    <2> HIDE DEF T, n, t, S
    <2>1. SumFunctionOnSet(Bytes(t), T) = Bytes(t)[n] + SumFunctionOnSet(Bytes(t), T \ {n})
      BY <1>1, <1>2, <1>3, SumRemove
    <2> QED
      BY <2>1, <1>1, <1>3, Zenon
  <1>5. SumFunctionOnSet(Bytes(t), S) = SumFunctionOnSet(Bytes(s), S)
    <2> HIDE DEF S, t
    <2> QED
      BY <1>2, <1>3, SumSame
  <1>6. SumFunctionOnSet(Bytes(s), S) \in Nat /\ Weight[m] \in Nat
    <2>1. Weight[m] \in Nat
      BY WeightAssumption
    <2>2. \A i \in S : Bytes(s)[i] \in Nat
      BY <1>3
    <2>3. SumFunctionOnSet(Bytes(s), S) \in Nat
      <3> HIDE DEF S
      <3> QED
        BY <1>2, <2>2, SumNat
    <2> QED
      BY <2>1, <2>3
  <1>7. SumBytes(t) = SumFunctionOnSet(Bytes(t), T) /\ SumBytes(s) = SumFunctionOnSet(Bytes(s), S)
    BY <1>1, SumBytesIs
  <1>8. SumBytes(t) = SumBytes(s) + Weight[m]
    <2> HIDE DEF S, T, t, n
    <2> QED
      BY <1>4, <1>5, <1>6, <1>7
  <1> QED
    BY <1>8

\* context_bytes is what the context has, and within the budget.
BytesCounted == bytes = SumBytes(packed) /\ bytes <= MaxBytes

\* BytesCounted depends on the context and its counter alone.
LEMMA SameBytes ==
  ASSUME BytesCounted, UNCHANGED <<packed, bytes>> PROVE BytesCounted'
  BY DEF BytesCounted

\* A job that is forgotten has no context.
LEMMA ForgetBytes == ASSUME ForgetJob PROVE BytesCounted'
  <1>1. packed' = <<>> /\ bytes' = 0
    BY DEF ForgetJob
  <1>2. SumBytes(packed)' = SumBytes(packed')
    OBVIOUS
  <1> QED BY <1>1, <1>2, SumBytesEmpty, BudgetAssumption DEF BytesCounted

\* Add counts what it packs, and packs only what the budget has room for.
LEMMA AddBytes ==
  ASSUME BuildTypeOK, BytesCounted, todo # <<>>, Add(Head(todo)) PROVE BytesCounted'
  <1>1. Head(todo) \in Memory /\ packed \in Seq(Memory) /\ bytes \in Nat
    BY DEF BuildTypeOK
  <1>2. Weight[Head(todo)] \in Nat
    BY <1>1, WeightAssumption
  <1>3. CASE bytes + Weight[Head(todo)] > MaxBytes
    BY <1>3, ForgetBytes DEF Add
  <1>4. CASE ~(bytes + Weight[Head(todo)] > MaxBytes)
    <2>1. bytes' = bytes + Weight[Head(todo)] /\ packed' = Append(packed, Head(todo))
      BY <1>4 DEF Add
    <2>2. SumBytes(packed)' = SumBytes(Append(packed, Head(todo)))
      BY <2>1
    <2>3. bytes' <= MaxBytes
      BY <1>1, <1>2, <1>4, <2>1, BudgetAssumption
    <2>4. SumBytes(Append(packed, Head(todo))) = bytes + Weight[Head(todo)]
      BY <1>1, SumBytesAppend DEF BytesCounted
    <2> QED BY <2>1, <2>2, <2>3, <2>4 DEF BytesCounted
  <1> QED BY <1>3, <1>4

\* BytesCounted is kept by every step.
LEMMA BytesStep ==
  ASSUME BuildTypeOK, BytesCounted, [BuildNext]_buildVars PROVE BytesCounted'
  <1>1. CASE ClaimJob \/ Packed \/ ExactDone \/ UNCHANGED buildVars
    BY <1>1, SameBytes DEF ClaimJob, Packed, ExactDone, buildVars
  <1>2. CASE ForgetJob
    BY <1>2, ForgetBytes
  <1>3. CASE Judge
    BY <1>3, SameBytes, ForgetBytes DEF Judge
  <1>4. CASE CheckRefs
    BY <1>4, SameBytes, ForgetBytes DEF CheckRefs
  <1>5. CASE GetExact
    BY <1>5, AddBytes, ForgetBytes DEF GetExact
  <1>6. CASE Search
    BY <1>6, SameBytes, ForgetBytes DEF Search
  <1>7. CASE PackFound
    BY <1>7, SameBytes, AddBytes DEF PackFound
  <1> QED
    BY <1>1, <1>2, <1>3, <1>4, <1>5, <1>6, <1>7 DEF BuildNext, BuildStep

\* Whatever the memories, the limits and the searches are, the context of a payload is
\* within NODE_RELAY_MAX_CONTEXT_BYTES (build_payload).
THEOREM ContextWithinBudget == Spec => []ContextFits
  <1>1. Init => BuildTypeOK /\ BytesCounted
    BY BuildTypeInit, SumBytesEmpty, BudgetAssumption DEF Init, BuildInit, BytesCounted
  <1>2. BuildTypeOK /\ BytesCounted /\ [Next]_vars => BuildTypeOK' /\ BytesCounted'
    BY BuildView, BuildTypeStep, BytesStep
  <1>3. BytesCounted => ContextFits
    BY DEF BytesCounted, ContextFits
  <1> QED BY <1>1, <1>2, <1>3, PTL DEF Spec
================================================================================
