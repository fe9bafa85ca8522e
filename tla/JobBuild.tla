-------------------------------- MODULE JobBuild --------------------------------
(***************************************************************************)
(* The enqueuer's work on a claimed job: _node_should_offload, and         *)
(* build_payload, which packs the memories the job refers to and those     *)
(* that a search finds, within a budget of bytes.  What becomes of the     *)
(* sealed payload is Relay's subject.                                      *)
(***************************************************************************)
EXTENDS RepoRouting, Naturals, Sequences, FiniteSetsExt, SequencesExt

CONSTANTS
  Memory,   \* memories of MNEMOS, by id
  Weight,   \* [Memory -> bytes of its content in UTF-8]
  MaxRefs,  \* NODE_RELAY_MAX_MNEMOS_REFS
  MaxBytes, \* NODE_RELAY_MAX_CONTEXT_BYTES
  Config,   \* the context settings: see IsConfig
  MaxFound, \* bound on what a search finds (CONTEXT_LIMIT)
  Routes    \* the routes of the jobs that come

\* The mode, and the two thresholds at which the exact memories make a search
\* unnecessary; 0 is none.  "search" is semantic or fts.
IsConfig(c) == c \in [mode : {"search", "exact", "off"}, skipCount : Nat, skipBytes : Nat]

ASSUME WeightAssumption == Weight \in [Memory -> Nat]
ASSUME BudgetAssumption == MaxRefs \in Nat /\ MaxBytes \in Nat \ {0} /\ MaxFound \in Nat
ASSUME ConfigAssumption == \A c \in Config : IsConfig(c)
ASSUME RoutesAssumption == Routes \subseteq Route

VARIABLES
  build,   \* program counter of the enqueuer on this job
  route,   \* the job's route; None when there is no job
  refs,    \* its mnemos_refs
  config,  \* the context settings; None until the context is packed
  todo,    \* the memories that the current loop has still to pack
  packed,  \* the context so far
  bytes    \* context_bytes

buildVars == <<build, route, refs, config, todo, packed, bytes>>

\* Sequences over S of at most n elements.
UpTo(n, S) == UNION {[1 .. k -> S] : k \in 0 .. n}

BuildTypeOK ==
  /\ build \in {"idle", "judge", "check", "exact", "search", "pack", "built"}
  /\ route \in Route \cup {None} /\ config \in Config \cup {None}
  /\ refs \in Seq(Memory) /\ todo \in Seq(Memory) /\ packed \in Seq(Memory)
  /\ bytes \in Nat

BuildInit ==
  /\ build = "idle" /\ route = None /\ config = None
  /\ refs = <<>> /\ todo = <<>> /\ packed = <<>> /\ bytes = 0

BuildGoto(label) == build' = label

\* The enqueuer is done with the job.
ForgetJob ==
  /\ BuildGoto("idle")
  /\ route' = None /\ config' = None
  /\ refs' = <<>> /\ todo' = <<>> /\ packed' = <<>> /\ bytes' = 0

\* The job is given up: released to the queue, or failed when packing raises.
GiveUp == ForgetJob

\* claim_next; one reference more than the limit may be given.
ClaimJob ==
  /\ build = "idle"
  /\ route' \in Routes /\ refs' \in UpTo(MaxRefs + 1, Memory)
  /\ BuildGoto("judge")
  /\ UNCHANGED <<config, todo, packed, bytes>>

Judge ==
  /\ build = "judge"
  /\ IF ShouldOffload(route)
     THEN BuildGoto("check") /\ UNCHANGED <<route, refs, config, todo, packed, bytes>>
     ELSE GiveUp

\* The references that count: none in the mode "off".
Exact == IF config.mode = "off" THEN <<>> ELSE refs

\* The settings are read from the environment; invalid ones raise.
CheckRefs ==
  /\ build = "check"
  /\ \/ GiveUp
     \/ \E c \in Config :
          /\ c.mode = "off" \/ Len(refs) <= MaxRefs
          /\ config' = c /\ todo' = IF c.mode = "off" THEN <<>> ELSE refs
          /\ BuildGoto("exact") /\ UNCHANGED <<route, refs, packed, bytes>>

\* Mutant: the budget is looked at before the memory is counted.
AddLate(m) ==
  IF bytes > MaxBytes
  THEN GiveUp
  ELSE /\ bytes' = bytes + Weight[m] /\ packed' = Append(packed, m) /\ todo' = Tail(todo)
       /\ UNCHANGED <<build, route, refs, config>>

\* A memory is counted and packed, unless that would exceed the budget.
Add(m) ==
  IF bytes + Weight[m] > MaxBytes
  THEN GiveUp
  ELSE /\ bytes' = bytes + Weight[m] /\ packed' = Append(packed, m) /\ todo' = Tail(todo)
       /\ UNCHANGED <<build, route, refs, config>>

\* mnemos_get returns the memory or raises.
GetExact ==
  /\ build = "exact" /\ todo # <<>>
  /\ Add(Head(todo)) \/ GiveUp

EnoughExact ==
  \/ config.skipCount > 0 /\ Len(packed) >= config.skipCount
  \/ config.skipBytes > 0 /\ bytes >= config.skipBytes

ExactDone ==
  /\ build = "exact" /\ todo = <<>>
  /\ BuildGoto(IF config.mode = "search" /\ ~EnoughExact THEN "search" ELSE "pack")
  /\ UNCHANGED <<route, refs, config, todo, packed, bytes>>

\* mnemos_search finds some memories or raises.
Search ==
  /\ build = "search"
  /\ \/ /\ todo' \in UpTo(MaxFound, Memory) /\ BuildGoto("pack")
        /\ UNCHANGED <<route, refs, config, packed, bytes>>
     \/ GiveUp

\* Mutant: a memory found again is packed again.
PackAny ==
  /\ build = "pack" /\ todo # <<>>
  /\ Add(Head(todo))

\* A memory that was referred to is not packed again.
PackFound ==
  /\ build = "pack" /\ todo # <<>>
  /\ IF Head(todo) \in Range(Exact)
     THEN todo' = Tail(todo) /\ UNCHANGED <<build, route, refs, config, packed, bytes>>
     ELSE Add(Head(todo))

Packed ==
  /\ build = "pack" /\ todo = <<>>
  /\ BuildGoto("built")
  /\ UNCHANGED <<route, refs, config, todo, packed, bytes>>

BuildStep ==
  \/ Judge \/ CheckRefs \/ GetExact \/ ExactDone \/ Search \/ PackFound \/ Packed

-------------------------------------------------------------------------------
(* Properties                                                              *)

\* Bytes of the memories of a context.
SumBytes(context) == MapThenSumSet(LAMBDA i : Weight[context[i]], DOMAIN context)

\* The context of a payload is within NODE_RELAY_MAX_CONTEXT_BYTES, the memories
\* the search found and those given twice included (build_payload).
ContextFits ==
  build = "built" => SumBytes(packed) <= MaxBytes

\* "Exact references are mandatory job context": they are all packed, in their
\* order and before what the search found, and no search packs one again.
ContextComplete ==
  build = "built" =>
    /\ IsPrefix(Exact, packed)
    /\ \A i \in Len(Exact) + 1 .. Len(packed) : packed[i] \notin Range(Exact)

\* "The node only takes work it can actually complete": a commit job whose payload
\* is sealed has a repository on the node, if home and node have one allowlist.
OffloadedResolves ==
  build = "built" /\ route.kind \notin Chat /\ Plain(route) /\ HomeAliases = NodeAliases =>
    RepoUrlForJob(Payload(route), NodeAliases) # None
================================================================================
