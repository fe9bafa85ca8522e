------------------------------ MODULE RepoRouting ------------------------------
(***************************************************************************)
(* How a job's repository is found: repo_url_for_kind and repo_url_for_job *)
(* of the node, which the enqueuer calls too, with the allowlist of its    *)
(* own environment, to judge whether the node can do the job.              *)
(*                                                                         *)
(* An allowlist is a function from names to URLs, None for a name that is  *)
(* known to have no repository.                                            *)
(***************************************************************************)
EXTENDS Functions

CONSTANTS
  Kind,        \* job kinds
  Chat,        \* those with a prefix of NONCOMMIT_PREFIXES
  BuildName,   \* [Kind -> Name]: what follows "build:", None for other kinds
  KindTable,   \* [Kind -> Url]: KIND_WORKSPACE_MAP; None when it has no URL
  Name,        \* repository names a job may give
  Url,
  None,
  HomeAliases, \* repo_aliases() where the enqueuer runs
  NodeAliases  \* repo_aliases() on the node

\* [D -> Url or None] for a set D of names.
IsAllowlist(a) == DOMAIN a \subseteq Name /\ a \in [DOMAIN a -> Url \cup {None}]

ASSUME KindAssumption ==
  /\ Chat \subseteq Kind /\ None \notin Url /\ None \notin Name
  /\ BuildName \in [Kind -> Name \cup {None}] /\ KindTable \in [Kind -> Url \cup {None}]
ASSUME AliasAssumption == IsAllowlist(HomeAliases) /\ IsAllowlist(NodeAliases)

\* What routes a job: its `workspace`, its `target_workspace` or else `project`,
\* its `repo`, the `repo:` line of its text, and whether it is for this host.
Route ==
  [kind : Kind, workspace : Name \cup {None}, project : Name \cup {None},
   repo : Url \cup {None}, hint : Name \cup {None}, targeted : BOOLEAN]

RepoUrlForKind(kind, aliases) ==
  IF BuildName[kind] \in DOMAIN aliases THEN aliases[BuildName[kind]] ELSE KindTable[kind]

WorkspaceOf(job) == IF job.workspace # None THEN job.workspace ELSE job.project

\* The first of these that applies; a workspace without a URL applies as well.
RepoUrlForJob(job, aliases) ==
  IF WorkspaceOf(job) \in DOMAIN aliases THEN aliases[WorkspaceOf(job)]
  ELSE IF job.repo \in Range(aliases) \ {None} THEN job.repo
  ELSE IF job.hint \in DOMAIN aliases /\ aliases[job.hint] # None THEN aliases[job.hint]
  ELSE RepoUrlForKind(job.kind, aliases)

\* Mutant: host targeting stands in for a repository.
OffloadTargeted(job) ==
  \/ job.kind \in Chat
  \/ RepoUrlForKind(job.kind, HomeAliases) # None
  \/ job.targeted

\* _node_should_offload
ShouldOffload(job) ==
  \/ job.kind \in Chat
  \/ RepoUrlForKind(job.kind, HomeAliases) # None
  \/ job.targeted /\ RepoUrlForJob(job, HomeAliases) # None

\* What build_payload hands on of a job's route: its `workspace` is left out.
Payload(job) == [job EXCEPT !.workspace = None]

\* A job for which home and node look at the same things: it has no `workspace` of
\* its own and its project is not one that is known to have no repository.
Plain(job) ==
  /\ job.workspace = None
  /\ job.project \in DOMAIN NodeAliases => NodeAliases[job.project] # None
================================================================================
