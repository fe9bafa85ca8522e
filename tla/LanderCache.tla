----------------------------- MODULE LanderCache ------------------------------
(***************************************************************************)
(* The lander's cache on one home host: the cached clones of several       *)
(* repositories, the flock files beside them, and _prune_cache, which      *)
(* evicts clones while other reconcilers of the host land patches.         *)
(*                                                                         *)
(* What a landing does inside its clone is PatchLanding's subject; here it *)
(* is the one step "work".  A directory of the cache is a repository's     *)
(* clone, or the .tmp directory that `git clone` fills before it is        *)
(* renamed to the clone.                                                   *)
(***************************************************************************)
EXTENDS Naturals, FiniteSetsExt

CONSTANTS
  Reconciler,  \* the reconciler processes of the host
  Repo,        \* the repositories, each with its cache path <slug>-<digest>
  Dotted,      \* those whose slug has a dot in it, as every path ending in .git
  Stem,        \* [Dotted -> Name]: what precedes the last dot of the slug
  Name,
  Size,        \* [Repo -> bytes of its clone]
  Cap,         \* NODE_RELAY_LANDER_CACHE_MAX_BYTES
  None,
  MaxFaults    \* bound on the crashes and failed removals of a behaviour

ASSUME NameAssumption ==
  Dotted \subseteq Repo /\ Stem \in [Dotted -> Name] /\ Name \cap Repo = {}
ASSUME NoneAssumption == None \notin Reconciler /\ None \notin Repo \X {"clone", "tmp"}
ASSUME RepoAssumption == IsFiniteSet(Repo)
ASSUME SizeAssumption == Size \in [Repo -> Nat] /\ Cap \in Nat /\ MaxFaults \in Nat

VARIABLES
  disk,    \* what each directory of the cache holds
  lock,    \* who holds each flock file
  pc,      \* program counter of a reconciler
  repo,    \* the repository it lands on
  cands,   \* the directories its prune may still evict
  total,   \* the bytes its prune reckons with
  victim,  \* the path it is removing
  open,    \* the directory whose files its rmtree deletes: what was at that path when
           \* it began, wherever that is now; None when there is no such directory
  alone,   \* history: nobody else was inside a clone since its prune measured,
           \* and no removal failed
  torn,    \* history: the repositories with a removal of the clone that a crash or an
           \* error ended, or a prune of the .tmp that a landing was filling, since
           \* git clone was last started
  faults   \* faults so far

prune == <<cands, total, victim, open>>
vars == <<disk, lock, pc, repo, prune, alone, torn, faults>>

Dir == Repo \X {"clone", "tmp"}
Clone(p) == <<repo[p], "clone">>
Tmp(p) == <<repo[p], "tmp">>

\* junk has no .git directory; part is being cloned, or was when the process died;
\* half lacks files that a removal has taken.
Content == {"absent", "junk", "part", "half", "whole"}
HasGit(d) == disk[d] \in {"part", "half", "whole"}

\* with_suffix(".lock") replaces what follows the last dot of a name: ".tmp", or
\* for a slug with a dot the rest of the slug and the digest.
LockOf(d) ==
  IF d[1] \in Dotted /\ d[2] = "clone" THEN Stem[d[1]] ELSE d[1]

\* The steps of a landing under its repository's flock.
Landing == {"probe", "ensure", "clone", "rename", "scan", "prune", "remove", "work"}
Inside(p) == pc[p] \in Landing

TypeOK ==
  /\ disk \in [Dir -> Content]
  /\ lock \in [Repo \cup Name -> Reconciler \cup {None}]
  /\ pc \in [Reconciler -> {"idle", "lock"} \cup Landing]
  /\ repo \in [Reconciler -> Repo]
  /\ cands \in [Reconciler -> SUBSET Dir]
  /\ \A p \in Reconciler, d \in Dir : d[1] = repo[p] => d \notin cands[p]
  /\ total \in [Reconciler -> Nat]
  /\ victim \in [Reconciler -> Dir]
  /\ open \in [Reconciler -> Dir \cup {None}]
  /\ alone \in [Reconciler -> BOOLEAN]
  /\ torn \in SUBSET Repo
  /\ faults \in 0 .. MaxFaults

Init ==
  /\ disk \in {c \in [Dir -> {"absent", "whole"}] : \A r \in Repo : c[<<r, "tmp">>] = "absent"}
  /\ lock = [l \in Repo \cup Name |-> None]
  /\ pc = [p \in Reconciler |-> "idle"]
  /\ repo \in [Reconciler -> Repo]
  /\ cands = [p \in Reconciler |-> {}]
  /\ total = [p \in Reconciler |-> 0]
  /\ victim = [p \in Reconciler |-> Clone(p)]
  /\ open = [p \in Reconciler |-> None]
  /\ torn = {}
  /\ alone = [p \in Reconciler |-> FALSE]
  /\ faults = 0

-------------------------------------------------------------------------------
Goto(p, label) == pc' = [pc EXCEPT ![p] = label]

\* The repository's flock is given up, the landing has ended or failed.
Leave(p) == lock' = [lock EXCEPT ![LockOf(Clone(p))] = None] /\ Goto(p, "idle")

\* The locals of a prune that has ended.
Forget(p) ==
  /\ cands' = [cands EXCEPT ![p] = {}]
  /\ total' = [total EXCEPT ![p] = 0]
  /\ victim' = [victim EXCEPT ![p] = Clone(p)]
  /\ open' = [open EXCEPT ![p] = None]

\* These directories are gone, also for the removals that were in them.
Gone(dirs) == open' = [q \in Reconciler |-> IF open[q] \in dirs THEN None ELSE open[q]]

\* Bytes of the directories that _prune_cache counts.
Weight(dirs) == MapThenSumSet(LAMBDA d : Size[d[1]], dirs)

Start(p) ==
  /\ pc[p] = "idle"
  /\ \E r \in Repo :
       /\ repo' = [repo EXCEPT ![p] = r]
       /\ victim' = [victim EXCEPT ![p] = <<r, "clone">>]
  /\ Goto(p, "lock")
  /\ alone' = [alone EXCEPT ![p] = FALSE]
  /\ UNCHANGED <<disk, lock, cands, total, open, torn, faults>>

TakeLock(p) ==
  /\ pc[p] = "lock" /\ lock[LockOf(Clone(p))] = None
  /\ lock' = [lock EXCEPT ![LockOf(Clone(p))] = p]
  /\ Goto(p, "probe")
  /\ alone' = [q \in Reconciler |-> FALSE]
  /\ UNCHANGED <<disk, repo, prune, torn, faults>>

\* ls-remote finds the branch, fails, or finds nothing.
Probe(p) ==
  /\ pc[p] = "probe"
  /\ Leave(p) \/ (Goto(p, "ensure") /\ UNCHANGED lock)
  /\ UNCHANGED <<disk, repo, prune, alone, torn, faults>>

\* A directory with a .git is a cache hit; git may not get along with the damage
\* it has, or with the network.
Fetch(p) ==
  /\ pc[p] = "ensure" /\ HasGit(Clone(p))
  /\ Leave(p) \/ (Goto(p, "scan") /\ UNCHANGED lock)
  /\ UNCHANGED <<disk, repo, prune, alone, torn, faults>>

\* Mutant: git clone fills the final directory.
CloneInPlace(p) ==
  /\ pc[p] = "ensure" /\ ~HasGit(Clone(p))
  /\ disk' = [disk EXCEPT ![Clone(p)] = "part"]
  /\ Goto(p, "clone")
  /\ UNCHANGED <<lock, repo, prune, alone, torn, faults>>

\* What is left of a clone or of an earlier .tmp is removed, and git clone starts.
StartClone(p) ==
  /\ pc[p] = "ensure" /\ ~HasGit(Clone(p))
  /\ disk' = [disk EXCEPT ![Clone(p)] = "absent", ![Tmp(p)] = "part"]
  /\ Gone({Clone(p), Tmp(p)})
  /\ torn' = torn \ {repo[p]}
  /\ Goto(p, "clone")
  /\ UNCHANGED <<lock, repo, cands, total, victim, alone, faults>>

\* git clone succeeds; it does not see what somebody removes behind it.
EndClone(p) ==
  /\ pc[p] = "clone"
  /\ disk' = [disk EXCEPT ![Tmp(p)] = IF @ = "part" THEN "whole" ELSE @]
  /\ Goto(p, "rename")
  /\ UNCHANGED <<lock, repo, prune, alone, torn, faults>>

\* git clone fails or times out.
CloneFailed(p) ==
  /\ pc[p] = "clone"
  /\ disk' = [disk EXCEPT ![Tmp(p)] = "absent"]
  /\ Gone({Tmp(p)})
  /\ Leave(p)
  /\ UNCHANGED <<repo, cands, total, victim, alone, torn, faults>>

\* The .tmp directory becomes the clone, with the removals that are in it; one that
\* is gone makes rename raise.
Rename(p) ==
  /\ pc[p] = "rename"
  /\ \/ /\ disk[Tmp(p)] = "absent"
        /\ Leave(p) /\ UNCHANGED <<disk, open>>
     \/ /\ disk[Tmp(p)] # "absent"
        /\ disk' = [disk EXCEPT ![Clone(p)] = disk[Tmp(p)], ![Tmp(p)] = "absent"]
        /\ open' = [q \in Reconciler |-> IF open[q] = Tmp(p) THEN Clone(p) ELSE open[q]]
        /\ Goto(p, "scan") /\ UNCHANGED lock
  /\ UNCHANGED <<repo, cands, total, victim, alone, torn, faults>>

-------------------------------------------------------------------------------
(* _prune_cache                                                            *)

\* Mutant: the landing's own clone is a candidate too.
ScanOwn(p) ==
  /\ pc[p] = "scan"
  /\ LET all == {d \in Dir : HasGit(d)}
     IN cands' = [cands EXCEPT ![p] = all] /\ total' = [total EXCEPT ![p] = Weight(all)]
  /\ alone' = [alone EXCEPT ![p] = \A q \in Reconciler \ {p} : ~Inside(q)]
  /\ Goto(p, "prune")
  /\ UNCHANGED <<disk, lock, repo, victim, open, torn, faults>>

\* Every directory with a .git but the landing's own clone may be evicted.
Scan(p) ==
  /\ pc[p] = "scan"
  /\ LET others == {d \in Dir \ {Clone(p)} : HasGit(d)}
         own == IF disk[Clone(p)] = "absent" THEN {} ELSE {Clone(p)}
     IN /\ cands' = [cands EXCEPT ![p] = others]
        /\ total' = [total EXCEPT ![p] = Weight(others \cup own)]
  /\ alone' = [alone EXCEPT ![p] = \A q \in Reconciler \ {p} : ~Inside(q)]
  /\ Goto(p, "prune")
  /\ UNCHANGED <<disk, lock, repo, victim, open, torn, faults>>

\* Another process removes or renames a directory under the scan: stat raises and
\* the landing fails.
ScanFailed(p) ==
  /\ pc[p] = "scan"
  /\ \E q \in Reconciler \ {p} : pc[q] \in {"ensure", "clone", "rename", "remove"}
  /\ Leave(p)
  /\ UNCHANGED <<disk, repo, prune, alone, torn, faults>>

\* Mutant: the cap is met when one clone more than it allows is left.
StopEarly(p) ==
  /\ pc[p] = "prune" /\ (total[p] <= Cap + 1 \/ cands[p] = {})
  /\ Goto(p, "work") /\ Forget(p)
  /\ UNCHANGED <<disk, lock, repo, alone, torn, faults>>

PruneDone(p) ==
  /\ pc[p] = "prune" /\ (total[p] <= Cap \/ cands[p] = {})
  /\ Goto(p, "work") /\ Forget(p)
  /\ UNCHANGED <<disk, lock, repo, alone, torn, faults>>

\* Mutant: the prune waits for the flock (no LOCK_NB).
WaitForLock(p) ==
  /\ pc[p] = "prune"
  /\ UNCHANGED vars

\* The flock of a candidate is held, be it by this landing itself: it stays.  The
\* candidates are tried oldest first; which is the oldest is left open.
Skip(p) ==
  /\ pc[p] = "prune" /\ total[p] > Cap
  /\ \E d \in cands[p] :
       /\ lock[LockOf(d)] # None
       /\ cands' = [cands EXCEPT ![p] = @ \ {d}]
  /\ UNCHANGED <<disk, lock, pc, repo, total, victim, open, alone, torn, faults>>

\* p has chosen d and begins to remove it; a landing may be filling it.
BeginRemove(p, d) ==
  /\ cands' = [cands EXCEPT ![p] = @ \ {d}]
  /\ victim' = [victim EXCEPT ![p] = d]
  /\ open' = [open EXCEPT ![p] = IF disk[d] = "absent" THEN None ELSE d]
  /\ torn' = torn \cup {repo[q] : q \in {r \in Reconciler \ {p} :
                                         pc[r] \in {"clone", "rename"} /\ Tmp(r) = d}}

\* Mutant: a candidate is evicted without its flock.
EvictUnlocked(p) ==
  /\ pc[p] = "prune" /\ total[p] > Cap
  /\ \E d \in cands[p] : BeginRemove(p, d)
  /\ Goto(p, "remove")
  /\ UNCHANGED <<disk, lock, repo, total, alone, faults>>

Evict(p) ==
  /\ pc[p] = "prune" /\ total[p] > Cap
  /\ \E d \in cands[p] :
       /\ lock[LockOf(d)] = None
       /\ lock' = [lock EXCEPT ![LockOf(d)] = p]
       /\ BeginRemove(p, d)
  /\ Goto(p, "remove")
  /\ UNCHANGED <<disk, repo, total, alone, faults>>

\* rmtree takes one file after the other, from the directory it has opened.
RemoveSome(p) ==
  /\ pc[p] = "remove" /\ open[p] # None /\ HasGit(open[p])
  /\ \E c \in {"half", "junk"} : disk' = [disk EXCEPT ![open[p]] = c]
  /\ UNCHANGED <<lock, pc, repo, prune, alone, torn, faults>>

\* The flock of the victim is given up; its bytes are only taken off when nothing is
\* at its path any more.
EndRemove(p) ==
  /\ lock' = [lock EXCEPT ![LockOf(victim[p])] = None]
  /\ total' = [total EXCEPT ![p] =
                 IF disk'[victim[p]] = "absent" THEN @ - Size[victim[p][1]] ELSE @]
  /\ Goto(p, "prune")

\* The last file is gone.  rmtree removes the directory itself by its path: one that
\* was renamed meanwhile stays, empty.
RemoveAll(p) ==
  /\ pc[p] = "remove"
  /\ \/ open[p] = None /\ UNCHANGED <<disk, open>>
     \/ /\ open[p] = victim[p]
        /\ disk' = [disk EXCEPT ![victim[p]] = "absent"] /\ Gone({victim[p]})
     \/ /\ open[p] \notin {None, victim[p]}
        /\ disk' = [disk EXCEPT ![open[p]] = "junk"]
        /\ open' = [open EXCEPT ![p] = None]
  /\ EndRemove(p)
  /\ UNCHANGED <<repo, cands, victim, alone, torn, faults>>

\* What a removal that ends early leaves of a clone.
LeftTorn(p) ==
  torn' = torn \cup {r \in Repo : pc[p] = "remove" /\ open[p] = <<r, "clone">>}

\* rmtree ignores its errors: the directory is still there.
RemoveFailed(p) ==
  /\ pc[p] = "remove" /\ open[p] # None
  /\ faults < MaxFaults /\ faults' = faults + 1
  /\ alone' = [alone EXCEPT ![p] = FALSE]
  /\ open' = [open EXCEPT ![p] = None]
  /\ LeftTorn(p)
  /\ UNCHANGED disk /\ EndRemove(p)
  /\ UNCHANGED <<repo, cands, victim>>

-------------------------------------------------------------------------------
\* reset, am, push: the landing ends.
Work(p) ==
  /\ pc[p] = "work"
  /\ Leave(p)
  /\ UNCHANGED <<disk, repo, prune, alone, torn, faults>>

\* The process dies and the kernel drops its flocks; a removal or a clone stays
\* where it was.
Crash(p) ==
  /\ pc[p] # "idle" /\ faults < MaxFaults
  /\ faults' = faults + 1
  /\ lock' = [l \in DOMAIN lock |-> IF lock[l] = p THEN None ELSE lock[l]]
  /\ Goto(p, "idle") /\ LeftTorn(p) /\ Forget(p)
  /\ UNCHANGED <<disk, repo, alone>>

Ensure(p) ==
  \/ Probe(p) \/ Fetch(p) \/ StartClone(p) \/ EndClone(p) \/ CloneFailed(p) \/ Rename(p)

Prune(p) ==
  \/ Scan(p) \/ ScanFailed(p) \/ PruneDone(p) \/ Skip(p) \/ Evict(p)
  \/ RemoveSome(p) \/ RemoveAll(p) \/ RemoveFailed(p)

Next ==
  \E p \in Reconciler :
    Start(p) \/ TakeLock(p) \/ Ensure(p) \/ Prune(p) \/ Work(p) \/ Crash(p)

Spec == Init /\ [][Next]_vars

\* git and the file system always come back (every call has a timeout), and a
\* free flock is granted to a waiter in the end.
Fairness ==
  \A p \in Reconciler :
    /\ WF_vars(Ensure(p) \/ Prune(p) \/ Work(p))
    /\ WF_vars(RemoveAll(p))
    /\ SF_vars(TakeLock(p))

FairSpec == Spec /\ Fairness

-------------------------------------------------------------------------------
(* Properties                                                              *)

\* While a landing is inside a repository, no other process lands there, chooses its
\* clone for removal, or, where one flock serves both, its .tmp directory.
Exclusive ==
  \A p, q \in Reconciler :
    p # q /\ Inside(p) =>
      /\ ~(Inside(q) /\ repo[q] = repo[p])
      /\ ~(pc[q] = "remove" /\ victim[q] = Clone(p))
      /\ pc[q] = "remove" /\ victim[q] = Tmp(p) => repo[p] \in Dotted

\* "A non-blocking per-repository lock prevents pruning a clone another local
\* reconciler is using", the .tmp directory that becomes the clone included.
RepoExclusive ==
  \A p, q \in Reconciler :
    p # q /\ Inside(p) => ~(pc[q] = "remove" /\ victim[q][1] = repo[p])

\* "a half-written clone can never be mistaken for a cache hit": a patch is applied in
\* a clone that has all its files, whatever clones were cut short, failed or evicted
\* before, but for a removal that did not end and for a prune that met git clone.
WorksInWholeClone ==
  \A p \in Reconciler : pc[p] = "work" => disk[Clone(p)] = "whole" \/ repo[p] \in torn

\* A prune that nobody disturbed leaves the cache within its cap, or with nothing
\* but the clone it was called for.
CapMet ==
  \A p \in Reconciler : pc[p] = "work" /\ alone[p] =>
    LET kept == {d \in Dir : HasGit(d)} IN Weight(kept) <= Cap \/ kept = {Clone(p)}

\* A landing that waits for its flock gets it and ends, whatever the other
\* landings and their prunes hold.
LandingEnds == \A p \in Reconciler : pc[p] = "lock" ~> pc[p] = "idle"
===============================================================================
