--------------------------- MODULE LanderCacheProofs ---------------------------
(***************************************************************************)
(* Proofs about the lander's cache, whatever the slugs are: the flocks     *)
(* keep two processes of a host out of one clone, and git works in whole   *)
(* clones but for what a removal or a prune of a .tmp directory has torn.  *)
(* A prune is kept out of a .tmp directory too when no slug has a dot.  A  *)
(* prune's books are true, so that it leaves the cache within its cap when *)
(* nobody disturbs it.                                                     *)
(***************************************************************************)
EXTENDS LanderCache, FiniteSums, TLAPS

\* The part of TypeOK that the locking rests on.
LockType ==
  /\ lock \in [Repo \cup Name -> Reconciler \cup {None}]
  /\ pc \in [Reconciler -> {"idle", "lock"} \cup Landing]
  /\ repo \in [Reconciler -> Repo]
  /\ cands \in [Reconciler -> SUBSET Dir]
  /\ victim \in [Reconciler -> Dir]

\* A landing holds the flock of its clone, and its prune, while it removes a
\* directory, a second one: that of the directory.
LockInv ==
  /\ LockType
  /\ \A p \in Reconciler : Inside(p) => lock[LockOf(Clone(p))] = p
  /\ \A p \in Reconciler :
       pc[p] = "remove" =>
         lock[LockOf(victim[p])] = p /\ LockOf(victim[p]) # LockOf(Clone(p))

\* Every directory has a lock file.
LEMMA LockNames == ASSUME NEW d \in Dir PROVE LockOf(d) \in Repo \cup Name
BY NameAssumption DEF LockOf, Dir

LEMMA OwnClone == ASSUME LockType, NEW p \in Reconciler PROVE Clone(p) \in Dir
BY DEF LockType, Clone, Dir

\* LockInv holds at the start.
LEMMA LockInit == Init => LockInv
<1> SUFFICES ASSUME Init PROVE LockInv
  OBVIOUS
<1>1. LockType
  BY OwnClone DEF Init, LockType, Landing, Clone, Dir
<1>2. \A p \in Reconciler : ~Inside(p) /\ pc[p] # "remove"
  BY DEF Init, Inside, Landing
<1> QED
  BY <1>1, <1>2 DEF LockInv

\* A step inside a landing that takes and gives no flock and starts no removal.
LEMMA StepInside ==
  ASSUME LockInv, NEW p \in Reconciler, NEW label \in Landing \ {"remove"},
         Inside(p), Goto(p, label), UNCHANGED <<lock, repo>>,
         cands' \in [Reconciler -> SUBSET Dir], victim' \in [Reconciler -> Dir],
         \A q \in Reconciler \ {p} : victim'[q] = victim[q]
  PROVE  LockInv'
<1>1. LockType'
  BY DEF LockInv, LockType, Goto, Landing
<1>2. \A q \in Reconciler : Clone(q)' = Clone(q) /\ LockOf(Clone(q))' = LockOf(Clone(q))
  BY DEF Clone, LockOf
<1>3. \A q \in Reconciler \ {p} :
        pc'[q] = pc[q] /\ LockOf(victim[q])' = LockOf(victim[q])
  BY DEF LockInv, LockType, Goto, LockOf
<1>4. pc'[p] = label
  BY DEF LockInv, LockType, Goto
<1>5. \A q \in Reconciler : Inside(q)' => lock'[LockOf(Clone(q))'] = q
  BY <1>2, <1>3, <1>4 DEF LockInv, Inside
<1>6. \A q \in Reconciler : pc'[q] = "remove" =>
        lock'[LockOf(victim[q])'] = q /\ LockOf(victim[q])' # LockOf(Clone(q))'
  BY <1>2, <1>3, <1>4 DEF LockInv
<1> QED
  BY <1>1, <1>5, <1>6 DEF LockInv

\* The end of a landing gives up its own flock only.
LEMMA StepLeave ==
  ASSUME LockInv, NEW p \in Reconciler, Inside(p), pc[p] # "remove", Leave(p),
         UNCHANGED <<repo, cands, victim>>
  PROVE  LockInv'
<1>1. LockOf(Clone(p)) \in Repo \cup Name
  BY LockNames, OwnClone DEF LockInv
<1>2. LockType'
  BY <1>1 DEF LockInv, LockType, Leave, Goto, Landing, prune
<1>3. \A q \in Reconciler :
        /\ LockOf(Clone(q))' = LockOf(Clone(q))
        /\ LockOf(victim[q])' = LockOf(victim[q])
  BY DEF Clone, LockOf, prune
<1>4. pc'[p] = "idle" /\ \A q \in Reconciler \ {p} : pc'[q] = pc[q]
  BY DEF LockInv, LockType, Leave, Goto
<1>5. \A l \in Repo \cup Name : lock[l] # p => lock'[l] = lock[l]
  BY DEF LockInv, LockType, Leave, Inside
<1>6. ASSUME NEW q \in Reconciler, Inside(q)'
      PROVE  lock'[LockOf(Clone(q))'] = q
  <2>1. q # p /\ Inside(q)
    BY <1>4, <1>6 DEF Inside, Landing
  <2>2. lock[LockOf(Clone(q))] = q /\ LockOf(Clone(q)) \in Repo \cup Name
    BY <2>1, LockNames, OwnClone DEF LockInv
  <2> QED
    BY <2>1, <2>2, <1>3, <1>5
<1>7. ASSUME NEW q \in Reconciler, pc'[q] = "remove"
      PROVE  lock'[LockOf(victim[q])'] = q /\ LockOf(victim[q])' # LockOf(Clone(q))'
  <2>1. q # p /\ pc[q] = "remove"
    BY <1>4, <1>7
  <2>2. LockOf(victim[q]) \in Repo \cup Name
    BY LockNames DEF LockInv, LockType
  <2> QED
    BY <2>1, <2>2, <1>3, <1>5 DEF LockInv
<1> QED
  BY <1>2, <1>6, <1>7 DEF LockInv

\* A removal that has ended gives up the flock of what it removed.
LEMMA StepEndRemove ==
  ASSUME LockInv, NEW p \in Reconciler, pc[p] = "remove", EndRemove(p),
         UNCHANGED <<repo, cands, victim>>
  PROVE  LockInv'
<1>1. LockOf(victim[p]) \in Repo \cup Name
  BY LockNames DEF LockInv, LockType
<1>2. LockType'
  BY <1>1 DEF LockInv, LockType, EndRemove, Goto, Landing
<1>3. \A q \in Reconciler :
        /\ LockOf(Clone(q))' = LockOf(Clone(q))
        /\ LockOf(victim[q])' = LockOf(victim[q])
  BY DEF Clone, LockOf
<1>4. pc'[p] = "prune" /\ \A q \in Reconciler \ {p} : pc'[q] = pc[q]
  BY DEF LockInv, LockType, EndRemove, Goto
<1>5. \A l \in Repo \cup Name : l # LockOf(victim[p]) => lock'[l] = lock[l]
  BY DEF LockInv, LockType, EndRemove
<1>6. lock[LockOf(victim[p])] = p /\ LockOf(victim[p]) # LockOf(Clone(p))
  BY DEF LockInv
<1>7. ASSUME NEW q \in Reconciler, Inside(q)'
      PROVE  lock'[LockOf(Clone(q))'] = q
  <2>1. Inside(q)
    BY <1>4, <1>7 DEF Inside, Landing
  <2>2. lock[LockOf(Clone(q))] = q /\ LockOf(Clone(q)) \in Repo \cup Name
    BY <2>1, LockNames, OwnClone DEF LockInv
  <2> QED
    BY <2>2, <1>3, <1>5, <1>6
<1>8. ASSUME NEW q \in Reconciler, pc'[q] = "remove"
      PROVE  lock'[LockOf(victim[q])'] = q /\ LockOf(victim[q])' # LockOf(Clone(q))'
  <2>1. q # p /\ pc[q] = "remove"
    BY <1>4, <1>8
  <2>2. LockOf(victim[q]) \in Repo \cup Name
    BY LockNames DEF LockInv, LockType
  <2> QED
    BY <2>1, <2>2, <1>3, <1>5, <1>6 DEF LockInv
<1> QED
  BY <1>2, <1>7, <1>8 DEF LockInv

\* A landing that waits for its flock is inside once it has it.
LEMMA StepTakeLock ==
  ASSUME LockInv, NEW p \in Reconciler, TakeLock(p)
  PROVE  LockInv'
<1> USE DEF TakeLock, prune
<1>1. LockOf(Clone(p)) \in Repo \cup Name
  BY LockNames, OwnClone DEF LockInv
<1>2. LockType'
  BY <1>1 DEF LockInv, LockType, Goto, Landing
<1>3. \A q \in Reconciler :
        /\ LockOf(Clone(q))' = LockOf(Clone(q))
        /\ LockOf(victim[q])' = LockOf(victim[q])
  BY DEF Clone, LockOf
<1>4. pc'[p] = "probe" /\ \A q \in Reconciler \ {p} : pc'[q] = pc[q]
  BY DEF LockInv, LockType, Goto
<1>5. /\ lock'[LockOf(Clone(p))] = p
      /\ \A l \in Repo \cup Name : lock[l] # None => lock'[l] = lock[l]
  BY <1>1 DEF LockInv, LockType
<1>6. ASSUME NEW q \in Reconciler, Inside(q)'
      PROVE  lock'[LockOf(Clone(q))'] = q
  <2>1. CASE q = p
    BY <2>1, <1>3, <1>5
  <2>2. CASE q # p
    <3>1. Inside(q)
      BY <2>2, <1>4, <1>6 DEF Inside
    <3>2. lock[LockOf(Clone(q))] = q /\ LockOf(Clone(q)) \in Repo \cup Name
      BY <3>1, LockNames, OwnClone DEF LockInv
    <3> QED
      BY <3>2, <1>3, <1>5, NoneAssumption
  <2> QED
    BY <2>1, <2>2
<1>7. ASSUME NEW q \in Reconciler, pc'[q] = "remove"
      PROVE  lock'[LockOf(victim[q])'] = q /\ LockOf(victim[q])' # LockOf(Clone(q))'
  <2>1. pc[q] = "remove"
    BY <1>4, <1>7
  <2>2. LockOf(victim[q]) \in Repo \cup Name
    BY LockNames DEF LockInv, LockType
  <2> QED
    BY <2>1, <2>2, <1>3, <1>5, NoneAssumption DEF LockInv
<1> QED
  BY <1>2, <1>6, <1>7 DEF LockInv

\* A prune takes the flock of its victim beside the one it has.
LEMMA StepEvict ==
  ASSUME LockInv, NEW p \in Reconciler, Evict(p)
  PROVE  LockInv'
<1> USE DEF Evict, BeginRemove
<1>1. PICK d \in cands[p] :
        /\ lock[LockOf(d)] = None
        /\ lock' = [lock EXCEPT ![LockOf(d)] = p]
        /\ cands' = [cands EXCEPT ![p] = @ \ {d}]
        /\ victim' = [victim EXCEPT ![p] = d]
  OBVIOUS
<1>2. d \in Dir /\ LockOf(d) \in Repo \cup Name
  BY LockNames DEF LockInv, LockType
<1>3. LockType'
  BY <1>1, <1>2 DEF LockInv, LockType, Goto, Landing
<1>4. /\ \A q \in Reconciler : LockOf(Clone(q))' = LockOf(Clone(q))
      /\ victim'[p] = d /\ \A q \in Reconciler \ {p} : victim'[q] = victim[q]
  BY <1>1 DEF Clone, LockOf, LockInv, LockType
<1>5. pc'[p] = "remove" /\ \A q \in Reconciler \ {p} : pc'[q] = pc[q]
  BY DEF LockInv, LockType, Goto
<1>6. lock'[LockOf(d)] = p /\ \A l \in Repo \cup Name : lock[l] # None => lock'[l] = lock[l]
  BY <1>1, <1>2 DEF LockInv, LockType
<1>7. ASSUME NEW q \in Reconciler, Inside(q)'
      PROVE  lock'[LockOf(Clone(q))'] = q
  <2>1. Inside(q)
    BY <1>5, <1>7 DEF Inside, Landing
  <2>2. lock[LockOf(Clone(q))] = q /\ LockOf(Clone(q)) \in Repo \cup Name
    BY <2>1, LockNames, OwnClone DEF LockInv
  <2> QED
    BY <2>2, <1>4, <1>6, NoneAssumption
<1>8. ASSUME NEW q \in Reconciler, pc'[q] = "remove"
      PROVE  lock'[LockOf(victim'[q])] = q /\ LockOf(victim'[q]) # LockOf(Clone(q))
  <2>1. CASE q = p
    <3>1. lock[LockOf(Clone(p))] = p
      BY DEF LockInv, Inside, Landing
    <3> QED
      BY <2>1, <3>1, <1>1, <1>4, <1>6, NoneAssumption
  <2>2. CASE q # p
    <3>1. pc[q] = "remove" /\ LockOf(victim[q]) \in Repo \cup Name
      BY <2>2, <1>5, <1>8, LockNames DEF LockInv, LockType
    <3> QED
      BY <2>2, <3>1, <1>4, <1>6, NoneAssumption DEF LockInv
  <2> QED
    BY <2>1, <2>2
<1>9. \A q \in Reconciler : LockOf(victim[q])' = LockOf(victim'[q])
  BY DEF LockOf
<1> QED
  BY <1>3, <1>4, <1>7, <1>8, <1>9 DEF LockInv

\* A process that dies loses all its flocks.
LEMMA StepCrash ==
  ASSUME LockInv, NEW p \in Reconciler, Crash(p)
  PROVE  LockInv'
<1> USE DEF Crash, Forget
<1>1. LockType'
  BY OwnClone DEF LockInv, LockType, Goto, Landing, Clone, Dir
<1>2. \A q \in Reconciler : LockOf(Clone(q))' = LockOf(Clone(q))
  BY DEF Clone, LockOf
<1>3. pc'[p] = "idle" /\ \A q \in Reconciler \ {p} : pc'[q] = pc[q] /\ victim'[q] = victim[q]
  BY DEF LockInv, LockType, Goto
<1>4. \A l \in Repo \cup Name : lock[l] # p => lock'[l] = lock[l]
  BY DEF LockInv, LockType
<1>5. ASSUME NEW q \in Reconciler, Inside(q)'
      PROVE  lock'[LockOf(Clone(q))'] = q
  <2>1. q # p /\ Inside(q)
    BY <1>3, <1>5 DEF Inside, Landing
  <2>2. lock[LockOf(Clone(q))] = q /\ LockOf(Clone(q)) \in Repo \cup Name
    BY <2>1, LockNames, OwnClone DEF LockInv
  <2> QED
    BY <2>1, <2>2, <1>2, <1>4
<1>6. ASSUME NEW q \in Reconciler, pc'[q] = "remove"
      PROVE  lock'[LockOf(victim'[q])] = q /\ LockOf(victim'[q]) # LockOf(Clone(q))
  <2>1. q # p /\ pc[q] = "remove" /\ LockOf(victim[q]) \in Repo \cup Name
    BY <1>3, <1>6, LockNames DEF LockInv, LockType
  <2> QED
    BY <2>1, <1>3, <1>4 DEF LockInv
<1>7. \A q \in Reconciler : LockOf(victim[q])' = LockOf(victim'[q])
  BY DEF LockOf
<1> QED
  BY <1>1, <1>2, <1>5, <1>6, <1>7 DEF LockInv

\* A landing that begins waits, with no flock.
LEMMA StepStart ==
  ASSUME LockInv, NEW p \in Reconciler, Start(p)
  PROVE  LockInv'
<1> USE DEF Start
<1>1. PICK r \in Repo : /\ repo' = [repo EXCEPT ![p] = r]
                        /\ victim' = [victim EXCEPT ![p] = <<r, "clone">>]
  OBVIOUS
<1>2. LockType'
  BY <1>1 DEF LockInv, LockType, Goto, Landing, Dir
<1>3. /\ pc'[p] = "lock"
      /\ \A q \in Reconciler \ {p} :
           pc'[q] = pc[q] /\ victim'[q] = victim[q] /\ repo'[q] = repo[q]
  BY <1>1 DEF LockInv, LockType, Goto
<1>4. \A q \in Reconciler \ {p} :
        /\ LockOf(Clone(q))' = LockOf(Clone(q))
        /\ LockOf(victim[q])' = LockOf(victim[q])
  BY <1>3 DEF Clone, LockOf
<1>5. \A q \in Reconciler : Inside(q)' => q # p /\ Inside(q)
  BY <1>3 DEF Inside, Landing
<1>6. \A q \in Reconciler : pc'[q] = "remove" => q # p /\ pc[q] = "remove"
  BY <1>3
<1>7. \A q \in Reconciler : Inside(q)' => lock'[LockOf(Clone(q))'] = q
  BY <1>4, <1>5 DEF LockInv
<1>8. \A q \in Reconciler : pc'[q] = "remove" =>
        lock'[LockOf(victim[q])'] = q /\ LockOf(victim[q])' # LockOf(Clone(q))'
  BY <1>4, <1>6 DEF LockInv
<1> QED
  BY <1>2, <1>7, <1>8 DEF LockInv

\* A step that leaves the flocks and the program counters alone.
LEMMA StepIdle ==
  ASSUME LockInv, UNCHANGED <<lock, pc, repo, victim>>, cands' \in [Reconciler -> SUBSET Dir]
  PROVE  LockInv'
BY DEF LockInv, LockType, Inside, LockOf, Clone

\* Every step keeps LockInv.
LEMMA LockStep == LockInv /\ [Next]_vars => LockInv'
<1> SUFFICES ASSUME LockInv, [Next]_vars
             PROVE  LockInv'
  OBVIOUS
<1> USE DEF prune
<1>t. LockType
  BY DEF LockInv
<1>1. CASE UNCHANGED vars
  BY <1>1, <1>t, StepIdle DEF vars, LockType
<1>2. ASSUME NEW p \in Reconciler, Start(p) \/ TakeLock(p) \/ Crash(p)
      PROVE  LockInv'
  BY <1>2, StepStart, StepTakeLock, StepCrash
<1>3. ASSUME NEW p \in Reconciler, Ensure(p)
      PROVE  LockInv'
  <2>1. CASE Probe(p)
    BY <2>1, <1>t, StepLeave, StepInside DEF Probe, Inside, Landing, LockType
  <2>2. CASE Fetch(p)
    BY <2>2, <1>t, StepLeave, StepInside DEF Fetch, Inside, Landing, LockType
  <2>3. CASE StartClone(p)
    BY <2>3, <1>t, StepInside DEF StartClone, Inside, Landing, LockType
  <2>4. CASE EndClone(p)
    BY <2>4, <1>t, StepInside DEF EndClone, Inside, Landing, LockType
  <2>5. CASE CloneFailed(p)
    BY <2>5, StepLeave DEF CloneFailed, Inside, Landing
  <2>6. CASE Rename(p)
    BY <2>6, <1>t, StepLeave, StepInside DEF Rename, Inside, Landing, LockType
  <2> QED
    BY <1>3, <2>1, <2>2, <2>3, <2>4, <2>5, <2>6 DEF Ensure
<1>4. ASSUME NEW p \in Reconciler, Prune(p)
      PROVE  LockInv'
  <2>1. CASE Scan(p)
    <3>1. cands' \in [Reconciler -> SUBSET Dir]
      BY <2>1, <1>t DEF Scan, LockType
    <3> QED
      BY <2>1, <3>1, <1>t, StepInside DEF Scan, Inside, Landing, LockType
  <2>2. CASE ScanFailed(p)
    BY <2>2, StepLeave DEF ScanFailed, Inside, Landing
  <2>3. CASE PruneDone(p)
    <3>1. cands' \in [Reconciler -> SUBSET Dir] /\ victim' \in [Reconciler -> Dir]
      BY <2>3, <1>t, OwnClone DEF PruneDone, Forget, LockType
    <3>2. \A q \in Reconciler \ {p} : victim'[q] = victim[q]
      BY <2>3, <1>t DEF PruneDone, Forget, LockType
    <3> QED
      BY <2>3, <3>1, <3>2, StepInside DEF PruneDone, Inside, Landing
  <2>4. CASE Skip(p)
    BY <2>4, <1>t, StepIdle DEF Skip, LockType
  <2>5. CASE Evict(p)
    BY <2>5, StepEvict
  <2>6. CASE RemoveSome(p)
    BY <2>6, <1>t, StepIdle DEF RemoveSome, LockType
  <2>7. CASE RemoveAll(p)
    BY <2>7, StepEndRemove DEF RemoveAll
  <2>8. CASE RemoveFailed(p)
    BY <2>8, StepEndRemove DEF RemoveFailed
  <2> QED
    BY <1>4, <2>1, <2>2, <2>3, <2>4, <2>5, <2>6, <2>7, <2>8 DEF Prune
<1>5. ASSUME NEW p \in Reconciler, Work(p)
      PROVE  LockInv'
  BY <1>5, StepLeave DEF Work, Inside, Landing
<1> QED
  BY <1>1, <1>2, <1>3, <1>4, <1>5 DEF Next

\* The flocks of a host are held as the landings and the prunes believe.
THEOREM FlocksHeld == Spec => []LockInv
<1>1. Init => LockInv
  BY LockInit
<1>2. LockInv /\ [Next]_vars => LockInv'
  BY LockStep
<1> QED
  BY <1>1, <1>2, PTL DEF Spec

\* Whatever the repositories are called, a landing has its clone for itself, and its
\* .tmp directory where one flock serves both: no other landing enters, and no prune
\* chooses it for removal (land, _prune_cache).
THEOREM ClonesExclusive == Spec => []Exclusive
<1>1. LockInv => Exclusive
  <2> SUFFICES ASSUME LockInv, NEW p \in Reconciler, NEW q \in Reconciler, p # q, Inside(p)
               PROVE  /\ ~(Inside(q) /\ repo[q] = repo[p])
                      /\ ~(pc[q] = "remove" /\ victim[q] = Clone(p))
                      /\ pc[q] = "remove" /\ victim[q] = Tmp(p) => repo[p] \in Dotted
    BY DEF Exclusive
  <2>1. lock[LockOf(Clone(p))] = p
    BY DEF LockInv
  <2>2. ~(Inside(q) /\ repo[q] = repo[p])
    BY <2>1 DEF LockInv, Clone
  <2>3. ~(pc[q] = "remove" /\ victim[q] = Clone(p))
    BY <2>1 DEF LockInv
  <2>4. repo[p] \notin Dotted => LockOf(Tmp(p)) = LockOf(Clone(p))
    BY DEF LockOf, Tmp, Clone
  <2>5. pc[q] = "remove" /\ victim[q] = Tmp(p) => repo[p] \in Dotted
    BY <2>1, <2>4 DEF LockInv
  <2> QED
    BY <2>2, <2>3, <2>5
<1> QED
  BY <1>1, FlocksHeld, PTL

\* Where no slug has a dot, what _prune_cache promises is true of the .tmp directory of
\* a landing's repository as well.
THEOREM TmpExclusive == ASSUME Dotted = {} PROVE Spec => []RepoExclusive
<1>1. LockInv => RepoExclusive
  <2> SUFFICES ASSUME LockInv, NEW p \in Reconciler, NEW q \in Reconciler, p # q, Inside(p)
               PROVE  ~(pc[q] = "remove" /\ victim[q][1] = repo[p])
    BY DEF RepoExclusive
  <2>1. LockOf(Clone(p)) = repo[p] /\ LockOf(victim[q]) = victim[q][1]
    BY DEF LockOf, Clone
  <2> QED
    BY <2>1 DEF LockInv
<1> QED
  BY <1>1, FlocksHeld, PTL

-------------------------------------------------------------------------------
(* What a prune reckons with                                               *)

\* The bytes of each directory.
Bytes == [d \in Dir |-> Size[d[1]]]

\* A cache has finitely many directories, and each has a size.
LEMMA DirFinite == IsFiniteSet(Dir) /\ \A d \in Dir : Bytes[d] \in Nat /\ Bytes[d] = Size[d[1]]
<1>1. IsFiniteSet({"clone", "tmp"})
  <2>1. {"clone", "tmp"} = {"clone"} \cup {"tmp"}
    OBVIOUS
  <2>2. IsFiniteSet({"clone"})
    BY FS_Singleton
  <2>3. IsFiniteSet({"clone"} \cup {"tmp"})
    BY <2>2, FS_AddElement
  <2> QED
    BY <2>1, <2>3
<1>2. IsFiniteSet(Dir)
  BY <1>1, RepoAssumption, FS_Product DEF Dir
<1>3. \A d \in Dir : d[1] \in Repo
  BY DEF Dir
<1> QED
  BY <1>2, <1>3, SizeAssumption DEF Bytes

\* Weight is a sum that FiniteSums has laws of.
LEMMA WeightIsSum ==
  ASSUME NEW D \in SUBSET Dir
  PROVE  IsFiniteSet(D) /\ Weight(D) = SumFunctionOnSet(Bytes, D)
<1>1. IsFiniteSet(D)
  BY DirFinite, FS_Subset
<1>2. \E f : SumsUp(f, Bytes, D)
  BY <1>1, TableExists
<1> DEFINE Table(h) ==
  h = [t \in SUBSET D |->
         IF t = {} THEN 0 ELSE LET x == CHOOSE x \in t : TRUE IN Size[x[1]] + h[t \ {x}]]
<1>3. Weight(D) = (CHOOSE h : Table(h))[D]
  BY DEF Weight, MapThenSumSet, MapThenFoldSet
<1>4. ASSUME NEW h PROVE Table(h) <=> SumsUp(h, Bytes, D)
  <2>1. \A t \in SUBSET D : t # {} => (CHOOSE x \in t : TRUE) \in Dir
    OBVIOUS
  <2> QED
    BY <2>1 DEF SumsUp, Bytes
<1>5. PICK g : SumsUp(g, Bytes, D) /\ Weight(D) = g[D]
  <2> HIDE DEF Table
  <2> QED
    BY <1>2, <1>3, <1>4
<1> QED
  BY <1>1, <1>5, EntryIsSum

\* The laws of Weight.
LEMMA WeightLaws ==
  ASSUME NEW D \in SUBSET Dir
  PROVE  /\ Weight(D) \in Nat
         /\ \A E \in SUBSET D : Weight(E) <= Weight(D)
         /\ \A d \in D : Weight(D) = Size[d[1]] + Weight(D \ {d})
<1>1. IsFiniteSet(D) /\ \A d \in D : Bytes[d] \in Nat
  BY WeightIsSum, DirFinite
<1>2. Weight(D) \in Nat
  BY <1>1, SumNat, WeightIsSum
<1>3. ASSUME NEW E \in SUBSET D PROVE Weight(E) <= Weight(D)
  BY <1>1, SumMonotone, WeightIsSum
<1>4. ASSUME NEW d \in D PROVE Weight(D) = Size[d[1]] + Weight(D \ {d})
  <2>1. SumFunctionOnSet(Bytes, D) = Bytes[d] + SumFunctionOnSet(Bytes, D \ {d})
    BY <1>1, SumRemove
  <2>2. Weight(D \ {d}) = SumFunctionOnSet(Bytes, D \ {d}) /\ Weight(D) = SumFunctionOnSet(Bytes, D)
    BY WeightIsSum
  <2> QED
    BY <2>1, <2>2, DirFinite
<1> QED
  BY <1>2, <1>3, <1>4

\* Nothing weighs nothing.
LEMMA WeightEmpty == Weight({}) = 0
BY WeightIsSum, SumEmpty

-------------------------------------------------------------------------------
(* The books of a prune                                                    *)

\* A step of p.
StepOf(p) == Start(p) \/ TakeLock(p) \/ Ensure(p) \/ Prune(p) \/ Work(p) \/ Crash(p)

Pruning(p) == pc[p] \in {"prune", "remove"}

\* What p still counts: its candidates, what it is removing, and its own clone.
Reckoned(p) ==
  cands[p] \cup {d \in {victim[p]} : pc[p] = "remove"} \cup {d \in {Clone(p)} : disk[d] # "absent"}

BookType ==
  /\ disk \in [Dir -> Content]
  /\ total \in [Reconciler -> Nat]
  /\ open \in [Reconciler -> Dir \cup {None}]
  /\ alone \in [Reconciler -> BOOLEAN]
  /\ torn \in SUBSET Repo
  /\ faults \in 0 .. MaxFaults

\* The directory a removal is in is there: the one at the path, or the clone that a
\* landing has renamed it to.
Opened(p) ==
  open[p] # None =>
    /\ pc[p] = "remove" /\ open[p] \in {victim[p], <<victim[p][1], "clone">>}
    /\ disk[open[p]] # "absent"

\* Of a repository's two directories one is git's at most.
OneDir == \A r \in Repo : ~(HasGit(<<r, "clone">>) /\ HasGit(<<r, "tmp">>))

\* The candidates are those of a prune in progress, of other repositories, and none is what
\* it is removing; all that it still counts is in its total.
Books(p) ==
  /\ pc[p] \in {"scan", "prune", "remove", "work"} => ~HasGit(Tmp(p))
  /\ ~Pruning(p) => cands[p] = {}
  /\ \A d \in cands[p] : d[1] # repo[p]
  /\ pc[p] = "remove" => victim[p] \notin cands[p] /\ victim[p][1] # repo[p]
  /\ Pruning(p) => Weight(Reckoned(p)) <= total[p]

BookInv == LockInv /\ BookType /\ OneDir /\ \A p \in Reconciler : Opened(p) /\ Books(p)

\* The directories that p may change: its repository's, or the one it is deleting.
Changes(p, d) ==
  \/ Inside(p) /\ pc[p] # "remove" /\ d[1] = repo[p]
  \/ pc[p] = "remove" /\ d = open[p]

\* What is counted are directories.
LEMMA ReckonedDirs ==
  ASSUME LockType, NEW p \in Reconciler PROVE Reckoned(p) \in SUBSET Dir
BY OwnClone DEF Reckoned, LockType

\* The two directories of a repository.
LEMMA TwoDirs ==
  ASSUME NEW p \in Reconciler, NEW d \in Dir, d[1] = repo[p]
  PROVE  d = Clone(p) \/ d = Tmp(p)
BY DEF Dir, Clone, Tmp

\* A prune deletes nothing of its own landing's repository.
LEMMA OpenApart ==
  ASSUME NEW p \in Reconciler, Opened(p), Books(p), victim[p] \in Dir, open[p] # None
  PROVE  open[p] \in Dir /\ open[p] # Clone(p) /\ open[p] # Tmp(p)
<1>1. pc[p] = "remove" /\ open[p] \in {victim[p], <<victim[p][1], "clone">>}
  BY DEF Opened
<1>2. victim[p][1] # repo[p] /\ victim[p][1] \in Repo
  BY <1>1 DEF Books, Dir
<1>3. open[p] \in Dir /\ open[p][1] = victim[p][1]
  BY <1>1, <1>2 DEF Dir
<1> QED
  BY <1>2, <1>3 DEF Clone, Tmp

\* What a step of p leaves alone.
Frame(p) ==
  /\ \A q \in Reconciler \ {p} :
       /\ pc'[q] = pc[q] /\ repo'[q] = repo[q] /\ cands'[q] = cands[q]
       /\ total'[q] = total[q] /\ victim'[q] = victim[q]
  /\ \A d \in Dir : ~Changes(p, d) => disk'[d] = disk[d]
  /\ pc[p] = "remove" =>
       \A d \in Dir :
         (HasGit(d)' => HasGit(d)) /\ (disk'[d] # "absent" => disk[d] # "absent")

\* Every step has that frame.
LEMMA FrameStep ==
  ASSUME LockType, BookType, NEW p \in Reconciler, StepOf(p), Opened(p)
  PROVE  Frame(p)
<1> USE DEF LockType, BookType, prune
<1>1. CASE Start(p)
  BY <1>1 DEF Start, Goto, Frame
<1>2. CASE TakeLock(p)
  BY <1>2 DEF TakeLock, Goto, Frame
<1>3. CASE Probe(p)
  BY <1>3 DEF Probe, Leave, Goto, Frame
<1>4. CASE Fetch(p)
  BY <1>4 DEF Fetch, Leave, Goto, Frame
<1>5. CASE StartClone(p)
  BY <1>5 DEF StartClone, Goto, Frame, Changes, Inside, Landing, Clone, Tmp
<1>6. CASE EndClone(p)
  BY <1>6 DEF EndClone, Goto, Frame, Changes, Inside, Landing, Clone, Tmp
<1>7. CASE CloneFailed(p)
  BY <1>7 DEF CloneFailed, Leave, Goto, Frame, Changes, Inside, Landing, Clone, Tmp
<1>8. CASE Rename(p)
  BY <1>8 DEF Rename, Leave, Goto, Frame, Changes, Inside, Landing, Clone, Tmp
<1>9. CASE Scan(p)
  BY <1>9 DEF Scan, Goto, Frame
<1>10. CASE ScanFailed(p)
  BY <1>10 DEF ScanFailed, Leave, Goto, Frame
<1>11. CASE PruneDone(p)
  BY <1>11 DEF PruneDone, Forget, Goto, Frame
<1>12. CASE Skip(p)
  BY <1>12 DEF Skip, Frame
<1>13. CASE Evict(p)
  BY <1>13 DEF Evict, BeginRemove, Goto, Frame
<1>14. CASE RemoveSome(p)
  BY <1>14 DEF RemoveSome, Opened, Frame, Changes, HasGit
<1>15. CASE RemoveAll(p)
  BY <1>15 DEF RemoveAll, EndRemove, Opened, Goto, Frame, Changes, HasGit
<1>16. CASE RemoveFailed(p)
  BY <1>16 DEF RemoveFailed, EndRemove, Goto, Frame, HasGit
<1>17. CASE Work(p)
  BY <1>17 DEF Work, Leave, Goto, Frame
<1>18. CASE Crash(p)
  BY <1>18 DEF Crash, Forget, Goto, Frame, HasGit
<1> QED
  BY <1>1, <1>2, <1>3, <1>4, <1>5, <1>6, <1>7, <1>8, <1>9, <1>10, <1>11, <1>12, <1>13, <1>14,
     <1>15, <1>16, <1>17, <1>18 DEF StepOf, Ensure, Prune

\* What each step does to the removals in progress.
LEMMA OpenedStep ==
  ASSUME BookInv, NEW p \in Reconciler, StepOf(p)
  PROVE  open' \in [Reconciler -> Dir \cup {None}] /\ \A q \in Reconciler : Opened(q)'
<1> USE DEF LockType, BookType, prune
<1>a. LockType /\ BookType /\ Frame(p) /\ \A q \in Reconciler : Opened(q)
  BY FrameStep DEF BookInv, LockInv
<1>b. \A label : Goto(p, label) => pc'[p] = label
  BY <1>a DEF Goto
<1>c. /\ Clone(p) \in Dir /\ Tmp(p) \in Dir /\ Clone(p) # Tmp(p) /\ None \notin Dir
      /\ \A d \in Dir : d[1] \in Repo /\ d = <<d[1], d[2]>>
  BY <1>a, NoneAssumption DEF Clone, Tmp, Dir
<1>1. ASSUME open' = open, disk' = disk, pc[p] # "remove"
      PROVE  open' \in [Reconciler -> Dir \cup {None}] /\ \A q \in Reconciler : Opened(q)'
  BY <1>1, <1>a DEF Opened, Frame
<1>2. CASE \/ Start(p) \/ TakeLock(p) \/ Probe(p) \/ Fetch(p)
           \/ Scan(p) \/ ScanFailed(p) \/ Skip(p) \/ Work(p)
  BY <1>1, <1>2 DEF Start, TakeLock, Probe, Fetch, Scan, ScanFailed, Skip, Work
<1>3. CASE StartClone(p)
  <2>1. open' \in [Reconciler -> Dir \cup {None}]
    BY <1>3, <1>a DEF StartClone, Gone
  <2>2. \A q \in Reconciler : Opened(q)'
    BY <1>3, <1>a, <1>c DEF StartClone, Gone, Opened, Frame
  <2> QED
    BY <2>1, <2>2
<1>4. CASE EndClone(p)
  BY <1>4, <1>a, <1>c DEF EndClone, Opened, Frame
<1>5. CASE CloneFailed(p)
  <2>1. open' \in [Reconciler -> Dir \cup {None}]
    BY <1>5, <1>a DEF CloneFailed, Gone
  <2>2. \A q \in Reconciler : Opened(q)'
    BY <1>5, <1>a, <1>c DEF CloneFailed, Gone, Opened, Frame
  <2> QED
    BY <2>1, <2>2
<1>6. CASE Rename(p)
  <2>1. CASE disk[Tmp(p)] = "absent"
    BY <1>1, <1>6, <2>1 DEF Rename
  <2>2. CASE disk[Tmp(p)] # "absent"
    <3>1. /\ disk' = [disk EXCEPT ![Clone(p)] = disk[Tmp(p)], ![Tmp(p)] = "absent"]
          /\ open' = [q \in Reconciler |-> IF open[q] = Tmp(p) THEN Clone(p) ELSE open[q]]
      BY <1>6, <2>2 DEF Rename
    <3>2. open' \in [Reconciler -> Dir \cup {None}]
      BY <1>a, <1>c, <3>1
    <3>3. ASSUME NEW q \in Reconciler PROVE Opened(q)'
      <4>1. CASE open[q] = Tmp(p)
        <5>1. open'[q] = Clone(p) /\ disk'[Clone(p)] # "absent"
          BY <1>a, <1>c, <2>2, <3>1, <4>1
        <5>2. pc[q] = "remove" /\ open[q] \in {victim[q], <<victim[q][1], "clone">>}
          BY <1>a, <1>c, <4>1 DEF Opened
        <5>3. q # p /\ <<victim[q][1], "clone">> = Clone(p)
          BY <1>6, <4>1, <5>2 DEF Rename, Clone, Tmp
        <5> QED
          BY <5>1, <5>2, <5>3, <1>a DEF Opened, Frame
      <4>2. CASE open[q] # Tmp(p)
        <5>1. /\ open'[q] = open[q]
              /\ open[q] # None => open[q] \in Dir /\ disk'[open[q]] # "absent"
          BY <1>a, <1>c, <2>2, <3>1, <4>2 DEF Opened
        <5>2. open[q] # None => q # p
          BY <1>6, <1>a DEF Opened, Rename
        <5> QED
          BY <5>1, <5>2, <1>a DEF Opened, Frame
      <4> QED
        BY <4>1, <4>2
    <3> QED
      BY <3>2, <3>3
  <2> QED
    BY <2>1, <2>2
<1>7. CASE PruneDone(p)
  BY <1>7, <1>a DEF PruneDone, Forget, Opened, Frame
<1>8. CASE Evict(p)
  <2>1. PICK e \in cands[p] : BeginRemove(p, e)
    BY <1>8 DEF Evict
  <2>2. e \in Dir /\ open' = [open EXCEPT ![p] = IF disk[e] = "absent" THEN None ELSE e]
    BY <2>1, <1>a DEF BeginRemove
  <2>3. pc'[p] = "remove" /\ victim'[p] = e /\ disk' = disk
    BY <1>8, <1>a, <1>b, <2>1 DEF Evict, BeginRemove
  <2> QED
    BY <1>a, <1>c, <2>2, <2>3 DEF Opened, Frame
<1>9. CASE RemoveSome(p)
  <2>1. /\ open' = open /\ UNCHANGED <<pc, victim>>
        /\ \A d \in Dir : disk[d] # "absent" => disk'[d] # "absent"
    BY <1>9, <1>a DEF RemoveSome
  <2> QED
    BY <2>1, <1>a DEF Opened
<1>10. CASE RemoveAll(p)
  <2>1. open'[p] = None /\ open' \in [Reconciler -> Dir \cup {None}]
    BY <1>10, <1>a DEF RemoveAll, Gone
  <2>2. ASSUME NEW q \in Reconciler \ {p}, open'[q] # None
        PROVE  open'[q] = open[q] /\ disk'[open[q]] # "absent"
    BY <1>10, <1>a, <2>2 DEF RemoveAll, Gone, Opened
  <2> QED
    BY <1>a, <2>1, <2>2 DEF Opened, Frame
<1>11. CASE RemoveFailed(p)
  BY <1>11, <1>a DEF RemoveFailed, Opened, Frame
<1>12. CASE Crash(p)
  BY <1>12, <1>a DEF Crash, Forget, Opened, Frame
<1> QED
  BY <1>2, <1>3, <1>4, <1>5, <1>6, <1>7, <1>8, <1>9, <1>10, <1>11, <1>12 DEF StepOf, Ensure, Prune

\* A step of p leaves the books of the others true.
LEMMA OthersBooks ==
  ASSUME BookInv, NEW p \in Reconciler, Frame(p), NEW q \in Reconciler \ {p}
  PROVE  Books(q)'
<1>1. /\ pc'[q] = pc[q] /\ repo'[q] = repo[q] /\ cands'[q] = cands[q]
      /\ total'[q] = total[q] /\ victim'[q] = victim[q]
  BY DEF Frame
<1>2. Clone(q)' = Clone(q) /\ Tmp(q)' = Tmp(q) /\ Clone(q) \in Dir /\ Tmp(q) \in Dir
  BY <1>1 DEF Clone, Tmp, Dir, BookInv, LockInv, LockType
<1>3. Inside(q) /\ disk'[Clone(q)] # "absent" => disk[Clone(q)] # "absent"
  <2>1. Inside(q) => ~(Inside(p) /\ repo[p] = repo[q])
    BY DEF BookInv, LockInv, Clone
  <2> QED
    BY <1>2, <2>1 DEF Frame, Changes, Clone
<1>4. Inside(q) /\ ~HasGit(Tmp(q)) => ~HasGit(Tmp(q))'
  <2> SUFFICES ASSUME Inside(q), ~HasGit(Tmp(q)) PROVE ~HasGit(Tmp(q))'
    OBVIOUS
  <2>1. CASE pc[p] = "remove"
    BY <2>1, <1>2 DEF Frame, HasGit
  <2>2. CASE pc[p] # "remove"
    <3>1. ~(Inside(p) /\ repo[p] = repo[q])
      BY DEF BookInv, LockInv, Clone
    <3>2. ~Changes(p, Tmp(q))
      BY <2>2, <3>1 DEF Changes, Tmp
    <3> QED
      BY <1>2, <3>2 DEF Frame, HasGit
  <2> QED
    BY <2>1, <2>2
<1>5. Pruning(q) => Reckoned(q)' \subseteq Reckoned(q)
  BY <1>1, <1>2, <1>3 DEF Reckoned, Pruning, Inside, Landing
<1>6. Reckoned(q) \in SUBSET Dir
  BY ReckonedDirs DEF BookInv, LockInv
<1>7. /\ Weight(Reckoned(q)) \in Nat
      /\ Pruning(q) => Weight(Reckoned(q)') <= Weight(Reckoned(q)) /\ Weight(Reckoned(q)') \in Nat
  BY <1>5, <1>6, WeightLaws
<1>8. Pruning(q) => Weight(Reckoned(q)') <= total'[q]
  BY <1>1, <1>7 DEF BookInv, BookType, Books
<1> QED
  BY <1>1, <1>2, <1>4, <1>8 DEF BookInv, Books, Pruning, Inside, Landing

\* A step that gives git no directory keeps OneDir.
LEMMA OneDirKept ==
  ASSUME OneDir, \A d \in Dir : HasGit(d)' => HasGit(d)
  PROVE  OneDir'
BY DEF OneDir, Dir

\* A landing that is not pruning after the step has no books to keep.
LEMMA NotPruning ==
  ASSUME NEW p \in Reconciler, ~Pruning(p)', cands'[p] = {},
         pc'[p] \in {"scan", "work"} => ~HasGit(Tmp(p))'
  PROVE  Books(p)'
BY DEF Books, Pruning

\* The steps of a landing outside _prune_cache keep its books.
LEMMA LandingBooks ==
  ASSUME BookInv, NEW p \in Reconciler,
         Start(p) \/ TakeLock(p) \/ Ensure(p) \/ Work(p) \/ Crash(p) \/ ScanFailed(p),
         open' \in [Reconciler -> Dir \cup {None}]
  PROVE  BookType' /\ OneDir' /\ Books(p)'
<1> USE DEF BookInv, LockInv, LockType, BookType, prune
<1>a. /\ cands[p] = {} \/ Pruning(p)
      /\ Clone(p) \in Dir /\ Tmp(p) \in Dir /\ Clone(p) # Tmp(p)
      /\ \A r \in Repo : <<r, "clone">> \in Dir /\ <<r, "tmp">> \in Dir
  BY DEF Books, Clone, Tmp, Dir
<1>b. \A label : Goto(p, label) => pc'[p] = label
  BY DEF Goto
<1>1. CASE Start(p)
  BY <1>1, <1>a, <1>b, OneDirKept, NotPruning DEF Start, Pruning, HasGit
<1>2. CASE TakeLock(p)
  <2>1. alone' \in [Reconciler -> BOOLEAN]
    BY <1>2 DEF TakeLock
  <2> QED
    BY <1>2, <2>1, <1>a, <1>b, OneDirKept, NotPruning DEF TakeLock, Pruning, HasGit
<1>3. CASE Probe(p)
  BY <1>3, <1>a, <1>b, OneDirKept, NotPruning DEF Probe, Leave, Pruning, HasGit
<1>4. CASE Fetch(p)
  <2>1. ~HasGit(Tmp(p))
    BY <1>4 DEF Fetch, OneDir, Clone, Tmp
  <2>2. HasGit(Tmp(p))' = HasGit(Tmp(p))
    BY <1>4 DEF Fetch, HasGit, Tmp
  <2> QED
    BY <1>4, <2>1, <2>2, <1>a, <1>b, OneDirKept, NotPruning DEF Fetch, Leave, Pruning, HasGit
<1>5. CASE StartClone(p)
  <2>1. disk' \in [Dir -> Content]
    BY <1>5, <1>a DEF StartClone, Content
  <2>2. OneDir'
    BY <1>5, <1>a DEF StartClone, OneDir, HasGit, Clone, Tmp
  <2> QED
    BY <1>5, <2>1, <2>2, <1>a, <1>b, NotPruning DEF StartClone, Pruning
<1>6. CASE EndClone(p)
  <2>1. disk' \in [Dir -> Content]
    BY <1>6, <1>a DEF EndClone, Content
  <2>2. \A d \in Dir : HasGit(d)' => HasGit(d)
    BY <1>6, <1>a DEF EndClone, HasGit
  <2> QED
    BY <1>6, <2>1, <2>2, <1>a, <1>b, OneDirKept, NotPruning DEF EndClone, Pruning
<1>7. CASE CloneFailed(p)
  <2>1. disk' \in [Dir -> Content]
    BY <1>7, <1>a DEF CloneFailed, Content
  <2>2. \A d \in Dir : HasGit(d)' => HasGit(d)
    BY <1>7, <1>a DEF CloneFailed, HasGit
  <2> QED
    BY <1>7, <2>1, <2>2, <1>a, <1>b, OneDirKept, NotPruning DEF CloneFailed, Leave, Pruning
<1>8. CASE Rename(p)
  <2>1. disk' \in [Dir -> Content]
    BY <1>8, <1>a DEF Rename, Content
  <2>2. OneDir'
    BY <1>8, <1>a DEF Rename, OneDir, HasGit, Clone, Tmp
  <2>3. ~HasGit(Tmp(p))'
    BY <1>8, <1>a DEF Rename, HasGit, Clone, Tmp
  <2> QED
    BY <1>8, <2>1, <2>2, <2>3, <1>a, <1>b, NotPruning DEF Rename, Leave, Pruning
<1>9. CASE Work(p)
  BY <1>9, <1>a, <1>b, OneDirKept, NotPruning DEF Work, Leave, Pruning, HasGit
<1>10. CASE ScanFailed(p)
  BY <1>10, <1>a, <1>b, OneDirKept, NotPruning DEF ScanFailed, Leave, Pruning, HasGit
<1>11. CASE Crash(p)
  <2>1. BookType' /\ cands'[p] = {}
    BY <1>11, SizeAssumption DEF Crash, LeftTorn, Forget
  <2> QED
    BY <1>11, <2>1, <1>b, OneDirKept, NotPruning DEF Crash, Pruning, HasGit
<1> QED
  BY <1>1, <1>2, <1>3, <1>4, <1>5, <1>6, <1>7, <1>8, <1>9, <1>10, <1>11 DEF Ensure

\* A prune's books after a step that leaves its total alone: it counts no more than before.
LEMMA CountsNoMore ==
  ASSUME BookInv, NEW p \in Reconciler, Pruning(p), Pruning(p)', UNCHANGED <<repo, total>>,
         Reckoned(p)' \subseteq Reckoned(p), HasGit(Tmp(p))' => HasGit(Tmp(p)),
         cands'[p] \subseteq cands[p],
         pc'[p] = "remove" => victim'[p] \notin cands'[p] /\ victim'[p][1] # repo[p]
  PROVE  Books(p)'
<1>1. Weight(Reckoned(p)') <= Weight(Reckoned(p)) /\ Weight(Reckoned(p)) \in Nat
  BY ReckonedDirs, WeightLaws DEF BookInv, LockInv
<1>2. Weight(Reckoned(p)') \in Nat
  BY ReckonedDirs, WeightLaws DEF BookInv, LockInv
<1>3. Weight(Reckoned(p)') <= total'[p]
  BY <1>1, <1>2 DEF BookInv, BookType, Books
<1>4. Clone(p)' = Clone(p)
  BY DEF Clone
<1> QED
  BY <1>3, <1>4 DEF BookInv, Books, Pruning

\* The end of a removal keeps the books, whether its path is free after it or not.
LEMMA EndRemoveBooks ==
  ASSUME BookInv, NEW p \in Reconciler, pc[p] = "remove", EndRemove(p),
         UNCHANGED <<repo, cands, victim>>,
         disk'[Clone(p)] # "absent" => disk[Clone(p)] # "absent",
         HasGit(Tmp(p))' => HasGit(Tmp(p))
  PROVE  total' \in [Reconciler -> Nat] /\ Books(p)'
<1> DEFINE v == victim[p]
<1>1. /\ pc'[p] = "prune" /\ Pruning(p) /\ Pruning(p)' /\ Clone(p)' = Clone(p)
      /\ LockType /\ v \in Dir /\ v \notin cands[p] /\ v # Clone(p)
  BY DEF EndRemove, Goto, Pruning, Clone, BookInv, LockInv, LockType, Books
<1>2. Reckoned(p)' \subseteq Reckoned(p) \ {v} /\ v \in Reckoned(p)
  BY <1>1 DEF Reckoned
<1>3. /\ Weight(Reckoned(p)) <= total[p] /\ total[p] \in Nat /\ Size[v[1]] \in Nat
      /\ total \in [Reconciler -> Nat]
  BY <1>1, SizeAssumption DEF BookInv, BookType, Books, Dir
<1>4. CASE disk'[v] = "absent"
  <2>1. Reckoned(p) \in SUBSET Dir /\ Reckoned(p) \ {v} \in SUBSET Dir
    BY <1>1, ReckonedDirs
  <2>2. /\ Weight(Reckoned(p)) = Size[v[1]] + Weight(Reckoned(p) \ {v})
        /\ Weight(Reckoned(p) \ {v}) \in Nat
        /\ Weight(Reckoned(p)') \in Nat /\ Weight(Reckoned(p)') <= Weight(Reckoned(p) \ {v})
    <3> HIDE DEF v
    <3> QED
      BY <1>2, <2>1, WeightLaws
  <2>3. total' = [total EXCEPT ![p] = @ - Size[v[1]]]
    BY <1>4 DEF EndRemove
  <2>4. total'[p] \in Nat /\ Weight(Reckoned(p)') <= total'[p] /\ total' \in [Reconciler -> Nat]
    <3> HIDE DEF v
    <3> QED
      BY <1>3, <2>2, <2>3
  <2> QED
    BY <1>1, <2>4 DEF Books, Pruning, BookInv
<1>5. CASE disk'[v] # "absent"
  <2>1. UNCHANGED total
    BY <1>3, <1>5 DEF EndRemove
  <2>2. Books(p)'
    BY <1>1, <1>2, <2>1, CountsNoMore
  <2> QED
    BY <1>3, <2>1, <2>2
<1> QED
  BY <1>4, <1>5

\* The steps of _prune_cache keep the books.
LEMMA PruneBooks ==
  ASSUME BookInv, NEW p \in Reconciler, Prune(p), ~ScanFailed(p),
         open' \in [Reconciler -> Dir \cup {None}]
  PROVE  BookType' /\ OneDir' /\ Books(p)'
<1> USE DEF BookInv, LockInv, LockType, BookType, prune
<1>a. Clone(p) \in Dir /\ Tmp(p) \in Dir /\ Clone(p) # Tmp(p) /\ victim[p] \in Dir
  BY DEF Clone, Tmp, Dir
<1>b. \A label : Goto(p, label) => pc'[p] = label
  BY DEF Goto
<1>1. CASE Scan(p)
  <2> DEFINE others == {d \in Dir \ {Clone(p)} : HasGit(d)}
             own == IF disk[Clone(p)] = "absent" THEN {} ELSE {Clone(p)}
  <2>1. cands'[p] = others /\ total'[p] = Weight(others \cup own)
    BY <1>1 DEF Scan
  <2>2. others \cup own \in SUBSET Dir
    BY <1>a
  <2>3. Weight(others \cup own) \in Nat
    BY <2>2, WeightLaws
  <2>4. Reckoned(p)' = others \cup own
    BY <1>1, <2>1, <1>b DEF Scan, Reckoned, Clone
  <2>5. BookType'
    BY <1>1, <2>3 DEF Scan
  <2>6. Weight(Reckoned(p)') <= total'[p]
    BY <2>1, <2>3, <2>4
  <2>7. pc'[p] = "prune" /\ Clone(p)' = Clone(p) /\ HasGit(Tmp(p))' = HasGit(Tmp(p))
    BY <1>1, <1>b DEF Scan, Clone, Tmp, HasGit
  <2>8. \A d \in others : d[1] # repo[p]
    BY <1>1, TwoDirs DEF Scan, Books
  <2>9. Books(p)'
    BY <1>1, <2>1, <2>6, <2>7, <2>8 DEF Scan, Books, Pruning
  <2>10. OneDir'
    BY <1>1, OneDirKept DEF Scan, HasGit
  <2> QED
    BY <2>5, <2>9, <2>10
<1>2. CASE PruneDone(p)
  <2>1. BookType' /\ cands'[p] = {} /\ pc'[p] = "work"
    BY <1>2, <1>b DEF PruneDone, Forget
  <2>2. ~HasGit(Tmp(p))'
    BY <1>2 DEF PruneDone, Books, HasGit, Tmp
  <2>3. OneDir'
    BY <1>2, OneDirKept DEF PruneDone, HasGit
  <2> QED
    BY <2>1, <2>2, <2>3, NotPruning DEF Pruning
<1>3. CASE Skip(p)
  <2>1. PICK e \in cands[p] : cands' = [cands EXCEPT ![p] = @ \ {e}]
    BY <1>3 DEF Skip
  <2>2. Reckoned(p)' \subseteq Reckoned(p)
    BY <1>3, <2>1 DEF Skip, Reckoned, Clone
  <2>3. cands'[p] \subseteq cands[p] /\ HasGit(Tmp(p))' = HasGit(Tmp(p))
    BY <1>3, <2>1 DEF Skip, HasGit, Tmp
  <2>4. Books(p)'
    BY <1>3, <2>2, <2>3, CountsNoMore DEF Skip, Pruning
  <2> QED
    BY <1>3, <2>4, OneDirKept DEF Skip, HasGit
<1>4. CASE Evict(p)
  <2>1. PICK e \in cands[p] : BeginRemove(p, e)
    BY <1>4 DEF Evict
  <2>2. Reckoned(p)' \subseteq Reckoned(p)
    BY <1>4, <2>1, <1>b DEF Evict, BeginRemove, Reckoned, Clone
  <2>3. cands'[p] = cands[p] \ {e} /\ victim'[p] = e /\ HasGit(Tmp(p))' = HasGit(Tmp(p))
    BY <1>4, <2>1 DEF Evict, BeginRemove, HasGit, Tmp
  <2>4. Books(p)'
    BY <1>4, <2>1, <2>2, <2>3, <1>b, CountsNoMore DEF Evict, Pruning, Books
  <2>5. BookType'
    BY <1>4, <2>1 DEF Evict, BeginRemove
  <2> QED
    BY <1>4, <2>4, <2>5, OneDirKept DEF Evict, HasGit
<1>c. pc[p] = "remove" /\ open[p] # None =>
        open[p] \in Dir /\ open[p] # Clone(p) /\ open[p] # Tmp(p)
  BY <1>a, OpenApart
<1>5. CASE RemoveSome(p)
  <2>1. PICK c \in {"half", "junk"} : disk' = [disk EXCEPT ![open[p]] = c]
    BY <1>5 DEF RemoveSome
  <2>2. /\ disk' \in [Dir -> Content] /\ \A d \in Dir : HasGit(d)' => HasGit(d)
        /\ disk'[Clone(p)] = disk[Clone(p)]
    BY <1>5, <2>1, <1>a, <1>c DEF RemoveSome, Content, HasGit
  <2>3. Reckoned(p)' = Reckoned(p)
    BY <1>5, <2>2 DEF RemoveSome, Reckoned, Clone
  <2>4. HasGit(Tmp(p))' => HasGit(Tmp(p))
    BY <1>5, <2>2, <1>a DEF RemoveSome, HasGit, Tmp
  <2>5. Books(p)'
    BY <1>5, <2>2, <2>3, <2>4, CountsNoMore DEF RemoveSome, Pruning, Books
  <2> QED
    BY <1>5, <2>2, <2>5, OneDirKept DEF RemoveSome
<1>6. CASE RemoveAll(p)
  <2>a. \/ disk' = disk
        \/ \E c \in {"absent", "junk"} : open[p] # None /\ disk' = [disk EXCEPT ![open[p]] = c]
    BY <1>6, <1>a, NoneAssumption DEF RemoveAll, Dir
  <2>1. /\ disk' \in [Dir -> Content] /\ \A d \in Dir : HasGit(d)' => HasGit(d)
        /\ disk'[Clone(p)] = disk[Clone(p)] /\ disk'[Tmp(p)] = disk[Tmp(p)]
    BY <1>6, <1>a, <1>c, <2>a DEF RemoveAll, Content, HasGit
  <2>2. HasGit(Tmp(p))' => HasGit(Tmp(p))
    BY <1>6, <2>1 DEF RemoveAll, HasGit, Tmp
  <2>3. total' \in [Reconciler -> Nat] /\ Books(p)'
    BY <1>6, <2>1, <2>2, EndRemoveBooks DEF RemoveAll
  <2> QED
    BY <1>6, <2>1, <2>3, OneDirKept DEF RemoveAll
<1>7. CASE RemoveFailed(p)
  <2>1. HasGit(Tmp(p))' => HasGit(Tmp(p))
    BY <1>7 DEF RemoveFailed, HasGit, Tmp
  <2>2. total' \in [Reconciler -> Nat] /\ Books(p)'
    BY <1>7, <2>1, EndRemoveBooks DEF RemoveFailed
  <2>3. faults' \in 0 .. MaxFaults
    BY <1>7, SizeAssumption DEF RemoveFailed
  <2>4. alone' \in [Reconciler -> BOOLEAN] /\ torn' \in SUBSET Repo /\ disk' = disk
    BY <1>7 DEF RemoveFailed, LeftTorn
  <2> QED
    BY <2>2, <2>3, <2>4, OneDirKept DEF HasGit
<1> QED
  BY <1>1, <1>2, <1>3, <1>4, <1>5, <1>6, <1>7 DEF Prune

\* BookInv is kept by every step.
LEMMA BookStep == BookInv /\ [Next]_vars => BookInv'
<1> SUFFICES ASSUME BookInv, [Next]_vars
             PROVE  BookInv'
  OBVIOUS
<1>1. LockInv'
  BY LockStep DEF BookInv
<1>2. ASSUME NEW p \in Reconciler, StepOf(p)
      PROVE  BookInv'
  <2>1. Frame(p)
    BY <1>2, FrameStep DEF BookInv, LockInv
  <2>2. open' \in [Reconciler -> Dir \cup {None}] /\ \A q \in Reconciler : Opened(q)'
    BY <1>2, OpenedStep
  <2>3. BookType' /\ OneDir' /\ Books(p)'
    BY <1>2, <2>2, LandingBooks, PruneBooks DEF StepOf
  <2>4. \A q \in Reconciler \ {p} : Books(q)'
    BY <2>1, OthersBooks
  <2> QED
    BY <1>1, <2>2, <2>3, <2>4 DEF BookInv
<1>3. CASE UNCHANGED vars
  <2>1. \A p \in Reconciler : Reckoned(p)' = Reckoned(p) /\ Clone(p)' = Clone(p) /\ Tmp(p)' = Tmp(p)
    BY <1>3 DEF vars, prune, Reckoned, Clone, Tmp
  <2>2. \A p \in Reconciler : Weight(Reckoned(p)') = Weight(Reckoned(p))
    BY <2>1
  <2>3. \A d : HasGit(d)' = HasGit(d)
    BY <1>3 DEF vars, HasGit
  <2> QED
    BY <1>1, <1>3, <2>1, <2>2, <2>3
       DEF vars, prune, BookInv, BookType, OneDir, Opened, Books, Pruning
<1> QED
  BY <1>2, <1>3 DEF Next, StepOf

\* Every prune's books are true.
LEMMA BooksAlways == Spec => []BookInv
<1>1. Init => BookInv
  <2> SUFFICES ASSUME Init PROVE BookInv
    OBVIOUS
  <2>1. BookType /\ OneDir
    BY SizeAssumption DEF Init, BookType, Content, OneDir, HasGit, Dir
  <2>2. \A p \in Reconciler : Books(p)
    BY DEF Init, Books, Pruning
  <2>3. \A p \in Reconciler : Opened(p)
    BY DEF Init, Opened
  <2> QED
    BY <2>1, <2>2, <2>3, LockInit DEF BookInv
<1>2. BookInv /\ [Next]_vars => BookInv'
  BY BookStep
<1> QED
  BY <1>1, <1>2, PTL DEF Spec

\* The types of the cache's variables; that a total stays a natural number says that a
\* prune never subtracts what it has not added (_prune_cache).
THEOREM TypeCorrectness == Spec => []TypeOK
<1>1. BookInv => TypeOK
  BY DEF BookInv, LockInv, LockType, BookType, Books, TypeOK
<1> QED
  BY <1>1, BooksAlways, PTL

-------------------------------------------------------------------------------
(* A patch is applied in a clone that has all its files                    *)

\* A repository's clone is missing or whole, but for a removal in progress.
Tidy(r) ==
  \/ disk[<<r, "clone">>] \in {"absent", "whole"}
  \/ \E q \in Reconciler : open[q] = <<r, "clone">>

\* No removal has followed a .tmp directory that was renamed, and none is in one that a
\* landing fills.
Spared(r) ==
  \A q \in Reconciler :
    /\ open[q] = <<r, "clone">> => victim[q] = <<r, "clone">>
    /\ open[q] = <<r, "tmp">> =>
         \A p \in Reconciler : repo[p] = r => pc[p] \notin {"clone", "rename"}

\* What a landing has made of its directories.
Ready(p) ==
  /\ pc[p] = "clone" => disk[Tmp(p)] = "part"
  /\ pc[p] = "rename" => disk[Tmp(p)] = "whole"
  /\ pc[p] \in {"scan", "prune", "remove", "work"} => disk[Clone(p)] = "whole"

\* What is true of a repository that is not torn.
Sound(r) == Tidy(r) /\ Spared(r) /\ \A p \in Reconciler : repo[p] = r => Ready(p)

WholeInv == BookInv /\ \A r \in Repo \ torn : Sound(r)

\* None is none of the directories.
LEMMA NoneIsNoDir == \A r \in Repo : None # <<r, "clone">> /\ None # <<r, "tmp">>
BY NoneAssumption

\* Nothing is being deleted in the clone of a landing, nor in what it fills.
LEMMA NotOpen ==
  ASSUME BookInv, NEW p \in Reconciler, Inside(p), Spared(repo[p]), NEW q \in Reconciler
  PROVE  /\ open[q] # Clone(p)
         /\ pc[p] \in {"clone", "rename"} => open[q] # Tmp(p)
<1>1. ASSUME open[q] = Clone(p) PROVE FALSE
  <2>1. Clone(p) # None
    BY NoneAssumption, OwnClone DEF BookInv, LockInv, Dir
  <2>2. pc[q] = "remove" /\ victim[q] = Clone(p)
    BY <1>1, <2>1 DEF BookInv, Opened, Spared, Clone
  <2>3. /\ lock[LockOf(Clone(p))] = p /\ lock[LockOf(Clone(p))] = q
        /\ LockOf(Clone(p)) # LockOf(Clone(q))
    BY <2>2 DEF BookInv, LockInv
  <2> QED
    BY <2>3
<1> QED
  BY <1>1 DEF Spared, Tmp

\* Two landings are in different repositories.
LEMMA LandingsApart ==
  ASSUME BookInv, NEW p \in Reconciler, NEW q \in Reconciler, Inside(p), Inside(q),
         repo[p] = repo[q]
  PROVE  p = q
BY DEF BookInv, LockInv, Clone

\* A step of p leaves the others ready in a repository that is not torn.
LEMMA OthersReady ==
  ASSUME BookInv, NEW p \in Reconciler, Frame(p), NEW q \in Reconciler \ {p},
         Spared(repo[q]), Ready(q)
  PROVE  Ready(q)'
<1>1. pc'[q] = pc[q] /\ Clone(q)' = Clone(q) /\ Tmp(q)' = Tmp(q)
  BY DEF Frame, Clone, Tmp
<1>2. Clone(q) \in Dir /\ Tmp(q) \in Dir /\ Clone(q)[1] = repo[q] /\ Tmp(q)[1] = repo[q]
  BY DEF Clone, Tmp, Dir, BookInv, LockInv, LockType
<1>3. CASE Inside(q)
  <2>1. ~(Inside(p) /\ repo[p] = repo[q])
    BY <1>3, LandingsApart
  <2>2. ~Changes(p, Clone(q)) /\ (pc[q] \in {"clone", "rename"} => ~Changes(p, Tmp(q)))
    BY <1>2, <1>3, <2>1, NotOpen DEF Changes
  <2> QED
    BY <1>1, <1>2, <2>2 DEF Frame, Ready
<1>4. CASE ~Inside(q)
  BY <1>1, <1>4 DEF Ready, Inside, Landing
<1> QED
  BY <1>3, <1>4

\* A step of p that changes no directory, stops no removal and begins none.
LEMMA DisksKept ==
  ASSUME WholeInv, NEW p \in Reconciler, StepOf(p), UNCHANGED <<disk, open, torn>>,
         \A q \in Reconciler : open[q] # None => victim'[q] = victim[q],
         pc'[p] \notin {"clone", "rename"}, repo'[p] \notin torn => Ready(p)'
  PROVE  \A r \in Repo \ torn' : Sound(r)'
<1> SUFFICES ASSUME NEW r \in Repo \ torn PROVE Sound(r)'
  OBVIOUS
<1>1. Sound(r) /\ Frame(p) /\ BookInv
  BY FrameStep DEF WholeInv, BookInv, LockInv
<1>2. Tidy(r)'
  BY <1>1 DEF Sound, Tidy
<1>3. Spared(r)'
  <2> SUFFICES ASSUME NEW q \in Reconciler, open[q] \in {<<r, "clone">>, <<r, "tmp">>}
               PROVE  /\ open[q] = <<r, "clone">> => victim'[q] = <<r, "clone">>
                      /\ open[q] = <<r, "tmp">> =>
                           \A m \in Reconciler : repo'[m] = r => pc'[m] \notin {"clone", "rename"}
    BY DEF Spared
  <2>1. victim'[q] = victim[q]
    BY NoneIsNoDir
  <2>2. \A m \in Reconciler \ {p} : repo'[m] = repo[m] /\ pc'[m] = pc[m]
    BY <1>1 DEF Frame
  <2> QED
    BY <1>1, <2>1, <2>2 DEF Sound, Spared
<1>4. \A q \in Reconciler : repo'[q] = r => Ready(q)'
  BY <1>1, OthersReady DEF Sound, Frame
<1> QED
  BY <1>2, <1>3, <1>4 DEF Sound

\* A step of a landing on its own repository's directories, after which that repository
\* is torn or sound, leaves the other repositories sound.
LEMMA DisksFilled ==
  ASSUME WholeInv, NEW p \in Reconciler, StepOf(p), Inside(p), pc[p] # "remove",
         UNCHANGED <<repo, victim>>,
         \A q \in Reconciler, r \in Repo \ {repo[p]}, k \in {"clone", "tmp"} :
           open'[q] = <<r, k>> <=> open[q] = <<r, k>>,
         torn' = torn \/ torn' = torn \ {repo[p]},
         repo[p] \notin torn' => Sound(repo[p])'
  PROVE  \A r \in Repo \ torn' : Sound(r)'
<1> SUFFICES ASSUME NEW r \in Repo \ torn', r # repo[p] PROVE Sound(r)'
  OBVIOUS
<1>1. Sound(r) /\ Frame(p) /\ BookInv
  BY FrameStep DEF WholeInv, BookInv, LockInv
<1>2. disk'[<<r, "clone">>] = disk[<<r, "clone">>]
  BY <1>1 DEF Frame, Changes, Dir
<1>3. Tidy(r)'
  BY <1>1, <1>2 DEF Sound, Tidy
<1>4. Spared(r)'
  BY <1>1 DEF Sound, Spared, Frame
<1>5. \A q \in Reconciler : repo'[q] = r => q # p /\ Ready(q)'
  BY <1>1, OthersReady DEF Sound
<1> QED
  BY <1>3, <1>4, <1>5 DEF Sound

\* A removal's step.
LEMMA DisksRemoved ==
  ASSUME WholeInv, NEW p \in Reconciler, StepOf(p), pc[p] = "remove",
         UNCHANGED repo, pc'[p] \in {"remove", "prune", "idle"},
         \A q \in Reconciler \ {p} : open'[q] \in {open[q], None},
         open'[p] \in {open[p], None}, open'[p] # None => victim'[p] = victim[p],
         torn \subseteq torn',
         \A r \in Repo \ torn' :
           disk'[<<r, "clone">>] \in {"absent", disk[<<r, "clone">>]}
             \/ open'[p] = <<r, "clone">>,
         \A r \in Repo \ torn', q \in Reconciler :
           open[q] = <<r, "clone">> =>
             open'[q] = open[q] \/ disk'[<<r, "clone">>] \in {"absent", "whole"}
  PROVE  \A r \in Repo \ torn' : Sound(r)'
<1> SUFFICES ASSUME NEW r \in Repo \ torn' PROVE Sound(r)'
  OBVIOUS
<1>1. Sound(r) /\ Frame(p) /\ BookInv
  BY FrameStep DEF WholeInv, BookInv, LockInv
<1>2. Tidy(r)'
  BY <1>1 DEF Sound, Tidy
<1>3. Spared(r)'
  <2> SUFFICES ASSUME NEW q \in Reconciler, open'[q] \in {<<r, "clone">>, <<r, "tmp">>}
               PROVE  /\ open'[q] = <<r, "clone">> => victim'[q] = <<r, "clone">>
                      /\ open'[q] = <<r, "tmp">> =>
                           \A m \in Reconciler : repo'[m] = r => pc'[m] \notin {"clone", "rename"}
    BY DEF Spared
  <2>1. open'[q] = open[q] /\ victim'[q] = victim[q]
    BY <1>1, NoneIsNoDir DEF Frame
  <2>2. \A m \in Reconciler : repo'[m] = repo[m] /\ (m = p \/ pc'[m] = pc[m])
    BY <1>1 DEF Frame
  <2> QED
    BY <1>1, <2>1, <2>2 DEF Sound, Spared
<1>4. repo[p] = r => Ready(p)'
  <2>1. open[p] # Clone(p) /\ Clone(p) \in Dir
    BY <1>1, OwnClone, OpenApart, NoneAssumption DEF BookInv, LockInv, LockType, Dir
  <2>2. disk'[Clone(p)] = disk[Clone(p)] /\ Clone(p)' = Clone(p)
    BY <1>1, <2>1 DEF Frame, Changes, Clone
  <2> QED
    BY <1>1, <2>2 DEF Sound, Ready
<1>5. \A q \in Reconciler : repo'[q] = r => Ready(q)'
  BY <1>1, <1>4, OthersReady DEF Sound
<1> QED
  BY <1>2, <1>3, <1>5 DEF Sound

\* The steps of a landing outside _prune_cache keep a repository sound.
LEMMA EnsureWhole ==
  ASSUME WholeInv, NEW p \in Reconciler, Ensure(p)
  PROVE  \A r \in Repo \ torn' : Sound(r)'
<1> USE DEF LockType, BookType, prune
<1>a. LockType /\ BookType /\ StepOf(p) /\ Frame(p) /\ BookInv
  BY FrameStep DEF WholeInv, BookInv, LockInv, StepOf
<1>b. \A label : Goto(p, label) => pc'[p] = label
  BY <1>a DEF Goto
<1>c. /\ Clone(p) \in Dir /\ Tmp(p) \in Dir /\ Clone(p) # Tmp(p) /\ repo[p] \in Repo
      /\ Inside(p) /\ pc[p] # "remove"
  BY <1>a DEF Clone, Tmp, Dir, Ensure, Probe, Fetch, StartClone, EndClone, CloneFailed, Rename,
     Inside, Landing
<1>d. repo[p] \notin torn =>
        /\ Tidy(repo[p]) /\ Spared(repo[p]) /\ Ready(p)
        /\ disk[Clone(p)] \in {"absent", "whole"}
  <2>1. repo[p] \notin torn => Tidy(repo[p]) /\ Spared(repo[p]) /\ Ready(p)
    BY <1>c DEF WholeInv, Sound
  <2> QED
    BY <1>a, <1>c, <2>1, NotOpen DEF Tidy, Clone
<1>e. ASSUME UNCHANGED repo, NEW q \in Reconciler, repo'[q] = repo[p], q # p
      PROVE  Ready(q)' /\ pc'[q] \notin {"clone", "rename"}
  <2>1. pc'[q] = pc[q] /\ ~Inside(q)
    BY <1>a, <1>c, <1>e, LandingsApart DEF Frame
  <2> QED
    BY <2>1 DEF Ready, Inside, Landing
<1>1. CASE Probe(p)
  BY <1>1, <1>a, <1>b, DisksKept DEF Probe, Leave, Ready
<1>2. CASE Fetch(p)
  <2>1. repo[p] \notin torn => disk[Clone(p)] = "whole"
    BY <1>2, <1>d DEF Fetch, HasGit
  <2>2. repo[p] \notin torn => Ready(p)'
    BY <1>2, <1>b, <2>1 DEF Fetch, Leave, Ready, Clone
  <2> QED
    BY <1>2, <1>a, <1>b, <2>2, DisksKept DEF Fetch, Leave
<1>3. CASE StartClone(p)
  <2>1. /\ disk'[Clone(p)] = "absent" /\ disk'[Tmp(p)] = "part" /\ pc'[p] = "clone"
        /\ Clone(p)' = Clone(p) /\ Tmp(p)' = Tmp(p)
    BY <1>3, <1>a, <1>b, <1>c DEF StartClone, Clone, Tmp
  <2>2. \A q \in Reconciler : open'[q] # Clone(p) /\ open'[q] # Tmp(p)
    BY <1>3, <1>c, NoneIsNoDir DEF StartClone, Gone, Clone, Tmp
  <2>3. Sound(repo[p])'
    BY <1>3, <1>e, <2>1, <2>2 DEF StartClone, Sound, Tidy, Spared, Ready, Clone, Tmp
  <2>4. \A q \in Reconciler, r \in Repo \ {repo[p]}, k \in {"clone", "tmp"} :
          open'[q] = <<r, k>> <=> open[q] = <<r, k>>
    BY <1>3, NoneIsNoDir DEF StartClone, Gone, Clone, Tmp
  <2> QED
    BY <1>3, <1>a, <1>c, <2>3, <2>4, DisksFilled DEF StartClone
<1>4. CASE EndClone(p)
  <2>1. /\ disk'[Clone(p)] = disk[Clone(p)] /\ pc'[p] = "rename"
        /\ disk[Tmp(p)] = "part" => disk'[Tmp(p)] = "whole"
        /\ Clone(p)' = Clone(p) /\ Tmp(p)' = Tmp(p)
    BY <1>4, <1>a, <1>b, <1>c DEF EndClone, Clone, Tmp
  <2>2. repo[p] \notin torn => Spared(repo[p])' /\ Tidy(repo[p])'
    <3>1. repo[p] \notin torn => \A q \in Reconciler : open[q] # Tmp(p)
      BY <1>4, <1>a, <1>c, <1>d, NotOpen DEF EndClone
    <3> QED
      BY <1>4, <1>d, <2>1, <3>1 DEF EndClone, Spared, Tidy, Clone, Tmp
  <2>3. repo[p] \notin torn => Sound(repo[p])'
    BY <1>4, <1>d, <1>e, <2>1, <2>2 DEF EndClone, Sound, Ready
  <2> QED
    BY <1>4, <1>a, <1>c, <2>3, DisksFilled DEF EndClone
<1>5. CASE CloneFailed(p)
  <2>1. /\ disk'[Clone(p)] = disk[Clone(p)] /\ pc'[p] = "idle"
        /\ Clone(p)' = Clone(p) /\ Tmp(p)' = Tmp(p)
    BY <1>5, <1>a, <1>b, <1>c DEF CloneFailed, Leave, Clone, Tmp
  <2>2. \A q \in Reconciler :
          open'[q] # Tmp(p) /\ (open'[q] = Clone(p) => open[q] = Clone(p))
    BY <1>5, <1>c, NoneIsNoDir DEF CloneFailed, Gone, Clone, Tmp
  <2>3. repo[p] \notin torn => Spared(repo[p])' /\ Tidy(repo[p])'
    BY <1>5, <1>d, <2>1, <2>2 DEF CloneFailed, Spared, Tidy, Clone, Tmp
  <2>4. repo[p] \notin torn => Sound(repo[p])'
    BY <1>5, <1>e, <2>1, <2>3 DEF CloneFailed, Sound, Ready
  <2>5. \A q \in Reconciler, r \in Repo \ {repo[p]}, k \in {"clone", "tmp"} :
          open'[q] = <<r, k>> <=> open[q] = <<r, k>>
    BY <1>5, NoneIsNoDir DEF CloneFailed, Gone, Tmp
  <2> QED
    BY <1>5, <1>a, <1>c, <2>4, <2>5, DisksFilled DEF CloneFailed
<1>6. CASE Rename(p)
  <2>1. CASE disk[Tmp(p)] = "absent"
    BY <1>6, <1>a, <1>b, <2>1, DisksKept DEF Rename, Leave, Ready
  <2>2. CASE disk[Tmp(p)] # "absent"
    <3>1. /\ disk'[Clone(p)] = disk[Tmp(p)] /\ pc'[p] = "scan"
          /\ Clone(p)' = Clone(p) /\ Tmp(p)' = Tmp(p) /\ UNCHANGED <<repo, victim, torn>>
      BY <1>6, <1>a, <1>b, <1>c, <2>2 DEF Rename, Clone, Tmp
    <3>2. /\ \A q \in Reconciler : open'[q] # Tmp(p)
          /\ repo[p] \notin torn => open' = open
      <4>1. open' = [q \in Reconciler |-> IF open[q] = Tmp(p) THEN Clone(p) ELSE open[q]]
        BY <1>6, <2>2 DEF Rename
      <4>2. repo[p] \notin torn => \A q \in Reconciler : open[q] # Tmp(p)
        BY <1>6, <1>a, <1>c, <1>d, NotOpen DEF Rename
      <4> QED
        BY <1>a, <1>c, <4>1, <4>2
    <3>3. repo[p] \notin torn => disk'[Clone(p)] = "whole"
      BY <1>6, <1>d, <3>1 DEF Rename, Ready
    <3>4. repo[p] \notin torn => Spared(repo[p])' /\ Tidy(repo[p])'
      BY <1>d, <3>1, <3>2, <3>3 DEF Spared, Tidy, Clone, Tmp
    <3>5. repo[p] \notin torn => Sound(repo[p])'
      BY <1>e, <3>1, <3>3, <3>4 DEF Sound, Ready
    <3>6. \A q \in Reconciler, r \in Repo \ {repo[p]}, k \in {"clone", "tmp"} :
            open'[q] = <<r, k>> <=> open[q] = <<r, k>>
      BY <1>6, <2>2 DEF Rename, Clone, Tmp
    <3> QED
      BY <1>a, <1>c, <3>1, <3>5, <3>6, DisksFilled
  <2> QED
    BY <2>1, <2>2
<1> QED
  BY <1>1, <1>2, <1>3, <1>4, <1>5, <1>6 DEF Ensure

\* The choice of a directory for removal keeps a repository sound.
LEMMA EvictWhole ==
  ASSUME WholeInv, NEW p \in Reconciler, Evict(p)
  PROVE  \A r \in Repo \ torn' : Sound(r)'
<1> SUFFICES ASSUME NEW r \in Repo \ torn' PROVE Sound(r)'
  OBVIOUS
<1>1. PICK d \in cands[p] : BeginRemove(p, d)
  BY DEF Evict
<1>2. Frame(p) /\ BookInv /\ r \notin torn /\ Sound(r) /\ d \in Dir /\ UNCHANGED <<disk, repo>>
  <2>1. Frame(p) /\ BookInv
    BY FrameStep DEF WholeInv, BookInv, LockInv, StepOf, Prune
  <2> QED
    BY <1>1, <2>1 DEF Evict, BeginRemove, WholeInv, BookInv, LockInv, LockType
<1>3. /\ pc[p] = "prune" /\ pc'[p] = "remove" /\ victim'[p] = d /\ open[p] = None
      /\ open'[p] \in {d, None} /\ \A q \in Reconciler \ {p} : open'[q] = open[q]
  BY <1>1, <1>2 DEF Evict, BeginRemove, Goto, BookInv, LockInv, LockType, BookType, Opened
<1>4. Tidy(r)'
  BY <1>2, <1>3, NoneIsNoDir DEF Sound, Tidy
<1>5. Spared(r)'
  <2>1. ASSUME d = <<r, "tmp">>, NEW m \in Reconciler, repo[m] = r
        PROVE  pc'[m] \notin {"clone", "rename"}
    <3>1. m # p => pc[m] \notin {"clone", "rename"}
      BY <1>1, <2>1 DEF BeginRemove, Tmp
    <3> QED
      BY <1>2, <1>3, <3>1 DEF Frame
  <2>2. ASSUME NEW m \in Reconciler, pc[m] \notin {"clone", "rename"}
        PROVE  pc'[m] \notin {"clone", "rename"}
    BY <1>2, <1>3, <2>2 DEF Frame
  <2>3. \A q \in Reconciler \ {p} : victim'[q] = victim[q]
    BY <1>2 DEF Frame
  <2> QED
    BY <1>2, <1>3, <2>1, <2>2, <2>3, NoneIsNoDir DEF Sound, Spared
<1>6. \A q \in Reconciler : repo'[q] = r => Ready(q)'
  <2>1. repo[p] = r => Ready(p)'
    BY <1>2, <1>3 DEF Sound, Ready, Clone
  <2> QED
    BY <1>2, <2>1, OthersReady DEF Sound
<1> QED
  BY <1>4, <1>5, <1>6 DEF Sound

\* The steps of _prune_cache keep a repository sound.
LEMMA PruneWhole ==
  ASSUME WholeInv, NEW p \in Reconciler, Prune(p)
  PROVE  \A r \in Repo \ torn' : Sound(r)'
<1> USE DEF LockType, BookType, prune
<1>a. LockType /\ BookType /\ StepOf(p) /\ Opened(p) /\ BookInv
  BY DEF WholeInv, BookInv, LockInv, StepOf
<1>b. \A label : Goto(p, label) => pc'[p] = label
  BY <1>a DEF Goto
<1>c. repo[p] \notin torn => Ready(p)
  BY <1>a DEF WholeInv, Sound
<1>1. CASE Scan(p)
  BY <1>1, <1>a, <1>b, <1>c, DisksKept DEF Scan, Ready, Clone
<1>2. CASE ScanFailed(p)
  BY <1>2, <1>a, <1>b, DisksKept DEF ScanFailed, Leave, Ready
<1>3. CASE PruneDone(p)
  <2>1. UNCHANGED open /\ \A q \in Reconciler : open[q] # None => victim'[q] = victim[q]
    BY <1>3, <1>a DEF PruneDone, Forget, Opened
  <2> QED
    BY <1>3, <1>a, <1>b, <1>c, <2>1, DisksKept DEF PruneDone, Ready, Clone
<1>4. CASE Skip(p)
  BY <1>4, <1>a, <1>c, DisksKept DEF Skip, Ready, Clone
<1>5. CASE Evict(p)
  BY <1>5, EvictWhole
<1>6. CASE RemoveSome(p)
  <2>1. /\ UNCHANGED <<pc, repo, open, victim, torn>>
        /\ \A d \in Dir : d # open[p] => disk'[d] = disk[d]
    BY <1>6, <1>a DEF RemoveSome
  <2>2. \A r \in Repo : <<r, "clone">> \in Dir
    BY DEF Dir
  <2> QED
    BY <1>6, <1>a, <2>1, <2>2, DisksRemoved DEF RemoveSome
<1>7. CASE RemoveAll(p)
  <2>1. pc'[p] = "prune" /\ UNCHANGED <<repo, victim, torn>> /\ open'[p] = None
    BY <1>7, <1>a, <1>b DEF RemoveAll, EndRemove, Gone
  <2>2. ASSUME NEW q \in Reconciler \ {p}
        PROVE  \/ open'[q] = open[q]
               \/ open'[q] = None /\ disk'[open[q]] = "absent"
    BY <1>7, <1>a DEF RemoveAll, Gone
  <2>3. ASSUME NEW r \in Repo \ torn
        PROVE  /\ disk'[<<r, "clone">>] \in {"absent", disk[<<r, "clone">>]}
               /\ open[p] = <<r, "clone">> => disk'[<<r, "clone">>] = "absent"
    <3>1. <<r, "clone">> \in Dir /\ <<r, "clone">> # None
      BY NoneIsNoDir DEF Dir
    <3>2. open[p] = <<r, "clone">> => victim[p] = <<r, "clone">>
      BY DEF WholeInv, Sound, Spared
    <3> QED
      BY <1>7, <1>a, <3>1, <3>2 DEF RemoveAll
  <2> QED
    BY <1>7, <1>a, <2>1, <2>2, <2>3, DisksRemoved DEF RemoveAll
<1>8. CASE RemoveFailed(p)
  <2>1. /\ pc'[p] = "prune" /\ UNCHANGED <<disk, repo, victim>> /\ torn \subseteq torn'
        /\ open'[p] = None /\ \A q \in Reconciler \ {p} : open'[q] = open[q]
        /\ \A r \in Repo \ torn' : open[p] # <<r, "clone">>
    BY <1>8, <1>a, <1>b DEF RemoveFailed, EndRemove, LeftTorn
  <2> QED
    BY <1>8, <1>a, <2>1, DisksRemoved DEF RemoveFailed
<1> QED
  BY <1>1, <1>2, <1>3, <1>4, <1>5, <1>6, <1>7, <1>8 DEF Prune

\* The death of a process keeps a repository sound, or tears it.
LEMMA CrashWhole ==
  ASSUME WholeInv, NEW p \in Reconciler, Crash(p)
  PROVE  \A r \in Repo \ torn' : Sound(r)'
<1>1. /\ StepOf(p) /\ UNCHANGED <<disk, repo>> /\ pc'[p] = "idle" /\ open'[p] = None
      /\ \A q \in Reconciler \ {p} : open'[q] = open[q]
  BY DEF StepOf, Crash, Forget, Goto, WholeInv, BookInv, LockInv, LockType, BookType
<1>2. CASE pc[p] = "remove"
  <2>1. torn \subseteq torn' /\ \A r \in Repo \ torn' : open[p] # <<r, "clone">>
    BY <1>2 DEF Crash, LeftTorn
  <2> QED
    BY <1>1, <1>2, <2>1, DisksRemoved
<1>3. CASE pc[p] # "remove"
  <2>1. open[p] = None /\ UNCHANGED torn
    BY <1>3 DEF Crash, LeftTorn, WholeInv, BookInv, BookType, Opened
  <2>2. UNCHANGED open /\ \A q \in Reconciler : open[q] # None => victim'[q] = victim[q]
    BY <2>1 DEF Crash, Forget, WholeInv, BookInv, BookType, LockInv, LockType
  <2> QED
    BY <1>1, <2>1, <2>2, DisksKept DEF Ready
<1> QED
  BY <1>2, <1>3

\* Every step keeps the repositories sound that are not torn.
LEMMA WholeStep == WholeInv /\ [Next]_vars => WholeInv'
<1> SUFFICES ASSUME WholeInv, [Next]_vars PROVE WholeInv'
  OBVIOUS
<1>1. BookInv'
  BY BookStep DEF WholeInv
<1>2. ASSUME NEW p \in Reconciler, Start(p) \/ TakeLock(p) \/ Work(p)
      PROVE  \A r \in Repo \ torn' : Sound(r)'
  <2>1. /\ StepOf(p) /\ UNCHANGED <<disk, open, torn>>
        /\ pc'[p] \in {"lock", "probe", "idle"}
        /\ \A q \in Reconciler : open[q] # None => victim'[q] = victim[q]
    BY <1>2 DEF StepOf, Start, TakeLock, Work, Leave, Goto, prune, WholeInv, BookInv, LockInv,
       LockType, Opened
  <2> QED
    BY <2>1, DisksKept DEF Ready
<1>3. CASE UNCHANGED vars
  <2>1. \A r \in Repo \ torn' : Tidy(r)' /\ Spared(r)'
    BY <1>3 DEF vars, prune, WholeInv, Sound, Tidy, Spared
  <2>2. \A p \in Reconciler : repo'[p] \notin torn' => Ready(p)'
    BY <1>3 DEF vars, prune, WholeInv, Sound, Ready, Clone, Tmp, BookInv, LockInv, LockType
  <2> QED
    BY <1>1, <2>1, <2>2 DEF WholeInv, Sound
<1>4. (\A r \in Repo \ torn' : Sound(r)') => WholeInv'
  BY <1>1 DEF WholeInv
<1> QED
  BY <1>2, <1>3, <1>4, EnsureWhole, PruneWhole, CrashWhole DEF Next

\* "a half-written clone can never be mistaken for a cache hit": whatever the slugs are, a
\* patch is applied in a clone that has all its files, but for a removal that did not end
\* and for a prune that met git clone (_ensure_clone, _prune_cache).
THEOREM ClonesWhole == Spec => []WorksInWholeClone
<1>1. BookInv /\ Init => WholeInv
  <2> SUFFICES ASSUME BookInv, Init PROVE WholeInv
    OBVIOUS
  <2>1. \A r \in Repo : Tidy(r)
    BY DEF Init, Tidy, Dir
  <2>2. \A r \in Repo : Spared(r)
    BY NoneIsNoDir DEF Init, Spared
  <2>3. \A p \in Reconciler : Ready(p)
    BY DEF Init, Ready
  <2> QED
    BY <2>1, <2>2, <2>3 DEF WholeInv, Sound
<1>2. WholeInv => WorksInWholeClone
  BY DEF WholeInv, Sound, Ready, WorksInWholeClone, BookInv, LockInv, LockType
<1> QED
  BY <1>1, <1>2, WholeStep, BooksAlways, PTL DEF Spec

-------------------------------------------------------------------------------
(* Who holds a flock                                                       *)

\* A flock is held by a landing for its clone or by a prune for its victim.
Held ==
  \A l \in Repo \cup Name, q \in Reconciler :
    lock[l] = q =>
      /\ Inside(q)
      /\ l = LockOf(Clone(q)) \/ (pc[q] = "remove" /\ l = LockOf(victim[q]))

\* What p may do to the flocks, for Held to be kept.
LEMMA HeldKept ==
  ASSUME LockType, Held, NEW p \in Reconciler, Frame(p),
         \A l \in Repo \cup Name : lock'[l] \in {lock[l], p, None},
         \A l \in Repo \cup Name : lock'[l] = p =>
           /\ Inside(p)'
           /\ l = LockOf(Clone(p)') \/ (pc'[p] = "remove" /\ l = LockOf(victim'[p]))
  PROVE  Held'
<1> SUFFICES ASSUME NEW l \in Repo \cup Name, NEW q \in Reconciler, lock'[l] = q
             PROVE  /\ Inside(q)'
                    /\ l = LockOf(Clone(q)') \/ (pc'[q] = "remove" /\ l = LockOf(victim'[q]))
  BY DEF Held
<1>1. CASE q = p
  BY <1>1
<1>2. CASE q # p
  <2>1. lock[l] = q
    BY <1>2, NoneAssumption
  <2>2. pc'[q] = pc[q] /\ victim'[q] = victim[q] /\ Clone(q)' = Clone(q)
    BY <1>2 DEF Frame, Clone
  <2> QED
    BY <2>1, <2>2 DEF Held, Inside
<1> QED
  BY <1>1, <1>2

\* Every step keeps Held.
LEMMA HeldStep ==
  ASSUME BookInv, Held, NEW p \in Reconciler, StepOf(p)
  PROVE  Held'
<1> USE DEF LockType, prune
<1>a. LockType /\ Frame(p)
  BY FrameStep DEF BookInv, LockInv
<1>b. \A label : Goto(p, label) => pc'[p] = label
  BY <1>a DEF Goto
<1>c. \A l \in Repo \cup Name : lock[l] = p =>
        Inside(p) /\ (l = LockOf(Clone(p)) \/ (pc[p] = "remove" /\ l = LockOf(victim[p])))
  BY DEF Held
<1>d. LockOf(Clone(p)) \in Repo \cup Name /\ LockOf(victim[p]) \in Repo \cup Name
  BY <1>a, LockNames, OwnClone
<1>1. ASSUME UNCHANGED <<lock, repo>>, NEW label \in Landing \ {"remove"}, Goto(p, label),
             pc[p] # "remove"
      PROVE  Held'
  <2>1. Inside(p)' /\ Clone(p)' = Clone(p)
    BY <1>1, <1>b DEF Inside, Clone
  <2> QED
    BY <1>1, <1>a, <1>c, <2>1, HeldKept
<1>2. ASSUME Leave(p), pc[p] # "remove"
      PROVE  Held'
  <2>1. \A l \in Repo \cup Name : lock'[l] \in {lock[l], None} /\ lock'[l] # p
    BY <1>2, <1>a, <1>c, <1>d, NoneAssumption DEF Leave
  <2> QED
    BY <1>a, <2>1, HeldKept
<1>3. ASSUME EndRemove(p), pc[p] = "remove", UNCHANGED repo
      PROVE  Held'
  <2>1. \A l \in Repo \cup Name :
          lock'[l] \in {lock[l], None} /\ (lock'[l] = p => l = LockOf(Clone(p)))
    BY <1>3, <1>a, <1>c, <1>d, NoneAssumption DEF EndRemove
  <2>2. Inside(p)' /\ Clone(p)' = Clone(p)
    BY <1>3, <1>b DEF EndRemove, Inside, Landing, Clone
  <2> QED
    BY <1>a, <2>1, <2>2, HeldKept
<1>4. CASE Start(p)
  <2>1. \A l \in Repo \cup Name : lock'[l] = lock[l] /\ lock'[l] # p
    BY <1>4, <1>c DEF Start, Inside, Landing
  <2> QED
    BY <1>a, <2>1, HeldKept
<1>5. CASE TakeLock(p)
  <2>1. \A l \in Repo \cup Name :
          lock'[l] \in {lock[l], p} /\ (lock'[l] = p => l = LockOf(Clone(p)))
    BY <1>5, <1>a, <1>c, <1>d DEF TakeLock, Inside, Landing
  <2>2. Inside(p)' /\ Clone(p)' = Clone(p)
    BY <1>5, <1>b DEF TakeLock, Inside, Landing, Clone
  <2> QED
    BY <1>a, <2>1, <2>2, HeldKept
<1>6. CASE Crash(p)
  <2>1. \A l \in Repo \cup Name : lock'[l] \in {lock[l], None} /\ lock'[l] # p
    BY <1>6, <1>a, NoneAssumption DEF Crash
  <2> QED
    BY <1>a, <2>1, HeldKept
<1>7. CASE Evict(p)
  <2>1. PICK e \in cands[p] :
          lock' = [lock EXCEPT ![LockOf(e)] = p] /\ victim' = [victim EXCEPT ![p] = e]
    BY <1>7 DEF Evict, BeginRemove
  <2>2. e \in Dir /\ LockOf(e) \in Repo \cup Name /\ victim'[p] = e
    BY <1>a, <2>1, LockNames
  <2>3. \A l \in Repo \cup Name :
          /\ lock'[l] \in {lock[l], p}
          /\ lock'[l] = p => l = LockOf(Clone(p)) \/ l = LockOf(victim'[p])
    BY <1>7, <1>a, <1>c, <2>1, <2>2 DEF Evict
  <2>4. Inside(p)' /\ Clone(p)' = Clone(p) /\ pc'[p] = "remove"
    BY <1>7, <1>b DEF Evict, Inside, Landing, Clone
  <2> QED
    BY <1>a, <2>3, <2>4, HeldKept
<1>8. CASE Skip(p) \/ RemoveSome(p)
  <2>1. UNCHANGED <<lock, pc, repo, victim>>
    BY <1>8 DEF Skip, RemoveSome
  <2> QED
    BY <2>1 DEF Held, Inside, Clone
<1>9. CASE Ensure(p)
  BY <1>9, <1>1, <1>2
     DEF Ensure, Probe, Fetch, StartClone, EndClone, CloneFailed, Rename, Landing
<1>10. CASE Scan(p) \/ ScanFailed(p) \/ PruneDone(p) \/ Work(p)
  BY <1>10, <1>1, <1>2 DEF Scan, ScanFailed, PruneDone, Work, Landing
<1>11. CASE RemoveAll(p) \/ RemoveFailed(p)
  BY <1>11, <1>3 DEF RemoveAll, RemoveFailed
<1> QED
  BY <1>4, <1>5, <1>6, <1>7, <1>8, <1>9, <1>10, <1>11 DEF StepOf, Prune

\* Held is true always.
LEMMA HeldAlways == Spec => [](BookInv /\ Held)
<1>1. Init => Held
  BY NoneAssumption DEF Init, Held
<1>2. BookInv /\ Held /\ [Next]_vars => Held'
  <2> SUFFICES ASSUME BookInv, Held, [Next]_vars PROVE Held'
    OBVIOUS
  <2>1. ASSUME NEW p \in Reconciler, StepOf(p) PROVE Held'
    BY <2>1, HeldStep
  <2>2. CASE UNCHANGED vars
    BY <2>2 DEF vars, prune, Held, Inside, Clone
  <2> QED
    BY <2>1, <2>2 DEF Next, StepOf
<1> QED
  BY <1>1, <1>2, BooksAlways, PTL DEF Spec

\* A landing that waits for its flock holds no other one, so landings and prunes of one
\* host cannot wait for each other in a circle (_repo_lock, _prune_cache).
THEOREM WaitsEmptyHanded ==
  Spec => [](\A p \in Reconciler : pc[p] = "lock" => \A l \in Repo \cup Name : lock[l] # p)
<1>1. BookInv /\ Held =>
        \A p \in Reconciler : pc[p] = "lock" => \A l \in Repo \cup Name : lock[l] # p
  BY DEF Held, Inside, Landing
<1> QED
  BY <1>1, HeldAlways, PTL

-------------------------------------------------------------------------------
(* The cap                                                                 *)

\* What the cap is a bound of.
Kept == {d \in Dir : HasGit(d)}

\* What a prune that nobody disturbed since it measured can be sure of.
Undisturbed(p) ==
  alone[p] =>
    /\ \A q \in Reconciler \ {p} : ~Inside(q)
    /\ Pruning(p) => Kept \subseteq Reckoned(p)
    /\ pc[p] = "remove" =>
         open[p] = victim[p] \/ (open[p] = None /\ disk[victim[p]] = "absent")
    /\ pc[p] = "work" => Weight(Kept) <= Cap \/ Kept = {Clone(p)}

\* No two slugs with a dot have the same name before it.
DistinctStems == \A r, s \in Dotted : Stem[r] = Stem[s] => r = s

\* A step of p leaves an undisturbed prune alone, or disturbs it and is noticed.
LEMMA OthersUndisturbed ==
  ASSUME BookInv, NEW p \in Reconciler, StepOf(p), NEW q \in Reconciler \ {p}, Undisturbed(q)
  PROVE  Undisturbed(q)'
<1> SUFFICES ASSUME alone'[q] PROVE Undisturbed(q)'
  BY DEF Undisturbed
<1> USE DEF prune
<1>a. LockType /\ BookType /\ Frame(p)
  BY FrameStep DEF BookInv, LockInv
<1>1. alone[q] /\ ~TakeLock(p)
  BY <1>a DEF StepOf, Ensure, Prune, Start, TakeLock, Probe, Fetch, StartClone, EndClone,
     CloneFailed, Rename, Scan, ScanFailed, PruneDone, Skip, Evict, RemoveSome, RemoveAll,
     RemoveFailed, Work, Crash, BookType
<1>2. ~Inside(p)
  BY <1>1 DEF Undisturbed
<1>3. Start(p) \/ Crash(p)
  BY <1>1, <1>2 DEF StepOf, Ensure, Prune, Probe, Fetch, StartClone, EndClone, CloneFailed,
     Rename, Scan, ScanFailed, PruneDone, Skip, Evict, RemoveSome, RemoveAll, RemoveFailed,
     Work, Inside, Landing
<1>4. disk' = disk /\ ~Inside(p)' /\ open'[q] = open[q] /\ victim'[q] = victim[q]
  BY <1>3, <1>a DEF Start, Crash, Forget, Goto, Inside, Landing, LockType, BookType
<1>5. /\ Kept' = Kept /\ Clone(q)' = Clone(q) /\ pc'[q] = pc[q]
      /\ \A r \in Reconciler \ {p} : Inside(r)' = Inside(r)
  BY <1>4, <1>a DEF Kept, HasGit, Clone, Frame, Inside
<1>6. Reckoned(q)' = Reckoned(q)
  BY <1>4, <1>5, <1>a DEF Reckoned, Frame
<1>7. Weight(Kept)' = Weight(Kept)
  BY <1>5
<1> QED
  BY <1>1, <1>4, <1>5, <1>6, <1>7 DEF Undisturbed, Pruning

\* An undisturbed prune skips nothing that git has, if stems differ: the only flock it
\* can find held is the one of its own landing.
LEMMA SkipsNothing ==
  ASSUME DistinctStems, BookInv, Held, NEW p \in Reconciler, Pruning(p),
         \A q \in Reconciler \ {p} : ~Inside(q), pc[p] # "remove",
         NEW d \in Dir, d # Clone(p), lock[LockOf(d)] # None
  PROVE  ~HasGit(d)
<1>1. LockOf(d) \in Repo \cup Name /\ LockType /\ repo[p] \in Repo
  BY LockNames DEF BookInv, LockInv, LockType
<1>2. lock[LockOf(d)] \in Reconciler
  BY <1>1 DEF LockType
<1>3. LockOf(d) = LockOf(Clone(p))
  BY <1>1, <1>2 DEF Held
<1>4. d[1] = repo[p]
  BY <1>3, <1>1, NameAssumption DEF LockOf, Clone, Dir, DistinctStems
<1>5. d = Tmp(p)
  BY <1>4 DEF Dir, Clone, Tmp
<1> QED
  BY <1>5 DEF BookInv, Books, Pruning

\* An undisturbed prune knows of all that is there until it is done.
LEMMA OwnUndisturbed ==
  ASSUME DistinctStems, BookInv, Held, NEW p \in Reconciler, StepOf(p), Undisturbed(p)
  PROVE  Undisturbed(p)'
<1> SUFFICES ASSUME alone'[p] PROVE Undisturbed(p)'
  BY DEF Undisturbed
<1> USE DEF prune
<1>a. LockType /\ BookType /\ Frame(p)
  BY FrameStep DEF BookInv, LockInv
<1>b. \A label : Goto(p, label) => pc'[p] = label
  BY <1>a DEF Goto, LockType
<1>c. \A q \in Reconciler \ {p} : Inside(q)' = Inside(q)
  BY <1>a DEF Frame, Inside
<1>1. ASSUME ~Pruning(p)', pc'[p] # "work", alone[p]
      PROVE  Undisturbed(p)'
  BY <1>1, <1>c DEF Undisturbed, Pruning
<1>2. CASE Scan(p)
  <2> DEFINE others == {d \in Dir \ {Clone(p)} : HasGit(d)}
             own == IF disk[Clone(p)] = "absent" THEN {} ELSE {Clone(p)}
  <2>1. /\ cands'[p] = others /\ pc'[p] = "prune" /\ Clone(p)' = Clone(p) /\ disk' = disk
        /\ \A q \in Reconciler \ {p} : ~Inside(q)
    BY <1>2, <1>a, <1>b DEF Scan, Clone, LockType, BookType
  <2>2. Kept' = Kept /\ Kept \subseteq others \cup own
    BY <2>1 DEF Kept, HasGit
  <2>3. Kept' \subseteq Reckoned(p)'
    BY <2>1, <2>2 DEF Reckoned
  <2> QED
    BY <2>1, <2>3, <1>c DEF Undisturbed, Pruning
<1>3. CASE PruneDone(p)
  <2>1. /\ alone[p] /\ Pruning(p) /\ pc[p] = "prune" /\ pc'[p] = "work"
        /\ total[p] <= Cap \/ cands[p] = {}
        /\ Kept' = Kept /\ Clone(p)' = Clone(p)
    BY <1>3, <1>b DEF PruneDone, Pruning, Kept, HasGit, Clone
  <2>2. Kept \subseteq Reckoned(p)
    BY <2>1 DEF Undisturbed
  <2>3. CASE total[p] <= Cap
    <3>1. Weight(Kept) <= Weight(Reckoned(p)) /\ Weight(Kept) \in Nat /\ Weight(Reckoned(p)) \in Nat
      BY <2>2, <1>a, ReckonedDirs, WeightLaws DEF Kept
    <3>2. Weight(Reckoned(p)) <= total[p] /\ total[p] \in Nat
      BY <2>1, <1>a DEF BookInv, Books, BookType
    <3>3. Weight(Kept') <= Cap
      BY <2>1, <2>3, <3>1, <3>2, SizeAssumption
    <3> QED
      BY <2>1, <3>3, <1>c DEF Undisturbed, Pruning
  <2>4. CASE cands[p] = {}
    <3>1. Kept' = {} \/ Kept' = {Clone(p)'}
      BY <2>1, <2>2, <2>4 DEF Reckoned
    <3>2. Weight(Kept') <= Cap \/ Kept' = {Clone(p)'}
      BY <3>1, WeightEmpty, SizeAssumption
    <3> QED
      BY <2>1, <3>2, <1>c DEF Undisturbed, Pruning
  <2> QED
    BY <2>1, <2>3, <2>4
<1>4. CASE Skip(p)
  <2>1. PICK e \in cands[p] : lock[LockOf(e)] # None /\ cands' = [cands EXCEPT ![p] = @ \ {e}]
    BY <1>4 DEF Skip
  <2>2. /\ alone[p] /\ Pruning(p) /\ pc[p] = "prune" /\ pc' = pc /\ e \in Dir /\ e # Clone(p)
        /\ Kept' = Kept /\ Clone(p)' = Clone(p) /\ cands'[p] = cands[p] \ {e} /\ disk' = disk
    BY <1>4, <2>1, <1>a DEF Skip, Pruning, LockType, BookInv, Books, Kept, HasGit, Clone
  <2>3. ~HasGit(e)
    BY <2>1, <2>2, SkipsNothing DEF Undisturbed
  <2>4. Kept' \subseteq Reckoned(p)'
    BY <2>2, <2>3 DEF Undisturbed, Reckoned, Kept
  <2> QED
    BY <2>2, <2>4, <1>c DEF Undisturbed
<1>5. CASE Evict(p)
  <2>1. PICK e \in cands[p] :
          /\ cands' = [cands EXCEPT ![p] = @ \ {e}] /\ victim' = [victim EXCEPT ![p] = e]
          /\ open' = [open EXCEPT ![p] = IF disk[e] = "absent" THEN None ELSE e]
    BY <1>5 DEF Evict, BeginRemove
  <2>2. /\ alone[p] /\ Pruning(p) /\ pc[p] = "prune" /\ pc'[p] = "remove"
        /\ Kept' = Kept /\ Clone(p)' = Clone(p) /\ disk' = disk
        /\ cands'[p] = cands[p] \ {e} /\ victim'[p] = e
        /\ open'[p] = victim'[p] \/ (open'[p] = None /\ disk'[victim'[p]] = "absent")
    BY <1>5, <2>1, <1>a, <1>b DEF Evict, Pruning, LockType, BookType, Kept, HasGit, Clone
  <2>3. Kept' \subseteq Reckoned(p)'
    BY <2>2 DEF Undisturbed, Reckoned
  <2> QED
    BY <2>2, <2>3, <1>c DEF Undisturbed
<1>6. CASE RemoveSome(p) \/ RemoveAll(p)
  <2>1. /\ alone[p] /\ Pruning(p) /\ pc[p] = "remove" /\ pc'[p] \in {"prune", "remove"}
        /\ Clone(p)' = Clone(p) /\ cands' = cands /\ victim' = victim
        /\ open[p] = victim[p] \/ (open[p] = None /\ disk[victim[p]] = "absent")
    BY <1>6, <1>b DEF RemoveSome, RemoveAll, EndRemove, Pruning, Clone, Undisturbed
  <2>2. Kept' \subseteq Kept
    BY <2>1, <1>a DEF Frame, Kept
  <2>3. /\ victim[p] \in Dir /\ victim[p] # None /\ Clone(p) \in Dir
        /\ open[p] # Clone(p)
    BY <2>1, <1>a, OwnClone, OpenApart, NoneAssumption DEF BookInv, LockType, Dir
  <2>4. disk'[Clone(p)] = disk[Clone(p)]
    BY <2>1, <2>3, <1>a DEF Frame, Changes
  <2>5. pc'[p] = "prune" => victim[p] \notin Kept'
    BY <1>6, <2>1, <2>3, <1>a DEF RemoveSome, RemoveAll, Kept, HasGit, BookType
  <2>6. pc'[p] = "remove" =>
          open'[p] = victim'[p] \/ (open'[p] = None /\ disk'[victim'[p]] = "absent")
    BY <1>6, <1>b, <2>1 DEF RemoveSome, RemoveAll, EndRemove
  <2>7. Kept' \subseteq Reckoned(p)'
    BY <2>1, <2>2, <2>4, <2>5 DEF Undisturbed, Reckoned
  <2> QED
    BY <2>1, <2>6, <2>7, <1>c DEF Undisturbed
<1>7. CASE RemoveFailed(p) \/ TakeLock(p) \/ Start(p)
  BY <1>7, <1>a DEF RemoveFailed, TakeLock, Start, BookType
<1>8. CASE Ensure(p) \/ ScanFailed(p) \/ Work(p) \/ Crash(p)
  BY <1>8, <1>b, <1>1
     DEF Ensure, Probe, Fetch, StartClone, EndClone, CloneFailed, Rename, ScanFailed, Work, Crash,
         Leave, Pruning
<1> QED
  BY <1>2, <1>3, <1>4, <1>5, <1>6, <1>7, <1>8 DEF StepOf, Prune

CapInv == BookInv /\ Held /\ \A p \in Reconciler : Undisturbed(p)

\* CapInv is kept by every step.
LEMMA CapStep == DistinctStems /\ CapInv /\ [Next]_vars => CapInv'
<1> SUFFICES ASSUME DistinctStems, CapInv, [Next]_vars
             PROVE  CapInv'
  OBVIOUS
<1>1. BookInv'
  BY BookStep DEF CapInv
<1>2. ASSUME NEW p \in Reconciler, StepOf(p)
      PROVE  Held' /\ \A q \in Reconciler : Undisturbed(q)'
  BY <1>2, HeldStep, OwnUndisturbed, OthersUndisturbed DEF CapInv
<1>3. CASE UNCHANGED vars
  <2>1. Kept' = Kept
    BY <1>3 DEF vars, Kept, HasGit
  <2>2. \A p \in Reconciler :
          Reckoned(p)' = Reckoned(p) /\ Clone(p)' = Clone(p) /\ Inside(p)' = Inside(p)
    BY <1>3 DEF vars, prune, Reckoned, Clone, Inside
  <2>3. Held'
    BY <1>3, <2>2 DEF vars, prune, Held, CapInv
  <2>4. Weight(Kept)' = Weight(Kept)
    BY <2>1
  <2> QED
    BY <1>1, <1>3, <2>1, <2>2, <2>3, <2>4 DEF vars, prune, CapInv, Undisturbed, Pruning
<1> QED
  BY <1>1, <1>2, <1>3 DEF Next, StepOf, CapInv

\* "Evict least-recently-used clones until the configured cap is met": whatever the sizes
\* and the cap are, a prune that nobody disturbed leaves the cache within the cap or
\* with its own clone alone, if no two dotted slugs share a flock (_prune_cache).
THEOREM CapIsMet == ASSUME DistinctStems PROVE Spec => []CapMet
<1>1. Init => Held /\ \A p \in Reconciler : Undisturbed(p)
  BY NoneAssumption DEF Init, Held, Undisturbed
<1>2. CapInv /\ [Next]_vars => CapInv'
  BY CapStep
<1>3. BookInv /\ Held /\ (\A p \in Reconciler : Undisturbed(p)) => CapInv
  BY DEF CapInv
<1>4. CapInv => CapMet
  BY DEF CapInv, Undisturbed, CapMet, Kept
<1> QED
  BY <1>1, <1>2, <1>3, <1>4, BooksAlways, PTL DEF Spec
================================================================================
