----------------------------- MODULE RelayProofs -----------------------------
(***************************************************************************)
(* What holds of Relay for every number of pollers and every budget of     *)
(* faults and restarts: nothing of the job leaves the bucket before the    *)
(* hive holds its result.  The purge is several steps long, so the proof   *)
(* needs that the hive's final status outlasts it.                         *)
(***************************************************************************)
EXTENDS Relay, TLAPS

\* Who acts for a claimant knows one.
Routed ==
  /\ enq = "refresh" => seen # None
  /\ \A w \in Worker : work[w] \notin {"idle", "fetch"} => job[w] # None
  /\ rec # "idle" => report # None

\* A purge runs only after the hive has accepted a final status.
PurgeAcked == rec \notin {"idle", "patch"} => hive.status \in Resolved

IInv == TypeOK /\ Routed /\ PurgeAcked

\* What the steps need of the constants.
LEMMA Facts ==
  /\ None \notin Worker /\ None \notin Urn
  /\ MaxFaults \in Nat /\ MaxRestarts \in Nat /\ Urn \subseteq Nat /\ 0 \in Urn
BY NoneAssumption, BoundAssumption DEF Urn
-------------------------------------------------------------------------------

\* The types, given that who acts for a claimant knows one.
LEMMA TypeStep ==
  ASSUME TypeOK, Routed, [Next]_vars
  PROVE  TypeOK'
<1> USE DEF bucket, enqueuer, poller, reconciler, Fault, NoFault, EnqGoto, WorkGoto, Update, Recent,
            TypeOK, Routed, Terminal, Resolved, Holds
<1>1. CASE RenewNone
  BY <1>1, Facts DEF RenewNone
<1>2. CASE RenewStale
  <2>1. active \in [claimant : Urn, recent : BOOLEAN]
    BY <1>2, Facts DEF RenewStale
  <2>2. [active EXCEPT !.recent = FALSE] \in [claimant : Urn, recent : BOOLEAN]
    BY <2>1
  <2> QED BY <1>2, <2>2, Facts DEF RenewStale
<1>3. CASE RenewRead
  BY <1>3, Facts DEF RenewRead
<1>4. CASE Refresh
  BY <1>4, Facts DEF Refresh, Patch, Accepts
<1>5. CASE ClaimNext
  BY <1>5, Facts DEF ClaimNext
<1>6. CASE NothingToClaim
  BY <1>6, Facts DEF NothingToClaim
<1>7. CASE Release
  BY <1>7, Facts DEF Release, Patch, Accepts
<1>8. CASE Build
  BY <1>8, Facts DEF Build
<1>9. CASE PutClaimant
  BY <1>9, Facts DEF PutClaimant
<1>10. CASE PutPending
  BY <1>10, Facts DEF PutPending
<1>11. CASE MarkRunning
  BY <1>11, Facts DEF MarkRunning, Patch, Accepts
<1>12. CASE MarkFailed
  BY <1>12, Facts DEF MarkFailed, Patch, Accepts
<1>13. CASE Restart
  BY <1>13, Facts DEF Restart, Urn
<1>14. CASE Open
  BY <1>14, Facts DEF Open
<1>15. CASE Report
  BY <1>15, Facts DEF Report, Patch, Accepts
<1>16. CASE Purge
  BY <1>16, Facts DEF Purge, PurgeOne
<1>17. CASE ReconcilerCrash
  BY <1>17, Facts DEF ReconcilerCrash
<1>18. CASE HiveLapse
  BY <1>18, Facts DEF HiveLapse
<1>19. CASE FleetTakes
  BY <1>19, Facts DEF FleetTakes
<1>20. CASE LeaseExpires
  <2>1. lease \in [owner : Worker, live : BOOLEAN]
    BY <1>20, Facts DEF LeaseExpires
  <2>2. [lease EXCEPT !.live = FALSE] \in [owner : Worker, live : BOOLEAN]
    BY <2>1
  <2> QED BY <1>20, <2>2, Facts DEF LeaseExpires
<1>21. ASSUME NEW w \in Worker, Poll(w) \/ WorkerCrash(w)
      PROVE  TypeOK'
  <2>1. CASE Claim(w)
    BY <2>1, Facts DEF Claim
  <2>2. CASE Fetch(w)
    BY <2>2, Facts DEF Fetch
  <2>3. CASE PublishActivity(w)
    BY <2>3, Facts DEF PublishActivity
  <2>4. CASE Execute(w)
    <3>1. CASE Holds(w)
      <4>1. lease \in [owner : Worker, live : BOOLEAN]
        BY <3>1, Facts
      <4>2. [lease EXCEPT !.live = TRUE] \in [owner : Worker, live : BOOLEAN]
        BY <4>1
      <4>3. lease' \in [owner : Worker, live : BOOLEAN] /\ work' = [work EXCEPT ![w] = "put"]
        BY <2>4, <3>1, <4>2 DEF Execute
      <4>4. UNCHANGED <<hive, offload, pending, envelope, terminal, active, enqueuer, job,
                        reconciler, faults>>
        BY <2>4 DEF Execute
      <4> HIDE DEF Holds
      <4> QED BY <4>3, <4>4
    <3>2. CASE ~Holds(w)
      BY <2>4, <3>2, Facts DEF Execute
    <3> QED BY <3>1, <3>2
  <2>5. CASE PutTerminal(w)
    BY <2>5, Facts DEF PutTerminal
  <2>6. CASE WorkerCrash(w)
    BY <2>6, Facts DEF WorkerCrash
  <2> QED BY <1>21, <2>1, <2>2, <2>3, <2>4, <2>5, <2>6 DEF Poll
<1>22. CASE UNCHANGED vars
  BY <1>22 DEF vars
<1> QED BY <1>1, <1>2, <1>3, <1>4, <1>5, <1>6, <1>7, <1>8, <1>9, <1>10, <1>11, <1>12, <1>13, <1>14, <1>15, <1>16, <1>17, <1>18, <1>19, <1>20, <1>21, <1>22 DEF Next, Enqueue, Reconcile

\* A claimant is read before it is used.
LEMMA RoutedStep ==
  ASSUME TypeOK, Routed, [Next]_vars
  PROVE  Routed'
<1> USE DEF bucket, enqueuer, poller, reconciler, Fault, NoFault, EnqGoto, WorkGoto, Update, Recent,
            TypeOK, Routed, Terminal, Resolved
<1>1. CASE RenewNone
  BY <1>1, Facts DEF RenewNone
<1>2. CASE RenewStale
  BY <1>2, Facts DEF RenewStale
<1>3. CASE RenewRead
  BY <1>3, Facts DEF RenewRead
<1>4. CASE Refresh
  BY <1>4, Facts DEF Refresh, Patch, Accepts
<1>5. CASE ClaimNext
  BY <1>5, Facts DEF ClaimNext
<1>6. CASE NothingToClaim
  BY <1>6, Facts DEF NothingToClaim
<1>7. CASE Release
  BY <1>7, Facts DEF Release, Patch, Accepts
<1>8. CASE Build
  BY <1>8, Facts DEF Build
<1>9. CASE PutClaimant
  BY <1>9, Facts DEF PutClaimant
<1>10. CASE PutPending
  BY <1>10, Facts DEF PutPending
<1>11. CASE MarkRunning
  BY <1>11, Facts DEF MarkRunning, Patch, Accepts
<1>12. CASE MarkFailed
  BY <1>12, Facts DEF MarkFailed, Patch, Accepts
<1>13. CASE Restart
  BY <1>13, Facts DEF Restart
<1>14. CASE Open
  BY <1>14, Facts DEF Open
<1>15. CASE Report
  BY <1>15, Facts DEF Report, Patch, Accepts
<1>16. CASE Purge
  BY <1>16, Facts DEF Purge, PurgeOne
<1>17. CASE ReconcilerCrash
  BY <1>17, Facts DEF ReconcilerCrash
<1>18. CASE HiveLapse
  BY <1>18, Facts DEF HiveLapse
<1>19. CASE FleetTakes
  BY <1>19, Facts DEF FleetTakes
<1>20. CASE LeaseExpires
  BY <1>20, Facts DEF LeaseExpires
<1>21. ASSUME NEW w \in Worker, Poll(w) \/ WorkerCrash(w)
      PROVE  Routed'
  <2>1. CASE Claim(w)
    BY <2>1, Facts DEF Claim
  <2>2. CASE Fetch(w)
    BY <2>2, Facts DEF Fetch
  <2>3. CASE PublishActivity(w)
    BY <2>3, Facts DEF PublishActivity
  <2>4. CASE Execute(w)
    BY <2>4, Facts DEF Execute, Holds
  <2>5. CASE PutTerminal(w)
    BY <2>5, Facts DEF PutTerminal
  <2>6. CASE WorkerCrash(w)
    BY <2>6, Facts DEF WorkerCrash
  <2> QED BY <1>21, <2>1, <2>2, <2>3, <2>4, <2>5, <2>6 DEF Poll
<1>22. CASE UNCHANGED vars
  BY <1>22 DEF vars
<1> QED BY <1>1, <1>2, <1>3, <1>4, <1>5, <1>6, <1>7, <1>8, <1>9, <1>10, <1>11, <1>12, <1>13, <1>14, <1>15, <1>16, <1>17, <1>18, <1>19, <1>20, <1>21, <1>22 DEF Next, Enqueue, Reconcile

\* The hive keeps a final status, whoever reports another one.
LEMMA ResolvedStep ==
  ASSUME [Next]_vars, hive.status \in Resolved
  PROVE  hive'.status \in Resolved
<1> USE DEF bucket, enqueuer, poller, reconciler, Fault, NoFault, EnqGoto, WorkGoto, Update, Recent,
            Resolved
<1>1. CASE RenewNone
  BY <1>1, Facts DEF RenewNone
<1>2. CASE RenewStale
  BY <1>2, Facts DEF RenewStale
<1>3. CASE RenewRead
  BY <1>3, Facts DEF RenewRead
<1>4. CASE Refresh
  BY <1>4, Facts DEF Refresh, Patch, Accepts
<1>5. CASE ClaimNext
  BY <1>5, Facts DEF ClaimNext
<1>6. CASE NothingToClaim
  BY <1>6, Facts DEF NothingToClaim
<1>7. CASE Release
  BY <1>7, Facts DEF Release, Patch, Accepts
<1>8. CASE Build
  BY <1>8, Facts DEF Build
<1>9. CASE PutClaimant
  BY <1>9, Facts DEF PutClaimant
<1>10. CASE PutPending
  BY <1>10, Facts DEF PutPending
<1>11. CASE MarkRunning
  BY <1>11, Facts DEF MarkRunning, Patch, Accepts
<1>12. CASE MarkFailed
  BY <1>12, Facts DEF MarkFailed, Patch, Accepts
<1>13. CASE Restart
  BY <1>13, Facts DEF Restart
<1>14. CASE Open
  BY <1>14, Facts DEF Open
<1>15. CASE Report
  BY <1>15, Facts DEF Report, Patch, Accepts
<1>16. CASE Purge
  BY <1>16, Facts DEF Purge, PurgeOne
<1>17. CASE ReconcilerCrash
  BY <1>17, Facts DEF ReconcilerCrash
<1>18. CASE HiveLapse
  BY <1>18, Facts DEF HiveLapse
<1>19. CASE FleetTakes
  BY <1>19, Facts DEF FleetTakes
<1>20. CASE LeaseExpires
  BY <1>20, Facts DEF LeaseExpires
<1>21. ASSUME NEW w \in Worker, Poll(w) \/ WorkerCrash(w)
      PROVE  hive'.status \in Resolved
  <2>1. CASE Claim(w)
    BY <2>1, Facts DEF Claim
  <2>2. CASE Fetch(w)
    BY <2>2, Facts DEF Fetch
  <2>3. CASE PublishActivity(w)
    BY <2>3, Facts DEF PublishActivity
  <2>4. CASE Execute(w)
    BY <2>4, Facts DEF Execute, Holds
  <2>5. CASE PutTerminal(w)
    BY <2>5, Facts DEF PutTerminal
  <2>6. CASE WorkerCrash(w)
    BY <2>6, Facts DEF WorkerCrash
  <2> QED BY <1>21, <2>1, <2>2, <2>3, <2>4, <2>5, <2>6 DEF Poll
<1>22. CASE UNCHANGED vars
  BY <1>22 DEF vars
<1> QED BY <1>1, <1>2, <1>3, <1>4, <1>5, <1>6, <1>7, <1>8, <1>9, <1>10, <1>11, <1>12, <1>13, <1>14, <1>15, <1>16, <1>17, <1>18, <1>19, <1>20, <1>21, <1>22 DEF Next, Enqueue, Reconcile

\* The purge starts with an acknowledged PATCH of a final status.
LEMMA PurgeStep ==
  ASSUME TypeOK, Routed, PurgeAcked, [Next]_vars
  PROVE  PurgeAcked'
<1> USE DEF PurgeAcked
<1>1. CASE rec \notin {"idle", "patch"}
  BY <1>1, ResolvedStep
<1>2. CASE rec = "patch" /\ Report
  BY <1>2 DEF Report, Patch, Update, Routed, TypeOK, Terminal, Resolved
<1>3. CASE rec \in {"idle", "patch"} /\ ~Report
  <2>1. rec' \in {"idle", "patch"}
    BY <1>3 DEF Next, vars, Enqueue, Poll, Reconcile, enqueuer, poller, reconciler, bucket,
      RenewNone, RenewStale, RenewRead, Refresh, ClaimNext, NothingToClaim, Release, Build,
      PutClaimant, PutPending, MarkRunning, MarkFailed, Restart, Claim, Fetch, PublishActivity,
      Execute, PutTerminal, WorkerCrash, Open, Purge, PurgeOne, ReconcilerCrash, HiveLapse,
      FleetTakes, LeaseExpires
  <2> QED BY <2>1
<1> QED BY <1>1, <1>2, <1>3 DEF Report

\* Only a purge takes the job's payload or its terminal object away.
LEMMA EvidenceStep ==
  ASSUME TypeOK, Routed, PurgeAcked, [Next]_vars
  PROVE  (pending # None /\ pending' = None) \/ (terminal # None /\ terminal' = None)
           => hive.status \in Resolved
<1> DEFINE Kept == (pending # None /\ pending' = None) \/ (terminal # None /\ terminal' = None)
                    => hive.status \in Resolved
<1> SUFFICES Kept OBVIOUS
<1> USE DEF bucket, enqueuer, poller, reconciler, Fault, NoFault, EnqGoto, WorkGoto, Update, Recent,
            TypeOK, Routed, PurgeAcked, Terminal, Resolved
<1>1. CASE RenewNone
  BY <1>1, Facts DEF RenewNone
<1>2. CASE RenewStale
  BY <1>2, Facts DEF RenewStale
<1>3. CASE RenewRead
  BY <1>3, Facts DEF RenewRead
<1>4. CASE Refresh
  BY <1>4, Facts DEF Refresh, Patch, Accepts
<1>5. CASE ClaimNext
  BY <1>5, Facts DEF ClaimNext
<1>6. CASE NothingToClaim
  BY <1>6, Facts DEF NothingToClaim
<1>7. CASE Release
  BY <1>7, Facts DEF Release, Patch, Accepts
<1>8. CASE Build
  BY <1>8, Facts DEF Build
<1>9. CASE PutClaimant
  BY <1>9, Facts DEF PutClaimant
<1>10. CASE PutPending
  BY <1>10, Facts DEF PutPending
<1>11. CASE MarkRunning
  BY <1>11, Facts DEF MarkRunning, Patch, Accepts
<1>12. CASE MarkFailed
  BY <1>12, Facts DEF MarkFailed, Patch, Accepts
<1>13. CASE Restart
  BY <1>13, Facts DEF Restart
<1>14. CASE Open
  BY <1>14, Facts DEF Open
<1>15. CASE Report
  BY <1>15, Facts DEF Report, Patch, Accepts
<1>16. CASE Purge
  BY <1>16, Facts DEF Purge, PurgeOne
<1>17. CASE ReconcilerCrash
  BY <1>17, Facts DEF ReconcilerCrash
<1>18. CASE HiveLapse
  BY <1>18, Facts DEF HiveLapse
<1>19. CASE FleetTakes
  BY <1>19, Facts DEF FleetTakes
<1>20. CASE LeaseExpires
  BY <1>20, Facts DEF LeaseExpires
<1>21. ASSUME NEW w \in Worker, Poll(w) \/ WorkerCrash(w)
      PROVE  Kept
  <2>1. CASE Claim(w)
    BY <2>1, Facts DEF Claim
  <2>2. CASE Fetch(w)
    BY <2>2, Facts DEF Fetch
  <2>3. CASE PublishActivity(w)
    BY <2>3, Facts DEF PublishActivity
  <2>4. CASE Execute(w)
    BY <2>4, Facts DEF Execute, Holds
  <2>5. CASE PutTerminal(w)
    BY <2>5, Facts DEF PutTerminal
  <2>6. CASE WorkerCrash(w)
    BY <2>6, Facts DEF WorkerCrash
  <2> QED BY <1>21, <2>1, <2>2, <2>3, <2>4, <2>5, <2>6 DEF Poll
<1>22. CASE UNCHANGED vars
  BY <1>22 DEF vars
<1> QED BY <1>1, <1>2, <1>3, <1>4, <1>5, <1>6, <1>7, <1>8, <1>9, <1>10, <1>11, <1>12, <1>13, <1>14, <1>15, <1>16, <1>17, <1>18, <1>19, <1>20, <1>21, <1>22 DEF Next, Enqueue, Reconcile
-------------------------------------------------------------------------------

THEOREM Invariance == Spec => []IInv
<1>1. Init => IInv
  BY Facts DEF Init, IInv, TypeOK, Routed, PurgeAcked, Resolved
<1>2. IInv /\ [Next]_vars => IInv'
  BY TypeStep, RoutedStep, PurgeStep DEF IInv
<1> QED BY <1>1, <1>2, PTL DEF Spec

\* The job's objects, and every actor's copy of them, keep their types.
THEOREM TypeCorrectness == Spec => []TypeOK
<1>1. IInv => TypeOK
  BY DEF IInv
<1> QED BY <1>1, Invariance, PTL

\* The pending payload and the terminal object leave the bucket only when the
\* hive holds the job's result.
THEOREM EvidenceIsKept == Spec => EvidenceKept
<1>1. IInv /\ [Next]_vars
        => [(pending # None /\ pending' = None) \/ (terminal # None /\ terminal' = None)
              => hive.status \in Resolved]_vars
  BY EvidenceStep DEF IInv
<1> QED BY <1>1, Invariance, PTL DEF Spec, EvidenceKept

-------------------------------------------------------------------------------
\* Four actions change the lease.
LEMMA LeaseChanges ==
  ASSUME [Next]_vars, lease' # lease
  PROVE  \/ \E w \in Worker : Claim(w) \/ Execute(w)
         \/ LeaseExpires
         \/ rec = "claimed" /\ lease' = None /\ UNCHANGED hive
BY DEF Next, vars, Enqueue, Poll, Reconcile, enqueuer, poller, reconciler, bucket,
  RenewNone, RenewStale, RenewRead, Refresh, ClaimNext, NothingToClaim, Release, Build,
  PutClaimant, PutPending, MarkRunning, MarkFailed, Restart, Fetch, PublishActivity,
  PutTerminal, WorkerCrash, Open, Report, Purge, PurgeOne, ReconcilerCrash, HiveLapse,
  FleetTakes

\* Each of them is one step of FlagLease, and so is what the hive accepts.
LEMMA LeaseStep ==
  ASSUME TypeOK, PurgeAcked, [Next]_vars
  PROVE  [Lease!FlagNext]_(Lease!flagVars)
<1> DEFINE Acked == hive.status \in Resolved
<1>1. SUFFICES
        \/ \E w \in Worker :
             \/ /\ lease # None => ~lease.live
                /\ \E l \in BOOLEAN : lease' = [owner |-> w, live |-> l]
                /\ UNCHANGED Acked
             \/ /\ lease # None /\ lease.owner = w
                /\ \E l \in BOOLEAN : (lease.live => l) /\ lease' = [owner |-> w, live |-> l]
                /\ UNCHANGED Acked
        \/ Acked /\ lease' = None /\ UNCHANGED Acked
        \/ lease # None /\ lease' = [owner |-> lease.owner, live |-> FALSE] /\ UNCHANGED Acked
        \/ Acked' = TRUE /\ UNCHANGED lease
        \/ UNCHANGED <<lease, Acked>>
  BY DEF Lease!FlagNext, Lease!flagVars, Lease!Take, Lease!Renew, Lease!Drop, Lease!Expire,
    Lease!Acknowledge
<1>2. CASE lease' = lease
  <2>1. Acked => Acked'
    BY ResolvedStep
  <2>2. Acked \in BOOLEAN /\ Acked' \in BOOLEAN
    OBVIOUS
  <2> HIDE DEF Acked
  <2> QED BY <1>2, <2>1, <2>2
<1>3. ASSUME NEW w \in Worker, Claim(w)
      PROVE  /\ lease # None => ~lease.live
             /\ \E l \in BOOLEAN : lease' = [owner |-> w, live |-> l]
             /\ UNCHANGED Acked
  BY <1>3 DEF Claim
<1>4. ASSUME NEW w \in Worker, Execute(w), lease' # lease
      PROVE  /\ lease # None /\ lease.owner = w
             /\ \E l \in BOOLEAN : (lease.live => l) /\ lease' = [owner |-> w, live |-> l]
             /\ UNCHANGED Acked
  <2>1. Holds(w) /\ lease' = [lease EXCEPT !.live = TRUE] /\ UNCHANGED hive
    BY <1>4 DEF Execute
  <2>2. lease \in [owner : Worker, live : BOOLEAN] /\ lease.owner = w
    BY <2>1 DEF Holds, TypeOK
  <2>3. lease' = [owner |-> w, live |-> TRUE]
    BY <2>1, <2>2
  <2> QED BY <2>1, <2>2, <2>3 DEF Holds
<1>5. ASSUME LeaseExpires
      PROVE  lease # None /\ lease' = [owner |-> lease.owner, live |-> FALSE] /\ UNCHANGED Acked
  <2>1. lease # None /\ lease' = [lease EXCEPT !.live = FALSE] /\ UNCHANGED hive
    BY <1>5 DEF LeaseExpires
  <2>2. lease \in [owner : Worker, live : BOOLEAN]
    BY <2>1 DEF TypeOK
  <2> QED BY <2>1, <2>2
<1>6. ASSUME rec = "claimed", lease' = None, UNCHANGED hive
      PROVE  Acked /\ lease' = None /\ UNCHANGED Acked
  BY <1>6 DEF PurgeAcked
<1> HIDE DEF Acked
<1> QED BY <1>2, <1>3, <1>4, <1>5, <1>6, LeaseChanges

\* The composition keeps to the lease that claim(), renew_claim() and purge()
\* promise (ClaimLeaseProofs!FlagImplementation).
THEOREM LeaseIsKept == Spec => LeaseKept
<1>1. Init => Lease!FlagInit
  BY DEF Init, Lease!FlagInit, Resolved
<1>2. IInv /\ [Next]_vars => [Lease!FlagNext]_(Lease!flagVars)
  BY LeaseStep DEF IInv
<1> QED BY <1>1, <1>2, Invariance, PTL DEF Spec, LeaseKept, Lease!FlagSpec

-------------------------------------------------------------------------------
\* Nobody acts for a claimant that the hive has not issued yet, and a job that
\* runs has one.
Issued ==
  /\ hive.claimant \in 0 .. urn \cup {None}
  /\ hive.status = "running" => hive.claimant # None
  /\ pending \in 0 .. urn \cup {None} /\ envelope \in 0 .. urn \cup {None}
  /\ terminal # None => terminal.claimant \in 0 .. urn
  /\ active # None => active.claimant \in 0 .. urn
  /\ seen \in 0 .. urn \cup {None}
  /\ \A w \in Worker : job[w] \in 0 .. urn \cup {None}
  /\ report # None => report.claimant \in 0 .. urn

\* Until the hive has answered, the terminal object is the one that was opened.
Opened == rec = "patch" => report = terminal

LEMMA IssuedStep ==
  ASSUME TypeOK, Routed, Issued, [Next]_vars
  PROVE  Issued'
<1> USE DEF bucket, enqueuer, poller, reconciler, Fault, NoFault, EnqGoto, WorkGoto, Update, Recent,
            TypeOK, Routed, Terminal, Resolved, Issued
<1>1. CASE RenewNone
  BY <1>1, Facts DEF RenewNone
<1>2. CASE RenewStale
  BY <1>2, Facts DEF RenewStale
<1>3. CASE RenewRead
  BY <1>3, Facts DEF RenewRead
<1>4. CASE Refresh
  BY <1>4, Facts DEF Refresh, Patch, Accepts
<1>5. CASE ClaimNext
  BY <1>5, Facts DEF ClaimNext
<1>6. CASE NothingToClaim
  BY <1>6, Facts DEF NothingToClaim
<1>7. CASE Release
  BY <1>7, Facts DEF Release, Patch, Accepts
<1>8. CASE Build
  BY <1>8, Facts DEF Build
<1>9. CASE PutClaimant
  BY <1>9, Facts DEF PutClaimant
<1>10. CASE PutPending
  BY <1>10, Facts DEF PutPending
<1>11. CASE MarkRunning
  BY <1>11, Facts DEF MarkRunning, Patch, Accepts
<1>12. CASE MarkFailed
  BY <1>12, Facts DEF MarkFailed, Patch, Accepts
<1>13. CASE Restart
  BY <1>13, Facts DEF Restart
<1>14. CASE Open
  BY <1>14, Facts DEF Open
<1>15. CASE Report
  BY <1>15, Facts DEF Report, Patch, Accepts
<1>16. CASE Purge
  BY <1>16, Facts DEF Purge, PurgeOne
<1>17. CASE ReconcilerCrash
  BY <1>17, Facts DEF ReconcilerCrash
<1>18. CASE HiveLapse
  BY <1>18, Facts DEF HiveLapse
<1>19. CASE FleetTakes
  BY <1>19, Facts DEF FleetTakes
<1>20. CASE LeaseExpires
  BY <1>20, Facts DEF LeaseExpires
<1>21. ASSUME NEW w \in Worker, Poll(w) \/ WorkerCrash(w)
      PROVE  Issued'
  <2>1. CASE Claim(w)
    BY <2>1, Facts DEF Claim
  <2>2. CASE Fetch(w)
    BY <2>2, Facts DEF Fetch
  <2>3. CASE PublishActivity(w)
    BY <2>3, Facts DEF PublishActivity
  <2>4. CASE Execute(w)
    BY <2>4, Facts DEF Execute, Holds
  <2>5. CASE PutTerminal(w)
    BY <2>5, Facts DEF PutTerminal
  <2>6. CASE WorkerCrash(w)
    BY <2>6, Facts DEF WorkerCrash
  <2> QED BY <1>21, <2>1, <2>2, <2>3, <2>4, <2>5, <2>6 DEF Poll
<1>22. CASE UNCHANGED vars
  BY <1>22 DEF vars
<1> QED BY <1>1, <1>2, <1>3, <1>4, <1>5, <1>6, <1>7, <1>8, <1>9, <1>10, <1>11,
  <1>12, <1>13, <1>14, <1>15, <1>16, <1>17, <1>18, <1>19, <1>20, <1>21, <1>22 DEF Next, Enqueue, Reconcile

LEMMA OpenedStep ==
  ASSUME TypeOK, Routed, Opened, [Next]_vars
  PROVE  Opened'
<1>1. CASE rec' = "patch" /\ rec # "patch"
  BY <1>1 DEF Next, vars, Enqueue, Poll, Reconcile, enqueuer, poller, reconciler, bucket,
    RenewNone, RenewStale, RenewRead, Refresh, ClaimNext, NothingToClaim, Release, Build,
    PutClaimant, PutPending, MarkRunning, MarkFailed, Restart, Claim, Fetch, PublishActivity,
    Execute, PutTerminal, WorkerCrash, Open, Report, Patch, Purge, PurgeOne, ReconcilerCrash,
    HiveLapse, FleetTakes, LeaseExpires, Opened
<1>2. CASE rec = "patch"
  <2>1. terminal # None
    BY <1>2 DEF Opened, Routed
  <2>2. UNCHANGED terminal
    BY <1>2, <2>1 DEF Next, vars, Enqueue, Poll, Reconcile, enqueuer, poller, reconciler, bucket,
      RenewNone, RenewStale, RenewRead, Refresh, ClaimNext, NothingToClaim, Release, Build,
      PutClaimant, PutPending, MarkRunning, MarkFailed, Restart, Claim, Fetch, PublishActivity,
      Execute, PutTerminal, WorkerCrash, Open, Report, Purge, PurgeOne, ReconcilerCrash,
      HiveLapse, FleetTakes, LeaseExpires
  <2>3. UNCHANGED report
    BY <1>2 DEF Next, vars, Enqueue, Poll, Reconcile, enqueuer, poller, reconciler, bucket,
      RenewNone, RenewStale, RenewRead, Refresh, ClaimNext, NothingToClaim, Release, Build,
      PutClaimant, PutPending, MarkRunning, MarkFailed, Restart, Claim, Fetch, PublishActivity,
      Execute, PutTerminal, WorkerCrash, Open, Report, Purge, PurgeOne, ReconcilerCrash,
      HiveLapse, FleetTakes, LeaseExpires
  <2> QED BY <1>2, <2>2, <2>3 DEF Opened
<1> QED BY <1>1, <1>2 DEF Opened

LEMMA ReportsTrue == Spec => [](Issued /\ Opened)
<1>1. Init => Issued /\ Opened
  BY Facts DEF Init, Issued, Opened
<1>2. IInv /\ Issued /\ Opened /\ [Next]_vars => Issued' /\ Opened'
  BY IssuedStep, OpenedStep DEF IInv
<1> QED BY <1>1, <1>2, Invariance, PTL DEF Spec

\* While there is one claimant, a report can only be refused because the job went
\* back to the queue or is resolved: only the restart's new URN can wedge a job.
THEOREM ReportIsWelcome == Spec => []ReportWelcome
<1>1. IInv /\ Issued => ReportWelcome
  <2> SUFFICES ASSUME IInv, Issued, urn = 0, rec = "patch", hive.status = "running"
               PROVE  hive.claimant = report.claimant
    BY DEF ReportWelcome
  <2>1. hive.claimant \in 0 .. urn /\ report.claimant \in 0 .. urn
    BY DEF IInv, Routed, Issued
  <2> QED BY <2>1
<1> QED BY <1>1, Invariance, ReportsTrue, PTL

\* Only three steps resolve a job.
LEMMA ResolvingStep ==
  ASSUME TypeOK, Routed, Opened, [Next]_vars, offload,
         hive.status \notin Resolved, hive'.status \in Resolved
  PROVE  \/ terminal = [claimant |-> hive'.claimant, status |-> hive'.status]
         \/ enq = "failed" /\ hive'.status = "failed"
<1> DEFINE Recorded == \/ terminal = [claimant |-> hive'.claimant, status |-> hive'.status]
                       \/ enq = "failed" /\ hive'.status = "failed"
<1>1. UNCHANGED hive \/ Refresh \/ ClaimNext \/ Release \/ MarkRunning \/ MarkFailed \/ Report
        \/ HiveLapse \/ FleetTakes
  BY DEF Next, vars, Enqueue, Poll, Reconcile, enqueuer, poller, reconciler, bucket,
    RenewNone, RenewStale, RenewRead, NothingToClaim, Build, PutClaimant, PutPending, Restart,
    Claim, Fetch, PublishActivity, Execute, PutTerminal, WorkerCrash, Open, Purge, PurgeOne,
    ReconcilerCrash, LeaseExpires
<1>2. ~(UNCHANGED hive \/ Refresh \/ ClaimNext \/ Release \/ MarkRunning \/ HiveLapse \/ FleetTakes)
  <2>1. ~UNCHANGED hive
    OBVIOUS
  <2>2. ASSUME NEW by, NEW status \in {"queued", "running"}, Update(by, status)
        PROVE  FALSE
    <3>1. hive'.status = status
      BY <2>2 DEF Update
    <3> QED BY <3>1, <2>2 DEF Resolved
  <2>3. ~(Refresh \/ ClaimNext \/ Release \/ MarkRunning \/ HiveLapse)
    BY <2>1, <2>2 DEF Refresh, ClaimNext, Release, MarkRunning, HiveLapse, Patch
  <2>4. ~FleetTakes
    BY DEF FleetTakes
  <2> QED BY <2>1, <2>2, <2>3, <2>4
<1>3. CASE MarkFailed
  BY <1>3 DEF MarkFailed, Patch, Update, Resolved
<1>4. CASE Report
  <2>1. report = terminal /\ report \in Terminal
    BY <1>4 DEF Report, Opened, Routed, TypeOK
  <2>2. hive' = [status |-> report.status, claimant |-> report.claimant]
    BY <1>4, <2>1 DEF Report, Patch, Update, Terminal, Resolved
  <2>3. report = [claimant |-> report.claimant, status |-> report.status]
    BY <2>1 DEF Terminal
  <2> QED BY <2>1, <2>2, <2>3
<1> QED BY <1>1, <1>2, <1>3, <1>4

\* What the hive learns is what the bucket holds, although the reconciler asks
\* for the one and writes the other in two steps.
THEOREM ResultIsRecorded == Spec => ResultRecorded
<1>1. IInv /\ Opened /\ [Next]_vars =>
        [offload /\ hive.status \notin Resolved /\ hive'.status \in Resolved
           => \/ terminal = [claimant |-> hive'.claimant, status |-> hive'.status]
              \/ enq = "failed" /\ hive'.status = "failed"]_vars
  BY ResolvingStep DEF IInv
<1> QED BY <1>1, Invariance, ReportsTrue, PTL DEF Spec, ResultRecorded
===============================================================================
