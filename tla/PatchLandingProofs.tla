-------------------------- MODULE PatchLandingProofs -------------------------
(***************************************************************************)
(* What holds of PatchLanding for every number of reconcilers, on any      *)
(* placement of them on hosts.  The commit that the hive is told of is on  *)
(* the remote because the flock keeps the clone's HEAD what rev-parse read *)
(* until the push, and no push moves an existing branch.  Only that no     *)
(* patch is lost needs a host for each of them.                            *)
(***************************************************************************)
EXTENDS PatchLanding, TLAPS

\* Who is inside the clone holds the flock, and what HEAD is there.
Inside(r) ==
  /\ pc[r] \in Landing => lock[On[r]] = r
  /\ pc[r] = "apply" => head[On[r]] = "base"
  /\ pc[r] = "push" => sha[r] \in Sha /\ head[On[r]] = sha[r]

Locked == \A r \in Reconciler : Inside(r)

\* A commit on its way to the hive, and one the hive has, is the branch.
Landed ==
  /\ \A r \in Reconciler :
       pc[r] \in {"report", "fallback"} /\ sha[r] # None => branch = sha[r]
  /\ ReportedCommitLanded

\* Only a rejected review gets to the fallback.
Reviewed ==
  /\ \A r \in Reconciler : pc[r] = "fallback" => Review /\ legacy
  /\ ReviewStaysReview

IInv == TypeOK /\ Locked /\ Landed /\ Reviewed
-------------------------------------------------------------------------------

\* The types need the flock: what is pushed is what git am has made.
LEMMA TypeStep ==
  ASSUME TypeOK, Locked, [Next]_vars
  PROVE  TypeOK'
<1> USE DEF given, shared, local, TypeOK, Locked, Inside, Landing, Goto, Unlock, Result, Review
<1>1. ASSUME NEW r \in Reconciler, Open(r) \/ Land(r) \/ Save(r) \/ Report(r) \/ Crash(r)
      PROVE  TypeOK'
  <2>1. CASE Open(r)
    BY <2>1, HostAssumption, ShaAssumption DEF Open
  <2>2. CASE LandRefused(r)
    BY <2>2, HostAssumption, ShaAssumption DEF LandRefused
  <2>3. CASE TakeLock(r)
    BY <2>3, HostAssumption, ShaAssumption DEF TakeLock
  <2>4. CASE BranchFound(r)
    BY <2>4, HostAssumption, ShaAssumption DEF BranchFound
  <2>5. CASE BranchAbsent(r)
    BY <2>5, HostAssumption, ShaAssumption DEF BranchAbsent
  <2>6. CASE Prepare(r)
    BY <2>6, HostAssumption, ShaAssumption DEF Prepare
  <2>7. CASE Apply(r)
    <3>1. PICK s \in Sha : head' = [head EXCEPT ![On[r]] = s] /\ sha' = [sha EXCEPT ![r] = s]
      BY <2>7 DEF Apply
    <3> QED BY <2>7, <3>1, HostAssumption DEF Apply
  <2>8. CASE Push(r)
    BY <2>8, HostAssumption, ShaAssumption DEF Push
  <2>9. CASE PushUnconfirmed(r)
    BY <2>9, HostAssumption, ShaAssumption DEF PushUnconfirmed
  <2>10. CASE PushRefused(r)
    BY <2>10, HostAssumption, ShaAssumption DEF PushRefused
  <2>11. CASE LandFailed(r)
    BY <2>11, HostAssumption, ShaAssumption DEF LandFailed
  <2>12. CASE SaveOpen(r)
    BY <2>12, HostAssumption, ShaAssumption DEF SaveOpen
  <2>13. CASE SaveWrite(r)
    BY <2>13, HostAssumption, ShaAssumption DEF SaveWrite
  <2>14. CASE SaveFailed(r)
    BY <2>14, HostAssumption, ShaAssumption DEF SaveFailed
  <2>15. CASE PatchTerminal(r)
    <3>1. Result(r, payload.status) \in
             [status : {"running", "done", "failed", "needs-review"},
              sha : Sha \cup {None}, patch : BOOLEAN, saved : BOOLEAN]
      BY DEF Payload
    <3> QED BY <2>15, <3>1 DEF PatchTerminal, Accept
  <2>16. CASE PatchReview(r)
    BY <2>16, HostAssumption, ShaAssumption DEF PatchReview, Accept
  <2>17. CASE ReviewRejected(r)
    BY <2>17, HostAssumption, ShaAssumption DEF ReviewRejected
  <2>18. CASE PatchFallback(r)
    BY <2>18, HostAssumption, ShaAssumption DEF PatchFallback, Accept
  <2>19. CASE PatchFailed(r)
    BY <2>19, HostAssumption, ShaAssumption DEF PatchFailed
  <2>20. CASE Purge(r)
    BY <2>20, HostAssumption, ShaAssumption DEF Purge
  <2>21. CASE Crash(r)
    BY <2>21, HostAssumption, ShaAssumption DEF Crash
  <2> QED BY <1>1, <2>1, <2>2, <2>3, <2>4, <2>5, <2>6, <2>7, <2>8, <2>9, <2>10, <2>11, <2>12, <2>13, <2>14, <2>15, <2>16, <2>17, <2>18, <2>19, <2>20, <2>21 DEF Land, Save, Report
<1>2. CASE UNCHANGED vars
  BY <1>2 DEF vars
<1> QED BY <1>1, <1>2 DEF Next

\* No step lets a second reconciler of a host into the clone.
LEMMA LockedStep ==
  ASSUME TypeOK, Locked, [Next]_vars
  PROVE  Locked'
<1> SUFFICES ASSUME NEW q \in Reconciler PROVE Inside(q)'
  BY DEF Locked
<1>3. Inside(q)
  BY DEF Locked
<1> USE DEF given, shared, local, TypeOK, Inside, Landing, Goto, Unlock
<1>1. ASSUME NEW r \in Reconciler, Open(r) \/ Land(r) \/ Save(r) \/ Report(r) \/ Crash(r)
      PROVE  Inside(q)'
  <2>a. Inside(r)
    BY DEF Locked
  <2>1. CASE Open(r)
    BY <2>1, <2>a, <1>3, HostAssumption, ShaAssumption DEF Open
  <2>2. CASE LandRefused(r)
    BY <2>2, <2>a, <1>3, HostAssumption, ShaAssumption DEF LandRefused
  <2>3. CASE TakeLock(r)
    BY <2>3, <2>a, <1>3, HostAssumption, ShaAssumption DEF TakeLock
  <2>4. CASE BranchFound(r)
    BY <2>4, <2>a, <1>3, HostAssumption, ShaAssumption DEF BranchFound
  <2>5. CASE BranchAbsent(r)
    BY <2>5, <2>a, <1>3, HostAssumption, ShaAssumption DEF BranchAbsent
  <2>6. CASE Prepare(r)
    BY <2>6, <2>a, <1>3, HostAssumption, ShaAssumption DEF Prepare
  <2>7. CASE Apply(r)
    <3>1. PICK s \in Sha : head' = [head EXCEPT ![On[r]] = s] /\ sha' = [sha EXCEPT ![r] = s]
      BY <2>7, <2>a DEF Apply
    <3>2. lock[On[r]] = r /\ pc' = [pc EXCEPT ![r] = "push"] /\ lock' = lock
      BY <2>7, <2>a DEF Apply
    <3>3. CASE q = r
      BY <3>1, <3>2, <3>3, HostAssumption, ShaAssumption
    <3>4. CASE q # r
      BY <1>3, <3>1, <3>2, <3>4, HostAssumption, ShaAssumption
    <3> QED BY <3>3, <3>4
  <2>8. CASE Push(r)
    BY <2>8, <2>a, <1>3, HostAssumption, ShaAssumption DEF Push
  <2>9. CASE PushUnconfirmed(r)
    BY <2>9, <2>a, <1>3, HostAssumption, ShaAssumption DEF PushUnconfirmed
  <2>10. CASE PushRefused(r)
    BY <2>10, <2>a, <1>3, HostAssumption, ShaAssumption DEF PushRefused
  <2>11. CASE LandFailed(r)
    BY <2>11, <2>a, <1>3, HostAssumption, ShaAssumption DEF LandFailed
  <2>12. CASE SaveOpen(r)
    BY <2>12, <2>a, <1>3, HostAssumption, ShaAssumption DEF SaveOpen
  <2>13. CASE SaveWrite(r)
    BY <2>13, <2>a, <1>3, HostAssumption, ShaAssumption DEF SaveWrite
  <2>14. CASE SaveFailed(r)
    BY <2>14, <2>a, <1>3, HostAssumption, ShaAssumption DEF SaveFailed
  <2>15. CASE PatchTerminal(r)
    BY <2>15, <2>a, <1>3, HostAssumption, ShaAssumption DEF PatchTerminal, Accept
  <2>16. CASE PatchReview(r)
    BY <2>16, <2>a, <1>3, HostAssumption, ShaAssumption DEF PatchReview, Accept
  <2>17. CASE ReviewRejected(r)
    BY <2>17, <2>a, <1>3, HostAssumption, ShaAssumption DEF ReviewRejected
  <2>18. CASE PatchFallback(r)
    BY <2>18, <2>a, <1>3, HostAssumption, ShaAssumption DEF PatchFallback, Accept
  <2>19. CASE PatchFailed(r)
    BY <2>19, <2>a, <1>3, HostAssumption, ShaAssumption DEF PatchFailed
  <2>20. CASE Purge(r)
    BY <2>20, <2>a, <1>3, HostAssumption, ShaAssumption DEF Purge
  <2>21. CASE Crash(r)
    <3>1. pc' = [pc EXCEPT ![r] = "idle"] /\ sha' = sha
      BY <2>21 DEF Crash
    <3>2. CASE q = r
      BY <3>1, <3>2
    <3>3. CASE q # r /\ pc[q] \in Landing
      <4>1. lock[On[q]] = q
        BY <1>3, <3>3
      <4>2. pc[r] \in Landing => On[q] # On[r]
        BY <2>a, <4>1, <3>3
      <4>3. lock'[On[q]] = lock[On[q]] /\ head'[On[q]] = head[On[q]]
        BY <2>21, <4>2, HostAssumption DEF Crash
      <4> QED BY <1>3, <3>1, <3>3, <4>3
    <3>4. CASE q # r /\ pc[q] \notin Landing
      BY <3>1, <3>4
    <3> QED BY <3>2, <3>3, <3>4
  <2> QED BY <1>1, <2>1, <2>2, <2>3, <2>4, <2>5, <2>6, <2>7, <2>8, <2>9, <2>10, <2>11, <2>12, <2>13, <2>14, <2>15, <2>16, <2>17, <2>18, <2>19, <2>20, <2>21 DEF Land, Save, Report
<1>2. CASE UNCHANGED vars
  BY <1>2, <1>3 DEF vars
<1> QED BY <1>1, <1>2 DEF Next

\* A reported commit stays the branch.
LEMMA LandedStep ==
  ASSUME TypeOK, Locked, Landed, [Next]_vars
  PROVE  Landed'
<1> USE DEF given, shared, local, TypeOK, Locked, Inside, Landing, Goto, Unlock, Landed, ReportedCommitLanded, Result
<1>1. ASSUME NEW r \in Reconciler, Open(r) \/ Land(r) \/ Save(r) \/ Report(r) \/ Crash(r)
      PROVE  Landed'
  <2>1. CASE Open(r)
    BY <2>1, HostAssumption, ShaAssumption DEF Open
  <2>2. CASE LandRefused(r)
    BY <2>2, HostAssumption, ShaAssumption DEF LandRefused
  <2>3. CASE TakeLock(r)
    BY <2>3, HostAssumption, ShaAssumption DEF TakeLock
  <2>4. CASE BranchFound(r)
    BY <2>4, HostAssumption, ShaAssumption DEF BranchFound
  <2>5. CASE BranchAbsent(r)
    BY <2>5, HostAssumption, ShaAssumption DEF BranchAbsent
  <2>6. CASE Prepare(r)
    BY <2>6, HostAssumption, ShaAssumption DEF Prepare
  <2>7. CASE Apply(r)
    BY <2>7, HostAssumption, ShaAssumption DEF Apply
  <2>8. CASE Push(r)
    BY <2>8, HostAssumption, ShaAssumption DEF Push
  <2>9. CASE PushUnconfirmed(r)
    BY <2>9, HostAssumption, ShaAssumption DEF PushUnconfirmed
  <2>10. CASE PushRefused(r)
    BY <2>10, HostAssumption, ShaAssumption DEF PushRefused
  <2>11. CASE LandFailed(r)
    BY <2>11, HostAssumption, ShaAssumption DEF LandFailed
  <2>12. CASE SaveOpen(r)
    BY <2>12, HostAssumption, ShaAssumption DEF SaveOpen
  <2>13. CASE SaveWrite(r)
    BY <2>13, HostAssumption, ShaAssumption DEF SaveWrite
  <2>14. CASE SaveFailed(r)
    BY <2>14, HostAssumption, ShaAssumption DEF SaveFailed
  <2>15. CASE PatchTerminal(r)
    BY <2>15, HostAssumption, ShaAssumption DEF PatchTerminal, Accept
  <2>16. CASE PatchReview(r)
    BY <2>16, HostAssumption, ShaAssumption DEF PatchReview, Accept
  <2>17. CASE ReviewRejected(r)
    BY <2>17, HostAssumption, ShaAssumption DEF ReviewRejected
  <2>18. CASE PatchFallback(r)
    BY <2>18, HostAssumption, ShaAssumption DEF PatchFallback, Accept
  <2>19. CASE PatchFailed(r)
    BY <2>19, HostAssumption, ShaAssumption DEF PatchFailed
  <2>20. CASE Purge(r)
    BY <2>20, HostAssumption, ShaAssumption DEF Purge
  <2>21. CASE Crash(r)
    BY <2>21, HostAssumption, ShaAssumption DEF Crash
  <2> QED BY <1>1, <2>1, <2>2, <2>3, <2>4, <2>5, <2>6, <2>7, <2>8, <2>9, <2>10, <2>11, <2>12, <2>13, <2>14, <2>15, <2>16, <2>17, <2>18, <2>19, <2>20, <2>21 DEF Land, Save, Report
<1>2. CASE UNCHANGED vars
  BY <1>2 DEF vars
<1> QED BY <1>1, <1>2 DEF Next

\* Only a bus that rejects the status sees a review closed as done.
LEMMA ReviewedStep ==
  ASSUME TypeOK, Reviewed, [Next]_vars
  PROVE  Reviewed'
<1> USE DEF given, shared, local, TypeOK, Landing, Goto, Unlock, Reviewed, ReviewStaysReview, Review, Result
<1>1. ASSUME NEW r \in Reconciler, Open(r) \/ Land(r) \/ Save(r) \/ Report(r) \/ Crash(r)
      PROVE  Reviewed'
  <2>1. CASE Open(r)
    BY <2>1, HostAssumption, ShaAssumption DEF Open
  <2>2. CASE LandRefused(r)
    BY <2>2, HostAssumption, ShaAssumption DEF LandRefused
  <2>3. CASE TakeLock(r)
    BY <2>3, HostAssumption, ShaAssumption DEF TakeLock
  <2>4. CASE BranchFound(r)
    BY <2>4, HostAssumption, ShaAssumption DEF BranchFound
  <2>5. CASE BranchAbsent(r)
    BY <2>5, HostAssumption, ShaAssumption DEF BranchAbsent
  <2>6. CASE Prepare(r)
    BY <2>6, HostAssumption, ShaAssumption DEF Prepare
  <2>7. CASE Apply(r)
    BY <2>7, HostAssumption, ShaAssumption DEF Apply
  <2>8. CASE Push(r)
    BY <2>8, HostAssumption, ShaAssumption DEF Push
  <2>9. CASE PushUnconfirmed(r)
    BY <2>9, HostAssumption, ShaAssumption DEF PushUnconfirmed
  <2>10. CASE PushRefused(r)
    BY <2>10, HostAssumption, ShaAssumption DEF PushRefused
  <2>11. CASE LandFailed(r)
    BY <2>11, HostAssumption, ShaAssumption DEF LandFailed
  <2>12. CASE SaveOpen(r)
    BY <2>12, HostAssumption, ShaAssumption DEF SaveOpen
  <2>13. CASE SaveWrite(r)
    BY <2>13, HostAssumption, ShaAssumption DEF SaveWrite
  <2>14. CASE SaveFailed(r)
    BY <2>14, HostAssumption, ShaAssumption DEF SaveFailed
  <2>15. CASE PatchTerminal(r)
    BY <2>15, HostAssumption, ShaAssumption DEF PatchTerminal, Accept
  <2>16. CASE PatchReview(r)
    BY <2>16, HostAssumption, ShaAssumption DEF PatchReview, Accept
  <2>17. CASE ReviewRejected(r)
    BY <2>17, HostAssumption, ShaAssumption DEF ReviewRejected
  <2>18. CASE PatchFallback(r)
    BY <2>18, HostAssumption, ShaAssumption DEF PatchFallback, Accept
  <2>19. CASE PatchFailed(r)
    BY <2>19, HostAssumption, ShaAssumption DEF PatchFailed
  <2>20. CASE Purge(r)
    BY <2>20, HostAssumption, ShaAssumption DEF Purge
  <2>21. CASE Crash(r)
    BY <2>21, HostAssumption, ShaAssumption DEF Crash
  <2> QED BY <1>1, <2>1, <2>2, <2>3, <2>4, <2>5, <2>6, <2>7, <2>8, <2>9, <2>10, <2>11, <2>12, <2>13, <2>14, <2>15, <2>16, <2>17, <2>18, <2>19, <2>20, <2>21 DEF Land, Save, Report
<1>2. CASE UNCHANGED vars
  BY <1>2 DEF vars
<1> QED BY <1>1, <1>2 DEF Next

THEOREM Invariance == Spec => []IInv
<1>1. Init => IInv
  <2> SUFFICES ASSUME Init PROVE IInv
    OBVIOUS
  <2>1. TypeOK
    BY DEF Init, TypeOK, Payload, Landing
  <2>2. Locked
    BY DEF Init, Locked, Inside, Landing
  <2>3. Landed
    BY DEF Init, Landed, ReportedCommitLanded
  <2>4. Reviewed
    BY DEF Init, Reviewed, ReviewStaysReview
  <2> QED BY <2>1, <2>2, <2>3, <2>4 DEF IInv
<1>2. IInv /\ [Next]_vars => IInv'
  BY TypeStep, LockedStep, LandedStep, ReviewedStep DEF IInv
<1> QED BY <1>1, <1>2, PTL DEF Spec

\* Type correctness: in particular only a commit of the patch becomes the branch.
THEOREM TypeCorrectness == Spec => []TypeOK
<1>1. IInv => TypeOK
  BY DEF IInv
<1> QED BY <1>1, Invariance, PTL

\* The commit the hive was told of is the head of the review branch.
THEOREM ReportedIsLanded == Spec => []ReportedCommitLanded
<1>1. IInv => ReportedCommitLanded
  BY DEF IInv, Landed
<1> QED BY <1>1, Invariance, PTL

\* A review is closed as done only on a bus without the status.
THEOREM ReviewsReviewed == Spec => []ReviewStaysReview
<1>1. IInv => ReviewStaysReview
  BY DEF IInv, Reviewed
<1> QED BY <1>1, Invariance, PTL


\* No step moves a branch that exists.
LEMMA BranchStep ==
  ASSUME Locked, [Next]_vars
  PROVE  (branch # None => branch' = branch)
<1> USE DEF given, shared, local, Locked, Inside, Landing, Goto, Unlock
<1>1. ASSUME NEW r \in Reconciler, Open(r) \/ Land(r) \/ Save(r) \/ Report(r) \/ Crash(r)
      PROVE  (branch # None => branch' = branch)
  <2>1. CASE Open(r)
    BY <2>1, HostAssumption, ShaAssumption DEF Open
  <2>2. CASE LandRefused(r)
    BY <2>2, HostAssumption, ShaAssumption DEF LandRefused
  <2>3. CASE TakeLock(r)
    BY <2>3, HostAssumption, ShaAssumption DEF TakeLock
  <2>4. CASE BranchFound(r)
    BY <2>4, HostAssumption, ShaAssumption DEF BranchFound
  <2>5. CASE BranchAbsent(r)
    BY <2>5, HostAssumption, ShaAssumption DEF BranchAbsent
  <2>6. CASE Prepare(r)
    BY <2>6, HostAssumption, ShaAssumption DEF Prepare
  <2>7. CASE Apply(r)
    BY <2>7, HostAssumption, ShaAssumption DEF Apply
  <2>8. CASE Push(r)
    BY <2>8, HostAssumption, ShaAssumption DEF Push
  <2>9. CASE PushUnconfirmed(r)
    BY <2>9, HostAssumption, ShaAssumption DEF PushUnconfirmed
  <2>10. CASE PushRefused(r)
    BY <2>10, HostAssumption, ShaAssumption DEF PushRefused
  <2>11. CASE LandFailed(r)
    BY <2>11, HostAssumption, ShaAssumption DEF LandFailed
  <2>12. CASE SaveOpen(r)
    BY <2>12, HostAssumption, ShaAssumption DEF SaveOpen
  <2>13. CASE SaveWrite(r)
    BY <2>13, HostAssumption, ShaAssumption DEF SaveWrite
  <2>14. CASE SaveFailed(r)
    BY <2>14, HostAssumption, ShaAssumption DEF SaveFailed
  <2>15. CASE PatchTerminal(r)
    BY <2>15, HostAssumption, ShaAssumption DEF PatchTerminal, Accept
  <2>16. CASE PatchReview(r)
    BY <2>16, HostAssumption, ShaAssumption DEF PatchReview, Accept
  <2>17. CASE ReviewRejected(r)
    BY <2>17, HostAssumption, ShaAssumption DEF ReviewRejected
  <2>18. CASE PatchFallback(r)
    BY <2>18, HostAssumption, ShaAssumption DEF PatchFallback, Accept
  <2>19. CASE PatchFailed(r)
    BY <2>19, HostAssumption, ShaAssumption DEF PatchFailed
  <2>20. CASE Purge(r)
    BY <2>20, HostAssumption, ShaAssumption DEF Purge
  <2>21. CASE Crash(r)
    BY <2>21, HostAssumption, ShaAssumption DEF Crash
  <2> QED BY <1>1, <2>1, <2>2, <2>3, <2>4, <2>5, <2>6, <2>7, <2>8, <2>9, <2>10, <2>11, <2>12, <2>13, <2>14, <2>15, <2>16, <2>17, <2>18, <2>19, <2>20, <2>21 DEF Land, Save, Report
<1>2. CASE UNCHANGED vars
  BY <1>2 DEF vars
<1> QED BY <1>1, <1>2 DEF Next

THEOREM BranchIsStable == Spec => BranchStands
<1>1. IInv /\ [Next]_vars => [branch # None => branch' = branch]_vars
  BY BranchStep DEF IInv
<1> QED BY <1>1, Invariance, PTL DEF Spec, BranchStands

-------------------------------------------------------------------------------
(* Closing out as one reconciler would do it                               *)

\* The status that this hive is told of this payload.
Final == IF ~Review THEN payload.status ELSE IF legacy THEN "done" ELSE "needs-review"

\* The hive has been told nothing or the final status, and before a purge that.
Told ==
  /\ payload \in Payload
  /\ hive.status \in {"running", Final}
  /\ \A r \in Reconciler : pc[r] = "purge" => hive.status # "running"

LEMMA ToldStep ==
  ASSUME TypeOK, Reviewed, Told, [Next]_vars
  PROVE  Told'
<1> USE DEF given, shared, local, TypeOK, Payload, Reviewed, Told, Final, Review, Landing, Goto, Unlock,
            Result
<1>1. ASSUME NEW r \in Reconciler, Open(r) \/ Land(r) \/ Save(r) \/ Report(r) \/ Crash(r)
      PROVE  Told'
  <2>1. CASE Open(r)
    BY <2>1 DEF Open
  <2>2. CASE LandRefused(r)
    BY <2>2 DEF LandRefused
  <2>3. CASE TakeLock(r)
    BY <2>3 DEF TakeLock
  <2>4. CASE BranchFound(r)
    BY <2>4 DEF BranchFound
  <2>5. CASE BranchAbsent(r)
    BY <2>5 DEF BranchAbsent
  <2>6. CASE Prepare(r)
    BY <2>6 DEF Prepare
  <2>7. CASE Apply(r)
    BY <2>7 DEF Apply
  <2>8. CASE Push(r)
    BY <2>8 DEF Push
  <2>9. CASE PushUnconfirmed(r)
    BY <2>9 DEF PushUnconfirmed
  <2>10. CASE PushRefused(r)
    BY <2>10 DEF PushRefused
  <2>11. CASE LandFailed(r)
    BY <2>11 DEF LandFailed
  <2>12. CASE SaveOpen(r)
    BY <2>12 DEF SaveOpen
  <2>13. CASE SaveWrite(r)
    BY <2>13 DEF SaveWrite
  <2>14. CASE SaveFailed(r)
    BY <2>14 DEF SaveFailed
  <2>15. CASE PatchTerminal(r)
    BY <2>15 DEF PatchTerminal, Accept
  <2>16. CASE PatchReview(r)
    BY <2>16 DEF PatchReview, Accept
  <2>17. CASE ReviewRejected(r)
    BY <2>17 DEF ReviewRejected
  <2>18. CASE PatchFallback(r)
    BY <2>18 DEF PatchFallback, Accept
  <2>19. CASE PatchFailed(r)
    BY <2>19 DEF PatchFailed
  <2>20. CASE Purge(r)
    BY <2>20 DEF Purge
  <2>21. CASE Crash(r)
    BY <2>21 DEF Crash
  <2> QED BY <1>1, <2>1, <2>2, <2>3, <2>4, <2>5, <2>6, <2>7, <2>8, <2>9, <2>10, <2>11,
    <2>12, <2>13, <2>14, <2>15, <2>16, <2>17, <2>18, <2>19, <2>20, <2>21 DEF Land, Save, Report
<1>2. CASE UNCHANGED vars
  BY <1>2 DEF vars
<1> QED BY <1>1, <1>2 DEF Next

\* A PATCH that the hive accepts tells it the final status, and of no commit but
\* the branch.
LEMMA AcceptTells ==
  ASSUME TypeOK, Landed, Told, NEW r \in Reconciler, NEW status,
         pc[r] \in {"report", "fallback"}, status = Final, Accept(r, status)
  PROVE  \E s \in {"done", "failed", "needs-review"} : Closing!Tell(s)
<1>1. Final \in {"done", "failed", "needs-review"}
  BY DEF Told, Payload, Final
<1>2. hive'.status = Final /\ hive'.sha = sha[r] /\ UNCHANGED <<branch, terminal>>
  BY DEF Accept, Result
<1>3. sha[r] \in {None, branch}
  BY DEF Landed
<1> QED BY <1>1, <1>2, <1>3 DEF Closing!Tell, Told

\* Four kinds of steps are seen from outside.
LEMMA ClosingStep ==
  ASSUME IInv, Told, [Next]_vars
  PROVE  [Closing!CloseNext]_(Closing!closeVars)
<1>1. ASSUME NEW r \in Reconciler, Push(r) \/ PushUnconfirmed(r)
      PROVE  [Closing!CloseNext]_(Closing!closeVars)
  <2>1. branch \in {None, branch'} /\ UNCHANGED <<hive, terminal>>
    BY <1>1 DEF Push, PushUnconfirmed
  <2>2. branch' \in Sha
    BY <1>1 DEF Push, PushUnconfirmed, IInv, Locked, Inside, Landing
  <2>3. CASE branch = None
    <3>1. Closing!Land
      BY <2>1, <2>2, <2>3 DEF Closing!Land
    <3> QED BY <3>1 DEF Closing!CloseNext
  <2>4. CASE branch' = branch
    BY <2>1, <2>4 DEF Closing!closeVars
  <2> QED BY <2>1, <2>3, <2>4
<1>2. ASSUME NEW r \in Reconciler, PatchTerminal(r) \/ PatchReview(r) \/ PatchFallback(r)
      PROVE  [Closing!CloseNext]_(Closing!closeVars)
  <2>1. \E s \in {"done", "failed", "needs-review"} : Closing!Tell(s)
    <3>1. CASE PatchTerminal(r)
      BY <3>1, AcceptTells DEF PatchTerminal, Final, IInv
    <3>2. CASE PatchReview(r)
      BY <3>2, AcceptTells DEF PatchReview, Final, IInv
    <3>3. CASE PatchFallback(r)
      BY <3>3, AcceptTells DEF PatchFallback, Final, IInv, Reviewed
    <3> QED BY <1>2, <3>1, <3>2, <3>3
  <2> QED BY <2>1 DEF Closing!CloseNext
<1>3. ASSUME NEW r \in Reconciler, Purge(r)
      PROVE  [Closing!CloseNext]_(Closing!closeVars)
  <2>1. Closing!Close
    BY <1>3 DEF Purge, Told, Closing!Close
  <2> QED BY <2>1 DEF Closing!CloseNext
<1>4. ASSUME NEW r \in Reconciler,
             Open(r) \/ Land(r) \/ Save(r) \/ Report(r) \/ Crash(r),
             ~(Push(r) \/ PushUnconfirmed(r)), ~Purge(r),
             ~(PatchTerminal(r) \/ PatchReview(r) \/ PatchFallback(r))
      PROVE  UNCHANGED <<branch, hive, terminal>>
  BY <1>4 DEF shared, Land, Save, Report, Open, LandRefused, TakeLock, BranchFound, BranchAbsent,
    Prepare, Apply, PushRefused, LandFailed, SaveOpen, SaveWrite, SaveFailed, ReviewRejected,
    PatchFailed, Crash
<1>5. CASE UNCHANGED <<branch, hive, terminal>>
  BY <1>5 DEF Closing!closeVars
<1> QED BY <1>1, <1>2, <1>3, <1>4, <1>5 DEF Next, vars, shared

\* Any number of reconcilers on any hosts close a job out like one that never
\* fails: one branch, one status, no commit but the branch, and the purge last.
THEOREM ClosingOut == Spec => ClosesOut
<1>1. Init => Closing!CloseInit /\ Told
  BY DEF Init, Closing!CloseInit, Told
<1>2. IInv /\ Told /\ [Next]_vars => Told'
  BY ToldStep DEF IInv
<1>3. IInv /\ Told /\ [Next]_vars => [Closing!CloseNext]_(Closing!closeVars)
  BY ClosingStep DEF IInv
<1> QED BY <1>1, <1>2, <1>3, Invariance, PTL DEF Spec, ClosesOut, Closing!CloseSpec

-------------------------------------------------------------------------------
(* No patch is lost where every reconciler has a host of its own           *)

\* The patch is outside the bucket, where reconciler r has seen to it.
Elsewhere(r) == branch # None \/ hive.patch \/ orphan[On[r]] = "full"

\* What a reconciler relies on when it reports, when it purges, and once one of them has
\* purged: that one is idle for good, so nobody opens its host's orphan file again.
Kept ==
  payload.patch =>
    /\ Review
    /\ hive.patch => ~payload.big
    /\ \A r \in Reconciler :
         /\ pc[r] \in {"report", "fallback"} => ~payload.big \/ Elsewhere(r)
         /\ pc[r] = "purge" => Elsewhere(r)
    /\ terminal \/ \E r \in Reconciler : pc[r] = "idle" /\ Elsewhere(r)

\* Kept survives a step of r that leaves what others rely on, unless r gets to a step
\* at which it relies on something itself, or leaves the sweep's beginning without the
\* terminal object.
LEMMA KeptQuiet ==
  ASSUME TypeOK, Kept, NEW r \in Reconciler, NEW label, Goto(r, label),
         UNCHANGED <<payload, terminal, hive>>, branch # None => branch' # None,
         \A q \in Reconciler \ {r} : orphan'[On[q]] = orphan[On[q]],
         label # "purge", pc[r] = "idle" => terminal,
         label \in {"report", "fallback"} /\ payload.patch => ~payload.big \/ Elsewhere(r)'
  PROVE  Kept'
<1> SUFFICES ASSUME payload.patch PROVE Kept'
  BY DEF Kept
<1>1. \A q \in Reconciler \ {r} : pc'[q] = pc[q] /\ (Elsewhere(q) => Elsewhere(q)')
  BY DEF Goto, TypeOK, Elsewhere
<1>2. pc'[r] = label
  BY DEF Goto, TypeOK
<1>3. \A q \in Reconciler :
        /\ pc'[q] \in {"report", "fallback"} => ~payload.big \/ Elsewhere(q)'
        /\ pc'[q] = "purge" => Elsewhere(q)'
  BY <1>1, <1>2 DEF Kept
<1>4. terminal' \/ \E q \in Reconciler : pc'[q] = "idle" /\ Elsewhere(q)'
  <2>1. CASE terminal
    BY <2>1
  <2>2. CASE ~terminal
    <3>1. PICK q \in Reconciler : pc[q] = "idle" /\ Elsewhere(q)
      BY <2>2 DEF Kept
    <3>2. q # r
      BY <2>2, <3>1
    <3> QED BY <1>1, <3>1, <3>2
  <2> QED BY <2>1, <2>2
<1> QED BY <1>3, <1>4 DEF Kept, Review

\* A report that the hive accepts keeps the patch in the result if it is small.
LEMMA KeptAccept ==
  ASSUME TypeOK, Kept, NEW r \in Reconciler, NEW status \in {"done", "needs-review"},
         pc[r] \in {"report", "fallback"}, Accept(r, status)
  PROVE  Kept'
<1> SUFFICES ASSUME payload.patch PROVE Kept'
  BY DEF Accept, given, Kept
<1>1. hive'.patch = ~payload.big
  BY DEF Accept, Result, TypeOK, Payload
<1>2. UNCHANGED <<payload, terminal, branch, orphan>>
  BY DEF Accept, given
<1>3. \A q \in Reconciler : Elsewhere(q) => Elsewhere(q)'
  BY <1>1, <1>2 DEF Kept, Elsewhere
<1>4. Elsewhere(r)'
  BY <1>1, <1>2, <1>3 DEF Kept, Elsewhere
<1>5. \A q \in Reconciler \ {r} : pc'[q] = pc[q]
  BY DEF Accept, Goto, TypeOK
<1>6. pc'[r] \in {"idle", "purge"}
  BY DEF Accept, Goto, TypeOK
<1>7. \A q \in Reconciler :
        /\ pc'[q] \in {"report", "fallback"} => ~payload.big \/ Elsewhere(q)'
        /\ pc'[q] = "purge" => Elsewhere(q)'
  BY <1>3, <1>4, <1>5, <1>6 DEF Kept
<1>8. terminal' \/ \E q \in Reconciler : pc'[q] = "idle" /\ Elsewhere(q)'
  BY <1>2, <1>3, <1>5 DEF Kept
<1> QED BY <1>1, <1>2, <1>7, <1>8 DEF Kept, Review

\* Kept survives every step, if no two reconcilers share a host.
LEMMA KeptStep ==
  ASSUME \A q, r \in Reconciler : On[q] = On[r] => q = r, TypeOK, Locked, Kept, [Next]_vars
  PROVE  Kept'
<1> USE DEF given, shared, local
<1>1. ASSUME NEW r \in Reconciler, Open(r) \/ Land(r) \/ Save(r) \/ Report(r) \/ Crash(r)
      PROVE  Kept'
  <2>a. \A value : \A q \in Reconciler \ {r} :
          orphan' = [orphan EXCEPT ![On[r]] = value] => orphan'[On[q]] = orphan[On[q]]
    BY HostAssumption DEF TypeOK
  <2>1. CASE Open(r)
    <3>1. payload.patch => Goto(r, "lock")
      BY <2>1 DEF Open, Kept
    <3>2. CASE payload.patch
      BY <2>1, <3>1, <3>2, KeptQuiet DEF Open
    <3>3. CASE ~payload.patch
      BY <2>1, <3>3 DEF Open, Kept
    <3> QED BY <3>2, <3>3
  <2>2. CASE LandRefused(r)
    BY <2>2, KeptQuiet DEF LandRefused
  <2>3. CASE TakeLock(r)
    BY <2>3, KeptQuiet DEF TakeLock
  <2>4. CASE BranchAbsent(r)
    BY <2>4, KeptQuiet DEF BranchAbsent
  <2>5. CASE Prepare(r)
    BY <2>5, KeptQuiet DEF Prepare
  <2>6. CASE Apply(r)
    BY <2>6, KeptQuiet DEF Apply
  <2>7. CASE PushRefused(r)
    BY <2>7, KeptQuiet DEF PushRefused
  <2>8. CASE BranchFound(r)
    BY <2>8, KeptQuiet DEF BranchFound, Elsewhere
  <2>9. CASE Push(r)
    <3>1. branch' # None
      BY <2>9, HostAssumption, ShaAssumption DEF Push, Locked, Inside
    <3> QED BY <2>9, <3>1, KeptQuiet DEF Push, Elsewhere
  <2>10. CASE PushUnconfirmed(r)
    <3>1. branch' # None
      BY <2>10, HostAssumption, ShaAssumption DEF PushUnconfirmed, Locked, Inside
    <3> QED BY <2>10, <3>1, KeptQuiet DEF PushUnconfirmed
  <2>11. CASE LandFailed(r)
    BY <2>11, KeptQuiet DEF LandFailed, Landing
  <2>12. CASE SaveOpen(r)
    BY <2>12, <2>a, KeptQuiet DEF SaveOpen
  <2>13. CASE SaveWrite(r)
    <3>1. orphan'[On[r]] = "full"
      BY <2>13, HostAssumption DEF SaveWrite, TypeOK
    <3> QED BY <2>13, <2>a, <3>1, KeptQuiet DEF SaveWrite, Elsewhere
  <2>14. CASE SaveFailed(r)
    BY <2>14, KeptQuiet DEF SaveFailed
  <2>15. CASE PatchTerminal(r)
    BY <2>15 DEF PatchTerminal, Accept, Kept
  <2>16. CASE PatchReview(r)
    BY <2>16, KeptAccept DEF PatchReview
  <2>17. CASE ReviewRejected(r)
    <3>1. payload.patch => ~payload.big \/ Elsewhere(r)'
      BY <2>17 DEF ReviewRejected, Kept, Elsewhere
    <3> QED BY <2>17, <3>1, KeptQuiet DEF ReviewRejected
  <2>18. CASE PatchFallback(r)
    BY <2>18, KeptAccept DEF PatchFallback
  <2>19. CASE PatchFailed(r)
    BY <2>19, KeptQuiet DEF PatchFailed
  <2>20. CASE Purge(r)
    <3>1. /\ UNCHANGED <<payload, branch, orphan, hive>>
          /\ pc' = [pc EXCEPT ![r] = "idle"] /\ pc[r] = "purge"
      BY <2>20 DEF Purge, Goto
    <3>2. pc'[r] = "idle" /\ \A q \in Reconciler \ {r} : pc'[q] = pc[q]
      BY <3>1 DEF TypeOK
    <3> QED BY <3>1, <3>2 DEF Kept, Elsewhere, Review
  <2>21. CASE Crash(r)
    BY <2>21, KeptQuiet DEF Crash
  <2> QED BY <1>1, <2>1, <2>2, <2>3, <2>4, <2>5, <2>6, <2>7, <2>8, <2>9, <2>10, <2>11, <2>12, <2>13, <2>14, <2>15, <2>16, <2>17, <2>18, <2>19, <2>20, <2>21 DEF Land, Save, Report
<1>2. CASE UNCHANGED vars
  BY <1>2 DEF vars, Kept, Elsewhere, Review
<1> QED BY <1>1, <1>2 DEF Next

\* "Close out, but never lose the patch": it survives every landing, save, report and
\* crash where each reconciler has a host of its own (_reconcile_one, save_orphan_patch).
THEOREM PatchesSurvive ==
  ASSUME \A q, r \in Reconciler : On[q] = On[r] => q = r
  PROVE  Spec => []PatchNeverLost
<1>1. Init => Kept
  BY DEF Init, Kept, Review
<1>2. IInv /\ Kept /\ [Next]_vars => Kept'
  BY KeptStep DEF IInv
<1>3. IInv /\ Kept => PatchNeverLost
  BY HostAssumption DEF IInv, TypeOK, Kept, Elsewhere, PatchNeverLost
<1> QED BY <1>1, <1>2, <1>3, Invariance, PTL DEF Spec
===============================================================================
