-------------------------- MODULE ClaimLeaseProofs ---------------------------
(***************************************************************************)
(* What holds of ClaimLease for every set of pollers, every lease, every   *)
(* skew and every number of renewals that outlive their lease.  The        *)
(* inductive invariant is IInv: TypeOK, who may use the stamp and marker   *)
(* registers (Exclusive), what they hold (Stamped), what the reconciler's  *)
(* position tells (Reported), and LeaseHolder itself.                      *)
(***************************************************************************)
EXTENDS ClaimLease, TLAPS

\* The renewal thread only runs while the sweep thread works on a job, and a
\* renewal in progress belongs to the thread that took the lock.
Exclusive ==
  \A w \in Worker :
    /\ thread[w] # "off" => main[w] \in Working
    /\ ren[w] # "free" =>
         \/ holder[w] = "main" /\ main[w] = "prove"
         \/ holder[w] = "lease" /\ thread[w] = "renewing"

\* A stamp that is no older than one of those the worker's lease rests on.
Covered(w, stamp) == \E t \in proof[w] : stamp >= t

\* Every stamp has been on its worker's clock, a conditional write is only
\* prepared against a marker it may replace, and what a renewal will write over
\* its worker's lease is among the stamps that lease rests on, or newer.
MarkerPast == claimed # None => claimed.at <= Now(claimed.owner)

Prepared(w) ==
  /\ at[w] <= Now(w)
  /\ main[w] = "cas" => seen[w] # None /\ at[w] - seen[w].at >= Lease
  /\ ren[w] = "cas" => seen[w] # None /\ seen[w].owner = w
  /\ ren[w] \in {"read", "cas"} => Covered(w, at[w])
  /\ main[w] \in Working => Covered(w, Now(w))

LatePrepared(s) ==
  late[s] # None /\ late[s].step \in {"read", "cas"} =>
    /\ late[s].at <= Now(late[s].owner)
    /\ main[late[s].owner] \in Working => Covered(late[s].owner, late[s].at)
    /\ late[s].step = "cas" => late[s].seen # None /\ late[s].seen.owner = late[s].owner

Stamped ==
  /\ MarkerPast
  /\ \A w \in Worker : Prepared(w)
  /\ \A s \in Slot : LatePrepared(s)

\* A purge only runs for an acknowledged job, and in the order of purge(); what
\* it has deleted is only there again when the hive has offered the job again.
Reported ==
  /\ rec # "none" => acked
  /\ rec \in {"claimant", "claimed", "terminal", "active"} /\ ~again => pending = "none"
  /\ rec \in {"claimed", "terminal", "active"} /\ ~again => ~envelope
  /\ PurgeRetriable
  /\ ActivityBeforeExecution

IInv == TypeOK /\ Exclusive /\ Stamped /\ Reported /\ LeaseHolder
-------------------------------------------------------------------------------
\* The constants, in the form the provers use them.
LEMMA Constants ==
  /\ Lease \in Nat /\ Lease > 0 /\ MaxSkew \in Nat
  /\ \A w \in Worker : Skew[w] \in Nat /\ Skew[w] <= MaxSkew
  /\ None \notin Marker /\ None \notin Late
BY NoneAssumption, LeaseAssumption, SkewAssumption

\* A renewal that is left behind, and any step of one, is a late renewal.
LEMMA BehindTypes ==
  ASSUME TypeOK, NEW w \in Worker
  PROVE  Behind(w) \in Late
BY DEF Behind, TypeOK, Late

LEMMA LateTypes ==
  ASSUME TypeOK, NEW s \in Slot, late[s] # None
  PROVE  /\ late[s].owner \in Worker /\ late[s].at \in Nat
         /\ \A step \in {"begin", "read", "cas", "publish"}, t \in Nat, m \in Marker \cup {None} :
              /\ [late[s] EXCEPT !.step = step] \in Late
              /\ [late[s] EXCEPT !.step = step, !.at = t] \in Late
              /\ [late[s] EXCEPT !.step = step, !.seen = m] \in Late
<1>1. late[s] \in Late
  BY DEF TypeOK
<1> QED BY <1>1 DEF Late

\* Leaving a job, and the end of a renewal, keep the types of what they write.
LEMMA GiveUpTypes ==
  ASSUME TypeOK, NEW w \in Worker, GiveUp(w)
  PROVE  /\ main' \in [Worker -> {"idle"} \cup Claiming \cup Working]
         /\ thread' \in [Worker -> {"off", "wait", "renewing"}]
         /\ ren' \in [Worker -> {"free", "read", "cas", "publish"}]
         /\ late' \in [Slot -> Late \cup {None}]
         /\ troubles' \in Nat
BY BehindTypes DEF GiveUp, TypeOK

LEMMA EndRenewalTypes ==
  ASSUME TypeOK, NEW w \in Worker, NEW ok \in BOOLEAN, EndRenewal(w, ok)
  PROVE  /\ main' \in [Worker -> {"idle"} \cup Claiming \cup Working]
         /\ thread' \in [Worker -> {"off", "wait", "renewing"}]
         /\ ren' \in [Worker -> {"free", "read", "cas", "publish"}]
         /\ lost' \in [Worker -> BOOLEAN]
         /\ late' \in [Slot -> Late \cup {None}]
         /\ troubles' \in Nat
<1>1. ren' \in [Worker -> {"free", "read", "cas", "publish"}] /\ lost' \in [Worker -> BOOLEAN]
  BY DEF EndRenewal, TypeOK
<1>2. CASE GiveUp(w)
  BY <1>1, <1>2, GiveUpTypes
<1>3. CASE ~GiveUp(w)
  BY <1>1, <1>3 DEF EndRenewal, TypeOK, Working
<1> QED BY <1>1, <1>2, <1>3

LEMMA ProvenTypes ==
  ASSUME TypeOK, NEW w \in Worker, Proven(w)
  PROVE  proof' \in [Worker -> SUBSET Nat]
<1>1. \A s \in Writing(w) : late[s].at \in Nat
  BY LateTypes DEF Writing
<1>2. {at[w]} \cup {late[s].at : s \in Writing(w)} \in SUBSET Nat
  BY <1>1 DEF TypeOK
<1> QED BY <1>2 DEF Proven, TypeOK

\* Every step keeps the types.
LEMMA TypeStep ==
  ASSUME TypeOK, [Next]_vars
  PROVE  TypeOK'
<1> USE DEF TypeOK, Claiming, Working, Marker, Now, vars, bucket, lease, call, result, home
<1>1. ASSUME NEW w \in Worker, Claim(w) PROVE TypeOK'
  <2>1. CASE BeginClaim(w)
    BY <2>1, Constants DEF BeginClaim
  <2>2. CASE ClaimCreate(w)
    <3>1. claimed' \in Marker
      BY <2>2 DEF ClaimCreate
    <3>2. CASE StartLease(w)
      BY <2>2, <3>1, <3>2, ProvenTypes DEF ClaimCreate, StartLease
    <3>3. CASE AbandonClaim(w)
      BY <2>2, <3>1, <3>3 DEF ClaimCreate, AbandonClaim
    <3> QED BY <2>2, <3>2, <3>3 DEF ClaimCreate
  <2>3. CASE ClaimExists(w)
    BY <2>3 DEF ClaimExists
  <2>4. CASE ClaimRead(w)
    BY <2>4 DEF ClaimRead
  <2>5. CASE ClaimRefused(w)
    BY <2>5 DEF ClaimRefused, AbandonClaim
  <2>6. CASE ClaimCas(w)
    <3>1. claimed' \in Marker
      BY <2>6 DEF ClaimCas
    <3>2. CASE StartLease(w)
      BY <2>6, <3>1, <3>2, ProvenTypes DEF ClaimCas, StartLease
    <3>3. CASE AbandonClaim(w)
      BY <2>6, <3>1, <3>3 DEF ClaimCas, AbandonClaim
    <3> QED BY <2>6, <3>2, <3>3 DEF ClaimCas
  <2>7. CASE ClaimFailed(w)
    BY <2>7 DEF ClaimFailed, AbandonClaim
  <2> QED BY <1>1, <2>1, <2>2, <2>3, <2>4, <2>5, <2>6, <2>7 DEF Claim
<1>2. ASSUME NEW w \in Worker, Process(w) PROVE TypeOK'
  <2>1. CASE Fetch(w)
    BY <2>1 DEF Fetch
  <2>2. CASE Quarantine(w)
    BY <2>2 DEF Quarantine, WriteTerminal
  <2>3. CASE FetchFailed(w)
    BY <2>3, GiveUpTypes DEF FetchFailed
  <2>4. CASE PublishActivity(w)
    BY <2>4 DEF PublishActivity
  <2>5. CASE ActivityFailed(w)
    <3>1. active' \in BOOLEAN
      BY <2>5 DEF ActivityFailed
    <3> QED BY <2>5, <3>1 DEF ActivityFailed, WriteTerminal
  <2>6. CASE Execute(w)
    <3>1. ASSUME NEW t \in {"done", "failed"}, NEW b \in BOOLEAN, WriteTerminal(w, t, b)
          PROVE  TypeOK'
      BY <2>6, <3>1 DEF Execute, WriteTerminal
    <3> QED BY <2>6, <3>1 DEF Execute
  <2>7. CASE PutTerminal(w)
    <3>1. terminal' \in {"done", "failed"} /\ recorded' \in SUBSET {"done", "failed"}
      BY <2>7 DEF PutTerminal
    <3>2. CASE GiveUp(w) /\ UNCHANGED result
      BY <2>7, <3>1, <3>2, GiveUpTypes DEF PutTerminal
    <3>3. CASE WriteTerminal(w, "failed", FALSE) /\ UNCHANGED <<thread, ren, late, troubles>>
      BY <2>7, <3>1, <3>3 DEF PutTerminal, WriteTerminal
    <3> QED BY <2>7, <3>2, <3>3 DEF PutTerminal, AfterPut
  <2>8. CASE PutRefused(w)
    <3>1. CASE GiveUp(w) /\ UNCHANGED result
      BY <2>8, <3>1, GiveUpTypes DEF PutRefused
    <3>2. CASE WriteTerminal(w, "failed", FALSE) /\ UNCHANGED <<thread, ren, late, troubles>>
      BY <2>8, <3>2 DEF PutRefused, WriteTerminal
    <3> QED BY <2>8, <3>1, <3>2 DEF PutRefused, AfterPut
  <2> QED BY <1>2, <2>1, <2>2, <2>3, <2>4, <2>5, <2>6, <2>7, <2>8 DEF Process
<1>3. ASSUME NEW w \in Worker, Renewal(w) PROVE TypeOK'
  <2>1. CASE Prove(w)
    BY <2>1 DEF Prove
  <2>2. CASE Disowned(w)
    BY <2>2, GiveUpTypes DEF Disowned
  <2>3. CASE LeaseWake(w)
    BY <2>3 DEF LeaseWake
  <2>4. CASE RenewBegin(w, "main")
    BY <2>4, Constants DEF RenewBegin
  <2>5. CASE RenewBegin(w, "lease")
    BY <2>5, Constants DEF RenewBegin
  <2>6. CASE RenewRead(w)
    BY <2>6 DEF RenewRead
  <2>7. CASE RenewCas(w)
    BY <2>7, ProvenTypes DEF RenewCas
  <2>8. CASE RenewUnconfirmed(w)
    <3>1. claimed' \in Marker
      BY <2>8 DEF RenewUnconfirmed
    <3>2. EndRenewal(w, FALSE)
      BY <2>8 DEF RenewUnconfirmed
    <3>3. /\ main' \in [Worker -> {"idle"} \cup Claiming \cup Working]
          /\ thread' \in [Worker -> {"off", "wait", "renewing"}]
          /\ ren' \in [Worker -> {"free", "read", "cas", "publish"}]
          /\ lost' \in [Worker -> BOOLEAN]
          /\ late' \in [Slot -> Late \cup {None}]
          /\ troubles' \in Nat
      BY <3>2, EndRenewalTypes
    <3> QED BY <2>8, <3>1, <3>3 DEF RenewUnconfirmed
  <2>9. CASE RenewFailed(w)
    <3>2. EndRenewal(w, FALSE)
      BY <2>9 DEF RenewFailed
    <3>3. /\ main' \in [Worker -> {"idle"} \cup Claiming \cup Working]
          /\ thread' \in [Worker -> {"off", "wait", "renewing"}]
          /\ ren' \in [Worker -> {"free", "read", "cas", "publish"}]
          /\ lost' \in [Worker -> BOOLEAN]
          /\ late' \in [Slot -> Late \cup {None}]
          /\ troubles' \in Nat
      BY <3>2, EndRenewalTypes
    <3> QED BY <2>9, <3>3 DEF RenewFailed
  <2>10. CASE RenewPublish(w)
    <3>1. active' \in BOOLEAN
      BY <2>10 DEF RenewPublish
    <3>2. EndRenewal(w, TRUE)
      BY <2>10 DEF RenewPublish
    <3>3. /\ main' \in [Worker -> {"idle"} \cup Claiming \cup Working]
          /\ thread' \in [Worker -> {"off", "wait", "renewing"}]
          /\ ren' \in [Worker -> {"free", "read", "cas", "publish"}]
          /\ lost' \in [Worker -> BOOLEAN]
          /\ late' \in [Slot -> Late \cup {None}]
          /\ troubles' \in Nat
      BY <3>2, EndRenewalTypes
    <3> QED BY <2>10, <3>1, <3>3 DEF RenewPublish
  <2> QED BY <1>3, <2>1, <2>2, <2>3, <2>4, <2>5, <2>6, <2>7, <2>8, <2>9, <2>10 DEF Renewal
<1>4. ASSUME NEW s \in Slot, LateRenewal(s) PROVE TypeOK'
  <2>1. CASE LateBegin(s)
    <3>1. Now(late[s].owner) \in Nat
      <4>1. late[s].owner \in Worker
        BY <2>1, LateTypes DEF LateBegin
      <4> QED BY <4>1, Constants
    <3>2. late' \in [Slot -> Late \cup {None}]
      BY <2>1, <3>1, LateTypes DEF LateBegin
    <3> QED BY <2>1, <3>2 DEF LateBegin
  <2>2. CASE LateRead(s)
    <3>1. late' \in [Slot -> Late \cup {None}]
      BY <2>2, LateTypes DEF LateRead
    <3> QED BY <2>2, <3>1 DEF LateRead
  <2>3. CASE LateCas(s)
    <3>1. late' \in [Slot -> Late \cup {None}]
      <4>1. [late[s] EXCEPT !.step = "publish"] \in Late
        BY <2>3, LateTypes DEF LateCas
      <4> QED BY <2>3, <4>1 DEF LateCas, Step, EndLate
    <3>2. claimed' \in Marker
      BY <2>3, LateTypes DEF LateCas
    <3> QED BY <2>3, <3>1, <3>2 DEF LateCas
  <2>4. CASE LateFailed(s)
    BY <2>4 DEF LateFailed, EndLate
  <2>5. CASE LatePublish(s)
    <3>1. late' \in [Slot -> Late \cup {None}] /\ active' \in BOOLEAN
      BY <2>5 DEF LatePublish, EndLate
    <3> QED BY <2>5, <3>1 DEF LatePublish
  <2> QED BY <1>4, <2>1, <2>2, <2>3, <2>4, <2>5 DEF LateRenewal
<1>5. CASE Home
  <2>1. CASE PutClaimant
    BY <2>1 DEF PutClaimant
  <2>2. CASE PutPending
    BY <2>2, PayloadAssumption DEF PutPending
  <2>3. CASE EnqueueFailed
    BY <2>3 DEF EnqueueFailed
  <2>4. CASE Report
    BY <2>4 DEF Report
  <2>5. CASE PurgePending
    BY <2>5 DEF PurgePending
  <2>6. CASE PurgeClaimant
    BY <2>6 DEF PurgeClaimant
  <2>7. CASE PurgeClaimed
    BY <2>7 DEF PurgeClaimed
  <2>8. CASE PurgeTerminal
    BY <2>8 DEF PurgeTerminal
  <2>9. CASE PurgeActive
    BY <2>9 DEF PurgeActive
  <2>10. CASE PurgeInterrupted
    BY <2>10 DEF PurgeInterrupted
  <2> QED BY <1>5, <2>1, <2>2, <2>3, <2>4, <2>5, <2>6, <2>7, <2>8, <2>9, <2>10 DEF Home
<1>6. ASSUME NEW w \in Worker, Crash(w) PROVE TypeOK'
  BY <1>6 DEF Crash
<1>7. CASE Tick
  BY <1>7 DEF Tick
<1>8. CASE UNCHANGED vars
  BY <1>8
<1> QED BY <1>1, <1>2, <1>3, <1>4, <1>5, <1>6, <1>7, <1>8 DEF Next

\* The threads' use of the lock and of the registers.
LEMMA ExclusiveStep ==
  ASSUME TypeOK, Exclusive, [Next]_vars
  PROVE  Exclusive'
<1> USE DEF TypeOK, Exclusive, Claiming, Working, vars, bucket, lease, call, result, home
<1>1. ASSUME NEW w \in Worker, Claim(w) PROVE Exclusive'
  <2>1. CASE BeginClaim(w)
    BY <2>1 DEF BeginClaim
  <2>2. CASE ClaimCreate(w)
    BY <2>2 DEF ClaimCreate, StartLease, AbandonClaim, Proven
  <2>3. CASE ClaimExists(w)
    BY <2>3 DEF ClaimExists
  <2>4. CASE ClaimRead(w)
    BY <2>4 DEF ClaimRead
  <2>5. CASE ClaimRefused(w)
    BY <2>5 DEF ClaimRefused, AbandonClaim
  <2>6. CASE ClaimCas(w)
    BY <2>6 DEF ClaimCas, StartLease, AbandonClaim, Proven
  <2>7. CASE ClaimFailed(w)
    BY <2>7 DEF ClaimFailed, AbandonClaim
  <2> QED BY <1>1, <2>1, <2>2, <2>3, <2>4, <2>5, <2>6, <2>7 DEF Claim
<1>2. ASSUME NEW w \in Worker, Process(w) PROVE Exclusive'
  <2>1. CASE Fetch(w)
    BY <2>1 DEF Fetch
  <2>2. CASE Quarantine(w)
    BY <2>2 DEF Quarantine, WriteTerminal
  <2>3. CASE FetchFailed(w)
    BY <2>3 DEF FetchFailed, GiveUp, Behind
  <2>4. CASE PublishActivity(w)
    BY <2>4 DEF PublishActivity
  <2>5. CASE ActivityFailed(w)
    BY <2>5 DEF ActivityFailed, WriteTerminal
  <2>6. CASE Execute(w)
    BY <2>6 DEF Execute, WriteTerminal
  <2>7. CASE PutTerminal(w)
    BY <2>7 DEF PutTerminal, AfterPut, WriteTerminal, GiveUp, Behind
  <2>8. CASE PutRefused(w)
    BY <2>8 DEF PutRefused, AfterPut, WriteTerminal, GiveUp, Behind
  <2> QED BY <1>2, <2>1, <2>2, <2>3, <2>4, <2>5, <2>6, <2>7, <2>8 DEF Process
<1>3. ASSUME NEW w \in Worker, Renewal(w) PROVE Exclusive'
  <2>1. CASE Prove(w)
    BY <2>1 DEF Prove
  <2>2. CASE Disowned(w)
    BY <2>2 DEF Disowned, GiveUp, Behind
  <2>3. CASE LeaseWake(w)
    BY <2>3 DEF LeaseWake
  <2>4. CASE RenewBegin(w, "main")
    BY <2>4 DEF RenewBegin
  <2>5. CASE RenewBegin(w, "lease")
    BY <2>5 DEF RenewBegin
  <2>6. CASE RenewRead(w)
    BY <2>6 DEF RenewRead
  <2>7. CASE RenewCas(w)
    BY <2>7 DEF RenewCas, Proven
  <2>8. CASE RenewUnconfirmed(w)
    BY <2>8 DEF RenewUnconfirmed, EndRenewal, GiveUp, Behind
  <2>9. CASE RenewFailed(w)
    BY <2>9 DEF RenewFailed, EndRenewal, GiveUp, Behind
  <2>10. CASE RenewPublish(w)
    BY <2>10 DEF RenewPublish, EndRenewal, GiveUp, Behind
  <2> QED BY <1>3, <2>1, <2>2, <2>3, <2>4, <2>5, <2>6, <2>7, <2>8, <2>9, <2>10 DEF Renewal
<1>4. ASSUME NEW s \in Slot, LateRenewal(s) PROVE Exclusive'
  BY <1>4 DEF LateRenewal, LateBegin, LateRead, LateCas, Step, EndLate, LateFailed, LatePublish
<1>5. CASE Home
  BY <1>5 DEF Home, PutClaimant, PutPending, EnqueueFailed, Report, PurgePending, PurgeClaimant,
    PurgeClaimed, PurgeTerminal, PurgeActive, PurgeInterrupted
<1>6. ASSUME NEW w \in Worker, Crash(w) PROVE Exclusive'
  BY <1>6 DEF Crash
<1>7. CASE Tick
  BY <1>7 DEF Tick
<1>8. CASE UNCHANGED vars
  BY <1>8
<1> QED BY <1>1, <1>2, <1>3, <1>4, <1>5, <1>6, <1>7, <1>8 DEF Next

\* The reconciler's position, and what it leaves behind.
LEMMA ReportedStep ==
  ASSUME TypeOK, Reported, [Next]_vars
  PROVE  Reported'
<1> USE DEF TypeOK, Reported, PurgeRetriable, ActivityBeforeExecution, vars, bucket, lease,
            call, result, home
<1>1. ASSUME NEW w \in Worker, Claim(w) PROVE Reported'
  BY <1>1 DEF Claim, BeginClaim, ClaimCreate, StartLease, AbandonClaim, Proven, ClaimExists,
    ClaimRead, ClaimRefused, ClaimCas, ClaimFailed
<1>2. ASSUME NEW w \in Worker, Process(w) PROVE Reported'
  <2>1. CASE Fetch(w)
    BY <2>1 DEF Fetch
  <2>2. CASE Quarantine(w)
    BY <2>2 DEF Quarantine, WriteTerminal
  <2>3. CASE FetchFailed(w)
    BY <2>3 DEF FetchFailed, GiveUp, Behind
  <2>4. CASE PublishActivity(w)
    BY <2>4 DEF PublishActivity
  <2>5. CASE ActivityFailed(w)
    BY <2>5 DEF ActivityFailed, WriteTerminal
  <2>6. CASE Execute(w)
    BY <2>6 DEF Execute, WriteTerminal
  <2>7. CASE PutTerminal(w)
    BY <2>7 DEF PutTerminal, AfterPut, WriteTerminal, GiveUp, Behind
  <2>8. CASE PutRefused(w)
    BY <2>8 DEF PutRefused, AfterPut, WriteTerminal, GiveUp, Behind
  <2> QED BY <1>2, <2>1, <2>2, <2>3, <2>4, <2>5, <2>6, <2>7, <2>8 DEF Process
<1>3. ASSUME NEW w \in Worker, Renewal(w) PROVE Reported'
  <2>1. CASE Prove(w)
    BY <2>1 DEF Prove
  <2>2. CASE Disowned(w)
    BY <2>2 DEF Disowned, GiveUp, Behind
  <2>3. CASE LeaseWake(w)
    BY <2>3 DEF LeaseWake
  <2>4. CASE RenewBegin(w, "main")
    BY <2>4 DEF RenewBegin
  <2>5. CASE RenewBegin(w, "lease")
    BY <2>5 DEF RenewBegin
  <2>6. CASE RenewRead(w)
    BY <2>6 DEF RenewRead
  <2>7. CASE RenewCas(w)
    BY <2>7 DEF RenewCas, Proven
  <2>8. CASE RenewUnconfirmed(w)
    BY <2>8 DEF RenewUnconfirmed, EndRenewal, GiveUp, Behind
  <2>9. CASE RenewFailed(w)
    BY <2>9 DEF RenewFailed, EndRenewal, GiveUp, Behind
  <2>10. CASE RenewPublish(w)
    BY <2>10 DEF RenewPublish, EndRenewal, GiveUp, Behind
  <2> QED BY <1>3, <2>1, <2>2, <2>3, <2>4, <2>5, <2>6, <2>7, <2>8, <2>9, <2>10 DEF Renewal
<1>4. ASSUME NEW s \in Slot, LateRenewal(s) PROVE Reported'
  <2>1. CASE LateBegin(s)
    BY <2>1 DEF LateBegin
  <2>2. CASE LateRead(s)
    BY <2>2 DEF LateRead
  <2>3. CASE LateCas(s)
    BY <2>3 DEF LateCas, Step, EndLate
  <2>4. CASE LateFailed(s)
    BY <2>4 DEF LateFailed, EndLate
  <2>5. CASE LatePublish(s)
    BY <2>5 DEF LatePublish, EndLate
  <2> QED BY <1>4, <2>1, <2>2, <2>3, <2>4, <2>5 DEF LateRenewal
<1>5. CASE Home
  <2>1. CASE PutClaimant
    BY <2>1 DEF PutClaimant
  <2>2. CASE PutPending
    BY <2>2 DEF PutPending
  <2>3. CASE EnqueueFailed
    BY <2>3 DEF EnqueueFailed
  <2>4. CASE Report
    BY <2>4 DEF Report
  <2>5. CASE PurgePending
    BY <2>5 DEF PurgePending
  <2>6. CASE PurgeClaimant
    BY <2>6 DEF PurgeClaimant
  <2>7. CASE PurgeClaimed
    BY <2>7 DEF PurgeClaimed
  <2>8. CASE PurgeTerminal
    BY <2>8 DEF PurgeTerminal
  <2>9. CASE PurgeActive
    BY <2>9 DEF PurgeActive
  <2>10. CASE PurgeInterrupted
    BY <2>10 DEF PurgeInterrupted
  <2> QED BY <1>5, <2>1, <2>2, <2>3, <2>4, <2>5, <2>6, <2>7, <2>8, <2>9, <2>10 DEF Home
<1>6. ASSUME NEW w \in Worker, Crash(w) PROVE Reported'
  BY <1>6 DEF Crash
<1>7. CASE Tick
  BY <1>7 DEF Tick
<1>8. CASE UNCHANGED vars
  BY <1>8
<1> QED BY <1>1, <1>2, <1>3, <1>4, <1>5, <1>6, <1>7, <1>8 DEF Next

\* A renewal that is left behind has been prepared, and its worker is idle.
LEMMA GiveUpLate ==
  ASSUME TypeOK, Exclusive, Stamped, NEW w \in Worker, GiveUp(w),
         UNCHANGED <<clock, at, seen, proof>>
  PROVE  \A s \in Slot : LatePrepared(s)'
<1> SUFFICES ASSUME NEW s \in Slot PROVE LatePrepared(s)'
  OBVIOUS
<1> USE DEF TypeOK, Stamped, LatePrepared, Covered, Now, Working
<1>1. \A v \in Worker : main'[v] \in Working => main[v] \in Working /\ v # w
  BY DEF GiveUp
<1>2. CASE late'[s] = late[s]
  <2>1. late[s] # None => late[s].owner \in Worker
    BY LateTypes
  <2> QED BY <1>1, <1>2, <2>1
<1>3. CASE late'[s] = Behind(w)
  <2>1. /\ Behind(w).owner = w /\ Behind(w).at = at[w] /\ Behind(w).seen = seen[w]
        /\ Behind(w).step = "cas" => ren[w] = "cas"
    BY DEF Behind
  <2>2. main'[w] \notin Working
    BY <1>1
  <2> QED BY <1>3, <2>1, <2>2 DEF Prepared
<1> QED BY <1>2, <1>3 DEF GiveUp

\* The late renewals stay prepared when their workers' leases rest on what they did.
LEMMA LateKept ==
  ASSUME TypeOK, Stamped, UNCHANGED <<clock, late, proof>>,
         \A v \in Worker : main'[v] \in Working => main[v] \in Working
  PROVE  \A s \in Slot : LatePrepared(s)'
<1>1. \A s \in Slot : late[s] # None => late[s].owner \in Worker
  BY LateTypes
<1> QED BY <1>1 DEF Stamped, LatePrepared, Covered, Now

\* An acknowledged claim or renewal puts its own stamp and those of the late
\* renewals under what the worker's lease rests on.
LEMMA ProvenLate ==
  ASSUME TypeOK, Stamped, NEW w \in Worker, Proven(w), UNCHANGED <<clock, late, at>>,
         \A v \in Worker \ {w} : main'[v] \in Working => main[v] \in Working
  PROVE  /\ Covered(w, Now(w))'
         /\ \A v \in Worker \ {w} : proof'[v] = proof[v]
         /\ \A s \in Slot : LatePrepared(s)'
<1> USE DEF TypeOK, Stamped, Covered, Now, Marker
<1>1. proof'[w] = {at[w]} \cup {late[s].at : s \in Writing(w)}
  BY DEF Proven
<1>2. \A v \in Worker \ {w} : proof'[v] = proof[v]
  BY DEF Proven
<1>3. Covered(w, Now(w))'
  BY <1>1, Constants DEF Prepared
<1>4. ASSUME NEW s \in Slot, late[s] # None, late[s].step \in {"read", "cas"}
      PROVE  LatePrepared(s)'
  <2>1. late[s].owner \in Worker /\ late[s].at \in Nat
    BY <1>4, LateTypes
  <2>2. CASE late[s].owner = w
    <3>1. late[s].at \in proof'[w]
      BY <1>1, <1>4, <2>2 DEF Writing
    <3>2. Covered(w, late[s].at)'
      BY <2>1, <3>1
    <3> QED BY <1>4, <2>2, <3>2 DEF LatePrepared
  <2>3. CASE late[s].owner # w
    BY <1>2, <1>4, <2>1, <2>3 DEF LatePrepared
  <2> QED BY <2>2, <2>3
<1>5. \A s \in Slot : LatePrepared(s)'
  BY <1>4 DEF LatePrepared
<1> QED BY <1>2, <1>3, <1>5

\* The end of a renewal: nothing is prepared that was not.
LEMMA EndRenewalStamps ==
  ASSUME TypeOK, Exclusive, Stamped, NEW w \in Worker, NEW ok \in BOOLEAN, ren[w] # "free",
         EndRenewal(w, ok), UNCHANGED <<clock, at, seen, proof>>
  PROVE  /\ \A v \in Worker : Prepared(v)'
         /\ \A s \in Slot : LatePrepared(s)'
<1>1. \A v \in Worker : main'[v] \in Working => main[v] \in Working
  BY DEF EndRenewal, GiveUp, Exclusive, TypeOK, Working
<1>2. \A v \in Worker : /\ main'[v] = "cas" => main[v] = "cas"
                        /\ ren'[v] # "free" => ren'[v] = ren[v]
  BY DEF EndRenewal, GiveUp, TypeOK
<1>3. \A v \in Worker : Prepared(v)'
  BY <1>1, <1>2 DEF Stamped, Prepared, Covered, Now
<1>4. CASE GiveUp(w)
  BY <1>3, <1>4, GiveUpLate
<1>5. CASE ~GiveUp(w)
  <2>1. UNCHANGED late
    BY <1>5 DEF EndRenewal
  <2> QED BY <1>1, <1>3, <2>1, LateKept
<1> QED BY <1>4, <1>5

\* Stamps: a claim or a renewal reads the clock before the marker.
LEMMA StampedStep ==
  ASSUME TypeOK, Exclusive, Stamped, [Next]_vars
  PROVE  Stamped'
<1> USE DEF TypeOK, Exclusive, Stamped, Covered, Claiming, Working, Marker, Now, vars, bucket,
            lease, call, result, home
<1>1. ASSUME NEW w \in Worker, Claim(w) PROVE Stamped'
  <2>1. CASE BeginClaim(w)
    BY <2>1, Constants DEF BeginClaim, MarkerPast, Prepared, LatePrepared
  <2>2. CASE ClaimCreate(w)
    <3>1. CASE AbandonClaim(w)
      BY <2>2, <3>1, Constants DEF ClaimCreate, AbandonClaim, MarkerPast, Prepared, LatePrepared
    <3>2. CASE StartLease(w)
      <4>1. MarkerPast'
        BY <2>2, Constants DEF ClaimCreate, MarkerPast, Prepared
      <4>2. /\ Proven(w) /\ UNCHANGED <<clock, late, at, seen, ren>>
            /\ main' = [main EXCEPT ![w] = "fetch"]
        BY <2>2, <3>2 DEF ClaimCreate, StartLease
      <4>3. /\ Covered(w, Now(w))'
            /\ \A v \in Worker \ {w} : proof'[v] = proof[v]
            /\ \A s \in Slot : LatePrepared(s)'
        <5> HIDE DEF Covered, Now
        <5> QED BY <4>2, ProvenLate
      <4>4. ren[w] = "free"
        BY <2>2 DEF ClaimCreate
      <4>5. \A v \in Worker : Prepared(v)'
        BY <4>2, <4>3, <4>4 DEF Prepared
      <4> QED BY <4>1, <4>3, <4>5
    <3> QED BY <2>2, <3>1, <3>2 DEF ClaimCreate
  <2>3. CASE ClaimExists(w)
    BY <2>3, Constants DEF ClaimExists, MarkerPast, Prepared, LatePrepared
  <2>4. CASE ClaimRead(w)
    BY <2>4, Constants DEF ClaimRead, MarkerPast, Prepared, LatePrepared
  <2>5. CASE ClaimRefused(w)
    BY <2>5, Constants DEF ClaimRefused, AbandonClaim, MarkerPast, Prepared, LatePrepared
  <2>6. CASE ClaimCas(w)
    <3>1. CASE AbandonClaim(w)
      BY <2>6, <3>1, Constants DEF ClaimCas, AbandonClaim, MarkerPast, Prepared, LatePrepared
    <3>2. CASE StartLease(w)
      <4>1. MarkerPast'
        BY <2>6, Constants DEF ClaimCas, MarkerPast, Prepared
      <4>2. /\ Proven(w) /\ UNCHANGED <<clock, late, at, seen, ren>>
            /\ main' = [main EXCEPT ![w] = "fetch"]
        BY <2>6, <3>2 DEF ClaimCas, StartLease
      <4>3. /\ Covered(w, Now(w))'
            /\ \A v \in Worker \ {w} : proof'[v] = proof[v]
            /\ \A s \in Slot : LatePrepared(s)'
        <5> HIDE DEF Covered, Now
        <5> QED BY <4>2, ProvenLate
      <4>4. ren[w] = "free"
        BY <2>6 DEF ClaimCas
      <4>5. \A v \in Worker : Prepared(v)'
        BY <4>2, <4>3, <4>4 DEF Prepared
      <4> QED BY <4>1, <4>3, <4>5
    <3> QED BY <2>6, <3>1, <3>2 DEF ClaimCas
  <2>7. CASE ClaimFailed(w)
    BY <2>7, Constants DEF ClaimFailed, AbandonClaim, MarkerPast, Prepared, LatePrepared
  <2> QED BY <1>1, <2>1, <2>2, <2>3, <2>4, <2>5, <2>6, <2>7 DEF Claim
<1>2. ASSUME NEW w \in Worker, Process(w) PROVE Stamped'
  <2>1. CASE Fetch(w)
    BY <2>1, Constants DEF Fetch, MarkerPast, Prepared, LatePrepared
  <2>2. CASE Quarantine(w)
    BY <2>2, Constants DEF Quarantine, WriteTerminal, MarkerPast, Prepared, LatePrepared
  <2>3. CASE FetchFailed(w)
    <3>1. GiveUp(w) /\ UNCHANGED <<clock, claimed, at, seen, proof>>
      BY <2>3 DEF FetchFailed
    <3>2. \A s \in Slot : LatePrepared(s)'
      BY <3>1, GiveUpLate
    <3> QED BY <3>1, <3>2 DEF GiveUp, MarkerPast, Prepared
  <2>4. CASE PublishActivity(w)
    BY <2>4, Constants DEF PublishActivity, MarkerPast, Prepared, LatePrepared
  <2>5. CASE ActivityFailed(w)
    BY <2>5, Constants DEF ActivityFailed, WriteTerminal, MarkerPast, Prepared, LatePrepared
  <2>6. CASE Execute(w)
    <3>1. ASSUME NEW t \in {"done", "failed"}, NEW b \in BOOLEAN, WriteTerminal(w, t, b)
          PROVE  Stamped'
      <4>1. \A s \in Slot : LatePrepared(s)'
        BY <2>6, <3>1, LateKept DEF Execute, WriteTerminal
      <4> QED BY <2>6, <3>1, <4>1 DEF Execute, WriteTerminal, MarkerPast, Prepared
    <3> QED BY <2>6, <3>1 DEF Execute
  <2>7. CASE PutTerminal(w)
    <3>1. UNCHANGED <<clock, claimed, at, seen, proof>>
      BY <2>7 DEF PutTerminal
    <3>2. CASE GiveUp(w)
      <4>1. \A s \in Slot : LatePrepared(s)'
        BY <3>1, <3>2, GiveUpLate
      <4> QED BY <3>1, <3>2, <4>1 DEF GiveUp, MarkerPast, Prepared
    <3>3. CASE WriteTerminal(w, "failed", FALSE) /\ UNCHANGED <<thread, ren, late, troubles>>
      <4>1. \A s \in Slot : LatePrepared(s)'
        BY <2>7, <3>1, <3>3, LateKept DEF PutTerminal, WriteTerminal
      <4> QED BY <2>7, <3>1, <3>3, <4>1 DEF PutTerminal, WriteTerminal, MarkerPast, Prepared
    <3> QED BY <2>7, <3>2, <3>3 DEF PutTerminal, AfterPut
  <2>8. CASE PutRefused(w)
    <3>1. UNCHANGED <<clock, claimed, at, seen, proof>>
      BY <2>8 DEF PutRefused
    <3>2. CASE GiveUp(w)
      <4>1. \A s \in Slot : LatePrepared(s)'
        BY <3>1, <3>2, GiveUpLate
      <4> QED BY <3>1, <3>2, <4>1 DEF GiveUp, MarkerPast, Prepared
    <3>3. CASE WriteTerminal(w, "failed", FALSE) /\ UNCHANGED <<thread, ren, late, troubles>>
      <4>1. \A s \in Slot : LatePrepared(s)'
        BY <2>8, <3>1, <3>3, LateKept DEF PutRefused, WriteTerminal
      <4> QED BY <2>8, <3>1, <3>3, <4>1 DEF PutRefused, WriteTerminal, MarkerPast, Prepared
    <3> QED BY <2>8, <3>2, <3>3 DEF PutRefused, AfterPut
  <2> QED BY <1>2, <2>1, <2>2, <2>3, <2>4, <2>5, <2>6, <2>7, <2>8 DEF Process
<1>3. ASSUME NEW w \in Worker, Renewal(w) PROVE Stamped'
  <2>1. CASE Prove(w)
    BY <2>1, Constants DEF Prove, MarkerPast, Prepared, LatePrepared
  <2>2. CASE Disowned(w)
    <3>1. GiveUp(w) /\ UNCHANGED <<clock, claimed, at, seen, proof>>
      BY <2>2 DEF Disowned
    <3>2. \A s \in Slot : LatePrepared(s)'
      BY <3>1, GiveUpLate
    <3> QED BY <3>1, <3>2 DEF GiveUp, MarkerPast, Prepared
  <2>3. CASE LeaseWake(w)
    BY <2>3, Constants DEF LeaseWake, MarkerPast, Prepared, LatePrepared
  <2>4. CASE RenewBegin(w, "main")
    BY <2>4, Constants DEF RenewBegin, MarkerPast, Prepared, LatePrepared
  <2>5. CASE RenewBegin(w, "lease")
    BY <2>5, Constants DEF RenewBegin, MarkerPast, Prepared, LatePrepared
  <2>6. CASE RenewRead(w)
    BY <2>6, Constants DEF RenewRead, MarkerPast, Prepared, LatePrepared
  <2>7. CASE RenewCas(w)
    <3>1. MarkerPast'
      BY <2>7, Constants DEF RenewCas, MarkerPast, Prepared
    <3>2. /\ Proven(w) /\ UNCHANGED <<clock, late, at, seen, main>>
          /\ ren' = [ren EXCEPT ![w] = "publish"]
      BY <2>7 DEF RenewCas
    <3>3. /\ Covered(w, Now(w))'
          /\ \A v \in Worker \ {w} : proof'[v] = proof[v]
          /\ \A s \in Slot : LatePrepared(s)'
      <4> HIDE DEF Covered, Now
      <4> QED BY <3>2, ProvenLate
    <3>4. \A v \in Worker : Prepared(v)'
      BY <3>2, <3>3 DEF Prepared
    <3> QED BY <3>1, <3>3, <3>4
  <2>8. CASE RenewUnconfirmed(w)
    <3>1. EndRenewal(w, FALSE) /\ ren[w] # "free" /\ UNCHANGED <<clock, at, seen, proof>>
      BY <2>8 DEF RenewUnconfirmed
    <3>2. /\ \A v \in Worker : Prepared(v)'
          /\ \A s \in Slot : LatePrepared(s)'
      BY <3>1, EndRenewalStamps
    <3>3. MarkerPast'
      BY <2>8, Constants DEF RenewUnconfirmed, MarkerPast, Prepared
    <3> QED BY <3>2, <3>3
  <2>9. CASE RenewFailed(w)
    <3>1. EndRenewal(w, FALSE) /\ ren[w] # "free" /\ UNCHANGED <<clock, at, seen, proof>>
      BY <2>9 DEF RenewFailed
    <3>2. /\ \A v \in Worker : Prepared(v)'
          /\ \A s \in Slot : LatePrepared(s)'
      BY <3>1, EndRenewalStamps
    <3>3. MarkerPast'
      BY <2>9, Constants DEF RenewFailed, MarkerPast, Prepared
    <3> QED BY <3>2, <3>3
  <2>10. CASE RenewPublish(w)
    <3>1. EndRenewal(w, TRUE) /\ ren[w] # "free" /\ UNCHANGED <<clock, at, seen, proof>>
      BY <2>10 DEF RenewPublish
    <3>2. /\ \A v \in Worker : Prepared(v)'
          /\ \A s \in Slot : LatePrepared(s)'
      BY <3>1, EndRenewalStamps
    <3>3. MarkerPast'
      BY <2>10, Constants DEF RenewPublish, MarkerPast, Prepared
    <3> QED BY <3>2, <3>3
  <2> QED BY <1>3, <2>1, <2>2, <2>3, <2>4, <2>5, <2>6, <2>7, <2>8, <2>9, <2>10 DEF Renewal
<1>4. ASSUME NEW s \in Slot, LateRenewal(s) PROVE Stamped'
  <2>1. CASE LateBegin(s)
    <3>1. late[s].owner \in Worker /\ late[s] \in Late
      BY <2>1, LateTypes DEF LateBegin
    <3>2. Now(late[s].owner) \in Nat
      BY <3>1, Constants
    <3>3. /\ late'[s].owner = late[s].owner /\ late'[s].step = "read"
          /\ late'[s].at = Now(late[s].owner) /\ late'[s] # None
      <4>1. late'[s] = [late[s] EXCEPT !.step = "read", !.at = Now(late[s].owner)]
        BY <2>1 DEF LateBegin
      <4>2. [late[s] EXCEPT !.step = "read", !.at = Now(late[s].owner)] \in Late
        BY <2>1, <3>2, LateTypes DEF LateBegin
      <4>3. late'[s] # None
        BY <4>1, <4>2, Constants
      <4> QED BY <3>1, <4>1, <4>3 DEF Late
    <3>4. main[late[s].owner] \in Working => Covered(late[s].owner, Now(late[s].owner))
      BY <3>1 DEF Prepared
    <3>5. UNCHANGED <<clock, claimed, main, ren, at, seen, proof>>
      BY <2>1 DEF LateBegin
    <3>6. LatePrepared(s)'
      BY <3>2, <3>3, <3>4, <3>5 DEF LatePrepared
    <3>7. \A z \in Slot \ {s} : late'[z] = late[z]
      BY <2>1 DEF LateBegin
    <3> QED BY <3>5, <3>6, <3>7 DEF MarkerPast, Prepared, LatePrepared
  <2>2. CASE LateRead(s)
    <3>1. late[s] \in Late
      BY <2>2 DEF LateRead
    <3>2. /\ late'[s].owner = late[s].owner /\ late'[s].step = "cas"
          /\ late'[s].at = late[s].at /\ late'[s] # None /\ late'[s].seen = claimed
      <4>1. late'[s] = [late[s] EXCEPT !.step = "cas", !.seen = claimed]
        BY <2>2 DEF LateRead
      <4>2. [late[s] EXCEPT !.step = "cas", !.seen = claimed] \in Late
        BY <2>2, LateTypes DEF LateRead
      <4>3. late'[s] # None
        BY <4>1, <4>2, Constants
      <4> QED BY <3>1, <4>1, <4>3 DEF Late
    <3>3. /\ UNCHANGED <<clock, claimed, main, ren, at, seen, proof>>
          /\ late[s] # None /\ late[s].step = "read"
          /\ claimed # None /\ claimed.owner = late[s].owner
      BY <2>2 DEF LateRead
    <3>4. LatePrepared(s)'
      BY <3>2, <3>3 DEF LatePrepared
    <3>5. \A z \in Slot \ {s} : late'[z] = late[z]
      BY <2>2 DEF LateRead
    <3> QED BY <3>3, <3>4, <3>5 DEF MarkerPast, Prepared, LatePrepared
  <2>3. CASE LateCas(s)
    <3>1. /\ late[s] # None /\ late[s].step = "cas"
          /\ UNCHANGED <<clock, main, ren, at, seen, proof>>
          /\ claimed' = [owner |-> late[s].owner, at |-> late[s].at]
      BY <2>3 DEF LateCas
    <3>2. MarkerPast'
      BY <3>1 DEF MarkerPast, LatePrepared
    <3>3. late'[s] # None => late'[s].step = "publish"
      BY <2>3, <3>1 DEF LateCas, Step, EndLate, Late
    <3>4. \A z \in Slot \ {s} : late'[z] = late[z]
      BY <2>3 DEF LateCas, Step, EndLate
    <3> QED BY <3>1, <3>2, <3>3, <3>4 DEF Prepared, LatePrepared
  <2>4. CASE LateFailed(s)
    BY <2>4, Constants DEF LateFailed, EndLate, MarkerPast, Prepared, LatePrepared
  <2>5. CASE LatePublish(s)
    BY <2>5, Constants DEF LatePublish, EndLate, MarkerPast, Prepared, LatePrepared
  <2> QED BY <1>4, <2>1, <2>2, <2>3, <2>4, <2>5 DEF LateRenewal
<1>5. CASE Home
  <2>1. CASE PutClaimant
    BY <2>1, Constants DEF PutClaimant, MarkerPast, Prepared, LatePrepared
  <2>2. CASE PutPending
    BY <2>2, Constants DEF PutPending, MarkerPast, Prepared, LatePrepared
  <2>3. CASE EnqueueFailed
    BY <2>3, Constants DEF EnqueueFailed, MarkerPast, Prepared, LatePrepared
  <2>4. CASE Report
    BY <2>4, Constants DEF Report, MarkerPast, Prepared, LatePrepared
  <2>5. CASE PurgePending
    BY <2>5, Constants DEF PurgePending, MarkerPast, Prepared, LatePrepared
  <2>6. CASE PurgeClaimant
    BY <2>6, Constants DEF PurgeClaimant, MarkerPast, Prepared, LatePrepared
  <2>7. CASE PurgeClaimed
    BY <2>7, Constants DEF PurgeClaimed, MarkerPast, Prepared, LatePrepared
  <2>8. CASE PurgeTerminal
    BY <2>8, Constants DEF PurgeTerminal, MarkerPast, Prepared, LatePrepared
  <2>9. CASE PurgeActive
    BY <2>9, Constants DEF PurgeActive, MarkerPast, Prepared, LatePrepared
  <2>10. CASE PurgeInterrupted
    BY <2>10, Constants DEF PurgeInterrupted, MarkerPast, Prepared, LatePrepared
  <2> QED BY <1>5, <2>1, <2>2, <2>3, <2>4, <2>5, <2>6, <2>7, <2>8, <2>9, <2>10 DEF Home
<1>6. ASSUME NEW w \in Worker, Crash(w) PROVE Stamped'
  BY <1>6, Constants DEF Crash, MarkerPast, Prepared, LatePrepared
<1>7. CASE Tick
  <2>1. clock' = clock + 1 /\ UNCHANGED <<claimed, main, ren, at, seen, late, proof>>
    BY <1>7 DEF Tick
  <2>2. MarkerPast'
    BY <2>1, Constants DEF MarkerPast
  <2>3. \A v \in Worker : Prepared(v)'
    BY <2>1, Constants DEF Prepared
  <2>4. ASSUME NEW s \in Slot PROVE LatePrepared(s)'
    <3>1. late[s] # None => late[s].owner \in Worker /\ late[s].at \in Nat
      BY LateTypes
    <3> QED BY <2>1, <3>1, Constants DEF LatePrepared
  <2> QED BY <2>2, <2>3, <2>4
<1>8. CASE UNCHANGED vars
  BY <1>8 DEF MarkerPast, Prepared, LatePrepared
<1> QED BY <1>1, <1>2, <1>3, <1>4, <1>5, <1>6, <1>7, <1>8 DEF Next

\* Every step keeps a fresh lease with its holder.
LEMMA LeaseHolderStep ==
  ASSUME IInv, [Next]_vars
  PROVE  LeaseHolder'
<1> USE DEF IInv, TypeOK, Exclusive, Stamped, Covered, Reported, LeaseHolder, Fresh, Claiming,
            Working, Marker, Now, vars, bucket, lease, call, result, home
<1>1. ASSUME NEW w \in Worker, Claim(w) PROVE LeaseHolder'
  <2>1. CASE BeginClaim(w)
    BY <2>1, Constants DEF BeginClaim
  <2>2. CASE ClaimCreate(w)
    <3>1. /\ claimed' = [owner |-> w, at |-> at[w]] /\ UNCHANGED <<clock, acked>>
          /\ \A v \in Worker \ {w} : main'[v] = main[v] /\ proof'[v] = proof[v]
      BY <2>2 DEF ClaimCreate, StartLease, AbandonClaim, Proven
    <3>2. claimed' # None /\ claimed'.owner = w /\ claimed'.at = at[w]
      BY <3>1, Constants
    <3>3. main'[w] \in Working => at[w] \in proof'[w]
      BY <2>2 DEF ClaimCreate, StartLease, AbandonClaim, Proven
    <3>4. ASSUME NEW v \in Worker \ {w}, main[v] \in Working, ~acked, \A t \in proof[v] : Fresh(t)
          PROVE  FALSE
      BY <2>2, <3>4 DEF ClaimCreate
    <3> QED BY <3>1, <3>2, <3>3, <3>4
  <2>3. CASE ClaimExists(w)
    BY <2>3, Constants DEF ClaimExists
  <2>4. CASE ClaimRead(w)
    BY <2>4, Constants DEF ClaimRead
  <2>5. CASE ClaimRefused(w)
    BY <2>5, Constants DEF ClaimRefused, AbandonClaim
  <2>6. CASE ClaimCas(w)
    <3>1. /\ claimed' = [owner |-> w, at |-> at[w]] /\ UNCHANGED <<clock, acked>>
          /\ \A v \in Worker \ {w} : main'[v] = main[v] /\ proof'[v] = proof[v]
      BY <2>6 DEF ClaimCas, StartLease, AbandonClaim, Proven
    <3>2. claimed' # None /\ claimed'.owner = w /\ claimed'.at = at[w]
      BY <3>1, Constants
    <3>3. main'[w] \in Working => at[w] \in proof'[w]
      BY <2>6 DEF ClaimCas, StartLease, AbandonClaim, Proven
    <3>4. ASSUME NEW v \in Worker \ {w}, main[v] \in Working, ~acked, \A t \in proof[v] : Fresh(t)
          PROVE  FALSE
      <4>1. /\ claimed # None /\ claimed.owner = v
            /\ \E t \in proof[v] : Fresh(t) /\ claimed.at >= t
        BY <3>4
      <4>2. claimed = seen[w] /\ at[w] - seen[w].at >= Lease /\ at[w] <= Now(w)
        BY <2>6 DEF ClaimCas, Prepared
      <4> QED BY <4>1, <4>2, Constants
    <3> QED BY <3>1, <3>2, <3>3, <3>4
  <2>7. CASE ClaimFailed(w)
    BY <2>7, Constants DEF ClaimFailed, AbandonClaim
  <2> QED BY <1>1, <2>1, <2>2, <2>3, <2>4, <2>5, <2>6, <2>7 DEF Claim
<1>2. ASSUME NEW w \in Worker, Process(w) PROVE LeaseHolder'
  <2>1. CASE Fetch(w)
    BY <2>1, Constants DEF Fetch
  <2>2. CASE Quarantine(w)
    BY <2>2, Constants DEF Quarantine, WriteTerminal
  <2>3. CASE FetchFailed(w)
    BY <2>3, Constants DEF FetchFailed, GiveUp, Behind
  <2>4. CASE PublishActivity(w)
    BY <2>4, Constants DEF PublishActivity
  <2>5. CASE ActivityFailed(w)
    BY <2>5, Constants DEF ActivityFailed, WriteTerminal
  <2>6. CASE Execute(w)
    BY <2>6, Constants DEF Execute, WriteTerminal
  <2>7. CASE PutTerminal(w)
    BY <2>7, Constants DEF PutTerminal, AfterPut, WriteTerminal, GiveUp, Behind
  <2>8. CASE PutRefused(w)
    BY <2>8, Constants DEF PutRefused, AfterPut, WriteTerminal, GiveUp, Behind
  <2> QED BY <1>2, <2>1, <2>2, <2>3, <2>4, <2>5, <2>6, <2>7, <2>8 DEF Process
<1>3. ASSUME NEW w \in Worker, Renewal(w) PROVE LeaseHolder'
  <2>1. CASE Prove(w)
    BY <2>1, Constants DEF Prove
  <2>2. CASE Disowned(w)
    BY <2>2, Constants DEF Disowned, GiveUp, Behind
  <2>3. CASE LeaseWake(w)
    BY <2>3, Constants DEF LeaseWake
  <2>4. CASE RenewBegin(w, "main")
    BY <2>4, Constants DEF RenewBegin, Prepared
  <2>5. CASE RenewBegin(w, "lease")
    BY <2>5, Constants DEF RenewBegin, Prepared
  <2>6. CASE RenewRead(w)
    BY <2>6, Constants DEF RenewRead, Prepared
  <2>7. CASE RenewCas(w)
    BY <2>7, Constants DEF RenewCas, Proven, Prepared
  <2>8. CASE RenewUnconfirmed(w)
    BY <2>8, Constants DEF RenewUnconfirmed, EndRenewal, GiveUp, Behind, Prepared
  <2>9. CASE RenewFailed(w)
    BY <2>9, Constants DEF RenewFailed, EndRenewal, GiveUp, Behind, Prepared
  <2>10. CASE RenewPublish(w)
    BY <2>10, Constants DEF RenewPublish, EndRenewal, GiveUp, Behind, Prepared
  <2> QED BY <1>3, <2>1, <2>2, <2>3, <2>4, <2>5, <2>6, <2>7, <2>8, <2>9, <2>10 DEF Renewal
<1>4. ASSUME NEW s \in Slot, LateRenewal(s) PROVE LeaseHolder'
  <2>1. CASE LateBegin(s)
    BY <2>1, Constants DEF LateBegin
  <2>2. CASE LateRead(s)
    BY <2>2, Constants DEF LateRead
  <2>3. CASE LateCas(s)
    <3>1. /\ late[s] # None /\ late[s].step = "cas" /\ claimed = late[s].seen
          /\ UNCHANGED <<clock, acked, main, proof>>
          /\ claimed' = [owner |-> late[s].owner, at |-> late[s].at]
      BY <2>3 DEF LateCas
    <3>2. /\ late[s].owner \in Worker /\ claimed.owner = late[s].owner
          /\ main[late[s].owner] \in Working => Covered(late[s].owner, late[s].at)
      BY <3>1, LateTypes DEF LatePrepared
    <3>3. late[s].at \in Nat
      BY <3>1, LateTypes
    <3>4. claimed' # None /\ claimed'.owner = late[s].owner /\ claimed'.at = late[s].at
      BY <3>1, <3>2, <3>3, Constants
    <3> QED BY <3>1, <3>2, <3>4
  <2>4. CASE LateFailed(s)
    BY <2>4, Constants DEF LateFailed, EndLate
  <2>5. CASE LatePublish(s)
    BY <2>5, Constants DEF LatePublish, EndLate
  <2> QED BY <1>4, <2>1, <2>2, <2>3, <2>4, <2>5 DEF LateRenewal
<1>5. CASE Home
  <2>1. CASE PutClaimant
    BY <2>1, Constants DEF PutClaimant
  <2>2. CASE PutPending
    BY <2>2, Constants DEF PutPending
  <2>3. CASE EnqueueFailed
    BY <2>3, Constants DEF EnqueueFailed
  <2>4. CASE Report
    BY <2>4, Constants DEF Report
  <2>5. CASE PurgePending
    BY <2>5, Constants DEF PurgePending
  <2>6. CASE PurgeClaimant
    BY <2>6, Constants DEF PurgeClaimant
  <2>7. CASE PurgeClaimed
    BY <2>7, Constants DEF PurgeClaimed
  <2>8. CASE PurgeTerminal
    BY <2>8, Constants DEF PurgeTerminal
  <2>9. CASE PurgeActive
    BY <2>9, Constants DEF PurgeActive
  <2>10. CASE PurgeInterrupted
    BY <2>10, Constants DEF PurgeInterrupted
  <2> QED BY <1>5, <2>1, <2>2, <2>3, <2>4, <2>5, <2>6, <2>7, <2>8, <2>9, <2>10 DEF Home
<1>6. ASSUME NEW w \in Worker, Crash(w) PROVE LeaseHolder'
  BY <1>6, Constants DEF Crash
<1>7. CASE Tick
  BY <1>7, Constants DEF Tick
<1>8. CASE UNCHANGED vars
  BY <1>8
<1> QED BY <1>1, <1>2, <1>3, <1>4, <1>5, <1>6, <1>7, <1>8 DEF Next

THEOREM Invariance == Spec => []IInv
<1>1. Init => IInv
  <2> SUFFICES ASSUME Init PROVE IInv
    OBVIOUS
  <2>1. TypeOK
    BY DEF Init, TypeOK, Claiming, Working
  <2>2. Exclusive /\ Stamped
    BY Constants DEF Init, Exclusive, Stamped, MarkerPast, Prepared, LatePrepared, Working, Now
  <2>3. Reported /\ LeaseHolder
    BY DEF Init, Reported, PurgeRetriable, ActivityBeforeExecution, LeaseHolder, Working
  <2> QED BY <2>1, <2>2, <2>3 DEF IInv
<1>2. IInv /\ [Next]_vars => IInv'
  BY TypeStep, ExclusiveStep, StampedStep, ReportedStep, LeaseHolderStep DEF IInv
<1> QED BY <1>1, <1>2, PTL DEF Spec

\* Type correctness, for any number of pollers.
THEOREM TypeCorrectness == Spec => []TypeOK
<1>1. IInv => TypeOK
  BY DEF IInv
<1> QED BY <1>1, Invariance, PTL

\* A worker whose claim or renewal is fresh, with the late renewals it may be
\* followed by, is the owner the bucket names.
THEOREM LeaseSafety == Spec => []LeaseHolder
<1>1. IInv => LeaseHolder
  BY DEF IInv
<1> QED BY <1>1, Invariance, PTL

\* Two pollers never both work on a fresh lease of one job.
OneHolder ==
  \A v, w \in Worker :
    /\ ~acked
    /\ main[v] \in Working /\ \A t \in proof[v] : Fresh(t)
    /\ main[w] \in Working /\ \A t \in proof[w] : Fresh(t)
    => v = w

THEOREM MutualExclusion == Spec => []OneHolder
<1>1. LeaseHolder => OneHolder
  BY DEF LeaseHolder, OneHolder
<1> QED BY <1>1, LeaseSafety, PTL

\* A job that executes is announced until the hive has its result.
THEOREM ActivityAnnounced == Spec => []ActivityBeforeExecution
<1>1. IInv => ActivityBeforeExecution
  BY DEF IInv, Reported
<1> QED BY <1>1, Invariance, PTL

\* An interrupted purge leaves nothing that would be executed again, unless the
\* hive has offered the job again since.
THEOREM PurgeSafety == Spec => []PurgeRetriable
<1>1. IInv => PurgeRetriable
  BY DEF IInv, Reported
<1> QED BY <1>1, Invariance, PTL

\* The terminal object only changes hands with the hive's acknowledgement.
LEMMA RecordStep ==
  ASSUME IInv, [Next]_vars
  PROVE  (terminal # "none" /\ terminal' # terminal => acked)
<1> USE DEF IInv, TypeOK, Reported, vars, bucket, lease, call, result, home
<1>1. ASSUME NEW w \in Worker, Claim(w) PROVE (terminal # "none" /\ terminal' # terminal => acked)
  <2>1. CASE BeginClaim(w)
    BY <2>1 DEF BeginClaim
  <2>2. CASE ClaimCreate(w)
    BY <2>2 DEF ClaimCreate, StartLease, AbandonClaim, Proven
  <2>3. CASE ClaimExists(w)
    BY <2>3 DEF ClaimExists
  <2>4. CASE ClaimRead(w)
    BY <2>4 DEF ClaimRead
  <2>5. CASE ClaimRefused(w)
    BY <2>5 DEF ClaimRefused, AbandonClaim
  <2>6. CASE ClaimCas(w)
    BY <2>6 DEF ClaimCas, StartLease, AbandonClaim, Proven
  <2>7. CASE ClaimFailed(w)
    BY <2>7 DEF ClaimFailed, AbandonClaim
  <2> QED BY <1>1, <2>1, <2>2, <2>3, <2>4, <2>5, <2>6, <2>7 DEF Claim
<1>2. ASSUME NEW w \in Worker, Process(w) PROVE (terminal # "none" /\ terminal' # terminal => acked)
  <2>1. CASE Fetch(w)
    BY <2>1 DEF Fetch
  <2>2. CASE Quarantine(w)
    BY <2>2 DEF Quarantine, WriteTerminal
  <2>3. CASE FetchFailed(w)
    BY <2>3 DEF FetchFailed, GiveUp, Behind
  <2>4. CASE PublishActivity(w)
    BY <2>4 DEF PublishActivity
  <2>5. CASE ActivityFailed(w)
    BY <2>5 DEF ActivityFailed, WriteTerminal
  <2>6. CASE Execute(w)
    BY <2>6 DEF Execute, WriteTerminal
  <2>7. CASE PutTerminal(w)
    BY <2>7 DEF PutTerminal, AfterPut, WriteTerminal, GiveUp, Behind
  <2>8. CASE PutRefused(w)
    BY <2>8 DEF PutRefused, AfterPut, WriteTerminal, GiveUp, Behind
  <2> QED BY <1>2, <2>1, <2>2, <2>3, <2>4, <2>5, <2>6, <2>7, <2>8 DEF Process
<1>3. ASSUME NEW w \in Worker, Renewal(w) PROVE (terminal # "none" /\ terminal' # terminal => acked)
  <2>1. CASE Prove(w)
    BY <2>1 DEF Prove
  <2>2. CASE Disowned(w)
    BY <2>2 DEF Disowned, GiveUp, Behind
  <2>3. CASE LeaseWake(w)
    BY <2>3 DEF LeaseWake
  <2>4. CASE RenewBegin(w, "main")
    BY <2>4 DEF RenewBegin
  <2>5. CASE RenewBegin(w, "lease")
    BY <2>5 DEF RenewBegin
  <2>6. CASE RenewRead(w)
    BY <2>6 DEF RenewRead
  <2>7. CASE RenewCas(w)
    BY <2>7 DEF RenewCas, Proven
  <2>8. CASE RenewUnconfirmed(w)
    BY <2>8 DEF RenewUnconfirmed, EndRenewal, GiveUp, Behind
  <2>9. CASE RenewFailed(w)
    BY <2>9 DEF RenewFailed, EndRenewal, GiveUp, Behind
  <2>10. CASE RenewPublish(w)
    BY <2>10 DEF RenewPublish, EndRenewal, GiveUp, Behind
  <2> QED BY <1>3, <2>1, <2>2, <2>3, <2>4, <2>5, <2>6, <2>7, <2>8, <2>9, <2>10 DEF Renewal
<1>4. ASSUME NEW s \in Slot, LateRenewal(s)
      PROVE  terminal # "none" /\ terminal' # terminal => acked
  <2>1. CASE LateBegin(s)
    BY <2>1 DEF LateBegin
  <2>2. CASE LateRead(s)
    BY <2>2 DEF LateRead
  <2>3. CASE LateCas(s)
    BY <2>3 DEF LateCas, Step, EndLate
  <2>4. CASE LateFailed(s)
    BY <2>4 DEF LateFailed, EndLate
  <2>5. CASE LatePublish(s)
    BY <2>5 DEF LatePublish, EndLate
  <2> QED BY <1>4, <2>1, <2>2, <2>3, <2>4, <2>5 DEF LateRenewal
<1>5. CASE Home
  <2>1. CASE PutClaimant
    BY <2>1 DEF PutClaimant
  <2>2. CASE PutPending
    BY <2>2 DEF PutPending
  <2>3. CASE EnqueueFailed
    BY <2>3 DEF EnqueueFailed
  <2>4. CASE Report
    BY <2>4 DEF Report
  <2>5. CASE PurgePending
    BY <2>5 DEF PurgePending
  <2>6. CASE PurgeClaimant
    BY <2>6 DEF PurgeClaimant
  <2>7. CASE PurgeClaimed
    BY <2>7 DEF PurgeClaimed
  <2>8. CASE PurgeTerminal
    BY <2>8 DEF PurgeTerminal
  <2>9. CASE PurgeActive
    BY <2>9 DEF PurgeActive
  <2>10. CASE PurgeInterrupted
    BY <2>10 DEF PurgeInterrupted
  <2> QED BY <1>5, <2>1, <2>2, <2>3, <2>4, <2>5, <2>6, <2>7, <2>8, <2>9, <2>10 DEF Home
<1>6. ASSUME NEW w \in Worker, Crash(w) PROVE (terminal # "none" /\ terminal' # terminal => acked)
  BY <1>6 DEF Crash
<1>7. CASE Tick
  BY <1>7 DEF Tick
<1>8. CASE UNCHANGED vars
  BY <1>8
<1> QED BY <1>1, <1>2, <1>3, <1>4, <1>5, <1>6, <1>7, <1>8 DEF Next

THEOREM FirstRecordStands == Spec => RecordStands
<1>1. IInv /\ [Next]_vars => [terminal # "none" /\ terminal' # terminal => acked]_vars
  BY RecordStep
<1> QED BY <1>1, Invariance, PTL DEF Spec, RecordStands

\* Each request is one step of AtomicLease, or none.
LEMMA LeaseStep ==
  ASSUME IInv, [Next]_vars
  PROVE  [Abstract!LeaseNext]_(Abstract!leaseVars)
<1> USE DEF IInv, TypeOK, Stamped, Reported, Claiming, Working, Marker, Now,
            Abstract!leaseVars, vars, bucket, lease, call, result, home
<1>1. ASSUME NEW w \in Worker, Claim(w) PROVE [Abstract!LeaseNext]_(Abstract!leaseVars)
  <2>1. CASE BeginClaim(w)
    BY <2>1 DEF BeginClaim
  <2>2. CASE ClaimCreate(w)
    <3>1. Abstract!Acquire(w)
      BY <2>2, Constants DEF ClaimCreate, Abstract!Acquire, Prepared, Abstract!Stamp
    <3> QED BY <3>1 DEF Abstract!LeaseNext
  <2>3. CASE ClaimExists(w)
    BY <2>3 DEF ClaimExists
  <2>4. CASE ClaimRead(w)
    BY <2>4 DEF ClaimRead
  <2>5. CASE ClaimRefused(w)
    BY <2>5 DEF ClaimRefused, AbandonClaim
  <2>6. CASE ClaimCas(w)
    <3>1. claimed # None /\ claimed' = [owner |-> w, at |-> at[w]]
      BY <2>6 DEF ClaimCas, Prepared
    <3>2. at[w] - claimed.at >= Lease
      BY <2>6 DEF ClaimCas, Prepared
    <3>3. at[w] \in Abstract!Stamp
      BY Constants DEF Prepared, Abstract!Stamp
    <3>4. UNCHANGED <<clock, acked>>
      BY <2>6 DEF ClaimCas
    <3>5. Abstract!Takeover(w)
      BY <3>1, <3>2, <3>3, <3>4 DEF Abstract!Takeover
    <3> QED BY <3>5 DEF Abstract!LeaseNext
  <2>7. CASE ClaimFailed(w)
    BY <2>7 DEF ClaimFailed, AbandonClaim
  <2> QED BY <1>1, <2>1, <2>2, <2>3, <2>4, <2>5, <2>6, <2>7 DEF Claim
<1>2. ASSUME NEW w \in Worker, Process(w) PROVE [Abstract!LeaseNext]_(Abstract!leaseVars)
  <2>1. CASE Fetch(w)
    BY <2>1 DEF Fetch
  <2>2. CASE Quarantine(w)
    BY <2>2 DEF Quarantine, WriteTerminal
  <2>3. CASE FetchFailed(w)
    BY <2>3 DEF FetchFailed, GiveUp, Behind
  <2>4. CASE PublishActivity(w)
    BY <2>4 DEF PublishActivity
  <2>5. CASE ActivityFailed(w)
    BY <2>5 DEF ActivityFailed, WriteTerminal
  <2>6. CASE Execute(w)
    BY <2>6 DEF Execute, WriteTerminal
  <2>7. CASE PutTerminal(w)
    BY <2>7 DEF PutTerminal, AfterPut, WriteTerminal, GiveUp, Behind
  <2>8. CASE PutRefused(w)
    BY <2>8 DEF PutRefused, AfterPut, WriteTerminal, GiveUp, Behind
  <2> QED BY <1>2, <2>1, <2>2, <2>3, <2>4, <2>5, <2>6, <2>7, <2>8 DEF Process
<1>3. ASSUME NEW w \in Worker, Renewal(w) PROVE [Abstract!LeaseNext]_(Abstract!leaseVars)
  <2>1. CASE Prove(w)
    BY <2>1 DEF Prove
  <2>2. CASE Disowned(w)
    BY <2>2 DEF Disowned, GiveUp, Behind
  <2>3. CASE LeaseWake(w)
    BY <2>3 DEF LeaseWake
  <2>4. CASE RenewBegin(w, "main")
    BY <2>4 DEF RenewBegin
  <2>5. CASE RenewBegin(w, "lease")
    BY <2>5 DEF RenewBegin
  <2>6. CASE RenewRead(w)
    BY <2>6 DEF RenewRead
  <2>7. CASE RenewCas(w)
    <3>1. Abstract!Renew(w)
      BY <2>7, Constants DEF RenewCas, Abstract!Renew, Prepared, Abstract!Stamp
    <3> QED BY <3>1 DEF Abstract!LeaseNext
  <2>8. CASE RenewUnconfirmed(w)
    <3>1. Abstract!Renew(w)
      BY <2>8, Constants DEF RenewUnconfirmed, Abstract!Renew, Prepared, Abstract!Stamp
    <3> QED BY <3>1 DEF Abstract!LeaseNext
  <2>9. CASE RenewFailed(w)
    BY <2>9 DEF RenewFailed, EndRenewal, GiveUp, Behind
  <2>10. CASE RenewPublish(w)
    BY <2>10 DEF RenewPublish, EndRenewal, GiveUp, Behind
  <2> QED BY <1>3, <2>1, <2>2, <2>3, <2>4, <2>5, <2>6, <2>7, <2>8, <2>9, <2>10 DEF Renewal
<1>4. ASSUME NEW s \in Slot, LateRenewal(s) PROVE [Abstract!LeaseNext]_(Abstract!leaseVars)
  <2>1. CASE LateBegin(s)
    BY <2>1 DEF LateBegin
  <2>2. CASE LateRead(s)
    BY <2>2 DEF LateRead
  <2>3. CASE LateCas(s)
    <3>1. /\ claimed # None /\ claimed.owner = late[s].owner
          /\ claimed' = [owner |-> late[s].owner, at |-> late[s].at] /\ UNCHANGED <<clock, acked>>
      BY <2>3 DEF LateCas, LatePrepared
    <3>2. late[s].owner \in Worker /\ late[s].at \in Nat /\ late[s].at <= Now(late[s].owner)
      BY <2>3, LateTypes DEF LateCas, LatePrepared
    <3>3. late[s].at \in Abstract!Stamp
      BY <3>2, Constants DEF Abstract!Stamp
    <3>4. Abstract!Renew(late[s].owner)
      BY <3>1, <3>3 DEF Abstract!Renew
    <3> QED BY <3>2, <3>4 DEF Abstract!LeaseNext
  <2>4. CASE LateFailed(s)
    BY <2>4 DEF LateFailed, EndLate
  <2>5. CASE LatePublish(s)
    BY <2>5 DEF LatePublish, EndLate
  <2> QED BY <1>4, <2>1, <2>2, <2>3, <2>4, <2>5 DEF LateRenewal
<1>5. CASE Home
  <2>1. CASE PutClaimant
    BY <2>1 DEF PutClaimant
  <2>2. CASE PutPending
    BY <2>2 DEF PutPending
  <2>3. CASE EnqueueFailed
    BY <2>3 DEF EnqueueFailed
  <2>4. CASE Report
    <3>1. Abstract!Acknowledge
      BY <2>4, Constants DEF Report, Abstract!Acknowledge, Abstract!Stamp
    <3> QED BY <3>1 DEF Abstract!LeaseNext
  <2>5. CASE PurgePending
    BY <2>5 DEF PurgePending
  <2>6. CASE PurgeClaimant
    BY <2>6 DEF PurgeClaimant
  <2>7. CASE PurgeClaimed
    <3>1. Abstract!Drop
      BY <2>7, Constants DEF PurgeClaimed, Abstract!Drop, Abstract!Stamp
    <3> QED BY <3>1 DEF Abstract!LeaseNext
  <2>8. CASE PurgeTerminal
    BY <2>8 DEF PurgeTerminal
  <2>9. CASE PurgeActive
    BY <2>9 DEF PurgeActive
  <2>10. CASE PurgeInterrupted
    BY <2>10 DEF PurgeInterrupted
  <2> QED BY <1>5, <2>1, <2>2, <2>3, <2>4, <2>5, <2>6, <2>7, <2>8, <2>9, <2>10 DEF Home
<1>6. ASSUME NEW w \in Worker, Crash(w) PROVE [Abstract!LeaseNext]_(Abstract!leaseVars)
  BY <1>6 DEF Crash
<1>7. CASE Tick
  BY <1>7 DEF Tick, Abstract!LeaseNext, Abstract!Pass
<1>8. CASE UNCHANGED vars
  BY <1>8
<1> QED BY <1>1, <1>2, <1>3, <1>4, <1>5, <1>6, <1>7, <1>8 DEF Next

THEOREM Implementation == Spec => LeaseImplementation
<1>1. Init => Abstract!LeaseInit
  BY DEF Init, Abstract!LeaseInit
<1>2. IInv /\ [Next]_vars => [Abstract!LeaseNext]_(Abstract!leaseVars)
  BY LeaseStep
<1> QED BY <1>1, <1>2, Invariance, PTL DEF Spec, LeaseImplementation, Abstract!LeaseSpec

-------------------------------------------------------------------------------
\* The marker as FlagLease has it: live while its lease may still run by some
\* poller's clock.
Flag == INSTANCE FlagLease WITH
  marker <- IF claimed = None THEN None ELSE [owner |-> claimed.owner, live |-> Fresh(claimed.at)]

\* What FlagLease sees of a marker that is there.
LEMMA FlagMark ==
  ASSUME NEW m \in Marker, NEW l \in BOOLEAN
  PROVE  /\ [owner |-> m.owner, live |-> l] # None
         /\ [owner |-> m.owner, live |-> l].owner = m.owner
         /\ [owner |-> m.owner, live |-> l].live = l
<1>1. [owner |-> m.owner, live |-> l] \in [owner : Worker, live : BOOLEAN]
  BY DEF Marker
<1> QED BY <1>1, NoneAssumption

\* Each step of AtomicLease is one step of FlagLease, or none: a stamp that is as
\* old as the lease by one clock is not fresh by any, a renewal that goes back in
\* time can end its owner's lease as time does, and time only ends leases.
LEMMA FlagStep ==
  ASSUME IInv, IInv', [Abstract!LeaseNext]_(Abstract!leaseVars)
  PROVE  [Flag!FlagNext]_(Flag!flagVars)
<1> DEFINE Live == clock + MaxSkew < claimed.at + Lease
           Mark == IF claimed = None THEN None ELSE [owner |-> claimed.owner, live |-> Live]
<1>1. clock \in Nat /\ claimed \in Marker \cup {None} /\ claimed' \in Marker \cup {None}
  BY DEF IInv, TypeOK
<1>2. claimed # None =>
        Mark = [owner |-> claimed.owner, live |-> Live]
          /\ Mark # None /\ Mark.owner = claimed.owner /\ Mark.live = Live
  <2>1. Live \in BOOLEAN
    OBVIOUS
  <2> HIDE DEF Live
  <2> QED BY <1>1, <2>1, FlagMark
<1>3. claimed = None => Mark = None
  OBVIOUS
<1>4. claimed' # None => Mark' = [owner |-> claimed'.owner, live |-> Live']
  OBVIOUS
<1>5. claimed' = None => Mark' = None
  OBVIOUS
<1>6. Live \in BOOLEAN /\ Live' \in BOOLEAN
  OBVIOUS
<1>7. SUFFICES
        \/ \E w \in Worker :
             \/ /\ Mark # None => ~Mark.live
                /\ \E l \in BOOLEAN : Mark' = [owner |-> w, live |-> l]
                /\ UNCHANGED acked
             \/ /\ Mark # None /\ Mark.owner = w
                /\ \E l \in BOOLEAN : (Mark.live => l) /\ Mark' = [owner |-> w, live |-> l]
                /\ UNCHANGED acked
        \/ acked /\ Mark' = None /\ UNCHANGED acked
        \/ Mark # None /\ Mark' = [owner |-> Mark.owner, live |-> FALSE] /\ UNCHANGED acked
        \/ acked' = TRUE /\ UNCHANGED Mark
        \/ UNCHANGED <<Mark, acked>>
  BY DEF Fresh, Flag!FlagNext, Flag!flagVars, Flag!Take, Flag!Renew, Flag!Drop, Flag!Expire,
    Flag!Acknowledge
<1> HIDE DEF Mark, Live
<1>8. ASSUME NEW w \in Worker, Abstract!Acquire(w) \/ Abstract!Takeover(w)
      PROVE  /\ Mark # None => ~Mark.live
             /\ \E l \in BOOLEAN : Mark' = [owner |-> w, live |-> l]
             /\ UNCHANGED acked
  <2>1. PICK t \in Abstract!Stamp : claimed' = [owner |-> w, at |-> t]
    BY <1>8 DEF Abstract!Acquire, Abstract!Takeover
  <2>2. claimed' # None /\ claimed'.owner = w
    BY <1>1, <2>1, NoneAssumption, Constants DEF Abstract!Stamp, Marker
  <2>3. claimed # None => ~Live
    BY <1>1, <1>6, <1>8, Constants
       DEF Abstract!Acquire, Abstract!Takeover, Abstract!Stamp, Marker, Live
  <2>4. UNCHANGED acked
    BY <1>8 DEF Abstract!Acquire, Abstract!Takeover
  <2>5. Live' \in BOOLEAN
    BY <1>6
  <2>6. Mark' = [owner |-> w, live |-> Live']
    BY <1>4, <2>2
  <2> QED BY <1>2, <1>3, <2>3, <2>4, <2>5, <2>6
<1>9. ASSUME NEW w \in Worker, Abstract!Renew(w)
      PROVE  \/ /\ Mark # None /\ Mark.owner = w
                /\ \E l \in BOOLEAN : (Mark.live => l) /\ Mark' = [owner |-> w, live |-> l]
                /\ UNCHANGED acked
             \/ Mark # None /\ Mark' = [owner |-> Mark.owner, live |-> FALSE] /\ UNCHANGED acked
  <2>1. PICK t \in Abstract!Stamp : claimed' = [owner |-> w, at |-> t]
    BY <1>9 DEF Abstract!Renew
  <2>2. claimed # None /\ claimed.owner = w /\ UNCHANGED acked
    BY <1>9 DEF Abstract!Renew
  <2>3. claimed'.owner = w /\ claimed' # None
    BY <1>1, <2>1, NoneAssumption, Constants DEF Abstract!Stamp, Marker
  <2>4. Mark' = [owner |-> w, live |-> Live']
    BY <1>4, <2>3
  <2>5. CASE Live => Live'
    BY <1>2, <1>6, <2>2, <2>4, <2>5
  <2>6. CASE ~(Live => Live')
    <3>1. Live' = FALSE
      BY <1>6, <2>6
    <3> QED BY <1>2, <2>2, <2>4, <3>1
  <2> QED BY <2>5, <2>6
<1>10. CASE Abstract!Drop
  BY <1>5, <1>10 DEF Abstract!Drop
<1>11. CASE Abstract!Acknowledge
  <2>1. Live' = Live
    BY <1>11 DEF Abstract!Acknowledge, Live
  <2>2. Mark' = Mark
    BY <1>2, <1>3, <1>4, <1>5, <1>11, <2>1 DEF Abstract!Acknowledge
  <2> QED BY <1>11, <2>2 DEF Abstract!Acknowledge
<1>12. CASE Abstract!Pass
  <2>1. UNCHANGED <<claimed, acked>> /\ clock' = clock + 1
    BY <1>12 DEF Abstract!Pass
  <2>2. CASE claimed = None
    BY <1>3, <1>5, <2>1, <2>2
  <2>3. CASE claimed # None
    <3>1. Live' => Live
      BY <1>1, <2>1, <2>3, Constants DEF Marker, Live
    <3>2. CASE Live' = Live
      BY <1>2, <1>4, <2>1, <2>3, <3>2
    <3>3. CASE Live' # Live
      <4>1. Live' = FALSE
        BY <1>6, <3>1, <3>3
      <4> QED BY <1>2, <1>4, <2>1, <2>3, <4>1
    <3> QED BY <3>2, <3>3
  <2> QED BY <2>2, <2>3
<1>13. CASE UNCHANGED Abstract!leaseVars
  <2>1. UNCHANGED <<clock, claimed, acked>>
    BY <1>13 DEF Abstract!leaseVars
  <2>2. Live' = Live
    BY <2>1 DEF Live
  <2>3. Mark' = Mark
    BY <1>2, <1>3, <1>4, <1>5, <2>1, <2>2
  <2> QED BY <2>1, <2>3
<1> QED BY <1>8, <1>9, <1>10, <1>11, <1>12, <1>13 DEF Abstract!LeaseNext

\* claim(), renew_claim() and purge() come to the lease that Relay has: a live
\* marker does not change hands and is dropped only once the hive has the result.
THEOREM FlagImplementation == Spec => Flag!FlagSpec
<1>1. Init => Flag!FlagInit
  BY DEF Init, Flag!FlagInit
<1>2. IInv /\ IInv' /\ [Next]_vars => [Flag!FlagNext]_(Flag!flagVars)
  BY LeaseStep, FlagStep
<1> QED BY <1>1, <1>2, Invariance, PTL DEF Spec, Flag!FlagSpec
==============================================================================
