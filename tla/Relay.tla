-------------------------------- MODULE Relay --------------------------------
(***************************************************************************)
(* One hive job's way through the relay and back: the hive, the enqueuer's *)
(* loop, the node pollers and the reconciler, around the bucket.           *)
(*                                                                         *)
(* claimed/<uuid> is the lease of FlagLease, with a flag in the place of   *)
(* its stamp: ClaimLease shows that claim() and renew_claim() come to it.  *)
(* What goes wrong (a failed or unanswered request, a crash, a lease       *)
(* of the hive that lapses early, a stalled poller) is drawn from a budget *)
(* of MaxFaults; restarts of the enqueuer have a budget of their own,      *)
(* since a restarted enqueuer is another agent to the hive.                *)
(***************************************************************************)
EXTENDS Naturals

CONSTANTS
  Worker,       \* the node's pollers
  None,         \* an absent object, no claimant
  MaxFaults,    \* bound on the faults of a behaviour
  MaxRestarts   \* bound on the restarts of the enqueuer process

ASSUME NoneAssumption == None \notin Worker /\ None \notin Nat
ASSUME BoundAssumption == MaxFaults \in Nat /\ MaxRestarts \in Nat

VARIABLES
  hive,      \* the job on the bus: its status and its claimant
  offload,   \* whether _node_should_offload accepts the job
  pending,   \* claimant named in pending/<uuid>
  envelope,  \* claimant named in claimant/<uuid>
  lease,     \* claimed/<uuid>
  terminal,  \* terminal/<uuid>: claimant and status
  active,    \* status/active/<uuid>: claimant, and whether it is recent
  urn,       \* the URN the hive gave the enqueuer when it registered
  enq,       \* program counter of the enqueuer's loop
  seen,      \* claimant of the activity marker it has read
  work,      \* program counter of a poller on this job
  job,       \* claimant in the payload it has opened
  rec,       \* program counter of the reconciler
  report,    \* the terminal payload it has opened
  faults     \* faults so far

bucket == <<pending, envelope, lease, terminal, active>>
enqueuer == <<urn, enq, seen>>
poller == <<work, job>>
reconciler == <<rec, report>>
vars == <<hive, offload, bucket, enqueuer, poller, reconciler, faults>>

Urn == 0 .. MaxRestarts
\* needs-review is a final status like done.
Resolved == {"done", "failed"}
Terminal == [claimant : Urn, status : Resolved]

TypeOK ==
  /\ hive \in [status : {"queued", "running"} \cup Resolved, claimant : Urn \cup {None}]
  /\ offload \in BOOLEAN
  /\ pending \in Urn \cup {None} /\ envelope \in Urn \cup {None}
  /\ lease \in [owner : Worker, live : BOOLEAN] \cup {None}
  /\ terminal \in Terminal \cup {None}
  /\ active \in [claimant : Urn, recent : BOOLEAN] \cup {None}
  /\ urn \in Urn
  /\ enq \in {"renew", "refresh", "drain", "judge", "claimant", "pending", "running", "failed"}
  /\ seen \in Urn \cup {None}
  /\ work \in [Worker -> {"idle", "fetch", "activity", "execute", "put"}]
  /\ job \in [Worker -> Urn \cup {None}]
  /\ rec \in {"idle", "patch", "pending", "claimant", "claimed", "terminal", "active"}
  /\ report \in Terminal \cup {None}
  /\ faults \in 0 .. MaxFaults

Init ==
  /\ hive = [status |-> "queued", claimant |-> None]
  /\ offload \in BOOLEAN
  /\ pending = None /\ envelope = None /\ lease = None /\ terminal = None /\ active = None
  /\ urn = 0 /\ enq = "renew" /\ seen = None
  /\ work = [w \in Worker |-> "idle"] /\ job = [w \in Worker |-> None]
  /\ rec = "idle" /\ report = None
  /\ faults = 0

Fault == faults < MaxFaults /\ faults' = faults + 1
NoFault == UNCHANGED faults

-------------------------------------------------------------------------------
(* The hive                                                                *)

\* The hive lets a job's current claimant update it, until it is resolved; the
\* same final status may be reported again.
Accepts(by, status) ==
  /\ hive.claimant = by
  /\ hive.status \in Resolved => hive.status = status

Update(by, status) ==
  hive' = IF status = "queued" THEN [status |-> "queued", claimant |-> None]
          ELSE [status |-> status, claimant |-> by]

\* A PATCH is accepted; refused by the rules; or lost, before or after it took
\* effect.  `next` and `otherwise` are what its caller does next.
Patch(by, status, next, otherwise) ==
  \/ Accepts(by, status) /\ Update(by, status) /\ next /\ NoFault
  \/ ~Accepts(by, status) /\ UNCHANGED hive /\ otherwise /\ NoFault
  \/ Accepts(by, status) /\ Update(by, status) /\ otherwise /\ Fault
  \/ UNCHANGED hive /\ otherwise /\ Fault

\* Nothing in the relay refers to the job, so nothing will renew its lease.
Forgotten ==
  /\ pending = None /\ terminal = None
  /\ enq \in {"renew", "drain"}
  /\ \A w \in Worker : work[w] = "idle"

\* The claimant's lease on the job lapses: for certain when the relay has nothing
\* of it, as a fault when a side was offline for too long.
HiveLapse ==
  /\ hive.status = "running"
  /\ Update(None, "queued")
  /\ IF Forgotten THEN NoFault ELSE Fault
  /\ UNCHANGED <<offload, bucket, enqueuer, poller, reconciler>>

\* A home worker takes a job that the enqueuer released.
FleetTakes ==
  /\ hive.status = "queued" /\ ~offload
  /\ hive' = [status |-> "done", claimant |-> None]
  /\ UNCHANGED <<offload, bucket, enqueuer, poller, reconciler, faults>>

-------------------------------------------------------------------------------
(* The enqueuer: main's loop, renew_active_jobs, run_once                  *)

EnqGoto(label) == enq' = label

Recent == active # None /\ active.recent

\* No job is pending, or its marker is missing or not recent.
RenewNone ==
  /\ enq = "renew" /\ (pending = None \/ ~Recent)
  /\ EnqGoto("drain")
  /\ UNCHANGED <<hive, offload, bucket, urn, seen, poller, reconciler, faults>>

\* No poller has refreshed the marker for HIVE_LEASE_SECONDS: it is skipped.
RenewStale ==
  /\ enq = "renew" /\ pending # None /\ Recent
  /\ \A w \in Worker : work[w] # "execute"
  /\ active' = [active EXCEPT !.recent = FALSE]
  /\ EnqGoto("drain")
  /\ UNCHANGED <<hive, offload, pending, envelope, lease, terminal, urn, seen, poller, reconciler,
                 faults>>

RenewRead ==
  /\ enq = "renew" /\ pending # None /\ Recent
  /\ EnqGoto("refresh") /\ seen' = active.claimant
  /\ UNCHANGED <<hive, offload, bucket, urn, poller, reconciler, faults>>

\* The hive's claim is refreshed as the marker's claimant; a refusal raises, and
\* the loop starts over without draining the hive.
Refresh ==
  /\ enq = "refresh"
  /\ Patch(seen, "running", EnqGoto("drain"), EnqGoto("renew"))
  /\ UNCHANGED <<offload, bucket, urn, seen, poller, reconciler>>

\* claim_next gives the job to this agent.
ClaimNext ==
  /\ enq = "drain" /\ hive.status = "queued"
  /\ Update(urn, "running")
  /\ \/ EnqGoto("judge") /\ NoFault
     \/ EnqGoto("renew") /\ Fault  \* claimed, but the answer is lost
  /\ UNCHANGED <<offload, bucket, urn, seen, poller, reconciler>>

\* 204, or an error: back to the start of the loop.
NothingToClaim ==
  /\ enq = "drain"
  /\ IF hive.status # "queued" THEN NoFault ELSE Fault
  /\ EnqGoto("renew")
  /\ UNCHANGED <<hive, offload, bucket, urn, seen, poller, reconciler>>

\* A job the node cannot execute goes back to the queue.  Taken again before a
\* home worker got it, it is released again, and that ends the sweep.
Release ==
  /\ enq = "judge" /\ ~offload
  /\ \E n \in {"drain", "renew"} : Patch(urn, "queued", EnqGoto(n), EnqGoto(n))
  /\ UNCHANGED <<offload, bucket, urn, seen, poller, reconciler>>

\* The context is gathered and the payload sealed, or that raises.
Build ==
  /\ enq = "judge" /\ offload
  /\ \/ EnqGoto("claimant") /\ NoFault
     \/ EnqGoto("failed") /\ Fault
  /\ UNCHANGED <<hive, offload, bucket, urn, seen, poller, reconciler>>

PutClaimant ==
  /\ enq = "claimant"
  /\ \/ envelope' = urn /\ EnqGoto("pending") /\ NoFault
     \/ envelope' \in {envelope, urn} /\ EnqGoto("failed") /\ Fault
  /\ UNCHANGED <<hive, offload, pending, lease, terminal, active, urn, seen, poller, reconciler>>

PutPending ==
  /\ enq = "pending"
  /\ \/ pending' = urn /\ EnqGoto("running") /\ NoFault
     \/ pending' \in {pending, urn} /\ EnqGoto("failed") /\ Fault
  /\ UNCHANGED <<hive, offload, envelope, lease, terminal, active, urn, seen, poller, reconciler>>

\* The answer to these two PATCHes is not looked at: the drain goes on.
MarkRunning ==
  /\ enq = "running"
  /\ Patch(urn, "running", EnqGoto("drain"), EnqGoto("drain"))
  /\ UNCHANGED <<offload, bucket, urn, seen, poller, reconciler>>

MarkFailed ==
  /\ enq = "failed"
  /\ Patch(urn, "failed", EnqGoto("drain"), EnqGoto("drain"))
  /\ UNCHANGED <<offload, bucket, urn, seen, poller, reconciler>>

\* The process is started again and registers: the hive assigns a new URN.
Restart ==
  /\ urn < MaxRestarts
  /\ urn' = urn + 1
  /\ EnqGoto("renew") /\ seen' = None
  /\ UNCHANGED <<hive, offload, bucket, poller, reconciler, faults>>

-------------------------------------------------------------------------------
(* The node pollers                                                        *)

WorkGoto(w, label) == work' = [work EXCEPT ![w] = label]
Holds(w) == lease # None /\ lease.owner = w

\* Mutant: no takeover of an expired claim.
ClaimUnclaimed(w) ==
  /\ work[w] = "idle" /\ pending # None
  /\ lease = None
  /\ lease' = [owner |-> w, live |-> TRUE]
  /\ \/ WorkGoto(w, "fetch") /\ NoFault
     \/ UNCHANGED work /\ Fault
  /\ UNCHANGED <<hive, offload, pending, envelope, terminal, active, enqueuer, job, reconciler>>

\* Mutant: a claim that does not ask how old the marker is.
ClaimAny(w) ==
  /\ work[w] = "idle" /\ pending # None
  /\ lease' = [owner |-> w, live |-> TRUE]
  /\ \/ WorkGoto(w, "fetch") /\ NoFault
     \/ UNCHANGED work /\ Fault
  /\ UNCHANGED <<hive, offload, pending, envelope, terminal, active, enqueuer, job, reconciler>>

Claim(w) ==
  /\ work[w] = "idle" /\ pending # None
  /\ lease # None => ~lease.live
  /\ lease' = [owner |-> w, live |-> TRUE]
  /\ \/ WorkGoto(w, "fetch") /\ NoFault
     \/ UNCHANGED work /\ Fault  \* claimed, but the answer is lost
  /\ UNCHANGED <<hive, offload, pending, envelope, terminal, active, enqueuer, job, reconciler>>

Fetch(w) ==
  /\ work[w] = "fetch"
  /\ IF pending # None
     THEN WorkGoto(w, "activity") /\ job' = [job EXCEPT ![w] = pending]
     ELSE WorkGoto(w, "idle") /\ UNCHANGED job
  /\ UNCHANGED <<hive, offload, bucket, enqueuer, reconciler, faults>>

\* Activity is published before the job runs, or the job fails without running.
PublishActivity(w) ==
  /\ work[w] = "activity"
  /\ active' = [claimant |-> job[w], recent |-> TRUE]
  /\ WorkGoto(w, "execute")
  /\ UNCHANGED <<hive, offload, pending, envelope, lease, terminal, enqueuer, job, reconciler,
                 faults>>

\* The executor ends one way or the other and is_owned() renews the claim; a
\* poller that lost it leaves the job.
Execute(w) ==
  /\ work[w] = "execute"
  /\ IF Holds(w)
     THEN lease' = [lease EXCEPT !.live = TRUE] /\ WorkGoto(w, "put")
     ELSE UNCHANGED lease /\ WorkGoto(w, "idle")
  /\ UNCHANGED <<hive, offload, pending, envelope, terminal, active, enqueuer, job, reconciler,
                 faults>>

\* Mutant: the terminal payload does not name the claimant.
PutUnrouted(w) ==
  /\ work[w] = "put"
  /\ IF terminal = None
     THEN \E s \in Resolved : terminal' = [claimant |-> None, status |-> s]
     ELSE UNCHANGED terminal
  /\ WorkGoto(w, "idle")
  /\ UNCHANGED <<hive, offload, pending, envelope, lease, active, enqueuer, job, reconciler,
                 faults>>

\* Mutant: an unconditional write of the terminal object.
PutAnyway(w) ==
  /\ work[w] = "put"
  /\ \E s \in Resolved : terminal' = [claimant |-> job[w], status |-> s]
  /\ WorkGoto(w, "idle")
  /\ UNCHANGED <<hive, offload, pending, envelope, lease, active, enqueuer, job, reconciler,
                 faults>>

\* The first terminal object is kept.
PutTerminal(w) ==
  /\ work[w] = "put"
  /\ IF terminal = None
     THEN \E s \in Resolved : terminal' = [claimant |-> job[w], status |-> s]
     ELSE UNCHANGED terminal
  /\ WorkGoto(w, "idle")
  /\ UNCHANGED <<hive, offload, pending, envelope, lease, active, enqueuer, job, reconciler,
                 faults>>

WorkerCrash(w) ==
  /\ work[w] # "idle"
  /\ WorkGoto(w, "idle") /\ Fault
  /\ UNCHANGED <<hive, offload, bucket, enqueuer, job, reconciler>>

\* A lease runs out that its owner does not renew; the marker, renewed with it and
\* for a shorter time, has run out by then.  A stall of a busy poller, or of the
\* enqueuer until the lease is gone too, is a fault.
LeaseExpires ==
  /\ lease # None /\ lease.live
  /\ lease' = [lease EXCEPT !.live = FALSE]
  /\ IF work[lease.owner] = "idle" /\ ~Recent THEN NoFault ELSE Fault
  /\ UNCHANGED <<hive, offload, pending, envelope, terminal, active, enqueuer, poller, reconciler>>

-------------------------------------------------------------------------------
(* The reconciler                                                          *)

Open ==
  /\ rec = "idle" /\ terminal # None
  /\ report' = terminal /\ rec' = "patch"
  /\ UNCHANGED <<hive, offload, bucket, enqueuer, poller, faults>>

\* Mutant: the job is purged whatever the hive answered.
ReportOnce ==
  /\ rec = "patch"
  /\ Patch(report.claimant, report.status, rec' = "pending", rec' = "pending")
  /\ UNCHANGED <<offload, bucket, enqueuer, poller, report>>

\* The hive is told as the claimant that the payload names; only an
\* acknowledgement starts the purge.
Report ==
  /\ rec = "patch"
  /\ Patch(report.claimant, report.status, rec' = "pending", rec' = "idle")
  /\ UNCHANGED <<offload, bucket, enqueuer, poller, report>>

\* purge(): one delete after the other.
PurgeOne(this, next, object) ==
  /\ rec = this /\ object
  /\ rec' = next
  /\ UNCHANGED <<hive, offload, enqueuer, poller, report, faults>>

Purge ==
  \/ PurgeOne("pending", "claimant",
       pending' = None /\ UNCHANGED <<envelope, lease, terminal, active>>)
  \/ PurgeOne("claimant", "claimed",
       envelope' = None /\ UNCHANGED <<pending, lease, terminal, active>>)
  \/ PurgeOne("claimed", "terminal",
       lease' = None /\ UNCHANGED <<pending, envelope, terminal, active>>)
  \/ PurgeOne("terminal", "active",
       terminal' = None /\ UNCHANGED <<pending, envelope, lease, active>>)
  \/ PurgeOne("active", "idle",
       active' = None /\ UNCHANGED <<pending, envelope, lease, terminal>>)

\* The process dies, or a delete raises.
ReconcilerCrash ==
  /\ rec # "idle" /\ rec' = "idle" /\ Fault
  /\ UNCHANGED <<hive, offload, bucket, enqueuer, poller, report>>

-------------------------------------------------------------------------------
Enqueue ==
  \/ RenewNone \/ RenewStale \/ RenewRead \/ Refresh \/ ClaimNext \/ NothingToClaim \/ Release \/ Build
  \/ PutClaimant \/ PutPending \/ MarkRunning \/ MarkFailed

Poll(w) == Claim(w) \/ Fetch(w) \/ PublishActivity(w) \/ Execute(w) \/ PutTerminal(w)

Reconcile == Open \/ Report \/ Purge

Next ==
  \/ Enqueue \/ Restart
  \/ \E w \in Worker : Poll(w) \/ WorkerCrash(w)
  \/ Reconcile \/ ReconcilerCrash
  \/ HiveLapse \/ FleetTakes \/ LeaseExpires

Spec == Init /\ [][Next]_vars

\* Each service loops for ever; time passes for leases and markers; home workers
\* take what is released.  Nothing is assumed of faults but their bound.
Fairness ==
  /\ WF_vars(Enqueue) /\ WF_vars(Reconcile)
  /\ \A w \in Worker : WF_vars(Poll(w))
  /\ WF_vars(HiveLapse /\ NoFault) /\ SF_vars(FleetTakes)
  /\ WF_vars(LeaseExpires /\ NoFault) /\ SF_vars(RenewStale)

FairSpec == Spec /\ Fairness

-------------------------------------------------------------------------------
(* Properties                                                              *)

\* "never delete evidence the hive hasn't acknowledged": the job's payload and
\* its terminal object only disappear once the hive holds its final status.
EvidenceKept ==
  [][(pending # None /\ pending' = None) \/ (terminal # None /\ terminal' = None)
       => hive.status \in Resolved]_vars

\* The reconciler reads the terminal object, and PATCHes later: what a job of the
\* relay is resolved with is what that object says at the moment the hive accepts
\* it, or the enqueuer's own "failed" for a job it could not hand over.
ResultRecorded ==
  [][offload /\ hive.status \notin Resolved /\ hive'.status \in Resolved
       => \/ terminal = [claimant |-> hive'.claimant, status |-> hive'.status]
          \/ enq = "failed" /\ hive'.status = "failed"]_vars

\* While the enqueuer is not restarted, the claimant that travels through payload,
\* poller and terminal object is the hive's: a report is refused only if the job
\* is back in the queue or resolved already.
ReportWelcome ==
  urn = 0 /\ rec = "patch" => hive.claimant = report.claimant \/ hive.status # "running"

\* The pollers, the purge and the hive's record of the job keep to the lease that
\* claim() and renew_claim() promise: no live lease changes hands, and none is
\* dropped before the hive has the job's result, which it then keeps.
Lease == INSTANCE FlagLease WITH marker <- lease, acked <- hive.status \in Resolved
LeaseKept == Lease!FlagSpec

\* "Either side can be offline and jobs queue safely": whatever is lost, crashes
\* or lapses, within the bounds, the job is resolved in the end.
JobResolves == <>(hive.status \in Resolved)

\* The same while the enqueuer process is not restarted: what may wedge a job is
\* the restart's new URN, and nothing else within the bounds.
ResolvesUnrestarted == [](urn = 0) => JobResolves
===============================================================================
