------------------------------ MODULE ClaimLease ------------------------------
(***************************************************************************)
(* One job's objects in the relay bucket, shared by the node pollers that  *)
(* race for it, their lease threads and the home-side reconciler.          *)
(*                                                                         *)
(* A poller has two threads: the sweep thread (run_once and                *)
(* _process_claimed_job) and, while it holds the job, the renewal thread   *)
(* of its _ClaimLease.  Every bucket request is a step of its own, and a   *)
(* write may take effect although its caller sees an error.  The version   *)
(* of a conditional write is the object's content (an S3 ETag), which      *)
(* allows every behaviour of a GCS generation number and more.             *)
(*                                                                         *)
(* A renewal can also outlive its _ClaimLease: stop() waits for it for one *)
(* second, then the sweep goes on and may claim the job anew.  Slot bounds *)
(* how many such renewals there are at a time.                             *)
(*                                                                         *)
(* Each poller's clock runs Skew[w] ahead of the slowest one.              *)
(***************************************************************************)
EXTENDS Integers

CONSTANTS
  Worker,   \* claim owners: the poller processes' --worker-id
  None,     \* an object that is not in the bucket
  Lease,    \* lease_seconds, in ticks of the clock
  MaxSkew,  \* bound on the skew between two pollers' clocks
  Skew,     \* [Worker -> 0 .. MaxSkew]
  MaxTime,  \* bound on the clock, for model checking
  MaxTroubles,  \* bound on `troubles`, for model checking
  Renewer,  \* the workers whose renewal thread wakes up during the run
  Slot,     \* places for renewals that outlive their lease
  Payload   \* the forms of pending object considered

Marker == [owner : Worker, at : Nat]

\* A renewal of a lease that was given up: before it has _renew_lock, at its two
\* requests, or about to publish activity.
Late == [owner : Worker, step : {"begin", "read", "cas", "publish"}, at : Nat,
         seen : Marker \cup {None}, routed : BOOLEAN]

ASSUME NoneAssumption ==
  None \notin Worker \cup Marker \cup Late \cup [owner : Worker, live : BOOLEAN]
ASSUME LeaseAssumption == Lease \in Nat \ {0} /\ MaxSkew \in Nat /\ MaxTime \in Nat
ASSUME TroublesAssumption == MaxTroubles \in Nat
ASSUME SkewAssumption == Skew \in [Worker -> 0 .. MaxSkew]
ASSUME PayloadAssumption == Payload \subseteq {"job", "mismatch", "corrupt"}

VARIABLES
  clock,     \* the slowest poller's clock
  \* the bucket
  pending,   \* pending/<uuid>.json.enc: absent, a job, or one that is not usable
  envelope,  \* whether claimant/<uuid>.json.enc exists
  claimed,   \* claimed/<uuid>: who owns the job and since when
  terminal,  \* outcome in terminal/<uuid>.json.enc ("done": also needs-review), or "none"
  active,    \* whether active/<uuid>.json.enc exists
  \* a poller
  main,      \* program counter of the sweep thread
  thread,    \* the renewal thread: off, in _stop.wait, or inside _renew
  ren,       \* the renewal in progress; "free": _renew_lock is free
  holder,    \* the thread that took _renew_lock last
  at,        \* `now` of the claim or renewal in progress
  seen,      \* the marker it has read
  lost,      \* _lost
  routed,    \* whether the lease knows the claimant, so publishes activity
  outcome,   \* status of the terminal payload at hand
  guarded,   \* the terminal write is inside _process_claimed_job's try
  late,      \* the renewals that outlived their lease
  troubles,  \* how often a renewal did, and the hive offered the job, together
  proof,     \* history: stamp of the last acknowledged claim or renewal, and of
             \* the worker's late renewals that were under way by then
  \* home
  enq,       \* the enqueuer: "put" between put_claimant and put_pending
  rec,       \* objects the reconciler has still to purge
  acked,     \* the hive holds a terminal status of the job
  recorded,  \* history: statuses ever written to terminal/<uuid>
  again      \* history: the job was offered again since its last report

bucket == <<pending, envelope, claimed, terminal, active>>
lease == <<thread, ren, holder, lost, routed, late, troubles>>
call == <<at, seen, proof>>
result == <<outcome, guarded>>
home == <<enq, rec, acked, recorded, again>>
vars == <<clock, bucket, main, lease, call, result, home>>

Now(w) == clock + Skew[w]

Claiming == {"create", "read", "cas"}
Working == {"fetch", "activity", "execute", "own", "prove", "put"}

-------------------------------------------------------------------------------
TypeOK ==
  /\ clock \in Nat
  /\ pending \in {"none", "job", "mismatch", "corrupt"}
  /\ envelope \in BOOLEAN
  /\ claimed \in Marker \cup {None}
  /\ terminal \in {"none", "done", "failed"}
  /\ active \in BOOLEAN
  /\ main \in [Worker -> {"idle"} \cup Claiming \cup Working]
  /\ thread \in [Worker -> {"off", "wait", "renewing"}]
  /\ ren \in [Worker -> {"free", "read", "cas", "publish"}]
  /\ holder \in [Worker -> {"main", "lease"}]
  /\ at \in [Worker -> Nat]
  /\ seen \in [Worker -> Marker \cup {None}]
  /\ lost \in [Worker -> BOOLEAN]
  /\ routed \in [Worker -> BOOLEAN]
  /\ outcome \in [Worker -> {"done", "failed"}]
  /\ guarded \in [Worker -> BOOLEAN]
  /\ late \in [Slot -> Late \cup {None}]
  /\ troubles \in Nat
  /\ proof \in [Worker -> SUBSET Nat]
  /\ enq \in {"idle", "put"}
  /\ rec \in {"none", "pending", "claimant", "claimed", "terminal", "active"}
  /\ acked \in BOOLEAN
  /\ recorded \in SUBSET {"done", "failed"}
  /\ again \in BOOLEAN

Init ==
  /\ clock = 0
  /\ pending = "none" /\ envelope = FALSE
  /\ claimed = None /\ terminal = "none" /\ active = FALSE
  /\ main = [w \in Worker |-> "idle"]
  /\ thread = [w \in Worker |-> "off"]
  /\ ren = [w \in Worker |-> "free"]
  /\ holder = [w \in Worker |-> "main"]
  /\ at = [w \in Worker |-> 0]
  /\ seen = [w \in Worker |-> None]
  /\ lost = [w \in Worker |-> FALSE]
  /\ routed = [w \in Worker |-> FALSE]
  /\ outcome = [w \in Worker |-> "failed"]
  /\ guarded = [w \in Worker |-> FALSE]
  /\ late = [s \in Slot |-> None]
  /\ troubles = 0
  /\ proof = [w \in Worker |-> {}]
  /\ enq = "idle" /\ rec = "none" /\ acked = FALSE /\ recorded = {} /\ again = FALSE

-------------------------------------------------------------------------------
(* Leaving a job: what run_once does on every way out of it.               *)

\* What a renewal of w that is not waited for has still to do: a thread that does
\* not hold _renew_lock has it before it.
Behind(w) ==
  [owner |-> w, step |-> IF holder[w] = "lease" /\ ren[w] # "free" THEN ren[w] ELSE "begin",
   at |-> at[w], seen |-> seen[w], routed |-> routed[w]]

\* `finally: lease.stop()`.  A renewal in flight that does not return within the
\* one-second join is left behind, in a free slot; the next claim of the job makes
\* a _ClaimLease with a lock and a thread of its own.
GiveUp(w) ==
  /\ main' = [main EXCEPT ![w] = "idle"]
  /\ thread' = [thread EXCEPT ![w] = "off"]
  /\ ren' = [ren EXCEPT ![w] = "free"]
  /\ \/ thread[w] # "renewing" /\ UNCHANGED <<late, troubles>>
     \/ /\ thread[w] = "renewing"
        /\ troubles < MaxTroubles /\ troubles' = troubles + 1
        /\ \E s \in Slot : late[s] = None /\ late' = [late EXCEPT ![s] = Behind(w)]

\* The late renewals of w that have read the clock and may still write the marker.
Writing(w) ==
  {s \in Slot : late[s] # None /\ late[s].owner = w /\ late[s].step \in {"read", "cas"}}

\* A claim or a renewal of w with the stamp at[w] is acknowledged.
Proven(w) ==
  proof' = [proof EXCEPT ![w] = {at[w]} \cup {late[s].at : s \in Writing(w)}]

\* _write_terminal is called with this status.
WriteTerminal(w, status, inTry) ==
  /\ main' = [main EXCEPT ![w] = "own"]
  /\ outcome' = [outcome EXCEPT ![w] = status]
  /\ guarded' = [guarded EXCEPT ![w] = inTry]

(* RelayClient.claim                                                       *)

\* The listing showed the job; `now` is taken before the first request.
BeginClaim(w) ==
  /\ main[w] = "idle"
  /\ pending # "none"
  /\ main' = [main EXCEPT ![w] = "create"]
  /\ at' = [at EXCEPT ![w] = Now(w)]
  /\ UNCHANGED <<clock, bucket, lease, seen, proof, result, home>>

\* claim() returned True: a fresh _ClaimLease is started.
StartLease(w) ==
  /\ main' = [main EXCEPT ![w] = "fetch"]
  /\ thread' = [thread EXCEPT ![w] = "wait"]
  /\ lost' = [lost EXCEPT ![w] = FALSE]
  /\ routed' = [routed EXCEPT ![w] = FALSE]
  /\ Proven(w)
  /\ UNCHANGED <<ren, holder, late, troubles>>

\* claim() returned False or raised: the sweep goes on without the job.
AbandonClaim(w) ==
  /\ main' = [main EXCEPT ![w] = "idle"]
  /\ UNCHANGED <<lease, proof>>

\* create_only(claimed/<uuid>); its answer can be lost after it took effect.
ClaimCreate(w) ==
  /\ main[w] = "create" /\ claimed = None
  /\ claimed' = [owner |-> w, at |-> at[w]]
  /\ StartLease(w) \/ AbandonClaim(w)
  /\ UNCHANGED <<clock, pending, envelope, terminal, active, at, seen, result, home>>

ClaimExists(w) ==
  /\ main[w] = "create" /\ claimed # None
  /\ main' = [main EXCEPT ![w] = "read"]
  /\ UNCHANGED <<clock, bucket, lease, call, result, home>>

\* Only a marker that is older than the lease is worth a takeover.
ClaimRead(w) ==
  /\ main[w] = "read" /\ claimed # None
  /\ at[w] - claimed.at >= Lease
  /\ seen' = [seen EXCEPT ![w] = claimed]
  /\ main' = [main EXCEPT ![w] = "cas"]
  /\ UNCHANGED <<clock, bucket, lease, at, proof, result, home>>

\* The marker vanished, or its lease is still live.
ClaimRefused(w) ==
  /\ main[w] = "read"
  /\ claimed # None => at[w] - claimed.at < Lease
  /\ AbandonClaim(w)
  /\ UNCHANGED <<clock, bucket, at, seen, result, home>>

\* Mutant: a takeover that writes whatever the marker has become.
BlindTakeover(w) ==
  /\ main[w] = "cas"
  /\ claimed' = [owner |-> w, at |-> at[w]]
  /\ StartLease(w) \/ AbandonClaim(w)
  /\ UNCHANGED <<clock, pending, envelope, terminal, active, at, seen, result, home>>

ClaimCas(w) ==
  /\ main[w] = "cas" /\ claimed = seen[w]
  /\ claimed' = [owner |-> w, at |-> at[w]]
  /\ StartLease(w) \/ AbandonClaim(w)
  /\ UNCHANGED <<clock, pending, envelope, terminal, active, at, seen, result, home>>

\* A request failed, or the marker is no longer the one that was read.
ClaimFailed(w) ==
  /\ main[w] \in Claiming
  /\ AbandonClaim(w)
  /\ UNCHANGED <<clock, bucket, at, seen, result, home>>

-------------------------------------------------------------------------------
(* _process_claimed_job                                                    *)

\* The payload opens and names this job.
Fetch(w) ==
  /\ main[w] = "fetch" /\ pending = "job"
  /\ main' = [main EXCEPT ![w] = "activity"]
  /\ UNCHANGED <<clock, bucket, lease, call, result, home>>

\* A payload that cannot be executed is failed on behalf of its claimant; for
\* an undecryptable one the claimant comes from its own envelope.
Quarantine(w) ==
  /\ main[w] = "fetch"
  /\ pending = "mismatch" \/ (pending = "corrupt" /\ envelope)
  /\ WriteTerminal(w, "failed", FALSE)
  /\ UNCHANGED <<clock, bucket, lease, call, home>>

\* pending/<uuid> or the claimant envelope cannot be read.
FetchFailed(w) ==
  /\ main[w] = "fetch"
  /\ GiveUp(w)
  /\ UNCHANGED <<clock, bucket, holder, lost, routed, call, result, home>>

\* set_claimant: one of the two attempts to publish activity is acknowledged.
PublishActivity(w) ==
  /\ main[w] = "activity"
  /\ routed' = [routed EXCEPT ![w] = TRUE]
  /\ active' = TRUE
  /\ main' = [main EXCEPT ![w] = "execute"]
  /\ UNCHANGED <<clock, pending, envelope, claimed, terminal, thread, ren, holder, lost,
                 late, troubles, call, result, home>>

\* Mutant: the job runs although its activity could not be published.
RunUnannounced(w) ==
  /\ main[w] = "activity"
  /\ routed' = [routed EXCEPT ![w] = TRUE]
  /\ main' = [main EXCEPT ![w] = "execute"]
  /\ UNCHANGED <<clock, bucket, thread, ren, holder, lost, late, troubles, call,
                 result, home>>

\* Both attempts fail, each perhaps after its write took effect: the job is not
\* executed.
ActivityFailed(w) ==
  /\ main[w] = "activity"
  /\ routed' = [routed EXCEPT ![w] = TRUE]
  /\ active' \in {active, TRUE}
  /\ WriteTerminal(w, "failed", FALSE)
  /\ UNCHANGED <<clock, pending, envelope, claimed, terminal, thread, ren, holder, lost,
                 late, troubles, call, home>>

\* Mutant: the executor's own status word reaches the terminal payload.
ExecuteUnchecked(w) ==
  /\ main[w] = "execute"
  /\ WriteTerminal(w, "timeout", TRUE)
  /\ UNCHANGED <<clock, bucket, lease, call, home>>

\* The executor returns, or raises and the handler reports the failure.
Execute(w) ==
  /\ main[w] = "execute"
  /\ \/ \E s \in {"done", "failed"} : WriteTerminal(w, s, TRUE)
     \/ WriteTerminal(w, "failed", FALSE)
  /\ UNCHANGED <<clock, bucket, lease, call, home>>

-------------------------------------------------------------------------------
(* _ClaimLease: the renewal thread, and is_owned() on the sweep thread      *)

\* The terminal write asks is_owned(), which looks at _lost before it waits for
\* _renew_lock.
Prove(w) ==
  /\ main[w] = "own" /\ ~lost[w]
  /\ main' = [main EXCEPT ![w] = "prove"]
  /\ UNCHANGED <<clock, bucket, lease, call, result, home>>

Disowned(w) ==
  /\ main[w] = "own" /\ lost[w]
  /\ GiveUp(w)
  /\ UNCHANGED <<clock, bucket, holder, lost, routed, call, result, home>>

\* _run wakes up between two renewals; it ends once ownership was lost.
LeaseWake(w) ==
  /\ w \in Renewer /\ thread[w] = "wait"
  /\ thread' = [thread EXCEPT ![w] = IF lost[w] THEN "off" ELSE "renewing"]
  /\ UNCHANGED <<clock, bucket, main, ren, holder, lost, routed, late, troubles,
                 call, result, home>>

\* One of the two threads takes _renew_lock and enters renew_claim.
RenewBegin(w, who) ==
  /\ ren[w] = "free"
  /\ \/ who = "main" /\ main[w] = "prove"
     \/ who = "lease" /\ thread[w] = "renewing"
  /\ ren' = [ren EXCEPT ![w] = "read"]
  /\ holder' = [holder EXCEPT ![w] = who]
  /\ at' = [at EXCEPT ![w] = Now(w)]
  /\ UNCHANGED <<clock, bucket, main, thread, lost, routed, late, troubles,
                 seen, proof, result, home>>

\* _renew returns: the lock is released and a failure is remembered.
EndRenewal(w, renewed) ==
  /\ ren' = [ren EXCEPT ![w] = "free"]
  /\ lost' = [lost EXCEPT ![w] = @ \/ ~renewed]
  /\ \/ /\ holder[w] = "lease"
        /\ thread' = [thread EXCEPT ![w] = IF renewed THEN "wait" ELSE "off"]
        /\ UNCHANGED <<main, late, troubles>>
     \/ /\ holder[w] = "main" /\ renewed
        /\ main' = [main EXCEPT ![w] = "put"]
        /\ UNCHANGED <<thread, late, troubles>>
     \/ /\ holder[w] = "main" /\ ~renewed
        /\ GiveUp(w)

\* Mutant: a renewal that does not look whose marker it is.
RenewAnyMarker(w) ==
  /\ ren[w] = "read" /\ claimed # None
  /\ seen' = [seen EXCEPT ![w] = claimed]
  /\ ren' = [ren EXCEPT ![w] = "cas"]
  /\ UNCHANGED <<clock, bucket, main, thread, holder, lost, routed, late, troubles,
                 at, proof, result, home>>

RenewRead(w) ==
  /\ ren[w] = "read" /\ claimed # None
  /\ claimed.owner = w
  /\ seen' = [seen EXCEPT ![w] = claimed]
  /\ ren' = [ren EXCEPT ![w] = "cas"]
  /\ UNCHANGED <<clock, bucket, main, thread, holder, lost, routed, late, troubles,
                 at, proof, result, home>>

\* The compare-and-swap is acknowledged.
RenewCas(w) ==
  /\ ren[w] = "cas" /\ claimed = seen[w]
  /\ claimed' = [owner |-> w, at |-> at[w]]
  /\ Proven(w)
  /\ ren' = [ren EXCEPT ![w] = "publish"]
  /\ UNCHANGED <<clock, pending, envelope, terminal, active, main, thread, holder, lost,
                 routed, late, troubles, at, seen, result, home>>

\* The compare-and-swap took effect, but its caller saw an error.
RenewUnconfirmed(w) ==
  /\ ren[w] = "cas" /\ claimed = seen[w]
  /\ claimed' = [owner |-> w, at |-> at[w]]
  /\ EndRenewal(w, FALSE)
  /\ UNCHANGED <<clock, pending, envelope, terminal, active, holder, routed, call, result, home>>

\* The marker is gone, is another worker's, or has changed; or a request failed.
RenewFailed(w) ==
  /\ ren[w] \in {"read", "cas"}
  /\ EndRenewal(w, FALSE)
  /\ UNCHANGED <<clock, bucket, holder, routed, call, result, home>>

\* A renewed lease publishes activity; that write may fail without consequence.
RenewPublish(w) ==
  /\ ren[w] = "publish"
  /\ active' \in IF routed[w] THEN {active, TRUE} ELSE {active}
  /\ EndRenewal(w, TRUE)
  /\ UNCHANGED <<clock, pending, envelope, claimed, terminal, holder, routed, call, result, home>>

-------------------------------------------------------------------------------
(* A late renewal: renew_claim for a lease that nobody holds any more, beside *)
(* whatever its poller does meanwhile, the next claim of the job included.    *)

\* The late renewal in s goes on to a step, or ends.
Step(s, step) == late' = [late EXCEPT ![s].step = step]
EndLate(s) == late' = [late EXCEPT ![s] = None]

LateBegin(s) ==
  /\ late[s] # None /\ late[s].step = "begin"
  /\ late' = [late EXCEPT ![s].step = "read", ![s].at = Now(late[s].owner)]
  /\ UNCHANGED <<clock, bucket, main, thread, ren, holder, lost, routed, troubles,
                 call, result, home>>

LateRead(s) ==
  /\ late[s] # None /\ late[s].step = "read"
  /\ claimed # None /\ claimed.owner = late[s].owner
  /\ late' = [late EXCEPT ![s].step = "cas", ![s].seen = claimed]
  /\ UNCHANGED <<clock, bucket, main, thread, ren, holder, lost, routed, troubles,
                 call, result, home>>

\* The compare-and-swap is acknowledged, or took effect and raised.
LateCas(s) ==
  /\ late[s] # None /\ late[s].step = "cas" /\ claimed = late[s].seen
  /\ claimed' = [owner |-> late[s].owner, at |-> late[s].at]
  /\ Step(s, "publish") \/ EndLate(s)
  /\ UNCHANGED <<clock, pending, envelope, terminal, active, main, thread, ren, holder, lost,
                 routed, troubles, call, result, home>>

LateFailed(s) ==
  /\ late[s] # None /\ late[s].step \in {"read", "cas"}
  /\ EndLate(s)
  /\ UNCHANGED <<clock, bucket, main, thread, ren, holder, lost, routed, troubles,
                 call, result, home>>

LatePublish(s) ==
  /\ late[s] # None /\ late[s].step = "publish"
  /\ active' \in IF late[s].routed THEN {active, TRUE} ELSE {active}
  /\ EndLate(s)
  /\ UNCHANGED <<clock, pending, envelope, claimed, terminal, main, thread, ren, holder, lost,
                 routed, troubles, call, result, home>>

-------------------------------------------------------------------------------
(* put_terminal                                                            *)

\* What follows the create: it is acknowledged (or refused), or it raised, and
\* inside the try block that reports a failure of the job.
AfterPut(w) ==
  \/ GiveUp(w) /\ UNCHANGED result
  \/ guarded[w] /\ WriteTerminal(w, "failed", FALSE) /\ UNCHANGED <<thread, ren, late, troubles>>

\* Mutant: an unconditional write of the terminal object.
OverwriteTerminal(w) ==
  /\ main[w] = "put"
  /\ terminal' = outcome[w]
  /\ recorded' = recorded \cup {outcome[w]}
  /\ AfterPut(w)
  /\ UNCHANGED <<clock, pending, envelope, claimed, active, holder, lost, routed,
                 call, enq, rec, acked, again>>

PutTerminal(w) ==
  /\ main[w] = "put" /\ terminal = "none"
  /\ terminal' = outcome[w]
  /\ recorded' = recorded \cup {outcome[w]}
  /\ AfterPut(w)
  /\ UNCHANGED <<clock, pending, envelope, claimed, active, holder, lost, routed,
                 call, enq, rec, acked, again>>

\* A terminal object exists, and the first one is kept; or the request failed.
PutRefused(w) ==
  /\ main[w] = "put"
  /\ AfterPut(w)
  /\ UNCHANGED <<clock, bucket, holder, lost, routed, call, home>>

\* The poller process dies with all its threads.
Crash(w) ==
  /\ main[w] # "idle" \/ \E s \in Slot : late[s] # None /\ late[s].owner = w
  /\ main' = [main EXCEPT ![w] = "idle"]
  /\ thread' = [thread EXCEPT ![w] = "off"]
  /\ ren' = [ren EXCEPT ![w] = "free"]
  /\ late' = [s \in Slot |-> IF late[s] # None /\ late[s].owner = w THEN None ELSE late[s]]
  /\ UNCHANGED <<clock, bucket, holder, lost, routed, troubles, call, result, home>>

-------------------------------------------------------------------------------
(* The home side                                                           *)

\* The hive offers the job, for the first time or again: the enqueuer writes the
\* routing envelope and then the job itself, whatever the bucket holds by then.
PutClaimant ==
  /\ troubles < MaxTroubles /\ troubles' = troubles + 1
  /\ enq = "idle" /\ enq' = "put"
  /\ envelope' = TRUE
  /\ again' = acked
  /\ UNCHANGED <<clock, pending, claimed, terminal, active, main, thread, ren, holder,
                 lost, routed, late, call, result, rec, acked, recorded>>

PutPending ==
  /\ enq = "put" /\ enq' = "idle"
  /\ pending' \in Payload
  /\ again' = acked
  /\ UNCHANGED <<clock, envelope, claimed, terminal, active, main, lease, call, result,
                 rec, acked, recorded>>

\* put_claimant raises although it took effect, put_pending raises, or the
\* process dies: the job is not in pending/.
EnqueueFailed ==
  /\ enq = "put" /\ enq' = "idle"
  /\ UNCHANGED <<clock, bucket, main, lease, call, result, rec, acked, recorded,
                 again>>

\* The reconciler's PATCH succeeds; only then does it purge.
Report ==
  /\ rec = "none" /\ terminal # "none"
  /\ acked' = TRUE
  /\ rec' = "pending"
  /\ again' = FALSE
  /\ UNCHANGED <<clock, bucket, main, lease, call, result, enq, recorded>>

\* Mutant: the purge starts with the object that triggers it.
PurgeTerminalFirst ==
  /\ rec = "pending" /\ rec' = "claimant"
  /\ terminal' = "none"
  /\ UNCHANGED <<clock, pending, envelope, claimed, active, main, lease, call, result,
                 enq, acked, recorded, again>>

\* purge(): one delete per object, in this order.
PurgePending ==
  /\ rec = "pending" /\ rec' = "claimant"
  /\ pending' = "none"
  /\ UNCHANGED <<clock, envelope, claimed, terminal, active, main, lease, call, result,
                 enq, acked, recorded, again>>

PurgeClaimant ==
  /\ rec = "claimant" /\ rec' = "claimed"
  /\ envelope' = FALSE
  /\ UNCHANGED <<clock, pending, claimed, terminal, active, main, lease, call, result,
                 enq, acked, recorded, again>>

PurgeClaimed ==
  /\ rec = "claimed" /\ rec' = "terminal"
  /\ claimed' = None
  /\ UNCHANGED <<clock, pending, envelope, terminal, active, main, lease, call, result,
                 enq, acked, recorded, again>>

PurgeTerminal ==
  /\ rec = "terminal" /\ rec' = "active"
  /\ terminal' = "none"
  /\ UNCHANGED <<clock, pending, envelope, claimed, active, main, lease, call, result,
                 enq, acked, recorded, again>>

PurgeActive ==
  /\ rec = "active" /\ rec' = "none"
  /\ active' = FALSE
  /\ UNCHANGED <<clock, pending, envelope, claimed, terminal, main, lease, call, result,
                 enq, acked, recorded, again>>

\* The reconciler dies in the middle of a purge, or a delete raises.
PurgeInterrupted ==
  /\ rec # "none" /\ rec' = "none"
  /\ UNCHANGED <<clock, bucket, main, lease, call, result, enq, acked, recorded,
                 again>>

Tick ==
  /\ clock < MaxTime
  /\ clock' = clock + 1
  /\ UNCHANGED <<bucket, main, lease, call, result, home>>

-------------------------------------------------------------------------------
Claim(w) ==
  \/ BeginClaim(w) \/ ClaimCreate(w) \/ ClaimExists(w) \/ ClaimRead(w)
  \/ ClaimRefused(w) \/ ClaimCas(w) \/ ClaimFailed(w)

Process(w) ==
  \/ Fetch(w) \/ Quarantine(w) \/ FetchFailed(w)
  \/ PublishActivity(w) \/ ActivityFailed(w) \/ Execute(w)
  \/ PutTerminal(w) \/ PutRefused(w)

Renewal(w) ==
  \/ Prove(w) \/ Disowned(w) \/ LeaseWake(w)
  \/ RenewBegin(w, "main") \/ RenewBegin(w, "lease")
  \/ RenewRead(w) \/ RenewCas(w) \/ RenewUnconfirmed(w) \/ RenewFailed(w) \/ RenewPublish(w)

LateRenewal(s) ==
  \/ LateBegin(s) \/ LateRead(s) \/ LateCas(s) \/ LateFailed(s) \/ LatePublish(s)

Home ==
  \/ PutClaimant \/ PutPending \/ EnqueueFailed \/ Report
  \/ PurgePending \/ PurgeClaimant \/ PurgeClaimed \/ PurgeTerminal \/ PurgeActive
  \/ PurgeInterrupted

Next ==
  \/ \E w \in Worker : Claim(w) \/ Process(w) \/ Renewal(w) \/ Crash(w)
  \/ \E s \in Slot : LateRenewal(s)
  \/ Home
  \/ Tick

Spec == Init /\ [][Next]_vars

-------------------------------------------------------------------------------
(* Properties                                                              *)

\* By every poller's clock the lease of this stamp is still running.
Fresh(stamp) == clock + MaxSkew < stamp + Lease

\* _ClaimLease's reason to exist: from its claim to its terminal write, a worker
\* whose last acknowledged claim or renewal is still fresh is the owner that the
\* bucket names, so no two workers hold such a lease, whatever became of the
\* answers of the requests in between.  A renewal that outlived an earlier lease of
\* the same worker can set the marker back, to no older a stamp than its own: so
\* the stamps of those under way have to be fresh as well.  (The purge ends this:
\* acked.)
LeaseHolder ==
  \A w \in Worker :
    main[w] \in Working /\ ~acked /\ (\A t \in proof[w] : Fresh(t)) =>
      /\ claimed # None
      /\ claimed.owner = w
      /\ \E t \in proof[w] : claimed.at >= t

\* _process_claimed_job declines execution without a published activity marker,
\* which the enqueuer needs to keep the hive's claim alive: while a job runs and
\* the hive has no result, active/<uuid> exists.
ActivityBeforeExecution ==
  \A w \in Worker : main[w] = "execute" /\ ~acked => active

\* put_terminal keeps the first record: late workers, and a worker whose own
\* acknowledged-late write is followed by a "failed" one, never replace or drop
\* it before the hive has it.
RecordStands == [][terminal # "none" /\ terminal' # terminal => acked]_vars

\* put_terminal's promise: "done/failed can never both be recorded for one uuid".
OneOutcomePerJob == recorded # {"done", "failed"}

\* purge() can be interrupted between two deletes, and only a terminal object
\* makes the reconciler come back to the job.  Its order makes that enough: once
\* the hive has the result and the terminal object is gone, nothing is left that
\* a poller would execute again, but for what the enqueuer put there after the
\* report because the hive offered the job again.
PurgeRetriable ==
  acked /\ terminal = "none" /\ ~again => pending = "none" /\ ~envelope

\* The multi-request claim(), renew_claim() and purge() look like single steps
\* of one lease.
Abstract == INSTANCE AtomicLease WITH marker <- claimed
LeaseImplementation == Abstract!LeaseSpec
===============================================================================
