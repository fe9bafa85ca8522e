----------------------------- MODULE PendingScan -----------------------------
(***************************************************************************)
(* The bounded, rotating scan of a prefix of the bucket (_iter_uuids) and  *)
(* the three loops that consume it: the poller over pending/, the          *)
(* enqueuer's lease renewal over pending/ and the reconciler over          *)
(* terminal/.  The listing changes while it is read page by page; the      *)
(* cursor outlives a sweep, and only a restart loses it.                   *)
(*                                                                         *)
(* Keys are numbers in the order of the listing.                           *)
(***************************************************************************)
EXTENDS Naturals, FiniteSets

CONSTANTS
  MaxKey,       \* keys are 1 .. MaxKey
  MaxItems,     \* max_items: keys a sweep yields
  MaxPerSweep,  \* MAX_PER_SWEEP: jobs a poller executes in a sweep
  MaxPuts,      \* bound on the objects put into the prefix
  MaxFaults     \* bound on failures, restarts and expired claims

ASSUME BoundAssumption ==
  /\ MaxKey \in Nat /\ MaxItems \in Nat \ {0}
  /\ MaxPerSweep \in Nat /\ MaxPuts \in Nat /\ MaxFaults \in Nat

VARIABLES
  role,     \* who scans
  listing,  \* the keys under the prefix
  puts,     \* objects put so far
  cursor,   \* _scan_cursors[prefix]; 0 when it has none
  pc,       \* program counter of the sweep; swept: it ran to the end
  range,    \* which of its ranges it reads
  start,    \* the cursor as the sweep found it
  token,    \* the key the next page starts after; Top when there is none
  page,     \* the keys of the current page that are still to be looked at
  count,    \* yielded
  done,     \* jobs the poller has executed in this sweep
  free,     \* the pending jobs a poller may claim
  faults,   \* faults so far
  seen,     \* history: the keys that the sweep has yielded
  stayed    \* history: the keys that have been listed since it began

sweep == <<pc, range, start, token, page>>
vars == <<role, listing, puts, cursor, sweep, count, done, free, faults, seen, stayed>>

Key == 1 .. MaxKey
Top == MaxKey + 1

TypeOK ==
  /\ role \in {"poller", "enqueuer", "reconciler"}
  /\ listing \in SUBSET Key /\ puts \in 0 .. MaxPuts
  /\ cursor \in 0 .. MaxKey /\ start \in 0 .. MaxKey
  /\ pc \in {"idle", "swept", "list", "next", "use"}
  /\ range \in {"after", "upto"}
  /\ token \in 0 .. Top
  /\ page \in SUBSET Key
  /\ count \in 0 .. MaxItems /\ done \in 0 .. MaxPerSweep
  /\ free \in SUBSET Key
  /\ faults \in 0 .. MaxFaults
  /\ seen \in SUBSET Key /\ stayed \in SUBSET Key

Init ==
  /\ role \in {"poller", "enqueuer", "reconciler"}
  /\ listing \in SUBSET Key /\ puts = 0
  /\ free \in IF role = "poller" THEN SUBSET listing ELSE {{}}
  /\ cursor = 0 /\ start = 0 /\ pc = "idle" /\ range = "upto" /\ token = Top /\ page = {}
  /\ count = 0 /\ done = 0 /\ faults = 0
  /\ seen = {} /\ stayed = {}

-------------------------------------------------------------------------------
(* The bucket                                                              *)

\* A new job, or one that was purged and is enqueued again.
Put(k) ==
  /\ k \notin listing /\ puts < MaxPuts
  /\ listing' = listing \cup {k} /\ puts' = puts + 1
  /\ free' = IF role = "poller" THEN free \cup {k} ELSE free
  /\ UNCHANGED <<role, cursor, sweep, count, done, faults, seen, stayed>>

Remove(k) == listing' = listing \ {k} /\ stayed' = stayed \ {k} /\ free' = free \ {k}

\* purge
Delete(k) ==
  /\ k \in listing /\ Remove(k)
  /\ UNCHANGED <<role, puts, cursor, sweep, count, done, faults, seen>>

Fault == faults < MaxFaults /\ faults' = faults + 1

\* The claim on a job runs out.
Expire(k) ==
  /\ role = "poller" /\ k \in listing \ free
  /\ free' = free \cup {k} /\ Fault
  /\ UNCHANGED <<role, listing, puts, cursor, sweep, count, done, seen, stayed>>

-------------------------------------------------------------------------------
(* _iter_uuids                                                             *)

Goto(label) == pc' = label

\* The keys of (a, b] now.
Listed(a, b) == {k \in listing : a < k /\ k <= b}

\* Mutant: every sweep begins at the first key.
BeginAtFirst ==
  /\ pc \in {"idle", "swept"}
  /\ start' = 0 /\ token' = 0 /\ range' = "upto" /\ page' = {}
  /\ count' = 0 /\ done' = 0 /\ seen' = {} /\ stayed' = listing
  /\ Goto("list")
  /\ UNCHANGED <<role, listing, puts, cursor, free, faults>>

\* A sweep reads the keys after the cursor, then those up to it.
Begin ==
  /\ pc \in {"idle", "swept"}
  /\ start' = cursor /\ token' = cursor /\ page' = {}
  /\ range' = IF cursor = 0 THEN "upto" ELSE "after"
  /\ count' = 0 /\ done' = 0 /\ seen' = {} /\ stayed' = listing
  /\ Goto("list")
  /\ UNCHANGED <<role, listing, puts, cursor, free, faults>>

\* A page of the listing as it is now: the next keys, as many as the store gives,
\* or all the rest.
ListPage ==
  /\ pc = "list" /\ token # Top
  /\ \E last \in token + 1 .. Top :
       page' = Listed(token, last) /\ token' = last
  /\ Goto("next")
  /\ UNCHANGED <<role, listing, puts, cursor, range, start, count, done, free, faults, seen,
                 stayed>>

\* Mutant: the second range is not cut at the cursor.
NoStop == Top

\* Mutant: the second range stops before the key at the cursor.
StopBefore == IF range = "upto" /\ start # 0 THEN start - 1 ELSE Top

\* stop_at
Stop == IF range = "upto" /\ start # 0 THEN start ELSE Top

IsNext(k) == k \in page /\ \A j \in page : k <= j

\* The cursor moves to a key before the consumer sees it.
Yield(k) ==
  /\ pc = "next" /\ IsNext(k) /\ k <= Stop
  /\ cursor' = k /\ page' = page \ {k} /\ seen' = seen \cup {k}
  /\ Goto("use")
  /\ UNCHANGED <<role, listing, puts, range, start, token, count, done, free, faults, stayed>>

NextPage ==
  /\ pc = "next" /\ page = {} /\ token # Top
  /\ Goto("list")
  /\ UNCHANGED <<role, listing, puts, cursor, range, start, token, page, count, done, free, faults,
                 seen, stayed>>

RangeDone ==
  /\ pc = "next"
  /\ page = {} => token = Top
  /\ \A k \in page : k > Stop

\* Mutant: the items are counted for each range.
CountAgain ==
  /\ RangeDone /\ range = "after"
  /\ range' = "upto" /\ token' = 0 /\ page' = {} /\ count' = 0
  /\ Goto("list")
  /\ UNCHANGED <<role, listing, puts, cursor, start, done, free, faults, seen, stayed>>

NextRange ==
  /\ RangeDone /\ range = "after"
  /\ range' = "upto" /\ token' = 0 /\ page' = {}
  /\ Goto("list")
  /\ UNCHANGED <<role, listing, puts, cursor, start, count, done, free, faults, seen, stayed>>

Swept ==
  /\ RangeDone /\ range = "upto"
  /\ Goto("swept")
  /\ UNCHANGED <<role, listing, puts, cursor, range, start, token, page, count, done, free, faults,
                 seen, stayed>>

-------------------------------------------------------------------------------
(* The consumers                                                           *)

\* The consumer asks for another key: the sweep counts the last one.
Resume ==
  /\ count' = count + 1
  /\ Goto(IF count' >= MaxItems THEN "idle" ELSE "next")

\* Mutant: the poller leaves one job too late.
LeaveLate ==
  /\ pc = "use" /\ role = "poller"
  /\ \/ /\ done > MaxPerSweep
        /\ Goto("idle") /\ UNCHANGED <<count, done, free>>
     \/ /\ done <= MaxPerSweep /\ cursor \in free
        /\ free' = free \ {cursor} /\ done' \in {done, done + 1}
        /\ Resume
     \/ /\ done <= MaxPerSweep /\ cursor \notin free
        /\ Resume /\ UNCHANGED <<done, free>>
  /\ UNCHANGED <<role, listing, puts, cursor, range, start, token, page, faults, seen, stayed>>

\* run_once of the poller: it leaves the sweep once it has executed enough, with
\* the key that it was given; a claim that it wins may come to nothing.
PollerUse ==
  /\ pc = "use" /\ role = "poller"
  /\ \/ /\ done >= MaxPerSweep
        /\ Goto("idle") /\ UNCHANGED <<count, done, free>>
     \/ /\ done < MaxPerSweep /\ cursor \in free
        /\ free' = free \ {cursor} /\ done' \in {done, done + 1}
        /\ Resume
     \/ /\ done < MaxPerSweep /\ cursor \notin free
        /\ Resume /\ UNCHANGED <<done, free>>
  /\ UNCHANGED <<role, listing, puts, cursor, range, start, token, page, faults, seen, stayed>>

\* renew_active_jobs: a job whose refresh the hive refuses ends the sweep.
EnqueuerUse ==
  /\ pc = "use" /\ role = "enqueuer"
  /\ Resume \/ (Goto("idle") /\ UNCHANGED count)
  /\ UNCHANGED <<role, listing, puts, cursor, range, start, token, page, done, free, faults, seen,
                 stayed>>

\* run_once of the reconciler: a job is closed out and purged, or it is left, and
\* the sweep goes on either way.
ReconcilerUse ==
  /\ pc = "use" /\ role = "reconciler"
  /\ Remove(cursor) \/ UNCHANGED <<listing, stayed, free>>
  /\ Resume
  /\ UNCHANGED <<role, puts, cursor, range, start, token, page, done, faults, seen>>

Busy == pc \in {"list", "next", "use"}

\* A request raises: the sweep is over, the cursor is kept.
Fail ==
  /\ Busy /\ Goto("idle") /\ Fault
  /\ UNCHANGED <<role, listing, puts, cursor, range, start, token, page, count, done, free, seen,
                 stayed>>

\* The process is restarted without a cursor.
Restart ==
  /\ cursor' = 0 /\ Goto("idle") /\ Fault
  /\ UNCHANGED <<role, listing, puts, range, start, token, page, count, done, free, seen, stayed>>

Scan ==
  \/ Begin \/ ListPage \/ NextPage \/ NextRange \/ Swept
  \/ \E k \in Key : Yield(k)
  \/ PollerUse \/ EnqueuerUse \/ ReconcilerUse

Next ==
  \/ Scan \/ Fail \/ Restart
  \/ \E k \in Key : Put(k) \/ Delete(k) \/ Expire(k)

Spec == Init /\ [][Next]_vars

\* The services loop for ever; nothing is assumed of the jobs that come and go.
FairSpec == Spec /\ WF_vars(Scan)

-------------------------------------------------------------------------------
(* Properties                                                              *)

\* A sweep yields no key twice, although its second range begins at the first key
\* and the listing and the cursor move while it reads (_iter_uuids).
NoneTwice == [][pc = "next" /\ pc' = "use" => cursor' \notin seen]_vars

\* A sweep that ran to the end has yielded every key that was listed throughout,
\* that at the old cursor included, wherever its pages ended (_iter_uuids).
SweepComplete == pc = "swept" => stayed \subseteq seen

\* The two ranges of a sweep together yield no more than max_items keys.
ItemBound == Cardinality(seen) <= MaxItems

\* What the scanner does with a key, not counting a poller's leaving the sweep.
Tended(k) == pc = "use" /\ cursor = k /\ (role = "poller" => done < MaxPerSweep)

\* "optionally resuming after the prior bounded sweep": a job that stays in the
\* listing has its turn again and again, whatever the bounds of a sweep, the jobs
\* executed before it and the refreshes that are refused.  That is for arrivals and
\* faults that end (MaxPuts, MaxFaults): jobs that became claimable before it for ever
\* could take every sweep.
Served == \A k \in Key : <>[](k \in listing) => []<>Tended(k)
===============================================================================
