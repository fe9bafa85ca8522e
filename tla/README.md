# A verification project for the node relay

The relay (`src/node_relay/`) lets a node that cannot reach the home network work on
jobs of the home fleet's *hive*. Both sides only share an object-store bucket. This
directory models the parts of it that decide whether a job is executed by one worker at
a time, carried out on what its payload says, reported once it is done, and never lost:
TLA+ modules that TLC checks on small instances, and TLAPS proofs of the safety
properties for every value of the constants.

`PROJECT.json` maps every definition to the lines it models, and lists the components,
runs, mutants, hazards, findings and theorems.

## The system

```
 hive ──claim_next── enqueuer ──claimant/, pending/──▶ bucket ──▶ node pollers
   ▲                    ▲                               │  ▲        │
   │                    └──────── status/active/ ───────┘  └────────┘ claimed/, status/active/, terminal/
   └──PATCH── reconciler ◀────────── terminal/ ─────────┘
                  └── lander ──git push──▶ canonical remote (review branch)
```

| Part | State it keeps | Operations | What is hard about it | What makes it correct |
|---|---|---|---|---|
| claim lease: `relay_client.claim`, `renew_claim`; `node_poller._ClaimLease` | `claimed/<uuid>` (owner, time); `_lost`, the renewal thread, `_renew_lock` | conditional create; read and compare-and-swap for takeover and renewal | several requests per operation, lost answers, two threads per poller, clocks of several hosts | a fresh lease has one holder; takeover only of an expired lease |
| poller: `run_once`, `_process_claimed_job`, `_write_terminal` | none between jobs | claim, open, announce, execute, prove ownership, write the result | a failure after a write took effect; a worker that lost its lease goes on | the first record stands; nothing runs unannounced |
| storage: `put_*`, `get_*`, `purge`, `_iter_uuids` | five objects per job; a scan cursor per prefix | unconditional put, create-only terminal, five-step purge, rotating scan | interruption between two deletes; a scan of a changing listing | what is left of an interrupted purge can be found or does no harm |
| lander: `land`, `save_orphan_patch`, `_ensure_clone`, `_prune_cache` | cached clones, flock files, orphan files, the remote branch | ls-remote, clone or fetch, reset, `git am`, push, save | several reconcilers on one or several hosts, crashes inside git | the reported commit is the branch; the branch never moves; no patch is lost |
| reconciler: `_reconcile_one`, `run_once` | none between sweeps | open, land, PATCH, purge | the PATCH's answer; transient and permanent failures; buses without `needs-review` | evidence is purged only once acknowledged; every terminal object is closed out |
| enqueuer: `main`, `renew_active_jobs`, `run_once`, `build_payload` | its URN | renew, drain, release, seal, put, PATCH | failures between its requests, restarts, work that outlives the hive's claim | every job is resolved in the end |
| hive client: `bridge_common` | URN, token | register, heartbeat, claim, PATCH | errors that mean retry and errors that mean refusal | callers tell them apart |
| executors: LLM, agentic, fallback, dispatch | the worktree of an attempt, the failed backends of a job | attempts with feedback, guards, fallback | what an earlier attempt or an earlier job leaves behind | an accepted change passed every guard against the pristine clone |
| repository routing: `_node_should_offload`, `repo_url_for_job`; context packaging: `build_payload` | two allowlists, one on each side; the context of a payload | judge, resolve, pack within a budget | the two sides look at different fields with different tables | an offloaded job can be done on the node; its context is complete and fits |
| `relay_crypto`, `home`, `setup_relay.sh`, `ops/`, `tools/` | - | sealing; thread start-up; installation | - | not modelled: see the end of this file |

Interaction is through the bucket's objects and the hive's job record only; the sole
shared memory is between a poller's sweep thread and its renewal thread, and between the
two home roles nothing is shared even when `home.py` runs them in one process.

## Modules

| Module | Models | Checked in | Proved in |
|---|---|---|---|
| `AtomicLease` | what the lease promises: one marker, taken, taken over, renewed, dropped in single steps | as a property of `ClaimLease` | `ClaimLeaseProofs` |
| `FlagLease` | the same without a clock: the marker is live or it is not | as a property of `Relay` | `ClaimLeaseProofs`, `RelayProofs` |
| `CloseOut` | what the home side promises of a finished job: a branch made once, one status, evidence purged last | as a property of `PatchLanding` | `PatchLandingProofs` |
| `ClaimLease` | the pollers' claim protocol and job processing, request by request, with their renewal threads and the purge underneath | `MCClaimLease` | `ClaimLeaseProofs` |
| `PatchLanding` | one needs-review job between terminal object, review branch, orphan files and hive | `MCPatchLanding` | `PatchLandingProofs` |
| `Relay` | one job end to end: hive, enqueuer loop, pollers, reconciler | `MCRelay` | `RelayProofs` |
| `PendingScan` | the rotating scan of a prefix with several jobs, and the three loops that consume it | itself | `PendingScanProofs` |
| `LanderCache` | the cached clones of several repositories on one host, their flock files, `_prune_cache` | `MCLanderCache` | `LanderCacheProofs` |
| `RepoRouting` | operators: how home and node find a job's repository | in `JobExecution` | in `JobBuildProofs` |
| `JobBuild` | the enqueuer's judgement of a job and the packing of its context | in `JobExecution` | `JobBuildProofs` |
| `JobRun` | the node's executors on one job: dispatch, chain of backends, loop of attempts | in `JobExecution` | `JobRunProofs` |
| `JobExecution` | `JobBuild` and `JobRun` composed: what is sealed is what is executed | `MCJobExecution` | `JobRunProofs` |
| `FiniteSums` | lemmas: what the library's sum over a finite set obeys | - | itself |

### ClaimLease

A state of `main[w]` is the point of `run_once` / `_process_claimed_job` before the next
bucket request: `create`, `read`, `cas` are the three requests of `claim()`; `fetch`,
`activity`, `execute` the body; `own` and `prove` are `is_owned()` before and after its
look at `_lost`; `put` is the terminal create. `thread[w]` and `ren[w]` are the renewal
thread and the renewal that holds `_renew_lock`, whichever thread started it. Each write
has an acknowledged form and, where its caller could see an error although it took
effect, an unacknowledged one (`AbandonClaim` after a create, `RenewUnconfirmed`,
`AfterPut`). `Crash` is the death of the process at any of these points. `done` stands
for `done` and `needs-review`.

A renewal can outlive its `_ClaimLease`, because `stop()` waits for it for one second only.
`GiveUp` then leaves it behind in `late`, with the clock it has read, if it has; `LateBegin`
to `LatePublish` are the rest of it, beside whatever its poller does next, which may be to
claim the same job again with a new lock and a new thread. Such a renewal finds the marker
to be its own worker's and can set it back to its older stamp. `LeaseHolder` says what is
left: a worker is the owner in the bucket while the stamp of its last acknowledged claim or
renewal *and those of its late renewals that were then under way* (`proof[w]`, a history
variable) are fresh. The "full lease window" that a comment in `is_owned` speaks of is
therefore not promised to a worker with a late renewal of the same job under way.

The enqueuer writes `claimant/` and then `pending/` (`PutClaimant`, `PutPending`,
`EnqueueFailed`) whatever the bucket holds by then, the first time or after a purge.
`recorded` and `again` are history variables: the statuses ever written, and whether the
job was offered again since its last report.

The version of a conditional write is the object's content, as with an S3 ETag. A GCS
generation number tells more apart, so its behaviours are among those of the model.
Clocks are integers; poller `w` shows `clock + Skew[w]`. Left out: the tokens, the
encoding, markers that are not JSON (no code writes one) and payloads without a claimant
(the enqueuer always names one).

### PatchLanding

`Init` ranges over every kind of terminal payload (status, with a patch or not, a patch
that fits the hive's result or not) and over hives that know `needs-review` or not.
`head[h]` is the HEAD of the host's cached clone: `base` after the reset to the default
branch, a commit of the job after `git am`, `other` when something else or a broken
state was left. Commits are nondeterministic because `git am` re-hashes. The flock is per
host, `orphan[h]` is the host's orphan file with the truncated state in between.
`LandFailed` is any failing git command; the classification of its message decides
between the next sweep and giving up. Left out: credentials; the pruning of the cache
and other repositories are in `LanderCache`.

### Relay

The lease is the marker of `FlagLease`, with a flag for its age. `LeaseKept` says that the
composition keeps to that module, and `ClaimLease` that the request-by-request protocol
does, which justifies taking and renewing the lease in one step here. The enqueuer's
program counter follows `main`: `renew` and `refresh` are `renew_active_jobs`, `drain` is
`claim_next`, `judge` to `failed` the body of `run_once`. What the hive does is an
assumption: it accepts a PATCH only from the job's current claimant (the rule that
`patch_status` documents), it keeps a final status, and a claim that nobody refreshes
lapses. Every fault (lost or failed request, crash, early lapse, stall) takes one from the
budget `MaxFaults`; restarts of the enqueuer have their own, because a restart changes its
URN.

### PendingScan

One prefix and its scanner, which is a poller (`pending/`), the enqueuer's renewal
(`pending/`) or the reconciler (`terminal/`). Keys are numbers in listing order. `Begin`
to `Swept` follow `_iter_uuids`: the range after the cursor, then the range up to it; a
page of the listing is taken at once (`ListPage`, with any number of keys, as stores
differ), and between two pages and between two keys the listing may change (`Put`,
`Delete`). `Yield` moves the cursor *before* the consumer runs, as the code does, and
`count` moves when the consumer asks for the next key. The consumers are the three loops
at the granularity of a key: `PollerUse` with `MAX_PER_SWEEP` and the early `return`,
`EnqueuerUse` with the refresh that raises, `ReconcilerUse` with the purge. `Fail` is a
request that raises; `Restart` loses the cursor. `seen` and `stayed` are history variables.

### LanderCache

A directory of the cache is a repository's clone or the `.tmp` directory beside it, and
holds nothing, something without `.git`, a clone in progress, one that a removal has taken
files from, or a whole one. `TakeLock` is the flock of `land`; `Fetch`, `StartClone`,
`EndClone`, `CloneFailed`, `Rename` are `_ensure_clone`; `Scan` to `RemoveFailed` are
`_prune_cache`, which measures all directories first and then asks for one lock after the
other without waiting. `open` is the directory that a removal deletes from: a `.tmp`
directory that is renamed to the clone takes the removals in it with it, while `rmtree`
removes the directory itself by its path. `ScanFailed` is `stat` on a directory that has
just vanished. `Work` is the rest of the landing, which `PatchLanding` has in detail.
`LockOf` is `with_suffix(".lock")`: it replaces what follows the last dot of a directory's
name, so a repository whose slug has a dot (`Dotted`, with its `Stem`) has a lock of
another name for its clone than for its `.tmp`. The least recently used candidate is any
candidate. `Crash` drops the flocks of the process and leaves the directories. `alone` and
`torn` are history variables: whether nobody disturbed a prune, and the repositories that
a removal may have left with a damaged clone.

### RepoRouting, JobBuild, JobRun, JobExecution

`RepoRouting` has the functions of the same names: the allowlist and the table of kinds are
functions, and a name that is known to have no repository maps to `None`, which ends the
search. `JobBuild` is `_node_should_offload` (`Judge`) and `build_payload`: `CheckRefs` to
`Packed` follow its two loops, a memory a step, with the three modes, the two thresholds
that make a search unnecessary, and every `raise` (`GiveUp`).

`JobRun` is the rest: `Receive` is the dispatch; `ChatAnswer`, `ChatFails`,
`ChatExhausted` are `FallbackExecutor.execute`, which tries the whole chain;
`BackendFails`, `ChainExhausted` and the requests are `complete`, which skips the backends
in `_failed_for_job`; `JudgeReply` is the reset and the two guards, `Write` the overlay
and the refusal of unsafe paths, `Compile` the syntax gate with the bytecode it leaves,
`Commit` the `git add -A`, the check for staged changes and the commit. A file is one of
six contents: as in HEAD, a good edit, too short, without a top-level name, not Python, or
absent; that is what the guards tell apart. `Pristine` keeps ignored files, because `git
clean -fdq` does. `broken` and `reset` are history variables: the backends that failed
since the job began, and whether every reset of the clone has worked. `JobExecution` hands
the route of `JobBuild` without the job's `workspace`, which `build_payload` does not
copy, to `JobRun`.

## Runs

| Run | Instance | Shows |
|---|---|---|
| `lease` (`ClaimLease.cfg`) | 2 pollers, skew 1, lease 2, clock to 2; one renewal thread wakes by itself; two troubles (a late renewal, an offer of the job); a payload opens or does not; 3.3 million states | types, `LeaseHolder`, `ActivityBeforeExecution`, `PurgeRetriable`, `RecordStands`, and that the protocol implements `AtomicLease` |
| `one_outcome` (`ClaimLeaseOutcome.cfg`) | the same, clock to 3, one trouble, a payload that opens | a violation: `done` and `failed` recorded for one job |
| `landing` (`PatchLanding.cfg`) | 2 reconcilers, 1 host, 2 commits; 70 thousand states | the reported commit is the branch; a review stays a review; the job is closed out as `CloseOut` says |
| `landing_hosts` (`PatchLandingHosts.cfg`) | 2 reconcilers on 2 hosts; 760 thousand states | the branch never moves; no patch is lost |
| `landing_closes` (`PatchLandingLive.cfg`) | 1 reconciler | every terminal object is closed out and purged |
| `landing_one_host` (`PatchLandingOneHost.cfg`) | 2 reconcilers, 1 host | a violation: the patch is lost |
| `relay` (`Relay.cfg`) | 2 pollers, 2 faults, 1 restart; 930 thousand states | evidence stays until the hive has the result, which is the recorded one; the lease is `FlagLease`'s; for an enqueuer that is not restarted, a report is refused only for a queued or resolved job, and every job is resolved |
| `relay_restart` (`RelayRestart.cfg`) | 1 poller, 1 fault, 1 restart | a violation: a job that is never resolved |
| `pending_scan` (`PendingScan.cfg`) | 4 keys, 3 per sweep, 1 job per sweep, 1 put, 1 fault; 960 thousand states | no key twice in a sweep, none missed, the bounds; a job that stays has its turn again and again |
| `lander_cache` (`LanderCache.cfg`) | 2 reconcilers, 3 repositories of which 1 fits and 2 have a dot in the slug, 1 fault; 420 thousand states | landings and prunes keep out of each other's clones, work in whole ones unless these are `torn`, meet the cap, and all end |
| `lander_prunes` (`LanderCacheDotted.cfg`) | 2 reconcilers, 2 repositories with a dot, no fault | a violation: a prune removes the `.tmp` directory of a clone in progress |
| `job_execution` (`JobExecution.cfg`) | 2 backends, 1 retry, 3 files, 2 memories, budget of 3; 130 thousand states | offloaded jobs resolve, contexts are complete and fit, commits are guarded, complaints are true, backends fail for one job only, jobs end |

**Bounds.** Two pollers are enough for every race on a marker, which has one owner and at
most one successor. With a lease of 2 the clock's 0..2, which is 0..3 for the poller that
runs ahead, has room for a claim, a renewal, an expiry and a takeover. The two troubles
(`MaxTroubles`) are the job's first offer and either a second one or a renewal that
outlives its lease; one `Slot` holds that renewal. The third form of payload, one that
names another job, takes the steps of an unreadable one (`Quarantine`). That only `w1`'s
renewal thread wakes by itself cuts the states of a symmetric second one; `w2`'s renewals
still come from `is_owned`. Two commits tell a winner's from a loser's. Two faults allow a
failure while recovering from another. The `VIEW` of run `lease` leaves out the fields a
thread will overwrite before it reads them, and, once the hive has the result, which
result, whose lease and whose activity it was, which no property asks for any more. Four
keys with three per sweep give a sweep that is cut in either range and a cursor with keys
on both sides; a put and any deletions, at any moment, make a listing that changes under a
page. In the cache a third repository is what a prune of the first one evicts while the
second lands, and slugs with and without a dot are locked differently. One retry gives an
attempt that follows a rejected one, and the model's replies combine every content for a
file of HEAD with some for a new file, an ignored one and an unsafe path; the two memories
with weights 1 and 2 and up to three references go past the number and past the bytes,
with duplicates.

**Deadlock** is checked in `pending_scan`, `lander_cache` and `job_execution`, whose loops
go on for ever. In the others it is not: at the end of the bounded clock, or once the job
is purged and its record final, nothing more can happen to the one job.

**Fairness.** `PatchLanding`: each sweep goes on (services restart, `Restart=always`), and
what is retried without end succeeds at last, hence strong fairness of the flock, git,
disk and hive steps. `Relay`: weak fairness of each loop; strong fairness of `FleetTakes`
(the enqueuer takes a released job back and releases it again, and the home fleet must win
some day) and of `RenewStale`: a marker that nobody refreshes is found stale by some
sweep. `LeaseExpires` carries the timing it rests on: by the defaults the marker is recent
for 1800 s and the claim lives for 7200 s, so a lease does not end before a sweep has
found the marker stale, unless a fault is spent on it. With these two settings the other
way round, the enqueuer can refuse itself for ever: the re-executed job's marker is always
recent, its refresh is refused because the hive's claim has lapsed, and the drain that
would claim the job again is never reached. `PendingScan`: weak fairness of the scanner;
nothing is assumed of jobs that come and go. `LanderCache`: weak fairness of the git and
file steps, which all have timeouts, and strong fairness of `TakeLock`, because the kernel
grants a contended flock in the end. `JobExecution`: weak fairness of the program's steps;
each request and subprocess has a timeout. A job's arrival is never fair.

**Mutants.** Every property of a passing run has a mutant of the code, named at its
definition (`Mutant:`), that breaks it.

## What the violations say of the code

1. *Two outcomes* (`one_outcome`). The terminal create is inside the `try` of
   `_process_claimed_job`. If it takes effect and raises, the `except` branch writes a
   `failed` record. Usually create-only drops it. After a purge it does not: the
   `except` branch proves its ownership while the marker is still there, and its create
   comes after the reconciler has reported and purged the `done` record. Until the hive has
   the result the first record stands (`RecordStands`).
2. *A lost patch* (`landing_one_host`). `save_orphan_patch` truncates in place, without
   the flock, and two reconcilers on one host share the file.
3. *A wedged job* (`relay_restart`). The claimant is sealed into the payload, and a
   restarted enqueuer is another claimant.
4. *A removed clone* (`lander_prunes`). `_prune_cache` asks for the flock of
   `path.with_suffix(".lock")`. For a slug with a dot, as every path that ends in `.git`,
   that is another file for `<slug>-<digest>.tmp` than for `<slug>-<digest>`, so the flock
   of a landing does not protect the directory it is cloning into. Without any fault, what
   such a prune leaves of `.tmp` after `git clone` has ended is renamed to the clone and
   worked in (`torn`). The clone itself is not chosen for removal while a landing uses it,
   whatever the slug is (`ClonesExclusive`).

In both 3 and a job whose `put_pending` was applied but reported as failed, the bucket
keeps the terminal object and the pollers execute the job again after every lease; its
result is dropped by the create-only terminal. `put_pending` does not ask whether the job
was finished meanwhile: a job the hive offers again after its purge is executed again,
which the relay run shows to be harmless to the first result.

Behaviour that the properties exclude by a condition, and that a reader should know of:

* *Starvation in a scan.* The cursor stands at the key that a poller left its sweep with,
  and the next sweep goes on behind it. `Served` holds because jobs stop becoming
  claimable at some time (`MaxPuts`, `MaxFaults`); if for ever exactly `MAX_PER_SWEEP`
  jobs before a key became claimable in every sweep, that key could be passed over for
  ever.
* *A half-removed clone.* `WorksInWholeClone` excepts the repositories in `torn`: those with
  a removal of the clone that a crash or an error ended, and those with a prune that chose
  the `.tmp` directory a landing was filling, which needs a dotted slug but no fault; both
  until `git clone` is started anew. A directory with a `.git` and missing files is a cache
  hit, and later landings of that repository fail until somebody removes it. When a
  directory vanishes during the measuring, `stat` raises and the landing fails
  (`ScanFailed`).
* *What the node can do.* `OffloadedResolves` is for one allowlist on both sides and for
  jobs without a `workspace` of their own: `build_payload` drops that field, although the
  enqueuer's judgement may rest on it, and a name known to have no repository ends the
  search on the node but not in `repo_url_for_kind` at home.
* *What an attempt leaves.* `git checkout` and `git clean` run unchecked; after a failed
  reset (`reset`) the guards compare with a rejected attempt's files. Ignored files
  survive `git clean -fdq` in any case. The bytecode of `py_compile` is staged by
  `git add -A` unless the repository ignores it, and makes a reply that changes nothing
  look like a change (`litter`, `bare`).

## Proofs

All theorems hold for every number of pollers, reconcilers, hosts, repositories, keys,
backends, retries, files and memories, every lease length, any bounded skew, every budget of
faults, and every bound of the clock (the bound only guards `Tick`). Assumptions: the
constants' `ASSUME`s (an absent object is no worker, marker or number; lease and skew are
naturals, the lease positive; reconcilers run on hosts; allowlists and tables have the
types they are read with; an ignored file is not in HEAD; a cache directory holds finitely
many repositories). Three theorems state a hypothesis of their own, and a run, or the text
below, shows that it is needed: `PatchesSurvive`, `TmpExclusive` and `CapIsMet`.

* `ClaimLeaseProofs`. `LeaseHolder` is not inductive. The invariant adds who may use the
  registers of a renewal (`Exclusive`), what they hold (`Stamped`), and what the purge has
  left (`Reported`). `Stamped` says: a marker's stamp is one that its owner's clock has shown;
  a conditional write is only prepared against a marker it may replace; and what a renewal,
  a late one included, will write over its own worker's lease is no older than one of the
  stamps that lease rests on (`Covered`), because a renewal that starts later reads a later
  clock and one that was under way is in `proof`. With it, a takeover of a lease whose
  stamps are all fresh contradicts `MaxSkew`. From it follow the types, `LeaseHolder`,
  mutual exclusion (`OneHolder`), `ActivityBeforeExecution`, `PurgeRetriable`,
  `RecordStands`, and, with the identity as refinement mapping except for the marker's name,
  `Implementation`: every step of the protocol is a step of `AtomicLease`, whose owner may
  set its stamp back, or leaves it alone. `FlagImplementation` goes one level up: with
  "live" for "may still run by some poller's clock", each step of `AtomicLease` is one of
  `FlagLease` (`FlagStep`). These hold for any number of late renewals and of offers.
* `PatchLandingProofs`. Whoever is inside the clone holds the host's flock, and HEAD is
  then what `rev-parse` read (`Locked`); what a reconciler is about to report is the
  branch (`Landed`); only a rejected review is in the fallback (`Reviewed`).
  `PatchesSurvive`, that no patch is lost, is for reconcilers with a host each: what one of
  them relies on when it reports and purges is the branch, the result, or its own host's
  orphan file, and once it has purged nobody opens that file again (`Kept`). Run
  `landing_one_host` shows that the assumption is needed. `ClosingOut` is the refinement of
  `CloseOut`: it adds that the hive is told nothing or one final status, which the payload
  and the kind of bus determine, and that a purge comes after it (`Told`).
* `RelayProofs`. A purge runs only after the hive has accepted a final status, and the
  hive keeps it (`ResolvedStep`), so whatever a purge removes later was acknowledged. For
  the same reason the lease that the purge drops is that of an acknowledged job, and
  `LeaseIsKept`: the composition implements `FlagLease`, as the protocol of `ClaimLease`
  does. `ResultIsRecorded` needs that a terminal object stays what was opened until the
  hive has answered (`Opened`), `ReportIsWelcome` that no claimant is in use that the hive
  has not issued (`Issued`): it is the safety half of `ResolvesUnrestarted`, and what a
  restart takes away.
* `PendingScanProofs`. `ScanInv` relates the scan's position to its history: every key
  that stayed and lies before the position in the sweep's order (after the old cursor,
  then from the first key) was yielded or is still on the page, no yielded key lies ahead
  of the position, and `seen` has as many keys as were counted, plus the one in use.
  `NoKeyTwice`, `NothingMissed` and `ItemsBounded` follow.
* `LanderCacheProofs`. `LockInv`: a landing holds its repository's flock, a removal that
  of its victim. `ClonesExclusive`, which is `Exclusive`, follows for every naming of the
  repositories, because a clone and its landing use the same name; `TmpExclusive`, which
  is `RepoExclusive`, needs that no slug has a dot, and run `lander_prunes` shows that it
  is needed. `TypeCorrectness` needs the prune's books (`BookInv`): what is still to be
  removed never weighs more than the total it counts down, so the total stays a natural
  number; and the directory that a removal has open is its victim, or the clone that a
  `.tmp` directory was renamed to (`Opened`). With it follows `ClonesWhole`, again for
  every naming: for each repository that is not `torn`, the clone is missing or whole but
  for a removal that is in it (`Tidy`), which holds the flock that keeps a landing out; no
  removal is in a `.tmp` directory that a landing fills, nor has one followed its rename
  (`Spared`); and each landing's directories are as its steps have left them (`Ready`).
  `WaitsEmptyHanded`: a landing that waits for its flock holds none (`Held`), so landings
  that prune never wait for each other in a circle. `CapIsMet`: while nobody disturbs a
  prune, all that is in the cache is in its books (`Undisturbed`). Its hypothesis,
  `DistinctStems`, is that no two dotted slugs are alike up to the last dot: with one
  path, `org/repo.git`, on two hosts, both clones have the lock file of the landing that
  prunes, which asks for it again without waiting, does not get it, and leaves the other
  clone where it is, whatever the cap. `ClonesExclusive` holds for such slugs too.
* `JobBuildProofs`. `RoutesResolve`: past the judgement, the route resolves on the node
  (`Judged`). `ExactMandatory`: during the first loop the context and what is still to do
  make up the references; during the second it begins with all of them (`PackedSoFar`).
  `ContextWithinBudget`: the counter is the sum of the memories in the context
  (`BytesCounted`), because each is counted where it is appended and none occurs twice.
* `JobRunProofs`. `Attempt`: after the reset the tree is HEAD but for ignored files, after
  the overlay it is HEAD with the reply, which passed the guards against HEAD; from it
  `AttemptsJudgedAgainstHead`, and `FeedbackIsTrue`: what a reply is sent back for is true
  against HEAD. `OwnFailures`: what is in `_failed_for_job` failed during
  this job; from it `FailuresForgotten`.

* `FiniteSums`. The two proofs that reckon with bytes need what a sum over a finite set
  obeys: one element more or less, a subset, an empty set. The library has the sum as a
  function defined on the subsets of the set; its laws are proved by the smallest subset
  that breaks them, since strict inclusion is well founded on the subsets of a finite set.

Only model-checked: the liveness properties `ClosedOut`, `ResolvesUnrestarted`, `Served`,
`LandingEnds` and `JobEnds` (the prover has no rules for fairness), and the four violations.
Every invariant and every action property that a passing run checks is a theorem.

## Not modelled

* `relay_crypto`: framing of bytes without state. Its outcomes (a payload opens, does not
  open, or names another job) are in `ClaimLease`; in `Relay` every payload opens.
* `home.py` starts the two loops as threads and leaves when one ends; they share nothing
  but the bucket and the hive. `setup_relay.sh`, `ops/` and the units are installation;
  their `Restart=always` is why a crashed process starts over.
* `tools/graph_query.py` has no part in the relay.
* GPU telemetry and heartbeat metadata (nothing decides on them), credentials and tokens,
  the validation of repository URLs before the first effect, and the formatting of
  results.
* An executor with a single backend instead of a chain (it has no memory). Several jobs at
  a time on one node: `run_once` executes them one after the other.
* What is outside `src/`: the hive, MNEMOS, git, the models. They are assumed to do what
  the code's callers can observe, as said above.

Six hazards in `PROJECT.json` have no property. Leftovers after a purge need several jobs to
matter; whether a failed job may become done is the hive's rule; the two leases the other
way round are a wrong configuration that nothing rejects. The other three are behaviour
that the code allows and that the properties above except by a condition: a cache hit on a
half-removed clone (`torn`), an offloaded job without a repository on the node (the
conditions of `OffloadedResolves`), and what an attempt leaves after a failed reset or in
an ignored file (`reset` and the ignored files in `CommitGuarded` and `FeedbackTrue`).

## Plan

Done, in this order: the lease, because every other guarantee rests on it; landing, where
work can be lost; the composition; the scan over several jobs; the cache of clones; the
executors with routing and packing; `PatchNeverLost` and `WorksInWholeClone` as theorems.
Then the sums, with them the byte budget and the cap of the cache; the part of the cache's
exclusion that holds for every slug; renewals that outlive their lease, and clones under a
prune that holds another lock; and the refinements: `Relay` and `ClaimLease` of `FlagLease`,
`PatchLanding` of `CloseOut`. `Relay` does not implement `AtomicLease` itself, because its
flag has no clock behind it; `FlagLease` is what both have in common.

Left: the single-backend executor, the request for files in steps, and the jobs of several
pollers beside each other, which would show what leftovers a purge can meet
(`status/active/<uuid>` published after it).
