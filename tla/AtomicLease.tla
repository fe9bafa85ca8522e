----------------------------- MODULE AtomicLease -----------------------------
(***************************************************************************)
(* What `claimed/<uuid>` promises the rest of the relay: one lease marker, *)
(* taken, taken over, renewed and dropped in single steps.  relay_client   *)
(* has no such operation: it only has a conditional create, a read and a   *)
(* compare-and-swap.  ClaimLease shows that its multi-step claim() and     *)
(* renew_claim() implement this module.                                    *)
(***************************************************************************)
EXTENDS Integers

CONSTANTS
  Worker,   \* claim owners (--worker-id of each poller process)
  None,     \* the absent object
  Lease,    \* lease_seconds, in ticks
  MaxSkew   \* how far a poller's clock may run ahead of the slowest one

VARIABLES
  clock,    \* the slowest poller's clock
  marker,   \* the lease marker, or None
  acked     \* the hive has acknowledged the job's terminal state

leaseVars == <<clock, marker, acked>>

\* A stamp some poller's clock has already shown.
Stamp == 0 .. (clock + MaxSkew)

LeaseInit == clock = 0 /\ marker = None /\ acked = FALSE

Acquire(w) ==
  /\ marker = None
  /\ \E t \in Stamp : marker' = [owner |-> w, at |-> t]
  /\ UNCHANGED <<clock, acked>>

\* Only a lease that has run out changes hands.
Takeover(w) ==
  /\ marker # None
  /\ \E t \in Stamp :
       /\ t - marker.at >= Lease
       /\ marker' = [owner |-> w, at |-> t]
  /\ UNCHANGED <<clock, acked>>

\* Only the owner renews.  The stamp may be older than the marker's: a renewal
\* that outlived an earlier lease of the owner may write after its next claim.
Renew(w) ==
  /\ marker # None
  /\ marker.owner = w
  /\ \E t \in Stamp : marker' = [owner |-> w, at |-> t]
  /\ UNCHANGED <<clock, acked>>

\* The marker is only dropped once the hive holds the terminal state.
Drop ==
  /\ acked
  /\ marker' = None
  /\ UNCHANGED <<clock, acked>>

Acknowledge == acked' = TRUE /\ UNCHANGED <<clock, marker>>

Pass == clock' = clock + 1 /\ UNCHANGED <<marker, acked>>

LeaseNext ==
  \/ \E w \in Worker : Acquire(w) \/ Takeover(w) \/ Renew(w)
  \/ Drop \/ Acknowledge \/ Pass

LeaseSpec == LeaseInit /\ [][LeaseNext]_leaseVars
==============================================================================
