------------------------------ MODULE FlagLease ------------------------------
(***************************************************************************)
(* AtomicLease without its clock: what is left of a stamp is whether it    *)
(* may still protect its owner.  This is as much of `claimed/<uuid>` as    *)
(* the rest of the relay relies on.  ClaimLease implements it with its     *)
(* requests and stamps; Relay implements it with a flag.                   *)
(***************************************************************************)
CONSTANTS
  Worker,   \* claim owners (--worker-id of each poller process)
  None      \* the absent object

VARIABLES
  marker,   \* the lease marker, with its owner and whether it is live, or None
  acked     \* the hive has acknowledged the job's terminal state

flagVars == <<marker, acked>>

FlagInit == marker = None /\ acked = FALSE

\* claim(): a marker that is absent or has run out changes hands.
Take(w) ==
  /\ marker # None => ~marker.live
  /\ \E l \in BOOLEAN : marker' = [owner |-> w, live |-> l]
  /\ UNCHANGED acked

\* renew_claim(): only the owner renews, and a live lease stays live.
Renew(w) ==
  /\ marker # None
  /\ marker.owner = w
  /\ \E l \in BOOLEAN : (marker.live => l) /\ marker' = [owner |-> w, live |-> l]
  /\ UNCHANGED acked

\* purge(): only for a job whose terminal state the hive has.
Drop ==
  /\ acked
  /\ marker' = None
  /\ UNCHANGED acked

\* Time passes, or a late renewal of the owner sets its stamp back; the owner keeps the
\* marker until somebody takes it over.
Expire ==
  /\ marker # None
  /\ marker' = [owner |-> marker.owner, live |-> FALSE]
  /\ UNCHANGED acked

\* What the hive has acknowledged stays acknowledged.
Acknowledge == acked' = TRUE /\ UNCHANGED marker

FlagNext ==
  \/ \E w \in Worker : Take(w) \/ Renew(w)
  \/ Drop \/ Expire \/ Acknowledge

FlagSpec == FlagInit /\ [][FlagNext]_flagVars
==============================================================================
