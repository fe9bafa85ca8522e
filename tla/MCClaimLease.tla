---------------------------- MODULE MCClaimLease -----------------------------
(* Two pollers, the second with a clock one tick ahead of the first. *)
EXTENDS ClaimLease

CONSTANTS w1, w2, s1

MCWorker == {w1, w2}
MCSkew == [w \in MCWorker |-> IF w = w2 THEN 1 ELSE 0]

(***************************************************************************)
(* The view: states that differ only in what no later step and no property *)
(* can tell apart are one.  A register is masked while it will be written  *)
(* before it is read.  Once the hive has the result (acked, for ever), the *)
(* properties no longer ask which result, whose lease or whether activity  *)
(* is published, and no step ever asks for the last.                       *)
(***************************************************************************)

\* All that LeaseHolder asks of a set of stamps is how old the oldest is.
Oldest(stamps) == CHOOSE t \in stamps : \A u \in stamps : t <= u

Announced == acked \/ active

Live(w) ==
  LET calling == main[w] \in Claiming \/ ren[w] \in {"read", "cas"}
      leased  == main[w] \in Working
      writing == main[w] \in {"own", "prove", "put"}
  IN  << main[w], thread[w], ren[w],
         IF ren[w] = "free" THEN "main" ELSE holder[w],
         IF calling THEN at[w] ELSE 0,
         IF main[w] = "cas" \/ ren[w] = "cas" THEN seen[w] ELSE None,
         leased /\ lost[w],
         leased /\ routed[w] /\ ~Announced,
         IF writing /\ ~acked THEN outcome[w] ELSE "failed",
         writing /\ guarded[w],
         IF leased /\ ~acked THEN Oldest(proof[w]) ELSE 0 >>

LiveLate(s) ==
  IF late[s] = None THEN None
  ELSE << late[s].owner, late[s].step, late[s].routed /\ ~Announced,
          IF late[s].step \in {"read", "cas"} THEN late[s].at ELSE 0,
          IF late[s].step = "cas" THEN late[s].seen ELSE None >>

MCView ==
  << clock, pending, envelope, claimed, Announced,
     IF acked /\ terminal # "none" THEN "done" ELSE terminal,
     troubles, enq, rec, acked, again, [w \in Worker |-> Live(w)], [s \in Slot |-> LiveLate(s)] >>
==============================================================================
