---------------------------- MODULE MCLanderCache ----------------------------
(* Two reconcilers of a host; repositories of one byte each. *)
EXTENDS LanderCache

CONSTANTS p1, p2, r1, r2, r3, s1, s2

TwoReconcilers == {p1, p2}
TwoRepos == {r1, r2}
ThreeRepos == {r1, r2, r3}
UnitSize == [r \in Repo |-> 1]
Stems == {s1, s2}
OwnStem == [r \in Dotted |-> IF r = r1 THEN s1 ELSE s2]
==============================================================================
