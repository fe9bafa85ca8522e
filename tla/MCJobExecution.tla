----------------------------- MODULE MCJobExecution -----------------------------
(* Two backends, one retry, three files: one of HEAD, a new one, an ignored one. *)
EXTENDS JobExecution

CONSTANTS chat, build1, build2, mapped, other,  \* kinds
          n1, n2, n3,                           \* names: n1 has a URL, n2 has none, n3 is unknown
          u1, u2,                               \* URLs: only u1 is allowed
          m1, m2,                               \* memories
          mod, new, ign                         \* files

MCKind == {chat, build1, build2, mapped, other}
MCChat == {chat}
MCBuildName == [k \in Kind |-> IF k = build1 THEN n1 ELSE IF k = build2 THEN n2 ELSE None]
MCKindTable == [k \in Kind |-> IF k = mapped THEN u1 ELSE None]
MCAliases == [n \in {n1, n2} |-> IF n = n1 THEN u1 ELSE None]
MCRoutes ==
  {r \in Route : r.workspace \in {None, n2} /\ r.project # n3 /\ r.hint \in {None, n1}}

MCWeight == [m \in Memory |-> IF m = m2 THEN 2 ELSE 1]
MCConfig ==
  {[mode |-> "search", skipCount |-> 0, skipBytes |-> 0],
   [mode |-> "search", skipCount |-> 2, skipBytes |-> 2],
   [mode |-> "exact", skipCount |-> 0, skipBytes |-> 0],
   [mode |-> "off", skipCount |-> 0, skipBytes |-> 0]}

MCHeadTree == [f \in File |-> IF f = mod THEN "head" ELSE Absent]

\* What the model may reply for each path; None when it does not mention it.
Mentions ==
  [mod : {None, "head", "edit", "short", "drops", "broken", Absent},
   new : {None, "edit", "short", Absent}, ign : {None, "edit", "short"}, outside : {None, "edit"}]
Of(c, p) == IF p = mod THEN c.mod ELSE IF p = new THEN c.new
            ELSE IF p = ign THEN c.ign ELSE c.outside
MCOffered == {[p \in {q \in Path : Of(c, q) # None} |-> Of(c, p)] : c \in Mentions}
================================================================================
