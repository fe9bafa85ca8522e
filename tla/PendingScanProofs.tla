--------------------------- MODULE PendingScanProofs ---------------------------
(***************************************************************************)
(* Proofs about the rotating scan: for every number of keys and every      *)
(* bound, a sweep yields no key twice, at most max_items keys, and, when   *)
(* it runs to the end, every key that was listed throughout.               *)
(***************************************************************************)
EXTENDS PendingScan, FiniteSetTheorems, TLAPS

\* Where a sweep stands in its two ranges.
Position ==
  /\ page # {} => pc # "list"
  /\ \A k \in page : k <= token
  /\ range = "after" => start # 0 /\ start <= token /\ (\A k \in page : start < k)

\* What the sweep has yielded lies behind it: in the range it reads it is below
\* the page and the token, and the first range lies above the second.
Behind ==
  /\ \A s \in seen : s <= Stop => s <= token /\ (\A k \in page : s < k)
  /\ range = "after" => \A s \in seen : start < s

\* What was listed throughout and lies behind the token is yielded or in the page.
Covered ==
  /\ range = "after" => \A k \in stayed : start < k /\ k <= token => k \in seen \cup page
  /\ range = "upto" =>
       \A k \in stayed :
         /\ k > Stop => k \in seen
         /\ k <= Stop /\ k <= token => k \in seen \cup page

\* The sweep has counted what it yielded.
Counted ==
  /\ IsFiniteSet(seen) /\ Cardinality(seen) <= MaxItems
  /\ Busy => count < MaxItems /\ Cardinality(seen) = IF pc = "use" THEN count + 1 ELSE count

ScanInv ==
  /\ TypeOK
  /\ stayed \subseteq listing
  /\ Busy => Position /\ Behind /\ Covered
  /\ pc = "swept" => stayed \subseteq seen
  /\ Counted

\* ScanInv holds at the start.
LEMMA ScanInit == Init => ScanInv
<1> SUFFICES ASSUME Init PROVE ScanInv
  OBVIOUS
<1>1. TypeOK
  <2>1. free \in SUBSET Key
    BY DEF Init
  <2> QED
    BY <2>1, BoundAssumption DEF Init, TypeOK, Key, Top
<1>2. Counted
  BY FS_EmptySet, BoundAssumption DEF Init, Counted, Busy
<1> QED
  BY <1>1, <1>2 DEF Init, ScanInv, Busy

\* The steps of the bucket leave the sweep alone but for what they remove.
LEMMA StepBucket ==
  ASSUME ScanInv, UNCHANGED <<role, cursor, sweep, count, done, seen>>,
         listing' \in SUBSET Key, stayed' \subseteq stayed, stayed' \subseteq listing',
         puts' \in 0 .. MaxPuts, faults' \in 0 .. MaxFaults, free' \in SUBSET Key
  PROVE  ScanInv'
<1> USE DEF sweep
<1>1. TypeOK'
  BY DEF ScanInv, TypeOK
<1>2. (Busy => Position /\ Behind /\ Covered)'
  BY DEF ScanInv, Busy, Position, Behind, Covered, Stop
<1>3. Counted'
  BY DEF ScanInv, Counted, Busy
<1> QED
  BY <1>1, <1>2, <1>3 DEF ScanInv

\* A sweep that is cut short asks nothing of where it stood.
LEMMA StepCut ==
  ASSUME ScanInv, pc' = "idle", UNCHANGED <<role, range, start, token, page, seen>>,
         listing' \in SUBSET Key, stayed' \subseteq stayed, stayed' \subseteq listing',
         cursor' \in 0 .. MaxKey, count' \in 0 .. MaxItems, done' \in 0 .. MaxPerSweep,
         puts' \in 0 .. MaxPuts, faults' \in 0 .. MaxFaults, free' \in SUBSET Key
  PROVE  ScanInv'
<1>1. TypeOK'
  BY DEF ScanInv, TypeOK
<1>2. Counted'
  BY DEF ScanInv, Counted, Busy
<1> QED
  BY <1>1, <1>2 DEF ScanInv, Busy

\* A new sweep has yielded nothing.
LEMMA StepBegin == ASSUME ScanInv, Begin PROVE ScanInv'
<1> USE DEF Begin, Goto
<1>1. TypeOK'
  BY BoundAssumption DEF ScanInv, TypeOK, Key, Top
<1>2. Counted'
  BY FS_EmptySet, BoundAssumption DEF Counted, Busy
<1>3. Position' /\ Behind'
  BY DEF ScanInv, TypeOK, Position, Behind
<1>4. Covered'
  BY BoundAssumption DEF ScanInv, TypeOK, Covered, Stop, Top, Key
<1> QED
  BY <1>1, <1>2, <1>3, <1>4 DEF ScanInv

\* A page holds what is listed between the old token and the new.
LEMMA StepListPage == ASSUME ScanInv, ListPage PROVE ScanInv'
<1> USE DEF ListPage, Goto
<1>1. PICK last \in token + 1 .. Top : page' = Listed(token, last) /\ token' = last
  OBVIOUS
<1>2. TypeOK'
  <2>1. page' \in SUBSET Key
    BY <1>1 DEF Listed, ScanInv, TypeOK
  <2>2. token' \in 0 .. Top
    BY <1>1, BoundAssumption DEF ScanInv, TypeOK, Top
  <2> QED
    BY <2>1, <2>2 DEF ScanInv, TypeOK
<1>3. Counted'
  BY DEF ScanInv, Counted, Busy
<1>4. Stop' = Stop /\ Stop \in Nat /\ page = {} /\ token \in Nat /\ last \in Nat /\ token < last
  BY <1>1, BoundAssumption DEF ScanInv, TypeOK, Position, Busy, Stop, Top, Key
<1>5. Position'
  BY <1>1, <1>4 DEF ScanInv, TypeOK, Position, Busy, Listed, Key
<1>6. Behind'
  BY <1>1, <1>4 DEF ScanInv, TypeOK, Behind, Busy, Listed, Key
<1>7. Covered'
  BY <1>1, <1>4 DEF ScanInv, TypeOK, Covered, Busy, Listed, Key
<1> QED
  BY <1>2, <1>3, <1>5, <1>6, <1>7 DEF ScanInv

\* The least key of the page has not been yielded before.
LEMMA YieldsNew == ASSUME ScanInv, NEW k \in Key, Yield(k) PROVE k \notin seen
BY DEF ScanInv, TypeOK, Behind, Busy, Yield, IsNext, Key

LEMMA StepYield == ASSUME ScanInv, NEW k \in Key, Yield(k) PROVE ScanInv'
<1> USE DEF Yield, Goto
<1>1. TypeOK'
  BY DEF ScanInv, TypeOK, Key
<1>2. Counted'
  <2>1. Cardinality(seen') = Cardinality(seen) + 1 /\ IsFiniteSet(seen')
    BY YieldsNew, FS_AddElement DEF ScanInv, Counted
  <2> QED
    BY <2>1, BoundAssumption DEF ScanInv, Counted, Busy, TypeOK
<1>3. Stop' = Stop /\ Stop \in Nat /\ token \in Nat
  BY BoundAssumption DEF ScanInv, TypeOK, Stop, Top
<1>4. Position'
  BY <1>3 DEF ScanInv, TypeOK, Position, Busy, Key
<1>5. Behind'
  BY <1>3 DEF ScanInv, TypeOK, Position, Behind, Busy, IsNext, Key
<1>6. Covered'
  BY <1>3 DEF ScanInv, TypeOK, Covered, Busy, Key
<1> QED
  BY <1>1, <1>2, <1>4, <1>5, <1>6 DEF ScanInv

\* The first range is at its end when the store has no more keys.
LEMMA StepNextRange == ASSUME ScanInv, NextRange PROVE ScanInv'
<1> USE DEF NextRange, RangeDone, Goto
<1>1. TypeOK'
  BY BoundAssumption DEF ScanInv, TypeOK, Top
<1>2. Counted'
  BY DEF ScanInv, Counted, Busy
<1>3. Stop = Top /\ Stop' = start /\ start \in Nat /\ Top \in Nat /\ \A k \in Key : k < Top
  BY BoundAssumption DEF ScanInv, TypeOK, Position, Busy, Stop, Top, Key
<1>4. page = {} /\ token = Top
  BY <1>3 DEF ScanInv, TypeOK, Key
<1>5. Position' /\ Behind'
  BY <1>3 DEF ScanInv, TypeOK, Position, Behind, Busy, Key
<1>6. Covered'
  BY <1>3, <1>4 DEF ScanInv, TypeOK, Covered, Busy, Key
<1> QED
  BY <1>1, <1>2, <1>5, <1>6 DEF ScanInv

\* The second range is at its end when the next key lies beyond the old cursor.
LEMMA StepSwept == ASSUME ScanInv, Swept PROVE ScanInv'
<1> USE DEF Swept, RangeDone, Goto
<1>1. TypeOK'
  BY DEF ScanInv, TypeOK
<1>2. Counted'
  BY DEF ScanInv, Counted, Busy
<1>3. ASSUME NEW k \in stayed PROVE k \in seen
  <2>1. Stop \in Nat /\ Stop <= Top /\ token \in Nat /\ k \in Nat /\ k <= Top /\ Top \in Nat
    BY BoundAssumption DEF ScanInv, TypeOK, Stop, Top, Key
  <2>2. k <= Stop => k <= token /\ k \notin page
    BY <2>1 DEF ScanInv, TypeOK, Position, Busy, Key
  <2> QED
    BY <2>1, <2>2 DEF ScanInv, Covered, Busy
<1> QED
  BY <1>1, <1>2, <1>3 DEF ScanInv, Busy

\* The sweep goes on with the next key.
LEMMA StepResume ==
  ASSUME ScanInv, pc = "use", Resume,
         UNCHANGED <<role, cursor, range, start, token, page, puts, faults, seen>>,
         listing' \in SUBSET Key, stayed' \subseteq stayed, stayed' \subseteq listing',
         done' \in 0 .. MaxPerSweep, free' \in SUBSET Key
  PROVE  ScanInv'
<1> USE DEF Resume, Goto
<1>1. count < MaxItems /\ count \in Nat /\ MaxItems \in Nat
  BY BoundAssumption DEF ScanInv, TypeOK, Counted, Busy
<1>2. TypeOK'
  BY <1>1 DEF ScanInv, TypeOK
<1>3. Counted'
  BY <1>1 DEF ScanInv, Counted, Busy
<1>4. (Position /\ Behind /\ Covered)'
  BY DEF ScanInv, Busy, Position, Behind, Covered, Stop
<1> QED
  BY <1>2, <1>3, <1>4 DEF ScanInv

\* Every step keeps ScanInv.
LEMMA ScanStep == ScanInv /\ [Next]_vars => ScanInv'
<1> SUFFICES ASSUME ScanInv, [Next]_vars PROVE ScanInv'
  OBVIOUS
<1>t. TypeOK /\ stayed \subseteq listing
  BY DEF ScanInv
<1>1. CASE UNCHANGED vars
  BY <1>1, <1>t, StepBucket DEF vars, TypeOK
<1>2. CASE \E k \in Key : Put(k) \/ Delete(k) \/ Expire(k)
  <2> PICK k \in Key : Put(k) \/ Delete(k) \/ Expire(k)
    BY <1>2
  <2>1. CASE Put(k)
    <3>1. free' \in SUBSET Key /\ listing' \in SUBSET Key /\ stayed \subseteq listing'
      BY <2>1, <1>t DEF Put, TypeOK
    <3>2. puts' \in 0 .. MaxPuts
      BY <2>1, <1>t, BoundAssumption DEF Put, TypeOK
    <3> QED
      BY <2>1, <3>1, <3>2, <1>t, StepBucket DEF Put, TypeOK
  <2>2. CASE Delete(k)
    BY <2>2, <1>t, StepBucket DEF Delete, Remove, TypeOK
  <2>3. CASE Expire(k)
    BY <2>3, <1>t, StepBucket, BoundAssumption DEF Expire, Fault, TypeOK
  <2> QED
    BY <2>1, <2>2, <2>3
<1>3. CASE Fail \/ Restart
  <2>1. faults' \in 0 .. MaxFaults /\ cursor' \in 0 .. MaxKey
    BY <1>3, <1>t, BoundAssumption DEF Fail, Restart, Fault, TypeOK
  <2> QED
    BY <1>3, <2>1, <1>t, StepCut DEF Fail, Restart, Goto, TypeOK
<1>4. CASE Begin \/ ListPage \/ NextRange \/ Swept \/ \E k \in Key : Yield(k)
  BY <1>4, StepBegin, StepListPage, StepNextRange, StepSwept, StepYield
<1>5. CASE NextPage
  <2>1. TypeOK' /\ Counted'
    BY <1>5 DEF NextPage, Goto, ScanInv, TypeOK, Counted, Busy
  <2>2. (Position /\ Behind /\ Covered)'
    BY <1>5 DEF NextPage, Goto, ScanInv, Busy, Position, Behind, Covered, Stop
  <2> QED
    BY <1>5, <2>1, <2>2 DEF NextPage, Goto, ScanInv
<1>6. CASE PollerUse
  <2>1. done' \in 0 .. MaxPerSweep /\ free' \in SUBSET Key
    BY <1>6, <1>t, BoundAssumption DEF PollerUse, TypeOK
  <2>2. CASE Resume
    BY <1>6, <2>1, <2>2, <1>t, StepResume DEF PollerUse, TypeOK
  <2>3. CASE Goto("idle") /\ UNCHANGED count
    BY <1>6, <2>1, <2>3, <1>t, StepCut DEF PollerUse, Goto, TypeOK
  <2> QED
    BY <1>6, <2>2, <2>3 DEF PollerUse
<1>7. CASE EnqueuerUse
  <2>1. CASE Resume
    BY <1>7, <2>1, <1>t, StepResume DEF EnqueuerUse, TypeOK
  <2>2. CASE Goto("idle") /\ UNCHANGED count
    BY <1>7, <2>2, <1>t, StepCut DEF EnqueuerUse, Goto, TypeOK
  <2> QED
    BY <1>7, <2>1, <2>2 DEF EnqueuerUse
<1>8. CASE ReconcilerUse
  <2>1. /\ listing' \in SUBSET Key /\ free' \in SUBSET Key
        /\ stayed' \subseteq stayed /\ stayed' \subseteq listing'
    BY <1>8, <1>t DEF ReconcilerUse, Remove, TypeOK
  <2> QED
    BY <1>8, <2>1, <1>t, StepResume DEF ReconcilerUse, TypeOK
<1> QED
  BY <1>1, <1>2, <1>3, <1>4, <1>5, <1>6, <1>7, <1>8 DEF Next, Scan

\* The scan's position, what it has yielded and what it has counted agree.
THEOREM ScanCorrect == Spec => []ScanInv
<1>1. Init => ScanInv
  BY ScanInit
<1>2. ScanInv /\ [Next]_vars => ScanInv'
  BY ScanStep
<1> QED
  BY <1>1, <1>2, PTL DEF Spec

\* Every variable keeps its type; the poller's jobs stay within MAX_PER_SWEEP.
THEOREM TypeCorrect == Spec => []TypeOK
<1>1. ScanInv => TypeOK
  BY DEF ScanInv
<1> QED
  BY <1>1, ScanCorrect, PTL

\* A sweep that ran to the end missed nothing that was listed throughout
\* (_iter_uuids).
THEOREM NothingMissed == Spec => []SweepComplete
<1>1. ScanInv => SweepComplete
  BY DEF ScanInv, SweepComplete
<1> QED
  BY <1>1, ScanCorrect, PTL

\* The two ranges share one budget of max_items (_iter_uuids).
THEOREM ItemsBounded == Spec => []ItemBound
<1>1. ScanInv => ItemBound
  BY DEF ScanInv, Counted, ItemBound
<1> QED
  BY <1>1, ScanCorrect, PTL

\* No key is yielded twice in a sweep (_iter_uuids).
THEOREM NoKeyTwice == Spec => NoneTwice
<1>1. ScanInv /\ [Next]_vars => [pc = "next" /\ pc' = "use" => cursor' \notin seen]_vars
  <2> SUFFICES ASSUME ScanInv, Next, pc = "next", pc' = "use"
               PROVE  cursor' \notin seen
    BY DEF vars
  <2>1. PICK k \in Key : Yield(k)
    BY DEF Next, Scan, Begin, ListPage, NextPage, NextRange, Swept, PollerUse, EnqueuerUse,
           ReconcilerUse, Fail, Restart, Put, Delete, Expire, Goto, sweep
  <2> QED
    BY <2>1, YieldsNew DEF Yield
<1> QED
  BY <1>1, ScanCorrect, PTL DEF Spec, NoneTwice

================================================================================
