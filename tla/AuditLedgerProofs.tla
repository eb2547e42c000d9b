-------------------------- MODULE AuditLedgerProofs --------------------------
(* Proofs about AuditLedger, for every number of changes, runs of the        *)
(* retention job, accounts, periods, batch sizes and page sizes.             *)
EXTENDS AuditLedger, FiniteSetTheorems, WellFoundedInduction, TLAPS

-----------------------------------------------------------------------------
(* Sets of ids                                                               *)

LEMMA HasFirst ==
    ASSUME NEW n \in Nat, NEW S \in SUBSET (1 .. n), S # {}
    PROVE  \E i \in S : IsFirst(i, S)
<1> DEFINE Below(i) == {k \in S : k < i}
           T == {Below(i) : i \in S}
           Order == StrictSubsetOrdering(S)
<1>1. IsFiniteSet(S)
  <2>1. IsFiniteSet(1 .. n)
    BY FS_Interval, 1 \in Int, n \in Int
  <2> QED BY <2>1, FS_Subset
<1>2. IsWellFoundedOn(Order, SUBSET S)
  <2>1. FiniteSubsetsOf(S) = SUBSET S
    BY <1>1, FS_FiniteSubsetsOfFinite
  <2> QED BY <2>1, FS_StrictSubsetOrderingWellFounded
<1>3. T \subseteq SUBSET S /\ T # {}
  OBVIOUS
<1>4. PICK X \in T : \A Y \in T : ~(<<Y, X>> \in Order)
  <2> HIDE DEF T, Order
  <2> QED BY <1>2, <1>3, WFMin, Zenon
<1>5. PICK i \in S : X = Below(i)
  BY <1>4
<1>6. ASSUME NEW k \in S, k < i PROVE FALSE
  <2>1. Below(k) \subseteq Below(i) /\ k \in Below(i) /\ k \notin Below(k)
    <3>1. \A j \in S : j \in Int
      OBVIOUS
    <3>2. \A j \in S : j < k => j < i
      BY <1>6, <3>1
    <3>3. ~(k < k)
      BY <3>1
    <3> QED BY <1>6, <3>2, <3>3, Zenon
  <2>2. Below(k) \in SUBSET S /\ Below(i) \in SUBSET S /\ Below(k) # Below(i)
    BY <2>1
  <2>3. <<Below(k), Below(i)>> \in Order
    BY <2>1, <2>2 DEF StrictSubsetOrdering
  <2> QED BY <2>3, <1>4, <1>5
<1> QED BY <1>6 DEF IsFirst

LEMMA HasLast ==
    ASSUME NEW n \in Nat, NEW S \in SUBSET (1 .. n), S # {}
    PROVE  \E i \in S : IsLast(i, S)
<1> DEFINE T == {m \in 1 .. n : \A k \in S : k <= m}
<1>1. n \in T /\ T \in SUBSET (1 .. n) /\ T # {}
  <2>1. PICK k \in S : TRUE
    OBVIOUS
  <2>2. k \in 1 .. n /\ n \in 1 .. n
    BY <2>1
  <2>3. n \in T
    BY <2>2
  <2> QED BY <2>3
<1>2. PICK m \in T : IsFirst(m, T)
  <2> HIDE DEF T
  <2> QED BY <1>1, HasFirst, Zenon
<1>3. m \in S
  <2> SUFFICES ASSUME m \notin S PROVE FALSE
    OBVIOUS
  <2>1. PICK k \in S : TRUE
    OBVIOUS
  <2>2. k <= m - 1 /\ m - 1 \in 1 .. n
    BY <2>1
  <2>3. m - 1 \in T
    BY <2>2
  <2> QED BY <2>3, <1>2 DEF IsFirst
<1> QED BY <1>2, <1>3 DEF IsLast

-----------------------------------------------------------------------------
(* What a step does to a writer's place                                      *)

\* One writer goes to place r and the others stay.
Places(w, r) == work' = [work EXCEPT ![w] = r]

LEMMA PlacesAt ==
    ASSUME DOMAIN work = Writer, NEW w \in Writer, NEW r, Places(w, r)
    PROVE  /\ DOMAIN work' = Writer
           /\ work'[w] = r
           /\ \A v \in Writer : v # w => work'[v] = work[v]
BY DEF Places
\* What TypeOK says of a writer's place.
Placed(r, n, t) ==
    /\ r.phase \in Phases
    /\ r.at \in 0 .. t
    /\ r.id \in 0 .. (n - 1)
    /\ r.phase = "inserted" => r.id > 0

\* What TypeOK says of a row.
Row(r, t) == r.user \in User \cup {System} /\ r.at \in 0 .. t /\ r.what \in Writer

LEMMA ByIsUser == ASSUME NEW w \in Writer PROVE By(w) \in User \cup {System}
BY LedgerAssumption DEF By, Writer

LEMMA PlacedType ==
    ASSUME TypeOK, NEW w \in Writer, NEW r, Places(w, r), Placed(r, nextId', clock'),
           nextId' \in Nat, nextId <= nextId', clock' \in Nat, clock <= clock'
    PROVE  /\ DOMAIN work' = Writer
           /\ \A v \in Writer : Placed(work'[v], nextId', clock')
<1>1. DOMAIN work = Writer /\ nextId \in Nat /\ clock \in Nat
  BY LedgerAssumption DEF TypeOK
<1>2. DOMAIN work' = Writer /\ work'[w] = r /\ \A v \in Writer : v # w => work'[v] = work[v]
  BY <1>1, PlacesAt
<1>3. \A v \in Writer : Placed(work[v], nextId, clock)
  BY DEF TypeOK, Placed
<1>4. \A v \in Writer : Placed(work[v], nextId', clock')
  BY <1>1, <1>3 DEF Placed
<1> QED BY <1>2, <1>4

LEMMA GoesType ==
    ASSUME TypeOK, NEW w \in Writer, NEW phase \in Phases \ {"inserted"}, Goes(w, phase),
           UNCHANGED <<nextId, clock>>
    PROVE  /\ DOMAIN work' = Writer
           /\ \A v \in Writer : Placed(work'[v], nextId', clock')
<1>1. nextId \in Nat \ {0} /\ clock \in Nat
  BY LedgerAssumption DEF TypeOK
<1>2. Places(w, NoRow(phase)) /\ Placed(NoRow(phase), nextId', clock')
  BY <1>1 DEF Goes, Places, Placed, NoRow
<1> QED BY <1>1, <1>2, PlacedType
-----------------------------------------------------------------------------
(* Type correctness                                                          *)

RowsTyped == Ids \subseteq 1 .. (nextId - 1) /\ \A i \in Ids : Row(ledger[i], clock)

PlacesTyped == DOMAIN work = Writer /\ \A w \in Writer : Placed(work[w], nextId, clock)

CheckpointsTyped ==
    \A c \in checkpoints : c.through \in 1 .. (nextId - 1) /\ c.cutoff \in Int

ScalarsTyped ==
    /\ nextId \in Nat \ {0}
    /\ lock \in Writer \cup {Nobody}
    /\ accounts \subseteq User
    /\ undone \subseteq Change
    /\ clock \in 0 .. MaxClock

PruneTyped ==
    prune \in [Pruner -> [cutoff : Int, bound : Nat, batches : Nat, deleted : Nat]]

CheckTyped ==
    /\ check.phase \in {"idle", "walking", "done"}
    /\ DOMAIN check.rows \subseteq 1 .. (nextId - 1)
    /\ check.after \in Nat /\ check.total \in Nat
    /\ check.verdict \in Verdicts

LEMMA TypeParts ==
    /\ TypeOK <=> /\ RowsTyped /\ PlacesTyped /\ CheckpointsTyped
                  /\ ScalarsTyped /\ PruneTyped /\ CheckTyped
    /\ TypeOK' <=> /\ RowsTyped' /\ PlacesTyped' /\ CheckpointsTyped'
                   /\ ScalarsTyped' /\ PruneTyped' /\ CheckTyped'
BY DEF TypeOK, RowsTyped, PlacesTyped, CheckpointsTyped, ScalarsTyped, PruneTyped,
       CheckTyped, Row, Placed

LEMMA InitTyped == Init => TypeOK
<1> SUFFICES ASSUME Init PROVE TypeOK
  OBVIOUS
<1>1. RowsTyped
  BY DEF Init, RowsTyped, Ids
<1>2. PlacesTyped
  BY LedgerAssumption DEF Init, PlacesTyped, Placed, NoRow, Phases
<1>3. CheckpointsTyped /\ ScalarsTyped
  BY LedgerAssumption DEF Init, CheckpointsTyped, ScalarsTyped
<1>4. PruneTyped
  BY LedgerAssumption DEF Init, PruneTyped
<1>5. CheckTyped
  BY DEF Init, CheckTyped, NotBegun, Verdicts
<1> QED BY <1>1, <1>2, <1>3, <1>4, <1>5, TypeParts

LEMMA ReleaseType ==
    ASSUME ScalarsTyped, NEW w \in Writer, Release(w)
    PROVE  lock' \in Writer \cup {Nobody}
BY DEF ScalarsTyped, Release

\* The row an append commits.
LEMMA NewRow ==
    ASSUME TypeOK, NEW w \in Writer
    PROVE  Row(RowOf(w), clock)
BY ByIsUser, TypeParts DEF Row, RowOf, PlacesTyped, Placed

LEMMA AppendsTyped == ASSUME TypeOK, NEW w \in Writer, Appends(w) PROVE TypeOK'
<1> USE DEF tables
<1>0. /\ RowsTyped /\ PlacesTyped /\ CheckpointsTyped
      /\ ScalarsTyped /\ PruneTyped /\ CheckTyped
  BY TypeParts
<1>a. nextId \in Nat \ {0} /\ clock \in Nat /\ DOMAIN work = Writer
      /\ Placed(work[w], nextId, clock)
  BY <1>0, LedgerAssumption DEF ScalarsTyped, PlacesTyped
<1>1. ASSUME UNCHANGED <<ledger, checkpoints, accounts, undone, clock, prune, check>>,
             nextId' \in Nat, nextId <= nextId', lock' \in Writer \cup {Nobody},
             PlacesTyped'
      PROVE  TypeOK'
  <2>1. RowsTyped'
    BY <1>0, <1>1, <1>a DEF RowsTyped, Row, Ids
  <2>2. CheckpointsTyped' /\ ScalarsTyped'
    BY <1>0, <1>1, <1>a DEF CheckpointsTyped, ScalarsTyped
  <2>3. PruneTyped' /\ CheckTyped'
    BY <1>0, <1>1, <1>a DEF PruneTyped, CheckTyped
  <2> QED BY <1>1, <2>1, <2>2, <2>3, TypeParts
<1>2. CASE BeginAppend(w)
  <2> DEFINE r == [NoRow("waiting") EXCEPT !.at = clock]
  <2>1. Places(w, r) /\ Placed(r, nextId', clock')
    BY <1>2, <1>a DEF BeginAppend, Places, Placed, NoRow, Phases
  <2>2. PlacesTyped'
    BY <1>2, <1>a, <2>1, PlacedType DEF BeginAppend, PlacesTyped
  <2> QED BY <1>0, <1>1, <1>2, <1>a, <2>2 DEF BeginAppend, ScalarsTyped
<1>3. CASE NoAppend(w)
  <2>1. PlacesTyped'
    BY <1>3, GoesType DEF NoAppend, PlacesTyped, Phases
  <2> QED BY <1>0, <1>1, <1>3, <1>a, <2>1 DEF NoAppend, ScalarsTyped
<1>4. CASE TakeLock(w)
  <2> DEFINE r == [NoRow("locked") EXCEPT !.at = work[w].at]
  <2>1. Places(w, r) /\ Placed(r, nextId', clock')
    BY <1>4, <1>a DEF TakeLock, Places, Placed, NoRow, Phases
  <2>2. PlacesTyped'
    BY <1>4, <1>a, <2>1, PlacedType DEF TakeLock, PlacesTyped
  <2> QED BY <1>0, <1>1, <1>4, <1>a, <2>2 DEF TakeLock
<1>5. CASE ReadLast(w)
  <2> DEFINE r == [phase |-> "read", at |-> work[w].at, prev |-> LastHash, id |-> 0]
  <2>1. Places(w, r) /\ Placed(r, nextId', clock')
    BY <1>5, <1>a DEF ReadLast, Places, Placed, Phases
  <2>2. PlacesTyped'
    BY <1>5, <1>a, <2>1, PlacedType DEF ReadLast, PlacesTyped
  <2> QED BY <1>0, <1>1, <1>5, <1>a, <2>2 DEF ReadLast, ScalarsTyped
<1>6. CASE Insert(w)
  <2> DEFINE r == [phase |-> "inserted", at |-> work[w].at,
                   prev |-> work[w].prev, id |-> nextId]
  <2>1. Places(w, r) /\ Placed(r, nextId', clock') /\ nextId' = nextId + 1
    BY <1>6, <1>a DEF Insert, Places, Placed, Phases, AfterNext
  <2>2. PlacesTyped'
    BY <1>6, <1>a, <2>1, PlacedType DEF Insert, PlacesTyped
  <2> QED BY <1>0, <1>1, <1>6, <1>a, <2>1, <2>2 DEF Insert, ScalarsTyped
<1>7. CASE CommitAppend(w)
  <2>1. PlacesTyped'
    BY <1>7, GoesType DEF CommitAppend, PlacesTyped, Phases
  <2>2. RowsTyped'
    <3> DEFINE n == work[w].id
    <3>1. Ids' = Ids \cup {n} /\ n \in 1 .. (nextId - 1)
      BY <1>7, <1>a DEF CommitAppend, Ids, Placed
    <3>2. \A i \in Ids' : ledger'[i] = IF i = n THEN RowOf(w) ELSE ledger[i]
      BY <1>7, <3>1 DEF CommitAppend
    <3> QED BY <1>0, <1>7, <3>1, <3>2, NewRow DEF CommitAppend, RowsTyped
  <2>3. CheckpointsTyped' /\ ScalarsTyped'
    BY <1>0, <1>7, ReleaseType DEF CommitAppend, CheckpointsTyped, ScalarsTyped
  <2>4. PruneTyped' /\ CheckTyped'
    BY <1>0, <1>7 DEF CommitAppend, PruneTyped, CheckTyped
  <2> QED BY <2>1, <2>2, <2>3, <2>4, TypeParts
<1>8. CASE AppendFails(w)
  <2>1. PlacesTyped'
    BY <1>8, GoesType DEF AppendFails, PlacesTyped, Phases
  <2> QED BY <1>0, <1>1, <1>8, <1>a, <2>1, ReleaseType DEF AppendFails
<1> QED BY <1>2, <1>3, <1>4, <1>5, <1>6, <1>7, <1>8 DEF Appends
LEMMA LeavesType ==
    ASSUME TypeOK, NEW w \in Writer, NEW d, Leaves(w, d), UNCHANGED <<nextId, clock>>
    PROVE  PlacesTyped'
<1>1. PICK phase \in IF d > 0 THEN {"due"} ELSE {"due", "done"} : Goes(w, phase)
  BY DEF Leaves
<1>2. phase \in Phases \ {"inserted"}
  BY <1>1 DEF Phases
<1> QED BY <1>1, <1>2, GoesType DEF PlacesTyped

\* A prune step that leaves the tables alone keeps the types.
LEMMA PruneStepTyped ==
    ASSUME TypeOK, UNCHANGED <<ledger, checkpoints, nextId, accounts, undone, clock, check>>,
           lock' \in Writer \cup {Nobody}, PlacesTyped', PruneTyped'
    PROVE  TypeOK'
<1>0. /\ RowsTyped /\ PlacesTyped /\ CheckpointsTyped
      /\ ScalarsTyped /\ PruneTyped /\ CheckTyped
  BY TypeParts
<1>1. RowsTyped'
  BY <1>0 DEF RowsTyped, Row, Ids
<1>2. CheckpointsTyped' /\ ScalarsTyped' /\ CheckTyped'
  BY <1>0 DEF CheckpointsTyped, ScalarsTyped, CheckTyped
<1> QED BY <1>1, <1>2, TypeParts

LEMMA BoundInIds ==
    ASSUME TypeOK, Ids # {}, NEW cutoff \in Int
    PROVE  /\ Bound(cutoff) \in Ids
           /\ \A i \in Ids : i < Bound(cutoff) => ledger[i].at < cutoff
<1>0. /\ Ids \in SUBSET (1 .. (nextId - 1)) /\ nextId - 1 \in Nat
      /\ \A i \in Ids : ledger[i].at \in Nat /\ i \in Nat
  BY TypeParts, LedgerAssumption DEF RowsTyped, Row, ScalarsTyped
<1>1. CASE Retained(cutoff) # {}
  <2>1. Retained(cutoff) \in SUBSET (1 .. (nextId - 1))
    BY <1>0 DEF Retained
  <2>2. \E i \in Retained(cutoff) : IsFirst(i, Retained(cutoff))
    BY <1>0, <1>1, <2>1, HasFirst
  <2>3. Bound(cutoff) = CHOOSE i \in Retained(cutoff) : IsFirst(i, Retained(cutoff))
    BY <1>1 DEF Bound
  <2>4. Bound(cutoff) \in Retained(cutoff) /\ IsFirst(Bound(cutoff), Retained(cutoff))
    BY <2>2, <2>3, Zenon
  <2>5. ASSUME NEW i \in Ids, i < Bound(cutoff) PROVE ledger[i].at < cutoff
    <3>1. Bound(cutoff) \in Ids
      BY <2>4 DEF Retained
    <3>2. i \in Nat /\ Bound(cutoff) \in Nat
      BY <1>0, <3>1
    <3>3. i \in Retained(cutoff) => Bound(cutoff) <= i
      BY <2>4 DEF IsFirst
    <3>4. i \notin Retained(cutoff)
      BY <2>5, <3>2, <3>3
    <3> QED BY <1>0, <3>4 DEF Retained
  <2> QED BY <2>4, <2>5 DEF Retained
<1>2. CASE Retained(cutoff) = {}
  <2>1. \E i \in Ids : IsLast(i, Ids)
    BY <1>0, HasLast
  <2>2. Bound(cutoff) = CHOOSE i \in Ids : IsLast(i, Ids)
    BY <1>2 DEF Bound
  <2>3. Bound(cutoff) \in Ids
    BY <2>1, <2>2, Zenon
  <2>4. \A i \in Ids : ledger[i].at < cutoff
    BY <1>0, <1>2 DEF Retained
  <2> QED BY <2>3, <2>4
<1> QED BY <1>1, <1>2

LEMMA PrunesTyped == ASSUME TypeOK, NEW p \in Pruner, Prunes(p) PROVE TypeOK'
<1> USE DEF tables
<1>0. /\ RowsTyped /\ PlacesTyped /\ CheckpointsTyped
      /\ ScalarsTyped /\ PruneTyped /\ CheckTyped
  BY TypeParts
<1>a. nextId \in Nat \ {0} /\ clock \in Nat /\ p \in Writer /\ Ids \subseteq 1 .. (nextId - 1)
  BY <1>0, LedgerAssumption DEF ScalarsTyped, RowsTyped, Writer
<1>c. Ids \subseteq Nat
  BY <1>a
<1>b. /\ prune[p].cutoff \in Int /\ prune[p].batches \in Nat
      /\ prune[p].deleted \in Nat
  BY <1>0 DEF PruneTyped
<1>1. CASE StartPrune(p)
  <2>1. PlacesTyped'
    BY <1>1, <1>a, GoesType DEF StartPrune, PlacesTyped, Phases
  <2>2. PruneTyped'
    BY <1>0, <1>1, <1>a, LedgerAssumption DEF StartPrune, PruneTyped
  <2> QED BY <1>0, <1>1, <2>1, <2>2, PruneStepTyped DEF StartPrune, ScalarsTyped
<1>2. CASE PruneLock(p)
  <2>1. PlacesTyped'
    BY <1>2, <1>a, GoesType DEF PruneLock, PlacesTyped, Phases
  <2>2. PruneTyped'
    BY <1>0, <1>2 DEF PruneLock, PruneTyped
  <2> QED BY <1>2, <1>a, <2>1, <2>2, PruneStepTyped DEF PruneLock
<1>3. CASE PruneCapped(p)
  <2>1. PlacesTyped'
    BY <1>3, <1>a, LeavesType DEF PruneCapped
  <2>2. PruneTyped'
    BY <1>0, <1>3 DEF PruneCapped, PruneTyped
  <2> QED BY <1>0, <1>3, <2>1, <2>2, PruneStepTyped DEF PruneCapped, ScalarsTyped
<1>4. CASE PruneBound(p)
  <2>1. CASE Ids # {} /\ Goes(p, "bounded")
    <3>1. PlacesTyped'
      BY <1>4, <1>a, <2>1, GoesType DEF PruneBound, PlacesTyped, Phases
    <3>2. Bound(prune[p].cutoff) \in Nat
      <4>1. Bound(prune[p].cutoff) \in Ids
        BY <1>b, <2>1, BoundInIds
      <4> QED BY <1>c, <4>1, Zenon
    <3>3. PruneTyped'
      BY <1>0, <1>4, <1>b, <2>1, <3>2 DEF PruneBound, PruneTyped
    <3>4. lock' \in Writer \cup {Nobody}
      BY <1>0, <1>4, <2>1 DEF PruneBound, ScalarsTyped
    <3> QED BY <1>4, <3>1, <3>3, <3>4, PruneStepTyped DEF PruneBound
  <2>2. CASE Ids = {}
    <3>1. PlacesTyped'
      BY <1>4, <1>a, <2>2, LeavesType DEF PruneBound
    <3>2. PruneTyped'
      BY <1>0, <1>4, <2>2 DEF PruneBound, PruneTyped
    <3>3. lock' \in Writer \cup {Nobody}
      BY <1>0, <1>4, <1>a, <2>2, ReleaseType DEF PruneBound
    <3> QED BY <1>4, <3>1, <3>2, <3>3, PruneStepTyped DEF PruneBound
  <2> QED BY <1>4, <2>1, <2>2 DEF PruneBound
<1>5. CASE PruneBatch(p)
  <2>1. PICK last \in Batch(prune[p].bound) :
           /\ checkpoints' = checkpoints \cup {[through |-> last,
                                                anchor |-> ledger[last].hash,
                                                cutoff |-> prune[p].cutoff]}
           /\ ledger' = [i \in Kept(last) |-> ledger[i]]
           /\ LET n == Cardinality(Ids \ Kept(last))
              IN  /\ prune' = [prune EXCEPT ![p] = [cutoff |-> prune[p].cutoff, bound |-> 0,
                                                    batches |-> prune[p].batches + 1,
                                                    deleted |-> prune[p].deleted + n]]
                  /\ IF n < BatchSize THEN Leaves(p, prune[p].deleted + n)
                                      ELSE Goes(p, "draining")
    BY <1>5 DEF PruneBatch
  <2> DEFINE n == Cardinality(Ids \ Kept(last))
  <2>2. n \in Nat
    <3>1. IsFiniteSet(1 .. (nextId - 1))
      BY <1>a, FS_Interval
    <3>2. IsFiniteSet(Ids \ Kept(last))
      BY <1>a, <3>1, FS_Subset
    <3> QED BY <3>2, FS_CardinalityType
  <2>3. Ids' = Kept(last) /\ Kept(last) \subseteq Ids /\ \A i \in Ids' : ledger'[i] = ledger[i]
    BY <2>1 DEF Ids, Kept
  <2>4. UNCHANGED <<nextId, accounts, undone, clock, check>> /\ Release(p)
    BY <1>5 DEF PruneBatch
  <2>5. RowsTyped'
    BY <1>0, <2>3, <2>4 DEF RowsTyped, Row
  <2>6. last \in 1 .. (nextId - 1)
    BY <1>a DEF Batch
  <2>7. CheckpointsTyped' /\ ScalarsTyped' /\ CheckTyped'
    BY <1>0, <1>a, <1>b, <2>1, <2>4, <2>6, ReleaseType
    DEF CheckpointsTyped, ScalarsTyped, CheckTyped
  <2>8. PlacesTyped'
    <3>1. CASE n < BatchSize
      BY <1>a, <2>1, <2>4, <3>1, LeavesType
    <3>2. CASE ~(n < BatchSize)
      BY <1>a, <2>1, <2>4, <3>2, GoesType DEF PlacesTyped, Phases
    <3> QED BY <3>1, <3>2
  <2>9. PruneTyped'
    BY <1>0, <1>b, <2>1, <2>2 DEF PruneTyped
  <2> QED BY <2>5, <2>7, <2>8, <2>9, TypeParts
<1>6. CASE PruneNothing(p)
  <2>1. PlacesTyped'
    BY <1>6, <1>a, LeavesType DEF PruneNothing
  <2>2. PruneTyped'
    BY <1>0, <1>6 DEF PruneNothing, PruneTyped
  <2> QED BY <1>0, <1>6, <1>a, <2>1, <2>2, PruneStepTyped, ReleaseType DEF PruneNothing
<1>7. CASE PruneFails(p)
  <2>1. PlacesTyped'
    <3>1. CASE Leaves(p, prune[p].deleted)
      BY <1>7, <1>a, <3>1, LeavesType DEF PruneFails
    <3>2. CASE Goes(p, "done")
      BY <1>7, <1>a, <3>2, GoesType DEF PruneFails, PlacesTyped, Phases
    <3> QED BY <1>7, <3>1, <3>2 DEF PruneFails
  <2>2. PruneTyped'
    BY <1>0, <1>7 DEF PruneFails, PruneTyped
  <2> QED BY <1>0, <1>7, <1>a, <2>1, <2>2, PruneStepTyped, ReleaseType DEF PruneFails
<1> QED BY <1>1, <1>2, <1>3, <1>4, <1>5, <1>6, <1>7 DEF Prunes
LEMMA LatestIs ==
    ASSUME TypeOK, checkpoints # {}
    PROVE  /\ Latest(checkpoints) \in checkpoints
           /\ \A d \in checkpoints : d.through <= Latest(checkpoints).through
<1> DEFINE S == {c.through : c \in checkpoints}
<1>1. S \in SUBSET (1 .. (nextId - 1)) /\ S # {} /\ nextId - 1 \in Nat
  BY TypeParts DEF CheckpointsTyped, ScalarsTyped
<1>2. \E i \in S : IsLast(i, S)
  <2> HIDE DEF S
  <2> QED BY <1>1, HasLast
<1>3. \E c \in checkpoints : \A d \in checkpoints : d.through <= c.through
  BY <1>2 DEF IsLast
<1> QED BY <1>3, Zenon DEF Latest

LEMMA PrunedThroughNat == ASSUME TypeOK PROVE PrunedThrough(checkpoints) \in Nat
<1>1. CASE checkpoints = {}
  BY <1>1 DEF PrunedThrough
<1>2. CASE checkpoints # {}
  <2>1. Latest(checkpoints) \in checkpoints
    BY <1>2, LatestIs
  <2>2. Latest(checkpoints).through \in Nat
    BY <2>1, TypeParts DEF CheckpointsTyped, ScalarsTyped
  <2> QED BY <1>2, <2>2 DEF PrunedThrough
<1> QED BY <1>1, <1>2

LEMMA OthersTyped ==
    ASSUME TypeOK,
           \/ \E c \in Change : Commit(c) \/ RollBack(c)
           \/ StartCheck \/ CheckPage
           \/ \E u \in User : DeleteAccount(u)
           \/ Tick
    PROVE  TypeOK'
<1> USE DEF tables
<1>0. /\ RowsTyped /\ PlacesTyped /\ CheckpointsTyped
      /\ ScalarsTyped /\ PruneTyped /\ CheckTyped
  BY TypeParts
<1>a. nextId \in Nat \ {0} /\ clock \in Nat /\ Ids \subseteq 1 .. (nextId - 1)
  BY <1>0, LedgerAssumption DEF ScalarsTyped, RowsTyped
<1>c. Ids \subseteq Nat
  BY <1>a
<1>1. ASSUME NEW c \in Change, Commit(c) \/ RollBack(c) PROVE TypeOK'
  <2>1. PlacesTyped'
    BY <1>1, GoesType DEF Commit, RollBack, AfterRollBack, PlacesTyped, Phases, Writer
  <2>2. RowsTyped'
    BY <1>0, <1>1 DEF RowsTyped, Row, Ids, Commit, RollBack
  <2>3. CheckpointsTyped' /\ ScalarsTyped'
    BY <1>0, <1>1 DEF CheckpointsTyped, ScalarsTyped, Commit, RollBack
  <2>4. PruneTyped' /\ CheckTyped'
    BY <1>0, <1>1 DEF PruneTyped, CheckTyped, Commit, RollBack
  <2> QED BY <2>1, <2>2, <2>3, <2>4, TypeParts
<1>2. ASSUME UNCHANGED <<tables, accounts, undone, clock, work, prune>>, CheckTyped'
      PROVE  TypeOK'
  <2>1. RowsTyped' /\ PlacesTyped'
    BY <1>0, <1>2 DEF RowsTyped, Row, Ids, PlacesTyped, Placed
  <2>2. CheckpointsTyped' /\ ScalarsTyped' /\ PruneTyped'
    BY <1>0, <1>2 DEF CheckpointsTyped, ScalarsTyped, PruneTyped
  <2> QED BY <1>2, <2>1, <2>2, TypeParts
<1>3. CASE StartCheck
  <2>1. PrunedThrough(checkpoints) \in Nat
    BY PrunedThroughNat
  <2>2. CheckTyped'
    BY <1>3, <1>a, <2>1 DEF StartCheck, CheckTyped, Verdicts, Ids
  <2> QED BY <1>2, <1>3, <2>2 DEF StartCheck
<1>4. CASE CheckPage
  <2> DEFINE page == Page(Seen, check.after)
             total == check.total + Cardinality(page)
  <2>a. page \subseteq DOMAIN check.rows /\ page \subseteq 1 .. (nextId - 1)
    BY <1>0 DEF Page, Seen, CheckTyped
  <2>b. Cardinality(page) \in Nat
    <3>1. IsFiniteSet(1 .. (nextId - 1))
      BY <1>a, FS_Interval
    <3>2. IsFiniteSet(page)
      BY <2>a, <3>1, FS_Subset
    <3> QED BY <3>2, FS_CardinalityType
  <2>c. total \in Nat /\ check.total \in Nat
    BY <1>0, <2>b DEF CheckTyped
  <2>d. ASSUME NEW v \in Verdicts, NEW t \in Nat, Concludes(v, t) PROVE CheckTyped'
    BY <1>0, <1>4, <2>d DEF Concludes, CheckTyped, NotBegun, CheckPage
  <2>e. ASSUME NEW last \in page,
               check' = [phase |-> "walking", rows |-> check.rows,
                         prev |-> Seen[last].hash, after |-> last,
                         total |-> total, verdict |-> "none"]
        PROVE  CheckTyped'
    <3>1. last \in Nat
      BY <1>a, <2>a
    <3> HIDE DEF page, total
    <3> QED BY <1>0, <1>4, <2>c, <2>e, <3>1 DEF CheckTyped, Verdicts, CheckPage
  <2>1. CheckTyped'
    <3>1. CASE page = {} /\ Concludes(IF check.total = 0 THEN "empty" ELSE "intact",
                                      check.total)
      BY <2>c, <2>d, <3>1 DEF Verdicts
    <3>2. CASE Concludes("compromised", total) \/ Concludes("partial", total)
      BY <2>c, <2>d, <3>2 DEF Verdicts
    <3>3. CASE \E last \in page :
                 check' = [phase |-> "walking", rows |-> check.rows,
                           prev |-> Seen[last].hash, after |-> last,
                           total |-> total, verdict |-> "none"]
      BY <2>e, <3>3
    <3> QED BY <1>4, <3>1, <3>2, <3>3 DEF CheckPage
  <2> QED BY <1>2, <1>4, <2>1 DEF CheckPage
<1>5. ASSUME NEW u \in User, DeleteAccount(u) PROVE TypeOK'
  <2>1. Ids' = Ids
    BY <1>5 DEF DeleteAccount, Ids
  <2>2. \A i \in Ids : Row(ledger'[i], clock')
    BY <1>0, <1>5 DEF DeleteAccount, RowsTyped, Row
  <2>3. RowsTyped'
    BY <1>0, <1>5, <2>1, <2>2 DEF RowsTyped, DeleteAccount
  <2>4. PlacesTyped'
    BY <1>0, <1>5 DEF PlacesTyped, Placed, DeleteAccount
  <2>5. CheckpointsTyped' /\ ScalarsTyped'
    BY <1>0, <1>5 DEF CheckpointsTyped, ScalarsTyped, DeleteAccount
  <2>6. PruneTyped' /\ CheckTyped'
    BY <1>0, <1>5 DEF PruneTyped, CheckTyped, DeleteAccount
  <2> QED BY <2>3, <2>4, <2>5, <2>6, TypeParts
<1>6. CASE Tick
  <2>1. RowsTyped' /\ PlacesTyped'
    BY <1>0, <1>6, <1>a DEF RowsTyped, Row, Ids, PlacesTyped, Placed, Tick
  <2>2. CheckpointsTyped' /\ ScalarsTyped'
    BY <1>0, <1>6, LedgerAssumption DEF CheckpointsTyped, ScalarsTyped, Tick
  <2>3. PruneTyped' /\ CheckTyped'
    BY <1>0, <1>6 DEF PruneTyped, CheckTyped, Tick
  <2> QED BY <2>1, <2>2, <2>3, TypeParts
<1> QED BY <1>1, <1>3, <1>4, <1>5, <1>6
LEMMA TypeKept == ASSUME TypeOK, [Next]_vars PROVE TypeOK'
<1>1. CASE UNCHANGED vars
  BY <1>1 DEF vars, tables, TypeOK, Ids, Row
<1>2. ASSUME NEW w \in Writer, Appends(w) PROVE TypeOK'
  BY <1>2, AppendsTyped
<1>3. ASSUME NEW p \in Pruner, Prunes(p) PROVE TypeOK'
  BY <1>3, PrunesTyped
<1>4. ASSUME \/ \E c \in Change : Commit(c) \/ RollBack(c)
             \/ StartCheck \/ CheckPage
             \/ \E u \in User : DeleteAccount(u)
             \/ Tick
      PROVE  TypeOK'
  BY <1>4, OthersTyped
<1> QED BY <1>1, <1>2, <1>3, <1>4 DEF Next

\* The tables, the writers' places, the runs of the retention job and the
\* verification always have the types TypeOK gives them.
THEOREM Typing == Spec => []TypeOK
BY InitTyped, TypeKept, PTL DEF Spec

-----------------------------------------------------------------------------
(* The inductive invariant                                                   *)

\* A writer inside its transaction holds the lock, so no two are.
Locked == \A w \in Writer : work[w].phase \in Holding => lock = w

\* Every row was hashed with its author, and has lost it only with the account.
Genuine(rows) ==
    \A i \in DOMAIN rows :
      /\ rows[i].what \in Writer
      /\ rows[i].hash = EntryHash(i, By(rows[i].what), rows[i].at, rows[i].what, rows[i].prev)
      /\ rows[i].user # By(rows[i].what) => By(rows[i].what) \notin accounts \cup {System}

LinkedRows(rows) ==
    \A i, j \in DOMAIN rows : Follows(i, j, DOMAIN rows) => rows[i].prev = rows[j].hash

StartsAt(rows, prev) == \A i \in DOMAIN rows : IsFirst(i, DOMAIN rows) => rows[i].prev = prev

\* What an append has read is still the end of the chain.
Current ==
    \A w \in Writer :
      /\ work[w].phase \in {"read", "inserted"} =>
           /\ Ids = {} => work[w].prev = Anchor(checkpoints)
           /\ \A i \in Ids : IsLast(i, Ids) => work[w].prev = ledger[i].hash
      /\ work[w].phase = "inserted" => /\ \A i \in Ids : i < work[w].id
                                       /\ By(w) \in accounts \cup {System}

\* Checkpoints lie before the rows, and a ledger that was pruned is not empty.
Anchored ==
    /\ checkpoints # {} => Ids # {}
    /\ \A c \in checkpoints, i \in Ids : c.through < i
    /\ \A c, d \in checkpoints : c.through = d.through => c = d

\* What a run of the job has chosen to delete is old.
Bounded ==
    \A p \in Pruner :
      /\ work[p].phase \in {"draining", "choosing", "bounded"} =>
           prune[p].cutoff <= clock - Shortest
      /\ work[p].phase = "bounded" =>
           /\ prune[p].bound \in Ids
           /\ \A i \in Ids : i < prune[p].bound => ledger[i].at < prune[p].cutoff

\* A writer appends once, at its end, and not when it was rolled back.
Once ==
    /\ \A i \in Ids : work[ledger[i].what].phase = "done" /\ ledger[i].what \notin undone
    /\ \A i, j \in Ids : ledger[i].what = ledger[j].what => i = j
    /\ \A c \in undone : work[c].phase = "done"

\* The walk stands behind a row of the snapshot, or before its first.
Walked ==
    check.phase = "walking" =>
      /\ Genuine(check.rows)
      /\ LinkedRows(check.rows)
      /\ \/ check.after \in DOMAIN check.rows /\ check.prev = check.rows[check.after].hash
         \/ /\ \A i \in DOMAIN check.rows : check.after < i
            /\ StartsAt(check.rows, check.prev)
      /\ check.total = Cardinality({k \in DOMAIN check.rows : k <= check.after})
      /\ check.verdict = "none"

IInv ==
    /\ TypeOK
    /\ Locked
    /\ Genuine(ledger)
    /\ LinkedRows(ledger)
    /\ StartsAt(ledger, Anchor(checkpoints))
    /\ Current
    /\ Anchored
    /\ Bounded
    /\ Once
    /\ Walked
    /\ CompromisedByDeletionOnly
    /\ IntactIsComplete
-----------------------------------------------------------------------------
(* The lock                                                                  *)

LEMMA LockedBy ==
    ASSUME TypeOK, Locked, NEW w \in Writer, NEW r, Places(w, r),
           \/ r.phase \notin Holding /\ (Release(w) \/ UNCHANGED lock)
           \/ lock = Nobody /\ lock' = w
           \/ work[w].phase \in Holding /\ UNCHANGED lock
    PROVE  Locked'
<1>1. DOMAIN work' = Writer /\ work'[w] = r /\ \A v \in Writer : v # w => work'[v] = work[v]
  BY PlacesAt DEF TypeOK
<1>2. ASSUME NEW v \in Writer, v # w, work'[v].phase \in Holding PROVE lock' = v
  <2>1. lock = v
    BY <1>1, <1>2 DEF Locked
  <2> QED BY <1>2, <2>1, LedgerAssumption DEF Release
<1>3. ASSUME work'[w].phase \in Holding PROVE lock' = w
  BY <1>1, <1>3 DEF Locked
<1> QED BY <1>2, <1>3 DEF Locked

LEMMA GoesIsPlaces ==
    \A w, phase : Goes(w, phase) => Places(w, NoRow(phase)) /\ NoRow(phase).phase = phase
BY DEF Goes, Places, NoRow

LEMMA LockedStep == ASSUME TypeOK, Locked, [Next]_vars PROVE Locked'
<1> USE DEF tables
<1>1. CASE UNCHANGED vars
  BY <1>1 DEF vars, Locked
<1>2. ASSUME UNCHANGED <<work, lock>> PROVE Locked'
  BY <1>2 DEF Locked
<1>3. ASSUME NEW c \in Change, Commit(c) \/ RollBack(c) PROVE Locked'
  <2>1. PICK phase \in {"due", "done"} : Goes(c, phase) /\ UNCHANGED lock
    BY <1>3 DEF Commit, RollBack, AfterRollBack
  <2>2. c \in Writer /\ phase \notin Holding
    BY <2>1 DEF Writer, Holding
  <2> QED BY <2>1, <2>2, GoesIsPlaces, LockedBy
<1>4. ASSUME NEW w \in Writer, Appends(w) PROVE Locked'
  <2>1. CASE BeginAppend(w)
    <3> DEFINE r == [NoRow("waiting") EXCEPT !.at = clock]
    <3>1. Places(w, r) /\ r.phase = "waiting" /\ UNCHANGED lock
      BY <2>1 DEF BeginAppend, Places, NoRow
    <3> QED BY <3>1, LockedBy DEF Holding
  <2>2. CASE NoAppend(w) \/ CommitAppend(w) \/ AppendFails(w)
    <3>1. Goes(w, "done") /\ (Release(w) \/ UNCHANGED lock) /\ "done" \notin Holding
      BY <2>2 DEF NoAppend, CommitAppend, AppendFails, Holding
    <3> QED BY <3>1, GoesIsPlaces, LockedBy
  <2>3. CASE TakeLock(w)
    <3> DEFINE r == [NoRow("locked") EXCEPT !.at = work[w].at]
    <3>1. Places(w, r) /\ lock = Nobody /\ lock' = w
      BY <2>3 DEF TakeLock, LockIsFree, Places
    <3> QED BY <3>1, LockedBy
  <2>4. CASE ReadLast(w)
    <3> DEFINE r == [phase |-> "read", at |-> work[w].at, prev |-> LastHash, id |-> 0]
    <3>1. Places(w, r) /\ work[w].phase \in Holding /\ UNCHANGED lock
      BY <2>4 DEF ReadLast, Places, Holding
    <3> QED BY <3>1, LockedBy
  <2>5. CASE Insert(w)
    <3> DEFINE r == [phase |-> "inserted", at |-> work[w].at,
                     prev |-> work[w].prev, id |-> nextId]
    <3>1. Places(w, r) /\ work[w].phase \in Holding /\ UNCHANGED lock
      BY <2>5 DEF Insert, Places, Holding
    <3> QED BY <3>1, LockedBy
  <2> QED BY <1>4, <2>1, <2>2, <2>3, <2>4, <2>5 DEF Appends
<1>5. ASSUME NEW p \in Pruner, Prunes(p) PROVE Locked'
  <2>a. p \in Writer
    BY DEF Writer
  <2>b. ASSUME NEW d, Leaves(p, d), Release(p) \/ UNCHANGED lock PROVE Locked'
    <3>1. PICK phase \in {"due", "done"} : Goes(p, phase)
      BY <2>b DEF Leaves
    <3>2. phase \notin Holding
      BY <3>1 DEF Holding
    <3> QED BY <2>a, <2>b, <3>1, <3>2, GoesIsPlaces, LockedBy
  <2>c. ASSUME NEW phase \in {"draining", "done"}, Goes(p, phase),
               Release(p) \/ UNCHANGED lock
        PROVE  Locked'
    <3>1. phase \notin Holding
      BY DEF Holding
    <3> QED BY <2>a, <2>c, <3>1, GoesIsPlaces, LockedBy
  <2>1. CASE StartPrune(p)
    BY <2>1, <2>c DEF StartPrune
  <2>2. CASE PruneLock(p)
    <3>1. Goes(p, "choosing") /\ lock = Nobody /\ lock' = p
      BY <2>2 DEF PruneLock, LockIsFree
    <3> QED BY <2>a, <3>1, GoesIsPlaces, LockedBy
  <2>3. CASE PruneCapped(p) \/ PruneNothing(p)
    BY <2>3, <2>b DEF PruneCapped, PruneNothing
  <2>4. CASE PruneBound(p)
    <3>1. CASE Goes(p, "bounded") /\ UNCHANGED lock
      <4>1. work[p].phase \in Holding
        BY <2>4 DEF PruneBound, Holding
      <4> QED BY <2>a, <3>1, <4>1, GoesIsPlaces, LockedBy
    <3>2. CASE Release(p) /\ Leaves(p, prune[p].deleted)
      BY <2>b, <3>2
    <3> QED BY <2>4, <3>1, <3>2 DEF PruneBound
  <2>5. CASE PruneBatch(p)
    <3>1. Release(p) /\ \E d : Leaves(p, d) \/ Goes(p, "draining")
      BY <2>5 DEF PruneBatch
    <3> QED BY <2>b, <2>c, <3>1
  <2>6. CASE PruneFails(p)
    BY <2>6, <2>b, <2>c DEF PruneFails
  <2> QED BY <1>5, <2>1, <2>2, <2>3, <2>4, <2>5, <2>6 DEF Prunes
<1>6. CASE StartCheck \/ CheckPage \/ (\E u \in User : DeleteAccount(u)) \/ Tick
  BY <1>2, <1>6 DEF StartCheck, CheckPage, DeleteAccount, Tick
<1> QED BY <1>1, <1>3, <1>4, <1>5, <1>6 DEF Next
-----------------------------------------------------------------------------
(* The chain                                                                 *)

LEMMA IdFacts ==
    ASSUME TypeOK
    PROVE  /\ \A i \in Ids : i \in Nat
           /\ Ids \in SUBSET (1 .. (nextId - 1)) /\ nextId - 1 \in Nat
           /\ \A i \in Ids : ledger[i].at \in Nat
           /\ clock \in Nat
           /\ \A c \in checkpoints : c.through \in Nat
BY TypeParts, LedgerAssumption DEF RowsTyped, Row, ScalarsTyped, CheckpointsTyped

\* The ledger changes by an appended row, a prune or a deleted account.
LEMMA LedgerStep ==
    ASSUME [Next]_vars
    PROVE  \/ UNCHANGED <<ledger, checkpoints>>
           \/ \E w \in Writer : CommitAppend(w)
           \/ \E p \in Pruner : PruneBatch(p)
           \/ \E u \in User : DeleteAccount(u)
<1> USE DEF tables
<1>1. CASE UNCHANGED vars
  BY <1>1 DEF vars
<1>2. ASSUME NEW c \in Change, Commit(c) \/ RollBack(c) PROVE UNCHANGED <<ledger, checkpoints>>
  BY <1>2 DEF Commit, RollBack
<1>3. ASSUME NEW w \in Writer, Appends(w), ~CommitAppend(w)
      PROVE  UNCHANGED <<ledger, checkpoints>>
  BY <1>3 DEF Appends, BeginAppend, NoAppend, TakeLock, ReadLast, Insert, AppendFails
<1>4. ASSUME NEW p \in Pruner, Prunes(p), ~PruneBatch(p)
      PROVE  UNCHANGED <<ledger, checkpoints>>
  BY <1>4 DEF Prunes, StartPrune, PruneLock, PruneCapped, PruneBound, PruneNothing, PruneFails
<1>5. ASSUME StartCheck \/ CheckPage \/ Tick PROVE UNCHANGED <<ledger, checkpoints>>
  BY <1>5 DEF StartCheck, CheckPage, Tick
<1> QED BY <1>1, <1>2, <1>3, <1>4, <1>5 DEF Next

LEMMA CommitAppendIs ==
    ASSUME TypeOK, Current, NEW w \in Writer, CommitAppend(w)
    PROVE  LET n == work[w].id
           IN  /\ n \in Nat /\ n \notin Ids /\ \A i \in Ids : i < n
               /\ Ids' = Ids \cup {n}
               /\ ledger'[n] = RowOf(w)
               /\ \A i \in Ids : ledger'[i] = ledger[i]
               /\ UNCHANGED <<checkpoints, accounts, undone, clock, prune, check>>
<1> DEFINE n == work[w].id
<1>1. n \in Nat /\ \A i \in Ids : i < n
  BY TypeParts DEF PlacesTyped, Placed, ScalarsTyped, Current, CommitAppend
<1>2. n \notin Ids
  BY <1>1
<1>3. Ids' = Ids \cup {n} /\ \A i \in Ids' : ledger'[i] = IF i = n THEN RowOf(w) ELSE ledger[i]
  BY DEF CommitAppend, Ids
<1> QED BY <1>1, <1>2, <1>3 DEF CommitAppend

LEMMA PruneBatchIs ==
    ASSUME TypeOK, Bounded, Anchored, NEW p \in Pruner, PruneBatch(p)
    PROVE  \E last \in Ids :
             /\ Ids' = Kept(last) /\ Ids' # {}
             /\ \A i \in Ids' : ledger'[i] = ledger[i]
             /\ \A i \in Ids : i <= last => ledger[i].at < prune[p].cutoff
             /\ prune[p].cutoff <= clock - Shortest
             /\ last < prune[p].bound
             /\ checkpoints' = checkpoints \cup {[through |-> last,
                                                  anchor |-> ledger[last].hash,
                                                  cutoff |-> prune[p].cutoff]}
             /\ Anchor(checkpoints') = ledger[last].hash
             /\ UNCHANGED <<nextId, accounts, undone, clock, check>>
<1>1. PICK last \in Batch(prune[p].bound) :
         /\ TriggerAccepts(last, prune[p].cutoff)
         /\ checkpoints' = checkpoints \cup {[through |-> last,
                                              anchor |-> ledger[last].hash,
                                              cutoff |-> prune[p].cutoff]}
         /\ ledger' = [i \in Kept(last) |-> ledger[i]]
  BY DEF PruneBatch
<1>2. last \in Ids /\ last < prune[p].bound
  BY DEF Batch
<1>3. Ids' = Kept(last) /\ \A i \in Ids' : ledger'[i] = ledger[i]
  BY <1>1 DEF Ids
<1>4. prune[p].bound \in Kept(last)
  BY <1>2, IdFacts DEF Bounded, PruneBatch, Kept
<1>5. Anchor(checkpoints') = ledger[last].hash
  <2> DEFINE new == [through |-> last, anchor |-> ledger[last].hash,
                     cutoff |-> prune[p].cutoff]
  <2>1. \A d \in checkpoints : d.through < last /\ d.through \in Nat
    BY <1>2, IdFacts DEF Anchored
  <2>2. last \in Nat /\ new.through = last /\ new \in checkpoints'
    BY <1>1, <1>2, IdFacts
  <2>3. \A d \in checkpoints' : d.through <= new.through
    BY <1>1, <2>1, <2>2
  <2>4. ASSUME NEW c \in checkpoints', \A d \in checkpoints' : d.through <= c.through
        PROVE  c = new
    <3>1. last <= c.through
      BY <2>2, <2>4
    <3> QED BY <1>1, <2>1, <2>2, <3>1
  <2>5. Latest(checkpoints') = new
    <3> HIDE DEF new
    <3> QED BY <2>2, <2>3, <2>4, Zenon DEF Latest
  <2>6. checkpoints' # {} /\ new.anchor = ledger[last].hash
    BY <2>2
  <2> QED BY <2>5, <2>6 DEF Anchor
<1>6. prune[p].cutoff <= clock - Shortest /\ \A i \in Ids : i <= last => ledger[i].at < prune[p].cutoff
  BY <1>1 DEF TriggerAccepts
<1> QED BY <1>1, <1>2, <1>3, <1>4, <1>5, <1>6 DEF PruneBatch

LEMMA DeleteAccountIs ==
    ASSUME TypeOK, NEW u \in User, DeleteAccount(u)
    PROVE  /\ Ids' = Ids
           /\ \A i \in Ids : /\ ledger'[i].at = ledger[i].at
                             /\ ledger'[i].what = ledger[i].what
                             /\ ledger'[i].prev = ledger[i].prev
                             /\ ledger'[i].hash = ledger[i].hash
                             /\ ledger'[i].user = IF ledger[i].user = u THEN System
                                                                   ELSE ledger[i].user
           /\ accounts' = accounts \ {u}
           /\ UNCHANGED <<checkpoints, nextId, lock, undone, clock, work, prune, check>>
<1>1. ASSUME NEW i \in Ids
      PROVE  /\ ledger'[i].at = ledger[i].at
             /\ ledger'[i].what = ledger[i].what
             /\ ledger'[i].prev = ledger[i].prev
             /\ ledger'[i].hash = ledger[i].hash
             /\ ledger'[i].user = IF ledger[i].user = u THEN System ELSE ledger[i].user
  <2>1. ledger'[i] = IF ledger[i].user = u
                     THEN [user |-> System, at |-> ledger[i].at, what |-> ledger[i].what,
                           prev |-> ledger[i].prev, hash |-> ledger[i].hash]
                     ELSE ledger[i]
    BY <1>1 DEF DeleteAccount
  <2>2. CASE ledger[i].user = u
    BY <2>1, <2>2
  <2>3. CASE ledger[i].user # u
    BY <2>1, <2>3
  <2> QED BY <2>2, <2>3
<1>2. Ids' = Ids
  BY DEF DeleteAccount, Ids
<1> QED BY <1>1, <1>2 DEF DeleteAccount
\* The links of the rows and the link of the first row to the anchor.
Linked == LinkedRows(ledger) /\ StartsAt(ledger, Anchor(checkpoints))

LEMMA LinkedStep ==
    ASSUME TypeOK, Current, Bounded, Anchored, Linked, [Next]_vars
    PROVE  Linked'
<1>1. CASE UNCHANGED <<ledger, checkpoints>>
  BY <1>1 DEF Linked, LinkedRows, StartsAt
<1>2. ASSUME NEW w \in Writer, CommitAppend(w) PROVE Linked'
  <2> DEFINE n == work[w].id
  <2>1. /\ n \in Nat /\ n \notin Ids /\ \A i \in Ids : i < n
        /\ Ids' = Ids \cup {n}
        /\ ledger'[n] = RowOf(w)
        /\ \A i \in Ids : ledger'[i] = ledger[i]
        /\ UNCHANGED checkpoints
    BY <1>2, CommitAppendIs
  <2>2. ledger'[n].prev = work[w].prev
    BY <2>1 DEF RowOf
  <2>3. /\ Ids = {} => work[w].prev = Anchor(checkpoints)
        /\ \A i \in Ids : IsLast(i, Ids) => work[w].prev = ledger[i].hash
    BY <1>2 DEF Current, CommitAppend
  <2>4. \A i \in Ids : i \in Nat
    BY IdFacts
  <2> HIDE DEF n
  <2>5. ASSUME NEW i \in Ids', NEW j \in Ids', Follows(i, j, Ids')
        PROVE  ledger'[i].prev = ledger'[j].hash
    <3>1. j \in Ids /\ j < i
      BY <2>1, <2>4, <2>5 DEF Follows
    <3>2. CASE i = n
      <4>1. IsLast(j, Ids)
        BY <2>1, <2>4, <2>5, <3>1, <3>2 DEF Follows, IsLast
      <4> QED BY <2>1, <2>2, <2>3, <3>1, <3>2, <4>1
    <3>3. CASE i \in Ids
      <4>1. Follows(i, j, Ids)
        BY <2>1, <2>5 DEF Follows
      <4> QED BY <2>1, <3>1, <3>3, <4>1 DEF Linked, LinkedRows, Ids
    <3> QED BY <2>1, <3>2, <3>3
  <2>6. ASSUME NEW i \in Ids', IsFirst(i, Ids') PROVE ledger'[i].prev = Anchor(checkpoints)'
    <3>1. CASE i = n
      <4>1. Ids = {}
        BY <2>1, <2>4, <2>6, <3>1 DEF IsFirst
      <4> QED BY <2>1, <2>2, <2>3, <3>1, <4>1
    <3>2. CASE i \in Ids
      <4>1. IsFirst(i, Ids)
        BY <2>1, <2>6 DEF IsFirst
      <4> QED BY <2>1, <3>2, <4>1 DEF Linked, StartsAt, Ids
    <3> QED BY <2>1, <3>1, <3>2
  <2> QED BY <2>5, <2>6 DEF Linked, LinkedRows, StartsAt, Ids
<1>3. ASSUME NEW p \in Pruner, PruneBatch(p) PROVE Linked'
  <2>1. PICK last \in Ids :
          /\ Ids' = Kept(last)
          /\ \A i \in Ids' : ledger'[i] = ledger[i]
          /\ Anchor(checkpoints') = ledger[last].hash
    BY <1>3, PruneBatchIs
  <2>2. \A i \in Ids : i \in Nat
    BY IdFacts
  <2>3. \A i \in Ids' : i \in Ids /\ last < i
    BY <2>1, <2>2 DEF Kept
  <2>4. ASSUME NEW i \in Ids', NEW j \in Ids', Follows(i, j, Ids')
        PROVE  ledger'[i].prev = ledger'[j].hash
    <3>1. Follows(i, j, Ids)
      BY <2>1, <2>2, <2>3, <2>4 DEF Follows, Kept
    <3> QED BY <2>1, <2>3, <3>1 DEF Linked, LinkedRows, Ids
  <2>5. ASSUME NEW i \in Ids', IsFirst(i, Ids') PROVE ledger'[i].prev = Anchor(checkpoints)'
    <3>1. Follows(i, last, Ids)
      BY <2>1, <2>2, <2>3, <2>5 DEF Follows, IsFirst, Kept
    <3> QED BY <2>1, <2>3, <3>1 DEF Linked, LinkedRows, Ids
  <2> QED BY <2>4, <2>5 DEF Linked, LinkedRows, StartsAt, Ids
<1>4. ASSUME NEW u \in User, DeleteAccount(u) PROVE Linked'
  <2>1. /\ Ids' = Ids
        /\ \A i \in Ids : ledger'[i].prev = ledger[i].prev /\ ledger'[i].hash = ledger[i].hash
        /\ UNCHANGED checkpoints
    BY <1>4, DeleteAccountIs
  <2> QED BY <2>1 DEF Linked, LinkedRows, StartsAt, Ids
<1> QED BY <1>1, <1>2, <1>3, <1>4, LedgerStep

LEMMA AccountsStep == ASSUME [Next]_vars PROVE accounts' \subseteq accounts
<1> USE DEF tables
<1>1. CASE UNCHANGED vars
  BY <1>1 DEF vars
<1>2. ASSUME NEW c \in Change, Commit(c) \/ RollBack(c) PROVE accounts' \subseteq accounts
  BY <1>2 DEF Commit, RollBack
<1>3. ASSUME NEW w \in Writer, Appends(w) PROVE accounts' \subseteq accounts
  BY <1>3 DEF Appends, BeginAppend, NoAppend, TakeLock, ReadLast, Insert, CommitAppend,
              AppendFails
<1>4. ASSUME NEW p \in Pruner, Prunes(p) PROVE accounts' \subseteq accounts
  BY <1>4 DEF Prunes, StartPrune, PruneLock, PruneCapped, PruneBound, PruneBatch,
              PruneNothing, PruneFails
<1>5. ASSUME StartCheck \/ CheckPage \/ Tick PROVE accounts' \subseteq accounts
  BY <1>5 DEF StartCheck, CheckPage, Tick
<1>6. ASSUME NEW u \in User, DeleteAccount(u) PROVE accounts' \subseteq accounts
  BY <1>6 DEF DeleteAccount
<1> QED BY <1>1, <1>2, <1>3, <1>4, <1>5, <1>6 DEF Next

LEMMA GenuineStep ==
    ASSUME TypeOK, Current, Bounded, Anchored, Genuine(ledger), [Next]_vars
    PROVE  Genuine(ledger)'
<1>a. accounts' \subseteq accounts
  BY AccountsStep
<1>1. CASE UNCHANGED <<ledger, checkpoints>>
  BY <1>1, <1>a DEF Genuine
<1>2. ASSUME NEW w \in Writer, CommitAppend(w) PROVE Genuine(ledger)'
  <2> DEFINE n == work[w].id
  <2>1. /\ n \notin Ids
        /\ Ids' = Ids \cup {n}
        /\ ledger'[n] = RowOf(w)
        /\ \A i \in Ids : ledger'[i] = ledger[i]
        /\ UNCHANGED accounts
    BY <1>2, CommitAppendIs
  <2>2. /\ RowOf(w).what = w /\ RowOf(w).user = By(w)
        /\ RowOf(w).hash = EntryHash(n, By(w), RowOf(w).at, w, RowOf(w).prev)
    BY DEF RowOf
  <2> HIDE DEF n
  <2>3. ASSUME NEW i \in Ids'
        PROVE  /\ ledger'[i].what \in Writer
               /\ ledger'[i].hash = EntryHash(i, By(ledger'[i].what), ledger'[i].at,
                                              ledger'[i].what, ledger'[i].prev)
               /\ ledger'[i].user # By(ledger'[i].what) =>
                    By(ledger'[i].what) \notin accounts' \cup {System}
    <3>1. CASE i = n
      BY <2>1, <2>2, <3>1
    <3>2. CASE i \in Ids
      BY <2>1, <3>2 DEF Genuine, Ids
    <3> QED BY <2>1, <3>1, <3>2
  <2> QED BY <2>3 DEF Genuine, Ids, By
<1>3. ASSUME NEW p \in Pruner, PruneBatch(p) PROVE Genuine(ledger)'
  <2>1. PICK last \in Ids : Ids' = Kept(last) /\ \A i \in Ids' : ledger'[i] = ledger[i]
    BY <1>3, PruneBatchIs
  <2> QED BY <1>a, <2>1 DEF Genuine, Ids, Kept
<1>4. ASSUME NEW u \in User, DeleteAccount(u) PROVE Genuine(ledger)'
  <2>1. /\ Ids' = Ids
        /\ \A i \in Ids : /\ ledger'[i].at = ledger[i].at
                          /\ ledger'[i].what = ledger[i].what
                          /\ ledger'[i].prev = ledger[i].prev
                          /\ ledger'[i].hash = ledger[i].hash
                          /\ ledger'[i].user = IF ledger[i].user = u THEN System
                                                                ELSE ledger[i].user
        /\ accounts' = accounts \ {u}
    BY <1>4, DeleteAccountIs
  <2>2. ASSUME NEW i \in Ids, ledger'[i].user # By(ledger[i].what)
        PROVE  By(ledger[i].what) \notin accounts' \cup {System}
    <3>1. CASE ledger[i].user = By(ledger[i].what)
      <4>1. ledger[i].user = u
        BY <2>1, <2>2, <3>1
      <4> QED BY <2>1, <3>1, <4>1, LedgerAssumption
    <3>2. CASE ledger[i].user # By(ledger[i].what)
      BY <1>a, <3>2 DEF Genuine, Ids
    <3> QED BY <3>1, <3>2
  <2> QED BY <2>1, <2>2 DEF Genuine, Ids
<1> QED BY <1>1, <1>2, <1>3, <1>4, LedgerStep
LEMMA AnchoredStep ==
    ASSUME TypeOK, Current, Bounded, Anchored, [Next]_vars
    PROVE  Anchored'
<1>a. \A i \in Ids : i \in Nat
  BY IdFacts
<1>b. \A c \in checkpoints : c.through \in Nat
  BY IdFacts
<1>1. CASE UNCHANGED <<ledger, checkpoints>>
  BY <1>1 DEF Anchored, Ids
<1>2. ASSUME NEW w \in Writer, CommitAppend(w) PROVE Anchored'
  <2> DEFINE n == work[w].id
  <2>1. /\ n \in Nat /\ \A i \in Ids : i < n
        /\ Ids' = Ids \cup {n}
        /\ UNCHANGED checkpoints
    BY <1>2, CommitAppendIs
  <2> HIDE DEF n
  <2>2. ASSUME NEW c \in checkpoints PROVE c.through < n
    <3>1. PICK i \in Ids : TRUE
      BY <2>2 DEF Anchored
    <3>2. c.through < i /\ i < n
      BY <2>1, <2>2, <3>1 DEF Anchored
    <3> QED BY <1>a, <1>b, <2>1, <2>2, <3>1, <3>2
  <2> QED BY <2>1, <2>2 DEF Anchored
<1>3. ASSUME NEW p \in Pruner, PruneBatch(p) PROVE Anchored'
  <2>1. PICK last \in Ids :
          /\ Ids' = Kept(last) /\ Ids' # {}
          /\ checkpoints' = checkpoints \cup {[through |-> last,
                                               anchor |-> ledger[last].hash,
                                               cutoff |-> prune[p].cutoff]}
    BY <1>3, PruneBatchIs
  <2>2. \A c \in checkpoints : c.through < last /\ c.through \in Nat /\ last \in Nat
    BY <1>a, <1>b, <2>1 DEF Anchored
  <2>3. \A c \in checkpoints', i \in Ids' : c.through < i
    BY <1>a, <2>1 DEF Anchored, Kept
  <2>4. \A c, d \in checkpoints' : c.through = d.through => c = d
    BY <2>1, <2>2 DEF Anchored
  <2> QED BY <2>1, <2>3, <2>4 DEF Anchored
<1>4. ASSUME NEW u \in User, DeleteAccount(u) PROVE Anchored'
  <2>1. Ids' = Ids /\ UNCHANGED checkpoints
    BY <1>4, DeleteAccountIs
  <2> QED BY <2>1 DEF Anchored
<1> QED BY <1>1, <1>2, <1>3, <1>4, LedgerStep

-----------------------------------------------------------------------------
(* Who acts                                                                  *)

Acts(v) ==
    \/ v \in Change /\ (Commit(v) \/ RollBack(v))
    \/ Appends(v)
    \/ v \in Pruner /\ Prunes(v)

LEMMA ActsAlone ==
    ASSUME TypeOK, NEW w \in Writer, Acts(w), NEW v \in Writer, v # w
    PROVE  work'[v] = work[v] /\ (v \in Pruner => prune'[v] = prune[v])
<1> USE DEF tables
<1>a. ASSUME NEW r, Places(w, r) PROVE work'[v] = work[v]
  BY <1>a, PlacesAt DEF TypeOK
<1>b. ASSUME NEW phase, Goes(w, phase) PROVE work'[v] = work[v]
  BY <1>a, <1>b, GoesIsPlaces
<1>c. ASSUME NEW d, Leaves(w, d) PROVE work'[v] = work[v]
  BY <1>b, <1>c DEF Leaves
<1>d. UNCHANGED prune => (v \in Pruner => prune'[v] = prune[v])
  OBVIOUS
<1>e. ASSUME NEW r, prune' = [prune EXCEPT ![w] = r], v \in Pruner PROVE prune'[v] = prune[v]
  BY <1>e, TypeParts DEF PruneTyped
<1>1. CASE w \in Change /\ (Commit(w) \/ RollBack(w))
  BY <1>1, <1>b DEF Commit, RollBack
<1>2. CASE Appends(w)
  <2>1. CASE BeginAppend(w) \/ TakeLock(w) \/ ReadLast(w) \/ Insert(w)
    <3>1. (\E r : Places(w, r)) /\ UNCHANGED prune
      BY <2>1 DEF BeginAppend, TakeLock, ReadLast, Insert, Places
    <3> QED BY <1>a, <3>1
  <2>2. CASE NoAppend(w) \/ CommitAppend(w) \/ AppendFails(w)
    BY <1>b, <2>2 DEF NoAppend, CommitAppend, AppendFails
  <2> QED BY <1>2, <2>1, <2>2 DEF Appends
<1>3. CASE w \in Pruner /\ Prunes(w)
  <2>1. CASE StartPrune(w) \/ PruneBound(w) \/ PruneBatch(w)
    <3>1. /\ UNCHANGED prune \/ \E r : prune' = [prune EXCEPT ![w] = r]
          /\ (\E phase : Goes(w, phase)) \/ (\E d : Leaves(w, d))
      BY <2>1 DEF StartPrune, PruneBound, PruneBatch
    <3> QED BY <1>b, <1>c, <1>d, <1>e, <3>1
  <2>2. CASE PruneLock(w) \/ PruneCapped(w) \/ PruneNothing(w) \/ PruneFails(w)
    BY <1>b, <1>c, <2>2 DEF PruneLock, PruneCapped, PruneNothing, PruneFails
  <2> QED BY <1>3, <2>1, <2>2 DEF Prunes
<1> QED BY <1>1, <1>2, <1>3 DEF Acts

\* In a step a writer acts, or stays where it is.
LEMMA ActsOrStays ==
    ASSUME TypeOK, [Next]_vars, NEW v \in Writer
    PROVE  Acts(v) \/ (work'[v] = work[v] /\ (v \in Pruner => prune'[v] = prune[v]))
<1> USE DEF tables
<1>1. CASE UNCHANGED vars
  BY <1>1 DEF vars
<1>2. ASSUME NEW c \in Change, Commit(c) \/ RollBack(c)
      PROVE  Acts(v) \/ (work'[v] = work[v] /\ (v \in Pruner => prune'[v] = prune[v]))
  BY <1>2, ActsAlone DEF Acts, Writer
<1>3. ASSUME NEW w \in Writer, Appends(w)
      PROVE  Acts(v) \/ (work'[v] = work[v] /\ (v \in Pruner => prune'[v] = prune[v]))
  BY <1>3, ActsAlone DEF Acts
<1>4. ASSUME NEW p \in Pruner, Prunes(p)
      PROVE  Acts(v) \/ (work'[v] = work[v] /\ (v \in Pruner => prune'[v] = prune[v]))
  BY <1>4, ActsAlone DEF Acts, Writer
<1>5. ASSUME StartCheck \/ CheckPage \/ Tick \/ \E u \in User : DeleteAccount(u)
      PROVE  work' = work /\ prune' = prune
  BY <1>5 DEF StartCheck, CheckPage, Tick, DeleteAccount
<1> QED BY <1>1, <1>2, <1>3, <1>4, <1>5 DEF Next
\* The phase a writer that acts is left in.
LEMMA ActsTo ==
    ASSUME TypeOK, NEW v \in Writer, Acts(v)
    PROVE  /\ work[v].phase # "done"
           /\ ReadLast(v) \/ Insert(v) \/ work'[v].phase \notin {"read", "inserted"}
           /\ \/ v \in Pruner /\ (StartPrune(v) \/ PruneLock(v) \/ PruneBound(v) \/ PruneBatch(v))
              \/ work'[v].phase \notin {"draining", "choosing", "bounded"}
<1>a. DOMAIN work = Writer
  BY DEF TypeOK
<1>b. ASSUME NEW r, Places(v, r) PROVE work'[v] = r
  BY <1>a, <1>b, PlacesAt
<1>c. ASSUME NEW phase, Goes(v, phase) PROVE work'[v].phase = phase
  <2>1. Places(v, NoRow(phase)) /\ NoRow(phase).phase = phase
    BY <1>c, GoesIsPlaces
  <2> QED BY <1>b, <2>1
<1>d. ASSUME NEW d, Leaves(v, d) PROVE work'[v].phase \in {"due", "done"}
  BY <1>c, <1>d DEF Leaves
<1>1. CASE v \in Change /\ (Commit(v) \/ RollBack(v))
  <2>1. work'[v].phase \in {"due", "done"} /\ work[v].phase = "open"
    BY <1>1, <1>c DEF Commit, RollBack, AfterRollBack
  <2> QED BY <2>1
<1>2. CASE Appends(v)
  <2>1. CASE BeginAppend(v)
    <3>1. work'[v].phase = "waiting" /\ work[v].phase = "due"
      BY <1>b, <2>1 DEF BeginAppend, Places, NoRow
    <3> QED BY <3>1
  <2>2. CASE TakeLock(v)
    <3>1. work'[v].phase = "locked" /\ work[v].phase = "waiting"
      BY <1>b, <2>2 DEF TakeLock, Places, NoRow
    <3> QED BY <3>1
  <2>3. CASE ReadLast(v) \/ Insert(v)
    <3>1. work'[v].phase \in {"read", "inserted"} /\ work[v].phase \in {"locked", "read"}
      BY <1>b, <2>3 DEF ReadLast, Insert, Places
    <3> QED BY <2>3, <3>1
  <2>4. CASE NoAppend(v) \/ CommitAppend(v) \/ AppendFails(v)
    <3>1. work'[v].phase = "done" /\ work[v].phase # "done"
      BY <1>c, <2>4 DEF NoAppend, CommitAppend, AppendFails
    <3> QED BY <3>1
  <2> QED BY <1>2, <2>1, <2>2, <2>3, <2>4 DEF Appends
<1>3. CASE v \in Pruner /\ Prunes(v)
  <2>1. CASE StartPrune(v)
    <3>1. work'[v].phase = "draining" /\ work[v].phase = "idle"
      BY <1>c, <2>1 DEF StartPrune
    <3> QED BY <1>3, <2>1, <3>1
  <2>2. CASE PruneLock(v)
    <3>1. work'[v].phase = "choosing" /\ work[v].phase = "draining"
      BY <1>c, <2>2 DEF PruneLock
    <3> QED BY <1>3, <2>2, <3>1
  <2>3. CASE PruneBound(v)
    <3>1. work'[v].phase \in {"bounded", "due", "done"} /\ work[v].phase = "choosing"
      BY <1>c, <1>d, <2>3 DEF PruneBound
    <3> QED BY <1>3, <2>3, <3>1
  <2>4. CASE PruneBatch(v)
    <3>1. work'[v].phase \in {"draining", "due", "done"} /\ work[v].phase = "bounded"
      <4>1. (\E d : Leaves(v, d)) \/ Goes(v, "draining")
        BY <2>4 DEF PruneBatch
      <4> QED BY <1>c, <1>d, <2>4, <4>1 DEF PruneBatch
    <3> QED BY <1>3, <2>4, <3>1
  <2>5. CASE PruneCapped(v) \/ PruneNothing(v) \/ PruneFails(v)
    <3>1. work'[v].phase \in {"due", "done"} /\ work[v].phase # "done"
      BY <1>c, <1>d, <2>5 DEF PruneCapped, PruneNothing, PruneFails
    <3> QED BY <3>1
  <2> QED BY <1>3, <2>1, <2>2, <2>3, <2>4, <2>5 DEF Prunes
<1> QED BY <1>1, <1>2, <1>3 DEF Acts

\* While one writer commits its rows, no other is inside its transaction.
LEMMA Alone ==
    ASSUME Locked, NEW w \in Writer, work[w].phase \in Holding,
           NEW v \in Writer, v # w
    PROVE  work[v].phase \notin Holding
BY DEF Locked

\* The prev_hash an append reads is the anchor of an empty ledger, or the hash
\* of its last row.
LEMMA LastHashIs ==
    ASSUME TypeOK, Anchored
    PROVE  /\ Ids = {} => LastHash = Anchor(checkpoints)
           /\ \A i \in Ids : IsLast(i, Ids) => LastHash = ledger[i].hash
<1>1. Ids = {} => LastHash = Anchor(checkpoints)
  BY DEF LastHash, Anchor, Anchored
<1>2. ASSUME NEW i \in Ids, IsLast(i, Ids) PROVE LastHash = ledger[i].hash
  <2>1. \A j \in Ids : IsLast(j, Ids) => j = i
    BY <1>2, IdFacts DEF IsLast
  <2>2. (CHOOSE j \in Ids : IsLast(j, Ids)) = i
    BY <1>2, <2>1, Zenon
  <2> QED BY <1>2, <2>2 DEF LastHash
<1> QED BY <1>1, <1>2

LEMMA CurrentStep ==
    ASSUME TypeOK, Locked, Current, Anchored, Bounded, [Next]_vars
    PROVE  Current'
<1> DEFINE Ends(prev) == /\ Ids' = {} => prev = Anchor(checkpoints')
                         /\ \A i \in Ids' : IsLast(i, Ids') => prev = ledger'[i].hash
<1> SUFFICES ASSUME NEW v \in Writer, work'[v].phase \in {"read", "inserted"}
             PROVE  /\ Ends(work'[v].prev)
                    /\ work'[v].phase = "inserted" =>
                         (\A i \in Ids' : i < work'[v].id) /\ By(v) \in accounts' \cup {System}
  BY DEF Current, Ids, By
<1>a. \A i \in Ids : i \in Nat
  BY IdFacts
<1>1. CASE ReadLast(v)
  <2>1. work'[v].prev = LastHash /\ work'[v].phase = "read"
    BY <1>1, PlacesAt DEF ReadLast, Places, TypeOK
  <2>2. UNCHANGED <<ledger, checkpoints>>
    BY <1>1 DEF ReadLast, tables
  <2>3. Ends(LastHash)
    BY <2>2, LastHashIs DEF Ids
  <2> QED BY <2>1, <2>3
<1>2. CASE Insert(v)
  <2>1. /\ work'[v].prev = work[v].prev /\ work'[v].id = nextId
        /\ work[v].phase = "read" /\ By(v) \in accounts' \cup {System}
    BY <1>2, PlacesAt DEF Insert, Places, TypeOK
  <2>2. UNCHANGED <<ledger, checkpoints>>
    BY <1>2 DEF Insert
  <2>3. Ends(work[v].prev)
    BY <2>1, <2>2 DEF Current, Ids
  <2>4. \A i \in Ids : i < nextId
    <3>1. nextId \in Nat /\ Ids \subseteq 1 .. (nextId - 1)
      BY TypeParts DEF RowsTyped, ScalarsTyped
    <3> QED BY <3>1
  <2> QED BY <2>1, <2>2, <2>3, <2>4 DEF Ids
<1>3. ASSUME ~Acts(v) PROVE /\ Ends(work'[v].prev)
                            /\ work'[v].phase = "inserted" =>
                                 /\ \A i \in Ids' : i < work'[v].id
                                 /\ By(v) \in accounts' \cup {System}
  <2>0. work'[v] = work[v]
    BY <1>3, ActsOrStays
  <2>1. work[v].phase \in Holding
    BY <2>0 DEF Holding
  <2>2. CASE UNCHANGED <<ledger, checkpoints>>
    <3>1. ASSUME work[v].phase = "inserted" PROVE By(v) \in accounts' \cup {System}
      <4>1. CASE accounts' = accounts
        BY <3>1, <4>1 DEF Current
      <4>2. CASE accounts' # accounts
        <5>1. PICK u \in User : DeleteAccount(u)
          BY <4>2 DEF Next, vars, tables, Commit, RollBack, Appends, BeginAppend, NoAppend,
                      TakeLock, ReadLast, Insert, CommitAppend, AppendFails, Prunes,
                      StartPrune, PruneLock, PruneCapped, PruneBound, PruneBatch,
                      PruneNothing, PruneFails, StartCheck, CheckPage, Tick
        <5> QED BY <3>1, <5>1 DEF DeleteAccount, Current
      <4> QED BY <4>1, <4>2
    <3> QED BY <2>0, <2>2, <3>1 DEF Current, Ids
  <2>3. ASSUME NEW w \in Writer, CommitAppend(w) PROVE FALSE
    <3>1. Acts(w) /\ work[w].phase \in Holding
      BY <2>3 DEF Acts, Appends, CommitAppend, Holding
    <3> QED BY <1>3, <2>1, <3>1, Alone
  <2>4. ASSUME NEW p \in Pruner, PruneBatch(p) PROVE FALSE
    <3>1. p \in Writer /\ Acts(p) /\ work[p].phase \in Holding
      BY <2>4 DEF Acts, Prunes, PruneBatch, Holding, Writer
    <3> QED BY <1>3, <2>1, <3>1, Alone
  <2>5. ASSUME NEW u \in User, DeleteAccount(u)
        PROVE /\ Ends(work'[v].prev)
              /\ work'[v].phase = "inserted" => /\ \A i \in Ids' : i < work'[v].id
                                                /\ By(v) \in accounts' \cup {System}
    <3>1. /\ Ids' = Ids /\ \A i \in Ids : ledger'[i].hash = ledger[i].hash
          /\ checkpoints' = checkpoints /\ accounts' = accounts \ {u}
      BY <2>5, DeleteAccountIs
    <3>2. work[v].phase = "inserted" => By(v) # u
      BY <2>5 DEF DeleteAccount
    <3> QED BY <2>0, <3>1, <3>2 DEF Current
  <2> QED BY <2>2, <2>3, <2>4, <2>5, LedgerStep
<1> QED BY <1>1, <1>2, <1>3, ActsTo
LEMMA BoundedStep ==
    ASSUME TypeOK, Locked, Current, Anchored, Bounded, [Next]_vars
    PROVE  Bounded'
<1> DEFINE Old(p) ==
      /\ work'[p].phase \in {"draining", "choosing", "bounded"} =>
           prune'[p].cutoff <= clock' - Shortest
      /\ work'[p].phase = "bounded" =>
           /\ prune'[p].bound \in Ids'
           /\ \A i \in Ids' : i < prune'[p].bound => ledger'[i].at < prune'[p].cutoff
<1> SUFFICES ASSUME NEW p \in Pruner PROVE Old(p)
  BY DEF Bounded, Ids
<1>a. p \in Writer
  BY DEF Writer
<1>b. /\ prune[p].cutoff \in Int /\ clock \in Nat /\ Shortest \in Nat
      /\ DOMAIN prune = Pruner
  BY TypeParts, IdFacts, LedgerAssumption DEF PruneTyped
<1>c. ASSUME NEW phase, Goes(p, phase) PROVE work'[p].phase = phase
  <2>1. Places(p, NoRow(phase)) /\ NoRow(phase).phase = phase
    BY <1>c, GoesIsPlaces
  <2> QED BY <1>a, <2>1, PlacesAt DEF TypeOK
<1>1. CASE StartPrune(p)
  <2>1. PICK m \in Periods :
           prune' = [prune EXCEPT ![p] = [cutoff |-> clock - m, bound |-> 0,
                                          batches |-> 0, deleted |-> 0]]
    BY <1>1 DEF StartPrune
  <2>2. prune'[p].cutoff = clock - m /\ clock' = clock
    BY <1>1, <1>b, <2>1 DEF StartPrune
  <2>3. work'[p].phase = "draining"
    BY <1>1, <1>c DEF StartPrune
  <2>4. m \in Nat /\ m >= Shortest
    BY LedgerAssumption
  <2> QED BY <1>b, <2>2, <2>3, <2>4
<1>2. CASE PruneLock(p)
  <2>1. /\ work'[p].phase = "choosing" /\ work[p].phase = "draining"
        /\ UNCHANGED <<clock, prune>>
    BY <1>2, <1>c DEF PruneLock
  <2> QED BY <2>1 DEF Bounded
<1>3. CASE PruneBound(p)
  <2>1. UNCHANGED <<ledger, clock>> /\ work[p].phase = "choosing"
    BY <1>3 DEF PruneBound
  <2>2. CASE Ids # {} /\ prune' = [prune EXCEPT ![p] = [cutoff |-> prune[p].cutoff,
                                                        bound |-> Bound(prune[p].cutoff),
                                                        batches |-> prune[p].batches,
                                                        deleted |-> prune[p].deleted]]
    <3>1. /\ prune'[p].cutoff = prune[p].cutoff
          /\ prune'[p].bound = Bound(prune[p].cutoff)
      BY <1>b, <2>2
    <3>2. /\ Bound(prune[p].cutoff) \in Ids
          /\ \A i \in Ids : i < Bound(prune[p].cutoff) => ledger[i].at < prune[p].cutoff
      BY <1>b, <2>2, BoundInIds
    <3> QED BY <2>1, <3>1, <3>2 DEF Bounded, Ids
  <2>3. CASE Leaves(p, prune[p].deleted)
    <3>1. work'[p].phase \in {"due", "done"}
      BY <1>c, <2>3 DEF Leaves
    <3> QED BY <3>1
  <2> QED BY <1>3, <2>2, <2>3 DEF PruneBound
<1>4. CASE PruneBatch(p)
  <2>1. work'[p].phase \in {"draining", "due", "done"} /\ work[p].phase = "bounded"
    <3>1. (\E d : Leaves(p, d)) \/ Goes(p, "draining")
      BY <1>4 DEF PruneBatch
    <3> QED BY <1>4, <1>c, <3>1 DEF PruneBatch, Leaves
  <2>2. prune'[p].cutoff = prune[p].cutoff /\ clock' = clock
    <3>1. \E r : prune' = [prune EXCEPT ![p] = r] /\ r.cutoff = prune[p].cutoff
      BY <1>4 DEF PruneBatch
    <3> QED BY <1>4, <1>b, <3>1 DEF PruneBatch
  <2> QED BY <2>1, <2>2 DEF Bounded
<1>5. ASSUME ~Acts(p) PROVE Old(p)
  <2>0. work'[p] = work[p] /\ prune'[p] = prune[p]
    BY <1>5, <1>a, ActsOrStays
  <2>1. clock' \in Nat /\ clock <= clock'
    <3>1. clock' = clock \/ clock' = clock + 1
      BY DEF Next, vars, tables, Commit, RollBack, Appends, BeginAppend, NoAppend,
             TakeLock, ReadLast, Insert, CommitAppend, AppendFails, Prunes,
             StartPrune, PruneLock, PruneCapped, PruneBound, PruneBatch,
             PruneNothing, PruneFails, StartCheck, CheckPage, Tick, DeleteAccount
    <3> QED BY <1>b, <3>1
  <2>2. work[p].phase \in {"draining", "choosing", "bounded"} =>
          prune[p].cutoff <= clock' - Shortest
    BY <1>b, <2>1 DEF Bounded
  <2>3. ASSUME work[p].phase = "bounded"
        PROVE  /\ prune[p].bound \in Ids'
               /\ \A i \in Ids' : i < prune[p].bound => ledger'[i].at < prune[p].cutoff
    <3>a. work[p].phase \in Holding
      BY <2>3 DEF Holding
    <3>1. CASE UNCHANGED <<ledger, checkpoints>>
      BY <2>3, <3>1 DEF Bounded, Ids
    <3>2. ASSUME NEW w \in Writer, CommitAppend(w) PROVE FALSE
      <4>1. Acts(w) /\ work[w].phase \in Holding
        BY <3>2 DEF Acts, Appends, CommitAppend, Holding
      <4> QED BY <1>5, <1>a, <3>a, <4>1, Alone
    <3>3. ASSUME NEW q \in Pruner, PruneBatch(q) PROVE FALSE
      <4>1. q \in Writer /\ Acts(q) /\ work[q].phase \in Holding
        BY <3>3 DEF Acts, Prunes, PruneBatch, Holding, Writer
      <4> QED BY <1>5, <1>a, <3>a, <4>1, Alone
    <3>4. ASSUME NEW u \in User, DeleteAccount(u)
          PROVE  /\ prune[p].bound \in Ids'
                 /\ \A i \in Ids' : i < prune[p].bound => ledger'[i].at < prune[p].cutoff
      <4>1. Ids' = Ids /\ \A i \in Ids : ledger'[i].at = ledger[i].at
        BY <3>4, DeleteAccountIs
      <4> QED BY <2>3, <4>1 DEF Bounded
    <3> QED BY <3>1, <3>2, <3>3, <3>4, LedgerStep
  <2> QED BY <2>0, <2>2, <2>3
<1>6. ASSUME work'[p].phase \notin {"draining", "choosing", "bounded"} PROVE Old(p)
  BY <1>6
<1> QED BY <1>1, <1>2, <1>3, <1>4, <1>5, <1>6, <1>a, ActsTo

LEMMA UndoneStep ==
    ASSUME [Next]_vars
    PROVE  undone' = undone \/ \E c \in Change : RollBack(c) /\ undone' = undone \cup {c}
BY DEF Next, vars, tables, Commit, RollBack, Appends, BeginAppend, NoAppend,
       TakeLock, ReadLast, Insert, CommitAppend, AppendFails, Prunes,
       StartPrune, PruneLock, PruneCapped, PruneBound, PruneBatch,
       PruneNothing, PruneFails, StartCheck, CheckPage, Tick, DeleteAccount

LEMMA OnceStep ==
    ASSUME TypeOK, Locked, Current, Anchored, Bounded, Once, [Next]_vars
    PROVE  Once'
<1>a. \A v \in Writer : work[v].phase = "done" => work'[v].phase = "done"
  BY ActsOrStays, ActsTo
<1>b. \A c \in Change : RollBack(c) => work[c].phase = "open" /\ work'[c].phase = "done"
  <2> SUFFICES ASSUME NEW c \in Change, RollBack(c)
               PROVE  work[c].phase = "open" /\ work'[c].phase = "done"
    OBVIOUS
  <2>1. Places(c, NoRow("done")) /\ NoRow("done").phase = "done" /\ c \in Writer
    BY GoesIsPlaces DEF RollBack, AfterRollBack, Writer
  <2> QED BY <2>1, PlacesAt DEF TypeOK, RollBack
<1>c. undone \subseteq Writer /\ \A i \in Ids : ledger[i].what \in Writer
  BY DEF TypeOK, Writer
<1>1. \A c \in undone' : work'[c].phase = "done"
  BY <1>a, <1>b, <1>c, UndoneStep DEF Once
<1>2. \A i \in Ids : ledger[i].what \notin undone' /\ work'[ledger[i].what].phase = "done"
  BY <1>a, <1>b, <1>c, UndoneStep DEF Once
<1>3. CASE UNCHANGED <<ledger, checkpoints>>
  BY <1>1, <1>2, <1>3 DEF Once, Ids
<1>4. ASSUME NEW w \in Writer, CommitAppend(w) PROVE Once'
  <2> DEFINE n == work[w].id
  <2>1. /\ n \notin Ids
        /\ Ids' = Ids \cup {n}
        /\ ledger'[n] = RowOf(w)
        /\ \A i \in Ids : ledger'[i] = ledger[i]
        /\ UNCHANGED undone
    BY <1>4, CommitAppendIs
  <2>2. RowOf(w).what = w
    BY DEF RowOf
  <2>3. work[w].phase = "inserted" /\ work'[w].phase = "done"
    <3>1. Places(w, NoRow("done")) /\ NoRow("done").phase = "done"
      BY <1>4, GoesIsPlaces DEF CommitAppend
    <3> QED BY <1>4, <3>1, PlacesAt DEF TypeOK, CommitAppend
  <2>4. w \notin undone /\ \A i \in Ids : ledger[i].what # w
    BY <2>3 DEF Once
  <2> HIDE DEF n
  <2>5. \A i \in Ids' : work'[ledger'[i].what].phase = "done" /\ ledger'[i].what \notin undone'
    BY <1>2, <2>1, <2>2, <2>3, <2>4
  <2>6. \A i, j \in Ids' : ledger'[i].what = ledger'[j].what => i = j
    BY <2>1, <2>2, <2>4 DEF Once
  <2> QED BY <1>1, <2>5, <2>6 DEF Once
<1>5. ASSUME NEW p \in Pruner, PruneBatch(p) PROVE Once'
  <2>1. PICK last \in Ids : Ids' = Kept(last) /\ \A i \in Ids' : ledger'[i] = ledger[i]
    BY <1>5, PruneBatchIs
  <2>2. Ids' \subseteq Ids
    BY <2>1 DEF Kept
  <2> QED BY <1>1, <1>2, <2>1, <2>2 DEF Once
<1>6. ASSUME NEW u \in User, DeleteAccount(u) PROVE Once'
  <2>1. Ids' = Ids /\ \A i \in Ids : ledger'[i].what = ledger[i].what
    BY <1>6, DeleteAccountIs
  <2> QED BY <1>1, <1>2, <2>1 DEF Once
<1> QED BY <1>3, <1>4, <1>5, <1>6, LedgerStep

-----------------------------------------------------------------------------
(* The verification                                                          *)

\* The rows of a snapshot behind the walk's position.
LEMMA PageIs ==
    ASSUME NEW n \in Nat, NEW rows, DOMAIN rows \in SUBSET (1 .. n), NEW a \in Nat
    PROVE  /\ Page(rows, a) \subseteq DOMAIN rows /\ \A i \in Page(rows, a) : a < i
           /\ IsFiniteSet(DOMAIN rows)
           /\ \A i \in Page(rows, a), k \in DOMAIN rows : a < k /\ k <= i => k \in Page(rows, a)
           /\ Page(rows, a) = {} => \A k \in DOMAIN rows : k <= a
<1> DEFINE D == DOMAIN rows
           Upto(i) == {k \in D : a < k /\ k <= i}
<1>0. /\ IsFiniteSet(D) /\ \A i \in D : i \in Nat
      /\ Page(rows, a) = {i \in D : i > a /\ Cardinality(Upto(i)) <= PageSize}
      /\ PageSize \in Nat \ {0}
  <2>1. IsFiniteSet(1 .. n)
    BY FS_Interval, 1 \in Int, n \in Int
  <2>2. IsFiniteSet(D)
    BY <2>1, FS_Subset
  <2> QED BY <2>2, LedgerAssumption DEF Page
<1>1. \A i \in D : IsFiniteSet(Upto(i)) /\ Cardinality(Upto(i)) \in Nat
  <2> SUFFICES ASSUME NEW i \in D PROVE IsFiniteSet(Upto(i)) /\ Cardinality(Upto(i)) \in Nat
    OBVIOUS
  <2>1. Upto(i) \in SUBSET D
    OBVIOUS
  <2>2. IsFiniteSet(Upto(i))
    BY <1>0, <2>1, FS_Subset
  <2> QED BY <2>2, FS_CardinalityType
<1>2. ASSUME NEW i \in Page(rows, a), NEW k \in D, a < k, k <= i PROVE k \in Page(rows, a)
  <2>1. i \in D /\ i \in Nat /\ k \in Nat /\ Cardinality(Upto(i)) <= PageSize
    BY <1>0
  <2>2. Upto(k) \in SUBSET Upto(i)
    BY <1>0, <1>2, <2>1
  <2>3. Cardinality(Upto(k)) <= Cardinality(Upto(i))
    BY <1>1, <2>1, <2>2, FS_Subset
  <2>4. Cardinality(Upto(k)) \in Nat /\ Cardinality(Upto(i)) \in Nat
    BY <1>1, <2>1
  <2> HIDE DEF Upto, D
  <2>5. Cardinality(Upto(k)) <= PageSize
    BY <1>0, <2>1, <2>3, <2>4
  <2> QED BY <1>0, <1>2, <2>5
<1>3. ASSUME Page(rows, a) = {}, NEW k \in D, ~(k <= a) PROVE FALSE
  <2> DEFINE Rest == {j \in D : a < j}
  <2>1. Rest \in SUBSET (1 .. n) /\ k \in Rest
    BY <1>0, <1>3
  <2>2. PICK m \in Rest : IsFirst(m, Rest)
    BY <2>1, HasFirst
  <2>3. m \in D /\ a < m /\ \A j \in D : a < j => m <= j
    BY <2>2 DEF IsFirst
  <2>4. Upto(m) = {m}
    BY <1>0, <2>3
  <2>5. Cardinality(Upto(m)) = 1
    BY <2>4, FS_Singleton
  <2>6. m \in Page(rows, a)
    BY <1>0, <2>3, <2>5
  <2> QED BY <1>3, <2>6
<1> QED BY <1>0, <1>2, <1>3

\* Where the walk of a snapshot stands.
Stands(rows, a, prev) ==
    \/ a \in DOMAIN rows /\ prev = rows[a].hash
    \/ /\ \A i \in DOMAIN rows : a < i
       /\ StartsAt(rows, prev)

\* A page fails only where a row has lost its user.
LEMMA BrokenIs ==
    ASSUME NEW n \in Nat, NEW rows, DOMAIN rows \in SUBSET (1 .. n), NEW a \in Nat, NEW prev,
           Genuine(rows), LinkedRows(rows), Stands(rows, a, prev),
           Broken(rows, Page(rows, a), prev)
    PROVE  \E i \in DOMAIN rows : By(rows[i].what) \notin accounts \cup {System}
<1> DEFINE D == DOMAIN rows
           page == Page(rows, a)
<1>0. /\ page \subseteq D /\ \A i \in page : a < i
      /\ \A i \in page, k \in D : a < k /\ k <= i => k \in page
      /\ \A i \in D : i \in Nat
  BY PageIs
<1>1. PICK i \in page :
        \/ IsFirst(i, page) /\ rows[i].prev # prev
        \/ \E j \in page : Follows(i, j, page) /\ rows[i].prev # rows[j].hash
        \/ rows[i].hash # EntryHash(i, rows[i].user, rows[i].at, rows[i].what, rows[i].prev)
  BY DEF Broken
<1> HIDE DEF page
<1>a. i \in D /\ i \in Nat /\ a < i
  BY <1>0
<1>2. ASSUME IsFirst(i, page), rows[i].prev # prev PROVE FALSE
  <2>1. \A k \in D : ~(a < k /\ k < i)
    BY <1>0, <1>2, <1>a DEF IsFirst
  <2>2. CASE a \in D /\ prev = rows[a].hash
    <3>1. Follows(i, a, D)
      BY <1>a, <2>1 DEF Follows
    <3>2. rows[i].prev = rows[a].hash
      BY <1>a, <2>2, <3>1 DEF LinkedRows
    <3> QED BY <1>2, <2>2, <3>2
  <2>3. CASE (\A k \in D : a < k) /\ StartsAt(rows, prev)
    <3>1. IsFirst(i, D)
      BY <1>0, <1>a, <2>1, <2>3 DEF IsFirst
    <3> QED BY <1>2, <1>a, <2>3, <3>1 DEF StartsAt
  <2> QED BY <2>2, <2>3 DEF Stands
<1>3. ASSUME NEW j \in page, Follows(i, j, page), rows[i].prev # rows[j].hash PROVE FALSE
  <2>1. j \in D /\ j \in Nat /\ a < j /\ j < i
    BY <1>0, <1>3 DEF Follows
  <2>2. \A k \in D : ~(j < k /\ k < i)
    <3> SUFFICES ASSUME NEW k \in D, j < k, k < i PROVE FALSE
      OBVIOUS
    <3>1. k \in page
      BY <1>0, <1>a, <2>1
    <3> QED BY <1>3, <3>1 DEF Follows
  <2>3. Follows(i, j, D)
    BY <2>1, <2>2 DEF Follows
  <2> QED BY <1>3, <1>a, <2>1, <2>3 DEF LinkedRows
<1>4. rows[i].hash # EntryHash(i, rows[i].user, rows[i].at, rows[i].what, rows[i].prev)
  BY <1>1, <1>2, <1>3
<1>5. rows[i].hash = EntryHash(i, By(rows[i].what), rows[i].at, rows[i].what, rows[i].prev)
  BY <1>a DEF Genuine
<1>6. rows[i].user # By(rows[i].what)
  BY <1>4, <1>5
<1> QED BY <1>6, <1>a DEF Genuine

\* A page adds its rows to those walked, up to its last one.
LEMMA WalkedOn ==
    ASSUME NEW n \in Nat, NEW rows, DOMAIN rows \in SUBSET (1 .. n), NEW a \in Nat,
           NEW last \in Page(rows, a), IsLast(last, Page(rows, a))
    PROVE  Cardinality({k \in DOMAIN rows : k <= last}) =
             Cardinality({k \in DOMAIN rows : k <= a}) + Cardinality(Page(rows, a))
<1> DEFINE D == DOMAIN rows
           page == Page(rows, a)
           Before == {k \in D : k <= a}
           After == {k \in D : k <= last}
<1>0. /\ page \subseteq D /\ \A i \in page : a < i
      /\ IsFiniteSet(D)
      /\ \A i \in page, k \in D : a < k /\ k <= i => k \in page
      /\ \A i \in D : i \in Nat
  BY PageIs
<1> HIDE DEF page
<1>1. last \in Nat /\ a < last /\ \A k \in page : k <= last
  BY <1>0 DEF IsLast, page
<1>2. After = Before \cup page /\ Before \cap page = {}
  <2>1. \A k \in After : k \in Before \cup page
    BY <1>0, <1>1 DEF page
  <2>2. \A k \in Before \cup page : k \in After
    BY <1>0, <1>1
  <2>3. Before \cap page = {}
    BY <1>0
  <2> HIDE DEF Before, After
  <2> QED BY <2>1, <2>2, <2>3
<1>3. IsFiniteSet(Before) /\ IsFiniteSet(page)
  <2>1. Before \in SUBSET D /\ page \in SUBSET D
    BY <1>0
  <2> HIDE DEF Before
  <2> QED BY <1>0, <2>1, FS_Subset
<1> HIDE DEF Before, After
<1>4. Cardinality(Before \cup page) =
        Cardinality(Before) + Cardinality(page) - Cardinality(Before \cap page)
  BY <1>3, FS_Union
<1>5. Cardinality(Before) \in Nat /\ Cardinality(page) \in Nat
  BY <1>3, FS_CardinalityType
<1>6. Cardinality(After) = Cardinality(Before) + Cardinality(page)
  BY <1>2, <1>4, <1>5, FS_EmptySet
<1> QED BY <1>6 DEF Before, After, page

\* Only a verification moves a verification.
LEMMA CheckStep == ASSUME [Next]_vars PROVE check' = check \/ StartCheck \/ CheckPage
BY DEF Next, vars, tables, Commit, RollBack, Appends, BeginAppend, NoAppend,
       TakeLock, ReadLast, Insert, CommitAppend, AppendFails, Prunes,
       StartPrune, PruneLock, PruneCapped, PruneBound, PruneBatch,
       PruneNothing, PruneFails, Tick, DeleteAccount

\* No row lies at or below the checkpoint the walk starts from.
LEMMA NotForged ==
    ASSUME TypeOK, Anchored
    PROVE  \A i \in Ids : PrunedThrough(checkpoints) < i
<1>1. \A i \in Ids : i \in Nat /\ 0 < i
  BY TypeParts DEF RowsTyped, ScalarsTyped
<1>2. CASE checkpoints = {}
  BY <1>1, <1>2 DEF PrunedThrough
<1>3. CASE checkpoints # {}
  <2>1. Latest(checkpoints) \in checkpoints
    BY <1>3, LatestIs
  <2> QED BY <1>3, <2>1 DEF PrunedThrough, Anchored
<1> QED BY <1>2, <1>3

\* What the invariant says of a verification.
Verified == Walked /\ CompromisedByDeletionOnly /\ IntactIsComplete

LEMMA StartCheckVerified ==
    ASSUME TypeOK, Genuine(ledger), Linked, Anchored, StartCheck
    PROVE  Verified'
<1> DEFINE through == PrunedThrough(checkpoints)
<1>1. \A i \in Ids : through < i
  BY NotForged
<1>2. through \in Nat /\ \A i \in Ids : i \in Nat
  BY PrunedThroughNat, IdFacts
<1>3. check' = [phase |-> "walking", rows |-> ledger, prev |-> Anchor(checkpoints),
                after |-> through, total |-> 0, verdict |-> "none"]
  <2>1. ~ \E i \in Ids : i <= through
    BY <1>1, <1>2
  <2> QED BY <2>1 DEF StartCheck
<1>4. accounts' = accounts
  BY DEF StartCheck
<1>5. {k \in Ids : k <= through} = {}
  BY <1>1, <1>2
<1>6. Genuine(ledger)'
  BY <1>4 DEF StartCheck, tables, Genuine
<1>7. Walked'
  <2>1. check'.total = Cardinality({k \in DOMAIN check'.rows : k <= check'.after})
    BY <1>3, <1>5, FS_EmptySet DEF Ids
  <2>2. Genuine(check.rows)'
    BY <1>3, <1>6 DEF StartCheck, tables, Genuine
  <2>3. /\ LinkedRows(check'.rows)
        /\ \A i \in DOMAIN check'.rows : check'.after < i
        /\ StartsAt(check'.rows, check'.prev)
    BY <1>1, <1>3 DEF Linked, Ids
  <2> QED BY <1>3, <2>1, <2>2, <2>3 DEF Walked
<1> QED BY <1>3, <1>7 DEF Verified, CompromisedByDeletionOnly, IntactIsComplete

LEMMA CheckPageVerified ==
    ASSUME TypeOK, Walked, CheckPage
    PROVE  Verified'
<1> DEFINE rows == check.rows
           page == Page(rows, check.after)
           total == check.total + Cardinality(page)
<1>0. /\ DOMAIN rows \in SUBSET (1 .. (nextId - 1)) /\ nextId - 1 \in Nat
      /\ check.after \in Nat /\ check.total \in Nat
  BY TypeParts DEF CheckTyped, ScalarsTyped
<1>1. /\ Genuine(rows) /\ LinkedRows(rows) /\ Stands(rows, check.after, check.prev)
      /\ check.total = Cardinality({k \in DOMAIN rows : k <= check.after})
  BY DEF CheckPage, Walked, Stands
<1>2. accounts' = accounts
  BY DEF CheckPage
<1>3. ASSUME NEW v, NEW t, Concludes(v, t)
      PROVE  check'.phase = "done" /\ check'.verdict = v /\ check'.total = t /\ check'.rows = rows
  BY <1>3 DEF Concludes, NotBegun
<1>4. CASE page = {} /\ Concludes(IF check.total = 0 THEN "empty" ELSE "intact", check.total)
  <2>1. \A k \in DOMAIN rows : k <= check.after
    BY <1>0, <1>4, PageIs
  <2>2. {k \in DOMAIN rows : k <= check.after} = DOMAIN rows
    BY <2>1
  <2>3. check.total = Cardinality(DOMAIN rows)
    BY <1>1, <2>2
  <2>4. /\ check'.phase = "done" /\ check'.verdict \in {"empty", "intact"}
        /\ check'.total = check.total /\ check'.rows = rows
    BY <1>3, <1>4
  <2> QED BY <2>3, <2>4 DEF Verified, Walked, CompromisedByDeletionOnly, IntactIsComplete
<1>5. CASE Broken(rows, page, check.prev) /\ Concludes("compromised", total)
  <2>1. \E i \in DOMAIN rows : By(rows[i].what) \notin accounts \cup {System}
    BY <1>0, <1>1, <1>5, BrokenIs
  <2>2. check'.phase = "done" /\ check'.verdict = "compromised" /\ check'.rows = rows
    BY <1>3, <1>5
  <2> QED BY <1>2, <2>1, <2>2
          DEF Verified, Walked, CompromisedByDeletionOnly, IntactIsComplete, By
<1>6. CASE Concludes("partial", total)
  <2>1. check'.phase = "done" /\ check'.verdict = "partial"
    BY <1>3, <1>6
  <2> QED BY <2>1 DEF Verified, Walked, CompromisedByDeletionOnly, IntactIsComplete
<1>7. ASSUME NEW last \in page, IsLast(last, page),
             check' = [phase |-> "walking", rows |-> check.rows,
                       prev |-> rows[last].hash, after |-> last,
                       total |-> total, verdict |-> "none"]
      PROVE  Verified'
  <2>1. Cardinality({k \in DOMAIN rows : k <= last}) = total
    BY <1>0, <1>1, <1>7, WalkedOn
  <2>2. last \in DOMAIN rows
    BY DEF Page
  <2>3. /\ check'.phase = "walking" /\ check'.rows = rows /\ check'.after = last
        /\ check'.prev = rows[last].hash /\ check'.total = total /\ check'.verdict = "none"
    BY <1>7
  <2> HIDE DEF page, total
  <2>4. Genuine(check.rows)'
    BY <1>1, <1>2, <2>3 DEF Genuine, By
  <2>5. Walked'
    BY <1>1, <2>1, <2>2, <2>3, <2>4 DEF Walked
  <2> QED BY <2>3, <2>5 DEF Verified, CompromisedByDeletionOnly, IntactIsComplete
<1> QED BY <1>4, <1>5, <1>6, <1>7 DEF CheckPage, Seen

LEMMA VerifiedStep ==
    ASSUME TypeOK, Genuine(ledger), Linked, Anchored, Verified, [Next]_vars
    PROVE  Verified'
<1>1. CASE check' = check
  <2>1. accounts' \subseteq accounts
    BY AccountsStep
  <2>2. Genuine(check.rows) => Genuine(check.rows)'
    BY <1>1, <2>1 DEF Genuine, By
  <2>3. Walked'
    BY <1>1, <2>2 DEF Verified, Walked
  <2>4. CompromisedByDeletionOnly' /\ IntactIsComplete'
    BY <1>1, <2>1 DEF Verified, CompromisedByDeletionOnly, IntactIsComplete, By
  <2> QED BY <2>3, <2>4 DEF Verified
<1>2. CASE StartCheck
  BY <1>2, StartCheckVerified
<1>3. CASE CheckPage
  BY <1>3, CheckPageVerified DEF Verified
<1> QED BY <1>1, <1>2, <1>3, CheckStep

-----------------------------------------------------------------------------
(* The invariant is inductive                                                *)

LEMMA InitInv == Init => IInv
<1> SUFFICES ASSUME Init PROVE IInv
  OBVIOUS
<1>0. Ids = {} /\ checkpoints = {} /\ undone = {} /\ check = NotBegun
  BY DEF Init, Ids
<1>1. \A w \in Writer : work[w].phase \in {"open", "idle"}
  BY DEF Init, NoRow
<1>2. TypeOK
  BY InitTyped
<1>3. Locked
  BY <1>1 DEF Locked, Holding
<1>4. Genuine(ledger) /\ LinkedRows(ledger) /\ StartsAt(ledger, Anchor(checkpoints))
  BY <1>0 DEF Genuine, LinkedRows, StartsAt, Ids
<1>5. Current
  BY <1>1 DEF Current
<1>6. Anchored
  BY <1>0 DEF Anchored
<1>7. Bounded
  BY <1>1 DEF Bounded, Writer
<1>8. Once
  BY <1>0 DEF Once
<1>9. Walked /\ CompromisedByDeletionOnly /\ IntactIsComplete
  BY <1>0 DEF Walked, CompromisedByDeletionOnly, IntactIsComplete, NotBegun
<1> QED BY <1>2, <1>3, <1>4, <1>5, <1>6, <1>7, <1>8, <1>9 DEF IInv

LEMMA NextInv == ASSUME IInv, [Next]_vars PROVE IInv'
<1>0. /\ TypeOK /\ Locked /\ Genuine(ledger) /\ Linked /\ Current /\ Anchored
      /\ Bounded /\ Once /\ Verified
  BY DEF IInv, Linked, Verified
<1>1. TypeOK' /\ Locked'
  BY <1>0, TypeKept, LockedStep
<1>2. Genuine(ledger)' /\ Linked'
  BY <1>0, GenuineStep, LinkedStep
<1>3. Current' /\ Anchored' /\ Bounded' /\ Once'
  BY <1>0, CurrentStep, AnchoredStep, BoundedStep, OnceStep
<1>4. Verified'
  BY <1>0, VerifiedStep
<1> QED BY <1>1, <1>2, <1>3, <1>4 DEF IInv, Linked, Verified

\* The lock, the links of the rows, what appends and prunes have read, and the
\* place of the verification stay as IInv describes them in every behaviour.
THEOREM Inductive == Spec => []IInv
BY InitInv, NextInv, PTL DEF Spec

\* The chain never forks: every row has the hash of the row before it, the
\* oldest one the anchor of the latest checkpoint, whatever appends and prunes
\* appendToAuditLedger and pruneAuditLedgerBatch run at once.
THEOREM ChainIsUnbroken == Spec => []Chained
<1>1. IInv => Chained
  BY DEF IInv, LinkedRows, StartsAt, Chained, Ids
<1> QED BY <1>1, Inductive, PTL

\* verifyChain calls a ledger nobody tampered with compromised only when the
\* account of one of its rows is gone.
THEOREM NoFalseAlarm == Spec => []CompromisedByDeletionOnly
<1>1. IInv => CompromisedByDeletionOnly
  BY DEF IInv
<1> QED BY <1>1, Inductive, PTL

\* verifyChain calls a ledger intact only after it walked every row of its
\* snapshot, whatever gaps failed appends left in the ids.
THEOREM IntactIsWalked == Spec => []IntactIsComplete
<1>1. IInv => IntactIsComplete
  BY DEF IInv
<1> QED BY <1>1, Inductive, PTL

\* A row of the ledger stands for a change that committed, and no change has
\* two: recordEntityChange appends after the commit, and once.
THEOREM RowsAreCommitted == Spec => []OnlyCommitted
<1>1. IInv => OnlyCommitted
  BY DEF IInv, Once, OnlyCommitted
<1> QED BY <1>1, Inductive, PTL

\* The delete trigger accepts every batch pruneAuditLedgerBatch chooses.
THEOREM TriggerAgrees == Spec => []TriggerNeverRefuses
<1>1. ASSUME IInv PROVE TriggerNeverRefuses
  <2> SUFFICES ASSUME NEW p \in Pruner, work[p].phase = "bounded",
                      NEW last \in Batch(prune[p].bound)
               PROVE  TriggerAccepts(last, prune[p].cutoff)
    BY DEF TriggerNeverRefuses
  <2>1. /\ prune[p].cutoff <= clock - Shortest /\ prune[p].bound \in Ids
        /\ \A i \in Ids : i < prune[p].bound => ledger[i].at < prune[p].cutoff
    BY <1>1 DEF IInv, Bounded
  <2>2. last \in Ids /\ last < prune[p].bound /\ \A i \in Ids : i \in Nat
    BY <1>1, IdFacts DEF Batch, IInv
  <2>3. \A i \in Ids : i <= last => i < prune[p].bound
    BY <2>1, <2>2
  <2> QED BY <2>1, <2>3 DEF TriggerAccepts
<1> QED BY <1>1, Inductive, PTL

\* The job removes only rows older than the shortest retention period, together
\* with every older one, behind a checkpoint that holds the hash of the newest
\* row removed; the newest row of the ledger stays.
THEOREM RetentionIsHonoured == Spec => RetentionHonoured
<1> DEFINE Fine(i) ==
      /\ ledger[i].at < clock - Shortest
      /\ ~IsLast(i, Ids)
      /\ \E c \in checkpoints' \ checkpoints :
           /\ Ids \ DOMAIN ledger' = {k \in Ids : k <= c.through}
           /\ c.through \in Ids
           /\ c.anchor = ledger[c.through].hash
<1>1. ASSUME IInv, [Next]_vars, NEW i \in Ids \ DOMAIN ledger' PROVE Fine(i)
  <2>a. /\ TypeOK /\ Current /\ Bounded /\ Anchored /\ \A k \in Ids : k \in Nat
        /\ \A k \in Ids : ledger[k].at \in Nat
    BY <1>1, IdFacts DEF IInv
  <2>1. ~UNCHANGED <<ledger, checkpoints>>
    BY <1>1 DEF Ids
  <2>2. ASSUME NEW w \in Writer, CommitAppend(w) PROVE FALSE
    BY <1>1, <2>2, <2>a, CommitAppendIs DEF Ids
  <2>3. ASSUME NEW u \in User, DeleteAccount(u) PROVE FALSE
    BY <1>1, <2>3, <2>a, DeleteAccountIs DEF Ids
  <2>4. PICK p \in Pruner : PruneBatch(p)
    BY <1>1, <2>1, <2>2, <2>3, LedgerStep
  <2>5. PICK last \in Ids :
          /\ Ids' = Kept(last) /\ Ids' # {}
          /\ \A k \in Ids : k <= last => ledger[k].at < prune[p].cutoff
          /\ prune[p].cutoff <= clock - Shortest
          /\ checkpoints' = checkpoints \cup {[through |-> last,
                                               anchor |-> ledger[last].hash,
                                               cutoff |-> prune[p].cutoff]}
    BY <2>4, <2>a, PruneBatchIs
  <2>6. DOMAIN ledger' = {k \in Ids : k > last}
    BY <2>5 DEF Ids, Kept
  <2>7. i <= last /\ Ids \ DOMAIN ledger' = {k \in Ids : k <= last}
    BY <1>1, <2>6, <2>a
  <2>8. ledger[i].at < clock - Shortest
    <3>1. prune[p].cutoff \in Int /\ clock \in Nat /\ Shortest \in Nat
      BY <2>a, TypeParts, IdFacts, LedgerAssumption DEF PruneTyped
    <3>2. ledger[i].at \in Nat /\ ledger[i].at < prune[p].cutoff
      BY <2>5, <2>7, <2>a
    <3> QED BY <2>5, <3>1, <3>2
  <2>9. ~IsLast(i, Ids)
    <3>1. PICK k \in Ids : k > last
      BY <2>5, <2>6 DEF Ids
    <3>2. k \in Nat /\ i \in Nat /\ last \in Nat
      BY <2>a
    <3> QED BY <2>7, <3>1, <3>2 DEF IsLast
  <2>10. [through |-> last, anchor |-> ledger[last].hash, cutoff |-> prune[p].cutoff]
           \notin checkpoints
    BY <2>a DEF Anchored
  <2> QED BY <2>5, <2>7, <2>8, <2>9, <2>10
<1>2. IInv /\ [Next]_vars =>
        [\A i \in Ids \ DOMAIN ledger' :
           /\ ledger[i].at < clock - Shortest
           /\ ~IsLast(i, Ids)
           /\ \E c \in checkpoints' \ checkpoints :
                /\ Ids \ DOMAIN ledger' = {k \in Ids : k <= c.through}
                /\ c.through \in Ids
                /\ c.anchor = ledger[c.through].hash]_vars
  BY <1>1
<1> QED BY <1>2, Inductive, PTL DEF Spec, RetentionHonoured

-----------------------------------------------------------------------------
(* The ledger is an append-only log                                          *)

\* The writers that will not append any more.
Spent == {w \in Writer : work[w].phase = "done"}

LEMMA ToldIs ==
    /\ DOMAIN Told = Ids
    /\ \A i \in Ids : Told[i].what = ledger[i].what /\ Told[i].at = ledger[i].at
BY DEF Told

LEMMA ToldIsNext ==
    /\ DOMAIN Told' = Ids'
    /\ \A i \in Ids' : Told'[i].what = ledger'[i].what /\ Told'[i].at = ledger'[i].at
BY DEF Told

\* A row is told as before when its writer and its time are.
LEMMA ToldKept ==
    ASSUME NEW S \in SUBSET Ids, Ids' = S,
           \A i \in S : ledger'[i].what = ledger[i].what /\ ledger'[i].at = ledger[i].at
    PROVE  Told' = [i \in S |-> Told[i]]
BY DEF Told

\* What a step does to the set of writers that are done.
LEMMA SpentStep ==
    ASSUME TypeOK, [Next]_vars
    PROVE  Spent' = Spent \/ \E w \in Writer : w \notin Spent /\ Spent' = Spent \cup {w}
<1>1. CASE \A w \in Writer : ~Acts(w)
  <2>1. \A w \in Writer : work'[w] = work[w]
    BY <1>1, ActsOrStays
  <2> QED BY <2>1 DEF Spent
<1>2. ASSUME NEW w \in Writer, Acts(w)
      PROVE  Spent' = Spent \/ (w \notin Spent /\ Spent' = Spent \cup {w})
  <2>1. \A v \in Writer : v # w => work'[v] = work[v]
    BY <1>2, ActsAlone
  <2>2. w \notin Spent
    BY <1>2, ActsTo DEF Spent
  <2> QED BY <2>1, <2>2 DEF Spent
<1> QED BY <1>1, <1>2

LEMMA InitLog == Init => Log!Init
<1> SUFFICES ASSUME Init PROVE Log!Init
  OBVIOUS
<1>1. Ids = {} /\ clock = 0
  BY DEF Init, Ids
<1>2. \A w \in Writer : work[w].phase \in {"open", "idle"}
  BY DEF Init, NoRow
<1> QED BY <1>1, <1>2, ToldIs DEF Log!Init, Log!Positions

LEMMA CommitAppendsToLog ==
    ASSUME IInv, NEW w \in Writer, CommitAppend(w)
    PROVE  Log!Append(w)
<1> DEFINE n == work[w].id
<1>0. TypeOK /\ Current
  BY DEF IInv
<1>1. /\ n \in Nat /\ n \notin Ids /\ \A i \in Ids : i < n
      /\ Ids' = Ids \cup {n}
      /\ ledger'[n] = RowOf(w)
      /\ \A i \in Ids : ledger'[i] = ledger[i]
      /\ clock' = clock
  BY <1>0, CommitAppendIs
<1>2. work[w].phase = "inserted" /\ work'[w].phase = "done"
      /\ \A v \in Writer : v # w => work'[v] = work[v]
  <2>1. Places(w, NoRow("done")) /\ NoRow("done").phase = "done"
    BY GoesIsPlaces DEF CommitAppend
  <2> QED BY <1>0, <2>1, PlacesAt DEF TypeOK, CommitAppend
<1>3. w \notin Spent /\ Spent' = Spent \cup {w}
  BY <1>2 DEF Spent
<1>4. RowOf(w).what = w /\ RowOf(w).at <= clock
  <2>1. work[w].at \in 0 .. clock /\ clock \in Nat
    BY <1>0, IdFacts DEF TypeOK
  <2> QED BY <2>1 DEF RowOf
<1> HIDE DEF n
<1>5. Told' = [i \in Ids \cup {n} |-> IF i = n THEN Told'[n] ELSE Told[i]]
  BY <1>1 DEF Told
<1>6. n \in DOMAIN Told' /\ Told'[n].what = w /\ Told'[n].at <= clock
  BY <1>1, <1>4, ToldIsNext
<1> QED BY <1>1, <1>3, <1>5, <1>6, ToldIs DEF Log!Append, Log!Positions, Spent

LEMMA BatchPrunesLog ==
    ASSUME IInv, NEW p \in Pruner, PruneBatch(p), Spent' = Spent
    PROVE  Log!Prune
<1>0. TypeOK /\ Bounded /\ Anchored /\ \A i \in Ids : i \in Nat /\ ledger[i].at \in Nat
  BY IdFacts DEF IInv
<1>1. PICK last \in Ids :
        /\ Ids' = Kept(last) /\ Ids' # {}
        /\ \A i \in Ids' : ledger'[i] = ledger[i]
        /\ \A i \in Ids : i <= last => ledger[i].at < prune[p].cutoff
        /\ prune[p].cutoff <= clock - Shortest
        /\ clock' = clock
  BY <1>0, PruneBatchIs
<1>2. Kept(last) = {k \in Ids : last < k}
  BY <1>0 DEF Kept
<1>3. \A i \in Ids : i <= last => ledger[i].at < clock - Shortest
  <2>1. prune[p].cutoff \in Int /\ clock \in Nat /\ Shortest \in Nat
    BY <1>0, TypeParts, IdFacts, LedgerAssumption DEF PruneTyped
  <2> QED BY <1>0, <1>1, <2>1
<1>4. Told' = [i \in {k \in Ids : last < k} |-> Told[i]]
  <2>1. Kept(last) \in SUBSET Ids
    BY DEF Kept
  <2> QED BY <1>1, <1>2, <2>1, ToldKept
<1>5. \E i \in Ids : last < i
  BY <1>1, <1>2
<1> QED BY <1>1, <1>3, <1>4, <1>5, ToldIs DEF Log!Prune, Log!Positions, Spent

\* A batch removes a row, and the run that removed it has an append to make.
LEMMA BatchLeavesSpent ==
    ASSUME TypeOK, NEW p \in Pruner, PruneBatch(p)
    PROVE  Spent' = Spent
<1>1. PICK last \in Batch(prune[p].bound) :
        LET n == Cardinality(Ids \ Kept(last))
        IN  IF n < BatchSize THEN Leaves(p, prune[p].deleted + n) ELSE Goes(p, "draining")
  BY DEF PruneBatch
<1> DEFINE n == Cardinality(Ids \ Kept(last))
<1>2. n \in Nat /\ n > 0
  <2>1. last \in Ids /\ last \in Nat
    BY IdFacts DEF Batch
  <2>2. last \in Ids \ Kept(last)
    BY <2>1 DEF Kept
  <2>3. IsFiniteSet(Ids \ Kept(last))
    <3>1. IsFiniteSet(1 .. (nextId - 1))
      BY FS_Interval, IdFacts
    <3>2. Ids \ Kept(last) \in SUBSET (1 .. (nextId - 1))
      BY IdFacts
    <3> QED BY <3>1, <3>2, FS_Subset
  <2> QED BY <2>2, <2>3, FS_EmptySet, FS_CardinalityType
<1>3. prune[p].deleted \in Nat /\ p \in Writer /\ DOMAIN work = Writer
  BY TypeParts DEF PruneTyped, PlacesTyped, Writer
<1> HIDE DEF n
<1>4. PICK phase \in {"due", "draining"} : Goes(p, phase)
  <2>1. CASE n < BatchSize
    <3>1. prune[p].deleted + n > 0
      BY <1>2, <1>3
    <3> QED BY <1>1, <2>1, <3>1 DEF Leaves, n
  <2>2. CASE ~(n < BatchSize)
    BY <1>1, <2>2 DEF n
  <2> QED BY <2>1, <2>2
<1>5. work'[p].phase = phase /\ \A v \in Writer : v # p => work'[v] = work[v]
  <2>1. Places(p, NoRow(phase)) /\ NoRow(phase).phase = phase
    BY <1>3, <1>4, GoesIsPlaces
  <2> QED BY <1>3, <2>1, PlacesAt
<1>6. work[p].phase = "bounded"
  BY DEF PruneBatch
<1> QED BY <1>3, <1>4, <1>5, <1>6 DEF Spent

LEMMA ClockStep == ASSUME [Next]_vars PROVE clock' = clock \/ Tick
BY DEF Next, vars, Commit, RollBack, Appends, BeginAppend, NoAppend,
       TakeLock, ReadLast, Insert, CommitAppend, AppendFails, Prunes,
       StartPrune, PruneLock, PruneCapped, PruneBound, PruneBatch,
       PruneNothing, PruneFails, StartCheck, CheckPage, DeleteAccount

LEMMA LogStep == ASSUME IInv, [Next]_vars PROVE [Log!Next]_(Log!vars)
<1> USE DEF Log!Next, Log!vars
<1>0. TypeOK /\ \A i \in Ids : ledger[i].what \in Writer
  BY DEF IInv, TypeOK, Writer
<1>1. ASSUME NEW w \in Writer, CommitAppend(w) PROVE [Log!Next]_(Log!vars)
  BY <1>1, CommitAppendsToLog
<1>2. ASSUME NEW p \in Pruner, PruneBatch(p) PROVE [Log!Next]_(Log!vars)
  BY <1>0, <1>2, BatchLeavesSpent, BatchPrunesLog
<1>3. ASSUME Told' = Told, work' = work, clock' = clock PROVE [Log!Next]_(Log!vars)
  BY <1>3
<1>4. ASSUME NEW u \in User, DeleteAccount(u) PROVE [Log!Next]_(Log!vars)
  <2>1. /\ Ids' = Ids /\ work' = work /\ clock' = clock
        /\ \A i \in Ids : ledger'[i].what = ledger[i].what /\ ledger'[i].at = ledger[i].at
    BY <1>0, <1>4, DeleteAccountIs
  <2>2. Told' = Told
    BY <2>1 DEF Told
  <2> QED BY <1>3, <2>1, <2>2
<1>5. ASSUME UNCHANGED <<ledger, checkpoints>>, ~Tick PROVE [Log!Next]_(Log!vars)
  <2>1. Told' = Told
    BY <1>5 DEF Told, Ids
  <2>2. clock' = clock
    BY <1>5, ClockStep
  <2>3. CASE Spent' = Spent
    BY <2>1, <2>2, <2>3 DEF Spent
  <2>4. ASSUME NEW w \in Writer, w \notin Spent, Spent' = Spent \cup {w}
        PROVE  Log!GiveUp(w)
    BY <2>1, <2>2, <2>4 DEF Log!GiveUp, Spent
  <2> QED BY <1>0, <2>3, <2>4, SpentStep
<1>6. CASE Tick
  <2>1. Told' = Told /\ work' = work /\ clock' = clock + 1
    BY <1>6 DEF Tick, tables, Told, Ids
  <2> QED BY <2>1 DEF Log!Tick
<1> QED BY <1>1, <1>2, <1>4, <1>5, <1>6, LedgerStep

\* For its readers the ledger is an append-only log: each row is added once,
\* behind all the others, by a writer whose own work committed; no row changes,
\* moves or comes back; and only rows past the shortest retention period leave,
\* from the old end, never all of them.
THEOREM LedgerImplementsLog == Spec => ImplementsLog
<1>1. Init => Log!Init
  BY InitLog
<1>2. IInv /\ [Next]_vars => [Log!Next]_(Log!vars)
  BY LogStep
<1> QED BY <1>1, <1>2, Inductive, PTL DEF Spec, ImplementsLog, Log!Spec

=============================================================================
