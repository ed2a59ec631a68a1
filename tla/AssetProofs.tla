---- MODULE AssetProofs ----
(***************************************************************************)
(* Theorems about AssetLane, for every set of surfaces, assets and         *)
(* generations and every budget; and about ThumbnailDispatch: every        *)
(* request of the dispatcher stays accounted for and wanted, for every set *)
(* of files, icons and surfaces and for every budget.                      *)
(***************************************************************************)
EXTENDS AssetLane, ThumbnailDispatch, FiniteSetTheorems, WellFoundedInduction, TLAPS

----------------------------------------------------------------------------
(* Minima and maxima exist: the queue's order has a first and a last.       *)

LEMMA NatMinimum ==
    ASSUME NEW T, T \subseteq Nat, T # {}
    PROVE  \E x \in T : \A y \in T : x <= y
<1> DEFINE R == OpToRel(<, Nat)
<1>1. IsWellFoundedOn(R, Nat)
  BY NatLessThanWellFounded
<1> HIDE DEF R
<1>2. PICK x \in T : \A y \in T : <<y, x>> \notin R
  BY <1>1, WFMin
<1>3. \A y \in T : ~(y < x)
  BY <1>2 DEF R, OpToRel
<1> QED
  BY <1>3

LEMMA BoundedMaximum ==
    ASSUME NEW T, T \subseteq Nat, T # {}, NEW n \in Nat, \A y \in T : y <= n
    PROVE  \E x \in T : \A y \in T : y <= x
<1> DEFINE U == {k \in 0..n : n - k \in T}
<1>1. \A y \in T : y \in 0..n /\ n - y \in U
  <2>1. ASSUME NEW y \in T PROVE y \in 0..n
    OBVIOUS
  <2>2. ASSUME NEW y \in T PROVE n - y \in 0..n /\ n - (n - y) = y
    BY <2>1
  <2> QED
    BY <2>1, <2>2
<1>2. U \subseteq Nat /\ U # {}
  <2>1. PICK y \in T : TRUE
    OBVIOUS
  <2>2. n - y \in U
    BY <1>1
  <2>3. U \subseteq Nat
    OBVIOUS
  <2> QED
    BY <2>2, <2>3
<1>3. PICK u \in U : \A v \in U : u <= v
  BY <1>2, NatMinimum
<1>4. ASSUME NEW y \in T PROVE y <= n - u
  <2>1. u <= n - y
    BY <1>1, <1>3
  <2> QED
    BY <1>1, <2>1
<1> QED
  BY <1>3, <1>4

\* A queue as a lane keeps it: its stamps are distinct and at most n.
Stamped(P, n) ==
    /\ \A q \in P : q.request.priority \in AssetPriority
    /\ \A q \in P : q.sequence \in Nat /\ q.sequence <= n
    /\ \A p, q \in P : p.sequence = q.sequence => p = q

LEMMA BestIsLast ==
    ASSUME NEW P, NEW n \in Nat, Stamped(P, n), P # {}
    PROVE  Best(P) \in P /\ \A p \in P \ {Best(P)} : Before(p, Best(P))
<1> DEFINE priorities == {k \in AssetPriority : \E q \in P : q.request.priority = k}
<1>1. \A q \in P : /\ q.request.priority \in AssetPriority
                    /\ q.sequence \in Nat /\ q.sequence <= n
  BY DEF Stamped
<1>2. PICK q0 \in P : TRUE
  OBVIOUS
<1>3. priorities \subseteq Nat /\ \A k \in priorities : k <= 3
  BY DEF AssetPriority, Overscan, Visible, Selected
<1>4. PICK top \in priorities : \A k \in priorities : k <= top
  BY <1>1, <1>2, <1>3, BoundedMaximum
<1> DEFINE stamps == {k \in Nat : \E q \in P : q.request.priority = top /\ q.sequence = k}
<1>5. PICK q1 \in P : q1.request.priority = top
  BY <1>4
<1>6. q1.sequence \in stamps /\ \A k \in stamps : k <= n
  BY <1>1, <1>5
<1>7. PICK last \in stamps : \A k \in stamps : k <= last
  BY <1>6, BoundedMaximum
<1>8. PICK best \in P : best.request.priority = top /\ best.sequence = last
  BY <1>7
<1>9. \A p \in P \ {best} : Before(p, best)
  <2> TAKE p \in P \ {best}
  <2>1. p.request.priority \in priorities /\ p.request.priority <= top
    BY <1>1, <1>4
  <2>2. CASE p.request.priority = top
    <3>1. p.sequence \in stamps /\ p.sequence <= last
      BY <1>1, <1>7, <2>2
    <3>2. p.sequence # last
      BY <1>8 DEF Stamped
    <3> QED
      BY <1>1, <1>7, <1>8, <2>2, <3>1, <3>2 DEF Before
  <2> QED
    BY <1>3, <1>4, <1>8, <2>1, <2>2 DEF Before
<1> QED
  BY <1>9 DEF Best

LEMMA WorstIsFirst ==
    ASSUME NEW P, NEW n \in Nat, Stamped(P, n), P # {}
    PROVE  Worst(P) \in P /\ \A p \in P \ {Worst(P)} : Before(Worst(P), p)
<1> DEFINE priorities == {k \in AssetPriority : \E q \in P : q.request.priority = k}
<1>1. \A q \in P : /\ q.request.priority \in AssetPriority
                    /\ q.sequence \in Nat
  BY DEF Stamped
<1>2. PICK q0 \in P : TRUE
  OBVIOUS
<1>3. priorities \subseteq Nat
  BY DEF AssetPriority, Overscan, Visible, Selected
<1>4. PICK low \in priorities : \A k \in priorities : low <= k
  BY <1>1, <1>2, <1>3, NatMinimum
<1> DEFINE stamps == {k \in Nat : \E q \in P : q.request.priority = low /\ q.sequence = k}
<1>5. PICK q1 \in P : q1.request.priority = low
  BY <1>4
<1>6. q1.sequence \in stamps
  BY <1>1, <1>5
<1>7. PICK first \in stamps : \A k \in stamps : first <= k
  BY <1>6, NatMinimum
<1>8. PICK worst \in P : worst.request.priority = low /\ worst.sequence = first
  BY <1>7
<1>9. \A p \in P \ {worst} : Before(worst, p)
  <2> TAKE p \in P \ {worst}
  <2>1. p.request.priority \in priorities /\ low <= p.request.priority
    BY <1>1, <1>4
  <2>2. CASE p.request.priority = low
    <3>1. p.sequence \in stamps /\ first <= p.sequence
      BY <1>1, <1>7, <2>2
    <3>2. p.sequence # first
      BY <1>8 DEF Stamped
    <3> QED
      BY <1>1, <1>7, <1>8, <2>2, <3>1, <3>2 DEF Before
  <2> QED
    BY <1>3, <1>4, <1>8, <2>1, <2>2 DEF Before
<1> QED
  BY <1>9 DEF Worst

----------------------------------------------------------------------------
(* AssetLane.  What the workers run is exactly what the lane believes is   *)
(* active; that is why bounding the one bounds the other.                  *)

Distinct(entries) ==
    \A p, q \in entries : Reservation(p.request) = Reservation(q.request) => p = q

Consistent ==
    /\ running = assetLane.active
    /\ Stamped(assetLane.pending, assetLane.sequence)
    /\ Distinct(assetLane.pending)
    /\ Distinct(assetLane.active)
    /\ \A q \in assetLane.pending, a \in assetLane.active :
          Reservation(q.request) # Reservation(a.request)

WithinBudget ==
    /\ IsFiniteSet(assetLane.pending) /\ Cardinality(assetLane.pending) <= LaneCapacity
    /\ IsFiniteSet(assetLane.active) /\ Cardinality(assetLane.active) <= LaneConcurrency

LaneInv == LaneTypeOK /\ Consistent /\ WithinBudget

LEMMA InitLaneInv == LaneInit => LaneInv
BY FS_EmptySet, ConcurrencyAssumption, CapacityAssumption
   DEF LaneInit, LaneInv, LaneTypeOK, Consistent, WithinBudget, NewLane, Stamped, Distinct

\* Taking entries out of a set and putting one in, when one went or there is
\* room, keeps a bound.
LEMMA ExchangeBound ==
    ASSUME NEW S, IsFiniteSet(S), NEW R \in SUBSET S, NEW e, NEW n \in Nat,
           Cardinality(S) <= n, R # {} \/ Cardinality(S) < n
    PROVE  IsFiniteSet((S \ R) \cup {e}) /\ Cardinality((S \ R) \cup {e}) <= n
<1>1. IsFiniteSet(S \ R) /\ Cardinality(S \ R) <= Cardinality(S)
  BY FS_Subset
<1>2. Cardinality(S) \in Nat /\ Cardinality(S \ R) \in Nat
  BY <1>1, FS_CardinalityType
<1>3. R # {} => Cardinality(S \ R) # Cardinality(S)
  BY FS_Subset
<1>4. Cardinality(S \ R) < n
  BY <1>1, <1>2, <1>3
<1> DEFINE U == S \ R
<1>5. IsFiniteSet(U) /\ Cardinality(U) \in Nat /\ Cardinality(U) < n
  BY <1>1, <1>2, <1>4
<1> HIDE DEF U
<1>6. /\ IsFiniteSet(U \cup {e})
      /\ Cardinality(U \cup {e}) = IF e \in U THEN Cardinality(U) ELSE Cardinality(U) + 1
  BY <1>5, FS_AddElement
<1>7. IsFiniteSet(U \cup {e}) /\ Cardinality(U \cup {e}) <= n
  BY <1>5, <1>6
<1> QED
  BY <1>7 DEF U

LEMMA SubmitLaneInv ==
    ASSUME LaneInv, NEW request \in LaneRequests, Submit(request)
    PROVE  LaneInv'
<1> DEFINE outcome == SubmitOutcome(assetLane, request, LaneCapacity)
           gone    == Displaced(assetLane, request, outcome)
           entry   == Entry(assetLane, request)
<1>1. CASE outcome = "AlreadyScheduled"
  <2>1. assetLane' = assetLane /\ running' = running /\ signalled' = signalled
    BY <1>1 DEF Submit, AfterSubmit, Admitted, LaneInv, LaneTypeOK
  <2> QED
    BY <2>1 DEF LaneInv, LaneTypeOK, Consistent, WithinBudget
<1>2. CASE outcome \notin Admitted \cup {"AlreadyScheduled"}
  <2>1. /\ assetLane' = [pending |-> assetLane.pending, active |-> assetLane.active,
                   sequence |-> assetLane.sequence + 1]
        /\ running' = running /\ signalled' = signalled
    BY <1>2 DEF Submit, AfterSubmit, Admitted, LaneInv, LaneTypeOK
  <2>2. /\ assetLane'.pending = assetLane.pending /\ assetLane'.active = assetLane.active
        /\ assetLane'.sequence = assetLane.sequence + 1
        /\ assetLane' \in [pending : SUBSET QueueEntries, active : SUBSET Started, sequence : Nat]
    BY <2>1 DEF LaneInv, LaneTypeOK
  <2>3. Stamped(assetLane'.pending, assetLane'.sequence)
    BY <2>2 DEF LaneInv, LaneTypeOK, Consistent, Stamped, QueueEntries
  <2> QED
    BY <2>1, <2>2, <2>3 DEF LaneInv, LaneTypeOK, Consistent, WithinBudget, Stamped
<1>3. CASE outcome \in Admitted
  <2>1. /\ assetLane' = [pending |-> (assetLane.pending \ gone) \cup {entry},
                   active |-> assetLane.active, sequence |-> assetLane.sequence + 1]
        /\ running' = running /\ signalled' = signalled
    BY <1>3 DEF Submit, AfterSubmit, WithEntry, Admitted, LaneInv, LaneTypeOK
  <2>2. /\ assetLane'.pending = (assetLane.pending \ gone) \cup {entry}
        /\ assetLane'.active = assetLane.active
        /\ assetLane'.sequence = assetLane.sequence + 1
        /\ assetLane.sequence \in Nat
        /\ entry = [sequence |-> assetLane.sequence + 1, request |-> request]
        /\ entry \in QueueEntries
    BY <2>1 DEF LaneInv, LaneTypeOK, Entry, QueueEntries
  <2>3. ~IsActive(assetLane, request)
    BY <1>3 DEF SubmitOutcome, Admitted
  <2>4. gone \subseteq assetLane.pending /\ QueuedFor(assetLane, request) \subseteq gone
    <3>1. CASE outcome = "Reprioritized"
      BY <3>1 DEF Displaced, QueuedFor
    <3>2. CASE outcome \in {"Queued", "ReplacedLowerPriority"}
      <4>1. QueuedFor(assetLane, request) = {}
        BY <2>3, <3>2, SMTT(30) DEF SubmitOutcome, QueuedFor, LaneInv, LaneTypeOK, QueueEntries, LaneRequests, AssetPriority,
              Overscan, Visible, Selected
      <4>2. outcome = "ReplacedLowerPriority" => assetLane.pending # {}
        BY <2>3, <4>1 DEF SubmitOutcome
      <4>3. assetLane.pending # {} => Worst(assetLane.pending) \in assetLane.pending
        BY WorstIsFirst DEF LaneInv, LaneTypeOK, Consistent
      <4> QED
        BY <3>2, <4>1, <4>2, <4>3 DEF Displaced
    <3> QED
      BY <1>3, <3>1, <3>2 DEF Admitted
  <2>5. gone # {} \/ Cardinality(assetLane.pending) < LaneCapacity
    <3>1. CASE outcome = "Reprioritized"
      BY <2>3, <3>1 DEF Displaced, SubmitOutcome
    <3>2. CASE outcome = "ReplacedLowerPriority"
      BY <3>2 DEF Displaced
    <3>3. CASE outcome = "Queued"
      BY <2>3, <3>3 DEF SubmitOutcome, HasRoom
    <3> QED
      BY <1>3, <3>1, <3>2, <3>3 DEF Admitted
  <2>6. WithinBudget'
    <3> HIDE DEF gone, entry
    <3>1. IsFiniteSet(assetLane'.pending) /\ Cardinality(assetLane'.pending) <= LaneCapacity
      <4>1. IsFiniteSet(assetLane.pending) /\ Cardinality(assetLane.pending) <= LaneCapacity
        BY DEF LaneInv, WithinBudget
      <4>2. gone \in SUBSET assetLane.pending
        BY <2>4
      <4>3. /\ IsFiniteSet((assetLane.pending \ gone) \cup {entry})
            /\ Cardinality((assetLane.pending \ gone) \cup {entry}) <= LaneCapacity
        BY <2>5, <4>1, <4>2, ExchangeBound, CapacityAssumption
      <4> QED
        BY <2>2, <4>3
    <3> QED
      BY <2>2, <3>1 DEF LaneInv, WithinBudget
  <2>7. Consistent'
    <3>1. Stamped(assetLane'.pending, assetLane'.sequence)
      <4>1. Stamped(assetLane.pending, assetLane.sequence)
        BY DEF LaneInv, Consistent
      <4>2. entry.request.priority \in AssetPriority
        BY <2>2 DEF LaneRequests
      <4> HIDE DEF entry
      <4>3. entry.sequence = assetLane'.sequence
        BY <2>2
      <4>4. /\ assetLane'.sequence \in Nat
            /\ \A x \in Nat : x <= assetLane.sequence =>
                  x <= assetLane'.sequence /\ x # assetLane'.sequence
            /\ assetLane'.sequence <= assetLane'.sequence
        BY <2>2
      <4> HIDE DEF gone
      <4> QED
        BY <2>2, <4>1, <4>2, <4>3, <4>4 DEF Stamped
    <3>2. \A q \in assetLane.pending \ gone : Reservation(q.request) # Reservation(request)
      BY <2>4 DEF QueuedFor
    <3>3. Distinct(assetLane'.pending)
      BY <2>2, <3>2 DEF LaneInv, Consistent, Distinct
    <3>4. \A a \in assetLane.active : Reservation(a.request) # Reservation(request)
      BY <2>3 DEF IsActive
    <3> QED
      BY <2>1, <2>2, <3>1, <3>3, <3>4 DEF LaneInv, Consistent
  <2>8. LaneTypeOK'
    <3> HIDE DEF gone, entry
    <3>1. assetLane' \in [pending : SUBSET QueueEntries, active : SUBSET Started, sequence : Nat]
      <4>1. (assetLane.pending \ gone) \cup {entry} \in SUBSET QueueEntries
        BY <2>2 DEF LaneInv, LaneTypeOK
      <4> QED
        BY <2>1, <2>2, <4>1 DEF LaneInv, LaneTypeOK
    <3> QED
      BY <2>1, <2>7, <3>1 DEF LaneInv, LaneTypeOK, Consistent, Stamped
  <2> QED
    BY <2>6, <2>7, <2>8 DEF LaneInv
<1> QED
  BY <1>1, <1>2, <1>3

LEMMA StartLaneInv ==
    ASSUME LaneInv, StartNext
    PROVE  LaneInv'
<1> DEFINE best == Best(assetLane.pending)
           work == StartedWork(assetLane)
           kept == {a \in assetLane.active : Reservation(a.request) # Reservation(work.request)}
<1>1. best \in assetLane.pending
  BY BestIsLast DEF StartNext, CanStart, LaneInv, LaneTypeOK, Consistent
<1>2. /\ work = [request |-> best.request, token |-> best.sequence]
      /\ work \in Started /\ Reservation(work.request) = Reservation(best.request)
  BY <1>1 DEF StartedWork, LaneInv, LaneTypeOK, Started, QueueEntries
<1>3. kept = assetLane.active
  BY <1>1, <1>2 DEF LaneInv, Consistent
<1>4. /\ assetLane' = [pending |-> assetLane.pending \ {best},
                  active |-> assetLane.active \cup {work}, sequence |-> assetLane.sequence]
      /\ running' = running \cup {work} /\ signalled' = signalled
  BY <1>3 DEF StartNext, AfterStart
<1> HIDE DEF work, best
<1>5. LaneTypeOK'
  BY <1>2, <1>4 DEF LaneInv, LaneTypeOK
<1>6. Consistent'
  BY <1>1, <1>2, <1>4 DEF LaneInv, Consistent, Stamped, Distinct
<1>7. WithinBudget'
  <2>1. IsFiniteSet(assetLane.pending \ {best}) /\ Cardinality(assetLane.pending \ {best}) <= LaneCapacity
    <3>1. /\ IsFiniteSet(assetLane.pending \ {best})
          /\ Cardinality(assetLane.pending \ {best}) = Cardinality(assetLane.pending) - 1
      BY <1>1, FS_RemoveElement DEF LaneInv, WithinBudget
    <3>2. Cardinality(assetLane.pending) \in Nat
      BY FS_CardinalityType DEF LaneInv, WithinBudget
    <3> QED
      BY <3>1, <3>2, CapacityAssumption DEF LaneInv, WithinBudget
  <2>2. IsFiniteSet(assetLane.active \cup {work}) /\ Cardinality(assetLane.active \cup {work}) <= LaneConcurrency
    <3>1. IsFiniteSet(assetLane.active) /\ Cardinality(assetLane.active) < LaneConcurrency
      BY DEF LaneInv, WithinBudget, StartNext, CanStart
    <3>2. Cardinality(assetLane.active) \in Nat
      BY <3>1, FS_CardinalityType
    <3>3. /\ IsFiniteSet(assetLane.active \cup {work})
          /\ Cardinality(assetLane.active \cup {work}) =
                IF work \in assetLane.active THEN Cardinality(assetLane.active)
                ELSE Cardinality(assetLane.active) + 1
      BY <3>1, FS_AddElement
    <3> QED
      BY <3>1, <3>2, <3>3, ConcurrencyAssumption
  <2> QED
    BY <1>4, <2>1, <2>2 DEF WithinBudget
<1> QED
  BY <1>5, <1>6, <1>7 DEF LaneInv

\* Completing, cancelling and retiring only take entries away.
LEMMA ShrinkLaneInv ==
    ASSUME LaneInv,
           assetLane' = [pending |-> assetLane'.pending, active |-> assetLane'.active,
                    sequence |-> assetLane.sequence],
           assetLane'.pending \subseteq assetLane.pending, assetLane'.active \subseteq assetLane.active,
           running' = assetLane'.active, signalled' \subseteq {w.token : w \in running'}
    PROVE  LaneInv'
<1>1. /\ assetLane' \in [pending : SUBSET QueueEntries, active : SUBSET Started, sequence : Nat]
      /\ assetLane'.sequence = assetLane.sequence
  BY DEF LaneInv, LaneTypeOK
<1>2. LaneTypeOK'
  BY <1>1 DEF LaneInv, LaneTypeOK
<1>3. Consistent'
  BY <1>1 DEF LaneInv, Consistent, Stamped, Distinct
<1>4. WithinBudget'
  <2>1. IsFiniteSet(assetLane'.pending) /\ Cardinality(assetLane'.pending) <= Cardinality(assetLane.pending)
    BY FS_Subset DEF LaneInv, WithinBudget
  <2>2. IsFiniteSet(assetLane'.active) /\ Cardinality(assetLane'.active) <= Cardinality(assetLane.active)
    BY FS_Subset DEF LaneInv, WithinBudget
  <2>3. /\ Cardinality(assetLane.pending) \in Nat /\ Cardinality(assetLane'.pending) \in Nat
        /\ Cardinality(assetLane.active) \in Nat /\ Cardinality(assetLane'.active) \in Nat
    BY <2>1, <2>2, FS_CardinalityType DEF LaneInv, WithinBudget
  <2> QED
    BY <2>1, <2>2, <2>3, CapacityAssumption, ConcurrencyAssumption DEF LaneInv, WithinBudget
<1> QED
  BY <1>2, <1>3, <1>4 DEF LaneInv

LEMMA CompleteLaneInv ==
    ASSUME LaneInv, NEW work \in running, Complete(work)
    PROVE  LaneInv'
<1>1. /\ assetLane' = [assetLane EXCEPT !.active = {a \in assetLane.active : ~SameWork(a.request, work.request)}]
      /\ running' = running \ {work} /\ signalled' = signalled \ {work.token}
  BY DEF Complete, AfterComplete, LaneInv, LaneTypeOK
<1>2. {a \in assetLane.active : ~SameWork(a.request, work.request)} = assetLane.active \ {work}
  BY DEF LaneInv, Consistent, Distinct, SameWork
<1>3. /\ assetLane'.pending = assetLane.pending /\ assetLane'.active = assetLane.active \ {work}
      /\ assetLane' = [pending |-> assetLane'.pending, active |-> assetLane'.active, sequence |-> assetLane.sequence]
  BY <1>1, <1>2 DEF LaneInv, LaneTypeOK
<1>4. running' = assetLane'.active
  BY <1>1, <1>3 DEF LaneInv, Consistent
<1>5. signalled' \subseteq {w.token : w \in running'}
  BY <1>1 DEF LaneInv, LaneTypeOK
<1> QED
  BY <1>3, <1>4, <1>5, ShrinkLaneInv

LEMMA LateCompleteLaneInv ==
    ASSUME LaneInv, NEW request \in LaneRequests, LateComplete(request)
    PROVE  LaneInv'
<1>1. /\ assetLane' = [assetLane EXCEPT !.active = {a \in assetLane.active : ~SameWork(a.request, request)}]
      /\ running' = running /\ signalled' = signalled
  BY DEF LateComplete, AfterComplete, LaneInv, LaneTypeOK
<1>2. {a \in assetLane.active : ~SameWork(a.request, request)} = assetLane.active
  BY DEF LaneInv, Consistent, LateComplete
<1>3. /\ assetLane'.pending = assetLane.pending /\ assetLane'.active = assetLane.active
      /\ assetLane' = [pending |-> assetLane'.pending, active |-> assetLane'.active, sequence |-> assetLane.sequence]
  BY <1>1, <1>2 DEF LaneInv, LaneTypeOK
<1> QED
  BY <1>1, <1>3, ShrinkLaneInv DEF LaneInv, LaneTypeOK, Consistent

LEMMA CancelLaneInv ==
    ASSUME LaneInv, NEW request \in LaneRequests, Cancel(request)
    PROVE  LaneInv'
<1>1. /\ assetLane' = [assetLane EXCEPT !.pending = {q \in assetLane.pending : ~SameWork(q.request, request)}]
      /\ running' = running /\ signalled' = signalled \cup CancelSignals(assetLane, request)
  BY DEF Cancel, AfterCancel, LaneInv, LaneTypeOK
<1>2. /\ assetLane'.pending \subseteq assetLane.pending /\ assetLane'.active = assetLane.active
      /\ assetLane' = [pending |-> assetLane'.pending, active |-> assetLane'.active, sequence |-> assetLane.sequence]
  BY <1>1 DEF LaneInv, LaneTypeOK
<1>3. CancelSignals(assetLane, request) \subseteq {w.token : w \in running}
  BY DEF CancelSignals, LaneInv, Consistent
<1> QED
  BY <1>1, <1>2, <1>3, ShrinkLaneInv DEF LaneInv, LaneTypeOK, Consistent

LEMMA RetireLaneInv ==
    ASSUME LaneInv, NEW scope \in Scopes, NEW generation \in Generations,
           RetireScopeGeneration(scope, generation)
    PROVE  LaneInv'
<1>1. /\ assetLane' = [assetLane EXCEPT !.pending =
                      {q \in assetLane.pending : ~Superseded(q.request, scope, generation)}]
      /\ running' = running
      /\ signalled' = signalled \cup RetireSignals(assetLane, scope, generation)
  BY DEF RetireScopeGeneration, AfterRetire, LaneInv, LaneTypeOK
<1>2. /\ assetLane'.pending \subseteq assetLane.pending /\ assetLane'.active = assetLane.active
      /\ assetLane' = [pending |-> assetLane'.pending, active |-> assetLane'.active, sequence |-> assetLane.sequence]
  BY <1>1 DEF LaneInv, LaneTypeOK
<1>3. RetireSignals(assetLane, scope, generation) \subseteq {w.token : w \in running}
  BY DEF RetireSignals, LaneInv, Consistent
<1> QED
  BY <1>1, <1>2, <1>3, ShrinkLaneInv DEF LaneInv, LaneTypeOK, Consistent

LEMMA NextLaneInv == LaneInv /\ [LaneNext]_laneVars => LaneInv'
<1> SUFFICES ASSUME LaneInv, [LaneNext]_laneVars PROVE LaneInv'
  OBVIOUS
<1>1. CASE UNCHANGED laneVars
  BY <1>1 DEF laneVars, LaneInv, LaneTypeOK, Consistent, WithinBudget
<1>2. CASE \E request \in LaneRequests : Submit(request) \/ LateComplete(request) \/ Cancel(request)
  BY <1>2, SubmitLaneInv, LateCompleteLaneInv, CancelLaneInv
<1>3. CASE StartNext
  BY <1>3, StartLaneInv
<1>4. CASE WorkerReturns
  BY <1>4, CompleteLaneInv DEF WorkerReturns
<1>5. CASE \E scope \in Scopes, generation \in Generations :
              RetireScopeGeneration(scope, generation)
  BY <1>5, RetireLaneInv
<1> QED
  BY <1>1, <1>2, <1>3, <1>4, <1>5 DEF LaneNext

LEMMA LaneInvariance == LaneSpec => []LaneInv
BY InitLaneInv, NextLaneInv, PTL DEF LaneSpec

----
(* The lane and its workers are well-formed and stamped within the lane's  *)
(* counter (BoundedAssetLane, asset_work.rs:153).                          *)
THEOREM LaneTypeCorrect == LaneSpec => []LaneTypeOK
<1>1. LaneInv => LaneTypeOK
  BY DEF LaneInv
<1> QED
  BY <1>1, LaneInvariance, PTL

(* However requests, cancellations, retirements and late acknowledgements  *)
(* interleave, the workers of a lane never exceed its concurrency          *)
(* (asset_work.rs:247-282 and the promise at 305-307).                     *)
THEOREM ConcurrencyRespected == LaneSpec => []RunningWithinCap
<1>1. LaneInv => RunningWithinCap
  BY DEF LaneInv, Consistent, WithinBudget, RunningWithinCap
<1> QED
  BY <1>1, LaneInvariance, PTL

(* No asset of a surface is fetched by two workers at once, even across    *)
(* generations (asset_work.rs:182-186).                                    *)
THEOREM NoDoubleFetch == LaneSpec => []OneWorkerPerReservation
<1>1. LaneInv => OneWorkerPerReservation
  BY DEF LaneInv, Consistent, Distinct, OneWorkerPerReservation
<1> QED
  BY <1>1, LaneInvariance, PTL

(* The pending queue stays within its budget, with one entry per           *)
(* reservation and none for an asset in progress (asset_work.rs:213-245).  *)
THEOREM QueueWithinBudget == LaneSpec => []QueueSound
<1>1. LaneInv => QueueSound
  BY DEF LaneInv, Consistent, WithinBudget, Distinct, QueueBounded, QueueSound
<1> QED
  BY <1>1, LaneInvariance, PTL

(* A retirement sets the flag of every worker of a retired generation      *)
(* (asset_work.rs:328-332): the lane never loses track of a running worker.*)
THEOREM RetirementComplete == LaneSpec => RetirementReachesWorkers
<1>1. ASSUME LaneInv, NEW scope \in Scopes, NEW generation \in Generations,
             RetireScopeGeneration(scope, generation)
      PROVE  \A w \in running' :
                Superseded(w.request, scope, generation) => w.token \in signalled'
  BY <1>1 DEF RetireScopeGeneration, RetireSignals, LaneInv, Consistent
<1>2. LaneInv /\ [LaneNext]_laneVars =>
         [\A scope \in Scopes, generation \in Generations :
            RetireScopeGeneration(scope, generation) =>
               \A w \in running' :
                  Superseded(w.request, scope, generation) => w.token \in signalled']_laneVars
  BY <1>1
<1> QED
  BY <1>2, LaneInvariance, PTL DEF LaneSpec, RetirementReachesWorkers

LEMMA EvictionStep ==
    ASSUME LaneInv, NEW request \in LaneRequests, Submit(request),
           NEW q \in assetLane.pending, q \notin assetLane'.pending,
           Reservation(q.request) # Reservation(request)
    PROVE  /\ q.request.priority < request.priority
           /\ \A p \in assetLane'.pending : Before(q, p)
<1> DEFINE outcome == SubmitOutcome(assetLane, request, LaneCapacity)
           worst   == Worst(assetLane.pending)
<1>1. /\ outcome \in Admitted /\ q \in Displaced(assetLane, request, outcome)
      /\ assetLane'.pending = (assetLane.pending \ Displaced(assetLane, request, outcome))
                            \cup {Entry(assetLane, request)}
  BY DEF Submit, AfterSubmit, WithEntry
<1>2. outcome = "ReplacedLowerPriority" /\ q = worst
  BY <1>1 DEF Displaced, QueuedFor, Admitted
<1>3. PICK p \in assetLane.pending : p.request.priority < request.priority
  BY <1>2 DEF SubmitOutcome
<1>4. \A p1 \in assetLane.pending \ {worst} : Before(worst, p1)
  BY WorstIsFirst DEF LaneInv, LaneTypeOK, Consistent
<1>5. /\ q.request.priority \in Nat /\ p.request.priority \in Nat
      /\ request.priority \in Nat
  BY DEF LaneInv, LaneTypeOK, QueueEntries, LaneRequests, AssetPriority, Overscan, Visible, Selected
<1>6. q.request.priority < request.priority
  <2>1. CASE p = worst
    BY <1>2, <1>3, <2>1
  <2>2. CASE p # worst
    BY <1>2, <1>3, <1>4, <1>5, <2>2 DEF Before
  <2> QED
    BY <2>1, <2>2
<1>7. Before(q, Entry(assetLane, request))
  BY <1>6 DEF Before, Entry
<1>8. \A p1 \in assetLane'.pending : Before(q, p1)
  BY <1>1, <1>2, <1>4, <1>7 DEF Displaced
<1> QED
  BY <1>6, <1>8

(* Pending work of another asset is displaced only by work that matters    *)
(* more, and the least worth goes first (asset_work.rs:222-244).           *)
THEOREM EvictionInOrder == LaneSpec => EvictionRespectsPriority
<1>1. LaneInv /\ [LaneNext]_laneVars =>
         [\A request \in LaneRequests, q \in assetLane.pending :
            /\ Submit(request)
            /\ q \notin assetLane'.pending
            /\ Reservation(q.request) # Reservation(request)
            => /\ q.request.priority < request.priority
               /\ \A p \in assetLane'.pending : Before(q, p)]_laneVars
  BY EvictionStep
<1> QED
  BY <1>1, LaneInvariance, PTL DEF LaneSpec, EvictionRespectsPriority

----------------------------------------------------------------------------
(* ThumbnailDispatch.  A job is in one place: in somebody's hand (a worker, *)
(* or the completion channel), or held by one lane.  The argument follows a *)
(* job through its places: HostInv(h, hand) is the invariant of a host      *)
(* value while the jobs of hand are out of it, so that the steps of one     *)
(* UI-thread function can be taken one at a time.                           *)

Keys == [asset : Assets, tag : Nat]

Requests == [scope : {"dispatch"}, key : Keys, generation : Nat, priority : AssetPriority]

Jobs == [asset : Assets, request : Requests, seen : Nat]

LaneStates ==
    [pending : SUBSET [sequence : Nat, request : Requests],
     active : SUBSET [request : Requests, token : Nat], sequence : Nat]

LiveEntries == [slot : Keys \cup Icons, id : [key : Keys, generation : Nat]]

Waiters == [slot : Keys \cup Icons, scope : Surfaces, generation : Nat]

HostStates ==
    [lane : [Lanes -> LaneStates], held : [Lanes -> SUBSET Jobs],
     live : SUBSET LiveEntries, waiters : SUBSET Waiters, inFlight : SUBSET Assets,
     thumbs : Seq([asset : Thumbs, seen : Nat]), icons : SUBSET Icons, generation : Nat]

\* A job as the dispatcher makes it, one of the first g.
JobOK(j, g) ==
    /\ j.request.key.asset = j.asset
    /\ j.request.generation \in 1..g /\ j.seen \in 0..MaxVersion

\* The queue of a lane and what is held beside it are the same requests, the
\* stamps are distinct and at most the lane's counter, the keys are distinct.
LaneOK(lane, jobs) ==
    /\ \A q \in lane.pending : q.sequence <= lane.sequence
    /\ \A p, q \in lane.pending : p.sequence = q.sequence => p = q
    /\ \A p, q \in lane.pending : p.request.key = q.request.key => p = q
    /\ \A q \in lane.pending : \E j \in jobs : j.request = q.request
    /\ \A j \in jobs : \E q \in lane.pending : q.request = j.request

\* All jobs: those in hand and those the lanes hold.
All(held, hand) ==
    hand \cup held["provider"] \cup held["upload"] \cup held["apply"]

\* Reservations and marks stand for exactly the jobs of all.
Booked(all, live, marks) ==
    /\ live = {LiveEntry(j) : j \in all}
    /\ \A j, k \in all : Slot(j) = Slot(k) => j = k
    /\ marks \subseteq {j.asset : j \in all}
    /\ \A i \in Icons : i \in marks <=> \E j \in all : j.asset = i

\* No job is in two places.
Apart(held, hand) ==
    \A l \in Lanes : \A j \in held[l] :
       j \notin hand /\ \A m \in Lanes : m # l => j \notin held[m]

\* The UI lanes acknowledge at once; a provider slot is taken for a job in hand.
ActiveOK(lane, hand) ==
    /\ lane["upload"].active = {} /\ lane["apply"].active = {}
    /\ \A a \in lane["provider"].active : \E j \in hand : WorkId(j.request) = WorkId(a.request)

Wanted(jobs, waiters) == \A j \in jobs : \E w \in waiters : w.slot = Slot(j)

HostInv(h, hand) ==
    /\ h \in HostStates /\ Len(h.thumbs) <= CacheCap
    /\ hand \subseteq Jobs /\ IsFiniteSet(hand)
    /\ \A l \in Lanes : LaneOK(h.lane[l], h.held[l]) /\ IsFiniteSet(h.held[l])
    /\ \A j \in All(h.held, hand) : JobOK(j, h.generation)
    /\ ActiveOK(h.lane, hand)
    /\ Apart(h.held, hand)
    /\ Booked(All(h.held, hand), h.live, h.inFlight)
    /\ Wanted(h.held["provider"], h.waiters)

Unsent == {w \in workers : w.stage # "sent"}

WorkersInv ==
    /\ workers \subseteq [job : Jobs, stage : {"fetching", "fetched", "sent"}]
    /\ \A v, w \in Unsent : Slot(v.job) = Slot(w.job) => v = w
    /\ \A w \in Unsent : w.job \notin completed

Surroundings ==
    /\ pump \in {"waiting", "accept", "start", "timer", "upload", "apply"}
    /\ wake \in BOOLEAN /\ budget \in 0..(UploadsPerFrame + AppliesPerFrame)
    /\ version \in [Assets -> 0..MaxVersion]
    /\ listing \in [Surfaces -> [generation : Nat, revision : [Assets -> 0..MaxVersion]]]

DispatchInv == HostInv(host, Travelling) /\ WorkersInv /\ Surroundings

----------------------------------------------------------------------------
(* One lane. *)

DistinctKeys(jobs) == \A j, k \in jobs : j.request.key = k.request.key => j = k

LEMMA LaneStamped ==
    ASSUME NEW lane \in LaneStates, NEW jobs, LaneOK(lane, jobs)
    PROVE  Stamped(lane.pending, lane.sequence) /\ lane.sequence \in Nat
<1>1. lane.sequence \in Nat /\ lane.pending \subseteq [sequence : Nat, request : Requests]
  BY DEF LaneStates
<1>2. \A q \in lane.pending : q.sequence \in Nat /\ q.request.priority \in AssetPriority
  BY <1>1 DEF Requests
<1> QED
  BY <1>1, <1>2 DEF LaneOK, Stamped

\* What a lane holds does not depend on what it believes is active.
LEMMA LaneSame ==
    ASSUME NEW lane \in LaneStates, NEW jobs, LaneOK(lane, jobs), NEW to \in LaneStates,
           to.pending = lane.pending, to.sequence \in {lane.sequence, lane.sequence + 1}
    PROVE  LaneOK(to, jobs)
<1>1. \A q \in lane.pending : q.sequence \in Nat
  BY DEF LaneStates
<1>2. lane.sequence \in Nat
  BY DEF LaneStates
<1>3. \A q \in lane.pending : q.sequence <= to.sequence
  BY <1>1, <1>2 DEF LaneOK
<1> QED
  BY <1>3 DEF LaneOK

\* The submission of request to a lane of that capacity: its outcome, the jobs
\* whose entries it evicts, and the lane after it.
Submits(lane, jobs, request, cap, outcome, gone, to) ==
    /\ outcome = SubmitOutcome(lane, request, cap)
    /\ gone = {j \in jobs : \E r \in Evicted(lane, outcome) : WorkId(j.request) = WorkId(r)}
    /\ to = AfterSubmit(lane, request, outcome)

\* The lane neither holds nor runs anything under the key of request.
Unknown(lane, jobs, request) ==
    /\ \A k \in jobs : k.request.key # request.key
    /\ \A a \in lane.active : a.request.key # request.key

\* The lane after a submission, with the payloads of what it evicted dropped.
Takes(lane, jobs, job, outcome, gone, to) ==
    /\ to \in LaneStates /\ to.active = lane.active
    /\ outcome \in Admitted => LaneOK(to, (jobs \ gone) \cup {job})
    /\ outcome \notin Admitted => gone = {} /\ LaneOK(to, jobs)

\* A new request enters: with room, in the place of the worst entry, or not at all.
LEMMA LaneTakes ==
    ASSUME NEW lane \in LaneStates, NEW jobs \in SUBSET Jobs, LaneOK(lane, jobs),
           DistinctKeys(jobs), NEW job \in Jobs,
           Unknown(lane, jobs, job.request), NEW cap, NEW outcome, NEW gone, NEW to,
           Submits(lane, jobs, job.request, cap, outcome, gone, to)
    PROVE  Takes(lane, jobs, job, outcome, gone, to)
<1> DEFINE request == job.request
           entry   == Entry(lane, request)
<1>0. /\ outcome = SubmitOutcome(lane, request, cap)
      /\ gone = {j \in jobs : \E r \in Evicted(lane, outcome) : WorkId(j.request) = WorkId(r)}
      /\ to = AfterSubmit(lane, request, outcome)
  BY DEF Submits
<1>1. /\ request \in Requests /\ lane.sequence \in Nat
      /\ \A q \in lane.pending : q.sequence \in Nat /\ q.request \in Requests
      /\ \A a \in lane.active : a.request \in Requests
  BY DEF Jobs, LaneStates
<1>2. ~IsActive(lane, request)
  BY <1>1 DEF IsActive, Reservation, Unknown
<1>3. QueuedFor(lane, request) = {}
  <2> SUFFICES ASSUME NEW q \in lane.pending, Reservation(q.request) = Reservation(request)
               PROVE  FALSE
    BY DEF QueuedFor
  <2>1. PICK j \in jobs : j.request = q.request
    BY DEF LaneOK
  <2> QED
    BY <2>1 DEF Reservation, Unknown
<1>4. \/ outcome = "Queued" \/ outcome = "QueueFull"
      \/ outcome = "ReplacedLowerPriority" /\ lane.pending # {}
  BY <1>0, <1>2, <1>3 DEF SubmitOutcome
<1>5. entry = [sequence |-> lane.sequence + 1, request |-> request]
      /\ entry \in [sequence : Nat, request : Requests]
  BY <1>1 DEF Entry
<1>6. CASE outcome = "QueueFull"
  <2>1. to = [pending |-> lane.pending, active |-> lane.active, sequence |-> lane.sequence + 1]
    BY <1>0, <1>6 DEF AfterSubmit, Admitted
  <2>2. to \in LaneStates
    BY <1>1, <2>1 DEF LaneStates
  <2>3. gone = {}
    BY <1>0, <1>6 DEF Evicted
  <2>4. LaneOK(to, jobs)
    BY <1>1, <2>1, <2>2, LaneSame
  <2> QED
    BY <1>6, <2>1, <2>2, <2>3, <2>4 DEF Admitted, Takes
<1>7. ASSUME outcome \in Admitted, NEW out \in SUBSET lane.pending,
             to = [pending |-> (lane.pending \ out) \cup {entry}, active |-> lane.active,
                   sequence |-> lane.sequence + 1],
             gone = {j \in jobs : \E q \in out : j.request = q.request}
      PROVE  to \in LaneStates /\ LaneOK(to, (jobs \ gone) \cup {job})
  <2> DEFINE rest == (jobs \ gone) \cup {job}
  <2> HIDE DEF entry
  <2>1. to \in LaneStates
    BY <1>1, <1>5, <1>7 DEF LaneStates
  <2>2. \A q \in to.pending : (q \in lane.pending /\ q \notin out) \/ q = entry
    BY <1>7
  <2>3. \A q \in to.pending : q.sequence <= to.sequence
    BY <1>1, <1>5, <1>7, <2>2 DEF LaneOK
  <2>4. \A q \in lane.pending : q.sequence # entry.sequence /\ q.request.key # entry.request.key
    <3>1. \A q \in lane.pending : q.sequence # entry.sequence
      BY <1>1, <1>5 DEF LaneOK
    <3>2. \A q \in lane.pending : q.request.key # entry.request.key
      BY <1>5 DEF LaneOK, Unknown
    <3> QED
      BY <3>1, <3>2
  <2>5. \A p, q \in to.pending : p.sequence = q.sequence => p = q
    BY <2>2, <2>4 DEF LaneOK
  <2>6. \A p, q \in to.pending : p.request.key = q.request.key => p = q
    BY <2>2, <2>4 DEF LaneOK
  <2>7. ASSUME NEW q \in to.pending PROVE \E j \in rest : j.request = q.request
    <3>1. CASE q = entry
      BY <1>5, <3>1
    <3>2. CASE q \in lane.pending /\ q \notin out
      <4>1. PICK j \in jobs : j.request = q.request
        BY <3>2 DEF LaneOK
      <4>2. j \notin gone
        BY <1>7, <3>2, <4>1 DEF LaneOK
      <4> QED
        BY <4>1, <4>2
    <3> QED
      BY <2>2, <3>1, <3>2
  <2>8. ASSUME NEW j \in rest PROVE \E q \in to.pending : q.request = j.request
    <3>1. CASE j = job
      BY <1>5, <1>7, <3>1
    <3>2. CASE j \in jobs /\ j \notin gone
      <4>1. PICK q \in lane.pending : q.request = j.request
        BY <3>2 DEF LaneOK
      <4>2. q \notin out
        BY <1>7, <3>2, <4>1
      <4> QED
        BY <1>7, <4>1, <4>2
    <3> QED
      BY <3>1, <3>2
  <2> HIDE DEF rest
  <2>9. LaneOK(to, rest)
    BY <2>3, <2>5, <2>6, <2>7, <2>8 DEF LaneOK
  <2> QED
    BY <2>1, <2>9 DEF rest
<1>8. CASE outcome = "Queued"
  <2>1. to = [pending |-> (lane.pending \ {}) \cup {entry}, active |-> lane.active,
              sequence |-> lane.sequence + 1]
    BY <1>0, <1>8 DEF AfterSubmit, WithEntry, Displaced, Admitted
  <2>2. gone = {j \in jobs : \E q \in {} : j.request = q.request}
    BY <1>0, <1>8 DEF Evicted
  <2>3. outcome \in Admitted
    BY <1>8 DEF Admitted
  <2>4. {} \in SUBSET lane.pending
    OBVIOUS
  <2>5. to \in LaneStates /\ LaneOK(to, (jobs \ gone) \cup {job})
    BY <1>7, <2>1, <2>2, <2>3, <2>4
  <2> QED
    BY <2>1, <2>3, <2>5 DEF Takes
<1>9. CASE outcome = "ReplacedLowerPriority" /\ lane.pending # {}
  <2> DEFINE worst == Worst(lane.pending)
  <2>1. worst \in lane.pending
    BY <1>9, LaneStamped, WorstIsFirst
  <2>2. to = [pending |-> (lane.pending \ {worst}) \cup {entry}, active |-> lane.active,
              sequence |-> lane.sequence + 1]
    BY <1>0, <1>9 DEF AfterSubmit, WithEntry, Displaced, Admitted
  <2>3. Evicted(lane, outcome) = {worst.request}
    BY <1>0, <1>9 DEF Evicted
  <2> HIDE DEF worst
  <2>4. gone = {j \in jobs : \E q \in {worst} : j.request = q.request}
    <3>1. PICK k \in jobs : k.request = worst.request
      BY <2>1 DEF LaneOK
    <3>2. \A j \in jobs : WorkId(j.request) = WorkId(worst.request) => j.request = worst.request
      BY <3>1 DEF WorkId, DistinctKeys
    <3> QED
      BY <1>0, <2>3, <3>2
  <2>5. outcome \in Admitted
    BY <1>9 DEF Admitted
  <2>6. {worst} \in SUBSET lane.pending
    BY <2>1
  <2>7. to \in LaneStates /\ LaneOK(to, (jobs \ gone) \cup {job})
    BY <1>7, <2>2, <2>4, <2>5, <2>6
  <2> QED
    BY <2>2, <2>5, <2>7 DEF Takes
<1> QED
  BY <1>4, <1>6, <1>8, <1>9

\* Entries taken out of the queue together with their jobs.
LEMMA LaneDrops ==
    ASSUME NEW lane \in LaneStates, NEW jobs \in SUBSET Jobs, LaneOK(lane, jobs),
           DistinctKeys(jobs), NEW gone \in SUBSET jobs, NEW to \in LaneStates,
           to.pending = {q \in lane.pending : \A j \in gone : j.request # q.request},
           to.sequence = lane.sequence
    PROVE  LaneOK(to, jobs \ gone)
<1>1. ASSUME NEW q \in to.pending PROVE \E j \in jobs \ gone : j.request = q.request
  <2>1. PICK j \in jobs : j.request = q.request
    BY DEF LaneOK
  <2> QED
    BY <2>1
<1>2. ASSUME NEW j \in jobs \ gone PROVE \E q \in to.pending : q.request = j.request
  <2>1. PICK q \in lane.pending : q.request = j.request
    BY DEF LaneOK
  <2>2. \A k \in gone : k.request # q.request
    BY <2>1 DEF DistinctKeys
  <2> QED
    BY <2>1, <2>2
<1> QED
  BY <1>1, <1>2 DEF LaneOK

\* The next work of a lane is the one job of its entry.
LEMMA LaneStarts ==
    ASSUME NEW lane \in LaneStates, NEW jobs \in SUBSET Jobs, LaneOK(lane, jobs),
           DistinctKeys(jobs), lane.pending # {}
    PROVE  \E j \in jobs :
              /\ j.request = StartedWork(lane).request
              /\ {k \in jobs : \E r \in {StartedWork(lane).request} :
                                  WorkId(k.request) = WorkId(r)} = {j}
              /\ AfterStart(lane) \in LaneStates
              /\ AfterStart(lane).active \subseteq lane.active \cup {StartedWork(lane)}
              /\ LaneOK(AfterStart(lane), jobs \ {j})
<1> DEFINE best == Best(lane.pending)
           work == StartedWork(lane)
           to   == AfterStart(lane)
<1>1. best \in lane.pending
  BY LaneStamped, BestIsLast
<1>2. work = [request |-> best.request, token |-> best.sequence]
  BY DEF StartedWork
<1>3. /\ best.request \in Requests /\ best.sequence \in Nat
      /\ lane.active \subseteq [request : Requests, token : Nat]
      /\ lane.pending \subseteq [sequence : Nat, request : Requests] /\ lane.sequence \in Nat
  BY <1>1 DEF LaneStates
<1>4. /\ to.pending = lane.pending \ {best} /\ to.sequence = lane.sequence
      /\ to.active \subseteq lane.active \cup {work}
      /\ to = [pending |-> to.pending, active |-> to.active, sequence |-> to.sequence]
  BY DEF AfterStart
<1> HIDE DEF to, best
<1>5. to \in LaneStates
  <2>1. work \in [request : Requests, token : Nat]
    BY <1>2, <1>3
  <2> HIDE DEF work
  <2>2. to.active \subseteq [request : Requests, token : Nat]
    BY <1>3, <1>4, <2>1
  <2>3. to.pending \subseteq [sequence : Nat, request : Requests]
    BY <1>3, <1>4
  <2> QED
    BY <1>3, <1>4, <2>2, <2>3 DEF LaneStates
<1>6. PICK j \in jobs : j.request = best.request
  BY <1>1 DEF LaneOK
<1>7. to.pending = {q \in lane.pending : \A k \in {j} : k.request # q.request}
  BY <1>1, <1>4, <1>6 DEF LaneOK
<1>8. LaneOK(to, jobs \ {j})
  <2>1. {j} \in SUBSET jobs
    OBVIOUS
  <2> QED
    BY <1>4, <1>5, <1>7, <2>1, LaneDrops
<1>9. {k \in jobs : \E r \in {work.request} : WorkId(k.request) = WorkId(r)} = {j}
  BY <1>2, <1>6 DEF WorkId, DistinctKeys
<1>10. j.request = work.request
  BY <1>2, <1>6
<1>11. to \in LaneStates /\ to.active \subseteq lane.active \cup {work} /\ LaneOK(to, jobs \ {j})
  BY <1>4, <1>5, <1>8
<1> HIDE DEF work
<1> QED
  BY <1>9, <1>10, <1>11, Zenon DEF to, work

\* The submission of the request of j at a higher priority, with what follows from it.
Raises(lane, jobs, j, priority, cap, request, to) ==
    /\ j \in jobs /\ j.request.priority < priority
    /\ \A a \in lane.active : a.request.key # j.request.key
    /\ request = [j.request EXCEPT !.priority = priority]
    /\ to = AfterSubmit(lane, request, SubmitOutcome(lane, request, cap))

Raised(lane, jobs, j, request, to) ==
    /\ to \in LaneStates /\ to.active = lane.active
    /\ LaneOK(to, (jobs \ {j}) \cup {[j EXCEPT !.request = request]})

\* A queued request moves up when it is asked for again at a higher priority.
LEMMA LaneRaises ==
    ASSUME NEW lane \in LaneStates, NEW jobs \in SUBSET Jobs, LaneOK(lane, jobs),
           DistinctKeys(jobs), NEW priority \in AssetPriority,
           NEW j, NEW cap, NEW request, NEW to,
           Raises(lane, jobs, j, priority, cap, request, to)
    PROVE  Raised(lane, jobs, j, request, to)
<1>0. /\ j \in jobs /\ j.request.priority < priority
      /\ \A a \in lane.active : a.request.key # j.request.key
      /\ request = [j.request EXCEPT !.priority = priority]
      /\ to = AfterSubmit(lane, request, SubmitOutcome(lane, request, cap))
  BY DEF Raises
<1> DEFINE entry == Entry(lane, request)
           new   == [j EXCEPT !.request = request]
<1>1. /\ j.request \in Requests /\ request \in Requests /\ lane.sequence \in Nat
      /\ \A q \in lane.pending : q.sequence \in Nat /\ q.request \in Requests
      /\ \A a \in lane.active : a.request \in Requests
  BY <1>0 DEF Jobs, LaneStates, Requests
<1>2. /\ request.key = j.request.key /\ request.scope = j.request.scope
      /\ request.generation = j.request.generation /\ request.priority = priority
  BY <1>0, <1>1 DEF Requests
<1>3. ~IsActive(lane, request)
  BY <1>0, <1>2 DEF IsActive, Reservation
<1>4. PICK q \in lane.pending : q.request = j.request
  BY <1>0 DEF LaneOK
<1>5. QueuedFor(lane, request) = {q}
  BY <1>1, <1>2, <1>4 DEF QueuedFor, Reservation, LaneOK
<1>6. j.request.priority \in Nat /\ priority \in Nat /\ ~(j.request.priority >= priority)
  BY <1>0, <1>1 DEF Requests, AssetPriority, Overscan, Visible, Selected
<1>7. SubmitOutcome(lane, request, cap) = "Reprioritized"
  BY <1>2, <1>3, <1>4, <1>5, <1>6 DEF SubmitOutcome
<1>8. to = [pending |-> (lane.pending \ {q}) \cup {entry}, active |-> lane.active,
            sequence |-> lane.sequence + 1]
  BY <1>0, <1>5, <1>7 DEF AfterSubmit, WithEntry, Displaced, Admitted
<1>9. entry = [sequence |-> lane.sequence + 1, request |-> request]
      /\ entry \in [sequence : Nat, request : Requests]
  BY <1>1 DEF Entry
<1>10. new.request = request
  BY <1>0 DEF Jobs
<1> HIDE DEF entry, new
<1>11. to \in LaneStates
  BY <1>1, <1>8, <1>9 DEF LaneStates
<1>12. \A p \in to.pending : (p \in lane.pending /\ p # q) \/ p = entry
  BY <1>8
<1>13. \A p \in lane.pending : p.sequence # entry.sequence
  BY <1>1, <1>9 DEF LaneOK
<1>14. \A p \in lane.pending : p # q => p.request.key # entry.request.key
  BY <1>2, <1>4, <1>9 DEF LaneOK
<1>15. \A p \in to.pending : p.sequence <= to.sequence
  BY <1>1, <1>8, <1>9, <1>12 DEF LaneOK
<1>16. \A p, r \in to.pending : p.sequence = r.sequence => p = r
  BY <1>12, <1>13 DEF LaneOK
<1>17. \A p, r \in to.pending : p.request.key = r.request.key => p = r
  BY <1>12, <1>14 DEF LaneOK
<1> DEFINE rest == (jobs \ {j}) \cup {new}
<1>18. ASSUME NEW p \in to.pending PROVE \E k \in rest : k.request = p.request
  <2>1. CASE p = entry
    BY <1>9, <1>10, <2>1
  <2>2. CASE p \in lane.pending /\ p # q
    <3>1. PICK k \in jobs : k.request = p.request
      BY <2>2 DEF LaneOK
    <3>2. k # j
      BY <1>4, <2>2, <3>1 DEF LaneOK
    <3> QED
      BY <3>1, <3>2
  <2> QED
    BY <1>12, <2>1, <2>2
<1>19. ASSUME NEW k \in rest PROVE \E p \in to.pending : p.request = k.request
  <2>1. CASE k = new
    BY <1>8, <1>9, <1>10, <2>1
  <2>2. CASE k \in jobs /\ k # j
    <3>1. PICK p \in lane.pending : p.request = k.request
      BY <2>2 DEF LaneOK
    <3>2. p # q
      BY <1>0, <1>4, <2>2, <3>1 DEF DistinctKeys
    <3> QED
      BY <1>8, <3>1, <3>2
  <2> QED
    BY <2>1, <2>2
<1> HIDE DEF rest
<1>20. LaneOK(to, rest)
  BY <1>15, <1>16, <1>17, <1>18, <1>19 DEF LaneOK
<1> QED
  BY <1>8, <1>11, <1>20 DEF rest, new, Raised

----------------------------------------------------------------------------
(* The books: reservations and marks against the set of all jobs.           *)

LEMMA SlotTyped ==
    ASSUME NEW j \in Jobs
    PROVE  /\ Slot(j) \in Keys \cup Icons /\ LiveEntry(j) \in LiveEntries
           /\ j.asset \in Icons => Slot(j) = j.asset
           /\ LiveEntry(j).slot = Slot(j)
<1>1. j.asset \in Thumbs \cup Icons /\ j.request.key \in Keys /\ j.request.generation \in Nat
  BY DEF Jobs, Requests, Assets
<1>2. Slot(j) \in Keys \cup Icons /\ (j.asset \in Icons => Slot(j) = j.asset)
  BY <1>1, Kinds DEF Slot
<1> QED
  BY <1>1, <1>2 DEF LiveEntry, LiveEntries, WorkId

LEMMA BookedLess ==
    ASSUME NEW all \in SUBSET Jobs, NEW live, NEW marks, Booked(all, live, marks),
           NEW gone \in SUBSET all
    PROVE  Booked(all \ gone, {l \in live : l.slot \notin {Slot(j) : j \in gone}},
                  marks \ {j.asset : j \in gone})
<1> DEFINE rest == all \ gone
           less == {l \in live : l.slot \notin {Slot(j) : j \in gone}}
           left == marks \ {j.asset : j \in gone}
<1>1. \A j \in all : LiveEntry(j).slot = Slot(j)
  BY SlotTyped
<1>2. less = {LiveEntry(j) : j \in rest}
  BY <1>1 DEF Booked
<1>3. \A j, k \in rest : Slot(j) = Slot(k) => j = k
  BY DEF Booked
<1>4. left \subseteq {j.asset : j \in rest}
  BY DEF Booked
<1>5. ASSUME NEW i \in Icons PROVE i \in left <=> \E j \in rest : j.asset = i
  <2>1. i \in left => \E j \in rest : j.asset = i
    BY <1>4
  <2>2. ASSUME NEW j \in rest, j.asset = i PROVE i \in left
    <3>1. i \in marks
      BY <2>2 DEF Booked
    <3>2. ASSUME NEW k \in gone, k.asset = i PROVE FALSE
      <4>1. Slot(k) = i /\ Slot(j) = i
        BY <2>2, <3>2, SlotTyped
      <4> QED
        BY <4>1 DEF Booked
    <3> QED
      BY <3>1, <3>2
  <2> QED
    BY <2>1, <2>2
<1> HIDE DEF rest, less, left
<1>6. Booked(rest, less, left)
  BY <1>2, <1>3, <1>4, <1>5 DEF Booked
<1> QED
  BY <1>6 DEF rest, less, left

LEMMA BookedMore ==
    ASSUME NEW all \in SUBSET Jobs, NEW live, NEW marks, Booked(all, live, marks),
           NEW job \in Jobs, \A k \in all : Slot(k) # Slot(job)
    PROVE  Booked(all \cup {job}, live \cup {LiveEntry(job)}, marks \cup {job.asset})
<1> DEFINE more == all \cup {job}
<1>1. live \cup {LiveEntry(job)} = {LiveEntry(j) : j \in more}
  BY DEF Booked
<1>2. \A j, k \in more : Slot(j) = Slot(k) => j = k
  BY DEF Booked
<1>3. marks \cup {job.asset} \subseteq {j.asset : j \in more}
  BY DEF Booked
<1>4. \A i \in Icons : i \in marks \cup {job.asset} <=> \E j \in more : j.asset = i
  BY DEF Booked
<1> HIDE DEF more
<1>5. Booked(more, live \cup {LiveEntry(job)}, marks \cup {job.asset})
  BY <1>1, <1>2, <1>3, <1>4 DEF Booked
<1> QED
  BY <1>5 DEF more

\* A job whose priority or reading changes stays the job it is.
Renewal(j, k) ==
    /\ k \in Jobs /\ k.asset = j.asset /\ k.request.key = j.request.key
    /\ k.request.generation = j.request.generation

LEMMA BookedRenewed ==
    ASSUME NEW all \in SUBSET Jobs, NEW live, NEW marks, Booked(all, live, marks),
           NEW j \in all, NEW k, Renewal(j, k)
    PROVE  Booked((all \ {j}) \cup {k}, live, marks)
<1> DEFINE new == (all \ {j}) \cup {k}
<1>1. Slot(k) = Slot(j) /\ LiveEntry(k) = LiveEntry(j) /\ k.asset = j.asset
  BY DEF Renewal, Slot, LiveEntry, WorkId
<1>2. live = {LiveEntry(x) : x \in new}
  BY <1>1 DEF Booked
<1>3. \A x, y \in new : Slot(x) = Slot(y) => x = y
  BY <1>1 DEF Booked
<1>4. {x.asset : x \in new} = {x.asset : x \in all}
  BY <1>1
<1>5. \A i \in Icons : (\E x \in new : x.asset = i) <=> \E x \in all : x.asset = i
  BY <1>4
<1> HIDE DEF new
<1>6. Booked(new, live, marks)
  BY <1>2, <1>3, <1>4, <1>5 DEF Booked
<1> QED
  BY <1>6 DEF new

----------------------------------------------------------------------------
(* The functions of the UI thread, on host values.                          *)

\* Jobs are known by their keys.
LEMMA KeysApart ==
    ASSUME NEW h, NEW hand, HostInv(h, hand)
    PROVE  /\ All(h.held, hand) \subseteq Jobs
           /\ \A j, k \in All(h.held, hand) : j.request.key = k.request.key => j = k
           /\ \A l \in Lanes : h.held[l] \subseteq All(h.held, hand) /\ DistinctKeys(h.held[l])
<1>1. \A l \in Lanes : h.held[l] \in SUBSET Jobs
  BY DEF HostInv, HostStates
<1>2. \A l \in Lanes : h.held[l] \subseteq All(h.held, hand)
  BY DEF Lanes, All
<1>3. All(h.held, hand) \subseteq Jobs
  BY <1>1 DEF HostInv, All, Lanes
<1>4. \A j, k \in All(h.held, hand) : j.request.key = k.request.key => j = k
  <2> SUFFICES ASSUME NEW j \in All(h.held, hand), NEW k \in All(h.held, hand),
                      j.request.key = k.request.key
               PROVE  j = k
    OBVIOUS
  <2>1. j.asset = k.asset
    BY DEF HostInv, JobOK
  <2>2. Slot(j) = Slot(k)
    BY <2>1 DEF Slot
  <2> QED
    BY <2>2 DEF HostInv, Booked
<1> QED
  BY <1>2, <1>3, <1>4 DEF DistinctKeys

\* Jobs in hand are released: nothing of them is left.
LEMMA Released ==
    ASSUME NEW h, NEW hand, HostInv(h, hand), NEW gone \in SUBSET hand,
           ActiveOK(h.lane, hand \ gone)
    PROVE  HostInv(Release(h, gone), hand \ gone)
<1> DEFINE r == Release(h, gone)
           slots == {Slot(j) : j \in gone}
           rest  == hand \ gone
<1>1. /\ r.live = {l \in h.live : l.slot \notin slots}
      /\ r.waiters = {w \in h.waiters : w.slot \notin slots}
      /\ r.inFlight = h.inFlight \ {j.asset : j \in gone}
      /\ r.lane = h.lane /\ r.held = h.held /\ r.generation = h.generation
      /\ r.thumbs = h.thumbs
      /\ r \in HostStates
  BY DEF Release, HostInv, HostStates
<1> HIDE DEF r, slots
<1>2. \A l \in Lanes : \A j \in h.held[l] : j \notin gone
  BY DEF HostInv, Apart
<1>3. All(r.held, rest) = All(h.held, hand) \ gone
  BY <1>1, <1>2 DEF All, Lanes
<1>4. Booked(All(r.held, rest), r.live, r.inFlight)
  <2>1. gone \in SUBSET All(h.held, hand) /\ All(h.held, hand) \in SUBSET Jobs
    BY KeysApart DEF All
  <2>2. Booked(All(h.held, hand), h.live, h.inFlight)
    BY DEF HostInv
  <2>3. Booked(All(h.held, hand) \ gone, {l \in h.live : l.slot \notin {Slot(j) : j \in gone}},
               h.inFlight \ {j.asset : j \in gone})
    BY <2>1, <2>2, BookedLess
  <2> QED
    BY <1>1, <1>3, <2>3 DEF slots
<1>5. Wanted(r.held["provider"], r.waiters)
  <2> SUFFICES ASSUME NEW j \in h.held["provider"] PROVE \E w \in r.waiters : w.slot = Slot(j)
    BY <1>1 DEF Wanted
  <2>1. PICK w \in h.waiters : w.slot = Slot(j)
    BY DEF HostInv, Wanted
  <2>2. Slot(j) \notin slots
    <3>1. "provider" \in Lanes
      BY DEF Lanes
    <3>2. j \notin gone /\ j \in All(h.held, hand) /\ gone \subseteq All(h.held, hand)
      BY <1>2, <3>1 DEF All
    <3>3. \A k \in gone : Slot(k) # Slot(j)
      BY <3>2 DEF HostInv, Booked
    <3> QED
      BY <3>3 DEF slots
  <2> QED
    BY <1>1, <2>1, <2>2
<1>6. IsFiniteSet(rest)
  BY FS_Subset DEF HostInv
<1>7. \A j \in All(r.held, rest) : JobOK(j, r.generation)
  BY <1>1, <1>3 DEF HostInv
<1>8. Apart(r.held, rest)
  BY <1>1 DEF HostInv, Apart
<1>9. ActiveOK(r.lane, rest)
  BY <1>1
<1>10. HostInv(r, rest)
  BY <1>1, <1>4, <1>5, <1>6, <1>7, <1>8, <1>9 DEF HostInv
<1> QED
  BY <1>10 DEF r

\* What a submission changes of the host.
Submitted(h, l, gone, to, s) ==
    /\ s \in HostStates
    /\ s.lane = [h.lane EXCEPT ![l] = to]
    /\ s.held = [h.held EXCEPT ![l] = h.held[l] \ gone]
    /\ s.live = {e \in h.live : e.slot \notin {Slot(j) : j \in gone}}
    /\ s.waiters = {w \in h.waiters : w.slot \notin {Slot(j) : j \in gone}}
    /\ s.inFlight = h.inFlight \ {j.asset : j \in gone}
    /\ s.thumbs = h.thumbs /\ s.icons = h.icons /\ s.generation = h.generation

LEMMA SubmitFields ==
    ASSUME NEW h \in HostStates, NEW l \in Lanes, NEW request, NEW outcome,
           NEW gone, NEW to \in LaneStates,
           Submits(h.lane[l], h.held[l], request, Capacity[l], outcome, gone, to),
           NEW s, s = SubmitTo(h, l, request)
    PROVE  Submitted(h, l, gone, to, s)
<1> DEFINE slots == {Slot(j) : j \in gone}
           assets == {j.asset : j \in gone}
           h1 == [h EXCEPT !.lane[l] = to]
           h2 == [h1 EXCEPT !.held[l] = @ \ gone]
<1>1. /\ h1 \in HostStates /\ h1.lane = [h.lane EXCEPT ![l] = to] /\ h1.held = h.held
      /\ h1.live = h.live /\ h1.waiters = h.waiters /\ h1.inFlight = h.inFlight
      /\ h1.thumbs = h.thumbs /\ h1.icons = h.icons /\ h1.generation = h.generation
  BY DEF HostStates
<1>2. h1 = [h EXCEPT !.lane[l] = AfterSubmit(@, request, outcome)]
  BY DEF HostStates, Submits
<1> HIDE DEF h1
<1>3. gone = JobsOf(h1, l, Evicted(h.lane[l], outcome)) /\ gone \subseteq h.held[l]
  BY <1>1 DEF JobsOf, Submits
<1>4. /\ h2 \in HostStates /\ h2.lane = h1.lane /\ h2.held = [h.held EXCEPT ![l] = h.held[l] \ gone]
      /\ h2.live = h.live /\ h2.waiters = h.waiters /\ h2.inFlight = h.inFlight
      /\ h2.thumbs = h.thumbs /\ h2.icons = h.icons /\ h2.generation = h.generation
  BY <1>1 DEF HostStates
<1>5. s = Release(h2, gone)
  <2>1. s = Discard(h1, l, Evicted(h.lane[l], outcome))
    BY <1>2 DEF SubmitTo, Submits
  <2> QED
    BY <1>3, <2>1 DEF Discard
<1> HIDE DEF h2, slots, assets
<1>6. s = [h2 EXCEPT !.live     = {e \in @ : e.slot \notin slots},
                     !.waiters  = {w \in @ : w.slot \notin slots},
                     !.inFlight = @ \ assets]
  BY <1>5 DEF Release, slots, assets
<1>7. /\ s \in HostStates /\ s.lane = h2.lane /\ s.held = h2.held
      /\ s.live = {e \in h2.live : e.slot \notin slots}
      /\ s.waiters = {w \in h2.waiters : w.slot \notin slots}
      /\ s.inFlight = h2.inFlight \ assets
      /\ s.thumbs = h2.thumbs /\ s.icons = h2.icons /\ s.generation = h2.generation
  BY ZenonT(60), <1>4, <1>6 DEF HostStates
<1> QED
  BY <1>1, <1>4, <1>7 DEF slots, assets, Submitted

\* The job in hand is new to the lane it enters.
LEMMA NewToLane ==
    ASSUME NEW h, NEW hand, HostInv(h, hand), NEW job \in hand, NEW l \in Lanes,
           ActiveOK(h.lane, hand \ {job})
    PROVE  /\ job \in Jobs /\ h.lane[l] \in LaneStates /\ h.held[l] \in SUBSET Jobs
           /\ LaneOK(h.lane[l], h.held[l]) /\ DistinctKeys(h.held[l])
           /\ Unknown(h.lane[l], h.held[l], job.request)
<1>1. /\ job \in Jobs /\ h.lane[l] \in LaneStates /\ h.held[l] \in SUBSET Jobs
      /\ LaneOK(h.lane[l], h.held[l])
  BY DEF HostInv, HostStates
<1>2. \A k \in h.held[l] : k # job
  BY DEF HostInv, Apart
<1>3. job \in All(h.held, hand) /\ hand \subseteq All(h.held, hand)
  BY DEF All
<1>4. ASSUME NEW a \in h.lane[l].active PROVE a.request.key # job.request.key
  <2>1. l = "provider"
    BY DEF ActiveOK, Lanes
  <2>2. PICK j \in hand \ {job} : WorkId(j.request) = WorkId(a.request)
    BY <2>1 DEF ActiveOK
  <2>3. j.request.key = a.request.key
    BY <2>2 DEF WorkId
  <2> QED
    BY <1>3, <2>2, <2>3, KeysApart
<1> QED
  BY <1>1, <1>2, <1>3, <1>4, KeysApart DEF Unknown

\* A submission that the lane does not take leaves everything as it was.
LEMMA Rejected ==
    ASSUME NEW h, NEW hand, HostInv(h, hand), NEW job \in Jobs, NEW l \in Lanes,
           Unknown(h.lane[l], h.held[l], job.request),
           ~Accepts(h, l, job.request)
    PROVE  /\ HostInv(SubmitTo(h, l, job.request), hand)
           /\ \A m \in Lanes : SubmitTo(h, l, job.request).lane[m].active = h.lane[m].active
           /\ SubmitTo(h, l, job.request).generation = h.generation
<1> DEFINE outcome == SubmitOutcome(h.lane[l], job.request, Capacity[l])
           to == AfterSubmit(h.lane[l], job.request, outcome)
           gone == {j \in h.held[l] : \E r \in Evicted(h.lane[l], outcome) :
                                         WorkId(j.request) = WorkId(r)}
           s == SubmitTo(h, l, job.request)
<1>1. /\ h \in HostStates /\ h.lane[l] \in LaneStates /\ h.held[l] \in SUBSET Jobs
      /\ LaneOK(h.lane[l], h.held[l]) /\ DistinctKeys(h.held[l])
  BY KeysApart DEF HostInv, HostStates
<1>2. outcome \notin Admitted
  BY DEF Accepts
<1>0. Submits(h.lane[l], h.held[l], job.request, Capacity[l], outcome, gone, to)
  BY DEF Submits
<1> HIDE DEF outcome, to, gone, s
<1>21. Takes(h.lane[l], h.held[l], job, outcome, gone, to)
  BY <1>0, <1>1, LaneTakes
<1>3. to \in LaneStates /\ to.active = h.lane[l].active /\ gone = {} /\ LaneOK(to, h.held[l])
  BY <1>2, <1>21 DEF Takes
<1>30. s = SubmitTo(h, l, job.request)
  BY DEF s
<1>31. Submitted(h, l, gone, to, s)
  BY <1>0, <1>1, <1>3, <1>30, SubmitFields
<1>4. /\ s \in HostStates
      /\ s.lane = [h.lane EXCEPT ![l] = to]
      /\ s.held = [h.held EXCEPT ![l] = h.held[l] \ gone]
      /\ s.live = {e \in h.live : e.slot \notin {Slot(j) : j \in gone}}
      /\ s.waiters = {w \in h.waiters : w.slot \notin {Slot(j) : j \in gone}}
      /\ s.inFlight = h.inFlight \ {j.asset : j \in gone}
      /\ s.thumbs = h.thumbs /\ s.icons = h.icons /\ s.generation = h.generation
  BY <1>31 DEF Submitted
<1>5. /\ s.held = h.held /\ s.live = h.live /\ s.waiters = h.waiters /\ s.inFlight = h.inFlight
  <2>1. {Slot(j) : j \in gone} = {} /\ {j.asset : j \in gone} = {}
    BY <1>3
  <2>2. h.held \in [Lanes -> SUBSET Jobs]
    BY <1>1 DEF HostStates
  <2> QED
    BY <1>3, <1>4, <2>1, <2>2
<1>6. \A m \in Lanes : s.lane[m] = IF m = l THEN to ELSE h.lane[m]
  BY <1>1, <1>4 DEF HostStates
<1>7. \A m \in Lanes : s.lane[m].active = h.lane[m].active
  BY <1>3, <1>6
<1>8. ActiveOK(s.lane, hand)
  BY <1>7 DEF HostInv, ActiveOK, Lanes
<1>9. \A m \in Lanes : LaneOK(s.lane[m], s.held[m]) /\ IsFiniteSet(s.held[m])
  BY <1>3, <1>5, <1>6 DEF HostInv
<1>10. HostInv(s, hand)
  BY <1>4, <1>5, <1>8, <1>9 DEF HostInv
<1> QED
  BY <1>4, <1>7, <1>10 DEF s

\* A job in hand enters a lane; what it displaces there is released.
LEMMA Entered ==
    ASSUME NEW h, NEW hand, HostInv(h, hand), NEW job \in hand, NEW l \in Lanes,
           ActiveOK(h.lane, hand \ {job}),
           l = "provider" => \E w \in h.waiters : w.slot = Slot(job),
           Accepts(h, l, job.request)
    PROVE  HostInv([SubmitTo(h, l, job.request) EXCEPT !.held[l] = @ \cup {job}], hand \ {job})
<1> DEFINE outcome == SubmitOutcome(h.lane[l], job.request, Capacity[l])
           to == AfterSubmit(h.lane[l], job.request, outcome)
           gone == {j \in h.held[l] : \E r \in Evicted(h.lane[l], outcome) :
                                         WorkId(j.request) = WorkId(r)}
           s == SubmitTo(h, l, job.request)
           n == [s EXCEPT !.held[l] = @ \cup {job}]
           rest == hand \ {job}
           slots == {Slot(j) : j \in gone}
<1>1. /\ h \in HostStates /\ job \in Jobs /\ h.lane[l] \in LaneStates /\ h.held[l] \in SUBSET Jobs
      /\ LaneOK(h.lane[l], h.held[l]) /\ DistinctKeys(h.held[l])
      /\ Unknown(h.lane[l], h.held[l], job.request)
  BY NewToLane DEF HostInv
<1>20. outcome \in Admitted
  BY DEF Accepts
<1>0. Submits(h.lane[l], h.held[l], job.request, Capacity[l], outcome, gone, to)
  BY DEF Submits
<1> HIDE DEF outcome, to, gone, s
<1>21. Takes(h.lane[l], h.held[l], job, outcome, gone, to)
  BY <1>0, <1>1, LaneTakes
<1>2. /\ to \in LaneStates /\ to.active = h.lane[l].active
      /\ LaneOK(to, (h.held[l] \ gone) \cup {job})
  BY <1>20, <1>21 DEF Takes
<1>3. gone \subseteq h.held[l]
  BY <1>0 DEF Submits
<1>30. s = SubmitTo(h, l, job.request)
  BY DEF s
<1>31. Submitted(h, l, gone, to, s)
  BY <1>0, <1>1, <1>2, <1>30, SubmitFields
<1>4. /\ s \in HostStates
      /\ s.lane = [h.lane EXCEPT ![l] = to]
      /\ s.held = [h.held EXCEPT ![l] = h.held[l] \ gone]
      /\ s.live = {e \in h.live : e.slot \notin {Slot(j) : j \in gone}}
      /\ s.waiters = {w \in h.waiters : w.slot \notin {Slot(j) : j \in gone}}
      /\ s.inFlight = h.inFlight \ {j.asset : j \in gone}
      /\ s.thumbs = h.thumbs /\ s.icons = h.icons /\ s.generation = h.generation
  BY <1>31 DEF Submitted
<1>5. /\ n \in HostStates /\ n.lane = s.lane /\ n.live = s.live /\ n.waiters = s.waiters
      /\ n.inFlight = s.inFlight /\ n.thumbs = s.thumbs /\ n.generation = s.generation
      /\ n.held = [s.held EXCEPT ![l] = @ \cup {job}]
  BY <1>1, <1>4 DEF HostStates
<1> HIDE DEF n
<1>6. \A m \in Lanes : /\ n.lane[m] = IF m = l THEN to ELSE h.lane[m]
                       /\ n.held[m] = IF m = l THEN (h.held[l] \ gone) \cup {job} ELSE h.held[m]
  BY ZenonT(60), <1>1, <1>4, <1>5 DEF HostStates
<1>7. \A m \in Lanes : \A j \in h.held[m] : j \notin hand /\ (m # l => j \notin gone)
  BY <1>3 DEF HostInv, Apart
<1>8. All(n.held, rest) = All(h.held, hand) \ gone
  <2>1. \A j : j \in All(n.held, rest) <=> j \in rest \/ \E m \in Lanes : j \in n.held[m]
    BY DEF All, Lanes
  <2>2. \A j : j \in All(h.held, hand) <=> j \in hand \/ \E m \in Lanes : j \in h.held[m]
    BY DEF All, Lanes
  <2>3. \A j \in hand : j \notin gone
    BY <1>3, <1>7
  <2>4. ASSUME NEW j, j \in All(n.held, rest) PROVE j \in All(h.held, hand) \ gone
    <3>1. CASE j \in rest
      BY <2>2, <2>3, <3>1
    <3>2. CASE \E m \in Lanes : j \in n.held[m]
      <4>1. PICK m \in Lanes : j \in n.held[m]
        BY <3>2
      <4>2. j = job \/ (j \in h.held[m] /\ j \notin gone)
        BY <1>6, <1>7, <4>1
      <4>3. job \in hand
        OBVIOUS
      <4> QED
        BY <2>2, <2>3, <4>2, <4>3
    <3> QED
      BY <2>1, <2>4, <3>1, <3>2
  <2>5. ASSUME NEW j, j \in All(h.held, hand) \ gone PROVE j \in All(n.held, rest)
    BY <1>6, <2>1, <2>2, <2>5
  <2> QED
    BY <2>4, <2>5
<1>9. gone \in SUBSET All(h.held, hand) /\ All(h.held, hand) \in SUBSET Jobs
  BY <1>3, KeysApart
<1>10. Booked(All(n.held, rest), n.live, n.inFlight)
  <2>1. Booked(All(h.held, hand), h.live, h.inFlight)
    BY DEF HostInv
  <2>2. Booked(All(h.held, hand) \ gone, {e \in h.live : e.slot \notin {Slot(j) : j \in gone}},
               h.inFlight \ {j.asset : j \in gone})
    BY <1>9, <2>1, BookedLess
  <2> QED
    BY <1>4, <1>5, <1>8, <2>2
<1>11. \A m \in Lanes : LaneOK(n.lane[m], n.held[m]) /\ IsFiniteSet(n.held[m])
  <2>1. IsFiniteSet((h.held[l] \ gone) \cup {job})
    <3>1. IsFiniteSet(h.held[l] \ gone)
      BY FS_Subset DEF HostInv
    <3> QED
      BY <3>1, FS_AddElement
  <2> QED
    BY <1>2, <1>6, <2>1 DEF HostInv
<1>12. \A j \in All(n.held, rest) : JobOK(j, n.generation)
  BY <1>4, <1>5, <1>8 DEF HostInv
<1>13. ActiveOK(n.lane, rest)
  BY <1>2, <1>6 DEF ActiveOK, Lanes
<1>14. Apart(n.held, rest)
  BY <1>6, <1>7 DEF HostInv, Apart
<1>15. Wanted(n.held["provider"], n.waiters)
  <2> SUFFICES ASSUME NEW j \in n.held["provider"] PROVE \E w \in n.waiters : w.slot = Slot(j)
    BY DEF Wanted
  <2>1. j \in h.held["provider"] \/ (l = "provider" /\ j = job)
    BY <1>6 DEF Lanes
  <2>2. PICK w \in h.waiters : w.slot = Slot(j)
    BY <2>1 DEF HostInv, Wanted
  <2>3. j \in All(n.held, rest)
    BY DEF All
  <2>4. \A k \in gone : Slot(k) # Slot(j)
    BY <1>8, <1>9, <2>3 DEF HostInv, Booked
  <2> QED
    BY <1>4, <1>5, <2>2, <2>4
<1>16. rest \subseteq Jobs /\ IsFiniteSet(rest)
  BY FS_Subset DEF HostInv
<1>17. Len(n.thumbs) <= CacheCap
  BY <1>4, <1>5 DEF HostInv
<1> HIDE DEF rest
<1>18. HostInv(n, rest)
  BY <1>5, <1>10, <1>11, <1>12, <1>13, <1>14, <1>15, <1>16, <1>17 DEF HostInv
<1> QED
  BY <1>18 DEF n, s, rest

\* A finished job enters the next lane, or nothing is left of it.
LEMMA Forwarded ==
    ASSUME NEW h, NEW hand, HostInv(h, hand), NEW job \in hand, NEW l \in {"upload", "apply"},
           ActiveOK(h.lane, hand \ {job})
    PROVE  HostInv(Forward(h, l, job), hand \ {job})
<1>1. l \in Lanes /\ l # "provider"
  BY DEF Lanes
<1>2. CASE Accepts(h, l, job.request)
  <2>1. HostInv([SubmitTo(h, l, job.request) EXCEPT !.held[l] = @ \cup {job}], hand \ {job})
    BY <1>1, <1>2, Entered
  <2> QED
    BY <1>2, <2>1 DEF Forward
<1>3. CASE ~Accepts(h, l, job.request)
  <2> DEFINE s == SubmitTo(h, l, job.request)
  <2>0. job \in Jobs /\ Unknown(h.lane[l], h.held[l], job.request)
    BY <1>1, NewToLane
  <2>1. HostInv(s, hand) /\ \A m \in Lanes : s.lane[m].active = h.lane[m].active
    BY <1>1, <1>3, <2>0, Rejected
  <2> HIDE DEF s
  <2>2. ActiveOK(s.lane, hand \ {job})
    BY <2>1 DEF ActiveOK, Lanes
  <2>3. HostInv(Release(s, {job}), hand \ {job})
    <3> DEFINE gone == {job}
    <3>1. gone \in SUBSET hand
      OBVIOUS
    <3> HIDE DEF gone
    <3>2. ActiveOK(s.lane, hand \ gone)
      BY <2>2 DEF gone
    <3>3. HostInv(Release(s, gone), hand \ gone)
      BY <2>1, <3>1, <3>2, Released
    <3> QED
      BY <3>3 DEF gone
  <2> QED
    BY <1>3, <2>3 DEF Forward, s
<1> QED
  BY <1>2, <1>3

----------------------------------------------------------------------------
(* Into and out of the lanes.                                               *)

\* n is h after the jobs of out have left lane l, which is to, for somebody's hand.
Pulls(h, hand, l, out, to, n) ==
    /\ l \in Lanes /\ out \in SUBSET h.held[l] /\ LaneOK(to, h.held[l] \ out)
    /\ n \in HostStates
    /\ n.lane = [h.lane EXCEPT ![l] = to] /\ n.held = [h.held EXCEPT ![l] = h.held[l] \ out]
    /\ n.live = h.live /\ n.inFlight = h.inFlight /\ n.thumbs = h.thumbs
    /\ n.generation = h.generation
    /\ ActiveOK(n.lane, hand \cup out) /\ Wanted(n.held["provider"], n.waiters)

LEMMA PulledOut ==
    ASSUME NEW h, NEW hand, HostInv(h, hand), NEW l, NEW out, NEW to, NEW n,
           Pulls(h, hand, l, out, to, n)
    PROVE  HostInv(n, hand \cup out)
<1>0. /\ l \in Lanes /\ out \in SUBSET h.held[l] /\ LaneOK(to, h.held[l] \ out)
      /\ n \in HostStates
      /\ n.lane = [h.lane EXCEPT ![l] = to] /\ n.held = [h.held EXCEPT ![l] = h.held[l] \ out]
      /\ n.live = h.live /\ n.inFlight = h.inFlight /\ n.thumbs = h.thumbs
      /\ n.generation = h.generation
      /\ ActiveOK(n.lane, hand \cup out) /\ Wanted(n.held["provider"], n.waiters)
  BY DEF Pulls
<1> DEFINE more == hand \cup out
<1>1. h \in HostStates /\ h.held \in [Lanes -> SUBSET Jobs] /\ h.lane \in [Lanes -> LaneStates]
  BY DEF HostInv, HostStates
<1>2. \A m \in Lanes : /\ n.lane[m] = IF m = l THEN to ELSE h.lane[m]
                       /\ n.held[m] = IF m = l THEN h.held[l] \ out ELSE h.held[m]
  BY <1>0, <1>1
<1>3. All(n.held, more) = All(h.held, hand)
  <2>1. \A j : j \in All(n.held, more) <=> j \in more \/ \E m \in Lanes : j \in n.held[m]
    BY DEF All, Lanes
  <2>2. \A j : j \in All(h.held, hand) <=> j \in hand \/ \E m \in Lanes : j \in h.held[m]
    BY DEF All, Lanes
  <2>3. \A j : (j \in more \/ \E m \in Lanes : j \in n.held[m])
               <=> (j \in hand \/ \E m \in Lanes : j \in h.held[m])
    BY <1>0, <1>2
  <2> QED
    BY <2>1, <2>2, <2>3
<1>4. more \subseteq Jobs /\ IsFiniteSet(more)
  <2>1. IsFiniteSet(hand) /\ IsFiniteSet(out) /\ hand \subseteq Jobs
    BY <1>0, FS_Subset DEF HostInv
  <2>2. IsFiniteSet(more)
    BY <2>1, FS_Union
  <2> QED
    BY <1>0, <1>1, <2>1, <2>2
<1>5. \A m \in Lanes : LaneOK(n.lane[m], n.held[m]) /\ IsFiniteSet(n.held[m])
  <2>1. IsFiniteSet(h.held[l] \ out)
    BY <1>0, FS_Subset DEF HostInv
  <2> QED
    BY <1>0, <1>2, <2>1 DEF HostInv
<1>6. Apart(n.held, more)
  <2>1. Apart(h.held, hand)
    BY DEF HostInv
  <2> QED
    BY <1>0, <1>2, <2>1 DEF Apart
<1>7. /\ \A j \in All(n.held, more) : JobOK(j, n.generation)
      /\ Booked(All(n.held, more), n.live, n.inFlight)
  BY <1>0, <1>3 DEF HostInv
<1>8. Len(n.thumbs) <= CacheCap /\ ActiveOK(n.lane, more)
  BY <1>0 DEF HostInv
<1> HIDE DEF more
<1>9. HostInv(n, more)
  BY <1>0, <1>4, <1>5, <1>6, <1>7, <1>8 DEF HostInv
<1> QED
  BY <1>9 DEF more

\* The provider lane starts work: its one job is then in a worker's hand.
LEMMA ProviderStarts ==
    ASSUME NEW h, NEW hand, HostInv(h, hand), h.lane["provider"].pending # {},
           NEW lane, lane = h.lane["provider"]
    PROVE  \E j \in h.held["provider"] :
              /\ JobsOf(h, "provider", {StartedWork(lane).request}) = {j}
              /\ HostInv([h EXCEPT !.held["provider"] = @ \ {j},
                                   !.lane["provider"] = AfterStart(lane)], hand \cup {j})
<1>1. /\ h \in HostStates /\ "provider" \in Lanes /\ lane \in LaneStates
      /\ h.held["provider"] \in SUBSET Jobs /\ DistinctKeys(h.held["provider"])
      /\ LaneOK(lane, h.held["provider"])
  BY KeysApart DEF HostInv, HostStates, Lanes
<1>2. PICK j \in h.held["provider"] :
              /\ j.request = StartedWork(lane).request
              /\ {k \in h.held["provider"] : \E r \in {StartedWork(lane).request} :
                                  WorkId(k.request) = WorkId(r)} = {j}
              /\ AfterStart(lane) \in LaneStates
              /\ AfterStart(lane).active \subseteq lane.active \cup {StartedWork(lane)}
              /\ LaneOK(AfterStart(lane), h.held["provider"] \ {j})
  BY <1>1, LaneStarts
<1> DEFINE to == AfterStart(lane)
           out == {j}
           n == [h EXCEPT !.held["provider"] = @ \ {j}, !.lane["provider"] = AfterStart(lane)]
<1>3. out \in SUBSET h.held["provider"] /\ LaneOK(to, h.held["provider"] \ out)
  BY <1>2
<1>4. /\ n \in HostStates /\ n.lane = [h.lane EXCEPT !["provider"] = to]
      /\ n.held = [h.held EXCEPT !["provider"] = h.held["provider"] \ out]
      /\ n.live = h.live /\ n.inFlight = h.inFlight /\ n.thumbs = h.thumbs
      /\ n.generation = h.generation /\ n.waiters = h.waiters
  BY <1>1, <1>2 DEF HostStates
<1>5. ActiveOK(n.lane, hand \cup out)
  <2>1. n.lane["provider"] = to /\ n.lane["upload"] = h.lane["upload"] /\ n.lane["apply"] = h.lane["apply"]
    BY <1>1, <1>4 DEF HostStates, Lanes
  <2>2. ASSUME NEW a \in to.active
        PROVE  \E k \in hand \cup out : WorkId(k.request) = WorkId(a.request)
    <3>1. CASE a \in lane.active
      BY <3>1 DEF HostInv, ActiveOK
    <3>2. CASE a = StartedWork(lane)
      BY <1>2, <3>2
    <3> QED
      BY <1>2, <3>1, <3>2
  <2> QED
    BY <2>1, <2>2 DEF HostInv, ActiveOK
<1>6. Wanted(n.held["provider"], n.waiters)
  <2>1. n.held["provider"] \subseteq h.held["provider"]
    BY <1>1, <1>4 DEF HostStates
  <2> QED
    BY <1>4, <2>1 DEF HostInv, Wanted
<1> HIDE DEF n, to, out
<1>60. Pulls(h, hand, "provider", out, to, n)
  BY <1>1, <1>3, <1>4, <1>5, <1>6 DEF Pulls
<1>7. HostInv(n, hand \cup out)
  BY <1>60, PulledOut
<1>8. HostInv(n, hand \cup {j})
  BY <1>7 DEF out
<1>9. JobsOf(h, "provider", {StartedWork(lane).request}) = {j}
  BY <1>2 DEF JobsOf
<1> QED
  BY <1>8, <1>9 DEF n

\* A lane of the UI thread gives up its next job and forgets it.
LEMMA UiPops ==
    ASSUME NEW hand, HostInv(host, hand), NEW l \in {"upload", "apply"},
           host.lane[l].pending # {}
    PROVE  \E j \in host.held[l] :
              /\ PoppedJobs(l) = {j} /\ j \notin hand
              /\ HostInv(Popped(l), hand \cup {j})
              /\ ActiveOK(Popped(l).lane, hand)
<1> DEFINE lane == host.lane[l]
           to   == AfterComplete(AfterStart(lane), StartedWork(lane).request)
<1>1. /\ host \in HostStates /\ l \in Lanes /\ lane \in LaneStates
      /\ host.held[l] \in SUBSET Jobs /\ DistinctKeys(host.held[l])
      /\ LaneOK(lane, host.held[l])
  BY KeysApart DEF HostInv, HostStates, Lanes
<1> HIDE DEF lane
<1>20. lane.pending # {}
  BY DEF lane
<1>2. PICK j \in host.held[l] :
              /\ j.request = StartedWork(lane).request
              /\ {k \in host.held[l] : \E r \in {StartedWork(lane).request} :
                                  WorkId(k.request) = WorkId(r)} = {j}
              /\ AfterStart(lane) \in LaneStates
              /\ AfterStart(lane).active \subseteq lane.active \cup {StartedWork(lane)}
              /\ LaneOK(AfterStart(lane), host.held[l] \ {j})
  BY <1>1, <1>20, LaneStarts
<1>3. PoppedJobs(l) = {j}
  BY <1>2 DEF PoppedJobs, JobsOf, lane
<1>4. lane.active = {}
  BY DEF HostInv, ActiveOK, lane
<1>5. to.active = {} /\ to \in LaneStates /\ to.pending = AfterStart(lane).pending
      /\ to.sequence = AfterStart(lane).sequence
  <2> DEFINE s == AfterStart(lane)
  <2>1. s.active \subseteq {StartedWork(lane)} /\ s \in LaneStates
    BY <1>2, <1>4
  <2> HIDE DEF s
  <2>2. to = [s EXCEPT !.active = {a \in @ : ~SameWork(a.request, StartedWork(lane).request)}]
    BY DEF AfterComplete, s
  <2>3. \A a \in s.active : SameWork(a.request, StartedWork(lane).request)
    BY <2>1 DEF SameWork
  <2> HIDE DEF to
  <2>4. to \in LaneStates /\ to.pending = s.pending /\ to.sequence = s.sequence
        /\ to.active = {a \in s.active : ~SameWork(a.request, StartedWork(lane).request)}
    BY <2>1, <2>2 DEF LaneStates
  <2> QED
    BY <2>3, <2>4 DEF s
<1> HIDE DEF to
<1> DEFINE out == {j}
           n   == Popped(l)
<1>6. out \in SUBSET host.held[l] /\ LaneOK(to, host.held[l] \ out)
  BY <1>2, <1>5, LaneSame
<1>7. JobsOf(host, l, {StartedWork(lane).request}) = {j}
  BY <1>2 DEF JobsOf
<1>8. /\ n \in HostStates /\ n.lane = [host.lane EXCEPT ![l] = to]
      /\ n.held = [host.held EXCEPT ![l] = host.held[l] \ out]
      /\ n.live = host.live /\ n.inFlight = host.inFlight /\ n.thumbs = host.thumbs
      /\ n.generation = host.generation /\ n.waiters = host.waiters
  <2>1. n = [host EXCEPT !.lane[l] = to, !.held[l] = @ \ {j}]
    BY <1>1, <1>7 DEF Popped, lane, to, HostStates
  <2> HIDE DEF n
  <2> QED
    BY <1>1, <1>2, <1>5, <2>1 DEF HostStates
<1> HIDE DEF n
<1>9. ActiveOK(n.lane, hand)
  BY <1>1, <1>5, <1>8 DEF HostInv, ActiveOK, Lanes, HostStates
<1>10. ActiveOK(n.lane, hand \cup out)
  BY <1>9 DEF ActiveOK
<1>11. Wanted(n.held["provider"], n.waiters)
  <2>1. n.held["provider"] = host.held["provider"]
    BY <1>1, <1>8 DEF HostStates, Lanes
  <2> QED
    BY <1>8, <2>1 DEF HostInv
<1> HIDE DEF out
<1>110. Pulls(host, hand, l, out, to, n)
  BY <1>1, <1>6, <1>8, <1>10, <1>11 DEF Pulls
<1>12. HostInv(n, hand \cup out)
  BY <1>110, PulledOut
<1>13. HostInv(n, hand \cup {j})
  BY <1>12 DEF out
<1>14. j \notin hand
  BY <1>1 DEF HostInv, Apart
<1> QED
  BY <1>3, <1>9, <1>13, <1>14 DEF n

----------------------------------------------------------------------------
(* The surfaces' functions.                                                 *)

\* Superseded waiters go, and with them the queued work nobody else waits for.
LEMMA Retained ==
    ASSUME NEW h, NEW hand, HostInv(h, hand), NEW surface, NEW generation
    PROVE  HostInv(RetainSurfaceGeneration(h, surface, generation), hand)
<1> DEFINE kept      == {w \in h.waiters :
                            w.slot \in Icons \/ w.scope # surface \/ w.generation = generation}
           abandoned == {w.slot : w \in h.waiters} \ {w.slot : w \in kept}
           out       == {j \in h.held["provider"] :
                            Slot(j) \in abandoned /\ LiveEntry(j) \in h.live}
           lane      == h.lane["provider"]
           to        == [lane EXCEPT !.pending =
                            {q \in @ : \A j \in out : ~SameWork(q.request, j.request)}]
           n         == [h EXCEPT !.waiters = kept, !.held["provider"] = @ \ out,
                                  !.lane["provider"].pending =
                            {q \in @ : \A j \in out : ~SameWork(q.request, j.request)}]
<1>1. /\ h \in HostStates /\ "provider" \in Lanes /\ lane \in LaneStates
      /\ h.held["provider"] \in SUBSET Jobs /\ DistinctKeys(h.held["provider"])
      /\ LaneOK(lane, h.held["provider"])
  BY KeysApart DEF HostInv, HostStates, Lanes
<1>2. RetainSurfaceGeneration(h, surface, generation) = Release(n, out)
  BY DEF RetainSurfaceGeneration
<1>3. kept \subseteq h.waiters /\ out \in SUBSET h.held["provider"]
  OBVIOUS
<1>4. \A j \in h.held["provider"] \ out : \E w \in kept : w.slot = Slot(j)
  <2> SUFFICES ASSUME NEW j \in h.held["provider"], j \notin out
               PROVE  \E w \in kept : w.slot = Slot(j)
    OBVIOUS
  <2>1. LiveEntry(j) \in h.live
    BY DEF HostInv, Booked, All
  <2>2. PICK w \in h.waiters : w.slot = Slot(j)
    BY DEF HostInv, Wanted
  <2>3. Slot(j) \notin abandoned
    BY <2>1
  <2> QED
    BY <2>2, <2>3
<1> HIDE DEF kept, abandoned, out, lane
<1>5. /\ to \in LaneStates /\ to.sequence = lane.sequence /\ to.active = lane.active
      /\ to.pending = {q \in lane.pending : \A j \in out : ~SameWork(q.request, j.request)}
  BY <1>1 DEF LaneStates
<1> HIDE DEF to
<1>6. to.pending = {q \in lane.pending : \A j \in out : j.request # q.request}
  <2> SUFFICES ASSUME NEW q \in lane.pending, NEW j \in out
               PROVE  SameWork(q.request, j.request) <=> j.request = q.request
    BY <1>5
  <2>1. PICK k \in h.held["provider"] : k.request = q.request
    BY <1>1 DEF LaneOK
  <2>2. j \in h.held["provider"]
    BY <1>3
  <2>3. SameWork(q.request, j.request) => j = k
    BY <1>1, <2>1, <2>2 DEF SameWork, Reservation, DistinctKeys
  <2> QED
    BY <2>1, <2>3 DEF SameWork
<1>7. LaneOK(to, h.held["provider"] \ out)
  BY <1>1, <1>3, <1>5, <1>6, LaneDrops
<1>8. /\ n \in HostStates /\ n.lane = [h.lane EXCEPT !["provider"] = to]
      /\ n.held = [h.held EXCEPT !["provider"] = h.held["provider"] \ out]
      /\ n.live = h.live /\ n.inFlight = h.inFlight /\ n.thumbs = h.thumbs
      /\ n.generation = h.generation /\ n.waiters = kept
  <2>1. n = [h EXCEPT !.waiters = kept, !.held["provider"] = @ \ out, !.lane["provider"] = to]
    BY <1>1 DEF to, lane, HostStates
  <2> HIDE DEF n
  <2> QED
    BY <1>1, <1>3, <1>5, <2>1 DEF HostStates
<1> HIDE DEF n
<1>9. ActiveOK(n.lane, hand)
  BY <1>1, <1>5, <1>8 DEF HostInv, HostStates, ActiveOK, Lanes, lane
<1>10. ActiveOK(n.lane, hand \cup out)
  BY <1>9 DEF ActiveOK
<1>11. Wanted(n.held["provider"], n.waiters)
  BY <1>1, <1>4, <1>8 DEF Wanted, HostStates
<1>12. Pulls(h, hand, "provider", out, to, n)
  BY <1>1, <1>3, <1>7, <1>8, <1>10, <1>11 DEF Pulls
<1>13. HostInv(n, hand \cup out)
  BY <1>12, PulledOut
<1>14. (hand \cup out) \ out = hand
  BY <1>1, <1>3 DEF HostInv, Apart
<1>15. HostInv(Release(n, out), (hand \cup out) \ out)
  <2>1. out \in SUBSET (hand \cup out)
    OBVIOUS
  <2> QED
    BY <1>9, <1>13, <1>14, <2>1, Released
<1> QED
  BY <1>2, <1>14, <1>15

\* A host value that differs from one that is right in its waiters and caches only.
SameBooks(h, n) ==
    /\ n \in HostStates /\ Len(n.thumbs) <= CacheCap
    /\ n.lane = h.lane /\ n.held = h.held /\ n.live = h.live
    /\ n.inFlight = h.inFlight /\ n.generation = h.generation
    /\ h.waiters \subseteq n.waiters

LEMMA BooksKept ==
    ASSUME NEW h, NEW hand, HostInv(h, hand), NEW n, SameBooks(h, n)
    PROVE  HostInv(n, hand)
<1>1. Wanted(n.held["provider"], n.waiters)
  BY DEF HostInv, SameBooks, Wanted
<1> QED
  BY <1>1 DEF HostInv, SameBooks

\* Another surface waits for work that goes on already.
LEMMA WaiterJoins ==
    ASSUME NEW h, NEW hand, HostInv(h, hand), NEW waiter \in Waiters
    PROVE  HostInv([h EXCEPT !.waiters = @ \cup {waiter}], hand)
<1> DEFINE n == [h EXCEPT !.waiters = @ \cup {waiter}]
<1>1. SameBooks(h, n)
  BY DEF HostInv, HostStates, SameBooks
<1> HIDE DEF n
<1>2. HostInv(n, hand)
  BY <1>1, BooksKept
<1> QED
  BY <1>2 DEF n

\* It may also want it sooner.
LEMMA Joined ==
    ASSUME NEW h, NEW hand, HostInv(h, hand), NEW waiter \in Waiters,
           NEW priority \in AssetPriority
    PROVE  HostInv(Join(h, waiter, priority), hand)
<1> DEFINE raised == {j \in h.held["provider"] :
                         Slot(j) = waiter.slot /\ j.request.priority < priority}
           n == Join(h, waiter, priority)
           lane == h.lane["provider"]
<1>1. /\ h \in HostStates /\ "provider" \in Lanes /\ lane \in LaneStates
      /\ h.held["provider"] \in SUBSET Jobs /\ DistinctKeys(h.held["provider"])
      /\ LaneOK(lane, h.held["provider"]) /\ All(h.held, hand) \in SUBSET Jobs
      /\ h.held["provider"] \subseteq All(h.held, hand)
  BY KeysApart DEF HostInv, HostStates, Lanes
<1>2. CASE raised = {}
  <2>1. n = [h EXCEPT !.waiters = @ \cup {waiter}, !.held["provider"] = (@ \ {}) \cup {},
                      !.lane["provider"] = @]
    <3>1. {[j EXCEPT !.request.priority = priority] : j \in raised} = {}
      BY <1>2
    <3> QED
      BY <1>2, <3>1 DEF Join
  <2>2. /\ [h.held EXCEPT !["provider"] = (@ \ {}) \cup {}] = h.held
        /\ [h.lane EXCEPT !["provider"] = @] = h.lane
        /\ h.held \in [Lanes -> SUBSET Jobs] /\ h.lane \in [Lanes -> LaneStates]
    BY <1>1 DEF HostStates
  <2> HIDE DEF n
  <2>3. /\ n.waiters = h.waiters \cup {waiter} /\ n.live = h.live /\ n.inFlight = h.inFlight
        /\ n.thumbs = h.thumbs /\ n.generation = h.generation /\ n.held = h.held
        /\ n.lane = h.lane /\ n \in HostStates
    BY <1>1, <2>1, <2>2 DEF HostStates
  <2>4. SameBooks(h, n)
    BY <2>3 DEF HostInv, SameBooks
  <2>5. HostInv(n, hand)
    BY <2>4, BooksKept
  <2> QED
    BY <2>5 DEF n
<1>3. CASE raised # {}
  <2>1. PICK j \in raised : TRUE
    BY <1>3
  <2>2. j \in h.held["provider"] /\ Slot(j) = waiter.slot /\ j.request.priority < priority
    BY <2>1
  <2>3. raised = {j}
    BY <1>1, <2>1 DEF HostInv, Booked
  <2> DEFINE request == [j.request EXCEPT !.priority = priority]
             k  == [j EXCEPT !.request = request]
             to == AfterSubmit(lane, request, SubmitOutcome(lane, request, Capacity["provider"]))
  <2>4. {[x EXCEPT !.request.priority = priority] : x \in raised} = {k}
    BY <2>3
  <2>5. (CHOOSE x \in raised : TRUE) = j
    BY <2>3
  <2>6. n = [h EXCEPT !.waiters = @ \cup {waiter}, !.held["provider"] = (@ \ {j}) \cup {k},
                      !.lane["provider"] = to]
    <3>1. n = [h EXCEPT !.waiters = @ \cup {waiter},
                  !.held["provider"] = (@ \ raised)
                      \cup {[x EXCEPT !.request.priority = priority] : x \in raised},
                  !.lane["provider"] = IF raised = {} THEN @
                     ELSE AfterSubmit(@,
                            [(CHOOSE x \in raised : TRUE).request EXCEPT !.priority = priority],
                            SubmitOutcome(@,
                            [(CHOOSE x \in raised : TRUE).request EXCEPT !.priority = priority],
                            Capacity["provider"]))]
      BY DEF Join
    <3> HIDE DEF raised, k
    <3> QED
      BY <1>1, <1>3, <2>3, <2>4, <2>5, <3>1 DEF HostStates
  <2>7. \A a \in lane.active : a.request.key # j.request.key
    <3> SUFFICES ASSUME NEW a \in lane.active PROVE a.request.key # j.request.key
      OBVIOUS
    <3>1. PICK x \in hand : WorkId(x.request) = WorkId(a.request)
      BY DEF HostInv, ActiveOK
    <3>2. x \in All(h.held, hand) /\ j \in All(h.held, hand) /\ x # j
      BY <1>1, <2>2 DEF All, HostInv, Apart
    <3>3. x.request.key # j.request.key
      BY <3>2, KeysApart
    <3> QED
      BY <3>1, <3>3 DEF WorkId
  <2>8. k \in Jobs /\ k.asset = j.asset /\ k.seen = j.seen /\ k.request = request
        /\ request.key = j.request.key /\ request.generation = j.request.generation
    BY <1>1, <2>2 DEF Jobs, Requests
  <2> HIDE DEF request, to, k, n, raised, lane
  <2>9. Raises(lane, h.held["provider"], j, priority, Capacity["provider"], request, to)
    BY <2>2, <2>7 DEF Raises, request, to
  <2>10. Raised(lane, h.held["provider"], j, request, to)
    BY <1>1, <2>9, LaneRaises
  <2>11. to \in LaneStates /\ to.active = lane.active
         /\ LaneOK(to, (h.held["provider"] \ {j}) \cup {k})
    BY <2>10 DEF Raised, k
  <2>12. /\ n \in HostStates /\ n.lane = [h.lane EXCEPT !["provider"] = to]
         /\ n.held = [h.held EXCEPT !["provider"] = (h.held["provider"] \ {j}) \cup {k}]
         /\ n.live = h.live /\ n.inFlight = h.inFlight /\ n.thumbs = h.thumbs
         /\ n.generation = h.generation /\ n.waiters = h.waiters \cup {waiter}
    BY <1>1, <2>6, <2>8, <2>11 DEF HostStates
  <2>13. Renewal(j, k) /\ Slot(k) = Slot(j)
    BY <2>8 DEF Renewal, Slot
  <2>14. j \in All(h.held, hand) /\ \A m \in Lanes : m # "provider" => j \notin h.held[m] /\ j \notin hand
    BY <1>1, <2>2 DEF HostInv, Apart
  <2>15. \A m \in Lanes : /\ n.lane[m] = IF m = "provider" THEN to ELSE h.lane[m]
                          /\ n.held[m] = IF m = "provider" THEN (h.held[m] \ {j}) \cup {k}
                                         ELSE h.held[m]
    BY <1>1, <2>12 DEF HostStates
  <2>16. j \notin hand /\ j \notin h.held["upload"] /\ j \notin h.held["apply"]
    BY <1>1, <2>2 DEF HostInv, Apart, Lanes
  <2>17. All(n.held, hand) = (All(h.held, hand) \ {j}) \cup {k}
    <3>1. /\ n.held["provider"] = (h.held["provider"] \ {j}) \cup {k}
          /\ n.held["upload"] = h.held["upload"] /\ n.held["apply"] = h.held["apply"]
      BY <2>15 DEF Lanes
    <3> QED
      BY <2>16, <3>1 DEF All
  <2>18. Booked(All(n.held, hand), n.live, n.inFlight)
    <3>1. Booked(All(h.held, hand), h.live, h.inFlight)
      BY DEF HostInv
    <3>2. Booked((All(h.held, hand) \ {j}) \cup {k}, h.live, h.inFlight)
      BY <1>1, <2>13, <2>14, <3>1, BookedRenewed
    <3> QED
      BY <2>12, <2>17, <3>2
  <2>19. ASSUME NEW x \in All(h.held, hand), x # j PROVE x # k
    BY <2>13, <2>14, <2>19 DEF HostInv, Booked
  <2>20. Apart(n.held, hand)
    <3> SUFFICES ASSUME NEW l \in Lanes, NEW x \in n.held[l]
                 PROVE  x \notin hand /\ \A m \in Lanes : m # l => x \notin n.held[m]
      BY DEF Apart
    <3>1. Apart(h.held, hand) /\ hand \subseteq All(h.held, hand)
          /\ \A m \in Lanes : h.held[m] \subseteq All(h.held, hand)
      BY KeysApart DEF HostInv, All
    <3>2. CASE x = k /\ l = "provider"
      <4>1. x \notin hand
        BY <2>16, <2>19, <3>1, <3>2
      <4>2. ASSUME NEW m \in Lanes, m # l PROVE x \notin n.held[m]
        BY <2>14, <2>15, <2>19, <3>1, <3>2, <4>2
      <4> QED
        BY <4>1, <4>2
    <3>3. CASE x \in h.held[l]
      <4>1. x # j \/ l # "provider" \/ x = k
        BY <2>15, <3>3
      <4>2. x \notin hand
        BY <3>1, <3>3 DEF Apart
      <4>3. ASSUME NEW m \in Lanes, m # l, x \in n.held[m] PROVE FALSE
        <5>1. x \in h.held[m] \/ (m = "provider" /\ x = k)
          BY <2>15, <4>3
        <5>2. x \notin h.held[m]
          BY <3>1, <3>3, <4>3 DEF Apart
        <5>3. m = "provider" /\ x = k /\ x \in All(h.held, hand)
          BY <3>1, <3>3, <5>1, <5>2
        <5>4. x = j
          BY <2>19, <5>3
        <5> QED
          BY <2>14, <3>3, <4>3, <5>3, <5>4
      <4> QED
        BY <4>2, <4>3
    <3> QED
      BY <2>15, <3>2, <3>3
  <2>21. Wanted(n.held["provider"], n.waiters)
    <3>1. \A x \in n.held["provider"] : x \in h.held["provider"] \/ x = k
      BY <1>1, <2>15
    <3>2. waiter \in n.waiters /\ waiter.slot = Slot(k) /\ h.waiters \subseteq n.waiters
      BY <2>2, <2>12, <2>13
    <3> QED
      BY <3>1, <3>2 DEF HostInv, Wanted
  <2>22. \A m \in Lanes : LaneOK(n.lane[m], n.held[m]) /\ IsFiniteSet(n.held[m])
    <3>1. IsFiniteSet((h.held["provider"] \ {j}) \cup {k})
      <4>1. IsFiniteSet(h.held["provider"] \ {j})
        BY <1>1, FS_Subset DEF HostInv
      <4> QED
        BY <4>1, FS_AddElement
    <3> QED
      BY <2>11, <2>15, <3>1 DEF HostInv
  <2>23. \A x \in All(n.held, hand) : JobOK(x, n.generation)
    <3>1. JobOK(k, h.generation)
      BY <2>8, <2>14 DEF HostInv, JobOK
    <3> QED
      BY <2>12, <2>17, <3>1 DEF HostInv
  <2>24. ActiveOK(n.lane, hand)
    BY <1>1, <2>11, <2>15 DEF HostInv, ActiveOK, Lanes, lane
  <2>25. Len(n.thumbs) <= CacheCap /\ hand \subseteq Jobs /\ IsFiniteSet(hand)
    BY <2>12 DEF HostInv
  <2>26. HostInv(n, hand)
    BY <2>12, <2>18, <2>20, <2>21, <2>22, <2>23, <2>24, <2>25 DEF HostInv
  <2> QED
    BY <2>26 DEF n
<1> QED
  BY <1>2, <1>3

\* An asset that has a job may be marked.
LEMMA MarkedMore ==
    ASSUME NEW h, NEW hand, HostInv(h, hand), NEW j \in All(h.held, hand), NEW n \in HostStates,
           n.lane = h.lane, n.held = h.held, n.live = h.live, n.waiters = h.waiters,
           n.thumbs = h.thumbs, n.generation = h.generation,
           n.inFlight = h.inFlight \cup {j.asset}
    PROVE  HostInv(n, hand)
<1>1. Booked(All(h.held, hand), h.live, n.inFlight)
  BY DEF HostInv, Booked
<1> QED
  BY <1>1 DEF HostInv

\* The host with a new job in hand: reserved, waited for and marked.
Admitting(h, job, waiter) ==
    [h EXCEPT !.live = @ \cup {LiveEntry(job)},
              !.waiters = {w \in @ : w.slot # waiter.slot} \cup {waiter},
              !.inFlight = @ \cup {job.asset},
              !.generation = @ + 1]

IsAdmitting(h, job, waiter, n) ==
    /\ n \in HostStates
    /\ n.lane = h.lane /\ n.held = h.held /\ n.thumbs = h.thumbs
    /\ n.live = h.live \cup {LiveEntry(job)}
    /\ n.waiters = {w \in h.waiters : w.slot # waiter.slot} \cup {waiter}
    /\ n.inFlight = h.inFlight \cup {job.asset}
    /\ n.generation = h.generation + 1

LEMMA InHand ==
    ASSUME NEW h, NEW hand, HostInv(h, hand), NEW job \in Jobs, NEW waiter \in Waiters,
           JobOK(job, h.generation + 1), waiter.slot = Slot(job), ~IsLive(h, Slot(job))
    PROVE  /\ IsAdmitting(h, job, waiter, Admitting(h, job, waiter))
           /\ HostInv(Admitting(h, job, waiter), hand \cup {job})
           /\ \A j \in All(h.held, hand) : Slot(j) # Slot(job)
           /\ Unknown(h.lane["provider"], h.held["provider"], job.request)
<1> DEFINE n == Admitting(h, job, waiter)
           more == hand \cup {job}
<1>1. /\ h \in HostStates /\ "provider" \in Lanes /\ All(h.held, hand) \in SUBSET Jobs
      /\ \A l \in Lanes : h.held[l] \subseteq All(h.held, hand)
      /\ hand \subseteq All(h.held, hand)
      /\ h.generation \in Nat /\ Booked(All(h.held, hand), h.live, h.inFlight)
      /\ Apart(h.held, hand) /\ IsFiniteSet(hand)
  BY KeysApart DEF HostInv, HostStates, Lanes, All
<1>2. IsAdmitting(h, job, waiter, n)
  <2>1. LiveEntry(job) \in LiveEntries /\ job.asset \in Assets
    BY SlotTyped DEF Jobs
  <2> DEFINE next == h.generation + 1
             live == h.live \cup {LiveEntry(job)}
             waiters == {w \in h.waiters : w.slot # waiter.slot} \cup {waiter}
  <2>2. next \in Nat /\ live \subseteq LiveEntries /\ waiters \subseteq Waiters
    BY <1>1, <2>1 DEF HostStates
  <2>3. n = [h EXCEPT !.live = live, !.waiters = waiters,
                      !.inFlight = @ \cup {job.asset}, !.generation = next]
    BY <1>1 DEF Admitting, HostStates
  <2> HIDE DEF next, live, waiters, n
  <2>4. /\ n \in HostStates /\ n.lane = h.lane /\ n.held = h.held /\ n.thumbs = h.thumbs
        /\ n.live = live /\ n.waiters = waiters /\ n.inFlight = h.inFlight \cup {job.asset}
        /\ n.generation = next
    BY <1>1, <2>1, <2>2, <2>3 DEF HostStates
  <2> QED
    BY <2>4 DEF IsAdmitting, next, live, waiters
<1>3. ASSUME NEW j \in All(h.held, hand) PROVE Slot(j) # Slot(job)
  <2>1. LiveEntry(j) \in h.live
    BY <1>1 DEF Booked
  <2>2. LiveEntry(j).slot = Slot(j)
    BY DEF LiveEntry
  <2> QED
    BY <2>1, <2>2 DEF IsLive
<1>4. ASSUME NEW j \in All(h.held, hand) PROVE j.request.key # job.request.key
  <2>1. j.request.key.asset = j.asset /\ job.request.key.asset = job.asset
    BY DEF HostInv, JobOK
  <2> QED
    BY <1>3, <2>1 DEF Slot
<1>5. Unknown(h.lane["provider"], h.held["provider"], job.request)
  <2>1. ASSUME NEW a \in h.lane["provider"].active PROVE a.request.key # job.request.key
    <3>1. PICK j \in hand : WorkId(j.request) = WorkId(a.request)
      BY DEF HostInv, ActiveOK
    <3> QED
      BY <1>1, <1>4, <3>1 DEF WorkId
  <2> QED
    BY <1>1, <1>4, <2>1 DEF Unknown
<1> HIDE DEF n
<1>6. /\ n \in HostStates
      /\ n.lane = h.lane /\ n.held = h.held /\ n.thumbs = h.thumbs
      /\ n.live = h.live \cup {LiveEntry(job)}
      /\ n.waiters = {w \in h.waiters : w.slot # waiter.slot} \cup {waiter}
      /\ n.inFlight = h.inFlight \cup {job.asset}
      /\ n.generation = h.generation + 1
  BY <1>2 DEF IsAdmitting
<1>7. All(n.held, more) = All(h.held, hand) \cup {job}
  BY <1>6 DEF All
<1>8. Booked(All(n.held, more), n.live, n.inFlight)
  <2>1. Booked(All(h.held, hand) \cup {job}, h.live \cup {LiveEntry(job)}, h.inFlight \cup {job.asset})
    BY <1>1, <1>3, BookedMore
  <2> QED
    BY <1>6, <1>7, <2>1
<1>9. Apart(n.held, more)
  <2>1. \A l \in Lanes : job \notin h.held[l]
    BY <1>1, <1>3
  <2> QED
    BY <1>1, <1>6, <2>1 DEF Apart
<1>10. \A j \in All(n.held, more) : JobOK(j, n.generation)
  <2>1. \A j \in All(h.held, hand) : JobOK(j, h.generation)
    BY DEF HostInv
  <2>2. \A j \in All(h.held, hand) : JobOK(j, h.generation + 1)
    BY <1>1, <2>1 DEF JobOK
  <2> QED
    BY <1>6, <1>7, <2>2
<1>11. Wanted(n.held["provider"], n.waiters)
  <2> SUFFICES ASSUME NEW j \in h.held["provider"] PROVE \E w \in n.waiters : w.slot = Slot(j)
    BY <1>6 DEF Wanted
  <2>1. PICK w \in h.waiters : w.slot = Slot(j)
    BY DEF HostInv, Wanted
  <2>2. Slot(j) # waiter.slot
    BY <1>1, <1>3
  <2> QED
    BY <1>6, <2>1, <2>2
<1>12. IsFiniteSet(more) /\ more \subseteq Jobs
  BY <1>1, FS_AddElement DEF HostInv
<1>13. ActiveOK(n.lane, more)
  BY <1>6 DEF HostInv, ActiveOK
<1>14. /\ Len(n.thumbs) <= CacheCap
       /\ \A l \in Lanes : LaneOK(n.lane[l], n.held[l]) /\ IsFiniteSet(n.held[l])
  BY <1>6 DEF HostInv
<1> HIDE DEF more
<1>15. HostInv(n, more)
  BY <1>6, <1>8, <1>9, <1>10, <1>11, <1>12, <1>13, <1>14 DEF HostInv
<1> QED
  BY <1>2, <1>3, <1>5, <1>15 DEF n, more

\* The generation is used up whether or not the request is taken.
LEMMA GenerationUsed ==
    ASSUME NEW h, NEW hand, HostInv(h, hand)
    PROVE  HostInv([h EXCEPT !.generation = h.generation + 1], hand)
<1> DEFINE n == [h EXCEPT !.generation = h.generation + 1]
<1>1. h \in HostStates /\ h.generation \in Nat
  BY DEF HostInv, HostStates
<1>2. /\ n \in HostStates /\ n.lane = h.lane /\ n.held = h.held /\ n.live = h.live
      /\ n.waiters = h.waiters /\ n.inFlight = h.inFlight /\ n.thumbs = h.thumbs
      /\ n.generation = h.generation + 1
  <2> DEFINE next == h.generation + 1
  <2>1. next \in Nat /\ n = [h EXCEPT !.generation = next]
    BY <1>1
  <2> HIDE DEF next, n
  <2>2. /\ n \in HostStates /\ n.lane = h.lane /\ n.held = h.held /\ n.live = h.live
        /\ n.waiters = h.waiters /\ n.inFlight = h.inFlight /\ n.thumbs = h.thumbs
        /\ n.generation = next
    BY <1>1, <2>1 DEF HostStates
  <2> QED
    BY <2>2 DEF next
<1> HIDE DEF n
<1>3. \A j \in All(n.held, hand) : JobOK(j, n.generation)
  <2>1. \A j \in All(h.held, hand) : JobOK(j, h.generation)
    BY DEF HostInv
  <2> QED
    BY <1>1, <1>2, <2>1 DEF JobOK
<1>4. HostInv(n, hand)
  BY <1>2, <1>3 DEF HostInv
<1> QED
  BY <1>4 DEF n

\* A new request is taken with all its books, or not at all.
LEMMA Reserved ==
    ASSUME NEW h, NEW hand, HostInv(h, hand), NEW asset \in Assets, NEW tag \in Nat,
           NEW surface \in Surfaces, NEW priority \in AssetPriority,
           listing[surface].generation \in Nat,
           ~IsLive(h, IF asset \in Thumbs THEN [asset |-> asset, tag |-> tag] ELSE asset)
    PROVE  HostInv(Reserve(h, asset, tag, surface, priority), hand)
<1> DEFINE generation == h.generation + 1
           request == [scope |-> "dispatch", key |-> [asset |-> asset, tag |-> tag],
                       generation |-> generation, priority |-> priority]
           job     == [asset |-> asset, request |-> request, seen |-> 0]
           waiter  == [slot |-> Slot(job), scope |-> surface,
                       generation |-> listing[surface].generation]
           s  == SubmitTo(h, "provider", request)
           n  == Reserve(h, asset, tag, surface, priority)
           a  == Admitting(h, job, waiter)
           t  == SubmitTo(a, "provider", request)
           e  == [t EXCEPT !.held["provider"] = @ \cup {job}]
<1>1. /\ h \in HostStates /\ "provider" \in Lanes /\ h.generation \in Nat /\ generation \in Nat
      /\ \A l \in Lanes : h.held[l] \subseteq All(h.held, hand)
      /\ hand \subseteq All(h.held, hand)
  BY KeysApart DEF HostInv, HostStates, Lanes, All
<1>2. request \in Requests /\ job \in Jobs /\ JobOK(job, generation)
      /\ Slot(job) = IF asset \in Thumbs THEN [asset |-> asset, tag |-> tag] ELSE asset
  <2>1. request \in Requests
    BY <1>1 DEF Requests, Keys
  <2>2. job \in Jobs
    BY <2>1 DEF Jobs
  <2>3. Slot(job) = IF asset \in Thumbs THEN [asset |-> asset, tag |-> tag] ELSE asset
    BY DEF Slot
  <2>4. generation \in 1..generation /\ 0 \in 0..MaxVersion
    BY <1>1, Bounds
  <2>5. JobOK(job, generation)
    BY <2>4 DEF JobOK
  <2> QED
    BY <2>1, <2>2, <2>3, <2>5
<1>3. waiter \in Waiters
  BY <1>2, SlotTyped DEF Waiters
<1>4. job.request = request /\ job.asset = asset /\ waiter.slot = Slot(job)
  OBVIOUS
<1>5. n = IF ~Accepts(h, "provider", request) THEN [s EXCEPT !.generation = generation]
          ELSE [[s EXCEPT !.generation = generation]
                  EXCEPT !.held["provider"] = @ \cup {job},
                         !.live     = @ \cup {LiveEntry(job)},
                         !.waiters  = {w \in @ : w.slot # waiter.slot} \cup {waiter},
                         !.inFlight = @ \cup {asset}]
  BY DEF Reserve
<1> HIDE DEF generation, request, job, waiter, n
<1>6. /\ IsAdmitting(h, job, waiter, a) /\ HostInv(a, hand \cup {job})
      /\ \A j \in All(h.held, hand) : Slot(j) # Slot(job)
      /\ Unknown(h.lane["provider"], h.held["provider"], request)
  BY <1>2, <1>3, <1>4, InHand DEF generation
<1>7. CASE ~Accepts(h, "provider", request)
  <2>1. HostInv(s, hand) /\ s.generation = h.generation
    BY <1>1, <1>2, <1>4, <1>6, <1>7, Rejected
  <2> HIDE DEF s
  <2>2. HostInv([s EXCEPT !.generation = s.generation + 1], hand)
    BY <2>1, GenerationUsed
  <2> QED
    BY <1>5, <1>7, <2>1, <2>2 DEF n, generation
<1>8. CASE Accepts(h, "provider", request)
  <2>1. /\ a \in HostStates /\ a.lane = h.lane /\ a.held = h.held /\ a.thumbs = h.thumbs
        /\ a.live = h.live \cup {LiveEntry(job)}
        /\ a.waiters = {w \in h.waiters : w.slot # waiter.slot} \cup {waiter}
        /\ a.inFlight = h.inFlight \cup {asset}
        /\ a.generation = generation
    BY <1>4, <1>6 DEF IsAdmitting, generation
  <2> HIDE DEF a
  <2>2. Accepts(a, "provider", request)
    BY <1>8, <2>1 DEF Accepts
  <2>3. (hand \cup {job}) \ {job} = hand
    BY <1>1, <1>6
  <2>4. ActiveOK(a.lane, (hand \cup {job}) \ {job})
    BY <2>1, <2>3 DEF HostInv
  <2>5. \E w \in a.waiters : w.slot = Slot(job)
    BY <1>4, <2>1
  <2>6. HostInv(e, hand)
    <3> DEFINE more == hand \cup {job}
    <3>1. job \in more /\ more \ {job} = hand /\ HostInv(a, more) /\ ActiveOK(a.lane, more \ {job})
      BY <1>6, <2>3, <2>4
    <3> HIDE DEF more
    <3>2. HostInv([SubmitTo(a, "provider", job.request) EXCEPT !.held["provider"] = @ \cup {job}],
                  more \ {job})
      BY <1>1, <1>4, <2>2, <2>5, <3>1, Entered
    <3> QED
      BY <1>4, <3>1, <3>2 DEF e, t
  <2> DEFINE outcome == SubmitOutcome(h.lane["provider"], request, Capacity["provider"])
             to   == AfterSubmit(h.lane["provider"], request, outcome)
             gone == {j \in h.held["provider"] : \E r \in Evicted(h.lane["provider"], outcome) :
                                         WorkId(j.request) = WorkId(r)}
  <2>7. Submits(h.lane["provider"], h.held["provider"], request, Capacity["provider"],
                outcome, gone, to)
    BY DEF Submits
  <2> HIDE DEF outcome, to, gone
  <2>8. to \in LaneStates /\ gone \subseteq h.held["provider"]
    <3>1. /\ h.lane["provider"] \in LaneStates /\ h.held["provider"] \in SUBSET Jobs
          /\ LaneOK(h.lane["provider"], h.held["provider"]) /\ DistinctKeys(h.held["provider"])
      BY <1>1, KeysApart DEF HostInv, HostStates
    <3>2. Takes(h.lane["provider"], h.held["provider"], job, outcome, gone, to)
      BY <1>2, <1>4, <1>6, <2>7, <3>1, LaneTakes
    <3> QED
      BY <2>7, <3>2 DEF Takes, Submits
  <2>9. Submitted(h, "provider", gone, to, s)
    BY <1>1, <2>7, <2>8, SubmitFields
  <2>10. Submitted(a, "provider", gone, to, t)
    <3>1. Submits(a.lane["provider"], a.held["provider"], request, Capacity["provider"],
                  outcome, gone, to)
      BY <2>1, <2>7
    <3> QED
      BY <1>1, <2>1, <2>8, <3>1, SubmitFields
  <2> HIDE DEF s, t
  <2>11. Slot(job) \notin {Slot(j) : j \in gone} /\ LiveEntry(job).slot = Slot(job)
    BY <1>1, <1>6, <2>8 DEF LiveEntry
  <2>12. /\ e \in HostStates /\ e.lane = t.lane /\ e.live = t.live /\ e.waiters = t.waiters
         /\ e.inFlight = t.inFlight /\ e.thumbs = t.thumbs /\ e.generation = t.generation
         /\ e.held = [t.held EXCEPT !["provider"] = @ \cup {job}]
    BY <1>1, <1>2, <2>10 DEF Submitted, HostStates
  <2> HIDE DEF e
  <2>13. /\ n \in HostStates /\ n.lane = s.lane /\ n.thumbs = s.thumbs
         /\ n.live = s.live \cup {LiveEntry(job)}
         /\ n.waiters = {w \in s.waiters : w.slot # waiter.slot} \cup {waiter}
         /\ n.inFlight = s.inFlight \cup {asset} /\ n.generation = generation
         /\ n.held = [s.held EXCEPT !["provider"] = @ \cup {job}]
    <3>1. s \in HostStates /\ LiveEntry(job) \in LiveEntries
      BY <1>2, <2>9, SlotTyped DEF Submitted
    <3> DEFINE live == s.live \cup {LiveEntry(job)}
               waiters == {w \in s.waiters : w.slot # waiter.slot} \cup {waiter}
               r == [s EXCEPT !.generation = generation]
    <3>2. live \subseteq LiveEntries /\ waiters \subseteq Waiters
      BY <1>3, <3>1 DEF HostStates
    <3>3. /\ r \in HostStates /\ r.lane = s.lane /\ r.held = s.held /\ r.live = s.live
          /\ r.waiters = s.waiters /\ r.inFlight = s.inFlight /\ r.thumbs = s.thumbs
          /\ r.generation = generation
      BY <1>1, <3>1 DEF HostStates
    <3> HIDE DEF r, live, waiters
    <3>4. n = [r EXCEPT !.held["provider"] = @ \cup {job}, !.live = live, !.waiters = waiters,
                        !.inFlight = @ \cup {asset}]
      BY <1>5, <1>8, <3>3 DEF r, live, waiters
    <3>5. /\ n \in HostStates /\ n.lane = r.lane /\ n.thumbs = r.thumbs /\ n.live = live
          /\ n.waiters = waiters /\ n.inFlight = r.inFlight \cup {asset}
          /\ n.generation = r.generation
          /\ n.held = [r.held EXCEPT !["provider"] = @ \cup {job}]
      BY <1>1, <1>2, <3>2, <3>3, <3>4 DEF HostStates
    <3> QED
      BY <3>3, <3>5 DEF live, waiters
  <2>14. /\ n.lane = e.lane /\ n.held = e.held /\ n.thumbs = e.thumbs
         /\ n.generation = e.generation
    BY <2>1, <2>9, <2>10, <2>12, <2>13 DEF Submitted
  <2> DEFINE slots == {Slot(j) : j \in gone}
             assets == {j.asset : j \in gone}
  <2>15. /\ s.live = {x \in h.live : x.slot \notin slots}
         /\ t.live = {x \in a.live : x.slot \notin slots}
         /\ s.waiters = {w \in h.waiters : w.slot \notin slots}
         /\ t.waiters = {w \in a.waiters : w.slot \notin slots}
         /\ s.inFlight = h.inFlight \ assets /\ t.inFlight = a.inFlight \ assets
    BY <2>9, <2>10 DEF Submitted
  <2>16. Slot(job) \notin slots
    BY <2>11
  <2> HIDE DEF slots, assets
  <2>17. n.live = e.live
    BY <2>1, <2>11, <2>12, <2>13, <2>15, <2>16
  <2>18. n.waiters = e.waiters
    BY <1>4, <2>1, <2>12, <2>13, <2>15, <2>16
  <2>19. n.inFlight = e.inFlight \cup {asset}
    BY <2>1, <2>12, <2>13, <2>15
  <2>20. job \in All(e.held, hand)
    BY <1>1, <2>10, <2>12 DEF All, Submitted, HostStates
  <2>21. HostInv(n, hand)
    BY <1>4, <2>6, <2>13, <2>14, <2>17, <2>18, <2>19, <2>20, MarkedMore
  <2> QED
    BY <2>21 DEF n
<1> QED
  BY <1>7, <1>8

----------------------------------------------------------------------------
(* The caches.                                                              *)

LEMMA Appended ==
    ASSUME NEW E, NEW s \in Seq(E), NEW e \in E
    PROVE  /\ Append(s, e) \in Seq(E) /\ Len(Append(s, e)) = Len(s) + 1 /\ Len(s) \in Nat
           /\ Tail(Append(s, e)) \in Seq(E) /\ Len(Tail(Append(s, e))) = Len(s)
<1> DEFINE t == Append(s, e)
<1>1. t \in Seq(E) /\ Len(t) = Len(s) + 1 /\ Len(s) \in Nat
  OBVIOUS
<1> HIDE DEF t
<1>2. t # <<>>
  <2>1. Len(<<>>) = 0
    OBVIOUS
  <2> QED
    BY <1>1, <2>1
<1>3. Tail(t) \in Seq(E) /\ Len(Tail(t)) = Len(t) - 1
  BY <1>1, <1>2
<1> QED
  BY <1>1, <1>3 DEF t

LEMMA ThumbKept ==
    ASSUME NEW thumbs \in Seq([asset : Thumbs, seen : Nat]), Len(thumbs) <= CacheCap,
           NEW asset \in Thumbs, NEW seen \in Nat
    PROVE  /\ WithThumb(thumbs, asset, seen) \in Seq([asset : Thumbs, seen : Nat])
           /\ Len(WithThumb(thumbs, asset, seen)) <= CacheCap
<1> DEFINE E == [asset : Thumbs, seen : Nat]
           entry == [asset |-> asset, seen |-> seen]
           longer == Append(thumbs, entry)
<1>1. CacheCap \in Nat /\ entry \in E /\ thumbs \in Seq(E)
  BY Bounds
<1>2. CASE \E i \in DOMAIN thumbs : thumbs[i].asset = asset
  <2> DEFINE new == [i \in DOMAIN thumbs |-> IF thumbs[i].asset = asset THEN entry ELSE thumbs[i]]
  <2>1. WithThumb(thumbs, asset, seen) = new
    BY <1>2 DEF WithThumb
  <2> HIDE DEF entry, E
  <2>2. DOMAIN thumbs = 1..Len(thumbs) /\ Len(thumbs) \in Nat /\ \A i \in 1..Len(thumbs) : thumbs[i] \in E
    BY <1>1
  <2>3. new \in [1..Len(thumbs) -> E]
    BY <1>1, <2>2
  <2>4. new \in Seq(E) /\ Len(new) = Len(thumbs)
    BY <2>2, <2>3
  <2> QED
    BY <2>1, <2>4 DEF E
<1>3. CASE ~\E i \in DOMAIN thumbs : thumbs[i].asset = asset
  <2>1. WithThumb(thumbs, asset, seen) = IF Len(longer) > CacheCap THEN Tail(longer) ELSE longer
    BY <1>3 DEF WithThumb
  <2> HIDE DEF entry, E
  <2>2. /\ longer \in Seq(E) /\ Len(longer) = Len(thumbs) + 1 /\ Len(thumbs) \in Nat
        /\ Tail(longer) \in Seq(E) /\ Len(Tail(longer)) = Len(thumbs)
    BY <1>1, Appended
  <2> HIDE DEF longer
  <2> QED
    BY <1>1, <2>1, <2>2 DEF E
<1> QED
  BY <1>2, <1>3

LEMMA ReadyKept ==
    ASSUME NEW h, NEW hand, HostInv(h, hand), NEW job \in Jobs
    PROVE  HostInv(WithReady(h, job), hand)
<1> DEFINE n == WithReady(h, job)
           thumbs == WithThumb(h.thumbs, job.asset, job.seen)
<1>1. h \in HostStates /\ Len(h.thumbs) <= CacheCap
      /\ h.thumbs \in Seq([asset : Thumbs, seen : Nat])
      /\ job.asset \in Thumbs \cup Icons /\ job.seen \in Nat
  BY DEF HostInv, HostStates, Jobs, Assets
<1>2. CASE job.asset \in Thumbs
  <2>1. thumbs \in Seq([asset : Thumbs, seen : Nat]) /\ Len(thumbs) <= CacheCap
    BY <1>1, <1>2, ThumbKept
  <2>2. n = [h EXCEPT !.thumbs = thumbs]
    BY <1>2 DEF WithReady
  <2> HIDE DEF thumbs, n
  <2>3. SameBooks(h, n)
    BY <1>1, <2>1, <2>2 DEF HostStates, SameBooks
  <2>4. HostInv(n, hand)
    BY <2>3, BooksKept
  <2> QED
    BY <2>4 DEF n
<1>3. CASE job.asset \notin Thumbs
  <2>1. job.asset \in Icons
    BY <1>1, <1>3
  <2>2. n = [h EXCEPT !.icons = @ \cup {job.asset}]
    BY <1>3 DEF WithReady
  <2> HIDE DEF n
  <2>3. SameBooks(h, n)
    BY <1>1, <2>1, <2>2 DEF HostStates, SameBooks
  <2>4. HostInv(n, hand)
    BY <2>3, BooksKept
  <2> QED
    BY <2>4 DEF n
<1> QED
  BY <1>2, <1>3

\* A worker's reading changes the job in its hand, and nothing else of it.
LEMMA HandRenewed ==
    ASSUME NEW h, NEW hand, HostInv(h, hand), NEW j \in hand, NEW k, Renewal(j, k),
           k.seen \in 0..MaxVersion
    PROVE  HostInv(h, (hand \ {j}) \cup {k})
<1> DEFINE new == (hand \ {j}) \cup {k}
<1>1. /\ k \in Jobs /\ WorkId(k.request) = WorkId(j.request) /\ Slot(k) = Slot(j)
      /\ All(h.held, hand) \in SUBSET Jobs /\ hand \subseteq All(h.held, hand)
      /\ \A l \in Lanes : h.held[l] \subseteq All(h.held, hand)
      /\ \A l \in Lanes : j \notin h.held[l]
      /\ Apart(h.held, hand)
  BY KeysApart DEF Renewal, WorkId, Slot, All, HostInv, Apart
<1>2. All(h.held, new) = (All(h.held, hand) \ {j}) \cup {k}
  BY <1>1 DEF All, Lanes
<1>3. Booked(All(h.held, new), h.live, h.inFlight)
  <2>1. Booked(All(h.held, hand), h.live, h.inFlight)
    BY DEF HostInv
  <2>2. Booked((All(h.held, hand) \ {j}) \cup {k}, h.live, h.inFlight)
    BY <1>1, <2>1, BookedRenewed
  <2> QED
    BY <1>2, <2>2
<1>4. Apart(h.held, new)
  <2>1. ASSUME NEW l \in Lanes, NEW x \in h.held[l] PROVE x # k
    <3>1. x \in All(h.held, hand) /\ x # j /\ j \in All(h.held, hand)
      BY <1>1
    <3> QED
      BY <1>1, <3>1 DEF HostInv, Booked
  <2> QED
    BY <1>1, <2>1 DEF Apart
<1>5. ActiveOK(h.lane, new)
  <2>1. ActiveOK(h.lane, hand)
    BY DEF HostInv
  <2>2. ASSUME NEW a \in h.lane["provider"].active
        PROVE  \E x \in new : WorkId(x.request) = WorkId(a.request)
    <3>1. PICK x \in hand : WorkId(x.request) = WorkId(a.request)
      BY <2>1 DEF ActiveOK
    <3> QED
      BY <1>1, <3>1
  <2> QED
    BY <2>1, <2>2 DEF ActiveOK
<1>6. \A x \in All(h.held, new) : JobOK(x, h.generation)
  <2>1. JobOK(k, h.generation)
    <3>1. JobOK(j, h.generation)
      BY <1>1 DEF HostInv
    <3> QED
      BY <3>1 DEF JobOK, Renewal
  <2> QED
    BY <1>2, <2>1 DEF HostInv
<1>7. new \subseteq Jobs /\ IsFiniteSet(new)
  <2>1. IsFiniteSet(hand \ {j}) /\ hand \subseteq Jobs
    BY FS_Subset DEF HostInv
  <2> QED
    BY <1>1, <2>1, FS_AddElement
<1> HIDE DEF new
<1>8. HostInv(h, new)
  BY <1>3, <1>4, <1>5, <1>6, <1>7 DEF HostInv
<1> QED
  BY <1>8 DEF new

----------------------------------------------------------------------------
(* The steps.                                                               *)

LEMMA InvInit == Init => DispatchInv
<1> SUFFICES ASSUME Init PROVE DispatchInv
  OBVIOUS
<1>1. NewLane \in LaneStates /\ LaneOK(NewLane, {}) /\ NewLane.active = {}
  BY DEF NewLane, LaneStates, LaneOK
<1>2. Travelling = {}
  BY DEF Init, Travelling
<1>3. host \in HostStates /\ Len(host.thumbs) <= CacheCap
  <2>1. <<>> \in Seq([asset : Thumbs, seen : Nat]) /\ Len(<<>>) = 0
    OBVIOUS
  <2>2. 0 <= CacheCap
    BY Bounds
  <2>3. host.thumbs = <<>>
    BY DEF Init
  <2>4. host \in HostStates
    BY <1>1, <2>1 DEF Init, HostStates
  <2> QED
    BY <2>1, <2>2, <2>3, <2>4
<1>4. /\ \A l \in Lanes : host.lane[l] = NewLane /\ host.held[l] = {}
      /\ host.live = {} /\ host.waiters = {} /\ host.inFlight = {}
  BY DEF Init
<1>5. All(host.held, Travelling) = {}
  BY <1>2, <1>4 DEF All, Lanes
<1>6. \A l \in Lanes : LaneOK(host.lane[l], host.held[l]) /\ IsFiniteSet(host.held[l])
  BY <1>1, <1>4, FS_EmptySet
<1>7. Booked(All(host.held, Travelling), host.live, host.inFlight)
  BY <1>4, <1>5 DEF Booked
<1>8. ActiveOK(host.lane, Travelling) /\ Apart(host.held, Travelling)
      /\ Wanted(host.held["provider"], host.waiters)
  BY <1>1, <1>4 DEF ActiveOK, Apart, Wanted, Lanes
<1>9. HostInv(host, Travelling)
  BY <1>2, <1>3, <1>5, <1>6, <1>7, <1>8, FS_EmptySet DEF HostInv
<1>10. WorkersInv
  BY DEF Init, WorkersInv, Unsent
<1>11. Surroundings
  <2>1. 0 \in 0..MaxVersion /\ MaxVersion \in Nat /\ 0 \in 0..(UploadsPerFrame + AppliesPerFrame)
    BY Bounds, FrameBudgets
  <2>2. version \in [Assets -> 0..MaxVersion]
    BY <2>1 DEF Init
  <2>3. listing \in [Surfaces -> [generation : Nat, revision : [Assets -> 0..MaxVersion]]]
    BY <2>2 DEF Init
  <2> QED
    BY <2>1, <2>2, <2>3 DEF Init, Surroundings
<1> QED
  BY <1>9, <1>10, <1>11 DEF DispatchInv

\* A step of the UI thread that leaves the jobs in hand where they are.
LEMMA HostSteps ==
    ASSUME DispatchInv, UNCHANGED <<workers, completed>>, HostInv(host', Travelling),
           Surroundings'
    PROVE  DispatchInv'
<1>1. Travelling' = Travelling
  BY DEF Travelling
<1>2. WorkersInv'
  BY DEF DispatchInv, WorkersInv, Unsent
<1> QED
  BY <1>1, <1>2 DEF DispatchInv

LEMMA FetchedJob ==
    ASSUME NEW w \in [job : Jobs, stage : {"fetching", "fetched", "sent"}], NEW v,
           [w.job EXCEPT !.seen = v] \in Jobs
    PROVE  [w EXCEPT !.stage = "fetched", !.job.seen = v] =
              [job |-> [w.job EXCEPT !.seen = v], stage |-> "fetched"]
<1> DEFINE k == [w.job EXCEPT !.seen = v]
           a == [w EXCEPT !.stage = "fetched"]
           b == [job |-> w.job, stage |-> "fetched"]
<1>1. [w EXCEPT !.stage = "fetched", !.job.seen = v] = [w EXCEPT !.stage = "fetched", !.job = k]
  OBVIOUS
<1> HIDE DEF k
<1>2. [w EXCEPT !.stage = "fetched", !.job = k] = [a EXCEPT !.job = k]
  OBVIOUS
<1>3. a = b /\ [b EXCEPT !.job = k] = [job |-> k, stage |-> "fetched"]
  OBVIOUS
<1> HIDE DEF a, b
<1>4. [a EXCEPT !.job = k] = [job |-> k, stage |-> "fetched"]
  BY <1>3
<1> QED
  BY <1>1, <1>2, <1>4 DEF k

LEMMA FetchKeeps ==
    ASSUME DispatchInv, NEW w, Fetch(w)
    PROVE  DispatchInv'
<1> DEFINE j == w.job
           k == [j EXCEPT !.seen = version[j.asset]]
           x == [job |-> k, stage |-> "fetched"]
<1>1. /\ w \in Unsent /\ w \in workers /\ j \in Jobs /\ j \in Travelling
      /\ workers \subseteq [job : Jobs, stage : {"fetching", "fetched", "sent"}]
  BY DEF DispatchInv, WorkersInv, Fetch, Unsent, Travelling
<1>2. version[j.asset] \in 0..MaxVersion /\ MaxVersion \in Nat
  BY <1>1, Bounds DEF DispatchInv, Surroundings, Jobs
<1>3. Renewal(j, k) /\ k.seen \in 0..MaxVersion /\ Slot(k) = Slot(j) /\ LiveEntry(k) = LiveEntry(j)
  <2>1. version[j.asset] \in Nat
    BY <1>2
  <2> QED
    BY <1>1, <1>2, <2>1 DEF Renewal, Jobs, Slot, LiveEntry
<1>4. workers' = (workers \ {w}) \cup {x}
  <2>1. [w EXCEPT !.stage = "fetched", !.job.seen = version[w.job.asset]] = x
    <3>1. w \in [job : Jobs, stage : {"fetching", "fetched", "sent"}] /\ k \in Jobs
      BY <1>1, <1>3 DEF Renewal
    <3> QED
      BY <3>1, FetchedJob
  <2> QED
    BY <2>1 DEF Fetch
<1>5. x.stage = "fetched" /\ x.job = k
  OBVIOUS
<1> HIDE DEF k, x
<1>6. \A v \in Unsent : Slot(v.job) = Slot(j) => v = w
  BY <1>1 DEF DispatchInv, WorkersInv
<1>7. Unsent' = (Unsent \ {w}) \cup {x}
  BY <1>1, <1>4, <1>5 DEF Unsent
<1>8. completed' = completed /\ host' = host /\ j \notin completed
  BY <1>1 DEF Fetch, DispatchInv, WorkersInv
<1>9. Travelling' = (Travelling \ {j}) \cup {k}
  <2>1. Travelling = completed \cup {v.job : v \in Unsent}
    BY DEF Travelling, Unsent
  <2>2. Travelling' = completed \cup {v.job : v \in Unsent'}
    BY <1>8 DEF Travelling, Unsent
  <2>3. {v.job : v \in Unsent'} = {v.job : v \in Unsent \ {w}} \cup {k}
    BY <1>5, <1>7
  <2>4. {v.job : v \in Unsent \ {w}} = {v.job : v \in Unsent} \ {j}
    BY <1>1, <1>6
  <2> QED
    BY <1>8, <2>1, <2>2, <2>3, <2>4
<1>10. HostInv(host, (Travelling \ {j}) \cup {k})
  BY <1>1, <1>3, HandRenewed DEF DispatchInv
<1>11. HostInv(host, Travelling)
  BY DEF DispatchInv
<1>12. WorkersInv'
  <2>1. workers' \subseteq [job : Jobs, stage : {"fetching", "fetched", "sent"}]
    BY <1>1, <1>3, <1>4 DEF x, Renewal
  <2>2. \A u, v \in Unsent' : Slot(u.job) = Slot(v.job) => u = v
    BY <1>3, <1>5, <1>6, <1>7 DEF DispatchInv, WorkersInv
  <2>3. \A v \in Unsent' : v.job \notin completed'
    <3>1. k \notin completed
      <4>1. ASSUME k \in completed PROVE FALSE
        <5>1. k \in Travelling /\ Travelling \subseteq All(host.held, Travelling)
          BY <4>1 DEF Travelling, All
        <5>2. k = j
          BY <1>1, <1>3, <1>11, <5>1 DEF HostInv, Booked
        <5> QED
          BY <1>8, <4>1, <5>2
      <4> QED
        BY <4>1
    <3> QED
      BY <1>5, <1>7, <1>8, <3>1 DEF DispatchInv, WorkersInv
  <2> QED
    BY <2>1, <2>2, <2>3 DEF WorkersInv
<1>13. Surroundings'
  BY DEF DispatchInv, Surroundings, Fetch, surfaceVars
<1> QED
  BY <1>8, <1>9, <1>10, <1>12, <1>13 DEF DispatchInv

LEMMA SendKeeps ==
    ASSUME DispatchInv, NEW w, Send(w)
    PROVE  DispatchInv'
<1> DEFINE x == [job |-> w.job, stage |-> "sent"]
<1>1. /\ w \in Unsent /\ w \in workers /\ w.job \in Jobs
      /\ workers \subseteq [job : Jobs, stage : {"fetching", "fetched", "sent"}]
  BY DEF DispatchInv, WorkersInv, Send, Unsent
<1>2. workers' = (workers \ {w}) \cup {x} /\ completed' = completed \cup {w.job} /\ host' = host
  <2>1. [w EXCEPT !.stage = "sent"] = x
    BY <1>1
  <2> QED
    BY <2>1 DEF Send
<1>3. x.stage = "sent" /\ x.job = w.job
  OBVIOUS
<1>4. workers' \subseteq [job : Jobs, stage : {"fetching", "fetched", "sent"}]
  BY <1>1, <1>2
<1> HIDE DEF x
<1>5. Unsent' = Unsent \ {w}
  BY <1>1, <1>2, <1>3 DEF Unsent
<1>6. Travelling' = Travelling
  <2>1. Travelling = completed \cup {v.job : v \in Unsent}
    BY DEF Travelling, Unsent
  <2>2. Travelling' = completed' \cup {v.job : v \in Unsent'}
    BY DEF Travelling, Unsent
  <2>3. {v.job : v \in Unsent} = {v.job : v \in Unsent \ {w}} \cup {w.job}
    BY <1>1
  <2> QED
    BY <1>2, <1>5, <2>1, <2>2, <2>3
<1>7. WorkersInv'
  <2>1. \A v \in Unsent' : v.job \notin completed'
    BY <1>1, <1>2, <1>5 DEF DispatchInv, WorkersInv
  <2> QED
    BY <1>4, <1>5, <2>1 DEF DispatchInv, WorkersInv
<1>8. Surroundings'
  BY DEF DispatchInv, Surroundings, Send, surfaceVars
<1> QED
  BY <1>2, <1>6, <1>7, <1>8 DEF DispatchInv

LEMMA OfferKeeps ==
    ASSUME DispatchInv, NEW w, OfferWake(w)
    PROVE  DispatchInv'
<1>1. Unsent' = Unsent
  BY DEF OfferWake, Unsent
<1>2. Travelling' = Travelling
  <2>1. Travelling = completed \cup {v.job : v \in Unsent}
    BY DEF Travelling, Unsent
  <2>2. Travelling' = completed' \cup {v.job : v \in Unsent'}
    BY DEF Travelling, Unsent
  <2> QED
    BY <1>1, <2>1, <2>2 DEF OfferWake
<1>3. WorkersInv'
  BY <1>1 DEF DispatchInv, WorkersInv, OfferWake
<1>4. Surroundings'
  BY DEF DispatchInv, Surroundings, OfferWake, surfaceVars
<1> QED
  BY <1>2, <1>3, <1>4 DEF DispatchInv, OfferWake

LEMMA AcceptKeeps ==
    ASSUME DispatchInv, AcceptCompletion
    PROVE  DispatchInv'
<1>1. PICK job \in completed :
          /\ completed' = completed \ {job}
          /\ host' = Forward([host EXCEPT !.lane["provider"] = AfterComplete(@, job.request)],
                             "upload", job)
  BY DEF AcceptCompletion
<1> DEFINE lane == host.lane["provider"]
           to == AfterComplete(lane, job.request)
           n  == [host EXCEPT !.lane["provider"] = AfterComplete(@, job.request)]
<1>2. /\ HostInv(host, Travelling) /\ host \in HostStates /\ "provider" \in Lanes
      /\ lane \in LaneStates /\ job \in Travelling /\ Travelling \subseteq Jobs
      /\ LaneOK(lane, host.held["provider"]) /\ ActiveOK(host.lane, Travelling)
  BY DEF DispatchInv, HostInv, HostStates, Lanes, Travelling
<1> HIDE DEF lane
<1>3. /\ to \in LaneStates /\ to.pending = lane.pending /\ to.sequence = lane.sequence
      /\ to.active = {a \in lane.active : ~SameWork(a.request, job.request)}
  BY <1>2 DEF AfterComplete, LaneStates
<1>4. n = [host EXCEPT !.lane["provider"] = to]
  BY DEF lane
<1> HIDE DEF to, n
<1>5. /\ n \in HostStates /\ n.lane = [host.lane EXCEPT !["provider"] = to]
      /\ n.held = host.held /\ n.live = host.live /\ n.waiters = host.waiters
      /\ n.inFlight = host.inFlight /\ n.thumbs = host.thumbs /\ n.generation = host.generation
  BY <1>2, <1>3, <1>4 DEF HostStates
<1>6. \A l \in Lanes : n.lane[l] = IF l = "provider" THEN to ELSE host.lane[l]
  BY <1>2, <1>5 DEF HostStates
<1>7. ActiveOK(n.lane, Travelling \ {job})
  <2>1. ASSUME NEW a \in to.active
        PROVE  \E j \in Travelling \ {job} : WorkId(j.request) = WorkId(a.request)
    <3>1. a \in lane.active /\ ~SameWork(a.request, job.request)
      BY <1>3
    <3>2. PICK j \in Travelling : WorkId(j.request) = WorkId(a.request)
      BY <1>2, <3>1 DEF ActiveOK, lane
    <3>3. a.request \in Requests /\ job.request \in Requests
      BY <1>2, <3>1 DEF LaneStates, Jobs
    <3>4. j # job
      BY <3>1, <3>2, <3>3 DEF WorkId, SameWork, Reservation, Requests
    <3> QED
      BY <3>2, <3>4
  <2> QED
    BY <1>2, <1>6, <2>1 DEF ActiveOK, Lanes
<1>8. HostInv(n, Travelling)
  <2>1. ActiveOK(n.lane, Travelling)
    BY <1>7 DEF ActiveOK
  <2>2. LaneOK(to, host.held["provider"])
    BY <1>2, <1>3, LaneSame
  <2>3. \A l \in Lanes : LaneOK(n.lane[l], n.held[l]) /\ IsFiniteSet(n.held[l])
    BY <1>2, <1>5, <1>6, <2>2 DEF HostInv
  <2> QED
    BY <1>2, <1>5, <2>1, <2>3 DEF HostInv
<1>9. HostInv(host', Travelling \ {job})
  <2>1. host' = Forward(n, "upload", job)
    BY <1>1 DEF n
  <2> QED
    BY <1>2, <1>7, <1>8, <2>1, Forwarded
<1>10. Unsent' = Unsent /\ \A w \in Unsent : w.job # job
  BY <1>1 DEF AcceptCompletion, Unsent, DispatchInv, WorkersInv
<1>11. Travelling' = Travelling \ {job}
  <2>1. Travelling = completed \cup {v.job : v \in Unsent}
    BY DEF Travelling, Unsent
  <2>2. Travelling' = completed' \cup {v.job : v \in Unsent'}
    BY DEF Travelling, Unsent
  <2> QED
    BY <1>1, <1>10, <2>1, <2>2
<1>12. WorkersInv'
  BY <1>1, <1>10 DEF DispatchInv, WorkersInv, AcceptCompletion
<1>13. Surroundings'
  BY DEF DispatchInv, Surroundings, AcceptCompletion, surfaceVars
<1> QED
  BY <1>9, <1>11, <1>12, <1>13 DEF DispatchInv

LEMMA StartKeeps ==
    ASSUME DispatchInv, StartProvider
    PROVE  DispatchInv'
<1> DEFINE lane == host.lane["provider"]
           started == StartedWork(lane).request
           jobs == JobsOf(host, "provider", {started})
<1>1. HostInv(host, Travelling) /\ lane.pending # {} /\ "provider" \in Lanes
  BY DEF DispatchInv, StartProvider, CanStart, Lanes
<1>2. PICK j \in host.held["provider"] :
              /\ JobsOf(host, "provider", {StartedWork(lane).request}) = {j}
              /\ HostInv([host EXCEPT !.held["provider"] = @ \ {j},
                                      !.lane["provider"] = AfterStart(lane)],
                         Travelling \cup {j})
  BY <1>1, ProviderStarts
<1> DEFINE x == [job |-> j, stage |-> "fetching"]
<1>3. jobs = {j}
  BY <1>2
<1>4. /\ host' = [host EXCEPT !.held["provider"] = @ \ {j}, !.lane["provider"] = AfterStart(lane)]
      /\ workers' = workers \cup {x}
  <2>1. /\ host' = [host EXCEPT
                          !.held["provider"] = @ \ jobs,
                          !.lane["provider"] =
                              IF jobs = {} THEN AfterComplete(AfterStart(lane), started)
                              ELSE AfterStart(lane)]
        /\ workers' = workers \cup {[job |-> k, stage |-> "fetching"] : k \in jobs}
    BY DEF StartProvider
  <2> HIDE DEF jobs
  <2> QED
    BY <1>3, <2>1
<1>5. j \in Jobs /\ j \notin Travelling /\ completed' = completed
  BY <1>1, <1>2 DEF HostInv, HostStates, Apart, StartProvider
<1>6. x.job = j /\ x.stage = "fetching" /\ x \in [job : Jobs, stage : {"fetching", "fetched", "sent"}]
  BY <1>5
<1> HIDE DEF x, lane, jobs
<1>7. Unsent' = Unsent \cup {x}
  BY <1>4, <1>6 DEF Unsent
<1>8. Travelling = completed \cup {v.job : v \in Unsent}
  BY DEF Travelling, Unsent
<1>9. Travelling' = Travelling \cup {j}
  <2>1. Travelling' = completed' \cup {v.job : v \in Unsent'}
    BY DEF Travelling, Unsent
  <2> QED
    BY <1>5, <1>6, <1>7, <1>8, <2>1
<1>10. HostInv(host', Travelling \cup {j})
  BY <1>2, <1>4 DEF lane
<1>11. \A v \in Unsent : Slot(v.job) # Slot(j)
  <2> SUFFICES ASSUME NEW v \in Unsent PROVE Slot(v.job) # Slot(j)
    OBVIOUS
  <2>1. v.job \in Travelling
    BY <1>8
  <2>2. v.job \in All(host.held, Travelling) /\ j \in All(host.held, Travelling)
    BY <1>2, <2>1 DEF All
  <2> QED
    BY <1>1, <1>5, <2>1, <2>2 DEF HostInv, Booked
<1>12. WorkersInv'
  <2>1. workers' \subseteq [job : Jobs, stage : {"fetching", "fetched", "sent"}]
    BY <1>4, <1>6 DEF DispatchInv, WorkersInv
  <2>2. \A v, w \in Unsent' : Slot(v.job) = Slot(w.job) => v = w
    BY <1>6, <1>7, <1>11 DEF DispatchInv, WorkersInv
  <2>3. \A w \in Unsent' : w.job \notin completed'
    BY <1>5, <1>6, <1>7, <1>8 DEF DispatchInv, WorkersInv
  <2> QED
    BY <2>1, <2>2, <2>3 DEF WorkersInv
<1>13. Surroundings'
  BY DEF DispatchInv, Surroundings, StartProvider, surfaceVars
<1> QED
  BY <1>9, <1>10, <1>12, <1>13 DEF DispatchInv

LEMMA UploadKeeps ==
    ASSUME DispatchInv, UploadOne
    PROVE  DispatchInv'
<1>1. HostInv(host, Travelling) /\ host.lane["upload"].pending # {}
  BY DEF DispatchInv, UploadOne, CanStart
<1>2. PICK j \in host.held["upload"] :
              /\ PoppedJobs("upload") = {j} /\ j \notin Travelling
              /\ HostInv(Popped("upload"), Travelling \cup {j})
              /\ ActiveOK(Popped("upload").lane, Travelling)
  BY <1>1, UiPops
<1>3. host' = Forward(Popped("upload"), "apply", j)
  BY <1>2 DEF UploadOne
<1>4. HostInv(host', Travelling)
  <2> DEFINE hand == Travelling \cup {j}
             h == Popped("upload")
  <2>1. hand \ {j} = Travelling /\ j \in hand /\ HostInv(h, hand) /\ ActiveOK(h.lane, hand \ {j})
    BY <1>2
  <2>2. host' = Forward(h, "apply", j)
    BY <1>3
  <2> HIDE DEF hand, h
  <2>3. HostInv(Forward(h, "apply", j), hand \ {j})
    BY <2>1, Forwarded
  <2> QED
    BY <2>1, <2>2, <2>3
<1>5. Surroundings'
  <2>1. budget' \in 0..(UploadsPerFrame + AppliesPerFrame)
    BY FrameBudgets DEF DispatchInv, Surroundings, UploadOne
  <2> QED
    BY <2>1 DEF DispatchInv, Surroundings, UploadOne, surfaceVars
<1>6. UNCHANGED <<workers, completed>>
  BY DEF UploadOne
<1> QED
  BY <1>4, <1>5, <1>6, HostSteps

LEMMA ApplyKeeps ==
    ASSUME DispatchInv, ApplyOne
    PROVE  DispatchInv'
<1>1. HostInv(host, Travelling) /\ host.lane["apply"].pending # {}
  BY DEF DispatchInv, ApplyOne, CanStart
<1>2. PICK j \in host.held["apply"] :
              /\ PoppedJobs("apply") = {j} /\ j \notin Travelling
              /\ HostInv(Popped("apply"), Travelling \cup {j})
              /\ ActiveOK(Popped("apply").lane, Travelling)
  BY <1>1, UiPops
<1>3. host' = WithReady(Release(Popped("apply"), {j}), j)
  BY <1>2 DEF ApplyOne
<1>4. HostInv(host', Travelling)
  <2> DEFINE hand == Travelling \cup {j}
             h == Popped("apply")
             gone == {j}
  <2>1. hand \ gone = Travelling /\ gone \in SUBSET hand /\ HostInv(h, hand)
        /\ ActiveOK(h.lane, hand \ gone)
    BY <1>2
  <2>2. host' = WithReady(Release(h, gone), j)
    BY <1>3
  <2>3. j \in Jobs
    BY <1>1 DEF HostInv, HostStates, Lanes
  <2> HIDE DEF hand, h, gone
  <2>4. HostInv(Release(h, gone), hand \ gone)
    BY <2>1, Released
  <2>5. HostInv(WithReady(Release(h, gone), j), hand \ gone)
    BY <2>3, <2>4, ReadyKept
  <2> QED
    BY <2>1, <2>2, <2>5
<1>5. Surroundings'
  <2>1. budget' \in 0..(UploadsPerFrame + AppliesPerFrame)
    BY FrameBudgets DEF DispatchInv, Surroundings, ApplyOne
  <2> QED
    BY <2>1 DEF DispatchInv, Surroundings, ApplyOne, surfaceVars
<1>6. UNCHANGED <<workers, completed>>
  BY DEF ApplyOne
<1> QED
  BY <1>4, <1>5, <1>6, HostSteps

\* The steps of the pump that only move it.
LEMMA PumpMoves ==
    ASSUME DispatchInv, TakeWake \/ AcceptDone \/ StartsDone \/ FrameDue \/ UploadsDone \/ FrameDone
    PROVE  DispatchInv'
<1>1. UNCHANGED <<workers, completed, host>>
  BY DEF TakeWake, AcceptDone, StartsDone, FrameDue, UploadsDone, FrameDone
<1>2. HostInv(host', Travelling)
  BY <1>1 DEF DispatchInv
<1>3. UNCHANGED surfaceVars
  BY DEF TakeWake, AcceptDone, StartsDone, FrameDue, UploadsDone, FrameDone
<1>4. /\ pump' \in {"waiting", "accept", "start", "timer", "upload", "apply"}
      /\ wake' \in BOOLEAN
  <2>1. wake \in BOOLEAN /\ (wake \/ HasUiWork) \in BOOLEAN
    BY Zenon DEF DispatchInv, Surroundings
  <2>2. wake' \in BOOLEAN
    BY <2>1 DEF TakeWake, AcceptDone, StartsDone, FrameDue, UploadsDone, FrameDone
  <2>3. pump' \in {"waiting", "accept", "start", "timer", "upload", "apply"}
    BY DEF TakeWake, AcceptDone, StartsDone, FrameDue, UploadsDone, FrameDone
  <2> QED
    BY <2>2, <2>3
<1>5. budget' \in 0..(UploadsPerFrame + AppliesPerFrame)
  <2>1. /\ budget \in 0..(UploadsPerFrame + AppliesPerFrame)
        /\ {0, UploadsPerFrame, AppliesPerFrame} \subseteq 0..(UploadsPerFrame + AppliesPerFrame)
    BY FrameBudgets DEF DispatchInv, Surroundings
  <2>2. budget' \in {budget, 0, UploadsPerFrame, AppliesPerFrame}
    BY DEF TakeWake, AcceptDone, StartsDone, FrameDue, UploadsDone, FrameDone
  <2> QED
    BY <2>1, <2>2
<1>6. Surroundings'
  BY <1>3, <1>4, <1>5 DEF DispatchInv, Surroundings, surfaceVars
<1> QED
  BY <1>1, <1>2, <1>6, HostSteps

LEMMA SubmitThumbnailKeeps ==
    ASSUME DispatchInv, NEW surface \in Surfaces, NEW asset \in Thumbs,
           NEW priority \in AssetPriority, SubmitThumbnail(surface, asset, priority)
    PROVE  DispatchInv'
<1> DEFINE h == RetainSurfaceGeneration(host, surface, listing[surface].generation)
           tag == listing[surface].revision[asset]
           slot == [asset |-> asset, tag |-> tag]
           waiter == [slot |-> slot, scope |-> surface, generation |-> listing[surface].generation]
<1>1. HostInv(h, Travelling)
  BY Retained DEF DispatchInv
<1>2. /\ asset \in Assets /\ tag \in Nat /\ listing[surface].generation \in Nat
      /\ waiter \in Waiters
  <2>1. asset \in Assets /\ MaxVersion \in Nat
    BY Bounds DEF Assets
  <2>2. tag \in 0..MaxVersion /\ listing[surface].generation \in Nat
    BY <2>1 DEF DispatchInv, Surroundings
  <2>3. tag \in Nat
    BY <2>1, <2>2
  <2> QED
    BY <2>1, <2>2, <2>3 DEF Waiters, Keys
<1>3. host' = IF Resolved(h, asset) THEN h
              ELSE IF IsLive(h, slot) THEN Join(h, waiter, priority)
              ELSE Reserve(h, asset, slot.tag, surface, priority)
  BY DEF SubmitThumbnail
<1>4. slot.tag = tag /\ slot = IF asset \in Thumbs THEN [asset |-> asset, tag |-> tag] ELSE asset
  OBVIOUS
<1> HIDE DEF h, slot, waiter, tag
<1>5. HostInv(Join(h, waiter, priority), Travelling)
  BY <1>1, <1>2, Joined
<1>6. ASSUME ~IsLive(h, slot) PROVE HostInv(Reserve(h, asset, tag, surface, priority), Travelling)
  BY <1>1, <1>2, <1>4, <1>6, Reserved
<1>7. HostInv(host', Travelling)
  BY <1>1, <1>3, <1>4, <1>5, <1>6
<1>8. Surroundings' /\ UNCHANGED <<workers, completed>>
  BY DEF DispatchInv, Surroundings, SubmitThumbnail, surfaceVars
<1> QED
  BY <1>7, <1>8, HostSteps

LEMMA SubmitIconKeeps ==
    ASSUME DispatchInv, NEW surface \in Surfaces, NEW asset \in Icons, SubmitIcon(surface, asset)
    PROVE  DispatchInv'
<1> DEFINE waiter == [slot |-> asset, scope |-> surface, generation |-> listing[surface].generation]
           tag == host.generation + 1
<1>1. HostInv(host, Travelling)
  BY DEF DispatchInv
<1>2. /\ asset \in Assets /\ tag \in Nat /\ listing[surface].generation \in Nat
      /\ waiter \in Waiters /\ Visible \in AssetPriority
  <2>1. asset \in Assets /\ listing[surface].generation \in Nat /\ host.generation \in Nat
    BY <1>1 DEF Assets, DispatchInv, Surroundings, HostInv, HostStates
  <2> QED
    BY <2>1 DEF Waiters, AssetPriority
<1>3. asset = IF asset \in Thumbs THEN [asset |-> asset, tag |-> tag] ELSE asset
  BY Kinds
<1>4. \/ IsLive(host, asset) /\ host' = [host EXCEPT !.waiters = @ \cup {waiter}]
      \/ host' = host
      \/ ~IsLive(host, asset) /\ host' = Reserve(host, asset, tag, surface, Visible)
  BY DEF SubmitIcon
<1> HIDE DEF waiter, tag
<1>5. HostInv([host EXCEPT !.waiters = @ \cup {waiter}], Travelling)
  BY <1>1, <1>2, WaiterJoins
<1>6. ASSUME ~IsLive(host, asset)
      PROVE  HostInv(Reserve(host, asset, tag, surface, Visible), Travelling)
  BY <1>1, <1>2, <1>3, <1>6, Reserved
<1>7. HostInv(host', Travelling)
  BY <1>1, <1>4, <1>5, <1>6
<1>8. Surroundings' /\ UNCHANGED <<workers, completed>>
  BY DEF DispatchInv, Surroundings, SubmitIcon, surfaceVars
<1> QED
  BY <1>7, <1>8, HostSteps

LEMMA RefreshKeeps ==
    ASSUME DispatchInv, NEW surface, Refresh(surface)
    PROVE  DispatchInv'
<1>1. HostInv(host, Travelling) /\ host \in HostStates
  BY DEF DispatchInv, HostInv
<1>2. SameBooks(host, host')
  <2>1. <<>> \in Seq([asset : Thumbs, seen : Nat]) /\ Len(<<>>) = 0
    OBVIOUS
  <2>2. 0 <= CacheCap
    BY Bounds
  <2>3. host' = [host EXCEPT !.thumbs = <<>>]
    BY DEF Refresh
  <2>4. /\ host'.thumbs = <<>> /\ host'.lane = host.lane /\ host'.held = host.held
        /\ host'.live = host.live /\ host'.inFlight = host.inFlight
        /\ host'.generation = host.generation /\ host'.waiters = host.waiters
        /\ host' \in HostStates
    BY <1>1, <2>1, <2>3 DEF HostStates
  <2> QED
    BY <2>1, <2>2, <2>4 DEF SameBooks
<1>3. HostInv(host', Travelling)
  BY <1>1, <1>2, BooksKept
<1>4. Surroundings' /\ UNCHANGED <<workers, completed>>
  BY DEF DispatchInv, Surroundings, Refresh
<1> QED
  BY <1>3, <1>4, HostSteps

\* Listings are replaced and files rewritten.
LEMMA OutsideKeeps ==
    ASSUME DispatchInv,
           \/ \E s \in Surfaces : Relist(s)
           \/ \E a \in Assets : Rewrite(a)
    PROVE  DispatchInv'
<1>1. UNCHANGED <<workers, completed, host, wake, pump, budget>>
  BY DEF Relist, Rewrite
<1>2. HostInv(host', Travelling)
  BY <1>1 DEF DispatchInv
<1>3. /\ version \in [Assets -> 0..MaxVersion] /\ MaxVersion \in Nat
      /\ listing \in [Surfaces -> [generation : Nat, revision : [Assets -> 0..MaxVersion]]]
  BY Bounds DEF DispatchInv, Surroundings
<1>4. /\ version' \in [Assets -> 0..MaxVersion]
      /\ listing' \in [Surfaces -> [generation : Nat, revision : [Assets -> 0..MaxVersion]]]
  <2>1. CASE \E s \in Surfaces : Relist(s)
    <3>1. PICK s \in Surfaces : Relist(s)
      BY <2>1
    <3> DEFINE new == [generation |-> listing[s].generation + 1, revision |-> version]
    <3>2. new \in [generation : Nat, revision : [Assets -> 0..MaxVersion]]
      BY <1>3
    <3>3. listing' = [listing EXCEPT ![s] = new] /\ version' = version
      BY <3>1 DEF Relist
    <3> HIDE DEF new
    <3> QED
      BY <1>3, <3>2, <3>3
  <2>2. CASE \E a \in Assets : Rewrite(a)
    <3>1. PICK a \in Assets : Rewrite(a)
      BY <2>2
    <3>2. version[a] + 1 \in 0..MaxVersion
      BY <1>3, <3>1 DEF Rewrite
    <3> QED
      BY <1>3, <3>1, <3>2 DEF Rewrite
  <2> QED
    BY <2>1, <2>2
<1>5. Surroundings'
  BY <1>1, <1>4 DEF DispatchInv, Surroundings
<1> QED
  BY <1>1, <1>2, <1>5, HostSteps

LEMMA StutterKeeps ==
    ASSUME DispatchInv, UNCHANGED vars
    PROVE  DispatchInv'
<1>1. UNCHANGED <<host, workers, completed, wake, pump, budget, listing, version>>
  BY DEF vars
<1>2. HostInv(host', Travelling) /\ Surroundings'
  BY <1>1 DEF DispatchInv, Surroundings
<1> QED
  BY <1>1, <1>2, HostSteps

LEMMA InvStep == DispatchInv /\ [Next]_vars => DispatchInv'
<1> SUFFICES ASSUME DispatchInv, [Next]_vars PROVE DispatchInv'
  OBVIOUS
<1>1. CASE Pump
  BY <1>1, PumpMoves, AcceptKeeps, StartKeeps, UploadKeeps, ApplyKeeps DEF Pump
<1>2. CASE Work
  BY <1>2, FetchKeeps, SendKeeps, OfferKeeps DEF Work
<1>3. CASE Ask
  BY <1>3, SubmitThumbnailKeeps, SubmitIconKeeps, RefreshKeeps, OutsideKeeps DEF Ask
<1>4. CASE \E a \in Assets : Rewrite(a)
  BY <1>4, OutsideKeeps
<1>5. CASE UNCHANGED vars
  BY <1>5, StutterKeeps
<1> QED
  BY <1>1, <1>2, <1>3, <1>4, <1>5 DEF Next

LEMMA Invariance == Spec => []DispatchInv
<1> QED
  BY InvInit, InvStep, PTL DEF Spec

----------------------------------------------------------------------------
(* What the invariant says of the jobs.                                     *)

LEMMA AllOfThem == AllJobs = All(host.held, Travelling)
<1>1. UNION {host.held[l] : l \in Lanes} =
         host.held["provider"] \cup host.held["upload"] \cup host.held["apply"]
  BY DEF Lanes
<1> QED
  BY <1>1 DEF AllJobs, All

LEMMA Together ==
    ASSUME NEW S, NEW T, IsFiniteSet(S), IsFiniteSet(T), S \cap T = {}
    PROVE  IsFiniteSet(S \cup T) /\ Cardinality(S \cup T) = Cardinality(S) + Cardinality(T)
<1>1. Cardinality(S) \in Nat /\ Cardinality(T) \in Nat /\ Cardinality({}) = 0
  BY FS_CardinalityType, FS_EmptySet
<1>2. Cardinality(S \cup T) = Cardinality(S) + Cardinality(T) - Cardinality(S \cap T)
  BY FS_Union
<1>3. IsFiniteSet(S \cup T)
  BY FS_Union
<1>4. Cardinality(S \cap T) = 0
  BY <1>1
<1> QED
  BY <1>1, <1>2, <1>3, <1>4

\* Disjoint places are counted one by one.
LEMMA PlacesCounted ==
    ASSUME NEW h, NEW hand, HostInv(h, hand)
    PROVE  /\ IsFiniteSet(All(h.held, hand))
           /\ Cardinality(All(h.held, hand)) =
                 Cardinality(hand) + Cardinality(h.held["provider"])
                 + Cardinality(h.held["upload"]) + Cardinality(h.held["apply"])
<1> DEFINE p == h.held["provider"]
           u == h.held["upload"]
           a == h.held["apply"]
<1>1. IsFiniteSet(hand) /\ IsFiniteSet(p) /\ IsFiniteSet(u) /\ IsFiniteSet(a)
  BY DEF HostInv, Lanes
<1>2. /\ hand \cap p = {} /\ (hand \cup p) \cap u = {} /\ (hand \cup p \cup u) \cap a = {}
  <2>1. Apart(h.held, hand)
    BY DEF HostInv
  <2> QED
    BY <2>1 DEF Apart, Lanes
<1>3. All(h.held, hand) = ((hand \cup p) \cup u) \cup a
  BY DEF All
<1> HIDE DEF p, u, a
<1>4. IsFiniteSet(hand \cup p) /\ Cardinality(hand \cup p) = Cardinality(hand) + Cardinality(p)
  BY <1>1, <1>2, Together
<1>5. /\ IsFiniteSet((hand \cup p) \cup u)
      /\ Cardinality((hand \cup p) \cup u) = Cardinality(hand) + Cardinality(p) + Cardinality(u)
  BY <1>1, <1>2, <1>4, Together
<1>6. /\ IsFiniteSet(((hand \cup p) \cup u) \cup a)
      /\ Cardinality(((hand \cup p) \cup u) \cup a) =
            Cardinality(hand) + Cardinality(p) + Cardinality(u) + Cardinality(a)
  BY <1>1, <1>2, <1>5, Together
<1> QED
  BY <1>3, <1>6 DEF p, u, a

\* There are as many reservations as jobs.
LEMMA ReservationsCounted ==
    ASSUME NEW all \in SUBSET Jobs, NEW live, NEW marks, Booked(all, live, marks),
           IsFiniteSet(all)
    PROVE  Cardinality(live) = Cardinality(all)
<1> DEFINE f == [j \in all |-> LiveEntry(j)]
<1>1. f \in [all -> live]
  BY DEF Booked
<1>2. \A j, k \in all : f[j] = f[k] => j = k
  <2>1. \A j \in all : f[j].slot = Slot(j)
    BY DEF LiveEntry
  <2> QED
    BY <2>1 DEF Booked
<1>3. \A x \in live : \E j \in all : f[j] = x
  BY DEF Booked
<1> HIDE DEF f
<1>4. f \in Bijection(all, live)
  BY <1>1, <1>2, <1>3 DEF Bijection, Injection, Surjection, IsInjective
<1>5. ExistsBijection(all, live)
  BY <1>4 DEF ExistsBijection
<1> QED
  BY <1>5, FS_Bijection

LEMMA InvAccounts == DispatchInv => JobsAccountedFor
<1> SUFFICES ASSUME DispatchInv PROVE JobsAccountedFor
  OBVIOUS
<1> DEFINE all == All(host.held, Travelling)
<1>1. HostInv(host, Travelling) /\ Surroundings /\ AllJobs = all
  BY AllOfThem DEF DispatchInv
<1>2. /\ host \in HostStates /\ all \in SUBSET Jobs /\ all \subseteq Jobs
      /\ Booked(all, host.live, host.inFlight) /\ \A j \in all : JobOK(j, host.generation)
  BY <1>1, KeysApart DEF HostInv
<1>3. TypeOK
  <2>1. \A j \in all : /\ j.asset \in Assets /\ j.seen \in 0..MaxVersion
                       /\ j.request.generation \in 1..host.generation
                       /\ j.request.priority \in AssetPriority
    BY <1>2 DEF Jobs, Requests, JobOK
  <2>2. /\ host.inFlight \subseteq Assets /\ host.icons \subseteq Icons
        /\ \A w \in host.waiters : w.scope \in Surfaces
    BY <1>2 DEF HostStates, Waiters
  <2>3. Len(host.thumbs) <= CacheCap
    BY <1>1 DEF HostInv
  <2> QED
    BY <1>1, <2>1, <2>2, <2>3 DEF TypeOK, Surroundings
<1>4. ReservationsMatchJobs
  <2>1. \A k, l \in host.live : k.slot = l.slot => k = l
    <3> SUFFICES ASSUME NEW k \in host.live, NEW l \in host.live, k.slot = l.slot PROVE k = l
      OBVIOUS
    <3>1. PICK i \in all : k = LiveEntry(i)
      BY <1>2 DEF Booked
    <3>2. PICK j \in all : l = LiveEntry(j)
      BY <1>2 DEF Booked
    <3>3. Slot(i) = Slot(j)
      BY <3>1, <3>2 DEF LiveEntry
    <3> QED
      BY <1>2, <3>1, <3>2, <3>3 DEF Booked
  <2>2. host.live = {LiveEntry(j) : j \in AllJobs}
    BY <1>1, <1>2 DEF Booked
  <2>3. Cardinality(host.live) =
           Cardinality(Travelling) + Cardinality(host.held["provider"])
           + Cardinality(host.held["upload"]) + Cardinality(host.held["apply"])
    BY <1>1, <1>2, PlacesCounted, ReservationsCounted
  <2> QED
    BY <2>1, <2>2, <2>3 DEF ReservationsMatchJobs
<1>5. QueuesMatchPayloads
  <2> SUFFICES ASSUME NEW l \in Lanes
               PROVE  /\ {q.request : q \in host.lane[l].pending}
                            = {j.request : j \in host.held[l]}
                      /\ l # "provider" => host.lane[l].active = {}
    BY DEF QueuesMatchPayloads
  <2>1. LaneOK(host.lane[l], host.held[l])
    BY <1>1 DEF HostInv
  <2>2. \A q \in host.lane[l].pending : \E j \in host.held[l] : j.request = q.request
    BY <2>1 DEF LaneOK
  <2>3. \A j \in host.held[l] : \E q \in host.lane[l].pending : q.request = j.request
    BY <2>1 DEF LaneOK
  <2>4. l # "provider" => host.lane[l].active = {}
    BY <1>1 DEF HostInv, ActiveOK, Lanes
  <2> QED
    BY <2>2, <2>3, <2>4
<1>6. InFlightHasJob
  <2>1. host.inFlight \subseteq {j.asset : j \in AllJobs}
    BY <1>1, <1>2 DEF Booked
  <2>2. ASSUME NEW i \in Icons PROVE i \in host.inFlight <=> IsLive(host, i)
    <3>1. ASSUME NEW j \in all, j.asset = i PROVE IsLive(host, i)
      <4>1. LiveEntry(j) \in host.live /\ LiveEntry(j).slot = Slot(j)
        BY <1>2 DEF Booked, LiveEntry
      <4>2. Slot(j) = i
        BY <1>2, <3>1, SlotTyped
      <4> QED
        BY <4>1, <4>2 DEF IsLive
    <3>2. ASSUME NEW j \in all, Slot(j) = i PROVE j.asset = i
      <4>1. j.asset \in Thumbs \cup Icons /\ j.request.key \in Keys
        BY <1>2 DEF Jobs, Assets, Requests
      <4> QED
        BY <3>2, <4>1, Kinds DEF Slot, Keys
    <3>3. IsLive(host, i) => \E j \in all : j.asset = i
      <4> SUFFICES ASSUME IsLive(host, i) PROVE \E j \in all : j.asset = i
        OBVIOUS
      <4>1. PICK l \in host.live : l.slot = i
        BY DEF IsLive
      <4>2. PICK j \in all : l = LiveEntry(j)
        BY <1>2 DEF Booked
      <4>3. Slot(j) = i
        BY <4>1, <4>2 DEF LiveEntry
      <4> QED
        BY <3>2, <4>3
    <3> HIDE DEF all
    <3>4. i \in host.inFlight <=> \E j \in all : j.asset = i
      BY <1>2 DEF Booked
    <3> QED
      BY <3>1, <3>3, <3>4
  <2> QED
    BY <2>1, <2>2 DEF InFlightHasJob
<1> QED
  BY <1>3, <1>4, <1>5, <1>6 DEF JobsAccountedFor

LEMMA InvWants == DispatchInv => QueuedWorkIsWanted
BY DEF DispatchInv, HostInv, Wanted, QueuedWorkIsWanted

\* Every reservation of the dispatcher stands for exactly one job in exactly
\* one place, every queue entry for a payload and every in-flight mark for a
\* job: nothing is left "already requested" with nobody working on it, however
\* a job is displaced, refused, withdrawn or delivered.
THEOREM RequestsStayAccountedFor == Spec => []JobsAccountedFor
<1> QED
  BY Invariance, InvAccounts, PTL

\* Every thumbnail or icon that waits for a provider slot has a surface that
\* waits for it, whatever generations the surfaces go through meanwhile.
THEOREM ProviderWorkStaysWanted == Spec => []QueuedWorkIsWanted
<1> QED
  BY Invariance, InvWants, PTL
=============================================================================
