---- MODULE AssetWork ----
(***************************************************************************)
(* The operations of one bounded asset lane (BoundedAssetLane in           *)
(* ferail-core/src/asset_work.rs), as operators on lane values.  A lane    *)
(* runs nothing: it only decides which request may start.  AssetLane makes *)
(* a state machine of one lane and its workers; ThumbnailDispatch composes *)
(* three lanes.                                                            *)
(*                                                                         *)
(* A lane is [pending, active, sequence].  The VecDeque is a set: every    *)
(* use of it picks by (priority, sequence) or by (scope, key), never by    *)
(* position.  An active entry keeps, as "token", the sequence number it    *)
(* was queued under: it names the Arc<AtomicBool> that start_next creates  *)
(* and shares with the worker.                                             *)
(*                                                                         *)
(* A definition marked "Mutant" is a plausible bug in the one that follows *)
(* it; no specification uses it.                                           *)
(***************************************************************************)
EXTENDS Naturals, FiniteSets

Overscan == 1
Visible  == 2
Selected == 3
AssetPriority == {Overscan, Visible, Selected}

NewLane == [pending |-> {}, active |-> {}, sequence |-> 0]

\* The (scope, key) pair that at most one started worker may hold.
Reservation(request) == <<request.scope, request.key>>

SameWork(a, b) == Reservation(a) = Reservation(b) /\ a.generation = b.generation

\* The order of both the dispatch (max_by_key) and the eviction (min_by_key).
Before(p, q) ==
    \/ p.request.priority < q.request.priority
    \/ p.request.priority = q.request.priority /\ p.sequence < q.sequence

\* Mutant: the oldest entry, whatever it is worth.
OldestFirst(pending) ==
    CHOOSE q \in pending : \A p \in pending \ {q} : q.sequence < p.sequence

Worst(pending) == CHOOSE q \in pending : \A p \in pending \ {q} : Before(q, p)
Best(pending)  == CHOOSE q \in pending : \A p \in pending \ {q} : Before(p, q)

----
(* submit_detailed: its outcome, the request it displaces, the lane after. *)

\* Mutant: a new generation does not see the worker of the old one.
IsActiveInGeneration(lane, request) ==
    \E a \in lane.active : SameWork(a.request, request)

IsActive(lane, request) ==
    \E a \in lane.active : Reservation(a.request) = Reservation(request)

\* The queued entries of the request's reservation (at most one).
QueuedFor(lane, request) ==
    {q \in lane.pending : Reservation(q.request) = Reservation(request)}

\* Mutant: the queue takes one entry more than its budget.
HasRoomOffByOne(lane, capacity) == Cardinality(lane.pending) <= capacity

HasRoom(lane, capacity) == Cardinality(lane.pending) < capacity

SubmitOutcome(lane, request, capacity) ==
    CASE \/ IsActive(lane, request)
         \/ \E q \in QueuedFor(lane, request) :
               /\ q.request.generation = request.generation
               /\ q.request.priority >= request.priority   -> "AlreadyScheduled"
      [] /\ ~IsActive(lane, request)
         /\ \E q \in QueuedFor(lane, request) :
               \/ q.request.generation # request.generation
               \/ q.request.priority < request.priority    -> "Reprioritized"
      [] OTHER ->
            IF HasRoom(lane, capacity) THEN "Queued"
            ELSE IF \E q \in lane.pending : q.request.priority < request.priority
            THEN "ReplacedLowerPriority"
            ELSE "QueueFull"

\* The queue entries a submission takes out to make place for its own.
Displaced(lane, request, outcome) ==
    IF outcome = "Reprioritized" THEN QueuedFor(lane, request)
    ELSE IF outcome = "ReplacedLowerPriority" THEN {Worst(lane.pending)}
    ELSE {}

\* SubmitResult.evicted: what the host must release the payload of.
Evicted(lane, outcome) ==
    IF outcome = "ReplacedLowerPriority" THEN {Worst(lane.pending).request} ELSE {}

Admitted == {"Queued", "Reprioritized", "ReplacedLowerPriority"}

Entry(lane, request) == [sequence |-> lane.sequence + 1, request |-> request]

\* The queue after an admitted submission.
WithEntry(lane, request, outcome) ==
    (lane.pending \ Displaced(lane, request, outcome)) \cup {Entry(lane, request)}

AfterSubmit(lane, request, outcome) ==
    [pending  |-> IF outcome \in Admitted THEN WithEntry(lane, request, outcome)
                  ELSE lane.pending,
     active   |-> lane.active,
     sequence |-> IF outcome = "AlreadyScheduled" THEN lane.sequence
                  ELSE lane.sequence + 1]

----
(* start_next. *)

CanStart(lane, concurrency) ==
    Cardinality(lane.active) < concurrency /\ lane.pending # {}

StartedWork(lane) ==
    [request |-> Best(lane.pending).request, token |-> Best(lane.pending).sequence]

\* HashMap::insert: an entry of the same reservation is overwritten.
AfterStart(lane) ==
    [pending  |-> lane.pending \ {Best(lane.pending)},
     active   |-> {a \in lane.active :
                      Reservation(a.request) # Reservation(StartedWork(lane).request)}
                     \cup {StartedWork(lane)},
     sequence |-> lane.sequence]

----
(* complete, cancel and retire_scope_generation. *)

\* Mutant: the acknowledgement of an old generation frees the new one's slot.
AfterCompleteAnyGeneration(lane, request) ==
    [lane EXCEPT !.active = {a \in @ : Reservation(a.request) # Reservation(request)}]

AfterComplete(lane, request) ==
    [lane EXCEPT !.active = {a \in @ : ~SameWork(a.request, request)}]

\* Mutant: cancelling active work frees its slot at once.
AfterCancelFreesSlot(lane, request) ==
    [lane EXCEPT !.pending = {q \in @ : ~SameWork(q.request, request)},
                 !.active  = {a \in @ : ~SameWork(a.request, request)}]

AfterCancel(lane, request) ==
    [lane EXCEPT !.pending = {q \in @ : ~SameWork(q.request, request)}]

\* The flags cancel stores true into: active work's, if none was pending.
CancelSignals(lane, request) ==
    IF \E q \in lane.pending : SameWork(q.request, request)
    THEN {}
    ELSE {a.token : a \in {b \in lane.active : SameWork(b.request, request)}}

Superseded(request, scope, generation) ==
    request.scope = scope /\ request.generation # generation

AfterRetire(lane, scope, generation) ==
    [lane EXCEPT !.pending = {q \in @ : ~Superseded(q.request, scope, generation)}]

RetireSignals(lane, scope, generation) ==
    {a.token : a \in {b \in lane.active : Superseded(b.request, scope, generation)}}
====
