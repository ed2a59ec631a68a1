---- MODULE AssetLane ----
(***************************************************************************)
(* One asset lane and the workers its host runs.  The host submits         *)
(* requests, starts what start_next hands it, acknowledges finished        *)
(* workers with complete, and cancels or retires superseded work.  An      *)
(* acknowledgement may be repeated or come late (LateComplete).            *)
(***************************************************************************)
EXTENDS AssetWork

CONSTANTS Scopes,          \* surfaces (AssetWorkScope)
          AssetKeys,       \* asset keys
          Generations,     \* listing generations of a surface
          LaneConcurrency, \* workers that may run at once
          LaneCapacity,    \* pending requests the lane keeps
          MaxSequence      \* bound on submissions that take a sequence number

ASSUME ConcurrencyAssumption == LaneConcurrency \in Nat
ASSUME CapacityAssumption    == LaneCapacity \in Nat
ASSUME BoundAssumption       == MaxSequence \in Nat

VARIABLES assetLane,  \* the BoundedAssetLane
          running,    \* StartedAssetWork values held by workers
          signalled   \* tokens whose shared cancel flag is true
laneVars == <<assetLane, running, signalled>>

LaneRequests == [scope : Scopes, key : AssetKeys, generation : Generations,
                 priority : AssetPriority]
QueueEntries == [sequence : Nat, request : LaneRequests]
Started      == [request : LaneRequests, token : Nat]

LaneInit == assetLane = NewLane /\ running = {} /\ signalled = {}

Submit(request) ==
    /\ assetLane.sequence < MaxSequence
    /\ assetLane' = AfterSubmit(assetLane, request, SubmitOutcome(assetLane, request, LaneCapacity))
    /\ UNCHANGED <<running, signalled>>

StartNext ==
    /\ CanStart(assetLane, LaneConcurrency)
    /\ assetLane' = AfterStart(assetLane)
    /\ running' = running \cup {StartedWork(assetLane)}
    /\ UNCHANGED signalled

\* Mutant: a cancelled worker returns without acknowledging.
CompleteUnlessCancelled(work) ==
    /\ work \in running
    /\ assetLane' = IF work.token \in signalled THEN assetLane
                     ELSE AfterComplete(assetLane, work.request)
    /\ running' = running \ {work}
    /\ signalled' = signalled \ {work.token}

\* A worker returns, cancelled or not; its flag dies with it.
Complete(work) ==
    /\ work \in running
    /\ assetLane' = AfterComplete(assetLane, work.request)
    /\ running' = running \ {work}
    /\ signalled' = signalled \ {work.token}

\* complete called for a request no worker is running any more, or yet.
LateComplete(request) ==
    /\ \A work \in running : ~SameWork(work.request, request)
    /\ assetLane' = AfterComplete(assetLane, request)
    /\ UNCHANGED <<running, signalled>>

Cancel(request) ==
    /\ assetLane' = AfterCancel(assetLane, request)
    /\ signalled' = signalled \cup CancelSignals(assetLane, request)
    /\ UNCHANGED running

RetireScopeGeneration(scope, generation) ==
    /\ assetLane' = AfterRetire(assetLane, scope, generation)
    /\ signalled' = signalled \cup RetireSignals(assetLane, scope, generation)
    /\ UNCHANGED running

WorkerReturns == \E work \in running : Complete(work)

LaneNext ==
    \/ \E request \in LaneRequests :
          Submit(request) \/ LateComplete(request) \/ Cancel(request)
    \/ StartNext
    \/ WorkerReturns
    \/ \E scope \in Scopes, generation \in Generations :
          RetireScopeGeneration(scope, generation)

LaneSpec == LaneInit /\ [][LaneNext]_laneVars

\* The host pumps start_next after every submission and completion, and every
\* provider call returns.
FairLaneSpec == LaneSpec /\ WF_laneVars(StartNext) /\ WF_laneVars(WorkerReturns)

----
(* The lane and its workers hold well-formed requests, no queue entry is    *)
(* stamped later than the lane's counter, and a set flag is a worker's.     *)
LaneTypeOK ==
    /\ assetLane \in [pending : SUBSET QueueEntries, active : SUBSET Started, sequence : Nat]
    /\ \A q \in assetLane.pending : q.sequence <= assetLane.sequence
    /\ running \subseteq Started
    /\ signalled \subseteq {w.token : w \in running}

(* Workers really running, cancelled ones included, never exceed the       *)
(* configured concurrency: "active workers ... retain their slot until     *)
(* they acknowledge".  A slot must not be freed by a cancellation, by a    *)
(* stale acknowledgement or by a second start of the same reservation.     *)
RunningWithinCap == Cardinality(running) <= LaneConcurrency

(* Two workers never run for one asset of one surface, whatever            *)
(* generations they were submitted under.                                  *)
OneWorkerPerReservation ==
    \A v, w \in running : Reservation(v.request) = Reservation(w.request) => v = w

(* The queue never outgrows its budget and holds one entry per             *)
(* reservation, none of them for an asset a worker already has.            *)
QueueBounded ==
    /\ Cardinality(assetLane.pending) <= LaneCapacity
    /\ \A p, q \in assetLane.pending :
          Reservation(p.request) = Reservation(q.request) => p = q
    /\ \A q \in assetLane.pending, w \in running :
          Reservation(q.request) # Reservation(w.request)

(* The lane is well formed and its queue within its budget.                *)
QueueSound == LaneTypeOK /\ QueueBounded

(* A retirement reaches every worker still running for the retired         *)
(* generations: none keeps an unset flag because the lane lost track of it.*)
RetirementReachesWorkers ==
    [][\A scope \in Scopes, generation \in Generations :
          RetireScopeGeneration(scope, generation) =>
             \A w \in running' :
                Superseded(w.request, scope, generation) => w.token \in signalled']_laneVars

(* Work queued for one asset is displaced by a submission for another only *)
(* when it matters less, and then no entry worth less stays.               *)
EvictionRespectsPriority ==
    [][\A request \in LaneRequests, q \in assetLane.pending :
          /\ Submit(request)
          /\ q \notin assetLane'.pending
          /\ Reservation(q.request) # Reservation(request)
          => /\ q.request.priority < request.priority
             /\ \A p \in assetLane'.pending : Before(q, p)]_laneVars

(* Once submissions stop, every queued request starts or is withdrawn and  *)
(* every slot comes back.                                                  *)
LaneDrains == <>[](assetLane.pending = {} /\ assetLane.active = {})
====
