---- MODULE ThumbnailDispatch ----
(***************************************************************************)
(* The process-wide thumbnail and icon dispatcher                          *)
(* (ferail-gpui/src/asset_dispatcher.rs) over three lanes of AssetWork,    *)
(* the caches it fills (thumbnails.rs, icons.rs), the provider workers on  *)
(* the background executor, and the surfaces that ask.                     *)
(*                                                                         *)
(* "host" is everything the UI thread owns; each operator on it is one     *)
(* function of the dispatcher.  The UI thread is one actor: while the pump *)
(* is inside a cx.update (stages accept, start, upload, apply) no surface  *)
(* runs; it yields while it waits for a wake or for the frame timer.       *)
(* Windows shortcuts, which bypass the upload lane, are not modelled.      *)
(***************************************************************************)
EXTENDS AssetWork, Sequences

CONSTANTS Thumbs,            \* files with a content thumbnail, one size each
          Icons,             \* path and type icons
          Surfaces,          \* tables and grids, with an AssetWorkScope each
          Concurrency,       \* per lane
          Capacity,          \* per lane
          UploadsPerFrame, AppliesPerFrame,
          CacheCap,          \* ready thumbnails kept
          MaxRequests,       \* bound on dispatcher generations
          MaxVersion,        \* bound on rewrites of a file
          MaxListing         \* bound on listing generations of a surface

Lanes  == {"provider", "upload", "apply"}
Assets == Thumbs \cup Icons

ASSUME LaneBudgets ==
    Concurrency \in [Lanes -> Nat \ {0}] /\ Capacity \in [Lanes -> Nat \ {0}]
ASSUME FrameBudgets == UploadsPerFrame \in Nat \ {0} /\ AppliesPerFrame \in Nat \ {0}
ASSUME Bounds == {CacheCap, MaxRequests, MaxVersion, MaxListing} \subseteq Nat

\* Thumbnails and icons have tables of their own, and so have their slots: the
\* key of a thumbnail is not taken for an icon.
ASSUME Kinds == Thumbs \cap Icons = {} /\ Icons \cap [asset : Assets, tag : Nat] = {}

VARIABLES host,       \* dispatcher, coordinator and caches
          workers,    \* provider tasks on the background executor
          completed,  \* the unbounded completion channel
          wake,       \* a token in the wake channel, of capacity one
          pump,       \* where start's loop is
          budget,     \* uploads or applies left in this frame
          listing,    \* each surface's detail_revision and the revisions it lists
          version     \* the version of each file on disk
vars == <<host, workers, completed, wake, pump, budget, listing, version>>
surfaceVars == <<listing, version>>

WorkId(request) == [key |-> request.key, generation |-> request.generation]

\* Thumbnails are live under their asset key, icons under their icon key.
Slot(job) == IF job.asset \in Thumbs THEN job.request.key ELSE job.asset

LiveEntry(job) == [slot |-> Slot(job), id |-> WorkId(job.request)]

Init ==
    /\ host = [lane       |-> [l \in Lanes |-> NewLane],
               held       |-> [l \in Lanes |-> {}],
               live       |-> {},
               waiters    |-> {},
               inFlight   |-> {},
               thumbs     |-> <<>>,
               icons      |-> {},
               generation |-> 0]
    /\ workers = {} /\ completed = {}
    /\ wake = FALSE /\ pump = "waiting" /\ budget = 0
    /\ version = [a \in Assets |-> 0]
    /\ listing = [s \in Surfaces |-> [generation |-> 0, revision |-> version]]

----
(* Caches.                                                                 *)

Resolved(h, asset) ==
    asset \in h.icons \/ \E i \in DOMAIN h.thumbs : h.thumbs[i].asset = asset

\* insert_rendered: replace in place, or append and evict the oldest.
WithThumb(thumbs, asset, seen) ==
    LET entry  == [asset |-> asset, seen |-> seen]
        longer == Append(thumbs, entry)
    IN  IF \E i \in DOMAIN thumbs : thumbs[i].asset = asset
        THEN [i \in DOMAIN thumbs |-> IF thumbs[i].asset = asset THEN entry ELSE thumbs[i]]
        ELSE IF Len(longer) > CacheCap THEN Tail(longer) ELSE longer

\* A result joins the cache of its kind; icons are never evicted.
WithReady(h, job) ==
    IF job.asset \in Thumbs
    THEN [h EXCEPT !.thumbs = WithThumb(@, job.asset, job.seen)]
    ELSE [h EXCEPT !.icons = @ \cup {job.asset}]

----
(* Releasing work that will not be delivered.                              *)

\* Mutant: the reservation outlives the discarded payload.
ReleaseKeepingLive(h, jobs) ==
    LET slots == {Slot(j) : j \in jobs}
    IN  [h EXCEPT !.waiters  = {w \in @ : w.slot \notin slots},
                  !.inFlight = @ \ {j.asset : j \in jobs}]

\* discard_provider_payload and discard_uploaded_payload.
Release(h, jobs) ==
    LET slots == {Slot(j) : j \in jobs}
    IN  [h EXCEPT !.live     = {l \in @ : l.slot \notin slots},
                  !.waiters  = {w \in @ : w.slot \notin slots},
                  !.inFlight = @ \ {j.asset : j \in jobs}]

JobsOf(h, lane, requests) ==
    {j \in h.held[lane] : \E r \in requests : WorkId(j.request) = WorkId(r)}

\* discard_pending, discard_upload and discard_apply.
Discard(h, lane, requests) ==
    LET gone == JobsOf(h, lane, requests)
    IN  Release([h EXCEPT !.held[lane] = @ \ gone], gone)

\* submit_detailed on a lane, with the payload of what it evicts discarded.
SubmitTo(h, lane, request) ==
    LET outcome == SubmitOutcome(h.lane[lane], request, Capacity[lane])
    IN  Discard([h EXCEPT !.lane[lane] = AfterSubmit(@, request, outcome)],
                lane, Evicted(h.lane[lane], outcome))

Accepts(h, lane, request) ==
    SubmitOutcome(h.lane[lane], request, Capacity[lane]) \in Admitted

\* A finished job enters the next lane, or is dropped with its reservation.
Forward(h, lane, job) ==
    IF Accepts(h, lane, job.request)
    THEN [SubmitTo(h, lane, job.request) EXCEPT !.held[lane] = @ \cup {job}]
    ELSE Release(SubmitTo(h, lane, job.request), {job})

----
(* Surfaces: retain_surface_generation, submit, submit_path_icons and      *)
(* submit_type_icons.  A call with several seeds is several calls with one.*)

\* Mutant: superseded waiters go, the queued work they asked for stays.
RetainWaitersOnly(h, surface, generation) ==
    [h EXCEPT !.waiters =
        {w \in @ : w.slot \in Icons \/ w.scope # surface \/ w.generation = generation}]

\* Queued thumbnails nobody waits for any more are withdrawn; started ones run on.
RetainSurfaceGeneration(h, surface, generation) ==
    LET kept      == {w \in h.waiters :
                         w.slot \in Icons \/ w.scope # surface \/ w.generation = generation}
        abandoned == {w.slot : w \in h.waiters} \ {w.slot : w \in kept}
        dropped   == {j \in h.held["provider"] :
                         Slot(j) \in abandoned /\ LiveEntry(j) \in h.live}
    IN  Release([h EXCEPT
                    !.waiters = kept,
                    !.held["provider"] = @ \ dropped,
                    !.lane["provider"].pending =
                        {q \in @ : \A j \in dropped : ~SameWork(q.request, j.request)}],
                dropped)

\* A seed whose asset is already live adds a waiter, and may raise its priority.
Join(h, waiter, priority) ==
    LET raised  == {j \in h.held["provider"] :
                       Slot(j) = waiter.slot /\ j.request.priority < priority}
        resubmit(lane, j) ==
            LET request == [j.request EXCEPT !.priority = priority]
            IN  AfterSubmit(lane, request,
                            SubmitOutcome(lane, request, Capacity["provider"]))
    IN  [h EXCEPT !.waiters = @ \cup {waiter},
                  !.held["provider"] = (@ \ raised)
                      \cup {[j EXCEPT !.request.priority = priority] : j \in raised},
                  !.lane["provider"] = IF raised = {} THEN @
                                       ELSE resubmit(@, CHOOSE j \in raised : TRUE)]

\* A new request: reserved everywhere if the provider lane takes it.
Reserve(h, asset, tag, surface, priority) ==
    LET generation == h.generation + 1
        request == [scope |-> "dispatch", key |-> [asset |-> asset, tag |-> tag],
                    generation |-> generation, priority |-> priority]
        job     == [asset |-> asset, request |-> request, seen |-> 0]
        waiter  == [slot |-> Slot(job), scope |-> surface,
                    generation |-> listing[surface].generation]
        after   == [SubmitTo(h, "provider", request) EXCEPT !.generation = generation]
    IN  IF ~Accepts(h, "provider", request) THEN after
        ELSE [after EXCEPT !.held["provider"] = @ \cup {job},
                           !.live     = @ \cup {LiveEntry(job)},
                           !.waiters  = {w \in @ : w.slot # waiter.slot} \cup {waiter},
                           !.inFlight = @ \cup {asset}]

IsLive(h, slot) == \E l \in h.live : l.slot = slot

UIFree == pump \in {"waiting", "timer"}

SubmitThumbnail(surface, asset, priority) ==
    LET h    == RetainSurfaceGeneration(host, surface, listing[surface].generation)
        slot == [asset |-> asset, tag |-> listing[surface].revision[asset]]
        waiter == [slot |-> slot, scope |-> surface,
                   generation |-> listing[surface].generation]
    IN  /\ UIFree
        /\ host.generation < MaxRequests
        /\ host' = IF Resolved(h, asset) THEN h
                   ELSE IF IsLive(h, slot) THEN Join(h, waiter, priority)
                   ELSE Reserve(h, asset, slot.tag, surface, priority)
        /\ wake' = TRUE
        /\ UNCHANGED <<workers, completed, pump, budget, surfaceVars>>

SubmitIcon(surface, asset) ==
    LET waiter == [slot |-> asset, scope |-> surface,
                   generation |-> listing[surface].generation]
    IN  /\ UIFree
        /\ host.generation < MaxRequests
        /\ host' = IF IsLive(host, asset) THEN [host EXCEPT !.waiters = @ \cup {waiter}]
                   ELSE IF Resolved(host, asset) \/ asset \in host.inFlight THEN host
                   ELSE Reserve(host, asset, host.generation + 1, surface, Visible)
        /\ wake' = TRUE
        /\ UNCHANGED <<workers, completed, pump, budget, surfaceVars>>

\* A Refresh drops the ready thumbnails beneath the directory at the keypress;
\* the listing it asks for arrives later.
Refresh(surface) ==
    /\ UIFree
    /\ host' = [host EXCEPT !.thumbs = <<>>]
    /\ UNCHANGED <<workers, completed, wake, pump, budget, listing, version>>

\* A surface replaces its entries: navigation, sort, filter or a reload.
Relist(surface) ==
    /\ UIFree
    /\ listing[surface].generation < MaxListing
    /\ listing' = [listing EXCEPT ![surface] =
                      [generation |-> @.generation + 1, revision |-> version]]
    /\ UNCHANGED <<host, workers, completed, wake, pump, budget, version>>

\* Some program rewrites a file.
Rewrite(asset) ==
    /\ version[asset] < MaxVersion
    /\ version' = [version EXCEPT ![asset] = @ + 1]
    /\ UNCHANGED <<host, workers, completed, wake, pump, budget, listing>>

----
(* Provider tasks: fetch, send the completion, then offer a wake token.    *)

Fetch(w) ==
    /\ w \in workers /\ w.stage = "fetching"
    /\ workers' = (workers \ {w})
          \cup {[w EXCEPT !.stage = "fetched", !.job.seen = version[w.job.asset]]}
    /\ UNCHANGED <<host, completed, wake, pump, budget, surfaceVars>>

Send(w) ==
    /\ w \in workers /\ w.stage = "fetched"
    /\ workers' = (workers \ {w}) \cup {[w EXCEPT !.stage = "sent"]}
    /\ completed' = completed \cup {w.job}
    /\ UNCHANGED <<host, wake, pump, budget, surfaceVars>>

OfferWake(w) ==
    /\ w \in workers /\ w.stage = "sent"
    /\ workers' = workers \ {w}
    /\ wake' = TRUE
    /\ UNCHANGED <<host, completed, pump, budget, surfaceVars>>

----
(* The pump: start's loop and dispatch_ready_work.                         *)

TakeWake ==
    /\ pump = "waiting" /\ wake
    /\ wake' = FALSE
    /\ pump' = "accept"
    /\ UNCHANGED <<host, workers, completed, budget, surfaceVars>>

AcceptCompletion ==
    /\ pump = "accept"
    /\ \E job \in completed :
          /\ completed' = completed \ {job}
          /\ host' = Forward([host EXCEPT !.lane["provider"] = AfterComplete(@, job.request)],
                             "upload", job)
    /\ UNCHANGED <<workers, wake, pump, budget, surfaceVars>>

AcceptDone ==
    /\ pump = "accept" /\ completed = {}
    /\ pump' = "start"
    /\ UNCHANGED <<host, workers, completed, wake, budget, surfaceVars>>

\* take_provider_starts: a start without a payload gives its slot back.
StartProvider ==
    /\ pump = "start"
    /\ CanStart(host.lane["provider"], Concurrency["provider"])
    /\ LET started == StartedWork(host.lane["provider"]).request
           jobs    == JobsOf(host, "provider", {started})
           lane    == AfterStart(host.lane["provider"])
       IN  /\ host' = [host EXCEPT
                          !.held["provider"] = @ \ jobs,
                          !.lane["provider"] = IF jobs = {} THEN AfterComplete(lane, started)
                                               ELSE lane]
           /\ workers' = workers \cup {[job |-> j, stage |-> "fetching"] : j \in jobs}
    /\ UNCHANGED <<completed, wake, pump, budget, surfaceVars>>

HasUiWork == host.lane["upload"].pending # {} \/ host.lane["apply"].pending # {}

StartsDone ==
    /\ pump = "start"
    /\ ~CanStart(host.lane["provider"], Concurrency["provider"])
    /\ pump' = IF HasUiWork THEN "timer" ELSE "waiting"
    /\ UNCHANGED <<host, workers, completed, wake, budget, surfaceVars>>

FrameDue ==
    /\ pump = "timer"
    /\ pump' = "upload"
    /\ budget' = UploadsPerFrame
    /\ UNCHANGED <<host, workers, completed, wake, surfaceVars>>

\* The host after a lane starts its next work and acknowledges it at once.
Popped(lane) ==
    LET started == StartedWork(host.lane[lane]).request
    IN  [host EXCEPT
            !.lane[lane] = AfterComplete(AfterStart(@), started),
            !.held[lane] = @ \ JobsOf(host, lane, {started})]

PoppedJobs(lane) == JobsOf(host, lane, {StartedWork(host.lane[lane]).request})

UploadOne ==
    /\ pump = "upload" /\ budget > 0
    /\ CanStart(host.lane["upload"], Concurrency["upload"])
    /\ \/ /\ PoppedJobs("upload") = {}
          /\ host' = Popped("upload")
       \/ \E job \in PoppedJobs("upload") : host' = Forward(Popped("upload"), "apply", job)
    /\ budget' = budget - 1
    /\ UNCHANGED <<workers, completed, wake, pump, surfaceVars>>

UploadsDone ==
    /\ pump = "upload"
    /\ budget = 0 \/ ~CanStart(host.lane["upload"], Concurrency["upload"])
    /\ pump' = "apply"
    /\ budget' = AppliesPerFrame
    /\ UNCHANGED <<host, workers, completed, wake, surfaceVars>>

\* Waiters are notified as they are taken out.
ApplyOne ==
    /\ pump = "apply" /\ budget > 0
    /\ CanStart(host.lane["apply"], Concurrency["apply"])
    /\ \/ /\ PoppedJobs("apply") = {}
          /\ host' = Popped("apply")
       \/ \E job \in PoppedJobs("apply") :
             host' = WithReady(Release(Popped("apply"), {job}), job)
    /\ budget' = budget - 1
    /\ UNCHANGED <<workers, completed, wake, pump, surfaceVars>>

\* Mutant: a frame that leaves work behind does not ask for another.
FrameDoneNoRewake ==
    /\ pump = "apply"
    /\ budget = 0 \/ ~CanStart(host.lane["apply"], Concurrency["apply"])
    /\ pump' = "waiting" /\ budget' = 0
    /\ UNCHANGED <<host, workers, completed, wake, surfaceVars>>

FrameDone ==
    /\ pump = "apply"
    /\ budget = 0 \/ ~CanStart(host.lane["apply"], Concurrency["apply"])
    /\ pump' = "waiting" /\ budget' = 0
    /\ wake' = (wake \/ HasUiWork)
    /\ UNCHANGED <<host, workers, completed, surfaceVars>>

Pump == \/ TakeWake \/ AcceptCompletion \/ AcceptDone \/ StartProvider \/ StartsDone
        \/ FrameDue \/ UploadOne \/ UploadsDone \/ ApplyOne \/ FrameDone

Work == \E w \in workers : Fetch(w) \/ Send(w) \/ OfferWake(w)

Ask == \E s \in Surfaces :
          \/ \E a \in Thumbs, p \in AssetPriority : SubmitThumbnail(s, a, p)
          \/ \E a \in Icons : SubmitIcon(s, a)
          \/ Refresh(s) \/ Relist(s)

Next == Pump \/ Work \/ Ask \/ \E a \in Assets : Rewrite(a)

Spec == Init /\ [][Next]_vars

\* The executor polls the pump, and every provider call returns.
FairSpec == Spec /\ WF_vars(Pump) /\ WF_vars(Work)

----
\* Every job of the dispatcher, wherever it has got to.
Travelling == completed \cup {w.job : w \in {x \in workers : x.stage # "sent"}}
AllJobs == Travelling \cup UNION {host.held[l] : l \in Lanes}

(* Requests, reservations and tasks are well formed.                       *)
TypeOK ==
    /\ pump \in {"waiting", "accept", "start", "timer", "upload", "apply"}
    /\ wake \in BOOLEAN /\ budget \in 0..(UploadsPerFrame + AppliesPerFrame)
    /\ host.inFlight \subseteq Assets
    /\ \A j \in AllJobs : /\ j.asset \in Assets /\ j.seen \in 0..MaxVersion
                          /\ j.request.generation \in 1..host.generation
                          /\ j.request.priority \in AssetPriority
    /\ \A w \in host.waiters : w.scope \in Surfaces
    /\ Len(host.thumbs) <= CacheCap /\ host.icons \subseteq Icons

(* Every live entry stands for exactly one job in exactly one stage, and   *)
(* every job is live: an asset can neither be left "already requested"     *)
(* with nobody working on it, nor be fetched twice at one revision.        *)
ReservationsMatchJobs ==
    /\ host.live = {LiveEntry(j) : j \in AllJobs}
    /\ \A k, l \in host.live : k.slot = l.slot => k = l
    /\ Cardinality(host.live) =
          Cardinality(Travelling) + Cardinality(host.held["provider"])
          + Cardinality(host.held["upload"]) + Cardinality(host.held["apply"])

(* The compact queue of each lane and the payloads the host keeps beside   *)
(* it describe the same requests, priorities included.                     *)
QueuesMatchPayloads ==
    \A l \in Lanes :
        /\ {q.request : q \in host.lane[l].pending} = {j.request : j \in host.held[l]}
        /\ l # "provider" => host.lane[l].active = {}

(* An asset marked in flight has a live job: the mark, which makes the     *)
(* viewport skip the asset, is never left behind.                          *)
InFlightHasJob ==
    /\ host.inFlight \subseteq {j.asset : j \in AllJobs}
    /\ \A i \in Icons : i \in host.inFlight <=> IsLive(host, i)

(* Together: no reservation, queue entry, payload or mark exists without   *)
(* the others, wherever a job has got to and however it is given up.       *)
JobsAccountedFor ==
    TypeOK /\ ReservationsMatchJobs /\ QueuesMatchPayloads /\ InFlightHasJob

(* A provider call is never waiting for a slot on behalf of nobody.        *)
QueuedWorkIsWanted ==
    \A j \in host.held["provider"] : \E w \in host.waiters : w.slot = Slot(j)

(* Once the surfaces stop asking, every reservation is delivered or        *)
(* released: no wake token and no frame is lost on the way.                *)
EveryRequestSettles == <>[](host.live = {} /\ host.inFlight = {})
====
