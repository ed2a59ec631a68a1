--------------------------- MODULE PreviewQueue ---------------------------
(***************************************************************************)
(* The image previews of the preview pane (ferail-gpui/src/preview.rs) and *)
(* their scheduler (preview_queue.rs, LatestRequestQueue): one fetch and   *)
(* one waiting request for the whole process, whatever the number of its   *)
(* windows, and a small cache they share with the viewer, which warms it.  *)
(*                                                                         *)
(* The foreground runs one action at a time; a fetch runs on the           *)
(* background executor, and its answer is applied later.  text_preview.rs  *)
(* repeats this shape for text and is not modelled a second time.          *)
(***************************************************************************)
EXTENDS Naturals, Sequences, SequencesExt, FiniteSets

CONSTANTS Windows,
          Paths,
          NoPath,
          Refreshable,   \* the sets of paths under a directory one can refresh
          CacheCap,      \* CACHE_CAP
          MaxGestures,   \* bound on selections, reveals and refreshes
          MaxWarms       \* bound on warms

ASSUME PathsAssumption == NoPath \notin Paths /\ Refreshable \subseteq SUBSET Paths
ASSUME BoundsAssumption == {CacheCap, MaxGestures, MaxWarms} \subseteq Nat

VARIABLES cache,      \* entries [path, state], oldest first
          active,     \* LatestRequestQueue::active
          queued,     \* LatestRequestQueue::queued
          fetch,      \* the fetch of the active request, or NoFetch
          warms,      \* how many warms of each path are running
          shown,      \* the path whose preview each window wants, NoPath if closed
          open,       \* the windows that are open
          gestures, warmed,   \* counters of the bounds
          refused,    \* ghost: paths a provider that was not cancelled gave up on
          dropped     \* ghost: why nothing will answer a window's last gesture
vars == <<cache, active, queued, fetch, warms, shown, open, gestures, warmed, refused, dropped>>

NoFetch == [path |-> NoPath]
Fetching == fetch # NoFetch

----
(* The cache.                                                              *)

Entry(c, p) == {e \in Range(c) : e.path = p}
IsCached(p) == Entry(cache, p) # {}
IsPending(p) == \E e \in Entry(cache, p) : e.state = "pending"
IsSettled(p) == \E e \in Entry(cache, p) : e.state # "pending"

\* The entries of c that are in es, in their order: SelectSeq, in a form the
\* provers can reason about.
Kept(c, es) ==
    LET upTo[k \in 0..Len(c)] ==
            IF k = 0 THEN <<>>
            ELSE IF c[k] \in es THEN Append(upTo[k - 1], c[k]) ELSE upTo[k - 1]
    IN  upTo[Len(c)]

Removed(c, p) == Kept(c, {e \in Range(c) : e.path # p})

\* A new path goes to the end and may push the oldest entry out, whatever
\* its state; a known one keeps its place.
Inserted(c, p, state) ==
    IF Entry(c, p) # {}
    THEN [k \in DOMAIN c |-> IF c[k].path = p THEN [path |-> p, state |-> state] ELSE c[k]]
    ELSE LET longer == Append(c, [path |-> p, state |-> state])
         IN IF Len(longer) > CacheCap THEN Tail(longer) ELSE longer

----
(* request, with enqueue and start_request.                                *)

Started(c, w, p) ==
    /\ cache' = Inserted(c, p, "pending")
    /\ active' = p
    /\ queued' = NoPath
    /\ fetch' = [path |-> p, window |-> w, cancelled |-> FALSE, result |-> "running"]

\* The waiting request is replaced, and the active one cancelled.
Queue(p) ==
    /\ queued' = p
    /\ fetch' = [fetch EXCEPT !.cancelled = TRUE]
    /\ UNCHANGED <<cache, active>>

Request(w, p) ==
    CASE IsCached(p) \/ p \in {active, queued} -> UNCHANGED <<cache, active, queued, fetch>>
      [] ~IsCached(p) /\ active = NoPath -> Started(cache, w, p)
      [] OTHER -> Queue(p)

\* Ghost: windows whose path is dropped in favour of p.
Displaced(p) ==
    [v \in Windows |-> IF shown[v] # p /\ shown[v] \in {active, queued} \ {NoPath}
                       THEN "displaced" ELSE dropped[v]]

\* Ghost: the path is, or counts as, under way in a fetch that has been cancelled.
Rejoins(p) == Fetching /\ fetch.path = p /\ fetch.cancelled /\ (~IsCached(p) \/ IsPending(p))

Gesture(w) ==
    /\ w \in open /\ gestures < MaxGestures
    /\ gestures' = gestures + 1
    /\ UNCHANGED <<warms, open, warmed, refused>>

\* The lead row of a window moves to a file, or its pane is revealed again.
Select(w, p) ==
    /\ Gesture(w)
    /\ shown' = [shown EXCEPT ![w] = p]
    /\ Request(w, p)
    /\ dropped' = [IF queued' # queued THEN Displaced(p) ELSE dropped
                     EXCEPT ![w] = IF Rejoins(p) THEN "rejoined" ELSE "no"]

\* A folder has no preview of this kind.
SelectFolder(w) ==
    /\ Gesture(w)
    /\ shown' = [shown EXCEPT ![w] = NoPath]
    /\ dropped' = [dropped EXCEPT ![w] = "no"]
    /\ UNCHANGED <<cache, active, queued, fetch>>

\* invalidate_finished_under
InvalidateFinishedUnder(root) ==
    Kept(cache, {e \in Range(cache) : e.path \notin root \/ e.state = "pending"})

\* on_refresh asks for no preview again.
Refresh(w, root) ==
    /\ Gesture(w)
    /\ cache' = InvalidateFinishedUnder(root)
    /\ UNCHANGED <<active, queued, fetch, shown, dropped>>

CloseWindow(w) ==
    /\ w \in open
    /\ open' = open \ {w}
    /\ shown' = [shown EXCEPT ![w] = NoPath]
    /\ UNCHANGED <<cache, active, queued, fetch, warms, gestures, warmed, refused, dropped>>

----
(* The fetch.                                                              *)

\* The provider answers, or gives up because it sees that it is cancelled.
Answer ==
    /\ Fetching /\ fetch.result = "running"
    /\ \E result \in {"loaded", "failed"} :
          /\ fetch' = [fetch EXCEPT !.result = result]
          /\ refused' = IF result = "failed" /\ ~fetch.cancelled
                        THEN refused \cup {fetch.path} ELSE refused
    /\ UNCHANGED <<cache, active, queued, warms, shown, open, gestures, warmed, dropped>>

\* Mutant: the answer of a cancelled fetch is kept.
AppliedAnyway == Inserted(cache, fetch.path, fetch.result)

\* Mutant: a superseded fetch leaves its entry as it is.
AppliedUnlessCancelled == IF fetch.cancelled THEN cache
                          ELSE Inserted(cache, fetch.path, fetch.result)

\* A superseded path stays retryable.
Applied == IF fetch.cancelled THEN Removed(cache, fetch.path)
           ELSE Inserted(cache, fetch.path, fetch.result)

\* Mutant: a cancelled fetch does not hand the slot on.
SuccessorUnlessCancelled == IF fetch.cancelled THEN NoPath ELSE queued

\* complete: the waiting request is taken out.
Successor == queued

\* The window that started the
\* fetch asks for it, unless another path to the cache has answered it; if
\* that window is gone, nobody asks.
ApplyResult ==
    /\ Fetching /\ fetch.result # "running"
    /\ LET next == Successor
           alive == fetch.window \in open
       IN IF next # NoPath /\ alive /\ Entry(Applied, next) = {}
          THEN /\ Started(Applied, fetch.window, next)
               /\ UNCHANGED dropped
          ELSE /\ cache' = Applied
               /\ active' = NoPath
               /\ queued' = NoPath
               /\ fetch' = NoFetch
               /\ dropped' = [v \in Windows |-> IF ~alive /\ shown[v] = next /\ next # NoPath
                                                THEN "orphaned" ELSE dropped[v]]
    /\ UNCHANGED <<warms, shown, open, gestures, warmed, refused>>

----
(* warm: the viewer fetches the next slide, beside the queue.              *)

Warm(p) ==
    /\ warmed < MaxWarms
    /\ ~IsCached(p)
    /\ cache' = Inserted(cache, p, "pending")
    /\ warms' = [warms EXCEPT ![p] = @ + 1]
    /\ warmed' = warmed + 1
    /\ UNCHANGED <<active, queued, fetch, shown, open, gestures, refused, dropped>>

WarmReturns(p) ==
    /\ warms[p] > 0
    /\ warms' = [warms EXCEPT ![p] = @ - 1]
    /\ \E result \in {"loaded", "failed"} :
          /\ cache' = Inserted(cache, p, result)
          /\ refused' = IF result = "failed" THEN refused \cup {p} ELSE refused
    /\ UNCHANGED <<active, queued, fetch, shown, open, gestures, warmed, dropped>>

----
Init ==
    /\ cache = <<>> /\ active = NoPath /\ queued = NoPath /\ fetch = NoFetch
    /\ warms = [p \in Paths |-> 0]
    /\ shown = [w \in Windows |-> NoPath] /\ open = Windows
    /\ gestures = 0 /\ warmed = 0
    /\ refused = {} /\ dropped = [w \in Windows |-> "no"]

User(w) ==
    \/ \E p \in Paths : Select(w, p)
    \/ SelectFolder(w)
    \/ \E root \in Refreshable : Refresh(w, root)
    \/ CloseWindow(w)

Next ==
    \/ \E w \in Windows : User(w)
    \/ Answer \/ ApplyResult
    \/ \E p \in Paths : Warm(p) \/ WarmReturns(p)

Spec == Init /\ [][Next]_vars

\* Providers answer (the Windows broker is killed when cancelled, the others
\* are bounded by their own timeouts) and the foreground applies the answers.
FairSpec == /\ Spec
            /\ WF_vars(Answer) /\ WF_vars(ApplyResult)
            /\ \A p \in Paths : WF_vars(WarmReturns(p))

----
(* Properties.                                                             *)

\* The cache holds one entry per path and never outgrows its cap, whatever
\* joins it from the queue and from warms.
TypeOK ==
    /\ \A k \in DOMAIN cache : /\ cache[k].path \in Paths
                               /\ cache[k].state \in {"pending", "loaded", "failed"}
    /\ \A k, l \in DOMAIN cache : cache[k].path = cache[l].path => k = l
    /\ Len(cache) <= CacheCap
    /\ {active, queued} \cup {shown[w] : w \in Windows} \subseteq Paths \cup {NoPath}
    /\ warms \in [Paths -> 0..MaxWarms] /\ open \subseteq Windows /\ refused \subseteq Paths
    /\ dropped \in [Windows -> {"no", "rejoined", "displaced", "orphaned"}]

\* The single slot never wedges: it is taken exactly while a fetch of its
\* path runs, and a request waits only behind a fetch that has been told to
\* stop (PREVIEW.md: "one request may run and only the newest request behind
\* it is retained", "superseding a native image request now cancels").
SlotHasFetch ==
    /\ active = fetch.path
    /\ queued # NoPath => Fetching /\ fetch.cancelled /\ queued # active

\* A pending entry stops every later request for its path, so it has a
\* worker: the fetch or a warm of that path, through evictions, refreshes,
\* cancellations and windows that close.
PendingHasWorker ==
    \A p \in Paths : IsPending(p) => fetch.path = p \/ warms[p] > 0

\* The three together: the cache is bounded, and neither the slot nor a
\* pending entry is ever left without somebody to release it.
NothingWedges == TypeOK /\ SlotHasFetch /\ PendingHasWorker

\* A path is marked as one that has no preview only if a provider said so:
\* being superseded is not a failure ("instead of poisoning it with a
\* negative cache entry", preview.rs:264).
OnlyRealFailuresStick ==
    \A e \in Range(cache) : e.state = "failed" => e.path \in refused

UnderWay(p) == IsPending(p) \/ p \in {active, queued}

\* What a window shows and has requested gets its preview, or the news that
\* there is none, unless the window moves on or the request was dropped in one of three
\* ways: the path was selected again while its cancelled fetch still ran
\* ("rejoined"), a request of any window took the slot it waited in
\* ("displaced"), or the window whose fetch it waited for was closed
\* ("orphaned").
PanesFill ==
    \A w \in Windows, p \in Paths :
        shown[w] = p /\ UnderWay(p) /\ dropped[w] = "no"
            ~> IsSettled(p) \/ shown[w] # p \/ dropped[w] # "no"
=============================================================================
