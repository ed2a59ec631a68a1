---------------------------- MODULE LiveListing ----------------------------
(***************************************************************************)
(* Directory tabs and the watcher that keeps them current: the streaming   *)
(* load of shell.rs load_path_for_tab, the tool surfaces that borrow its   *)
(* machinery (search, flat view), the fs-watcher worker thread, and one    *)
(* poll loop per window that drains the shared watcher and reloads every   *)
(* tab of every window that shows a changed directory.                     *)
(*                                                                         *)
(* A listing is the sequence of batches its rows arrived in.  A batch      *)
(* carries the load it belongs to and the version the directory had when   *)
(* it was read; names, sorting, filters and selection are left out.  Every *)
(* action below runs on the UI thread except ReadBatch, EndRead and        *)
(* FailRead (the enumeration worker), RunCommand (the fs-watcher thread)   *)
(* and Change (another program).                                           *)
(***************************************************************************)
EXTENDS Naturals, Sequences, FiniteSets, SequencesExt

CONSTANTS
    Tabs, Windows,
    WindowOf,          \* the window a tab lives in
    Dirs,
    Start,             \* the directory each tab opens on
    Batches,           \* how many non-empty batches a directory enumerates in
    ToolBatches,       \* how many batches a search or a flat walk streams
    Unreliable,        \* directories whose read may fail, whose watch may be refused
    ChannelBatches,    \* LISTING_CHANNEL_BATCHES
    MaxMoves,          \* bound: user gestures
    MaxChanges         \* bound: changes other programs make to each directory

ASSUME PlacesAssumption ==
    /\ WindowOf \in [Tabs -> Windows]
    /\ Start \in [Tabs -> Dirs]
    /\ Batches \in [Dirs -> Nat]
    /\ Unreliable \subseteq Dirs
ASSUME BoundsAssumption ==
    /\ ToolBatches \in Nat
    /\ ChannelBatches \in Nat \ {0}
    /\ MaxMoves \in Nat
    /\ MaxChanges \in [Dirs -> Nat]

Tools == {"search", "flat"}
Rescan == "rescan"     \* an event without paths: everything watched is dirty

VARIABLES
    disk,       \* the version of each directory
    noticed,    \* the version of its last change that happened under a watch
    window,     \* open, dismissed (closed by a command) or abandoned (natively)
    tab,        \* Tab
    loads,      \* workers and UI pumps still running
    tasks,      \* the TaskRegistry rows of loads
    osWatched,  \* the worker's authoritative set of watches
    mirror,     \* FsWatcher.watched, the UI's set of requested watches
    commands,   \* the channel into the fs-watcher worker
    events,     \* the channel out of it
    loop,       \* the poll loop of each window
    moves

watcher == <<osWatched, mirror, commands, events, noticed>>
vars == <<disk, window, tab, loads, tasks, watcher, loop, moves>>

Row(d, g, p, v) == [dir |-> d, gen |-> g, part |-> p, version |-> v]
Rows == [dir : Dirs, gen : Nat, part : Nat, version : Nat]

TypeOK ==
    /\ \A d \in Dirs : disk[d] \in 0..MaxChanges[d] /\ noticed[d] \in 0..disk[d]
    /\ window \in [Windows -> {"open", "dismissed", "abandoned"}]
    /\ tab \in [Tabs -> [dir : Dirs, gen : Nat, rows : Seq(Rows), first : BOOLEAN,
                         inPlace : BOOLEAN, staging : Seq(Rows), loading : BOOLEAN,
                         task : Nat, tool : Tools \cup {"none"}, failed : BOOLEAN,
                         visited : SUBSET Dirs]]
    /\ \A l \in loads :
          /\ l.tab \in Tabs /\ l.dir \in Dirs /\ l.tool \in Tools \cup {"none"}
          /\ l.end \in {"reading", "done", "error"}
          /\ Len(l.chan) + (IF l.end = "reading" THEN 0 ELSE 1) <= ChannelBatches
    /\ \A id \in tasks : id[1] \in Tabs /\ id[2] \in Nat
    /\ osWatched \subseteq Dirs
    /\ mirror \subseteq Dirs
    /\ events \subseteq Dirs \cup {Rescan}
    /\ commands \in Seq([watch : SUBSET Dirs, retain : SUBSET Dirs])
    /\ loop \in [Windows -> [pending : SUBSET Dirs, recent : SUBSET Dirs, stopped : BOOLEAN]]
    /\ moves \in 0..MaxMoves

----------------------------------------------------------------------------
IsOpen(t) == window[WindowOf[t]] = "open"
OpenTabs == {t \in Tabs : IsOpen(t)}
Current(l) == l.gen = tab[l.tab].gen

\* What prune_watches keeps: the directories of the tabs of live windows.
Shown(tabs) == {tabs[t].dir : t \in OpenTabs}

\* The watch requests of loads of directories ds and the prune each load makes
\* after it.  The worker runs them in one step: until the prune, only the
\* watch of a directory no tab shows is left over, whose events the drain
\* drops.
Request(ds, keep) == [watch |-> ds, retain |-> keep]

NewLoad(t, g, d, k) ==
    [tab |-> t, gen |-> g, dir |-> d, tool |-> k, next |-> 1, chan |-> <<>>, end |-> "reading"]

\* load_path_for_tab on one tab.  A directory that is already current, with
\* rows in the table, is reloaded in place; any other load reveals its
\* batches as they come.
Loading(r, d) ==
    [r EXCEPT !.dir = d, !.gen = @ + 1, !.first = TRUE, !.loading = TRUE, !.task = r.gen + 1,
              !.inPlace = r.dir = d /\ r.rows # <<>>, !.staging = <<>>,
              !.visited = @ \cup {d}, !.failed = FALSE]

\* toggle_flat_view and start_search on one tab: the rows go, the directory
\* load is superseded, and load_pending_first_batch stays as it was.
Showing(r, k) ==
    [r EXCEPT !.gen = @ + 1, !.rows = <<>>, !.loading = TRUE, !.task = r.gen + 1,
              !.inPlace = FALSE, !.staging = <<>>, !.tool = k, !.failed = FALSE]

\* A mutant: load_task.replace drops the previous id without ending it.
TasksPiledUp(ts) == tasks \cup {<<t, tab[t].gen + 1>> : t \in ts}

\* Registry rows after tabs ts begin new work: each tab's previous row ends.
TasksAfter(ts) ==
    {id \in tasks : id[1] \notin ts} \cup {<<t, tab[t].gen + 1>> : t \in ts}

LoadPaths(ts, dirOf, tabs) ==
    /\ tab' = [t \in Tabs |-> IF t \in ts THEN Loading(tabs[t], dirOf[t]) ELSE tabs[t]]
    /\ loads' = loads \cup {NewLoad(t, tab[t].gen + 1, dirOf[t], "none") : t \in ts}
    /\ tasks' = TasksAfter(ts)
    /\ mirror' = (mirror \cup {dirOf[t] : t \in ts}) \cap Shown(tab')
    /\ commands' = Append(commands, Request({dirOf[t] : t \in ts}, Shown(tab')))

LoadPath(t, d, r) == LoadPaths({t}, [x \in {t} |-> d], [tab EXCEPT ![t] = r])

----------------------------------------------------------------------------
(* Gestures on a tab. *)

Gesture(t) == IsOpen(t) /\ moves < MaxMoves /\ moves' = moves + 1
Elsewhere == UNCHANGED <<disk, window, osWatched, events, noticed, loop>>

\* navigate_with_tracking: any directory, leaving any tool surface.
Navigate(t, d) ==
    /\ Gesture(t)
    /\ LoadPath(t, d, [tab[t] EXCEPT !.tool = "none"])
    /\ Elsewhere

\* navigate_back and navigate_forward: a directory of the history.  The tool
\* surface stays as it is.
GoBack(t, d) ==
    /\ d \in tab[t].visited \ {tab[t].dir}
    /\ Gesture(t)
    /\ LoadPath(t, d, tab[t])
    /\ Elsewhere

OpenTool(t, k) ==
    /\ Gesture(t)
    /\ tab' = [tab EXCEPT ![t] = Showing(@, k)]
    /\ loads' = loads \cup {NewLoad(t, tab[t].gen + 1, tab[t].dir, k)}
    /\ tasks' = TasksAfter({t})
    /\ UNCHANGED <<mirror, commands>>
    /\ Elsewhere

\* on_refresh: a flat view walks again, anything else re-reads the directory.
Refresh(t) ==
    IF tab[t].tool = "flat"
    THEN OpenTool(t, "flat")
    ELSE Gesture(t) /\ LoadPath(t, tab[t].dir, tab[t]) /\ Elsewhere

\* close_active_tool_result, clear_search and the second toggle of flat view.
CloseTool(t) ==
    /\ tab[t].tool # "none"
    /\ Navigate(t, tab[t].dir)

\* on_close_window dismisses the work of each tab before the window goes.
CloseWindow(w) ==
    /\ window[w] = "open"
    /\ moves < MaxMoves /\ moves' = moves + 1
    /\ window' = [window EXCEPT ![w] = "dismissed"]
    /\ tasks' = {id \in tasks : WindowOf[id[1]] # w}
    /\ UNCHANGED <<disk, tab, loads, watcher, loop>>

\* The platform's own close button: the Shell is dropped, nothing else runs.
CloseNatively(w) ==
    /\ window[w] = "open"
    /\ moves < MaxMoves /\ moves' = moves + 1
    /\ window' = [window EXCEPT ![w] = "abandoned"]
    /\ UNCHANGED <<disk, tab, loads, tasks, watcher, loop>>

----------------------------------------------------------------------------
(* The enumeration worker of a load, and the pump that applies its batches. *)

BatchesOf(l) == IF l.tool = "none" THEN Batches[l.dir] ELSE ToolBatches
HasRoom(l) == Len(l.chan) < ChannelBatches
\* A load's flag is set when its tab moves on or its window is dismissed.
Cancelled(l) == ~Current(l) \/ window[WindowOf[l.tab]] = "dismissed"
With(l, m) == (loads \ {l}) \cup {m}

ReadBatch(l) ==
    /\ l.end = "reading" /\ l.next <= BatchesOf(l) /\ HasRoom(l) /\ ~Cancelled(l)
    /\ loads' = With(l, [l EXCEPT !.next = @ + 1,
                                  !.chan = Append(@, Row(l.dir, l.gen, l.next, disk[l.dir]))])
    /\ UNCHANGED <<disk, window, tab, tasks, watcher, loop, moves>>

EndRead(l) ==
    /\ l.end = "reading" /\ HasRoom(l)
    /\ l.next > BatchesOf(l) \/ Cancelled(l)
    /\ loads' = With(l, [l EXCEPT !.end = "done"])
    /\ UNCHANGED <<disk, window, tab, tasks, watcher, loop, moves>>

FailRead(l) ==
    /\ l.end = "reading" /\ HasRoom(l) /\ l.tool = "none" /\ l.dir \in Unreliable
    /\ loads' = With(l, [l EXCEPT !.end = "error"])
    /\ UNCHANGED <<disk, window, tab, tasks, watcher, loop, moves>>

\* A mutant: the path of a batch is checked, its generation is not.
StaleByPath(l) == ~IsOpen(l.tab) \/ tab[l.tab].dir # l.dir

Stale(l) ==
    \/ ~IsOpen(l.tab)
    \/ ~Current(l)
    \/ l.tool = "none" /\ tab[l.tab].dir # l.dir

\* apply_directory_batch_in_tab, apply_search_batch_in_tab.
Applied(r, l, rows) ==
    IF rows = <<>> THEN r
    ELSE CASE l.tool # "none" -> [r EXCEPT !.rows = @ \o rows]
           [] l.tool = "none" /\ r.inPlace -> [r EXCEPT !.staging = @ \o rows]
           [] l.tool = "none" /\ ~r.inPlace ->
                 [r EXCEPT !.rows = (IF r.first THEN <<>> ELSE @) \o rows, !.first = FALSE]

\* A mutant: a load that sent no batch leaves the previous rows up.
FinishedKeepingRows(r, l) ==
    [r EXCEPT !.loading = FALSE, !.task = 0, !.failed = l.end = "error", !.first = FALSE,
              !.rows = IF l.tool = "none" /\ r.inPlace THEN r.staging ELSE @,
              !.inPlace = FALSE, !.staging = <<>>]

\* finish_directory_load_in_tab; a tool's Done only ends its task.
Finished(r, l) ==
    LET ended == [r EXCEPT !.loading = FALSE, !.task = 0, !.failed = l.end = "error"] IN
    CASE l.tool # "none" -> ended
      [] l.tool = "none" /\ r.inPlace ->
            [ended EXCEPT !.rows = r.staging, !.inPlace = FALSE, !.staging = <<>>, !.first = FALSE]
      [] l.tool = "none" /\ ~r.inPlace ->
            [ended EXCEPT !.rows = IF r.first THEN <<>> ELSE @, !.first = FALSE]

\* The pump takes what has arrived, up to a row budget, and applies it.
PumpSome(l) ==
    \E k \in 1..Len(l.chan) :
       /\ tab' = [tab EXCEPT ![l.tab] = Applied(@, l, SubSeq(l.chan, 1, k))]
       /\ loads' = With(l, [l EXCEPT !.chan = SubSeq(@, k + 1, Len(@))])
       /\ UNCHANGED tasks

PumpDone(l) ==
    /\ l.end # "reading"
    /\ tab' = [tab EXCEPT ![l.tab] = Finished(Applied(@, l, l.chan), l)]
    /\ loads' = loads \ {l}
    /\ tasks' = tasks \ {<<l.tab, tab[l.tab].task>>}

\* A stale pump stops; its channel closes, and the worker's next send fails.
PumpStale(l) ==
    /\ l.chan # <<>> \/ l.end # "reading"
    /\ loads' = loads \ {l}
    /\ UNCHANGED <<tab, tasks>>

Pump(l) ==
    /\ IF Stale(l) THEN PumpStale(l) ELSE PumpSome(l) \/ PumpDone(l)
    /\ UNCHANGED <<disk, window, watcher, loop, moves>>

----------------------------------------------------------------------------
(* The watcher and the poll loops. *)

\* A change under a watch queues an event, or overflows the platform's queue,
\* which notify reports as an event without paths.
Change(d) ==
    /\ disk[d] < MaxChanges[d]
    /\ disk' = [disk EXCEPT ![d] = @ + 1]
    /\ IF d \in osWatched
       THEN /\ noticed' = [noticed EXCEPT ![d] = disk[d] + 1]
            /\ \E e \in {d, Rescan} : events' = events \cup {e}
       ELSE UNCHANGED <<noticed, events>>
    /\ UNCHANGED <<window, tab, loads, tasks, osWatched, mirror, commands, loop, moves>>

\* The fs-watcher worker: a directory that does not answer stays unwatched.
RunCommand ==
    /\ commands # <<>>
    /\ commands' = Tail(commands)
    /\ \E refused \in SUBSET ((Head(commands).watch \cap Unreliable) \ osWatched) :
          osWatched' = (osWatched \cup (Head(commands).watch \ refused)) \cap Head(commands).retain
    /\ UNCHANGED <<disk, noticed, window, tab, loads, tasks, mirror, events, loop, moves>>

\* drain_reload_relevant_paths.
Drained == IF Rescan \in events THEN mirror ELSE events \cap mirror

\* The throttle window of a directory passes.
Elapse(w, d) ==
    /\ d \in loop[w].recent
    /\ loop' = [loop EXCEPT ![w].recent = @ \ {d}]
    /\ UNCHANGED <<disk, window, tab, loads, tasks, watcher, moves>>

\* A mutant: a tab that is loading is taken to be about to be current.
MatchingIdle(dirs) ==
    {t \in OpenTabs : tab[t].tool = "none" /\ tab[t].dir \in dirs /\ ~tab[t].loading}

\* reload_tabs_matching_paths, in every live window.
Matching(dirs) == {t \in OpenTabs : tab[t].tool = "none" /\ tab[t].dir \in dirs}

\* broadcast_reload_for_process.
Broadcast(dirs) ==
    IF Matching(dirs) = {}
    THEN UNCHANGED <<tab, loads, tasks, mirror, commands>>
    ELSE LoadPaths(Matching(dirs), [t \in Matching(dirs) |-> tab[t].dir], tab)

\* One turn of a window's poll loop.  The loop looks at its window only when
\* it has something to reload, after it has drained the shared channel.
Poll(w) ==
    LET pending == loop[w].pending \cup Drained
        due     == pending \ loop[w].recent
    IN
    /\ ~loop[w].stopped
    /\ events # {} \/ due # {}
    /\ events' = {}
    /\ loop' = [loop EXCEPT ![w] = [pending |-> pending \ due, recent |-> @.recent \cup due,
                                    stopped |-> due # {} /\ window[w] # "open"]]
    /\ IF window[w] = "open" THEN Broadcast(due)
                             ELSE UNCHANGED <<tab, loads, tasks, mirror, commands>>
    /\ UNCHANGED <<disk, noticed, window, osWatched, moves>>

----------------------------------------------------------------------------
\* Every tab has just been opened on a directory, and its first load begun.
NewTab(d) ==
    [dir |-> d, gen |-> 1, rows |-> <<>>, first |-> TRUE, inPlace |-> FALSE, staging |-> <<>>,
     loading |-> TRUE, task |-> 1, tool |-> "none", failed |-> FALSE, visited |-> {d}]

Init ==
    /\ tab = [t \in Tabs |-> NewTab(Start[t])]
    /\ loads = {NewLoad(t, 1, Start[t], "none") : t \in Tabs}
    /\ mirror = Range(Start)
    /\ commands = <<Request(Range(Start), Range(Start))>>
    /\ tasks = {<<t, 1>> : t \in Tabs}
    /\ disk = [d \in Dirs |-> 0]
    /\ noticed = [d \in Dirs |-> 0]
    /\ window = [w \in Windows |-> "open"]
    /\ osWatched = {}
    /\ events = {}
    /\ loop = [w \in Windows |-> [pending |-> {}, recent |-> {}, stopped |-> FALSE]]
    /\ moves = 0

User ==
    \/ \E t \in Tabs, d \in Dirs : Navigate(t, d) \/ GoBack(t, d)
    \/ \E t \in Tabs, k \in Tools : OpenTool(t, k)
    \/ \E t \in Tabs : Refresh(t) \/ CloseTool(t)
    \/ \E w \in Windows : CloseWindow(w) \/ CloseNatively(w)

Worker == \E l \in loads : ReadBatch(l) \/ EndRead(l) \/ FailRead(l)
Pumps == \E l \in loads : Pump(l)

Next ==
    \/ User
    \/ Worker
    \/ Pumps
    \/ RunCommand
    \/ \E d \in Dirs : Change(d)
    \/ \E w \in Windows : Poll(w) \/ \E d \in Dirs : Elapse(w, d)

Spec == Init /\ [][Next]_vars

\* Reads return, the executor runs every ready task, the watcher thread runs,
\* each poll loop wakes up and time passes.  Users and other programs owe
\* nothing.
Fairness ==
    /\ WF_vars(Worker)
    /\ WF_vars(Pumps)
    /\ WF_vars(RunCommand)
    /\ \A w \in Windows : WF_vars(Poll(w)) /\ WF_vars(\E d \in Dirs : Elapse(w, d))

FairSpec == Spec /\ Fairness

----------------------------------------------------------------------------
(* Properties *)

\* The rows of a tab come from one load, in the order its batches were read,
\* whatever older loads of the tab are still delivering.
RowsOfOneLoad ==
    \A t \in Tabs : \A i \in DOMAIN tab[t].rows :
       /\ tab[t].rows[i].part = i
       /\ tab[t].rows[i].gen = tab[t].rows[1].gen

\* The state is well formed, and the rows of a tab are those of one load.
ListingConsistent == TypeOK /\ RowsOfOneLoad

\* A tab that is not loading shows every batch of its latest load, of the
\* directory it says it is in, unless that read failed.
FinishedListingIsWhole ==
    \A t \in OpenTabs : ~tab[t].loading /\ ~tab[t].failed =>
       /\ \A i \in DOMAIN tab[t].rows :
             tab[t].rows[i].gen = tab[t].gen /\ tab[t].rows[i].dir = tab[t].dir
       /\ Len(tab[t].rows) \in {Batches[tab[t].dir]} \cup
                                 (IF tab[t].tool = "none" THEN {} ELSE {ToolBatches})

\* The registry's rows are the loads of the tabs of open windows: a load that
\* was superseded or dismissed leaves no row behind.
TasksMatchTabs(kept) ==
    \A t \in Tabs : kept \/ window[WindowOf[t]] # "abandoned" =>
       \A g \in 0..tab[t].gen :
          <<t, g>> \in tasks <=> IsOpen(t) /\ tab[t].loading /\ g = tab[t].gen
TasksEndWithTheirTab == TasksMatchTabs(FALSE)

\* dismiss_tab_work (shell.rs:7483): "ends its task-registry row so the status
\* bar doesn't show a ghost", for any window that goes away.
NoGhostTask == TasksMatchTabs(TRUE)

\* What a tab shows, or will show when its load is done: the batches its
\* current load has read, and the rows on screen if it is not loading.
BatchesRead(t) ==
    LET own == {l \in loads : l.tab = t /\ Current(l)}
        seen == Range(tab[t].rows) \cup Range(tab[t].staging) \cup UNION {Range(l.chan) : l \in own}
    IN  {b \in seen : b.gen = tab[t].gen}

\* A change of d is still to be answered by a window in ws.
OnItsWay(d, ws) == d \in Drained \/ \E w \in ws : d \in loop[w].pending

\* A change that happened under a watch is in every batch read of that
\* directory, or is on its way to a reload of every tab that shows it: the
\* drain, the throttle and the superseded loads lose none.
Surfaced ==
    \A t \in OpenTabs : tab[t].tool = "none" =>
       \/ \A b \in BatchesRead(t) : b.version >= noticed[tab[t].dir]
       \/ OnItsWay(tab[t].dir, {w \in Windows : window[w] = "open"})
ChangesSurface == (\A w \in Windows : window[w] = "open") => Surfaced

\* shell.rs:2208: "no change is lost", also once some window has been closed.
NoChangeIsLost == Surfaced

\* An in-place reload re-reads "the directory already on screen"
\* (shell.rs:5262): the rows it leaves up are that directory's.
InPlaceKeepsOwnRows ==
    \A t \in OpenTabs : tab[t].inPlace =>
       \A i \in DOMAIN tab[t].rows : tab[t].rows[i].dir = tab[t].dir

\* Once gestures and changes stop, every tab of every window stops loading and
\* shows the last change a watch noticed.
UpToDate(t) ==
    /\ ~tab[t].loading
    /\ tab[t].tool = "none" => \A b \in BatchesRead(t) : b.version >= noticed[tab[t].dir]
ListingsCatchUp ==
    <>[]((\A w \in Windows : window[w] = "open") => \A t \in Tabs : UpToDate(t))
============================================================================
