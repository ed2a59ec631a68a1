---------------------------- MODULE FolderSizes ----------------------------
(***************************************************************************)
(* The folder sizes of the Size column (ferail-gpui/src/folder_sizes.rs):  *)
(* the passes over the folders of a listing, their cache in the metadata   *)
(* database, Get Info's Calculate, and the invalidation of the cache by    *)
(* changes the program knows of (shell.rs).                                *)
(*                                                                         *)
(* A size is the versions of the directories it was summed from.  A pass   *)
(* owns the walk of its own number, one folder after another.              *)
(***************************************************************************)
EXTENDS DirectoryWalk, TLC

CONSTANTS Tabs, NoTab,
          Places,          \* the directories the user goes to or asks Get Info about
          Pooled,          \* the passes whose folders get more than one worker
          ChannelBatches,  \* SIZE_CHANNEL_BATCHES
          MaxChanges       \* bound: how often each directory changes

ASSUME PassesAssumption ==
    /\ Walks \subseteq Nat \ {0}
    /\ NoTab \notin Tabs /\ Places \subseteq Dirs
    /\ ChannelBatches \in Nat \ {0} /\ MaxChanges \in [Dirs -> Nat]

Passes == Walks

VARIABLES mtime,       \* the modification time of each directory
          cache,       \* the folder_sizes table
          reports,     \* the directories whose invalidation is on its way
          settled,     \* history: the version each directory's last invalidation was for
          tab, pass,
          tasks        \* the passes that have a row in the task registry
vars == <<version, walk, cancelled, mtime, cache, reports, settled, tab, pass, tasks>>

NoRow == [mtime |-> 0, parts |-> Read, known |-> FALSE, overtaken |-> FALSE]
NoPass == [at |-> "none", tab |-> NoTab, gen |-> 0, force |-> FALSE, seeds |-> {},
           mtimes |-> Read, misses |-> {}, ready |-> {}, folder |-> NoDir,
           channel |-> <<>>, heard |-> FALSE, overtaken |-> FALSE]

Over(r) == [NoPass EXCEPT !.at = "ended", !.tab = r.tab, !.gen = r.gen,
                          !.channel = r.channel, !.heard = r.heard]

Row(f, parts) == [folder |-> f, parts |-> parts]
Snapshot(folders) == [f \in folders |-> mtime[f]]

----
(* The tabs.                                                               *)

Nothing == [d \in Dirs |-> 0]
NoRows == [f \in {} |-> Read]
Disk == <<version, mtime>>
Cache == <<cache, reports, settled>>

\* The pass a tab can cancel; the flag of one that is over is nobody's.
PassOf(t) == {p \in Passes : tab[t].pass = p /\ pass[p].at # "ended"}

\* start: the folders of the listing become seeds, and the pass a task.
Begun(r, t) ==
    IF Children[t.dir] = {} THEN Over(r)
    ELSE [r EXCEPT !.at = "sweep", !.seeds = Children[t.dir], !.mtimes = t.mtimes,
                   !.heard = TRUE]
TasksWith(p, r) == IF r.heard THEN tasks \cup {p} ELSE tasks

\* A pass of tab t in the place of the one it had, whose flag is set.  A forced
\* one begins at once.
NewPass(t, r, force) ==
    \E p \in Passes :
        LET new == [NoPass EXCEPT !.at = "idling", !.tab = t, !.gen = r.gen, !.force = force]
        IN /\ pass[p].at = "none" /\ \A q \in Passes : q < p => pass[q].at # "none"
           /\ pass' = [pass EXCEPT ![p] = IF force THEN Begun(new, r) ELSE new]
           /\ tasks' = TasksWith(p, pass'[p])
           /\ tab' = [tab EXCEPT ![t] = [r EXCEPT !.pass = p]]
           /\ cancelled' = cancelled \cup PassOf(t)

\* load_path_for_tab up to the end of its listing, which begins a pass.  (The
\* old pass is cancelled when the load begins; it may take any of its steps
\* after that one.)
Load(t, d, force) ==
    /\ tab[t].open
    /\ NewPass(t, [tab[t] EXCEPT !.dir = d, !.gen = @ + 1, !.forced = force,
                                 !.mtimes = Snapshot(Children[d]), !.shown = NoRows,
                                 !.since = IF force THEN version ELSE Nothing], force)
    /\ UNCHANGED <<Disk, walk, Cache>>

Navigate(t, d) == Load(t, d, FALSE)
Refresh(t)     == Load(t, tab[t].dir, TRUE)

\* restart_folder_size_passes: the window comes back, or sizing is switched on.
Restart(t) ==
    /\ tab[t].open
    /\ NewPass(t, [tab[t] EXCEPT !.forced = FALSE], FALSE)
    /\ UNCHANGED <<Disk, walk, Cache>>

\* A closed tab cancels its pass, unless its window goes the native way.
Close(t) ==
    /\ tab[t].open
    /\ tab' = [tab EXCEPT ![t] = [@ EXCEPT !.open = FALSE, !.forced = FALSE, !.shown = NoRows]]
    /\ cancelled' \in {cancelled, cancelled \cup PassOf(t)}
    /\ UNCHANGED <<Disk, walk, Cache, pass, tasks>>

\* calculate_size (entry_info.rs), which folder_size_cached answers.
Calculate(t, f) ==
    /\ tab[t].open /\ f \in Children[tab[t].dir]
    /\ \E p \in Passes :
          /\ pass[p].at = "none" /\ \A q \in Passes : q < p => pass[q].at # "none"
          /\ pass' = [pass EXCEPT ![p] = [NoPass EXCEPT !.at = "sweep", !.seeds = {f},
                                                        !.mtimes = Snapshot({f})]]
    /\ UNCHANGED <<Disk, walk, cancelled, Cache, tab, tasks>>

\* Get Info turns to another item or goes away.
CancelInfo(p) ==
    /\ pass[p].at \notin {"none", "ended"} /\ pass[p].tab = NoTab /\ p \notin cancelled
    /\ cancelled' = cancelled \cup {p}
    /\ UNCHANGED <<Disk, walk, Cache, tab, pass, tasks>>

----
(* Changes of the directories, and what the program hears of them.         *)

\* The time of a directory is that of a change to it, in seconds.  The program
\* hears of what it does itself and of what happens in a directory it shows; a
\* change it never hears of is a report that stays on its way.
Change(d) ==
    /\ version[d] < MaxChanges[d]
    /\ version' = [version EXCEPT ![d] = @ + 1]
    /\ mtime' \in {mtime, [mtime EXCEPT ![d] = @ + 1]}
    /\ reports' = reports \cup {d}
    /\ UNCHANGED <<walk, cancelled, cache, settled, tab, pass, tasks>>

Above(d) == {f \in Dirs : d \in Subtree[f]}

\* A walk that is over, or under way, when an invalidation comes.
Walking(p) == pass[p].at \in {"walking", "storing"}

\* Mutant: the row of the directory goes, the rows above it stay.
StaleRowsHere(d) == {d}

\* invalidate_folder_size_ancestors.
StaleRows(d) == Above(d)

\* The deletions of one broadcast, made under one lock.  Tabs that show the
\* directory reload; a Navigate to where they are is that step.
Invalidate(d) ==
    /\ d \in reports
    /\ reports' = reports \ {d}
    /\ settled' = [settled EXCEPT ![d] = version[d]]
    /\ cache' = [f \in Dirs |-> IF f \in StaleRows(d) THEN NoRow ELSE cache[f]]
    /\ pass' = [p \in Passes |-> IF Walking(p) /\ pass[p].folder \in Above(d)
                                 THEN [pass[p] EXCEPT !.overtaken = TRUE] ELSE pass[p]]
    /\ UNCHANGED <<Disk, walk, cancelled, tab, tasks>>

----
(* The worker of a pass (run_worker, folder_size_cached).                  *)

\* Mutant: rows are applied to whatever the tab shows by now.
FreshEnough(p) == tab[pass[p].tab].open

Listed(p) == pass[p].tab # NoTab

\* Both ends of a pass check that the tab is still where it was.
Fresh(p) == tab[pass[p].tab].open /\ tab[pass[p].tab].gen = pass[p].gen
WorkerOnly == UNCHANGED <<Disk, reports, settled, tab, cancelled>>
Goes(p, at) == pass' = [pass EXCEPT ![p].at = at]
Ends(p) == pass' = [pass EXCEPT ![p] = Over(@)]

\* start_when_idle gives a pass up that has been overtaken before it began.
GiveUp(p) ==
    /\ pass[p].at = "idling" /\ (p \in cancelled \/ ~Fresh(p))
    /\ Ends(p)
    /\ WorkerOnly /\ UNCHANGED <<walk, cache, tasks>>

Start(p) ==
    /\ pass[p].at = "idling" /\ p \notin cancelled /\ Fresh(p)
    /\ pass' = [pass EXCEPT ![p] = Begun(@, tab[@.tab])]
    /\ tasks' = TasksWith(p, pass'[p])
    /\ WorkerOnly /\ UNCHANGED <<walk, cache>>

Hit(p, f) ==
    /\ ~pass[p].force
    /\ cache[f].known /\ cache[f].mtime = pass[p].mtimes[f]

\* The sweep looks every folder up, under the lock of the database.  A row may
\* be too old by now (FOLDER_SIZE_TTL_SECS).
Sweep(p) ==
    /\ pass[p].at = "sweep" /\ ~(Listed(p) /\ p \in cancelled)
    /\ \E f \in pass[p].seeds :
          \/ /\ Hit(p, f)
             /\ pass' = [pass EXCEPT ![p].seeds = @ \ {f},
                                     ![p].ready = @ \cup {Row(f, cache[f].parts)}]
          \/ pass' = [pass EXCEPT ![p].seeds = @ \ {f}, ![p].misses = @ \cup {f}]
    /\ WorkerOnly /\ UNCHANGED <<walk, cache, tasks>>

\* A batch waits for room in the channel; once the receiver is gone, the worker
\* returns.
Sent(p, at) ==
    \/ /\ ~pass[p].heard
       /\ Ends(p)
    \/ /\ pass[p].heard /\ Len(pass[p].channel) < ChannelBatches
       /\ LET r == [pass[p] EXCEPT !.at = at, !.ready = {},
                                     !.channel = Append(@, pass[p].ready)]
          IN pass' = [pass EXCEPT ![p] = IF at = "ended" THEN Over(r) ELSE r]

\* The hits go in batches, the last of them before the first walk.
SendHits(p) ==
    /\ pass[p].at = "sweep"
    /\ IF Listed(p) /\ pass[p].ready # {}
       THEN Sent(p, "sweep")
       ELSE pass[p].seeds = {} /\ Goes(p, "next")
    /\ WorkerOnly /\ UNCHANGED <<walk, cache, tasks>>

\* A pass that is cancelled leaves before its next folder, with the rows it has
\* not sent.
Abandon(p) ==
    /\ Listed(p) /\ p \in cancelled
    /\ \/ pass[p].at = "sweep" /\ pass[p].seeds # {}
       \/ pass[p].at = "next" /\ pass[p].misses # {}
    /\ Ends(p)
    /\ WorkerOnly /\ UNCHANGED <<walk, cache, tasks>>

WalkNext(p) ==
    /\ pass[p].at = "next" /\ ~(Listed(p) /\ p \in cancelled)
    /\ \E f \in Dirs :
          /\ f \in pass[p].misses
          /\ pass' = [pass EXCEPT ![p].at = "walking", ![p].folder = f, ![p].misses = @ \ {f},
                                  ![p].overtaken = FALSE]
          /\ Begins(p, f, p \notin Pooled)
    /\ WorkerOnly /\ UNCHANGED <<cache, tasks>>

\* Mutant: what a cancelled walk has summed so far is kept.
WalkedAnyway(p) ==
    /\ pass[p].at = "walking" /\ walk[p].at = "returned"
    /\ Goes(p, "storing")
    /\ WorkerOnly /\ UNCHANGED <<walk, cache, tasks>>

\* The sum of a cancelled walk is dropped.
Walked(p) ==
    /\ pass[p].at = "walking" /\ walk[p].at = "returned"
    /\ IF p \in cancelled
       THEN Ends(p) /\ walk' = [walk EXCEPT ![p] = NoWalk]
       ELSE Goes(p, "storing") /\ UNCHANGED walk
    /\ WorkerOnly /\ UNCHANGED <<cache, tasks>>

\* upsert_folder_size, after which the row may wait for others.
Store(p) ==
    /\ pass[p].at = "storing"
    /\ LET f == pass[p].folder
       IN /\ cache' = [cache EXCEPT ![f] = [mtime |-> pass[p].mtimes[f], parts |-> walk[p].total,
                                            known |-> TRUE, overtaken |-> pass[p].overtaken]]
          /\ pass' = [pass EXCEPT ![p].at = "stored", ![p].ready = @ \cup {Row(f, walk[p].total)}]
    /\ walk' = [walk EXCEPT ![p] = NoWalk]
    /\ WorkerOnly /\ UNCHANGED tasks

\* The rows are sent if they are many or late, and at the end.
AfterStore(p) ==
    /\ pass[p].at = "stored"
    /\ \/ Goes(p, "next")
       \/ Listed(p) /\ Sent(p, "next")
    /\ WorkerOnly /\ UNCHANGED <<walk, cache, tasks>>

LastRows(p) ==
    /\ pass[p].at = "next" /\ pass[p].misses = {}
    /\ IF Listed(p) /\ pass[p].ready # {} THEN Sent(p, "ended") ELSE Ends(p)
    /\ WorkerOnly /\ UNCHANGED <<walk, cache, tasks>>

PassWorker(p) ==
    \/ GiveUp(p) \/ Start(p) \/ Sweep(p) \/ SendHits(p) \/ Abandon(p) \/ WalkNext(p)
    \/ Walked(p) \/ Store(p) \/ AfterStore(p) \/ LastRows(p)

----
(* The receiver of a pass.                                                 *)

Shown(rows, before) ==
    LET now == {r.folder : r \in rows}
    IN [f \in now \cup DOMAIN before |->
            IF f \in now THEN (CHOOSE r \in rows : r.folder = f).parts ELSE before[f]]

\* A batch is applied if the tab is still where it was when the pass began;
\* else the receiver goes, and with it the rows that are on their way.
Receives(p) ==
    /\ pass[p].heard /\ pass[p].channel # <<>>
    /\ IF Fresh(p)
       THEN /\ tab' = [tab EXCEPT ![pass[p].tab].shown = Shown(Head(pass[p].channel), @)]
            /\ pass' = [pass EXCEPT ![p].channel = Tail(@)]
            /\ UNCHANGED tasks
       ELSE /\ pass' = [pass EXCEPT ![p].channel = <<>>, ![p].heard = FALSE]
            /\ tasks' = tasks \ {p}
            /\ UNCHANGED tab
    /\ UNCHANGED <<Disk, walk, cancelled, Cache>>

\* Mutant: the row goes down only if the pass has not been cancelled.
HangsUpUnlessCancelled(p) ==
    /\ pass[p].heard /\ pass[p].channel = <<>> /\ pass[p].at = "ended"
    /\ pass' = [pass EXCEPT ![p].heard = FALSE]
    /\ tasks' = IF p \in cancelled THEN tasks ELSE tasks \ {p}
    /\ UNCHANGED <<Disk, walk, cancelled, Cache, tab>>

\* The channel is closed and empty.
HangsUp(p) ==
    /\ pass[p].heard /\ pass[p].channel = <<>> /\ pass[p].at = "ended"
    /\ pass' = [pass EXCEPT ![p].heard = FALSE]
    /\ tasks' = tasks \ {p}
    /\ UNCHANGED <<Disk, walk, cancelled, Cache, tab>>

Receiver(p) == Receives(p) \/ HangsUp(p)

----
Init ==
    /\ version = [d \in Dirs |-> 0] /\ mtime = [d \in Dirs |-> 0]
    /\ settled = [d \in Dirs |-> 0] /\ reports = {}
    /\ cache = [f \in Dirs |-> NoRow]
    /\ walk = [p \in Passes |-> NoWalk] /\ cancelled = {}
    /\ pass = [p \in Passes |-> NoPass] /\ tasks = {}
    /\ \E start \in [Tabs -> Places] :
          tab = [t \in Tabs |-> [open |-> TRUE, dir |-> start[t], gen |-> 0, pass |-> 0,
                                 forced |-> FALSE, mtimes |-> Snapshot(Children[start[t]]),
                                 since |-> Nothing,
                                 shown |-> NoRows]]

User ==
    \/ \E t \in Tabs : Refresh(t) \/ Restart(t) \/ Close(t) \/ \E d \in Places : Navigate(t, d)
    \/ \E t \in Tabs, f \in Dirs : Calculate(t, f)
    \/ \E p \in Passes : CancelInfo(p)

WalkSteps(p) ==
    /\ Coordinator(p) \/ \E k \in Workers : Worker(p, k)
    /\ UNCHANGED <<Disk, cancelled, Cache, tab, pass, tasks>>

Program == \E p \in Passes : PassWorker(p) \/ WalkSteps(p) \/ Receiver(p)

Next ==
    \/ User
    \/ \E d \in Dirs : Change(d) \/ Invalidate(d)
    \/ Program

Spec == Init /\ [][Next]_vars

----
(* Properties.                                                             *)

TypeOK ==
    /\ \A p \in Passes :
          /\ pass[p].at \in {"none", "idling", "sweep", "next", "walking", "storing", "stored",
                             "ended"}
          /\ Len(pass[p].channel) <= ChannelBatches
          /\ walk[p].pending \in Nat
    /\ cancelled \subseteq Passes /\ tasks \subseteq Passes /\ reports \subseteq Dirs
    /\ \A t \in Tabs : tab[t].pass \in Passes \cup {0}

\* A size is kept or shown only if it was summed over the whole tree below its
\* folder: "a cancelled walk returns a partial sum, neither cacheable nor
\* showable" (folder_sizes.rs:418), whoever cancels it and when, and a walk
\* that is not cancelled misses no directory, counts what is pending
\* exactly and leaves no worker blocked (directory_reader.rs, walk).
SizesAreWhole ==
    /\ TypeOK
    /\ PendingIsExact /\ NobodyIsLeftBlocked /\ WholeUnlessCancelled
    /\ \A f \in Dirs : cache[f].known => DOMAIN cache[f].parts = Subtree[f]
    /\ \A t \in Tabs : \A f \in DOMAIN tab[t].shown :
          f \in Children[tab[t].dir] /\ DOMAIN tab[t].shown[f] = Subtree[f]

\* Refresh is the user asking for the measurement (folder_sizes.rs:136): until
\* the next load or restart, every size the tab shows was read after it,
\* whatever rows and older passes are about.
RefreshMeasures ==
    \A t \in Tabs : tab[t].forced =>
        \A f \in DOMAIN tab[t].shown : \A d \in DOMAIN tab[t].shown[f] :
            tab[t].shown[f][d] >= tab[t].since[d]

\* After the invalidation of a change, no row of the directory or of one above
\* it is from before the change (folder_sizes.rs:22), except one whose walk
\* was under way when the invalidation came.
KnownChanges(overtaken) ==
    \A f \in Dirs : cache[f].known /\ ~(overtaken /\ cache[f].overtaken) =>
        \A d \in DOMAIN cache[f].parts : cache[f].parts[d] >= settled[d]
InvalidationHolds == KnownChanges(TRUE)

\* Without the exception, as "every mutation deletes the cached size ... so the
\* next visit recomputes" has it.
InvalidationIsFinal == KnownChanges(FALSE)

\* Wherever only the user and the file system can move, every pass is over, its
\* row has left the task registry and no walk waits for its workers or they
\* for it.  The program's own steps cannot go on for ever (every one of them
\* uses up a seed, a folder, an event or a batch), so every pass ends.
PassesEnd ==
    ~ENABLED Program =>
        /\ tasks = {}
        /\ \A p \in Passes : pass[p].at \in {"none", "ended"} /\ walk[p].at = "none"
=============================================================================
