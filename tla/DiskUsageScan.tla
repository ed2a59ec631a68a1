--------------------------- MODULE DiskUsageScan ---------------------------
(***************************************************************************)
(* The scans of the Disk Usage views (ferail-gpui/src/disk_usage.rs): the  *)
(* view, the worker of each scan with its bounded queue, and the loop that *)
(* drains the queue into the view.  A worker of the Fast NTFS engine calls *)
(* run_fast_ntfs (NtfsHelper) and falls back to the portable walk.         *)
(*                                                                         *)
(* A scan is named by the number its identity range is drawn from, and its *)
(* worker, its cancel flag and its queue belong to it alone.  Batches are  *)
(* counted, not listed: what is in them only matters for who sent them.    *)
(***************************************************************************)
EXTENDS NtfsHelper

CONSTANTS Views,
          Engines,        \* the engines the platform and the volume offer
          PortableRows,   \* the batches of a complete portable walk
          QueueCap,       \* DU_QUEUE_CAP
          MaxPerTick      \* DU_MAX_MSGS_PER_TICK

ASSUME DuAssumption ==
    /\ Engines \subseteq {"fast", "portable"}
    /\ {QueueCap, MaxPerTick} \subseteq Nat \ {0}
    /\ PortableRows \in Nat

Scans == Calls

VARIABLES view,      \* the views
          worker,    \* the worker of each scan
          queue,     \* msg_queue of each scan
          drain,     \* the drain loop of each scan
          tasks      \* the scans that have a row in the task registry
duVars == <<view, worker, queue, drain, tasks>>
vars == <<ntfsVars, duVars>>

NoTree == [fast |-> 0, portable |-> 0]
Empty(engine) == [active |-> engine, complete |-> FALSE, failed |-> FALSE, tree |-> NoTree]
NoView == [live |-> FALSE, scan |-> 0, generation |-> 0, stopped |-> FALSE,
           shows |-> Empty("portable")]

\* The scan whose messages the view takes: cancel_scan moves the generation on.
Owns(v, s) == view[v].live /\ view[v].scan = s /\ ~view[v].stopped

----
(* The view.                                                               *)

\* Mutant: the registry row of the scan that is replaced stays.
TasksPiledUp(v, s) == tasks \cup {s}

TasksAfterStart(v, s) == (tasks \ {view[v].scan}) \cup {s}

\* start_scan with a fresh arena, tree, flag and queue (new, restart_scan).
StartScan(v, s, engine) ==
    /\ worker[s].at = "none" /\ \A k \in Scans : k < s => worker[k].at # "none"
    /\ view' = [view EXCEPT ![v] =
          [NoView EXCEPT !.live = TRUE, !.scan = s, !.shows = Empty(engine),
                         !.generation = view[v].generation + 1]]
    /\ worker' = [worker EXCEPT ![s].at = engine, ![s].view = v]
    /\ drain' = [drain EXCEPT ![s] = "running"]
    /\ tasks' = TasksAfterStart(v, s)
    /\ IF engine = "fast" THEN Run(s, view[v].generation + 1) ELSE UNCHANGED call
    /\ UNCHANGED <<lock, session, helper, open, toHelper, toClient, queue>>

OpenView(v) ==
    /\ ~view[v].live
    /\ \E s \in Scans, engine \in Engines : StartScan(v, s, engine)
    /\ UNCHANGED cancelled

\* Refresh, or another engine.
RestartScan(v) ==
    /\ view[v].live
    /\ \E s \in Scans, engine \in Engines : StartScan(v, s, engine)
    /\ cancelled' = cancelled \cup {view[v].scan}

CancelScan(v) ==
    /\ view[v].live /\ ~view[v].shows.complete
    /\ cancelled' = cancelled \cup {view[v].scan}
    /\ view' = [view EXCEPT ![v].stopped = TRUE, ![v].shows.complete = TRUE,
                           ![v].generation = @ + 1]
    /\ tasks' = tasks \ {view[v].scan}
    /\ UNCHANGED <<call, lock, session, helper, open, toHelper, toClient, worker, queue, drain>>

CloseView(v) ==
    /\ view[v].live
    /\ cancelled' = cancelled \cup {view[v].scan}
    /\ view' = [view EXCEPT ![v] = NoView]
    /\ tasks' = tasks \ {view[v].scan}
    /\ UNCHANGED <<call, lock, session, helper, open, toHelper, toClient, worker, queue, drain>>

----
(* The worker.                                                             *)

Works(s, at) == worker' = [worker EXCEPT ![s].at = at, ![s].rows = 0]

\* Mutant: a full queue drops the message.
PushesOrDrops(s, msg) ==
    queue' = IF Len(queue[s]) < QueueCap THEN [queue EXCEPT ![s] = Append(@, msg)] ELSE queue

\* push_scan_msg: a message waits for room in the queue of the scan, and is
\* dropped once the scan is cancelled.
Pushes(s, msg) ==
    \/ s \in cancelled /\ UNCHANGED queue
    \/ /\ s \notin cancelled /\ Len(queue[s]) < QueueCap
       /\ queue' = [queue EXCEPT ![s] = Append(@, msg)]

WorkerOnly == UNCHANGED <<cancelled, lock, session, helper, open, toHelper, toClient, view, drain, tasks>>

\* The on_event callback of run_fast_ntfs returns when the batch is pushed.  (The
\* batch that Ready pushes holds the root alone, which either engine sends.)
OnEvent(s) ==
    /\ worker[s].at = "fast" /\ call[s].batch
    /\ Pushes(s, "fast")
    /\ Handled(s)
    /\ WorkerOnly /\ UNCHANGED worker

\* Mutant: the rows of the failed scan are left for the portable one.
FallBackKeepingRows(s) == UNCHANGED queue /\ Works(s, "portable")

\* ResetForFallback, then the portable walk.
FallBack(s) == Pushes(s, "reset") /\ Works(s, "portable")

AfterFastScan(s) ==
    /\ worker[s].at = "fast" /\ call[s].at = "returned"
    /\ CASE call[s].result = "complete" -> Pushes(s, "done") /\ Works(s, "ended")
         [] call[s].result # "complete" /\ s \notin cancelled -> FallBack(s)
         [] OTHER -> Works(s, "ended") /\ UNCHANGED queue
    /\ call' = [call EXCEPT ![s] = Idle]
    /\ WorkerOnly

\* scan_disk_usage_local: batches, then Done, with an error if a read failed.
PortableScan(s) ==
    /\ worker[s].at = "portable"
    /\ \/ /\ s \notin cancelled /\ worker[s].rows < PortableRows
          /\ Pushes(s, "portable")
          /\ worker' = [worker EXCEPT ![s].rows = @ + 1]
       \/ /\ s \in cancelled \/ worker[s].rows = PortableRows
          /\ Pushes(s, "done")
          /\ Works(s, "ended")
       \/ Pushes(s, "error") /\ Works(s, "ended")
    /\ WorkerOnly /\ UNCHANGED call

----
(* The drain loop.                                                         *)

Applied(shown, msg) ==
    CASE msg \in {"fast", "portable"} -> [shown EXCEPT !.tree[msg] = @ + 1]
      [] msg = "reset" -> [shown EXCEPT !.tree = NoTree, !.active = "portable", !.failed = FALSE]
      [] msg \in {"done", "error"} -> [shown EXCEPT !.complete = TRUE, !.failed = (msg = "error")]

\* The messages of a tick, in their order: FoldLeft, in a form the provers can
\* reason about.
AppliedAll(shown, msgs) ==
    LET after[k \in 0..Len(msgs)] == IF k = 0 THEN shown ELSE Applied(after[k - 1], msgs[k])
    IN  after[Len(msgs)]

Terminal(msgs) == \E k \in DOMAIN msgs : msgs[k] \in {"done", "error"}

\* Mutant: the messages of an older generation are applied as well.
AppliesAnyway(s) == view[worker[s].view].live

AppliesTo(s) == Owns(worker[s].view, s)

\* A tick that finds nothing in the queue looks no further.  The queue of a
\* loop that has ended is dropped.  (Ticks that wait for a filter worker to
\* give the tree back are ticks that come later.)
Drain(s) ==
    /\ drain[s] = "running" /\ queue[s] # <<>>
    /\ LET v == worker[s].view
           n == IF Len(queue[s]) < MaxPerTick THEN Len(queue[s]) ELSE MaxPerTick
           msgs == SubSeq(queue[s], 1, n)
           ends == Terminal(msgs) \/ ~AppliesTo(s)
       IN /\ queue' = [queue EXCEPT ![s] = IF ends THEN <<>> ELSE SubSeq(@, n + 1, Len(@))]
          /\ drain' = IF ends THEN [drain EXCEPT ![s] = "ended"] ELSE drain
          /\ IF AppliesTo(s)
             THEN /\ view' = [view EXCEPT ![v].shows = AppliedAll(@, msgs)]
                  /\ tasks' = IF Terminal(msgs) THEN tasks \ {view[v].scan} ELSE tasks
             ELSE UNCHANGED <<view, tasks>>
    /\ UNCHANGED <<ntfsVars, worker>>

----
Init ==
    /\ NtfsInit
    /\ view = [v \in Views |-> NoView]
    /\ worker = [s \in Scans |-> [at |-> "none", view |-> "none", rows |-> 0]]
    /\ queue = [s \in Scans |-> <<>>] /\ drain = [s \in Scans |-> "none"]
    /\ tasks = {}

User(v) == OpenView(v) \/ RestartScan(v) \/ CancelScan(v) \/ CloseView(v)

FastScan(s) == Client(s) /\ UNCHANGED duVars
Helper(h) == HelperRuns(h) /\ UNCHANGED duVars
Crash(h) == HelperDies(h) /\ UNCHANGED duVars

Worker(s) == OnEvent(s) \/ AfterFastScan(s) \/ PortableScan(s)

Next ==
    \/ \E v \in Views : User(v)
    \/ \E s \in Scans : FastScan(s) \/ Worker(s) \/ Drain(s)
    \/ \E h \in Helpers : Helper(h) \/ Crash(h)

Spec == Init /\ [][Next]_vars

\* Threads run, timers fire and the deadlines of the client pass.  The user owes
\* nothing but an answer to the elevation prompt; nobody owes a crash.
FairSpec ==
    /\ Spec
    /\ \A s \in Scans : WF_vars(FastScan(s)) /\ WF_vars(Worker(s)) /\ WF_vars(Drain(s))
    /\ \A h \in Helpers : WF_vars(Helper(h))

----
(* Properties.                                                             *)

TypeOK ==
    /\ \A c \in Calls : call[c].result \in {"none", "complete", "cancelled", "declined", "failed",
                                            "timeout", "platform", "protocol"}
    /\ lock \in Calls \cup {NoCall} /\ session \in Helpers \cup {0}
    /\ cancelled \subseteq Calls /\ open \subseteq Helpers /\ tasks \subseteq Scans
    /\ \A s \in Scans : Len(queue[s]) <= QueueCap
    /\ \A h \in Helpers : Len(toClient[h]) <= PipeFrames + 1

\* While no call holds the lock, the cached helper waits for a Start with
\* both directions of its pipe empty, or has died; there is never a
\* second pipe.
SessionReusable ==
    /\ open = {session} \ {0}
    /\ session # 0 /\ lock = NoCall =>
          /\ toHelper[session] = <<>> /\ toClient[session] = <<>>
          /\ ~Gone(session) => helper[session].at = "awaiting"

\* "No subsequent Start may race with the cancellation reader" (helper.rs:66).
StartIsForTheLoop ==
    \A h \in Helpers : ~Gone(h) /\ toHelper[h] # <<>> /\ Head(toHelper[h]).kind = "Start"
        => helper[h].reader \notin {"spawned", "reading"}

\* A scan the client takes for complete brought every row, and the client reads
\* nothing it would call a protocol error but the remains of a write that
\* was given up.
ResultsAreEarned ==
    \A c \in Calls :
        /\ call[c].result = "complete" => call[c].rows = FastRows
        /\ lock = c /\ Reading(c) /\ toClient[session] # <<>> =>
              \/ Accepts(c, Head(toClient[session]))
              \/ Head(toClient[session]).kind \in {"Failed", "torn"}

ProtocolSafe == TypeOK /\ SessionReusable /\ StartIsForTheLoop /\ ResultsAreEarned

\* What a finished scan shows is one complete tree of one engine: nothing of
\* an older scan of the view, nothing twice, and no row the Fast engine
\* sent before the view fell back to the portable one (WINDOWS_FAST_NTFS.md:75, and
\* "partial Fast rows are discarded", WINDOWS_RELIABILITY_TEST_PLAN.md:620).
TreeIsOneScan ==
    \A v \in Views :
        LET shown == view[v].shows
        IN view[v].live /\ shown.complete /\ ~view[v].stopped /\ ~shown.failed =>
              shown.tree = IF shown.active = "fast" THEN [fast |-> FastRows, portable |-> 0]
                                                    ELSE [fast |-> 0, portable |-> PortableRows]

\* The registry has a row for exactly the scans that a live view waits for.
TasksAreScans == tasks = {view[v].scan : v \in {u \in Views : view[u].live /\ ~view[u].shows.complete}}

\* Every scan comes to an end that its view shows, whatever the helper and the
\* other views do, unless it is closed or restarted first.
ScansSettle ==
    \A v \in Views, s \in Scans :
        Owns(v, s) ~> view[v].shows.complete \/ ~Owns(v, s)

\* No helper process outlives its session, even if Windows refuses to
\* terminate it and although its scan may be anywhere (WINDOWS_FAST_NTFS.md:364).
NoOrphan == \A h \in Helpers : helper[h].at # "absent" /\ h \notin open ~> Gone(h)

\* "The drain task sees a stale generation at its next tick and breaks"
\* (disk_usage.rs:1279).
DrainLoopsEnd == \A s \in Scans : drain[s] = "running" /\ s \in cancelled ~> drain[s] = "ended"
=============================================================================
