--------------------------- MODULE DirectoryWalk ---------------------------
(***************************************************************************)
(* The recursive walk of ferail-fs-native (directory_reader.rs, walk) with *)
(* the visitor of recursive_totals (disk_usage_scanner.rs): one thread     *)
(* reads the tree, or a pool of workers reads directories for a            *)
(* coordinator, which alone decides what to descend into.                  *)
(*                                                                         *)
(* What a walk knows of a directory is the version it has read.  The order *)
(* of the work queue tells nothing apart, so the queue is a set; the       *)
(* Started events, which this visitor ignores, are left out.               *)
(***************************************************************************)
EXTENDS Naturals, Sequences, FiniteSets

CONSTANTS Walks, Workers,
          Dirs, Children,   \* the tree: the directories below each directory
          NoDir

ASSUME TreeAssumption ==
    /\ IsFiniteSet(Dirs) /\ NoDir \notin Dirs
    /\ Children \in [Dirs -> SUBSET Dirs]
    /\ \A d, e \in Dirs : d # e => Children[d] \cap Children[e] = {}
    /\ \E depth \in [Dirs -> 0..Cardinality(Dirs)] :
          \A d \in Dirs : \A e \in Children[d] : depth[d] < depth[e]
ASSUME WorkersAssumption == IsFiniteSet(Workers) /\ Workers # {}

VARIABLES version,     \* what each directory holds now
          walk,        \* the walks
          cancelled    \* the walks whose cancel flag is set

Read == [d \in {} |-> 0]
Resting == [at |-> "waiting", dir |-> NoDir]
NoWalk == [at |-> "none", root |-> NoDir, queue |-> {}, stopped |-> FALSE,
           hands |-> [k \in Workers |-> Resting], events |-> <<>>,
           pending |-> 0, applied |-> FALSE, total |-> Read]

Add(total, d, v) == [e \in DOMAIN total \cup {d} |-> IF e = d THEN v ELSE total[e]]

----
(* The cancellation.                                                       *)

\* Applied once: the queue is emptied and no worker takes another folder.
Drained(r) == [r EXCEPT !.queue = {}, !.stopped = TRUE, !.applied = TRUE,
                        !.pending = @ - Cardinality(r.queue)]

\* The coordinator looks at the flag before it waits for the next event, and
\* leaves its loop when nothing is pending.
Looked(w, r) ==
    IF r.pending = 0
    THEN [r EXCEPT !.at = "joining", !.queue = {}, !.stopped = TRUE]
    ELSE IF w \in cancelled /\ ~r.applied THEN Drained(r) ELSE r

Returns(w) ==
    walk' = [walk EXCEPT ![w] = [NoWalk EXCEPT !.at = "returned", !.root = walk[w].root,
                                               !.total = walk[w].total]]

Begins(w, root, serial) ==
    LET r == [NoWalk EXCEPT !.root = root, !.queue = {root}, !.pending = 1]
    IN walk' = [walk EXCEPT ![w] = IF serial THEN [r EXCEPT !.at = "serial"]
                                             ELSE Looked(w, [r EXCEPT !.at = "walking"])]

----
(* One worker: recommended_recursive_workers answers one for this root.    *)

SerialRead(w) ==
    /\ walk[w].at = "serial" /\ w \notin cancelled
    /\ \E d \in walk[w].queue :
          walk' = [walk EXCEPT ![w].queue = (@ \ {d}) \cup Children[d],
                               ![w].total = Add(@, d, version[d])]

\* A cancelled walk stops before the next folder.
SerialEnd(w) ==
    /\ walk[w].at = "serial" /\ (walk[w].queue = {} \/ w \in cancelled)
    /\ Returns(w)

----
(* The workers.                                                            *)

Hand(w, k) == walk[w].hands[k]
Active(w) == walk[w].at \in {"walking", "joining"}
HasRoom(w) == Len(walk[w].events) < 2 * Cardinality(Workers)
Event(kind, d, v) == [kind |-> kind, dir |-> d, seen |-> v]

\* A worker takes a folder, or waits on the condition variable.
Take(w, k) ==
    /\ Active(w) /\ Hand(w, k).at = "waiting" /\ ~walk[w].stopped
    /\ \E d \in walk[w].queue :
          walk' = [walk EXCEPT ![w].queue = @ \ {d}, ![w].hands[k] = [at |-> "took", dir |-> d]]

Leave(w, k) ==
    /\ Active(w) /\ Hand(w, k).at = "waiting" /\ walk[w].stopped
    /\ walk' = [walk EXCEPT ![w].hands[k].at = "left"]

\* The channel is bounded: a worker waits for room.
Send(w, k, hand, event) ==
    /\ Active(w) /\ HasRoom(w)
    /\ walk' = [walk EXCEPT ![w].hands[k] = hand, ![w].events = Append(@, event)]

\* The folder is read and goes to the coordinator, where it waits its turn.
SendBatch(w, k) ==
    LET d == Hand(w, k).dir
    IN /\ Hand(w, k).at = "took"
       /\ Send(w, k, [at |-> "read", dir |-> d], Event("Batch", d, version[d]))

\* A cancelled walk cuts for_each short.
SendDone(w, k) ==
    /\ Hand(w, k).at = "read" \/ (Hand(w, k).at = "took" /\ w \in cancelled)
    /\ Send(w, k, Resting, Event("Done", NoDir, 0))

Worker(w, k) ==
    Take(w, k) \/ Leave(w, k) \/ SendBatch(w, k) \/ SendDone(w, k)

----
(* The coordinator.                                                        *)

Received(r, e) ==
    CASE e.kind = "Batch" /\ r.applied -> r
      [] e.kind = "Batch" /\ ~r.applied ->
            [r EXCEPT !.total = Add(@, e.dir, e.seen),
                      !.queue = @ \cup Children[e.dir],
                      !.pending = @ + Cardinality(Children[e.dir])]
      [] e.kind = "Done" -> [r EXCEPT !.pending = @ - 1]

Receive(w) ==
    /\ walk[w].at = "walking" /\ walk[w].events # <<>>
    /\ LET r == [walk[w] EXCEPT !.events = Tail(@)]
       IN walk' = [walk EXCEPT ![w] = Looked(w, Received(r, Head(walk[w].events)))]

\* The channel is closed once every worker has left.
AllLeft(w) == \A k \in Workers : Hand(w, k).at = "left"

Closed(w) ==
    /\ walk[w].at = "walking" /\ walk[w].events = <<>> /\ AllLeft(w)
    /\ walk' = [walk EXCEPT ![w].at = "joining", ![w].stopped = TRUE]

\* The scope joins the workers; the channel lives until it has.
Join(w) ==
    /\ walk[w].at = "joining" /\ AllLeft(w)
    /\ Returns(w)

Coordinator(w) == SerialRead(w) \/ SerialEnd(w) \/ Receive(w) \/ Closed(w) \/ Join(w)

----
(* What a walk promises.                                                   *)

\* A directory and what is below it: the smallest set that holds it and, with
\* every directory, the ones in it.
Subtree ==
    [root \in Dirs |->
        {d \in Dirs : \A S \in SUBSET Dirs :
                         root \in S /\ (\A e \in S : Children[e] \subseteq S) => d \in S}]

InHand(w) == {k \in Workers : Hand(w, k).at \notin {"waiting", "left"}}
DonesSent(w) == {i \in DOMAIN walk[w].events : walk[w].events[i].kind = "Done"}

\* While the coordinator waits, it counts every folder that is queued, in a
\* worker's hands or reported as done: were it one too low, it would leave
\* workers blocked on a channel nobody reads, and one too high, it would wait
\* for ever.
PendingIsExact ==
    \A w \in Walks : walk[w].at = "walking" =>
        walk[w].pending = Cardinality(walk[w].queue) + Cardinality(InHand(w))
                          + Cardinality(DonesSent(w))

\* A walk that returns and was not cancelled has read every directory, and no
\* directory is in two places.
WholeUnlessCancelled ==
    \A w \in Walks : walk[w].at = "returned" /\ w \notin cancelled =>
        DOMAIN walk[w].total = Subtree[walk[w].root]

NobodyIsLeftBlocked ==
    \A w \in Walks : walk[w].at = "joining" => InHand(w) = {} /\ walk[w].events = <<>>
=============================================================================
