---- MODULE BulkRename ----
(***************************************************************************)
(* Bulk rename of one directory (ferail-gpui/src/bulk_rename.rs): the plan *)
(* the dialog accepts (build_plan), the background worker that applies a   *)
(* batch of pairs through chains and cycles (run_renames), and its undo,   *)
(* which replays the pairs backwards through the same worker (shell.rs).   *)
(*                                                                         *)
(* A directory is a set of entries; an item is the identity (dev, ino) of  *)
(* what an entry names.  One batch runs at a time; other programs create   *)
(* and remove entries between any two system calls.  Temporary names are   *)
(* the numbers run_renames puts in them, and no name offered for renaming  *)
(* is one.  Hard links are not modelled.                                   *)
(***************************************************************************)
EXTENDS Naturals, FiniteSets, Sequences, SequencesExt, FiniteSetsExt, Functions

CONSTANTS Names,        \* leaf names
          Key,          \* their lower-case forms
          FoldsCase,    \* whether the volume looks names up by Key
          Items,        \* what the directory holds at first
          Newcomers,    \* what other programs may create
          Selections,   \* the sets of items a batch may select
          MaxBatches,   \* bound on batches and on undos, in calm behaviours
          FaultyBatches, \* the same bound in the others
          MaxFailures,  \* bound on renames refused by the system
          MaxForeign    \* bound on acts of other programs

ASSUME KeyAssumption ==
    /\ DOMAIN Key = Names /\ FoldsCase \in BOOLEAN
    /\ \A name \in Names : name \notin Nat /\ Key[name] \notin Nat
ASSUME ItemsAssumption ==
    /\ IsFiniteSet(Items) /\ Items \cap Newcomers = {}
    /\ Selections \subseteq SUBSET Items
ASSUME BoundsAssumption == {MaxBatches, FaultyBatches, MaxFailures, MaxForeign} \subseteq Nat

VARIABLES dir,       \* set of entries [name, item]
          worker,    \* "idle", "renaming" or "undoing"
          batch,     \* the locals of run_renames
          guarded,   \* the pair whose guard has passed, or 0
          undo,      \* stack of the renamed pairs of finished batches
          failures, foreign, batches,   \* counters of the bounds
          removed,   \* items other programs removed
          stranded,  \* items that finished batches left under temporary names
          astray,    \* items of the batch that were not at their old names when it began
          calm       \* renames succeed and no other program acts, in this behaviour
vars == <<dir, worker, batch, guarded, undo, failures, foreign, batches, removed,
          stranded, astray, calm>>

----
(* The directory.                                                          *)

KeyOf(name) == IF name \in Names THEN Key[name] ELSE name

SameName(n, m) == IF FoldsCase THEN KeyOf(n) = KeyOf(m) ELSE n = m

At(d, name) == {e \in d : SameName(e.name, name)}

Holds(d, name, item) == \E e \in At(d, name) : e.item = item

Present(d) == {e.item : e \in d}

\* std::fs::rename: whatever held the new name is gone.
Moved(d, old, new) ==
    (d \ (At(d, old) \cup At(d, new)))
        \cup {[name |-> new, item |-> e.item] : e \in At(d, old)}

NameOf(d, item) == (CHOOSE e \in d : e.item = item).name

----
(* build_plan.  "after" gives the new name of each selected item.          *)

\* The rows that change.
Changed(before, after) == {x \in DOMAIN after : after[x] # before[x]}

\* Mutant: only exact duplicates count as conflicts.
ConflictFreeExact(before, after) ==
    LET changed == Changed(before, after)
    IN  \A x \in changed :
            /\ \A y \in changed \ {x} : after[y] # after[x]
            /\ \A y \in DOMAIN after \ changed : before[y] # after[x]

\* Two rows may not share a target, nor take the name of an unchanged row.
ConflictFree(before, after) ==
    LET changed == Changed(before, after)
    IN  \A x \in changed :
            /\ \A y \in changed \ {x} : Key[after[y]] # Key[after[x]]
            /\ \A y \in DOMAIN after \ changed : Key[before[y]] # Key[after[x]]

\* The pairs of the changed rows, in the order of the listing.
RenamePairs(order, before, after) ==
    [i \in DOMAIN order |-> [item |-> order[i], old |-> before[order[i]],
                             new  |-> after[order[i]]]]

----
(* run_renames: its preparation and its steps.                             *)

\* src_of: the last pair whose source has the key of this name, if any.
Occupant(pairs, name) ==
    LET holders == {j \in DOMAIN pairs : KeyOf(pairs[j].old) = KeyOf(name)}
    IN  IF holders = {} THEN {} ELSE {Max(holders)}

\* A set of indices as a vector is filled with them.
Ascending(S) ==
    CHOOSE s \in SetToSeqs(S) : \A i, j \in DOMAIN s : i < j => s[i] < s[j]

\* Mutant: every pair is ready at once.
StartedUnordered(pairs) ==
    [pairs |-> pairs, src |-> [i \in DOMAIN pairs |-> pairs[i].old],
     ready |-> [i \in DOMAIN pairs |-> i], waiting |-> {},
     done |-> {}, parked |-> {}, renamed |-> <<>>, tmpSeq |-> 0]

Started(pairs) ==
    LET waiting == {[on |-> j, pair |-> i] : i, j \in DOMAIN pairs}
        blocked == {w \in waiting : w.on # w.pair /\ w.on \in Occupant(pairs, pairs[w.pair].new)}
        free    == DOMAIN pairs \ {w.pair : w \in blocked}
    IN  [pairs   |-> pairs,
         src     |-> [i \in DOMAIN pairs |-> pairs[i].old],
         ready   |-> Ascending(free),
         waiting |-> blocked,
         done    |-> {}, parked |-> {}, renamed |-> <<>>, tmpSeq |-> 0]

\* The pairs waiting for i to vacate its name become ready.
Released(b, i) ==
    LET freed == {w.pair : w \in {v \in b.waiting : v.on = i}} \ b.done
    IN  [b EXCEPT !.waiting = {w \in @ : w.on # i},
                  !.ready   = @ \o Ascending(freed)]

\* Success or not, i's claim is settled.
Settled(b, i) == Released([b EXCEPT !.done = @ \cup {i}], i)

Succeeded(b, i) == Settled([b EXCEPT !.renamed = Append(@, b.pairs[i])], i)

Pending == DOMAIN batch.pairs \ batch.done

Idle == [pairs |-> <<>>, src |-> <<>>, ready |-> <<>>, waiting |-> {}, done |-> {},
         parked |-> {}, renamed |-> <<>>, tmpSeq |-> 0]

----
Init ==
    /\ \E placed \in [Items -> Names] :
          /\ \A x, y \in Items : x # y => ~SameName(placed[x], placed[y])
          /\ dir = {[name |-> placed[x], item |-> x] : x \in Items}
    /\ worker = "idle" /\ batch = Idle /\ guarded = 0 /\ undo = <<>>
    /\ failures = 0 /\ foreign = 0 /\ batches = 0
    /\ removed = {} /\ stranded = {} /\ astray = {}
    /\ calm \in BOOLEAN

counters == <<failures, foreign, batches, removed, stranded, calm>>

\* The dialog's OK on a plan without conflicts: apply spawns run_renames.
\* Temporary names begin with a dot and are not offered for renaming.
Apply ==
    /\ worker = "idle"
    /\ batches < IF calm THEN MaxBatches ELSE FaultyBatches
    /\ \E selected \in Selections :
          /\ \A x \in selected : x \in Present(dir) /\ NameOf(dir, x) \in Names
          /\ LET before == [x \in selected |-> NameOf(dir, x)]
             IN  \E after \in [selected -> Names] :
                    /\ ConflictFree(before, after)
                    /\ after # before
                    /\ \E order \in SetToSeqs(Changed(before, after)) :
                          batch' = Started(RenamePairs(order, before, after))
    /\ worker' = "renaming"
    /\ batches' = batches + 1
    /\ astray' = {}
    /\ UNCHANGED <<dir, guarded, undo, failures, foreign, removed, stranded, calm>>

\* on_undo_last_action pops the record; apply_fs replays it backwards.
UndoLast ==
    /\ worker = "idle" /\ undo # <<>>
    /\ LET back == [i \in DOMAIN Last(undo) |->
                       [item |-> Last(undo)[i].item,
                        old  |-> Last(undo)[i].new, new |-> Last(undo)[i].old]]
       IN  /\ batch' = Started(back)
           /\ astray' = {p.item : p \in {q \in Range(back) : ~Holds(dir, q.old, q.item)}}
    /\ undo' = Front(undo)
    /\ worker' = "undoing"
    /\ UNCHANGED <<dir, guarded, counters>>

Running == worker # "idle"

\* Mutant: no guard before the rename.
GuardNothing ==
    /\ Running /\ guarded = 0 /\ batch.ready # <<>>
    /\ guarded' = Last(batch.ready)
    /\ batch' = [batch EXCEPT !.ready = Front(@)]
    /\ UNCHANGED <<dir, worker, undo, astray, counters>>

\* rename_guarded's symlink_metadata calls on the pair ready.pop returns.
Guard ==
    /\ Running /\ guarded = 0 /\ batch.ready # <<>>
    /\ LET i     == Last(batch.ready)
           taken == At(dir, batch.pairs[i].new)
           same  == taken # {} /\ taken = At(dir, batch.src[i])
           popped == [batch EXCEPT !.ready = Front(@)]
       IN  IF taken = {} \/ same
           THEN /\ guarded' = i
                /\ batch' = popped
           ELSE /\ guarded' = 0
                /\ batch' = Settled(popped, i)
    /\ UNCHANGED <<dir, worker, undo, astray, counters>>

\* The rename itself: it replaces what came to the name after the guard.
Rename ==
    /\ Running /\ guarded # 0
    /\ LET i == guarded
       IN  \/ /\ At(dir, batch.src[i]) # {}
              /\ dir' = Moved(dir, batch.src[i], batch.pairs[i].new)
              /\ batch' = Succeeded(batch, i)
              /\ UNCHANGED failures
           \/ /\ At(dir, batch.src[i]) = {}
              /\ batch' = Settled(batch, i)
              /\ UNCHANGED <<dir, failures>>
           \/ /\ ~calm /\ failures < MaxFailures
              /\ failures' = failures + 1
              /\ batch' = Settled(batch, i)
              /\ UNCHANGED dir
    /\ guarded' = 0
    /\ UNCHANGED <<worker, undo, foreign, batches, removed, stranded, astray, calm>>

\* The pairs that may be parked, of which the first is.
Parkable == Pending \ batch.parked

Blocked == Running /\ guarded = 0 /\ batch.ready = <<>>

\* Mutant: the parked file is still looked for under its old name.
ParkForgotten ==
    /\ Blocked /\ Parkable # {}
    /\ LET i   == Min(Parkable)
           tmp == batch.tmpSeq + 1
       IN  /\ At(dir, batch.src[i]) # {}
           /\ dir' = Moved(dir, batch.src[i], tmp)
           /\ batch' = Released([batch EXCEPT !.parked = @ \cup {i}, !.tmpSeq = tmp], i)
    /\ UNCHANGED <<worker, guarded, undo, astray, counters>>

\* Mutant: parking neither marks the pair nor releases those that wait for it.
ParkUnmarked ==
    /\ Blocked /\ Pending # {}
    /\ LET i   == Min(Pending)
           tmp == 1
       IN  /\ dir' = IF batch.src[i] = tmp THEN dir ELSE Moved(dir, batch.src[i], tmp)
           /\ batch' = [batch EXCEPT !.src[i] = tmp]
    /\ UNCHANGED <<worker, guarded, undo, astray, counters>>

\* Nothing is free to move: the first pair goes to a temporary name, with a
\* rename that is not guarded.
Park ==
    /\ Blocked /\ Parkable # {}
    /\ LET i        == Min(Parkable)
           tmp      == batch.tmpSeq + 1
           numbered == [batch EXCEPT !.tmpSeq = tmp]
       IN  \/ /\ At(dir, batch.src[i]) # {}
              /\ dir' = Moved(dir, batch.src[i], tmp)
              /\ batch' = Released([numbered EXCEPT !.parked = @ \cup {i}, !.src[i] = tmp], i)
              /\ UNCHANGED failures
           \/ /\ At(dir, batch.src[i]) = {}
              /\ batch' = Settled(numbered, i)
              /\ UNCHANGED <<dir, failures>>
           \/ /\ ~calm /\ failures < MaxFailures
              /\ failures' = failures + 1
              /\ batch' = Settled(numbered, i)
              /\ UNCHANGED dir
    /\ UNCHANGED <<worker, guarded, undo, foreign, batches, removed, stranded, astray, calm>>

\* The loop is over, or gives up on pairs that are all parked, and the UI
\* thread takes the result: a batch that renamed anything can be undone, an
\* undo is not recorded.
Finish ==
    /\ Blocked /\ Parkable = {}
    /\ undo' = IF worker = "renaming" /\ batch.renamed # <<>>
               THEN Append(undo, batch.renamed) ELSE undo
    /\ worker' = "idle"
    /\ batch' = Idle
    /\ stranded' = stranded \cup {e.item : e \in {f \in dir : f.name \notin Names}}
    /\ UNCHANGED <<dir, guarded, failures, foreign, batches, removed, astray, calm>>

RunRenames == Guard \/ Rename \/ Park \/ Finish

ForeignCreate(name, item) ==
    /\ ~calm /\ foreign < MaxForeign
    /\ item \notin Present(dir) \cup removed
    /\ At(dir, name) = {}
    /\ dir' = dir \cup {[name |-> name, item |-> item]}
    /\ foreign' = foreign + 1
    /\ UNCHANGED <<worker, batch, guarded, undo, failures, batches, removed, stranded, astray,
                   calm>>

ForeignRemove(entry) ==
    /\ ~calm /\ foreign < MaxForeign
    /\ dir' = dir \ {entry}
    /\ removed' = removed \cup {entry.item}
    /\ foreign' = foreign + 1
    /\ UNCHANGED <<worker, batch, guarded, undo, failures, batches, stranded, astray, calm>>

OtherPrograms ==
    \/ \E name \in Names, item \in Newcomers : ForeignCreate(name, item)
    \/ \E entry \in dir : ForeignRemove(entry)

Next == Apply \/ UndoLast \/ RunRenames \/ OtherPrograms

Spec == Init /\ [][Next]_vars

\* The background executor keeps running the batch it was given.
FairSpec == Spec /\ WF_vars(RunRenames)

----
(* The directory is a directory, the locals of run_renames fit together.   *)
TypeOK ==
    /\ \A e \in dir : e.name \in Names \cup Nat /\ e.item \in Items \cup Newcomers
    /\ \A e, f \in dir : SameName(e.name, f.name) \/ e.item = f.item => e = f
    /\ worker \in {"idle", "renaming", "undoing"}
    /\ guarded \in {0} \cup Pending
    /\ batch.done \subseteq DOMAIN batch.pairs /\ batch.parked \subseteq DOMAIN batch.pairs
    /\ Range(batch.ready) \cap batch.done = {}

(* A batch never destroys what the directory held before it: an item is    *)
(* gone only if another program removed it, whatever renames fail and      *)
(* whatever names other programs take meanwhile.  The exception is an item *)
(* that a failed batch preserved under a temporary name: the counter of    *)
(* the next batch begins again at 1 (bulk_rename.rs:407, 458).             *)
NothingLost == Items \subseteq Present(dir) \cup removed \cup stranded

\* The same without the exception (MCBulkRenameTemp.cfg).
PreservedIsKept == Items \subseteq Present(dir) \cup removed

(* A pair is tried only when no other pair still to be renamed sits at its *)
(* destination: run_renames orders every chain and breaks every cycle.     *)
(* "a pair waits until the pair occupying its destination has vacated"     *)
(* (bulk_rename.rs:371).                                                   *)
DependencyOrder ==
    \A i \in Range(batch.ready) :
        ~\E j \in Pending \ {i} : SameName(batch.src[j], batch.pairs[i].new)

(* The branch "rename cycle could not be resolved" is never taken: parking *)
(* one pair of a cycle always frees another.                               *)
EveryCycleBreaks == Blocked /\ Parkable = {} => Pending = {}

(* The bookkeeping of a batch: shape, order, and cycles that break.        *)
BatchConsistent == TypeOK /\ DependencyOrder /\ EveryCycleBreaks

(* While a batch runs, each item is where the result will say: at its new  *)
(* name if the pair is reported as renamed, else where the error says the  *)
(* item was preserved (a parked item is not lost when its rename fails).   *)
(* Nothing is promised of items an undo does not find where their record   *)
(* has them, which other programs removed or failed batches left elsewhere.*)
ItemsWhereReported ==
    \A i \in DOMAIN batch.pairs :
        LET p == batch.pairs[i]
        IN  \/ p.item \in removed \cup astray
            \/ Holds(dir, IF p \in Range(batch.renamed) THEN p.new ELSE batch.src[i], p.item)

(* A batch ends, however its renames fail: no pair waits for one that      *)
(* nothing will settle.                                                    *)
BatchEnds == Running ~> ~Running

----
(* The abstract specification: what was placed where when the running      *)
(* batch began, and each record of the undo stack as a placement.          *)

FormerName(record) ==
    [x \in {record[i].item : i \in DOMAIN record} |->
        (CHOOSE p \in Range(record) : p.item = x).old]

\* The name of an item before batch b touched it.
PlacedBefore(d, b, item) ==
    LET mine == {i \in DOMAIN b.pairs : b.pairs[i].item = item}
    IN  IF mine = {} THEN NameOf(d, item) ELSE b.pairs[Min(mine)].old

Undone(b) == [x \in {p.item : p \in Range(b.pairs)} |->
                 (CHOOSE p \in Range(b.pairs) : p.item = x).new]

FormerNames(u) == [i \in DOMAIN u |-> FormerName(u[i])]

Placed == IF calm THEN [x \in Items |-> PlacedBefore(dir, batch, x)] ELSE <<>>

Undoable ==
    IF ~calm THEN <<>>
    ELSE IF worker = "undoing" THEN Append(FormerNames(undo), Undone(batch))
    ELSE FormerNames(undo)

Promise == INSTANCE RenameBatches WITH
    bound <- calm, placed <- Placed, undoable <- Undoable

(* With no failure and no other program at work, a batch that bulk rename  *)
(* accepts is a single simultaneous renaming of its items, and an undo     *)
(* restores exactly the names the batch took away.                         *)
KeepsPromise == Promise!Spec
====
