---- MODULE RenameBatches ----
(***************************************************************************)
(* What bulk rename promises (docs/features/BULK_RENAME.md): a batch whose *)
(* plan has no conflict takes every item to its new name as if all had     *)
(* been renamed at once, chains and swaps included, and undo takes the     *)
(* items of the last batch back.                                           *)
(***************************************************************************)
EXTENDS Sequences, SequencesExt, FiniteSets

CONSTANTS Items, Names,
          Key          \* the case-folded form of each name

VARIABLES bound,       \* whether the promise binds: no failure, no other program
          placed,      \* the name of each item
          undoable     \* for each batch, the former names of what it renamed

\* No two items under one name, nor under names that differ in case only.
Distinguishes(placement) ==
    \A x, y \in Items : Key[placement[x]] = Key[placement[y]] => x = y

Init == bound =>
    /\ placed \in [Items -> Names]
    /\ Distinguishes(placed)
    /\ undoable = <<>>

RenameAll ==
    /\ placed' \in [Items -> Names]
    /\ Distinguishes(placed')
    /\ LET moved == {x \in Items : placed'[x] # placed[x]}
       IN  /\ moved # {}
           /\ undoable' = Append(undoable, [x \in moved |-> placed[x]])

UndoLast ==
    /\ undoable # <<>>
    /\ LET former == Last(undoable)
       IN  placed' = [x \in Items |-> IF x \in DOMAIN former THEN former[x] ELSE placed[x]]
    /\ undoable' = Front(undoable)

Next == /\ UNCHANGED bound
        /\ bound => RenameAll \/ UndoLast

Spec == Init /\ [][Next]_<<bound, placed, undoable>>
====
