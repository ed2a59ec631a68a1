------------------------------ MODULE Transfer ------------------------------
(***************************************************************************)
(* Copy, move and undo: the engine (ferail-fs-native/src/file_ops.rs), the *)
(* operation around it (shell/file_ops.rs, spawn_transfer_op), and the     *)
(* undo stack (shell.rs, UndoOp).  Several operations run at once on the   *)
(* background executor over one disk; each worker below is one of them.    *)
(*                                                                         *)
(* The disk maps a path, a directory and a name, to an item: a content,    *)
(* whole or in part.  Contents in Trees are folders.  A check and the      *)
(* system call that relies on it are two steps.  Directories themselves    *)
(* stay where they are; symbolic links and progress are left out.          *)
(***************************************************************************)
EXTENDS Naturals, Sequences, FiniteSets

CONSTANTS Names,       \* leaf names
          Numbered,    \* the free-name candidates of a name, "f 2", "f 3"...
          Volume,      \* the volume of each directory
          Contents,    \* what the disk holds at first
          Trees,       \* the contents that are folders
          Layouts,     \* the disks to start from
          Selections,  \* the sequences of paths a user may select
          Workers,     \* the operations in progress
          MaxItems,    \* bound on the items transferred, and on undos
          UndoCap,     \* UNDO_STACK_CAP
          Clones,      \* the volumes that can clone (clonefile, on macOS)
          Targets,     \* the folders a user may drop or paste into
          Excused,     \* the kinds of loss NothingLost lets pass
          NoItem

Dirs == DOMAIN Volume
Path == Dirs \X Names
Item == [c : Contents, whole : BOOLEAN]

ASSUME NumberedAssumption == /\ DOMAIN Numbered = Names
                             /\ \A n \in Names : Numbered[n] \in Seq(Names \ {n})
ASSUME TreesAssumption == Trees \subseteq Contents /\ Clones \subseteq {Volume[d] : d \in Dirs}
ASSUME NoItemAssumption == NoItem \notin Item
ASSUME LayoutsAssumption ==
    \A layout \in Layouts :
        /\ layout \in [Path -> Item \cup {NoItem}]
        /\ \A c \in Contents : \E p \in Path : layout[p] = [c |-> c, whole |-> TRUE]

\* A selection names no path twice.
ASSUME SelectionsAssumption ==
    /\ Selections \subseteq Seq(Path) /\ Targets \subseteq Dirs
    /\ \A s \in Selections : \A k, l \in DOMAIN s : s[k] = s[l] => k = l

\* One operation at a time races no other.
ASSUME ExcusedAssumption ==
    /\ {"asked", "unasked", "self", "stale"} \subseteq Excused
    /\ "raced" \in Excused \/ \A v, w \in Workers : v = w

ASSUME BoundsAssumption == MaxItems \in Nat /\ UndoCap \in Nat \ {0}

VARIABLES disk,       \* what each path holds
          job,        \* what each worker does
          undoStack,  \* the records Undo may pop, newest last
          started,    \* items transferred and undos so far
          lost        \* ghost: the contents destroyed, with the reason
vars == <<disk, job, undoStack, started, lost>>

----
(* The disk.                                                               *)

Free(p) == disk[p] = NoItem
In(dir, p) == <<dir, p[2]>>
IsTree(p) == ~Free(p) /\ disk[p].c \in Trees
SameVolume(p, dir) == Volume[p[1]] = Volume[dir]

Part(item) == [item EXCEPT !.whole = FALSE]

\* What a failing remove_dir_all or remove_file leaves at p.
Leftovers(p) == {disk[p]} \cup IF IsTree(p) THEN {Part(disk[p])} ELSE {}

\* The ghost's record of a step that destroys the last whole copy of what p
\* holds.
IsLast(p) == ~Free(p) /\ disk[p].whole /\ \A q \in Path \ {p} : disk[q] # disk[p]
Destroyed(p, why) == IF IsLast(p) THEN {<<disk[p].c, why>>} ELSE {}

\* std::fs::rename replaces a file, refuses to replace or become a folder, and
\* does nothing from a name to itself.
Rename(p, q) ==
    /\ ~Free(p)
    /\ Free(q) \/ p = q \/ ~(IsTree(p) \/ IsTree(q))
    /\ disk' = IF p = q THEN disk ELSE [disk EXCEPT ![q] = disk[p], ![p] = NoItem]
    /\ lost' = lost \cup IF p = q THEN {} ELSE Destroyed(q, "raced")

----
(* Jobs.                                                                   *)

Idle == [kind |-> "idle"]
Busy(w) == job[w].kind # "idle"
Kind(w) == job[w].kind
AtStep(w, step) == Busy(w) /\ job[w].at = step

To(w, r) == job' = [job EXCEPT ![w] = r]

\* spawn_transfer_op, called by a paste or a drop.  "alone" is a ghost: no
\* other job has run since this one began, and no Replace of it has stopped
\* half way.
NewTransfer(sources, dest, mode) ==
    [kind |-> "transfer", at |-> "plan", sources |-> sources, dest |-> dest, mode |-> mode,
     asked |-> <<>>, policy |-> <<>>, i |-> 1, dst |-> <<>>, item |-> NoItem,
     created |-> <<>>, skipped |-> 0, replaced |-> 0, failed |-> 0,
     cancelled |-> FALSE, alone |-> \A w \in Workers : ~Busy(w)]

AllSameVolume(j) == \A k \in DOMAIN j.sources : SameVolume(j.sources[k], j.dest)

\* Auto moves within a volume and copies across volumes.
Moves(j) == j.mode = "Move" \/ (j.mode = "Auto" /\ AllSameVolume(j))

SameDir(sources, dest) == \A k \in DOMAIN sources : sources[k][1] = dest

\* What the current item of a job is copied or renamed from.
Source(j) == IF j.kind = "transfer" THEN j.sources[j.i] ELSE j.record.pairs[j.i].to

\* Where the current pair of an undo goes back to.
Origin(j) == j.record.pairs[j.i].from

\* The ghost flags once one more job starts.
Disturbed(jobs) == [w \in Workers |-> IF jobs[w].kind = "idle" THEN jobs[w]
                                      ELSE [jobs[w] EXCEPT !.alone = FALSE]]
DisturbedStack(stack) == [k \in DOMAIN stack |-> [stack[k] EXCEPT !.alone = FALSE]]

----
(* Starting a transfer: plan, questions, engine.                           *)

\* handle_external_drop refuses to move items where they already are; the
\* paste commands do not.
Start(w, sources, dest, mode) ==
    /\ ~Busy(w)
    /\ started + Len(sources) <= MaxItems
    /\ \A k \in DOMAIN sources : ~Free(sources[k])
    /\ ~(mode = "Auto" /\ SameDir(sources, dest))
    /\ started' = started + Len(sources)
    /\ job' = [Disturbed(job) EXCEPT ![w] = NewTransfer(sources, dest, mode)]
    /\ undoStack' = DisturbedStack(undoStack)
    /\ UNCHANGED <<disk, lost>>

Conflicting(j) == {s \in {j.sources[k] : k \in DOMAIN j.sources} : ~Free(In(j.dest, s))}

\* Pasting next to the originals asks nothing.  "asked" keeps, as a ghost,
\* the item each question is about.
Plan(w) ==
    /\ AtStep(w, "plan")
    /\ LET j == job[w]
           asking == IF SameDir(j.sources, j.dest) THEN {} ELSE Conflicting(j)
       IN /\ \A k \in DOMAIN j.sources : ~Free(j.sources[k])
          /\ To(w, [j EXCEPT !.at = IF asking = {} THEN "item" ELSE "ask",
                             !.asked = [s \in asking |-> disk[In(j.dest, s)]]])
    /\ UNCHANGED <<disk, undoStack, started, lost>>

\* A source is gone, the walk of a folder is cancelled, or the volume has no room.
PlanFails(w) ==
    /\ AtStep(w, "plan")
    /\ LET j == job[w] IN
         \/ \E k \in DOMAIN j.sources : Free(j.sources[k])
         \/ \E k \in DOMAIN j.sources : IsTree(j.sources[k])
         \/ ~AllSameVolume(j)
    /\ To(w, Idle)
    /\ UNCHANGED <<disk, undoStack, started, lost>>

Unanswered(j) == {k \in DOMAIN j.sources : j.sources[k] \in DOMAIN j.asked \ DOMAIN j.policy}

\* One question per conflicting source, in order, or one answer for the rest.
Answer(w, choice, rest) ==
    /\ AtStep(w, "ask")
    /\ LET j == job[w]
           first == CHOOSE k \in Unanswered(j) : \A l \in Unanswered(j) : k <= l
           now == IF rest THEN {j.sources[k] : k \in Unanswered(j)} ELSE {j.sources[first]}
           answers == [s \in DOMAIN j.policy \cup now |-> IF s \in now THEN choice ELSE j.policy[s]]
       IN To(w, [j EXCEPT !.policy = answers,
                          !.at = IF DOMAIN answers = DOMAIN j.asked THEN "item" ELSE "ask"])
    /\ UNCHANGED <<disk, undoStack, started, lost>>

Dismiss(w) ==
    /\ AtStep(w, "ask")
    /\ To(w, Idle)
    /\ UNCHANGED <<disk, undoStack, started, lost>>

----
(* How the engine leaves an item.                                          *)

NextItem(j) == [j EXCEPT !.i = @ + 1, !.at = "item", !.dst = <<>>, !.item = NoItem]

Landed(j) ==
    IF j.kind = "transfer"
    THEN [NextItem(j) EXCEPT !.created = Append(@, [from |-> Source(j), to |-> j.dst, item |-> j.item])]
    ELSE NextItem(j)

\* An error of one item: the batch goes on.  Undo stops at the first one,
\* except across volumes.
Failed(j) ==
    CASE j.kind = "transfer" -> [NextItem(j) EXCEPT !.failed = @ + 1]
      [] j.kind = "undo" /\ j.record.kind = "MoveBackCross" -> [NextItem(j) EXCEPT !.error = TRUE]
      [] OTHER -> [j EXCEPT !.error = TRUE, !.at = "finish"]

Stopped(j) == [j EXCEPT !.cancelled = TRUE, !.at = "finish", !.dst = <<>>, !.item = NoItem]

\* Mutant: a move across volumes keeps its source.
CopiedOnly(j) == IF j.kind = "undo" THEN [j EXCEPT !.at = "name"] ELSE Landed(j)

\* What follows a copy that is whole: a move across volumes deletes its
\* source, an undo gives the copy its name back.
Copied(j) ==
    CASE j.kind = "undo" -> [j EXCEPT !.at = "name"]
      [] j.kind = "transfer" /\ Moves(j) -> [j EXCEPT !.at = "unlink"]
      [] OTHER -> Landed(j)

----
(* resolve_dest.                                                           *)

\* A source nobody asked about keeps both.
PolicyFor(j, s) == IF s \in DOMAIN j.policy THEN j.policy[s] ELSE "KeepBoth"

\* pick_available_name
\* Mutant: the candidates are not looked up.
AllCandidates(p, dir) == DOMAIN Numbered[p[2]]

Candidates(p, dir) == {k \in DOMAIN Numbered[p[2]] : Free(<<dir, Numbered[p[2]][k]>>)}
Candidate(p, dir) == <<dir, Numbered[p[2]][CHOOSE k \in Candidates(p, dir) :
                                              \A l \in Candidates(p, dir) : k <= l]>>

\* Why a Replace destroys what it destroys.
ReplaceReason(j, s) ==
    LET dst == In(j.dest, s) IN
      CASE s = dst -> "self"
        [] s # dst /\ disk[dst] = j.asked[s] -> "asked"
        [] OTHER -> "unasked"

EndOfItems(w) ==
    /\ AtStep(w, "item")
    /\ Kind(w) = "transfer" /\ job[w].i > Len(job[w].sources)
    /\ To(w, [job[w] EXCEPT !.at = "finish"])
    /\ UNCHANGED <<disk, undoStack, started, lost>>

Resolving(w) == AtStep(w, "item") /\ Kind(w) = "transfer" /\ job[w].i <= Len(job[w].sources)

\* The user has cancelled.  The flag is read here and while copying, and
\* nothing else depends on it, so it is set where it is read.
StopBeforeItem(w) ==
    /\ Resolving(w)
    /\ To(w, Stopped(job[w]))
    /\ UNCHANGED <<disk, undoStack, started, lost>>

ResolveItem(w) ==
    /\ Resolving(w)
    /\ LET j == job[w]
           s == Source(j)
           plain == In(j.dest, s)
           Proceed(dst) == To(w, [j EXCEPT !.dst = dst, !.item = disk[s], !.at = "write"])
       IN \/ /\ Free(plain)
             /\ Proceed(plain)
             /\ UNCHANGED <<disk, lost>>
          \/ /\ ~Free(plain) /\ PolicyFor(j, s) = "Skip"
             /\ To(w, [NextItem(j) EXCEPT !.skipped = @ + 1])
             /\ UNCHANGED <<disk, lost>>
          \/ /\ ~Free(plain) /\ PolicyFor(j, s) = "KeepBoth"
             /\ IF Candidates(s, j.dest) = {} THEN To(w, Failed(j)) ELSE Proceed(Candidate(s, j.dest))
             /\ UNCHANGED <<disk, lost>>
          \/ /\ ~Free(plain) /\ PolicyFor(j, s) = "Replace"
             /\ disk' = [disk EXCEPT ![plain] = NoItem]
             /\ lost' = lost \cup Destroyed(plain, ReplaceReason(j, s))
             /\ To(w, [j EXCEPT !.dst = plain, !.item = disk'[s], !.replaced = @ + 1, !.at = "write"])
          \/ /\ ~Free(plain) /\ PolicyFor(j, s) = "Replace"   \* the deletion fails
             /\ \E left \in Leftovers(plain) :
                   /\ disk' = [disk EXCEPT ![plain] = left]
                   /\ To(w, [Failed(j) EXCEPT !.alone = @ /\ left = disk[plain]])
             /\ lost' = lost \cup Destroyed(plain, ReplaceReason(j, s))
    /\ UNCHANGED <<undoStack, started>>

----
(* Moving the bytes: fs::rename, clonefile, or a copy in two steps.        *)

Renames(j) == j.kind = "transfer" /\ Moves(j) /\ SameVolume(Source(j), j.dest)

RenameItem(w) ==
    /\ AtStep(w, "write") /\ Renames(job[w])
    /\ LET j == job[w] IN
         \/ /\ Rename(Source(j), j.dst)
            /\ To(w, Landed([j EXCEPT !.item = disk[Source(j)]]))
         \/ /\ To(w, Failed(j))
            /\ UNCHANGED <<disk, lost>>
    /\ UNCHANGED <<undoStack, started>>

CloneItem(w) ==
    /\ AtStep(w, "write") /\ ~Renames(job[w])
    /\ LET j == job[w] IN
         /\ Volume[j.dst[1]] \in Clones
         /\ SameVolume(Source(j), j.dst[1]) /\ ~Free(Source(j)) /\ Free(j.dst)
         /\ disk' = [disk EXCEPT ![j.dst] = disk[Source(j)]]
         /\ To(w, Copied([j EXCEPT !.item = disk[Source(j)]]))
    /\ UNCHANGED <<undoStack, started, lost>>

\* File::create empties a file it finds, create_dir_all enters a folder it finds.
BeginCopy(w) ==
    /\ AtStep(w, "write") /\ ~Renames(job[w])
    /\ LET j == job[w]
           s == Source(j)
       IN \/ /\ ~Free(s)
             /\ Free(j.dst) \/ (IsTree(j.dst) = IsTree(s))
             /\ disk' = [disk EXCEPT ![j.dst] = Part(disk[s])]
             /\ lost' = lost \cup Destroyed(j.dst, "raced")
             /\ To(w, [j EXCEPT !.item = disk[s], !.at = "copy"])
          \/ /\ To(w, Failed(j))
             /\ UNCHANGED <<disk, lost>>
    /\ UNCHANGED <<undoStack, started>>

\* Mutant: an error while copying is taken for the end of the file.
FinishCopyEarly(w) ==
    /\ AtStep(w, "copy")
    /\ To(w, Copied(job[w]))
    /\ UNCHANGED <<disk, undoStack, started, lost>>

\* A file being written is written on when its entry is renamed or removed.
FinishCopy(w) ==
    /\ AtStep(w, "copy")
    /\ LET j == job[w]
           part == Part(j.item)
           entries == {p \in Path : disk[p] = part}
       IN /\ \/ /\ disk[j.dst] = part
                /\ disk' = [disk EXCEPT ![j.dst] = j.item]
             \/ /\ disk[j.dst] # part /\ entries # {} /\ j.item.c \notin Trees
                /\ \E p \in entries : disk' = [disk EXCEPT ![p] = j.item]
             \/ /\ entries = {} /\ j.item.c \notin Trees
                /\ UNCHANGED disk
          /\ To(w, Copied(j))
    /\ UNCHANGED <<undoStack, started, lost>>

\* Cancelling removes the file being written and leaves a folder in part.
CancelCopy(w) ==
    /\ AtStep(w, "copy") /\ Kind(w) = "transfer"
    /\ LET j == job[w] IN
         /\ IF j.item.c \in Trees \/ (IsTree(j.dst))
            THEN UNCHANGED <<disk, lost>>
            ELSE /\ disk' = [disk EXCEPT ![j.dst] = NoItem]
                 /\ lost' = lost \cup Destroyed(j.dst, "raced")
         /\ To(w, Stopped(j))
    /\ UNCHANGED <<undoStack, started>>

\* macOS removes a file it could not finish, the chunked loop leaves it.
FailCopy(w) ==
    /\ AtStep(w, "copy")
    /\ LET j == job[w] IN
         /\ \/ /\ j.item.c \notin Trees /\ disk[j.dst] = Part(j.item)
               /\ disk' = [disk EXCEPT ![j.dst] = NoItem]
            \/ UNCHANGED disk
         /\ To(w, Failed(j))
    /\ UNCHANGED <<undoStack, started, lost>>

BeingWritten(p) == \E v \in Workers : AtStep(v, "copy") /\ job[v].dst = p

\* The end of a move across volumes, and of its undo.
UnlinkSource(w) ==
    /\ AtStep(w, "unlink")
    /\ LET j == job[w]
           s == Source(j)
           there == IF j.kind = "undo" THEN Origin(j) ELSE j.dst
           disturbed == ~j.alone /\ (disk[there] # j.item \/ disk[s] # j.item \/ BeingWritten(s))
           gone == IF disturbed THEN Destroyed(s, "raced") ELSE {}
       IN \/ /\ ~Free(s)
             /\ disk' = [disk EXCEPT ![s] = NoItem]
             /\ lost' = lost \cup gone
             /\ To(w, Landed(j))
          \/ /\ IF Free(s) THEN UNCHANGED disk
                ELSE \E left \in Leftovers(s) : disk' = [disk EXCEPT ![s] = left]
             /\ lost' = lost \cup gone
             /\ To(w, Failed(j))
    /\ UNCHANGED <<undoStack, started>>

----
(* The end of a transfer.                                                  *)

\* What undoes a transfer; "" when nothing is registered.
UndoKind(j) ==
    IF j.created = <<>> THEN ""
    ELSE IF Moves(j) /\ AllSameVolume(j) THEN "MoveBack"
    ELSE IF j.replaced > 0 THEN ""
    ELSE IF Moves(j) THEN "MoveBackCross" ELSE "RemoveCreated"

\* ProcessState::push_undo
Pushed(stack, record) ==
    Append(IF Len(stack) >= UndoCap THEN Tail(stack) ELSE stack, record)

\* If the window has closed meanwhile, nothing is registered.
FinishTransfer(w, open) ==
    /\ AtStep(w, "finish") /\ Kind(w) = "transfer"
    /\ LET j == job[w]
           record == [kind |-> UndoKind(j), pairs |-> j.created,
                      replaced |-> j.replaced, alone |-> j.alone]
       IN undoStack' = IF record.kind = "" \/ ~open THEN undoStack ELSE Pushed(undoStack, record)
    /\ To(w, Idle)
    /\ UNCHANGED <<disk, started, lost>>

----
(* Undo: on_undo_last_action pops the record and applies it on a worker.   *)

PopUndo(w) ==
    /\ ~Busy(w)
    /\ undoStack # <<>>
    /\ started < MaxItems
    /\ LET top == Len(undoStack)
           record == undoStack[top]
           alone == record.alone /\ \A v \in Workers : ~Busy(v)
       IN /\ job' = [Disturbed(job) EXCEPT ![w] =
                       [kind |-> "undo", at |-> "item", record |-> record, i |-> 1,
                        dst |-> <<>>, item |-> NoItem, error |-> FALSE, alone |-> alone]]
          /\ undoStack' = DisturbedStack(SubSeq(undoStack, 1, top - 1))
    /\ started' = started + 1
    /\ UNCHANGED <<disk, lost>>

Undoing(w, kind) == /\ AtStep(w, "item") /\ Kind(w) = "undo"
                    /\ job[w].record.kind = kind
                    /\ job[w].i <= Len(job[w].record.pairs)

EndOfPairs(w) ==
    /\ AtStep(w, "item") /\ Kind(w) = "undo"
    /\ job[w].i > Len(job[w].record.pairs)
    /\ To(w, [job[w] EXCEPT !.at = "finish"])
    /\ UNCHANGED <<disk, undoStack, started, lost>>

\* from.exists(), before anything else.
CheckOrigin(w) ==
    /\ Undoing(w, "MoveBack") \/ Undoing(w, "MoveBackCross")
    /\ LET j == job[w] IN
         IF ~Free(Origin(j))
         THEN To(w, Failed(j))
         ELSE To(w, [j EXCEPT !.at = IF j.record.kind = "MoveBack" THEN "back" ELSE "copyback"])
    /\ UNCHANGED <<disk, undoStack, started, lost>>

RenameBack(w) ==
    /\ AtStep(w, "back")
    /\ LET j == job[w] IN
         \/ /\ Rename(Source(j), Origin(j))
            /\ To(w, Landed(j))
         \/ /\ To(w, Failed(j))
            /\ UNCHANGED <<disk, lost>>
    /\ UNCHANGED <<undoStack, started>>

\* copy_back_moved_item: the copy goes beside the origin, under the name it
\* has now, and skips when that name is taken.
PlanCopyBack(w) ==
    /\ AtStep(w, "copyback")
    /\ LET j == job[w]
           dst == In(Origin(j)[1], Source(j))
       IN IF Free(Source(j)) \/ ~Free(dst)
          THEN To(w, Failed(j))
          ELSE To(w, [j EXCEPT !.dst = dst, !.at = "write"])
    /\ UNCHANGED <<disk, undoStack, started, lost>>

\* Mutant: the copy keeps the name it was copied back under.
KeepName(w) ==
    /\ AtStep(w, "name")
    /\ To(w, [job[w] EXCEPT !.at = "unlink"])
    /\ UNCHANGED <<disk, undoStack, started, lost>>

\* Then it takes the name it had, whoever has taken that name since.
RestoreName(w) ==
    /\ AtStep(w, "name")
    /\ LET j == job[w] IN
         \/ /\ j.dst = Origin(j)
            /\ To(w, [j EXCEPT !.at = "unlink"])
            /\ UNCHANGED <<disk, lost>>
         \/ /\ j.dst # Origin(j) /\ Rename(j.dst, Origin(j))
            /\ To(w, [j EXCEPT !.at = "unlink"])
         \/ /\ j.dst # Origin(j)
            /\ IF Free(j.dst) THEN UNCHANGED disk
               ELSE \E left \in {NoItem} \cup Leftovers(j.dst) : disk' = [disk EXCEPT ![j.dst] = left]
            /\ lost' = lost \cup Destroyed(j.dst, "raced")
            /\ To(w, Failed(j))
    /\ UNCHANGED <<undoStack, started>>

\* RemoveCreated deletes whatever the path holds by now.
RemoveCreated(w) ==
    /\ Undoing(w, "RemoveCreated")
    /\ LET j == job[w]
           p == Source(j)
           gone == IF j.alone THEN {} ELSE Destroyed(p, "stale")
       IN \/ /\ ~Free(p)
             /\ disk' = [disk EXCEPT ![p] = NoItem]
             /\ lost' = lost \cup gone
             /\ To(w, Landed(j))
          \/ /\ IF Free(p) THEN UNCHANGED disk
                ELSE \E left \in Leftovers(p) : disk' = [disk EXCEPT ![p] = left]
             /\ lost' = lost \cup gone
             /\ To(w, Failed(j))
    /\ UNCHANGED <<undoStack, started>>

\* A failed undo is reported; its record is gone.
FinishUndo(w) ==
    /\ AtStep(w, "finish") /\ Kind(w) = "undo"
    /\ To(w, Idle)
    /\ UNCHANGED <<disk, undoStack, started, lost>>

----
(* The specification.                                                      *)

Init == /\ disk \in Layouts
        /\ job = [w \in Workers |-> Idle]
        /\ undoStack = <<>>
        /\ started = 0
        /\ lost = {}

Engine(w) ==
    \/ EndOfItems(w) \/ StopBeforeItem(w) \/ ResolveItem(w)
    \/ RenameItem(w) \/ CloneItem(w)
    \/ BeginCopy(w) \/ FinishCopy(w) \/ CancelCopy(w) \/ FailCopy(w)
    \/ UnlinkSource(w)

Undo(w) ==
    \/ EndOfPairs(w) \/ CheckOrigin(w) \/ RenameBack(w)
    \/ PlanCopyBack(w) \/ RestoreName(w) \/ RemoveCreated(w) \/ FinishUndo(w)

Next ==
    \E w \in Workers :
       \/ \E sources \in Selections, dest \in Targets, mode \in {"Copy", "Move", "Auto"} :
             Start(w, sources, dest, mode)
       \/ Plan(w) \/ PlanFails(w) \/ Dismiss(w)
       \/ \E choice \in {"KeepBoth", "Replace", "Skip"}, rest \in BOOLEAN : Answer(w, choice, rest)
       \/ Engine(w)
       \/ \E open \in BOOLEAN : FinishTransfer(w, open)
       \/ PopUndo(w) \/ Undo(w)

Spec == Init /\ [][Next]_vars

----
(* Properties.                                                             *)

Pair == [from : Path, to : Path, item : Item]
Record == [kind : {"MoveBack", "MoveBackCross", "RemoveCreated"}, pairs : Seq(Pair),
           replaced : Nat, alone : BOOLEAN]

\* Paths hold items, jobs stay within their batches, and the undo stack of
\* the process never exceeds its cap.
TypeOK ==
    /\ disk \in [Path -> Item \cup {NoItem}]
    /\ undoStack \in Seq(Record) /\ Len(undoStack) <= UndoCap
    /\ started \in 0..MaxItems
    /\ lost \subseteq Contents \X {"asked", "unasked", "self", "raced", "stale"}
    /\ \A w \in Workers : Busy(w) =>
         IF Kind(w) = "transfer"
         THEN /\ job[w].sources \in Selections /\ job[w].i \in 1..Len(job[w].sources) + 1
              /\ job[w].created \in Seq(Pair)
         ELSE job[w].record \in Record /\ job[w].i \in 1..Len(job[w].record.pairs) + 1

Whole(c) == \E p \in Path : disk[p] = [c |-> c, whole |-> TRUE]

\* Copies, moves and undos, in any interleaving, failing and cancelled
\* anywhere, leave a whole copy of every content somewhere, except where a
\* step of one of the kinds in Excused destroyed the last: a Replace of the
\* item the user was asked about ("asked"), of an item that has taken its
\* place since ("unasked") or of the source itself ("self"); a name taken, or
\* an item replaced, by another operation between a check and its use
\* ("raced"); the undo of a copy after other operations, or after a Replace of
\* the same batch that stopped half way ("stale").  In particular the deletions
\* that end a move, the undo of a move or a cancelled copy never take the last
\* whole copy.
NothingLost == \A c \in Contents : Whole(c) \/ \E why \in Excused : <<c, why>> \in lost

\* A transfer that nothing else disturbed reports the truth: what it says it
\* created is there, sources it moved are gone from where they were, and at
\* least a part of the others is where they were, unless a Replace took them.
\* (What was moved out of the way within the destination may have been
\* followed under its old name by another item.)
OutcomeIsTrue ==
    \A w \in Workers : AtStep(w, "finish") /\ Kind(w) = "transfer" /\ job[w].alone =>
      LET j == job[w]
          Created(s) == {pair \in {j.created[k] : k \in DOMAIN j.created} : pair.from = s}
      IN \A k \in DOMAIN j.sources : LET s == j.sources[k] IN
           \/ j.replaced > 0
           \/ /\ \A pair \in Created(s) : disk[pair.to] = pair.item
              /\ IF Moves(j) /\ Created(s) # {}
                 THEN s[1] = j.dest \/ Free(s)
                 ELSE ~Free(s)

\* In-batch collisions: no two items of a transfer land on one destination,
\* unless a Replace makes room for the second.
DestinationsDistinct ==
    \A w \in Workers : Kind(w) = "transfer" /\ job[w].replaced = 0 =>
      \A k, l \in DOMAIN job[w].created :
         k # l /\ job[w].alone => job[w].created[k].to # job[w].created[l].to

\* The state is well formed, with distinct destinations and a bounded stack.
TransfersConsistent == TypeOK /\ DestinationsDistinct

\* An undo that succeeds, with nothing else in between, is an inverse: every
\* item is back under the name it had, and nothing is left where it was taken.
UndoIsInverse ==
    \A w \in Workers :
      AtStep(w, "finish") /\ Kind(w) = "undo" /\ job[w].alone /\ ~job[w].error =>
        \A k \in DOMAIN job[w].record.pairs : LET pair == job[w].record.pairs[k] IN
           \/ disk[pair.from] = pair.item /\ Free(pair.to)
           \/ job[w].record.replaced > 0

\* An undo never destroys the last whole copy of anything (FILE_OPS.md,
\* Undo: a copy is undone only when that cannot delete the only remaining
\* version).
UndoKeepsLastCopy ==
    [][\A w \in Workers : Kind(w) = "undo" /\ job'[w] # job[w] =>
         \A c \in Contents : Whole(c) => Whole(c)']_vars

=============================================================================
