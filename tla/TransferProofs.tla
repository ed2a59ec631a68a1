--------------------------- MODULE TransferProofs ---------------------------
(***************************************************************************)
(* The four invariants of Transfer, for any folders, volumes, names,       *)
(* batches and number of operations.                                       *)
(*                                                                         *)
(* TransferInv says of each job its shape (JobShaped), what the step it is *)
(* about to take relies on (TransferStands, UndoStands), and what it has   *)
(* brought about so far (TransferTidy, UndoTidy; RecordTidy for the record *)
(* it leaves).  The second holds of a job that no other has disturbed or   *)
(* could disturb, the third of one that nothing has disturbed: such a job  *)
(* is the only one (AloneIsAlone), so only its own steps can break them.   *)
(* One lemma says so for each action, two where transfers and undos differ.*)
(***************************************************************************)
EXTENDS Transfer, SequenceTheorems, WellFoundedInduction, TLAPS

----
(* The shape of the state.                                                 *)

Modes == {"Copy", "Move", "Auto"}
Choices == {"KeepBoth", "Replace", "Skip"}
Reasons == {"asked", "unasked", "self", "raced", "stale"}
Disks == [Path -> Item \cup {NoItem}]
Answers(V) == UNION {[S -> V] : S \in SUBSET Path}

TransferJobs ==
    [kind : {"transfer"}, at : {"plan", "ask", "item", "write", "copy", "unlink", "finish"},
     sources : Selections, dest : Targets, mode : Modes,
     asked : Answers(Item), policy : Answers(Choices), i : Nat, dst : Path \cup {<<>>},
     item : Item \cup {NoItem}, created : Seq(Pair), skipped : Nat, replaced : Nat,
     failed : Nat, cancelled : BOOLEAN, alone : BOOLEAN]

UndoJobs ==
    [kind : {"undo"}, at : {"item", "back", "copyback", "write", "copy", "name", "unlink", "finish"},
     record : Record, i : Nat, dst : Path \cup {<<>>}, item : Item \cup {NoItem},
     error : BOOLEAN, alone : BOOLEAN]

\* Where a transfer is in its batch, and what it has resolved by then.
TransferPlaced(j) ==
    /\ j.i \in 1..Len(j.sources) + 1
    /\ j.at \in {"write", "copy", "unlink"} =>
          j.i <= Len(j.sources) /\ j.dst \in Path /\ j.dst[1] = j.dest
    /\ j.at \in {"copy", "unlink"} => j.item \in Item /\ ~Renames(j)
    /\ j.at = "unlink" => Moves(j)
    /\ j.at = "plan" => j.policy = <<>>
    /\ j.at = "ask" => /\ DOMAIN j.policy \subseteq DOMAIN j.asked /\ DOMAIN j.policy # DOMAIN j.asked
                       /\ DOMAIN j.asked \subseteq {j.sources[k] : k \in DOMAIN j.sources}

RecordShaped(r) ==
    r \in Record /\ (r.kind \in {"RemoveCreated", "MoveBackCross"} => r.replaced = 0)

UndoPlaced(j) ==
    /\ RecordShaped(j.record)
    /\ j.i \in 1..Len(j.record.pairs) + 1
    /\ j.at \notin {"item", "finish"} => j.i <= Len(j.record.pairs)
    /\ j.at = "back" => j.record.kind = "MoveBack"
    /\ j.at \in {"copyback", "write", "copy", "name", "unlink"} => j.record.kind = "MoveBackCross"
    /\ j.at \in {"write", "copy", "name", "unlink"} =>
          j.dst = In(Origin(j)[1], Source(j)) /\ Origin(j)[1] # Source(j)[1]
    /\ j.at \in {"copy", "name", "unlink"} => j.item \in Item
    /\ j.at = "finish" /\ ~j.error => j.i = Len(j.record.pairs) + 1
    /\ j.error => j.at = "finish" \/ j.record.kind = "MoveBackCross"

JobShaped(j) ==
    \/ j = Idle
    \/ j \in TransferJobs /\ TransferPlaced(j)
    \/ j \in UndoJobs /\ UndoPlaced(j)

----
(* What a job relies on, on the disk d, when no other job interferes.      *)

Empty(d, p) == d[p] = NoItem

TransferStands(d, j) ==
    /\ j.at = "write" => Empty(d, j.dst)
    /\ j.at = "copy" => d[j.dst] = Part(j.item) /\ d[Source(j)] = j.item /\ j.dst # Source(j)
    /\ j.at = "unlink" => d[j.dst] = j.item /\ d[Source(j)] = j.item

UndoStands(d, j) ==
    /\ j.at \in {"back", "copyback", "write"} => Empty(d, Origin(j))
    /\ j.at = "write" => Empty(d, j.dst)
    /\ j.at = "copy" => d[j.dst] = Part(j.item)
    /\ j.at = "name" => d[j.dst] = j.item
    /\ j.at \in {"copy", "name"} => j.dst = Origin(j) \/ Empty(d, Origin(j))
    /\ j.at = "unlink" => d[Origin(j)] = j.item
    /\ j.at \in {"copy", "name", "unlink"} => d[Source(j)] = j.item

----
(* What a job that nothing has disturbed has brought about.                *)

\* What each of the pairs says was done can still be undone.
Apart(pairs) ==
    \A m, n \in DOMAIN pairs :
        /\ m # n => pairs[m].to # pairs[n].to
        /\ m < n => pairs[m].to # pairs[n].from

CopiesApart(pairs) == \A m, n \in DOMAIN pairs : pairs[m].to # pairs[n].from

\* A source that the transfer has moved away.
Gone(j, s) == Moves(j) /\ \E m \in DOMAIN j.created : j.created[m].from = s

TransferTidy(d, j) ==
    /\ j.at \in {"plan", "ask"} => j.created = <<>>
    /\ j.at # "plan" => \A k \in DOMAIN j.sources : ~Empty(d, j.sources[k]) \/ Gone(j, j.sources[k])
    /\ \A m \in DOMAIN j.created : \E k \in 1..(j.i - 1) : j.created[m].from = j.sources[k]
    /\ \A m \in DOMAIN j.created : d[j.created[m].to] = j.created[m].item
    /\ \A m \in DOMAIN j.created : \A k \in DOMAIN j.sources :
          j.created[m].to = j.sources[k] => Gone(j, j.sources[k])
    /\ Apart(j.created)
    /\ \A m \in DOMAIN j.created :
          IF Moves(j)
          THEN j.created[m].from[1] # j.dest => Empty(d, j.created[m].from)
          ELSE d[j.created[m].from] = j.created[m].item
    /\ j.at \in {"copy", "unlink"} =>
          /\ \A m \in DOMAIN j.created : j.created[m].to # j.dst
          /\ \A k \in DOMAIN j.sources : j.dst = j.sources[k] => Gone(j, j.sources[k])

RecordTidy(d, r) ==
    /\ Apart(r.pairs)
    /\ \A m \in DOMAIN r.pairs : d[r.pairs[m].to] = r.pairs[m].item
    /\ r.kind = "RemoveCreated" =>
          /\ CopiesApart(r.pairs)
          /\ \A m \in DOMAIN r.pairs : d[r.pairs[m].from] = r.pairs[m].item

UndoTidy(d, j) ==
    LET pairs == j.record.pairs IN
    /\ Apart(pairs)
    /\ \A m \in DOMAIN pairs : m < j.i =>
          /\ d[pairs[m].from] = pairs[m].item
          /\ \/ Empty(d, pairs[m].to)
             \/ pairs[m].to = j.dst /\ j.dst # Origin(j) /\ j.at \in {"copy", "name"}
    /\ \A m \in DOMAIN pairs : m >= j.i => d[pairs[m].to] = pairs[m].item
    /\ j.record.kind = "RemoveCreated" =>
          /\ CopiesApart(pairs)
          /\ \A m \in DOMAIN pairs : d[pairs[m].from] = pairs[m].item
    /\ \A m, n \in DOMAIN pairs :
          m < j.i /\ n >= j.i => pairs[m].from # pairs[n].to
    /\ j.at \notin {"item", "finish"} =>
          \A n \in DOMAIN pairs : n >= j.i => Origin(j) # pairs[n].to
    /\ j.at \in {"copy", "name"} =>
          \A n \in DOMAIN pairs : IF n < j.i THEN pairs[n].from # j.dst ELSE pairs[n].to # j.dst

----
(* The inductive invariant.                                                *)

OneAtATime == \A v, w \in Workers : v = w
Undisturbed(j) == j.alone \/ OneAtATime

JobFine(d, j) ==
    /\ JobShaped(j)
    /\ j.kind = "transfer" =>
          /\ Undisturbed(j) => TransferStands(d, j)
          /\ j.alone /\ j.replaced = 0 => TransferTidy(d, j)
    /\ j.kind = "undo" =>
          /\ Undisturbed(j) => UndoStands(d, j)
          /\ j.alone /\ j.record.replaced = 0 /\ ~j.error => UndoTidy(d, j)

RecordFine(d, r) ==
    /\ RecordShaped(r)
    /\ r.alone /\ r.replaced = 0 => RecordTidy(d, r)

\* A job or a record that is "alone" is the only one.
AloneIsAlone ==
    /\ \A v, w \in Workers : Busy(v) /\ Busy(w) /\ job[w].alone => v = w
    /\ \A k \in DOMAIN undoStack, w \in Workers : undoStack[k].alone => ~Busy(w)

LossesExcused == \A loss \in lost : loss \in Contents \X Reasons /\ loss[2] \in Excused

TransferInv ==
    /\ disk \in Disks /\ DOMAIN job = Workers /\ \A w \in Workers : JobFine(disk, job[w])
    /\ undoStack \in Seq(Record) /\ Len(undoStack) <= UndoCap
    /\ \A k \in DOMAIN undoStack : RecordFine(disk, undoStack[k])
    /\ started \in 0..MaxItems
    /\ AloneIsAlone /\ LossesExcused /\ NothingLost

----
(* Jobs, field by field.                                                   *)

LEMMA IdleJob == /\ Idle \notin TransferJobs /\ Idle \notin UndoJobs
                 /\ Idle.kind = "idle" /\ TransferJobs \cap UndoJobs = {}
<1>1. Idle.kind = "idle"
  BY DEF Idle
<1>2. \A j \in TransferJobs : j.kind = "transfer"
  BY DEF TransferJobs
<1>3. \A j \in UndoJobs : j.kind = "undo"
  BY DEF UndoJobs
<1>. QED  BY <1>1, <1>2, <1>3

LEMMA EmptyAnswers == ASSUME NEW V PROVE <<>> \in Answers(V)
<1>1. <<>> \in [{} -> V]
  OBVIOUS
<1>2. {} \in SUBSET Path
  OBVIOUS
<1>. QED  BY <1>1, <1>2 DEF Answers

LEMMA TransferFields ==
    ASSUME NEW j \in TransferJobs
    PROVE  /\ \A x \in Nat : [j EXCEPT !.i = x] \in TransferJobs
           /\ \A x \in {"plan", "ask", "item", "write", "copy", "unlink", "finish"} :
                 [j EXCEPT !.at = x] \in TransferJobs
           /\ \A x \in Path \cup {<<>>} : [j EXCEPT !.dst = x] \in TransferJobs
           /\ \A x \in Item \cup {NoItem} : [j EXCEPT !.item = x] \in TransferJobs
           /\ \A x \in Seq(Pair) : [j EXCEPT !.created = x] \in TransferJobs
           /\ \A x \in Nat : [j EXCEPT !.skipped = x] \in TransferJobs
           /\ \A x \in Nat : [j EXCEPT !.replaced = x] \in TransferJobs
           /\ \A x \in Nat : [j EXCEPT !.failed = x] \in TransferJobs
           /\ \A x \in BOOLEAN : [j EXCEPT !.cancelled = x] \in TransferJobs
           /\ \A x \in BOOLEAN : [j EXCEPT !.alone = x] \in TransferJobs
           /\ \A x \in Answers(Item) : [j EXCEPT !.asked = x] \in TransferJobs
           /\ \A x \in Answers(Choices) : [j EXCEPT !.policy = x] \in TransferJobs
BY ZenonT(60) DEF TransferJobs

LEMMA UndoFields ==
    ASSUME NEW j \in UndoJobs
    PROVE  /\ \A x \in Nat : [j EXCEPT !.i = x] \in UndoJobs
           /\ \A x \in {"item", "back", "copyback", "write", "copy", "name", "unlink", "finish"} :
                 [j EXCEPT !.at = x] \in UndoJobs
           /\ \A x \in Path \cup {<<>>} : [j EXCEPT !.dst = x] \in UndoJobs
           /\ \A x \in Item \cup {NoItem} : [j EXCEPT !.item = x] \in UndoJobs
           /\ \A x \in BOOLEAN : [j EXCEPT !.error = x] \in UndoJobs
           /\ \A x \in BOOLEAN : [j EXCEPT !.alone = x] \in UndoJobs
BY DEF UndoJobs

LEMMA Domains ==
    /\ \A j \in TransferJobs : DOMAIN j = {"kind", "at", "sources", "dest", "mode", "asked", "policy",
            "i", "dst", "item", "created", "skipped", "replaced", "failed", "cancelled", "alone"}
    /\ \A j \in UndoJobs : DOMAIN j = {"kind", "at", "record", "i", "dst", "item", "error", "alone"}
BY DEF TransferJobs, UndoJobs

LEMMA NatMinimum ==
    ASSUME NEW T, T \subseteq Nat, T # {}
    PROVE  \E x \in T : \A y \in T : x <= y
<1> DEFINE R == OpToRel(<, Nat)
<1>1. IsWellFoundedOn(R, Nat)
  BY NatLessThanWellFounded
<1> HIDE DEF R
<1>2. PICK x \in T : \A y \in T : <<y, x>> \notin R
  BY <1>1, WFMin
<1>3. \A y \in T : ~(y < x)
  BY <1>2 DEF R, OpToRel
<1> QED
  BY <1>3

SameBatch(r, j) ==
    /\ r \in TransferJobs
    /\ r.sources = j.sources /\ r.dest = j.dest /\ r.mode = j.mode
    /\ r.replaced = j.replaced /\ r.alone = j.alone

\* Moving on to the next item keeps the batch and what was created.
LEMMA NextItemFields ==
    ASSUME NEW j \in TransferJobs
    PROVE  /\ SameBatch(NextItem(j), j)
           /\ NextItem(j).at = "item" /\ NextItem(j).i = j.i + 1 /\ NextItem(j).created = j.created
<1>1. DEFINE j1 == [j EXCEPT !.i = @ + 1]
             j2 == [j1 EXCEPT !.at = "item"]
             j3 == [j2 EXCEPT !.dst = <<>>]
             j4 == [j3 EXCEPT !.item = NoItem]
<1>2. j1 \in TransferJobs
  <2>1. j.i + 1 \in Nat
    BY DEF TransferJobs
  <2>2. j1 = [j EXCEPT !.i = j.i + 1]
    OBVIOUS
  <2>. QED  BY <2>1, <2>2, TransferFields
<1>3. NextItem(j) = j4
  BY DEF NextItem
<1>4. j4 = [f \in DOMAIN j |-> CASE f = "i" -> j.i + 1 [] f = "at" -> "item" [] f = "dst" -> <<>>
                                  [] f = "item" -> NoItem [] OTHER -> j[f]]
  BY Domains
<1>. HIDE DEF j1
<1>5. j2 \in TransferJobs
  BY <1>2, TransferFields
<1>. HIDE DEF j2
<1>6. j3 \in TransferJobs
  BY <1>5, TransferFields
<1>. HIDE DEF j3
<1>7. j4 \in TransferJobs
  BY <1>6, TransferFields
<1>. HIDE DEF j4
<1>. QED  BY <1>3, <1>4, <1>7, Domains DEF SameBatch

LEMMA FailedFields ==
    ASSUME NEW j \in TransferJobs
    PROVE  /\ SameBatch(Failed(j), j)
           /\ Failed(j).at = "item" /\ Failed(j).i = j.i + 1 /\ Failed(j).created = j.created
<1>1. DEFINE n == NextItem(j)
             r == [n EXCEPT !.failed = @ + 1]
<1>2. Failed(j) = r
  BY DEF Failed, TransferJobs
<1>3. SameBatch(n, j) /\ n.at = "item" /\ n.i = j.i + 1 /\ n.created = j.created
  BY NextItemFields
<1>. HIDE DEF n
<1>4. n \in TransferJobs /\ n.failed + 1 \in Nat
  BY <1>3 DEF SameBatch, TransferJobs
<1>5. r \in TransferJobs
  BY <1>4, TransferFields
<1>6. \A f \in DOMAIN n \ {"failed"} : r[f] = n[f]
  OBVIOUS
<1>. HIDE DEF r
<1>. QED  BY <1>2, <1>3, <1>4, <1>5, <1>6, Domains DEF SameBatch

LEMMA StoppedFields ==
    ASSUME NEW j \in TransferJobs
    PROVE  /\ SameBatch(Stopped(j), j)
           /\ Stopped(j).at = "finish" /\ Stopped(j).i = j.i /\ Stopped(j).created = j.created
<1>1. DEFINE j1 == [j EXCEPT !.cancelled = TRUE]
             j2 == [j1 EXCEPT !.at = "finish"]
             j3 == [j2 EXCEPT !.dst = <<>>]
             j4 == [j3 EXCEPT !.item = NoItem]
<1>2. j1 \in TransferJobs
  BY TransferFields
<1>3. Stopped(j) = j4
  BY DEF Stopped
<1>4. j4 = [f \in DOMAIN j |-> CASE f = "cancelled" -> TRUE [] f = "at" -> "finish" [] f = "dst" -> <<>>
                                  [] f = "item" -> NoItem [] OTHER -> j[f]]
  BY Domains
<1>. HIDE DEF j1
<1>5. j2 \in TransferJobs
  BY <1>2, TransferFields
<1>. HIDE DEF j2
<1>6. j3 \in TransferJobs
  BY <1>5, TransferFields
<1>. HIDE DEF j3
<1>7. j4 \in TransferJobs
  BY <1>6, TransferFields
<1>. HIDE DEF j4
<1>. QED  BY <1>3, <1>4, <1>7, Domains DEF SameBatch

NewPair(j) == [from |-> Source(j), to |-> j.dst, item |-> j.item]

LEMMA LandedFields ==
    ASSUME NEW j \in TransferJobs, j.i \in DOMAIN j.sources, j.dst \in Path, j.item \in Item
    PROVE  /\ SameBatch(Landed(j), j)
           /\ Landed(j).at = "item" /\ Landed(j).i = j.i + 1
           /\ Landed(j).created = Append(j.created, NewPair(j))
<1>1. DEFINE n == NextItem(j)
             r == [n EXCEPT !.created = Append(@, NewPair(j))]
<1>2. Landed(j) = r
  BY DEF Landed, TransferJobs, NewPair
<1>3. SameBatch(n, j) /\ n.at = "item" /\ n.i = j.i + 1 /\ n.created = j.created
  BY NextItemFields
<1>. HIDE DEF n
<1>4. n \in TransferJobs
  BY <1>3 DEF SameBatch
<1>a. Source(j) \in Path
  BY SelectionsAssumption DEF Source, TransferJobs
<1>b. Append(j.created, NewPair(j)) \in Seq(Pair)
  BY <1>a DEF NewPair, Pair, TransferJobs
<1>5. r \in TransferJobs
  BY <1>3, <1>4, <1>b, TransferFields
<1>6. \A f \in DOMAIN n \ {"created"} : r[f] = n[f]
  OBVIOUS
<1>7. r.created = Append(j.created, NewPair(j))
  BY <1>3, <1>4, Domains
<1>. HIDE DEF r
<1>. QED  BY <1>2, <1>3, <1>4, <1>5, <1>6, <1>7, Domains DEF SameBatch

----
(* The same for undo.                                                      *)

SameUndo(r, j) == r \in UndoJobs /\ r.record = j.record /\ r.alone = j.alone

LEMMA NextPairFields ==
    ASSUME NEW j \in UndoJobs
    PROVE  /\ SameUndo(NextItem(j), j)
           /\ NextItem(j).at = "item" /\ NextItem(j).i = j.i + 1 /\ NextItem(j).error = j.error
           /\ NextItem(j).dst = <<>>
<1>1. DEFINE j1 == [j EXCEPT !.i = @ + 1]
             j2 == [j1 EXCEPT !.at = "item"]
             j3 == [j2 EXCEPT !.dst = <<>>]
             j4 == [j3 EXCEPT !.item = NoItem]
<1>2. j1 \in UndoJobs
  BY UndoFields DEF UndoJobs
<1>3. NextItem(j) = j4
  BY DEF NextItem
<1>4. j4 = [f \in DOMAIN j |-> CASE f = "i" -> j.i + 1 [] f = "at" -> "item" [] f = "dst" -> <<>>
                                  [] f = "item" -> NoItem [] OTHER -> j[f]]
  BY Domains
<1>. HIDE DEF j1
<1>5. j2 \in UndoJobs
  BY <1>2, UndoFields
<1>. HIDE DEF j2
<1>6. j3 \in UndoJobs
  BY <1>5, UndoFields
<1>. HIDE DEF j3
<1>7. j4 \in UndoJobs
  BY <1>6, UndoFields
<1>. HIDE DEF j4
<1>. QED  BY <1>3, <1>4, <1>7, Domains DEF SameUndo

LEMMA FailedUndoFields ==
    ASSUME NEW j \in UndoJobs
    PROVE  /\ SameUndo(Failed(j), j) /\ Failed(j).error
           /\ IF j.record.kind = "MoveBackCross" THEN Failed(j).at = "item" /\ Failed(j).i = j.i + 1
              ELSE Failed(j).at = "finish" /\ Failed(j).i = j.i
<1>1. j.kind = "undo"
  BY DEF UndoJobs
<1>2. CASE j.record.kind = "MoveBackCross"
  <2>1. DEFINE n == NextItem(j)
               r == [n EXCEPT !.error = TRUE]
  <2>2. Failed(j) = r
    BY <1>1, <1>2 DEF Failed
  <2>3. SameUndo(n, j) /\ n.at = "item" /\ n.i = j.i + 1
    BY NextPairFields
  <2>. HIDE DEF n
  <2>4. n \in UndoJobs
    BY <2>3 DEF SameUndo
  <2>5. r \in UndoJobs /\ r.error /\ \A f \in DOMAIN n \ {"error"} : r[f] = n[f]
    BY <2>4, UndoFields, Domains
  <2>. HIDE DEF r
  <2>. QED  BY <1>2, <2>2, <2>3, <2>4, <2>5, Domains DEF SameUndo
<1>3. CASE j.record.kind # "MoveBackCross"
  <2>1. DEFINE n == [j EXCEPT !.error = TRUE]
               r == [n EXCEPT !.at = "finish"]
  <2>2. Failed(j) = r
    BY <1>1, <1>3 DEF Failed
  <2>3. n \in UndoJobs /\ n.error /\ \A f \in DOMAIN j \ {"error"} : n[f] = j[f]
    BY UndoFields, Domains
  <2>. HIDE DEF n
  <2>4. r \in UndoJobs /\ r.at = "finish" /\ \A f \in DOMAIN n \ {"at"} : r[f] = n[f]
    BY <2>3, UndoFields, Domains
  <2>. HIDE DEF r
  <2>. QED  BY <1>3, <2>2, <2>3, <2>4, Domains DEF SameUndo
<1>. QED  BY <1>2, <1>3

----
(* What a write or a rename may destroy.                                   *)

DiskFine == disk \in Disks /\ LossesExcused /\ NothingLost

LEMMA WholeItem ==
    ASSUME NEW c \in Contents
    PROVE  LET item == [c |-> c, whole |-> TRUE] IN item \in Item /\ item.c = c /\ item.whole
<1>1. [c |-> c, whole |-> TRUE] \in Item
  BY DEF Item
<1>2. [c |-> c, whole |-> TRUE].c = c
  OBVIOUS
<1>3. [c |-> c, whole |-> TRUE].whole = TRUE
  OBVIOUS
<1>. QED  BY <1>1, <1>2, <1>3, Zenon

\* A write at p keeps a whole copy of every content, or its last copy was at p.
LEMMA WriteKeeps ==
    ASSUME disk \in Disks, NEW p \in Path, NEW x \in Item \cup {NoItem},
           disk' = [disk EXCEPT ![p] = x], NEW c \in Contents, Whole(c)
    PROVE  Whole(c)' \/ (IsLast(p) /\ disk[p].c = c)
<1>1. PICK q \in Path : disk[q] = [c |-> c, whole |-> TRUE]
  BY DEF Whole
<1>2. CASE q # p
  BY <1>1, <1>2 DEF Whole, Disks
<1>3. CASE q = p
  <2>1. disk[p] \in Item /\ disk[p].c = c /\ disk[p].whole
    BY <1>1, <1>3, WholeItem
  <2>2. CASE \E r \in Path \ {p} : disk[r] = disk[p]
    BY <1>1, <1>3, <2>2 DEF Whole, Disks
  <2>3. CASE \A r \in Path \ {p} : disk[r] # disk[p]
    BY <2>1, <2>3, NoItemAssumption DEF IsLast, Free
  <2>. QED  BY <2>2, <2>3
<1>. QED  BY <1>2, <1>3

LEMMA WriteRecorded ==
    ASSUME DiskFine, NEW p \in Path, NEW x \in Item \cup {NoItem},
           disk' = [disk EXCEPT ![p] = x], NEW why \in Reasons, IsLast(p) => why \in Excused,
           lost' = lost \cup Destroyed(p, why)
    PROVE  DiskFine'
<1>1. disk' \in Disks
  BY DEF Disks, DiskFine
<1>2. LossesExcused'
  <2>1. CASE IsLast(p)
    <3>1. disk[p].c \in Contents
      BY <2>1 DEF IsLast, Free, DiskFine, Disks, Item
    <3>. QED  BY <2>1, <3>1 DEF DiskFine, LossesExcused, Destroyed
  <2>2. CASE ~IsLast(p)
    BY <2>2 DEF DiskFine, LossesExcused, Destroyed
  <2>. QED  BY <2>1, <2>2
<1>3. ASSUME NEW c \in Contents PROVE (Whole(c) \/ \E r \in Excused : <<c, r>> \in lost)'
  <2>1. CASE Whole(c)
    BY <2>1, WriteKeeps DEF DiskFine, Destroyed
  <2>2. CASE \E r \in Excused : <<c, r>> \in lost
    BY <2>2
  <2>. QED  BY <2>1, <2>2 DEF DiskFine, NothingLost
<1>. QED  BY <1>1, <1>2, <1>3 DEF DiskFine, NothingLost

\* What is not the last whole copy may go without a word.
LEMMA WriteHarmless ==
    ASSUME DiskFine, NEW p \in Path, NEW x \in Item \cup {NoItem},
           disk' = [disk EXCEPT ![p] = x], ~IsLast(p), lost' = lost
    PROVE  DiskFine'
<1>1. lost' = lost \cup Destroyed(p, "asked") /\ "asked" \in Reasons
  BY DEF Destroyed, Reasons
<1>. QED  BY <1>1, WriteRecorded

LEMMA NothingWritten ==
    ASSUME DiskFine, disk' = disk, lost' = lost
    PROVE  DiskFine'
BY DEF DiskFine, LossesExcused, NothingLost, Whole

LEMMA FreeIsNotLast == \A p \in Path : Free(p) => ~IsLast(p)
BY DEF IsLast

LEMMA RenameRecorded ==
    ASSUME DiskFine, NEW p \in Path, NEW q \in Path, Rename(p, q),
           p # q /\ IsLast(q) => "raced" \in Excused
    PROVE  DiskFine'
<1>1. CASE p = q
  BY <1>1, NothingWritten DEF Rename
<1>2. CASE p # q
  <2>1. disk' = [disk EXCEPT ![q] = disk[p], ![p] = NoItem] /\ lost' = lost \cup Destroyed(q, "raced")
    BY <1>2 DEF Rename
  <2>2. disk' \in Disks
    BY <2>1 DEF DiskFine, Disks
  <2>3. LossesExcused'
    <3>1. CASE IsLast(q)
      <4>1. disk[q].c \in Contents
        BY <3>1 DEF IsLast, Free, DiskFine, Disks, Item
      <4>. QED  BY <1>2, <2>1, <3>1, <4>1 DEF DiskFine, LossesExcused, Destroyed, Reasons
    <3>2. CASE ~IsLast(q)
      BY <2>1, <3>2 DEF DiskFine, LossesExcused, Destroyed
    <3>. QED  BY <3>1, <3>2
  <2>4. ASSUME NEW c \in Contents PROVE (Whole(c) \/ \E r \in Excused : <<c, r>> \in lost)'
    <3>1. CASE \E r \in Excused : <<c, r>> \in lost
      BY <2>1, <3>1
    <3>2. CASE Whole(c)
      <4>1. PICK o \in Path : disk[o] = [c |-> c, whole |-> TRUE]
        BY <3>2 DEF Whole
      <4>2. CASE o = p
        <5>1. disk'[q] = disk[p]
          BY <1>2, <2>1 DEF DiskFine, Disks
        <5>. QED  BY <4>1, <4>2, <5>1 DEF Whole
      <4>3. CASE o # p /\ o # q
        <5>1. disk'[o] = disk[o]
          BY <2>1, <4>3 DEF DiskFine, Disks
        <5>. QED  BY <4>1, <5>1 DEF Whole
      <4>4. CASE o # p /\ o = q
        <5>1. CASE IsLast(q)
          <6>1. <<c, "raced">> \in lost'
            BY <2>1, <4>1, <4>4, <5>1 DEF Destroyed
          <6>. QED  BY <1>2, <5>1, <6>1
        <5>2. CASE ~IsLast(q)
          <6>1. PICK r \in Path \ {q} : disk[r] = disk[q]
            BY <4>1, <4>4, <5>2, NoItemAssumption, WholeItem DEF IsLast, Free
          <6>2. disk'[r] = disk[r] \/ (r = p /\ disk'[q] = disk[r])
            BY <1>2, <2>1, <6>1 DEF DiskFine, Disks
          <6>. QED  BY <4>1, <4>4, <6>1, <6>2 DEF Whole
        <5>. QED  BY <5>1, <5>2
      <4>. QED  BY <4>2, <4>3, <4>4
    <3>. QED  BY <3>1, <3>2 DEF DiskFine, NothingLost
  <2>. QED  BY <2>2, <2>3, <2>4 DEF DiskFine, NothingLost
<1>. QED  BY <1>1, <1>2

LEMMA RacesExcused == ~OneAtATime => "raced" \in Excused
BY ExcusedAssumption DEF OneAtATime

----
(* A job that runs is the only one that is disturbed or not by what it     *)
(* does: the others are not alone any more.                                *)

JobsFine ==
    /\ disk \in Disks /\ DOMAIN job = Workers
    /\ \A w \in Workers : JobFine(disk, job[w])

LEMMA OthersFine ==
    ASSUME TransferInv, NEW w \in Workers, Busy(w), NEW v \in Workers, v # w, NEW d
    PROVE  JobFine(d, job[v]) /\ ~(Busy(v) /\ job[v].alone) /\ ~OneAtATime
<1>1. ~(Busy(v) /\ job[v].alone)
  BY DEF TransferInv, AloneIsAlone
<1>2. ~OneAtATime
  BY DEF OneAtATime
<1>3. JobShaped(job[v])
  BY DEF TransferInv, JobFine
<1>4. job[v].kind \in {"transfer", "undo"} => ~job[v].alone /\ ~Undisturbed(job[v])
  BY <1>1, <1>2 DEF Busy, Undisturbed
<1>. QED  BY <1>1, <1>2, <1>3, <1>4 DEF JobFine

LEMMA RecordsFine ==
    ASSUME TransferInv, NEW w \in Workers, Busy(w), NEW k \in DOMAIN undoStack, NEW d
    PROVE  RecordFine(d, undoStack[k]) /\ ~undoStack[k].alone
<1>1. ~undoStack[k].alone
  BY DEF TransferInv, AloneIsAlone
<1>. QED  BY <1>1 DEF TransferInv, RecordFine

LEMMA StepOfBusy ==
    ASSUME TransferInv, NEW w \in Workers, Busy(w), NEW r, To(w, r),
           UNCHANGED <<undoStack, started>>, DiskFine', JobFine(disk', r),
           r.kind # "idle" /\ r.alone => job[w].alone
    PROVE  TransferInv'
<1>1. job'[w] = r /\ DOMAIN job' = Workers /\ \A v \in Workers : v # w => job'[v] = job[v]
  BY DEF To, TransferInv
<1>2. ASSUME NEW v \in Workers PROVE JobFine(disk', job'[v])
  BY <1>1, OthersFine
<1>3. ASSUME NEW k \in DOMAIN undoStack PROVE RecordFine(disk', undoStack[k])
  BY RecordsFine
<1>4. AloneIsAlone'
  <2>1. ASSUME NEW u \in Workers, NEW v \in Workers, Busy(u)', Busy(v)', job'[v].alone
        PROVE  u = v
    <3>1. CASE v # w
      BY <1>1, <2>1, <3>1, OthersFine DEF Busy
    <3>2. CASE v = w /\ u # w
      <4>1. job[w].alone /\ Busy(u)
        BY <1>1, <2>1, <3>2 DEF Busy
      <4>. QED  BY <4>1, <3>2 DEF TransferInv, AloneIsAlone
    <3>. QED  BY <3>1, <3>2
  <2>2. ASSUME NEW k \in DOMAIN undoStack' PROVE ~undoStack'[k].alone
    BY RecordsFine
  <2>. QED  BY <2>1, <2>2 DEF AloneIsAlone
<1>. QED  BY <1>1, <1>2, <1>3, <1>4 DEF TransferInv, DiskFine

\* How the steps of a transfer and of an undo keep the invariant.
LEMMA StepOfTransfer ==
    ASSUME TransferInv, NEW w \in Workers, job[w] \in TransferJobs, NEW r \in TransferJobs, To(w, r),
           UNCHANGED <<undoStack, started>>, DiskFine', TransferPlaced(r),
           r.alone => job[w].alone,
           Undisturbed(job[w]) => TransferStands(disk', r),
           r.alone /\ r.replaced = 0 => TransferTidy(disk', r)
    PROVE  TransferInv'
<1>1. r.kind = "transfer" /\ job[w].kind = "transfer"
  BY DEF TransferJobs
<1>2. JobFine(disk', r)
  BY <1>1 DEF JobFine, JobShaped, Undisturbed
<1>. QED  BY <1>1, <1>2, StepOfBusy DEF Busy

LEMMA StepOfUndo ==
    ASSUME TransferInv, NEW w \in Workers, job[w] \in UndoJobs, NEW r \in UndoJobs, To(w, r),
           UNCHANGED <<undoStack, started>>, DiskFine', UndoPlaced(r),
           r.alone => job[w].alone,
           Undisturbed(job[w]) => UndoStands(disk', r),
           r.alone /\ r.record.replaced = 0 /\ ~r.error => UndoTidy(disk', r)
    PROVE  TransferInv'
<1>1. r.kind = "undo" /\ job[w].kind = "undo"
  BY DEF UndoJobs
<1>2. JobFine(disk', r)
  BY <1>1 DEF JobFine, JobShaped, Undisturbed
<1>. QED  BY <1>1, <1>2, StepOfBusy DEF Busy

\* What a worker does tells what its job is.
LEMMA JobKinds ==
    ASSUME TransferInv, NEW w \in Workers
    PROVE  /\ Kind(w) = "transfer" => /\ job[w] \in TransferJobs /\ TransferPlaced(job[w])
                                      /\ Undisturbed(job[w]) => TransferStands(disk, job[w])
                                      /\ job[w].alone /\ job[w].replaced = 0 => TransferTidy(disk, job[w])
           /\ Kind(w) = "undo" => /\ job[w] \in UndoJobs /\ UndoPlaced(job[w])
                                  /\ Undisturbed(job[w]) => UndoStands(disk, job[w])
                                  /\ (job[w].alone /\ job[w].record.replaced = 0 /\ ~job[w].error)
                                        => UndoTidy(disk, job[w])
           /\ Busy(w) => Kind(w) \in {"transfer", "undo"}
           /\ ~Busy(w) => job[w] = Idle
<1>1. JobFine(disk, job[w])
  BY DEF TransferInv
<1>2. Idle.kind = "idle" /\ (job[w] \in TransferJobs => Kind(w) = "transfer")
      /\ (job[w] \in UndoJobs => Kind(w) = "undo")
  BY DEF Idle, TransferJobs, UndoJobs, Kind
<1>. QED  BY <1>1, <1>2 DEF JobFine, JobShaped, Kind, Busy

----
(* What a transfer has brought about, from step to step.                   *)

LEMMA SameMoves ==
    ASSUME NEW j, NEW r, r.sources = j.sources, r.dest = j.dest, r.mode = j.mode
    PROVE  Moves(r) = Moves(j)
BY DEF Moves, AllSameVolume

LEMMA CreatedPairs ==
    ASSUME NEW j \in TransferJobs
    PROVE  /\ \A m \in DOMAIN j.created : /\ j.created[m].from \in Path /\ j.created[m].to \in Path
                                          /\ j.created[m].item \in Item
           /\ \A k \in DOMAIN j.sources : j.sources[k] \in Path
           /\ DOMAIN j.sources = 1..Len(j.sources) /\ Len(j.sources) \in Nat
           /\ DOMAIN j.created = 1..Len(j.created) /\ Len(j.created) \in Nat
           /\ \A k, l \in DOMAIN j.sources : j.sources[k] = j.sources[l] => k = l
<1>1. j.created \in Seq(Pair) /\ j.sources \in Selections
  BY DEF TransferJobs
<1>2. j.sources \in Seq(Path)
  BY <1>1, SelectionsAssumption
<1>3. \A p \in Pair : p.from \in Path /\ p.to \in Path /\ p.item \in Item
  BY DEF Pair
<1>. QED  BY <1>1, <1>2, <1>3, SelectionsAssumption

\* A source the transfer has yet to come to has not gone.
LEMMA AheadNotGone ==
    ASSUME NEW d, NEW j \in TransferJobs, TransferPlaced(j), TransferTidy(d, j),
           NEW k \in DOMAIN j.sources, k >= j.i
    PROVE  ~Gone(j, j.sources[k])
<1>1. ASSUME NEW m \in DOMAIN j.created, j.created[m].from = j.sources[k] PROVE FALSE
  <2>1. PICK l \in 1..(j.i - 1) : j.created[m].from = j.sources[l]
    BY DEF TransferTidy
  <2>2. j.i \in Nat /\ l \in DOMAIN j.sources
    BY CreatedPairs DEF TransferPlaced, TransferJobs
  <2>3. l = k
    BY <1>1, <2>1, <2>2, CreatedPairs
  <2>. QED  BY <2>2, <2>3, CreatedPairs
<1>. QED  BY <1>1 DEF Gone

\* A place where the transfer may write without harm to what it has done.
Spare(d, j, q) ==
    /\ \A m \in DOMAIN j.created : j.created[m].to # q
    /\ \A k \in DOMAIN j.sources : j.sources[k] = q => Gone(j, q) \/ (Moves(j) /\ ~Empty(d, q))
    /\ q[1] = j.dest \/ \A m \in DOMAIN j.created : j.created[m].from # q

\* A name no item of the transfer has landed on nor waits at.
Vacant(j, q) ==
    /\ \A m \in DOMAIN j.created : j.created[m].to # q
    /\ \A k \in DOMAIN j.sources : q = j.sources[k] => Gone(j, j.sources[k])

LEMMA TidySame ==
    ASSUME NEW d, NEW e, NEW j \in TransferJobs, NEW r, SameBatch(r, j), r.created = j.created,
           TransferPlaced(j), TransferTidy(d, j), r.i >= j.i,
           j.at # "plan", r.at \notin {"plan", "ask"},
           NEW q, \A p \in Path : p # q => e[p] = d[p],
           e[q] = d[q] \/ Spare(e, j, q),
           r.at \in {"copy", "unlink"} => Vacant(j, r.dst)
    PROVE  TransferTidy(e, r)
<1>0. /\ r \in TransferJobs /\ r.sources = j.sources /\ r.dest = j.dest
      /\ \A s : Gone(r, s) = Gone(j, s)
      /\ Moves(r) = Moves(j)
  BY SameMoves DEF SameBatch, Gone
<1>1. ASSUME NEW k \in DOMAIN j.sources PROVE ~Empty(e, j.sources[k]) \/ Gone(j, j.sources[k])
  BY CreatedPairs DEF TransferTidy, Empty, Spare
<1>2. ASSUME NEW m \in DOMAIN j.created PROVE \E k \in 1..(r.i - 1) : j.created[m].from = j.sources[k]
  <2>1. PICK k \in 1..(j.i - 1) : j.created[m].from = j.sources[k]
    BY DEF TransferTidy
  <2>2. j.i \in Nat /\ r.i \in Nat
    BY <1>0 DEF TransferJobs
  <2>. QED  BY <2>1, <2>2
<1>3. ASSUME NEW m \in DOMAIN j.created PROVE e[j.created[m].to] = j.created[m].item
  BY <1>3, CreatedPairs DEF TransferTidy, Spare
<1>4. ASSUME NEW m \in DOMAIN j.created
      PROVE  IF Moves(j)
             THEN j.created[m].from[1] # j.dest => Empty(e, j.created[m].from)
             ELSE e[j.created[m].from] = j.created[m].item
  <2>1. CASE j.created[m].from # q \/ e[q] = d[q]
    BY <2>1, CreatedPairs DEF TransferTidy, Empty
  <2>2. CASE j.created[m].from = q /\ Spare(e, j, q)
    <3>1. Moves(j)
      <4>1. PICK k \in 1..(j.i - 1) : j.created[m].from = j.sources[k]
        BY DEF TransferTidy
      <4>2. k \in DOMAIN j.sources
        BY CreatedPairs DEF TransferPlaced, TransferJobs
      <4>. QED  BY <2>2, <4>1, <4>2 DEF Spare, Gone
    <3>. QED  BY <2>2, <3>1 DEF Spare
  <2>. QED  BY <2>1, <2>2
<1>. QED  BY <1>0, <1>1, <1>2, <1>3, <1>4 DEF TransferTidy, Vacant, Gone

\* An item lands at q: what it was made from stays, or is gone if moved.
Lands(d, e, j, r, q, item) ==
    /\ SameBatch(r, j) /\ r.i = j.i + 1 /\ r.at = "item"
    /\ r.created = Append(j.created, [from |-> j.sources[j.i], to |-> q, item |-> item])
    /\ TransferPlaced(j) /\ j.i \in DOMAIN j.sources /\ j.at # "plan"
    /\ q[1] = j.dest /\ Vacant(j, q) /\ q # j.sources[j.i]
    /\ e[q] = item /\ e[j.sources[j.i]] = IF Moves(j) THEN NoItem ELSE item
    /\ \A p \in Path : p \notin {q, j.sources[j.i]} => e[p] = d[p]

LEMMA TidyLanded ==
    ASSUME NEW d, NEW e, NEW j \in TransferJobs, NEW r, NEW q \in Path, NEW item \in Item,
           TransferTidy(d, j), Lands(d, e, j, r, q, item)
    PROVE  TransferTidy(e, r)
<1>. USE DEF Lands
<1>. DEFINE s == j.sources[j.i]
            n == Len(j.created) + 1
<1>0. /\ r \in TransferJobs /\ r.sources = j.sources /\ r.dest = j.dest /\ Moves(r) = Moves(j)
      /\ s \in Path
      /\ DOMAIN r.created = DOMAIN j.created \cup {n} /\ n \notin DOMAIN j.created /\ n \in Nat
      /\ \A m \in DOMAIN j.created : r.created[m] = j.created[m] /\ m \in Nat /\ m < n
      /\ r.created[n].from = s /\ r.created[n].to = q /\ r.created[n].item = item
  <2>1. r \in TransferJobs /\ r.sources = j.sources /\ r.dest = j.dest /\ Moves(r) = Moves(j) /\ s \in Path
    BY SameMoves, CreatedPairs DEF SameBatch
  <2>2. j.created \in Seq(Pair)
    BY DEF TransferJobs
  <2>3. DOMAIN j.created = 1..Len(j.created) /\ Len(j.created) \in Nat
    BY <2>2
  <2>4. /\ DOMAIN r.created = 1..n /\ \A m \in 1..Len(j.created) : r.created[m] = j.created[m]
        /\ r.created[n] = [from |-> s, to |-> q, item |-> item]
    BY <2>2, <2>3
  <2>. QED  BY <2>1, <2>3, <2>4
<1>1. \A x : Gone(j, x) => Gone(r, x)
  BY <1>0 DEF Gone
<1>2. Moves(j) => Gone(r, s)
  BY <1>0 DEF Gone
<1>3. /\ j.i \in Nat /\ ~Gone(j, s)
      /\ \A m \in DOMAIN j.created : j.created[m].to # s /\ j.created[m].to # q
  <2>1. j.i \in Nat /\ j.i >= j.i
    BY DEF TransferJobs
  <2>2. ~Gone(j, s)
    BY <2>1, AheadNotGone
  <2>. QED  BY <2>1, <2>2 DEF TransferTidy, Vacant
<1>4. ASSUME NEW k \in DOMAIN j.sources PROVE ~Empty(e, j.sources[k]) \/ Gone(r, j.sources[k])
  <2>1. CASE j.sources[k] = s
    BY <1>2, <2>1, NoItemAssumption DEF Empty
  <2>2. CASE j.sources[k] = q
    BY <1>1, <2>2 DEF Vacant
  <2>3. CASE j.sources[k] \notin {s, q}
    BY <1>1, <2>3, CreatedPairs DEF TransferTidy, Empty
  <2>. QED  BY <2>1, <2>2, <2>3
<1>5. ASSUME NEW m \in DOMAIN r.created PROVE \E k \in 1..(r.i - 1) : r.created[m].from = j.sources[k]
  <2>1. CASE m = n
    <3>1. j.i \in 1..(r.i - 1)
      BY <1>3, CreatedPairs
    <3>. QED  BY <1>0, <2>1, <3>1
  <2>2. CASE m \in DOMAIN j.created
    <3>1. PICK k \in 1..(j.i - 1) : j.created[m].from = j.sources[k]
      BY <2>2 DEF TransferTidy
    <3>2. k \in 1..(r.i - 1)
      BY <1>3, <3>1
    <3>. QED  BY <1>0, <2>2, <3>1, <3>2
  <2>. QED  BY <1>0, <2>1, <2>2
<1>6. ASSUME NEW m \in DOMAIN r.created PROVE e[r.created[m].to] = r.created[m].item
  <2>1. CASE m = n
    BY <1>0, <2>1
  <2>2. CASE m \in DOMAIN j.created
    <3>1. d[j.created[m].to] = j.created[m].item
      BY <2>2 DEF TransferTidy
    <3>2. j.created[m].to \notin {q, s} /\ j.created[m].to \in Path
      BY <1>3, <2>2, CreatedPairs
    <3>. QED  BY <1>0, <2>2, <3>1, <3>2
  <2>. QED  BY <1>0, <2>1, <2>2
<1>7. ASSUME NEW m \in DOMAIN r.created, NEW k \in DOMAIN j.sources, r.created[m].to = j.sources[k]
      PROVE  Gone(r, j.sources[k])
  <2>1. CASE m = n
    BY <1>0, <1>1, <1>7, <2>1 DEF Vacant
  <2>2. CASE m \in DOMAIN j.created
    BY <1>0, <1>1, <1>7, <2>2 DEF TransferTidy
  <2>. QED  BY <1>0, <2>1, <2>2
<1>8. Apart(r.created)
  <2>1. Apart(j.created)
    BY DEF TransferTidy
  <2>2. ASSUME NEW m \in DOMAIN r.created, NEW k \in DOMAIN r.created
        PROVE  /\ m # k => r.created[m].to # r.created[k].to
               /\ m < k => r.created[m].to # r.created[k].from
    <3>1. CASE m \in DOMAIN j.created /\ k \in DOMAIN j.created
      BY <1>0, <2>1, <3>1 DEF Apart
    <3>2. CASE m \in DOMAIN j.created /\ k = n
      BY <1>0, <1>3, <3>2
    <3>3. CASE m = n /\ k \in DOMAIN j.created
      <4>1. k \in Nat /\ k < n /\ r.created[k].to # q
        BY <1>0, <1>3, <3>3
      <4>. QED  BY <1>0, <3>3, <4>1
    <3>4. CASE m = n /\ k = n
      BY <1>0, <3>4
    <3>. QED  BY <1>0, <2>2, <3>1, <3>2, <3>3, <3>4
  <2>. QED  BY <2>2 DEF Apart
<1>9. ASSUME NEW m \in DOMAIN r.created
      PROVE  IF Moves(j)
             THEN r.created[m].from[1] # j.dest => Empty(e, r.created[m].from)
             ELSE e[r.created[m].from] = r.created[m].item
  <2>1. CASE m = n
    BY <1>0, <2>1 DEF Empty
  <2>2. CASE m \in DOMAIN j.created /\ Moves(j)
    <3>0. r.created[m] = j.created[m]
      BY <1>0, <2>2
    <3>1. SUFFICES ASSUME j.created[m].from[1] # j.dest PROVE Empty(e, j.created[m].from)
      BY ZenonT(30), <2>2, <3>0
    <3>2. j.created[m].from # q /\ j.created[m].from \in Path
      BY <2>2, <3>1, CreatedPairs
    <3>3. Empty(d, j.created[m].from)
      BY <2>2, <3>1 DEF TransferTidy
    <3>. QED  BY <2>2, <3>2, <3>3 DEF Empty
  <2>3. CASE m \in DOMAIN j.created /\ ~Moves(j)
    <3>1. PICK k \in 1..(j.i - 1) : j.created[m].from = j.sources[k]
      BY <2>3 DEF TransferTidy
    <3>2. k \in DOMAIN j.sources /\ k # j.i
      BY <1>3, CreatedPairs DEF TransferPlaced
    <3>3. j.created[m].from \notin {q, s}
      BY <2>3, <3>1, <3>2, CreatedPairs DEF Vacant, Gone
    <3>4. d[j.created[m].from] = j.created[m].item /\ j.created[m].from \in Path
      BY <2>3, CreatedPairs DEF TransferTidy
    <3>. QED  BY <1>0, <2>3, <3>3, <3>4
  <2>. QED  BY <1>0, <2>1, <2>2, <2>3
<1>. HIDE DEF s, n
<1>10. r.sources = j.sources /\ r.dest = j.dest /\ Moves(r) = Moves(j)
  BY <1>0
<1>. QED  BY <1>4, <1>5, <1>6, <1>7, <1>8, <1>9, <1>10, r.at = "item" DEF TransferTidy

\* A free name is vacant.
LEMMA FreeIsVacant ==
    ASSUME NEW d, NEW j \in TransferJobs, TransferTidy(d, j), j.at # "plan", NEW q, Empty(d, q)
    PROVE  Vacant(j, q)
BY CreatedPairs, NoItemAssumption DEF TransferTidy, Vacant, Empty

LEMMA TidyStill ==
    ASSUME NEW d, NEW j \in TransferJobs, NEW r, SameBatch(r, j), r.created = j.created,
           TransferPlaced(j), TransferTidy(d, j), r.i >= j.i,
           j.at # "plan", r.at \notin {"plan", "ask"},
           r.at \in {"copy", "unlink"} => Vacant(j, r.dst)
    PROVE  TransferTidy(d, r)
<1>. DEFINE q == <<>>
<1>1. \A p \in Path : p # q => d[p] = d[p]
  OBVIOUS
<1>2. d[q] = d[q] \/ Spare(d, j, q)
  OBVIOUS
<1>. HIDE DEF q
<1>. QED  BY <1>1, <1>2, TidySame

----
(* Starting, asking and ending.                                            *)

LEMMA IdleFine == \A d : JobFine(d, Idle) /\ Idle.kind = "idle"
BY DEF JobFine, JobShaped, Idle

LEMMA ToIdle ==
    ASSUME TransferInv, NEW w \in Workers, Busy(w), To(w, Idle), UNCHANGED <<disk, undoStack, started, lost>>
    PROVE  TransferInv'
<1>1. DiskFine'
  BY NothingWritten DEF TransferInv, DiskFine
<1>. QED  BY <1>1, IdleFine, StepOfBusy

LEMMA PlanFailsStep == ASSUME TransferInv, NEW w \in Workers, PlanFails(w) PROVE TransferInv'
BY ToIdle DEF PlanFails, AtStep

LEMMA DismissStep == ASSUME TransferInv, NEW w \in Workers, Dismiss(w) PROVE TransferInv'
BY ToIdle DEF Dismiss, AtStep

LEMMA FinishUndoStep == ASSUME TransferInv, NEW w \in Workers, FinishUndo(w) PROVE TransferInv'
BY ToIdle DEF FinishUndo, AtStep

\* The steps that change a field or two.
LEMMA AtFields ==
    ASSUME NEW j \in TransferJobs,
           NEW x \in {"plan", "ask", "item", "write", "copy", "unlink", "finish"}
    PROVE  LET r == [j EXCEPT !.at = x] IN
           /\ SameBatch(r, j) /\ r.created = j.created
           /\ r.at = x /\ r.i = j.i /\ r.dst = j.dst /\ r.item = j.item
<1>. DEFINE r == [j EXCEPT !.at = x]
<1>1. r \in TransferJobs /\ r.at = x /\ \A f \in DOMAIN j \ {"at"} : r[f] = j[f]
  BY TransferFields, Domains
<1>. HIDE DEF r
<1>2. SameBatch(r, j) /\ r.created = j.created /\ r.at = x /\ r.i = j.i /\ r.dst = j.dst /\ r.item = j.item
  BY <1>1, Domains DEF SameBatch
<1>. QED  BY <1>2 DEF r

LEMMA EndOfItemsStep == ASSUME TransferInv, NEW w \in Workers, EndOfItems(w) PROVE TransferInv'
<1>. DEFINE j == job[w]
            r == [j EXCEPT !.at = "finish"]
<1>1. j \in TransferJobs /\ TransferPlaced(j) /\ j.at = "item"
      /\ (j.alone /\ j.replaced = 0 => TransferTidy(disk, j))
  BY JobKinds DEF EndOfItems, AtStep
<1>2. SameBatch(r, j) /\ r.created = j.created /\ r.at = "finish" /\ r.i = j.i
  BY <1>1, AtFields
<1>3. To(w, r) /\ UNCHANGED <<disk, undoStack, started, lost>>
  BY DEF EndOfItems
<1>. HIDE DEF j, r
<1>4. DiskFine'
  BY <1>3, NothingWritten DEF TransferInv, DiskFine
<1>5. TransferPlaced(r) /\ TransferStands(disk', r)
  BY <1>1, <1>2 DEF TransferPlaced, TransferStands, SameBatch
<1>6. r.alone /\ r.replaced = 0 => TransferTidy(disk', r)
  <2>1. r.i >= j.i
    BY <1>1, <1>2 DEF TransferJobs
  <2>. QED  BY <1>1, <1>2, <1>3, <2>1, TidyStill DEF SameBatch
<1>. QED  BY <1>1, <1>2, <1>3, <1>4, <1>5, <1>6, StepOfTransfer DEF j, SameBatch

LEMMA StopBeforeItemStep == ASSUME TransferInv, NEW w \in Workers, StopBeforeItem(w) PROVE TransferInv'
<1>. DEFINE j == job[w]
            r == Stopped(j)
<1>1. j \in TransferJobs /\ TransferPlaced(j) /\ j.at = "item"
      /\ (j.alone /\ j.replaced = 0 => TransferTidy(disk, j))
  BY JobKinds DEF StopBeforeItem, Resolving, AtStep
<1>2. SameBatch(r, j) /\ r.created = j.created /\ r.at = "finish" /\ r.i = j.i
  BY <1>1, StoppedFields
<1>3. To(w, r) /\ UNCHANGED <<disk, undoStack, started, lost>>
  BY DEF StopBeforeItem
<1>. HIDE DEF j, r
<1>4. DiskFine'
  BY <1>3, NothingWritten DEF TransferInv, DiskFine
<1>5. TransferPlaced(r) /\ TransferStands(disk', r)
  BY <1>1, <1>2 DEF TransferPlaced, TransferStands, SameBatch
<1>6. r.alone /\ r.replaced = 0 => TransferTidy(disk', r)
  <2>1. r.i >= j.i
    BY <1>1, <1>2 DEF TransferJobs
  <2>. QED  BY <1>1, <1>2, <1>3, <2>1, TidyStill DEF SameBatch
<1>. QED  BY <1>1, <1>2, <1>3, <1>4, <1>5, <1>6, StepOfTransfer DEF j, SameBatch

LEMMA PlanStep == ASSUME TransferInv, NEW w \in Workers, Plan(w) PROVE TransferInv'
<1>. DEFINE j == job[w]
            asking == IF SameDir(j.sources, j.dest) THEN {} ELSE Conflicting(j)
            asked == [s \in asking |-> disk[In(j.dest, s)]]
            at == IF asking = {} THEN "item" ELSE "ask"
            r == [j EXCEPT !.at = at, !.asked = asked]
<1>0. AtStep(w, "plan") /\ (\A k \in DOMAIN j.sources : ~Free(j.sources[k]))
      /\ To(w, r) /\ UNCHANGED <<disk, undoStack, started, lost>>
  BY DEF Plan
<1>1. j \in TransferJobs /\ TransferPlaced(j) /\ j.at = "plan"
      /\ (j.alone /\ j.replaced = 0 => TransferTidy(disk, j))
  <2>1. Kind(w) # "undo"
    BY <1>0, JobKinds DEF AtStep, UndoJobs
  <2>. QED  BY <1>0, <2>1, JobKinds DEF AtStep
<1>2. asked \in Answers(Item)
  <2>1. asking \subseteq {s \in Path : In(j.dest, s) \in Path /\ ~Free(In(j.dest, s))}
    BY <1>1, CreatedPairs, SelectionsAssumption DEF Conflicting, Path, In, TransferJobs
  <2>2. \A s \in asking : disk[In(j.dest, s)] \in Item
    BY <2>1 DEF TransferInv, Disks, Free
  <2>3. asking \in SUBSET Path /\ asked \in [asking -> Item]
    BY <2>1, <2>2
  <2>. QED  BY <2>3 DEF Answers
<1>3. SameBatch(r, j) /\ r.created = j.created /\ r.at = at /\ r.i = j.i
      /\ r.policy = j.policy /\ r.asked = asked
  <2>. DEFINE r1 == [j EXCEPT !.at = at]
  <2>1. at \in {"plan", "ask", "item", "write", "copy", "unlink", "finish"}
    OBVIOUS
  <2>. HIDE DEF at, asked, j
  <2>2. SameBatch(r1, j) /\ r1.created = j.created /\ r1.at = at /\ r1.i = j.i
    BY <1>1, <2>1, AtFields
  <2>a. r1 \in TransferJobs /\ r1.policy = j.policy
    BY <1>1, <2>2, Domains DEF SameBatch
  <2>3. r = [r1 EXCEPT !.asked = asked]
    OBVIOUS
  <2>. HIDE DEF r1, r
  <2>4. r \in TransferJobs /\ r.asked = asked /\ \A f \in DOMAIN r1 \ {"asked"} : r[f] = r1[f]
    BY <1>2, <2>a, <2>3, TransferFields, Domains
  <2>. QED  BY <2>2, <2>a, <2>4, Domains DEF SameBatch
<1>b. /\ at \in {"item", "ask"}
      /\ at = "ask" => DOMAIN asked # {} /\ DOMAIN asked \subseteq {j.sources[k] : k \in DOMAIN j.sources}
  BY DEF Conflicting
<1>c. DOMAIN <<>> = {}
  OBVIOUS
<1>. HIDE DEF j, r, asking, asked, at
<1>4. DiskFine'
  BY <1>0, NothingWritten DEF TransferInv, DiskFine
<1>5. TransferPlaced(r) /\ TransferStands(disk', r)
  BY <1>1, <1>3, <1>b, <1>c DEF TransferPlaced, TransferStands, SameBatch
<1>6. r.alone /\ r.replaced = 0 => TransferTidy(disk', r)
  <2>1. SUFFICES ASSUME r.alone /\ r.replaced = 0 PROVE TransferTidy(disk', r)
    OBVIOUS
  <2>2. r.created = <<>> /\ r.sources = j.sources
    BY <1>1, <1>3, <2>1 DEF TransferTidy, SameBatch
  <2>3. DOMAIN r.created = {}
    BY <2>2
  <2>4. \A k \in DOMAIN r.sources : ~Empty(disk', r.sources[k])
    BY <1>0, <2>2 DEF Empty, Free, j
  <2>. QED  BY <1>3, <1>b, <2>2, <2>3, <2>4 DEF TransferTidy, Apart
<1>. QED  BY <1>0, <1>1, <1>3, <1>4, <1>5, <1>6, StepOfTransfer DEF j, SameBatch

LEMMA AnswerStep ==
    ASSUME TransferInv, NEW w \in Workers, NEW choice \in Choices, NEW rest \in BOOLEAN,
           Answer(w, choice, rest)
    PROVE  TransferInv'
<1>. DEFINE j == job[w]
            first == CHOOSE k \in Unanswered(j) : \A l \in Unanswered(j) : k <= l
            now == IF rest THEN {j.sources[k] : k \in Unanswered(j)} ELSE {j.sources[first]}
            answers == [s \in DOMAIN j.policy \cup now |-> IF s \in now THEN choice ELSE j.policy[s]]
            at == IF DOMAIN answers = DOMAIN j.asked THEN "item" ELSE "ask"
            r == [j EXCEPT !.policy = answers, !.at = at]
<1>0. AtStep(w, "ask") /\ To(w, r) /\ UNCHANGED <<disk, undoStack, started, lost>>
  BY DEF Answer
<1>1. j \in TransferJobs /\ TransferPlaced(j) /\ j.at = "ask"
      /\ (j.alone /\ j.replaced = 0 => TransferTidy(disk, j))
  <2>1. Kind(w) # "undo"
    BY <1>0, JobKinds DEF AtStep, UndoJobs
  <2>. QED  BY <1>0, <2>1, JobKinds DEF AtStep
<1>2. first \in Unanswered(j)
  <2>. HIDE DEF j
  <2>a. PICK s \in DOMAIN j.asked : s \notin DOMAIN j.policy
    BY <1>1 DEF TransferPlaced
  <2>b. PICK k \in DOMAIN j.sources : s = j.sources[k]
    BY <1>1 DEF TransferPlaced
  <2>c. k \in Unanswered(j)
    BY <2>a, <2>b DEF Unanswered
  <2>d. Unanswered(j) \subseteq Nat
    BY <1>1, CreatedPairs DEF Unanswered
  <2>1. Unanswered(j) # {} /\ Unanswered(j) \subseteq Nat
    BY <2>c, <2>d
  <2>. QED  BY <2>1, NatMinimum
<1>3. now \subseteq Path /\ now \subseteq DOMAIN j.asked
  <2>1. \A k \in Unanswered(j) : j.sources[k] \in Path /\ j.sources[k] \in DOMAIN j.asked
    BY <1>1, CreatedPairs DEF Unanswered
  <2>. HIDE DEF first, j
  <2>. QED  BY <1>2, <2>1
<1>. HIDE DEF first, now
<1>4. answers \in Answers(Choices) /\ DOMAIN answers \subseteq DOMAIN j.asked
  <2>1. PICK S \in SUBSET Path : j.policy \in [S -> Choices]
    BY <1>1 DEF TransferJobs, Answers
  <2>2. DOMAIN j.policy \in SUBSET Path /\ \A s \in DOMAIN j.policy : j.policy[s] \in Choices
    BY <2>1
  <2>. HIDE DEF j
  <2>3. answers \in [DOMAIN j.policy \cup now -> Choices]
    BY <2>2
  <2>. QED  BY <1>1, <1>3, <2>2, <2>3 DEF Answers, TransferPlaced
<1>5. SameBatch(r, j) /\ r.created = j.created /\ r.at = at /\ r.i = j.i
      /\ r.policy = answers /\ r.asked = j.asked
  <2>. DEFINE r1 == [j EXCEPT !.policy = answers]
  <2>1. at \in {"plan", "ask", "item", "write", "copy", "unlink", "finish"}
    OBVIOUS
  <2>. HIDE DEF at, answers, j
  <2>2. r1 \in TransferJobs /\ r1.policy = answers /\ \A f \in DOMAIN j \ {"policy"} : r1[f] = j[f]
    BY <1>1, <1>4, TransferFields, Domains
  <2>3. r = [r1 EXCEPT !.at = at]
    OBVIOUS
  <2>. HIDE DEF r1, r
  <2>4. r \in TransferJobs /\ r.at = at /\ \A f \in DOMAIN r1 \ {"at"} : r[f] = r1[f]
    BY <2>1, <2>2, <2>3, TransferFields, Domains
  <2>. QED  BY <1>1, <2>2, <2>4, Domains DEF SameBatch
<1>6. at \in {"item", "ask"} /\ (at = "ask" => DOMAIN answers # DOMAIN j.asked)
  OBVIOUS
<1>. HIDE DEF j, r, answers, at
<1>7. DiskFine'
  BY <1>0, NothingWritten DEF TransferInv, DiskFine
<1>8. TransferPlaced(r) /\ TransferStands(disk', r)
  BY <1>1, <1>4, <1>5, <1>6 DEF TransferPlaced, TransferStands, SameBatch
<1>9. r.alone /\ r.replaced = 0 => TransferTidy(disk', r)
  <2>1. SUFFICES ASSUME j.alone /\ j.replaced = 0 PROVE TransferTidy(disk', r)
    BY <1>5 DEF SameBatch
  <2>2. TransferTidy(disk, j) /\ j.created = <<>> /\ disk' = disk
    BY <1>0, <1>1, <2>1 DEF TransferTidy
  <2>3. DOMAIN r.created = {}
    BY <1>5, <2>2
  <2>4. \A k \in DOMAIN r.sources : ~Empty(disk', r.sources[k]) \/ Gone(j, r.sources[k])
    BY <1>1, <1>5, <2>2 DEF TransferTidy, SameBatch
  <2>5. \A s : Gone(j, s) => Gone(r, s)
    BY <1>5, SameMoves DEF Gone, SameBatch
  <2>. QED  BY <1>5, <1>6, <2>2, <2>3, <2>4, <2>5 DEF TransferTidy, Apart
<1>. QED  BY <1>0, <1>1, <1>5, <1>7, <1>8, <1>9, StepOfTransfer DEF j, SameBatch

----
(* Resolving an item.                                                      *)

PassesOver(w, r, q) ==
    /\ Kind(w) = "transfer" /\ job[w].at \in {"item", "write", "copy", "unlink"}
    /\ job[w].i <= Len(job[w].sources)
    /\ To(w, r) /\ UNCHANGED <<undoStack, started>> /\ DiskFine'
    /\ r.at \in {"item", "finish"} /\ r.i \in {job[w].i, job[w].i + 1}
    /\ r.created = job[w].created /\ r.sources = job[w].sources
    /\ r.alone => SameBatch(r, job[w])
    /\ \A p \in Path : p # q => disk'[p] = disk[p]
    /\ job[w].alone /\ job[w].replaced = 0 /\ r.alone
          => disk'[q] = disk[q] \/ Spare(disk', job[w], q)

LEMMA PassedOver ==
    ASSUME TransferInv, NEW w \in Workers, NEW r \in TransferJobs, NEW q, PassesOver(w, r, q)
    PROVE  TransferInv'
<1>. USE DEF PassesOver
<1>. DEFINE j == job[w]
<1>1. /\ j \in TransferJobs /\ TransferPlaced(j)
      /\ (j.alone /\ j.replaced = 0 => TransferTidy(disk, j))
  BY JobKinds
<1>2. j.i \in Nat /\ Len(j.sources) \in Nat
  BY <1>1, CreatedPairs DEF TransferJobs
<1>3. TransferPlaced(r) /\ TransferStands(disk', r)
  BY <1>1, <1>2 DEF TransferPlaced, TransferStands
<1>4. r.alone /\ r.replaced = 0 => TransferTidy(disk', r)
  <2>1. SUFFICES ASSUME r.alone, r.replaced = 0 PROVE TransferTidy(disk', r)
    OBVIOUS
  <2>2. SameBatch(r, j) /\ j.alone /\ j.replaced = 0
    BY <2>1 DEF SameBatch
  <2>3. TransferTidy(disk, j) /\ r.i >= j.i /\ j.at # "plan" /\ r.at \notin {"plan", "ask"}
        /\ r.at \notin {"copy", "unlink"} /\ (disk'[q] = disk[q] \/ Spare(disk', j, q))
        /\ r.created = j.created
    BY <1>1, <1>2, <2>1, <2>2
  <2>. HIDE DEF j
  <2>. QED  BY <1>1, <2>2, <2>3, TidySame
<1>5. r.alone => job[w].alone
  BY DEF SameBatch
<1>. QED  BY <1>1, <1>3, <1>4, <1>5, StepOfTransfer

\* The transfer turns to a free name.
LEMMA Proceeds ==
    ASSUME TransferInv, NEW w \in Workers, Resolving(w),
           NEW dst \in Path, dst[1] = job[w].dest, Free(dst),
           To(w, [job[w] EXCEPT !.dst = dst, !.item = disk[Source(job[w])], !.at = "write"]),
           UNCHANGED <<disk, undoStack, started, lost>>
    PROVE  TransferInv'
<1>. DEFINE j == job[w]
            item == disk[Source(j)]
            r == [j EXCEPT !.dst = dst, !.item = item, !.at = "write"]
<1>1. /\ j \in TransferJobs /\ TransferPlaced(j) /\ j.at = "item" /\ j.i <= Len(j.sources)
      /\ (j.alone /\ j.replaced = 0 => TransferTidy(disk, j))
  BY JobKinds DEF Resolving, AtStep
<1>2. item \in Item \cup {NoItem}
  <2>1. j.kind = "transfer" /\ j.i \in DOMAIN j.sources
    BY <1>1, CreatedPairs DEF TransferPlaced, TransferJobs
  <2>. QED  BY <1>1, <2>1, CreatedPairs DEF Source, TransferInv, Disks
<1>3. To(w, r)
  OBVIOUS
<1>. HIDE DEF j, item
<1>4. SameBatch(r, j) /\ r.created = j.created /\ r.at = "write" /\ r.i = j.i /\ r.dst = dst
  <2>. DEFINE r1 == [j EXCEPT !.dst = dst]
              r2 == [r1 EXCEPT !.item = item]
              r3 == [r2 EXCEPT !.at = "write"]
  <2>1. r = r3
    OBVIOUS
  <2>. HIDE DEF r
  <2>2. r1 \in TransferJobs /\ r1.dst = dst /\ \A f \in DOMAIN j \ {"dst"} : r1[f] = j[f]
    BY <1>1, TransferFields, Domains
  <2>. HIDE DEF r1
  <2>3. r2 \in TransferJobs /\ \A f \in DOMAIN r1 \ {"item"} : r2[f] = r1[f]
    BY <1>2, <2>2, TransferFields, Domains
  <2>. HIDE DEF r2
  <2>4. r3 \in TransferJobs /\ r3.at = "write" /\ \A f \in DOMAIN r2 \ {"at"} : r3[f] = r2[f]
    BY <2>3, TransferFields, Domains
  <2>. HIDE DEF r3
  <2>. QED  BY <1>1, <2>1, <2>2, <2>3, <2>4, Domains DEF SameBatch
<1>. HIDE DEF r
<1>5. DiskFine'
  BY NothingWritten DEF TransferInv, DiskFine
<1>6. TransferPlaced(r) /\ TransferStands(disk', r)
  BY <1>1, <1>4 DEF TransferPlaced, TransferStands, SameBatch, Free, Empty, j
<1>7. r.alone /\ r.replaced = 0 => TransferTidy(disk', r)
  <2>1. r.i >= j.i
    BY <1>1, <1>4 DEF TransferJobs
  <2>. QED  BY <1>1, <1>4, <2>1, TidyStill DEF SameBatch
<1>. QED  BY <1>1, <1>3, <1>4, <1>5, <1>6, <1>7, StepOfTransfer DEF j, SameBatch

LEMMA CandidateFree ==
    ASSUME NEW p \in Path, NEW dir \in Dirs, Candidates(p, dir) # {}
    PROVE  Candidate(p, dir) \in Path /\ Candidate(p, dir)[1] = dir /\ Free(Candidate(p, dir))
<1>. DEFINE S == Candidates(p, dir)
            k == CHOOSE k \in S : \A l \in S : k <= l
<1>1. p[2] \in Names
  BY DEF Path
<1>2. DOMAIN Numbered[p[2]] \subseteq Nat /\ \A l \in DOMAIN Numbered[p[2]] : Numbered[p[2]][l] \in Names
  <2>1. Numbered[p[2]] \in Seq(Names \ {p[2]})
    BY <1>1, NumberedAssumption
  <2>. QED  BY <2>1
<1>3. S \subseteq DOMAIN Numbered[p[2]] /\ \A l \in S : Free(<<dir, Numbered[p[2]][l]>>)
  BY DEF Candidates
<1>4. S \subseteq Nat
  BY <1>2, <1>3
<1>5. Candidate(p, dir) = <<dir, Numbered[p[2]][k]>>
  BY DEF Candidate
<1>. HIDE DEF S
<1>6. k \in S
  BY <1>4, NatMinimum DEF S
<1>. HIDE DEF k
<1>7. Numbered[p[2]][k] \in Names
  BY <1>2, <1>3, <1>6
<1>. QED  BY <1>3, <1>5, <1>6, <1>7 DEF Path

LEMMA ItemPlace ==
    ASSUME NEW j \in TransferJobs, j.i \in DOMAIN j.sources
    PROVE  /\ Source(j) = j.sources[j.i] /\ Source(j) \in Path /\ j.dest \in Dirs
           /\ In(j.dest, Source(j)) \in Path /\ In(j.dest, Source(j))[1] = j.dest
<1>1. j.kind = "transfer" /\ j.dest \in Targets
  BY DEF TransferJobs
<1>2. Source(j) = j.sources[j.i] /\ Source(j) \in Path
  BY <1>1, CreatedPairs DEF Source
<1>. QED  BY <1>1, <1>2, SelectionsAssumption DEF In, Path

\* The two outcomes of a Replace: the item made way, or went in part.
LEMMA ReplaceStep ==
    ASSUME TransferInv, NEW w \in Workers, Resolving(w),
           NEW p \in Path, p = In(job[w].dest, Source(job[w])),
           disk' = [disk EXCEPT ![p] = NoItem],
           lost' = lost \cup Destroyed(p, ReplaceReason(job[w], Source(job[w]))),
           To(w, [job[w] EXCEPT !.dst = p, !.item = disk'[Source(job[w])],
                                !.replaced = @ + 1, !.at = "write"]),
           UNCHANGED <<undoStack, started>>
    PROVE  TransferInv'
<1>. DEFINE j == job[w]
            item == disk'[Source(j)]
            r == [j EXCEPT !.dst = p, !.item = item, !.replaced = @ + 1, !.at = "write"]
<1>1. /\ j \in TransferJobs /\ TransferPlaced(j) /\ j.at = "item" /\ j.i <= Len(j.sources)
      /\ j.i \in DOMAIN j.sources
  <2>1. j \in TransferJobs /\ TransferPlaced(j) /\ j.at = "item" /\ j.i <= Len(j.sources)
    BY JobKinds DEF Resolving, AtStep
  <2>. QED  BY <2>1, CreatedPairs DEF TransferPlaced, TransferJobs
<1>2. disk' \in Disks /\ Empty(disk', p)
  BY DEF TransferInv, Disks, Empty
<1>3. item \in Item \cup {NoItem}
  BY <1>1, <1>2, ItemPlace DEF Disks
<1>4. To(w, r)
  OBVIOUS
<1>a. p[1] = j.dest
  BY <1>1, ItemPlace
<1>b. ReplaceReason(j, Source(j)) \in {"self", "asked", "unasked"}
  BY DEF ReplaceReason
<1>5. DiskFine'
  <2>1. ReplaceReason(j, Source(j)) \in Reasons /\ ReplaceReason(j, Source(j)) \in Excused
    BY <1>b, ExcusedAssumption DEF Reasons
  <2>. QED  BY <2>1, WriteRecorded DEF TransferInv, DiskFine
<1>. HIDE DEF j, item
<1>6. r \in TransferJobs /\ r.sources = j.sources /\ r.dest = j.dest /\ r.mode = j.mode
      /\ r.alone = j.alone /\ r.replaced # 0 /\ r.at = "write" /\ r.i = j.i /\ r.dst = p
  <2>. DEFINE r1 == [j EXCEPT !.dst = p]
              r2 == [r1 EXCEPT !.item = item]
              r3 == [r2 EXCEPT !.replaced = @ + 1]
              r4 == [r3 EXCEPT !.at = "write"]
  <2>1. r = r4
    OBVIOUS
  <2>. HIDE DEF r
  <2>2. r1 \in TransferJobs /\ r1.dst = p /\ \A f \in DOMAIN j \ {"dst"} : r1[f] = j[f]
    BY <1>1, TransferFields, Domains
  <2>. HIDE DEF r1
  <2>3. r2 \in TransferJobs /\ \A f \in DOMAIN r1 \ {"item"} : r2[f] = r1[f]
    BY <1>3, <2>2, TransferFields, Domains
  <2>. HIDE DEF r2
  <2>a. r2.replaced + 1 \in Nat /\ r2.replaced + 1 # 0
    BY <2>3 DEF TransferJobs
  <2>4. r3 \in TransferJobs /\ r3.replaced # 0 /\ \A f \in DOMAIN r2 \ {"replaced"} : r3[f] = r2[f]
    BY <2>3, <2>a, TransferFields, Domains
  <2>. HIDE DEF r3
  <2>5. r4 \in TransferJobs /\ r4.at = "write" /\ \A f \in DOMAIN r3 \ {"at"} : r4[f] = r3[f]
    BY <2>4, TransferFields, Domains
  <2>. HIDE DEF r4
  <2>. QED  BY <1>1, <2>1, <2>2, <2>3, <2>4, <2>5, Domains
<1>. HIDE DEF r
<1>7. TransferPlaced(r) /\ TransferStands(disk', r)
  BY <1>1, <1>2, <1>6, <1>a DEF TransferPlaced, TransferStands
<1>. QED  BY <1>1, <1>4, <1>5, <1>6, <1>7, StepOfTransfer DEF j

LEMMA ReplaceFails ==
    ASSUME TransferInv, NEW w \in Workers, Resolving(w),
           NEW p \in Path, p = In(job[w].dest, Source(job[w])), ~Free(p),
           NEW left \in Leftovers(p),
           disk' = [disk EXCEPT ![p] = left],
           lost' = lost \cup Destroyed(p, ReplaceReason(job[w], Source(job[w]))),
           To(w, [Failed(job[w]) EXCEPT !.alone = @ /\ left = disk[p]]),
           UNCHANGED <<undoStack, started>>
    PROVE  TransferInv'
<1>. DEFINE j == job[w]
            n == Failed(j)
            alone == n.alone /\ left = disk[p]
            r == [n EXCEPT !.alone = alone]
<1>1. j \in TransferJobs /\ TransferPlaced(j) /\ j.at = "item" /\ j.i <= Len(j.sources)
  BY JobKinds DEF Resolving, AtStep
<1>2. left \in Item
  BY DEF Leftovers, Part, Free, TransferInv, Disks, Item
<1>3. To(w, r)
  OBVIOUS
<1>b. ReplaceReason(j, Source(j)) \in {"self", "asked", "unasked"}
  BY DEF ReplaceReason
<1>4. DiskFine'
  <2>1. ReplaceReason(j, Source(j)) \in Reasons /\ ReplaceReason(j, Source(j)) \in Excused
    BY <1>b, ExcusedAssumption DEF Reasons
  <2>. QED  BY <1>2, <2>1, WriteRecorded DEF TransferInv, DiskFine
<1>5. SameBatch(n, j) /\ n.at = "item" /\ n.i = j.i + 1 /\ n.created = j.created
  BY <1>1, FailedFields
<1>. HIDE DEF n, j
<1>6. alone \in BOOLEAN /\ n \in TransferJobs
  BY <1>5 DEF SameBatch, TransferJobs
<1>c. alone => n.alone = TRUE /\ left = disk[p]
  BY <1>6 DEF TransferJobs
<1>. HIDE DEF alone
<1>7. r \in TransferJobs /\ r.alone = alone /\ \A f \in DOMAIN n \ {"alone"} : r[f] = n[f]
  BY <1>6, TransferFields, Domains
<1>. HIDE DEF r
<1>8. r.alone => SameBatch(r, j) /\ left = disk[p]
  BY <1>5, <1>6, <1>7, <1>c, Domains DEF SameBatch
<1>9. \A q \in Path : q # p => disk'[q] = disk[q]
  BY DEF TransferInv, Disks
<1>10. left = disk[p] => disk'[p] = disk[p]
  BY DEF TransferInv, Disks
<1>11. /\ r.at = "item" /\ r.i = j.i + 1 /\ r.created = j.created /\ r.sources = j.sources
  BY <1>5, <1>6, <1>7, Domains DEF SameBatch
<1>12. Kind(w) = "transfer"
  BY DEF Resolving
<1>13. PassesOver(w, r, p)
  BY <1>1, <1>3, <1>4, <1>7, <1>8, <1>9, <1>10, <1>11, <1>12 DEF PassesOver, j
<1>. QED  BY <1>7, <1>13, PassedOver

LEMMA ResolveItemStep == ASSUME TransferInv, NEW w \in Workers, ResolveItem(w) PROVE TransferInv'
<1>. DEFINE j == job[w]
            s == Source(j)
            plain == In(j.dest, s)
            Proceed(dst) == To(w, [j EXCEPT !.dst = dst, !.item = disk[s], !.at = "write"])
<1>1. Resolving(w) /\ UNCHANGED <<undoStack, started>>
  BY DEF ResolveItem
<1>2. /\ j \in TransferJobs /\ TransferPlaced(j) /\ j.at = "item" /\ j.i <= Len(j.sources)
      /\ j.i \in DOMAIN j.sources /\ Kind(w) = "transfer"
  <2>1. j \in TransferJobs /\ TransferPlaced(j) /\ j.at = "item" /\ j.i <= Len(j.sources) /\ Kind(w) = "transfer"
    BY <1>1, JobKinds DEF Resolving, AtStep
  <2>. QED  BY <2>1, CreatedPairs DEF TransferPlaced, TransferJobs
<1>3. s \in Path /\ plain \in Path /\ plain[1] = j.dest /\ j.dest \in Dirs
  BY <1>2, ItemPlace
<1>a. ASSUME disk' = disk, lost' = lost, NEW r, SameBatch(r, j), r.at = "item", r.i = j.i + 1,
             r.created = j.created, To(w, r)
      PROVE  TransferInv'
  <2>1. DiskFine'
    BY <1>a, NothingWritten DEF TransferInv, DiskFine
  <2>2. r \in TransferJobs /\ r.sources = j.sources
    BY <1>a DEF SameBatch
  <2>3. PassesOver(w, r, s)
    BY <1>1, <1>2, <1>a, <2>1, <2>2 DEF PassesOver
  <2>. QED  BY <2>2, <2>3, PassedOver
<1>4. CASE Free(plain) /\ Proceed(plain) /\ UNCHANGED <<disk, lost>>
  BY <1>1, <1>3, <1>4, Proceeds
<1>5. CASE To(w, [NextItem(j) EXCEPT !.skipped = @ + 1]) /\ UNCHANGED <<disk, lost>>
  <2>. DEFINE n == NextItem(j)
              r == [n EXCEPT !.skipped = @ + 1]
  <2>1. SameBatch(n, j) /\ n.at = "item" /\ n.i = j.i + 1 /\ n.created = j.created /\ n \in TransferJobs
    BY <1>2, NextItemFields DEF SameBatch
  <2>2. To(w, r)
    BY <1>5
  <2>. HIDE DEF n
  <2>3. n.skipped + 1 \in Nat
    BY <2>1 DEF TransferJobs
  <2>4. r \in TransferJobs /\ \A f \in DOMAIN n \ {"skipped"} : r[f] = n[f]
    BY <2>1, <2>3, TransferFields, Domains
  <2>. HIDE DEF r
  <2>5. SameBatch(r, j) /\ r.at = "item" /\ r.i = j.i + 1 /\ r.created = j.created
    BY <2>1, <2>4, Domains DEF SameBatch
  <2>. QED  BY <1>5, <1>a, <2>2, <2>5
<1>6. CASE Candidates(s, j.dest) = {} /\ To(w, Failed(j)) /\ UNCHANGED <<disk, lost>>
  <2>1. SameBatch(Failed(j), j) /\ Failed(j).at = "item" /\ Failed(j).i = j.i + 1
        /\ Failed(j).created = j.created
    BY <1>2, FailedFields
  <2>. QED  BY <1>6, <1>a, <2>1
<1>7. CASE Candidates(s, j.dest) # {} /\ Proceed(Candidate(s, j.dest)) /\ UNCHANGED <<disk, lost>>
  <2>1. Candidate(s, j.dest) \in Path /\ Candidate(s, j.dest)[1] = j.dest /\ Free(Candidate(s, j.dest))
    BY <1>3, <1>7, CandidateFree
  <2>. QED  BY <1>1, <1>7, <2>1, Proceeds
<1>8. CASE /\ disk' = [disk EXCEPT ![plain] = NoItem]
           /\ lost' = lost \cup Destroyed(plain, ReplaceReason(j, s))
           /\ To(w, [j EXCEPT !.dst = plain, !.item = disk'[s], !.replaced = @ + 1, !.at = "write"])
  BY <1>1, <1>3, <1>8, ReplaceStep
<1>9. CASE /\ ~Free(plain)
           /\ \E left \in Leftovers(plain) :
                 /\ disk' = [disk EXCEPT ![plain] = left]
                 /\ To(w, [Failed(j) EXCEPT !.alone = @ /\ left = disk[plain]])
           /\ lost' = lost \cup Destroyed(plain, ReplaceReason(j, s))
  <2>1. PICK left \in Leftovers(plain) : /\ disk' = [disk EXCEPT ![plain] = left]
                                         /\ To(w, [Failed(j) EXCEPT !.alone = @ /\ left = disk[plain]])
    BY <1>9
  <2>. QED  BY <1>1, <1>3, <1>9, <2>1, ReplaceFails
<1>. QED  BY <1>4, <1>5, <1>6, <1>7, <1>8, <1>9 DEF ResolveItem

----
(* Moving the bytes of a transfer.                                         *)

LEMMA PartIsPart ==
    ASSUME NEW item \in Item
    PROVE  Part(item) \in Item /\ ~Part(item).whole
<1>1. Part(item) \in Item
  BY DEF Part, Item
<1>2. Part(item).whole = FALSE
  BY DEF Part, Item
<1>. QED  BY <1>1, <1>2, Zenon

LEMMA PartIsNotLast ==
    ASSUME NEW item \in Item, NEW p \in Path, disk[p] = Part(item)
    PROVE  ~IsLast(p)
BY PartIsPart DEF IsLast

LEMMA HasTwin ==
    ASSUME NEW p \in Path, NEW q \in Path, p # q, disk[p] = disk[q]
    PROVE  ~IsLast(p)
BY DEF IsLast

\* The facts a step of a transfer starts from.
LEMMA Writing ==
    ASSUME TransferInv, NEW w \in Workers, Kind(w) = "transfer", job[w].at \in {"write", "copy", "unlink"}
    PROVE  /\ job[w] \in TransferJobs /\ TransferPlaced(job[w])
           /\ job[w].i \in DOMAIN job[w].sources /\ job[w].i <= Len(job[w].sources)
           /\ job[w].i \in Nat /\ job[w].i + 1 \in Nat
           /\ Source(job[w]) = job[w].sources[job[w].i] /\ Source(job[w]) \in Path
           /\ job[w].dst \in Path /\ job[w].dst[1] = job[w].dest
           /\ Undisturbed(job[w]) => TransferStands(disk, job[w])
           /\ job[w].alone /\ job[w].replaced = 0 => TransferTidy(disk, job[w])
           /\ DiskFine /\ disk \in Disks
<1>1. /\ job[w] \in TransferJobs /\ TransferPlaced(job[w])
      /\ Undisturbed(job[w]) => TransferStands(disk, job[w])
      /\ job[w].alone /\ job[w].replaced = 0 => TransferTidy(disk, job[w])
  BY JobKinds
<1>2. job[w].i \in DOMAIN job[w].sources /\ job[w].i <= Len(job[w].sources)
      /\ job[w].i \in Nat /\ job[w].i + 1 \in Nat
      /\ job[w].dst \in Path /\ job[w].dst[1] = job[w].dest
  BY <1>1, CreatedPairs DEF TransferPlaced, TransferJobs
<1>. QED  BY <1>1, <1>2, ItemPlace DEF TransferInv, DiskFine

\* The item lands, whole, and its source is gone or stays.
LEMMA LandedStep ==
    ASSUME TransferInv, NEW w \in Workers, Kind(w) = "transfer", job[w].at \in {"write", "copy", "unlink"},
           NEW item \in Item, NEW j \in TransferJobs, SameBatch(j, job[w]), j.created = job[w].created,
           j.i = job[w].i, j.dst = job[w].dst, j.item = item,
           To(w, Landed(j)), UNCHANGED <<undoStack, started>>, DiskFine',
           job[w].alone => /\ Empty(disk, job[w].dst) \/ job[w].at # "write"
                           /\ job[w].dst # Source(job[w]) /\ disk'[job[w].dst] = item
                           /\ disk'[Source(job[w])] = IF Moves(job[w]) THEN NoItem ELSE item
                           /\ \A p \in Path : p \notin {job[w].dst, Source(job[w])} => disk'[p] = disk[p]
    PROVE  TransferInv'
<1>. DEFINE o == job[w]
            r == Landed(j)
            s == Source(o)
<1>1. /\ o \in TransferJobs /\ TransferPlaced(o)
      /\ o.i \in DOMAIN o.sources /\ o.i <= Len(o.sources) /\ o.i \in Nat
      /\ s = o.sources[o.i] /\ s \in Path /\ o.dst \in Path /\ o.dst[1] = o.dest
      /\ Undisturbed(o) => TransferStands(disk, o)
      /\ o.alone /\ o.replaced = 0 => TransferTidy(disk, o)
  BY Writing
<1>2. Source(j) = s /\ j.sources = o.sources
  BY <1>1, ItemPlace DEF SameBatch
<1>3. /\ SameBatch(r, j) /\ r.at = "item" /\ r.i = j.i + 1
      /\ r.created = Append(j.created, NewPair(j))
  BY <1>1, <1>2, LandedFields
<1>4. NewPair(j) = [from |-> s, to |-> o.dst, item |-> item]
  BY <1>2 DEF NewPair
<1>5. To(w, r)
  OBVIOUS
<1>. HIDE DEF r
<1>6. SameBatch(r, o) /\ r.created = Append(o.created, [from |-> s, to |-> o.dst, item |-> item])
      /\ r.i = o.i + 1 /\ r \in TransferJobs
  BY <1>3, <1>4 DEF SameBatch
<1>7. TransferPlaced(r) /\ TransferStands(disk', r)
  <2>1. r.sources = o.sources /\ r.i \in 1..Len(o.sources) + 1
    BY <1>1, <1>6, CreatedPairs DEF SameBatch
  <2>. QED  BY <1>3, <2>1 DEF TransferPlaced, TransferStands
<1>8. ASSUME r.alone, r.replaced = 0 PROVE TransferTidy(disk', r)
  <2>1. o.alone /\ o.replaced = 0 /\ TransferTidy(disk, o) /\ o.at # "plan"
    BY <1>1, <1>6, <1>8 DEF SameBatch
  <2>2. Vacant(o, o.dst)
    <3>1. CASE o.at = "write"
      BY <1>1, <2>1, <3>1, FreeIsVacant
    <3>2. CASE o.at \in {"copy", "unlink"}
      BY <2>1, <3>2 DEF TransferTidy, Vacant
    <3>. QED  BY <3>1, <3>2
  <2>3. /\ o.dst # o.sources[o.i] /\ disk'[o.dst] = item
        /\ disk'[o.sources[o.i]] = IF Moves(o) THEN NoItem ELSE item
        /\ \A p \in Path : p \notin {o.dst, o.sources[o.i]} => disk'[p] = disk[p]
        /\ r.created = Append(o.created, [from |-> o.sources[o.i], to |-> o.dst, item |-> item])
    BY <1>1, <1>6, <2>1
  <2>4. o \in TransferJobs /\ TransferPlaced(o) /\ o.i \in DOMAIN o.sources /\ o.dst \in Path
        /\ o.dst[1] = o.dest /\ SameBatch(r, o) /\ r.i = o.i + 1 /\ r.at = "item"
    BY <1>1, <1>3, <1>6
  <2>. HIDE DEF o, s, r
  <2>5. Lands(disk, disk', o, r, o.dst, item)
    BY <2>1, <2>2, <2>3, <2>4 DEF Lands
  <2>. QED  BY <2>1, <2>4, <2>5, TidyLanded
<1>. QED  BY <1>1, <1>5, <1>6, <1>7, <1>8, StepOfTransfer DEF SameBatch

LEMMA ItemField ==
    ASSUME NEW j \in TransferJobs, NEW x \in Item \cup {NoItem}
    PROVE  LET r == [j EXCEPT !.item = x] IN
           /\ SameBatch(r, j) /\ r.created = j.created /\ r.item = x
           /\ r.at = j.at /\ r.i = j.i /\ r.dst = j.dst /\ r \in TransferJobs
<1>. DEFINE r == [j EXCEPT !.item = x]
<1>1. r \in TransferJobs /\ r.item = x /\ \A f \in DOMAIN j \ {"item"} : r[f] = j[f]
  BY TransferFields, Domains
<1>. HIDE DEF r
<1>2. SameBatch(r, j) /\ r.created = j.created /\ r.item = x /\ r.at = j.at /\ r.i = j.i /\ r.dst = j.dst
      /\ r \in TransferJobs
  BY <1>1, Domains DEF SameBatch
<1>. QED  BY <1>2 DEF r

LEMMA TransferFails ==
    ASSUME TransferInv, NEW w \in Workers, Kind(w) = "transfer", job[w].at \in {"write", "copy", "unlink"},
           To(w, Failed(job[w])), UNCHANGED <<undoStack, started>>, DiskFine',
           NEW q, \A p \in Path : p # q => disk'[p] = disk[p],
           job[w].alone /\ job[w].replaced = 0
              => disk'[q] = disk[q] \/ Spare(disk', job[w], q)
    PROVE  TransferInv'
<1>. DEFINE r == Failed(job[w])
<1>1. SameBatch(r, job[w]) /\ r.at = "item" /\ r.i = job[w].i + 1 /\ r.created = job[w].created
      /\ job[w].i <= Len(job[w].sources)
  BY Writing, FailedFields
<1>2. To(w, r)
  OBVIOUS
<1>. HIDE DEF r
<1>3. r \in TransferJobs /\ r.sources = job[w].sources
  BY <1>1 DEF SameBatch
<1>4. PassesOver(w, r, q)
  BY <1>1, <1>2, <1>3 DEF PassesOver
<1>. QED  BY <1>3, <1>4, PassedOver

LEMMA RenameItemStep == ASSUME TransferInv, NEW w \in Workers, RenameItem(w) PROVE TransferInv'
<1>. DEFINE j == job[w]
            s == Source(j)
            j1 == [j EXCEPT !.item = disk[s]]
<1>1. Kind(w) = "transfer" /\ j.at = "write" /\ Renames(j) /\ UNCHANGED <<undoStack, started>>
  BY DEF RenameItem, AtStep, Renames, Kind
<1>2. /\ j \in TransferJobs /\ s \in Path /\ j.dst \in Path
      /\ Undisturbed(j) => Empty(disk, j.dst)
      /\ DiskFine /\ disk \in Disks
  BY <1>1, Writing DEF TransferStands
<1>3. CASE Rename(s, j.dst) /\ To(w, Landed(j1))
  <2>1. disk[s] \in Item /\ ~Free(s)
    BY <1>2, <1>3 DEF Rename, Disks, Free
  <2>2. Undisturbed(j) => ~IsLast(j.dst) /\ s # j.dst
    BY <1>2, <2>1 DEF Empty, Free, IsLast
  <2>3. DiskFine'
    <3>1. ~Undisturbed(j) => "raced" \in Excused
      BY RacesExcused DEF Undisturbed
    <3>. QED  BY <1>2, <1>3, <2>2, <3>1, RenameRecorded
  <2>4. SameBatch(j1, j) /\ j1.created = j.created /\ j1.i = j.i /\ j1.dst = j.dst /\ j1.item = disk[s]
        /\ j1 \in TransferJobs
    BY <1>2, <2>1, ItemField
  <2>5. j.alone => /\ Empty(disk, j.dst) /\ j.dst # s /\ disk'[j.dst] = disk[s] /\ disk'[s] = NoItem
                   /\ \A p \in Path : p \notin {j.dst, s} => disk'[p] = disk[p]
    BY <1>2, <1>3, <2>2 DEF Rename, Undisturbed, Disks
  <2>6. Moves(j)
    BY <1>1 DEF Renames
  <2>7. To(w, Landed(j1))
    BY <1>3
  <2>. HIDE DEF j1
  <2>. QED  BY <1>1, <1>2, <2>1, <2>3, <2>4, <2>5, <2>6, <2>7, LandedStep
<1>4. CASE To(w, Failed(j)) /\ UNCHANGED <<disk, lost>>
  <2>1. DiskFine'
    BY <1>2, <1>4, NothingWritten
  <2>. QED  BY <1>1, <1>4, <2>1, TransferFails
<1>. QED  BY <1>3, <1>4 DEF RenameItem

\* A vacant name in the destination is a place to write.
LEMMA VacantIsSpare ==
    ASSUME NEW d, NEW j \in TransferJobs, NEW q, q[1] = j.dest, Vacant(j, q)
    PROVE  Spare(d, j, q)
BY DEF Spare, Vacant

\* What a copy of a transfer is followed by.
LEMMA CopiedFields ==
    ASSUME NEW j \in TransferJobs
    PROVE  /\ ~Moves(j) => Copied(j) = Landed(j)
           /\ Moves(j) => Copied(j) = [j EXCEPT !.at = "unlink"]
BY DEF Copied, TransferJobs

\* A write at the destination of a job that nothing has disturbed.
LEMMA SameRenames ==
    ASSUME NEW j \in TransferJobs, NEW r, SameBatch(r, j), r.i = j.i
    PROVE  Renames(r) = Renames(j)
<1>1. r.kind = "transfer" /\ j.kind = "transfer"
  BY DEF SameBatch, TransferJobs
<1>2. Moves(r) = Moves(j) /\ r.sources = j.sources /\ r.dest = j.dest
  BY SameMoves DEF SameBatch
<1>3. Source(r) = Source(j)
  BY <1>1, <1>2 DEF Source
<1>. QED  BY <1>1, <1>2, <1>3 DEF Renames

LEMMA CloneTransferStep ==
    ASSUME TransferInv, NEW w \in Workers, CloneItem(w), Kind(w) = "transfer"
    PROVE  TransferInv'
<1>. DEFINE j == job[w]
            s == Source(j)
            j1 == [j EXCEPT !.item = disk[s]]
<1>1. /\ j.at = "write" /\ ~Renames(j) /\ UNCHANGED <<undoStack, started, lost>>
      /\ SameVolume(s, j.dst[1]) /\ ~Free(s) /\ Free(j.dst)
      /\ disk' = [disk EXCEPT ![j.dst] = disk[s]] /\ To(w, Copied(j1))
  BY DEF CloneItem, AtStep
<1>2. /\ j \in TransferJobs /\ s \in Path /\ j.dst \in Path /\ j.dst[1] = j.dest
      /\ DiskFine /\ disk \in Disks
  BY <1>1, Writing
<1>3. disk[s] \in Item /\ s # j.dst
  BY <1>1, <1>2 DEF Disks, Free
<1>4. DiskFine'
  BY <1>1, <1>2, <1>3, FreeIsNotLast, WriteHarmless
<1>5. ~Moves(j)
  BY <1>1, <1>2 DEF Renames, TransferJobs
<1>6. SameBatch(j1, j) /\ j1.created = j.created /\ j1.i = j.i /\ j1.dst = j.dst /\ j1.item = disk[s]
      /\ j1 \in TransferJobs
  BY <1>2, <1>3, ItemField
<1>7. To(w, Landed(j1))
  <2>1. Moves(j1) = Moves(j)
    <3>. HIDE DEF j1
    <3>. QED  BY <1>6, SameMoves DEF SameBatch
  <2>. HIDE DEF j1
  <2>. QED  BY <1>1, <1>5, <1>6, <2>1, CopiedFields
<1>8. /\ Empty(disk, j.dst) /\ j.dst # s /\ disk'[j.dst] = disk[s] /\ disk'[s] = disk[s]
      /\ \A p \in Path : p \notin {j.dst, s} => disk'[p] = disk[p]
  BY <1>1, <1>2, <1>3 DEF Disks, Empty, Free
<1>. HIDE DEF j1
<1>. QED  BY <1>1, <1>2, <1>3, <1>4, <1>5, <1>6, <1>7, <1>8, LandedStep

LEMMA BeginTransferStep ==
    ASSUME TransferInv, NEW w \in Workers, BeginCopy(w), Kind(w) = "transfer"
    PROVE  TransferInv'
<1>. DEFINE j == job[w]
            s == Source(j)
            j1 == [j EXCEPT !.item = disk[s]]
            r == [j EXCEPT !.item = disk[s], !.at = "copy"]
<1>1. /\ j.at = "write" /\ ~Renames(j) /\ UNCHANGED <<undoStack, started>>
  BY DEF BeginCopy, AtStep
<1>2. /\ j \in TransferJobs /\ TransferPlaced(j) /\ s \in Path /\ j.dst \in Path /\ j.dst[1] = j.dest
      /\ j.i <= Len(j.sources) /\ j.i \in Nat
      /\ Undisturbed(j) => Empty(disk, j.dst)
      /\ (j.alone /\ j.replaced = 0 => TransferTidy(disk, j))
      /\ DiskFine /\ disk \in Disks
  BY <1>1, Writing DEF TransferStands
<1>3. CASE /\ ~Free(s)
           /\ disk' = [disk EXCEPT ![j.dst] = Part(disk[s])]
           /\ lost' = lost \cup Destroyed(j.dst, "raced")
           /\ To(w, r)
  <2>1. disk[s] \in Item /\ Part(disk[s]) \in Item
    BY <1>2, <1>3, PartIsPart DEF Disks, Free
  <2>2. Undisturbed(j) => ~IsLast(j.dst) /\ s # j.dst
    BY <1>2, <1>3 DEF Empty, Free, IsLast
  <2>3. DiskFine'
    <3>1. ~Undisturbed(j) => "raced" \in Excused
      BY RacesExcused DEF Undisturbed
    <3>2. "raced" \in Reasons
      BY DEF Reasons
    <3>. QED  BY <1>2, <1>3, <2>1, <2>2, <3>1, <3>2, WriteRecorded
  <2>4. SameBatch(r, j) /\ r.created = j.created /\ r.i = j.i /\ r.dst = j.dst /\ r.item = disk[s]
        /\ r.at = "copy" /\ r \in TransferJobs
    <3>1. SameBatch(j1, j) /\ j1.created = j.created /\ j1.i = j.i /\ j1.dst = j.dst /\ j1.item = disk[s]
          /\ j1 \in TransferJobs
      BY <1>2, <2>1, ItemField
    <3>2. r = [j1 EXCEPT !.at = "copy"]
      OBVIOUS
    <3>. HIDE DEF j1, r
    <3>3. /\ SameBatch(r, j1) /\ r.created = j1.created /\ r.i = j1.i /\ r.dst = j1.dst
          /\ r.item = j1.item /\ r.at = "copy"
      BY <3>1, <3>2, AtFields
    <3>. QED  BY <3>1, <3>3 DEF SameBatch
  <2>5. To(w, r)
    BY <1>3
  <2>. HIDE DEF r
  <2>6. Source(r) = s /\ ~Renames(r)
    BY <1>1, <1>2, <2>4, SameRenames, ItemPlace DEF SameBatch, Source, TransferJobs
  <2>7. TransferPlaced(r)
    BY <1>2, <2>1, <2>4, <2>6 DEF TransferPlaced, SameBatch
  <2>8. Undisturbed(j) => TransferStands(disk', r)
    <3>1. Undisturbed(j) => disk'[j.dst] = Part(disk[s]) /\ disk'[s] = disk[s] /\ j.dst # s
      BY <1>2, <1>3, <2>2 DEF Disks
    <3>. QED  BY <2>4, <2>6, <3>1 DEF TransferStands
  <2>9. ASSUME r.alone, r.replaced = 0 PROVE TransferTidy(disk', r)
    <3>1. TransferTidy(disk, j) /\ Empty(disk, j.dst)
      BY <1>2, <2>4, <2>9 DEF SameBatch, Undisturbed
    <3>2. Vacant(j, j.dst)
      BY <1>1, <1>2, <3>1, FreeIsVacant
    <3>3. Spare(disk', j, j.dst)
      BY <1>2, <3>2, VacantIsSpare
    <3>4. \A p \in Path : p # j.dst => disk'[p] = disk[p]
      BY <1>2, <1>3 DEF Disks
    <3>5. r.i >= j.i /\ j.at # "plan" /\ r.at \notin {"plan", "ask"} /\ Vacant(j, r.dst)
      BY <1>1, <1>2, <2>4, <3>2
    <3>. HIDE DEF j
    <3>. QED  BY <1>2, <2>4, <3>1, <3>3, <3>4, <3>5, TidySame
  <2>. QED  BY <1>1, <1>2, <2>3, <2>4, <2>5, <2>7, <2>8, <2>9, StepOfTransfer DEF SameBatch
<1>4. CASE To(w, Failed(j)) /\ UNCHANGED <<disk, lost>>
  <2>1. DiskFine'
    BY <1>2, <1>4, NothingWritten
  <2>. QED  BY <1>1, <1>4, <2>1, TransferFails
<1>. QED  BY <1>3, <1>4 DEF BeginCopy

\* A copy reaches its end, or one of its entries does elsewhere: only parts
\* are written over.
LEMMA EndsWhole ==
    ASSUME DiskFine, NEW item \in Item, NEW q \in Path, lost' = lost,
           \/ disk[q] = Part(item) /\ disk' = [disk EXCEPT ![q] = item]
           \/ \E p \in {x \in Path : disk[x] = Part(item)} : disk' = [disk EXCEPT ![p] = item]
           \/ disk' = disk
    PROVE  DiskFine'
<1>1. ASSUME NEW p \in Path, disk[p] = Part(item), disk' = [disk EXCEPT ![p] = item]
      PROVE  DiskFine'
  BY <1>1, PartIsNotLast, WriteHarmless
<1>2. CASE disk' = disk
  BY <1>2, NothingWritten
<1>. QED  BY <1>1, <1>2

LEMMA FinishTransferCopyStep ==
    ASSUME TransferInv, NEW w \in Workers, FinishCopy(w), Kind(w) = "transfer"
    PROVE  TransferInv'
<1>. DEFINE j == job[w]
            s == Source(j)
            item == j.item
            part == Part(item)
            entries == {p \in Path : disk[p] = part}
            r == [j EXCEPT !.at = "unlink"]
<1>1. j.at = "copy" /\ To(w, Copied(j)) /\ UNCHANGED <<undoStack, started, lost>>
      /\ \/ disk[j.dst] = part /\ disk' = [disk EXCEPT ![j.dst] = item]
         \/ disk[j.dst] # part /\ (\E p \in entries : disk' = [disk EXCEPT ![p] = item])
         \/ entries = {} /\ disk' = disk
  BY DEF FinishCopy, AtStep
<1>2. /\ j \in TransferJobs /\ TransferPlaced(j) /\ s \in Path /\ j.dst \in Path /\ j.dst[1] = j.dest
      /\ j.i <= Len(j.sources) /\ j.i \in Nat /\ item \in Item /\ ~Renames(j)
      /\ Undisturbed(j) => disk[j.dst] = part /\ disk[s] = item /\ j.dst # s
      /\ (j.alone /\ j.replaced = 0 => TransferTidy(disk, j))
      /\ DiskFine /\ disk \in Disks
  BY <1>1, Writing DEF TransferStands, TransferPlaced
<1>3. DiskFine'
  BY <1>1, <1>2, EndsWhole
<1>4. Undisturbed(j) => disk' = [disk EXCEPT ![j.dst] = item]
  BY <1>1, <1>2
<1>5. Undisturbed(j) => /\ j.dst # s /\ disk'[j.dst] = item /\ disk'[s] = item
                        /\ \A p \in Path : p # j.dst => disk'[p] = disk[p]
  BY <1>2, <1>4 DEF Disks
<1>6. CASE Moves(j)
  <2>1. To(w, r)
    BY <1>1, <1>2, <1>6, CopiedFields
  <2>2. /\ SameBatch(r, j) /\ r.created = j.created
        /\ r.at = "unlink" /\ r.i = j.i /\ r.dst = j.dst /\ r.item = item
    BY <1>2, AtFields
  <2>. HIDE DEF r
  <2>3. Source(r) = s /\ ~Renames(r) /\ Moves(r)
    BY <1>2, <1>6, <2>2, SameRenames, SameMoves, ItemPlace DEF SameBatch, Source, TransferJobs
  <2>4. TransferPlaced(r)
    BY <1>2, <2>2, <2>3 DEF TransferPlaced, SameBatch
  <2>5. Undisturbed(j) => TransferStands(disk', r)
    BY <1>5, <2>2, <2>3 DEF TransferStands
  <2>6. ASSUME r.alone, r.replaced = 0 PROVE TransferTidy(disk', r)
    <3>1. TransferTidy(disk, j) /\ \A p \in Path : p # j.dst => disk'[p] = disk[p]
      BY <1>2, <1>5, <2>2, <2>6 DEF SameBatch, Undisturbed
    <3>2. Vacant(j, j.dst)
      BY <1>1, <3>1 DEF TransferTidy, Vacant
    <3>3. Spare(disk', j, j.dst)
      BY <1>2, <3>2, VacantIsSpare
    <3>5. r.i >= j.i /\ j.at # "plan" /\ r.at \notin {"plan", "ask"} /\ Vacant(j, r.dst)
      BY <1>1, <1>2, <2>2, <3>2
    <3>. HIDE DEF j
    <3>. QED  BY <1>2, <2>2, <3>1, <3>3, <3>5, TidySame
  <2>. QED  BY <1>1, <1>2, <1>3, <2>1, <2>2, <2>4, <2>5, <2>6, StepOfTransfer DEF SameBatch
<1>7. CASE ~Moves(j)
  <2>1. To(w, Landed(j))
    BY <1>1, <1>2, <1>7, CopiedFields
  <2>2. SameBatch(j, j)
    BY <1>2 DEF SameBatch
  <2>3. j.alone => /\ Empty(disk, j.dst) \/ j.at # "write"
                   /\ j.dst # s /\ disk'[j.dst] = item
                   /\ disk'[s] = IF Moves(j) THEN NoItem ELSE item
                   /\ \A p \in Path : p \notin {j.dst, s} => disk'[p] = disk[p]
    BY <1>1, <1>5, <1>7 DEF Undisturbed
  <2>. QED  BY <1>1, <1>2, <1>3, <2>1, <2>2, <2>3, LandedStep
<1>. QED  BY <1>6, <1>7

LEMMA CancelCopyStep == ASSUME TransferInv, NEW w \in Workers, CancelCopy(w) PROVE TransferInv'
<1>. DEFINE j == job[w]
            r == Stopped(j)
<1>1. j.at = "copy" /\ Kind(w) = "transfer" /\ To(w, r) /\ UNCHANGED <<undoStack, started>>
      /\ \/ UNCHANGED <<disk, lost>>
         \/ disk' = [disk EXCEPT ![j.dst] = NoItem] /\ lost' = lost \cup Destroyed(j.dst, "raced")
  BY DEF CancelCopy, AtStep
<1>2. /\ j \in TransferJobs /\ TransferPlaced(j) /\ j.dst \in Path /\ j.dst[1] = j.dest
      /\ j.i <= Len(j.sources) /\ j.item \in Item
      /\ Undisturbed(j) => disk[j.dst] = Part(j.item)
      /\ (j.alone /\ j.replaced = 0 => TransferTidy(disk, j))
      /\ DiskFine /\ disk \in Disks
  BY <1>1, Writing DEF TransferStands, TransferPlaced
<1>3. SameBatch(r, j) /\ r.at = "finish" /\ r.i = j.i /\ r.created = j.created
  BY <1>2, StoppedFields
<1>4. DiskFine'
  <2>1. CASE UNCHANGED <<disk, lost>>
    BY <1>2, <2>1, NothingWritten
  <2>2. CASE disk' = [disk EXCEPT ![j.dst] = NoItem] /\ lost' = lost \cup Destroyed(j.dst, "raced")
    <3>1. IsLast(j.dst) => "raced" \in Excused
      BY <1>2, PartIsNotLast, RacesExcused DEF Undisturbed
    <3>2. "raced" \in Reasons
      BY DEF Reasons
    <3>. QED  BY <1>2, <2>2, <3>1, <3>2, WriteRecorded
  <2>. QED  BY <1>1, <2>1, <2>2
<1>5. \A p \in Path : p # j.dst => disk'[p] = disk[p]
  BY <1>1, <1>2 DEF Disks
<1>6. j.alone /\ j.replaced = 0 => Spare(disk', j, j.dst)
  BY <1>1, <1>2, VacantIsSpare DEF TransferTidy, Vacant
<1>. HIDE DEF r
<1>7. r \in TransferJobs /\ r.sources = j.sources
  BY <1>3 DEF SameBatch
<1>8. PassesOver(w, r, j.dst)
  BY <1>1, <1>2, <1>3, <1>4, <1>5, <1>6, <1>7 DEF PassesOver
<1>. QED  BY <1>7, <1>8, PassedOver

LEMMA FailTransferCopyStep ==
    ASSUME TransferInv, NEW w \in Workers, FailCopy(w), Kind(w) = "transfer"
    PROVE  TransferInv'
<1>. DEFINE j == job[w]
<1>1. j.at = "copy" /\ To(w, Failed(j)) /\ UNCHANGED <<undoStack, started, lost>>
      /\ \/ disk[j.dst] = Part(j.item) /\ disk' = [disk EXCEPT ![j.dst] = NoItem]
         \/ UNCHANGED disk
  BY DEF FailCopy, AtStep
<1>2. /\ j \in TransferJobs /\ j.dst \in Path /\ j.dst[1] = j.dest /\ j.item \in Item
      /\ (j.alone /\ j.replaced = 0 => TransferTidy(disk, j))
      /\ DiskFine /\ disk \in Disks
  BY <1>1, Writing DEF TransferPlaced
<1>3. DiskFine'
  BY <1>1, <1>2, PartIsNotLast, WriteHarmless, NothingWritten
<1>4. \A p \in Path : p # j.dst => disk'[p] = disk[p]
  BY <1>1, <1>2 DEF Disks
<1>5. j.alone /\ j.replaced = 0 => Spare(disk', j, j.dst)
  BY <1>1, <1>2, VacantIsSpare DEF TransferTidy, Vacant
<1>. QED  BY <1>1, <1>3, <1>4, <1>5, TransferFails

\* The deletion that ends a move takes no last copy, unless another job
\* has been at the disk.
LEMMA UnlinkFine ==
    ASSUME DiskFine, NEW j, NEW s \in Path, NEW there \in Path, s # there, NEW b,
           NEW x \in Item \cup {NoItem}, disk' = [disk EXCEPT ![s] = x],
           j.alone \in BOOLEAN, Undisturbed(j) => disk[there] = disk[s],
           lost' = lost \cup IF ~j.alone /\ (disk[there] # j.item \/ disk[s] # j.item \/ b)
                             THEN Destroyed(s, "raced") ELSE {}
    PROVE  DiskFine'
<1>1. CASE IsLast(s)
  <2>1. disk[there] # disk[s]
    BY <1>1, HasTwin
  <2>2. ~Undisturbed(j) /\ ~j.alone /\ "raced" \in Excused /\ "raced" \in Reasons
    BY <2>1, RacesExcused DEF Undisturbed, Reasons
  <2>3. lost' = lost \cup Destroyed(s, "raced")
    BY <2>1, <2>2
  <2>. QED  BY <2>2, <2>3, WriteRecorded
<1>2. CASE ~IsLast(s)
  <2>1. lost' = lost
    BY <1>2 DEF Destroyed
  <2>. QED  BY <1>2, <2>1, WriteHarmless
<1>. QED  BY <1>1, <1>2

LEMMA LeftoversAreItems ==
    ASSUME disk \in Disks, NEW p \in Path, ~Free(p), NEW left \in Leftovers(p)
    PROVE  left \in Item /\ left # NoItem
<1>1. disk[p] \in Item
  BY DEF Disks, Free
<1>. QED  BY <1>1, PartIsPart, NoItemAssumption DEF Leftovers

LEMMA UnlinkTransferStep ==
    ASSUME TransferInv, NEW w \in Workers, UnlinkSource(w), Kind(w) = "transfer"
    PROVE  TransferInv'
<1>. DEFINE j == job[w]
            s == Source(j)
            b == BeingWritten(s)
            gone == IF ~j.alone /\ (disk[j.dst] # j.item \/ disk[s] # j.item \/ b)
                    THEN Destroyed(s, "raced") ELSE {}
<1>1. /\ j.at = "unlink" /\ UNCHANGED <<undoStack, started>> /\ lost' = lost \cup gone
      /\ \/ ~Free(s) /\ disk' = [disk EXCEPT ![s] = NoItem] /\ To(w, Landed(j))
         \/ /\ IF Free(s) THEN UNCHANGED disk
               ELSE \E left \in Leftovers(s) : disk' = [disk EXCEPT ![s] = left]
            /\ To(w, Failed(j))
  BY DEF UnlinkSource, AtStep, Kind
<1>2. /\ j \in TransferJobs /\ TransferPlaced(j) /\ s \in Path /\ j.dst \in Path /\ j.dst[1] = j.dest
      /\ j.i \in DOMAIN j.sources /\ s = j.sources[j.i] /\ j.i \in Nat
      /\ j.item \in Item /\ ~Renames(j) /\ Moves(j)
      /\ Undisturbed(j) => disk[j.dst] = j.item /\ disk[s] = j.item
      /\ (j.alone /\ j.replaced = 0 => TransferTidy(disk, j))
      /\ DiskFine /\ disk \in Disks
  BY <1>1, Writing DEF TransferStands, TransferPlaced
<1>3. s # j.dst
  BY <1>2 DEF Renames, SameVolume, TransferJobs
<1>4. j.alone \in BOOLEAN
  BY <1>2 DEF TransferJobs
<1>5. CASE ~Free(s) /\ disk' = [disk EXCEPT ![s] = NoItem] /\ To(w, Landed(j))
  <2>1. DiskFine'
    BY <1>1, <1>2, <1>3, <1>4, <1>5, UnlinkFine
  <2>2. SameBatch(j, j)
    BY <1>2 DEF SameBatch
  <2>3. j.alone => /\ Empty(disk, j.dst) \/ j.at # "write"
                   /\ j.dst # s /\ disk'[j.dst] = j.item
                   /\ disk'[s] = IF Moves(j) THEN NoItem ELSE j.item
                   /\ \A p \in Path : p \notin {j.dst, s} => disk'[p] = disk[p]
    BY <1>1, <1>2, <1>3, <1>5 DEF Undisturbed, Disks
  <2>. QED  BY <1>1, <1>2, <1>5, <2>1, <2>2, <2>3, LandedStep
<1>6. CASE /\ IF Free(s) THEN UNCHANGED disk
              ELSE \E left \in Leftovers(s) : disk' = [disk EXCEPT ![s] = left]
           /\ To(w, Failed(j))
  <2>1. PICK x \in Item \cup {NoItem} : disk' = [disk EXCEPT ![s] = x] /\ (~Free(s) => x # NoItem)
    <3>1. CASE Free(s)
      <4>1. disk' = [disk EXCEPT ![s] = NoItem]
        BY <1>2, <1>6, <3>1 DEF Free, Disks
      <4>. QED  BY <3>1, <4>1
    <3>2. CASE ~Free(s)
      BY <1>2, <1>6, <3>2, LeftoversAreItems
    <3>. QED  BY <3>1, <3>2
  <2>2. DiskFine'
    BY <1>1, <1>2, <1>3, <1>4, <2>1, UnlinkFine
  <2>3. \A p \in Path : p # s => disk'[p] = disk[p]
    BY <1>2, <2>1 DEF Disks
  <2>4. ASSUME j.alone, j.replaced = 0 PROVE Spare(disk', j, s)
    <3>1. TransferTidy(disk, j) /\ ~Gone(j, s) /\ disk[s] = j.item
      BY <1>2, <2>4, AheadNotGone DEF Undisturbed
    <3>2. ~Empty(disk', s)
      BY <1>2, <2>1, <3>1, NoItemAssumption DEF Empty, Free, Disks
    <3>. QED  BY SMTT(30), <1>2, <3>1, <3>2 DEF Spare, TransferTidy, Gone
  <2>. HIDE DEF gone
  <2>. QED  BY <1>1, <1>6, <2>2, <2>3, <2>4, TransferFails
<1>. QED  BY <1>1, <1>5, <1>6

----
(* The steps of an undo.                                                   *)

LEMMA RecordPairs ==
    ASSUME NEW r \in Record
    PROVE  /\ DOMAIN r.pairs = 1..Len(r.pairs) /\ Len(r.pairs) \in Nat
           /\ \A m \in DOMAIN r.pairs : /\ r.pairs[m].from \in Path /\ r.pairs[m].to \in Path
                                        /\ r.pairs[m].item \in Item
<1>1. r.pairs \in Seq(Pair)
  BY DEF Record
<1>2. \A p \in Pair : p.from \in Path /\ p.to \in Path /\ p.item \in Item
  BY DEF Pair
<1>. QED  BY <1>1, <1>2

\* The facts a step of an undo starts from.
LEMMA Undone ==
    ASSUME TransferInv, NEW w \in Workers, Kind(w) = "undo",
           job[w].at # "finish", job[w].i <= Len(job[w].record.pairs)
    PROVE  /\ job[w] \in UndoJobs /\ UndoPlaced(job[w]) /\ job[w].kind = "undo"
           /\ job[w].i \in DOMAIN job[w].record.pairs
           /\ job[w].i \in Nat /\ job[w].i + 1 \in Nat
           /\ Source(job[w]) = job[w].record.pairs[job[w].i].to /\ Source(job[w]) \in Path
           /\ Origin(job[w]) = job[w].record.pairs[job[w].i].from /\ Origin(job[w]) \in Path
           /\ In(Origin(job[w])[1], Source(job[w])) \in Path
           /\ In(Origin(job[w])[1], Source(job[w]))[1] = Origin(job[w])[1]
           /\ Origin(job[w])[1] = Source(job[w])[1] =>
                 In(Origin(job[w])[1], Source(job[w])) = Source(job[w])
           /\ Undisturbed(job[w]) => UndoStands(disk, job[w])
           /\ job[w].alone /\ job[w].record.replaced = 0 /\ ~job[w].error => UndoTidy(disk, job[w])
           /\ DiskFine /\ disk \in Disks
<1>. DEFINE j == job[w]
<1>1. /\ j \in UndoJobs /\ UndoPlaced(j)
      /\ Undisturbed(j) => UndoStands(disk, j)
      /\ j.alone /\ j.record.replaced = 0 /\ ~j.error => UndoTidy(disk, j)
  BY JobKinds
<1>2. j.kind = "undo" /\ j.i \in Nat /\ j.i + 1 \in Nat /\ j.record \in Record
  BY <1>1 DEF UndoJobs
<1>3. j.i \in DOMAIN j.record.pairs
  BY <1>1, <1>2, RecordPairs DEF UndoPlaced
<1>4. /\ Source(j) = j.record.pairs[j.i].to /\ Origin(j) = j.record.pairs[j.i].from
      /\ Source(j) \in Path /\ Origin(j) \in Path
  BY <1>2, <1>3, RecordPairs DEF Source, Origin
<1>5. ASSUME NEW p \in Path, NEW q \in Path
      PROVE  /\ In(p[1], q) \in Path /\ In(p[1], q)[1] = p[1]
             /\ p[1] = q[1] => In(p[1], q) = q
  BY DEF In, Path
<1>. HIDE DEF j
<1>6. /\ In(Origin(j)[1], Source(j)) \in Path /\ In(Origin(j)[1], Source(j))[1] = Origin(j)[1]
      /\ Origin(j)[1] = Source(j)[1] => In(Origin(j)[1], Source(j)) = Source(j)
  BY <1>4, <1>5
<1>. QED  BY <1>1, <1>2, <1>3, <1>4, <1>6 DEF TransferInv, DiskFine, j

LEMMA UndoAtFields ==
    ASSUME NEW j \in UndoJobs,
           NEW x \in {"item", "back", "copyback", "write", "copy", "name", "unlink", "finish"}
    PROVE  LET r == [j EXCEPT !.at = x] IN
           /\ SameUndo(r, j) /\ r \in UndoJobs /\ r.at = x /\ r.i = j.i /\ r.dst = j.dst
           /\ r.item = j.item /\ r.error = j.error /\ r.record = j.record
           /\ Origin(r) = Origin(j) /\ Source(r) = Source(j)
<1>. DEFINE r == [j EXCEPT !.at = x]
<1>1. r \in UndoJobs /\ r.at = x /\ \A f \in DOMAIN j \ {"at"} : r[f] = j[f]
  BY UndoFields, Domains
<1>. HIDE DEF r
<1>2. /\ SameUndo(r, j) /\ r.i = j.i /\ r.dst = j.dst
      /\ r.item = j.item /\ r.error = j.error /\ r.record = j.record
      /\ r.kind = "undo" /\ j.kind = "undo"
  BY <1>1, Domains DEF SameUndo, UndoJobs
<1>3. Origin(r) = Origin(j) /\ Source(r) = Source(j)
  BY <1>2 DEF Origin, Source
<1>. QED  BY <1>1, <1>2, <1>3 DEF r

\* An error makes no promise about what is undone.
LEMMA UndoFails ==
    ASSUME TransferInv, NEW w \in Workers, Kind(w) = "undo",
           job[w].at # "finish", job[w].i <= Len(job[w].record.pairs),
           To(w, Failed(job[w])), UNCHANGED <<undoStack, started>>, DiskFine'
    PROVE  TransferInv'
<1>. DEFINE j == job[w]
            r == Failed(j)
<1>1. j \in UndoJobs /\ UndoPlaced(j) /\ j.i \in DOMAIN j.record.pairs /\ j.i \in Nat
      /\ j.record \in Record
  BY Undone DEF UndoJobs
<1>2. /\ SameUndo(r, j) /\ r.error
      /\ IF j.record.kind = "MoveBackCross" THEN r.at = "item" /\ r.i = j.i + 1
         ELSE r.at = "finish" /\ r.i = j.i
  BY <1>1, FailedUndoFields
<1>3. To(w, r)
  OBVIOUS
<1>. HIDE DEF j, r
<1>4. r \in UndoJobs /\ r.record = j.record /\ r.i \in 1..Len(j.record.pairs) + 1
  BY <1>1, <1>2, RecordPairs DEF SameUndo
<1>5. UndoPlaced(r)
  BY <1>1, <1>2, <1>4 DEF UndoPlaced
<1>6. UndoStands(disk', r)
  BY <1>2 DEF UndoStands
<1>. QED  BY <1>1, <1>2, <1>3, <1>4, <1>5, <1>6, StepOfUndo DEF j, SameUndo

\* One more pair is back.
Returns(d, e, j, r, from, to) ==
    /\ SameUndo(r, j) /\ r.i = j.i + 1 /\ r.at = "item"
    /\ j.i \in DOMAIN j.record.pairs /\ j.at \notin {"copy", "name"}
    /\ from = j.record.pairs[j.i].from /\ to = j.record.pairs[j.i].to
    /\ Empty(d, from) \/ d[from] = j.record.pairs[j.i].item
    /\ e[from] = j.record.pairs[j.i].item /\ Empty(e, to)
    /\ \A p \in Path : p \notin {from, to} => e[p] = d[p]
    /\ \A n \in DOMAIN j.record.pairs : n >= j.i => from # j.record.pairs[n].to
    /\ j.record.kind = "RemoveCreated" => CopiesApart(j.record.pairs)

LEMMA TidyRestored ==
    ASSUME NEW d, NEW e, NEW j \in UndoJobs, NEW r, NEW from, NEW to,
           UndoTidy(d, j), Returns(d, e, j, r, from, to)
    PROVE  UndoTidy(e, r)
<1>. USE DEF Returns
<1>. DEFINE pairs == j.record.pairs
<1>0. /\ r.record = j.record /\ DOMAIN pairs \subseteq Nat /\ j.i \in Nat
      /\ \A m \in DOMAIN pairs : /\ pairs[m].from \in Path /\ pairs[m].to \in Path
                                 /\ pairs[m].item \in Item
  BY SMTT(30), RecordPairs DEF SameUndo, UndoJobs
<1>1. /\ Apart(pairs)
      /\ \A m \in DOMAIN pairs : m < j.i => d[pairs[m].from] = pairs[m].item /\ Empty(d, pairs[m].to)
      /\ \A m \in DOMAIN pairs : m >= j.i => d[pairs[m].to] = pairs[m].item
      /\ \A m, n \in DOMAIN pairs : m < j.i /\ n >= j.i => pairs[m].from # pairs[n].to
  BY DEF UndoTidy
<1>2. j.record.kind = "RemoveCreated" => \A m \in DOMAIN pairs : d[pairs[m].from] = pairs[m].item
  BY DEF UndoTidy
<1>3. \A m \in DOMAIN pairs : m < r.i <=> m < j.i \/ m = j.i
  BY SMTT(30), <1>0
<1>4. ASSUME NEW m \in DOMAIN pairs, m < r.i PROVE e[pairs[m].from] = pairs[m].item /\ Empty(e, pairs[m].to)
  <2>1. CASE m = j.i
    BY <2>1
  <2>2. CASE m < j.i
    <3>0. d[pairs[m].from] = pairs[m].item /\ Empty(d, pairs[m].to)
      BY <1>1, <2>2
    <3>a. j.i \in DOMAIN pairs /\ j.i >= j.i
      BY <1>0
    <3>b. pairs[m].from # pairs[j.i].to
      BY <1>1, <2>2, <3>a
    <3>1. d[pairs[m].from] = pairs[m].item /\ Empty(d, pairs[m].to) /\ pairs[m].from # to
      BY <3>0, <3>b
    <3>2. pairs[m].to # from
      BY <1>1, <2>2 DEF Apart
    <3>3. pairs[m].from = from => pairs[m].item = j.record.pairs[j.i].item
      BY <1>0, <3>1, NoItemAssumption DEF Empty
    <3>4. e[pairs[m].from] = pairs[m].item
      BY <1>0, <3>1, <3>3
    <3>5. Empty(e, pairs[m].to)
      BY <1>0, <3>1, <3>2 DEF Empty
    <3>. QED  BY <3>4, <3>5
  <2>. QED  BY <1>3, <1>4, <2>1, <2>2
<1>5. ASSUME NEW m \in DOMAIN pairs, m >= r.i PROVE e[pairs[m].to] = pairs[m].item
  <2>1. m > j.i /\ m >= j.i /\ m # j.i
    BY <1>0, <1>5
  <2>2. pairs[m].to # to /\ pairs[m].to # from
    BY <1>1, <2>1 DEF Apart
  <2>. QED  BY <1>0, <1>1, <2>1, <2>2
<1>6. ASSUME NEW m \in DOMAIN pairs, j.record.kind = "RemoveCreated"
      PROVE  e[pairs[m].from] = pairs[m].item
  <2>1. pairs[m].from # to /\ d[pairs[m].from] = pairs[m].item
    BY <1>2, <1>6 DEF CopiesApart
  <2>2. pairs[m].from = from => pairs[m].item = j.record.pairs[j.i].item
    BY ZenonT(60), <1>0, <2>1, NoItemAssumption DEF Empty
  <2>. QED  BY <1>0, <2>1, <2>2
<1>7. ASSUME NEW m \in DOMAIN pairs, NEW n \in DOMAIN pairs, m < r.i, n >= r.i
      PROVE  pairs[m].from # pairs[n].to
  <2>1. n >= j.i
    BY SMTT(30), <1>0, <1>7
  <2>. QED  BY <1>1, <1>3, <1>7, <2>1
<1>8. r.at \notin {"copy", "name"} /\ (r.at \notin {"item", "finish"} => FALSE)
  OBVIOUS
<1>9. pairs = r.record.pairs /\ r.record.kind = j.record.kind
  BY <1>0
<1>. HIDE DEF pairs
<1>10. j.record.kind = "RemoveCreated" => CopiesApart(pairs)
  BY DEF pairs
<1>. QED  BY ZenonT(60), <1>1, <1>4, <1>5, <1>6, <1>7, <1>8, <1>9, <1>10 DEF UndoTidy

\* A copy back begins, or goes on, at a name of its own.
LEMMA TidyWritten ==
    ASSUME NEW d, NEW e, NEW j \in UndoJobs, NEW r, SameUndo(r, j), UndoTidy(d, j),
           j.i \in DOMAIN j.record.pairs, r.i = j.i, r.dst = j.dst, Origin(r) = Origin(j),
           r.at \in {"copy", "name"}, j.dst \in Path, j.record.kind # "RemoveCreated",
           \/ j.at = "write" /\ Empty(d, j.dst)
           \/ j.at = "copy",
           \A p \in Path : p # j.dst => e[p] = d[p]
    PROVE  UndoTidy(e, r)
<1>. DEFINE pairs == j.record.pairs
<1>0. /\ r.record = j.record /\ DOMAIN pairs \subseteq Nat /\ j.i \in Nat
      /\ Origin(j) = pairs[j.i].from
      /\ \A m \in DOMAIN pairs : /\ pairs[m].from \in Path /\ pairs[m].to \in Path
                                 /\ pairs[m].item \in Item
  BY RecordPairs DEF SameUndo, UndoJobs, Origin
<1>1. /\ Apart(pairs)
      /\ \A m \in DOMAIN pairs : m < j.i =>
            d[pairs[m].from] = pairs[m].item /\ (Empty(d, pairs[m].to) \/ pairs[m].to = j.dst)
      /\ \A m \in DOMAIN pairs : m >= j.i => d[pairs[m].to] = pairs[m].item
      /\ \A m, n \in DOMAIN pairs : m < j.i /\ n >= j.i => pairs[m].from # pairs[n].to
      /\ \A n \in DOMAIN pairs : n >= j.i => Origin(j) # pairs[n].to
  BY DEF UndoTidy
<1>3. \A n \in DOMAIN pairs : IF n < j.i THEN pairs[n].from # j.dst ELSE pairs[n].to # j.dst
  <2>1. CASE j.at = "copy"
    BY <2>1 DEF UndoTidy
  <2>2. CASE Empty(d, j.dst)
    BY <1>0, <1>1, <2>2, NoItemAssumption DEF Empty
  <2>. QED  BY <2>1, <2>2
<1>4. ASSUME NEW m \in DOMAIN pairs, m < j.i
      PROVE  /\ e[pairs[m].from] = pairs[m].item
             /\ \/ Empty(e, pairs[m].to)
                \/ pairs[m].to = j.dst /\ j.dst # Origin(j)
  <2>1. e[pairs[m].from] = pairs[m].item
    BY <1>0, <1>1, <1>3, <1>4
  <2>2. pairs[m].to # Origin(j)
    BY <1>0, <1>1, <1>4 DEF Apart
  <2>3. Empty(e, pairs[m].to) \/ pairs[m].to = j.dst
    BY <1>0, <1>1, <1>4 DEF Empty
  <2>. QED  BY <2>1, <2>2, <2>3
<1>5. ASSUME NEW m \in DOMAIN pairs, m >= j.i PROVE e[pairs[m].to] = pairs[m].item
  BY <1>0, <1>1, <1>3, <1>5
<1>. HIDE DEF pairs
<1>. QED  BY <1>0, <1>1, <1>3, <1>4, <1>5 DEF UndoTidy, pairs

LEMMA UndoLands ==
    ASSUME TransferInv, NEW w \in Workers, Kind(w) = "undo",
           job[w].at \in {"item", "back", "unlink"}, job[w].i <= Len(job[w].record.pairs),
           To(w, Landed(job[w])), UNCHANGED <<undoStack, started>>, DiskFine',
           (job[w].alone /\ job[w].record.replaced = 0 /\ ~job[w].error) =>
              LET pairs == job[w].record.pairs
                  from == Origin(job[w])
                  to == Source(job[w])
              IN /\ Empty(disk, from) \/ disk[from] = pairs[job[w].i].item
                 /\ disk'[from] = pairs[job[w].i].item /\ Empty(disk', to)
                 /\ \A p \in Path : p \notin {from, to} => disk'[p] = disk[p]
                 /\ \A n \in DOMAIN pairs : n >= job[w].i => from # pairs[n].to
                 /\ job[w].record.kind = "RemoveCreated" => CopiesApart(pairs)
    PROVE  TransferInv'
<1>. DEFINE j == job[w]
            r == NextItem(j)
<1>1. /\ j \in UndoJobs /\ UndoPlaced(j) /\ j.i \in DOMAIN j.record.pairs /\ j.i \in Nat
      /\ j.kind = "undo" /\ j.record \in Record
      /\ Source(j) = j.record.pairs[j.i].to /\ Origin(j) = j.record.pairs[j.i].from
      /\ j.alone /\ j.record.replaced = 0 /\ ~j.error => UndoTidy(disk, j)
  BY Undone DEF UndoJobs
<1>2. SameUndo(r, j) /\ r.at = "item" /\ r.i = j.i + 1 /\ r.error = j.error
  BY <1>1, NextPairFields
<1>3. To(w, r)
  BY <1>1 DEF Landed
<1>. HIDE DEF r
<1>4. r \in UndoJobs /\ r.record = j.record /\ r.i \in 1..Len(j.record.pairs) + 1 /\ r.alone = j.alone
  BY <1>1, <1>2, RecordPairs DEF SameUndo
<1>5. UndoPlaced(r)
  BY <1>1, <1>2, <1>4 DEF UndoPlaced
<1>6. UndoStands(disk', r)
  BY <1>2 DEF UndoStands
<1>7. ASSUME r.alone, r.record.replaced = 0, ~r.error PROVE UndoTidy(disk', r)
  <2>. DEFINE pairs == j.record.pairs
              from == Origin(j)
              to == Source(j)
  <2>1. /\ UndoTidy(disk, j)
        /\ Empty(disk, from) \/ disk[from] = pairs[j.i].item
        /\ disk'[from] = pairs[j.i].item /\ Empty(disk', to)
        /\ \A p \in Path : p \notin {from, to} => disk'[p] = disk[p]
        /\ \A n \in DOMAIN pairs : n >= j.i => from # pairs[n].to
        /\ j.record.kind = "RemoveCreated" => CopiesApart(pairs)
    BY <1>1, <1>2, <1>4, <1>7
  <2>2. from = j.record.pairs[j.i].from /\ to = j.record.pairs[j.i].to /\ j.at \notin {"copy", "name"}
    BY <1>1
  <2>. HIDE DEF j, from, to
  <2>3. Returns(disk, disk', j, r, from, to)
    BY <1>1, <1>2, <2>1, <2>2 DEF Returns
  <2>. QED  BY <1>1, <2>1, <2>3, TidyRestored
<1>. QED  BY <1>1, <1>2, <1>3, <1>4, <1>5, <1>6, <1>7, StepOfUndo

LEMMA EndOfPairsStep == ASSUME TransferInv, NEW w \in Workers, EndOfPairs(w) PROVE TransferInv'
<1>. DEFINE j == job[w]
            r == [j EXCEPT !.at = "finish"]
<1>1. /\ j \in UndoJobs /\ UndoPlaced(j) /\ j.at = "item" /\ j.i > Len(j.record.pairs)
      /\ j.alone /\ j.record.replaced = 0 /\ ~j.error => UndoTidy(disk, j)
  BY JobKinds DEF EndOfPairs, AtStep
<1>2. SameUndo(r, j) /\ r \in UndoJobs /\ r.at = "finish" /\ r.i = j.i /\ r.error = j.error /\ r.record = j.record
  BY <1>1, UndoAtFields
<1>3. To(w, r) /\ UNCHANGED <<disk, undoStack, started, lost>>
  BY DEF EndOfPairs
<1>. HIDE DEF j, r
<1>4. DiskFine'
  BY <1>3, NothingWritten DEF TransferInv, DiskFine
<1>5. j.i = Len(j.record.pairs) + 1
  BY <1>1, RecordPairs DEF UndoPlaced, UndoJobs
<1>6. UndoPlaced(r) /\ UndoStands(disk', r)
  BY <1>1, <1>2, <1>5 DEF UndoPlaced, UndoStands
<1>7. ASSUME r.alone, r.record.replaced = 0, ~r.error PROVE UndoTidy(disk', r)
  <2>1. UndoTidy(disk, j)
    BY <1>1, <1>2, <1>7 DEF SameUndo
  <2>2. \A m \in DOMAIN j.record.pairs : m < j.i => Empty(disk, j.record.pairs[m].to)
    BY <1>1, <2>1 DEF UndoTidy
  <2>. QED  BY <1>2, <1>3, <2>1, <2>2 DEF UndoTidy
<1>. QED  BY <1>1, <1>2, <1>3, <1>4, <1>6, <1>7, StepOfUndo DEF j, SameUndo

LEMMA CheckOriginStep == ASSUME TransferInv, NEW w \in Workers, CheckOrigin(w) PROVE TransferInv'
<1>. DEFINE j == job[w]
            at == IF j.record.kind = "MoveBack" THEN "back" ELSE "copyback"
            r == [j EXCEPT !.at = at]
<1>1. /\ Kind(w) = "undo" /\ j.at = "item" /\ j.i <= Len(j.record.pairs)
      /\ j.record.kind \in {"MoveBack", "MoveBackCross"}
      /\ UNCHANGED <<disk, undoStack, started, lost>>
      /\ \/ ~Free(Origin(j)) /\ To(w, Failed(j))
         \/ Free(Origin(j)) /\ To(w, r)
  BY DEF CheckOrigin, Undoing, AtStep
<1>2. /\ j \in UndoJobs /\ UndoPlaced(j) /\ j.i \in DOMAIN j.record.pairs
      /\ Origin(j) = j.record.pairs[j.i].from
      /\ j.alone /\ j.record.replaced = 0 /\ ~j.error => UndoTidy(disk, j)
      /\ DiskFine
  BY <1>1, Undone
<1>3. DiskFine'
  BY <1>1, <1>2, NothingWritten
<1>4. CASE ~Free(Origin(j)) /\ To(w, Failed(j))
  BY <1>1, <1>3, <1>4, UndoFails
<1>5. CASE Free(Origin(j)) /\ To(w, r)
  <2>1. at \in {"back", "copyback"}
        /\ (at = "back" => j.record.kind = "MoveBack") /\ (at = "copyback" => j.record.kind = "MoveBackCross")
    BY <1>1
  <2>2. To(w, r)
    BY <1>5
  <2>. HIDE DEF at
  <2>3. /\ SameUndo(r, j) /\ r \in UndoJobs /\ r.at = at /\ r.i = j.i /\ r.dst = j.dst
        /\ r.error = j.error /\ r.record = j.record /\ Origin(r) = Origin(j) /\ Source(r) = Source(j)
    <3>1. CASE at = "back"
      <4>1. r = [j EXCEPT !.at = "back"]
        BY <3>1
      <4>. HIDE DEF j, r
      <4>. QED  BY <1>2, <3>1, <4>1, UndoAtFields
    <3>2. CASE at = "copyback"
      <4>1. r = [j EXCEPT !.at = "copyback"]
        BY <3>2
      <4>. HIDE DEF j, r
      <4>. QED  BY <1>2, <3>2, <4>1, UndoAtFields
    <3>. QED  BY <2>1, <3>1, <3>2
  <2>. HIDE DEF r
  <2>4. UndoPlaced(r)
    BY <1>1, <1>2, <2>1, <2>3 DEF UndoPlaced
  <2>5. UndoStands(disk', r)
    BY <1>1, <1>5, <2>1, <2>3 DEF UndoStands, Empty, Free
  <2>6. ASSUME r.alone, r.record.replaced = 0, ~r.error PROVE UndoTidy(disk', r)
    <3>1. UndoTidy(disk, j) /\ disk' = disk
      BY <1>1, <1>2, <2>3, <2>6 DEF SameUndo
    <3>2. /\ \A m \in DOMAIN j.record.pairs : m < j.i => Empty(disk, j.record.pairs[m].to)
          /\ \A n \in DOMAIN j.record.pairs : n >= j.i => disk[j.record.pairs[n].to] = j.record.pairs[n].item
      BY <1>1, <3>1 DEF UndoTidy
    <3>3. \A n \in DOMAIN j.record.pairs : n >= j.i => Origin(j) # j.record.pairs[n].to
      <4>1. j.record \in Record
        BY <1>2 DEF UndoJobs
      <4>. QED  BY <1>5, <3>2, <4>1, RecordPairs, NoItemAssumption DEF Free
    <3>. HIDE DEF j
    <3>. QED  BY <2>1, <2>3, <3>1, <3>2, <3>3 DEF UndoTidy
  <2>. QED  BY <1>1, <1>2, <1>3, <2>2, <2>3, <2>4, <2>5, <2>6, StepOfUndo DEF SameUndo
<1>. QED  BY <1>1, <1>4, <1>5

LEMMA RenameBackStep == ASSUME TransferInv, NEW w \in Workers, RenameBack(w) PROVE TransferInv'
<1>. DEFINE j == job[w]
            from == Origin(j)
            to == Source(j)
<1>1. /\ j.at = "back" /\ UNCHANGED <<undoStack, started>>
      /\ \/ Rename(to, from) /\ To(w, Landed(j))
         \/ To(w, Failed(j)) /\ UNCHANGED <<disk, lost>>
  BY DEF RenameBack, AtStep
<1>2. Kind(w) = "undo" /\ j.i <= Len(j.record.pairs)
  <2>1. Kind(w) # "transfer"
    BY <1>1, JobKinds DEF TransferJobs
  <2>2. Kind(w) = "undo"
    BY <1>1, <2>1, JobKinds DEF RenameBack, AtStep
  <2>. QED  BY <1>1, <2>2, JobKinds DEF UndoPlaced
<1>3. /\ j \in UndoJobs /\ UndoPlaced(j) /\ j.i \in DOMAIN j.record.pairs /\ j.i \in Nat
      /\ from \in Path /\ to \in Path
      /\ to = j.record.pairs[j.i].to
      /\ Undisturbed(j) => Empty(disk, from)
      /\ j.alone /\ j.record.replaced = 0 /\ ~j.error => UndoTidy(disk, j)
      /\ DiskFine /\ disk \in Disks
  BY <1>1, <1>2, Undone DEF UndoStands
<1>4. CASE To(w, Failed(j)) /\ UNCHANGED <<disk, lost>>
  <2>1. DiskFine'
    BY <1>3, <1>4, NothingWritten
  <2>. QED  BY <1>1, <1>2, <1>4, <2>1, UndoFails
<1>5. CASE Rename(to, from) /\ To(w, Landed(j))
  <2>1. DiskFine'
    <3>1. IsLast(from) => "raced" \in Excused
      BY <1>3, RacesExcused DEF Undisturbed, Empty, Free, IsLast
    <3>. QED  BY <1>3, <1>5, <3>1, RenameRecorded
  <2>2. ASSUME j.alone, j.record.replaced = 0, ~j.error
        PROVE  /\ Empty(disk, from)
               /\ disk'[from] = j.record.pairs[j.i].item /\ Empty(disk', to)
               /\ \A p \in Path : p \notin {from, to} => disk'[p] = disk[p]
               /\ \A n \in DOMAIN j.record.pairs : n >= j.i => from # j.record.pairs[n].to
               /\ j.record.kind # "RemoveCreated"
    <3>1. UndoTidy(disk, j) /\ Empty(disk, from)
      BY <1>3, <2>2 DEF Undisturbed
    <3>2. /\ disk[to] = j.record.pairs[j.i].item
          /\ \A n \in DOMAIN j.record.pairs : n >= j.i => from # j.record.pairs[n].to
      <4>1. j.i >= j.i
        BY <1>3
      <4>2. /\ \A m \in DOMAIN j.record.pairs : m >= j.i => disk[j.record.pairs[m].to] = j.record.pairs[m].item
            /\ j.at \notin {"item", "finish"} =>
                  \A n \in DOMAIN j.record.pairs : n >= j.i => from # j.record.pairs[n].to
        BY <3>1 DEF UndoTidy
      <4>3. disk[to] = j.record.pairs[j.i].item
        BY <1>3, <4>1, <4>2
      <4>. QED  BY <1>1, <4>2, <4>3
    <3>3. from # to
      BY <1>3, <3>2
    <3>4. disk' = [disk EXCEPT ![from] = disk[to], ![to] = NoItem]
      BY <1>5, <3>3 DEF Rename
    <3>5. j.record.kind # "RemoveCreated"
      BY <1>1, <1>3 DEF UndoPlaced
    <3>. HIDE DEF j, from, to
    <3>. QED  BY <1>3, <3>1, <3>2, <3>3, <3>4, <3>5 DEF Disks, Empty
  <2>. QED  BY <1>1, <1>2, <1>5, <2>1, <2>2, UndoLands
<1>. QED  BY <1>1, <1>4, <1>5

\* Only an undo is at these steps.
LEMMA OnlyUndo ==
    ASSUME TransferInv, NEW w \in Workers, NEW x \in {"back", "copyback", "name"}, AtStep(w, x)
    PROVE  Kind(w) = "undo" /\ job[w].at = x /\ job[w].i <= Len(job[w].record.pairs)
<1>1. Kind(w) # "transfer"
  BY JobKinds DEF AtStep, TransferJobs
<1>2. Kind(w) = "undo"
  BY <1>1, JobKinds DEF AtStep
<1>. QED  BY <1>2, JobKinds DEF UndoPlaced, AtStep

LEMMA PlanCopyBackStep == ASSUME TransferInv, NEW w \in Workers, PlanCopyBack(w) PROVE TransferInv'
<1>. DEFINE j == job[w]
            dst == In(Origin(j)[1], Source(j))
            r == [j EXCEPT !.dst = dst, !.at = "write"]
<1>1. /\ j.at = "copyback" /\ Kind(w) = "undo" /\ j.i <= Len(j.record.pairs)
      /\ UNCHANGED <<disk, undoStack, started, lost>>
      /\ \/ To(w, Failed(j))
         \/ ~Free(Source(j)) /\ Free(dst) /\ To(w, r)
  BY OnlyUndo DEF PlanCopyBack
<1>2. /\ j \in UndoJobs /\ UndoPlaced(j) /\ j.i \in DOMAIN j.record.pairs
      /\ dst \in Path /\ (Origin(j)[1] = Source(j)[1] => dst = Source(j))
      /\ Undisturbed(j) => Empty(disk, Origin(j))
      /\ j.alone /\ j.record.replaced = 0 /\ ~j.error => UndoTidy(disk, j)
      /\ DiskFine
  BY <1>1, Undone DEF UndoStands
<1>3. DiskFine'
  BY <1>1, <1>2, NothingWritten
<1>4. CASE To(w, Failed(j))
  BY <1>1, <1>3, <1>4, UndoFails
<1>5. CASE ~Free(Source(j)) /\ Free(dst) /\ To(w, r)
  <2>1. Origin(j)[1] # Source(j)[1]
    BY <1>2, <1>5
  <2>2. To(w, r)
    BY <1>5
  <2>. HIDE DEF dst
  <2>3. /\ SameUndo(r, j) /\ r \in UndoJobs /\ r.at = "write" /\ r.i = j.i /\ r.dst = dst
        /\ r.error = j.error /\ r.record = j.record /\ Origin(r) = Origin(j) /\ Source(r) = Source(j)
    <3>. DEFINE r1 == [j EXCEPT !.dst = dst]
    <3>1. r = [r1 EXCEPT !.at = "write"]
      OBVIOUS
    <3>2. dst \in Path \cup {<<>>} /\ j \in UndoJobs
      BY <1>2
    <3>. HIDE DEF j, r
    <3>3. r1 \in UndoJobs /\ r1.dst = dst /\ \A f \in DOMAIN j \ {"dst"} : r1[f] = j[f]
      BY <3>2, UndoFields, Domains
    <3>. HIDE DEF r1
    <3>4. /\ SameUndo(r, r1) /\ r \in UndoJobs /\ r.at = "write" /\ r.i = r1.i /\ r.dst = r1.dst
          /\ r.error = r1.error /\ r.record = r1.record /\ Origin(r) = Origin(r1) /\ Source(r) = Source(r1)
      BY <3>1, <3>3, UndoAtFields
    <3>5. /\ r1.alone = j.alone /\ r1.i = j.i /\ r1.error = j.error /\ r1.record = j.record
          /\ r1.kind = "undo" /\ j.kind = "undo"
      BY <3>2, <3>3, Domains DEF UndoJobs
    <3>6. Origin(r1) = Origin(j) /\ Source(r1) = Source(j)
      BY <3>5 DEF Origin, Source
    <3>. QED  BY <3>3, <3>4, <3>5, <3>6 DEF SameUndo
  <2>. HIDE DEF r
  <2>4. UndoPlaced(r)
    BY <1>1, <1>2, <2>1, <2>3 DEF UndoPlaced, dst
  <2>5. Undisturbed(j) => UndoStands(disk', r)
    BY <1>1, <1>2, <1>5, <2>3 DEF UndoStands, Empty, Free
  <2>6. ASSUME r.alone, r.record.replaced = 0, ~r.error PROVE UndoTidy(disk', r)
    <3>1. UndoTidy(disk, j) /\ disk' = disk
      BY <1>1, <1>2, <2>3, <2>6 DEF SameUndo
    <3>2. /\ \A m \in DOMAIN j.record.pairs : m < j.i => Empty(disk, j.record.pairs[m].to)
          /\ \A n \in DOMAIN j.record.pairs : n >= j.i => Origin(j) # j.record.pairs[n].to
      BY <1>1, <3>1 DEF UndoTidy
    <3>. HIDE DEF j
    <3>. QED  BY <2>3, <3>1, <3>2 DEF UndoTidy
  <2>. QED  BY <1>1, <1>2, <1>3, <2>2, <2>3, <2>4, <2>5, <2>6, StepOfUndo DEF SameUndo
<1>. QED  BY <1>1, <1>4, <1>5

\* The copy back is written, in part or whole, beside the origin.
LEMMA WritesBack ==
    ASSUME TransferInv, NEW w \in Workers, Kind(w) = "undo", job[w].at \in {"write", "copy"},
           NEW r \in UndoJobs, NEW item \in Item, SameUndo(r, job[w]), r.at \in {"copy", "name"},
           r.i = job[w].i, r.dst = job[w].dst, r.item = item, r.error = job[w].error,
           Origin(r) = Origin(job[w]), Source(r) = Source(job[w]),
           To(w, r), UNCHANGED <<undoStack, started>>, DiskFine',
           Undisturbed(job[w]) =>
              /\ disk'[job[w].dst] = IF r.at = "copy" THEN Part(item) ELSE item
              /\ disk[Source(job[w])] = item
              /\ \A p \in Path : p # job[w].dst => disk'[p] = disk[p]
    PROVE  TransferInv'
<1>. DEFINE j == job[w]
<1>1. j.i <= Len(j.record.pairs) /\ j.at # "finish"
  BY JobKinds DEF UndoPlaced
<1>2. /\ j \in UndoJobs /\ UndoPlaced(j) /\ j.i \in DOMAIN j.record.pairs
      /\ Origin(j) \in Path /\ Source(j) \in Path
      /\ Undisturbed(j) => UndoStands(disk, j)
      /\ j.alone /\ j.record.replaced = 0 /\ ~j.error => UndoTidy(disk, j)
  BY <1>1, Undone
<1>3. /\ j.dst = In(Origin(j)[1], Source(j)) /\ Origin(j)[1] # Source(j)[1]
      /\ j.dst \in Path /\ j.dst[1] = Origin(j)[1]
  BY <1>1, Undone DEF UndoPlaced
<1>. HIDE DEF j
<1>4. r.record = j.record /\ r.alone = j.alone
  BY DEF SameUndo, j
<1>5. UndoPlaced(r)
  BY <1>1, <1>2, <1>3, <1>4 DEF UndoPlaced, j
<1>6. ASSUME Undisturbed(j) PROVE UndoStands(disk', r)
  <2>1. /\ disk'[j.dst] = IF r.at = "copy" THEN Part(item) ELSE item
        /\ disk[Source(j)] = item /\ \A p \in Path : p # j.dst => disk'[p] = disk[p]
    BY <1>6 DEF j
  <2>2. disk'[Source(j)] = item
    BY <1>2, <1>3, <2>1
  <2>3. j.dst = Origin(j) \/ Empty(disk', Origin(j))
    BY <1>2, <1>6, <2>1 DEF UndoStands, Empty, j
  <2>. QED  BY <2>1, <2>2, <2>3 DEF UndoStands, j
<1>7. ASSUME r.alone, r.record.replaced = 0, ~r.error PROVE UndoTidy(disk', r)
  <2>1. UndoTidy(disk, j) /\ Undisturbed(j)
    BY <1>2, <1>4, <1>7 DEF Undisturbed, j
  <2>2. /\ SameUndo(r, j) /\ r.i = j.i /\ r.dst = j.dst /\ Origin(r) = Origin(j)
        /\ \A p \in Path : p # j.dst => disk'[p] = disk[p]
    BY <2>1 DEF j
  <2>3. \/ j.at = "write" /\ Empty(disk, j.dst)
        \/ j.at = "copy"
    BY <1>2, <2>1 DEF UndoStands, j
  <2>4. j.record.kind # "RemoveCreated"
    BY <1>2 DEF UndoPlaced, j
  <2>. QED  BY <1>2, <1>3, <2>1, <2>2, <2>3, <2>4, TidyWritten
<1>. QED  BY <1>2, <1>4, <1>5, <1>6, <1>7, StepOfUndo DEF j

LEMMA UndoItemField ==
    ASSUME NEW j \in UndoJobs, NEW x \in Item \cup {NoItem}
    PROVE  LET r == [j EXCEPT !.item = x] IN
           /\ SameUndo(r, j) /\ r \in UndoJobs /\ r.at = j.at /\ r.i = j.i /\ r.dst = j.dst
           /\ r.item = x /\ r.error = j.error /\ r.record = j.record
           /\ Origin(r) = Origin(j) /\ Source(r) = Source(j)
<1>. DEFINE r == [j EXCEPT !.item = x]
<1>1. r \in UndoJobs /\ r.item = x /\ \A f \in DOMAIN j \ {"item"} : r[f] = j[f]
  BY UndoFields, Domains
<1>. HIDE DEF r
<1>2. /\ SameUndo(r, j) /\ r.i = j.i /\ r.dst = j.dst /\ r.at = j.at
      /\ r.error = j.error /\ r.record = j.record
      /\ r.kind = "undo" /\ j.kind = "undo"
  BY <1>1, Domains DEF SameUndo, UndoJobs
<1>3. Origin(r) = Origin(j) /\ Source(r) = Source(j)
  BY <1>2 DEF Origin, Source
<1>. QED  BY <1>1, <1>2, <1>3 DEF r

LEMMA CloneUndoStep ==
    ASSUME TransferInv, NEW w \in Workers, CloneItem(w), Kind(w) = "undo"
    PROVE  TransferInv'
<1>. DEFINE j == job[w]
            s == Source(j)
            j1 == [j EXCEPT !.item = disk[s]]
            r == [j1 EXCEPT !.at = "name"]
<1>1. /\ j.at = "write" /\ UNCHANGED <<undoStack, started, lost>>
      /\ ~Free(s) /\ Free(j.dst)
      /\ disk' = [disk EXCEPT ![j.dst] = disk[s]] /\ To(w, Copied(j1))
  BY DEF CloneItem, AtStep
<1>2. j.i <= Len(j.record.pairs)
  BY <1>1, JobKinds DEF UndoPlaced
<1>3. /\ j \in UndoJobs /\ UndoPlaced(j) /\ s \in Path /\ DiskFine /\ disk \in Disks
      /\ j.dst \in Path
  BY <1>1, <1>2, Undone DEF UndoPlaced
<1>4. disk[s] \in Item
  BY <1>1, <1>3 DEF Disks, Free
<1>5. /\ SameUndo(j1, j) /\ j1 \in UndoJobs /\ j1.i = j.i /\ j1.dst = j.dst
      /\ j1.item = disk[s] /\ j1.error = j.error
      /\ Origin(j1) = Origin(j) /\ Source(j1) = s
  BY <1>3, <1>4, UndoItemField
<1>6. DiskFine'
  BY <1>1, <1>3, <1>4, FreeIsNotLast, WriteHarmless
<1>7. /\ disk'[j.dst] = disk[s] /\ \A p \in Path : p # j.dst => disk'[p] = disk[p]
  BY <1>1, <1>3 DEF Disks
<1>8. To(w, Copied(j1))
  BY <1>1
<1>. HIDE DEF j1
<1>9. /\ SameUndo(r, j1) /\ r \in UndoJobs /\ r.at = "name" /\ r.i = j1.i /\ r.dst = j1.dst
      /\ r.item = j1.item /\ r.error = j1.error
      /\ Origin(r) = Origin(j1) /\ Source(r) = Source(j1)
  BY <1>5, UndoAtFields
<1>10. To(w, r)
  BY <1>5, <1>8 DEF Copied, UndoJobs
<1>. HIDE DEF r
<1>11. SameUndo(r, j)
  BY <1>5, <1>9 DEF SameUndo
<1>. QED  BY <1>1, <1>4, <1>5, <1>6, <1>7, <1>9, <1>10, <1>11, WritesBack

LEMMA BeginUndoStep ==
    ASSUME TransferInv, NEW w \in Workers, BeginCopy(w), Kind(w) = "undo"
    PROVE  TransferInv'
<1>. DEFINE j == job[w]
            s == Source(j)
            j1 == [j EXCEPT !.item = disk[s]]
            r == [j1 EXCEPT !.at = "copy"]
<1>1. /\ j.at = "write" /\ UNCHANGED <<undoStack, started>>
      /\ \/ /\ ~Free(s)
            /\ disk' = [disk EXCEPT ![j.dst] = Part(disk[s])]
            /\ lost' = lost \cup Destroyed(j.dst, "raced")
            /\ To(w, r)
         \/ To(w, Failed(j)) /\ UNCHANGED <<disk, lost>>
  BY DEF BeginCopy, AtStep
<1>2. j.i <= Len(j.record.pairs)
  BY <1>1, JobKinds DEF UndoPlaced
<1>3. /\ j \in UndoJobs /\ UndoPlaced(j) /\ s \in Path /\ DiskFine /\ disk \in Disks
      /\ j.dst \in Path /\ (Undisturbed(j) => Empty(disk, j.dst))
  BY <1>1, <1>2, Undone DEF UndoPlaced, UndoStands
<1>a. CASE To(w, Failed(j)) /\ UNCHANGED <<disk, lost>>
  <2>1. DiskFine'
    BY <1>3, <1>a, NothingWritten
  <2>. QED  BY <1>1, <1>2, <1>a, <2>1, UndoFails
<1>b. CASE /\ ~Free(s)
           /\ disk' = [disk EXCEPT ![j.dst] = Part(disk[s])]
           /\ lost' = lost \cup Destroyed(j.dst, "raced")
           /\ To(w, r)
  <2>4. disk[s] \in Item /\ Part(disk[s]) \in Item
    BY <1>b, <1>3, PartIsPart DEF Disks, Free
  <2>5. /\ SameUndo(j1, j) /\ j1 \in UndoJobs /\ j1.i = j.i /\ j1.dst = j.dst
        /\ j1.item = disk[s] /\ j1.error = j.error
        /\ Origin(j1) = Origin(j) /\ Source(j1) = s
    BY <1>3, <2>4, UndoItemField
  <2>6. DiskFine'
    <3>1. IsLast(j.dst) => "raced" \in Excused
      BY <1>3, RacesExcused DEF Undisturbed, Empty, IsLast, Free
    <3>2. "raced" \in Reasons
      BY DEF Reasons
    <3>. QED  BY <1>3, <1>b, <2>4, <3>1, <3>2, WriteRecorded
  <2>7. /\ disk'[j.dst] = Part(disk[s]) /\ \A p \in Path : p # j.dst => disk'[p] = disk[p]
    BY <1>b, <1>3 DEF Disks
  <2>8. To(w, r)
    BY <1>b
  <2>. HIDE DEF j1
  <2>9. /\ SameUndo(r, j1) /\ r \in UndoJobs /\ r.at = "copy" /\ r.i = j1.i /\ r.dst = j1.dst
        /\ r.item = j1.item /\ r.error = j1.error
        /\ Origin(r) = Origin(j1) /\ Source(r) = Source(j1)
    BY <2>5, UndoAtFields
  <2>. HIDE DEF r
  <2>10. SameUndo(r, j)
    BY <2>5, <2>9 DEF SameUndo
  <2>. QED  BY <1>1, <2>4, <2>5, <2>6, <2>7, <2>8, <2>9, <2>10, WritesBack
<1>. QED  BY <1>1, <1>a, <1>b

LEMMA FinishUndoCopyStep ==
    ASSUME TransferInv, NEW w \in Workers, FinishCopy(w), Kind(w) = "undo"
    PROVE  TransferInv'
<1>. DEFINE j == job[w]
            s == Source(j)
            item == j.item
            part == Part(item)
            entries == {p \in Path : disk[p] = part}
            r == [j EXCEPT !.at = "name"]
<1>1. j.at = "copy" /\ To(w, Copied(j)) /\ UNCHANGED <<undoStack, started, lost>>
      /\ \/ disk[j.dst] = part /\ disk' = [disk EXCEPT ![j.dst] = item]
         \/ disk[j.dst] # part /\ (\E p \in entries : disk' = [disk EXCEPT ![p] = item])
         \/ entries = {} /\ disk' = disk
  BY DEF FinishCopy, AtStep
<1>2. j.i <= Len(j.record.pairs)
  BY <1>1, JobKinds DEF UndoPlaced
<1>3. /\ j \in UndoJobs /\ UndoPlaced(j) /\ s \in Path /\ DiskFine /\ disk \in Disks
      /\ j.dst \in Path /\ item \in Item /\ j.kind = "undo"
      /\ (Undisturbed(j) => disk[j.dst] = part /\ disk[s] = item)
  BY <1>1, <1>2, Undone DEF UndoPlaced, UndoStands
<1>4. DiskFine'
  BY <1>1, <1>3, EndsWhole
<1>5. Undisturbed(j) => disk' = [disk EXCEPT ![j.dst] = item]
  BY <1>1, <1>3
<1>6. Undisturbed(j) => /\ disk'[j.dst] = item /\ disk[s] = item
                        /\ \A p \in Path : p # j.dst => disk'[p] = disk[p]
  BY <1>3, <1>5 DEF Disks
<1>7. To(w, r)
  BY <1>1, <1>3 DEF Copied
<1>8. /\ SameUndo(r, j) /\ r \in UndoJobs /\ r.at = "name" /\ r.i = j.i /\ r.dst = j.dst
      /\ r.item = item /\ r.error = j.error /\ Origin(r) = Origin(j) /\ Source(r) = Source(j)
  BY <1>3, UndoAtFields
<1>. HIDE DEF r
<1>. QED  BY <1>1, <1>3, <1>4, <1>6, <1>7, <1>8, WritesBack

LEMMA FailUndoCopyStep ==
    ASSUME TransferInv, NEW w \in Workers, FailCopy(w), Kind(w) = "undo"
    PROVE  TransferInv'
<1>. DEFINE j == job[w]
<1>1. j.at = "copy" /\ To(w, Failed(j)) /\ UNCHANGED <<undoStack, started, lost>>
      /\ \/ disk[j.dst] = Part(j.item) /\ disk' = [disk EXCEPT ![j.dst] = NoItem]
         \/ UNCHANGED disk
  BY DEF FailCopy, AtStep
<1>2. j.i <= Len(j.record.pairs)
  BY <1>1, JobKinds DEF UndoPlaced
<1>3. DiskFine /\ j.dst \in Path /\ j.item \in Item
  BY <1>1, <1>2, Undone DEF UndoPlaced
<1>4. DiskFine'
  BY <1>1, <1>3, PartIsNotLast, WriteHarmless, NothingWritten
<1>. QED  BY <1>1, <1>2, <1>4, UndoFails

LEMMA RestoreNameStep == ASSUME TransferInv, NEW w \in Workers, RestoreName(w) PROVE TransferInv'
<1>. DEFINE j == job[w]
            from == Origin(j)
            to == Source(j)
            pairs == j.record.pairs
            r == [j EXCEPT !.at = "unlink"]
<1>1. /\ j.at = "name" /\ Kind(w) = "undo" /\ j.i <= Len(pairs) /\ UNCHANGED <<undoStack, started>>
      /\ \/ j.dst = from /\ To(w, r) /\ disk' = disk /\ lost' = lost
         \/ j.dst # from /\ Rename(j.dst, from) /\ To(w, r)
         \/ /\ IF Free(j.dst) THEN disk' = disk
               ELSE \E left \in {NoItem} \cup Leftovers(j.dst) : disk' = [disk EXCEPT ![j.dst] = left]
            /\ lost' = lost \cup Destroyed(j.dst, "raced")
            /\ To(w, Failed(j))
  BY OnlyUndo DEF RestoreName
<1>2. /\ j \in UndoJobs /\ UndoPlaced(j) /\ j.i \in DOMAIN pairs /\ j.i \in Nat
      /\ from \in Path /\ to \in Path /\ j.dst \in Path /\ j.item \in Item
      /\ j.dst[1] # to[1] /\ from[1] # to[1]
      /\ from = pairs[j.i].from /\ to = pairs[j.i].to /\ j.record \in Record
      /\ Undisturbed(j) => /\ disk[j.dst] = j.item /\ disk[to] = j.item
                           /\ j.dst = from \/ Empty(disk, from)
      /\ j.alone /\ j.record.replaced = 0 /\ ~j.error => UndoTidy(disk, j)
      /\ DiskFine /\ disk \in Disks
  BY <1>1, Undone DEF UndoPlaced, UndoStands, UndoJobs
<1>3. CASE /\ IF Free(j.dst) THEN disk' = disk
              ELSE \E left \in {NoItem} \cup Leftovers(j.dst) : disk' = [disk EXCEPT ![j.dst] = left]
           /\ lost' = lost \cup Destroyed(j.dst, "raced")
           /\ To(w, Failed(j))
  <2>1. PICK x \in Item \cup {NoItem} : disk' = [disk EXCEPT ![j.dst] = x]
    <3>1. CASE Free(j.dst)
      <4>1. disk' = [disk EXCEPT ![j.dst] = NoItem]
        BY <1>2, <1>3, <3>1 DEF Free, Disks
      <4>. QED  BY <4>1
    <3>2. CASE ~Free(j.dst)
      BY <1>2, <1>3, <3>2, LeftoversAreItems
    <3>. QED  BY <3>1, <3>2
  <2>2. IsLast(j.dst) => "raced" \in Excused
    BY <1>2, HasTwin, RacesExcused DEF Undisturbed
  <2>3. "raced" \in Reasons
    BY DEF Reasons
  <2>4. DiskFine'
    BY <1>2, <1>3, <2>1, <2>2, <2>3, WriteRecorded
  <2>. QED  BY <1>1, <1>3, <2>4, UndoFails
<1>4. CASE /\ To(w, r)
           /\ \/ j.dst = from /\ disk' = disk /\ lost' = lost
              \/ j.dst # from /\ Rename(j.dst, from)
  <2>1. DiskFine'
    <3>1. CASE disk' = disk /\ lost' = lost
      BY <1>2, <3>1, NothingWritten
    <3>2. CASE j.dst # from /\ Rename(j.dst, from)
      <4>1. IsLast(from) => "raced" \in Excused
        BY <1>2, <3>2, RacesExcused DEF Undisturbed, Empty, IsLast, Free
      <4>. QED  BY <1>2, <3>2, <4>1, RenameRecorded
    <3>. QED  BY <1>4, <3>1, <3>2
  <2>2. /\ SameUndo(r, j) /\ r \in UndoJobs /\ r.at = "unlink" /\ r.i = j.i /\ r.dst = j.dst
        /\ r.item = j.item /\ r.error = j.error /\ r.record = j.record
        /\ Origin(r) = from /\ Source(r) = to
    BY <1>2, UndoAtFields
  <2>3. To(w, r)
    BY <1>4
  <2>. HIDE DEF r
  <2>4. UndoPlaced(r)
    BY <1>1, <1>2, <2>2 DEF UndoPlaced
  <2>5. Undisturbed(j) => /\ disk'[from] = j.item /\ disk'[to] = j.item
                          /\ j.dst # from => Empty(disk, from) /\ Empty(disk', j.dst)
                          /\ \A p \in Path : p \notin {from, j.dst} => disk'[p] = disk[p]
    BY <1>2, <1>4 DEF Rename, Disks, Empty
  <2>6. Undisturbed(j) => UndoStands(disk', r)
    BY <2>2, <2>5 DEF UndoStands
  <2>7. ASSUME r.alone, r.record.replaced = 0, ~r.error PROVE UndoTidy(disk', r)
    <3>1. UndoTidy(disk, j) /\ Undisturbed(j)
      BY <1>2, <2>2, <2>7 DEF Undisturbed, SameUndo
    <3>2. /\ Apart(pairs)
          /\ \A m \in DOMAIN pairs : m < j.i =>
                /\ disk[pairs[m].from] = pairs[m].item
                /\ Empty(disk, pairs[m].to) \/ (pairs[m].to = j.dst /\ j.dst # from)
          /\ \A m \in DOMAIN pairs : m >= j.i => disk[pairs[m].to] = pairs[m].item
          /\ \A m, n \in DOMAIN pairs : m < j.i /\ n >= j.i => pairs[m].from # pairs[n].to
          /\ \A n \in DOMAIN pairs : n >= j.i => from # pairs[n].to
          /\ \A n \in DOMAIN pairs : IF n < j.i THEN pairs[n].from # j.dst ELSE pairs[n].to # j.dst
      BY <1>1, <3>1 DEF UndoTidy
    <3>3. j.record.kind # "RemoveCreated"
      BY <1>1, <1>2 DEF UndoPlaced
    <3>4. /\ \A m \in DOMAIN pairs : /\ pairs[m].from \in Path /\ pairs[m].to \in Path
                                     /\ pairs[m].item \in Item /\ m \in Nat
          /\ disk'[from] = j.item /\ (j.dst # from => Empty(disk, from) /\ Empty(disk', j.dst))
          /\ \A p \in Path : p \notin {from, j.dst} => disk'[p] = disk[p]
          /\ j.dst = from => disk' = disk
      <4>1. j.dst = from => disk' = disk
        BY <1>4
      <4>2. \A m \in DOMAIN pairs : /\ pairs[m].from \in Path /\ pairs[m].to \in Path
                                     /\ pairs[m].item \in Item /\ m \in Nat
        <5>1. j.record \in Record
          BY <1>2
        <5>. HIDE DEF j
        <5>. QED  BY <5>1, RecordPairs
      <4>. HIDE DEF j, from, to, pairs
      <4>. QED  BY <2>5, <3>1, <4>1, <4>2
    <3>. HIDE DEF j, from, to, pairs
    <3>5. ASSUME NEW m \in DOMAIN pairs, m < j.i
          PROVE  disk'[pairs[m].from] = pairs[m].item /\ Empty(disk', pairs[m].to)
      <4>1. CASE j.dst = from
        BY <3>2, <3>4, <3>5, <4>1
      <4>2. CASE j.dst # from
        <5>1. pairs[m].from \notin {from, j.dst} /\ pairs[m].to # from
          BY <1>2, <3>2, <3>4, <3>5, <4>2, NoItemAssumption DEF Empty, Apart
        <5>2. disk'[pairs[m].from] = pairs[m].item
          BY <3>2, <3>4, <3>5, <5>1
        <5>3. Empty(disk', pairs[m].to)
          BY <3>2, <3>4, <3>5, <4>2, <5>1 DEF Empty
        <5>. QED  BY <5>2, <5>3
      <4>. QED  BY <4>1, <4>2
    <3>6. ASSUME NEW m \in DOMAIN pairs, m >= j.i PROVE disk'[pairs[m].to] = pairs[m].item
      <4>1. pairs[m].to # from /\ pairs[m].to # j.dst
        BY <1>2, <3>2, <3>4, <3>6
      <4>. QED  BY <3>2, <3>4, <3>6, <4>1
    <3>. QED  BY <2>2, <3>2, <3>3, <3>5, <3>6 DEF UndoTidy, pairs
  <2>8. UNCHANGED <<undoStack, started>> /\ job[w] \in UndoJobs /\ r \in UndoJobs
    BY <1>1, <1>2, <2>2
  <2>9. r.alone => job[w].alone
    BY <2>2 DEF SameUndo
  <2>10. Undisturbed(job[w]) => UndoStands(disk', r)
    BY <2>6
  <2>11. r.alone /\ r.record.replaced = 0 /\ ~r.error => UndoTidy(disk', r)
    BY <2>7
  <2>. HIDE DEF j, from, to, pairs
  <2>. QED  BY <2>1, <2>3, <2>4, <2>8, <2>9, <2>10, <2>11, StepOfUndo
<1>. QED  BY <1>1, <1>3, <1>4

LEMMA UnlinkUndoStep ==
    ASSUME TransferInv, NEW w \in Workers, UnlinkSource(w), Kind(w) = "undo"
    PROVE  TransferInv'
<1>. DEFINE j == job[w]
            s == Source(j)
            there == Origin(j)
            pairs == j.record.pairs
            b == BeingWritten(s)
            gone == IF ~j.alone /\ (disk[there] # j.item \/ disk[s] # j.item \/ b)
                    THEN Destroyed(s, "raced") ELSE {}
<1>0. j.kind = "undo"
  BY DEF Kind
<1>1. /\ j.at = "unlink" /\ UNCHANGED <<undoStack, started>> /\ lost' = lost \cup gone
      /\ \/ ~Free(s) /\ disk' = [disk EXCEPT ![s] = NoItem] /\ To(w, Landed(j))
         \/ /\ IF Free(s) THEN UNCHANGED disk
               ELSE \E left \in Leftovers(s) : disk' = [disk EXCEPT ![s] = left]
            /\ To(w, Failed(j))
  BY <1>0 DEF UnlinkSource, AtStep
<1>2. j.i <= Len(pairs)
  BY <1>1, JobKinds DEF UndoPlaced
<1>3. /\ j \in UndoJobs /\ UndoPlaced(j) /\ j.i \in DOMAIN pairs /\ j.i \in Nat
      /\ s \in Path /\ there \in Path /\ s # there
      /\ s = pairs[j.i].to
      /\ Undisturbed(j) => disk[there] = j.item /\ disk[s] = j.item
      /\ j.alone /\ j.record.replaced = 0 /\ ~j.error => UndoTidy(disk, j)
      /\ DiskFine /\ disk \in Disks /\ j.alone \in BOOLEAN
  BY <1>1, <1>2, Undone DEF UndoPlaced, UndoStands, UndoJobs
<1>4. CASE ~Free(s) /\ disk' = [disk EXCEPT ![s] = NoItem] /\ To(w, Landed(j))
  <2>1. DiskFine'
    BY <1>1, <1>3, <1>4, UnlinkFine
  <2>2. ASSUME j.alone, j.record.replaced = 0, ~j.error
        PROVE  /\ disk[there] = pairs[j.i].item
               /\ disk'[there] = pairs[j.i].item /\ Empty(disk', s)
               /\ \A p \in Path : p \notin {there, s} => disk'[p] = disk[p]
               /\ \A n \in DOMAIN pairs : n >= j.i => there # pairs[n].to
               /\ j.record.kind # "RemoveCreated"
    <3>1. UndoTidy(disk, j) /\ disk[there] = j.item /\ disk[s] = j.item
      BY <1>3, <2>2 DEF Undisturbed
    <3>2. disk[s] = pairs[j.i].item /\ \A n \in DOMAIN pairs : n >= j.i => there # pairs[n].to
      <4>1. /\ \A n \in DOMAIN pairs : n >= j.i => disk[pairs[n].to] = pairs[n].item
            /\ \A n \in DOMAIN pairs : n >= j.i => there # pairs[n].to
        BY <1>1, <3>1 DEF UndoTidy
      <4>2. j.i \in DOMAIN pairs /\ j.i \in Nat /\ s = pairs[j.i].to
        BY <1>3
      <4>. HIDE DEF j, s, there, pairs
      <4>. QED  BY <4>1, <4>2
    <3>3. j.record.kind # "RemoveCreated"
      BY <1>1, <1>3 DEF UndoPlaced
    <3>4. /\ disk'[there] = disk[there] /\ Empty(disk', s)
          /\ \A p \in Path : p \notin {there, s} => disk'[p] = disk[p]
      BY <1>3, <1>4 DEF Disks, Empty
    <3>. QED  BY <3>1, <3>2, <3>3, <3>4
  <2>. QED  BY <1>1, <1>2, <1>4, <2>1, <2>2, UndoLands
<1>5. CASE /\ IF Free(s) THEN UNCHANGED disk
              ELSE \E left \in Leftovers(s) : disk' = [disk EXCEPT ![s] = left]
           /\ To(w, Failed(j))
  <2>1. PICK x \in Item \cup {NoItem} : disk' = [disk EXCEPT ![s] = x]
    <3>1. CASE Free(s)
      <4>1. disk' = [disk EXCEPT ![s] = NoItem]
        BY <1>3, <1>5, <3>1 DEF Free, Disks
      <4>. QED  BY <4>1
    <3>2. CASE ~Free(s)
      BY <1>3, <1>5, <3>2, LeftoversAreItems
    <3>. QED  BY <3>1, <3>2
  <2>2. DiskFine'
    BY <1>1, <1>3, <2>1, UnlinkFine
  <2>. QED  BY <1>1, <1>2, <1>5, <2>2, UndoFails
<1>. QED  BY <1>1, <1>4, <1>5

LEMMA RemoveCreatedStep == ASSUME TransferInv, NEW w \in Workers, RemoveCreated(w) PROVE TransferInv'
<1>. DEFINE j == job[w]
            s == Source(j)
            there == Origin(j)
            pairs == j.record.pairs
            gone == IF j.alone THEN {} ELSE Destroyed(s, "stale")
<1>1. /\ j.at = "item" /\ Kind(w) = "undo" /\ j.record.kind = "RemoveCreated" /\ j.i <= Len(pairs)
      /\ UNCHANGED <<undoStack, started>> /\ lost' = lost \cup gone
      /\ \/ ~Free(s) /\ disk' = [disk EXCEPT ![s] = NoItem] /\ To(w, Landed(j))
         \/ /\ IF Free(s) THEN UNCHANGED disk
               ELSE \E left \in Leftovers(s) : disk' = [disk EXCEPT ![s] = left]
            /\ To(w, Failed(j))
  BY DEF RemoveCreated, Undoing, AtStep
<1>2. /\ j \in UndoJobs /\ UndoPlaced(j) /\ j.i \in DOMAIN pairs /\ j.i \in Nat
      /\ s \in Path /\ there \in Path
      /\ s = pairs[j.i].to /\ there = pairs[j.i].from
      /\ j.record.replaced = 0 /\ ~j.error
      /\ j.alone => UndoTidy(disk, j)
      /\ DiskFine /\ disk \in Disks /\ j.alone \in BOOLEAN
  BY <1>1, Undone DEF UndoPlaced, RecordShaped, UndoJobs
<1>3. j.alone => /\ CopiesApart(pairs) /\ disk[there] = pairs[j.i].item /\ disk[s] = pairs[j.i].item
                 /\ s # there /\ \A n \in DOMAIN pairs : there # pairs[n].to
  <2>1. SUFFICES ASSUME j.alone
                 PROVE  /\ CopiesApart(pairs) /\ disk[there] = pairs[j.i].item
                        /\ disk[s] = pairs[j.i].item
                        /\ s # there /\ \A n \in DOMAIN pairs : there # pairs[n].to
    OBVIOUS
  <2>2. /\ CopiesApart(pairs) /\ \A m \in DOMAIN pairs : disk[pairs[m].from] = pairs[m].item
        /\ \A m \in DOMAIN pairs : m >= j.i => disk[pairs[m].to] = pairs[m].item
    BY <1>1, <1>2, <2>1 DEF UndoTidy
  <2>3. j.i \in DOMAIN pairs /\ j.i \in Nat /\ s = pairs[j.i].to /\ there = pairs[j.i].from
    BY <1>2
  <2>. HIDE DEF j, s, there, pairs
  <2>. QED  BY <2>2, <2>3 DEF CopiesApart
<1>4. PICK x \in Item \cup {NoItem} : /\ disk' = [disk EXCEPT ![s] = x]
                                      /\ \/ x = NoItem /\ To(w, Landed(j))
                                         \/ To(w, Failed(j))
  <2>1. CASE ~Free(s) /\ disk' = [disk EXCEPT ![s] = NoItem] /\ To(w, Landed(j))
    BY <2>1
  <2>2. CASE Free(s) /\ disk' = disk /\ To(w, Failed(j))
    <3>1. disk' = [disk EXCEPT ![s] = NoItem]
      BY <1>2, <2>2 DEF Free, Disks
    <3>. QED  BY <2>2, <3>1
  <2>3. CASE ~Free(s) /\ To(w, Failed(j)) /\ \E left \in Leftovers(s) : disk' = [disk EXCEPT ![s] = left]
    BY <1>2, <2>3, LeftoversAreItems
  <2>. QED  BY <1>1, <2>1, <2>2, <2>3
<1>5. DiskFine'
  <2>1. CASE j.alone
    <3>1. ~IsLast(s) /\ lost' = lost
      BY <1>1, <1>2, <1>3, <2>1, HasTwin
    <3>. QED  BY <1>2, <1>4, <3>1, WriteHarmless
  <2>2. CASE ~j.alone
    <3>1. "stale" \in Reasons /\ "stale" \in Excused /\ lost' = lost \cup Destroyed(s, "stale")
      BY <1>1, <2>2, ExcusedAssumption DEF Reasons
    <3>. QED  BY <1>2, <1>4, <3>1, WriteRecorded
  <2>. QED  BY <2>1, <2>2
<1>6. CASE To(w, Failed(j))
  BY <1>1, <1>5, <1>6, UndoFails
<1>7. CASE x = NoItem /\ To(w, Landed(j))
  <2>1. ASSUME j.alone
        PROVE  /\ disk'[there] = pairs[j.i].item /\ Empty(disk', s)
               /\ \A p \in Path : p \notin {there, s} => disk'[p] = disk[p]
    BY <1>2, <1>3, <1>4, <1>7, <2>1 DEF Disks, Empty
  <2>. QED  BY <1>1, <1>3, <1>5, <1>7, <2>1, UndoLands
<1>. QED  BY <1>4, <1>6, <1>7

----
(* A job begins: the others, and the records, are not alone any more.      *)

LEMMA AloneField ==
    ASSUME NEW j \in TransferJobs, TransferPlaced(j), NEW b \in BOOLEAN
    PROVE  LET r == [j EXCEPT !.alone = b] IN r \in TransferJobs /\ TransferPlaced(r) /\ r.alone = b
<1>. DEFINE r == [j EXCEPT !.alone = b]
<1>1. r \in TransferJobs /\ r.alone = b /\ \A f \in DOMAIN j \ {"alone"} : r[f] = j[f]
  BY TransferFields, Domains
<1>. HIDE DEF r
<1>2. /\ r.at = j.at /\ r.i = j.i /\ r.sources = j.sources /\ r.dest = j.dest /\ r.mode = j.mode
      /\ r.dst = j.dst /\ r.item = j.item /\ r.policy = j.policy /\ r.asked = j.asked
      /\ r.kind = "transfer" /\ j.kind = "transfer"
  BY <1>1, Domains DEF TransferJobs
<1>3. Moves(r) = Moves(j) /\ Source(r) = Source(j)
  BY <1>2, SameMoves DEF Source
<1>4. Renames(r) = Renames(j)
  BY <1>2, <1>3 DEF Renames
<1>5. TransferPlaced(r)
  BY <1>2, <1>3, <1>4 DEF TransferPlaced
<1>. QED  BY <1>1, <1>5 DEF r

LEMMA AloneUndoField ==
    ASSUME NEW j \in UndoJobs, UndoPlaced(j), NEW b \in BOOLEAN
    PROVE  LET r == [j EXCEPT !.alone = b] IN r \in UndoJobs /\ UndoPlaced(r) /\ r.alone = b
<1>. DEFINE r == [j EXCEPT !.alone = b]
<1>1. r \in UndoJobs /\ r.alone = b /\ \A f \in DOMAIN j \ {"alone"} : r[f] = j[f]
  BY UndoFields, Domains
<1>. HIDE DEF r
<1>2. /\ r.at = j.at /\ r.i = j.i /\ r.record = j.record /\ r.dst = j.dst /\ r.item = j.item
      /\ r.error = j.error /\ r.kind = "undo" /\ j.kind = "undo"
  BY <1>1, Domains DEF UndoJobs
<1>3. Origin(r) = Origin(j) /\ Source(r) = Source(j)
  BY <1>2 DEF Source, Origin
<1>5. UndoPlaced(r)
  BY <1>2, <1>3 DEF UndoPlaced
<1>. QED  BY <1>1, <1>5 DEF r

LEMMA DisturbedFine ==
    ASSUME TransferInv, NEW w \in Workers, NEW v \in Workers, v # w, NEW r,
           job' = [Disturbed(job) EXCEPT ![w] = r]
    PROVE  /\ JobFine(disk, job'[v])
           /\ job'[v].kind # "idle" => ~job'[v].alone /\ Busy(v)
<1>. DEFINE j == job[v]
            b == FALSE
            new == [j EXCEPT !.alone = b]
<1>1. job'[v] = IF j.kind = "idle" THEN j ELSE new
  BY DEF Disturbed
<1>2. b \in BOOLEAN /\ ~b /\ ~OneAtATime
  BY DEF OneAtATime
<1>. HIDE DEF b
<1>3. CASE j.kind = "idle"
  <2>1. j = Idle
    BY <1>3, JobKinds DEF Busy
  <2>. QED  BY <1>1, <1>3, <2>1, IdleFine
<1>4. CASE j.kind = "transfer"
  <2>1. j \in TransferJobs /\ TransferPlaced(j)
    BY <1>4, JobKinds DEF Kind
  <2>2. new \in TransferJobs /\ TransferPlaced(new) /\ new.alone = b
    <3>. HIDE DEF j
    <3>. QED  BY <1>2, <2>1, AloneField
  <2>. HIDE DEF new
  <2>3. new.kind = "transfer" /\ ~new.alone /\ ~Undisturbed(new)
    BY <1>2, <2>2 DEF Undisturbed, TransferJobs
  <2>4. JobFine(disk, new)
    BY <2>2, <2>3 DEF JobFine, JobShaped
  <2>. QED  BY <1>1, <1>4, <2>3, <2>4 DEF Busy
<1>5. CASE j.kind = "undo"
  <2>1. j \in UndoJobs /\ UndoPlaced(j)
    BY <1>5, JobKinds DEF Kind
  <2>2. new \in UndoJobs /\ UndoPlaced(new) /\ new.alone = b
    <3>. HIDE DEF j
    <3>. QED  BY <1>2, <2>1, AloneUndoField
  <2>. HIDE DEF new
  <2>3. new.kind = "undo" /\ ~new.alone /\ ~Undisturbed(new)
    BY <1>2, <2>2 DEF Undisturbed, UndoJobs
  <2>4. JobFine(disk, new)
    BY <2>2, <2>3 DEF JobFine, JobShaped
  <2>. QED  BY <1>1, <1>5, <2>3, <2>4 DEF Busy
<1>. QED  BY <1>3, <1>4, <1>5, JobKinds DEF Busy, Kind

LEMMA DisturbedRecords ==
    ASSUME NEW stack \in Seq(Record), \A k \in DOMAIN stack : RecordShaped(stack[k])
    PROVE  /\ DisturbedStack(stack) \in Seq(Record) /\ Len(DisturbedStack(stack)) = Len(stack)
           /\ \A k \in DOMAIN DisturbedStack(stack) :
                 RecordShaped(DisturbedStack(stack)[k]) /\ ~DisturbedStack(stack)[k].alone
<1>. DEFINE new == DisturbedStack(stack)
            b == FALSE
            n == Len(stack)
<1>1. n \in Nat /\ DOMAIN stack = 1..n
  OBVIOUS
<1>2. new = [k \in 1..n |-> [stack[k] EXCEPT !.alone = b]]
  BY <1>1 DEF DisturbedStack
<1>3. b \in BOOLEAN /\ ~b
  OBVIOUS
<1>. HIDE DEF b, n, new
<1>4. ASSUME NEW k \in 1..n PROVE new[k] \in Record /\ RecordShaped(new[k]) /\ ~new[k].alone
  <2>. DEFINE r == stack[k]
              r2 == [r EXCEPT !.alone = b]
  <2>1. r \in Record /\ RecordShaped(r) /\ new[k] = r2
    BY <1>1, <1>2
  <2>. HIDE DEF r
  <2>2. r2 \in Record /\ r2.alone = b /\ r2.kind = r.kind /\ r2.replaced = r.replaced
    BY <1>3, <2>1 DEF Record
  <2>. HIDE DEF r2
  <2>3. RecordShaped(r2)
    BY <2>1, <2>2 DEF RecordShaped
  <2>. QED  BY <1>3, <2>1, <2>2, <2>3
<1>5. new \in [1..n -> Record]
  BY <1>2, <1>4
<1>6. new \in Seq(Record) /\ Len(new) = n /\ DOMAIN new = 1..n
  BY <1>1, <1>5
<1>. QED  BY <1>4, <1>6 DEF n, new

LEMMA Begins ==
    ASSUME TransferInv, NEW w \in Workers, ~Busy(w), NEW r, JobFine(disk, r), r.kind # "idle",
           job' = [Disturbed(job) EXCEPT ![w] = r],
           NEW stack \in Seq(Record), Len(stack) <= UndoCap,
           \A k \in DOMAIN stack : RecordShaped(stack[k]), undoStack' = DisturbedStack(stack),
           started' \in 0..MaxItems, disk' = disk, lost' = lost,
           r.alone => \A v \in Workers : ~Busy(v)
    PROVE  TransferInv'
<1>1. job'[w] = r /\ DOMAIN job' = Workers
  BY DEF Disturbed
<1>2. ASSUME NEW v \in Workers PROVE JobFine(disk', job'[v])
  BY <1>1, DisturbedFine
<1>3. /\ undoStack' \in Seq(Record) /\ Len(undoStack') <= UndoCap
      /\ \A k \in DOMAIN undoStack' : RecordShaped(undoStack'[k]) /\ ~undoStack'[k].alone
  BY DisturbedRecords
<1>4. \A k \in DOMAIN undoStack' : RecordFine(disk', undoStack'[k])
  BY <1>3 DEF RecordFine
<1>5. AloneIsAlone'
  <2>1. ASSUME NEW u \in Workers, NEW v \in Workers, Busy(u)', Busy(v)', job'[v].alone
        PROVE  u = v
    <3>1. v = w
      BY <2>1, DisturbedFine DEF Busy
    <3>2. \A x \in Workers : ~Busy(x)
      BY <1>1, <2>1, <3>1
    <3>3. u = w
      BY <2>1, <3>2, DisturbedFine DEF Busy
    <3>. QED  BY <3>1, <3>3
  <2>. QED  BY <1>3, <2>1 DEF AloneIsAlone
<1>6. DiskFine'
  BY NothingWritten DEF TransferInv, DiskFine
<1>. QED  BY <1>1, <1>2, <1>3, <1>4, <1>5, <1>6 DEF TransferInv, DiskFine

LEMMA StartStep ==
    ASSUME TransferInv, NEW w \in Workers, NEW sources \in Selections, NEW dest \in Targets,
           NEW mode \in Modes, Start(w, sources, dest, mode)
    PROVE  TransferInv'
<1>. DEFINE alone == \A v \in Workers : ~Busy(v)
            r == NewTransfer(sources, dest, mode)
<1>1. /\ ~Busy(w) /\ started + Len(sources) <= MaxItems /\ started' = started + Len(sources)
      /\ job' = [Disturbed(job) EXCEPT ![w] = r] /\ undoStack' = DisturbedStack(undoStack)
      /\ disk' = disk /\ lost' = lost
  BY DEF Start
<1>2. Len(sources) \in Nat
  BY SelectionsAssumption
<1>3. alone \in BOOLEAN /\ (alone => \A v \in Workers : ~Busy(v))
  OBVIOUS
<1>4. r = [kind |-> "transfer", at |-> "plan", sources |-> sources, dest |-> dest, mode |-> mode,
           asked |-> <<>>, policy |-> <<>>, i |-> 1, dst |-> <<>>, item |-> NoItem,
           created |-> <<>>, skipped |-> 0, replaced |-> 0, failed |-> 0,
           cancelled |-> FALSE, alone |-> alone]
  BY DEF NewTransfer
<1>. HIDE DEF alone, r
<1>5. <<>> \in Answers(Item) /\ <<>> \in Answers(Choices) /\ <<>> \in Seq(Pair)
  BY EmptyAnswers
<1>6. r \in TransferJobs
  BY <1>3, <1>4, <1>5 DEF TransferJobs
<1>7. /\ r.kind = "transfer" /\ r.at = "plan" /\ r.sources = sources /\ r.policy = <<>> /\ r.i = 1
      /\ r.created = <<>> /\ (r.alone => alone)
  BY <1>4
<1>8. TransferPlaced(r) /\ TransferStands(disk, r)
  BY <1>2, <1>7 DEF TransferPlaced, TransferStands
<1>9. TransferTidy(disk, r)
  <2>1. DOMAIN r.created = {}
    BY <1>7
  <2>. QED  BY <1>7, <2>1 DEF TransferTidy, Apart
<1>10. JobFine(disk, r) /\ r.kind # "idle"
  BY <1>6, <1>7, <1>8, <1>9 DEF JobFine, JobShaped
<1>11. undoStack \in Seq(Record) /\ Len(undoStack) <= UndoCap
       /\ \A k \in DOMAIN undoStack : RecordShaped(undoStack[k])
  BY DEF TransferInv, RecordFine
<1>12. started' \in 0..MaxItems
  BY <1>1, <1>2, BoundsAssumption DEF TransferInv
<1>. QED  BY <1>1, <1>3, <1>7, <1>10, <1>11, <1>12, Begins

LEMMA PopUndoStep == ASSUME TransferInv, NEW w \in Workers, PopUndo(w) PROVE TransferInv'
<1>. DEFINE top == Len(undoStack)
            record == undoStack[top]
            alone == record.alone /\ \A v \in Workers : ~Busy(v)
            stack == SubSeq(undoStack, 1, top - 1)
            r == [kind |-> "undo", at |-> "item", record |-> record, i |-> 1,
                  dst |-> <<>>, item |-> NoItem, error |-> FALSE, alone |-> alone]
<1>1. /\ ~Busy(w) /\ undoStack # <<>> /\ started < MaxItems /\ started' = started + 1
      /\ job' = [Disturbed(job) EXCEPT ![w] = r] /\ undoStack' = DisturbedStack(stack)
      /\ disk' = disk /\ lost' = lost
  BY DEF PopUndo
<1>2. /\ undoStack \in Seq(Record) /\ Len(undoStack) <= UndoCap
      /\ \A k \in DOMAIN undoStack : RecordFine(disk, undoStack[k])
      /\ started \in 0..MaxItems
  BY DEF TransferInv
<1>3. top \in DOMAIN undoStack /\ top \in Nat
  BY <1>1, <1>2
<1>4. /\ stack \in Seq(Record) /\ Len(stack) = top - 1
      /\ \A k \in DOMAIN stack : stack[k] = undoStack[k] /\ k \in DOMAIN undoStack
  <2>1. \A k \in 1..(top - 1) : undoStack[k] \in Record /\ k \in DOMAIN undoStack
    BY <1>2, <1>3
  <2>2. /\ stack \in Seq(Record) /\ Len(stack) = top - 1
        /\ \A k \in 1..(top - 1) : stack[k] = undoStack[k]
    <3>1. 1 \in Int /\ top - 1 \in Int /\ top >= 1
      BY <1>2, <1>3
    <3>2. /\ stack \in Seq(Record)
          /\ Len(stack) = IF 1 <= top - 1 THEN top - 1 - 1 + 1 ELSE 0
          /\ \A k \in 1..(top - 1) - 1 + 1 : stack[k] = undoStack[1 + k - 1]
      <4>. HIDE DEF top
      <4>. QED  BY <2>1, <3>1, SubSeqProperties
    <3>. HIDE DEF top, stack
    <3>. QED  BY <1>3, <3>1, <3>2
  <2>. HIDE DEF top, stack
  <2>3. DOMAIN stack = 1..(top - 1)
    BY <2>2
  <2>. QED  BY <2>1, <2>2, <2>3
<1>5. record \in Record /\ RecordFine(disk, record)
  BY <1>2, <1>3
<1>6. alone \in BOOLEAN /\ (alone => record.alone /\ \A v \in Workers : ~Busy(v))
  BY <1>5 DEF Record
<1>7. Len(stack) <= UndoCap /\ \A k \in DOMAIN stack : RecordShaped(stack[k])
  BY <1>2, <1>3, <1>4, BoundsAssumption DEF RecordFine
<1>8. started' \in 0..MaxItems
  BY <1>1, <1>2, BoundsAssumption
<1>. HIDE DEF top, record, alone, stack
<1>9. r \in UndoJobs
  BY <1>5, <1>6 DEF UndoJobs
<1>10. /\ r.kind = "undo" /\ r.at = "item" /\ r.record = record /\ r.i = 1 /\ r.dst = <<>>
       /\ (r.alone => alone) /\ r.error = FALSE
  BY <1>6
<1>11. /\ job' = [Disturbed(job) EXCEPT ![w] = r]
  BY <1>1
<1>. HIDE DEF r
<1>12. UndoPlaced(r) /\ UndoStands(disk, r)
  BY <1>5, <1>10, RecordPairs DEF UndoPlaced, UndoStands, RecordFine
<1>13. ASSUME r.alone, record.replaced = 0 PROVE UndoTidy(disk, r)
  <2>1. RecordTidy(disk, record)
    BY <1>5, <1>6, <1>10, <1>13 DEF RecordFine
  <2>2. \A m \in DOMAIN record.pairs : m >= 1 /\ ~(m < 1)
    BY <1>5, RecordPairs
  <2>. QED  BY <1>10, <2>1, <2>2 DEF UndoTidy, RecordTidy
<1>14. JobFine(disk, r) /\ r.kind # "idle"
  BY <1>9, <1>10, <1>12, <1>13 DEF JobFine, JobShaped
<1>. QED  BY <1>1, <1>4, <1>6, <1>7, <1>8, <1>10, <1>11, <1>14, Begins

----
(* A transfer ends: what it has done can be undone.                        *)

LEMMA PushedFine ==
    ASSUME NEW stack \in Seq(Record), Len(stack) <= UndoCap, NEW record \in Record
    PROVE  /\ Pushed(stack, record) \in Seq(Record) /\ Len(Pushed(stack, record)) <= UndoCap
           /\ \A k \in DOMAIN Pushed(stack, record) :
                 \/ Pushed(stack, record)[k] = record
                 \/ \E l \in DOMAIN stack : Pushed(stack, record)[k] = stack[l]
<1>. DEFINE rest == IF Len(stack) >= UndoCap THEN Tail(stack) ELSE stack
            new == Append(rest, record)
<1>1. /\ rest \in Seq(Record) /\ Len(rest) < UndoCap
      /\ \A k \in 1..Len(rest) : \E l \in DOMAIN stack : rest[k] = stack[l]
  <2>1. CASE Len(stack) >= UndoCap
    <3>1. stack # <<>> /\ Len(stack) \in Nat /\ UndoCap \in Nat \ {0}
      BY <2>1, BoundsAssumption
    <3>2. /\ Tail(stack) \in Seq(Record) /\ Len(Tail(stack)) = Len(stack) - 1
          /\ \A k \in 1..Len(Tail(stack)) : Tail(stack)[k] = stack[k + 1]
      BY <3>1, HeadTailProperties
    <3>3. \A k \in 1..Len(Tail(stack)) : k + 1 \in DOMAIN stack
      BY <3>1, <3>2
    <3>. QED  BY <2>1, <3>1, <3>2, <3>3
  <2>2. CASE ~(Len(stack) >= UndoCap)
    BY <2>2, BoundsAssumption
  <2>. QED  BY <2>1, <2>2
<1>2. Pushed(stack, record) = new
  BY DEF Pushed
<1>. HIDE DEF rest
<1>3. /\ new \in Seq(Record) /\ Len(new) = Len(rest) + 1
      /\ \A k \in 1..Len(rest) : new[k] = rest[k]
      /\ new[Len(rest) + 1] = record
  BY <1>1
<1>4. Len(rest) \in Nat /\ UndoCap \in Nat
  BY <1>1, BoundsAssumption
<1>. HIDE DEF new
<1>5. DOMAIN new = 1..(Len(rest) + 1)
  BY <1>3
<1>. QED  BY <1>1, <1>2, <1>3, <1>4, <1>5

LEMMA UndoKinds ==
    ASSUME NEW j \in TransferJobs, UndoKind(j) # ""
    PROVE  /\ UndoKind(j) \in {"MoveBack", "MoveBackCross", "RemoveCreated"}
           /\ UndoKind(j) # "MoveBack" => j.replaced = 0
           /\ UndoKind(j) = "RemoveCreated" => ~Moves(j)
<1>1. j.replaced \in Nat
  BY DEF TransferJobs
<1>. QED  BY <1>1 DEF UndoKind

LEMMA FinishTransferStep ==
    ASSUME TransferInv, NEW w \in Workers, NEW open, FinishTransfer(w, open)
    PROVE  TransferInv'
<1>. DEFINE j == job[w]
            record == [kind |-> UndoKind(j), pairs |-> j.created,
                       replaced |-> j.replaced, alone |-> j.alone]
<1>1. /\ Kind(w) = "transfer" /\ j.at = "finish" /\ To(w, Idle) /\ UNCHANGED <<disk, started, lost>>
      /\ \/ undoStack' = undoStack
         \/ UndoKind(j) # "" /\ undoStack' = Pushed(undoStack, record)
  BY DEF FinishTransfer, AtStep
<1>2. /\ j \in TransferJobs /\ TransferPlaced(j) /\ j.at = "finish" /\ Busy(w)
      /\ (j.alone /\ j.replaced = 0 => TransferTidy(disk, j))
  BY <1>1, JobKinds DEF Busy, Kind
<1>3. DiskFine'
  BY <1>1, NothingWritten DEF TransferInv, DiskFine
<1>4. /\ job'[w] = Idle /\ DOMAIN job' = Workers /\ \A v \in Workers : v # w => job'[v] = job[v]
  BY <1>1 DEF To, TransferInv
<1>5. ASSUME NEW v \in Workers PROVE JobFine(disk', job'[v])
  BY <1>2, <1>4, OthersFine, IdleFine
<1>6. ~Busy(w)' /\ \A v \in Workers : Busy(v)' => Busy(v) /\ v # w /\ ~job'[v].alone
  BY <1>2, <1>4, IdleFine, OthersFine DEF Busy
<1>7. \A k \in DOMAIN undoStack : RecordFine(disk', undoStack[k]) /\ ~undoStack[k].alone
  BY <1>2, RecordsFine
<1>8. undoStack \in Seq(Record) /\ Len(undoStack) <= UndoCap /\ started' \in 0..MaxItems
  BY <1>1 DEF TransferInv
<1>9. CASE undoStack' = undoStack
  <2>1. AloneIsAlone'
    BY <1>6, <1>7, <1>9 DEF AloneIsAlone
  <2>. QED  BY <1>3, <1>4, <1>5, <1>7, <1>8, <1>9, <2>1 DEF TransferInv, DiskFine
<1>10. CASE UndoKind(j) # "" /\ undoStack' = Pushed(undoStack, record)
  <2>. HIDE DEF j
  <2>1. /\ UndoKind(j) \in {"MoveBack", "MoveBackCross", "RemoveCreated"}
        /\ UndoKind(j) # "MoveBack" => j.replaced = 0
        /\ UndoKind(j) = "RemoveCreated" => ~Moves(j)
    BY <1>2, <1>10, UndoKinds
  <2>2. /\ record \in Record /\ record.kind = UndoKind(j) /\ record.pairs = j.created
        /\ record.replaced = j.replaced /\ record.alone = j.alone
    <3>1. j.created \in Seq(Pair) /\ j.replaced \in Nat /\ j.alone \in BOOLEAN
      BY <1>2 DEF TransferJobs
    <3>. QED  BY <2>1, <3>1 DEF Record
  <2>3. undoStack' = Pushed(undoStack, record)
    BY <1>10
  <2>. HIDE DEF record
  <2>4. RecordShaped(record)
    BY <2>1, <2>2 DEF RecordShaped
  <2>5. ASSUME record.alone, record.replaced = 0 PROVE RecordTidy(disk', record)
    <3>1. TransferTidy(disk, j) /\ disk' = disk
      BY <1>1, <1>2, <2>2, <2>5
    <3>2. ASSUME ~Moves(j) PROVE CopiesApart(j.created)
      <4>1. SUFFICES ASSUME NEW m \in DOMAIN j.created, NEW n \in DOMAIN j.created,
                            j.created[m].to = j.created[n].from
                     PROVE  FALSE
        BY DEF CopiesApart
      <4>2. PICK k \in 1..(j.i - 1) : j.created[n].from = j.sources[k]
        BY <3>1 DEF TransferTidy
      <4>3. k \in DOMAIN j.sources
        BY <1>2, CreatedPairs DEF TransferPlaced
      <4>4. Gone(j, j.sources[k])
        BY <3>1, <4>1, <4>2, <4>3 DEF TransferTidy
      <4>. QED  BY <3>2, <4>4 DEF Gone
    <3>. QED  BY <2>1, <2>2, <3>1, <3>2 DEF TransferTidy, RecordTidy
  <2>6. RecordFine(disk', record)
    BY <2>4, <2>5 DEF RecordFine
  <2>7. record.alone => \A v \in Workers : ~Busy(v)'
    <3>1. SUFFICES ASSUME j.alone, NEW v \in Workers, Busy(v)' PROVE FALSE
      BY <2>2
    <3>2. Busy(v) /\ v # w
      BY <1>6, <3>1
    <3>. QED  BY <1>2, <3>1, <3>2 DEF TransferInv, AloneIsAlone, j
  <2>8. /\ undoStack' \in Seq(Record) /\ Len(undoStack') <= UndoCap
        /\ \A k \in DOMAIN undoStack' : undoStack'[k] = record
                                        \/ \E l \in DOMAIN undoStack : undoStack'[k] = undoStack[l]
    BY <1>8, <2>2, <2>3, PushedFine
  <2>9. \A k \in DOMAIN undoStack' : /\ RecordFine(disk', undoStack'[k])
                                     /\ undoStack'[k].alone => \A v \in Workers : ~Busy(v)'
    BY <1>7, <2>6, <2>7, <2>8
  <2>10. AloneIsAlone'
    BY <1>6, <2>9 DEF AloneIsAlone
  <2>. QED  BY <1>3, <1>4, <1>5, <1>8, <2>8, <2>9, <2>10 DEF TransferInv, DiskFine
<1>. QED  BY <1>1, <1>9, <1>10

----
(* The theorems.                                                           *)

LEMMA InitFine == Init => TransferInv
<1>. SUFFICES ASSUME Init PROVE TransferInv
  OBVIOUS
<1>1. disk \in Disks
  BY LayoutsAssumption DEF Init, Disks
<1>2. /\ DOMAIN job = Workers /\ \A w \in Workers : job[w] = Idle /\ ~Busy(w)
  BY IdleFine DEF Init, Busy
<1>3. \A w \in Workers : JobFine(disk, job[w])
  BY <1>2, IdleFine
<1>4. /\ undoStack = <<>> /\ undoStack \in Seq(Record) /\ Len(undoStack) = 0 /\ DOMAIN undoStack = {}
      /\ Len(undoStack) <= UndoCap
  BY BoundsAssumption DEF Init
<1>5. started \in 0..MaxItems /\ LossesExcused
  BY BoundsAssumption DEF Init, LossesExcused
<1>6. NothingLost
  BY LayoutsAssumption DEF Init, NothingLost, Whole
<1>7. AloneIsAlone
  BY <1>2, <1>4 DEF AloneIsAlone
<1>. QED  BY <1>1, <1>2, <1>3, <1>4, <1>5, <1>6, <1>7 DEF TransferInv

LEMMA KindOfBusy ==
    ASSUME TransferInv, NEW w \in Workers, NEW x, AtStep(w, x)
    PROVE  Kind(w) = "transfer" \/ Kind(w) = "undo"
BY JobKinds DEF AtStep

LEMMA NextFine == TransferInv /\ [Next]_vars => TransferInv'
<1>. SUFFICES ASSUME TransferInv, [Next]_vars PROVE TransferInv'
  OBVIOUS
<1>1. CASE UNCHANGED vars
  BY <1>1 DEF vars, TransferInv, AloneIsAlone, Busy, LossesExcused, NothingLost, Whole
<1>2. ASSUME NEW w \in Workers, NEW sources \in Selections, NEW dest \in Targets,
             NEW mode \in {"Copy", "Move", "Auto"}, Start(w, sources, dest, mode)
      PROVE  TransferInv'
  BY <1>2, StartStep DEF Modes
<1>3. ASSUME NEW w \in Workers, NEW choice \in {"KeepBoth", "Replace", "Skip"},
             NEW rest \in BOOLEAN, Answer(w, choice, rest)
      PROVE  TransferInv'
  BY <1>3, AnswerStep DEF Choices
<1>4. ASSUME NEW w \in Workers, Plan(w) \/ PlanFails(w) \/ Dismiss(w) PROVE TransferInv'
  BY <1>4, PlanStep, PlanFailsStep, DismissStep
<1>5. ASSUME NEW w \in Workers, CloneItem(w) PROVE TransferInv'
  BY <1>5, KindOfBusy, CloneTransferStep, CloneUndoStep DEF CloneItem
<1>6. ASSUME NEW w \in Workers, BeginCopy(w) PROVE TransferInv'
  BY <1>6, KindOfBusy, BeginTransferStep, BeginUndoStep DEF BeginCopy
<1>7. ASSUME NEW w \in Workers, FinishCopy(w) PROVE TransferInv'
  BY <1>7, KindOfBusy, FinishTransferCopyStep, FinishUndoCopyStep DEF FinishCopy
<1>8. ASSUME NEW w \in Workers, FailCopy(w) PROVE TransferInv'
  BY <1>8, KindOfBusy, FailTransferCopyStep, FailUndoCopyStep DEF FailCopy
<1>9. ASSUME NEW w \in Workers, UnlinkSource(w) PROVE TransferInv'
  BY <1>9, KindOfBusy, UnlinkTransferStep, UnlinkUndoStep DEF UnlinkSource
<1>10. ASSUME NEW w \in Workers, Engine(w) PROVE TransferInv'
  BY <1>5, <1>6, <1>7, <1>8, <1>9, <1>10, EndOfItemsStep, StopBeforeItemStep, ResolveItemStep,
     RenameItemStep, CancelCopyStep DEF Engine
<1>11. ASSUME NEW w \in Workers, Undo(w) PROVE TransferInv'
  BY <1>11, EndOfPairsStep, CheckOriginStep, RenameBackStep, PlanCopyBackStep, RestoreNameStep,
     RemoveCreatedStep, FinishUndoStep DEF Undo
<1>12. ASSUME NEW w \in Workers, NEW open \in BOOLEAN, FinishTransfer(w, open) PROVE TransferInv'
  BY <1>12, FinishTransferStep
<1>13. ASSUME NEW w \in Workers, PopUndo(w) PROVE TransferInv'
  BY <1>13, PopUndoStep
<1>. QED  BY <1>1, <1>2, <1>3, <1>4, <1>10, <1>11, <1>12, <1>13 DEF Next

\* Jobs, records and the disk agree at every step of every operation; the
\* other theorems are consequences.
THEOREM Invariant == Spec => []TransferInv
BY InitFine, NextFine, PTL DEF Spec

\* However copies, moves and undos interleave, fail and are cancelled (run_copy,
\* run_move, UndoOp::apply_fs), the last whole copy of a content goes only for
\* one of the reasons in Excused; where operations come one at a time, never
\* because of a name taken or an item replaced in between.
THEOREM LastCopySurvives == Spec => []NothingLost
<1>1. TransferInv => NothingLost
  BY DEF TransferInv
<1>. QED  BY <1>1, Invariant, PTL

\* The state keeps its shape, the undo stack its cap (push_undo), and no two
\* items of an undisturbed transfer land on one name (resolve_dest,
\* pick_available_name).
THEOREM TransfersStayConsistent == Spec => []TransfersConsistent
<1>1. ASSUME TransferInv PROVE TransfersConsistent
  <2>1. ASSUME NEW w \in Workers, Busy(w)
        PROVE  IF Kind(w) = "transfer"
               THEN /\ job[w].sources \in Selections /\ job[w].i \in 1..Len(job[w].sources) + 1
                    /\ job[w].created \in Seq(Pair)
               ELSE job[w].record \in Record /\ job[w].i \in 1..Len(job[w].record.pairs) + 1
    <3>1. CASE Kind(w) = "transfer"
      <4>1. job[w] \in TransferJobs /\ TransferPlaced(job[w])
        BY <1>1, <3>1, JobKinds
      <4>. QED  BY <3>1, <4>1 DEF TransferJobs, TransferPlaced
    <3>2. CASE Kind(w) = "undo"
      <4>1. job[w] \in UndoJobs /\ UndoPlaced(job[w])
        BY <1>1, <3>2, JobKinds
      <4>. QED  BY <3>2, <4>1 DEF UndoPlaced, RecordShaped
    <3>. QED  BY <1>1, <2>1, <3>1, <3>2, JobKinds
  <2>2. lost \subseteq Contents \X {"asked", "unasked", "self", "raced", "stale"}
    BY <1>1 DEF TransferInv, LossesExcused, Reasons
  <2>3. TypeOK
    BY <1>1, <2>1, <2>2 DEF TypeOK, TransferInv, Disks
  <2>4. ASSUME NEW w \in Workers, Kind(w) = "transfer", job[w].replaced = 0,
               NEW k \in DOMAIN job[w].created, NEW l \in DOMAIN job[w].created,
               k # l, job[w].alone
        PROVE  job[w].created[k].to # job[w].created[l].to
    <3>1. TransferTidy(disk, job[w])
      BY <1>1, <2>4, JobKinds
    <3>2. Apart(job[w].created)
      BY <3>1 DEF TransferTidy
    <3>. QED  BY <2>4, <3>2 DEF Apart
  <2>. QED  BY <2>3, <2>4 DEF TransfersConsistent, DestinationsDistinct
<1>. QED  BY <1>1, Invariant, PTL

\* What an undisturbed transfer reports as created is there, as its source was;
\* what it moved from elsewhere is gone from there, and every other source is
\* still where it was (run_copy, run_move).
THEOREM OutcomesAreTrue == Spec => []OutcomeIsTrue
<1>1. ASSUME TransferInv PROVE OutcomeIsTrue
  <2>1. SUFFICES ASSUME NEW w \in Workers, AtStep(w, "finish"), Kind(w) = "transfer", job[w].alone,
                        NEW k \in DOMAIN job[w].sources, ~(job[w].replaced > 0)
                 PROVE  LET j == job[w]
                            s == j.sources[k]
                            Created == {pair \in {j.created[m] : m \in DOMAIN j.created} : pair.from = s}
                        IN /\ \A pair \in Created : disk[pair.to] = pair.item
                           /\ IF Moves(j) /\ Created # {}
                              THEN s[1] = j.dest \/ Free(s)
                              ELSE ~Free(s)
    BY DEF OutcomeIsTrue
  <2>. DEFINE j == job[w]
              s == j.sources[k]
              Created == {pair \in {j.created[m] : m \in DOMAIN j.created} : pair.from = s}
  <2>2. j \in TransferJobs /\ j.at = "finish"
    BY <1>1, <2>1, JobKinds DEF AtStep
  <2>3. j.replaced = 0
    BY <2>1, <2>2 DEF TransferJobs
  <2>4. TransferTidy(disk, j)
    BY <1>1, <2>1, <2>3, JobKinds
  <2>5. /\ ~Empty(disk, s) \/ Gone(j, s)
        /\ \A m \in DOMAIN j.created : disk[j.created[m].to] = j.created[m].item
        /\ \A m \in DOMAIN j.created :
              IF Moves(j) THEN j.created[m].from[1] # j.dest => Empty(disk, j.created[m].from)
              ELSE disk[j.created[m].from] = j.created[m].item
    BY <2>1, <2>2, <2>4 DEF TransferTidy
  <2>6. \A pair \in Created : disk[pair.to] = pair.item
    BY <2>5
  <2>7. CASE Moves(j) /\ Created # {}
    <3>1. PICK m \in DOMAIN j.created : j.created[m].from = s
      BY <2>7
    <3>. QED  BY <2>5, <2>6, <2>7, <3>1 DEF Empty, Free
  <2>8. CASE ~(Moves(j) /\ Created # {})
    <3>1. ~Gone(j, s)
      BY <2>8 DEF Gone
    <3>. QED  BY <2>5, <2>6, <2>8, <3>1 DEF Empty, Free
  <2>. QED  BY <2>7, <2>8
<1>. QED  BY <1>1, Invariant, PTL

\* An undo that succeeds undisturbed (UndoOp::apply_fs, copy_back_moved_item)
\* puts every item back under the name it had, and leaves nothing behind.
THEOREM UndoInverts == Spec => []UndoIsInverse
<1>1. ASSUME TransferInv PROVE UndoIsInverse
  <2>1. SUFFICES ASSUME NEW w \in Workers, AtStep(w, "finish"), Kind(w) = "undo", job[w].alone,
                        ~job[w].error, NEW k \in DOMAIN job[w].record.pairs,
                        ~(job[w].record.replaced > 0)
                 PROVE  LET pair == job[w].record.pairs[k] IN
                        disk[pair.from] = pair.item /\ Free(pair.to)
    BY DEF UndoIsInverse
  <2>. DEFINE j == job[w]
              pairs == j.record.pairs
  <2>2. j \in UndoJobs /\ UndoPlaced(j) /\ j.at = "finish" /\ j.record \in Record
    BY <1>1, <2>1, JobKinds DEF AtStep, UndoPlaced, RecordShaped
  <2>3. j.record.replaced = 0
    BY <2>1, <2>2 DEF Record
  <2>4. UndoTidy(disk, j)
    BY <1>1, <2>1, <2>3, JobKinds
  <2>5. k < j.i
    <3>1. j.i = Len(pairs) + 1
      BY <2>1, <2>2 DEF UndoPlaced
    <3>. QED  BY <2>1, <2>2, <3>1, RecordPairs
  <2>6. disk[pairs[k].from] = pairs[k].item /\ Empty(disk, pairs[k].to)
    BY <2>1, <2>2, <2>4, <2>5 DEF UndoTidy
  <2>. QED  BY <2>6 DEF Empty, Free
<1>. QED  BY <1>1, Invariant, PTL
=============================================================================
