------------------------- MODULE FolderSizesProofs -------------------------
(***************************************************************************)
(* The sizes of FolderSizes, for every tree, every number of workers, of   *)
(* passes and of tabs, whatever is cancelled, changed and invalidated      *)
(* meanwhile: what is kept or shown is the sum of a whole tree, what a     *)
(* Refresh shows was read after it, and an invalidated row stays gone.     *)
(*                                                                         *)
(* First the walks of DirectoryWalk, whatever calls them, for every tree   *)
(* and every number of workers: the count of what is pending is exact,     *)
(* nothing is counted or read twice, and nothing that has been found is    *)
(* forgotten unless the walk is cancelled.  Then the steps around them:    *)
(* SizeInv says what a pass may still bring (its rows, the walk it is on)  *)
(* in terms of the tab it was begun for and of the last invalidations.     *)
(***************************************************************************)
EXTENDS FolderSizes, FiniteSetTheorems, FunctionTheorems, TLAPS

----
(* The shape of a walk.                                                    *)

Hands == [at : {"waiting", "took", "read", "left"}, dir : Dirs \cup {NoDir}]
Events == [kind : {"Batch", "Done"}, dir : Dirs \cup {NoDir}, seen : Nat]
Totals == UNION {[D -> Nat] : D \in SUBSET Dirs}
WalkRecords ==
    [at : {"none", "serial", "walking", "joining", "returned"},
     root : Dirs \cup {NoDir}, queue : SUBSET Dirs, stopped : BOOLEAN,
     hands : [Workers -> Hands], events : Seq(Events), pending : Int,
     applied : BOOLEAN, total : Totals]

----
(* Where a directory that has been found and not yet been counted may be.  *)

Busy(hands) == {k \in Workers : hands[k].at \notin {"waiting", "left"}}
Dones(events) == {i \in DOMAIN events : events[i].kind = "Done"}
Takes(r, k, d) == r.hands[k].at = "took" /\ r.hands[k].dir = d
Brings(r, i, d) == r.events[i].kind = "Batch" /\ r.events[i].dir = d

\* Found, and not yet expanded by the coordinator.
Ahead(r, d) ==
    \/ d \in r.queue
    \/ \E k \in Workers : Takes(r, k, d)
    \/ \E i \in DOMAIN r.events : Brings(r, i, d)

\* Every directory is in one place.
InOnePlace(r) ==
    \A d \in Dirs :
        /\ \A k, l \in Workers : Takes(r, k, d) /\ Takes(r, l, d) => k = l
        /\ \A i, j \in DOMAIN r.events : Brings(r, i, d) /\ Brings(r, j, d) => i = j
        /\ \A k \in Workers, i \in DOMAIN r.events : ~(Takes(r, k, d) /\ Brings(r, i, d))
        /\ d \in r.queue => /\ \A k \in Workers : ~Takes(r, k, d)
                            /\ \A i \in DOMAIN r.events : ~Brings(r, i, d)
        /\ d \in DOMAIN r.total => ~Ahead(r, d)

\* What the walk has found.
Found(r) == {d \in Dirs : Ahead(r, d) \/ d \in DOMAIN r.total}

\* What is taken and brought is a directory.
InTree(r) ==
    /\ \A k \in Workers : r.hands[k].at = "took" => r.hands[k].dir \in Dirs
    /\ \A i \in DOMAIN r.events : r.events[i].kind = "Batch" => r.events[i].dir \in Dirs

Depth == CHOOSE depth \in [Dirs -> 0..Cardinality(Dirs)] :
            \A d \in Dirs : \A e \in Children[d] : depth[d] < depth[e]

\* A directory is found through the expansion of the one it is in.
FoundFromAbove(r) ==
    \A d \in Dirs : Ahead(r, d) \/ d \in DOMAIN r.total =>
        /\ r.root \in Dirs /\ Depth[r.root] <= Depth[d]
        /\ d = r.root \/ \E e \in DOMAIN r.total : d \in Children[e]

\* What the coordinator counts.
Exact(r) ==
    r.at = "walking" =>
        r.pending = Cardinality(r.queue) + Cardinality(Busy(r.hands))
                    + Cardinality(Dones(r.events))

\* Nothing is left to do once the workers have been told to stop, and the last
\* event of an idle pool is the end of a directory.
Stops(r) ==
    /\ r.stopped => r.queue = {}
    /\ r.applied => r.stopped
    /\ r.at = "walking" /\ r.stopped => r.applied
    /\ \A k \in Workers : r.hands[k].at = "left" => r.stopped
    /\ r.events # <<>> /\ Busy(r.hands) = {} => r.events[Len(r.events)].kind = "Done"
    /\ r.at = "joining" => r.stopped /\ Busy(r.hands) = {} /\ r.events = <<>>

PoolOK(r) ==
    /\ r.at \in {"walking", "joining"} =>
          InOnePlace(r) /\ InTree(r) /\ FoundFromAbove(r) /\ Exact(r) /\ Stops(r)
    /\ r.at = "serial" => \A k \in Workers : r.hands[k].at = "waiting"
    /\ r.at \in {"serial", "returned"} => r.events = <<>>

\* A walk knows directories of its root's subtree alone, and forgets none unless
\* it is cancelled.
Sound(w, r) ==
    /\ r.at # "walking" => r.pending \in Nat
    /\ r.at # "none" =>
          /\ r.root \in Dirs /\ Found(r) \subseteq Subtree[r.root]
          /\ r.applied => w \in cancelled
          /\ w \notin cancelled =>
                r.root \in Found(r) /\ \A d \in DOMAIN r.total : Children[d] \subseteq Found(r)
          /\ r.at = "returned" => Found(r) = DOMAIN r.total

\* All a walk has read is at least as new as low.
AtLeast(r, low) ==
    /\ \A d \in DOMAIN r.total : r.total[d] >= low[d]
    /\ \A i \in DOMAIN r.events :
          r.events[i].kind = "Batch" => r.events[i].seen >= low[r.events[i].dir]

\* What the step of a walk from r to s promises to the passes.
Step(w, r, s) ==
    /\ r.at \in {"serial", "walking", "joining"} /\ s.at # "none" /\ s.root = r.root
    /\ Sound(w, r) => Sound(w, s)
    /\ \A low \in [Dirs -> Nat] :
          (\A d \in Dirs : low[d] <= version[d]) /\ AtLeast(r, low) => AtLeast(s, low)

Less(r, s) ==
    s.root = r.root /\ s.applied = r.applied /\ s.total = r.total /\ Found(s) \subseteq Found(r)
Same(r, s) == Less(r, s) /\ Found(s) = Found(r)

WalkInv ==
    /\ version \in [Dirs -> Nat]
    /\ walk \in [Walks -> WalkRecords]
    /\ \A w \in Walks : PoolOK(walk[w])

----
(* Facts about the tree and about counting.                                *)

LEMMA DepthGrows ==
    /\ Depth \in [Dirs -> Nat]
    /\ \A d \in Dirs : \A e \in Children[d] : Depth[d] < Depth[e]
<1>1. Cardinality(Dirs) \in Nat
  BY TreeAssumption, FS_CardinalityType
<1>2. /\ Depth \in [Dirs -> 0..Cardinality(Dirs)]
      /\ \A d \in Dirs : \A e \in Children[d] : Depth[d] < Depth[e]
  BY TreeAssumption DEF Depth
<1> QED
  BY <1>1, <1>2

LEMMA SubsetsOfDirsAreFinite ==
    ASSUME NEW D \in SUBSET Dirs
    PROVE  IsFiniteSet(D) /\ Cardinality(D) \in Nat
BY TreeAssumption, FS_Subset, FS_CardinalityType

LEMMA BusyIsFinite ==
    ASSUME NEW hands
    PROVE  IsFiniteSet(Busy(hands)) /\ Cardinality(Busy(hands)) \in Nat
<1>1. Busy(hands) \in SUBSET Workers
  BY DEF Busy
<1> QED
  BY <1>1, WorkersAssumption, FS_Subset, FS_CardinalityType

LEMMA DonesAreFinite ==
    ASSUME NEW s \in Seq(Events)
    PROVE  IsFiniteSet(Dones(s)) /\ Cardinality(Dones(s)) \in Nat
<1>1. Dones(s) \in SUBSET (1..Len(s))
  BY DEF Dones
<1>2. IsFiniteSet(1..Len(s))
  BY FS_Interval
<1> QED
  BY <1>1, <1>2, FS_Subset, FS_CardinalityType

LEMMA DonesOfAppend ==
    ASSUME NEW s \in Seq(Events), NEW e \in Events
    PROVE  Cardinality(Dones(Append(s, e))) =
               Cardinality(Dones(s)) + IF e.kind = "Done" THEN 1 ELSE 0
<1>1. Dones(Append(s, e)) =
          IF e.kind = "Done" THEN Dones(s) \cup {Len(s) + 1} ELSE Dones(s)
  BY DEF Dones
<1>2. Len(s) + 1 \notin Dones(s)
  BY DEF Dones
<1>3. IsFiniteSet(Dones(s)) /\ Cardinality(Dones(s)) \in Nat
  BY DonesAreFinite
<1>4. Cardinality(Dones(s) \cup {Len(s) + 1}) = Cardinality(Dones(s)) + 1
  BY <1>2, <1>3, FS_AddElement
<1> QED
  BY <1>1, <1>3, <1>4

LEMMA DonesOfTail ==
    ASSUME NEW s \in Seq(Events), s # <<>>
    PROVE  Cardinality(Dones(Tail(s))) =
               Cardinality(Dones(s)) - IF Head(s).kind = "Done" THEN 1 ELSE 0
<1> DEFINE D == Dones(s) \ {1}
           f == [i \in D |-> i - 1]
<1>1. IsFiniteSet(Dones(s)) /\ Cardinality(Dones(s)) \in Nat
  BY DonesAreFinite
<1>2. IsFiniteSet(D) /\ Cardinality(D) = Cardinality(Dones(s)) - IF Head(s).kind = "Done" THEN 1 ELSE 0
  <2>1. 1 \in Dones(s) <=> Head(s).kind = "Done"
    BY DEF Dones
  <2>2. /\ IsFiniteSet(D)
        /\ Cardinality(D) = IF 1 \in Dones(s) THEN Cardinality(Dones(s)) - 1
                                             ELSE Cardinality(Dones(s))
    BY <1>1, FS_RemoveElement, Zenon
  <2> QED
    BY <1>1, <2>1, <2>2
<1>3. f \in Bijection(D, Dones(Tail(s)))
  <2>1. \A i \in D : f[i] \in Dones(Tail(s))
    BY DEF Dones
  <2>2. \A i, j \in D : f[i] = f[j] => i = j
    BY DEF Dones
  <2>3. \A j \in Dones(Tail(s)) : j + 1 \in D /\ f[j + 1] = j
    BY DEF Dones
  <2> QED
    BY <2>1, <2>2, <2>3, Fun_IsBij
<1> QED
  BY <1>2, <1>3, FS_Bijection, Fun_ExistsBij

LEMMA SumsToZero ==
    ASSUME NEW r \in WalkRecords, Exact(r), r.at = "walking", r.pending = 0
    PROVE  r.queue = {} /\ Busy(r.hands) = {} /\ Dones(r.events) = {}
<1>1. IsFiniteSet(r.queue) /\ Cardinality(r.queue) \in Nat
  BY SubsetsOfDirsAreFinite DEF WalkRecords
<1>2. IsFiniteSet(Busy(r.hands)) /\ Cardinality(Busy(r.hands)) \in Nat
  BY BusyIsFinite
<1>3. IsFiniteSet(Dones(r.events)) /\ Cardinality(Dones(r.events)) \in Nat
  BY DonesAreFinite DEF WalkRecords
<1>4. /\ Cardinality(r.queue) = 0 /\ Cardinality(Busy(r.hands)) = 0
      /\ Cardinality(Dones(r.events)) = 0
  BY <1>1, <1>2, <1>3 DEF Exact
<1> QED
  BY <1>1, <1>2, <1>3, <1>4, FS_EmptySet

LEMMA AddIsTotal ==
    ASSUME NEW total \in Totals, NEW d \in Dirs, NEW v \in Nat
    PROVE  Add(total, d, v) \in Totals /\ DOMAIN Add(total, d, v) = DOMAIN total \cup {d}
<1>1. PICK D \in SUBSET Dirs : total \in [D -> Nat]
  BY DEF Totals
<1>2. Add(total, d, v) \in [D \cup {d} -> Nat]
  BY <1>1 DEF Add
<1> QED
  BY <1>1, <1>2 DEF Add, Totals

----
(* The workers keep the pool in order.                                     *)

LEMMA TakeKeepsOrder ==
    ASSUME NEW r \in WalkRecords, PoolOK(r), r.at \in {"walking", "joining"},
           NEW k \in Workers, r.hands[k].at = "waiting", ~r.stopped,
           NEW d \in r.queue
    PROVE  LET s == [r EXCEPT !.queue = @ \ {d}, !.hands[k] = [at |-> "took", dir |-> d]]
           IN s \in WalkRecords /\ PoolOK(s) /\ Same(r, s)
<1> DEFINE s == [r EXCEPT !.queue = @ \ {d}, !.hands[k] = [at |-> "took", dir |-> d]]
<1>1. s \in WalkRecords
  BY DEF WalkRecords, Hands
<1>2. /\ s.at = r.at /\ s.root = r.root /\ s.queue = r.queue \ {d} /\ s.stopped = r.stopped
      /\ s.events = r.events /\ s.pending = r.pending /\ s.applied = r.applied
      /\ s.total = r.total
      /\ s.hands[k] = [at |-> "took", dir |-> d]
      /\ \A l \in Workers : l # k => s.hands[l] = r.hands[l]
  BY DEF WalkRecords
<1>3. d \in Dirs /\ \A l \in Workers, e \in Dirs : Takes(s, l, e) <=> Takes(r, l, e) \/ (l = k /\ e = d)
  BY <1>2 DEF Takes, WalkRecords
<1>4. \A i, e : Brings(s, i, e) <=> Brings(r, i, e)
  BY <1>2 DEF Brings
<1>5. \A e \in Dirs : Ahead(s, e) <=> Ahead(r, e)
  BY <1>2, <1>3, <1>4 DEF Ahead
<1>6. InOnePlace(s)
  BY <1>2, <1>3, <1>4, <1>5 DEF PoolOK, InOnePlace
<1>20. InTree(s)
  BY <1>2, <1>3 DEF PoolOK, InTree
<1>7. FoundFromAbove(s)
  BY <1>2, <1>5 DEF PoolOK, FoundFromAbove
<1>8. Exact(s)
  <2>1. Busy(s.hands) = Busy(r.hands) \cup {k} /\ k \notin Busy(r.hands)
    BY <1>2 DEF Busy
  <2>2. Cardinality(Busy(s.hands)) = Cardinality(Busy(r.hands)) + 1
    BY <2>1, BusyIsFinite, FS_AddElement
  <2>3. Cardinality(s.queue) = Cardinality(r.queue) - 1
    BY <1>2, SubsetsOfDirsAreFinite, FS_RemoveElement DEF WalkRecords
  <2>4. /\ Cardinality(r.queue) \in Nat /\ Cardinality(Busy(r.hands)) \in Nat
        /\ Cardinality(Dones(r.events)) \in Nat
    BY SubsetsOfDirsAreFinite, BusyIsFinite, DonesAreFinite DEF WalkRecords
  <2> QED
    BY <1>2, <2>2, <2>3, <2>4 DEF PoolOK, Exact
<1>9. Stops(s)
  <2>1. k \in Busy(s.hands)
    BY <1>2 DEF Busy
  <2>2. r.at # "joining"
    BY DEF PoolOK, Stops
  <2> QED
    BY <1>2, <2>1, <2>2 DEF PoolOK, Stops
<1>21. Same(r, s)
  BY <1>2, <1>5 DEF Same, Less, Found
<1> QED
  BY <1>1, <1>20, <1>21, <1>6, <1>7, <1>8, <1>9 DEF PoolOK

LEMMA LeaveKeepsOrder ==
    ASSUME NEW r \in WalkRecords, PoolOK(r), r.at \in {"walking", "joining"},
           NEW k \in Workers, r.hands[k].at = "waiting", r.stopped
    PROVE  LET s == [r EXCEPT !.hands[k].at = "left"]
           IN s \in WalkRecords /\ PoolOK(s) /\ Same(r, s)
<1> DEFINE s == [r EXCEPT !.hands[k].at = "left"]
<1>1. s \in WalkRecords
  BY ZenonT(60) DEF WalkRecords, Hands
<1>2. /\ s.at = r.at /\ s.root = r.root /\ s.queue = r.queue /\ s.stopped = r.stopped
      /\ s.events = r.events /\ s.pending = r.pending /\ s.applied = r.applied
      /\ s.total = r.total
      /\ s.hands[k].at = "left"
      /\ \A l \in Workers : l # k => s.hands[l] = r.hands[l]
  BY DEF WalkRecords, Hands
<1>3. \A l \in Workers, e \in Dirs : Takes(s, l, e) <=> Takes(r, l, e)
  BY <1>2 DEF Takes
<1>4. \A i, e : Brings(s, i, e) <=> Brings(r, i, e)
  BY <1>2 DEF Brings
<1>5. \A e \in Dirs : Ahead(s, e) <=> Ahead(r, e)
  BY <1>2, <1>3, <1>4 DEF Ahead
<1>6. InOnePlace(s)
  BY <1>2, <1>3, <1>4, <1>5 DEF PoolOK, InOnePlace
<1>20. InTree(s)
  BY <1>2 DEF PoolOK, InTree
<1>7. FoundFromAbove(s)
  BY <1>2, <1>5 DEF PoolOK, FoundFromAbove
<1>8. Busy(s.hands) = Busy(r.hands)
  BY <1>2 DEF Busy
<1>9. Exact(s) /\ Stops(s)
  BY <1>2, <1>8 DEF PoolOK, Exact, Stops
<1>21. Same(r, s)
  BY <1>2, <1>5 DEF Same, Less, Found
<1> QED
  BY <1>1, <1>20, <1>21, <1>6, <1>7, <1>9 DEF PoolOK

LEMMA BatchKeepsOrder ==
    ASSUME NEW r \in WalkRecords, PoolOK(r), r.at \in {"walking", "joining"},
           NEW k \in Workers, r.hands[k].at = "took", NEW v \in Nat
    PROVE  LET d == r.hands[k].dir
               s == [r EXCEPT !.hands[k] = [at |-> "read", dir |-> d],
                              !.events = Append(@, Event("Batch", d, v))]
           IN s \in WalkRecords /\ PoolOK(s) /\ Same(r, s)
<1> DEFINE d == r.hands[k].dir
           s == [r EXCEPT !.hands[k] = [at |-> "read", dir |-> d],
                          !.events = Append(@, Event("Batch", d, v))]
<1>0. d \in Dirs \cup {NoDir} /\ Event("Batch", d, v) \in Events /\ r.events \in Seq(Events)
  BY DEF WalkRecords, Hands, Events, Event
<1>1. s \in WalkRecords
  <2>1. Append(r.events, Event("Batch", d, v)) \in Seq(Events)
    BY <1>0
  <2>2. [r.hands EXCEPT ![k] = [at |-> "read", dir |-> d]] \in [Workers -> Hands]
    BY <1>0 DEF WalkRecords, Hands
  <2> QED
    BY <2>1, <2>2 DEF WalkRecords
<1>2. /\ s.at = r.at /\ s.root = r.root /\ s.queue = r.queue /\ s.stopped = r.stopped
      /\ s.pending = r.pending /\ s.applied = r.applied /\ s.total = r.total
      /\ s.hands[k] = [at |-> "read", dir |-> d]
      /\ \A l \in Workers : l # k => s.hands[l] = r.hands[l]
      /\ s.events = Append(r.events, Event("Batch", d, v))
  BY DEF WalkRecords
<1>3. \A l \in Workers, e \in Dirs : Takes(s, l, e) <=> l # k /\ Takes(r, l, e)
  BY <1>2 DEF Takes
<1>4. /\ DOMAIN s.events = DOMAIN r.events \cup {Len(r.events) + 1}
      /\ Len(r.events) + 1 \notin DOMAIN r.events
      /\ \A i \in DOMAIN r.events, e \in Dirs : Brings(s, i, e) <=> Brings(r, i, e)
      /\ \A e \in Dirs : Brings(s, Len(r.events) + 1, e) <=> e = d
  BY <1>0, <1>2 DEF Brings, Event
<1>5. \A e \in Dirs : Takes(r, k, e) <=> e = d
  BY DEF Takes
<1>6. \A e \in Dirs : Ahead(s, e) <=> Ahead(r, e)
  BY <1>2, <1>3, <1>4, <1>5 DEF Ahead
<1>7. InOnePlace(s)
  BY <1>2, <1>3, <1>4, <1>5, <1>6 DEF PoolOK, InOnePlace
<1>20. InTree(s)
  BY <1>0, <1>2, <1>4 DEF PoolOK, InTree, Event
<1>8. FoundFromAbove(s)
  BY <1>2, <1>6 DEF PoolOK, FoundFromAbove
<1>9. Busy(s.hands) = Busy(r.hands) /\ k \in Busy(r.hands)
  BY <1>2 DEF Busy
<1>10. Exact(s)
  BY <1>0, <1>2, <1>9, DonesOfAppend, DonesAreFinite DEF PoolOK, Exact, Event
<1>11. Stops(s)
  BY <1>2, <1>9 DEF PoolOK, Stops
<1>21. Same(r, s)
  BY <1>2, <1>6 DEF Same, Less, Found
<1> QED
  BY <1>1, <1>20, <1>21, <1>7, <1>8, <1>10, <1>11 DEF PoolOK

LEMMA DoneKeepsOrder ==
    ASSUME NEW r \in WalkRecords, PoolOK(r), r.at \in {"walking", "joining"},
           NEW k \in Workers, r.hands[k].at \in {"took", "read"}
    PROVE  LET s == [r EXCEPT !.hands[k] = Resting,
                              !.events = Append(@, Event("Done", NoDir, 0))]
           IN /\ s \in WalkRecords /\ PoolOK(s) /\ Less(r, s)
              /\ r.hands[k].at = "read" => Same(r, s)
<1> DEFINE s == [r EXCEPT !.hands[k] = Resting,
                          !.events = Append(@, Event("Done", NoDir, 0))]
<1>0. Resting \in Hands /\ Event("Done", NoDir, 0) \in Events /\ r.events \in Seq(Events)
  BY DEF WalkRecords, Hands, Events, Event, Resting
<1>1. s \in WalkRecords
  <2>1. Append(r.events, Event("Done", NoDir, 0)) \in Seq(Events)
    BY <1>0
  <2>2. [r.hands EXCEPT ![k] = Resting] \in [Workers -> Hands]
    BY <1>0 DEF WalkRecords
  <2> QED
    BY <2>1, <2>2 DEF WalkRecords
<1>2. /\ s.at = r.at /\ s.root = r.root /\ s.queue = r.queue /\ s.stopped = r.stopped
      /\ s.pending = r.pending /\ s.applied = r.applied /\ s.total = r.total
      /\ s.hands[k].at = "waiting"
      /\ \A l \in Workers : l # k => s.hands[l] = r.hands[l]
      /\ s.events = Append(r.events, Event("Done", NoDir, 0))
  BY DEF WalkRecords, Resting
<1>3. \A l \in Workers, e \in Dirs : Takes(s, l, e) => Takes(r, l, e)
  BY <1>2 DEF Takes
<1>4. /\ DOMAIN s.events = DOMAIN r.events \cup {Len(r.events) + 1}
      /\ \A i \in DOMAIN r.events, e \in Dirs : Brings(s, i, e) <=> Brings(r, i, e)
      /\ \A e \in Dirs : ~Brings(s, Len(r.events) + 1, e)
  BY <1>0, <1>2 DEF Brings, Event
<1>5. \A e \in Dirs : Ahead(s, e) => Ahead(r, e)
  BY <1>2, <1>3, <1>4 DEF Ahead
<1>6. InOnePlace(s)
  BY <1>2, <1>3, <1>4, <1>5 DEF PoolOK, InOnePlace
<1>20. InTree(s)
  BY <1>0, <1>2, <1>4 DEF PoolOK, InTree, Event
<1>7. FoundFromAbove(s)
  BY <1>2, <1>5 DEF PoolOK, FoundFromAbove
<1>8. Busy(s.hands) = Busy(r.hands) \ {k} /\ k \in Busy(r.hands)
  BY <1>2 DEF Busy
<1>9. Exact(s)
  <2>1. Cardinality(Busy(s.hands)) = Cardinality(Busy(r.hands)) - 1
    BY <1>8, BusyIsFinite, FS_RemoveElement
  <2>2. Cardinality(Dones(s.events)) = Cardinality(Dones(r.events)) + 1
    BY <1>0, <1>2, DonesOfAppend DEF Event
  <2>3. /\ Cardinality(r.queue) \in Nat /\ Cardinality(Busy(r.hands)) \in Nat
        /\ Cardinality(Dones(r.events)) \in Nat
    BY SubsetsOfDirsAreFinite, BusyIsFinite, DonesAreFinite DEF WalkRecords
  <2> QED
    BY <1>2, <2>1, <2>2, <2>3 DEF PoolOK, Exact
<1>10. Stops(s)
  <2>1. s.events[Len(s.events)].kind = "Done"
    BY <1>0, <1>2 DEF Event
  <2> QED
    BY <1>2, <1>8, <2>1 DEF PoolOK, Stops
<1>21. Less(r, s)
  BY <1>2, <1>5 DEF Less, Found
<1>22. ASSUME r.hands[k].at = "read"
       PROVE  Same(r, s)
  <2>1. \A l \in Workers, e \in Dirs : Takes(r, l, e) => Takes(s, l, e)
    BY <1>2, <1>22 DEF Takes
  <2>2. \A e \in Dirs : Ahead(r, e) => Ahead(s, e)
    BY <1>2, <1>4, <2>1 DEF Ahead
  <2> QED
    BY <1>2, <1>5, <1>21, <2>2 DEF Same, Found
<1> QED
  BY <1>1, <1>20, <1>21, <1>22, <1>6, <1>7, <1>9, <1>10 DEF PoolOK

----
(* The coordinator keeps it in order.                                      *)

LEMMA TailShifts ==
    ASSUME NEW q \in Seq(Events), q # <<>>
    PROVE  /\ Tail(q) \in Seq(Events) /\ Len(Tail(q)) = Len(q) - 1
           /\ Head(q) = q[1] /\ 1 \in DOMAIN q
           /\ \A i \in DOMAIN Tail(q) : i + 1 \in DOMAIN q /\ Tail(q)[i] = q[i + 1]
           /\ \A i \in DOMAIN q : i # 1 => i - 1 \in DOMAIN Tail(q) /\ Tail(q)[i - 1] = q[i]
           /\ Tail(q) # <<>> => Tail(q)[Len(Tail(q))] = q[Len(q)]
OBVIOUS

\* What a walk that has received its next event has ahead of it.
LEMMA ReceivedBringsLess ==
    ASSUME NEW r \in WalkRecords, r.events # <<>>, NEW s,
           s.events = Tail(r.events)
    PROVE  /\ \A i \in DOMAIN s.events, d \in Dirs :
                  i \in Nat /\ i + 1 \in DOMAIN r.events /\ (Brings(s, i, d) <=> Brings(r, i + 1, d))
           /\ \A i \in DOMAIN r.events, d \in Dirs : i # 1 /\ Brings(r, i, d) =>
                  i - 1 \in DOMAIN s.events /\ Brings(s, i - 1, d)
<1>1. r.events \in Seq(Events)
  BY DEF WalkRecords
<1>2. DOMAIN Tail(r.events) \subseteq Nat
  BY <1>1
<1> QED
  BY <1>1, <1>2, TailShifts DEF Brings

LEMMA DropKeepsOrder ==
    ASSUME NEW r \in WalkRecords, PoolOK(r), r.at = "walking", r.events # <<>>,
           NEW n \in Int, NEW s,
           s = [r EXCEPT !.events = Tail(@), !.pending = n],
           n = r.pending - (IF Head(r.events).kind = "Done" THEN 1 ELSE 0)
    PROVE  /\ s \in WalkRecords /\ PoolOK(s) /\ Less(r, s)
           /\ Head(r.events).kind = "Done" => Same(r, s)
<1>0. r.events \in Seq(Events)
  BY DEF WalkRecords
<1>1. s \in WalkRecords
  BY <1>0, TailShifts DEF WalkRecords
<1>2. /\ s.at = r.at /\ s.root = r.root /\ s.queue = r.queue /\ s.stopped = r.stopped
      /\ s.hands = r.hands /\ s.applied = r.applied /\ s.total = r.total
      /\ s.events = Tail(r.events) /\ s.pending = n
  BY DEF WalkRecords
<1>3. \A k, d : Takes(s, k, d) <=> Takes(r, k, d)
  BY <1>2 DEF Takes
<1>4. \A i \in DOMAIN s.events, d \in Dirs :
          i \in Nat /\ i + 1 \in DOMAIN r.events /\ (Brings(s, i, d) <=> Brings(r, i + 1, d))
  BY ONLY r \in WalkRecords, r.events # <<>>, <1>2, ReceivedBringsLess
<1>5. \A d \in Dirs : Ahead(s, d) => Ahead(r, d)
  BY <1>2, <1>3, <1>4 DEF Ahead
<1>6. InOnePlace(s)
  BY <1>2, <1>3, <1>4, <1>5 DEF PoolOK, InOnePlace
<1>7. InTree(s)
  BY <1>0, <1>2, TailShifts DEF PoolOK, InTree
<1>8. FoundFromAbove(s)
  BY <1>2, <1>5 DEF PoolOK, FoundFromAbove
<1>9. Exact(s)
  <2>1. Cardinality(Dones(s.events)) =
            Cardinality(Dones(r.events)) - IF Head(r.events).kind = "Done" THEN 1 ELSE 0
    BY <1>0, <1>2, DonesOfTail
  <2>2. /\ Cardinality(r.queue) \in Nat /\ Cardinality(Busy(r.hands)) \in Nat
        /\ Cardinality(Dones(r.events)) \in Nat
    BY SubsetsOfDirsAreFinite, BusyIsFinite, DonesAreFinite DEF WalkRecords
  <2> QED
    BY <1>2, <2>1, <2>2 DEF PoolOK, Exact
<1>10. Stops(s)
  BY <1>0, <1>2, TailShifts DEF PoolOK, Stops
<1>11. Less(r, s)
  BY <1>2, <1>5 DEF Less, Found
<1>12. ASSUME Head(r.events).kind = "Done"
       PROVE  Same(r, s)
  <2>1. \A d \in Dirs : ~Brings(r, 1, d)
    BY <1>0, <1>12, TailShifts DEF Brings
  <2>2. \A i \in DOMAIN r.events, d \in Dirs : Brings(r, i, d) =>
            i - 1 \in DOMAIN s.events /\ Brings(s, i - 1, d)
    BY ONLY r \in WalkRecords, r.events # <<>>, <1>2, <2>1, ReceivedBringsLess
  <2>3. \A d \in Dirs : Ahead(r, d) => Ahead(s, d)
    BY <1>2, <1>3, <2>2 DEF Ahead
  <2> QED
    BY <1>2, <1>5, <1>11, <2>3 DEF Same, Found
<1> QED
  BY <1>1, <1>6, <1>7, <1>8, <1>9, <1>10, <1>11, <1>12 DEF PoolOK

\* The directories below one that is brought are new: each would otherwise have
\* been found through another directory, or be the root, which is above.
LEMMA ChildrenAreNew ==
    ASSUME NEW r \in WalkRecords, InOnePlace(r), FoundFromAbove(r),
           NEW d \in Dirs, Ahead(r, d), NEW c \in Children[d]
    PROVE  c \in Dirs /\ c # d /\ ~Ahead(r, c) /\ c \notin DOMAIN r.total
<1>1. c \in Dirs /\ Depth \in [Dirs -> Nat] /\ Depth[d] < Depth[c]
  BY DepthGrows, TreeAssumption
<1>2. r.root \in Dirs /\ Depth[r.root] <= Depth[d]
  BY DEF FoundFromAbove
<1>3. SUFFICES ASSUME Ahead(r, c) \/ c \in DOMAIN r.total
               PROVE  FALSE
  BY <1>1, <1>3
<1>4. c # r.root
  BY <1>1, <1>2
<1>5. PICK e \in DOMAIN r.total : c \in Children[e]
  BY <1>1, <1>3, <1>4 DEF FoundFromAbove
<1>6. e \in Dirs
  BY DEF WalkRecords, Totals
<1>7. e = d
  BY <1>5, <1>6, TreeAssumption
<1> QED
  BY <1>5, <1>7 DEF InOnePlace

LEMMA CountKeepsOrder ==
    ASSUME NEW r \in WalkRecords, PoolOK(r), r.at = "walking", r.events # <<>>,
           Head(r.events).kind = "Batch", ~r.applied, NEW s,
           s = [r EXCEPT !.events = Tail(@),
                         !.total = Add(@, Head(r.events).dir, Head(r.events).seen),
                         !.queue = @ \cup Children[Head(r.events).dir],
                         !.pending = @ + Cardinality(Children[Head(r.events).dir])]
    PROVE  /\ s \in WalkRecords /\ PoolOK(s)
           /\ s.root = r.root /\ s.applied = r.applied
           /\ Head(r.events).dir \in Found(r)
           /\ DOMAIN s.total = DOMAIN r.total \cup {Head(r.events).dir}
           /\ Found(s) = Found(r) \cup Children[Head(r.events).dir]
<1> DEFINE d == Head(r.events).dir
           below == Children[d]
<1>0. /\ r.events \in Seq(Events) /\ r.events[1] = Head(r.events) /\ 1 \in DOMAIN r.events
      /\ r.events[1] \in Events
  BY TailShifts DEF WalkRecords
<1>1. d \in Dirs /\ below \in SUBSET Dirs /\ Head(r.events).seen \in Nat
  BY <1>0, TreeAssumption DEF PoolOK, InTree, Events
<1>2. Brings(r, 1, d) /\ Ahead(r, d)
  BY <1>0 DEF Brings, Ahead
<1>3. s \in WalkRecords
  <2>1. Tail(r.events) \in Seq(Events)
    BY <1>0, TailShifts
  <2>2. Add(r.total, d, Head(r.events).seen) \in Totals
    BY <1>1, AddIsTotal DEF WalkRecords
  <2>3. r.pending + Cardinality(below) \in Int
    BY <1>1, SubsetsOfDirsAreFinite DEF WalkRecords
  <2> QED
    BY <1>1, <2>1, <2>2, <2>3 DEF WalkRecords
<1>4. /\ s.at = r.at /\ s.root = r.root /\ s.queue = r.queue \cup below
      /\ s.stopped = r.stopped /\ s.hands = r.hands /\ s.applied = r.applied
      /\ s.events = Tail(r.events) /\ s.pending = r.pending + Cardinality(below)
      /\ DOMAIN s.total = DOMAIN r.total \cup {d}
  BY <1>1, AddIsTotal DEF WalkRecords
<1>5. \A k, e : Takes(s, k, e) <=> Takes(r, k, e)
  BY <1>4 DEF Takes
<1>6. \A i \in DOMAIN s.events, e \in Dirs :
          i \in Nat /\ i + 1 \in DOMAIN r.events /\ (Brings(s, i, e) <=> Brings(r, i + 1, e))
  BY ONLY r \in WalkRecords, r.events # <<>>, <1>4, ReceivedBringsLess
<1>7. \A e \in below : e \in Dirs /\ e # d /\ ~Ahead(r, e) /\ e \notin DOMAIN r.total
  BY <1>1, <1>2, ChildrenAreNew DEF PoolOK
<1>8. \A e \in Dirs : Ahead(s, e) => Ahead(r, e) \/ e \in below
  BY <1>4, <1>5, <1>6 DEF Ahead
<1>9. ~Ahead(s, d)
  <2>1. d \notin s.queue
    BY <1>0, <1>1, <1>2, <1>4, <1>7 DEF PoolOK, InOnePlace
  <2>2. \A k \in Workers : ~Takes(s, k, d)
    BY <1>0, <1>1, <1>2, <1>5 DEF PoolOK, InOnePlace
  <2>3. \A i \in DOMAIN s.events : ~Brings(s, i, d)
    <3>1. SUFFICES ASSUME NEW i \in DOMAIN s.events, Brings(s, i, d)
                   PROVE  FALSE
      OBVIOUS
    <3>2. i \in Nat /\ i + 1 \in DOMAIN r.events /\ Brings(r, i + 1, d)
      BY <1>1, <1>6, <3>1
    <3>3. i + 1 = 1
      BY <1>0, <1>1, <1>2, <3>2 DEF PoolOK, InOnePlace
    <3>4. i \in 1..Len(s.events)
      BY <1>3 DEF WalkRecords
    <3> QED
      BY <3>3, <3>4
  <2> QED
    BY <2>1, <2>2, <2>3 DEF Ahead
<1>10. InOnePlace(s)
  <2>1. SUFFICES ASSUME NEW e \in Dirs
                 PROVE  /\ \A k, l \in Workers : Takes(s, k, e) /\ Takes(s, l, e) => k = l
                        /\ \A i, j \in DOMAIN s.events :
                              Brings(s, i, e) /\ Brings(s, j, e) => i = j
                        /\ \A k \in Workers, i \in DOMAIN s.events :
                              ~(Takes(s, k, e) /\ Brings(s, i, e))
                        /\ e \in s.queue => /\ \A k \in Workers : ~Takes(s, k, e)
                                            /\ \A i \in DOMAIN s.events : ~Brings(s, i, e)
                        /\ e \in DOMAIN s.total => ~Ahead(s, e)
    BY DEF InOnePlace
  <2>2. /\ \A k, l \in Workers : Takes(s, k, e) /\ Takes(s, l, e) => k = l
        /\ \A i, j \in DOMAIN s.events : Brings(s, i, e) /\ Brings(s, j, e) => i = j
        /\ \A k \in Workers, i \in DOMAIN s.events : ~(Takes(s, k, e) /\ Brings(s, i, e))
    BY <1>5, <1>6 DEF PoolOK, InOnePlace
  <2>3. ASSUME e \in s.queue
        PROVE  /\ \A k \in Workers : ~Takes(s, k, e)
               /\ \A i \in DOMAIN s.events : ~Brings(s, i, e)
    <3>1. CASE e \in below
      BY <1>5, <1>6, <1>7, <3>1 DEF Ahead
    <3>2. CASE e \in r.queue
      BY <1>5, <1>6, <3>2 DEF PoolOK, InOnePlace
    <3> QED
      BY <1>4, <2>3, <3>1, <3>2
  <2>4. ASSUME e \in DOMAIN s.total
        PROVE  ~Ahead(s, e)
    BY <1>4, <1>7, <1>8, <1>9, <2>4 DEF PoolOK, InOnePlace
  <2> QED
    BY <2>2, <2>3, <2>4
<1>11. InTree(s)
  BY <1>0, <1>4, TailShifts DEF PoolOK, InTree
<1>12. FoundFromAbove(s)
  <2>1. SUFFICES ASSUME NEW e \in Dirs, Ahead(s, e) \/ e \in DOMAIN s.total
                 PROVE  /\ s.root \in Dirs /\ Depth[s.root] <= Depth[e]
                        /\ e = s.root \/ \E f \in DOMAIN s.total : e \in Children[f]
    BY DEF FoundFromAbove
  <2>2. CASE e \in below
    <3>1. r.root \in Dirs /\ Depth[r.root] <= Depth[d]
      BY <1>1, <1>2 DEF PoolOK, FoundFromAbove
    <3>2. Depth[d] < Depth[e] /\ Depth \in [Dirs -> Nat]
      BY <1>1, <2>2, DepthGrows
    <3> QED
      BY <1>1, <1>4, <2>2, <3>1, <3>2
  <2>3. CASE e \notin below
    <3>1. Ahead(r, e) \/ e \in DOMAIN r.total
      BY <1>2, <1>4, <1>8, <2>1, <2>3
    <3> QED
      BY <1>4, <3>1 DEF PoolOK, FoundFromAbove
  <2> QED
    BY <2>2, <2>3
<1>13. Exact(s)
  <2>1. r.queue \cap below = {}
    BY <1>7 DEF Ahead
  <2>2. Cardinality(s.queue) = Cardinality(r.queue) + Cardinality(below)
    <3>1. IsFiniteSet(r.queue) /\ IsFiniteSet(below)
      BY <1>1, SubsetsOfDirsAreFinite DEF WalkRecords
    <3>2. /\ Cardinality(r.queue \cup below) =
                Cardinality(r.queue) + Cardinality(below) - Cardinality(r.queue \cap below)
          /\ Cardinality(r.queue) \in Nat /\ Cardinality(below) \in Nat
      BY <3>1, FS_Union, FS_CardinalityType, Zenon
    <3>3. Cardinality({}) = 0
      BY FS_EmptySet
    <3>4. Cardinality(r.queue \cap below) = 0
      BY <2>1, <3>3
    <3>5. s.queue = r.queue \cup below
      BY <1>4
    <3> QED
      BY <3>2, <3>4, <3>5
  <2>3. Cardinality(Dones(s.events)) = Cardinality(Dones(r.events))
    BY <1>0, <1>4, DonesOfTail, DonesAreFinite
  <2>4. /\ Cardinality(r.queue) \in Nat /\ Cardinality(Busy(r.hands)) \in Nat
        /\ Cardinality(Dones(r.events)) \in Nat /\ Cardinality(below) \in Nat
    BY <1>1, SubsetsOfDirsAreFinite, BusyIsFinite, DonesAreFinite DEF WalkRecords
  <2> QED
    BY <1>4, <2>2, <2>3, <2>4 DEF PoolOK, Exact
<1>14. Stops(s)
  BY <1>0, <1>4, TailShifts DEF PoolOK, Stops
<1>15. Found(s) = Found(r) \cup below
  <2>1. \A i \in DOMAIN r.events, e \in Dirs : i # 1 /\ Brings(r, i, e) =>
            i - 1 \in DOMAIN s.events /\ Brings(s, i - 1, e)
    BY ONLY r \in WalkRecords, r.events # <<>>, <1>4, ReceivedBringsLess
  <2>2. \A e \in Dirs : Brings(r, 1, e) => e = d
    BY <1>0 DEF Brings
  <2>3. \A e \in Dirs : Ahead(r, e) => Ahead(s, e) \/ e = d
    BY <1>4, <1>5, <2>1, <2>2 DEF Ahead
  <2>4. \A e \in below : Ahead(s, e)
    BY <1>4 DEF Ahead
  <2>5. Found(r) \subseteq Found(s) /\ below \subseteq Found(s)
    BY <1>1, <1>4, <2>3, <2>4 DEF Found
  <2>6. \A e \in Found(s) : e \in Found(r) \/ e \in below
    BY <1>1, <1>2, <1>4, <1>8 DEF Found
  <2> QED
    BY <2>5, <2>6
<1>16. d \in Found(r)
  BY <1>1, <1>2 DEF Found
<1> QED
  BY <1>3, <1>4, <1>10, <1>11, <1>12, <1>13, <1>14, <1>15, <1>16 DEF PoolOK

LEMMA DrainKeepsOrder ==
    ASSUME NEW r \in WalkRecords, PoolOK(r), r.at = "walking"
    PROVE  /\ Drained(r) \in WalkRecords /\ PoolOK(Drained(r))
           /\ Drained(r).root = r.root /\ Drained(r).total = r.total
           /\ Found(Drained(r)) \subseteq Found(r)
<1> DEFINE s == Drained(r)
<1>1. IsFiniteSet(r.queue) /\ Cardinality(r.queue) \in Nat
  BY SubsetsOfDirsAreFinite DEF WalkRecords
<1>2. s \in WalkRecords
  <2>1. r.pending - Cardinality(r.queue) \in Int /\ {} \in SUBSET Dirs
    BY <1>1 DEF WalkRecords
  <2> QED
    BY <2>1 DEF WalkRecords, Drained
<1>3. /\ s.at = r.at /\ s.root = r.root /\ s.queue = {} /\ s.stopped /\ s.applied
      /\ s.hands = r.hands /\ s.events = r.events /\ s.total = r.total
      /\ s.pending = r.pending - Cardinality(r.queue)
  BY DEF WalkRecords, Drained
<1>4. /\ \A k, d : Takes(s, k, d) <=> Takes(r, k, d)
      /\ \A i, d : Brings(s, i, d) <=> Brings(r, i, d)
  BY <1>3 DEF Takes, Brings
<1>5. \A d \in Dirs : Ahead(s, d) => Ahead(r, d)
  BY <1>3, <1>4 DEF Ahead
<1>6. InOnePlace(s)
  BY <1>3, <1>4, <1>5 DEF PoolOK, InOnePlace
<1>7. InTree(s) /\ FoundFromAbove(s) /\ Stops(s)
  BY <1>3, <1>5 DEF PoolOK, InTree, FoundFromAbove, Stops
<1>8. Exact(s)
  <2>1. Cardinality({}) = 0
    BY FS_EmptySet
  <2>2. Cardinality(Busy(r.hands)) \in Nat /\ Cardinality(Dones(r.events)) \in Nat
    BY BusyIsFinite, DonesAreFinite DEF WalkRecords
  <2> QED
    BY <1>1, <1>3, <2>1, <2>2 DEF PoolOK, Exact, WalkRecords
<1>9. Found(s) \subseteq Found(r)
  BY <1>3, <1>5 DEF Found
<1> QED
  BY <1>2, <1>3, <1>6, <1>7, <1>8, <1>9 DEF PoolOK

LEMMA LookKeepsOrder ==
    ASSUME NEW r \in WalkRecords, PoolOK(r), r.at = "walking", NEW w
    PROVE  Looked(w, r) \in WalkRecords /\ PoolOK(Looked(w, r))
<1>1. CASE r.pending = 0
  <2> DEFINE s == [r EXCEPT !.at = "joining", !.queue = {}, !.stopped = TRUE]
  <2>1. Looked(w, r) = s
    BY <1>1 DEF Looked
  <2>2. r.queue = {} /\ Busy(r.hands) = {} /\ Dones(r.events) = {}
    BY <1>1, SumsToZero DEF PoolOK
  <2>3. r.events = <<>>
    <3>1. SUFFICES ASSUME r.events # <<>>
                   PROVE  FALSE
      OBVIOUS
    <3>2. r.events[Len(r.events)].kind = "Done"
      BY <2>2, <3>1 DEF PoolOK, Stops
    <3>3. Len(r.events) \in DOMAIN r.events
      BY <3>1 DEF WalkRecords
    <3> QED
      BY <2>2, <3>2, <3>3 DEF Dones
  <2>4. s \in WalkRecords
    BY DEF WalkRecords
  <2>5. /\ s.at = "joining" /\ s.root = r.root /\ s.queue = r.queue /\ s.stopped
        /\ s.hands = r.hands /\ s.events = r.events /\ s.total = r.total
        /\ s.applied = r.applied
    BY <2>2 DEF WalkRecords
  <2>6. /\ \A k, d : Takes(s, k, d) <=> Takes(r, k, d)
        /\ \A i, d : Brings(s, i, d) <=> Brings(r, i, d)
    BY <2>5 DEF Takes, Brings
  <2>7. \A d \in Dirs : Ahead(s, d) <=> Ahead(r, d)
    BY <2>5, <2>6 DEF Ahead
  <2>8. InOnePlace(s)
    BY <2>5, <2>6, <2>7 DEF PoolOK, InOnePlace
  <2>9. InTree(s) /\ FoundFromAbove(s) /\ Exact(s)
    BY <2>5, <2>7 DEF PoolOK, InTree, FoundFromAbove, Exact
  <2>10. Stops(s)
    BY <2>2, <2>3, <2>5 DEF PoolOK, Stops
  <2> QED
    BY <2>1, <2>4, <2>8, <2>9, <2>10 DEF PoolOK
<1>2. CASE r.pending # 0 /\ w \in cancelled /\ ~r.applied
  BY <1>2, DrainKeepsOrder DEF Looked
<1>3. CASE r.pending # 0 /\ ~(w \in cancelled /\ ~r.applied)
  BY <1>3 DEF Looked
<1> QED
  BY <1>1, <1>2, <1>3

LEMMA ReceiveKeepsOrder ==
    ASSUME NEW r \in WalkRecords, PoolOK(r), r.at = "walking", r.events # <<>>
    PROVE  LET s == Received([r EXCEPT !.events = Tail(@)], Head(r.events))
           IN s \in WalkRecords /\ PoolOK(s) /\ s.at = "walking"
<1> DEFINE e == Head(r.events)
           s == Received([r EXCEPT !.events = Tail(@)], e)
<1>1. e \in Events /\ r.pending \in Int
  BY TailShifts DEF WalkRecords
<1>2. e.kind = "Done" =>
          s = [r EXCEPT !.events = Tail(@), !.pending = r.pending - 1]
  BY DEF Received, WalkRecords
<1>3. e.kind = "Batch" /\ r.applied =>
          s = [r EXCEPT !.events = Tail(@), !.pending = r.pending]
  BY DEF Received, WalkRecords
<1>4. e.kind = "Batch" /\ ~r.applied =>
          s = [r EXCEPT !.events = Tail(@),
                        !.total = Add(@, e.dir, e.seen),
                        !.queue = @ \cup Children[e.dir],
                        !.pending = @ + Cardinality(Children[e.dir])]
  BY DEF Received, WalkRecords
<1>5. s.at = "walking"
  BY <1>1, <1>2, <1>3, <1>4 DEF Events, WalkRecords
<1> SUFFICES s \in WalkRecords /\ PoolOK(s) /\ s.at = "walking"
  OBVIOUS
<1> HIDE DEF s
<1>6. CASE e.kind = "Done"
  <2>1. r.pending - 1 \in Int
    BY <1>1
  <2> QED
    BY <1>2, <1>5, <1>6, <2>1, DropKeepsOrder
<1>7. CASE e.kind = "Batch" /\ r.applied
  <2>1. r.pending = r.pending - 0
    BY <1>1
  <2> QED
    BY <1>1, <1>3, <1>5, <1>7, <2>1, DropKeepsOrder
<1>8. CASE e.kind = "Batch" /\ ~r.applied
  BY <1>4, <1>5, <1>8, CountKeepsOrder
<1> QED
  BY <1>1, <1>6, <1>7, <1>8 DEF Events

LEMMA CloseKeepsOrder ==
    ASSUME NEW r \in WalkRecords, PoolOK(r), r.at = "walking", r.events = <<>>,
           \A k \in Workers : r.hands[k].at = "left"
    PROVE  LET s == [r EXCEPT !.at = "joining", !.stopped = TRUE]
           IN s \in WalkRecords /\ PoolOK(s)
<1> DEFINE s == [r EXCEPT !.at = "joining", !.stopped = TRUE]
<1>1. s \in WalkRecords
  BY DEF WalkRecords
<1>2. /\ s.at = "joining" /\ s.root = r.root /\ s.queue = r.queue /\ s.stopped
      /\ s.hands = r.hands /\ s.events = r.events /\ s.total = r.total
      /\ s.applied = r.applied
  BY DEF WalkRecords
<1>3. /\ \A k, d : Takes(s, k, d) <=> Takes(r, k, d)
      /\ \A i, d : Brings(s, i, d) <=> Brings(r, i, d)
  BY <1>2 DEF Takes, Brings
<1>4. \A d \in Dirs : Ahead(s, d) <=> Ahead(r, d)
  BY <1>2, <1>3 DEF Ahead
<1>5. InOnePlace(s)
  BY <1>2, <1>3, <1>4 DEF PoolOK, InOnePlace
<1>6. InTree(s) /\ FoundFromAbove(s) /\ Exact(s)
  BY <1>2, <1>4 DEF PoolOK, InTree, FoundFromAbove, Exact
<1>7. r.stopped /\ Busy(r.hands) = {}
  BY WorkersAssumption DEF PoolOK, Stops, Busy
<1>8. Stops(s)
  BY <1>2, <1>7 DEF PoolOK, Stops
<1> QED
  BY <1>1, <1>5, <1>6, <1>8 DEF PoolOK

LEMMA NoWalkIsInOrder == NoWalk \in WalkRecords /\ PoolOK(NoWalk)
<1>1. Read \in Totals
  BY DEF Read, Totals
<1>2. Resting \in Hands /\ <<>> \in Seq(Events)
  BY DEF Resting, Hands
<1>3. NoWalk \in WalkRecords
  BY <1>1, <1>2 DEF NoWalk, WalkRecords
<1> QED
  BY <1>3 DEF NoWalk, PoolOK

LEMMA NewWalkIsInOrder ==
    ASSUME NEW f \in Dirs
    PROVE  LET r == [NoWalk EXCEPT !.root = f, !.queue = {f}, !.pending = 1]
           IN /\ r \in WalkRecords
              /\ [r EXCEPT !.at = "walking"] \in WalkRecords
              /\ PoolOK([r EXCEPT !.at = "walking"])
<1> DEFINE s == [[NoWalk EXCEPT !.root = f, !.queue = {f}, !.pending = 1]
                 EXCEPT !.at = "walking"]
<1>1. Read \in Totals /\ DOMAIN Read = {}
  BY DEF Read, Totals
<1>3. NoWalk \in WalkRecords
  BY NoWalkIsInOrder
<1>4. /\ s.at = "walking" /\ s.root = f /\ s.queue = {f} /\ ~s.stopped /\ ~s.applied
      /\ s.hands = [k \in Workers |-> Resting] /\ s.events = <<>>
      /\ s.pending = 1 /\ s.total = Read
  <2>1. /\ NoWalk.stopped = FALSE /\ NoWalk.applied = FALSE /\ NoWalk.events = <<>>
        /\ NoWalk.total = Read
    BY DEF NoWalk
  <2>2. NoWalk.hands = [k \in Workers |-> Resting]
    BY DEF NoWalk
  <2> QED
    BY <1>3, <2>1, <2>2 DEF WalkRecords
<1>5. s \in WalkRecords
  <2>1. {f} \in SUBSET Dirs /\ 1 \in Int
    OBVIOUS
  <2> QED
    BY <1>3, <2>1 DEF WalkRecords
<1>6. /\ \A k \in Workers, d \in Dirs : ~Takes(s, k, d)
      /\ \A i \in DOMAIN s.events, d \in Dirs : ~Brings(s, i, d)
      /\ \A d \in Dirs : Ahead(s, d) => d = f
  BY <1>4 DEF Takes, Brings, Ahead, Resting
<1>7. InOnePlace(s)
  BY <1>1, <1>4, <1>6 DEF InOnePlace
<1>8. InTree(s) /\ Stops(s)
  BY <1>4 DEF InTree, Stops, Resting
<1>9. FoundFromAbove(s)
  BY <1>1, <1>4, <1>6, DepthGrows DEF FoundFromAbove
<1>10. Exact(s)
  <2>1. Busy(s.hands) = {} /\ Dones(s.events) = {}
    BY <1>4 DEF Busy, Dones, Resting
  <2>2. Cardinality({}) = 0 /\ Cardinality({f}) = 1
    BY FS_EmptySet, FS_Singleton
  <2>3. /\ s.pending = 1 /\ Cardinality(s.queue) = 1
        /\ Cardinality(Busy(s.hands)) = 0 /\ Cardinality(Dones(s.events)) = 0
    BY <1>4, <2>1, <2>2
  <2> QED
    BY <2>3 DEF Exact
<1> QED
  BY <1>3, <1>5, <1>7, <1>8, <1>9, <1>10 DEF PoolOK, WalkRecords

----
(* Every step of the system keeps every walk in order.                     *)

LEMMA Replaced ==
    ASSUME WalkInv, NEW w \in Walks, NEW r \in WalkRecords, PoolOK(r),
           walk' = [walk EXCEPT ![w] = r], UNCHANGED version
    PROVE  WalkInv'
<1>1. walk' \in [Walks -> WalkRecords]
  BY DEF WalkInv
<1>2. \A v \in Walks : PoolOK(walk'[v])
  BY DEF WalkInv
<1> QED
  BY <1>1, <1>2 DEF WalkInv, PoolOK, InOnePlace, InTree, FoundFromAbove, Exact, Stops,
                    Ahead, Takes, Brings

LEMMA Kept ==
    ASSUME WalkInv, UNCHANGED walk, version' \in [Dirs -> Nat]
    PROVE  WalkInv'
<1>1. walk' \in [Walks -> WalkRecords]
  BY DEF WalkInv
<1>2. \A v \in Walks : PoolOK(walk'[v])
  BY DEF WalkInv
<1> QED
  BY <1>1, <1>2 DEF WalkInv, PoolOK, InOnePlace, InTree, FoundFromAbove, Exact, Stops,
                    Ahead, Takes, Brings

----
(* What has been found stays found, and what has been read stays new.      *)

LEMMA SubtreeIsClosed ==
    ASSUME NEW root \in Dirs
    PROVE  /\ root \in Subtree[root] /\ Subtree[root] \subseteq Dirs
           /\ \A d \in Subtree[root] : Children[d] \subseteq Subtree[root]
           /\ \A S \in SUBSET Dirs : root \in S /\ (\A e \in S : Children[e] \subseteq S)
                                      => Subtree[root] \subseteq S
<1>1. Subtree[root] =
        {d \in Dirs : \A S \in SUBSET Dirs :
                         root \in S /\ (\A e \in S : Children[e] \subseteq S) => d \in S}
  BY DEF Subtree
<1>2. ASSUME NEW d \in Subtree[root], NEW c \in Children[d]
      PROVE  c \in Subtree[root]
  <2>1. d \in Dirs /\ c \in Dirs
    BY <1>1, TreeAssumption
  <2>2. ASSUME NEW S \in SUBSET Dirs, root \in S, \A e \in S : Children[e] \subseteq S
        PROVE  c \in S
    BY <1>1, <2>2
  <2> QED
    BY <1>1, <2>1, <2>2
<1>3. root \in Subtree[root] /\ Subtree[root] \subseteq Dirs
  BY <1>1
<1>4. ASSUME NEW S \in SUBSET Dirs, root \in S, \A e \in S : Children[e] \subseteq S
      PROVE  Subtree[root] \subseteq S
  BY <1>1, <1>4
<1> QED
  BY <1>2, <1>3, <1>4

LEMMA SameIsSound ==
    ASSUME NEW w, NEW r, NEW s, Sound(w, r), r.at # "none", s.at # "none", s.at # "returned",
           Less(r, s), Same(r, s) \/ w \in cancelled, s.at # "walking" => s.pending \in Nat
    PROVE  Sound(w, s)
BY DEF Sound, Less, Same

LEMMA StepOfWorker ==
    ASSUME NEW w, NEW r \in WalkRecords, NEW s \in WalkRecords, NEW e \in Events,
           r.at \in {"walking", "joining"}, s.at = r.at, s.pending = r.pending, Less(r, s),
           Same(r, s) \/ w \in cancelled,
           s.events = Append(r.events, e),
           e.kind = "Batch" => e.dir \in Dirs /\ e.seen = version[e.dir]
    PROVE  Step(w, r, s)
<1>1. Sound(w, r) => Sound(w, s)
  BY SameIsSound DEF Sound
<1>2. ASSUME NEW low \in [Dirs -> Nat], \A d \in Dirs : low[d] <= version[d], AtLeast(r, low)
      PROVE  AtLeast(s, low)
  <2>1. r.events \in Seq(Events)
    BY DEF WalkRecords
  <2>2. \A i \in DOMAIN s.events : \/ i \in DOMAIN r.events /\ s.events[i] = r.events[i]
                                \/ s.events[i] = e
    BY <2>1
  <2>3. s.total = r.total
    BY DEF Less
  <2>4. e.kind = "Batch" => e.seen >= low[e.dir]
    BY <1>2 DEF Events
  <2> QED
    BY <1>2, <2>2, <2>3, <2>4 DEF AtLeast
<1> QED
  BY <1>1, <1>2 DEF Step, Less

LEMMA StepInSilence ==
    ASSUME NEW w, NEW r, NEW s, r.at \in {"walking", "joining"}, s.at = r.at,
           s.pending = r.pending, Same(r, s), s.events = r.events
    PROVE  Step(w, r, s)
<1>1. Sound(w, r) => Sound(w, s)
  BY SameIsSound DEF Sound, Same
<1> QED
  BY <1>1 DEF Step, Less, Same, AtLeast

LEMMA LookIsAStep ==
    ASSUME NEW w, NEW r \in WalkRecords, PoolOK(r), r.at = "walking"
    PROVE  /\ Looked(w, r).root = r.root /\ Looked(w, r).at # "none"
           /\ Sound(w, r) => Sound(w, Looked(w, r))
           /\ \A low : AtLeast(r, low) => AtLeast(Looked(w, r), low)
<1>1. CASE r.pending = 0
  <2> DEFINE s == [r EXCEPT !.at = "joining", !.queue = {}, !.stopped = TRUE]
  <2>1. Looked(w, r) = s
    BY <1>1 DEF Looked
  <2>2. r.queue = {}
    BY <1>1, SumsToZero DEF PoolOK
  <2>3. /\ s.at = "joining" /\ s.root = r.root /\ s.queue = r.queue /\ s.hands = r.hands
        /\ s.events = r.events /\ s.total = r.total /\ s.applied = r.applied
        /\ s.pending = 0
    BY <1>1, <2>2 DEF WalkRecords
  <2>4. /\ \A k, d : Takes(s, k, d) <=> Takes(r, k, d)
        /\ \A i, d : Brings(s, i, d) <=> Brings(r, i, d)
    BY <2>3 DEF Takes, Brings
  <2>5. Found(s) = Found(r)
    BY <2>3, <2>4 DEF Found, Ahead
  <2>6. Less(r, s) /\ Same(r, s)
    BY <2>3, <2>5 DEF Same, Less
  <2> HIDE DEF s
  <2>7. Sound(w, r) => Sound(w, s)
    BY <2>3, <2>6, SameIsSound
  <2> QED
    BY <2>1, <2>3, <2>7 DEF AtLeast
<1>2. CASE r.pending # 0 /\ w \in cancelled /\ ~r.applied
  <2>1. Looked(w, r) = Drained(r)
    BY <1>2 DEF Looked
  <2>2. Drained(r).at = "walking" /\ Drained(r).events = r.events
    BY DEF Drained, WalkRecords
  <2>3. /\ Drained(r).root = r.root /\ Drained(r).total = r.total
        /\ Found(Drained(r)) \subseteq Found(r)
    BY DrainKeepsOrder
  <2>4. Sound(w, r) => Sound(w, Drained(r))
    BY <1>2, <2>2, <2>3 DEF Sound
  <2> QED
    BY <2>1, <2>2, <2>3, <2>4 DEF AtLeast
<1>3. CASE r.pending # 0 /\ ~(w \in cancelled /\ ~r.applied)
  BY <1>3 DEF Looked
<1> QED
  BY <1>1, <1>2, <1>3

LEMMA ReceiveIsAStep ==
    ASSUME NEW w, NEW r \in WalkRecords, PoolOK(r), r.at = "walking", r.events # <<>>, NEW s,
           s = Received([r EXCEPT !.events = Tail(@)], Head(r.events))
    PROVE  /\ s.root = r.root
           /\ Sound(w, r) => Sound(w, s)
           /\ \A low \in [Dirs -> Nat] : AtLeast(r, low) => AtLeast(s, low)
<1> DEFINE e == Head(r.events)
<1>0. /\ r.events \in Seq(Events) /\ e \in Events /\ e = r.events[1] /\ 1 \in DOMAIN r.events
      /\ r.pending \in Int
  BY TailShifts DEF WalkRecords
<1>1. \A i \in DOMAIN Tail(r.events) :
          i + 1 \in DOMAIN r.events /\ Tail(r.events)[i] = r.events[i + 1]
  BY <1>0, TailShifts
<1>2. CASE e.kind = "Done"
  <2>1. r.pending - 1 \in Int
    BY <1>0
  <2>2. s = [r EXCEPT !.events = Tail(@), !.pending = r.pending - 1]
    BY <1>2 DEF Received, WalkRecords
  <2>3. Less(r, s) /\ Same(r, s)
    BY <1>2, <2>1, <2>2, DropKeepsOrder
  <2>4. s.at = "walking" /\ s.root = r.root /\ s.total = r.total /\ s.events = Tail(r.events)
    BY <2>2 DEF WalkRecords
  <2>5. Sound(w, r) => Sound(w, s)
    BY ONLY <2>3, <2>4, r.at = "walking", SameIsSound
  <2> QED
    BY <1>1, <2>4, <2>5 DEF AtLeast
<1>3. CASE e.kind = "Batch" /\ r.applied
  <2>1. r.pending = r.pending - 0
    BY <1>0
  <2>2. s = [r EXCEPT !.events = Tail(@), !.pending = r.pending]
    BY <1>3 DEF Received, WalkRecords
  <2>3. Less(r, s)
    BY <1>0, <1>3, <2>1, <2>2, DropKeepsOrder
  <2>4. s.at = "walking" /\ s.root = r.root /\ s.total = r.total /\ s.events = Tail(r.events)
    BY <2>2 DEF WalkRecords
  <2>5. Sound(w, r) => w \in cancelled
    BY <1>3 DEF Sound
  <2>6. Sound(w, r) => Sound(w, s)
    BY <2>3, <2>4, <2>5, SameIsSound
  <2> QED
    BY <1>1, <2>4, <2>6 DEF AtLeast
<1>4. CASE e.kind = "Batch" /\ ~r.applied
  <2>1. s = [r EXCEPT !.events = Tail(@),
                      !.total = Add(@, e.dir, e.seen),
                      !.queue = @ \cup Children[e.dir],
                      !.pending = @ + Cardinality(Children[e.dir])]
    BY <1>4 DEF Received, WalkRecords
  <2>2. /\ s.root = r.root /\ s.applied = r.applied /\ e.dir \in Found(r)
        /\ DOMAIN s.total = DOMAIN r.total \cup {e.dir}
        /\ Found(s) = Found(r) \cup Children[e.dir]
    BY <1>4, <2>1, CountKeepsOrder
  <2>3. /\ s.at = "walking" /\ s.total = Add(r.total, e.dir, e.seen)
        /\ s.events = Tail(r.events)
    BY <2>1 DEF WalkRecords
  <2>4. ASSUME Sound(w, r)
        PROVE  Sound(w, s)
    <3>1. r.root \in Dirs /\ e.dir \in Subtree[r.root] /\ Found(r) \subseteq Subtree[r.root]
      BY <2>2, <2>4 DEF Sound
    <3>2. Found(s) \subseteq Subtree[s.root]
      <4>1. Children[e.dir] \subseteq Subtree[r.root]
        BY <3>1, SubtreeIsClosed
      <4> QED
        BY <2>2, <3>1, <4>1
    <3> QED
      BY <2>2, <2>3, <2>4, <3>1, <3>2 DEF Sound
  <2>5. ASSUME NEW low \in [Dirs -> Nat], AtLeast(r, low)
        PROVE  AtLeast(s, low)
    <3>1. e.seen >= low[e.dir]
      BY <1>0, <1>4, <2>5 DEF AtLeast
    <3>2. \A d \in DOMAIN s.total : s.total[d] >= low[d]
      BY <2>3, <2>5, <3>1 DEF AtLeast, Add
    <3> QED
      BY <1>1, <2>3, <2>5, <3>2 DEF AtLeast
  <2> QED
    BY <2>2, <2>4, <2>5
<1> QED
  BY <1>0, <1>2, <1>3, <1>4 DEF Events

LEMMA WorkerStep ==
    ASSUME WalkInv, UNCHANGED version, NEW w \in Walks, NEW k \in Workers, Worker(w, k)
    PROVE  WalkInv' /\ \E s : walk' = [walk EXCEPT ![w] = s] /\ Step(w, walk[w], s)
<1> DEFINE r == walk[w]
<1>1. /\ r \in WalkRecords /\ PoolOK(r) /\ r.at \in {"walking", "joining"}
      /\ walk \in [Walks -> WalkRecords]
  BY DEF WalkInv, Worker, Take, Leave, SendBatch, SendDone, Send, Active
<1>2. CASE Take(w, k)
  <2>1. PICK d \in r.queue :
            walk' = [walk EXCEPT ![w] = [r EXCEPT !.queue = @ \ {d},
                                                  !.hands[k] = [at |-> "took", dir |-> d]]]
    BY ZenonT(60), <1>1, <1>2 DEF Take, WalkRecords
  <2>2. r.hands[k].at = "waiting" /\ ~r.stopped
    BY <1>2 DEF Take, Hand
  <2> DEFINE s == [r EXCEPT !.queue = @ \ {d}, !.hands[k] = [at |-> "took", dir |-> d]]
  <2>3. s \in WalkRecords /\ PoolOK(s) /\ Same(r, s)
    BY <1>1, <2>2, TakeKeepsOrder
  <2>4. s.at = r.at /\ s.pending = r.pending /\ s.events = r.events
    BY <1>1 DEF WalkRecords
  <2> HIDE DEF s
  <2>5. Step(w, r, s)
    BY <1>1, <2>3, <2>4, StepInSilence
  <2> QED
    BY <2>1, <2>3, <2>5, Replaced DEF s
<1>3. CASE Leave(w, k)
  <2>1. /\ walk' = [walk EXCEPT ![w] = [r EXCEPT !.hands[k].at = "left"]]
        /\ r.hands[k].at = "waiting" /\ r.stopped
    BY <1>1, <1>3 DEF Leave, Hand, WalkRecords
  <2> DEFINE s == [r EXCEPT !.hands[k].at = "left"]
  <2>3. s \in WalkRecords /\ PoolOK(s) /\ Same(r, s)
    BY <1>1, <2>1, LeaveKeepsOrder
  <2>4. s.at = r.at /\ s.pending = r.pending /\ s.events = r.events
    BY <1>1 DEF WalkRecords
  <2> HIDE DEF s
  <2>5. Step(w, r, s)
    BY <1>1, <2>3, <2>4, StepInSilence
  <2> QED
    BY <2>1, <2>3, <2>5, Replaced DEF s
<1>4. CASE SendBatch(w, k)
  <2>1. r.hands[k].dir \in Dirs /\ r.hands[k].at = "took"
    BY <1>1, <1>4 DEF SendBatch, Hand, PoolOK, InTree
  <2>2. version[r.hands[k].dir] \in Nat
    BY <2>1 DEF WalkInv
  <2>3. walk' = [walk EXCEPT ![w] =
                    [r EXCEPT !.hands[k] = [at |-> "read", dir |-> r.hands[k].dir],
                              !.events = Append(@, Event("Batch", r.hands[k].dir,
                                                         version[r.hands[k].dir]))]]
    BY <1>1, <1>4 DEF SendBatch, Send, Hand, WalkRecords
  <2> DEFINE d == r.hands[k].dir
             e == Event("Batch", d, version[d])
             s == [r EXCEPT !.hands[k] = [at |-> "read", dir |-> d], !.events = Append(@, e)]
  <2>4. s \in WalkRecords /\ PoolOK(s) /\ Same(r, s)
    BY <1>1, <2>1, <2>2, BatchKeepsOrder
  <2>5. /\ s.at = r.at /\ s.pending = r.pending /\ s.events = Append(r.events, e)
        /\ e \in Events /\ e.dir = d /\ e.seen = version[d]
    BY <1>1, <2>1, <2>2 DEF WalkRecords, Event, Events
  <2>6. walk' = [walk EXCEPT ![w] = s]
    BY <2>3
  <2> HIDE DEF s, e
  <2>7. Step(w, r, s)
    BY <1>1, <2>1, <2>4, <2>5, StepOfWorker DEF Same
  <2> QED
    BY <2>4, <2>6, <2>7, Replaced
<1>5. CASE SendDone(w, k)
  <2>1. /\ walk' = [walk EXCEPT ![w] = [r EXCEPT !.hands[k] = Resting,
                                                 !.events = Append(@, Event("Done", NoDir, 0))]]
        /\ r.hands[k].at \in {"took", "read"}
    BY <1>1, <1>5 DEF SendDone, Send, Hand, WalkRecords
  <2> DEFINE e == Event("Done", NoDir, 0)
             s == [r EXCEPT !.hands[k] = Resting, !.events = Append(@, e)]
  <2>2. /\ s \in WalkRecords /\ PoolOK(s) /\ Less(r, s)
        /\ r.hands[k].at = "read" => Same(r, s)
    BY <1>1, <2>1, DoneKeepsOrder
  <2>3. /\ s.at = r.at /\ s.pending = r.pending /\ s.events = Append(r.events, e)
        /\ e \in Events /\ e.kind = "Done"
    BY <1>1 DEF WalkRecords, Event, Events
  <2>4. r.hands[k].at = "read" \/ w \in cancelled
    BY <1>5 DEF SendDone, Hand
  <2>5. walk' = [walk EXCEPT ![w] = s]
    BY <2>1
  <2> HIDE DEF s, e
  <2>6. Step(w, r, s)
    BY <1>1, <2>2, <2>3, <2>4, StepOfWorker
  <2> QED
    BY <2>2, <2>5, <2>6, Replaced
<1> QED
  BY <1>2, <1>3, <1>4, <1>5 DEF Worker

LEMMA ReturnStep ==
    ASSUME WalkInv, UNCHANGED version, NEW w \in Walks, Returns(w),
           walk[w].at \in {"serial", "walking", "joining"},
           w \in cancelled \/ Found(walk[w]) = DOMAIN walk[w].total
    PROVE  WalkInv' /\ \E s : walk' = [walk EXCEPT ![w] = s] /\ Step(w, walk[w], s)
<1> DEFINE s == [NoWalk EXCEPT !.at = "returned", !.root = walk[w].root,
                               !.total = walk[w].total]
<1>1. walk[w] \in WalkRecords /\ NoWalk \in WalkRecords
  BY NoWalkIsInOrder DEF WalkInv
<1>2. s \in WalkRecords /\ s.at = "returned"
  BY <1>1 DEF WalkRecords
<1>4. /\ s.root = walk[w].root /\ s.total = walk[w].total /\ s.applied = FALSE
      /\ s.queue = {} /\ s.hands = [k \in Workers |-> Resting] /\ s.events = <<>>
      /\ s.pending = 0
  <2>1. /\ NoWalk.hands = [k \in Workers |-> Resting] /\ NoWalk.events = <<>>
        /\ NoWalk.queue = {} /\ NoWalk.applied = FALSE /\ NoWalk.pending = 0
    BY DEF NoWalk
  <2> QED
    BY <1>1, <2>1 DEF WalkRecords
<1> HIDE DEF s
<1>3. PoolOK(s)
  BY <1>2, <1>4 DEF PoolOK
<1>5. Found(s) = DOMAIN s.total
  <2>1. \A d \in Dirs : ~Ahead(s, d)
    BY <1>4 DEF Ahead, Takes, Brings, Resting
  <2>2. DOMAIN s.total \subseteq Dirs
    BY <1>2 DEF WalkRecords, Totals
  <2> QED
    BY <2>1, <2>2 DEF Found
<1>6. Sound(w, walk[w]) => Sound(w, s)
  <2>1. DOMAIN walk[w].total \subseteq Found(walk[w])
    BY <1>1 DEF WalkRecords, Totals, Found
  <2> QED
    BY <1>2, <1>4, <1>5, <2>1 DEF Sound
<1>7. Step(w, walk[w], s)
  BY <1>2, <1>4, <1>6 DEF Step, AtLeast
<1> QED
  BY <1>2, <1>3, <1>7, Replaced DEF Returns, s

LEMMA CoordinatorStep ==
    ASSUME WalkInv, UNCHANGED version, NEW w \in Walks, Coordinator(w)
    PROVE  WalkInv' /\ \E s : walk' = [walk EXCEPT ![w] = s] /\ Step(w, walk[w], s)
<1> DEFINE r == walk[w]
<1>1. /\ r \in WalkRecords /\ PoolOK(r) /\ walk \in [Walks -> WalkRecords]
  BY DEF WalkInv
<1>2. CASE SerialRead(w)
  <2>1. PICK d \in r.queue :
            walk' = [walk EXCEPT ![w] = [r EXCEPT !.queue = (@ \ {d}) \cup Children[d],
                                                  !.total = Add(@, d, version[d])]]
    BY <1>1, <1>2 DEF SerialRead, WalkRecords
  <2> DEFINE s == [r EXCEPT !.queue = (@ \ {d}) \cup Children[d],
                            !.total = Add(@, d, version[d])]
  <2>2. d \in Dirs /\ version[d] \in Nat /\ Children[d] \in SUBSET Dirs
    BY <1>1, TreeAssumption DEF WalkRecords, WalkInv
  <2>3. Add(r.total, d, version[d]) \in Totals
    BY <1>1, <2>2, AddIsTotal DEF WalkRecords
  <2>4. s \in WalkRecords /\ s.at = "serial"
    BY <1>1, <1>2, <2>2, <2>3 DEF WalkRecords, SerialRead
  <2>5. PoolOK(s)
    BY <1>1, <1>2, <2>4 DEF PoolOK, SerialRead, WalkRecords
  <2>6. /\ s.root = r.root /\ s.pending = r.pending /\ s.applied = r.applied
        /\ s.total = Add(r.total, d, version[d]) /\ s.queue = (r.queue \ {d}) \cup Children[d]
        /\ s.hands = r.hands /\ s.events = r.events
        /\ DOMAIN s.total = DOMAIN r.total \cup {d}
    BY <1>1, <2>2, AddIsTotal DEF WalkRecords
  <2> HIDE DEF s
  <2>7. Found(s) = Found(r) \cup Children[d] /\ d \in Found(r)
    <3>1. /\ \A k, e : Takes(s, k, e) <=> Takes(r, k, e)
          /\ \A i, e : Brings(s, i, e) <=> Brings(r, i, e)
      BY <2>6 DEF Takes, Brings
    <3>2. \A e \in Dirs : Ahead(s, e) => Ahead(r, e) \/ e \in Children[d]
      BY <2>6, <3>1 DEF Ahead
    <3>3. \A e \in Dirs : Ahead(r, e) => Ahead(s, e) \/ e = d
      BY <2>6, <3>1 DEF Ahead
    <3>4. \A e \in Children[d] : Ahead(s, e)
      BY <2>6 DEF Ahead
    <3>5. d \in Found(r)
      BY <2>2 DEF Found, Ahead
    <3>6. Found(r) \subseteq Found(s) /\ Children[d] \subseteq Found(s)
      BY <2>2, <2>6, <3>3, <3>4 DEF Found
    <3>7. \A e \in Found(s) : e \in Found(r) \/ e \in Children[d]
      BY <2>6, <3>2, <3>5 DEF Found
    <3> QED
      BY <3>5, <3>6, <3>7
  <2>8. ASSUME Sound(w, r)
        PROVE  Sound(w, s)
    <3>1. r.at = "serial"
      BY <1>2 DEF SerialRead
    <3>2. r.root \in Dirs /\ d \in Subtree[r.root] /\ Found(r) \subseteq Subtree[r.root]
      BY <2>7, <2>8, <3>1 DEF Sound
    <3>3. Found(s) \subseteq Subtree[s.root]
      BY <2>6, <2>7, <3>2, SubtreeIsClosed
    <3> QED
      BY <2>4, <2>6, <2>7, <2>8, <3>1, <3>3 DEF Sound
  <2>9. ASSUME NEW low \in [Dirs -> Nat], \A e \in Dirs : low[e] <= version[e], AtLeast(r, low)
        PROVE  AtLeast(s, low)
    <3>1. \A e \in DOMAIN s.total : s.total[e] >= low[e]
      BY <2>2, <2>6, <2>9 DEF AtLeast, Add
    <3> QED
      BY <2>6, <2>9, <3>1 DEF AtLeast
  <2>10. Step(w, r, s)
    BY <1>2, <2>4, <2>6, <2>8, <2>9 DEF Step, SerialRead
  <2> QED
    BY <2>1, <2>4, <2>5, <2>10, Replaced DEF s
<1>3. CASE SerialEnd(w)
  <2>1. Returns(w) /\ r.at = "serial" /\ (r.queue = {} \/ w \in cancelled)
    BY <1>3 DEF SerialEnd
  <2>2. r.queue = {} => Found(r) = DOMAIN r.total
    BY <1>1, <2>1 DEF Found, Ahead, Takes, Brings, PoolOK, WalkRecords, Totals
  <2> QED
    BY <2>1, <2>2, ReturnStep
<1>4. CASE Receive(w)
  <2>1. r.at = "walking" /\ r.events # <<>>
    BY <1>4 DEF Receive
  <2> DEFINE s == Received([r EXCEPT !.events = Tail(@)], Head(r.events))
  <2>2. s \in WalkRecords /\ PoolOK(s) /\ s.at = "walking"
    BY <1>1, <2>1, ReceiveKeepsOrder
  <2>3. walk' = [walk EXCEPT ![w] = Looked(w, s)]
    BY <1>4 DEF Receive
  <2>4. /\ s.root = r.root
        /\ Sound(w, r) => Sound(w, s)
        /\ \A low \in [Dirs -> Nat] : AtLeast(r, low) => AtLeast(s, low)
    BY <1>1, <2>1, ReceiveIsAStep
  <2> HIDE DEF s
  <2>5. Looked(w, s) \in WalkRecords /\ PoolOK(Looked(w, s))
    BY <2>2, LookKeepsOrder
  <2>6. Step(w, r, Looked(w, s))
    BY <2>1, <2>2, <2>4, LookIsAStep DEF Step
  <2> QED
    BY <2>3, <2>5, <2>6, Replaced
<1>5. CASE Closed(w)
  <2>1. /\ r.at = "walking" /\ r.events = <<>> /\ \A k \in Workers : r.hands[k].at = "left"
        /\ walk' = [walk EXCEPT ![w] = [r EXCEPT !.at = "joining", !.stopped = TRUE]]
    BY <1>1, <1>5 DEF Closed, AllLeft, Hand, WalkRecords
  <2> DEFINE s == [r EXCEPT !.at = "joining", !.stopped = TRUE]
  <2>2. s \in WalkRecords /\ PoolOK(s)
    BY <1>1, <2>1, CloseKeepsOrder
  <2>3. /\ s.at = "joining" /\ s.root = r.root /\ s.queue = r.queue /\ s.hands = r.hands
        /\ s.events = r.events /\ s.total = r.total /\ s.applied = r.applied
        /\ s.pending = r.pending
    BY <1>1 DEF WalkRecords
  <2>4. /\ \A k, d : Takes(s, k, d) <=> Takes(r, k, d)
        /\ \A i, d : Brings(s, i, d) <=> Brings(r, i, d)
    BY <2>3 DEF Takes, Brings
  <2>5. Less(r, s) /\ Same(r, s)
    BY <2>3, <2>4 DEF Same, Less, Found, Ahead
  <2>6. r.pending \in Nat
    <3>1. r.queue \in SUBSET Dirs /\ r.events \in Seq(Events)
      BY <1>1 DEF WalkRecords
    <3>2. r.pending = Cardinality(r.queue) + Cardinality(Busy(r.hands)) + Cardinality(Dones(r.events))
      BY <1>1, <2>1 DEF PoolOK, Exact
    <3>3. Cardinality(r.queue) \in Nat /\ Cardinality(Dones(r.events)) \in Nat
      BY <3>1, SubsetsOfDirsAreFinite, DonesAreFinite
    <3>4. Cardinality(Busy(r.hands)) \in Nat
      BY BusyIsFinite
    <3> QED
      BY <3>2, <3>3, <3>4
  <2> HIDE DEF s
  <2>7. Sound(w, r) => Sound(w, s)
    BY <2>1, <2>3, <2>5, <2>6, SameIsSound
  <2>8. Step(w, r, s)
    BY <2>1, <2>3, <2>7 DEF Step, AtLeast
  <2> QED
    BY <2>1, <2>2, <2>8, Replaced DEF s
<1>6. CASE Join(w)
  <2>1. Returns(w) /\ r.at = "joining"
    BY <1>6 DEF Join
  <2>2. r.queue = {} /\ r.events = <<>> /\ Busy(r.hands) = {}
    BY <1>1, <2>1 DEF PoolOK, Stops
  <2>3. \A d \in Dirs : ~Ahead(r, d)
    BY <2>2 DEF Ahead, Takes, Brings, Busy
  <2>4. Found(r) = DOMAIN r.total
    BY <1>1, <2>3 DEF Found, WalkRecords, Totals
  <2> QED
    BY <2>1, <2>4, ReturnStep
<1> QED
  BY <1>2, <1>3, <1>4, <1>5, <1>6 DEF Coordinator

LEMMA BeginStep ==
    ASSUME WalkInv, UNCHANGED version, NEW w \in Walks, NEW f \in Dirs,
           NEW serial \in BOOLEAN, Begins(w, f, serial)
    PROVE  /\ WalkInv'
           /\ \E s : /\ walk' = [walk EXCEPT ![w] = s]
                    /\ s.root = f /\ s.at # "none" /\ Sound(w, s)
                    /\ \A low : AtLeast(s, low)
<1> DEFINE r == [NoWalk EXCEPT !.root = f, !.queue = {f}, !.pending = 1]
           s == [r EXCEPT !.at = "walking"]
           q == [r EXCEPT !.at = "serial"]
<1>1. r \in WalkRecords /\ s \in WalkRecords /\ PoolOK(s) /\ s.at = "walking"
  BY NewWalkIsInOrder DEF WalkRecords
<1>2. walk' = [walk EXCEPT ![w] = IF serial THEN q ELSE Looked(w, s)]
  BY DEF Begins
<1>3. q \in WalkRecords /\ PoolOK(q)
  <2>1. q \in WalkRecords /\ q.at = "serial"
    BY <1>1 DEF WalkRecords
  <2>2. q.hands = NoWalk.hands /\ q.events = NoWalk.events
    BY NoWalkIsInOrder DEF WalkRecords
  <2>3. NoWalk.hands = [k \in Workers |-> Resting] /\ NoWalk.events = <<>>
    BY DEF NoWalk
  <2> QED
    BY <2>1, <2>2, <2>3 DEF PoolOK, Resting
<1>4. Looked(w, s) \in WalkRecords /\ PoolOK(Looked(w, s))
  BY <1>1, LookKeepsOrder
<1>5. ASSUME NEW t \in {s, q}
      PROVE  /\ t.root = f /\ t.at # "none" /\ Sound(w, t)
             /\ \A low : AtLeast(t, low)
  <2>1. /\ t.root = f /\ t.queue = {f} /\ t.applied = NoWalk.applied /\ t.hands = NoWalk.hands
        /\ t.events = NoWalk.events /\ t.total = NoWalk.total /\ t.pending = 1
        /\ t.at \in {"walking", "serial"}
    BY <1>5, NoWalkIsInOrder DEF WalkRecords
  <2>2. /\ NoWalk.hands = [k \in Workers |-> Resting] /\ NoWalk.events = <<>>
        /\ NoWalk.applied = FALSE /\ NoWalk.total = Read
    BY DEF NoWalk
  <2>3. DOMAIN Read = {}
    BY DEF Read
  <2>4. \A d \in Dirs : Ahead(t, d) <=> d = f
    BY <2>1, <2>2 DEF Ahead, Takes, Brings, Resting
  <2>5. Found(t) = {f} /\ DOMAIN t.total = {}
    BY <2>1, <2>2, <2>3, <2>4 DEF Found
  <2>6. {f} \subseteq Subtree[f]
    BY SubtreeIsClosed
  <2>7. Sound(w, t)
    BY <2>1, <2>2, <2>5, <2>6 DEF Sound
  <2>8. \A low : AtLeast(t, low)
    BY <2>1, <2>2, <2>5 DEF AtLeast
  <2> QED
    BY <2>1, <2>7, <2>8
<1> HIDE DEF r, s, q
<1>6. CASE serial
  BY <1>2, <1>3, <1>5, <1>6, Replaced
<1>7. CASE ~serial
  <2>1. walk' = [walk EXCEPT ![w] = Looked(w, s)]
    BY <1>2, <1>7
  <2>2. /\ Looked(w, s).root = f /\ Looked(w, s).at # "none" /\ Sound(w, Looked(w, s))
        /\ \A low : AtLeast(Looked(w, s), low)
    BY <1>1, <1>5, LookIsAStep
  <2> QED
    BY <1>4, <2>1, <2>2, Replaced
<1> QED
  BY <1>6, <1>7

----
(* What every pass, every tab and every row of the cache is.               *)

RowRecords == [folder : Dirs, parts : Totals]
PassRecords ==
    [at : {"none", "idling", "sweep", "next", "walking", "storing", "stored", "ended"},
     tab : Tabs \cup {NoTab}, gen : Nat, force : BOOLEAN, seeds : SUBSET Dirs,
     mtimes : Totals, misses : SUBSET Dirs, ready : SUBSET RowRecords,
     folder : Dirs \cup {NoDir}, channel : Seq(SUBSET RowRecords), heard : BOOLEAN,
     overtaken : BOOLEAN]
Shows == UNION {[F -> Totals] : F \in SUBSET Dirs}
TabRecords ==
    [open : BOOLEAN, dir : Dirs, gen : Nat, pass : Passes \cup {0}, forced : BOOLEAN,
     mtimes : Totals, since : [Dirs -> Nat],
     shown : Shows]

NewerThan(parts, low) == \A d \in DOMAIN parts : parts[d] >= low[d]
Whole(f, parts) == DOMAIN parts = Subtree[f]

\* The rows a pass has and has not handed over, and the folders it has to do with.
Rows(r) == r.ready \cup UNION {r.channel[i] : i \in DOMAIN r.channel}
OnAWalk(r) == r.at \in {"walking", "storing"}
Folders(r) == r.seeds \cup r.misses \cup {row.folder : row \in Rows(r)}
              \cup {f \in Dirs : OnAWalk(r) /\ f = r.folder}

\* A pass of the listing tab t shows: after a Refresh, all it brings has been
\* read since.
OfListing(r, v, t) ==
    /\ Folders(r) \subseteq Children[t.dir]
    /\ t.forced =>
          /\ r.at = "ended" \/ r.force
          /\ \A row \in Rows(r) : NewerThan(row.parts, t.since)
          /\ OnAWalk(r) => AtLeast(v, t.since)

\* The pass r with the walk v.
PassFine(r, v, tb, low) ==
    /\ r.tab \in Tabs => /\ r.gen <= tb[r.tab].gen
                         /\ r.gen = tb[r.tab].gen => OfListing(r, v, tb[r.tab])
    /\ r.heard \/ r.at = "idling" => r.tab \in Tabs
    /\ Len(r.channel) <= ChannelBatches
    /\ \A row \in Rows(r) : Whole(row.folder, row.parts)
    /\ OnAWalk(r) => /\ r.folder \in Dirs /\ v.at # "none" /\ v.root = r.folder
                     /\ ~r.overtaken => AtLeast(v, low)
    /\ r.at = "storing" => v.at = "returned" /\ Whole(r.folder, v.total)

TabFine(t) ==
    /\ \A d \in Dirs : t.since[d] <= version[d]
    /\ \A f \in DOMAIN t.shown :
          /\ f \in Children[t.dir] /\ Whole(f, t.shown[f])
          /\ t.forced => NewerThan(t.shown[f], t.since)

RowFine(f, row, low) ==
    row.known => /\ row.parts \in Totals /\ Whole(f, row.parts)
                 /\ ~row.overtaken => NewerThan(row.parts, low)

Shapes ==
    /\ mtime \in [Dirs -> Nat] /\ settled \in [Dirs -> Nat]
    /\ \A d \in Dirs : settled[d] <= version[d]
    /\ cancelled \subseteq Passes /\ tasks \subseteq Passes /\ reports \subseteq Dirs
    /\ tab \in [Tabs -> TabRecords] /\ pass \in [Passes -> PassRecords]
    /\ cache = [f \in Dirs |-> cache[f]]

SizeInv ==
    /\ WalkInv /\ Shapes
    /\ \A p \in Passes : Sound(p, walk[p]) /\ PassFine(pass[p], walk[p], tab, settled)
    /\ \A t \in Tabs : TabFine(tab[t])
    /\ \A f \in Dirs : RowFine(f, cache[f], settled)

LEMMA NothingReadIsTotal == Read \in Totals
<1>1. Read \in [{} -> Nat] /\ {} \in SUBSET Dirs
  BY DEF Read
<1> QED
  BY <1>1 DEF Totals

----
(* Passes of which less is left, and tabs that change under a pass.        *)

\* A pass that gives up, hands over or ends.
LEMMA Lesser ==
    ASSUME NEW r, NEW v, NEW tb, NEW low, PassFine(r, v, tb, low),
           NEW s, NEW u, s.tab = r.tab, s.gen = r.gen,
           Rows(s) \subseteq Rows(r), Folders(s) \subseteq Folders(r),
           Len(s.channel) <= ChannelBatches, ~OnAWalk(s), s.at # "idling",
           s.heard => r.heard, s.at = "ended" \/ (s.force = r.force /\ r.at # "ended")
    PROVE  PassFine(s, u, tb, low)
<1>1. s.at # "storing"
  BY DEF OnAWalk
<1>2. ASSUME s.tab \in Tabs, s.gen = tb[s.tab].gen
      PROVE  OfListing(s, u, tb[s.tab])
  BY <1>2 DEF PassFine, OfListing
<1> QED
  BY <1>1, <1>2 DEF PassFine

\* The tab turns to another listing, or stays and asks for no more.
LEMMA TabTurns ==
    ASSUME NEW r, NEW v, NEW tb \in [Tabs -> TabRecords], NEW low, PassFine(r, v, tb, low),
           r.gen \in Nat, NEW t \in Tabs, NEW x \in TabRecords,
           \/ x.gen > tb[t].gen
           \/ /\ x.gen = tb[t].gen /\ x.dir = tb[t].dir
              /\ x.forced => tb[t].forced /\ x.since = tb[t].since
    PROVE  PassFine(r, v, [tb EXCEPT ![t] = x], low)
<1> DEFINE tc == [tb EXCEPT ![t] = x]
<1>1. tc[t] = x /\ \A q \in Tabs : q # t => tc[q] = tb[q]
  OBVIOUS
<1>2. tb[t].gen \in Nat /\ x.gen \in Nat
  BY DEF TabRecords
<1>3. CASE r.tab = t
  <2>1. r.gen <= x.gen /\ r.gen <= tb[t].gen
    BY <1>2, <1>3 DEF PassFine
  <2>2. ASSUME r.gen = x.gen
        PROVE  OfListing(r, v, x)
    <3>1. /\ x.gen = tb[t].gen /\ x.dir = tb[t].dir
          /\ x.forced => tb[t].forced /\ x.since = tb[t].since
      BY <1>2, <2>1, <2>2
    <3>2. OfListing(r, v, tb[t])
      BY <1>3, <2>2, <3>1 DEF PassFine
    <3> QED
      BY <3>1, <3>2 DEF OfListing
  <2> QED
    BY <1>1, <1>3, <2>1, <2>2 DEF PassFine
<1>4. CASE r.tab # t
  BY <1>1, <1>4 DEF PassFine
<1> QED
  BY <1>3, <1>4

----
(* The steps of a pass.                                                    *)

LEMMA TheOthersKeepOn ==
    ASSUME SizeInv, WorkerOnly, NEW p \in Passes, NEW r \in PassRecords, NEW v,
           pass' = [pass EXCEPT ![p] = r], walk' = [walk EXCEPT ![p] = v], WalkInv',
           Sound(p, v), PassFine(r, v, tab, settled), tasks' \subseteq Passes,
           cache' = [f \in Dirs |-> cache'[f]],
           \A f \in Dirs : RowFine(f, cache'[f], settled)
    PROVE  SizeInv'
<1>1. UNCHANGED <<version, mtime, reports, settled, tab, cancelled>>
  BY DEF WorkerOnly, Disk
<1>2. pass'[p] = r /\ \A q \in Passes : q # p => pass'[q] = pass[q]
  BY DEF SizeInv, Shapes
<1>3. walk'[p] = v /\ \A q \in Passes : q # p => walk'[q] = walk[q]
  BY DEF SizeInv, WalkInv, Passes
<1>4. Shapes'
  <2>1. pass' \in [Passes -> PassRecords]
    BY DEF SizeInv, Shapes
  <2> QED
    BY <1>1, <2>1 DEF SizeInv, Shapes
<1>5. ASSUME NEW q \in Passes
      PROVE  Sound(q, walk[q])' /\ PassFine(pass[q], walk[q], tab, settled)'
  <2>1. PassFine(pass'[q], walk'[q], tab, settled)
    BY <1>2, <1>3 DEF SizeInv
  <2>2. Sound(q, walk'[q])
    BY <1>3 DEF SizeInv
  <2> QED
    BY <1>1, <2>1, <2>2 DEF Sound
<1>6. \A t \in Tabs : TabFine(tab[t])'
  BY <1>1 DEF SizeInv, TabFine
<1>7. \A f \in Dirs : RowFine(f, cache[f], settled)'
  BY <1>1
<1> QED
  BY <1>4, <1>5, <1>6, <1>7 DEF SizeInv

\* A step that leaves the walk and the cache alone.
LEMMA PassMoves ==
    ASSUME SizeInv, WorkerOnly, UNCHANGED <<walk, cache>>, NEW p \in Passes,
           NEW r \in PassRecords, pass' = [pass EXCEPT ![p] = r],
           PassFine(r, walk[p], tab, settled), tasks' \subseteq Passes
    PROVE  SizeInv'
<1>1. walk' = [walk EXCEPT ![p] = walk[p]]
  BY DEF SizeInv, WalkInv, Passes
<1>2. WalkInv'
  BY Kept DEF SizeInv, WalkInv, WorkerOnly, Disk
<1>3. Sound(p, walk[p])
  BY DEF SizeInv
<1>4. /\ cache' = [f \in Dirs |-> cache'[f]]
      /\ \A f \in Dirs : RowFine(f, cache'[f], settled)
  BY DEF SizeInv, Shapes
<1> QED
  BY <1>1, <1>2, <1>3, <1>4, TheOthersKeepOn

LEMMA OverIsFine ==
    ASSUME NEW r \in PassRecords, NEW v, NEW tb, NEW low, PassFine(r, v, tb, low), NEW u
    PROVE  Over(r) \in PassRecords /\ PassFine(Over(r), u, tb, low)
<1> DEFINE s == Over(r)
<1>1. s \in PassRecords
  BY NothingReadIsTotal DEF Over, NoPass, PassRecords
<1>2. /\ s.at = "ended" /\ s.tab = r.tab /\ s.gen = r.gen /\ s.channel = r.channel
      /\ s.heard = r.heard /\ s.seeds = {} /\ s.misses = {} /\ s.ready = {}
  BY DEF Over, NoPass
<1> HIDE DEF s
<1>3. Rows(s) \subseteq Rows(r)
  BY <1>2 DEF Rows
<1>4. ~OnAWalk(s) /\ Folders(s) \subseteq Folders(r)
  BY <1>2, <1>3 DEF Folders, OnAWalk
<1>5. Len(s.channel) <= ChannelBatches
  BY <1>2 DEF PassFine
<1> QED
  BY <1>1, <1>2, <1>3, <1>4, <1>5, Lesser DEF s

LEMMA EndsFine ==
    ASSUME SizeInv, WorkerOnly, UNCHANGED <<walk, cache, tasks>>, NEW p \in Passes, Ends(p)
    PROVE  SizeInv'
<1>1. pass[p] \in PassRecords /\ PassFine(pass[p], walk[p], tab, settled)
  BY DEF SizeInv, Shapes
<1>2. Over(pass[p]) \in PassRecords /\ PassFine(Over(pass[p]), walk[p], tab, settled)
  BY <1>1, OverIsFine
<1>3. pass' = [pass EXCEPT ![p] = Over(pass[p])]
  BY DEF Ends
<1>4. tasks' \subseteq Passes
  BY DEF SizeInv, Shapes
<1> QED
  BY <1>2, <1>3, <1>4, PassMoves

LEMMA BegunIsFine ==
    ASSUME NEW r \in PassRecords, NEW v, NEW tb \in [Tabs -> TabRecords], NEW low,
           PassFine(r, v, tb, low), r.tab \in Tabs, r.at = "idling",
           r.gen = tb[r.tab].gen
    PROVE  LET s == Begun(r, tb[r.tab])
           IN s \in PassRecords /\ PassFine(s, v, tb, low)
<1> DEFINE t == tb[r.tab]
           s == [r EXCEPT !.at = "sweep", !.seeds = Children[t.dir], !.mtimes = t.mtimes,
                          !.heard = TRUE]
<1>1. CASE Children[t.dir] = {}
  <2>1. Begun(r, t) = Over(r)
    BY <1>1 DEF Begun
  <2> QED
    BY <2>1, OverIsFine
<1>2. CASE Children[t.dir] # {}
  <2>1. Begun(r, t) = s
    BY <1>2 DEF Begun
  <2>2. t \in TabRecords /\ t.dir \in Dirs /\ Children[t.dir] \subseteq Dirs /\ t.mtimes \in Totals
    BY TreeAssumption DEF TabRecords
  <2>3. s \in PassRecords
    BY <2>2 DEF PassRecords
  <2>4. /\ s.at = "sweep" /\ s.seeds = Children[t.dir] /\ s.tab = r.tab /\ s.gen = r.gen
        /\ s.force = r.force /\ s.misses = r.misses /\ s.ready = r.ready
        /\ s.channel = r.channel
    BY DEF PassRecords
  <2> HIDE DEF s
  <2>5. Rows(s) = Rows(r) /\ ~OnAWalk(s)
    BY <2>4 DEF Rows, OnAWalk
  <2>6. Folders(s) \subseteq Folders(r) \cup Children[t.dir]
    BY <2>4, <2>5 DEF Folders
  <2>7. OfListing(r, v, t)
    BY DEF PassFine
  <2>8. OfListing(s, v, t)
    BY <2>4, <2>5, <2>6, <2>7 DEF OfListing
  <2>9. PassFine(s, v, tb, low)
    BY <2>4, <2>5, <2>8 DEF PassFine, OnAWalk
  <2> QED
    BY <2>1, <2>3, <2>9
<1> QED
  BY <1>1, <1>2

LEMMA StartIsFine == ASSUME SizeInv, NEW p \in Passes, GiveUp(p) \/ Start(p) PROVE SizeInv'
<1>1. /\ pass[p] \in PassRecords /\ PassFine(pass[p], walk[p], tab, settled)
      /\ tab \in [Tabs -> TabRecords] /\ tasks \subseteq Passes
  BY DEF SizeInv, Shapes
<1>2. CASE GiveUp(p)
  BY <1>2, EndsFine DEF GiveUp
<1>3. CASE Start(p)
  <2> DEFINE r == pass[p]
             s == Begun(r, tab[r.tab])
  <2>1. /\ r.at = "idling" /\ r.gen = tab[r.tab].gen /\ r.tab \in Tabs
        /\ pass' = [pass EXCEPT ![p] = s] /\ tasks' = TasksWith(p, pass'[p])
        /\ WorkerOnly /\ UNCHANGED <<walk, cache>>
    BY <1>1, <1>3 DEF Start, Fresh, PassFine
  <2>2. s \in PassRecords /\ PassFine(s, walk[p], tab, settled)
    BY <1>1, <2>1, BegunIsFine
  <2>3. tasks' \subseteq Passes
    BY <1>1, <2>1 DEF TasksWith
  <2> QED
    BY <2>1, <2>2, <2>3, PassMoves
<1> QED
  BY <1>2, <1>3

LEMMA SweepIsFine == ASSUME SizeInv, NEW p \in Passes, Sweep(p) PROVE SizeInv'
<1> DEFINE r == pass[p]
<1>1. /\ r \in PassRecords /\ PassFine(r, walk[p], tab, settled) /\ r.at = "sweep"
      /\ tab \in [Tabs -> TabRecords] /\ tasks' \subseteq Passes
      /\ WorkerOnly /\ UNCHANGED <<walk, cache, tasks>>
  BY DEF SizeInv, Shapes, Sweep
<1>2. PICK f \in r.seeds :
          \/ /\ Hit(p, f)
             /\ pass' = [pass EXCEPT ![p].seeds = @ \ {f},
                                     ![p].ready = @ \cup {Row(f, cache[f].parts)}]
          \/ pass' = [pass EXCEPT ![p].seeds = @ \ {f}, ![p].misses = @ \cup {f}]
  BY DEF Sweep
<1>3. f \in Dirs
  BY <1>1 DEF PassRecords
<1>4. CASE /\ Hit(p, f)
           /\ pass' = [pass EXCEPT ![p].seeds = @ \ {f},
                                   ![p].ready = @ \cup {Row(f, cache[f].parts)}]
  <2> DEFINE row == Row(f, cache[f].parts)
             s == [r EXCEPT !.seeds = @ \ {f}, !.ready = @ \cup {row}]
  <2>1. pass' = [pass EXCEPT ![p] = s]
    BY <1>4 DEF SizeInv, Shapes
  <2>2. cache[f].parts \in Totals /\ Whole(f, cache[f].parts) /\ ~r.force
    BY <1>3, <1>4 DEF Hit, SizeInv, RowFine
  <2>3. row \in RowRecords /\ row.folder = f /\ row.parts = cache[f].parts
    BY <1>3, <2>2 DEF Row, RowRecords
  <2> HIDE DEF row
  <2>4. s \in PassRecords
    BY <1>1, <2>3 DEF PassRecords
  <2>5. /\ s.at = "sweep" /\ s.seeds = r.seeds \ {f} /\ s.ready = r.ready \cup {row}
        /\ s.tab = r.tab /\ s.gen = r.gen /\ s.force = r.force /\ s.misses = r.misses
        /\ s.channel = r.channel /\ s.heard = r.heard
    BY <1>1 DEF PassRecords
  <2> HIDE DEF s
  <2>6. Rows(s) = Rows(r) \cup {row} /\ ~OnAWalk(s)
    BY <2>5 DEF Rows, OnAWalk
  <2>7. Folders(s) \subseteq Folders(r)
    BY <1>2, <2>3, <2>5, <2>6 DEF Folders
  <2>8. ASSUME r.tab \in Tabs, OfListing(r, walk[p], tab[r.tab])
        PROVE  OfListing(s, walk[p], tab[r.tab])
    BY <1>1, <2>2, <2>5, <2>7, <2>8 DEF OfListing
  <2>9. PassFine(s, walk[p], tab, settled)
    BY <1>1, <2>2, <2>3, <2>5, <2>6, <2>8 DEF PassFine, OnAWalk
  <2> QED
    BY <1>1, <2>1, <2>4, <2>9, PassMoves
<1>5. CASE pass' = [pass EXCEPT ![p].seeds = @ \ {f}, ![p].misses = @ \cup {f}]
  <2> DEFINE s == [r EXCEPT !.seeds = @ \ {f}, !.misses = @ \cup {f}]
  <2>1. pass' = [pass EXCEPT ![p] = s]
    BY <1>5 DEF SizeInv, Shapes
  <2>2. s \in PassRecords
    BY <1>1, <1>3 DEF PassRecords
  <2>3. /\ s.at = "sweep" /\ s.seeds = r.seeds \ {f} /\ s.ready = r.ready
        /\ s.tab = r.tab /\ s.gen = r.gen /\ s.force = r.force
        /\ s.misses = r.misses \cup {f} /\ s.channel = r.channel /\ s.heard = r.heard
    BY <1>1 DEF PassRecords
  <2> HIDE DEF s
  <2>4. Rows(s) = Rows(r) /\ ~OnAWalk(s)
    BY <2>3 DEF Rows, OnAWalk
  <2>5. Folders(s) \subseteq Folders(r)
    BY <1>2, <2>3, <2>4 DEF Folders
  <2>6. Len(s.channel) <= ChannelBatches
    BY <1>1, <2>3 DEF PassFine
  <2>7. PassFine(s, walk[p], tab, settled)
    BY <1>1, <2>3, <2>4, <2>5, <2>6, Lesser
  <2> QED
    BY <1>1, <2>1, <2>2, <2>7, PassMoves
<1> QED
  BY <1>2, <1>4, <1>5

\* The rows that are ready go into the channel, and the pass on to at.
LEMMA SentIsFine ==
    ASSUME SizeInv, WorkerOnly, UNCHANGED <<walk, cache, tasks>>, NEW p \in Passes,
           NEW at \in {"sweep", "next", "ended"}, pass[p].at \in {"sweep", "next", "stored"},
           Sent(p, at)
    PROVE  SizeInv'
<1> DEFINE r == pass[p]
           s == [r EXCEPT !.at = at, !.ready = {}, !.channel = Append(@, r.ready)]
<1>1. /\ r \in PassRecords /\ PassFine(r, walk[p], tab, settled)
      /\ tab \in [Tabs -> TabRecords] /\ tasks' \subseteq Passes
  BY DEF SizeInv, Shapes
<1>2. CASE Ends(p)
  BY <1>2, EndsFine
<1>3. CASE /\ Len(r.channel) < ChannelBatches
           /\ pass' = [pass EXCEPT ![p] = IF at = "ended" THEN Over(s) ELSE s]
  <2>0. r.channel \in Seq(SUBSET RowRecords) /\ r.ready \in SUBSET RowRecords
    BY <1>1 DEF PassRecords
  <2>1. s \in PassRecords
    <3>1. Append(r.channel, r.ready) \in Seq(SUBSET RowRecords)
      BY <2>0
    <3> QED
      BY <1>1, <3>1 DEF PassRecords
  <2>2. /\ s.at = at /\ s.seeds = r.seeds /\ s.ready = {}
        /\ s.tab = r.tab /\ s.gen = r.gen /\ s.force = r.force /\ s.misses = r.misses
        /\ s.channel = Append(r.channel, r.ready) /\ s.heard = r.heard
    BY <1>1 DEF PassRecords
  <2> HIDE DEF s
  <2>4. /\ Len(s.channel) = Len(r.channel) + 1
        /\ \A i \in DOMAIN s.channel : \/ i \in DOMAIN r.channel /\ s.channel[i] = r.channel[i]
                                       \/ s.channel[i] = r.ready
    BY <2>0, <2>2
  <2>5. Rows(s) \subseteq Rows(r) /\ ~OnAWalk(s)
    BY <2>2, <2>4 DEF Rows, OnAWalk
  <2>6. Folders(s) \subseteq Folders(r)
    BY <2>2, <2>5 DEF Folders
  <2>7. Len(s.channel) <= ChannelBatches
    BY <1>3, <2>0, <2>4, PassesAssumption
  <2>8. PassFine(s, walk[p], tab, settled)
    BY <1>1, <2>2, <2>5, <2>6, <2>7, Lesser
  <2>9. CASE at = "ended"
    BY <1>1, <1>3, <2>1, <2>8, <2>9, OverIsFine, PassMoves
  <2>10. CASE at # "ended"
    BY <1>1, <1>3, <2>1, <2>8, <2>10, PassMoves
  <2> QED
    BY <2>9, <2>10
<1> QED
  BY <1>2, <1>3 DEF Sent

\* The pass goes on to at with what it has.
LEMMA GoesFine ==
    ASSUME SizeInv, WorkerOnly, UNCHANGED <<walk, cache, tasks>>, NEW p \in Passes,
           pass[p].at \in {"sweep", "stored"}, Goes(p, "next")
    PROVE  SizeInv'
<1> DEFINE r == pass[p]
           s == [r EXCEPT !.at = "next"]
<1>1. /\ r \in PassRecords /\ PassFine(r, walk[p], tab, settled) /\ tasks' \subseteq Passes
  BY DEF SizeInv, Shapes
<1>2. pass' = [pass EXCEPT ![p] = s]
  BY DEF Goes, SizeInv, Shapes
<1>3. s \in PassRecords
  BY <1>1 DEF PassRecords
<1>4. /\ s.at = "next" /\ s.seeds = r.seeds /\ s.ready = r.ready /\ s.tab = r.tab
      /\ s.gen = r.gen /\ s.force = r.force /\ s.misses = r.misses
      /\ s.channel = r.channel /\ s.heard = r.heard
  BY <1>1 DEF PassRecords
<1> HIDE DEF s
<1>5. Rows(s) = Rows(r) /\ ~OnAWalk(s)
  BY <1>4 DEF Rows, OnAWalk
<1>6. Folders(s) \subseteq Folders(r) /\ Len(s.channel) <= ChannelBatches
  BY <1>1, <1>4, <1>5 DEF Folders, PassFine
<1>7. PassFine(s, walk[p], tab, settled)
  BY <1>1, <1>4, <1>5, <1>6, Lesser
<1> QED
  BY <1>1, <1>2, <1>3, <1>7, PassMoves

LEMMA HandingOverIsFine ==
    ASSUME SizeInv, NEW p \in Passes,
           SendHits(p) \/ Abandon(p) \/ AfterStore(p) \/ LastRows(p)
    PROVE  SizeInv'
<1>1. CASE SendHits(p)
  BY <1>1, SentIsFine, GoesFine DEF SendHits
<1>2. CASE Abandon(p)
  BY <1>2, EndsFine DEF Abandon
<1>3. CASE AfterStore(p)
  BY <1>3, SentIsFine, GoesFine DEF AfterStore
<1>4. CASE LastRows(p)
  BY <1>4, SentIsFine, EndsFine DEF LastRows
<1> QED
  BY <1>1, <1>2, <1>3, <1>4

LEMMA WalkNextIsFine == ASSUME SizeInv, NEW p \in Passes, WalkNext(p) PROVE SizeInv'
<1> DEFINE r == pass[p]
<1>1. /\ r \in PassRecords /\ PassFine(r, walk[p], tab, settled) /\ r.at = "next"
      /\ tab \in [Tabs -> TabRecords] /\ settled \in [Dirs -> Nat] /\ tasks' \subseteq Passes
      /\ WorkerOnly /\ UNCHANGED <<version, cache, tasks>>
  BY DEF SizeInv, Shapes, WalkNext, WorkerOnly, Disk
<1>2. PICK f \in Dirs :
          /\ f \in r.misses
          /\ pass' = [pass EXCEPT ![p].at = "walking", ![p].folder = f, ![p].misses = @ \ {f},
                                  ![p].overtaken = FALSE]
          /\ Begins(p, f, p \notin Pooled)
  BY DEF WalkNext
<1> DEFINE s == [r EXCEPT !.at = "walking", !.folder = f, !.misses = @ \ {f}, !.overtaken = FALSE]
<1>3. pass' = [pass EXCEPT ![p] = s]
  BY <1>2 DEF SizeInv, Shapes
<1>4. s \in PassRecords
  BY <1>1 DEF PassRecords
<1>5. /\ s.at = "walking" /\ s.seeds = r.seeds /\ s.ready = r.ready /\ s.tab = r.tab
      /\ s.gen = r.gen /\ s.force = r.force /\ s.misses = r.misses \ {f}
      /\ s.channel = r.channel /\ s.heard = r.heard /\ s.folder = f /\ s.overtaken = FALSE
  BY <1>1 DEF PassRecords
<1> HIDE DEF s
<1>6. /\ WalkInv'
      /\ \E v : /\ walk' = [walk EXCEPT ![p] = v]
                /\ v.root = f /\ v.at # "none" /\ Sound(p, v)
                /\ \A low : AtLeast(v, low)
  <2>1. p \in Walks /\ (p \notin Pooled) \in BOOLEAN /\ WalkInv
    BY DEF Passes, SizeInv
  <2> QED
    BY <1>1, <1>2, <2>1, BeginStep
<1>7. PICK v : /\ walk' = [walk EXCEPT ![p] = v]
               /\ v.root = f /\ v.at # "none" /\ Sound(p, v)
               /\ \A low : AtLeast(v, low)
  BY <1>6
<1>8. Rows(s) = Rows(r) /\ OnAWalk(s)
  BY <1>5 DEF Rows, OnAWalk
<1>9. Folders(s) \subseteq Folders(r)
  BY <1>2, <1>5, <1>8 DEF Folders
<1>10. ASSUME r.tab \in Tabs, OfListing(r, walk[p], tab[r.tab])
       PROVE  OfListing(s, v, tab[r.tab])
  BY <1>1, <1>5, <1>7, <1>8, <1>9, <1>10 DEF OfListing
<1>11. PassFine(s, v, tab, settled)
  BY <1>1, <1>5, <1>7, <1>8, <1>10 DEF PassFine
<1>12. /\ cache' = [g \in Dirs |-> cache'[g]]
       /\ \A g \in Dirs : RowFine(g, cache'[g], settled)
  BY <1>1 DEF SizeInv, Shapes
<1> QED
  BY <1>1, <1>3, <1>4, <1>6, <1>7, <1>11, <1>12, TheOthersKeepOn

\* A walk that has returned and was not cancelled has read the whole subtree.
LEMMA ReturnedIsWhole ==
    ASSUME NEW w, NEW v, v.at = "returned", w \notin cancelled, Sound(w, v)
    PROVE  Whole(v.root, v.total)
<1>1. /\ v.root \in Dirs /\ Found(v) \subseteq Subtree[v.root] /\ Found(v) = DOMAIN v.total
      /\ v.root \in Found(v) /\ \A d \in DOMAIN v.total : Children[d] \subseteq Found(v)
  BY DEF Sound
<1>2. DOMAIN v.total \in SUBSET Dirs
  BY <1>1 DEF Found
<1>3. Subtree[v.root] \subseteq DOMAIN v.total
  BY <1>1, <1>2, SubtreeIsClosed
<1> QED
  BY <1>1, <1>3 DEF Whole

LEMMA WalkedIsFine == ASSUME SizeInv, NEW p \in Passes, Walked(p) PROVE SizeInv'
<1> DEFINE r == pass[p]
           s == [r EXCEPT !.at = "storing"]
<1>1. /\ r \in PassRecords /\ PassFine(r, walk[p], tab, settled) /\ r.at = "walking"
      /\ walk[p].at = "returned" /\ Sound(p, walk[p]) /\ tasks' \subseteq Passes
      /\ WorkerOnly /\ UNCHANGED <<version, cache, tasks>>
  BY DEF SizeInv, Shapes, Walked, WorkerOnly, Disk
<1>2. CASE p \in cancelled
  <2>1. pass' = [pass EXCEPT ![p] = Over(r)] /\ walk' = [walk EXCEPT ![p] = NoWalk]
    BY <1>2 DEF Walked, Ends
  <2>2. Over(r) \in PassRecords /\ PassFine(Over(r), NoWalk, tab, settled)
    BY <1>1, OverIsFine
  <2>3. WalkInv'
    BY <1>1, <2>1, NoWalkIsInOrder, Replaced DEF SizeInv, Passes
  <2>4. Sound(p, NoWalk)
    BY DEF Sound, NoWalk
  <2>5. /\ cache' = [g \in Dirs |-> cache'[g]]
        /\ \A g \in Dirs : RowFine(g, cache'[g], settled)
    BY <1>1 DEF SizeInv, Shapes
  <2> QED
    BY <1>1, <2>1, <2>2, <2>3, <2>4, <2>5, TheOthersKeepOn
<1>3. CASE p \notin cancelled
  <2>1. pass' = [pass EXCEPT ![p] = s] /\ UNCHANGED walk
    BY <1>3 DEF Walked, Goes, SizeInv, Shapes
  <2>2. s \in PassRecords
    BY <1>1 DEF PassRecords
  <2>3. /\ s.at = "storing" /\ s.seeds = r.seeds /\ s.ready = r.ready /\ s.tab = r.tab
        /\ s.gen = r.gen /\ s.force = r.force /\ s.misses = r.misses
        /\ s.channel = r.channel /\ s.heard = r.heard /\ s.folder = r.folder
        /\ s.overtaken = r.overtaken
    BY <1>1 DEF PassRecords
  <2> HIDE DEF s
  <2>4. Rows(s) = Rows(r) /\ OnAWalk(s) /\ OnAWalk(r)
    BY <1>1, <2>3 DEF Rows, OnAWalk
  <2>5. Folders(s) = Folders(r)
    BY <2>3, <2>4 DEF Folders
  <2>6. Whole(r.folder, walk[p].total)
    BY <1>1, <1>3, <2>4, ReturnedIsWhole DEF PassFine
  <2>7. ASSUME r.tab \in Tabs, OfListing(r, walk[p], tab[r.tab])
        PROVE  OfListing(s, walk[p], tab[r.tab])
    BY <1>1, <2>3, <2>4, <2>5, <2>7 DEF OfListing
  <2>8. PassFine(s, walk[p], tab, settled)
    BY <1>1, <2>3, <2>4, <2>6, <2>7 DEF PassFine
  <2> QED
    BY <1>1, <2>1, <2>2, <2>8, PassMoves
<1> QED
  BY <1>2, <1>3

LEMMA StoreIsFine == ASSUME SizeInv, NEW p \in Passes, Store(p) PROVE SizeInv'
<1> DEFINE r == pass[p]
           f == r.folder
           parts == walk[p].total
           row == Row(f, parts)
           entry == [mtime |-> r.mtimes[f], parts |-> parts, known |-> TRUE,
                     overtaken |-> r.overtaken]
           s == [r EXCEPT !.at = "stored", !.ready = @ \cup {row}]
<1>1. /\ r \in PassRecords /\ PassFine(r, walk[p], tab, settled) /\ r.at = "storing"
      /\ tab \in [Tabs -> TabRecords] /\ tasks' \subseteq Passes
      /\ WorkerOnly /\ UNCHANGED <<version, tasks>>
  BY DEF SizeInv, Shapes, Store, WorkerOnly, Disk
<1>2. OnAWalk(r)
  BY <1>1 DEF OnAWalk
<1>3. /\ f \in Dirs /\ parts \in Totals /\ Whole(f, parts)
      /\ ~r.overtaken => NewerThan(parts, settled)
  BY <1>1, <1>2 DEF PassFine, AtLeast, NewerThan, SizeInv, WalkInv, WalkRecords, Passes
<1>4. /\ cache' = [cache EXCEPT ![f] = entry] /\ walk' = [walk EXCEPT ![p] = NoWalk]
      /\ pass' = [pass EXCEPT ![p] = s]
  BY DEF Store, SizeInv, Shapes
<1>5. row \in RowRecords /\ row.folder = f /\ row.parts = parts
  BY <1>3 DEF Row, RowRecords
<1>6. entry.known /\ entry.parts = parts /\ entry.overtaken = r.overtaken
  OBVIOUS
<1> HIDE DEF row, entry
<1>7. s \in PassRecords
  BY <1>1, <1>5 DEF PassRecords
<1>8. /\ s.at = "stored" /\ s.seeds = r.seeds /\ s.ready = r.ready \cup {row}
      /\ s.tab = r.tab /\ s.gen = r.gen /\ s.force = r.force /\ s.misses = r.misses
      /\ s.channel = r.channel /\ s.heard = r.heard
  BY <1>1 DEF PassRecords
<1> HIDE DEF s
<1>9. Rows(s) = Rows(r) \cup {row} /\ ~OnAWalk(s)
  BY <1>8 DEF Rows, OnAWalk
<1>10. Folders(s) \subseteq Folders(r)
  BY <1>2, <1>3, <1>5, <1>8, <1>9 DEF Folders
<1>11. ASSUME r.tab \in Tabs, OfListing(r, walk[p], tab[r.tab])
       PROVE  OfListing(s, NoWalk, tab[r.tab])
  <2>1. tab[r.tab].forced => NewerThan(parts, tab[r.tab].since)
    BY <1>2, <1>11 DEF OfListing, AtLeast, NewerThan
  <2> QED
    BY <1>1, <1>5, <1>8, <1>9, <1>10, <1>11, <2>1 DEF OfListing
<1>12. PassFine(s, NoWalk, tab, settled)
  BY <1>1, <1>3, <1>5, <1>8, <1>9, <1>11 DEF PassFine
<1>13. /\ cache' = [g \in Dirs |-> cache'[g]]
       /\ \A g \in Dirs : cache'[g] = IF g = f THEN entry ELSE cache[g]
  BY <1>4 DEF SizeInv, Shapes
<1>14. \A g \in Dirs : RowFine(g, cache'[g], settled)
  BY <1>3, <1>6, <1>13 DEF SizeInv, RowFine
<1>15. Sound(p, NoWalk)
  BY DEF Sound, NoWalk
<1>16. WalkInv'
  BY <1>1, <1>4, NoWalkIsInOrder, Replaced DEF SizeInv, Passes
<1> QED
  BY <1>1, <1>4, <1>7, <1>12, <1>13, <1>14, <1>15, <1>16, TheOthersKeepOn

LEMMA WalkStepIsFine == ASSUME SizeInv, NEW p \in Passes, WalkSteps(p) PROVE SizeInv'
<1>1. /\ pass[p] \in PassRecords /\ PassFine(pass[p], walk[p], tab, settled)
      /\ tab \in [Tabs -> TabRecords] /\ settled \in [Dirs -> Nat]
      /\ \A d \in Dirs : settled[d] <= version[d]
      /\ tasks' \subseteq Passes /\ pass' = [pass EXCEPT ![p] = pass[p]]
      /\ WorkerOnly /\ UNCHANGED <<version, cache>>
  BY DEF SizeInv, Shapes, WalkSteps, WorkerOnly, Disk, Cache
<1>2. WalkInv' /\ \E v : walk' = [walk EXCEPT ![p] = v] /\ Step(p, walk[p], v)
  <2>1. p \in Walks /\ WalkInv
    BY DEF Passes, SizeInv
  <2> QED
    BY <1>1, <2>1, CoordinatorStep, WorkerStep DEF WalkSteps
<1>3. PICK v : walk' = [walk EXCEPT ![p] = v] /\ Step(p, walk[p], v)
  BY <1>2
<1>4. Sound(p, v) /\ walk[p].at # "returned" /\ v.at # "none" /\ v.root = walk[p].root
  BY <1>3 DEF Step, SizeInv
<1>5. ASSUME NEW t \in Tabs
      PROVE  AtLeast(walk[p], tab[t].since) => AtLeast(v, tab[t].since)
  BY <1>1, <1>3 DEF Step, SizeInv, TabFine, TabRecords
<1>6. AtLeast(walk[p], settled) => AtLeast(v, settled)
  BY <1>1, <1>3 DEF Step
<1>7. PassFine(pass[p], v, tab, settled)
  BY <1>1, <1>4, <1>5, <1>6 DEF PassFine, OfListing
<1>8. /\ cache' = [g \in Dirs |-> cache'[g]]
      /\ \A g \in Dirs : RowFine(g, cache'[g], settled)
  BY <1>1 DEF SizeInv, Shapes
<1> QED
  BY <1>1, <1>2, <1>3, <1>4, <1>7, <1>8, TheOthersKeepOn

----
(* What reaches the program from outside.                                  *)

LEMMA ChangeIsFine == ASSUME SizeInv, NEW d \in Dirs, Change(d) PROVE SizeInv'
<1>1. /\ version' = [version EXCEPT ![d] = @ + 1] /\ reports' = reports \cup {d}
      /\ mtime' \in {mtime, [mtime EXCEPT ![d] = @ + 1]}
      /\ UNCHANGED <<walk, cancelled, cache, settled, tab, pass, tasks>>
  BY DEF Change
<1>2. /\ version \in [Dirs -> Nat] /\ mtime \in [Dirs -> Nat] /\ settled \in [Dirs -> Nat]
      /\ \A e \in Dirs : settled[e] <= version[e]
  BY DEF SizeInv, Shapes, WalkInv
<1>3. version' \in [Dirs -> Nat] /\ \A e \in Dirs : version[e] <= version'[e]
  BY <1>1, <1>2
<1>4. WalkInv'
  BY <1>1, <1>3, Kept DEF SizeInv
<1>5. Shapes'
  <2>1. mtime' \in [Dirs -> Nat] /\ \A e \in Dirs : settled[e] <= version'[e]
    BY <1>1, <1>2, <1>3
  <2> QED
    BY <1>1, <2>1 DEF SizeInv, Shapes
<1>6. \A p \in Passes : Sound(p, walk[p])' /\ PassFine(pass[p], walk[p], tab, settled)'
  BY <1>1 DEF SizeInv, Sound
<1>7. ASSUME NEW t \in Tabs
      PROVE  TabFine(tab[t])'
  <2>1. tab[t].since \in [Dirs -> Nat] /\ TabFine(tab[t])
    BY DEF SizeInv, Shapes, TabRecords
  <2>2. \A e \in Dirs : tab[t].since[e] <= version'[e]
    BY <1>2, <1>3, <2>1 DEF TabFine
  <2> QED
    BY <1>1, <2>1, <2>2 DEF TabFine
<1>8. \A f \in Dirs : RowFine(f, cache[f], settled)'
  BY <1>1 DEF SizeInv
<1> QED
  BY <1>4, <1>5, <1>6, <1>7, <1>8 DEF SizeInv

\* A walk of a folder that is not above d has not met d.
LEMMA NeverMet ==
    ASSUME NEW w, NEW v \in WalkRecords, PoolOK(v), Sound(w, v), v.at # "none",
           NEW d \in Dirs, d \notin Subtree[v.root]
    PROVE  /\ d \notin DOMAIN v.total
           /\ \A i \in DOMAIN v.events : v.events[i].kind = "Batch" => v.events[i].dir # d
<1>1. d \notin Found(v)
  BY DEF Sound
<1>2. d \notin DOMAIN v.total /\ \A i \in DOMAIN v.events : ~Brings(v, i, d)
  BY <1>1 DEF Found, Ahead
<1> QED
  BY <1>2 DEF Brings

LEMMA InvalidateIsFine == ASSUME SizeInv, NEW d \in Dirs, Invalidate(d) PROVE SizeInv'
<1>1. /\ reports' = reports \ {d} /\ settled' = [settled EXCEPT ![d] = version[d]]
      /\ cache' = [f \in Dirs |-> IF f \in Above(d) THEN NoRow ELSE cache[f]]
      /\ pass' = [p \in Passes |-> IF Walking(p) /\ pass[p].folder \in Above(d)
                                   THEN [pass[p] EXCEPT !.overtaken = TRUE] ELSE pass[p]]
      /\ UNCHANGED <<version, mtime, walk, cancelled, tab, tasks>>
  BY DEF Invalidate, StaleRows, Disk
<1>2. /\ version \in [Dirs -> Nat] /\ settled \in [Dirs -> Nat]
      /\ \A e \in Dirs : settled[e] <= version[e]
      /\ pass \in [Passes -> PassRecords] /\ walk \in [Passes -> WalkRecords]
  BY DEF SizeInv, Shapes, WalkInv, Passes
<1>3. WalkInv'
  BY <1>1, <1>2, Kept DEF SizeInv
<1>4. \A e \in Dirs : settled'[e] = IF e = d THEN version[d] ELSE settled[e]
  BY <1>1, <1>2
<1>5. Shapes'
  <2>1. settled' \in [Dirs -> Nat] /\ \A e \in Dirs : settled'[e] <= version'[e]
    BY <1>1, <1>2, <1>4
  <2>2. \A p \in Passes : [pass[p] EXCEPT !.overtaken = TRUE] \in PassRecords
    BY ZenonT(60), <1>2 DEF PassRecords
  <2>3. pass' \in [Passes -> PassRecords]
    BY <1>1, <1>2, <2>2
  <2> QED
    BY <1>1, <2>1, <2>3 DEF SizeInv, Shapes
<1>6. ASSUME NEW p \in Passes
      PROVE  PassFine(pass[p], walk[p], tab, settled)'
  <2> DEFINE r == pass[p]
             v == walk[p]
  <2>1. r \in PassRecords /\ PassFine(r, v, tab, settled) /\ Sound(p, v) /\ v \in WalkRecords
        /\ PoolOK(v)
    BY <1>2 DEF SizeInv, WalkInv, Passes
  <2>2. CASE Walking(p) /\ r.folder \in Above(d)
    <3> DEFINE s == [r EXCEPT !.overtaken = TRUE]
    <3>1. pass'[p] = s
      BY <1>1, <2>2
    <3>2. /\ s.at = r.at /\ s.seeds = r.seeds /\ s.ready = r.ready /\ s.tab = r.tab
          /\ s.gen = r.gen /\ s.force = r.force /\ s.misses = r.misses
          /\ s.channel = r.channel /\ s.heard = r.heard /\ s.folder = r.folder
          /\ s.overtaken = TRUE
      BY <2>1 DEF PassRecords
    <3> HIDE DEF s
    <3>3. Rows(s) = Rows(r) /\ OnAWalk(s) = OnAWalk(r)
      BY <3>2 DEF Rows, OnAWalk
    <3>4. Folders(s) = Folders(r)
      BY <3>2, <3>3 DEF Folders
    <3>5. PassFine(s, v, tab, settled')
      BY <2>1, <3>2, <3>3, <3>4 DEF PassFine, OfListing
    <3> QED
      BY <1>1, <3>1, <3>5
  <2>3. CASE ~(Walking(p) /\ r.folder \in Above(d))
    <3>1. pass'[p] = r
      BY <1>1, <2>3
    <3>2. ASSUME OnAWalk(r), AtLeast(v, settled)
          PROVE  AtLeast(v, settled')
      <4>1. v.root = r.folder /\ r.folder \in Dirs /\ v.at # "none"
        BY <2>1, <3>2 DEF PassFine
      <4>2. d \notin Subtree[v.root]
        BY <2>3, <3>2, <4>1 DEF Walking, OnAWalk, Above
      <4>3. /\ d \notin DOMAIN v.total
            /\ \A i \in DOMAIN v.events : v.events[i].kind = "Batch" => v.events[i].dir # d
        BY <2>1, <4>1, <4>2, NeverMet
      <4>4. \A e : e # d => settled'[e] = settled[e]
        BY <1>1, <1>2
      <4> QED
        BY <3>2, <4>3, <4>4 DEF AtLeast
    <3>3. PassFine(r, v, tab, settled')
      BY <2>1, <3>2 DEF PassFine
    <3> QED
      BY <1>1, <3>1, <3>3
  <2> QED
    BY <2>2, <2>3
<1>7. \A p \in Passes : Sound(p, walk[p])'
  BY <1>1 DEF SizeInv, Sound
<1>8. \A t \in Tabs : TabFine(tab[t])'
  BY <1>1 DEF SizeInv, TabFine
<1>9. ASSUME NEW f \in Dirs
      PROVE  RowFine(f, cache[f], settled)'
  <2>1. CASE f \in Above(d)
    <3>1. cache'[f].known = FALSE
      BY <1>1, <2>1 DEF NoRow
    <3> QED
      BY <3>1 DEF RowFine
  <2>2. CASE f \notin Above(d)
    <3>1. cache'[f] = cache[f] /\ d \notin Subtree[f]
      BY <1>1, <2>2 DEF Above
    <3>2. RowFine(f, cache[f], settled)
      BY DEF SizeInv
    <3>3. \A e : e # d => settled'[e] = settled[e]
      BY <1>1, <1>2
    <3>4. RowFine(f, cache[f], settled')
      BY <3>1, <3>2, <3>3 DEF RowFine, Whole, NewerThan
    <3> QED
      BY <3>1, <3>4
  <2> QED
    BY <2>1, <2>2
<1> QED
  BY <1>3, <1>5, <1>6, <1>7, <1>8, <1>9 DEF SizeInv

\* The tabs, the flags and the channels change; no walk moves and nothing is
\* stored.
LEMMA NothingIsRead ==
    ASSUME SizeInv, UNCHANGED <<Disk, walk, Cache>>,
           cancelled \subseteq cancelled', cancelled' \subseteq Passes, tasks' \subseteq Passes,
           tab' \in [Tabs -> TabRecords], \A t \in Tabs : TabFine(tab'[t]),
           pass' \in [Passes -> PassRecords],
           \A p \in Passes : PassFine(pass'[p], walk[p], tab', settled)
    PROVE  SizeInv'
<1>1. UNCHANGED <<version, mtime, walk, cache, reports, settled>>
  BY DEF Disk, Cache
<1>2. WalkInv'
  BY <1>1, Kept DEF SizeInv, WalkInv
<1>3. Shapes'
  BY <1>1 DEF SizeInv, Shapes
<1>4. \A p \in Passes : Sound(p, walk[p])'
  BY <1>1 DEF SizeInv, Sound
<1>5. \A p \in Passes : PassFine(pass[p], walk[p], tab, settled)'
  BY <1>1
<1>6. \A t \in Tabs : TabFine(tab[t])'
  BY <1>1 DEF TabFine
<1>7. \A f \in Dirs : RowFine(f, cache[f], settled)'
  BY <1>1 DEF SizeInv
<1> QED
  BY <1>2, <1>3, <1>4, <1>5, <1>6, <1>7 DEF SizeInv

LEMMA NewPassIsFine ==
    ASSUME SizeInv, UNCHANGED <<Disk, walk, Cache>>, NEW t \in Tabs, NEW x \in TabRecords,
           NEW force \in BOOLEAN, NewPass(t, x, force), TabFine(x), x.forced => force,
           x.gen > tab[t].gen \/ (x.gen = tab[t].gen /\ x.dir = tab[t].dir /\ ~x.forced)
    PROVE  SizeInv'
<1> DEFINE new == [NoPass EXCEPT !.at = "idling", !.tab = t, !.gen = x.gen, !.force = force]
<1>1. PICK p \in Passes :
          /\ pass' = [pass EXCEPT ![p] = IF force THEN Begun(new, x) ELSE new]
          /\ tasks' = TasksWith(p, pass'[p])
          /\ tab' = [tab EXCEPT ![t] = [x EXCEPT !.pass = p]]
          /\ cancelled' = cancelled \cup PassOf(t)
  BY DEF NewPass
<1> DEFINE y == [x EXCEPT !.pass = p]
<1>2. /\ tab \in [Tabs -> TabRecords] /\ pass \in [Passes -> PassRecords]
      /\ tasks \subseteq Passes /\ cancelled \subseteq Passes
  BY DEF SizeInv, Shapes
<1>3. y \in TabRecords /\ y.gen = x.gen /\ y.dir = x.dir /\ y.forced = x.forced
      /\ y.mtimes = x.mtimes /\ y.since = x.since /\ y.shown = x.shown
  BY DEF TabRecords
<1> HIDE DEF y
<1>4. TabFine(y)
  BY <1>3 DEF TabFine
<1>5. tab' \in [Tabs -> TabRecords] /\ tab'[t] = y /\ \A u \in Tabs : u # t => tab'[u] = tab[u]
  BY <1>1, <1>2, <1>3 DEF y
<1>6. \A u \in Tabs : TabFine(tab'[u])
  BY <1>4, <1>5 DEF SizeInv
<1>7. ASSUME NEW q \in Passes
      PROVE  PassFine(pass[q], walk[q], tab', settled)
  <2>1. PassFine(pass[q], walk[q], tab, settled) /\ pass[q].gen \in Nat
    BY <1>2 DEF SizeInv, PassRecords
  <2>2. tab' = [tab EXCEPT ![t] = y]
    BY <1>1 DEF y
  <2> QED
    BY <1>2, <1>3, <2>1, <2>2, TabTurns
<1>8. new \in PassRecords
  <2>1. x.gen \in Nat /\ <<>> \in Seq(SUBSET RowRecords) /\ NoPass.channel = <<>>
    BY DEF TabRecords, NoPass
  <2> QED
    BY <2>1, NothingReadIsTotal DEF NoPass, PassRecords
<1>9. /\ new.at = "idling" /\ new.tab = t /\ new.gen = x.gen /\ new.force = force
      /\ new.seeds = {} /\ new.misses = {} /\ new.ready = {} /\ new.channel = <<>>
  BY DEF NoPass
<1> HIDE DEF new
<1>10. PassFine(new, walk[p], tab', settled)
  <2>1. Rows(new) = {} /\ ~OnAWalk(new)
    BY <1>9 DEF Rows, OnAWalk
  <2>2. Folders(new) = {}
    BY <1>9, <2>1 DEF Folders
  <2>3. OfListing(new, walk[p], y)
    BY <1>3, <1>9, <2>1, <2>2 DEF OfListing
  <2>4. new.gen <= y.gen /\ Len(new.channel) <= ChannelBatches
    BY <1>3, <1>9, PassesAssumption DEF TabRecords
  <2> QED
    BY <1>5, <1>9, <2>1, <2>3, <2>4 DEF PassFine, OnAWalk
<1>11. Begun(new, x) = Begun(new, tab'[new.tab])
  BY <1>3, <1>5, <1>9 DEF Begun
<1>12. Begun(new, x) \in PassRecords /\ PassFine(Begun(new, x), walk[p], tab', settled)
  <2>1. new.tab \in Tabs /\ new.gen = tab'[new.tab].gen
    BY <1>3, <1>5, <1>9
  <2> QED
    BY <1>5, <1>8, <1>9, <1>10, <1>11, <2>1, BegunIsFine
<1>13. /\ pass'[p] \in PassRecords /\ PassFine(pass'[p], walk[p], tab', settled)
       /\ pass' \in [Passes -> PassRecords]
       /\ \A q \in Passes : q # p => pass'[q] = pass[q]
  BY <1>1, <1>2, <1>8, <1>10, <1>12
<1>14. \A q \in Passes : PassFine(pass'[q], walk[q], tab', settled)
  BY <1>7, <1>13
<1>15. /\ cancelled \subseteq cancelled' /\ cancelled' \subseteq Passes /\ tasks' \subseteq Passes
  BY <1>1, <1>2 DEF PassOf, TasksWith
<1> QED
  BY <1>5, <1>6, <1>13, <1>14, <1>15, NothingIsRead

LEMMA SnapshotIsTotal ==
    ASSUME SizeInv, NEW F \in SUBSET Dirs
    PROVE  Snapshot(F) \in Totals
<1>1. Snapshot(F) \in [F -> Nat]
  BY DEF Snapshot, SizeInv, Shapes
<1> QED
  BY <1>1 DEF Totals

LEMMA NoRowsAreShown == NoRows \in Shows /\ DOMAIN NoRows = {}
<1>1. NoRows \in [{} -> Totals] /\ {} \in SUBSET Dirs
  BY DEF NoRows
<1> QED
  BY <1>1 DEF Shows

LEMMA LoadIsFine ==
    ASSUME SizeInv, NEW t \in Tabs, NEW d \in Dirs, NEW force \in BOOLEAN, Load(t, d, force)
    PROVE  SizeInv'
<1> DEFINE since == IF force THEN version ELSE Nothing
           x == [tab[t] EXCEPT !.dir = d, !.gen = @ + 1, !.forced = force,
                               !.mtimes = Snapshot(Children[d]), !.shown = NoRows,
                               !.since = since]
<1>1. NewPass(t, x, force) /\ UNCHANGED <<Disk, walk, Cache>>
  BY DEF Load
<1>2. tab[t] \in TabRecords /\ tab[t].gen \in Nat
  BY DEF SizeInv, Shapes, TabRecords
<1>3. Snapshot(Children[d]) \in Totals
  BY SnapshotIsTotal, TreeAssumption
<1>4. since \in [Dirs -> Nat] /\ \A e \in Dirs : since[e] <= version[e]
  <2>1. version \in [Dirs -> Nat]
    BY DEF SizeInv, WalkInv
  <2> QED
    BY <2>1 DEF Nothing
<1> HIDE DEF since
<1>5. x \in TabRecords
  <2>1. tab[t].gen + 1 \in Nat /\ NoRows \in Shows
    BY <1>2, NoRowsAreShown
  <2> QED
    BY ONLY <1>2, <1>3, <1>4, <2>1, d \in Dirs, force \in BOOLEAN DEF TabRecords
<1>6. x.gen = tab[t].gen + 1 /\ x.forced = force /\ x.since = since /\ x.shown = NoRows
  BY <1>2 DEF TabRecords
<1> HIDE DEF x
<1>7. TabFine(x)
  BY <1>4, <1>6, NoRowsAreShown DEF TabFine
<1>8. x.gen > tab[t].gen
  BY <1>2, <1>6
<1> QED
  BY <1>1, <1>5, <1>6, <1>7, <1>8, NewPassIsFine

LEMMA RestartIsFine == ASSUME SizeInv, NEW t \in Tabs, Restart(t) PROVE SizeInv'
<1> DEFINE x == [tab[t] EXCEPT !.forced = FALSE]
<1>1. NewPass(t, x, FALSE) /\ UNCHANGED <<Disk, walk, Cache>>
  BY DEF Restart
<1>2. tab[t] \in TabRecords /\ TabFine(tab[t])
  BY DEF SizeInv, Shapes
<1>3. /\ x \in TabRecords /\ x.gen = tab[t].gen /\ x.dir = tab[t].dir /\ x.forced = FALSE
      /\ x.since = tab[t].since /\ x.shown = tab[t].shown
  BY <1>2 DEF TabRecords
<1> HIDE DEF x
<1>4. TabFine(x)
  BY <1>2, <1>3 DEF TabFine
<1> QED
  BY <1>1, <1>3, <1>4, NewPassIsFine

LEMMA CloseIsFine == ASSUME SizeInv, NEW t \in Tabs, Close(t) PROVE SizeInv'
<1> DEFINE x == [tab[t] EXCEPT !.open = FALSE, !.forced = FALSE, !.shown = NoRows]
<1>1. /\ tab \in [Tabs -> TabRecords] /\ pass \in [Passes -> PassRecords]
      /\ cancelled \subseteq Passes /\ tasks \subseteq Passes
      /\ tab[t] \in TabRecords /\ TabFine(tab[t])
  BY DEF SizeInv, Shapes
<1>2. /\ tab' = [tab EXCEPT ![t] = x] /\ cancelled' \in {cancelled, cancelled \cup PassOf(t)}
      /\ UNCHANGED <<Disk, walk, Cache, pass, tasks>>
  BY DEF Close, SizeInv, Shapes
<1>3. /\ x \in TabRecords /\ x.gen = tab[t].gen /\ x.dir = tab[t].dir /\ x.forced = FALSE
      /\ x.since = tab[t].since /\ x.shown = NoRows
  BY <1>1, NoRowsAreShown DEF TabRecords
<1> HIDE DEF x
<1>4. TabFine(x)
  BY <1>1, <1>3, NoRowsAreShown DEF TabFine
<1>5. tab' \in [Tabs -> TabRecords] /\ \A u \in Tabs : TabFine(tab'[u])
  BY <1>1, <1>2, <1>3, <1>4 DEF SizeInv
<1>6. ASSUME NEW q \in Passes
      PROVE  PassFine(pass'[q], walk[q], tab', settled)
  <2>1. PassFine(pass[q], walk[q], tab, settled) /\ pass[q].gen \in Nat
    BY <1>1 DEF SizeInv, PassRecords
  <2> QED
    BY <1>1, <1>2, <1>3, <2>1, TabTurns
<1>7. cancelled \subseteq cancelled' /\ cancelled' \subseteq Passes
  BY <1>1, <1>2 DEF PassOf
<1> QED
  BY <1>1, <1>2, <1>5, <1>6, <1>7, NothingIsRead

LEMMA InfoIsFine ==
    ASSUME SizeInv, NEW t \in Tabs, NEW f \in Dirs, Calculate(t, f)
    PROVE  SizeInv'
<1> DEFINE s == [NoPass EXCEPT !.at = "sweep", !.seeds = {f}, !.mtimes = Snapshot({f})]
<1>1. PICK p \in Passes : pass' = [pass EXCEPT ![p] = s]
  BY DEF Calculate
<1>2. WorkerOnly /\ UNCHANGED <<walk, cache, tasks>>
  BY DEF Calculate, WorkerOnly, Cache, Disk
<1>3. s \in PassRecords
  <2>1. Snapshot({f}) \in Totals /\ {f} \in SUBSET Dirs
    BY SnapshotIsTotal
  <2>2. <<>> \in Seq(SUBSET RowRecords) /\ NoPass.channel = <<>>
    BY DEF NoPass
  <2> QED
    BY <2>1, <2>2 DEF NoPass, PassRecords
<1>4. /\ s.at = "sweep" /\ s.tab = NoTab /\ s.ready = {} /\ s.channel = <<>>
      /\ s.heard = FALSE
  BY DEF NoPass
<1> HIDE DEF s
<1>5. Rows(s) = {} /\ ~OnAWalk(s)
  BY <1>4 DEF Rows, OnAWalk
<1>6. PassFine(s, walk[p], tab, settled)
  BY <1>4, <1>5, PassesAssumption DEF PassFine
<1>7. tasks' \subseteq Passes
  BY <1>2 DEF SizeInv, Shapes
<1> QED
  BY <1>1, <1>2, <1>3, <1>6, <1>7, PassMoves

LEMMA CancelIsFine == ASSUME SizeInv, NEW p \in Passes, CancelInfo(p) PROVE SizeInv'
<1>1. /\ cancelled' = cancelled \cup {p} /\ cancelled' \subseteq Passes
      /\ UNCHANGED <<Disk, walk, Cache, tab, pass, tasks>>
  BY DEF CancelInfo, SizeInv, Shapes
<1>2. /\ tab' \in [Tabs -> TabRecords] /\ pass' \in [Passes -> PassRecords]
      /\ tasks' \subseteq Passes /\ \A t \in Tabs : TabFine(tab'[t])
      /\ \A q \in Passes : PassFine(pass'[q], walk[q], tab', settled)
  BY <1>1 DEF SizeInv, Shapes
<1> QED
  BY <1>1, <1>2, NothingIsRead

----
(* The receiver.                                                           *)

\* A pass whose receiver has taken rows, or has gone.
LEMMA Heard ==
    ASSUME NEW r \in PassRecords, NEW v, NEW tb, NEW low, PassFine(r, v, tb, low),
           NEW s, s.at = r.at, s.tab = r.tab, s.gen = r.gen, s.force = r.force,
           s.seeds = r.seeds, s.misses = r.misses, s.ready = r.ready, s.folder = r.folder,
           s.overtaken = r.overtaken, s.heard => r.heard, Rows(s) \subseteq Rows(r),
           Len(s.channel) <= ChannelBatches
    PROVE  PassFine(s, v, tb, low)
<1>1. OnAWalk(s) = OnAWalk(r)
  BY DEF OnAWalk
<1>2. Folders(s) \subseteq Folders(r)
  BY <1>1 DEF Folders
<1>3. ASSUME r.tab \in Tabs, OfListing(r, v, tb[r.tab])
      PROVE  OfListing(s, v, tb[r.tab])
  BY <1>1, <1>2, <1>3 DEF OfListing
<1> QED
  BY <1>1, <1>3 DEF PassFine

LEMMA ShownRows ==
    ASSUME NEW B \in SUBSET RowRecords, NEW before \in Shows
    PROVE  /\ Shown(B, before) \in Shows
           /\ \A f \in DOMAIN Shown(B, before) :
                 \/ \E row \in B : row.folder = f /\ Shown(B, before)[f] = row.parts
                 \/ f \in DOMAIN before /\ Shown(B, before)[f] = before[f]
<1> DEFINE now == {row.folder : row \in B}
           after == Shown(B, before)
<1>1. PICK F \in SUBSET Dirs : before \in [F -> Totals]
  BY DEF Shows
<1>2. now \in SUBSET Dirs
  BY DEF RowRecords
<1>3. after = [f \in now \cup DOMAIN before |->
                  IF f \in now THEN (CHOOSE row \in B : row.folder = f).parts ELSE before[f]]
  BY DEF Shown
<1>4. ASSUME NEW f \in now
      PROVE  \E row \in B : row.folder = f /\ after[f] = row.parts
  <2>1. \E row \in B : row.folder = f
    OBVIOUS
  <2>2. after[f] = (CHOOSE row \in B : row.folder = f).parts
    BY <1>3
  <2> QED
    BY <2>1, <2>2
<1>5. \A f \in DOMAIN before \ now : after[f] = before[f]
  BY <1>3
<1>6. \A f \in now : after[f] \in Totals
  BY <1>4 DEF RowRecords
<1>7. DOMAIN after = now \cup F /\ after = [f \in now \cup F |-> after[f]]
  BY <1>1, <1>3
<1> HIDE DEF now, after
<1>8. after \in [now \cup F -> Totals]
  BY <1>1, <1>5, <1>6, <1>7
<1>9. after \in Shows
  BY <1>1, <1>2, <1>8 DEF Shows
<1> QED
  BY <1>1, <1>4, <1>5, <1>7, <1>9 DEF after

LEMMA ReceivesIsFine == ASSUME SizeInv, NEW p \in Passes, Receives(p) PROVE SizeInv'
<1> DEFINE r == pass[p]
           t == r.tab
<1>1. /\ r \in PassRecords /\ PassFine(r, walk[p], tab, settled) /\ r.heard
      /\ r.channel # <<>> /\ r.channel \in Seq(SUBSET RowRecords)
      /\ tab \in [Tabs -> TabRecords] /\ pass \in [Passes -> PassRecords]
      /\ tasks \subseteq Passes /\ cancelled \subseteq Passes
      /\ UNCHANGED <<Disk, walk, cancelled, Cache>>
  BY DEF SizeInv, Shapes, Receives, PassRecords
<1>2. CASE Fresh(p)
  <2> DEFINE B == Head(r.channel)
             s == [r EXCEPT !.channel = Tail(@)]
             shown == Shown(B, tab[t].shown)
             x == [tab[t] EXCEPT !.shown = shown]
  <2>1. /\ t \in Tabs /\ tab[t] \in TabRecords /\ r.gen = tab[t].gen
        /\ OfListing(r, walk[p], tab[t]) /\ TabFine(tab[t])
    BY <1>1, <1>2 DEF Fresh, PassFine, SizeInv
  <2>2. /\ tab' = [tab EXCEPT ![t] = x] /\ pass' = [pass EXCEPT ![p] = s] /\ UNCHANGED tasks
    BY <1>1, <1>2, <2>1 DEF Receives
  <2>3. /\ B \in SUBSET RowRecords /\ B = r.channel[1] /\ 1 \in DOMAIN r.channel
        /\ Tail(r.channel) \in Seq(SUBSET RowRecords)
        /\ Len(Tail(r.channel)) <= Len(r.channel)
        /\ \A i \in DOMAIN Tail(r.channel) :
              i + 1 \in DOMAIN r.channel /\ Tail(r.channel)[i] = r.channel[i + 1]
    BY <1>1
  <2>4. /\ s \in PassRecords /\ s.at = r.at /\ s.tab = r.tab /\ s.gen = r.gen
        /\ s.force = r.force /\ s.seeds = r.seeds /\ s.misses = r.misses
        /\ s.ready = r.ready /\ s.folder = r.folder /\ s.overtaken = r.overtaken
        /\ s.heard = r.heard /\ s.channel = Tail(r.channel)
    BY <1>1, <2>3 DEF PassRecords
  <2> HIDE DEF s, B
  <2>5. Rows(s) \subseteq Rows(r)
    BY <2>3, <2>4 DEF Rows
  <2>6. PassFine(s, walk[p], tab, settled)
    <3>1. Len(s.channel) <= ChannelBatches
      <4>1. Len(r.channel) <= ChannelBatches
        BY <1>1 DEF PassFine
      <4>2. Len(r.channel) \in Nat /\ Len(Tail(r.channel)) \in Nat
        BY <1>1, <2>3
      <4> QED
        BY <2>3, <2>4, <4>1, <4>2, PassesAssumption
    <3> QED
      BY <1>1, <2>4, <2>5, <3>1, Heard
  <2>7. \A row \in B : /\ row \in Rows(r) /\ Whole(row.folder, row.parts)
                       /\ row.folder \in Children[tab[t].dir]
                       /\ tab[t].forced => NewerThan(row.parts, tab[t].since)
    <3>1. B \subseteq Rows(r)
      BY <2>3 DEF Rows
    <3>2. \A row \in Rows(r) : row.folder \in Folders(r)
      BY DEF Folders
    <3> QED
      BY <1>1, <2>1, <3>1, <3>2 DEF PassFine, OfListing
  <2>8. /\ shown \in Shows
        /\ \A f \in DOMAIN shown :
              \/ \E row \in B : row.folder = f /\ shown[f] = row.parts
              \/ f \in DOMAIN tab[t].shown /\ shown[f] = tab[t].shown[f]
    <3>1. tab[t].shown \in Shows
      BY <2>1 DEF TabRecords
    <3> QED
      BY <2>3, <3>1, ShownRows
  <2> HIDE DEF shown
  <2>10. /\ x \in TabRecords /\ x.gen = tab[t].gen /\ x.dir = tab[t].dir
         /\ x.forced = tab[t].forced /\ x.since = tab[t].since /\ x.shown = shown
    BY <2>1, <2>8 DEF TabRecords
  <2> HIDE DEF x
  <2>11. TabFine(x)
    <3>1. ASSUME NEW f \in DOMAIN shown
          PROVE  /\ f \in Children[x.dir] /\ Whole(f, shown[f])
                 /\ x.forced => NewerThan(shown[f], x.since)
      <4>1. ASSUME NEW row \in B, row.folder = f, shown[f] = row.parts
            PROVE  /\ f \in Children[x.dir] /\ Whole(f, shown[f])
                   /\ x.forced => NewerThan(shown[f], x.since)
        BY <2>7, <2>10, <4>1
      <4>2. CASE f \in DOMAIN tab[t].shown /\ shown[f] = tab[t].shown[f]
        BY <2>1, <2>10, <4>2 DEF TabFine
      <4> QED
        BY <2>8, <3>1, <4>1, <4>2
    <3> QED
      BY <2>1, <2>10, <3>1 DEF TabFine
  <2>12. ASSUME NEW q \in Passes
         PROVE  PassFine(pass'[q], walk[q], tab', settled)
    <3>1. PassFine(pass'[q], walk[q], tab, settled) /\ pass'[q].gen \in Nat
      BY <1>1, <2>2, <2>4, <2>6 DEF SizeInv, PassRecords
    <3> QED
      BY <1>1, <2>1, <2>2, <2>10, <3>1, TabTurns
  <2>13. /\ tab' \in [Tabs -> TabRecords] /\ \A u \in Tabs : TabFine(tab'[u])
    BY <1>1, <2>1, <2>2, <2>10, <2>11 DEF SizeInv
  <2>14. pass' \in [Passes -> PassRecords]
    BY <1>1, <2>2, <2>4
  <2> QED
    BY <1>1, <2>2, <2>12, <2>13, <2>14, NothingIsRead
<1>3. CASE ~Fresh(p)
  <2> DEFINE s == [r EXCEPT !.channel = <<>>, !.heard = FALSE]
  <2>1. /\ pass' = [pass EXCEPT ![p] = s] /\ tasks' = tasks \ {p} /\ UNCHANGED tab
    BY <1>1, <1>3 DEF Receives
  <2>2. <<>> \in Seq(SUBSET RowRecords)
    OBVIOUS
  <2>3. /\ s \in PassRecords /\ s.at = r.at /\ s.tab = r.tab /\ s.gen = r.gen
        /\ s.force = r.force /\ s.seeds = r.seeds /\ s.misses = r.misses
        /\ s.ready = r.ready /\ s.folder = r.folder /\ s.overtaken = r.overtaken
        /\ s.heard = FALSE /\ s.channel = <<>>
    BY <1>1, <2>2 DEF PassRecords
  <2> HIDE DEF s
  <2>4. Rows(s) \subseteq Rows(r) /\ Len(s.channel) <= ChannelBatches
    BY <2>3, PassesAssumption DEF Rows
  <2>5. PassFine(s, walk[p], tab, settled)
    BY <1>1, <2>3, <2>4, Heard
  <2>6. \A q \in Passes : PassFine(pass'[q], walk[q], tab', settled)
    BY <1>1, <2>1, <2>5 DEF SizeInv
  <2>7. pass' \in [Passes -> PassRecords] /\ tasks' \subseteq Passes
    BY <1>1, <2>1, <2>3
  <2>8. tab' \in [Tabs -> TabRecords] /\ \A u \in Tabs : TabFine(tab'[u])
    BY <1>1, <2>1 DEF SizeInv
  <2> QED
    BY <1>1, <2>6, <2>7, <2>8, NothingIsRead
<1> QED
  BY <1>2, <1>3

LEMMA HangsUpIsFine == ASSUME SizeInv, NEW p \in Passes, HangsUp(p) PROVE SizeInv'
<1> DEFINE r == pass[p]
           s == [r EXCEPT !.heard = FALSE]
<1>1. /\ r \in PassRecords /\ PassFine(r, walk[p], tab, settled)
      /\ tab \in [Tabs -> TabRecords] /\ pass \in [Passes -> PassRecords]
      /\ tasks' \subseteq Passes /\ cancelled \subseteq Passes
      /\ pass' = [pass EXCEPT ![p] = s]
      /\ UNCHANGED <<Disk, walk, cancelled, Cache, tab>>
  BY DEF SizeInv, Shapes, HangsUp
<1>2. /\ s \in PassRecords /\ s.at = r.at /\ s.tab = r.tab /\ s.gen = r.gen
      /\ s.force = r.force /\ s.seeds = r.seeds /\ s.misses = r.misses
      /\ s.ready = r.ready /\ s.folder = r.folder /\ s.overtaken = r.overtaken
      /\ s.heard = FALSE /\ s.channel = r.channel
  BY <1>1 DEF PassRecords
<1> HIDE DEF s
<1>3. Rows(s) = Rows(r) /\ Len(s.channel) <= ChannelBatches
  BY <1>1, <1>2 DEF Rows, PassFine
<1>4. PassFine(s, walk[p], tab, settled)
  BY <1>1, <1>2, <1>3, Heard
<1>5. \A q \in Passes : PassFine(pass'[q], walk[q], tab', settled)
  BY <1>1, <1>4 DEF SizeInv
<1>6. tab' \in [Tabs -> TabRecords] /\ \A u \in Tabs : TabFine(tab'[u])
  BY <1>1 DEF SizeInv
<1>7. pass' \in [Passes -> PassRecords]
  BY <1>1, <1>2
<1> QED
  BY <1>1, <1>5, <1>6, <1>7, NothingIsRead

----
LEMMA SizeInvHolds == Spec => []SizeInv
<1>1. Init => SizeInv
  <2> SUFFICES ASSUME Init
               PROVE  SizeInv
    OBVIOUS
  <2>1. /\ version = [d \in Dirs |-> 0] /\ mtime = [d \in Dirs |-> 0]
        /\ settled = [d \in Dirs |-> 0] /\ reports = {} /\ cancelled = {} /\ tasks = {}
        /\ cache = [f \in Dirs |-> NoRow] /\ walk = [p \in Passes |-> NoWalk]
        /\ pass = [p \in Passes |-> NoPass]
    BY DEF Init
  <2>2. PICK start \in [Tabs -> Places] :
            tab = [t \in Tabs |-> [open |-> TRUE, dir |-> start[t], gen |-> 0, pass |-> 0,
                                   forced |-> FALSE, mtimes |-> Snapshot(Children[start[t]]),
                                   since |-> Nothing, shown |-> NoRows]]
    BY DEF Init
  <2>3. WalkInv
    BY <2>1, NoWalkIsInOrder DEF WalkInv, Passes
  <2>4. ASSUME NEW t \in Tabs
        PROVE  tab[t] \in TabRecords /\ TabFine(tab[t])
    <3>1. start[t] \in Dirs /\ Children[start[t]] \in SUBSET Dirs
      BY PassesAssumption, TreeAssumption
    <3>2. Snapshot(Children[start[t]]) \in [Children[start[t]] -> Nat]
      BY <2>1, <3>1 DEF Snapshot
    <3>3. Snapshot(Children[start[t]]) \in Totals
      BY <3>1, <3>2 DEF Totals
    <3>4. /\ Nothing \in [Dirs -> Nat] /\ \A d \in Dirs : Nothing[d] <= version[d]
          /\ NoRows \in Shows /\ DOMAIN NoRows = {}
      BY <2>1, NoRowsAreShown DEF Nothing
    <3>5. tab[t].since = Nothing /\ tab[t].shown = NoRows
      BY <2>2
    <3>6. tab[t] \in TabRecords
      BY <2>2, <3>1, <3>3, <3>4 DEF TabRecords
    <3> QED
      BY <3>4, <3>5, <3>6 DEF TabFine
  <2>5. NoPass \in PassRecords
    <3>1. <<>> \in Seq(SUBSET RowRecords) /\ NoPass.channel = <<>>
      BY DEF NoPass
    <3> QED
      BY <3>1, NothingReadIsTotal DEF NoPass, PassRecords
  <2>6. PassFine(NoPass, NoWalk, tab, settled)
    <3>1. NoPass.at = "none" /\ NoPass.tab = NoTab /\ NoPass.heard = FALSE
          /\ NoPass.channel = <<>> /\ NoPass.ready = {}
      BY DEF NoPass
    <3>2. Rows(NoPass) = {} /\ ~OnAWalk(NoPass)
      BY <3>1 DEF Rows, OnAWalk
    <3> QED
      BY <3>1, <3>2, PassesAssumption DEF PassFine
  <2>7. \A p \in Passes : Sound(p, walk[p]) /\ PassFine(pass[p], walk[p], tab, settled)
    BY <2>1, <2>6 DEF Sound, NoWalk
  <2>8. Shapes
    <3>1. tab \in [Tabs -> TabRecords] /\ pass \in [Passes -> PassRecords]
      BY <2>1, <2>2, <2>4, <2>5
    <3> QED
      BY <2>1, <3>1 DEF Shapes
  <2>9. \A f \in Dirs : RowFine(f, cache[f], settled)
    BY <2>1 DEF RowFine, NoRow
  <2> QED
    BY <2>3, <2>4, <2>7, <2>8, <2>9 DEF SizeInv
<1>2. SizeInv /\ [Next]_vars => SizeInv'
  <2> SUFFICES ASSUME SizeInv, [Next]_vars
               PROVE  SizeInv'
    OBVIOUS
  <2>1. ASSUME NEW t \in Tabs, Refresh(t) \/ Restart(t) \/ Close(t)
                               \/ \E d \in Places : Navigate(t, d)
        PROVE  SizeInv'
    <3>1. tab[t].dir \in Dirs /\ Places \subseteq Dirs
      BY PassesAssumption DEF SizeInv, Shapes, TabRecords
    <3> QED
      BY <2>1, <3>1, LoadIsFine, RestartIsFine, CloseIsFine DEF Refresh, Navigate
  <2>2. CASE User
    BY <2>1, <2>2, InfoIsFine, CancelIsFine DEF User
  <2>3. ASSUME NEW d \in Dirs, Change(d) \/ Invalidate(d)
        PROVE  SizeInv'
    BY <2>3, ChangeIsFine, InvalidateIsFine
  <2>4. ASSUME NEW p \in Passes, PassWorker(p)
        PROVE  SizeInv'
    BY <2>4, StartIsFine, SweepIsFine, HandingOverIsFine, WalkNextIsFine, WalkedIsFine,
       StoreIsFine DEF PassWorker
  <2>5. ASSUME NEW p \in Passes, WalkSteps(p) \/ Receiver(p)
        PROVE  SizeInv'
    BY <2>5, WalkStepIsFine, ReceivesIsFine, HangsUpIsFine DEF Receiver
  <2>6. CASE UNCHANGED vars
    <3>1. UNCHANGED <<version, walk, cancelled, mtime, cache, reports, settled, tab, pass, tasks>>
      BY <2>6 DEF vars
    <3> QED
      BY <3>1, NothingIsRead DEF Disk, Cache, SizeInv, Shapes
  <2> QED
    BY <2>2, <2>3, <2>4, <2>5, <2>6 DEF Next, Program
<1> QED
  BY <1>1, <1>2, PTL DEF Spec

----
LEMMA CountsAreExact == WalkInv => PendingIsExact
<1> SUFFICES ASSUME WalkInv, NEW w \in Walks, walk[w].at = "walking"
             PROVE  walk[w].pending = Cardinality(walk[w].queue) + Cardinality(InHand(w))
                                      + Cardinality(DonesSent(w))
  BY DEF PendingIsExact
<1>1. InHand(w) = Busy(walk[w].hands) /\ DonesSent(w) = Dones(walk[w].events)
  BY DEF InHand, Hand, Busy, DonesSent, Dones
<1> QED
  BY <1>1 DEF WalkInv, PoolOK, Exact

LEMMA NobodyBlocks == WalkInv => NobodyIsLeftBlocked
BY DEF WalkInv, PoolOK, Stops, NobodyIsLeftBlocked, InHand, Hand, Busy

LEMMA TypesHold == SizeInv => TypeOK
<1> SUFFICES ASSUME SizeInv
             PROVE  TypeOK
  OBVIOUS
<1>1. ASSUME NEW p \in Passes
      PROVE  walk[p].pending \in Nat
  <2>1. walk[p] \in WalkRecords /\ PoolOK(walk[p]) /\ Sound(p, walk[p])
    BY DEF SizeInv, WalkInv, Passes
  <2>2. CASE walk[p].at = "walking"
    <3>1. /\ Cardinality(walk[p].queue) \in Nat /\ Cardinality(Busy(walk[p].hands)) \in Nat
          /\ Cardinality(Dones(walk[p].events)) \in Nat
      BY <2>1, SubsetsOfDirsAreFinite, BusyIsFinite, DonesAreFinite DEF WalkRecords
    <3> QED
      BY <2>1, <2>2, <3>1 DEF PoolOK, Exact
  <2> QED
    BY <2>1, <2>2 DEF Sound
<1>2. \A p \in Passes : pass[p] \in PassRecords /\ Len(pass[p].channel) <= ChannelBatches
  BY DEF SizeInv, Shapes, PassFine
<1>3. \A t \in Tabs : tab[t].pass \in Passes \cup {0}
  BY DEF SizeInv, Shapes, TabRecords
<1>4. cancelled \subseteq Passes /\ tasks \subseteq Passes /\ reports \subseteq Dirs
  BY DEF SizeInv, Shapes
<1> QED
  BY <1>1, <1>2, <1>3, <1>4 DEF TypeOK, PassRecords

\* A size that is kept or shown was summed over the whole tree below its folder,
\* whoever cancels walks and when (folder_sizes.rs:418), and a walk counts exactly
\* the directories that are queued, in a worker's hands or reported as done, so
\* it neither waits for an event that never comes nor leaves a worker blocked
\* (directory_reader.rs, walk).
THEOREM WholeSizes == Spec => []SizesAreWhole
<1>1. SizeInv => SizesAreWhole
  <2> SUFFICES ASSUME SizeInv
               PROVE  SizesAreWhole
    OBVIOUS
  <2>1. TypeOK /\ PendingIsExact /\ NobodyIsLeftBlocked
    BY TypesHold, CountsAreExact, NobodyBlocks DEF SizeInv
  <2>2. WholeUnlessCancelled
    BY ReturnedIsWhole DEF SizeInv, WholeUnlessCancelled, Whole, Passes
  <2>3. \A f \in Dirs : cache[f].known => DOMAIN cache[f].parts = Subtree[f]
    BY DEF SizeInv, RowFine, Whole
  <2>4. \A t \in Tabs : \A f \in DOMAIN tab[t].shown :
            f \in Children[tab[t].dir] /\ DOMAIN tab[t].shown[f] = Subtree[f]
    BY DEF SizeInv, TabFine, Whole
  <2> QED
    BY <2>1, <2>2, <2>3, <2>4 DEF SizesAreWhole
<1> QED
  BY <1>1, SizeInvHolds, PTL

\* After a Refresh every size the tab shows was read since, whatever the cache
\* holds and whatever older passes still send (folder_sizes.rs:136).
THEOREM RefreshIsAMeasurement == Spec => []RefreshMeasures
<1>1. SizeInv => RefreshMeasures
  BY DEF SizeInv, TabFine, NewerThan, RefreshMeasures
<1> QED
  BY <1>1, SizeInvHolds, PTL

\* After the invalidation of a change no row is from before it, except those of
\* walks that were under way (folder_sizes.rs:22).
THEOREM InvalidationsHold == Spec => []InvalidationHolds
<1>1. SizeInv => InvalidationHolds
  BY DEF SizeInv, RowFine, NewerThan, InvalidationHolds, KnownChanges
<1> QED
  BY <1>1, SizeInvHolds, PTL
=============================================================================
