---- MODULE BulkRenameProofs ----
(***************************************************************************)
(* Theorems about BulkRename, for every directory, every set of names and  *)
(* any number of batches, failures and other programs' acts.               *)
(***************************************************************************)
EXTENDS BulkRename, FiniteSetTheorems, WellFoundedInduction, TLAPS

----
(* The order of indices.                                                   *)

LEMMA NatMinimum ==
    ASSUME NEW T, T \subseteq Nat, T # {}
    PROVE  \E x \in T : \A y \in T : x <= y
<1> DEFINE R == OpToRel(<, Nat)
<1>1. IsWellFoundedOn(R, Nat)
  BY NatLessThanWellFounded
<1> HIDE DEF R
<1>2. PICK x \in T : \A y \in T : <<y, x>> \notin R
  BY <1>1, WFMin
<1>3. \A y \in T : ~(y < x)
  BY <1>2 DEF R, OpToRel
<1> QED
  BY <1>3

\* Min is a member, and least, of any set of indices.
LEMMA MinIsLeast ==
    ASSUME NEW T, T \subseteq Nat, T # {}
    PROVE  Min(T) \in T /\ \A y \in T : Min(T) <= y
<1>1. \E x \in T : \A y \in T : x <= y
  BY NatMinimum
<1> QED
  BY <1>1 DEF Min

\* S listed in order.
Lists(s, S) ==
    /\ s \in SetToSeqs(S)
    /\ \A i, j \in DOMAIN s : i < j => s[i] < s[j]

LEMMA ListsExtended ==
    ASSUME NEW S, S \subseteq Nat, IsFiniteSet(S), NEW m \in S, \A x \in S : m <= x,
           NEW s, Lists(s, S \ {m})
    PROVE  \E t : Lists(t, S)
<1> DEFINE n == Cardinality(S)
           t == [i \in 1..n |-> IF i = 1 THEN m ELSE s[i - 1]]
<1>1. n \in Nat /\ n > 0 /\ Cardinality(S \ {m}) = n - 1
  <2>1. n \in Nat /\ Cardinality(S \ {m}) = n - 1
    BY FS_CardinalityType, FS_RemoveElement
  <2>2. n # 0
    BY FS_EmptySet
  <2> QED
    BY <2>1, <2>2
<1>2. s \in [1..(n - 1) -> S \ {m}] /\ (\A i, j \in 1..(n - 1) : i # j => s[i] # s[j])
      /\ (\A i, j \in 1..(n - 1) : i < j => s[i] < s[j])
  <2>1. s \in [1..(n - 1) -> S \ {m}] /\ (\A i, j \in 1..(n - 1) : i # j => s[i] # s[j])
    BY <1>1 DEF Lists, SetToSeqs
  <2>2. DOMAIN s = 1..(n - 1)
    BY <2>1
  <2> QED
    BY <2>1, <2>2 DEF Lists
<1> HIDE DEF n
<1>3. \A i \in 1..n : i # 1 => i - 1 \in 1..(n - 1)
  BY <1>1
<1>4. \A i \in 1..n : i # 1 => s[i - 1] \in S /\ s[i - 1] # m /\ m < s[i - 1]
  <2> SUFFICES ASSUME NEW i \in 1..n, i # 1
               PROVE  s[i - 1] \in S /\ s[i - 1] # m /\ m < s[i - 1]
    OBVIOUS
  <2>1. s[i - 1] \in S /\ s[i - 1] # m
    BY <1>2, <1>3
  <2>2. s[i - 1] \in Nat /\ m \in Nat /\ m <= s[i - 1]
    BY <2>1
  <2> QED
    BY <2>1, <2>2
<1>5. t \in [1..n -> S]
  BY <1>4
<1>6. \A i, j \in 1..n : i # j => t[i] # t[j]
  <2> SUFFICES ASSUME NEW i \in 1..n, NEW j \in 1..n, i # j PROVE t[i] # t[j]
    OBVIOUS
  <2>1. CASE i = 1
    BY <2>1, <1>4
  <2>2. CASE j = 1
    BY <2>2, <1>4
  <2>3. CASE i # 1 /\ j # 1
    <3>1. i - 1 # j - 1
      BY <1>1
    <3> QED
      BY <2>3, <3>1, <1>2, <1>3
  <2> QED
    BY <2>1, <2>2, <2>3
<1>7. \A i, j \in 1..n : i < j => t[i] < t[j]
  <2> SUFFICES ASSUME NEW i \in 1..n, NEW j \in 1..n, i < j PROVE t[i] < t[j]
    OBVIOUS
  <2>1. j # 1 /\ i - 1 < j - 1
    BY <1>1
  <2>2. CASE i = 1
    BY <2>1, <2>2, <1>4
  <2>3. CASE i # 1
    BY <2>1, <2>3, <1>2, <1>3
  <2> QED
    BY <2>2, <2>3
<1>8. t \in SetToSeqs(S)
  BY <1>5, <1>6 DEF SetToSeqs, n
<1>9. DOMAIN t = 1..n
  OBVIOUS
<1> HIDE DEF t
<1> QED
  BY <1>7, <1>8, <1>9 DEF Lists

LEMMA ListsExists ==
    ASSUME NEW S, S \subseteq Nat, IsFiniteSet(S)
    PROVE  \E s : Lists(s, S)
<1> DEFINE Unlisted == {k \in Nat : \E T \in SUBSET Nat :
                           IsFiniteSet(T) /\ Cardinality(T) = k /\ ~\E s : Lists(s, T)}
<1>1. Unlisted = {}
  <2> SUFFICES ASSUME Unlisted # {} PROVE FALSE
    OBVIOUS
  <2>1. PICK k \in Unlisted : \A l \in Unlisted : k <= l
    BY NatMinimum
  <2>2. PICK T \in SUBSET Nat :
               IsFiniteSet(T) /\ Cardinality(T) = k /\ ~\E s : Lists(s, T)
    BY <2>1
  <2>3. T # {}
    <3> SUFFICES ASSUME T = {} PROVE FALSE
      OBVIOUS
    <3> DEFINE e == [i \in 1..0 |-> 0]
    <3>1. Cardinality(T) = 0
      BY FS_EmptySet
    <3>2. 1..0 = {}
      OBVIOUS
    <3>3. e \in SetToSeqs(T) /\ DOMAIN e = {}
      BY <3>1, <3>2 DEF SetToSeqs
    <3>4. Lists(e, T)
      BY <3>3 DEF Lists
    <3> QED
      BY <2>2, <3>4
  <2>4. PICK m \in T : \A x \in T : m <= x
    BY <2>3, NatMinimum
  <2>5. IsFiniteSet(T \ {m}) /\ Cardinality(T \ {m}) = k - 1 /\ k \in Nat /\ k # 0
    <3>1. IsFiniteSet(T \ {m}) /\ Cardinality(T \ {m}) = k - 1
      BY <2>2, FS_RemoveElement
    <3>2. k # 0
      BY <2>2, <2>3, FS_EmptySet
    <3> QED
      BY <3>1, <3>2
  <2>6. k - 1 \in Nat /\ ~(k <= k - 1)
    BY <2>5
  <2>7. k - 1 \notin Unlisted
    BY <2>1, <2>6
  <2>8. PICK s : Lists(s, T \ {m})
    BY <2>2, <2>5, <2>6, <2>7
  <2> QED
    BY <2>2, <2>4, <2>8, ListsExtended
<1>2. Cardinality(S) \in Nat
  BY FS_CardinalityType
<1> QED
  BY <1>1, <1>2

\* A sequence without repetition.
Once(s) == \A k, l \in DOMAIN s : s[k] = s[l] => k = l

LEMMA AscendingFills ==
    ASSUME NEW S, S \subseteq Nat, IsFiniteSet(S)
    PROVE  Ascending(S) \in Seq(S) /\ Range(Ascending(S)) = S /\ Once(Ascending(S))
<1> DEFINE s == Ascending(S)
           n == Cardinality(S)
<1>1. Lists(s, S)
  BY ListsExists DEF Lists, Ascending
<1>2. n \in Nat
  BY FS_CardinalityType
<1>3. s \in [1..n -> S] /\ \A i, j \in 1..n : i # j => s[i] # s[j]
  BY <1>1 DEF Lists, SetToSeqs
<1> HIDE DEF s
<1>4. IsFiniteSet(1..n) /\ Cardinality(1..n) = n
  BY <1>2, FS_Interval
<1>5. s \in Injection(1..n, S)
  BY <1>3 DEF Injection, IsInjective
<1>6. s \in Surjection(1..n, S)
  BY <1>4, <1>5, FS_Injection
<1>7. \A x \in S : \E k \in 1..n : s[k] = x
  BY <1>6 DEF Surjection
<1> HIDE DEF n
<1>8. DOMAIN s = 1..n /\ s \in Seq(S)
  BY <1>2, <1>3
<1>9. Range(s) = S
  BY <1>3, <1>7, <1>8 DEF Range
<1> QED
  BY <1>3, <1>8, <1>9 DEF Once, s

----
(* Names.  KeysDecide: the volume takes two names for one exactly when     *)
(* run_renames does.  It holds where the volume folds case, and where no   *)
(* two names differ in case only.                                          *)

KeysDecide == \A n, m \in Names : SameName(n, m) <=> Key[n] = Key[m]

Places == Names \cup Nat

LEMMA SameNameEquivalence ==
    /\ \A n : SameName(n, n)
    /\ \A n, m : SameName(n, m) => SameName(m, n)
    /\ \A n, m, o : SameName(n, m) /\ SameName(m, o) => SameName(n, o)
BY DEF SameName

LEMMA NumbersAreNoNames ==
    /\ \A n \in Nat : n \notin Names
    /\ \A n \in Nat, m \in Names : ~SameName(n, m) /\ ~SameName(m, n)
    /\ \A n, m \in Nat : SameName(n, m) => n = m
BY KeyAssumption DEF SameName, KeyOf

----
(* A batch: its records.                                                   *)

Pairs == [item : Items, old : Names, new : Names]

Batch == [pairs : Seq(Pairs), src : Seq(Places), ready : Seq(Nat),
          waiting : SUBSET [on : Nat, pair : Nat], done : SUBSET Nat, parked : SUBSET Nat,
          renamed : Seq(Pairs), tmpSeq : Nat]

\* What is renamed in one batch: each item once, to another name.
Record(r) ==
    /\ r \in Seq(Pairs)
    /\ \A i \in DOMAIN r : r[i].old # r[i].new
    /\ \A i, j \in DOMAIN r : r[i].item = r[j].item => i = j

LEMMA RecordTyped ==
    ASSUME NEW r, Record(r), NEW i \in DOMAIN r
    PROVE  r[i] \in Pairs /\ r[i].item \in Items /\ r[i].old \in Names /\ r[i].new \in Names
<1>1. r \in Seq(Pairs)
  BY DEF Record
<1>2. r[i] \in Pairs
  BY <1>1
<1> QED
  BY <1>2 DEF Pairs

\* No two of its names at one time are taken for one.
Apart(r) ==
    \A i, j \in DOMAIN r : i # j =>
        Key[r[i].old] # Key[r[j].old] /\ Key[r[i].new] # Key[r[j].new]

Sources(b) ==
    /\ DOMAIN b.src = DOMAIN b.pairs
    /\ \A i \in DOMAIN b.pairs \ b.parked : b.src[i] = b.pairs[i].old
    /\ \A i \in b.parked : b.src[i] \in Nat /\ b.src[i] <= b.tmpSeq
    /\ \A i, j \in b.parked : b.src[i] = b.src[j] => i = j

Reports(b) ==
    /\ \A k \in DOMAIN b.renamed : \E j \in b.done : b.renamed[k] = b.pairs[j]
    /\ \A k, l \in DOMAIN b.renamed : b.renamed[k].item = b.renamed[l].item => k = l

Shape(b) ==
    /\ b \in Batch /\ Record(b.pairs)
    /\ b.done \subseteq DOMAIN b.pairs /\ b.parked \subseteq DOMAIN b.pairs
    /\ Sources(b) /\ Reports(b)

Awaiting(b) == {w.pair : w \in b.waiting}

\* Each pair still to be renamed is ready, guarded (g) or waiting, for one other.
Queued(b, g) ==
    /\ g \in {0} \cup (DOMAIN b.pairs \ b.done)
    /\ Once(b.ready) /\ Range(b.ready) \subseteq DOMAIN b.pairs \ b.done
    /\ g \notin Range(b.ready)
    /\ Awaiting(b) \subseteq DOMAIN b.pairs \ (Range(b.ready) \cup {g})
    /\ DOMAIN b.pairs \ b.done \subseteq Range(b.ready) \cup {g} \cup Awaiting(b)
    /\ \A v, w \in b.waiting : v.pair = w.pair => v = w

\* None waits for a pair that has left its name.
Waits(b, gone) == \A w \in b.waiting : w.on \in DOMAIN b.pairs \ gone

Booked(b, g) == Shape(b) /\ Queued(b, g) /\ Waits(b, b.done \cup b.parked)

\* Who waits for whom: whoever is to take the name another has not left yet,
\* and nothing was renamed to such a name.
Ordered(b) ==
    /\ Apart(b.pairs)
    /\ \A i \in DOMAIN b.pairs \ b.done, j \in DOMAIN b.pairs \ (b.done \cup b.parked) :
          i # j /\ Key[b.pairs[j].old] = Key[b.pairs[i].new]
              => [on |-> j, pair |-> i] \in b.waiting
    /\ \A i \in DOMAIN b.pairs, j \in DOMAIN b.pairs \ (b.done \cup b.parked) :
          b.pairs[i] \in Range(b.renamed) => Key[b.pairs[j].old] # Key[b.pairs[i].new]

----
(* Sequences of indices.                                                   *)

LEMMA FrontRange ==
    ASSUME NEW T, NEW s \in Seq(T), s # <<>>, Once(s)
    PROVE  /\ Front(s) \in Seq(T) /\ Last(s) \in T
           /\ Once(Front(s)) /\ Range(s) = Range(Front(s)) \cup {Last(s)}
           /\ Last(s) \notin Range(Front(s))
<1> DEFINE n == Len(s)
<1>1. n \in Nat /\ n > 0 /\ DOMAIN s = 1..n /\ s \in [1..n -> T]
  OBVIOUS
<1>2. Front(s) = [i \in 1..(n - 1) |-> s[i]] /\ Last(s) = s[n]
  BY <1>1 DEF Front, Last
<1>3. n \in 1..n /\ (\A i \in 1..(n - 1) : i \in 1..n /\ i # n)
      /\ (\A i \in 1..n : i = n \/ i \in 1..(n - 1))
  <2> n \in Nat /\ n > 0
    BY <1>1
  <2> HIDE DEF n
  <2> QED
    OBVIOUS
<1> HIDE DEF n
<1>4. Front(s) \in Seq(T) /\ DOMAIN Front(s) = 1..(n - 1)
  BY <1>1, <1>2, <1>3
<1>5. Once(Front(s)) /\ Last(s) \notin Range(Front(s))
  BY <1>1, <1>2, <1>3, <1>4 DEF Once, Range
<1>6. Range(s) = Range(Front(s)) \cup {Last(s)}
  <2>1. \A x \in Range(s) : x \in Range(Front(s)) \cup {Last(s)}
    BY <1>1, <1>2, <1>3, <1>4 DEF Range
  <2>2. \A x \in Range(Front(s)) \cup {Last(s)} : x \in Range(s)
    BY <1>1, <1>2, <1>3, <1>4 DEF Range
  <2> QED
    BY <2>1, <2>2
<1> QED
  BY <1>1, <1>2, <1>3, <1>4, <1>5, <1>6

LEMMA ConcatRange ==
    ASSUME NEW T, NEW s \in Seq(T), NEW t \in Seq(T)
    PROVE  /\ s \o t \in Seq(T) /\ Range(s \o t) = Range(s) \cup Range(t)
           /\ Once(s) /\ Once(t) /\ Range(s) \cap Range(t) = {} => Once(s \o t)
<1> DEFINE m == Len(s)
           n == Len(t)
           u == s \o t
<1>1. m \in Nat /\ n \in Nat /\ DOMAIN s = 1..m /\ DOMAIN t = 1..n
  OBVIOUS
<1>2. u \in Seq(T) /\ DOMAIN u = 1..(m + n)
      /\ \A k \in 1..(m + n) : u[k] = IF k <= m THEN s[k] ELSE t[k - m]
  OBVIOUS
<1> HIDE DEF m, n, u
<1>3. /\ \A k \in 1..m : k \in 1..(m + n) /\ k <= m
      /\ \A k \in 1..n : k + m \in 1..(m + n) /\ ~(k + m <= m) /\ (k + m) - m = k
      /\ \A k \in 1..(m + n) : k <= m => k \in 1..m
      /\ \A k \in 1..(m + n) : ~(k <= m) => k - m \in 1..n
      /\ \A k, l \in 1..(m + n) : k - m = l - m => k = l
  BY <1>1
<1>31. ASSUME NEW i \in 1..(m + n), i <= m
       PROVE  u[i] \in Range(s) /\ i \in DOMAIN s /\ u[i] = s[i]
  <2>1. i \in DOMAIN s /\ u[i] = s[i]
    BY <1>1, <1>2, <1>3, <1>31
  <2> QED
    BY <2>1 DEF Range
<1>32. ASSUME NEW i \in 1..(m + n), ~(i <= m)
       PROVE  u[i] \in Range(t) /\ i - m \in DOMAIN t /\ u[i] = t[i - m]
  <2>1. i - m \in DOMAIN t /\ u[i] = t[i - m]
    BY <1>1, <1>2, <1>3, <1>32
  <2> QED
    BY <2>1 DEF Range
<1>4. Range(u) = Range(s) \cup Range(t)
  <2>1. ASSUME NEW x \in Range(u) PROVE x \in Range(s) \cup Range(t)
    <3>1. PICK k \in 1..(m + n) : x = u[k]
      BY <1>2 DEF Range
    <3> QED
      BY <3>1, <1>31, <1>32
  <2>2. ASSUME NEW x \in Range(s) PROVE x \in Range(u)
    <3>1. PICK k \in 1..m : x = s[k]
      BY <1>1 DEF Range
    <3>2. k \in DOMAIN u /\ u[k] = x
      BY <3>1, <1>2, <1>3
    <3> QED
      BY <3>2 DEF Range
  <2>3. ASSUME NEW x \in Range(t) PROVE x \in Range(u)
    <3>1. PICK k \in 1..n : x = t[k]
      BY <1>1 DEF Range
    <3>2. k + m \in DOMAIN u /\ u[k + m] = x
      BY <3>1, <1>2, <1>3
    <3> QED
      BY <3>2 DEF Range
  <2> QED
    BY <2>1, <2>2, <2>3
<1>5. ASSUME Once(s), Once(t), Range(s) \cap Range(t) = {} PROVE Once(u)
  <2> SUFFICES ASSUME NEW k \in 1..(m + n), NEW l \in 1..(m + n), u[k] = u[l] PROVE k = l
    BY <1>2 DEF Once
  <2>1. CASE k <= m /\ l <= m
    BY <1>31, <2>1, <1>5 DEF Once
  <2>2. CASE ~(k <= m) /\ ~(l <= m)
    <3>1. k - m = l - m
      BY <1>32, <2>2, <1>5 DEF Once
    <3> QED
      BY <3>1, <1>3
  <2>3. CASE k <= m /\ ~(l <= m)
    BY <1>31, <1>32, <2>3, <1>5
  <2>4. CASE ~(k <= m) /\ l <= m
    BY <1>31, <1>32, <2>4, <1>5
  <2> QED
    BY <2>1, <2>2, <2>3, <2>4
<1> QED
  BY <1>2, <1>4, <1>5 DEF u

LEMMA AppendRange ==
    ASSUME NEW T, NEW s \in Seq(T), NEW x \in T
    PROVE  /\ Append(s, x) \in Seq(T) /\ Range(Append(s, x)) = Range(s) \cup {x}
           /\ DOMAIN Append(s, x) = 1..(Len(s) + 1) /\ DOMAIN s = 1..Len(s)
           /\ \A k \in DOMAIN Append(s, x) :
                 Append(s, x)[k] = IF k = Len(s) + 1 THEN x ELSE s[k]
<1>1. Len(s) \in Nat /\ DOMAIN s = 1..Len(s) /\ DOMAIN Append(s, x) = 1..(Len(s) + 1)
      /\ Append(s, x) \in Seq(T)
  OBVIOUS
<1>2. \A k \in DOMAIN Append(s, x) : Append(s, x)[k] = IF k = Len(s) + 1 THEN x ELSE s[k]
  OBVIOUS
<1>3. Len(s) + 1 \in 1..(Len(s) + 1)
      /\ (\A k \in 1..Len(s) : k \in 1..(Len(s) + 1) /\ k # Len(s) + 1)
      /\ (\A k \in 1..(Len(s) + 1) : k # Len(s) + 1 => k \in 1..Len(s))
  BY <1>1
<1>4. \A y \in Range(Append(s, x)) : y \in Range(s) \cup {x}
  BY <1>1, <1>2, <1>3 DEF Range
<1>5. \A y \in Range(s) \cup {x} : y \in Range(Append(s, x))
  BY <1>1, <1>2, <1>3 DEF Range
<1> QED
  BY <1>1, <1>2, <1>4, <1>5

----
(* The directory, and the inductive invariant.                             *)

Directory(d) ==
    /\ d \subseteq [name : Places, item : Items \cup Newcomers]
    /\ \A e, f \in d : SameName(e.name, f.name) \/ e.item = f.item => e = f

Records(u) ==
    /\ u \in Seq(Seq(Pairs))
    /\ \A k \in DOMAIN u : Record(u[k]) /\ (KeysDecide => Apart(u[k]))

\* Temporary names: left by a batch that ended, or given by the one that runs.
Temporaries(d, left, active, b) ==
    \A e \in d : e.name \in Nat => e.item \in left \/ (active /\ e.name <= b.tmpSeq)

\* What the rename after this guard replaces came after the guard, from elsewhere.
GuardHolds(d, b, g) ==
    g # 0 => \A e \in d : SameName(e.name, b.pairs[g].new)
                => SameName(e.name, b.src[g]) \/ e.item \in Newcomers

\* Where the result will say an item of the batch is.
Reported(b, i) == IF b.pairs[i] \in Range(b.renamed) THEN b.pairs[i].new ELSE b.src[i]

Located(d, b, lost) ==
    \A i \in DOMAIN b.pairs : b.pairs[i].item \in lost
        \/ \E e \in d : e.item = b.pairs[i].item /\ SameName(e.name, Reported(b, i))

Books ==
    /\ worker \in {"idle", "renaming", "undoing"}
    /\ worker = "idle" => batch = Idle
    /\ Booked(batch, guarded)
    /\ Records(undo)

InDirectory ==
    /\ Directory(dir)
    /\ Temporaries(dir, stranded, Running, batch)
    /\ GuardHolds(dir, batch, guarded)

InOrder == KeysDecide => Ordered(batch) /\ Located(dir, batch, removed \cup astray)

IInv == Books /\ InDirectory /\ InOrder /\ NothingLost

----
(* The vectors of run_renames: pop, release, settle, park.                 *)

Freed(b, i) == {w.pair : w \in {v \in b.waiting : v.on = i}} \ b.done

\* The fields a release leaves alone.
Alike(b, n) ==
    /\ n.pairs = b.pairs /\ n.src = b.src /\ n.done = b.done /\ n.parked = b.parked
    /\ n.renamed = b.renamed /\ n.tmpSeq = b.tmpSeq

LEMMA ShapeAlike ==
    ASSUME NEW b, Shape(b), NEW n \in Batch, Alike(b, n)
    PROVE  Shape(n)
BY DEF Shape, Alike, Sources, Reports

LEMMA IndicesFinite ==
    ASSUME NEW b, Shape(b), NEW S, S \subseteq DOMAIN b.pairs
    PROVE  S \subseteq Nat /\ IsFiniteSet(S) /\ 0 \notin S
<1>1. b.pairs \in Seq(Pairs)
  BY DEF Shape, Record
<1>2. Len(b.pairs) \in Nat /\ DOMAIN b.pairs = 1..Len(b.pairs)
  BY <1>1
<1>3. IsFiniteSet(1..Len(b.pairs)) /\ 1..Len(b.pairs) \subseteq Nat /\ 0 \notin 1..Len(b.pairs)
  BY <1>2, FS_Interval
<1> QED
  BY <1>2, <1>3, FS_Subset

LEMMA ReleasedFields ==
    ASSUME NEW b, Shape(b), Queued(b, 0), NEW i
    PROVE  LET n == Released(b, i)
           IN  /\ n \in Batch /\ Alike(b, n)
               /\ n.waiting = {w \in b.waiting : w.on # i}
               /\ Range(n.ready) = Range(b.ready) \cup Freed(b, i)
               /\ Once(n.ready)
<1> DEFINE F == Freed(b, i)
           n == Released(b, i)
           W == {w \in b.waiting : w.on # i}
<1>1. F \subseteq Awaiting(b) \ b.done
  BY DEF Freed, Awaiting
<1>2. F \subseteq DOMAIN b.pairs /\ F \cap Range(b.ready) = {}
  BY <1>1 DEF Queued
<1>3. F \subseteq Nat /\ IsFiniteSet(F)
  BY <1>2, IndicesFinite
<1>4. Ascending(F) \in Seq(F) /\ Range(Ascending(F)) = F /\ Once(Ascending(F))
  BY <1>3, AscendingFills
<1>5. b \in Batch /\ b.ready \in Seq(Nat) /\ Once(b.ready)
  BY DEF Shape, Batch, Queued
<1>6. n = [b EXCEPT !.waiting = W, !.ready = b.ready \o Ascending(F)]
  BY <1>5 DEF Released, Freed, Batch
<1> HIDE DEF F
<1>7. Ascending(F) \in Seq(Nat)
  <2> DEFINE s == Ascending(F)
  <2>1. s \in [1..Len(s) -> F] /\ Len(s) \in Nat
    BY <1>4
  <2> HIDE DEF s
  <2>2. s \in [1..Len(s) -> Nat]
    BY <1>3, <2>1
  <2>3. s \in Seq(Nat)
    BY <2>1, <2>2
  <2> QED
    BY <2>3 DEF s
<1>8. /\ b.ready \o Ascending(F) \in Seq(Nat) /\ Once(b.ready \o Ascending(F))
      /\ Range(b.ready \o Ascending(F)) = Range(b.ready) \cup F
  BY <1>2, <1>4, <1>5, <1>7, ConcatRange
<1>9. W \in SUBSET [on : Nat, pair : Nat]
  BY <1>5 DEF Batch
<1> HIDE DEF n, W
<1>10. n \in Batch /\ Alike(b, n) /\ n.waiting = W /\ n.ready = b.ready \o Ascending(F)
  BY <1>5, <1>6, <1>8, <1>9 DEF Batch, Alike
<1> QED
  BY <1>8, <1>10 DEF F, n, W

LEMMA ReleaseBooked ==
    ASSUME NEW b, Shape(b), Queued(b, 0), NEW i \in b.done \cup b.parked,
           Waits(b, (b.done \cup b.parked) \ {i})
    PROVE  LET n == Released(b, i)
           IN  /\ Booked(n, 0) /\ Alike(b, n)
               /\ n.waiting = {w \in b.waiting : w.on # i}
<1> DEFINE n == Released(b, i)
           F == Freed(b, i)
<1>1. /\ n \in Batch /\ Alike(b, n)
      /\ n.waiting = {w \in b.waiting : w.on # i}
      /\ Range(n.ready) = Range(b.ready) \cup F
      /\ Once(n.ready)
  BY ReleasedFields
<1> HIDE DEF n
<1>2. Shape(n)
  BY <1>1, ShapeAlike
<1>3. /\ n.pairs = b.pairs /\ n.done = b.done /\ n.parked = b.parked
  BY <1>1 DEF Alike
<1>4. Waits(n, n.done \cup n.parked)
  BY <1>1, <1>3 DEF Waits
<1>5. F = Awaiting(b) \ (Awaiting(n) \cup b.done)
  <2>1. \A w \in b.waiting : w.on = i => w.pair \notin Awaiting(n)
    BY <1>1 DEF Awaiting, Queued
  <2>2. F \subseteq Awaiting(b) \ (Awaiting(n) \cup b.done)
    BY <2>1 DEF Freed, Awaiting
  <2>3. Awaiting(b) \ (Awaiting(n) \cup b.done) \subseteq F
    BY <1>1 DEF Freed, Awaiting
  <2> QED
    BY <2>2, <2>3
<1> HIDE DEF F
<1>6. Awaiting(n) \subseteq Awaiting(b)
  BY <1>1 DEF Awaiting
<1>7. Queued(n, 0)
  <2>1. Range(n.ready) \subseteq DOMAIN n.pairs \ n.done /\ 0 \notin Range(n.ready)
    BY <1>1, <1>3, <1>5 DEF Queued
  <2>2. Awaiting(n) \subseteq DOMAIN n.pairs \ (Range(n.ready) \cup {0})
    BY <1>1, <1>3, <1>5, <1>6 DEF Queued
  <2>3. DOMAIN n.pairs \ n.done \subseteq Range(n.ready) \cup {0} \cup Awaiting(n)
    BY <1>1, <1>3, <1>5 DEF Queued
  <2>4. \A v, w \in n.waiting : v.pair = w.pair => v = w
    BY <1>1 DEF Queued
  <2> QED
    BY <1>1, <2>1, <2>2, <2>3, <2>4 DEF Queued
<1> QED
  BY <1>1, <1>2, <1>4, <1>7 DEF Booked, n

LEMMA PopBooked ==
    ASSUME NEW b, Booked(b, 0), b.ready # <<>>
    PROVE  LET n == [b EXCEPT !.ready = Front(@)]
               g == Last(b.ready)
           IN  /\ Booked(n, g) /\ Alike(b, n) /\ n.waiting = b.waiting
               /\ g \in DOMAIN b.pairs \ b.done
<1> DEFINE n == [b EXCEPT !.ready = Front(@)]
           g == Last(b.ready)
<1>1. b \in Batch /\ b.ready \in Seq(Nat) /\ Once(b.ready)
  BY DEF Booked, Shape, Batch, Queued
<1>2. /\ Front(b.ready) \in Seq(Nat) /\ g \in Nat /\ Once(Front(b.ready))
      /\ Range(b.ready) = Range(Front(b.ready)) \cup {g} /\ g \notin Range(Front(b.ready))
  BY <1>1, FrontRange
<1> HIDE DEF g
<1>3. n \in Batch /\ Alike(b, n) /\ n.waiting = b.waiting /\ n.ready = Front(b.ready)
  BY <1>1, <1>2 DEF Batch, Alike
<1> HIDE DEF n
<1>4. /\ n.pairs = b.pairs /\ n.done = b.done /\ n.parked = b.parked
      /\ Awaiting(n) = Awaiting(b)
  BY <1>3 DEF Alike, Awaiting
<1>5. Shape(n)
  BY <1>3, ShapeAlike DEF Booked
<1>6. Waits(n, n.done \cup n.parked)
  BY <1>3, <1>4 DEF Booked, Waits
<1>7. g \in DOMAIN b.pairs \ b.done
  BY <1>2 DEF Booked, Queued
<1>8. Queued(n, g)
  <2>1. Once(n.ready) /\ Range(n.ready) \subseteq DOMAIN n.pairs \ n.done /\ g \notin Range(n.ready)
    BY <1>2, <1>3, <1>4 DEF Booked, Queued
  <2>2. Awaiting(n) \subseteq DOMAIN n.pairs \ (Range(n.ready) \cup {g})
    BY <1>2, <1>3, <1>4 DEF Booked, Queued
  <2>3. DOMAIN n.pairs \ n.done \subseteq Range(n.ready) \cup {g} \cup Awaiting(n)
    BY <1>2, <1>3, <1>4, <1>5, IndicesFinite DEF Booked, Queued
  <2>4. \A v, w \in n.waiting : v.pair = w.pair => v = w
    BY <1>3 DEF Booked, Queued
  <2> QED
    BY <1>4, <1>7, <2>1, <2>2, <2>3, <2>4 DEF Queued
<1> QED
  BY <1>3, <1>5, <1>6, <1>7, <1>8 DEF Booked, n, g

\* m is b with g's claim settled, before the release.
Claimed(b, m, g) ==
    /\ m \in Batch
    /\ m.pairs = b.pairs /\ m.src = b.src /\ m.parked = b.parked /\ m.ready = b.ready
    /\ m.waiting = b.waiting /\ m.done = b.done \cup {g} /\ m.tmpSeq >= b.tmpSeq
    /\ Reports(m)

\* The pair that is tried, or one of those that wait when none is free to move.
Tried(b, g) ==
    /\ Shape(b) /\ Waits(b, b.done \cup b.parked) /\ g \in DOMAIN b.pairs \ b.done
    /\ Queued(b, g) \/ (Queued(b, 0) /\ b.ready = <<>>)

LEMMA NoneReady == Range(<<>>) = {}
BY DEF Range

LEMMA SettleBooked ==
    ASSUME NEW b, NEW g, Tried(b, g), NEW m, Claimed(b, m, g)
    PROVE  LET n == Released(m, g)
           IN  /\ Booked(n, 0) /\ Alike(m, n)
               /\ n.waiting = {w \in b.waiting : w.on # g}
<1>1. /\ m \in Batch
      /\ m.pairs = b.pairs /\ m.src = b.src /\ m.parked = b.parked /\ m.ready = b.ready
      /\ m.waiting = b.waiting /\ m.done = b.done \cup {g} /\ Awaiting(m) = Awaiting(b)
  BY DEF Claimed, Awaiting
<1>2. Shape(m)
  <2>1. Sources(m)
    <3>1. \A i \in b.parked : b.src[i] \in Nat /\ b.src[i] <= b.tmpSeq
      BY DEF Tried, Shape, Sources
    <3>2. b.tmpSeq \in Nat /\ m.tmpSeq \in Nat /\ b.tmpSeq <= m.tmpSeq
      BY DEF Tried, Claimed, Shape, Batch
    <3>3. \A x \in Nat : x <= b.tmpSeq => x <= m.tmpSeq
      BY <3>2
    <3>4. \A i \in b.parked : b.src[i] \in Nat /\ b.src[i] <= m.tmpSeq
      BY <3>1, <3>3
    <3> QED
      BY <1>1, <3>4 DEF Tried, Shape, Sources
  <2>2. Reports(m)
    BY DEF Claimed
  <2>3. m.done \subseteq DOMAIN m.pairs /\ m.parked \subseteq DOMAIN m.pairs /\ Record(m.pairs)
    BY <1>1 DEF Tried, Shape
  <2> QED
    BY <1>1, <2>1, <2>2, <2>3 DEF Shape
<1>3. Queued(m, 0)
  <2>1. 0 \notin DOMAIN b.pairs
    BY IndicesFinite DEF Tried
  <2>2. \A v, w \in m.waiting : v.pair = w.pair => v = w
    BY <1>1 DEF Tried, Queued
  <2>3. CASE Queued(b, g)
    <3>1. Once(m.ready) /\ Range(m.ready) \subseteq DOMAIN m.pairs \ m.done /\ 0 \notin Range(m.ready)
      BY <1>1, <2>1, <2>3 DEF Queued
    <3>2. Awaiting(m) \subseteq DOMAIN m.pairs \ (Range(m.ready) \cup {0})
      BY <1>1, <2>1, <2>3 DEF Queued
    <3>3. DOMAIN m.pairs \ m.done \subseteq Range(m.ready) \cup {0} \cup Awaiting(m)
      BY <1>1, <2>3 DEF Queued
    <3> QED
      BY <2>2, <3>1, <3>2, <3>3 DEF Queued
  <2>4. CASE Queued(b, 0) /\ b.ready = <<>>
    <3>1. Range(m.ready) = {} /\ Range(b.ready) = {}
      BY <1>1, <2>4, NoneReady
    <3>2. Awaiting(m) \subseteq DOMAIN m.pairs \ (Range(m.ready) \cup {0})
      BY <1>1, <2>4, <3>1 DEF Queued
    <3>3. DOMAIN m.pairs \ m.done \subseteq Range(m.ready) \cup {0} \cup Awaiting(m)
      BY <1>1, <2>4, <3>1 DEF Queued
    <3>4. Once(m.ready)
      BY <1>1, <2>4 DEF Queued
    <3> QED
      BY <2>2, <3>1, <3>2, <3>3, <3>4 DEF Queued
  <2> QED
    BY <2>3, <2>4 DEF Tried
<1>4. Waits(m, (m.done \cup m.parked) \ {g})
  BY <1>1 DEF Tried, Waits
<1> QED
  BY <1>1, <1>2, <1>3, <1>4, ReleaseBooked

LEMMA ReportsKept ==
    ASSUME NEW b, Shape(b), NEW m, m.pairs = b.pairs, m.renamed = b.renamed,
           b.done \subseteq m.done
    PROVE  Reports(m)
BY DEF Shape, Reports

\* A pair is tried and fails.
LEMMA SettledBooked ==
    ASSUME NEW b, NEW g, Tried(b, g)
    PROVE  LET n == Settled(b, g)
           IN  /\ Booked(n, 0)
               /\ n.pairs = b.pairs /\ n.src = b.src /\ n.parked = b.parked
               /\ n.renamed = b.renamed /\ n.tmpSeq = b.tmpSeq /\ n.done = b.done \cup {g}
               /\ n.waiting = {w \in b.waiting : w.on # g}
<1> DEFINE m == [b EXCEPT !.done = @ \cup {g}]
<1>1. b \in Batch /\ g \in Nat /\ b.tmpSeq \in Nat
  <2>1. b \in Batch
    BY DEF Tried, Shape
  <2>2. g \in Nat
    BY IndicesFinite DEF Tried
  <2> QED
    BY <2>1, <2>2 DEF Batch
<1>2. /\ m \in Batch
      /\ m.pairs = b.pairs /\ m.src = b.src /\ m.parked = b.parked /\ m.ready = b.ready
      /\ m.waiting = b.waiting /\ m.done = b.done \cup {g} /\ m.tmpSeq = b.tmpSeq
      /\ m.renamed = b.renamed
  BY <1>1 DEF Batch
<1> HIDE DEF m
<1>3. Reports(m)
  BY <1>2, ReportsKept DEF Tried
<1>4. m.tmpSeq >= b.tmpSeq
  BY <1>1, <1>2
<1>5. Claimed(b, m, g)
  BY <1>2, <1>3, <1>4 DEF Claimed
<1>6. LET n == Released(m, g)
      IN  Booked(n, 0) /\ Alike(m, n) /\ n.waiting = {w \in b.waiting : w.on # g}
  BY <1>5, SettleBooked
<1> QED
  BY <1>2, <1>6 DEF Settled, Alike, m

\* A pair is renamed.
LEMMA SucceededBooked ==
    ASSUME NEW b, NEW g, Booked(b, g), g # 0
    PROVE  LET n == Succeeded(b, g)
           IN  /\ Booked(n, 0)
               /\ n.pairs = b.pairs /\ n.src = b.src /\ n.parked = b.parked
               /\ n.renamed = Append(b.renamed, b.pairs[g]) /\ n.tmpSeq = b.tmpSeq
               /\ Range(n.renamed) = Range(b.renamed) \cup {b.pairs[g]}
               /\ n.done = b.done \cup {g}
               /\ n.waiting = {w \in b.waiting : w.on # g}
<1> DEFINE m == [b EXCEPT !.renamed = Append(@, b.pairs[g]), !.done = @ \cup {g}]
           r == Append(b.renamed, b.pairs[g])
<1>1. Tried(b, g) /\ Shape(b) /\ b \in Batch /\ g \in DOMAIN b.pairs \ b.done
  BY DEF Booked, Tried, Queued, Shape
<1>2. g \in Nat /\ b.renamed \in Seq(Pairs) /\ b.pairs[g] \in Pairs /\ b.tmpSeq \in Nat
  <2>1. g \in Nat
    BY <1>1, IndicesFinite
  <2>2. b.pairs \in Seq(Pairs) /\ b.renamed \in Seq(Pairs) /\ b.tmpSeq \in Nat
    BY <1>1 DEF Batch
  <2> QED
    BY <1>1, <2>1, <2>2
<1>3. /\ r \in Seq(Pairs) /\ Range(r) = Range(b.renamed) \cup {b.pairs[g]}
      /\ DOMAIN r = 1..(Len(b.renamed) + 1) /\ DOMAIN b.renamed = 1..Len(b.renamed)
      /\ \A k \in DOMAIN r : r[k] = IF k = Len(b.renamed) + 1 THEN b.pairs[g] ELSE b.renamed[k]
  BY <1>2, AppendRange
<1>4. \A k \in DOMAIN r : k = Len(b.renamed) + 1 \/ k \in DOMAIN b.renamed
  <2>1. Len(b.renamed) \in Nat
    BY <1>2
  <2> QED
    BY <1>3, <2>1
<1> HIDE DEF r
<1>5. /\ m \in Batch
      /\ m.pairs = b.pairs /\ m.src = b.src /\ m.parked = b.parked /\ m.ready = b.ready
      /\ m.waiting = b.waiting /\ m.done = b.done \cup {g} /\ m.tmpSeq = b.tmpSeq
      /\ m.renamed = r
  BY <1>1, <1>2, <1>3 DEF Batch, r
<1>6. Settled([b EXCEPT !.renamed = Append(@, b.pairs[g])], g) = Released(m, g)
  BY <1>1 DEF Settled, Batch
<1> HIDE DEF m
<1>7. Reports(m)
  <2>1. \A k \in DOMAIN b.renamed : \E j \in b.done : b.renamed[k] = b.pairs[j]
    BY <1>1 DEF Shape, Reports
  <2>2. ASSUME NEW k \in DOMAIN r PROVE \E j \in m.done : r[k] = m.pairs[j]
    BY <1>3, <1>4, <1>5, <2>1
  <2>3. \A k \in DOMAIN b.renamed : b.renamed[k].item # b.pairs[g].item
    <3> SUFFICES ASSUME NEW k \in DOMAIN b.renamed PROVE b.renamed[k].item # b.pairs[g].item
      OBVIOUS
    <3>1. PICK j \in b.done : b.renamed[k] = b.pairs[j]
      BY <2>1
    <3>2. j \in DOMAIN b.pairs /\ j # g
      BY <1>1, <3>1 DEF Shape
    <3> QED
      BY <1>1, <3>1, <3>2 DEF Shape, Record
  <2>4. ASSUME NEW k \in DOMAIN r, NEW l \in DOMAIN r, r[k].item = r[l].item PROVE k = l
    <3>1. CASE k \in DOMAIN b.renamed /\ l \in DOMAIN b.renamed
          /\ k # Len(b.renamed) + 1 /\ l # Len(b.renamed) + 1
      BY <1>1, <1>3, <2>4, <3>1 DEF Shape, Reports
    <3>2. CASE k = Len(b.renamed) + 1 /\ l # k
      BY <1>3, <1>4, <2>3, <2>4, <3>2
    <3>3. CASE l = Len(b.renamed) + 1 /\ l # k
      BY <1>3, <1>4, <2>3, <2>4, <3>3
    <3> QED
      BY <1>4, <3>1, <3>2, <3>3
  <2> QED
    BY <1>5, <2>2, <2>4 DEF Reports
<1>8. m.tmpSeq >= b.tmpSeq
  BY <1>2, <1>5
<1>9. Claimed(b, m, g)
  BY <1>5, <1>7, <1>8 DEF Claimed
<1>10. LET n == Released(m, g)
       IN  Booked(n, 0) /\ Alike(m, n) /\ n.waiting = {w \in b.waiting : w.on # g}
  BY <1>1, <1>9, SettleBooked
<1> QED
  BY <1>3, <1>5, <1>6, <1>10 DEF Succeeded, Alike, r

\* A temporary name is taken, whether or not anything moves to it.
LEMMA NumberedTried ==
    ASSUME NEW b, Booked(b, 0), b.ready = <<>>, NEW g \in DOMAIN b.pairs \ b.done
    PROVE  LET m == [b EXCEPT !.tmpSeq = b.tmpSeq + 1]
           IN  /\ Tried(m, g) /\ m \in Batch
               /\ m.pairs = b.pairs /\ m.src = b.src /\ m.parked = b.parked /\ m.done = b.done
               /\ m.renamed = b.renamed /\ m.waiting = b.waiting /\ m.ready = <<>>
               /\ m.tmpSeq = b.tmpSeq + 1
<1> DEFINE m == [b EXCEPT !.tmpSeq = b.tmpSeq + 1]
<1>1. Shape(b) /\ b \in Batch /\ b.tmpSeq \in Nat
  BY DEF Booked, Shape, Batch
<1>2. b.tmpSeq + 1 \in Nat /\ \A x \in Nat : x <= b.tmpSeq => x <= b.tmpSeq + 1
  BY <1>1
<1>3. /\ m \in Batch
      /\ m.pairs = b.pairs /\ m.src = b.src /\ m.parked = b.parked /\ m.done = b.done
      /\ m.renamed = b.renamed /\ m.waiting = b.waiting /\ m.ready = b.ready
      /\ m.tmpSeq = b.tmpSeq + 1
  BY <1>1, <1>2 DEF Batch
<1> HIDE DEF m
<1>4. Sources(m)
  BY <1>1, <1>2, <1>3 DEF Shape, Sources
<1>5. Reports(m)
  BY <1>1, <1>3, ReportsKept
<1>6. Shape(m)
  BY <1>1, <1>3, <1>4, <1>5 DEF Shape
<1>7. Awaiting(m) = Awaiting(b)
  BY <1>3 DEF Awaiting
<1>8. Queued(m, 0)
  BY <1>3, <1>7 DEF Booked, Queued
<1>9. Waits(m, m.done \cup m.parked)
  BY <1>3 DEF Booked, Waits
<1> QED
  BY <1>3, <1>6, <1>8, <1>9 DEF Tried, m

\* A pair is parked.
Parked(b, g) ==
    LET numbered == [b EXCEPT !.tmpSeq = b.tmpSeq + 1]
    IN  Released([numbered EXCEPT !.parked = @ \cup {g}, !.src[g] = b.tmpSeq + 1], g)

ParkedFrom(b, g, n) ==
    LET tmp == b.tmpSeq + 1
    IN  /\ Booked(n, 0)
        /\ n.pairs = b.pairs /\ n.renamed = b.renamed /\ n.done = b.done
        /\ n.parked = b.parked \cup {g} /\ n.tmpSeq = tmp
        /\ n.src = [b.src EXCEPT ![g] = tmp]
        /\ n.waiting = {w \in b.waiting : w.on # g}

LEMMA ParkedBooked ==
    ASSUME NEW b, Booked(b, 0), b.ready = <<>>,
           NEW g \in DOMAIN b.pairs \ (b.done \cup b.parked)
    PROVE  ParkedFrom(b, g, Parked(b, g))
<1> DEFINE tmp == b.tmpSeq + 1
           m == [b EXCEPT !.tmpSeq = tmp]
           o == [m EXCEPT !.parked = @ \cup {g}, !.src[g] = tmp]
<1>1. Tried(m, g) /\ m \in Batch
      /\ m.pairs = b.pairs /\ m.src = b.src /\ m.parked = b.parked /\ m.done = b.done
      /\ m.renamed = b.renamed /\ m.waiting = b.waiting /\ m.ready = <<>>
      /\ m.tmpSeq = tmp
  BY NumberedTried
<1>2. b.tmpSeq \in Nat /\ tmp \in Nat /\ \A x \in Nat : x <= b.tmpSeq => x <= tmp /\ x # tmp
  <2>1. b.tmpSeq \in Nat
    BY DEF Booked, Shape, Batch
  <2> QED
    BY <2>1
<1>3. Shape(b) /\ b.src \in Seq(Places) /\ DOMAIN b.src = DOMAIN b.pairs /\ g \in Nat
      /\ g \in DOMAIN b.src
  <2>1. Shape(b) /\ b.src \in Seq(Places) /\ DOMAIN b.src = DOMAIN b.pairs
    BY DEF Booked, Shape, Batch, Sources
  <2>2. g \in Nat
    BY <2>1, IndicesFinite
  <2> QED
    BY <2>1, <2>2
<1>4. /\ [b.src EXCEPT ![g] = tmp] \in Seq(Places)
      /\ DOMAIN [b.src EXCEPT ![g] = tmp] = DOMAIN b.src
      /\ [b.src EXCEPT ![g] = tmp][g] = tmp
      /\ \A i \in DOMAIN b.src : i # g => [b.src EXCEPT ![g] = tmp][i] = b.src[i]
  <2>1. tmp \in Places
    BY <1>2 DEF Places
  <2> QED
    BY <1>3, <2>1
<1> HIDE DEF tmp, m
<1>5. /\ o \in Batch /\ o.pairs = b.pairs /\ o.renamed = b.renamed /\ o.done = b.done
      /\ o.parked = b.parked \cup {g} /\ o.tmpSeq = tmp
      /\ o.src = [b.src EXCEPT ![g] = tmp]
      /\ o.waiting = b.waiting /\ o.ready = <<>>
  BY <1>1, <1>3, <1>4 DEF Batch
<1> HIDE DEF o
<1>6. Sources(o)
  <2>1. DOMAIN o.src = DOMAIN o.pairs
    BY <1>3, <1>4, <1>5
  <2>2. \A i \in DOMAIN o.pairs \ o.parked : o.src[i] = o.pairs[i].old
    BY <1>3, <1>4, <1>5 DEF Shape, Sources
  <2>3. \A i \in b.parked : o.src[i] = b.src[i] /\ o.src[i] \in Nat /\ o.src[i] <= b.tmpSeq
    BY <1>3, <1>4, <1>5 DEF Shape, Sources
  <2>4. o.src[g] = tmp
    BY <1>4, <1>5
  <2>5. tmp <= tmp
    BY <1>2
  <2>6. \A i \in o.parked : o.src[i] \in Nat /\ o.src[i] <= o.tmpSeq
    BY <1>2, <1>5, <2>3, <2>4, <2>5
  <2>7. \A i, j \in o.parked : o.src[i] = o.src[j] => i = j
    BY <1>2, <1>3, <1>5, <2>3, <2>4 DEF Shape, Sources
  <2> QED
    BY <2>1, <2>2, <2>6, <2>7 DEF Sources
<1>7. Reports(o)
  BY <1>3, <1>5, ReportsKept
<1>8. Shape(o)
  BY <1>3, <1>5, <1>6, <1>7 DEF Shape
<1>9. Awaiting(o) = Awaiting(b) /\ o.ready = b.ready
  BY <1>5 DEF Awaiting
<1>10. Queued(o, 0)
  BY <1>5, <1>9 DEF Booked, Queued
<1>11. Waits(o, (o.done \cup o.parked) \ {g})
  BY <1>5 DEF Booked, Waits
<1>12. LET n == Released(o, g)
       IN  Booked(n, 0) /\ Alike(o, n) /\ n.waiting = {w \in b.waiting : w.on # g}
  BY <1>5, <1>8, <1>10, <1>11, ReleaseBooked
<1> QED
  BY <1>5, <1>12 DEF Parked, ParkedFrom, Alike, o, m, tmp

LEMMA IdleBooked == Booked(Idle, 0)
<1>1. Idle \in Batch /\ Record(Idle.pairs)
  BY DEF Idle, Batch, Record
<1>2. DOMAIN <<>> = {} /\ Range(<<>>) = {}
  BY DEF Range
<1>3. Sources(Idle) /\ Reports(Idle)
  BY <1>2 DEF Idle, Sources, Reports
<1>4. Queued(Idle, 0)
  BY <1>2 DEF Idle, Queued, Awaiting, Once
<1> QED
  BY <1>1, <1>3, <1>4 DEF Booked, Shape, Waits, Idle

----
(* The order of a batch is kept.                                           *)

LEMMA SettledOrdered ==
    ASSUME NEW b, Ordered(b), NEW g, NEW n,
           n.pairs = b.pairs, n.parked = b.parked, n.renamed = b.renamed,
           n.done = b.done \cup {g}, n.waiting = {w \in b.waiting : w.on # g}
    PROVE  Ordered(n)
<1>1. ASSUME NEW i \in DOMAIN n.pairs \ n.done, NEW j \in DOMAIN n.pairs \ (n.done \cup n.parked),
             i # j, Key[n.pairs[j].old] = Key[n.pairs[i].new]
      PROVE  [on |-> j, pair |-> i] \in n.waiting
  <2>1. [on |-> j, pair |-> i] \in b.waiting
    BY <1>1 DEF Ordered
  <2> QED
    BY <2>1
<1> QED
  BY <1>1 DEF Ordered

LEMMA ParkedOrdered ==
    ASSUME NEW b, Ordered(b), NEW g, NEW n,
           n.pairs = b.pairs, n.done = b.done, n.renamed = b.renamed,
           n.parked = b.parked \cup {g}, n.waiting = {w \in b.waiting : w.on # g}
    PROVE  Ordered(n)
<1>1. ASSUME NEW i \in DOMAIN n.pairs \ n.done, NEW j \in DOMAIN n.pairs \ (n.done \cup n.parked),
             i # j, Key[n.pairs[j].old] = Key[n.pairs[i].new]
      PROVE  [on |-> j, pair |-> i] \in n.waiting
  <2>1. [on |-> j, pair |-> i] \in b.waiting
    BY <1>1 DEF Ordered
  <2> QED
    BY <2>1
<1> QED
  BY <1>1 DEF Ordered

LEMMA SucceededOrdered ==
    ASSUME NEW b, NEW g, Booked(b, g), g # 0, Ordered(b), NEW n,
           n.pairs = b.pairs, n.parked = b.parked,
           Range(n.renamed) = Range(b.renamed) \cup {b.pairs[g]},
           n.done = b.done \cup {g}, n.waiting = {w \in b.waiting : w.on # g}
    PROVE  Ordered(n)
<1>1. ASSUME NEW i \in DOMAIN n.pairs \ n.done, NEW j \in DOMAIN n.pairs \ (n.done \cup n.parked),
             i # j, Key[n.pairs[j].old] = Key[n.pairs[i].new]
      PROVE  [on |-> j, pair |-> i] \in n.waiting
  <2>1. [on |-> j, pair |-> i] \in b.waiting
    BY <1>1 DEF Ordered
  <2> QED
    BY <2>1
<1>2. ASSUME NEW i \in DOMAIN n.pairs, NEW j \in DOMAIN n.pairs \ (n.done \cup n.parked),
             n.pairs[i] \in Range(n.renamed)
      PROVE  Key[n.pairs[j].old] # Key[n.pairs[i].new]
  <2>1. CASE n.pairs[i] \in Range(b.renamed)
    BY <2>1 DEF Ordered
  <2>2. CASE n.pairs[i] = b.pairs[g]
    <3>1. g \in DOMAIN b.pairs \ b.done /\ g \notin Awaiting(b)
      BY DEF Booked, Queued
    <3>2. j \in DOMAIN b.pairs \ (b.done \cup b.parked) /\ j # g
      OBVIOUS
    <3>3. [on |-> j, pair |-> g] \notin b.waiting
      BY <3>1 DEF Awaiting
    <3> QED
      BY <2>2, <3>1, <3>2, <3>3 DEF Ordered
  <2> QED
    BY <1>2, <2>1, <2>2
<1>3. Apart(n.pairs)
  BY DEF Ordered
<1> QED
  BY <1>1, <1>2, <1>3 DEF Ordered

\* No pair that is ready, or tried, has another's name as its destination.
LEMMA NoneInTheWay ==
    ASSUME NEW b, Ordered(b), KeysDecide, Shape(b),
           NEW i \in DOMAIN b.pairs \ b.done, i \notin Awaiting(b),
           NEW j \in DOMAIN b.pairs \ b.done, j # i
    PROVE  ~SameName(b.src[j], b.pairs[i].new)
<1>1. b.pairs[i].new \in Names /\ b.pairs[j].old \in Names
  BY RecordTyped DEF Shape
<1>2. CASE j \in b.parked
  BY <1>1, <1>2, NumbersAreNoNames DEF Shape, Sources
<1>3. CASE j \notin b.parked
  <2>1. [on |-> j, pair |-> i] \notin b.waiting
    BY DEF Awaiting
  <2>2. Key[b.pairs[j].old] # Key[b.pairs[i].new]
    BY <1>3, <2>1 DEF Ordered
  <2> QED
    BY <1>1, <1>3, <2>2 DEF KeysDecide, Shape, Sources
<1> QED
  BY <1>2, <1>3

LEMMA OneOccupant ==
    ASSUME NEW p, NEW n, NEW x \in Occupant(p, n), NEW y \in Occupant(p, n)
    PROVE  x = y
<1> DEFINE H == {j \in DOMAIN p : KeyOf(p[j].old) = KeyOf(n)}
<1>1. Occupant(p, n) = IF H = {} THEN {} ELSE {Max(H)}
  BY DEF Occupant
<1> HIDE DEF H
<1>2. H # {} /\ Occupant(p, n) = {Max(H)}
  BY <1>1
<1> QED
  BY <1>2

\* run_renames' preparation of a record.
LEMMA StartedBooked ==
    ASSUME NEW p, Record(p)
    PROVE  LET b == Started(p)
           IN  /\ Booked(b, 0) /\ b.pairs = p /\ b.renamed = <<>> /\ b.done = {}
               /\ b.parked = {} /\ b.src = [i \in DOMAIN p |-> p[i].old] /\ b.tmpSeq = 0
               /\ Apart(p) => Ordered(b)
<1> DEFINE b == Started(p)
           all == {[on |-> j, pair |-> i] : i, j \in DOMAIN p}
           W == {w \in all : w.on # w.pair /\ w.on \in Occupant(p, p[w.pair].new)}
           F == DOMAIN p \ {w.pair : w \in W}
           S == [i \in DOMAIN p |-> p[i].old]
<1>1. p \in Seq(Pairs) /\ Len(p) \in Nat /\ DOMAIN p = 1..Len(p)
  BY DEF Record
<1>2. DOMAIN p \subseteq Nat /\ 0 \notin DOMAIN p /\ IsFiniteSet(DOMAIN p)
  BY <1>1, FS_Interval
<1>3. \A i \in DOMAIN p : p[i].old \in Places
  BY RecordTyped DEF Places
<1>4. S \in Seq(Places) /\ DOMAIN S = DOMAIN p
  BY <1>1, <1>3
<1>5. \A w \in W : w.on \in DOMAIN p /\ w.pair \in DOMAIN p
                     /\ w = [on |-> w.on, pair |-> w.pair]
                     /\ w.on \in Occupant(p, p[w.pair].new)
  OBVIOUS
<1>6. W \in SUBSET [on : Nat, pair : Nat]
  BY <1>2, <1>5
<1>7. \A v, w \in W : v.pair = w.pair => v = w
  <2> SUFFICES ASSUME NEW v \in W, NEW w \in W, v.pair = w.pair PROVE v = w
    OBVIOUS
  <2>1. v.on \in Occupant(p, p[w.pair].new) /\ w.on \in Occupant(p, p[w.pair].new)
    BY <1>5
  <2>2. v.on = w.on
    BY <2>1, OneOccupant
  <2> QED
    BY <1>5, <2>2
<1>8. F \subseteq Nat /\ F \subseteq DOMAIN p /\ IsFiniteSet(F)
  BY <1>2, FS_Subset
<1>9. Ascending(F) \in Seq(F) /\ Range(Ascending(F)) = F /\ Once(Ascending(F))
  <2> HIDE DEF F
  <2> QED
    BY <1>8, AscendingFills
<1>10. b = [pairs |-> p, src |-> S, ready |-> Ascending(F), waiting |-> W,
            done |-> {}, parked |-> {}, renamed |-> <<>>, tmpSeq |-> 0]
  BY DEF Started
<1>11. {w.pair : w \in W} = DOMAIN p \ F
  BY <1>5
<1> HIDE DEF F, S
<1>12. Ascending(F) \in Seq(Nat)
  <2> DEFINE s == Ascending(F)
  <2>1. s \in [1..Len(s) -> F] /\ Len(s) \in Nat
    BY <1>9
  <2> HIDE DEF s
  <2>2. s \in [1..Len(s) -> Nat]
    BY <1>8, <2>1
  <2>3. s \in Seq(Nat)
    BY <2>1, <2>2
  <2> QED
    BY <2>3 DEF s
<1>13. ASSUME NEW i \in DOMAIN p, NEW j \in DOMAIN p, i # j, Apart(p),
              Key[p[j].old] = Key[p[i].new]
       PROVE  [on |-> j, pair |-> i] \in W
  <2> DEFINE holders == {k \in DOMAIN p : KeyOf(p[k].old) = KeyOf(p[i].new)}
  <2>1. \A k \in DOMAIN p : KeyOf(p[k].old) = Key[p[k].old] /\ KeyOf(p[i].new) = Key[p[i].new]
    BY RecordTyped DEF KeyOf
  <2>2. holders = {j}
    BY <1>13, <2>1 DEF Apart
  <2>3. j \in Nat /\ j >= j
    BY <1>2
  <2>4. Max({j}) = j
    BY <2>3 DEF Max
  <2>5. Occupant(p, p[i].new) = {j}
    BY <2>2, <2>4 DEF Occupant
  <2>6. [on |-> j, pair |-> i] \in all
    OBVIOUS
  <2> QED
    BY <1>13, <2>5, <2>6
<1> HIDE DEF W, b
<1>14. b \in Batch
  BY <1>1, <1>4, <1>6, <1>10, <1>12 DEF Batch
<1>15. /\ b.pairs = p /\ b.renamed = <<>> /\ b.done = {} /\ b.parked = {} /\ b.src = S
       /\ b.tmpSeq = 0 /\ b.waiting = W /\ b.ready = Ascending(F)
  BY <1>10
<1>16. Sources(b) /\ Reports(b)
  BY <1>4, <1>15 DEF Sources, Reports, S
<1>17. Shape(b)
  BY <1>14, <1>15, <1>16 DEF Shape
<1>18. Awaiting(b) = DOMAIN p \ F
  BY <1>11, <1>15 DEF Awaiting
<1>19. Queued(b, 0)
  BY <1>2, <1>7, <1>8, <1>9, <1>15, <1>18 DEF Queued
<1>20. Waits(b, b.done \cup b.parked)
  BY <1>5, <1>15 DEF Waits
<1>21. Range(b.renamed) = {}
  BY <1>15, NoneReady
<1>22. Apart(p) => Ordered(b)
  BY <1>13, <1>15, <1>21 DEF Ordered
<1> QED
  BY <1>15, <1>17, <1>19, <1>20, <1>22 DEF Booked, b, S

----
(* What a rename does to a directory.                                      *)

LEMMA MovedEntries ==
    ASSUME NEW d, NEW old, NEW new
    PROVE  /\ \A e \in Moved(d, old, new) :
                 \/ e \in d /\ ~SameName(e.name, old) /\ ~SameName(e.name, new)
                 \/ \E f \in d : SameName(f.name, old) /\ e = [name |-> new, item |-> f.item]
           /\ \A e \in d : ~SameName(e.name, old) /\ ~SameName(e.name, new)
                 => e \in Moved(d, old, new)
           /\ \A f \in d : SameName(f.name, old)
                 => [name |-> new, item |-> f.item] \in Moved(d, old, new)
BY DEF Moved, At

LEMMA EntryTyped ==
    ASSUME NEW d, Directory(d), NEW e \in d
    PROVE  e.name \in Places /\ e.item \in Items \cup Newcomers
BY DEF Directory

LEMMA EntryPresent ==
    /\ \A d : \A e \in d : e.item \in Present(d)
    /\ \A d : \A x \in Present(d) : \E e \in d : e.item = x
BY DEF Present

LEMMA MovedDirectory ==
    ASSUME NEW d, Directory(d), NEW old, NEW new \in Places
    PROVE  Directory(Moved(d, old, new))
<1> DEFINE m == Moved(d, old, new)
<1>1. \A e \in m :
         \/ e \in d /\ ~SameName(e.name, old) /\ ~SameName(e.name, new)
         \/ \E f \in d : SameName(f.name, old) /\ e = [name |-> new, item |-> f.item]
  BY MovedEntries
<1> HIDE DEF m
<1>2. m \subseteq [name : Places, item : Items \cup Newcomers]
  <2>1. \A f \in d : [name |-> new, item |-> f.item] \in [name : Places, item : Items \cup Newcomers]
    BY EntryTyped
  <2>2. d \subseteq [name : Places, item : Items \cup Newcomers]
    BY DEF Directory
  <2> QED
    BY <1>1, <2>1, <2>2
<1>3. \A e, f \in d : SameName(e.name, old) /\ SameName(f.name, old) => e = f
  <2>1. \A e, f \in d : SameName(e.name, old) /\ SameName(f.name, old) => SameName(e.name, f.name)
    BY SameNameEquivalence
  <2> QED
    BY <2>1 DEF Directory
<1>4. ASSUME NEW e \in m, NEW f \in m, SameName(e.name, f.name) \/ e.item = f.item
      PROVE  e = f
  <2>1. CASE e \in d /\ f \in d
    BY <1>4, <2>1 DEF Directory
  <2>2. ASSUME NEW x \in m, NEW y \in m, SameName(x.name, y.name) \/ x.item = y.item,
               x \in d, ~SameName(x.name, old), ~SameName(x.name, new),
               NEW z \in d, SameName(z.name, old), y = [name |-> new, item |-> z.item]
        PROVE  FALSE
    <3>1. y.name = new /\ y.item = z.item
      BY <2>2
    <3>2. x.item = z.item
      BY <2>2, <3>1
    <3>3. x = z
      BY <2>2, <3>2 DEF Directory
    <3> QED
      BY <2>2, <3>3
  <2>3. CASE e \in d /\ ~SameName(e.name, old) /\ ~SameName(e.name, new)
    BY <1>1, <1>4, <2>1, <2>2, <2>3
  <2>4. CASE f \in d /\ ~SameName(f.name, old) /\ ~SameName(f.name, new)
    <3>1. SameName(f.name, e.name) \/ f.item = e.item
      BY <1>4, SameNameEquivalence
    <3> QED
      BY <1>1, <2>1, <2>2, <2>4, <3>1
  <2>5. CASE /\ \E g \in d : SameName(g.name, old) /\ e = [name |-> new, item |-> g.item]
             /\ \E g \in d : SameName(g.name, old) /\ f = [name |-> new, item |-> g.item]
    BY <1>3, <2>5
  <2> QED
    BY <1>1, <2>3, <2>4, <2>5
<1> QED
  BY <1>2, <1>4 DEF Directory, m

\* The pair that is renamed is not reported as renamed yet.
LEMMA NotReported ==
    ASSUME NEW b, Shape(b), NEW g \in DOMAIN b.pairs \ b.done
    PROVE  b.pairs[g] \notin Range(b.renamed)
<1> SUFFICES ASSUME b.pairs[g] \in Range(b.renamed) PROVE FALSE
  OBVIOUS
<1>1. PICK k \in DOMAIN b.renamed : b.renamed[k] = b.pairs[g]
  BY DEF Range
<1>2. PICK j \in b.done : b.renamed[k] = b.pairs[j]
  BY DEF Shape, Reports
<1>3. j \in DOMAIN b.pairs /\ j # g /\ b.pairs[j].item = b.pairs[g].item
  BY <1>1, <1>2 DEF Shape
<1> QED
  BY <1>3 DEF Shape, Record

\* Nothing of the batch is where a pair still to be renamed is.
LEMMA PlacesApart ==
    ASSUME NEW b, Shape(b), Ordered(b), KeysDecide,
           NEW g \in DOMAIN b.pairs \ b.done, NEW i \in DOMAIN b.pairs, i # g
    PROVE  ~SameName(Reported(b, i), b.src[g])
<1>1. /\ b.pairs[i].new \in Names /\ b.pairs[i].old \in Names
      /\ b.pairs[g].new \in Names /\ b.pairs[g].old \in Names
  BY RecordTyped DEF Shape
<1>2. /\ g \notin b.parked => b.src[g] = b.pairs[g].old
      /\ g \in b.parked => b.src[g] \in Nat
      /\ i \notin b.parked => b.src[i] = b.pairs[i].old
      /\ i \in b.parked => b.src[i] \in Nat
      /\ i \in b.parked /\ g \in b.parked => b.src[i] # b.src[g]
  BY DEF Shape, Sources
<1>3. CASE b.pairs[i] \in Range(b.renamed)
  <2>1. Reported(b, i) = b.pairs[i].new
    BY <1>3 DEF Reported
  <2>2. CASE g \in b.parked
    BY <1>1, <1>2, <2>1, <2>2, NumbersAreNoNames
  <2>3. CASE g \notin b.parked
    <3>1. Key[b.pairs[g].old] # Key[b.pairs[i].new]
      BY <1>3, <2>3 DEF Ordered
    <3> QED
      BY <1>1, <1>2, <2>1, <2>3, <3>1 DEF KeysDecide
  <2> QED
    BY <2>2, <2>3
<1>4. CASE b.pairs[i] \notin Range(b.renamed)
  <2>1. Reported(b, i) = b.src[i]
    BY <1>4 DEF Reported
  <2>2. CASE i \in b.parked
    BY <1>1, <1>2, <2>1, <2>2, NumbersAreNoNames
  <2>3. CASE i \notin b.parked /\ g \in b.parked
    BY <1>1, <1>2, <2>1, <2>3, NumbersAreNoNames
  <2>4. CASE i \notin b.parked /\ g \notin b.parked
    <3>1. Key[b.pairs[i].old] # Key[b.pairs[g].old]
      BY DEF Ordered, Apart
    <3> QED
      BY <1>1, <1>2, <2>1, <2>4, <3>1 DEF KeysDecide
  <2> QED
    BY <2>2, <2>3, <2>4
<1> QED
  BY <1>3, <1>4

\* No item of the batch is displaced, and g's goes where it is reported.
LEMMA MovedLocated ==
    ASSUME NEW d, Directory(d), NEW b, Shape(b), Ordered(b), KeysDecide, NEW lost,
           Located(d, b, lost), NEW g \in DOMAIN b.pairs \ b.done, NEW new,
           NEW n, n.pairs = b.pairs, Reported(n, g) = new,
           \A i \in DOMAIN b.pairs \ {g} : Reported(n, i) = Reported(b, i),
           \A e \in d, i \in DOMAIN b.pairs \ {g} :
              SameName(e.name, Reported(b, i)) /\ e.item = b.pairs[i].item
                 => ~SameName(e.name, new) \/ SameName(e.name, b.src[g])
    PROVE  Located(Moved(d, b.src[g], new), n, lost)
<1> DEFINE m == Moved(d, b.src[g], new)
<1> SUFFICES ASSUME NEW i \in DOMAIN b.pairs, b.pairs[i].item \notin lost
             PROVE  \E e \in m : e.item = b.pairs[i].item /\ SameName(e.name, Reported(n, i))
  BY DEF Located
<1>1. PICK f \in d : f.item = b.pairs[i].item /\ SameName(f.name, Reported(b, i))
  BY DEF Located
<1>2. /\ \A e \in d : ~SameName(e.name, b.src[g]) /\ ~SameName(e.name, new) => e \in m
      /\ \A e \in d : SameName(e.name, b.src[g]) => [name |-> new, item |-> e.item] \in m
  BY MovedEntries
<1> HIDE DEF m
<1>3. CASE i = g
  <2>1. Reported(b, g) = b.src[g]
    BY NotReported DEF Reported
  <2>2. [name |-> new, item |-> f.item] \in m
    BY <1>1, <1>2, <1>3, <2>1
  <2>3. SameName(new, Reported(n, i))
    BY <1>3, SameNameEquivalence
  <2> QED
    BY <1>1, <2>2, <2>3
<1>4. CASE i # g
  <2>1. ~SameName(Reported(b, i), b.src[g])
    BY <1>4, PlacesApart
  <2>2. ~SameName(f.name, b.src[g])
    BY <1>1, <2>1, SameNameEquivalence
  <2>3. ~SameName(f.name, new)
    BY <1>1, <1>4, <2>2
  <2>4. f \in m
    BY <1>2, <2>2, <2>3
  <2> QED
    BY <1>1, <1>4, <2>4
<1> QED
  BY <1>3, <1>4

LEMMA RenameLocated ==
    ASSUME NEW d, Directory(d), NEW b, NEW g, Booked(b, g), g # 0, Ordered(b), KeysDecide,
           NEW lost, Located(d, b, lost), GuardHolds(d, b, g)
    PROVE  Located(Moved(d, b.src[g], b.pairs[g].new), Succeeded(b, g), lost)
<1> DEFINE n == Succeeded(b, g)
<1>1. Shape(b) /\ g \in DOMAIN b.pairs \ b.done
  BY DEF Booked, Queued
<1>2. n.pairs = b.pairs /\ n.src = b.src /\ Range(n.renamed) = Range(b.renamed) \cup {b.pairs[g]}
  <2> HIDE DEF n
  <2>1. /\ Booked(n, 0)
        /\ n.pairs = b.pairs /\ n.src = b.src /\ n.parked = b.parked
        /\ n.renamed = Append(b.renamed, b.pairs[g]) /\ n.tmpSeq = b.tmpSeq
        /\ Range(n.renamed) = Range(b.renamed) \cup {b.pairs[g]}
        /\ n.done = b.done \cup {g}
        /\ n.waiting = {w \in b.waiting : w.on # g}
    BY SucceededBooked DEF n
  <2> QED
    BY <2>1
<1> HIDE DEF n
<1>3. Reported(n, g) = b.pairs[g].new
  BY <1>2 DEF Reported
<1>4. \A i \in DOMAIN b.pairs \ {g} : b.pairs[i] # b.pairs[g]
  BY <1>1 DEF Shape, Record
<1>5. \A i \in DOMAIN b.pairs \ {g} : Reported(n, i) = Reported(b, i)
  BY <1>2, <1>4 DEF Reported
<1>6. ASSUME NEW e \in d, NEW i \in DOMAIN b.pairs \ {g}, e.item = b.pairs[i].item,
             SameName(e.name, b.pairs[g].new)
      PROVE  SameName(e.name, b.src[g])
  <2>1. e.item \in Items
    BY <1>1, <1>6, RecordTyped DEF Shape
  <2>2. e.item \notin Newcomers
    BY <2>1, ItemsAssumption
  <2> QED
    BY <1>6, <2>2 DEF GuardHolds
<1> QED
  BY <1>1, <1>2, <1>3, <1>5, <1>6, MovedLocated DEF n

LEMMA ParkLocated ==
    ASSUME NEW d, Directory(d), NEW b, Booked(b, 0), Ordered(b), KeysDecide,
           NEW lost, Located(d, b, lost), NEW g \in DOMAIN b.pairs \ (b.done \cup b.parked),
           NEW n, n.pairs = b.pairs, n.renamed = b.renamed,
           n.src = [b.src EXCEPT ![g] = b.tmpSeq + 1]
    PROVE  Located(Moved(d, b.src[g], b.tmpSeq + 1), n, lost)
<1> DEFINE tmp == b.tmpSeq + 1
<1>1. Shape(b) /\ DOMAIN b.src = DOMAIN b.pairs
  BY DEF Booked, Shape, Sources
<1>2. b.tmpSeq \in Nat /\ tmp \in Nat /\ \A x \in Nat : x <= b.tmpSeq => x # tmp
  <2>1. b.tmpSeq \in Nat
    BY <1>1 DEF Shape, Batch
  <2> QED
    BY <2>1
<1> HIDE DEF tmp
<1>3. b.pairs[g] \notin Range(b.renamed)
  BY <1>1, NotReported
<1>4. Reported(n, g) = tmp
  BY <1>1, <1>3 DEF Reported, tmp
<1>5. \A i \in DOMAIN b.pairs \ {g} : Reported(n, i) = Reported(b, i)
  BY <1>1 DEF Reported
<1>6. ASSUME NEW e \in d, NEW i \in DOMAIN b.pairs \ {g}, SameName(e.name, Reported(b, i))
      PROVE  ~SameName(e.name, tmp)
  <2> SUFFICES ~SameName(Reported(b, i), tmp)
    BY <1>6, SameNameEquivalence
  <2>1. b.pairs[i].new \in Names /\ b.pairs[i].old \in Names
    BY <1>1, RecordTyped DEF Shape
  <2>2. CASE Reported(b, i) \in Names
    BY <1>2, <2>2, NumbersAreNoNames
  <2>3. CASE Reported(b, i) \notin Names
    <3>1. Reported(b, i) = b.src[i] /\ b.src[i] # b.pairs[i].old
      BY <2>1, <2>3 DEF Reported
    <3>2. i \in b.parked
      BY <1>1, <3>1 DEF Shape, Sources
    <3>3. b.src[i] \in Nat /\ b.src[i] <= b.tmpSeq
      BY <1>1, <3>2 DEF Shape, Sources
    <3> QED
      BY <1>2, <3>1, <3>3, NumbersAreNoNames
  <2> QED
    BY <2>2, <2>3
<1>7. Located(Moved(d, b.src[g], tmp), n, lost)
  BY <1>1, <1>4, <1>5, <1>6, MovedLocated
<1> QED
  BY <1>7 DEF tmp

----
(* Each step keeps the invariant.                                          *)

LEMMA IdleOrdered == Ordered(Idle)
<1>1. DOMAIN <<>> = {}
  OBVIOUS
<1> QED
  BY <1>1 DEF Ordered, Idle, Apart

LEMMA InitKeeps == Init => IInv
<1> SUFFICES ASSUME Init PROVE IInv
  OBVIOUS
<1>1. PICK placed \in [Items -> Names] :
         /\ \A x, y \in Items : x # y => ~SameName(placed[x], placed[y])
         /\ dir = {[name |-> placed[x], item |-> x] : x \in Items}
  BY DEF Init
<1>2. worker = "idle" /\ batch = Idle /\ guarded = 0 /\ undo = <<>>
  BY DEF Init
<1>3. \A e \in dir : e.item \in Items /\ e.name = placed[e.item] /\ e.name \in Names
                     /\ e = [name |-> e.name, item |-> e.item]
  BY <1>1
<1>4. Directory(dir)
  <2>1. dir \subseteq [name : Places, item : Items \cup Newcomers]
    BY <1>3 DEF Places
  <2>2. \A e, f \in dir : SameName(e.name, f.name) => e.item = f.item
    BY <1>1, <1>3
  <2>3. \A e, f \in dir : e.item = f.item => e = f
    BY <1>3
  <2> QED
    BY <2>1, <2>2, <2>3 DEF Directory
<1>5. Temporaries(dir, stranded, Running, batch)
  BY <1>3, NumbersAreNoNames DEF Temporaries
<1>6. GuardHolds(dir, batch, guarded)
  BY <1>2 DEF GuardHolds
<1>7. Records(undo)
  BY <1>2 DEF Records
<1>8. Books
  BY <1>2, <1>7, IdleBooked DEF Books
<1>9. Located(dir, Idle, removed \cup astray)
  <2>1. DOMAIN <<>> = {}
    OBVIOUS
  <2> QED
    BY <2>1 DEF Located, Idle
<1>10. NothingLost
  <2>1. \A x \in Items : [name |-> placed[x], item |-> x] \in dir
    BY <1>1
  <2>2. ASSUME NEW x \in Items PROVE x \in Present(dir)
    BY <2>1, EntryPresent
  <2> QED
    BY <2>2 DEF NothingLost
<1> QED
  BY <1>2, <1>4, <1>5, <1>6, <1>8, <1>9, <1>10, IdleOrdered DEF IInv, InDirectory, InOrder

\* A plan for the selected items, without conflicts.
Planned(d, selected, before, after) ==
    /\ Directory(d) /\ selected \in SUBSET Items
    /\ \A x \in selected : x \in Present(d) /\ NameOf(d, x) \in Names
    /\ before = [x \in selected |-> NameOf(d, x)]
    /\ after \in [selected -> Names] /\ ConflictFree(before, after)

\* Such a plan is a record, and its items are at its old names.
LEMMA PlanIsRecord ==
    ASSUME NEW d, NEW selected, NEW before, NEW after, Planned(d, selected, before, after),
           NEW order \in SetToSeqs(Changed(before, after))
    PROVE  LET p == RenamePairs(order, before, after)
           IN  /\ Record(p) /\ (KeysDecide => Apart(p))
               /\ \A i \in DOMAIN p :
                     \E e \in d : e.item = p[i].item /\ e.name = p[i].old
<1> DEFINE p == RenamePairs(order, before, after)
           C == Changed(before, after)
           n == Cardinality(C)
<1>1. C \subseteq selected /\ IsFiniteSet(C) /\ n \in Nat
      /\ (\A x \in C : after[x] # before[x])
  <2>1. C \subseteq selected /\ \A x \in C : after[x] # before[x]
    BY DEF Changed, Planned
  <2>2. IsFiniteSet(C)
    BY <2>1, ItemsAssumption, FS_Subset DEF Planned
  <2> HIDE DEF C
  <2> QED
    BY <2>1, <2>2, FS_CardinalityType
<1>2. order \in [1..n -> C] /\ \A i, j \in 1..n : i # j => order[i] # order[j]
  BY DEF SetToSeqs
<1>3. DOMAIN order = 1..n
  BY <1>2
<1>4. ASSUME NEW x \in C
      PROVE  /\ x \in Items /\ before[x] \in Names /\ after[x] \in Names
             /\ \E e \in d : e.item = x /\ e.name = before[x]
  <2>1. x \in selected /\ before[x] = NameOf(d, x) /\ x \in Present(d)
        /\ x \in Items /\ NameOf(d, x) \in Names /\ after[x] \in Names
    BY <1>1 DEF Planned
  <2>2. \E e \in d : e.item = x
    BY <2>1, EntryPresent
  <2>3. \E e \in d : e.item = x /\ e.name = NameOf(d, x)
    BY <2>2 DEF NameOf
  <2> QED
    BY <2>1, <2>3
<1>5. \A x, y \in C : x # y => Key[after[x]] # Key[after[y]]
  BY DEF ConflictFree, Planned
<1>6. ASSUME KeysDecide, NEW x \in C, NEW y \in C, x # y
      PROVE  Key[before[x]] # Key[before[y]]
  <2>1. PICK e \in d : e.item = x /\ e.name = before[x]
    BY <1>4
  <2>2. PICK f \in d : f.item = y /\ f.name = before[y]
    BY <1>4
  <2>3. ~SameName(before[x], before[y])
    BY <1>6, <2>1, <2>2 DEF Planned, Directory
  <2> QED
    BY <1>4, <1>6, <2>3 DEF KeysDecide
<1> HIDE DEF C, n
<1>7. /\ DOMAIN p = 1..n
      /\ \A i \in 1..n : p[i] = [item |-> order[i], old |-> before[order[i]],
                                 new |-> after[order[i]]]
  BY <1>3 DEF RenamePairs
<1> HIDE DEF p
<1>8. \A i \in 1..n : p[i].item = order[i] /\ p[i].old = before[order[i]]
                      /\ p[i].new = after[order[i]] /\ order[i] \in C
  BY <1>2, <1>7
<1>9. p \in Seq(Pairs)
  <2>1. \A i \in 1..n : p[i] \in Pairs
    BY <1>2, <1>4, <1>7 DEF Pairs
  <2>2. p = [i \in 1..n |-> p[i]]
    BY <1>7 DEF p, RenamePairs
  <2> QED
    BY <1>1, <2>1, <2>2
<1>10. Record(p)
  <2>1. \A i \in DOMAIN p : p[i].old # p[i].new
    BY <1>1, <1>7, <1>8
  <2>2. \A i, j \in DOMAIN p : p[i].item = p[j].item => i = j
    BY <1>2, <1>7, <1>8
  <2> QED
    BY <1>9, <2>1, <2>2 DEF Record
<1>11. KeysDecide => Apart(p)
  BY <1>2, <1>5, <1>6, <1>7, <1>8 DEF Apart
<1>12. \A i \in DOMAIN p : \E e \in d : e.item = p[i].item /\ e.name = p[i].old
  BY <1>4, <1>7, <1>8
<1> QED
  BY <1>10, <1>11, <1>12 DEF p

\* A batch that begins, of a plan or of a record.
LEMMA BeginKeeps ==
    ASSUME IInv, NEW p, Record(p), KeysDecide => Apart(p), batch' = Started(p),
           worker = "idle", worker' \in {"renaming", "undoing"}, Records(undo'),
           KeysDecide => \A i \in DOMAIN p : p[i].item \in astray' \/ Holds(dir, p[i].old, p[i].item),
           UNCHANGED <<dir, guarded, removed, stranded>>
    PROVE  IInv'
<1> DEFINE b == Started(p)
<1>1. /\ Booked(b, 0) /\ b.pairs = p /\ b.renamed = <<>> /\ b.done = {}
      /\ b.parked = {} /\ b.src = [i \in DOMAIN p |-> p[i].old] /\ b.tmpSeq = 0
      /\ Apart(p) => Ordered(b)
  BY StartedBooked
<1> HIDE DEF b
<1>2. batch' = b
  BY DEF b
<1>3. guarded = 0 /\ guarded' = 0
  BY DEF IInv, Books, Booked, Queued, Idle
<1>4. Books'
  BY <1>1, <1>2, <1>3 DEF Books
<1>5. InDirectory'
  <2>1. Temporaries(dir, stranded, FALSE, batch)
    BY DEF IInv, InDirectory, Running
  <2>2. Temporaries(dir', stranded', Running', batch')
    BY <2>1 DEF Temporaries
  <2>3. GuardHolds(dir', batch', guarded')
    BY <1>3 DEF GuardHolds
  <2>4. Directory(dir')
    BY DEF IInv, InDirectory
  <2> QED
    BY <2>2, <2>3, <2>4 DEF InDirectory
<1>6. InOrder'
  <2> SUFFICES ASSUME KeysDecide
               PROVE  Ordered(batch') /\ Located(dir', batch', removed' \cup astray')
    BY DEF InOrder
  <2>1. Ordered(b)
    BY <1>1
  <2>2. ASSUME NEW i \in DOMAIN p, p[i].item \notin removed' \cup astray'
        PROVE  \E e \in dir : e.item = p[i].item /\ SameName(e.name, Reported(b, i))
    <3>1. Reported(b, i) = p[i].old
      BY <1>1, NoneReady DEF Reported
    <3>2. Holds(dir, p[i].old, p[i].item)
      BY <2>2
    <3> QED
      BY <3>1, <3>2 DEF Holds, At
  <2> QED
    BY <1>1, <1>2, <2>1, <2>2 DEF Located
<1>7. NothingLost'
  BY DEF IInv, NothingLost
<1> QED
  BY <1>4, <1>5, <1>6, <1>7 DEF IInv

LEMMA ApplyKeeps == ASSUME IInv, Apply PROVE IInv'
<1>1. PICK selected \in Selections :
         /\ \A x \in selected : x \in Present(dir) /\ NameOf(dir, x) \in Names
         /\ LET before == [x \in selected |-> NameOf(dir, x)]
            IN  \E after \in [selected -> Names] :
                   /\ ConflictFree(before, after)
                   /\ after # before
                   /\ \E order \in SetToSeqs(Changed(before, after)) :
                         batch' = Started(RenamePairs(order, before, after))
  BY DEF Apply
<1> DEFINE before == [x \in selected |-> NameOf(dir, x)]
<1>2. PICK after \in [selected -> Names] :
         /\ ConflictFree(before, after)
         /\ \E order \in SetToSeqs(Changed(before, after)) :
               batch' = Started(RenamePairs(order, before, after))
  BY <1>1
<1>3. PICK order \in SetToSeqs(Changed(before, after)) :
         batch' = Started(RenamePairs(order, before, after))
  BY <1>2
<1>4. Planned(dir, selected, before, after)
  <2>1. selected \in SUBSET Items /\ Directory(dir)
    BY ItemsAssumption DEF IInv, InDirectory
  <2> QED
    BY <1>1, <1>2, <2>1 DEF Planned
<1> HIDE DEF before
<1> DEFINE p == RenamePairs(order, before, after)
<1>5. /\ Record(p) /\ (KeysDecide => Apart(p))
      /\ \A i \in DOMAIN p : \E e \in dir : e.item = p[i].item /\ e.name = p[i].old
  BY <1>3, <1>4, PlanIsRecord
<1> HIDE DEF p
<1>6. \A i \in DOMAIN p : Holds(dir, p[i].old, p[i].item)
  BY <1>5, SameNameEquivalence DEF Holds, At
<1>7. batch' = Started(p)
  BY <1>3 DEF p
<1>8. /\ worker = "idle" /\ worker' = "renaming" /\ undo' = undo
      /\ UNCHANGED <<dir, guarded, removed, stranded>>
  BY DEF Apply
<1>9. Records(undo')
  BY <1>8 DEF IInv, Books
<1> QED
  BY <1>5, <1>6, <1>7, <1>8, <1>9, BeginKeeps

\* A record backwards.
Backwards(r) == [i \in DOMAIN r |-> [item |-> r[i].item, old |-> r[i].new, new |-> r[i].old]]

LEMMA BackwardsIsRecord ==
    ASSUME NEW r, Record(r)
    PROVE  Record(Backwards(r)) /\ (Apart(r) => Apart(Backwards(r)))
<1> DEFINE q == Backwards(r)
<1>1. DOMAIN q = DOMAIN r /\ r \in Seq(Pairs) /\ DOMAIN r = 1..Len(r) /\ Len(r) \in Nat
  BY DEF Backwards, Record
<1>2. \A i \in DOMAIN r : q[i].item = r[i].item /\ q[i].old = r[i].new /\ q[i].new = r[i].old
  BY DEF Backwards
<1>3. \A i \in DOMAIN r : q[i] \in Pairs
  BY RecordTyped DEF Backwards, Pairs
<1>4. q \in Seq(Pairs)
  <2>1. q = [i \in 1..Len(r) |-> q[i]]
    BY <1>1 DEF Backwards
  <2> QED
    BY <1>1, <1>3, <2>1
<1> HIDE DEF q
<1>5. Record(q)
  BY <1>1, <1>2, <1>4 DEF Record
<1>6. Apart(r) => Apart(q)
  BY <1>1, <1>2 DEF Apart
<1> QED
  BY <1>5, <1>6 DEF q

LEMMA UndoKeeps == ASSUME IInv, UndoLast PROVE IInv'
<1> DEFINE r == Last(undo)
           p == Backwards(r)
<1>1. undo \in Seq(Seq(Pairs)) /\ undo # <<>> /\ Len(undo) \in Nat
  BY DEF IInv, Books, Records, UndoLast
<1>2. Len(undo) \in DOMAIN undo /\ r = undo[Len(undo)]
  BY <1>1 DEF Last
<1> HIDE DEF r
<1>3. Record(r) /\ (KeysDecide => Apart(r))
  BY <1>2 DEF IInv, Books, Records
<1>4. Record(p) /\ (KeysDecide => Apart(p))
  BY <1>3, BackwardsIsRecord
<1>5. /\ batch' = Started(p)
      /\ astray' = {q.item : q \in {s \in Range(p) : ~Holds(dir, s.old, s.item)}}
      /\ worker = "idle" /\ worker' = "undoing" /\ undo' = Front(undo)
      /\ UNCHANGED <<dir, guarded, removed, stranded>>
  BY DEF UndoLast, Backwards, r, counters
<1> HIDE DEF p
<1>6. \A i \in DOMAIN p : p[i].item \in astray' \/ Holds(dir, p[i].old, p[i].item)
  <2> SUFFICES ASSUME NEW i \in DOMAIN p, ~Holds(dir, p[i].old, p[i].item)
               PROVE  p[i].item \in astray'
    OBVIOUS
  <2>1. p[i] \in Range(p)
    BY DEF Range
  <2> QED
    BY <1>5, <2>1
<1>7. Records(undo')
  <2>1. /\ Front(undo) \in Seq(Seq(Pairs))
        /\ \A k \in DOMAIN Front(undo) : k \in DOMAIN undo /\ Front(undo)[k] = undo[k]
    <3>1. Front(undo) = [k \in 1..(Len(undo) - 1) |-> undo[k]]
      BY DEF Front
    <3>2. \A k \in 1..(Len(undo) - 1) : k \in 1..Len(undo)
      BY <1>1
    <3>3. DOMAIN undo = 1..Len(undo) /\ \A k \in 1..Len(undo) : undo[k] \in Seq(Pairs)
      BY <1>1
    <3>4. Len(undo) - 1 \in Nat
      BY <1>1
    <3> QED
      BY <3>1, <3>2, <3>3, <3>4
  <2>2. \A k \in DOMAIN undo : Record(undo[k]) /\ (KeysDecide => Apart(undo[k]))
    BY DEF IInv, Books, Records
  <2> QED
    BY <1>5, <2>1, <2>2 DEF Records
<1> QED
  BY <1>4, <1>5, <1>6, <1>7, BeginKeeps

\* Ordered and Located are about these fields only.
LEMMA SameOrdered ==
    ASSUME NEW b, Ordered(b), NEW n, n.pairs = b.pairs, n.parked = b.parked,
           n.renamed = b.renamed, n.done = b.done, n.waiting = b.waiting
    PROVE  Ordered(n)
BY DEF Ordered

LEMMA SameLocated ==
    ASSUME NEW d, NEW b, NEW lost, Located(d, b, lost), NEW n, n.pairs = b.pairs,
           n.src = b.src, n.renamed = b.renamed
    PROVE  Located(d, n, lost)
BY DEF Located, Reported

\* A pair whose guard, rename or parking failed.
LEMMA FailureKeeps ==
    ASSUME IInv, Running, NEW b, NEW g, Tried(b, g), KeysDecide => Ordered(b),
           b.pairs = batch.pairs, b.src = batch.src, b.renamed = batch.renamed,
           batch.tmpSeq <= b.tmpSeq, batch' = Settled(b, g), guarded' = 0,
           UNCHANGED <<dir, worker, undo, removed, stranded, astray>>
    PROVE  IInv'
<1> DEFINE n == Settled(b, g)
<1>1. /\ Booked(n, 0)
      /\ n.pairs = b.pairs /\ n.src = b.src /\ n.parked = b.parked
      /\ n.renamed = b.renamed /\ n.tmpSeq = b.tmpSeq /\ n.done = b.done \cup {g}
      /\ n.waiting = {w \in b.waiting : w.on # g}
  BY SettledBooked
<1> HIDE DEF n
<1>2. batch' = n
  BY DEF n
<1>3. Books'
  BY <1>1, <1>2 DEF IInv, Books, Running
<1>4. InDirectory'
  <2>1. Temporaries(dir', stranded', Running', batch')
    <3>1. batch.tmpSeq \in Nat /\ b.tmpSeq \in Nat
      BY DEF IInv, Books, Booked, Tried, Shape, Batch
    <3>2. \A x \in Nat : x <= batch.tmpSeq => x <= b.tmpSeq
      BY <3>1
    <3>3. Running'
      BY DEF Running
    <3> QED
      BY <1>1, <1>2, <3>2, <3>3 DEF IInv, InDirectory, Temporaries
  <2>2. GuardHolds(dir', batch', guarded')
    BY DEF GuardHolds
  <2> QED
    BY <2>1, <2>2 DEF IInv, InDirectory
<1>5. InOrder'
  <2> SUFFICES ASSUME KeysDecide
               PROVE  Ordered(batch') /\ Located(dir', batch', removed' \cup astray')
    BY DEF InOrder
  <2>1. Ordered(n)
    BY <1>1, SettledOrdered
  <2>2. Located(dir, batch, removed \cup astray)
    BY DEF IInv, InOrder
  <2>3. Located(dir, n, removed \cup astray)
    BY <1>1, <2>2, SameLocated
  <2> QED
    BY <1>2, <2>1, <2>3
<1>6. NothingLost'
  BY DEF IInv, NothingLost
<1> QED
  BY <1>3, <1>4, <1>5, <1>6 DEF IInv

LEMMA GuardKeeps == ASSUME IInv, Guard PROVE IInv'
<1> DEFINE i == Last(batch.ready)
           taken == At(dir, batch.pairs[i].new)
           same == taken # {} /\ taken = At(dir, batch.src[i])
           popped == [batch EXCEPT !.ready = Front(@)]
<1>1. /\ Running /\ guarded = 0 /\ batch.ready # <<>>
      /\ UNCHANGED <<dir, worker, undo, removed, stranded, astray>>
      /\ \/ (taken = {} \/ same) /\ guarded' = i /\ batch' = popped
         \/ guarded' = 0 /\ batch' = Settled(popped, i)
  BY DEF Guard, counters
<1>2. Booked(batch, 0)
  BY <1>1 DEF IInv, Books
<1>3. /\ Booked(popped, i) /\ Alike(batch, popped) /\ popped.waiting = batch.waiting
      /\ i \in DOMAIN batch.pairs \ batch.done
  BY <1>1, <1>2, PopBooked
<1> HIDE DEF i, popped, taken
<1>4. KeysDecide => Ordered(popped)
  BY <1>3, SameOrdered DEF IInv, InOrder, Alike
<1>5. CASE guarded' = 0 /\ batch' = Settled(popped, i)
  <2>1. Tried(popped, i)
    BY <1>3 DEF Tried, Booked, Alike
  <2>2. batch.tmpSeq <= popped.tmpSeq
    <3>1. batch.tmpSeq \in Nat
      BY <1>2 DEF Booked, Shape, Batch
    <3> QED
      BY <1>3, <3>1 DEF Alike
  <2> QED
    BY <1>1, <1>3, <1>4, <1>5, <2>1, <2>2, FailureKeeps DEF Alike
<1>6. CASE (taken = {} \/ same) /\ guarded' = i /\ batch' = popped
  <2>1. Books'
    BY <1>1, <1>3, <1>6 DEF IInv, Books, Running
  <2>2. Temporaries(dir', stranded', Running', batch')
    BY <1>1, <1>3, <1>6 DEF IInv, InDirectory, Temporaries, Running, Alike
  <2>3. GuardHolds(dir', batch', guarded')
    <3>1. \A e \in taken : e \in At(dir, batch.src[i])
      BY <1>6
    <3>2. \A e \in dir : SameName(e.name, batch.pairs[i].new) => SameName(e.name, batch.src[i])
      BY <3>1 DEF At, taken
    <3> QED
      BY <1>1, <1>3, <1>6, <3>2 DEF GuardHolds, Alike
  <2>4. InDirectory'
    BY <1>1, <2>2, <2>3 DEF IInv, InDirectory
  <2>5. InOrder'
    <3> SUFFICES ASSUME KeysDecide
                 PROVE  Ordered(batch') /\ Located(dir', batch', removed' \cup astray')
      BY DEF InOrder
    <3>1. Located(dir, batch, removed \cup astray)
      BY DEF IInv, InOrder
    <3>2. Located(dir, popped, removed \cup astray)
      BY <1>3, <3>1, SameLocated DEF Alike
    <3> QED
      BY <1>1, <1>4, <1>6, <3>2
  <2>6. NothingLost'
    BY <1>1 DEF IInv, NothingLost
  <2> QED
    BY <2>1, <2>4, <2>5, <2>6 DEF IInv
<1> QED
  BY <1>1, <1>5, <1>6

\* A rename under its guard, or to a new temporary name, destroys no item.
LEMMA MovedKept ==
    ASSUME NEW d, NEW old, NEW new, NEW gone, Items \subseteq Present(d) \cup gone,
           \A e \in d : SameName(e.name, new) /\ e.item \in Items
              => SameName(e.name, old) \/ e.item \in gone
    PROVE  Items \subseteq Present(Moved(d, old, new)) \cup gone
<1> SUFFICES ASSUME NEW x \in Items, x \notin gone PROVE x \in Present(Moved(d, old, new))
  OBVIOUS
<1>1. PICK e \in d : e.item = x
  BY EntryPresent
<1>2. CASE SameName(e.name, old)
  <2>1. [name |-> new, item |-> e.item] \in Moved(d, old, new)
    BY <1>2, MovedEntries
  <2> QED
    BY <1>1, <2>1, EntryPresent
<1>3. CASE ~SameName(e.name, old)
  <2>1. e \in Moved(d, old, new)
    BY <1>1, <1>3, MovedEntries
  <2> QED
    BY <1>1, <2>1, EntryPresent
<1> QED
  BY <1>2, <1>3

LEMMA RenameKeeps == ASSUME IInv, Rename PROVE IInv'
<1> DEFINE g == guarded
           new == batch.pairs[g].new
<1>1. /\ Running /\ g # 0 /\ guarded' = 0
      /\ UNCHANGED <<worker, undo, removed, stranded, astray>>
      /\ \/ dir' = Moved(dir, batch.src[g], new) /\ batch' = Succeeded(batch, g)
         \/ dir' = dir /\ batch' = Settled(batch, g)
  BY DEF Rename
<1>2. Booked(batch, g) /\ Shape(batch) /\ g \in DOMAIN batch.pairs \ batch.done
  BY <1>1 DEF IInv, Books, Booked, Queued
<1>3. batch.tmpSeq \in Nat /\ new \in Names
  <2>1. batch.tmpSeq \in Nat
    BY <1>2 DEF Shape, Batch
  <2> QED
    BY <1>2, <2>1, RecordTyped DEF Shape
<1>4. CASE dir' = dir /\ batch' = Settled(batch, g)
  <2>1. Tried(batch, g)
    BY <1>2 DEF Tried, Booked
  <2>2. batch.tmpSeq <= batch.tmpSeq
    BY <1>3
  <2> QED
    BY <1>1, <1>4, <2>1, <2>2, FailureKeeps DEF IInv, InOrder
<1>5. CASE dir' = Moved(dir, batch.src[g], new) /\ batch' = Succeeded(batch, g)
  <2> DEFINE n == Succeeded(batch, g)
             d == Moved(dir, batch.src[g], new)
  <2> HIDE DEF n
  <2>1. /\ Booked(n, 0)
        /\ n.pairs = batch.pairs /\ n.src = batch.src /\ n.parked = batch.parked
        /\ n.renamed = Append(batch.renamed, batch.pairs[g]) /\ n.tmpSeq = batch.tmpSeq
        /\ Range(n.renamed) = Range(batch.renamed) \cup {batch.pairs[g]}
        /\ n.done = batch.done \cup {g}
        /\ n.waiting = {w \in batch.waiting : w.on # g}
    BY <1>1, <1>2, SucceededBooked DEF n
  <2>2. batch' = n /\ dir' = d
    BY <1>5 DEF n
  <2>3. Books'
    BY <1>1, <2>1, <2>2 DEF IInv, Books, Running
  <2>4. Directory(dir) /\ Temporaries(dir, stranded, Running, batch) /\ GuardHolds(dir, batch, g)
    BY DEF IInv, InDirectory
  <2>5. Directory(d)
    BY <1>3, <2>4, MovedDirectory DEF Places
  <2>6. \A e \in d : e \in dir \/ e.name = new
    BY MovedEntries
  <2> HIDE DEF d
  <2>7. Temporaries(d, stranded, Running, n)
    BY <1>3, <2>1, <2>4, <2>6, NumbersAreNoNames DEF Temporaries
  <2>8. InDirectory'
    <3>1. GuardHolds(dir', batch', guarded')
      BY <1>1 DEF GuardHolds
    <3> QED
      BY <1>1, <2>2, <2>5, <2>7, <3>1 DEF InDirectory, Running
  <2>9. InOrder'
    <3> SUFFICES ASSUME KeysDecide
                 PROVE  Ordered(batch') /\ Located(dir', batch', removed' \cup astray')
      BY DEF InOrder
    <3>1. Ordered(batch) /\ Located(dir, batch, removed \cup astray)
      BY DEF IInv, InOrder
    <3>2. Ordered(n)
      <4> HIDE DEF g
      <4> QED
        BY <1>1, <1>2, <2>1, <3>1, SucceededOrdered
    <3>3. Located(d, n, removed \cup astray)
      BY <1>1, <1>2, <2>4, <3>1, RenameLocated DEF d, n
    <3> QED
      BY <1>1, <2>2, <3>2, <3>3
  <2>10. NothingLost'
    <3>1. \A e \in dir : SameName(e.name, new) /\ e.item \in Items
             => SameName(e.name, batch.src[g]) \/ e.item \in removed \cup stranded
      BY <1>1, <2>4, ItemsAssumption DEF GuardHolds
    <3>2. Items \subseteq Present(dir) \cup (removed \cup stranded)
      BY DEF IInv, NothingLost
    <3>3. Items \subseteq Present(d) \cup (removed \cup stranded)
      BY <3>1, <3>2, MovedKept DEF d
    <3> QED
      BY <1>1, <2>2, <3>3 DEF NothingLost
  <2> QED
    BY <2>3, <2>8, <2>9, <2>10 DEF IInv
<1> QED
  BY <1>1, <1>4, <1>5

LEMMA ParkKeeps == ASSUME IInv, Park PROVE IInv'
<1> DEFINE g == Min(Parkable)
           tmp == batch.tmpSeq + 1
           numbered == [batch EXCEPT !.tmpSeq = tmp]
           parked == Parked(batch, g)
<1>1. /\ Running /\ guarded = 0 /\ batch.ready = <<>> /\ Parkable # {}
      /\ UNCHANGED <<worker, guarded, undo, removed, stranded, astray>>
      /\ \/ dir' = Moved(dir, batch.src[g], tmp) /\ batch' = parked
         \/ dir' = dir /\ batch' = Settled(numbered, g)
  BY DEF Park, Blocked, Parked
<1>2. Booked(batch, 0) /\ Shape(batch)
  BY <1>1 DEF IInv, Books, Booked
<1>3. g \in DOMAIN batch.pairs \ (batch.done \cup batch.parked)
  <2>1. Parkable \subseteq DOMAIN batch.pairs
    BY DEF Parkable, Pending
  <2>2. Parkable \subseteq Nat
    BY <1>2, <2>1, IndicesFinite
  <2>3. g \in Parkable
    BY <1>1, <2>2, MinIsLeast
  <2> QED
    BY <2>3 DEF Parkable, Pending
<1> HIDE DEF g
<1>4. batch.tmpSeq \in Nat /\ tmp \in Nat /\ batch.tmpSeq <= tmp /\ ~(tmp <= batch.tmpSeq)
      /\ tmp <= tmp /\ \A x \in Nat : x <= batch.tmpSeq => x <= tmp
  <2>1. batch.tmpSeq \in Nat
    BY <1>2 DEF Shape, Batch
  <2> QED
    BY <2>1
<1>5. CASE dir' = dir /\ batch' = Settled(numbered, g)
  <2>1. /\ Tried(numbered, g) /\ numbered \in Batch
        /\ numbered.pairs = batch.pairs /\ numbered.src = batch.src
        /\ numbered.parked = batch.parked /\ numbered.done = batch.done
        /\ numbered.renamed = batch.renamed /\ numbered.waiting = batch.waiting
        /\ numbered.ready = <<>> /\ numbered.tmpSeq = tmp
    BY <1>1, <1>2, <1>3, NumberedTried
  <2> HIDE DEF numbered
  <2>2. KeysDecide => Ordered(numbered)
    BY <2>1, SameOrdered DEF IInv, InOrder
  <2> QED
    BY <1>1, <1>4, <1>5, <2>1, <2>2, FailureKeeps
<1>6. CASE dir' = Moved(dir, batch.src[g], tmp) /\ batch' = parked
  <2> DEFINE d == Moved(dir, batch.src[g], tmp)
  <2>1. /\ Booked(parked, 0)
        /\ parked.pairs = batch.pairs /\ parked.renamed = batch.renamed
        /\ parked.done = batch.done
        /\ parked.parked = batch.parked \cup {g} /\ parked.tmpSeq = tmp
        /\ parked.src = [batch.src EXCEPT ![g] = tmp]
        /\ parked.waiting = {w \in batch.waiting : w.on # g}
    <3>1. ParkedFrom(batch, g, parked)
      BY <1>1, <1>2, <1>3, ParkedBooked
    <3> HIDE DEF parked
    <3> QED
      BY <3>1 DEF ParkedFrom
  <2> HIDE DEF numbered, parked
  <2>2. Books'
    BY <1>1, <1>6, <2>1 DEF IInv, Books, Running
  <2>3. Directory(dir) /\ Temporaries(dir, stranded, Running, batch)
    BY DEF IInv, InDirectory
  <2>4. Directory(d)
    BY <1>4, <2>3, MovedDirectory DEF Places
  <2>5. \A e \in d : e \in dir \/ e.name = tmp
    BY MovedEntries
  <2> HIDE DEF d
  <2>6. Temporaries(d, stranded, TRUE, parked)
    BY <1>4, <2>1, <2>3, <2>5 DEF Temporaries
  <2>7. InDirectory'
    <3>1. GuardHolds(dir', batch', guarded')
      BY <1>1 DEF GuardHolds
    <3>2. Running' = TRUE
      BY <1>1 DEF Running
    <3> QED
      BY <1>1, <1>6, <2>4, <2>6, <3>1, <3>2 DEF InDirectory, d
  <2>8. InOrder'
    <3> SUFFICES ASSUME KeysDecide
                 PROVE  Ordered(batch') /\ Located(dir', batch', removed' \cup astray')
      BY DEF InOrder
    <3>1. Ordered(batch) /\ Located(dir, batch, removed \cup astray)
      BY DEF IInv, InOrder
    <3>2. Ordered(parked)
      BY <2>1, <3>1, ParkedOrdered
    <3>3. Located(d, parked, removed \cup astray)
      BY <1>2, <1>3, <2>1, <2>3, <3>1, ParkLocated DEF d
    <3> QED
      BY <1>1, <1>6, <3>2, <3>3 DEF d
  <2>9. NothingLost'
    <3>1. ASSUME NEW e \in dir, SameName(e.name, tmp) PROVE e.item \in removed \cup stranded
      <4>1. e.name \in Nat /\ e.name = tmp
        BY <1>4, <2>3, <3>1, EntryTyped, NumbersAreNoNames DEF Places
      <4> QED
        BY <1>4, <2>3, <4>1 DEF Temporaries
    <3>2. Items \subseteq Present(dir) \cup (removed \cup stranded)
      BY DEF IInv, NothingLost
    <3>3. Items \subseteq Present(d) \cup (removed \cup stranded)
      BY <3>1, <3>2, MovedKept DEF d
    <3> QED
      BY <1>1, <1>6, <3>3 DEF NothingLost, d
  <2> QED
    BY <2>2, <2>7, <2>8, <2>9 DEF IInv
<1> QED
  BY <1>1, <1>5, <1>6

\* What a batch reports as renamed is a record.
LEMMA ReportIsRecord ==
    ASSUME NEW b, Shape(b)
    PROVE  Record(b.renamed) /\ (Apart(b.pairs) => Apart(b.renamed))
<1>1. b.renamed \in Seq(Pairs)
  BY DEF Shape, Batch
<1>2. /\ \A k \in DOMAIN b.renamed : \E j \in DOMAIN b.pairs : b.renamed[k] = b.pairs[j]
      /\ \A k, l \in DOMAIN b.renamed : b.renamed[k].item = b.renamed[l].item => k = l
  BY DEF Shape, Reports
<1>3. /\ \A i \in DOMAIN b.pairs : b.pairs[i].old # b.pairs[i].new
  BY DEF Shape, Record
<1>4. Record(b.renamed)
  BY <1>1, <1>2, <1>3 DEF Record
<1>5. ASSUME Apart(b.pairs), NEW k \in DOMAIN b.renamed, NEW l \in DOMAIN b.renamed, k # l
      PROVE  /\ Key[b.renamed[k].old] # Key[b.renamed[l].old]
             /\ Key[b.renamed[k].new] # Key[b.renamed[l].new]
  <2>1. PICK i \in DOMAIN b.pairs : b.renamed[k] = b.pairs[i]
    BY <1>2
  <2>2. PICK j \in DOMAIN b.pairs : b.renamed[l] = b.pairs[j]
    BY <1>2
  <2>3. i # j
    BY <1>2, <1>5, <2>1, <2>2
  <2> QED
    BY <1>5, <2>1, <2>2, <2>3 DEF Apart
<1> QED
  BY <1>4, <1>5 DEF Apart

LEMMA FinishKeeps == ASSUME IInv, Finish PROVE IInv'
<1>1. /\ guarded = 0 /\ worker' = "idle" /\ batch' = Idle
      /\ undo' = undo \/ undo' = Append(undo, batch.renamed)
      /\ stranded' = stranded \cup {e.item : e \in {f \in dir : f.name \notin Names}}
      /\ UNCHANGED <<dir, guarded, removed, astray>>
  BY DEF Finish, Blocked
<1>2. Booked(batch, 0) /\ Shape(batch)
  BY <1>1 DEF IInv, Books, Booked
<1>3. Records(undo')
  <2>1. Records(undo)
    BY DEF IInv, Books
  <2>2. ASSUME undo' = Append(undo, batch.renamed) PROVE Records(undo')
    <3> DEFINE r == batch.renamed
    <3>1. Record(r) /\ (KeysDecide => Apart(r))
      BY <1>2, ReportIsRecord DEF IInv, InOrder, Ordered
    <3>2. undo \in Seq(Seq(Pairs)) /\ r \in Seq(Pairs)
      BY <2>1, <3>1 DEF Records, Record
    <3> HIDE DEF r
    <3>3. /\ Append(undo, r) \in Seq(Seq(Pairs))
          /\ DOMAIN Append(undo, r) = 1..(Len(undo) + 1) /\ DOMAIN undo = 1..Len(undo)
          /\ \A k \in DOMAIN Append(undo, r) :
                Append(undo, r)[k] = IF k = Len(undo) + 1 THEN r ELSE undo[k]
      BY <3>2, AppendRange
    <3>4. \A k \in 1..(Len(undo) + 1) : k # Len(undo) + 1 => k \in 1..Len(undo)
      <4>1. Len(undo) \in Nat
        BY <3>2
      <4> QED
        BY <4>1
    <3>5. undo' = Append(undo, r)
      BY <2>2 DEF r
    <3> QED
      BY <2>1, <3>1, <3>3, <3>4, <3>5 DEF Records
  <2> QED
    BY <1>1, <2>1, <2>2
<1>4. Books'
  BY <1>1, <1>3, IdleBooked DEF Books
<1>5. InDirectory'
  <2>1. ASSUME NEW e \in dir, e.name \in Nat PROVE e.item \in stranded'
    BY <1>1, <2>1, NumbersAreNoNames
  <2>2. Temporaries(dir', stranded', Running', batch')
    BY <1>1, <2>1 DEF Temporaries
  <2>3. GuardHolds(dir', batch', guarded')
    BY <1>1 DEF GuardHolds
  <2> QED
    BY <1>1, <2>2, <2>3 DEF IInv, InDirectory
<1>6. InOrder'
  <2>1. DOMAIN Idle.pairs = {}
    BY DEF Idle
  <2>2. Located(dir', Idle, removed' \cup astray')
    BY <2>1 DEF Located
  <2> QED
    BY <1>1, <2>2, IdleOrdered DEF InOrder
<1>7. NothingLost'
  BY <1>1 DEF IInv, NothingLost
<1> QED
  BY <1>4, <1>5, <1>6, <1>7 DEF IInv

LEMMA ForeignCreateKeeps ==
    ASSUME IInv, NEW name \in Names, NEW item \in Newcomers, ForeignCreate(name, item)
    PROVE  IInv'
<1> DEFINE e == [name |-> name, item |-> item]
<1>1. /\ item \notin Present(dir) /\ At(dir, name) = {} /\ dir' = dir \cup {e}
      /\ UNCHANGED <<worker, batch, guarded, undo, removed, stranded, astray>>
  BY DEF ForeignCreate
<1>2. e.name = name /\ e.item = item /\ e \in [name : Places, item : Items \cup Newcomers]
  BY DEF Places
<1> HIDE DEF e
<1>3. Books'
  BY <1>1 DEF IInv, Books
<1>4. InDirectory'
  <2>1. Directory(dir) /\ Temporaries(dir, stranded, Running, batch)
        /\ GuardHolds(dir, batch, guarded)
    BY DEF IInv, InDirectory
  <2>2. \A f \in dir : ~SameName(f.name, name) /\ f.item # item
    BY <1>1, EntryPresent DEF At
  <2>3. \A f \in dir : ~SameName(name, f.name)
    BY <2>2, SameNameEquivalence
  <2>4. Directory(dir')
    BY <1>1, <1>2, <2>1, <2>2, <2>3 DEF Directory
  <2>5. Temporaries(dir', stranded', Running', batch')
    BY <1>1, <1>2, <2>1, NumbersAreNoNames DEF Temporaries, Running
  <2>6. GuardHolds(dir', batch', guarded')
    BY <1>1, <1>2, <2>1 DEF GuardHolds
  <2> QED
    BY <2>4, <2>5, <2>6 DEF InDirectory
<1>5. InOrder'
  BY <1>1 DEF IInv, InOrder, Located
<1>6. NothingLost'
  <2>1. Present(dir) \subseteq Present(dir')
    BY <1>1 DEF Present
  <2> QED
    BY <1>1, <2>1 DEF IInv, NothingLost
<1> QED
  BY <1>3, <1>4, <1>5, <1>6 DEF IInv

LEMMA ForeignRemoveKeeps ==
    ASSUME IInv, NEW entry \in dir, ForeignRemove(entry)
    PROVE  IInv'
<1>1. /\ dir' = dir \ {entry} /\ removed' = removed \cup {entry.item}
      /\ UNCHANGED <<worker, batch, guarded, undo, stranded, astray>>
  BY DEF ForeignRemove
<1>2. Books'
  BY <1>1 DEF IInv, Books
<1>3. InDirectory'
  <2>1. Directory(dir')
    BY <1>1 DEF IInv, InDirectory, Directory
  <2>2. Temporaries(dir', stranded', Running', batch')
    BY <1>1 DEF IInv, InDirectory, Temporaries, Running
  <2>3. GuardHolds(dir', batch', guarded')
    BY <1>1 DEF IInv, InDirectory, GuardHolds
  <2> QED
    BY <2>1, <2>2, <2>3 DEF InDirectory
<1>4. InOrder'
  <2> SUFFICES ASSUME KeysDecide
               PROVE  Ordered(batch') /\ Located(dir', batch', removed' \cup astray')
    BY DEF InOrder
  <2>1. Located(dir, batch, removed \cup astray) /\ Ordered(batch)
    BY DEF IInv, InOrder
  <2>2. ASSUME NEW i \in DOMAIN batch.pairs, batch.pairs[i].item \notin removed' \cup astray'
        PROVE  \E e \in dir' :
                  e.item = batch.pairs[i].item /\ SameName(e.name, Reported(batch, i))
    <3>1. PICK e \in dir : e.item = batch.pairs[i].item /\ SameName(e.name, Reported(batch, i))
      BY <1>1, <2>1, <2>2 DEF Located
    <3>2. e # entry
      BY <1>1, <2>2, <3>1
    <3> QED
      BY <1>1, <3>1, <3>2
  <2>3. Located(dir', batch, removed' \cup astray')
    BY <2>2 DEF Located
  <2> QED
    BY <1>1, <2>1, <2>3
<1>5. NothingLost'
  <2> SUFFICES ASSUME NEW x \in Items, x \notin removed' \cup stranded'
               PROVE  x \in Present(dir')
    BY DEF NothingLost
  <2>1. x \in Present(dir) /\ x # entry.item
    BY <1>1 DEF IInv, NothingLost
  <2>2. PICK e \in dir : e.item = x
    BY <2>1, EntryPresent
  <2>3. e \in dir'
    BY <1>1, <2>1, <2>2
  <2> QED
    BY <2>2, <2>3, EntryPresent
<1> QED
  BY <1>2, <1>3, <1>4, <1>5 DEF IInv

LEMMA NextKeeps == ASSUME IInv, [Next]_vars PROVE IInv'
<1>1. CASE Apply
  BY <1>1, ApplyKeeps
<1>2. CASE UndoLast
  BY <1>2, UndoKeeps
<1>3. CASE RunRenames
  BY <1>3, GuardKeeps, RenameKeeps, ParkKeeps, FinishKeeps DEF RunRenames
<1>4. CASE OtherPrograms
  BY <1>4, ForeignCreateKeeps, ForeignRemoveKeeps DEF OtherPrograms
<1>5. CASE UNCHANGED vars
  BY <1>5 DEF vars, IInv, Books, InDirectory, InOrder, NothingLost, Running
<1> QED
  BY <1>1, <1>2, <1>3, <1>4, <1>5 DEF Next

LEMMA Invariance == Spec => []IInv
<1>1. Init => IInv
  BY InitKeeps
<1>2. IInv /\ [Next]_vars => IInv'
  BY NextKeeps
<1> QED
  BY <1>1, <1>2, PTL DEF Spec

LEMMA CyclesBreak == ASSUME IInv PROVE EveryCycleBreaks
<1> SUFFICES ASSUME Blocked, Parkable = {}, NEW i \in Pending PROVE FALSE
  BY DEF EveryCycleBreaks
<1>1. Booked(batch, 0) /\ batch.ready = <<>>
  BY DEF IInv, Books, Blocked
<1>2. i # 0 /\ i \notin Range(batch.ready)
  BY <1>1, NoneReady, IndicesFinite DEF Booked, Pending
<1>3. PICK w \in batch.waiting : w.pair = i
  BY <1>1, <1>2 DEF Booked, Queued, Awaiting, Pending
<1>4. w.on \in Parkable
  BY <1>1, <1>3 DEF Booked, Waits, Parkable, Pending
<1> QED
  BY <1>4

----
(* Calm behaviours: renames succeed and no other program acts.  Then the   *)
(* directory holds the items and nothing else, an item of the running      *)
(* batch is at the very name the result will give, and the rest at names.  *)

Member(b, x) == \E i \in DOMAIN b.pairs : b.pairs[i].item = x

Whole(d, b) ==
    /\ \A e \in d : e.item \in Items /\ (e.name \in Names \/ Member(b, e.item))
    /\ \A x \in Items : \E e \in d : e.item = x

Exact(d, b) ==
    \A i \in DOMAIN b.pairs :
        \E e \in d : e.name = Reported(b, i) /\ e.item = b.pairs[i].item

\* Whatever sits where a pair is still to go is itself to leave.
Leaves(b, e) ==
    \E j \in DOMAIN b.pairs \ (b.done \cup b.parked) : b.pairs[j].item = e.item

Clear(d, b) ==
    \A i \in DOMAIN b.pairs \ b.done, e \in d :
        SameName(e.name, b.pairs[i].new) => Leaves(b, e)

\* No guard refuses a parked pair, nor any pair of an undo.
Sure(b, w) ==
    \A i \in b.done : w = "undoing" \/ i \in b.parked => b.pairs[i] \in Range(b.renamed)

\* Who is waited for has the name.
Blocks(b) == \A w \in b.waiting : Key[b.pairs[w.on].old] = Key[b.pairs[w.pair].new]

CalmBatch(d, b, w) ==
    /\ Whole(d, b) /\ Exact(d, b)
    /\ w = "undoing" \/ b.parked # {} => Clear(d, b)
    /\ Sure(b, w) /\ Blocks(b)

\* n is d with its entry of item x under another name.
Reentered(d, n, x, name) ==
    /\ \A e \in n : (e \in d /\ e.item # x) \/ (e.name = name /\ e.item = x)
    /\ \A e \in d : e.item # x => e \in n
    /\ \E e \in n : e.name = name /\ e.item = x

LEMMA CleanMove ==
    ASSUME NEW d, Directory(d), NEW f \in d, NEW new,
           \A e \in d : SameName(e.name, new) => SameName(e.name, f.name)
    PROVE  Reentered(d, Moved(d, f.name, new), f.item, new)
<1> DEFINE n == Moved(d, f.name, new)
<1>1. /\ \A e \in n : \/ e \in d /\ ~SameName(e.name, f.name) /\ ~SameName(e.name, new)
                      \/ \E g \in d : SameName(g.name, f.name) /\ e = [name |-> new, item |-> g.item]
      /\ \A e \in d : ~SameName(e.name, f.name) /\ ~SameName(e.name, new) => e \in n
      /\ \A g \in d : SameName(g.name, f.name) => [name |-> new, item |-> g.item] \in n
  BY MovedEntries
<1> HIDE DEF n
<1>2. \A e \in d : SameName(e.name, f.name) \/ e.item = f.item => e = f
  BY DEF Directory
<1>3. \A e \in n : (e \in d /\ e.item # f.item) \/ (e.name = new /\ e.item = f.item)
  <2> SUFFICES ASSUME NEW e \in n
               PROVE  (e \in d /\ e.item # f.item) \/ (e.name = new /\ e.item = f.item)
    OBVIOUS
  <2>1. CASE e \in d /\ ~SameName(e.name, f.name)
    BY <1>2, <2>1, SameNameEquivalence
  <2>2. CASE \E g \in d : SameName(g.name, f.name) /\ e = [name |-> new, item |-> g.item]
    BY <1>2, <2>2
  <2> QED
    BY <1>1, <2>1, <2>2
<1>4. \A e \in d : e.item # f.item => e \in n
  BY <1>1, <1>2
<1>5. \E e \in n : e.name = new /\ e.item = f.item
  <2>1. [name |-> new, item |-> f.item] \in n
    BY <1>1, SameNameEquivalence
  <2> QED
    BY <2>1
<1> QED
  BY <1>3, <1>4, <1>5 DEF Reentered, n

\* The entry of a pair still to be renamed.
LEMMA PendingEntry ==
    ASSUME NEW d, Directory(d), NEW b, Shape(b), Exact(d, b),
           NEW j \in DOMAIN b.pairs \ b.done
    PROVE  /\ \E e \in d : e.name = b.src[j] /\ e.item = b.pairs[j].item
           /\ \A e \in d : e.item = b.pairs[j].item => e.name = b.src[j]
<1>1. Reported(b, j) = b.src[j]
  BY NotReported DEF Reported
<1>2. PICK e \in d : e.name = b.src[j] /\ e.item = b.pairs[j].item
  BY <1>1 DEF Exact
<1>3. \A f \in d : f.item = b.pairs[j].item => f = e
  BY <1>2 DEF Directory
<1> QED
  BY <1>2, <1>3

\* Blocked, every pair waits for one that has not left, so it alone is in the way.
LEMMA BlockedClear ==
    ASSUME NEW d, Directory(d), NEW b, Booked(b, 0), b.ready = <<>>, KeysDecide,
           Exact(d, b), Blocks(b)
    PROVE  Clear(d, b)
<1>1. Shape(b)
  BY DEF Booked
<1> SUFFICES ASSUME NEW i \in DOMAIN b.pairs \ b.done, NEW e \in d,
                    SameName(e.name, b.pairs[i].new)
             PROVE  Leaves(b, e)
  BY DEF Clear
<1>2. i # 0 /\ i \notin Range(b.ready)
  BY <1>1, NoneReady, IndicesFinite
<1>3. PICK w \in b.waiting : w.pair = i
  BY <1>2 DEF Booked, Queued, Awaiting
<1>4. w.on \in DOMAIN b.pairs \ (b.done \cup b.parked)
  BY DEF Booked, Waits
<1>5. Key[b.pairs[w.on].old] = Key[b.pairs[i].new]
  BY <1>3 DEF Blocks
<1>6. b.pairs[w.on].old \in Names /\ b.pairs[i].new \in Names
  BY <1>1, <1>4, RecordTyped DEF Shape
<1>7. SameName(b.pairs[w.on].old, b.pairs[i].new)
  BY <1>5, <1>6 DEF KeysDecide
<1>8. PICK f \in d : f.name = b.src[w.on] /\ f.item = b.pairs[w.on].item
  BY <1>1, <1>4, PendingEntry
<1>9. b.src[w.on] = b.pairs[w.on].old
  BY <1>1, <1>4 DEF Shape, Sources
<1>10. SameName(e.name, f.name)
  BY <1>7, <1>8, <1>9, SameNameEquivalence
<1>11. e = f
  BY <1>10 DEF Directory
<1> QED
  BY <1>4, <1>8, <1>11 DEF Leaves

\* Where the way is clear, only the pair itself can be at its new name.
LEMMA ClearPasses ==
    ASSUME NEW d, Directory(d), NEW b, NEW g, Booked(b, g), g # 0, Ordered(b), KeysDecide,
           Exact(d, b), Clear(d, b)
    PROVE  \A e \in d : SameName(e.name, b.pairs[g].new) => e.name = b.src[g]
<1>1. Shape(b) /\ g \in DOMAIN b.pairs \ b.done /\ g \notin Awaiting(b)
  BY DEF Booked, Queued
<1> SUFFICES ASSUME NEW e \in d, SameName(e.name, b.pairs[g].new) PROVE e.name = b.src[g]
  OBVIOUS
<1>2. PICK j \in DOMAIN b.pairs \ (b.done \cup b.parked) : b.pairs[j].item = e.item
  BY <1>1 DEF Clear, Leaves
<1>3. e.name = b.src[j]
  BY <1>1, <1>2, PendingEntry
<1>4. j = g
  BY <1>1, <1>3, NoneInTheWay
<1> QED
  BY <1>3, <1>4

\* An item that leaves its place and is found again keeps the directory whole.
LEMMA ReenteredWhole ==
    ASSUME NEW d, NEW b, Whole(d, b), NEW n, n.pairs = b.pairs, NEW g \in DOMAIN b.pairs,
           Shape(b), NEW m, NEW name, Reentered(d, m, b.pairs[g].item, name)
    PROVE  Whole(m, n)
<1>1. b.pairs[g].item \in Items /\ Member(b, b.pairs[g].item)
  BY RecordTyped DEF Shape, Member
<1>2. \A x : Member(n, x) <=> Member(b, x)
  BY DEF Member
<1>3. \A e \in m : e.item \in Items /\ (e.name \in Names \/ Member(n, e.item))
  BY <1>1, <1>2 DEF Whole, Reentered
<1>4. ASSUME NEW x \in Items PROVE \E e \in m : e.item = x
  BY DEF Whole, Reentered
<1> QED
  BY <1>3, <1>4 DEF Whole

LEMMA ReenteredExact ==
    ASSUME NEW d, NEW b, Exact(d, b), Shape(b), NEW n, n.pairs = b.pairs,
           NEW g \in DOMAIN b.pairs,
           \A i \in DOMAIN b.pairs \ {g} : Reported(n, i) = Reported(b, i),
           NEW m, Reentered(d, m, b.pairs[g].item, Reported(n, g))
    PROVE  Exact(m, n)
<1> SUFFICES ASSUME NEW i \in DOMAIN b.pairs
             PROVE  \E e \in m : e.name = Reported(n, i) /\ e.item = b.pairs[i].item
  BY DEF Exact
<1>1. CASE i = g
  BY <1>1 DEF Reentered
<1>2. CASE i # g
  <2>1. PICK e \in d : e.name = Reported(b, i) /\ e.item = b.pairs[i].item
    BY DEF Exact
  <2>2. b.pairs[i].item # b.pairs[g].item
    BY <1>2 DEF Shape, Record
  <2>3. e \in m
    BY <2>1, <2>2 DEF Reentered
  <2> QED
    BY <1>2, <2>1, <2>3
<1> QED
  BY <1>1, <1>2

\* g's pair is renamed, or parked: it no longer is to leave, and took no other's place.
LEMMA ReenteredClear ==
    ASSUME NEW d, NEW b, Clear(d, b), Shape(b), NEW n, n.pairs = b.pairs,
           NEW g \in DOMAIN b.pairs,
           b.done \subseteq n.done, n.done \cup n.parked = b.done \cup b.parked \cup {g},
           NEW name, NEW m, Reentered(d, m, b.pairs[g].item, name),
           \A i \in DOMAIN b.pairs \ n.done : ~SameName(name, b.pairs[i].new)
    PROVE  Clear(m, n)
<1> SUFFICES ASSUME NEW i \in DOMAIN b.pairs \ n.done, NEW e \in m,
                    SameName(e.name, b.pairs[i].new)
             PROVE  Leaves(n, e)
  BY DEF Clear
<1>1. e \in d /\ e.item # b.pairs[g].item
  BY DEF Reentered
<1>2. Leaves(b, e)
  BY <1>1 DEF Clear
<1>3. PICK j \in DOMAIN b.pairs \ (b.done \cup b.parked) : b.pairs[j].item = e.item
  BY <1>2 DEF Leaves
<1>4. j \notin n.done \cup n.parked
  BY <1>1, <1>3
<1> QED
  BY <1>3, <1>4 DEF Leaves

LEMMA RenamedCalm ==
    ASSUME NEW d, NEW b, NEW g, Booked(b, g), g # 0, Ordered(b), KeysDecide,
           NEW w, CalmBatch(d, b, w), NEW n, n.pairs = b.pairs, n.src = b.src,
           n.parked = b.parked, n.done = b.done \cup {g},
           Range(n.renamed) = Range(b.renamed) \cup {b.pairs[g]},
           n.waiting = {v \in b.waiting : v.on # g},
           NEW m, Reentered(d, m, b.pairs[g].item, b.pairs[g].new)
    PROVE  CalmBatch(m, n, w)
<1>1. Shape(b) /\ g \in DOMAIN b.pairs
  BY DEF Booked, Queued
<1>2. Reported(n, g) = b.pairs[g].new
  BY DEF Reported
<1>3. \A i \in DOMAIN b.pairs \ {g} : b.pairs[i] # b.pairs[g]
  BY <1>1 DEF Shape, Record
<1>4. \A i \in DOMAIN b.pairs \ {g} : Reported(n, i) = Reported(b, i)
  BY <1>3 DEF Reported
<1>5. Whole(d, b) /\ Exact(d, b)
  BY DEF CalmBatch
<1>6. Whole(m, n)
  BY <1>1, <1>5, ReenteredWhole
<1>7. Exact(m, n)
  BY <1>1, <1>2, <1>4, <1>5, ReenteredExact
<1>8. ASSUME w = "undoing" \/ n.parked # {} PROVE Clear(m, n)
  <2>1. Clear(d, b)
    BY <1>8 DEF CalmBatch
  <2>2. ASSUME NEW i \in DOMAIN b.pairs \ n.done
        PROVE  ~SameName(b.pairs[g].new, b.pairs[i].new)
    <3>1. b.pairs[g].new \in Names /\ b.pairs[i].new \in Names
      BY <1>1, RecordTyped DEF Shape
    <3>2. Key[b.pairs[g].new] # Key[b.pairs[i].new]
      BY <1>1 DEF Ordered, Apart
    <3> QED
      BY <3>1, <3>2 DEF KeysDecide
  <2>3. b.done \subseteq n.done /\ n.done \cup n.parked = b.done \cup b.parked \cup {g}
    OBVIOUS
  <2> QED
    BY <1>1, <2>1, <2>2, <2>3, ReenteredClear
<1>9. Sure(n, w)
  BY DEF CalmBatch, Sure
<1>10. Blocks(n)
  BY DEF CalmBatch, Blocks
<1> QED
  BY <1>6, <1>7, <1>8, <1>9, <1>10 DEF CalmBatch

LEMMA ParkedCalm ==
    ASSUME NEW d, NEW b, NEW n, NEW g, ParkedFrom(b, g, n), Shape(b),
           g \in DOMAIN b.pairs \ (b.done \cup b.parked),
           NEW w, CalmBatch(d, b, w), Clear(d, b),
           NEW m, Reentered(d, m, b.pairs[g].item, b.tmpSeq + 1)
    PROVE  CalmBatch(m, n, w)
<1> DEFINE tmp == b.tmpSeq + 1
<1>1. /\ n.pairs = b.pairs /\ n.renamed = b.renamed /\ n.done = b.done
      /\ n.parked = b.parked \cup {g} /\ n.src = [b.src EXCEPT ![g] = tmp]
      /\ n.waiting = {v \in b.waiting : v.on # g}
  BY DEF ParkedFrom
<1>2. tmp \in Nat
  BY DEF Shape, Batch
<1> HIDE DEF tmp
<1>3. g \in DOMAIN b.src
  BY DEF Shape, Sources
<1>4. Reported(n, g) = tmp
  <2>1. b.pairs[g] \notin Range(b.renamed)
    BY NotReported
  <2> QED
    BY <1>1, <1>3, <2>1 DEF Reported
<1>5. \A i \in DOMAIN b.pairs \ {g} : Reported(n, i) = Reported(b, i)
  BY <1>1, <1>3 DEF Reported, Shape, Sources
<1>6. Whole(d, b) /\ Exact(d, b) /\ Reentered(d, m, b.pairs[g].item, tmp)
  BY DEF CalmBatch, tmp
<1>7. Whole(m, n)
  BY <1>1, <1>6, ReenteredWhole
<1>8. Exact(m, n)
  BY <1>1, <1>4, <1>5, <1>6, ReenteredExact
<1>9. Clear(m, n)
  <2>1. ASSUME NEW i \in DOMAIN b.pairs \ n.done PROVE ~SameName(tmp, b.pairs[i].new)
    <3>1. b.pairs[i].new \in Names
      BY RecordTyped DEF Shape
    <3> QED
      BY <1>2, <3>1, NumbersAreNoNames
  <2>2. b.done \subseteq n.done /\ n.done \cup n.parked = b.done \cup b.parked \cup {g}
    BY <1>1
  <2> QED
    BY <1>1, <1>6, <2>1, <2>2, ReenteredClear
<1>10. Sure(n, w)
  BY <1>1 DEF CalmBatch, Sure
<1>11. Blocks(n)
  BY <1>1 DEF CalmBatch, Blocks
<1> QED
  BY <1>7, <1>8, <1>9, <1>10, <1>11 DEF CalmBatch

\* A guard may refuse a pair of a batch of which nothing is parked.
LEMMA RefusedCalm ==
    ASSUME NEW d, NEW b, NEW w, CalmBatch(d, b, w), w # "undoing", b.parked = {},
           NEW g, NEW n, n.pairs = b.pairs, n.src = b.src, n.parked = b.parked,
           n.done = b.done \cup {g}, n.renamed = b.renamed,
           n.waiting = {v \in b.waiting : v.on # g}
    PROVE  CalmBatch(d, n, w)
<1>1. Whole(d, n)
  BY DEF CalmBatch, Whole, Member
<1>2. Exact(d, n)
  BY DEF CalmBatch, Exact, Reported
<1>3. Sure(n, w)
  BY DEF Sure
<1>4. Blocks(n)
  BY DEF CalmBatch, Blocks
<1> QED
  BY <1>1, <1>2, <1>3, <1>4 DEF CalmBatch

LEMMA SameCalm ==
    ASSUME NEW d, NEW b, NEW w, CalmBatch(d, b, w), NEW n, Alike(b, n), n.waiting = b.waiting
    PROVE  CalmBatch(d, n, w)
<1>1. Whole(d, n) /\ Exact(d, n)
  BY DEF CalmBatch, Alike, Whole, Exact, Member, Reported
<1>2. Clear(d, b) => Clear(d, n)
  BY DEF Alike, Clear, Leaves
<1>3. Sure(n, w) /\ Blocks(n)
  BY DEF CalmBatch, Alike, Sure, Blocks
<1> QED
  BY <1>1, <1>2, <1>3 DEF CalmBatch, Alike

LEMMA StartedBlocks ==
    ASSUME NEW p, Record(p), Apart(p)
    PROVE  Blocks(Started(p))
<1>1. \A v \in Started(p).waiting :
         /\ v.on \in DOMAIN p /\ v.pair \in DOMAIN p
         /\ v.on \in Occupant(p, p[v.pair].new)
  BY DEF Started
<1>2. Started(p).pairs = p
  BY DEF Started
<1> SUFFICES ASSUME NEW v \in Started(p).waiting
             PROVE  Key[p[v.on].old] = Key[p[v.pair].new]
  BY <1>2 DEF Blocks
<1> DEFINE name == p[v.pair].new
           holders == {k \in DOMAIN p : KeyOf(p[k].old) = KeyOf(name)}
<1>3. v.pair \in DOMAIN p /\ v.on \in Occupant(p, name)
  BY <1>1
<1>4. name \in Names /\ \A k \in DOMAIN p : p[k].old \in Names /\ k \in Nat
  <2>1. p \in Seq(Pairs)
    BY DEF Record
  <2> QED
    BY <1>3, <2>1, RecordTyped
<1> HIDE DEF name
<1>5. \A j, k \in holders : j = k
  BY <1>4 DEF KeyOf, Apart
<1>6. holders # {} /\ v.on = Max(holders)
  BY <1>3 DEF Occupant
<1>7. Max(holders) \in holders
  <2>1. PICK h \in holders : TRUE
    BY <1>6
  <2>2. h \in Nat
    BY <1>4
  <2>3. h >= h
    BY <2>2
  <2>4. holders = {h}
    BY <1>5
  <2> HIDE DEF holders
  <2> QED
    BY <2>3, <2>4 DEF Max
<1>8. KeyOf(p[v.on].old) = KeyOf(name) /\ v.on \in DOMAIN p
  BY <1>6, <1>7
<1> QED
  BY <1>4, <1>8 DEF KeyOf, name

\* A batch whose pairs name the entries as they are begins calm.
LEMMA BegunCalm ==
    ASSUME NEW d, Whole(d, Idle), NEW p, Record(p), Apart(p),
           \A i \in DOMAIN p : \E e \in d : e.name = p[i].old /\ e.item = p[i].item,
           NEW w, w = "undoing" => Clear(d, Started(p))
    PROVE  CalmBatch(d, Started(p), w)
<1> DEFINE b == Started(p)
<1>1. b.pairs = p /\ b.renamed = <<>> /\ b.done = {} /\ b.parked = {}
      /\ b.src = [i \in DOMAIN p |-> p[i].old]
  BY StartedBooked
<1>2. Blocks(b)
  BY StartedBlocks
<1>3. w = "undoing" => Clear(d, b)
  OBVIOUS
<1> HIDE DEF b
<1>4. Whole(d, b)
  <2>1. ~\E x : Member(Idle, x)
    BY DEF Member, Idle
  <2> QED
    BY <2>1 DEF Whole
<1>5. \A i \in DOMAIN p : Reported(b, i) = p[i].old
  BY <1>1, NoneReady DEF Reported
<1>6. Exact(d, b)
  BY <1>1, <1>5 DEF Exact
<1>7. Sure(b, w)
  BY <1>1 DEF Sure
<1> QED
  BY <1>1, <1>2, <1>3, <1>4, <1>6, <1>7 DEF CalmBatch, b

LEMMA IdleCalm == ASSUME NEW d, Whole(d, Idle) PROVE CalmBatch(d, Idle, "idle")
<1>1. DOMAIN Idle.pairs = {} /\ Idle.done = {} /\ Idle.parked = {} /\ Idle.waiting = {}
  BY DEF Idle
<1>2. Exact(d, Idle) /\ Sure(Idle, "idle") /\ Blocks(Idle)
  BY <1>1 DEF Exact, Sure, Blocks
<1> QED
  BY <1>1, <1>2 DEF CalmBatch

----
(* Placements: the names of the items before and after a batch.            *)

LEMMA NameOfEntry ==
    ASSUME NEW d, Directory(d), NEW e \in d
    PROVE  NameOf(d, e.item) = e.name
<1> DEFINE c == CHOOSE f \in d : f.item = e.item
<1>1. c \in d /\ c.item = e.item
  OBVIOUS
<1>2. c = e
  BY <1>1 DEF Directory
<1> QED
  BY <1>2 DEF NameOf

LEMMA PlacedBeforePair ==
    ASSUME NEW b, Record(b.pairs), NEW i \in DOMAIN b.pairs, NEW d
    PROVE  PlacedBefore(d, b, b.pairs[i].item) = b.pairs[i].old
<1> DEFINE mine == {j \in DOMAIN b.pairs : b.pairs[j].item = b.pairs[i].item}
<1>1. mine = {i}
  BY DEF Record
<1>2. DOMAIN b.pairs \subseteq Nat
  BY DEF Record
<1>3. Min(mine) = i
  <2> HIDE DEF mine
  <2>1. mine \subseteq Nat /\ mine # {}
    BY <1>1, <1>2
  <2>2. Min(mine) \in mine
    BY <2>1, MinIsLeast
  <2> QED
    BY <1>1, <2>2
<1> QED
  BY <1>1, <1>3 DEF PlacedBefore

LEMMA PlacedBeforeRest ==
    ASSUME NEW b, NEW x, ~Member(b, x), NEW d
    PROVE  PlacedBefore(d, b, x) = NameOf(d, x)
BY DEF PlacedBefore, Member

LEMMA UndonePair ==
    ASSUME NEW b, Record(b.pairs)
    PROVE  /\ \A x : x \in DOMAIN Undone(b) <=> Member(b, x)
           /\ \A i \in DOMAIN b.pairs : Undone(b)[b.pairs[i].item] = b.pairs[i].new
<1>1. \A x : x \in DOMAIN Undone(b) <=> \E p \in Range(b.pairs) : p.item = x
  BY DEF Undone
<1>2. \A x : (\E p \in Range(b.pairs) : p.item = x) <=> Member(b, x)
  BY DEF Member, Range
<1>3. ASSUME NEW i \in DOMAIN b.pairs
      PROVE  Undone(b)[b.pairs[i].item] = b.pairs[i].new
  <2> DEFINE x == b.pairs[i].item
             c == CHOOSE p \in Range(b.pairs) : p.item = x
  <2>1. b.pairs[i] \in Range(b.pairs)
    BY DEF Range
  <2>2. c \in Range(b.pairs) /\ c.item = x
    BY <2>1
  <2>3. PICK j \in DOMAIN b.pairs : c = b.pairs[j]
    BY <2>2 DEF Range
  <2>4. j = i
    BY <2>2, <2>3 DEF Record
  <2>5. Undone(b)[x] = c.new
    BY <2>1 DEF Undone
  <2> QED
    BY <2>3, <2>4, <2>5
<1> QED
  BY <1>1, <1>2, <1>3

LEMMA FormerNamePair ==
    ASSUME NEW r, Record(r)
    PROVE  /\ \A x : x \in DOMAIN FormerName(r) <=> \E i \in DOMAIN r : r[i].item = x
           /\ \A i \in DOMAIN r : FormerName(r)[r[i].item] = r[i].old
<1>1. \A x : x \in DOMAIN FormerName(r) <=> \E i \in DOMAIN r : r[i].item = x
  BY DEF FormerName
<1>2. ASSUME NEW i \in DOMAIN r PROVE FormerName(r)[r[i].item] = r[i].old
  <2> DEFINE x == r[i].item
             c == CHOOSE p \in Range(r) : p.item = x
  <2>1. r[i] \in Range(r)
    BY DEF Range
  <2>2. c \in Range(r) /\ c.item = x
    BY <2>1
  <2>3. PICK j \in DOMAIN r : c = r[j]
    BY <2>2 DEF Range
  <2>4. j = i
    BY <2>2, <2>3 DEF Record
  <2>5. FormerName(r)[x] = c.old
    BY DEF FormerName
  <2> QED
    BY <2>3, <2>4, <2>5
<1> QED
  BY <1>1, <1>2

\* As run_renames and the volume both see it, no two items share a name.
Placement(p) ==
    /\ p \in [Items -> Names]
    /\ \A x, y \in Items : Key[p[x]] = Key[p[y]] => x = y

NamesIn(d) == [x \in Items |-> NameOf(d, x)]

LEMMA WholePlacement ==
    ASSUME NEW d, Directory(d), KeysDecide, Whole(d, Idle)
    PROVE  Placement(NamesIn(d))
<1>1. ~\E x : Member(Idle, x)
  BY DEF Member, Idle
<1>2. \A e \in d : e.name \in Names /\ NameOf(d, e.item) = e.name
  BY <1>1, NameOfEntry DEF Whole
<1>3. \A x \in Items : \E e \in d : e.item = x /\ NamesIn(d)[x] = e.name
  BY <1>2 DEF Whole, NamesIn
<1>4. NamesIn(d) \in [Items -> Names]
  BY <1>2, <1>3 DEF NamesIn
<1>5. ASSUME NEW x \in Items, NEW y \in Items, Key[NamesIn(d)[x]] = Key[NamesIn(d)[y]]
      PROVE  x = y
  <2>1. PICK e \in d : e.item = x /\ NamesIn(d)[x] = e.name
    BY <1>3
  <2>2. PICK f \in d : f.item = y /\ NamesIn(d)[y] = f.name
    BY <1>3
  <2>3. SameName(e.name, f.name)
    BY <1>2, <1>5, <2>1, <2>2 DEF KeysDecide
  <2> QED
    BY <2>1, <2>2, <2>3 DEF Directory
<1> QED
  BY <1>4, <1>5 DEF Placement

\* A batch that ends has put its items where it reports them, none under a
\* temporary name; an undo has put all of them back.
LEMMA FinishedNames ==
    ASSUME NEW d, Directory(d), NEW b, Shape(b), b.done = DOMAIN b.pairs,
           NEW w, CalmBatch(d, b, w)
    PROVE  /\ Whole(d, Idle)
           /\ \A i \in DOMAIN b.pairs : NameOf(d, b.pairs[i].item) =
                 IF b.pairs[i] \in Range(b.renamed) THEN b.pairs[i].new ELSE b.pairs[i].old
           /\ w = "undoing" => \A i \in DOMAIN b.pairs : b.pairs[i] \in Range(b.renamed)
<1>1. \A i \in DOMAIN b.pairs : w = "undoing" \/ i \in b.parked => b.pairs[i] \in Range(b.renamed)
  BY DEF CalmBatch, Sure
<1>2. ASSUME NEW i \in DOMAIN b.pairs
      PROVE  /\ Reported(b, i) \in Names
             /\ Reported(b, i) =
                   IF b.pairs[i] \in Range(b.renamed) THEN b.pairs[i].new ELSE b.pairs[i].old
  <2>1. b.pairs[i].new \in Names /\ b.pairs[i].old \in Names
    BY RecordTyped DEF Shape
  <2>2. i \notin b.parked => b.src[i] = b.pairs[i].old
    BY DEF Shape, Sources
  <2> QED
    BY <1>1, <2>1, <2>2 DEF Reported
<1>3. ASSUME NEW i \in DOMAIN b.pairs, NEW e \in d, e.item = b.pairs[i].item
      PROVE  e.name = Reported(b, i)
  <2>1. PICK f \in d : f.name = Reported(b, i) /\ f.item = b.pairs[i].item
    BY DEF CalmBatch, Exact
  <2>2. e = f
    BY <1>3, <2>1 DEF Directory
  <2> QED
    BY <2>1, <2>2
<1>4. Whole(d, Idle)
  <2>1. ASSUME NEW e \in d PROVE e.item \in Items /\ e.name \in Names
    <3>1. e.item \in Items /\ (e.name \in Names \/ Member(b, e.item))
      BY DEF CalmBatch, Whole
    <3> QED
      BY <1>2, <1>3, <3>1 DEF Member
  <2> QED
    BY <2>1 DEF CalmBatch, Whole
<1>5. ASSUME NEW i \in DOMAIN b.pairs PROVE NameOf(d, b.pairs[i].item) = Reported(b, i)
  <2>1. PICK f \in d : f.name = Reported(b, i) /\ f.item = b.pairs[i].item
    BY DEF CalmBatch, Exact
  <2>2. NameOf(d, f.item) = f.name
    BY NameOfEntry
  <2> QED
    BY <2>1, <2>2
<1> QED
  BY <1>1, <1>2, <1>4, <1>5

----
(* The undo stack: a chain of placements, each record the step from one to *)
(* the next.                                                               *)

Takes(r, p, q) ==
    /\ \A i \in DOMAIN r : p[r[i].item] = r[i].old /\ q[r[i].item] = r[i].new
    /\ \A x \in Items : (\A i \in DOMAIN r : r[i].item # x) => q[x] = p[x]

Chain(P, u) ==
    /\ \A k \in 0..Len(u) : Placement(P[k])
    /\ \A k \in 1..Len(u) : Takes(u[k], P[k - 1], P[k])

\* base is what the last record led to.
History(u, base) ==
    \E P \in [Nat -> [Items -> Names]] : Chain(P, u) /\ \A x \in Items : P[Len(u)][x] = base[x]

LEMMA HistoryBegins == ASSUME NEW p, Placement(p) PROVE History(<<>>, p)
<1> DEFINE P == [k \in Nat |-> p]
<1>1. P \in [Nat -> [Items -> Names]] /\ \A k \in Nat : P[k] = p
  BY DEF Placement
<1>2. Len(<<>>) = 0 /\ 0..0 \subseteq Nat /\ 0 \in Nat /\ 1..0 = {}
  OBVIOUS
<1> HIDE DEF P
<1>3. Chain(P, <<>>)
  BY <1>1, <1>2 DEF Chain
<1> QED
  BY <1>1, <1>2, <1>3 DEF History

LEMMA HistorySame ==
    ASSUME NEW u, NEW p, History(u, p), NEW q, \A x \in Items : q[x] = p[x]
    PROVE  History(u, q)
BY DEF History

LEMMA HistoryGrows ==
    ASSUME NEW T, NEW u \in Seq(T), NEW r \in T, NEW p, History(u, p),
           NEW q, Placement(q), Takes(r, p, q), Record(r)
    PROVE  History(Append(u, r), q)
<1> DEFINE n == Len(u)
           v == Append(u, r)
<1>1. PICK P \in [Nat -> [Items -> Names]] : Chain(P, u) /\ \A x \in Items : P[Len(u)][x] = p[x]
  BY DEF History
<1> DEFINE Q == [k \in Nat |-> IF k = n + 1 THEN q ELSE P[k]]
<1>2. n \in Nat /\ Len(v) = n + 1 /\ v[n + 1] = r /\ \A k \in 1..n : v[k] = u[k]
  OBVIOUS
<1>3. (\A k \in Nat : P[k] \in [Items -> Names]) /\ q \in [Items -> Names]
  BY DEF Placement
<1>4. Q \in [Nat -> [Items -> Names]]
  BY <1>3
<1>5. /\ \A k \in Nat : Q[k] = IF k = n + 1 THEN q ELSE P[k]
      /\ Chain(P, u) /\ \A x \in Items : P[n][x] = p[x]
  BY <1>1
<1>6. /\ \A k \in 0..n : Placement(P[k])
      /\ \A k \in 1..n : Takes(u[k], P[k - 1], P[k])
  BY <1>1 DEF Chain
<1> HIDE DEF n, v, Q
<1>7. /\ n + 1 \in Nat /\ n # n + 1 /\ (n + 1) - 1 = n
      /\ \A k \in 0..(n + 1) : k \in Nat /\ (k = n + 1 \/ (k \in 0..n /\ k # n + 1))
      /\ \A k \in 1..(n + 1) : k = n + 1 \/ k \in 1..n
      /\ \A k \in 1..n : k \in Nat /\ k - 1 \in Nat /\ k # n + 1 /\ k - 1 # n + 1
  BY <1>2
<1>8. \A k \in 0..(n + 1) : Placement(Q[k])
  BY <1>5, <1>6, <1>7
<1>9. ASSUME NEW k \in 1..(n + 1) PROVE Takes(v[k], Q[k - 1], Q[k])
  <2>1. CASE k \in 1..n
    BY <1>2, <1>5, <1>6, <1>7, <2>1
  <2>2. CASE k = n + 1
    <3> \A i \in DOMAIN r : r[i].item \in Items
      BY RecordTyped
    <3>1. Q[k] = q /\ Q[k - 1] = P[n] /\ v[k] = r
      BY <1>2, <1>5, <1>7, <2>2
    <3>2. Takes(r, P[n], q)
      BY <1>5 DEF Takes
    <3> QED
      BY <3>1, <3>2
  <2> QED
    BY <1>7, <2>1, <2>2
<1>10. Chain(Q, v)
  BY <1>2, <1>8, <1>9 DEF Chain
<1>11. Q[Len(v)] = q
  BY <1>2, <1>5, <1>7
<1> QED
  BY <1>4, <1>10, <1>11 DEF History, v

LEMMA HistoryShrinks ==
    ASSUME NEW T, NEW u \in Seq(T), u # <<>>, NEW q, History(u, q),
           Record(Last(u))
    PROVE  \E p : Placement(p) /\ Takes(Last(u), p, q) /\ History(Front(u), p)
<1> DEFINE n == Len(u)
           v == Front(u)
<1>1. PICK P \in [Nat -> [Items -> Names]] : Chain(P, u) /\ \A x \in Items : P[Len(u)][x] = q[x]
  BY DEF History
<1>2. n \in Nat /\ n > 0 /\ Last(u) = u[n]
  BY DEF Last
<1>3. v = [k \in 1..(n - 1) |-> u[k]]
  BY DEF Front
<1>4. Len(v) = n - 1
  BY <1>2, <1>3
<1>5. \A k \in 1..(n - 1) : v[k] = u[k]
  BY <1>3
<1>6. /\ \A k \in 0..n : Placement(P[k])
      /\ \A k \in 1..n : Takes(u[k], P[k - 1], P[k])
      /\ \A x \in Items : P[n][x] = q[x]
  BY <1>1 DEF Chain
<1> HIDE DEF n, v
<1>7. /\ n - 1 \in 0..n /\ n \in 1..n
      /\ \A k \in 0..(n - 1) : k \in 0..n
      /\ \A k \in 1..(n - 1) : k \in 1..n
  BY <1>2
<1>8. Chain(P, v)
  BY <1>4, <1>5, <1>6, <1>7 DEF Chain
<1>9. History(v, P[n - 1])
  BY <1>4, <1>8 DEF History
<1>10. Takes(Last(u), P[n - 1], P[n])
  BY <1>2, <1>6, <1>7
<1>11. Takes(Last(u), P[n - 1], q)
  <2>1. \A i \in DOMAIN Last(u) : Last(u)[i].item \in Items
    BY RecordTyped
  <2> QED
    BY <1>6, <1>10, <2>1 DEF Takes
<1>12. Placement(P[n - 1])
  BY <1>6, <1>7
<1> QED
  BY <1>9, <1>11, <1>12 DEF v

LEMMA SequenceIsFunction ==
    ASSUME NEW T, NEW s \in Seq(T)
    PROVE  s = [k \in DOMAIN s |-> s[k]]
<1>1. s = [k \in 1..Len(s) |-> s[k]] /\ DOMAIN s = 1..Len(s)
  OBVIOUS
<1> QED
  BY <1>1

\* The records as placements.
LEMMA FormerNamesAppend ==
    ASSUME NEW T, NEW u \in Seq(T), NEW r \in T
    PROVE  FormerNames(Append(u, r)) = Append(FormerNames(u), FormerName(r))
<1> DEFINE n == Len(u)
           v == Append(u, r)
           F == {FormerName(t) : t \in T}
           s == FormerNames(u)
<1>1. /\ n \in Nat /\ DOMAIN u = 1..n /\ DOMAIN v = 1..(n + 1)
      /\ v[n + 1] = r /\ \A k \in 1..n : v[k] = u[k] /\ u[k] \in T
  OBVIOUS
<1>2. s = [k \in 1..n |-> FormerName(u[k])] /\ \A k \in 1..n : FormerName(u[k]) \in F
  BY <1>1 DEF FormerNames
<1>3. FormerName(r) \in F
  OBVIOUS
<1> HIDE DEF F, v, n
<1>4. s \in Seq(F) /\ Len(s) = n
  BY <1>1, <1>2
<1> HIDE DEF s
<1>5. /\ Append(s, FormerName(r)) \in Seq(F)
      /\ DOMAIN Append(s, FormerName(r)) = 1..(n + 1)
      /\ \A k \in 1..(n + 1) :
            Append(s, FormerName(r))[k] = IF k = n + 1 THEN FormerName(r) ELSE s[k]
  BY <1>3, <1>4, AppendRange
<1>6. \A k \in 1..(n + 1) : k # n + 1 => k \in 1..n
  BY <1>1
<1>7. \A k \in 1..(n + 1) : FormerName(v[k]) = Append(s, FormerName(r))[k]
  BY <1>1, <1>2, <1>5, <1>6
<1>8. FormerNames(v) = [k \in 1..(n + 1) |-> FormerName(v[k])]
  BY <1>1 DEF FormerNames
<1>9. Append(s, FormerName(r)) = [k \in 1..(n + 1) |-> Append(s, FormerName(r))[k]]
  BY <1>5, SequenceIsFunction
<1> QED
  BY <1>7, <1>8, <1>9 DEF s, v

LEMMA FrontThenLast ==
    ASSUME NEW T, NEW u \in Seq(T), u # <<>>
    PROVE  Front(u) \in Seq(T) /\ Last(u) \in T /\ u = Append(Front(u), Last(u))
<1> DEFINE n == Len(u)
           s == Front(u)
<1>1. n \in Nat /\ n > 0 /\ u \in [1..n -> T] /\ Last(u) = u[n]
  BY DEF Last
<1>2. s = [k \in 1..(n - 1) |-> u[k]]
  BY DEF Front
<1>3. /\ n \in 1..n /\ n - 1 \in Nat /\ (n - 1) + 1 = n
      /\ \A k \in 1..n : k # n => k \in 1..(n - 1)
      /\ \A k \in 1..(n - 1) : k \in 1..n
  <2> n \in Nat /\ n > 0
    BY <1>1
  <2> HIDE DEF n
  <2> QED
    OBVIOUS
<1> HIDE DEF n
<1>4. s \in Seq(T) /\ Len(s) = n - 1 /\ Last(u) \in T
  BY <1>1, <1>2, <1>3
<1>5. \A k \in 1..(n - 1) : s[k] = u[k]
  BY <1>2
<1> HIDE DEF s
<1>6. /\ Append(s, Last(u)) \in Seq(T) /\ DOMAIN Append(s, Last(u)) = 1..n
      /\ \A k \in 1..n : Append(s, Last(u))[k] = IF k = n THEN Last(u) ELSE s[k]
  BY <1>3, <1>4, AppendRange
<1>7. \A k \in 1..n : Append(s, Last(u))[k] = u[k]
  BY <1>1, <1>3, <1>5, <1>6
<1>8. Append(s, Last(u)) = [k \in 1..n |-> Append(s, Last(u))[k]]
  BY <1>6, SequenceIsFunction
<1>9. u = [k \in 1..n |-> u[k]]
  BY <1>1
<1> QED
  BY <1>4, <1>7, <1>8, <1>9 DEF s

LEMMA AppendThenFront ==
    ASSUME NEW T, NEW s \in Seq(T), NEW x \in T
    PROVE  Append(s, x) # <<>> /\ Front(Append(s, x)) = s /\ Last(Append(s, x)) = x
<1> DEFINE n == Len(s)
           v == Append(s, x)
<1>1. n \in Nat /\ v \in Seq(T) /\ Len(v) = n + 1 /\ v[n + 1] = x
      /\ (\A k \in 1..n : v[k] = s[k]) /\ s = [k \in 1..n |-> s[k]]
  OBVIOUS
<1>2. (n + 1) - 1 = n /\ n + 1 # 0
  BY <1>1
<1> HIDE DEF n, v
<1>3. v # <<>>
  BY <1>1, <1>2
<1>4. Front(v) = [k \in 1..n |-> v[k]]
  BY <1>1, <1>2 DEF Front
<1>5. Last(v) = x
  BY <1>1 DEF Last
<1> QED
  BY <1>1, <1>3, <1>4, <1>5 DEF v

\* A record as the difference of two placements.
Changes(p, q) == {x \in Items : q[x] # p[x]}

LEMMA RecordMoves ==
    ASSUME NEW r, Record(r), NEW p, NEW q, Takes(r, p, q)
    PROVE  /\ r # <<>> => Changes(p, q) # {}
           /\ FormerName(r) = Restrict(p, Changes(p, q))
<1> DEFINE moved == Changes(p, q)
<1>1. \A i \in DOMAIN r : r[i].item \in Items /\ r[i].old # r[i].new
  BY RecordTyped DEF Record
<1>2. \A i \in DOMAIN r : r[i].item \in moved
  BY <1>1 DEF Takes, Changes
<1>3. \A x \in moved : \E i \in DOMAIN r : r[i].item = x
  BY DEF Takes, Changes
<1>4. r # <<>> => moved # {}
  <2>1. r \in Seq(Pairs)
    BY DEF Record
  <2>2. r # <<>> => 1 \in DOMAIN r
    BY <2>1
  <2> QED
    BY <1>2, <2>2
<1> HIDE DEF moved
<1>5. /\ \A x : x \in DOMAIN FormerName(r) <=> \E i \in DOMAIN r : r[i].item = x
      /\ \A i \in DOMAIN r : FormerName(r)[r[i].item] = r[i].old
  BY FormerNamePair
<1>6. DOMAIN FormerName(r) = moved
  BY <1>2, <1>3, <1>5
<1>7. \A x \in moved : FormerName(r)[x] = p[x]
  BY <1>3, <1>5 DEF Takes
<1>8. FormerName(r) = [x \in DOMAIN FormerName(r) |-> FormerName(r)[x]]
  BY DEF FormerName
<1>9. FormerName(r) = [x \in moved |-> p[x]]
  BY <1>6, <1>7, <1>8
<1> QED
  BY <1>4, <1>9 DEF moved, Restrict

\* To undo a record is to go back to what it took.
LEMMA UndoneIsFormer ==
    ASSUME NEW r, Record(r), NEW b, b.pairs = Backwards(r)
    PROVE  Undone(b) = FormerName(r)
<1> DEFINE p == Backwards(r)
<1>1. Record(p)
  BY BackwardsIsRecord
<1>2. DOMAIN p = DOMAIN r /\ \A i \in DOMAIN r : p[i].item = r[i].item /\ p[i].new = r[i].old
  BY DEF Backwards
<1> HIDE DEF p
<1>3. b.pairs = p
  BY DEF p
<1>4. /\ \A x : x \in DOMAIN Undone(b) <=> Member(b, x)
      /\ \A i \in DOMAIN p : Undone(b)[p[i].item] = p[i].new
  BY <1>1, <1>3, UndonePair
<1>5. /\ \A x : x \in DOMAIN FormerName(r) <=> \E i \in DOMAIN r : r[i].item = x
      /\ \A i \in DOMAIN r : FormerName(r)[r[i].item] = r[i].old
  BY FormerNamePair
<1>6. \A x : Member(b, x) <=> \E i \in DOMAIN r : r[i].item = x
  BY <1>2, <1>3 DEF Member
<1>7. DOMAIN Undone(b) = DOMAIN FormerName(r)
  BY <1>4, <1>5, <1>6
<1>8. \A x \in DOMAIN Undone(b) : Undone(b)[x] = FormerName(r)[x]
  <2> SUFFICES ASSUME NEW x \in DOMAIN Undone(b) PROVE Undone(b)[x] = FormerName(r)[x]
    OBVIOUS
  <2>1. PICK i \in DOMAIN r : r[i].item = x
    BY <1>4, <1>6
  <2> QED
    BY <1>2, <1>4, <1>5, <2>1
<1>9. Undone(b) = [x \in DOMAIN Undone(b) |-> Undone(b)[x]]
  BY DEF Undone
<1>10. FormerName(r) = [x \in DOMAIN FormerName(r) |-> FormerName(r)[x]]
  BY DEF FormerName
<1> QED
  BY <1>7, <1>8, <1>9, <1>10

----
(* The steps of a calm behaviour, and what the abstract specification sees *)
(* of them: the end of a batch, and of an undo.                            *)

\* The names the undo stack takes the items to have: those of the last record.
Base(d, b, w) ==
    [x \in Items |-> IF w = "undoing" /\ Member(b, x) THEN Undone(b)[x] ELSE PlacedBefore(d, b, x)]

CalmInv == calm => CalmBatch(dir, batch, worker) /\ History(undo, Base(dir, batch, worker))

Unseen == CalmInv' /\ UNCHANGED <<calm, Placed, Undoable>>

\* From d to m the items outside batch b stay where they are.
Within(d, b, m) == \A x \in Items : Member(b, x) \/ NameOf(m, x) = NameOf(d, x)

SameBefore(d, b, m, n) ==
    /\ \A x \in Items : PlacedBefore(m, n, x) = PlacedBefore(d, b, x)
    /\ Undone(n) = Undone(b)
    /\ \A w : \A x \in Items : Base(m, n, w)[x] = Base(d, b, w)[x]

LEMMA SamePlaces ==
    ASSUME NEW b, Record(b.pairs), NEW n, n.pairs = b.pairs, NEW d, NEW m, Within(d, b, m)
    PROVE  SameBefore(d, b, m, n)
<1>1. \A x : Member(n, x) <=> Member(b, x)
  BY DEF Member
<1>2. ASSUME NEW x \in Items PROVE PlacedBefore(m, n, x) = PlacedBefore(d, b, x)
  <2>1. CASE Member(b, x)
    <3>1. PICK i \in DOMAIN b.pairs : b.pairs[i].item = x
      BY <2>1 DEF Member
    <3>2. PlacedBefore(d, b, b.pairs[i].item) = b.pairs[i].old
      BY PlacedBeforePair
    <3>3. PlacedBefore(m, n, n.pairs[i].item) = n.pairs[i].old
      BY PlacedBeforePair
    <3> QED
      BY <3>1, <3>2, <3>3
  <2>2. CASE ~Member(b, x)
    BY <1>1, <2>2, PlacedBeforeRest DEF Within
  <2> QED
    BY <2>1, <2>2
<1>3. Undone(n) = Undone(b)
  BY DEF Undone
<1> QED
  BY <1>1, <1>2, <1>3 DEF Base, SameBefore

\* A step within a batch that leaves the items outside it where they are.
LEMMA WithinBatch ==
    ASSUME CalmInv, calm, calm' = calm, worker' = worker, undo' = undo,
           batch'.pairs = batch.pairs, Record(batch.pairs),
           CalmBatch(dir', batch', worker), Within(dir, batch, dir')
    PROVE  Unseen
<1>0. SameBefore(dir, batch, dir', batch')
  BY SamePlaces
<1>1. /\ \A x \in Items : PlacedBefore(dir', batch', x) = PlacedBefore(dir, batch, x)
      /\ Undone(batch') = Undone(batch)
      /\ \A w : \A x \in Items : Base(dir', batch', w)[x] = Base(dir, batch, w)[x]
  BY <1>0 DEF SameBefore
<1>2. History(undo, Base(dir, batch, worker))
  BY DEF CalmInv
<1>3. History(undo, Base(dir', batch', worker))
  BY <1>1, <1>2, HistorySame
<1>4. CalmInv'
  BY <1>3 DEF CalmInv
<1>5. Placed' = Placed
  BY <1>1 DEF Placed
<1>6. Undoable' = Undoable
  BY <1>1 DEF Undoable
<1> QED
  BY <1>4, <1>5, <1>6 DEF Unseen

LEMMA ReenteredNames ==
    ASSUME NEW d, Directory(d), NEW m, Directory(m), NEW y, NEW name, Reentered(d, m, y, name),
           NEW e \in d, e.item # y
    PROVE  NameOf(m, e.item) = NameOf(d, e.item)
<1>1. e \in m
  BY DEF Reentered
<1>2. NameOf(m, e.item) = e.name
  BY <1>1, NameOfEntry
<1>3. NameOf(d, e.item) = e.name
  BY NameOfEntry
<1> QED
  BY <1>2, <1>3

\* A move of an entry of the batch.
LEMMA ReenteredWithin ==
    ASSUME NEW d, Directory(d), NEW m, Directory(m), NEW b, Whole(d, b),
           NEW g \in DOMAIN b.pairs, NEW name, Reentered(d, m, b.pairs[g].item, name)
    PROVE  Within(d, b, m)
<1> DEFINE y == b.pairs[g].item
<1>1. Member(b, y) /\ Reentered(d, m, y, name)
  BY DEF Member
<1> HIDE DEF y
<1>2. ASSUME NEW x \in Items, x # y PROVE NameOf(m, x) = NameOf(d, x)
  <2>1. PICK e \in d : e.item = x
    BY DEF Whole
  <2>2. e.item # y
    BY <1>2, <2>1
  <2>3. NameOf(m, e.item) = NameOf(d, e.item)
    BY <1>1, <2>2, ReenteredNames
  <2> QED
    BY <2>1, <2>3
<1> QED
  BY <1>1, <1>2 DEF Within

LEMMA MoveWithinBatch ==
    ASSUME IInv, CalmInv, calm, calm' = calm, worker' = worker, undo' = undo,
           batch'.pairs = batch.pairs, CalmBatch(dir', batch', worker), Directory(dir'),
           NEW g \in DOMAIN batch.pairs, NEW name,
           Reentered(dir, dir', batch.pairs[g].item, name)
    PROVE  Unseen
<1>1. Record(batch.pairs) /\ Directory(dir) /\ Whole(dir, batch)
  BY DEF IInv, Books, InDirectory, Booked, Shape, CalmInv, CalmBatch
<1>2. Within(dir, batch, dir')
  BY <1>1, ReenteredWithin
<1> QED
  BY <1>1, <1>2, WithinBatch

LEMMA CalmRename == ASSUME KeysDecide, IInv, CalmInv, calm, Rename PROVE Unseen
<1> DEFINE g == guarded
           new == batch.pairs[g].new
           n == Succeeded(batch, g)
           d == Moved(dir, batch.src[g], new)
<1>1. /\ g # 0 /\ UNCHANGED <<worker, undo, calm>>
      /\ \/ dir' = d /\ batch' = n
         \/ At(dir, batch.src[g]) = {}
  BY DEF Rename
<1>2. Booked(batch, g) /\ Directory(dir) /\ GuardHolds(dir, batch, g) /\ Ordered(batch)
  BY DEF IInv, Books, InDirectory, InOrder
<1>3. Shape(batch) /\ g \in DOMAIN batch.pairs \ batch.done
  BY <1>1, <1>2 DEF Booked, Queued
<1>4. CalmBatch(dir, batch, worker) /\ Exact(dir, batch) /\ Whole(dir, batch)
  BY DEF CalmInv, CalmBatch
<1> HIDE DEF n
<1>5. PICK f \in dir : f.name = batch.src[g] /\ f.item = batch.pairs[g].item
  BY <1>2, <1>3, <1>4, PendingEntry
<1>6. f \in At(dir, batch.src[g])
  BY <1>5, SameNameEquivalence DEF At
<1>7. dir' = d /\ batch' = n
  BY <1>1, <1>6
<1>8. ASSUME NEW e \in dir, SameName(e.name, new) PROVE SameName(e.name, f.name)
  <2>1. e.item \in Items
    BY <1>4 DEF Whole
  <2>2. e.item \notin Newcomers
    BY <2>1, ItemsAssumption
  <2> QED
    BY <1>1, <1>2, <1>5, <1>8, <2>2 DEF GuardHolds
<1>9. Reentered(dir, d, batch.pairs[g].item, new)
  <2>1. Reentered(dir, Moved(dir, f.name, new), f.item, new)
    BY <1>2, <1>8, CleanMove
  <2> QED
    BY <1>5, <2>1
<1>10. /\ Booked(n, 0)
       /\ n.pairs = batch.pairs /\ n.src = batch.src /\ n.parked = batch.parked
       /\ n.renamed = Append(batch.renamed, batch.pairs[g]) /\ n.tmpSeq = batch.tmpSeq
       /\ Range(n.renamed) = Range(batch.renamed) \cup {batch.pairs[g]}
       /\ n.done = batch.done \cup {g}
       /\ n.waiting = {w \in batch.waiting : w.on # g}
  <2>1. Booked(batch, g) /\ g # 0
    BY <1>1, <1>2
  <2> HIDE DEF g
  <2> QED
    BY <2>1, SucceededBooked DEF n
<1>11. new \in Places
  BY <1>3, RecordTyped DEF Shape, Places
<1>12. Directory(d)
  BY <1>2, <1>11, MovedDirectory
<1> HIDE DEF d, g
<1>13. CalmBatch(d, n, worker)
  BY <1>1, <1>2, <1>4, <1>9, <1>10, RenamedCalm
<1>14. /\ batch'.pairs = batch.pairs /\ CalmBatch(dir', batch', worker) /\ Directory(dir')
       /\ Reentered(dir, dir', batch.pairs[g].item, new)
  BY <1>7, <1>9, <1>10, <1>12, <1>13
<1> HIDE DEF new
<1> QED
  BY <1>1, <1>3, <1>14, MoveWithinBatch

LEMMA CalmPark == ASSUME KeysDecide, IInv, CalmInv, calm, Park PROVE Unseen
<1> DEFINE g == Min(Parkable)
           tmp == batch.tmpSeq + 1
           n == Parked(batch, g)
           d == Moved(dir, batch.src[g], tmp)
<1>1. /\ guarded = 0 /\ batch.ready = <<>> /\ Parkable # {}
      /\ UNCHANGED <<worker, undo, calm>>
      /\ \/ dir' = d /\ batch' = n
         \/ At(dir, batch.src[g]) = {}
  BY DEF Park, Blocked, Parked
<1>2. Booked(batch, 0) /\ Directory(dir) /\ Shape(batch)
  BY <1>1 DEF IInv, Books, InDirectory, Booked
<1>3. g \in DOMAIN batch.pairs \ (batch.done \cup batch.parked)
  <2>1. Parkable \subseteq DOMAIN batch.pairs
    BY DEF Parkable, Pending
  <2>2. Parkable \subseteq Nat
    BY <1>2, <2>1, IndicesFinite
  <2>3. g \in Parkable
    BY <1>1, <2>2, MinIsLeast
  <2> QED
    BY <2>3 DEF Parkable, Pending
<1> HIDE DEF g, n
<1>4. /\ CalmBatch(dir, batch, worker) /\ Exact(dir, batch) /\ Whole(dir, batch)
      /\ Blocks(batch)
  BY DEF CalmInv, CalmBatch
<1>5. PICK f \in dir : f.name = batch.src[g] /\ f.item = batch.pairs[g].item
  BY <1>2, <1>3, <1>4, PendingEntry
<1>6. f \in At(dir, batch.src[g])
  BY <1>5, SameNameEquivalence DEF At
<1>7. dir' = d /\ batch' = n
  BY <1>1, <1>6
<1>8. tmp \in Nat /\ ~(tmp <= batch.tmpSeq)
  <2>1. batch.tmpSeq \in Nat
    BY <1>2 DEF Shape, Batch
  <2> QED
    BY <2>1
<1> HIDE DEF tmp
<1>9. ASSUME NEW e \in dir, SameName(e.name, tmp) PROVE FALSE
  <2>1. e.name \in Places
    BY <1>2, EntryTyped
  <2>2. e.name = tmp /\ e.name \notin Names
    BY <1>8, <1>9, <2>1, NumbersAreNoNames DEF Places
  <2>3. PICK i \in DOMAIN batch.pairs : batch.pairs[i].item = e.item
    BY <1>4, <2>2 DEF Whole, Member
  <2>4. PICK h \in dir : h.name = Reported(batch, i) /\ h.item = batch.pairs[i].item
    BY <1>4 DEF Exact
  <2>5. e = h
    BY <1>2, <2>3, <2>4 DEF Directory
  <2>6. batch.pairs[i].new \in Names /\ batch.pairs[i].old \in Names
    BY <1>2, RecordTyped DEF Shape
  <2>7. /\ i \notin batch.parked => batch.src[i] = batch.pairs[i].old
        /\ i \in batch.parked => batch.src[i] <= batch.tmpSeq
    BY <1>2 DEF Shape, Sources
  <2> QED
    BY <1>8, <2>2, <2>4, <2>5, <2>6, <2>7 DEF Reported
<1>10. Reentered(dir, d, batch.pairs[g].item, tmp)
  <2>1. Reentered(dir, Moved(dir, f.name, tmp), f.item, tmp)
    BY <1>2, <1>9, CleanMove
  <2> QED
    BY <1>5, <2>1
<1>11. ParkedFrom(batch, g, n)
  BY <1>1, <1>2, <1>3, ParkedBooked DEF n
<1>12. Clear(dir, batch)
  BY <1>1, <1>2, <1>4, BlockedClear
<1>13. Directory(d)
  BY <1>2, <1>8, MovedDirectory DEF Places
<1> HIDE DEF d
<1>14. CalmBatch(d, n, worker)
  BY <1>2, <1>3, <1>4, <1>10, <1>11, <1>12, ParkedCalm DEF tmp
<1>15. n.pairs = batch.pairs
  BY <1>11 DEF ParkedFrom
<1>16. /\ batch'.pairs = batch.pairs /\ CalmBatch(dir', batch', worker) /\ Directory(dir')
       /\ Reentered(dir, dir', batch.pairs[g].item, tmp)
  BY <1>7, <1>10, <1>13, <1>14, <1>15
<1> QED
  BY <1>1, <1>3, <1>16, MoveWithinBatch

LEMMA CalmGuard == ASSUME KeysDecide, IInv, CalmInv, calm, Guard PROVE Unseen
<1> DEFINE i == Last(batch.ready)
           taken == At(dir, batch.pairs[i].new)
           popped == [batch EXCEPT !.ready = Front(@)]
           n == Settled(popped, i)
           passes == taken = {} \/ (taken # {} /\ taken = At(dir, batch.src[i]))
<1>1. /\ guarded = 0 /\ batch.ready # <<>>
      /\ UNCHANGED <<dir, worker, undo, calm>>
      /\ \/ passes /\ batch' = popped
         \/ ~passes /\ batch' = n
  BY DEF Guard, counters
<1>2. Booked(batch, 0) /\ Directory(dir) /\ Ordered(batch) /\ Record(batch.pairs)
  BY <1>1 DEF IInv, Books, InDirectory, InOrder, Booked, Shape
<1>3. /\ Booked(popped, i) /\ Alike(batch, popped) /\ popped.waiting = batch.waiting
      /\ i \in DOMAIN batch.pairs \ batch.done
  BY <1>1, <1>2, PopBooked
<1>4. CalmBatch(dir, batch, worker) /\ Exact(dir, batch)
  BY DEF CalmInv, CalmBatch
<1> HIDE DEF popped, i
<1>5. CalmBatch(dir, popped, worker)
  BY <1>3, <1>4, SameCalm
<1>6. CASE batch' = popped
  <2>1. batch'.pairs = batch.pairs /\ CalmBatch(dir', batch', worker)
    BY <1>1, <1>3, <1>5, <1>6 DEF Alike
  <2>2. Within(dir, batch, dir')
    BY <1>1 DEF Within
  <2> QED
    BY <1>1, <1>2, <2>1, <2>2, WithinBatch
<1>7. CASE ~passes /\ batch' = n
  <2>1. i # 0 /\ Ordered(popped) /\ Exact(dir, popped)
    BY <1>2, <1>3, <1>5, SameOrdered, IndicesFinite DEF Alike, CalmBatch, Booked
  <2>2. ~Clear(dir, popped)
    <3> SUFFICES ASSUME Clear(dir, popped) PROVE passes
      BY <1>7
    <3>1. \A e \in dir : SameName(e.name, popped.pairs[i].new) => e.name = popped.src[i]
      BY <1>2, <1>3, <2>1, ClearPasses
    <3>2. \A e \in taken : e \in dir /\ e.name = batch.src[i]
      BY <1>3, <3>1 DEF Alike, At
    <3>3. ASSUME NEW e \in taken PROVE taken = At(dir, batch.src[i])
      <4>1. e \in dir /\ e.name = batch.src[i]
        BY <3>2
      <4>2. \A f \in At(dir, batch.src[i]) : f = e
        BY <1>2, <4>1, SameNameEquivalence DEF At, Directory
      <4>3. e \in At(dir, batch.src[i])
        BY <4>1, SameNameEquivalence DEF At
      <4>4. \A f \in taken : f = e
        BY <1>2, <3>2, <4>1, SameNameEquivalence DEF Directory
      <4> QED
        BY <4>2, <4>3, <4>4
    <3> QED
      BY <3>3
  <2>3. worker # "undoing" /\ popped.parked = {}
    BY <1>5, <2>2 DEF CalmBatch
  <2>4. Tried(popped, i)
    BY <1>3 DEF Tried, Booked, Alike
  <2>5. /\ n.pairs = popped.pairs /\ n.src = popped.src /\ n.parked = popped.parked
        /\ n.renamed = popped.renamed /\ n.done = popped.done \cup {i}
        /\ n.waiting = {w \in popped.waiting : w.on # i}
    BY <2>4, SettledBooked
  <2> HIDE DEF n
  <2>6. CalmBatch(dir, n, worker)
    BY <1>5, <2>3, <2>5, RefusedCalm
  <2>7. batch'.pairs = batch.pairs /\ CalmBatch(dir', batch', worker)
    BY <1>1, <1>3, <1>7, <2>5, <2>6 DEF Alike
  <2>8. Within(dir, batch, dir')
    BY <1>1 DEF Within
  <2> QED
    BY <1>1, <1>2, <2>7, <2>8, WithinBatch
<1> QED
  BY <1>1, <1>6, <1>7

\* When a batch begins, nothing has moved.
LEMMA BegunPlaces ==
    ASSUME NEW d, Directory(d), NEW p, Record(p), NEW b, b.pairs = p,
           \A i \in DOMAIN p : \E e \in d : e.name = p[i].old /\ e.item = p[i].item
    PROVE  \A x \in Items : PlacedBefore(d, b, x) = NameOf(d, x)
<1> SUFFICES ASSUME NEW x \in Items PROVE PlacedBefore(d, b, x) = NameOf(d, x)
  OBVIOUS
<1>1. CASE Member(b, x)
  <2>1. PICK i \in DOMAIN b.pairs : b.pairs[i].item = x
    BY <1>1 DEF Member
  <2>2. PICK e \in d : e.name = b.pairs[i].old /\ e.item = x
    BY <2>1
  <2>3. NameOf(d, e.item) = e.name
    BY NameOfEntry
  <2>4. PlacedBefore(d, b, b.pairs[i].item) = b.pairs[i].old
    BY PlacedBeforePair
  <2> QED
    BY <2>1, <2>2, <2>3, <2>4
<1>2. CASE ~Member(b, x)
  BY <1>2, PlacedBeforeRest
<1> QED
  BY <1>1, <1>2

LEMMA IdlePlaces ==
    ASSUME NEW d
    PROVE  /\ \A x : PlacedBefore(d, Idle, x) = NameOf(d, x)
           /\ \A w : \A x \in Items : Base(d, Idle, w)[x] = NameOf(d, x)
<1>1. \A x : ~Member(Idle, x)
  BY DEF Member, Idle
<1>2. \A x : PlacedBefore(d, Idle, x) = NameOf(d, x)
  BY <1>1, PlacedBeforeRest
<1> QED
  BY <1>1, <1>2 DEF Base

LEMMA CalmApply == ASSUME KeysDecide, IInv, CalmInv, calm, Apply PROVE Unseen
<1>1. PICK selected \in Selections :
         /\ \A x \in selected : x \in Present(dir) /\ NameOf(dir, x) \in Names
         /\ LET before == [x \in selected |-> NameOf(dir, x)]
            IN  \E after \in [selected -> Names] :
                   /\ ConflictFree(before, after)
                   /\ after # before
                   /\ \E order \in SetToSeqs(Changed(before, after)) :
                         batch' = Started(RenamePairs(order, before, after))
  BY DEF Apply
<1> DEFINE before == [x \in selected |-> NameOf(dir, x)]
<1>2. PICK after \in [selected -> Names] :
         /\ ConflictFree(before, after)
         /\ \E order \in SetToSeqs(Changed(before, after)) :
               batch' = Started(RenamePairs(order, before, after))
  BY <1>1
<1>3. PICK order \in SetToSeqs(Changed(before, after)) :
         batch' = Started(RenamePairs(order, before, after))
  BY <1>2
<1>4. Planned(dir, selected, before, after)
  <2>1. selected \in SUBSET Items /\ Directory(dir)
    BY ItemsAssumption DEF IInv, InDirectory
  <2> QED
    BY <1>1, <1>2, <2>1 DEF Planned
<1> HIDE DEF before
<1> DEFINE p == RenamePairs(order, before, after)
<1>5. /\ Record(p) /\ (KeysDecide => Apart(p))
      /\ \A i \in DOMAIN p : \E e \in dir : e.item = p[i].item /\ e.name = p[i].old
  BY <1>3, <1>4, PlanIsRecord
<1> HIDE DEF p
<1>6. batch' = Started(p)
  BY <1>3 DEF p
<1>7. /\ worker = "idle" /\ worker' = "renaming" /\ UNCHANGED <<dir, undo, calm>>
  BY DEF Apply
<1>8. batch = Idle /\ Directory(dir)
  BY <1>7 DEF IInv, Books, InDirectory
<1>9. CalmBatch(dir, Idle, "idle") /\ History(undo, Base(dir, Idle, "idle"))
  BY <1>7, <1>8 DEF CalmInv
<1>10. Whole(dir, Idle)
  BY <1>9 DEF CalmBatch
<1>11. CalmBatch(dir, Started(p), "renaming")
  BY <1>5, <1>10, BegunCalm
<1>12. Started(p).pairs = p
  BY <1>5, StartedBooked
<1>13. \A x \in Items : PlacedBefore(dir, Started(p), x) = NameOf(dir, x)
  BY <1>5, <1>8, <1>12, BegunPlaces
<1>14. /\ \A x : PlacedBefore(dir, Idle, x) = NameOf(dir, x)
       /\ \A x \in Items : Base(dir, Idle, "idle")[x] = NameOf(dir, x)
  BY IdlePlaces
<1>15. \A x \in Items : Base(dir, Started(p), "renaming")[x] = Base(dir, Idle, "idle")[x]
  BY <1>13, <1>14 DEF Base
<1>16. History(undo, Base(dir, Started(p), "renaming"))
  BY <1>9, <1>15, HistorySame
<1>17. CalmInv'
  BY <1>6, <1>7, <1>11, <1>16 DEF CalmInv
<1>18. Placed' = Placed
  BY <1>6, <1>7, <1>8, <1>13, <1>14 DEF Placed
<1>19. Undoable' = Undoable
  BY <1>7 DEF Undoable
<1> QED
  BY <1>7, <1>17, <1>18, <1>19 DEF Unseen

\* The pairs of an undo are the last record backwards: the items are where it
\* left them, and their former names are free of all others.
LEMMA UndoBegins ==
    ASSUME NEW d, Directory(d), Whole(d, Idle), KeysDecide, NEW r, Record(r), Apart(r),
           NEW p, Placement(p), NEW q, \A x \in Items : q[x] = NameOf(d, x), Takes(r, p, q)
    PROVE  LET b == Started(Backwards(r))
           IN  /\ CalmBatch(d, b, "undoing")
               /\ \A x \in Items : PlacedBefore(d, b, x) = NameOf(d, x)
               /\ \A x \in Items : Base(d, b, "undoing")[x] = p[x]
               /\ Undone(b) = FormerName(r)
<1> DEFINE s == Backwards(r)
           b == Started(s)
<1>1. Record(s) /\ Apart(s)
  BY BackwardsIsRecord
<1>2. DOMAIN s = DOMAIN r
      /\ \A i \in DOMAIN r : s[i].item = r[i].item /\ s[i].old = r[i].new /\ s[i].new = r[i].old
  BY DEF Backwards
<1>3. b.pairs = s /\ b.done = {} /\ b.parked = {}
  BY <1>1, StartedBooked
<1>4. Undone(b) = FormerName(r)
  BY <1>3, UndoneIsFormer
<1> HIDE DEF s, b
<1>5. \A i \in DOMAIN r : /\ r[i].item \in Items /\ r[i].old \in Names
                          /\ p[r[i].item] = r[i].old /\ q[r[i].item] = r[i].new
  BY RecordTyped DEF Takes
<1>6. \A i \in DOMAIN s : \E e \in d : e.name = s[i].old /\ e.item = s[i].item
  <2> SUFFICES ASSUME NEW i \in DOMAIN s
               PROVE  \E e \in d : e.name = s[i].old /\ e.item = s[i].item
    OBVIOUS
  <2>1. PICK e \in d : e.item = r[i].item
    BY <1>2, <1>5 DEF Whole
  <2>2. NameOf(d, e.item) = e.name
    BY NameOfEntry
  <2>3. e.name = r[i].new
    BY <1>2, <1>5, <2>1, <2>2
  <2> QED
    BY <1>2, <2>1, <2>3
<1>7. Clear(d, b)
  <2> SUFFICES ASSUME NEW i \in DOMAIN s, NEW e \in d, SameName(e.name, s[i].new),
                      \A j \in DOMAIN s : s[j].item # e.item
               PROVE  FALSE
    BY <1>3 DEF Clear, Leaves
  <2>1. e.item \in Items /\ e.name \in Names
    BY DEF Whole, Member, Idle
  <2>2. NameOf(d, e.item) = e.name
    BY NameOfEntry
  <2>3. \A j \in DOMAIN r : r[j].item # e.item
    BY <1>2
  <2>4. q[e.item] = p[e.item]
    BY <2>1, <2>3 DEF Takes
  <2>5. p[e.item] = e.name
    BY <2>1, <2>2, <2>4
  <2>6. s[i].new = p[r[i].item] /\ s[i].new \in Names
    BY <1>2, <1>5
  <2>7. Key[p[e.item]] = Key[p[r[i].item]]
    BY <2>1, <2>5, <2>6 DEF KeysDecide
  <2>8. e.item = r[i].item
    BY <1>2, <1>5, <2>1, <2>7 DEF Placement
  <2> QED
    BY <1>2, <2>3, <2>8
<1>8. CalmBatch(d, b, "undoing")
  BY <1>1, <1>6, <1>7, BegunCalm DEF b
<1>9. \A x \in Items : PlacedBefore(d, b, x) = NameOf(d, x)
  BY <1>1, <1>3, <1>6, BegunPlaces
<1>10. ASSUME NEW x \in Items PROVE Base(d, b, "undoing")[x] = p[x]
  <2>1. CASE Member(b, x)
    <3>1. PICK i \in DOMAIN s : s[i].item = x
      BY <1>3, <2>1 DEF Member
    <3>2. Undone(b)[b.pairs[i].item] = b.pairs[i].new
      BY <1>1, <1>3, UndonePair
    <3> QED
      BY <1>2, <1>3, <1>5, <2>1, <3>1, <3>2 DEF Base
  <2>2. CASE ~Member(b, x)
    <3>1. \A i \in DOMAIN r : r[i].item # x
      BY <1>2, <1>3, <2>2 DEF Member
    <3>2. q[x] = p[x]
      BY <3>1 DEF Takes
    <3> QED
      BY <1>9, <2>2, <3>2 DEF Base
  <2> QED
    BY <2>1, <2>2
<1> QED
  BY <1>4, <1>8, <1>9, <1>10 DEF b, s

LEMMA CalmUndo == ASSUME KeysDecide, IInv, CalmInv, calm, UndoLast PROVE Unseen
<1> DEFINE r == Last(undo)
           s == Front(undo)
           b == Started(Backwards(r))
           q == Base(dir, Idle, "idle")
<1>1. undo # <<>> /\ undo \in Seq(Seq(Pairs)) /\ Records(undo) /\ Len(undo) \in Nat
  BY DEF IInv, Books, Records, UndoLast
<1>2. Len(undo) \in DOMAIN undo /\ r = undo[Len(undo)]
  BY <1>1 DEF Last
<1>3. s \in Seq(Seq(Pairs)) /\ r \in Seq(Pairs) /\ undo = Append(s, r)
  BY <1>1, FrontThenLast
<1>4. batch' = b /\ undo' = s /\ worker = "idle" /\ worker' = "undoing" /\ UNCHANGED <<dir, calm>>
  BY DEF UndoLast, Backwards, counters
<1>5. batch = Idle /\ Directory(dir)
  BY <1>4 DEF IInv, Books, InDirectory
<1>6. CalmBatch(dir, Idle, "idle") /\ History(undo, q)
  BY <1>4, <1>5 DEF CalmInv
<1>7. /\ \A x : PlacedBefore(dir, Idle, x) = NameOf(dir, x)
      /\ \A x \in Items : q[x] = NameOf(dir, x)
  BY IdlePlaces
<1> HIDE DEF r, s, b, q
<1>8. Record(r) /\ Apart(r)
  BY <1>1, <1>2 DEF Records
<1>10. PICK p : Placement(p) /\ Takes(r, p, q) /\ History(s, p)
  BY <1>1, <1>6, <1>8, HistoryShrinks DEF r, s
<1>11. Whole(dir, Idle)
  BY <1>6 DEF CalmBatch
<1>12. /\ CalmBatch(dir, b, "undoing")
       /\ \A x \in Items : PlacedBefore(dir, b, x) = NameOf(dir, x)
       /\ \A x \in Items : Base(dir, b, "undoing")[x] = p[x]
       /\ Undone(b) = FormerName(r)
  BY <1>5, <1>7, <1>8, <1>10, <1>11, UndoBegins DEF b
<1>13. History(s, Base(dir, b, "undoing"))
  BY <1>10, <1>12, HistorySame
<1>14. CalmInv'
  BY <1>4, <1>12, <1>13 DEF CalmInv
<1>15. Placed' = Placed
  BY <1>4, <1>5, <1>7, <1>12 DEF Placed
<1>16. Undoable' = Undoable
  <2>1. FormerNames(undo) = Append(FormerNames(s), FormerName(r))
    BY <1>3, FormerNamesAppend
  <2> QED
    BY <1>4, <1>12, <2>1 DEF Undoable
<1> QED
  BY <1>4, <1>14, <1>15, <1>16 DEF Unseen

\* What the end of a batch has done to the names, and of an undo.
LEMMA RenamedTakes ==
    ASSUME NEW d, Directory(d), NEW b, Shape(b), b.done = DOMAIN b.pairs,
           NEW w, CalmBatch(d, b, w), NEW p, \A x \in Items : p[x] = PlacedBefore(d, b, x)
    PROVE  Takes(b.renamed, p, NamesIn(d))
<1> DEFINE r == b.renamed
           q == NamesIn(d)
<1>1. Record(b.pairs)
  BY DEF Shape
<1>2. \A i \in DOMAIN b.pairs : NameOf(d, b.pairs[i].item) =
         IF b.pairs[i] \in Range(r) THEN b.pairs[i].new ELSE b.pairs[i].old
  BY FinishedNames
<1>3. \A i \in DOMAIN b.pairs : PlacedBefore(d, b, b.pairs[i].item) = b.pairs[i].old
  BY <1>1, PlacedBeforePair
<1>4. \A k \in DOMAIN r : \E j \in DOMAIN b.pairs : r[k] = b.pairs[j]
  BY DEF Shape, Reports
<1>5. \A x \in Items : q[x] = NameOf(d, x)
  BY DEF NamesIn
<1>6. \A i \in DOMAIN b.pairs : b.pairs[i].item \in Items
  BY <1>1, RecordTyped
<1> HIDE DEF r, q
<1>7. ASSUME NEW k \in DOMAIN r PROVE p[r[k].item] = r[k].old /\ q[r[k].item] = r[k].new
  <2>1. PICK j \in DOMAIN b.pairs : r[k] = b.pairs[j]
    BY <1>4
  <2>2. b.pairs[j] \in Range(r)
    BY <2>1 DEF Range
  <2> QED
    BY <1>2, <1>3, <1>5, <1>6, <2>1, <2>2
<1>8. ASSUME NEW x \in Items, \A k \in DOMAIN r : r[k].item # x PROVE q[x] = p[x]
  <2>1. CASE Member(b, x)
    <3>1. PICK i \in DOMAIN b.pairs : b.pairs[i].item = x
      BY <2>1 DEF Member
    <3>2. b.pairs[i] \notin Range(r)
      BY <1>8, <3>1 DEF Range
    <3> QED
      BY <1>2, <1>3, <1>5, <3>1, <3>2
  <2>2. CASE ~Member(b, x)
    BY <1>5, <2>2, PlacedBeforeRest
  <2> QED
    BY <2>1, <2>2
<1> QED
  BY <1>7, <1>8 DEF Takes, r, q

LEMMA UndoneNames ==
    ASSUME NEW d, Directory(d), NEW b, Shape(b), b.done = DOMAIN b.pairs,
           CalmBatch(d, b, "undoing")
    PROVE  \A x \in Items : /\ x \in DOMAIN Undone(b) <=> Member(b, x)
                            /\ NameOf(d, x) = IF Member(b, x) THEN Undone(b)[x]
                                                              ELSE PlacedBefore(d, b, x)
<1>1. Record(b.pairs)
  BY DEF Shape
<1>2. \A i \in DOMAIN b.pairs : NameOf(d, b.pairs[i].item) = b.pairs[i].new
  BY FinishedNames
<1>3. /\ \A x : x \in DOMAIN Undone(b) <=> Member(b, x)
      /\ \A i \in DOMAIN b.pairs : Undone(b)[b.pairs[i].item] = b.pairs[i].new
  BY <1>1, UndonePair
<1> SUFFICES ASSUME NEW x \in Items
             PROVE  NameOf(d, x) = IF Member(b, x) THEN Undone(b)[x] ELSE PlacedBefore(d, b, x)
  BY <1>3
<1>4. CASE Member(b, x)
  <2>1. PICK i \in DOMAIN b.pairs : b.pairs[i].item = x
    BY <1>4 DEF Member
  <2> QED
    BY <1>2, <1>3, <1>4, <2>1
<1>5. CASE ~Member(b, x)
  BY <1>5, PlacedBeforeRest
<1> QED
  BY <1>4, <1>5

\* The items of a calm behaviour are renamed, or renamed back, where a batch
\* or an undo ends.
LEMMA CalmFinish ==
    ASSUME KeysDecide, IInv, CalmInv, calm, Finish
    PROVE  Unseen \/ (CalmInv' /\ calm' = calm /\ (Promise!RenameAll \/ Promise!UndoLast))
<1> DEFINE before == [x \in Items |-> PlacedBefore(dir, batch, x)]
           after == NamesIn(dir)
           r == batch.renamed
<1>1. /\ Blocked /\ Parkable = {} /\ worker' = "idle" /\ batch' = Idle
      /\ undo' = IF worker = "renaming" /\ r # <<>> THEN Append(undo, r) ELSE undo
      /\ UNCHANGED <<dir, calm>>
  BY DEF Finish
<1>2. /\ Directory(dir) /\ Shape(batch) /\ Records(undo)
      /\ worker \in {"renaming", "undoing"}
  BY <1>1 DEF IInv, Books, InDirectory, Booked, Blocked, Running
<1>3. batch.done = DOMAIN batch.pairs
  <2>1. Pending = {}
    BY <1>1, CyclesBreak DEF EveryCycleBreaks
  <2> QED
    BY <1>2, <2>1 DEF Pending, Shape
<1>4. CalmBatch(dir, batch, worker) /\ History(undo, Base(dir, batch, worker))
  BY DEF CalmInv
<1>5. Whole(dir, Idle)
  BY <1>2, <1>3, <1>4, FinishedNames
<1>6. CalmBatch(dir, Idle, "idle")
  BY <1>5, IdleCalm
<1>7. Placement(after)
  BY <1>2, <1>5, WholePlacement
<1>8. /\ \A x : PlacedBefore(dir, Idle, x) = NameOf(dir, x)
      /\ \A x \in Items : Base(dir, Idle, "idle")[x] = NameOf(dir, x)
  BY IdlePlaces
<1>9. /\ \A x \in Items : after[x] = NameOf(dir, x)
      /\ after = [x \in Items |-> NameOf(dir, x)]
  BY DEF NamesIn
<1>10. ASSUME History(undo', after) PROVE CalmInv'
  <2>1. \A x \in Items : Base(dir, Idle, "idle")[x] = after[x]
    BY <1>8, <1>9
  <2>2. History(undo', Base(dir, Idle, "idle"))
    BY <1>10, <2>1, HistorySame
  <2> QED
    BY <1>1, <1>6, <2>2 DEF CalmInv
<1>11. Placed' = after /\ Placed = before
  <2>1. Placed' = [x \in Items |-> PlacedBefore(dir, Idle, x)]
    BY <1>1 DEF Placed
  <2>2. Placed' = after
    BY <1>8, <1>9, <2>1
  <2>3. Placed = before
    BY DEF Placed
  <2> QED
    BY <2>2, <2>3
<1> HIDE DEF after
<1>12. CASE worker = "renaming"
  <2>1. \A x \in Items : Base(dir, batch, worker)[x] = before[x]
    BY <1>12 DEF Base
  <2>2. History(undo, before)
    BY <1>4, <2>1, HistorySame
  <2>3. Takes(r, before, after)
    BY <1>2, <1>3, <1>4, RenamedTakes DEF after
  <2>4. Record(r) /\ r \in Seq(Pairs)
    <3>1. Record(r)
      BY <1>2, ReportIsRecord
    <3> QED
      BY <3>1 DEF Record
  <2>5. undo \in Seq(Seq(Pairs))
    BY <1>2 DEF Records
  <2>6. Undoable = FormerNames(undo) /\ Undoable' = FormerNames(undo')
    BY <1>1, <1>12 DEF Undoable
  <2> HIDE DEF before, r
  <2>7. CASE r = <<>>
    <3>1. undo' = undo
      BY <1>1, <2>7
    <3>2. \A x \in Items : after[x] = before[x]
      BY <2>3, <2>7 DEF Takes
    <3>3. History(undo', after)
      BY <2>2, <3>1, <3>2, HistorySame
    <3>4. after = before
      BY <1>9, <3>2 DEF before
    <3> QED
      BY <1>1, <1>10, <1>11, <2>6, <3>1, <3>3, <3>4 DEF Unseen
  <2>8. CASE r # <<>>
    <3>1. undo' = Append(undo, r)
      BY <1>1, <1>12, <2>8
    <3>2. History(undo', after)
      <4>1. History(Append(undo, r), after)
        BY <1>7, <2>2, <2>3, <2>4, <2>5, HistoryGrows
      <4> QED
        BY <3>1, <4>1
    <3>3. Changes(before, after) # {} /\ FormerName(r) = Restrict(before, Changes(before, after))
      BY <2>3, <2>4, <2>8, RecordMoves
    <3>4. FormerNames(undo') = Append(FormerNames(undo), FormerName(r))
      BY <2>4, <2>5, <3>1, FormerNamesAppend
    <3>5. Placed' \in [Items -> Names] /\ Promise!Distinguishes(Placed')
      BY <1>7, <1>11 DEF Placement, Promise!Distinguishes
    <3>6. Promise!RenameAll
      BY <1>11, <2>6, <3>3, <3>4, <3>5 DEF Promise!RenameAll, Changes, Restrict
    <3> QED
      BY <1>1, <1>10, <3>2, <3>6
  <2> QED
    BY <2>7, <2>8
<1>13. CASE worker = "undoing"
  <2>1. undo' = undo
    BY <1>1, <1>13
  <2>2. \A x \in Items : /\ x \in DOMAIN Undone(batch) <=> Member(batch, x)
                         /\ NameOf(dir, x) = IF Member(batch, x) THEN Undone(batch)[x]
                                                                ELSE PlacedBefore(dir, batch, x)
    BY <1>2, <1>3, <1>4, <1>13, UndoneNames
  <2>3. \A x \in Items : after[x] = Base(dir, batch, worker)[x]
    BY <1>9, <1>13, <2>2 DEF Base
  <2>4. History(undo', after)
    BY <1>4, <2>1, <2>3, HistorySame
  <2>5. /\ Undoable = Append(FormerNames(undo), Undone(batch))
        /\ Undoable' = FormerNames(undo)
    BY <1>1, <1>13, <2>1 DEF Undoable
  <2> DEFINE T == {FormerNames(undo)[k] : k \in DOMAIN undo} \cup {Undone(batch)}
  <2>6. FormerNames(undo) \in Seq(T) /\ Undone(batch) \in T
    <3>1. undo \in Seq(Seq(Pairs))
      BY <1>2 DEF Records
    <3>2. DOMAIN undo = 1..Len(undo) /\ Len(undo) \in Nat
      BY <3>1
    <3>3. FormerNames(undo) = [k \in 1..Len(undo) |-> FormerNames(undo)[k]]
      BY <3>2 DEF FormerNames
    <3>4. \A k \in 1..Len(undo) : FormerNames(undo)[k] \in T
      BY <3>2
    <3> HIDE DEF T
    <3>5. FormerNames(undo) \in Seq(T)
      BY <3>2, <3>3, <3>4
    <3> QED
      BY <3>5 DEF T
  <2> HIDE DEF T
  <2>7. Undoable # <<>> /\ Front(Undoable) = Undoable' /\ Last(Undoable) = Undone(batch)
    BY <2>5, <2>6, AppendThenFront
  <2>8. Placed' = [x \in Items |-> IF x \in DOMAIN Undone(batch) THEN Undone(batch)[x]
                                                                ELSE Placed[x]]
    <3>1. \A x \in Items : Placed[x] = PlacedBefore(dir, batch, x)
      BY <1>11
    <3>2. \A x \in Items : after[x] = IF x \in DOMAIN Undone(batch) THEN Undone(batch)[x]
                                                                    ELSE Placed[x]
      BY <1>9, <2>2, <3>1
    <3>3. after = [x \in Items |-> after[x]]
      BY <1>9
    <3> QED
      BY <1>11, <3>2, <3>3
  <2>9. Promise!UndoLast
    BY <2>7, <2>8 DEF Promise!UndoLast, Promise!Last, Promise!Front, Last, Front
  <2> QED
    BY <1>1, <1>10, <2>4, <2>9
<1> QED
  BY <1>2, <1>12, <1>13

LEMMA CalmBegins == ASSUME KeysDecide, Init PROVE CalmInv /\ Promise!Init
<1>1. PICK placed \in [Items -> Names] :
         /\ \A x, y \in Items : x # y => ~SameName(placed[x], placed[y])
         /\ dir = {[name |-> placed[x], item |-> x] : x \in Items}
  BY DEF Init
<1>2. worker = "idle" /\ batch = Idle /\ undo = <<>>
  BY DEF Init
<1>3. \A e \in dir : e.item \in Items /\ e.name = placed[e.item] /\ e.name \in Names
  BY <1>1
<1>4. \A x \in Items : \E e \in dir : e.item = x
  <2>1. \A x \in Items : [name |-> placed[x], item |-> x] \in dir
    BY <1>1
  <2> QED
    BY <2>1
<1>5. Whole(dir, Idle)
  BY <1>3, <1>4 DEF Whole
<1>6. Directory(dir)
  BY InitKeeps DEF IInv, InDirectory
<1>7. Placement(NamesIn(dir))
  BY <1>5, <1>6, WholePlacement
<1>8. CalmBatch(dir, Idle, "idle")
  BY <1>5, IdleCalm
<1>9. /\ \A x : PlacedBefore(dir, Idle, x) = NameOf(dir, x)
      /\ \A x \in Items : Base(dir, Idle, "idle")[x] = NameOf(dir, x)
  BY IdlePlaces
<1>10. \A x \in Items : Base(dir, Idle, "idle")[x] = NamesIn(dir)[x]
  BY <1>9 DEF NamesIn
<1>11. History(<<>>, NamesIn(dir))
  BY <1>7, HistoryBegins
<1>12. History(<<>>, Base(dir, Idle, "idle"))
  BY <1>10, <1>11, HistorySame
<1>13. CalmInv
  BY <1>2, <1>8, <1>12 DEF CalmInv
<1>14. ASSUME calm
       PROVE  Placed \in [Items -> Names] /\ Promise!Distinguishes(Placed) /\ Undoable = <<>>
  <2>1. Placed = NamesIn(dir)
    BY <1>2, <1>9, <1>14 DEF Placed, NamesIn
  <2>2. Undoable = FormerNames(<<>>)
    BY <1>2, <1>14 DEF Undoable
  <2>3. FormerNames(<<>>) = <<>>
    BY DEF FormerNames
  <2> QED
    BY <1>7, <2>1, <2>2, <2>3 DEF Placement, Promise!Distinguishes
<1> QED
  BY <1>13, <1>14 DEF Promise!Init

LEMMA CalmNext ==
    ASSUME KeysDecide, IInv, CalmInv, [Next]_vars
    PROVE  CalmInv' /\ [Promise!Next]_<<calm, Placed, Undoable>>
<1>1. calm' = calm
  BY DEF Next, Apply, UndoLast, RunRenames, Guard, Rename, Park, Finish, OtherPrograms,
         ForeignCreate, ForeignRemove, counters, vars
<1>2. CASE ~calm
  <2>1. Placed' = Placed /\ Undoable' = Undoable
    BY <1>1, <1>2 DEF Placed, Undoable
  <2> QED
    BY <1>1, <1>2, <2>1 DEF CalmInv
<1>3. CASE calm
  <2>1. CASE Apply
    BY <1>3, <2>1, CalmApply DEF Unseen
  <2>2. CASE UndoLast
    BY <1>3, <2>2, CalmUndo DEF Unseen
  <2>3. CASE RunRenames
    <3>1. CASE Guard
      BY <1>3, <3>1, CalmGuard DEF Unseen
    <3>2. CASE Rename
      BY <1>3, <3>2, CalmRename DEF Unseen
    <3>3. CASE Park
      BY <1>3, <3>3, CalmPark DEF Unseen
    <3>4. CASE Finish
      <4>1. Unseen \/ (CalmInv' /\ calm' = calm /\ (Promise!RenameAll \/ Promise!UndoLast))
        BY <1>3, <3>4, CalmFinish
      <4> QED
        BY <4>1 DEF Unseen, Promise!Next
    <3> QED
      BY <2>3, <3>1, <3>2, <3>3, <3>4 DEF RunRenames
  <2>4. CASE OtherPrograms
    BY <1>3, <2>4 DEF OtherPrograms, ForeignCreate, ForeignRemove
  <2>5. CASE UNCHANGED vars
    BY <2>5 DEF vars, CalmInv, Placed, Undoable
  <2> QED
    BY <2>1, <2>2, <2>3, <2>4, <2>5 DEF Next
<1> QED
  BY <1>2, <1>3

----
(* The results.                                                            *)

(* However many batches and undos run, however their renames fail and      *)
(* whatever other programs create and remove between two system calls, no  *)
(* item of the directory is destroyed by a rename, except one that an      *)
(* earlier batch left under a temporary name.  On any volume.              *)
THEOREM RenamesLoseNothing == Spec => []NothingLost
<1>1. IInv => NothingLost
  BY DEF IInv
<1> QED
  BY <1>1, Invariance, PTL

(* run_renames keeps its books: each pair still to be renamed is ready, in *)
(* hand, or waits for one other that will settle its claim, so that no     *)
(* cycle is given up; and where the volume takes two names for one exactly *)
(* when run_renames does, a pair is tried only once no other pair of the   *)
(* batch sits at its destination.                                          *)
THEOREM BatchStaysConsistent == ASSUME KeysDecide PROVE Spec => []BatchConsistent
<1>1. ASSUME IInv PROVE TypeOK
  <2>1. Booked(batch, guarded) /\ Shape(batch) /\ Directory(dir)
    BY <1>1 DEF IInv, Books, InDirectory, Booked
  <2>2. guarded \in {0} \cup Pending /\ Range(batch.ready) \cap batch.done = {}
    BY <2>1 DEF Booked, Queued, Pending
  <2>3. \A e \in dir : e.name \in Names \cup Nat /\ e.item \in Items \cup Newcomers
    BY <2>1, EntryTyped DEF Places
  <2>4. \A e, f \in dir : SameName(e.name, f.name) \/ e.item = f.item => e = f
    BY <2>1 DEF Directory
  <2>5. batch.done \subseteq DOMAIN batch.pairs /\ batch.parked \subseteq DOMAIN batch.pairs
    BY <2>1 DEF Shape
  <2> QED
    BY <1>1, <2>2, <2>3, <2>4, <2>5 DEF TypeOK, IInv, Books
<1>2. ASSUME IInv PROVE DependencyOrder
  <2> SUFFICES ASSUME NEW i \in Range(batch.ready), NEW j \in Pending \ {i}
               PROVE  ~SameName(batch.src[j], batch.pairs[i].new)
    BY DEF DependencyOrder
  <2>1. Booked(batch, guarded) /\ Shape(batch) /\ Ordered(batch)
    BY <1>2 DEF IInv, Books, InOrder, Booked
  <2>2. i \in DOMAIN batch.pairs \ batch.done /\ i \notin Awaiting(batch)
    BY <2>1 DEF Booked, Queued
  <2> QED
    BY <2>1, <2>2, NoneInTheWay DEF Pending
<1>3. IInv => EveryCycleBreaks
  BY CyclesBreak
<1>4. IInv => BatchConsistent
  BY <1>1, <1>2, <1>3 DEF BatchConsistent
<1> QED
  BY <1>4, Invariance, PTL

(* What a batch will report is where the items are: at the new name if the *)
(* pair is reported as renamed, else at the name the error gives, a        *)
(* temporary one included.  In every state of every batch and undo.        *)
THEOREM ReportsAreTrue == ASSUME KeysDecide PROVE Spec => []ItemsWhereReported
<1>1. ASSUME IInv PROVE ItemsWhereReported
  <2>1. Located(dir, batch, removed \cup astray)
    BY <1>1 DEF IInv, InOrder
  <2> QED
    BY <2>1 DEF Located, Reported, ItemsWhereReported, Holds, At
<1> QED
  BY <1>1, Invariance, PTL

(* Where no rename fails and no other program acts, run_renames, with its  *)
(* chains, its parked files and the order it finds, does to the names of   *)
(* the items what one simultaneous renaming would, for any plan without    *)
(* conflicts, and each undo gives back the names its batch took.           *)
THEOREM BatchKeepsPromise == ASSUME KeysDecide PROVE Spec => KeepsPromise
<1>1. Init => CalmInv /\ Promise!Init
  BY CalmBegins
<1>2. IInv /\ CalmInv /\ [Next]_vars => CalmInv' /\ [Promise!Next]_<<calm, Placed, Undoable>>
  BY CalmNext
<1> QED
  BY <1>1, <1>2, Invariance, PTL DEF Spec, KeepsPromise, Promise!Spec
====
