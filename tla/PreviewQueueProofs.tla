------------------------- MODULE PreviewQueueProofs -------------------------
(***************************************************************************)
(* The preview queue never wedges and never marks as failed what was only  *)
(* superseded, for every set of windows, paths and refreshable directories *)
(* and every bound.                                                        *)
(*                                                                         *)
(* The slot comes first, without the cache: whatever that answers, a       *)
(* request starts only on a free slot and waits only behind a fetch it has *)
(* cancelled (SlotInv).  Then the cache: what it holds as pending belongs  *)
(* to the fetch or to a warm, what it holds as failed was refused (Owned). *)
(***************************************************************************)
EXTENDS PreviewQueue, WellFoundedInduction, TLAPS

Fetches == [path : Paths, window : Windows, cancelled : BOOLEAN,
            result : {"running", "loaded", "failed"}]

\* SlotHasFetch is inductive once a fetch is known to be of a real path.
SlotInv ==
    /\ fetch \in Fetches \cup {NoFetch}
    /\ queued \in Paths \cup {NoPath}
    /\ SlotHasFetch

\* What the steps change of the slot: nothing, a start on it, or a successor.
slotVars == <<active, queued, fetch>>

\* A fetch that runs is of a path, and an idle slot is of none.
LEMMA FetchingIsOfPath ==
    ASSUME fetch \in Fetches \cup {NoFetch}
    PROVE  Fetching <=> fetch.path \in Paths
BY PathsAssumption DEF Fetches, NoFetch, Fetching

\* start_request leaves a slot with a fetch and nothing behind it.
LEMMA StartedKeepsSlot ==
    ASSUME NEW c, NEW w \in Windows, NEW p \in Paths, Started(c, w, p)
    PROVE  SlotInv'
<1>1. fetch' \in Fetches /\ fetch'.path = p
  BY DEF Started, Fetches
<1>2. active' = p /\ queued' = NoPath
  BY DEF Started
<1> QED
  BY <1>1, <1>2 DEF SlotInv, SlotHasFetch

\* enqueue_request waits behind a fetch that it has just cancelled.
LEMMA QueueKeepsSlot ==
    ASSUME NEW p \in Paths, SlotInv, active # NoPath, p \notin {active, queued}, Queue(p)
    PROVE  SlotInv'
<1>1. Fetching /\ fetch \in Fetches
  BY FetchingIsOfPath, PathsAssumption DEF SlotInv, SlotHasFetch, NoFetch, Fetching
<1>2. /\ fetch' \in Fetches
      /\ fetch'.cancelled
      /\ fetch'.path = active'
      /\ queued' = p /\ active' = active
  BY <1>1 DEF Queue, Fetches, SlotInv, SlotHasFetch
<1>3. Fetching'
  BY <1>2, PathsAssumption DEF Fetches, Fetching, NoFetch
<1> QED
  BY <1>2, <1>3 DEF SlotInv, SlotHasFetch

LEMMA RequestKeepsSlot ==
    ASSUME NEW w \in Windows, NEW p \in Paths, SlotInv, Request(w, p)
    PROVE  SlotInv'
<1>1. CASE IsCached(p) \/ p \in {active, queued}
  <2>1. active = NoPath => queued = NoPath
    BY FetchingIsOfPath, PathsAssumption DEF SlotInv, SlotHasFetch
  <2>2. ~(~IsCached(p) /\ active = NoPath)
    BY <1>1, <2>1, PathsAssumption DEF IsCached
  <2>3. UNCHANGED slotVars
    BY <1>1, <2>2 DEF Request, slotVars, IsCached
  <2> QED
    BY <2>3 DEF SlotInv, SlotHasFetch, slotVars, Fetching
<1>2. CASE ~(IsCached(p) \/ p \in {active, queued}) /\ active = NoPath
  <2>1. Started(cache, w, p)
    BY <1>2 DEF Request, IsCached
  <2> QED
    BY <2>1, StartedKeepsSlot
<1>3. CASE ~(IsCached(p) \/ p \in {active, queued}) /\ active # NoPath
  <2>1. Queue(p)
    BY <1>3 DEF Request, IsCached
  <2> QED
    BY <1>3, <2>1, QueueKeepsSlot
<1> QED
  BY <1>1, <1>2, <1>3

\* The result of a fetch frees the slot or hands it on to the one that waits.
LEMMA ApplyResultKeepsSlot ==
    ASSUME SlotInv, ApplyResult
    PROVE  SlotInv'
<1>1. fetch \in Fetches
  BY DEF ApplyResult, SlotInv, Fetching
<1>2. CASE Successor # NoPath /\ fetch.window \in open /\ Entry(Applied, Successor) = {}
  <2>1. Started(Applied, fetch.window, Successor)
    BY <1>2 DEF ApplyResult
  <2>2. Successor \in Paths /\ fetch.window \in Windows
    BY <1>1, <1>2 DEF SlotInv, Successor, Fetches
  <2> QED
    BY <2>1, <2>2, StartedKeepsSlot
<1>3. CASE ~(Successor # NoPath /\ fetch.window \in open /\ Entry(Applied, Successor) = {})
  <2>1. active' = NoPath /\ queued' = NoPath /\ fetch' = NoFetch
    BY <1>3 DEF ApplyResult
  <2> QED
    BY <2>1 DEF SlotInv, SlotHasFetch, NoFetch
<1> QED
  BY <1>2, <1>3

LEMMA SlotInductive ==
    ASSUME SlotInv, [Next]_vars
    PROVE  SlotInv'
<1>1. CASE UNCHANGED slotVars
  BY <1>1 DEF SlotInv, SlotHasFetch, slotVars, Fetching
<1>2. ASSUME NEW w \in Windows, NEW p \in Paths, Select(w, p)
      PROVE  SlotInv'
  <2>1. Request(w, p)
    BY <1>2 DEF Select
  <2> QED
    BY <2>1, RequestKeepsSlot
<1>3. CASE Answer
  <2>1. fetch \in Fetches /\ Fetching
    BY <1>3 DEF Answer, SlotInv, Fetching
  <2>2. PICK result \in {"loaded", "failed"} : fetch' = [fetch EXCEPT !.result = result]
    BY <1>3 DEF Answer
  <2>3. /\ fetch' \in Fetches
        /\ fetch'.path = fetch.path /\ fetch'.cancelled = fetch.cancelled
    BY <2>1, <2>2 DEF Fetches
  <2>4. Fetching'
    BY <2>3, PathsAssumption DEF Fetches, Fetching, NoFetch
  <2>5. UNCHANGED <<active, queued>>
    BY <1>3 DEF Answer
  <2> QED
    BY <2>3, <2>4, <2>5 DEF SlotInv, SlotHasFetch
<1>4. CASE ApplyResult
  BY <1>4, ApplyResultKeepsSlot
<1>5. ASSUME NEW w \in Windows,
             SelectFolder(w) \/ (\E root \in Refreshable : Refresh(w, root)) \/ CloseWindow(w)
      PROVE  UNCHANGED slotVars
  BY <1>5 DEF SelectFolder, Refresh, CloseWindow, slotVars
<1>6. ASSUME NEW p \in Paths, Warm(p) \/ WarmReturns(p)
      PROVE  UNCHANGED slotVars
  BY <1>6 DEF Warm, WarmReturns, slotVars
<1>7. CASE UNCHANGED vars
  BY <1>7, <1>1 DEF vars, slotVars
<1> QED
  BY <1>1, <1>2, <1>3, <1>4, <1>5, <1>6, <1>7 DEF Next, User

----------------------------------------------------------------------------
(* The cache operators. *)

LEMMA NatMinimum ==
    ASSUME NEW T, T \subseteq Nat, T # {}
    PROVE  \E x \in T : \A y \in T : x <= y
<1> DEFINE R == OpToRel(<, Nat)
<1>1. IsWellFoundedOn(R, Nat)
  BY NatLessThanWellFounded
<1> HIDE DEF R
<1>2. PICK x \in T : \A y \in T : <<y, x>> \notin R
  BY <1>1, WFMin
<1>3. \A y \in T : ~(y < x)
  BY <1>2 DEF R, OpToRel
<1> QED
  BY <1>3

LEMMA Appended ==
    ASSUME NEW S, NEW s \in Seq(S), NEW e \in S
    PROVE  /\ Append(s, e) \in Seq(S) /\ Len(s) \in Nat /\ Len(Append(s, e)) = Len(s) + 1
           /\ DOMAIN s = 1..Len(s) /\ DOMAIN Append(s, e) = 1..(Len(s) + 1)
           /\ Append(s, e)[Len(s) + 1] = e
           /\ \A i \in 1..Len(s) : Append(s, e)[i] = s[i]
<1>1. Append(s, e) \in Seq(S)
  OBVIOUS
<1>2. Len(s) \in Nat /\ Len(Append(s, e)) = Len(s) + 1
  OBVIOUS
<1> QED
  BY <1>1, <1>2

\* Different places hold different elements.
Unique(s) == \A i, j \in DOMAIN s : s[i] = s[j] => i = j

LEMMA AppendUnique ==
    ASSUME NEW S, NEW s \in Seq(S), NEW e \in S
    PROVE  /\ Range(Append(s, e)) = Range(s) \cup {e}
           /\ Unique(s) /\ e \notin Range(s) => Unique(Append(s, e))
<1> DEFINE a == Append(s, e)
<1>1. /\ Len(s) \in Nat /\ DOMAIN s = 1..Len(s) /\ DOMAIN a = 1..(Len(s) + 1)
      /\ a[Len(s) + 1] = e /\ \A i \in 1..Len(s) : a[i] = s[i]
  BY Appended
<1> HIDE DEF a
<1>2. Range(a) = Range(s) \cup {e}
  <2>1. ASSUME NEW x \in Range(a) PROVE x \in Range(s) \cup {e}
    <3>1. PICK i \in 1..(Len(s) + 1) : x = a[i]
      BY <1>1 DEF Range
    <3>2. i \in 1..Len(s) \/ i = Len(s) + 1
      BY <1>1
    <3> QED
      BY <1>1, <3>1, <3>2 DEF Range
  <2>2. ASSUME NEW x \in Range(s) PROVE x \in Range(a)
    <3>1. PICK i \in 1..Len(s) : x = s[i]
      BY <1>1 DEF Range
    <3>2. i \in DOMAIN a /\ a[i] = x
      BY <1>1, <3>1
    <3> QED
      BY <3>2 DEF Range
  <2>3. e \in Range(a)
    BY <1>1 DEF Range
  <2> QED
    BY <2>1, <2>2, <2>3
<1>3. ASSUME Unique(s), e \notin Range(s) PROVE Unique(a)
  <2> SUFFICES ASSUME NEW i \in DOMAIN a, NEW j \in DOMAIN a, a[i] = a[j] PROVE i = j
    BY DEF Unique
  <2>1. (i \in 1..Len(s) \/ i = Len(s) + 1) /\ (j \in 1..Len(s) \/ j = Len(s) + 1)
    BY <1>1
  <2>2. \A k \in 1..Len(s) : s[k] # e
    BY <1>1, <1>3 DEF Range
  <2> QED
    BY <1>1, <1>3, <2>1, <2>2 DEF Unique
<1> QED
  BY <1>2, <1>3 DEF a

\* The recursion of Kept, up to n.
UpTo(c, es, f, n) ==
    f = [k \in 0..n |-> IF k = 0 THEN <<>>
                        ELSE IF c[k] \in es THEN Append(f[k - 1], c[k]) ELSE f[k - 1]]

LEMMA UpToExists ==
    ASSUME NEW c, NEW es
    PROVE  \A n \in Nat : \E f : UpTo(c, es, f, n)
<1> DEFINE T == {n \in Nat : ~ \E f : UpTo(c, es, f, n)}
<1> SUFFICES ASSUME T # {} PROVE FALSE
  OBVIOUS
<1>1. PICK m \in T : \A y \in T : m <= y
  BY NatMinimum
<1>2. CASE m = 0
  <2>1. UpTo(c, es, [k \in 0..0 |-> <<>>], 0)
    BY DEF UpTo
  <2> QED
    BY <1>2, <2>1
<1>3. CASE m # 0
  <2>1. m - 1 \in Nat /\ m - 1 \notin T
    BY <1>1, <1>3
  <2>2. PICK f : UpTo(c, es, f, m - 1)
    BY <2>1
  <2> DEFINE last == IF c[m] \in es THEN Append(f[m - 1], c[m]) ELSE f[m - 1]
             g    == [k \in 0..m |-> IF k = m THEN last ELSE f[k]]
             h    == [k \in 0..m |-> IF k = 0 THEN <<>>
                        ELSE IF c[k] \in es THEN Append(g[k - 1], c[k]) ELSE g[k - 1]]
  <2>3. \A k \in 0..(m - 1) :
           f[k] = IF k = 0 THEN <<>>
                  ELSE IF c[k] \in es THEN Append(f[k - 1], c[k]) ELSE f[k - 1]
    BY <2>2 DEF UpTo
  <2>4. ASSUME NEW k \in 0..m PROVE g[k] = h[k]
    <3>1. CASE k = m
      <4>1. g[k - 1] = f[m - 1] /\ k # 0
        BY <1>3, <3>1
      <4> QED
        BY <3>1, <4>1
    <3>2. CASE k # m /\ k # 0
      <4>1. k - 1 \in 0..m /\ k - 1 # m /\ k \in 0..(m - 1)
        BY <3>2
      <4>2. g[k - 1] = f[k - 1] /\ g[k] = f[k]
        BY <3>2, <4>1
      <4> HIDE DEF g
      <4> QED
        BY <2>3, <3>2, <4>1, <4>2
    <3>3. CASE k # m /\ k = 0
      <4>1. k \in 0..(m - 1) /\ g[k] = f[k]
        BY <3>3
      <4> HIDE DEF g
      <4> QED
        BY <2>3, <3>3, <4>1
    <3> QED
      BY <3>1, <3>2, <3>3
  <2>5. g = h
    <3> HIDE DEF last
    <3>1. DOMAIN g = 0..m /\ DOMAIN h = 0..m
      OBVIOUS
    <3> QED
      BY <2>4
  <2>6. UpTo(c, es, g, m)
    <3> HIDE DEF g
    <3> QED
      BY <2>5 DEF UpTo
  <2> QED
    BY <2>6
<1> QED
  BY <1>2, <1>3

\* Kept returns the entries of c that are in es, as often and in no other place.
LEMMA KeptFacts ==
    ASSUME NEW E, NEW c \in Seq(E), Unique(c), NEW es
    PROVE  /\ Kept(c, es) \in Seq(E) /\ Len(Kept(c, es)) <= Len(c)
           /\ Range(Kept(c, es)) = Range(c) \cap es
           /\ Unique(Kept(c, es))
<1> DEFINE f == CHOOSE f : UpTo(c, es, f, Len(c))
           n == Len(c)
           seen(k) == {c[i] : i \in 1..k}
           Right(k) == /\ f[k] \in Seq(E) /\ Len(f[k]) <= k
                       /\ Range(f[k]) = seen(k) \cap es /\ Unique(f[k])
           T == {k \in 0..n : ~Right(k)}
<1>1. n \in Nat /\ DOMAIN c = 1..n
  OBVIOUS
<1>2. UpTo(c, es, f, n)
  BY <1>1, UpToExists
<1>3. Kept(c, es) = f[n]
  BY DEF Kept, UpTo
<1> HIDE DEF f
<1>4. \A k \in 0..n :
         f[k] = IF k = 0 THEN <<>>
                ELSE IF c[k] \in es THEN Append(f[k - 1], c[k]) ELSE f[k - 1]
  BY <1>2 DEF UpTo
<1> HIDE DEF n, Right
<1>5. T = {}
  <2> SUFFICES ASSUME T # {} PROVE FALSE
    OBVIOUS
  <2>1. T \subseteq Nat
    BY <1>1
  <2>2. PICK m \in T : \A y \in T : m <= y
    BY <2>1, NatMinimum
  <2>3. m \in 0..n /\ ~Right(m)
    OBVIOUS
  <2>4. CASE m = 0
    <3>1. f[m] = <<>> /\ seen(m) = {}
      BY <1>4, <2>3, <2>4
    <3>2. <<>> \in Seq(E) /\ Len(<<>>) = 0 /\ DOMAIN <<>> = {}
      OBVIOUS
    <3> QED
      BY <2>3, <2>4, <3>1, <3>2 DEF Range, Unique, Right
  <2>5. CASE m # 0
    <3>1. m - 1 \in 0..n /\ m - 1 \notin T /\ m \in 1..n
      <4>1. m - 1 \in 0..n /\ m \in 1..n /\ ~(m <= m - 1)
        BY <1>1, <2>3, <2>5
      <4> QED
        BY <2>2, <4>1
    <3>2. /\ f[m - 1] \in Seq(E) /\ Len(f[m - 1]) <= m - 1
          /\ Range(f[m - 1]) = seen(m - 1) \cap es /\ Unique(f[m - 1])
      BY <3>1 DEF Right
    <3>3. seen(m) = seen(m - 1) \cup {c[m]}
      <4>1. \A i \in 1..m : i \in 1..(m - 1) \/ i = m
        BY <1>1, <3>1
      <4>2. \A i \in 1..(m - 1) : i \in 1..m
        BY <1>1, <3>1
      <4>3. m \in 1..m
        BY <1>1, <3>1
      <4> QED
        BY <4>1, <4>2, <4>3
    <3>4. c[m] \in E /\ c[m] \notin seen(m - 1)
      <4>1. c[m] \in E
        BY <1>1, <3>1
      <4>2. \A i \in 1..(m - 1) : i \in 1..n /\ i # m
        BY <1>1, <3>1
      <4> QED
        BY <1>1, <3>1, <4>1, <4>2 DEF Unique
    <3>5. CASE c[m] \in es
      <4>1. f[m] = Append(f[m - 1], c[m])
        BY <1>4, <2>3, <2>5, <3>5
      <4>2. /\ Append(f[m - 1], c[m]) \in Seq(E)
            /\ Len(Append(f[m - 1], c[m])) = Len(f[m - 1]) + 1 /\ Len(f[m - 1]) \in Nat
        BY <3>2, <3>4, Appended
      <4>3. /\ Range(Append(f[m - 1], c[m])) = Range(f[m - 1]) \cup {c[m]}
            /\ Unique(f[m - 1]) /\ c[m] \notin Range(f[m - 1])
                  => Unique(Append(f[m - 1], c[m]))
        BY <3>2, <3>4, AppendUnique
      <4>4. c[m] \notin Range(f[m - 1])
        BY <3>2, <3>4
      <4>5. Len(f[m]) <= m
        <5>1. m \in Nat /\ Len(f[m - 1]) <= m - 1
          BY <1>1, <3>1, <3>2
        <5> QED
          BY <4>1, <4>2, <5>1
      <4>6. Range(f[m]) = seen(m) \cap es
        <5> HIDE DEF seen
        <5> QED
          BY <3>2, <3>3, <3>5, <4>1, <4>3
      <4> QED
        BY <2>3, <3>2, <4>1, <4>2, <4>3, <4>4, <4>5, <4>6 DEF Right
    <3>6. CASE c[m] \notin es
      <4>1. f[m] = f[m - 1]
        BY <1>4, <2>3, <2>5, <3>6
      <4>2. Range(f[m]) = seen(m) \cap es
        <5> HIDE DEF seen
        <5> QED
          BY <3>2, <3>3, <3>6, <4>1
      <4>3. Len(f[m]) <= m
        <5>1. m \in Nat /\ Len(f[m - 1]) <= m - 1 /\ Len(f[m - 1]) \in Nat
          BY <1>1, <3>1, <3>2
        <5> QED
          BY <4>1, <5>1
      <4> QED
        BY <2>3, <3>2, <4>1, <4>2, <4>3 DEF Right
    <3> QED
      BY <3>5, <3>6
  <2> QED
    BY <2>4, <2>5
<1>6. Right(n)
  <2>1. n \in 0..n
    BY <1>1
  <2> QED
    BY <1>5, <2>1
<1>7. seen(n) = Range(c)
  BY <1>1 DEF Range
<1> HIDE DEF seen
<1> QED
  BY <1>3, <1>6, <1>7 DEF n, Right

Entries == [path : Paths, state : {"pending", "loaded", "failed"}]

\* One entry per path, and no more than the cap.
CacheOK(c) ==
    /\ c \in Seq(Entries) /\ Len(c) <= CacheCap
    /\ \A k, l \in DOMAIN c : c[k].path = c[l].path => k = l

LEMMA KeptOK ==
    ASSUME NEW c, CacheOK(c), NEW es
    PROVE  CacheOK(Kept(c, es)) /\ Range(Kept(c, es)) = Range(c) \cap es
<1> DEFINE d == Kept(c, es)
<1>1. c \in Seq(Entries) /\ Len(c) <= CacheCap /\ Unique(c)
  BY DEF CacheOK, Unique
<1>2. d \in Seq(Entries) /\ Len(d) <= Len(c) /\ Range(d) = Range(c) \cap es /\ Unique(d)
  BY <1>1, KeptFacts
<1> HIDE DEF d
<1>3. Len(d) <= CacheCap
  <2>1. Len(d) \in Nat /\ Len(c) \in Nat /\ CacheCap \in Nat
    BY <1>1, <1>2, BoundsAssumption
  <2> QED
    BY <1>1, <1>2, <2>1
<1>4. ASSUME NEW k \in DOMAIN d, NEW l \in DOMAIN d, d[k].path = d[l].path
      PROVE  k = l
  <2>1. d[k] \in Range(c) /\ d[l] \in Range(c)
    BY <1>2, <1>4 DEF Range
  <2>2. PICK i \in DOMAIN c : d[k] = c[i]
    BY <2>1 DEF Range
  <2>3. PICK j \in DOMAIN c : d[l] = c[j]
    BY <2>1 DEF Range
  <2>4. i = j
    BY <1>4, <2>2, <2>3 DEF CacheOK
  <2> QED
    BY <1>2, <2>2, <2>3, <2>4 DEF Unique
<1> QED
  BY <1>2, <1>3, <1>4 DEF CacheOK, d

\* Dropping the oldest entry.
LEMMA TailOK ==
    ASSUME NEW c \in Seq(Entries), c # <<>>, NEW n \in Nat, Len(c) <= n + 1,
           \A k, l \in DOMAIN c : c[k].path = c[l].path => k = l
    PROVE  /\ Tail(c) \in Seq(Entries) /\ Len(Tail(c)) <= n /\ Range(Tail(c)) \subseteq Range(c)
           /\ \A k, l \in DOMAIN Tail(c) : Tail(c)[k].path = Tail(c)[l].path => k = l
<1> DEFINE t == Tail(c)
<1>1. Len(c) \in Nat \ {0} /\ DOMAIN c = 1..Len(c) /\ t \in Seq(Entries)
  OBVIOUS
<1>2. Len(t) = Len(c) - 1
  BY <1>1
<1>3. DOMAIN t = 1..(Len(c) - 1)
  BY <1>1, <1>2
<1>4. \A i \in 1..(Len(c) - 1) : t[i] = c[i + 1] /\ i + 1 \in DOMAIN c
  BY <1>1
<1> HIDE DEF t
<1>5. \A k, l \in DOMAIN t : t[k].path = t[l].path => k = l
  <2> SUFFICES ASSUME NEW k \in DOMAIN t, NEW l \in DOMAIN t, t[k].path = t[l].path
               PROVE  k = l
    OBVIOUS
  <2>1. k + 1 = l + 1
    BY <1>3, <1>4
  <2> QED
    BY <1>1, <1>3, <2>1
<1>6. Range(t) \subseteq Range(c)
  BY <1>3, <1>4 DEF Range
<1>7. Len(t) <= n
  BY <1>1, <1>2
<1> QED
  BY <1>1, <1>5, <1>6, <1>7 DEF t

\* An insertion adds the one entry and replaces what there was of its path.
LEMMA InsertedOK ==
    ASSUME NEW c, CacheOK(c), NEW p \in Paths, NEW state \in {"pending", "loaded", "failed"}
    PROVE  /\ CacheOK(Inserted(c, p, state))
           /\ Range(Inserted(c, p, state)) \subseteq
                 {e \in Range(c) : e.path # p} \cup {[path |-> p, state |-> state]}
<1> DEFINE new == [path |-> p, state |-> state]
<1>1. new \in Entries /\ new.path = p
  BY DEF Entries
<1>2. /\ c \in Seq(Entries) /\ Len(c) <= CacheCap /\ Len(c) \in Nat /\ DOMAIN c = 1..Len(c)
      /\ CacheCap \in Nat
  BY BoundsAssumption DEF CacheOK
<1>3. CASE Entry(c, p) # {}
  <2> DEFINE d == [k \in DOMAIN c |-> IF c[k].path = p THEN new ELSE c[k]]
  <2>1. Inserted(c, p, state) = d
    BY <1>3 DEF Inserted
  <2>2. DOMAIN d = 1..Len(c) /\ \A k \in 1..Len(c) : d[k] = IF c[k].path = p THEN new ELSE c[k]
    BY <1>2
  <2>3. d \in Seq(Entries) /\ Len(d) = Len(c)
    <3>1. \A k \in 1..Len(c) : d[k] \in Entries
      BY <1>1, <1>2, <2>2
    <3>2. d = [k \in 1..Len(c) |-> d[k]]
      BY <1>2
    <3> HIDE DEF d
    <3> QED
      BY <1>2, <2>2, <3>1, <3>2
  <2> HIDE DEF d, new
  <2>4. \A k \in 1..Len(c) : d[k].path = c[k].path
    BY <1>1, <2>2
  <2>5. CacheOK(d)
    BY <1>2, <2>2, <2>3, <2>4 DEF CacheOK
  <2>6. ASSUME NEW e \in Range(d) PROVE e \in {x \in Range(c) : x.path # p} \cup {new}
    <3>1. PICK k \in 1..Len(c) : e = d[k]
      BY <2>2 DEF Range
    <3>2. c[k] \in Range(c)
      BY <1>2 DEF Range
    <3> QED
      BY <2>2, <3>1, <3>2
  <2> QED
    BY <2>1, <2>5, <2>6 DEF new
<1>4. CASE Entry(c, p) = {}
  <2> DEFINE longer == Append(c, new)
  <2>1. /\ longer \in Seq(Entries) /\ Len(longer) = Len(c) + 1
        /\ DOMAIN longer = 1..(Len(c) + 1) /\ longer[Len(c) + 1] = new
        /\ \A i \in 1..Len(c) : longer[i] = c[i]
    BY <1>1, <1>2, Appended
  <2>2. Range(longer) = Range(c) \cup {new}
    BY <1>1, <1>2, AppendUnique
  <2>3. Inserted(c, p, state) = IF Len(longer) > CacheCap THEN Tail(longer) ELSE longer
    BY <1>4 DEF Inserted
  <2> HIDE DEF longer, new
  <2>4. \A e \in Range(c) : e.path # p
    BY <1>4 DEF Entry
  <2>5. \A k, l \in DOMAIN longer : longer[k].path = longer[l].path => k = l
    <3> SUFFICES ASSUME NEW k \in DOMAIN longer, NEW l \in DOMAIN longer,
                        longer[k].path = longer[l].path
                 PROVE  k = l
      OBVIOUS
    <3>1. (k \in 1..Len(c) \/ k = Len(c) + 1) /\ (l \in 1..Len(c) \/ l = Len(c) + 1)
      BY <1>2, <2>1
    <3>2. \A i \in 1..Len(c) : longer[i].path # p
      BY <1>2, <2>1, <2>4 DEF Range
    <3> QED
      BY <1>1, <1>2, <2>1, <3>1, <3>2 DEF CacheOK
  <2>6. CASE Len(longer) > CacheCap
    <3>1. longer # <<>>
      BY <1>2, <2>1
    <3>2. Len(longer) <= CacheCap + 1
      BY <1>2, <2>1
    <3>3. /\ Tail(longer) \in Seq(Entries) /\ Len(Tail(longer)) <= CacheCap
          /\ Range(Tail(longer)) \subseteq Range(longer)
          /\ \A k, l \in DOMAIN Tail(longer) : Tail(longer)[k].path = Tail(longer)[l].path => k = l
      BY <1>2, <2>1, <2>5, <3>1, <3>2, TailOK
    <3> QED
      BY <2>2, <2>3, <2>4, <2>6, <3>3 DEF CacheOK, new
  <2>7. CASE ~(Len(longer) > CacheCap)
    <3>1. Len(longer) <= CacheCap
      BY <1>2, <2>1, <2>7
    <3> QED
      BY <2>1, <2>2, <2>3, <2>4, <2>5, <2>7, <3>1 DEF CacheOK, new
  <2> QED
    BY <2>6, <2>7
<1> QED
  BY <1>3, <1>4

----------------------------------------------------------------------------
(* The whole invariant. *)

\* What is in cache c is somebody's: what is pending is being fetched by f or
\* warmed, and what has failed was refused by a provider.
Owned(c, f, ws, rs) ==
    \A e \in Range(c) : /\ e.state = "pending" => e.path = f.path \/ ws[e.path] > 0
                        /\ e.state = "failed" => e.path \in rs

\* A fetch that failed and was not told to stop was refused.
Refused(f, rs) == f \in Fetches /\ f.result = "failed" /\ ~f.cancelled => f.path \in rs

Counted ==
    /\ warms \in [Paths -> Nat] /\ \A p \in Paths : warms[p] <= warmed
    /\ warmed \in 0..MaxWarms

Surroundings ==
    /\ shown \in [Windows -> Paths \cup {NoPath}] /\ open \subseteq Windows
    /\ refused \subseteq Paths
    /\ dropped \in [Windows -> {"no", "rejoined", "displaced", "orphaned"}]

PreviewInv ==
    /\ SlotInv /\ Counted /\ Surroundings
    /\ CacheOK(cache) /\ Owned(cache, fetch, warms, refused) /\ Refused(fetch, refused)

\* Entries are paths, so the counter of an entry is one of warms.
LEMMA EntryTyped ==
    ASSUME NEW c, CacheOK(c), NEW e \in Range(c)
    PROVE  e \in Entries
<1>1. PICK k \in DOMAIN c : e = c[k]
  BY DEF Range
<1> QED
  BY <1>1 DEF CacheOK

\* A cache with fewer entries is still owned.
LEMMA FewerOwned ==
    ASSUME NEW c, NEW d, NEW f, NEW ws, NEW rs, Owned(c, f, ws, rs), Range(d) \subseteq Range(c)
    PROVE  Owned(d, f, ws, rs)
BY DEF Owned

\* start_request on a cache whose pending entries are all warmed.
LEMMA StartedOwned ==
    ASSUME NEW c, CacheOK(c), NEW w \in Windows, NEW p \in Paths, Started(c, w, p),
           NEW ws, NEW rs, Owned(c, NoFetch, ws, rs)
    PROVE  CacheOK(cache') /\ Owned(cache', fetch', ws, rs) /\ Refused(fetch', rs)
<1>1. cache' = Inserted(c, p, "pending") /\ fetch'.path = p /\ fetch'.result = "running"
  BY DEF Started
<1>2. /\ CacheOK(cache')
      /\ Range(cache') \subseteq {e \in Range(c) : e.path # p} \cup {[path |-> p, state |-> "pending"]}
  BY <1>1, InsertedOK
<1>3. ASSUME NEW e \in Range(cache')
      PROVE  /\ e.state = "pending" => e.path = p \/ ws[e.path] > 0
             /\ e.state = "failed" => e.path \in rs
  <2>1. CASE e = [path |-> p, state |-> "pending"]
    BY <2>1
  <2>2. CASE e # [path |-> p, state |-> "pending"]
    <3>1. e \in Range(c) /\ e \in Entries
      BY <1>2, <2>2, EntryTyped
    <3>2. e.path # NoPath
      BY <3>1, PathsAssumption DEF Entries
    <3> QED
      BY <3>1, <3>2 DEF Owned, NoFetch
  <2> QED
    BY <2>1, <2>2
<1> QED
  BY <1>1, <1>2, <1>3 DEF Owned, Refused

\* request touches the cache only where it starts, on an idle slot.
LEMMA RequestOwned ==
    ASSUME PreviewInv, NEW w \in Windows, NEW p \in Paths, Request(w, p)
    PROVE  CacheOK(cache') /\ Owned(cache', fetch', warms, refused) /\ Refused(fetch', refused)
<1>1. SlotInv
  BY DEF PreviewInv
<1>2. CASE UNCHANGED <<cache, fetch>>
  BY <1>2 DEF PreviewInv
<1>3. CASE ~(IsCached(p) \/ p \in {active, queued}) /\ active = NoPath
  <2>1. Started(cache, w, p)
    BY <1>3 DEF Request, IsCached
  <2>2. fetch = NoFetch
    BY <1>1, <1>3, FetchingIsOfPath, PathsAssumption DEF SlotInv, SlotHasFetch, Fetching
  <2> QED
    BY <2>1, <2>2, StartedOwned DEF PreviewInv
<1>4. CASE Queue(p) /\ active # NoPath
  <2>1. fetch \in Fetches
    BY <1>1, <1>4, FetchingIsOfPath, PathsAssumption DEF SlotInv, SlotHasFetch, NoFetch
  <2>2. fetch' = [fetch EXCEPT !.cancelled = TRUE] /\ cache' = cache
    BY <1>4 DEF Queue
  <2>3. fetch'.path = fetch.path /\ fetch'.cancelled
    BY <2>1, <2>2 DEF Fetches
  <2> QED
    BY <2>2, <2>3 DEF PreviewInv, Owned, Refused
<1>5. CASE IsCached(p) \/ p \in {active, queued}
  <2>1. active = NoPath => queued = NoPath
    BY <1>1, FetchingIsOfPath, PathsAssumption DEF SlotInv, SlotHasFetch
  <2>2. ~(~IsCached(p) /\ active = NoPath)
    BY <1>5, <2>1, PathsAssumption DEF IsCached
  <2> QED
    BY <1>2, <1>5, <2>2 DEF Request, IsCached
<1>6. CASE ~(IsCached(p) \/ p \in {active, queued}) /\ active # NoPath
  <2>1. Queue(p)
    BY <1>6 DEF Request, IsCached
  <2> QED
    BY <1>4, <1>6, <2>1
<1> QED
  BY <1>3, <1>5, <1>6

\* What the result of a fetch leaves in the cache needs no fetch any more.
LEMMA AppliedOwned ==
    ASSUME PreviewInv, fetch \in Fetches, fetch.result # "running"
    PROVE  CacheOK(Applied) /\ Owned(Applied, NoFetch, warms, refused)
<1>1. fetch.path \in Paths /\ fetch.result \in {"loaded", "failed"} /\ fetch.cancelled \in BOOLEAN
  BY DEF Fetches
<1>2. CASE fetch.cancelled
  <2>1. Applied = Kept(cache, {e \in Range(cache) : e.path # fetch.path})
    BY <1>2 DEF Applied, Removed
  <2>2. /\ CacheOK(Applied)
        /\ \A e \in Range(Applied) : e \in Range(cache) /\ e.path # fetch.path
    BY <2>1, KeptOK DEF PreviewInv
  <2> QED
    BY <2>2 DEF PreviewInv, Owned
<1>3. CASE ~fetch.cancelled
  <2>1. Applied = Inserted(cache, fetch.path, fetch.result)
    BY <1>3 DEF Applied
  <2>2. /\ CacheOK(Applied)
        /\ Range(Applied) \subseteq {e \in Range(cache) : e.path # fetch.path}
                              \cup {[path |-> fetch.path, state |-> fetch.result]}
    BY <1>1, <2>1, InsertedOK DEF PreviewInv
  <2>3. ASSUME NEW e \in Range(Applied)
        PROVE  /\ e.state = "pending" => e.path = NoFetch.path \/ warms[e.path] > 0
               /\ e.state = "failed" => e.path \in refused
    <3>1. CASE e = [path |-> fetch.path, state |-> fetch.result]
      <4>1. e.path = fetch.path /\ e.state = fetch.result
        BY <3>1
      <4> QED
        BY <1>1, <1>3, <4>1 DEF PreviewInv, Refused
    <3>2. CASE e # [path |-> fetch.path, state |-> fetch.result]
      <4>1. e \in Range(cache) /\ e.path # fetch.path
        BY <2>2, <3>2
      <4> QED
        BY <4>1 DEF PreviewInv, Owned
    <3> QED
      BY <3>1, <3>2
  <2> QED
    BY <2>2, <2>3 DEF Owned
<1> QED
  BY <1>2, <1>3

LEMMA ApplyResultOwned ==
    ASSUME PreviewInv, ApplyResult
    PROVE  CacheOK(cache') /\ Owned(cache', fetch', warms, refused) /\ Refused(fetch', refused)
<1>1. fetch \in Fetches /\ fetch.result # "running"
  BY DEF ApplyResult, PreviewInv, SlotInv, Fetching
<1>2. CacheOK(Applied) /\ Owned(Applied, NoFetch, warms, refused)
  BY <1>1, AppliedOwned
<1>3. CASE Successor # NoPath /\ fetch.window \in open /\ Entry(Applied, Successor) = {}
  <2>1. Started(Applied, fetch.window, Successor)
    BY <1>3 DEF ApplyResult
  <2>2. Successor \in Paths /\ fetch.window \in Windows
    BY <1>1, <1>3 DEF PreviewInv, SlotInv, Successor, Fetches
  <2> QED
    BY <1>2, <2>1, <2>2, StartedOwned
<1>4. CASE ~(Successor # NoPath /\ fetch.window \in open /\ Entry(Applied, Successor) = {})
  <2>1. cache' = Applied /\ fetch' = NoFetch
    BY <1>4 DEF ApplyResult
  <2>2. NoFetch \notin Fetches
    BY DEF Fetches, NoFetch
  <2> QED
    BY <1>2, <2>1, <2>2 DEF Refused
<1> QED
  BY <1>3, <1>4

\* The part of the invariant that speaks of the cache, and of the fetch and the
\* counts its entries depend on.
CacheInv ==
    CacheOK(cache) /\ Owned(cache, fetch, warms, refused) /\ Refused(fetch, refused)

LEMMA SelectKeeps ==
    ASSUME PreviewInv, NEW w \in Windows, NEW p \in Paths, Select(w, p)
    PROVE  CacheInv' /\ Counted' /\ Surroundings'
<1>1. Request(w, p) /\ UNCHANGED <<warms, open, warmed, refused>>
  BY DEF Select, Gesture
<1>2. CacheInv'
  BY <1>1, RequestOwned DEF CacheInv
<1>3. Counted'
  BY <1>1 DEF PreviewInv, Counted
<1>4. dropped' \in [Windows -> {"no", "rejoined", "displaced", "orphaned"}]
  <2> DEFINE base == IF queued' # queued THEN Displaced(p) ELSE dropped
             why  == IF Rejoins(p) THEN "rejoined" ELSE "no"
  <2>1. dropped' = [base EXCEPT ![w] = why] /\ why \in {"no", "rejoined"}
    BY DEF Select
  <2>2. base \in [Windows -> {"no", "rejoined", "displaced", "orphaned"}]
    BY DEF Displaced, PreviewInv, Surroundings
  <2> HIDE DEF base, why
  <2> QED
    BY <2>1, <2>2
<1>5. shown' \in [Windows -> Paths \cup {NoPath}]
  BY DEF Select, PreviewInv, Surroundings
<1> QED
  BY <1>1, <1>2, <1>3, <1>4, <1>5 DEF PreviewInv, Surroundings

LEMMA AnswerKeeps ==
    ASSUME PreviewInv, Answer
    PROVE  CacheInv' /\ Counted' /\ Surroundings'
<1>1. fetch \in Fetches /\ UNCHANGED <<cache, warms, shown, open, warmed, dropped>>
  BY DEF Answer, PreviewInv, SlotInv, Fetching
<1>2. PICK result \in {"loaded", "failed"} :
         /\ fetch' = [fetch EXCEPT !.result = result]
         /\ refused' = IF result = "failed" /\ ~fetch.cancelled
                       THEN refused \cup {fetch.path} ELSE refused
  BY DEF Answer
<1>3. /\ fetch'.path = fetch.path /\ fetch'.cancelled = fetch.cancelled /\ fetch'.result = result
      /\ fetch.path \in Paths
  BY <1>1, <1>2 DEF Fetches
<1>4. refused \subseteq refused' /\ refused' \subseteq Paths
  BY <1>2, <1>3 DEF PreviewInv, Surroundings
<1>5. Refused(fetch', refused')
  BY <1>2, <1>3 DEF Refused
<1>6. Owned(cache', fetch', warms', refused')
  BY <1>1, <1>3, <1>4 DEF PreviewInv, Owned
<1> QED
  BY <1>1, <1>4, <1>5, <1>6 DEF PreviewInv, CacheInv, Counted, Surroundings

LEMMA ApplyResultKeeps ==
    ASSUME PreviewInv, ApplyResult
    PROVE  CacheInv' /\ Counted' /\ Surroundings'
<1>1. UNCHANGED <<warms, shown, open, gestures, warmed, refused>>
  BY DEF ApplyResult
<1>2. CacheInv'
  BY <1>1, ApplyResultOwned DEF CacheInv
<1>3. dropped' \in [Windows -> {"no", "rejoined", "displaced", "orphaned"}]
  BY DEF ApplyResult, PreviewInv, Surroundings
<1> QED
  BY <1>1, <1>2, <1>3 DEF PreviewInv, Counted, Surroundings

LEMMA RefreshKeeps ==
    ASSUME PreviewInv, NEW w \in Windows, NEW root \in Refreshable, Refresh(w, root)
    PROVE  CacheInv' /\ Counted' /\ Surroundings'
<1>1. UNCHANGED <<fetch, warms, shown, open, warmed, refused, dropped>>
  BY DEF Refresh, Gesture
<1>2. CacheOK(cache') /\ Range(cache') \subseteq Range(cache)
  BY KeptOK DEF Refresh, InvalidateFinishedUnder, PreviewInv
<1> QED
  BY <1>1, <1>2, FewerOwned DEF PreviewInv, CacheInv, Counted, Surroundings

LEMMA WarmKeeps ==
    ASSUME PreviewInv, NEW p \in Paths, Warm(p)
    PROVE  CacheInv' /\ Counted' /\ Surroundings'
<1>1. UNCHANGED <<fetch, shown, open, refused, dropped>> /\ warmed < MaxWarms
  BY DEF Warm
<1>2. /\ warms' = [warms EXCEPT ![p] = @ + 1] /\ warmed' = warmed + 1
      /\ warms \in [Paths -> Nat] /\ warmed \in Nat /\ MaxWarms \in Nat
      /\ \A q \in Paths : warms[q] <= warmed
  BY BoundsAssumption DEF Warm, PreviewInv, Counted
<1>3. /\ warms' \in [Paths -> Nat] /\ warms'[p] = warms[p] + 1
      /\ \A q \in Paths : q # p => warms'[q] = warms[q]
  BY <1>2
<1>4. \A q \in Paths : warms'[q] \in Nat /\ warms'[q] <= warmed'
  BY <1>2, <1>3
<1>5. Counted'
  <2>1. warmed' \in 0..MaxWarms
    BY <1>1, <1>2
  <2> QED
    BY <1>3, <1>4, <2>1 DEF Counted
<1>6. /\ CacheOK(cache')
      /\ Range(cache') \subseteq {e \in Range(cache) : e.path # p}
                            \cup {[path |-> p, state |-> "pending"]}
  BY InsertedOK DEF Warm, PreviewInv
<1>7. ASSUME NEW e \in Range(cache')
      PROVE  /\ e.state = "pending" => e.path = fetch.path \/ warms'[e.path] > 0
             /\ e.state = "failed" => e.path \in refused
  <2>1. CASE e = [path |-> p, state |-> "pending"]
    <3>1. e.path = p /\ e.state = "pending" /\ warms'[p] > 0
      BY <1>2, <1>3, <2>1
    <3> QED
      BY <3>1
  <2>2. CASE e # [path |-> p, state |-> "pending"]
    <3>1. e \in Range(cache) /\ e.path # p
      BY <1>6, <2>2
    <3>2. e.path \in Paths
      BY <3>1, EntryTyped DEF PreviewInv, Entries
    <3> QED
      BY <1>3, <3>1, <3>2 DEF PreviewInv, Owned
  <2> QED
    BY <2>1, <2>2
<1>8. CacheInv'
  BY <1>1, <1>6, <1>7 DEF PreviewInv, CacheInv, Owned
<1> QED
  BY <1>1, <1>5, <1>8 DEF PreviewInv, Surroundings

LEMMA WarmReturnsKeeps ==
    ASSUME PreviewInv, NEW p \in Paths, WarmReturns(p)
    PROVE  CacheInv' /\ Counted' /\ Surroundings'
<1>1. UNCHANGED <<fetch, shown, open, warmed, dropped>> /\ warms[p] > 0
  BY DEF WarmReturns
<1>2. /\ warms' = [warms EXCEPT ![p] = @ - 1]
      /\ warms \in [Paths -> Nat] /\ warmed \in Nat
      /\ \A q \in Paths : warms[q] <= warmed
  BY DEF WarmReturns, PreviewInv, Counted
<1>3. warms[p] - 1 \in Nat /\ warms[p] - 1 <= warmed
  BY <1>1, <1>2
<1>4. /\ warms' \in [Paths -> Nat] /\ warms'[p] = warms[p] - 1
      /\ \A q \in Paths : q # p => warms'[q] = warms[q]
  BY <1>2, <1>3
<1>5. Counted'
  BY <1>1, <1>2, <1>3, <1>4 DEF PreviewInv, Counted
<1>6. PICK result \in {"loaded", "failed"} :
         /\ cache' = Inserted(cache, p, result)
         /\ refused' = IF result = "failed" THEN refused \cup {p} ELSE refused
  BY DEF WarmReturns
<1>7. /\ CacheOK(cache')
      /\ Range(cache') \subseteq {e \in Range(cache) : e.path # p}
                            \cup {[path |-> p, state |-> result]}
  BY <1>6, InsertedOK DEF PreviewInv
<1>8. refused \subseteq refused' /\ refused' \subseteq Paths
  BY <1>6 DEF PreviewInv, Surroundings
<1>9. ASSUME NEW e \in Range(cache')
      PROVE  /\ e.state = "pending" => e.path = fetch.path \/ warms'[e.path] > 0
             /\ e.state = "failed" => e.path \in refused'
  <2>1. CASE e = [path |-> p, state |-> result]
    <3>1. e.path = p /\ e.state = result
      BY <2>1
    <3> QED
      BY <1>6, <3>1
  <2>2. CASE e # [path |-> p, state |-> result]
    <3>1. e \in Range(cache) /\ e.path # p
      BY <1>7, <2>2
    <3>2. e.path \in Paths
      BY <3>1, EntryTyped DEF PreviewInv, Entries
    <3> QED
      BY <1>4, <1>8, <3>1, <3>2 DEF PreviewInv, Owned
  <2> QED
    BY <2>1, <2>2
<1>10. CacheInv'
  BY <1>1, <1>7, <1>8, <1>9 DEF PreviewInv, CacheInv, Owned, Refused
<1> QED
  BY <1>1, <1>5, <1>8, <1>10 DEF PreviewInv, Surroundings

LEMMA PreviewInductive ==
    ASSUME PreviewInv, [Next]_vars
    PROVE  PreviewInv'
<1>1. SlotInv'
  BY SlotInductive DEF PreviewInv
<1>2. ASSUME NEW w \in Windows, SelectFolder(w) \/ CloseWindow(w)
      PROVE  CacheInv' /\ Counted' /\ Surroundings'
  <2>1. UNCHANGED <<cache, fetch, warms, warmed, refused>> /\ open' \subseteq open
    BY <1>2 DEF SelectFolder, CloseWindow, Gesture
  <2>2. shown' \in [Windows -> Paths \cup {NoPath}]
    BY <1>2 DEF SelectFolder, CloseWindow, PreviewInv, Surroundings
  <2>3. dropped' \in [Windows -> {"no", "rejoined", "displaced", "orphaned"}]
    BY <1>2 DEF SelectFolder, CloseWindow, PreviewInv, Surroundings
  <2> QED
    BY <2>1, <2>2, <2>3 DEF PreviewInv, CacheInv, Counted, Surroundings
<1>3. ASSUME UNCHANGED vars
      PROVE  CacheInv' /\ Counted' /\ Surroundings'
  BY <1>3 DEF vars, PreviewInv, CacheInv, Counted, Surroundings
<1>4. ASSUME NEW w \in Windows, User(w)
      PROVE  CacheInv' /\ Counted' /\ Surroundings'
  <2>1. ASSUME NEW p \in Paths, Select(w, p)
        PROVE  CacheInv' /\ Counted' /\ Surroundings'
    BY <2>1, SelectKeeps
  <2>2. ASSUME NEW root \in Refreshable, Refresh(w, root)
        PROVE  CacheInv' /\ Counted' /\ Surroundings'
    BY <2>2, RefreshKeeps
  <2> QED
    BY <1>2, <1>4, <2>1, <2>2 DEF User
<1>5. ASSUME NEW p \in Paths, Warm(p) \/ WarmReturns(p)
      PROVE  CacheInv' /\ Counted' /\ Surroundings'
  BY <1>5, WarmKeeps, WarmReturnsKeeps
<1>6. CacheInv' /\ Counted' /\ Surroundings'
  BY <1>3, <1>4, <1>5, AnswerKeeps, ApplyResultKeeps DEF Next
<1> QED
  BY <1>1, <1>6 DEF PreviewInv, CacheInv

LEMMA PreviewInit == Init => PreviewInv
<1> SUFFICES ASSUME Init PROVE PreviewInv
  OBVIOUS
<1>1. SlotInv
  BY DEF Init, SlotInv, SlotHasFetch, NoFetch
<1>2. Counted
  BY BoundsAssumption DEF Init, Counted
<1>3. Surroundings
  BY DEF Init, Surroundings
<1>4. <<>> \in Seq(Entries) /\ Len(<<>>) = 0 /\ DOMAIN <<>> = {}
  OBVIOUS
<1>5. CacheOK(cache) /\ Range(cache) = {}
  BY <1>4, BoundsAssumption DEF Init, CacheOK, Range
<1>6. NoFetch \notin Fetches
  BY DEF NoFetch, Fetches
<1> QED
  BY <1>1, <1>2, <1>3, <1>5, <1>6 DEF Init, PreviewInv, Owned, Refused

LEMMA PreviewAlways == Spec => []PreviewInv
BY PreviewInit, PreviewInductive, PTL DEF Spec

----------------------------------------------------------------------------
\* The preview cache is bounded with one entry per path, the slot is taken
\* exactly while a fetch of its path runs, and an entry that is pending, which
\* stops every later request for its path, has the fetch or a warm that will
\* replace it, whatever is evicted, refreshed, cancelled or closed meanwhile.
THEOREM PreviewsNeverWedge == Spec => []NothingWedges
<1>1. ASSUME PreviewInv PROVE NothingWedges
  <2>1. SlotHasFetch
    BY <1>1 DEF PreviewInv, SlotInv
  <2>2. TypeOK
    <3>1. \A k \in DOMAIN cache : /\ cache[k].path \in Paths
                                  /\ cache[k].state \in {"pending", "loaded", "failed"}
      BY <1>1, EntryTyped DEF PreviewInv, Entries, Range
    <3>2. active \in Paths \cup {NoPath} /\ queued \in Paths \cup {NoPath}
      BY <1>1, FetchingIsOfPath DEF PreviewInv, SlotInv, SlotHasFetch, NoFetch, Fetching
    <3>3. warms \in [Paths -> 0..MaxWarms]
      <4>1. \A p \in Paths : warms[p] \in 0..MaxWarms
        BY <1>1, BoundsAssumption DEF PreviewInv, Counted
      <4> QED
        BY <1>1, <4>1 DEF PreviewInv, Counted
    <3> QED
      BY <1>1, <3>1, <3>2, <3>3 DEF PreviewInv, CacheOK, Surroundings, TypeOK
  <2>3. PendingHasWorker
    <3> SUFFICES ASSUME NEW p \in Paths, IsPending(p) PROVE fetch.path = p \/ warms[p] > 0
      BY DEF PendingHasWorker
    <3>1. PICK e \in Range(cache) : e.path = p /\ e.state = "pending"
      BY DEF IsPending, Entry
    <3> QED
      BY <1>1, <3>1 DEF PreviewInv, Owned
  <2> QED
    BY <2>1, <2>2, <2>3 DEF NothingWedges
<1> QED
  BY <1>1, PreviewAlways, PTL

\* A path is marked as one that has no preview only if a provider that was not
\* told to stop said so: to be superseded is not a failure.
THEOREM FailuresAreReal == Spec => []OnlyRealFailuresStick
<1>1. PreviewInv => OnlyRealFailuresStick
  BY DEF PreviewInv, Owned, OnlyRealFailuresStick
<1> QED
  BY <1>1, PreviewAlways, PTL
=============================================================================
