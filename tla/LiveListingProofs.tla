------------------------- MODULE LiveListingProofs -------------------------
(***************************************************************************)
(* What a directory tab shows, for every set of tabs, windows and          *)
(* directories, every number of batches and every bound: its rows are      *)
(* those of one load, in order; once it stops loading they are all the     *)
(* rows of the directory it names; its registry row ends with its load;    *)
(* and no change a watch noticed is lost.                                  *)
(*                                                                         *)
(* The argument is about the one load of a tab that is current.  Its       *)
(* batches are numbered, so what has been read of it, what is still in its *)
(* channel and what the tab holds of it are three consecutive runs of the  *)
(* same numbering (Fits); a load that is not current never touches a tab.  *)
(***************************************************************************)
EXTENDS LiveListing, TLAPS

TabStates ==
    [dir : Dirs, gen : Nat, rows : Seq(Rows), first : BOOLEAN, inPlace : BOOLEAN,
     staging : Seq(Rows), loading : BOOLEAN, task : Nat, tool : Tools \cup {"none"},
     failed : BOOLEAN, visited : SUBSET Dirs]

LoadStates ==
    [tab : Tabs, gen : Nat, dir : Dirs, tool : Tools \cup {"none"}, next : Nat,
     chan : Seq(Rows), end : {"reading", "done", "error"}]

\* s is a run of batches n + 1, n + 2, ... of load g of directory d.
Run(s, d, g, n) ==
    /\ s \in Seq(Rows)
    /\ \A i \in 1..Len(s) : s[i].dir = d /\ s[i].gen = g /\ s[i].part = n + i

\* The rows of one load, whichever it was.
OneLoad(s) == \A i \in 1..Len(s) : s[i].part = i /\ s[i].gen = s[1].gen

NoLaterThan(s, g) == \A i \in 1..Len(s) : s[i].gen <= g

\* How many batches of a load its pump has taken out of the channel.
TakenOf(l) == l.next - (Len(l.chan) + 1)

----------------------------------------------------------------------------
(* The inductive invariant. *)

Typed ==
    /\ disk \in [Dirs -> Nat] /\ noticed \in [Dirs -> Nat]
    /\ \A d \in Dirs : disk[d] \in 0..MaxChanges[d] /\ noticed[d] \in 0..disk[d]
    /\ window \in [Windows -> {"open", "dismissed", "abandoned"}]
    /\ tab \in [Tabs -> TabStates]
    /\ loads \subseteq LoadStates
    /\ \A id \in tasks : id[1] \in Tabs /\ id[2] \in Nat
    /\ osWatched \subseteq Dirs /\ mirror \subseteq Dirs /\ events \subseteq Dirs \cup {Rescan}
    /\ commands \in Seq([watch : SUBSET Dirs, retain : SUBSET Dirs])
    /\ loop \in [Windows -> [pending : SUBSET Dirs, recent : SUBSET Dirs, stopped : BOOLEAN]]
    /\ moves \in 0..MaxMoves

\* The channel of a load is the run between what was taken and what is to be read.
LoadShape(l) ==
    /\ l.next \in 1..(BatchesOf(l) + 1)
    /\ Len(l.chan) + 1 <= l.next
    /\ Len(l.chan) + (IF l.end = "reading" THEN 0 ELSE 1) <= ChannelBatches
    /\ Run(l.chan, l.dir, l.gen, TakenOf(l))

\* A worker that stopped early without an error did so because it was cancelled.
LoadsOK ==
    /\ \A l \in loads :
          /\ LoadShape(l)
          /\ l.gen <= tab[l.tab].gen
          /\ l.end = "done" => l.next = BatchesOf(l) + 1 \/ Cancelled(l)
          /\ l.end = "error" => l.tool = "none"
    /\ \A l, m \in loads : l.tab = m.tab /\ l.gen = m.gen => l = m

\* What a tab holds, whichever load it is waiting for.
Holds(r) ==
    /\ OneLoad(r.rows)
    /\ NoLaterThan(r.rows, r.gen) /\ NoLaterThan(r.staging, r.gen)
    /\ r.task = IF r.loading THEN r.gen ELSE 0

\* What a tab holds of its current load: the run its pump has taken.
Fits(r, l) ==
    /\ l.gen = r.gen /\ l.dir = r.dir /\ l.tool \in {"none", r.tool} /\ r.loading
    /\ IF l.tool = "none" /\ r.inPlace
       THEN Run(r.staging, r.dir, r.gen, 0) /\ Len(r.staging) = TakenOf(l)
       ELSE IF l.tool = "none" /\ r.first
       THEN TakenOf(l) = 0
       ELSE Run(r.rows, r.dir, r.gen, 0) /\ Len(r.rows) = TakenOf(l)

TabsOK ==
    /\ \A t \in Tabs : Holds(tab[t])
    /\ \A l \in loads : IsOpen(l.tab) /\ Current(l) => Fits(tab[l.tab], l)

\* FinishedListingIsWhole of one tab.
WholeRows(r) ==
    ~r.loading /\ ~r.failed =>
       /\ \A i \in DOMAIN r.rows : r.rows[i].gen = r.gen /\ r.rows[i].dir = r.dir
       /\ Len(r.rows) \in {Batches[r.dir]} \cup (IF r.tool = "none" THEN {} ELSE {ToolBatches})

TasksOK ==
    /\ \A id \in tasks : id = <<id[1], id[2]>>
    /\ TasksEndWithTheirTab

ListingInv ==
    /\ Typed /\ LoadsOK /\ TabsOK /\ TasksOK
    /\ \A t \in OpenTabs : WholeRows(tab[t])
    /\ Shown(tab) \subseteq mirror
    /\ ChangesSurface

----------------------------------------------------------------------------
(* Runs of batches. *)

LEMMA RunIsOneLoad ==
    ASSUME NEW d, NEW g \in Nat, NEW s, Run(s, d, g, 0)
    PROVE  OneLoad(s) /\ NoLaterThan(s, g)
<1>1. Len(s) \in Nat
  BY DEF Run
<1>2. Len(s) = 0 \/ 1 \in 1..Len(s)
  BY <1>1
<1> QED
  BY <1>1, <1>2 DEF Run, OneLoad, NoLaterThan

LEMMA EmptyRun ==
    ASSUME NEW d, NEW g, NEW n
    PROVE  Run(<<>>, d, g, n) /\ OneLoad(<<>>) /\ NoLaterThan(<<>>, g)
<1>1. <<>> \in Seq(Rows) /\ Len(<<>>) = 0
  OBVIOUS
<1> QED
  BY <1>1 DEF Run, OneLoad, NoLaterThan

\* What the worker of a load sends is the next row of the run.
LEMMA TakenIsNat ==
    ASSUME NEW l, l.next \in Nat, Len(l.chan) \in Nat, Len(l.chan) + 1 <= l.next
    PROVE  TakenOf(l) \in Nat
BY DEF TakenOf

LEMMA RunAppended ==
    ASSUME NEW l \in LoadStates, TakenOf(l) \in Nat, Run(l.chan, l.dir, l.gen, TakenOf(l)),
           NEW v \in Nat
    PROVE  LET b == Row(l.dir, l.gen, l.next, v) IN
           /\ Run(Append(l.chan, b), l.dir, l.gen, TakenOf(l))
           /\ Len(Append(l.chan, b)) = Len(l.chan) + 1
<1> DEFINE b == Row(l.dir, l.gen, l.next, v)
           s == l.chan
<1>1. s \in Seq(Rows) /\ Len(s) \in Nat /\ l.next = TakenOf(l) + (Len(s) + 1)
  BY DEF LoadStates, TakenOf
<1>2. /\ b \in Rows
      /\ b.dir = l.dir /\ b.gen = l.gen /\ b.part = TakenOf(l) + (Len(s) + 1)
  BY <1>1 DEF Row, Rows, LoadStates
<1> HIDE DEF b, s
<1>3. /\ Append(s, b) \in Seq(Rows) /\ Len(Append(s, b)) = Len(s) + 1
      /\ \A i \in 1..Len(s) : Append(s, b)[i] = s[i]
      /\ Append(s, b)[Len(s) + 1] = b
  BY <1>1, <1>2
<1>4. ASSUME NEW i \in 1..(Len(s) + 1)
      PROVE  LET x == Append(s, b)[i] IN x.dir = l.dir /\ x.gen = l.gen /\ x.part = TakenOf(l) + i
  <2>1. CASE i \in 1..Len(s)
    BY <2>1, <1>3 DEF Run, s
  <2>2. CASE i = Len(s) + 1
    BY <2>2, <1>2, <1>3, <1>1
  <2> QED
    BY <2>1, <2>2, <1>1
<1>5. Run(Append(s, b), l.dir, l.gen, TakenOf(l))
  BY <1>3, <1>4, <1>1 DEF Run
<1> QED
  BY <1>3, <1>5 DEF b, s

\* What the pump takes from the front of a channel, and what it leaves.
LEMMA RunSplit ==
    ASSUME NEW d, NEW g, NEW n \in Nat, NEW s, Run(s, d, g, n), NEW k \in 0..Len(s)
    PROVE  LET p == SubSeq(s, 1, k)
               q == SubSeq(s, k + 1, Len(s)) IN
           /\ Run(p, d, g, n) /\ Len(p) = k
           /\ Run(q, d, g, n + k) /\ Len(q) = Len(s) - k
<1>1. s \in Seq(Rows) /\ Len(s) \in Nat /\ k \in Nat
  BY DEF Run
<1>2. /\ SubSeq(s, 1, k) \in Seq(Rows) /\ Len(SubSeq(s, 1, k)) = k
      /\ \A i \in 1..k : SubSeq(s, 1, k)[i] = s[i]
  BY <1>1
<1>3. /\ SubSeq(s, k + 1, Len(s)) \in Seq(Rows) /\ Len(SubSeq(s, k + 1, Len(s))) = Len(s) - k
      /\ \A i \in 1..(Len(s) - k) : SubSeq(s, k + 1, Len(s))[i] = s[k + i]
  BY <1>1
<1>4. \A i \in 1..(Len(s) - k) : k + i \in 1..Len(s) /\ n + (k + i) = (n + k) + i
  BY <1>1
<1> QED
  BY <1>1, <1>2, <1>3, <1>4 DEF Run

LEMMA RunJoined ==
    ASSUME NEW d, NEW g, NEW s, NEW u, Run(s, d, g, 0), Run(u, d, g, Len(s))
    PROVE  Run(s \o u, d, g, 0) /\ Len(s \o u) = Len(s) + Len(u)
<1>1. s \in Seq(Rows) /\ u \in Seq(Rows) /\ Len(s) \in Nat /\ Len(u) \in Nat
  BY DEF Run
<1>2. /\ s \o u \in Seq(Rows) /\ Len(s \o u) = Len(s) + Len(u)
      /\ \A i \in 1..(Len(s) + Len(u)) :
            (s \o u)[i] = IF i \in 1..Len(s) THEN s[i] ELSE u[i - Len(s)]
  BY <1>1
<1>3. ASSUME NEW i \in 1..(Len(s) + Len(u))
      PROVE  (s \o u)[i].dir = d /\ (s \o u)[i].gen = g /\ (s \o u)[i].part = 0 + i
  <2>1. CASE i \in 1..Len(s)
    BY <2>1, <1>2 DEF Run
  <2>2. CASE i \notin 1..Len(s)
    <3>1. i - Len(s) \in 1..Len(u) /\ Len(s) + (i - Len(s)) = 0 + i
      BY <2>2, <1>1
    <3> QED
      BY <2>2, <3>1, <1>2 DEF Run
  <2> QED
    BY <2>1, <2>2
<1> QED
  BY <1>1, <1>2, <1>3 DEF Run

\* The rows a join or a split shows are rows that were there before it.
LEMMA RowsOfParts ==
    ASSUME NEW s \in Seq(Rows), NEW u \in Seq(Rows), NEW k \in 0..Len(s)
    PROVE  /\ Range(SubSeq(s, 1, k)) \subseteq Range(s)
           /\ Range(SubSeq(s, k + 1, Len(s))) \subseteq Range(s)
           /\ Range(s \o u) \subseteq Range(s) \cup Range(u)
           /\ Range(<<>>) = {}
<1>1. Len(s) \in Nat /\ Len(u) \in Nat /\ k \in Nat /\ DOMAIN s = 1..Len(s) /\ DOMAIN u = 1..Len(u)
  OBVIOUS
<1>2. ASSUME NEW x \in Range(SubSeq(s, 1, k))
      PROVE  x \in Range(s)
  <2>1. DOMAIN SubSeq(s, 1, k) = 1..k /\ \A i \in 1..k : SubSeq(s, 1, k)[i] = s[i] /\ i \in 1..Len(s)
    BY <1>1
  <2> QED
    BY <2>1, <1>1 DEF Range
<1>3. ASSUME NEW x \in Range(SubSeq(s, k + 1, Len(s)))
      PROVE  x \in Range(s)
  <2>1. /\ DOMAIN SubSeq(s, k + 1, Len(s)) = 1..(Len(s) - k)
        /\ \A i \in 1..(Len(s) - k) :
              SubSeq(s, k + 1, Len(s))[i] = s[k + i] /\ k + i \in 1..Len(s)
    BY <1>1
  <2> QED
    BY <2>1, <1>1 DEF Range
<1>4. ASSUME NEW x \in Range(s \o u)
      PROVE  x \in Range(s) \cup Range(u)
  <2>1. /\ DOMAIN (s \o u) = 1..(Len(s) + Len(u))
        /\ \A i \in 1..(Len(s) + Len(u)) :
              (s \o u)[i] = IF i \in 1..Len(s) THEN s[i] ELSE u[i - Len(s)]
    BY <1>1
  <2>2. \A i \in 1..(Len(s) + Len(u)) : i \notin 1..Len(s) => i - Len(s) \in 1..Len(u)
    BY <1>1
  <2> QED
    BY <2>1, <2>2, <1>1 DEF Range
<1>5. Range(<<>>) = {}
  <2>1. DOMAIN <<>> = {}
    OBVIOUS
  <2> QED
    BY <2>1 DEF Range
<1> QED
  BY <1>2, <1>3, <1>4, <1>5

\* Taking everything leaves an empty channel.
LEMMA WholeSplit ==
    ASSUME NEW s \in Seq(Rows)
    PROVE  SubSeq(s, 1, Len(s)) = s /\ SubSeq(s, Len(s) + 1, Len(s)) = <<>>
<1>1. Len(s) \in Nat
  OBVIOUS
<1>2. \A p, q \in Seq(Rows) : Len(p) = Len(q) /\ (\A i \in 1..Len(p) : p[i] = q[i]) => p = q
  OBVIOUS
<1>3. /\ SubSeq(s, 1, Len(s)) \in Seq(Rows) /\ Len(SubSeq(s, 1, Len(s))) = Len(s)
      /\ \A i \in 1..Len(s) : SubSeq(s, 1, Len(s))[i] = s[i]
  BY <1>1
<1>4. /\ SubSeq(s, Len(s) + 1, Len(s)) \in Seq(Rows) /\ Len(SubSeq(s, Len(s) + 1, Len(s))) = 0
  BY <1>1
<1>5. <<>> \in Seq(Rows) /\ Len(<<>>) = 0
  OBVIOUS
<1>6. SubSeq(s, Len(s) + 1, Len(s)) = <<>>
  BY <1>2, <1>4, <1>5
<1> QED
  BY <1>2, <1>3, <1>6

----------------------------------------------------------------------------
(* The pump of the current load. *)

\* Everything a tab shows, and a load still carries.
ShownBy(r, l) == Range(r.rows) \cup Range(r.staging) \cup Range(l.chan)

\* Fields no batch changes.
SameLoad(q, r) ==
    /\ q.gen = r.gen /\ q.dir = r.dir /\ q.tool = r.tool
    /\ q.visited = r.visited

\* apply_directory_batch_in_tab and apply_search_batch_in_tab take the next
\* batches of the run, and the tab and its load fit as before.
LEMMA AppliedKeeps ==
    ASSUME NEW r \in TabStates, NEW l \in LoadStates, NEW k \in 0..Len(l.chan),
           LoadShape(l), Holds(r), Fits(r, l)
    PROVE  LET q == Applied(r, l, SubSeq(l.chan, 1, k))
               m == [l EXCEPT !.chan = SubSeq(@, k + 1, Len(@))] IN
           /\ q \in TabStates /\ m \in LoadStates
           /\ LoadShape(m) /\ Holds(q) /\ Fits(q, m)
           /\ SameLoad(q, r) /\ q.failed = r.failed
           /\ ShownBy(q, m) \subseteq ShownBy(r, l)
<1> DEFINE c == SubSeq(l.chan, 1, k)
           e == SubSeq(l.chan, k + 1, Len(l.chan))
           q == Applied(r, l, c)
           m == [l EXCEPT !.chan = SubSeq(@, k + 1, Len(@))]
<1>1. /\ m \in [tab : Tabs, gen : Nat, dir : Dirs, tool : Tools \cup {"none"}, next : Nat,
                chan : {e}, end : {"reading", "done", "error"}]
      /\ m.chan = e /\ m.next = l.next /\ m.gen = l.gen /\ m.dir = l.dir /\ m.tool = l.tool
      /\ m.end = l.end /\ m.tab = l.tab
  BY DEF LoadStates
<1> HIDE DEF m
<1>2. /\ l.gen \in Nat /\ l.dir \in Dirs /\ l.chan \in Seq(Rows) /\ Len(l.chan) \in Nat
      /\ l.next \in Nat /\ k \in Nat
  BY DEF LoadStates
<1>3. /\ TakenOf(l) \in Nat /\ Run(l.chan, l.dir, l.gen, TakenOf(l))
  <2>1. Len(l.chan) + 1 <= l.next /\ Run(l.chan, l.dir, l.gen, TakenOf(l))
    BY DEF LoadShape
  <2> QED
    BY <1>2, <2>1, TakenIsNat
<1>4. /\ Run(c, l.dir, l.gen, TakenOf(l)) /\ Len(c) = k
      /\ Run(e, l.dir, l.gen, TakenOf(l) + k) /\ Len(e) = Len(l.chan) - k
  BY <1>2, <1>3, RunSplit
<1>5. TakenOf(m) = TakenOf(l) + k
  BY <1>1, <1>2, <1>4 DEF TakenOf
<1>6. m \in LoadStates
  BY <1>1, <1>4 DEF LoadStates, Run
<1>7. LoadShape(m)
  <2>1. BatchesOf(m) = BatchesOf(l)
    BY <1>1 DEF BatchesOf
  <2>2. Len(m.chan) <= Len(l.chan) /\ Len(m.chan) \in Nat
    BY <1>1, <1>2, <1>4
  <2>3. m.next \in 1..(BatchesOf(m) + 1) /\ Len(m.chan) + 1 <= m.next
    <3>1. l.next \in 1..(BatchesOf(l) + 1) /\ Len(l.chan) + 1 <= l.next
      BY DEF LoadShape
    <3>2. Len(m.chan) + 1 <= l.next
      BY <1>2, <2>2, <3>1
    <3> QED
      BY <1>1, <2>1, <3>1, <3>2
  <2>4. Len(m.chan) + (IF m.end = "reading" THEN 0 ELSE 1) <= ChannelBatches
    <3>1. ChannelBatches \in Nat
      BY BoundsAssumption
    <3>2. Len(l.chan) + (IF l.end = "reading" THEN 0 ELSE 1) <= ChannelBatches
      BY DEF LoadShape
    <3>3. \A x, y, z \in Nat : x <= y /\ y + z <= ChannelBatches => x + z <= ChannelBatches
      BY <3>1
    <3> QED
      BY <3>2, <3>3, <2>2, <1>1, <1>2
  <2> QED
    BY <2>3, <2>4, <1>1, <1>4, <1>5 DEF LoadShape
<1>8. /\ Range(c) \subseteq Range(l.chan) /\ Range(e) \subseteq Range(l.chan)
      /\ \A s \in Seq(Rows) : Range(s \o c) \subseteq Range(s) \cup Range(c)
  <2>1. c \in Seq(Rows)
    BY <1>4 DEF Run
  <2>2. \A s \in Seq(Rows) : 0 \in 0..Len(s)
    OBVIOUS
  <2> QED
    BY ZenonT(60), <1>2, <2>1, <2>2, RowsOfParts
<1>9. /\ r.rows \in Seq(Rows) /\ r.staging \in Seq(Rows) /\ r.gen = l.gen /\ r.dir = l.dir
      /\ r.gen \in Nat /\ r.loading
  BY DEF TabStates, Fits
<1> HIDE DEF c, e
<1>10. c \in Seq(Rows) /\ (c = <<>> <=> k = 0)
  BY <1>4, <1>2 DEF Run
<1>11. CASE k = 0
  <2>1. q = r
    BY <1>11, <1>10 DEF Applied
  <2>2. Fits(q, m)
    BY <2>1, <1>1, <1>2, <1>3, <1>5, <1>11 DEF Fits
  <2>3. ShownBy(q, m) \subseteq ShownBy(r, l)
    BY <2>1, <1>1, <1>8 DEF ShownBy
  <2> QED
    BY <2>1, <2>2, <2>3, <1>6, <1>7 DEF SameLoad, c, m
<1>12. CASE k # 0 /\ l.tool = "none" /\ r.inPlace
  <2>1. q = [r EXCEPT !.staging = r.staging \o c]
    BY <1>12, <1>10 DEF Applied
  <2>2. Run(r.staging, r.dir, r.gen, 0) /\ Len(r.staging) = TakenOf(l)
    BY <1>12 DEF Fits
  <2>3. Run(r.staging \o c, r.dir, r.gen, 0) /\ Len(r.staging \o c) = TakenOf(l) + k
    <3>1. Run(c, r.dir, r.gen, Len(r.staging))
      BY <2>2, <1>4, <1>9
    <3> QED
      BY <3>1, <2>2, <1>4, RunJoined
  <2>4. r.staging \o c \in Seq(Rows) /\ NoLaterThan(r.staging \o c, r.gen)
    BY <2>3, <1>9, RunIsOneLoad DEF Run
  <2>5. /\ q \in TabStates /\ SameLoad(q, r) /\ q.rows = r.rows /\ q.staging = r.staging \o c
        /\ q.loading = r.loading /\ q.task = r.task /\ q.inPlace /\ q.failed = r.failed
    BY <2>1, <2>4, <1>12 DEF TabStates, SameLoad
  <2>6. Holds(q)
    BY <2>5, <2>4 DEF Holds, SameLoad
  <2>7. Fits(q, m)
    BY <2>5, <2>3, <1>1, <1>5, <1>12, <1>9 DEF Fits, SameLoad
  <2>8. ShownBy(q, m) \subseteq ShownBy(r, l)
    BY <2>5, <1>1, <1>8, <1>9 DEF ShownBy
  <2> QED
    BY <2>5, <2>6, <2>7, <2>8, <1>6, <1>7 DEF c, m
<1>13. CASE k # 0 /\ l.tool = "none" /\ ~r.inPlace
  <2> DEFINE u == (IF r.first THEN <<>> ELSE r.rows) \o c
  <2>1. q = [r EXCEPT !.rows = u, !.first = FALSE]
    BY <1>13, <1>10 DEF Applied
  <2>9. /\ r.first => u = <<>> \o c
        /\ ~r.first => u = r.rows \o c
    OBVIOUS
  <2>10. r.first \in BOOLEAN
    BY DEF TabStates
  <2> HIDE DEF u
  <2>2. Run(u, r.dir, r.gen, 0) /\ Len(u) = TakenOf(l) + k /\ Range(u) \subseteq Range(r.rows) \cup Range(c)
    <3>1. CASE r.first
      <4>1. TakenOf(l) = 0
        BY <3>1, <1>13 DEF Fits
      <4>2. u = c
        BY <3>1, <1>10, <2>9
      <4> QED
        BY <4>1, <4>2, <1>4, <1>9, <1>2
    <3>2. CASE ~r.first
      <4>1. Run(r.rows, r.dir, r.gen, 0) /\ Len(r.rows) = TakenOf(l)
        BY <3>2, <1>13 DEF Fits
      <4>2. u = r.rows \o c
        BY <3>2, <2>9
      <4>3. Run(c, r.dir, r.gen, Len(r.rows))
        BY <4>1, <1>4, <1>9
      <4>4. Run(r.rows \o c, r.dir, r.gen, 0) /\ Len(r.rows \o c) = Len(r.rows) + Len(c)
        BY <4>1, <4>3, RunJoined
      <4>5. Range(u) \subseteq Range(r.rows) \cup Range(c)
        BY <4>2, <1>8, <1>9
      <4>6. Len(u) = TakenOf(l) + k
        BY <4>1, <4>2, <4>4, <1>4
      <4> QED
        BY <4>2, <4>4, <4>5, <4>6
    <3> QED
      BY <3>1, <3>2
  <2>3. u \in Seq(Rows) /\ OneLoad(u) /\ NoLaterThan(u, r.gen)
    BY <2>2, <1>9, RunIsOneLoad DEF Run
  <2>4. /\ q \in TabStates /\ SameLoad(q, r) /\ q.rows = u /\ q.staging = r.staging /\ ~q.first
        /\ q.loading = r.loading /\ q.task = r.task /\ ~q.inPlace /\ q.failed = r.failed
    BY <2>1, <2>3, <1>13 DEF TabStates, SameLoad
  <2>5. Holds(q)
    BY <2>4, <2>3 DEF Holds, SameLoad
  <2>6. Fits(q, m)
    BY <2>4, <2>2, <1>1, <1>5, <1>13, <1>9 DEF Fits, SameLoad
  <2>7. ShownBy(q, m) \subseteq ShownBy(r, l)
    BY <2>4, <2>2, <1>1, <1>8 DEF ShownBy
  <2> QED
    BY <2>4, <2>5, <2>6, <2>7, <1>6, <1>7 DEF c, m
<1>14. CASE k # 0 /\ l.tool # "none"
  <2>1. q = [r EXCEPT !.rows = r.rows \o c]
    BY <1>14, <1>10 DEF Applied
  <2>2. Run(r.rows, r.dir, r.gen, 0) /\ Len(r.rows) = TakenOf(l)
    BY <1>14 DEF Fits
  <2>3. Run(r.rows \o c, r.dir, r.gen, 0) /\ Len(r.rows \o c) = TakenOf(l) + k
    <3>1. Run(c, r.dir, r.gen, Len(r.rows))
      BY <2>2, <1>4, <1>9
    <3> QED
      BY <3>1, <2>2, <1>4, RunJoined
  <2>4. r.rows \o c \in Seq(Rows) /\ OneLoad(r.rows \o c) /\ NoLaterThan(r.rows \o c, r.gen)
    BY <2>3, <1>9, RunIsOneLoad DEF Run
  <2>5. /\ q \in TabStates /\ SameLoad(q, r) /\ q.rows = r.rows \o c /\ q.staging = r.staging
        /\ q.loading = r.loading /\ q.task = r.task /\ q.failed = r.failed
    BY <2>1, <2>4 DEF TabStates, SameLoad
  <2>6. Holds(q)
    BY <2>5, <2>4 DEF Holds, SameLoad
  <2>7. Fits(q, m)
    BY <2>5, <2>3, <1>1, <1>5, <1>14, <1>9 DEF Fits, SameLoad
  <2>8. ShownBy(q, m) \subseteq ShownBy(r, l)
    BY <2>5, <1>1, <1>8, <1>9 DEF ShownBy
  <2> QED
    BY <2>5, <2>6, <2>7, <2>8, <1>6, <1>7 DEF c, m
<1> QED
  BY <1>11, <1>12, <1>13, <1>14, <1>9 DEF TabStates, LoadStates

\* finish_directory_load_in_tab on a load whose channel is empty: the tab shows
\* the whole load, or says that it failed.
LEMMA FinishedIsWhole ==
    ASSUME NEW r \in TabStates, NEW l \in LoadStates, l.chan = <<>>,
           LoadShape(l), Holds(r), Fits(r, l),
           l.end # "reading",
           l.end = "done" => l.next = BatchesOf(l) + 1,
           l.end = "error" => l.tool = "none"
    PROVE  LET q == Finished(r, l) IN
           /\ q \in TabStates /\ Holds(q) /\ WholeRows(q)
           /\ SameLoad(q, r) /\ ~q.loading
           /\ Range(q.rows) \cup Range(q.staging) \subseteq ShownBy(r, l)
<1> DEFINE q == Finished(r, l)
           n == l.next - 1
           fail == (l.end = "error")
<1>1. /\ l.next \in Nat /\ l.tool \in Tools \cup {"none"} /\ l.dir \in Dirs
      /\ l.end \in {"reading", "done", "error"}
  BY DEF LoadStates
<1>2. TakenOf(l) = n /\ n \in Nat
  <2>1. Len(<<>>) = 0
    OBVIOUS
  <2> QED
    BY <1>1, <2>1 DEF TakenOf, LoadShape
<1>3. ~(l.end = "error") => n = BatchesOf(l)
  <2>1. BatchesOf(l) \in Nat
    BY <1>1, PlacesAssumption, BoundsAssumption DEF BatchesOf
  <2> QED
    BY <1>1, <2>1
<1>4. /\ r.rows \in Seq(Rows) /\ r.staging \in Seq(Rows) /\ r.gen \in Nat /\ r.dir = l.dir
      /\ l.tool \in {"none", r.tool} /\ r.first \in BOOLEAN /\ r.inPlace \in BOOLEAN
  BY DEF TabStates, Fits
<1>10. fail \in BOOLEAN /\ (fail <=> l.end = "error")
  OBVIOUS
<1> HIDE DEF n, fail
<1>5. ASSUME NEW s, Run(s, r.dir, r.gen, 0), ~fail => Len(s) = BatchesOf(l)
      PROVE  /\ OneLoad(s) /\ NoLaterThan(s, r.gen) /\ s \in Seq(Rows)
             /\ \A i \in DOMAIN s : s[i].gen = r.gen /\ s[i].dir = r.dir
             /\ ~fail => Len(s) \in {Batches[r.dir]} \cup
                                     (IF r.tool = "none" THEN {} ELSE {ToolBatches})
  <2>1. s \in Seq(Rows) /\ DOMAIN s = 1..Len(s)
    BY <1>5 DEF Run
  <2>2. \A i \in DOMAIN s : s[i].gen = r.gen /\ s[i].dir = r.dir
    BY <1>5, <2>1 DEF Run
  <2>3. ~fail => Len(s) \in {Batches[r.dir]} \cup
                             (IF r.tool = "none" THEN {} ELSE {ToolBatches})
    BY <1>5, <1>4 DEF BatchesOf
  <2> QED
    BY <1>5, <1>4, <2>1, <2>2, <2>3, RunIsOneLoad
<1>6. /\ Range(<<>>) = {} /\ <<>> \in Seq(Rows) /\ NoLaterThan(<<>>, r.gen) /\ OneLoad(<<>>)
      /\ Len(<<>>) = 0 /\ Run(<<>>, r.dir, r.gen, 0)
  <2>1. <<>> \in Seq(Rows) /\ Len(<<>>) = 0
    OBVIOUS
  <2>2. 0 \in 0..Len(<<>>)
    BY <2>1
  <2> QED
    BY <2>1, <2>2, EmptyRun, RowsOfParts
<1>7. CASE l.tool # "none"
  <2>1. q = [r EXCEPT !.loading = FALSE, !.task = 0, !.failed = fail]
    BY <1>7 DEF Finished, fail
  <2> HIDE DEF q
  <2>2. Run(r.rows, r.dir, r.gen, 0) /\ Len(r.rows) = n
    BY <1>7, <1>2 DEF Fits
  <2>3. /\ q \in TabStates /\ SameLoad(q, r) /\ ~q.loading /\ q.task = 0 /\ q.failed = fail
        /\ q.rows = r.rows /\ q.staging = r.staging
    BY <2>1, <1>10 DEF TabStates, SameLoad
  <2>4. WholeRows(q)
    BY <2>2, <2>3, <1>3, <1>5, <1>10 DEF WholeRows, SameLoad
  <2> QED
    BY <2>3, <2>4 DEF Holds, ShownBy, SameLoad, q
<1>8. CASE l.tool = "none" /\ r.inPlace
  <2>1. q = [r EXCEPT !.loading = FALSE, !.task = 0, !.failed = fail, !.rows = r.staging,
                      !.inPlace = FALSE, !.staging = <<>>, !.first = FALSE]
    BY <1>8 DEF Finished, fail
  <2> HIDE DEF q
  <2>2. Run(r.staging, r.dir, r.gen, 0) /\ Len(r.staging) = n
    BY <1>8, <1>2 DEF Fits
  <2>3. /\ q \in TabStates /\ SameLoad(q, r) /\ ~q.loading /\ q.task = 0 /\ q.failed = fail
        /\ q.rows = r.staging /\ q.staging = <<>>
    BY <2>1, <1>6, <1>4, <1>10 DEF TabStates, SameLoad
  <2>4. WholeRows(q)
    BY <2>2, <2>3, <1>3, <1>5, <1>10 DEF WholeRows, SameLoad
  <2>5. Holds(q)
    BY <2>2, <2>3, <1>3, <1>5, <1>10, <1>6 DEF Holds, SameLoad
  <2> QED
    BY <2>3, <2>4, <2>5, <1>6 DEF ShownBy, q
<1>9. CASE l.tool = "none" /\ ~r.inPlace
  <2> DEFINE u == IF r.first THEN <<>> ELSE r.rows
  <2>1. q = [r EXCEPT !.loading = FALSE, !.task = 0, !.failed = fail, !.rows = u,
                      !.first = FALSE]
    BY <1>9 DEF Finished, fail
  <2> HIDE DEF q
  <2>2. Run(u, r.dir, r.gen, 0) /\ Len(u) = n /\ Range(u) \subseteq Range(r.rows)
    BY <1>9, <1>2, <1>6 DEF Fits
  <2>3. u \in Seq(Rows)
    BY <2>2 DEF Run
  <2> HIDE DEF u
  <2>4. /\ q \in TabStates /\ SameLoad(q, r) /\ ~q.loading /\ q.task = 0 /\ q.failed = fail
        /\ q.rows = u /\ q.staging = r.staging
    BY <2>1, <2>3, <1>10 DEF TabStates, SameLoad
  <2>5. WholeRows(q)
    BY <2>2, <2>4, <1>3, <1>5, <1>10 DEF WholeRows, SameLoad
  <2>6. Holds(q)
    BY <2>2, <2>4, <1>3, <1>5, <1>10 DEF Holds, SameLoad
  <2> QED
    BY <2>2, <2>4, <2>5, <2>6 DEF ShownBy, q
<1> QED
  BY <1>7, <1>8, <1>9, <1>1, <1>4

----------------------------------------------------------------------------
(* New loads: load_path_for_tab, toggle_flat_view and start_search. *)

LEMMA NewLoadShape ==
    ASSUME NEW t \in Tabs, NEW g \in Nat, NEW d \in Dirs, NEW k \in Tools \cup {"none"}
    PROVE  LET l == NewLoad(t, g, d, k) IN
           /\ l \in LoadStates /\ LoadShape(l) /\ TakenOf(l) = 0
           /\ l.tab = t /\ l.gen = g /\ l.dir = d /\ l.tool = k
           /\ l.chan = <<>> /\ l.end = "reading"
<1> DEFINE l == NewLoad(t, g, d, k)
<1>1. /\ l.tab = t /\ l.gen = g /\ l.dir = d /\ l.tool = k /\ l.next = 1
      /\ l.chan = <<>> /\ l.end = "reading"
  BY DEF NewLoad
<1>2. <<>> \in Seq(Rows) /\ Len(<<>>) = 0
  OBVIOUS
<1>3. l \in LoadStates
  BY <1>2 DEF NewLoad, LoadStates
<1> HIDE DEF l
<1>4. TakenOf(l) = 0
  <2>1. Len(l.chan) = 0
    BY <1>1, <1>2
  <2> QED
    <3>1. TakenOf(l) = l.next - (Len(l.chan) + 1) /\ l.next = 1
      BY <1>1 DEF TakenOf
    <3> QED
      BY <2>1, <3>1
<1>5. BatchesOf(l) \in Nat
  BY <1>1, PlacesAssumption, BoundsAssumption DEF BatchesOf
<1>6. LoadShape(l)
  <2>1. Run(l.chan, l.dir, l.gen, TakenOf(l))
    BY <1>1, EmptyRun
  <2>2. l.next \in 1..(BatchesOf(l) + 1) /\ Len(l.chan) + 1 <= l.next
    BY <1>1, <1>2, <1>5
  <2>3. Len(l.chan) + (IF l.end = "reading" THEN 0 ELSE 1) <= ChannelBatches
    BY <1>1, <1>2, BoundsAssumption
  <2> QED
    BY <2>1, <2>2, <2>3 DEF LoadShape
<1> QED
  BY <1>1, <1>3, <1>4, <1>6 DEF l

\* r becomes q to wait for the new load l, and holds nothing of it yet.
Begins(r, q, l) ==
    /\ q \in TabStates /\ Holds(q) /\ Fits(q, l) /\ q.gen = r.gen + 1
    /\ q.staging = <<>> /\ NoLaterThan(q.rows, r.gen)

LEMMA LoadingBegins ==
    ASSUME NEW r \in TabStates, Holds(r), NEW d \in Dirs, NEW t \in Tabs
    PROVE  /\ Begins(r, Loading(r, d), NewLoad(t, r.gen + 1, d, "none"))
           /\ Loading(r, d).dir = d /\ Loading(r, d).tool = r.tool
<1> DEFINE q == Loading(r, d)
           here == r.dir = d /\ r.rows # <<>>
           l == NewLoad(t, r.gen + 1, d, "none")
<1>1. here \in BOOLEAN
  OBVIOUS
<1>2. q = [r EXCEPT !.dir = d, !.gen = r.gen + 1, !.first = TRUE, !.loading = TRUE,
                    !.task = r.gen + 1, !.inPlace = here, !.staging = <<>>,
                    !.visited = r.visited \cup {d}, !.failed = FALSE]
  BY DEF Loading
<1> HIDE DEF here, q
<1>3. <<>> \in Seq(Rows) /\ Len(<<>>) = 0 /\ r.gen + 1 \in Nat /\ r.gen \in Nat /\ r.rows \in Seq(Rows)
  BY DEF TabStates
<1>4. /\ q \in TabStates /\ q.gen = r.gen + 1 /\ q.rows = r.rows /\ q.staging = <<>> /\ q.loading
      /\ q.task = r.gen + 1 /\ q.first /\ q.dir = d /\ q.tool = r.tool
  BY <1>1, <1>2, <1>3 DEF TabStates
<1>5. /\ TakenOf(l) = 0 /\ l.gen = r.gen + 1 /\ l.dir = d /\ l.tool = "none"
  BY <1>3, NewLoadShape
<1> HIDE DEF l
<1>6. NoLaterThan(r.rows, r.gen + 1) /\ NoLaterThan(r.rows, r.gen) /\ OneLoad(r.rows)
  <2>1. \A i \in 1..Len(r.rows) : r.rows[i].gen \in Nat
    <3>1. \A i \in 1..Len(r.rows) : r.rows[i] \in Rows
      BY <1>3
    <3> QED
      BY <3>1 DEF Rows
  <2> QED
    BY <1>3, <2>1 DEF Holds, NoLaterThan
<1>7. Holds(q)
  BY <1>4, <1>6, EmptyRun DEF Holds
<1>8. Fits(q, l)
  BY <1>3, <1>4, <1>5, EmptyRun DEF Fits
<1> QED
  BY <1>4, <1>6, <1>7, <1>8 DEF Begins, q, l

LEMMA ShowingBegins ==
    ASSUME NEW r \in TabStates, Holds(r), NEW k \in Tools, NEW t \in Tabs
    PROVE  /\ Begins(r, Showing(r, k), NewLoad(t, r.gen + 1, r.dir, k))
           /\ Showing(r, k).dir = r.dir /\ Showing(r, k).tool = k
<1> DEFINE q == Showing(r, k)
           l == NewLoad(t, r.gen + 1, r.dir, k)
<1>1. q = [r EXCEPT !.gen = r.gen + 1, !.rows = <<>>, !.loading = TRUE, !.task = r.gen + 1,
                    !.inPlace = FALSE, !.staging = <<>>, !.tool = k, !.failed = FALSE]
  BY DEF Showing
<1> HIDE DEF q
<1>2. <<>> \in Seq(Rows) /\ Len(<<>>) = 0 /\ r.gen + 1 \in Nat /\ r.gen \in Nat /\ r.dir \in Dirs
  BY DEF TabStates
<1>3. /\ q \in TabStates /\ q.gen = r.gen + 1 /\ q.rows = <<>> /\ q.staging = <<>> /\ q.loading
      /\ q.task = r.gen + 1 /\ ~q.inPlace /\ q.dir = r.dir /\ q.tool = k
  BY <1>1, <1>2 DEF TabStates
<1>4. /\ TakenOf(l) = 0 /\ l.gen = r.gen + 1 /\ l.dir = r.dir /\ l.tool = k
  BY <1>2, NewLoadShape
<1> HIDE DEF l
<1>5. Holds(q) /\ NoLaterThan(q.rows, r.gen)
  BY <1>3, EmptyRun DEF Holds
<1>6. k # "none"
  BY DEF Tools
<1>7. Fits(q, l)
  BY <1>2, <1>3, <1>4, <1>6, EmptyRun DEF Fits
<1> QED
  BY <1>3, <1>5, <1>7 DEF Begins, q, l

----------------------------------------------------------------------------
(* What a tab shows or will show. *)

ReadBy(t, b) ==
    /\ b.gen = tab[t].gen
    /\ \/ b \in Range(tab[t].rows)
       \/ b \in Range(tab[t].staging)
       \/ \E l \in loads : l.tab = t /\ Current(l) /\ b \in Range(l.chan)

LEMMA BatchesReadAre ==
    ASSUME NEW t
    PROVE  /\ \A b : b \in BatchesRead(t) <=> ReadBy(t, b)
           /\ \A b : b \in BatchesRead(t)' <=> ReadBy(t, b)'
BY DEF BatchesRead, ReadBy

LEMMA LaterRowIsNone ==
    ASSUME NEW g \in Nat, NEW s \in Seq(Rows), NoLaterThan(s, g), NEW b \in Range(s)
    PROVE  b.gen # g + 1
<1>1. PICK i \in 1..Len(s) : b = s[i]
  BY DEF Range
<1>2. b \in Rows /\ b.gen <= g
  BY <1>1 DEF NoLaterThan
<1> QED
  BY <1>2 DEF Rows

AllOpen == \A w \in Windows : window[w] = "open"

\* A step that reads and shows nothing older than before, and answers no
\* change, keeps every noticed change on its way.
LEMMA SurfaceKept ==
    ASSUME ListingInv, AllOpen' => AllOpen,
           UNCHANGED <<noticed, loop>>, events \subseteq events',
           (Shown(tab) \subseteq mirror)',
           \A t \in OpenTabs' : tab'[t].tool = "none" =>
              \/ \A b : ~ReadBy(t, b)'
              \/ /\ t \in OpenTabs /\ tab[t].tool = "none" /\ tab'[t].dir = tab[t].dir
                 /\ \A b : ReadBy(t, b)' => ReadBy(t, b) \/ b.version >= noticed[tab[t].dir]
    PROVE  ChangesSurface'
<1> SUFFICES ASSUME AllOpen', NEW t \in OpenTabs', tab'[t].tool = "none"
             PROVE  \/ \A b \in BatchesRead(t)' : b.version >= noticed'[tab'[t].dir]
                    \/ OnItsWay(tab[t].dir, {w \in Windows : window[w] = "open"})'
  BY DEF ChangesSurface, Surfaced, AllOpen
<1>1. CASE \A b : ~ReadBy(t, b)'
  BY <1>1, BatchesReadAre
<1>2. CASE /\ t \in OpenTabs /\ tab[t].tool = "none" /\ tab'[t].dir = tab[t].dir
           /\ \A b : ReadBy(t, b)' => ReadBy(t, b) \/ b.version >= noticed[tab[t].dir]
  <2>1. \/ \A b \in BatchesRead(t) : b.version >= noticed[tab[t].dir]
        \/ OnItsWay(tab[t].dir, {w \in Windows : window[w] = "open"})
    BY <1>2 DEF ListingInv, ChangesSurface, Surfaced, AllOpen
  <2>2. CASE \A b \in BatchesRead(t) : b.version >= noticed[tab[t].dir]
    BY <1>2, <2>2, BatchesReadAre
  <2>3. CASE OnItsWay(tab[t].dir, {w \in Windows : window[w] = "open"})
    <3>1. tab'[t].dir \in mirror'
      BY DEF Shown
    <3>2. tab[t].dir \in Drained => (tab[t].dir \in Drained)'
      BY <1>2, <3>1 DEF Drained
    <3> QED
      BY <1>2, <2>3, <3>2 DEF OnItsWay, AllOpen
  <2> QED
    BY <2>1, <2>2, <2>3
<1> QED
  BY <1>1, <1>2

----------------------------------------------------------------------------
(* Tabs ts of open windows begin new loads, whatever asked for them. *)

EachBegins(ts, q, ld) ==
    \A t \in ts : /\ Begins(tab[t], q[t], ld[t])
                  /\ \E k \in Tools \cup {"none"} :
                        ld[t] = NewLoad(t, tab[t].gen + 1, q[t].dir, k)

\* What such a step leaves true, and what the tabs show after it.
LoadsBegun(ts) ==
    /\ tab' \in [Tabs -> TabStates] /\ loads' \subseteq LoadStates
    /\ \A id \in tasks' : id[1] \in Tabs /\ id[2] \in Nat
    /\ LoadsOK' /\ TabsOK' /\ TasksOK'
    /\ \A t \in OpenTabs' : WholeRows(tab'[t])
    /\ \A t \in ts : \A b : ~ReadBy(t, b)'
    /\ \A t \in Tabs \ ts : \A b : tab'[t] = tab[t] /\ (ReadBy(t, b)' => ReadBy(t, b))

LEMMA BegunKeeps ==
    ASSUME ListingInv, NEW ts \in SUBSET OpenTabs,
           NEW q, NEW ld, EachBegins(ts, q, ld),
           tab' = [t \in Tabs |-> IF t \in ts THEN q[t] ELSE tab[t]],
           loads' = loads \cup {ld[t] : t \in ts},
           tasks' = TasksAfter(ts),
           UNCHANGED window
    PROVE  LoadsBegun(ts)
<1>1. ts \subseteq Tabs /\ OpenTabs' = OpenTabs /\ \A t : IsOpen(t)' <=> IsOpen(t)
  BY DEF OpenTabs, IsOpen
<1>2. /\ tab \in [Tabs -> TabStates] /\ loads \subseteq LoadStates
      /\ \A t \in Tabs : tab[t] \in TabStates /\ tab[t].gen \in Nat
  BY DEF ListingInv, Typed, TabStates
<1>3. /\ \A t \in ts : tab'[t] = q[t]
      /\ \A t \in Tabs \ ts : tab'[t] = tab[t]
  BY <1>1
<1>4. ASSUME NEW t \in ts
      PROVE  /\ q[t] \in TabStates /\ Holds(q[t]) /\ Fits(q[t], ld[t])
             /\ q[t].gen = tab[t].gen + 1 /\ q[t].staging = <<>> /\ q[t].loading
             /\ NoLaterThan(q[t].rows, tab[t].gen)
             /\ ld[t] \in LoadStates /\ LoadShape(ld[t]) /\ ld[t].tab = t
             /\ ld[t].gen = tab[t].gen + 1 /\ ld[t].chan = <<>> /\ ld[t].end = "reading"
  <2>1. /\ q[t] \in TabStates /\ Holds(q[t]) /\ Fits(q[t], ld[t])
        /\ q[t].gen = tab[t].gen + 1 /\ q[t].staging = <<>> /\ q[t].loading
        /\ NoLaterThan(q[t].rows, tab[t].gen)
    BY DEF EachBegins, Begins, Fits
  <2>2. PICK k \in Tools \cup {"none"} : ld[t] = NewLoad(t, tab[t].gen + 1, q[t].dir, k)
    BY DEF EachBegins
  <2>3. t \in Tabs /\ tab[t].gen + 1 \in Nat /\ q[t].dir \in Dirs
    BY <1>1, <1>2, <2>1 DEF TabStates
  <2> QED
    BY <2>1, <2>2, <2>3, NewLoadShape
<1>5. tab' \in [Tabs -> TabStates] /\ loads' \subseteq LoadStates
  BY <1>2, <1>4
<1>6. \A id \in tasks' : id[1] \in Tabs /\ id[2] \in Nat
  <2>1. \A t \in ts : tab[t].gen + 1 \in Nat /\ t \in Tabs
    BY <1>1, <1>2
  <2> QED
    BY <2>1 DEF TasksAfter, ListingInv, Typed
<1>7. \A l \in loads : /\ l \in LoadStates /\ l.gen \in Nat /\ l.tab \in Tabs
                       /\ l.gen <= tab[l.tab].gen /\ l.gen <= tab'[l.tab].gen
                       /\ l.tab \in ts => l.gen # tab'[l.tab].gen
  BY <1>1, <1>2, <1>3, <1>4 DEF ListingInv, LoadsOK, LoadStates
<1>8. LoadsOK'
  <2>1. ASSUME NEW l \in loads
        PROVE  /\ LoadShape(l) /\ l.gen <= tab'[l.tab].gen
               /\ l.end = "done" => l.next = BatchesOf(l) + 1 \/ Cancelled(l)'
               /\ l.end = "error" => l.tool = "none"
    <3>1. Cancelled(l) => Cancelled(l)'
      BY <1>1, <1>2, <1>3, <1>7 DEF Cancelled, Current
    <3> QED
      BY <3>1, <1>7 DEF ListingInv, LoadsOK
  <2>2. ASSUME NEW t \in ts
        PROVE  /\ LoadShape(ld[t]) /\ ld[t].gen <= tab'[ld[t].tab].gen
               /\ ld[t].end # "done" /\ ld[t].end # "error"
    BY <1>1, <1>2, <1>3, <1>4
  <2>3. ASSUME NEW l \in loads', NEW m \in loads', l.tab = m.tab, l.gen = m.gen
        PROVE  l = m
    <3>1. ASSUME NEW x \in loads, NEW t \in ts
          PROVE  ~(x.tab = ld[t].tab /\ x.gen = ld[t].gen)
      <4>1. ld[t].gen = tab'[t].gen /\ ld[t].tab = t
        BY <1>3, <1>4
      <4> QED
        BY <4>1, <1>7
    <3>2. CASE l \in loads /\ m \in loads
      BY <3>2, <2>3 DEF ListingInv, LoadsOK
    <3>3. CASE l \notin loads /\ m \notin loads
      BY <3>3, <2>3, <1>4
    <3> QED
      BY <2>3, <3>1, <3>2, <3>3
  <2>4. \A l \in loads' : LoadShape(l) /\ l.gen <= tab'[l.tab].gen
               /\ (l.end = "done" => l.next = BatchesOf(l) + 1 \/ Cancelled(l)')
               /\ (l.end = "error" => l.tool = "none")
    BY <2>1, <2>2
  <2>5. \A l : (LoadShape(l) <=> LoadShape(l)') /\ BatchesOf(l)' = BatchesOf(l)
    BY DEF LoadShape, BatchesOf, TakenOf
  <2> QED
    BY <2>3, <2>4, <2>5 DEF LoadsOK
<1>9. TabsOK'
  <2>1. \A t \in Tabs : Holds(tab'[t])
    BY <1>3, <1>4 DEF ListingInv, TabsOK
  <2>2. ASSUME NEW l \in loads', IsOpen(l.tab)', Current(l)'
        PROVE  Fits(tab'[l.tab], l)
    <3>1. CASE l \in loads
      <4>1. l.tab \notin ts
        BY <3>1, <2>2, <1>7 DEF Current
      <4> QED
        BY <4>1, <3>1, <2>2, <1>1, <1>3, <1>7 DEF ListingInv, TabsOK, Current
    <3>2. CASE \E t \in ts : l = ld[t]
      BY <3>2, <1>3, <1>4
    <3> QED
      BY <3>1, <3>2
  <2> QED
    BY <2>1, <2>2 DEF TabsOK
<1>10. TasksOK'
  <2>1. \A id \in tasks' : id = <<id[1], id[2]>>
    BY DEF TasksAfter, ListingInv, TasksOK
  <2>2. ASSUME NEW t \in Tabs, window[WindowOf[t]] # "abandoned", NEW g \in 0..tab'[t].gen
        PROVE  <<t, g>> \in tasks' <=> IsOpen(t) /\ tab'[t].loading /\ g = tab'[t].gen
    <3>1. CASE t \in ts
      <4>1. <<t, g>> \in tasks' <=> g = tab[t].gen + 1
        BY <3>1 DEF TasksAfter
      <4> QED
        BY <4>1, <3>1, <1>3, <1>4, <1>1 DEF OpenTabs
    <3>2. CASE t \notin ts
      <4>1. <<t, g>> \in tasks' <=> <<t, g>> \in tasks
        BY <3>2 DEF TasksAfter
      <4>2. tab'[t] = tab[t]
        BY <3>2, <1>3
      <4> QED
        BY <2>2, <4>1, <4>2 DEF ListingInv, TasksOK, TasksEndWithTheirTab, TasksMatchTabs
    <3> QED
      BY <3>1, <3>2
  <2> QED
    BY <2>1, <2>2, <1>1 DEF TasksOK, TasksEndWithTheirTab, TasksMatchTabs
<1>11. \A t \in OpenTabs' : WholeRows(tab'[t])
  <2>1. \A t \in ts : WholeRows(q[t])
    BY <1>4 DEF WholeRows
  <2> QED
    BY <2>1, <1>1, <1>3 DEF ListingInv, OpenTabs
<1>12. ASSUME NEW t \in ts, NEW b, ReadBy(t, b)'
       PROVE  FALSE
  <2>1. b.gen = tab[t].gen + 1 /\ tab[t].gen \in Nat
    BY <1>12, <1>1, <1>2, <1>3, <1>4 DEF ReadBy
  <2>2. Range(<<>>) = {}
    <3>1. DOMAIN <<>> = {}
      OBVIOUS
    <3> QED
      BY <3>1 DEF Range
  <2>3. b \notin Range(tab'[t].staging)
    BY <2>2, <1>3, <1>4
  <2>4. b \notin Range(tab'[t].rows)
    <3>1. tab'[t].rows \in Seq(Rows) /\ NoLaterThan(tab'[t].rows, tab[t].gen)
      BY <1>3, <1>4 DEF TabStates
    <3> QED
      BY <3>1, <2>1, LaterRowIsNone
  <2>5. PICK l \in loads' : l.tab = t /\ l.gen = tab'[t].gen /\ b \in Range(l.chan)
    BY <1>12, <2>3, <2>4 DEF ReadBy, Current
  <2>6. l \notin loads
    BY <2>5, <1>7
  <2>7. l.chan = <<>>
    BY <2>6, <1>4
  <2> QED
    BY <2>2, <2>5, <2>7
<1>13. ASSUME NEW t \in Tabs \ ts, NEW b, ReadBy(t, b)'
       PROVE  ReadBy(t, b)
  <2>1. \A l \in loads' : l.tab = t => l \in loads
    BY <1>4
  <2> QED
    BY <1>13, <2>1, <1>3 DEF ReadBy, Current
<1> QED
  BY <1>3, <1>5, <1>6, <1>8, <1>9, <1>10, <1>11, <1>12, <1>13 DEF LoadsBegun

WatchesKept ==
    /\ mirror' \subseteq Dirs
    /\ commands' \in Seq([watch : SUBSET Dirs, retain : SUBSET Dirs])
    /\ (Shown(tab) \subseteq mirror)'

\* LoadPaths: every tab of ts loads a directory, and its watch is requested.
FitToLoad(ts, dirOf, tabs) ==
    /\ \A t \in ts : dirOf[t] \in Dirs
    /\ \A t \in Tabs : tabs[t] \in TabStates /\ Holds(tabs[t]) /\ tabs[t].gen = tab[t].gen
    /\ \A t \in Tabs \ ts : tabs[t] = tab[t]

LEMMA LoadPathsKeep ==
    ASSUME ListingInv, NEW ts \in SUBSET OpenTabs, NEW dirOf, NEW tabs,
           FitToLoad(ts, dirOf, tabs), LoadPaths(ts, dirOf, tabs), UNCHANGED window
    PROVE  LoadsBegun(ts) /\ WatchesKept
<1> USE DEF FitToLoad
<1> DEFINE q == [t \in ts |-> Loading(tabs[t], dirOf[t])]
           ld == [t \in ts |-> NewLoad(t, tab[t].gen + 1, dirOf[t], "none")]
<1>1. ts \subseteq Tabs /\ OpenTabs' = OpenTabs
  BY DEF OpenTabs, IsOpen
<1>2. ASSUME NEW t \in ts
      PROVE  /\ Begins(tab[t], q[t], ld[t]) /\ q[t].dir = dirOf[t]
             /\ ld[t] = NewLoad(t, tab[t].gen + 1, q[t].dir, "none")
  <2>1. /\ Begins(tabs[t], Loading(tabs[t], dirOf[t]), NewLoad(t, tabs[t].gen + 1, dirOf[t], "none"))
        /\ Loading(tabs[t], dirOf[t]).dir = dirOf[t]
    BY <1>1, LoadingBegins
  <2>2. tabs[t].gen = tab[t].gen
    BY <1>1
  <2> QED
    BY <2>1, <2>2 DEF Begins
<1>3. /\ tab' = [t \in Tabs |-> IF t \in ts THEN q[t] ELSE tab[t]]
      /\ loads' = loads \cup {ld[t] : t \in ts}
      /\ tasks' = TasksAfter(ts)
  <2>1. \A t \in Tabs : (IF t \in ts THEN Loading(tabs[t], dirOf[t]) ELSE tabs[t])
                          = (IF t \in ts THEN q[t] ELSE tab[t])
    OBVIOUS
  <2>2. {NewLoad(t, tab[t].gen + 1, dirOf[t], "none") : t \in ts} = {ld[t] : t \in ts}
    OBVIOUS
  <2> HIDE DEF q, ld
  <2> QED
    BY <2>1, <2>2 DEF LoadPaths
<1> HIDE DEF q, ld
<1>4. LoadsBegun(ts)
  <2>1. EachBegins(ts, q, ld)
    BY <1>2 DEF EachBegins
  <2> QED
    BY <2>1, <1>3, BegunKeeps
<1>5. Shown(tab') = {tab'[t].dir : t \in OpenTabs} /\ Shown(tab') \subseteq Dirs
  <2>1. \A t \in OpenTabs : tab'[t] \in TabStates
    BY <1>4 DEF OpenTabs, LoadsBegun
  <2> QED
    BY <2>1 DEF Shown, TabStates
<1>6. {dirOf[t] : t \in ts} \subseteq Dirs
  OBVIOUS
<1>7. /\ mirror' = (mirror \cup {dirOf[t] : t \in ts}) \cap Shown(tab')
      /\ commands' = Append(commands, Request({dirOf[t] : t \in ts}, Shown(tab')))
  BY DEF LoadPaths
<1>8. mirror' \subseteq Dirs
  BY <1>5, <1>7
<1>9. commands' \in Seq([watch : SUBSET Dirs, retain : SUBSET Dirs])
  <2>1. Request({dirOf[t] : t \in ts}, Shown(tab')) \in [watch : SUBSET Dirs, retain : SUBSET Dirs]
    BY <1>5, <1>6 DEF Request
  <2>2. commands \in Seq([watch : SUBSET Dirs, retain : SUBSET Dirs])
    BY DEF ListingInv, Typed
  <2> QED
    BY <1>7, <2>1, <2>2
<1>10. (Shown(tab) \subseteq mirror)'
  <2>1. Shown(tab)' = Shown(tab')
    BY <1>1 DEF Shown
  <2>2. ASSUME NEW t \in OpenTabs
        PROVE  tab'[t].dir \in mirror'
    <3>1. CASE t \in ts
      <4>1. tab'[t].dir = dirOf[t]
        BY <3>1, <1>1, <1>2, <1>3
      <4> QED
        BY <3>1, <4>1, <1>5, <1>7
    <3>2. CASE t \notin ts
      <4>1. tab'[t] = tab[t] /\ tab[t].dir \in mirror
        BY <3>2, <1>4 DEF OpenTabs, ListingInv, Shown, LoadsBegun
      <4> QED
        BY <4>1, <1>5, <1>7
    <3> QED
      BY <3>1, <3>2
  <2> QED
    BY <2>1, <2>2, <1>5
<1> QED
  BY <1>4, <1>8, <1>9, <1>10 DEF WatchesKept

\* The gestures that load a directory in one tab.
LEMMA LoadPathKeeps ==
    ASSUME ListingInv, NEW t \in Tabs, NEW d \in Dirs, NEW r,
           r = tab[t] \/ r = [tab[t] EXCEPT !.tool = "none"],
           Gesture(t), LoadPath(t, d, r), Elsewhere
    PROVE  ListingInv'
<1> DEFINE ts == {t}
           tabs == [tab EXCEPT ![t] = r]
           dirOf == [x \in {t} |-> d]
<1>1. LoadPaths(ts, dirOf, tabs) /\ UNCHANGED window
  BY DEF LoadPath, Elsewhere
<1>2. ts \in SUBSET OpenTabs /\ \A x \in ts : dirOf[x] \in Dirs
  BY DEF Gesture, OpenTabs
<1>3. tab \in [Tabs -> TabStates] /\ \A x \in Tabs : tab[x] \in TabStates /\ Holds(tab[x])
  BY DEF ListingInv, Typed, TabsOK
<1>4. r \in TabStates /\ Holds(r) /\ r.gen = tab[t].gen
  <2>1. CASE r = tab[t]
    BY <2>1, <1>3
  <2>2. CASE r = [tab[t] EXCEPT !.tool = "none"]
    <3>1. /\ r \in TabStates /\ r.gen = tab[t].gen /\ r.rows = tab[t].rows /\ r.task = tab[t].task
          /\ r.staging = tab[t].staging /\ r.loading = tab[t].loading
      BY <2>2, <1>3 DEF TabStates
    <3> QED
      BY <3>1, <1>3 DEF Holds
  <2> QED
    BY <2>1, <2>2
<1>5. /\ \A x \in Tabs : tabs[x] \in TabStates /\ Holds(tabs[x]) /\ tabs[x].gen = tab[x].gen
      /\ \A x \in Tabs \ ts : tabs[x] = tab[x]
  BY <1>3, <1>4
<1> HIDE DEF ts, tabs, dirOf
<1>6. LoadsBegun(ts) /\ WatchesKept
  <2>1. FitToLoad(ts, dirOf, tabs)
    BY <1>2, <1>5 DEF FitToLoad
  <2> QED
    BY <1>1, <1>2, <2>1, LoadPathsKeep
<1>7. moves' \in 0..MaxMoves
  BY BoundsAssumption DEF Gesture, ListingInv, Typed
<1>8. ChangesSurface'
  <2>1. OpenTabs' = OpenTabs /\ OpenTabs \subseteq Tabs /\ (AllOpen' => AllOpen)
    BY <1>1 DEF OpenTabs, IsOpen, AllOpen
  <2>2. UNCHANGED <<noticed, loop>> /\ events \subseteq events'
    BY DEF Elsewhere
  <2> QED
    BY <1>6, <2>1, <2>2, SurfaceKept DEF LoadsBegun, WatchesKept
<1>9. Typed'
  BY <1>6, <1>7 DEF ListingInv, Typed, Elsewhere, LoadsBegun, WatchesKept
<1> QED
  BY <1>6, <1>8, <1>9 DEF ListingInv, LoadsBegun, WatchesKept

LEMMA OpenToolKeeps ==
    ASSUME ListingInv, NEW t \in Tabs, NEW k \in Tools, OpenTool(t, k)
    PROVE  ListingInv'
<1> DEFINE q == [x \in {t} |-> Showing(tab[t], k)]
           ld == [x \in {t} |-> NewLoad(t, tab[t].gen + 1, tab[t].dir, k)]
<1>1. Gesture(t) /\ Elsewhere /\ UNCHANGED <<window, mirror, commands>>
  BY DEF OpenTool, Elsewhere
<1>2. {t} \in SUBSET OpenTabs
  BY <1>1 DEF Gesture, OpenTabs
<1>3. tab \in [Tabs -> TabStates] /\ \A x \in Tabs : tab[x] \in TabStates /\ Holds(tab[x])
  BY DEF ListingInv, Typed, TabsOK
<1>4. /\ Begins(tab[t], q[t], ld[t]) /\ q[t].dir = tab[t].dir /\ q[t].tool = k
      /\ ld[t] = NewLoad(t, tab[t].gen + 1, q[t].dir, k)
  <2>1. t \in {t}
    OBVIOUS
  <2> QED
    BY <1>3, <2>1, ShowingBegins
<1>5. /\ tab' = [x \in Tabs |-> IF x \in {t} THEN q[x] ELSE tab[x]]
      /\ loads' = loads \cup {ld[x] : x \in {t}}
      /\ tasks' = TasksAfter({t})
  <2>1. tab' = [tab EXCEPT ![t] = Showing(tab[t], k)]
    BY DEF OpenTool
  <2>2. tab' = [x \in Tabs |-> IF x \in {t} THEN q[x] ELSE tab[x]]
    BY <2>1, <1>3
  <2>3. {ld[x] : x \in {t}} = {NewLoad(t, tab[t].gen + 1, tab[t].dir, k)}
    OBVIOUS
  <2> HIDE DEF q, ld
  <2> QED
    BY <2>2, <2>3 DEF OpenTool
<1> HIDE DEF q, ld
<1>6. LoadsBegun({t})
  <2>1. EachBegins({t}, q, ld)
    BY <1>4 DEF EachBegins
  <2>2. UNCHANGED window
    BY <1>1
  <2> QED
    BY <2>1, <2>2, <1>2, <1>5, BegunKeeps
<1>7. moves' \in 0..MaxMoves
  BY <1>1, BoundsAssumption DEF Gesture, ListingInv, Typed
<1>8. OpenTabs' = OpenTabs /\ OpenTabs \subseteq Tabs /\ (AllOpen' => AllOpen)
  BY <1>1 DEF OpenTabs, IsOpen, AllOpen
<1>9. (Shown(tab) \subseteq mirror)'
  <2>1. \A x \in Tabs : tab'[x].dir = tab[x].dir
    BY <1>4, <1>5
  <2> QED
    BY <2>1, <1>1, <1>8 DEF Shown, ListingInv
<1>10. ChangesSurface'
  <2>1. UNCHANGED <<noticed, loop>> /\ events \subseteq events'
    BY <1>1 DEF Elsewhere
  <2> QED
    BY <1>6, <1>8, <1>9, <2>1, SurfaceKept DEF LoadsBegun
<1>11. Typed'
  BY <1>1, <1>6, <1>7 DEF ListingInv, Typed, Elsewhere, LoadsBegun
<1> QED
  BY <1>6, <1>9, <1>10, <1>11 DEF ListingInv, LoadsBegun

----------------------------------------------------------------------------
(* The enumeration worker of a load. *)

\* One load becomes m, and nothing else moves.
LEMMA WorkerMoves ==
    ASSUME ListingInv, NEW l \in loads, NEW m \in LoadStates,
           m.tab = l.tab, m.gen = l.gen, m.dir = l.dir, m.tool = l.tool,
           LoadShape(m), TakenOf(m) = TakenOf(l),
           m.end = "done" => m.next = BatchesOf(m) + 1 \/ Cancelled(l),
           m.end = "error" => m.tool = "none",
           \A b \in Range(m.chan) : b \in Range(l.chan) \/ b.version = disk[l.dir],
           loads' = With(l, m),
           UNCHANGED <<disk, window, tab, tasks, watcher, loop, moves>>
    PROVE  ListingInv'
<1>1. /\ loads' = (loads \ {l}) \cup {m}
      /\ UNCHANGED <<disk, window, tab, tasks, osWatched, mirror, commands, events, noticed, loop, moves>>
  BY DEF With, watcher
<1>2. \A x : /\ (Cancelled(x)' <=> Cancelled(x)) /\ (Current(x)' <=> Current(x))
             /\ (LoadShape(x)' <=> LoadShape(x)) /\ BatchesOf(x)' = BatchesOf(x)
             /\ (IsOpen(x)' <=> IsOpen(x))
  BY <1>1 DEF Cancelled, Current, LoadShape, BatchesOf, IsOpen, TakenOf
<1>3. Typed'
  BY <1>1 DEF ListingInv, Typed
<1>4. LoadsOK'
  <2>1. ASSUME NEW x \in loads'
        PROVE  /\ LoadShape(x) /\ x.gen <= tab[x.tab].gen
               /\ x.end = "done" => x.next = BatchesOf(x) + 1 \/ Cancelled(x)
               /\ x.end = "error" => x.tool = "none"
    <3>1. CASE x \in loads
      BY <3>1 DEF ListingInv, LoadsOK
    <3>2. CASE x = m
      <4>1. Cancelled(m) <=> Cancelled(l)
        BY DEF Cancelled, Current
      <4> QED
        BY <3>2, <4>1 DEF ListingInv, LoadsOK
    <3> QED
      BY <3>1, <3>2, <1>1
  <2>2. ASSUME NEW x \in loads', NEW y \in loads', x.tab = y.tab, x.gen = y.gen
        PROVE  x = y
    BY <2>2, <1>1 DEF ListingInv, LoadsOK
  <2> QED
    BY <2>1, <2>2, <1>1, <1>2 DEF LoadsOK
<1>5. TabsOK'
  <2>1. ASSUME NEW x \in loads', IsOpen(x.tab), Current(x)
        PROVE  Fits(tab[x.tab], x)
    <3>1. CASE x \in loads
      BY <3>1, <2>1 DEF ListingInv, TabsOK
    <3>2. CASE x = m
      <4>1. Fits(tab[l.tab], l)
        BY <3>2, <2>1 DEF ListingInv, TabsOK, Current
      <4> QED
        BY <3>2, <4>1 DEF Fits
    <3> QED
      BY <3>1, <3>2, <1>1
  <2> QED
    BY <2>1, <1>1, <1>2 DEF ListingInv, TabsOK
<1>6. /\ TasksOK' /\ (Shown(tab) \subseteq mirror)' /\ OpenTabs' = OpenTabs
      /\ \A t \in OpenTabs' : WholeRows(tab'[t])
  BY <1>1 DEF ListingInv, TasksOK, TasksEndWithTheirTab, TasksMatchTabs, Shown, OpenTabs, IsOpen
<1>7. ASSUME NEW t \in OpenTabs, NEW b, ReadBy(t, b)'
      PROVE  ReadBy(t, b) \/ b.version >= noticed[tab[t].dir]
  <2>1. CASE \E x \in loads : x.tab = t /\ Current(x) /\ b \in Range(x.chan)
    BY <2>1, <1>7, <1>1 DEF ReadBy
  <2>2. CASE ~ReadBy(t, b)
    <3>1. m.tab = t /\ Current(m) /\ b \in Range(m.chan)
      BY <2>2, <1>7, <1>1, <1>2 DEF ReadBy
    <3>2. l.dir = tab[t].dir
      BY <3>1, <1>7 DEF ListingInv, TabsOK, Fits, Current, OpenTabs
    <3>3. b.version = disk[l.dir]
      BY <2>2, <3>1, <1>7, <1>1 DEF ReadBy, Current
    <3>4. /\ disk[l.dir] >= noticed[l.dir]
      BY BoundsAssumption DEF ListingInv, Typed, LoadStates
    <3> QED
      BY <3>2, <3>3, <3>4
  <2> QED
    BY <2>2
<1>8. ChangesSurface'
  <2>1. AllOpen' => AllOpen
    BY <1>1 DEF AllOpen
  <2>2. UNCHANGED <<noticed, loop>> /\ events \subseteq events'
    BY <1>1
  <2> QED
    BY <1>1, <1>6, <1>7, <2>1, <2>2, SurfaceKept
<1> QED
  BY <1>3, <1>4, <1>5, <1>6, <1>8 DEF ListingInv

LEMMA LoadInLoads ==
    ASSUME ListingInv, NEW l \in loads
    PROVE  /\ l \in LoadStates /\ LoadShape(l) /\ l.chan \in Seq(Rows) /\ Len(l.chan) \in Nat
           /\ l.next \in Nat /\ TakenOf(l) \in Nat /\ l.gen \in Nat /\ l.dir \in Dirs /\ l.tab \in Tabs
           /\ BatchesOf(l) \in Nat
           /\ l.end = "done" => l.next = BatchesOf(l) + 1 \/ Cancelled(l)
           /\ l.end = "error" => l.tool = "none"
           /\ disk[l.dir] \in Nat
<1>1. l \in LoadStates /\ LoadShape(l) /\ disk \in [Dirs -> Nat]
  BY DEF ListingInv, Typed, LoadsOK
<1>2. l.chan \in Seq(Rows) /\ l.next \in Nat /\ l.gen \in Nat /\ l.dir \in Dirs /\ l.tab \in Tabs
  BY <1>1 DEF LoadStates
<1>3. Len(l.chan) \in Nat
  BY <1>2
<1>4. TakenOf(l) \in Nat
  <2>1. Len(l.chan) + 1 <= l.next
    BY <1>1 DEF LoadShape
  <2> QED
    BY <1>2, <1>3, <2>1, TakenIsNat
<1>5. BatchesOf(l) \in Nat
  BY <1>2, PlacesAssumption, BoundsAssumption DEF BatchesOf
<1> QED
  BY <1>1, <1>2, <1>3, <1>4, <1>5 DEF ListingInv, LoadsOK

LEMMA ReadBatchKeeps ==
    ASSUME ListingInv, NEW l \in loads, ReadBatch(l)
    PROVE  ListingInv'
<1> DEFINE b == Row(l.dir, l.gen, l.next, disk[l.dir])
           c == Append(l.chan, b)
           m == [l EXCEPT !.next = @ + 1, !.chan = c]
<1>1. /\ l \in LoadStates /\ LoadShape(l) /\ l.chan \in Seq(Rows) /\ Len(l.chan) \in Nat
      /\ l.next \in Nat /\ TakenOf(l) \in Nat /\ l.gen \in Nat /\ l.dir \in Dirs
      /\ BatchesOf(l) \in Nat /\ disk[l.dir] \in Nat
  BY LoadInLoads
<1>2. /\ l.end = "reading" /\ l.next <= BatchesOf(l) /\ Len(l.chan) < ChannelBatches
      /\ loads' = With(l, m)
      /\ UNCHANGED <<disk, window, tab, tasks, watcher, loop, moves>>
  BY DEF ReadBatch, HasRoom
<1>3. TakenOf(l) + Len(l.chan) + 1 = l.next
  BY <1>1 DEF TakenOf
<1>4. Run(c, l.dir, l.gen, TakenOf(l)) /\ Len(c) = Len(l.chan) + 1
  <2>1. Run(l.chan, l.dir, l.gen, TakenOf(l))
    BY <1>1 DEF LoadShape
  <2> QED
    BY <2>1, <1>1, RunAppended
<1>5. b \in Rows /\ b.version = disk[l.dir]
  BY <1>1 DEF Row, Rows
<1>6. \A x \in Range(c) : x \in Range(l.chan) \/ x.version = disk[l.dir]
  <2> HIDE DEF b
  <2>1. /\ DOMAIN c = 1..(Len(l.chan) + 1) /\ DOMAIN l.chan = 1..Len(l.chan)
        /\ \A i \in 1..(Len(l.chan) + 1) :
              c[i] = IF i \in 1..Len(l.chan) THEN l.chan[i] ELSE b
    BY <1>1, <1>5
  <2> QED
    BY <2>1, <1>5 DEF Range
<1>7. c \in Seq(Rows)
  BY <1>4 DEF Run
<1> HIDE DEF c
<1>8. /\ m \in LoadStates /\ m.tab = l.tab /\ m.gen = l.gen /\ m.dir = l.dir /\ m.tool = l.tool
      /\ m.end = l.end /\ m.next = l.next + 1 /\ m.chan = c
  <2>1. l.next + 1 \in Nat
    BY <1>1
  <2> QED
    BY <1>1, <1>7, <2>1 DEF LoadStates
<1> HIDE DEF m
<1>9. TakenOf(m) = TakenOf(l)
  <2>1. \A x, y \in Nat : (x + 1) - ((y + 1) + 1) = x - (y + 1)
    OBVIOUS
  <2>2. m.next = l.next + 1 /\ Len(m.chan) = Len(l.chan) + 1
    BY <1>4, <1>8
  <2> QED
    BY <1>1, <2>1, <2>2 DEF TakenOf
<1>10. LoadShape(m)
  <2>1. BatchesOf(m) = BatchesOf(l)
    BY <1>8 DEF BatchesOf
  <2>2. m.next \in 1..(BatchesOf(m) + 1) /\ Len(m.chan) + 1 <= m.next
    <3>1. \A x, y \in Nat : x <= y => x + 1 \in 1..(y + 1)
      OBVIOUS
    <3>2. \A x, y \in Nat : y + 1 <= x => (y + 1) + 1 <= x + 1
      OBVIOUS
    <3>3. Len(l.chan) + 1 <= l.next
      BY <1>1 DEF LoadShape
    <3>4. m.next = l.next + 1 /\ Len(m.chan) = Len(l.chan) + 1
      BY <1>4, <1>8
    <3>5. l.next <= BatchesOf(l)
      BY <1>2
    <3> QED
      BY <1>1, <2>1, <3>1, <3>2, <3>3, <3>4, <3>5
  <2>3. Len(m.chan) + (IF m.end = "reading" THEN 0 ELSE 1) <= ChannelBatches
    BY <1>1, <1>2, <1>4, <1>8, BoundsAssumption
  <2> QED
    BY <2>2, <2>3, <1>4, <1>8, <1>9 DEF LoadShape
<1> QED
  BY <1>2, <1>6, <1>8, <1>9, <1>10, WorkerMoves

\* The worker stops: at the end, cancelled, or with an error.
LEMMA EndedKeeps ==
    ASSUME ListingInv, NEW l \in loads, NEW e \in {"done", "error"},
           l.end = "reading", HasRoom(l),
           e = "done" => l.next > BatchesOf(l) \/ Cancelled(l),
           e = "error" => l.tool = "none",
           loads' = With(l, [l EXCEPT !.end = e]),
           UNCHANGED <<disk, window, tab, tasks, watcher, loop, moves>>
    PROVE  ListingInv'
<1> DEFINE m == [l EXCEPT !.end = e]
<1>1. /\ l \in LoadStates /\ LoadShape(l) /\ Len(l.chan) \in Nat
      /\ l.next \in Nat /\ BatchesOf(l) \in Nat
  BY LoadInLoads
<1>2. /\ m \in LoadStates /\ m.tab = l.tab /\ m.gen = l.gen /\ m.dir = l.dir /\ m.tool = l.tool
      /\ m.end = e /\ m.next = l.next /\ m.chan = l.chan
  BY <1>1 DEF LoadStates
<1>3. loads' = With(l, m)
  OBVIOUS
<1> HIDE DEF m
<1>4. TakenOf(m) = TakenOf(l) /\ BatchesOf(m) = BatchesOf(l)
  BY <1>2 DEF TakenOf, BatchesOf
<1>5. LoadShape(m)
  <2>1. Len(m.chan) + (IF m.end = "reading" THEN 0 ELSE 1) <= ChannelBatches
    <3>1. ChannelBatches \in Nat /\ Len(m.chan) = Len(l.chan) /\ Len(l.chan) < ChannelBatches
      BY <1>2, BoundsAssumption DEF HasRoom
    <3>2. Len(l.chan) + 1 <= ChannelBatches
      BY <1>1, <3>1
    <3>3. m.end # "reading"
      BY <1>2
    <3> QED
      BY <3>1, <3>2, <3>3
  <2> QED
    BY <2>1, <1>1, <1>2, <1>4 DEF LoadShape
<1>6. m.end = "done" => m.next = BatchesOf(m) + 1 \/ Cancelled(l)
  <2>1. l.next <= BatchesOf(l) + 1
    BY <1>1 DEF LoadShape
  <2> QED
    BY <2>1, <1>1, <1>2, <1>4
<1> QED
  BY <1>2, <1>3, <1>4, <1>5, <1>6, WorkerMoves

----------------------------------------------------------------------------
(* The pump of a load. *)

\* The pump of a tab that moved on, or went with its window.
LEMMA PumpStaleKeeps ==
    ASSUME ListingInv, NEW l \in loads, PumpStale(l),
           UNCHANGED <<disk, window, watcher, loop, moves>>
    PROVE  ListingInv'
<1>1. /\ loads' \subseteq loads
      /\ UNCHANGED <<disk, window, tab, tasks, osWatched, mirror, commands, events, noticed, loop, moves>>
  BY DEF PumpStale, watcher
<1>2. \A x : /\ (Cancelled(x)' <=> Cancelled(x)) /\ (Current(x)' <=> Current(x))
             /\ (LoadShape(x)' <=> LoadShape(x)) /\ BatchesOf(x)' = BatchesOf(x)
             /\ (IsOpen(x)' <=> IsOpen(x))
  BY <1>1 DEF Cancelled, Current, LoadShape, BatchesOf, IsOpen, TakenOf
<1>3. Typed' /\ LoadsOK' /\ TabsOK'
  BY <1>1, <1>2 DEF ListingInv, Typed, LoadsOK, TabsOK
<1>4. /\ TasksOK' /\ (Shown(tab) \subseteq mirror)' /\ OpenTabs' = OpenTabs
      /\ \A t \in OpenTabs' : WholeRows(tab'[t])
  BY <1>1 DEF ListingInv, TasksOK, TasksEndWithTheirTab, TasksMatchTabs, Shown, OpenTabs, IsOpen
<1>5. ChangesSurface'
  <2>1. (AllOpen' => AllOpen) /\ UNCHANGED <<noticed, loop>> /\ events \subseteq events'
    BY <1>1 DEF AllOpen
  <2>2. \A t, b : ReadBy(t, b)' => ReadBy(t, b)
    BY <1>1 DEF ReadBy, Current
  <2> QED
    BY <1>1, <1>4, <2>1, <2>2, SurfaceKept
<1> QED
  BY <1>3, <1>4, <1>5 DEF ListingInv

\* One tab becomes q by what its current load l has delivered; l is replaced by
\* the loads of ms, at most one, with the rest of its channel.
LEMMA PumpMoves ==
    ASSUME ListingInv, NEW l \in loads, ~Stale(l), NEW q \in TabStates,
           NEW ms \in SUBSET LoadStates,
           tab' = [tab EXCEPT ![l.tab] = q],
           loads' = (loads \ {l}) \cup ms,
           tasks' = IF q.loading THEN tasks ELSE tasks \ {<<l.tab, tab[l.tab].gen>>},
           Holds(q), SameLoad(q, tab[l.tab]), WholeRows(q),
           \A m \in ms : /\ q.loading /\ Fits(q, m) /\ LoadShape(m) /\ m.tab = l.tab /\ m.dir = l.dir
                         /\ m.tool = l.tool /\ m.end = l.end /\ m.next = l.next /\ m.gen = l.gen,
           \A m \in ms, n \in ms : m = n,
           \A b : \/ b \in Range(q.rows) \cup Range(q.staging)
                  \/ \E m \in ms : b \in Range(m.chan)
                  => b \in ShownBy(tab[l.tab], l),
           UNCHANGED <<disk, window, watcher, loop, moves>>
    PROVE  ListingInv'
<1>1. UNCHANGED <<disk, window, osWatched, mirror, commands, events, noticed, loop, moves>>
  BY DEF watcher
<1>2. /\ l.tab \in Tabs /\ tab \in [Tabs -> TabStates] /\ tab[l.tab] \in TabStates
      /\ IsOpen(l.tab) /\ Current(l) /\ tab[l.tab].gen \in Nat
  BY LoadInLoads DEF ListingInv, Typed, Stale, TabStates
<1>3. /\ tab' \in [Tabs -> TabStates] /\ tab'[l.tab] = q
      /\ \A t \in Tabs : t # l.tab => tab'[t] = tab[t]
      /\ \A t \in Tabs : tab'[t].gen = tab[t].gen /\ tab'[t].dir = tab[t].dir /\ tab'[t].tool = tab[t].tool
  BY <1>2 DEF SameLoad
<1>4. /\ loads' \subseteq LoadStates
      /\ \A x \in loads' : x.tab \in Tabs
  BY DEF ListingInv, Typed, LoadStates
<1>5. \A x \in loads' \cup loads :
             /\ (Cancelled(x)' <=> Cancelled(x)) /\ (Current(x)' <=> Current(x))
             /\ (LoadShape(x)' <=> LoadShape(x)) /\ BatchesOf(x)' = BatchesOf(x)
             /\ (IsOpen(x.tab)' <=> IsOpen(x.tab))
  <2>1. \A x \in loads' \cup loads : x.tab \in Tabs
    BY <1>4, LoadInLoads
  <2> QED
    BY <2>1, <1>1, <1>3 DEF Cancelled, Current, LoadShape, BatchesOf, IsOpen, TakenOf
<1>6. Typed'
  <2>1. tasks' \subseteq tasks
    OBVIOUS
  <2> QED
    BY <1>1, <1>3, <1>4, <2>1 DEF ListingInv, Typed
<1>7. LoadsOK'
  <2>1. ASSUME NEW x \in loads'
        PROVE  /\ LoadShape(x) /\ x.gen <= tab[x.tab].gen
               /\ x.end = "done" => x.next = BatchesOf(x) + 1 \/ Cancelled(x)
               /\ x.end = "error" => x.tool = "none"
    <3>1. CASE x \in loads
      BY <3>1 DEF ListingInv, LoadsOK
    <3>2. CASE x \in ms
      <4>1. (Cancelled(x) <=> Cancelled(l)) /\ BatchesOf(x) = BatchesOf(l)
        BY <3>2 DEF Cancelled, Current, BatchesOf
      <4> QED
        BY <3>2, <4>1 DEF ListingInv, LoadsOK
    <3> QED
      BY <3>1, <3>2
  <2>2. ASSUME NEW x \in loads', NEW y \in loads', x.tab = y.tab, x.gen = y.gen
        PROVE  x = y
    BY <2>2 DEF ListingInv, LoadsOK
  <2>3. \A x \in loads' : tab'[x.tab].gen = tab[x.tab].gen
    BY <1>3, <1>4
  <2> QED
    BY <2>1, <2>2, <2>3, <1>5 DEF LoadsOK
<1>8. TabsOK'
  <2>1. \A t \in Tabs : Holds(tab'[t])
    BY <1>3 DEF ListingInv, TabsOK
  <2>2. ASSUME NEW x \in loads', IsOpen(x.tab), Current(x)
        PROVE  Fits(tab'[x.tab], x)
    <3>1. CASE x \in ms
      BY <3>1, <1>3
    <3>2. CASE x \in loads /\ x.tab # l.tab
      BY <3>2, <2>2, <1>3, <1>4 DEF ListingInv, TabsOK
    <3>3. CASE x \in loads /\ x.tab = l.tab
      <4>1. x = l
        BY <3>3, <2>2, <1>2 DEF Current, ListingInv, LoadsOK
      <4> QED
        BY <4>1, <3>1
    <3> QED
      BY <3>1, <3>2, <3>3
  <2> QED
    BY <2>1, <2>2, <1>5 DEF TabsOK
<1>9. OpenTabs' = OpenTabs /\ OpenTabs \subseteq Tabs /\ \A t : IsOpen(t)' <=> IsOpen(t)
  BY <1>1 DEF OpenTabs, IsOpen
<1>10. TasksOK'
  <2>1. \A id \in tasks' : id = <<id[1], id[2]>>
    BY DEF ListingInv, TasksOK
  <2>2. ASSUME NEW t \in Tabs, window[WindowOf[t]] # "abandoned", NEW g \in 0..tab'[t].gen
        PROVE  <<t, g>> \in tasks' <=> IsOpen(t) /\ tab'[t].loading /\ g = tab'[t].gen
    <3>1. <<t, g>> \in tasks <=> IsOpen(t) /\ tab[t].loading /\ g = tab[t].gen
      BY <2>2, <1>3 DEF ListingInv, TasksOK, TasksEndWithTheirTab, TasksMatchTabs
    <3>2. CASE t # l.tab
      BY <3>1, <3>2, <1>3
    <3>3. CASE t = l.tab /\ q.loading
      <4>1. tab[t].loading
        BY <3>3, <1>2 DEF ListingInv, TabsOK, Fits
      <4> QED
        BY <3>1, <3>3, <4>1, <1>3
    <3>4. CASE t = l.tab /\ ~q.loading
      BY <3>1, <3>4, <1>3
    <3> QED
      BY <3>2, <3>3, <3>4
  <2> QED
    BY <2>1, <2>2, <1>1, <1>9 DEF TasksOK, TasksEndWithTheirTab, TasksMatchTabs
<1>11. /\ (Shown(tab) \subseteq mirror)'
       /\ \A t \in OpenTabs' : WholeRows(tab'[t])
  BY <1>1, <1>3, <1>9 DEF ListingInv, Shown
<1>12. ASSUME NEW t \in Tabs, NEW b, ReadBy(t, b)'
       PROVE  ReadBy(t, b)
  <2>1. CASE t # l.tab
    <3>1. \A x \in loads' : x.tab = t => x \in loads
      BY <2>1
    <3> QED
      BY <1>12, <2>1, <3>1, <1>3 DEF ReadBy, Current
  <2>2. CASE t = l.tab
    <3>1. \A x \in loads' : x.tab = t /\ Current(x)' => x \in ms
      BY <2>2, <1>2, <1>5 DEF Current, ListingInv, LoadsOK
    <3>2. b \in ShownBy(tab[l.tab], l) /\ b.gen = tab[t].gen
      BY <1>12, <2>2, <3>1, <1>3 DEF ReadBy
    <3> QED
      BY <2>2, <3>2, <1>2 DEF ReadBy, ShownBy
  <2> QED
    BY <2>1, <2>2
<1>13. ChangesSurface'
  <2>1. (AllOpen' => AllOpen) /\ UNCHANGED <<noticed, loop>> /\ events \subseteq events'
    BY <1>1 DEF AllOpen
  <2> QED
    BY <1>3, <1>9, <1>11, <1>12, <2>1, SurfaceKept
<1> QED
  BY <1>6, <1>7, <1>8, <1>10, <1>11, <1>13 DEF ListingInv

LEMMA PumpKeeps ==
    ASSUME ListingInv, NEW l \in loads, Pump(l)
    PROVE  ListingInv'
<1>1. UNCHANGED <<disk, window, watcher, loop, moves>>
  BY DEF Pump
<1>2. /\ l \in LoadStates /\ LoadShape(l) /\ l.chan \in Seq(Rows) /\ Len(l.chan) \in Nat
      /\ l.tab \in Tabs /\ BatchesOf(l) \in Nat
      /\ l.end = "done" => l.next = BatchesOf(l) + 1 \/ Cancelled(l)
      /\ l.end = "error" => l.tool = "none"
  BY LoadInLoads
<1>3. CASE Stale(l)
  BY <1>1, <1>3, PumpStaleKeeps DEF Pump
<1> SUFFICES ASSUME ~Stale(l)
             PROVE  ListingInv'
  BY <1>3
<1> DEFINE r == tab[l.tab]
           q(k) == Applied(r, l, SubSeq(l.chan, 1, k))
           m(k) == [l EXCEPT !.chan = SubSeq(@, k + 1, Len(@))]
<1>4. IsOpen(l.tab) /\ Current(l)
  BY DEF Stale
<1>5. r \in TabStates /\ Holds(r) /\ Fits(r, l) /\ r.gen \in Nat
  BY <1>2, <1>4 DEF ListingInv, Typed, TabsOK, TabStates
<1>6. r.loading /\ r.task = r.gen /\ tab \in [Tabs -> TabStates]
  BY <1>5 DEF Fits, Holds, ListingInv, Typed
<1>7. ASSUME NEW k \in 0..Len(l.chan)
      PROVE  /\ q(k) \in TabStates /\ m(k) \in LoadStates
             /\ LoadShape(m(k)) /\ Holds(q(k)) /\ Fits(q(k), m(k))
             /\ SameLoad(q(k), r) /\ q(k).failed = r.failed
             /\ ShownBy(q(k), m(k)) \subseteq ShownBy(r, l)
             /\ m(k).tab = l.tab /\ m(k).dir = l.dir /\ m(k).tool = l.tool /\ m(k).end = l.end
             /\ m(k).next = l.next /\ m(k).gen = l.gen
             /\ m(k).chan = SubSeq(l.chan, k + 1, Len(l.chan))
  <2>1. /\ m(k).tab = l.tab /\ m(k).dir = l.dir /\ m(k).tool = l.tool /\ m(k).end = l.end
        /\ m(k).next = l.next /\ m(k).gen = l.gen
        /\ m(k).chan = SubSeq(l.chan, k + 1, Len(l.chan))
    BY <1>2 DEF LoadStates
  <2> QED
    BY <1>2, <1>5, <2>1, AppliedKeeps
<1>8. CASE PumpSome(l)
  <2>1. PICK k \in 1..Len(l.chan) :
           /\ tab' = [tab EXCEPT ![l.tab] = q(k)]
           /\ loads' = With(l, m(k))
           /\ UNCHANGED tasks
    BY <1>8 DEF PumpSome
  <2>2. k \in 0..Len(l.chan)
    BY <1>2
  <2> DEFINE a == q(k)
             n == m(k)
  <2>3. /\ a \in TabStates /\ n \in LoadStates
        /\ LoadShape(n) /\ Holds(a) /\ Fits(a, n)
        /\ SameLoad(a, r) /\ ShownBy(a, n) \subseteq ShownBy(r, l)
        /\ n.tab = l.tab /\ n.dir = l.dir /\ n.tool = l.tool /\ n.end = l.end
        /\ n.next = l.next /\ n.gen = l.gen
    BY <1>7, <2>2
  <2>4. tab' = [tab EXCEPT ![l.tab] = a] /\ loads' = (loads \ {l}) \cup {n} /\ tasks' = tasks
    BY <2>1 DEF With
  <2> HIDE DEF a, n
  <2>5. a.loading
    BY <2>3 DEF Fits
  <2>6. WholeRows(a)
    BY <2>5 DEF WholeRows
  <2> DEFINE ms == {n}
  <2>7. /\ ms \in SUBSET LoadStates /\ loads' = (loads \ {l}) \cup ms
        /\ tasks' = IF a.loading THEN tasks ELSE tasks \ {<<l.tab, tab[l.tab].gen>>}
        /\ \A x \in ms : /\ a.loading /\ Fits(a, x) /\ LoadShape(x) /\ x.tab = l.tab /\ x.dir = l.dir
                         /\ x.tool = l.tool /\ x.end = l.end /\ x.next = l.next /\ x.gen = l.gen
        /\ \A x \in ms, y \in ms : x = y
        /\ \A b : \/ b \in Range(a.rows) \cup Range(a.staging)
                  \/ \E x \in ms : b \in Range(x.chan)
                  => b \in ShownBy(tab[l.tab], l)
    BY <2>3, <2>4, <2>5 DEF ShownBy
  <2> HIDE DEF ms
  <2> QED
    BY <1>1, <2>3, <2>4, <2>6, <2>7, PumpMoves
<1>9. CASE PumpDone(l)
  <2> DEFINE k == Len(l.chan)
             a == q(k)
             n == m(k)
             z == Finished(a, n)
  <2>1. /\ a \in TabStates /\ n \in LoadStates
        /\ LoadShape(n) /\ Holds(a) /\ Fits(a, n)
        /\ SameLoad(a, r) /\ ShownBy(a, n) \subseteq ShownBy(r, l)
        /\ n.tab = l.tab /\ n.dir = l.dir /\ n.tool = l.tool /\ n.end = l.end
        /\ n.next = l.next /\ n.gen = l.gen
        /\ n.chan = SubSeq(l.chan, k + 1, Len(l.chan))
    <3>1. k \in 0..Len(l.chan)
      BY <1>2
    <3> QED
      BY <1>7, <3>1
  <2>2. n.chan = <<>> /\ SubSeq(l.chan, 1, Len(l.chan)) = l.chan
    BY <1>2, <2>1, WholeSplit
  <2>3. /\ a = Applied(tab[l.tab], l, l.chan)
        /\ Finished(a, n) = Finished(a, l)
    BY <2>1, <2>2 DEF Finished
  <2>4. tab' = [tab EXCEPT ![l.tab] = z] /\ loads' = (loads \ {l}) \cup {}
        /\ tasks' = tasks \ {<<l.tab, tab[l.tab].gen>>} /\ l.end # "reading"
    BY <1>9, <1>6, <2>3 DEF PumpDone
  <2> HIDE DEF k, a, n
  <2>5. n.end = "done" => n.next = BatchesOf(n) + 1
    <3>1. ~Cancelled(l)
      BY <1>4 DEF Cancelled, IsOpen
    <3> QED
      BY <3>1, <1>2, <2>1 DEF BatchesOf
  <2>6. /\ z \in TabStates /\ Holds(z) /\ WholeRows(z) /\ SameLoad(z, a) /\ ~z.loading
        /\ Range(z.rows) \cup Range(z.staging) \subseteq ShownBy(a, n)
    BY <1>2, <2>1, <2>2, <2>4, <2>5, FinishedIsWhole
  <2> HIDE DEF z
  <2> DEFINE ms == {}
  <2>7. /\ ms \in SUBSET LoadStates /\ loads' = (loads \ {l}) \cup ms
        /\ tasks' = IF z.loading THEN tasks ELSE tasks \ {<<l.tab, tab[l.tab].gen>>}
        /\ \A x \in ms : /\ z.loading /\ Fits(z, x) /\ LoadShape(x) /\ x.tab = l.tab /\ x.dir = l.dir
                         /\ x.tool = l.tool /\ x.end = l.end /\ x.next = l.next /\ x.gen = l.gen
        /\ \A x \in ms, y \in ms : x = y
        /\ \A b : \/ b \in Range(z.rows) \cup Range(z.staging)
                  \/ \E x \in ms : b \in Range(x.chan)
                  => b \in ShownBy(tab[l.tab], l)
    BY <2>1, <2>4, <2>6
  <2>8. SameLoad(z, tab[l.tab])
    BY <2>1, <2>6 DEF SameLoad
  <2> HIDE DEF ms
  <2> QED
    BY <1>1, <2>4, <2>6, <2>7, <2>8, PumpMoves
<1> QED
  BY <1>8, <1>9 DEF Pump

----------------------------------------------------------------------------
(* Windows, the watcher and the poll loops. *)

\* Closing a window, by command or natively.
LEMMA CloseKeeps ==
    ASSUME ListingInv, NEW w \in Windows, CloseWindow(w) \/ CloseNatively(w)
    PROVE  ListingInv'
<1>1. /\ UNCHANGED <<disk, noticed, tab, loads, osWatched, mirror, commands, events, loop>>
      /\ window[w] = "open" /\ moves' \in 0..MaxMoves
      /\ \E e \in {"dismissed", "abandoned"} : window' = [window EXCEPT ![w] = e]
  BY BoundsAssumption DEF CloseWindow, CloseNatively, watcher, ListingInv, Typed
<1>2. /\ window \in [Windows -> {"open", "dismissed", "abandoned"}]
      /\ \A t \in Tabs : WindowOf[t] \in Windows
  BY PlacesAssumption DEF ListingInv, Typed
<1>3. tasks' \subseteq tasks
  BY DEF CloseWindow, CloseNatively
<1>4. /\ window' \in [Windows -> {"open", "dismissed", "abandoned"}] /\ window'[w] # "open"
      /\ \A x \in Windows \ {w} : window'[x] = window[x]
  BY <1>1, <1>2
<1>5. /\ \A t \in Tabs : IsOpen(t)' => IsOpen(t)
      /\ OpenTabs' \subseteq OpenTabs
  BY <1>2, <1>4 DEF IsOpen, OpenTabs
<1>6. ~AllOpen'
  BY <1>4 DEF AllOpen
<1>7. Typed'
  BY <1>1, <1>3, <1>4 DEF ListingInv, Typed
<1>8. \A l \in loads : l.tab \in Tabs /\ (Current(l)' <=> Current(l)) /\ (Cancelled(l) => Cancelled(l)')
  BY <1>1, <1>2, <1>4, LoadInLoads DEF Current, Cancelled
<1>9. LoadsOK'
  BY <1>1, <1>8 DEF ListingInv, LoadsOK, LoadShape, BatchesOf, TakenOf
<1>10. TabsOK'
  BY <1>1, <1>5, <1>8 DEF ListingInv, TabsOK
<1>11. TasksOK'
  <2>1. \A id \in tasks' : id = <<id[1], id[2]>>
    BY <1>3 DEF ListingInv, TasksOK
  <2>2. ASSUME NEW t \in Tabs, window'[WindowOf[t]] # "abandoned", NEW g \in 0..tab[t].gen
        PROVE  <<t, g>> \in tasks' <=> IsOpen(t)' /\ tab[t].loading /\ g = tab[t].gen
    <3>1. window[WindowOf[t]] # "abandoned"
      BY <2>2, <1>1, <1>2, <1>4
    <3>2. <<t, g>> \in tasks <=> IsOpen(t) /\ tab[t].loading /\ g = tab[t].gen
      BY <3>1 DEF ListingInv, TasksOK, TasksEndWithTheirTab, TasksMatchTabs
    <3>3. CASE CloseNatively(w)
      <4>1. WindowOf[t] # w /\ tasks' = tasks
        BY <3>3, <2>2, <1>2 DEF CloseNatively
      <4> QED
        BY <4>1, <3>2, <1>2, <1>4 DEF IsOpen
    <3>4. CASE CloseWindow(w)
      <4>1. <<t, g>> \in tasks' <=> <<t, g>> \in tasks /\ WindowOf[t] # w
        BY <3>4 DEF CloseWindow
      <4> QED
        BY <4>1, <3>2, <1>2, <1>4 DEF IsOpen
    <3> QED
      BY <3>3, <3>4
  <2> QED
    BY <2>1, <2>2, <1>1 DEF TasksOK, TasksEndWithTheirTab, TasksMatchTabs
<1>12. /\ \A t \in OpenTabs' : WholeRows(tab'[t])
       /\ (Shown(tab) \subseteq mirror)'
  BY <1>1, <1>5 DEF ListingInv, Shown
<1>13. ChangesSurface'
  BY <1>6 DEF ChangesSurface, AllOpen
<1> QED
  BY <1>7, <1>9, <1>10, <1>11, <1>12, <1>13 DEF ListingInv

\* A step of the watcher or of time leaves the tabs and their loads alone.
LEMMA TabsUntouched ==
    ASSUME ListingInv, UNCHANGED <<tab, loads, tasks, window, mirror>>
    PROVE  /\ LoadsOK' /\ TabsOK' /\ TasksOK'
           /\ \A t \in OpenTabs' : WholeRows(tab'[t])
           /\ (Shown(tab) \subseteq mirror)'
           /\ OpenTabs' = OpenTabs /\ OpenTabs \subseteq Tabs /\ (AllOpen' <=> AllOpen)
           /\ \A t : BatchesRead(t)' = BatchesRead(t)
<1>1. LoadsOK'
  BY DEF ListingInv, LoadsOK, LoadShape, BatchesOf, TakenOf, Cancelled, Current
<1>2. TabsOK' /\ OpenTabs' = OpenTabs /\ OpenTabs \subseteq Tabs /\ (AllOpen' <=> AllOpen)
  BY DEF ListingInv, TabsOK, IsOpen, Current, OpenTabs, AllOpen
<1>3. TasksOK'
  BY DEF ListingInv, TasksOK, TasksEndWithTheirTab, TasksMatchTabs, IsOpen
<1>4. (Shown(tab) \subseteq mirror)' /\ \A t \in OpenTabs' : WholeRows(tab'[t])
  BY <1>2 DEF ListingInv, Shown
<1>5. \A t : BatchesRead(t)' = BatchesRead(t)
  BY DEF BatchesRead, Current
<1> QED
  BY <1>1, <1>2, <1>3, <1>4, <1>5

LEMMA ChangeKeeps ==
    ASSUME ListingInv, NEW d \in Dirs, Change(d)
    PROVE  ListingInv'
<1>1. /\ UNCHANGED <<window, tab, loads, tasks, osWatched, mirror, commands, loop, moves>>
      /\ disk' = [disk EXCEPT ![d] = @ + 1] /\ disk[d] < MaxChanges[d]
  BY DEF Change
<1>2. /\ disk \in [Dirs -> Nat] /\ noticed \in [Dirs -> Nat]
      /\ \A x \in Dirs : disk[x] \in 0..MaxChanges[x] /\ noticed[x] \in 0..disk[x]
      /\ \A x \in Dirs : MaxChanges[x] \in Nat
  BY BoundsAssumption DEF ListingInv, Typed
<1>3. \/ /\ noticed' = [noticed EXCEPT ![d] = disk[d] + 1]
         /\ \E e \in {d, Rescan} : events' = events \cup {e}
      \/ UNCHANGED <<noticed, events>>
  BY DEF Change
<1>4. /\ disk' \in [Dirs -> Nat] /\ noticed' \in [Dirs -> Nat]
      /\ events' \subseteq Dirs \cup {Rescan} /\ events \subseteq events'
  <2>1. disk[d] + 1 \in Nat
    BY <1>2
  <2>2. disk' \in [Dirs -> Nat] /\ noticed' \in [Dirs -> Nat]
    BY <1>1, <1>2, <1>3, <2>1
  <2>3. events \subseteq Dirs \cup {Rescan}
    BY DEF ListingInv, Typed
  <2>4. events' \subseteq Dirs \cup {Rescan} /\ events \subseteq events'
    BY <1>3, <2>3
  <2> QED
    BY <2>2, <2>4
<1>5. \A x \in Dirs : disk'[x] \in 0..MaxChanges[x] /\ noticed'[x] \in 0..disk'[x]
  BY <1>1, <1>2, <1>3
<1>6. Typed'
  BY <1>1, <1>4, <1>5 DEF ListingInv, Typed
<1>7. /\ LoadsOK' /\ TabsOK' /\ TasksOK'
      /\ \A t \in OpenTabs' : WholeRows(tab'[t])
      /\ (Shown(tab) \subseteq mirror)'
      /\ OpenTabs' = OpenTabs /\ OpenTabs \subseteq Tabs /\ (AllOpen' <=> AllOpen)
      /\ \A t : BatchesRead(t)' = BatchesRead(t)
  BY <1>1, TabsUntouched
<1>8. ASSUME NEW t \in OpenTabs, AllOpen, tab[t].tool = "none"
      PROVE  \/ \A b \in BatchesRead(t) : b.version >= noticed'[tab[t].dir]
             \/ OnItsWay(tab[t].dir, {w \in Windows : window[w] = "open"})'
  <2>1. tab[t].dir \in mirror
    BY DEF ListingInv, Shown
  <2>2. tab[t].dir \in Drained => (tab[t].dir \in Drained)'
    BY <2>1, <1>1, <1>4 DEF Drained
  <2>3. \/ \A b \in BatchesRead(t) : b.version >= noticed[tab[t].dir]
        \/ OnItsWay(tab[t].dir, {w \in Windows : window[w] = "open"})
    BY <1>8 DEF ListingInv, ChangesSurface, Surfaced, AllOpen
  <2>4. CASE OnItsWay(tab[t].dir, {w \in Windows : window[w] = "open"})
    BY <2>2, <2>4, <1>1 DEF OnItsWay
  <2>5. CASE \A b \in BatchesRead(t) : b.version >= noticed[tab[t].dir]
    <3>1. CASE noticed'[tab[t].dir] = noticed[tab[t].dir]
      BY <2>5, <3>1
    <3>2. CASE noticed'[tab[t].dir] # noticed[tab[t].dir]
      <4>1. tab[t].dir = d /\ \E e \in {d, Rescan} : events' = events \cup {e}
        <5>1. tab[t].dir \in Dirs
          BY <2>1 DEF ListingInv, Typed
        <5> QED
          BY <3>2, <5>1, <1>2, <1>3
      <4>2. (tab[t].dir \in Drained)'
        BY <4>1, <2>1, <1>1 DEF Drained
      <4> QED
        BY <4>2, <1>1 DEF OnItsWay
    <3> QED
      BY <3>1, <3>2
  <2> QED
    BY <2>3, <2>4, <2>5
<1>9. ChangesSurface'
  BY <1>1, <1>7, <1>8 DEF ChangesSurface, Surfaced, AllOpen
<1> QED
  BY <1>6, <1>7, <1>9 DEF ListingInv

LEMMA HeadAndTail ==
    ASSUME NEW S, NEW s \in Seq(S), s # <<>>
    PROVE  Head(s) \in S /\ Tail(s) \in Seq(S)
OBVIOUS

LEMMA RunCommandKeeps ==
    ASSUME ListingInv, RunCommand
    PROVE  ListingInv'
<1>1. UNCHANGED <<disk, noticed, window, tab, loads, tasks, mirror, events, loop, moves>>
  BY DEF RunCommand
<1>2. commands \in Seq([watch : SUBSET Dirs, retain : SUBSET Dirs]) /\ commands # <<>>
  BY DEF RunCommand, ListingInv, Typed
<1>3. /\ Head(commands) \in [watch : SUBSET Dirs, retain : SUBSET Dirs]
      /\ commands' \in Seq([watch : SUBSET Dirs, retain : SUBSET Dirs])
  BY <1>2, HeadAndTail DEF RunCommand
<1>4. osWatched' \subseteq Dirs
  BY <1>3 DEF RunCommand
<1>5. Typed'
  BY <1>1, <1>3, <1>4 DEF ListingInv, Typed
<1>6. /\ LoadsOK' /\ TabsOK' /\ TasksOK'
      /\ \A t \in OpenTabs' : WholeRows(tab'[t])
      /\ (Shown(tab) \subseteq mirror)'
      /\ OpenTabs' = OpenTabs /\ (AllOpen' <=> AllOpen)
      /\ \A t : BatchesRead(t)' = BatchesRead(t)
  BY <1>1, TabsUntouched
<1>7. ChangesSurface'
  BY <1>1, <1>6 DEF ListingInv, ChangesSurface, Surfaced, OnItsWay, Drained, AllOpen
<1> QED
  BY <1>5, <1>6, <1>7 DEF ListingInv

LEMMA ElapseKeeps ==
    ASSUME ListingInv, NEW w \in Windows, NEW d \in Dirs, Elapse(w, d)
    PROVE  ListingInv'
<1>1. UNCHANGED <<disk, noticed, window, tab, loads, tasks, osWatched, mirror, commands, events, moves>>
  BY DEF Elapse, watcher
<1>2. loop \in [Windows -> [pending : SUBSET Dirs, recent : SUBSET Dirs, stopped : BOOLEAN]]
  BY DEF ListingInv, Typed
<1>3. /\ loop' \in [Windows -> [pending : SUBSET Dirs, recent : SUBSET Dirs, stopped : BOOLEAN]]
      /\ \A x \in Windows : loop'[x].pending = loop[x].pending
  BY <1>2 DEF Elapse
<1>4. Typed'
  BY <1>1, <1>3 DEF ListingInv, Typed
<1>5. /\ LoadsOK' /\ TabsOK' /\ TasksOK'
      /\ \A t \in OpenTabs' : WholeRows(tab'[t])
      /\ (Shown(tab) \subseteq mirror)'
      /\ OpenTabs' = OpenTabs /\ (AllOpen' <=> AllOpen)
      /\ \A t : BatchesRead(t)' = BatchesRead(t)
  BY <1>1, TabsUntouched
<1>6. ChangesSurface'
  <2>1. ASSUME NEW x, OnItsWay(x, {y \in Windows : window[y] = "open"})
        PROVE  OnItsWay(x, {y \in Windows : window[y] = "open"})'
    BY <2>1, <1>1, <1>3 DEF OnItsWay, Drained
  <2> QED
    BY <2>1, <1>1, <1>5 DEF ListingInv, ChangesSurface, Surfaced, AllOpen
<1> QED
  BY <1>4, <1>5, <1>6 DEF ListingInv

\* One turn of a poll loop: what is due is reloaded in every tab that shows it,
\* the rest waits in the loop.
LEMMA PollKeeps ==
    ASSUME ListingInv, NEW w \in Windows, Poll(w)
    PROVE  ListingInv'
<1> DEFINE pending == loop[w].pending \cup Drained
           due     == pending \ loop[w].recent
           LoopRecords == [pending : SUBSET Dirs, recent : SUBSET Dirs, stopped : BOOLEAN]
<1>1. UNCHANGED <<disk, noticed, window, osWatched, moves>> /\ events' = {}
  BY DEF Poll
<1>2. loop \in [Windows -> LoopRecords] /\ mirror \subseteq Dirs
  BY DEF ListingInv, Typed
<1>3. pending \subseteq Dirs /\ due \subseteq Dirs
  BY <1>2 DEF Drained
<1>4. /\ loop' \in [Windows -> LoopRecords]
      /\ loop'[w].pending = pending \ due
      /\ \A x \in Windows : x # w => loop'[x].pending = loop[x].pending
  <2>1. PICK b \in BOOLEAN : loop' = [loop EXCEPT ![w] =
            [pending |-> pending \ due, recent |-> loop[w].recent \cup due, stopped |-> b]]
    BY DEF Poll
  <2>2. [pending |-> pending \ due, recent |-> loop[w].recent \cup due, stopped |-> b] \in LoopRecords
    BY <1>2, <1>3
  <2> HIDE DEF pending, due
  <2> QED
    BY <1>2, <2>1, <2>2
<1>5. IF window[w] = "open" THEN Broadcast(due)
                            ELSE UNCHANGED <<tab, loads, tasks, mirror, commands>>
  BY DEF Poll
<1>6. ASSUME NEW d, AllOpen, OnItsWay(d, {x \in Windows : window[x] = "open"}), d \notin due
      PROVE  d \in Drained' \/ \E x \in Windows : window'[x] = "open" /\ d \in loop'[x].pending
  <2>1. CASE d \in pending
    BY <2>1, <1>1, <1>4, <1>6 DEF OnItsWay, AllOpen
  <2>2. CASE d \notin pending
    BY <2>2, <1>1, <1>4, <1>6 DEF OnItsWay
  <2> QED
    BY <2>1, <2>2
<1> HIDE DEF pending, due
<1>7. CASE window[w] # "open" \/ Matching(due) = {}
  <2>1. UNCHANGED <<tab, loads, tasks, mirror, commands, window>>
    BY <1>7, <1>5, <1>1 DEF Broadcast
  <2>2. Typed'
    BY <1>1, <1>4, <2>1 DEF ListingInv, Typed
  <2>3. /\ LoadsOK' /\ TabsOK' /\ TasksOK'
        /\ \A t \in OpenTabs' : WholeRows(tab'[t])
        /\ (Shown(tab) \subseteq mirror)'
        /\ OpenTabs' = OpenTabs /\ (AllOpen' <=> AllOpen)
        /\ \A t : BatchesRead(t)' = BatchesRead(t)
    BY <2>1, TabsUntouched
  <2>4. ASSUME AllOpen, NEW t \in OpenTabs, tab[t].tool = "none"
        PROVE  tab[t].dir \notin due
    BY <2>4, <1>7 DEF Matching, AllOpen
  <2>5. ChangesSurface'
    BY <1>1, <1>6, <2>1, <2>3, <2>4 DEF ListingInv, ChangesSurface, Surfaced, AllOpen, OnItsWay
  <2> QED
    BY <2>2, <2>3, <2>5 DEF ListingInv
<1>8. CASE window[w] = "open" /\ Matching(due) # {}
  <2> DEFINE ts == Matching(due)
             dirOf == [t \in ts |-> tab[t].dir]
  <2>1. LoadPaths(ts, dirOf, tab) /\ UNCHANGED window
    BY <1>8, <1>5, <1>1 DEF Broadcast
  <2>2. ts \in SUBSET OpenTabs /\ OpenTabs \subseteq Tabs
    BY DEF Matching, OpenTabs
  <2>3. /\ \A t \in Tabs : tab[t] \in TabStates /\ Holds(tab[t]) /\ tab[t].gen = tab[t].gen
        /\ \A t \in Tabs \ ts : tab[t] = tab[t]
    BY DEF ListingInv, Typed, TabsOK
  <2>4. \A t \in ts : dirOf[t] \in Dirs
    BY <2>2, <2>3 DEF TabStates
  <2> HIDE DEF ts, dirOf
  <2>5. LoadsBegun(ts) /\ WatchesKept
    <3>1. FitToLoad(ts, dirOf, tab)
      BY <2>1, <2>2, <2>3, <2>4 DEF FitToLoad
    <3> QED
      BY <2>1, <2>2, <3>1, LoadPathsKeep
  <2>6. Typed'
    BY <1>1, <1>4, <2>5 DEF ListingInv, Typed, LoadsBegun, WatchesKept
  <2>7. OpenTabs' = OpenTabs /\ (AllOpen' <=> AllOpen)
    BY <2>1 DEF OpenTabs, IsOpen, AllOpen
  <2>8. ASSUME AllOpen, NEW t \in OpenTabs, tab'[t].tool = "none"
        PROVE  \/ \A b \in BatchesRead(t)' : b.version >= noticed[tab'[t].dir]
               \/ tab'[t].dir \in Drained'
               \/ \E x \in Windows : window'[x] = "open" /\ tab'[t].dir \in loop'[x].pending
    <3>1. CASE t \in ts
      BY <3>1, <2>5, BatchesReadAre DEF LoadsBegun
    <3>2. CASE t \notin ts
      <4>1. tab'[t] = tab[t] /\ \A b : ReadBy(t, b)' => ReadBy(t, b)
        BY <3>2, <2>2, <2>5 DEF LoadsBegun
      <4>2. tab[t].dir \notin due
        BY <3>2, <4>1, <2>8 DEF ts, Matching
      <4>3. \/ \A b \in BatchesRead(t) : b.version >= noticed[tab[t].dir]
            \/ OnItsWay(tab[t].dir, {x \in Windows : window[x] = "open"})
        BY <2>8, <4>1 DEF ListingInv, ChangesSurface, Surfaced, AllOpen
      <4>4. \A b : b \in BatchesRead(t)' => b \in BatchesRead(t)
        BY <4>1, BatchesReadAre
      <4> QED
        BY <4>1, <4>2, <4>3, <4>4, <2>8, <1>6
    <3> QED
      BY <3>1, <3>2
  <2>9. ChangesSurface'
    BY <1>1, <2>7, <2>8 DEF ChangesSurface, Surfaced, AllOpen, OnItsWay
  <2> QED
    BY <2>5, <2>6, <2>9 DEF ListingInv, LoadsBegun, WatchesKept
<1> QED
  BY <1>7, <1>8

----------------------------------------------------------------------------
(* The theorems. *)

LEMMA ListingInvInitially == Init => ListingInv
<1> SUFFICES ASSUME Init
             PROVE  ListingInv
  OBVIOUS
<1>1. ASSUME NEW t \in Tabs
      PROVE  /\ tab[t] \in TabStates /\ Holds(tab[t]) /\ tab[t].loading
             /\ tab[t].gen = 1 /\ tab[t].dir = Start[t] /\ Start[t] \in Dirs
             /\ tab[t].rows = <<>> /\ tab[t].staging = <<>>
             /\ Fits(tab[t], NewLoad(t, 1, Start[t], "none"))
  <2> DEFINE q == NewTab(Start[t])
             l == NewLoad(t, 1, Start[t], "none")
  <2>1. Start[t] \in Dirs /\ tab[t] = q
    BY PlacesAssumption DEF Init
  <2>2. <<>> \in Seq(Rows) /\ Len(<<>>) = 0
    OBVIOUS
  <2>3. /\ q \in TabStates /\ q.gen = 1 /\ q.dir = Start[t] /\ q.rows = <<>> /\ q.staging = <<>>
        /\ q.loading /\ q.first /\ ~q.inPlace /\ q.task = 1 /\ q.tool = "none"
    BY <2>1, <2>2 DEF NewTab, TabStates
  <2>4. TakenOf(l) = 0 /\ l.gen = 1 /\ l.dir = Start[t] /\ l.tool = "none"
    <3>1. \A g \in Nat, k \in Tools \cup {"none"} :
             LET x == NewLoad(t, g, Start[t], k) IN
             TakenOf(x) = 0 /\ x.gen = g /\ x.dir = Start[t] /\ x.tool = k
      BY <2>1, NewLoadShape
    <3> QED
      BY <3>1
  <2> HIDE DEF q, l
  <2>5. Holds(q)
    BY <2>3, EmptyRun DEF Holds
  <2>6. Fits(q, l)
    BY <2>3, <2>4 DEF Fits
  <2> QED
    BY <2>1, <2>3, <2>5, <2>6 DEF l
<1>2. ASSUME NEW l \in loads
      PROVE  /\ l \in LoadStates /\ LoadShape(l) /\ l.end = "reading" /\ l.gen = 1
             /\ l.tab \in Tabs /\ l = NewLoad(l.tab, 1, Start[l.tab], "none") /\ l.chan = <<>>
  <2>1. PICK t \in Tabs : l = NewLoad(t, 1, Start[t], "none")
    BY DEF Init
  <2> QED
    BY <1>1, <2>1, NewLoadShape
<1>3. Range(Start) \subseteq Dirs /\ \A t \in Tabs : Start[t] \in Range(Start)
  BY PlacesAssumption DEF Range
<1>4. Typed
  <2>1. \A d \in Dirs : 0 \in 0..MaxChanges[d]
    BY BoundsAssumption
  <2>2. tab \in [Tabs -> TabStates]
    BY <1>1 DEF Init
  <2>3. commands \in Seq([watch : SUBSET Dirs, retain : SUBSET Dirs])
    BY <1>3 DEF Init, Request
  <2>4. moves \in 0..MaxMoves
    BY BoundsAssumption DEF Init
  <2>5. /\ disk \in [Dirs -> Nat] /\ noticed \in [Dirs -> Nat]
        /\ \A d \in Dirs : disk[d] \in 0..MaxChanges[d] /\ noticed[d] \in 0..disk[d]
    BY <2>1 DEF Init
  <2>6. /\ \A id \in tasks : id[1] \in Tabs /\ id[2] \in Nat
        /\ loop \in [Windows -> [pending : SUBSET Dirs, recent : SUBSET Dirs, stopped : BOOLEAN]]
        /\ window \in [Windows -> {"open", "dismissed", "abandoned"}]
        /\ osWatched \subseteq Dirs /\ mirror \subseteq Dirs /\ events \subseteq Dirs \cup {Rescan}
    BY <1>3 DEF Init
  <2> QED
    BY <1>2, <2>2, <2>3, <2>4, <2>5, <2>6 DEF Typed
<1>5. LoadsOK
  <2>1. \A l \in loads : l.gen <= tab[l.tab].gen
    BY <1>1, <1>2
  <2> QED
    BY <1>2, <2>1 DEF LoadsOK
<1>6. TabsOK
  BY <1>1, <1>2 DEF TabsOK
<1>7. TasksOK
  <2>1. \A t \in Tabs : IsOpen(t)
    BY PlacesAssumption DEF IsOpen, Init
  <2>2. \A t \in Tabs : \A g : <<t, g>> \in tasks <=> g = 1
    BY DEF Init
  <2>3. \A id \in tasks : id = <<id[1], id[2]>>
    BY DEF Init
  <2> QED
    BY <1>1, <2>1, <2>2, <2>3 DEF TasksOK, TasksEndWithTheirTab, TasksMatchTabs
<1>8. \A t \in OpenTabs : WholeRows(tab[t])
  BY <1>1 DEF OpenTabs, WholeRows
<1>9. Shown(tab) \subseteq mirror
  BY <1>1, <1>3 DEF Shown, OpenTabs, Init
<1>10. ChangesSurface
  <2>1. \A t \in OpenTabs : \A b : ~ReadBy(t, b)
    <3>1. Range(<<>>) = {}
      <4>1. DOMAIN <<>> = {}
        OBVIOUS
      <4> QED
        BY <4>1 DEF Range
    <3> QED
      BY <1>1, <1>2, <3>1 DEF ReadBy, OpenTabs
  <2> QED
    BY <2>1, BatchesReadAre DEF ChangesSurface, Surfaced
<1> QED
  BY <1>4, <1>5, <1>6, <1>7, <1>8, <1>9, <1>10 DEF ListingInv

LEMMA ListingInductive ==
    ASSUME ListingInv, [Next]_vars
    PROVE  ListingInv'
<1>1. ASSUME NEW t \in Tabs, NEW d \in Dirs, Navigate(t, d)
      PROVE  ListingInv'
  BY <1>1, LoadPathKeeps DEF Navigate
<1>2. ASSUME NEW t \in Tabs, NEW d \in Dirs, GoBack(t, d)
      PROVE  ListingInv'
  BY <1>2, LoadPathKeeps DEF GoBack
<1>3. ASSUME NEW t \in Tabs, NEW k \in Tools, OpenTool(t, k)
      PROVE  ListingInv'
  BY <1>3, OpenToolKeeps
<1>4. \A t \in Tabs : tab[t].dir \in Dirs
  BY DEF ListingInv, Typed, TabStates
<1>5. ASSUME NEW t \in Tabs, Refresh(t)
      PROVE  ListingInv'
  <2>1. CASE tab[t].tool = "flat"
    BY <2>1, <1>3, <1>5 DEF Refresh, Tools
  <2>2. CASE tab[t].tool # "flat"
    BY <2>2, <1>4, <1>5, LoadPathKeeps DEF Refresh
  <2> QED
    BY <2>1, <2>2
<1>6. ASSUME NEW t \in Tabs, CloseTool(t)
      PROVE  ListingInv'
  BY <1>1, <1>4, <1>6 DEF CloseTool
<1>7. ASSUME NEW w \in Windows, CloseWindow(w) \/ CloseNatively(w)
      PROVE  ListingInv'
  BY <1>7, CloseKeeps
<1>8. ASSUME NEW l \in loads, ReadBatch(l)
      PROVE  ListingInv'
  BY <1>8, ReadBatchKeeps
<1>9. ASSUME NEW l \in loads, EndRead(l)
      PROVE  ListingInv'
  BY <1>9, EndedKeeps DEF EndRead
<1>10. ASSUME NEW l \in loads, FailRead(l)
       PROVE  ListingInv'
  BY <1>10, EndedKeeps DEF FailRead
<1>11. ASSUME NEW l \in loads, Pump(l)
       PROVE  ListingInv'
  BY <1>11, PumpKeeps
<1>12. CASE RunCommand
  BY <1>12, RunCommandKeeps
<1>13. ASSUME NEW d \in Dirs, Change(d)
       PROVE  ListingInv'
  BY <1>13, ChangeKeeps
<1>14. ASSUME NEW w \in Windows, Poll(w) \/ \E d \in Dirs : Elapse(w, d)
       PROVE  ListingInv'
  BY <1>14, PollKeeps, ElapseKeeps
<1>15. CASE UNCHANGED vars
  <2>1. UNCHANGED <<disk, noticed, window, tab, loads, tasks, osWatched, mirror, commands, events,
                    loop, moves>>
    BY <1>15 DEF vars, watcher
  <2>2. /\ LoadsOK' /\ TabsOK' /\ TasksOK'
        /\ \A t \in OpenTabs' : WholeRows(tab'[t])
        /\ (Shown(tab) \subseteq mirror)'
        /\ OpenTabs' = OpenTabs /\ (AllOpen' <=> AllOpen)
        /\ \A t : BatchesRead(t)' = BatchesRead(t)
    BY <2>1, TabsUntouched
  <2>3. Typed'
    BY <2>1 DEF ListingInv, Typed
  <2>4. ChangesSurface'
    BY <2>1, <2>2 DEF ListingInv, ChangesSurface, Surfaced, OnItsWay, Drained, AllOpen
  <2> QED
    BY <2>2, <2>3, <2>4 DEF ListingInv
<1>16. CASE User
  BY <1>1, <1>2, <1>3, <1>5, <1>6, <1>7, <1>16 DEF User
<1>17. CASE Worker \/ Pumps
  BY <1>8, <1>9, <1>10, <1>11, <1>17 DEF Worker, Pumps
<1> QED
  BY <1>12, <1>13, <1>14, <1>15, <1>16, <1>17 DEF Next

\* Every reachable state satisfies the inductive invariant.
LEMMA ListingAlways == Spec => []ListingInv
<1>1. Init => ListingInv
  BY ListingInvInitially
<1>2. ListingInv /\ [Next]_vars => ListingInv'
  BY ListingInductive
<1> QED
  BY <1>1, <1>2, PTL DEF Spec

\* ListingConsistent: the rows of a tab are consecutive batches of one load,
\* from its first, whatever superseded loads still deliver, and the channel of
\* a load never holds more than its bound.
THEOREM ListingsStayConsistent == Spec => []ListingConsistent
<1>1. ListingInv => ListingConsistent
  <2> SUFFICES ASSUME ListingInv
               PROVE  ListingConsistent
    OBVIOUS
  <2>1. RowsOfOneLoad
    <3>1. ASSUME NEW t \in Tabs
          PROVE  tab[t].rows \in Seq(Rows) /\ OneLoad(tab[t].rows)
      BY DEF ListingInv, Typed, TabStates, TabsOK, Holds
    <3>2. \A t \in Tabs : DOMAIN tab[t].rows = 1..Len(tab[t].rows)
      BY <3>1
    <3> QED
      BY <3>1, <3>2 DEF RowsOfOneLoad, OneLoad
  <2>2. \A l \in loads :
           /\ l.tab \in Tabs /\ l.dir \in Dirs /\ l.tool \in Tools \cup {"none"}
           /\ l.end \in {"reading", "done", "error"}
           /\ Len(l.chan) + (IF l.end = "reading" THEN 0 ELSE 1) <= ChannelBatches
    BY DEF ListingInv, Typed, LoadStates, LoadsOK, LoadShape
  <2>3. TypeOK
    BY <2>2 DEF TypeOK, ListingInv, Typed, TabStates
  <2> QED
    BY <2>1, <2>3 DEF ListingConsistent
<1> QED
  BY <1>1, ListingAlways, PTL

\* FinishedListingIsWhole: a tab that has stopped loading without an error
\* shows every batch of its latest load, of the directory it says it is in.
THEOREM FinishedListingsAreWhole == Spec => []FinishedListingIsWhole
<1>1. ListingInv => FinishedListingIsWhole
  BY DEF ListingInv, WholeRows, FinishedListingIsWhole
<1> QED
  BY <1>1, ListingAlways, PTL

\* TasksEndWithTheirTab: the registry's rows of the tabs of a window that was
\* not closed natively are those tabs' current loads, and no others.
THEOREM TaskRowsEndWithTheirTab == Spec => []TasksEndWithTheirTab
<1>1. ListingInv => TasksEndWithTheirTab
  BY DEF ListingInv, TasksOK
<1> QED
  BY <1>1, ListingAlways, PTL

\* ChangesSurface: while every window is open, a change that a watch noticed is
\* in what the tab has read, or on its way to a reload of the tab.
THEOREM NoticedChangesSurface == Spec => []ChangesSurface
<1>1. ListingInv => ChangesSurface
  BY DEF ListingInv
<1> QED
  BY <1>1, ListingAlways, PTL
=============================================================================
