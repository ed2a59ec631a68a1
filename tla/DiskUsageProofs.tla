-------------------------- MODULE DiskUsageProofs --------------------------
(***************************************************************************)
(* The protocol of the Fast NTFS session, under any number of views, scans *)
(* and helpers, with pipes and queues of any size: whatever is cancelled,  *)
(* torn, timed out or killed, a session that is kept is clean, a Start is  *)
(* read by the loop it is for, and a complete result has every row; what a *)
(* finished scan shows is one whole tree, and the task registry has a row  *)
(* for exactly the scans that are awaited.                                 *)
(***************************************************************************)
EXTENDS DiskUsageScan, SequenceTheorems, WellFoundedInduction, TLAPS

----
(* The shape of calls, helpers and frames.  The number of a request is      *)
(* compared and nothing else, so no set bounds it.                         *)

Results == {"none", "complete", "cancelled", "declined", "failed", "timeout", "platform", "protocol"}
Holding == {"launching", "hello", "starting", "reading", "cancelling"}
Serving == {"opening", "scanning", "joining"}

CallRecords(id) ==
    [at : {"idle", "locking", "returned"} \cup Holding, id : {id}, ready : BOOLEAN,
     rows : Nat, batch : BOOLEAN, result : Results]
HelperRecords(id) ==
    [at : {"absent", "starting", "awaiting", "gone"} \cup Serving, id : {id},
     reader : {"none", "spawned", "reading", "done"}, cancel : BOOLEAN, rows : Nat,
     result : {"none", "complete", "failed"}]
Frames(id) ==
    [kind : {"Ready", "Batch", "Complete", "Failed", "torn"}, id : {id}, rows : Nat]

----
(* A session: the call r that holds the lock, the helper k, and the frames  *)
(* on their way to the helper (th) and to the client (tc).                 *)

Waits(k) == k.at \in {"awaiting", "gone"}
Broken(f) == f.kind \in {"Failed", "torn"}

\* What is read before the frame at i: the rows up to there.
RowsBefore(i, r) == r.rows + (i - 1) - (IF r.ready THEN 0 ELSE 1)

\* The frame at i is the next one the protocol asks for, if the ones before it are.
Expected(tc, i, r) ==
    /\ tc[i].kind = "Ready" <=> i = 1 /\ ~r.ready
    /\ tc[i].kind = "Complete" => /\ i = Len(tc) /\ tc[i].rows = FastRows
                                  /\ tc[i].rows = RowsBefore(i, r)
Stream(tc, r) ==
    \A i \in DOMAIN tc :
        (\A j \in DOMAIN tc : j <= i => ~Broken(tc[j])) => Expected(tc, i, r)

\* What a helper that serves the request has sent.
InStep(k, tc, r) ==
    /\ \A i \in DOMAIN tc : tc[i].kind # "Complete"
    /\ k.at = "opening" => tc = <<>> /\ ~r.ready /\ r.rows = 0 /\ k.rows = 0
    /\ k.at = "scanning" \/ (k.at = "joining" /\ k.result = "complete") =>
          /\ \A i \in DOMAIN tc : ~Broken(tc[i])
          /\ r.ready \/ tc # <<>>
          /\ k.rows = RowsBefore(Len(tc) + 1, r)

RoomKept(tc) ==
    Len(tc) <= PipeFrames \/ (Len(tc) = PipeFrames + 1 /\ tc[Len(tc)].kind = "torn")

Hello == <<Frame("Hello", 0)>>
Starts(r) == <<Frame("Start", r.id)>>
Cancels(r) == <<Frame("Cancel", r.id)>>
StartsAndCancels(r) == <<Frame("Start", r.id), Frame("Cancel", r.id)>>

Clean(k, th, tc) == th = <<>> /\ tc = <<>> /\ Waits(k)

SaysHello(k, th, tc) ==
    /\ th = <<>>
    /\ \/ k.at \in {"starting", "gone"} /\ tc = <<>>
       \/ Waits(k) /\ tc = Hello

Served(r, k, th, tc) ==
    /\ tc \in Seq(Frames(r.id)) /\ RoomKept(tc)
    /\ Waits(k) \/ (k.at \in Serving /\ k.id = r.id)

Reads(r, k, th, tc) ==
    /\ Served(r, k, th, tc) /\ r.result = "none"
    /\ \/ th = <<>>
       \/ th = Starts(r) /\ tc = <<>> /\ ~r.ready /\ r.rows = 0 /\ Waits(k)
    /\ Stream(tc, r)
    /\ k.at \in Serving => InStep(k, tc, r)

GivesUp(r, k, th, tc) ==
    /\ Served(r, k, th, tc) /\ r.result \in {"cancelled", "timeout"}
    /\ \/ th \in {<<>>, Cancels(r)}
       \/ th \in {Starts(r), StartsAndCancels(r)} /\ Waits(k)

Phase(r, k, th, tc) ==
    /\ r.at = "hello" => SaysHello(k, th, tc)
    /\ r.at = "starting" => Clean(k, th, tc)
    /\ r.at = "reading" => Reads(r, k, th, tc)
    /\ r.at = "cancelling" => GivesUp(r, k, th, tc)

----
\* A call that has not read anything yet; and one that ended well.
CallFine(r) ==
    /\ r \in CallRecords(r.id)
    /\ r.at \in {"locking", "launching", "hello", "starting"} =>
          ~r.ready /\ ~r.batch /\ r.rows = 0 /\ r.result = "none"
    /\ r.result = "complete" => r.rows = FastRows

HelperFine(k) ==
    /\ k \in HelperRecords(k.id)
    /\ k.at \notin Serving => k.reader = "none"
    /\ k.at = "joining" => k.result # "none"
    /\ k.at = "joining" /\ k.result = "complete" => k.rows = FastRows

\* While nobody holds the lock, the session is as a call finds it that takes it.
Nobody == [Idle EXCEPT !.at = "starting"]
Holder == IF lock = NoCall THEN Nobody ELSE call[lock]

PipesFine ==
    /\ call = [c \in Calls |-> call[c]] /\ helper = [h \in Helpers |-> helper[h]]
    /\ toHelper = [h \in Helpers |-> toHelper[h]] /\ toClient = [h \in Helpers |-> toClient[h]]
    /\ lock \in Calls \cup {NoCall} /\ session \in Helpers \cup {0} /\ open = {session} \ {0}
    /\ \A h \in Helpers : h # session => toHelper[h] = <<>> /\ toClient[h] = <<>>

CallsFine ==
    \A c \in Calls : CallFine(call[c]) /\ (call[c].at \in Holding <=> c = lock)

HelpersFine == \A h \in Helpers : HelperFine(helper[h])

SessionFine ==
    /\ lock # NoCall => (call[lock].at = "launching" <=> session = 0)
    /\ session # 0 => Phase(Holder, helper[session], toHelper[session], toClient[session])

ProtocolInv == PipesFine /\ CallsFine /\ HelpersFine /\ SessionFine

ViewRecords(v) ==
    [live : BOOLEAN, scan : Scans \cup {0}, generation : {v.generation}, stopped : BOOLEAN,
     shows : {v.shows}]
ScanRecords(w) == [at : {w.at}, view : {w.view}, rows : {w.rows}]
Messages == {"fast", "portable", "reset", "done", "error"}

WorkInv ==
    /\ view = [v \in Views |-> view[v]] /\ worker = [s \in Scans |-> worker[s]]
    /\ \A v \in Views : view[v] \in ViewRecords(view[v]) /\ (view[v].live => view[v].scan # 0)
    /\ queue \in [Scans -> Seq(Messages)] /\ \A s \in Scans : Len(queue[s]) <= QueueCap
    /\ cancelled \subseteq Calls /\ tasks \subseteq Scans
    /\ \A s \in Scans : /\ worker[s] \in ScanRecords(worker[s])
                        /\ worker[s].at = "none" => call[s].at = "idle"

ScanInv == ProtocolInv /\ WorkInv

----
(* Sequences of frames.                                                    *)

LEMMA Appended ==
    ASSUME NEW S, NEW s \in Seq(S), NEW f \in S
    PROVE  /\ Append(s, f) \in Seq(S) /\ Append(s, f) # <<>>
           /\ Len(s) \in Nat /\ Len(Append(s, f)) = Len(s) + 1
           /\ DOMAIN s = 1 .. Len(s) /\ DOMAIN Append(s, f) = 1 .. (Len(s) + 1)
           /\ Append(s, f)[Len(s) + 1] = f
           /\ \A i \in 1 .. Len(s) : Append(s, f)[i] = s[i]
<1>1. Append(s, f) \in Seq(S)
  OBVIOUS
<1>2. Len(s) \in Nat /\ Len(Append(s, f)) = Len(s) + 1
  OBVIOUS
<1> QED  BY <1>1, <1>2

LEMMA Taken ==
    ASSUME NEW S, NEW s \in Seq(S), s # <<>>
    PROVE  /\ Head(s) \in S /\ Head(s) = s[1]
           /\ Tail(s) \in Seq(S) /\ Len(s) \in Nat \ {0} /\ Len(Tail(s)) = Len(s) - 1
           /\ DOMAIN s = 1 .. Len(s) /\ DOMAIN Tail(s) = 1 .. (Len(s) - 1)
           /\ \A i \in 1 .. (Len(s) - 1) : Tail(s)[i] = s[i + 1]
<1>1. Len(s) \in Nat \ {0} /\ DOMAIN s = 1 .. Len(s)
  OBVIOUS
<1>2. Head(s) = s[1] /\ s[1] \in S
  BY <1>1
<1>3. Tail(s) \in Seq(S)
  OBVIOUS
<1>4. Len(Tail(s)) = Len(s) - 1
  BY <1>1
<1>5. DOMAIN Tail(s) = 1 .. (Len(s) - 1)
  BY <1>3, <1>4
<1>6. \A i \in 1 .. (Len(s) - 1) : Tail(s)[i] = s[i + 1]
  BY <1>1
<1> QED  BY <1>1, <1>2, <1>3, <1>4, <1>5, <1>6

LEMMA TakenLast ==
    ASSUME NEW S, NEW s \in Seq(S), Len(s) = 1
    PROVE  Tail(s) = <<>>
<1>1. s # <<>>
  <2>1. Len(<<>>) = 0 /\ Len(s) # 0
    OBVIOUS
  <2> QED  BY Zenon, <2>1
<1>2. Tail(s) \in Seq(S) /\ Len(Tail(s)) = 0
  BY <1>1, Taken
<1>3. \A t \in Seq(S) : Len(t) = 0 => t = <<>>
  OBVIOUS
<1> QED  BY <1>2, <1>3

\* A stream without a Complete goes on with a frame that breaks it or is expected.
LEMMA StreamGoesOn ==
    ASSUME NEW r, NEW tc \in Seq(Frames(r.id)), NEW f \in Frames(r.id),
           Stream(tc, r), \A i \in DOMAIN tc : tc[i].kind # "Complete",
           Broken(f) \/ Expected(Append(tc, f), Len(tc) + 1, r)
    PROVE  Stream(Append(tc, f), r)
<1> DEFINE new == Append(tc, f)
<1>1. /\ Len(tc) \in Nat /\ DOMAIN tc = 1 .. Len(tc) /\ DOMAIN new = 1 .. (Len(tc) + 1)
      /\ new[Len(tc) + 1] = f /\ \A i \in 1 .. Len(tc) : new[i] = tc[i]
  BY Appended
<1> SUFFICES ASSUME NEW i \in DOMAIN new, \A j \in DOMAIN new : j <= i => ~Broken(new[j])
             PROVE  Expected(new, i, r)
  BY DEF Stream
<1>2. CASE i = Len(tc) + 1
  BY <1>1, <1>2
<1>3. CASE i \in 1 .. Len(tc)
  <2>1. \A j \in DOMAIN tc : j <= i => ~Broken(tc[j])
    BY <1>1, <1>3
  <2>2. Expected(tc, i, r)
    BY <1>1, <1>3, <2>1 DEF Stream
  <2>3. new[i] = tc[i] /\ tc[i].kind # "Complete"
    BY <1>1, <1>3
  <2> QED  BY <2>2, <2>3 DEF Expected
<1> QED  BY <1>1, <1>2, <1>3

\* The room that is kept while frames are written and given up.
LEMMA RoomStaysKept ==
    ASSUME NEW S, NEW tc \in Seq(S), NEW f \in S, RoomKept(tc),
           \/ Len(tc) < PipeFrames
           \/ f.kind = "torn" /\ tc[Len(tc)].kind # "torn"
    PROVE  RoomKept(Append(tc, f))
<1>1. /\ Len(tc) \in Nat /\ Len(Append(tc, f)) = Len(tc) + 1
      /\ Append(tc, f)[Len(tc) + 1] = f
  BY Appended
<1>2. PipeFrames \in Nat
  BY FramesAssumption
<1> QED  BY <1>1, <1>2 DEF RoomKept

----
(* The invariant implies what the run checks.                              *)

LEMMA NumbersAreTyped ==
    /\ NoCall = 0 /\ 0 \notin Calls /\ 0 \notin Helpers /\ Calls \subseteq Nat /\ Helpers \subseteq Nat
    /\ PipeFrames \in Nat \ {0} /\ FastRows \in Nat /\ QueueCap \in Nat \ {0}
  BY CallsAssumption, HelpersAssumption, FramesAssumption, DuAssumption DEF NoCall

\* Whoever holds the lock, a session is used in one of four phases.
LEMMA HolderFine ==
    ASSUME ProtocolInv
    PROVE  /\ CallFine(Holder)
           /\ lock # NoCall => Holder = call[lock] /\ lock \in Calls /\ call[lock].at \in Holding
           /\ lock = NoCall => Holder = Nobody
           /\ session # 0 => /\ session \in Helpers
                             /\ Holder.at \in {"hello", "starting", "reading", "cancelling"}
<1>1. CallFine(Nobody) /\ Nobody.at = "starting"
  BY DEF CallFine, CallRecords, Nobody, Idle, Results, Holding
<1>2. lock # NoCall => Holder = call[lock] /\ lock \in Calls /\ call[lock].at \in Holding
  BY DEF ProtocolInv, PipesFine, CallsFine, Holder
<1>3. lock = NoCall => Holder = Nobody
  BY DEF Holder
<1>4. session # 0 => session \in Helpers
  BY DEF ProtocolInv, PipesFine
<1>5. lock # NoCall => CallFine(call[lock])
  BY <1>2 DEF ProtocolInv, CallsFine
<1>6. lock # NoCall /\ session # 0 => call[lock].at # "launching"
  BY DEF ProtocolInv, SessionFine
<1> QED  BY <1>1, <1>2, <1>3, <1>4, <1>5, <1>6 DEF Holding

LEMMA RoomIsBounded ==
    ASSUME NEW r, NEW k, NEW th, NEW tc, Phase(r, k, th, tc),
           r.at \in {"hello", "starting", "reading", "cancelling"}
    PROVE  Len(tc) <= PipeFrames + 1
<1>1. PipeFrames \in Nat
  BY FramesAssumption
<1>2. Len(<<>>) = 0 /\ Len(Hello) = 1
  BY DEF Hello
<1>3. CASE r.at = "hello"
  <2>1. tc = <<>> \/ tc = Hello
    BY <1>3 DEF Phase, SaysHello
  <2>2. Len(tc) = 0 \/ Len(tc) = 1
    BY Zenon, <1>2, <2>1
  <2>3. 0 <= PipeFrames + 1 /\ 1 <= PipeFrames + 1
    BY <1>1
  <2> QED  BY Zenon, <2>2, <2>3
<1>4. CASE r.at = "starting"
  BY <1>1, <1>2, <1>4 DEF Phase, Clean
<1>5. CASE r.at \in {"reading", "cancelling"}
  <2>1. tc \in Seq(Frames(r.id)) /\ RoomKept(tc)
    BY <1>5 DEF Phase, Reads, GivesUp, Served
  <2>2. Len(tc) \in Nat
    BY <2>1
  <2> QED  BY <1>1, <2>1, <2>2 DEF RoomKept
<1> QED  BY <1>3, <1>4, <1>5

\* A Start is only in a pipe whose helper reads for one.
LEMMA StartFindsTheLoop ==
    ASSUME NEW r, NEW k, NEW th, NEW tc, Phase(r, k, th, tc), HelperFine(k),
           r.at \in {"hello", "starting", "reading", "cancelling"},
           th # <<>>, Head(th).kind = "Start"
    PROVE  k.reader = "none"
<1>1. Cancels(r) # <<>> /\ Head(Cancels(r)).kind = "Cancel"
  BY DEF Cancels, Frame
<1>2. Waits(k)
  BY <1>1 DEF Phase, SaysHello, Clean, Reads, GivesUp
<1> QED  BY <1>2 DEF Waits, HelperFine, Serving

\* The next frame of a stream is accepted, unless it says that it broke.
LEMMA NextFrame ==
    ASSUME NEW r, NEW k, NEW th, NEW tc, Reads(r, k, th, tc), CallFine(r), tc # <<>>, ~Broken(Head(tc))
    PROVE  /\ Head(tc).id = r.id /\ th = <<>>
           /\ Head(tc).kind \in {"Ready", "Batch", "Complete"}
           /\ Head(tc).kind = "Ready" <=> ~r.ready
           /\ Head(tc).kind = "Complete" => /\ Len(tc) = 1 /\ r.rows = FastRows
                                            /\ Head(tc).rows = FastRows
<1>1. tc \in Seq(Frames(r.id)) /\ Stream(tc, r)
  BY DEF Reads, Served
<1>2. /\ Head(tc) \in Frames(r.id) /\ Head(tc) = tc[1] /\ Len(tc) \in Nat \ {0} /\ DOMAIN tc = 1 .. Len(tc)
  BY <1>1, Taken
<1>3. Expected(tc, 1, r)
  BY <1>1, <1>2 DEF Stream
<1>4. r.ready \in BOOLEAN /\ r.rows \in Nat
  BY DEF CallFine, CallRecords
<1>5. Head(tc).id = r.id /\ Head(tc).kind \in {"Ready", "Batch", "Complete"} /\ Head(tc).rows \in Nat
  BY <1>2 DEF Frames, Broken
<1>6. th = <<>>
  BY DEF Reads
<1>7. Head(tc).kind = "Ready" <=> ~r.ready
  BY <1>2, <1>3 DEF Expected
<1>8. ASSUME Head(tc).kind = "Complete"
      PROVE  Len(tc) = 1 /\ r.rows = FastRows /\ Head(tc).rows = FastRows
  <2>1. r.ready
    BY <1>4, <1>7, <1>8
  <2>2. 1 = Len(tc) /\ tc[1].rows = FastRows /\ tc[1].rows = r.rows + (1 - 1) - 0
    BY <1>2, <1>3, <1>8, <2>1 DEF Expected, RowsBefore
  <2>3. r.rows + (1 - 1) - 0 = r.rows
    BY <1>4
  <2> QED  BY <2>2, <2>3
<1> QED  BY <1>5, <1>6, <1>7, <1>8

LEMMA InvariantIsSafe ==
    ASSUME ScanInv
    PROVE  ProtocolSafe
<1>1. PipesFine /\ CallsFine /\ HelpersFine /\ SessionFine /\ ProtocolInv /\ WorkInv
  BY DEF ScanInv, ProtocolInv
<1>2. TypeOK
  <2>1. \A c \in Calls : call[c].result \in Results
    BY <1>1 DEF CallsFine, CallFine, CallRecords
  <2>2. \A h \in Helpers : Len(toClient[h]) <= PipeFrames + 1
    <3> TAKE h \in Helpers
    <3>1. CASE h # session
      <4>1. Len(toClient[h]) = 0
        BY <1>1, <3>1 DEF PipesFine
      <4> QED  BY <4>1, NumbersAreTyped
    <3>2. CASE h = session
      <4>1. session # 0
        BY <3>2, NumbersAreTyped
      <4>2. Phase(Holder, helper[h], toHelper[h], toClient[h])
        BY <1>1, <3>2, <4>1 DEF SessionFine
      <4> QED  BY <1>1, <4>1, <4>2, HolderFine, RoomIsBounded
    <3> QED  BY <3>1, <3>2
  <2>3. open \subseteq Helpers
    BY <1>1 DEF PipesFine
  <2> QED  BY <1>1, <2>1, <2>2, <2>3 DEF TypeOK, Results, PipesFine, WorkInv
<1>3. SessionReusable
  <2>1. ASSUME session # 0, lock = NoCall
        PROVE  Clean(helper[session], toHelper[session], toClient[session])
    BY <1>1, <2>1, HolderFine DEF SessionFine, Phase, Nobody, Idle
  <2> QED  BY <1>1, <2>1 DEF SessionReusable, PipesFine, Clean, Waits, Gone
<1>4. StartIsForTheLoop
  <2> SUFFICES ASSUME NEW h \in Helpers, toHelper[h] # <<>>, Head(toHelper[h]).kind = "Start"
               PROVE  helper[h].reader = "none"
    BY DEF StartIsForTheLoop
  <2>1. h = session
    BY <1>1 DEF PipesFine
  <2>2. Phase(Holder, helper[h], toHelper[h], toClient[h]) /\ HelperFine(helper[h])
        /\ Holder.at \in {"hello", "starting", "reading", "cancelling"}
    BY <1>1, <2>1, NumbersAreTyped, HolderFine DEF SessionFine, HelpersFine
  <2> QED  BY <2>2, StartFindsTheLoop
<1>5. ResultsAreEarned
  <2>1. \A c \in Calls : call[c].result = "complete" => call[c].rows = FastRows
    BY <1>1 DEF CallsFine, CallFine
  <2>2. ASSUME NEW c \in Calls, lock = c, Reading(c), toClient[session] # <<>>,
               ~Broken(Head(toClient[session]))
        PROVE  Accepts(c, Head(toClient[session]))
    <3>1. lock # NoCall /\ call[c].at = "reading"
      BY <2>2, NumbersAreTyped DEF Reading
    <3>2. session # 0 /\ Holder = call[c] /\ CallFine(call[c])
      BY <1>1, <2>2, <3>1, HolderFine DEF SessionFine, CallsFine
    <3>3. Reads(call[c], helper[session], toHelper[session], toClient[session])
      BY <1>1, <3>1, <3>2 DEF SessionFine, Phase
    <3>4. call[c].ready \in BOOLEAN
      BY <3>2 DEF CallFine, CallRecords
    <3> QED  BY <2>2, <3>2, <3>3, <3>4, NextFrame DEF Accepts
  <2> QED  BY <2>1, <2>2 DEF ResultsAreEarned, Broken
<1> QED  BY <1>2, <1>3, <1>4, <1>5 DEF ProtocolSafe

----
(* What a helper that serves a request may do to the session.              *)

Situation(r, k, th, tc) ==
    /\ CallFine(r) /\ HelperFine(k)
    /\ r.at \in {"hello", "starting", "reading", "cancelling"}
    /\ Phase(r, k, th, tc)

Sent(k, kind, rows) == [kind |-> kind, id |-> k.id, rows |-> rows]

LEMMA Serves ==
    ASSUME NEW r, NEW k, NEW th, NEW tc, Situation(r, k, th, tc), k.at \in Serving
    PROVE  /\ ~Waits(k) /\ k.id = r.id /\ tc \in Seq(Frames(r.id)) /\ RoomKept(tc)
           /\ r.at \in {"reading", "cancelling"}
           /\ r.at = "reading" => /\ r.result = "none" /\ th = <<>>
                                  /\ Stream(tc, r) /\ InStep(k, tc, r)
           /\ r.at = "cancelling" => r.result \in {"cancelled", "timeout"} /\ th \in {<<>>, Cancels(r)}
<1>1. ~Waits(k)
  BY DEF Waits, Serving
<1>2. r.at \in {"reading", "cancelling"}
  BY <1>1 DEF Situation, Phase, SaysHello, Clean, Serving
<1>3. CASE r.at = "reading"
  BY <1>1, <1>3 DEF Situation, Phase, Reads, Served
<1>4. CASE r.at = "cancelling"
  BY <1>1, <1>4 DEF Situation, Phase, GivesUp, Served
<1> QED  BY <1>1, <1>2, <1>3, <1>4

\* The session after a step of such a helper that leaves the other direction alone.
LEMMA ServesOn ==
    ASSUME NEW r, NEW k, NEW th, NEW tc, Situation(r, k, th, tc), k.at \in Serving,
           NEW k2, NEW tc2, HelperFine(k2), Waits(k2) \/ (k2.at \in Serving /\ k2.id = k.id),
           tc2 \in Seq(Frames(r.id)), RoomKept(tc2),
           r.at = "reading" => Stream(tc2, r) /\ (k2.at \in Serving => InStep(k2, tc2, r))
    PROVE  Situation(r, k2, th, tc2)
<1>1. Served(r, k2, th, tc2)
  BY Serves DEF Served
<1>2. CASE r.at = "reading"
  BY <1>1, <1>2, Serves DEF Situation, Phase, Reads
<1>3. CASE r.at = "cancelling"
  BY <1>1, <1>3, Serves DEF Situation, Phase, GivesUp
<1> QED  BY <1>2, <1>3, Serves

\* A frame that the helper sends or leaves torn.
LEMMA SendsOn ==
    ASSUME NEW r, NEW k, NEW th, NEW tc, Situation(r, k, th, tc), k.at \in Serving,
           NEW kind \in {"Ready", "Batch", "Complete", "Failed", "torn"}, NEW rows \in Nat,
           Len(tc) < PipeFrames \/ (kind = "torn" /\ Last(tc).kind # "torn"),
           \/ kind \in {"Failed", "torn"}
           \/ r.at = "reading" => Expected(Append(tc, Sent(k, kind, rows)), Len(tc) + 1, r)
    PROVE  LET tc2 == Append(tc, Sent(k, kind, rows))
           IN /\ tc2 \in Seq(Frames(r.id)) /\ RoomKept(tc2)
              /\ r.at = "reading" => /\ Stream(tc2, r)
                                     /\ kind # "Complete" => \A i \in DOMAIN tc2 : tc2[i].kind # "Complete"
<1> DEFINE f == Sent(k, kind, rows)
           tc2 == Append(tc, f)
<1>1. f \in Frames(r.id) /\ f.kind = kind /\ tc \in Seq(Frames(r.id)) /\ RoomKept(tc)
  BY Serves DEF Sent, Frames
<1>2. Last(tc) = tc[Len(tc)]
  BY DEF Last
<1> HIDE DEF f
<1>3. RoomKept(tc2)
  BY <1>1, <1>2, RoomStaysKept
<1>4. /\ tc2 \in Seq(Frames(r.id)) /\ Len(tc) \in Nat
      /\ DOMAIN tc = 1 .. Len(tc) /\ DOMAIN tc2 = 1 .. (Len(tc) + 1)
      /\ tc2[Len(tc) + 1] = f /\ \A i \in 1 .. Len(tc) : tc2[i] = tc[i]
  BY <1>1, Appended
<1>5. ASSUME r.at = "reading"
      PROVE  Stream(tc2, r)
  <2>1. Stream(tc, r) /\ \A i \in DOMAIN tc : tc[i].kind # "Complete"
    BY <1>5, Serves DEF InStep
  <2>2. Broken(f) \/ Expected(Append(tc, f), Len(tc) + 1, r)
    BY <1>1, <1>5 DEF Broken, f
  <2> QED  BY <1>1, <2>1, <2>2, StreamGoesOn
<1>6. ASSUME r.at = "reading", kind # "Complete"
      PROVE  \A i \in DOMAIN tc2 : tc2[i].kind # "Complete"
  <2>1. \A i \in DOMAIN tc : tc[i].kind # "Complete"
    BY <1>6, Serves DEF InStep
  <2> QED  BY <1>1, <1>4, <1>6, <2>1
<1> QED  BY <1>3, <1>4, <1>5, <1>6 DEF f

\* The helper stops scanning with nothing or a torn frame, or says that it failed.
LEMMA FailsOn ==
    ASSUME NEW r, NEW k, NEW th, NEW tc, Situation(r, k, th, tc), k.at \in Serving,
           NEW k2, HelperFine(k2),
           Waits(k2) \/ (k2.at = "joining" /\ k2.result = "failed" /\ k2.id = k.id),
           NEW tc2,
           \/ tc2 = tc
           \/ /\ ~(Len(tc) < PipeFrames) /\ Last(tc).kind # "torn"
              /\ tc2 = Append(tc, Sent(k, "torn", 0))
           \/ \E n \in Nat : Len(tc) < PipeFrames /\ tc2 = Append(tc, Sent(k, "Failed", n))
    PROVE  Situation(r, k2, th, tc2)
<1>1. /\ tc2 \in Seq(Frames(r.id)) /\ RoomKept(tc2)
      /\ r.at = "reading" => Stream(tc2, r) /\ \A i \in DOMAIN tc2 : tc2[i].kind # "Complete"
  <2>1. CASE tc2 = tc
    BY <2>1, Serves DEF InStep
  <2>2. CASE Last(tc).kind # "torn" /\ tc2 = Append(tc, Sent(k, "torn", 0))
    BY <2>2, SendsOn
  <2>3. CASE \E n \in Nat : Len(tc) < PipeFrames /\ tc2 = Append(tc, Sent(k, "Failed", n))
    BY <2>3, SendsOn
  <2> QED  BY <2>1, <2>2, <2>3
<1>2. k2.at \in Serving /\ r.at = "reading" => InStep(k2, tc2, r)
  BY <1>1 DEF InStep, Waits, Serving
<1>3. Waits(k2) \/ (k2.at \in Serving /\ k2.id = k.id)
  BY DEF Serving
<1> QED  BY <1>1, <1>2, <1>3, ServesOn

LEMMA CountsRows ==
    ASSUME NEW r, CallFine(r), NEW n \in Nat
    PROVE  /\ r.ready \in BOOLEAN /\ r.rows \in Nat
           /\ RowsBefore(n + 1, r) = r.rows + n - (IF r.ready THEN 0 ELSE 1)
  BY DEF CallFine, CallRecords, RowsBefore

\* Ready opens the stream, a batch goes on with it and Complete closes it.
LEMMA OpensScan ==
    ASSUME NEW r, NEW k, NEW th, NEW tc, Situation(r, k, th, tc), k.at = "opening", Len(tc) < PipeFrames
    PROVE  Situation(r, [k EXCEPT !.at = "scanning"], th, Append(tc, Sent(k, "Ready", 0)))
<1> DEFINE k2 == [k EXCEPT !.at = "scanning"]
           f == Sent(k, "Ready", 0)
           tc2 == Append(tc, f)
<1>1. k.at \in Serving
  BY DEF Serving
<1>2. k \in HelperRecords(k.id)
  BY DEF Situation, HelperFine
<1>3. HelperFine(k2) /\ k2.at = "scanning" /\ k2.id = k.id /\ k2.rows = k.rows
  BY <1>2 DEF HelperFine, HelperRecords, Serving
<1>4. f.kind = "Ready" /\ f \in Frames(r.id) /\ tc \in Seq(Frames(r.id))
  BY <1>1, Serves DEF Sent, Frames
<1> HIDE DEF k2, f
<1>5. /\ Len(tc) \in Nat /\ DOMAIN tc2 = 1 .. (Len(tc) + 1) /\ tc2 # <<>> /\ Len(tc2) = Len(tc) + 1
      /\ tc2[Len(tc) + 1] = f
  BY <1>4, Appended
<1>6. ASSUME r.at = "reading"
      PROVE  tc = <<>> /\ ~r.ready /\ r.rows = 0 /\ k.rows = 0 /\ Expected(tc2, Len(tc) + 1, r)
  <2>1. tc = <<>> /\ ~r.ready /\ r.rows = 0 /\ k.rows = 0
    BY <1>1, <1>6, Serves DEF InStep
  <2> QED  BY <1>4, <1>5, <2>1 DEF Expected
<1>7. /\ tc2 \in Seq(Frames(r.id)) /\ RoomKept(tc2)
      /\ r.at = "reading" => Stream(tc2, r) /\ \A i \in DOMAIN tc2 : tc2[i].kind # "Complete"
  BY <1>1, <1>6, SendsOn DEF f
<1>8. ASSUME r.at = "reading"
      PROVE  InStep(k2, tc2, r)
  <2>1. Len(tc) = 0 /\ \A i \in DOMAIN tc2 : tc2[i] = f
    BY <1>5, <1>6, <1>8
  <2>2. RowsBefore(Len(tc2) + 1, r) = 0
    BY <1>5, <1>6, <1>8, <2>1 DEF RowsBefore
  <2> QED  BY <1>3, <1>4, <1>5, <1>6, <1>7, <1>8, <2>1, <2>2 DEF InStep, Broken
<1> QED  BY <1>1, <1>3, <1>7, <1>8, ServesOn DEF Serving, f, k2

LEMMA SendsBatch ==
    ASSUME NEW r, NEW k, NEW th, NEW tc, Situation(r, k, th, tc), k.at = "scanning", Len(tc) < PipeFrames
    PROVE  Situation(r, [k EXCEPT !.rows = @ + 1], th, Append(tc, Sent(k, "Batch", 0)))
<1> DEFINE k2 == [k EXCEPT !.rows = @ + 1]
           f == Sent(k, "Batch", 0)
           tc2 == Append(tc, f)
<1>1. k.at \in Serving
  BY DEF Serving
<1>2. k \in HelperRecords(k.id) /\ k.rows \in Nat
  BY DEF Situation, HelperFine, HelperRecords
<1>3. HelperFine(k2) /\ k2.at = "scanning" /\ k2.id = k.id /\ k2.rows = k.rows + 1
  BY <1>2 DEF HelperFine, HelperRecords, Serving
<1>4. f.kind = "Batch" /\ f \in Frames(r.id) /\ tc \in Seq(Frames(r.id)) /\ CallFine(r)
  BY <1>1, Serves DEF Sent, Frames, Situation
<1> HIDE DEF k2, f
<1>5. /\ Len(tc) \in Nat /\ DOMAIN tc = 1 .. Len(tc) /\ DOMAIN tc2 = 1 .. (Len(tc) + 1)
      /\ tc2 # <<>> /\ Len(tc2) = Len(tc) + 1
      /\ tc2[Len(tc) + 1] = f /\ \A i \in 1 .. Len(tc) : tc2[i] = tc[i]
  BY <1>4, Appended
<1>6. ASSUME r.at = "reading"
      PROVE  /\ \A i \in DOMAIN tc : ~Broken(tc[i])
             /\ r.ready \/ tc # <<>>
             /\ k.rows = RowsBefore(Len(tc) + 1, r)
             /\ Expected(tc2, Len(tc) + 1, r)
  <2>1. /\ \A i \in DOMAIN tc : ~Broken(tc[i])
        /\ r.ready \/ tc # <<>>
        /\ k.rows = RowsBefore(Len(tc) + 1, r)
    BY <1>1, <1>6, Serves DEF InStep
  <2>2. ~(Len(tc) + 1 = 1 /\ ~r.ready)
    BY <1>4, <1>5, <2>1
  <2> QED  BY <1>4, <1>5, <2>1, <2>2 DEF Expected
<1>7. /\ tc2 \in Seq(Frames(r.id)) /\ RoomKept(tc2)
      /\ r.at = "reading" => Stream(tc2, r) /\ \A i \in DOMAIN tc2 : tc2[i].kind # "Complete"
  BY <1>1, <1>6, SendsOn DEF f
<1>8. ASSUME r.at = "reading"
      PROVE  InStep(k2, tc2, r)
  <2>1. \A i \in DOMAIN tc2 : ~Broken(tc2[i])
    BY <1>4, <1>5, <1>6, <1>8 DEF Broken
  <2>2. k2.rows = RowsBefore(Len(tc2) + 1, r)
    <3>1. r.rows \in Nat /\ RowsBefore(Len(tc) + 1, r) = r.rows + Len(tc) - (IF r.ready THEN 0 ELSE 1)
      BY <1>4, <1>5, CountsRows
    <3>2. Len(tc2) \in Nat
      BY <1>5
    <3>3. RowsBefore(Len(tc2) + 1, r) = r.rows + Len(tc2) - (IF r.ready THEN 0 ELSE 1)
      BY <1>4, <3>2, CountsRows
    <3> QED  BY <1>3, <1>5, <1>6, <1>8, <3>1, <3>3
  <2> QED  BY <1>3, <1>5, <1>7, <1>8, <2>1, <2>2 DEF InStep
<1> QED  BY <1>1, <1>3, <1>7, <1>8, ServesOn DEF Serving, f, k2

\* The last batch is out: what the helper will report is Complete.
LEMMA EndsWell ==
    ASSUME NEW r, NEW k, NEW th, NEW tc, Situation(r, k, th, tc), k.at = "scanning", k.rows = FastRows,
           NEW k2, HelperFine(k2), k2.at = "joining", k2.id = k.id, k2.rows = k.rows
    PROVE  Situation(r, k2, th, tc)
<1>1. k.at \in Serving /\ k2.at \in Serving
  BY DEF Serving
<1>2. r.at = "reading" => InStep(k2, tc, r)
  BY <1>1, Serves DEF InStep
<1> QED  BY <1>1, <1>2, Serves, ServesOn

LEMMA ReportsComplete ==
    ASSUME NEW r, NEW k, NEW th, NEW tc, Situation(r, k, th, tc),
           k.at = "joining", k.result = "complete", Len(tc) < PipeFrames,
           NEW k2, HelperFine(k2), Waits(k2)
    PROVE  Situation(r, k2, th, Append(tc, Sent(k, "Complete", k.rows)))
<1> DEFINE f == Sent(k, "Complete", k.rows)
           tc2 == Append(tc, f)
<1>1. k.at \in Serving /\ k2.at \notin Serving
  BY DEF Serving, Waits
<1>2. k.rows \in Nat /\ k.rows = FastRows /\ CallFine(r)
  BY DEF Situation, HelperFine, HelperRecords
<1>3. f.kind = "Complete" /\ f.rows = FastRows /\ f \in Frames(r.id) /\ tc \in Seq(Frames(r.id))
  BY <1>1, <1>2, Serves DEF Sent, Frames
<1> HIDE DEF f
<1>4. /\ Len(tc) \in Nat /\ Len(tc2) = Len(tc) + 1 /\ tc2[Len(tc) + 1] = f
  BY <1>3, Appended
<1>5. ASSUME r.at = "reading"
      PROVE  Expected(tc2, Len(tc) + 1, r)
  <2>1. (r.ready \/ tc # <<>>) /\ k.rows = RowsBefore(Len(tc) + 1, r)
    BY <1>1, <1>5, Serves DEF InStep
  <2>2. ~(Len(tc) + 1 = 1 /\ ~r.ready)
    BY <1>3, <1>4, <2>1
  <2> QED  BY <1>2, <1>3, <1>4, <2>1, <2>2 DEF Expected
<1>6. /\ tc2 \in Seq(Frames(r.id)) /\ RoomKept(tc2)
      /\ r.at = "reading" => Stream(tc2, r)
  BY <1>1, <1>2, <1>5, SendsOn DEF f
<1> QED  BY <1>1, <1>6, ServesOn DEF f

----
(* The steps of a helper that is not scanning, and of its reader.          *)

LEMMA EmptyStreams ==
    ASSUME NEW r
    PROVE  <<>> \in Seq(Frames(r.id)) /\ RoomKept(<<>>) /\ Stream(<<>>, r)
<1>1. <<>> \in Seq(Frames(r.id)) /\ Len(<<>>) = 0 /\ DOMAIN <<>> = {}
  OBVIOUS
<1>2. PipeFrames \in Nat \ {0}
  BY FramesAssumption
<1> QED  BY <1>1, <1>2 DEF RoomKept, Stream

LEMMA NewHelpersAreFine ==
    /\ HelperFine(GoneHelper) /\ GoneHelper.at = "gone" /\ HelperFine(NewHelper)
    /\ \A at \in {"absent", "starting", "awaiting", "gone"} :
          HelperFine([NewHelper EXCEPT !.at = at]) /\ [NewHelper EXCEPT !.at = at].at = at
    /\ [NewHelper EXCEPT !.at = "gone"] = GoneHelper
  BY DEF HelperFine, HelperRecords, GoneHelper, NewHelper, Serving

LEMMA GreetsOnce ==
    ASSUME NEW r, NEW k, NEW th, NEW tc, Situation(r, k, th, tc), k.at = "starting",
           NEW k2, HelperFine(k2), k2.at = "awaiting"
    PROVE  Situation(r, k2, th, Append(tc, Frame("Hello", 0)))
<1>1. r.at = "hello"
  BY DEF Situation, Phase, Clean, Waits, Reads, GivesUp, Served, Serving
<1>2. th = <<>> /\ tc = <<>>
  BY <1>1 DEF Situation, Phase, SaysHello, Waits
<1>3. Append(<<>>, Frame("Hello", 0)) = Hello
  BY DEF Hello
<1>4. SaysHello(k2, th, Append(tc, Frame("Hello", 0)))
  BY <1>2, <1>3 DEF SaysHello, Waits
<1> QED  BY <1>1, <1>4 DEF Situation, Phase

LEMMA MayDie ==
    ASSUME NEW r, NEW k, NEW th, NEW tc, Situation(r, k, th, tc)
    PROVE  Situation(r, GoneHelper, th, tc)
<1>1. Waits(GoneHelper) /\ GoneHelper.at \notin Serving
  BY NewHelpersAreFine DEF Waits, Serving
<1>2. CASE r.at = "hello"
  BY <1>1, <1>2, NewHelpersAreFine DEF Situation, Phase, SaysHello
<1>3. CASE r.at = "starting"
  BY <1>1, <1>3, NewHelpersAreFine DEF Situation, Phase, Clean
<1>4. CASE r.at = "reading"
  BY <1>1, <1>4, NewHelpersAreFine DEF Situation, Phase, Reads, Served
<1>5. CASE r.at = "cancelling"
  BY <1>1, <1>5, NewHelpersAreFine DEF Situation, Phase, GivesUp, Served
<1> QED  BY <1>2, <1>3, <1>4, <1>5 DEF Situation

\* What is in the pipe to the helper.
LEMMA Requests ==
    ASSUME NEW r
    PROVE  /\ Starts(r) # <<>> /\ Head(Starts(r)) = Frame("Start", r.id) /\ Tail(Starts(r)) = <<>>
           /\ Cancels(r) # <<>> /\ Head(Cancels(r)) = Frame("Cancel", r.id) /\ Tail(Cancels(r)) = <<>>
           /\ StartsAndCancels(r) # <<>> /\ Head(StartsAndCancels(r)) = Frame("Start", r.id)
           /\ Tail(StartsAndCancels(r)) = Cancels(r)
           /\ Append(<<>>, Frame("Start", r.id)) = Starts(r)
           /\ Append(<<>>, Frame("Cancel", r.id)) = Cancels(r)
           /\ Append(Starts(r), Frame("Cancel", r.id)) = StartsAndCancels(r)
<1>1. ASSUME NEW a, NEW b
      PROVE  /\ <<a>> # <<>> /\ Head(<<a>>) = a /\ Append(<<>>, a) = <<a>>
             /\ <<a, b>> # <<>> /\ Head(<<a, b>>) = a
  OBVIOUS
<1>2. ASSUME NEW a, NEW b
      PROVE  Append(<<a>>, b) = <<a, b>>
  <2>1. <<a>> \in Seq({a, b}) /\ Len(<<a>>) = 1 /\ <<a>>[1] = a /\ b \in {a, b}
    OBVIOUS
  <2>2. /\ Append(<<a>>, b) \in Seq({a, b}) /\ Len(Append(<<a>>, b)) = 2
        /\ Append(<<a>>, b)[1] = a /\ Append(<<a>>, b)[2] = b
    BY <2>1, Appended
  <2>3. <<a, b>> \in Seq({a, b}) /\ Len(<<a, b>>) = 2 /\ <<a, b>>[1] = a /\ <<a, b>>[2] = b
    OBVIOUS
  <2>4. \A s \in Seq({a, b}), t \in Seq({a, b}) :
           Len(s) = 2 /\ Len(t) = 2 /\ s[1] = t[1] /\ s[2] = t[2] => s = t
    <3> TAKE s \in Seq({a, b}), t \in Seq({a, b})
    <3> SUFFICES ASSUME Len(s) = 2, Len(t) = 2, s[1] = t[1], s[2] = t[2]
                 PROVE  s = t
      OBVIOUS
    <3>1. \A i \in 1 .. Len(s) : s[i] = t[i]
      OBVIOUS
    <3> QED  BY <3>1
  <2> QED  BY <2>2, <2>3, <2>4
<1>3. ASSUME NEW a
      PROVE  Tail(<<a>>) = <<>>
  <2>1. <<a>> \in Seq({a}) /\ Len(<<a>>) = 1
    OBVIOUS
  <2> QED  BY <2>1, TakenLast
<1>4. ASSUME NEW a, NEW b
      PROVE  Tail(<<a, b>>) = <<b>>
  <2>1. <<a, b>> \in Seq({a, b}) /\ Len(<<a, b>>) = 2 /\ <<a, b>>[2] = b
    OBVIOUS
  <2>2. /\ Tail(<<a, b>>) \in Seq({a, b}) /\ Len(Tail(<<a, b>>)) = 1
        /\ Tail(<<a, b>>)[1] = b
    BY <2>1
  <2>3. <<b>> \in Seq({a, b}) /\ Len(<<b>>) = 1 /\ <<b>>[1] = b
    OBVIOUS
  <2> QED  BY <2>2, <2>3
<1> QED  BY <1>1, <1>2, <1>3, <1>4 DEF Starts, Cancels, StartsAndCancels

LEMMA TakesRequest ==
    ASSUME NEW r, NEW k, NEW th, NEW tc, Situation(r, k, th, tc), k.at = "awaiting", th # <<>>
    PROVE  /\ Head(th).kind = "Start" =>
                 Situation(r, [NewHelper EXCEPT !.at = "opening", !.id = Head(th).id,
                                                !.reader = "spawned"], Tail(th), tc)
           /\ Head(th).kind # "Start" => Situation(r, GoneHelper, Tail(th), tc)
<1> DEFINE k2 == [NewHelper EXCEPT !.at = "opening", !.id = r.id, !.reader = "spawned"]
<1>1. /\ HelperFine(k2) /\ k2.at = "opening" /\ k2.id = r.id /\ k2.rows = 0 /\ ~Waits(k2)
      /\ k2.at \in Serving
  BY DEF HelperFine, HelperRecords, NewHelper, Serving, Waits
<1> HIDE DEF k2
<1>2. HelperFine(GoneHelper) /\ Waits(GoneHelper) /\ GoneHelper.at \notin Serving
  BY NewHelpersAreFine DEF Waits, Serving
<1>3. Frame("Start", r.id).kind = "Start" /\ Frame("Start", r.id).id = r.id
      /\ Frame("Cancel", r.id).kind = "Cancel"
  BY DEF Frame
<1>4. r.at \in {"reading", "cancelling"} /\ CallFine(r)
  BY DEF Situation, Phase, SaysHello, Clean
<1>5. CASE r.at = "reading"
  <2>1. /\ th = Starts(r) /\ tc = <<>> /\ ~r.ready /\ r.rows = 0 /\ r.result = "none"
    BY <1>5 DEF Situation, Phase, Reads
  <2>2. Head(th) = Frame("Start", r.id) /\ Tail(th) = <<>>
    BY <2>1, Requests
  <2>3. InStep(k2, tc, r)
    BY <1>1, <2>1 DEF InStep
  <2>4. Reads(r, k2, <<>>, tc)
    BY <1>1, <2>1, <2>3, EmptyStreams DEF Reads, Served
  <2>5. Situation(r, k2, <<>>, tc)
    BY <1>1, <1>4, <1>5, <2>4 DEF Situation, Phase
  <2> QED  BY <1>3, <2>2, <2>5 DEF k2
<1>6. CASE r.at = "cancelling"
  <2>1. GivesUp(r, k, th, tc)
    BY <1>6 DEF Situation, Phase
  <2>2. ASSUME NEW x \in {k2, GoneHelper}, NEW rest \in {<<>>, Cancels(r)}
        PROVE  Situation(r, x, rest, tc)
    <3>1. GivesUp(r, x, rest, tc)
      BY <1>1, <1>2, <2>1 DEF GivesUp, Served
    <3> QED  BY <1>1, <1>2, <1>4, <1>6, <3>1 DEF Situation, Phase
  <2>3. /\ Tail(th) \in {<<>>, Cancels(r)}
        /\ Head(th) \in {Frame("Start", r.id), Frame("Cancel", r.id)}
    BY <2>1, Requests DEF GivesUp
  <2> QED  BY <1>3, <2>2, <2>3 DEF k2
<1> QED  BY <1>4, <1>5, <1>6

\* The reader of a helper at work finds nothing but the Cancel of its request.
LEMMA ReaderGoesOn ==
    ASSUME NEW r, NEW k, NEW th, NEW tc, Situation(r, k, th, tc), k.at \in Serving,
           NEW k2, HelperFine(k2), k2.at = k.at, k2.id = k.id, k2.rows = k.rows, k2.result = k.result
    PROVE  /\ Situation(r, k2, th, tc)
           /\ th # <<>> => Situation(r, k2, Tail(th), tc)
<1>1. Situation(r, k2, th, tc)
  <2>1. r.at = "reading" => InStep(k2, tc, r)
    BY Serves DEF InStep
  <2> QED  BY <2>1, Serves, ServesOn
<1>2. ASSUME th # <<>>
      PROVE  Situation(r, k2, <<>>, tc) /\ Tail(th) = <<>>
  <2>1. r.at = "cancelling" /\ th = Cancels(r) /\ ~Waits(k2)
    BY <1>2, Serves DEF Waits
  <2> QED  BY <1>1, <2>1, Requests DEF Situation, Phase, GivesUp, Served
<1> QED  BY <1>1, <1>2

----
(* The steps of a helper.                                                  *)

LEMMA HelperFound ==
    ASSUME ProtocolInv, NEW h \in Helpers
    PROVE  /\ HelperFine(helper[h])
           /\ helper = [helper EXCEPT ![h] = helper[h]]
           /\ toHelper = [toHelper EXCEPT ![h] = toHelper[h]]
           /\ toClient = [toClient EXCEPT ![h] = toClient[h]]
           /\ h \in open <=> h = session
           /\ h # session => toHelper[h] = <<>> /\ toClient[h] = <<>>
           /\ h = session => Situation(Holder, helper[h], toHelper[h], toClient[h])
<1>1. h # 0
  BY NumbersAreTyped
<1>2. HelperFine(helper[h])
  BY DEF ProtocolInv, HelpersFine
<1>3. h = session => Situation(Holder, helper[h], toHelper[h], toClient[h])
  BY <1>1, <1>2, HolderFine DEF ProtocolInv, SessionFine, Situation
<1> QED  BY <1>1, <1>2, <1>3 DEF ProtocolInv, PipesFine

LEMMA HelperMoves ==
    ASSUME ProtocolInv, NEW h \in Helpers, NEW k, NEW th, NEW tc,
           helper' = [helper EXCEPT ![h] = k],
           toHelper' = [toHelper EXCEPT ![h] = th],
           toClient' = [toClient EXCEPT ![h] = tc],
           UNCHANGED <<call, lock, session, open>>,
           HelperFine(k),
           h = session => Situation(Holder, k, th, tc),
           h # session => th = <<>> /\ tc = <<>>
    PROVE  ProtocolInv'
<1>1. PipesFine'
  BY DEF ProtocolInv, PipesFine
<1>2. CallsFine'
  BY DEF ProtocolInv, CallsFine
<1>3. HelpersFine'
  BY DEF ProtocolInv, PipesFine, HelpersFine
<1>4. SessionFine'
  <2>1. Holder' = Holder
    BY DEF Holder, Nobody, Idle
  <2>2. lock # NoCall => (call[lock].at = "launching" <=> session = 0)
    BY DEF ProtocolInv, SessionFine
  <2>3. ASSUME session # 0
        PROVE  Phase(Holder', helper'[session], toHelper'[session], toClient'[session])
    <3>1. session \in Helpers
      BY <2>3 DEF ProtocolInv, PipesFine
    <3>2. CASE session = h
      BY <2>1, <3>2 DEF ProtocolInv, PipesFine, Situation
    <3>3. CASE session # h
      BY <2>1, <2>3, <3>1, <3>3 DEF ProtocolInv, PipesFine, SessionFine
    <3> QED  BY <3>2, <3>3
  <2> QED  BY <2>2, <2>3 DEF SessionFine
<1> QED  BY <1>1, <1>2, <1>3, <1>4 DEF ProtocolInv

\* A step of the scan of a helper, which leaves what it reads alone.
LEMMA ScanMoves ==
    ASSUME ProtocolInv, NEW h \in Helpers, ScanStep(h), NEW k, NEW tc,
           helper' = [helper EXCEPT ![h] = k], toClient' = [toClient EXCEPT ![h] = tc],
           HelperFine(k),
           h = session => Situation(Holder, k, toHelper[h], tc),
           h # session => tc = <<>>
    PROVE  ProtocolInv'
<1>1. toHelper' = [toHelper EXCEPT ![h] = toHelper[h]] /\ UNCHANGED <<call, lock, session, open>>
  BY HelperFound DEF ScanStep, HelperOnly
<1>2. h # session => toHelper[h] = <<>>
  BY HelperFound
<1> QED  BY <1>1, <1>2, HelperMoves

\* A scan that stops, or whose outcome cannot be told, after a write that failed.
LEMMA ScanFails ==
    ASSUME ProtocolInv, NEW h \in Helpers, helper[h].at \in Serving, ScanStep(h),
           UNCHANGED toClient \/ WriteGivenUp(h),
           NEW k, HelperFine(k), helper' = [helper EXCEPT ![h] = k],
           Waits(k) \/ (k.at = "joining" /\ k.result = "failed" /\ k.id = helper[h].id)
    PROVE  ProtocolInv'
<1>1. CASE UNCHANGED toClient
  <2>1. h = session => Situation(Holder, k, toHelper[h], toClient[h])
    BY HelperFound, FailsOn
  <2> QED  BY <1>1, <2>1, ScanMoves, HelperFound
<1>2. CASE /\ h \in open /\ ~HasRoom(h) /\ Last(toClient[h]).kind # "torn"
           /\ Send(h, "torn", 0)
  <2> DEFINE tc == Append(toClient[h], Sent(helper[h], "torn", 0))
  <2>1. toClient' = [toClient EXCEPT ![h] = tc]
    BY <1>2 DEF Send, Sent
  <2>2. h = session
    BY <1>2, HelperFound
  <2>3. Situation(Holder, k, toHelper[h], tc)
    BY <1>2, <2>2, HelperFound, FailsOn DEF HasRoom
  <2> HIDE DEF tc
  <2> QED  BY <2>1, <2>2, <2>3, ScanMoves
<1>3. h \in open \/ UNCHANGED toClient
  BY DEF WriteGivenUp
<1> QED  BY <1>1, <1>2, <1>3 DEF WriteGivenUp

LEMMA StopsFine ==
    ASSUME NEW k, HelperFine(k), k.at \in Serving, NEW result \in {"complete", "failed"},
           result = "complete" => k.rows = FastRows
    PROVE  LET k2 == [k EXCEPT !.at = "joining", !.result = result,
                               !.reader = IF @ = "reading" THEN "done" ELSE @]
           IN /\ HelperFine(k2) /\ k2.at = "joining" /\ k2.result = result
              /\ k2.id = k.id /\ k2.rows = k.rows
<1>1. k \in HelperRecords(k.id)
  BY DEF HelperFine
<1> QED  BY <1>1 DEF HelperFine, HelperRecords, Serving

LEMMA StopsFailed ==
    ASSUME ProtocolInv, NEW h \in Helpers, helper[h].at \in Serving, ScanStep(h),
           UNCHANGED toClient \/ WriteGivenUp(h), Stop(h, "failed")
    PROVE  ProtocolInv'
<1> DEFINE k == [helper[h] EXCEPT !.at = "joining", !.result = "failed",
                                  !.reader = IF @ = "reading" THEN "done" ELSE @]
<1>1. helper' = [helper EXCEPT ![h] = k]
  BY DEF Stop
<1>2. HelperFine(k) /\ k.at = "joining" /\ k.result = "failed" /\ k.id = helper[h].id
  BY HelperFound, StopsFine
<1> HIDE DEF k
<1> QED  BY <1>1, <1>2, ScanFails

LEMMA HelperStartsKeeps ==
    ASSUME ProtocolInv, NEW h \in Helpers, HelperStarts(h)
    PROVE  ProtocolInv'
<1> DEFINE fresh(at) == [NewHelper EXCEPT !.at = at]
<1>1. /\ helper[h].at = "starting"
      /\ toHelper' = [toHelper EXCEPT ![h] = toHelper[h]] /\ UNCHANGED <<call, lock, session, open>>
  BY HelperFound DEF HelperStarts, HelperOnly
<1>2. CASE h \in open
  <2>1. h = session /\ Situation(Holder, helper[h], toHelper[h], toClient[h])
    BY <1>2, HelperFound
  <2>2. HelperFine(fresh("awaiting")) /\ fresh("awaiting").at = "awaiting"
    BY NewHelpersAreFine
  <2>3. /\ helper' = [helper EXCEPT ![h] = fresh("awaiting")]
        /\ toClient' = [toClient EXCEPT ![h] = Append(toClient[h], Frame("Hello", 0))]
    BY <1>2 DEF HelperStarts, Becomes
  <2> HIDE DEF fresh
  <2>4. Situation(Holder, fresh("awaiting"), toHelper[h], Append(toClient[h], Frame("Hello", 0)))
    BY <1>1, <2>1, <2>2, GreetsOnce
  <2> QED  BY <1>1, <2>1, <2>2, <2>3, <2>4, HelperMoves
<1>3. CASE h \notin open
  <2>1. h # session /\ toHelper[h] = <<>> /\ toClient[h] = <<>>
    BY <1>3, HelperFound
  <2>2. HelperFine(fresh("gone"))
    BY NewHelpersAreFine
  <2>3. /\ helper' = [helper EXCEPT ![h] = fresh("gone")]
        /\ toClient' = [toClient EXCEPT ![h] = toClient[h]]
    BY <1>3, HelperFound DEF HelperStarts, Becomes
  <2> HIDE DEF fresh
  <2> QED  BY <1>1, <2>1, <2>2, <2>3, HelperMoves
<1> QED  BY <1>2, <1>3

LEMMA HelperDiesKeeps ==
    ASSUME ProtocolInv, NEW h \in Helpers, HelperDies(h)
    PROVE  ProtocolInv'
<1>1. /\ h = session
      /\ helper' = [helper EXCEPT ![h] = GoneHelper]
      /\ toHelper' = [toHelper EXCEPT ![h] = toHelper[h]]
      /\ toClient' = [toClient EXCEPT ![h] = toClient[h]]
      /\ UNCHANGED <<call, lock, session, open>>
  BY HelperFound, NewHelpersAreFine DEF HelperDies, HelperOnly, Becomes
<1>2. HelperFine(GoneHelper) /\ Situation(Holder, GoneHelper, toHelper[h], toClient[h])
  BY <1>1, HelperFound, MayDie, NewHelpersAreFine
<1> QED  BY <1>1, <1>2, HelperMoves

LEMMA TakeStartKeeps ==
    ASSUME ProtocolInv, NEW h \in Helpers, TakeStart(h)
    PROVE  ProtocolInv'
<1> DEFINE f == Head(toHelper[h])
           k == IF f.kind = "Start"
                THEN [NewHelper EXCEPT !.at = "opening", !.id = f.id, !.reader = "spawned"]
                ELSE GoneHelper
<1>1. /\ helper[h].at = "awaiting"
      /\ toClient' = [toClient EXCEPT ![h] = toClient[h]] /\ UNCHANGED <<call, lock, session, open>>
  BY HelperFound DEF TakeStart, HelperOnly
<1>2. CASE h \in open
  <2>1. h = session /\ Situation(Holder, helper[h], toHelper[h], toClient[h])
    BY <1>2, HelperFound
  <2>2. /\ toHelper[h] # <<>> /\ toHelper' = [toHelper EXCEPT ![h] = Tail(toHelper[h])]
        /\ helper' = [helper EXCEPT ![h] = k]
    BY <1>2 DEF TakeStart
  <2>3. Situation(Holder, k, Tail(toHelper[h]), toClient[h])
    BY <1>1, <2>1, <2>2, TakesRequest
  <2> HIDE DEF k
  <2>4. HelperFine(k)
    BY <2>3 DEF Situation
  <2> QED  BY <1>1, <2>1, <2>2, <2>3, <2>4, HelperMoves
<1>3. CASE h \notin open
  <2>1. h # session /\ toHelper[h] = <<>> /\ toClient[h] = <<>>
    BY <1>3, HelperFound
  <2>2. HelperFine(GoneHelper)
    BY NewHelpersAreFine
  <2>3. /\ helper' = [helper EXCEPT ![h] = GoneHelper]
        /\ toHelper' = [toHelper EXCEPT ![h] = toHelper[h]]
    BY <1>3, HelperFound, NewHelpersAreFine DEF TakeStart, Becomes
  <2> QED  BY <1>1, <2>1, <2>2, <2>3, HelperMoves
<1> QED  BY <1>2, <1>3

LEMMA ReaderFine ==
    ASSUME NEW k, HelperFine(k), k.reader # "none", NEW reader \in {"reading", "done"},
           NEW flag \in BOOLEAN
    PROVE  LET k2 == [k EXCEPT !.reader = reader, !.cancel = flag]
           IN /\ HelperFine(k2) /\ k2.at = k.at /\ k2.id = k.id /\ k2.rows = k.rows
              /\ k2.result = k.result /\ k.at \in Serving
<1>1. k \in HelperRecords(k.id) /\ k.at \in Serving
  BY DEF HelperFine
<1> QED  BY <1>1 DEF HelperFine, HelperRecords

LEMMA ReaderBeginsKeeps ==
    ASSUME ProtocolInv, NEW h \in Helpers, ReaderBegins(h)
    PROVE  ProtocolInv'
<1> DEFINE k == [helper[h] EXCEPT !.reader = "reading", !.cancel = helper[h].cancel]
<1>1. /\ helper[h].reader = "spawned"
      /\ toHelper' = [toHelper EXCEPT ![h] = toHelper[h]]
      /\ toClient' = [toClient EXCEPT ![h] = toClient[h]]
      /\ UNCHANGED <<call, lock, session, open>>
  BY HelperFound DEF ReaderBegins, HelperOnly
<1>2. helper[h] \in HelperRecords(helper[h].id)
  BY HelperFound DEF HelperFine
<1>3. helper[h].cancel \in BOOLEAN /\ k = [helper[h] EXCEPT !.reader = "reading"]
  BY <1>2 DEF HelperRecords
<1>4. helper' = [helper EXCEPT ![h] = k]
  BY <1>3 DEF ReaderBegins
<1>5. /\ HelperFine(k) /\ k.at = helper[h].at /\ k.id = helper[h].id /\ k.rows = helper[h].rows
      /\ k.result = helper[h].result /\ helper[h].at \in Serving
  BY <1>1, <1>3, HelperFound, ReaderFine
<1> HIDE DEF k
<1>6. h = session => Situation(Holder, k, toHelper[h], toClient[h])
  BY <1>5, HelperFound, ReaderGoesOn
<1>7. h # session => toHelper[h] = <<>> /\ toClient[h] = <<>>
  BY HelperFound
<1> QED  BY <1>1, <1>4, <1>5, <1>6, <1>7, HelperMoves

LEMMA ReaderReadsKeeps ==
    ASSUME ProtocolInv, NEW h \in Helpers, ReaderReads(h)
    PROVE  ProtocolInv'
<1> DEFINE stopped == helper[h].at = "joining"
           asked == h \in open /\ Head(toHelper[h]) = Frame("Cancel", helper[h].id)
           flag == helper[h].cancel \/ ~stopped \/ asked
           k == [helper[h] EXCEPT !.reader = "done", !.cancel = flag]
<1>1. /\ helper[h].reader = "reading"
      /\ helper' = [helper EXCEPT ![h] = k]
      /\ toClient' = [toClient EXCEPT ![h] = toClient[h]]
      /\ UNCHANGED <<call, lock, session, open>>
  BY HelperFound DEF ReaderReads, HelperOnly
<1>2. flag \in BOOLEAN
  OBVIOUS
<1> HIDE DEF flag
<1>3. /\ HelperFine(k) /\ k.at = helper[h].at /\ k.id = helper[h].id /\ k.rows = helper[h].rows
      /\ k.result = helper[h].result /\ helper[h].at \in Serving
  BY <1>1, <1>2, HelperFound, ReaderFine
<1> HIDE DEF k
<1>4. CASE h \in open
  <2>1. h = session /\ Situation(Holder, helper[h], toHelper[h], toClient[h])
    BY <1>4, HelperFound
  <2>2. toHelper[h] # <<>> /\ toHelper' = [toHelper EXCEPT ![h] = Tail(toHelper[h])]
    BY <1>4 DEF ReaderReads
  <2>3. Situation(Holder, k, Tail(toHelper[h]), toClient[h])
    BY <1>3, <2>1, <2>2, ReaderGoesOn
  <2> QED  BY <1>1, <1>3, <2>1, <2>2, <2>3, HelperMoves
<1>5. CASE h \notin open
  <2>1. h # session /\ toHelper[h] = <<>> /\ toClient[h] = <<>>
    BY <1>5, HelperFound
  <2>2. toHelper' = [toHelper EXCEPT ![h] = toHelper[h]]
    BY <1>5, HelperFound DEF ReaderReads
  <2> QED  BY <1>1, <1>3, <2>1, <2>2, HelperMoves
<1> QED  BY <1>4, <1>5

LEMMA OpenKeeps ==
    ASSUME ProtocolInv, NEW h \in Helpers, Open(h)
    PROVE  ProtocolInv'
<1>1. helper[h].at = "opening" /\ helper[h].at \in Serving /\ ScanStep(h)
  BY DEF Open, Serving
<1>2. CASE Stop(h, "failed") /\ UNCHANGED toClient
  BY <1>1, <1>2, StopsFailed
<1>3. CASE SendFails(h)
  BY <1>1, <1>3, StopsFailed DEF SendFails
<1>4. CASE /\ h \in open /\ HasRoom(h)
           /\ helper' = [helper EXCEPT ![h].at = "scanning"]
           /\ Send(h, "Ready", 0)
  <2> DEFINE k == [helper[h] EXCEPT !.at = "scanning"]
             tc == Append(toClient[h], Sent(helper[h], "Ready", 0))
  <2>1. h = session /\ Situation(Holder, helper[h], toHelper[h], toClient[h])
    BY <1>4, HelperFound
  <2>2. helper' = [helper EXCEPT ![h] = k] /\ toClient' = [toClient EXCEPT ![h] = tc]
    BY <1>4 DEF Send, Sent
  <2>3. Situation(Holder, k, toHelper[h], tc)
    BY <1>1, <1>4, <2>1, OpensScan DEF HasRoom
  <2> HIDE DEF k, tc
  <2>4. HelperFine(k)
    BY <2>3 DEF Situation
  <2> QED  BY <1>1, <2>1, <2>2, <2>3, <2>4, ScanMoves
<1> QED  BY <1>2, <1>3, <1>4 DEF Open

LEMMA BatchKeeps ==
    ASSUME ProtocolInv, NEW h \in Helpers, Batch(h)
    PROVE  ProtocolInv'
<1>1. helper[h].at = "scanning" /\ helper[h].at \in Serving /\ ScanStep(h)
  BY DEF Batch, Serving
<1>2. CASE SendFails(h)
  BY <1>1, <1>2, StopsFailed DEF SendFails
<1>3. CASE /\ h \in open /\ HasRoom(h)
           /\ Send(h, "Batch", 0)
           /\ helper' = [helper EXCEPT ![h].rows = @ + 1]
  <2> DEFINE k == [helper[h] EXCEPT !.rows = @ + 1]
             tc == Append(toClient[h], Sent(helper[h], "Batch", 0))
  <2>1. h = session /\ Situation(Holder, helper[h], toHelper[h], toClient[h])
    BY <1>3, HelperFound
  <2>2. helper' = [helper EXCEPT ![h] = k] /\ toClient' = [toClient EXCEPT ![h] = tc]
    BY <1>3 DEF Send, Sent
  <2>3. Situation(Holder, k, toHelper[h], tc)
    BY <1>1, <1>3, <2>1, SendsBatch DEF HasRoom
  <2> HIDE DEF k, tc
  <2>4. HelperFine(k)
    BY <2>3 DEF Situation
  <2> QED  BY <1>1, <2>1, <2>2, <2>3, <2>4, ScanMoves
<1> QED  BY <1>2, <1>3 DEF Batch

LEMMA EndScanKeeps ==
    ASSUME ProtocolInv, NEW h \in Helpers, EndScan(h)
    PROVE  ProtocolInv'
<1>1. /\ helper[h].at = "scanning" /\ helper[h].at \in Serving /\ ScanStep(h) /\ UNCHANGED toClient
  BY DEF EndScan, Serving
<1>2. CASE Stop(h, "failed")
  BY <1>1, <1>2, StopsFailed
<1>3. CASE helper[h].rows = FastRows /\ Stop(h, "complete")
  <2> DEFINE k == [helper[h] EXCEPT !.at = "joining", !.result = "complete",
                                    !.reader = IF @ = "reading" THEN "done" ELSE @]
  <2>1. helper' = [helper EXCEPT ![h] = k]
    BY <1>3 DEF Stop
  <2>2. HelperFine(k) /\ k.at = "joining" /\ k.id = helper[h].id /\ k.rows = helper[h].rows
    BY <1>1, <1>3, HelperFound, StopsFine
  <2> HIDE DEF k
  <2>3. h = session => Situation(Holder, k, toHelper[h], toClient[h])
    BY <1>1, <1>3, <2>2, HelperFound, EndsWell
  <2> QED  BY <1>1, <2>1, <2>2, <2>3, ScanMoves, HelperFound
<1> QED  BY <1>2, <1>3 DEF EndScan

LEMMA ReportKeeps ==
    ASSUME ProtocolInv, NEW h \in Helpers, Report(h)
    PROVE  ProtocolInv'
<1> DEFINE fresh(at) == [NewHelper EXCEPT !.at = at]
           complete == helper[h].result = "complete"
<1>1. helper[h].at = "joining" /\ helper[h].at \in Serving /\ ScanStep(h)
  BY DEF Report, Serving
<1>2. /\ HelperFine(fresh("awaiting")) /\ Waits(fresh("awaiting"))
      /\ HelperFine(fresh("gone")) /\ Waits(fresh("gone"))
  BY NewHelpersAreFine DEF Waits
<1>3. helper[h].rows \in Nat
  BY HelperFound DEF HelperFine, HelperRecords
<1> HIDE DEF fresh
<1>4. CASE WriteGivenUp(h) /\ Becomes(h, IF complete THEN "gone" ELSE "awaiting")
  <2>1. CASE complete
    <3>1. helper' = [helper EXCEPT ![h] = fresh("gone")]
      BY <1>4, <2>1 DEF Becomes, fresh
    <3> QED  BY <1>1, <1>2, <1>4, <3>1, ScanFails
  <2>2. CASE ~complete
    <3>1. helper' = [helper EXCEPT ![h] = fresh("awaiting")]
      BY <1>4, <2>2 DEF Becomes, fresh
    <3> QED  BY <1>1, <1>2, <1>4, <3>1, ScanFails
  <2> QED  BY <2>1, <2>2
<1>5. CASE /\ h \in open /\ HasRoom(h) /\ Becomes(h, "awaiting")
           /\ Send(h, IF complete THEN "Complete" ELSE "Failed", helper[h].rows)
  <2>1. h = session /\ Situation(Holder, helper[h], toHelper[h], toClient[h])
    BY <1>5, HelperFound
  <2>2. helper' = [helper EXCEPT ![h] = fresh("awaiting")]
    BY <1>5 DEF Becomes, fresh
  <2>3. CASE complete
    <3> DEFINE tc == Append(toClient[h], Sent(helper[h], "Complete", helper[h].rows))
    <3>1. toClient' = [toClient EXCEPT ![h] = tc]
      BY <1>5, <2>3 DEF Send, Sent
    <3>2. Situation(Holder, fresh("awaiting"), toHelper[h], tc)
      BY <1>1, <1>2, <1>5, <2>1, <2>3, ReportsComplete DEF HasRoom
    <3> HIDE DEF tc
    <3> QED  BY <1>1, <1>2, <2>1, <2>2, <3>1, <3>2, ScanMoves
  <2>4. CASE ~complete
    <3> DEFINE tc == Append(toClient[h], Sent(helper[h], "Failed", helper[h].rows))
    <3>1. toClient' = [toClient EXCEPT ![h] = tc]
      BY <1>5, <2>4 DEF Send, Sent
    <3>2. Situation(Holder, fresh("awaiting"), toHelper[h], tc)
      BY <1>1, <1>2, <1>3, <1>5, <2>1, FailsOn DEF HasRoom
    <3> HIDE DEF tc
    <3> QED  BY <1>1, <1>2, <2>1, <2>2, <3>1, <3>2, ScanMoves
  <2> QED  BY <2>3, <2>4
<1> QED  BY <1>4, <1>5 DEF Report

LEMMA HelperKeeps ==
    ASSUME ProtocolInv, NEW h \in Helpers, HelperRuns(h) \/ HelperDies(h)
    PROVE  ProtocolInv'
  BY HelperStartsKeeps, TakeStartKeeps, ReaderBeginsKeeps, ReaderReadsKeeps, OpenKeeps,
     BatchKeeps, EndScanKeeps, ReportKeeps, HelperDiesKeeps DEF HelperRuns

----
(* The steps of the client.                                                *)

\* A call that does not hold the lock.
LEMMA OthersMove ==
    ASSUME ProtocolInv, NEW c \in Calls, c # lock,
           NEW r, CallFine(r), r.at \notin Holding,
           call' = [call EXCEPT ![c] = r],
           UNCHANGED <<lock, session, helper, open, toHelper, toClient>>
    PROVE  ProtocolInv'
<1>1. PipesFine'
  BY DEF ProtocolInv, PipesFine
<1>2. CallsFine'
  BY DEF ProtocolInv, PipesFine, CallsFine
<1>3. HelpersFine'
  BY DEF ProtocolInv, HelpersFine
<1>4. lock # NoCall => call'[lock] = call[lock]
  BY DEF ProtocolInv, PipesFine
<1>5. Holder' = Holder
  BY <1>4 DEF Holder, Nobody, Idle
<1>6. SessionFine'
  BY <1>4, <1>5 DEF ProtocolInv, SessionFine
<1> QED  BY <1>1, <1>2, <1>3, <1>6 DEF ProtocolInv

\* The call that holds it and goes on with the session.
LEMMA HolderMoves ==
    ASSUME ProtocolInv, NEW c \in Calls, lock = c, session # 0,
           NEW r, NEW th, NEW tc, Situation(r, helper[session], th, tc),
           call' = [call EXCEPT ![c] = r],
           toHelper' = [toHelper EXCEPT ![session] = th],
           toClient' = [toClient EXCEPT ![session] = tc],
           UNCHANGED <<lock, session, helper, open>>
    PROVE  ProtocolInv'
<1>1. session \in Helpers /\ lock # NoCall
  BY NumbersAreTyped DEF ProtocolInv, PipesFine
<1>2. PipesFine'
  BY DEF ProtocolInv, PipesFine
<1>3. call'[c] = r /\ \A x \in Calls : x # c => call'[x] = call[x]
  BY DEF ProtocolInv, PipesFine
<1>4. CallFine(r) /\ r.at \in Holding /\ r.at # "launching"
  BY DEF Situation, Holding
<1>5. CallsFine'
  BY <1>3, <1>4 DEF ProtocolInv, CallsFine
<1>6. HelpersFine'
  BY DEF ProtocolInv, HelpersFine
<1>7. Holder' = r /\ toHelper'[session] = th /\ toClient'[session] = tc
  BY <1>1, <1>3 DEF Holder, ProtocolInv, PipesFine
<1>8. SessionFine'
  BY <1>3, <1>4, <1>7 DEF SessionFine, Situation
<1> QED  BY <1>2, <1>5, <1>6, <1>8 DEF ProtocolInv

LEMMA ReturnedFine ==
    ASSUME NEW c \in Calls, ProtocolInv, NEW result \in Results,
           result = "complete" => call[c].rows = FastRows
    PROVE  LET r == [Idle EXCEPT !.at = "returned", !.result = result, !.rows = call[c].rows]
           IN CallFine(r) /\ r.at \notin Holding
<1>1. call[c].rows \in Nat
  BY DEF ProtocolInv, CallsFine, CallFine, CallRecords
<1> QED  BY <1>1 DEF CallFine, CallRecords, Idle, Results, Holding

\* The call that holds it returns, and leaves no session or a clean one.
LEMMA Releases ==
    ASSUME ProtocolInv, NEW c \in Calls, lock = c,
           NEW result \in Results, Returns(c, result),
           result = "complete" => call[c].rows = FastRows,
           PipesFine', HelpersFine',
           session' # 0 => Clean(helper'[session'], toHelper'[session'], toClient'[session'])
    PROVE  ProtocolInv'
<1> DEFINE r == [Idle EXCEPT !.at = "returned", !.result = result, !.rows = call[c].rows]
<1>1. call' = [call EXCEPT ![c] = r] /\ lock' = NoCall
  BY DEF Returns
<1>2. CallFine(r) /\ r.at \notin Holding
  BY ReturnedFine
<1> HIDE DEF r
<1>3. call'[c] = r /\ \A x \in Calls : x # c => call'[x] = call[x]
  BY <1>1 DEF ProtocolInv, PipesFine
<1>4. CallsFine'
  BY <1>1, <1>2, <1>3, NumbersAreTyped DEF ProtocolInv, CallsFine
<1>5. Holder' = Nobody /\ Nobody.at = "starting"
  BY <1>1 DEF Holder, Nobody, Idle
<1>6. SessionFine'
  BY <1>1, <1>5 DEF SessionFine, Phase
<1> QED  BY <1>4, <1>6 DEF ProtocolInv

\* The call that holds it returns, and the session is dropped.
LEMMA Drops ==
    ASSUME ProtocolInv, NEW c \in Calls, lock = c, session # 0,
           NEW result \in Results \ {"complete"}, Returns(c, result), DropSession
    PROVE  ProtocolInv'
<1>1. session \in Helpers /\ session' = 0
  BY DEF ProtocolInv, PipesFine, DropSession
<1>2. open' = {}
  BY DEF ProtocolInv, PipesFine, DropSession
<1>3. PipesFine'
  <2>1. call' = [x \in Calls |-> call'[x]] /\ lock' = NoCall
    BY DEF Returns, ProtocolInv, PipesFine
  <2>2. helper' = [h \in Helpers |-> helper'[h]]
    BY DEF DropSession, ProtocolInv, PipesFine
  <2>3. /\ toHelper' = [h \in Helpers |-> toHelper'[h]]
        /\ toClient' = [h \in Helpers |-> toClient'[h]]
        /\ \A h \in Helpers : toHelper'[h] = <<>> /\ toClient'[h] = <<>>
    BY DEF DropSession, ProtocolInv, PipesFine
  <2> QED  BY <1>1, <1>2, <2>1, <2>2, <2>3 DEF PipesFine
<1>4. HelpersFine'
  BY NewHelpersAreFine DEF DropSession, ProtocolInv, PipesFine, HelpersFine
<1> QED  BY <1>1, <1>3, <1>4, Releases

LEMMA FailsKeeps ==
    ASSUME ProtocolInv, NEW c \in Calls, call[c].at \in Holding \ {"launching"},
           NEW result \in Results \ {"complete"}, Fails(c, result)
    PROVE  ProtocolInv'
<1>1. lock = c /\ lock # NoCall
  BY NumbersAreTyped DEF ProtocolInv, CallsFine
<1>2. session # 0
  BY <1>1 DEF ProtocolInv, SessionFine
<1> QED  BY <1>1, <1>2, Drops DEF Fails

LEMMA SomeoneHolds ==
    ASSUME ProtocolInv, NEW c \in Calls, call[c].at \in {"hello", "starting", "reading", "cancelling"}
    PROVE  /\ lock = c /\ lock # NoCall /\ session # 0 /\ session \in Helpers
           /\ CallFine(call[c]) /\ call[c] \in CallRecords(call[c].id)
           /\ Situation(call[c], helper[session], toHelper[session], toClient[session])
           /\ toHelper = [toHelper EXCEPT ![session] = toHelper[session]]
           /\ toClient = [toClient EXCEPT ![session] = toClient[session]]
<1>1. lock = c /\ lock # NoCall
  BY NumbersAreTyped DEF ProtocolInv, CallsFine, Holding
<1>2. session # 0 /\ session \in Helpers
  BY <1>1 DEF ProtocolInv, SessionFine, PipesFine
<1>3. Holder = call[c] /\ CallFine(call[c])
  BY <1>1 DEF ProtocolInv, CallsFine, Holder
<1>4. /\ Situation(Holder, helper[session], toHelper[session], toClient[session])
      /\ toHelper = [toHelper EXCEPT ![session] = toHelper[session]]
      /\ toClient = [toClient EXCEPT ![session] = toClient[session]]
  BY <1>2, HelperFound
<1> QED  BY <1>1, <1>2, <1>3, <1>4 DEF CallFine

LEMMA ProbeFailsKeeps ==
    ASSUME ProtocolInv, NEW c \in Calls, ProbeFails(c)
    PROVE  ProtocolInv'
<1> DEFINE r == [call[c] EXCEPT !.at = "returned", !.result = "platform"]
<1>1. call[c] \in CallRecords(call[c].id)
  BY DEF ProtocolInv, CallsFine, CallFine
<1>2. c # lock
  BY DEF ProbeFails, ProtocolInv, CallsFine, Holding
<1>3. CallFine(r) /\ r.at \notin Holding
  BY <1>1 DEF CallFine, CallRecords, Results, Holding
<1>4. /\ call' = [call EXCEPT ![c] = r]
      /\ UNCHANGED <<lock, session, helper, open, toHelper, toClient>>
  BY DEF ProbeFails
<1> HIDE DEF r
<1> QED  BY <1>2, <1>3, <1>4, OthersMove

LEMMA LockKeeps ==
    ASSUME ProtocolInv, NEW c \in Calls, Lock(c)
    PROVE  ProtocolInv'
<1>1. /\ call[c].at = "locking" /\ lock = NoCall /\ c # NoCall
      /\ UNCHANGED <<session, helper, open, toHelper, toClient>>
  BY NumbersAreTyped DEF Lock
<1>2. CallFine(call[c]) /\ call[c] \in CallRecords(call[c].id)
  BY DEF ProtocolInv, CallsFine, CallFine
<1>3. CASE c \in cancelled
  <2> DEFINE r == [Idle EXCEPT !.at = "returned", !.result = "cancelled", !.rows = call[c].rows]
  <2>1. call' = [call EXCEPT ![c] = r] /\ lock' = lock
    BY <1>1, <1>3 DEF Lock, Returns
  <2>2. CallFine(r) /\ r.at \notin Holding
    BY ReturnedFine DEF Results
  <2> HIDE DEF r
  <2> QED  BY <1>1, <2>1, <2>2, OthersMove
<1>4. CASE c \notin cancelled
  <2> DEFINE at == IF session = 0 THEN "launching" ELSE "starting"
             r == [call[c] EXCEPT !.at = at]
  <2>1. call' = [call EXCEPT ![c] = r] /\ lock' = c
    BY <1>4 DEF Lock, Goes
  <2>2. at \in {"launching", "starting"} /\ (at = "launching" <=> session = 0)
    OBVIOUS
  <2> HIDE DEF at
  <2>3. CallFine(r) /\ r.at = at /\ r.at \in Holding
    BY <1>1, <1>2, <2>2 DEF CallFine, CallRecords, Results, Holding
  <2> HIDE DEF r
  <2>4. call'[c] = r /\ \A x \in Calls : x # c => call'[x] = call[x]
    BY <2>1 DEF ProtocolInv, PipesFine
  <2>5. PipesFine'
    BY <1>1, <2>1 DEF ProtocolInv, PipesFine
  <2>6. CallsFine'
    BY <1>1, <2>1, <2>3, <2>4, NumbersAreTyped DEF ProtocolInv, CallsFine
  <2>7. HelpersFine'
    BY <1>1 DEF ProtocolInv, HelpersFine
  <2>8. Holder' = r
    BY <1>1, <2>1, <2>4 DEF Holder
  <2>9. session # 0 => Clean(helper[session], toHelper[session], toClient[session])
    BY <1>1, HolderFine DEF ProtocolInv, SessionFine, Phase, Nobody, Idle
  <2>10. SessionFine'
    BY <1>1, <2>1, <2>2, <2>3, <2>4, <2>8, <2>9 DEF SessionFine, Phase
  <2> QED  BY <2>5, <2>6, <2>7, <2>10 DEF ProtocolInv
<1> QED  BY <1>3, <1>4

LEMMA LaunchKeeps ==
    ASSUME ProtocolInv, NEW c \in Calls, Launch(c)
    PROVE  ProtocolInv'
<1>1. call[c].at = "launching" /\ UNCHANGED <<toHelper, toClient>>
  BY DEF Launch
<1>2. lock = c /\ c # NoCall /\ session = 0 /\ open = {}
  BY <1>1, NumbersAreTyped DEF ProtocolInv, CallsFine, SessionFine, PipesFine, Holding
<1>3. CallFine(call[c]) /\ call[c] \in CallRecords(call[c].id)
  BY DEF ProtocolInv, CallsFine, CallFine
<1>4. CASE Returns(c, "declined") /\ UNCHANGED <<session, helper, open>>
  <2>1. PipesFine'
    BY <1>1, <1>2, <1>4 DEF Returns, ProtocolInv, PipesFine
  <2>2. HelpersFine'
    BY <1>4 DEF ProtocolInv, HelpersFine
  <2>3. "declined" \in Results
    BY DEF Results
  <2> QED  BY <1>2, <1>4, <2>1, <2>2, <2>3, Releases
<1>5. ASSUME NEW h \in Helpers, helper[h].at = "absent",
             helper' = [helper EXCEPT ![h].at = "starting"],
             session' = h, open' = open \cup {h}, Goes(c, "hello"), UNCHANGED lock
      PROVE  ProtocolInv'
  <2> DEFINE r == [call[c] EXCEPT !.at = "hello"]
             k == [helper[h] EXCEPT !.at = "starting"]
  <2>1. call' = [call EXCEPT ![c] = r] /\ helper' = [helper EXCEPT ![h] = k]
    BY <1>5 DEF Goes
  <2>2. CallFine(r) /\ r.at = "hello" /\ r.at \in Holding
    BY <1>1, <1>3 DEF CallFine, CallRecords, Results, Holding
  <2>3. HelperFine(helper[h]) /\ helper[h] \in HelperRecords(helper[h].id)
    BY DEF ProtocolInv, HelpersFine, HelperFine
  <2>4. HelperFine(k) /\ k.at = "starting"
    BY <1>5, <2>3 DEF HelperFine, HelperRecords, Serving
  <2> HIDE DEF r, k
  <2>5. /\ call'[c] = r /\ \A x \in Calls : x # c => call'[x] = call[x]
        /\ helper'[h] = k /\ \A x \in Helpers : x # h => helper'[x] = helper[x]
    BY <2>1 DEF ProtocolInv, PipesFine
  <2>6. toHelper[h] = <<>> /\ toClient[h] = <<>> /\ h # 0
    BY <1>2, NumbersAreTyped DEF ProtocolInv, PipesFine
  <2>7. PipesFine'
    <3>1. /\ call' = [x \in Calls |-> call'[x]] /\ helper' = [x \in Helpers |-> helper'[x]]
      BY <2>1 DEF ProtocolInv, PipesFine
    <3>2. open' = {session'} \ {0} /\ session' \in Helpers
      BY <1>2, <1>5, <2>6
    <3>3. \A x \in Helpers : toHelper'[x] = <<>> /\ toClient'[x] = <<>>
      BY <1>1, <1>2, NumbersAreTyped DEF ProtocolInv, PipesFine
    <3> QED  BY <1>1, <1>5, <3>1, <3>2, <3>3 DEF ProtocolInv, PipesFine
  <2>8. CallsFine'
    BY <1>2, <1>5, <2>2, <2>5 DEF ProtocolInv, CallsFine
  <2>9. HelpersFine'
    BY <2>4, <2>5 DEF ProtocolInv, HelpersFine
  <2>10. Holder' = r
    BY <1>2, <1>5, <2>5 DEF Holder
  <2>11. SaysHello(k, <<>>, <<>>)
    BY <2>4 DEF SaysHello
  <2>12. SessionFine'
    BY <1>1, <1>2, <1>5, <2>2, <2>5, <2>6, <2>10, <2>11 DEF SessionFine, Phase
  <2> QED  BY <2>7, <2>8, <2>9, <2>12 DEF ProtocolInv
<1> QED  BY <1>4, <1>5 DEF Launch

LEMMA ReadHelloKeeps ==
    ASSUME ProtocolInv, NEW c \in Calls, ReadHello(c)
    PROVE  ProtocolInv'
<1> DEFINE r == [call[c] EXCEPT !.at = "starting"]
           tc == Tail(toClient[session])
<1>1. /\ call[c].at = "hello" /\ toClient[session] # <<>>
      /\ call' = [call EXCEPT ![c] = r]
      /\ toClient' = [toClient EXCEPT ![session] = tc]
      /\ UNCHANGED <<lock, session, helper, open, toHelper>>
  BY DEF ReadHello, Goes, TakeFrame
<1>2. /\ lock = c /\ session # 0 /\ CallFine(call[c]) /\ call[c] \in CallRecords(call[c].id)
      /\ Situation(call[c], helper[session], toHelper[session], toClient[session])
      /\ toHelper = [toHelper EXCEPT ![session] = toHelper[session]]
  BY <1>1, SomeoneHolds
<1>3. CallFine(r) /\ r.at = "starting"
  BY <1>1, <1>2 DEF CallFine, CallRecords, Results, Holding
<1>4. /\ toHelper[session] = <<>> /\ toClient[session] = Hello /\ Waits(helper[session])
      /\ HelperFine(helper[session])
  BY <1>1, <1>2 DEF Situation, Phase, SaysHello
<1>5. Tail(Hello) = <<>>
  <2> DEFINE f == Frame("Hello", 0)
  <2>1. <<f>> \in Seq({f}) /\ Len(<<f>>) = 1
    OBVIOUS
  <2> QED  BY <2>1, TakenLast DEF Hello
<1>6. Situation(r, helper[session], toHelper[session], tc)
  BY <1>3, <1>4, <1>5 DEF Situation, Phase, Clean
<1> HIDE DEF r, tc
<1> QED  BY <1>1, <1>2, <1>6, HolderMoves

LEMMA ConnectFailsKeeps ==
    ASSUME ProtocolInv, NEW c \in Calls, ConnectFails(c)
    PROVE  ProtocolInv'
<1> DEFINE result == IF c \in cancelled THEN "cancelled" ELSE "timeout"
<1>1. result \in Results \ {"complete"} /\ call[c].at \in Holding \ {"launching"}
  BY DEF ConnectFails, Results, Holding
<1>2. Fails(c, result)
  BY DEF ConnectFails
<1> HIDE DEF result
<1> QED  BY <1>1, <1>2, FailsKeeps

LEMMA SendStartKeeps ==
    ASSUME ProtocolInv, NEW c \in Calls, SendStart(c)
    PROVE  ProtocolInv'
<1>1. CASE Gone(session)
  <2>1. "platform" \in Results \ {"complete"} /\ call[c].at \in Holding \ {"launching"}
    BY DEF SendStart, Results, Holding
  <2> QED  BY <1>1, <2>1, FailsKeeps DEF SendStart
<1>2. CASE ~Gone(session)
  <2> DEFINE r == [call[c] EXCEPT !.at = "reading"]
             th == Append(toHelper[session], Frame("Start", call[c].id))
  <2>1. /\ call[c].at = "starting"
        /\ call' = [call EXCEPT ![c] = r]
        /\ toHelper' = [toHelper EXCEPT ![session] = th]
        /\ UNCHANGED <<lock, session, helper, open, toClient>>
    BY <1>2 DEF SendStart, Goes
  <2>2. /\ lock = c /\ session # 0 /\ CallFine(call[c]) /\ call[c] \in CallRecords(call[c].id)
        /\ Situation(call[c], helper[session], toHelper[session], toClient[session])
        /\ toClient = [toClient EXCEPT ![session] = toClient[session]]
    BY <2>1, SomeoneHolds
  <2>3. /\ CallFine(r) /\ r.at = "reading" /\ r.id = call[c].id /\ ~r.ready /\ r.rows = 0
        /\ r.result = "none"
    BY <2>1, <2>2 DEF CallFine, CallRecords, Results, Holding
  <2>4. /\ toHelper[session] = <<>> /\ toClient[session] = <<>> /\ Waits(helper[session])
        /\ HelperFine(helper[session])
    BY <2>1, <2>2 DEF Situation, Phase, Clean
  <2>5. th = Starts(r)
    BY <2>3, <2>4, Requests
  <2>6. helper[session].at \notin Serving
    BY <2>4 DEF Waits, Serving
  <2> HIDE DEF r, th
  <2>7. Reads(r, helper[session], th, toClient[session])
    BY <2>3, <2>4, <2>5, <2>6, EmptyStreams DEF Reads, Served
  <2>8. Situation(r, helper[session], th, toClient[session])
    BY <2>3, <2>4, <2>7 DEF Situation, Phase
  <2> QED  BY <2>1, <2>2, <2>8, HolderMoves
<1> QED  BY <1>1, <1>2

LEMMA GraceEndsKeeps ==
    ASSUME ProtocolInv, NEW c \in Calls, GraceEnds(c)
    PROVE  ProtocolInv'
<1>1. call[c].at = "cancelling" /\ call[c].at \in Holding \ {"launching"} /\ Fails(c, call[c].result)
  BY DEF GraceEnds, Holding
<1>2. call[c].result \in {"cancelled", "timeout"}
  BY <1>1, SomeoneHolds DEF Situation, Phase, GivesUp
<1>3. call[c].result \in Results \ {"complete"}
  BY <1>2 DEF Results
<1> QED  BY <1>1, <1>3, FailsKeeps

LEMMA ReadFailsKeeps ==
    ASSUME ProtocolInv, NEW c \in Calls, ReadFails(c)
    PROVE  ProtocolInv'
<1> DEFINE result == IF Gone(session) THEN "platform" ELSE "timeout"
<1>1. result \in Results \ {"complete"} /\ call[c].at \in Holding \ {"launching"}
  BY DEF ReadFails, Reading, Results, Holding
<1>2. Fails(c, result)
  BY DEF ReadFails
<1> HIDE DEF result
<1> QED  BY <1>1, <1>2, FailsKeeps

LEMMA StopHelperKeeps ==
    ASSUME ProtocolInv, NEW c \in Calls, StopHelper(c)
    PROVE  ProtocolInv'
<1> DEFINE cancel == Frame("Cancel", call[c].id)
           th == IF Gone(session) THEN toHelper[session] ELSE Append(toHelper[session], cancel)
<1>1. /\ call[c].at = "reading"
      /\ toHelper' = [toHelper EXCEPT ![session] = th]
      /\ UNCHANGED <<lock, session, helper, open, toClient>>
  BY DEF StopHelper, Reading
<1>2. PICK result \in {"cancelled", "timeout"} :
          call' = [call EXCEPT ![c] = [call[c] EXCEPT !.result = result, !.at = "cancelling"]]
  BY DEF StopHelper
<1> DEFINE r == [call[c] EXCEPT !.result = result, !.at = "cancelling"]
<1>3. /\ lock = c /\ session # 0 /\ CallFine(call[c]) /\ call[c] \in CallRecords(call[c].id)
      /\ Situation(call[c], helper[session], toHelper[session], toClient[session])
      /\ toClient = [toClient EXCEPT ![session] = toClient[session]]
  BY <1>1, SomeoneHolds
<1>4. CallFine(r) /\ r.at = "cancelling" /\ r.id = call[c].id /\ r.result \in {"cancelled", "timeout"}
  BY <1>2, <1>3 DEF CallFine, CallRecords, Results, Holding
<1>5. /\ Reads(call[c], helper[session], toHelper[session], toClient[session])
      /\ HelperFine(helper[session])
  BY <1>1, <1>3 DEF Situation, Phase
<1>6. \/ th \in {<<>>, Cancels(r)}
      \/ th \in {Starts(r), StartsAndCancels(r)} /\ Waits(helper[session])
  <2>1. Starts(r) = Starts(call[c]) /\ cancel = Frame("Cancel", r.id)
    BY <1>4 DEF Starts
  <2> HIDE DEF r, cancel
  <2>2. CASE toHelper[session] = <<>>
    BY <2>1, <2>2, Requests
  <2>3. CASE toHelper[session] = Starts(call[c]) /\ Waits(helper[session])
    BY <2>1, <2>3, Requests
  <2> QED  BY <1>5, <2>2, <2>3 DEF Reads
<1> HIDE DEF th, r
<1>7. GivesUp(r, helper[session], th, toClient[session])
  BY <1>4, <1>5, <1>6 DEF GivesUp, Reads, Served
<1>8. Situation(r, helper[session], th, toClient[session])
  BY <1>4, <1>5, <1>7 DEF Situation, Phase
<1>9. call' = [call EXCEPT ![c] = r]
  BY <1>2 DEF r
<1> QED  BY <1>1, <1>3, <1>8, <1>9, HolderMoves

\* What is left of a stream, for the call that has read its head.
LEMMA StreamIsRead ==
    ASSUME NEW r, NEW k, NEW th, NEW tc, Reads(r, k, th, tc), CallFine(r), HelperFine(k), tc # <<>>,
           Head(tc).kind = IF r.ready THEN "Batch" ELSE "Ready",
           NEW r2, CallFine(r2), r2.at = "reading", r2.id = r.id, r2.result = r.result, r2.ready,
           r2.rows = IF r.ready THEN r.rows + 1 ELSE r.rows
    PROVE  Situation(r2, k, th, Tail(tc))
<1> DEFINE rest == Tail(tc)
<1>1. tc \in Seq(Frames(r.id)) /\ RoomKept(tc) /\ Stream(tc, r) /\ th = <<>> /\ r.result = "none"
  BY DEF Reads, Served
<1>2. /\ rest \in Seq(Frames(r.id)) /\ Len(tc) \in Nat \ {0} /\ Len(rest) = Len(tc) - 1
      /\ DOMAIN tc = 1 .. Len(tc) /\ DOMAIN rest = 1 .. (Len(tc) - 1)
      /\ Head(tc) = tc[1] /\ \A i \in 1 .. (Len(tc) - 1) : rest[i] = tc[i + 1]
  BY <1>1, Taken
<1> HIDE DEF rest
<1>3. ~Broken(tc[1])
  BY <1>2 DEF Broken
<1>4. \A n \in Nat : RowsBefore(n + 1, r) = r.rows + n - (IF r.ready THEN 0 ELSE 1)
  BY CountsRows
<1>5. r.rows \in Nat /\ r.ready \in BOOLEAN /\ r2.rows \in Nat
  BY CountsRows DEF CallFine, CallRecords
<1>6. \A i \in Nat \ {0} : RowsBefore(i + 1, r) = RowsBefore(i, r2)
  BY <1>4, <1>5 DEF RowsBefore
<1>7. Stream(rest, r2)
  <2> SUFFICES ASSUME NEW i \in DOMAIN rest, \A j \in DOMAIN rest : j <= i => ~Broken(rest[j])
               PROVE  Expected(rest, i, r2)
    BY DEF Stream
  <2>1. i \in Nat \ {0} /\ i + 1 \in DOMAIN tc /\ rest[i] = tc[i + 1]
    BY <1>2
  <2>2. \A j \in DOMAIN tc : j <= i + 1 => ~Broken(tc[j])
    <3> TAKE j \in DOMAIN tc
    <3> HAVE j <= i + 1
    <3>1. CASE j = 1
      BY <1>3, <3>1
    <3>2. CASE j # 1
      <4>1. j - 1 \in DOMAIN rest /\ j - 1 <= i /\ rest[j - 1] = tc[j]
        BY <1>2, <2>1, <3>2
      <4> QED  BY <4>1
    <3> QED  BY <3>1, <3>2
  <2>3. Expected(tc, i + 1, r)
    BY <1>1, <2>1, <2>2 DEF Stream
  <2>4. RowsBefore(i + 1, r) = RowsBefore(i, r2)
    BY <1>6, <2>1
  <2> QED  BY <1>2, <2>1, <2>3, <2>4 DEF Expected
<1>8. RoomKept(rest)
  <2>1. PipeFrames \in Nat \ {0}
    BY FramesAssumption
  <2> QED  BY <1>1, <1>2, <2>1 DEF RoomKept
<1>9. Waits(k) \/ (k.at \in Serving /\ k.id = r2.id)
  BY DEF Reads, Served
<1>10. ASSUME k.at \in Serving
       PROVE  InStep(k, rest, r2)
  <2>1. InStep(k, tc, r)
    BY <1>10 DEF Reads
  <2>2. k.at # "opening"
    BY <2>1 DEF InStep
  <2>3. \A i \in DOMAIN rest : rest[i].kind # "Complete"
    <3>1. \A i \in DOMAIN tc : tc[i].kind # "Complete"
      BY <2>1 DEF InStep
    <3>2. \A i \in DOMAIN rest : i + 1 \in DOMAIN tc /\ rest[i] = tc[i + 1]
      BY <1>2
    <3> QED  BY <3>1, <3>2
  <2>4. ASSUME k.at = "scanning" \/ (k.at = "joining" /\ k.result = "complete")
        PROVE  (\A i \in DOMAIN rest : ~Broken(rest[i])) /\ k.rows = RowsBefore(Len(rest) + 1, r2)
    <3>1. (\A i \in DOMAIN tc : ~Broken(tc[i])) /\ k.rows = RowsBefore(Len(tc) + 1, r)
      BY <2>1, <2>4 DEF InStep
    <3>2. \A i \in DOMAIN rest : ~Broken(rest[i])
      <4>1. \A i \in DOMAIN rest : i + 1 \in DOMAIN tc /\ rest[i] = tc[i + 1]
        BY <1>2
      <4> QED  BY <3>1, <4>1
    <3>3. RowsBefore(Len(tc) + 1, r) = RowsBefore(Len(tc), r2) /\ Len(rest) + 1 = Len(tc)
      BY <1>2, <1>6
    <3> QED  BY <3>1, <3>2, <3>3
  <2> QED  BY <2>2, <2>3, <2>4 DEF InStep
<1>11. Reads(r2, k, th, rest)
  BY <1>1, <1>2, <1>7, <1>8, <1>9, <1>10 DEF Reads, Served
<1> QED  BY <1>11 DEF Situation, Phase, rest

LEMMA ReadEventKeeps ==
    ASSUME ProtocolInv, NEW c \in Calls, ReadEvent(c)
    PROVE  ProtocolInv'
<1> DEFINE f == Head(toClient[session])
           th == toHelper[session]
           k == helper[session]
<1>1. call[c].at = "reading" /\ toClient[session] # <<>>
  BY DEF ReadEvent, Reading
<1>2. /\ lock = c /\ lock # NoCall /\ session # 0 /\ session \in Helpers
      /\ CallFine(call[c]) /\ call[c] \in CallRecords(call[c].id)
      /\ Situation(call[c], k, th, toClient[session])
      /\ toHelper = [toHelper EXCEPT ![session] = th]
  BY <1>1, SomeoneHolds
<1>3. Reads(call[c], k, th, toClient[session]) /\ HelperFine(k)
  BY <1>1, <1>2 DEF Situation, Phase
<1>4. CASE ~Accepts(c, f)
  <2> DEFINE result == IF f.kind = "Failed" /\ f.id = call[c].id THEN "failed" ELSE "protocol"
  <2>1. result \in Results \ {"complete"} /\ Returns(c, result) /\ DropSession
    BY <1>4 DEF ReadEvent, Results
  <2> HIDE DEF result
  <2> QED  BY <1>2, <2>1, Drops
<1>5. CASE Accepts(c, f)
  <2>1. f.kind \in {"Ready", "Batch", "Complete"} /\ ~Broken(f)
    BY <1>5 DEF Accepts, Broken
  <2>2. /\ th = <<>> /\ (f.kind = "Ready" <=> ~call[c].ready)
        /\ f.kind = "Complete" => Len(toClient[session]) = 1 /\ call[c].rows = FastRows
    BY <1>1, <1>2, <1>3, <2>1, NextFrame
  <2>3. toClient[session] \in Seq(Frames(call[c].id))
    BY <1>3 DEF Reads, Served
  <2>4. CASE f.kind = "Complete"
    <3>1. /\ Returns(c, "complete") /\ TakeFrame(session)
          /\ UNCHANGED <<session, helper, open, toHelper>>
      BY <1>5, <2>4 DEF ReadEvent
    <3>2. Tail(toClient[session]) = <<>>
      <4>1. Len(toClient[session]) = 1
        BY <2>2, <2>4
      <4> QED  BY <2>3, <4>1, TakenLast
    <3>3. toClient'[session] = <<>> /\ \A h \in Helpers : h # session => toClient'[h] = toClient[h]
      BY <1>2, <3>1, <3>2 DEF TakeFrame, ProtocolInv, PipesFine
    <3>4. Waits(k)
      <4>1. toClient[session][1] = f /\ 1 \in DOMAIN toClient[session]
        BY <1>1, <2>3, Taken
      <4>2. k.at \notin Serving
        BY <1>3, <2>4, <4>1 DEF Reads, InStep
      <4> QED  BY <1>3, <4>2 DEF Reads, Served
    <3>5. PipesFine'
      BY <3>1, <3>3 DEF Returns, TakeFrame, ProtocolInv, PipesFine
    <3>6. HelpersFine'
      BY <3>1 DEF ProtocolInv, HelpersFine
    <3>7. Clean(k, th, toClient'[session])
      BY <2>2, <3>3, <3>4 DEF Clean
    <3>8. "complete" \in Results
      BY DEF Results
    <3> QED  BY <1>2, <2>2, <2>4, <3>1, <3>5, <3>6, <3>7, <3>8, Releases
  <2>5. CASE f.kind # "Complete"
    <3> DEFINE rows == IF f.kind = "Batch" THEN call[c].rows + 1 ELSE call[c].rows
               batch == f.kind = "Batch"
               r == [call[c] EXCEPT !.ready = TRUE, !.batch = batch, !.rows = rows]
               tc == Tail(toClient[session])
    <3>1. /\ call' = [call EXCEPT ![c] = r]
          /\ toClient' = [toClient EXCEPT ![session] = tc]
          /\ UNCHANGED <<lock, session, helper, open, toHelper>>
      BY <1>5, <2>5 DEF ReadEvent, TakeFrame
    <3>2. call[c].rows \in Nat /\ call[c].ready \in BOOLEAN /\ call[c].result = "none"
      BY <1>2, <1>3 DEF CallRecords, Reads
    <3>3. rows \in Nat /\ batch \in BOOLEAN
      BY <3>2
    <3>4. rows = (IF call[c].ready THEN call[c].rows + 1 ELSE call[c].rows)
          /\ f.kind = IF call[c].ready THEN "Batch" ELSE "Ready"
      BY <2>1, <2>2, <2>5, <3>2
    <3> HIDE DEF rows, batch
    <3>5. /\ r \in CallRecords(r.id) /\ r.at = "reading" /\ r.id = call[c].id /\ r.ready
          /\ r.rows = rows /\ r.result = call[c].result
      BY <1>1, <1>2, <3>3 DEF CallRecords
    <3> HIDE DEF r
    <3>6. CallFine(r)
      BY <3>2, <3>5 DEF CallFine
    <3>7. Situation(r, k, th, tc)
      BY <1>1, <1>2, <1>3, <3>4, <3>5, <3>6, StreamIsRead
    <3> HIDE DEF tc
    <3> QED  BY <1>2, <3>1, <3>7, HolderMoves
  <2> QED  BY <2>4, <2>5
<1> QED  BY <1>4, <1>5

LEMMA ClientKeeps ==
    ASSUME ProtocolInv, NEW c \in Calls, Client(c)
    PROVE  ProtocolInv'
  BY ProbeFailsKeeps, LockKeeps, LaunchKeeps, ReadHelloKeeps, ConnectFailsKeeps, SendStartKeeps,
     ReadEventKeeps, StopHelperKeeps, GraceEndsKeeps, ReadFailsKeeps DEF Client

----
(* The steps of the views and the workers.                                 *)

LEMMA ProtocolUntouched ==
    ASSUME ProtocolInv, UNCHANGED <<call, lock, session, helper, open, toHelper, toClient>>
    PROVE  ProtocolInv'
<1>1. Holder' = Holder
  BY DEF Holder, Nobody, Idle
<1>2. PipesFine' /\ CallsFine' /\ HelpersFine'
  BY DEF ProtocolInv, PipesFine, CallsFine, HelpersFine
<1>3. SessionFine'
  BY <1>1 DEF ProtocolInv, SessionFine
<1> QED  BY <1>2, <1>3 DEF ProtocolInv

LEMMA StartScanKeeps ==
    ASSUME ScanInv, NEW v \in Views, NEW s \in Scans, NEW engine \in Engines, StartScan(v, s, engine)
    PROVE  ProtocolInv'
<1>1. /\ call[s].at = "idle" /\ ProtocolInv /\ s \in Calls
      /\ UNCHANGED <<lock, session, helper, open, toHelper, toClient>>
  BY DEF StartScan, ScanInv, WorkInv, Scans
<1>2. CASE engine # "fast"
  BY <1>1, <1>2, ProtocolUntouched DEF StartScan
<1>3. CASE engine = "fast"
  <2> DEFINE number == view[v].generation + 1
             r == [Idle EXCEPT !.at = "locking", !.id = number]
  <2>1. call' = [call EXCEPT ![s] = r]
    BY <1>3 DEF StartScan, Run
  <2> HIDE DEF number
  <2>2. CallFine(r) /\ r.at \notin Holding
    BY DEF CallFine, CallRecords, Idle, Results, Holding
  <2>3. s # lock
    BY <1>1 DEF ProtocolInv, CallsFine, Holding
  <2> HIDE DEF r
  <2> QED  BY <1>1, <2>1, <2>2, <2>3, OthersMove
<1> QED  BY <1>2, <1>3

LEMMA UserKeeps ==
    ASSUME ScanInv, NEW v \in Views, User(v)
    PROVE  ProtocolInv'
<1>1. CASE OpenView(v) \/ RestartScan(v)
  <2>1. \E s \in Scans, engine \in Engines : StartScan(v, s, engine)
    BY <1>1 DEF OpenView, RestartScan
  <2> QED  BY <2>1, StartScanKeeps
<1>2. CASE CancelScan(v) \/ CloseView(v)
  BY <1>2, ProtocolUntouched DEF CancelScan, CloseView, ScanInv
<1> QED  BY <1>1, <1>2 DEF User

LEMMA WorkerKeeps ==
    ASSUME ScanInv, NEW s \in Scans, Worker(s)
    PROVE  ProtocolInv'
<1>1. /\ ProtocolInv /\ s \in Calls /\ CallFine(call[s]) /\ call[s] \in CallRecords(call[s].id)
      /\ call[s].at \in Holding <=> s = lock
  BY DEF ScanInv, Scans, ProtocolInv, CallsFine, CallFine
<1>2. UNCHANGED <<lock, session, helper, open, toHelper, toClient>>
  BY DEF Worker, OnEvent, AfterFastScan, PortableScan, WorkerOnly
<1>3. CASE PortableScan(s)
  BY <1>1, <1>2, <1>3, ProtocolUntouched DEF PortableScan
<1>4. CASE AfterFastScan(s)
  <2>1. call' = [call EXCEPT ![s] = Idle] /\ s # lock
    BY <1>1, <1>4 DEF AfterFastScan, Holding
  <2>2. CallFine(Idle) /\ Idle.at \notin Holding
    BY DEF CallFine, CallRecords, Idle, Results, Holding
  <2> QED  BY <1>1, <1>2, <2>1, <2>2, OthersMove
<1>5. CASE OnEvent(s)
  <2> DEFINE r == [call[s] EXCEPT !.batch = FALSE]
  <2>1. call' = [call EXCEPT ![s] = r] /\ call[s].batch
    BY <1>5 DEF OnEvent, Handled
  <2>2. /\ CallFine(r) /\ r.at = call[s].at /\ r.id = call[s].id /\ r.ready = call[s].ready
        /\ r.rows = call[s].rows /\ r.result = call[s].result
    BY <1>1 DEF CallFine, CallRecords, Results, Holding
  <2> HIDE DEF r
  <2>3. CASE s # lock
    BY <1>1, <1>2, <2>1, <2>2, <2>3, OthersMove
  <2>4. CASE s = lock
    <3>1. call[s].at \in {"reading", "cancelling"}
      BY <1>1, <2>1, <2>4 DEF CallFine, Holding
    <3> DEFINE k == helper[session]
               th == toHelper[session]
               tc == toClient[session]
    <3>2. /\ session # 0 /\ Situation(call[s], k, th, tc)
          /\ toHelper = [toHelper EXCEPT ![session] = th]
          /\ toClient = [toClient EXCEPT ![session] = tc]
      BY <1>1, <3>1, SomeoneHolds
    <3> HIDE DEF k, th, tc
    <3>3. Starts(r) = Starts(call[s]) /\ Cancels(r) = Cancels(call[s])
          /\ StartsAndCancels(r) = StartsAndCancels(call[s])
      BY <2>2 DEF Starts, Cancels, StartsAndCancels
    <3>4. Stream(tc, call[s]) => Stream(tc, r)
      BY <2>2 DEF Stream, Expected, RowsBefore
    <3>5. InStep(k, tc, call[s]) => InStep(k, tc, r)
      BY <2>2 DEF InStep, RowsBefore
    <3>6. ASSUME call[s].at = "reading"
          PROVE  Situation(r, k, th, tc)
      <4>1. Reads(r, k, th, tc)
        BY <2>2, <3>2, <3>3, <3>4, <3>5, <3>6 DEF Situation, Phase, Reads, Served
      <4> QED  BY <2>2, <3>2, <3>6, <4>1 DEF Situation, Phase
    <3>7. ASSUME call[s].at = "cancelling"
          PROVE  Situation(r, k, th, tc)
      <4>1. GivesUp(r, k, th, tc)
        BY <2>2, <3>2, <3>3, <3>7 DEF Situation, Phase, GivesUp, Served
      <4> QED  BY <2>2, <3>2, <3>7, <4>1 DEF Situation, Phase
    <3>8. Situation(r, k, th, tc)
      BY <3>1, <3>6, <3>7
    <3> QED  BY <1>1, <1>2, <2>1, <2>4, <3>2, <3>8, HolderMoves DEF k
  <2> QED  BY <2>3, <2>4
<1> QED  BY <1>3, <1>4, <1>5 DEF Worker

----
(* What the views, workers and queues keep.                                *)

\* A step of the protocol that leaves the views alone, for a call that is under way.
LEMMA WorkUntouched ==
    ASSUME WorkInv, UNCHANGED <<cancelled, duVars>>,
           \A s \in Scans : call[s].at = "idle" => call'[s].at = "idle"
    PROVE  WorkInv'
  BY DEF WorkInv, duVars, ViewRecords, ScanRecords

LEMMA ClientTouches ==
    ASSUME ProtocolInv, NEW c \in Calls, Client(c)
    PROVE  UNCHANGED cancelled /\ \A x \in Calls : call[x].at = "idle" => call'[x].at = "idle"
<1> DEFINE touched == call[c].at # "idle" /\ UNCHANGED cancelled
           others == \A x \in Calls : x # c => call'[x] = call[x]
<1>1. CASE ProbeFails(c) \/ Lock(c)
  <2>1. touched
    BY <1>1 DEF ProbeFails, Lock
  <2>2. others
    BY <1>1 DEF ProbeFails, Lock, Goes, Returns, ProtocolInv, PipesFine
  <2> QED  BY <2>1, <2>2
<1>2. CASE Launch(c)
  <2>1. touched
    BY <1>2 DEF Launch
  <2>2. others
    BY <1>2 DEF Launch, Goes, Returns, ProtocolInv, PipesFine
  <2> QED  BY <2>1, <2>2
<1>3. CASE ReadHello(c) \/ ConnectFails(c)
  <2>1. touched
    BY <1>3 DEF ReadHello, ConnectFails, Fails
  <2>2. others
    BY <1>3 DEF ReadHello, ConnectFails, Fails, Goes, Returns, ProtocolInv, PipesFine
  <2> QED  BY <2>1, <2>2
<1>4. CASE SendStart(c)
  <2>1. touched
    BY <1>4 DEF SendStart, Fails
  <2>2. others
    BY <1>4 DEF SendStart, Fails, Goes, Returns, ProtocolInv, PipesFine
  <2> QED  BY <2>1, <2>2
<1>5. CASE ReadEvent(c)
  <2>1. touched
    BY <1>5 DEF ReadEvent, Reading
  <2>2. others
    BY <1>5 DEF ReadEvent, Returns, ProtocolInv, PipesFine
  <2> QED  BY <2>1, <2>2
<1>6. CASE StopHelper(c)
  <2>1. touched
    BY <1>6 DEF StopHelper, Reading
  <2>2. others
    BY <1>6 DEF StopHelper, ProtocolInv, PipesFine
  <2> QED  BY <2>1, <2>2
<1>7. CASE GraceEnds(c) \/ ReadFails(c)
  <2>1. touched
    BY <1>7 DEF GraceEnds, ReadFails, Fails, Reading
  <2>2. others
    BY <1>7 DEF GraceEnds, ReadFails, Fails, Returns, ProtocolInv, PipesFine
  <2> QED  BY <2>1, <2>2
<1> QED  BY <1>1, <1>2, <1>3, <1>4, <1>5, <1>6, <1>7 DEF Client

LEMMA PushesFine ==
    ASSUME WorkInv, NEW s \in Scans, NEW msg \in Messages, Pushes(s, msg)
    PROVE  /\ queue' \in [Scans -> Seq(Messages)]
           /\ \A x \in Scans : Len(queue'[x]) <= QueueCap
<1>1. queue \in [Scans -> Seq(Messages)] /\ \A x \in Scans : Len(queue[x]) <= QueueCap
  BY DEF WorkInv
<1>2. CASE UNCHANGED queue
  BY <1>1, <1>2
<1>3. CASE Len(queue[s]) < QueueCap /\ queue' = [queue EXCEPT ![s] = Append(@, msg)]
  <2> DEFINE new == Append(queue[s], msg)
  <2>1. new \in Seq(Messages) /\ Len(queue[s]) \in Nat /\ Len(new) = Len(queue[s]) + 1
    BY <1>1, Appended
  <2>2. queue' = [queue EXCEPT ![s] = new] /\ Len(new) <= QueueCap
    BY <1>3, <2>1, NumbersAreTyped
  <2> HIDE DEF new
  <2> QED  BY <1>1, <2>1, <2>2
<1> QED  BY <1>2, <1>3 DEF Pushes

LEMMA WorkerWork ==
    ASSUME ScanInv, NEW s \in Scans, Worker(s)
    PROVE  WorkInv'
<1>1. WorkInv /\ PipesFine /\ s \in Calls
  BY DEF ScanInv, ProtocolInv, Scans
<1>2. UNCHANGED <<cancelled, view, tasks>>
  BY DEF Worker, OnEvent, AfterFastScan, PortableScan, WorkerOnly
<1>3. worker[s] \in ScanRecords(worker[s]) /\ worker[s].at \in {"fast", "portable"}
  BY <1>1 DEF WorkInv, Worker, OnEvent, AfterFastScan, PortableScan
<1>4. \A x \in Scans : x # s => call'[x] = call[x]
  BY <1>1 DEF Worker, OnEvent, AfterFastScan, PortableScan, Handled, PipesFine, Scans
<1>5. /\ queue' \in [Scans -> Seq(Messages)]
      /\ \A x \in Scans : Len(queue'[x]) <= QueueCap
  <2>1. CASE UNCHANGED queue
    BY <1>1, <2>1 DEF WorkInv
  <2>2. ASSUME NEW msg \in {"fast", "done", "reset", "portable", "error"}, Pushes(s, msg)
        PROVE  /\ queue' \in [Scans -> Seq(Messages)]
               /\ \A x \in Scans : Len(queue'[x]) <= QueueCap
    BY <1>1, <2>2, PushesFine DEF Messages
  <2>3. UNCHANGED queue \/ \E msg \in {"fast", "done", "reset", "portable", "error"} : Pushes(s, msg)
    BY DEF Worker, OnEvent, AfterFastScan, PortableScan, FallBack
  <2> QED  BY <2>1, <2>2, <2>3
<1>6. PICK w : /\ worker' = [worker EXCEPT ![s] = w]
               /\ w \in ScanRecords(w) /\ w.at # "none"
  <2> DEFINE moved(at) == [worker[s] EXCEPT !.at = at, !.rows = 0]
  <2>1. \A at \in {"ended", "portable"} : moved(at) \in ScanRecords(moved(at)) /\ moved(at).at = at
    BY <1>3 DEF ScanRecords
  <2>2. CASE UNCHANGED worker
    BY <1>1, <1>3, <2>2 DEF WorkInv
  <2>3. CASE Works(s, "ended")
    <3>1. worker' = [worker EXCEPT ![s] = moved("ended")]
      BY <2>3 DEF Works
    <3> HIDE DEF moved
    <3> QED  BY <2>1, <3>1
  <2>4. CASE Works(s, "portable")
    <3>1. worker' = [worker EXCEPT ![s] = moved("portable")]
      BY <2>4 DEF Works
    <3> HIDE DEF moved
    <3> QED  BY <2>1, <3>1
  <2>5. CASE worker' = [worker EXCEPT ![s].rows = @ + 1]
    <3> DEFINE w == [worker[s] EXCEPT !.rows = @ + 1]
    <3>1. w \in ScanRecords(w) /\ w.at = worker[s].at
      BY <1>3 DEF ScanRecords
    <3>2. worker' = [worker EXCEPT ![s] = w]
      BY <2>5
    <3> HIDE DEF w
    <3> QED  BY <1>3, <3>1, <3>2
  <2> QED  BY <2>2, <2>3, <2>4, <2>5 DEF Worker, OnEvent, AfterFastScan, PortableScan, FallBack
<1>7. /\ worker' = [x \in Scans |-> worker'[x]]
      /\ worker'[s] = w /\ \A x \in Scans : x # s => worker'[x] = worker[x]
  BY <1>1, <1>6 DEF WorkInv
<1>8. \A x \in Scans : /\ worker'[x] \in ScanRecords(worker'[x])
                       /\ worker'[x].at = "none" => call'[x].at = "idle"
  BY <1>1, <1>4, <1>6, <1>7 DEF WorkInv
<1>9. /\ view' = [v \in Views |-> view'[v]] /\ cancelled' \subseteq Calls /\ tasks' \subseteq Scans
      /\ \A v \in Views : view'[v] \in ViewRecords(view'[v]) /\ (view'[v].live => view'[v].scan # 0)
  BY <1>1, <1>2 DEF WorkInv
<1> QED  BY <1>5, <1>7, <1>8, <1>9 DEF WorkInv

\* A step of the user that changes one view, and the worker and the call of a new scan.
LEMMA ViewFine ==
    ASSUME WorkInv, NEW v \in Views, NEW r, r \in ViewRecords(r), r.live => r.scan # 0,
           view' = [view EXCEPT ![v] = r]
    PROVE  /\ view' = [x \in Views |-> view'[x]]
           /\ \A x \in Views : view'[x] \in ViewRecords(view'[x]) /\ (view'[x].live => view'[x].scan # 0)
<1>1. /\ view' = [x \in Views |-> view'[x]]
      /\ view'[v] = r /\ \A x \in Views : x # v => view'[x] = view[x]
  BY DEF WorkInv
<1> QED  BY <1>1 DEF WorkInv

LEMMA LiveScan ==
    ASSUME WorkInv, NEW v \in Views, view[v].live
    PROVE  view[v].scan \in Scans
  BY DEF WorkInv, ViewRecords

LEMMA StartScanWork ==
    ASSUME ScanInv, NEW v \in Views, NEW s \in Scans, NEW engine \in Engines,
           StartScan(v, s, engine), cancelled' \subseteq Calls
    PROVE  WorkInv'
<1>1. WorkInv /\ PipesFine /\ s \in Calls /\ s # 0 /\ UNCHANGED queue
  BY NumbersAreTyped DEF ScanInv, ProtocolInv, Scans, StartScan
<1> DEFINE number == view[v].generation + 1
           empty == Empty(engine)
           r == [NoView EXCEPT !.live = TRUE, !.scan = s, !.shows = empty, !.generation = number]
           w == [worker[s] EXCEPT !.at = engine, !.view = v]
<1>2. view' = [view EXCEPT ![v] = r]
  BY DEF StartScan
<1> HIDE DEF number, empty
<1>3. r \in ViewRecords(r) /\ r.scan = s
  BY DEF ViewRecords, NoView
<1> HIDE DEF r
<1>4. /\ view' = [x \in Views |-> view'[x]]
      /\ \A x \in Views : view'[x] \in ViewRecords(view'[x]) /\ (view'[x].live => view'[x].scan # 0)
  BY <1>1, <1>2, <1>3, ViewFine
<1>5. worker' = [worker EXCEPT ![s] = w] /\ worker[s].at = "none" /\ call[s].at = "idle"
  BY <1>1 DEF StartScan, WorkInv
<1>6. w \in ScanRecords(w) /\ w.at = engine
  BY <1>1 DEF WorkInv, ScanRecords
<1> HIDE DEF w
<1>7. /\ worker' = [x \in Scans |-> worker'[x]]
      /\ worker'[s] = w /\ \A x \in Scans : x # s => worker'[x] = worker[x]
  BY <1>1, <1>5 DEF WorkInv
<1>8. engine # "fast" => UNCHANGED call
  BY DEF StartScan
<1>9. \A x \in Scans : x # s => call'[x] = call[x]
  BY <1>1 DEF StartScan, Run, PipesFine, Scans
<1>10. \A x \in Scans : /\ worker'[x] \in ScanRecords(worker'[x])
                        /\ worker'[x].at = "none" => call'[x].at = "idle"
  BY <1>1, <1>5, <1>6, <1>7, <1>8, <1>9 DEF WorkInv
<1>11. tasks' \subseteq Scans
  BY <1>1 DEF StartScan, TasksAfterStart, WorkInv
<1> QED  BY <1>1, <1>4, <1>7, <1>10, <1>11 DEF WorkInv

LEMMA UserWork ==
    ASSUME ScanInv, NEW v \in Views, User(v)
    PROVE  WorkInv'
<1>1. WorkInv
  BY DEF ScanInv
<1>2. CASE OpenView(v)
  <2>1. cancelled' \subseteq Calls
    BY <1>1, <1>2 DEF OpenView, WorkInv
  <2> QED  BY <1>2, <2>1, StartScanWork DEF OpenView
<1>3. CASE RestartScan(v)
  <2>1. cancelled' \subseteq Calls
    BY <1>1, <1>3, LiveScan DEF RestartScan, WorkInv, Scans
  <2> QED  BY <1>3, <2>1, StartScanWork DEF RestartScan
<1>4. ASSUME CancelScan(v) \/ CloseView(v)
      PROVE  /\ cancelled' \subseteq Calls /\ tasks' \subseteq Scans
             /\ UNCHANGED <<call, worker, queue>>
  BY <1>1, <1>4, LiveScan DEF CancelScan, CloseView, WorkInv, Scans
<1>5. CASE CancelScan(v)
  <2> DEFINE number == view[v].generation + 1
             shows == [view[v].shows EXCEPT !.complete = TRUE]
             r == [view[v] EXCEPT !.stopped = TRUE, !.shows = shows, !.generation = number]
  <2>1. view[v] \in ViewRecords(view[v]) /\ (view[v].live => view[v].scan # 0)
    BY <1>1 DEF WorkInv
  <2>2. view' = [view EXCEPT ![v] = r]
    BY <1>5, <2>1 DEF CancelScan, ViewRecords
  <2> HIDE DEF number, shows
  <2>3. r \in ViewRecords(r) /\ (r.live => r.scan # 0)
    BY <2>1 DEF ViewRecords
  <2> HIDE DEF r
  <2>4. /\ view' = [x \in Views |-> view'[x]]
        /\ \A x \in Views : view'[x] \in ViewRecords(view'[x]) /\ (view'[x].live => view'[x].scan # 0)
    BY <1>1, <2>2, <2>3, ViewFine
  <2> QED  BY <1>1, <1>4, <1>5, <2>4 DEF WorkInv
<1>6. CASE CloseView(v)
  <2>1. NoView \in ViewRecords(NoView) /\ ~NoView.live
    BY DEF NoView, ViewRecords
  <2>2. view' = [view EXCEPT ![v] = NoView]
    BY <1>6 DEF CloseView
  <2>3. /\ view' = [x \in Views |-> view'[x]]
        /\ \A x \in Views : view'[x] \in ViewRecords(view'[x]) /\ (view'[x].live => view'[x].scan # 0)
    BY <1>1, <2>1, <2>2, ViewFine
  <2> QED  BY <1>1, <1>4, <1>6, <2>3 DEF WorkInv
<1> QED  BY <1>2, <1>3, <1>5, <1>6 DEF User

LEMMA DrainWork ==
    ASSUME ScanInv, NEW s \in Scans, Drain(s)
    PROVE  WorkInv'
<1>1. WorkInv /\ UNCHANGED <<cancelled, call, worker>>
  BY DEF ScanInv, Drain, ntfsVars
<1> DEFINE v == worker[s].view
           n == IF Len(queue[s]) < MaxPerTick THEN Len(queue[s]) ELSE MaxPerTick
           msgs == SubSeq(queue[s], 1, n)
           rest == SubSeq(queue[s], n + 1, Len(queue[s]))
           ends == Terminal(msgs) \/ ~AppliesTo(s)
           left == IF ends THEN <<>> ELSE rest
<1>2. /\ queue' = [queue EXCEPT ![s] = left]
      /\ AppliesTo(s) => view' = [view EXCEPT ![v].shows = AppliedAll(@, msgs)]
      /\ tasks' \subseteq tasks
      /\ ~AppliesTo(s) => UNCHANGED view
  BY DEF Drain
<1>3. /\ queue[s] \in Seq(Messages) /\ Len(queue[s]) <= QueueCap /\ Len(queue[s]) \in Nat
      /\ n \in Nat /\ n <= Len(queue[s])
  BY <1>1, DuAssumption DEF WorkInv
<1> HIDE DEF n
<1>4. rest \in Seq(Messages) /\ Len(rest) <= Len(queue[s])
  <2>1. \A i \in (n + 1) .. Len(queue[s]) : queue[s][i] \in Messages
    BY <1>3
  <2>2. /\ rest \in Seq(Messages)
        /\ Len(rest) = IF n + 1 <= Len(queue[s]) THEN Len(queue[s]) - (n + 1) + 1 ELSE 0
    BY <1>3, <2>1, SubSeqProperties
  <2> QED  BY <1>3, <2>2
<1> HIDE DEF rest, ends
<1>5. left \in Seq(Messages) /\ Len(left) <= QueueCap
  <2>1. <<>> \in Seq(Messages) /\ Len(<<>>) = 0
    OBVIOUS
  <2> QED  BY <1>3, <1>4, <2>1, NumbersAreTyped
<1> HIDE DEF left
<1>6. /\ queue' \in [Scans -> Seq(Messages)]
      /\ \A x \in Scans : Len(queue'[x]) <= QueueCap
  BY <1>1, <1>2, <1>5 DEF WorkInv
<1>7. /\ view' = [x \in Views |-> view'[x]]
      /\ \A x \in Views : view'[x] \in ViewRecords(view'[x]) /\ (view'[x].live => view'[x].scan # 0)
  <2>1. CASE ~AppliesTo(s)
    BY <1>1, <1>2, <2>1 DEF WorkInv
  <2>2. CASE AppliesTo(s) /\ v \notin Views
    <3>1. UNCHANGED view
      BY <1>1, <1>2, <2>2 DEF WorkInv
    <3> QED  BY <1>1, <3>1 DEF WorkInv
  <2>3. CASE AppliesTo(s) /\ v \in Views
    <3> DEFINE shows == AppliedAll(view[v].shows, msgs)
               r == [view[v] EXCEPT !.shows = shows]
    <3>1. v \in Views /\ view' = [view EXCEPT ![v] = r]
      BY <1>2, <2>3
    <3>2. view[v] \in ViewRecords(view[v]) /\ (view[v].live => view[v].scan # 0)
      BY <1>1, <3>1 DEF WorkInv
    <3> HIDE DEF shows, v
    <3>3. r \in ViewRecords(r) /\ (r.live => r.scan # 0)
      BY <3>2 DEF ViewRecords
    <3> HIDE DEF r
    <3> QED  BY <1>1, <3>1, <3>3, ViewFine
  <2> QED  BY <2>1, <2>2, <2>3
<1> QED  BY <1>1, <1>2, <1>6, <1>7 DEF WorkInv

----
LEMMA InitIsFine == Init => ScanInv
<1> SUFFICES ASSUME Init
             PROVE  ScanInv
  OBVIOUS
<1>1. /\ call = [c \in Calls |-> Idle] /\ lock = NoCall /\ session = 0 /\ open = {}
      /\ helper = [h \in Helpers |-> NewHelper] /\ cancelled = {} /\ tasks = {}
      /\ toHelper = [h \in Helpers |-> <<>>] /\ toClient = [h \in Helpers |-> <<>>]
      /\ view = [v \in Views |-> NoView]
      /\ worker = [s \in Scans |-> [at |-> "none", view |-> "none", rows |-> 0]]
      /\ queue = [s \in Scans |-> <<>>]
  BY DEF Init, NtfsInit
<1>2. CallFine(Idle) /\ Idle.at = "idle"
  BY DEF CallFine, CallRecords, Idle, Results, Holding
<1>3. PipesFine
  BY <1>1 DEF PipesFine
<1>4. CallsFine
  BY <1>1, <1>2, NumbersAreTyped DEF CallsFine, Holding
<1>5. HelpersFine
  BY <1>1, NewHelpersAreFine DEF HelpersFine
<1>6. SessionFine
  BY <1>1 DEF SessionFine
<1>7. <<>> \in Seq(Messages) /\ Len(<<>>) = 0
  OBVIOUS
<1>8. /\ queue \in [Scans -> Seq(Messages)]
      /\ \A s \in Scans : Len(queue[s]) <= QueueCap
  BY <1>1, <1>7, NumbersAreTyped
<1>9. NoView \in ViewRecords(NoView) /\ ~NoView.live
  BY DEF NoView, ViewRecords
<1>10. /\ view = [v \in Views |-> view[v]]
       /\ \A v \in Views : view[v] \in ViewRecords(view[v]) /\ (view[v].live => view[v].scan # 0)
  BY <1>1, <1>9
<1>11. \A s \in Scans : /\ worker[s] \in ScanRecords(worker[s])
                        /\ call[s].at = "idle"
  BY <1>1, <1>2 DEF ScanRecords, Scans
<1>12. WorkInv
  BY <1>1, <1>8, <1>10, <1>11 DEF WorkInv
<1> QED  BY <1>3, <1>4, <1>5, <1>6, <1>12 DEF ScanInv, ProtocolInv

LEMMA StepKeepsScanInv ==
    ASSUME ScanInv, [Next]_vars
    PROVE  ScanInv'
<1>1. ProtocolInv /\ WorkInv /\ Scans = Calls
  BY DEF ScanInv, Scans
<1>2. ASSUME NEW v \in Views, User(v)
      PROVE  ScanInv'
  BY <1>2, UserKeeps, UserWork DEF ScanInv
<1>3. ASSUME NEW s \in Scans, FastScan(s)
      PROVE  ScanInv'
  <2>1. Client(s) /\ UNCHANGED duVars
    BY <1>3 DEF FastScan
  <2>2. UNCHANGED cancelled /\ \A x \in Scans : call[x].at = "idle" => call'[x].at = "idle"
    BY <1>1, <2>1, ClientTouches
  <2>3. ProtocolInv'
    BY <1>1, <2>1, ClientKeeps
  <2>4. WorkInv'
    BY <1>1, <2>1, <2>2, WorkUntouched
  <2> QED  BY <2>3, <2>4 DEF ScanInv
<1>4. ASSUME NEW s \in Scans, Worker(s)
      PROVE  ScanInv'
  BY <1>4, WorkerKeeps, WorkerWork DEF ScanInv
<1>5. ASSUME NEW s \in Scans, Drain(s)
      PROVE  ScanInv'
  <2>1. UNCHANGED <<call, lock, session, helper, open, toHelper, toClient>>
    BY <1>5 DEF Drain, ntfsVars
  <2>2. ProtocolInv' /\ WorkInv'
    BY <1>1, <1>5, <2>1, ProtocolUntouched, DrainWork
  <2> QED  BY <2>2 DEF ScanInv
<1>6. ASSUME NEW h \in Helpers, Helper(h) \/ Crash(h)
      PROVE  ScanInv'
  <2>1. (HelperRuns(h) \/ HelperDies(h)) /\ UNCHANGED duVars
    BY <1>6 DEF Helper, Crash
  <2>2. ProtocolInv'
    BY <1>1, <2>1, HelperKeeps
  <2>3. UNCHANGED <<cancelled, call>>
    BY <2>1 DEF HelperRuns, HelperStarts, TakeStart, ReaderBegins, ReaderReads, Open, Batch,
                EndScan, Report, ScanStep, HelperDies, HelperOnly
  <2>4. WorkInv'
    BY <1>1, <2>1, <2>3, WorkUntouched
  <2> QED  BY <2>2, <2>4 DEF ScanInv
<1>7. ASSUME UNCHANGED vars
      PROVE  ScanInv'
  <2>1. UNCHANGED <<call, lock, session, helper, open, toHelper, toClient, cancelled>> /\ UNCHANGED duVars
    BY <1>7 DEF vars, ntfsVars
  <2>2. ProtocolInv' /\ WorkInv'
    BY <1>1, <2>1, ProtocolUntouched, WorkUntouched
  <2> QED  BY <2>2 DEF ScanInv
<1> QED  BY <1>2, <1>3, <1>4, <1>5, <1>6, <1>7 DEF Next

\* Whatever the views do and wherever a scan is cancelled, times out, is torn or
\* loses its helper: a kept session is clean, a Start is read by the loop
\* that waits for one, and a complete result has every row (run_fast_ntfs,
\* helper.rs), with any number of views, scans and helpers and a pipe of any size.
THEOREM SessionsAreSafe == Spec => []ProtocolSafe
<1>1. Init => ScanInv
  BY InitIsFine
<1>2. ScanInv /\ [Next]_vars => ScanInv'
  BY StepKeepsScanInv
<1>3. ScanInv => ProtocolSafe
  BY InvariantIsSafe
<1> QED  BY <1>1, <1>2, <1>3, PTL DEF Spec

----
(* What the messages of a tick do to a view, one after the other.           *)

LEMMA NatMinimum ==
    ASSUME NEW T, T \subseteq Nat, T # {}
    PROVE  \E x \in T : \A y \in T : x <= y
<1> DEFINE R == OpToRel(<, Nat)
<1>1. IsWellFoundedOn(R, Nat)
  BY NatLessThanWellFounded
<1> HIDE DEF R
<1>2. PICK x \in T : \A y \in T : <<y, x>> \notin R
  BY <1>1, WFMin
<1>3. \A y \in T : ~(y < x)
  BY <1>2 DEF R, OpToRel
<1> QED  BY <1>3

\* The recursion of AppliedAll, up to the first n messages.
UpTo(f, shown, msgs, n) ==
    f = [k \in 0..n |-> IF k = 0 THEN shown ELSE Applied(f[k - 1], msgs[k])]

LEMMA UpToExists ==
    ASSUME NEW shown, NEW msgs
    PROVE  \A n \in Nat : \E f : UpTo(f, shown, msgs, n)
<1> DEFINE T == {n \in Nat : ~ \E f : UpTo(f, shown, msgs, n)}
<1> SUFFICES ASSUME T # {} PROVE FALSE
  OBVIOUS
<1>1. PICK m \in T : \A y \in T : m <= y
  BY NatMinimum
<1>2. CASE m = 0
  <2>1. UpTo([k \in 0..0 |-> shown], shown, msgs, 0)
    BY DEF UpTo
  <2> QED  BY <1>2, <2>1
<1>3. CASE m # 0
  <2>1. m - 1 \in Nat /\ m - 1 \notin T
    BY <1>1, <1>3
  <2>2. PICK f : UpTo(f, shown, msgs, m - 1)
    BY <2>1
  <2> DEFINE last == Applied(f[m - 1], msgs[m])
             g    == [k \in 0..m |-> IF k = m THEN last ELSE f[k]]
             h    == [k \in 0..m |-> IF k = 0 THEN shown ELSE Applied(g[k - 1], msgs[k])]
  <2>3. \A k \in 0..(m - 1) : f[k] = IF k = 0 THEN shown ELSE Applied(f[k - 1], msgs[k])
    BY <2>2 DEF UpTo
  <2>4. ASSUME NEW k \in 0..m PROVE g[k] = h[k]
    <3>1. CASE k = m
      <4>1. g[k - 1] = f[m - 1] /\ k # 0
        BY <1>3, <3>1
      <4> QED  BY <3>1, <4>1
    <3>2. CASE k # m /\ k # 0
      <4>1. k - 1 \in 0..m /\ k - 1 # m /\ k \in 0..(m - 1)
        BY <3>2
      <4>2. g[k - 1] = f[k - 1] /\ g[k] = f[k]
        BY <3>2, <4>1
      <4> HIDE DEF g
      <4> QED  BY <2>3, <3>2, <4>1, <4>2
    <3>3. CASE k # m /\ k = 0
      <4>1. k \in 0..(m - 1) /\ g[k] = f[k]
        BY <3>3
      <4> HIDE DEF g
      <4> QED  BY <2>3, <3>3, <4>1
    <3> QED  BY <3>1, <3>2, <3>3
  <2>5. g = h
    <3> HIDE DEF last
    <3>1. DOMAIN g = 0..m /\ DOMAIN h = 0..m
      OBVIOUS
    <3> QED  BY <2>4
  <2>6. UpTo(g, shown, msgs, m)
    <3> HIDE DEF g
    <3> QED  BY <2>5 DEF UpTo
  <2> QED  BY <2>6
<1> QED  BY <1>2, <1>3

\* AppliedAll is the last of a series that begins with what is shown.
Series(f, shown, msgs) ==
    f[0] = shown /\ \A k \in 1..Len(msgs) : f[k] = Applied(f[k - 1], msgs[k])

LEMMA SeriesOf ==
    ASSUME NEW shown, NEW msgs \in Seq(Messages)
    PROVE  \E f : Series(f, shown, msgs) /\ AppliedAll(shown, msgs) = f[Len(msgs)]
<1> DEFINE f == CHOOSE f : UpTo(f, shown, msgs, Len(msgs))
<1>1. Len(msgs) \in Nat
  OBVIOUS
<1>2. UpTo(f, shown, msgs, Len(msgs))
  BY <1>1, UpToExists
<1>3. AppliedAll(shown, msgs) = f[Len(msgs)]
  BY DEF AppliedAll, UpTo
<1> HIDE DEF f
<1>4. Series(f, shown, msgs)
  BY <1>1, <1>2 DEF UpTo, Series
<1> QED  BY <1>3, <1>4

\* Two series that begin alike and apply the same messages agree.
AlikeFrom(f, d, g, n, msgs) ==
    /\ g[0] = f[d]
    /\ \A k \in 1..n : g[k] = Applied(g[k - 1], msgs[k]) /\ f[d + k] = Applied(f[d + k - 1], msgs[k])

LEMMA SeriesAgree ==
    ASSUME NEW f, NEW g, NEW n \in Nat, NEW d \in Nat, NEW msgs, AlikeFrom(f, d, g, n, msgs)
    PROVE  g[n] = f[d + n]
<1> DEFINE T == {k \in 0..n : g[k] # f[d + k]}
<1> SUFFICES ASSUME T # {} PROVE FALSE
  OBVIOUS
<1>1. T \subseteq Nat
  OBVIOUS
<1>2. PICK m \in T : \A y \in T : m <= y
  BY <1>1, NatMinimum
<1>3. m # 0 /\ m \in 1..n
  BY DEF AlikeFrom
<1>4. m - 1 \in 0..n /\ m - 1 \notin T
  BY <1>2, <1>3
<1>5. g[m - 1] = f[d + m - 1]
  <2>1. g[m - 1] = f[d + (m - 1)] /\ d + (m - 1) = d + m - 1
    BY <1>3, <1>4
  <2> QED  BY <2>1
<1> QED  BY <1>3, <1>5 DEF AlikeFrom

\* One message more.
LEMMA AppliesOneMore ==
    ASSUME NEW shown, NEW msgs \in Seq(Messages), NEW m \in Messages
    PROVE  AppliedAll(shown, Append(msgs, m)) = Applied(AppliedAll(shown, msgs), m)
<1> DEFINE n == Len(msgs)
           more == Append(msgs, m)
<1>1. /\ n \in Nat /\ more \in Seq(Messages) /\ Len(more) = n + 1
      /\ more[n + 1] = m /\ \A i \in 1..n : more[i] = msgs[i]
  BY Appended
<1> HIDE DEF more
<1>2. PICK g : Series(g, shown, msgs) /\ AppliedAll(shown, msgs) = g[n]
  BY SeriesOf
<1>3. PICK f : Series(f, shown, more) /\ AppliedAll(shown, more) = f[n + 1]
  BY <1>1, SeriesOf
<1> HIDE DEF n
<1>4. \A k \in 1..n : g[k] = Applied(g[k - 1], msgs[k]) /\ f[0 + k] = Applied(f[0 + k - 1], msgs[k])
  BY <1>1, <1>2, <1>3 DEF Series, n
<1>5. g[0] = f[0]
  BY <1>2, <1>3 DEF Series
<1>6. g[n] = f[0 + n]
  <2>1. 0 \in Nat
    OBVIOUS
  <2>2. AlikeFrom(f, 0, g, n, msgs)
    BY <1>4, <1>5 DEF AlikeFrom
  <2>3. n \in Nat
    BY <1>1
  <2> QED  BY <2>1, <2>2, <2>3, SeriesAgree
<1>7. f[n + 1] = Applied(f[n], m)
  BY <1>1, <1>3 DEF Series
<1> QED  BY <1>1, <1>2, <1>3, <1>6, <1>7 DEF more

\* What a tick takes out, and what it leaves.
LEMMA AppliesInTwo ==
    ASSUME NEW shown, NEW msgs \in Seq(Messages), NEW n \in Nat, n <= Len(msgs)
    PROVE  /\ SubSeq(msgs, 1, n) \in Seq(Messages) /\ Len(SubSeq(msgs, 1, n)) = n
           /\ \A i \in 1..n : SubSeq(msgs, 1, n)[i] = msgs[i]
           /\ SubSeq(msgs, n + 1, Len(msgs)) \in Seq(Messages)
           /\ Len(SubSeq(msgs, n + 1, Len(msgs))) = Len(msgs) - n
           /\ \A i \in 1..(Len(msgs) - n) : SubSeq(msgs, n + 1, Len(msgs))[i] = msgs[n + i]
           /\ AppliedAll(AppliedAll(shown, SubSeq(msgs, 1, n)), SubSeq(msgs, n + 1, Len(msgs)))
                 = AppliedAll(shown, msgs)
<1> DEFINE all == Len(msgs)
           taken == SubSeq(msgs, 1, n)
           left == SubSeq(msgs, n + 1, all)
           mid == AppliedAll(shown, taken)
<1>1. all \in Nat /\ n <= all /\ \A i \in 1..all : msgs[i] \in Messages
  OBVIOUS
<1>2. taken \in Seq(Messages) /\ Len(taken) = n /\ \A i \in 1..n : taken[i] = msgs[i]
  <2>1. \A i \in 1..n : msgs[i] \in Messages
    BY <1>1
  <2>2. 1 \in Int /\ n \in Int
    OBVIOUS
  <2> HIDE DEF all
  <2>3. /\ taken \in Seq(Messages) /\ Len(taken) = IF 1 <= n THEN n - 1 + 1 ELSE 0
        /\ \A i \in 1..(n - 1 + 1) : taken[i] = msgs[1 + i - 1]
    BY <2>1, <2>2, SubSeqProperties
  <2> QED  BY <2>3
<1>3. /\ left \in Seq(Messages) /\ Len(left) = all - n
      /\ \A i \in 1..(all - n) : left[i] = msgs[n + i]
  <2>1. \A i \in (n + 1)..all : msgs[i] \in Messages
    BY <1>1
  <2>2. n + 1 \in Int /\ all \in Int
    BY <1>1
  <2> HIDE DEF all
  <2>3. /\ left \in Seq(Messages)
        /\ Len(left) = IF n + 1 <= all THEN all - (n + 1) + 1 ELSE 0
        /\ \A i \in 1..(all - (n + 1) + 1) : left[i] = msgs[n + 1 + i - 1]
    BY <2>1, <2>2, SubSeqProperties
  <2> QED  BY <1>1, <2>3
<1> HIDE DEF taken, left
<1>4. PICK f : Series(f, shown, msgs) /\ AppliedAll(shown, msgs) = f[all]
  BY SeriesOf
<1>5. PICK g : Series(g, shown, taken) /\ mid = g[n]
  BY <1>2, SeriesOf
<1> HIDE DEF mid
<1>6. PICK h : Series(h, mid, left) /\ AppliedAll(mid, left) = h[all - n]
  BY <1>3, SeriesOf
<1> HIDE DEF all
<1>7. g[n] = f[0 + n]
  <2>1. \A k \in 1..n : g[k] = Applied(g[k - 1], taken[k])
    BY <1>2, <1>5 DEF Series
  <2>2. \A k \in 1..n : f[k] = Applied(f[k - 1], msgs[k])
    BY <1>1, <1>4 DEF Series, all
  <2>3. \A k \in 1..n : 0 + k = k /\ 0 + k - 1 = k - 1
    OBVIOUS
  <2>4. \A k \in 1..n : g[k] = Applied(g[k - 1], taken[k]) /\ f[0 + k] = Applied(f[0 + k - 1], taken[k])
    BY <1>2, <2>1, <2>2, <2>3
  <2>5. g[0] = f[0] /\ 0 \in Nat
    BY <1>4, <1>5 DEF Series
  <2>6. AlikeFrom(f, 0, g, n, taken)
    BY <2>4, <2>5 DEF AlikeFrom
  <2> QED  BY <2>5, <2>6, SeriesAgree
<1>8. h[all - n] = f[n + (all - n)]
  <2> DEFINE rest == all - n
  <2>1. rest \in Nat /\ \A k \in 1..rest : n + k \in 1..all /\ n + k - 1 = (n + k) - 1
    BY <1>1
  <2>2. \A k \in 1..rest : h[k] = Applied(h[k - 1], left[k])
    BY <1>3, <1>6 DEF Series
  <2>3. \A k \in 1..rest : f[n + k] = Applied(f[n + k - 1], msgs[n + k])
    BY <1>4, <2>1 DEF Series, all
  <2>4. \A k \in 1..rest : h[k] = Applied(h[k - 1], left[k]) /\ f[n + k] = Applied(f[n + k - 1], left[k])
    BY <1>3, <2>2, <2>3
  <2>5. h[0] = f[n]
    BY <1>5, <1>6, <1>7 DEF Series
  <2> HIDE DEF rest
  <2>6. AlikeFrom(f, n, h, rest, left)
    BY <2>4, <2>5 DEF AlikeFrom
  <2>7. h[rest] = f[n + rest]
    BY ZenonT(60), <2>1, <2>6, SeriesAgree
  <2> QED  BY <2>7 DEF rest
<1>9. n + (all - n) = all
  BY <1>1
<1> QED  BY <1>2, <1>3, <1>4, <1>6, <1>8, <1>9 DEF all, taken, left, mid

ShownRecords ==
    [active : {"fast", "portable"}, complete : BOOLEAN, failed : BOOLEAN,
     tree : [fast : Nat, portable : Nat]]
Ending == {"done", "error"}

LEMMA AppliesOne ==
    ASSUME NEW shown \in ShownRecords, NEW m \in Messages
    PROVE  /\ Applied(shown, m) \in ShownRecords
           /\ Applied(shown, m).complete <=> shown.complete \/ m \in Ending
<1>1. CASE m = "fast"
  BY <1>1 DEF Applied, ShownRecords, Ending
<1>2. CASE m = "portable"
  BY <1>2 DEF Applied, ShownRecords, Ending
<1>3. CASE m = "reset"
  BY <1>3 DEF Applied, ShownRecords, Ending, NoTree
<1>4. CASE m \in Ending
  BY <1>4 DEF Applied, ShownRecords, Ending
<1> QED  BY <1>1, <1>2, <1>3, <1>4 DEF Messages, Ending

\* A view is complete once it has seen the last message of the scan.
LEMMA AppliesFine ==
    ASSUME NEW shown \in ShownRecords, NEW msgs \in Seq(Messages)
    PROVE  /\ AppliedAll(shown, msgs) \in ShownRecords
           /\ AppliedAll(shown, msgs).complete <=> shown.complete \/ Terminal(msgs)
<1> DEFINE n == Len(msgs)
<1>1. n \in Nat /\ DOMAIN msgs = 1..n /\ \A i \in 1..n : msgs[i] \in Messages
  OBVIOUS
<1>2. PICK f : Series(f, shown, msgs) /\ AppliedAll(shown, msgs) = f[n]
  BY SeriesOf
<1> DEFINE Right(k) == /\ f[k] \in ShownRecords
                       /\ f[k].complete <=> shown.complete \/ \E i \in 1..k : msgs[i] \in Ending
           T == {k \in 0..n : ~Right(k)}
<1>3. f[0] = shown /\ \A k \in 1..n : f[k] = Applied(f[k - 1], msgs[k])
  BY <1>2 DEF Series
<1> HIDE DEF n
<1>4. T = {}
  <2> SUFFICES ASSUME T # {} PROVE FALSE
    OBVIOUS
  <2>1. T \subseteq Nat
    BY <1>1
  <2>2. PICK m \in T : \A y \in T : m <= y
    BY <2>1, NatMinimum
  <2>3. m # 0 /\ m \in 1..n
    <3>1. Right(0)
      BY <1>3
    <3> QED  BY <3>1, <1>1
  <2>4. m - 1 \in 0..n /\ ~(m <= m - 1) /\ \A i : i \in 1..m <=> i \in 1..(m - 1) \/ i = m
    BY <1>1, <2>3
  <2>5. Right(m - 1)
    BY <2>2, <2>4
  <2>6. /\ f[m] \in ShownRecords
        /\ f[m].complete <=> f[m - 1].complete \/ msgs[m] \in Ending
    <3> DEFINE before == f[m - 1]
               msg == msgs[m]
    <3>1. before \in ShownRecords /\ msg \in Messages /\ f[m] = Applied(before, msg)
      BY <1>1, <1>3, <2>3, <2>5
    <3> HIDE DEF before, msg
    <3>2. f[m] \in ShownRecords /\ (f[m].complete <=> before.complete \/ msg \in Ending)
      BY <3>1, AppliesOne
    <3> QED  BY <3>2 DEF before, msg
  <2>7. Right(m)
    BY <2>4, <2>5, <2>6
  <2> QED  BY <2>7
<1>5. Right(n)
  BY <1>1, <1>4
<1> QED  BY <1>1, <1>2, <1>5 DEF Terminal, Ending

----
(* What a view shows, what is queued for it and what its worker has sent.   *)

\* The batches of a call that have been pushed.
Delivered(r) == IF r.batch THEN r.rows - 1 ELSE r.rows

Rows(engine, n) ==
    IF engine = "fast" THEN [fast |-> n, portable |-> 0] ELSE [fast |-> 0, portable |-> n]
Whole(engine) == Rows(engine, IF engine = "fast" THEN FastRows ELSE PortableRows)

\* A view that has taken n batches of its engine.
Shows(active, complete, failed, tree) ==
    [active |-> active, complete |-> complete, failed |-> failed, tree |-> tree]
Partly(engine, n) == Shows(engine, FALSE, FALSE, Rows(engine, n))
OneMore(tree, engine) == [tree EXCEPT ![engine] = @ + 1]

\* What a view shows in the end that has taken all messages of worker w.
Leads(end, w, delivered) ==
    \/ w.at = "fast" /\ end = Partly("fast", delivered)
    \/ w.at = "portable" /\ end = Partly("portable", w.rows)
    \/ w.at = "ended" /\ end.complete /\ (~end.failed => end.tree = Whole(end.active))

Streams(shows, q, w, delivered) ==
    /\ \A i \in DOMAIN q : q[i] \in Ending => i = Len(q)
    /\ shows.complete => q = <<>>
    /\ Leads(AppliedAll(shows, q), w, delivered)

Fed(v) ==
    LET s == view[v].scan
    IN  Streams(view[v].shows, queue[s], worker[s], Delivered(call[s]))

\* Nothing is queued for a scan that has not begun, and nobody has cancelled it.
Begun(s) ==
    /\ worker[s].rows \in Nat
    /\ worker[s].at # "none" => worker[s].view \in Views
    /\ worker[s].at = "none" => queue[s] = <<>> /\ worker[s].rows = 0 /\ s \notin cancelled

\* A view and the worker of its scan know each other.
Linked(v) ==
    /\ view[v].shows \in ShownRecords
    /\ view[v].live => /\ worker[view[v].scan].at # "none" /\ worker[view[v].scan].view = v
                       /\ ~view[v].stopped => view[v].scan \notin cancelled
    /\ ~view[v].live => view[v].scan = 0

\* Only a call that reads has a batch in its hands.
HandsEmpty == \A c \in Calls : call[c].batch => call[c].at = "reading"

LinkInv == /\ \A s \in Scans : Begun(s)
           /\ HandsEmpty
           /\ \A v \in Views : Linked(v)

FeedInv == \A v \in Views : view[v].live /\ ~view[v].stopped => Fed(v)

TreeInv == ScanInv /\ LinkInv /\ FeedInv /\ TasksAreScans

LEMMA TreeInvShowsOneScan == TreeInv => TreeIsOneScan
<1> SUFFICES ASSUME TreeInv, NEW v \in Views,
                    view[v].live, view[v].shows.complete, ~view[v].stopped, ~view[v].shows.failed
             PROVE  view[v].shows.tree = Whole(view[v].shows.active)
  BY DEF TreeIsOneScan, Whole, Rows
<1> DEFINE shows == view[v].shows
<1>1. Fed(v) /\ shows \in ShownRecords
  BY DEF TreeInv, FeedInv, LinkInv, Linked
<1>2. PICK q, w, d : Streams(shows, q, w, d)
  BY <1>1 DEF Fed
<1> HIDE DEF shows
<1>3. q = <<>>
  BY <1>2 DEF Streams, shows
<1>4. AppliedAll(shows, q) = shows
  <2>1. <<>> \in Seq(Messages) /\ Len(<<>>) = 0
    OBVIOUS
  <2>2. PICK f : Series(f, shows, <<>>) /\ AppliedAll(shows, <<>>) = f[0]
    BY <2>1, SeriesOf
  <2> QED  BY <1>3, <2>2 DEF Series
<1>5. Leads(shows, w, d)
  BY <1>2, <1>4 DEF Streams
<1> QED  BY <1>5 DEF Leads, Partly, Shows, shows

----
(* The worker.                                                             *)

\* One batch more in a tree, or none left.
LEMMA BatchApplied ==
    ASSUME NEW active, NEW complete, NEW failed, NEW tree, NEW engine \in {"fast", "portable"}
    PROVE  Applied(Shows(active, complete, failed, tree), engine)
              = Shows(active, complete, failed, OneMore(tree, engine))
<1> DEFINE p == Shows(active, complete, failed, tree)
           more == OneMore(tree, engine)
<1>1. p.tree = tree
  BY DEF Shows
<1>2. Applied(p, engine) = [p EXCEPT !.tree = more]
  <2> HIDE DEF p
  <2> QED  BY <1>1 DEF Applied, OneMore
<1> HIDE DEF more
<1>3. [p EXCEPT !.tree = more] = Shows(active, complete, failed, more)
  BY DEF Shows
<1> QED  BY <1>2, <1>3 DEF more, p

IsFalse(x) == x = FALSE

LEMMA ResetApplied ==
    ASSUME NEW active, NEW complete, NEW failed, NEW tree, NEW no, IsFalse(no)
    PROVE  Applied(Shows(active, complete, failed, tree), "reset")
              = Shows("portable", complete, no, NoTree)
<1> DEFINE p == Shows(active, complete, failed, tree)
           none == NoTree
           portable == "portable"
<1>5. no = FALSE
  BY DEF IsFalse
<1>1. Applied(p, "reset") = [p EXCEPT !.tree = none, !.active = portable, !.failed = no]
  BY <1>5 DEF Applied
<1> HIDE DEF none, portable
<1>2. [p EXCEPT !.tree = none] = Shows(active, complete, failed, none)
  BY DEF Shows
<1>3. [Shows(active, complete, failed, none) EXCEPT !.active = portable]
         = Shows(portable, complete, failed, none)
  BY DEF Shows
<1>4. [Shows(portable, complete, failed, none) EXCEPT !.failed = no] = Shows(portable, complete, no, none)
  BY DEF Shows
<1> QED  BY <1>1, <1>2, <1>3, <1>4 DEF none, portable, p

LEMMA PartlyApplied ==
    ASSUME NEW n \in Int
    PROVE  /\ \A engine \in {"fast", "portable"} :
                 /\ Applied(Partly(engine, n), engine) = Partly(engine, n + 1)
                 /\ Partly(engine, n).active = engine
                 /\ Partly(engine, n).complete = FALSE /\ Partly(engine, n).failed = FALSE
                 /\ Partly(engine, n).tree = Rows(engine, n)
           /\ Applied(Partly("fast", n), "reset") = Partly("portable", 0)
<1>1. ASSUME NEW engine \in {"fast", "portable"}
      PROVE  OneMore(Rows(engine, n), engine) = Rows(engine, n + 1)
  <2>1. \A t : t = [fast |-> n, portable |-> 0] =>
           [t EXCEPT !["fast"] = @ + 1] = [fast |-> n + 1, portable |-> 0]
    OBVIOUS
  <2>2. \A t : t = [fast |-> 0, portable |-> n] =>
           [t EXCEPT !["portable"] = @ + 1] = [fast |-> 0, portable |-> n + 1]
    OBVIOUS
  <2> QED  BY <2>1, <2>2 DEF Rows, OneMore
<1>2. ASSUME NEW engine \in {"fast", "portable"}
      PROVE  Applied(Partly(engine, n), engine) = Partly(engine, n + 1)
  <2> DEFINE no == FALSE
  <2>1. \A k : Partly(engine, k) = Shows(engine, no, no, Rows(engine, k))
    BY DEF Partly
  <2> DEFINE rows == Rows(engine, n)
  <2> HIDE DEF no, rows
  <2>2. Applied(Shows(engine, no, no, rows), engine) = Shows(engine, no, no, OneMore(rows, engine))
    BY BatchApplied
  <2> QED  BY <1>1, <2>1, <2>2 DEF rows
<1>3. Applied(Partly("fast", n), "reset") = Partly("portable", 0)
  <2>1. Rows("portable", 0) = NoTree
    BY DEF Rows, NoTree
  <2> DEFINE no == FALSE
             fast == "fast"
  <2>2. /\ Partly(fast, n) = Shows(fast, no, no, Rows(fast, n)) /\ fast \in {"fast", "portable"}
        /\ Partly("portable", 0) = Shows("portable", no, no, Rows("portable", 0))
    BY DEF Partly
  <2>4. IsFalse(no)
    BY DEF IsFalse
  <2> HIDE DEF no, fast
  <2> DEFINE rows == Rows(fast, n)
  <2> HIDE DEF rows
  <2>3. Applied(Shows(fast, no, no, rows), "reset") = Shows("portable", no, no, NoTree)
    BY <2>4, ResetApplied
  <2> QED  BY <2>1, <2>2, <2>3 DEF fast, rows
<1> QED  BY <1>2, <1>3 DEF Partly, Shows

LEMMA LastApplied ==
    ASSUME NEW end, NEW shown \in ShownRecords, end = shown
    PROVE  /\ Applied(end, "done").complete = TRUE /\ Applied(end, "done").failed = FALSE
           /\ Applied(end, "done").tree = end.tree /\ Applied(end, "done").active = end.active
           /\ Applied(end, "error").complete = TRUE /\ Applied(end, "error").failed = TRUE
  BY DEF Applied, ShownRecords

\* One message more for the view, and the worker is as far as it says.
LEMMA StreamGrows ==
    ASSUME NEW shows \in ShownRecords, NEW q \in Seq(Messages), NEW m \in Messages,
           NEW w, NEW d, NEW w2, NEW d2,
           Streams(shows, q, w, d), w.at # "ended",
           Leads(Applied(AppliedAll(shows, q), m), w2, d2)
    PROVE  Streams(shows, Append(q, m), w2, d2)
<1> DEFINE end == AppliedAll(shows, q)
           more == Append(q, m)
<1>1. AppliedAll(shows, more) = Applied(end, m)
  BY AppliesOneMore
<1>2. end.complete <=> shows.complete \/ Terminal(q)
  BY AppliesFine
<1>3. end.complete = FALSE
  <2>1. Leads(end, w, d)
    BY DEF Streams
  <2> HIDE DEF end
  <2> QED  BY <2>1 DEF Leads, Partly, Shows
<1>4. /\ Len(q) \in Nat /\ DOMAIN q = 1..Len(q) /\ Len(more) = Len(q) + 1
      /\ DOMAIN more = 1..(Len(q) + 1) /\ \A i \in 1..Len(q) : more[i] = q[i]
  BY Appended
<1> HIDE DEF end, more
<1>5. ~shows.complete /\ \A i \in 1..Len(q) : more[i] \notin Ending
  BY <1>2, <1>3, <1>4 DEF Terminal, Ending
<1>6. \A i \in DOMAIN more : more[i] \in Ending => i = Len(more)
  BY <1>4, <1>5
<1>7. Leads(AppliedAll(shows, more), w2, d2)
  BY <1>1 DEF end
<1> QED  BY <1>5, <1>6, <1>7 DEF Streams, more

\* What a worker that is not cancelled pushes is what its view is to take next.
Feeds(s, shows, m) ==
    /\ queue'[s] = Append(queue[s], m) /\ worker[s].at # "ended"
    /\ Leads(Applied(AppliedAll(shows, queue[s]), m), worker'[s], Delivered(call'[s]))

LEMMA PushesOn ==
    ASSUME WorkInv, NEW s \in Scans, s \notin cancelled, NEW m, Pushes(s, m)
    PROVE  queue'[s] = Append(queue[s], m)
  BY DEF WorkInv, Pushes

LEMMA WorksOn ==
    ASSUME WorkInv, NEW s \in Scans, NEW at, Works(s, at)
    PROVE  worker'[s].at = at /\ worker'[s].rows = 0
<1>1. worker[s] \in ScanRecords(worker[s])
  BY DEF WorkInv
<1>2. [[worker[s] EXCEPT !.at = at] EXCEPT !.rows = 0].at = at
  BY <1>1 DEF ScanRecords
<1>3. [[worker[s] EXCEPT !.at = at] EXCEPT !.rows = 0].rows = 0
  BY <1>1 DEF ScanRecords
<1>4. worker'[s] = [[worker[s] EXCEPT !.at = at] EXCEPT !.rows = 0]
  BY DEF WorkInv, Works
<1> QED  BY <1>2, <1>3, <1>4

\* The end of a scan that has sent what it had.
LEMMA EndsWhole ==
    ASSUME NEW engine \in {"fast", "portable"}, NEW n \in Nat, NEW w, NEW d, w.at = "ended"
    PROVE  /\ Partly(engine, n).tree = Whole(engine) =>
                 Leads(Applied(Partly(engine, n), "done"), w, d)
           /\ Leads(Applied(Partly(engine, n), "error"), w, d)
<1> DEFINE p == Partly(engine, n)
<1>1. p \in ShownRecords /\ p.active = engine
  BY DEF Partly, Shows, ShownRecords, Rows
<1> HIDE DEF p
<1>2. /\ Applied(p, "done").complete = TRUE /\ Applied(p, "done").failed = FALSE
      /\ Applied(p, "done").tree = p.tree /\ Applied(p, "done").active = p.active
      /\ Applied(p, "error").complete = TRUE /\ Applied(p, "error").failed = TRUE
  BY <1>1, LastApplied
<1> DEFINE done == Applied(p, "done")
           error == Applied(p, "error")
<1> HIDE DEF done, error
<1>3. Leads(error, w, d)
  BY <1>2 DEF Leads, error
<1>4. p.tree = Whole(engine) => Leads(done, w, d)
  BY <1>1, <1>2 DEF Leads, done
<1> QED  BY <1>3, <1>4 DEF done, error, p

LEMMA OnEventFeeds ==
    ASSUME ScanInv, LinkInv, NEW s \in Scans, s \notin cancelled, NEW shows,
           Leads(AppliedAll(shows, queue[s]), worker[s], Delivered(call[s])), OnEvent(s)
    PROVE  Feeds(s, shows, "fast")
<1>1. WorkInv /\ s \in Calls /\ call = [c \in Calls |-> call[c]] /\ CallFine(call[s])
  BY DEF ScanInv, ProtocolInv, PipesFine, CallsFine, Scans
<1>2. /\ worker[s].at = "fast" /\ call[s].batch /\ UNCHANGED worker
      /\ Pushes(s, "fast") /\ call' = [call EXCEPT ![s].batch = FALSE]
  BY DEF OnEvent, Handled
<1>3. call[s] \in CallRecords(call[s].id) /\ call[s].rows \in Nat
  BY <1>1 DEF CallFine, CallRecords
<1>4. call'[s] = [call[s] EXCEPT !.batch = FALSE]
  BY <1>1, <1>2
<1>5. call'[s].rows = call[s].rows /\ ~call'[s].batch
  BY <1>3, <1>4 DEF CallRecords
<1> DEFINE n == call[s].rows - 1
<1>6. /\ n \in Int /\ n + 1 = call[s].rows
      /\ Delivered(call[s]) = n /\ Delivered(call'[s]) = n + 1
  BY <1>2, <1>3, <1>5 DEF Delivered
<1> HIDE DEF n
<1>7. AppliedAll(shows, queue[s]) = Partly("fast", n)
  BY <1>2, <1>6 DEF Leads
<1>8. Applied(AppliedAll(shows, queue[s]), "fast") = Partly("fast", n + 1)
  BY <1>6, <1>7, PartlyApplied
<1>9. Leads(Partly("fast", n + 1), worker'[s], n + 1)
  BY <1>2 DEF Leads
<1> QED  BY <1>1, <1>2, <1>6, <1>8, <1>9, PushesOn DEF Feeds

LEMMA AfterFastFeeds ==
    ASSUME ScanInv, LinkInv, NEW s \in Scans, s \notin cancelled, NEW shows,
           Leads(AppliedAll(shows, queue[s]), worker[s], Delivered(call[s])), AfterFastScan(s)
    PROVE  \E m \in Messages : Feeds(s, shows, m)
<1>1. WorkInv /\ s \in Calls /\ CallFine(call[s]) /\ ~call[s].batch
  BY DEF ScanInv, ProtocolInv, CallsFine, Scans, LinkInv, HandsEmpty, AfterFastScan
<1>2. worker[s].at = "fast" /\ worker[s].at # "ended"
  BY DEF AfterFastScan
<1> DEFINE n == call[s].rows
           end == AppliedAll(shows, queue[s])
<1>3. n \in Nat /\ end = Partly("fast", n)
  BY <1>1, <1>2 DEF Leads, Delivered, CallFine, CallRecords
<1> HIDE DEF end, n
<1>4. CASE call[s].result = "complete"
  <2>1. Pushes(s, "done") /\ Works(s, "ended")
    BY <1>4 DEF AfterFastScan
  <2>2. queue'[s] = Append(queue[s], "done") /\ worker'[s].at = "ended"
    BY <1>1, <2>1, PushesOn, WorksOn
  <2>3. n = FastRows
    BY <1>1, <1>4 DEF CallFine, n
  <2>4. Partly("fast", n).tree = Whole("fast")
    BY <2>3 DEF Partly, Shows, Whole
  <2>5. Leads(Applied(end, "done"), worker'[s], Delivered(call'[s]))
    BY <1>3, <2>2, <2>4, EndsWhole
  <2> QED  BY <1>2, <2>2, <2>5 DEF Feeds, end, Messages
<1>5. CASE call[s].result # "complete"
  <2>1. Pushes(s, "reset") /\ Works(s, "portable")
    BY <1>5 DEF AfterFastScan, FallBack
  <2>2. queue'[s] = Append(queue[s], "reset") /\ worker'[s].at = "portable" /\ worker'[s].rows = 0
    BY <1>1, <2>1, PushesOn, WorksOn
  <2>3. Applied(end, "reset") = Partly("portable", 0)
    <3>1. n \in Int
      BY <1>3
    <3>2. Applied(Partly("fast", n), "reset") = Partly("portable", 0)
      BY <3>1, PartlyApplied
    <3> QED  BY <1>3, <3>2
  <2>4. Leads(Applied(end, "reset"), worker'[s], Delivered(call'[s]))
    BY <2>2, <2>3 DEF Leads
  <2> QED  BY <1>2, <2>2, <2>4 DEF Feeds, end, Messages
<1> QED  BY <1>4, <1>5

LEMMA PortableFeeds ==
    ASSUME ScanInv, LinkInv, NEW s \in Scans, s \notin cancelled, NEW shows,
           Leads(AppliedAll(shows, queue[s]), worker[s], Delivered(call[s])), PortableScan(s)
    PROVE  \E m \in Messages : Feeds(s, shows, m)
<1>1. WorkInv /\ worker[s].rows \in Nat
  BY DEF ScanInv, LinkInv, Begun
<1>2. worker[s].at = "portable" /\ worker[s].at # "ended"
  BY DEF PortableScan
<1> DEFINE n == worker[s].rows
           end == AppliedAll(shows, queue[s])
<1>3. n \in Nat /\ end = Partly("portable", n)
  BY <1>1, <1>2 DEF Leads
<1> HIDE DEF end, n
<1>4. CASE Pushes(s, "portable") /\ worker' = [worker EXCEPT ![s].rows = @ + 1]
  <2>1. queue'[s] = Append(queue[s], "portable")
    BY <1>1, <1>4, PushesOn
  <2>2. worker'[s].at = "portable" /\ worker'[s].rows = n + 1
    <3>1. worker'[s] = [worker[s] EXCEPT !.rows = n + 1] /\ worker[s] \in ScanRecords(worker[s])
      BY <1>1, <1>4 DEF WorkInv, n
    <3> QED  BY <1>2, <3>1 DEF ScanRecords
  <2>3. Applied(end, "portable") = Partly("portable", n + 1)
    <3>1. n \in Int
      BY <1>3
    <3>2. Applied(Partly("portable", n), "portable") = Partly("portable", n + 1)
      BY <3>1, PartlyApplied
    <3> QED  BY <1>3, <3>2
  <2>4. Leads(Applied(end, "portable"), worker'[s], Delivered(call'[s]))
    BY <2>2, <2>3 DEF Leads
  <2> QED  BY <1>2, <2>1, <2>4 DEF Feeds, end, Messages
<1>5. CASE n = PortableRows /\ Pushes(s, "done") /\ Works(s, "ended")
  <2>1. queue'[s] = Append(queue[s], "done") /\ worker'[s].at = "ended"
    BY <1>1, <1>5, PushesOn, WorksOn
  <2>2. Partly("portable", n).tree = Whole("portable")
    BY <1>5 DEF Partly, Shows, Whole
  <2>3. Leads(Applied(end, "done"), worker'[s], Delivered(call'[s]))
    BY <1>3, <2>1, <2>2, EndsWhole
  <2> QED  BY <1>2, <2>1, <2>3 DEF Feeds, end, Messages
<1>6. CASE Pushes(s, "error") /\ Works(s, "ended")
  <2>1. queue'[s] = Append(queue[s], "error") /\ worker'[s].at = "ended"
    BY <1>1, <1>6, PushesOn, WorksOn
  <2>2. Leads(Applied(end, "error"), worker'[s], Delivered(call'[s]))
    BY <1>3, <2>1, EndsWhole
  <2> QED  BY <1>2, <2>1, <2>2 DEF Feeds, end, Messages
<1> QED  BY <1>4, <1>5, <1>6 DEF PortableScan, n

\* A view that takes the messages of s goes on, whatever the worker of s does.
LEMMA WorkerFeeds ==
    ASSUME TreeInv, NEW s \in Scans, Worker(s)
    PROVE  FeedInv'
<1> SUFFICES ASSUME NEW v \in Views, view'[v].live, ~view'[v].stopped
             PROVE  Fed(v)'
  BY DEF FeedInv
<1>1. ScanInv /\ LinkInv /\ WorkInv /\ UNCHANGED <<view, cancelled>>
  BY DEF TreeInv, ScanInv, Worker, OnEvent, AfterFastScan, PortableScan, WorkerOnly
<1> DEFINE x == view[v].scan
           shows == view[v].shows
<1>2. Streams(shows, queue[x], worker[x], Delivered(call[x])) /\ x \in Scans /\ x \notin cancelled
      /\ shows \in ShownRecords
  BY <1>1, LiveScan DEF TreeInv, FeedInv, Fed, LinkInv, Linked
<1>3. view'[v].scan = x /\ view'[v].shows = shows
  BY <1>1
<1> HIDE DEF x, shows
<1>4. SUFFICES Streams(shows, queue'[x], worker'[x], Delivered(call'[x]))
  BY <1>3 DEF Fed
<1>5. CASE x # s
  <2>1. queue'[x] = queue[x]
    BY <1>1, <1>2, <1>5 DEF Worker, OnEvent, AfterFastScan, PortableScan, FallBack, Pushes, WorkInv
  <2>2. worker'[x] = worker[x]
    BY <1>1, <1>2, <1>5 DEF Worker, OnEvent, AfterFastScan, PortableScan, FallBack, Works, WorkInv
  <2>3. call'[x] = call[x]
    BY <1>1, <1>2, <1>5 DEF Worker, OnEvent, AfterFastScan, PortableScan, Handled, ScanInv, ProtocolInv, PipesFine, Scans
  <2> QED  BY <1>2, <2>1, <2>2, <2>3
<1>6. CASE x = s
  <2>1. Leads(AppliedAll(shows, queue[s]), worker[s], Delivered(call[s]))
    BY <1>2, <1>6 DEF Streams
  <2>2. s \notin cancelled
    BY <1>2, <1>6
  <2>3. PICK m \in Messages : Feeds(s, shows, m)
    <3>1. CASE OnEvent(s)
      BY <1>1, <2>1, <2>2, <3>1, OnEventFeeds DEF Messages
    <3>2. CASE AfterFastScan(s)
      BY <1>1, <2>1, <2>2, <3>2, AfterFastFeeds
    <3>3. CASE PortableScan(s)
      BY <1>1, <2>1, <2>2, <3>3, PortableFeeds
    <3> QED  BY <3>1, <3>2, <3>3 DEF Worker
  <2>4. queue[s] \in Seq(Messages)
    BY <1>1 DEF WorkInv
  <2>5. Streams(shows, Append(queue[s], m), worker'[s], Delivered(call'[s]))
    BY <1>2, <1>6, <2>3, <2>4, StreamGrows DEF Feeds
  <2> QED  BY <1>6, <2>3, <2>5 DEF Feeds
<1> QED  BY <1>5, <1>6

LEMMA WorkerLinks ==
    ASSUME ScanInv, LinkInv, NEW s \in Scans, Worker(s)
    PROVE  LinkInv' 
<1>1. /\ WorkInv /\ UNCHANGED <<view, cancelled>> /\ s \in Calls /\ call = [c \in Calls |-> call[c]]
      /\ worker[s].at \in {"fast", "portable"}
  BY DEF ScanInv, ProtocolInv, PipesFine, Scans, Worker, OnEvent, AfterFastScan, PortableScan, WorkerOnly
<1>2. /\ worker[s] \in ScanRecords(worker[s]) /\ worker[s].rows \in Nat
      /\ \A x \in Scans : x # s => queue'[x] = queue[x] /\ worker'[x] = worker[x]
  BY <1>1 DEF LinkInv, Begun, Worker, OnEvent, AfterFastScan, PortableScan, FallBack, Pushes, Works, WorkInv
<1>3. /\ worker'[s].view = worker[s].view /\ worker'[s].rows \in Nat
      /\ worker'[s].at # "none"
  <2> DEFINE moved(at) == [worker[s] EXCEPT !.at = at, !.rows = 0]
             more == [worker[s] EXCEPT !.rows = @ + 1]
  <2>1. \A at \in {"ended", "portable"} : /\ moved(at).at = at /\ moved(at).rows = 0
                                          /\ moved(at).view = worker[s].view
    BY <1>2 DEF ScanRecords
  <2>2. more.at = worker[s].at /\ more.rows = worker[s].rows + 1 /\ more.view = worker[s].view
    BY <1>2 DEF ScanRecords
  <2>3. worker'[s] \in {worker[s], more, moved("ended"), moved("portable")}
    BY <1>1 DEF Worker, OnEvent, AfterFastScan, PortableScan, FallBack, Works, WorkInv
  <2> HIDE DEF moved, more
  <2> QED  BY <1>1, <1>2, <2>1, <2>2, <2>3
<1>4. HandsEmpty'
  <2> SUFFICES ASSUME NEW c \in Calls, call'[c].batch
               PROVE  call'[c].at = "reading"
    BY DEF HandsEmpty
  <2>1. CASE call'[c] = call[c]
    BY <2>1 DEF LinkInv, HandsEmpty
  <2>2. CASE call'[c] = Idle
    BY <2>2 DEF Idle
  <2>3. CASE c = s /\ call'[c] = [call[c] EXCEPT !.batch = FALSE]
    <3>1. call[c] \in CallRecords(call[c].id)
      BY DEF ScanInv, ProtocolInv, CallsFine, CallFine
    <3> QED  BY <2>3, <3>1 DEF CallRecords
  <2> QED
    BY <1>1, <2>1, <2>2, <2>3 DEF Worker, OnEvent, AfterFastScan, PortableScan, Handled
<1>5. ASSUME NEW x \in Scans PROVE Begun(x)'
  BY <1>1, <1>2, <1>3 DEF LinkInv, Begun
<1>6. ASSUME NEW v \in Views PROVE Linked(v)'
  <2>1. view[v].live => view[v].scan \in Scans
    BY <1>1, LiveScan
  <2>2. Linked(v)
    BY DEF LinkInv
  <2> QED  BY <1>1, <1>2, <1>3, <2>1, <2>2 DEF Linked
<1> QED  BY <1>4, <1>5, <1>6 DEF LinkInv

----
(* The client: nothing it does delivers a batch.                           *)

LEMMA ClientDelivers ==
    ASSUME ProtocolInv, HandsEmpty, NEW c \in Calls, Client(c)
    PROVE  /\ HandsEmpty'
           /\ \A x \in Calls : Delivered(call'[x]) = Delivered(call[x])
<1>1. call = [x \in Calls |-> call[x]] /\ CallFine(call[c]) /\ call[c] \in CallRecords(call[c].id)
  BY DEF ProtocolInv, PipesFine, CallsFine, CallFine
<1> DEFINE r == call[c]
           Held(new) == /\ Delivered(new) = Delivered(r)
                        /\ new.batch => new.at = "reading"
<1> SUFFICES ASSUME NEW new, new = call'[c], \A x \in Calls : x # c => call'[x] = call[x]
             PROVE  Held(new)
  <2>1. \A x \in Calls : x # c => call'[x] = call[x]
    BY <1>1 DEF Client, ProbeFails, Lock, Launch, ReadHello, ConnectFails, SendStart, ReadEvent,
                StopHelper, GraceEnds, ReadFails, Fails, Returns, Goes
  <2>2. Held(call'[c])
    BY <2>1
  <2> QED  BY <2>1, <2>2 DEF HandsEmpty
<1>2. r.at # "reading" => ~r.batch
  BY DEF HandsEmpty
<1>3. ASSUME ~r.batch, new = r \/ \E at : new = [r EXCEPT !.at = at]
      PROVE  Held(new)
  BY <1>1, <1>3 DEF CallRecords, Delivered
<1>4. ASSUME ~r.batch, NEW result, Returns(c, result)
      PROVE  Held(new)
  <2>1. new = [Idle EXCEPT !.at = "returned", !.result = result, !.rows = r.rows]
    BY <1>1, <1>4 DEF Returns
  <2>2. new.rows = r.rows /\ ~new.batch
    BY <2>1 DEF Idle
  <2> QED  BY <1>4, <2>2 DEF Delivered
<1>5. ASSUME ~r.batch, NEW at, NEW result, new = [r EXCEPT !.at = at, !.result = result]
      PROVE  Held(new)
  <2>1. new.rows = r.rows /\ ~new.batch
    BY <1>1, <1>5 DEF CallRecords
  <2> QED  BY <1>5, <2>1 DEF Delivered
<1> HIDE DEF Held
<1>6. CASE ProbeFails(c)
  <2>1. new = [r EXCEPT !.at = "returned", !.result = "platform"] /\ ~r.batch
    BY <1>1, <1>2, <1>6 DEF ProbeFails
  <2> QED  BY <2>1, <1>5
<1>7. CASE Lock(c) \/ Launch(c) \/ ReadHello(c) \/ ConnectFails(c) \/ SendStart(c)
  <2>1. ~r.batch
    BY <1>2, <1>7 DEF Lock, Launch, ReadHello, ConnectFails, SendStart
  <2>2. \/ \E result : Returns(c, result)
        \/ \E at : Goes(c, at)
    BY <1>7 DEF Lock, Launch, ReadHello, ConnectFails, SendStart, Fails
  <2>3. ASSUME NEW at, Goes(c, at) PROVE new = [r EXCEPT !.at = at]
    BY <1>1, <2>3 DEF Goes
  <2> QED  BY <2>1, <2>2, <2>3, <1>3, <1>4
<1>8. CASE GraceEnds(c) \/ ReadFails(c)
  <2>1. ~r.batch
    BY <1>2, <1>8 DEF GraceEnds, ReadFails, Reading
  <2>2. \E result : Returns(c, result)
    BY <1>8 DEF GraceEnds, ReadFails, Fails
  <2> QED  BY <2>1, <2>2, <1>4
<1>9. CASE StopHelper(c)
  <2>1. ~r.batch
    BY <1>9 DEF StopHelper, Reading
  <2>2. \E result : call' = [call EXCEPT ![c].result = result, ![c].at = "cancelling"]
    BY <1>9 DEF StopHelper
  <2>3. PICK result : call' = [call EXCEPT ![c].result = result, ![c].at = "cancelling"]
    BY <2>2
  <2>4. new = [r EXCEPT !.at = "cancelling", !.result = result]
    BY <1>1, <2>3 DEF CallRecords
  <2> QED  BY <2>1, <2>4, <1>5
<1>10. CASE ReadEvent(c)
  <2>1. ~r.batch /\ r.at = "reading"
    BY <1>10 DEF ReadEvent, Reading
  <2> DEFINE f == Head(toClient[session])
             isBatch == f.kind = "Batch"
  <2>2. CASE \E result : Returns(c, result)
    BY <2>1, <2>2, <1>4
  <2>3. CASE call' = [call EXCEPT ![c].ready = TRUE, ![c].batch = isBatch,
                                  ![c].rows = IF isBatch THEN @ + 1 ELSE @]
    <3> DEFINE rows == IF isBatch THEN r.rows + 1 ELSE r.rows
    <3>1. isBatch \in BOOLEAN
      OBVIOUS
    <3>2. r.rows \in Nat
      BY <1>1 DEF CallRecords
    <3> HIDE DEF isBatch
    <3>3. call' = [call EXCEPT ![c] = [[[r EXCEPT !.ready = TRUE] EXCEPT !.batch = isBatch] EXCEPT !.rows = rows]]
      BY <1>1, <2>3 DEF CallRecords
    <3> HIDE DEF rows
    <3>4. new = [[[r EXCEPT !.ready = TRUE] EXCEPT !.batch = isBatch] EXCEPT !.rows = rows]
      BY <1>1, <3>3
    <3>5. new.batch = isBatch /\ new.rows = rows /\ new.at = r.at
      BY <1>1, <3>4 DEF CallRecords
    <3> QED  BY <2>1, <3>1, <3>2, <3>5 DEF Held, Delivered, rows
  <2> QED  BY <1>10, <2>2, <2>3 DEF ReadEvent
<1> QED  BY <1>6, <1>7, <1>8, <1>9, <1>10 DEF Client

LEMMA OthersFeed ==
    ASSUME TreeInv, UNCHANGED duVars, UNCHANGED cancelled, HandsEmpty',
           \A x \in Calls : Delivered(call'[x]) = Delivered(call[x])
    PROVE  LinkInv' /\ FeedInv' /\ TasksAreScans'
<1>1. /\ WorkInv /\ LinkInv /\ FeedInv /\ TasksAreScans
      /\ view' = view /\ worker' = worker /\ queue' = queue /\ tasks' = tasks /\ cancelled' = cancelled
  BY DEF TreeInv, ScanInv, duVars
<1>2. LinkInv'
  BY <1>1 DEF LinkInv, Begun, Linked
<1>3. FeedInv'
  <2> SUFFICES ASSUME NEW v \in Views, view'[v].live, ~view'[v].stopped
               PROVE  Fed(v)'
    BY DEF FeedInv
  <2>1. Fed(v) /\ view[v].scan \in Calls
    BY <1>1, LiveScan DEF FeedInv, Scans
  <2> QED  BY <1>1, <2>1 DEF Fed
<1>4. TasksAreScans'
  BY <1>1 DEF TasksAreScans
<1> QED  BY <1>2, <1>3, <1>4

----
(* The drain loop.                                                         *)

\* A tick takes the first n messages, and the rest is dropped after the last one.
LEMMA StreamDrained ==
    ASSUME NEW shows \in ShownRecords, NEW q \in Seq(Messages), NEW w, NEW d, Streams(shows, q, w, d),
           NEW n \in Nat, n # 0, n <= Len(q)
    PROVE  /\ Streams(AppliedAll(shows, SubSeq(q, 1, n)), SubSeq(q, n + 1, Len(q)), w, d)
           /\ AppliedAll(shows, SubSeq(q, 1, n)) \in ShownRecords
           /\ ~shows.complete
           /\ AppliedAll(shows, SubSeq(q, 1, n)).complete <=> Terminal(SubSeq(q, 1, n))
           /\ Terminal(SubSeq(q, 1, n)) => SubSeq(q, n + 1, Len(q)) = <<>>
<1> DEFINE msgs == SubSeq(q, 1, n)
           mid == AppliedAll(shows, msgs)
           rest == SubSeq(q, n + 1, Len(q))
           all == Len(q)
<1>1. /\ all \in Nat /\ DOMAIN q = 1..all /\ n <= all /\ q # <<>>
  OBVIOUS
<1>2. /\ msgs \in Seq(Messages) /\ Len(msgs) = n /\ \A i \in 1..n : msgs[i] = q[i]
      /\ rest \in Seq(Messages) /\ Len(rest) = all - n
      /\ \A i \in 1..(all - n) : rest[i] = q[n + i]
      /\ AppliedAll(mid, rest) = AppliedAll(shows, q)
  BY AppliesInTwo
<1>3. DOMAIN msgs = 1..n /\ DOMAIN rest = 1..(all - n)
  BY <1>2
<1> HIDE DEF rest, all, msgs
<1>4. ~shows.complete
  BY <1>1 DEF Streams
<1>5. mid \in ShownRecords /\ (mid.complete <=> Terminal(msgs))
  BY <1>2, <1>4, AppliesFine
<1>6. \A i \in 1..all : q[i] \in Ending => i = all
  BY <1>1 DEF Streams, all
<1>7. Terminal(msgs) => rest = <<>>
  <2> SUFFICES ASSUME Terminal(msgs) PROVE rest = <<>>
    OBVIOUS
  <2>1. PICK i \in 1..n : msgs[i] \in Ending
    BY <1>3 DEF Terminal, Ending
  <2>2. i \in 1..all /\ i = all
    BY <1>1, <1>2, <1>6, <2>1
  <2>3. all - n = 0
    BY <1>1, <2>1, <2>2
  <2> QED  BY <1>2, <2>3
<1>9. \A i \in DOMAIN rest : rest[i] \in Ending => i = Len(rest)
  BY <1>1, <1>2, <1>3, <1>6
<1>10. Leads(AppliedAll(mid, rest), w, d)
  BY <1>2 DEF Streams
<1>8. mid.complete => rest = <<>>
  BY <1>5, <1>7
<1> HIDE DEF mid
<1>11. Streams(mid, rest, w, d)
  BY <1>8, <1>9, <1>10 DEF Streams
<1> QED  BY <1>4, <1>5, <1>7, <1>11 DEF rest, all, msgs, mid

LEMMA DrainKeepsTree ==
    ASSUME TreeInv, NEW s \in Scans, Drain(s)
    PROVE  LinkInv' /\ FeedInv' /\ TasksAreScans'
<1>1. WorkInv /\ LinkInv /\ FeedInv /\ TasksAreScans
  BY DEF TreeInv, ScanInv
<1> DEFINE v == worker[s].view
           q == queue[s]
           n == IF Len(q) < MaxPerTick THEN Len(q) ELSE MaxPerTick
           msgs == SubSeq(q, 1, n)
           ends == Terminal(msgs) \/ ~AppliesTo(s)
           left == IF ends THEN <<>> ELSE SubSeq(q, n + 1, Len(q))
           shows == view[v].shows
           mid == AppliedAll(shows, msgs)
<1>2. /\ call' = call /\ worker' = worker /\ cancelled' = cancelled /\ q # <<>>
      /\ queue' = [queue EXCEPT ![s] = left]
      /\ AppliesTo(s) => /\ view' = [view EXCEPT ![v].shows = mid]
                         /\ tasks' = IF Terminal(msgs) THEN tasks \ {view[v].scan} ELSE tasks
      /\ ~AppliesTo(s) => view' = view /\ tasks' = tasks
  BY DEF Drain, ntfsVars
<1>3. /\ q \in Seq(Messages) /\ n \in Nat /\ n # 0 /\ n <= Len(q)
  <2>1. q \in Seq(Messages) /\ Len(q) \in Nat /\ Len(q) # 0
    BY <1>1, <1>2 DEF WorkInv
  <2> QED  BY <2>1, DuAssumption
<1>4. worker[s].at # "none" /\ v \in Views
  BY <1>1, <1>2 DEF LinkInv, Begun
<1>5. \A x \in Scans : x # s => queue'[x] = queue[x]
  BY <1>1, <1>2 DEF WorkInv
<1>6. queue'[s] = left
  BY <1>1, <1>2 DEF WorkInv
<1>7. \A x \in Scans : Begun(x)'
  BY <1>1, <1>2, <1>4, <1>5 DEF LinkInv, Begun
<1>8. HandsEmpty'
  BY <1>1, <1>2 DEF LinkInv, HandsEmpty
<1>9. \A u \in Views : Linked(u) /\ (view[u].live => view[u].scan \in Scans)
  BY <1>1, LiveScan DEF LinkInv
<1>10. ASSUME NEW u \in Views, view'[u] = view[u], u # v \/ ~AppliesTo(s)
       PROVE  /\ Linked(u)' /\ (view'[u].live /\ ~view'[u].stopped => Fed(u)')
              /\ view[u].live /\ ~view[u].stopped => view[u].scan # s
  <2>1. view[u].live /\ ~view[u].stopped => view[u].scan # s
    BY <1>9, <1>10 DEF Linked, AppliesTo, Owns
  <2>2. Linked(u)'
    BY <1>2, <1>9, <1>10 DEF Linked
  <2>3. ASSUME view'[u].live, ~view'[u].stopped PROVE Fed(u)'
    <3>1. Fed(u) /\ view[u].scan \in Scans /\ view[u].scan # s
      BY <1>1, <1>9, <1>10, <2>1, <2>3 DEF FeedInv
    <3>2. queue'[view[u].scan] = queue[view[u].scan]
      BY <1>5, <3>1
    <3> QED  BY <1>2, <1>10, <3>1, <3>2 DEF Fed
  <2> QED  BY <2>1, <2>2, <2>3
<1>11. CASE ~AppliesTo(s)
  <2>1. view' = view /\ tasks' = tasks
    BY <1>2, <1>11
  <2>2. TasksAreScans'
    BY <1>1, <2>1 DEF TasksAreScans
  <2> QED  BY <1>7, <1>8, <1>10, <1>11, <2>1, <2>2 DEF LinkInv, FeedInv
<1>12. CASE AppliesTo(s)
  <2>1. view[v].live /\ view[v].scan = s /\ ~view[v].stopped
    BY <1>12 DEF AppliesTo, Owns
  <2>2. left = IF Terminal(msgs) THEN <<>> ELSE SubSeq(q, n + 1, Len(q))
    BY <1>12
  <2>3. shows \in ShownRecords /\ Streams(shows, q, worker[s], Delivered(call[s]))
    BY <1>1, <1>4, <1>9, <2>1 DEF FeedInv, Fed, Linked
  <2> DEFINE ended == Terminal(msgs)
  <2>4. /\ Streams(mid, left, worker[s], Delivered(call[s])) /\ mid \in ShownRecords
        /\ ~shows.complete /\ (mid.complete <=> ended)
    <3> DEFINE rest == SubSeq(q, n + 1, Len(q))
               d == Delivered(call[s])
    <3> HIDE DEF q, n, left, shows, d
    <3>1. /\ Streams(mid, rest, worker[s], d) /\ mid \in ShownRecords
          /\ ~shows.complete /\ (mid.complete <=> ended) /\ (ended => rest = <<>>)
      BY <1>3, <2>3, StreamDrained DEF d
    <3>2. left = rest
      BY <2>2, <3>1
    <3> QED  BY <3>1, <3>2 DEF d
  <2>5. /\ view' = [view EXCEPT ![v].shows = mid]
        /\ tasks' = IF ended THEN tasks \ {s} ELSE tasks
    BY <1>2, <1>12, <2>1
  <2> HIDE DEF mid, left, ended, msgs
  <2>6. view[v] \in ViewRecords(view[v])
    BY <1>1, <1>4 DEF WorkInv
  <2>7. /\ view'[v] = [view[v] EXCEPT !.shows = mid]
        /\ \A u \in Views : u # v => view'[u] = view[u]
    BY <1>1, <1>4, <2>5 DEF WorkInv
  <2>8. /\ view'[v].live /\ view'[v].scan = s /\ ~view'[v].stopped /\ view'[v].shows = mid
    BY <2>1, <2>6, <2>7 DEF ViewRecords
  <2>9. Linked(v)' /\ Fed(v)'
    BY <1>2, <1>4, <1>6, <1>9, <2>1, <2>4, <2>8 DEF Linked, Fed
  <2>10. \A u \in Views : Linked(u)' /\ (view'[u].live /\ ~view'[u].stopped => Fed(u)')
    <3> SUFFICES ASSUME NEW u \in Views
                 PROVE  Linked(u)' /\ (view'[u].live /\ ~view'[u].stopped => Fed(u)')
      OBVIOUS
    <3>1. CASE u = v
      BY <1>2, <2>9, <3>1 DEF Linked, Fed
    <3>2. CASE u # v
      <4>1. view'[u] = view[u]
        BY <2>7, <3>2
      <4> QED  BY <1>10, <3>2, <4>1
    <3> QED  BY <3>1, <3>2
  <2>11. TasksAreScans'
    <3> DEFINE W == {u \in Views : view[u].live /\ ~view[u].shows.complete}
               W2 == {u \in Views : view'[u].live /\ ~view'[u].shows.complete}
    <3>1. v \in W /\ tasks = {view[u].scan : u \in W}
      BY <1>1, <1>4, <2>1, <2>4 DEF TasksAreScans
    <3>2. W2 = IF ended THEN W \ {v} ELSE W
      BY <1>4, <2>1, <2>4, <2>7, <2>8
    <3>3. \A u \in W : view'[u].scan = view[u].scan
      BY <2>1, <2>7, <2>8
    <3>4. \A u \in W : u # v => view[u].scan # s
      BY <1>9, <2>1 DEF Linked
    <3>5. tasks' = {view'[u].scan : u \in W2}
      <4> HIDE DEF W, W2
      <4> QED  BY <2>1, <2>5, <3>1, <3>2, <3>3, <3>4
    <3> QED  BY <3>5 DEF TasksAreScans
  <2> QED  BY <1>7, <1>8, <2>10, <2>11 DEF LinkInv, FeedInv
<1> QED  BY <1>11, <1>12

----
(* The user.                                                               *)

\* The other views and their scans, when the scan of view v is cancelled, closed
\* or replaced by s.
LEMMA OtherViews ==
    ASSUME LinkInv, FeedInv, WorkInv, NEW v \in Views, NEW s \in Scans, NEW u \in Views, u # v,
           view'[u] = view[u], \A x \in cancelled' : x \in cancelled \/ (view[v].live /\ x = view[v].scan),
           queue' = queue, worker[s].at = "none" \/ (worker' = worker /\ call' = call),
           \A x \in Scans : x # s => worker'[x] = worker[x] /\ call'[x] = call[x]
    PROVE  /\ Linked(u)' /\ (view'[u].live /\ ~view'[u].stopped => Fed(u)')
           /\ view[u].live => /\ view[u].scan # view[v].scan \/ ~view[v].live
                              /\ view[u].scan = s => worker[s].at # "none"
<1> DEFINE x == view[u].scan
<1>1. Linked(u) /\ Linked(v) /\ (view[u].live => x \in Scans)
  BY LiveScan DEF LinkInv
<1>2. view[u].live /\ view[v].live => x # view[v].scan
  BY <1>1 DEF Linked
<1>3. view[u].live => (x = s => worker[s].at # "none")
  BY <1>1 DEF Linked
<1>4. view[u].live => worker'[x] = worker[x] /\ call'[x] = call[x]
  BY <1>1, <1>3
<1>5. Linked(u)'
  BY <1>1, <1>2, <1>4 DEF Linked
<1>6. ASSUME view'[u].live, ~view'[u].stopped PROVE Fed(u)'
  BY <1>4, <1>6 DEF FeedInv, Fed
<1> QED  BY <1>2, <1>3, <1>5, <1>6

\* A view that shows nothing, and the worker that has sent nothing.
LEMMA StartsEmpty ==
    ASSUME NEW engine \in {"fast", "portable"}, NEW w, NEW d,
           w.at = engine, w.rows = 0, engine = "fast" => d = 0
    PROVE  Empty(engine) \in ShownRecords /\ Streams(Empty(engine), <<>>, w, d)
<1> DEFINE empty == Empty(engine)
<1>1. empty = Partly(engine, 0) /\ empty.complete = FALSE /\ empty \in ShownRecords
  BY DEF Empty, Partly, Shows, Rows, NoTree, ShownRecords
<1>2. Leads(Partly(engine, 0), w, d)
  BY DEF Leads
<1> HIDE DEF empty
<1>3. AppliedAll(empty, <<>>) = empty
  <2>1. <<>> \in Seq(Messages) /\ Len(<<>>) = 0
    OBVIOUS
  <2>2. PICK f : Series(f, empty, <<>>) /\ AppliedAll(empty, <<>>) = f[0]
    BY <2>1, SeriesOf
  <2> QED  BY <2>2 DEF Series
<1> QED  BY <1>1, <1>2, <1>3 DEF Streams, empty

LEMMA StartKeepsTree ==
    ASSUME TreeInv, NEW v \in Views, NEW s \in Scans, NEW engine \in Engines, StartScan(v, s, engine),
           \A x \in cancelled' : x \in cancelled \/ (view[v].live /\ x = view[v].scan)
    PROVE  LinkInv' /\ FeedInv' /\ TasksAreScans'
<1>1. /\ WorkInv /\ LinkInv /\ FeedInv /\ TasksAreScans /\ s \in Calls /\ call = [c \in Calls |-> call[c]]
      /\ engine \in {"fast", "portable"} /\ queue' = queue /\ s # 0
  BY DuAssumption, NumbersAreTyped DEF TreeInv, ScanInv, ProtocolInv, PipesFine, Scans, StartScan
<1>2. /\ worker[s].at = "none" /\ queue[s] = <<>> /\ worker[s].rows = 0 /\ s \notin cancelled
      /\ worker[s] \in ScanRecords(worker[s])
  BY <1>1 DEF StartScan, LinkInv, Begun, WorkInv
<1> DEFINE number == view[v].generation + 1
           empty == Empty(engine)
           r == [NoView EXCEPT !.live = TRUE, !.scan = s, !.shows = empty, !.generation = number]
           w == [worker[s] EXCEPT !.at = engine, !.view = v]
<1>3. view' = [view EXCEPT ![v] = r]
  BY DEF StartScan
<1> HIDE DEF number, empty
<1>4. r.live /\ ~r.stopped /\ r.scan = s /\ r.shows = empty
  BY DEF NoView
<1> HIDE DEF r
<1>5. worker' = [worker EXCEPT ![s] = w]
  BY <1>1 DEF StartScan, WorkInv
<1>6. w.at = engine /\ w.view = v /\ w.rows = 0
  BY <1>2 DEF ScanRecords
<1> HIDE DEF w
<1>7. /\ view'[v] = r /\ \A u \in Views : u # v => view'[u] = view[u]
      /\ worker'[s] = w /\ \A x \in Scans : x # s => worker'[x] = worker[x]
  BY <1>1, <1>3, <1>5 DEF WorkInv
<1>8. engine = "fast" => Delivered(call'[s]) = 0
  <2>1. Run(s, number) => call'[s] = [[Idle EXCEPT !.at = "locking"] EXCEPT !.id = number]
    BY <1>1 DEF Run
  <2>2. [[Idle EXCEPT !.at = "locking"] EXCEPT !.id = number].rows = 0
        /\ ~[[Idle EXCEPT !.at = "locking"] EXCEPT !.id = number].batch
    BY DEF Idle
  <2> QED  BY <2>1, <2>2 DEF StartScan, number, Delivered
<1>9. /\ \A x \in Calls : x # s => call'[x] = call[x]
      /\ call'[s].batch => call'[s].at = "reading"
  <2>1. CASE engine # "fast"
    BY <1>1, <2>1 DEF StartScan, LinkInv, HandsEmpty
  <2>2. CASE engine = "fast"
    BY <1>1, <2>2 DEF StartScan, Run, Idle
  <2> QED  BY <2>1, <2>2
<1>10. ASSUME NEW u \in Views, u # v
       PROVE  /\ Linked(u)' /\ (view'[u].live /\ ~view'[u].stopped => Fed(u)')
              /\ view[u].live => view[u].scan # s /\ (view[u].scan # view[v].scan \/ ~view[v].live)
  <2>1. \A x \in Scans : x # s => worker'[x] = worker[x] /\ call'[x] = call[x]
    BY <1>7, <1>9 DEF Scans
  <2> QED  BY <1>1, <1>2, <1>7, <1>10, <2>1, OtherViews
<1>11. s \notin cancelled' /\ (view[v].live => view[v].scan # s)
  BY <1>1, <1>2 DEF LinkInv, Linked
<1>12. empty \in ShownRecords /\ Streams(empty, <<>>, worker'[s], Delivered(call'[s]))
  BY <1>1, <1>6, <1>7, <1>8, StartsEmpty DEF empty
<1>13. Linked(v)' /\ Fed(v)'
  BY <1>1, <1>2, <1>4, <1>6, <1>7, <1>11, <1>12 DEF Linked, Fed
<1>14. \A x \in Scans : Begun(x)'
  <2> SUFFICES ASSUME NEW x \in Scans PROVE Begun(x)'
    OBVIOUS
  <2>1. CASE x = s
    BY <1>1, <1>6, <1>7, <2>1 DEF Begun
  <2>2. CASE x # s
    <3>1. view[v].live => worker[view[v].scan].at # "none"
      BY <1>1 DEF LinkInv, Linked
    <3> QED  BY <1>1, <1>7, <2>2, <3>1 DEF LinkInv, Begun
  <2> QED  BY <2>1, <2>2
<1>15. HandsEmpty'
  BY <1>1, <1>9 DEF LinkInv, HandsEmpty
<1>16. LinkInv' /\ FeedInv'
  BY <1>10, <1>13, <1>14, <1>15 DEF LinkInv, FeedInv
<1>17. TasksAreScans'
  <2> DEFINE W == {u \in Views : view[u].live /\ ~view[u].shows.complete}
             W2 == {u \in Views : view'[u].live /\ ~view'[u].shows.complete}
  <2>1. tasks = {view[u].scan : u \in W} /\ tasks' = (tasks \ {view[v].scan}) \cup {s}
    BY <1>1 DEF TasksAreScans, StartScan, TasksAfterStart
  <2>2. ~empty.complete
    BY DEF empty, Empty
  <2>3. W2 = W \cup {v}
    BY <1>4, <1>7, <2>2
  <2>4. view'[v].scan = s /\ \A u \in W : u # v => view'[u].scan = view[u].scan
    BY <1>4, <1>7
  <2>5. \A u \in W : u # v => view[u].scan # view[v].scan
    <3>1. ASSUME NEW u \in W, u # v PROVE view[u].scan # view[v].scan
      <4>1. view[u].live /\ (view[u].scan # view[v].scan \/ ~view[v].live)
        BY <1>10, <3>1
      <4>2. ~view[v].live => view[v].scan = 0
        BY <1>1 DEF LinkInv, Linked
      <4>3. view[u].scan # 0
        BY <1>1, <4>1 DEF WorkInv
      <4> QED  BY <4>1, <4>2, <4>3
    <3> QED  BY <3>1
  <2>6. tasks' = {view'[u].scan : u \in W2}
    <3> HIDE DEF W, W2
    <3> QED  BY <2>1, <2>3, <2>4, <2>5
  <2> QED  BY <2>6 DEF TasksAreScans
<1> QED  BY <1>16, <1>17

\* The scan of view v is over for its view.
LEMMA EndKeepsTree ==
    ASSUME TreeInv, NEW v \in Views, NEW r, view[v].live,
           cancelled' = cancelled \cup {view[v].scan}, tasks' = tasks \ {view[v].scan},
           view' = [view EXCEPT ![v] = r], UNCHANGED <<call, worker, queue>>,
           r.shows \in ShownRecords, r.live => r.stopped /\ r.shows.complete /\ r.scan = view[v].scan,
           ~r.live => r.scan = 0
    PROVE  LinkInv' /\ FeedInv' /\ TasksAreScans'
<1>1. WorkInv /\ LinkInv /\ FeedInv /\ TasksAreScans /\ call' = call /\ worker' = worker /\ queue' = queue
  BY DEF TreeInv, ScanInv
<1>2. view[v].scan \in Scans /\ worker[view[v].scan].at # "none" /\ worker[view[v].scan].view = v
  BY <1>1, LiveScan DEF LinkInv, Linked
<1>3. view'[v] = r /\ \A u \in Views : u # v => view'[u] = view[u]
  BY <1>1 DEF WorkInv
<1>4. ASSUME NEW u \in Views, u # v
      PROVE  /\ Linked(u)' /\ (view'[u].live /\ ~view'[u].stopped => Fed(u)')
             /\ view[u].live => view[u].scan # view[v].scan
  BY <1>1, <1>2, <1>3, <1>4, OtherViews
<1>5. Linked(v)' /\ ~(view'[v].live /\ ~view'[v].stopped)
  BY <1>1, <1>2, <1>3 DEF Linked
<1>6. \A x \in Scans : Begun(x)'
  BY <1>1, <1>2 DEF LinkInv, Begun
<1>7. HandsEmpty'
  BY <1>1 DEF LinkInv, HandsEmpty
<1>8. TasksAreScans'
  <2> DEFINE W == {u \in Views : view[u].live /\ ~view[u].shows.complete}
             W2 == {u \in Views : view'[u].live /\ ~view'[u].shows.complete}
  <2>1. tasks = {view[u].scan : u \in W}
    BY <1>1 DEF TasksAreScans
  <2>2. W2 = W \ {v}
    BY <1>3
  <2>3. \A u \in W : u # v => view'[u].scan = view[u].scan /\ view[u].scan # view[v].scan
    BY <1>3, <1>4
  <2>4. tasks' = {view'[u].scan : u \in W2}
    <3> HIDE DEF W, W2
    <3> QED  BY <2>1, <2>2, <2>3
  <2> QED  BY <2>4 DEF TasksAreScans
<1>9. LinkInv' /\ FeedInv'
  BY <1>4, <1>5, <1>6, <1>7 DEF LinkInv, FeedInv
<1> QED  BY <1>8, <1>9

LEMMA UserKeepsTree ==
    ASSUME TreeInv, NEW v \in Views, User(v)
    PROVE  LinkInv' /\ FeedInv' /\ TasksAreScans'
<1>1. CASE OpenView(v)
  BY <1>1, StartKeepsTree DEF OpenView
<1>2. CASE RestartScan(v)
  BY <1>2, StartKeepsTree DEF RestartScan
<1>3. view[v] \in ViewRecords(view[v]) /\ view[v].shows \in ShownRecords
  BY DEF TreeInv, ScanInv, WorkInv, LinkInv, Linked
<1>4. CASE CancelScan(v)
  <2> DEFINE number == view[v].generation + 1
             shows == [view[v].shows EXCEPT !.complete = TRUE]
             r == [view[v] EXCEPT !.stopped = TRUE, !.shows = shows, !.generation = number]
  <2>1. view' = [view EXCEPT ![v] = r]
    BY <1>3, <1>4 DEF CancelScan, ViewRecords
  <2>2. shows \in ShownRecords /\ shows.complete
    BY <1>3 DEF ShownRecords
  <2> HIDE DEF number, shows
  <2>3. r.live = view[v].live /\ r.stopped /\ r.shows = shows /\ r.scan = view[v].scan
    BY <1>3 DEF ViewRecords
  <2> HIDE DEF r
  <2>4. /\ view[v].live /\ cancelled' = cancelled \cup {view[v].scan} /\ tasks' = tasks \ {view[v].scan}
        /\ UNCHANGED <<call, worker, queue>>
    BY <1>4 DEF CancelScan
  <2> QED  BY <2>1, <2>2, <2>3, <2>4, EndKeepsTree
<1>5. CASE CloseView(v)
  <2>1. ~NoView.live /\ NoView.scan = 0 /\ NoView.shows \in ShownRecords
    BY DEF NoView, Empty, NoTree, ShownRecords
  <2>2. /\ view[v].live /\ cancelled' = cancelled \cup {view[v].scan} /\ tasks' = tasks \ {view[v].scan}
        /\ UNCHANGED <<call, worker, queue>> /\ view' = [view EXCEPT ![v] = NoView]
    BY <1>5 DEF CloseView
  <2> QED  BY <2>1, <2>2, EndKeepsTree
<1> QED  BY <1>1, <1>2, <1>4, <1>5 DEF User

----
LEMMA InitIsOneScan == Init => TreeInv
<1> SUFFICES ASSUME Init
             PROVE  TreeInv
  OBVIOUS
<1>1. /\ call = [c \in Calls |-> Idle] /\ cancelled = {} /\ tasks = {}
      /\ view = [v \in Views |-> NoView]
      /\ worker = [s \in Scans |-> [at |-> "none", view |-> "none", rows |-> 0]]
      /\ queue = [s \in Scans |-> <<>>]
  BY DEF Init, NtfsInit
<1>2. NoView.shows \in ShownRecords /\ ~NoView.live /\ NoView.scan = 0
  BY DEF NoView, Empty, NoTree, ShownRecords
<1>3. LinkInv
  BY <1>1, <1>2 DEF LinkInv, Begun, Linked, HandsEmpty, Idle
<1>4. FeedInv /\ TasksAreScans
  BY <1>1, <1>2 DEF FeedInv, TasksAreScans
<1> QED  BY <1>3, <1>4, InitIsFine DEF TreeInv

LEMMA StepKeepsTreeInv ==
    ASSUME TreeInv, [Next]_vars
    PROVE  TreeInv'
<1>1. ScanInv /\ ProtocolInv /\ LinkInv /\ HandsEmpty /\ FeedInv /\ TasksAreScans /\ Scans = Calls
  BY DEF TreeInv, ScanInv, LinkInv, Scans
<1>2. ScanInv'
  BY <1>1, StepKeepsScanInv
<1>3. SUFFICES LinkInv' /\ FeedInv' /\ TasksAreScans'
  BY <1>2 DEF TreeInv
<1>4. ASSUME NEW v \in Views, User(v)
      PROVE  LinkInv' /\ FeedInv' /\ TasksAreScans'
  BY <1>4, UserKeepsTree
<1>5. ASSUME NEW s \in Scans, FastScan(s)
      PROVE  LinkInv' /\ FeedInv' /\ TasksAreScans'
  <2>1. Client(s) /\ UNCHANGED duVars /\ s \in Calls
    BY <1>1, <1>5 DEF FastScan
  <2>2. UNCHANGED cancelled
    BY <1>1, <2>1, ClientTouches
  <2>3. HandsEmpty' /\ \A x \in Calls : Delivered(call'[x]) = Delivered(call[x])
    BY <1>1, <2>1, ClientDelivers
  <2> QED  BY <2>1, <2>2, <2>3, OthersFeed
<1>6. ASSUME NEW s \in Scans, Worker(s)
      PROVE  LinkInv' /\ FeedInv' /\ TasksAreScans'
  <2>1. UNCHANGED <<view, tasks>>
    BY <1>6 DEF Worker, OnEvent, AfterFastScan, PortableScan, WorkerOnly
  <2>2. TasksAreScans'
    BY <1>1, <2>1 DEF TasksAreScans
  <2> QED  BY <1>1, <1>6, <2>2, WorkerFeeds, WorkerLinks
<1>7. ASSUME NEW s \in Scans, Drain(s)
      PROVE  LinkInv' /\ FeedInv' /\ TasksAreScans'
  BY <1>7, DrainKeepsTree
<1>8. ASSUME UNCHANGED duVars, UNCHANGED <<call, cancelled>>
      PROVE  LinkInv' /\ FeedInv' /\ TasksAreScans'
  <2>1. HandsEmpty' /\ \A x \in Calls : Delivered(call'[x]) = Delivered(call[x])
    BY <1>1, <1>8 DEF HandsEmpty
  <2> QED  BY <1>8, <2>1, OthersFeed
<1>9. ASSUME NEW h \in Helpers, Helper(h) \/ Crash(h)
      PROVE  LinkInv' /\ FeedInv' /\ TasksAreScans'
  <2>1. (HelperRuns(h) \/ HelperDies(h)) /\ UNCHANGED duVars
    BY <1>9 DEF Helper, Crash
  <2>2. UNCHANGED <<call, cancelled>>
    BY <2>1 DEF HelperRuns, HelperStarts, TakeStart, ReaderBegins, ReaderReads, Open, Batch,
                EndScan, Report, ScanStep, HelperDies, HelperOnly
  <2> QED  BY <1>8, <2>1, <2>2
<1>10. CASE UNCHANGED vars
  <2>1. UNCHANGED duVars /\ UNCHANGED <<call, cancelled>>
    BY <1>10 DEF vars, ntfsVars
  <2> QED  BY <1>8, <2>1
<1> QED  BY <1>4, <1>5, <1>6, <1>7, <1>9, <1>10 DEF Next

\* What a finished scan shows is one complete tree of one engine, however its
\* messages were queued, drained, dropped with a cancelled scan or thrown away for
\* the portable engine (run_scan_worker, apply_scan_msg).
THEOREM FinishedScansAreWhole == Spec => []TreeIsOneScan
<1>1. Init => TreeInv
  BY InitIsOneScan
<1>2. TreeInv /\ [Next]_vars => TreeInv'
  BY StepKeepsTreeInv
<1>3. TreeInv => TreeIsOneScan
  BY TreeInvShowsOneScan
<1> QED  BY <1>1, <1>2, <1>3, PTL DEF Spec

\* The registry has a row for exactly the scans a live view waits for.
THEOREM RegistryFollowsViews == Spec => []TasksAreScans
<1>1. Init => TreeInv
  BY InitIsOneScan
<1>2. TreeInv /\ [Next]_vars => TreeInv'
  BY StepKeepsTreeInv
<1>3. TreeInv => TasksAreScans
  BY DEF TreeInv
<1> QED  BY <1>1, <1>2, <1>3, PTL DEF Spec
=============================================================================
