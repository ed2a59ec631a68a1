---- MODULE ProbePoolProofs ----
(***************************************************************************)
(* Proofs about ProbePool, for any calls, keys and threads.  The invariant *)
(* says who has claimed which key: each key in flight is claimed by one    *)
(* call inside start or one thread that holds a job, or was left by a      *)
(* probe that panicked.                                                    *)
(***************************************************************************)
EXTENDS ProbePool, SequenceTheorems, TLAPS

\* A call whose job a thread has, or had, has left start.
JobsHandedOff ==
    \A t \in Threads : thread[t].job # None =>
        /\ call[thread[t].job].key \in Keys
        /\ call[thread[t].job].stage \in {"waiting", "answered", "some", "none"}

JobsDistinct ==
    \A t, u \in Threads :
        thread[t].job # None /\ thread[t].job = thread[u].job => t = u

CallersNamed == \A c \in Calls : InsideStart(c) => call[c].key \in inFlight

HoldersNamed == \A t \in Threads : Holding(t) => KeyOf(t) \in inFlight

ClaimsExclusive ==
    /\ \A c, d \in Calls :
          InsideStart(c) /\ InsideStart(d) /\ call[c].key = call[d].key => c = d
    /\ \A t, u \in Threads : Holding(t) /\ Holding(u) /\ KeyOf(t) = KeyOf(u) => t = u
    /\ \A c \in Calls, t \in Threads :
          InsideStart(c) /\ Holding(t) => call[c].key # KeyOf(t)

\* Without a panic, every key in flight has a claimant and no thread is dead.
KeysClaimed ==
    panics = 0 =>
        /\ \A t \in Threads : thread[t].stage # "dead"
        /\ \A k \in inFlight :
              \/ \E c \in Calls : InsideStart(c) /\ call[c].key = k
              \/ \E t \in Threads : Holding(t) /\ KeyOf(t) = k

Claims == /\ JobsHandedOff /\ JobsDistinct
          /\ CallersNamed /\ HoldersNamed /\ ClaimsExclusive

IInv == TypeOK /\ IdleThreadsAreFree /\ Claims /\ KeysClaimed

----
LEMMA InitIInv == Init => IInv
  BY NoneAssumption, PanicAssumption, EmptySeq
     DEF Init, IInv, TypeOK, IdleThreadsAreFree, Claims, JobsHandedOff, JobsDistinct,
         CallersNamed, HoldersNamed, ClaimsExclusive, KeysClaimed, InsideStart, Holding,
         KeyOf, CallStages, ThreadStages

\* Popping the last thread of the idle list leaves the others in it.
LEMMA PopIdle ==
  ASSUME TypeOK, IdleThreadsAreFree, idle # <<>>
  PROVE  /\ Last(idle) \in Threads
         /\ thread[Last(idle)] = [stage |-> "receiving", job |-> None]
         /\ Front(idle) \in Seq(Threads)
         /\ \A i \in DOMAIN Front(idle) :
               i \in DOMAIN idle /\ Front(idle)[i] = idle[i] /\ idle[i] # Last(idle)
  <1>1. idle \in Seq(Threads) /\ Len(idle) \in Nat /\ Len(idle) > 0
    BY EmptySeq DEF TypeOK
  <1>2. /\ Front(idle) \in Seq(Threads) /\ Len(Front(idle)) = Len(idle) - 1
        /\ \A i \in 1..(Len(idle) - 1) : Front(idle)[i] = idle[i]
    <2>1. \A i \in 1..(Len(idle) - 1) : idle[i] \in Threads
      BY <1>1
    <2>2. 1 \in Int /\ Len(idle) - 1 \in Int
      BY <1>1
    <2>3. /\ SubSeq(idle, 1, Len(idle) - 1) \in Seq(Threads)
          /\ Len(SubSeq(idle, 1, Len(idle) - 1)) =
                IF 1 <= Len(idle) - 1 THEN Len(idle) - 1 - 1 + 1 ELSE 0
          /\ \A i \in 1..(Len(idle) - 1 - 1 + 1) :
                SubSeq(idle, 1, Len(idle) - 1)[i] = idle[1 + i - 1]
      BY <2>1, <2>2, SubSeqProperties
    <2>4. ASSUME NEW n \in Nat, n > 0
          PROVE  /\ (IF 1 <= n - 1 THEN n - 1 - 1 + 1 ELSE 0) = n - 1
                 /\ n - 1 - 1 + 1 = n - 1
                 /\ \A i \in 1..(n - 1) : 1 + i - 1 = i
      BY <2>4
    <2>5. /\ (IF 1 <= Len(idle) - 1 THEN Len(idle) - 1 - 1 + 1 ELSE 0) = Len(idle) - 1
          /\ Len(idle) - 1 - 1 + 1 = Len(idle) - 1
          /\ \A i \in 1..(Len(idle) - 1) : 1 + i - 1 = i
      BY <1>1, <2>4
    <2> QED BY <2>3, <2>5 DEF Front
  <1>3. DOMAIN idle = 1..Len(idle) /\ DOMAIN Front(idle) = 1..(Len(idle) - 1)
    BY <1>1, <1>2
  <1>4. Len(idle) \in DOMAIN idle /\ Last(idle) = idle[Len(idle)]
    BY <1>1, <1>3 DEF Last
  <1> QED BY <1>1, <1>2, <1>3, <1>4 DEF IdleThreadsAreFree

LEMMA ClaimIInv ==
  ASSUME IInv, NEW c \in Calls, NEW key \in Keys, Claim(c, key)
  PROVE  IInv'
  <1>1. TypeOK'
    BY NoneAssumption DEF IInv, TypeOK, CallStages, ThreadStages, Claim
  <1>2. IdleThreadsAreFree'
    BY DEF IInv, TypeOK, IdleThreadsAreFree, Claim
  <1>3. JobsHandedOff' /\ JobsDistinct'
    BY NoneAssumption DEF IInv, TypeOK, Claims, JobsHandedOff, JobsDistinct, Claim
  <1>4. CallersNamed' /\ HoldersNamed'
    BY NoneAssumption
       DEF IInv, TypeOK, Claims, JobsHandedOff, CallersNamed, HoldersNamed, InsideStart,
           Holding, KeyOf, Claim
  <1>5. ClaimsExclusive'
    <2>1. /\ \A d \in Calls \ {c} : call'[d] = call[d]
          /\ call'[c].key = key /\ (InsideStart(c)' => key \notin inFlight)
      BY DEF IInv, TypeOK, InsideStart, Claim
    <2>2. \A u \in Threads : /\ Holding(u)' <=> Holding(u)
                             /\ Holding(u) => KeyOf(u)' = KeyOf(u)
      BY <2>1, NoneAssumption
         DEF IInv, TypeOK, Claims, JobsHandedOff, Holding, KeyOf, Claim
    <2> QED BY <2>1, <2>2
            DEF IInv, Claims, CallersNamed, HoldersNamed, ClaimsExclusive, InsideStart
  <1>6. KeysClaimed'
    <2>1. /\ \A d \in Calls \ {c} : call'[d] = call[d]
          /\ ~InsideStart(c) /\ call'[c].key = key
          /\ key \notin inFlight => InsideStart(c)'
      BY DEF IInv, TypeOK, InsideStart, Claim
    <2>2. \A u \in Threads : /\ Holding(u)' <=> Holding(u)
                             /\ Holding(u) => KeyOf(u)' = KeyOf(u)
      BY <2>1, NoneAssumption
         DEF IInv, TypeOK, Claims, JobsHandedOff, Holding, KeyOf, Claim
    <2> QED BY <2>1, <2>2 DEF IInv, TypeOK, KeysClaimed, InsideStart, Claim
  <1> QED BY <1>1, <1>2, <1>3, <1>4, <1>5, <1>6 DEF IInv, Claims

\* A step gives a call, or a thread, another stage.
LEMMA StageSet ==
  ASSUME TypeOK
  PROVE  /\ \A c \in Calls, st \in CallStages :
               [call EXCEPT ![c].stage = st] \in [Calls -> [stage : CallStages, key : Keys \cup {None}]]
         /\ \A t \in Threads, st \in ThreadStages :
               [thread EXCEPT ![t].stage = st]
                  \in [Threads -> [stage : ThreadStages, job : Calls \cup {None}]]
         /\ \A t \in Threads, c \in Calls :
               [thread EXCEPT ![t].job = c] \in [Threads -> [stage : ThreadStages, job : Calls \cup {None}]]
  BY DEF TypeOK

\* Keys stay claimed when each claimant of a key in flight keeps its claim or
\* hands it to a thread.
LEMMA ClaimantsStay ==
  ASSUME KeysClaimed, panics' = panics, inFlight' \subseteq inFlight,
         \A u \in Threads : thread'[u].stage = "dead" => thread[u].stage = "dead",
         \A d \in Calls : InsideStart(d) /\ call[d].key \in inFlight' =>
            \/ InsideStart(d)' /\ call'[d].key = call[d].key
            \/ \E u \in Threads : Holding(u)' /\ KeyOf(u)' = call[d].key,
         \A u \in Threads : Holding(u) /\ KeyOf(u) \in inFlight' => Holding(u)' /\ KeyOf(u)' = KeyOf(u)
  PROVE  KeysClaimed'
  <1> SUFFICES ASSUME panics' = 0
      PROVE  /\ \A t \in Threads : thread'[t].stage # "dead"
             /\ \A k \in inFlight' :
                   \/ \E c \in Calls : InsideStart(c)' /\ call'[c].key = k
                   \/ \E t \in Threads : Holding(t)' /\ KeyOf(t)' = k
    BY DEF KeysClaimed
  <1>1. \A t \in Threads : thread'[t].stage # "dead"
    BY DEF KeysClaimed
  <1>2. ASSUME NEW k \in inFlight'
        PROVE  \/ \E c \in Calls : InsideStart(c)' /\ call'[c].key = k
               \/ \E t \in Threads : Holding(t)' /\ KeyOf(t)' = k
    <2>1. \/ \E c \in Calls : InsideStart(c) /\ call[c].key = k
          \/ \E t \in Threads : Holding(t) /\ KeyOf(t) = k
      BY DEF KeysClaimed
    <2>2. CASE \E c \in Calls : InsideStart(c) /\ call[c].key = k
      <3>1. PICK c \in Calls : InsideStart(c) /\ call[c].key = k
        BY <2>2
      <3> QED BY <3>1
    <2>3. CASE \E t \in Threads : Holding(t) /\ KeyOf(t) = k
      <3>1. PICK t \in Threads : Holding(t) /\ KeyOf(t) = k
        BY <2>3
      <3> QED BY <3>1
    <2> QED BY <2>1, <2>2, <2>3
  <1> QED BY <1>1, <1>2

LEMMA HandOffIInv ==
  ASSUME IInv, NEW c \in Calls, HandOff(c)
  PROVE  IInv'
  <1> PICK t \in Threads : t = Last(idle)
    BY PopIdle DEF IInv, HandOff
  <1>0. /\ thread[t] = [stage |-> "receiving", job |-> None]
        /\ thread' = [thread EXCEPT ![t].job = c]
        /\ idle' \in Seq(Threads)
        /\ \A i \in DOMAIN idle' : i \in DOMAIN idle /\ idle'[i] = idle[i] /\ idle[i] # t
        /\ \A i \in DOMAIN idle : idle[i] \in Threads
    BY PopIdle DEF IInv, TypeOK, HandOff
  <1>1. TypeOK'
    <2>1. /\ call' \in [Calls -> [stage : CallStages, key : Keys \cup {None}]]
          /\ thread' \in [Threads -> [stage : ThreadStages, job : Calls \cup {None}]]
      <3>1. "waiting" \in CallStages
        BY DEF CallStages
      <3> QED BY <1>0, <3>1, StageSet DEF IInv, HandOff
    <2>2. \A u \in Threads : thread'[u].job = None => thread'[u].stage \in {"absent", "receiving"}
      BY <1>0, NoneAssumption DEF IInv, TypeOK
    <2> QED BY <1>0, <2>1, <2>2 DEF IInv, TypeOK, HandOff
  <1>2. IdleThreadsAreFree'
    BY <1>0 DEF IInv, TypeOK, IdleThreadsAreFree
  <1>3. JobsHandedOff' /\ JobsDistinct'
    <2>1. /\ thread'[t].job = c /\ \A u \in Threads \ {t} : thread'[u] = thread[u]
          /\ call'[c] = [stage |-> "waiting", key |-> call[c].key]
          /\ \A d \in Calls \ {c} : call'[d] = call[d]
      BY <1>0 DEF IInv, TypeOK, HandOff
    <2>2. call[c].key \in Keys /\ \A u \in Threads : thread[u].job # c
      BY NoneAssumption
         DEF IInv, TypeOK, Claims, JobsHandedOff, CallersNamed, InsideStart, HandOff
    <2>3. \A u \in Threads : thread[u].job \in Calls \cup {None}
      BY DEF IInv, TypeOK
    <2> QED BY <2>1, <2>2, <2>3, NoneAssumption
            DEF IInv, Claims, JobsHandedOff, JobsDistinct
  <1>4. CallersNamed' /\ HoldersNamed'
    BY <1>0, NoneAssumption
       DEF IInv, TypeOK, Claims, JobsHandedOff, CallersNamed, HoldersNamed, InsideStart,
           Holding, KeyOf, HandOff
  <1>5. ClaimsExclusive'
    BY <1>0, NoneAssumption
       DEF IInv, TypeOK, Claims, JobsHandedOff, CallersNamed, HoldersNamed, ClaimsExclusive,
           InsideStart, Holding, KeyOf, HandOff
  <1>6. KeysClaimed'
    <2>1. /\ thread'[t].job = c /\ thread'[t].stage = "receiving"
          /\ call'[c].key = call[c].key
          /\ \A u \in Threads \ {t} : thread'[u] = thread[u]
          /\ \A d \in Calls \ {c} : call'[d] = call[d]
          /\ ~Holding(t) /\ thread[t].stage # "dead"
      BY <1>0, NoneAssumption DEF IInv, TypeOK, Holding, HandOff
    <2>2. Holding(t)' /\ KeyOf(t)' = call[c].key
      BY <2>1, NoneAssumption DEF Holding, KeyOf
    <2>3. \A u \in Threads : Holding(u) => Holding(u)' /\ KeyOf(u)' = KeyOf(u)
      BY <2>1, NoneAssumption DEF IInv, TypeOK, Claims, JobsHandedOff, Holding, KeyOf, HandOff
    <2> QED BY <2>1, <2>2, <2>3, <1>0 DEF IInv, TypeOK, KeysClaimed, InsideStart, HandOff
  <1> QED BY <1>1, <1>2, <1>3, <1>4, <1>5, <1>6 DEF IInv, Claims

LEMMA NoneIdleIInv ==
  ASSUME IInv, NEW c \in Calls, NoneIdle(c)
  PROVE  IInv'
  <1>1. TypeOK'
    BY NoneAssumption DEF IInv, TypeOK, CallStages, ThreadStages, NoneIdle
  <1>2. IdleThreadsAreFree'
    BY DEF IInv, TypeOK, IdleThreadsAreFree, NoneIdle
  <1>3. JobsHandedOff' /\ JobsDistinct'
    BY NoneAssumption DEF IInv, TypeOK, Claims, JobsHandedOff, JobsDistinct, NoneIdle
  <1>4. CallersNamed' /\ HoldersNamed'
    BY NoneAssumption
       DEF IInv, TypeOK, Claims, JobsHandedOff, CallersNamed, HoldersNamed, InsideStart,
           Holding, KeyOf, NoneIdle
  <1>5. ClaimsExclusive'
    BY NoneAssumption
       DEF IInv, TypeOK, Claims, JobsHandedOff, CallersNamed, HoldersNamed, ClaimsExclusive,
           InsideStart, Holding, KeyOf, NoneIdle
  <1>6. KeysClaimed'
    BY NoneAssumption
       DEF IInv, TypeOK, Claims, JobsHandedOff, KeysClaimed, InsideStart, Holding, KeyOf,
           NoneIdle
  <1> QED BY <1>1, <1>2, <1>3, <1>4, <1>5, <1>6 DEF IInv, Claims

LEMMA SpawnIInv ==
  ASSUME IInv, NEW c \in Calls, NEW t \in Threads, Spawn(c, t)
  PROVE  IInv'
  <1>1. TypeOK'
    BY NoneAssumption DEF IInv, TypeOK, CallStages, ThreadStages, Spawn
  <1>2. IdleThreadsAreFree'
    BY DEF IInv, TypeOK, IdleThreadsAreFree, Spawn
  <1>3. JobsHandedOff' /\ JobsDistinct'
    <2>1. /\ thread'[t].job = c /\ \A u \in Threads \ {t} : thread'[u] = thread[u]
          /\ call'[c] = [stage |-> "waiting", key |-> call[c].key]
          /\ \A d \in Calls \ {c} : call'[d] = call[d]
      BY DEF IInv, TypeOK, Spawn
    <2>2. call[c].key \in Keys /\ \A u \in Threads : thread[u].job # c
      BY NoneAssumption
         DEF IInv, TypeOK, Claims, JobsHandedOff, CallersNamed, InsideStart, Spawn
    <2>3. \A u \in Threads : thread[u].job \in Calls \cup {None}
      BY DEF IInv, TypeOK
    <2> QED BY <2>1, <2>2, <2>3, NoneAssumption
            DEF IInv, Claims, JobsHandedOff, JobsDistinct
  <1>4. CallersNamed' /\ HoldersNamed'
    BY NoneAssumption
       DEF IInv, TypeOK, Claims, JobsHandedOff, CallersNamed, HoldersNamed, InsideStart,
           Holding, KeyOf, Spawn
  <1>5. ClaimsExclusive'
    BY NoneAssumption
       DEF IInv, TypeOK, Claims, JobsHandedOff, CallersNamed, HoldersNamed, ClaimsExclusive,
           InsideStart, Holding, KeyOf, Spawn
  <1>6. KeysClaimed'
    <2>1. /\ thread'[t].job = c /\ thread'[t].stage = "receiving"
          /\ call'[c].key = call[c].key
          /\ \A u \in Threads \ {t} : thread'[u] = thread[u]
          /\ \A d \in Calls \ {c} : call'[d] = call[d]
          /\ ~Holding(t) /\ thread[t].stage # "dead"
      BY NoneAssumption DEF IInv, TypeOK, Holding, Spawn
    <2>2. Holding(t)' /\ KeyOf(t)' = call[c].key
      BY <2>1, NoneAssumption DEF Holding, KeyOf
    <2>3. \A u \in Threads : Holding(u) => Holding(u)' /\ KeyOf(u)' = KeyOf(u)
      BY <2>1, NoneAssumption DEF IInv, TypeOK, Claims, JobsHandedOff, Holding, KeyOf, Spawn
    <2>4. \A d \in Calls \ {c} : InsideStart(d)' <=> InsideStart(d)
      BY <2>1 DEF InsideStart
    <2>5. \A u \in Threads : thread'[u].stage = "dead" => thread[u].stage = "dead"
      BY <2>1
    <2>6. panics' = panics /\ inFlight' = inFlight
      BY DEF Spawn
    <2> QED BY <2>1, <2>2, <2>3, <2>4, <2>5, <2>6, ClaimantsStay DEF IInv
  <1> QED BY <1>1, <1>2, <1>3, <1>4, <1>5, <1>6 DEF IInv, Claims

LEMMA SpawnFailsIInv ==
  ASSUME IInv, NEW c \in Calls, SpawnFails(c)
  PROVE  IInv'
  <1>1. TypeOK'
    BY NoneAssumption DEF IInv, TypeOK, CallStages, ThreadStages, SpawnFails
  <1>2. IdleThreadsAreFree'
    BY DEF IInv, TypeOK, IdleThreadsAreFree, SpawnFails
  <1>3. JobsHandedOff' /\ JobsDistinct'
    BY NoneAssumption DEF IInv, TypeOK, Claims, JobsHandedOff, JobsDistinct, SpawnFails
  <1>4. CallersNamed' /\ HoldersNamed'
    BY NoneAssumption
       DEF IInv, TypeOK, Claims, JobsHandedOff, CallersNamed, HoldersNamed,
           ClaimsExclusive, InsideStart,
           Holding, KeyOf, SpawnFails
  <1>5. ClaimsExclusive'
    BY NoneAssumption
       DEF IInv, TypeOK, Claims, JobsHandedOff, CallersNamed, HoldersNamed, ClaimsExclusive,
           InsideStart, Holding, KeyOf, SpawnFails
  <1>6. KeysClaimed'
    BY NoneAssumption
       DEF IInv, TypeOK, Claims, JobsHandedOff, KeysClaimed, InsideStart, Holding, KeyOf,
           SpawnFails
  <1> QED BY <1>1, <1>2, <1>3, <1>4, <1>5, <1>6 DEF IInv, Claims

LEMMA ReceiveIInv ==
  ASSUME IInv, NEW c \in Calls, Receive(c)
  PROVE  IInv'
  <1>1. TypeOK'
    BY NoneAssumption DEF IInv, TypeOK, CallStages, ThreadStages, Receive
  <1>2. IdleThreadsAreFree'
    BY DEF IInv, TypeOK, IdleThreadsAreFree, Receive
  <1>3. JobsHandedOff' /\ JobsDistinct'
    BY NoneAssumption DEF IInv, TypeOK, Claims, JobsHandedOff, JobsDistinct, Receive
  <1>4. CallersNamed' /\ HoldersNamed'
    BY NoneAssumption
       DEF IInv, TypeOK, Claims, JobsHandedOff, CallersNamed, HoldersNamed, InsideStart,
           Holding, KeyOf, Receive
  <1>5. ClaimsExclusive'
    BY NoneAssumption
       DEF IInv, TypeOK, Claims, JobsHandedOff, CallersNamed, HoldersNamed, ClaimsExclusive,
           InsideStart, Holding, KeyOf, Receive
  <1>6. KeysClaimed'
    <2>1. \A u \in Threads : Holding(u) => Holding(u)' /\ KeyOf(u)' = KeyOf(u)
      BY NoneAssumption DEF IInv, TypeOK, Holding, KeyOf, Receive
    <2>2. \A d \in Calls : InsideStart(d) => InsideStart(d)' /\ call'[d].key = call[d].key
      BY DEF IInv, TypeOK, InsideStart, Receive
    <2>3. thread' = thread /\ panics' = panics /\ inFlight' = inFlight
      BY DEF Receive
    <2> QED BY <2>1, <2>2, <2>3, ClaimantsStay DEF IInv
  <1> QED BY <1>1, <1>2, <1>3, <1>4, <1>5, <1>6 DEF IInv, Claims

LEMMA TimeOutIInv ==
  ASSUME IInv, NEW c \in Calls, TimeOut(c)
  PROVE  IInv'
  <1>1. TypeOK'
    BY NoneAssumption DEF IInv, TypeOK, CallStages, ThreadStages, TimeOut
  <1>2. IdleThreadsAreFree'
    BY DEF IInv, TypeOK, IdleThreadsAreFree, TimeOut
  <1>3. JobsHandedOff' /\ JobsDistinct'
    BY NoneAssumption DEF IInv, TypeOK, Claims, JobsHandedOff, JobsDistinct, TimeOut
  <1>4. CallersNamed' /\ HoldersNamed'
    BY NoneAssumption
       DEF IInv, TypeOK, Claims, JobsHandedOff, CallersNamed, HoldersNamed, InsideStart,
           Holding, KeyOf, TimeOut
  <1>5. ClaimsExclusive'
    BY NoneAssumption
       DEF IInv, TypeOK, Claims, JobsHandedOff, CallersNamed, HoldersNamed, ClaimsExclusive,
           InsideStart, Holding, KeyOf, TimeOut
  <1>6. KeysClaimed'
    <2>1. \A u \in Threads : Holding(u) => Holding(u)' /\ KeyOf(u)' = KeyOf(u)
      BY NoneAssumption DEF IInv, TypeOK, Holding, KeyOf, TimeOut
    <2>2. \A d \in Calls : InsideStart(d) => InsideStart(d)' /\ call'[d].key = call[d].key
      BY DEF IInv, TypeOK, InsideStart, TimeOut
    <2>3. thread' = thread /\ panics' = panics /\ inFlight' = inFlight
      BY DEF TimeOut
    <2> QED BY <2>1, <2>2, <2>3, ClaimantsStay DEF IInv
  <1> QED BY <1>1, <1>2, <1>3, <1>4, <1>5, <1>6 DEF IInv, Claims

LEMMA TakeJobIInv ==
  ASSUME IInv, NEW t \in Threads, TakeJob(t)
  PROVE  IInv'
  <1>1. TypeOK'
    BY NoneAssumption DEF IInv, TypeOK, CallStages, ThreadStages, TakeJob
  <1>2. IdleThreadsAreFree'
    BY DEF IInv, TypeOK, IdleThreadsAreFree, TakeJob
  <1>3. JobsHandedOff' /\ JobsDistinct'
    BY NoneAssumption DEF IInv, TypeOK, Claims, JobsHandedOff, JobsDistinct, TakeJob
  <1>4. CallersNamed' /\ HoldersNamed'
    BY NoneAssumption
       DEF IInv, TypeOK, Claims, JobsHandedOff, CallersNamed, HoldersNamed, InsideStart,
           Holding, KeyOf, TakeJob
  <1>5. ClaimsExclusive'
    BY NoneAssumption
       DEF IInv, TypeOK, Claims, JobsHandedOff, CallersNamed, HoldersNamed, ClaimsExclusive,
           InsideStart, Holding, KeyOf, TakeJob
  <1>6. KeysClaimed'
    <2>1. \A u \in Threads : /\ Holding(u)' <=> Holding(u)
                             /\ Holding(u) => KeyOf(u)' = KeyOf(u)
      BY NoneAssumption DEF IInv, TypeOK, Holding, KeyOf, TakeJob
    <2>2. \A d \in Calls : InsideStart(d)' <=> InsideStart(d)
      BY NoneAssumption DEF IInv, TypeOK, Claims, JobsHandedOff, InsideStart, TakeJob
    <2>3. /\ \A d \in Calls : call'[d].key = call[d].key
          /\ \A u \in Threads : thread'[u].stage = "dead" => thread[u].stage = "dead"
      BY DEF IInv, TypeOK, TakeJob
    <2>4. panics' = panics /\ inFlight' = inFlight
      BY DEF TakeJob
    <2> QED BY <2>1, <2>2, <2>3, <2>4, ClaimantsStay DEF IInv
  <1> QED BY <1>1, <1>2, <1>3, <1>4, <1>5, <1>6 DEF IInv, Claims

LEMMA ProbeReturnsIInv ==
  ASSUME IInv, NEW t \in Threads, ProbeReturns(t)
  PROVE  IInv'
  <1>1. TypeOK'
    BY NoneAssumption DEF IInv, TypeOK, CallStages, ThreadStages, ProbeReturns
  <1>2. IdleThreadsAreFree'
    BY DEF IInv, TypeOK, IdleThreadsAreFree, ProbeReturns
  <1>3. JobsHandedOff' /\ JobsDistinct'
    BY NoneAssumption DEF IInv, TypeOK, Claims, JobsHandedOff, JobsDistinct, ProbeReturns
  <1>4. CallersNamed' /\ HoldersNamed'
    BY NoneAssumption
       DEF IInv, TypeOK, Claims, JobsHandedOff, CallersNamed, HoldersNamed, InsideStart,
           Holding, KeyOf, ProbeReturns
  <1>5. ClaimsExclusive'
    BY NoneAssumption
       DEF IInv, TypeOK, Claims, JobsHandedOff, CallersNamed, HoldersNamed, ClaimsExclusive,
           InsideStart, Holding, KeyOf, ProbeReturns
  <1>6. KeysClaimed'
    <2>1. \A u \in Threads : /\ Holding(u)' <=> Holding(u)
                             /\ Holding(u) => KeyOf(u)' = KeyOf(u)
      BY NoneAssumption DEF IInv, TypeOK, Holding, KeyOf, ProbeReturns
    <2>2. \A d \in Calls : InsideStart(d)' <=> InsideStart(d)
      BY NoneAssumption DEF IInv, TypeOK, Claims, JobsHandedOff, InsideStart, ProbeReturns
    <2>3. /\ \A d \in Calls : call'[d].key = call[d].key
          /\ \A u \in Threads : thread'[u].stage = "dead" => thread[u].stage = "dead"
      BY DEF IInv, TypeOK, ProbeReturns
    <2> QED BY <2>1, <2>2, <2>3 DEF IInv, TypeOK, KeysClaimed, ProbeReturns
  <1> QED BY <1>1, <1>2, <1>3, <1>4, <1>5, <1>6 DEF IInv, Claims

LEMMA ProbePanicsIInv ==
  ASSUME IInv, NEW t \in Threads, ProbePanics(t)
  PROVE  IInv'
  <1>1. TypeOK'
    <2>1. thread[t].job \in Calls /\ thread[t].job # None
      BY DEF IInv, TypeOK, ProbePanics
    <2>2. /\ call' \in [Calls -> [stage : CallStages, key : Keys \cup {None}]]
          /\ thread' \in [Threads -> [stage : ThreadStages, job : Calls \cup {None}]]
      <3>1. "none" \in CallStages /\ "dead" \in ThreadStages
        BY DEF CallStages, ThreadStages
      <3> QED BY <2>1, <3>1, StageSet DEF IInv, ProbePanics
    <2>3. \A u \in Threads : thread'[u].job = None => thread'[u].stage \in {"absent", "receiving"}
      BY <2>1 DEF IInv, TypeOK, ProbePanics
    <2> QED BY <2>2, <2>3 DEF IInv, TypeOK, ProbePanics
  <1>2. IdleThreadsAreFree'
    BY DEF IInv, TypeOK, IdleThreadsAreFree, ProbePanics
  <1>3. JobsHandedOff' /\ JobsDistinct'
    BY NoneAssumption DEF IInv, TypeOK, Claims, JobsHandedOff, JobsDistinct, ProbePanics
  <1>4. CallersNamed' /\ HoldersNamed'
    BY NoneAssumption
       DEF IInv, TypeOK, Claims, JobsHandedOff, CallersNamed, HoldersNamed, InsideStart,
           Holding, KeyOf, ProbePanics
  <1>5. ClaimsExclusive'
    BY NoneAssumption
       DEF IInv, TypeOK, Claims, JobsHandedOff, CallersNamed, HoldersNamed, ClaimsExclusive,
           InsideStart, Holding, KeyOf, ProbePanics
  <1>6. KeysClaimed'
    BY NoneAssumption
       DEF IInv, TypeOK, Claims, JobsHandedOff, KeysClaimed, InsideStart, Holding, KeyOf,
           ProbePanics
  <1> QED BY <1>1, <1>2, <1>3, <1>4, <1>5, <1>6 DEF IInv, Claims

LEMMA FreeKeyIInv ==
  ASSUME IInv, NEW t \in Threads, FreeKey(t)
  PROVE  IInv'
  <1>1. TypeOK'
    BY NoneAssumption DEF IInv, TypeOK, CallStages, ThreadStages, FreeKey
  <1>2. IdleThreadsAreFree'
    BY DEF IInv, TypeOK, IdleThreadsAreFree, FreeKey
  <1>3. JobsHandedOff' /\ JobsDistinct'
    BY NoneAssumption DEF IInv, TypeOK, Claims, JobsHandedOff, JobsDistinct, FreeKey
  <1>4. CallersNamed' /\ HoldersNamed'
    BY NoneAssumption
       DEF IInv, TypeOK, Claims, JobsHandedOff, CallersNamed, HoldersNamed,
           ClaimsExclusive, InsideStart,
           Holding, KeyOf, FreeKey
  <1>5. ClaimsExclusive'
    BY NoneAssumption
       DEF IInv, TypeOK, Claims, JobsHandedOff, CallersNamed, HoldersNamed, ClaimsExclusive,
           InsideStart, Holding, KeyOf, FreeKey
  <1>6. KeysClaimed'
    <2>1. \A u \in Threads \ {t} : /\ Holding(u)' <=> Holding(u)
                                  /\ KeyOf(u)' = KeyOf(u)
      BY DEF IInv, TypeOK, Holding, KeyOf, FreeKey
    <2>2. \A u \in Threads : thread'[u].stage = "dead" => thread[u].stage = "dead"
      BY DEF IInv, TypeOK, FreeKey
    <2> QED BY <2>1, <2>2 DEF IInv, TypeOK, KeysClaimed, InsideStart, FreeKey
  <1> QED BY <1>1, <1>2, <1>3, <1>4, <1>5, <1>6 DEF IInv, Claims

LEMMA SendAnswerIInv ==
  ASSUME IInv, NEW t \in Threads, SendAnswer(t)
  PROVE  IInv'
  <1>1. TypeOK'
    <2>1. thread[t].job \in Calls /\ thread[t].job # None
      BY DEF IInv, TypeOK, SendAnswer
    <2>2. /\ call' \in [Calls -> [stage : CallStages, key : Keys \cup {None}]]
          /\ thread' \in [Threads -> [stage : ThreadStages, job : Calls \cup {None}]]
      <3>1. "answered" \in CallStages /\ "sent" \in ThreadStages /\ call[thread[t].job].stage \in CallStages
        BY <2>1 DEF CallStages, ThreadStages, IInv, TypeOK
      <3> QED BY <2>1, <3>1, StageSet DEF IInv, SendAnswer
    <2>3. \A u \in Threads : thread'[u].job = None => thread'[u].stage \in {"absent", "receiving"}
      BY <2>1 DEF IInv, TypeOK, SendAnswer
    <2> QED BY <2>2, <2>3 DEF IInv, TypeOK, SendAnswer
  <1>2. IdleThreadsAreFree'
    BY DEF IInv, TypeOK, IdleThreadsAreFree, SendAnswer
  <1>3. JobsHandedOff' /\ JobsDistinct'
    BY NoneAssumption DEF IInv, TypeOK, Claims, JobsHandedOff, JobsDistinct, SendAnswer
  <1>4. CallersNamed' /\ HoldersNamed'
    BY NoneAssumption
       DEF IInv, TypeOK, Claims, JobsHandedOff, CallersNamed, HoldersNamed, InsideStart,
           Holding, KeyOf, SendAnswer
  <1>5. ClaimsExclusive'
    BY NoneAssumption
       DEF IInv, TypeOK, Claims, JobsHandedOff, CallersNamed, HoldersNamed, ClaimsExclusive,
           InsideStart, Holding, KeyOf, SendAnswer
  <1>6. KeysClaimed'
    <2>1. \A u \in Threads : /\ Holding(u)' <=> Holding(u)
                             /\ Holding(u) => KeyOf(u)' = KeyOf(u)
      BY NoneAssumption DEF IInv, TypeOK, Holding, KeyOf, SendAnswer
    <2>2. \A d \in Calls : InsideStart(d)' <=> InsideStart(d)
      BY NoneAssumption DEF IInv, TypeOK, Claims, JobsHandedOff, InsideStart, SendAnswer
    <2>3. /\ \A d \in Calls : call'[d].key = call[d].key
          /\ \A u \in Threads : thread'[u].stage = "dead" => thread[u].stage = "dead"
      BY DEF IInv, TypeOK, SendAnswer
    <2>4. panics' = panics /\ inFlight' = inFlight
      BY DEF SendAnswer
    <2> QED BY <2>1, <2>2, <2>3, <2>4, ClaimantsStay DEF IInv
  <1> QED BY <1>1, <1>2, <1>3, <1>4, <1>5, <1>6 DEF IInv, Claims

LEMMA GoIdleIInv ==
  ASSUME IInv, NEW t \in Threads, GoIdle(t)
  PROVE  IInv'
  <1>1. TypeOK'
    BY NoneAssumption DEF IInv, TypeOK, CallStages, ThreadStages, GoIdle
  <1>2. IdleThreadsAreFree'
    BY DEF IInv, TypeOK, IdleThreadsAreFree, GoIdle
  <1>3. JobsHandedOff' /\ JobsDistinct'
    BY NoneAssumption DEF IInv, TypeOK, Claims, JobsHandedOff, JobsDistinct, GoIdle
  <1>4. CallersNamed' /\ HoldersNamed'
    BY NoneAssumption
       DEF IInv, TypeOK, Claims, JobsHandedOff, CallersNamed, HoldersNamed, InsideStart,
           Holding, KeyOf, GoIdle
  <1>5. ClaimsExclusive'
    BY NoneAssumption
       DEF IInv, TypeOK, Claims, JobsHandedOff, CallersNamed, HoldersNamed, ClaimsExclusive,
           InsideStart, Holding, KeyOf, GoIdle
  <1>6. KeysClaimed'
    <2>1. \A u \in Threads : /\ Holding(u)' <=> Holding(u)
                             /\ Holding(u) => KeyOf(u)' = KeyOf(u)
      BY NoneAssumption DEF IInv, TypeOK, Holding, KeyOf, GoIdle
    <2>2. \A d \in Calls : InsideStart(d)' <=> InsideStart(d)
      BY NoneAssumption DEF IInv, TypeOK, Claims, JobsHandedOff, InsideStart, GoIdle
    <2>3. /\ \A d \in Calls : call'[d].key = call[d].key
          /\ \A u \in Threads : thread'[u].stage = "dead" => thread[u].stage = "dead"
      BY DEF IInv, TypeOK, GoIdle
    <2> QED BY <2>1, <2>2, <2>3 DEF IInv, TypeOK, KeysClaimed, GoIdle
  <1> QED BY <1>1, <1>2, <1>3, <1>4, <1>5, <1>6 DEF IInv, Claims

LEMMA NextIInv == IInv /\ [Next]_vars => IInv'
  <1> SUFFICES ASSUME IInv, [Next]_vars PROVE IInv'
    OBVIOUS
  <1>1. ASSUME NEW c \in Calls, Caller(c) PROVE IInv'
    BY <1>1, ClaimIInv, HandOffIInv, NoneIdleIInv, SpawnIInv, SpawnFailsIInv,
       ReceiveIInv, TimeOutIInv
       DEF Caller, Start
  <1>2. ASSUME NEW t \in Threads, RunThread(t) PROVE IInv'
    BY <1>2, TakeJobIInv, ProbeReturnsIInv, ProbePanicsIInv, FreeKeyIInv, SendAnswerIInv,
       GoIdleIInv
       DEF RunThread
  <1>3. CASE UNCHANGED vars
    BY <1>3
       DEF vars, IInv, TypeOK, IdleThreadsAreFree, Claims, JobsHandedOff, JobsDistinct,
           CallersNamed, HoldersNamed, ClaimsExclusive, KeysClaimed, InsideStart, Holding,
           KeyOf
  <1> QED BY <1>1, <1>2, <1>3 DEF Next

LEMMA Invariance == Spec => []IInv
  BY InitIInv, NextIInv, PTL DEF Spec

----
(* Calls and threads stay well formed (deadline.rs, start and submit).     *)
THEOREM WellFormed == Spec => []TypeOK
  BY Invariance, PTL DEF IInv

(* Whatever hangs, however many callers race: two probes of one key never  *)
(* run at the same time (start's insertion in IN_FLIGHT).                  *)
THEOREM ProbesExclusive == Spec => []OneProbePerKey
  <1>1. IInv => OneProbePerKey
    BY NoneAssumption
       DEF IInv, TypeOK, Claims, ClaimsExclusive, OneProbePerKey, Holding
  <1> QED BY <1>1, Invariance, PTL

(* An idle thread has no job and stands in the list once, so a probe never *)
(* waits behind one that does not return (submit).                         *)
THEOREM HandOffsPrompt == Spec => []PoolSound
  BY Invariance, PTL DEF IInv, PoolSound

(* As long as no probe panics, a key is refused only while a probe of it   *)
(* runs or is about to (start, and the job it submits).                    *)
THEOREM KeysReturned == Spec => []KeysAccountedFor
  <1>1. IInv => KeysAccountedFor
    BY DEF IInv, Claims, CallersNamed, HoldersNamed, KeysClaimed, KeysAccountedFor,
           InFlightMeansRunning
  <1> QED BY <1>1, Invariance, PTL
====
