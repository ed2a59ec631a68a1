---- MODULE ProbePool ----
(***************************************************************************)
(* Deadline probes (ferail-fs-native/src/deadline.rs): calls into          *)
(* filesystems that may never answer, made on pooled threads and waited    *)
(* for up to a deadline.                                                   *)
(*                                                                         *)
(* A call is one start and the wait_until on the Probe it returns; any     *)
(* number of calls overlap.  A thread is a probe thread: it receives a job *)
(* from its own queue, runs it, frees the key, sends the answer and goes   *)
(* back to the idle list.  Each lock is one step.                          *)
(***************************************************************************)
EXTENDS Naturals, Sequences, SequencesExt, FiniteSets

CONSTANTS Calls,     \* calls of start, each made once
          Keys,      \* ProbeKey: a purpose and a path
          Stuck,     \* keys on volumes that may stop answering
          Threads,   \* probe threads the process may create
          MaxPanics, \* bound on probes that panic
          None

ASSUME KeyAssumption == Stuck \subseteq Keys
ASSUME NoneAssumption == None \notin Calls \cup Keys
ASSUME PanicAssumption == MaxPanics \in Nat

VARIABLES inFlight,   \* IN_FLIGHT
          idle,       \* IDLE, a stack of threads
          call,       \* each call's key and progress
          thread,     \* each thread's place in its loop and its job
          panics
vars == <<inFlight, idle, call, thread, panics>>

CallStages   == {"new", "claimed", "spawning", "waiting", "answered", "some", "none"}
ThreadStages == {"absent", "receiving", "probing", "returned", "freed", "sent", "dead"}

Init ==
    /\ inFlight = {}
    /\ idle = <<>>
    /\ call = [c \in Calls |-> [stage |-> "new", key |-> None]]
    /\ thread = [t \in Threads |-> [stage |-> "absent", job |-> None]]
    /\ panics = 0

----
(* start, on the calling thread.                                           *)

\* Mutant: the key is looked up, not inserted.
ClaimUnrecorded(c, key) ==
    /\ call[c].stage = "new"
    /\ call' = [call EXCEPT ![c] = [stage |-> IF key \in inFlight THEN "none" ELSE "claimed",
                                    key   |-> key]]
    /\ UNCHANGED <<inFlight, idle, thread, panics>>

\* The insertion in IN_FLIGHT: a key still running is refused at once.
Claim(c, key) ==
    /\ call[c].stage = "new"
    /\ call' = [call EXCEPT ![c] = [stage |-> IF key \in inFlight THEN "none" ELSE "claimed",
                                    key   |-> key]]
    /\ inFlight' = inFlight \cup {key}
    /\ UNCHANGED <<idle, thread, panics>>

\* Mutant: the job goes to the last idle thread, which stays in the list.
HandOffPeek(c) ==
    /\ call[c].stage = "claimed" /\ idle # <<>>
    /\ thread' = [thread EXCEPT ![Last(idle)].job = c]
    /\ call' = [call EXCEPT ![c].stage = "waiting"]
    /\ UNCHANGED <<inFlight, idle, panics>>

\* submit pops an idle thread and sends it the job.
HandOff(c) ==
    /\ call[c].stage = "claimed" /\ idle # <<>>
    /\ idle' = Front(idle)
    /\ thread' = [thread EXCEPT ![Last(idle)].job = c]
    /\ call' = [call EXCEPT ![c].stage = "waiting"]
    /\ UNCHANGED <<inFlight, panics>>

\* submit finds no idle thread ...
NoneIdle(c) ==
    /\ call[c].stage = "claimed" /\ idle = <<>>
    /\ call' = [call EXCEPT ![c].stage = "spawning"]
    /\ UNCHANGED <<inFlight, idle, thread, panics>>

\* ... and starts one,
Spawn(c, t) ==
    /\ call[c].stage = "spawning" /\ thread[t].stage = "absent"
    /\ thread' = [thread EXCEPT ![t] = [stage |-> "receiving", job |-> c]]
    /\ call' = [call EXCEPT ![c].stage = "waiting"]
    /\ UNCHANGED <<inFlight, idle, panics>>

\* Mutant: a failed spawn keeps the key.
SpawnFailsKeeping(c) ==
    /\ call[c].stage = "spawning"
    /\ call' = [call EXCEPT ![c].stage = "none"]
    /\ UNCHANGED <<inFlight, idle, thread, panics>>

\* or cannot, and start gives the key back.
SpawnFails(c) ==
    /\ call[c].stage = "spawning"
    /\ inFlight' = inFlight \ {call[c].key}
    /\ call' = [call EXCEPT ![c].stage = "none"]
    /\ UNCHANGED <<idle, thread, panics>>

----
(* wait_until.                                                             *)

Receive(c) ==
    /\ call[c].stage = "answered"
    /\ call' = [call EXCEPT ![c].stage = "some"]
    /\ UNCHANGED <<inFlight, idle, thread, panics>>

\* Mutant: the deadline is only looked at when an answer has come.
TimeOutLate(c) ==
    /\ call[c].stage = "answered"
    /\ call' = [call EXCEPT ![c].stage = "none"]
    /\ UNCHANGED <<inFlight, idle, thread, panics>>

\* The deadline passes; the receiver is dropped and a late answer with it.
TimeOut(c) ==
    /\ call[c].stage = "waiting"
    /\ call' = [call EXCEPT ![c].stage = "none"]
    /\ UNCHANGED <<inFlight, idle, thread, panics>>

----
(* The loop of a probe thread.                                             *)

KeyOf(t) == call[thread[t].job].key

TakeJob(t) ==
    /\ thread[t].stage = "receiving" /\ thread[t].job # None
    /\ thread' = [thread EXCEPT ![t].stage = "probing"]
    /\ UNCHANGED <<inFlight, idle, call, panics>>

ProbeReturns(t) ==
    /\ thread[t].stage = "probing"
    /\ thread' = [thread EXCEPT ![t].stage = "returned"]
    /\ UNCHANGED <<inFlight, idle, call, panics>>

\* Unwinding ends the thread and disconnects the caller.
ProbePanics(t) ==
    /\ thread[t].stage = "probing" /\ panics < MaxPanics
    /\ panics' = panics + 1
    /\ thread' = [thread EXCEPT ![t].stage = "dead"]
    /\ call' = [call EXCEPT ![thread[t].job].stage = "none"]
    /\ UNCHANGED <<inFlight, idle>>

\* Mutant: the key is not removed.
FreeNothing(t) ==
    /\ thread[t].stage = "returned"
    /\ thread' = [thread EXCEPT ![t].stage = "freed"]
    /\ UNCHANGED <<inFlight, idle, call, panics>>

FreeKey(t) ==
    /\ thread[t].stage = "returned"
    /\ inFlight' = inFlight \ {KeyOf(t)}
    /\ thread' = [thread EXCEPT ![t].stage = "freed"]
    /\ UNCHANGED <<idle, call, panics>>

\* tx.send, into a channel of one: nobody listens after the deadline.
SendAnswer(t) ==
    /\ thread[t].stage = "freed"
    /\ LET c == thread[t].job
       IN  call' = [call EXCEPT ![c].stage = IF @ = "waiting" THEN "answered" ELSE @]
    /\ thread' = [thread EXCEPT ![t].stage = "sent"]
    /\ UNCHANGED <<inFlight, idle, panics>>

GoIdle(t) ==
    /\ thread[t].stage = "sent"
    /\ idle' = Append(idle, t)
    /\ thread' = [thread EXCEPT ![t] = [stage |-> "receiving", job |-> None]]
    /\ UNCHANGED <<inFlight, call, panics>>

Start(c) == \/ \E key \in Keys : Claim(c, key)
            \/ HandOff(c) \/ NoneIdle(c)
            \/ (\E t \in Threads : Spawn(c, t)) \/ SpawnFails(c)

Caller(c) == Start(c) \/ Receive(c) \/ TimeOut(c)

RunThread(t) == TakeJob(t) \/ ProbeReturns(t) \/ ProbePanics(t)
                \/ FreeKey(t) \/ SendAnswer(t) \/ GoIdle(t)

Next == (\E c \in Calls : Caller(c)) \/ (\E t \in Threads : RunThread(t))

Spec == Init /\ [][Next]_vars

\* What a thread does without waiting for a filesystem that may be stuck.
Unblocked(t) ==
    \/ TakeJob(t) \/ FreeKey(t) \/ SendAnswer(t) \/ GoIdle(t)
    \/ ProbeReturns(t) /\ KeyOf(t) \notin Stuck

\* Callers run start to its end, deadlines pass, threads are scheduled, and
\* volumes that are not stuck answer; no key of Stuck need ever return.
FairSpec ==
    /\ Spec
    /\ \A c \in Calls :
          WF_vars(HandOff(c) \/ NoneIdle(c) \/ (\E t \in Threads : Spawn(c, t)) \/ SpawnFails(c))
    /\ \A c \in Calls : WF_vars(Receive(c) \/ TimeOut(c))
    /\ \A t \in Threads : WF_vars(Unblocked(t))

----
\* A call still inside start, between its claim and the hand-off.
InsideStart(c) == call[c].stage \in {"claimed", "spawning"}

\* A thread that holds its job's key: from the hand-off until FreeKey.
Holding(t) ==
    /\ thread[t].job # None
    /\ thread[t].stage \in {"receiving", "probing", "returned"}

(* Calls and threads are well formed: only a thread that waits, or is yet  *)
(* to start, has no job.                                                   *)
TypeOK ==
    /\ inFlight \subseteq Keys
    /\ idle \in Seq(Threads)
    /\ call \in [Calls -> [stage : CallStages, key : Keys \cup {None}]]
    /\ thread \in [Threads -> [stage : ThreadStages, job : Calls \cup {None}]]
    /\ panics \in Nat
    /\ \A t \in Threads : thread[t].job = None => thread[t].stage \in {"absent", "receiving"}

(* Two probes of one key never run at the same time, so a volume that has  *)
(* stopped answering costs one thread, however often it is asked for.      *)
OneProbePerKey ==
    \A t, u \in Threads :
        thread[t].stage = "probing" /\ thread[u].stage = "probing" /\ KeyOf(t) = KeyOf(u)
            => t = u

(* A key is refused only while "still running from an earlier call"        *)
(* (deadline.rs:12): the keys in flight are those of the calls still       *)
(* inside start and of the threads that hold a job not yet answered.       *)
InFlightMeansRunning ==
    inFlight = {call[c].key : c \in {d \in Calls : InsideStart(d)}}
               \cup {KeyOf(t) : t \in {u \in Threads : Holding(u)}}

(* ... which holds until a probe panics: no answer that comes late, no     *)
(* failure to start a thread and no caller that gave up leaves a key.      *)
KeysAccountedFor == panics = 0 => InFlightMeansRunning

(* A thread in the idle list is free: the job it is handed is received at  *)
(* once, never queued behind a probe that may not return.                  *)
IdleThreadsAreFree ==
    /\ \A i \in DOMAIN idle : thread[idle[i]] = [stage |-> "receiving", job |-> None]
    /\ \A i, j \in DOMAIN idle : idle[i] = idle[j] => i = j

(* Calls and threads are well formed, and an idle thread is free.          *)
PoolSound == TypeOK /\ IdleThreadsAreFree

(* Each call of start and wait_until returns, and the key of a volume that *)
(* answers is free again, whatever stuck volumes are probed meanwhile.     *)
CallsReturn ==
    \A c \in Calls : call[c].stage # "new" ~> call[c].stage \in {"some", "none"}
KeysComeBack ==
    \A k \in Keys \ Stuck : k \in inFlight ~> k \notin inFlight \/ panics > 0
====
