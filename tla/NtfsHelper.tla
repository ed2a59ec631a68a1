---------------------------- MODULE NtfsHelper ----------------------------
(***************************************************************************)
(* The Fast NTFS session: run_fast_ntfs and HelperSession                  *)
(* (ferail-ntfs-win32/src/client.rs), the elevated process it talks to     *)
(* (helper.rs), and the private named pipe between them (pipe.rs).         *)
(*                                                                         *)
(* The calls of one process share one cached session under a mutex.  A     *)
(* helper serves one Start after another; while it scans, a thread of it   *)
(* reads the pipe for a Cancel.  Deadlines are steps that may come at any  *)
(* time once the wait they bound has begun.  A frame is what its kind and  *)
(* request id tell apart; one whose write was given up half way is "torn". *)
(***************************************************************************)
EXTENDS Naturals, Sequences, SequencesExt, FiniteSets

CONSTANTS Calls,        \* calls of run_fast_ntfs, one per scan
          Helpers,      \* helper processes, in the order they are launched
          Protected,    \* the helpers Windows does not let the client terminate
          PipeFrames,   \* how many frames the pipe buffers towards the client
          FastRows      \* the batches of a complete scan

ASSUME HelpersAssumption == Helpers \subseteq Nat \ {0} /\ Protected \subseteq Helpers
ASSUME CallsAssumption == Calls \subseteq Nat \ {0}
ASSUME FramesAssumption == PipeFrames \in Nat \ {0} /\ FastRows \in Nat

VARIABLES call,       \* the client side of each call
          cancelled,  \* the calls whose cancel flag is set
          lock,       \* who holds the mutex of HELPER_SESSION, or NoCall
          session,    \* the helper of the cached or current session, or 0
          helper,     \* the helper processes
          open,       \* the helpers whose pipe the client has not closed
          toHelper, toClient   \* the two directions of each pipe
ntfsVars == <<call, cancelled, lock, session, helper, open, toHelper, toClient>>

NoCall == 0
Gone(h) == helper[h].at = "gone"
Frame(kind, id) == [kind |-> kind, id |-> id, rows |-> 0]

NewHelper == [at |-> "absent", id |-> 0, reader |-> "none", cancel |-> FALSE, rows |-> 0,
              result |-> "none"]
GoneHelper == [NewHelper EXCEPT !.at = "gone"]

----
(* The client.                                                             *)

Idle == [at |-> "idle", id |-> 0, ready |-> FALSE, rows |-> 0, batch |-> FALSE, result |-> "none"]

Run(c, id) == call' = [call EXCEPT ![c] = [Idle EXCEPT !.at = "locking", !.id = id]]

Goes(c, at) == call' = [call EXCEPT ![c].at = at]

Returns(c, result) ==
    /\ call' = [call EXCEPT ![c] = [Idle EXCEPT !.at = "returned", !.result = result, !.rows = call[c].rows]]
    /\ lock' = NoCall

\* The session is dropped: the pipe is closed and the child terminated.  The
\* client ignores it when Windows does not let it.
DropSession ==
    /\ session' = 0
    /\ open' = open \ {session}
    /\ toHelper' = [toHelper EXCEPT ![session] = <<>>]
    /\ toClient' = [toClient EXCEPT ![session] = <<>>]
    /\ helper' = IF session \in Protected THEN helper ELSE [helper EXCEPT ![session] = GoneHelper]

Fails(c, result) ==
    /\ Returns(c, result)
    /\ DropSession
    /\ UNCHANGED cancelled

\* Before it takes the lock the client looks at the volume itself.
ProbeFails(c) ==
    /\ call[c].at = "locking"
    /\ call' = [call EXCEPT ![c].at = "returned", ![c].result = "platform"]
    /\ UNCHANGED <<cancelled, lock, session, helper, open, toHelper, toClient>>

\* A call that is cancelled before it has the lock does nothing.
Lock(c) ==
    /\ call[c].at = "locking" /\ lock = NoCall
    /\ IF c \in cancelled
       THEN Returns(c, "cancelled")
       ELSE /\ lock' = c
            /\ Goes(c, IF session = 0 THEN "launching" ELSE "starting")
    /\ UNCHANGED <<cancelled, session, helper, open, toHelper, toClient>>

\* ShellExecuteExW: the user consents, or declines, or there is no helper.
Launch(c) ==
    /\ call[c].at = "launching"
    /\ \/ /\ Returns(c, "declined")
          /\ UNCHANGED <<session, helper, open>>
       \/ \E h \in Helpers :
             /\ helper[h].at = "absent" /\ \A k \in Helpers : k < h => helper[k].at # "absent"
             /\ helper' = [helper EXCEPT ![h].at = "starting"]
             /\ session' = h
             /\ open' = open \cup {h}
             /\ Goes(c, "hello")
             /\ UNCHANGED lock
    /\ UNCHANGED <<cancelled, toHelper, toClient>>

TakeFrame(h) == toClient' = [toClient EXCEPT ![h] = Tail(@)]

ReadHello(c) ==
    /\ call[c].at = "hello" /\ toClient[session] # <<>>
    /\ TakeFrame(session)
    /\ Goes(c, "starting")
    /\ UNCHANGED <<cancelled, lock, session, helper, open, toHelper>>

\* connect gives up: cancelled, out of time, or the helper is gone.
ConnectFails(c) ==
    /\ call[c].at = "hello" /\ toClient[session] = <<>>
    /\ Fails(c, IF c \in cancelled THEN "cancelled" ELSE "timeout")

SendStart(c) ==
    /\ call[c].at = "starting"
    /\ IF Gone(session)
       THEN Fails(c, "platform")
       ELSE /\ toHelper' = [toHelper EXCEPT ![session] = Append(@, Frame("Start", call[c].id))]
            /\ Goes(c, "reading")
            /\ UNCHANGED <<cancelled, lock, session, helper, open, toClient>>

\* on_event is called with a batch before the next frame is read.
Reading(c) == call[c].at = "reading" /\ ~call[c].batch

Accepts(c, f) ==
    /\ f.id = call[c].id
    /\ \/ f.kind = "Ready" /\ ~call[c].ready
       \/ f.kind = "Batch" /\ call[c].ready
       \/ f.kind = "Complete" /\ call[c].ready /\ f.rows = call[c].rows

ReadEvent(c) ==
    /\ Reading(c) /\ toClient[session] # <<>>
    /\ LET f == Head(toClient[session])
       IN CASE Accepts(c, f) /\ f.kind = "Complete" ->
                 /\ Returns(c, "complete")
                 /\ TakeFrame(session)
                 /\ UNCHANGED <<session, helper, open, toHelper>>
            [] Accepts(c, f) /\ f.kind # "Complete" ->
                 /\ call' = [call EXCEPT ![c].ready = TRUE, ![c].batch = (f.kind = "Batch"),
                                         ![c].rows = IF f.kind = "Batch" THEN @ + 1 ELSE @]
                 /\ TakeFrame(session)
                 /\ UNCHANGED <<lock, session, helper, open, toHelper>>
            [] ~Accepts(c, f) ->
                 /\ Returns(c, IF f.kind = "Failed" /\ f.id = call[c].id
                               THEN "failed" ELSE "protocol")
                 /\ DropSession
    /\ UNCHANGED cancelled

\* The flag is looked at while a read waits, and the scan has an absolute deadline
\* as well: the helper is told to stop and given a grace period to exit.
StopHelper(c) ==
    /\ Reading(c)
    /\ \/ /\ c \in cancelled /\ toClient[session] = <<>>
          /\ call' = [call EXCEPT ![c].result = "cancelled", ![c].at = "cancelling"]
       \/ call' = [call EXCEPT ![c].result = "timeout", ![c].at = "cancelling"]
    /\ toHelper' = [toHelper EXCEPT ![session] =
                       IF Gone(session) THEN @ ELSE Append(@, Frame("Cancel", call[c].id))]
    /\ UNCHANGED <<cancelled, lock, session, helper, open, toClient>>

GraceEnds(c) == call[c].at = "cancelling" /\ Fails(c, call[c].result)

\* Nothing comes for INACTIVITY_TIMEOUT, or the helper is gone.
ReadFails(c) ==
    /\ Reading(c) /\ toClient[session] = <<>>
    /\ Fails(c, IF Gone(session) THEN "platform" ELSE "timeout")

Handled(c) == call' = [call EXCEPT ![c].batch = FALSE]

Client(c) ==
    \/ ProbeFails(c) \/ Lock(c) \/ Launch(c) \/ ReadHello(c) \/ ConnectFails(c) \/ SendStart(c)
    \/ ReadEvent(c) \/ StopHelper(c) \/ GraceEnds(c) \/ ReadFails(c)

----
(* The helper.                                                             *)

\* Between two scans a helper keeps nothing.
Becomes(h, at) == helper' = [helper EXCEPT ![h] = [NewHelper EXCEPT !.at = at]]
HelperOnly == UNCHANGED <<call, cancelled, lock, session, open>>

HelperStarts(h) ==
    /\ helper[h].at = "starting"
    /\ IF h \in open
       THEN /\ Becomes(h, "awaiting")
            /\ toClient' = [toClient EXCEPT ![h] = Append(@, Frame("Hello", 0))]
       ELSE Becomes(h, "gone") /\ UNCHANGED toClient
    /\ HelperOnly /\ UNCHANGED toHelper

\* The next frame must be a Start.  Its thread for Cancel is spawned with it.
TakeStart(h) ==
    /\ helper[h].at = "awaiting"
    /\ IF h \in open
       THEN /\ toHelper[h] # <<>>
            /\ toHelper' = [toHelper EXCEPT ![h] = Tail(@)]
            /\ LET f == Head(toHelper[h])
               IN helper' = [helper EXCEPT ![h] =
                    IF f.kind = "Start"
                    THEN [NewHelper EXCEPT !.at = "opening", !.id = f.id, !.reader = "spawned"]
                    ELSE GoneHelper]
       ELSE Becomes(h, "gone") /\ UNCHANGED toHelper
    /\ HelperOnly /\ UNCHANGED toClient

ReaderBegins(h) ==
    /\ helper[h].reader = "spawned" /\ ~Gone(h)
    /\ helper' = [helper EXCEPT ![h].reader = "reading"]
    /\ HelperOnly /\ UNCHANGED <<toHelper, toClient>>

\* Mutant: the reader does not notice that the pipe is closed.
ReaderReadsFrames(h) ==
    /\ helper[h].reader = "reading" /\ h \in open /\ toHelper[h] # <<>>
    /\ helper' = [helper EXCEPT ![h].reader = "done", ![h].cancel = TRUE]
    /\ toHelper' = [toHelper EXCEPT ![h] = Tail(@)]
    /\ HelperOnly /\ UNCHANGED toClient

\* A Cancel of this request, or anything else before the scan has stopped the
\* reader, cancels the scan; so does a pipe that is closed.
ReaderReads(h) ==
    /\ helper[h].reader = "reading" /\ ~Gone(h)
    /\ h \notin open \/ toHelper[h] # <<>>
    /\ LET stopped == helper[h].at = "joining"
           asked == h \in open /\ Head(toHelper[h]) = Frame("Cancel", helper[h].id)
       IN helper' = [helper EXCEPT ![h].reader = "done", ![h].cancel = @ \/ ~stopped \/ asked]
    /\ toHelper' = IF h \in open THEN [toHelper EXCEPT ![h] = Tail(@)] ELSE toHelper
    /\ HelperOnly /\ UNCHANGED toClient

\* The scan is over: the flag is set and the I/O on the pipe cancelled, which
\* ends the reader if its read has begun.
Stop(h, result) ==
    helper' = [helper EXCEPT ![h].at = "joining", ![h].result = result,
                             ![h].reader = IF @ = "reading" THEN "done" ELSE @]

\* A frame is written when the pipe has room.  A write that waits is given up
\* when the scan is cancelled or after WRITE_TIMEOUT, and may leave a part of
\* the frame behind; one into a closed pipe fails.
HasRoom(h) == Len(toClient[h]) < PipeFrames

Send(h, kind, rows) ==
    toClient' = [toClient EXCEPT ![h] = Append(@, [kind |-> kind, id |-> helper[h].id, rows |-> rows])]

WriteGivenUp(h) ==
    /\ h \notin open \/ ~HasRoom(h)
    /\ \/ UNCHANGED toClient
       \/ h \in open /\ Last(toClient[h]).kind # "torn" /\ Send(h, "torn", 0)

SendFails(h) == WriteGivenUp(h) /\ Stop(h, "failed")

ScanStep(h) == HelperOnly /\ UNCHANGED toHelper

\* Validation and setup, then Ready.
Open(h) ==
    /\ helper[h].at = "opening"
    /\ \/ Stop(h, "failed") /\ UNCHANGED toClient
       \/ /\ h \in open /\ HasRoom(h)
          /\ helper' = [helper EXCEPT ![h].at = "scanning"]
          /\ Send(h, "Ready", 0)
       \/ SendFails(h)
    /\ ScanStep(h)

Batch(h) ==
    /\ helper[h].at = "scanning" /\ ~helper[h].cancel /\ helper[h].rows < FastRows
    /\ \/ /\ h \in open /\ HasRoom(h)
          /\ Send(h, "Batch", 0)
          /\ helper' = [helper EXCEPT ![h].rows = @ + 1]
       \/ SendFails(h)
    /\ ScanStep(h)

EndScan(h) ==
    /\ helper[h].at = "scanning"
    /\ \/ helper[h].rows = FastRows /\ Stop(h, "complete")
       \/ helper[h].cancel /\ Stop(h, "failed")
       \/ helper[h].rows < FastRows /\ Stop(h, "failed")   \* a corrupt or unreadable volume
    /\ UNCHANGED toClient /\ ScanStep(h)

\* Mutant: the terminal frame does not wait for the reader.
ReportEarly(h) ==
    /\ helper[h].at = "joining" /\ h \in open /\ HasRoom(h)
    /\ helper' = [helper EXCEPT ![h].at = "awaiting"]
    /\ Send(h, IF helper[h].result = "complete" THEN "Complete" ELSE "Failed", helper[h].rows)
    /\ ScanStep(h)

\* After the reader has been joined, the terminal frame releases the client.  A
\* Complete that cannot be written ends the helper, a Failed does not.
Report(h) ==
    /\ helper[h].at = "joining" /\ helper[h].reader = "done"
    /\ LET complete == helper[h].result = "complete"
       IN \/ /\ h \in open /\ HasRoom(h)
             /\ Becomes(h, "awaiting")
             /\ Send(h, IF complete THEN "Complete" ELSE "Failed", helper[h].rows)
          \/ WriteGivenUp(h) /\ Becomes(h, IF complete THEN "gone" ELSE "awaiting")
    /\ ScanStep(h)

\* The helper crashes, or leaves after START_TIMEOUT without a Start.  (One
\* whose pipe is closed has nobody left to notice.)
HelperDies(h) ==
    /\ h \in open /\ ~Gone(h)
    /\ Becomes(h, "gone")
    /\ HelperOnly /\ UNCHANGED <<toHelper, toClient>>

HelperRuns(h) ==
    \/ HelperStarts(h) \/ TakeStart(h) \/ ReaderBegins(h) \/ ReaderReads(h)
    \/ Open(h) \/ Batch(h) \/ EndScan(h) \/ Report(h)

----
NtfsInit ==
    /\ call = [c \in Calls |-> Idle] /\ cancelled = {}
    /\ lock = NoCall /\ session = 0
    /\ helper = [h \in Helpers |-> NewHelper] /\ open = {}
    /\ toHelper = [h \in Helpers |-> <<>>] /\ toClient = [h \in Helpers |-> <<>>]
=============================================================================
