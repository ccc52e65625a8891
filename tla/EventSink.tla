------------------------------ MODULE EventSink ------------------------------
(***************************************************************************)
(* How events reach the application in the thin client                     *)
(* (katzenpost/client/thin/thin.go): the reader goroutine dispatches what  *)
(* the daemon sends into eventSink, eventSinkWorker copies each event to   *)
(* every subscribed drain, and the calls of the application - subscribe,   *)
(* write a request, wait for its reply, unsubscribe - come and go.  No     *)
(* channel but the reader's and the worker's sends watches HaltCh.         *)
(*                                                                         *)
(* An event is its position in what the daemon sent.  eventSink is first   *)
(* in first out, so three positions tell what is in it: the reader has     *)
(* read and pushed so far, the worker has taken so far.                    *)
(***************************************************************************)
EXTENDS Naturals, Sequences, FiniteSets

CONSTANTS
    Callers,        \* goroutines of the application, one call each
    Nobody,         \* the destination of an event that is no reply
    EventSinkCap,   \* 2 in the code
    MaxEvents,      \* bound: events the daemon sends
    MayClose        \* does the application close the client?

ASSUME EventSinkAssumption ==
    /\ Nobody \notin Callers
    /\ EventSinkCap \in Nat \ {0}
    /\ MaxEvents \in Nat
    /\ MayClose \in BOOLEAN

VARIABLES
    sent,       \* sent[i]: the caller event i replies to, or Nobody
    asked,      \* callers whose request the daemon has not answered
    closed,     \* has the daemon closed the connection?
    halted,     \* is HaltCh closed?
    reader,     \* the worker goroutine: "read", "push" or "exited"
    read,       \* events read from the connection
    pushed,     \* events sent into eventSink
    taken,      \* events received from eventSink
    sinkWorker, \* eventSinkWorker: "select", "deliver" or "exited"
    drains,     \* the callers subscribed
    todo,       \* the drains event `taken' has not been delivered to
    drain,      \* drain[c]: c's channel, of capacity 1
    call,       \* call[c]: how far c's call is
    got,        \* history: got[c], the events c has received
    joined      \* history: joined[c], taken when c subscribed

daemonVars == <<sent, asked, closed>>
readerVars == <<reader, read, pushed>>
workerVars == <<sinkWorker, taken, drains, todo, joined>>
vars == <<daemonVars, halted, readerVars, workerVars, drain, call, got>>

Positions == 1..MaxEvents
Progress  == 0..MaxEvents
Steps     == {"idle", "adding", "writing", "waiting", "stopping", "returned"}

TypeOK ==
    /\ sent \in Seq(Callers \cup {Nobody}) /\ Len(sent) \in Progress
    /\ asked \subseteq Callers
    /\ closed \in BOOLEAN /\ halted \in BOOLEAN
    /\ reader \in {"read", "push", "exited"}
    /\ read \in 0..Len(sent)
    /\ pushed \in 0..read /\ read <= pushed + 1
    /\ taken \in 0..pushed /\ pushed <= taken + EventSinkCap
    /\ sinkWorker \in {"select", "deliver", "exited"}
    /\ todo \subseteq drains /\ drains \subseteq Callers
    /\ drain \in [Callers -> Seq(Positions)] /\ \A c \in Callers : Len(drain[c]) <= 1
    /\ call \in [Callers -> Steps]
    /\ got \in [Callers -> Seq(Positions)]
    /\ joined \in [Callers -> Progress]

-----------------------------------------------------------------------------
(* The daemon: replies in any order, and events of its own accord.         *)
DaemonSends(d) ==
    /\ d \in asked \cup {Nobody}
    /\ Len(sent) < MaxEvents /\ ~closed
    /\ sent' = Append(sent, d)
    /\ asked' = asked \ {d}
    /\ UNCHANGED <<closed, halted, readerVars, workerVars, drain, call, got>>

(* It closes the connection when it reads the ThinClose that Close sends.  *)
DaemonCloses ==
    /\ halted /\ ~closed
    /\ closed' = TRUE
    /\ UNCHANGED <<sent, asked, halted, readerVars, workerVars, drain, call, got>>

(* Close: ThinClose is written, then HaltCh is closed and the goroutines   *)
(* are waited for; the connection is only closed after that.               *)
Close ==
    /\ MayClose /\ ~halted
    /\ halted' = TRUE
    /\ UNCHANGED <<daemonVars, readerVars, workerVars, drain, call, got>>

-----------------------------------------------------------------------------
(* The reader: readUntilDisconnect and dispatchMessage.                    *)
ReadMessage ==
    /\ reader = "read" /\ read < Len(sent)
    /\ reader' = "push"
    /\ read' = read + 1
    /\ UNCHANGED <<daemonVars, halted, pushed, workerVars, drain, call, got>>

(* Mutant of Push: one event more than eventSink can hold.                 *)
PushBeyond ==
    /\ reader = "push" /\ pushed <= taken + EventSinkCap
    /\ pushed' = read
    /\ reader' = IF halted THEN "exited" ELSE "read"
    /\ UNCHANGED <<daemonVars, halted, read, workerVars, drain, call, got>>

(* eventSink <- event, then the check of HaltCh before the next read.      *)
Push ==
    /\ reader = "push" /\ pushed < taken + EventSinkCap
    /\ pushed' = read
    /\ reader' = IF halted THEN "exited" ELSE "read"
    /\ UNCHANGED <<daemonVars, halted, read, workerVars, drain, call, got>>

PushHalts ==
    /\ reader = "push" /\ halted
    /\ reader' = "exited"
    /\ UNCHANGED <<daemonVars, halted, read, pushed, workerVars, drain, call, got>>

(* A blocked read only ends with the connection.                           *)
ReadFails ==
    /\ reader = "read" /\ read = Len(sent) /\ closed
    /\ reader' = "exited"
    /\ UNCHANGED <<daemonVars, halted, read, pushed, workerVars, drain, call, got>>

-----------------------------------------------------------------------------
(* eventSinkWorker.                                                        *)
WorkerAdds(c) ==
    /\ sinkWorker = "select" /\ call[c] = "adding"
    /\ drains' = drains \cup {c}
    /\ joined' = [joined EXCEPT ![c] = taken]
    /\ call' = [call EXCEPT ![c] = "writing"]
    /\ UNCHANGED <<daemonVars, halted, readerVars, sinkWorker, taken, todo, drain, got>>

WorkerRemoves(c) ==
    /\ sinkWorker = "select" /\ call[c] = "stopping"
    /\ drains' = drains \ {c}
    /\ call' = [call EXCEPT ![c] = "returned"]
    /\ UNCHANGED <<daemonVars, halted, readerVars, sinkWorker, taken, todo, joined, drain, got>>

WorkerTakes ==
    /\ sinkWorker = "select" /\ taken < pushed
    /\ taken' = taken + 1
    /\ todo' = drains
    /\ sinkWorker' = IF drains = {} THEN "select" ELSE "deliver"
    /\ UNCHANGED <<daemonVars, halted, readerVars, drains, joined, drain, call, got>>

(* Mutant of Deliver: a drain that is full is skipped.                     *)
DeliverOrDrop(c) ==
    /\ sinkWorker = "deliver" /\ c \in todo
    /\ drain' = IF drain[c] = <<>> THEN [drain EXCEPT ![c] = <<taken>>] ELSE drain
    /\ todo' = todo \ {c}
    /\ sinkWorker' = IF todo = {c} THEN "select" ELSE "deliver"
    /\ UNCHANGED <<daemonVars, halted, readerVars, taken, drains, joined, call, got>>

(* drain <- event, as long as it takes.                                    *)
Deliver(c) ==
    /\ sinkWorker = "deliver" /\ c \in todo /\ drain[c] = <<>>
    /\ drain' = [drain EXCEPT ![c] = <<taken>>]
    /\ todo' = todo \ {c}
    /\ sinkWorker' = IF todo = {c} THEN "select" ELSE "deliver"
    /\ UNCHANGED <<daemonVars, halted, readerVars, taken, drains, joined, call, got>>

(* Mutant of WorkerHalts: a delivery does not watch HaltCh.                *)
WorkerHaltsIdle ==
    /\ sinkWorker = "select" /\ halted
    /\ sinkWorker' = "exited"
    /\ UNCHANGED <<daemonVars, halted, readerVars, taken, drains, todo, joined, drain, call, got>>

(* "HaltCh remains the escape hatch", at the select and at every delivery. *)
WorkerHalts ==
    /\ sinkWorker # "exited" /\ halted
    /\ sinkWorker' = "exited"
    /\ UNCHANGED <<daemonVars, halted, readerVars, taken, drains, todo, joined, drain, call, got>>

-----------------------------------------------------------------------------
(* A call of the application: GetPKIDocumentRaw, GetDirectoryAuthorities,  *)
(* BlockingSendMessage.                                                    *)

(* Mutant of StartCall: the request is written before the subscription.    *)
StartCallWrites(c) ==
    /\ call[c] = "idle"
    /\ call' = [call EXCEPT ![c] = "adding"]
    /\ asked' = asked \cup {c}
    /\ UNCHANGED <<sent, closed, halted, readerVars, workerVars, drain, got>>

(* EventSink(): drainAdd <- ch.                                            *)
StartCall(c) ==
    /\ call[c] = "idle"
    /\ call' = [call EXCEPT ![c] = "adding"]
    /\ UNCHANGED <<daemonVars, halted, readerVars, workerVars, drain, got>>

WriteRequest(c) ==
    /\ call[c] = "writing"
    /\ call' = [call EXCEPT ![c] = "waiting"]
    /\ asked' = asked \cup {c}
    /\ UNCHANGED <<sent, closed, halted, readerVars, workerVars, drain, got>>

(* writeMessage reports an error; the deferred StopEventSink runs.         *)
WriteFails(c) ==
    /\ call[c] = "writing"
    /\ call' = [call EXCEPT ![c] = "stopping"]
    /\ UNCHANGED <<daemonVars, halted, readerVars, workerVars, drain, got>>

Receive(c) ==
    /\ call[c] = "waiting" /\ drain[c] # <<>>
    /\ got' = [got EXCEPT ![c] = @ \o drain[c]]
    /\ drain' = [drain EXCEPT ![c] = <<>>]
    /\ call' = [call EXCEPT ![c] = IF sent[Head(drain[c])] = c THEN "stopping" ELSE "waiting"]
    /\ UNCHANGED <<daemonVars, halted, readerVars, workerVars>>

(* The context is done, HaltCh is closed, or the daemon went offline.      *)
GiveUp(c) ==
    /\ call[c] = "waiting"
    /\ call' = [call EXCEPT ![c] = "stopping"]
    /\ UNCHANGED <<daemonVars, halted, readerVars, workerVars, drain, got>>

-----------------------------------------------------------------------------
Init ==
    /\ sent = <<>> /\ asked = {} /\ closed = FALSE /\ halted = FALSE
    /\ reader = "read" /\ read = 0 /\ pushed = 0 /\ taken = 0
    /\ sinkWorker = "select" /\ drains = {} /\ todo = {}
    /\ drain = [c \in Callers |-> <<>>]
    /\ call = [c \in Callers |-> "idle"]
    /\ got = [c \in Callers |-> <<>>]
    /\ joined = [c \in Callers |-> 0]

Reader == ReadMessage \/ Push \/ PushHalts \/ ReadFails

CallerStep(c) ==
    \/ StartCall(c) \/ WriteRequest(c) \/ WriteFails(c)
    \/ Receive(c) \/ GiveUp(c)

Next ==
    \/ \E d \in Callers \cup {Nobody} : DaemonSends(d)
    \/ DaemonCloses \/ Close
    \/ Reader
    \/ WorkerTakes \/ WorkerHalts
    \/ \E c \in Callers : WorkerAdds(c) \/ WorkerRemoves(c) \/ Deliver(c) \/ CallerStep(c)

Spec == Init /\ [][Next]_vars

(* The goroutines run, and the daemon closes the connection once it has    *)
(* been told to.  No call is obliged to do anything.                       *)
CloseFairness ==
    /\ WF_vars(Reader) /\ WF_vars(DaemonCloses) /\ WF_vars(WorkerHalts)

CloseSpec == Spec /\ CloseFairness

(* Moreover a select that keeps offering a ready case takes it in the end  *)
(* (Go picks at random), and calls read their drain while they wait.       *)
Fairness ==
    /\ CloseFairness
    /\ WF_vars(WorkerTakes)
    /\ \A c \in Callers :
        /\ SF_vars(WorkerAdds(c)) /\ SF_vars(WorkerRemoves(c))
        /\ WF_vars(Deliver(c))
        /\ WF_vars(WriteRequest(c) \/ WriteFails(c)) /\ WF_vars(Receive(c))

FairSpec == Spec /\ Fairness

-----------------------------------------------------------------------------
(* What the fan-out promises.                                              *)

(* The last event c's drain should have: the one being delivered counts    *)
(* once it has been.                                                       *)
Upto(c) == IF c \in todo THEN taken - 1 ELSE taken

(* "Events are never silently dropped": what a subscriber has received and *)
(* what waits in its drain are, in order and without a gap, the events     *)
(* taken since it subscribed.                                              *)
NoSilentLoss ==
    \A c \in drains :
        got[c] \o drain[c] = [i \in 1..(Upto(c) - joined[c]) |-> joined[c] + i]

(* A call that waits has not missed its reply: whenever the reply was      *)
(* sent, it is still ahead of the caller.                                  *)
ReplyNotMissed ==
    \A c \in Callers : call[c] = "waiting" =>
        \A i \in DOMAIN sent : sent[i] = c => i > joined[c] + Len(got[c])

(* "HaltCh remains the escape hatch so Close() still works": however stuck *)
(* the subscribers are, the two goroutines Close waits for end.            *)
CloseReturns == halted ~> sinkWorker = "exited" /\ reader = "exited"

(* "Applications must drain promptly or call StopEventSink() to release    *)
(* their subscription": the call returns.  The code does not keep this: a  *)
(* delivery to the very drain that is being given up waits for ever.       *)
StopReleases == \A c \in Callers : call[c] = "stopping" ~> call[c] = "returned"
=============================================================================
