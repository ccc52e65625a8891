----------------------------- MODULE ThinSession -----------------------------
(***************************************************************************)
(* The thin client's connection to the daemon (katzenpost/client/thin/     *)
(* thin.go): the worker goroutine reads until the connection drops, tells  *)
(* the application, redials, repeats the handshake and, if it finds a new  *)
(* daemon instance, replays the StartResending* requests in flight.  The   *)
(* application's goroutines write requests on whatever t.conn is and set   *)
(* isConnected from the status events they come across.                    *)
(*                                                                         *)
(* The daemon is outside: it holds the requests it has received until it   *)
(* answers them or restarts.                                               *)
(***************************************************************************)
EXTENDS PKIDocCache, Sequences

CONSTANTS
    Reqs,           \* the StartResending* requests of the application
    NoReq,
    MaxBreaks,      \* bound: connections lost
    MaxStatus       \* bound: status events no caller has looked at yet

ASSUME SessionAssumption == NoReq \notin Reqs /\ MaxBreaks \in Nat /\ MaxStatus \in Nat

VARIABLES
    daemon,                 \* the instance that is running: 1, 2, ...
    online,                 \* what the last status event said
    held,                   \* the requests this instance is working on
    conn,                   \* t.conn: [to |-> instance, up |-> BOOLEAN]
    pipe,                   \* requests written on conn, not yet read
    pc,                     \* where the worker goroutine is
    daemonInstanceToken,
    previousToken,
    isConnected,
    inFlightResends,
    todo,                   \* what the replay has not reached yet
    writing,                \* the request an application goroutine stored
                            \* and is about to write
    statuses,               \* status events callers have not handled yet
    answered,               \* requests whose reply was read
    failed,                 \* requests whose write reported an error
    lost,                   \* history: requests that were written on, or could
                            \* not be replayed on, a connection that dropped
                            \* while the daemon kept running
    breaks                  \* bound

daemonVars == <<daemon, online, held>>
tokenVars  == <<daemonInstanceToken, previousToken>>
reqVars    == <<inFlightResends, writing, answered, failed>>
sessionVars == <<daemonVars, conn, pipe, pc, tokenVars, isConnected, todo, reqVars,
                 statuses, lost, breaks>>
vars == <<sessionVars, docVars>>

Handshake == {"status", "doc", "token", "reply"}
Instances == 1..(MaxBreaks + 1)

TypeOK ==
    /\ daemon \in Instances
    /\ online \in BOOLEAN
    /\ held \subseteq Reqs
    /\ conn \in [to : Instances, up : BOOLEAN]
    /\ pipe \subseteq Reqs
    /\ pc \in {"read", "notify", "redial", "replay"} \cup Handshake
    /\ daemonInstanceToken \in Instances
    /\ previousToken \in Instances
    /\ isConnected \in BOOLEAN
    /\ inFlightResends \subseteq Reqs
    /\ todo \subseteq Reqs
    /\ writing \in Reqs \cup {NoReq}
    /\ statuses \in Seq(BOOLEAN) /\ Len(statuses) <= MaxStatus
    /\ answered \subseteq Reqs
    /\ failed \subseteq Reqs
    /\ lost \subseteq Reqs
    /\ breaks \in 0..MaxBreaks
    /\ DocTypeOK

-----------------------------------------------------------------------------
(* The world.                                                              *)

(* The connection drops; what the daemon had not read is gone.             *)
Break ==
    /\ conn.up /\ breaks < MaxBreaks
    /\ breaks' = breaks + 1
    /\ conn' = [conn EXCEPT !.up = FALSE]
    /\ pipe' = {}
    /\ lost' = lost \cup pipe
    /\ UNCHANGED <<daemonVars, pc, tokenVars, isConnected, todo, reqVars, statuses, docVars>>

(* The daemon restarts: a new instance that knows none of the requests.    *)
Restart ==
    /\ breaks < MaxBreaks
    /\ breaks' = breaks + 1
    /\ daemon' = daemon + 1
    /\ held' = {}
    /\ conn' = [conn EXCEPT !.up = FALSE]
    /\ pipe' = {}
    /\ lost' = {}
    /\ UNCHANGED <<online, pc, tokenVars, isConnected, todo, reqVars, statuses, docVars>>

DaemonReceives(r) ==
    /\ r \in pipe
    /\ pipe' = pipe \ {r}
    /\ held' = held \cup {r}
    /\ UNCHANGED <<daemon, online, conn, pc, tokenVars, isConnected, todo, reqVars,
                   statuses, lost, breaks, docVars>>

-----------------------------------------------------------------------------
(* The application's goroutines.                                           *)

(* A StartResending* call stores its request, then writes it on t.conn.    *)
StartResending(r) ==
    /\ writing = NoReq
    /\ r \notin inFlightResends \cup answered \cup failed
    /\ inFlightResends' = inFlightResends \cup {r}
    /\ writing' = r
    /\ UNCHANGED <<daemonVars, conn, pipe, pc, tokenVars, isConnected, todo, answered,
                   failed, statuses, lost, breaks, docVars>>

(* writeMessage on a connection: the daemon will read it, unless the       *)
(* connection has dropped.                                                 *)
WriteTo(r) ==
    /\ conn.up
    /\ pipe' = pipe \cup {r}
    /\ UNCHANGED lost

(* On a connection that dropped the write is lost: it lands in a buffer    *)
(* nobody reads, or it fails and the failure is only logged.               *)
WriteLost(r) ==
    /\ ~conn.up
    /\ lost' = IF conn.to = daemon THEN lost \cup {r} ELSE lost
    /\ UNCHANGED pipe

WriteRequest ==
    /\ writing # NoReq
    /\ \/ WriteTo(writing) /\ UNCHANGED <<inFlightResends, failed>>
       \/ /\ pc \notin {"notify", "redial"}     \* t.conn is not closed yet
          /\ WriteLost(writing)
          /\ UNCHANGED <<inFlightResends, failed>>
       \/ /\ ~conn.up               \* the error is returned to the caller
          /\ inFlightResends' = inFlightResends \ {writing}
          /\ failed' = failed \cup {writing}
          /\ UNCHANGED <<pipe, lost>>
    /\ writing' = NoReq
    /\ UNCHANGED <<daemonVars, conn, pc, tokenVars, isConnected, todo, answered,
                   statuses, breaks, docVars>>

(* The call that waits for the reply gets it and drops its request.        *)
CallerGetsReply(r) ==
    /\ r \in answered \cap inFlightResends /\ r # writing
    /\ inFlightResends' = inFlightResends \ {r}
    /\ UNCHANGED <<daemonVars, conn, pipe, pc, tokenVars, isConnected, todo, writing, answered,
                   failed, statuses, lost, breaks, docVars>>

(* A waiting GetPKIDocumentRaw or GetDirectoryAuthorities call reaches a   *)
(* status event in its drain: setConnected.                                *)
CallerSetsConnected ==
    /\ statuses # <<>>
    /\ isConnected' = Head(statuses)
    /\ statuses' = Tail(statuses)
    /\ UNCHANGED <<daemonVars, conn, pipe, pc, tokenVars, todo, reqVars, lost, breaks, docVars>>

(* It finds its reply and returns: the rest of its drain is never read.    *)
CallerReturns ==
    /\ statuses # <<>>
    /\ statuses' = <<>>
    /\ UNCHANGED <<daemonVars, conn, pipe, pc, tokenVars, isConnected, todo, reqVars, lost,
                   breaks, docVars>>

-----------------------------------------------------------------------------
(* The worker goroutine: readUntilDisconnect and dispatchMessage.          *)

(* A status event, which is also distributed to the call waiting, if any.  *)
ReadStatusEvent ==
    /\ pc = "read" /\ parsing = NoDoc /\ conn.up
    /\ online' \in BOOLEAN
    /\ isConnected' = online'
    /\ \/ statuses = <<>> /\ UNCHANGED statuses
       \/ Len(statuses) < MaxStatus /\ statuses' = Append(statuses, online')
    /\ UNCHANGED <<daemon, held, conn, pipe, pc, tokenVars, todo, reqVars, lost, breaks, docVars>>

ReadDocEvent(e) ==
    /\ pc = "read" /\ conn.up
    /\ SetCurrent(e)
    /\ UNCHANGED sessionVars

ReadReply(r) ==
    /\ pc = "read" /\ parsing = NoDoc /\ conn.up
    /\ r \in held
    /\ held' = held \ {r}
    /\ answered' = answered \cup {r}
    /\ UNCHANGED <<daemon, online, conn, pipe, pc, tokenVars, isConnected, todo,
                   inFlightResends, writing, failed, statuses, lost, breaks, docVars>>

(* Mutant of ReadFails: the token is cleared with the connection.          *)
ReadFailsClears ==
    /\ pc = "read" /\ parsing = NoDoc /\ ~conn.up
    /\ isConnected' = FALSE
    /\ daemonInstanceToken' = 0 /\ previousToken' = 0
    /\ pc' = "notify"
    /\ UNCHANGED <<daemonVars, conn, pipe, todo, reqVars, statuses, lost, breaks, docVars>>

(* Every error but the end of the connection is logged and read over; then *)
(* worker closes t.conn and remembers whom it was talking to.              *)
ReadFails ==
    /\ pc = "read" /\ parsing = NoDoc /\ ~conn.up
    /\ isConnected' = FALSE
    /\ previousToken' = daemonInstanceToken
    /\ pc' = "notify"
    /\ UNCHANGED <<daemonVars, conn, pipe, daemonInstanceToken, todo, reqVars, statuses,
                   lost, breaks, docVars>>

(* The DaemonDisconnectedEvent goes into eventSink, once there is room.    *)
Notify ==
    /\ pc = "notify"
    /\ pc' = "redial"
    /\ UNCHANGED <<daemonVars, conn, pipe, tokenVars, isConnected, todo, reqVars, statuses,
                   lost, breaks, docVars>>

-----------------------------------------------------------------------------
(* redial: t.conn is replaced before the handshake.  (A dial that fails    *)
(* only lengthens the pause before the next.)                              *)
DialSucceeds ==
    /\ pc = "redial"
    /\ conn' = [to |-> daemon, up |-> TRUE]
    /\ pc' = "status"
    /\ UNCHANGED <<daemonVars, pipe, tokenVars, isConnected, todo, reqVars, statuses, lost,
                   breaks, docVars>>

(* Mutant of HandshakeStatus: the token of the last attempt is compared    *)
(* with, not the token of the last session.                                *)
HandshakeStatusForgets ==
    /\ pc = "status"
    /\ online' \in BOOLEAN
    /\ isConnected' = online'
    /\ previousToken' = daemonInstanceToken
    /\ daemonInstanceToken' = conn.to
    /\ pc' = "doc"
    /\ UNCHANGED <<daemon, held, conn, pipe, todo, reqVars, statuses, lost, breaks, docVars>>

(* Mutant of HandshakeStatus: the token is taken from the first session.   *)
HandshakeStatusNoToken ==
    /\ pc = "status"
    /\ online' \in BOOLEAN
    /\ isConnected' = online'
    /\ pc' = "doc"
    /\ UNCHANGED <<daemon, held, conn, pipe, tokenVars, todo, reqVars, statuses, lost,
                   breaks, docVars>>

HandshakeStatus ==
    /\ pc = "status"
    /\ online' \in BOOLEAN
    /\ isConnected' = online'
    /\ daemonInstanceToken' = conn.to
    /\ pc' = "doc"
    /\ UNCHANGED <<daemon, held, conn, pipe, previousToken, todo, reqVars, statuses, lost,
                   breaks, docVars>>

(* The daemon may have no document yet.                                    *)
HandshakeDoc ==
    /\ pc = "doc"
    /\ UNCHANGED docVars \/ \E e \in Epochs : SetCurrent(e)
    /\ pc' = "token"
    /\ UNCHANGED <<daemonVars, conn, pipe, tokenVars, isConnected, todo, reqVars, statuses,
                   lost, breaks>>

HandshakeToken ==
    /\ pc = "token" /\ parsing = NoDoc
    /\ pc' = "reply"
    /\ UNCHANGED <<daemonVars, conn, pipe, tokenVars, isConnected, todo, reqVars, statuses,
                   lost, breaks, docVars>>

(* worker, after redial: replay only to a new instance.                    *)
NeedsReplay == daemonInstanceToken # previousToken

HandshakeReply ==
    /\ pc = "reply"
    /\ IF NeedsReplay
       THEN pc' = "replay" /\ todo' = inFlightResends
       ELSE pc' = "read" /\ UNCHANGED todo
    /\ UNCHANGED <<daemonVars, conn, pipe, tokenVars, isConnected, reqVars, statuses, lost,
                   breaks, docVars>>

(* Mutant of HandshakeFails: only a connection that drops before its first *)
(* message is retried.                                                     *)
HandshakeFailsEarly ==
    /\ pc = "status" /\ parsing = NoDoc /\ ~conn.up
    /\ pc' = "redial"
    /\ UNCHANGED <<daemonVars, conn, pipe, tokenVars, isConnected, todo, reqVars, statuses,
                   lost, breaks, docVars>>

(* A read or write of the handshake fails, or brings the wrong message:    *)
(* close, pause, dial again.  isConnected and the token stay as they are.  *)
(* (What was received before the connection dropped may still be read: the *)
(* steps above do not ask whether it is up.)                               *)
HandshakeFails ==
    /\ pc \in Handshake /\ parsing = NoDoc /\ ~conn.up
    /\ pc' = "redial"
    /\ UNCHANGED <<daemonVars, conn, pipe, tokenVars, isConnected, todo, reqVars, statuses,
                   lost, breaks, docVars>>

(* replayInFlightResends: a write that fails is logged, and the next one   *)
(* is tried.                                                               *)
Replay(r) ==
    /\ pc = "replay" /\ r \in todo
    /\ todo' = todo \ {r}
    /\ IF r \in inFlightResends THEN WriteTo(r) \/ WriteLost(r) ELSE UNCHANGED <<pipe, lost>>
    /\ UNCHANGED <<daemonVars, conn, pc, tokenVars, isConnected, reqVars, statuses, breaks, docVars>>

ReplayDone ==
    /\ pc = "replay" /\ todo = {}
    /\ pc' = "read"
    /\ UNCHANGED <<daemonVars, conn, pipe, tokenVars, isConnected, todo, reqVars, statuses,
                   lost, breaks, docVars>>

FinishDoc == CacheDoc /\ UNCHANGED sessionVars

-----------------------------------------------------------------------------
(* Dial has succeeded.                                                     *)
Init ==
    /\ daemon = 1 /\ online \in BOOLEAN /\ held = {}
    /\ conn = [to |-> 1, up |-> TRUE]
    /\ pipe = {}
    /\ pc = "read"
    /\ daemonInstanceToken = 1 /\ previousToken = 1
    /\ isConnected = online
    /\ inFlightResends = {} /\ todo = {} /\ writing = NoReq
    /\ statuses = <<>>
    /\ answered = {} /\ failed = {} /\ lost = {} /\ breaks = 0
    /\ DocInit

Next ==
    \/ Break \/ Restart
    \/ \E r \in Reqs : DaemonReceives(r) \/ StartResending(r)
                          \/ CallerGetsReply(r) \/ ReadReply(r) \/ Replay(r)
    \/ WriteRequest
    \/ CallerSetsConnected \/ CallerReturns
    \/ ReadStatusEvent
    \/ \E e \in Epochs : ReadDocEvent(e)
    \/ ReadFails \/ Notify
    \/ DialSucceeds
    \/ HandshakeStatus \/ HandshakeDoc \/ HandshakeToken \/ HandshakeReply
    \/ HandshakeFails
    \/ ReplayDone
    \/ FinishDoc

Spec == Init /\ [][Next]_vars

(* The worker goroutine runs; Notify and DialSucceeds are in it, so the    *)
(* subscribers of eventSink drain it and the daemon accepts connections    *)
(* again.  What the daemon sends on a connection that is up arrives.       *)
Worker ==
    \/ ReadFails \/ Notify \/ DialSucceeds
    \/ conn.up /\ (HandshakeStatus \/ HandshakeDoc \/ HandshakeToken \/ HandshakeReply)
    \/ HandshakeFails
    \/ ReplayDone \/ (\E r \in Reqs : Replay(r))
    \/ FinishDoc

FairSpec == Spec /\ WF_vars(Worker)

-----------------------------------------------------------------------------
(* What the connection promises.                                           *)

(* Once the handshake is over the client knows whom it is talking to, so   *)
(* that the next reconnect compares the right tokens: however many         *)
(* attempts failed half-way, and whatever instances they met.              *)
TokenIsCurrent ==
    pc \in {"read", "replay"} /\ conn.up => daemonInstanceToken = daemon

(* inFlightResends: "tracks StartResending* requests for replay on         *)
(* reconnect to a new daemon".  When the client reads again, the instance  *)
(* it reads from knows of every request in flight, or will read it from    *)
(* the connection - but for those lost on a connection that dropped        *)
(* without a restart, which are not replayed.                              *)
InFlightKnown ==
    pc = "read" /\ conn.up =>
        inFlightResends \ (answered \cup lost) \subseteq held \cup pipe \cup {writing}

(* "It survives daemon disconnects by automatically reconnecting."         *)
Reconnects == ~conn.up ~> pc = "read" /\ conn.up

(* IsConnected "returns true if the client daemon is connected to the      *)
(* mixnet": while no call is about to handle a status event, the flag is   *)
(* what the last event said.  The code does not keep this: setConnected    *)
(* runs late, in the goroutine of a call that may return before it has     *)
(* seen the last event.                                                    *)
StatusIsCurrent ==
    pc = "read" /\ conn.up /\ statuses = <<>> => isConnected = online
=============================================================================
