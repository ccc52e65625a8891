---------------------------- MODULE PigeonholeARQ ----------------------------
(***************************************************************************)
(* The stop-and-wait ARQ of the client daemon (katzenpost/client/          *)
(* pigeonhole.go): operations started by StartResendingEncryptedMessage    *)
(* and StartResendingCopyCommand, retransmitted until the courier's answer *)
(* ends them, the client cancels them, or the client goes away.            *)
(*                                                                         *)
(* Three threads of the daemon interleave, each in the steps its use of    *)
(* replyLock cuts it into:                                                 *)
(*   - the request worker (variable req): start and cancel requests;       *)
(*   - the reply worker (variable rep): replies that come back on a SURB;  *)
(*   - the timer queue: the retransmission timer.                          *)
(*                                                                         *)
(* A SURB ID is random and is never drawn twice.  Here an ID may be drawn  *)
(* again once nothing refers to it, which no thread can tell from a new    *)
(* one, so a finite set of IDs serves an unbounded number of retries.      *)
(***************************************************************************)
EXTENDS Naturals, Sequences, FiniteSets

CONSTANTS
    Msgs,       \* the ARQMessages: one per StartResending* request
    Apps,       \* the client connections, by AppID
    Hashes,     \* envelope hashes (the WriteCap hash for a copy command)
    Surbs,      \* SURB IDs
    NoMsg,      \* "no entry" in arqSurbIDMap
    NoSurb,     \* "no entry" in arqEnvelopeHashMap
    AppID,                          \* [Msgs -> Apps], who asked
    EnvelopeHash,                   \* [Msgs -> Hashes]
    Kind,                           \* [Msgs -> {"read", "write", "copy"}]
    NoRetryOnBoxIDNotFound,         \* the requests that set this flag
    NoIdempotentBoxAlreadyExists,   \* the requests that set this flag
    MaxInFlight,                    \* bound: replies on their way at one time
    ResendResetsState               \* do the (external) resend paths set
                                    \* ARQMessage.State back to WaitingForACK?

ASSUME ConstantsAssumption ==
    /\ NoMsg \notin Msgs
    /\ NoSurb \notin Surbs
    /\ AppID \in [Msgs -> Apps]
    /\ EnvelopeHash \in [Msgs -> Hashes]
    /\ Kind \in [Msgs -> {"read", "write", "copy"}]
    /\ NoRetryOnBoxIDNotFound \subseteq Msgs
    /\ NoIdempotentBoxAlreadyExists \subseteq Msgs
    /\ MaxInFlight \in Nat
    /\ ResendResetsState \in BOOLEAN

VARIABLES
    link,               \* [Apps -> Link]: the listener's view of each client
    started,            \* the requests whose start has been handled
    arqSurbIDMap,       \* SURB ID -> ARQMessage          (under replyLock)
    arqEnvelopeHashMap, \* envelope hash -> SURB ID       (under replyLock)
    surbID,             \* ARQMessage.SURBID
    state,              \* ARQMessage.State
    arqTimerQueue,      \* the SURB IDs with a pending timer
    inFlight,           \* the SURBs a reply will still come back on
    replies,            \* the terminal replies sent to each query's owner
    req,                \* where the request worker is
    rep,                \* where the reply worker is
    cancelAcked,        \* history: started queries a later Cancel reported done
    dropped             \* history: queries ended by dropARQMessage, unanswered

clientVars == <<link, replies, cancelAcked, dropped>>
mapVars    == <<arqSurbIDMap, arqEnvelopeHashMap>>
msgVars    == <<started, surbID, state>>
netVars    == <<arqTimerQueue, inFlight>>
vars == <<link, started, arqSurbIDMap, arqEnvelopeHashMap, surbID, state,
          arqTimerQueue, inFlight, replies, req, rep, cancelAcked, dropped>>

-----------------------------------------------------------------------------
Link     == {"up", "closing", "gone"}
ARQState == {"WaitingForACK", "ACKReceived", "PayloadReceived"}
Outcomes == {"success", "error", "tombstone", "cancelled"}
Results  == {"success", "error", "tombstone", "dropped"}

(* What the courier's reply turns out to be once it is decrypted and       *)
(* parsed; "failed" is any replica error, or any ciphertext or padding     *)
(* that does not open, other than the two errors the ARQ reacts to.        *)
PayloadBodies == {"payload", "empty", "failed", "notFound", "exists"}
CopyBodies    == {"inProgress", "succeeded", "copyFailed"}
Bodies == {"malformed", "ack", "courierError"} \cup PayloadBodies \cup CopyBodies

Idle == [at |-> "idle"]

ReqStates ==
    {Idle} \cup [at : {"push"}, msg : Msgs]
           \cup [at : {"cancel"}, msg : Msgs \cup {NoMsg}, app : Apps, hash : Hashes]

RepStates ==
    {Idle} \cup [at : {"compose"}, msg : Msgs, why : {"ack", "retry"}]
           \cup [at : {"poll"}, msg : Msgs]
           \cup [at : {"rotate", "schedule"}, msg : Msgs,
                 why : {"ack", "retry", "poll"}, old : Surbs, new : Surbs]
           \cup [at : {"terminate"}, msg : Msgs, out : Results]
           \cup [at : {"finish"}, msg : Msgs, out : Outcomes]

TypeOK ==
    /\ link \in [Apps -> Link]
    /\ started \subseteq Msgs
    /\ arqSurbIDMap \in [Surbs -> Msgs \cup {NoMsg}]
    /\ arqEnvelopeHashMap \in [Hashes -> Surbs \cup {NoSurb}]
    /\ surbID \in [Msgs -> Surbs \cup {NoSurb}]
    /\ state \in [Msgs -> ARQState]
    /\ arqTimerQueue \subseteq Surbs
    /\ inFlight \subseteq Surbs
    /\ replies \in [Msgs -> Seq(Outcomes)]
    /\ req \in ReqStates
    /\ rep \in RepStates
    /\ cancelAcked \subseteq Msgs
    /\ dropped \subseteq Msgs

(* getConnection(AppID) != nil *)
Connected(m) == link[AppID[m]] = "up"

Tracked(m) == \E s \in Surbs : arqSurbIDMap[s] = m

Held == IF rep.at \in {"rotate", "schedule"} THEN {rep.old, rep.new} ELSE {}

(* A SURB ID that rand.Reader may return: one that nothing refers to.      *)
Fresh(s) ==
    /\ arqSurbIDMap[s] = NoMsg
    /\ s \notin arqTimerQueue \cup inFlight \cup Held
    /\ \A m \in Msgs : surbID[m] # s
    /\ \A h \in Hashes : arqEnvelopeHashMap[h] # s

(* conn.sendResponse on the connection of app: a reply to m's query        *)
(* reaches its owner only there, and only while the connection is up.      *)
Reply(m, o, app) ==
    replies' = IF app = AppID[m] /\ link[app] = "up"
               THEN [replies EXCEPT ![m] = Append(@, o)]
               ELSE replies

(* SendPacket: its failure is logged, and the network may lose the packet. *)
Send(s) ==
    \/ UNCHANGED inFlight
    \/ /\ Cardinality(inFlight) < MaxInFlight
       /\ inFlight' = inFlight \cup {s}

-----------------------------------------------------------------------------
(* startResending{EncryptedMessage,CopyCommand}: a request that does not   *)
(* validate, finds no courier, or whose packet does not compose is         *)
(* answered with an error and leaves nothing behind.                       *)
StartFails(m) ==
    /\ req = Idle /\ m \notin started
    /\ started' = started \cup {m}
    /\ Reply(m, "error", AppID[m])
    /\ UNCHANGED <<link, mapVars, surbID, state, netVars, req, rep, cancelAcked, dropped>>

(* The same handlers up to arqSend's unlock.  The owner's connection is    *)
(* not looked at, and an entry of the same hash is overwritten.            *)
Start(m, s) ==
    /\ req = Idle /\ m \notin started
    /\ Fresh(s)
    /\ started' = started \cup {m}
    /\ surbID' = [surbID EXCEPT ![m] = s]
    /\ state' = [state EXCEPT ![m] = "WaitingForACK"]
    /\ arqSurbIDMap' = [arqSurbIDMap EXCEPT ![s] = m]
    /\ arqEnvelopeHashMap' = [arqEnvelopeHashMap EXCEPT ![EnvelopeHash[m]] = s]
    /\ req' = [at |-> "push", msg |-> m]
    /\ UNCHANGED <<netVars, rep, clientVars>>

(* The rest of arqSend, after the unlock: push the timer, send the packet. *)
StartPush ==
    /\ req.at = "push"
    /\ arqTimerQueue' = arqTimerQueue \cup {surbID[req.msg]}
    /\ Send(surbID[req.msg])
    /\ req' = Idle
    /\ UNCHANGED <<msgVars, mapVars, rep, clientVars>>

(* cancelResending{EncryptedMessage,CopyCommand} up to the unlock.  A      *)
(* client cancels by a hash it has used; which query the entry belongs to  *)
(* is not compared with the caller.                                        *)
Cancel(app, h) ==
    /\ req = Idle
    /\ link[app] = "up"
    /\ \E m \in Msgs : AppID[m] = app /\ EnvelopeHash[m] = h
    /\ LET s == arqEnvelopeHashMap[h] IN
         IF s = NoSurb
         THEN /\ req' = [at |-> "cancel", msg |-> NoMsg, app |-> app, hash |-> h]
              /\ UNCHANGED mapVars
         ELSE /\ req' = [at |-> "cancel", msg |-> arqSurbIDMap[s], app |-> app, hash |-> h]
              /\ arqSurbIDMap' = [arqSurbIDMap EXCEPT ![s] = NoMsg]
              /\ arqEnvelopeHashMap' = [arqEnvelopeHashMap EXCEPT ![h] = NoSurb]
    /\ UNCHANGED <<msgVars, netVars, rep, clientVars>>

(* Mutant of CancelReply: only the canceller hears of the cancellation.    *)
CancelReplyToCallerOnly ==
    /\ req.at = "cancel"
    /\ arqTimerQueue' = IF req.msg = NoMsg THEN arqTimerQueue
                        ELSE arqTimerQueue \ {surbID[req.msg]}
    /\ cancelAcked' = cancelAcked \cup {m \in started : EnvelopeHash[m] = req.hash}
    /\ req' = Idle
    /\ UNCHANGED <<link, replies, msgVars, mapVars, inFlight, rep, dropped>>

(* The rest of the cancel handler: drop the timer, tell the original query *)
(* (on the canceller's connection), then report success.                   *)
CancelReply ==
    /\ req.at = "cancel"
    /\ IF req.msg = NoMsg
       THEN UNCHANGED <<arqTimerQueue, replies>>
       ELSE /\ arqTimerQueue' = arqTimerQueue \ {surbID[req.msg]}
            /\ Reply(req.msg, "cancelled", req.app)
    /\ cancelAcked' = IF link[req.app] = "up"
                      THEN cancelAcked \cup {m \in started : EnvelopeHash[m] = req.hash}
                      ELSE cancelAcked
    /\ req' = Idle
    /\ UNCHANGED <<link, msgVars, mapVars, inFlight, rep, dropped>>

-----------------------------------------------------------------------------
Terminate(m, r) == [at |-> "terminate", msg |-> m, out |-> r]

(* Mutant of PayloadResult: a replica's error is not mapped to a result.   *)
PayloadResultUnmapped(m, body) ==
    CASE body = "payload" -> "success"
      [] body = "empty"   -> "tombstone"
      [] OTHER            -> body

(* determinePayloadErrorAction, and handlePayloadReply's outcome for the   *)
(* bodies that need no retry.                                              *)
Retries(m, body) ==
    body = "notFound" /\ Kind[m] = "read" /\ m \notin NoRetryOnBoxIDNotFound

PayloadResult(m, body) ==
    CASE body = "payload" -> "success"
      [] body = "empty"   -> IF Kind[m] = "read" THEN "tombstone" ELSE "success"
      [] body = "exists" /\ Kind[m] = "write" /\ m \notin NoIdempotentBoxAlreadyExists
                          -> "success"
      [] OTHER            -> "error"

(* computeARQStateTransition, for an acknowledgement: a write is complete  *)
(* after one round trip unless it has to see BoxAlreadyExists.             *)
AckCompletes(m) == Kind[m] = "write" /\ m \notin NoIdempotentBoxAlreadyExists

(* handlePigeonholeARQReply for an envelope, up to the first lock.         *)
EnvelopeReply(m, body) ==
    \/ /\ body \in {"malformed"} \cup CopyBodies
       /\ rep' = Terminate(m, "dropped")
       /\ UNCHANGED state
    \/ /\ body = "courierError"
       /\ rep' = Terminate(m, "error")
       /\ UNCHANGED state
    \/ /\ body \in {"ack"} \cup PayloadBodies        \* ARQActionIgnore
       /\ state[m] = "PayloadReceived"
       /\ UNCHANGED <<rep, state>>
    \/ /\ body = "ack"                               \* Complete, SendNewSURB
       /\ state[m] # "PayloadReceived"
       /\ IF AckCompletes(m)
          THEN rep' = Terminate(m, "success") /\ UNCHANGED state
          ELSE /\ rep' = [at |-> "compose", msg |-> m, why |-> "ack"]
               /\ state' = [state EXCEPT ![m] = "ACKReceived"]
    \/ /\ body \in PayloadBodies                     \* HandlePayload
       /\ state[m] # "PayloadReceived"
       /\ state' = [state EXCEPT ![m] = "PayloadReceived"]
       /\ rep' = IF Retries(m, body)
                 THEN [at |-> "compose", msg |-> m, why |-> "retry"]
                 ELSE Terminate(m, PayloadResult(m, body))

(* handleCopyCommandARQReply up to its lock; a reply of the wrong type is  *)
(* logged and changes nothing.                                             *)
CopyReply(m, body) ==
    /\ UNCHANGED state
    /\ rep' = CASE body = "malformed"  -> Terminate(m, "dropped")
                [] body = "inProgress" -> [at |-> "poll", msg |-> m]
                [] body = "succeeded"  -> Terminate(m, "success")
                [] body = "copyFailed" -> Terminate(m, "error")
                [] OTHER               -> rep

(* handleReply finds the ARQMessage by SURB ID (the entry stays: rotation  *)
(* and polling insist on finding it) and hands it to                       *)
(* handlePigeonholeARQReply, which gives up at once without a connection.  *)
ReplyArrives(s, body) ==
    /\ rep = Idle
    /\ s \in inFlight
    /\ inFlight' = inFlight \ {s}
    /\ LET m == arqSurbIDMap[s] IN
         IF m = NoMsg \/ ~Connected(m)
         THEN UNCHANGED <<rep, state>>
         ELSE IF Kind[m] = "copy" THEN CopyReply(m, body) ELSE EnvelopeReply(m, body)
    /\ UNCHANGED <<started, surbID, mapVars, arqTimerQueue, req, clientVars>>

(* Compose the next packet, without the lock, and read the message's       *)
(* current SURB ID.                                                        *)
ReplyCompose(s) ==
    /\ rep.at = "compose"
    /\ Fresh(s)
    /\ rep' = [at |-> "rotate", msg |-> rep.msg, why |-> rep.why,
               old |-> surbID[rep.msg], new |-> s]
    /\ UNCHANGED <<msgVars, mapVars, netVars, req, clientVars>>

ResetState(m) ==
    state' = IF ResendResetsState THEN [state EXCEPT ![m] = "WaitingForACK"] ELSE state

(* rescheduleARQAfterComposeFailure: if the message is still tracked its   *)
(* timer runs again.                                                       *)
ReplyComposeFails ==
    /\ rep.at = "compose"
    /\ LET m == rep.msg IN
         IF Tracked(m)
         THEN /\ arqTimerQueue' = arqTimerQueue \cup {surbID[m]}
              /\ ResetState(m)
         ELSE UNCHANGED <<arqTimerQueue, state>>
    /\ rep' = Idle
    /\ UNCHANGED <<started, surbID, mapVars, inFlight, req, clientVars>>

(* Mutant of Rotate: the hash still leads to the old SURB ID.              *)
RotateSurbMapOnly(m, old, new) ==
    /\ surbID' = [surbID EXCEPT ![m] = new]
    /\ arqSurbIDMap' = [arqSurbIDMap EXCEPT ![old] = NoMsg, ![new] = m]
    /\ UNCHANGED arqEnvelopeHashMap

(* rotateARQSurbIDLocked: the message moves to a new SURB ID in both maps. *)
Rotate(m, old, new) ==
    /\ surbID' = [surbID EXCEPT ![m] = new]
    /\ arqSurbIDMap' = [arqSurbIDMap EXCEPT ![old] = NoMsg, ![new] = m]
    /\ arqEnvelopeHashMap' = [arqEnvelopeHashMap EXCEPT ![EnvelopeHash[m]] = new]

(* Mutant of MayRotate: the message is not looked up again under the lock. *)
MayRotateUnchecked == rep.why = "ack" => Connected(rep.msg)

(* The locked section of both rotations: only a message still registered   *)
(* under the SURB ID read before the lock is moved, and an acknowledged    *)
(* one only while its owner is connected.                                  *)
MayRotate ==
    /\ arqSurbIDMap[rep.old] = rep.msg
    /\ rep.why = "ack" => Connected(rep.msg)

ReplyRotate ==
    /\ rep.at = "rotate"
    /\ IF MayRotate
       THEN /\ Rotate(rep.msg, rep.old, rep.new)
            /\ state' = IF rep.why = "retry"
                        THEN [state EXCEPT ![rep.msg] = "WaitingForACK"] ELSE state
            /\ rep' = [rep EXCEPT !.at = "schedule"]
       ELSE /\ rep' = Idle
            /\ UNCHANGED <<surbID, state, mapVars>>
    /\ UNCHANGED <<started, netVars, req, clientVars>>

(* Mutant of MayPoll: only the nil check is left.                          *)
MayPollUnchecked(m) == surbID[m] # NoSurb

(* scheduleCopyCommandPoll up to the unlock: the message stays reachable   *)
(* under a placeholder SURB ID, unless it is no longer tracked.            *)
MayPoll(m) == surbID[m] # NoSurb /\ arqSurbIDMap[surbID[m]] = m

ReplyPoll(s) ==
    /\ rep.at = "poll"
    /\ Fresh(s)
    /\ LET m == rep.msg IN
         IF MayPoll(m)
         THEN /\ Rotate(m, surbID[m], s)
              /\ rep' = [at |-> "schedule", msg |-> m, why |-> "poll",
                         old |-> surbID[m], new |-> s]
         ELSE /\ rep' = Idle
              /\ UNCHANGED <<surbID, mapVars>>
    /\ UNCHANGED <<started, state, netVars, req, clientVars>>

(* Mutants of ReplySchedule: the timer of the new SURB ID is not pushed,   *)
(* at all or after a poll.                                                 *)
ReplyScheduleNoTimer ==
    /\ rep.at = "schedule"
    /\ arqTimerQueue' = arqTimerQueue \ {rep.old}
    /\ Send(rep.new)
    /\ rep' = Idle
    /\ UNCHANGED <<msgVars, mapVars, req, clientVars>>

ReplyScheduleNoPollTimer ==
    /\ rep.at = "schedule"
    /\ arqTimerQueue' = IF rep.why = "poll" THEN arqTimerQueue
                        ELSE (arqTimerQueue \ {rep.old}) \cup {rep.new}
    /\ IF rep.why = "poll" THEN UNCHANGED inFlight ELSE Send(rep.new)
    /\ rep' = Idle
    /\ UNCHANGED <<msgVars, mapVars, req, clientVars>>

(* After the unlock: the old timer goes, the new one is pushed and the     *)
(* packet is sent; a poll only pushes its timer.                           *)
ReplySchedule ==
    /\ rep.at = "schedule"
    /\ IF rep.why = "poll"
       THEN /\ arqTimerQueue' = arqTimerQueue \cup {rep.new}
            /\ UNCHANGED inFlight
       ELSE /\ arqTimerQueue' = (arqTimerQueue \ {rep.old}) \cup {rep.new}
            /\ Send(rep.new)
    /\ rep' = Idle
    /\ UNCHANGED <<msgVars, mapVars, req, clientVars>>

(* Mutant of ReplyTerminate: the SURB entry is not deleted.                *)
ReplyTerminateHashOnly ==
    /\ rep.at = "terminate"
    /\ arqEnvelopeHashMap' = [arqEnvelopeHashMap EXCEPT ![EnvelopeHash[rep.msg]] = NoSurb]
    /\ rep' = IF rep.out = "dropped" THEN Idle ELSE [rep EXCEPT !.at = "finish"]
    /\ dropped' = IF rep.out = "dropped" THEN dropped \cup {rep.msg} ELSE dropped
    /\ UNCHANGED <<link, msgVars, netVars, arqSurbIDMap, replies, req, cancelAcked>>

(* The locked section of every terminal branch: both entries are deleted,  *)
(* the one of the hash whoever it belongs to.                              *)
ReplyTerminate ==
    /\ rep.at = "terminate"
    /\ LET m == rep.msg IN
         /\ arqSurbIDMap' = [arqSurbIDMap EXCEPT ![surbID[m]] = NoMsg]
         /\ arqEnvelopeHashMap' = [arqEnvelopeHashMap EXCEPT ![EnvelopeHash[m]] = NoSurb]
         /\ IF rep.out = "dropped"
            THEN dropped' = dropped \cup {m} /\ rep' = Idle
            ELSE UNCHANGED dropped /\ rep' = [rep EXCEPT !.at = "finish"]
    /\ UNCHANGED <<link, msgVars, netVars, replies, req, cancelAcked>>

(* finishARQMessage, or the copy command's terminal reply.                 *)
ReplyFinish ==
    /\ rep.at = "finish"
    /\ Reply(rep.msg, rep.out, AppID[rep.msg])
    /\ rep' = Idle
    /\ UNCHANGED <<link, msgVars, mapVars, netVars, req, cancelAcked, dropped>>

-----------------------------------------------------------------------------
(* arqDoResend on a timer whose SURB ID is no longer tracked: a log line.  *)
TimerStale(s) ==
    /\ s \in arqTimerQueue
    /\ arqSurbIDMap[s] = NoMsg
    /\ arqTimerQueue' = arqTimerQueue \ {s}
    /\ UNCHANGED <<msgVars, mapVars, inFlight, req, rep, clientVars>>

(* arqDoResend: rotate to a new SURB, compose, send, run the timer again.  *)
(* (A compose failure puts the timer back: no step.)                       *)
TimerResends(s, new) ==
    /\ s \in arqTimerQueue
    /\ arqSurbIDMap[s] # NoMsg
    /\ Fresh(new)
    /\ Rotate(arqSurbIDMap[s], s, new)
    /\ arqTimerQueue' = (arqTimerQueue \ {s}) \cup {new}
    /\ Send(new)
    /\ ResetState(arqSurbIDMap[s])
    /\ UNCHANGED <<started, req, rep, clientVars>>

(* A client's connection ends: getConnection finds nothing from here on... *)
Disconnect(app) ==
    /\ link[app] = "up"
    /\ link' = [link EXCEPT ![app] = "closing"]
    /\ UNCHANGED <<msgVars, mapVars, netVars, replies, req, rep, cancelAcked, dropped>>

(* ... and cleanupForAppID then removes its operations from both maps.     *)
Cleanup(app) ==
    /\ link[app] = "closing"
    /\ link' = [link EXCEPT ![app] = "gone"]
    /\ LET gone == {s \in Surbs : \E m \in Msgs : arqSurbIDMap[s] = m /\ AppID[m] = app} IN
         /\ arqSurbIDMap' = [s \in Surbs |-> IF s \in gone THEN NoMsg ELSE arqSurbIDMap[s]]
         /\ arqEnvelopeHashMap' =
              [h \in Hashes |-> IF arqEnvelopeHashMap[h] \in gone
                                THEN NoSurb ELSE arqEnvelopeHashMap[h]]
    /\ UNCHANGED <<msgVars, netVars, replies, req, rep, cancelAcked, dropped>>

-----------------------------------------------------------------------------
Init ==
    /\ link = [a \in Apps |-> "up"]
    /\ started = {}
    /\ arqSurbIDMap = [s \in Surbs |-> NoMsg]
    /\ arqEnvelopeHashMap = [h \in Hashes |-> NoSurb]
    /\ surbID = [m \in Msgs |-> NoSurb]
    /\ state = [m \in Msgs |-> "WaitingForACK"]
    /\ arqTimerQueue = {}
    /\ inFlight = {}
    /\ replies = [m \in Msgs |-> <<>>]
    /\ req = Idle
    /\ rep = Idle
    /\ cancelAcked = {}
    /\ dropped = {}

Next ==
    \/ \E m \in Msgs : StartFails(m)
    \/ \E m \in Msgs, s \in Surbs : Start(m, s)
    \/ StartPush
    \/ \E app \in Apps, h \in Hashes : Cancel(app, h)
    \/ CancelReply
    \/ \E s \in Surbs, body \in Bodies : ReplyArrives(s, body)
    \/ \E s \in Surbs : ReplyCompose(s)
    \/ ReplyComposeFails
    \/ ReplyRotate
    \/ \E s \in Surbs : ReplyPoll(s)
    \/ ReplySchedule
    \/ ReplyTerminate
    \/ ReplyFinish
    \/ \E s \in Surbs : TimerStale(s)
    \/ \E s, new \in Surbs : TimerResends(s, new)
    \/ \E app \in Apps : Disconnect(app) \/ Cleanup(app)

Spec == Init /\ [][Next]_vars

-----------------------------------------------------------------------------
(* Safety.                                                                 *)

(* No two operations share an envelope hash: the situation a client gets   *)
(* by encrypting each message once and starting it once.                   *)
DistinctHashes == \A m, n \in Msgs : EnvelopeHash[m] = EnvelopeHash[n] => m = n

(* The two maps and ARQMessage.SURBID tell one story: a tracked message is *)
(* registered under its own current SURB ID and nowhere else, its hash     *)
(* leads there, and a hash leads to nothing but a tracked message.  Every  *)
(* rotation, poll, cancel, terminal branch and cleanup rewrites part of it *)
(* (pigeonhole.go: arqSend, cancelResending*, handlePigeonholeARQReply,    *)
(* scheduleCopyCommandPoll).                                               *)
MapsAgree ==
    /\ \A s \in Surbs : arqSurbIDMap[s] # NoMsg =>
          /\ surbID[arqSurbIDMap[s]] = s
          /\ arqEnvelopeHashMap[EnvelopeHash[arqSurbIDMap[s]]] = s
    /\ \A h \in Hashes : arqEnvelopeHashMap[h] # NoSurb =>
          /\ arqSurbIDMap[arqEnvelopeHashMap[h]] # NoMsg
          /\ EnvelopeHash[arqSurbIDMap[arqEnvelopeHashMap[h]]] = h

(* "It will retry forever": a tracked operation always has a timer pending *)
(* for its current SURB ID, or the thread that moved it there is about to  *)
(* push one; otherwise the operation would hang silently after one loss.   *)
NeverStalls ==
    \A s \in Surbs : arqSurbIDMap[s] # NoMsg =>
        \/ s \in arqTimerQueue
        \/ req.at = "push" /\ surbID[req.msg] = s
        \/ rep.at = "schedule" /\ rep.new = s

(* A query that has been answered is not retransmitted any more: the maps  *)
(* are cleaned before the terminal reply goes out, on every path.          *)
AnsweredIsOver == \A m \in Msgs : Tracked(m) => replies[m] = <<>>

(* No outcome is swallowed: once a started operation is no longer tracked, *)
(* its owner has been answered, a worker is about to answer it, its owner  *)
(* has disconnected, or dropARQMessage gave it up on a reply the daemon    *)
(* could not parse.                                                        *)
AboutToAnswer(m) ==
    \/ req.at = "cancel" /\ req.msg = m
    \/ rep.at = "finish" /\ rep.msg = m

NoOutcomeLost ==
    \A m \in started :
        \/ Tracked(m) \/ replies[m] # <<>> \/ AboutToAnswer(m)
        \/ ~Connected(m) \/ m \in dropped

(* "Rotating here would silently un-cancel the operation" (and the same in *)
(* scheduleCopyCommandPoll): an operation that has left the maps, however  *)
(* it left them, is never registered again.                                *)
NeverUncancelled ==
    [][\A m \in started : Tracked(m)' => Tracked(m)]_vars

(* A Cancel that reported success has stopped every operation of that hash *)
(* that was started before it.                                             *)
CancelStops == \A m \in cancelAcked : ~Tracked(m)

(* startResendingCopyCommand keys the operation by the WriteCap's hash     *)
(* "as envelope hash for dedup": one operation per hash.                   *)
OneOperationPerHash ==
    \A m, n \in Msgs :
        Tracked(m) /\ Tracked(n) /\ EnvelopeHash[m] = EnvelopeHash[n] => m = n

(* thin.go, ErrStartResendingCancelled: the operation "was cancelled ...   *)
(* before completion": a query told it was cancelled is not also told how  *)
(* it completed.                                                           *)
CancelledNotCompleted ==
    \A m \in Msgs : Len(replies[m]) > 1 =>
        \A i \in 1..Len(replies[m]) : replies[m][i] # "cancelled"

(* The ARQ implements ResendOperation: an operation is pending exactly     *)
(* while the SURB map holds it.                                            *)
Phase(m) == IF m \notin started THEN "idle" ELSE IF Tracked(m) THEN "pending" ELSE "over"

Operation == INSTANCE ResendOperation
             WITH phase <- [m \in Msgs |-> Phase(m)], answers <- replies

ImplementsOperation == Operation!OpSpec

-----------------------------------------------------------------------------
(* Liveness.                                                               *)

(* The daemon's own threads run: each step that needs no luck is weakly    *)
(* fair.  Clients' requests, connections' ends and compose failures are    *)
(* not required to happen.                                                 *)
DaemonRuns ==
    /\ WF_vars(StartPush)
    /\ WF_vars(CancelReply)
    /\ SF_vars(\E s \in Surbs : ReplyCompose(s))
    /\ WF_vars(ReplyRotate)
    /\ WF_vars(\E s \in Surbs : ReplyPoll(s))
    /\ WF_vars(ReplySchedule)
    /\ WF_vars(ReplyTerminate)
    /\ WF_vars(ReplyFinish)
    /\ \A s \in Surbs : WF_vars(TimerStale(s))
    /\ \A app \in Apps : WF_vars(Cleanup(app))

(* The network and the courier are not hostile for ever: what is in flight *)
(* arrives, a message that is resent again and again gets through some     *)
(* time, and if replies to it can arrive again and again, one is final.    *)
Resent(m) == \E s, new \in Surbs :
    arqSurbIDMap[s] = m /\ TimerResends(s, new) /\ new \in inFlight'

Final(m) == IF Kind[m] = "copy" THEN "succeeded" ELSE "payload"

FinalReply(m) == \E s \in Surbs :
    arqSurbIDMap[s] = m /\ ReplyArrives(s, Final(m))

NetworkRecovers ==
    /\ \A s \in Surbs : SF_vars(\E body \in Bodies : ReplyArrives(s, body))
    /\ \A m \in Msgs : SF_vars(Resent(m)) /\ SF_vars(FinalReply(m))

FairSpec == Spec /\ DaemonRuns /\ NetworkRecovers

(* "It will retry forever until cancelled or successful": a started        *)
(* operation is eventually answered, unless its owner goes away or a reply *)
(* could not be parsed.                                                    *)
EventuallyAnswered ==
    \A m \in Msgs : m \in started ~>
        (replies[m] # <<>> \/ ~Connected(m) \/ m \in dropped)
=============================================================================
