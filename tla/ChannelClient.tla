--------------------------- MODULE ChannelClient ----------------------------
(***************************************************************************)
(* The thin client of the channel API (walletshield-fix/thin/thin.go), an  *)
(* older one than the client of ThinSession and EventSink: no reconnect,   *)
(* no replay.  Three parties meet here.                                    *)
(*                                                                         *)
(*   worker           reads events from the daemon; an event of a reliable *)
(*                    message goes straight to the call waiting for it,    *)
(*                    over an unbuffered channel, any other into eventSink *)
(*   eventSinkWorker  copies eventSink to every subscribed drain, and      *)
(*                    forgets a drain that is full for 100 ms              *)
(*   calls            a method of the API: subscribe, write the request,   *)
(*                    wait for the reply, and - deferred - unsubscribe     *)
(*                                                                         *)
(* The daemon is external: it answers a request or not, in any order.      *)
(***************************************************************************)
EXTENDS Naturals, Sequences, FiniteSets

CONSTANTS
    Calls,      \* calls made and events sent unasked; also the query IDs
    Nobody,     \* not a call
    SinkCap     \* the capacity of eventSink, 2 in the code

ASSUME ChannelClientAssumption == Nobody \notin Calls /\ SinkCap \in Nat \ {0}

(* Ways to call.  The replies of the eight methods of the channel API      *)
(* other than the query have types of their own, which tell a call no more *)
(* than the query ID does.  Of the last two nobody waits for an answer.    *)
Subscribing == {"channel", "query", "message"}
Unawaited   == {"unawaited message", "unawaited query"}
Apis        == Subscribing \cup {"reliable"} \cup Unawaited

Event(kind, of) == [kind |-> kind, of |-> of]
Events  == [kind : {"sent", "reply"}, of : Calls]
NoEvent == Event("none", Nobody)

VARIABLES
    dialed,         \* Dial has returned without an error
    due,            \* SUBSET Events: the daemon's, not yet read
    worker,         \* the worker's next step, and the event
    hand,           \*   it has for a waiting call
    eventSink,      \* Seq(Events): the channel, and behind it the event the
                    \*   worker is blocked with while the channel is full
    sinkWorker, copied, left,   \* its step, its event, the drains still due
    drains,         \* SUBSET Calls: the subscribed drains
    box,            \* the drains' channels, of capacity 1
    sentWaitChanMap, replyWaitChanMap,  \* SUBSET Calls: those registered
    pc, api,        \* [Calls -> ...]: the step and the way of a call
    ret,            \* [Calls -> Calls \cup {Nobody}]: whose reply it returned
    gaveUp,         \* calls whose context was done before they were
    halted, closer  \* HaltCh is closed; the steps of Close

reader   == <<worker, hand, due>>
fanOut   == <<sinkWorker, copied, left, drains>>
waiting  == <<sentWaitChanMap, replyWaitChanMap>>
calls    == <<pc, api, ret, gaveUp>>
life     == <<dialed, halted, closer>>
vars     == <<reader, eventSink, fanOut, box, waiting, calls, life>>

Init ==
    /\ dialed = FALSE
    /\ due = {} /\ worker = "read" /\ hand = NoEvent /\ eventSink = <<>>
    /\ sinkWorker = "select" /\ copied = NoEvent /\ left = {} /\ drains = {}
    /\ box = [c \in Calls |-> NoEvent]
    /\ sentWaitChanMap = {} /\ replyWaitChanMap = {}
    /\ pc = [c \in Calls |-> "idle"] /\ api = [c \in Calls |-> "channel"]
    /\ ret = [c \in Calls |-> Nobody] /\ gaveUp = {}
    /\ halted = FALSE /\ closer = "open"

(* Dial: the daemon's status, then its document; the goroutines start.     *)
(* (The status only matters to isConnected, which is left out: the worker  *)
(* and every call that sees a status assign it.)                           *)
Dial ==
    /\ ~dialed
    /\ dialed' = TRUE
    /\ UNCHANGED <<due, worker, hand, eventSink, fanOut, box, waiting, calls, halted, closer>>

Reliable(c) == api[c] = "reliable"

-----------------------------------------------------------------------------
(* The worker: readMessage, and where the event goes.  The wait channels   *)
(* are looked up now, the event is handed over in a later step.            *)

Waited(e) == e.of \in (IF e.kind = "sent" THEN sentWaitChanMap ELSE replyWaitChanMap)

CanRead(e) ==
    /\ dialed /\ worker = "read" /\ Len(eventSink) <= SinkCap
    /\ e \in due /\ (e.kind = "reply" => Event("sent", e.of) \notin due)

ReadToSink(e) ==
    /\ CanRead(e) /\ ~Waited(e)
    /\ due' = due \ {e}
    /\ eventSink' = Append(eventSink, e)
    /\ UNCHANGED <<worker, hand, fanOut, box, waiting, calls, life>>

ReadToCall(e) ==
    /\ CanRead(e) /\ Waited(e)
    /\ due' = due \ {e}
    /\ worker' = e.kind /\ hand' = e
    /\ UNCHANGED <<eventSink, fanOut, box, waiting, calls, life>>

(* sentWaitChan <- err: the call goes on, or returns the error (a message  *)
(* that could not be sent is not answered).                                *)
HandSent(c) ==
    /\ worker = "sent" /\ hand.of = c /\ pc[c] = "waitSent"
    /\ worker' = "read" /\ hand' = NoEvent
    /\ \/ pc' = [pc EXCEPT ![c] = "waitReply"] /\ due' = due
       \/ pc' = [pc EXCEPT ![c] = "unregister"] /\ due' = due \ {Event("reply", c)}
    /\ UNCHANGED <<eventSink, fanOut, box, waiting, api, ret, gaveUp, life>>

HandReply(c) ==
    /\ worker = "reply" /\ hand.of = c /\ pc[c] = "waitReply"
    /\ worker' = "read" /\ hand' = NoEvent
    /\ pc' = [pc EXCEPT ![c] = "unregister"]
    /\ ret' = [ret EXCEPT ![c] = hand.of]
    /\ UNCHANGED <<due, eventSink, fanOut, box, waiting, api, gaveUp, life>>

(* A shutdown event, a document that does not parse, a failing read: the   *)
(* worker returns, and go t.Halt().                                        *)
WorkerEnds ==
    /\ dialed /\ worker = "read" /\ Len(eventSink) <= SinkCap
    /\ worker' = "exited" /\ halted' = TRUE
    /\ UNCHANGED <<due, hand, eventSink, fanOut, box, waiting, calls,
                   dialed, closer>>

(* Mutant of WorkerHalts: a worker blocked on a channel does not watch HaltCh. *)
HaltsOnlyReading ==
    /\ halted /\ worker = "read" /\ Len(eventSink) <= SinkCap
    /\ worker' = "exited"
    /\ UNCHANGED <<hand, eventSink, due, fanOut, box, waiting, calls, life>>

(* Blocked on a channel, the worker watches HaltCh; reading, it fails as   *)
(* soon as Close has closed the connection.                                *)
WorkerHalts ==
    /\ halted /\ worker # "exited"
    /\ worker' = "exited" /\ hand' = NoEvent
    /\ eventSink' = IF Len(eventSink) > SinkCap THEN SubSeq(eventSink, 1, SinkCap) ELSE eventSink
    /\ UNCHANGED <<due, fanOut, box, waiting, calls, life>>

-----------------------------------------------------------------------------
(* eventSinkWorker, one case of its select at a time.                      *)

AddDrain(c) ==
    /\ dialed /\ sinkWorker = "select" /\ pc[c] = "add"
    /\ drains' = drains \cup {c}
    /\ pc' = [pc EXCEPT ![c] = "write"]
    /\ UNCHANGED <<reader, eventSink, sinkWorker, copied, left, box, waiting, api,
                   ret, gaveUp, life>>

RemoveDrain(c) ==
    /\ sinkWorker = "select" /\ pc[c] = "stop"
    /\ drains' = drains \ {c}
    /\ pc' = [pc EXCEPT ![c] = "returned"]
    /\ box' = [box EXCEPT ![c] = NoEvent]
    /\ UNCHANGED <<reader, eventSink, sinkWorker, copied, left, waiting, api, ret,
                   gaveUp, life>>

TakeEvent ==
    /\ sinkWorker = "select" /\ eventSink # <<>>
    /\ copied' = Head(eventSink) /\ eventSink' = Tail(eventSink)
    /\ left' = drains
    /\ sinkWorker' = "deliver"
    /\ UNCHANGED <<reader, drains, box, waiting, calls, life>>

Deliver(c) ==
    /\ sinkWorker = "deliver" /\ c \in left /\ box[c] = NoEvent
    /\ box' = [box EXCEPT ![c] = copied]
    /\ left' = left \ {c}
    /\ UNCHANGED <<reader, eventSink, sinkWorker, copied, drains, waiting, calls, life>>

(* Mutant of DropUnresponsive: the drain is forgotten, and still waited for. *)
DropAndTryAgain(c) ==
    /\ sinkWorker = "deliver" /\ c \in left /\ box[c] # NoEvent
    /\ drains' = drains \ {c}
    /\ UNCHANGED <<reader, eventSink, sinkWorker, copied, left, box, waiting, calls, life>>

(* Mutant of DropUnresponsive: eventSinkWorker waits for room for ever. *)
NeverDrops(c) ==
    /\ sinkWorker = "deliver" /\ c \in left /\ box[c] # NoEvent /\ halted
    /\ left' = left \ {c} /\ drains' = drains \ {c}
    /\ UNCHANGED <<reader, eventSink, sinkWorker, copied, box, waiting, calls, life>>

(* 100 ms without room.                                                    *)
DropUnresponsive(c) ==
    /\ sinkWorker = "deliver" /\ c \in left /\ box[c] # NoEvent
    /\ left' = left \ {c}
    /\ drains' = drains \ {c}
    /\ UNCHANGED <<reader, eventSink, sinkWorker, copied, box, waiting, calls, life>>

Delivered ==
    /\ sinkWorker = "deliver" /\ left = {}
    /\ sinkWorker' = "select" /\ copied' = NoEvent
    /\ UNCHANGED <<reader, eventSink, left, drains, box, waiting, calls, life>>

SinkWorkerHalts ==
    /\ halted /\ sinkWorker # "exited"
    /\ sinkWorker' = "exited" /\ copied' = NoEvent /\ left' = {}
    /\ UNCHANGED <<reader, eventSink, drains, box, waiting, calls, life>>

-----------------------------------------------------------------------------
(* The methods.  An argument that is refused returns before anything else  *)
(* has happened: no call of this model.                                    *)

Begin(c, a, step) ==
    /\ dialed /\ closer = "open" /\ pc[c] = "idle"
    /\ api' = [api EXCEPT ![c] = a]
    /\ pc' = [pc EXCEPT ![c] = step]
    /\ UNCHANGED <<worker, hand, eventSink, fanOut, box, ret, gaveUp, life>>

Subscribe(c, a) == Begin(c, a, "add") /\ UNCHANGED <<waiting, due>>

BlockingSendMessage(c)        == Subscribe(c, "message")
SendChannelQueryAwaitReply(c) == Subscribe(c, "query")
CreateWriteChannel(c)         == Subscribe(c, "channel")
CreateReadChannel(c)          == Subscribe(c, "channel")
WriteChannel(c)               == Subscribe(c, "channel")
ReadChannel(c)                == Subscribe(c, "channel")
ResumeWriteChannel(c)         == Subscribe(c, "channel")
ResumeWriteChannelQuery(c)    == Subscribe(c, "channel")
ResumeReadChannel(c)          == Subscribe(c, "channel")
ResumeReadChannelQuery(c)     == Subscribe(c, "channel")

(* Mutant of BlockingSendReliableMessage: the reply channel is not registered. *)
RegistersSentOnly(c) ==
    /\ Begin(c, "reliable", "write")
    /\ sentWaitChanMap' = sentWaitChanMap \cup {c}
    /\ UNCHANGED <<replyWaitChanMap, due>>

(* A reliable message registers its channels in the maps instead.          *)
BlockingSendReliableMessage(c) ==
    /\ Begin(c, "reliable", "write")
    /\ sentWaitChanMap' = sentWaitChanMap \cup {c}
    /\ replyWaitChanMap' = replyWaitChanMap \cup {c}
    /\ UNCHANGED due

(* An event nobody waits for: for a method that only writes, or of the     *)
(* daemon's own accord (a status, a document), which every call ignores    *)
(* like the reply to another's message.                                    *)
Unasked(c, a) ==
    /\ Begin(c, a, "returned")
    /\ due' = due \cup {Event("reply", c)}
    /\ UNCHANGED waiting

SendMessage(c)         == Unasked(c, "unawaited message")
SendReliableMessage(c) == Unasked(c, "unawaited message")
SendChannelQuery(c)    == Unasked(c, "unawaited query")
DaemonSpeaks(c)        == Unasked(c, "unawaited message")

(* writeMessage.  The daemon may answer a message, and a query, first with *)
(* "sent".                                                                 *)
Answers(c) ==
    {Event("reply", c)} \cup (IF api[c] = "channel" THEN {} ELSE {Event("sent", c)})

(* Mutant of WriteMessage: the call does not wait for "sent" first. *)
WritesWithoutSent(c) ==
    /\ pc[c] = "write" /\ closer = "open"
    /\ due' = due \cup Answers(c)
    /\ pc' = [pc EXCEPT ![c] = IF Reliable(c) THEN "waitReply" ELSE "wait"]
    /\ UNCHANGED <<worker, hand, eventSink, fanOut, box, waiting, api,
                   ret, gaveUp, life>>

WriteMessage(c) ==
    /\ pc[c] = "write" /\ closer = "open"
    /\ due' = due \cup Answers(c)
    /\ pc' = [pc EXCEPT ![c] = IF Reliable(c) THEN "waitSent" ELSE "wait"]
    /\ UNCHANGED <<worker, hand, eventSink, fanOut, box, waiting, api,
                   ret, gaveUp, life>>

Ending(c) == IF Reliable(c) THEN "unregister" ELSE "stop"

WriteFails(c) ==
    /\ pc[c] = "write"
    /\ pc' = [pc EXCEPT ![c] = Ending(c)]
    /\ UNCHANGED <<reader, eventSink, fanOut, box, waiting, api, ret, gaveUp, life>>

(* The loop of a call: it returns with the reply of its kind and its query *)
(* ID, and ignores the others; BlockingSendMessage has no case for what    *)
(* the channel API is told.  (The panic ends the process; what the other   *)
(* calls do after it means nothing.)                                       *)
ChannelApi(c)   == api[c] \in {"channel", "query", "unawaited query"}
(* Mutant of Impossible: a "sent" event has no case either. *)
SentIsImpossible(c, e) == api[c] = "message" /\ (e.kind = "sent" \/ ChannelApi(e.of))

Impossible(c, e) == api[c] = "message" /\ ChannelApi(e.of)
(* Mutant of Matches: the query ID is not compared. *)
MatchesAnyQuery(c, e) == e.kind = "reply" /\ api[e.of] = api[c]

Matches(c, e)   == e.kind = "reply" /\ api[e.of] = api[c] /\ e.of = c

Receive(c) ==
    LET e == box[c]
    IN  /\ pc[c] = "wait" /\ box[c] # NoEvent
        /\ box' = [box EXCEPT ![c] = NoEvent]
        /\ pc' = [pc EXCEPT ![c] = IF Impossible(c, e) THEN "panic"
                                   ELSE IF Matches(c, e) THEN "stop" ELSE @]
        /\ ret' = IF Matches(c, e) THEN [ret EXCEPT ![c] = e.of] ELSE ret
        /\ UNCHANGED <<due, worker, hand, eventSink, fanOut, waiting, api, gaveUp, life>>

Waits(c) == pc[c] \in {"wait", "waitSent", "waitReply"}

(* ctx.Done()                                                              *)
TimesOut(c) ==
    /\ Waits(c)
    /\ pc' = [pc EXCEPT ![c] = Ending(c)]
    /\ gaveUp' = gaveUp \cup {c}
    /\ UNCHANGED <<reader, eventSink, fanOut, box, waiting, api, ret, life>>

SeesHalt(c) ==
    /\ Waits(c) /\ halted
    /\ pc' = [pc EXCEPT ![c] = Ending(c)]
    /\ UNCHANGED <<reader, eventSink, fanOut, box, waiting, api, ret, gaveUp, life>>

(* The deferred deletes of a reliable message.                             *)
Unregister(c) ==
    /\ pc[c] = "unregister"
    /\ sentWaitChanMap' = sentWaitChanMap \ {c}
    /\ replyWaitChanMap' = replyWaitChanMap \ {c}
    /\ pc' = [pc EXCEPT ![c] = "returned"]
    /\ UNCHANGED <<reader, eventSink, fanOut, box, api, ret, gaveUp, life>>

-----------------------------------------------------------------------------
(* Close: the connection, then Halt, which waits for both goroutines, then *)
(* eventSink.  If ThinClose cannot be written, Close has done nothing.     *)
Close ==
    /\ dialed /\ closer = "open"
    /\ closer' = "wait" /\ halted' = TRUE
    /\ UNCHANGED <<reader, eventSink, fanOut, box, waiting, calls, dialed>>

(* Mutant of CloseEventSink: Halt waits for one goroutine only. *)
CloseWithoutSinkWorker ==
    /\ closer = "wait" /\ worker = "exited"
    /\ closer' = "closed"
    /\ UNCHANGED <<reader, eventSink, fanOut, box, waiting, calls, dialed, halted>>

CloseEventSink ==
    /\ closer = "wait" /\ worker = "exited" /\ sinkWorker = "exited"
    /\ closer' = "closed"
    /\ UNCHANGED <<reader, eventSink, fanOut, box, waiting, calls, dialed, halted>>

-----------------------------------------------------------------------------
CallBegins(c) ==
    \/ BlockingSendMessage(c) \/ BlockingSendReliableMessage(c)
    \/ CreateWriteChannel(c) \/ CreateReadChannel(c) \/ WriteChannel(c)
    \/ ReadChannel(c) \/ ResumeWriteChannel(c) \/ ResumeWriteChannelQuery(c)
    \/ ResumeReadChannel(c) \/ ResumeReadChannelQuery(c)
    \/ SendChannelQueryAwaitReply(c) \/ SendMessage(c) \/ SendReliableMessage(c)
    \/ SendChannelQuery(c) \/ DaemonSpeaks(c)

CallGoesOn(c) ==
    \/ WriteMessage(c) \/ WriteFails(c) \/ Receive(c)
    \/ TimesOut(c) \/ SeesHalt(c) \/ Unregister(c)

WorkerGoesOn == WorkerHalts \/ \E c \in Calls : HandSent(c) \/ HandReply(c)

SinkWorkerGoesOn ==
    \/ TakeEvent \/ Delivered \/ SinkWorkerHalts
    \/ \E c \in Calls : Deliver(c) \/ DropUnresponsive(c)

Next ==
    \/ Dial \/ Close \/ CloseEventSink
    \/ \E e \in due : ReadToSink(e) \/ ReadToCall(e)
    \/ WorkerGoesOn \/ WorkerEnds \/ SinkWorkerGoesOn
    \/ \E c \in Calls : CallBegins(c) \/ CallGoesOn(c) \/ AddDrain(c) \/ RemoveDrain(c)

Spec == Init /\ [][Next]_vars

(* The goroutines run, HaltCh is noticed, Close goes on, and every context *)
(* is done some time.  The daemon owes nothing.                            *)
Fairness ==
    /\ WF_vars(WorkerGoesOn) /\ WF_vars(SinkWorkerGoesOn) /\ WF_vars(CloseEventSink)
    /\ WF_vars(SinkWorkerHalts)
    /\ \A c \in Calls :
         WF_vars(CallGoesOn(c)) /\ WF_vars(AddDrain(c)) /\ WF_vars(RemoveDrain(c))

FairSpec == Spec /\ Fairness

-----------------------------------------------------------------------------
Steps == {"idle", "add", "write", "wait", "waitSent", "waitReply", "stop",
          "unregister", "returned", "panic"}

(* The types; the channels keep their capacity.                            *)
TypeOK ==
    /\ dialed \in BOOLEAN /\ halted \in BOOLEAN
    /\ due \subseteq Events
    /\ worker \in {"read", "sent", "reply", "exited"}
    /\ {hand, copied} \subseteq Events \cup {NoEvent}
    /\ sinkWorker \in {"select", "deliver", "exited"}
    /\ eventSink \in Seq(Events) /\ Len(eventSink) <= SinkCap + 1
    /\ drains \subseteq Calls /\ left \subseteq drains
    /\ box \in [Calls -> Events \cup {NoEvent}]
    /\ sentWaitChanMap \subseteq Calls /\ replyWaitChanMap \subseteq Calls
    /\ pc \in [Calls -> Steps] /\ api \in [Calls -> Apis]
    /\ ret \in [Calls -> Calls \cup {Nobody}] /\ gaveUp \subseteq Calls
    /\ closer \in {"open", "wait", "closed"}

(* A call returns no reply but its own, however late the replies of other  *)
(* calls of the same method arrive.                                        *)
OwnReply == \A c \in Calls : ret[c] \in {c, Nobody}

(* The reply to a call that still waits has not gone by: the daemon still  *)
(* owes it, or it is on its way to that call.  A call whose drain was      *)
(* dropped as unresponsive is the exception.                               *)
OnItsWay(c) ==
    LET r == Event("reply", c)
    IN  \/ r \in due
        \/ Reliable(c) /\ hand = r
        \/ ~Reliable(c) /\ \/ \E i \in DOMAIN eventSink : eventSink[i] = r
                           \/ copied = r /\ c \in left
                           \/ box[c] = r

ReplyNotMissed ==
    \A c \in Calls : Waits(c) /\ ~halted /\ (Reliable(c) \/ c \in drains) => OnItsWay(c)

(* The worker hands an event over to a call that waits for it: only a call *)
(* whose context was done in between leaves it blocked.                    *)
BlockedByGiveUp ==
    \A c \in Calls : hand.of = c =>
        c \in gaveUp \/ halted \/ (worker = "sent"  /\ pc[c] = "waitSent")
                               \/ (worker = "reply" /\ pc[c] \in {"waitSent", "waitReply"})

(* "panic: impossible event type" is possible only in a program that uses  *)
(* the channel API beside BlockingSendMessage.                             *)
PanicOnlyMixed ==
    (\E c \in Calls : pc[c] = "panic") => \E c \in Calls : ChannelApi(c) /\ pc[c] # "idle"

(* Close closes eventSink after its last sender: no send on a closed       *)
(* channel.                                                                *)
NoSendOnClosed ==
    closer = "closed" => worker = "exited" /\ sinkWorker = "exited"

(* A call comes back while the client lives, even if its drain is full     *)
(* when it unsubscribes and the worker is blocked.                         *)
CallsReturn ==
    \A c \in Calls : pc[c] # "idle" ~> pc[c] \in {"returned", "panic"} \/ halted

(* Close comes back, whatever the goroutines are blocked on.               *)
CloseReturns == closer # "open" ~> closer = "closed"
=============================================================================
