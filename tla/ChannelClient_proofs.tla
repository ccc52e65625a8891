------------------------ MODULE ChannelClient_proofs ------------------------
(***************************************************************************)
(* Proofs about ChannelClient, for every set of calls and every capacity   *)
(* of eventSink.                                                           *)
(***************************************************************************)
EXTENDS ChannelClient, SequenceTheorems, TLAPS

(* An event is of a call that has written its request, wherever it is.     *)
Begun == {"wait", "waitSent", "waitReply", "stop", "unregister", "returned", "panic"}

OriginInv ==
    /\ \A e \in due : pc[e.of] \in Begun
    /\ \A i \in DOMAIN eventSink : pc[eventSink[i].of] \in Begun
    /\ \A e \in {hand, copied} : e # NoEvent => pc[e.of] \in Begun
    /\ \A c \in Calls : box[c] # NoEvent => pc[box[c].of] \in Begun

(* The worker holds an event only for a waiting call; while a reply is     *)
(* waited for, and from its registration on, a reliable call is in both    *)
(* maps; no other call ever is.                                            *)
HandInv ==
    /\ worker \in {"sent", "reply"} => hand \in Events /\ hand.kind = worker
    /\ worker \in {"read", "exited"} => hand = NoEvent
    /\ hand \notin due

MapsInv ==
    /\ \A c \in sentWaitChanMap \cup replyWaitChanMap : Reliable(c) /\ pc[c] # "idle"
    /\ \A c \in Calls :
         pc[c] \in {"waitSent", "waitReply"} => Reliable(c)
    /\ \A c \in Calls :
         /\ Reliable(c) => pc[c] \notin {"add", "wait", "stop", "panic"}
         /\ Reliable(c) /\ pc[c] \in {"write", "waitSent", "waitReply"} =>
                c \in sentWaitChanMap /\ c \in replyWaitChanMap

(* eventSinkWorker holds an event only while it delivers it.               *)
SinkInv ==
    /\ sinkWorker = "select" => left = {} /\ copied = NoEvent
    /\ sinkWorker = "deliver" => copied \in Events

(* What the daemon owes a reliable call is still waited for, unless the    *)
(* context was done or the client halted.                                  *)
OwedInv ==
    \A c \in Calls : Reliable(c) =>
        /\ Event("sent", c) \in due => c \in gaveUp \/ halted \/ pc[c] = "waitSent"
        /\ Event("reply", c) \in due =>
               c \in gaveUp \/ halted \/ pc[c] \in {"waitSent", "waitReply"}

IInv ==
    /\ TypeOK /\ OriginInv /\ HandInv /\ MapsInv /\ SinkInv /\ OwedInv
    /\ BlockedByGiveUp /\ OwnReply /\ ReplyNotMissed /\ PanicOnlyMixed /\ NoSendOnClosed

-----------------------------------------------------------------------------
(* The steps, with the methods that only differ in their names together.   *)

Begins(c) ==
    \/ \E a \in Subscribing : Subscribe(c, a)
    \/ BlockingSendReliableMessage(c)
    \/ \E a \in Unawaited : Unasked(c, a)

Acts(c) ==
    \/ Begins(c) \/ CallGoesOn(c) \/ AddDrain(c) \/ RemoveDrain(c)
    \/ HandSent(c) \/ HandReply(c) \/ Deliver(c) \/ DropUnresponsive(c)

Runs ==
    \/ Dial \/ Close \/ CloseEventSink \/ WorkerHalts \/ WorkerEnds
    \/ TakeEvent \/ Delivered \/ SinkWorkerHalts
    \/ \E e \in due : ReadToSink(e) \/ ReadToCall(e)

LEMMA StepCases == [Next]_vars => Runs \/ (\E c \in Calls : Acts(c)) \/ UNCHANGED vars
<1> SUFFICES ASSUME [Next]_vars PROVE Runs \/ (\E c \in Calls : Acts(c)) \/ UNCHANGED vars
  OBVIOUS
<1>1. ASSUME NEW c \in Calls, CallBegins(c)  PROVE Begins(c)
  BY <1>1, Zenon DEF CallBegins, Begins, Subscribing, Unawaited, BlockingSendMessage,
     CreateWriteChannel, CreateReadChannel, WriteChannel, ReadChannel,
     ResumeWriteChannel, ResumeWriteChannelQuery, ResumeReadChannel,
     ResumeReadChannelQuery, SendChannelQueryAwaitReply, SendMessage,
     SendReliableMessage, SendChannelQuery, DaemonSpeaks
<1> QED  BY <1>1 DEF Next, Runs, Acts, WorkerGoesOn, SinkWorkerGoesOn

LEMMA EventFacts ==
    /\ \A k \in {"sent", "reply"}, c \in Calls :
         Event(k, c) \in Events /\ Event(k, c).kind = k /\ Event(k, c).of = c
    /\ \A e \in Events : /\ e.kind \in {"sent", "reply"} /\ e.of \in Calls
                        /\ e = Event(e.kind, e.of)
    /\ NoEvent.of = Nobody /\ NoEvent \notin Events
  BY ChannelClientAssumption DEF Event, Events, NoEvent

LEMMA HeadAndTail ==
    ASSUME NEW S, NEW s \in Seq(S), s # <<>>
    PROVE  /\ Head(s) \in S /\ Tail(s) \in Seq(S) /\ Len(Tail(s)) = Len(s) - 1
           /\ 1 \in DOMAIN s /\ Head(s) = s[1]
           /\ \A i \in DOMAIN Tail(s) : i + 1 \in DOMAIN s /\ Tail(s)[i] = s[i + 1]
           /\ \A i \in DOMAIN s : i # 1 =>
                  i - 1 \in DOMAIN Tail(s) /\ Tail(s)[i - 1] = s[i]
<1>1. /\ Len(s) \in Nat /\ Len(s) > 0 /\ DOMAIN s = 1..Len(s)
      /\ Head(s) \in S /\ Tail(s) \in Seq(S) /\ Len(Tail(s)) = Len(s) - 1
      /\ Head(s) = s[1] /\ \A i \in 1 .. Len(Tail(s)) : Tail(s)[i] = s[i+1]
  BY HeadTailProperties, LenProperties, EmptySeq
<1>2. DOMAIN Tail(s) = 1..(Len(s) - 1)
  BY <1>1, LenProperties
<1> QED  BY <1>1, <1>2

LEMMA Appended ==
    ASSUME NEW S, NEW s \in Seq(S), NEW e \in S
    PROVE  /\ Append(s, e) \in Seq(S) /\ Len(Append(s, e)) = Len(s) + 1
           /\ \A i \in DOMAIN s : i \in DOMAIN Append(s, e) /\ Append(s, e)[i] = s[i]
           /\ Len(s) + 1 \in DOMAIN Append(s, e) /\ Append(s, e)[Len(s) + 1] = e
  BY AppendProperties, LenProperties

LEMMA InitInvariant == Init => IInv
<1> SUFFICES ASSUME Init  PROVE IInv
  OBVIOUS
<1>1. TypeOK
  <2>1. eventSink \in Seq(Events) /\ Len(eventSink) <= SinkCap + 1
    BY EmptySeq, ChannelClientAssumption DEF Init
  <2>2. pc \in [Calls -> Steps] /\ api \in [Calls -> Apis]
    BY DEF Init, Apis, Subscribing, Steps
  <2> QED  BY <2>1, <2>2 DEF Init, TypeOK
<1>2. OriginInv /\ HandInv /\ MapsInv /\ SinkInv /\ OwedInv
  BY DEF Init, OriginInv, HandInv, MapsInv, SinkInv, OwedInv, Reliable
<1>3. BlockedByGiveUp
  BY ChannelClientAssumption DEF Init, BlockedByGiveUp, NoEvent, Event
<1>4. OwnReply /\ ReplyNotMissed /\ PanicOnlyMixed /\ NoSendOnClosed
  BY DEF Init, OwnReply, ReplyNotMissed, PanicOnlyMixed, NoSendOnClosed, Waits
<1> QED  BY <1>1, <1>2, <1>3, <1>4 DEF IInv

-----------------------------------------------------------------------------
(* Types.                                                                  *)

LEMMA TypeStep == IInv /\ [Next]_vars => TypeOK'
<1> SUFFICES ASSUME TypeOK, HandInv, SinkInv, [Next]_vars  PROVE TypeOK'
  BY DEF IInv
<1> USE ChannelClientAssumption DEF TypeOK, HandInv, SinkInv, Steps, Apis, reader,
   fanOut, waiting, calls, life, vars
<1>1. CASE Dial
  BY <1>1 DEF Dial
<1>2. CASE Close
  BY <1>2 DEF Close
<1>3. CASE CloseEventSink
  BY <1>3 DEF CloseEventSink
<1>4. CASE WorkerHalts
  <2>1. CASE Len(eventSink) > SinkCap
    <3>1. SubSeq(eventSink, 1, SinkCap) \in Seq(Events)
          /\ Len(SubSeq(eventSink, 1, SinkCap)) = SinkCap
      BY <2>1, SubSeqProperties, LenProperties
    <3> QED  BY <1>4, <2>1, <3>1 DEF WorkerHalts
  <2>2. CASE ~(Len(eventSink) > SinkCap)
    BY <1>4, <2>2 DEF WorkerHalts
  <2> QED  BY <2>1, <2>2
<1>5. CASE WorkerEnds
  BY <1>5 DEF WorkerEnds
<1>6. CASE TakeEvent
  <2>1. Head(eventSink) \in Events /\ Tail(eventSink) \in Seq(Events) /\ Len(Tail(eventSink)) = Len(eventSink) - 1
    BY <1>6, HeadAndTail DEF TakeEvent
  <2> QED  BY <1>6, <2>1 DEF TakeEvent
<1>7. CASE Delivered
  BY <1>7 DEF Delivered
<1>8. CASE SinkWorkerHalts
  BY <1>8 DEF SinkWorkerHalts
<1>9. ASSUME NEW e \in due, ReadToSink(e)  PROVE TypeOK'
  <2>1. Append(eventSink, e) \in Seq(Events) /\ Len(Append(eventSink, e)) = Len(eventSink) + 1
    BY <1>9, AppendProperties DEF ReadToSink, CanRead
  <2> QED  BY <1>9, <2>1 DEF ReadToSink, CanRead
<1>10. ASSUME NEW e \in due, ReadToCall(e)  PROVE TypeOK'
  <2>1. e \in Events /\ e.kind \in {"sent", "reply"}
    BY EventFacts
  <2> QED  BY <1>10, <2>1 DEF ReadToCall, CanRead
<1>11. ASSUME NEW c \in Calls, NEW a \in Subscribing, Subscribe(c, a)  PROVE TypeOK'
  BY <1>11 DEF Subscribe, Begin
<1>12. ASSUME NEW c \in Calls, BlockingSendReliableMessage(c)  PROVE TypeOK'
  BY <1>12 DEF BlockingSendReliableMessage, Begin
<1>13. ASSUME NEW c \in Calls, NEW a \in Unawaited, Unasked(c, a)  PROVE TypeOK'
  <2>1. Event("reply", c) \in Events /\ Event("sent", c) \in Events
        /\ Event("reply", c).of = c /\ Event("sent", c).of = c
    BY EventFacts
  <2> QED  BY <1>13, <2>1 DEF Unasked, Begin, Unawaited
<1>14. ASSUME NEW c \in Calls, WriteMessage(c)  PROVE TypeOK'
  <2>1. Event("reply", c) \in Events /\ Event("sent", c) \in Events
        /\ Event("reply", c).of = c /\ Event("sent", c).of = c
    BY EventFacts
  <2> QED  BY <1>14, <2>1 DEF WriteMessage, Answers
<1>15. ASSUME NEW c \in Calls, WriteFails(c)  PROVE TypeOK'
  BY <1>15 DEF WriteFails, Ending, Reliable
<1>16. ASSUME NEW c \in Calls, Receive(c)  PROVE TypeOK'
  <2> box[c] \in Events
    BY <1>16 DEF Receive
  <2>1. box[c].of \in Calls
    BY EventFacts, box[c] \in Events
  <2> QED  BY <1>16, <2>1 DEF Receive
<1>17. ASSUME NEW c \in Calls, TimesOut(c)  PROVE TypeOK'
  BY <1>17 DEF TimesOut, Ending, Reliable
<1>18. ASSUME NEW c \in Calls, SeesHalt(c)  PROVE TypeOK'
  BY <1>18 DEF SeesHalt, Ending, Reliable
<1>19. ASSUME NEW c \in Calls, Unregister(c)  PROVE TypeOK'
  BY <1>19 DEF Unregister
<1>20. ASSUME NEW c \in Calls, AddDrain(c)  PROVE TypeOK'
  BY <1>20 DEF AddDrain
<1>21. ASSUME NEW c \in Calls, RemoveDrain(c)  PROVE TypeOK'
  BY <1>21 DEF RemoveDrain
<1>22. ASSUME NEW c \in Calls, HandSent(c)  PROVE TypeOK'
  BY <1>22 DEF HandSent
<1>23. ASSUME NEW c \in Calls, HandReply(c)  PROVE TypeOK'
  BY <1>23 DEF HandReply
<1>24. ASSUME NEW c \in Calls, Deliver(c)  PROVE TypeOK'
  BY <1>24 DEF Deliver
<1>25. ASSUME NEW c \in Calls, DropUnresponsive(c)  PROVE TypeOK'
  BY <1>25 DEF DropUnresponsive
<1>26. CASE UNCHANGED vars
  BY <1>26
<1> HIDE DEF TypeOK, HandInv, SinkInv, Steps, Apis, reader, fanOut, waiting, calls,
   life, vars
<1>27. CASE Runs
  BY <1>27, <1>1, <1>2, <1>3, <1>4, <1>5, <1>6, <1>7, <1>8, <1>9, <1>10 DEF Runs
<1>28. ASSUME NEW c \in Calls, Acts(c)  PROVE TypeOK'
  BY <1>28, <1>11, <1>12, <1>13, <1>14, <1>15, <1>16, <1>17, <1>18, <1>19, <1>20,
     <1>21, <1>22, <1>23, <1>24, <1>25 DEF Acts, Begins, CallGoesOn
<1> QED  BY StepCases, <1>26, <1>27, <1>28

-----------------------------------------------------------------------------
(* Where events come from, who registers, who holds what.                  *)

LEMMA OriginStep == IInv /\ [Next]_vars => OriginInv'
<1> SUFFICES ASSUME TypeOK, OriginInv, HandInv, SinkInv, [Next]_vars  PROVE OriginInv'
  BY DEF IInv
<1> USE ChannelClientAssumption DEF TypeOK, OriginInv, HandInv, SinkInv, Begun, Events,
   Event, reader, fanOut, waiting, calls, life, vars
<1>1. CASE WorkerHalts
  <2>1. CASE Len(eventSink) > SinkCap
    <3>1. /\ DOMAIN SubSeq(eventSink, 1, SinkCap) = 1..SinkCap /\ 1..SinkCap \subseteq DOMAIN eventSink
          /\ \A i \in 1..SinkCap : SubSeq(eventSink, 1, SinkCap)[i] = eventSink[i]
      BY <2>1, SubSeqProperties, LenProperties
    <3> QED  BY <1>1, <2>1, <3>1 DEF WorkerHalts
  <2>2. CASE ~(Len(eventSink) > SinkCap)
    BY <1>1, <2>2 DEF WorkerHalts
  <2> QED  BY <2>1, <2>2
<1>2. CASE TakeEvent
  <2>1. /\ Head(eventSink) = eventSink[1] /\ 1 \in DOMAIN eventSink
        /\ \A i \in DOMAIN Tail(eventSink) : i + 1 \in DOMAIN eventSink /\ Tail(eventSink)[i] = eventSink[i + 1]
    BY <1>2, HeadAndTail DEF TakeEvent
  <2> QED  BY <1>2, <2>1 DEF TakeEvent
<1>3. CASE Delivered
  BY <1>3 DEF Delivered
<1>4. CASE SinkWorkerHalts
  BY <1>4 DEF SinkWorkerHalts
<1>5. ASSUME NEW e \in due, ReadToSink(e)  PROVE OriginInv'
  BY <1>5 DEF ReadToSink, CanRead
<1>6. ASSUME NEW e \in due, ReadToCall(e)  PROVE OriginInv'
  BY <1>6 DEF ReadToCall, CanRead
<1>7. ASSUME NEW c \in Calls, NEW a \in Subscribing, Subscribe(c, a)  PROVE OriginInv'
  BY <1>7 DEF Subscribe, Begin, Subscribing
<1>8. ASSUME NEW c \in Calls, BlockingSendReliableMessage(c)  PROVE OriginInv'
  BY <1>8 DEF BlockingSendReliableMessage, Begin
<1>9. ASSUME NEW c \in Calls, NEW a \in Unawaited, Unasked(c, a)  PROVE OriginInv'
  <2>1. \A d \in Calls : pc[d] \in Begun => d # c /\ pc'[d] = pc[d]
    BY <1>9 DEF Unasked, Begin
  <2> QED  BY <1>9, <2>1 DEF Unasked, Begin
<1>10. ASSUME NEW c \in Calls, WriteMessage(c)  PROVE OriginInv'
  BY <1>10 DEF WriteMessage, Answers
<1>11. ASSUME NEW c \in Calls, WriteFails(c)  PROVE OriginInv'
  BY <1>11 DEF WriteFails, Ending, Reliable
<1>12. ASSUME NEW c \in Calls, Receive(c)  PROVE OriginInv'
  BY <1>12 DEF Receive
<1>13. ASSUME NEW c \in Calls, TimesOut(c)  PROVE OriginInv'
  BY <1>13 DEF TimesOut, Ending, Reliable
<1>14. ASSUME NEW c \in Calls, SeesHalt(c)  PROVE OriginInv'
  BY <1>14 DEF SeesHalt, Ending, Reliable
<1>15. ASSUME NEW c \in Calls, Unregister(c)  PROVE OriginInv'
  BY <1>15 DEF Unregister
<1>16. ASSUME NEW c \in Calls, AddDrain(c)  PROVE OriginInv'
  BY <1>16 DEF AddDrain
<1>17. ASSUME NEW c \in Calls, RemoveDrain(c)  PROVE OriginInv'
  BY <1>17 DEF RemoveDrain
<1>18. ASSUME NEW c \in Calls, HandSent(c)  PROVE OriginInv'
  <2>1. due' \subseteq due /\ hand' = NoEvent /\ UNCHANGED <<eventSink, copied, box>>
    BY <1>18 DEF HandSent
  <2>2. \A d \in Calls : pc[d] \in Begun => pc'[d] \in Begun
    BY <1>18 DEF HandSent
  <2>3. \A e \in Events : e.of \in Calls
    BY EventFacts
  <2>4. ASSUME NEW i \in DOMAIN eventSink  PROVE eventSink[i] \in Events
    <3>1. eventSink \in Seq(Events) /\ i \in 1..Len(eventSink)
      BY LenProperties
    <3> QED  BY <3>1, ElementOfSeq
  <2> QED  BY <2>1, <2>2, <2>3, <2>4
<1>19. ASSUME NEW c \in Calls, HandReply(c)  PROVE OriginInv'
  BY <1>19 DEF HandReply
<1>20. ASSUME NEW c \in Calls, Deliver(c)  PROVE OriginInv'
  BY <1>20 DEF Deliver
<1>21. ASSUME NEW c \in Calls, DropUnresponsive(c)  PROVE OriginInv'
  BY <1>21 DEF DropUnresponsive
<1>22. CASE Dial \/ Close \/ CloseEventSink \/ WorkerEnds
  BY <1>22 DEF Dial, Close, CloseEventSink, WorkerEnds
<1>23. CASE UNCHANGED vars
  BY <1>23
<1> HIDE DEF TypeOK, OriginInv, HandInv, SinkInv, Begun, Events, Event, reader, fanOut,
   waiting, calls, life, vars
<1>24. CASE Runs
  BY <1>24, <1>1, <1>2, <1>3, <1>4, <1>5, <1>6, <1>22 DEF Runs
<1>25. ASSUME NEW c \in Calls, Acts(c)  PROVE OriginInv'
  BY <1>25, <1>7, <1>8, <1>9, <1>10, <1>11, <1>12, <1>13, <1>14, <1>15, <1>16, <1>17,
     <1>18, <1>19, <1>20, <1>21 DEF Acts, Begins, CallGoesOn
<1> QED  BY StepCases, <1>23, <1>24, <1>25

LEMMA HandStep == IInv /\ [Next]_vars => HandInv'
<1> SUFFICES ASSUME TypeOK, OriginInv, HandInv, [Next]_vars  PROVE HandInv'
  BY DEF IInv
<1> USE ChannelClientAssumption DEF TypeOK, OriginInv, HandInv, Begun, Events, Event,
   NoEvent, reader, fanOut, waiting, calls, life, vars
<1>1. CASE WorkerHalts
  BY <1>1 DEF WorkerHalts
<1>2. CASE WorkerEnds
  BY <1>2 DEF WorkerEnds
<1>3. ASSUME NEW e \in due, ReadToSink(e)  PROVE HandInv'
  BY <1>3 DEF ReadToSink, CanRead
<1>4. ASSUME NEW e \in due, ReadToCall(e)  PROVE HandInv'
  BY <1>4 DEF ReadToCall, CanRead
<1>5. ASSUME NEW c \in Calls, NEW a \in Subscribing, Subscribe(c, a)  PROVE HandInv'
  BY <1>5 DEF Subscribe, Begin, Subscribing
<1>6. ASSUME NEW c \in Calls, BlockingSendReliableMessage(c)  PROVE HandInv'
  BY <1>6 DEF BlockingSendReliableMessage, Begin
<1>7. ASSUME NEW c \in Calls, NEW a \in Unawaited, Unasked(c, a)  PROVE HandInv'
  <2>1. \A d \in Calls : pc[d] \in Begun => d # c /\ pc'[d] = pc[d]
    BY <1>7 DEF Unasked, Begin
  <2> QED  BY <1>7, <2>1 DEF Unasked, Begin
<1>8. ASSUME NEW c \in Calls, WriteMessage(c)  PROVE HandInv'
  BY <1>8 DEF WriteMessage, Answers
<1>9. ASSUME NEW c \in Calls, HandSent(c)  PROVE HandInv'
  BY <1>9 DEF HandSent
<1>10. ASSUME NEW c \in Calls, HandReply(c)  PROVE HandInv'
  BY <1>10 DEF HandReply
<1>11. CASE Dial \/ Close \/ CloseEventSink \/ TakeEvent \/ Delivered
                \/ SinkWorkerHalts
  BY <1>11 DEF Dial, Close, CloseEventSink, TakeEvent, Delivered, SinkWorkerHalts
<1>12. ASSUME NEW c \in Calls,
           WriteFails(c) \/ Receive(c) \/ TimesOut(c) \/ SeesHalt(c) \/ Unregister(c)
              \/ AddDrain(c) \/ RemoveDrain(c) \/ Deliver(c) \/ DropUnresponsive(c)
     PROVE  HandInv'
  BY <1>12 DEF WriteFails, Receive, TimesOut, SeesHalt, Unregister, AddDrain,
     RemoveDrain, Deliver, DropUnresponsive
<1>13. CASE UNCHANGED vars
  BY <1>13
<1> HIDE DEF TypeOK, OriginInv, HandInv, Begun, Events, Event, NoEvent, reader, fanOut,
   waiting, calls, life, vars
<1>14. CASE Runs
  BY <1>14, <1>1, <1>2, <1>3, <1>4, <1>11 DEF Runs
<1>15. ASSUME NEW c \in Calls, Acts(c)  PROVE HandInv'
  BY <1>15, <1>5, <1>6, <1>7, <1>8, <1>9, <1>10, <1>12 DEF Acts, Begins, CallGoesOn
<1> QED  BY StepCases, <1>13, <1>14, <1>15

LEMMA MapsStep == IInv /\ [Next]_vars => MapsInv'
<1> SUFFICES ASSUME TypeOK, HandInv, MapsInv, [Next]_vars  PROVE MapsInv'
  BY DEF IInv
<1> USE ChannelClientAssumption DEF TypeOK, HandInv, MapsInv, Reliable, reader, fanOut,
   waiting, calls, life, vars
<1>1. ASSUME NEW c \in Calls, NEW a \in Subscribing, Subscribe(c, a)  PROVE MapsInv'
  BY <1>1 DEF Subscribe, Begin, Subscribing
<1>2. ASSUME NEW c \in Calls, BlockingSendReliableMessage(c)  PROVE MapsInv'
  BY <1>2 DEF BlockingSendReliableMessage, Begin
<1>3. ASSUME NEW c \in Calls, NEW a \in Unawaited, Unasked(c, a)  PROVE MapsInv'
  BY <1>3 DEF Unasked, Begin, Unawaited
<1>4. ASSUME NEW c \in Calls, WriteMessage(c)  PROVE MapsInv'
  BY <1>4 DEF WriteMessage, Answers
<1>5. ASSUME NEW c \in Calls, WriteFails(c)  PROVE MapsInv'
  BY <1>5 DEF WriteFails, Ending, Reliable
<1>6. ASSUME NEW c \in Calls, Receive(c)  PROVE MapsInv'
  BY <1>6 DEF Receive
<1>7. ASSUME NEW c \in Calls, TimesOut(c)  PROVE MapsInv'
  BY <1>7 DEF TimesOut, Ending, Reliable
<1>8. ASSUME NEW c \in Calls, SeesHalt(c)  PROVE MapsInv'
  BY <1>8 DEF SeesHalt, Ending, Reliable
<1>9. ASSUME NEW c \in Calls, Unregister(c)  PROVE MapsInv'
  BY <1>9 DEF Unregister
<1>10. ASSUME NEW c \in Calls, AddDrain(c)  PROVE MapsInv'
  BY <1>10 DEF AddDrain
<1>11. ASSUME NEW c \in Calls, RemoveDrain(c)  PROVE MapsInv'
  BY <1>11 DEF RemoveDrain
<1>12. ASSUME NEW c \in Calls, HandSent(c)  PROVE MapsInv'
  BY <1>12 DEF HandSent
<1>13. ASSUME NEW c \in Calls, HandReply(c)  PROVE MapsInv'
  BY <1>13 DEF HandReply
<1>14. CASE \/ Dial \/ Close \/ CloseEventSink \/ WorkerHalts \/ WorkerEnds
                \/ TakeEvent \/ Delivered \/ SinkWorkerHalts
           \/ \E e \in due : ReadToSink(e) \/ ReadToCall(e)
  BY <1>14 DEF Dial, Close, CloseEventSink, WorkerHalts, WorkerEnds, TakeEvent,
     Delivered, SinkWorkerHalts, ReadToSink, ReadToCall
<1>15. ASSUME NEW c \in Calls,
           Deliver(c) \/ DropUnresponsive(c)
     PROVE  MapsInv'
  BY <1>15 DEF Deliver, DropUnresponsive
<1>16. CASE UNCHANGED vars
  BY <1>16
<1> HIDE DEF TypeOK, HandInv, MapsInv, Reliable, reader, fanOut, waiting, calls, life,
   vars
<1>17. CASE Runs
  BY <1>17, <1>14 DEF Runs
<1>18. ASSUME NEW c \in Calls, Acts(c)  PROVE MapsInv'
  BY <1>18, <1>1, <1>2, <1>3, <1>4, <1>5, <1>6, <1>7, <1>8, <1>9, <1>10, <1>11, <1>12,
     <1>13, <1>15 DEF Acts, Begins, CallGoesOn
<1> QED  BY StepCases, <1>16, <1>17, <1>18

LEMMA SinkStep == IInv /\ [Next]_vars => SinkInv'
<1> SUFFICES ASSUME TypeOK, SinkInv, [Next]_vars  PROVE SinkInv'
  BY DEF IInv
<1> USE ChannelClientAssumption DEF TypeOK, SinkInv, reader, fanOut, waiting, calls,
   life, vars
<1>1. CASE WorkerHalts
  BY <1>1 DEF WorkerHalts
<1>2. CASE TakeEvent
  BY <1>2 DEF TakeEvent
<1>3. CASE Delivered
  BY <1>3 DEF Delivered
<1>4. CASE SinkWorkerHalts
  BY <1>4 DEF SinkWorkerHalts
<1>5. ASSUME NEW e \in due, ReadToSink(e)  PROVE SinkInv'
  BY <1>5 DEF ReadToSink, CanRead
<1>6. ASSUME NEW c \in Calls, Deliver(c)  PROVE SinkInv'
  BY <1>6 DEF Deliver
<1>7. ASSUME NEW c \in Calls, DropUnresponsive(c)  PROVE SinkInv'
  BY <1>7 DEF DropUnresponsive
<1>8. CASE \/ Dial \/ Close \/ CloseEventSink \/ WorkerEnds
           \/ \E e \in due : ReadToCall(e)
  BY <1>8 DEF Dial, Close, CloseEventSink, WorkerEnds, ReadToCall
<1>9. ASSUME NEW c \in Calls,
           Begins(c) \/ WriteMessage(c) \/ WriteFails(c) \/ Receive(c) \/ TimesOut(c)
              \/ SeesHalt(c) \/ Unregister(c) \/ AddDrain(c) \/ RemoveDrain(c)
              \/ HandSent(c) \/ HandReply(c)
     PROVE  SinkInv'
  BY <1>9 DEF Subscribe, BlockingSendReliableMessage, Unasked, Begins, Begin,
     WriteMessage, WriteFails, Receive, TimesOut, SeesHalt, Unregister, AddDrain,
     RemoveDrain, HandSent, HandReply
<1>10. CASE UNCHANGED vars
  BY <1>10
<1> HIDE DEF TypeOK, SinkInv, reader, fanOut, waiting, calls, life, vars
<1>11. CASE Runs
  BY <1>11, <1>1, <1>2, <1>3, <1>4, <1>5, <1>8 DEF Runs
<1>12. ASSUME NEW c \in Calls, Acts(c)  PROVE SinkInv'
  BY <1>12, <1>6, <1>7, <1>9 DEF Acts, Begins, CallGoesOn
<1> QED  BY StepCases, <1>10, <1>11, <1>12

LEMMA OwedStep == IInv /\ [Next]_vars => OwedInv'
<1> SUFFICES ASSUME TypeOK, OriginInv, HandInv, MapsInv, OwedInv, [Next]_vars  PROVE OwedInv'
  BY DEF IInv
<1> USE ChannelClientAssumption DEF TypeOK, OriginInv, HandInv, MapsInv, OwedInv,
   Reliable, Begun, Events, Event, reader, fanOut, waiting, calls, life, vars
<1>1. CASE Close
  BY <1>1 DEF Close
<1>2. CASE WorkerHalts
  BY <1>2 DEF WorkerHalts
<1>3. CASE WorkerEnds
  BY <1>3 DEF WorkerEnds
<1>4. ASSUME NEW e \in due, ReadToSink(e)  PROVE OwedInv'
  BY <1>4 DEF ReadToSink, CanRead
<1>5. ASSUME NEW e \in due, ReadToCall(e)  PROVE OwedInv'
  BY <1>5 DEF ReadToCall, CanRead
<1>6. ASSUME NEW c \in Calls, NEW a \in Subscribing, Subscribe(c, a)  PROVE OwedInv'
  BY <1>6 DEF Subscribe, Begin, Subscribing
<1>7. ASSUME NEW c \in Calls, BlockingSendReliableMessage(c)  PROVE OwedInv'
  BY <1>7 DEF BlockingSendReliableMessage, Begin
<1>8. ASSUME NEW c \in Calls, NEW a \in Unawaited, Unasked(c, a)  PROVE OwedInv'
  <2>1. api'[c] # "reliable" /\ \A d \in Calls : d # c => api'[d] = api[d] /\ pc'[d] = pc[d]
    <3>1. /\ api' = [api EXCEPT ![c] = a] /\ pc' = [pc EXCEPT ![c] = "returned"]
          /\ a # "reliable"
      BY <1>8 DEF Unasked, Begin, Unawaited
    <3>2. api \in [Calls -> Apis] /\ pc \in [Calls -> Steps]
      OBVIOUS
    <3> HIDE DEF TypeOK, OriginInv, HandInv, MapsInv, OwedInv
    <3> QED  BY <3>1, <3>2
  <2>2. \A d \in Calls \ {c}, k \in {"sent", "reply"} : Event(k, d) \in due' => Event(k, d) \in due
    BY <1>8 DEF Unasked, Begin
  <2>3. UNCHANGED <<gaveUp, halted>>
    BY <1>8 DEF Unasked, Begin
  <2> QED  BY <2>1, <2>2, <2>3
<1>9. ASSUME NEW c \in Calls, WriteMessage(c)  PROVE OwedInv'
  BY <1>9 DEF WriteMessage, Answers
<1>10. ASSUME NEW c \in Calls, WriteFails(c)  PROVE OwedInv'
  BY <1>10 DEF WriteFails, Ending, Reliable
<1>11. ASSUME NEW c \in Calls, Receive(c)  PROVE OwedInv'
  BY <1>11 DEF Receive
<1>12. ASSUME NEW c \in Calls, TimesOut(c)  PROVE OwedInv'
  BY <1>12 DEF TimesOut, Ending, Reliable
<1>13. ASSUME NEW c \in Calls, SeesHalt(c)  PROVE OwedInv'
  BY <1>13 DEF SeesHalt, Ending, Reliable
<1>14. ASSUME NEW c \in Calls, Unregister(c)  PROVE OwedInv'
  BY <1>14 DEF Unregister
<1>15. ASSUME NEW c \in Calls, AddDrain(c)  PROVE OwedInv'
  BY <1>15 DEF AddDrain
<1>16. ASSUME NEW c \in Calls, RemoveDrain(c)  PROVE OwedInv'
  BY <1>16 DEF RemoveDrain
<1>17. ASSUME NEW c \in Calls, HandSent(c)  PROVE OwedInv'
  BY <1>17 DEF HandSent
<1>18. ASSUME NEW c \in Calls, HandReply(c)  PROVE OwedInv'
  BY <1>18 DEF HandReply
<1>19. CASE Dial \/ CloseEventSink \/ TakeEvent \/ Delivered \/ SinkWorkerHalts
  BY <1>19 DEF Dial, CloseEventSink, TakeEvent, Delivered, SinkWorkerHalts
<1>20. ASSUME NEW c \in Calls,
           Deliver(c) \/ DropUnresponsive(c)
     PROVE  OwedInv'
  BY <1>20 DEF Deliver, DropUnresponsive
<1>21. CASE UNCHANGED vars
  BY <1>21
<1> HIDE DEF TypeOK, OriginInv, HandInv, MapsInv, OwedInv, Reliable, Begun, Events,
   Event, reader, fanOut, waiting, calls, life, vars
<1>22. CASE Runs
  BY <1>22, <1>1, <1>2, <1>3, <1>4, <1>5, <1>19 DEF Runs
<1>23. ASSUME NEW c \in Calls, Acts(c)  PROVE OwedInv'
  BY <1>23, <1>6, <1>7, <1>8, <1>9, <1>10, <1>11, <1>12, <1>13, <1>14, <1>15, <1>16,
     <1>17, <1>18, <1>20 DEF Acts, Begins, CallGoesOn
<1> QED  BY StepCases, <1>21, <1>22, <1>23

-----------------------------------------------------------------------------
(* The properties.                                                         *)

LEMMA BlockedStep == IInv /\ [Next]_vars => BlockedByGiveUp'
<1> SUFFICES ASSUME TypeOK, OriginInv, HandInv, MapsInv, OwedInv, BlockedByGiveUp, [Next]_vars  PROVE BlockedByGiveUp'
  BY DEF IInv
<1> USE ChannelClientAssumption DEF TypeOK, OriginInv, HandInv, MapsInv, OwedInv,
   BlockedByGiveUp, Reliable, Begun, Events, Event, NoEvent, reader, fanOut, waiting,
   calls, life, vars
<1>1. CASE Close
  BY <1>1 DEF Close
<1>2. CASE WorkerHalts
  BY <1>2 DEF WorkerHalts
<1>3. CASE WorkerEnds
  BY <1>3 DEF WorkerEnds
<1>4. ASSUME NEW e \in due, ReadToCall(e)  PROVE BlockedByGiveUp'
  <2>1. /\ hand' = e /\ worker' = e.kind /\ e \in due
        /\ UNCHANGED <<pc, api, gaveUp, halted>> /\ Waited(e)
    BY <1>4 DEF ReadToCall, CanRead
  <2>2. e.kind \in {"sent", "reply"} /\ e.of \in Calls /\ e = Event(e.kind, e.of)
    BY <2>1, EventFacts
  <2>3. Reliable(e.of)
    BY <2>1, <2>2 DEF Waited
  <2>4. \/ e.of \in gaveUp \/ halted
        \/ e.kind = "sent" /\ pc[e.of] = "waitSent"
        \/ e.kind = "reply" /\ pc[e.of] \in {"waitSent", "waitReply"}
    <3>1. CASE e.kind = "sent"
      BY <2>1, <2>2, <2>3, <3>1
    <3>2. CASE e.kind = "reply"
      BY <2>1, <2>2, <2>3, <3>2
    <3> QED  BY <2>2, <3>1, <3>2
  <2> HIDE DEF TypeOK, OriginInv, HandInv, MapsInv, OwedInv
  <2> QED  BY <2>1, <2>4
<1>5. ASSUME NEW c \in Calls, NEW a \in Subscribing, Subscribe(c, a)  PROVE BlockedByGiveUp'
  BY <1>5 DEF Subscribe, Begin, Subscribing
<1>6. ASSUME NEW c \in Calls, BlockingSendReliableMessage(c)  PROVE BlockedByGiveUp'
  BY <1>6 DEF BlockingSendReliableMessage, Begin
<1>7. ASSUME NEW c \in Calls, NEW a \in Unawaited, Unasked(c, a)  PROVE BlockedByGiveUp'
  <2>1. \A d \in Calls : pc[d] \in Begun => d # c /\ pc'[d] = pc[d]
    BY <1>7 DEF Unasked, Begin
  <2> QED  BY <1>7, <2>1 DEF Unasked, Begin
<1>8. ASSUME NEW c \in Calls, WriteMessage(c)  PROVE BlockedByGiveUp'
  BY <1>8 DEF WriteMessage, Answers
<1>9. ASSUME NEW c \in Calls, WriteFails(c)  PROVE BlockedByGiveUp'
  BY <1>9 DEF WriteFails, Ending, Reliable
<1>10. ASSUME NEW c \in Calls, Receive(c)  PROVE BlockedByGiveUp'
  BY <1>10 DEF Receive
<1>11. ASSUME NEW c \in Calls, TimesOut(c)  PROVE BlockedByGiveUp'
  BY <1>11 DEF TimesOut, Ending, Reliable
<1>12. ASSUME NEW c \in Calls, SeesHalt(c)  PROVE BlockedByGiveUp'
  BY <1>12 DEF SeesHalt, Ending, Reliable
<1>13. ASSUME NEW c \in Calls, Unregister(c)  PROVE BlockedByGiveUp'
  BY <1>13 DEF Unregister
<1>14. ASSUME NEW c \in Calls, AddDrain(c)  PROVE BlockedByGiveUp'
  BY <1>14 DEF AddDrain
<1>15. ASSUME NEW c \in Calls, RemoveDrain(c)  PROVE BlockedByGiveUp'
  BY <1>15 DEF RemoveDrain
<1>16. ASSUME NEW c \in Calls, HandSent(c)  PROVE BlockedByGiveUp'
  BY <1>16 DEF HandSent
<1>17. ASSUME NEW c \in Calls, HandReply(c)  PROVE BlockedByGiveUp'
  BY <1>17 DEF HandReply
<1>18. CASE \/ Dial \/ CloseEventSink \/ TakeEvent \/ Delivered \/ SinkWorkerHalts
           \/ \E e \in due : ReadToSink(e)
  BY <1>18 DEF Dial, CloseEventSink, TakeEvent, Delivered, SinkWorkerHalts, ReadToSink
<1>19. ASSUME NEW c \in Calls,
           Deliver(c) \/ DropUnresponsive(c)
     PROVE  BlockedByGiveUp'
  BY <1>19 DEF Deliver, DropUnresponsive
<1>20. CASE UNCHANGED vars
  BY <1>20
<1> HIDE DEF TypeOK, OriginInv, HandInv, MapsInv, OwedInv, BlockedByGiveUp, Reliable,
   Begun, Events, Event, NoEvent, reader, fanOut, waiting, calls, life, vars
<1>21. CASE Runs
  BY <1>21, <1>1, <1>2, <1>3, <1>4, <1>18 DEF Runs
<1>22. ASSUME NEW c \in Calls, Acts(c)  PROVE BlockedByGiveUp'
  BY <1>22, <1>5, <1>6, <1>7, <1>8, <1>9, <1>10, <1>11, <1>12, <1>13, <1>14, <1>15,
     <1>16, <1>17, <1>19 DEF Acts, Begins, CallGoesOn
<1> QED  BY StepCases, <1>20, <1>21, <1>22

LEMMA OwnStep == IInv /\ [Next]_vars => OwnReply'
<1> SUFFICES ASSUME TypeOK, HandInv, OwnReply, [Next]_vars  PROVE OwnReply'
  BY DEF IInv
<1> USE ChannelClientAssumption DEF TypeOK, HandInv, OwnReply, reader, fanOut, waiting,
   calls, life, vars
<1>1. ASSUME NEW c \in Calls, NEW a \in Subscribing, Subscribe(c, a)  PROVE OwnReply'
  BY <1>1 DEF Subscribe, Begin, Subscribing
<1>2. ASSUME NEW c \in Calls, BlockingSendReliableMessage(c)  PROVE OwnReply'
  BY <1>2 DEF BlockingSendReliableMessage, Begin
<1>3. ASSUME NEW c \in Calls, NEW a \in Unawaited, Unasked(c, a)  PROVE OwnReply'
  BY <1>3 DEF Unasked, Begin, Unawaited
<1>4. ASSUME NEW c \in Calls, Receive(c)  PROVE OwnReply'
  BY <1>4 DEF Receive, Matches
<1>5. ASSUME NEW c \in Calls, HandReply(c)  PROVE OwnReply'
  BY <1>5 DEF HandReply
<1>6. CASE \/ Dial \/ Close \/ CloseEventSink \/ WorkerHalts \/ WorkerEnds
                \/ TakeEvent \/ Delivered \/ SinkWorkerHalts
           \/ \E e \in due : ReadToSink(e) \/ ReadToCall(e)
  BY <1>6 DEF Dial, Close, CloseEventSink, WorkerHalts, WorkerEnds, TakeEvent,
     Delivered, SinkWorkerHalts, ReadToSink, ReadToCall
<1>7. ASSUME NEW c \in Calls,
           WriteMessage(c) \/ WriteFails(c) \/ TimesOut(c) \/ SeesHalt(c)
              \/ Unregister(c) \/ AddDrain(c) \/ RemoveDrain(c) \/ HandSent(c)
              \/ Deliver(c) \/ DropUnresponsive(c)
     PROVE  OwnReply'
  BY <1>7 DEF WriteMessage, WriteFails, TimesOut, SeesHalt, Unregister, AddDrain,
     RemoveDrain, HandSent, Deliver, DropUnresponsive
<1>8. CASE UNCHANGED vars
  BY <1>8
<1> HIDE DEF TypeOK, HandInv, OwnReply, reader, fanOut, waiting, calls, life, vars
<1>9. CASE Runs
  BY <1>9, <1>6 DEF Runs
<1>10. ASSUME NEW c \in Calls, Acts(c)  PROVE OwnReply'
  BY <1>10, <1>1, <1>2, <1>3, <1>4, <1>5, <1>7 DEF Acts, Begins, CallGoesOn
<1> QED  BY StepCases, <1>8, <1>9, <1>10

LEMMA ReplyStep == IInv /\ [Next]_vars => ReplyNotMissed'
<1> SUFFICES ASSUME TypeOK, OriginInv, HandInv, MapsInv, SinkInv, ReplyNotMissed, [Next]_vars  PROVE ReplyNotMissed'
  BY DEF IInv
<1> USE ChannelClientAssumption DEF TypeOK, OriginInv, HandInv, MapsInv, SinkInv,
   ReplyNotMissed, OnItsWay, Waits, Reliable, Begun, Events, Event, NoEvent, reader,
   fanOut, waiting, calls, life, vars
<1>1. CASE Dial
  BY <1>1 DEF Dial
<1>2. CASE Close
  BY <1>2 DEF Close
<1>3. CASE CloseEventSink
  BY <1>3 DEF CloseEventSink
<1>4. CASE WorkerHalts
  BY <1>4 DEF WorkerHalts
<1>5. CASE WorkerEnds
  BY <1>5 DEF WorkerEnds
<1>6. CASE TakeEvent
<2> SUFFICES ASSUME NEW c \in Calls, (Waits(c) /\ ~halted /\ (Reliable(c)
                \/ c \in drains))'
               PROVE  OnItsWay(c)'
    BY DEF ReplyNotMissed
  <2>1. OnItsWay(c) /\ c \in Calls
    BY <1>6 DEF TakeEvent
  <2>2. /\ eventSink \in Seq(Events) /\ eventSink # <<>> /\ copied = NoEvent
        /\ copied' = Head(eventSink) /\ eventSink' = Tail(eventSink) /\ left' = drains
        /\ UNCHANGED <<due, hand, box, api, drains>>
    BY <1>6 DEF TakeEvent
  <2>3. /\ Head(eventSink) = eventSink[1]
        /\ \A i \in DOMAIN eventSink : i # 1 =>
               i - 1 \in DOMAIN Tail(eventSink) /\ Tail(eventSink)[i - 1] = eventSink[i]
    BY <2>2, HeadAndTail
  <2>4. CASE Reliable(c) \/ Event("reply", c) \in due \/ box[c] = Event("reply", c)
    BY <2>1, <2>2, <2>4
  <2>5. ASSUME ~Reliable(c), NEW i \in DOMAIN eventSink, eventSink[i] = Event("reply", c)
        PROVE  OnItsWay(c)'
    <3>1. c \in left'
      BY <2>2, <2>5
    <3>2. CASE i = 1
      BY <2>2, <2>3, <2>5, <3>1, <3>2
    <3>3. CASE i # 1
      <4>1. i - 1 \in DOMAIN eventSink' /\ eventSink'[i - 1] = Event("reply", c)
        BY <2>2, <2>3, <2>5, <3>3
      <4>2. ~Reliable(c)'
        BY <2>2, <2>5
      <4> QED  BY <4>1, <4>2
    <3> QED  BY <3>2, <3>3
  <2> QED  BY <2>1, <2>2, <2>4, <2>5
<1>7. CASE Delivered
  BY <1>7 DEF Delivered
<1>8. CASE SinkWorkerHalts
  BY <1>8 DEF SinkWorkerHalts
<1>9. ASSUME NEW e \in due, ReadToSink(e)  PROVE ReplyNotMissed'
<2> SUFFICES ASSUME NEW c \in Calls, (Waits(c) /\ ~halted /\ (Reliable(c)
                \/ c \in drains))'
               PROVE  OnItsWay(c)'
    BY DEF ReplyNotMissed
  <2>1. OnItsWay(c) /\ (Reliable(c) => c \in replyWaitChanMap)
    BY <1>9 DEF ReadToSink
  <2>2. /\ e \in Events /\ e.kind \in {"sent", "reply"} /\ eventSink \in Seq(Events)
        /\ due' = due \ {e} /\ eventSink' = Append(eventSink, e)
        /\ UNCHANGED <<hand, box, api, left, copied>> /\ ~Waited(e)
    BY <1>9 DEF ReadToSink, CanRead
  <2>3. /\ \A i \in DOMAIN eventSink : i \in DOMAIN eventSink' /\ eventSink'[i] = eventSink[i]
        /\ \E i \in DOMAIN eventSink' : eventSink'[i] = e
    <3> DEFINE longer == Append(eventSink, e)
    <3>1. /\ \A i \in DOMAIN eventSink : i \in DOMAIN longer /\ longer[i] = eventSink[i]
          /\ \E i \in DOMAIN longer : longer[i] = e
      <4> HIDE DEF TypeOK, OriginInv, HandInv, MapsInv, SinkInv, ReplyNotMissed, Events
      <4> QED  BY <2>2, Appended
    <3>2. eventSink' = longer
      BY <2>2
    <3> HIDE DEF longer, TypeOK, OriginInv, HandInv, MapsInv, SinkInv, ReplyNotMissed
    <3> QED  BY <3>1, <3>2
  <2>4. e = Event("reply", c) => ~Reliable(c)
    BY <2>1, <2>2 DEF Waited
  <2> QED  BY <2>1, <2>2, <2>3, <2>4
<1>10. ASSUME NEW e \in due, ReadToCall(e)  PROVE ReplyNotMissed'
  BY <1>10 DEF ReadToCall, CanRead, Waited
<1>11. ASSUME NEW c \in Calls, NEW a \in Subscribing, Subscribe(c, a)  PROVE ReplyNotMissed'
  BY <1>11 DEF Subscribe, Begin, Subscribing
<1>12. ASSUME NEW c \in Calls, BlockingSendReliableMessage(c)  PROVE ReplyNotMissed'
  BY <1>12 DEF BlockingSendReliableMessage, Begin
<1>13. ASSUME NEW c \in Calls, NEW a \in Unawaited, Unasked(c, a)  PROVE ReplyNotMissed'
  <2>1. /\ pc[c] = "idle" /\ api' = [api EXCEPT ![c] = a]
        /\ pc' = [pc EXCEPT ![c] = "returned"] /\ due \subseteq due'
        /\ UNCHANGED <<hand, eventSink, copied, left, drains, box, halted>>
    BY <1>13 DEF Unasked, Begin
  <2>2. SUFFICES ASSUME NEW d \in Calls, (Waits(d) /\ ~halted /\ (Reliable(d) \/ d \in drains))'
                 PROVE  OnItsWay(d)'
    OBVIOUS
  <2>3. d # c
    BY <2>1, <2>2
  <2>4. pc'[d] = pc[d] /\ api'[d] = api[d]
    BY <2>1, <2>3
  <2>5. OnItsWay(d)
    BY <2>1, <2>2, <2>4
  <2> HIDE DEF TypeOK, OriginInv, HandInv, MapsInv, SinkInv, ReplyNotMissed
  <2> QED  BY <2>1, <2>4, <2>5
<1>14. ASSUME NEW c \in Calls, WriteMessage(c)  PROVE ReplyNotMissed'
  BY <1>14 DEF WriteMessage, Answers
<1>15. ASSUME NEW c \in Calls, WriteFails(c)  PROVE ReplyNotMissed'
  BY <1>15 DEF WriteFails, Ending, Reliable
<1>16. ASSUME NEW c \in Calls, Receive(c)  PROVE ReplyNotMissed'
  BY <1>16 DEF Receive, Matches
<1>17. ASSUME NEW c \in Calls, TimesOut(c)  PROVE ReplyNotMissed'
  BY <1>17 DEF TimesOut, Ending, Reliable
<1>18. ASSUME NEW c \in Calls, SeesHalt(c)  PROVE ReplyNotMissed'
  BY <1>18 DEF SeesHalt, Ending, Reliable
<1>19. ASSUME NEW c \in Calls, Unregister(c)  PROVE ReplyNotMissed'
  BY <1>19 DEF Unregister
<1>20. ASSUME NEW c \in Calls, AddDrain(c)  PROVE ReplyNotMissed'
  BY <1>20 DEF AddDrain
<1>21. ASSUME NEW c \in Calls, RemoveDrain(c)  PROVE ReplyNotMissed'
  BY <1>21 DEF RemoveDrain
<1>22. ASSUME NEW c \in Calls, HandSent(c)  PROVE ReplyNotMissed'
  BY <1>22 DEF HandSent
<1>23. ASSUME NEW c \in Calls, HandReply(c)  PROVE ReplyNotMissed'
  BY <1>23 DEF HandReply
<1>24. ASSUME NEW c \in Calls, Deliver(c)  PROVE ReplyNotMissed'
  BY <1>24 DEF Deliver
<1>25. ASSUME NEW c \in Calls, DropUnresponsive(c)  PROVE ReplyNotMissed'
  BY <1>25 DEF DropUnresponsive
<1>26. CASE UNCHANGED vars
  BY <1>26
<1> HIDE DEF TypeOK, OriginInv, HandInv, MapsInv, SinkInv, ReplyNotMissed, OnItsWay,
   Waits, Reliable, Begun, Events, Event, NoEvent, reader, fanOut, waiting, calls,
   life, vars
<1>27. CASE Runs
  BY <1>27, <1>1, <1>2, <1>3, <1>4, <1>5, <1>6, <1>7, <1>8, <1>9, <1>10 DEF Runs
<1>28. ASSUME NEW c \in Calls, Acts(c)  PROVE ReplyNotMissed'
  BY <1>28, <1>11, <1>12, <1>13, <1>14, <1>15, <1>16, <1>17, <1>18, <1>19, <1>20,
     <1>21, <1>22, <1>23, <1>24, <1>25 DEF Acts, Begins, CallGoesOn
<1> QED  BY StepCases, <1>26, <1>27, <1>28

LEMMA PanicStep == IInv /\ [Next]_vars => PanicOnlyMixed'
<1> SUFFICES ASSUME TypeOK, OriginInv, PanicOnlyMixed, [Next]_vars  PROVE PanicOnlyMixed'
  BY DEF IInv
<1> USE ChannelClientAssumption DEF TypeOK, OriginInv, PanicOnlyMixed, ChannelApi,
   Begun, reader, fanOut, waiting, calls, life, vars
<1>1. ASSUME NEW c \in Calls, NEW a \in Subscribing, Subscribe(c, a)  PROVE PanicOnlyMixed'
  BY <1>1 DEF Subscribe, Begin, Subscribing
<1>2. ASSUME NEW c \in Calls, BlockingSendReliableMessage(c)  PROVE PanicOnlyMixed'
  BY <1>2 DEF BlockingSendReliableMessage, Begin
<1>3. ASSUME NEW c \in Calls, NEW a \in Unawaited, Unasked(c, a)  PROVE PanicOnlyMixed'
  BY <1>3 DEF Unasked, Begin, Unawaited
<1>4. ASSUME NEW c \in Calls, WriteMessage(c)  PROVE PanicOnlyMixed'
  BY <1>4 DEF WriteMessage, Answers
<1>5. ASSUME NEW c \in Calls, WriteFails(c)  PROVE PanicOnlyMixed'
  BY <1>5 DEF WriteFails, Ending, Reliable
<1>6. ASSUME NEW c \in Calls, Receive(c)  PROVE PanicOnlyMixed'
  <2> box[c] \in Events
    BY <1>6 DEF Receive
  <2>1. box[c].of \in Calls
    BY EventFacts, box[c] \in Events
  <2>2. /\ \A d \in Calls : d # c => pc'[d] = pc[d]
        /\ pc'[c] = "panic" => Impossible(c, box[c])
        /\ pc[c] = "wait" /\ pc'[c] # "idle" /\ UNCHANGED api
    BY <1>6 DEF Receive
  <2>3. pc[box[c].of] # "idle"
    BY <1>6 DEF Receive
  <2>4. \A d \in Calls : pc[d] # "idle" => pc'[d] # "idle"
    BY <2>2
  <2> HIDE DEF TypeOK, OriginInv
  <2>5. CASE pc'[c] = "panic"
    BY <2>1, <2>2, <2>3, <2>4, <2>5 DEF Impossible
  <2>6. CASE pc'[c] # "panic"
    BY <2>2, <2>4, <2>6
  <2> QED  BY <2>5, <2>6
<1>7. ASSUME NEW c \in Calls, TimesOut(c)  PROVE PanicOnlyMixed'
  BY <1>7 DEF TimesOut, Ending, Reliable
<1>8. ASSUME NEW c \in Calls, SeesHalt(c)  PROVE PanicOnlyMixed'
  BY <1>8 DEF SeesHalt, Ending, Reliable
<1>9. ASSUME NEW c \in Calls, Unregister(c)  PROVE PanicOnlyMixed'
  BY <1>9 DEF Unregister
<1>10. ASSUME NEW c \in Calls, AddDrain(c)  PROVE PanicOnlyMixed'
  BY <1>10 DEF AddDrain
<1>11. ASSUME NEW c \in Calls, RemoveDrain(c)  PROVE PanicOnlyMixed'
  BY <1>11 DEF RemoveDrain
<1>12. ASSUME NEW c \in Calls, HandSent(c)  PROVE PanicOnlyMixed'
  <2>1. /\ \E p \in {"waitReply", "unregister"} : pc' = [pc EXCEPT ![c] = p]
        /\ UNCHANGED api
    BY <1>12 DEF HandSent
  <2>2. \A d \in Calls : /\ pc'[d] = "panic" => pc[d] = "panic"
                         /\ pc[d] # "idle" => pc'[d] # "idle"
    BY <2>1
  <2> HIDE DEF TypeOK, OriginInv
  <2> QED  BY <2>1, <2>2
<1>13. ASSUME NEW c \in Calls, HandReply(c)  PROVE PanicOnlyMixed'
  BY <1>13 DEF HandReply
<1>14. CASE \/ Dial \/ Close \/ CloseEventSink \/ WorkerHalts \/ WorkerEnds
                \/ TakeEvent \/ Delivered \/ SinkWorkerHalts
           \/ \E e \in due : ReadToSink(e) \/ ReadToCall(e)
  BY <1>14 DEF Dial, Close, CloseEventSink, WorkerHalts, WorkerEnds, TakeEvent,
     Delivered, SinkWorkerHalts, ReadToSink, ReadToCall
<1>15. ASSUME NEW c \in Calls,
           Deliver(c) \/ DropUnresponsive(c)
     PROVE  PanicOnlyMixed'
  BY <1>15 DEF Deliver, DropUnresponsive
<1>16. CASE UNCHANGED vars
  BY <1>16
<1> HIDE DEF TypeOK, OriginInv, PanicOnlyMixed, ChannelApi, Begun, reader, fanOut,
   waiting, calls, life, vars
<1>17. CASE Runs
  BY <1>17, <1>14 DEF Runs
<1>18. ASSUME NEW c \in Calls, Acts(c)  PROVE PanicOnlyMixed'
  BY <1>18, <1>1, <1>2, <1>3, <1>4, <1>5, <1>6, <1>7, <1>8, <1>9, <1>10, <1>11, <1>12,
     <1>13, <1>15 DEF Acts, Begins, CallGoesOn
<1> QED  BY StepCases, <1>16, <1>17, <1>18

LEMMA ClosedStep == IInv /\ [Next]_vars => NoSendOnClosed'
<1> SUFFICES ASSUME NoSendOnClosed, [Next]_vars  PROVE NoSendOnClosed'
  BY DEF IInv
<1> USE DEF NoSendOnClosed, reader, fanOut, waiting, calls, life, vars
<1>1. CASE Dial
  BY <1>1 DEF Dial
<1>2. CASE Close
  BY <1>2 DEF Close
<1>3. CASE CloseEventSink
  BY <1>3 DEF CloseEventSink
<1>4. CASE WorkerHalts
  BY <1>4 DEF WorkerHalts
<1>5. CASE WorkerEnds
  BY <1>5 DEF WorkerEnds
<1>6. CASE TakeEvent
  BY <1>6 DEF TakeEvent
<1>7. CASE Delivered
  BY <1>7 DEF Delivered
<1>8. CASE SinkWorkerHalts
  BY <1>8 DEF SinkWorkerHalts
<1>9. ASSUME NEW e \in due, ReadToSink(e)  PROVE NoSendOnClosed'
  BY <1>9 DEF ReadToSink, CanRead
<1>10. ASSUME NEW e \in due, ReadToCall(e)  PROVE NoSendOnClosed'
  BY <1>10 DEF ReadToCall, CanRead
<1>11. ASSUME NEW c \in Calls, NEW a \in Subscribing, Subscribe(c, a)  PROVE NoSendOnClosed'
  BY <1>11 DEF Subscribe, Begin, Subscribing
<1>12. ASSUME NEW c \in Calls, BlockingSendReliableMessage(c)  PROVE NoSendOnClosed'
  BY <1>12 DEF BlockingSendReliableMessage, Begin
<1>13. ASSUME NEW c \in Calls, NEW a \in Unawaited, Unasked(c, a)  PROVE NoSendOnClosed'
  BY <1>13 DEF Unasked, Begin, Unawaited
<1>14. ASSUME NEW c \in Calls, HandSent(c)  PROVE NoSendOnClosed'
  BY <1>14 DEF HandSent
<1>15. ASSUME NEW c \in Calls, HandReply(c)  PROVE NoSendOnClosed'
  BY <1>15 DEF HandReply
<1>16. ASSUME NEW c \in Calls,
           WriteMessage(c) \/ WriteFails(c) \/ Receive(c) \/ TimesOut(c)
              \/ SeesHalt(c) \/ Unregister(c) \/ AddDrain(c) \/ RemoveDrain(c)
              \/ Deliver(c) \/ DropUnresponsive(c)
     PROVE  NoSendOnClosed'
  BY <1>16 DEF WriteMessage, WriteFails, Receive, TimesOut, SeesHalt, Unregister,
     AddDrain, RemoveDrain, Deliver, DropUnresponsive
<1>17. CASE UNCHANGED vars
  BY <1>17
<1> HIDE DEF NoSendOnClosed, reader, fanOut, waiting, calls, life, vars
<1>18. CASE Runs
  BY <1>18, <1>1, <1>2, <1>3, <1>4, <1>5, <1>6, <1>7, <1>8, <1>9, <1>10 DEF Runs
<1>19. ASSUME NEW c \in Calls, Acts(c)  PROVE NoSendOnClosed'
  BY <1>19, <1>11, <1>12, <1>13, <1>14, <1>15, <1>16 DEF Acts, Begins, CallGoesOn
<1> QED  BY StepCases, <1>17, <1>18, <1>19

-----------------------------------------------------------------------------

LEMMA InductiveStep == IInv /\ [Next]_vars => IInv'
  BY TypeStep, OriginStep, HandStep, MapsStep, SinkStep, OwedStep, BlockedStep,
     OwnStep, ReplyStep, PanicStep, ClosedStep, Zenon DEF IInv

(* The inductive invariant, for every behaviour of the client.             *)
THEOREM Invariance == Spec => []IInv
  BY InitInvariant, InductiveStep, PTL DEF Spec

(* Types: the channels keep their capacities, and what is still to be      *)
(* delivered goes to subscribed drains only.                               *)
THEOREM TypeCorrect == Spec => []TypeOK
<1>1. IInv => TypeOK
  BY DEF IInv
<1> QED  BY <1>1, Invariance, PTL

(* No call returns the reply to another call.                              *)
THEOREM RepliesAreOwn == Spec => []OwnReply
<1>1. IInv => OwnReply
  BY DEF IInv
<1> QED  BY <1>1, Invariance, PTL

(* The reply to a waiting call is owed by the daemon or on its way to it.  *)
THEOREM NoReplyMissed == Spec => []ReplyNotMissed
<1>1. IInv => ReplyNotMissed
  BY DEF IInv
<1> QED  BY <1>1, Invariance, PTL

(* The worker blocks only on a call whose context was done.                *)
THEOREM OnlyGiveUpBlocks == Spec => []BlockedByGiveUp
<1>1. IInv => BlockedByGiveUp
  BY DEF IInv
<1> QED  BY <1>1, Invariance, PTL

(* The panic of BlockingSendMessage needs a use of the channel API.        *)
THEOREM PanicNeedsChannelApi == Spec => []PanicOnlyMixed
<1>1. IInv => PanicOnlyMixed
  BY DEF IInv
<1> QED  BY <1>1, Invariance, PTL

(* eventSink is closed after its senders have ended.                       *)
THEOREM ClosedAfterSenders == Spec => []NoSendOnClosed
<1>1. IInv => NoSendOnClosed
  BY DEF IInv
<1> QED  BY <1>1, Invariance, PTL
=============================================================================
