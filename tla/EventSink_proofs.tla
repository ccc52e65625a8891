--------------------------- MODULE EventSink_proofs ---------------------------
(***************************************************************************)
(* Proofs about EventSink, for every set of callers, every capacity of     *)
(* eventSink and any number of events.                                     *)
(***************************************************************************)
EXTENDS EventSink, SequenceTheorems, TLAPS

(* Who is subscribed, and what a caller starts with.                       *)
CallInv ==
    /\ \A c \in Callers : c \in drains <=> call[c] \in {"writing", "waiting", "stopping"}
    /\ \A c \in Callers : call[c] \in {"idle", "adding"} => got[c] = <<>> /\ drain[c] = <<>>

(* The reader holds at most the one event it has not pushed.               *)
ReaderInv ==
    /\ reader = "read" => pushed = read
    /\ reader = "push" => read = pushed + 1

(* The worker only holds an event while it delivers it, and a subscriber   *)
(* joined before the event it is about to get.                             *)
WorkerInv ==
    /\ sinkWorker = "select" => todo = {}
    /\ \A c \in drains : joined[c] <= Upto(c)

(* NoSilentLoss, event by event.                                           *)
GapFree ==
    \A c \in drains :
        /\ Len(got[c]) + Len(drain[c]) = Upto(c) - joined[c]
        /\ \A i \in 1..Len(got[c]) : got[c][i] = joined[c] + i
        /\ drain[c] # <<>> => drain[c][1] = joined[c] + Len(got[c]) + 1

(* No reply comes before its request.                                      *)
ReplyInv ==
    \A c \in Callers : call[c] \in {"idle", "adding", "writing"} =>
        c \notin asked /\ \A i \in DOMAIN sent : sent[i] # c

IInv == TypeOK /\ CallInv /\ ReaderInv /\ WorkerInv /\ GapFree /\ ReplyInv /\ ReplyNotMissed

LEMMA InitInvariant == Init => IInv
<1> SUFFICES ASSUME Init  PROVE IInv
  OBVIOUS
<1>1. TypeOK
  <2>1. sent \in Seq(Callers \cup {Nobody}) /\ Len(sent) = 0
    BY DEF Init
  <2>2. drain \in [Callers -> Seq(Positions)] /\ \A c \in Callers : Len(drain[c]) <= 1
    BY DEF Init
  <2>3. got \in [Callers -> Seq(Positions)]
    BY DEF Init
  <2>4. call \in [Callers -> Steps] /\ joined \in [Callers -> Progress]
    BY EventSinkAssumption DEF Init, Steps, Progress
  <2>5. /\ Len(sent) \in Progress /\ read \in 0..Len(sent)
        /\ pushed \in 0..read /\ read <= pushed + 1
        /\ taken \in 0..pushed /\ pushed <= taken + EventSinkCap
    BY <2>1, EventSinkAssumption DEF Init, Progress
  <2> QED  BY <2>1, <2>2, <2>3, <2>4, <2>5 DEF Init, TypeOK
<1>2. CallInv /\ ReaderInv /\ WorkerInv /\ GapFree
  BY DEF Init, CallInv, ReaderInv, WorkerInv, GapFree
<1>3. ReplyInv /\ ReplyNotMissed
  BY DEF Init, ReplyInv, ReplyNotMissed
<1> QED  BY <1>1, <1>2, <1>3 DEF IInv

(* The events a subscriber has seen are a segment of those taken.          *)
LEMMA GapFreeIsNoSilentLoss ==
    ASSUME IInv  PROVE NoSilentLoss
<1> SUFFICES ASSUME NEW c \in drains
             PROVE  got[c] \o drain[c]
                        = [i \in 1..(Upto(c) - joined[c]) |-> joined[c] + i]
  BY DEF NoSilentLoss
<1>1. /\ c \in Callers /\ got[c] \in Seq(Positions)
      /\ drain[c] \in Seq(Positions) /\ Len(drain[c]) <= 1
      /\ joined[c] \in Nat /\ Upto(c) - joined[c] \in Nat
  BY EventSinkAssumption DEF IInv, TypeOK, WorkerInv, Upto, Progress
<1>2. /\ Len(got[c]) + Len(drain[c]) = Upto(c) - joined[c]
      /\ \A i \in 1..Len(got[c]) : got[c][i] = joined[c] + i
      /\ drain[c] # <<>> => drain[c][1] = joined[c] + Len(got[c]) + 1
  BY DEF IInv, GapFree
<1>3. CASE drain[c] = <<>>
  <2>1. got[c] \o drain[c] = got[c]
    BY <1>1, <1>3
  <2>2. Len(drain[c]) = 0 /\ Len(got[c]) \in Nat
    BY <1>1, <1>3
  <2>3. Upto(c) - joined[c] = Len(got[c])
    BY <1>2, <2>2
  <2>4. got[c] = [i \in 1..Len(got[c]) |-> got[c][i]]
    BY <1>1
  <2>5. [i \in 1..Len(got[c]) |-> got[c][i]]
            = [i \in 1..Len(got[c]) |-> joined[c] + i]
    BY <1>2, Zenon
  <2> QED  BY <2>1, <2>3, <2>4, <2>5, Zenon
<1>4. CASE drain[c] # <<>>
  <2>1. PICK p \in Positions : drain[c] = <<p>>
    BY <1>1, <1>4
  <2>2. p = joined[c] + Len(got[c]) + 1 /\ Len(drain[c]) = 1
    BY <1>2, <2>1
  <2>3. got[c] \o drain[c] = [i \in 1..(Len(got[c]) + 1) |-> IF i <= Len(got[c]) THEN got[c][i] ELSE p]
    BY <1>1, <2>1
  <2>4. Upto(c) - joined[c] = Len(got[c]) + 1
    BY <1>1, <1>2, <2>2
  <2>5. ASSUME NEW i \in 1..(Len(got[c]) + 1)
        PROVE  (IF i <= Len(got[c]) THEN got[c][i] ELSE p) = joined[c] + i
    BY <1>1, <1>2, <2>2
  <2> QED  BY <2>3, <2>4, <2>5
<1> QED  BY <1>3, <1>4

-----------------------------------------------------------------------------
(* Types.                                                                  *)

LEMMA TypeStep == IInv /\ [Next]_vars => TypeOK'
<1> SUFFICES ASSUME TypeOK, ReaderInv, WorkerInv, [Next]_vars  PROVE TypeOK'
  BY DEF IInv
<1> USE EventSinkAssumption DEF TypeOK, daemonVars, readerVars, workerVars, Progress
<1>1. ASSUME NEW d \in Callers \cup {Nobody}, DaemonSends(d)  PROVE TypeOK'
  BY <1>1 DEF DaemonSends
<1>2. CASE DaemonCloses
  BY <1>2 DEF DaemonCloses
<1>3. CASE Close
  BY <1>3 DEF Close
<1>4. CASE ReadMessage
  <2>1. /\ read' = read + 1 /\ pushed = read
        /\ UNCHANGED <<sent, pushed, taken>>
    BY <1>4 DEF ReadMessage, ReaderInv
  <2>2. read' \in 0..Len(sent) /\ pushed \in 0..read' /\ read' <= pushed + 1
    BY <1>4, <2>1 DEF ReadMessage
  <2> QED  BY <1>4, <2>1, <2>2 DEF ReadMessage
<1>5. CASE Push
  BY <1>5 DEF Push
<1>6. CASE PushHalts
  BY <1>6 DEF PushHalts
<1>7. CASE ReadFails
  BY <1>7 DEF ReadFails
<1>8. CASE WorkerTakes
  BY <1>8 DEF WorkerTakes
<1>9. CASE WorkerHalts
  BY <1>9 DEF WorkerHalts
<1>10. ASSUME NEW c \in Callers, WorkerAdds(c)  PROVE TypeOK'
  BY <1>10 DEF WorkerAdds, Steps
<1>11. ASSUME NEW c \in Callers, WorkerRemoves(c)  PROVE TypeOK'
  <2>1. todo = {}
    BY <1>11 DEF WorkerRemoves, WorkerInv
  <2> QED  BY <2>1, <1>11 DEF WorkerRemoves, Steps
<1>12. ASSUME NEW c \in Callers, Deliver(c)  PROVE TypeOK'
  <2>1. taken \in Positions
    BY <1>12 DEF Deliver, WorkerInv, Upto, Positions
  <2>2. <<taken>> \in Seq(Positions) /\ Len(<<taken>>) = 1
    BY <2>1
  <2>3. drain' \in [Callers -> Seq(Positions)] /\ \A d \in Callers : Len(drain'[d]) <= 1
    BY <1>12, <2>2 DEF Deliver
  <2> QED  BY <1>12, <2>3 DEF Deliver
<1>13. ASSUME NEW c \in Callers, StartCall(c)  PROVE TypeOK'
  BY <1>13 DEF StartCall, Steps
<1>14. ASSUME NEW c \in Callers, WriteRequest(c)  PROVE TypeOK'
  BY <1>14 DEF WriteRequest, Steps
<1>15. ASSUME NEW c \in Callers, WriteFails(c)  PROVE TypeOK'
  BY <1>15 DEF WriteFails, Steps
<1>16. ASSUME NEW c \in Callers, Receive(c)  PROVE TypeOK'
  BY <1>16 DEF Receive, Steps
<1>17. ASSUME NEW c \in Callers, GiveUp(c)  PROVE TypeOK'
  BY <1>17 DEF GiveUp, Steps
<1>18. CASE UNCHANGED vars
  BY <1>18 DEF vars
<1> QED
  BY <1>1, <1>2, <1>3, <1>4, <1>5, <1>6, <1>7, <1>8, <1>9, <1>10, <1>11, <1>12, <1>13,
     <1>14, <1>15, <1>16, <1>17, <1>18 DEF Next, Reader, CallerStep

-----------------------------------------------------------------------------
(* The invariants, one lemma each.                                         *)

LEMMA ReaderStep == IInv /\ [Next]_vars => ReaderInv'
<1> SUFFICES ASSUME IInv, [Next]_vars  PROVE ReaderInv'
  OBVIOUS
<1> USE DEF IInv, TypeOK, ReaderInv, readerVars, workerVars, daemonVars
<1>1. CASE ReadMessage
  BY <1>1 DEF ReadMessage
<1>2. CASE Push
  BY <1>2 DEF Push
<1>3. CASE PushHalts
  BY <1>3 DEF PushHalts
<1>4. CASE ReadFails
  BY <1>4 DEF ReadFails
<1>5. CASE UNCHANGED <<reader, read, pushed>>
  BY <1>5
<1> QED
  BY <1>1, <1>2, <1>3, <1>4, <1>5
     DEF Next, Reader, CallerStep, vars, DaemonSends, DaemonCloses, Close,
         WorkerTakes, WorkerHalts, WorkerAdds, WorkerRemoves, Deliver, StartCall,
         WriteRequest, WriteFails, Receive, GiveUp

LEMMA CallStep == IInv /\ [Next]_vars => CallInv'
<1> SUFFICES ASSUME IInv, [Next]_vars  PROVE CallInv'
  OBVIOUS
<1> USE DEF IInv, TypeOK, CallInv, readerVars, workerVars, daemonVars
<1>1. ASSUME NEW c \in Callers, WorkerAdds(c)  PROVE CallInv'
  BY <1>1 DEF WorkerAdds
<1>2. ASSUME NEW c \in Callers, WorkerRemoves(c)  PROVE CallInv'
  BY <1>2 DEF WorkerRemoves
<1>3. ASSUME NEW c \in Callers, Deliver(c)  PROVE CallInv'
  BY <1>3 DEF Deliver
<1>4. ASSUME NEW c \in Callers, StartCall(c)  PROVE CallInv'
  BY <1>4 DEF StartCall
<1>5. ASSUME NEW c \in Callers, WriteRequest(c)  PROVE CallInv'
  BY <1>5 DEF WriteRequest
<1>6. ASSUME NEW c \in Callers, WriteFails(c)  PROVE CallInv'
  BY <1>6 DEF WriteFails
<1>7. ASSUME NEW c \in Callers, Receive(c)  PROVE CallInv'
  BY <1>7 DEF Receive
<1>8. ASSUME NEW c \in Callers, GiveUp(c)  PROVE CallInv'
  BY <1>8 DEF GiveUp
<1>9. CASE UNCHANGED <<drains, call, got, drain>>
  BY <1>9
<1> QED
  BY <1>1, <1>2, <1>3, <1>4, <1>5, <1>6, <1>7, <1>8, <1>9
     DEF Next, Reader, CallerStep, vars, DaemonSends, DaemonCloses, Close,
         ReadMessage, Push, PushHalts, ReadFails, WorkerTakes, WorkerHalts

LEMMA WorkerStep == IInv /\ [Next]_vars => WorkerInv'
<1> SUFFICES ASSUME IInv, [Next]_vars  PROVE WorkerInv'
  OBVIOUS
<1> USE EventSinkAssumption DEF IInv, TypeOK, WorkerInv, Upto, Progress, readerVars, workerVars, daemonVars
<1>1. ASSUME NEW c \in Callers, WorkerAdds(c)  PROVE WorkerInv'
  BY <1>1 DEF WorkerAdds
<1>2. ASSUME NEW c \in Callers, WorkerRemoves(c)  PROVE WorkerInv'
  BY <1>2 DEF WorkerRemoves
<1>3. CASE WorkerTakes
  BY <1>3 DEF WorkerTakes
<1>4. CASE WorkerHalts
  BY <1>4 DEF WorkerHalts
<1>5. ASSUME NEW c \in Callers, Deliver(c)  PROVE WorkerInv'
  BY <1>5 DEF Deliver
<1>6. CASE UNCHANGED <<sinkWorker, drains, todo, joined, taken>>
  BY <1>6
<1> QED
  BY <1>1, <1>2, <1>3, <1>4, <1>5, <1>6
     DEF Next, Reader, CallerStep, vars, DaemonSends, DaemonCloses, Close,
         ReadMessage, Push, PushHalts, ReadFails, StartCall, WriteRequest,
         WriteFails, Receive, GiveUp

LEMMA FullDrain ==
    ASSUME TypeOK, NEW c \in Callers, drain[c] # <<>>
    PROVE  /\ drain[c] \in Seq(Positions) /\ Len(drain[c]) = 1
           /\ Head(drain[c]) = drain[c][1]
<1>1. drain[c] \in Seq(Positions) /\ Len(drain[c]) <= 1
  BY DEF TypeOK
<1>2. Len(drain[c]) \in Nat \ {0}
  BY <1>1, EmptySeq, Zenon
<1>3. Len(drain[c]) = 1
  <2>1. \A n \in Nat \ {0} : n <= 1 => n = 1
    OBVIOUS
  <2> QED  BY <1>1, <1>2, <2>1, Zenon
<1>4. Head(drain[c]) = drain[c][1]
  BY <1>1, <1>3
<1> QED  BY <1>1, <1>3, <1>4

LEMMA GapFreeStep == IInv /\ [Next]_vars => GapFree'
<1> SUFFICES ASSUME IInv, [Next]_vars  PROVE GapFree'
  OBVIOUS
<1> USE EventSinkAssumption DEF IInv, TypeOK, CallInv, WorkerInv, GapFree, Upto, Progress, readerVars, workerVars, daemonVars
<1>1. ASSUME NEW c \in Callers, WorkerAdds(c)  PROVE GapFree'
  BY <1>1 DEF WorkerAdds
<1>2. ASSUME NEW c \in Callers, WorkerRemoves(c)  PROVE GapFree'
  BY <1>2 DEF WorkerRemoves
<1>3. CASE WorkerTakes
  BY <1>3 DEF WorkerTakes
<1>4. ASSUME NEW c \in Callers, Deliver(c)  PROVE GapFree'
  <2>1. /\ drain' = [drain EXCEPT ![c] = <<taken>>] /\ drain[c] = <<>>
        /\ todo' = todo \ {c} /\ c \in drains
        /\ UNCHANGED <<got, joined, taken, drains>>
    <3>1. c \in todo /\ todo \subseteq drains
      BY <1>4 DEF Deliver
    <3> HIDE DEF IInv, TypeOK, CallInv, WorkerInv, GapFree
    <3> QED  BY <1>4, <3>1 DEF Deliver
  <2>2. SUFFICES ASSUME NEW d \in drains
                 PROVE  /\ Len(got[d]) + Len(drain'[d]) = Upto(d)' - joined[d]
                        /\ \A i \in 1..Len(got[d]) : got[d][i] = joined[d] + i
                        /\ drain'[d] # <<>> => drain'[d][1] = joined[d] + Len(got[d]) + 1
    BY <2>1
  <2>3. CASE d = c
    <3>1. Len(got[c]) = taken - 1 - joined[c] /\ \A i \in 1..Len(got[c]) : got[c][i] = joined[c] + i
      <4>1. /\ Len(got[c]) + Len(drain[c]) = Upto(c) - joined[c]
            /\ \A i \in 1..Len(got[c]) : got[c][i] = joined[c] + i
        BY <2>1, Zenon DEF GapFree
      <4>2. Upto(c) = taken - 1 /\ Len(drain[c]) = 0
        BY <1>4, <2>1 DEF Deliver
      <4>3. Len(got[c]) \in Nat
        BY LenProperties
      <4> QED  BY <4>1, <4>2, <4>3
    <3>2. Upto(c)' = taken
      BY <1>4, <2>1 DEF Deliver
    <3>3. drain'[c] = <<taken>> /\ Len(<<taken>>) = 1 /\ <<taken>>[1] = taken
      BY <2>1
    <3>4. Len(got[c]) + Len(drain'[c]) = Upto(c)' - joined[c]
      <4>1. joined[c] \in Nat /\ taken \in Nat /\ Len(got[c]) \in Nat
        BY LenProperties
      <4> HIDE DEF Upto, IInv
      <4> QED  BY <3>1, <3>2, <3>3, <4>1
    <3>5. drain'[c][1] = joined[c] + Len(got[c]) + 1
      <4>1. joined[c] \in Nat /\ taken \in Nat
        OBVIOUS
      <4> HIDE DEF IInv
      <4> QED  BY <3>1, <3>3, <4>1
    <3> HIDE DEF IInv, Upto
    <3> QED  BY <2>3, <3>1, <3>4, <3>5
  <2>4. CASE d # c
    <3>1. drain'[d] = drain[d] /\ (d \in todo' <=> d \in todo)
      BY <2>1, <2>4
    <3> QED  BY <2>1, <3>1
  <2> QED  BY <2>3, <2>4
<1>5. ASSUME NEW c \in Callers, Receive(c)  PROVE GapFree'
  <2>1. /\ got' = [got EXCEPT ![c] = got[c] \o drain[c]]
        /\ drain' = [drain EXCEPT ![c] = <<>>]
        /\ c \in drains /\ drain[c] # <<>>
        /\ UNCHANGED <<joined, taken, drains, todo>>
    BY <1>5 DEF Receive
  <2>2. SUFFICES ASSUME NEW d \in drains
                 PROVE  /\ Len(got'[d]) + Len(drain'[d]) = Upto(d) - joined[d]
                        /\ \A i \in 1..Len(got'[d]) : got'[d][i] = joined[d] + i
                        /\ drain'[d] # <<>> => drain'[d][1] = joined[d] + Len(got'[d]) + 1
    BY <2>1
  <2>3. CASE d = c
    <3>1. /\ Len(got[c]) + 1 = Upto(c) - joined[c]
          /\ \A i \in 1..Len(got[c]) : got[c][i] = joined[c] + i
          /\ drain[c][1] = joined[c] + Len(got[c]) + 1
          /\ Len(drain[c]) = 1
      <4>1. Len(drain[c]) = 1
        BY <2>1, FullDrain
      <4> QED  BY <2>1, <4>1
    <3>2. got'[c] = got[c] \o drain[c] /\ drain'[c] = <<>>
      BY <2>1
    <3>3. /\ Len(got'[c]) = Len(got[c]) + 1
          /\ \A i \in 1..Len(got[c]) : got'[c][i] = got[c][i]
          /\ got'[c][Len(got[c]) + 1] = drain[c][1]
      <4>1. got[c] \in Seq(Positions) /\ drain[c] \in Seq(Positions)
        OBVIOUS
      <4>2. /\ Len(got[c] \o drain[c]) = Len(got[c]) + Len(drain[c])
            /\ \A i \in 1..Len(got[c]) + Len(drain[c]) : (got[c] \o drain[c])[i] =
                  IF i <= Len(got[c]) THEN got[c][i] ELSE drain[c][i - Len(got[c])]
        BY <4>1, ConcatProperties
      <4>3. Len(got[c]) \in Nat
        BY <4>1, LenProperties
      <4> QED  BY <3>1, <3>2, <4>2, <4>3
    <3>4. Len(got[c]) \in Nat /\ Len(drain'[c]) = 0
      BY <3>2
    <3>5. ASSUME NEW i \in 1..Len(got'[c])  PROVE got'[c][i] = joined[c] + i
      <4>1. CASE i \in 1..Len(got[c])
        BY <3>1, <3>3, <4>1
      <4>2. CASE i = Len(got[c]) + 1
        BY <3>1, <3>3, <4>2
      <4>3. i \in 1..(Len(got[c]) + 1)
        BY <3>3
      <4> QED  BY <3>4, <4>1, <4>2, <4>3
    <3> QED  BY <2>3, <3>1, <3>2, <3>3, <3>4, <3>5
  <2>4. CASE d # c
    <3>1. drain'[d] = drain[d] /\ got'[d] = got[d]
      BY <2>1, <2>4
    <3> QED  BY <3>1
  <2> QED  BY <2>3, <2>4
<1>6. CASE UNCHANGED <<drains, todo, joined, taken, got, drain>>
  BY <1>6
<1> QED
  BY <1>1, <1>2, <1>3, <1>4, <1>5, <1>6
     DEF Next, Reader, CallerStep, vars, DaemonSends, DaemonCloses, Close,
         ReadMessage, Push, PushHalts, ReadFails, WorkerHalts, StartCall,
         WriteRequest, WriteFails, GiveUp

LEMMA ReplyStep == IInv /\ [Next]_vars => ReplyInv'
<1> SUFFICES ASSUME IInv, [Next]_vars  PROVE ReplyInv'
  OBVIOUS
<1> USE DEF IInv, TypeOK, ReplyInv, readerVars, workerVars, daemonVars
<1>1. ASSUME NEW d \in Callers \cup {Nobody}, DaemonSends(d)  PROVE ReplyInv'
  <2>1. /\ sent' = Append(sent, d) /\ d \in asked \cup {Nobody}
        /\ asked' = asked \ {d} /\ UNCHANGED call
    BY <1>1 DEF DaemonSends
  <2>2. SUFFICES ASSUME NEW c \in Callers, call[c] \in {"idle", "adding", "writing"}
                 PROVE  c \notin asked' /\ \A i \in DOMAIN sent' : sent'[i] # c
    BY <2>1
  <2>3. c \notin asked /\ (\A i \in 1..Len(sent) : sent[i] # c) /\ c # d
    BY <2>1, <2>2, EventSinkAssumption
  <2> QED  BY <2>1, <2>3
<1>2. ASSUME NEW c \in Callers, WorkerAdds(c)  PROVE ReplyInv'
  BY <1>2 DEF WorkerAdds
<1>3. ASSUME NEW c \in Callers, WorkerRemoves(c)  PROVE ReplyInv'
  BY <1>3 DEF WorkerRemoves
<1>4. ASSUME NEW c \in Callers, StartCall(c)  PROVE ReplyInv'
  BY <1>4 DEF StartCall
<1>5. ASSUME NEW c \in Callers, WriteRequest(c)  PROVE ReplyInv'
  BY <1>5 DEF WriteRequest
<1>6. ASSUME NEW c \in Callers, WriteFails(c)  PROVE ReplyInv'
  BY <1>6 DEF WriteFails
<1>7. ASSUME NEW c \in Callers, Receive(c)  PROVE ReplyInv'
  BY <1>7 DEF Receive
<1>8. ASSUME NEW c \in Callers, GiveUp(c)  PROVE ReplyInv'
  BY <1>8 DEF GiveUp
<1>9. CASE UNCHANGED <<sent, asked, call>>
  BY <1>9
<1> QED
  BY <1>1, <1>2, <1>3, <1>4, <1>5, <1>6, <1>7, <1>8, <1>9
     DEF Next, Reader, CallerStep, vars, DaemonCloses, Close, ReadMessage, Push,
         PushHalts, ReadFails, WorkerTakes, WorkerHalts, Deliver

LEMMA NotMissedStep == IInv /\ [Next]_vars => ReplyNotMissed'
<1> SUFFICES ASSUME IInv, [Next]_vars  PROVE ReplyNotMissed'
  OBVIOUS
<1> USE DEF IInv, TypeOK, ReplyNotMissed, readerVars, workerVars, daemonVars
<1>1. ASSUME NEW d \in Callers \cup {Nobody}, DaemonSends(d)  PROVE ReplyNotMissed'
  <2>1. sent' = Append(sent, d) /\ UNCHANGED <<call, got, joined>>
    BY <1>1 DEF DaemonSends
  <2>2. SUFFICES ASSUME NEW c \in Callers, call[c] = "waiting", NEW i \in DOMAIN sent',
                        sent'[i] = c
                 PROVE  i > joined[c] + Len(got[c])
    BY <2>1
  <2>3. i \in 1..Len(sent) + 1
    BY <2>1
  <2>4. CASE i <= Len(sent)
    BY <2>1, <2>2, <2>3, <2>4
  <2>5. CASE i = Len(sent) + 1
    <3>1. joined[c] + Len(got[c]) <= Upto(c)
      BY <2>2 DEF CallInv, GapFree, WorkerInv, Upto, Progress
    <3>2. Upto(c) <= Len(sent)
      BY DEF Upto
    <3> QED  BY <2>5, <3>1, <3>2 DEF Upto, Progress
  <2> QED  BY <2>3, <2>4, <2>5
<1>2. ASSUME NEW c \in Callers, WorkerAdds(c)  PROVE ReplyNotMissed'
  BY <1>2 DEF WorkerAdds
<1>3. ASSUME NEW c \in Callers, WorkerRemoves(c)  PROVE ReplyNotMissed'
  BY <1>3 DEF WorkerRemoves
<1>4. ASSUME NEW c \in Callers, StartCall(c)  PROVE ReplyNotMissed'
  BY <1>4 DEF StartCall
<1>5. ASSUME NEW c \in Callers, WriteRequest(c)  PROVE ReplyNotMissed'
  BY <1>5 DEF WriteRequest, ReplyInv
<1>6. ASSUME NEW c \in Callers, WriteFails(c)  PROVE ReplyNotMissed'
  BY <1>6 DEF WriteFails
<1>7. ASSUME NEW c \in Callers, Receive(c)  PROVE ReplyNotMissed'
  <2>1. /\ got' = [got EXCEPT ![c] = got[c] \o drain[c]]
        /\ c \in drains /\ drain[c] # <<>> /\ Len(drain[c]) = 1
        /\ call' = [call EXCEPT ![c] = IF sent[drain[c][1]] = c THEN "stopping" ELSE "waiting"]
        /\ call[c] = "waiting"
        /\ UNCHANGED <<sent, joined>>
    BY <1>7, FullDrain DEF Receive, CallInv
  <2>2. SUFFICES ASSUME NEW d \in Callers, call'[d] = "waiting", NEW i \in DOMAIN sent,
                        sent[i] = d
                 PROVE  i > joined[d] + Len(got'[d])
    BY <2>1
  <2>3. CASE d = c
    <3>1. Len(got'[c]) = Len(got[c]) + 1
      BY <2>1
    <3>2. drain[c][1] = joined[c] + Len(got[c]) + 1
      BY <2>1 DEF GapFree
    <3>3. i > joined[c] + Len(got[c])
      BY <2>1, <2>2, <2>3
    <3>4. i # drain[c][1]
      BY <2>1, <2>2, <2>3
    <3> QED  BY <2>3, <3>1, <3>2, <3>3, <3>4 DEF Progress
  <2>4. CASE d # c
    BY <2>1, <2>2, <2>4
  <2> QED  BY <2>3, <2>4
<1>8. ASSUME NEW c \in Callers, GiveUp(c)  PROVE ReplyNotMissed'
  BY <1>8 DEF GiveUp
<1>9. CASE UNCHANGED <<sent, call, joined, got>>
  BY <1>9
<1> QED
  BY <1>1, <1>2, <1>3, <1>4, <1>5, <1>6, <1>7, <1>8, <1>9
     DEF Next, Reader, CallerStep, vars, DaemonCloses, Close, ReadMessage, Push,
         PushHalts, ReadFails, WorkerTakes, WorkerHalts, Deliver

LEMMA NextInvariant == IInv /\ [Next]_vars => IInv'
BY TypeStep, ReaderStep, CallStep, WorkerStep, GapFreeStep, ReplyStep, NotMissedStep DEF IInv

THEOREM Invariance == Spec => []IInv
BY InitInvariant, NextInvariant, PTL DEF Spec

THEOREM TypeCorrect == Spec => []TypeOK
<1>1. IInv => TypeOK
  BY DEF IInv
<1> QED  BY Invariance, <1>1, PTL

(* Whatever the number of subscribers, the capacity of eventSink and the   *)
(* order of events: no subscriber misses one, or sees two swapped.         *)
THEOREM NothingLost == Spec => []NoSilentLoss
BY Invariance, GapFreeIsNoSilentLoss, PTL

(* Because a call subscribes before it writes, its reply cannot pass it.   *)
THEOREM NoReplyMissed == Spec => []ReplyNotMissed
<1>1. IInv => ReplyNotMissed
  BY DEF IInv
<1> QED  BY Invariance, <1>1, PTL
==============================================================================
