-------------------------- MODULE ARQOutcomes_proofs --------------------------
(***************************************************************************)
(* What becomes of the operations of PigeonholeARQ.                        *)
(*                                                                         *)
(* As long as operations that share a hash have one owner, no outcome is   *)
(* swallowed; as long as none share a hash, the two maps tell one story    *)
(* and a cancellation stops what it names.  (Run arq_dedup shows that      *)
(* operations can share a hash.)  And whatever hashes they share, each is  *)
(* a ResendOperation: every step of the request worker, the reply worker,  *)
(* the timer queue and the listener is a step of the promised operation,   *)
(* or changes nothing of it.                                               *)
(*                                                                         *)
(* The invariant of PigeonholeARQ_proofs is used throughout.               *)
(***************************************************************************)
EXTENDS PigeonholeARQ_proofs, SequenceTheorems

(* Two clients never have an operation of the same hash.                   *)
OneOwnerPerHash ==
    \A m, n \in Msgs : EnvelopeHash[m] = EnvelopeHash[n] => AppID[m] = AppID[n]

(* A hash may lead to a SURB ID that is not registered any more, never to  *)
(* an operation of another hash; in particular a SURB ID drawn for a       *)
(* rotation is no hash's yet.                                              *)
LeadsToOwnHash ==
    /\ \A h \in Hashes :
         LET s == arqEnvelopeHashMap[h]
         IN  s # NoSurb /\ arqSurbIDMap[s] # NoMsg => EnvelopeHash[arqSurbIDMap[s]] = h
    /\ rep.at = "rotate" => \A h \in Hashes : arqEnvelopeHashMap[h] # rep.new

(* The cancellation the request worker is about to report goes out on the  *)
(* connection of the operation's own client.                               *)
CancelledByOwner == req.at = "cancel" /\ req.msg # NoMsg => AppID[req.msg] = req.app

OutcomeInv == LeadsToOwnHash /\ CancelledByOwner /\ NoOutcomeLost

(* Without shared hashes, a cancellation about to be reported has left no  *)
(* operation of its hash registered.                                       *)
CancelPending ==
    req.at = "cancel" => \A m \in started : EnvelopeHash[m] = req.hash => ~Tracked(m)

MapsInv ==
    /\ LeadsToOwnHash
    /\ MapsAgree
    /\ CancelPending
    /\ cancelAcked \subseteq started
    /\ CancelStops

USE DEF mapVars, msgVars, netVars, clientVars

-----------------------------------------------------------------------------
(* What a step does to the two maps and to who is registered.              *)

LEMMA TrackedIsStarted == ASSUME IInv, NEW m \in Msgs, Tracked(m)  PROVE m \in started
BY ConstantsAssumption DEF IInv, SurbInv, Tracked

LEMMA OwnSurb ==
    ASSUME IInv, NEW m \in Msgs, NEW s \in Surbs, arqSurbIDMap[s] = m
    PROVE  surbID[m] = s
BY ConstantsAssumption DEF IInv, SurbInv

(* The three ways to rotate a message, with what they have in common.      *)
Rotates(m, old, new) ==
    /\ m \in Msgs /\ old \in Surbs /\ new \in Surbs
    /\ Rotate(m, old, new)
    /\ arqSurbIDMap[old] = m /\ arqSurbIDMap[new] = NoMsg
    /\ \A n \in Msgs : surbID[n] # new
    /\ UNCHANGED <<started, req, clientVars>>

Rotation == \E m \in Msgs, old, new \in Surbs :
    /\ Rotates(m, old, new)
    /\ \A h \in Hashes : arqEnvelopeHashMap[h] # new
    /\ rep'.at = "rotate" => rep' = rep /\ new # rep.new

NoRotation == rep' = Idle /\ UNCHANGED <<started, mapVars, surbID, req, clientVars>>

LEMMA RotationSteps ==
    ASSUME IInv, LeadsToOwnHash,
           ReplyRotate \/ (\E s \in Surbs : ReplyPoll(s))
             \/ (\E s, new \in Surbs : TimerResends(s, new))
    PROVE  Rotation \/ NoRotation
<1> USE DEF IInv
<1>1. CASE ReplyRotate
  <2>1. /\ rep.at = "rotate" /\ rep.msg \in Msgs /\ rep.old \in Surbs /\ rep.new \in Surbs
    BY <1>1, RepTypes DEF ReplyRotate, TypeOK
  <2>2. CASE MayRotate
    <3>1. Rotates(rep.msg, rep.old, rep.new)
      BY <1>1, <2>1, <2>2 DEF ReplyRotate, MayRotate, Rotates, HeldInv
    <3>2. rep' = [rep EXCEPT !.at = "schedule"]
      BY <1>1, <2>2 DEF ReplyRotate
    <3>3. rep'.at # "rotate"
      BY <2>1, <3>2
    <3> QED  BY <2>1, <3>1, <3>3 DEF Rotation, LeadsToOwnHash
  <2>3. CASE ~MayRotate
    BY <1>1, <2>3 DEF ReplyRotate, NoRotation
  <2> QED  BY <2>2, <2>3
<1>2. ASSUME NEW s \in Surbs, ReplyPoll(s)
      PROVE  Rotation \/ NoRotation
  <2>1. rep.msg \in Msgs /\ surbID[rep.msg] \in Surbs
    BY <1>2, RepTypes DEF ReplyPoll, TypeOK, WorkersInv
  <2>2. CASE MayPoll(rep.msg)
    <3>1. Rotates(rep.msg, surbID[rep.msg], s) /\ \A h \in Hashes : arqEnvelopeHashMap[h] # s
      BY <1>2, <2>1, <2>2 DEF ReplyPoll, MayPoll, Fresh, Rotates
    <3>2. rep'.at = "schedule"
      BY <1>2, <2>2 DEF ReplyPoll
    <3> QED  BY <2>1, <3>1, <3>2 DEF Rotation
  <2>3. CASE ~MayPoll(rep.msg)
    BY <1>2, <2>3 DEF ReplyPoll, NoRotation
  <2> QED  BY <2>2, <2>3
<1>3. ASSUME NEW s \in Surbs, NEW new \in Surbs, TimerResends(s, new)
      PROVE  Rotation
  <2>1. arqSurbIDMap[s] \in Msgs
    BY <1>3 DEF TimerResends, TypeOK
  <2>2. Rotates(arqSurbIDMap[s], s, new) /\ \A h \in Hashes : arqEnvelopeHashMap[h] # new
    BY <1>3, <2>1 DEF TimerResends, Fresh, Rotates
  <2>3. rep' = rep /\ (rep.at = "rotate" => new # rep.new)
    BY <1>3 DEF TimerResends, Fresh, Held
  <2> QED  BY <2>1, <2>2, <2>3 DEF Rotation
<1> QED  BY <1>1, <1>2, <1>3

(* The steps that touch neither map: they move the workers, the timers and *)
(* the clients.                                                            *)
Quiet ==
    /\ UNCHANGED <<mapVars, surbID>>
    /\ \/ \E m \in Msgs : StartFails(m)
       \/ StartPush \/ CancelReply
       \/ \E s \in Surbs, body \in Bodies : ReplyArrives(s, body)
       \/ \E s \in Surbs : ReplyCompose(s)
       \/ ReplyComposeFails \/ ReplySchedule \/ ReplyFinish
       \/ \E s \in Surbs : TimerStale(s)
       \/ \E app \in Apps : Disconnect(app)
       \/ UNCHANGED vars

LEMMA StepCases ==
    ASSUME IInv, LeadsToOwnHash, [Next]_vars
    PROVE  \/ Quiet \/ Rotation \/ NoRotation \/ ReplyTerminate
           \/ \E m \in Msgs, s \in Surbs : Start(m, s)
           \/ \E app \in Apps, h \in Hashes : Cancel(app, h)
           \/ \E app \in Apps : Cleanup(app)
<1>1. ASSUME NEW m \in Msgs, StartFails(m)  PROVE Quiet
  BY <1>1 DEF Quiet, StartFails
<1>2. CASE StartPush \/ CancelReply \/ ReplyComposeFails \/ ReplySchedule \/ ReplyFinish
  BY <1>2 DEF Quiet, StartPush, CancelReply, ReplyComposeFails, ReplySchedule, ReplyFinish
<1>3. ASSUME NEW s \in Surbs, NEW body \in Bodies, ReplyArrives(s, body)  PROVE Quiet
  BY <1>3 DEF Quiet, ReplyArrives
<1>4. ASSUME NEW s \in Surbs, ReplyCompose(s) \/ TimerStale(s)  PROVE Quiet
  BY <1>4 DEF Quiet, ReplyCompose, TimerStale
<1>5. ASSUME NEW app \in Apps, Disconnect(app)  PROVE Quiet
  BY <1>5 DEF Quiet, Disconnect
<1>6. CASE UNCHANGED vars
  BY <1>6 DEF Quiet, vars
<1> QED  BY <1>1, <1>2, <1>3, <1>4, <1>5, <1>6, RotationSteps DEF Next

-----------------------------------------------------------------------------
(* A hash leads to its own operations only, shared or not.                 *)

LEMMA LeadsStep == IInv /\ LeadsToOwnHash /\ [Next]_vars => LeadsToOwnHash'
<1> SUFFICES ASSUME IInv, LeadsToOwnHash, [Next]_vars  PROVE LeadsToOwnHash'
  OBVIOUS
<1>0. TypeOK
  BY DEF IInv
<1>1. CASE Quiet
  <2>1. UNCHANGED mapVars
    BY <1>1 DEF Quiet
  <2>2. rep'.at = "rotate" =>
           rep' = rep \/ \E s \in Surbs : rep'.new = s /\ \A h \in Hashes : arqEnvelopeHashMap[h] # s
    <3>1. ASSUME NEW s \in Surbs, ReplyCompose(s)
          PROVE  rep'.new = s /\ \A h \in Hashes : arqEnvelopeHashMap[h] # s
      BY <3>1 DEF ReplyCompose, Fresh
    <3>2. ASSUME NEW s \in Surbs, NEW body \in Bodies, ReplyArrives(s, body)
          PROVE  rep' = rep \/ rep'.at # "rotate"
      BY <3>2 DEF ReplyArrives, EnvelopeReply, CopyReply, Terminate
    <3>3. CASE ReplyComposeFails \/ ReplySchedule \/ ReplyFinish
      BY <3>3 DEF ReplyComposeFails, ReplySchedule, ReplyFinish, Idle
    <3>4. CASE \/ \E m \in Msgs : StartFails(m)
               \/ StartPush \/ CancelReply \/ UNCHANGED vars
               \/ \E s \in Surbs : TimerStale(s)
               \/ \E app \in Apps : Disconnect(app)
      BY <3>4 DEF StartFails, StartPush, CancelReply, TimerStale, Disconnect, vars
    <3> QED  BY <1>1, <3>1, <3>2, <3>3, <3>4 DEF Quiet
  <2> QED  BY <2>1, <2>2 DEF LeadsToOwnHash
<1>2. CASE Rotation
  <2>1. PICK m \in Msgs, old \in Surbs, new \in Surbs :
           /\ Rotate(m, old, new) /\ arqSurbIDMap[old] = m /\ arqSurbIDMap[new] = NoMsg
           /\ \A h \in Hashes : arqEnvelopeHashMap[h] # new
           /\ rep'.at = "rotate" => rep' = rep /\ new # rep.new
    BY <1>2 DEF Rotation, Rotates
  <2>2. /\ old # new /\ EnvelopeHash[m] \in Hashes
        /\ arqSurbIDMap'[new] = m /\ arqSurbIDMap'[old] = NoMsg
        /\ \A s \in Surbs \ {old, new} : arqSurbIDMap'[s] = arqSurbIDMap[s]
        /\ arqEnvelopeHashMap'[EnvelopeHash[m]] = new
        /\ \A h \in Hashes \ {EnvelopeHash[m]} : arqEnvelopeHashMap'[h] = arqEnvelopeHashMap[h]
    BY <1>0, <2>1, ConstantsAssumption DEF Rotate, TypeOK
  <2>3. ASSUME NEW h \in Hashes, arqEnvelopeHashMap'[h] # NoSurb,
               arqSurbIDMap'[arqEnvelopeHashMap'[h]] # NoMsg
        PROVE  EnvelopeHash[arqSurbIDMap'[arqEnvelopeHashMap'[h]]] = h
    <3>1. CASE h = EnvelopeHash[m]
      BY <2>2, <3>1
    <3>2. CASE h # EnvelopeHash[m]
      <4>1. arqEnvelopeHashMap'[h] = arqEnvelopeHashMap[h] /\ arqEnvelopeHashMap[h] \in Surbs \ {new}
        BY <1>0, <2>1, <2>2, <2>3, <3>2 DEF TypeOK
      <4>2. arqSurbIDMap'[arqEnvelopeHashMap[h]] = arqSurbIDMap[arqEnvelopeHashMap[h]]
        BY <2>2, <2>3, <4>1
      <4> QED  BY <2>3, <4>1, <4>2 DEF LeadsToOwnHash
    <3> QED  BY <3>1, <3>2
  <2>4. ASSUME rep'.at = "rotate", NEW h \in Hashes  PROVE arqEnvelopeHashMap'[h] # rep'.new
    BY <2>1, <2>2, <2>4 DEF LeadsToOwnHash
  <2> QED  BY <2>3, <2>4 DEF LeadsToOwnHash
<1>3. CASE NoRotation
  BY <1>3 DEF NoRotation, LeadsToOwnHash, Idle
<1>4. ASSUME \A s \in Surbs : arqSurbIDMap'[s] \in {arqSurbIDMap[s], NoMsg},
             \A h \in Hashes : arqEnvelopeHashMap'[h] \in {arqEnvelopeHashMap[h], NoSurb},
             rep'.at = "rotate" => rep' = rep
      PROVE  LeadsToOwnHash'
  <2>1. ASSUME NEW h \in Hashes, arqEnvelopeHashMap'[h] # NoSurb,
               arqSurbIDMap'[arqEnvelopeHashMap'[h]] # NoMsg
        PROVE  EnvelopeHash[arqSurbIDMap'[arqEnvelopeHashMap'[h]]] = h
    <3>1. arqEnvelopeHashMap'[h] = arqEnvelopeHashMap[h] /\ arqEnvelopeHashMap[h] \in Surbs
      BY <1>0, <1>4, <2>1 DEF TypeOK
    <3>2. arqSurbIDMap'[arqEnvelopeHashMap[h]] = arqSurbIDMap[arqEnvelopeHashMap[h]]
      BY <1>4, <2>1, <3>1
    <3> QED  BY <2>1, <3>1, <3>2 DEF LeadsToOwnHash
  <2>2. ASSUME rep'.at = "rotate", NEW h \in Hashes  PROVE arqEnvelopeHashMap'[h] # rep'.new
    BY <1>0, <1>4, <2>2, RepTypes, ConstantsAssumption DEF LeadsToOwnHash, TypeOK
  <2> QED  BY <2>1, <2>2 DEF LeadsToOwnHash
<1>5. ASSUME NEW m \in Msgs, NEW s \in Surbs, Start(m, s)  PROVE LeadsToOwnHash'
  <2>1. /\ arqSurbIDMap' = [arqSurbIDMap EXCEPT ![s] = m]
        /\ arqEnvelopeHashMap' = [arqEnvelopeHashMap EXCEPT ![EnvelopeHash[m]] = s]
        /\ \A h \in Hashes : arqEnvelopeHashMap[h] # s
        /\ rep' = rep /\ (rep.at = "rotate" => rep.new # s)
    BY <1>5 DEF Start, Fresh, Held
  <2> QED  BY <1>0, <2>1 DEF LeadsToOwnHash, TypeOK
<1>6. CASE ReplyTerminate
  <2>1. /\ \A s \in Surbs : arqSurbIDMap'[s] \in {arqSurbIDMap[s], NoMsg}
        /\ \A h \in Hashes : arqEnvelopeHashMap'[h] \in {arqEnvelopeHashMap[h], NoSurb}
    BY <1>0, <1>6 DEF ReplyTerminate, TypeOK
  <2>2. rep'.at # "rotate"
    BY <1>0, <1>6, RepTypes DEF ReplyTerminate, TypeOK, RepStates, Idle
  <2> QED  BY <1>4, <2>1, <2>2
<1>7. ASSUME NEW app \in Apps, NEW h \in Hashes, Cancel(app, h)  PROVE LeadsToOwnHash'
  <2>1. /\ \A s \in Surbs : arqSurbIDMap'[s] \in {arqSurbIDMap[s], NoMsg}
        /\ \A k \in Hashes : arqEnvelopeHashMap'[k] \in {arqEnvelopeHashMap[k], NoSurb}
        /\ rep' = rep
    BY <1>0, <1>7 DEF Cancel, TypeOK
  <2> QED  BY <1>4, <2>1
<1>8. ASSUME NEW app \in Apps, Cleanup(app)  PROVE LeadsToOwnHash'
  <2>1. /\ \A s \in Surbs : arqSurbIDMap'[s] \in {arqSurbIDMap[s], NoMsg}
        /\ \A h \in Hashes : arqEnvelopeHashMap'[h] \in {arqEnvelopeHashMap[h], NoSurb}
        /\ rep' = rep
    BY <1>8 DEF Cleanup
  <2> QED  BY <1>4, <2>1
<1> QED  BY <1>1, <1>2, <1>3, <1>5, <1>6, <1>7, <1>8, StepCases

-----------------------------------------------------------------------------
(* No outcome is swallowed, as long as same-hash operations have one owner. *)

(* A reply sent to an owner who is connected reaches it; nothing that was  *)
(* told is taken back.                                                     *)
LEMMA ReplyTells ==
    ASSUME TypeOK, NEW m \in Msgs, NEW o \in Outcomes, NEW app, Reply(m, o, app)
    PROVE  /\ \A n \in Msgs : replies[n] # <<>> => replies'[n] # <<>>
           /\ app = AppID[m] /\ Connected(m) => replies'[m] # <<>>
<1>1. Append(replies[m], o) # <<>>
  BY AppendProperties, EmptySeq DEF TypeOK
<1>2. \/ replies' = replies /\ ~(app = AppID[m] /\ Connected(m))
      \/ replies' = [replies EXCEPT ![m] = Append(replies[m], o)]
  BY DEF Reply, Connected
<1> QED  BY <1>1, <1>2 DEF TypeOK

LEMMA OwnerStep ==
    ASSUME OneOwnerPerHash, IInv, LeadsToOwnHash, CancelledByOwner, [Next]_vars
    PROVE  CancelledByOwner'
<1>0. TypeOK
  BY DEF IInv
<1>1. ASSUME NEW app \in Apps, NEW h \in Hashes, Cancel(app, h)  PROVE CancelledByOwner'
  <2> DEFINE s == arqEnvelopeHashMap[h]
  <2>1. req'.app = app /\ (req'.msg # NoMsg => s # NoSurb /\ req'.msg = arqSurbIDMap[s])
    BY <1>1 DEF Cancel
  <2>2. PICK m \in Msgs : AppID[m] = app /\ EnvelopeHash[m] = h
    BY <1>1 DEF Cancel
  <2>3. ASSUME req'.msg # NoMsg  PROVE req'.msg \in Msgs /\ EnvelopeHash[req'.msg] = h
    BY <1>0, <2>1, <2>3 DEF LeadsToOwnHash, TypeOK
  <2> QED  BY <2>1, <2>2, <2>3 DEF CancelledByOwner, OneOwnerPerHash
<1>2. ASSUME NEW m \in Msgs, NEW s \in Surbs, Start(m, s)  PROVE CancelledByOwner'
  BY <1>2 DEF Start, CancelledByOwner
<1>3. CASE StartPush \/ CancelReply
  BY <1>3 DEF StartPush, CancelReply, CancelledByOwner, Idle
<1>4. CASE UNCHANGED req
  BY <1>4 DEF CancelledByOwner
<1>5. \/ \E app \in Apps, h \in Hashes : Cancel(app, h)
      \/ \E m \in Msgs, s \in Surbs : Start(m, s)
      \/ StartPush \/ CancelReply \/ UNCHANGED req
  BY DEF Next, vars, StartFails, ReplyArrives, ReplyCompose, ReplyComposeFails, ReplyRotate,
     ReplyPoll, ReplySchedule, ReplyTerminate, ReplyFinish, TimerStale, TimerResends,
     Disconnect, Cleanup
<1> QED  BY <1>1, <1>2, <1>3, <1>4, <1>5

(* What a step leaves of the reasons an operation may be out of the maps.  *)
Excused(m) == replies[m] # <<>> \/ ~Connected(m) \/ m \in dropped

LEMMA ExcuseStays ==
    ASSUME IInv, [Next]_vars, NEW m \in Msgs, Excused(m)
    PROVE  Excused(m)'
<1>0. TypeOK
  BY DEF IInv
<1>1. replies[m] # <<>> => replies'[m] # <<>>
  <2>1. ASSUME NEW n \in Msgs, StartFails(n)  PROVE replies[m] # <<>> => replies'[m] # <<>>
    BY <1>0, <2>1, ReplyTells DEF StartFails, Outcomes
  <2>2. CASE CancelReply
    <3>1. CASE req.msg = NoMsg
      BY <2>2, <3>1 DEF CancelReply
    <3>2. CASE req.msg # NoMsg
      BY <1>0, <2>2, <3>2, ReqTypes, ReplyTells DEF CancelReply, TypeOK, Outcomes
    <3> QED  BY <3>1, <3>2
  <2>3. CASE ReplyFinish
    <3>1. rep.msg \in Msgs /\ rep.out \in Outcomes
      BY <1>0, <2>3 DEF ReplyFinish, TypeOK, RepStates, Idle
    <3> QED  BY <1>0, <2>3, <3>1, ReplyTells DEF ReplyFinish
  <2>4. CASE UNCHANGED replies
    BY <2>4
  <2>5. \/ \E n \in Msgs : StartFails(n)
        \/ CancelReply \/ ReplyFinish \/ UNCHANGED replies
    BY DEF Next, vars, Start, StartPush, Cancel, ReplyArrives, ReplyCompose,
       ReplyComposeFails, ReplyRotate, ReplyPoll, ReplySchedule, ReplyTerminate,
       TimerStale, TimerResends, Disconnect, Cleanup
  <2> QED  BY <2>1, <2>2, <2>3, <2>4, <2>5
<1>2. /\ ~Connected(m) => ~Connected(m)'
      /\ m \in dropped => m \in dropped'
  <2>1. ASSUME NEW app \in Apps, Disconnect(app) \/ Cleanup(app)
        PROVE  (~Connected(m) => ~Connected(m)') /\ dropped' = dropped
    BY <1>0, <2>1, ConstantsAssumption DEF Disconnect, Cleanup, Connected, TypeOK
  <2>2. CASE UNCHANGED link /\ dropped \subseteq dropped'
    BY <2>2 DEF Connected
  <2>3. \/ \E app \in Apps : Disconnect(app) \/ Cleanup(app)
        \/ UNCHANGED link /\ dropped \subseteq dropped'
    BY DEF Next, vars, StartFails, Start, StartPush, Cancel, CancelReply, ReplyArrives,
       ReplyCompose, ReplyComposeFails, ReplyRotate, ReplyPoll, ReplySchedule,
       ReplyTerminate, ReplyFinish, TimerStale, TimerResends
  <2> QED  BY <2>1, <2>2, <2>3
<1> QED  BY <1>1, <1>2 DEF Excused

(* A step that takes an operation out of the maps leaves somebody to       *)
(* answer it, or finds its owner gone.                                     *)
LEMMA UntrackStep ==
    ASSUME IInv, LeadsToOwnHash, [Next]_vars, NEW m \in started, Tracked(m)
    PROVE  Tracked(m)' \/ AboutToAnswer(m)' \/ Excused(m)'
<1>0. TypeOK /\ m \in Msgs /\ m # NoMsg
  BY ConstantsAssumption DEF IInv, TypeOK
<1>s. PICK s \in Surbs : arqSurbIDMap[s] = m
  BY DEF Tracked
<1>1. CASE Quiet \/ NoRotation
  BY <1>1 DEF Quiet, NoRotation, Tracked
<1>2. CASE Rotation
  <2>1. PICK n \in Msgs, old \in Surbs, new \in Surbs : Rotates(n, old, new)
    BY <1>2 DEF Rotation
  <2>2. /\ Rotate(n, old, new) /\ arqSurbIDMap[old] = n /\ arqSurbIDMap[new] = NoMsg
        /\ \A k \in Msgs : surbID[k] # new
        /\ UNCHANGED started
    BY <2>1 DEF Rotates
  <2>3. SurbInv
    BY DEF IInv
  <2>4. Tracked(m)' <=> Tracked(m)
    BY <1>0, <2>2, <2>3, RotateFacts
  <2> QED  BY <2>4
<1>3. CASE ReplyTerminate
  <2>1. CASE rep.msg = m
    <3>1. rep \in [at : {"terminate"}, msg : Msgs, out : Results]
      BY <1>0, <1>3 DEF ReplyTerminate, TypeOK, RepStates, Idle
    <3>2. m \in dropped' \/ rep' = [rep EXCEPT !.at = "finish"]
      BY <1>3, <2>1 DEF ReplyTerminate
    <3> QED  BY <2>1, <3>1, <3>2 DEF AboutToAnswer, Excused
  <2>2. CASE rep.msg # m
    <3>1. rep.msg \in Msgs /\ surbID[rep.msg] \in Surbs
      BY <1>3, RepTypes DEF IInv, TypeOK, WorkersInv, ReplyTerminate
    <3>2. surbID[rep.msg] # s
      BY <1>0, <1>s, <2>2, <3>1, OwnSurb, ConstantsAssumption DEF IInv, SurbInv
    <3>3. arqSurbIDMap'[s] = m
      BY <1>0, <1>3, <1>s, <3>2 DEF ReplyTerminate, TypeOK
    <3> QED  BY <3>3 DEF Tracked
  <2> QED  BY <2>1, <2>2
<1>4. ASSUME NEW n \in Msgs, NEW t \in Surbs, Start(n, t)  PROVE Tracked(m)'
  <2>1. t # s /\ arqSurbIDMap' = [arqSurbIDMap EXCEPT ![t] = n]
    BY <1>0, <1>4, <1>s DEF Start, Fresh
  <2> QED  BY <1>0, <1>s, <2>1 DEF Tracked, TypeOK
<1>5. ASSUME NEW app \in Apps, NEW h \in Hashes, Cancel(app, h)
      PROVE  Tracked(m)' \/ AboutToAnswer(m)'
  <2>1. CASE arqEnvelopeHashMap[h] = s
    BY <1>5, <1>s, <2>1, ConstantsAssumption DEF Cancel, AboutToAnswer
  <2>2. CASE arqEnvelopeHashMap[h] # s
    BY <1>0, <1>5, <1>s, <2>2 DEF Cancel, Tracked, TypeOK
  <2> QED  BY <2>1, <2>2
<1>6. ASSUME NEW app \in Apps, Cleanup(app)  PROVE Tracked(m)' \/ Excused(m)'
  <2>1. CASE AppID[m] = app
    BY <1>0, <1>6, <2>1 DEF Cleanup, Excused, Connected, TypeOK
  <2>2. CASE AppID[m] # app
    <3>1. arqSurbIDMap'[s] = m
      BY <1>0, <1>6, <1>s, <2>2, ConstantsAssumption DEF Cleanup
    <3> QED  BY <3>1 DEF Tracked
  <2> QED  BY <2>1, <2>2
<1> QED  BY <1>1, <1>2, <1>3, <1>4, <1>5, <1>6, StepCases

(* What a worker is about to answer, it answers.                           *)
LEMMA AnswerStep ==
    ASSUME IInv, CancelledByOwner, [Next]_vars, NEW m \in Msgs, AboutToAnswer(m)
    PROVE  AboutToAnswer(m)' \/ Excused(m)'
<1>0. TypeOK
  BY DEF IInv
<1>1. CASE CancelReply
  <2>1. CASE req.msg = m
    <3>1. Reply(m, "cancelled", AppID[m]) /\ UNCHANGED link
      BY <1>1, <2>1, ConstantsAssumption DEF CancelReply, CancelledByOwner
    <3> QED  BY <1>0, <3>1, ReplyTells DEF Excused, Connected, Outcomes
  <2>2. CASE req.msg # m
    BY <1>1, <2>2 DEF CancelReply, AboutToAnswer
  <2> QED  BY <2>1, <2>2
<1>2. CASE ReplyFinish
  <2>1. CASE rep.msg = m
    <3>1. Reply(m, rep.out, AppID[m]) /\ UNCHANGED link
      BY <1>2, <2>1 DEF ReplyFinish
    <3>2. rep.out \in Outcomes
      BY <1>0, <1>2 DEF ReplyFinish, TypeOK, RepStates, Idle
    <3> QED  BY <1>0, <3>1, <3>2, ReplyTells DEF Excused, Connected
  <2>2. CASE rep.msg # m
    BY <1>2, <2>2 DEF ReplyFinish, AboutToAnswer
  <2> QED  BY <2>1, <2>2
<1>3. CASE ~CancelReply /\ ~ReplyFinish
  <2>1. req.at = "cancel" => req' = req
    BY <1>3 DEF Next, vars, StartFails, Start, StartPush, Cancel, ReplyArrives,
       ReplyCompose, ReplyComposeFails, ReplyRotate, ReplyPoll, ReplySchedule,
       ReplyTerminate, TimerStale, TimerResends, Disconnect, Cleanup, Idle
  <2>2. rep.at = "finish" => rep' = rep
    BY <1>3 DEF Next, vars, StartFails, Start, StartPush, Cancel, ReplyArrives,
       ReplyCompose, ReplyComposeFails, ReplyRotate, ReplyPoll, ReplySchedule,
       ReplyTerminate, TimerStale, TimerResends, Disconnect, Cleanup, Idle
  <2> QED  BY <2>1, <2>2 DEF AboutToAnswer
<1> QED  BY <1>1, <1>2, <1>3

LEMMA OutcomeStep ==
    ASSUME OneOwnerPerHash, IInv, OutcomeInv, [Next]_vars
    PROVE  OutcomeInv'
<1>1. LeadsToOwnHash' /\ CancelledByOwner'
  BY LeadsStep, OwnerStep DEF OutcomeInv
<1>2. ASSUME NEW m \in started'
      PROVE  Tracked(m)' \/ AboutToAnswer(m)' \/ Excused(m)'
  <2>0. TypeOK /\ started' \subseteq Msgs
    <3>1. IInv'
      BY NextInvariant
    <3> QED  BY <3>1 DEF IInv, TypeOK
  <2>1. CASE m \in started
    <3>1. Tracked(m) \/ AboutToAnswer(m) \/ Excused(m)
      BY <2>1 DEF OutcomeInv, NoOutcomeLost, Excused
    <3> QED  BY <2>0, <2>1, <3>1, UntrackStep, AnswerStep, ExcuseStays DEF OutcomeInv
  <2>2. CASE m \notin started
    <3>1. StartFails(m) \/ \E s \in Surbs : Start(m, s)
      BY <1>2, <2>2 DEF Next, vars, StartFails, Start, StartPush, Cancel, CancelReply,
         ReplyArrives, ReplyCompose, ReplyComposeFails, ReplyRotate, ReplyPoll,
         ReplySchedule, ReplyTerminate, ReplyFinish, TimerStale, TimerResends,
         Disconnect, Cleanup
    <3>2. CASE StartFails(m)
      BY <2>0, <3>2, ReplyTells DEF StartFails, Excused, Connected, Outcomes
    <3>3. ASSUME NEW s \in Surbs, Start(m, s)  PROVE Tracked(m)'
      BY <2>0, <3>3 DEF Start, Tracked, TypeOK
    <3> QED  BY <3>1, <3>2, <3>3
  <2> QED  BY <2>1, <2>2
<1> QED  BY <1>1, <1>2 DEF OutcomeInv, NoOutcomeLost, Excused

LEMMA OutcomeInit == Init => OutcomeInv
BY DEF Init, OutcomeInv, LeadsToOwnHash, CancelledByOwner, NoOutcomeLost, Idle

(* No outcome is swallowed: an operation that is no longer tracked has     *)
(* been answered or is about to be, or its owner is gone, or a reply to it *)
(* could not be parsed; provided that no two clients have operations of    *)
(* one hash (a cancellation is told on the canceller's connection).        *)
THEOREM NoOutcomeIsSwallowed ==
    ASSUME OneOwnerPerHash  PROVE Spec => []NoOutcomeLost
<1>1. IInv /\ OutcomeInv /\ [Next]_vars => OutcomeInv'
  BY OutcomeStep
<1>2. OutcomeInv => NoOutcomeLost
  BY DEF OutcomeInv
<1> QED  BY <1>1, <1>2, OutcomeInit, Invariance, PTL DEF Spec

-----------------------------------------------------------------------------
(* The two maps tell one story, and a cancellation stops what it names, as *)
(* long as no two operations share a hash.                                 *)

Registered(s) ==
    arqSurbIDMap[s] # NoMsg =>
        /\ surbID[arqSurbIDMap[s]] = s
        /\ arqEnvelopeHashMap[EnvelopeHash[arqSurbIDMap[s]]] = s

Leads(h) ==
    arqEnvelopeHashMap[h] # NoSurb =>
        /\ arqSurbIDMap[arqEnvelopeHashMap[h]] # NoMsg
        /\ EnvelopeHash[arqSurbIDMap[arqEnvelopeHashMap[h]]] = h

LEMMA MapsByEntry ==
    MapsAgree <=> (\A s \in Surbs : Registered(s)) /\ (\A h \in Hashes : Leads(h))
BY DEF MapsAgree, Registered, Leads

(* Taking a registered operation out of both maps leaves the others alone. *)
LEMMA RemovalAgrees ==
    ASSUME DistinctHashes, TypeOK, MapsAgree, NEW s \in Surbs, NEW h \in Hashes,
           arqEnvelopeHashMap[h] = s,
           arqSurbIDMap' = [arqSurbIDMap EXCEPT ![s] = NoMsg],
           arqEnvelopeHashMap' = [arqEnvelopeHashMap EXCEPT ![h] = NoSurb],
           UNCHANGED surbID
    PROVE  MapsAgree'
<1>1. Registered(s) /\ Leads(h) /\ s # NoSurb
  BY MapsByEntry, ConstantsAssumption
<1>2. ASSUME NEW t \in Surbs  PROVE Registered(t)'
  <2>1. CASE t = s
    BY <2>1 DEF Registered, TypeOK
  <2>2. CASE t # s /\ arqSurbIDMap[t] # NoMsg
    <3>1. arqSurbIDMap'[t] = arqSurbIDMap[t] /\ arqSurbIDMap[t] \in Msgs
      BY <2>2 DEF TypeOK
    <3>2. Registered(t)
      BY MapsByEntry
    <3>3. EnvelopeHash[arqSurbIDMap[t]] # h
      BY <2>2, <3>2 DEF Registered
    <3>4. arqEnvelopeHashMap'[EnvelopeHash[arqSurbIDMap[t]]] = t
      BY <2>2, <3>1, <3>2, <3>3, ConstantsAssumption DEF Registered, TypeOK
    <3> QED  BY <2>2, <3>1, <3>2, <3>4 DEF Registered
  <2>3. CASE t # s /\ arqSurbIDMap[t] = NoMsg
    BY <2>3 DEF Registered, TypeOK
  <2> QED  BY <2>1, <2>2, <2>3
<1>3. ASSUME NEW k \in Hashes  PROVE Leads(k)'
  <2>1. CASE k = h \/ arqEnvelopeHashMap[k] = NoSurb
    BY <2>1 DEF Leads, TypeOK
  <2>2. CASE k # h /\ arqEnvelopeHashMap[k] # NoSurb
    <3>1. Leads(k) /\ arqEnvelopeHashMap'[k] = arqEnvelopeHashMap[k]
      BY <2>2, MapsByEntry DEF TypeOK
    <3>2. arqEnvelopeHashMap[k] \in Surbs \ {s}
      BY <1>1, <2>2, <3>1 DEF Leads, TypeOK
    <3>3. arqSurbIDMap'[arqEnvelopeHashMap[k]] = arqSurbIDMap[arqEnvelopeHashMap[k]]
      BY <3>2 DEF TypeOK
    <3> QED  BY <2>2, <3>1, <3>3 DEF Leads
  <2> QED  BY <2>1, <2>2
<1>4. \A t \in Surbs : Registered(t)'
  BY <1>2
<1>5. \A k \in Hashes : Leads(k)'
  BY <1>3
<1> QED  BY <1>4, <1>5 DEF MapsAgree, Registered, Leads

(* A hash leads to nothing if its operation is not registered.             *)
LEMMA UntrackedHash ==
    ASSUME DistinctHashes, TypeOK, MapsAgree, NEW m \in Msgs, ~Tracked(m)
    PROVE  arqEnvelopeHashMap[EnvelopeHash[m]] = NoSurb
<1> SUFFICES ASSUME arqEnvelopeHashMap[EnvelopeHash[m]] # NoSurb  PROVE FALSE
  OBVIOUS
<1> DEFINE s == arqEnvelopeHashMap[EnvelopeHash[m]]
<1>1. EnvelopeHash[m] \in Hashes /\ s \in Surbs
  BY ConstantsAssumption DEF TypeOK
<1>2. Leads(EnvelopeHash[m])
  BY <1>1, MapsByEntry
<1>3. arqSurbIDMap[s] \in Msgs /\ EnvelopeHash[arqSurbIDMap[s]] = EnvelopeHash[m]
  BY <1>1, <1>2 DEF Leads, TypeOK
<1>4. arqSurbIDMap[s] = m
  BY <1>3 DEF DistinctHashes
<1> QED  BY <1>1, <1>4 DEF Tracked

LEMMA AgreeStep ==
    ASSUME DistinctHashes, IInv, LeadsToOwnHash, MapsAgree, [Next]_vars
    PROVE  MapsAgree'
<1>0. TypeOK /\ SurbInv
  BY DEF IInv
<1>1. CASE Quiet \/ NoRotation
  BY <1>1 DEF Quiet, NoRotation, MapsAgree
<1>2. CASE Rotation
  <2>1. PICK m \in Msgs, old \in Surbs, new \in Surbs :
           /\ Rotate(m, old, new) /\ arqSurbIDMap[old] = m /\ arqSurbIDMap[new] = NoMsg
           /\ \A h \in Hashes : arqEnvelopeHashMap[h] # new
    BY <1>2 DEF Rotation, Rotates
  <2>2. /\ old # new /\ EnvelopeHash[m] \in Hashes
        /\ arqSurbIDMap'[new] = m /\ arqSurbIDMap'[old] = NoMsg
        /\ \A s \in Surbs \ {old, new} : arqSurbIDMap'[s] = arqSurbIDMap[s]
        /\ arqEnvelopeHashMap'[EnvelopeHash[m]] = new
        /\ \A h \in Hashes \ {EnvelopeHash[m]} : arqEnvelopeHashMap'[h] = arqEnvelopeHashMap[h]
        /\ surbID'[m] = new /\ \A n \in Msgs \ {m} : surbID'[n] = surbID[n]
    BY <1>0, <2>1, ConstantsAssumption DEF Rotate, TypeOK
  <2>3. m # NoMsg /\ Registered(old)
    BY MapsByEntry, ConstantsAssumption
  <2>4. ASSUME NEW t \in Surbs  PROVE Registered(t)'
    <3>1. CASE t \in {old, new}
      BY <2>2, <3>1 DEF Registered
    <3>2. CASE t \notin {old, new} /\ arqSurbIDMap[t] # NoMsg
      <4>1. arqSurbIDMap'[t] = arqSurbIDMap[t] /\ arqSurbIDMap[t] \in Msgs /\ Registered(t)
        BY <1>0, <2>2, <3>2, MapsByEntry DEF TypeOK
      <4>2. arqSurbIDMap[t] # m
        BY <2>1, <2>3, <3>2, <4>1 DEF Registered
      <4>3. EnvelopeHash[arqSurbIDMap[t]] \in Hashes \ {EnvelopeHash[m]}
        BY <4>1, <4>2, ConstantsAssumption DEF DistinctHashes
      <4> QED  BY <2>2, <3>2, <4>1, <4>2, <4>3 DEF Registered
    <3>3. CASE t \notin {old, new} /\ arqSurbIDMap[t] = NoMsg
      BY <2>2, <3>3 DEF Registered
    <3> QED  BY <3>1, <3>2, <3>3
  <2>5. ASSUME NEW k \in Hashes  PROVE Leads(k)'
    <3>1. CASE k = EnvelopeHash[m]
      BY <2>2, <2>3, <3>1 DEF Leads
    <3>2. CASE k # EnvelopeHash[m] /\ arqEnvelopeHashMap[k] # NoSurb
      <4>1. Leads(k) /\ arqEnvelopeHashMap'[k] = arqEnvelopeHashMap[k]
        BY <2>2, <3>2, MapsByEntry
      <4>2. arqEnvelopeHashMap[k] \in Surbs \ {old, new}
        BY <1>0, <2>1, <3>2, <4>1 DEF Leads, TypeOK
      <4> QED  BY <2>2, <3>2, <4>1, <4>2 DEF Leads
    <3>3. CASE k # EnvelopeHash[m] /\ arqEnvelopeHashMap[k] = NoSurb
      BY <2>2, <3>3 DEF Leads
    <3> QED  BY <3>1, <3>2, <3>3
  <2>6. (\A t \in Surbs : Registered(t)') /\ (\A k \in Hashes : Leads(k)')
    BY <2>4, <2>5
  <2> QED  BY <2>6 DEF MapsAgree, Registered, Leads
<1>3. CASE ReplyTerminate
  <2> DEFINE s == surbID[rep.msg]
             h == EnvelopeHash[rep.msg]
  <2>1. rep.msg \in Msgs /\ s \in Surbs /\ h \in Hashes
    BY <1>3, RepTypes, ConstantsAssumption DEF IInv, TypeOK, WorkersInv, ReplyTerminate
  <2>2. /\ arqSurbIDMap' = [arqSurbIDMap EXCEPT ![s] = NoMsg]
        /\ arqEnvelopeHashMap' = [arqEnvelopeHashMap EXCEPT ![h] = NoSurb]
        /\ UNCHANGED surbID
    BY <1>3 DEF ReplyTerminate
  <2>3. CASE arqSurbIDMap[s] = rep.msg
    <3>1. arqEnvelopeHashMap[h] = s
      BY <2>1, <2>3, MapsByEntry, ConstantsAssumption DEF Registered
    <3> HIDE DEF s, h
    <3> QED  BY <1>0, <2>1, <2>2, <3>1, RemovalAgrees
  <2>4. CASE arqSurbIDMap[s] # rep.msg
    <3>1. ~Tracked(rep.msg)
      BY <2>1, <2>4, OwnSurb DEF Tracked
    <3>2. arqSurbIDMap[s] = NoMsg
      BY <1>0, <2>1, <2>4, ConstantsAssumption DEF SurbInv, TypeOK
    <3>3. arqEnvelopeHashMap[h] = NoSurb
      BY <1>0, <2>1, <3>1, UntrackedHash
    <3>4. UNCHANGED mapVars
      <4> HIDE DEF s, h
      <4> QED  BY <1>0, <2>1, <2>2, <3>2, <3>3 DEF TypeOK
    <3> QED  BY <2>2, <3>4 DEF MapsAgree
  <2> QED  BY <2>3, <2>4
<1>4. ASSUME NEW m \in Msgs, NEW s \in Surbs, Start(m, s)  PROVE MapsAgree'
  <2>1. /\ arqSurbIDMap' = [arqSurbIDMap EXCEPT ![s] = m]
        /\ arqEnvelopeHashMap' = [arqEnvelopeHashMap EXCEPT ![EnvelopeHash[m]] = s]
        /\ surbID' = [surbID EXCEPT ![m] = s]
        /\ arqSurbIDMap[s] = NoMsg /\ m \notin started
        /\ \A h \in Hashes : arqEnvelopeHashMap[h] # s
    BY <1>4 DEF Start, Fresh
  <2>2. EnvelopeHash[m] \in Hashes /\ m # NoMsg /\ ~Tracked(m)
    BY <2>1, TrackedIsStarted, ConstantsAssumption
  <2>3. arqEnvelopeHashMap[EnvelopeHash[m]] = NoSurb
    BY <1>0, <2>2, UntrackedHash
  <2>4. /\ arqSurbIDMap'[s] = m /\ surbID'[m] = s /\ arqEnvelopeHashMap'[EnvelopeHash[m]] = s
        /\ \A t \in Surbs \ {s} : arqSurbIDMap'[t] = arqSurbIDMap[t]
        /\ \A h \in Hashes \ {EnvelopeHash[m]} : arqEnvelopeHashMap'[h] = arqEnvelopeHashMap[h]
        /\ \A n \in Msgs \ {m} : surbID'[n] = surbID[n]
    BY <1>0, <2>1, <2>2 DEF TypeOK
  <2>5. ASSUME NEW t \in Surbs  PROVE Registered(t)'
    <3>1. CASE t = s
      BY <2>4, <3>1 DEF Registered
    <3>2. CASE t # s /\ arqSurbIDMap[t] # NoMsg
      <4>1. arqSurbIDMap'[t] = arqSurbIDMap[t] /\ arqSurbIDMap[t] \in Msgs /\ Registered(t)
        BY <1>0, <2>4, <3>2, MapsByEntry DEF TypeOK
      <4>2. arqSurbIDMap[t] # m
        BY <2>2 DEF Tracked
      <4>3. EnvelopeHash[arqSurbIDMap[t]] \in Hashes \ {EnvelopeHash[m]}
        BY <4>1, <4>2, ConstantsAssumption DEF DistinctHashes
      <4> QED  BY <2>4, <3>2, <4>1, <4>2, <4>3 DEF Registered
    <3>3. CASE t # s /\ arqSurbIDMap[t] = NoMsg
      BY <2>4, <3>3 DEF Registered
    <3> QED  BY <3>1, <3>2, <3>3
  <2>6. ASSUME NEW k \in Hashes  PROVE Leads(k)'
    <3>1. CASE k = EnvelopeHash[m]
      BY <2>2, <2>4, <3>1 DEF Leads
    <3>2. CASE k # EnvelopeHash[m] /\ arqEnvelopeHashMap[k] # NoSurb
      <4>1. Leads(k) /\ arqEnvelopeHashMap'[k] = arqEnvelopeHashMap[k]
        BY <2>4, <3>2, MapsByEntry
      <4>2. arqEnvelopeHashMap[k] \in Surbs \ {s}
        BY <1>0, <2>1, <3>2 DEF TypeOK
      <4> QED  BY <2>4, <3>2, <4>1, <4>2 DEF Leads
    <3>3. CASE k # EnvelopeHash[m] /\ arqEnvelopeHashMap[k] = NoSurb
      BY <2>4, <3>3 DEF Leads
    <3> QED  BY <3>1, <3>2, <3>3
  <2>7. (\A t \in Surbs : Registered(t)') /\ (\A k \in Hashes : Leads(k)')
    BY <2>5, <2>6
  <2> QED  BY <2>7 DEF MapsAgree, Registered, Leads
<1>5. ASSUME NEW app \in Apps, NEW h \in Hashes, Cancel(app, h)  PROVE MapsAgree'
  <2>1. CASE arqEnvelopeHashMap[h] = NoSurb
    BY <1>5, <2>1 DEF Cancel, MapsAgree
  <2>2. CASE arqEnvelopeHashMap[h] # NoSurb
    <3>1. arqEnvelopeHashMap[h] \in Surbs
      BY <1>0, <2>2 DEF TypeOK
    <3>2. /\ arqSurbIDMap' = [arqSurbIDMap EXCEPT ![arqEnvelopeHashMap[h]] = NoMsg]
          /\ arqEnvelopeHashMap' = [arqEnvelopeHashMap EXCEPT ![h] = NoSurb]
          /\ UNCHANGED surbID
      BY <1>5, <2>2 DEF Cancel
    <3> QED  BY <1>0, <3>1, <3>2, RemovalAgrees
  <2> QED  BY <2>1, <2>2
<1>6. ASSUME NEW app \in Apps, Cleanup(app)  PROVE MapsAgree'
  <2> DEFINE gone == {s \in Surbs : \E m \in Msgs : arqSurbIDMap[s] = m /\ AppID[m] = app}
  <2>1. /\ arqSurbIDMap' = [s \in Surbs |-> IF s \in gone THEN NoMsg ELSE arqSurbIDMap[s]]
        /\ arqEnvelopeHashMap' = [h \in Hashes |-> IF arqEnvelopeHashMap[h] \in gone
                                                 THEN NoSurb ELSE arqEnvelopeHashMap[h]]
        /\ UNCHANGED surbID
    BY <1>6 DEF Cleanup
  <2> HIDE DEF gone
  <2>2. ASSUME NEW t \in Surbs, arqSurbIDMap'[t] # NoMsg
        PROVE  Registered(t)'
    <3>1. t \notin gone /\ arqSurbIDMap'[t] = arqSurbIDMap[t]
      BY <2>1, <2>2
    <3>2. Registered(t) /\ arqSurbIDMap[t] \in Msgs
      BY <1>0, <2>2, <3>1, MapsByEntry DEF TypeOK
    <3> QED  BY <2>1, <2>2, <3>1, <3>2, ConstantsAssumption DEF Registered
  <2>3. ASSUME NEW k \in Hashes, arqEnvelopeHashMap'[k] # NoSurb
        PROVE  Leads(k)'
    <3>1. arqEnvelopeHashMap[k] \notin gone /\ arqEnvelopeHashMap'[k] = arqEnvelopeHashMap[k]
      BY <2>1, <2>3
    <3>2. Leads(k) /\ arqEnvelopeHashMap[k] \in Surbs
      BY <1>0, <2>3, <3>1, MapsByEntry DEF TypeOK
    <3> QED  BY <2>1, <2>3, <3>1, <3>2 DEF Leads
  <2>4. (\A t \in Surbs : Registered(t)') /\ (\A k \in Hashes : Leads(k)')
    BY <2>2, <2>3 DEF Registered, Leads
  <2> QED  BY <2>4 DEF MapsAgree, Registered, Leads
<1> QED  BY <1>1, <1>2, <1>3, <1>4, <1>5, <1>6, StepCases

(* A cancel leaves nothing of its hash registered: it takes out the entry  *)
(* the hash leads to, and there is no other operation of that hash.        *)
LEMMA CancelClears ==
    ASSUME DistinctHashes, IInv, MapsAgree,
           NEW app \in Apps, NEW h \in Hashes, Cancel(app, h),
           NEW m \in Msgs, EnvelopeHash[m] = h
    PROVE  ~Tracked(m)'
<1>0. TypeOK /\ m # NoMsg
  BY ConstantsAssumption DEF IInv
<1> SUFFICES ASSUME NEW t \in Surbs, arqSurbIDMap'[t] = m  PROVE FALSE
  BY DEF Tracked
<1>1. arqSurbIDMap'[t] = arqSurbIDMap[t]
  BY <1>0 DEF Cancel, TypeOK
<1>2. arqEnvelopeHashMap[h] = t
  BY <1>0, <1>1 DEF MapsAgree
<1>3. t # NoSurb
  BY ConstantsAssumption
<1>4. arqSurbIDMap' = [arqSurbIDMap EXCEPT ![t] = NoMsg]
  BY <1>2, <1>3 DEF Cancel
<1> QED  BY <1>0, <1>4 DEF TypeOK

LEMMA CancelPendingStep ==
    ASSUME DistinctHashes, IInv, MapsAgree, CancelPending, [Next]_vars
    PROVE  CancelPending'
<1>0. TypeOK /\ started' \subseteq Msgs
  <2>1. IInv'
    BY NextInvariant
  <2> QED  BY <2>1 DEF IInv, TypeOK
<1> SUFFICES ASSUME req'.at = "cancel", NEW m \in started', EnvelopeHash[m] = req'.hash
             PROVE  ~Tracked(m)'
  BY DEF CancelPending
<1>1. ASSUME NEW app \in Apps, NEW h \in Hashes, Cancel(app, h)  PROVE ~Tracked(m)'
  <2>1. req'.hash = h
    BY <1>1 DEF Cancel
  <2> QED  BY <1>0, <1>1, <2>1, CancelClears
<1>2. CASE ~\E app \in Apps, h \in Hashes : Cancel(app, h)
  <2>1. req' = req /\ started' = started
    <3>1. req'.at = "cancel" => req' = req
      BY <1>2 DEF Next, vars, StartFails, Start, StartPush, CancelReply, ReplyArrives,
         ReplyCompose, ReplyComposeFails, ReplyRotate, ReplyPoll, ReplySchedule,
         ReplyTerminate, ReplyFinish, TimerStale, TimerResends, Disconnect, Cleanup, Idle
    <3>2. req # Idle
      BY <3>1 DEF Idle
    <3>3. req # Idle => started' = started
      BY <1>2 DEF Next, vars, StartFails, Start, StartPush, CancelReply, ReplyArrives,
         ReplyCompose, ReplyComposeFails, ReplyRotate, ReplyPoll, ReplySchedule,
         ReplyTerminate, ReplyFinish, TimerStale, TimerResends, Disconnect, Cleanup
    <3> QED  BY <3>1, <3>2, <3>3
  <2>2. m \in started /\ ~Tracked(m)
    BY <2>1 DEF CancelPending
  <2> QED  BY <2>2, NeverBack
<1> QED  BY <1>1, <1>2

LEMMA CancelStopsStep ==
    ASSUME IInv, CancelPending, cancelAcked \subseteq started, CancelStops, [Next]_vars
    PROVE  cancelAcked' \subseteq started' /\ CancelStops'
<1>1. started \subseteq started'
  BY DEF Next, vars, StartFails, Start, StartPush, Cancel, CancelReply, ReplyArrives,
     ReplyCompose, ReplyComposeFails, ReplyRotate, ReplyPoll, ReplySchedule,
     ReplyTerminate, ReplyFinish, TimerStale, TimerResends, Disconnect, Cleanup
<1>2. cancelAcked' \subseteq {m \in started : ~Tracked(m)}
  <2>1. CASE CancelReply
    BY <2>1 DEF CancelReply, CancelPending, CancelStops
  <2>2. CASE ~CancelReply
    <3>1. cancelAcked' = cancelAcked
      BY <2>2 DEF Next, vars, StartFails, Start, StartPush, Cancel, ReplyArrives,
         ReplyCompose, ReplyComposeFails, ReplyRotate, ReplyPoll, ReplySchedule,
         ReplyTerminate, ReplyFinish, TimerStale, TimerResends, Disconnect, Cleanup
    <3> QED  BY <3>1 DEF CancelStops
  <2> QED  BY <2>1, <2>2
<1>3. \A m \in cancelAcked' : ~Tracked(m)'
  BY <1>2, NeverBack
<1> QED  BY <1>1, <1>2, <1>3 DEF CancelStops

LEMMA MapsInit == Init => MapsInv
BY DEF Init, MapsInv, LeadsToOwnHash, MapsAgree, CancelPending, CancelStops, Idle

LEMMA MapsStep ==
    ASSUME DistinctHashes, IInv, MapsInv, [Next]_vars
    PROVE  MapsInv'
<1>1. LeadsToOwnHash' /\ MapsAgree' /\ CancelPending'
  BY LeadsStep, AgreeStep, CancelPendingStep DEF MapsInv
<1>2. cancelAcked' \subseteq started' /\ CancelStops'
  BY CancelStopsStep DEF MapsInv
<1> QED  BY <1>1, <1>2 DEF MapsInv

THEOREM MapsInvariance == ASSUME DistinctHashes  PROVE Spec => []MapsInv
<1>1. IInv /\ MapsInv /\ [Next]_vars => MapsInv'
  BY MapsStep
<1> QED  BY <1>1, MapsInit, Invariance, PTL DEF Spec

(* Both maps and every message's own SURB ID tell one story after every    *)
(* step of the three threads; provided no two operations share a hash.     *)
THEOREM MapsTellOneStory == ASSUME DistinctHashes  PROVE Spec => []MapsAgree
<1>1. MapsInv => MapsAgree
  BY DEF MapsInv
<1> QED  BY <1>1, MapsInvariance, PTL

(* Once a cancellation is reported, what it named stays out of the maps;   *)
(* provided no two operations share a hash.                                *)
THEOREM CancelStopsOperation == ASSUME DistinctHashes  PROVE Spec => []CancelStops
<1>1. MapsInv => CancelStops
  BY DEF MapsInv
<1> QED  BY <1>1, MapsInvariance, PTL

-----------------------------------------------------------------------------
(* The refinement of ResendOperation.                                      *)

(* The owner of m has been told o.                                         *)
Heard(m, o) == \E i \in DOMAIN replies[m] : replies[m][i] = o

(* A worker answers only what has not been answered the same way: while    *)
(* the reply worker holds a message, its owner has heard of no completion, *)
(* and while the request worker cancels one, of no cancellation.           *)
AnswersInv ==
    /\ rep.at # "idle" => \A o \in Outcomes \ {"cancelled"} : ~Heard(rep.msg, o)
    /\ rep.at = "finish" => rep.out # "cancelled"
    /\ req.at = "cancel" /\ req.msg # NoMsg => ~Heard(req.msg, "cancelled")

-----------------------------------------------------------------------------
(* Nothing is heard but what a reply says.                                 *)

LEMMA ReplyIsHeard ==
    ASSUME TypeOK, NEW m \in Msgs, NEW o \in Outcomes, NEW app, Reply(m, o, app),
           NEW n \in Msgs, NEW p \in Outcomes, Heard(n, p)'
    PROVE  Heard(n, p) \/ (n = m /\ p = o)
<1>1. PICK i \in DOMAIN replies'[n] : replies'[n][i] = p
  BY DEF Heard
<1>2. CASE replies'[n] = replies[n]
  BY <1>1, <1>2 DEF Heard
<1>3. CASE n = m /\ replies'[n] = Append(replies[m], o)
  <2>1. replies[m] \in Seq(Outcomes)
    BY DEF TypeOK
  <2>2. DOMAIN Append(replies[m], o) = 1..(Len(replies[m]) + 1)
    BY <2>1, AppendProperties
  <2>3. DOMAIN replies[m] = 1..Len(replies[m]) /\ Len(replies[m]) \in Nat
    BY <2>1
  <2>4. CASE i \in DOMAIN replies[m]
    BY <1>1, <1>3, <2>1, <2>3, <2>4, AppendProperties DEF Heard
  <2>5. CASE i = Len(replies[m]) + 1
    BY <1>1, <1>3, <2>1, <2>5, AppendProperties
  <2> QED  BY <1>1, <1>3, <2>2, <2>3, <2>4, <2>5
<1>4. \/ replies' = replies
      \/ replies' = [replies EXCEPT ![m] = Append(replies[m], o)]
  BY DEF Reply
<1> QED  BY <1>2, <1>3, <1>4 DEF TypeOK

LEMMA NothingHeard ==
    ASSUME NEW m \in Msgs, replies[m] = <<>>, NEW o  PROVE ~Heard(m, o)
BY DEF Heard

LEMMA AnswersInit == Init => AnswersInv
BY DEF Init, AnswersInv, Idle

LEMMA AnswersStep == IInv /\ AnswersInv /\ [Next]_vars => AnswersInv'
<1> SUFFICES ASSUME IInv, AnswersInv, [Next]_vars  PROVE AnswersInv'
  OBVIOUS
<1>0. TypeOK /\ WorkersInv /\ AnswersInv /\ AnswerInv
  BY DEF IInv
<1>1. ASSUME NEW m \in Msgs, StartFails(m)  PROVE AnswersInv'
  <2>1. req' = Idle /\ rep' = rep /\ m \notin started /\ Reply(m, "error", AppID[m])
    BY <1>1 DEF StartFails
  <2>2. ASSUME rep.at # "idle", NEW o \in Outcomes \ {"cancelled"}  PROVE ~Heard(rep.msg, o)'
    <3>1. rep.msg \in Msgs /\ rep.msg # m
      BY <1>0, <2>1, <2>2, RepTypes DEF TypeOK, WorkersInv
    <3> QED  BY <1>0, <2>1, <2>2, <3>1, ReplyIsHeard DEF AnswersInv, Outcomes
  <2> QED  BY <1>0, <2>1, <2>2 DEF AnswersInv, Idle
<1>2. ASSUME NEW app \in Apps, NEW h \in Hashes, Cancel(app, h)  PROVE AnswersInv'
  <2> DEFINE s == arqEnvelopeHashMap[h]
  <2>1. /\ replies' = replies /\ rep' = rep
        /\ req'.msg # NoMsg => s # NoSurb /\ req'.msg = arqSurbIDMap[s]
    BY <1>2 DEF Cancel
  <2>2. ASSUME req'.msg # NoMsg  PROVE ~Heard(req'.msg, "cancelled")
    <3>1. s \in Surbs /\ req'.msg \in Msgs /\ Tracked(req'.msg)
      BY <1>0, <2>1, <2>2 DEF TypeOK, Tracked
    <3>2. replies[req'.msg] = <<>>
      BY <3>1 DEF IInv, AnsweredIsOver
    <3> QED  BY <3>1, <3>2, NothingHeard
  <2> QED  BY <1>0, <2>1, <2>2 DEF AnswersInv, Heard
<1>3. CASE CancelReply
  <2>1. /\ req' = Idle /\ rep' = rep
        /\ replies' = replies \/ (req.msg \in Msgs /\ Reply(req.msg, "cancelled", req.app))
    BY <1>0, <1>3, ReqTypes DEF CancelReply, TypeOK
  <2>2. ASSUME rep.at # "idle", NEW o \in Outcomes \ {"cancelled"}  PROVE ~Heard(rep.msg, o)'
    <3>1. rep.msg \in Msgs /\ ~Heard(rep.msg, o)
      BY <1>0, <2>2, RepTypes DEF TypeOK, AnswersInv
    <3>2. CASE replies' = replies
      BY <2>1, <3>1, <3>2 DEF Heard
    <3>3. CASE req.msg \in Msgs /\ Reply(req.msg, "cancelled", req.app)
      BY <1>0, <2>1, <3>1, <3>3, ReplyIsHeard DEF Outcomes
    <3> QED  BY <2>1, <3>2, <3>3
  <2> QED  BY <1>0, <2>1, <2>2 DEF AnswersInv, Idle
<1>4. ASSUME NEW s \in Surbs, NEW body \in Bodies, ReplyArrives(s, body)  PROVE AnswersInv'
  <2> DEFINE m == arqSurbIDMap[s]
  <2>1. /\ replies' = replies /\ req' = req
        /\ \/ rep' = Idle
           \/ m # NoMsg /\ rep'.msg = m /\ rep'.at # "finish"
    BY <1>4 DEF ReplyArrives, EnvelopeReply, CopyReply, Terminate
  <2>2. ASSUME m # NoMsg, NEW o  PROVE ~Heard(m, o)
    <3>1. m \in Msgs /\ Tracked(m)
      BY <1>0, <2>2 DEF TypeOK, Tracked
    <3>2. replies[m] = <<>>
      BY <3>1 DEF IInv, AnsweredIsOver
    <3> QED  BY <3>1, <3>2, NothingHeard
  <2> QED  BY <1>0, <2>1, <2>2 DEF AnswersInv, Heard, Idle
<1>5. CASE ReplyTerminate
  <2>1. rep \in [at : {"terminate"}, msg : Msgs, out : Results]
    BY <1>0, <1>5 DEF ReplyTerminate, TypeOK, RepStates, Idle
  <2>2. rep' = Idle \/ (rep'.msg = rep.msg /\ rep'.at = "finish" /\ rep'.out = rep.out)
    BY <1>5, <2>1 DEF ReplyTerminate
  <2>3. replies' = replies /\ req' = req /\ rep.at # "idle" /\ rep.out # "cancelled"
    BY <1>5, <2>1 DEF ReplyTerminate, Results
  <2> QED  BY <1>0, <2>2, <2>3 DEF AnswersInv, Heard, Idle
<1>6. CASE ReplyFinish
  <2>1. /\ rep' = Idle /\ req' = req /\ Reply(rep.msg, rep.out, AppID[rep.msg])
        /\ rep.msg \in Msgs /\ rep.out \in Outcomes \ {"cancelled"}
    BY <1>0, <1>6, RepTypes DEF ReplyFinish, TypeOK, AnswersInv, RepStates, Idle
  <2>2. ASSUME req.at = "cancel", req.msg # NoMsg  PROVE ~Heard(req.msg, "cancelled")'
    <3>1. req.msg \in Msgs
      BY <1>0, <2>2, ReqTypes DEF TypeOK
    <3> QED  BY <1>0, <2>1, <2>2, <3>1, ReplyIsHeard DEF AnswersInv, Outcomes
  <2> QED  BY <2>1, <2>2 DEF AnswersInv, Idle
<1>7. CASE /\ replies' = replies
           /\ req' = req \/ req'.at # "cancel"
           /\ \/ rep' = Idle
              \/ rep.at # "idle" /\ rep'.msg = rep.msg /\ rep'.at # "finish"
              \/ rep' = rep
  BY <1>0, <1>7 DEF AnswersInv, Heard, Idle
<1>8. \/ \E m \in Msgs : StartFails(m)
      \/ \E app \in Apps, h \in Hashes : Cancel(app, h)
      \/ CancelReply \/ ReplyTerminate \/ ReplyFinish
      \/ \E s \in Surbs, body \in Bodies : ReplyArrives(s, body)
      \/ /\ replies' = replies
         /\ req' = req \/ req'.at # "cancel"
         /\ \/ rep' = Idle
            \/ rep.at # "idle" /\ rep'.msg = rep.msg /\ rep'.at # "finish"
            \/ rep' = rep
  <2>1. CASE ReplyRotate
    <3>1. rep \in [at : {"rotate", "schedule"}, msg : Msgs,
                  why : {"ack", "retry", "poll"}, old : Surbs, new : Surbs]
      BY <1>0, <2>1 DEF ReplyRotate, TypeOK, RepStates, Idle
    <3>2. rep' = [rep EXCEPT !.at = "schedule"] \/ rep' = Idle
      BY <2>1 DEF ReplyRotate
    <3>3. rep' = Idle \/ (rep.at # "idle" /\ rep'.msg = rep.msg /\ rep'.at # "finish")
      BY <3>1, <3>2
    <3> QED  BY <2>1, <3>3 DEF ReplyRotate
  <2>2. ASSUME NEW s \in Surbs, ReplyCompose(s) \/ ReplyPoll(s)
        PROVE  /\ replies' = replies /\ req' = req
               /\ rep' = Idle \/ (rep.at # "idle" /\ rep'.msg = rep.msg /\ rep'.at # "finish")
    BY <2>2 DEF ReplyCompose, ReplyPoll
  <2>3. ASSUME NEW m \in Msgs, NEW s \in Surbs, Start(m, s)
        PROVE  replies' = replies /\ req'.at # "cancel" /\ rep' = rep
    BY <2>3 DEF Start
  <2>4. CASE StartPush \/ ReplyComposeFails \/ ReplySchedule
    BY <2>4 DEF StartPush, ReplyComposeFails, ReplySchedule, Idle
  <2>5. CASE \/ \E s \in Surbs : TimerStale(s)
             \/ \E s, new \in Surbs : TimerResends(s, new)
             \/ \E app \in Apps : Disconnect(app) \/ Cleanup(app)
             \/ UNCHANGED vars
    BY <2>5 DEF TimerStale, TimerResends, Disconnect, Cleanup, vars
  <2> QED  BY <2>1, <2>2, <2>3, <2>4, <2>5 DEF Next
<1> QED  BY <1>1, <1>2, <1>3, <1>4, <1>5, <1>6, <1>7, <1>8

-----------------------------------------------------------------------------
(* The operation of the abstract specification, step by step.              *)

LEMMA PhaseTypes == ASSUME NEW m \in Msgs  PROVE Phase(m) \in {"idle", "pending", "over"}
BY DEF Phase

LEMMA OneOver ==
    ASSUME IInv, NEW m \in Msgs, m \notin started, started' = started \cup {m},
           UNCHANGED arqSurbIDMap
    PROVE  /\ Phase(m) = "idle" /\ Phase(m)' = "over"
           /\ \A n \in Msgs \ {m} : Phase(n)' = Phase(n)
<1>1. ~Tracked(m) /\ \A n \in Msgs : Tracked(n)' = Tracked(n)
  BY TrackedIsStarted DEF Tracked
<1> QED  BY <1>1 DEF Phase

(* A step that takes no operation out of the maps, and starts none.        *)
LEMMA SamePhase ==
    ASSUME \A n \in Msgs : Tracked(n)' <=> Tracked(n), UNCHANGED started
    PROVE  \A n \in Msgs : Phase(n)' = Phase(n)
BY DEF Phase

LEMMA Stutter ==
    ASSUME \A n \in Msgs : Phase(n)' = Phase(n), UNCHANGED replies
    PROVE  UNCHANGED Operation!opVars
BY DEF Operation!opVars

LEMMA EndStep ==
    ASSUME IInv, \A n \in Msgs : Tracked(n)' => Tracked(n), UNCHANGED <<started, replies>>
    PROVE  [Operation!OpNext]_(Operation!opVars)
<1> DEFINE S == {n \in Msgs : Tracked(n) /\ ~Tracked(n)'}
<1>1. \A n \in S : n \in started /\ Phase(n) = "pending" /\ Phase(n)' = "over"
  BY TrackedIsStarted DEF Phase
<1>2. \A n \in Msgs \ S : Phase(n)' = Phase(n)
  BY DEF Phase
<1> HIDE DEF S
<1>3. S \in SUBSET Msgs
  BY DEF S
<1>4. CASE S = {}
  BY <1>2, <1>4, Stutter
<1>5. CASE S # {}
  <2>1. Operation!End(S)
    BY <1>1, <1>2, <1>3, <1>5 DEF Operation!End
  <2> QED  BY <1>3, <2>1 DEF Operation!OpNext
<1> QED  BY <1>4, <1>5

(* A reply that is sent to the owner of an operation that is over, and     *)
(* tells it something new, is its answer; one that is not sent is nothing. *)
LEMMA AnswerIsNew ==
    ASSUME NEW m \in Msgs, NEW o \in Outcomes, NEW app, Reply(m, o, app),
           m \in started, ~Tracked(m), UNCHANGED <<started, arqSurbIDMap>>,
           IF o = "cancelled" THEN ~Heard(m, o)
           ELSE \A p \in Outcomes \ {"cancelled"} : ~Heard(m, p)
    PROVE  [Operation!OpNext]_(Operation!opVars)
<1>1. \A n \in Msgs : Phase(n)' = Phase(n)
  BY DEF Phase, Tracked
<1>2. Phase(m) = "over"
  BY DEF Phase
<1>3. CASE replies' = replies
  BY <1>1, <1>3, Stutter
<1>4. CASE replies' = [replies EXCEPT ![m] = Append(replies[m], o)]
  <2>1. IF o = "cancelled" THEN ~Operation!Told(m, o)
        ELSE \A p \in Operation!Outcomes \ {"cancelled"} : ~Operation!Told(m, p)
    BY DEF Operation!Told, Operation!Outcomes, Heard, Outcomes
  <2>2. Operation!Answer(m, o)
    BY <1>1, <1>2, <1>4, <2>1 DEF Operation!Answer
  <2> QED  BY <2>2 DEF Operation!OpNext, Operation!Outcomes, Outcomes
<1> QED  BY <1>3, <1>4 DEF Reply

LEMMA RefinementInit == Init => Operation!OpInit
BY DEF Init, Operation!OpInit, Phase

LEMMA RefinementStep ==
    ASSUME IInv, LeadsToOwnHash, AnswersInv, [Next]_vars
    PROVE  [Operation!OpNext]_(Operation!opVars)
<1>0. TypeOK /\ SurbInv /\ WorkersInv /\ AnswerInv
  BY DEF IInv
<1>1. ASSUME NEW m \in Msgs, StartFails(m)  PROVE Operation!OpNext
  <2>1. /\ m \notin started /\ started' = started \cup {m} /\ UNCHANGED arqSurbIDMap
        /\ Reply(m, "error", AppID[m])
    BY <1>1 DEF StartFails
  <2>2. replies[m] = <<>>
    BY <1>0, <2>1 DEF AnswerInv
  <2>3. Append(<<>>, "error") = <<"error">>
    OBVIOUS
  <2>4. replies' \in {replies, [replies EXCEPT ![m] = <<"error">>]}
    BY <2>1, <2>2, <2>3 DEF Reply
  <2>5. Operation!Refuse(m)
    BY <2>1, <2>4, OneOver DEF Operation!Refuse
  <2> QED  BY <2>5 DEF Operation!OpNext
<1>2. ASSUME NEW m \in Msgs, NEW s \in Surbs, Start(m, s)  PROVE Operation!OpNext
  <2>1. /\ m \notin started /\ started' = started \cup {m} /\ UNCHANGED replies
        /\ arqSurbIDMap' = [arqSurbIDMap EXCEPT ![s] = m] /\ arqSurbIDMap[s] = NoMsg
    BY <1>2 DEF Start, Fresh
  <2>2. /\ arqSurbIDMap'[s] = m
        /\ \A t \in Surbs \ {s} : arqSurbIDMap'[t] = arqSurbIDMap[t]
    BY <1>0, <2>1 DEF TypeOK
  <2>3. Tracked(m)' /\ \A n \in Msgs \ {m} : Tracked(n)' <=> Tracked(n)
    BY <2>1, <2>2, ConstantsAssumption DEF Tracked
  <2>4. /\ Phase(m) = "idle" /\ Phase(m)' = "pending"
        /\ \A n \in Msgs \ {m} : Phase(n)' = Phase(n)
    BY <2>1, <2>3 DEF Phase
  <2>5. Operation!Begin(m)
    BY <2>1, <2>4 DEF Operation!Begin
  <2> QED  BY <2>5 DEF Operation!OpNext
<1>3. CASE CancelReply
  <2>1. CASE req.msg = NoMsg
    BY <1>3, <2>1, SamePhase, Stutter DEF CancelReply, Tracked
  <2>2. CASE req.msg # NoMsg
    <3>1. /\ Reply(req.msg, "cancelled", req.app) /\ UNCHANGED <<started, arqSurbIDMap>>
          /\ req.at = "cancel"
      BY <1>3, <2>2 DEF CancelReply
    <3>2. req.msg \in Msgs /\ req.msg \in started /\ ~Tracked(req.msg)
      BY <1>0, <2>2, <3>1, ReqTypes DEF TypeOK, AnswerInv
    <3>3. ~Heard(req.msg, "cancelled")
      BY <2>2, <3>1 DEF AnswersInv
    <3> QED  BY <3>1, <3>2, <3>3, AnswerIsNew DEF Outcomes
  <2> QED  BY <2>1, <2>2
<1>4. CASE ReplyFinish
  <2>1. /\ Reply(rep.msg, rep.out, AppID[rep.msg]) /\ UNCHANGED <<started, arqSurbIDMap>>
        /\ rep.at = "finish"
    BY <1>4 DEF ReplyFinish
  <2>2. rep.msg \in Msgs /\ rep.msg \in started /\ ~Tracked(rep.msg)
    BY <1>0, <2>1, RepTypes DEF TypeOK, WorkersInv, AnswerInv
  <2>3. rep.out \in Outcomes /\ rep.out # "cancelled"
    BY <1>0, <2>1 DEF TypeOK, RepStates, Idle, AnswersInv
  <2>4. \A p \in Outcomes \ {"cancelled"} : ~Heard(rep.msg, p)
    BY <2>1 DEF AnswersInv
  <2> QED  BY <2>1, <2>2, <2>3, <2>4, AnswerIsNew
<1>5. CASE Rotation
  <2>1. PICK n \in Msgs, old \in Surbs, new \in Surbs : Rotates(n, old, new)
    BY <1>5 DEF Rotation
  <2>2. /\ Rotate(n, old, new) /\ arqSurbIDMap[old] = n /\ arqSurbIDMap[new] = NoMsg
        /\ \A k \in Msgs : surbID[k] # new
        /\ UNCHANGED <<started, replies>>
    BY <2>1 DEF Rotates
  <2>3. \A k \in Msgs : Tracked(k)' <=> Tracked(k)
    BY <1>0, <2>2, RotateFacts
  <2> QED  BY <2>2, <2>3, SamePhase, Stutter
<1>6. CASE NoRotation
  BY <1>6, SamePhase, Stutter DEF NoRotation, Tracked
<1>7. CASE ReplyTerminate \/ (\E app \in Apps, h \in Hashes : Cancel(app, h))
           \/ \E app \in Apps : Cleanup(app)
  <2>1. \A s \in Surbs : arqSurbIDMap'[s] \in {arqSurbIDMap[s], NoMsg}
    <3>1. CASE ReplyTerminate
      BY <1>0, <3>1 DEF ReplyTerminate, TypeOK
    <3>2. ASSUME NEW app \in Apps, NEW h \in Hashes, Cancel(app, h)
          PROVE  \A s \in Surbs : arqSurbIDMap'[s] \in {arqSurbIDMap[s], NoMsg}
      BY <1>0, <3>2 DEF Cancel, TypeOK
    <3>3. ASSUME NEW app \in Apps, Cleanup(app)
          PROVE  \A s \in Surbs : arqSurbIDMap'[s] \in {arqSurbIDMap[s], NoMsg}
      BY <3>3 DEF Cleanup
    <3> QED  BY <1>7, <3>1, <3>2, <3>3
  <2>2. UNCHANGED <<started, replies>>
    BY <1>7 DEF ReplyTerminate, Cancel, Cleanup
  <2>3. \A n \in Msgs : Tracked(n)' => Tracked(n)
    BY <2>1, ConstantsAssumption DEF Tracked
  <2> QED  BY <2>2, <2>3, EndStep
<1>8. CASE Quiet /\ UNCHANGED <<started, replies>>
  BY <1>8, SamePhase, Stutter DEF Quiet, Tracked
<1>9. Quiet => \/ \E m \in Msgs : StartFails(m)
               \/ CancelReply \/ ReplyFinish \/ UNCHANGED <<started, replies>>
  BY DEF Quiet, vars, StartPush, ReplyArrives, ReplyCompose, ReplyComposeFails,
     ReplySchedule, TimerStale, Disconnect
<1> QED  BY <1>1, <1>2, <1>3, <1>4, <1>5, <1>6, <1>7, <1>8, <1>9, StepCases

(* The ARQ keeps the promise of ResendOperation: an operation is begun at  *)
(* most once, is never taken up again after it ended, and only then is its *)
(* owner told, once by the courier and once by a cancellation at most.     *)
THEOREM ARQImplementsOperation == Spec => ImplementsOperation
<1>1. Init => Operation!OpInit /\ LeadsToOwnHash /\ AnswersInv
  BY RefinementInit, AnswersInit, MapsInit DEF MapsInv
<1>2. IInv /\ LeadsToOwnHash /\ AnswersInv /\ [Next]_vars
        => LeadsToOwnHash' /\ AnswersInv' /\ [Operation!OpNext]_(Operation!opVars)
  BY LeadsStep, AnswersStep, RefinementStep
<1> QED  BY <1>1, <1>2, Invariance, PTL DEF Spec, ImplementsOperation, Operation!OpSpec
===============================================================================
