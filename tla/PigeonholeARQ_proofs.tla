------------------------ MODULE PigeonholeARQ_proofs ------------------------
(***************************************************************************)
(* Proofs about PigeonholeARQ, for every set of operations, hashes, SURB   *)
(* IDs and clients, whether or not operations share an envelope hash.      *)
(***************************************************************************)
EXTENDS PigeonholeARQ, TLAPS

(* A worker that is in the middle of something holds a message that was    *)
(* started and has a SURB ID.                                              *)
WorkersInv ==
    /\ req.at = "push" => req.msg \in started /\ surbID[req.msg] \in Surbs
    /\ rep.at # "idle" => rep.msg \in started /\ surbID[rep.msg] \in Surbs

(* The SURB map is the inverse of ARQMessage.SURBID on tracked messages,   *)
(* and no two messages have the same SURB ID.                              *)
SurbInv ==
    /\ \A s \in Surbs : arqSurbIDMap[s] # NoMsg =>
          arqSurbIDMap[s] \in started /\ surbID[arqSurbIDMap[s]] = s
    /\ \A m, n \in Msgs : surbID[m] = surbID[n] /\ surbID[m] # NoSurb => m = n

(* The SURB ID drawn for a rotation is not used before the rotation, and   *)
(* the one rotated away is not used after it.                              *)
HeldInv ==
    /\ rep.at = "rotate" =>
          /\ arqSurbIDMap[rep.new] = NoMsg
          /\ \A m \in Msgs : surbID[m] # rep.new
    /\ rep.at = "schedule" => arqSurbIDMap[rep.old] = NoMsg

(* A message one of the workers is about to answer has left the maps, and  *)
(* nothing has been said to the owner of one that was not started.         *)
AnswerInv ==
    /\ req.at = "cancel" /\ req.msg # NoMsg => req.msg \in started /\ ~Tracked(req.msg)
    /\ rep.at = "finish" => ~Tracked(rep.msg)
    /\ \A m \in Msgs \ started : replies[m] = <<>>

IInv ==
    /\ TypeOK
    /\ WorkersInv
    /\ SurbInv
    /\ HeldInv
    /\ AnswerInv
    /\ NeverStalls
    /\ AnsweredIsOver

USE DEF mapVars, msgVars, netVars, clientVars

-----------------------------------------------------------------------------
(* What the workers' program counters say about the fields they carry.     *)

LEMMA ReqTypes ==
    ASSUME req \in ReqStates
    PROVE  /\ req.at \in {"idle", "push", "cancel"}
           /\ req.at = "push" => req.msg \in Msgs
           /\ req.at = "cancel" => /\ req.msg \in Msgs \cup {NoMsg}
                                   /\ req.app \in Apps /\ req.hash \in Hashes
BY DEF ReqStates, Idle

LEMMA RepTypes ==
    ASSUME rep \in RepStates
    PROVE  /\ rep.at \in {"idle", "compose", "poll", "rotate", "schedule",
                          "terminate", "finish"}
           /\ rep.at # "idle" => rep.msg \in Msgs
           /\ rep.at \in {"rotate", "schedule"} => rep.old \in Surbs /\ rep.new \in Surbs
BY DEF RepStates, Idle

LEMMA ReplyTypes ==
    ASSUME TypeOK, NEW m \in Msgs, NEW o \in Outcomes, NEW app, Reply(m, o, app)
    PROVE  replies' \in [Msgs -> Seq(Outcomes)]
<1>1. Append(replies[m], o) \in Seq(Outcomes)
  BY DEF TypeOK
<1> QED  BY <1>1 DEF Reply, TypeOK

(* The locked section of a rotation moves a pointer and leaves the rest of *)
(* the SURB map's story alone: nothing becomes tracked or untracked.       *)
LEMMA RotateFacts ==
    ASSUME TypeOK, SurbInv,
           NEW m \in Msgs, NEW old \in Surbs, NEW new \in Surbs,
           arqSurbIDMap[old] = m, arqSurbIDMap[new] = NoMsg,
           \A n \in Msgs : surbID[n] # new,
           Rotate(m, old, new), UNCHANGED started
    PROVE  /\ arqSurbIDMap' \in [Surbs -> Msgs \cup {NoMsg}]
           /\ arqEnvelopeHashMap' \in [Hashes -> Surbs \cup {NoSurb}]
           /\ surbID' \in [Msgs -> Surbs \cup {NoSurb}]
           /\ SurbInv'
           /\ \A n \in Msgs : Tracked(n)' <=> Tracked(n)
           /\ \A n \in Msgs : surbID[n] \in Surbs => surbID'[n] \in Surbs
           /\ surbID[m] = old /\ surbID'[m] = new
           /\ \A n \in Msgs \ {m} : surbID'[n] = surbID[n]
           /\ arqSurbIDMap'[old] = NoMsg
           /\ \A s \in Surbs \ {old, new} : arqSurbIDMap'[s] = arqSurbIDMap[s]
<1>1. /\ arqSurbIDMap' \in [Surbs -> Msgs \cup {NoMsg}]
      /\ arqEnvelopeHashMap' \in [Hashes -> Surbs \cup {NoSurb}]
      /\ surbID' \in [Msgs -> Surbs \cup {NoSurb}]
  BY DEF TypeOK, Rotate
<1>2. /\ surbID'[m] = new
      /\ \A n \in Msgs \ {m} : surbID'[n] = surbID[n]
  BY DEF TypeOK, Rotate
<1>3. surbID[m] = old
  BY ConstantsAssumption DEF SurbInv
<1>4. old # new
  BY ConstantsAssumption
<1>5. /\ arqSurbIDMap'[new] = m
      /\ arqSurbIDMap'[old] = NoMsg
      /\ \A s \in Surbs \ {old, new} : arqSurbIDMap'[s] = arqSurbIDMap[s]
  BY <1>4 DEF TypeOK, Rotate
<1>6. \A n \in Msgs : Tracked(n)' <=> Tracked(n)
  <2> TAKE n \in Msgs
  <2>1. CASE n = m
    BY <2>1, <1>5 DEF Tracked
  <2>2. CASE n # m
    BY <2>2, <1>5, ConstantsAssumption DEF Tracked
  <2> QED  BY <2>1, <2>2
<1>7. SurbInv'
  <2>1. ASSUME NEW s \in Surbs, arqSurbIDMap'[s] # NoMsg
        PROVE  arqSurbIDMap'[s] \in started' /\ surbID'[arqSurbIDMap'[s]] = s
    <3>1. CASE s = new
      BY <3>1, <1>2, <1>5, ConstantsAssumption DEF SurbInv
    <3>2. CASE s # new
      BY <2>1, <3>2, <1>2, <1>3, <1>5 DEF SurbInv, TypeOK
    <3> QED  BY <3>1, <3>2
  <2>2. ASSUME NEW n \in Msgs, NEW k \in Msgs, surbID'[n] = surbID'[k], surbID'[n] # NoSurb
        PROVE  n = k
    BY <2>2, <1>2 DEF SurbInv
  <2> QED  BY <2>1, <2>2 DEF SurbInv
<1> QED  BY <1>1, <1>2, <1>3, <1>5, <1>6, <1>7

-----------------------------------------------------------------------------
(* Every action preserves the inductive invariant.                         *)

LEMMA StartFailsStep ==
    ASSUME IInv, NEW m \in Msgs, StartFails(m)
    PROVE  IInv'
<1> USE DEF IInv
<1>1. TypeOK'
  BY DEF StartFails, Reply, TypeOK, Outcomes
<1>2. (WorkersInv /\ SurbInv /\ HeldInv)'
  BY DEF StartFails, WorkersInv, SurbInv, HeldInv, TypeOK
<1>3. AnswerInv'
  BY ConstantsAssumption DEF StartFails, Reply, TypeOK, AnswerInv, SurbInv, Tracked
<1>4. NeverStalls'
  BY DEF StartFails, NeverStalls
<1>5. AnsweredIsOver'
  BY ConstantsAssumption DEF StartFails, Reply, TypeOK, AnsweredIsOver, SurbInv, Tracked
<1> QED  BY <1>1, <1>2, <1>3, <1>4, <1>5

LEMMA StartStep ==
    ASSUME IInv, NEW m \in Msgs, NEW s \in Surbs, Start(m, s)
    PROVE  IInv'
<1> USE DEF IInv
<1>1. TypeOK'
  BY ConstantsAssumption DEF Start, TypeOK, ReqStates, RepStates, Idle, ARQState
<1>2. WorkersInv'
  BY DEF Start, WorkersInv, TypeOK, Idle
<1>3. SurbInv'
  BY ConstantsAssumption DEF Start, Fresh, TypeOK, SurbInv
<1>4. HeldInv'
  BY RepTypes DEF Start, Fresh, Held, TypeOK, HeldInv
<1>5. AnswerInv'
  BY RepTypes, ConstantsAssumption DEF Start, Fresh, TypeOK, AnswerInv, Tracked, WorkersInv
<1>6. NeverStalls'
  BY DEF Start, TypeOK, NeverStalls, Idle
<1>7. AnsweredIsOver'
  BY ConstantsAssumption DEF Start, TypeOK, AnsweredIsOver, AnswerInv, Tracked
<1> QED  BY <1>1, <1>2, <1>3, <1>4, <1>5, <1>6, <1>7

LEMMA StartPushStep ==
    ASSUME IInv, StartPush
    PROVE  IInv'
<1> USE DEF IInv
<1>1. TypeOK'
  BY DEF StartPush, Send, WorkersInv, TypeOK, ReqStates, RepStates, Idle
<1>2. (WorkersInv /\ SurbInv /\ HeldInv)'
  BY DEF StartPush, WorkersInv, SurbInv, HeldInv, Idle
<1>3. AnswerInv'
  BY DEF StartPush, AnswerInv, Tracked, Idle
<1>4. NeverStalls'
  BY DEF StartPush, NeverStalls
<1>5. AnsweredIsOver'
  BY DEF StartPush, AnsweredIsOver, Tracked
<1> QED  BY <1>1, <1>2, <1>3, <1>4, <1>5

LEMMA CancelStep ==
    ASSUME IInv, NEW app \in Apps, NEW h \in Hashes, Cancel(app, h)
    PROVE  IInv'
<1> USE DEF IInv
<1> DEFINE s == arqEnvelopeHashMap[h]
<1>0. /\ req.at = "idle" /\ req'.at = "cancel"
      /\ UNCHANGED <<msgVars, netVars, rep, clientVars>>
  BY DEF Cancel, Idle
<1>1. CASE s = NoSurb
  <2>1. /\ UNCHANGED mapVars
        /\ req' = [at |-> "cancel", msg |-> NoMsg, app |-> app, hash |-> h]
    BY <1>1 DEF Cancel
  <2>2. req' \in ReqStates
    BY <2>1 DEF ReqStates
  <2>3. TypeOK'
    BY <1>0, <2>1, <2>2 DEF TypeOK
  <2>4. (WorkersInv /\ SurbInv /\ HeldInv)'
    BY <1>0, <2>1 DEF WorkersInv, SurbInv, HeldInv
  <2>5. (AnswerInv /\ NeverStalls /\ AnsweredIsOver)'
    BY <1>0, <2>1 DEF AnswerInv, NeverStalls, AnsweredIsOver, Tracked
  <2> QED  BY <2>3, <2>4, <2>5
<1>2. CASE s \in Surbs
  <2>1. /\ req' = [at |-> "cancel", msg |-> arqSurbIDMap[s], app |-> app, hash |-> h]
        /\ arqSurbIDMap' = [arqSurbIDMap EXCEPT ![s] = NoMsg]
        /\ arqEnvelopeHashMap' = [arqEnvelopeHashMap EXCEPT ![h] = NoSurb]
    BY <1>2, ConstantsAssumption DEF Cancel
  <2>2. arqSurbIDMap[s] \in Msgs \cup {NoMsg}
    BY <1>2 DEF TypeOK
  <2>3. req' \in ReqStates
    BY <2>1, <2>2 DEF ReqStates
  <2>4. TypeOK'
    BY <1>0, <2>1, <2>3 DEF TypeOK
  <2>5. /\ arqSurbIDMap'[s] = NoMsg
        /\ \A k \in Surbs \ {s} : arqSurbIDMap'[k] = arqSurbIDMap[k]
    BY <1>2, <2>1 DEF TypeOK
  <2>6. \A n \in Msgs : Tracked(n)' => Tracked(n)
    BY <2>5, ConstantsAssumption DEF Tracked
  <2>7. (WorkersInv /\ SurbInv)'
    BY <1>0, <2>5 DEF WorkersInv, SurbInv
  <2>8. HeldInv'
    BY <1>0, <2>5, RepTypes DEF HeldInv, TypeOK
  <2>9. AnswerInv'
    <3>1. req'.msg # NoMsg => req'.msg \in started /\ \A k \in Surbs : arqSurbIDMap'[k] # req'.msg
      BY <1>2, <2>1, <2>2, <2>5 DEF SurbInv
    <3>2. rep.at = "finish" => \A k \in Surbs : arqSurbIDMap'[k] # rep.msg
      BY <2>5, RepTypes, ConstantsAssumption DEF AnswerInv, Tracked, TypeOK
    <3> QED  BY <1>0, <3>1, <3>2 DEF AnswerInv, Tracked
  <2>10. NeverStalls'
    BY <1>0, <2>5 DEF NeverStalls
  <2>11. AnsweredIsOver'
    BY <1>0, <2>6 DEF AnsweredIsOver
  <2> QED  BY <2>4, <2>7, <2>8, <2>9, <2>10, <2>11
<1> QED  BY <1>1, <1>2 DEF TypeOK

LEMMA CancelReplyStep ==
    ASSUME IInv, CancelReply
    PROVE  IInv'
<1> USE DEF IInv
<1>1. TypeOK'
  <2>1. replies' \in [Msgs -> Seq(Outcomes)]
    BY ReqTypes, ReplyTypes DEF CancelReply, TypeOK, Outcomes
  <2>2. arqTimerQueue' \subseteq Surbs /\ cancelAcked' \subseteq Msgs /\ req' \in ReqStates
    BY DEF CancelReply, TypeOK, ReqStates
  <2> QED  BY <2>1, <2>2 DEF CancelReply, TypeOK
<1>2. (WorkersInv /\ SurbInv /\ HeldInv)'
  BY DEF CancelReply, WorkersInv, SurbInv, HeldInv, Idle
<1>3. AnswerInv'
  BY ReqTypes DEF CancelReply, Reply, TypeOK, AnswerInv, Tracked, Idle
<1>4. NeverStalls'
  BY ReqTypes, ConstantsAssumption DEF CancelReply, TypeOK, NeverStalls, SurbInv, AnswerInv, Tracked
<1>5. AnsweredIsOver'
  BY ReqTypes DEF CancelReply, Reply, TypeOK, AnsweredIsOver, AnswerInv, Tracked
<1> QED  BY <1>1, <1>2, <1>3, <1>4, <1>5

LEMMA ReplyArrivesStep ==
    ASSUME IInv, NEW s \in Surbs, NEW body \in Bodies, ReplyArrives(s, body)
    PROVE  IInv'
<1> USE DEF IInv
<1> DEFINE m == arqSurbIDMap[s]
<1>1. TypeOK'
  <2>1. ASSUME m \in Msgs, CopyReply(m, body)
        PROVE  rep' \in RepStates /\ state' \in [Msgs -> ARQState]
    BY <2>1 DEF CopyReply, Terminate, TypeOK, RepStates, Results
  <2>2. ASSUME m \in Msgs, EnvelopeReply(m, body)
        PROVE  rep' \in RepStates /\ state' \in [Msgs -> ARQState]
    <3>1. \A r \in Results : Terminate(m, r) \in RepStates
      BY <2>2 DEF Terminate, RepStates
    <3>2. \A w \in {"ack", "retry"} : [at |-> "compose", msg |-> m, why |-> w] \in RepStates
      BY <2>2 DEF RepStates
    <3>3. PayloadResult(m, body) \in Results
      BY DEF PayloadResult, Results
    <3>4. state' \in [Msgs -> ARQState]
      BY <2>2 DEF EnvelopeReply, TypeOK, ARQState
    <3>5. rep' \in RepStates
      BY <2>2, <3>1, <3>2, <3>3 DEF EnvelopeReply, TypeOK, Results
    <3> QED  BY <3>4, <3>5
  <2>3. m = NoMsg \/ m \in Msgs
    BY DEF TypeOK
  <2>4. rep' \in RepStates /\ state' \in [Msgs -> ARQState]
    BY <2>1, <2>2, <2>3 DEF ReplyArrives, TypeOK
  <2> QED  BY <2>4 DEF ReplyArrives, TypeOK
<1>2. (WorkersInv /\ SurbInv /\ HeldInv)'
  BY DEF ReplyArrives, EnvelopeReply, CopyReply, Terminate, TypeOK, WorkersInv, SurbInv, HeldInv, Idle
<1>3. AnswerInv'
  BY DEF ReplyArrives, EnvelopeReply, CopyReply, Terminate, TypeOK, AnswerInv, Tracked, Idle
<1>4. (NeverStalls /\ AnsweredIsOver)'
  BY DEF ReplyArrives, EnvelopeReply, CopyReply, Terminate, NeverStalls, AnsweredIsOver, Tracked, Idle
<1> QED  BY <1>1, <1>2, <1>3, <1>4

LEMMA ReplyComposeStep ==
    ASSUME IInv, NEW s \in Surbs, ReplyCompose(s)
    PROVE  IInv'
<1> USE DEF IInv
<1>1. TypeOK'
  BY DEF ReplyCompose, WorkersInv, TypeOK, RepStates, Idle
<1>2. (WorkersInv /\ SurbInv /\ HeldInv)'
  BY DEF ReplyCompose, Fresh, WorkersInv, SurbInv, HeldInv
<1>3. (AnswerInv /\ NeverStalls /\ AnsweredIsOver)'
  BY DEF ReplyCompose, AnswerInv, NeverStalls, AnsweredIsOver, Tracked
<1> QED  BY <1>1, <1>2, <1>3

LEMMA ReplyComposeFailsStep ==
    ASSUME IInv, ReplyComposeFails
    PROVE  IInv'
<1> USE DEF IInv
<1>1. TypeOK'
  <2>1. state' \in [Msgs -> ARQState]
    BY DEF ReplyComposeFails, ResetState, TypeOK, ARQState
  <2>2. arqTimerQueue' \subseteq Surbs
    BY RepTypes DEF ReplyComposeFails, WorkersInv, TypeOK
  <2> QED  BY <2>1, <2>2 DEF ReplyComposeFails, TypeOK, RepStates
<1>2. (WorkersInv /\ SurbInv /\ HeldInv)'
  BY DEF ReplyComposeFails, WorkersInv, SurbInv, HeldInv, Idle
<1>3. (AnswerInv /\ NeverStalls /\ AnsweredIsOver)'
  BY DEF ReplyComposeFails, AnswerInv, NeverStalls, AnsweredIsOver, Tracked, Idle
<1> QED  BY <1>1, <1>2, <1>3

LEMMA ReplyRotateStep ==
    ASSUME IInv, ReplyRotate
    PROVE  IInv'
<1> USE DEF IInv
<1>0. /\ rep.at = "rotate" /\ rep.msg \in Msgs /\ rep.old \in Surbs /\ rep.new \in Surbs
      /\ rep.msg \in started
  BY RepTypes DEF ReplyRotate, TypeOK, WorkersInv
<1>1. CASE ~MayRotate
  <2>1. TypeOK'
    BY <1>1 DEF ReplyRotate, TypeOK, RepStates
  <2>2. (WorkersInv /\ SurbInv /\ HeldInv)'
    BY <1>1 DEF ReplyRotate, WorkersInv, SurbInv, HeldInv, Idle
  <2>3. (AnswerInv /\ NeverStalls /\ AnsweredIsOver)'
    BY <1>1, <1>0 DEF ReplyRotate, AnswerInv, NeverStalls, AnsweredIsOver, Tracked, Idle
  <2> QED  BY <2>1, <2>2, <2>3
<1>2. CASE MayRotate
  <2>1. Rotate(rep.msg, rep.old, rep.new) /\ arqSurbIDMap[rep.old] = rep.msg
    BY <1>2 DEF ReplyRotate, MayRotate
  <2>2. /\ arqSurbIDMap[rep.new] = NoMsg
        /\ \A n \in Msgs : surbID[n] # rep.new
    BY <1>0 DEF HeldInv
  <2>3. /\ rep' = [rep EXCEPT !.at = "schedule"]
        /\ state' = IF rep.why = "retry"
                    THEN [state EXCEPT ![rep.msg] = "WaitingForACK"] ELSE state
        /\ UNCHANGED <<started, netVars, req, clientVars>>
    BY <1>2 DEF ReplyRotate
  <2>4. /\ arqSurbIDMap' \in [Surbs -> Msgs \cup {NoMsg}]
        /\ arqEnvelopeHashMap' \in [Hashes -> Surbs \cup {NoSurb}]
        /\ surbID' \in [Msgs -> Surbs \cup {NoSurb}]
        /\ SurbInv'
        /\ \A n \in Msgs : Tracked(n)' <=> Tracked(n)
        /\ \A n \in Msgs : surbID[n] \in Surbs => surbID'[n] \in Surbs
        /\ surbID[rep.msg] = rep.old /\ surbID'[rep.msg] = rep.new
        /\ \A n \in Msgs \ {rep.msg} : surbID'[n] = surbID[n]
        /\ arqSurbIDMap'[rep.old] = NoMsg
        /\ \A s \in Surbs \ {rep.old, rep.new} : arqSurbIDMap'[s] = arqSurbIDMap[s]
    BY <1>0, <2>1, <2>2, <2>3, RotateFacts
  <2>5. /\ rep'.at = "schedule" /\ rep'.msg = rep.msg
        /\ rep'.old = rep.old /\ rep'.new = rep.new /\ rep' \in RepStates
    <3>1. rep \in [at : {"rotate", "schedule"}, msg : Msgs,
                  why : {"ack", "retry", "poll"}, old : Surbs, new : Surbs]
      BY <1>0 DEF TypeOK, RepStates, Idle
    <3>2. rep' \in [at : {"rotate", "schedule"}, msg : Msgs,
                   why : {"ack", "retry", "poll"}, old : Surbs, new : Surbs]
      BY <2>3, <3>1
    <3> QED  BY <2>3, <3>1, <3>2 DEF RepStates
  <2>6. TypeOK'
    BY <1>0, <2>3, <2>4, <2>5 DEF TypeOK, ARQState
  <2>7. (WorkersInv /\ HeldInv)'
    BY <1>0, <2>3, <2>4, <2>5, ReqTypes DEF WorkersInv, HeldInv, TypeOK
  <2>8. AnswerInv'
    BY <2>3, <2>4, <2>5, ReqTypes DEF AnswerInv, TypeOK
  <2>9. NeverStalls'
    BY <2>3, <2>4, <2>5, <1>0, ReqTypes DEF NeverStalls, TypeOK
  <2>10. AnsweredIsOver'
    BY <2>3, <2>4 DEF AnsweredIsOver
  <2> QED  BY <2>4, <2>6, <2>7, <2>8, <2>9, <2>10
<1> QED  BY <1>1, <1>2

LEMMA ReplyPollStep ==
    ASSUME IInv, NEW s \in Surbs, ReplyPoll(s)
    PROVE  IInv'
<1> USE DEF IInv
<1> DEFINE m == rep.msg
           old == surbID[m]
<1>0. /\ rep.at = "poll" /\ m \in Msgs /\ old \in Surbs /\ m \in started
      /\ arqSurbIDMap[s] = NoMsg /\ \A n \in Msgs : surbID[n] # s
  BY RepTypes DEF ReplyPoll, TypeOK, WorkersInv, Fresh
<1>1. CASE ~MayPoll(m)
  <2>1. TypeOK'
    BY <1>1 DEF ReplyPoll, TypeOK, RepStates
  <2>2. (WorkersInv /\ SurbInv /\ HeldInv)'
    BY <1>1 DEF ReplyPoll, WorkersInv, SurbInv, HeldInv, Idle
  <2>3. (AnswerInv /\ NeverStalls /\ AnsweredIsOver)'
    BY <1>1, <1>0 DEF ReplyPoll, AnswerInv, NeverStalls, AnsweredIsOver, Tracked, Idle
  <2> QED  BY <2>1, <2>2, <2>3
<1>2. CASE MayPoll(m)
  <2>1. Rotate(m, old, s) /\ arqSurbIDMap[old] = m
    BY <1>2 DEF ReplyPoll, MayPoll
  <2>2. /\ rep' = [at |-> "schedule", msg |-> m, why |-> "poll", old |-> old, new |-> s]
        /\ UNCHANGED <<started, state, netVars, req, clientVars>>
    BY <1>2 DEF ReplyPoll
  <2>3. /\ arqSurbIDMap' \in [Surbs -> Msgs \cup {NoMsg}]
        /\ arqEnvelopeHashMap' \in [Hashes -> Surbs \cup {NoSurb}]
        /\ surbID' \in [Msgs -> Surbs \cup {NoSurb}]
        /\ SurbInv'
        /\ \A n \in Msgs : Tracked(n)' <=> Tracked(n)
        /\ \A n \in Msgs : surbID[n] \in Surbs => surbID'[n] \in Surbs
        /\ surbID'[m] = s
        /\ \A n \in Msgs \ {m} : surbID'[n] = surbID[n]
        /\ arqSurbIDMap'[old] = NoMsg
        /\ \A k \in Surbs \ {old, s} : arqSurbIDMap'[k] = arqSurbIDMap[k]
    BY <1>0, <2>1, <2>2, RotateFacts
  <2>4. rep' \in RepStates
    BY <1>0, <2>2 DEF RepStates
  <2>5. TypeOK'
    BY <2>2, <2>3, <2>4 DEF TypeOK
  <2>6. (WorkersInv /\ HeldInv)'
    BY <1>0, <2>2, <2>3, ReqTypes DEF WorkersInv, HeldInv, TypeOK
  <2>7. AnswerInv'
    BY <2>2, <2>3, ReqTypes DEF AnswerInv, TypeOK
  <2>8. NeverStalls'
    BY <2>2, <2>3, <1>0, ReqTypes DEF NeverStalls, TypeOK
  <2>9. AnsweredIsOver'
    BY <2>2, <2>3 DEF AnsweredIsOver
  <2> QED  BY <2>3, <2>5, <2>6, <2>7, <2>8, <2>9
<1> QED  BY <1>1, <1>2

LEMMA ReplyScheduleStep ==
    ASSUME IInv, ReplySchedule
    PROVE  IInv'
<1> USE DEF IInv
<1>1. TypeOK'
  BY RepTypes DEF ReplySchedule, Send, TypeOK, ReqStates, RepStates, Idle
<1>2. (WorkersInv /\ SurbInv /\ HeldInv)'
  BY DEF ReplySchedule, WorkersInv, SurbInv, HeldInv, Idle
<1>3. NeverStalls'
  BY RepTypes DEF ReplySchedule, NeverStalls, HeldInv, TypeOK
<1>4. (AnswerInv /\ AnsweredIsOver)'
  BY DEF ReplySchedule, AnswerInv, AnsweredIsOver, Tracked, Idle
<1> QED  BY <1>1, <1>2, <1>3, <1>4

LEMMA ReplyTerminateStep ==
    ASSUME IInv, ReplyTerminate
    PROVE  IInv'
<1> USE DEF IInv
<1>0. /\ rep.at = "terminate" /\ rep.msg \in Msgs /\ rep.msg \in started
      /\ surbID[rep.msg] \in Surbs
  BY RepTypes DEF ReplyTerminate, TypeOK, WorkersInv
<1>1. rep' \in RepStates /\ (rep' = Idle \/ (rep'.at = "finish" /\ rep'.msg = rep.msg))
  <2>1. rep \in [at : {"terminate"}, msg : Msgs, out : Results]
    BY <1>0 DEF TypeOK, RepStates, Idle
  <2>2. CASE rep.out = "dropped"
    BY <2>2 DEF ReplyTerminate, RepStates, Idle
  <2>3. CASE rep.out # "dropped"
    <3>1. rep' = [rep EXCEPT !.at = "finish"]
      BY <2>3 DEF ReplyTerminate
    <3>2. rep' \in [at : {"finish"}, msg : Msgs, out : Outcomes]
      BY <2>1, <2>3, <3>1 DEF Results, Outcomes
    <3> QED  BY <2>1, <3>1, <3>2 DEF RepStates, Idle
  <2> QED  BY <2>2, <2>3
<1>2. TypeOK'
  BY <1>0, <1>1 DEF ReplyTerminate, TypeOK
<1>3. (WorkersInv /\ HeldInv)'
  BY <1>0, <1>1 DEF ReplyTerminate, WorkersInv, HeldInv, Idle
<1>4. SurbInv'
  BY <1>0 DEF ReplyTerminate, TypeOK, SurbInv
<1>5. /\ \A k \in Surbs : arqSurbIDMap'[k] # rep.msg
      /\ \A n \in Msgs : Tracked(n)' => Tracked(n)
  <2>1. /\ arqSurbIDMap'[surbID[rep.msg]] = NoMsg
        /\ \A k \in Surbs \ {surbID[rep.msg]} : arqSurbIDMap'[k] = arqSurbIDMap[k]
    BY <1>0 DEF ReplyTerminate, TypeOK
  <2>2. \A k \in Surbs : arqSurbIDMap'[k] # rep.msg
    BY <1>0, <2>1, ConstantsAssumption DEF SurbInv
  <2>3. \A n \in Msgs : Tracked(n)' => Tracked(n)
    BY <2>1, ConstantsAssumption DEF Tracked
  <2> QED  BY <2>2, <2>3
<1>6. AnswerInv'
  BY <1>1, <1>5, ReqTypes DEF ReplyTerminate, AnswerInv, TypeOK, Idle, Tracked
<1>7. NeverStalls'
  BY <1>0, <1>1 DEF ReplyTerminate, TypeOK, NeverStalls
<1>8. AnsweredIsOver'
  BY <1>5 DEF ReplyTerminate, AnsweredIsOver
<1> QED  BY <1>2, <1>3, <1>4, <1>6, <1>7, <1>8

LEMMA ReplyFinishStep ==
    ASSUME IInv, ReplyFinish
    PROVE  IInv'
<1> USE DEF IInv
<1>0. rep.at = "finish" /\ rep.msg \in Msgs /\ rep.msg \in started /\ rep.out \in Outcomes
  BY RepTypes DEF ReplyFinish, TypeOK, WorkersInv, RepStates, Idle
<1>1. TypeOK'
  <2>1. replies' \in [Msgs -> Seq(Outcomes)]
    BY <1>0, ReplyTypes DEF ReplyFinish
  <2> QED  BY <2>1 DEF ReplyFinish, TypeOK, RepStates
<1>2. (WorkersInv /\ SurbInv /\ HeldInv)'
  BY DEF ReplyFinish, WorkersInv, SurbInv, HeldInv, Idle
<1>3. AnswerInv'
  BY <1>0 DEF ReplyFinish, Reply, TypeOK, AnswerInv, Tracked, Idle
<1>4. NeverStalls'
  BY <1>0 DEF ReplyFinish, NeverStalls
<1>5. AnsweredIsOver'
  BY <1>0 DEF ReplyFinish, Reply, TypeOK, AnsweredIsOver, AnswerInv, Tracked
<1> QED  BY <1>1, <1>2, <1>3, <1>4, <1>5

LEMMA TimerStaleStep ==
    ASSUME IInv, NEW s \in Surbs, TimerStale(s)
    PROVE  IInv'
<1> USE DEF IInv
<1>1. TypeOK'
  BY DEF TimerStale, TypeOK
<1>2. (WorkersInv /\ SurbInv /\ HeldInv)'
  BY DEF TimerStale, WorkersInv, SurbInv, HeldInv
<1>3. (AnswerInv /\ NeverStalls /\ AnsweredIsOver)'
  BY DEF TimerStale, AnswerInv, NeverStalls, AnsweredIsOver, Tracked
<1> QED  BY <1>1, <1>2, <1>3

LEMMA TimerResendsStep ==
    ASSUME IInv, NEW s \in Surbs, NEW new \in Surbs, TimerResends(s, new)
    PROVE  IInv'
<1> USE DEF IInv
<1> DEFINE m == arqSurbIDMap[s]
<1>0. /\ m \in Msgs /\ Rotate(m, s, new)
      /\ arqSurbIDMap[new] = NoMsg /\ \A n \in Msgs : surbID[n] # new
      /\ new \notin Held
  BY DEF TimerResends, Fresh, TypeOK
<1>1. /\ arqTimerQueue' = (arqTimerQueue \ {s}) \cup {new}
      /\ UNCHANGED <<started, req, rep, clientVars>>
  BY DEF TimerResends
<1>2. /\ arqSurbIDMap' \in [Surbs -> Msgs \cup {NoMsg}]
      /\ arqEnvelopeHashMap' \in [Hashes -> Surbs \cup {NoSurb}]
      /\ surbID' \in [Msgs -> Surbs \cup {NoSurb}]
      /\ SurbInv'
      /\ \A n \in Msgs : Tracked(n)' <=> Tracked(n)
      /\ \A n \in Msgs : surbID[n] \in Surbs => surbID'[n] \in Surbs
      /\ surbID[m] = s /\ surbID'[m] = new
      /\ \A n \in Msgs \ {m} : surbID'[n] = surbID[n]
      /\ arqSurbIDMap'[s] = NoMsg
      /\ \A k \in Surbs \ {s, new} : arqSurbIDMap'[k] = arqSurbIDMap[k]
  BY <1>0, <1>1, RotateFacts
<1>3. state' \in [Msgs -> ARQState] /\ inFlight' \subseteq Surbs
  BY DEF TimerResends, ResetState, Send, TypeOK, ARQState
<1>4. TypeOK'
  BY <1>1, <1>2, <1>3 DEF TypeOK
<1>5. WorkersInv'
  BY <1>1, <1>2, ReqTypes, RepTypes DEF WorkersInv, TypeOK
<1>6. HeldInv'
  BY <1>0, <1>1, <1>2, RepTypes DEF HeldInv, Held, TypeOK
<1>7. AnswerInv'
  BY <1>1, <1>2, ReqTypes, RepTypes DEF AnswerInv, TypeOK
<1>8. NeverStalls'
  BY <1>0, <1>1, <1>2, ReqTypes DEF NeverStalls, TypeOK
<1>9. AnsweredIsOver'
  BY <1>1, <1>2 DEF AnsweredIsOver
<1> QED  BY <1>2, <1>4, <1>5, <1>6, <1>7, <1>8, <1>9

LEMMA DisconnectStep ==
    ASSUME IInv, NEW app \in Apps, Disconnect(app)
    PROVE  IInv'
<1> USE DEF IInv
<1>1. TypeOK'
  BY DEF Disconnect, TypeOK, Link
<1>2. (WorkersInv /\ SurbInv /\ HeldInv)'
  BY DEF Disconnect, WorkersInv, SurbInv, HeldInv
<1>3. (AnswerInv /\ NeverStalls /\ AnsweredIsOver)'
  BY DEF Disconnect, AnswerInv, NeverStalls, AnsweredIsOver, Tracked
<1> QED  BY <1>1, <1>2, <1>3

LEMMA CleanupStep ==
    ASSUME IInv, NEW app \in Apps, Cleanup(app)
    PROVE  IInv'
<1> USE DEF IInv
<1>1. TypeOK'
  BY DEF Cleanup, TypeOK, Link
<1>2. (WorkersInv /\ SurbInv)'
  BY DEF Cleanup, TypeOK, WorkersInv, SurbInv
<1>3. HeldInv'
  BY RepTypes DEF Cleanup, TypeOK, HeldInv
<1>4. AnswerInv'
  BY ConstantsAssumption, ReqTypes, RepTypes DEF Cleanup, TypeOK, AnswerInv, Tracked
<1>5. NeverStalls'
  BY DEF Cleanup, NeverStalls
<1>6. AnsweredIsOver'
  BY ConstantsAssumption DEF Cleanup, AnsweredIsOver, Tracked
<1> QED  BY <1>1, <1>2, <1>3, <1>4, <1>5, <1>6

LEMMA InitInvariant == Init => IInv
<1> SUFFICES ASSUME Init PROVE IInv
  OBVIOUS
<1>1. TypeOK
  BY DEF Init, TypeOK, Link, ARQState, ReqStates, RepStates
<1>2. WorkersInv /\ SurbInv /\ HeldInv
  BY DEF Init, WorkersInv, SurbInv, HeldInv, Idle
<1>3. AnswerInv /\ NeverStalls /\ AnsweredIsOver
  BY DEF Init, AnswerInv, NeverStalls, AnsweredIsOver, Idle
<1> QED  BY <1>1, <1>2, <1>3 DEF IInv

LEMMA NextInvariant == IInv /\ [Next]_vars => IInv'
<1> SUFFICES ASSUME IInv, [Next]_vars PROVE IInv'
  OBVIOUS
<1>1. CASE Next
  BY <1>1, StartFailsStep, StartStep, StartPushStep, CancelStep, CancelReplyStep,
     ReplyArrivesStep, ReplyComposeStep, ReplyComposeFailsStep, ReplyRotateStep,
     ReplyPollStep, ReplyScheduleStep, ReplyTerminateStep, ReplyFinishStep,
     TimerStaleStep, TimerResendsStep, DisconnectStep, CleanupStep DEF Next
<1>2. CASE UNCHANGED vars
  BY <1>2 DEF vars, IInv, TypeOK, WorkersInv, SurbInv, HeldInv, AnswerInv,
     NeverStalls, AnsweredIsOver, Tracked
<1> QED  BY <1>1, <1>2

-----------------------------------------------------------------------------
(* The ARQ's state is well typed, and its inductive invariant holds, in    *)
(* every reachable state.                                                  *)
THEOREM Invariance == Spec => []IInv
BY InitInvariant, NextInvariant, PTL DEF Spec

THEOREM TypeCorrect == Spec => []TypeOK
<1>1. IInv => TypeOK
  BY DEF IInv
<1> QED  BY Invariance, <1>1, PTL

(* Every tracked operation has a timer for its current SURB ID, or the     *)
(* thread that moved it there is about to push one: none hangs silently.   *)
THEOREM TrackedIsScheduled == Spec => []NeverStalls
<1>1. IInv => NeverStalls
  BY DEF IInv
<1> QED  BY Invariance, <1>1, PTL

(* An operation whose owner was answered is not retransmitted any more.    *)
THEOREM AnswerEndsOperation == Spec => []AnsweredIsOver
<1>1. IInv => AnsweredIsOver
  BY DEF IInv
<1> QED  BY Invariance, <1>1, PTL

(* What has been started is not registered again once it is not.           *)
LEMMA NeverBack ==
    ASSUME IInv, [Next]_vars, NEW m \in started, Tracked(m)'
    PROVE  Tracked(m)
<1> USE DEF IInv
<1>0. m \in Msgs /\ m # NoMsg
  BY ConstantsAssumption DEF TypeOK
<1>1. ASSUME NEW n \in Msgs, NEW s \in Surbs, Start(n, s)  PROVE Tracked(m)
  BY <1>1, <1>0 DEF Start, Tracked, TypeOK
<1>2. ASSUME NEW app \in Apps, NEW h \in Hashes, Cancel(app, h)  PROVE Tracked(m)
  BY <1>2, <1>0 DEF Cancel, Tracked, TypeOK
<1>3. CASE ReplyRotate
  BY <1>3, <1>0, RepTypes DEF ReplyRotate, MayRotate, Rotate, Tracked, TypeOK
<1>4. ASSUME NEW s \in Surbs, ReplyPoll(s)  PROVE Tracked(m)
  BY <1>4, <1>0, RepTypes DEF ReplyPoll, MayPoll, Rotate, Tracked, TypeOK
<1>5. CASE ReplyTerminate
  BY <1>5, <1>0 DEF ReplyTerminate, Tracked, TypeOK
<1>6. ASSUME NEW s \in Surbs, NEW new \in Surbs, TimerResends(s, new)  PROVE Tracked(m)
  BY <1>6, <1>0 DEF TimerResends, Rotate, Tracked, TypeOK
<1>7. ASSUME NEW app \in Apps, Cleanup(app)  PROVE Tracked(m)
  BY <1>7, <1>0 DEF Cleanup, Tracked, TypeOK
<1>8. CASE UNCHANGED arqSurbIDMap
  BY <1>8 DEF Tracked
<1>9. \/ \E n \in Msgs, s \in Surbs : Start(n, s)
      \/ \E app \in Apps, h \in Hashes : Cancel(app, h)
      \/ ReplyRotate
      \/ \E s \in Surbs : ReplyPoll(s)
      \/ ReplyTerminate
      \/ \E s, new \in Surbs : TimerResends(s, new)
      \/ \E app \in Apps : Cleanup(app)
      \/ UNCHANGED arqSurbIDMap
  BY DEF Next, vars, StartFails, StartPush, CancelReply, ReplyArrives, ReplyCompose,
     ReplyComposeFails, ReplySchedule, ReplyFinish, TimerStale, Disconnect
<1> QED  BY <1>1, <1>2, <1>3, <1>4, <1>5, <1>6, <1>7, <1>8, <1>9

(* An operation that has left the maps, by cancel, answer, drop or         *)
(* cleanup, is never registered again, whatever the interleaving.          *)
THEOREM CancelIsFinal == Spec => NeverUncancelled
<1>1. IInv /\ [Next]_vars => [\A m \in started : Tracked(m)' => Tracked(m)]_vars
  BY NeverBack
<1> QED  BY Invariance, <1>1, PTL DEF Spec, NeverUncancelled
=============================================================================
