-------------------------- MODULE ThinClient_proofs --------------------------
(***************************************************************************)
(* Proofs about PKIDocCache and ThinSession, for every set of epochs and   *)
(* of requests and every bound.                                            *)
(***************************************************************************)
EXTENDS ThinSession, TLAPS

-----------------------------------------------------------------------------
(* The document cache.                                                     *)

(* What RecentEpochsFound rests on: the document between the two critical  *)
(* sections is the current one, and every other recent one is cached.      *)
DocInv ==
    /\ DocTypeOK
    /\ parsing # NoDoc => pkidoc = parsing /\ parsing \in received
    /\ pkiDocCache \subseteq received
    /\ Recent \subseteq pkiDocCache \cup {parsing}

LEMMA DocInitInv == DocInit => DocInv
BY DEF DocInit, DocInv, DocTypeOK, Recent

LEMMA DocStepInv == DocInv /\ [DocNext]_docVars => DocInv'
<1> SUFFICES ASSUME DocInv, [DocNext]_docVars  PROVE DocInv'
  OBVIOUS
<1> USE EpochsAssumption
<1>1. CASE CacheDoc
  <2>1. /\ parsing \in Epochs /\ parsing \in received
        /\ pkidoc \in Epochs /\ received \subseteq Nat
    BY <1>1 DEF CacheDoc, DocInv, DocTypeOK
  <2>2. pkiDocCache' \subseteq pkiDocCache \cup {parsing}
    BY <1>1 DEF CacheDoc, Kept
  <2>3. Recent' = Recent
    BY <1>1 DEF CacheDoc, Recent
  <2>4. ASSUME NEW e \in Recent  PROVE e \in pkiDocCache'
    <3>1. e \in pkiDocCache \cup {parsing} /\ e \in Nat
      BY <2>1 DEF DocInv, Recent
    <3>2. e >= parsing - MaxCachedEpochs
      BY <2>1, <3>1 DEF Recent
    <3> QED  BY <1>1, <3>1, <3>2 DEF CacheDoc, Kept
  <2> QED  BY <1>1, <2>1, <2>2, <2>3, <2>4 DEF CacheDoc, DocInv, DocTypeOK
<1>2. ASSUME NEW e \in Epochs, SetCurrent(e)  PROVE DocInv'
  <2>1. Recent' \subseteq Recent \cup {e}
    BY <1>2 DEF SetCurrent, Recent
  <2>2. Recent \subseteq pkiDocCache
    BY <1>2 DEF SetCurrent, DocInv, DocTypeOK, Recent
  <2>3. e # NoDoc
    OBVIOUS
  <2>4. Recent' \subseteq pkiDocCache \cup {e}
    BY <2>1, <2>2
  <2> QED  BY <1>2, <2>3, <2>4 DEF SetCurrent, DocInv, DocTypeOK
<1>3. CASE UNCHANGED docVars
  BY <1>3 DEF docVars, DocInv, DocTypeOK, Recent
<1> QED  BY <1>1, <1>2, <1>3 DEF DocNext

LEMMA DocInvFound == DocInv => RecentEpochsFound
BY EpochsAssumption DEF DocInv, DocTypeOK, Recent, RecentEpochsFound, PKIDocumentForEpoch

(* A document that was received and is recent is found under its own       *)
(* epoch, also between the two critical sections of parsePKIDoc and        *)
(* whatever the order documents arrive in.                                 *)
THEOREM RecentDocsFound == DocSpec => []RecentEpochsFound
<1>1. DocSpec => []DocInv
  BY DocInitInv, DocStepInv, PTL DEF DocSpec
<1> QED  BY <1>1, DocInvFound, PTL

-----------------------------------------------------------------------------
(* The session.                                                            *)

(* The requests that the daemon should know of, and those it will.         *)
Expected == inFlightResends \ (answered \cup lost)
Known    == held \cup pipe \cup {writing}

(* Instances only move forward, and a connection that is up leads to the   *)
(* one that is running.                                                    *)
InstanceInv ==
    /\ daemon <= breaks + 1
    /\ conn.to <= daemon
    /\ conn.up => conn.to = daemon

(* The token is the one of the connection, but for a new connection that   *)
(* has not brought its status event; while the client reconnects, the      *)
(* previous token is the one of the last session.                          *)
TokenInv ==
    /\ pc \notin {"redial", "status"} => daemonInstanceToken = conn.to
    /\ pc \notin {"read", "replay"} => previousToken <= conn.to

(* If the instance of this session, or of the last, is still running, it   *)
(* knows what it should, or the replay will tell it.                       *)
ReplayInv ==
    /\ pc = "read" /\ conn.to = daemon => Expected \subseteq Known
    /\ pc = "replay" /\ conn.to = daemon => Expected \subseteq Known \cup todo
    /\ pc \notin {"read", "replay"} /\ previousToken = daemon => Expected \subseteq Known

SessionInv == TypeOK /\ InstanceInv /\ TokenInv /\ ReplayInv

LEMMA SessionInitInv == Init => SessionInv
BY SessionAssumption, EpochsAssumption
   DEF Init, DocInit, DocTypeOK, SessionInv, TypeOK, InstanceInv, TokenInv, ReplayInv,
       Expected, Known, Instances, Handshake

LEMMA DocSteps ==
    ASSUME Next  PROVE [DocNext]_docVars
BY DEF Next, DocNext, docVars, Break, Restart, DaemonReceives, StartResending, CallerGetsReply,
       ReadReply, Replay, WriteRequest, CallerSetsConnected, CallerReturns, ReadStatusEvent,
       ReadDocEvent, ReadFails, Notify, DialSucceeds, HandshakeStatus, HandshakeDoc,
       HandshakeToken, HandshakeReply, HandshakeFails, ReplayDone, FinishDoc

LEMMA DocTypes ==
    ASSUME DocTypeOK, [DocNext]_docVars  PROVE DocTypeOK'
BY DEF DocTypeOK, DocNext, SetCurrent, CacheDoc, Kept, docVars

LEMMA TypeStep == SessionInv /\ [Next]_vars => TypeOK'
<1> SUFFICES ASSUME SessionInv, [Next]_vars  PROVE TypeOK'
  OBVIOUS
<1> USE SessionAssumption DEF SessionInv, TypeOK, InstanceInv, Instances, Handshake,
        daemonVars, tokenVars, reqVars
<1>0. DocTypeOK'
  BY DocSteps, DocTypes DEF vars
<1>1. CASE Break
  <2>1. breaks' \in 0..MaxBreaks
    BY <1>1 DEF Break
  <2>2. conn' \in [to : 1..(MaxBreaks + 1), up : BOOLEAN]
    BY <1>1 DEF Break
  <2>3. UNCHANGED <<daemon, online, held, pc, daemonInstanceToken, previousToken, isConnected,
                    inFlightResends, todo, writing, statuses, answered, failed>>
    BY <1>1 DEF Break
  <2>4. pipe' \subseteq Reqs /\ lost' \subseteq Reqs
    BY <1>1 DEF Break
  <2> QED  BY <1>0, <2>1, <2>2, <2>3, <2>4
<1>2. CASE Restart
  <2>1. breaks' \in 0..MaxBreaks /\ daemon' \in 1..(MaxBreaks + 1)
    BY <1>2 DEF Restart
  <2>2. conn' \in [to : 1..(MaxBreaks + 1), up : BOOLEAN]
    BY <1>2 DEF Restart
  <2>3. UNCHANGED <<online, pc, daemonInstanceToken, previousToken, isConnected,
                    inFlightResends, todo, writing, statuses, answered, failed>>
    BY <1>2 DEF Restart
  <2>4. held' = {} /\ pipe' = {} /\ lost' = {}
    BY <1>2 DEF Restart
  <2> QED  BY <1>0, <2>1, <2>2, <2>3, <2>4
<1>3. ASSUME NEW r \in Reqs, DaemonReceives(r)  PROVE TypeOK'
  BY <1>3, <1>0 DEF DaemonReceives
<1>4. ASSUME NEW r \in Reqs, StartResending(r)  PROVE TypeOK'
  BY <1>4, <1>0 DEF StartResending
<1>5. ASSUME NEW r \in Reqs, CallerGetsReply(r)  PROVE TypeOK'
  BY <1>5, <1>0 DEF CallerGetsReply
<1>6. ASSUME NEW r \in Reqs, ReadReply(r)  PROVE TypeOK'
  BY <1>6, <1>0 DEF ReadReply
<1>7. ASSUME NEW r \in Reqs, Replay(r)  PROVE TypeOK'
  BY <1>7, <1>0 DEF Replay, WriteTo, WriteLost
<1>8. CASE WriteRequest
  BY <1>8, <1>0 DEF WriteRequest, WriteTo, WriteLost
<1>9. CASE CallerSetsConnected
  BY <1>9, <1>0 DEF CallerSetsConnected
<1>10. CASE CallerReturns
  BY <1>10, <1>0 DEF CallerReturns
<1>11. CASE ReadStatusEvent
  BY <1>11, <1>0 DEF ReadStatusEvent
<1>12. ASSUME NEW e \in Epochs, ReadDocEvent(e)  PROVE TypeOK'
  <2>1. UNCHANGED sessionVars
    BY <1>12 DEF ReadDocEvent
  <2>2. TypeOK
    OBVIOUS
  <2> HIDE DEF SessionInv, InstanceInv
  <2> QED  BY <1>0, <2>1, <2>2 DEF sessionVars
<1>13. CASE ReadFails
  BY <1>13, <1>0 DEF ReadFails
<1>14. CASE Notify
  BY <1>14, <1>0 DEF Notify
<1>15. CASE DialSucceeds
  BY <1>15, <1>0 DEF DialSucceeds
<1>16. CASE HandshakeStatus
  BY <1>16, <1>0 DEF HandshakeStatus
<1>17. CASE HandshakeDoc
  BY <1>17, <1>0 DEF HandshakeDoc
<1>18. CASE HandshakeToken
  BY <1>18, <1>0 DEF HandshakeToken
<1>19. CASE HandshakeReply
  BY <1>19, <1>0 DEF HandshakeReply, NeedsReplay
<1>20. CASE HandshakeFails
  BY <1>20, <1>0 DEF HandshakeFails
<1>21. CASE ReplayDone
  BY <1>21, <1>0 DEF ReplayDone
<1>22. CASE FinishDoc
  BY <1>22, <1>0 DEF FinishDoc, sessionVars
<1>23. CASE UNCHANGED vars
  BY <1>23, <1>0 DEF vars, sessionVars
<1> QED
  BY <1>1, <1>2, <1>3, <1>4, <1>5, <1>6, <1>7, <1>8, <1>9, <1>10, <1>11, <1>12,
     <1>13, <1>14, <1>15, <1>16, <1>17, <1>18, <1>19, <1>20, <1>21, <1>22, <1>23 DEF Next

LEMMA InstanceStep == SessionInv /\ [Next]_vars => InstanceInv'
<1> SUFFICES ASSUME SessionInv, [Next]_vars  PROVE InstanceInv'
  OBVIOUS
<1> USE SessionAssumption DEF SessionInv, TypeOK, InstanceInv, Instances, daemonVars
<1>1. CASE Break
  BY <1>1 DEF Break
<1>2. CASE Restart
  BY <1>2 DEF Restart
<1>3. CASE DialSucceeds
  BY <1>3 DEF DialSucceeds
<1>4. CASE UNCHANGED <<daemon, conn, breaks>>
  BY <1>4
<1> QED
  BY <1>1, <1>2, <1>3, <1>4
     DEF Next, vars, sessionVars, DaemonReceives, StartResending, CallerGetsReply, ReadReply,
         Replay, WriteRequest, CallerSetsConnected, CallerReturns, ReadStatusEvent,
         ReadDocEvent, ReadFails, Notify, HandshakeStatus, HandshakeDoc, HandshakeToken,
         HandshakeReply, HandshakeFails, ReplayDone, FinishDoc

LEMMA TokenStep == SessionInv /\ [Next]_vars => TokenInv'
<1> SUFFICES ASSUME SessionInv, [Next]_vars  PROVE TokenInv'
  OBVIOUS
<1> USE DEF SessionInv, TypeOK, InstanceInv, TokenInv, Instances, Handshake, tokenVars
<1>1. CASE Break
  BY <1>1 DEF Break
<1>2. CASE Restart
  BY <1>2 DEF Restart
<1>3. CASE ReadFails
  BY <1>3 DEF ReadFails
<1>4. CASE Notify
  BY <1>4 DEF Notify
<1>5. CASE DialSucceeds
  BY <1>5 DEF DialSucceeds
<1>6. CASE HandshakeStatus
  BY <1>6 DEF HandshakeStatus
<1>7. CASE HandshakeDoc
  BY <1>7 DEF HandshakeDoc
<1>8. CASE HandshakeToken
  BY <1>8 DEF HandshakeToken
<1>9. CASE HandshakeReply
  BY <1>9 DEF HandshakeReply
<1>10. CASE HandshakeFails
  BY <1>10 DEF HandshakeFails
<1>11. CASE ReplayDone
  BY <1>11 DEF ReplayDone
<1>12. CASE UNCHANGED <<conn, pc, tokenVars>>
  BY <1>12
<1> QED
  BY <1>1, <1>2, <1>3, <1>4, <1>5, <1>6, <1>7, <1>8, <1>9, <1>10, <1>11, <1>12
     DEF Next, vars, sessionVars, DaemonReceives, StartResending, CallerGetsReply, ReadReply,
         Replay, WriteRequest, CallerSetsConnected, CallerReturns, ReadStatusEvent,
         ReadDocEvent, FinishDoc

LEMMA ReplayStep == SessionInv /\ [Next]_vars => ReplayInv'
<1> SUFFICES ASSUME SessionInv, [Next]_vars  PROVE ReplayInv'
  OBVIOUS
<1> USE SessionAssumption DEF SessionInv, TypeOK, InstanceInv, TokenInv, ReplayInv, Expected, Known,
        Instances, Handshake, daemonVars, tokenVars, reqVars
<1>1. CASE Break
  BY <1>1 DEF Break
<1>2. CASE Restart
  BY <1>2 DEF Restart
<1>3. ASSUME NEW r \in Reqs, DaemonReceives(r)  PROVE ReplayInv'
  BY <1>3 DEF DaemonReceives
<1>4. ASSUME NEW r \in Reqs, StartResending(r)  PROVE ReplayInv'
  BY <1>4 DEF StartResending
<1>5. ASSUME NEW r \in Reqs, CallerGetsReply(r)  PROVE ReplayInv'
  BY <1>5 DEF CallerGetsReply
<1>6. ASSUME NEW r \in Reqs, ReadReply(r)  PROVE ReplayInv'
  BY <1>6 DEF ReadReply
<1>7. ASSUME NEW r \in Reqs, Replay(r)  PROVE ReplayInv'
  BY <1>7 DEF Replay, WriteTo, WriteLost
<1>8. CASE WriteRequest
  BY <1>8 DEF WriteRequest, WriteTo, WriteLost
<1>9. CASE CallerSetsConnected
  BY <1>9 DEF CallerSetsConnected
<1>10. CASE CallerReturns
  BY <1>10 DEF CallerReturns
<1>11. CASE ReadStatusEvent
  BY <1>11 DEF ReadStatusEvent
<1>12. ASSUME NEW e \in Epochs, ReadDocEvent(e)  PROVE ReplayInv'
  BY <1>12 DEF ReadDocEvent, sessionVars
<1>13. CASE ReadFails
  BY <1>13 DEF ReadFails
<1>14. CASE Notify
  BY <1>14 DEF Notify
<1>15. CASE DialSucceeds
  BY <1>15 DEF DialSucceeds
<1>16. CASE HandshakeStatus
  BY <1>16 DEF HandshakeStatus
<1>17. CASE HandshakeDoc
  BY <1>17 DEF HandshakeDoc
<1>18. CASE HandshakeToken
  BY <1>18 DEF HandshakeToken
<1>19. CASE HandshakeReply
  BY <1>19 DEF HandshakeReply, NeedsReplay
<1>20. CASE HandshakeFails
  BY <1>20 DEF HandshakeFails
<1>21. CASE ReplayDone
  BY <1>21 DEF ReplayDone
<1>22. CASE FinishDoc
  BY <1>22 DEF FinishDoc, sessionVars
<1>23. CASE UNCHANGED vars
  BY <1>23 DEF vars, sessionVars
<1> QED
  BY <1>1, <1>2, <1>3, <1>4, <1>5, <1>6, <1>7, <1>8, <1>9, <1>10, <1>11, <1>12,
     <1>13, <1>14, <1>15, <1>16, <1>17, <1>18, <1>19, <1>20, <1>21, <1>22, <1>23 DEF Next

LEMMA SessionStepInv == SessionInv /\ [Next]_vars => SessionInv'
BY TypeStep, InstanceStep, TokenStep, ReplayStep DEF SessionInv

THEOREM SessionInvariance == Spec => []SessionInv
BY SessionInitInv, SessionStepInv, PTL DEF Spec

THEOREM SessionTypeCorrect == Spec => []TypeOK
<1>1. SessionInv => TypeOK
  BY DEF SessionInv
<1> QED  BY SessionInvariance, <1>1, PTL

(* However many attempts of the redial fail half-way, and whatever         *)
(* instances they meet, a client that reads knows whom it reads from.      *)
THEOREM TokenCorrect == Spec => []TokenIsCurrent
<1>1. SessionInv => TokenIsCurrent
  BY DEF SessionInv, InstanceInv, TokenInv, TokenIsCurrent, Handshake
<1> QED  BY SessionInvariance, <1>1, PTL

(* Whatever the breaks and restarts, a client that reads from a daemon has *)
(* told it of every request in flight but those lost without a restart.    *)
THEOREM ReplayCorrect == Spec => []InFlightKnown
<1>1. SessionInv => InFlightKnown
  BY DEF SessionInv, InstanceInv, ReplayInv, InFlightKnown, Expected, Known
<1> QED  BY SessionInvariance, <1>1, PTL

(* The cache keeps its promise inside the session too.                     *)
THEOREM SessionDocsFound == Spec => []RecentEpochsFound
<1>1. Init => DocInv
  BY DocInitInv DEF Init
<1>2. DocInv /\ [Next]_vars => DocInv'
  BY DocSteps, DocStepInv DEF vars
<1> QED  BY <1>1, <1>2, DocInvFound, PTL DEF Spec
=============================================================================
