--------------------------- MODULE ResendOperation ---------------------------
(***************************************************************************)
(* What the daemon promises a thin client about one StartResending* query, *)
(* whatever SURBs, timers and retries it takes: the operation is begun at  *)
(* most once, it runs until something ends it, it never runs again after   *)
(* that, and only then is its owner told how it ended: at most once by     *)
(* the courier's answer and at most once by a cancellation.                *)
(***************************************************************************)
EXTENDS Naturals, Sequences

CONSTANT Msgs       \* the queries

VARIABLES
    phase,          \* [Msgs -> {"idle", "pending", "over"}]
    answers         \* [Msgs -> Seq(Outcomes)]: what the owner was told

opVars == <<phase, answers>>

Outcomes == {"success", "error", "tombstone", "cancelled"}

OpInit ==
    /\ phase = [m \in Msgs |-> "idle"]
    /\ answers = [m \in Msgs |-> <<>>]

Told(m, o) == \E i \in DOMAIN answers[m] : answers[m][i] = o

(* The request is taken up, or refused with an error.                      *)
Begin(m) ==
    /\ phase[m] = "idle"
    /\ phase' = [phase EXCEPT ![m] = "pending"]
    /\ UNCHANGED answers

Refuse(m) ==
    /\ phase[m] = "idle"
    /\ phase' = [phase EXCEPT ![m] = "over"]
    /\ answers' \in {answers, [answers EXCEPT ![m] = <<"error">>]}

(* Operations end together when their owner's connection does.             *)
End(S) ==
    /\ S # {} /\ \A m \in S : phase[m] = "pending"
    /\ phase' = [m \in Msgs |-> IF m \in S THEN "over" ELSE phase[m]]
    /\ UNCHANGED answers

Answer(m, o) ==
    /\ phase[m] = "over"
    /\ IF o = "cancelled"
       THEN ~Told(m, o)
       ELSE \A p \in Outcomes \ {"cancelled"} : ~Told(m, p)
    /\ answers' = [answers EXCEPT ![m] = Append(@, o)]
    /\ UNCHANGED phase

OpNext ==
    \/ \E m \in Msgs : Begin(m) \/ Refuse(m)
    \/ \E S \in SUBSET Msgs : End(S)
    \/ \E m \in Msgs, o \in Outcomes : Answer(m, o)

OpSpec == OpInit /\ [][OpNext]_opVars
=============================================================================
