----------------------------- MODULE Chatd_proofs -----------------------------
(***************************************************************************)
(* Proofs about Chatd, for every set of users, groups, messages and        *)
(* workers, and any number of requests and faults.                         *)
(***************************************************************************)
EXTENDS Chatd, TLAPS

Fields    == {"pc", "req", "waiting", "ok", "addr", "linked", "grp", "list",
              "todo", "dirs", "entries", "got"}
ReqFields == {"op", "u", "dir", "msg", "members"}

ShapeInv ==
    /\ job = [w \in Workers |-> job[w]]
    /\ \A w \in Workers : DOMAIN job[w] = Fields /\ DOMAIN job[w].req = ReqFields

(* Which requests are at which step.                                       *)
AckOps    == {"send", "group_send", "group_ai"}
SendOps   == AckOps \cup {"ai"}
PollOps   == {"poll", "group_poll", "group_poll_all"}
ChangeOps == {"group_create", "group_invite", "group_leave"}

OpsAt(p) ==
    CASE p = "idle" -> {"none"}
      [] p \in {"create", "write"} -> SendOps
      [] p \in {"ant", "ai"} -> AckOps
      [] p \in {"mygroups", "readdir", "read", "remove"} -> PollOps
      [] p \in {"rmdir", "meta", "metawrite", "lists", "listopen", "listwrite"} -> ChangeOps
      [] OTHER -> SendOps \cup PollOps \cup ChangeOps

Msg(w) == job[w].req.msg

OpInv ==
    \A w \in Workers :
        /\ Op(w) \in OpsAt(job[w].pc)
        /\ Msg(w) \in IF Op(w) \in SendOps THEN Msgs \cap used ELSE {NoMsg}

(* No two requests are about one message, and a message that was           *)
(* acknowledged is only still in the hands of a request for the AI.        *)
MsgInv ==
    /\ \A v, w \in Workers : v # w /\ Msg(v) = Msg(w) => Msg(v) = NoMsg
    /\ \A f \in acked : f[2] \in Msgs \cap used
    /\ \A w \in Workers : Message(w) \in acked => At(w, "ai")

(* A message that is safe is lost neither by a crash nor by a concurrent   *)
(* request; this is what each step of storing a message brings about.      *)
Gone(f) == f \in taken \/ f[1] \in removed
Safe(f) == f \in files \ torn \/ Gone(f)

StoredInv ==
    \A w \in Workers :
        /\ At(w, "write") => Message(w) \in files \/ Gone(Message(w))
        /\ At(w, "ant") => Safe(Message(w))
        /\ At(w, "reply") /\ Acknowledges(w) => Safe(Message(w))

IInv == ShapeInv /\ OpInv /\ MsgInv /\ StoredInv /\ NoMessageLost

LEMMA InitInvariant == Init => IInv
<1> SUFFICES ASSUME Init  PROVE IInv
  OBVIOUS
<1>1. ShapeInv
  BY DEF Init, Idle, Request, ShapeInv, Fields, ReqFields
<1>2. \A w \in Workers : job[w].pc = "idle" /\ Op(w) = "none" /\ Msg(w) = NoMsg
  BY DEF Init, Idle, Request, Op, Msg
<1>3. acked = {}
  BY DEF Init
<1> QED
  BY <1>1, <1>2, <1>3 DEF IInv, OpInv, OpsAt, MsgInv, StoredInv, NoMessageLost, At,
     SendOps, AckOps

-----------------------------------------------------------------------------
(* Most steps move one request on; the others stay where they are.         *)

Stays(v) ==
    /\ DOMAIN job'[v] = Fields
    /\ job'[v].req = job[v].req /\ job'[v].pc = job[v].pc
    /\ job'[v].ok = job[v].ok /\ job'[v].addr = job[v].addr

Others(w) ==
    /\ \A v \in Workers \ {w} : Stays(v)
    /\ job' = [v \in Workers |-> job'[v]]

Moves(w, p) ==
    /\ Others(w)
    /\ DOMAIN job'[w] = Fields
    /\ job'[w].req = job[w].req
    /\ job'[w].addr = job[w].addr
    /\ job'[w].ok \in {job[w].ok, FALSE}
    /\ job'[w].pc = p

(* What is stored is kept or goes where it should.                         *)
Kept(f)  == f \in files \/ Gone(f)
KeepsAll == \A f : (Safe(f) => Safe(f)') /\ (Kept(f) => Kept(f)')

(* The request goes on to a step its operation takes.                      *)
LEMMA QuietMove ==
    ASSUME IInv, NEW w \in Workers, NEW p, Moves(w, p), KeepsAll, UNCHANGED <<acked, used>>,
           Op(w) \in OpsAt(p), p = "ai" <=> At(w, "ai"),
           p = "write" => At(w, "write"),
           p = "ant" => At(w, "ant"),
           p = "reply" => \/ At(w, "ant") \/ At(w, "reply")
                          \/ job'[w].ok = FALSE \/ Op(w) \in PollOps \cup ChangeOps
    PROVE  IInv'
<1> USE DEF IInv, Moves, Others, Stays, Op, Msg, Message, At
<1>1. ShapeInv'
  BY DEF ShapeInv
<1>2. OpInv'
  BY DEF OpInv
<1>3. MsgInv'
  BY DEF MsgInv, ShapeInv
<1>4. StoredInv'
  <2> SUFFICES ASSUME NEW v \in Workers
               PROVE  /\ (At(v, "write") => Message(v) \in files \/ Gone(Message(v)))'
                      /\ (At(v, "ant") => Safe(Message(v)))'
                      /\ (At(v, "reply") /\ Acknowledges(v) => Safe(Message(v)))'
    BY DEF StoredInv
  <2>1. CASE v # w
    BY <2>1 DEF StoredInv, Acknowledges, KeepsAll, Kept
  <2>2. CASE v = w
    BY <2>2 DEF StoredInv, Acknowledges, PollOps, ChangeOps, KeepsAll, Kept
  <2> QED  BY <2>1, <2>2
<1>5. NoMessageLost'
  BY DEF NoMessageLost, KeepsAll, Safe, Gone
<1> QED  BY <1>1, <1>2, <1>3, <1>4, <1>5

(* The goroutine ends; what it acknowledged last is safe.                  *)
LEMMA IdleMove ==
    ASSUME IInv, NEW w \in Workers, Others(w), job'[w] = Idle, KeepsAll, used' = used,
           acked \subseteq acked',
           \A f \in acked' \ acked : /\ f = Message(w) /\ Safe(f)
                                     /\ Msg(w) \in Msgs \cap used
    PROVE  IInv'
<1> USE DEF IInv, Others, Stays, Op, Msg, Message, At
<1>1. /\ DOMAIN job'[w] = Fields /\ DOMAIN job'[w].req = ReqFields
      /\ job'[w].pc = "idle" /\ Op(w)' = "none" /\ Msg(w)' = NoMsg
  BY DEF Idle, Request, Fields, ReqFields
<1>2. ShapeInv'
  BY <1>1 DEF ShapeInv
<1>3. OpInv'
  BY <1>1 DEF OpInv, OpsAt, SendOps, AckOps
<1>4. MsgInv'
  BY <1>1, ChatdAssumption DEF MsgInv, ShapeInv
<1>5. StoredInv'
  BY <1>1 DEF StoredInv, Acknowledges, KeepsAll, Kept
<1>6. NoMessageLost'
  BY DEF NoMessageLost, KeepsAll, Safe, Gone
<1> QED  BY <1>2, <1>3, <1>4, <1>5, <1>6

LEMMA Unchanged == UNCHANGED <<files, torn, taken, removed>> => KeepsAll
  BY DEF KeepsAll, Kept, Safe, Gone

-----------------------------------------------------------------------------
(* Steps that are such moves.                                              *)

LEMMA PollMoves ==
    ASSUME IInv, NEW w \in Workers,
           MyGroups(w) \/ ReadDir(w) \/ ReadFile(w) \/ RemoveFile(w) \/ PollDone(w)
    PROVE  \E p \in {"readdir", "read", "remove", "reply"} : Moves(w, p)
<1> USE DEF At
<1>1. CASE MyGroups(w)
  BY <1>1 DEF IInv, ShapeInv, Moves, Others, Stays, MyGroups, Fields
<1>2. CASE ReadDir(w)
  <2>1. PICK d : job' = [job EXCEPT ![w].pc = "read", ![w].dirs = @ \ {d},
                                    ![w].entries = {f \in files : f[1] = d}]
    BY <1>2 DEF ReadDir
  <2>2. Moves(w, "read")
    BY <2>1 DEF IInv, ShapeInv, Moves, Others, Stays, Fields
  <2> QED  BY <2>2
<1>3. CASE ReadFile(w)
  <2>1. PICK f \in job[w].entries :
            job' = IF f \in files \ torn
                   THEN [job EXCEPT ![w].pc = "remove", ![w].got = @ \cup {f}]
                   ELSE [job EXCEPT ![w].entries = @ \ {f}]
    BY <1>3 DEF ReadFile
  <2>2. CASE f \in files \ torn
    BY <2>1, <2>2 DEF IInv, ShapeInv, Moves, Others, Stays, Fields
  <2>3. CASE f \notin files \ torn
    <3>1. job' = [job EXCEPT ![w].entries = @ \ {f}] /\ job[w].pc = "read"
      BY <1>3, <2>1, <2>3 DEF ReadFile
    <3>2. Moves(w, "read")
      BY <3>1 DEF IInv, ShapeInv, Moves, Others, Stays, Fields
    <3> QED  BY <3>2
  <2> QED  BY <2>2, <2>3
<1>4. CASE RemoveFile(w)
  <2>1. PICK f : job' = [job EXCEPT ![w].pc = "read", ![w].entries = @ \ {f}]
    BY <1>4 DEF RemoveFile
  <2>2. Moves(w, "read")
    BY <2>1 DEF IInv, ShapeInv, Moves, Others, Stays, Fields
  <2> QED  BY <2>2
<1>5. CASE PollDone(w)
  <2>1. PICK p \in {"readdir", "reply"} : job' = [job EXCEPT ![w].pc = p]
    BY <1>5 DEF PollDone, Goto
  <2>2. Moves(w, p)
    BY <2>1 DEF IInv, ShapeInv, Moves, Others, Stays, Fields
  <2> QED  BY <2>2
<1> QED  BY <1>1, <1>2, <1>3, <1>4, <1>5

LEMMA PollStep ==
    ASSUME IInv, NEW w \in Workers,
           MyGroups(w) \/ ReadDir(w) \/ ReadFile(w) \/ RemoveFile(w) \/ PollDone(w)
    PROVE  IInv'
<1> USE DEF At
<1>1. \E p \in {"readdir", "read", "remove", "reply"} : Moves(w, p)
  BY PollMoves
<1>2. KeepsAll /\ UNCHANGED <<acked, used>>
  BY DEF KeepsAll, Kept, Safe, Gone, MyGroups, ReadDir, ReadFile, RemoveFile, PollDone,
     store, hist, bound
<1>3. Op(w) \in PollOps /\ ~At(w, "ai")
  BY DEF IInv, OpInv, OpsAt, MyGroups, ReadDir, ReadFile, RemoveFile, PollDone
<1>4. \A p \in {"readdir", "read", "remove", "reply"} : PollOps \subseteq OpsAt(p)
  BY DEF OpsAt
<1> QED  BY <1>1, <1>2, <1>3, <1>4, QuietMove

LEMMA LoadStep ==
    ASSUME IInv, NEW w \in Workers,
           LoadFails(w) \/ LoadToSend(w) \/ LoadToPoll(w) \/ LoadToInvite(w) \/ LoadToLeave(w)
    PROVE  IInv'
<1> USE DEF At
<1>1. KeepsAll /\ UNCHANGED <<acked, used>> /\ At(w, "load")
  BY Unchanged DEF LoadFails, LoadToSend, LoadToPoll, LoadToInvite, LoadToLeave, Load,
     store, hist, bound
<1>2. CASE LoadFails(w)
  <2>1. Moves(w, "reply") /\ job'[w].ok = FALSE
    BY <1>2 DEF IInv, ShapeInv, Moves, Others, Stays, LoadFails, Fail, Fields
  <2>2. Op(w) \in OpsAt("reply")
    BY <1>1 DEF IInv, OpInv, OpsAt
  <2> QED  BY <1>1, <2>1, <2>2, QuietMove
<1>3. CASE LoadToSend(w)
  <2>1. Moves(w, "create")
    BY <1>3 DEF IInv, ShapeInv, Moves, Others, Stays, LoadToSend, Goto, Fields
  <2>2. Op(w) \in OpsAt("create")
    BY <1>3 DEF LoadToSend, Load, OpsAt, SendOps, AckOps
  <2> QED  BY <1>1, <2>1, <2>2, QuietMove
<1>4. CASE LoadToPoll(w)
  <2>1. Moves(w, "readdir")
    BY <1>4 DEF IInv, ShapeInv, Moves, Others, Stays, LoadToPoll, Fields
  <2>2. Op(w) \in OpsAt("readdir")
    BY <1>4 DEF LoadToPoll, Load, OpsAt, PollOps
  <2> QED  BY <1>1, <2>1, <2>2, QuietMove
<1>5. CASE LoadToInvite(w) \/ LoadToLeave(w)
  <2>1. \E p \in {"meta", "rmdir"} : Moves(w, p)
    <3>1. CASE LoadToInvite(w)
      <4>1. Moves(w, "meta")
        BY <3>1 DEF IInv, ShapeInv, Moves, Others, Stays, LoadToInvite, Fields
      <4> QED  BY <4>1
    <3>2. CASE LoadToLeave(w)
      <4> DEFINE left == Without(meta[Group(w)].members, {User(w)})
      <4>1. PICK g : job' = [job EXCEPT ![w].todo = <<User(w)>>,
                     ![w].pc  = IF left = <<>> THEN "rmdir" ELSE "meta",
                     ![w].grp = g]
        BY <3>2 DEF LoadToLeave
      <4> HIDE DEF left
      <4>2. CASE left = <<>>
        BY <4>1, <4>2 DEF IInv, ShapeInv, Moves, Others, Stays, Fields
      <4>3. CASE left # <<>>
        BY <4>1, <4>3 DEF IInv, ShapeInv, Moves, Others, Stays, Fields
      <4> QED  BY <4>2, <4>3
    <3> QED  BY <1>5, <3>1, <3>2
  <2>2. Op(w) \in ChangeOps /\ \A p \in {"meta", "rmdir"} : ChangeOps \subseteq OpsAt(p)
    BY <1>5 DEF LoadToInvite, LoadToLeave, Load, OpsAt, ChangeOps
  <2> QED  BY <1>1, <2>1, <2>2, QuietMove
<1> QED  BY <1>2, <1>3, <1>4, <1>5

LEMMA NextMemberFacts ==
    ASSUME ShapeInv, NEW w \in Workers
    PROVE  /\ DOMAIN NextMember(w) = Fields /\ NextMember(w).req = job[w].req
           /\ NextMember(w).addr = job[w].addr /\ NextMember(w).ok = job[w].ok
           /\ NextMember(w).pc \in {"reply", "lists"}
  BY DEF ShapeInv, NextMember, Fields

LEMMA ChangeStep ==
    ASSUME IInv, NEW w \in Workers,
           \/ RemoveGroup(w) \/ MetaOpen(w) \/ MetaWrite(w) \/ AddUserGroup(w)
           \/ RemoveUserGroup(w) \/ ListOpen(w) \/ ListWrite(w)
    PROVE  IInv'
<1> USE DEF At
<1>1. \E p \in {"metawrite", "lists", "listopen", "listwrite", "reply"} : Moves(w, p)
  <2>1. CASE RemoveGroup(w)
    BY <2>1 DEF IInv, ShapeInv, Moves, Others, Stays, RemoveGroup, Fields
  <2>2. CASE MetaOpen(w)
    BY <2>2 DEF IInv, ShapeInv, Moves, Others, Stays, MetaOpen, Fields
  <2>3. CASE MetaWrite(w)
    BY <2>3 DEF IInv, ShapeInv, Moves, Others, Stays, MetaWrite, Fields
  <2>4. CASE ListOpen(w)
    BY <2>4 DEF IInv, ShapeInv, Moves, Others, Stays, ListOpen, Goto, Fields
  <2>5. CASE AddUserGroup(w) \/ RemoveUserGroup(w) \/ ListWrite(w)
    <3>1. \/ job' = [job EXCEPT ![w] = NextMember(w)]
          \/ \E l : job' = [job EXCEPT ![w].pc = "listopen", ![w].list = l]
      BY <2>5 DEF AddUserGroup, RemoveUserGroup, ListWrite
    <3>2. CASE job' = [job EXCEPT ![w] = NextMember(w)]
      BY <3>2, NextMemberFacts DEF IInv, ShapeInv, Moves, Others, Stays
    <3>3. ASSUME NEW l, job' = [job EXCEPT ![w].pc = "listopen", ![w].list = l]
          PROVE  Moves(w, "listopen")
      BY <3>3 DEF IInv, ShapeInv, Moves, Others, Stays, Fields
    <3> QED  BY <3>1, <3>2, <3>3
  <2> QED  BY <2>1, <2>2, <2>3, <2>4, <2>5
<1>2. KeepsAll /\ UNCHANGED <<acked, used>>
  <2>1. CASE RemoveGroup(w)
    BY <2>1 DEF KeepsAll, Kept, Safe, Gone, RemoveGroup, bound
  <2>2. CASE ~RemoveGroup(w)
    BY <2>2, Unchanged DEF MetaOpen, MetaWrite, AddUserGroup, RemoveUserGroup, ListOpen,
       ListWrite, store, hist, bound
  <2> QED  BY <2>1, <2>2
<1>3. Op(w) \in ChangeOps /\ ~At(w, "ai")
  BY DEF IInv, OpInv, OpsAt, RemoveGroup, MetaOpen, MetaWrite, AddUserGroup,
     RemoveUserGroup, ListOpen, ListWrite
<1>4. \A p \in {"metawrite", "lists", "listopen", "listwrite", "reply"} :
          ChangeOps \subseteq OpsAt(p)
  BY DEF OpsAt
<1> QED  BY <1>1, <1>2, <1>3, <1>4, QuietMove

LEMMA FaultStep ==
    ASSUME IInv, NEW w \in Workers, AntFails(w) \/ WriteFails(w) \/ GiveUp(w) \/ AiFails(w)
    PROVE  IInv'
<1> USE DEF At
<1>1. KeepsAll /\ UNCHANGED <<acked, used>>
  BY Unchanged DEF AntFails, WriteFails, GiveUp, AiFails, store, hist, bound
<1>2. CASE AntFails(w)
  <2>1. Moves(w, "reply")
    BY <1>2 DEF IInv, ShapeInv, Moves, Others, Stays, AntFails, Goto, Fields
  <2>2. Op(w) \in OpsAt("reply") /\ At(w, "ant")
    BY <1>2 DEF IInv, OpInv, OpsAt, AntFails, SendOps
  <2> QED  BY <1>1, <2>1, <2>2, QuietMove
<1>3. CASE GiveUp(w)
  <2>1. Moves(w, job[w].pc)
    BY <1>3 DEF IInv, ShapeInv, Moves, Others, Stays, GiveUp, Fields
  <2> QED  BY <1>1, <2>1, QuietMove DEF IInv, OpInv
<1>4. CASE AiFails(w)
  BY <1>1, <1>4, IdleMove DEF IInv, ShapeInv, Others, Stays, AiFails
<1>5. CASE WriteFails(w)
  <2>1. job[w].pc \in {"create", "write", "meta", "metawrite", "listopen", "listwrite"}
    BY <1>5 DEF WriteFails
  <2>2. Op(w) \in OpsAt(job[w].pc)
    BY DEF IInv, OpInv
  <2>3. CASE job[w].pc \in {"listopen", "listwrite"}
    <3>1. job' = [job EXCEPT ![w] = NextMember(w)]
      BY <1>5, <2>3 DEF WriteFails
    <3>2. \E p \in {"reply", "lists"} : Moves(w, p)
      BY <3>1, NextMemberFacts DEF IInv, ShapeInv, Moves, Others, Stays
    <3>3. Op(w) \in ChangeOps /\ \A p \in {"reply", "lists"} : ChangeOps \subseteq OpsAt(p)
      BY <2>2, <2>3 DEF OpsAt
    <3> QED  BY <1>1, <2>3, <3>2, <3>3, QuietMove
  <2>4. CASE job[w].pc \notin {"listopen", "listwrite"} /\ Op(w) = "ai"
    <3>1. job' = [job EXCEPT ![w] = Idle]
      BY <1>5, <2>4 DEF WriteFails
    <3> QED  BY <1>1, <3>1, IdleMove DEF IInv, ShapeInv, Others, Stays
  <2>5. CASE job[w].pc \notin {"listopen", "listwrite"} /\ Op(w) # "ai"
    <3>1. job' = [job EXCEPT ![w].pc = "reply", ![w].ok = FALSE]
      BY <1>5, <2>5 DEF WriteFails
    <3>2. Moves(w, "reply") /\ job'[w].ok = FALSE
      BY <3>1 DEF IInv, ShapeInv, Moves, Others, Stays, Fields
    <3>3. Op(w) \in OpsAt("reply")
      BY <2>1, <2>2 DEF OpsAt
    <3> QED  BY <1>1, <2>1, <3>2, <3>3, QuietMove
  <2> QED  BY <2>3, <2>4, <2>5
<1> QED  BY <1>2, <1>3, <1>4, <1>5

-----------------------------------------------------------------------------
(* The life of a message: it is created torn, written, perhaps moved to    *)
(* the Ant, and acknowledged.                                              *)

LEMMA MessageMove ==
    ASSUME IInv, NEW w \in Workers, NEW p, Others(w), UNCHANGED <<acked, used>>,
           DOMAIN job'[w] = Fields, job'[w].req = job[w].req, job'[w].pc = p,
           Op(w) \in SendOps, Op(w) \in OpsAt(p), p # "ai", ~At(w, "ai"),
           \A f : f # Message(w) => (Safe(f) => Safe(f)') /\ (Kept(f) => Kept(f)'),
           p = "write" => Kept(Message(w))',
           p = "ant" => Safe(Message(w))',
           p = "reply" /\ Acknowledges(w)' => Safe(Message(w))'
    PROVE  IInv'
<1> USE DEF IInv, At, Op, Msg, Message
<1>1. ShapeInv' /\ OpInv'
  BY DEF ShapeInv, OpInv, Others, Stays
<1>2. Msg(w) \in Msgs \cap used /\ Message(w) \notin acked
  BY DEF OpInv, MsgInv
<1>3. MsgInv'
  BY <1>2 DEF MsgInv, Others, Stays, ShapeInv
<1>4. \A v \in Workers \ {w} : Message(v) # Message(w)
  BY <1>2, ChatdAssumption DEF MsgInv
<1>5. ASSUME NEW v \in Workers \ {w}
      PROVE  /\ (At(v, "write") => Message(v) \in files \/ Gone(Message(v)))'
             /\ (At(v, "ant") => Safe(Message(v)))'
             /\ (At(v, "reply") /\ Acknowledges(v) => Safe(Message(v)))'
  BY <1>4 DEF StoredInv, Others, Stays, Kept, Acknowledges
<1>6. StoredInv'
  BY <1>5 DEF StoredInv, Kept
<1>7. NoMessageLost'
  BY <1>2 DEF NoMessageLost, Safe, Gone
<1> QED  BY <1>1, <1>3, <1>6, <1>7

LEMMA CreateStep == ASSUME IInv, NEW w \in Workers, Create(w)  PROVE IInv'
<1>1. /\ files' = files \cup {Message(w)} /\ torn' = torn \cup {Message(w)}
      /\ job' = [job EXCEPT ![w].pc = "write"] /\ At(w, "create")
      /\ UNCHANGED <<acked, taken, removed, used>>
  BY DEF Create, Goto, hist, bound
<1>2. /\ Others(w) /\ DOMAIN job'[w] = Fields /\ job'[w].req = job[w].req
      /\ job'[w].pc = "write"
  BY <1>1 DEF IInv, ShapeInv, Others, Stays, Fields
<1>3. Op(w) \in SendOps /\ Op(w) \in OpsAt("write") /\ ~At(w, "ai")
  BY <1>1 DEF IInv, OpInv, OpsAt, At
<1>4. /\ \A f : f # Message(w) => (Safe(f) => Safe(f)') /\ (Kept(f) => Kept(f)')
      /\ Kept(Message(w))'
  BY <1>1, <1>2 DEF Safe, Gone, Kept, Message, Group
<1> QED  BY <1>1, <1>2, <1>3, <1>4, MessageMove

LEMMA WriteStep == ASSUME IInv, NEW w \in Workers, Write(w)  PROVE IInv'
<1>1. /\ torn' = torn \ {Message(w)} /\ At(w, "write")
      /\ UNCHANGED <<files, acked, taken, removed, used>>
  BY DEF Write, hist, bound
<1>2. Op(w) \in SendOps /\ ~At(w, "ai") /\ Kept(Message(w))
  BY <1>1 DEF IInv, OpInv, OpsAt, At, StoredInv, Kept
<1>3. KeepsAll
  BY <1>1 DEF KeepsAll, Kept, Safe, Gone
<1>4. CASE Op(w) = "ai"
  <2>1. job' = [job EXCEPT ![w] = Idle]
    BY <1>4 DEF Write
  <2> QED  BY <1>1, <1>3, <2>1, IdleMove DEF IInv, ShapeInv, Others, Stays
<1>5. ASSUME Op(w) # "ai", NEW p \in {"ant", "reply"}, job' = [job EXCEPT ![w].pc = p]
      PROVE  IInv'
  <2>1. /\ Others(w) /\ DOMAIN job'[w] = Fields /\ job'[w].req = job[w].req
        /\ job'[w].pc = p
    BY <1>5 DEF IInv, ShapeInv, Others, Stays, Fields
  <2>2. Op(w) \in OpsAt(p)
    BY <1>2, <1>5 DEF OpsAt, SendOps
  <2>3. Safe(Message(w))'
    BY <1>1, <1>2, <2>1 DEF Safe, Kept, Gone, Message, Group
  <2> QED  BY <1>1, <1>2, <1>3, <2>1, <2>2, <2>3, MessageMove DEF KeepsAll
<1> QED  BY <1>4, <1>5 DEF Write, Goto

LEMMA AntStoresStep == ASSUME IInv, NEW w \in Workers, AntStores(w)  PROVE IInv'
<1>1. /\ files' = IF Op(w) = "send" THEN files \ {Message(w)} ELSE files
      /\ job' = [job EXCEPT ![w].pc = "reply", ![w].addr = TRUE]
      /\ UNCHANGED <<torn, acked, taken, removed, used>> /\ At(w, "ant")
  BY DEF AntStores, hist, bound
<1>2. Op(w) \in SendOps /\ Op(w) \in OpsAt("reply") /\ ~At(w, "ai") /\ Safe(Message(w))
  BY <1>1 DEF IInv, OpInv, OpsAt, At, StoredInv, SendOps
<1>3. /\ Others(w) /\ DOMAIN job'[w] = Fields /\ job'[w].req = job[w].req
      /\ job'[w].pc = "reply" /\ job'[w].addr = TRUE
  BY <1>1 DEF IInv, ShapeInv, Others, Stays, Fields
<1>4. \A f : f # Message(w) => (Safe(f) => Safe(f)') /\ (Kept(f) => Kept(f)')
  BY <1>1 DEF Safe, Kept, Gone
<1>5. Acknowledges(w)' => Op(w) # "send"
  BY <1>3 DEF Acknowledges, Op
<1>6. Acknowledges(w)' => Safe(Message(w))'
  BY <1>1, <1>2, <1>3, <1>5 DEF Safe, Gone, Message, Group
<1> QED  BY <1>1, <1>2, <1>3, <1>4, <1>6, MessageMove

(* The answer of the AI is a new message.                                  *)
LEMMA AiStep == ASSUME IInv, NEW w \in Workers, AiAnswers(w)  PROVE IInv'
<1>1. PICK m \in Msgs \ used :
          /\ files' = files \cup {<<Group(w), m>>} /\ torn' = torn \cup {<<Group(w), m>>}
          /\ job' = [job EXCEPT ![w].pc = "write", ![w].req = [@ EXCEPT !.op = "ai", !.msg = m]]
          /\ used' = used \cup {m}
  BY DEF AiAnswers
<1>2. UNCHANGED <<acked, taken, removed>>
  BY DEF AiAnswers, hist
<1>3. /\ Others(w) /\ DOMAIN job'[w] = Fields /\ DOMAIN job'[w].req = ReqFields
      /\ job'[w].pc = "write" /\ job'[w].req.op = "ai" /\ job'[w].req.msg = m
      /\ job'[w].req.dir = job[w].req.dir
  BY <1>1 DEF IInv, ShapeInv, Others, Stays, Fields, ReqFields
<1> USE DEF IInv, At, Op, Msg, Message, Group
<1>4. ShapeInv'
  BY <1>3 DEF ShapeInv, Others, Stays
<1>5. OpInv'
  <2>1. Op(w)' \in OpsAt(job'[w].pc) /\ Op(w)' \in SendOps /\ Msg(w)' \in Msgs \cap used'
    BY <1>1, <1>3 DEF OpsAt, SendOps
  <2>2. ASSUME NEW v \in Workers \ {w}
        PROVE  /\ Op(v)' \in OpsAt(job'[v].pc)
               /\ Msg(v)' \in IF Op(v)' \in SendOps THEN Msgs \cap used' ELSE {NoMsg}
    BY <1>1, <1>3 DEF OpInv, Others, Stays
  <2> QED  BY <2>1, <2>2 DEF OpInv
<1>6. \A v \in Workers \ {w} : Msg(v) # m /\ Msg(v)' = Msg(v)
  BY <1>3, ChatdAssumption DEF OpInv, Others, Stays
<1>7. MsgInv'
  <2>1. \A v, u \in Workers : v # u /\ Msg(v)' = Msg(u)' => Msg(v)' = NoMsg
    BY <1>3, <1>6 DEF MsgInv
  <2>2. \A f \in acked' : f[2] \in Msgs \cap used /\ f[2] \in Msgs \cap used'
    BY <1>1, <1>2 DEF MsgInv
  <2>3. Message(w)' \notin acked'
    BY <1>1, <1>3, <2>2
  <2>4. \A v \in Workers \ {w} : Message(v)' \in acked' => At(v, "ai")'
    BY <1>2, <1>3 DEF MsgInv, Others, Stays
  <2> QED  BY <2>1, <2>2, <2>3, <2>4 DEF MsgInv
<1>8. \A f : f[2] # m => (Safe(f) => Safe(f)') /\ (Kept(f) => Kept(f)')
  BY <1>1, <1>2 DEF Safe, Gone, Kept
<1>9. StoredInv'
  <2>1. Message(w)' \in files'
    BY <1>1, <1>3
  <2>2. ASSUME NEW v \in Workers \ {w}
        PROVE  /\ (At(v, "write") => Message(v) \in files \/ Gone(Message(v)))'
               /\ (At(v, "ant") => Safe(Message(v)))'
               /\ (At(v, "reply") /\ Acknowledges(v) => Safe(Message(v)))'
    BY <1>3, <1>6, <1>8 DEF StoredInv, Others, Stays, Kept, Acknowledges
  <2> QED  BY <1>3, <2>1, <2>2 DEF StoredInv
<1>10. NoMessageLost'
  BY <1>2, <1>8 DEF NoMessageLost, MsgInv, Safe, Gone
<1> QED  BY <1>4, <1>5, <1>7, <1>9, <1>10

LEMMA ReplyStep == ASSUME IInv, NEW w \in Workers, Reply(w)  PROVE IInv'
<1>1. /\ At(w, "reply") /\ KeepsAll /\ used' = used
      /\ acked' = IF Acknowledges(w) THEN acked \cup {Message(w)} ELSE acked
  BY Unchanged DEF Reply, store, bound
<1>2. Acknowledges(w) => Safe(Message(w)) /\ Msg(w) \in Msgs \cap used
  BY <1>1 DEF IInv, StoredInv, OpInv, Acknowledges, SendOps, AckOps
<1>3. CASE Op(w) = "group_ai" /\ job[w].ok /\ ~job[w].addr
  <2>1. job' = [job EXCEPT ![w].pc = "ai", ![w].waiting = FALSE]
    BY <1>3 DEF Reply
  <2>2. /\ Others(w) /\ DOMAIN job'[w] = Fields /\ job'[w].req = job[w].req
        /\ job'[w].pc = "ai"
    BY <2>1 DEF IInv, ShapeInv, Others, Stays, Fields
  <2>3. acked' = acked \cup {Message(w)} /\ Safe(Message(w)) /\ Msg(w) \in Msgs \cap used
    BY <1>1, <1>2, <1>3 DEF Acknowledges
  <2> USE DEF IInv, At, Op, Msg, Message
  <2>4. ShapeInv' /\ OpInv'
    BY <1>1, <1>3, <2>2 DEF ShapeInv, OpInv, OpsAt, AckOps, Others, Stays
  <2>5. MsgInv'
    <3>1. \A v, u \in Workers : v # u /\ Msg(v)' = Msg(u)' => Msg(v)' = NoMsg
      BY <2>2 DEF MsgInv, Others, Stays
    <3>2. \A f \in acked' : f[2] \in Msgs \cap used'
      BY <1>1, <2>3 DEF MsgInv
    <3>3. \A v \in Workers : Message(v)' \in acked' => At(v, "ai")'
      <4>1. \A v \in Workers \ {w} : Message(v)' = Message(v) /\ (At(v, "ai") => At(v, "ai")')
        BY <2>2 DEF Others, Stays
      <4>2. \A v \in Workers \ {w} : Message(v) \in acked'  => At(v, "ai")
        BY <2>3, ChatdAssumption DEF MsgInv
      <4>3. At(w, "ai")'
        BY <2>2
      <4> QED  BY <4>1, <4>2, <4>3
    <3> QED  BY <3>1, <3>2, <3>3 DEF MsgInv
  <2>6. StoredInv'
    BY <1>1, <2>2 DEF StoredInv, Others, Stays, KeepsAll, Kept, Acknowledges
  <2>7. NoMessageLost'
    BY <1>1, <2>3 DEF NoMessageLost, KeepsAll, Safe, Gone
  <2> QED  BY <2>4, <2>5, <2>6, <2>7
<1>4. CASE ~(Op(w) = "group_ai" /\ job[w].ok /\ ~job[w].addr)
  <2>1. job' = [job EXCEPT ![w] = Idle]
    BY <1>4 DEF Reply
  <2>2. Others(w) /\ job'[w] = Idle
    BY <2>1 DEF IInv, ShapeInv, Others, Stays
  <2> QED  BY <1>1, <1>2, <2>2, IdleMove
<1> QED  BY <1>3, <1>4

-----------------------------------------------------------------------------
(* Requests arrive, chatd restarts.                                        *)

LEMMA ServeStep ==
    ASSUME IInv, NEW w \in Workers, NEW r, NEW first, Serve(w, r, first),
           DOMAIN first = Fields, DOMAIN r = ReqFields,
           first.pc \in {"create", "readdir", "mygroups", "load", "meta"},
           r.op \in OpsAt(first.pc),
           r.msg \in IF r.op \in SendOps THEN Msgs \ used ELSE {NoMsg}
    PROVE  IInv'
<1>1. /\ job' = [job EXCEPT ![w] = [first EXCEPT !.req = r, !.waiting = TRUE]]
      /\ used \subseteq used' /\ ({r.msg} \cap Msgs) \subseteq used'
      /\ UNCHANGED <<files, torn, acked, taken, removed>>
  BY DEF Serve, store, hist
<1>2. KeepsAll
  BY <1>1, Unchanged
<1>3. /\ Others(w) /\ DOMAIN job'[w] = Fields /\ job'[w].req = r
      /\ job'[w].pc = first.pc
  BY <1>1 DEF IInv, ShapeInv, Others, Stays, Fields
<1> USE DEF IInv, At, Op, Msg, Message, Group
<1>4. ShapeInv'
  BY <1>3 DEF ShapeInv, Others, Stays
<1>5. OpInv'
  <2>1. /\ Op(w)' \in OpsAt(job'[w].pc)
        /\ Msg(w)' \in IF Op(w)' \in SendOps THEN Msgs \cap used' ELSE {NoMsg}
    BY <1>1, <1>3
  <2>2. ASSUME NEW v \in Workers \ {w}
        PROVE  /\ Op(v)' \in OpsAt(job'[v].pc)
               /\ Msg(v)' \in IF Op(v)' \in SendOps THEN Msgs \cap used' ELSE {NoMsg}
    BY <1>1, <1>3 DEF OpInv, Others, Stays
  <2> QED  BY <2>1, <2>2 DEF OpInv
<1>6. MsgInv'
  <2>1. \A v \in Workers \ {w} : Msg(v)' = Msg(v) /\ (Msg(v) = r.msg => r.msg = NoMsg)
    BY <1>3, ChatdAssumption DEF OpInv, Others, Stays
  <2>2. \A v, u \in Workers : v # u /\ Msg(v)' = Msg(u)' => Msg(v)' = NoMsg
    BY <1>3, <2>1 DEF MsgInv
  <2>3. \A f \in acked' : f[2] \in Msgs \cap used /\ f[2] \in Msgs \cap used'
    BY <1>1 DEF MsgInv
  <2>4. Message(w)' \notin acked'
    BY <1>3, <2>3, ChatdAssumption
  <2>5. \A v \in Workers \ {w} : Message(v)' \in acked' => At(v, "ai")'
    BY <1>1, <1>3 DEF MsgInv, Others, Stays
  <2> QED  BY <2>2, <2>3, <2>4, <2>5 DEF MsgInv
<1>7. StoredInv'
  BY <1>2, <1>3 DEF StoredInv, Others, Stays, KeepsAll, Kept, Acknowledges
<1>8. NoMessageLost'
  BY <1>1, <1>2 DEF NoMessageLost, KeepsAll, Safe, Gone
<1> QED  BY <1>4, <1>5, <1>6, <1>7, <1>8

LEMMA IdleFields == DOMAIN Idle = Fields
  BY DEF Idle, Fields

LEMMA RequestStep ==
    ASSUME IInv, NEW w \in Workers, NEW u \in Users,
           ServeSend(w, u) \/ ServePoll(w, u) \/ ServeGroupCreate(w, u) \/ ServeGroup(w, u)
    PROVE  IInv'
<1> USE DEF Request, ReqFields, Fields, OpsAt
<1>1. CASE ServeSend(w, u)
  <2>1. PICK r \in CmdSend(u) : Serve(w, r, [Idle EXCEPT !.pc = "create"])
    BY <1>1 DEF ServeSend
  <2>2. DOMAIN r = ReqFields /\ r.op = "send" /\ r.msg \in Msgs \ used
    BY DEF CmdSend
  <2> QED  BY <2>1, <2>2, ServeStep, IdleFields DEF SendOps, AckOps
<1>2. CASE ServePoll(w, u)
  <2>1. PICK r \in CmdPoll(u) : Serve(w, r, [Idle EXCEPT !.pc = "readdir", !.dirs = {u}])
    BY <1>2 DEF ServePoll
  <2>2. DOMAIN r = ReqFields /\ r.op = "poll" /\ r.msg = NoMsg
    BY DEF CmdPoll
  <2> QED  BY <2>1, <2>2, ServeStep, IdleFields DEF SendOps, AckOps, PollOps
<1>3. CASE ServeGroupCreate(w, u)
  <2>1. PICK r \in CmdGroupCreate(u) : \E g, ms :
            Serve(w, r, [Idle EXCEPT !.pc = "meta", !.todo = ms, !.grp = g])
    BY <1>3 DEF ServeGroupCreate
  <2>2. DOMAIN r = ReqFields /\ r.op = "group_create" /\ r.msg = NoMsg
    BY DEF CmdGroupCreate
  <2> QED  BY <2>1, <2>2, ServeStep, IdleFields DEF SendOps, AckOps, ChangeOps
<1>4. CASE ServeGroup(w, u)
  <2>1. PICK r \in CmdGroupSend(u) \cup AskGroupAI(u) \cup CmdGroupPoll(u)
                     \cup CmdGroupInvite(u) \cup CmdGroupLeave(u) :
            Serve(w, r, [Idle EXCEPT !.pc = IF r.op = "group_poll_all"
                                            THEN "mygroups" ELSE "load"])
    BY <1>4 DEF ServeGroup
  <2>2. /\ DOMAIN r = ReqFields
        /\ \/ r.op \in {"group_send", "group_ai"} /\ r.msg \in Msgs \ used
           \/ r.op \in {"group_poll", "group_poll_all", "group_invite", "group_leave"}
                 /\ r.msg = NoMsg
    BY DEF CmdGroupSend, AskGroupAI, CmdGroupPoll, CmdGroupInvite, CmdGroupLeave
  <2>3. CASE r.op = "group_poll_all"
    BY <2>1, <2>2, <2>3, ServeStep, IdleFields DEF SendOps, AckOps, PollOps
  <2>4. CASE r.op # "group_poll_all"
    BY <2>1, <2>2, <2>4, ServeStep, IdleFields DEF SendOps, AckOps, PollOps, ChangeOps
  <2> QED  BY <2>3, <2>4
<1> QED  BY <1>1, <1>2, <1>3, <1>4

LEMMA RestartStep == ASSUME IInv, Restart  PROVE IInv'
<1>1. KeepsAll /\ UNCHANGED <<acked, used>>
  BY Unchanged DEF Restart, store, hist
<1>2. job' = [w \in Workers |-> Idle]
  BY DEF Restart
<1> USE DEF IInv, At, Op, Msg, Message, Group
<1>3. \A w \in Workers : /\ DOMAIN job'[w] = Fields /\ DOMAIN job'[w].req = ReqFields
                         /\ At(w, "idle")' /\ Op(w)' = "none" /\ Msg(w)' = NoMsg
  BY <1>2 DEF Idle, Request, Fields, ReqFields
<1>4. ShapeInv' /\ OpInv'
  BY <1>2, <1>3 DEF ShapeInv, OpInv, OpsAt, SendOps, AckOps
<1>5. MsgInv'
  BY <1>1, <1>3, ChatdAssumption DEF MsgInv
<1>6. StoredInv' /\ NoMessageLost'
  BY <1>1, <1>3 DEF StoredInv, NoMessageLost, KeepsAll, Safe, Gone
<1> QED  BY <1>4, <1>5, <1>6

-----------------------------------------------------------------------------
LEMMA InductiveStep == IInv /\ [Next]_vars => IInv'
<1> SUFFICES ASSUME IInv, [Next]_vars  PROVE IInv'
  OBVIOUS
<1>1. ASSUME NEW w \in Workers, Step(w) \/ GiveUp(w)  PROVE IInv'
  BY <1>1, PollStep, LoadStep, ChangeStep, FaultStep, CreateStep, WriteStep,
     AntStoresStep, AiStep, ReplyStep DEF Step
<1>2. CASE UNCHANGED vars
  BY <1>2 DEF vars, store, hist, bound, IInv, ShapeInv, OpInv, MsgInv, StoredInv,
     NoMessageLost, Safe, Gone, At, Op, Msg, Message, Group, Acknowledges
<1> QED  BY <1>1, <1>2, RequestStep, RestartStep DEF Next

(* The inductive invariant, for every behaviour of chatd and its clients.  *)
THEOREM Invariance == Spec => []IInv
  BY InitInvariant, InductiveStep, PTL DEF Spec

(* A message chatd has answered to have stored stays until a poll takes it *)
(* or its group goes, whatever runs at the same time, fails or restarts.   *)
THEOREM AcknowledgedIsStored == Spec => []NoMessageLost
<1>1. IInv => NoMessageLost
  BY DEF IInv
<1> QED  BY <1>1, Invariance, PTL
=============================================================================
