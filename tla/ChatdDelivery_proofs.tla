------------------------- MODULE ChatdDelivery_proofs -------------------------
(***************************************************************************)
(* What polls do with the messages of Chatd: no user prints one twice, and *)
(* what a poll takes is printed or on its way, for every set of users,     *)
(* groups, messages and goroutines.  The invariant of Chatd_proofs is used *)
(* throughout.                                                             *)
(***************************************************************************)
EXTENDS Chatd_proofs, FiniteSetTheorems

Waiting(w) == job[w].waiting
Got(w)     == job[w].got
Entries(w) == job[w].entries

(* The goroutine has not created the file of its message yet.              *)
Early(w) == job[w].pc \in {"load", "create"}

(* A message is in one place for ever: whatever is stored, was read by a   *)
(* poll or is in the hands of a request agrees on where.                   *)
Placed(f) ==
    \/ f \in files
    \/ \E w \in Workers : f \in Got(w)
    \/ \E w \in Workers : f = Message(w) /\ Msg(w) \in Msgs

OneFile ==
    /\ \A f : Placed(f) => f[2] \in Msgs \cap used
    /\ \A f, g : Placed(f) /\ Placed(g) /\ f[2] = g[2] => f = g
    /\ \A f \in taken : f[2] \in Msgs

(* A message that is about to be stored was never stored or read before.   *)
FreshInv ==
    \A w \in Workers : Early(w) =>
        /\ \A f \in files : f[2] # Msg(w)
        /\ \A v \in Workers : \A f \in Got(v) : f[2] # Msg(w)

(* What a poll has read is gone from the store, except the one file it is  *)
(* about to remove; another poll may have read it too.                     *)
GotInv ==
    \A w \in Workers :
        /\ \A f \in Got(w) : f \notin files \/ (At(w, "remove") /\ f \in Entries(w))
        /\ At(w, "remove") => \A f, g \in Entries(w) \cap Got(w) : f = g
        /\ ~At(w, "remove") => Entries(w) \cap Got(w) = {}

(* What a user has seen is not in the store, will not be, and is not what  *)
(* the command the user now runs has read.                                 *)
Seen(u, m) ==
    /\ m \in used
    /\ \A f \in files : f[2] # m
    /\ \A w \in Workers : Early(w) => Msg(w) # m
    /\ \A w \in Workers : Waiting(w) /\ User(w) = u => \A f \in Got(w) : f[2] # m

PrintInv ==
    /\ printed \in [Users -> [Msgs -> {0, 1}]]
    /\ \A u \in Users, m \in Msgs : printed[u][m] = 1 => Seen(u, m)

(* A user waits for one goroutine at a time; a poll loses its client only  *)
(* by a fault; nothing but a poll reads messages.                          *)
WaitInv ==
    /\ \A v, w \in Workers : Waiting(v) /\ Waiting(w) /\ User(v) = User(w) => v = w
    /\ \A w \in Workers : Waiting(w) => User(w) \in Users
    /\ \A w \in Workers : Op(w) \notin PollOps => Got(w) = {}
    /\ faults \in Nat
    /\ faults = 0 => \A w \in Workers : Op(w) \in PollOps => Waiting(w)

DInv == OneFile /\ FreshInv /\ GotInv /\ PrintInv /\ WaitInv /\ TakenIsDelivered

-----------------------------------------------------------------------------
(* Steps that only move goroutines on, or end them.                        *)

LEMMA IdleFacts ==
    /\ Idle.pc = "idle" /\ Idle.waiting = FALSE /\ Idle.got = {} /\ Idle.entries = {}
    /\ Idle.req.op = "none" /\ Idle.req.msg = NoMsg /\ Idle.req.u = NoMsg
BY DEF Idle, Request

Same(v) ==
    /\ job'[v].req = job[v].req /\ job'[v].pc = job[v].pc
    /\ job'[v].waiting = job[v].waiting
    /\ job'[v].entries = job[v].entries /\ job'[v].got = job[v].got

Advances(v) ==
    /\ job'[v].req = job[v].req
    /\ job'[v].entries = job[v].entries /\ job'[v].got = job[v].got
    /\ job'[v].pc = "remove" <=> job[v].pc = "remove"
    /\ Early(v)' => Early(v)
    /\ job'[v].waiting = job[v].waiting \/ (faults' # 0 /\ job'[v].waiting = FALSE)

Ends(v) == job'[v] = Idle /\ (Got(v) = {} \/ faults' # 0)

LEMMA WorkersMove ==
    ASSUME IInv, DInv, \A v \in Workers : Advances(v) \/ Ends(v),
           files' \subseteq files, UNCHANGED <<used, printed, taken>>,
           faults' \in Nat, faults' = 0 => faults = 0
    PROVE  DInv'
<1> USE DEF Waiting, Got, Entries, At, Op, User, Msg, Message
<1>1. ASSUME NEW v \in Workers
      PROVE  /\ Waiting(v)' => Waiting(v) /\ job'[v].req = job[v].req
             /\ \/ job'[v].req = job[v].req /\ Got(v)' = Got(v) /\ Entries(v)' = Entries(v)
                \/ Msg(v)' = NoMsg /\ Got(v)' = {} /\ Entries(v)' = {}
             /\ Early(v)' => Early(v) /\ job'[v].req = job[v].req
  <2>1. CASE Advances(v)
    BY <2>1 DEF Advances
  <2>2. CASE Ends(v)
    BY <2>2, IdleFacts DEF Ends, Early
  <2> QED  BY <2>1, <2>2
<1>2. \A f : Placed(f)' => Placed(f)
  BY <1>1, ChatdAssumption DEF Placed
<1>3. OneFile'
  BY <1>2 DEF DInv, OneFile
<1>4. FreshInv'
  BY <1>1 DEF DInv, FreshInv
<1>5. GotInv'
  BY IdleFacts DEF DInv, GotInv, Advances, Ends
<1>6. PrintInv'
  <2>1. \A u \in Users, m \in Msgs : Seen(u, m) => Seen(u, m)'
    BY <1>1 DEF Seen
  <2> QED  BY <2>1 DEF DInv, PrintInv
<1>7. WaitInv'
  <2>1. \A v \in Workers : Op(v)' \notin PollOps => Got(v)' = {}
    BY <1>1, IdleFacts DEF DInv, WaitInv, Advances, Ends
  <2>2. faults' = 0 => \A v \in Workers : Op(v)' \in PollOps => Waiting(v)'
    BY IdleFacts DEF DInv, WaitInv, Advances, Ends, PollOps
  <2> QED  BY <1>1, <2>1, <2>2 DEF DInv, WaitInv
<1>8. TakenIsDelivered'
  BY DEF DInv, TakenIsDelivered, Advances, Ends
<1> QED  BY <1>3, <1>4, <1>5, <1>6, <1>7, <1>8 DEF DInv

(* One goroutine goes on to step p.                                        *)
Goes(w, p) ==
    /\ \A v \in Workers \ {w} : Same(v)
    /\ job'[w].req = job[w].req /\ job'[w].waiting = job[w].waiting
    /\ job'[w].entries = job[w].entries /\ job'[w].got = job[w].got
    /\ job'[w].pc = p

LEMMA GoingOn ==
    ASSUME IInv, DInv, NEW w \in Workers, NEW p, Goes(w, p),
           p \notin {"load", "remove"}, ~At(w, "remove"), p = "create" => At(w, "load"),
           files' \subseteq files, UNCHANGED <<used, printed, taken>>,
           faults' \in Nat, faults' = 0 => faults = 0
    PROVE  DInv'
<1>1. \A v \in Workers \ {w} : Advances(v)
  BY DEF Goes, Same, Advances, Early
<1>2. Advances(w)
  BY DEF Goes, Advances, Early, At
<1> QED  BY <1>1, <1>2, WorkersMove

LEMMA Ending ==
    ASSUME IInv, DInv, NEW w \in Workers, job' = [job EXCEPT ![w] = Idle],
           Got(w) = {} \/ faults' # 0, UNCHANGED <<files, used, printed, taken>>,
           faults' \in Nat, faults' = 0 => faults = 0
    PROVE  DInv'
<1>1. /\ \A v \in Workers \ {w} : job'[v] = job[v]
      /\ job'[w] = Idle
  BY DEF IInv, ShapeInv
<1>2. \A v \in Workers : Advances(v) \/ Ends(v)
  BY <1>1 DEF Advances, Ends, Early
<1> QED  BY <1>2, WorkersMove

(* The steps that only set the program counter, with or without ok, addr,  *)
(* and the fields of a change of a group.                                  *)
LEMMA GotoGoes == ASSUME IInv, NEW w \in Workers, NEW p, Goto(w, p)  PROVE Goes(w, p)
BY DEF IInv, ShapeInv, Fields, Goto, Goes, Same

LEMMA NextMemberGoes ==
    ASSUME IInv, NEW w \in Workers, job' = [job EXCEPT ![w] = NextMember(w)]
    PROVE  \E p \in {"reply", "lists"} : Goes(w, p)
<1>1. /\ NextMember(w).req = job[w].req /\ NextMember(w).waiting = job[w].waiting
      /\ NextMember(w).entries = job[w].entries /\ NextMember(w).got = job[w].got
      /\ NextMember(w).pc \in {"reply", "lists"}
  BY DEF IInv, ShapeInv, NextMember, Fields
<1> QED  BY <1>1 DEF IInv, ShapeInv, Goes, Same

LEMMA LoadGoes ==
    ASSUME IInv, NEW w \in Workers,
           LoadFails(w) \/ LoadToInvite(w) \/ LoadToLeave(w)
    PROVE  \E p \in {"reply", "meta", "rmdir"} : Goes(w, p)
<1>1. CASE LoadFails(w)
  BY <1>1 DEF IInv, ShapeInv, Fields, Goes, Same, LoadFails, Fail
<1>2. CASE LoadToInvite(w)
  <2>1. PICK t, g : job' = [job EXCEPT ![w].pc = "meta", ![w].todo = t, ![w].grp = g]
    BY <1>2 DEF LoadToInvite
  <2>2. Goes(w, "meta")
    BY <2>1 DEF IInv, ShapeInv, Fields, Goes, Same
  <2> QED  BY <2>2
<1>3. CASE LoadToLeave(w)
  <2> DEFINE left == Without(meta[Group(w)].members, {User(w)})
  <2>1. PICK g : job' = [job EXCEPT ![w].todo = <<User(w)>>,
                           ![w].pc  = IF left = <<>> THEN "rmdir" ELSE "meta",
                           ![w].grp = g]
    BY <1>3 DEF LoadToLeave
  <2> HIDE DEF left
  <2>2. Goes(w, IF left = <<>> THEN "rmdir" ELSE "meta")
    BY <2>1 DEF IInv, ShapeInv, Fields, Goes, Same
  <2> QED  BY <2>2
<1> QED  BY <1>1, <1>2, <1>3

LEMMA ChangeGoes ==
    ASSUME IInv, NEW w \in Workers,
           \/ RemoveGroup(w) \/ MetaOpen(w) \/ MetaWrite(w) \/ AddUserGroup(w)
           \/ RemoveUserGroup(w) \/ ListOpen(w) \/ ListWrite(w)
    PROVE  \E p \in {"metawrite", "lists", "listopen", "listwrite", "reply"} : Goes(w, p)
<1>1. CASE RemoveGroup(w)
  BY <1>1 DEF IInv, ShapeInv, Fields, Goes, Same, RemoveGroup
<1>2. CASE MetaOpen(w)
  BY <1>2 DEF IInv, ShapeInv, Fields, Goes, Same, MetaOpen
<1>3. CASE MetaWrite(w)
  BY <1>3 DEF IInv, ShapeInv, Fields, Goes, Same, MetaWrite
<1>4. CASE ListOpen(w)
  BY <1>4, GotoGoes DEF ListOpen
<1>5. CASE AddUserGroup(w) \/ RemoveUserGroup(w) \/ ListWrite(w)
  <2>1. \/ job' = [job EXCEPT ![w] = NextMember(w)]
        \/ \E l : job' = [job EXCEPT ![w].pc = "listopen", ![w].list = l]
    BY <1>5 DEF AddUserGroup, RemoveUserGroup, ListWrite
  <2>2. ASSUME NEW l, job' = [job EXCEPT ![w].pc = "listopen", ![w].list = l]
        PROVE  Goes(w, "listopen")
    BY <2>2 DEF IInv, ShapeInv, Fields, Goes, Same
  <2> QED  BY <2>1, <2>2, NextMemberGoes
<1> QED  BY <1>1, <1>2, <1>3, <1>4, <1>5

-----------------------------------------------------------------------------
(* The steps of requests that are no polls.                                *)

LEMMA GoingSteps ==
    ASSUME IInv, DInv, NEW w \in Workers,
           \/ MyGroups(w) \/ PollDone(w) \/ LoadFails(w) \/ LoadToSend(w) \/ LoadToPoll(w)
           \/ LoadToInvite(w) \/ LoadToLeave(w) \/ RemoveGroup(w) \/ MetaOpen(w)
           \/ MetaWrite(w) \/ AddUserGroup(w) \/ RemoveUserGroup(w) \/ ListOpen(w)
           \/ ListWrite(w) \/ AntStores(w) \/ AntFails(w)
    PROVE  DInv'
<1>1. /\ files' \subseteq files /\ UNCHANGED <<used, printed, taken, faults>>
      /\ ~At(w, "remove") /\ faults \in Nat
  <2>1. files' \subseteq files /\ UNCHANGED <<used, printed, taken, faults>>
    BY DEF MyGroups, PollDone, LoadFails, LoadToSend, LoadToPoll, LoadToInvite, LoadToLeave,
       Load, RemoveGroup, MetaOpen, MetaWrite, AddUserGroup, RemoveUserGroup, ListOpen,
       ListWrite, AntStores, AntFails, store, hist, bound
  <2>2. ~At(w, "remove")
    BY DEF At, MyGroups, PollDone, LoadFails, LoadToSend, LoadToPoll, LoadToInvite,
       LoadToLeave, Load, RemoveGroup, MetaOpen, MetaWrite, AddUserGroup, RemoveUserGroup,
       ListOpen, ListWrite, AntStores, AntFails
  <2> QED  BY <2>1, <2>2 DEF DInv, WaitInv
<1>2. CASE MyGroups(w)
  <2>1. Goes(w, "readdir")
    BY <1>2 DEF IInv, ShapeInv, Fields, Goes, Same, MyGroups
  <2> QED  BY <1>1, <2>1, GoingOn
<1>3. CASE PollDone(w)
  <2>1. Goto(w, "readdir") \/ Goto(w, "reply")
    BY <1>3 DEF PollDone
  <2> QED  BY <1>1, <2>1, GotoGoes, GoingOn
<1>4. CASE LoadToSend(w)
  <2>1. Goto(w, "create") /\ At(w, "load")
    BY <1>4 DEF LoadToSend, Load
  <2> QED  BY <1>1, <2>1, GotoGoes, GoingOn
<1>5. CASE LoadToPoll(w)
  <2>1. Goes(w, "readdir")
    BY <1>5 DEF IInv, ShapeInv, Fields, Goes, Same, LoadToPoll
  <2> QED  BY <1>1, <2>1, GoingOn
<1>6. CASE LoadFails(w) \/ LoadToInvite(w) \/ LoadToLeave(w)
  BY <1>1, <1>6, LoadGoes, GoingOn
<1>7. CASE \/ RemoveGroup(w) \/ MetaOpen(w) \/ MetaWrite(w) \/ AddUserGroup(w)
           \/ RemoveUserGroup(w) \/ ListOpen(w) \/ ListWrite(w)
  BY <1>1, <1>7, ChangeGoes, GoingOn
<1>8. CASE AntStores(w)
  <2>1. Goes(w, "reply")
    BY <1>8 DEF IInv, ShapeInv, Fields, Goes, Same, AntStores
  <2> QED  BY <1>1, <2>1, GoingOn
<1>9. CASE AntFails(w)
  <2>1. Goto(w, "reply")
    BY <1>9 DEF AntFails
  <2> QED  BY <1>1, <2>1, GotoGoes, GoingOn
<1> QED  BY <1>2, <1>3, <1>4, <1>5, <1>6, <1>7, <1>8, <1>9

LEMMA EndingSteps ==
    ASSUME IInv, DInv, NEW w \in Workers, Write(w) \/ AiFails(w)
    PROVE  DInv'
<1>1. UNCHANGED <<files, used, printed, taken, faults>> /\ faults \in Nat /\ ~At(w, "remove")
  BY DEF Write, AiFails, store, hist, bound, DInv, WaitInv, At
<1>2. Op(w) \in SendOps
  BY DEF IInv, OpInv, OpsAt, Write, AiFails, At, SendOps
<1>3. Got(w) = {}
  BY <1>2 DEF DInv, WaitInv, SendOps, AckOps, PollOps
<1>4. \/ job' = [job EXCEPT ![w] = Idle]
      \/ Goto(w, "ant") \/ Goto(w, "reply")
  BY DEF Write, AiFails
<1> QED  BY <1>1, <1>3, <1>4, Ending, GotoGoes, GoingOn

LEMMA FaultSteps ==
    ASSUME IInv, DInv,
           Restart \/ \E w \in Workers : WriteFails(w) \/ GiveUp(w)
    PROVE  DInv'
<1>1. faults' \in Nat /\ faults' # 0 /\ UNCHANGED <<files, used, printed, taken>>
  <2>1. faults' = faults + 1 /\ UNCHANGED <<files, used, printed, taken>>
    BY DEF Restart, WriteFails, GiveUp, store, hist
  <2>2. faults \in Nat
    BY DEF DInv, WaitInv
  <2> QED  BY <2>1, <2>2
<1>2. CASE Restart
  <2>1. \A v \in Workers : Ends(v)
    BY <1>1, <1>2 DEF Restart, Ends
  <2> QED  BY <1>1, <2>1, WorkersMove
<1>3. ASSUME NEW w \in Workers, GiveUp(w)  PROVE DInv'
  <2>1. job' = [job EXCEPT ![w].waiting = FALSE]
    BY <1>3 DEF GiveUp
  <2>2. \A v \in Workers : Advances(v)
    BY <1>1, <2>1 DEF IInv, ShapeInv, Fields, Advances, Early
  <2> QED  BY <1>1, <2>2, WorkersMove
<1>4. ASSUME NEW w \in Workers, WriteFails(w)  PROVE DInv'
  <2>1. \/ job' = [job EXCEPT ![w] = NextMember(w)]
        \/ job' = [job EXCEPT ![w] = Idle]
        \/ job' = [job EXCEPT ![w].pc = "reply", ![w].ok = FALSE]
    BY <1>4 DEF WriteFails
  <2>2. ~At(w, "remove")
    BY <1>4 DEF WriteFails, At
  <2>3. CASE job' = [job EXCEPT ![w].pc = "reply", ![w].ok = FALSE]
    <3>1. Goes(w, "reply")
      BY <2>3 DEF IInv, ShapeInv, Fields, Goes, Same
    <3> QED  BY <1>1, <2>2, <3>1, GoingOn
  <2> QED  BY <1>1, <2>1, <2>2, <2>3, NextMemberGoes, GoingOn, Ending
<1> QED  BY <1>2, <1>3, <1>4

-----------------------------------------------------------------------------
(* The steps of a poll.                                                    *)

Polls(w, p, e, g) ==
    /\ \A v \in Workers \ {w} : Same(v)
    /\ job'[w].req = job[w].req /\ job'[w].waiting = job[w].waiting
    /\ job'[w].pc = p /\ job'[w].entries = e /\ job'[w].got = g

LEMMA PollMove ==
    ASSUME IInv, DInv, NEW w \in Workers, NEW p \in {"read", "remove"}, NEW e, NEW g,
           Polls(w, p, e, g), Op(w) \in PollOps, GotInv',
           files' \subseteq files, UNCHANGED <<used, printed, faults>>,
           Got(w) \subseteq g, g \subseteq Got(w) \cup files,
           taken \subseteq taken', taken' \subseteq taken \cup g
    PROVE  DInv'
<1> USE DEF Waiting, Got, Entries, At, Op, User, Msg, Message
<1>1. /\ \A v \in Workers : /\ Waiting(v)' = Waiting(v) /\ job'[v].req = job[v].req
                            /\ Early(v)' => Early(v)
                            /\ Got(v) \subseteq Got(v)'
      /\ \A v \in Workers : \A f \in Got(v)' : f \in Got(v) \/ (v = w /\ f \in files)
  BY DEF Polls, Same, Early
<1>2. \A f : Placed(f)' => Placed(f)
  BY <1>1 DEF Placed
<1>3. OneFile'
  <2>1. \A f \in taken' : f[2] \in Msgs
    <3>1. \A f \in g : Placed(f)
      BY DEF Placed
    <3> QED  BY <3>1 DEF DInv, OneFile
  <2> QED  BY <1>2, <2>1 DEF DInv, OneFile
<1>4. FreshInv'
  BY <1>1 DEF DInv, FreshInv
<1>5. PrintInv'
  <2>1. \A u \in Users, m \in Msgs : Seen(u, m) => Seen(u, m)'
    BY <1>1 DEF Seen
  <2> QED  BY <2>1 DEF DInv, PrintInv
<1>6. WaitInv'
  <2>1. \A v \in Workers : Op(v)' \notin PollOps => Got(v)' = {}
    BY DEF DInv, WaitInv, Polls, Same
  <2> QED  BY <1>1, <2>1 DEF DInv, WaitInv
<1>7. TakenIsDelivered'
  <2>1. faults = 0 => Waiting(w)
    BY DEF DInv, WaitInv
  <2>2. g = Got(w)'
    BY DEF Polls
  <2> QED  BY <1>1, <2>1, <2>2 DEF DInv, TakenIsDelivered
<1> QED  BY <1>3, <1>4, <1>5, <1>6, <1>7 DEF DInv

LEMMA GotMove ==
    ASSUME GotInv, NEW w \in Workers, NEW p, NEW e, NEW g, Polls(w, p, e, g),
           files' \subseteq files,
           \A f \in g : f \notin files' \/ (p = "remove" /\ f \in e),
           p = "remove" => \A f, h \in e \cap g : f = h,
           p # "remove" => e \cap g = {}
    PROVE  GotInv'
<1>1. ASSUME NEW v \in Workers
      PROVE  /\ \A f \in Got(v)' : f \notin files' \/ (At(v, "remove")' /\ f \in Entries(v)')
             /\ At(v, "remove")' => \A f, h \in Entries(v)' \cap Got(v)' : f = h
             /\ ~At(v, "remove")' => Entries(v)' \cap Got(v)' = {}
  <2>1. CASE v = w
    BY <2>1 DEF Polls, At, Got, Entries
  <2>2. CASE v # w
    BY <2>2 DEF GotInv, Polls, Same, At, Got, Entries
  <2> QED  BY <2>1, <2>2
<1> QED  BY <1>1 DEF GotInv

(* Reading a directory: nothing of it has been read before.                *)
LEMMA ReadDirStep == ASSUME IInv, DInv, NEW w \in Workers, ReadDir(w)  PROVE DInv'
<1>1. PICK d : job' = [job EXCEPT ![w].pc = "read", ![w].dirs = @ \ {d},
                                  ![w].entries = {f \in files : f[1] = d}]
  BY DEF ReadDir
<1>2. At(w, "readdir") /\ UNCHANGED <<files, used, printed, faults, taken>>
  BY DEF ReadDir, store, hist, bound
<1> DEFINE e == {f \in files : f[1] = d}
<1>3. Polls(w, "read", e, Got(w))
  BY <1>1 DEF IInv, ShapeInv, Fields, Polls, Same, Got
<1>4. e \cap Got(w) = {}
  BY <1>2 DEF DInv, GotInv, At
<1> HIDE DEF e
<1>5. Op(w) \in PollOps
  BY <1>2 DEF IInv, OpInv, OpsAt, At
<1>6. GotInv'
  <2>1. \A f \in Got(w) : f \notin files
    BY <1>2 DEF DInv, GotInv, At
  <2> QED  BY <1>2, <1>3, <1>4, <2>1, GotMove DEF DInv
<1> QED  BY <1>2, <1>3, <1>5, <1>6, PollMove

LEMMA ReadFileStep == ASSUME IInv, DInv, NEW w \in Workers, ReadFile(w)  PROVE DInv'
<1>1. PICK f \in Entries(w) :
          job' = IF f \in files \ torn
                 THEN [job EXCEPT ![w].pc = "remove", ![w].got = @ \cup {f}]
                 ELSE [job EXCEPT ![w].entries = @ \ {f}]
  BY DEF ReadFile, Entries
<1>2. At(w, "read") /\ UNCHANGED <<files, used, printed, faults, taken>>
  BY DEF ReadFile, store, hist, bound
<1>3. Op(w) \in PollOps
  BY <1>2 DEF IInv, OpInv, OpsAt, At
<1>4. Entries(w) \cap Got(w) = {} /\ \A g \in Got(w) : g \notin files
  BY <1>2 DEF DInv, GotInv, At
<1>5. CASE f \in files \ torn
  <2>1. Polls(w, "remove", Entries(w), Got(w) \cup {f})
    BY <1>1, <1>5 DEF IInv, ShapeInv, Fields, Polls, Same, Got, Entries
  <2>2. GotInv'
    BY <1>2, <1>4, <2>1, GotMove DEF DInv
  <2> QED  BY <1>2, <1>3, <1>5, <2>1, <2>2, PollMove
<1>6. CASE f \notin files \ torn
  <2>1. Polls(w, "read", Entries(w) \ {f}, Got(w))
    BY <1>1, <1>2, <1>6 DEF IInv, ShapeInv, Fields, Polls, Same, Got, Entries, At
  <2>2. GotInv'
    BY <1>2, <1>4, <2>1, GotMove DEF DInv
  <2> QED  BY <1>2, <1>3, <2>1, <2>2, PollMove
<1> QED  BY <1>5, <1>6

LEMMA RemoveFileStep == ASSUME IInv, DInv, NEW w \in Workers, RemoveFile(w)  PROVE DInv'
<1>1. PICK f \in Entries(w) \cap Got(w) :
          /\ files' = files \ {f} /\ taken' = taken \cup {f}
          /\ job' = [job EXCEPT ![w].pc = "read", ![w].entries = @ \ {f}]
  BY DEF RemoveFile, Entries, Got
<1>2. At(w, "remove") /\ UNCHANGED <<used, printed, faults>>
  BY DEF RemoveFile, bound
<1>3. Op(w) \in PollOps
  BY <1>2 DEF IInv, OpInv, OpsAt, At
<1>4. Polls(w, "read", Entries(w) \ {f}, Got(w))
  BY <1>1 DEF IInv, ShapeInv, Fields, Polls, Same, Got, Entries
<1>5. \A g \in Entries(w) \cap Got(w) : g = f
  BY <1>2 DEF DInv, GotInv
<1>6. GotInv'
  <2>1. files' \subseteq files /\ \A g \in Got(w) : g \notin files'
    BY <1>1, <1>5 DEF DInv, GotInv
  <2> QED  BY <1>4, <1>5, <2>1, GotMove DEF DInv
<1> QED  BY <1>1, <1>2, <1>3, <1>4, <1>6, PollMove

-----------------------------------------------------------------------------
(* A message enters the store.                                             *)

LEMMA CreateDStep == ASSUME IInv, DInv, NEW w \in Workers, Create(w)  PROVE DInv'
<1>1. /\ files' = files \cup {Message(w)} /\ At(w, "create") /\ Goto(w, "write")
      /\ UNCHANGED <<used, printed, faults, taken>>
  BY DEF Create, hist, bound
<1>2. Goes(w, "write") /\ Early(w)
  BY <1>1, GotoGoes DEF Early, At
<1>3. Msg(w) \in Msgs \cap used /\ Msg(w) # NoMsg
  BY <1>1, ChatdAssumption DEF IInv, OpInv, OpsAt, At
<1>4. Message(w)[2] = Msg(w) /\ \A v \in Workers \ {w} : Msg(v) # Msg(w)
  BY <1>3 DEF IInv, MsgInv, Message, Msg
<1>5. \A v \in Workers : \A f \in Got(v) : f # Message(w)
  BY <1>2, <1>4 DEF DInv, FreshInv
<1> USE DEF Waiting, Got, Entries, At, Op, User, Msg, Message
<1>6. \A v \in Workers : /\ Waiting(v)' = Waiting(v) /\ job'[v].req = job[v].req
                         /\ Early(v)' => Early(v) /\ v # w
                         /\ Got(v)' = Got(v) /\ Entries(v)' = Entries(v)
                         /\ At(v, "remove")' <=> At(v, "remove")
  BY <1>1, <1>2 DEF Goes, Same, Early
<1>7. OneFile'
  <2>1. \A f : Placed(f)' => Placed(f)
    BY <1>1, <1>3, <1>6 DEF Placed
  <2> QED  BY <1>1, <2>1 DEF DInv, OneFile
<1>8. FreshInv'
  BY <1>1, <1>4, <1>6 DEF DInv, FreshInv
<1>9. GotInv'
  BY <1>1, <1>5, <1>6 DEF DInv, GotInv
<1>10. PrintInv'
  <2>1. \A u \in Users, m \in Msgs : Seen(u, m) => Seen(u, m)'
    BY <1>1, <1>2, <1>4, <1>6 DEF Seen
  <2> QED  BY <1>1, <2>1 DEF DInv, PrintInv
<1>11. WaitInv' /\ TakenIsDelivered'
  BY <1>1, <1>6 DEF DInv, WaitInv, TakenIsDelivered
<1> QED  BY <1>7, <1>8, <1>9, <1>10, <1>11 DEF DInv

(* A goroutine takes a new message in hand: a request that arrives, or the *)
(* answer of the AI, whose file is created at once.                        *)
TakesNew(w) ==
    /\ \A v \in Workers \ {w} : Same(v)
    /\ Got(w)' = {} /\ ~At(w, "remove")'
    /\ Msg(w)' \in Msgs => Msg(w)' \notin used /\ Msg(w)' \in used'
    /\ used \subseteq used' /\ UNCHANGED <<taken, printed>>
    /\ \/ files' = files
       \/ files' = files \cup {Message(w)'} /\ ~Early(w)' /\ Msg(w)' \in Msgs

LEMMA NewMessage ==
    ASSUME IInv, DInv, NEW w \in Workers, TakesNew(w)
    PROVE  (OneFile /\ FreshInv /\ GotInv)'
<1>1. Message(w)'[2] = Msg(w)'
  BY DEF Message, Msg
<1>2. \A f \in files' : f \in files \/ (f = Message(w)' /\ ~Early(w)' /\ Msg(w)' \in Msgs)
  BY DEF TakesNew
<1>3. /\ \A v \in Workers : \A f \in Got(v)' : f \in Got(v) /\ f[2] \in Msgs \cap used
      /\ \A f \in files : f[2] \in Msgs \cap used
  BY DEF TakesNew, Same, Got, DInv, OneFile, Placed
<1>4. \A f : Placed(f)' => Placed(f) \/ (f = Message(w)' /\ Msg(w)' \in Msgs)
  BY <1>2, <1>3 DEF Placed, TakesNew, Same, Message, Msg
<1>5. OneFile'
  <2>1. ASSUME NEW f, Placed(f)'  PROVE f[2] \in Msgs \cap used'
    BY <1>1, <1>4, <2>1 DEF DInv, OneFile, TakesNew
  <2>2. ASSUME NEW f, NEW g, Placed(f)', Placed(g)', f[2] = g[2]  PROVE f = g
    <3>1. ASSUME NEW h, Placed(h), h[2] = Msg(w)', Msg(w)' \in Msgs  PROVE FALSE
      BY <3>1 DEF DInv, OneFile, TakesNew
    <3> QED  BY <1>1, <1>4, <2>2, <3>1 DEF DInv, OneFile
  <2> QED  BY <2>1, <2>2 DEF DInv, OneFile, TakesNew
<1>6. FreshInv'
  <2> SUFFICES ASSUME NEW v \in Workers, Early(v)'
               PROVE  /\ \A f \in files' : f[2] # Msg(v)'
                      /\ \A u \in Workers : \A f \in Got(u)' : f[2] # Msg(v)'
    BY DEF FreshInv
  <2>1. CASE v = w
    BY <1>2, <1>3, <2>1 DEF TakesNew
  <2>2. CASE v # w
    <3>1. Msg(v)' = Msg(v) /\ Early(v)
      BY <2>2 DEF TakesNew, Same, Msg, Early
    <3>2. Msg(v) \in used \/ Msg(v) = NoMsg
      BY DEF IInv, OpInv
    <3>3. Msg(w)' \in Msgs => Msg(w)' # Msg(v)
      BY <3>2, ChatdAssumption DEF TakesNew
    <3> QED  BY <1>1, <1>2, <1>3, <3>1, <3>3 DEF DInv, FreshInv
  <2> QED  BY <2>1, <2>2
<1>7. GotInv'
  <2>1. ASSUME NEW v \in Workers, NEW f \in Got(v)'  PROVE f # Message(w)' \/ Msg(w)' \notin Msgs
    BY <1>1, <1>3, <2>1 DEF TakesNew
  <2> SUFFICES ASSUME NEW v \in Workers
               PROVE  /\ \A f \in Got(v)' : f \notin files' \/ (At(v, "remove")' /\ f \in Entries(v)')
                      /\ At(v, "remove")' => \A f, g \in Entries(v)' \cap Got(v)' : f = g
                      /\ ~At(v, "remove")' => Entries(v)' \cap Got(v)' = {}
    BY DEF GotInv
  <2>2. CASE v = w
    BY <2>2 DEF TakesNew
  <2>3. CASE v # w
    BY <1>2, <2>1, <2>3 DEF TakesNew, Same, DInv, GotInv, Got, Entries, At
  <2> QED  BY <2>2, <2>3
<1> QED  BY <1>5, <1>6, <1>7

LEMMA NewMessageUnseen ==
    ASSUME IInv, DInv, NEW w \in Workers, TakesNew(w)
    PROVE  PrintInv'
<1>1. ASSUME NEW u \in Users, NEW m \in Msgs, Seen(u, m)  PROVE Seen(u, m)'
  <2>1. m \in used' /\ Msg(w)' # m
    BY <1>1 DEF Seen, TakesNew
  <2>2. \A f \in files' : f[2] # m
    BY <1>1, <2>1 DEF Seen, TakesNew, Message, Msg
  <2>3. \A v \in Workers : Early(v)' => Msg(v)' # m
    BY <1>1, <2>1 DEF Seen, TakesNew, Same, Msg, Early
  <2>4. \A v \in Workers : Waiting(v)' /\ User(v)' = u => \A f \in Got(v)' : f[2] # m
    BY <1>1 DEF Seen, TakesNew, Same, Waiting, User, Got
  <2> QED  BY <2>1, <2>2, <2>3, <2>4 DEF Seen
<1>2. printed' = printed
  BY DEF TakesNew
<1> QED  BY <1>1, <1>2 DEF DInv, PrintInv

LEMMA AiAnswersStep == ASSUME IInv, DInv, NEW w \in Workers, AiAnswers(w)  PROVE DInv'
<1>1. PICK m \in Msgs \ used :
          /\ files' = files \cup {<<Group(w), m>>}
          /\ job' = [job EXCEPT ![w].pc = "write", ![w].req = [@ EXCEPT !.op = "ai", !.msg = m]]
          /\ used' = used \cup {m}
  BY DEF AiAnswers
<1>2. At(w, "ai") /\ UNCHANGED <<taken, printed, faults>>
  BY DEF AiAnswers, hist
<1>3. /\ \A v \in Workers \ {w} : Same(v)
      /\ job'[w].pc = "write" /\ job'[w].req.op = "ai" /\ job'[w].req.msg = m
      /\ job'[w].req.dir = job[w].req.dir /\ job'[w].req.u = job[w].req.u
      /\ job'[w].waiting = job[w].waiting
      /\ job'[w].entries = job[w].entries /\ job'[w].got = job[w].got
  BY <1>1 DEF IInv, ShapeInv, Same, Fields, ReqFields
<1>4. Got(w) = {} /\ Op(w)' \notin PollOps /\ Op(w) \notin PollOps
  <2>1. Op(w) \in AckOps
    BY <1>2 DEF IInv, OpInv, OpsAt, At
  <2> QED  BY <1>3, <2>1 DEF DInv, WaitInv, AckOps, PollOps, Op
<1>5. TakesNew(w)
  <2>1. Message(w)' = <<Group(w), m>> /\ Msg(w)' = m
    BY <1>3 DEF Message, Msg, Group
  <2> QED  BY <1>1, <1>2, <1>3, <1>4, <2>1 DEF TakesNew, Got, At, Early
<1>6. \A v \in Workers : /\ Waiting(v)' = Waiting(v) /\ User(v)' = User(v) /\ Got(v)' = Got(v)
                         /\ Op(v)' \in PollOps => Op(v) \in PollOps
                         /\ Op(v)' \notin PollOps => v = w \/ Op(v) \notin PollOps
  BY <1>3, <1>4 DEF Same, Waiting, User, Got, Op
<1>7. WaitInv' /\ TakenIsDelivered'
  BY <1>2, <1>4, <1>6 DEF DInv, WaitInv, TakenIsDelivered, Waiting, Got
<1> QED  BY <1>5, <1>7, NewMessage, NewMessageUnseen DEF DInv

(* A request arrives: its user waits for no other.                         *)
LEMMA ServeDStep ==
    ASSUME IInv, DInv, NEW w \in Workers, NEW u \in Users, NEW r, NEW first,
           Serve(w, r, first), DOMAIN first = Fields, first.got = {}, first.pc # "remove",
           r.u = u, r.msg \in (Msgs \ used) \cup {NoMsg}
    PROVE  DInv'
<1>1. /\ job' = [job EXCEPT ![w] = [first EXCEPT !.req = r, !.waiting = TRUE]]
      /\ used \subseteq used' /\ ({r.msg} \cap Msgs) \subseteq used'
      /\ ~\E v \in Workers : job[v].waiting /\ User(v) = r.u
      /\ UNCHANGED <<files, taken, printed, faults>>
  BY DEF Serve, store, hist
<1>2. /\ \A v \in Workers \ {w} : Same(v)
      /\ job'[w].req = r /\ job'[w].waiting = TRUE /\ job'[w].pc = first.pc
      /\ job'[w].got = {}
  BY <1>1 DEF IInv, ShapeInv, Same, Fields
<1>3. TakesNew(w)
  BY <1>1, <1>2, ChatdAssumption DEF TakesNew, Got, At, Msg
<1>4. /\ \A v \in Workers \ {w} : /\ Waiting(v)' = Waiting(v) /\ User(v)' = User(v)
                                  /\ Got(v)' = Got(v) /\ Op(v)' = Op(v)
      /\ Waiting(w)' /\ User(w)' = u /\ Got(w)' = {}
  BY <1>2 DEF Same, Waiting, User, Got, Op
<1>5. \A v \in Workers : ~(Waiting(v) /\ User(v) = u)
  BY <1>1 DEF Waiting
<1>6. WaitInv'
  BY <1>1, <1>4, <1>5 DEF DInv, WaitInv
<1>7. TakenIsDelivered'
  <2>1. faults = 0 /\ At(w, "idle") => Got(w) = {}
    BY DEF IInv, OpInv, OpsAt, At, DInv, WaitInv, PollOps
  <2>2. At(w, "idle")
    BY DEF Serve
  <2> QED  BY <1>1, <1>4, <2>1, <2>2 DEF DInv, TakenIsDelivered, Waiting, Got
<1> QED  BY <1>3, <1>6, <1>7, NewMessage, NewMessageUnseen DEF DInv

LEMMA RequestDStep ==
    ASSUME IInv, DInv, NEW w \in Workers, NEW u \in Users,
           ServeSend(w, u) \/ ServePoll(w, u) \/ ServeGroupCreate(w, u) \/ ServeGroup(w, u)
    PROVE  DInv'
<1> USE DEF Request
<1>1. CASE ServeSend(w, u)
  <2>1. PICK r \in CmdSend(u) : Serve(w, r, [Idle EXCEPT !.pc = "create"])
    BY <1>1 DEF ServeSend
  <2>2. r.u = u /\ r.msg \in Msgs \ used
    BY DEF CmdSend
  <2> QED  BY <2>1, <2>2, ServeDStep, IdleFields, IdleFacts DEF Fields
<1>2. CASE ServePoll(w, u)
  <2>1. PICK r \in CmdPoll(u) : Serve(w, r, [Idle EXCEPT !.pc = "readdir", !.dirs = {u}])
    BY <1>2 DEF ServePoll
  <2>2. r.u = u /\ r.msg = NoMsg
    BY DEF CmdPoll
  <2> QED  BY <2>1, <2>2, ServeDStep, IdleFields, IdleFacts DEF Fields
<1>3. CASE ServeGroupCreate(w, u)
  <2>1. PICK r \in CmdGroupCreate(u) : \E g, ms :
            Serve(w, r, [Idle EXCEPT !.pc = "meta", !.todo = ms, !.grp = g])
    BY <1>3 DEF ServeGroupCreate
  <2>2. r.u = u /\ r.msg = NoMsg
    BY DEF CmdGroupCreate
  <2> QED  BY <2>1, <2>2, ServeDStep, IdleFields, IdleFacts DEF Fields
<1>4. CASE ServeGroup(w, u)
  <2>1. PICK r \in CmdGroupSend(u) \cup AskGroupAI(u) \cup CmdGroupPoll(u)
                     \cup CmdGroupInvite(u) \cup CmdGroupLeave(u) :
            Serve(w, r, [Idle EXCEPT !.pc = IF r.op = "group_poll_all"
                                            THEN "mygroups" ELSE "load"])
    BY <1>4 DEF ServeGroup
  <2>2. r.u = u /\ r.msg \in (Msgs \ used) \cup {NoMsg}
    BY DEF CmdGroupSend, AskGroupAI, CmdGroupPoll, CmdGroupInvite, CmdGroupLeave
  <2> QED  BY <2>1, <2>2, ServeDStep, IdleFields, IdleFacts DEF Fields
<1> QED  BY <1>1, <1>2, <1>3, <1>4

-----------------------------------------------------------------------------
(* A reply reaches its user.                                               *)

(* How often the reply of w shows message m.                               *)
Shown(w, m) == {f \in Got(w) : f[2] = m}

LEMMA ShownOnce ==
    ASSUME DInv, NEW w \in Workers, NEW m
    PROVE  /\ (\E f \in Got(w) : f[2] = m) => Cardinality(Shown(w, m)) = 1
           /\ ~(\E f \in Got(w) : f[2] = m) => Cardinality(Shown(w, m)) = 0
<1>1. ASSUME NEW f \in Got(w), f[2] = m  PROVE Shown(w, m) = {f}
  BY <1>1 DEF Shown, DInv, OneFile, Placed
<1>2. ~(\E f \in Got(w) : f[2] = m) => Shown(w, m) = {}
  BY DEF Shown
<1> QED  BY <1>1, <1>2, FS_Singleton, FS_EmptySet

LEMMA ReplyPrints ==
    ASSUME IInv, DInv, NEW w \in Workers, Reply(w), NEW u \in Users, NEW m \in Msgs
    PROVE  printed'[u][m] = IF Waiting(w) /\ User(w) = u
                            THEN printed[u][m] + Cardinality(Shown(w, m)) ELSE printed[u][m]
<1>1. printed' = IF Waiting(w)
                 THEN [printed EXCEPT ![User(w)] =
                          [n \in Msgs |-> printed[User(w)][n] + Cardinality(Shown(w, n))]]
                 ELSE printed
  BY DEF Reply, Waiting, Shown, Got
<1> QED  BY <1>1 DEF DInv, PrintInv

LEMMA ReplyDStep == ASSUME IInv, DInv, NEW w \in Workers, Reply(w)  PROVE DInv'
<1>1. At(w, "reply") /\ UNCHANGED <<files, used, taken, faults>>
  BY DEF Reply, store, bound
<1>2. /\ \A v \in Workers \ {w} : Same(v)
      /\ \/ job'[w] = Idle
         \/ /\ job'[w].req = job[w].req /\ job'[w].got = job[w].got /\ job'[w].pc = "ai"
            /\ job'[w].waiting = FALSE /\ Op(w) = "group_ai"
  <2>1. CASE Op(w) = "group_ai" /\ job[w].ok /\ ~job[w].addr
    <3>1. job' = [job EXCEPT ![w].pc = "ai", ![w].waiting = FALSE]
      BY <2>1 DEF Reply
    <3> QED  BY <2>1, <3>1 DEF IInv, ShapeInv, Same, Fields
  <2>2. CASE ~(Op(w) = "group_ai" /\ job[w].ok /\ ~job[w].addr)
    <3>1. job' = [job EXCEPT ![w] = Idle]
      BY <2>2 DEF Reply
    <3> QED  BY <3>1 DEF IInv, ShapeInv, Same
  <2> QED  BY <2>1, <2>2
<1>3. /\ Got(w)' = {} /\ ~Waiting(w)' /\ ~Early(w)' /\ ~At(w, "remove")'
      /\ (Message(w)' = Message(w) /\ Msg(w)' = Msg(w)) \/ Msg(w)' = NoMsg
      /\ Op(w)' \notin PollOps
  <2>1. Op(w) = "group_ai" => Got(w) = {}
    BY DEF DInv, WaitInv, PollOps
  <2> QED
    BY <1>2, <2>1, IdleFacts DEF Got, Waiting, Early, At, Message, Msg, Op, PollOps
<1>4. \A v \in Workers \ {w} : /\ Waiting(v)' = Waiting(v) /\ User(v)' = User(v)
                               /\ Got(v)' = Got(v) /\ Entries(v)' = Entries(v) /\ Op(v)' = Op(v)
                               /\ Msg(v)' = Msg(v) /\ Message(v)' = Message(v)
                               /\ Early(v)' = Early(v) /\ At(v, "remove")' = At(v, "remove")
  BY <1>2 DEF Same, Waiting, User, Got, Entries, Op, Msg, Message, Early, At
<1>5. OneFile'
  <2>1. \A f : Placed(f)' => Placed(f)
    BY <1>1, <1>3, <1>4, ChatdAssumption DEF Placed
  <2> QED  BY <1>1, <2>1 DEF DInv, OneFile
<1>6. FreshInv' /\ GotInv'
  <2>1. FreshInv'
    BY <1>1, <1>3, <1>4 DEF DInv, FreshInv
  <2>2. GotInv'
    BY <1>1, <1>3, <1>4 DEF DInv, GotInv
  <2> QED  BY <2>1, <2>2
<1>7. WaitInv'
  BY <1>1, <1>3, <1>4 DEF DInv, WaitInv
<1>8. ASSUME NEW u \in Users, NEW m \in Msgs, Waiting(w), User(w) = u,
             NEW f \in Got(w), f[2] = m
      PROVE  printed[u][m] = 0 /\ printed'[u][m] = 1 /\ Seen(u, m)'
  <2>1. printed[u][m] = 0
    BY <1>8 DEF DInv, PrintInv, Seen
  <2>2. printed'[u][m] = 1
    BY <1>8, <2>1, ReplyPrints, ShownOnce
  <2>3. Placed(f) /\ f \notin files
    BY <1>1 DEF Placed, DInv, GotInv, At
  <2>4. m \in used' /\ \A g \in files' : g[2] # m
    <3>1. \A g \in files : Placed(g)
      BY DEF Placed
    <3> QED  BY <1>1, <1>8, <2>3, <3>1 DEF DInv, OneFile
  <2>5. \A v \in Workers : Early(v)' => Msg(v)' # m
    BY <1>3, <1>4, <1>8 DEF DInv, FreshInv
  <2>6. \A v \in Workers : ~(Waiting(v)' /\ User(v)' = u)
    BY <1>3, <1>4, <1>8 DEF DInv, WaitInv
  <2> QED  BY <2>1, <2>2, <2>4, <2>5, <2>6 DEF Seen
<1>9. ASSUME NEW u \in Users, NEW m \in Msgs,
             ~(Waiting(w) /\ User(w) = u /\ \E f \in Got(w) : f[2] = m)
      PROVE  printed'[u][m] = printed[u][m] /\ (Seen(u, m) => Seen(u, m)')
  <2>1. printed[u][m] \in {0, 1}
    BY DEF DInv, PrintInv
  <2>2. printed'[u][m] = printed[u][m]
    BY <1>9, <2>1, ReplyPrints, ShownOnce
  <2>3. Seen(u, m) => Seen(u, m)'
    BY <1>1, <1>3, <1>4 DEF Seen
  <2> QED  BY <2>2, <2>3
<1>10. PrintInv'
  <2>1. \A u \in Users, m \in Msgs :
            printed'[u][m] \in {0, 1} /\ (printed'[u][m] = 1 => Seen(u, m)')
    BY <1>8, <1>9 DEF DInv, PrintInv
  <2>2. printed' = [u \in Users |-> [m \in Msgs |-> printed'[u][m]]]
    BY DEF Reply, DInv, PrintInv
  <2>3. printed' \in [Users -> [Msgs -> {0, 1}]]
    <3>1. \A u \in Users : [m \in Msgs |-> printed'[u][m]] \in [Msgs -> {0, 1}]
      BY <2>1
    <3> QED  BY <2>2, <3>1
  <2> QED  BY <2>1, <2>3 DEF PrintInv
<1>11. TakenIsDelivered'
  <2> SUFFICES ASSUME faults = 0, NEW f \in taken
               PROVE  \/ \E v \in Workers : Waiting(v)' /\ f \in Got(v)'
                      \/ \E u \in Users : printed'[u][f[2]] > 0
    BY <1>1 DEF TakenIsDelivered, Waiting, Got
  <2>1. f[2] \in Msgs
    BY DEF DInv, OneFile
  <2>2. \/ \E v \in Workers : Waiting(v) /\ f \in Got(v)
        \/ \E u \in Users : printed[u][f[2]] > 0
    BY DEF DInv, TakenIsDelivered, Waiting, Got
  <2>3. CASE Waiting(w) /\ f \in Got(w)
    <3>1. User(w) \in Users
      BY <2>3 DEF DInv, WaitInv
    <3> QED  BY <1>8, <2>1, <2>3, <3>1
  <2>4. ASSUME NEW v \in Workers \ {w}, Waiting(v), f \in Got(v)
        PROVE  Waiting(v)' /\ f \in Got(v)'
    BY <1>4, <2>4
  <2>5. ASSUME NEW u \in Users, printed[u][f[2]] > 0
        PROVE  printed'[u][f[2]] > 0
    BY <1>8, <1>9, <2>1, <2>5
  <2> QED  BY <2>2, <2>3, <2>4, <2>5
<1> QED  BY <1>5, <1>6, <1>7, <1>10, <1>11 DEF DInv

-----------------------------------------------------------------------------
LEMMA DInit == Init => DInv
<1> SUFFICES ASSUME Init  PROVE DInv
  OBVIOUS
<1>1. \A w \in Workers : /\ Got(w) = {} /\ ~Waiting(w) /\ Msg(w) = NoMsg /\ Op(w) = "none"
                         /\ ~Early(w) /\ ~At(w, "remove")
  BY IdleFacts DEF Init, Got, Waiting, Msg, Op, Early, At
<1>2. files = {} /\ taken = {} /\ faults = 0
  BY DEF Init
<1>3. OneFile
  BY <1>1, <1>2, ChatdAssumption DEF OneFile, Placed
<1>4. FreshInv /\ GotInv /\ WaitInv /\ TakenIsDelivered
  BY <1>1, <1>2 DEF FreshInv, GotInv, WaitInv, TakenIsDelivered, PollOps
<1>5. PrintInv
  BY DEF Init, PrintInv
<1> QED  BY <1>3, <1>4, <1>5 DEF DInv

LEMMA DStep == IInv /\ DInv /\ [Next]_vars => DInv'
<1> SUFFICES ASSUME IInv, DInv, [Next]_vars  PROVE DInv'
  OBVIOUS
<1>1. ASSUME NEW w \in Workers, Step(w)  PROVE DInv'
  BY <1>1, GoingSteps, EndingSteps, FaultSteps, ReadDirStep, ReadFileStep, RemoveFileStep,
     CreateDStep, AiAnswersStep, ReplyDStep DEF Step
<1>2. CASE UNCHANGED vars
  <2>1. \A v \in Workers : Advances(v)
    BY <1>2 DEF vars, Advances, Early
  <2> QED  BY <1>2, <2>1, WorkersMove DEF vars, store, hist, bound, DInv, WaitInv
<1> QED  BY <1>1, <1>2, FaultSteps, RequestDStep DEF Next

(* The invariant of polls, for every behaviour of chatd and its clients.   *)
THEOREM DeliveryInvariance == Spec => []DInv
BY DInit, DStep, Invariance, PTL DEF Spec

(* No user sees a message twice, although two polls may read one file and  *)
(* a client may give up and poll again.                                    *)
THEOREM MessagePrintedOnce == Spec => []PrintedOnce
<1>1. DInv => PrintedOnce
  BY DEF DInv, PrintInv, PrintedOnce
<1> QED  BY <1>1, DeliveryInvariance, PTL

(* As long as nothing fails and nobody gives up, what a poll removes is    *)
(* printed or on its way to a client that waits.                           *)
THEOREM TakenMessageIsDelivered == Spec => []TakenIsDelivered
<1>1. DInv => TakenIsDelivered
  BY DEF DInv
<1> QED  BY <1>1, DeliveryInvariance, PTL
=============================================================================
