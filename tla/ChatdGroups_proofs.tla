-------------------------- MODULE ChatdGroups_proofs --------------------------
(***************************************************************************)
(* The groups, the lists of users and the types of Chatd, for every set of *)
(* users and groups and member lists of any length.  Whatever invitations  *)
(* and departures cross, a group that can be read has its owner among its  *)
(* members; and as long as no two requests overlap and none fails, the     *)
(* members a group names and the lists of their users agree.  The          *)
(* invariants of Chatd_proofs and ChatdDelivery_proofs are used            *)
(* throughout.                                                             *)
(***************************************************************************)
EXTENDS ChatdDelivery_proofs, SequenceTheorems, WellFoundedInduction

(* meta.json says that the owner is a member.                              *)
Sound(g) == g \in Metas => g.owner \in Elements(g.members)

(* What a request names; the answer of the AI model keeps the request's    *)
(* group.                                                                  *)
GoodRequest(r) ==
    /\ r.op # "none" => r.u \in Users
    /\ r.op = "send" => r.dir \in Users
    /\ r.op \in ChangeOps \cup {"group_send", "group_ai", "ai"} => r.dir \in Groups
    /\ r.op = "group_invite" => \E v \in Users : r.members = <<v>>

(* What a goroutine carries from one file to the next: what it is about to *)
(* write is fit to be written, and as long as it goes through lists there  *)
(* is a user whose list is next.                                           *)
GoodJob(j) ==
    /\ j.pc \in Steps
    /\ GoodRequest(j.req)
    /\ j.grp \in Metas \cup {Absent} /\ Sound(j.grp)
    /\ j.pc \in {"meta", "metawrite"} => j.grp \in Metas
    /\ j.todo \in Seq(Users)
    /\ j.pc \in {"rmdir", "meta", "metawrite", "lists", "listopen", "listwrite"}
          => j.todo # <<>>
    /\ j.pc \in {"listopen", "listwrite"} => j.list \subseteq Groups
    /\ j.entries \subseteq Files /\ j.got \subseteq Files

JobsInv == \A w \in Workers : GoodJob(job[w])

(* A group's meta.json and every user's list are well formed; whoever      *)
(* writes to a meta.json that still has a name writes into a directory.    *)
GroupsInv ==
    /\ meta \in [Groups -> Metas \cup {Absent, Torn}]
    /\ \A g \in Groups : Sound(meta[g])
    /\ lists \in [Users -> (SUBSET Groups) \cup {Absent, Torn}]
    /\ dir \subseteq Groups
    /\ \A g \in Groups : meta[g] # Absent => g \in dir
    /\ \A w \in Workers : At(w, "metawrite") /\ job[w].linked => Group(w) \in dir

(* A file that is torn exists: whoever removes a file has written or read  *)
(* it whole, and nobody truncates it again.                                *)
FilesInv ==
    /\ files \subseteq Files /\ torn \subseteq files
    /\ \A f \in files : f[1] \in Groups => f[1] \in dir
    /\ \A w \in Workers : At(w, "ant") => Message(w) \notin torn
    /\ \A w \in Workers : Got(w) \cap torn = {}

TInv == JobsInv /\ GroupsInv /\ FilesInv

-----------------------------------------------------------------------------
(* What Without returns, for lists of any length.                          *)

(* Induction over an interval, in terms of the set of numbers reached.     *)
LEMMA IntervalInduction ==
    ASSUME NEW n \in Nat, NEW T, 0 \in T, \A i \in 1..n : i - 1 \in T => i \in T
    PROVE  0..n \subseteq T
<1> DEFINE R == OpToRel(<, Nat)
           Rest == {i \in 0..n : i \notin T}
<1>1. IsWellFoundedOn(R, Nat)
  BY NatLessThanWellFounded, Zenon
<1>2. \A i, j \in Nat : i < j => <<i, j>> \in R
  BY DEF OpToRel
<1>3. Rest \subseteq Nat
  OBVIOUS
<1> HIDE DEF R
<1>4. SUFFICES ASSUME Rest # {}  PROVE FALSE
  OBVIOUS
<1>5. PICK k \in Rest : \A i \in Rest : <<i, k>> \notin R
  <2> HIDE DEF Rest
  <2> QED  BY <1>1, <1>3, <1>4, WFMin
<1>6. k \in 1..n /\ k - 1 \in 0..n /\ k - 1 < k
  BY <1>5
<1>7. k \in Nat /\ k - 1 \in Nat /\ k - 1 \in Rest
  BY <1>5, <1>6
<1> HIDE DEF Rest
<1> QED  BY <1>2, <1>5, <1>6, <1>7

(* What the recursion in Without computes at each position.                *)
Keeps(f, s, S, n) ==
    f = [i \in 0..n |-> IF i = 0 THEN <<>>
                        ELSE IF s[i] \in S THEN f[i - 1] ELSE Append(f[i - 1], s[i])]

LEMMA KeepsExists ==
    ASSUME NEW s, NEW S, NEW n \in Nat
    PROVE  \E f : Keeps(f, s, S, n)
<1> DEFINE T == {i \in 0..n : \E f : Keeps(f, s, S, i)}
<1>1. 0 \in T
  <2>1. Keeps([i \in 0..0 |-> <<>>], s, S, 0)
    BY DEF Keeps
  <2> QED  BY <2>1
<1>2. ASSUME NEW k \in 1..n, k - 1 \in T  PROVE k \in T
  <2>1. PICK f : Keeps(f, s, S, k - 1)
    BY <1>2
  <2> DEFINE g == [i \in 0..k |->
                     IF i < k THEN f[i]
                     ELSE IF s[k] \in S THEN f[k - 1] ELSE Append(f[k - 1], s[k])]
  <2>2. \A i \in 0..(k - 1) :
           f[i] = IF i = 0 THEN <<>>
                  ELSE IF s[i] \in S THEN f[i - 1] ELSE Append(f[i - 1], s[i])
    BY <2>1 DEF Keeps
  <2>3. Keeps(g, s, S, k)
    <3>1. ASSUME NEW i \in 0..k
          PROVE  g[i] = IF i = 0 THEN <<>>
                        ELSE IF s[i] \in S THEN g[i - 1] ELSE Append(g[i - 1], s[i])
      <4>1. CASE i < k
        <5>1. i \in 0..(k - 1) /\ g[i] = f[i] /\ (i # 0 => i - 1 \in 0..k /\ g[i - 1] = f[i - 1])
          BY <4>1
        <5> HIDE DEF g
        <5> QED  BY <2>2, <5>1
      <4>2. CASE i = k
        <5>1. g[i] = (IF s[k] \in S THEN f[k - 1] ELSE Append(f[k - 1], s[k])) /\ g[k - 1] = f[k - 1]
          BY <4>2
        <5> HIDE DEF g
        <5> QED  BY <4>2, <5>1
      <4> QED  BY <4>1, <4>2
    <3>2. g = [i \in 0..k |-> g[i]]
      OBVIOUS
    <3> HIDE DEF g
    <3> QED  BY <3>1, <3>2, Zenon DEF Keeps
  <2> QED  BY <2>3
<1>3. 0..n \subseteq T
  <2> HIDE DEF T
  <2> QED  BY <1>1, <1>2, IntervalInduction
<1> QED  BY <1>3

LEMMA WithoutFacts ==
    ASSUME NEW U, NEW s \in Seq(U), NEW S
    PROVE  /\ Without(s, S) \in Seq(U)
           /\ Elements(Without(s, S)) = Elements(s) \ S
<1> DEFINE f == CHOOSE f : Keeps(f, s, S, Len(s))
<1>1. Keeps(f, s, S, Len(s)) /\ Len(s) \in Nat
  <2>1. Len(s) \in Nat
    OBVIOUS
  <2>2. \E h : Keeps(h, s, S, Len(s))
    BY <2>1, KeepsExists
  <2> QED  BY <2>1, <2>2
<1>2. Without(s, S) = f[Len(s)]
  BY DEF Without, Keeps
<1> HIDE DEF f
<1>3. \A i \in 0..Len(s) :
         f[i] = IF i = 0 THEN <<>>
                ELSE IF s[i] \in S THEN f[i - 1] ELSE Append(f[i - 1], s[i])
  BY <1>1 DEF Keeps
<1> DEFINE Upto(i) == {s[j] : j \in 1..i}
           T == {i \in 0..Len(s) : f[i] \in Seq(U) /\ Elements(f[i]) = Upto(i) \ S}
<1>4. 0 \in T
  <2>1. f[0] = <<>> /\ <<>> \in Seq(U) /\ Elements(<<>>) = {} /\ Upto(0) = {}
    BY <1>1, <1>3 DEF Elements
  <2> HIDE DEF Upto
  <2>2. Upto(0) \ S = {}
    BY <2>1
  <2>3. Elements(f[0]) = Upto(0) \ S
    BY <2>1, <2>2, Zenon
  <2>4. f[0] \in Seq(U)
    BY <2>1, Zenon
  <2>5. 0 \in 0..Len(s)
    BY <1>1
  <2> QED  BY <2>3, <2>4, <2>5, Zenon
<1>5. ASSUME NEW i \in 1..Len(s), i - 1 \in T  PROVE i \in T
  <2>1. /\ f[i - 1] \in Seq(U) /\ Elements(f[i - 1]) = Upto(i - 1) \ S
        /\ s[i] \in U /\ i \in 0..Len(s)
    BY <1>1, <1>5
  <2>2. Upto(i) = Upto(i - 1) \cup {s[i]}
    OBVIOUS
  <2>3. f[i] = IF s[i] \in S THEN f[i - 1] ELSE Append(f[i - 1], s[i])
    BY <1>3, <2>1
  <2>4. ASSUME NEW t \in Seq(U), NEW e \in U
        PROVE  Append(t, e) \in Seq(U) /\ Elements(Append(t, e)) = Elements(t) \cup {e}
    <3>1. /\ Append(t, e) \in Seq(U) /\ Len(t) \in Nat /\ DOMAIN t = 1..Len(t)
          /\ DOMAIN Append(t, e) = 1..(Len(t) + 1)
          /\ \A j \in 1..Len(t) : Append(t, e)[j] = t[j]
          /\ Append(t, e)[Len(t) + 1] = e
      BY AppendProperties
    <3> QED  BY <3>1 DEF Elements
  <2> HIDE DEF Upto
  <2>5. f[i] \in Seq(U) /\ Elements(f[i]) = Upto(i) \ S
    BY <2>1, <2>2, <2>3, <2>4
  <2> QED  BY <2>1, <2>5
<1>6. Len(s) \in T
  <2> HIDE DEF T
  <2>1. 0..Len(s) \subseteq T
    BY <1>1, <1>4, <1>5, IntervalInduction
  <2> QED  BY <1>1, <2>1
<1>7. Upto(Len(s)) = Elements(s)
  BY <1>1 DEF Elements
<1> HIDE DEF Upto
<1> QED  BY <1>2, <1>6, <1>7

-----------------------------------------------------------------------------
(* What the goroutines carry.                                              *)

(* Goroutine v carries what it did.                                        *)
Carries(v) ==
    /\ job'[v].req = job[v].req
    /\ job'[v].grp = job[v].grp /\ job'[v].todo = job[v].todo
    /\ job'[v].list = job[v].list
    /\ job'[v].entries = job[v].entries /\ job'[v].got = job[v].got

LEMMA JobsStay ==
    ASSUME JobsInv, NEW w \in Workers, \A v \in Workers \ {w} : Carries(v) /\ job'[v].pc = job[v].pc,
           GoodJob(job'[w])
    PROVE  JobsInv'
  BY DEF JobsInv, GoodJob, Carries

LEMMA IdleIsGood == GoodJob(Idle)
<1>1. /\ Idle.pc = "idle" /\ Idle.req.op = "none" /\ Idle.grp = Absent /\ Idle.todo = <<>>
      /\ Idle.entries = {} /\ Idle.got = {}
  BY DEF Idle, Request
<1>2. <<>> \in Seq(Users)
  OBVIOUS
<1> QED  BY <1>1, <1>2, ChatdAssumption DEF GoodJob, GoodRequest, Sound, Steps, ChangeOps

(* A goroutine goes on to step p with what it carries.                     *)
LEMMA GoesOnGood ==
    ASSUME JobsInv, NEW w \in Workers, Carries(w), job'[w].pc \in Steps,
           \/ job'[w].pc \in {"create", "write", "ant", "ai", "readdir", "read", "remove", "reply"}
           \/ job'[w].pc = job[w].pc
           \/ job[w].pc = "meta" /\ job'[w].pc = "metawrite"
           \/ job[w].pc = "listopen" /\ job'[w].pc = "listwrite"
    PROVE  GoodJob(job'[w])
  BY DEF JobsInv, GoodJob, Carries

LEMMA PlainSteps ==
    ASSUME IInv, TInv, NEW w \in Workers,
           \/ Create(w) \/ Write(w) \/ AntStores(w) \/ AntFails(w) \/ PollDone(w)
           \/ LoadFails(w) \/ LoadToSend(w) \/ LoadToPoll(w) \/ MyGroups(w) \/ MetaOpen(w)
           \/ ListOpen(w) \/ AiFails(w) \/ GiveUp(w)
    PROVE  JobsInv'
<1> USE DEF At, Fields, Carries
<1>1. ShapeInv /\ JobsInv
  BY DEF IInv, TInv
<1>2. CASE job' = [job EXCEPT ![w] = Idle]
  <2>1. /\ job'[w] = Idle
        /\ \A v \in Workers \ {w} : Carries(v) /\ job'[v].pc = job[v].pc
    BY <1>1, <1>2 DEF ShapeInv
  <2> QED  BY <1>1, <2>1, JobsStay, IdleIsGood
<1>3. CASE job' # [job EXCEPT ![w] = Idle]
  <2>1. /\ \A v \in Workers \ {w} : Carries(v) /\ job'[v].pc = job[v].pc
        /\ Carries(w)
        /\ \/ job'[w].pc \in {"create", "write", "ant", "readdir", "reply"}
           \/ job'[w].pc = job[w].pc
           \/ job[w].pc = "meta" /\ job'[w].pc = "metawrite"
           \/ job[w].pc = "listopen" /\ job'[w].pc = "listwrite"
    <3>1. CASE Create(w)
      BY <1>1, <3>1 DEF ShapeInv, Create, Goto
    <3>2. CASE Write(w)
      BY <1>1, <1>3, <3>2 DEF ShapeInv, Write, Goto
    <3>3. CASE AntStores(w)
      BY <1>1, <3>3 DEF ShapeInv, AntStores
    <3>4. CASE AntFails(w)
      BY <1>1, <3>4 DEF ShapeInv, AntFails, Goto
    <3>5. CASE PollDone(w)
      BY <1>1, <3>5 DEF ShapeInv, PollDone, Goto
    <3>6. CASE LoadFails(w)
      BY <1>1, <3>6 DEF ShapeInv, LoadFails, Fail
    <3>7. CASE LoadToSend(w)
      BY <1>1, <3>7 DEF ShapeInv, LoadToSend, Goto
    <3>8. CASE LoadToPoll(w)
      BY <1>1, <3>8 DEF ShapeInv, LoadToPoll
    <3>9. CASE MyGroups(w)
      BY <1>1, <3>9 DEF ShapeInv, MyGroups
    <3>10. CASE MetaOpen(w)
      BY <1>1, <3>10 DEF ShapeInv, MetaOpen
    <3>11. CASE ListOpen(w)
      BY <1>1, <3>11 DEF ShapeInv, ListOpen, Goto
    <3>12. CASE AiFails(w)
      BY <1>3, <3>12 DEF AiFails
    <3>13. CASE GiveUp(w)
      BY <1>1, <3>13 DEF ShapeInv, GiveUp
    <3> QED  BY <3>1, <3>2, <3>3, <3>4, <3>5, <3>6, <3>7, <3>8, <3>9, <3>10, <3>11,
                <3>12, <3>13
  <2>2. job'[w].pc \in Steps
    BY <1>1, <2>1 DEF JobsInv, GoodJob, Steps
  <2>3. GoodJob(job'[w])
    BY <1>1, <2>1, <2>2, GoesOnGood
  <2> QED  BY <1>1, <2>1, <2>3, JobsStay
<1> QED  BY <1>2, <1>3

LEMMA PollSteps ==
    ASSUME IInv, TInv, NEW w \in Workers,
           ReadDir(w) \/ ReadFile(w) \/ RemoveFile(w) \/ AiAnswers(w)
    PROVE  JobsInv'
<1> USE DEF At, Fields, Carries
<1>1. ShapeInv /\ JobsInv /\ files \subseteq Files
  BY DEF IInv, TInv, FilesInv
<1>2. GoodJob(job[w])
  BY <1>1 DEF JobsInv
<1>3. CASE ReadDir(w)
  <2>1. PICK d : job' = [job EXCEPT ![w].pc = "read", ![w].dirs = @ \ {d},
                                    ![w].entries = {f \in files : f[1] = d}]
    BY <1>3 DEF ReadDir
  <2>2. GoodJob(job'[w])
    BY <1>1, <1>2, <2>1 DEF ShapeInv, GoodJob, Steps
  <2>3. \A v \in Workers \ {w} : Carries(v) /\ job'[v].pc = job[v].pc
    BY <1>1, <2>1 DEF ShapeInv
  <2> QED  BY <1>1, <2>2, <2>3, JobsStay
<1>4. CASE ReadFile(w)
  <2>1. PICK f \in job[w].entries :
            job' = IF f \in files \ torn
                   THEN [job EXCEPT ![w].pc = "remove", ![w].got = @ \cup {f}]
                   ELSE [job EXCEPT ![w].entries = @ \ {f}]
    BY <1>4 DEF ReadFile
  <2>2. CASE f \in files \ torn
    <3>1. GoodJob(job'[w])
      BY <1>1, <1>2, <2>1, <2>2 DEF ShapeInv, GoodJob, Steps
    <3>2. \A v \in Workers \ {w} : Carries(v) /\ job'[v].pc = job[v].pc
      BY <1>1, <2>1, <2>2 DEF ShapeInv
    <3> QED  BY <1>1, <3>1, <3>2, JobsStay
  <2>3. CASE f \notin files \ torn
    <3>0. job' = [job EXCEPT ![w].entries = @ \ {f}]
      BY <2>1, <2>3
    <3>1. GoodJob(job'[w])
      BY <1>1, <1>2, <3>0 DEF ShapeInv, GoodJob, Steps
    <3>2. \A v \in Workers \ {w} : Carries(v) /\ job'[v].pc = job[v].pc
      BY <1>1, <3>0 DEF ShapeInv
    <3> QED  BY <1>1, <3>1, <3>2, JobsStay
  <2> QED  BY <2>2, <2>3
<1>5. CASE RemoveFile(w)
  <2>1. PICK f : job' = [job EXCEPT ![w].pc = "read", ![w].entries = @ \ {f}]
    BY <1>5 DEF RemoveFile
  <2>2. GoodJob(job'[w])
    BY <1>1, <1>2, <2>1 DEF ShapeInv, GoodJob, Steps
  <2>3. \A v \in Workers \ {w} : Carries(v) /\ job'[v].pc = job[v].pc
    BY <1>1, <2>1 DEF ShapeInv
  <2> QED  BY <1>1, <2>2, <2>3, JobsStay
<1>6. CASE AiAnswers(w)
  <2>1. PICK m : job' = [job EXCEPT ![w].pc = "write",
                                    ![w].req = [@ EXCEPT !.op = "ai", !.msg = m]]
    BY <1>6 DEF AiAnswers
  <2>2. Group(w) \in Groups /\ Op(w) \in AckOps
    BY <1>6 DEF AiAnswers, TInv, GroupsInv, IInv, OpInv, OpsAt
  <2>3. /\ job'[w].req.op = "ai" /\ job'[w].req.dir \in Groups
        /\ job'[w].req.u \in Users
        /\ job'[w].pc = "write" /\ job'[w].grp = job[w].grp /\ job'[w].todo = job[w].todo
        /\ job'[w].entries = job[w].entries /\ job'[w].got = job[w].got
    BY <1>1, <1>2, <2>1, <2>2 DEF ShapeInv, GoodJob, GoodRequest, ReqFields, Group, Op, AckOps
  <2>4. GoodJob(job'[w])
    BY <1>2, <2>3 DEF GoodJob, GoodRequest, Steps
  <2>5. \A v \in Workers \ {w} : Carries(v) /\ job'[v].pc = job[v].pc
    BY <1>1, <2>1 DEF ShapeInv
  <2> QED  BY <1>1, <2>4, <2>5, JobsStay
<1> QED  BY <1>3, <1>4, <1>5, <1>6

(* A goroutine done with one list has a next one, or is done.              *)
LEMMA NextMemberGood ==
    ASSUME ShapeInv, JobsInv, NEW w \in Workers, job[w].todo # <<>>
    PROVE  GoodJob(NextMember(w))
<1> DEFINE j == NextMember(w)
<1>1. /\ j.req = job[w].req /\ j.grp = job[w].grp /\ j.todo = Tail(job[w].todo)
      /\ j.pc = IF Len(job[w].todo) = 1 THEN "reply" ELSE "lists"
      /\ j.entries = job[w].entries /\ j.got = job[w].got
  BY DEF ShapeInv, NextMember, Fields
<1>2. GoodJob(job[w]) /\ job[w].todo \in Seq(Users)
  BY DEF JobsInv, GoodJob
<1>3. /\ Tail(job[w].todo) \in Seq(Users)
      /\ Len(job[w].todo) # 1 => Tail(job[w].todo) # <<>>
  <2>1. Len(Tail(job[w].todo)) = Len(job[w].todo) - 1 /\ Len(job[w].todo) \in Nat
    BY <1>2, HeadTailProperties
  <2>2. Tail(job[w].todo) \in Seq(Users)
    BY <1>2, HeadTailProperties
  <2>3. ASSUME Tail(job[w].todo) = <<>>  PROVE Len(job[w].todo) = 1
    <3>1. Len(<<>>) = 0
      OBVIOUS
    <3>2. Len(Tail(job[w].todo)) = 0
      BY <2>3, <3>1, Zenon
    <3> QED  BY <2>1, <3>2
  <2> QED  BY <2>2, <2>3, Zenon
<1>4. GoodJob(j)
  <2> HIDE DEF j
  <2> QED  BY <1>1, <1>2, <1>3 DEF GoodJob, Steps
<1> QED  BY <1>4

LEMMA ListSteps ==
    ASSUME IInv, TInv, NEW w \in Workers,
           AddUserGroup(w) \/ RemoveUserGroup(w) \/ ListWrite(w) \/ WriteFails(w)
    PROVE  JobsInv'
<1> USE DEF At, Fields, Carries
<1>1. ShapeInv /\ JobsInv /\ GoodJob(job[w])
  BY DEF IInv, TInv, JobsInv
<1>2. ASSUME job' = [job EXCEPT ![w] = NextMember(w)], job[w].todo # <<>>  PROVE JobsInv'
  <2>1. \A v \in Workers \ {w} : Carries(v) /\ job'[v].pc = job[v].pc
    BY <1>1, <1>2 DEF ShapeInv
  <2>2. GoodJob(job'[w])
    BY <1>1, <1>2, NextMemberGood DEF ShapeInv
  <2> QED  BY <1>1, <2>1, <2>2, JobsStay
<1>3. ASSUME NEW l \in SUBSET Groups, job' = [job EXCEPT ![w].pc = "listopen", ![w].list = l],
             At(w, "lists")
      PROVE  JobsInv'
  <2>1. \A v \in Workers \ {w} : Carries(v) /\ job'[v].pc = job[v].pc
    BY <1>1, <1>3 DEF ShapeInv
  <2>2. GoodJob(job'[w])
    BY <1>1, <1>3 DEF ShapeInv, GoodJob, Steps
  <2> QED  BY <1>1, <2>1, <2>2, JobsStay
<1>4. job[w].pc \in {"lists", "listopen", "listwrite"} => job[w].todo # <<>>
  BY <1>1 DEF GoodJob
<1>5. CASE AddUserGroup(w) \/ RemoveUserGroup(w)
  <2>1. At(w, "lists")
    BY <1>5 DEF AddUserGroup, RemoveUserGroup
  <2>2. Head(job[w].todo) \in Users
    BY <1>1, <1>4, <2>1, HeadTailProperties DEF GoodJob
  <2>3. Group(w) \in Groups
    BY <1>1, <2>1 DEF IInv, OpInv, OpsAt, GoodJob, GoodRequest, Op, Group
  <2>4. \A u \in Users : lists[u] \notin {Absent, Torn} => lists[u] \in SUBSET Groups
    BY DEF TInv, GroupsInv
  <2>5. \/ job' = [job EXCEPT ![w] = NextMember(w)]
        \/ \E l \in SUBSET Groups : job' = [job EXCEPT ![w].pc = "listopen", ![w].list = l]
    BY <1>5, <2>2, <2>3, <2>4 DEF AddUserGroup, RemoveUserGroup, GroupsOf
  <2> QED  BY <1>2, <1>3, <1>4, <2>1, <2>5
<1>6. CASE ListWrite(w)
  BY <1>2, <1>4, <1>6 DEF ListWrite
<1>7. CASE WriteFails(w)
  <2>1. CASE job[w].pc \in {"listopen", "listwrite"}
    BY <1>2, <1>4, <1>7, <2>1 DEF WriteFails
  <2>2. CASE job' = [job EXCEPT ![w] = Idle]
    <3>1. \A v \in Workers \ {w} : Carries(v) /\ job'[v].pc = job[v].pc
      BY <1>1, <2>2 DEF ShapeInv
    <3>2. job'[w] = Idle
      BY <1>1, <2>2 DEF ShapeInv
    <3> QED  BY <1>1, <3>1, <3>2, JobsStay, IdleIsGood
  <2>3. CASE job' = [job EXCEPT ![w].pc = "reply", ![w].ok = FALSE]
    <3>1. \A v \in Workers \ {w} : Carries(v) /\ job'[v].pc = job[v].pc
      BY <1>1, <2>3 DEF ShapeInv
    <3>2. Carries(w) /\ job'[w].pc = "reply"
      BY <1>1, <2>3 DEF ShapeInv
    <3>3. GoodJob(job'[w])
      BY <1>1, <3>2, GoesOnGood DEF Steps
    <3> QED  BY <1>1, <3>1, <3>3, JobsStay
  <2> QED  BY <1>7, <2>1, <2>2, <2>3 DEF WriteFails
<1> QED  BY <1>5, <1>6, <1>7

LEMMA MetaSteps ==
    ASSUME IInv, TInv, NEW w \in Workers, RemoveGroup(w) \/ MetaWrite(w) \/ Reply(w)
    PROVE  JobsInv'
<1> USE DEF At, Fields, Carries
<1>1. ShapeInv /\ JobsInv /\ GoodJob(job[w])
  BY DEF IInv, TInv, JobsInv
<1>2. CASE RemoveGroup(w)
  <2>1. /\ \A v \in Workers \ {w} : Carries(v) /\ job'[v].pc = job[v].pc
        /\ Carries(w) /\ job'[w].pc = "lists"
    BY <1>1, <1>2 DEF ShapeInv, RemoveGroup
  <2>2. GoodJob(job'[w])
    BY <1>1, <1>2, <2>1 DEF GoodJob, Steps, RemoveGroup
  <2> QED  BY <1>1, <2>1, <2>2, JobsStay
<1>3. CASE MetaWrite(w)
  <2>1. \A v \in Workers \ {w} : Carries(v) /\ job'[v].pc = job[v].pc
    BY <1>1, <1>3 DEF ShapeInv, MetaWrite
  <2>2. /\ job'[w].req = job[w].req /\ job'[w].grp = Absent /\ job'[w].pc = "lists"
        /\ job'[w].todo = job[w].todo
        /\ job'[w].entries = job[w].entries /\ job'[w].got = job[w].got
    BY <1>1, <1>3 DEF ShapeInv, MetaWrite
  <2>3. GoodJob(job'[w])
    BY <1>1, <1>3, <2>2, ChatdAssumption DEF GoodJob, Steps, Sound, MetaWrite
  <2> QED  BY <1>1, <2>1, <2>3, JobsStay
<1>4. CASE Reply(w)
  <2>1. \A v \in Workers \ {w} : Carries(v) /\ job'[v].pc = job[v].pc
    BY <1>1, <1>4 DEF ShapeInv, Reply
  <2>2. CASE job'[w] = Idle
    BY <1>1, <2>1, <2>2, JobsStay, IdleIsGood
  <2>3. CASE job'[w] = [job[w] EXCEPT !.pc = "ai", !.waiting = FALSE]
    <3>1. Carries(w) /\ job'[w].pc = "ai"
      BY <1>1, <2>3 DEF ShapeInv
    <3>2. GoodJob(job'[w])
      BY <1>1, <3>1, GoesOnGood DEF Steps
    <3> QED  BY <1>1, <2>1, <3>2, JobsStay
  <2> QED  BY <1>1, <1>4, <2>2, <2>3 DEF Reply, ShapeInv
<1> QED  BY <1>2, <1>3, <1>4

LEMMA ConcatElements ==
    ASSUME NEW U, NEW s \in Seq(U), NEW t \in Seq(U)
    PROVE  /\ s \o t \in Seq(U) /\ Elements(s) \subseteq Elements(s \o t)
           /\ Elements(s \o t) = Elements(s) \cup Elements(t)
<1>1. /\ s \o t \in Seq(U) /\ Len(s) \in Nat /\ Len(t) \in Nat
      /\ DOMAIN s = 1..Len(s) /\ DOMAIN t = 1..Len(t)
      /\ DOMAIN (s \o t) = 1..(Len(s) + Len(t))
      /\ \A i \in 1..(Len(s) + Len(t)) :
            (s \o t)[i] = IF i <= Len(s) THEN s[i] ELSE t[i - Len(s)]
  BY ConcatProperties, LenProperties
<1>2. ASSUME NEW i \in DOMAIN s  PROVE i \in DOMAIN (s \o t) /\ s[i] = (s \o t)[i]
  BY <1>1, <1>2
<1>3. ASSUME NEW i \in DOMAIN t
      PROVE  Len(s) + i \in DOMAIN (s \o t) /\ t[i] = (s \o t)[Len(s) + i]
  BY <1>1, <1>3
<1>4. ASSUME NEW i \in DOMAIN (s \o t)
      PROVE  \/ i \in DOMAIN s /\ (s \o t)[i] = s[i]
             \/ i - Len(s) \in DOMAIN t /\ (s \o t)[i] = t[i - Len(s)]
  BY <1>1, <1>4
<1>5. Elements(s) \subseteq Elements(s \o t) /\ Elements(t) \subseteq Elements(s \o t)
  BY <1>2, <1>3 DEF Elements
<1>6. Elements(s \o t) \subseteq Elements(s) \cup Elements(t)
  BY <1>4 DEF Elements
<1> QED  BY <1>1, <1>5, <1>6

(* The group a handler has loaded.                                         *)
LEMMA LoadedGroup ==
    ASSUME IInv, TInv, NEW w \in Workers, NEW op, Load(w, op), Op(w) \in ChangeOps
    PROVE  /\ Group(w) \in Groups /\ User(w) \in Users
           /\ meta[Group(w)] \in Metas
           /\ meta[Group(w)].owner \in Users /\ meta[Group(w)].members \in Seq(Users)
           /\ meta[Group(w)].owner \in Elements(meta[Group(w)].members)
<1>1. GoodRequest(job[w].req)
  BY DEF TInv, JobsInv, GoodJob
<1>2. Group(w) \in Groups /\ User(w) \in Users
  BY <1>1 DEF GoodRequest, Group, User, Op, ChangeOps
<1>3. meta[Group(w)] \in Metas /\ Sound(meta[Group(w)])
  BY <1>2 DEF Load, Allowed, TInv, GroupsInv
<1> QED  BY <1>2, <1>3 DEF Sound, Metas

LEMMA InviteStep ==
    ASSUME IInv, TInv, NEW w \in Workers, LoadToInvite(w)
    PROVE  JobsInv'
<1> DEFINE g  == meta[Group(w)]
           ms == g.members \o Without(job[w].req.members, Elements(g.members))
<1>1. ShapeInv /\ JobsInv /\ GoodJob(job[w])
  BY DEF IInv, TInv, JobsInv
<1>2. /\ job' = [job EXCEPT ![w].pc = "meta", ![w].todo = job[w].req.members,
                            ![w].grp = [g EXCEPT !.members = ms]]
      /\ Load(w, {"group_invite"}) /\ Op(w) = "group_invite"
  BY DEF LoadToInvite, Load
<1>3. PICK u \in Users : job[w].req.members = <<u>>
  BY <1>1, <1>2 DEF GoodJob, GoodRequest, Op
<1>4. job[w].req.members \in Seq(Users) /\ job[w].req.members # <<>>
  BY <1>3
<1>5. /\ g \in Metas /\ g.owner \in Users /\ g.members \in Seq(Users)
      /\ g.owner \in Elements(g.members)
  BY <1>2, LoadedGroup DEF ChangeOps
<1>6. ms \in Seq(Users) /\ g.owner \in Elements(ms)
  <2>1. Without(job[w].req.members, Elements(g.members)) \in Seq(Users)
    BY <1>4, WithoutFacts
  <2> QED  BY <1>5, <2>1, ConcatElements
<1>7. \A v \in Workers \ {w} : Carries(v) /\ job'[v].pc = job[v].pc
  BY <1>1, <1>2 DEF ShapeInv, Carries
<1> HIDE DEF ms
<1>8. /\ [g EXCEPT !.members = ms] \in Metas
      /\ [g EXCEPT !.members = ms].owner = g.owner
      /\ [g EXCEPT !.members = ms].members = ms
  BY <1>5, <1>6 DEF Metas
<1> HIDE DEF g
<1>9. /\ job'[w].pc = "meta" /\ job'[w].todo = job[w].req.members
      /\ job'[w].grp = [g EXCEPT !.members = ms] /\ job'[w].req = job[w].req
      /\ job'[w].entries = job[w].entries /\ job'[w].got = job[w].got
  BY <1>1, <1>2 DEF ShapeInv, Fields
<1>10. GoodJob(job'[w])
  BY <1>1, <1>4, <1>6, <1>8, <1>9 DEF GoodJob, Sound, Steps
<1> QED  BY <1>1, <1>7, <1>10, JobsStay

(* An owner who leaves hands over to the first member left; if another     *)
(* leaves, the owner is still there.                                       *)
LEMMA LeaveStep ==
    ASSUME IInv, TInv, NEW w \in Workers, LoadToLeave(w)
    PROVE  JobsInv'
<1> DEFINE g    == meta[Group(w)]
           left == Without(g.members, {User(w)})
           heir == IF g.owner = User(w) THEN left[1] ELSE g.owner
<1>1. ShapeInv /\ JobsInv /\ GoodJob(job[w])
  BY DEF IInv, TInv, JobsInv
<1>2. /\ job' = [job EXCEPT ![w].todo = <<User(w)>>,
                     ![w].pc  = IF left = <<>> THEN "rmdir" ELSE "meta",
                     ![w].grp = IF left = <<>> THEN Absent
                                ELSE [owner |-> heir, members |-> left]]
      /\ Load(w, {"group_leave"}) /\ Op(w) = "group_leave"
  BY DEF LoadToLeave, Load
<1>3. /\ User(w) \in Users /\ g.owner \in Users /\ g.members \in Seq(Users)
      /\ g.owner \in Elements(g.members)
  BY <1>2, LoadedGroup DEF ChangeOps
<1>4. left \in Seq(Users) /\ Elements(left) = Elements(g.members) \ {User(w)}
  BY <1>3, WithoutFacts
<1> HIDE DEF left, g
<1>5. left # <<>> => left[1] \in Users /\ left[1] \in Elements(left)
  <2> SUFFICES ASSUME left # <<>>  PROVE left[1] \in Users /\ left[1] \in Elements(left)
    OBVIOUS
  <2>1. Len(left) \in Nat \ {0} /\ DOMAIN left = 1..Len(left)
    BY <1>4, EmptySeq, LenProperties
  <2>2. 1 \in DOMAIN left
    BY <2>1
  <2> QED  BY <1>4, <2>1, <2>2, ElementOfSeq DEF Elements
<1>6. left # <<>> => heir \in Users /\ heir \in Elements(left)
  BY <1>3, <1>4, <1>5
<1> HIDE DEF heir
<1>7. /\ job'[w].todo = <<User(w)>> /\ job'[w].req = job[w].req
      /\ job'[w].pc = IF left = <<>> THEN "rmdir" ELSE "meta"
      /\ job'[w].grp = IF left = <<>> THEN Absent ELSE [owner |-> heir, members |-> left]
      /\ job'[w].entries = job[w].entries /\ job'[w].got = job[w].got
  BY <1>1, <1>2 DEF ShapeInv, Fields
<1>8. \A v \in Workers \ {w} : Carries(v) /\ job'[v].pc = job[v].pc
  BY <1>1, <1>2 DEF ShapeInv, Carries
<1>9. <<User(w)>> \in Seq(Users) /\ <<User(w)>> # <<>>
  BY <1>3
<1>10. CASE left = <<>>
  <2>1. GoodJob(job'[w])
    BY <1>1, <1>7, <1>9, <1>10, ChatdAssumption DEF GoodJob, Sound, Steps
  <2> QED  BY <1>1, <1>8, <2>1, JobsStay
<1>11. CASE left # <<>>
  <2>1. job'[w].grp \in Metas /\ job'[w].grp.owner = heir /\ job'[w].grp.members = left
    BY <1>4, <1>6, <1>7, <1>11 DEF Metas
  <2>2. GoodJob(job'[w])
    BY <1>1, <1>6, <1>7, <1>9, <1>11, <2>1 DEF GoodJob, Sound, Steps
  <2> QED  BY <1>1, <1>8, <2>2, JobsStay
<1> QED  BY <1>10, <1>11

(* A request of a client arrives.                                          *)
LEMMA ServedGood ==
    ASSUME IInv, TInv, NEW w \in Workers, NEW r, NEW first, Serve(w, r, first),
           DOMAIN first = Fields, first.pc \in Steps, GoodRequest(r),
           first.grp \in Metas \cup {Absent}, Sound(first.grp),
           first.todo \in Seq(Users),
           first.pc = "meta" => first.grp \in Metas /\ first.todo # <<>>,
           first.pc \in {"create", "readdir", "mygroups", "load", "meta"},
           first.entries = {}, first.got = {}
    PROVE  JobsInv'
<1>1. ShapeInv /\ JobsInv
  BY DEF IInv, TInv
<1>2. job' = [job EXCEPT ![w] = [first EXCEPT !.req = r, !.waiting = TRUE]]
  BY DEF Serve
<1>3. \A v \in Workers \ {w} : Carries(v) /\ job'[v].pc = job[v].pc
  BY <1>1, <1>2 DEF ShapeInv, Carries
<1>4. /\ job'[w].req = r /\ job'[w].pc = first.pc /\ job'[w].grp = first.grp
      /\ job'[w].todo = first.todo /\ job'[w].entries = {} /\ job'[w].got = {}
  BY <1>1, <1>2 DEF ShapeInv, Fields
<1>5. GoodJob(job'[w])
  BY <1>4 DEF GoodJob
<1> QED  BY <1>1, <1>3, <1>5, JobsStay

LEMMA RequestGood ==
    ASSUME IInv, TInv, NEW w \in Workers, NEW u \in Users,
           ServeSend(w, u) \/ ServePoll(w, u) \/ ServeGroupCreate(w, u) \/ ServeGroup(w, u)
    PROVE  JobsInv'
<1>1. /\ DOMAIN Idle = Fields /\ Idle.grp = Absent /\ Idle.todo = <<>>
      /\ Idle.entries = {} /\ Idle.got = {}
      /\ <<>> \in Seq(Users) /\ Sound(Absent)
  BY IdleFields, ChatdAssumption DEF Idle, Sound
<1>2. ASSUME NEW p \in {"create", "readdir", "mygroups", "load"}, NEW ds, NEW r,
             GoodRequest(r),
             \/ Serve(w, r, [Idle EXCEPT !.pc = p])
             \/ Serve(w, r, [Idle EXCEPT !.pc = p, !.dirs = ds])
      PROVE  JobsInv'
  <2>1. PICK first \in {[Idle EXCEPT !.pc = p], [Idle EXCEPT !.pc = p, !.dirs = ds]} :
            Serve(w, r, first)
    BY <1>2
  <2>2. /\ DOMAIN first = Fields /\ first.pc = p /\ first.grp = Absent /\ first.todo = <<>>
        /\ first.entries = {} /\ first.got = {}
    BY <1>1 DEF Fields
  <2>3. first.pc \in Steps
    BY <2>2 DEF Steps
  <2> QED  BY <1>1, <1>2, <2>1, <2>2, <2>3, ServedGood
<1>3. CASE ServeSend(w, u)
  <2>1. PICK r \in CmdSend(u) : Serve(w, r, [Idle EXCEPT !.pc = "create"])
    BY <1>3 DEF ServeSend
  <2>2. GoodRequest(r)
    BY DEF CmdSend, Request, GoodRequest, ChangeOps
  <2> QED  BY <1>2, <2>1, <2>2
<1>4. CASE ServePoll(w, u)
  <2>1. PICK r \in CmdPoll(u) : Serve(w, r, [Idle EXCEPT !.pc = "readdir", !.dirs = {u}])
    BY <1>4 DEF ServePoll
  <2>2. GoodRequest(r)
    BY DEF CmdPoll, Request, GoodRequest, ChangeOps
  <2> QED  BY <1>2, <2>1, <2>2
<1>5. CASE ServeGroup(w, u)
  <2>1. PICK r \in CmdGroupSend(u) \cup AskGroupAI(u) \cup CmdGroupPoll(u)
                     \cup CmdGroupInvite(u) \cup CmdGroupLeave(u) :
            Serve(w, r, [Idle EXCEPT !.pc = IF r.op = "group_poll_all"
                                            THEN "mygroups" ELSE "load"])
    BY <1>5 DEF ServeGroup
  <2>2. GoodRequest(r)
    <3>1. CASE r \in CmdGroupInvite(u)
      BY <3>1 DEF CmdGroupInvite, OneMember, Known, Request, GoodRequest, ChangeOps
    <3>2. CASE r \in CmdGroupSend(u) \cup AskGroupAI(u) \cup CmdGroupPoll(u) \cup CmdGroupLeave(u)
      BY <3>2 DEF CmdGroupSend, AskGroupAI, CmdGroupPoll, CmdGroupLeave, Known, Request,
         GoodRequest, ChangeOps
    <3> QED  BY <2>1, <3>1, <3>2
  <2> QED  BY <1>2, <2>1, <2>2
<1>6. CASE ServeGroupCreate(w, u)
  <2>1. PICK r \in CmdGroupCreate(u) :
            LET members == <<u>> \o r.members
            IN  Serve(w, r, [Idle EXCEPT !.pc = "meta", !.todo = members,
                                         !.grp = [owner |-> u, members |-> members]])
    BY <1>6 DEF ServeGroupCreate
  <2>2. GoodRequest(r) /\ r.members \in OneMember
    BY DEF CmdGroupCreate, Request, GoodRequest, ChangeOps
  <2>3. PICK v \in Users : r.members = <<v>>
    BY <2>2 DEF OneMember
  <2> DEFINE ms == <<u>> \o r.members
             first == [Idle EXCEPT !.pc = "meta", !.todo = ms,
                                   !.grp = [owner |-> u, members |-> ms]]
  <2>4. ms \in Seq(Users) /\ ms # <<>> /\ u \in Elements(ms)
    <3>1. <<u>> \in Seq(Users) /\ <<v>> \in Seq(Users)
      OBVIOUS
    <3>2. u \in Elements(<<u>>) /\ Elements(<<>>) = {}
      BY DEF Elements
    <3>3. ms \in Seq(Users) /\ Elements(<<u>>) \subseteq Elements(ms)
      BY <2>3, <3>1, ConcatElements
    <3> HIDE DEF ms
    <3> QED  BY <3>2, <3>3
  <2>5. Serve(w, r, first)
    BY <2>1
  <2> HIDE DEF ms
  <2>6. /\ DOMAIN first = Fields /\ first.pc = "meta" /\ first.todo = ms
        /\ first.grp = [owner |-> u, members |-> ms]
        /\ first.entries = {} /\ first.got = {}
    BY <1>1 DEF Fields
  <2> HIDE DEF first
  <2>7. first.grp \in Metas /\ Sound(first.grp) /\ first.pc \in Steps
    BY <2>4, <2>6 DEF Metas, Sound, Steps
  <2> QED  BY <2>2, <2>4, <2>5, <2>6, <2>7, ServedGood
<1> QED  BY <1>3, <1>4, <1>5, <1>6

LEMMA JobsStep == ASSUME IInv, TInv, [Next]_vars  PROVE JobsInv'
<1>1. ASSUME NEW w \in Workers, Step(w) \/ GiveUp(w)  PROVE JobsInv'
  BY <1>1, PlainSteps, PollSteps, ListSteps, MetaSteps, InviteStep, LeaveStep DEF Step
<1>2. CASE Restart
  <2>1. \A w \in Workers : job'[w] = Idle
    BY <1>2 DEF Restart
  <2> QED  BY <2>1, IdleIsGood DEF JobsInv
<1>3. CASE UNCHANGED vars
  BY <1>3 DEF vars, TInv, JobsInv
<1> QED  BY <1>1, <1>2, <1>3, RequestGood DEF Next

-----------------------------------------------------------------------------
(* Groups and lists.                                                       *)

(* A step that leaves meta.json, directories and lists alone and lets no   *)
(* goroutine begin to write a meta.json.                                   *)
LEMMA GroupsStay ==
    ASSUME GroupsInv, UNCHANGED <<meta, lists>>, dir \subseteq dir', dir' \subseteq Groups,
           \A v \in Workers : At(v, "metawrite")' =>
               At(v, "metawrite") /\ job'[v].linked = job[v].linked /\ job'[v].req = job[v].req
    PROVE  GroupsInv'
  BY DEF GroupsInv, At, Group

(* All other steps touch one goroutine, and begin to write no meta.json.   *)
LEMMA OneMoves ==
    ASSUME IInv, NEW w \in Workers, Step(w) \/ GiveUp(w),
           ~(MetaOpen(w) \/ MetaWrite(w) \/ RemoveGroup(w) \/ ListOpen(w) \/ ListWrite(w))
    PROVE  /\ \A v \in Workers \ {w} : job'[v] = job[v]
           /\ \/ job'[w].pc # "metawrite"
              \/ job'[w].pc = job[w].pc /\ job'[w].linked = job[w].linked
                    /\ job'[w].req = job[w].req
<1> USE DEF Fields
<1>1. ShapeInv
  BY DEF IInv
<1>2. CASE Reply(w)
  BY <1>1, <1>2, IdleFacts DEF ShapeInv, Reply
<1>3. CASE Create(w) \/ Write(w) \/ AntFails(w) \/ AiFails(w) \/ PollDone(w) \/ LoadToSend(w)
  <2>1. \/ job' = [job EXCEPT ![w] = Idle]
        \/ \E p \in {"write", "ant", "reply", "readdir", "create"} :
              job' = [job EXCEPT ![w].pc = p]
    BY <1>3 DEF Create, Write, AntFails, AiFails, PollDone, LoadToSend, Goto
  <2> QED  BY <1>1, <2>1, IdleFacts DEF ShapeInv
<1>4. CASE AntStores(w)
  BY <1>1, <1>4 DEF ShapeInv, AntStores
<1>5. CASE AiAnswers(w)
  <2>1. \E r : job' = [job EXCEPT ![w].pc = "write", ![w].req = r]
    <3>1. PICK m : job' = [job EXCEPT ![w].pc = "write",
                                     ![w].req = [@ EXCEPT !.op = "ai", !.msg = m]]
      BY <1>5 DEF AiAnswers
    <3> QED  BY <1>1, <3>1 DEF ShapeInv
  <2> QED  BY <1>1, <2>1 DEF ShapeInv
<1>6. CASE MyGroups(w) \/ ReadDir(w) \/ LoadToPoll(w) \/ LoadFails(w)
  <2>1. CASE MyGroups(w)
    BY <1>1, <2>1 DEF ShapeInv, MyGroups
  <2>2. CASE ReadDir(w)
    BY <1>1, <2>2 DEF ShapeInv, ReadDir
  <2>3. CASE LoadToPoll(w)
    BY <1>1, <2>3 DEF ShapeInv, LoadToPoll
  <2>4. CASE LoadFails(w)
    BY <1>1, <2>4 DEF ShapeInv, LoadFails, Fail
  <2> QED  BY <1>6, <2>1, <2>2, <2>3, <2>4
<1>7. CASE ReadFile(w)
  <2>1. PICK f : job' = IF f \in files \ torn
                        THEN [job EXCEPT ![w].pc = "remove", ![w].got = @ \cup {f}]
                        ELSE [job EXCEPT ![w].entries = @ \ {f}]
    BY <1>7 DEF ReadFile
  <2>2. CASE f \in files \ torn
    BY <1>1, <2>1, <2>2 DEF ShapeInv
  <2>3. CASE f \notin files \ torn
    <3>1. job' = [job EXCEPT ![w].entries = @ \ {f}] /\ job[w].pc = "read"
      BY <1>7, <2>1, <2>3 DEF ReadFile, At
    <3> QED  BY <1>1, <3>1 DEF ShapeInv
  <2> QED  BY <2>2, <2>3
<1>8. CASE RemoveFile(w)
  <2>1. PICK f : job' = [job EXCEPT ![w].pc = "read", ![w].entries = @ \ {f}]
    BY <1>8 DEF RemoveFile
  <2> QED  BY <1>1, <2>1 DEF ShapeInv
<1>9. CASE LoadToInvite(w) \/ LoadToLeave(w)
  <2>1. \E p \in {"reply", "meta", "rmdir"} : Goes(w, p)
    BY <1>9, LoadGoes
  <2>2. job'[w].pc # "metawrite"
    BY <2>1 DEF Goes
  <2>3. \A v \in Workers \ {w} : job'[v] = job[v]
    BY <1>1, <1>9 DEF ShapeInv, LoadToInvite, LoadToLeave
  <2> QED  BY <2>2, <2>3
<1>10. CASE AddUserGroup(w) \/ RemoveUserGroup(w)
  <2>1. \/ job' = [job EXCEPT ![w] = NextMember(w)]
        \/ \E l : job' = [job EXCEPT ![w].pc = "listopen", ![w].list = l]
    BY <1>10 DEF AddUserGroup, RemoveUserGroup
  <2> QED  BY <1>1, <2>1, NextMemberFacts DEF ShapeInv
<1>11. CASE WriteFails(w)
  <2>1. \/ job' = [job EXCEPT ![w] = NextMember(w)]
        \/ job' = [job EXCEPT ![w] = Idle]
        \/ job' = [job EXCEPT ![w].pc = "reply", ![w].ok = FALSE]
    BY <1>11 DEF WriteFails
  <2> QED  BY <1>1, <2>1, NextMemberFacts, IdleFacts DEF ShapeInv
<1>12. CASE GiveUp(w)
  BY <1>1, <1>12 DEF ShapeInv, GiveUp
<1> QED  BY <1>2, <1>3, <1>4, <1>5, <1>6, <1>7, <1>8, <1>9, <1>10, <1>11, <1>12 DEF Step

LEMMA GroupsStep ==
    ASSUME IInv, TInv, NEW w \in Workers, Step(w) \/ GiveUp(w)
    PROVE  GroupsInv'
<1> USE DEF At, Fields
<1>1. ShapeInv /\ JobsInv /\ GroupsInv /\ GoodJob(job[w]) /\ OpInv
  BY DEF IInv, TInv, JobsInv
<1>2. job[w].pc \in {"rmdir", "meta", "metawrite", "lists", "listopen", "listwrite"} =>
          /\ Group(w) \in Groups
          /\ job[w].todo \in Seq(Users) /\ job[w].todo # <<>> /\ Head(job[w].todo) \in Users
  <2> SUFFICES ASSUME job[w].pc \in {"rmdir", "meta", "metawrite", "lists", "listopen",
                                     "listwrite"}
               PROVE  /\ Group(w) \in Groups
                      /\ job[w].todo \in Seq(Users) /\ job[w].todo # <<>>
                      /\ Head(job[w].todo) \in Users
    OBVIOUS
  <2>1. Op(w) \in ChangeOps
    BY <1>1 DEF OpInv, OpsAt
  <2> QED  BY <1>1, <2>1, HeadTailProperties DEF GoodJob, GoodRequest, Op, Group
<1>3. CASE MetaOpen(w)
  <2>1. \A v \in Workers \ {w} : job'[v] = job[v]
    BY <1>1, <1>3 DEF ShapeInv, MetaOpen
  <2>2. job'[w].req = job[w].req
    BY <1>1, <1>3 DEF ShapeInv, MetaOpen
  <2>3. /\ Group(w) \in Groups /\ dir' = dir \cup {Group(w)}
        /\ meta' = [meta EXCEPT ![Group(w)] = Torn] /\ lists' = lists
    BY <1>2, <1>3 DEF MetaOpen
  <2>4. \A g \in Groups : meta'[g] = IF g = Group(w) THEN Torn ELSE meta[g]
    BY <1>1, <2>3 DEF GroupsInv
  <2>5. /\ meta' \in [Groups -> Metas \cup {Absent, Torn}]
        /\ \A g \in Groups : Sound(meta'[g])
        /\ \A g \in Groups : meta'[g] # Absent => g \in dir'
    BY <1>1, <2>3, <2>4, ChatdAssumption DEF GroupsInv, Sound
  <2> QED  BY <1>1, <2>1, <2>2, <2>3, <2>5 DEF GroupsInv, Group, Sound
<1>4. CASE MetaWrite(w)
  <2>1. \A v \in Workers \ {w} : job'[v] = job[v]
    BY <1>1, <1>4 DEF ShapeInv, MetaWrite
  <2>2. job'[w].pc = "lists"
    BY <1>1, <1>4 DEF ShapeInv, MetaWrite
  <2>3. Group(w) \in Groups /\ dir' = dir /\ lists' = lists
    BY <1>2, <1>4 DEF MetaWrite
  <2>4. job[w].linked => Group(w) \in dir
    BY <1>1, <1>4 DEF MetaWrite, GroupsInv
  <2>5. job[w].grp \in Metas /\ Sound(job[w].grp)
    BY <1>1, <1>4 DEF MetaWrite, GoodJob
  <2>6. \/ meta' = meta
        \/ job[w].linked /\ \E x \in {Torn, job[w].grp} : meta' = [meta EXCEPT ![Group(w)] = x]
    BY <1>4 DEF MetaWrite
  <2>7. CASE meta' = meta
    BY <1>1, <2>1, <2>2, <2>3, <2>7 DEF GroupsInv, Group
  <2>8. ASSUME job[w].linked, NEW x \in {Torn, job[w].grp},
               meta' = [meta EXCEPT ![Group(w)] = x]
        PROVE  GroupsInv'
    <3>1. \A g \in Groups : meta'[g] = IF g = Group(w) THEN x ELSE meta[g]
      BY <1>1, <2>3, <2>8 DEF GroupsInv
    <3>2. Sound(x) /\ x \in Metas \cup {Absent, Torn}
      BY <2>5, ChatdAssumption DEF Sound
    <3>3. /\ meta' \in [Groups -> Metas \cup {Absent, Torn}]
          /\ \A g \in Groups : Sound(meta'[g])
          /\ \A g \in Groups : meta'[g] # Absent => g \in dir'
      BY <1>1, <2>3, <2>4, <2>8, <3>1, <3>2 DEF GroupsInv
    <3> QED  BY <1>1, <2>1, <2>2, <2>3, <3>3 DEF GroupsInv, Group, Sound
  <2> QED  BY <2>6, <2>7, <2>8
<1>5. CASE RemoveGroup(w)
  <2>1. /\ Group(w) \in Groups /\ dir' = dir \ {Group(w)} /\ lists' = lists
        /\ meta' = [meta EXCEPT ![Group(w)] = Absent]
    BY <1>2, <1>5 DEF RemoveGroup
  <2>2. \A g \in Groups : meta'[g] = IF g = Group(w) THEN Absent ELSE meta[g]
    BY <1>1, <2>1 DEF GroupsInv
  <2>3. /\ meta' \in [Groups -> Metas \cup {Absent, Torn}]
        /\ \A g \in Groups : Sound(meta'[g])
        /\ \A g \in Groups : meta'[g] # Absent => g \in dir'
    BY <1>1, <2>1, <2>2, ChatdAssumption DEF GroupsInv, Sound
  <2>4. ASSUME NEW v \in Workers, job'[v].pc = "metawrite", job'[v].linked
        PROVE  Group(v)' \in dir'
    <3>1. v # w
      BY <1>1, <1>5, <2>4 DEF ShapeInv, RemoveGroup
    <3>2. /\ job'[v].req = job[v].req /\ job[v].pc = "metawrite"
          /\ job[v].linked /\ Group(v) # Group(w)
      BY <1>1, <1>5, <2>4, <3>1 DEF ShapeInv, RemoveGroup
    <3> QED  BY <1>1, <2>1, <3>2 DEF GroupsInv, Group
  <2> QED  BY <1>1, <2>1, <2>3, <2>4 DEF GroupsInv, Sound
<1>6. CASE ListOpen(w) \/ ListWrite(w)
  <2>1. \E x \in (SUBSET Groups) \cup {Torn} : lists' = [lists EXCEPT ![Head(job[w].todo)] = x]
    <3>1. CASE ListOpen(w)
      BY <3>1 DEF ListOpen
    <3>2. CASE ListWrite(w)
      <4>1. job[w].list \in SUBSET Groups
        BY <1>1, <3>2 DEF ListWrite, GoodJob
      <4> QED  BY <3>2, <4>1 DEF ListWrite
    <3> QED  BY <1>6, <3>1, <3>2
  <2>2. lists' \in [Users -> (SUBSET Groups) \cup {Absent, Torn}]
    BY <1>1, <2>1 DEF GroupsInv
  <2>3. /\ UNCHANGED <<meta, dir>>
        /\ \A v \in Workers \ {w} : job'[v] = job[v]
        /\ job'[w].pc # "metawrite"
    BY <1>1, <1>6, NextMemberFacts DEF ShapeInv, ListOpen, ListWrite, Goto
  <2> QED  BY <1>1, <2>2, <2>3 DEF GroupsInv, Group
<1>7. CASE ~(MetaOpen(w) \/ MetaWrite(w) \/ RemoveGroup(w) \/ ListOpen(w) \/ ListWrite(w))
  <2>1. UNCHANGED <<meta, lists>> /\ dir \subseteq dir' /\ dir' \subseteq Groups
    BY <1>1, <1>7 DEF Step, Reply, Create, Write, WriteFails, AntStores, AntFails, AiAnswers,
       AiFails, MyGroups, ReadDir, ReadFile, RemoveFile, PollDone, LoadFails, LoadToSend,
       LoadToPoll, LoadToInvite, LoadToLeave, Load, AddUserGroup, RemoveUserGroup, GiveUp,
       store, GroupsInv
  <2>2. \A v \in Workers : At(v, "metawrite")' =>
           At(v, "metawrite") /\ job'[v].linked = job[v].linked /\ job'[v].req = job[v].req
    BY <1>7, OneMoves
  <2> QED  BY <1>1, <2>1, <2>2, GroupsStay
<1> QED  BY <1>3, <1>4, <1>5, <1>6, <1>7

-----------------------------------------------------------------------------
(* Messages.                                                               *)

LEMMA FilesStay ==
    ASSUME FilesInv, UNCHANGED <<files, torn>>, dir \subseteq dir',
           \A v \in Workers :
               /\ Got(v)' \subseteq Got(v)
               /\ At(v, "ant")' => At(v, "ant") /\ job'[v].req = job[v].req
    PROVE  FilesInv'
  BY DEF FilesInv, Message, At

(* A goroutine that is no poll's and does not come to storeAnt.            *)
LEMMA GoesFiles ==
    ASSUME FilesInv, NEW w \in Workers, NEW p, Goes(w, p), p # "ant",
           UNCHANGED <<files, torn>>, dir \subseteq dir'
    PROVE  FilesInv'
<1>1. \A v \in Workers \ {w} : Got(v)' = Got(v) /\ job'[v].req = job[v].req /\ job'[v].pc = job[v].pc
  BY DEF Goes, Same, Got
<1>2. Got(w)' = Got(w) /\ job'[w].pc # "ant"
  BY DEF Goes, Got
<1> QED  BY <1>1, <1>2, FilesStay DEF At

LEMMA EndFiles ==
    ASSUME IInv, FilesInv, NEW w \in Workers, job' = [job EXCEPT ![w] = Idle],
           UNCHANGED <<files, torn>>, dir \subseteq dir'
    PROVE  FilesInv'
<1>1. \A v \in Workers \ {w} : job'[v] = job[v]
  BY DEF IInv, ShapeInv
<1>2. job'[w] = Idle
  BY DEF IInv, ShapeInv
<1>3. \A v \in Workers : /\ Got(v)' \subseteq Got(v)
                         /\ At(v, "ant")' => At(v, "ant") /\ job'[v].req = job[v].req
  BY <1>1, <1>2, IdleFacts DEF Got, At
<1> QED  BY <1>3, FilesStay

(* Steps that touch no message.                                            *)
LEMMA QuietFiles ==
    ASSUME IInv, TInv, NEW w \in Workers,
           \/ MyGroups(w) \/ ReadDir(w) \/ PollDone(w) \/ LoadFails(w) \/ LoadToSend(w)
           \/ LoadToPoll(w) \/ LoadToInvite(w) \/ LoadToLeave(w) \/ MetaOpen(w)
           \/ MetaWrite(w) \/ AddUserGroup(w) \/ RemoveUserGroup(w) \/ ListOpen(w)
           \/ ListWrite(w) \/ AntFails(w) \/ AiFails(w) \/ WriteFails(w) \/ GiveUp(w)
           \/ Reply(w)
    PROVE  FilesInv'
<1>1. ShapeInv /\ FilesInv
  BY DEF IInv, TInv
<1>2. UNCHANGED <<files, torn>> /\ dir \subseteq dir'
  BY DEF MyGroups, ReadDir, PollDone, LoadFails, LoadToSend, LoadToPoll, LoadToInvite,
     LoadToLeave, Load, MetaOpen, MetaWrite, AddUserGroup, RemoveUserGroup, ListOpen,
     ListWrite, AntFails, AiFails, WriteFails, GiveUp, Reply, store
<1>3. CASE \/ MetaOpen(w) \/ MetaWrite(w) \/ AddUserGroup(w) \/ RemoveUserGroup(w)
           \/ ListOpen(w) \/ ListWrite(w)
  BY <1>1, <1>2, <1>3, ChangeGoes, GoesFiles
<1>4. CASE LoadFails(w) \/ LoadToInvite(w) \/ LoadToLeave(w)
  BY <1>1, <1>2, <1>4, LoadGoes, GoesFiles
<1>5. CASE PollDone(w) \/ LoadToSend(w) \/ AntFails(w)
  <2>1. \E p \in {"readdir", "reply", "create"} : Goto(w, p)
    BY <1>5 DEF PollDone, LoadToSend, AntFails
  <2> QED  BY <1>1, <1>2, <2>1, GotoGoes, GoesFiles
<1>6. CASE MyGroups(w) \/ LoadToPoll(w)
  <2>1. Goes(w, "readdir")
    BY <1>1, <1>6 DEF ShapeInv, Fields, Goes, Same, MyGroups, LoadToPoll
  <2> QED  BY <1>1, <1>2, <2>1, GoesFiles
<1>7. CASE AiFails(w)
  BY <1>1, <1>2, <1>7, EndFiles DEF AiFails
<1>8. CASE WriteFails(w)
  <2>1. \/ job' = [job EXCEPT ![w] = NextMember(w)]
        \/ job' = [job EXCEPT ![w] = Idle]
        \/ job' = [job EXCEPT ![w].pc = "reply", ![w].ok = FALSE]
    BY <1>8 DEF WriteFails
  <2>2. CASE job' = [job EXCEPT ![w].pc = "reply", ![w].ok = FALSE]
    <3>1. Goes(w, "reply")
      BY <1>1, <2>2 DEF ShapeInv, Fields, Goes, Same
    <3> QED  BY <1>1, <1>2, <3>1, GoesFiles
  <2> QED  BY <1>1, <1>2, <2>1, <2>2, NextMemberGoes, GoesFiles, EndFiles
<1>9. CASE ReadDir(w)
  <2>1. PICK d : job' = [job EXCEPT ![w].pc = "read", ![w].dirs = @ \ {d},
                                    ![w].entries = {f \in files : f[1] = d}]
    BY <1>9 DEF ReadDir
  <2>2. /\ \A v \in Workers \ {w} : job'[v] = job[v]
        /\ job'[w].got = job[w].got /\ job'[w].pc = "read"
    BY <1>1, <2>1 DEF ShapeInv, Fields
  <2> QED  BY <1>1, <1>2, <2>2, FilesStay DEF Got, At
<1>10. CASE GiveUp(w)
  <2>1. /\ \A v \in Workers \ {w} : job'[v] = job[v]
        /\ job'[w].got = job[w].got /\ job'[w].pc = job[w].pc /\ job'[w].req = job[w].req
    BY <1>1, <1>10 DEF ShapeInv, Fields, GiveUp
  <2> QED  BY <1>1, <1>2, <2>1, FilesStay DEF Got, At
<1>11. CASE Reply(w)
  <2>1. /\ \A v \in Workers \ {w} : job'[v] = job[v]
        /\ \/ job'[w] = Idle
           \/ job'[w] = [job[w] EXCEPT !.pc = "ai", !.waiting = FALSE]
    BY <1>1, <1>11 DEF ShapeInv, Reply
  <2>2. job'[w].pc # "ant" /\ job'[w].got \subseteq job[w].got
    BY <1>1, <2>1, IdleFacts DEF ShapeInv, Fields
  <2> QED  BY <1>1, <1>2, <2>1, <2>2, FilesStay DEF Got, At
<1> QED  BY <1>3, <1>4, <1>5, <1>6, <1>7, <1>8, <1>9, <1>10, <1>11

(* A new message has a file nobody has written, read or removed.           *)
LEMMA NewFile ==
    ASSUME FilesInv, NEW f \in Files, f[1] \in Groups => f[1] \in dir', dir \subseteq dir',
           files' = files \cup {f}, torn' = torn \cup {f},
           \A v \in Workers : f \notin Got(v) /\ (At(v, "ant") => Message(v) # f),
           \A v \in Workers :
               /\ Got(v)' = Got(v)
               /\ At(v, "ant")' => At(v, "ant") /\ job'[v].req = job[v].req
    PROVE  FilesInv'
  BY DEF FilesInv, Message, At

LEMMA NewFileStep ==
    ASSUME IInv, DInv, TInv, NEW w \in Workers, Create(w) \/ AiAnswers(w)
    PROVE  FilesInv'
<1>1. ShapeInv /\ OpInv /\ MsgInv /\ GoodJob(job[w]) /\ FilesInv /\ GroupsInv
  BY DEF IInv, TInv, JobsInv
<1>2. \A v \in Workers : \A f \in Got(v) : f[2] \in used
  BY DEF DInv, OneFile, Placed
<1>3. \A v \in Workers : At(v, "ant") => Msg(v) \in Msgs \cap used
  BY <1>1 DEF OpInv, OpsAt, At, AckOps, SendOps
<1>4. CASE Create(w)
  <2>1. Op(w) \in SendOps /\ Msg(w) \in Msgs
    BY <1>1, <1>4 DEF OpInv, OpsAt, Create, At
  <2>2. Message(w) \in Files
    BY <1>1, <2>1 DEF GoodJob, GoodRequest, Op, Msg, Message, Files, Dirs, SendOps, AckOps
  <2>3. /\ \A v \in Workers \ {w} : job'[v] = job[v]
        /\ job'[w].got = job[w].got /\ job'[w].pc = "write"
    BY <1>1, <1>4 DEF ShapeInv, Fields, Create, Goto
  <2>4. \A v \in Workers : Message(w) \notin Got(v)
    <3>1. Early(w) /\ Message(w)[2] = Msg(w)
      BY <1>4 DEF Create, At, Early, Message, Msg
    <3> QED  BY <3>1 DEF DInv, FreshInv
  <2>5. \A v \in Workers : At(v, "ant") => Message(v) # Message(w)
    <3>1. \A v \in Workers : Message(v) = Message(w) => Msg(v) = Msg(w)
      BY DEF Message, Msg
    <3>2. ~At(w, "ant")
      BY <1>4 DEF Create, At
    <3> QED  BY <1>1, <1>3, <2>1, <3>1, <3>2, ChatdAssumption DEF MsgInv
  <2>6. /\ files' = files \cup {Message(w)} /\ torn' = torn \cup {Message(w)}
        /\ dir \subseteq dir' /\ (Message(w)[1] \in Groups => Message(w)[1] \in dir')
    BY <1>4 DEF Create, Message, Group
  <2> QED  BY <1>1, <2>2, <2>3, <2>4, <2>5, <2>6, NewFile DEF Got, At
<1>5. CASE AiAnswers(w)
  <2>1. PICK m \in Msgs \ used :
            /\ files' = files \cup {<<Group(w), m>>} /\ torn' = torn \cup {<<Group(w), m>>}
            /\ job' = [job EXCEPT ![w].pc = "write",
                                  ![w].req = [@ EXCEPT !.op = "ai", !.msg = m]]
    BY <1>5 DEF AiAnswers
  <2>2. Group(w) \in dir /\ dir' = dir /\ Group(w) \in Groups
    BY <1>1, <1>5 DEF AiAnswers, GroupsInv
  <2>3. <<Group(w), m>> \in Files
    BY <2>2 DEF Files, Dirs
  <2>4. /\ \A v \in Workers \ {w} : job'[v] = job[v]
        /\ job'[w].got = job[w].got /\ job'[w].pc = "write"
    BY <1>1, <2>1 DEF ShapeInv, Fields
  <2>5. \A v \in Workers : <<Group(w), m>> \notin Got(v)
    BY <1>2, <2>1
  <2>6. \A v \in Workers : At(v, "ant") => Message(v) # <<Group(w), m>>
    BY <1>3, <2>1 DEF Message, Msg
  <2> QED  BY <1>1, <2>1, <2>2, <2>3, <2>4, <2>5, <2>6, NewFile DEF Got, At
<1> QED  BY <1>4, <1>5

LEMMA StoreStep ==
    ASSUME IInv, TInv, NEW w \in Workers,
           Write(w) \/ AntStores(w) \/ ReadFile(w) \/ RemoveFile(w) \/ RemoveGroup(w)
    PROVE  FilesInv'
<1>1. ShapeInv /\ FilesInv
  BY DEF IInv, TInv
<1>2. CASE Write(w)
  <2>1. /\ \A v \in Workers \ {w} : job'[v] = job[v]
        /\ \/ job'[w] = Idle
           \/ job'[w].got = job[w].got /\ job'[w].req = job[w].req
    BY <1>1, <1>2 DEF ShapeInv, Fields, Write, Goto
  <2>2. /\ torn' = torn \ {Message(w)} /\ UNCHANGED <<files, dir>>
    BY <1>2 DEF Write
  <2>3. Got(w)' \subseteq Got(w) /\ (At(w, "ant")' => Message(w)' = Message(w))
    BY <2>1, IdleFacts DEF Got, At, Message
  <2>4. \A v \in Workers \ {w} : /\ Got(v)' = Got(v) /\ Message(v)' = Message(v)
                                 /\ At(v, "ant")' => At(v, "ant")
    BY <2>1 DEF Got, At, Message
  <2> QED  BY <1>1, <2>2, <2>3, <2>4 DEF FilesInv
<1>3. CASE AntStores(w)
  <2>1. /\ \A v \in Workers \ {w} : job'[v] = job[v]
        /\ job'[w].got = job[w].got /\ job'[w].pc = "reply"
    BY <1>1, <1>3 DEF ShapeInv, Fields, AntStores
  <2>2. Message(w) \notin torn
    BY <1>1, <1>3 DEF AntStores, FilesInv
  <2>3. files' \subseteq files /\ files \ {Message(w)} \subseteq files' /\ UNCHANGED <<torn, dir>>
    BY <1>3 DEF AntStores
  <2>4. \A v \in Workers : /\ Got(v)' = Got(v)
                           /\ At(v, "ant")' => At(v, "ant") /\ Message(v)' = Message(v)
    BY <2>1 DEF Got, At, Message
  <2> QED  BY <1>1, <2>2, <2>3, <2>4 DEF FilesInv
<1>4. CASE ReadFile(w)
  <2>1. PICK f \in job[w].entries :
            job' = IF f \in files \ torn
                   THEN [job EXCEPT ![w].pc = "remove", ![w].got = @ \cup {f}]
                   ELSE [job EXCEPT ![w].entries = @ \ {f}]
    BY <1>4 DEF ReadFile
  <2>2. UNCHANGED <<files, torn, dir>> /\ job[w].pc = "read"
    BY <1>4 DEF ReadFile, store, At
  <2>3. \A v \in Workers \ {w} : job'[v] = job[v]
    BY <1>1, <2>1 DEF ShapeInv
  <2>4. Got(w) \cap torn = {}
    BY <1>1 DEF FilesInv
  <2>5. job'[w].pc # "ant" /\ Got(w)' \cap torn = {}
    <3>1. CASE f \in files \ torn
      <4>1. job'[w].pc = "remove" /\ job'[w].got = job[w].got \cup {f}
        BY <1>1, <2>1, <3>1 DEF ShapeInv, Fields
      <4> QED  BY <2>4, <3>1, <4>1 DEF Got
    <3>2. CASE f \notin files \ torn
      <4>1. job' = [job EXCEPT ![w].entries = @ \ {f}]
        BY <2>1, <3>2
      <4>2. job'[w].pc = "read" /\ job'[w].got = job[w].got
        BY <1>1, <2>2, <4>1 DEF ShapeInv, Fields
      <4> QED  BY <2>4, <4>2 DEF Got
    <3> QED  BY <3>1, <3>2
  <2>6. \A v \in Workers \ {w} : /\ Got(v)' = Got(v) /\ At(v, "ant")' = At(v, "ant")
                                 /\ Message(v)' = Message(v)
    BY <2>3 DEF Got, At, Message
  <2> QED  BY <1>1, <2>2, <2>5, <2>6 DEF FilesInv, At
<1>5. CASE RemoveFile(w)
  <2>1. PICK f \in job[w].entries \cap job[w].got :
            /\ files' = files \ {f}
            /\ job' = [job EXCEPT ![w].pc = "read", ![w].entries = @ \ {f}]
    BY <1>5 DEF RemoveFile
  <2>2. /\ \A v \in Workers \ {w} : job'[v] = job[v]
        /\ job'[w].got = job[w].got /\ job'[w].pc = "read"
    BY <1>1, <2>1 DEF ShapeInv, Fields
  <2>3. f \notin torn /\ UNCHANGED <<torn, dir>>
    BY <1>1, <1>5 DEF FilesInv, RemoveFile, Got
  <2>4. \A v \in Workers : /\ Got(v)' = Got(v)
                           /\ At(v, "ant")' => At(v, "ant") /\ Message(v)' = Message(v)
    BY <2>2 DEF Got, At, Message
  <2> QED  BY <1>1, <2>1, <2>3, <2>4 DEF FilesInv
<1>6. CASE RemoveGroup(w)
  <2>1. \A v \in Workers : /\ job'[v].got = job[v].got /\ job'[v].req = job[v].req
                           /\ job'[v].pc = "ant" => job[v].pc = "ant"
    BY <1>1, <1>6 DEF ShapeInv, Fields, RemoveGroup
  <2>2. /\ files' = {f \in files : f[1] # Group(w)} /\ torn' = {f \in torn : f[1] # Group(w)}
        /\ dir' = dir \ {Group(w)}
    BY <1>6 DEF RemoveGroup
  <2> QED  BY <1>1, <2>1, <2>2 DEF FilesInv, Got, At, Message
<1> QED  BY <1>2, <1>3, <1>4, <1>5, <1>6

-----------------------------------------------------------------------------
(* Requests arrive, chatd restarts.                                        *)

LEMMA ArrivalStep ==
    ASSUME IInv, TInv,
           \/ Restart
           \/ \E w \in Workers, u \in Users :
                ServeSend(w, u) \/ ServePoll(w, u) \/ ServeGroupCreate(w, u) \/ ServeGroup(w, u)
    PROVE  GroupsInv' /\ FilesInv'
<1>1. ShapeInv /\ FilesInv /\ GroupsInv
  BY DEF IInv, TInv
<1>2. CASE Restart
  <2>1. UNCHANGED <<files, torn, meta, dir, lists>> /\ \A v \in Workers : job'[v] = Idle
    BY <1>2 DEF Restart, store
  <2>2. \A v \in Workers : Got(v)' = {} /\ ~At(v, "ant")' /\ ~At(v, "metawrite")'
    BY <2>1, IdleFacts DEF Got, At
  <2> QED  BY <1>1, <2>1, <2>2, FilesStay, GroupsStay DEF GroupsInv
<1>3. ASSUME NEW w \in Workers, NEW u \in Users,
             ServeSend(w, u) \/ ServePoll(w, u) \/ ServeGroupCreate(w, u) \/ ServeGroup(w, u)
      PROVE  GroupsInv' /\ FilesInv'
  <2>1. \E r, first : /\ Serve(w, r, first) /\ DOMAIN first = Fields /\ first.got = {}
                      /\ first.pc \notin {"ant", "metawrite"}
    <3>1. DOMAIN Idle = Fields /\ Idle.got = {}
      BY IdleFields, IdleFacts
    <3>2. CASE ServeSend(w, u)
      <4>1. PICK r : Serve(w, r, [Idle EXCEPT !.pc = "create"])
        BY <3>2 DEF ServeSend
      <4> QED  BY <3>1, <4>1 DEF Fields
    <3>3. CASE ServePoll(w, u)
      <4> DEFINE first == [Idle EXCEPT !.pc = "readdir", !.dirs = {u}]
      <4>1. PICK r : Serve(w, r, first)
        BY <3>3 DEF ServePoll
      <4>2. DOMAIN first = Fields /\ first.got = {} /\ first.pc \notin {"ant", "metawrite"}
        BY <3>1 DEF Fields
      <4> HIDE DEF first
      <4> QED  BY <4>1, <4>2
    <3>4. CASE ServeGroupCreate(w, u)
      <4>1. PICK r, ms, g :
                Serve(w, r, [Idle EXCEPT !.pc = "meta", !.todo = ms, !.grp = g])
        BY <3>4 DEF ServeGroupCreate
      <4> DEFINE first == [Idle EXCEPT !.pc = "meta", !.todo = ms, !.grp = g]
      <4>2. DOMAIN first = Fields /\ first.got = {} /\ first.pc \notin {"ant", "metawrite"}
        BY <3>1 DEF Fields
      <4>3. Serve(w, r, first)
        BY <4>1
      <4> HIDE DEF first
      <4> QED  BY <4>2, <4>3
    <3>5. CASE ServeGroup(w, u)
      BY <3>1, <3>5 DEF ServeGroup, Fields
    <3> QED  BY <1>3, <3>2, <3>3, <3>4, <3>5
  <2>2. PICK r, first : /\ Serve(w, r, first) /\ DOMAIN first = Fields /\ first.got = {}
                        /\ first.pc \notin {"ant", "metawrite"}
    BY <2>1
  <2>3. /\ UNCHANGED <<files, torn, meta, dir, lists>>
        /\ job' = [job EXCEPT ![w] = [first EXCEPT !.req = r, !.waiting = TRUE]]
    BY <2>2 DEF Serve, store
  <2>4. \A v \in Workers \ {w} : job'[v] = job[v]
    BY <1>1, <2>3 DEF ShapeInv
  <2>5. job'[w].got = {} /\ job'[w].pc \notin {"ant", "metawrite"}
    BY <1>1, <2>2, <2>3 DEF ShapeInv, Fields
  <2>6. FilesInv'
    BY <1>1, <2>3, <2>4, <2>5, FilesStay DEF Got, At
  <2>7. GroupsInv'
    BY <1>1, <2>3, <2>4, <2>5, GroupsStay DEF At, GroupsInv
  <2> QED  BY <2>6, <2>7
<1> QED  BY <1>2, <1>3

LEMMA TInit == Init => TInv
<1> SUFFICES ASSUME Init  PROVE TInv
  OBVIOUS
<1>1. \A w \in Workers : job[w] = Idle
  BY DEF Init
<1>2. JobsInv
  BY <1>1, IdleIsGood DEF JobsInv
<1>3. FilesInv
  BY <1>1, IdleFacts DEF Init, FilesInv, At, Got
<1>4. ASSUME NEW g \in Existing
      PROVE  Everybody(g) \in Metas /\ Sound(Everybody(g))
  <2>1. FirstMembers[g] \in Seq(Users) /\ FirstMembers[g] # <<>>
    BY ChatdAssumption
  <2>2. Len(FirstMembers[g]) \in Nat \ {0} /\ DOMAIN FirstMembers[g] = 1..Len(FirstMembers[g])
    BY <2>1, EmptySeq, LenProperties
  <2>3. 1 \in DOMAIN FirstMembers[g] /\ FirstMembers[g][1] \in Users
    BY <2>1, <2>2, ElementOfSeq
  <2> QED  BY <2>1, <2>3 DEF Everybody, Metas, Sound, Elements
<1>5. GroupsInv
  <2>1. meta \in [Groups -> Metas \cup {Absent, Torn}] /\ \A g \in Groups : Sound(meta[g])
    BY <1>4, ChatdAssumption DEF Init, Sound
  <2>2. \A g \in Groups : meta[g] # Absent => g \in dir
    BY DEF Init
  <2>3. lists \in [Users -> (SUBSET Groups) \cup {Absent, Torn}]
    <3>1. \A u \in Users : Joined(u) \in SUBSET Groups
      BY ChatdAssumption DEF Joined
    <3> QED  BY <3>1 DEF Init
  <2>4. dir \subseteq Groups
    BY ChatdAssumption DEF Init
  <2> QED  BY <1>1, <2>1, <2>2, <2>3, <2>4, IdleFacts DEF GroupsInv, At
<1> QED  BY <1>2, <1>3, <1>5 DEF TInv

LEMMA TStep == IInv /\ DInv /\ TInv /\ [Next]_vars => TInv'
<1> SUFFICES ASSUME IInv, DInv, TInv, [Next]_vars  PROVE TInv'
  OBVIOUS
<1>1. JobsInv'
  BY JobsStep
<1>2. ASSUME NEW w \in Workers, Step(w) \/ GiveUp(w)  PROVE GroupsInv' /\ FilesInv'
  <2>1. FilesInv'
    BY <1>2, QuietFiles, NewFileStep, StoreStep DEF Step
  <2> QED  BY <1>2, <2>1, GroupsStep
<1>3. CASE UNCHANGED vars
  <2>1. UNCHANGED <<files, torn, meta, dir, lists, job>>
    BY <1>3 DEF vars, store
  <2>2. GroupsInv'
    BY <2>1 DEF TInv, GroupsInv, At, Group
  <2>3. FilesInv'
    BY <2>1 DEF TInv, FilesInv, At, Got, Message
  <2> QED  BY <1>1, <2>2, <2>3 DEF TInv
<1>4. CASE Restart \/ \E w \in Workers, u \in Users :
              ServeSend(w, u) \/ ServePoll(w, u) \/ ServeGroupCreate(w, u) \/ ServeGroup(w, u)
  BY <1>1, <1>4, ArrivalStep DEF TInv
<1> QED  BY <1>1, <1>2, <1>3, <1>4 DEF TInv, Next

(* The inductive invariant of groups, lists and stored messages.           *)
THEOREM GroupsInvariance == Spec => []TInv
  BY TInit, TStep, Invariance, DeliveryInvariance, PTL DEF Spec

(* The store is always well typed: a file that is torn exists, a message   *)
(* or a meta.json is in a directory that exists, and what a goroutine is   *)
(* about to write is fit to be written.                                    *)
THEOREM ChatdTypeCorrect == Spec => []TypeOK
<1>1. TInv => TypeOK
  BY DEF TInv, JobsInv, GoodJob, GroupsInv, FilesInv, TypeOK
<1> QED  BY <1>1, GroupsInvariance, PTL

(* A group that can be read has its owner among its members, whatever      *)
(* invitations and departures cross, fail or are cut off by a restart.     *)
THEOREM OwnerStaysMember == Spec => []OwnerIsMember
<1>1. TInv => OwnerIsMember
  BY DEF TInv, JobsInv, GoodJob, GroupsInv, Sound, OwnerIsMember
<1> QED  BY <1>1, GroupsInvariance, PTL

-----------------------------------------------------------------------------
(* Requests that come one after the other.                                 *)

Todo(w) == Elements(job[w].todo)

Belongs(u, g) == meta[g] \in Metas /\ u \in Elements(meta[g].members)
Agrees(u, g)  == g \in GroupsOf(u) <=> Belongs(u, g)

(* The steps of a request that has changed something and is not done.      *)
Listing  == {"lists", "listopen", "listwrite"}
Changing == {"meta", "metawrite", "rmdir"} \cup Listing

(* The file a request has truncated, and the entries of lists it has still *)
(* to change.                                                              *)
RewritesMeta(w, g) == At(w, "metawrite") /\ Group(w) = g
RewritesList(w, u) == At(w, "listwrite") /\ Head(job[w].todo) = u
Owes(w, u, g) ==
    \/ RewritesMeta(w, g) \/ RewritesList(w, u)
    \/ job[w].pc \in Listing /\ Group(w) = g /\ u \in Todo(w)

Alone(w) == \A v \in Workers \ {w} : At(v, "idle")

(* But for what a request still owes, everything agrees.                   *)
StoreAgrees ==
    /\ \A g \in Groups : meta[g] = Torn => \E w \in Workers : RewritesMeta(w, g)
    /\ \A u \in Users : lists[u] = Torn => \E w \in Workers : RewritesList(w, u)
    /\ \A u \in Users, g \in Groups : Agrees(u, g) \/ \E w \in Workers : Owes(w, u, g)
    /\ \A g \in Groups : meta[g] # Absent => g \in used
    /\ \A g \in removed : g \in Groups \cap used /\ g \notin dir /\ meta[g] = Absent
    /\ \A f \in files : f[1] \in Groups =>
          meta[f[1]] \in Metas \/ \E w \in Workers : RewritesMeta(w, f[1])

(* The same when w is the one request that runs.                           *)
AgreesBut(w) ==
    /\ \A g \in Groups : meta[g] = Torn => RewritesMeta(w, g)
    /\ \A u \in Users : lists[u] = Torn => RewritesList(w, u)
    /\ \A u \in Users, g \in Groups : Agrees(u, g) \/ Owes(w, u, g)
    /\ \A g \in Groups : meta[g] # Absent => g \in used
    /\ \A g \in removed : g \in Groups \cap used /\ g \notin dir /\ meta[g] = Absent
    /\ \A f \in files : f[1] \in Groups => meta[f[1]] \in Metas \/ RewritesMeta(w, f[1])

(* What a request relies on to bring that about: a message goes to a group *)
(* that is there; a change says of the users it still has to go through    *)
(* what their lists are to say, and of the others what they say already.   *)
Stored(w) ==
    job[w].pc \in {"create", "write", "ant", "ai"} \/ (At(w, "reply") /\ job[w].ok) =>
        (Op(w) \in {"group_send", "group_ai", "ai"} => meta[Group(w)] \in Metas)

Rewrites(w) ==
    /\ job[w].pc \in {"meta", "metawrite"} =>
          /\ Group(w) \notin removed /\ Group(w) \in used
          /\ \A u \in Users :
               u \in Elements(job[w].grp.members) <=>
                 IF u \in Todo(w) THEN Op(w) # "group_leave" ELSE Group(w) \in GroupsOf(u)
    /\ At(w, "metawrite") => job[w].linked /\ meta[Group(w)] = Torn
    /\ At(w, "rmdir") =>
          /\ meta[Group(w)] \in Metas /\ Op(w) = "group_leave"
          /\ Elements(meta[Group(w)].members) \subseteq Todo(w)

Relists(w) ==
    /\ job[w].pc \in Listing =>
          \A u \in Todo(w) : Belongs(u, Group(w)) <=> Op(w) # "group_leave"
    /\ job[w].pc \in {"listopen", "listwrite"} =>
          \A g \in Groups : g \in job[w].list <=> Belongs(Head(job[w].todo), g)
    /\ At(w, "listwrite") => lists[Head(job[w].todo)] = Torn

Duty(w) == Stored(w) /\ Rewrites(w) /\ Relists(w)

SInv ==
    ~disturbed =>
        /\ \A v, w \in Workers : v = w \/ At(v, "idle") \/ At(w, "idle")
        /\ StoreAgrees
        /\ \A w \in Workers : Duty(w)

(* A request that runs runs alone.                                         *)
LEMMA OneRequest ==
    ASSUME SInv, ~disturbed, NEW w \in Workers, ~At(w, "idle") \/ Alone(w)
    PROVE  Alone(w) /\ AgreesBut(w) /\ Duty(w)
<1>1. Alone(w)
  BY DEF SInv, Alone
<1>2. \A v \in Workers : \A g, u : RewritesMeta(v, g) => v = w
  BY <1>1 DEF Alone, RewritesMeta, At
<1>3. \A v \in Workers : \A u : RewritesList(v, u) => v = w
  BY <1>1 DEF Alone, RewritesList, At
<1>4. \A v \in Workers : \A g, u : Owes(v, u, g) => v = w
  BY <1>1, <1>2, <1>3 DEF Alone, Owes, At, Listing
<1>5. StoreAgrees /\ Duty(w)
  BY DEF SInv
<1>6. AgreesBut(w)
  BY <1>2, <1>3, <1>4, <1>5 DEF StoreAgrees, AgreesBut
<1> QED  BY <1>1, <1>5, <1>6

(* A step of the one request that runs.                                    *)
LEMMA OneStep ==
    ASSUME NEW w \in Workers, Alone(w), \A v \in Workers \ {w} : job'[v] = job[v],
           AgreesBut(w)', Duty(w)'
    PROVE  SInv'
<1>1. \A v \in Workers \ {w} : job'[v].pc = "idle"
  BY DEF Alone, At
<1>2. \A v \in Workers \ {w} : Duty(v)'
  BY <1>1 DEF Duty, Stored, Rewrites, Relists, At, Listing
<1>3. StoreAgrees'
  BY DEF AgreesBut, StoreAgrees
<1> QED  BY <1>1, <1>2, <1>3 DEF SInv, At

(* A step that leaves groups and lists alone, of a request that changes    *)
(* none, or has not begun to.                                              *)
LEMMA CalmStep ==
    ASSUME NEW w \in Workers, Alone(w), AgreesBut(w),
           \A v \in Workers \ {w} : job'[v] = job[v],
           UNCHANGED <<meta, lists, removed>>, used \subseteq used',
           \A g \in dir' \ dir : meta[g] \in Metas,
           \A f \in files' \ files : f[1] \in Groups => meta[f[1]] \in Metas,
           job[w].pc \notin {"metawrite"} \cup Listing,
           job'[w].pc \notin {"metawrite"} \cup Listing,
           Duty(w)'
    PROVE  SInv'
<1>1. /\ \A g, u : ~RewritesMeta(w, g) /\ ~RewritesList(w, u) /\ ~Owes(w, u, g)
      /\ \A g, u : ~RewritesMeta(w, g)' /\ ~RewritesList(w, u)' /\ ~Owes(w, u, g)'
  BY DEF RewritesMeta, RewritesList, Owes, Listing, At
<1>2. \A g, u : Agrees(u, g)' <=> Agrees(u, g)
  BY DEF Agrees, Belongs, GroupsOf
<1>3. AgreesBut(w)'
  BY <1>1, <1>2, ChatdAssumption DEF AgreesBut
<1> QED  BY <1>3, OneStep

(* What a calm step has to say of the request for that.                    *)
LEMMA CalmDuty ==
    ASSUME NEW w \in Workers, job'[w].pc \notin Changing,
           \/ job'[w].pc \notin {"create", "write", "ant", "ai", "reply"}
           \/ job'[w].pc = "reply" /\ ~job'[w].ok
           \/ Op(w)' \notin {"group_send", "group_ai", "ai"}
           \/ meta'[Group(w)'] \in Metas
    PROVE  Duty(w)'
  BY DEF Duty, Stored, Rewrites, Relists, At, Changing, Listing

(* The group of a message is there.                                        *)
LEMMA MessageGroup ==
    ASSUME TInv, NEW w \in Workers, Op(w) \in SendOps, Stored(w),
           job[w].pc \in {"create", "write", "ant", "ai"} \/ (At(w, "reply") /\ job[w].ok)
    PROVE  Group(w) \in Groups => meta[Group(w)] \in Metas
<1>1. GoodRequest(job[w].req)
  BY DEF TInv, JobsInv, GoodJob
<1> QED  BY <1>1, ChatdAssumption DEF Stored, GoodRequest, SendOps, AckOps, Op, Group

LEMMA SendsAgree ==
    ASSUME IInv, TInv, SInv, ~disturbed, NEW w \in Workers,
           \/ Reply(w) \/ Create(w) \/ Write(w) \/ AntStores(w) \/ AntFails(w)
           \/ AiAnswers(w) \/ AiFails(w)
    PROVE  SInv'
<1>1. ShapeInv /\ OpInv
  BY DEF IInv
<1>2. ~At(w, "idle")
  BY DEF Reply, Create, Write, AntStores, AntFails, AiAnswers, AiFails, At
<1>3. Alone(w) /\ AgreesBut(w) /\ Stored(w)
  BY <1>2, OneRequest DEF Duty
<1>4. \A v \in Workers \ {w} : job'[v] = job[v]
  <2>1. ~(MetaOpen(w) \/ MetaWrite(w) \/ RemoveGroup(w) \/ ListOpen(w) \/ ListWrite(w))
    BY DEF Reply, Create, Write, AntStores, AntFails, AiAnswers, AiFails, At,
       MetaOpen, MetaWrite, RemoveGroup, ListOpen, ListWrite
  <2> QED  BY <2>1, OneMoves DEF Step
<1>5. job[w].pc \in {"create", "write", "ant", "ai", "reply"}
  BY DEF Reply, Create, Write, AntStores, AntFails, AiAnswers, AiFails, At
<1>6. UNCHANGED <<meta, lists, removed>> /\ used \subseteq used'
  BY DEF Reply, Create, Write, AntStores, AntFails, AiAnswers, AiFails, store, hist, bound
<1>7. job[w].pc # "reply" => Op(w) \in SendOps
  BY <1>1, <1>5 DEF OpInv, OpsAt, SendOps
<1>8. job[w].pc # "reply" => (Group(w) \in Groups => meta[Group(w)] \in Metas)
  BY <1>3, <1>5, <1>7, MessageGroup
<1>9. /\ \A g \in dir' \ dir : meta[g] \in Metas
      /\ \A f \in files' \ files : f[1] \in Groups => meta[f[1]] \in Metas
  <2>1. \/ UNCHANGED <<files, dir>>
        \/ job[w].pc # "reply" /\ dir' \subseteq dir \cup ({Group(w)} \cap Groups)
             /\ \A f \in files' : f \in files \/ f[1] = Group(w)
    <3>1. CASE Reply(w) \/ Write(w) \/ AntFails(w) \/ AiFails(w)
      BY <3>1 DEF Reply, Write, AntFails, AiFails, store
    <3>2. CASE Create(w)
      BY <3>2 DEF Create, At, Message, Group
    <3>3. CASE AntStores(w)
      BY <3>3 DEF AntStores, At
    <3>4. CASE AiAnswers(w)
      <4>1. PICK m : files' = files \cup {<<Group(w), m>>}
        BY <3>4 DEF AiAnswers
      <4>2. dir' = dir /\ job[w].pc = "ai"
        BY <3>4 DEF AiAnswers, At
      <4> QED  BY <4>1, <4>2
    <3> QED  BY <3>1, <3>2, <3>3, <3>4
  <2> QED  BY <1>8, <2>1
<1>10. /\ job'[w].pc \notin Changing
       /\ \/ job'[w].pc \notin {"create", "write", "ant", "ai", "reply"}
          \/ job'[w].pc = "reply" /\ ~job'[w].ok
          \/ Op(w)' \notin {"group_send", "group_ai", "ai"}
          \/ meta'[Group(w)'] \in Metas
  <2> USE DEF Fields, Changing, Listing
  <2>1. CASE Reply(w)
    <3>1. \/ job'[w] = Idle
          \/ Op(w) = "group_ai" /\ job[w].ok /\ job'[w].req = job[w].req /\ job'[w].pc = "ai"
      BY <1>1, <2>1 DEF ShapeInv, Reply
    <3>2. Op(w) = "group_ai" /\ job[w].ok => meta[Group(w)] \in Metas
      BY <1>3, <2>1 DEF Stored, Reply
    <3> QED  BY <1>6, <3>1, <3>2, IdleFacts DEF Group
  <2>2. CASE Create(w) \/ Write(w) \/ AntStores(w) \/ AntFails(w) \/ AiFails(w)
    <3>1. \/ job' = [job EXCEPT ![w] = Idle]
          \/ \E p \in {"write", "ant", "reply"} : job' = [job EXCEPT ![w].pc = p]
          \/ job' = [job EXCEPT ![w].pc = "reply", ![w].addr = TRUE]
      BY <2>2 DEF Create, Write, AntStores, AntFails, AiFails, Goto
    <3>2. \/ job'[w] = Idle
          \/ job'[w].req = job[w].req /\ job'[w].pc \in {"write", "ant", "reply"}
      BY <1>1, <3>1 DEF ShapeInv
    <3>3. job[w].pc \in {"create", "write", "ant", "ai"}
      BY <2>2 DEF Create, Write, AntStores, AntFails, AiFails, At
    <3>4. Op(w) \in {"group_send", "group_ai", "ai"} => meta[Group(w)] \in Metas
      BY <1>3, <3>3 DEF Stored
    <3> QED  BY <1>6, <3>2, <3>4, IdleFacts DEF Group, Op
  <2>3. CASE AiAnswers(w)
    <3>1. job'[w].pc = "write" /\ job'[w].req.dir = job[w].req.dir
      <4>1. PICK m : job' = [job EXCEPT ![w].pc = "write",
                                       ![w].req = [@ EXCEPT !.op = "ai", !.msg = m]]
        BY <2>3 DEF AiAnswers
      <4>2. job'[w].pc = "write" /\ job'[w].req = [job[w].req EXCEPT !.op = "ai", !.msg = m]
        BY <1>1, <4>1 DEF ShapeInv
      <4> QED  BY <1>1, <4>2 DEF ShapeInv, ReqFields
    <3>2. Group(w) \in Groups /\ job[w].pc = "ai"
      BY <2>3 DEF AiAnswers, TInv, GroupsInv, At
    <3> QED  BY <1>6, <1>8, <3>1, <3>2 DEF Group
  <2> QED  BY <2>1, <2>2, <2>3
<1>11. Duty(w)'
  BY <1>10, CalmDuty
<1> QED  BY <1>3, <1>4, <1>5, <1>6, <1>9, <1>10, <1>11, CalmStep DEF Changing, Listing

LEMMA PollsAgree ==
    ASSUME IInv, TInv, SInv, ~disturbed, NEW w \in Workers,
           MyGroups(w) \/ ReadDir(w) \/ ReadFile(w) \/ RemoveFile(w) \/ PollDone(w)
    PROVE  SInv'
<1>1. ~At(w, "idle") /\ Op(w) \in PollOps
  BY DEF IInv, OpInv, OpsAt, MyGroups, ReadDir, ReadFile, RemoveFile, PollDone, At
<1>2. Alone(w) /\ AgreesBut(w)
  BY <1>1, OneRequest
<1>3. \A v \in Workers \ {w} : job'[v] = job[v]
  <2>1. ~(MetaOpen(w) \/ MetaWrite(w) \/ RemoveGroup(w) \/ ListOpen(w) \/ ListWrite(w))
    BY DEF MyGroups, ReadDir, ReadFile, RemoveFile, PollDone, At,
       MetaOpen, MetaWrite, RemoveGroup, ListOpen, ListWrite
  <2> QED  BY <2>1, OneMoves DEF Step
<1>4. PICK p \in {"readdir", "read", "remove", "reply"} : Moves(w, p)
  BY PollMoves
<1>5. UNCHANGED <<meta, lists, removed, used, dir>> /\ files' \subseteq files
  BY DEF MyGroups, ReadDir, ReadFile, RemoveFile, PollDone, store, hist, bound
<1>6. job[w].pc \notin {"metawrite"} \cup Listing
  BY DEF MyGroups, ReadDir, ReadFile, RemoveFile, PollDone, At, Listing
<1>7. Op(w)' \in PollOps /\ job'[w].pc \notin Changing
  BY <1>1, <1>4 DEF Moves, Op, Changing, Listing
<1>8. Duty(w)'
  BY <1>7, CalmDuty DEF PollOps
<1> QED  BY <1>2, <1>3, <1>5, <1>6, <1>7, <1>8, CalmStep DEF Changing

LEMMA LoadsAgree ==
    ASSUME IInv, TInv, SInv, ~disturbed, NEW w \in Workers,
           LoadFails(w) \/ LoadToSend(w) \/ LoadToPoll(w) \/ LoadToInvite(w) \/ LoadToLeave(w)
    PROVE  SInv'
<1>1. ShapeInv /\ JobsInv /\ GroupsInv /\ GoodJob(job[w]) /\ job[w].pc = "load"
  BY DEF IInv, TInv, JobsInv, LoadFails, LoadToSend, LoadToPoll, LoadToInvite, LoadToLeave,
     Load, At
<1>2. Alone(w) /\ AgreesBut(w)
  BY <1>1, OneRequest DEF At
<1>3. \A v \in Workers \ {w} : job'[v] = job[v]
  <2>1. ~(MetaOpen(w) \/ MetaWrite(w) \/ RemoveGroup(w) \/ ListOpen(w) \/ ListWrite(w))
    BY <1>1 DEF At, MetaOpen, MetaWrite, RemoveGroup, ListOpen, ListWrite
  <2> QED  BY <2>1, OneMoves DEF Step
<1>4. UNCHANGED <<meta, lists, removed, used, dir, files>>
  BY DEF LoadFails, LoadToSend, LoadToPoll, LoadToInvite, LoadToLeave, Load, store, hist, bound
<1>5. SUFFICES Duty(w)' /\ job'[w].pc \notin {"metawrite"} \cup Listing
  BY <1>1, <1>2, <1>3, <1>4, CalmStep DEF Listing
<1>6. CASE LoadFails(w)
  <2>1. job'[w].pc = "reply" /\ job'[w].ok = FALSE
    BY <1>1, <1>6 DEF ShapeInv, Fields, LoadFails, Fail
  <2> QED  BY <2>1, CalmDuty DEF Changing, Listing
<1>7. CASE LoadToSend(w)
  <2>1. job'[w].pc = "create" /\ job'[w].req = job[w].req
    BY <1>1, <1>7 DEF ShapeInv, Fields, LoadToSend, Goto
  <2>2. Group(w) \in Groups
    BY <1>1, <1>7 DEF GoodJob, GoodRequest, LoadToSend, Load, Op, Group
  <2>3. meta[Group(w)] \in Metas
    BY <1>1, <1>7, <2>2 DEF LoadToSend, Load, Allowed, GroupsInv
  <2>4. meta'[Group(w)'] \in Metas
    BY <1>4, <2>1, <2>3 DEF Group
  <2> QED  BY <2>1, <2>4, CalmDuty DEF Changing, Listing
<1>8. CASE LoadToPoll(w)
  <2>1. job'[w].pc = "readdir"
    BY <1>1, <1>8 DEF ShapeInv, Fields, LoadToPoll
  <2> QED  BY <2>1, CalmDuty DEF Changing, Listing
<1>9. CASE LoadToInvite(w)
  <2> DEFINE g  == meta[Group(w)]
             r  == job[w].req
             ms == g.members \o Without(r.members, Elements(g.members))
  <2>1. /\ job' = [job EXCEPT ![w].pc = "meta", ![w].todo = r.members,
                              ![w].grp = [g EXCEPT !.members = ms]]
        /\ Load(w, {"group_invite"}) /\ Op(w) = "group_invite"
    BY <1>9 DEF LoadToInvite, Load
  <2>2. /\ Group(w) \in Groups /\ g \in Metas /\ g.members \in Seq(Users)
    BY <2>1, LoadedGroup DEF ChangeOps
  <2>3. r.members \in Seq(Users)
    <3>1. PICK u \in Users : r.members = <<u>>
      BY <1>1, <2>1 DEF GoodJob, GoodRequest, Op
    <3> QED  BY <3>1
  <2>4. Elements(ms) = Elements(g.members) \cup Elements(r.members)
    <3>1. /\ Without(r.members, Elements(g.members)) \in Seq(Users)
          /\ Elements(Without(r.members, Elements(g.members)))
               = Elements(r.members) \ Elements(g.members)
      BY <2>3, WithoutFacts
    <3>2. Elements(ms) = Elements(g.members) \cup Elements(Without(r.members, Elements(g.members)))
      BY <2>2, <3>1, ConcatElements
    <3> QED  BY <3>1, <3>2
  <2> HIDE DEF ms
  <2>5. [g EXCEPT !.members = ms].members = ms
    BY <2>2 DEF Metas
  <2> HIDE DEF g
  <2>6. /\ job'[w].pc = "meta" /\ job'[w].todo = r.members /\ job'[w].req = r
        /\ job'[w].grp.members = ms
    BY <1>1, <2>1, <2>5 DEF ShapeInv, Fields
  <2>7. \A u \in Users : Group(w) \in GroupsOf(u) <=> u \in Elements(g.members)
    <3>1. \A u \in Users : Agrees(u, Group(w))
      BY <1>1, <1>2, <2>2 DEF AgreesBut, Owes, RewritesMeta, RewritesList, At, Listing
    <3> QED  BY <2>2, <3>1 DEF Agrees, Belongs, g
  <2>8. Group(w) \in used /\ Group(w) \notin removed
    BY <1>2, <2>2, ChatdAssumption DEF AgreesBut, g
  <2>9. /\ Todo(w)' = Elements(r.members) /\ Group(w)' = Group(w) /\ Op(w)' = "group_invite"
        /\ \A u : GroupsOf(u)' = GroupsOf(u)
    BY <1>4, <2>1, <2>6 DEF Todo, Group, Op, GroupsOf
  <2>10. Rewrites(w)'
    BY <1>4, <2>4, <2>6, <2>7, <2>8, <2>9 DEF Rewrites, At
  <2> QED  BY <2>6, <2>10 DEF Duty, Stored, Relists, At, Listing
<1>10. CASE LoadToLeave(w)
  <2> DEFINE g    == meta[Group(w)]
             left == Without(g.members, {User(w)})
             heir == IF g.owner = User(w) THEN left[1] ELSE g.owner
  <2>1. /\ job' = [job EXCEPT ![w].todo = <<User(w)>>,
                       ![w].pc  = IF left = <<>> THEN "rmdir" ELSE "meta",
                       ![w].grp = IF left = <<>> THEN Absent
                                  ELSE [owner |-> heir, members |-> left]]
        /\ Load(w, {"group_leave"}) /\ Op(w) = "group_leave"
    BY <1>10 DEF LoadToLeave, Load
  <2>2. Group(w) \in Groups /\ g \in Metas /\ g.members \in Seq(Users)
    BY <2>1, LoadedGroup DEF ChangeOps
  <2>3. left \in Seq(Users) /\ Elements(left) = Elements(g.members) \ {User(w)}
    BY <2>2, WithoutFacts
  <2> HIDE DEF left, heir
  <2>4. Elements(<<User(w)>>) = {User(w)} /\ Elements(<<>>) = {}
    BY DEF Elements
  <2>5. \A u \in Users : Group(w) \in GroupsOf(u) <=> u \in Elements(g.members)
    <3>1. \A u \in Users : Agrees(u, Group(w))
      BY <1>1, <1>2, <2>2 DEF AgreesBut, Owes, RewritesMeta, RewritesList, At, Listing
    <3> QED  BY <2>2, <3>1 DEF Agrees, Belongs
  <2>6. Group(w) \in used /\ Group(w) \notin removed
    BY <1>2, <2>2, ChatdAssumption DEF AgreesBut
  <2> HIDE DEF g
  <2>7. /\ job'[w].todo = <<User(w)>> /\ job'[w].req = job[w].req
        /\ job'[w].pc = IF left = <<>> THEN "rmdir" ELSE "meta"
        /\ left # <<>> => job'[w].grp.members = left
    BY <1>1, <2>1 DEF ShapeInv, Fields
  <2>8. /\ Todo(w)' = {User(w)} /\ Group(w)' = Group(w) /\ Op(w)' = "group_leave"
        /\ \A u : GroupsOf(u)' = GroupsOf(u)
    BY <1>4, <2>1, <2>4, <2>7 DEF Todo, Group, Op, GroupsOf
  <2>9. Rewrites(w)'
    <3>1. CASE left = <<>>
      <4>1. Elements(g.members) \subseteq {User(w)}
        BY <2>3, <2>4, <3>1
      <4>2. meta'[Group(w)'] = g
        BY <1>4, <2>8 DEF g
      <4> QED  BY <2>2, <2>7, <2>8, <3>1, <4>1, <4>2 DEF Rewrites, At
    <3>2. CASE left # <<>>
      BY <1>4, <2>3, <2>5, <2>6, <2>7, <2>8, <3>2 DEF Rewrites, At
    <3> QED  BY <3>1, <3>2
  <2> QED  BY <2>7, <2>9 DEF Duty, Stored, Relists, At, Listing
<1> QED  BY <1>6, <1>7, <1>8, <1>9, <1>10

(* The group, the users to come and the next of them, in a change.         *)
LEMMA ChangeFacts ==
    ASSUME IInv, TInv, NEW w \in Workers, job[w].pc \in Changing
    PROVE  /\ Group(w) \in Groups /\ Op(w) \in ChangeOps
           /\ job[w].todo \in Seq(Users) /\ job[w].todo # <<>>
           /\ Head(job[w].todo) \in Users
           /\ Todo(w) = {Head(job[w].todo)} \cup Elements(Tail(job[w].todo))
           /\ Len(job[w].todo) = 1 => Tail(job[w].todo) = <<>>
<1>1. GoodJob(job[w]) /\ OpInv
  BY DEF TInv, JobsInv, IInv
<1>2. Op(w) \in ChangeOps
  BY <1>1 DEF OpInv, OpsAt, Changing, Listing
<1>3. Group(w) \in Groups /\ job[w].todo \in Seq(Users) /\ job[w].todo # <<>>
  BY <1>1, <1>2 DEF GoodJob, GoodRequest, Op, Group, Changing, Listing
<1> DEFINE s == job[w].todo
<1>4. s \in Seq(Users) /\ s # <<>>
  BY <1>3
<1> HIDE DEF s
<1>5. /\ Head(s) \in Users /\ Tail(s) \in Seq(Users) /\ Len(s) \in Nat \ {0}
      /\ Head(s) = s[1] /\ Len(Tail(s)) = Len(s) - 1
      /\ DOMAIN s = 1..Len(s) /\ DOMAIN Tail(s) = 1..(Len(s) - 1)
      /\ \A i \in 1..(Len(s) - 1) : Tail(s)[i] = s[i + 1]
  BY <1>4, HeadTailProperties, LenProperties, EmptySeq
<1>6. Elements(s) = {Head(s)} \cup Elements(Tail(s))
  <2>1. \A i \in DOMAIN s : i = 1 \/ (i - 1 \in DOMAIN Tail(s) /\ Tail(s)[i - 1] = s[i])
    BY <1>5
  <2>2. \A i \in DOMAIN Tail(s) : i + 1 \in DOMAIN s /\ Tail(s)[i] = s[i + 1]
    BY <1>5
  <2>3. 1 \in DOMAIN s /\ s[1] = Head(s)
    BY <1>5
  <2>4. ASSUME NEW i \in DOMAIN s  PROVE s[i] \in {Head(s)} \cup Elements(Tail(s))
    <3>1. CASE i = 1
      BY <1>5, <3>1
    <3>2. CASE i # 1
      <4>1. i - 1 \in DOMAIN Tail(s) /\ Tail(s)[i - 1] = s[i]
        BY <2>1, <3>2
      <4> QED  BY <4>1 DEF Elements
    <3> QED  BY <3>1, <3>2
  <2>5. Head(s) \in Elements(s) /\ Elements(Tail(s)) \subseteq Elements(s)
    BY <2>2, <2>3 DEF Elements
  <2>6. Elements(s) \subseteq {Head(s)} \cup Elements(Tail(s))
    BY <2>4 DEF Elements
  <2> QED  BY <2>5, <2>6
<1>7. Len(s) = 1 => Tail(s) = <<>>
  BY <1>5, EmptySeq
<1> QED  BY <1>2, <1>3, <1>5, <1>6, <1>7 DEF s, Todo

LEMMA MetaOpenAgrees ==
    ASSUME IInv, TInv, SInv, ~disturbed, NEW w \in Workers,
           NEW g \in Groups, Group(w) = g, MetaOpen(w)
    PROVE  SInv'
<1>1. ShapeInv /\ GroupsInv /\ job[w].pc = "meta"
  BY DEF IInv, TInv, MetaOpen, At
<1>2. Alone(w) /\ AgreesBut(w) /\ Rewrites(w)
  BY <1>1, OneRequest DEF Duty, At
<1>3. job' = [job EXCEPT ![w].pc = "metawrite", ![w].linked = TRUE]
  BY DEF MetaOpen
<1>4. /\ \A v \in Workers \ {w} : job'[v] = job[v]
      /\ job'[w].pc = "metawrite" /\ job'[w].linked
      /\ job'[w].req = job[w].req /\ job'[w].todo = job[w].todo /\ job'[w].grp = job[w].grp
  BY <1>1, <1>3 DEF ShapeInv, Fields
<1>5. /\ UNCHANGED <<lists, files, removed, used>> /\ dir' = dir \cup {g}
      /\ \A h \in Groups : meta'[h] = IF h = g THEN Torn ELSE meta[h]
  BY <1>1 DEF MetaOpen, hist, bound, GroupsInv
<1>6. /\ Group(w)' = g /\ Todo(w)' = Todo(w) /\ Op(w)' = Op(w)
      /\ \A u : GroupsOf(u)' = GroupsOf(u)
  BY <1>4, <1>5 DEF Group, Todo, Op, GroupsOf
<1>7. \A h \in Groups : RewritesMeta(w, h)' <=> h = g
  BY <1>4, <1>6 DEF RewritesMeta, At
<1>8. (\A u, h : ~Owes(w, u, h)) /\ (\A h : ~RewritesMeta(w, h)) /\ \A u : ~RewritesList(w, u)
  BY <1>1 DEF Owes, RewritesMeta, RewritesList, At, Listing
<1>9. Duty(w)'
  <2>1. meta'[g] = Torn
    BY <1>5
  <2> QED  BY <1>1, <1>2, <1>4, <1>5, <1>6, <2>1 DEF Duty, Stored, Rewrites, Relists, At, Listing
<1>10. AgreesBut(w)'
  <2>1. \A u \in Users, h \in Groups : Agrees(u, h)' \/ Owes(w, u, h)'
    <3> SUFFICES ASSUME NEW u \in Users, NEW h \in Groups, h # g  PROVE Agrees(u, h)'
      BY <1>7 DEF Owes
    <3>1. Agrees(u, h)
      BY <1>2, <1>8 DEF AgreesBut
    <3> QED  BY <1>5, <1>6, <3>1 DEF Agrees, Belongs
  <2>2. g \in used /\ g \notin removed
    BY <1>1, <1>2 DEF Rewrites
  <2>3. \A u \in Users : lists'[u] # Torn
    BY <1>2, <1>5, <1>8 DEF AgreesBut
  <2>4. \A h \in Groups : (meta'[h] = Torn => RewritesMeta(w, h)') /\ (meta'[h] # Absent => h \in used')
    BY <1>2, <1>5, <1>7, <1>8, <2>2 DEF AgreesBut
  <2>5. \A h \in removed' : h \in Groups \cap used' /\ h \notin dir' /\ meta'[h] = Absent
    BY <1>2, <1>5, <2>2 DEF AgreesBut
  <2>6. \A f \in files' : f[1] \in Groups => meta'[f[1]] \in Metas \/ RewritesMeta(w, f[1])'
    BY <1>2, <1>5, <1>7, <1>8 DEF AgreesBut
  <2> QED  BY <2>1, <2>3, <2>4, <2>5, <2>6 DEF AgreesBut
<1> QED  BY <1>2, <1>4, <1>9, <1>10, OneStep

LEMMA MetaWriteAgrees ==
    ASSUME IInv, TInv, SInv, ~disturbed, NEW w \in Workers,
           NEW g \in Groups, Group(w) = g, MetaWrite(w)
    PROVE  SInv'
<1>1. /\ ShapeInv /\ GroupsInv /\ job[w].pc = "metawrite"
      /\ job[w].grp \in Metas
  BY DEF IInv, TInv, JobsInv, GoodJob, MetaWrite, At
<1>2. Alone(w) /\ AgreesBut(w) /\ Rewrites(w)
  BY <1>1, OneRequest DEF Duty, At
<1>3. job' = [job EXCEPT ![w].pc = "lists", ![w].grp = Absent, ![w].linked = TRUE]
  BY DEF MetaWrite
<1>4. /\ \A v \in Workers \ {w} : job'[v] = job[v]
      /\ job'[w].pc = "lists"
      /\ job'[w].req = job[w].req /\ job'[w].todo = job[w].todo
  BY <1>1, <1>3 DEF ShapeInv, Fields
<1>5. job[w].linked /\ meta[g] = Torn
  BY <1>1, <1>2 DEF Rewrites, At
<1>6. meta' = [meta EXCEPT ![g] = job[w].grp]
  BY <1>5 DEF MetaWrite
<1>7. /\ UNCHANGED <<lists, files, removed, used, dir>>
      /\ \A h \in Groups : meta'[h] = IF h = g THEN job[w].grp ELSE meta[h]
  BY <1>1, <1>6 DEF MetaWrite, hist, bound, GroupsInv
<1>8. /\ Group(w)' = g /\ Todo(w)' = Todo(w) /\ Op(w)' = Op(w)
      /\ \A u : GroupsOf(u)' = GroupsOf(u)
  BY <1>4, <1>7 DEF Group, Todo, Op, GroupsOf
<1>9. /\ \A h : RewritesMeta(w, h) <=> h = g
      /\ \A u : ~RewritesList(w, u)
      /\ \A u, h : Owes(w, u, h) <=> h = g
  BY <1>1 DEF Owes, RewritesMeta, RewritesList, At, Listing
<1>10. \A u : u \in Todo(w) => Owes(w, u, g)'
  BY <1>4, <1>8 DEF Owes, Listing
<1>11. \A u \in Users : Belongs(u, g)' <=>
          IF u \in Todo(w) THEN Op(w) # "group_leave" ELSE g \in GroupsOf(u)
  BY <1>1, <1>2, <1>7 DEF Rewrites, Belongs
<1>12. Duty(w)'
  <2>1. Todo(w) \subseteq Users
    BY <1>1, ChangeFacts DEF Changing, Todo, Elements
  <2>2. \A u \in Todo(w)' : Belongs(u, Group(w))' <=> Op(w)' # "group_leave"
    BY <1>8, <1>11, <2>1
  <2> QED  BY <1>4, <2>2 DEF Duty, Stored, Rewrites, Relists, At, Listing
<1>13. AgreesBut(w)'
  <2>1. \A u \in Users, h \in Groups : Agrees(u, h)' \/ Owes(w, u, h)'
    <3> SUFFICES ASSUME NEW u \in Users, NEW h \in Groups, ~Owes(w, u, h)'  PROVE Agrees(u, h)'
      OBVIOUS
    <3>1. CASE h = g
      BY <1>8, <1>10, <1>11, <3>1 DEF Agrees
    <3>2. CASE h # g
      <4>1. Agrees(u, h)
        BY <1>2, <1>9, <3>2 DEF AgreesBut
      <4> QED  BY <1>7, <1>8, <3>2, <4>1 DEF Agrees, Belongs
    <3> QED  BY <3>1, <3>2
  <2>2. g \in used /\ g \notin removed
    BY <1>1, <1>2 DEF Rewrites
  <2>3. \A u \in Users : lists'[u] # Torn
    BY <1>2, <1>7, <1>9 DEF AgreesBut
  <2>4. \A h \in Groups : meta'[h] # Torn /\ (meta'[h] # Absent => h \in used')
    BY <1>1, <1>2, <1>7, <1>9, <2>2, ChatdAssumption DEF AgreesBut
  <2>5. \A h \in removed' : h \in Groups \cap used' /\ h \notin dir' /\ meta'[h] = Absent
    BY <1>2, <1>7, <2>2 DEF AgreesBut
  <2>6. \A f \in files' : f[1] \in Groups => meta'[f[1]] \in Metas
    BY <1>1, <1>2, <1>7, <1>9 DEF AgreesBut
  <2> QED  BY <2>1, <2>3, <2>4, <2>5, <2>6 DEF AgreesBut
<1> QED  BY <1>2, <1>4, <1>12, <1>13, OneStep

LEMMA RemoveGroupAgrees ==
    ASSUME IInv, TInv, SInv, ~disturbed, NEW w \in Workers,
           NEW g \in Groups, Group(w) = g, RemoveGroup(w)
    PROVE  SInv'
<1>1. ShapeInv /\ GroupsInv /\ job[w].pc = "rmdir"
  BY DEF IInv, TInv, RemoveGroup, At
<1>2. Alone(w) /\ AgreesBut(w) /\ Rewrites(w)
  BY <1>1, OneRequest DEF Duty, At
<1>3. \A v \in Workers \ {w} : job'[v] = job[v]
  <2>1. \A v \in Workers \ {w} : job[v].pc # "metawrite"
    BY <1>2 DEF Alone, At
  <2> QED  BY <1>1, <2>1 DEF ShapeInv, RemoveGroup, At
<1>4. job'[w].pc = "lists" /\ job'[w].req = job[w].req /\ job'[w].todo = job[w].todo
  <2>1. job'[w] = [job[w] EXCEPT !.pc = "lists"]
    BY DEF RemoveGroup
  <2> QED  BY <1>1, <2>1 DEF ShapeInv, Fields
<1>5. /\ UNCHANGED <<lists, used>> /\ removed' = removed \cup {g} /\ dir' = dir \ {g}
      /\ files' = {f \in files : f[1] # g}
      /\ \A h \in Groups : meta'[h] = IF h = g THEN Absent ELSE meta[h]
  BY <1>1 DEF RemoveGroup, bound, GroupsInv
<1>6. /\ Group(w)' = g /\ Todo(w)' = Todo(w) /\ Op(w)' = Op(w)
      /\ \A u : GroupsOf(u)' = GroupsOf(u)
  BY <1>4, <1>5 DEF Group, Todo, Op, GroupsOf
<1>7. (\A u, h : ~Owes(w, u, h)) /\ (\A h : ~RewritesMeta(w, h)) /\ \A u : ~RewritesList(w, u)
  BY <1>1 DEF Owes, RewritesMeta, RewritesList, At, Listing
<1>8. \A u : u \in Todo(w) => Owes(w, u, g)'
  BY <1>4, <1>6 DEF Owes, Listing
<1>9. /\ meta[g] \in Metas /\ Op(w) = "group_leave"
       /\ Elements(meta[g].members) \subseteq Todo(w)
  BY <1>1, <1>2 DEF Rewrites, At
<1>10. \A u : ~Belongs(u, g)'
  BY <1>5, ChatdAssumption DEF Belongs
<1>11. Duty(w)'
  BY <1>4, <1>6, <1>9, <1>10 DEF Duty, Stored, Rewrites, Relists, At, Listing
<1>12. AgreesBut(w)'
  <2>1. \A u \in Users, h \in Groups : Agrees(u, h)' \/ Owes(w, u, h)'
    <3> SUFFICES ASSUME NEW u \in Users, NEW h \in Groups, ~Owes(w, u, h)'  PROVE Agrees(u, h)'
      OBVIOUS
    <3>1. Agrees(u, h)
      BY <1>2, <1>7 DEF AgreesBut
    <3>2. CASE h = g
      BY <1>6, <1>8, <1>9, <1>10, <3>1, <3>2 DEF Agrees, Belongs
    <3>3. CASE h # g
      BY <1>5, <1>6, <3>1, <3>3 DEF Agrees, Belongs
    <3> QED  BY <3>2, <3>3
  <2>2. g \in used
    BY <1>2, <1>9, ChatdAssumption DEF AgreesBut
  <2>3. \A u \in Users : lists'[u] # Torn
    BY <1>2, <1>5, <1>7 DEF AgreesBut
  <2>4. \A h \in Groups : meta'[h] # Torn /\ (meta'[h] # Absent => h \in used')
    BY <1>2, <1>5, <1>7, ChatdAssumption DEF AgreesBut
  <2>5. \A h \in removed' : h \in Groups \cap used' /\ h \notin dir' /\ meta'[h] = Absent
    BY <1>2, <1>5, <2>2 DEF AgreesBut
  <2>6. \A f \in files' : f[1] \in Groups => meta'[f[1]] \in Metas
    BY <1>2, <1>5, <1>7 DEF AgreesBut
  <2> QED  BY <2>1, <2>3, <2>4, <2>5, <2>6 DEF AgreesBut
<1> QED  BY <1>2, <1>3, <1>11, <1>12, OneStep

(* A list that is as it should be: the request goes on to the next user.   *)
LEMMA NextMemberAgrees ==
    ASSUME IInv, TInv, SInv, ~disturbed, NEW w \in Workers,
           NEW g \in Groups, Group(w) = g, job[w].pc \in {"lists", "listwrite"},
           job' = [job EXCEPT ![w] = NextMember(w)],
           UNCHANGED <<files, meta, dir, removed, used>>,
           NEW u \in Users, u = Head(job[w].todo),
           \A v \in Users \ {u} : lists'[v] = lists[v],
           lists'[u] # Torn, \A h \in Groups : Agrees(u, h)'
    PROVE  SInv'
<1>1. ShapeInv /\ GroupsInv
  BY DEF IInv, TInv
<1>2. Alone(w) /\ AgreesBut(w) /\ Relists(w)
  BY OneRequest DEF Duty, At
<1>3. /\ Op(w) \in ChangeOps
      /\ Todo(w) = {u} \cup Elements(Tail(job[w].todo))
      /\ Len(job[w].todo) = 1 => Tail(job[w].todo) = <<>>
  BY ChangeFacts DEF Changing, Listing
<1>4. /\ \A v \in Workers \ {w} : job'[v] = job[v]
      /\ job'[w].req = job[w].req /\ job'[w].todo = Tail(job[w].todo)
      /\ job'[w].pc = IF Len(job[w].todo) = 1 THEN "reply" ELSE "lists"
  <2>1. job'[w] = NextMember(w)
    BY <1>1 DEF ShapeInv
  <2> QED  BY <1>1, <2>1 DEF ShapeInv, Fields, NextMember
<1>5. Elements(<<>>) = {}
  BY DEF Elements
<1>6. /\ Group(w)' = g /\ Op(w)' = Op(w) /\ Todo(w)' = Elements(Tail(job[w].todo))
      /\ \A v \in Users \ {u} : GroupsOf(v)' = GroupsOf(v)
      /\ \A v, h : Belongs(v, h)' <=> Belongs(v, h)
  BY <1>4 DEF Group, Op, Todo, GroupsOf, Belongs
<1>7. job'[w].pc = "reply" => Todo(w)' = {}
  <2> SUFFICES ASSUME job'[w].pc = "reply"  PROVE Elements(Tail(job[w].todo)) = {}
    BY <1>6
  <2>1. Len(job[w].todo) = 1
    BY <1>4
  <2> QED  BY <1>3, <1>5, <2>1
<1>8. Duty(w)'
  <2>1. \A v \in Todo(w)' : Belongs(v, Group(w))' <=> Op(w)' # "group_leave"
    BY <1>2, <1>3, <1>6 DEF Relists, Listing
  <2>2. Op(w)' \notin {"group_send", "group_ai", "ai"}
    BY <1>3, <1>6 DEF ChangeOps
  <2> QED  BY <1>4, <2>1, <2>2 DEF Duty, Stored, Rewrites, Relists, At, Listing
<1>9. AgreesBut(w)'
  <2>1. \A v \in Users, h \in Groups : Agrees(v, h)' \/ Owes(w, v, h)'
    <3> SUFFICES ASSUME NEW v \in Users \ {u}, NEW h \in Groups, ~Agrees(v, h)'
                 PROVE  Owes(w, v, h)'
      OBVIOUS
    <3>1. ~Agrees(v, h)
      BY <1>6 DEF Agrees
    <3>2. Owes(w, v, h)
      BY <1>2, <3>1 DEF AgreesBut
    <3>3. Group(w) = h /\ v \in Todo(w)
      BY <3>2 DEF Owes, RewritesMeta, RewritesList, At
    <3>4. h = g /\ v \in Todo(w)'
      BY <1>3, <1>6, <3>3
    <3> QED  BY <1>4, <1>6, <1>7, <3>4 DEF Owes, Listing
  <2>2. \A v \in Users : lists'[v] # Torn
    BY <1>2 DEF AgreesBut, RewritesList
  <2>3. \A h : ~RewritesMeta(w, h)
    BY DEF RewritesMeta, At
  <2> QED  BY <1>2, <2>1, <2>2, <2>3 DEF AgreesBut
<1> QED  BY <1>2, <1>4, <1>8, <1>9, OneStep

LEMMA ListReadAgrees ==
    ASSUME IInv, TInv, SInv, ~disturbed, NEW w \in Workers,
           NEW g \in Groups, Group(w) = g, AddUserGroup(w) \/ RemoveUserGroup(w)
    PROVE  SInv'
<1>1. ShapeInv /\ GroupsInv /\ job[w].pc = "lists"
  BY DEF IInv, TInv, AddUserGroup, RemoveUserGroup, At
<1>2. Alone(w) /\ AgreesBut(w) /\ Relists(w)
  BY <1>1, OneRequest DEF Duty, At
<1>3. UNCHANGED <<files, meta, dir, lists, removed, used>>
  BY DEF AddUserGroup, RemoveUserGroup, store, hist, bound
<1>4. PICK u \in Users : u = Head(job[w].todo) /\ u \in Todo(w)
  BY <1>1, ChangeFacts DEF Changing, Listing
<1>5. Belongs(u, g) <=> Op(w) # "group_leave"
  BY <1>1, <1>2, <1>4 DEF Relists, Listing
<1>6. lists[u] # Torn
  BY <1>1, <1>2 DEF AgreesBut, RewritesList, At
<1>7. \A h \in Groups : h # g => Agrees(u, h)
  BY <1>1, <1>2 DEF AgreesBut, Owes, RewritesMeta, RewritesList, At
<1>8. \A v, h : Agrees(v, h)' <=> Agrees(v, h)
  BY <1>3 DEF Agrees, Belongs, GroupsOf
<1>9. \/ /\ job' = [job EXCEPT ![w] = NextMember(w)]
         /\ Agrees(u, g)
      \/ \E l : /\ job' = [job EXCEPT ![w].pc = "listopen", ![w].list = l]
               /\ \A h \in Groups : h \in l <=> Belongs(u, h)
  <2>1. CASE AddUserGroup(w)
    <3>1. Belongs(u, g)
      BY <1>5, <2>1 DEF AddUserGroup
    <3>2. CASE g \in GroupsOf(u)
      BY <1>4, <2>1, <3>1, <3>2 DEF AddUserGroup, Agrees
    <3>3. CASE g \notin GroupsOf(u)
      <4>1. job' = [job EXCEPT ![w] = [@ EXCEPT !.pc = "listopen", !.list = GroupsOf(u) \cup {g}]]
        BY <1>4, <2>1, <3>3 DEF AddUserGroup
      <4>2. job' = [job EXCEPT ![w].pc = "listopen", ![w].list = GroupsOf(u) \cup {g}]
        BY <4>1
      <4>3. \A h \in Groups : h \in GroupsOf(u) \cup {g} <=> Belongs(u, h)
        BY <1>7, <3>1 DEF Agrees
      <4> QED  BY <4>2, <4>3, Zenon
    <3> QED  BY <3>2, <3>3
  <2>2. CASE RemoveUserGroup(w)
    <3>1. ~Belongs(u, g)
      BY <1>5, <2>2 DEF RemoveUserGroup
    <3>2. CASE lists[u] = Absent
      BY <1>4, <2>2, <3>1, <3>2 DEF RemoveUserGroup, Agrees, GroupsOf
    <3>3. CASE lists[u] # Absent
      <4>1. job' = [job EXCEPT ![w] = [@ EXCEPT !.pc = "listopen", !.list = lists[u] \ {g}]]
        BY <1>4, <1>6, <2>2, <3>3 DEF RemoveUserGroup
      <4>2. job' = [job EXCEPT ![w].pc = "listopen", ![w].list = lists[u] \ {g}]
        BY <4>1
      <4>3. GroupsOf(u) = lists[u]
        BY <1>6, <3>3 DEF GroupsOf
      <4>4. \A h \in Groups : h \in lists[u] \ {g} <=> Belongs(u, h)
        BY <1>7, <3>1, <4>3 DEF Agrees
      <4> QED  BY <4>2, <4>4, Zenon
    <3> QED  BY <3>2, <3>3
  <2> QED  BY <2>1, <2>2
<1>10. CASE job' = [job EXCEPT ![w] = NextMember(w)] /\ Agrees(u, g)
  <2>1. \A h \in Groups : Agrees(u, h)'
    BY <1>7, <1>8, <1>10
  <2> QED  BY <1>1, <1>3, <1>4, <1>6, <1>10, <2>1, NextMemberAgrees
<1>11. ASSUME NEW l, job' = [job EXCEPT ![w].pc = "listopen", ![w].list = l],
              \A h \in Groups : h \in l <=> Belongs(u, h)
       PROVE  SInv'
  <2>1. /\ \A v \in Workers \ {w} : job'[v] = job[v]
        /\ job'[w].req = job[w].req /\ job'[w].todo = job[w].todo
        /\ job'[w].pc = "listopen" /\ job'[w].list = l
    BY <1>1, <1>11 DEF ShapeInv, Fields
  <2>2. /\ Group(w)' = g /\ Op(w)' = Op(w) /\ Todo(w)' = Todo(w)
        /\ \A v, h : Belongs(v, h)' <=> Belongs(v, h)
    BY <1>3, <2>1 DEF Group, Op, Todo, Belongs
  <2>3. Duty(w)'
    <3>1. \A h \in Groups : h \in job'[w].list <=> Belongs(Head(job[w].todo), h)'
      BY <1>4, <1>11, <2>1, <2>2
    <3>2. \A v \in Todo(w)' : Belongs(v, Group(w))' <=> Op(w)' # "group_leave"
      BY <1>1, <1>2, <2>2 DEF Relists, Listing
    <3> QED  BY <2>1, <3>1, <3>2 DEF Duty, Stored, Rewrites, Relists, At, Listing
  <2>4. AgreesBut(w)'
    <3>1. \A v, h : Owes(w, v, h) => Owes(w, v, h)'
      BY <1>1, <2>1, <2>2 DEF Owes, RewritesMeta, RewritesList, At, Listing
    <3>2. /\ \A h : ~RewritesMeta(w, h)
          /\ \A v : ~RewritesList(w, v)
      BY <1>1 DEF RewritesMeta, RewritesList, At
    <3> QED  BY <1>2, <1>3, <1>8, <3>1, <3>2 DEF AgreesBut
  <2> QED  BY <1>2, <2>1, <2>3, <2>4, OneStep
<1> QED  BY <1>9, <1>10, <1>11

LEMMA ListOpenAgrees ==
    ASSUME IInv, TInv, SInv, ~disturbed, NEW w \in Workers,
           NEW g \in Groups, Group(w) = g, ListOpen(w)
    PROVE  SInv'
<1>1. ShapeInv /\ GroupsInv /\ job[w].pc = "listopen"
  BY DEF IInv, TInv, ListOpen, At
<1>2. Alone(w) /\ AgreesBut(w) /\ Relists(w)
  BY <1>1, OneRequest DEF Duty, At
<1>3. PICK u \in Users : u = Head(job[w].todo) /\ u \in Todo(w)
  BY <1>1, ChangeFacts DEF Changing, Listing
<1>4. /\ UNCHANGED <<files, meta, dir, removed, used>>
      /\ job' = [job EXCEPT ![w].pc = "listwrite"]
      /\ lists' = [lists EXCEPT ![u] = Torn]
  BY <1>3 DEF ListOpen, Goto, hist, bound
<1>5. /\ \A v \in Workers \ {w} : job'[v] = job[v]
      /\ job'[w].req = job[w].req /\ job'[w].todo = job[w].todo
      /\ job'[w].pc = "listwrite" /\ job'[w].list = job[w].list
  BY <1>1, <1>4 DEF ShapeInv, Fields
<1>6. \A v \in Users : lists'[v] = IF v = u THEN Torn ELSE lists[v]
  BY <1>1, <1>4 DEF GroupsInv
<1>7. /\ Group(w)' = g /\ Op(w)' = Op(w) /\ Todo(w)' = Todo(w)
      /\ \A v, h : Belongs(v, h)' <=> Belongs(v, h)
      /\ \A v \in Users \ {u} : GroupsOf(v)' = GroupsOf(v)
      /\ \A v : RewritesList(w, v)' <=> v = u
  BY <1>3, <1>4, <1>5, <1>6 DEF Group, Op, Todo, Belongs, GroupsOf, RewritesList, At
<1>8. Duty(w)'
  <2>1. \A h \in Groups : h \in job'[w].list <=> Belongs(Head(job[w].todo), h)'
    BY <1>1, <1>2, <1>5, <1>7 DEF Relists
  <2>2. \A v \in Todo(w)' : Belongs(v, Group(w))' <=> Op(w)' # "group_leave"
    BY <1>1, <1>2, <1>7 DEF Relists, Listing
  <2>3. lists'[Head(job'[w].todo)] = Torn
    BY <1>3, <1>5, <1>6
  <2> QED  BY <1>5, <2>1, <2>2, <2>3 DEF Duty, Stored, Rewrites, Relists, At, Listing
<1>9. AgreesBut(w)'
  <2>1. \A v \in Users, h \in Groups : Agrees(v, h)' \/ Owes(w, v, h)'
    <3> SUFFICES ASSUME NEW v \in Users, NEW h \in Groups, v # u  PROVE Agrees(v, h)' \/ Owes(w, v, h)'
      BY <1>7 DEF Owes
    <3>1. Agrees(v, h) => Agrees(v, h)'
      BY <1>7 DEF Agrees
    <3>2. Owes(w, v, h) => Owes(w, v, h)'
      BY <1>1, <1>5, <1>7 DEF Owes, RewritesMeta, RewritesList, At, Listing
    <3> QED  BY <1>2, <3>1, <3>2 DEF AgreesBut
  <2>2. \A v \in Users : lists'[v] = Torn => RewritesList(w, v)'
    BY <1>1, <1>2, <1>6, <1>7 DEF AgreesBut, RewritesList, At
  <2>3. \A h : ~RewritesMeta(w, h)
    BY <1>1 DEF RewritesMeta, At
  <2> QED  BY <1>2, <1>4, <2>1, <2>2, <2>3 DEF AgreesBut
<1> QED  BY <1>2, <1>5, <1>8, <1>9, OneStep

LEMMA ListWriteAgrees ==
    ASSUME IInv, TInv, SInv, ~disturbed, NEW w \in Workers,
           NEW g \in Groups, Group(w) = g, ListWrite(w)
    PROVE  SInv'
<1>1. ShapeInv /\ GroupsInv /\ job[w].pc = "listwrite"
  BY DEF IInv, TInv, ListWrite, At
<1>2. AgreesBut(w) /\ Relists(w)
  BY <1>1, OneRequest DEF Duty, At
<1>3. PICK u \in Users : u = Head(job[w].todo)
  BY <1>1, ChangeFacts DEF Changing, Listing
<1>4. lists[u] = Torn
  BY <1>1, <1>2, <1>3 DEF Relists, At
<1>5. /\ UNCHANGED <<files, meta, dir, removed, used>>
      /\ job' = [job EXCEPT ![w] = NextMember(w)]
      /\ lists' = [lists EXCEPT ![u] = job[w].list]
  BY <1>3, <1>4 DEF ListWrite, hist, bound
<1>6. job[w].list \in SUBSET Groups
  BY <1>1 DEF TInv, JobsInv, GoodJob
<1>7. \A v \in Users : lists'[v] = IF v = u THEN job[w].list ELSE lists[v]
  BY <1>1, <1>5 DEF GroupsInv
<1>8. lists'[u] \notin {Absent, Torn}
  BY <1>6, <1>7, ChatdAssumption
<1>9. \A h \in Groups : Agrees(u, h)'
  <2>1. GroupsOf(u)' = job[w].list
    BY <1>7, <1>8 DEF GroupsOf
  <2>2. \A h \in Groups : h \in job[w].list <=> Belongs(u, h)
    BY <1>1, <1>2, <1>3 DEF Relists
  <2> QED  BY <1>5, <2>1, <2>2 DEF Agrees, Belongs
<1> QED  BY <1>1, <1>3, <1>5, <1>7, <1>8, <1>9, NextMemberAgrees

(* A client that gives up changes nothing of this.                         *)
LEMMA GiveUpAgrees ==
    ASSUME IInv, SInv, ~disturbed, NEW w \in Workers, GiveUp(w)
    PROVE  SInv'
<1>1. \A v \in Workers :
         /\ job'[v].pc = job[v].pc /\ job'[v].req = job[v].req
         /\ job'[v].todo = job[v].todo /\ job'[v].grp = job[v].grp
         /\ job'[v].list = job[v].list /\ job'[v].linked = job[v].linked
         /\ job'[v].ok = job[v].ok
  <2>1. job' = [job EXCEPT ![w].waiting = FALSE]
    BY DEF GiveUp
  <2> QED  BY <2>1 DEF IInv, ShapeInv, Fields
<1>2. UNCHANGED <<files, meta, dir, lists, removed, used>>
  BY DEF GiveUp, store, hist
<1>3. /\ \A v \in Workers : \A g : RewritesMeta(v, g)' <=> RewritesMeta(v, g)
      /\ \A v \in Workers : \A u : RewritesList(v, u)' <=> RewritesList(v, u)
      /\ \A v \in Workers : \A u, g : Owes(v, u, g)' <=> Owes(v, u, g)
      /\ \A u, g : Agrees(u, g)' <=> Agrees(u, g)
  BY <1>1, <1>2 DEF RewritesMeta, RewritesList, Owes, Agrees, Belongs, GroupsOf, At, Group, Todo
<1>4. StoreAgrees'
  BY <1>2, <1>3 DEF SInv, StoreAgrees
<1>5. ASSUME NEW v \in Workers  PROVE Duty(v)'
  <2>1. Duty(v)
    BY DEF SInv
  <2>2. /\ Group(v)' = Group(v) /\ Op(v)' = Op(v) /\ Todo(v)' = Todo(v)
        /\ \A u : GroupsOf(u)' = GroupsOf(u)
        /\ \A u, g : Belongs(u, g)' <=> Belongs(u, g)
    BY <1>1, <1>2 DEF Group, Op, Todo, GroupsOf, Belongs
  <2>3. Stored(v)'
    BY <1>1, <1>2, <2>1, <2>2 DEF Duty, Stored, At
  <2>4. Rewrites(v)'
    BY <1>1, <1>2, <2>1, <2>2 DEF Duty, Rewrites, At
  <2>5. Relists(v)'
    BY <1>1, <1>2, <2>1, <2>2 DEF Duty, Relists, At, Listing
  <2> QED  BY <2>3, <2>4, <2>5 DEF Duty
<1> QED  BY <1>1, <1>4, <1>5 DEF SInv, At

(* A request that arrives while none runs.                                 *)
LEMMA ArrivalAgrees ==
    ASSUME IInv, TInv, SInv, ~disturbed', NEW w \in Workers, NEW u \in Users,
           ServeSend(w, u) \/ ServePoll(w, u) \/ ServeGroupCreate(w, u) \/ ServeGroup(w, u)
    PROVE  SInv'
<1>1. /\ ShapeInv /\ DOMAIN Idle = Fields
      /\ Idle.grp = Absent /\ Idle.todo = <<>>
  BY IdleFields DEF IInv, Idle
<1>2. ASSUME NEW r, NEW first, Serve(w, r, first), DOMAIN first = Fields,
             first.pc \notin {"metawrite"} \cup Listing,
             job'[w].pc = first.pc /\ job'[w].req = r /\ job'[w].todo = first.todo
               /\ job'[w].grp = first.grp => Duty(w)'
      PROVE  SInv'
  <2>1. /\ ~disturbed /\ Alone(w) /\ job[w].pc = "idle"
        /\ UNCHANGED <<files, meta, dir, lists, removed>> /\ used \subseteq used'
        /\ job' = [job EXCEPT ![w] = [first EXCEPT !.req = r, !.waiting = TRUE]]
    BY <1>2 DEF Serve, Alone, At, store, hist
  <2>2. AgreesBut(w)
    BY <2>1, OneRequest
  <2>3. /\ \A v \in Workers \ {w} : job'[v] = job[v]
        /\ job'[w].pc = first.pc /\ job'[w].req = r /\ job'[w].todo = first.todo
        /\ job'[w].grp = first.grp
    BY <1>1, <1>2, <2>1 DEF ShapeInv, Fields
  <2> QED  BY <1>2, <2>1, <2>2, <2>3, CalmStep DEF Listing
<1>3. ASSUME NEW r, NEW p \in {"create", "readdir", "mygroups", "load"},
             NEW first \in {[Idle EXCEPT !.pc = p], [Idle EXCEPT !.pc = p, !.dirs = {u}]},
             Serve(w, r, first), p = "create" => r.op = "send"
      PROVE  SInv'
  <2>1. DOMAIN first = Fields /\ first.pc = p
    BY <1>1 DEF Fields
  <2>2. ASSUME job'[w].pc = p, job'[w].req = r  PROVE Duty(w)'
    BY <1>3, <2>2, CalmDuty DEF Changing, Listing, Op
  <2> QED  BY <1>2, <1>3, <2>1, <2>2 DEF Listing
<1>4. CASE ServeSend(w, u)
  <2>1. PICK r \in CmdSend(u) : Serve(w, r, [Idle EXCEPT !.pc = "create"])
    BY <1>4 DEF ServeSend
  <2>2. r.op = "send"
    BY DEF CmdSend, Request
  <2> QED  BY <1>3, <2>1, <2>2
<1>5. CASE ServePoll(w, u)
  BY <1>3, <1>5 DEF ServePoll
<1>6. CASE ServeGroup(w, u)
  BY <1>3, <1>6 DEF ServeGroup
<1>7. CASE ServeGroupCreate(w, u)
  <2>1. PICK r \in CmdGroupCreate(u) :
            LET members == <<u>> \o r.members
            IN  Serve(w, r, [Idle EXCEPT !.pc = "meta", !.todo = members,
                                         !.grp = [owner |-> u, members |-> members]])
    BY <1>7 DEF ServeGroupCreate
  <2>2. PICK g \in Groups \ used : r.dir = g /\ r.op = "group_create"
    BY DEF CmdGroupCreate, Request
  <2> DEFINE ms == <<u>> \o r.members
             first == [Idle EXCEPT !.pc = "meta", !.todo = ms,
                                   !.grp = [owner |-> u, members |-> ms]]
  <2>3. Serve(w, r, first)
    BY <2>1
  <2> HIDE DEF ms
  <2>4. /\ DOMAIN first = Fields /\ first.pc = "meta" /\ first.todo = ms
        /\ first.grp.members = ms
    BY <1>1 DEF Fields
  <2> HIDE DEF first
  <2>5. ASSUME job'[w].pc = "meta", job'[w].req = r, job'[w].todo = ms, job'[w].grp.members = ms
        PROVE  Duty(w)'
    <3>1. ~disturbed /\ Alone(w) /\ job[w].pc = "idle" /\ used' = used \cup ({r.msg} \cap Msgs) \cup {g}
          /\ UNCHANGED <<meta, lists, removed>>
      BY <2>2, <2>3 DEF Serve, Alone, At, store, hist
    <3>2. AgreesBut(w)
      BY <3>1, OneRequest
    <3>3. g \notin removed /\ meta[g] = Absent
      BY <2>2, <3>2 DEF AgreesBut
    <3>4. \A v \in Users : g \notin GroupsOf(v)
      <4>1. \A v \in Users : Agrees(v, g)
        BY <3>1, <3>2 DEF AgreesBut, Owes, RewritesMeta, RewritesList, At, Listing
      <4> QED  BY <3>3, <4>1, ChatdAssumption DEF Agrees, Belongs
    <3>5. /\ Group(w)' = g /\ Op(w)' = "group_create" /\ Todo(w)' = Elements(ms)
          /\ \A v : GroupsOf(v)' = GroupsOf(v)
      BY <2>2, <2>5, <3>1 DEF Group, Op, Todo, GroupsOf
    <3>6. Rewrites(w)'
      BY <2>5, <3>1, <3>3, <3>4, <3>5 DEF Rewrites, At
    <3> QED  BY <2>5, <3>6 DEF Duty, Stored, Relists, At, Listing
  <2> QED  BY <1>2, <2>3, <2>4, <2>5 DEF Listing
<1> QED  BY <1>4, <1>5, <1>6, <1>7

LEMMA SInit == Init => SInv
<1> SUFFICES ASSUME Init  PROVE SInv
  OBVIOUS
<1>1. \A w \in Workers : At(w, "idle")
  BY DEF Init, Idle, At
<1>2. \A w \in Workers : Duty(w)
  BY <1>1 DEF Duty, Stored, Rewrites, Relists, At, Listing
<1>3. \A g \in Existing : Everybody(g) \in Metas /\ Everybody(g).members = FirstMembers[g]
  <2> SUFFICES ASSUME NEW g \in Existing
               PROVE  Everybody(g) \in Metas /\ Everybody(g).members = FirstMembers[g]
    OBVIOUS
  <2>1. FirstMembers[g] \in Seq(Users) /\ FirstMembers[g] # <<>>
    BY ChatdAssumption
  <2>2. FirstMembers[g][1] \in Users
    BY <2>1, EmptySeq, LenProperties, ElementOfSeq
  <2> QED  BY <2>1, <2>2 DEF Everybody, Metas
<1>4. ASSUME NEW u \in Users, NEW g \in Groups  PROVE Agrees(u, g)
  <2>1. GroupsOf(u) = Joined(u)
    <3>1. Joined(u) \in SUBSET Groups
      BY ChatdAssumption DEF Joined
    <3> QED  BY <3>1, ChatdAssumption DEF Init, GroupsOf
  <2>2. meta[g] = IF g \in Existing THEN Everybody(g) ELSE Absent
    BY DEF Init
  <2> QED  BY <1>3, <2>1, <2>2, ChatdAssumption DEF Agrees, Belongs, Joined
<1>5. /\ \A g \in Groups : meta[g] # Torn
      /\ \A u \in Users : lists[u] # Torn
  <2>1. \A u \in Users : Joined(u) \in SUBSET Groups
    BY ChatdAssumption DEF Joined
  <2> QED  BY <1>3, <2>1, ChatdAssumption DEF Init
<1>6. \A g \in Groups : meta[g] # Absent => g \in used
  BY DEF Init
<1>7. files = {} /\ removed = {}
  BY DEF Init
<1> QED  BY <1>1, <1>2, <1>4, <1>5, <1>6, <1>7 DEF SInv, StoreAgrees

LEMMA SStep == IInv /\ TInv /\ SInv /\ [Next]_vars => SInv'
<1> SUFFICES ASSUME IInv, TInv, SInv, [Next]_vars, ~disturbed'  PROVE SInv'
  BY DEF SInv
<1>1. CASE UNCHANGED vars
  BY <1>1 DEF vars, store, hist, bound, SInv, StoreAgrees, Duty, Stored, Rewrites, Relists,
     Agrees, Belongs, GroupsOf, RewritesMeta, RewritesList, Owes, At, Op, Group, Todo
<1>2. CASE \E w \in Workers, u \in Users :
              ServeSend(w, u) \/ ServePoll(w, u) \/ ServeGroupCreate(w, u) \/ ServeGroup(w, u)
  BY <1>2, ArrivalAgrees
<1>3. CASE Restart
  BY <1>3 DEF Restart
<1>4. ASSUME NEW w \in Workers, GiveUp(w)  PROVE SInv'
  BY <1>4, GiveUpAgrees DEF GiveUp
<1>5. ASSUME NEW w \in Workers, Step(w)  PROVE SInv'
  <2>1. ~WriteFails(w)
    BY DEF WriteFails
  <2>2. ~disturbed
    BY <1>5, <2>1 DEF Step, Reply, Create, Write, AntStores, AntFails, AiAnswers, AiFails,
       MyGroups, ReadDir, ReadFile, RemoveFile, PollDone, LoadFails, LoadToSend, LoadToPoll,
       LoadToInvite, LoadToLeave, Load, RemoveGroup, MetaOpen, MetaWrite, AddUserGroup,
       RemoveUserGroup, ListOpen, ListWrite, bound
  <2>3. CASE job[w].pc \in Changing
    <3>1. Group(w) \in Groups
      BY <2>3, ChangeFacts
    <3>2. \/ RemoveGroup(w) \/ MetaOpen(w) \/ MetaWrite(w) \/ AddUserGroup(w)
          \/ RemoveUserGroup(w) \/ ListOpen(w) \/ ListWrite(w)
      BY <1>5, <2>1, <2>3 DEF Step, Reply, Create, Write, AntStores, AntFails, AiAnswers,
         AiFails, MyGroups, ReadDir, ReadFile, RemoveFile, PollDone, LoadFails, LoadToSend,
         LoadToPoll, LoadToInvite, LoadToLeave, Load, At, Changing, Listing
    <3> QED  BY <2>2, <3>1, <3>2, RemoveGroupAgrees, MetaOpenAgrees, MetaWriteAgrees,
                ListReadAgrees, ListOpenAgrees, ListWriteAgrees
  <2>4. CASE job[w].pc \notin Changing
    <3>1. ~(\/ RemoveGroup(w) \/ MetaOpen(w) \/ MetaWrite(w) \/ AddUserGroup(w)
            \/ RemoveUserGroup(w) \/ ListOpen(w) \/ ListWrite(w))
      BY <2>4 DEF RemoveGroup, MetaOpen, MetaWrite, AddUserGroup, RemoveUserGroup, ListOpen,
         ListWrite, At, Changing, Listing
    <3> QED  BY <1>5, <2>1, <2>2, <3>1, SendsAgree, PollsAgree, LoadsAgree DEF Step
  <2> QED  BY <2>3, <2>4
<1> QED  BY <1>1, <1>2, <1>3, <1>4, <1>5 DEF Next

(* As long as requests come one after the other, the lists of users and    *)
(* the members of groups say the same but for what the running request is  *)
(* still to write.                                                         *)
THEOREM SerialInvariance == Spec => []SInv
  BY SInit, SStep, Invariance, GroupsInvariance, PTL DEF Spec

(* Once such a request is over they say the same, a removed group is gone, *)
(* and a group message is kept only in a group that can be polled.         *)
THEOREM SerialRequestsAgree == Spec => []SerialConsistent
<1>1. SInv => SerialConsistent
  <2> SUFFICES ASSUME SInv, AtRest, ~disturbed
               PROVE  /\ ListsAgree
                      /\ \A g \in removed : meta[g] = Absent /\ g \notin dir
                      /\ \A f \in files : f[1] \in Groups => meta[f[1]] \in Metas
    BY DEF SerialConsistent
  <2>1. StoreAgrees
    BY DEF SInv
  <2>2. \A w \in Workers : job[w].pc = "idle"
    BY DEF AtRest, At
  <2>3. /\ \A w \in Workers : \A g : ~RewritesMeta(w, g)
        /\ \A w \in Workers : \A u, g : ~Owes(w, u, g)
    BY <2>2 DEF RewritesMeta, RewritesList, Owes, At, Listing
  <2>4. ListsAgree
    BY <2>1, <2>3 DEF StoreAgrees, ListsAgree, Agrees, Belongs
  <2> QED  BY <2>1, <2>3, <2>4 DEF StoreAgrees
<1> QED  BY <1>1, SerialInvariance, PTL
===============================================================================
