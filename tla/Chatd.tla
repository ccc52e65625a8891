------------------------------- MODULE Chatd --------------------------------
(***************************************************************************)
(* The chat service plugin (katzenpost/cmd/chatd/main.go) and its command  *)
(* line client (katzenpost/cmd/zkchat/main.go).                            *)
(*                                                                         *)
(* chatd serves every request in a goroutine of its own and keeps all its  *)
(* state in files: a mailbox and a list of groups per user, a mailbox and  *)
(* a meta.json per group.  No lock is taken (Chatd.mu is unused), so each  *)
(* access to a file is a step.  os.WriteFile is two: it truncates the file *)
(* and then writes it; in between, and after a crash for ever, a reader    *)
(* finds the file "torn".  A worker is a goroutine; a client runs one      *)
(* zkchat command at a time, waits for its reply and gives up after a      *)
(* while, which the goroutine does not notice.                             *)
(***************************************************************************)
EXTENDS Naturals, Sequences, FiniteSets

CONSTANTS
    Users, Groups, Msgs,
    Workers,            \* goroutines that can be busy at one time
    Existing,           \* groups found in the store at start, with
    FirstMembers,       \* [Existing -> Seq(Users)]: their members
    MaxRequests,        \* bound on the commands run
    MaxFaults,         \* bound on restarts, failing writes, clients giving up
    Absent, Torn,       \* of a file: it does not exist, it is truncated
    NoMsg

Metas == [owner : Users, members : Seq(Users)]
Dirs  == Users \cup Groups
Files == Dirs \X Msgs

ASSUME ChatdAssumption ==
    /\ Existing \subseteq Groups /\ Users \cap Groups = {} /\ NoMsg \notin Msgs
    /\ FirstMembers \in [Existing -> Seq(Users) \ {<<>>}]
    /\ MaxRequests \in Nat /\ MaxFaults \in Nat
    /\ Absent # Torn /\ \A x \in {Absent, Torn} : x \notin Metas
    /\ \A S \in SUBSET Groups : S \notin {Absent, Torn}

VARIABLES
    files,      \* SUBSET Files: the .msg files
    torn,       \* SUBSET files: those not (yet) wholly written
    meta,       \* [Groups -> Metas \cup {Absent, Torn}]: meta.json
    dir,        \* SUBSET Groups: the group directories
    lists,      \* [Users -> (SUBSET Groups) \cup {Absent, Torn}]: groups.json
    useAnt,     \* Chatd.useAnt, found out when chatd starts
    job,        \* [Workers -> Jobs]: the goroutines
    acked,      \* files chatd answered to have stored
    taken,      \* files a poll removed
    removed,    \* groups whose last member left
    printed,    \* [Users -> [Msgs -> Nat]]: how often a poll printed it
    used,       \* groups and messages created so far
    disturbed,  \* requests overlapped, a write failed or chatd stopped
    requests, faults

store == <<files, torn, meta, dir, lists>>
hist  == <<acked, taken, removed, printed>>
bound == <<useAnt, used, disturbed, requests, faults>>
vars  == <<store, hist, bound, job>>

Elements(s) == {s[i] : i \in DOMAIN s}

(* The members of s that are not in S, in their order.                     *)
Without(s, S) ==
    LET kept[i \in 0..Len(s)] ==
            IF i = 0 THEN <<>>
            ELSE IF s[i] \in S THEN kept[i - 1] ELSE Append(kept[i - 1], s[i])
    IN  kept[Len(s)]

-----------------------------------------------------------------------------
(* zkchat: the requests each command can make.  Identities, sealing with   *)
(* --e2e and what is printed are data; with --via the message goes to the  *)
(* mesh bridge, which is no request to chatd.                              *)

Request(op, u, d, m, ms) ==
    [op |-> op, u |-> u, dir |-> d, msg |-> m, members |-> ms]

OneMember == {<<v>> : v \in Users}
Known     == Groups \cap used

CmdSend(u)     == {Request("send", u, v, m, <<>>) : v \in Users, m \in Msgs \ used}
CmdPoll(u)     == {Request("poll", u, u, NoMsg, <<>>)}
CmdGroupCreate(u) ==
    {Request("group_create", u, g, NoMsg, ms) : g \in Groups \ used, ms \in OneMember}
CmdGroupSend(u) ==
    {Request("group_send", u, g, m, <<>>) : g \in Known, m \in Msgs \ used}
CmdGroupPoll(u) ==
    {Request("group_poll", u, g, NoMsg, <<>>) : g \in Known}
        \cup {Request("group_poll_all", u, u, NoMsg, <<>>)}
CmdGroupInvite(u) ==
    {Request("group_invite", u, g, NoMsg, ms) : g \in Known, ms \in OneMember}
CmdGroupLeave(u)  == {Request("group_leave", u, g, NoMsg, <<>>) : g \in Known}

(* A group message for the AI model: zkchat never sends one, other clients *)
(* of chatd may.                                                           *)
AskGroupAI(u)  == {Request("group_ai", u, g, m, <<>>) : g \in Known, m \in Msgs \ used}

-----------------------------------------------------------------------------
Idle == [pc |-> "idle", req |-> Request("none", NoMsg, NoMsg, NoMsg, <<>>),
         waiting |-> FALSE, ok |-> TRUE, addr |-> FALSE, linked |-> TRUE,
         grp |-> Absent, list |-> {}, todo |-> <<>>,
         dirs |-> {}, entries |-> {}, got |-> {}]

Everybody(g) == [owner |-> FirstMembers[g][1], members |-> FirstMembers[g]]
Joined(u)    == {g \in Existing : u \in Elements(FirstMembers[g])}

Init ==
    /\ files = {} /\ torn = {} /\ dir = Existing
    /\ meta = [g \in Groups |-> IF g \in Existing THEN Everybody(g) ELSE Absent]
    /\ lists = [u \in Users |-> IF Joined(u) = {} THEN Absent ELSE Joined(u)]
    /\ useAnt \in BOOLEAN
    /\ job = [w \in Workers |-> Idle]
    /\ acked = {} /\ taken = {} /\ removed = {}
    /\ printed = [u \in Users |-> [m \in Msgs |-> 0]]
    /\ used = Existing /\ disturbed = FALSE /\ requests = 0 /\ faults = 0

At(w, p)   == job[w].pc = p
Op(w)      == job[w].req.op
User(w)    == job[w].req.u
Group(w)   == job[w].req.dir
Message(w) == <<job[w].req.dir, job[w].req.msg>>
Goto(w, p) == job' = [job EXCEPT ![w].pc = p]
Fail(w)    == job' = [job EXCEPT ![w].pc = "reply", ![w].ok = FALSE]

(* OnCommand, process: a request gets a goroutine of its own, which begins *)
(* with the first file its handler accesses.  A user runs one command at a *)
(* time.                                                                   *)
Serve(w, r, first) ==
    /\ At(w, "idle") /\ requests < MaxRequests
    /\ ~\E v \in Workers : job[v].waiting /\ User(v) = r.u
    /\ job' = [job EXCEPT ![w] = [first EXCEPT !.req = r, !.waiting = TRUE]]
    /\ used' = used \cup ({r.msg} \cap Msgs)
                    \cup (IF r.op = "group_create" THEN {r.dir} ELSE {})
    /\ requests' = requests + 1
    /\ disturbed' = (disturbed \/ \E v \in Workers : ~At(v, "idle"))
    /\ UNCHANGED <<store, hist, useAnt, faults>>

ServeSend(w, u) ==
    \E r \in CmdSend(u) : Serve(w, r, [Idle EXCEPT !.pc = "create"])
ServePoll(w, u) ==
    \E r \in CmdPoll(u) : Serve(w, r, [Idle EXCEPT !.pc = "readdir", !.dirs = {u}])
ServeGroupCreate(w, u) ==
    \E r \in CmdGroupCreate(u) :
        LET members == <<u>> \o r.members
        IN  Serve(w, r, [Idle EXCEPT !.pc = "meta", !.todo = members,
                                     !.grp = [owner |-> u, members |-> members]])
ServeGroup(w, u) ==
    \E r \in CmdGroupSend(u) \cup AskGroupAI(u) \cup CmdGroupPoll(u)
                \cup CmdGroupInvite(u) \cup CmdGroupLeave(u) :
        Serve(w, r, [Idle EXCEPT !.pc = IF r.op = "group_poll_all"
                                        THEN "mygroups" ELSE "load"])

(* The reply reaches the client, if it still waits, and a poll prints what *)
(* it got.  With an AI model the goroutine of a group message goes on.     *)
Acknowledges(w) ==
    /\ job[w].ok
    /\ \/ Op(w) = "send" /\ ~job[w].addr
       \/ Op(w) \in {"group_send", "group_ai"}

Reply(w) ==
    /\ At(w, "reply")
    /\ acked' = IF Acknowledges(w) THEN acked \cup {Message(w)} ELSE acked
    /\ printed' = IF job[w].waiting
                  THEN [printed EXCEPT ![User(w)] =
                          [m \in Msgs |-> @[m] + Cardinality({f \in job[w].got : f[2] = m})]]
                  ELSE printed
    /\ job' = [job EXCEPT ![w] =
                 IF Op(w) = "group_ai" /\ job[w].ok /\ ~job[w].addr
                 THEN [@ EXCEPT !.pc = "ai", !.waiting = FALSE] ELSE Idle]
    /\ UNCHANGED <<store, bound, taken, removed>>

(* The client's context expires, or the reply is lost on its way.          *)
GiveUp(w) ==
    /\ job[w].waiting /\ faults < MaxFaults
    /\ job' = [job EXCEPT ![w].waiting = FALSE]
    /\ faults' = faults + 1
    /\ UNCHANGED <<store, hist, useAnt, used, disturbed, requests>>

-----------------------------------------------------------------------------
(* handleSend, handleGroupSend: the message file is created, then written. *)

Create(w) ==
    /\ At(w, "create")
    /\ files' = files \cup {Message(w)} /\ torn' = torn \cup {Message(w)}
    /\ dir' = dir \cup ({Group(w)} \cap Groups)
    /\ Goto(w, "write")
    /\ UNCHANGED <<meta, lists, hist, bound>>

(* A file whose directory was removed meanwhile is written, and gone.      *)
Write(w) ==
    /\ At(w, "write")
    /\ torn' = torn \ {Message(w)}
    /\ IF Op(w) = "ai" THEN job' = [job EXCEPT ![w] = Idle]
       ELSE Goto(w, IF useAnt THEN "ant" ELSE "reply")
    /\ UNCHANGED <<files, meta, dir, lists, hist, bound>>

(* storeAnt: a direct message stored there leaves the mailbox, and its     *)
(* sender gets the address; a failure is only logged.                      *)
AntStores(w) ==
    /\ At(w, "ant")
    /\ files' = IF Op(w) = "send" THEN files \ {Message(w)} ELSE files
    /\ job' = [job EXCEPT ![w].pc = "reply", ![w].addr = TRUE]
    /\ UNCHANGED <<torn, meta, dir, lists, hist, bound>>

(* Mutant of AntFails: the mailbox file is removed all the same. *)
AntFailsAndForgets(w) ==
    /\ At(w, "ant")
    /\ files' = IF Op(w) = "send" THEN files \ {Message(w)} ELSE files
    /\ Goto(w, "reply")
    /\ UNCHANGED <<torn, meta, dir, lists, hist, bound>>

AntFails(w) ==
    /\ At(w, "ant")
    /\ Goto(w, "reply")
    /\ UNCHANGED <<store, hist, bound>>

(* processGroupAI: the model's answer becomes a message of the group, if   *)
(* the group's directory is still there.                                   *)
AiAnswers(w) ==
    /\ At(w, "ai") /\ Group(w) \in dir
    /\ \E m \in Msgs \ used :
         /\ files' = files \cup {<<Group(w), m>>} /\ torn' = torn \cup {<<Group(w), m>>}
         /\ job' = [job EXCEPT ![w].pc = "write",
                               ![w].req = [@ EXCEPT !.op = "ai", !.msg = m]]
         /\ used' = used \cup {m}
    /\ UNCHANGED <<meta, dir, lists, hist, useAnt, disturbed, requests, faults>>

AiFails(w) ==
    /\ At(w, "ai")
    /\ job' = [job EXCEPT ![w] = Idle]
    /\ UNCHANGED <<store, hist, bound>>

-----------------------------------------------------------------------------
(* handlePoll, handleGroupPoll: read a directory, then read and remove its *)
(* messages one by one, skipping those that cannot be read.                *)

(* getUserGroups: a list that cannot be read is taken for empty.           *)
GroupsOf(u) == IF lists[u] \in {Absent, Torn} THEN {} ELSE lists[u]

MyGroups(w) ==
    /\ At(w, "mygroups")
    /\ job' = [job EXCEPT ![w].pc = "readdir", ![w].dirs = GroupsOf(User(w))]
    /\ UNCHANGED <<store, hist, bound>>

(* Mutant of ReadDir: each directory starts a new reply. *)
ReadDirAfresh(w) ==
    /\ At(w, "readdir")
    /\ \E d \in job[w].dirs :
         job' = [job EXCEPT ![w].pc = "read", ![w].dirs = @ \ {d}, ![w].got = {},
                            ![w].entries = {f \in files : f[1] = d}]
    /\ UNCHANGED <<store, hist, bound>>

ReadDir(w) ==
    /\ At(w, "readdir")
    /\ \E d \in job[w].dirs :
         job' = [job EXCEPT ![w].pc = "read", ![w].dirs = @ \ {d},
                            ![w].entries = {f \in files : f[1] = d}]
    /\ UNCHANGED <<store, hist, bound>>

ReadFile(w) ==
    /\ At(w, "read")
    /\ \E f \in job[w].entries :
         job' = IF f \in files \ torn
                THEN [job EXCEPT ![w].pc = "remove", ![w].got = @ \cup {f}]
                ELSE [job EXCEPT ![w].entries = @ \ {f}]
    /\ UNCHANGED <<store, hist, bound>>

(* Mutant of RemoveFile: a poll removes nothing. *)
KeepFile(w) ==
    /\ At(w, "remove")
    /\ \E f \in job[w].entries \cap job[w].got :
         job' = [job EXCEPT ![w].pc = "read", ![w].entries = @ \ {f}]
    /\ UNCHANGED <<store, hist, bound>>

RemoveFile(w) ==
    /\ At(w, "remove")
    /\ \E f \in job[w].entries \cap job[w].got :
         /\ files' = files \ {f}
         /\ taken' = taken \cup {f}
         /\ job' = [job EXCEPT ![w].pc = "read", ![w].entries = @ \ {f}]
    /\ UNCHANGED <<torn, meta, dir, lists, acked, removed, printed, bound>>

PollDone(w) ==
    /\ \/ At(w, "read") /\ job[w].entries = {} /\ Goto(w, "readdir")
       \/ At(w, "readdir") /\ job[w].dirs = {} /\ Goto(w, "reply")
    /\ UNCHANGED <<store, hist, bound>>

-----------------------------------------------------------------------------
(* loadGroupMeta and the check each handler of a group makes next.         *)

IsMember(g, u) == u \in Elements(meta[g].members)

Allowed(w) ==
    /\ meta[Group(w)] \notin {Absent, Torn}
    /\ Op(w) \in {"group_send", "group_ai", "group_poll"} => IsMember(Group(w), User(w))
    /\ Op(w) = "group_invite" => meta[Group(w)].owner = User(w)

Load(w, op) ==
    /\ At(w, "load") /\ Op(w) \in op /\ Allowed(w)
    /\ UNCHANGED <<store, hist, bound>>

LoadFails(w) ==
    /\ At(w, "load") /\ ~Allowed(w)
    /\ Fail(w)
    /\ UNCHANGED <<store, hist, bound>>

LoadToSend(w) ==
    /\ Load(w, {"group_send", "group_ai"})
    /\ Goto(w, "create")

LoadToPoll(w) ==
    /\ Load(w, {"group_poll"})
    /\ job' = [job EXCEPT ![w].pc = "readdir", ![w].dirs = {Group(w)}]

(* handleGroupInvite                                                       *)
LoadToInvite(w) ==
    LET g == meta[Group(w)]
        r == job[w].req
    IN  /\ Load(w, {"group_invite"})
        /\ job' = [job EXCEPT ![w].pc = "meta", ![w].todo = r.members,
                     ![w].grp = [g EXCEPT !.members = @ \o Without(r.members, Elements(@))]]

(* Mutant of LoadToLeave: the group is not handed over. *)
LeaveKeepingOwner(w) ==
    LET g    == meta[Group(w)]
        left == Without(g.members, {User(w)})
    IN  /\ Load(w, {"group_leave"})
        /\ job' = [job EXCEPT ![w].todo = <<User(w)>>,
                     ![w].pc  = IF left = <<>> THEN "rmdir" ELSE "meta",
                     ![w].grp = IF left = <<>> THEN Absent
                                ELSE [owner |-> g.owner, members |-> left]]

(* handleGroupLeave: an owner who leaves hands over to the first member    *)
(* left; without members the group is removed.                             *)
LoadToLeave(w) ==
    LET g    == meta[Group(w)]
        left == Without(g.members, {User(w)})
    IN  /\ Load(w, {"group_leave"})
        /\ job' = [job EXCEPT ![w].todo = <<User(w)>>,
                     ![w].pc  = IF left = <<>> THEN "rmdir" ELSE "meta",
                     ![w].grp = IF left = <<>> THEN Absent
                                ELSE [owner |-> IF g.owner = User(w) THEN left[1] ELSE g.owner,
                                      members |-> left]]

(* Mutant of RemoveGroup: the group goes, its messages stay. *)
RemoveMetaOnly(w) ==
    LET g == Group(w)
    IN  /\ At(w, "rmdir")
        /\ meta' = [meta EXCEPT ![g] = Absent]
        /\ dir' = dir \ {g} /\ removed' = removed \cup {g}
        /\ job' = [v \in Workers |->
                     IF v = w THEN [job[w] EXCEPT !.pc = "lists"]
                     ELSE [job[v] EXCEPT !.linked = @ /\ ~(At(v, "metawrite") /\ Group(v) = g)]]
        /\ UNCHANGED <<files, torn, lists, acked, taken, printed, bound>>

(* os.RemoveAll.  Whoever has opened meta.json writes to a file without    *)
(* a name.                                                                 *)
RemoveGroup(w) ==
    LET g == Group(w)
    IN  /\ At(w, "rmdir")
        /\ files' = {f \in files : f[1] # g} /\ torn' = {f \in torn : f[1] # g}
        /\ meta' = [meta EXCEPT ![g] = Absent]
        /\ dir' = dir \ {g}
        /\ removed' = removed \cup {g}
        /\ job' = [v \in Workers |->
                     IF v = w THEN [job[w] EXCEPT !.pc = "lists"]
                     ELSE IF At(v, "metawrite") /\ Group(v) = g
                     THEN [job[v] EXCEPT !.linked = FALSE] ELSE job[v]]
        /\ UNCHANGED <<lists, acked, taken, printed, bound>>

(* writeGroupMeta.  Without truncation in between, a shorter text leaves   *)
(* the end of a longer one behind it, which does not parse.                *)
MetaOpen(w) ==
    /\ At(w, "meta")
    /\ dir' = dir \cup {Group(w)}
    /\ meta' = [meta EXCEPT ![Group(w)] = Torn]
    /\ job' = [job EXCEPT ![w].pc = "metawrite", ![w].linked = TRUE]
    /\ UNCHANGED <<files, torn, lists, hist, bound>>

MetaWrite(w) ==
    /\ At(w, "metawrite")
    /\ meta' = IF ~job[w].linked THEN meta
               ELSE [meta EXCEPT ![Group(w)] =
                       IF @ # Torn /\ Len(@.members) > Len(job[w].grp.members)
                       THEN Torn ELSE job[w].grp]
    /\ job' = [job EXCEPT ![w].pc = "lists", ![w].grp = Absent, ![w].linked = TRUE]
    /\ UNCHANGED <<files, torn, dir, lists, hist, bound>>

-----------------------------------------------------------------------------
(* addUserGroup, for every member created or invited, and removeUserGroup, *)
(* for the one who leaves: read the list, change it, write it back.        *)

NextMember(w) == [job[w] EXCEPT !.todo = Tail(@),
                           !.pc = IF Len(job[w].todo) = 1 THEN "reply" ELSE "lists",
                           !.list = {}]

AddUserGroup(w) ==
    LET u == Head(job[w].todo)
    IN  /\ At(w, "lists") /\ Op(w) # "group_leave"
        /\ job' = [job EXCEPT ![w] =
                     IF Group(w) \in GroupsOf(u) THEN NextMember(w)
                     ELSE [@ EXCEPT !.pc = "listopen", !.list = GroupsOf(u) \cup {Group(w)}]]
        /\ UNCHANGED <<store, hist, bound>>

(* Mutant of RemoveUserGroup: the list of who leaves keeps the group. *)
ForgetUserGroup(w) ==
    /\ At(w, "lists") /\ Op(w) = "group_leave"
    /\ job' = [job EXCEPT ![w] = NextMember(w)]
    /\ UNCHANGED <<store, hist, bound>>

RemoveUserGroup(w) ==
    LET u == Head(job[w].todo)
    IN  /\ At(w, "lists") /\ Op(w) = "group_leave"
        /\ job' = [job EXCEPT ![w] =
                     IF lists[u] \in {Absent, Torn} THEN NextMember(w)
                     ELSE [@ EXCEPT !.pc = "listopen", !.list = lists[u] \ {Group(w)}]]
        /\ UNCHANGED <<store, hist, bound>>

ListOpen(w) ==
    /\ At(w, "listopen")
    /\ lists' = [lists EXCEPT ![Head(job[w].todo)] = Torn]
    /\ Goto(w, "listwrite")
    /\ UNCHANGED <<files, torn, meta, dir, hist, bound>>

ListWrite(w) ==
    /\ At(w, "listwrite")
    /\ lists' = [lists EXCEPT ![Head(job[w].todo)] =
                   IF @ # Torn /\ Cardinality(@) > Cardinality(job[w].list)
                   THEN Torn ELSE job[w].list]
    /\ job' = [job EXCEPT ![w] = NextMember(w)]
    /\ UNCHANGED <<files, torn, meta, dir, hist, bound>>

-----------------------------------------------------------------------------
(* A write fails, before or after it has truncated the file: the handler   *)
(* replies with the error; for a user's list it is only logged.            *)
WriteFails(w) ==
    /\ faults < MaxFaults
    /\ job[w].pc \in {"create", "write", "meta", "metawrite", "listopen", "listwrite"}
    /\ job' = [job EXCEPT ![w] =
                 IF @.pc \in {"listopen", "listwrite"} THEN NextMember(w)
                 ELSE IF Op(w) = "ai" THEN Idle
                 ELSE [@ EXCEPT !.pc = "reply", !.ok = FALSE]]
    /\ disturbed' = TRUE
    /\ faults' = faults + 1
    /\ UNCHANGED <<store, hist, useAnt, used, requests>>

(* chatd stops at any point and is started again on the same store.        *)
Restart ==
    /\ faults < MaxFaults
    /\ job' = [w \in Workers |-> Idle]
    /\ useAnt' \in BOOLEAN
    /\ disturbed' = TRUE
    /\ faults' = faults + 1
    /\ UNCHANGED <<store, hist, used, requests>>

Step(w) ==
    \/ Reply(w) \/ Create(w) \/ Write(w) \/ WriteFails(w) \/ AntStores(w)
    \/ AntFails(w) \/ AiAnswers(w) \/ AiFails(w) \/ MyGroups(w) \/ ReadDir(w)
    \/ ReadFile(w) \/ RemoveFile(w) \/ PollDone(w) \/ LoadFails(w)
    \/ LoadToSend(w) \/ LoadToPoll(w) \/ LoadToInvite(w) \/ LoadToLeave(w)
    \/ RemoveGroup(w) \/ MetaOpen(w) \/ MetaWrite(w) \/ AddUserGroup(w)
    \/ RemoveUserGroup(w) \/ ListOpen(w) \/ ListWrite(w)

Next ==
    \/ \E w \in Workers, u \in Users :
         ServeSend(w, u) \/ ServePoll(w, u) \/ ServeGroupCreate(w, u) \/ ServeGroup(w, u)
    \/ \E w \in Workers : Step(w) \/ GiveUp(w)
    \/ Restart

Spec == Init /\ [][Next]_vars

-----------------------------------------------------------------------------
Steps == {"idle", "create", "write", "ant", "ai", "mygroups", "readdir", "read",
          "remove", "load", "rmdir", "meta", "metawrite", "lists", "listopen",
          "listwrite", "reply"}

(* The types.  A file that is torn exists, and a stored message is in a    *)
(* directory that exists.                                                  *)
TypeOK ==
    /\ files \subseteq Files /\ torn \subseteq files
    /\ dir \subseteq Groups
    /\ \A f \in files : f[1] \in Groups => f[1] \in dir
    /\ meta \in [Groups -> Metas \cup {Absent, Torn}]
    /\ \A g \in Groups : meta[g] # Absent => g \in dir
    /\ lists \in [Users -> (SUBSET Groups) \cup {Absent, Torn}]
    /\ \A w \in Workers :
         /\ job[w].pc \in Steps
         /\ job[w].pc \in {"meta", "metawrite"} => job[w].grp \in Metas
         /\ job[w].pc \in {"lists", "listopen", "listwrite"} => job[w].todo # <<>>
         /\ job[w].entries \subseteq Files /\ job[w].got \subseteq Files

(* Whatever invitations and departures cross, a group that can be read has *)
(* its owner among its members (handleGroupLeave hands the group over).    *)
OwnerIsMember ==
    LET Sound(g) == g \in Metas => g.owner \in Elements(g.members)
    IN  /\ \A g \in Groups : Sound(meta[g])
        /\ \A w \in Workers : Sound(job[w].grp)

(* A message chatd has answered to have stored can still be polled until a *)
(* poll takes it or its group goes: neither a concurrent writer, a failing *)
(* store nor a restart loses it.                                           *)
NoMessageLost ==
    \A f \in acked : f \in files \ torn \/ f \in taken \/ f[1] \in removed

(* As long as nothing fails and no client gives up, what a poll removes is *)
(* printed by the user who polled, or on its way there.                    *)
TakenIsDelivered ==
    faults = 0 => \A f \in taken :
        \/ \E w \in Workers : job[w].waiting /\ f \in job[w].got
        \/ \E u \in Users : printed[u][f[2]] > 0

(* No user sees a message twice, although two polls may read one file: a   *)
(* poll removes what it replies with, and a client that gave up prints     *)
(* nothing.                                                                *)
PrintedOnce == \A u \in Users, m \in Msgs : printed[u][m] <= 1

AtRest == \A w \in Workers : At(w, "idle")

ListsAgree ==
    \A u \in Users, g \in Groups :
        (g \in GroupsOf(u)) <=> (meta[g] \in Metas /\ u \in Elements(meta[g].members))

(* As long as requests come one after the other, the lists of users and    *)
(* the members of groups say the same, a removed group is gone, and a      *)
(* group message is kept only in a group that can be polled.               *)
SerialConsistent ==
    AtRest /\ ~disturbed =>
        /\ ListsAgree
        /\ \A g \in removed : meta[g] = Absent /\ g \notin dir
        /\ \A f \in files : f[1] \in Groups => meta[f[1]] \in Metas
=============================================================================
