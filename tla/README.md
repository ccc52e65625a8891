# Verification of the zknode client stack

TLA+ models, TLC runs and TLAPS proofs of the programs in this repository. The
repository packages a node: a Katzenpost mixnet client (daemon and thin client
library), a chat service plugin, a TCP proxy over the mixnet, storage provers,
a wallet proxy, a dashboard and the scripts that operate them. Paths are
relative to the repository; `pigeonhole.go` is
`katzenpost/client/pigeonhole.go`, `thin.go` is `katzenpost/client/thin/thin.go`.
The older thin client in `walletshield-fix/thin` is called the channel client.

Run everything from this directory: `tlc -config X.cfg M`, `tlapm M_proofs.tla`.
`PROJECT.json` maps every definition to the lines it models.

## 1. Inventory

| Component | State | Operations | What is hard |
|---|---|---|---|
| **Client daemon: ARQ** (`pigeonhole.go` 1107-2204) | `arqSurbIDMap`, `arqEnvelopeHashMap` (under `replyLock`), the timer queue, `ARQMessage.State/SURBID` | StartResending\*, CancelResending\*, replies on SURBs, copy command polling, timers, disconnect clean-up | three threads interleave inside operations cut by `replyLock`; SURB rotation; lost, late and duplicate replies; cancel races |
| **Client daemon: envelopes** (`pigeonhole.go` 30-1104) | none between requests (the copy stream's buffer travels with the caller) | encryptRead/Write, chunking, courier envelopes from payloads and tombstone ranges, box indices, PKI queries | boundary sizes; continuing a stream from a returned buffer |
| **Thin client: session** (`thin.go` 620-1243) | `conn`, `isConnected`, `daemonInstanceToken`, `inFlightResends`, `pkidoc`, `pkiDocCache` | Dial, read, dispatch, disconnect, redial, handshake, replay, PKI document look-up | daemon restarts and half-done handshakes; the application writes meanwhile; a document between two locks |
| **Thin client: events** (`thin.go` 805-1356, 1469-1575, 1802-1896, 582-618) | `eventSink`, the drains, HaltCh | dispatch, EventSink, StopEventSink, eventSinkWorker, blocking calls, Close | bounded channels, rendezvous, shutdown while something blocks |
| **chatd** (`katzenpost/cmd/chatd/main.go`) | files: mailboxes, groups, member lists | send, poll, group create/send/poll/invite/leave/list | a goroutine per request and an unused mutex; read-modify-write on files; delete before delivery |
| **zkchat** (`katzenpost/cmd/zkchat/main.go`) | identity and key files | one request per command | a reply that comes too late, or not at all |
| **mixnet-proxy** (`cmd/mixnet-proxy/main.go`) | circuits, byte counter, proof chain, cached service | handle a connection, refresh the service, serve the proof | counters and chain updated and read separately |
| **zkclientd** (`cmd/zkclientd/main.go`) | none | start-up | - |
| **Storage provers** (`cmd/storage-proved`, `cmd/storage-proved-rs`) | Merkle tree built at start | build, challenge, prove, verify | levels with an odd number of nodes, array layout |
| **Channel client** (`walletshield-fix/thin`) | `eventSink`, the drains, `sentWaitChanMap`, `replyWaitChanMap`, HaltCh | Dial, ten channel methods, four ways to send a message, SendChannelQuery, Close | three channels of capacity 0 to 2 between worker, fan-out and calls; late replies; shutdown while something blocks |
| **WalletShield** (`walletshield-fix/main.go`) | the channel client in use | handler with retries, event handler, reconnect | concurrent reconnects |
| **Dashboard server** (`zknode-dashboard/server`) | MCP session, pending calls, invites, rate limits | HTTP endpoints, MCP calls, reconnect | overlapping reconnects |
| **Watchdog** (`scripts/zknode-watchdog.sh`) | a file of last interventions | one cycle: back-off, throttle, restart | cooldowns across cycles |
| **Deployment scripts, configuration, docs** | - | - | behaviour is that of docker, systemd, files |

How they interact. Applications (zkchat, mixnet-proxy, WalletShield) link the
thin client, which talks over a socket to the daemon. The daemon keeps the ARQ
for each application, by AppID, and talks to couriers through the mixnet.
chatd runs beside a mixnet service node and answers requests that arrive
through the mixnet. The dashboard and the watchdog watch containers from
outside.

What makes each correct:

- **ARQ**: an operation is retransmitted until it is over, its two map entries
  and its SURB ID agree, it is never revived once it is over, its owner is told
  how it ended, once, and only when it no longer runs.
- **Session**: the client always gets back to reading; it knows which daemon
  instance it talks to; a restarted daemon is told of every request in flight.
- **Documents**: a recent document is found under its own epoch.
- **Events**: no subscriber misses an event, no call misses its reply, Close
  returns, and an unsubscription does too.
- **chatd**: a message it says it has stored is there until a poll takes it, and a
  poll prints it once; a group that can be read has an owner among its members;
  requests that do not overlap leave lists and members that agree.
- **Channel client**: a call gets its own reply or none, and comes back; Close comes
  back; nothing is sent on a closed channel.
- **Provers** (not modelled): what the builder and the prover produce verifies, for
  every number of chunks.

## 2. Plan

Done in this order: `ResendOperation` and `PigeonholeARQ` (the daemon's core),
then its proofs, then `PKIDocCache` and `ThinSession`, `EventSink`, and their
proofs; then `Chatd` with its client, `ChannelClient`, and theirs; last the proofs
about outcomes, the two maps and the refinement (`ARQOutcomes_proofs`), and about
what chatd delivers and how it keeps its groups, crossing or one request after the
other (`ChatdDelivery_proofs`, `ChatdGroups_proofs`).

What would come next, most important first:

1. The reconnection of WalletShield on top of `ChannelClient`.
2. The provers' tree as recursive functions against a reference tree: section 6
   says what to expect, and `IntervalInduction` (section 5) how to prove about it.
3. The dashboard's MCP session and the proxy's counters.

## 3. The modules

### PigeonholeARQ: the daemon's stop-and-wait ARQ

Three threads of the daemon are modelled, each by the steps its use of
`replyLock` cuts it into:

- the request worker (`req`): `Start`/`StartPush` and `StartFails` for
  StartResendingEncryptedMessage and StartResendingCopyCommand (`arqSend`),
  `Cancel`/`CancelReply` for both cancels;
- the reply worker (`rep`): `ReplyArrives` classifies a reply on a tracked SURB
  (envelope replies, payload replies, copy command statuses), then either
  composes a new packet outside the lock (`ReplyCompose`), re-checks under the
  lock and rotates the SURB ID (`ReplyRotate`, `ReplyPoll`) and schedules
  (`ReplySchedule`), or ends the operation (`ReplyTerminate`) and answers
  (`ReplyFinish`);
- the timer queue: `TimerResends`, `TimerStale`.

`Disconnect` and `Cleanup` end a client. Variables carry the source's names
(`arqSurbIDMap`, `arqEnvelopeHashMap`, `surbID`, `state`, `arqTimerQueue`);
`replies`, `cancelAcked` and `dropped` record what clients were told.

The daemon's `arqDoResend`, `rescheduleARQAfterComposeFailure`,
`rotateARQSurbIDLocked`, `computeARQStateTransition`, the listener and
`cleanupForAppID` are not in this repository; they are modelled from how
`pigeonhole.go` uses them and marked external. Where that use leaves a question
open (does the resend path set `State` back?), a constant
(`ResendResetsState`) covers both answers. A reply's contents are reduced to what
the code branches on (`Bodies`). SURB IDs are random and unique in the code; the
model draws any ID nothing refers to, so that few IDs serve any number of
retries. A failure of `rand.Reader` is left out.

`ResendOperation` is what this promises for one query: begun at most once,
pending until something ends it, never pending again, answered only then, at
most once by the courier's answer and once by a cancellation.

### ThinSession and PKIDocCache: the thin client's connection

`pc` is where the worker goroutine is: it reads (`ReadStatusEvent`,
`ReadDocEvent`, `ReadReply`) until `ReadFails`, puts a DaemonDisconnectedEvent
in eventSink (`Notify`), and redials: `DialSucceeds`, then one action for each
message of the handshake, `HandshakeFails` from any of them, and `Replay` if the
instance token changed (`NeedsReplay`). Application goroutines store and write
requests at any time (`StartResending`, `WriteRequest`, `CallerGetsReply`) and
set the connection flag late (`CallerSetsConnected`, `CallerReturns`). The
StartResending\* methods themselves are outside the repository; `thin.go` only
shows what they store.

`Break` drops the connection, `Restart` replaces the daemon by a new instance
that knows nothing; instances are numbered. The daemon reads what is in `pipe`
and holds it until it answers. `lost` records requests written on, or replayed
to, a connection that dropped while the daemon kept running: the code replays
only to a new instance, and the comment on `inFlightResends` promises no more.

`PKIDocCache` is `parsePKIDoc`, with its two critical sections as two steps, and
`PKIDocumentForEpoch`. A document is its epoch. `EpochsAssumption` says that
epochs are at least `MaxCachedEpochs`: below that the code's unsigned
subtraction wraps. ("Keep last 5 epochs" keeps six, `doc.Epoch - 5` included;
the properties use what the code does.)

### EventSink: events and blocking calls

The reader dispatches into `eventSink`, `eventSinkWorker` copies to every drain,
and each caller goes through subscribe, write, wait, unsubscribe. An event is its
position in what the daemon sent; as eventSink is first in first out, its
contents are the positions between `taken` and `pushed`. The channels
`drainAdd` and `drainRemove` are unbuffered: `WorkerAdds` and `WorkerRemoves`
are rendezvous, possible only while the worker is at its select. `Receive` and
`GiveUp` cover GetPKIDocumentRaw, GetDirectoryAuthorities and
BlockingSendMessage, which differ in which events end the wait. Reconnection is
left to ThinSession: here the connection only ends after Close.

### Chatd: the chat service and its command line client

chatd starts a goroutine for each request and takes no lock, so a `Worker` is a
goroutine and each access to a file is a step of its own. `files` are the
messages (a mailbox is a user's or a group's directory), `meta` the groups'
meta.json, `lists` the users' groups.json. os.WriteFile is two steps, because it
truncates first: between them, and for ever if chatd stops or the write fails
there, the file is `Torn`; two writers at once can also leave a text that does not
parse. `os.RemoveAll` takes a group away under whoever is writing in it.

A handler is the path of `job[w].pc`: handleSend and handleGroupSend go
`create`, `write`, perhaps `ant`, `reply`; a poll goes `readdir`, then `read` and
`remove` for each message; handlers of a group begin with `load`
(loadGroupMeta and the permission check); create, invite and leave write `meta`
and then each member's list (`lists`, `listopen`, `listwrite`). A group message
for the AI model is answered by a goroutine that lives on after the reply (`ai`).

zkchat is the `Cmd...` operators: the requests each command can send. A user runs
one command at a time and may give up on it (`GiveUp`, which is also the reply
that is lost), while the goroutine goes on. zkchat itself never sends a group
message for the AI model, other clients may (`AskGroupAI`). `WriteFails` and
`Restart` are the other faults.

### ChannelClient: the thin client of WalletShield

`worker` reads the daemon's events in any order. An event about a reliable message
somebody waits for goes over an unbuffered channel to the call (`ReadToCall`, then
`HandSent` or `HandReply`), all others into `eventSink`; the event the worker is
blocked with when the channel is full stands behind it in the same sequence.
`sinkWorker` copies each event to every drain and forgets a drain that has no room
for 100 ms (`DropUnresponsive`: time is not modelled, so whenever it has none). A
call subscribes (`AddDrain`) or registers its two channels, writes, waits, and in
every case undoes the first (`RemoveDrain`, `Unregister`), on its own or because
its context is done (`TimesOut`) or the client halts (`SeesHalt`).

The ten channel methods have one shape (`Subscribe`): their loops differ in the
type of the reply, and in nothing else the properties can tell apart. The query,
whose answer is a message's reply, is kept apart, because
BlockingSendMessage meets it with a panic. An event without a call, or to a
message nobody waits for, is a call that returns at once and whose event is due.
`isConnected` is left out: nothing modelled depends on it.

## 4. The runs

| Run | Question | Properties |
|---|---|---|
| `arq_read_copy` | a read and a copy command of one client in every interleaving with cancels, replies, polls, compose failures, timers, disconnect | TypeOK, MapsAgree, NeverStalls, NoOutcomeLost, CancelStops, NeverUncancelled |
| `arq_same_hash` | one write started twice, hence with one hash: what still holds | AnsweredIsOver, ImplementsOperation |
| `arq_live_read` | is a read answered in the end? | EventuallyAnswered |
| `arq_dedup` (violated) | does the hash deduplicate copy commands? | OneOperationPerHash |
| `arq_cancel_race` (violated) | can a cancelled query also complete? | CancelledNotCompleted |
| `thin_session` | requests in flight over breaks and restarts at any point of the reconnect | TypeOK, TokenIsCurrent, InFlightKnown, Reconnects |
| `thin_status` (violated) | is the connection flag the daemon's last word? | StatusIsCurrent |
| `pki_docs` | documents in any order | RecentEpochsFound |
| `event_fan_out` | two calls, events, Close | TypeOK, NoSilentLoss, ReplyNotMissed, CloseReturns |
| `event_stop` (violated) | does StopEventSink return? | StopReleases |
| `chatd` | two users' commands in two goroutines, with a restart, a failing write or a client that gives up | TypeOK, OwnerIsMember, NoMessageLost, TakenIsDelivered, PrintedOnce, SerialConsistent |
| `channel_client` | two calls of any method against worker, fan-out, time-outs and Close | TypeOK, OwnReply, ReplyNotMissed, BlockedByGiveUp, PanicOnlyMixed, NoSendOnClosed, CallsReturn, CloseReturns |

Bounds and why they are enough:

- ARQ: two operations are what a map collision, a cancel of the other's hash and
  a rotation against it need; four SURB IDs let each have one in use, one drawn
  and a stale one; at most `MaxInFlight` = 2 replies are on their way at once,
  which gives late and duplicate ones. Retries are not bounded: IDs are reused.
  SURB IDs are interchangeable (symmetry set) in the safety runs; the liveness
  run uses no symmetry.
- ThinSession: two requests, three breaks or restarts: a session ends, an attempt
  fails half-way at another instance, and a third break hits the replay or the
  session that follows. One epoch, because `pki_docs` explores the documents by
  themselves. `MaxStatus` bounds the status events a call has not looked at.
- PKIDocCache: seven epochs for a cache meant for two, in every order and with
  repetitions.
- EventSink: two callers and four events with room for one in eventSink fill a
  drain, the delivery, eventSink and the reader's hand all at once.
- Chatd: two users, an existing group with both of them and one to be created, two
  messages and two goroutines are what any conflict over a file needs.
  `MaxRequests` = 3 gives two requests that overlap and one that sees the result;
  `MaxFaults` = 1 puts one fault at any step. Goroutines and messages are
  interchangeable (symmetry set).
- ChannelClient: two calls, or a call and an event of another origin, are what a late
  reply, a full drain and a blocked worker need; eventSink has room for one event
  (two in the code), so that two fill it. No symmetry, because the run checks
  liveness.

`CHECK_DEADLOCK FALSE`: in the ARQ runs every operation may be over and every
client gone; in the thin clients' runs the bound on calls, events or breaks may be
used up and all calls have returned; in `chatd` all requests may be served. `pki_docs` checks deadlock.

### Fairness

- `DaemonRuns`: the daemon's goroutines run; each of their steps that needs no
  luck is weakly fair (composition strongly, because it competes with its own
  failure). `NetworkRecovers`: replies in flight arrive, and a message that is
  resent for ever gets through and gets a final reply at some time. Nothing obliges
  a client, a cancel or a disconnect.
- ThinSession `Worker`: the worker goroutine runs. This includes `Notify` (someone
  empties eventSink) and `DialSucceeds` (the daemon accepts connections again: the
  redial loop tries for ever). Handshake steps are only fair while the
  connection is up.
- EventSink `CloseFairness`: the reader and the worker run, and the daemon closes
  the connection after ThinClose. That last point is needed: Close waits for the
  reader before it closes the connection itself, and a blocked read only ends with
  the connection. `FairSpec`, for the violated run, adds fairness of every
  select branch and of the callers, so that the counterexample is a real deadlock.

- ChannelClient: the worker and eventSinkWorker run, both notice HaltCh, Close goes
  on, and each context is done at some time (WalletShield gives every request a
  time-out). The daemon owes nothing, not even an answer: CallsReturn and CloseReturns
  hold against a silent one.

### What the violated runs show

- `arq_dedup`: startResendingCopyCommand keys an operation by the WriteCap hash
  "as envelope hash for dedup", but nothing looks the hash up: two copy commands
  with one WriteCap run side by side and overwrite each other's hash entry.
- `arq_cancel_race`: CancelReply and a terminal reply are decided under the lock
  and sent after it: a query can be told it was cancelled and then how it ended.
- `thin_status`: a blocking call that handles an old status event after the reader
  has stored a newer one, and then returns, leaves `isConnected` wrong until the
  next event.
- `event_stop`: StopEventSink waits for eventSinkWorker, which may be delivering
  to the very drain that is given up. Both wait for ever, and all other subscribers
  with them.

Beyond these, and not runs of their own: with two operations under one hash a
cancel reaches only the last one (CancelStops and MapsAgree hold only under
`DistinctHashes`); a cancel from another connection is answered on the
canceller's connection, so the owner is not told; EventSink and StopEventSink
called after Close wait for ever, because they do not watch HaltCh.

`chatd` passes because its properties say what concurrency leaves standing. What
it does not leave standing, although `Chatd.mu` exists and is never taken: two
invitations at once lose one; a list that is read while it is being written counts
as empty, and what is written back then forgets the other groups; hence "group
poll" of all groups can miss one whose member the user is. SerialConsistent
claims these only while requests come one after the other. The first member to
poll a group takes its messages from all others, and a reply that is lost takes
them from everybody (TakenIsDelivered excepts faults).

`channel_client` likewise: a call whose context is done while the worker holds its
event leaves the worker blocked, and with it the client deaf, until Close
(BlockedByGiveUp says that this is the only way); a call whose drain was dropped
waits for its context; a call that subscribes or unsubscribes while Close runs
waits for ever, since EventSink and StopEventSink do not watch HaltCh here either
(CallsReturn therefore speaks of a client that lives); BlockingSendMessage panics ("impossible event type") if
anybody uses the channel API of the same client.

## 5. The proofs

TLAPS proves, for every value of the constants that satisfies the modules'
assumptions:

- `PigeonholeARQ_proofs`: TypeOK, NeverStalls, AnsweredIsOver, NeverUncancelled,
  whether or not operations share a hash. The induction needs `IInv`: the SURB
  map is the inverse of `SURBID` on tracked messages and SURB IDs are not shared
  (`SurbInv`: otherwise one operation's rotation could untrack another); the ID
  drawn for a rotation is unused until the rotation and the old one unused after
  it (`HeldInv`: the reply worker holds both across an unlock); what a worker is
  about to answer has left the maps (`AnswerInv`). `RotateFacts` states what
  `rotateARQSurbIDLocked` does to all of this and is cited by the three actions
  that rotate. NeverUncancelled then follows step by step: only `Start` registers
  a message, and every rotation re-checks that it is still tracked.
- `ThinClient_proofs`: RecentEpochsFound for the cache alone and inside the session,
  TypeOK, TokenIsCurrent and InFlightKnown. `SessionInv` says why the replay is right:
  while the client reconnects, `previousToken` is the instance of the last session,
  not of the last attempt, so if that instance still runs it knows all that is
  expected (`ReplayInv`), and if it does not the tokens differ and everything is
  replayed. Comparing with the last attempt's token instead is the mutant that
  TLC refutes.
- `EventSink_proofs`: TypeOK, NoSilentLoss, ReplyNotMissed for any number of
  callers and any capacity. `GapFree` is NoSilentLoss event by event, which is what
  each delivery and receipt preserves; ReplyNotMissed needs it to place the reply
  that is being received.

- `ChannelClient_proofs`: TypeOK, OwnReply, ReplyNotMissed, BlockedByGiveUp,
  PanicOnlyMixed and NoSendOnClosed, for any number of calls and any capacity of
  eventSink. `OriginInv` says that an event, wherever it is, belongs to a call that
  has begun; `MapsInv` and `HandInv` tie the two maps and the event in the worker's
  hand to the step of its call; `SinkInv` ties the drains to the calls that are
  subscribed; `OwedInv` says that what the daemon owes a reliable call is still
  waited for, unless the call gave up. ReplyNotMissed then follows the reply from
  place to place.
- `Chatd_proofs`: NoMessageLost, for any number of users, groups, messages and
  goroutines and any number of failures and restarts. `MsgInv` is the reason: no
  two requests are about one message, so no other goroutine truncates its file, and
  `StoredInv` follows it from step to step: written, it is safe until its own request
  moves it to the other store, a poll removes it (`taken`) or its group goes. Handlers that
  touch no message are settled by one lemma (`QuietMove`).
- `ChatdDelivery_proofs`: TakenIsDelivered and PrintedOnce. Two polls may read the same
  file, so that a message is printed once is not local to a request. `OneFile` says
  that a message is in one place for ever, `FreshInv` that a request which has
  not created its file finds no trace of it, `GotInv` that what a poll has read is
  removed, but for the one file it is about to remove. `PrintInv` concludes that what a
  user has seen is neither stored, nor to be stored, nor in the hands of the command
  the same user runs now; `WaitInv` keeps that command apart from a goroutine whose
  client gave up.
- `ChatdGroups_proofs`: OwnerIsMember, TypeOK and SerialConsistent. `JobsInv` says what a goroutine carries
  from one file to the next: the group it is about to write has its owner among
  its members, or is to be removed. `GroupsInv` says the same of every meta.json
  that parses, and that whoever still writes one writes into a directory that exists,
  which a removal elsewhere could have taken away; `FilesInv` that nobody has read or
  is about to hand on a file that is being written. That an invitation and a
  departure keep the owner among the members rests on `Without`, the loop that copies
  a member list: `WithoutFacts` says what it keeps of a list of any length. It is
  proved by induction over an interval (`IntervalInduction`), stated of the set of
  positions reached and derived from the well-foundedness of the natural numbers,
  because the library's own induction theorems take an operator.
  SerialConsistent speaks only of states in which no request runs, so it is far
  from inductive. `SInv` says what holds in between, while nothing has overlapped or
  failed (`~disturbed`). At most one request runs. `StoreAgrees` says that members and
  lists agree but for what that request still owes (`Owes`): the meta.json or
  the list it has truncated, and the entries of the users it still has to go
  through (`todo`). `Duty` is what makes the debt shrink to nothing: the group a message
  goes to is there (`Stored`); the members about to be written are those whose lists
  say so, plus or minus the users still to come (`Rewrites`); and the list in hand is
  what its user belongs to, changed for this group (`Relists`). A request that
  overlaps another or fails sets `disturbed`, and nothing is claimed from then on.
- `ARQOutcomes_proofs`, on the invariant of `PigeonholeARQ_proofs`:
  - NoOutcomeLost, when operations of one hash have one owner (`OneOwnerPerHash`). A
    cancellation finds its operation through the hash and is reported on the
    canceller's connection, so with a hash shared between two clients the owner
    would not be told. `LeadsToOwnHash` is the induction: a hash entry may be stale, but
    never leads to an operation of another hash, and a SURB ID drawn for a rotation
    is no hash's yet.
  - MapsAgree and CancelStops, when no two operations share a hash (`DistinctHashes`).
    The code means the hash to be unique and does not check it, as run `arq_dedup`
    shows; with a shared one both are false. `CancelPending` carries the fact across the
    unlock between a cancellation and its report.
  - ImplementsOperation, whatever hashes are shared: every step of every thread is, for
    each operation, a step of ResendOperation or a stutter. `AnswersInv` is what the mapping
    needs besides `IInv`: while a worker holds a message, nobody has answered it the
    way this worker will.

Only model-checked: everything about liveness (EventuallyAnswered, Reconnects,
CloseReturns, CallsReturn), because fairness and ENABLED are out of the provers'
reach. Every invariant and every other action property of the passing runs is a
theorem, under the conditions named with it above.

## 6. Not modelled

- Cryptography and message formats, the daemon's parts outside this repository
  (listener, timer queue, mixnet), configuration and logging.
- The daemon's envelope requests: they keep nothing between two requests, and
  what they return is ciphertext made by a library outside the repository. Of
  zkchat: identity files, sealing, the mesh bridge.
- WalletShield's own handler, the dashboard server and mixnet-proxy: their hazards
  are in `PROJECT.json`, each at its line, without a property. For WalletShield, two
  reconnects in a row close a client that requests still use: CloseReturns says that
  the reconnect gets past this, but such a request can be caught in EventSink or
  StopEventSink, as said above.
- The storage provers build a tree once and read it, without concurrency. Reading
  them while preparing the model gives, by hand: the Go builder
  (`cmd/storage-proved/main.go` 122) stops with an index error for two chunks or
  more, because the last parent would read place 3n-2 of an array of 2n-1; the Rust
  builder (`cmd/storage-proved-rs/src/prover.rs` 99) advances by the padded level
  size without having padded the array, so that with three chunks the root is made
  of the second inner node alone and no path leads to it. With a power of two of
  chunks no level is padded.
- Shell scripts and static pages: their behaviour is that of the tools they call.
