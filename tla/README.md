# A TLA+ verification of yyckv

yyckv is a key-value store replicated with Raft. Its core (`src/raft/core`)
is a port of etcd's raft in progress: much of it is there, some of it is
commented out or marked TODO, and both kinds of code decide what the program
does. This directory models the program as it stands, checks it with TLC and
proves theorems about it with TLAPS, among them that a term has one leader.

## The system

One process runs five layers. They talk over unbuffered Go channels, and a
process talks to its peers by HTTP posts of one raft message each.

| part | state | operations | talks to |
|---|---|---|---|
| HTTP API, key-value store (`httpapi.go`, `kv/kvstore.go`, `main.go`) | the map `data` | PUT proposes, GET reads the map, `readCommits` applies | `proposeC` down, `commitC` up |
| application loop (`kv/raftNode.go`) | `appliedIndex`, `confState`, the storage | `serveChannels`: hands proposals to the node, takes a Ready, stores, sends, publishes, Advance | `node.Propose`, `Ready`, `Advance`, `ApplyConfChange`; `transport.Send` |
| event loop (`raft/core/node.go`) | which of its channels are open (`propc`, `readyc`, `advancec`) | one `select`: proposal, message, configuration change, tick, Ready, Advance, stop | calls RawNode and raft |
| raft core (`raft.go`, `rawnode.go`, `log.go`, `log_unstable.go`, `tracker/`, `quorum/`, `confchange/`) | term, vote, role, lead, log, committed, per-peer Progress, votes, outgoing messages | `Step` for each message type and role, `hup`, `tick`, Ready and Advance | none: returns messages through Ready |
| transport (`raft/http`) | per peer: a buffer of 64 messages, four workers | `Send`, `post`, `ServeHTTP` | the peers' `node.Step` |

What is hard about it:

* **Concurrency.** Nodes, pipeline workers and HTTP handlers interleave, and
  within a node the event loop keeps stepping messages and ticks while the
  application holds a Ready. A node's vote for itself and a leader's
  acknowledgement of its own entry are messages to itself that are stepped
  only at Advance, after anything may have happened.
* **Ordering and loss.** Four workers reorder the messages to one peer; a full
  buffer or a failed post drops them.
* **Failure.** Nothing is persisted. A process that restarts has no term, vote
  or log, and its peers do not know.
* **Unfinished code.** A leader never commits, ignores rejected appends, and
  sends no entries to a peer in StateReplicate. What remains must still elect
  safely and keep logs consistent; the properties are about that.

`PROJECT.json` lists every component with its status, and every hazard at the
line where it bites with the properties that cover it.

## The modules

| module | models | proved in |
|---|---|---|
| `VoteQuorum` | majority and joint vote counting, the vote map (`quorum/`, `tracker/tracker.go`) | |
| `RaftLog` | the raftLog operators on a sequence of entries (`log.go`, `log_unstable.go`) | |
| `Progress` | the leader's record of a peer (`tracker/progress.go`) | |
| `Raft` | a cluster of processes: the handlers of `raft.go`, the Ready cycle, bootstrap, restart, and a lossy, reordering net | `RaftCoreProof`, `RaftLogProof`, `RaftChosenProof` |
| `RaftProps` | the type invariant, the properties and the fairness | |
| `MCRaft` | the instances TLC checks | |
| `Election` | what an election promises, abstractly: ballots that may be lost, leaders that a majority has voted for | `ElectionProof` |
| `RaftElection` | the refinement mapping from `Raft` to `Election`, and the invariant it rests on | `RaftCoreProof` |
| `ChosenLog` | what a replicated log promises, abstractly: entries that stay, and a next one | |
| `RaftReplication` | the refinement mapping from `Raft` to `ChosenLog`, and the invariants of a cluster without restarts: logs as links, acknowledgements, choices | `RaftLogProof`, `RaftChosenProof` |
| `ConfChange` | the configuration of a process under any list of changes (`confchange/confchange.go`, `applyConfChange`) | `ConfChangeProof` |
| `MCConfChange` | its instance for TLC | |
| `Log` | what the log and the storage of a process promise, abstractly | |
| `LogStore` | the unstable entries and MemoryStorage in memory, as Go slices that share arrays (`log_unstable.go`, `storage.go`, `log.go`) | `LogStoreProof` |
| `Transport` | the goroutines between two raft cores: application loop, event loop, buffer, pipeline workers, HTTP handlers (`raft/http`, `node.go`, `serveChannels`) | `TransportProof` |
| `Net` | what the raft cores may expect of all that, abstractly: messages that arrive once or are lost with a report | |
| `KVStore` | what the key-value store promises, abstractly: a replica of the log | |
| `KVServer` | the goroutines of one server above its raft core: start, Ready cycle, `publishEntries`, `readCommits`, proposals, clients, shutdown (`kv/`, `httpapi.go`, `main.go`) | `KVServerProof` |
| `MCKVServer` | its instance for TLC | |
| `Codec` | the protobuf encoding: sizes, Marshal and Unmarshal of a message and all it carries (`raftpb/raft.pb.go`) | |
| `Wire` | one message through a post: marshalled, read field by field, passed on or refused; `limitSize` (`pipeline.go`, `ServeHTTP`, `util.go`) | |
| `MCWire` | its instance for TLC | |

The theorems are in modules of their own:

| module | theorems |
|---|---|
| `RaftCoreProof` | `TypeCorrect`, `RaftElects`, `RaftElectsOneLeader`, `RaftCastsOneVote`, `LeadersAreElected`, `ServersFollowOneLeader` |
| `ElectionProof` | `ElectsOneLeader` |
| `RaftLogProof` | `LogsMatch`, `EntriesStay`, `MatchIsSound`, `PeersReachable`, `NoPanics`, `LaterLeadersComplete` |
| `RaftChosenProof` | `RaftKeepsChosen`, `MajorityKeeps`, `LeadersHaveChosen` |
| `ConfChangeProof` | `ConfigStaysOK`, `ChangesDoAsAsked`, `ChangesKeepProgress`, `ChangesKeepQuorums` |
| `KVServerProof` | `ServerStaysOK`, `ServerIsReplica`, `ServerIsCurrent` |
| `LogStoreProof` | `HeldStays`, `LogIsImplemented`, `TermsAreTheLogs`, `StoreStaysOK` |
| `TransportProof` | `TransportStaysOK`, `InOnePlace`, `TransportIsNet` |

`Raft` keeps one record per process in `node`. Its fields are those of
`*raft` under their names (`Term`, `Vote`, `state`, `lead`, `log`,
`committed`, `voters` and `prs` for the tracker, `votes`, `msgs`,
`msgsAfterAppend`), RawNode's `stepsOnAdvance`, raftNode's `appliedIndex`, and
four that stand for control: `phase` says where the process is between Ready
and Advance, `ready` is the commit index the Ready in hand carries, `waiting`
says that the proposal goroutine is inside `node.Propose`, and `panicked` that
a Panicf was reached. `net` is the set of messages on their way, `elected` is
a history of leaders, `campaigns` and `restarts` count against bounds.

The handlers of `raft.go` are operators with the handler's name that take such
a record and return it as the handler leaves it. Each case of `node.run`'s
`select` is an action that applies one of them:

| action | code |
|---|---|
| `ElectionTimeout`, `HeartbeatTimeout` | `<-tickc` with `tickElection`, `tickHeartbeat` |
| `Receive` | `<-recvc`, with the filter on unknown peers, then `raft.Step` |
| `Propose`, `ReceiveProposal` | `<-propc`, of a client or forwarded by a peer |
| `Ready` | `readyc <- rd`, `acceptReady`, `transport.Send` |
| `Publish` | `entriesToApply`, `publishEntries`, `<-confc` |
| `Advance` | `<-advancec`, `RawNode.Advance`: one self-addressed message at a time |
| `Restart` | the end of the process and `startRaft` anew |

`Raft` uses `RaftLog`, `Progress` and `VoteQuorum`. It sees a log as one
sequence, its messages as records in a set that loses and reorders, and a
configuration as it was at bootstrap. `LogStore`, `Wire` and `Transport`, and
`ConfChange` look at what lies behind each of these, and `KVServer` at what
becomes of what it commits.

`LogStore` keeps the arrays behind the slices: `append` writes in place when
there is room and into a new array otherwise, as Go does, with `spare` the room
that the runtime happens to allocate. `appendEntry` and `maybeAppend` are the
event loop's writes, `Ready`, `Store` the application's cycle, and `Send` and
`Marshal` bracket the time in which a message's entries lie in the pipeline.
`Log` is the same without memory, on the operators of `RaftLog`.

`ConfChange` has `Changer.Simple` as an operator with `makeVoter`, `remove`,
`initProgress` and `symdiff` under their names, and the actions of a process
that write the Progress of its peers. Its lists of changes are arbitrary: the
program as it stands only makes those of bootstrap, but `applyConfChange` takes
any, and a server that can be added at run time is what it is for.

`Transport` has a program counter for each goroutine. A send on an unbuffered
channel is one step of both ends, which the event loop can take unless it owes
the application the answer to `ApplyConfChange`. What a message does to a raft
core is one bit here: whether a leader is known afterwards, since that opens and
closes `propc`. `Net` keeps that bit, the messages on their way whoever holds them,
those that may still arrive though their post has failed, and the calls of
ReportUnreachable that are due.

`KVServer` is one process from `startRaft` to its end, with the core below it
reduced to the entries it commits, in any order of kinds: puts, empty entries,
configuration changes and the one that removes the server. `app.pc` is the line
of `startRaft` and `serveChannels`, `store.pc` that of `readCommits`, `main` that
of `main`; `loop` says whether `node.run` is at its select or owes a
configuration state; `closed` is the set of closed channels. The actions are
grouped as the code is:

| actions | code |
|---|---|
| `SnapshotterReady`, `StartRaft`, `ServeKV` | `startRaft`, `main`, `NewKVStore` |
| `TakeReady`, `PublishEntry`, `ApplyConfChange`, `ConfState`, `Publish`, `Advance` | `serveChannels`, `entriesToApply`, `publishEntries`, one round of its loop at a time |
| `ApplyNext`, `ApplyDone`, `CommitsEnd` | `readCommits` |
| `ApplyRaces` | a put into the map while a handler reads it: `Lookup` takes no lock, and the Go runtime may end the process |
| `Request`, `Answer`, `TakePut` | `ServeHTTP` of the key-value API |
| `Accepted`, `ProposeStops`, `ProposerEnds` | the goroutine that proposes, and `node.Propose` |
| `Fails`, `StopHTTP` to `StopNode`, `SendError` | `ErrorC`, `stop`, `writeError`, `stopHTTP` |
| `MainReturns`, `CloseProposeC`, `Exit` | the end of `main` with its deferred calls |

A Ready carries the committed entries from the first, as nothing is ever accepted
as applying, and no more than `maxApplyingEntsSize` holds, which is `MaxReady`
entries here. The batch for `readCommits` is the range `store.at .. store.hi` of
the log. In the program as it stands no leader commits, so the only committed
entries are those of bootstrap; `KVServer` takes what the node's interface
allows. The way down is reached through a removal of the server or an error on
`ErrorC` only. The cases on `stopc` of `serveChannels` and `publishEntries` are
not modelled because they cannot be reached: `ClosedOK` says that `stopc` is
open for as long as these select on it.

`Codec` has what a new message of each type holds, its fields by number and kind
(`Fields`), and its Size and Marshal under their names. `Unmarshal` goes over that
table and is recursive, as messages hold entries, a snapshot and other messages;
it keeps the generated code's checks of lengths, wire types, truncation and
overflow, and `skipRaft` for unknown fields. `Wire` reads a body with one action
for each round of the loop in `Message.Unmarshal`. A peer of a later version may
put a field that this one does not know anywhere between those it does.

### Abstractions

* A tick counter is left out: the timeout it guards may fire at any moment.
  This adds behaviours and removes none.
* A log is a sequence. The code keeps it in `unstable` alone, because
  `acceptUnstable` is never called and `unstable.offset` stays 1 (`StoreOK` of
  `LogStore` shows that no truncation moves it).
* `Advance` steps its messages in separate steps during which the node does
  nothing else; other nodes may move in between, which they cannot observe.
* `msgs` is a set, and `net` too. Two identical messages in flight count as
  one unless `Repeats` is TRUE, when a delivered message may also stay. The
  loss of a message is that it is never delivered.
* A payload is a model value, and a configuration entry one more: only
  bootstrap creates them, all of them add a server that is already a voter.
* Left out: `RecentActive`, `pendingConfIndex`, `uncommittedSize` and
  `leadTransferee` (nothing that runs depends on them), StateSnapshot (never
  entered), learners and joint configurations (never created), the message
  types that nothing sends.

## What the runs check

TLC checks each run completely. The instances have two or three servers, two
of which may time out, and one payload.

| run | instance | shows |
|---|---|---|
| `Election` | 3 servers, 2 campaigns, logs to 4, from three kinds of start (below) | `ElectionSafety`, `LeadersHoldChosen`, `LeaderCompleteness`, `LogMatching`, `MatchSound`, `KeepsEntriesOfTerm`, `KeepsChosen` |
| `Replication` | 2 servers, PreVote and CheckQuorum on, heartbeats, both in a Ready cycle at once | `TypeOK`, `PeersStayReachable`, `NoPanic`, `RefinesElection` |
| `Unreliable` | 2 servers, messages may be stepped again, one crash | `LeadIsElected` |
| `Liveness` | 2 servers, fair event loops | `MessagesGoOut`, `CampaignsEnd` |
| `ConfChange` | 4 servers, lists of 2 changes, logs to 3 | `ConfigOK`, `ChangesAsAsked`, `KeepsAcknowledged`, `QuorumsMeet` |
| `LogStore` | logs to 2, terms to 2, a spare cell | `StoreOK`, `HeldUnchanged`, `TermsAgree`, `RefinesLog` |
| `Transport` | 2 processes, one of them sending, 3 messages, a buffer of 1, a worker | `TransportOK`, `OnePlace`, `AppReturns`, `PostsEnd`, `Drains`, `RefinesNet` |
| `KVServer` | 3 committed entries of any kind, Readys of 2, 2 keys, a client | `KVOK`, `RefinesStore`, `StopEnds`, `CommitsReachStore` |
| `Wire` | numbers of 29 bits at both ends of every length a varint has, every optional field nil, empty and present, up to 2 entries or responses, unknown fields of every wire type | `TypeOK`, `ArrivesWhole`, `ReadsInOrder`, `ReadsOn`, `SizesAgree`, `ChangesArrive`, `PackedAgrees`, `FitsBudget` |

Three runs show where the program does not do what its comments say. Each
checks one property, which states the comment, and TLC finds a behaviour of
the code that breaks it:

| run | comment | code |
|---|---|---|
| `CommitStalls` | `tracker.go:134`: Committed is the largest index the voters have acknowledged | it returns 0, so no leader commits |
| `RestartVotesTwice` | `raft.go:1061`: term and vote are persisted, so that no server votes twice in a term | `replayWAL` restores nothing |
| `ProposeHangs` | `node.go:400`, `raftNode.go:153`: Propose blocks until its proposal is accepted | `node.go:397` makes the result channel after the proposal was sent by value |

### Bounds

* **Two campaigns** are the fewest in which a late vote, a late append or a
  deposed leader can matter: the first elects, the second competes with it or
  replaces it. `DivergedInit` is a state that a first campaign, not counted,
  leads to, so the two that follow are the second and third, and the third
  leader meets logs of both earlier ones. (Checking the invariant
  `NotDiverged` under `Spec`, with s3 the one campaigner, shows the path to it.)
* **Starts**: `StartsSpec` of the run `Election` begins in `Init`, where all
  servers have bootstrapped, in `JoiningInit`, where s3 was started with
  `--join` and has no configuration, or in `DivergedInit`, where a deposed
  leader holds an entry of its own. The bound on campaigns is the same for all.
* **Three servers** are the fewest with a majority that excludes one; two
  servers, where every quorum is everybody, are used where the question is one
  of progress, panics or message order and not of quorums.
* **Log length**: bootstrap writes one entry a server, and a leader's empty
  entry is not subject to the bound. `MaxLogLen` leaves room for one client's
  proposal after a leader's entry or, where it is 3 with two servers, for none
  but a follower's.
* **`MaxHanded`** bounds how many nodes are between Ready and Advance at once.
  With 2 of 2 servers it is no bound. With 1 of 3 it delays the self-addressed
  steps of one node until another's are done, which removes interleavings of
  steps that touch different nodes only.
* **`ConfChange`**: with four servers majorities of two, three and four voters
  occur on either side of a change; a list of two is the shortest that a limit
  on the sum can reject, or that adds and removes one server. `Changer.Simple`
  takes such a list; the program itself, at bootstrap, applies one change at a time.
* **`LogStore`**: two entries are the fewest of which one can be kept and one
  cut off, and a spare cell the least that makes an append write in place. One
  Ready and one message in others' hands are enough, as readers do not affect
  each other.
* **`Transport`**: a worker that waits, a full buffer and a message more are the
  fewest that make `peer.send` drop one. Pipelines of opposite directions meet only at the
  selects of the event loops, which any process can pass when it is the
  application's turn, so one direction is checked.
* **`KVServer`**: a Ready of two entries of three is the least that repeats an
  entry, brings a new one and leaves one out at once, so that batches overlap; two
  keys tell a put of the other key from none. One client is enough, as a handler
  affects the others through `proposeC` only, where it waits.
* **`Wire`**: numbers have 29 bits, since 29 as 64 leaves one bit for the last byte
  of the longest varint, so each overflow check bites where it does in the code; an
  `int32` has 14. A body is one message, and two entries are the fewest that could
  be swapped, merged or cut by `limitSize`.
* The mutants in `PROJECT.json` show that the bounds are not too small: for
  every property of every passing run there is a plausible bug in the code that
  the run finds.

### Fairness

`LoopFairness` is weak fairness of Ready, Publish and Advance of each node. A
Go `select` chooses among its ready cases at random, so a channel that stays
ready is taken; `serveChannels` takes every Ready and answers it with an
Advance. `CampaignsEnd` has `DeliveryFairness` as its premise: it is a statement
about a transport that loses nothing for ever, and says so. No fairness is assumed of
timeouts, proposals or restarts.

`Transport` assumes weak fairness of each step of a goroutine that waits for
nobody but its own process's other loop, and strong fairness of those that
contend for an event loop: its `select` is random, goroutines that wait on one
channel queue up, and the loop comes back to the select. No fairness is assumed of failures,
ticks, leadership or the taking of a Ready. `Drains` has as its premise that the
peer at some time has a leader for good. Without it a worker may wait at a peer
for ever, which is what `peer.go:166` says of `Process` and the split into two
goroutines there avoids for streams; posts have no such split.

`KVServer` assumes weak fairness of each goroutine (`App`, `Main`, `Store`,
`Proposer` and the raft HTTP server). It is enough where they wait for the event
loop, which is away from its select only until `confstatec` is read, by the very
goroutine that it waits for. `CommitsReachStore` has as its premise that there
always is another Ready: `HasReady` asks for messages and not for committed
entries, and the ticks that bring messages are not in this module. No fairness is
assumed of commits, failures or clients.

## What is proved

The theorems about `Raft` hold for every finite set of servers, every set of
joiners short of all of them, every set of values and every value of the bounds
and switches. The assumptions are `ServerAssumption` and `BoundAssumption` of
`Raft`; all but `TypeCorrect` and `LeadersAreElected` also assume
`MaxRestarts = 0`. None assumes that a message is stepped once: `Repeats` may be
TRUE. Those about `ConfChange` hold for any finite set of servers and lists of any
length (`IdAssumption`, `MaxAssumption`), those about `KVServer` for any keys,
clients and bounds (`KVAssumption`), those about `Transport` for any processes, workers, messages and bounds
(`TransportAssumption`), and those about `LogStore` for any bounds
(`BoundAssumption` of `LogStore`).

**`TypeCorrect == Spec => []TypeOK`** (`RaftCoreProof`). `TypeOK` is inductive
as it stands. Beyond types it says that a node's record stays that of its
process, that its Progress map covers exactly its voters, and that Next stays
above Match. The argument goes up the call graph: what a Progress operation, an
operator on the log (`findConflict`, `SubSeq`, `findConflictByTerm`) and
`RecordVote` return; then `send` and `sendAll`; then each change of role and
each handler, one lemma each, saying that `NodeOK` is kept for any well-formed
message; then `Step`; then the actions. Two lemmas about the minimum and
maximum of a finite set of naturals need well-founded induction, since both are
CHOOSE expressions.

**`ElectsOneLeader`** (`ElectionProof`): the abstract election never has two
leaders of one term, nor two ballots of one server for different candidates of
one term. `OneLeader` is not inductive by itself: a second majority might
still form. The inductive invariant adds that a ballot in play is its server's
present vote, or of a term that server has left (`Sound`), and that every leader
is backed by a majority that can no longer vote otherwise in its term
(`Backed`). A second leader would need a majority too, and two majorities meet.

**`RaftElects == Spec => RefinesElection`** (`RaftCoreProof`): each step of
the code is a step of `Election` or leaves it unchanged. A ballot is a granted
vote that is on its way, held by a node for a later Ready or Advance, or counted
by a candidate. The handlers fall into two kinds, and each has a lemma: those
that keep term and vote, hold no new ballot and make no leader (`Keeps`), and
those that may move to a later term or cast the one ballot of theirs
(`Handles`), such as `handleVote`, `campaign`, `becomeFollower`.
`WonByMajority` ties `VoteWon` to a majority of ballots, and `RecordVote` to a
ballot that was delivered. The invariant the argument needs, `VotesOK`, says
that only a process that knows all voters campaigns, that votes and a leader's
messages have a term (a message of term 0 would pass `Step` unchecked), and that
the messages that wait for Advance are addressed to the node itself.

**`RaftElectsOneLeader == Spec => []ElectionSafety`** and **`RaftCastsOneVote ==
Spec => []OneVotePerTerm`** are the two together, and hold for the real core with
its Ready cycle, reordering, repetition and loss. TLC checks the second as
part of `RefinesElection` (run `Replication`), and by itself in `RestartVotesTwice`, where
it fails with a restart.

**`LeadersAreElected == Spec => []LeadIsElected`** (`RaftCoreProof`): whoever a
server takes for leader was elected in its term, with restarts and repeated
delivery too. `LeadIsElected` is not inductive, since the lead comes out of a
message: the invariant `LeadsOK` adds that every append and heartbeat, on its way or
held by a node, comes from a server elected in its term (`Vouched`), and that a
node only leads if it was. Each handler then has a lemma: given a message so
vouched for, it leaves a node that follows an elected leader or none. The term
check of `raft.Step` is what carries the pair in the message over to the node.

**`ServersFollowOneLeader == Spec => []SameLeader`**, without restarts, joins this
to `RaftElectsOneLeader`: the servers of a term that know a leader know the same.

**The logs** (`RaftLogProof`, invariants in `RaftReplication`). Six theorems rest on
two inductive invariants, `CoreOK` and `ChoicesOK`. TLC found them to hold on small
clusters before they were proved: `MCRaft` extends `RaftReplication`, so that `LogsOK`,
`AcksOK`, `ChoicesOK` and `SettledOK` can be added to the invariants of any run without a restart. The proof has two halves. In the first, one lemma
for each operator of `Raft`, up the call graph, says what a handler of
message `m` may do to a node (`Writes`: step aside for a later term, append what
`m` brings, become leader with an empty entry, append a proposal, or nothing to the
log) and what each message it sends tells of the node it leaves (`Reports`). `NextWrote`
sums up that every step of `Spec` writes one node so. The second half is about that
summary alone and needs the handlers no more.

`CoreOK` is `TypeOK`, `VotesOK` and `LeadsOK` of the election, `NoPanic`, and:

* `LogsOK`. A log is taken as the set of its links, each an entry with its index and
  the term before it, and an append on its way adds the one it brings. In `LinksOK` all
  links of a cluster fit together: an index and a term name one link, and one link
  opens a term. It needs no record of the logs of the past, because a new link is a
  copy of one that there is, or a leader's, and a leader's log holds whatever there is of
  its term. A log below an index can be read off the links (`LinksMatch`).
  The rest ties Next to the leader's log (`PeerOK`): a peer that is still probed is
  to be sent the entry that opens the term, and a peer in StateReplicate has an
  index to be asked about. It is here that the code's half-finished replication
  (no entries in StateReplicate, no commits) is used.
* `AcksOK`. An acknowledgement on its way, however late, tells a leader of its term
  what the sender still holds; so does Match.

**`LogsMatch`**, **`EntriesStay`** (an action property: `truncateAndAppend` takes
back nothing of the term it is in), **`MatchIsSound`**, **`PeersReachable`** and
**`NoPanics`** follow. `NoPanic` is proved along with the rest, since a conflict at
or below `committed` or a Next beyond the log are what the Panicfs guard.

**`LaterLeadersComplete == Spec => []LeaderCompleteness`** is about what a
majority has acknowledged to a leader, in a program where no leader commits. By
itself it is not inductive: the election of the later leader happens before, or
while, the acknowledgements arrive. `ChoicesOK` therefore speaks of an index
that a majority has acknowledged or may still acknowledge (`Choosable`: a server
that has left the term without acknowledging never will). Of each such index of a
leader, `ChosenOK` says that who acknowledged it holds it, that every log with an
entry of a later term holds it, that every link that opens a later term lies beyond it,
and that a server that acknowledged it has its vote in play only for a candidate whose
log is beyond it. A new leader shares a voter with
that majority, so its log is beyond the index, and `BeyondAgrees` turns that into
agreement by way of the links. An index that becomes choosable for the first time is
one the leader has just appended (`JustAppended`): nobody has voted in a later
term, as its own majority would have to have left the term.

**`RaftKeepsChosen == Spec => RefinesChosenLog`** (`RaftChosenProof`): what a majority of
the logs holds (`MajorityOf(Logs)`) is one log, as `ChosenLog` has it. An entry that
a majority holds stays held, no index gets a second one, and each step adds the next
entry or none, whether or not a leader hears of the majority. Raft in general does not
have this: a leader may spread an entry of a former term to a majority, and a later leader
may still replace it. Here no leader passes on what others wrote. A peer that is probed
is sent the entry that opens its leader's term, one in StateReplicate gets none, and
nothing moves Next back; `PeerOK` and the third part of `LinksOK` (the link that opens a
term is its first) record that.

The inductive invariant is `SettledOK`. A link is a `Choice` if a majority has it or
may still come to have it, as each server of that majority has it or is not past its term.
Of every such link, `Settled` says that each log with an entry of a later term has it,
that each link that opens a later term lies past it (`Past`), and that a server that has it
has its vote in play only for a candidate whose log lies past it. A step can disturb
this in four ways, with a lemma each: it brings a later term to a log, which then
has what the link that opens the term was past (`LaterHas`); it makes a leader, whose
voters share a server with the majority (`OpensPast`); it casts a vote, which `isUpToDate`
guards (`VotesPast`); or it appends a link that becomes a choice, in a term that a majority
has not left, so that nobody was elected since (`FreshSettled`). That two majorities meet
gives the rest: `MajorityOf` has at most one entry at an index, and no gap below it, as a
server that has a link has all those before it.

**`MajorityKeeps == Spec => KeepsChosen`** says the same of the steps that change a log.
The run `Election` checks this form, since it is far cheaper to evaluate.
**`LeadersHaveChosen == Spec => []LeadersHoldChosen`**: a leader has every entry that a
majority holds from the terms up to its own. TLC checks it on the same run.
`LaterLeadersComplete` differs from it in what it takes for chosen: there what a
leader has counted, here what the logs hold.

**`ConfChange`** (`ConfChangeProof`). **`ConfigStaysOK == Spec => []ConfigOK`**,
**`ChangesDoAsAsked == Spec => []ChangesAsAsked`**, **`ChangesKeepProgress == Spec =>
[]KeepsAcknowledged`** and **`ChangesKeepQuorums == Spec => QuorumsMeet`**. `apply` is
a loop over a list. `Passes` follows it: a function gives the configuration
after each pass, and `Result` is the invariant of the loop: the tracker has a
Progress for each voter, a server is a voter if the last change so far that decides
about it adds it, or none does and it was one, and who was not removed keeps its
Progress. That a loop's invariant holds at its end is an induction over the
naturals, which the prover does not have in general; it is done for sets of
numbers by a least counterexample (`LeastOfNats`, `LoopInduction`), and so is the
existence of the function that `apply` defines recursively (`LoopExists`).
`ConfigOK` is then inductive as it stands, and the other three follow from it in
each state or step: for quorums, two sets that differ in at most one member have no
disjoint majorities, which is a count of cardinalities.

**`ServerStaysOK == Spec => []KVOK`** (`KVServerProof`). `KVOK` is inductive as it
stands, and has one lemma for each group of actions. Its parts need each other:
that a batch ends at `appliedIndex` needs that the application publishes only
while `readCommits` has none, and that nobody sends on a closed channel needs the
order of `stop` and of `main`'s deferred calls.

**`ServerIsReplica == Spec => RefinesStore`**: what has taken effect is
`appliedIndex`, less what `readCommits` has before it (`Stored`). Publishing a
batch leaves that as it is, however much of the log the Ready repeats, unless the
batch ends in entries that are no puts. A round of `readCommits` moves it by one,
or, after the last put, to the end of what was published (`Leap`).

**`ServerIsCurrent == Spec => []K!Current`** follows by showing that `Current` is
inductive in `KVStore` and carrying it over: a GET finds the last put to its key
among those that have taken effect.

**`TransportStaysOK == Spec => []TransportOK`** and **`InOnePlace == Spec =>
[]OnePlace`** (`TransportProof`). `OnePlace` counts places, and a count is not
inductive; the invariant says instead, of each message, that no two places hold it
(`Once`), a place in a sequence being a position of it. Most steps take a message
from one place to the next or drop it, and one lemma (`FewerOnce`) covers them:
each place afterwards is one of those before, shifted if a sequence lost its head.
A Ready brings messages that are nowhere yet. `Busy` adds that the application loop
is at a send or a publish only with something to send or publish, without which the
head it takes off would not exist. `Once` then bounds the count by one.

**`TransportIsNet == Spec => RefinesNet`** maps the places of a message to the set
`Net` has, and each step of a goroutine to one of `Net` or to none. A message that is
passed on stays in that set; when it is served, dropped or given up it must be gone
from it, and it is because `Once` says that no other place held it. `Own`
adds to the invariant that an application loop has none but its own messages in hand,
so that the report of a dropped one goes to its sender, and none at all once it
publishes, so that what `ConfState` puts aside is empty. A Ready's messages are new to
the net and go over one link each (`Apart`).

**`HeldStays == Spec => []HeldUnchanged`**, **`LogIsImplemented == Spec =>
RefinesLog`**, **`TermsAreTheLogs`** and **`StoreStaysOK`** (`LogStoreProof`) have one
inductive invariant, `Safe`. `append` writes in place in one case only, when the
unstable log grows at its end: a cut slice has no room behind it (`unstable.slice`
limits its capacity), and what the application stores goes behind a dummy
entry without room. So it is enough that whatever is handed out of the array of the
unstable log ends before the log does (`Behind`), and that the storage is
never in that array. `AppendedInPlace`, `AppendedAside` and
`TruncatedAndAppended` say what becomes of the memory then; `BecomesIsSafe` says that collecting
arrays and naming them anew, with which the module keeps its states few, is
invisible to every slice. With the room in `unstable.slice` not limited, as its mutant has it,
the third case of `TruncatedAndAppended` would fail.

Restarts have to be excluded from the theorems about elections and logs, since a
restarted process forgets its vote and its log, and the statements are then false: the
run `RestartVotesTwice` shows it for votes. Two leaders of one term then write
different entries under one index and term. `PeersStayReachable` is false with
restarts too, with three servers and six campaigns: s1 leads in terms 2 and 4,
s2 acknowledges its entry at index 5, s1 restarts, is elected in term 4 by s3,
which has none of its entries, with a log up to index 4, and the late
acknowledgement moves its Next for s2 to 6. No append goes to s2 then, until the log of s1 has an index 5.
TLC finds this in 41 steps when it is led there (s3 idle until the restart and s2 after it).

## What is only model-checked

What `Wire` says. `Codec` is recursive, and what a
recursive definition computes for every input takes an induction that the prover
does not have. Liveness (`MessagesGoOut`, `CampaignsEnd`, `AppReturns`,
`PostsEnd`, `Drains`, `StopEnds`, `CommitsReachStore`) stays with TLC in any
case: the prover has no reasoning about fairness or ENABLED.

Not a run, but worth a look for who reads the code with the model: `state.go:13`
says that a follower in StateReplicate eagerly receives entries, while
`maybeSendAppend` at `raft.go:1129` reads entries in the other states only.
`Raft` follows the code. Add to the run `ProposeHangs` that s1 alone campaigns and sends
heartbeats, fairly, and that `net` is empty time and again: TLC then finds s1 leading
for ever with an entry that s2, in StateReplicate, never gets. Without that
condition in `appendTo` it finds none.

## What is not modelled

* Streams, snapshots of the store, read index, leader transfer and `Status`: the
  code has types and stubs for them and no behaviour, or nothing calls it.
* How peers are added to a transport and removed from it, URL selection and the
  HTTP headers: plumbing of `net/http` that keeps no state the protocol reads.
* The gob encoding of a put inside an entry, and the encoding of HardState, which
  nothing writes.
* Tick counters and the random election timeout: a timeout may fire at any time.
* Logging and the interface definitions.

`PROJECT.json` gives the reason at each component.

## Plan

1. `Raft` with `Net` for its `net`: `Raft` may step a message again (`Repeats`), which
   `Net` rules out, and has no reports, which nothing in the core acts on.
2. `NoPanic` with restarts, if it still holds.
