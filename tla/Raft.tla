------------------------------- MODULE Raft -------------------------------
(***************************************************************************)
(* The raft core (raft/core/raft.go, rawnode.go, bootstrap.go), one record *)
(* per node, driven the way node.run (node.go) and raftNode.serveChannels  *)
(* (kv/raftNode.go) drive it: one event of a node at a time, Ready handed  *)
(* to the application, Advance handed back.                                *)
(*                                                                         *)
(* The handlers of raft.go are operators that take the node record r of a  *)
(* *raft and return it as the handler leaves it, under the handler's name. *)
(* Clocks are abstracted: a tick may fire the timeout at any moment.       *)
(***************************************************************************)
EXTENDS RaftLog, Progress, VoteQuorum

CONSTANTS Server,       \* the ids of --cluster
          Joiner,       \* the servers started with --join
          None,         \* raft.None
          Value,        \* the payloads clients propose
          EmptyEntry,   \* the nil payload a new leader appends
          ConfEntry,    \* a bootstrap ConfChangeAddNode
          PreVote, CheckQuorum,   \* Config.PreVote, Config.CheckQuorum
          Repeats,      \* may identical messages be in flight at once?
          Campaigner,   \* bound: the servers whose election timeout may fire
          Heartbeater,  \* bound: the servers whose heartbeat timeout may fire
          MaxCampaigns, \* bound: how many election timeouts a behaviour has
          MaxLogLen,    \* bound: no proposal makes a log longer
          MaxHanded,    \* bound: the nodes that are between Ready and Advance at once
          MaxRestarts   \* bound: how many crashes a behaviour has

ASSUME ServerAssumption ==
  /\ IsFiniteSet(Server) /\ Server # {} /\ None \notin Server
  /\ Joiner \subseteq Server /\ Joiner # Server
  /\ Campaigner \subseteq Server /\ Heartbeater \subseteq Server

ASSUME BoundAssumption ==
  /\ PreVote \in BOOLEAN /\ CheckQuorum \in BOOLEAN /\ Repeats \in BOOLEAN
  /\ {MaxCampaigns, MaxLogLen, MaxHanded, MaxRestarts} \subseteq Nat

VARIABLES
  node,     \* node[i]: the raft, RawNode and raftNode state of process i
  net,      \* the messages the transport has yet to deliver
  elected,  \* history: <<term, id>> of every leader there has been
  campaigns, restarts  \* how many election timeouts and crashes there have been

vars == <<node, net, elected, campaigns, restarts>>
-----------------------------------------------------------------------------
Data == Value \cup {EmptyEntry, ConfEntry}
Entry == [Term : Nat, Data : Data]

VoteMsgs   == {"MsgVote", "MsgVoteResp", "MsgPreVote", "MsgPreVoteResp"}
LeaderMsgs == {"MsgApp", "MsgHeartbeat"}
\* Message types that raft.send puts in msgsAfterAppend.
AfterAppend == {"MsgAppResp", "MsgVoteResp", "MsgPreVoteResp"}
\* util.go isResponseMsg
ResponseMsgs == AfterAppend \cup {"MsgHeartbeatResp"}
MessageTypes ==
  VoteMsgs \cup LeaderMsgs \cup ResponseMsgs \cup {"MsgProp"}

\* raftpb.Message, before raft.send stamps it: From may still be None. A
\* proposal carries its entry.
Unsent ==
  {m \in [Type : MessageTypes, From : Server \cup {None}, To : Server, Term : Nat,
          Index : Nat, LogTerm : Nat, Entries : Seq(Entry), Commit : Nat,
          Reject : BOOLEAN, RejectHint : Nat] :
     m.Type = "MsgProp" => m.Entries # <<>>}
Messages == {m \in Unsent : m.From \in Server}

Message(type, to) ==
  [Type |-> type, From |-> None, To |-> to, Term |-> 0, Index |-> 0, LogTerm |-> 0,
   Entries |-> <<>>, Commit |-> 0, Reject |-> FALSE, RejectHint |-> 0]

voteRespMsgType(type) == IF type = "MsgVote" THEN "MsgVoteResp" ELSE "MsgPreVoteResp"

\* raft.logger.Panicf and panic end the process.
panic(r) == [r EXCEPT !.panicked = TRUE]
-----------------------------------------------------------------------------
(* Sending *)

\* What raft.send writes into a message before it queues it.
stamp(r, m) ==
  [m EXCEPT !.From = IF @ = None THEN r.id ELSE @,
            !.Term = IF m.Type \in VoteMsgs \cup {"MsgProp"} THEN @ ELSE r.Term]

\* The two Panicf on the term, and the one on a self-addressed message.
sendPanics(r, m) ==
  \/ m.Type \in VoteMsgs /\ m.Term = 0
  \/ m.Type \notin VoteMsgs /\ m.Term # 0
  \/ m.To = r.id /\ m.Type \notin AfterAppend

\* raft.send. A Ready hands out msgs and the remote part of msgsAfterAppend
\* together, so the model's msgs holds both; its msgsAfterAppend is the
\* self-addressed part.
send(r, m) ==
  CASE sendPanics(r, m) -> panic(r)
    [] ~ sendPanics(r, m) /\ m.To = r.id ->
         [r EXCEPT !.msgsAfterAppend = Append(@, stamp(r, m))]
    [] OTHER -> [r EXCEPT !.msgs = @ \cup {stamp(r, m)}]

\* The loops over peers that send one message to each.
sendAll(r, M) ==
  IF \E m \in M : sendPanics(r, m) THEN panic(r)
  ELSE [r EXCEPT !.msgs = @ \cup {stamp(r, m) : m \in M}]

\* Mutant: the node is a peer of itself.
PeersAndSelf(r) == r.voters
Peers(r) == r.voters \ {r.id}

\* raft.maybeSendAppend for every peer of dests. A peer in StateReplicate is
\* never sent entries; a peer whose previous index has no term is skipped
\* (the snapshot that should go out instead is commented out).
appendTo(r, to) ==
  LET pr == r.prs[to]
  IN  [Message("MsgApp", to) EXCEPT
         !.Index   = pr.Next - 1,
         !.LogTerm = term(r.log, pr.Next - 1),
         !.Entries = IF pr.State = "StateReplicate" THEN <<>> ELSE entries(r.log, pr.Next),
         !.Commit  = r.committed]

maybeSendAppend(r, dests, sendIfEmpty) ==
  LET known == {to \in dests : termKnown(r.log, r.prs[to].Next - 1)}
      sent  == {to \in known : sendIfEmpty \/ appendTo(r, to).Entries # <<>>}
  IN  [sendAll(r, {appendTo(r, to) : to \in sent}) EXCEPT
         !.prs = [to \in r.voters |->
                    IF to \in sent
                    THEN UpdateOnEntriesSend(r.prs[to], appendTo(r, to).Entries)
                    ELSE r.prs[to]]]

bcastAppend(r) == maybeSendAppend(r, Peers(r), TRUE)

bcastHeartbeat(r) ==
  sendAll(r, {[Message("MsgHeartbeat", to) EXCEPT
                 !.Commit = IF r.prs[to].Match < r.committed
                            THEN r.prs[to].Match ELSE r.committed] : to \in Peers(r)})
-----------------------------------------------------------------------------
(* Log and commit index *)

\* raft.appendEntry, of one entry
appendEntry(r, data) ==
  LET log == Append(r.log, [Term |-> r.Term, Data |-> data])
  IN  send([r EXCEPT !.log = log],
           [Message("MsgAppResp", r.id) EXCEPT !.Index = lastIndex(log)])

\* ProgressTracker.Committed: CommittedIndex is commented out
Committed(r) == 0

\* raft.maybeCommit and raftLog.maybeCommit
commitAdvances(r) ==
  /\ Committed(r) > r.committed
  /\ r.Term # 0
  /\ zeroTermOnOutOfBounds(r.log, Committed(r)) = r.Term
maybeCommit(r) ==
  IF commitAdvances(r) THEN [r EXCEPT !.committed = commitTo(@, Committed(r))] ELSE r
-----------------------------------------------------------------------------
(* Changes of role *)

\* Mutant: every change of role forgets the vote.
voteAfterForgets(r, t) == None
\* raft.reset forgets the vote only when the term changes.
voteAfter(r, t) == IF r.Term = t THEN r.Vote ELSE None

reset(r, t) ==
  [r EXCEPT
     !.Term  = t,
     !.Vote  = voteAfter(r, t),
     !.lead  = None,
     !.votes = ResetVotes(Server),
     !.prs   = [j \in r.voters |->
                  NewProgress(IF j = r.id THEN lastIndex(r.log) ELSE 0, lastIndex(r.log) + 1)]]

becomeFollower(r, t, lead) ==
  [reset(r, t) EXCEPT !.lead = lead, !.state = "StateFollower"]

becomePreCandidate(r) ==
  IF r.state = "StateLeader" THEN panic(r)
  ELSE [r EXCEPT !.votes = ResetVotes(Server), !.lead = None, !.state = "StatePreCandidate"]

becomeCandidate(r) ==
  IF r.state = "StateLeader" THEN panic(r)
  ELSE [reset(r, r.Term + 1) EXCEPT !.Vote = r.id, !.state = "StateCandidate"]

becomeLeader(r) ==
  IF r.state = "StateFollower" THEN panic(r)
  ELSE LET l == [reset(r, r.Term) EXCEPT !.lead = r.id, !.state = "StateLeader"]
       IN  appendEntry([l EXCEPT !.prs[r.id] = BecomeReplicate(@)], EmptyEntry)

promotable(r) == r.id \in r.voters

\* raft.campaign. The request goes to every voter but the node itself, whose
\* own vote is a message to itself that is stepped by Advance.
campaign(r, pre) ==
  LET c    == IF pre THEN becomePreCandidate(r) ELSE becomeCandidate(r)
      t    == IF pre THEN c.Term + 1 ELSE c.Term
      type == IF pre THEN "MsgPreVote" ELSE "MsgVote"
      self == [Message(voteRespMsgType(type), r.id) EXCEPT !.Term = t]
      reqs == {[Message(type, to) EXCEPT !.Term = t,
                                         !.Index = lastIndex(r.log),
                                         !.LogTerm = lastTerm(r.log)] : to \in Peers(r)}
  IN  sendAll(IF r.id \in r.voters THEN send(c, self) ELSE c, reqs)

hup(r, pre) ==
  IF r.state = "StateLeader" \/ ~ promotable(r) THEN r ELSE campaign(r, pre)
-----------------------------------------------------------------------------
(* Handlers *)

handleHeartbeat(r, m) == send(r, Message("MsgHeartbeatResp", m.From))

handleAppendEntries(r, m) ==
  LET resp     == Message("MsgAppResp", m.From)
      lastnewi == m.Index + Len(m.Entries)
      tocommit == IF m.Commit < lastnewi THEN m.Commit ELSE lastnewi
      log      == appended(r.log, m.Index, m.Entries)
      hint     == findConflictByTerm(r.log,
                    IF m.Index < lastIndex(r.log) THEN m.Index ELSE lastIndex(r.log), m.LogTerm)
  IN  CASE m.Index < r.committed ->
             send(r, [resp EXCEPT !.Index = r.committed])
        [] m.Index >= r.committed /\ matchTerm(r.log, m.Index, m.LogTerm) ->
             IF \/ appendPanics(r.log, r.committed, m.Index, m.Entries)
                \/ commitPanics(log, r.committed, tocommit)
             THEN panic(r)
             ELSE send([r EXCEPT !.log = log, !.committed = commitTo(@, tocommit)],
                       [resp EXCEPT !.Index = lastnewi])
        [] OTHER ->
             send(r, [resp EXCEPT !.Index = m.Index, !.Reject = TRUE, !.RejectHint = hint,
                                  !.LogTerm = zeroTermOnOutOfBounds(r.log, hint)])

stepFollower(r, m) ==
  CASE m.Type = "MsgProp" ->
         IF r.lead = None THEN r ELSE send(r, [m EXCEPT !.To = r.lead])
    [] m.Type = "MsgApp" -> handleAppendEntries([r EXCEPT !.lead = m.From], m)
    [] m.Type = "MsgHeartbeat" -> handleHeartbeat([r EXCEPT !.lead = m.From], m)
    [] OTHER -> r

poll(r, id, v) == [r EXCEPT !.votes = RecordVote(@, id, v)]

\* A candidate that hears from a leader steps down; only a heartbeat is also
\* handled, the call of handleAppendEntries is commented out.
stepCandidate(r, m) ==
  LET myVoteRespType == IF r.state = "StatePreCandidate" THEN "MsgPreVoteResp" ELSE "MsgVoteResp"
      polled == poll(r, m.From, ~ m.Reject)
      res    == JointVoteResult(r.voters, {}, polled.votes)
  IN  CASE m.Type = "MsgApp" -> becomeFollower(r, m.Term, m.From)
        [] m.Type = "MsgHeartbeat" -> handleHeartbeat(becomeFollower(r, m.Term, m.From), m)
        [] m.Type = myVoteRespType /\ res = "VoteWon" ->
             IF r.state = "StatePreCandidate" THEN campaign(polled, FALSE)
             ELSE bcastAppend(becomeLeader(polled))
        [] m.Type = myVoteRespType /\ res = "VoteLost" -> becomeFollower(polled, r.Term, None)
        [] m.Type = myVoteRespType /\ res = "VotePending" -> polled
        [] OTHER -> r

\* The MsgAppResp case of stepLeader. A rejection is left as a TODO.
handleAppendResponse(r, m) ==
  LET pr       == r.prs[m.From]
      moves    == Updates(pr, m.Index) \/ (pr.Match = m.Index /\ pr.State = "StateProbe")
      updated  == MaybeUpdate(pr, m.Index)
      newPr    == IF moves /\ updated.State = "StateProbe" THEN BecomeReplicate(updated) ELSE updated
      tracked  == [r EXCEPT !.prs[m.From] = newPr]
      sent     == CASE commitAdvances(tracked) -> bcastAppend(maybeCommit(tracked))
                    [] ~ commitAdvances(tracked) /\ IsPaused(pr) ->
                         maybeSendAppend(tracked, {m.From}, TRUE)
                    [] OTHER -> tracked
  IN  CASE m.Reject -> r
        [] ~ m.Reject /\ ~ moves -> tracked
        [] OTHER -> IF m.From = r.id THEN sent ELSE maybeSendAppend(sent, {m.From}, FALSE)

stepLeader(r, m) ==
  CASE m.Type = "MsgProp" ->
         IF ~ promotable(r) THEN r ELSE bcastAppend(appendEntry(r, m.Entries[1].Data))
    [] m.Type = "MsgAppResp" /\ m.From \in r.voters -> handleAppendResponse(r, m)
    [] OTHER -> r

\* Mutant: the vote already cast is not looked at.
canVoteTwice(r, m) ==
  \/ r.Vote = m.From
  \/ r.lead = None
  \/ m.Type = "MsgPreVote" /\ m.Term > r.Term
\* The MsgVote and MsgPreVote case of raft.Step
canVote(r, m) ==
  \/ r.Vote = m.From
  \/ r.Vote = None /\ r.lead = None
  \/ m.Type = "MsgPreVote" /\ m.Term > r.Term

handleVote(r, m) ==
  LET resp == Message(voteRespMsgType(m.Type), m.From)
  IN  IF canVote(r, m) /\ isUpToDate(r.log, m.Index, m.LogTerm)
      THEN LET s == send(r, [resp EXCEPT !.Term = m.Term])
           IN  IF m.Type = "MsgVote" THEN [s EXCEPT !.Vote = m.From] ELSE s
      ELSE send(r, [resp EXCEPT !.Term = r.Term, !.Reject = TRUE])

\* Mutant: every sender of a higher term is taken for its leader.
higherTermLeads(r, m) ==
  CASE m.Type = "MsgPreVote" \/ (m.Type = "MsgPreVoteResp" /\ ~ m.Reject) -> r
    [] OTHER -> becomeFollower(r, m.Term, m.From)
\* The term preamble of raft.Step: a higher term makes the node a follower,
\* except for a pre-vote request and a granted pre-vote.
higherTerm(r, m) ==
  CASE m.Type = "MsgPreVote" \/ (m.Type = "MsgPreVoteResp" /\ ~ m.Reject) -> r
    [] m.Type \in LeaderMsgs -> becomeFollower(r, m.Term, m.From)
    [] OTHER -> becomeFollower(r, m.Term, None)

lowerTerm(r, m) ==
  CASE (CheckQuorum \/ PreVote) /\ m.Type \in LeaderMsgs -> send(r, Message("MsgAppResp", m.From))
    [] m.Type = "MsgPreVote" ->
         send(r, [Message("MsgPreVoteResp", m.From) EXCEPT !.Term = r.Term, !.Reject = TRUE])
    [] OTHER -> r

\* What raft.Step does with a message once its term is dealt with
dispatch(r, m) ==
  CASE m.Type \in {"MsgVote", "MsgPreVote"} -> handleVote(r, m)
    [] m.Type \notin {"MsgVote", "MsgPreVote"} /\ r.state = "StateFollower" -> stepFollower(r, m)
    [] m.Type \notin {"MsgVote", "MsgPreVote"} /\ r.state = "StateLeader" -> stepLeader(r, m)
    [] OTHER -> stepCandidate(r, m)

\* Mutant: messages of an earlier term are handled like any other.
isNeverStale(r, m) == FALSE
\* raft.Step. A message of term 0 is a local one.
isStale(r, m) == m.Term # 0 /\ m.Term < r.Term

Step(r, m) ==
  CASE isStale(r, m) -> lowerTerm(r, m)
    [] ~ isStale(r, m) /\ m.Term > r.Term -> dispatch(higherTerm(r, m), m)
    [] OTHER -> dispatch(r, m)

\* raft.switchToConfig after an AddNode of a peer that is tracked already:
\* the configuration stays as it is and the leader probes its peers.
switchToConfig(r) ==
  CASE r.state # "StateLeader" \/ ~ promotable(r) -> r
    [] r.state = "StateLeader" /\ promotable(r) /\ commitAdvances(r) -> bcastAppend(maybeCommit(r))
    [] OTHER -> maybeSendAppend(r, Peers(r), FALSE)
-----------------------------------------------------------------------------
(* Initial states *)

\* A new RawNode with no persisted state: newRaft, replayWAL.
NewNode(i) ==
  [id |-> i, Term |-> 0, Vote |-> None, state |-> "StateFollower", lead |-> None,
   log |-> <<>>, committed |-> 0, voters |-> {}, prs |-> [j \in {} |-> NewProgress(0, 1)],
   votes |-> ResetVotes(Server), msgs |-> {}, msgsAfterAppend |-> <<>>,
   stepsOnAdvance |-> <<>>, phase |-> "idle", ready |-> 0, appliedIndex |-> 0,
   waiting |-> FALSE, panicked |-> FALSE]

\* RawNode.Bootstrap: one committed ConfChange entry of term 1 for each peer
\* of --cluster, and each peer tracked with Next at the last of them.
Bootstrapped(i) ==
  LET n == Cardinality(Server)
  IN  [NewNode(i) EXCEPT
         !.Term = 1,
         !.log = [k \in 1..n |-> [Term |-> 1, Data |-> ConfEntry]],
         !.committed = n,
         !.voters = Server,
         !.prs = [j \in Server |-> NewProgress(0, n)]]

\* startRaft: RestartNode under --join, StartNode otherwise
Started(i) == IF i \in Joiner THEN NewNode(i) ELSE Bootstrapped(i)

Init ==
  /\ node = [i \in Server |-> Started(i)]
  /\ net = {}
  /\ elected = {}
  /\ campaigns = 0
  /\ restarts = 0
-----------------------------------------------------------------------------
(* Actions: the cases of node.run's select *)

\* Node i becomes r; a node that leads is entered into the history.
Becomes(i, r) ==
  /\ node' = [node EXCEPT ![i] = r]
  /\ elected' = elected \cup (IF node'[i].state = "StateLeader" THEN {<<node'[i].Term, i>>} ELSE {})
  /\ UNCHANGED restarts

\* The event loop runs one event at a time and none while Advance steps.
Free(i) == ~ node[i].panicked /\ node[i].phase # "advancing"

\* <-tickc with tickElection and its timeout
ElectionTimeout(i) ==
  /\ Free(i)
  /\ i \in Campaigner
  /\ node[i].state # "StateLeader"
  /\ campaigns < MaxCampaigns
  /\ campaigns' = campaigns + 1
  /\ Becomes(i, hup(node[i], PreVote))
  /\ UNCHANGED net

\* <-tickc with tickHeartbeat; MsgCheckQuorum does nothing in stepLeader
HeartbeatTimeout(i) ==
  /\ Free(i)
  /\ i \in Heartbeater
  /\ node[i].state = "StateLeader"
  /\ Becomes(i, bcastHeartbeat(node[i]))
  /\ UNCHANGED <<net, campaigns>>

\* The transport delivers a message at most once, in any order, or never.
\* net is a set: with Repeats a member of it may stand for several identical
\* messages, as rounds of heartbeats are.
Delivers(m) == net' \in {net \ {m}} \cup (IF Repeats THEN {net} ELSE {})

\* <-recvc. A response of an unknown peer is filtered out.
Receive(i, m) ==
  /\ Free(i)
  /\ m.To = i /\ m.Type # "MsgProp"
  /\ m.Type \in ResponseMsgs => m.From \in node[i].voters
  /\ Becomes(i, Step(node[i], m))
  /\ Delivers(m)
  /\ UNCHANGED campaigns

\* <-propc, which is nil without a leader: a proposal of a client, which the
\* goroutine of serveChannels hands over, or one that a follower forwarded
Proposal(i, v) ==
  [Message("MsgProp", i) EXCEPT !.From = i, !.Entries = <<[Term |-> 0, Data |-> v]>>]

CanPropose(i) == Free(i) /\ node[i].lead # None /\ lastIndex(node[i].log) < MaxLogLen

\* stepWithWaitOption makes pm.result only once pm is sent, by value: node.run
\* finds no channel to answer on, and the goroutine waits in node.Propose.
Propose(i, v) ==
  /\ CanPropose(i)
  /\ ~ node[i].waiting
  /\ Becomes(i, [Step(node[i], Proposal(i, v)) EXCEPT !.waiting = TRUE])
  /\ UNCHANGED <<net, campaigns>>

ReceiveProposal(i, m) ==
  /\ CanPropose(i)
  /\ m.To = i /\ m.Type = "MsgProp"
  /\ Becomes(i, Step(node[i], [m EXCEPT !.From = i]))
  /\ Delivers(m)
  /\ UNCHANGED campaigns

\* readyc <- rd: readyWithoutAccept, acceptReady, and the transport.Send with
\* which serveChannels starts on the Ready
Ready(i) ==
  /\ ~ node[i].panicked
  /\ node[i].phase = "idle"
  /\ Cardinality({j \in Server : node[j].phase # "idle"}) < MaxHanded
  /\ node[i].msgs # {} \/ node[i].msgsAfterAppend # <<>>
  /\ net' = net \cup node[i].msgs
  /\ Becomes(i, [node[i] EXCEPT !.stepsOnAdvance = node[i].msgsAfterAppend,
                                !.msgs = {},
                                !.msgsAfterAppend = <<>>,
                                !.ready = node[i].committed,
                                !.phase = "handed"])
  /\ UNCHANGED campaigns

\* Mutant: the entry at appliedIndex is published again.
UnpublishedAgain(r) == {k \in 1..r.ready : k >= r.appliedIndex}
\* raftNode.entriesToApply: the Ready carries the committed entries from index
\* 1 on, and those up to appliedIndex are skipped.
Unpublished(r) == {k \in 1..r.ready : k > r.appliedIndex}

\* publishEntries: every remaining ConfChange is an ApplyConfChange call into
\* the event loop (<-confc); the calls of one Ready leave the node as one of
\* them does.
Publish(i) ==
  LET r == [node[i] EXCEPT !.appliedIndex = node[i].ready]
  IN  /\ Free(i)
      /\ node[i].phase = "handed"
      /\ Unpublished(node[i]) # {}
      /\ Becomes(i, IF \E k \in Unpublished(node[i]) : r.log[k].Data = ConfEntry
                    THEN switchToConfig(r) ELSE r)
      /\ UNCHANGED <<net, campaigns>>

\* <-advancec: RawNode.Advance steps every self-addressed message of the
\* Ready. The model takes one at a time and lets the node do nothing else
\* until the last of them is stepped.
Published(i) == node[i].phase = "handed" /\ Unpublished(node[i]) = {}

AdvanceStep(i) ==
  LET rest == Tail(node[i].stepsOnAdvance)
      r    == [node[i] EXCEPT !.stepsOnAdvance = rest,
                              !.phase = IF rest = <<>> THEN "idle" ELSE "advancing"]
  IN  Becomes(i, Step(r, Head(node[i].stepsOnAdvance)))

Advance(i) ==
  /\ ~ node[i].panicked
  /\ Published(i) \/ node[i].phase = "advancing"
  /\ IF node[i].stepsOnAdvance = <<>>
     THEN Becomes(i, [node[i] EXCEPT !.phase = "idle"])
     ELSE AdvanceStep(i)
  /\ UNCHANGED <<net, campaigns>>

\* A crash and a restart: no HardState, entry or snapshot is read back
\* (replayWAL), so the process starts as it did the first time.
Restart(i) ==
  /\ restarts < MaxRestarts
  /\ restarts' = restarts + 1
  /\ node' = [node EXCEPT ![i] = Started(i)]
  /\ UNCHANGED <<net, elected, campaigns>>

Next ==
  \E i \in Server :
    \/ ElectionTimeout(i)
    \/ HeartbeatTimeout(i)
    \/ \E m \in net : Receive(i, m)
    \/ \E v \in Value : Propose(i, v)
    \/ \E m \in net : ReceiveProposal(i, m)
    \/ Ready(i)
    \/ Publish(i)
    \/ Advance(i)
    \/ Restart(i)

Spec == Init /\ [][Next]_vars
=============================================================================
