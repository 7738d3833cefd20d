----------------------------- MODULE RaftProps -----------------------------
(***************************************************************************)
(* What the raft core must never do, and what it must eventually do.       *)
(***************************************************************************)
EXTENDS Raft

Leader(i) == node[i].state = "StateLeader"

\* Messages that have been produced and not yet stepped: on their way, or
\* waiting in their sender for the next Ready.
InFlight == net \cup UNION {node[i].msgs : i \in Server}

Grants == {m \in InFlight : m.Type = "MsgVoteResp" /\ ~ m.Reject}
-----------------------------------------------------------------------------
NodeRecord ==
  [id : Server, Term : Nat, Vote : Server \cup {None},
   state : {"StateFollower", "StatePreCandidate", "StateCandidate", "StateLeader"},
   lead : Server \cup {None}, log : Seq(Entry), committed : Nat,
   voters : {{}, Server},
   prs : [Server -> ProgressRecord] \cup [{} -> ProgressRecord],
   votes : [Server -> Ballots], msgs : SUBSET Messages,
   msgsAfterAppend : Seq(Messages), stepsOnAdvance : Seq(Messages),
   phase : {"idle", "handed", "advancing"}, ready : Nat, appliedIndex : Nat,
   waiting : BOOLEAN, panicked : BOOLEAN]

\* r is a state of node i: every field has its type; the Progress map has an
\* entry for each voter, and a peer is never probed below the index it is known
\* to match.
NodeOK(i, r) ==
  /\ r \in NodeRecord /\ r.id = i
  /\ r.prs \in [r.voters -> ProgressRecord]
  /\ \A j \in r.voters : r.prs[j].Next > r.prs[j].Match

\* Every node is well formed, through every handler and Ready cycle, and so is
\* every message in flight.
TypeOK ==
  /\ node \in [Server -> NodeRecord]
  /\ \A i \in Server : NodeOK(i, node[i])
  /\ net \subseteq Messages
  /\ elected \subseteq Nat \X Server
  /\ campaigns \in 0..MaxCampaigns /\ restarts \in 0..MaxRestarts
-----------------------------------------------------------------------------
(* Elections *)

\* At most one server ever becomes leader of a term (stepCandidate, poll and
\* becomeLeader, over all interleavings of campaigns and late votes).
ElectionSafety ==
  \A a, b \in elected : a[1] = b[1] => a = b

\* No server has votes in flight for two candidates of one term: raft.Step
\* grants under canVote, reset keeps the vote within a term.
OneVotePerTerm ==
  \A a, b \in Grants : a.From = b.From /\ a.Term = b.Term => a.To = b.To

\* A server only takes for leader, and forwards proposals to, a server that
\* was elected in its term (the lead argument of every becomeFollower).
LeadIsElected ==
  \A i \in Server : node[i].lead # None => <<node[i].Term, node[i].lead>> \in elected
-----------------------------------------------------------------------------
(* Replication *)

\* The first k entries of two logs are the same.
Agree(a, b, k) == k <= Len(a) /\ k <= Len(b) /\ \A n \in 1..k : a[n] = b[n]

\* Two logs with the same term at an index agree up to it (raftLog.maybeAppend
\* and its matchTerm, findConflict and truncateAndAppend).
LogMatching ==
  \A i, j \in Server :
    \A k \in DOMAIN node[i].log \cap DOMAIN node[j].log :
      node[i].log[k].Term = node[j].log[k].Term => Agree(node[i].log, node[j].log, k)

\* What a leader believes a peer of its own term to hold, the peer holds
\* (stepLeader on a delayed MsgAppResp, Progress.MaybeUpdate).
MatchSound ==
  \A i, j \in Server :
    /\ Leader(i) /\ node[j].Term = node[i].Term
    => Agree(node[i].log, node[j].log, node[i].prs[j].Match)

\* The index before a peer's Next is one the leader's log has a term for: only
\* then does maybeSendAppend send anything, and nothing else would ever move
\* Next back (the rejection case of stepLeader is a TODO, the snapshot commented
\* out). Repeated and late MsgAppResp move Next.
PeersStayReachable ==
  \A i \in Server : Leader(i) =>
    \A j \in node[i].voters : termKnown(node[i].log, node[i].prs[j].Next - 1)

\* k is an index of leader i's own term that a majority has acknowledged to it.
Acknowledged(i, k) ==
  /\ k \in DOMAIN node[i].log
  /\ node[i].log[k].Term = node[i].Term
  /\ IsQuorum(node[i].voters, {j \in node[i].voters : node[i].prs[j].Match >= k})

\* A leader of a later term has every entry that an earlier one, which may not
\* know of it yet, has got acknowledged by a majority (isUpToDate, canVote).
LeaderCompleteness ==
  \A i, j \in Server :
    Leader(i) /\ Leader(j) /\ node[i].Term < node[j].Term =>
      \A k \in DOMAIN node[i].log : Acknowledged(i, k) => Agree(node[i].log, node[j].log, k)

\* An entry of the current term, and all before it, stay where they are for as
\* long as the term lasts: no late or repeated MsgApp takes back what was
\* appended under the same leader (raft.Step on a lower term, findConflict on
\* a MsgApp that brings nothing new).
KeepsEntriesOfTerm ==
  [][\A i \in Server :
       node'[i].Term = node[i].Term =>
         \A k \in DOMAIN node[i].log :
           node[i].log[k].Term = node[i].Term => Agree(node[i].log, node'[i].log, k)]_vars
-----------------------------------------------------------------------------
(* The event loop *)

\* No Panicf is reached: truncating a committed entry, committing past the
\* log's end, a vote message without a term, a message to oneself, a leader
\* that campaigns, a follower that becomes leader.
NoPanic == \A i \in Server : ~ node[i].panicked
-----------------------------------------------------------------------------
(* Progress *)

\* What the scheduling of the code promises of one node: the select of
\* node.run does not starve a channel that stays ready, and serveChannels
\* takes every Ready and answers it with an Advance. At most one of the three
\* steps of a node is enabled at a time.
Loop(i) == Ready(i) \/ Publish(i) \/ Advance(i)
LoopFairness == \A i \in Server : WF_vars(Loop(i))

LiveSpec == Spec /\ LoopFairness

\* Every message a handler produces is handed to the transport: the cycle of
\* Ready, publishEntries and Advance never gets stuck (node.run, serveChannels).
MessagesGoOut ==
  \A i \in Server : (node[i].msgs # {}) ~> (node[i].msgs = {})

\* A transport that delivers what it is given.
DeliveryFairness ==
  \A i \in Server : WF_vars(\E m \in net : Receive(i, m))

Campaigning(i) == node[i].state \in {"StatePreCandidate", "StateCandidate"}

\* Over a transport that loses nothing every campaign ends: each voter answers,
\* a rejection is an answer, and a higher term ends it too (poll, VoteResult).
CampaignsEnd ==
  DeliveryFairness => \A i \in Server : Campaigning(i) ~> ~ Campaigning(i)
-----------------------------------------------------------------------------
(* What the comments promise and the code does not do *)

\* tracker.go: Committed is the largest index a majority has acknowledged. A
\* leader that counts the acknowledgements of its own entries has committed
\* what a majority acknowledged.
CommittedCoversAcks ==
  \A i \in Server : Leader(i) =>
    \A k \in DOMAIN node[i].log : Acknowledged(i, k) => k <= node[i].committed

\* node.go, raftNode.go: Propose blocks until the state machine has accepted the
\* proposal. The goroutine of serveChannels gets out of an accepted Propose and
\* takes the next one.
ProposeReturns ==
  \A i \in Server : node[i].waiting ~> ~ node[i].waiting
=============================================================================
