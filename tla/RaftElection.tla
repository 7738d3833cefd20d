---------------------------- MODULE RaftElection ----------------------------
(***************************************************************************)
(* The raft core as an implementation of Election.                         *)
(***************************************************************************)
EXTENDS RaftProps

Elements(q) == {q[n] : n \in DOMAIN q}

\* Messages of a node that no other has yet: for the next Ready, and the
\* self-addressed ones that Advance steps.
Held(r) == r.msgs \cup Elements(r.msgsAfterAppend) \cup Elements(r.stepsOnAdvance)

Granted(m) == m.Type = "MsgVoteResp" /\ ~ m.Reject

\* The ballots on their way in a set of messages, and those that a candidate
\* has counted.
Cast(M) == {<<m.From, m.Term, m.To>> : m \in {x \in M : Granted(x)}}
Counted(r) ==
  IF r.state = "StateCandidate"
  THEN {<<k, r.Term, r.id>> : k \in {j \in Server : r.votes[j] = "yes"}}
  ELSE {}

VoteBallots == Cast(net) \cup UNION {Cast(Held(node[i])) \cup Counted(node[i]) : i \in Server}

E == INSTANCE Election WITH
       termOf  <- [i \in Server |-> node[i].Term],
       voteOf  <- [i \in Server |-> node[i].Vote],
       ballots <- VoteBallots,
       leaders <- elected

\* As long as no process restarts, every step of the core is a step of an
\* election: a vote once cast in a term is kept, no ballot is made up, and only
\* a majority's ballots make a leader (raft.Step, canVote, reset, poll, send).
RefinesElection == E!Spec
-----------------------------------------------------------------------------
(* What the refinement rests on *)

\* A vote, and a message of a leader, has a term: term 0 is that of a local
\* message, which raft.Step does not check.
Dated(m) == Granted(m) \/ m.Type \in LeaderMsgs => m.Term > 0

\* The state of node r that an election depends on: only a voter campaigns, who
\* was a candidate has a term, and self-addressed messages are its own.
VoteOK(r) ==
  /\ r.state \in {"StatePreCandidate", "StateCandidate"} => r.voters = Server
  /\ r.state \in {"StateCandidate", "StateLeader"} => r.Term > 0
  /\ \A n \in DOMAIN r.msgsAfterAppend : r.msgsAfterAppend[n].To = r.id
  /\ \A n \in DOMAIN r.stepsOnAdvance : r.stepsOnAdvance[n].To = r.id
  /\ \A m \in Held(r) : Dated(m)

VotesOK ==
  /\ \A i \in Server : VoteOK(node[i])
  /\ \A i \in Server : Leader(i) => <<node[i].Term, i>> \in elected
  /\ \A m \in net : Dated(m)
=============================================================================
