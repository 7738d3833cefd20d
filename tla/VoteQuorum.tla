---------------------------- MODULE VoteQuorum ----------------------------
(***************************************************************************)
(* Majority and joint vote counting, raft/core/quorum, and the vote map    *)
(* of a ProgressTracker, raft/core/tracker/tracker.go.                     *)
(*                                                                         *)
(* A Go map[uint64]bool of votes is a total function into {"yes", "no",    *)
(* "missing"}: "missing" stands for an id that is not a key of the map.    *)
(***************************************************************************)
EXTENDS Integers, FiniteSets

VoteResults == {"VotePending", "VoteLost", "VoteWon"}

Ballots == {"yes", "no", "missing"}

\* A quorum of the majority configuration c, the q of MajorityConfig.VoteResult.
IsQuorum(c, Q) == Q \subseteq c /\ Cardinality(Q) >= Cardinality(c) \div 2 + 1

Voted(c, votes, ballot) == {id \in c : votes[id] = ballot}

\* MajorityConfig.VoteResult. An empty configuration wins by convention.
MajorityVoteResult(c, votes) ==
  LET q       == Cardinality(c) \div 2 + 1
      votedCnt == Cardinality(Voted(c, votes, "yes"))
      missing  == Cardinality(Voted(c, votes, "missing"))
  IN  CASE c = {} \/ votedCnt >= q -> "VoteWon"
        [] c # {} /\ votedCnt < q /\ votedCnt + missing >= q -> "VotePending"
        [] OTHER -> "VoteLost"

\* JointConfig.VoteResult. Outgoing is {} outside a joint configuration.
JointVoteResult(incoming, outgoing, votes) ==
  LET r1 == MajorityVoteResult(incoming, votes)
      r2 == MajorityVoteResult(outgoing, votes)
  IN  CASE r1 = r2 -> r1
        [] r1 # r2 /\ "VoteLost" \in {r1, r2} -> "VoteLost"
        [] OTHER -> "VotePending"

\* ProgressTracker.ResetVotes
ResetVotes(S) == [id \in S |-> "missing"]

\* Mutant: a rejection is not recorded.
RecordYesOnly(votes, id, v) ==
  IF v /\ votes[id] = "missing" THEN [votes EXCEPT ![id] = "yes"] ELSE votes
\* ProgressTracker.RecordVote: the first answer of a peer is the one kept.
RecordVote(votes, id, v) ==
  IF votes[id] = "missing"
  THEN [votes EXCEPT ![id] = IF v THEN "yes" ELSE "no"]
  ELSE votes
=============================================================================
