------------------------------ MODULE Election ------------------------------
(***************************************************************************)
(* What an election promises, without messages, roles or logs: a server    *)
(* has a term and a vote in it, the ballots it casts may be lost before    *)
(* they count, and whoever holds the ballots of a majority may lead.       *)
(*                                                                         *)
(* Raft implements this specification under the mapping of RaftElection.   *)
(***************************************************************************)
EXTENDS Integers, FiniteSets

CONSTANTS Server, None

VARIABLES
  termOf,   \* the term each server is in
  voteOf,   \* the server it has voted for in that term, or None
  ballots,  \* <<k, t, c>>: a vote of k for c in term t that may yet be counted
  leaders   \* <<t, c>>: c has led in term t

vars == <<termOf, voteOf, ballots, leaders>>

Majority(Q) == Q \subseteq Server /\ 2 * Cardinality(Q) > Cardinality(Server)

Init ==
  /\ termOf \in [Server -> Nat]
  /\ voteOf = [k \in Server |-> None]
  /\ ballots = {}
  /\ leaders = {}

\* Server k moves to term t, its own or a later one, where it votes for c or
\* for nobody. A vote that is cast stays cast for as long as the term lasts.
Vote(k, t, c) ==
  /\ t \in Nat /\ t >= termOf[k]
  /\ t = termOf[k] => voteOf[k] \in {None, c}
  /\ termOf' = [termOf EXCEPT ![k] = t]
  /\ voteOf' = [voteOf EXCEPT ![k] = c]
  /\ ballots' \in SUBSET (ballots \cup (IF c = None THEN {} ELSE {<<k, t, c>>}))
  /\ UNCHANGED leaders

\* Server c, with the ballots of a majority, leads in its term.
Elect(c) ==
  /\ \E Q \in SUBSET Server :
       Majority(Q) /\ \A k \in Q : <<k, termOf[c], c>> \in ballots
  /\ leaders' = leaders \cup {<<termOf[c], c>>}
  /\ ballots' \in SUBSET ballots
  /\ UNCHANGED <<termOf, voteOf>>

\* The new term may be any later one: it is named by what term becomes.
Next ==
  \E s \in Server :
    \/ \E c \in Server \cup {None} : Vote(s, termOf'[s], c)
    \/ Elect(s)

Spec == Init /\ [][Next]_vars
-----------------------------------------------------------------------------
\* One server leads in a term (raft.Step, stepCandidate, becomeLeader).
OneLeader == \A a, b \in leaders : a[1] = b[1] => a = b

\* A server's ballots of one term are all for the same candidate (canVote).
OneBallot == \A a, b \in ballots : a[1] = b[1] /\ a[2] = b[2] => a = b
=============================================================================
