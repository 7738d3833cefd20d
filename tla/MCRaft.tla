------------------------------ MODULE MCRaft ------------------------------
(***************************************************************************)
(* Instances of the raft core for TLC.                                     *)
(***************************************************************************)
EXTENDS RaftReplication, TLC

CONSTANTS s1, s2, s3, v1

\* Servers that are bounded alike are interchangeable.
Symmetry == Permutations(Campaigner)
-----------------------------------------------------------------------------
(* A state that the system reaches, as the start of longer behaviours: all  *)
(* have voted for s3 in term 2, s3 leads, and all of its appends are lost.   *)
(* The campaign that led there is not counted against MaxCampaigns.          *)

Voter(i) ==
  [reset(Bootstrapped(i), 2) EXCEPT !.Vote = s3, !.ready = 3, !.appliedIndex = 3]

Deposed ==
  LET l == bcastAppend(becomeLeader([Voter(s3) EXCEPT !.state = "StateCandidate"]))
  IN  [l EXCEPT !.msgs = {}, !.msgsAfterAppend = <<>>,
                !.prs[s3].Match = 4, !.prs[s3].Next = 5]

DivergedNodes == [i \in Server |-> IF i = s3 THEN Deposed ELSE Voter(i)]

DivergedInit ==
  /\ node = DivergedNodes
  /\ net = {}
  /\ elected = {<<2, s3>>}
  /\ campaigns = 0
  /\ restarts = 0

\* Init of a cluster that s3 joins.
JoiningInit ==
  /\ node = [i \in Server |-> IF i = s3 THEN NewNode(i) ELSE Bootstrapped(i)]
  /\ net = {}
  /\ elected = {}
  /\ campaigns = 0
  /\ restarts = 0

\* All starts
StartsSpec == (Init \/ JoiningInit \/ DivergedInit) /\ [][Next]_vars

\* A run of Spec with this as an invariant shows that DivergedNodes is reached.
NotDiverged == node # DivergedNodes
=============================================================================
