----------------------------- MODULE Progress ------------------------------
(***************************************************************************)
(* The leader's view of one peer, raft/core/tracker/progress.go.           *)
(* StateSnapshot is never entered (BecomeSnapshot has no caller left) and  *)
(* RecentActive is written but decides nothing: both are left out.         *)
(***************************************************************************)
EXTENDS Integers, FiniteSetsExt

ProgressStates == {"StateProbe", "StateReplicate"}

ProgressRecord ==
  [Match : Nat, Next : Nat, State : ProgressStates, MsgAppFlowPaused : BOOLEAN]

\* The fresh Progress of raft.reset and of confchange.initProgress.
NewProgress(match, next) ==
  [Match |-> match, Next |-> next, State |-> "StateProbe", MsgAppFlowPaused |-> FALSE]

\* ResetState moves to the given state and clears the pause.
ResetState(pr, state) == [pr EXCEPT !.State = state, !.MsgAppFlowPaused = FALSE]

\* Mutant: Next is left at Match.
BecomeReplicateAtMatch(pr) == [ResetState(pr, "StateReplicate") EXCEPT !.Next = pr.Match]
BecomeReplicate(pr) == [ResetState(pr, "StateReplicate") EXCEPT !.Next = pr.Match + 1]

\* UpdateOnEntriesSend: a probe that carried entries pauses the peer.
UpdateOnEntriesSend(pr, ents) ==
  IF pr.State = "StateProbe" /\ ents # <<>>
  THEN [pr EXCEPT !.MsgAppFlowPaused = TRUE]
  ELSE pr

\* The boolean MaybeUpdate returns, and the Progress it leaves.
Updates(pr, n) == pr.Match < n

\* Mutant: every answer moves Next on by one.
MaybeUpdateByOne(pr, n) ==
  [pr EXCEPT !.Match = IF Updates(pr, n) THEN n ELSE @,
             !.MsgAppFlowPaused = @ /\ ~ Updates(pr, n),
             !.Next = @ + 1]
MaybeUpdate(pr, n) ==
  [pr EXCEPT !.Match = IF Updates(pr, n) THEN n ELSE @,
             !.MsgAppFlowPaused = @ /\ ~ Updates(pr, n),
             !.Next = IF @ > n + 1 THEN @ ELSE n + 1]

IsPaused(pr) == pr.MsgAppFlowPaused
=============================================================================
