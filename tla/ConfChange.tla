----------------------------- MODULE ConfChange -----------------------------
(***************************************************************************)
(* The configuration of one process, raft/core/confchange/confchange.go,   *)
(* under the lists of changes that raft.applyConfChange takes, and the     *)
(* other steps that write the Progress of its peers: it may gain and lose  *)
(* leadership, append, and hear from its peers. (In the program as it      *)
(* stands only bootstrap makes changes; Raft models those.)                *)
(*                                                                         *)
(* The learner sets and the outgoing half of a joint configuration have no *)
(* producer left (makeLearner, EnterJoint are commented out) and stay      *)
(* empty: a configuration is a set of voters.                              *)
(***************************************************************************)
EXTENDS Progress, VoteQuorum, SequencesExt

CONSTANTS
  Id,          \* node ids
  Self,        \* the id of the process, r.id
  NoId,        \* the NodeID 0 of a change that is not to be applied
  MaxIndex,    \* bound on the last index of the log
  MaxChanges   \* bound on the changes in one ConfChangeV2

ASSUME IdAssumption == IsFiniteSet(Id) /\ Self \in Id /\ NoId \notin Id
ASSUME MaxAssumption == MaxIndex \in Nat \ {0} /\ MaxChanges \in Nat

VARIABLES
  voters,      \* r.trk.Voters[0]
  prs,         \* r.trk.Progress
  lastIndex,   \* of r.raftLog
  leading,     \* r.state is StateLeader
  panicked     \* applyConfChange has panicked

vars == <<voters, prs, lastIndex, leading, panicked>>

ChangeTypes ==
  {"ConfChangeAddNode", "ConfChangeRemoveNode", "ConfChangeUpdateNode", "ConfChangeAddLearnerNode"}

ConfChangeSingle == [Type : ChangeTypes, NodeID : Id \cup {NoId}]

ConfChangeV2 == BoundedSeq(ConfChangeSingle, MaxChanges)
-----------------------------------------------------------------------------
(* Changer. It works on a copy c of the configuration and the progress.     *)

initProgress(c, id, last) ==
  [c EXCEPT !.voters = @ \cup {id},
            !.prs = [j \in DOMAIN @ \cup {id} |-> IF j = id THEN NewProgress(0, last) ELSE @[j]]]

\* Mutant: a server that is tracked already starts anew.
makeVoterAnew(c, id, last) == initProgress(c, id, last)
makeVoter(c, id, last) ==
  IF id \in DOMAIN c.prs THEN [c EXCEPT !.voters = @ \cup {id}] ELSE initProgress(c, id, last)

\* Mutant: the progress of a removed server stays.
removeVoterOnly(c, id) == [c EXCEPT !.voters = @ \ {id}]
\* Mutant: the Changer's own tracker is asked, not its copy.
removeIfTracked(c, id) ==
  IF id \in DOMAIN prs
  THEN [c EXCEPT !.voters = @ \ {id}, !.prs = Restrict(@, DOMAIN @ \ {id})]
  ELSE c
\* Changer.remove; the outgoing configuration, which could keep the progress, is empty.
remove(c, id) ==
  IF id \in DOMAIN c.prs
  THEN [c EXCEPT !.voters = @ \ {id}, !.prs = Restrict(@, DOMAIN @ \ {id})]
  ELSE c

\* The body of the loop of Changer.apply. A type that it does not know is an
\* error; a change of NodeID 0 is skipped, whatever its type.
applyOne(c, cc, last) ==
  CASE cc.NodeID = NoId -> c
    [] cc.NodeID # NoId /\ cc.Type = "ConfChangeAddNode" -> makeVoter(c, cc.NodeID, last)
    [] cc.NodeID # NoId /\ cc.Type = "ConfChangeRemoveNode" -> remove(c, cc.NodeID)
    [] cc.NodeID # NoId /\ cc.Type = "ConfChangeUpdateNode" -> c
    [] OTHER -> [c EXCEPT !.err = TRUE]

apply(c, ccs, last) ==
  LET after[k \in 0..Len(ccs)] ==
        IF k = 0 THEN c ELSE applyOne(after[k - 1], ccs[k], last)
  IN  after[Len(ccs)]

\* Mutant: sizes are compared, not members.
symdiffOfSizes(l, r) == Cardinality(r) - Cardinality(l)
symdiff(l, r) == Cardinality(l \ r) + Cardinality(r \ l)

\* Changer.Simple: the new configuration, or an error.
Simple(c, ccs, last) ==
  LET d == apply(c, ccs, last)
  IN  [voters |-> d.voters,
       prs |-> d.prs,
       err |-> d.err \/ d.voters = {} \/ symdiff(c.voters, d.voters) > 1]
-----------------------------------------------------------------------------
\* Bootstrap appends an entry for each peer before it adds the first of them.
Init ==
  /\ voters = {}
  /\ prs = [j \in {} |-> NewProgress(0, 1)]
  /\ lastIndex \in 1..MaxIndex
  /\ leading = FALSE
  /\ panicked = FALSE

\* raft.maybeSendAppend to every peer, as the Progress shows it: a peer that is
\* probed is sent an entry if there is one at its Next.
probed(p, last) ==
  [id \in DOMAIN p |->
     IF id # Self /\ p[id].Next <= last THEN UpdateOnEntriesSend(p[id], <<last>>) ELSE p[id]]

\* checkAndCopy: what the Changer starts from.
Current == [voters |-> voters, prs |-> prs, err |-> FALSE]

\* raft.applyConfChange panics on an error. Otherwise switchToConfig takes what
\* Simple returns, and a leader that is still a member probes.
applyConfChange(ccs) ==
  LET d == Simple(Current, ccs, lastIndex)
  IN  /\ ~ panicked
      /\ panicked' = d.err
      /\ voters' = IF d.err THEN voters ELSE d.voters
      /\ prs' = CASE d.err -> prs
                  [] ~ d.err /\ leading /\ Self \in d.voters -> probed(d.prs, lastIndex)
                  [] OTHER -> d.prs
      /\ UNCHANGED <<lastIndex, leading>>

\* raft.reset
resetProgress ==
  [id \in voters |-> NewProgress(IF id = Self THEN lastIndex ELSE 0, lastIndex + 1)]

\* becomeLeader of a member, with its empty entry and the appends that follow
becomeLeader ==
  /\ ~ panicked /\ ~ leading
  /\ Self \in voters
  /\ lastIndex < MaxIndex
  /\ leading' = TRUE
  /\ lastIndex' = lastIndex + 1
  /\ prs' = probed([resetProgress EXCEPT ![Self] = BecomeReplicate(@)], lastIndex + 1)
  /\ UNCHANGED <<voters, panicked>>

\* becomeFollower and becomeCandidate
stepDown ==
  /\ ~ panicked
  /\ leading' = FALSE
  /\ prs' = resetProgress
  /\ UNCHANGED <<voters, lastIndex, panicked>>

\* A leader that is a member appends a proposal and sends it.
propose ==
  /\ ~ panicked /\ leading
  /\ Self \in voters
  /\ lastIndex < MaxIndex
  /\ lastIndex' = lastIndex + 1
  /\ prs' = probed(prs, lastIndex + 1)
  /\ UNCHANGED <<voters, leading, panicked>>

\* A follower's log grows and is truncated.
handleAppendEntries ==
  /\ ~ panicked /\ ~ leading
  /\ lastIndex' \in 1..MaxIndex
  /\ UNCHANGED <<voters, prs, leading, panicked>>

\* stepLeader: an MsgAppResp of a tracked server acknowledges index n. What it is
\* sent in return carries no entries and leaves the Progress as it is.
handleAppendResponse(id, n) ==
  LET pr == prs[id]
      updated == MaybeUpdate(pr, n)
      moves == Updates(pr, n) \/ pr.Match = n
  IN  /\ ~ panicked /\ leading
      /\ prs' = [prs EXCEPT ![id] = IF moves /\ pr.State = "StateProbe"
                                    THEN BecomeReplicate(updated)
                                    ELSE updated]
      /\ UNCHANGED <<voters, lastIndex, leading, panicked>>

Next ==
  \/ \E ccs \in ConfChangeV2 : applyConfChange(ccs)
  \/ becomeLeader
  \/ stepDown
  \/ propose
  \/ handleAppendEntries
  \/ \E id \in DOMAIN prs : \E n \in 1..lastIndex : handleAppendResponse(id, n)

Spec == Init /\ [][Next]_vars
-----------------------------------------------------------------------------
(* Properties *)

\* The types, and that the tracker has a Progress for each voter and for nobody
\* else: applyConfChange replaces Config and Progress, which apply changes in
\* separate maps, together.
ConfigOK ==
  /\ voters \subseteq Id
  /\ prs \in [voters -> ProgressRecord]
  /\ lastIndex \in 1..MaxIndex
  /\ leading \in BOOLEAN
  /\ panicked \in BOOLEAN

\* Every quorum of the configuration meets every quorum of the next one, so that
\* two leaders of one term cannot be elected on either side of a change: what
\* Simple's limit to one voter is for.
QuorumsMeet ==
  [][\A P \in SUBSET voters, Q \in SUBSET voters' :
       IsQuorum(voters, P) /\ IsQuorum(voters', Q) => P \cap Q # {}]_vars

\* What a list of changes asks for: the last change that concerns a server, if
\* there is one, decides whether it is a voter.
Concerns(ccs, id) ==
  {k \in DOMAIN ccs : ccs[k].NodeID = id /\ ccs[k].Type \in {"ConfChangeAddNode", "ConfChangeRemoveNode"}}

Asked(ccs, id) ==
  IF Concerns(ccs, id) = {}
  THEN id \in voters
  ELSE ccs[Max(Concerns(ccs, id))].Type = "ConfChangeAddNode"

\* A list of changes is carried out as it asks or not at all, however adding and
\* removing of the same servers is mixed in it (Changer.apply).
ChangesAsAsked ==
  \A ccs \in ConfChangeV2 :
    LET d == Simple(Current, ccs, lastIndex)
    IN  d.err \/ d.voters = {id \in Id : Asked(ccs, id)}

\* What peers have acknowledged is not forgotten by a change that does not remove
\* them: bootstrap's entries are applied twice, the second time perhaps by a
\* leader that has heard from its peers (bootstrap.go:43, makeVoter).
Removes(ccs, id) ==
  \E k \in DOMAIN ccs : ccs[k].NodeID = id /\ ccs[k].Type = "ConfChangeRemoveNode"

KeepsAcknowledged ==
  \A ccs \in ConfChangeV2 :
    LET d == Simple(Current, ccs, lastIndex)
    IN  \A id \in voters : d.err \/ Removes(ccs, id) \/ d.prs[id] = prs[id]
=============================================================================
