-------------------------- MODULE RaftReplication --------------------------
(***************************************************************************)
(* What log matching, the soundness of a leader's Progress and the         *)
(* completeness of later leaders rest on: the invariants of a cluster in   *)
(* which no process restarts.                                              *)
(*                                                                         *)
(* A log is seen as the set of its links, each an entry with its index and *)
(* the term of the entry before it. The links of all logs and of all       *)
(* appends on their way fit together, so that none of the logs of the past *)
(* needs to be remembered. What a majority of the logs holds implements    *)
(* ChosenLog.                                                              *)
(***************************************************************************)
EXTENDS RaftElection

\* The log that Bootstrap gives a process: an entry for each peer.
BootLen == Cardinality(Server)
BootEntry == [Term |-> 1, Data |-> ConfEntry]

\* Every message that may yet be stepped
Pending == net \cup UNION {Held(node[i]) : i \in Server}

LeadsIn(i, t) == Leader(i) /\ node[i].Term = t
-----------------------------------------------------------------------------
(* Logs *)

Links(log) == {<<k, term(log, k - 1), log[k]>> : k \in DOMAIN log}

\* The link that an append brings
Brings(m) ==
  IF m.Type = "MsgApp" /\ m.Entries # <<>>
  THEN {<<m.Index + 1, m.LogTerm, m.Entries[1]>>} ELSE {}

AllLinks ==
  (UNION {Links(node[i].log) : i \in Server}) \cup (UNION {Brings(m) : m \in Pending})

\* The first entry of a term
Opens(a) == a[2] # a[3].Term

\* An index and a term name one link, a term is opened by one, its first, terms
\* do not decrease, and after the bootstrap entries come those of the leaders F.
LinksOK(L, F) ==
  /\ \A a, b \in L : a[1] = b[1] /\ a[3].Term = b[3].Term => a = b
  /\ \A a, b \in L : Opens(a) /\ Opens(b) /\ a[3].Term = b[3].Term => a = b
  /\ \A a, b \in L : Opens(a) /\ a[3].Term = b[3].Term => a[1] <= b[1]
  /\ \A a \in L : a[2] <= a[3].Term
  /\ \A a \in L : \/ a[1] <= BootLen /\ a[3] = BootEntry
                  \/ a[1] > BootLen /\ \E j \in Server : <<a[3].Term, j>> \in F

\* What a leader keeps of a peer is about its log, and a peer that is still
\* probed is to be sent the entry that opens its term.
PeerOK(r, pr) ==
  /\ pr.Match <= Len(r.log) /\ pr.Next <= Len(r.log) + 1
  /\ pr.State = "StateProbe" =>
       pr.Next \in DOMAIN r.log /\ pr.Next > BootLen /\ r.log[pr.Next].Term = r.Term

PeersOK(r) ==
  r.state = "StateLeader" =>
    /\ \A j \in r.voters : PeerOK(r, r.prs[j])
    /\ r.prs[r.id].State = "StateReplicate" /\ ~ IsPaused(r.prs[r.id])

\* The log of node r is of its time, only a bootstrapped node has a role, and
\* the log of a leader ends in its term.
TermsOK(r) ==
  /\ r.voters = Server => Len(r.log) >= BootLen /\ r.Term >= 1
  /\ r.committed <= BootLen /\ r.committed <= Len(r.log)
  /\ \A k \in DOMAIN r.log : r.log[k].Term \in 1..r.Term
  /\ r.state # "StateFollower" => r.voters = Server
  /\ r.state \in {"StateCandidate", "StateLeader"} => r.Term >= 2
  /\ r.state = "StateLeader" => lastTerm(r.log) = r.Term

\* log is as the sender of append m says.
Tells(log, m) ==
  /\ m.Index <= Len(log) /\ term(log, m.Index) = m.LogTerm
  /\ m.Entries # <<>> => m.Index + 1 <= Len(log) /\ log[m.Index + 1] = m.Entries[1]

\* An append brings at most the entry that opens its term.
AppendShort(m) ==
  m.Type = "MsgApp" =>
    /\ Len(m.Entries) <= 1 /\ m.Commit <= BootLen
    /\ m.Entries # <<>> => m.Entries[1].Term = m.Term /\ m.Index >= BootLen

\* A message that raft.send lets pass
WellSent(m) ==
  /\ m.Type \in VoteMsgs => m.Term > 0
  /\ m.Type = "MsgProp" => m.Term = 0
  /\ m.Type \notin AfterAppend \cup {"MsgProp"} => m.From # m.To

AppendOK(m) ==
  /\ WellSent(m) /\ AppendShort(m)
  /\ m.Type = "MsgApp" /\ LeadsIn(m.From, m.Term) => Tells(node[m.From].log, m)

\* A leader's log holds whatever there is of its term, and who led in a term
\* leads in it for as long as it is in that term.
LogsOK ==
  /\ LinksOK(AllLinks, elected)
  /\ \A i \in Server : TermsOK(node[i]) /\ PeersOK(node[i])
  /\ \A i \in Server : Leader(i) =>
       \A a \in AllLinks : a[3].Term = node[i].Term => a[1] <= Len(node[i].log)
  /\ \A e \in elected : e[1] >= 2 /\ (node[e[2]].Term > e[1] \/ LeadsIn(e[2], e[1]))
  /\ \A m \in Pending : AppendOK(m)
-----------------------------------------------------------------------------
(* Acknowledgements *)

Ack(m) == m.Type = "MsgAppResp" /\ ~ m.Reject

\* An acknowledgement tells a leader what a peer of its term holds.
AckOK(m) ==
  Ack(m) /\ m.Index > 0 =>
    /\ <<m.Term, m.To>> \in elected
    /\ node[m.From].Term >= m.Term
    /\ LeadsIn(m.To, m.Term) =>
         /\ m.Index <= Len(node[m.To].log)
         /\ node[m.From].Term = m.Term => Agree(node[m.To].log, node[m.From].log, m.Index)

AcksOK ==
  /\ MatchSound
  /\ \A i, j \in Server : Leader(i) /\ node[i].prs[j].Match > 0 => node[j].Term >= node[i].Term
  /\ \A m \in Pending : AckOK(m)
-----------------------------------------------------------------------------
(* Choices *)

\* Server q has told leader i that it holds i's log up to k.
Acked(q, i, k) ==
  \/ node[i].prs[q].Match >= k
  \/ \E m \in Pending :
       Ack(m) /\ m.From = q /\ m.To = i /\ m.Term = node[i].Term /\ m.Index >= k

\* A majority has acknowledged k to leader i, or may still do so.
Choosable(i, k) ==
  \E Q \in SUBSET Server :
    /\ IsQuorum(Server, Q)
    /\ \A q \in Q : node[q].Term <= node[i].Term \/ Acked(q, i, k)

\* A log that ends in (index, t), and has the entries of leader i if t is its
\* term, goes beyond the k entries of i.
Beyond(i, k, index, t) == t > node[i].Term \/ (t = node[i].Term /\ index >= k)

Candidate(c, t) == node[c].state = "StateCandidate" /\ node[c].Term = t

\* Who acknowledged k holds it, every log with an entry of a later term holds
\* it, every later term was opened beyond it, and only a candidate whose log
\* goes beyond it has the vote of a server that acknowledged it.
ChosenOK(i, k) ==
  /\ \A q \in Server : Acked(q, i, k) => Agree(node[i].log, node[q].log, k)
  /\ \A q \in Server : lastTerm(node[q].log) > node[i].Term => Agree(node[i].log, node[q].log, k)
  /\ \A a \in AllLinks :
       Opens(a) /\ a[3].Term > node[i].Term => Beyond(i, k, a[1] - 1, a[2])
  /\ \A b \in VoteBallots :
       b[2] > node[i].Term /\ Candidate(b[3], b[2]) /\ Acked(b[1], i, k) =>
         Beyond(i, k, lastIndex(node[b[3]].log), lastTerm(node[b[3]].log))

ChoicesOK ==
  /\ \A e \in elected : \E Q \in SUBSET Server :
       IsQuorum(Server, Q) /\ \A q \in Q : node[q].Term >= e[1]
  /\ \A b \in VoteBallots : node[b[1]].Term >= b[2] /\ node[b[3]].Term >= b[2]
  /\ \A m \in Pending : m.Type = "MsgVote" =>
       /\ node[m.From].Term >= m.Term
       /\ Candidate(m.From, m.Term) =>
            m.Index = lastIndex(node[m.From].log) /\ m.LogTerm = lastTerm(node[m.From].log)
  /\ \A i \in Server : Leader(i) =>
       \A k \in DOMAIN node[i].log :
         node[i].log[k].Term = node[i].Term /\ Choosable(i, k) => ChosenOK(i, k)
-----------------------------------------------------------------------------
(* What is chosen *)

\* The log of server q has link a.
Has(q, a) == a \in Links(node[q].log)

\* A majority has link a, or may still come to have it.
Choice(a) ==
  \E Q \in SUBSET Server :
    IsQuorum(Server, Q) /\ \A q \in Q : node[q].Term <= a[3].Term \/ Has(q, a)

\* A log that ends in (index, t), and has what there is of the term of link a if
\* it has an entry of it, goes as far as a.
Past(a, index, t) == t > a[3].Term \/ (t = a[3].Term /\ index >= a[1])

\* Every log with an entry of a later term has a, every later term was opened past
\* it, and only a candidate whose log goes past it has the vote of a server that
\* has it.
Settled(a) ==
  /\ \A q \in Server : lastTerm(node[q].log) > a[3].Term => Has(q, a)
  /\ \A o \in AllLinks : Opens(o) /\ o[3].Term > a[3].Term => Past(a, o[1] - 1, o[2])
  /\ \A b \in VoteBallots :
       b[2] > a[3].Term /\ Candidate(b[3], b[2]) /\ Has(b[1], a) =>
         Past(a, lastIndex(node[b[3]].log), lastTerm(node[b[3]].log))

\* What a majority has of the entries that a leader wrote is settled, and so is
\* what it may still come to have.
SettledOK == \A a \in AllLinks : a[1] > BootLen /\ Choice(a) => Settled(a)

HasEntry(log, k, e) == k \in DOMAIN log /\ log[k] = e

\* A majority of the logs has entry e at index k.
Chosen(logs, k, e) == IsQuorum(Server, {q \in Server : HasEntry(logs[q], k, e)})

EntriesAt(logs, k) == {logs[q][k] : q \in {p \in Server : k \in DOMAIN logs[p]}}

\* The entries that a majority has, whoever wrote them
MajorityOf(logs) ==
  [k \in {k \in UNION {DOMAIN logs[q] : q \in Server} : \E e \in EntriesAt(logs, k) : Chosen(logs, k, e)}
     |-> CHOOSE e \in EntriesAt(logs, k) : Chosen(logs, k, e)]

Logs == [q \in Server |-> node[q].log]

\* Whether bootstrapped processes make a majority decides what it starts with.
OneLog == INSTANCE ChosenLog WITH
            FirstLogs <- {[k \in 1..n |-> BootEntry] : n \in {0, BootLen}},
            chosen    <- MajorityOf(Logs)

\* What a majority of the logs holds is one log that only grows at its end,
\* whatever leaders come and go and however appends get lost, repeated or late
\* (maybeAppend, truncateAndAppend, isUpToDate, canVote).
RefinesChosenLog == OneLog!Spec

\* The same of a step: of those that change a log, as what a majority holds does
\* not change without.
KeepsChosen ==
  [][Logs' # Logs => OneLog!Choose \/ UNCHANGED MajorityOf(Logs)]_node

\* A leader has what a majority has from the terms up to its own.
LeadersHoldChosen ==
  LET chosen == MajorityOf(Logs) IN
  \A i \in Server : Leader(i) =>
    \A k \in DOMAIN chosen :
      chosen[k].Term <= node[i].Term => HasEntry(node[i].log, k, chosen[k])
=============================================================================
