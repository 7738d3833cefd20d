---------------------------- MODULE RaftLogProof ----------------------------
(***************************************************************************)
(* The logs of the raft core, as long as no process restarts.              *)
(*                                                                         *)
(* The first half says what a handler makes of a node (Writes) and what    *)
(* the messages it sends tell of it (Reports), one lemma per operator of   *)
(* Raft. The second half draws the invariants of RaftReplication from      *)
(* that, whichever handler it was.                                         *)
(***************************************************************************)
EXTENDS RaftReplication, RaftCoreProof

\* log has what append m has brought.
Holds(log, m) ==
  /\ m.Index <= Len(log) /\ term(log, m.Index) = m.LogTerm
  /\ m.Entries # <<>> => m.Index + 1 <= Len(log) /\ log[m.Index + 1].Term = m.Entries[1].Term

\* What message x tells of node s, which has sent it on handling m.
Reports(s, m, x) ==
  /\ WellSent(x) /\ AppendShort(x)
  /\ x.Type = "MsgApp" =>
       s.state = "StateLeader" /\ x.From = s.id /\ x.Term = s.Term /\ Tells(s.log, x)
  /\ Ack(x) /\ x.Index > 0 =>
       /\ x.From = s.id /\ x.Term = s.Term
       /\ \/ s.state = "StateLeader" /\ x.To = s.id /\ x.Index <= Len(s.log)
          \/ /\ m.Type = "MsgApp" /\ m.Term = s.Term /\ x.To = m.From
             /\ \/ x.Index <= s.committed
                \/ x.Index = m.Index + Len(m.Entries) /\ Holds(s.log, m)
  /\ x.Type = "MsgVote" =>
       /\ s.state = "StateCandidate" /\ x.From = s.id /\ x.Term = s.Term
       /\ x.Index = lastIndex(s.log) /\ x.LogTerm = lastTerm(s.log)
  /\ Granted(x) =>
       /\ x.From = s.id /\ x.Term = s.Term
       /\ \/ s.state = "StateCandidate" /\ x.To = s.id
          \/ /\ m.Type = "MsgVote" /\ m.Term = s.Term /\ x.To = m.From
             /\ isUpToDate(s.log, m.Index, m.LogTerm)

\* s is r but for its Progress and the messages that it sends on handling m.
Still(r, s, m) ==
  /\ s.id = r.id /\ s.voters = r.voters /\ s.Term = r.Term /\ s.state = r.state
  /\ s.log = r.log /\ s.committed = r.committed /\ s.panicked = r.panicked
  /\ \A x \in Outbox(s) : x \in Outbox(r) \/ Reports(s, m, x)

\* What a leader thinks its peers hold, it thought before or is told by m.
Credits(r, s, m) ==
  \A j \in s.voters \ {s.id} :
    \/ s.prs[j].Match = 0
    \/ r.state = "StateLeader" /\ s.prs[j].Match = r.prs[j].Match
    \/ Ack(m) /\ m.From = j /\ m.Term \in {0, s.Term} /\ s.prs[j].Match = m.Index

\* s is r after a handler that was given m.
Writes(r, s, m) ==
  /\ s.id = r.id /\ s.voters = r.voters /\ s.panicked = r.panicked /\ s.Term >= r.Term
  /\ r.state = "StateLeader" /\ s.Term = r.Term => s.state = "StateLeader"
  /\ s.state = "StateLeader" =>
       /\ s.Term = r.Term /\ Credits(r, s, m)
       /\ \/ r.state = "StateLeader" /\ s.log = r.log
          \/ /\ r.state \in {"StateCandidate", "StateLeader"}
             /\ \E d \in Data : s.log = Append(r.log, [Term |-> s.Term, Data |-> d])
  /\ s.state = "StateCandidate" =>
       s.log = r.log /\ (s.Term = r.Term => r.state = "StateCandidate")
  /\ s.state # "StateLeader" =>
       \/ s.log = r.log
       \/ /\ s.state = "StateFollower" /\ m.Type = "MsgApp" /\ m.Term = s.Term
          /\ matchTerm(r.log, m.Index, m.LogTerm)
          /\ s.log = appended(r.log, m.Index, m.Entries)
  /\ \A x \in Outbox(s) : x \in Outbox(r) \/ Reports(s, m, x)

\* What is known of a message m that node r is given.
Arrives(r, m) ==
  /\ m \in Messages /\ m.To = r.id /\ WellSent(m) /\ AppendShort(m) /\ Dated(m)
  /\ m.Type = "MsgProp" /\ r.state = "StateFollower" => r.lead # r.id
  /\ Ack(m) /\ r.state = "StateLeader" /\ m.Term \in {0, r.Term} => m.Index <= Len(r.log)
-----------------------------------------------------------------------------
(* Composition *)

LEMMA StillSelf ==
  ASSUME NEW r, NEW m
  PROVE  Still(r, r, m)
BY DEF Still

\* What a message tells of a node holds of one that is the node still.
LEMMA StillTransitive ==
  ASSUME NEW r, NEW s, NEW u, NEW m, Still(r, s, m), Still(s, u, m)
  PROVE  Still(r, u, m)
<1>1. ASSUME NEW x, Reports(s, m, x)
      PROVE  Reports(u, m, x)
  BY <1>1 DEF Still, Reports
<1> QED
  BY <1>1 DEF Still

LEMMA StillTerms ==
  ASSUME NEW r, NEW s, NEW m, Still(r, s, m), TermsOK(r)
  PROVE  TermsOK(s)
BY DEF Still, TermsOK

\* A handler may go on once the log is written.
LEMMA WritesStill ==
  ASSUME NEW r, NEW h, NEW s, NEW m, Writes(r, h, m), Still(h, s, m),
         h.state = "StateLeader" => \A j \in h.voters : s.prs[j].Match = h.prs[j].Match
  PROVE  Writes(r, s, m)
<1>1. ASSUME NEW x, Reports(h, m, x)
      PROVE  Reports(s, m, x)
  BY <1>1 DEF Still, Reports
<1>2. h.state = "StateLeader" /\ Credits(r, h, m) => Credits(r, s, m)
  BY DEF Credits, Still
<1> QED
  BY <1>1, <1>2 DEF Writes, Still

\* A handler that changes nothing but what it sends
LEMMA StillWrites ==
  ASSUME NEW i, NEW r, NodeOK(i, r), NEW s, NEW m, Still(r, s, m),
         r.state = "StateLeader" => Credits(r, s, m)
  PROVE  Writes(r, s, m)
<1>1. r.Term \in Nat
  BY Fields
<1> QED
  BY <1>1 DEF Still, Writes
-----------------------------------------------------------------------------
(* Sending *)

\* What the handlers say of the messages they make, before send stamps them
LEMMA StampFields ==
  ASSUME NEW i, NEW r, NodeOK(i, r), NEW m \in Unsent
  PROVE  /\ stamp(r, m).Type = m.Type /\ stamp(r, m).To = m.To
         /\ stamp(r, m).From = (IF m.From = None THEN r.id ELSE m.From)
         /\ stamp(r, m).Term = (IF m.Type \in VoteMsgs \cup {"MsgProp"} THEN m.Term ELSE r.Term)
         /\ stamp(r, m).Index = m.Index /\ stamp(r, m).LogTerm = m.LogTerm
         /\ stamp(r, m).Entries = m.Entries /\ stamp(r, m).Commit = m.Commit
         /\ stamp(r, m).Reject = m.Reject
BY DEF stamp, Unsent

\* send, where it does not panic, adds one message.
LEMMA SendStill ==
  ASSUME NEW i, NEW r, NodeOK(i, r), NEW m, NEW x \in Unsent, ~ sendPanics(r, x),
         Reports(r, m, stamp(r, x))
  PROVE  Still(r, send(r, x), m) /\ send(r, x).prs = r.prs
<1> DEFINE y == stamp(r, x)
<1>1. r.msgsAfterAppend \in Seq(Messages) /\ y \in Messages
  BY Fields, StampType
<1> HIDE DEF y
<1>2. ASSUME NEW s, Outbox(s) = Outbox(r) \cup {y},
             s.id = r.id /\ s.voters = r.voters /\ s.Term = r.Term /\ s.state = r.state,
             s.log = r.log /\ s.committed = r.committed /\ s.panicked = r.panicked
      PROVE  Still(r, s, m)
  BY <1>2 DEF Still, Reports, y
<1>3. CASE x.To = r.id
  <2>1. PICK q : q = Append(r.msgsAfterAppend, y)
    OBVIOUS
  <2>2. Elements(q) = Elements(r.msgsAfterAppend) \cup {y}
    BY <1>1, <2>1, AppendElements
  <2>3. PICK s : s = [r EXCEPT !.msgsAfterAppend = q]
    OBVIOUS
  <2>4. /\ Outbox(s) = Outbox(r) \cup {y}
        /\ s.id = r.id /\ s.voters = r.voters /\ s.Term = r.Term /\ s.state = r.state
        /\ s.log = r.log /\ s.committed = r.committed /\ s.panicked = r.panicked
        /\ s.prs = r.prs
    BY <2>2, <2>3 DEF NodeOK, NodeRecord, Outbox
  <2>5. send(r, x) = s
    BY <1>3, <2>1, <2>3 DEF send, y
  <2> QED BY <1>2, <2>4, <2>5
<1>4. CASE x.To # r.id
  <2>1. PICK s : s = [r EXCEPT !.msgs = @ \cup {y}]
    OBVIOUS
  <2>2. /\ Outbox(s) = Outbox(r) \cup {y}
        /\ s.id = r.id /\ s.voters = r.voters /\ s.Term = r.Term /\ s.state = r.state
        /\ s.log = r.log /\ s.committed = r.committed /\ s.panicked = r.panicked
        /\ s.prs = r.prs
    BY <2>1 DEF NodeOK, NodeRecord, Outbox
  <2>3. send(r, x) = s
    BY <1>4, <2>1 DEF send, y
  <2> QED BY <1>2, <2>2, <2>3
<1> QED
  BY <1>3, <1>4

LEMMA SendAllStill ==
  ASSUME NEW i, NEW r, NodeOK(i, r), NEW m, NEW M \in SUBSET Unsent,
         \A x \in M : ~ sendPanics(r, x) /\ Reports(r, m, stamp(r, x))
  PROVE  Still(r, sendAll(r, M), m) /\ sendAll(r, M).prs = r.prs
<1> DEFINE S == {stamp(r, x) : x \in M}
<1>1. \A y \in S : Reports(r, m, y)
  OBVIOUS
<1> HIDE DEF S
<1>2. PICK s : s = [r EXCEPT !.msgs = @ \cup S]
  OBVIOUS
<1>3. /\ Outbox(s) = Outbox(r) \cup S
      /\ s.id = r.id /\ s.voters = r.voters /\ s.Term = r.Term /\ s.state = r.state
      /\ s.log = r.log /\ s.committed = r.committed /\ s.panicked = r.panicked
      /\ s.prs = r.prs
  BY <1>2 DEF NodeOK, NodeRecord, Outbox
<1>4. Still(r, s, m)
  BY <1>1, <1>3 DEF Still, Reports
<1>5. sendAll(r, M) = s
  BY <1>2 DEF sendAll, S
<1> QED
  BY <1>3, <1>4, <1>5

\* A message that is no append, no vote, no request and acknowledges nothing
LEMMA SendPlain ==
  ASSUME NEW i, NEW r, NodeOK(i, r), NEW m, NEW x \in Unsent,
         x.From = None, x.Term = 0,
         x.Type \in {"MsgAppResp", "MsgHeartbeat", "MsgHeartbeatResp"},
         Ack(x) => x.Index = 0, x.Type = "MsgAppResp" \/ x.To # r.id
  PROVE  ~ sendPanics(r, x) /\ Reports(r, m, stamp(r, x))
<1>1. ~ sendPanics(r, x)
  BY DEF sendPanics, VoteMsgs, AfterAppend
<1>2. WellSent(stamp(r, x))
  <2>1. r.id \in Server /\ None \notin Server
    BY Fields, ServerAssumption
  <2> QED BY <2>1, StampFields DEF WellSent, VoteMsgs, AfterAppend
<1>3. Reports(r, m, stamp(r, x))
  BY <1>2, StampFields DEF Reports, AppendShort, Ack, Granted
<1> QED
  BY <1>1, <1>3

\* What maybeSendAppend sends to a peer
LEMMA AppendToReports ==
  ASSUME NEW i, NEW r, NodeOK(i, r), TermsOK(r), PeersOK(r), r.state = "StateLeader",
         NEW to \in Peers(r), NEW m
  PROVE  /\ appendTo(r, to) \in Unsent /\ termKnown(r.log, r.prs[to].Next - 1)
         /\ ~ sendPanics(r, appendTo(r, to))
         /\ Reports(r, m, stamp(r, appendTo(r, to)))
<1> DEFINE x == appendTo(r, to)
           pr == r.prs[to]
<1>1. /\ to \in Server /\ to \in r.voters /\ to # r.id /\ PeerOK(r, pr) /\ ProgressOK(pr)
      /\ r.log \in Seq(Entry) /\ Len(r.log) \in Nat /\ r.id \in Server /\ None \notin Server
  BY Fields, ServerAssumption, LenProperties DEF Peers, PeersOK
<1>2. pr.Next \in Nat /\ pr.Match \in Nat /\ pr.Next > pr.Match
      /\ pr.State \in {"StateProbe", "StateReplicate"}
  BY <1>1 DEF ProgressOK, ProgressRecord, ProgressStates
<1>3. termKnown(r.log, pr.Next - 1)
  BY <1>1, <1>2 DEF termKnown, PeerOK
<1>4. x \in Unsent
  BY <1>1, <1>3, AppendToType
<1>5. /\ x.Type = "MsgApp" /\ x.From = None /\ x.To = to /\ x.Term = 0
      /\ x.Index = pr.Next - 1 /\ x.LogTerm = term(r.log, pr.Next - 1)
      /\ x.Entries = (IF pr.State = "StateReplicate" THEN <<>> ELSE entries(r.log, pr.Next))
      /\ x.Commit = r.committed
  BY DEF appendTo, Message
<1> HIDE DEF x, pr
<1>6. ~ sendPanics(r, x)
  BY <1>1, <1>5 DEF sendPanics, VoteMsgs, AfterAppend
<1>7. PICK y : y = stamp(r, x)
  OBVIOUS
<1>8. /\ y.Type = "MsgApp" /\ y.From = r.id /\ y.To = to /\ y.Term = r.Term
      /\ y.Index = x.Index /\ y.LogTerm = x.LogTerm /\ y.Entries = x.Entries
      /\ y.Commit = x.Commit
  BY <1>4, <1>5, <1>7, StampFields DEF VoteMsgs
<1>9. WellSent(y)
  BY <1>1, <1>8 DEF WellSent, VoteMsgs, AfterAppend
<1>10. y.Commit <= BootLen
  BY <1>5, <1>8 DEF TermsOK
<1>11. x.Entries = <<>> => Tells(r.log, y) /\ AppendShort(y)
  BY <1>1, <1>2, <1>5, <1>8, <1>10, EmptySeq DEF Tells, AppendShort, PeerOK
<1>12. ASSUME x.Entries # <<>>
       PROVE  Tells(r.log, y) /\ AppendShort(y)
  <2>1. pr.State = "StateProbe" /\ x.Entries = entries(r.log, pr.Next)
    BY <1>2, <1>5, <1>12
  <2>2. /\ pr.Next \in DOMAIN r.log /\ pr.Next > BootLen /\ r.log[pr.Next].Term = r.Term
        /\ pr.Next \in 1..Len(r.log)
    BY <1>1, <2>1 DEF PeerOK
  <2>3. x.Entries = <<r.log[pr.Next]>>
    BY <1>2, <2>1, <2>2 DEF entries, lastIndex
  <2>4. Len(x.Entries) = 1 /\ x.Entries[1] = r.log[pr.Next]
    BY <2>3
  <2>5. x.Index + 1 = pr.Next /\ x.Index <= Len(r.log) /\ x.Index >= BootLen
    <3>1. BootLen \in Nat
      BY ServerAssumption, FS_CardinalityType DEF BootLen
    <3> QED BY <1>1, <1>2, <1>5, <2>2, <3>1
  <2>6. /\ y.Index + 1 = pr.Next /\ y.LogTerm = term(r.log, y.Index)
        /\ Len(y.Entries) = 1 /\ y.Entries[1] = r.log[pr.Next]
    BY <1>5, <1>8, <2>4, <2>5
  <2>7. Tells(r.log, y)
    BY <1>8, <2>2, <2>5, <2>6 DEF Tells
  <2>8. AppendShort(y)
    BY <1>8, <1>10, <2>2, <2>5, <2>6 DEF AppendShort
  <2> QED BY <2>7, <2>8
<1>13. Reports(r, m, y)
  BY <1>8, <1>9, <1>11, <1>12 DEF Reports, Ack, Granted
<1> QED
  BY <1>3, <1>4, <1>6, <1>7, <1>13 DEF x, pr

LEMMA SendUpdateOK ==
  ASSUME NEW r, NEW pr, PeerOK(r, pr), NEW ents, pr \in ProgressRecord
  PROVE  /\ PeerOK(r, UpdateOnEntriesSend(pr, ents))
         /\ UpdateOnEntriesSend(pr, ents).Match = pr.Match
BY DEF PeerOK, UpdateOnEntriesSend, ProgressRecord

\* Peers whose Progress stays good, in a node whose log stays
LEMMA PeersStill ==
  ASSUME NEW r, PeersOK(r), NEW s, s.id = r.id, s.voters = r.voters, s.Term = r.Term,
         s.log = r.log, s.state = r.state, r.id \in r.voters,
         \A j \in r.voters : PeerOK(r, s.prs[j]), s.prs[r.id] = r.prs[r.id]
  PROVE  PeersOK(s)
BY DEF PeersOK, PeerOK

LEMMA MaybeSendAppendStill ==
  ASSUME NEW i, NEW r, NodeOK(i, r), TermsOK(r), PeersOK(r), r.state = "StateLeader",
         NEW dests \in SUBSET Peers(r), NEW sendIfEmpty, NEW m,
         NEW s, s = maybeSendAppend(r, dests, sendIfEmpty)
  PROVE  /\ Still(r, s, m) /\ PeersOK(s)
         /\ \A j \in r.voters : s.prs[j].Match = r.prs[j].Match
<1> DEFINE known == {to \in dests : termKnown(r.log, r.prs[to].Next - 1)}
           sent  == {to \in known : sendIfEmpty \/ appendTo(r, to).Entries # <<>>}
           M     == {appendTo(r, to) : to \in sent}
           prs   == [to \in r.voters |->
                       IF to \in sent
                       THEN UpdateOnEntriesSend(r.prs[to], appendTo(r, to).Entries)
                       ELSE r.prs[to]]
           t     == sendAll(r, M)
<1>1. M \in SUBSET Unsent
  BY AppendToReports
<1>2. \A x \in M : ~ sendPanics(r, x) /\ Reports(r, m, stamp(r, x))
  BY AppendToReports
<1>3. s = [t EXCEPT !.prs = prs]
  BY DEF maybeSendAppend
<1>4. r.id \notin sent /\ r.id \in r.voters
  BY Fields DEF Peers, TermsOK
<1>5. \A j \in r.voters : PeerOK(r, r.prs[j]) /\ r.prs[j] \in ProgressRecord
  BY Fields DEF PeersOK, ProgressOK
<1>6. \A j \in r.voters : PeerOK(r, prs[j]) /\ prs[j].Match = r.prs[j].Match
  <2> HIDE DEF sent
  <2> QED BY <1>5, SendUpdateOK
<1>7. prs[r.id] = r.prs[r.id]
  BY <1>4
<1> HIDE DEF M, prs
<1>8. Still(r, t, m) /\ t.prs = r.prs /\ NodeOK(i, t)
  BY <1>1, <1>2, SendAllStill, SendAllType
<1> HIDE DEF t
<1>9. /\ s.id = t.id /\ s.voters = t.voters /\ s.Term = t.Term /\ s.state = t.state
      /\ s.log = t.log /\ s.committed = t.committed /\ s.panicked = t.panicked
      /\ Outbox(s) = Outbox(t) /\ s.prs = prs
  BY <1>3, <1>8 DEF NodeOK, NodeRecord, Outbox
<1>10. Still(r, s, m)
  BY <1>8, <1>9 DEF Still, Reports
<1>11. PeersOK(s)
  BY <1>4, <1>6, <1>7, <1>9, <1>10, PeersStill DEF Still
<1> QED
  BY <1>6, <1>9, <1>10, <1>11

LEMMA BroadcastStill ==
  ASSUME NEW i, NEW r, NodeOK(i, r), TermsOK(r), PeersOK(r), r.state = "StateLeader", NEW m
  PROVE  /\ Still(r, bcastAppend(r), m) /\ PeersOK(bcastAppend(r))
         /\ \A j \in r.voters : bcastAppend(r).prs[j].Match = r.prs[j].Match
         /\ Still(r, bcastHeartbeat(r), m) /\ bcastHeartbeat(r).prs = r.prs
<1>1. /\ Still(r, bcastAppend(r), m) /\ PeersOK(bcastAppend(r))
      /\ \A j \in r.voters : bcastAppend(r).prs[j].Match = r.prs[j].Match
  <2>1. PICK dests, always : dests = Peers(r) /\ always = TRUE
    OBVIOUS
  <2>2. PICK s : s = maybeSendAppend(r, dests, always)
    OBVIOUS
  <2>3. dests \in SUBSET Peers(r)
    BY <2>1
  <2>4. /\ Still(r, s, m) /\ PeersOK(s)
        /\ \A j \in r.voters : s.prs[j].Match = r.prs[j].Match
    BY <2>2, <2>3, MaybeSendAppendStill
  <2>5. s = bcastAppend(r)
    BY <2>1, <2>2 DEF bcastAppend
  <2> QED BY <2>4, <2>5
<1> DEFINE commit(to) == IF r.prs[to].Match < r.committed THEN r.prs[to].Match ELSE r.committed
           beat(to) == [Message("MsgHeartbeat", to) EXCEPT !.Commit = commit(to)]
           M == {beat(to) : to \in Peers(r)}
<1>2. \A to \in Peers(r) : commit(to) \in Nat /\ to \in Server /\ to # r.id
  BY Fields DEF ProgressOK, ProgressRecord, Peers
<1>3. "MsgHeartbeat" \in MessageTypes \ {"MsgProp"}
  BY DEF MessageTypes, LeaderMsgs
<1>4. ASSUME NEW to \in Peers(r)
      PROVE  beat(to) \in Unsent /\ ~ sendPanics(r, beat(to)) /\ Reports(r, m, stamp(r, beat(to)))
  <2> HIDE DEF commit
  <2>1. beat(to) \in Unsent
    BY <1>2, <1>3, MessageType
  <2>2. /\ beat(to).Type = "MsgHeartbeat" /\ beat(to).From = None /\ beat(to).To = to
        /\ beat(to).Term = 0
    BY DEF Message
  <2> HIDE DEF beat
  <2> QED BY <1>2, <2>1, <2>2, SendPlain DEF Ack
<1>5. bcastHeartbeat(r) = sendAll(r, M)
  BY DEF bcastHeartbeat
<1>6. M \in SUBSET Unsent /\ \A x \in M : ~ sendPanics(r, x) /\ Reports(r, m, stamp(r, x))
  <2> HIDE DEF beat
  <2> QED BY <1>4
<1> HIDE DEF M
<1> QED
  BY <1>1, <1>5, <1>6, SendAllStill
-----------------------------------------------------------------------------
(* Before a handler writes *)

\* h is r with another leader to follow, another vote counted, or as follower
\* of a term that r does not lead.
Poised(r, h) ==
  /\ h.id = r.id /\ h.voters = r.voters /\ h.log = r.log /\ h.committed = r.committed
  /\ h.panicked = r.panicked /\ Outbox(h) = Outbox(r)
  /\ \/ h.Term = r.Term /\ h.state = r.state /\ h.prs = r.prs
     \/ /\ h.state = "StateFollower" /\ h.Term >= r.Term
        /\ h.Term > r.Term \/ r.state # "StateLeader"

LEMMA PoisedFields ==
  ASSUME NEW i, NEW r, NodeOK(i, r)
  PROVE  /\ \A v : Poised(r, [r EXCEPT !.lead = v])
         /\ \A v : Poised(r, [r EXCEPT !.votes = v])
         /\ \A v : Poised(r, [r EXCEPT !.Vote = v])
         /\ \A n : Poised(r, [r EXCEPT !.appliedIndex = n])
         /\ \A q, ph : Poised(r, [r EXCEPT !.stepsOnAdvance = q, !.phase = ph])
<1>1. \A v : Poised(r, [r EXCEPT !.lead = v])
  BY DEF Poised, NodeOK, NodeRecord, Outbox
<1>2. \A v : Poised(r, [r EXCEPT !.votes = v])
  BY DEF Poised, NodeOK, NodeRecord, Outbox
<1>3. \A v : Poised(r, [r EXCEPT !.Vote = v])
  BY DEF Poised, NodeOK, NodeRecord, Outbox
<1>4. \A n : Poised(r, [r EXCEPT !.appliedIndex = n])
  BY DEF Poised, NodeOK, NodeRecord, Outbox
<1>5. \A q, ph : Poised(r, [r EXCEPT !.stepsOnAdvance = q, !.phase = ph])
  BY DEF Poised, NodeOK, NodeRecord, Outbox
<1> QED
  BY <1>1, <1>2, <1>3, <1>4, <1>5

LEMMA PoisedTerms ==
  ASSUME NEW i, NEW r, NodeOK(i, r), NEW h, NodeOK(i, h), Poised(r, h), TermsOK(r)
  PROVE  TermsOK(h)
<1>1. r.Term \in Nat /\ h.Term \in Nat /\ h.Term >= r.Term
  BY Fields DEF Poised
<1>2. \A t \in 1..r.Term : t \in 1..h.Term
  BY <1>1
<1> QED
  BY <1>1, <1>2 DEF Poised, TermsOK

LEMMA PoisedPeers ==
  ASSUME NEW r, NEW h, Poised(r, h), PeersOK(r)
  PROVE  PeersOK(h)
BY DEF Poised, PeersOK, PeerOK

LEMMA PoisedWrites ==
  ASSUME NEW i, NEW r, NodeOK(i, r), NEW h, NodeOK(i, h), Poised(r, h),
         NEW s, NodeOK(i, s), NEW m, Writes(h, s, m)
  PROVE  Writes(r, s, m)
<1>1. r.Term \in Nat /\ h.Term \in Nat /\ s.Term \in Nat /\ h.Term >= r.Term
  BY Fields DEF Poised
<1>2. CASE h.Term = r.Term /\ h.state = r.state /\ h.prs = r.prs
  BY <1>2 DEF Poised, Writes, Credits
<1>3. CASE /\ h.state = "StateFollower"
           /\ h.Term > r.Term \/ r.state # "StateLeader"
  BY <1>1, <1>3 DEF Poised, Writes
<1> QED
  BY <1>2, <1>3 DEF Poised

LEMMA PoisedIsWritten ==
  ASSUME NEW i, NEW r, NodeOK(i, r), NEW h, NodeOK(i, h), Poised(r, h), NEW m
  PROVE  Writes(r, h, m)
<1>1. Writes(h, h, m)
  BY StillSelf, StillWrites DEF Credits
<1> QED
  BY <1>1, PoisedWrites

\* What a change of role keeps
LEMMA ResetLogs ==
  ASSUME NEW i, NEW r, NodeOK(i, r), NEW t \in Nat, NEW s, s = reset(r, t)
  PROVE  s.log = r.log /\ s.committed = r.committed /\ s.panicked = r.panicked
<1>1. PICK vote, prs, votes :
        s = [r EXCEPT !.Term = t, !.Vote = vote, !.lead = None, !.votes = votes, !.prs = prs]
  BY DEF reset
<1> QED
  BY <1>1 DEF NodeOK, NodeRecord

LEMMA ResetProgress ==
  ASSUME NEW i, NEW r, NodeOK(i, r), NEW t \in Nat, NEW s, s = reset(r, t)
  PROVE  \A j \in r.voters : s.prs[j] =
           NewProgress(IF j = r.id THEN lastIndex(r.log) ELSE 0, lastIndex(r.log) + 1)
<1>1. PICK prs : prs = [j \in r.voters |->
               NewProgress(IF j = r.id THEN lastIndex(r.log) ELSE 0, lastIndex(r.log) + 1)]
  OBVIOUS
<1>2. PICK vote, votes :
        s = [r EXCEPT !.Term = t, !.Vote = vote, !.lead = None, !.votes = votes, !.prs = prs]
  BY <1>1 DEF reset
<1>3. s.prs = prs
  BY <1>2 DEF NodeOK, NodeRecord
<1> QED
  BY <1>1, <1>3

LEMMA FollowerPoised ==
  ASSUME NEW i, NEW r, NodeOK(i, r), NEW t \in Nat, t >= r.Term,
         t > r.Term \/ r.state # "StateLeader", NEW lead, NEW s, s = becomeFollower(r, t, lead)
  PROVE  Poised(r, s) /\ s.state = "StateFollower" /\ s.Term = t /\ s.lead = lead
<1>1. PICK z : z = reset(r, t) /\ NodeOK(i, z)
  BY ResetType
<1>2. s = [z EXCEPT !.lead = lead, !.state = "StateFollower"]
  BY <1>1 DEF becomeFollower
<1>3. /\ s.log = z.log /\ s.committed = z.committed /\ s.panicked = z.panicked /\ s.lead = lead
  BY <1>1, <1>2 DEF NodeOK, NodeRecord
<1>4. Turns(r, s) /\ s.state = "StateFollower" /\ s.Term = t
  BY BecomeFollowerTurns
<1>5. z.log = r.log /\ z.committed = r.committed /\ z.panicked = r.panicked
  BY <1>1, ResetLogs
<1>6. s.id = r.id /\ s.voters = r.voters /\ Outbox(s) = Outbox(r)
  BY <1>4 DEF Turns, Outbox
<1> QED
  BY <1>3, <1>4, <1>5, <1>6 DEF Poised
-----------------------------------------------------------------------------
(* Handlers that leave the log *)

LEMMA HandleHeartbeatStill ==
  ASSUME NEW i, NEW r, NodeOK(i, r), NEW m \in Messages, m.From # r.id, NEW s,
         s = handleHeartbeat(r, m)
  PROVE  Still(r, s, m) /\ s.prs = r.prs
<1>1. m.From \in Server
  BY DEF Messages
<1>2. "MsgHeartbeatResp" \in MessageTypes \ {"MsgProp"}
  BY DEF MessageTypes, ResponseMsgs
<1>3. PICK x \in Unsent : x = Message("MsgHeartbeatResp", m.From)
  BY <1>1, <1>2, MessageType
<1>4. x.Type = "MsgHeartbeatResp" /\ x.From = None /\ x.Term = 0 /\ x.To = m.From
  BY <1>3 DEF Message
<1>5. ~ sendPanics(r, x) /\ Reports(r, m, stamp(r, x))
  BY <1>4, SendPlain DEF Ack
<1> QED
  BY <1>3, <1>5, SendStill DEF handleHeartbeat

LEMMA ForwardStill ==
  ASSUME NEW i, NEW r, NodeOK(i, r), NEW m, Arrives(r, m), m.Type = "MsgProp",
         r.state = "StateFollower", r.lead # None,
         NEW s, s = send(r, [m EXCEPT !.To = r.lead])
  PROVE  Still(r, s, m)
<1>1. PICK x : x = [m EXCEPT !.To = r.lead]
  OBVIOUS
<1>2. /\ x \in Unsent /\ x.Type = "MsgProp" /\ x.Term = 0 /\ x.To # r.id
  BY <1>1, Fields DEF Arrives, Messages, Unsent, WellSent
<1>3. ~ sendPanics(r, x)
  BY <1>2 DEF sendPanics, VoteMsgs
<1>4. Reports(r, m, stamp(r, x))
  BY <1>2, StampFields
     DEF Reports, WellSent, AppendShort, Ack, Granted, VoteMsgs, AfterAppend
<1> QED
  BY <1>1, <1>2, <1>3, <1>4, SendStill

\* An answer to a request, or a vote for oneself
LEMMA SendVoteStill ==
  ASSUME NEW i, NEW r, NodeOK(i, r), NEW m, NEW x \in Unsent, x.From = None,
         x.Type \in {"MsgVoteResp", "MsgPreVoteResp"}, x.Term > 0,
         Granted(x) =>
           /\ x.Term = r.Term
           /\ \/ r.state = "StateCandidate" /\ x.To = r.id
              \/ /\ m.Type = "MsgVote" /\ m.Term = r.Term /\ x.To = m.From
                 /\ isUpToDate(r.log, m.Index, m.LogTerm),
         NEW s, s = send(r, x)
  PROVE  Still(r, s, m) /\ s.prs = r.prs
<1>1. ~ sendPanics(r, x)
  <2>1. x.Term # 0
    BY DEF Unsent
  <2> QED BY <2>1 DEF sendPanics, VoteMsgs, AfterAppend
<1>2. PICK y : y = stamp(r, x)
  OBVIOUS
<1>3. /\ y.Type = x.Type /\ y.From = r.id /\ y.To = x.To /\ y.Term = x.Term
      /\ y.Reject = x.Reject
  BY <1>2, StampFields DEF VoteMsgs
<1>4. Reports(r, m, y)
  BY <1>3 DEF Reports, WellSent, AppendShort, Ack, Granted, VoteMsgs, AfterAppend
<1> QED
  BY <1>1, <1>2, <1>4, SendStill

LEMMA LowerTermStill ==
  ASSUME NEW i, NEW r, NodeOK(i, r), NEW m \in Messages, isStale(r, m),
         NEW s, s = lowerTerm(r, m)
  PROVE  Still(r, s, m) /\ s.prs = r.prs
<1> DEFINE stale == (CheckQuorum \/ PreVote) /\ m.Type \in LeaderMsgs
           app == Message("MsgAppResp", m.From)
           pre == [Message("MsgPreVoteResp", m.From) EXCEPT !.Term = r.Term, !.Reject = TRUE]
<1>1. m.From \in Server /\ r.Term \in Nat /\ r.Term > 0
  <2>1. m.From \in Server /\ m.Term \in Nat /\ r.Term \in Nat
    BY Fields DEF Messages, Unsent
  <2> QED BY <2>1 DEF isStale
<1>2. {"MsgAppResp", "MsgPreVoteResp"} \subseteq MessageTypes \ {"MsgProp"}
  BY DEF MessageTypes, ResponseMsgs, AfterAppend
<1>3. /\ app \in Unsent /\ app.Type = "MsgAppResp" /\ app.From = None /\ app.Term = 0
      /\ app.Index = 0
  BY <1>1, <1>2, MessageType DEF Message
<1>4. pre \in Unsent /\ pre.Type = "MsgPreVoteResp" /\ pre.From = None /\ pre.Term = r.Term
  BY <1>1, <1>2, MessageType DEF Message
<1>5. m.Type = "MsgPreVote" => ~ stale
  BY DEF LeaderMsgs
<1>6. lowerTerm(r, m) =
        IF stale THEN send(r, app) ELSE IF m.Type = "MsgPreVote" THEN send(r, pre) ELSE r
  BY <1>5 DEF lowerTerm
<1> HIDE DEF stale, app, pre
<1>7. Still(r, send(r, app), m) /\ send(r, app).prs = r.prs
  BY <1>3, SendPlain, SendStill
<1>8. Still(r, send(r, pre), m) /\ send(r, pre).prs = r.prs
  <2>1. ~ Granted(pre)
    BY <1>4 DEF Granted
  <2> QED BY <1>1, <1>4, <2>1, SendVoteStill
<1> QED
  BY <1>6, <1>7, <1>8, StillSelf

\* A vote or a rejection; a node without a term has an empty log, than which
\* every log is as recent.
LEMMA HandleVoteStill ==
  ASSUME NEW i, NEW r, NodeOK(i, r), TermsOK(r), NEW m \in Messages, m.Term > 0,
         m.Type \in {"MsgVote", "MsgPreVote"}, m.Term >= r.Term,
         m.Type = "MsgVote" => m.Term = r.Term, NEW s, s = handleVote(r, m)
  PROVE  Still(r, s, m) /\ s.prs = r.prs
<1> DEFINE resp    == Message(voteRespMsgType(m.Type), m.From)
           grant   == [resp EXCEPT !.Term = m.Term]
           reject  == [resp EXCEPT !.Term = r.Term, !.Reject = TRUE]
           granted == canVote(r, m) /\ isUpToDate(r.log, m.Index, m.LogTerm)
<1>1. /\ m.From \in Server /\ m.Term \in Nat /\ r.Term \in Nat
      /\ m.Index \in Nat /\ m.LogTerm \in Nat /\ r.log \in Seq(Entry)
  BY Fields DEF Messages, Unsent
<1>2. voteRespMsgType(m.Type) \in MessageTypes \ {"MsgProp"}
  BY DEF MessageTypes, VoteMsgs, voteRespMsgType
<1>3. grant \in Unsent /\ reject \in Unsent
  BY <1>1, <1>2, MessageType
<1>4. /\ grant.Type = voteRespMsgType(m.Type) /\ grant.From = None /\ grant.To = m.From
      /\ grant.Term = m.Term
      /\ reject.Type = voteRespMsgType(m.Type) /\ reject.From = None /\ reject.Reject
      /\ reject.Term = r.Term
  BY DEF Message
<1>5. /\ voteRespMsgType(m.Type) \in {"MsgVoteResp", "MsgPreVoteResp"}
      /\ voteRespMsgType(m.Type) = "MsgVoteResp" => m.Type = "MsgVote"
  BY DEF voteRespMsgType
<1>6. ASSUME ~ granted
      PROVE  r.Term > 0
  <2> SUFFICES ASSUME r.Term = 0
               PROVE  FALSE
    BY <1>1
  <2>1. m.Type = "MsgPreVote" /\ canVote(r, m)
    BY DEF canVote
  <2>2. Len(r.log) = 0
    <3>1. Len(r.log) \in Nat /\ DOMAIN r.log = 1..Len(r.log)
      BY <1>1, LenProperties
    <3>2. 1 \notin DOMAIN r.log
      BY DEF TermsOK
    <3> QED BY <3>1, <3>2
  <2>3. isUpToDate(r.log, m.Index, m.LogTerm)
    BY <1>1, <2>2 DEF isUpToDate, lastTerm, lastIndex, term
  <2> QED BY <1>6, <2>1, <2>3
<1>7. s = IF granted
          THEN IF m.Type = "MsgVote" THEN [send(r, grant) EXCEPT !.Vote = m.From]
               ELSE send(r, grant)
          ELSE send(r, reject)
  BY DEF handleVote
<1>8. granted => isUpToDate(r.log, m.Index, m.LogTerm)
  OBVIOUS
<1> HIDE DEF granted, grant, reject
<1>9. CASE ~ granted
  BY <1>3, <1>4, <1>5, <1>6, <1>7, <1>9, SendVoteStill DEF Granted
<1>10. CASE granted
  <2>1. PICK t : t = send(r, grant) /\ NodeOK(i, t)
    BY <1>3, SendType
  <2>2. Still(r, t, m) /\ t.prs = r.prs
    BY <1>3, <1>4, <1>5, <1>8, <1>10, <2>1, SendVoteStill DEF Granted
  <2>3. Still(r, [t EXCEPT !.Vote = m.From], m) /\ [t EXCEPT !.Vote = m.From].prs = t.prs
    <3>1. PICK v : v = [t EXCEPT !.Vote = m.From]
      OBVIOUS
    <3>2. /\ v.id = t.id /\ v.voters = t.voters /\ v.Term = t.Term /\ v.state = t.state
          /\ v.log = t.log /\ v.committed = t.committed /\ v.panicked = t.panicked
          /\ v.prs = t.prs /\ Outbox(v) = Outbox(t)
      BY <2>1, <3>1 DEF NodeOK, NodeRecord, Outbox
    <3>3. Still(t, v, m)
      BY <3>2 DEF Still
    <3> QED BY <2>2, <3>1, <3>2, <3>3, StillTransitive
  <2> QED BY <1>7, <1>10, <2>1, <2>2, <2>3
<1> QED
  BY <1>9, <1>10
-----------------------------------------------------------------------------
(* Appends *)

\* What becomes of a log that is given at most one entry.
LEMMA AppendedOne ==
  ASSUME NEW log \in Seq(Entry), NEW index \in Nat, NEW ents \in Seq(Entry),
         index <= Len(log), Len(ents) <= 1, NEW new, new = appended(log, index, ents)
  PROVE  \/ /\ new = log
            /\ ents # <<>> => index + 1 <= Len(log) /\ log[index + 1].Term = ents[1].Term
         \/ /\ ents # <<>> /\ Len(new) = index + 1 /\ new[index + 1] = ents[1]
            /\ \A k \in 1..index : new[k] = log[k]
            /\ ~ (index + 1 <= Len(log) /\ log[index + 1].Term = ents[1].Term)
<1> DEFINE C == Conflicts(log, index, ents)
<1>1. Len(ents) \in Nat /\ DOMAIN ents = 1..Len(ents) /\ Len(log) \in Nat
      /\ (ents # <<>> => Len(ents) = 1)
  <2>1. Len(ents) \in Nat /\ DOMAIN ents = 1..Len(ents) /\ Len(log) \in Nat
    BY LenProperties
  <2>2. ents # <<>> => Len(ents) # 0
    BY EmptySeq
  <2> QED BY <2>1, <2>2
<1>2. C \subseteq {1} /\ (ents = <<>> => C = {})
  BY <1>1 DEF Conflicts
<1>3. ents # <<>> =>
        (1 \in C <=> ~ (index + 1 <= Len(log) /\ log[index + 1].Term = ents[1].Term))
  BY <1>1 DEF Conflicts, matchTerm, termKnown, term
<1>4. CASE C = {}
  <2>1. findConflict(log, index, ents) = 0
    BY <1>4 DEF findConflict
  <2>2. new = log
    BY <2>1 DEF appended
  <2> HIDE DEF C
  <2> QED BY <1>3, <1>4, <2>2
<1>5. CASE C # {}
  <2>1. 1 \in C /\ ents # <<>> /\ Min(C) = 1
    <3>1. C = {1} /\ C \in SUBSET Nat
      BY <1>2, <1>5
    <3>2. Min(C) \in C
      <4> HIDE DEF C
      <4> QED BY <1>5, <3>1, MinOfNats
    <3> QED BY <1>2, <3>1, <3>2
  <2>2. findConflict(log, index, ents) = index + 1
    BY <1>5, <2>1 DEF findConflict
  <2>3. new = SubSeq(log, 1, index) \o SubSeq(ents, 1, Len(ents))
    <3>1. PICK ci : ci = findConflict(log, index, ents)
      OBVIOUS
    <3>2. ci # 0 /\ ci - 1 = index /\ ci - index = 1
      BY <2>2, <3>1
    <3>3. new = SubSeq(log, 1, ci - 1) \o SubSeq(ents, ci - index, Len(ents))
      BY <3>1, <3>2 DEF appended, truncateAndAppend
    <3> QED BY <3>2, <3>3
  <2>4. PICK a : a = SubSeq(log, 1, index)
    OBVIOUS
  <2>5. PICK b : b = SubSeq(ents, 1, Len(ents))
    OBVIOUS
  <2>6. a \in Seq(Entry) /\ Len(a) = index /\ \A k \in 1..index : a[k] = log[k]
    <3>1. \A k \in 1..index : log[k] \in Entry
      BY <1>1, ElementOfSeq
    <3> QED BY <2>4, <3>1, SubSeqProperties
  <2>7. b \in Seq(Entry) /\ Len(b) = 1 /\ b[1] = ents[1]
    <3>1. \A k \in 1..1 : ents[k] \in Entry
      BY <1>1, <2>1, ElementOfSeq
    <3> QED BY <1>1, <2>1, <2>5, <3>1, SubSeqProperties
  <2>8. /\ Len(a \o b) = index + 1 /\ (a \o b)[index + 1] = ents[1]
        /\ \A k \in 1..index : (a \o b)[k] = log[k]
    <3>1. /\ Len(a \o b) = Len(a) + Len(b)
          /\ \A k \in 1..Len(a) + Len(b) :
               (a \o b)[k] = IF k <= Len(a) THEN a[k] ELSE b[k - Len(a)]
      BY <2>6, <2>7, ConcatProperties
    <3> QED BY <2>6, <2>7, <3>1
  <2> HIDE DEF C
  <2> QED BY <1>3, <2>1, <2>3, <2>4, <2>5, <2>8
<1> QED
  BY <1>4, <1>5

LEMMA SendAckStill ==
  ASSUME NEW i, NEW r, NodeOK(i, r), NEW m, NEW x \in Unsent, x.From = None,
         x.Type = "MsgAppResp", x.Term = 0,
         Ack(x) /\ x.Index > 0 =>
           \/ r.state = "StateLeader" /\ x.To = r.id /\ x.Index <= Len(r.log)
           \/ /\ m.Type = "MsgApp" /\ m.Term = r.Term /\ x.To = m.From
              /\ \/ x.Index <= r.committed
                 \/ x.Index = m.Index + Len(m.Entries) /\ Holds(r.log, m),
         NEW s, s = send(r, x)
  PROVE  Still(r, s, m) /\ s.prs = r.prs
<1>1. ~ sendPanics(r, x)
  BY DEF sendPanics, VoteMsgs, AfterAppend
<1>2. PICK y : y = stamp(r, x)
  OBVIOUS
<1>3. /\ y.Type = x.Type /\ y.From = r.id /\ y.To = x.To /\ y.Term = r.Term
      /\ y.Index = x.Index /\ y.Reject = x.Reject
  BY <1>2, StampFields DEF VoteMsgs
<1>4. Reports(r, m, y)
  BY <1>3 DEF Reports, WellSent, AppendShort, Ack, Granted, VoteMsgs, AfterAppend
<1> QED
  BY <1>1, <1>2, <1>4, SendStill

LEMMA OneEntry ==
  ASSUME NEW ents \in Seq(Entry), Len(ents) <= 1
  PROVE  (ents # <<>> => Len(ents) = 1) /\ (ents = <<>> => Len(ents) = 0)
<1>1. PICK n : n = Len(ents) /\ n \in Nat /\ n <= 1
  BY LenProperties
<1>2. n = 0 \/ n = 1
  BY <1>1
<1>3. (ents # <<>> => Len(ents) # 0) /\ (ents = <<>> => Len(ents) = 0)
  BY EmptySeq
<1> QED
  BY <1>1, <1>2, <1>3, Zenon

LEMMA AppendedHolds ==
  ASSUME NEW log \in Seq(Entry), NEW m \in Messages, Len(m.Entries) <= 1,
         matchTerm(log, m.Index, m.LogTerm),
         NEW new, new = appended(log, m.Index, m.Entries)
  PROVE  /\ Holds(new, m) /\ new \in Seq(Entry) /\ m.Index + Len(m.Entries) <= Len(new)
         /\ \A k \in DOMAIN new : \/ k \in DOMAIN log /\ new[k] = log[k]
                                  \/ m.Entries # <<>> /\ new[k] = m.Entries[1]
         /\ Len(new) >= Len(log) \/ (m.Entries # <<>> /\ Len(new) = m.Index + 1)
<1>1. m.Index \in Nat /\ m.Entries \in Seq(Entry) /\ m.LogTerm \in Nat
  BY DEF Messages, Unsent
<1>2. m.Index <= Len(log) /\ term(log, m.Index) = m.LogTerm
  BY DEF matchTerm, termKnown
<1>3. new \in Seq(Entry)
  BY <1>1, <1>2, AppendedType
<1>4. /\ Len(log) \in Nat /\ DOMAIN log = 1..Len(log)
      /\ Len(new) \in Nat /\ DOMAIN new = 1..Len(new) /\ Len(m.Entries) \in Nat
  BY <1>1, <1>3, LenProperties
<1>5. (m.Entries # <<>> => Len(m.Entries) = 1) /\ (m.Entries = <<>> => Len(m.Entries) = 0)
  BY <1>1, OneEntry
<1>7. \/ /\ new = log
         /\ m.Entries # <<>> =>
              m.Index + 1 <= Len(log) /\ log[m.Index + 1].Term = m.Entries[1].Term
      \/ /\ m.Entries # <<>> /\ Len(new) = m.Index + 1 /\ new[m.Index + 1] = m.Entries[1]
         /\ \A k \in 1..m.Index : new[k] = log[k]
  BY <1>1, <1>2, AppendedOne
<1>8. CASE /\ new = log
           /\ m.Entries # <<>> =>
                m.Index + 1 <= Len(log) /\ log[m.Index + 1].Term = m.Entries[1].Term
  BY <1>1, <1>2, <1>3, <1>4, <1>5, <1>8 DEF Holds
<1>9. CASE /\ m.Entries # <<>> /\ Len(new) = m.Index + 1 /\ new[m.Index + 1] = m.Entries[1]
           /\ \A k \in 1..m.Index : new[k] = log[k]
  <2>1. term(new, m.Index) = term(log, m.Index)
    <3>1. m.Index # 0 => m.Index \in 1..m.Index
      BY <1>1
    <3>2. m.Index # 0 => new[m.Index] = log[m.Index]
      BY <1>9, <3>1
    <3> QED BY <3>2 DEF term
  <2>2. \A k \in DOMAIN new : k \in 1..m.Index \/ k = m.Index + 1
    BY <1>1, <1>4, <1>9
  <2>3. \A k \in 1..m.Index : k \in DOMAIN log
    BY <1>1, <1>2, <1>4
  <2> QED BY <1>1, <1>2, <1>3, <1>4, <1>5, <1>9, <2>1, <2>2, <2>3 DEF Holds
<1> QED
  BY <1>7, <1>8, <1>9

LEMMA HandleAppendEntriesWrites ==
  ASSUME NEW i, NEW r, NodeOK(i, r), TermsOK(r), r.state = "StateFollower",
         NEW m \in Messages, AppendShort(m), m.Type = "MsgApp", m.Term = r.Term, m.Term > 0,
         NEW s, s = handleAppendEntries(r, m)
  PROVE  Writes(r, s, m) /\ TermsOK(s) /\ s.state = "StateFollower"
<1> DEFINE resp     == Message("MsgAppResp", m.From)
           lastnewi == m.Index + Len(m.Entries)
           tocommit == IF m.Commit < lastnewi THEN m.Commit ELSE lastnewi
           log      == appended(r.log, m.Index, m.Entries)
           from     == IF m.Index < lastIndex(r.log) THEN m.Index ELSE lastIndex(r.log)
           hint     == findConflictByTerm(r.log, from, m.LogTerm)
           hintTerm == zeroTermOnOutOfBounds(r.log, hint)
           stale    == [resp EXCEPT !.Index = r.committed]
           accept   == [resp EXCEPT !.Index = lastnewi]
           reject   == [resp EXCEPT !.Index = m.Index, !.Reject = TRUE, !.RejectHint = hint,
                                    !.LogTerm = hintTerm]
<1>1. /\ m.From \in Server /\ m.Index \in Nat /\ m.Commit \in Nat /\ m.Entries \in Seq(Entry)
      /\ Len(m.Entries) \in Nat /\ m.Term \in Nat /\ m.LogTerm \in Nat
  BY LenProperties DEF Messages, Unsent
<1>2. lastnewi \in Nat /\ tocommit \in Nat
  BY <1>1
<1>3. hint \in Nat /\ hintTerm \in Nat
  <2>1. from \in Nat
    BY <1>1, Fields, TermType
  <2> HIDE DEF from
  <2>2. r.log \in Seq(Entry)
    BY Fields
  <2> QED BY <2>1, <2>2, HintType
<1>4. "MsgAppResp" \in MessageTypes \ {"MsgProp"}
  BY DEF MessageTypes, ResponseMsgs, AfterAppend
<1>5. r.committed \in Nat /\ r.log \in Seq(Entry) /\ Len(r.log) \in Nat /\ BootLen \in Nat
      /\ r.Term \in Nat
  BY Fields, LenProperties, ServerAssumption, FS_CardinalityType DEF BootLen
<1>6. stale \in Unsent /\ accept \in Unsent /\ reject \in Unsent
  <2> HIDE DEF lastnewi, hint, hintTerm
  <2> QED BY <1>1, <1>2, <1>3, <1>4, <1>5, MessageType
<1>7. /\ stale.Type = "MsgAppResp" /\ stale.From = None /\ stale.Term = 0
      /\ stale.To = m.From /\ stale.Index = r.committed
      /\ accept.Type = "MsgAppResp" /\ accept.From = None /\ accept.Term = 0
      /\ accept.To = m.From /\ accept.Index = lastnewi
      /\ reject.Type = "MsgAppResp" /\ reject.From = None /\ reject.Term = 0 /\ reject.Reject
  BY DEF Message
<1> HIDE DEF stale, accept, reject
<1>8. CASE m.Index < r.committed
  <2>1. s = send(r, stale)
    <3>1. ~ (m.Index >= r.committed)
      BY <1>1, <1>5, <1>8
    <3> QED BY <1>8, <3>1 DEF handleAppendEntries, stale
  <2>2. Still(r, s, m)
    BY <1>5, <1>6, <1>7, <2>1, SendAckStill
  <2> QED BY <2>2, StillWrites, StillTerms DEF Still
<1>9. CASE ~ (m.Index < r.committed) /\ ~ matchTerm(r.log, m.Index, m.LogTerm)
  <2>1. s = send(r, reject)
    BY <1>9 DEF handleAppendEntries, reject
  <2>2. Still(r, s, m)
    <3>1. ~ Ack(reject)
      BY <1>7 DEF Ack
    <3> QED BY <1>6, <1>7, <2>1, <3>1, SendAckStill
  <2> QED BY <2>2, StillWrites, StillTerms DEF Still
<1>10. CASE m.Index >= r.committed /\ matchTerm(r.log, m.Index, m.LogTerm)
  <2> DEFINE a == [r EXCEPT !.log = log, !.committed = commitTo(@, tocommit)]
             p == \/ appendPanics(r.log, r.committed, m.Index, m.Entries)
                  \/ commitPanics(log, r.committed, tocommit)
  <2>1. Len(m.Entries) <= 1 /\ m.Commit <= BootLen
        /\ (m.Entries # <<>> => m.Entries[1].Term = m.Term /\ m.Index >= BootLen)
    BY DEF AppendShort
  <2>2. /\ Holds(log, m) /\ log \in Seq(Entry) /\ lastnewi <= Len(log)
        /\ \A k \in DOMAIN log : \/ k \in DOMAIN r.log /\ log[k] = r.log[k]
                                 \/ m.Entries # <<>> /\ log[k] = m.Entries[1]
        /\ Len(log) >= Len(r.log) \/ (m.Entries # <<>> /\ Len(log) = m.Index + 1)
    BY <1>5, <1>10, <2>1, AppendedHolds
  <2>3. PICK n \in Nat : n = commitTo(r.committed, tocommit) /\ n <= BootLen /\ n <= Len(log)
    <3>1. tocommit <= BootLen /\ tocommit <= lastnewi /\ m.Index <= lastnewi
      BY <1>1, <1>2, <1>5, <2>1
    <3>2. r.committed <= BootLen /\ r.committed <= m.Index
      BY <1>1, <1>5, <1>10 DEF TermsOK
    <3>3. Len(log) \in Nat
      BY <2>2, LenProperties
    <3> HIDE DEF tocommit, lastnewi, log
    <3> QED BY <1>1, <1>2, <1>5, <2>2, <3>1, <3>2, <3>3 DEF commitTo
  <2>4. ~ p
    <3>1. Len(log) \in Nat
      BY <2>2, LenProperties
    <3>2. ~ commitPanics(log, r.committed, tocommit)
      <4>1. tocommit <= lastnewi
        BY <1>1, <1>2
      <4> HIDE DEF tocommit, lastnewi, log
      <4> QED BY <1>2, <2>2, <3>1, <4>1 DEF commitPanics, lastIndex
    <3>3. ~ appendPanics(r.log, r.committed, m.Index, m.Entries)
      <4>1. m.Index <= Len(r.log)
        BY <1>10 DEF matchTerm, termKnown
      <4>2. PICK ci : ci = findConflict(r.log, m.Index, m.Entries)
        OBVIOUS
      <4>3. ci # 0 => ci \in (m.Index + 1)..(Len(r.log) + 1)
        BY <1>1, <1>5, <4>1, <4>2, FindConflictBound
      <4>4. ~ (ci # 0 /\ ci <= r.committed)
        BY <1>1, <1>5, <1>10, <4>3
      <4> QED BY <4>2, <4>4 DEF appendPanics
    <3> QED BY <3>2, <3>3
  <2>5. a = [r EXCEPT !.log = log, !.committed = n]
    BY <2>3
  <2>6. s = send(a, accept)
    <3>1. ~ (m.Index < r.committed)
      BY <1>1, <1>5, <1>10
    <3>2. s = IF p THEN panic(r) ELSE send(a, accept)
      BY <1>10, <3>1 DEF handleAppendEntries, accept
    <3> HIDE DEF a, p
    <3> QED BY <2>4, <3>2
  <2>7. log = appended(r.log, m.Index, m.Entries)
    OBVIOUS
  <2> HIDE DEF a, p, log
  <2>8. /\ a.id = r.id /\ a.voters = r.voters /\ a.Term = r.Term /\ a.state = r.state
        /\ a.log = log /\ a.committed = n /\ a.panicked = r.panicked /\ Outbox(a) = Outbox(r)
    BY <2>5 DEF NodeOK, NodeRecord, Outbox
  <2>9. NodeOK(i, a)
    BY <2>2, <2>5 DEF NodeOK, NodeRecord
  <2>10. TermsOK(a)
    <3>1. Len(log) \in Nat /\ DOMAIN log = 1..Len(log)
      BY <2>2, LenProperties
    <3>2. \A k \in DOMAIN log : log[k].Term \in 1..r.Term
      BY <1>1, <1>5, <2>1, <2>2, SMTT(30) DEF TermsOK
    <3>3. r.voters = Server => Len(log) >= BootLen /\ r.Term >= 1
      BY <1>1, <1>5, <2>1, <2>2, <3>1 DEF TermsOK
    <3> QED BY <2>3, <2>8, <3>2, <3>3 DEF TermsOK
  <2>11. Writes(r, a, m)
    BY <1>5, <1>10, <2>7, <2>8 DEF Writes
  <2>12. Still(a, s, m) /\ s.prs = a.prs
    BY <1>6, <1>7, <2>2, <2>6, <2>8, <2>9, SendAckStill
  <2> QED BY <2>8, <2>10, <2>11, <2>12, WritesStill, StillTerms DEF Still
<1> QED
  BY <1>1, <1>5, <1>8, <1>9, <1>10
-----------------------------------------------------------------------------
(* Followers *)

\* A handler that was given m has left a good node.
Served(r, s, m) == Writes(r, s, m) /\ TermsOK(s) /\ PeersOK(s)

\* A message of term 0 or the node's own, as raft.Step leaves them
Timely(r, m) ==
  /\ m.Term = 0 \/ m.Term >= r.Term
  /\ m.Type \notin {"MsgPreVote", "MsgPreVoteResp"} => m.Term \in {0, r.Term}

LEMMA StillServed ==
  ASSUME NEW i, NEW r, NodeOK(i, r), TermsOK(r), PeersOK(r), NEW s, NEW m,
         Still(r, s, m), s.prs = r.prs
  PROVE  Served(r, s, m)
<1>1. Writes(r, s, m)
  BY StillWrites DEF Credits
<1>2. PeersOK(s)
  BY DEF PeersOK, PeerOK, Still
<1> QED
  BY <1>1, <1>2, StillTerms DEF Served

LEMMA PoisedServed ==
  ASSUME NEW i, NEW r, NodeOK(i, r), NEW h, NodeOK(i, h), Poised(r, h),
         NEW s, NodeOK(i, s), NEW m, Served(h, s, m)
  PROVE  Served(r, s, m)
BY PoisedWrites DEF Served

LEMMA StepFollowerServes ==
  ASSUME NEW i, NEW r, NodeOK(i, r), TermsOK(r), PeersOK(r), r.state = "StateFollower",
         NEW m, Arrives(r, m), Timely(r, m), NEW s, s = stepFollower(r, m)
  PROVE  Served(r, s, m) /\ s.state = "StateFollower"
<1>1. m \in Messages /\ m.To = r.id /\ WellSent(m) /\ AppendShort(m) /\ Dated(m)
  BY DEF Arrives
<1>2. PICK l : l = [r EXCEPT !.lead = m.From]
  OBVIOUS
<1>3. /\ NodeOK(i, l) /\ Poised(r, l) /\ l.id = r.id /\ l.state = "StateFollower"
      /\ l.Term = r.Term
  BY <1>1, <1>2, LeadType, PoisedFields, ZenonT(30) DEF NodeOK, NodeRecord
<1>4. TermsOK(l) /\ PeersOK(l)
  BY <1>3, PoisedTerms, PoisedPeers
<1>5. NodeOK(i, s)
  BY <1>1, StepFollowerType
<1>6. Served(r, r, m)
  BY StillSelf, StillServed
<1>7. CASE m.Type = "MsgProp"
  <2>1. s = IF r.lead = None THEN r ELSE send(r, [m EXCEPT !.To = r.lead])
    BY <1>7 DEF stepFollower
  <2>2. CASE r.lead = None
    BY <1>6, <2>1, <2>2
  <2>3. CASE r.lead # None
    <3>1. Still(r, s, m)
      BY <1>7, <2>1, <2>3, ForwardStill
    <3>2. Writes(r, s, m) /\ s.state = "StateFollower"
      BY <3>1, StillWrites DEF Still
    <3> QED BY <3>1, <3>2, StillTerms DEF Served, PeersOK
  <2> QED BY <2>2, <2>3
<1>8. CASE m.Type = "MsgApp"
  <2>1. m.Term = r.Term /\ m.Term > 0
    BY <1>1, <1>8 DEF Timely, Dated, LeaderMsgs
  <2>2. s = handleAppendEntries(l, m)
    BY <1>2, <1>8 DEF stepFollower
  <2>3. Writes(l, s, m) /\ TermsOK(s) /\ s.state = "StateFollower"
    BY <1>1, <1>3, <1>4, <1>8, <2>1, <2>2, HandleAppendEntriesWrites
  <2>4. Served(l, s, m)
    BY <2>3 DEF Served, PeersOK
  <2> QED BY <1>3, <1>5, <2>3, <2>4, PoisedServed
<1>9. CASE m.Type = "MsgHeartbeat"
  <2>1. m.From # l.id
    BY <1>1, <1>3, <1>9 DEF WellSent, AfterAppend
  <2>2. s = handleHeartbeat(l, m)
    BY <1>2, <1>9 DEF stepFollower
  <2>3. Still(l, s, m) /\ s.prs = l.prs
    BY <1>1, <1>3, <2>1, <2>2, HandleHeartbeatStill
  <2>4. Served(l, s, m)
    BY <1>3, <1>4, <2>3, StillServed
  <2> QED BY <1>3, <1>5, <2>3, <2>4, PoisedServed DEF Still
<1>10. CASE m.Type \notin {"MsgProp", "MsgApp", "MsgHeartbeat"}
  <2>1. s = r
    BY <1>10 DEF stepFollower
  <2> QED BY <1>6, <2>1
<1> QED
  BY <1>7, <1>8, <1>9, <1>10
-----------------------------------------------------------------------------
(* Leaders *)

\* What a leader makes of the Progress of a peer that acknowledges index n
LEMMA AcknowledgedProgress ==
  ASSUME NEW i, NEW r, NodeOK(i, r), NEW pr, ProgressOK(pr), PeerOK(r, pr),
         NEW n \in Nat, n <= Len(r.log),
         NEW moves, moves <=> Updates(pr, n) \/ (pr.Match = n /\ pr.State = "StateProbe"),
         NEW u, u = MaybeUpdate(pr, n),
         NEW q, q = IF moves /\ u.State = "StateProbe" THEN BecomeReplicate(u) ELSE u
  PROVE  /\ PeerOK(r, q) /\ q.Match \in {pr.Match, n}
         /\ pr.State = "StateReplicate" /\ ~ IsPaused(pr) =>
              q.State = "StateReplicate" /\ ~ IsPaused(q)
<1>1. /\ pr.Match \in Nat /\ pr.Next \in Nat /\ pr.Next > pr.Match /\ Len(r.log) \in Nat
      /\ pr.State \in {"StateProbe", "StateReplicate"} /\ pr \in ProgressRecord
  BY Fields, LenProperties DEF ProgressOK, ProgressRecord, ProgressStates
<1>2. /\ u.Match = (IF pr.Match < n THEN n ELSE pr.Match)
      /\ u.Next = (IF pr.Next > n + 1 THEN pr.Next ELSE n + 1)
      /\ u.State = pr.State /\ (~ IsPaused(pr) => ~ IsPaused(u))
      /\ u \in ProgressRecord
  <2>1. PICK a, b, c :
          /\ u = [pr EXCEPT !.Match = a, !.MsgAppFlowPaused = b, !.Next = c]
          /\ a = (IF pr.Match < n THEN n ELSE pr.Match)
          /\ b = (pr.MsgAppFlowPaused /\ ~ Updates(pr, n))
          /\ c = (IF pr.Next > n + 1 THEN pr.Next ELSE n + 1)
    BY DEF MaybeUpdate, Updates
  <2>2. u.Match = a /\ u.Next = c /\ u.State = pr.State /\ u.MsgAppFlowPaused = b
    BY <1>1, <2>1 DEF ProgressRecord
  <2>3. ~ pr.MsgAppFlowPaused => ~ b
    BY <2>1
  <2>4. u \in ProgressRecord
    BY MaybeUpdateType DEF ProgressOK
  <2>5. ~ IsPaused(pr) => ~ IsPaused(u)
    BY <2>2, <2>3, Zenon DEF IsPaused
  <2> QED BY <2>1, <2>2, <2>4, <2>5
<1>3. CASE moves /\ pr.State = "StateProbe"
  <2>1. q = BecomeReplicate(u)
    BY <1>2, <1>3
  <2>2. q.State = "StateReplicate" /\ q.Match = u.Match /\ q.Next = u.Match + 1
    BY <1>2, <2>1 DEF BecomeReplicate, ResetState, ProgressRecord
  <2> QED BY <1>1, <1>2, <1>3, <2>2 DEF PeerOK
<1>4. CASE ~ moves /\ pr.State = "StateProbe"
  <2>1. q = u /\ n < pr.Match
    BY <1>1, <1>4 DEF Updates
  <2>2. q.Match = pr.Match /\ q.Next = pr.Next /\ q.State = pr.State
    BY <1>1, <1>2, <2>1
  <2> QED BY <1>4, <2>2 DEF PeerOK
<1>5. CASE pr.State = "StateReplicate"
  <2>1. q = u
    BY <1>2, <1>5
  <2>2. PeerOK(r, q) /\ q.Match \in {pr.Match, n} /\ q.State = "StateReplicate"
    BY <1>1, <1>2, <1>5, <2>1 DEF PeerOK
  <2> QED BY <1>2, <2>1, <2>2
<1> QED
  BY <1>1, <1>3, <1>4, <1>5

LEMMA SendOneStill ==
  ASSUME NEW i, NEW r, NodeOK(i, r), TermsOK(r), PeersOK(r), r.state = "StateLeader",
         NEW dests \in SUBSET Peers(r), NEW sendIfEmpty, NEW m,
         NEW s, s = maybeSendAppend(r, dests, sendIfEmpty)
  PROVE  /\ NodeOK(i, s) /\ TermsOK(s) /\ Still(r, s, m) /\ PeersOK(s)
         /\ \A j \in r.voters : s.prs[j].Match = r.prs[j].Match
<1>1. dests \in SUBSET r.voters
  BY DEF Peers
<1>2. NodeOK(i, s)
  BY <1>1, MaybeSendAppendType
<1>3. /\ Still(r, s, m) /\ PeersOK(s)
      /\ \A j \in r.voters : s.prs[j].Match = r.prs[j].Match
  BY MaybeSendAppendStill
<1> QED
  BY <1>2, <1>3, StillTerms

\* CommittedIndex is commented out.
LEMMA NothingCommits ==
  ASSUME NEW i, NEW r, NodeOK(i, r)
  PROVE  ~ commitAdvances(r)
<1>1. r.committed \in Nat
  BY Fields
<1> QED
  BY <1>1 DEF commitAdvances, Committed

LEMMA HandleAppendResponseServes ==
  ASSUME NEW i, NEW r, NodeOK(i, r), TermsOK(r), PeersOK(r), r.state = "StateLeader",
         NEW m, Arrives(r, m), Timely(r, m), m.Type = "MsgAppResp", m.From \in r.voters,
         NEW s, s = handleAppendResponse(r, m)
  PROVE  Served(r, s, m)
<1> DEFINE pr      == r.prs[m.From]
           moves   == Updates(pr, m.Index) \/ (pr.Match = m.Index /\ pr.State = "StateProbe")
           updated == MaybeUpdate(pr, m.Index)
           newPr   == IF moves /\ updated.State = "StateProbe"
                      THEN BecomeReplicate(updated) ELSE updated
           prs     == [r.prs EXCEPT ![m.From] = newPr]
           tracked == [r EXCEPT !.prs = prs]
           sent    == CASE commitAdvances(tracked) -> bcastAppend(maybeCommit(tracked))
                        [] ~ commitAdvances(tracked) /\ IsPaused(pr) ->
                             maybeSendAppend(tracked, {m.From}, TRUE)
                        [] OTHER -> tracked
<1>1. /\ m \in Messages /\ m.Index \in Nat /\ m.Term \in {0, r.Term}
      /\ ~ m.Reject => m.Index <= Len(r.log) /\ Ack(m)
  BY DEF Arrives, Timely, Messages, Unsent, Ack
<1>2. CASE m.Reject
  <2>1. s = r
    BY <1>2 DEF handleAppendResponse
  <2> QED BY <2>1, StillSelf, StillServed
<1>3. CASE ~ m.Reject
  <2>1. ProgressOK(pr) /\ PeerOK(r, pr)
    BY Fields DEF PeersOK
  <2>2. PICK np : np = newPr
    OBVIOUS
  <2>3. /\ PeerOK(r, np) /\ np.Match \in {pr.Match, m.Index}
        /\ pr.State = "StateReplicate" /\ ~ IsPaused(pr) =>
             np.State = "StateReplicate" /\ ~ IsPaused(np)
    <3>1. PICK mv : mv = moves
      OBVIOUS
    <3>2. PICK u : u = updated
      OBVIOUS
    <3>3. np = IF mv /\ u.State = "StateProbe" THEN BecomeReplicate(u) ELSE u
      BY <2>2, <3>1, <3>2
    <3>4. mv <=> Updates(pr, m.Index) \/ (pr.Match = m.Index /\ pr.State = "StateProbe")
      BY <3>1
    <3>5. u = MaybeUpdate(pr, m.Index)
      BY <3>2
    <3>6. PICK p : p = pr
      OBVIOUS
    <3> HIDE DEF pr, moves, updated, newPr
    <3> QED BY <1>1, <1>3, <2>1, <3>3, <3>4, <3>5, <3>6, AcknowledgedProgress
  <2>4. ProgressOK(np)
    <3>1. ProgressOK(updated)
      BY <1>1, <2>1, MaybeUpdateType
    <3> HIDE DEF updated
    <3> QED BY <2>2, <3>1, BecomeReplicateType
  <2>5. tracked = [r EXCEPT !.prs = [r.prs EXCEPT ![m.From] = np]]
    BY <2>2
  <2>6. PICK t : t = tracked
    OBVIOUS
  <2>7. s = IF ~ moves THEN t
            ELSE IF m.From = r.id THEN sent ELSE maybeSendAppend(sent, {m.From}, FALSE)
    BY <1>3, <2>6 DEF handleAppendResponse
  <2>8. r.prs \in [r.voters -> ProgressRecord] /\ \A j \in r.voters : ProgressOK(r.prs[j])
        /\ r.id \in r.voters /\ r.id = i /\ m.From \in Server
    BY Fields DEF TermsOK, NodeOK
  <2>9. PICK f : /\ f = [r.prs EXCEPT ![m.From] = np] /\ t = [r EXCEPT !.prs = f]
    BY <2>5, <2>6
  <2>10a. /\ f \in [r.voters -> ProgressRecord] /\ \A j \in r.voters : ProgressOK(f[j])
          /\ f[m.From] = np /\ \A j \in r.voters \ {m.From} : f[j] = r.prs[j]
    BY <2>4, <2>8, <2>9 DEF ProgressOK
  <2>10. NodeOK(i, t)
    BY <2>9, <2>10a, FieldType
  <2>11. /\ t.id = r.id /\ t.voters = r.voters /\ t.Term = r.Term /\ t.state = r.state
         /\ t.log = r.log /\ t.committed = r.committed /\ t.panicked = r.panicked
         /\ Outbox(t) = Outbox(r) /\ t.prs = f
    BY <2>9 DEF NodeOK, NodeRecord, Outbox
  <2>12. Still(r, t, m) /\ TermsOK(t)
    BY <2>11, StillTerms DEF Still
  <2>13. PeersOK(t)
    <3>1. \A j \in r.voters : PeerOK(t, f[j])
      BY <2>3, <2>10a, <2>11 DEF PeersOK, PeerOK
    <3>2. f[r.id].State = "StateReplicate" /\ ~ IsPaused(f[r.id])
      BY <2>3, <2>8, <2>10a DEF PeersOK
    <3> QED BY <2>11, <3>1, <3>2 DEF PeersOK
  <2>14. ASSUME NEW u, Still(r, u, m), PeersOK(u), \A j \in r.voters : u.prs[j].Match = f[j].Match
         PROVE  Served(r, u, m)
    <3>1. Credits(r, u, m)
      <4> SUFFICES ASSUME NEW j \in r.voters
                   PROVE  \/ u.prs[j].Match = r.prs[j].Match
                          \/ Ack(m) /\ m.From = j /\ m.Term \in {0, r.Term}
                             /\ u.prs[j].Match = m.Index
        BY <2>14 DEF Credits, Still
      <4>1. u.prs[j].Match = f[j].Match
        BY <2>14
      <4> QED BY <1>1, <1>3, <2>3, <2>10a, <4>1
    <3>2. Writes(r, u, m)
      BY <2>14, <3>1, StillWrites
    <3> QED BY <2>14, <3>2, StillTerms DEF Served
  <2>15. Served(r, t, m)
    BY <2>11, <2>12, <2>13, <2>14
  <2>16. m.From # r.id => m.From \in Peers(r) /\ m.From \in Peers(t)
    BY <2>11 DEF Peers
  <2>17. PICK one, always, never : one = {m.From} /\ always = TRUE /\ never = FALSE
    OBVIOUS
  <2>18. PICK u : u = sent
    OBVIOUS
  <2>19. u = IF IsPaused(pr) THEN maybeSendAppend(t, one, always) ELSE t
    <3>1. ~ commitAdvances(tracked)
      BY <2>6, <2>10, NothingCommits
    <3> HIDE DEF tracked, pr
    <3> QED BY <2>6, <2>17, <2>18, <3>1
  <2>20. IsPaused(pr) => m.From # r.id
    BY DEF PeersOK
  <2>21. s = IF ~ moves THEN t
             ELSE IF m.From = r.id THEN u ELSE maybeSendAppend(u, one, never)
    BY <2>7, <2>17, <2>18
  <2> HIDE DEF pr, moves, updated, newPr, prs, tracked, sent
  <2>22. /\ NodeOK(i, u) /\ Still(r, u, m) /\ TermsOK(u) /\ PeersOK(u)
         /\ \A j \in r.voters : u.prs[j].Match = f[j].Match
    <3>1. CASE IsPaused(pr)
      <4>1. one \in SUBSET Peers(t) /\ u = maybeSendAppend(t, one, always)
        BY <2>16, <2>17, <2>19, <2>20, <3>1
      <4>2. /\ NodeOK(i, u) /\ Still(t, u, m) /\ TermsOK(u) /\ PeersOK(u)
            /\ \A j \in t.voters : u.prs[j].Match = t.prs[j].Match
        <5>1. t.state = "StateLeader"
          BY <2>11
        <5> QED BY <2>10, <2>12, <2>13, <4>1, <5>1, SendOneStill
      <4> QED BY <2>11, <2>12, <4>2, StillTransitive
    <3>2. CASE ~ IsPaused(pr)
      BY <2>10, <2>11, <2>12, <2>13, <2>19, <3>2
    <3> QED BY <3>1, <3>2
  <2>23. Served(r, u, m)
    BY <2>14, <2>22
  <2>24. ASSUME m.From # r.id
         PROVE  Served(r, maybeSendAppend(u, one, never), m)
    <3>1. PICK w : w = maybeSendAppend(u, one, never)
      OBVIOUS
    <3>2. one \in SUBSET Peers(u) /\ u.state = "StateLeader" /\ u.voters = r.voters
      BY <2>16, <2>17, <2>22, <2>24 DEF Peers, Still
    <3>3. /\ Still(u, w, m) /\ PeersOK(w)
          /\ \A j \in u.voters : w.prs[j].Match = u.prs[j].Match
      BY <2>22, <3>1, <3>2, SendOneStill, SMTT(30)
    <3>4. Still(r, w, m)
      BY <2>22, <3>3, StillTransitive
    <3>5. \A j \in r.voters : w.prs[j].Match = f[j].Match
      BY <2>22, <3>2, <3>3
    <3> QED BY <2>14, <3>1, <3>3, <3>4, <3>5
  <2> QED BY <2>15, <2>21, <2>23, <2>24
<1> QED
  BY <1>2, <1>3

\* A node that may append has a log like any other node of its term.
Appends(r) ==
  /\ r.state = "StateLeader" /\ r.voters = Server /\ r.Term >= 2
  /\ Len(r.log) >= BootLen /\ r.committed <= BootLen /\ r.committed <= Len(r.log)
  /\ \A k \in DOMAIN r.log : r.log[k].Term \in 1..r.Term

\* s is r with an entry more, and a message to itself about it.
Grown(r, s, data, m) ==
  /\ s.id = r.id /\ s.voters = r.voters /\ s.Term = r.Term /\ s.state = r.state
  /\ s.panicked = r.panicked /\ s.prs = r.prs
  /\ s.log = Append(r.log, [Term |-> r.Term, Data |-> data])
  /\ Len(s.log) = Len(r.log) + 1 /\ s.log[Len(r.log) + 1].Term = r.Term
  /\ \A k \in DOMAIN r.log : k \in DOMAIN s.log /\ s.log[k] = r.log[k]
  /\ \A x \in Outbox(s) : x \in Outbox(r) \/ Reports(s, m, x)

LEMMA AppendEntryGrows ==
  ASSUME NEW i, NEW r, NodeOK(i, r), Appends(r), NEW data \in Data, NEW m,
         NEW s, s = appendEntry(r, data)
  PROVE  NodeOK(i, s) /\ TermsOK(s) /\ Grown(r, s, data, m)
<1> DEFINE e   == [Term |-> r.Term, Data |-> data]
           log == Append(r.log, e)
           l   == [r EXCEPT !.log = log]
           x   == [Message("MsgAppResp", r.id) EXCEPT !.Index = lastIndex(log)]
<1>1. r.log \in Seq(Entry) /\ e \in Entry /\ Len(r.log) \in Nat /\ DOMAIN r.log = 1..Len(r.log)
      /\ r.Term \in Nat /\ r.committed \in Nat /\ BootLen \in Nat
  BY Fields, LenProperties, ServerAssumption, FS_CardinalityType DEF Entry, BootLen
<1>2. /\ log \in Seq(Entry) /\ Len(log) = Len(r.log) + 1 /\ DOMAIN log = 1..(Len(r.log) + 1)
      /\ \A k \in 1..Len(r.log) : log[k] = r.log[k]
      /\ log[Len(r.log) + 1] = e
  <2> HIDE DEF e
  <2> QED BY <1>1, AppendProperties, LenProperties
<1>3. e.Term = r.Term
  OBVIOUS
<1>4. PICK g : g = log
  OBVIOUS
<1>5. g = Append(r.log, [Term |-> r.Term, Data |-> data])
  BY <1>4
<1>6. PICK n : n = lastIndex(g) /\ n = Len(g) /\ n = Len(r.log) + 1 /\ n \in Nat
  <2> HIDE DEF log
  <2> QED BY <1>1, <1>2, <1>4 DEF lastIndex
<1>7. s = send([r EXCEPT !.log = g], [Message("MsgAppResp", r.id) EXCEPT !.Index = n])
  BY <1>4, <1>6 DEF appendEntry
<1>8. PICK a : a = [r EXCEPT !.log = g]
  OBVIOUS
<1>9. PICK y : y = [Message("MsgAppResp", r.id) EXCEPT !.Index = n]
  OBVIOUS
<1>10. /\ g \in Seq(Entry) /\ Len(g) = Len(r.log) + 1 /\ DOMAIN g = 1..(Len(r.log) + 1)
       /\ \A k \in 1..Len(r.log) : g[k] = r.log[k]
       /\ g[Len(r.log) + 1].Term = r.Term
  <2> HIDE DEF log, e
  <2> QED BY <1>2, <1>3, <1>4
<1> HIDE DEF e, log, l, x
<1>11. /\ NodeOK(i, a) /\ a.id = r.id /\ a.voters = r.voters /\ a.Term = r.Term
       /\ a.state = r.state /\ a.panicked = r.panicked /\ a.prs = r.prs /\ a.log = g
       /\ a.committed = r.committed /\ Outbox(a) = Outbox(r)
  BY <1>8, <1>10 DEF NodeOK, NodeRecord, Outbox
<1>12. y \in Unsent
  <2>1. "MsgAppResp" \in MessageTypes \ {"MsgProp"}
    BY DEF MessageTypes, ResponseMsgs, AfterAppend
  <2> QED BY <1>6, <1>9, <2>1, Fields, MessageType
<1>13. /\ y.Type = "MsgAppResp" /\ y.From = None /\ y.Term = 0 /\ y.To = r.id /\ y.Index = n
  BY <1>9 DEF Message
<1>14. s = send(a, y)
  BY <1>7, <1>8, <1>9
<1>15. Still(a, s, m) /\ s.prs = a.prs
  <2>1. a.state = "StateLeader" /\ y.To = a.id /\ y.Index <= Len(a.log)
    BY <1>1, <1>6, <1>10, <1>11, <1>13 DEF Appends
  <2> QED BY <1>11, <1>12, <1>13, <1>14, <2>1, SendAckStill
<1>16. TermsOK(a)
  <2>1. \A k \in DOMAIN g : g[k].Term \in 1..r.Term
    <3>1. \A k \in DOMAIN g : k \in 1..Len(r.log) \/ k = Len(r.log) + 1
      BY <1>1, <1>10
    <3> QED BY <1>1, <1>10, <3>1 DEF Appends
  <2>2. lastTerm(g) = r.Term
    BY <1>1, <1>10 DEF lastTerm, lastIndex, term
  <2>3. Len(g) >= BootLen /\ r.Term >= 1 /\ r.committed <= Len(g)
    BY <1>1, <1>10 DEF Appends
  <2> QED BY <1>11, <2>1, <2>2, <2>3 DEF TermsOK, Appends
<1>17. NodeOK(i, s)
  BY <1>11, <1>12, <1>14, SendType
<1>18. TermsOK(s)
  BY <1>15, <1>16, StillTerms
<1>19. \A k \in DOMAIN r.log : k \in DOMAIN g /\ g[k] = r.log[k]
  BY <1>1, <1>10
<1> QED
  BY <1>5, <1>10, <1>11, <1>15, <1>17, <1>18, <1>19 DEF Still, Grown

\* A longer log that the leader goes on to send
LEMMA GrownServes ==
  ASSUME NEW i, NEW r, NodeOK(i, r), NEW a, NodeOK(i, a), TermsOK(a), PeersOK(a), NEW m,
         Writes(r, a, m), a.state = "StateLeader", NEW s, s = bcastAppend(a)
  PROVE  Served(r, s, m)
<1>1. PICK u : u = bcastAppend(a)
  OBVIOUS
<1>2. Still(a, u, m) /\ PeersOK(u) /\ \A j \in a.voters : u.prs[j].Match = a.prs[j].Match
  BY <1>1, BroadcastStill
<1> QED
  BY <1>1, <1>2, WritesStill, StillTerms DEF Served

LEMMA ProposalServes ==
  ASSUME NEW i, NEW r, NodeOK(i, r), TermsOK(r), PeersOK(r), r.state = "StateLeader",
         NEW m, Arrives(r, m), m.Type = "MsgProp", NEW s, s = stepLeader(r, m)
  PROVE  Served(r, s, m)
<1>1. m.Entries \in Seq(Entry) /\ m.Entries # <<>>
  BY DEF Arrives, Messages, Unsent
<1>2. PICK d \in Data : d = m.Entries[1].Data
  <2>1. m.Entries[1] \in Entry
    BY <1>1, EmptySeq, ElementOfSeq
  <2> QED BY <2>1 DEF Entry
<1>3. Appends(r)
  BY DEF Appends, TermsOK
<1>4. PICK a : a = appendEntry(r, d)
  OBVIOUS
<1>5. NodeOK(i, a) /\ TermsOK(a) /\ Grown(r, a, d, m)
  BY <1>3, <1>4, AppendEntryGrows
<1>6. r.log \in Seq(Entry) /\ Len(r.log) \in Nat /\ r.Term \in Nat
      /\ \A j \in r.voters : r.prs[j].Match \in Nat /\ r.prs[j].Next \in Nat
  BY Fields, LenProperties DEF ProgressOK, ProgressRecord
<1>7. PeersOK(a)
  <2>1. \A j \in r.voters : PeerOK(a, r.prs[j])
    BY <1>5, <1>6 DEF PeersOK, PeerOK, Grown
  <2> QED BY <1>5, <2>1 DEF PeersOK, Grown
<1>8. Writes(r, a, m)
  <2>1. Credits(r, a, m)
    BY <1>5 DEF Credits, Grown
  <2>2. a.log = Append(r.log, [Term |-> a.Term, Data |-> d])
    BY <1>5 DEF Grown
  <2>3. a.Term >= r.Term
    BY <1>5, <1>6 DEF Grown
  <2> QED BY <1>5, <2>1, <2>2, <2>3 DEF Writes, Grown
<1>9. s = IF ~ promotable(r) THEN r ELSE bcastAppend(a)
  BY <1>2, <1>4 DEF stepLeader
<1>10. Served(r, bcastAppend(a), m)
  <2>1. PICK u : u = bcastAppend(a)
    OBVIOUS
  <2> QED BY <1>5, <1>7, <1>8, <2>1, GrownServes DEF Grown
<1>11. Served(r, r, m)
  BY StillSelf, StillServed
<1> QED
  BY <1>9, <1>10, <1>11

LEMMA StepLeaderServes ==
  ASSUME NEW i, NEW r, NodeOK(i, r), TermsOK(r), PeersOK(r), r.state = "StateLeader",
         NEW m, Arrives(r, m), Timely(r, m), NEW s, s = stepLeader(r, m)
  PROVE  Served(r, s, m)
<1>1. CASE m.Type = "MsgProp"
  BY <1>1, ProposalServes
<1>2. CASE m.Type = "MsgAppResp" /\ m.From \in r.voters
  <2>1. s = handleAppendResponse(r, m)
    BY <1>2 DEF stepLeader
  <2> QED BY <1>2, <2>1, HandleAppendResponseServes
<1>3. CASE m.Type # "MsgProp" /\ ~ (m.Type = "MsgAppResp" /\ m.From \in r.voters)
  <2>1. s = r
    BY <1>3 DEF stepLeader
  <2> QED BY <2>1, StillSelf, StillServed
<1> QED
  BY <1>1, <1>2, <1>3
-----------------------------------------------------------------------------
(* Candidates *)

\* The log a new leader sends is longer by the entry that opens its term, and
\* every peer is to be sent that entry.
LEMMA BecomeLeaderServes ==
  ASSUME NEW i, NEW p, NodeOK(i, p), TermsOK(p), p.state = "StateCandidate", NEW m,
         NEW s, s = bcastAppend(becomeLeader(p))
  PROVE  Served(p, s, m)
<1> DEFINE l == [reset(p, p.Term) EXCEPT !.lead = p.id, !.state = "StateLeader"]
           f == [l.prs EXCEPT ![p.id] = BecomeReplicate(@)]
           b == [l EXCEPT !.prs = f]
           next == Len(p.log) + 1
<1>1. /\ p.Term \in Nat /\ p.Term >= 2 /\ p.voters = Server /\ p.id \in Server
      /\ p.log \in Seq(Entry) /\ Len(p.log) \in Nat /\ DOMAIN p.log = 1..Len(p.log)
      /\ p.committed \in Nat /\ BootLen \in Nat
  BY Fields, LenProperties, ServerAssumption, FS_CardinalityType DEF TermsOK, BootLen
<1>2. /\ NodeOK(i, l) /\ l.id = p.id /\ l.voters = p.voters /\ l.Term = p.Term
      /\ l.state = "StateLeader" /\ Outbox(l) = Outbox(p)
      /\ l.log = p.log /\ l.committed = p.committed /\ l.panicked = p.panicked
      /\ \A j \in Server : l.prs[j] = NewProgress(IF j = p.id THEN Len(p.log) ELSE 0, next)
  <2>1. PICK z : z = reset(p, p.Term) /\ NodeOK(i, z)
    BY <1>1, ResetType
  <2>2. /\ z.id = p.id /\ z.voters = p.voters /\ z.Term = p.Term
        /\ z.msgs = p.msgs /\ z.msgsAfterAppend = p.msgsAfterAppend
        /\ z.log = p.log /\ z.committed = p.committed /\ z.panicked = p.panicked
    BY <1>1, <2>1, ResetFields, ResetLogs
  <2>3. \A j \in Server : z.prs[j] = NewProgress(IF j = p.id THEN Len(p.log) ELSE 0, next)
    BY <1>1, <2>1, ResetProgress DEF lastIndex
  <2>4. l = [z EXCEPT !.lead = p.id, !.state = "StateLeader"]
    BY <2>1
  <2>5. NodeOK(i, l)
    BY <2>1, <2>4, Fields, RoleType
  <2>6. z \in NodeRecord
    BY <2>1 DEF NodeOK
  <2> HIDE DEF l, next
  <2>7. /\ l.id = z.id /\ l.voters = z.voters /\ l.Term = z.Term /\ l.state = "StateLeader"
        /\ l.msgs = z.msgs /\ l.msgsAfterAppend = z.msgsAfterAppend /\ l.log = z.log
        /\ l.committed = z.committed /\ l.panicked = z.panicked /\ l.prs = z.prs
    BY <2>4, <2>6 DEF NodeRecord
  <2> QED BY <2>2, <2>3, <2>5, <2>7 DEF Outbox
<1>3. becomeLeader(p) = appendEntry(b, EmptyEntry)
  BY DEF becomeLeader
<1>4. /\ f \in [Server -> ProgressRecord] /\ \A j \in Server : ProgressOK(f[j])
      /\ \A j \in Server \ {p.id} : f[j].Match = 0 /\ f[j].Next = next
      /\ f[p.id].Match = Len(p.log) /\ f[p.id].Next = next
      /\ f[p.id].State = "StateReplicate" /\ ~ IsPaused(f[p.id])
  <2> HIDE DEF l
  <2>1. l.prs \in [Server -> ProgressRecord] /\ \A j \in Server : ProgressOK(l.prs[j])
    BY <1>1, <1>2, Fields
  <2>2. \A j \in Server : ProgressOK(BecomeReplicate(l.prs[j]))
    BY <2>1, BecomeReplicateType
  <2>3. f \in [Server -> ProgressRecord] /\ \A j \in Server : ProgressOK(f[j])
    BY <2>1, <2>2 DEF ProgressOK
  <2>4. \A j \in Server \ {p.id} : f[j] = NewProgress(0, next)
    BY <1>2, <2>1
  <2>5. f[p.id] = BecomeReplicate(NewProgress(Len(p.log), next))
    BY <1>1, <1>2, <2>1
  <2> HIDE DEF f
  <2>6. \A j \in Server \ {p.id} : f[j].Match = 0 /\ f[j].Next = next
    BY <2>4 DEF NewProgress
  <2> QED
    BY <1>1, <2>3, <2>5, <2>6 DEF BecomeReplicate, ResetState, NewProgress, IsPaused
<1> HIDE DEF l
<1>5. /\ NodeOK(i, b) /\ b.id = p.id /\ b.voters = Server /\ b.Term = p.Term
      /\ b.state = "StateLeader" /\ Outbox(b) = Outbox(p)
      /\ b.log = p.log /\ b.committed = p.committed /\ b.panicked = p.panicked /\ b.prs = f
  <2> HIDE DEF f
  <2>1. NodeOK(i, b)
    BY <1>1, <1>2, <1>4, FieldType
  <2>2. l \in NodeRecord
    BY <1>2 DEF NodeOK
  <2> QED BY <1>1, <1>2, <2>1, <2>2 DEF NodeRecord, Outbox
<1> HIDE DEF b, f
<1>6. Appends(b)
  BY <1>1, <1>5 DEF Appends, TermsOK
<1>7. PICK a : a = appendEntry(b, EmptyEntry)
  OBVIOUS
<1>8. EmptyEntry \in Data
  BY DEF Data
<1>9. NodeOK(i, a) /\ TermsOK(a) /\ Grown(b, a, EmptyEntry, m)
  BY <1>5, <1>6, <1>7, <1>8, AppendEntryGrows
<1>10. /\ a.id = p.id /\ a.voters = Server /\ a.Term = p.Term /\ a.state = "StateLeader"
       /\ a.panicked = p.panicked /\ a.prs = f
       /\ a.log = Append(p.log, [Term |-> p.Term, Data |-> EmptyEntry])
       /\ Len(a.log) = next /\ a.log[next].Term = p.Term
       /\ \A x \in Outbox(a) : x \in Outbox(p) \/ Reports(a, m, x)
  BY <1>5, <1>9 DEF Grown
<1>11. PeersOK(a)
  <2>1. a.log \in Seq(Entry) /\ DOMAIN a.log = 1..Len(a.log)
    BY <1>9, Fields, LenProperties
  <2>2. Len(p.log) >= BootLen
    BY <1>1 DEF TermsOK
  <2>3. \A j \in Server : PeerOK(a, f[j])
    BY <1>1, <1>4, <1>10, <2>1, <2>2 DEF PeerOK
  <2> QED BY <1>4, <1>10, <2>3 DEF PeersOK
<1>12. Writes(p, a, m)
  <2>1. Credits(p, a, m)
    BY <1>4, <1>10 DEF Credits
  <2>2. a.log = Append(p.log, [Term |-> a.Term, Data |-> EmptyEntry])
    BY <1>10
  <2>3. a.Term >= p.Term
    BY <1>1, <1>10
  <2> QED BY <1>1, <1>8, <1>10, <2>1, <2>2, <2>3 DEF Writes
<1>13. s = bcastAppend(a)
  BY <1>3, <1>7
<1> QED
  BY <1>9, <1>10, <1>11, <1>12, <1>13, GrownServes

\* A campaign asks for votes with the log as it is.
LEMMA CampaignServes ==
  ASSUME NEW i, NEW r, NodeOK(i, r), TermsOK(r), NEW pre, r.state # "StateLeader",
         r.voters = Server, NEW m, NEW s, s = campaign(r, pre)
  PROVE  Served(r, s, m)
<1> DEFINE c    == IF pre THEN becomePreCandidate(r) ELSE becomeCandidate(r)
           t    == IF pre THEN c.Term + 1 ELSE c.Term
           type == IF pre THEN "MsgPreVote" ELSE "MsgVote"
           self == [Message(voteRespMsgType(type), r.id) EXCEPT !.Term = t]
           req(to) == [Message(type, to) EXCEPT !.Term = t, !.Index = lastIndex(r.log),
                                                !.LogTerm = lastTerm(r.log)]
           reqs == {req(to) : to \in Peers(r)}
           u    == send(c, self)
<1>1. /\ r.Term \in Nat /\ r.Term >= 1 /\ r.id \in Server /\ r.Term + 1 \in Nat
      /\ r.log \in Seq(Entry) /\ DOMAIN r.log = 1..Len(r.log)
      /\ lastIndex(r.log) \in Nat /\ lastTerm(r.log) \in Nat
  <2>1. r.Term \in Nat /\ r.id \in Server /\ r.log \in Seq(Entry)
    BY Fields
  <2>2. r.Term >= 1 /\ r.Term + 1 \in Nat
    BY <2>1 DEF TermsOK
  <2>3. DOMAIN r.log = 1..Len(r.log)
    BY <2>1, LenProperties
  <2>4. lastIndex(r.log) \in Nat /\ lastTerm(r.log) \in Nat
    BY <2>1, TermType
  <2> QED BY <2>1, <2>2, <2>3, <2>4
<1>2. NodeOK(i, c)
  BY <1>1, BecomeType
<1>3. /\ c.id = r.id /\ c.voters = Server /\ Outbox(c) = Outbox(r)
      /\ c.log = r.log /\ c.committed = r.committed /\ c.panicked = r.panicked
      /\ pre => c.state = "StatePreCandidate" /\ c.Term = r.Term
      /\ ~ pre => c.state = "StateCandidate" /\ c.Term = r.Term + 1
  <2>1. CASE pre
    <3>1. PICK votes : votes = ResetVotes(Server)
      OBVIOUS
    <3>2. c = [r EXCEPT !.votes = votes, !.lead = None, !.state = "StatePreCandidate"]
      BY <2>1, <3>1 DEF becomePreCandidate
    <3> HIDE DEF c
    <3> QED BY <2>1, <3>2 DEF NodeOK, NodeRecord, Outbox
  <2>2. CASE ~ pre
    <3>1. PICK z : z = reset(r, r.Term + 1) /\ NodeOK(i, z)
      BY <1>1, ResetType
    <3>2. c = [z EXCEPT !.Vote = r.id, !.state = "StateCandidate"]
      BY <2>2, <3>1 DEF becomeCandidate
    <3>3. /\ z.Term = r.Term + 1 /\ z.id = r.id /\ z.voters = r.voters /\ z.msgs = r.msgs
          /\ z.msgsAfterAppend = r.msgsAfterAppend
          /\ z.log = r.log /\ z.committed = r.committed /\ z.panicked = r.panicked
      BY <1>1, <3>1, ResetFields, ResetLogs
    <3> HIDE DEF c
    <3> QED BY <2>2, <3>1, <3>2, <3>3 DEF NodeOK, NodeRecord, Outbox
  <2> QED BY <2>1, <2>2
<1>4. t \in Nat /\ t > 0 /\ (~ pre => t = c.Term)
  BY <1>1, <1>3
<1>5. /\ type \in MessageTypes \ {"MsgProp"} /\ type \in {"MsgVote", "MsgPreVote"}
      /\ type = "MsgVote" => ~ pre
      /\ voteRespMsgType(type) \in MessageTypes \ {"MsgProp"}
      /\ voteRespMsgType(type) = IF pre THEN "MsgPreVoteResp" ELSE "MsgVoteResp"
  BY DEF MessageTypes, VoteMsgs, voteRespMsgType
<1>6. /\ self \in Unsent /\ self.Type = voteRespMsgType(type) /\ self.From = None
      /\ self.To = r.id /\ self.Term = t
  <2> HIDE DEF t, type
  <2>1. self \in Unsent
    BY <1>4, <1>5, Fields, MessageType
  <2> QED BY <2>1 DEF Message
<1>7. reqs \in SUBSET Unsent
      /\ \A q \in reqs : /\ q.Type = type /\ q.Term = t /\ q.To # r.id /\ q.From = None
                         /\ q.Index = lastIndex(r.log) /\ q.LogTerm = lastTerm(r.log)
  <2>1. \A to \in Server : req(to) \in Unsent
    <3> HIDE DEF t, type
    <3> QED BY <1>1, <1>4, <1>5, MessageType
  <2>2. Peers(r) \in SUBSET Server /\ r.id \notin Peers(r)
    BY Fields DEF Peers
  <2>3. \A to : /\ req(to).Type = type /\ req(to).Term = t /\ req(to).To = to
                /\ req(to).From = None
                /\ req(to).Index = lastIndex(r.log) /\ req(to).LogTerm = lastTerm(r.log)
    BY DEF Message
  <2> HIDE DEF req, t, type
  <2> QED BY <2>1, <2>2, <2>3
<1>8. s = sendAll(u, reqs)
  BY <1>1 DEF campaign
<1> HIDE DEF c, t, type, self, reqs
<1>9. NodeOK(i, u)
  BY <1>2, <1>6, SendType
<1>10. Still(c, u, m)
  <2>1. self.Type \in {"MsgVoteResp", "MsgPreVoteResp"} /\ (Granted(self) => ~ pre)
    BY <1>5, <1>6 DEF Granted
  <2> QED BY <1>2, <1>3, <1>4, <1>6, <2>1, SendVoteStill
<1> HIDE DEF u
<1>11. /\ u.id = r.id /\ u.log = r.log /\ u.Term = c.Term /\ u.state = c.state
  BY <1>3, <1>10 DEF Still
<1>12. ASSUME NEW q \in reqs
       PROVE  ~ sendPanics(u, q) /\ Reports(u, m, stamp(u, q))
  <2>1. /\ q \in Unsent /\ q.Type = type /\ q.Term = t /\ q.To # r.id /\ q.From = None
        /\ q.Index = lastIndex(r.log) /\ q.LogTerm = lastTerm(r.log)
    BY <1>7
  <2>2. q.Type \in VoteMsgs /\ q.Type \notin AfterAppend
    BY <1>5, <2>1 DEF VoteMsgs, AfterAppend
  <2>3. ~ sendPanics(u, q)
    BY <1>4, <1>11, <2>1, <2>2 DEF sendPanics
  <2>4. PICK x : x = stamp(u, q)
    OBVIOUS
  <2>5. /\ x.Type = q.Type /\ x.To = q.To /\ x.From = u.id /\ x.Term = t
        /\ x.Index = q.Index /\ x.LogTerm = q.LogTerm
    BY <1>9, <2>1, <2>2, <2>4, StampFields
  <2>6. WellSent(x) /\ AppendShort(x) /\ ~ Ack(x) /\ ~ Granted(x) /\ x.Type # "MsgApp"
    BY <1>4, <1>5, <1>11, <2>1, <2>5 DEF WellSent, AppendShort, Ack, Granted
  <2>7. x.Type = "MsgVote" =>
          /\ u.state = "StateCandidate" /\ x.From = u.id /\ x.Term = u.Term
          /\ x.Index = lastIndex(u.log) /\ x.LogTerm = lastTerm(u.log)
    BY <1>3, <1>4, <1>5, <1>11, <2>1, <2>5
  <2> QED BY <2>3, <2>4, <2>6, <2>7 DEF Reports
<1>13. Still(u, s, m)
  BY <1>7, <1>8, <1>9, <1>12, SendAllStill
<1>14. Still(c, s, m)
  BY <1>10, <1>13, StillTransitive
<1>15. TermsOK(c)
  <2>1. \A k \in DOMAIN r.log : r.log[k].Term \in Nat
    <3>1. \A k \in DOMAIN r.log : r.log[k] \in Entry
      BY <1>1, ElementOfSeq
    <3> QED BY <3>1 DEF Entry
  <2> QED BY <1>1, <1>3, <2>1 DEF TermsOK
<1>16. TermsOK(s)
  BY <1>14, <1>15, StillTerms
<1>17. Writes(r, s, m)
  BY <1>1, <1>3, <1>14 DEF Still, Writes
<1>18. PeersOK(s)
  BY <1>3, <1>14 DEF Still, PeersOK
<1> QED
  BY <1>16, <1>17, <1>18 DEF Served

LEMMA HupServes ==
  ASSUME NEW i, NEW r, NodeOK(i, r), TermsOK(r), PeersOK(r), NEW pre, NEW m,
         NEW s, s = hup(r, pre)
  PROVE  Served(r, s, m)
<1>1. CASE r.state = "StateLeader" \/ ~ promotable(r)
  <2>1. s = r
    BY <1>1 DEF hup
  <2> QED BY <2>1, StillSelf, StillServed
<1>2. CASE ~ (r.state = "StateLeader" \/ ~ promotable(r))
  <2>1. s = campaign(r, pre)
    BY <1>2 DEF hup
  <2>2. r.voters = Server
    BY <1>2, Fields DEF promotable
  <2> QED BY <1>2, <2>1, <2>2, CampaignServes
<1> QED
  BY <1>1, <1>2

LEMMA PoisedItself ==
  ASSUME NEW i, NEW r, NodeOK(i, r), TermsOK(r), PeersOK(r), NEW h, NodeOK(i, h), Poised(r, h),
         NEW m
  PROVE  Served(r, h, m)
BY PoisedIsWritten, PoisedTerms, PoisedPeers DEF Served

LEMMA StepCandidateServes ==
  ASSUME NEW i, NEW r, NodeOK(i, r), TermsOK(r), PeersOK(r),
         r.state \in {"StatePreCandidate", "StateCandidate"},
         NEW m, Arrives(r, m), Timely(r, m), NEW s, s = stepCandidate(r, m)
  PROVE  Served(r, s, m)
<1> DEFINE mine == IF r.state = "StatePreCandidate" THEN "MsgPreVoteResp" ELSE "MsgVoteResp"
           p    == poll(r, m.From, ~ m.Reject)
           res  == JointVoteResult(r.voters, {}, p.votes)
<1>1. /\ m \in Messages /\ m.From \in Server /\ m.Term \in Nat /\ r.Term \in Nat
      /\ m.To = r.id /\ WellSent(m) /\ Dated(m) /\ r.voters = Server
  BY Fields DEF Arrives, Messages, Unsent, TermsOK
<1>2. Served(r, r, m)
  BY StillSelf, StillServed
<1>3. CASE m.Type \in LeaderMsgs
  <2>1. m.Term >= r.Term /\ m.Term > 0
    BY <1>1, <1>3 DEF Timely, Dated
  <2>2. PICK b : b = becomeFollower(r, m.Term, m.From)
    OBVIOUS
  <2>3. NodeOK(i, b) /\ Poised(r, b)
    BY <1>1, <2>1, <2>2, FollowerPoised, BecomeType
  <2>4. TermsOK(b) /\ PeersOK(b) /\ b.id = r.id
    BY <2>3, PoisedTerms, PoisedPeers DEF Poised
  <2>5. CASE m.Type = "MsgApp"
    <3>1. s = b
      BY <2>2, <2>5 DEF stepCandidate
    <3> QED BY <2>3, <3>1, PoisedItself
  <2>6. CASE m.Type = "MsgHeartbeat"
    <3>1. m.From # b.id
      BY <1>1, <2>4, <2>6 DEF WellSent, AfterAppend
    <3>2. s = handleHeartbeat(b, m)
      BY <2>2, <2>6 DEF stepCandidate
    <3>3. Still(b, s, m) /\ s.prs = b.prs
      BY <1>1, <2>3, <3>1, <3>2, HandleHeartbeatStill
    <3>4. Served(b, s, m) /\ NodeOK(i, s)
      BY <1>1, <2>3, <2>4, <3>2, <3>3, StillServed, HandleHeartbeatType
    <3> QED BY <2>3, <3>4, PoisedServed
  <2> QED BY <1>3, <2>5, <2>6 DEF LeaderMsgs
<1>4. CASE m.Type \notin LeaderMsgs /\ m.Type # mine
  <2>1. s = r
    BY <1>4 DEF stepCandidate, LeaderMsgs
  <2> QED BY <1>2, <2>1
<1>5. CASE m.Type = mine
  <2>1. s = CASE res = "VoteWon" -> IF r.state = "StatePreCandidate" THEN campaign(p, FALSE)
                                    ELSE bcastAppend(becomeLeader(p))
              [] res = "VoteLost" -> becomeFollower(p, r.Term, None)
              [] OTHER -> IF res = "VotePending" THEN p ELSE r
    <3>1. m.Type \notin {"MsgApp", "MsgHeartbeat"}
      BY <1>5
    <3>2. s = CASE m.Type = mine /\ res = "VoteWon" ->
                     IF r.state = "StatePreCandidate" THEN campaign(p, FALSE)
                     ELSE bcastAppend(becomeLeader(p))
                [] m.Type = mine /\ res = "VoteLost" -> becomeFollower(p, r.Term, None)
                [] m.Type = mine /\ res = "VotePending" -> p
                [] OTHER -> r
      BY <3>1 DEF stepCandidate
    <3> HIDE DEF p, res, mine
    <3> QED BY <1>5, <3>2
  <2>2. NodeOK(i, p) /\ Poised(r, p) /\ p.state = r.state /\ p.Term = r.Term /\ p.voters = Server
    <3>1. NodeOK(i, p)
      BY <1>1, PollType
    <3>2. PICK v : p = [r EXCEPT !.votes = v]
      BY DEF poll
    <3> HIDE DEF p
    <3> QED BY <1>1, <3>1, <3>2, PoisedFields DEF NodeOK, NodeRecord
  <2>3. PICK q : q = p
    OBVIOUS
  <2> HIDE DEF p, res
  <2>4. TermsOK(q) /\ PeersOK(q) /\ NodeOK(i, q) /\ Poised(r, q) /\ q.state = r.state
    BY <2>2, <2>3, PoisedTerms, PoisedPeers
  <2>5. NodeOK(i, s)
    BY <1>1, StepCandidateType
  <2>6. CASE res = "VoteWon" /\ r.state = "StatePreCandidate"
    <3>1. PICK no : no = FALSE
      OBVIOUS
    <3>2. s = campaign(q, no)
      BY <2>1, <2>3, <2>6, <3>1
    <3>3. Served(q, s, m)
      BY <2>2, <2>3, <2>4, <2>6, <3>2, CampaignServes
    <3> QED BY <2>4, <2>5, <3>3, PoisedServed
  <2>7. CASE res = "VoteWon" /\ r.state # "StatePreCandidate"
    <3>1. s = bcastAppend(becomeLeader(q)) /\ q.state = "StateCandidate"
      BY <2>1, <2>3, <2>4, <2>7
    <3>2. Served(q, s, m)
      BY <2>4, <3>1, BecomeLeaderServes
    <3> QED BY <2>4, <2>5, <3>2, PoisedServed
  <2>8. CASE res = "VoteLost"
    <3>1. s = becomeFollower(q, r.Term, None)
      BY <2>1, <2>3, <2>8
    <3>2. Poised(q, s)
      BY <1>1, <2>2, <2>3, <2>4, <3>1, FollowerPoised
    <3>3. Served(q, s, m)
      BY <2>4, <2>5, <3>2, PoisedItself
    <3> QED BY <2>4, <2>5, <3>3, PoisedServed
  <2>9. CASE res \notin {"VoteWon", "VoteLost"}
    <3>1. s = q \/ s = r
      BY <2>1, <2>3, <2>9
    <3> QED BY <1>2, <2>4, <3>1, PoisedItself
  <2> QED BY <2>6, <2>7, <2>8, <2>9
<1> QED
  BY <1>3, <1>4, <1>5
-----------------------------------------------------------------------------
(* Steps *)

LEMMA DispatchServes ==
  ASSUME NEW i, NEW r, NodeOK(i, r), TermsOK(r), PeersOK(r),
         NEW m, Arrives(r, m), Timely(r, m), NEW s, s = dispatch(r, m)
  PROVE  Served(r, s, m)
<1>1. CASE m.Type \in {"MsgVote", "MsgPreVote"}
  <2>1. m \in Messages /\ m.Term > 0 /\ m.Term >= r.Term /\ (m.Type = "MsgVote" => m.Term = r.Term)
    BY <1>1 DEF Arrives, Timely, WellSent, VoteMsgs
  <2>2. s = handleVote(r, m)
    BY <1>1 DEF dispatch
  <2> QED BY <1>1, <2>1, <2>2, HandleVoteStill, StillServed
<1>2. CASE m.Type \notin {"MsgVote", "MsgPreVote"} /\ r.state = "StateFollower"
  <2>1. s = stepFollower(r, m)
    BY <1>2 DEF dispatch
  <2> QED BY <1>2, <2>1, StepFollowerServes
<1>3. CASE m.Type \notin {"MsgVote", "MsgPreVote"} /\ r.state = "StateLeader"
  <2>1. s = stepLeader(r, m)
    BY <1>3 DEF dispatch
  <2> QED BY <1>3, <2>1, StepLeaderServes
<1>4. CASE /\ m.Type \notin {"MsgVote", "MsgPreVote"}
           /\ r.state \notin {"StateFollower", "StateLeader"}
  <2>1. s = stepCandidate(r, m)
    BY <1>4 DEF dispatch
  <2>2. r.state \in {"StatePreCandidate", "StateCandidate"}
    BY <1>4 DEF NodeOK, NodeRecord
  <2> QED BY <2>1, <2>2, StepCandidateServes
<1> QED
  BY <1>1, <1>2, <1>3, <1>4

\* Whatever raft.Step does with a message
LEMMA StepServes ==
  ASSUME NEW i, NEW r, NodeOK(i, r), TermsOK(r), PeersOK(r), NEW m, Arrives(r, m),
         NEW s, s = Step(r, m)
  PROVE  Served(r, s, m)
<1>1. m \in Messages /\ m.Term \in Nat /\ r.Term \in Nat /\ m.From \in Server
  BY Fields DEF Arrives, Messages, Unsent
<1>2. NodeOK(i, s)
  BY <1>1, StepType
<1>3. CASE isStale(r, m)
  <2>1. s = lowerTerm(r, m)
    BY <1>3 DEF Step
  <2> QED BY <1>1, <1>3, <2>1, LowerTermStill, StillServed
<1>4. CASE ~ isStale(r, m) /\ m.Term > r.Term
  <2>1. PICK h : h = higherTerm(r, m)
    OBVIOUS
  <2>2. s = dispatch(h, m)
    BY <1>4, <2>1 DEF Step
  <2>3. CASE m.Type = "MsgPreVote" \/ (m.Type = "MsgPreVoteResp" /\ ~ m.Reject)
    <3>1. h = r
      BY <2>1, <2>3 DEF higherTerm, LeaderMsgs
    <3>2. Timely(r, m)
      BY <1>1, <1>4, <2>3 DEF Timely
    <3> QED BY <2>2, <3>1, <3>2, DispatchServes
  <2>4. CASE ~ (m.Type = "MsgPreVote" \/ (m.Type = "MsgPreVoteResp" /\ ~ m.Reject))
    <3>1. PICK v \in Server \cup {None} : h = becomeFollower(r, m.Term, v)
      BY <1>1, <2>1, <2>4 DEF higherTerm
    <3>2. NodeOK(i, h) /\ Poised(r, h) /\ h.state = "StateFollower" /\ h.Term = m.Term
      BY <1>1, <1>4, <3>1, BecomeType, FollowerPoised
    <3>3. TermsOK(h) /\ PeersOK(h) /\ h.id = r.id
      BY <3>2, PoisedTerms, PoisedPeers DEF Poised
    <3>4. m.Type # "MsgProp"
      BY <1>1, <1>4 DEF Arrives, WellSent
    <3>5. Arrives(h, m) /\ Timely(h, m)
      BY <1>1, <3>2, <3>3, <3>4 DEF Arrives, Timely
    <3>6. Served(h, s, m)
      BY <2>2, <3>2, <3>3, <3>5, DispatchServes
    <3> QED BY <1>2, <3>2, <3>6, PoisedServed
  <2> QED BY <2>3, <2>4
<1>5. CASE ~ isStale(r, m) /\ ~ m.Term > r.Term
  <2>1. s = dispatch(r, m)
    BY <1>5 DEF Step
  <2>2. Timely(r, m)
    BY <1>1, <1>5 DEF Timely, isStale
  <2> QED BY <2>1, <2>2, DispatchServes
<1> QED
  BY <1>3, <1>4, <1>5

LEMMA SwitchToConfigServes ==
  ASSUME NEW i, NEW r, NodeOK(i, r), TermsOK(r), PeersOK(r), NEW m,
         NEW s, s = switchToConfig(r)
  PROVE  Served(r, s, m)
<1>1. CASE r.state # "StateLeader" \/ ~ promotable(r)
  <2>1. s = r
    BY <1>1 DEF switchToConfig
  <2> QED BY <2>1, StillSelf, StillServed
<1>2. CASE r.state = "StateLeader" /\ promotable(r)
  <2>1. PICK no : no = FALSE
    OBVIOUS
  <2>2. s = maybeSendAppend(r, Peers(r), no)
    BY <1>2, <2>1, NothingCommits DEF switchToConfig
  <2>3. PICK dests : dests = Peers(r)
    OBVIOUS
  <2>4. s = maybeSendAppend(r, dests, no) /\ dests \in SUBSET Peers(r)
    BY <2>2, <2>3
  <2>5. /\ TermsOK(s) /\ Still(r, s, m) /\ PeersOK(s)
        /\ \A j \in r.voters : s.prs[j].Match = r.prs[j].Match
    BY <1>2, <2>4, SendOneStill
  <2>6. Credits(r, s, m)
    BY <1>2, <2>5 DEF Credits, Still
  <2>7. Writes(r, s, m)
    BY <2>5, <2>6, StillWrites
  <2> QED BY <2>5, <2>7 DEF Served
<1> QED
  BY <1>1, <1>2
-----------------------------------------------------------------------------
(* Actions *)

\* m is known, where what is written depends on it.
Told(i, m) == m.Type \in {"MsgApp", "MsgAppResp", "MsgVote"} => m \in Pending /\ m.To = i

\* Node i is written on the word of m, and the rest of the cluster is as it was.
Wrote(i, m) ==
  /\ Served(node[i], node'[i], m) /\ Told(i, m)
  /\ \A j \in Server \ {i} : node'[j] = node[j]
  /\ \A x \in Pending' : x \in Pending \/ Reports(node'[i], m, x)
  /\ elected' = elected \cup
       (IF node'[i].state = "StateLeader" THEN {<<node'[i].Term, i>>} ELSE {})
  /\ Counted(node'[i]) \subseteq VoteBallots
  /\ node'[i].state = "StateLeader" =>
       node[i].state = "StateLeader" \/ Elected(node[i], VoteBallots)

\* What is left to step of the node's own messages, it had to step before.
LEMMA BecomesWrote ==
  ASSUME TypeOK, NEW i \in Server, NEW s, NodeOK(i, s), Becomes(i, s),
         NEW m, Told(i, m), Served(node[i], s, m),
         \A x \in Elements(s.stepsOnAdvance) : x \in Held(node[i]),
         \A x \in net' : x \in net \/ x \in Held(node[i]),
         Counted(s) \subseteq VoteBallots,
         s.state = "StateLeader" => node[i].state = "StateLeader" \/ Elected(node[i], VoteBallots)
  PROVE  Wrote(i, m)
<1>1. /\ node'[i] = s /\ \A j \in Server \ {i} : node'[j] = node[j]
      /\ elected' = elected \cup (IF s.state = "StateLeader" THEN {<<s.Term, i>>} ELSE {})
  BY DEF Becomes, TypeOK
<1>2. Held(node[i]) \subseteq Pending /\ net \subseteq Pending
  BY DEF Pending
<1>3. \A x \in Held(s) : x \in Pending \/ Reports(s, m, x)
  <2>1. Held(s) = Outbox(s) \cup Elements(s.stepsOnAdvance)
    BY DEF Held, Outbox
  <2>2. Outbox(node[i]) \subseteq Held(node[i])
    BY DEF Held, Outbox
  <2>3. \A x \in Outbox(s) : x \in Outbox(node[i]) \/ Reports(s, m, x)
    BY DEF Served, Writes
  <2> QED BY <1>2, <2>1, <2>2, <2>3
<1>4. \A x \in Pending' : x \in Pending \/ Reports(s, m, x)
  <2> SUFFICES ASSUME NEW x \in Pending'
               PROVE  x \in Pending \/ Reports(s, m, x)
    OBVIOUS
  <2>1. CASE x \in net'
    BY <1>2, <2>1
  <2>2. CASE \E j \in Server : x \in Held(node'[j])
    <3>1. PICK j \in Server : x \in Held(node'[j])
      BY <2>2
    <3>2. CASE j = i
      BY <1>1, <1>3, <3>1, <3>2
    <3>3. CASE j # i
      BY <1>1, <3>1, <3>3 DEF Pending
    <3> QED BY <3>2, <3>3
  <2>3. x \in net' \cup UNION {Held(node'[j]) : j \in Server}
    BY DEF Pending
  <2> QED BY <2>1, <2>2, <2>3
<1> QED
  BY <1>1, <1>4 DEF Wrote

LEMMA HandlerWrote ==
  ASSUME TypeOK, NEW i \in Server, NEW s, NodeOK(i, s), Becomes(i, s), NEW r, Like(node[i], r),
         NEW m, Told(i, m), Served(node[i], s, m),
         NEW C, Handles(r, s, C), C \subseteq VoteBallots, net' \subseteq net
  PROVE  Wrote(i, m)
<1>1. PICK n : n = node[i]
  OBVIOUS
<1>2. /\ Elements(s.stepsOnAdvance) \subseteq Elements(n.stepsOnAdvance)
      /\ Elements(n.stepsOnAdvance) \subseteq Held(n)
      /\ Counted(r) = Counted(n) /\ r.Term = n.Term /\ r.id = n.id /\ r.state = n.state
  BY <1>1 DEF Like, Held, Handles, Moves, Counted
<1>3. Counted(n) \subseteq VoteBallots
  <2>1. Counted(node[i]) \subseteq VoteBallots
    BY DEF VoteBallots
  <2> QED BY <1>1, <2>1
<1>4. Counted(s) \subseteq VoteBallots
  BY <1>2, <1>3 DEF Handles, Tallies
<1>5. s.state = "StateLeader" => n.state = "StateLeader" \/ Elected(n, VoteBallots)
  <2>1. s.state = "StateLeader" => r.state = "StateLeader" \/ Elected(r, C)
    BY DEF Handles, Tallies
  <2>2. Elected(r, C) => Elected(n, VoteBallots)
    BY <1>2, <1>3 DEF Elected
  <2> QED BY <1>2, <2>1, <2>2
<1> QED
  BY <1>1, <1>2, <1>4, <1>5, BecomesWrote

LEMMA ServedStill ==
  ASSUME NEW r, NEW h, NEW s, NEW m, Served(r, h, m), Still(h, s, m), s.prs = h.prs
  PROVE  Served(r, s, m)
<1>1. Writes(r, s, m)
  BY WritesStill DEF Served
<1>2. PeersOK(s)
  BY DEF Served, Still, PeersOK, PeerOK
<1> QED
  BY <1>1, <1>2, StillTerms DEF Served

\* A message that is on its way to a node, as the invariants know it
LEMMA PendingArrives ==
  ASSUME TypeOK, VotesOK, LeadsOK, LogsOK, AcksOK, NEW i \in Server,
         NEW m, m \in Pending \/ (m \in Messages /\ m.Type = "MsgProp" /\ m.Term = 0),
         m.To = i, NEW r, r.id = i, r.Term = node[i].Term, r.state = node[i].state,
         r.lead = node[i].lead, r.log = node[i].log
  PROVE  Arrives(r, m)
<1>1. m \in Messages
  BY Fields DEF TypeOK, Pending, Held, Elements
<1>2. WellSent(m) /\ AppendShort(m)
  BY <1>1 DEF LogsOK, AppendOK, WellSent, AppendShort, VoteMsgs
<1>3. Dated(m)
  <2>1. CASE m \in Pending
    BY <2>1 DEF Pending, VotesOK, VoteOK
  <2>2. CASE m.Type = "MsgProp"
    BY <2>2 DEF Dated, Granted, LeaderMsgs
  <2> QED BY <2>1, <2>2
<1>4. r.state = "StateFollower" => r.lead # r.id
  <2>1. ASSUME r.state = "StateFollower", r.lead = i
        PROVE  FALSE
    <3>1. <<node[i].Term, i>> \in elected
      BY <2>1, ServerAssumption DEF LeadsOK, Follows
    <3>2. PICK e : e = <<node[i].Term, i>>
      OBVIOUS
    <3>3. node[e[2]].Term > e[1] \/ LeadsIn(e[2], e[1])
      BY <3>1, <3>2 DEF LogsOK
    <3>4. node[i].Term > node[i].Term \/ Leader(i)
      BY <3>2, <3>3 DEF LeadsIn
    <3>5. node[i].Term \in Nat
      BY Fields DEF TypeOK
    <3> QED BY <2>1, <3>4, <3>5 DEF Leader
  <2> QED BY <2>1
<1>5. Ack(m) /\ r.state = "StateLeader" /\ m.Term \in {0, r.Term} => m.Index <= Len(r.log)
  <2> SUFFICES ASSUME Ack(m), Leader(i), m.Term \in {0, node[i].Term}, m.Index > 0
               PROVE  m.Index <= Len(node[i].log)
    <3>1. m.Index \in Nat /\ Len(node[i].log) \in Nat
      BY <1>1, Fields, LenProperties DEF TypeOK, Messages, Unsent
    <3> QED BY <3>1 DEF Leader
  <2>1. m \in Pending
    BY DEF Ack
  <2>2. AckOK(m)
    BY <2>1 DEF AcksOK
  <2>3. <<m.Term, i>> \in elected
    BY <2>2 DEF AckOK
  <2>4. PICK e : e = <<m.Term, i>>
    OBVIOUS
  <2>5. m.Term >= 2
    BY <2>3, <2>4 DEF LogsOK
  <2>6. LeadsIn(i, m.Term)
    BY <2>5 DEF LeadsIn
  <2> QED BY <2>2, <2>6 DEF AckOK
<1> QED
  BY <1>1, <1>2, <1>3, <1>4, <1>5 DEF Arrives

LEMMA ReadyWrote ==
  ASSUME TypeOK, LogsOK, NEW i \in Server, Ready(i), NEW m, Told(i, m)
  PROVE  Wrote(i, m)
<1>1. PICK n : n = node[i] /\ NodeOK(i, n) /\ TermsOK(n) /\ PeersOK(n)
  BY DEF TypeOK, LogsOK
<1>2. PICK s : s = [n EXCEPT !.stepsOnAdvance = n.msgsAfterAppend, !.msgs = {},
                             !.msgsAfterAppend = <<>>, !.ready = n.committed,
                             !.phase = "handed"]
  OBVIOUS
<1>3. Becomes(i, s) /\ net' = net \cup n.msgs
  BY <1>1, <1>2 DEF Ready
<1>4. /\ s.id = n.id /\ s.Term = n.Term /\ s.state = n.state /\ s.votes = n.votes
      /\ s.voters = n.voters /\ s.log = n.log /\ s.committed = n.committed
      /\ s.panicked = n.panicked /\ s.prs = n.prs /\ s.msgs = {} /\ s.msgsAfterAppend = <<>>
      /\ s.stepsOnAdvance = n.msgsAfterAppend
  BY <1>1, <1>2 DEF NodeOK, NodeRecord
<1>5. NodeOK(i, s)
  <2>1. <<>> \in Seq(Messages) /\ {} \in SUBSET Messages
    OBVIOUS
  <2> QED BY <1>1, <1>2, <2>1, ZenonT(30) DEF NodeOK, NodeRecord
<1>6. Outbox(s) = {} /\ Elements(s.stepsOnAdvance) \subseteq Held(n) /\ n.msgs \subseteq Held(n)
  BY <1>4 DEF Outbox, Held, Elements
<1>7. Still(n, s, m)
  BY <1>4, <1>6 DEF Still
<1>8. Served(n, s, m)
  BY <1>1, <1>4, <1>7, StillServed
<1>9. Counted(n) \subseteq VoteBallots
  <2>1. Counted(node[i]) \subseteq VoteBallots
    BY DEF VoteBallots
  <2> QED BY <1>1, <2>1
<1>10. Counted(s) = Counted(n)
  BY <1>4 DEF Counted
<1> QED
  BY <1>1, <1>3, <1>4, <1>5, <1>6, <1>8, <1>9, <1>10, BecomesWrote

LEMMA AdvanceWrote ==
  ASSUME TypeOK, VotesOK, LeadsOK, LogsOK, AcksOK, NEW i \in Server, Advance(i),
         NEW idle, Told(i, idle)
  PROVE  \E m : Wrote(i, m)
<1>1. PICK n : n = node[i] /\ NodeOK(i, n) /\ VoteOK(n) /\ TermsOK(n) /\ PeersOK(n)
  BY DEF TypeOK, VotesOK, LogsOK
<1>2. net' = net
  BY DEF Advance
<1>3. RoleOK(n)
  BY <1>1 DEF VoteOK, RoleOK
<1>4. CASE n.stepsOnAdvance = <<>>
  <2>1. PICK s : s = [n EXCEPT !.phase = "idle"]
    OBVIOUS
  <2>2. NodeOK(i, s) /\ Keeps(n, s)
    BY <1>1, <2>1, FieldKeeps, ZenonT(30) DEF NodeOK, NodeRecord
  <2>3. Becomes(i, s)
    BY <1>1, <1>4, <2>1 DEF Advance
  <2>4. Handles(n, s, {})
    BY <1>1, <1>3, <2>2, KeepsHandles
  <2>5. Still(n, s, idle) /\ s.prs = n.prs
    BY <1>1, <2>1 DEF Still, Outbox, NodeOK, NodeRecord
  <2>6. Served(n, s, idle)
    BY <1>1, <2>5, StillServed
  <2> QED BY <1>1, <1>2, <2>2, <2>3, <2>4, <2>6, HandlerWrote DEF Like
<1>5. CASE n.stepsOnAdvance # <<>>
  <2> DEFINE q == n.stepsOnAdvance
             rest == Tail(q)
             phase == IF rest = <<>> THEN "idle" ELSE "advancing"
             m == Head(q)
  <2>1. /\ rest \in Seq(Messages) /\ m \in Messages /\ m \in Elements(q)
        /\ Elements(rest) \subseteq Elements(q)
    <3>1. q \in Seq(Messages) /\ q # <<>>
      BY <1>1, <1>5, Fields
    <3> HIDE DEF q
    <3>2. /\ rest \in Seq(Messages) /\ m \in Messages /\ m = q[1] /\ 1 \in DOMAIN q
          /\ \A k \in DOMAIN rest : k + 1 \in DOMAIN q /\ rest[k] = q[k + 1]
      BY <3>1, HeadTailProperties
    <3> HIDE DEF rest, m
    <3> QED BY <3>2 DEF Elements
  <2>2. PICK r : r = [n EXCEPT !.stepsOnAdvance = rest, !.phase = phase]
    OBVIOUS
  <2>3. Becomes(i, Step(r, m))
    BY <1>1, <1>5, <2>2 DEF Advance, AdvanceStep
  <2>4. phase \in {"idle", "handed", "advancing"}
    OBVIOUS
  <2>5. m \in Held(n) /\ m.To = i /\ Dated(m)
    BY <1>1, <2>1 DEF Held, VoteOK, Elements, NodeOK
  <2> HIDE DEF rest, phase, m, q
  <2>6. NodeOK(i, r) /\ r.stepsOnAdvance = rest
        /\ r.id = n.id /\ r.Term = n.Term /\ r.Vote = n.Vote /\ r.state = n.state
        /\ r.votes = n.votes /\ r.voters = n.voters /\ r.msgs = n.msgs
        /\ r.msgsAfterAppend = n.msgsAfterAppend /\ r.lead = n.lead /\ r.log = n.log /\ r.id = i
    BY <1>1, <2>1, <2>2, <2>4, ZenonT(30) DEF NodeOK, NodeRecord
  <2>7. Like(n, r) /\ Poised(n, r)
    BY <1>1, <2>1, <2>2, <2>6, PoisedFields DEF Like, q
  <2>8. RoleOK(r) /\ TermsOK(r) /\ PeersOK(r)
    BY <1>1, <1>3, <2>6, <2>7, PoisedTerms, PoisedPeers DEF RoleOK
  <2>9. NodeOK(i, Step(r, m)) /\ Handles(r, Step(r, m), Cast({m}))
    BY <2>1, <2>5, <2>6, <2>8, StepHandles, StepType
  <2>10. Cast({m}) \subseteq VoteBallots
    BY <1>1, <2>5, KnownBallot
  <2>11. m \in Pending /\ Told(i, m)
    BY <1>1, <2>5 DEF Pending, Told
  <2>12. Arrives(r, m)
    BY <1>1, <2>5, <2>6, <2>11, PendingArrives
  <2>13. PICK s : s = Step(r, m)
    OBVIOUS
  <2>14. Served(r, s, m)
    BY <2>6, <2>8, <2>12, <2>13, StepServes
  <2>15. Served(n, s, m)
    BY <1>1, <2>6, <2>7, <2>9, <2>13, <2>14, PoisedServed
  <2>16. Wrote(i, m)
    BY <1>1, <1>2, <2>3, <2>7, <2>9, <2>10, <2>11, <2>13, <2>15, HandlerWrote
  <2> QED BY <2>16
<1> QED
  BY <1>4, <1>5

\* Whatever the step, one node is written.
LEMMA NextWrote ==
  ASSUME MaxRestarts = 0, TypeOK, VotesOK, LeadsOK, LogsOK, AcksOK, Next
  PROVE  \E i \in Server : \E m : Wrote(i, m)
<1>1. PICK i \in Server :
        \/ ElectionTimeout(i) \/ HeartbeatTimeout(i)
        \/ \E m \in net : Receive(i, m)
        \/ \E v \in Value : Propose(i, v)
        \/ \E m \in net : ReceiveProposal(i, m)
        \/ Ready(i) \/ Publish(i) \/ Advance(i) \/ Restart(i)
  BY DEF Next
<1>2. PICK n : /\ n = node[i] /\ NodeOK(i, n) /\ VoteOK(n) /\ Like(node[i], n)
               /\ TermsOK(n) /\ PeersOK(n)
  BY DEF TypeOK, VotesOK, Like, LogsOK
<1>3. RoleOK(n) /\ n.id = i
  BY <1>2 DEF VoteOK, RoleOK, NodeOK
<1>4. PICK idle : idle.Type = "MsgHeartbeat" /\ Told(i, idle)
  <2>1. PICK x : x = Message("MsgHeartbeat", i)
    OBVIOUS
  <2>2. x.Type = "MsgHeartbeat"
    BY <2>1 DEF Message
  <2> QED BY <2>2 DEF Told
<1>5. ASSUME NEW m \in net, Delivers(m)
      PROVE  net' \subseteq net
  BY <1>5 DEF Delivers
<1>6. {} \subseteq VoteBallots
  OBVIOUS
<1>7. CASE ElectionTimeout(i)
  <2>1. PICK s : s = hup(n, PreVote) /\ NodeOK(i, s) /\ Handles(n, s, {})
    BY <1>2, <1>3, HupHandles, CampaignType
  <2>2. Becomes(i, s) /\ net' \subseteq net
    BY <1>2, <1>7, <2>1 DEF ElectionTimeout
  <2>3. Served(n, s, idle)
    BY <1>2, <2>1, HupServes
  <2> QED BY <1>2, <1>4, <1>6, <2>1, <2>2, <2>3, HandlerWrote
<1>8. CASE HeartbeatTimeout(i)
  <2>1. n.Term > 0 /\ n.state = "StateLeader"
    BY <1>2, <1>3, <1>8 DEF HeartbeatTimeout, RoleOK
  <2>2. PICK s : s = bcastHeartbeat(n) /\ NodeOK(i, s) /\ Keeps(n, s)
    BY <1>2, <2>1, BroadcastKeeps, BroadcastType
  <2>3. Handles(n, s, {})
    BY <1>2, <1>3, <2>2, KeepsHandles
  <2>4. Becomes(i, s) /\ net' \subseteq net
    BY <1>2, <1>8, <2>2 DEF HeartbeatTimeout
  <2>5. Still(n, s, idle) /\ s.prs = n.prs
    BY <1>2, <2>1, <2>2, BroadcastStill
  <2>6. Served(n, s, idle)
    BY <1>2, <2>5, StillServed
  <2> QED BY <1>2, <1>4, <1>6, <2>2, <2>3, <2>4, <2>6, HandlerWrote
<1>9. CASE \E m \in net : Receive(i, m)
  <2>1. PICK m \in net : Receive(i, m)
    BY <1>9
  <2>2. m \in Messages /\ m.To = i /\ m.To = n.id /\ Dated(m) /\ m \in Pending
    BY <1>3, <2>1 DEF Receive, TypeOK, VotesOK, Pending
  <2>3. PICK s : s = Step(n, m) /\ NodeOK(i, s) /\ Handles(n, s, Cast({m}))
    BY <1>2, <1>3, <2>2, StepHandles, StepType
  <2>4. Becomes(i, s) /\ net' \subseteq net
    BY <1>2, <1>5, <2>1, <2>3 DEF Receive
  <2>5. Cast({m}) \subseteq VoteBallots
    BY KnownBallot
  <2>6. Arrives(n, m)
    BY <1>2, <1>3, <2>2, PendingArrives
  <2>7. Served(n, s, m)
    BY <1>2, <2>3, <2>6, StepServes
  <2>8. Told(i, m)
    BY <2>2 DEF Told
  <2> QED BY <1>2, <2>3, <2>4, <2>5, <2>7, <2>8, HandlerWrote
<1>10. ASSUME NEW m \in Messages, m.Type = "MsgProp", m.To = i, m.Term = 0
       PROVE  \E s : /\ s = Step(n, m) /\ NodeOK(i, s) /\ Handles(n, s, {})
                     /\ Served(n, s, m) /\ Told(i, m)
  <2>1. Dated(m) /\ Cast({m}) = {}
    BY <1>10 DEF Dated, Granted, LeaderMsgs, Cast
  <2>2. PICK s : s = Step(n, m) /\ NodeOK(i, s) /\ Handles(n, s, {})
    BY <1>2, <1>3, <1>10, <2>1, StepHandles, StepType
  <2>3. Arrives(n, m)
    BY <1>2, <1>3, <1>10, PendingArrives
  <2>4. Served(n, s, m)
    BY <1>2, <2>2, <2>3, StepServes
  <2>5. Told(i, m)
    BY <1>10 DEF Told
  <2> QED BY <2>2, <2>4, <2>5
<1>11. CASE \E v \in Value : Propose(i, v)
  <2>1. PICK v \in Value : Propose(i, v)
    BY <1>11
  <2>2. PICK m \in Messages : m = Proposal(i, v) /\ m.Type = "MsgProp" /\ m.To = i /\ m.Term = 0
    BY ProposalType DEF Proposal, Message
  <2>3. PICK t : /\ t = Step(n, m) /\ NodeOK(i, t) /\ Handles(n, t, {})
                 /\ Served(n, t, m) /\ Told(i, m)
    BY <1>10, <2>2
  <2>4. PICK s : s = [t EXCEPT !.waiting = TRUE]
    OBVIOUS
  <2>5. NodeOK(i, s) /\ Keeps(t, s)
    BY <2>3, <2>4, FieldKeeps DEF NodeOK, NodeRecord
  <2>6. Handles(n, s, {})
    BY <2>3, <2>5, HandlesKeeps
  <2>7. Becomes(i, s) /\ net' \subseteq net
    BY <1>2, <2>1, <2>2, <2>3, <2>4 DEF Propose
  <2>8. Still(t, s, m) /\ s.prs = t.prs
    BY <2>3, <2>4 DEF Still, Outbox, NodeOK, NodeRecord
  <2>9. Served(n, s, m)
    BY <2>3, <2>8, ServedStill
  <2> QED BY <1>2, <1>6, <2>3, <2>5, <2>6, <2>7, <2>9, HandlerWrote
<1>12. CASE \E m \in net : ReceiveProposal(i, m)
  <2>1. PICK m \in net : ReceiveProposal(i, m)
    BY <1>12
  <2>2. PICK p : p = [m EXCEPT !.From = i]
    OBVIOUS
  <2>3. m \in Messages /\ m.Type = "MsgProp" /\ m.To = i /\ m.Term = 0
    <3>1. m \in Pending
      BY DEF Pending
    <3> QED BY <2>1, <3>1 DEF ReceiveProposal, TypeOK, LogsOK, AppendOK, WellSent
  <2>4. p \in Messages /\ p.Type = "MsgProp" /\ p.To = i /\ p.Term = 0
    BY <2>2, <2>3 DEF Messages, Unsent
  <2>5. PICK s : /\ s = Step(n, p) /\ NodeOK(i, s) /\ Handles(n, s, {})
                 /\ Served(n, s, p) /\ Told(i, p)
    BY <1>10, <2>4
  <2>6. Becomes(i, s) /\ net' \subseteq net
    BY <1>2, <1>5, <2>1, <2>2, <2>5 DEF ReceiveProposal
  <2> QED BY <1>2, <1>6, <2>5, <2>6, HandlerWrote
<1>13. CASE Publish(i)
  <2>1. PICK a : /\ a = [n EXCEPT !.appliedIndex = n.ready] /\ NodeOK(i, a) /\ Keeps(n, a)
                 /\ Poised(n, a)
    <3>1. n.ready \in Nat
      BY <1>2, Fields
    <3>2. NodeOK(i, [n EXCEPT !.appliedIndex = n.ready])
      BY <1>2, <3>1, FieldType
    <3>3. Keeps(n, [n EXCEPT !.appliedIndex = n.ready])
      BY <1>2, FieldKeeps
    <3>4. Poised(n, [n EXCEPT !.appliedIndex = n.ready])
      BY <1>2, PoisedFields
    <3> QED BY <3>2, <3>3, <3>4
  <2>2. a.state = "StateLeader" => a.Term > 0
    BY <1>3, <2>1 DEF Keeps, Same, RoleOK
  <2>3. PICK c : c = switchToConfig(a) /\ NodeOK(i, c) /\ Keeps(n, c)
    BY <2>1, <2>2, SwitchToConfigType, SwitchToConfigKeeps, KeepsTransitive
  <2>4. TermsOK(a) /\ PeersOK(a)
    BY <1>2, <2>1, PoisedTerms, PoisedPeers
  <2>5. Served(n, a, idle)
    BY <1>2, <2>1, PoisedItself
  <2>6. Served(n, c, idle)
    BY <1>2, <2>1, <2>3, <2>4, SwitchToConfigServes, PoisedServed
  <2>7. PICK s : s \in {a, c} /\ Becomes(i, s)
    BY <1>2, <1>13, <2>1, <2>3 DEF Publish
  <2>8. NodeOK(i, s) /\ Handles(n, s, {})
    BY <1>2, <1>3, <2>1, <2>3, <2>7, KeepsHandles
  <2>9. net' \subseteq net
    BY <1>13 DEF Publish
  <2> QED BY <1>2, <1>4, <1>6, <2>5, <2>6, <2>7, <2>8, <2>9, HandlerWrote
<1>14. CASE Ready(i)
  BY <1>4, <1>14, ReadyWrote
<1>15. CASE Advance(i)
  BY <1>4, <1>15, AdvanceWrote
<1>16. CASE Restart(i)
  <2>1. restarts < 0 /\ restarts \in 0..0
    BY <1>16 DEF Restart, TypeOK
  <2> QED BY <2>1
<1> QED
  BY <1>1, <1>7, <1>8, <1>9, <1>11, <1>12, <1>13, <1>14, <1>15, <1>16
-----------------------------------------------------------------------------
(* Links *)

LEMMA EntryOf ==
  ASSUME NEW t \in Nat, NEW d \in Data
  PROVE  [Term |-> t, Data |-> d] \in Entry
BY DEF Entry

LEMMA AppendLinks ==
  ASSUME NEW log \in Seq(Entry), NEW e \in Entry, NEW new, new = Append(log, e),
         NEW f, f = <<Len(log) + 1, lastTerm(log), e>>
  PROVE  /\ Links(new) = Links(log) \cup {f}
         /\ new \in Seq(Entry) /\ Len(new) = Len(log) + 1 /\ new[Len(log) + 1] = e
         /\ \A k \in 1..Len(log) : new[k] = log[k]
<1>1. /\ new \in Seq(Entry) /\ Len(new) = Len(log) + 1 /\ new[Len(log) + 1] = e
      /\ \A k \in 1..Len(log) : new[k] = log[k]
  BY AppendProperties
<1>2. PICK n : n = Len(log) /\ n \in Nat /\ DOMAIN log = 1..n /\ DOMAIN new = 1..(n + 1)
  BY <1>1, LenProperties
<1>3. \A k \in 0..n : term(new, k) = term(log, k)
  BY <1>1, <1>2 DEF term
<1>4. term(new, n) = lastTerm(log)
  BY <1>2, <1>3 DEF lastTerm, lastIndex
<1>5. \A k \in 1..n : <<k, term(new, k - 1), new[k]>> = <<k, term(log, k - 1), log[k]>>
  <2>1. \A k \in 1..n : k - 1 \in 0..n
    BY <1>2
  <2> QED BY <1>1, <1>2, <1>3, <2>1
<1>6. <<n + 1, term(new, (n + 1) - 1), new[n + 1]>> = f
  BY <1>1, <1>2, <1>4
<1>7. 1..(n + 1) = 1..n \cup {n + 1}
  BY <1>2
<1> QED
  BY <1>1, <1>2, <1>5, <1>6, <1>7 DEF Links

LEMMA AppendedLinks ==
  ASSUME NEW log \in Seq(Entry), NEW m \in Messages, m.Type = "MsgApp", Len(m.Entries) <= 1,
         matchTerm(log, m.Index, m.LogTerm),
         NEW new, new = appended(log, m.Index, m.Entries)
  PROVE  Links(new) \subseteq Links(log) \cup Brings(m)
<1>1. /\ m.Index \in Nat /\ m.Entries \in Seq(Entry) /\ m.Index <= Len(log)
      /\ term(log, m.Index) = m.LogTerm
  BY LenProperties DEF Messages, Unsent, matchTerm, termKnown
<1>2. new \in Seq(Entry)
  BY <1>1, AppendedType
<1>3. CASE new = log
  BY <1>3
<1>4. CASE /\ m.Entries # <<>> /\ Len(new) = m.Index + 1 /\ new[m.Index + 1] = m.Entries[1]
           /\ \A k \in 1..m.Index : new[k] = log[k]
  <2>1. DOMAIN new = 1..(m.Index + 1) /\ DOMAIN log = 1..Len(log) /\ Len(log) \in Nat
    BY <1>2, <1>4, LenProperties
  <2>2. \A k \in 0..m.Index : term(new, k) = term(log, k)
    BY <1>1, <1>4 DEF term
  <2>3. ASSUME NEW k \in 1..(m.Index + 1)
        PROVE  <<k, term(new, k - 1), new[k]>> \in Links(log) \cup Brings(m)
    <3>1. CASE k \in 1..m.Index
      <4>1. k - 1 \in 0..m.Index /\ k \in DOMAIN log
        BY <1>1, <2>1, <3>1
      <4>2. <<k, term(new, k - 1), new[k]>> = <<k, term(log, k - 1), log[k]>>
        BY <1>4, <2>2, <3>1, <4>1
      <4> QED BY <4>1, <4>2 DEF Links
    <3>2. CASE k = m.Index + 1
      <4>1. k - 1 = m.Index /\ m.Index \in 0..m.Index
        BY <1>1, <3>2
      <4>2. <<k, term(new, k - 1), new[k]>> = <<m.Index + 1, m.LogTerm, m.Entries[1]>>
        BY <1>1, <1>4, <2>2, <3>2, <4>1
      <4> QED BY <1>4, <4>2 DEF Brings
    <3> QED BY <1>1, <3>1, <3>2
  <2> QED BY <2>1, <2>3 DEF Links
<1> QED
  BY <1>1, <1>3, <1>4, AppendedOne

LEMMA ToldLinks ==
  ASSUME NEW log \in Seq(Entry), NEW x \in Messages, Tells(log, x)
  PROVE  Brings(x) \subseteq Links(log)
<1> SUFFICES ASSUME x.Type = "MsgApp", x.Entries # <<>>
             PROVE  <<x.Index + 1, x.LogTerm, x.Entries[1]>> \in Links(log)
  BY DEF Brings
<1>1. /\ x.Index \in Nat /\ x.Index + 1 <= Len(log) /\ log[x.Index + 1] = x.Entries[1]
      /\ term(log, x.Index) = x.LogTerm /\ DOMAIN log = 1..Len(log) /\ Len(log) \in Nat
  BY LenProperties DEF Tells, Messages, Unsent
<1>2. x.Index + 1 \in DOMAIN log /\ (x.Index + 1) - 1 = x.Index
  BY <1>1
<1>3. <<x.Index + 1, term(log, (x.Index + 1) - 1), log[x.Index + 1]>>
        = <<x.Index + 1, x.LogTerm, x.Entries[1]>>
  BY <1>1, <1>2
<1> QED
  BY <1>2, <1>3 DEF Links

\* Links that are lost do no harm, nor does an election.
LEMMA LinksFewer ==
  ASSUME NEW L, NEW F, LinksOK(L, F), NEW K, K \subseteq L, NEW G, F \subseteq G
  PROVE  LinksOK(K, G)
BY DEF LinksOK

\* A link of a term that has none, or none so far on
LEMMA LinksMore ==
  ASSUME NEW L, NEW F, LinksOK(L, F), NEW G, F \subseteq G,
         NEW k \in Nat, k > BootLen, NEW t \in Nat, NEW e \in Entry, t <= e.Term,
         NEW j \in Server, <<e.Term, j>> \in G,
         \A a \in L : a[3].Term = e.Term => a[1] # k /\ a[1] <= k /\ t = e.Term
  PROVE  LinksOK(L \cup {<<k, t, e>>}, G)
<1>1. PICK f : f = <<k, t, e>>
  OBVIOUS
<1>2. f[1] = k /\ f[2] = t /\ f[3] = e
  BY <1>1
<1>3. \A a \in L : /\ ~ (a[1] = f[1] /\ a[3].Term = f[3].Term)
                   /\ ~ (Opens(f) /\ a[3].Term = f[3].Term)
                   /\ a[3].Term = f[3].Term => a[1] <= f[1]
  BY <1>2 DEF Opens
<1>4. LinksOK(L \cup {f}, G)
  BY <1>2, <1>3 DEF LinksOK
<1> QED
  BY <1>1, <1>4

\* The link that node i, then n and now s, adds to its log if it leads
Fresh(n, s) ==
  IF s.state = "StateLeader" /\ s.log # n.log
  THEN {<<Len(n.log) + 1, lastTerm(n.log), s.log[Len(n.log) + 1]>>} ELSE {}

LEMMA PendingMessages ==
  ASSUME TypeOK
  PROVE  Pending \subseteq Messages
BY Fields DEF TypeOK, Pending, Held, Elements

LEMMA FreshIs ==
  ASSUME NEW n, NEW s, s.state = "StateLeader", s.log # n.log, NEW f,
         f = <<Len(n.log) + 1, lastTerm(n.log), s.log[Len(n.log) + 1]>>
  PROVE  Fresh(n, s) = {f}
BY DEF Fresh

LEMMA LinksOf ==
  /\ \A j \in Server : Links(node[j].log) \subseteq AllLinks
  /\ \A x \in Pending : Brings(x) \subseteq AllLinks
<1>1. ASSUME NEW j \in Server, NEW a \in Links(node[j].log)
      PROVE  a \in AllLinks
  <2>1. a \in UNION {Links(node[l].log) : l \in Server}
    BY <1>1
  <2> QED BY <2>1 DEF AllLinks
<1>2. ASSUME NEW x \in Pending, NEW a \in Brings(x)
      PROVE  a \in AllLinks
  <2>1. a \in UNION {Brings(y) : y \in Pending}
    BY <1>2
  <2> QED BY <2>1 DEF AllLinks
<1> QED
  BY <1>1, <1>2

LEMMA LinkIn ==
  ASSUME NEW a \in AllLinks
  PROVE  \/ \E j \in Server : a \in Links(node[j].log)
         \/ \E x \in Pending : a \in Brings(x)
<1>1. \/ a \in UNION {Links(node[l].log) : l \in Server}
      \/ a \in UNION {Brings(y) : y \in Pending}
  BY DEF AllLinks
<1> QED
  BY <1>1

LEMMA LinkIndexes ==
  ASSUME TypeOK, NEW a \in AllLinks
  PROVE  a[1] \in Nat /\ a[1] >= 1
<1>1. CASE \E j \in Server : a \in Links(node[j].log)
  <2>1. PICK j \in Server : a \in Links(node[j].log)
    BY <1>1
  <2>2. PICK log \in Seq(Entry) : log = node[j].log
    BY Fields DEF TypeOK
  <2>3. PICK k \in DOMAIN log : a = <<k, term(log, k - 1), log[k]>>
    BY <2>1, <2>2 DEF Links
  <2>4. k \in Nat /\ k >= 1
    BY LenProperties
  <2> QED BY <2>3, <2>4
<1>2. CASE \E x \in Pending : a \in Brings(x)
  <2>1. PICK x \in Pending : a \in Brings(x)
    BY <1>2
  <2>2. a = <<x.Index + 1, x.LogTerm, x.Entries[1]>>
    BY <2>1 DEF Brings
  <2>3. x.Index \in Nat
    BY PendingMessages DEF Messages, Unsent
  <2> QED BY <2>2, <2>3
<1> QED
  BY <1>1, <1>2, LinkIn

LEMMA WroteLinks ==
  ASSUME TypeOK, TypeOK', LogsOK, NEW i \in Server, NEW m, Wrote(i, m),
         NEW n, n = node[i], NEW s, s = node'[i]
  PROVE  AllLinks' \subseteq AllLinks \cup Fresh(n, s)
<1>1. /\ NodeOK(i, n) /\ NodeOK(i, s) /\ n.log \in Seq(Entry) /\ s.log \in Seq(Entry)
      /\ s.Term \in Nat
  BY Fields DEF TypeOK
<1>2. Writes(n, s, m) /\ TermsOK(n)
  BY DEF Wrote, Served, LogsOK
<1>3. Links(n.log) \subseteq AllLinks /\ \A x \in Pending : Brings(x) \subseteq AllLinks
  BY LinksOf
<1>4. Links(s.log) \subseteq AllLinks \cup Fresh(n, s)
  <2>1. CASE s.log = n.log
    BY <1>3, <2>1
  <2>2. CASE s.log # n.log /\ s.state = "StateLeader"
    <3>1. PICK d \in Data : s.log = Append(n.log, [Term |-> s.Term, Data |-> d])
      BY <1>2, <2>2 DEF Writes
    <3>2. PICK e \in Entry : e = [Term |-> s.Term, Data |-> d]
      BY <1>1, EntryOf
    <3>3. s.log = Append(n.log, e)
      BY <3>1, <3>2
    <3>4. PICK f : f = <<Len(n.log) + 1, lastTerm(n.log), e>>
      OBVIOUS
    <3>5. Links(s.log) = Links(n.log) \cup {f} /\ s.log[Len(n.log) + 1] = e
      <4>1. PICK p \in Seq(Entry) : p = n.log
        BY <1>1
      <4>2. PICK q : q = s.log /\ q = Append(p, e)
        BY <3>3, <4>1
      <4>3. f = <<Len(p) + 1, lastTerm(p), e>>
        BY <3>4, <4>1
      <4>4. q = Append(p, e)
        BY <4>2
      <4>5. q[Len(p) + 1] = e
        BY <4>3, <4>4, AppendLinks
      <4>6. Links(q) = Links(p) \cup {f}
        BY <4>3, <4>4, AppendLinks, ZenonT(30)
      <4> QED BY <4>1, <4>2, <4>5, <4>6
    <3>6. f \in Fresh(n, s)
      <4>1. f = <<Len(n.log) + 1, lastTerm(n.log), s.log[Len(n.log) + 1]>>
        BY <3>4, <3>5
      <4> QED BY <2>2, <4>1, FreshIs
    <3> QED BY <1>3, <3>5, <3>6
  <2>3. CASE s.log # n.log /\ s.state # "StateLeader"
    <3>1. /\ m.Type = "MsgApp" /\ matchTerm(n.log, m.Index, m.LogTerm)
          /\ s.log = appended(n.log, m.Index, m.Entries)
      BY <1>2, <2>3 DEF Writes
    <3>2. m \in Pending /\ m \in Messages
      BY <3>1, PendingMessages DEF Wrote, Told
    <3>3. Len(m.Entries) <= 1
      BY <3>1, <3>2 DEF LogsOK, AppendOK, AppendShort
    <3>4. Links(s.log) \subseteq Links(n.log) \cup Brings(m)
      BY <1>1, <3>1, <3>2, <3>3, AppendedLinks
    <3> QED BY <1>3, <3>2, <3>4
  <2> QED BY <2>1, <2>2, <2>3
<1>5. ASSUME NEW x \in Pending'
      PROVE  Brings(x) \subseteq AllLinks \cup Fresh(n, s)
  <2>1. x \in Messages
    BY <1>5, PendingMessages, Fields DEF TypeOK, Pending, Held, Elements
  <2>2. CASE x \in Pending
    BY <1>3, <2>2
  <2>3. CASE Reports(s, m, x)
    <3>1. x.Type = "MsgApp" => Tells(s.log, x)
      BY <2>3 DEF Reports
    <3>2. Brings(x) \subseteq Links(s.log)
      BY <1>1, <2>1, <3>1, ToldLinks DEF Brings
    <3> QED BY <1>4, <3>2
  <2> QED BY <1>5, <2>2, <2>3 DEF Wrote
<1>6. ASSUME NEW j \in Server
      PROVE  Links(node'[j].log) \subseteq AllLinks \cup Fresh(n, s)
  <2>1. CASE j = i
    BY <1>4, <2>1
  <2>2. CASE j # i
    BY <2>2, LinksOf DEF Wrote
  <2> QED BY <2>1, <2>2
<1>7. ASSUME NEW a \in AllLinks'
      PROVE  a \in AllLinks \cup Fresh(n, s)
  <2>1. \/ a \in UNION {Links(node'[l].log) : l \in Server}
        \/ a \in UNION {Brings(y) : y \in Pending'}
    BY <1>7 DEF AllLinks
  <2>2. \/ \E j \in Server : a \in Links(node'[j].log)
        \/ \E x \in Pending' : a \in Brings(x)
    BY <2>1
  <2> QED BY <1>5, <1>6, <2>2
<1> QED
  BY <1>7

\* A server that is elected finds nothing of its term.
LEMMA NoLinkYet ==
  ASSUME TypeOK, LogsOK, ElectionSafety', elected \subseteq elected', NEW i \in Server,
         node[i].state = "StateCandidate", <<node[i].Term, i>> \in elected'
  PROVE  \A a \in AllLinks : a[3].Term # node[i].Term
<1>1. PICK t : t = node[i].Term /\ t \in Nat /\ t >= 2
  BY Fields DEF TypeOK, LogsOK, TermsOK
<1> SUFFICES ASSUME NEW a \in AllLinks, a[3].Term = t
             PROVE  FALSE
  BY <1>1
<1>2. LinksOK(AllLinks, elected)
  BY DEF LogsOK
<1>3. a[3] # BootEntry
  <2>1. BootEntry.Term = 1
    BY DEF BootEntry
  <2> QED BY <1>1, <2>1
<1>4. PICK j \in Server : <<t, j>> \in elected
  BY <1>2, <1>3 DEF LinksOK
<1>5. <<t, j>> = <<t, i>>
  BY <1>1, <1>4 DEF ElectionSafety
<1>6. PICK e : e = <<t, i>> /\ e \in elected
  BY <1>4, <1>5
<1>7. node[i].Term > t \/ LeadsIn(i, t)
  BY <1>6 DEF LogsOK
<1> QED
  BY <1>1, <1>7 DEF LeadsIn, Leader

LEMMA LinksKept ==
  ASSUME TypeOK, TypeOK', VotesOK, LogsOK, ElectionSafety', NEW i \in Server, NEW m, Wrote(i, m)
  PROVE  /\ LinksOK(AllLinks, elected)'
         /\ \A j \in Server : Leader(j)' =>
              \A a \in AllLinks' : a[3].Term = node'[j].Term => a[1] <= Len(node'[j].log)
<1>1. PICK n, s : n = node[i] /\ s = node'[i]
  OBVIOUS
<1>2. /\ NodeOK(i, n) /\ NodeOK(i, s) /\ n.log \in Seq(Entry) /\ s.log \in Seq(Entry)
      /\ s.Term \in Nat /\ n.Term \in Nat /\ Len(n.log) \in Nat /\ Len(s.log) \in Nat
      /\ BootLen \in Nat
  BY <1>1, Fields, LenProperties, ServerAssumption, FS_CardinalityType DEF TypeOK, BootLen
<1>3. Writes(n, s, m) /\ TermsOK(n) /\ TermsOK(s)
  BY <1>1 DEF Wrote, Served, LogsOK
<1>4. PICK L, F, K, G : L = AllLinks /\ F = elected /\ K = AllLinks' /\ G = elected'
  OBVIOUS
<1>5. K \subseteq L \cup Fresh(n, s) /\ F \subseteq G /\ LinksOK(L, F)
  BY <1>1, <1>4, WroteLinks DEF Wrote, LogsOK
<1>6. s.state = "StateLeader" => <<s.Term, i>> \in G
  BY <1>1, <1>4 DEF Wrote
<1>7. ASSUME s.state = "StateLeader", NEW a \in L, a[3].Term = s.Term
      PROVE  n.state = "StateLeader" /\ a[1] <= Len(n.log)
  <2>1. s.Term = n.Term /\ n.state \in {"StateCandidate", "StateLeader"}
    BY <1>3, <1>7 DEF Writes
  <2>2. n.state # "StateCandidate"
    <3>1. n.state = "StateCandidate" => \A b \in AllLinks : b[3].Term # node[i].Term
      BY <1>1, <1>4, <1>5, <1>6, <1>7, <2>1, NoLinkYet
    <3> QED BY <1>1, <1>4, <1>7, <2>1, <3>1
  <2> QED BY <1>1, <1>4, <1>7, <2>1, <2>2 DEF LogsOK, Leader
<1>8. CASE Fresh(n, s) = {}
  <2>1. LinksOK(K, G)
    BY <1>5, <1>8, LinksFewer
  <2>2. ASSUME NEW j \in Server, Leader(j)', NEW a \in K, a[3].Term = node'[j].Term
        PROVE  a[1] <= Len(node'[j].log)
    <3>1. a \in L
      BY <1>5, <1>8, <2>2
    <3>2. CASE j = i
      <4>1. s.state = "StateLeader" /\ s.log = n.log
        BY <1>1, <1>8, <2>2, <3>2 DEF Leader, Fresh
      <4> QED BY <1>1, <1>7, <2>2, <3>1, <3>2, <4>1
    <3>3. CASE j # i
      BY <1>4, <2>2, <3>1, <3>3 DEF Wrote, LogsOK, Leader
    <3> QED BY <3>2, <3>3
  <2> QED BY <1>4, <2>1, <2>2
<1>9. CASE Fresh(n, s) # {}
  <2>1. s.state = "StateLeader" /\ s.log # n.log
    BY <1>9 DEF Fresh
  <2>2. PICK d \in Data : s.log = Append(n.log, [Term |-> s.Term, Data |-> d])
    BY <1>3, <2>1 DEF Writes
  <2>3. PICK e \in Entry : e = [Term |-> s.Term, Data |-> d] /\ e.Term = s.Term
    BY <1>2, EntryOf
  <2>4. PICK k, t : k = Len(n.log) + 1 /\ t = lastTerm(n.log)
    OBVIOUS
  <2>5. s.log[k] = e /\ Len(s.log) = k
    <3>1. s.log = Append(n.log, e)
      BY <2>2, <2>3
    <3> QED BY <1>2, <2>4, <3>1, AppendLinks
  <2>6. PICK f : f = <<k, t, e>>
    OBVIOUS
  <2>7. Fresh(n, s) = {f}
    <3>1. f = <<Len(n.log) + 1, lastTerm(n.log), s.log[Len(n.log) + 1]>>
      BY <2>4, <2>5, <2>6
    <3> QED BY <2>1, <3>1, FreshIs
  <2>8. s.Term = n.Term /\ n.state \in {"StateCandidate", "StateLeader"} /\ n.voters = Server
    BY <1>3, <2>1 DEF Writes, TermsOK
  <2>9. k \in Nat /\ k > BootLen /\ t \in Nat /\ t <= e.Term
    <3>1. Len(n.log) >= BootLen
      BY <1>3, <2>8 DEF TermsOK
    <3>2. t \in Nat
      BY <1>2, <2>4, TermType
    <3>3. t <= n.Term
      <4>1. CASE Len(n.log) = 0
        BY <1>2, <2>4, <4>1 DEF lastTerm, lastIndex, term
      <4>2. CASE Len(n.log) > 0
        <5>1. Len(n.log) \in DOMAIN n.log
          BY <1>2, <4>2, LenProperties
        <5> QED BY <1>2, <1>3, <2>4, <4>2, <5>1 DEF lastTerm, lastIndex, term, TermsOK
      <4> QED BY <1>2, <4>1, <4>2
    <3> QED BY <1>2, <2>3, <2>4, <2>8, <3>1, <3>2, <3>3
  <2>10. \A a \in L : a[3].Term = e.Term => a[1] # k /\ a[1] <= k /\ t = e.Term
    <3> SUFFICES ASSUME NEW a \in L, a[3].Term = e.Term
                 PROVE  a[1] # k /\ a[1] <= k /\ t = e.Term
      OBVIOUS
    <3>1. n.state = "StateLeader" /\ a[1] <= Len(n.log)
      BY <1>7, <2>1, <2>3
    <3>2. t = n.Term
      BY <1>3, <2>4, <3>1 DEF TermsOK
    <3>3. a[1] # k /\ a[1] <= k
      BY <1>2, <1>4, <2>4, <3>1, LinkIndexes
    <3> QED BY <2>3, <2>8, <3>2, <3>3
  <2>11. LinksOK(L \cup {<<k, t, e>>}, G)
    BY <1>5, <1>6, <2>1, <2>3, <2>9, <2>10, LinksMore
  <2>12. LinksOK(K, G)
    BY <1>5, <2>6, <2>7, <2>11, LinksFewer
  <2>13. ASSUME NEW j \in Server, Leader(j)', NEW a \in K, a[3].Term = node'[j].Term
         PROVE  a[1] <= Len(node'[j].log)
    <3>1. a \in L \/ a = f
      BY <1>5, <2>7
    <3>2. CASE j = i
      <4>1. a \in L => a[1] <= Len(n.log)
        BY <1>1, <1>7, <2>1, <2>13, <3>2
      <4>2. a \in L => a[1] \in Nat
        BY <1>4, LinkIndexes
      <4> QED BY <1>1, <1>2, <2>4, <2>5, <2>6, <3>1, <3>2, <4>1, <4>2
    <3>3. CASE j # i
      <4>1. node'[j] = node[j] /\ Leader(j)
        BY <2>13, <3>3 DEF Wrote, Leader
      <4>2. a # f
        <5>1. <<node[j].Term, j>> \in G
          BY <1>4, <1>5, <4>1 DEF VotesOK
        <5>2. <<s.Term, i>> \in G
          BY <1>6, <2>1
        <5>3. node[j].Term # s.Term
          BY <1>4, <3>3, <5>1, <5>2 DEF ElectionSafety
        <5> QED BY <2>3, <2>6, <2>13, <4>1, <5>3
      <4> QED BY <1>4, <2>13, <3>1, <4>1, <4>2 DEF LogsOK
    <3> QED BY <3>2, <3>3
  <2> QED BY <1>4, <2>12, <2>13
<1> QED
  BY <1>8, <1>9

\* What an append tells of a log, it tells of a longer one.
LEMMA TellsMore ==
  ASSUME NEW log \in Seq(Entry), NEW new \in Seq(Entry), NEW x \in Messages, Tells(log, x),
         Len(new) >= Len(log), \A k \in 1..Len(log) : new[k] = log[k]
  PROVE  Tells(new, x)
<1>1. x.Index \in Nat /\ Len(log) \in Nat /\ Len(new) \in Nat
  BY LenProperties DEF Messages, Unsent
<1>2. term(new, x.Index) = term(log, x.Index)
  BY <1>1 DEF Tells, term
<1> QED
  BY <1>1, <1>2 DEF Tells

\* A leader's log only grows.
LEMMA LeaderAppends ==
  ASSUME NEW i, NEW n, NodeOK(i, n), NEW s, NodeOK(i, s), NEW m, Writes(n, s, m),
         s.state = "StateLeader"
  PROVE  Len(s.log) >= Len(n.log) /\ \A k \in 1..Len(n.log) : s.log[k] = n.log[k]
<1>1. n.log \in Seq(Entry) /\ s.Term \in Nat /\ Len(n.log) \in Nat
  BY Fields, LenProperties
<1>2. CASE s.log = n.log
  BY <1>1, <1>2
<1>3. CASE s.log # n.log
  <2>1. PICK d \in Data : s.log = Append(n.log, [Term |-> s.Term, Data |-> d])
    BY <1>3 DEF Writes
  <2>2. PICK e \in Entry : e = [Term |-> s.Term, Data |-> d]
    BY <1>1, EntryOf
  <2> QED BY <1>1, <2>1, <2>2, AppendLinks
<1> QED
  BY <1>2, <1>3

\* Who led in a term goes on to, or is in a later one.
LEMMA ElectedKept ==
  ASSUME TypeOK, TypeOK', LogsOK, NEW i \in Server, NEW m, Wrote(i, m)
  PROVE  \A e \in elected' : e[1] >= 2 /\ (node'[e[2]].Term > e[1] \/ LeadsIn(e[2], e[1])')
<1>1. PICK n, s : n = node[i] /\ s = node'[i]
  OBVIOUS
<1>2. /\ NodeOK(i, n) /\ NodeOK(i, s) /\ s.Term \in Nat /\ n.Term \in Nat
      /\ Writes(n, s, m) /\ TermsOK(s)
  BY <1>1, Fields DEF TypeOK, Wrote, Served
<1>3. ASSUME NEW e \in elected
      PROVE  e[1] >= 2 /\ (node'[e[2]].Term > e[1] \/ LeadsIn(e[2], e[1])')
  <2>1. /\ e[1] \in Nat /\ e[2] \in Server /\ e[1] >= 2
        /\ node[e[2]].Term > e[1] \/ LeadsIn(e[2], e[1])
    BY DEF TypeOK, LogsOK
  <2>2. CASE e[2] = i
    <3>1. CASE n.Term > e[1]
      BY <1>1, <1>2, <2>1, <2>2, <3>1 DEF Writes
    <3>2. CASE n.Term = e[1] /\ n.state = "StateLeader"
      BY <1>1, <1>2, <2>1, <2>2, <3>2 DEF Writes, LeadsIn, Leader
    <3> QED BY <1>1, <2>1, <2>2, <3>1, <3>2 DEF LeadsIn, Leader
  <2>3. CASE e[2] # i
    BY <2>1, <2>3 DEF Wrote, LeadsIn, Leader
  <2> QED BY <2>1, <2>2, <2>3
<1>4. ASSUME s.state = "StateLeader", NEW e, e = <<s.Term, i>>
      PROVE  e[1] >= 2 /\ (node'[e[2]].Term > e[1] \/ LeadsIn(e[2], e[1])')
  BY <1>1, <1>2, <1>4 DEF TermsOK, LeadsIn, Leader
<1> QED
  BY <1>1, <1>3, <1>4 DEF Wrote

LEMMA AppendsKept ==
  ASSUME TypeOK, TypeOK', LeadsOK, LogsOK, NEW i \in Server, NEW m, Wrote(i, m)
  PROVE  \A x \in Pending' : AppendOK(x)'
<1>1. PICK n, s : n = node[i] /\ s = node'[i]
  OBVIOUS
<1>2. /\ NodeOK(i, n) /\ NodeOK(i, s) /\ n.log \in Seq(Entry) /\ s.log \in Seq(Entry)
      /\ s.Term \in Nat /\ n.Term \in Nat /\ Writes(n, s, m) /\ TermsOK(s) /\ s.id = i
  BY <1>1, Fields DEF TypeOK, NodeOK, Wrote, Served
<1>3. ASSUME NEW x \in Pending
      PROVE  AppendOK(x)'
  <2>1. x \in Messages /\ AppendOK(x)
    BY PendingMessages DEF LogsOK
  <2> SUFFICES ASSUME x.Type = "MsgApp", LeadsIn(x.From, x.Term)'
               PROVE  Tells(node'[x.From].log, x)
    BY <2>1 DEF AppendOK
  <2>2. CASE x.From # i
    <3>1. node'[x.From] = node[x.From]
      BY <2>1, <2>2 DEF Wrote, Messages
    <3> QED BY <2>1, <3>1 DEF AppendOK, LeadsIn, Leader
  <2>3. CASE x.From = i
    <3>1. s.state = "StateLeader" /\ s.Term = x.Term /\ n.Term = x.Term
      BY <1>1, <1>2, <2>3 DEF LeadsIn, Leader, Writes
    <3>2. Vouched(elected, x)
      BY DEF Pending, LeadsOK, Follows
    <3>3. PICK e : e = <<x.Term, i>> /\ e \in elected
      BY <2>3, <3>2 DEF Vouched, LeaderMsgs
    <3>4. node[i].Term > x.Term \/ LeadsIn(i, x.Term)
      BY <3>3 DEF LogsOK
    <3>5. LeadsIn(i, x.Term)
      BY <1>1, <1>2, <3>1, <3>4
    <3>6. Tells(n.log, x)
      BY <1>1, <2>1, <2>3, <3>5 DEF AppendOK
    <3>7. Len(s.log) >= Len(n.log) /\ \A k \in 1..Len(n.log) : s.log[k] = n.log[k]
      BY <1>2, <3>1, LeaderAppends
    <3>8. Tells(s.log, x)
      BY <1>2, <2>1, <3>6, <3>7, TellsMore
    <3> QED BY <1>1, <2>3, <3>8
  <2> QED BY <2>2, <2>3
<1>4. ASSUME NEW x, Reports(s, m, x)
      PROVE  AppendOK(x)'
  BY <1>1, <1>2, <1>4 DEF Reports, AppendOK
<1> QED
  BY <1>1, <1>3, <1>4 DEF Wrote

LEMMA LogsKept ==
  ASSUME TypeOK, TypeOK', VotesOK, LeadsOK, LogsOK, ElectionSafety',
         NEW i \in Server, NEW m, Wrote(i, m)
  PROVE  LogsOK'
<1>1. \A j \in Server : TermsOK(node'[j]) /\ PeersOK(node'[j])
  BY DEF LogsOK, Wrote, Served
<1> QED
  BY <1>1, LinksKept, ElectedKept, AppendsKept DEF LogsOK
-----------------------------------------------------------------------------
(* What the links say *)

\* Logs that have one link in common have all the earlier ones in common.
LEMMA LinksMatch ==
  ASSUME NEW L, NEW F, LinksOK(L, F), NEW a \in Seq(Entry), NEW b \in Seq(Entry),
         Links(a) \subseteq L, Links(b) \subseteq L,
         NEW k \in DOMAIN a \cap DOMAIN b, a[k].Term = b[k].Term
  PROVE  Agree(a, b, k)
<1>1. /\ k \in Nat /\ k >= 1 /\ k <= Len(a) /\ k <= Len(b)
      /\ DOMAIN a = 1..Len(a) /\ DOMAIN b = 1..Len(b) /\ Len(a) \in Nat /\ Len(b) \in Nat
  BY LenProperties
<1>2. ASSUME NEW n \in 1..k, a[n].Term = b[n].Term
      PROVE  a[n] = b[n] /\ term(a, n - 1) = term(b, n - 1)
  <2>1. n \in DOMAIN a /\ n \in DOMAIN b
    BY <1>1
  <2>2. PICK x, y : /\ x = <<n, term(a, n - 1), a[n]>> /\ x \in L
                    /\ y = <<n, term(b, n - 1), b[n]>> /\ y \in L
    BY <2>1 DEF Links
  <2>3. x = y
    BY <1>2, <2>2 DEF LinksOK
  <2> QED BY <2>2, <2>3
<1> DEFINE D == {n \in 1..k : a[n] # b[n]}
<1>3. D = {}
  <2> SUFFICES ASSUME D # {}
               PROVE  FALSE
    OBVIOUS
  <2>1. D \in SUBSET (0..k)
    BY <1>1
  <2>2. PICK n : n = Max(D) /\ n \in D /\ \A x \in D : n >= x
    BY <1>1, <2>1, MaxOfNats
  <2>3. n # k
    BY <1>1, <1>2, <2>2
  <2>4. n + 1 \in 1..k /\ n \in 1..k /\ (n + 1) - 1 = n /\ n # 0
    BY <1>1, <2>2, <2>3
  <2>5. a[n + 1] = b[n + 1]
    <3>1. ~ n >= n + 1
      BY <2>4
    <3>2. n + 1 \notin D
      BY <2>2, <3>1
    <3> QED BY <2>4, <3>2
  <2>6. term(a, n) = term(b, n)
    BY <1>2, <2>4, <2>5
  <2>7. a[n].Term = b[n].Term
    BY <2>4, <2>6 DEF term
  <2> QED BY <1>2, <2>2, <2>4, <2>7
<1> QED
  BY <1>1, <1>3 DEF Agree

LEMMA LogsMatching ==
  ASSUME TypeOK, LogsOK
  PROVE  LogMatching
<1> SUFFICES ASSUME NEW i \in Server, NEW j \in Server,
                    NEW k \in DOMAIN node[i].log \cap DOMAIN node[j].log,
                    node[i].log[k].Term = node[j].log[k].Term
             PROVE  Agree(node[i].log, node[j].log, k)
  BY DEF LogMatching
<1>1. PICK a, b : a = node[i].log /\ b = node[j].log /\ a \in Seq(Entry) /\ b \in Seq(Entry)
  BY Fields DEF TypeOK
<1>2. Links(a) \subseteq AllLinks /\ Links(b) \subseteq AllLinks
  BY <1>1, LinksOf
<1>3. LinksOK(AllLinks, elected)
  BY DEF LogsOK
<1>4. k \in DOMAIN a \cap DOMAIN b /\ a[k].Term = b[k].Term
  BY <1>1
<1>5. Agree(a, b, k)
  BY <1>1, <1>2, <1>3, <1>4, LinksMatch
<1> QED
  BY <1>1, <1>5

OpensIn(log, t, lo, k) ==
  \E a \in Links(log) : a[1] \in (lo + 1)..k /\ a[3].Term = t /\ Opens(a)

\* A log that has an entry of term t after index lo, where it has another term,
\* has the opening link of t after lo.
LEMMA OpeningLink ==
  ASSUME NEW log \in Seq(Entry), NEW t, NEW lo \in Nat, NEW k \in DOMAIN log, k > lo,
         log[k].Term = t, term(log, lo) # t
  PROVE  OpensIn(log, t, lo, k)
<1> DEFINE S == {n \in (lo + 1)..k : log[n].Term = t}
<1>1. k \in Nat /\ DOMAIN log = 1..Len(log) /\ Len(log) \in Nat /\ k <= Len(log)
  BY LenProperties
<1>2. S \in SUBSET Nat /\ S # {}
  BY <1>1
<1>3. PICK j : j = Min(S) /\ j \in S /\ \A x \in S : j <= x
  BY <1>2, MinOfNats
<1>4. j \in DOMAIN log /\ j \in (lo + 1)..k /\ log[j].Term = t
  BY <1>1, <1>3
<1>5. term(log, j - 1) # t
  <2>1. CASE j = lo + 1
    BY <2>1
  <2>2. CASE j # lo + 1
    <3>1. j - 1 \in (lo + 1)..k /\ j - 1 # 0 /\ ~ j <= j - 1
      BY <1>1, <1>4, <2>2
    <3>2. log[j - 1].Term # t
      BY <1>3, <3>1
    <3> QED BY <3>1, <3>2 DEF term
  <2> QED BY <2>1, <2>2
<1>6. PICK a : a = <<j, term(log, j - 1), log[j]>>
  OBVIOUS
<1>7. a \in Links(log)
  BY <1>4, <1>6 DEF Links
<1>8. a[1] = j /\ a[3].Term = t /\ Opens(a)
  BY <1>4, <1>5, <1>6 DEF Opens
<1> QED
  BY <1>4, <1>7, <1>8 DEF OpensIn

\* An append takes nothing back that its own leader sent.
LEMMA AppendedKeeps ==
  ASSUME NEW L, NEW F, LinksOK(L, F), NEW log \in Seq(Entry), Links(log) \subseteq L,
         NEW m \in Messages, m.Type = "MsgApp", AppendShort(m), Brings(m) \subseteq L,
         matchTerm(log, m.Index, m.LogTerm), m.Term > 0,
         NEW k \in DOMAIN log, log[k].Term = m.Term
  PROVE  Agree(log, appended(log, m.Index, m.Entries), k)
<1>1. /\ m.Index \in Nat /\ m.Entries \in Seq(Entry) /\ m.Index <= Len(log) /\ m.Term \in Nat
      /\ term(log, m.Index) = m.LogTerm /\ k \in Nat /\ k <= Len(log) /\ Len(log) \in Nat
      /\ DOMAIN log = 1..Len(log) /\ k >= 1
  BY LenProperties DEF Messages, Unsent, matchTerm, termKnown
<1>2. PICK new : new = appended(log, m.Index, m.Entries)
  OBVIOUS
<1>3. CASE new = log
  BY <1>1, <1>2, <1>3 DEF Agree
<1>4. CASE /\ m.Entries # <<>> /\ Len(new) = m.Index + 1 /\ new[m.Index + 1] = m.Entries[1]
           /\ \A n \in 1..m.Index : new[n] = log[n]
           /\ ~ (m.Index + 1 <= Len(log) /\ log[m.Index + 1].Term = m.Entries[1].Term)
  <2>1. PICK b : b = <<m.Index + 1, m.LogTerm, m.Entries[1]>> /\ b \in L
    BY <1>4 DEF Brings
  <2>2. m.Entries[1].Term = m.Term
    BY <1>4 DEF AppendShort
  <2>3. b[1] = m.Index + 1 /\ b[3].Term = m.Term /\ b[2] = m.LogTerm
    BY <2>1, <2>2
  <2>4. k <= m.Index
    <3> SUFFICES ASSUME k > m.Index
                 PROVE  FALSE
      BY <1>1
    <3>1. m.Index + 1 \in DOMAIN log /\ log[m.Index + 1].Term # m.Term /\ k > m.Index + 1
      <4>1. m.Index + 1 <= Len(log)
        BY <1>1
      <4>2. log[m.Index + 1].Term # m.Term
        BY <1>4, <2>2, <4>1
      <4>3. k # m.Index + 1
        BY <4>2
      <4> QED BY <1>1, <4>1, <4>2, <4>3
    <3>2. CASE m.LogTerm # m.Term
      <4>1. OpensIn(log, m.Term, m.Index, k)
        BY <1>1, <3>2, OpeningLink
      <4>2. PICK a \in Links(log) :
              a[1] \in (m.Index + 1)..k /\ a[3].Term = m.Term /\ Opens(a)
        BY <4>1 DEF OpensIn
      <4>3. a = b
        BY <2>1, <2>3, <3>2, <4>2 DEF LinksOK, Opens
      <4>4. \A x \in Links(log) : x[3] = log[x[1]]
        BY DEF Links
      <4> QED BY <2>3, <3>1, <4>2, <4>3, <4>4
    <3>3. CASE m.LogTerm = m.Term
      <4>1. m.Index \in DOMAIN log /\ log[m.Index].Term = m.Term /\ m.Index > 0
            /\ term(log, 0) # m.Term
        BY <1>1, <3>3 DEF term
      <4>2. OpensIn(log, m.Term, 0, m.Index)
        BY <4>1, OpeningLink
      <4>3. m.Index + 1 \in Nat /\ term(log, m.Index + 1) # m.Term
        BY <1>1, <3>1 DEF term
      <4>4. OpensIn(log, m.Term, m.Index + 1, k)
        BY <3>1, <4>3, OpeningLink
      <4>5. PICK x \in Links(log) :
              x[1] \in (0 + 1)..m.Index /\ x[3].Term = m.Term /\ Opens(x)
        BY <4>2 DEF OpensIn
      <4>6. PICK y \in Links(log) :
              y[1] \in ((m.Index + 1) + 1)..k /\ y[3].Term = m.Term /\ Opens(y)
        BY <4>4 DEF OpensIn
      <4>7. x = y
        BY <4>5, <4>6 DEF LinksOK
      <4> QED BY <1>1, <4>5, <4>6, <4>7
    <3> QED BY <3>2, <3>3
  <2>5. Len(new) >= k
    BY <1>1, <1>4, <2>4
  <2>6. \A n \in 1..k : log[n] = new[n]
    BY <1>1, <1>4, <2>4
  <2> QED BY <1>1, <1>2, <2>5, <2>6 DEF Agree
<1> QED
  BY <1>1, <1>2, <1>3, <1>4, AppendedOne, SMTT(30) DEF AppendShort

LEMMA EntriesKept ==
  ASSUME TypeOK, TypeOK', VotesOK, LogsOK, NEW i \in Server, NEW m, Wrote(i, m),
         NEW j \in Server, node'[j].Term = node[j].Term,
         NEW k \in DOMAIN node[j].log, node[j].log[k].Term = node[j].Term
  PROVE  Agree(node[j].log, node'[j].log, k)
<1>1. PICK n, s : n = node[j] /\ s = node'[j]
  OBVIOUS
<1>2. /\ NodeOK(j, n) /\ NodeOK(j, s) /\ n.log \in Seq(Entry) /\ TermsOK(n)
      /\ Len(n.log) \in Nat /\ DOMAIN n.log = 1..Len(n.log) /\ k \in 1..Len(n.log)
  BY <1>1, Fields, LenProperties DEF TypeOK, LogsOK
<1>3. Agree(n.log, n.log, k)
  BY <1>2 DEF Agree
<1>4. CASE s.log = n.log
  BY <1>1, <1>3, <1>4
<1>5. CASE s.log # n.log
  <2>1. j = i /\ Writes(n, s, m)
    BY <1>1, <1>5 DEF Wrote, Served
  <2>2. CASE s.state = "StateLeader"
    <3>1. Len(s.log) >= Len(n.log) /\ \A l \in 1..Len(n.log) : s.log[l] = n.log[l]
      BY <1>2, <2>1, <2>2, LeaderAppends
    <3>2. s.log \in Seq(Entry) /\ Len(s.log) \in Nat
      BY <1>2, Fields, LenProperties
    <3> QED BY <1>1, <1>2, <3>1, <3>2 DEF Agree
  <2>3. CASE s.state # "StateLeader"
    <3>1. /\ m.Type = "MsgApp" /\ m.Term = s.Term /\ matchTerm(n.log, m.Index, m.LogTerm)
          /\ s.log = appended(n.log, m.Index, m.Entries)
      BY <1>5, <2>1, <2>3 DEF Writes
    <3>2. m \in Pending /\ m \in Messages /\ AppendShort(m)
      BY <3>1, PendingMessages DEF Wrote, Told, LogsOK, AppendOK
    <3>3. m.Term > 0
      <4>1. n.log[k].Term \in 1..n.Term
        BY <1>2 DEF TermsOK
      <4>2. n.log[k].Term = m.Term
        BY <1>1, <3>1
      <4> QED BY <4>1, <4>2
    <3>4. Links(n.log) \subseteq AllLinks /\ Brings(m) \subseteq AllLinks
      BY <1>1, <3>2, LinksOf
    <3>5. LinksOK(AllLinks, elected)
      BY DEF LogsOK
    <3>6. k \in DOMAIN n.log /\ n.log[k].Term = m.Term
      BY <1>1, <1>2, <3>1
    <3>7. Agree(n.log, appended(n.log, m.Index, m.Entries), k)
      BY <1>2, <3>1, <3>2, <3>3, <3>4, <3>5, <3>6, AppendedKeeps
    <3> QED BY <1>1, <3>1, <3>7
  <2> QED BY <2>2, <2>3
<1> QED
  BY <1>4, <1>5
-----------------------------------------------------------------------------
(* Acknowledgements *)

\* A follower keeps what it shares with its leader, whatever append comes late.
LEMMA FollowerKeeps ==
  ASSUME NEW lead \in Seq(Entry), NEW log \in Seq(Entry), NEW m \in Messages, AppendShort(m),
         m.Type = "MsgApp", Tells(lead, m), matchTerm(log, m.Index, m.LogTerm),
         NEW k \in Nat, Agree(lead, log, k)
  PROVE  Agree(lead, appended(log, m.Index, m.Entries), k)
<1>1. /\ m.Index \in Nat /\ m.Entries \in Seq(Entry) /\ m.Index <= Len(log)
      /\ Len(log) \in Nat /\ k <= Len(lead) /\ k <= Len(log) /\ Len(m.Entries) <= 1
      /\ \A n \in 1..k : lead[n] = log[n]
  BY LenProperties DEF Messages, Unsent, matchTerm, termKnown, AppendShort, Agree
<1>2. PICK new : new = appended(log, m.Index, m.Entries)
  OBVIOUS
<1>3. CASE new = log
  BY <1>2, <1>3
<1>4. CASE /\ m.Entries # <<>> /\ Len(new) = m.Index + 1 /\ new[m.Index + 1] = m.Entries[1]
           /\ \A n \in 1..m.Index : new[n] = log[n]
           /\ ~ (m.Index + 1 <= Len(log) /\ log[m.Index + 1].Term = m.Entries[1].Term)
  <2>1. k <= m.Index
    <3> SUFFICES ASSUME m.Index + 1 <= k
                 PROVE  FALSE
      BY <1>1
    <3>1. m.Index + 1 \in 1..k
      BY <1>1
    <3>2. log[m.Index + 1] = m.Entries[1]
      BY <1>1, <1>4, <3>1 DEF Tells
    <3> QED BY <1>1, <1>4, <3>1, <3>2
  <2> QED BY <1>1, <1>2, <1>4, <2>1 DEF Agree
<1> QED
  BY <1>1, <1>2, <1>3, <1>4, AppendedOne

LEMMA AgreeKept ==
  ASSUME TypeOK, TypeOK', VotesOK', LeadsOK, LogsOK, ElectionSafety',
         NEW i \in Server, NEW m, Wrote(i, m),
         NEW l \in Server, NEW j \in Server, NEW t, LeadsIn(l, t), LeadsIn(l, t)',
         node[j].Term = t, node'[j].Term = t, NEW k \in Nat, Agree(node[l].log, node[j].log, k)
  PROVE  Agree(node'[l].log, node'[j].log, k)
<1>1. PICK n, s : n = node[i] /\ s = node'[i]
  OBVIOUS
<1>2. /\ NodeOK(i, n) /\ NodeOK(i, s) /\ Writes(n, s, m)
      /\ n.log \in Seq(Entry) /\ s.log \in Seq(Entry)
      /\ Len(n.log) \in Nat /\ Len(s.log) \in Nat
  BY <1>1, Fields, LenProperties DEF TypeOK, Wrote, Served
<1>3. PICK p, q : p = node[l].log /\ q = node[j].log /\ p \in Seq(Entry) /\ q \in Seq(Entry)
  BY Fields DEF TypeOK
<1>4. Agree(p, q, k) /\ Len(p) \in Nat /\ Len(q) \in Nat
  BY <1>3, LenProperties
<1>5. ASSUME s.state = "StateLeader", Agree(n.log, q, k)
      PROVE  Agree(s.log, q, k)
  <2>1. Len(s.log) >= Len(n.log) /\ \A x \in 1..Len(n.log) : s.log[x] = n.log[x]
    BY <1>2, <1>5, LeaderAppends
  <2> QED BY <1>2, <1>4, <1>5, <2>1 DEF Agree
<1>6. CASE l = i /\ j = i
  <2>1. Len(s.log) >= Len(n.log)
    BY <1>1, <1>2, <1>6, LeaderAppends DEF LeadsIn, Leader
  <2> QED BY <1>1, <1>2, <1>3, <1>4, <1>6, <2>1 DEF Agree
<1>7. CASE l = i /\ j # i
  <2>1. node'[j] = node[j] /\ s.state = "StateLeader"
    BY <1>1, <1>7 DEF Wrote, LeadsIn, Leader
  <2> QED BY <1>1, <1>3, <1>4, <1>5, <1>7, <2>1
<1>8. CASE l # i /\ j # i
  BY <1>3, <1>4, <1>8 DEF Wrote
<1>9. CASE l # i /\ j = i
  <2>1. node'[l] = node[l]
    BY <1>9 DEF Wrote
  <2>2. s.state # "StateLeader"
    <3> SUFFICES ASSUME s.state = "StateLeader"
                 PROVE  FALSE
      OBVIOUS
    <3>1. PICK G : G = elected'
      OBVIOUS
    <3>2. <<t, i>> \in G
      BY <1>1, <1>9, <3>1 DEF Wrote
    <3>3. <<t, l>> \in G
      BY <3>1 DEF VotesOK, LeadsIn, Leader
    <3>4. <<t, i>> = <<t, l>>
      BY <3>1, <3>2, <3>3 DEF ElectionSafety
    <3> QED BY <1>9, <3>4
  <2>3. CASE s.log = n.log
    BY <1>1, <1>3, <1>4, <1>9, <2>1, <2>3
  <2>4. CASE s.log # n.log
    <3>1. /\ m.Type = "MsgApp" /\ m.Term = s.Term /\ matchTerm(n.log, m.Index, m.LogTerm)
          /\ s.log = appended(n.log, m.Index, m.Entries)
      BY <1>2, <2>2, <2>4 DEF Writes
    <3>2. m \in Pending /\ m \in Messages /\ AppendOK(m) /\ Vouched(elected, m)
      BY <3>1, PendingMessages DEF Wrote, Told, LogsOK, Pending, LeadsOK, Follows
    <3>3. m.From = l
      <4>1. PICK G : G = elected' /\ elected \subseteq G
        BY DEF Wrote
      <4>2. <<t, m.From>> \in G
        BY <1>1, <1>9, <3>1, <3>2, <4>1 DEF Vouched, LeaderMsgs
      <4>3. <<t, l>> \in G
        BY <4>1 DEF VotesOK, LeadsIn, Leader
      <4>4. <<t, m.From>> = <<t, l>>
        BY <4>1, <4>2, <4>3 DEF ElectionSafety
      <4> QED BY <4>4
    <3>4. Tells(p, m)
      BY <1>1, <1>3, <1>9, <3>1, <3>2, <3>3 DEF AppendOK
    <3>5. Agree(p, s.log, k)
      BY <1>1, <1>2, <1>3, <1>4, <1>9, <3>1, <3>2, <3>4, FollowerKeeps DEF AppendOK
    <3> QED BY <1>1, <1>3, <1>9, <2>1, <3>5
  <2> QED BY <2>3, <2>4
<1> QED
  BY <1>6, <1>7, <1>8, <1>9

\* What has just been acknowledged
LEMMA NewAckOK ==
  ASSUME TypeOK, TypeOK', LeadsOK, LogsOK, LogsOK', NEW i \in Server, NEW m, Wrote(i, m),
         NEW x, x \in Pending', Reports(node'[i], m, x)
  PROVE  AckOK(x)'
<1>1. PICK n, s : n = node[i] /\ s = node'[i]
  OBVIOUS
<1>2. /\ NodeOK(i, s) /\ TermsOK(s) /\ s.log \in Seq(Entry) /\ Len(s.log) \in Nat
      /\ s.Term \in Nat /\ s.id = i /\ s.committed \in Nat /\ BootLen \in Nat
  BY <1>1, Fields, LenProperties, ServerAssumption, FS_CardinalityType
     DEF TypeOK, NodeOK, Wrote, Served, BootLen
<1>3. x \in Messages /\ x.Index \in Nat
  <2>1. x \in Messages
    BY Fields DEF TypeOK, Pending, Held, Elements
  <2> QED BY <2>1 DEF Messages, Unsent
<1> SUFFICES ASSUME Ack(x), x.Index > 0
             PROVE  /\ <<x.Term, x.To>> \in elected'
                    /\ node'[x.From].Term >= x.Term
                    /\ LeadsIn(x.To, x.Term)' =>
                         /\ x.Index <= Len(node'[x.To].log)
                         /\ node'[x.From].Term = x.Term =>
                              Agree(node'[x.To].log, node'[x.From].log, x.Index)
  BY DEF AckOK
<1>4. /\ x.From = i /\ x.Term = s.Term
      /\ \/ s.state = "StateLeader" /\ x.To = i /\ x.Index <= Len(s.log)
         \/ /\ m.Type = "MsgApp" /\ m.Term = s.Term /\ x.To = m.From
            /\ \/ x.Index <= s.committed
               \/ x.Index = m.Index + Len(m.Entries) /\ Holds(s.log, m)
  BY <1>1, <1>2 DEF Reports
<1>5. node'[x.From].Term >= x.Term
  BY <1>1, <1>2, <1>4
<1>6. CASE s.state = "StateLeader" /\ x.To = i /\ x.Index <= Len(s.log)
  <2>1. Agree(s.log, s.log, x.Index)
    BY <1>6 DEF Agree
  <2> QED BY <1>1, <1>4, <1>5, <1>6, <2>1 DEF Wrote
<1>7. CASE /\ m.Type = "MsgApp" /\ m.Term = s.Term /\ x.To = m.From
           /\ \/ x.Index <= s.committed
              \/ x.Index = m.Index + Len(m.Entries) /\ Holds(s.log, m)
  <2>1. /\ m \in Pending /\ m \in Messages /\ AppendOK(m) /\ Vouched(elected, m) /\ m.To = i
        /\ m.From \in Server
    BY <1>7, PendingMessages DEF Wrote, Told, LogsOK, Pending, LeadsOK, Follows, Messages
  <2>2. <<x.Term, x.To>> \in elected'
    BY <1>4, <1>7, <2>1 DEF Vouched, LeaderMsgs, Wrote
  <2>3. PICK l \in Server : l = x.To /\ l = m.From /\ l # i
    BY <1>7, <2>1 DEF AppendOK, WellSent, AfterAppend
  <2>4. node'[l] = node[l]
    BY <2>3 DEF Wrote
  <2> SUFFICES ASSUME LeadsIn(l, x.Term)'
               PROVE  Agree(node'[l].log, s.log, x.Index)
    BY <1>1, <1>4, <1>5, <2>2, <2>3 DEF Agree
  <2>5. PICK p : /\ p = node'[l].log /\ p \in Seq(Entry) /\ Len(p) \in Nat
                 /\ DOMAIN p = 1..Len(p) /\ DOMAIN s.log = 1..Len(s.log)
    BY <1>2, Fields, LenProperties DEF TypeOK
  <2>6. PICK L, G : /\ L = AllLinks' /\ G = elected' /\ LinksOK(L, G)
                    /\ Links(p) \subseteq L /\ Links(s.log) \subseteq L
    BY <1>1, <2>5 DEF LogsOK, AllLinks
  <2>7. CASE x.Index <= s.committed
    <3>1. s.committed <= BootLen /\ s.committed <= Len(s.log)
      BY <1>2 DEF TermsOK
    <3>2. Len(p) >= BootLen
      BY <2>5 DEF LogsOK, LeadsIn, Leader, TermsOK
    <3>3. ASSUME NEW log, Links(log) \subseteq L, NEW k \in DOMAIN log, k <= BootLen,
                 DOMAIN log \subseteq Nat
          PROVE  log[k] = BootEntry
      <4>1. PICK a : a = <<k, term(log, k - 1), log[k]>> /\ a \in L
        BY <3>3 DEF Links
      <4> QED BY <1>2, <2>6, <3>3, <4>1 DEF LinksOK
    <3>4. \A k \in 1..x.Index : /\ k \in DOMAIN p /\ k \in DOMAIN s.log /\ k <= BootLen
      BY <1>2, <1>3, <2>5, <2>7, <3>1, <3>2
    <3>5. DOMAIN p \subseteq Nat /\ DOMAIN s.log \subseteq Nat
      BY <2>5
    <3>6. \A k \in 1..x.Index : p[k] = s.log[k]
      BY <2>6, <3>3, <3>4, <3>5
    <3>7. x.Index <= Len(p) /\ x.Index <= Len(s.log)
      BY <1>2, <1>3, <2>5, <2>7, <3>1, <3>2
    <3> QED BY <2>5, <3>6, <3>7 DEF Agree
  <2>8. CASE x.Index = m.Index + Len(m.Entries) /\ Holds(s.log, m)
    <3>1. Tells(p, m)
      BY <1>4, <1>7, <2>1, <2>3, <2>4, <2>5 DEF AppendOK, LeadsIn, Leader
    <3>2. /\ m.Index \in Nat /\ m.Entries \in Seq(Entry) /\ Len(m.Entries) <= 1
      BY <1>7, <2>1 DEF Messages, Unsent, AppendOK, AppendShort
    <3>3. x.Index <= Len(p) /\ x.Index <= Len(s.log) /\ p[x.Index].Term = s.log[x.Index].Term
      <4>1. CASE m.Entries = <<>>
        <5>1. x.Index = m.Index
          BY <2>8, <3>2, <4>1, OneEntry
        <5> QED BY <1>3, <2>8, <3>1, <3>2, <5>1 DEF Tells, Holds, term
      <4>2. CASE m.Entries # <<>>
        <5>1. x.Index = m.Index + 1
          BY <2>8, <3>2, <4>2, OneEntry
        <5> QED BY <2>8, <3>1, <4>2, <5>1 DEF Tells, Holds
      <4> QED BY <4>1, <4>2
    <3>4. x.Index \in DOMAIN p \cap DOMAIN s.log
      BY <1>3, <2>5, <3>3
    <3> QED BY <1>2, <2>5, <2>6, <3>3, <3>4, LinksMatch
  <2> QED BY <1>7, <2>7, <2>8
<1> QED
  BY <1>4, <1>6, <1>7

\* Who has led in a term and is in it, leads in it.
LEMMA StillLeads ==
  ASSUME TypeOK, TypeOK', LogsOK, NEW i \in Server, NEW m, Wrote(i, m),
         NEW l \in Server, NEW t, <<t, l>> \in elected, LeadsIn(l, t)'
  PROVE  LeadsIn(l, t)
<1>1. PICK e : e = <<t, l>>
  OBVIOUS
<1>2. node[l].Term > t \/ LeadsIn(l, t)
  BY <1>1 DEF LogsOK
<1>3. node[l].Term \in Nat /\ node'[l].Term \in Nat /\ node'[l].Term >= node[l].Term
  BY Fields, SMTT(30) DEF TypeOK, Wrote, Served, Writes
<1> QED
  BY <1>2, <1>3 DEF LeadsIn

\* Terms and leaders' logs only grow.
LEMMA WroteGrows ==
  ASSUME TypeOK, TypeOK', NEW i \in Server, NEW m, Wrote(i, m), NEW j \in Server
  PROVE  /\ node[j].Term \in Nat /\ node'[j].Term \in Nat /\ node'[j].Term >= node[j].Term
         /\ Len(node[j].log) \in Nat /\ Len(node'[j].log) \in Nat
         /\ Leader(j)' => Len(node'[j].log) >= Len(node[j].log)
<1>1. PICK n, s : n = node[j] /\ s = node'[j]
  OBVIOUS
<1>2. /\ NodeOK(j, n) /\ NodeOK(j, s) /\ n.Term \in Nat /\ s.Term \in Nat
      /\ Len(n.log) \in Nat /\ Len(s.log) \in Nat
  BY <1>1, Fields, LenProperties DEF TypeOK
<1>3. CASE j = i
  <2>1. Writes(n, s, m)
    BY <1>1, <1>3 DEF Wrote, Served
  <2> QED BY <1>1, <1>2, <2>1, LeaderAppends DEF Writes, Leader
<1>4. CASE j # i
  <2>1. s = n
    BY <1>1, <1>4 DEF Wrote
  <2> QED BY <1>1, <1>2, <2>1
<1> QED
  BY <1>3, <1>4

LEMMA OldAckOK ==
  ASSUME TypeOK, TypeOK', VotesOK', LeadsOK, LogsOK, AcksOK, ElectionSafety',
         NEW i \in Server, NEW m, Wrote(i, m), NEW x \in Pending
  PROVE  AckOK(x)'
<1>1. /\ x \in Messages /\ x.Index \in Nat /\ x.Term \in Nat /\ AckOK(x)
      /\ x.To \in Server /\ x.From \in Server
  BY PendingMessages DEF AcksOK, Messages, Unsent
<1> SUFFICES ASSUME Ack(x), x.Index > 0
             PROVE  /\ <<x.Term, x.To>> \in elected'
                    /\ node'[x.From].Term >= x.Term
                    /\ LeadsIn(x.To, x.Term)' =>
                         /\ x.Index <= Len(node'[x.To].log)
                         /\ node'[x.From].Term = x.Term =>
                              Agree(node'[x.To].log, node'[x.From].log, x.Index)
  BY DEF AckOK
<1>2. PICK t, l, j, k : t = x.Term /\ l = x.To /\ j = x.From /\ k = x.Index
  OBVIOUS
<1>3. <<t, l>> \in elected /\ node[j].Term >= t
  BY <1>1, <1>2 DEF AckOK
<1>4. node'[j].Term >= node[j].Term /\ node'[j].Term \in Nat /\ node[j].Term \in Nat
  BY <1>1, <1>2, WroteGrows
<1>5. ASSUME LeadsIn(l, t)'
      PROVE  k <= Len(node'[l].log) /\ (node'[j].Term = t => Agree(node'[l].log, node'[j].log, k))
  <2>1. LeadsIn(l, t)
    BY <1>1, <1>2, <1>3, <1>5, StillLeads
  <2>2. k <= Len(node[l].log) /\ (node[j].Term = t => Agree(node[l].log, node[j].log, k))
    BY <1>1, <1>2, <2>1 DEF AckOK
  <2>3. Len(node'[l].log) >= Len(node[l].log)
        /\ Len(node[l].log) \in Nat /\ Len(node'[l].log) \in Nat
    BY <1>1, <1>2, <1>5, WroteGrows DEF LeadsIn
  <2>4. ASSUME node'[j].Term = t
        PROVE  Agree(node'[l].log, node'[j].log, k)
    <3>1. node[j].Term = t
      BY <1>1, <1>2, <1>3, <1>4, <2>4
    <3> QED BY <1>1, <1>2, <1>5, <2>1, <2>2, <2>4, <3>1, AgreeKept
  <2> QED BY <1>1, <1>2, <2>2, <2>3, <2>4
<1> QED
  BY <1>1, <1>2, <1>3, <1>4, <1>5 DEF Wrote

\* What a leader comes to believe of a peer, it believed before or is told.
LEMMA BeliefKept ==
  ASSUME TypeOK, TypeOK', VotesOK', LeadsOK, LogsOK, LogsOK', AcksOK, ElectionSafety',
         NEW i \in Server, NEW m, Wrote(i, m), NEW l \in Server, NEW j \in Server, Leader(l)',
         node'[l].prs[j].Match > 0
  PROVE  /\ node'[j].Term >= node'[l].Term
         /\ node'[j].Term = node'[l].Term =>
              Agree(node'[l].log, node'[j].log, node'[l].prs[j].Match)
<1>1. PICK t, k : t = node'[l].Term /\ k = node'[l].prs[j].Match
  OBVIOUS
<1>2. PICK r : r = node'[l] /\ NodeOK(l, r) /\ TermsOK(r) /\ PeersOK(r) /\ r.state = "StateLeader"
               /\ r.log \in Seq(Entry) /\ Len(r.log) \in Nat
  BY Fields, LenProperties DEF TypeOK, LogsOK, Leader
<1>3. k \in Nat /\ t \in Nat /\ r.voters = Server /\ k <= Len(r.log)
  <2>1. r.voters = Server
    BY <1>2 DEF TermsOK
  <2>2. r.prs[j] \in ProgressRecord /\ r.Term \in Nat
    BY <1>2, <2>1, Fields DEF ProgressOK
  <2>3. PeerOK(r, r.prs[j])
    BY <1>2, <2>1 DEF PeersOK
  <2> QED BY <1>1, <1>2, <2>1, <2>2, <2>3 DEF ProgressRecord, PeerOK
<1>4. CASE j = l
  BY <1>1, <1>2, <1>3, <1>4 DEF Agree
<1>5. ASSUME j # l
      PROVE  /\ LeadsIn(l, t) /\ node[j].Term >= t
             /\ node[j].Term = t => Agree(node[l].log, node[j].log, k)
  <2>1. ASSUME Leader(l), node[l].Term = t, node[l].prs[j].Match = k
        PROVE  /\ LeadsIn(l, t) /\ node[j].Term >= t
               /\ node[j].Term = t => Agree(node[l].log, node[j].log, k)
    BY <1>1, <2>1 DEF AcksOK, MatchSound, LeadsIn
  <2>2. CASE l # i
    BY <1>1, <2>1, <2>2 DEF Wrote, Leader
  <2>3. CASE l = i
    <3>1. Writes(node[i], r, m)
      BY <1>2, <2>3 DEF Wrote, Served
    <3>2. r.Term = node[i].Term /\ Credits(node[i], r, m) /\ r.id = l
      BY <1>2, <3>1 DEF Writes, NodeOK
    <3>3. \/ Leader(i) /\ k = node[i].prs[j].Match
          \/ Ack(m) /\ m.From = j /\ m.Term \in {0, t} /\ k = m.Index
      BY <1>1, <1>2, <1>3, <1>5, <3>2 DEF Credits, Leader
    <3>4. CASE Leader(i) /\ k = node[i].prs[j].Match
      BY <1>1, <1>2, <2>1, <2>3, <3>2, <3>4
    <3>5. CASE Ack(m) /\ m.From = j /\ m.Term \in {0, t} /\ k = m.Index
      <4>1. m \in Pending /\ m.To = i
        BY <3>5 DEF Wrote, Told, Ack
      <4>2. AckOK(m)
        BY <4>1 DEF AcksOK
      <4>3. <<m.Term, i>> \in elected
        BY <1>1, <3>5, <4>1, <4>2 DEF AckOK
      <4>4. PICK e : e = <<m.Term, i>>
        OBVIOUS
      <4>5. m.Term >= 2
        BY <4>3, <4>4 DEF LogsOK
      <4>6. m.Term = t
        BY <3>5, <4>5
      <4>7. LeadsIn(i, t)'
        BY <1>1, <1>2, <2>3 DEF LeadsIn
      <4>8. LeadsIn(i, t)
        BY <4>3, <4>6, <4>7, StillLeads
      <4> QED BY <1>1, <2>3, <3>5, <4>1, <4>2, <4>6, <4>8 DEF AckOK
    <3> QED BY <3>3, <3>4, <3>5
  <2> QED BY <2>2, <2>3
<1>6. CASE j # l
  <2>1. node'[j].Term >= node[j].Term /\ node'[j].Term \in Nat /\ node[j].Term \in Nat
    BY WroteGrows
  <2>2. node'[j].Term >= t
    BY <1>3, <1>5, <1>6, <2>1
  <2>3. ASSUME node'[j].Term = t
        PROVE  Agree(node'[l].log, node'[j].log, k)
    <3>1. node[j].Term = t
      BY <1>3, <1>5, <1>6, <2>1, <2>3
    <3>2. LeadsIn(l, t)'
      BY <1>1 DEF LeadsIn
    <3> QED BY <1>3, <1>5, <1>6, <2>3, <3>1, <3>2, AgreeKept
  <2> QED BY <1>1, <2>2, <2>3
<1> QED
  BY <1>4, <1>6

LEMMA AcksKept ==
  ASSUME TypeOK, TypeOK', VotesOK', LeadsOK, LogsOK, LogsOK', AcksOK, ElectionSafety',
         NEW i \in Server, NEW m, Wrote(i, m)
  PROVE  AcksOK'
<1>1. ASSUME NEW l \in Server, NEW j \in Server, Leader(l)', node'[j].Term = node'[l].Term
      PROVE  Agree(node'[l].log, node'[j].log, node'[l].prs[j].Match)
  <2>1. node'[l].voters = Server
    BY <1>1 DEF LogsOK, TermsOK, Leader
  <2>2. node'[l].prs[j] \in ProgressRecord
    <3>1. PICK r : r = node'[l] /\ NodeOK(l, r)
      BY DEF TypeOK
    <3> QED BY <2>1, <3>1, Fields DEF ProgressOK
  <2>3. CASE node'[l].prs[j].Match > 0
    BY <1>1, <2>3, BeliefKept
  <2>4. CASE node'[l].prs[j].Match = 0
    BY <2>4, WroteGrows DEF Agree
  <2> QED BY <2>2, <2>3, <2>4 DEF ProgressRecord
<1>2. MatchSound'
  BY <1>1 DEF MatchSound
<1>3. \A l, j \in Server : Leader(l)' /\ node'[l].prs[j].Match > 0 => node'[j].Term >= node'[l].Term
  BY BeliefKept
<1>4. ASSUME NEW x, x \in Pending'
      PROVE  AckOK(x)'
  <2>1. x \in Pending \/ Reports(node'[i], m, x)
    BY <1>4 DEF Wrote
  <2> QED BY <1>4, <2>1, OldAckOK, NewAckOK
<1> QED
  BY <1>2, <1>3, <1>4 DEF AcksOK
-----------------------------------------------------------------------------
(* Choices *)

LEMMA TermsAscend ==
  ASSUME NEW L, NEW F, LinksOK(L, F), NEW log \in Seq(Entry), Links(log) \subseteq L,
         NEW j \in DOMAIN log, NEW k \in DOMAIN log, j <= k
  PROVE  log[j].Term <= log[k].Term
<1> DEFINE D == {x \in j..k : ~ log[j].Term <= log[x].Term}
<1>1. /\ j \in Nat /\ k \in Nat /\ j >= 1 /\ k <= Len(log) /\ Len(log) \in Nat
      /\ DOMAIN log = 1..Len(log)
  BY LenProperties
<1>2. \A x \in DOMAIN log : log[x].Term \in Nat
  <2>1. \A x \in DOMAIN log : log[x] \in Entry
    BY ElementOfSeq
  <2> QED BY <2>1 DEF Entry
<1>3. SUFFICES ASSUME D # {}
               PROVE  FALSE
  BY <1>1
<1>4. D \in SUBSET Nat
  BY <1>1
<1>5. PICK x : x = Min(D) /\ x \in D /\ \A y \in D : x <= y
  BY <1>3, <1>4, MinOfNats
<1>6. x \in j..k /\ x \in DOMAIN log /\ ~ log[j].Term <= log[x].Term
  BY <1>1, <1>5
<1>7. x # j
  BY <1>2, <1>6
<1>8. x - 1 \in j..k /\ x - 1 \in DOMAIN log /\ x - 1 # 0 /\ ~ x <= x - 1
  BY <1>1, <1>6, <1>7
<1>9. log[j].Term <= log[x - 1].Term
  BY <1>5, <1>8
<1>10. log[x - 1].Term <= log[x].Term
  <2>1. PICK a : a = <<x, term(log, x - 1), log[x]>>
    OBVIOUS
  <2>2. a \in L
    BY <1>6, <2>1 DEF Links
  <2>3. a[2] <= a[3].Term
    BY <2>2 DEF LinksOK
  <2> QED BY <1>8, <2>1, <2>3 DEF term
<1> QED
  BY <1>2, <1>6, <1>8, <1>9, <1>10

LEMMA QuorumsShare ==
  ASSUME NEW A, NEW Q, IsQuorum(Server, A), IsQuorum(Server, Q)
  PROVE  \E q \in Server : q \in A /\ q \in Q
<1>1. IsFiniteSet(Server) /\ A \subseteq Server /\ Q \subseteq Server
  BY ServerAssumption DEF IsQuorum
<1>2. /\ Cardinality(Server) \in Nat /\ Cardinality(A) \in Nat /\ Cardinality(Q) \in Nat
  BY <1>1, FS_Subset, FS_CardinalityType
<1>3. PICK p, q, n : /\ p = Cardinality(A) /\ q = Cardinality(Q) /\ n = Cardinality(Server)
                     /\ p \in Nat /\ q \in Nat /\ n \in Nat
                     /\ p >= n \div 2 + 1 /\ q >= n \div 2 + 1
  BY <1>2 DEF IsQuorum
<1>4. p + q > n
  BY <1>3
<1>5. A \cap Q # {}
  BY <1>1, <1>3, <1>4, FS_MajoritiesIntersect
<1> QED
  BY <1>1, <1>5

LEMMA ElectedByQuorum ==
  ASSUME NEW r, NEW C, Counted(r) \subseteq C, Elected(r, C)
  PROVE  \E Q \in SUBSET Server : IsQuorum(Server, Q) /\ \A q \in Q : <<q, r.Term, r.id>> \in C
<1>1. PICK Q \in SUBSET Server :
        /\ 2 * Cardinality(Q) > Cardinality(Server)
        /\ \A q \in Q : <<q, r.Term, r.id>> \in Counted(r) \cup C
  BY DEF Elected
<1>2. Cardinality(Server) \in Nat /\ Cardinality(Q) \in Nat
  BY ServerAssumption, FS_Subset, FS_CardinalityType
<1>3. PICK q, n : /\ q = Cardinality(Q) /\ n = Cardinality(Server)
                  /\ q \in Nat /\ n \in Nat /\ 2 * q > n
  BY <1>1, <1>2
<1>4. q >= n \div 2 + 1
  BY <1>3
<1>5. IsQuorum(Server, Q)
  BY <1>3, <1>4 DEF IsQuorum
<1> QED
  BY <1>1, <1>5

LEMMA AgreeLess ==
  ASSUME NEW a, NEW b, NEW j \in Nat, NEW k \in Nat, k <= j, Agree(a, b, j),
         Len(a) \in Nat, Len(b) \in Nat
  PROVE  Agree(a, b, k)
BY DEF Agree

LEMMA BallotsAre ==
  /\ \A x \in Pending : Granted(x) => <<x.From, x.Term, x.To>> \in VoteBallots
  /\ \A j \in Server : Counted(node[j]) \subseteq VoteBallots
BY DEF VoteBallots, Cast, Pending

\* Logs that have entries of a leader's term agree with its log as far as that.
LEMMA EndsInTerm ==
  ASSUME TypeOK, LogsOK, NEW l \in Server, Leader(l), NEW q \in Server,
         NEW k \in DOMAIN node[l].log, node[l].log[k].Term = node[l].Term,
         NEW j \in DOMAIN node[q].log, node[q].log[j].Term = node[l].Term, k <= j
  PROVE  Agree(node[l].log, node[q].log, k)
<1>1. PICK a, b, t : a = node[l].log /\ b = node[q].log /\ t = node[l].Term
  OBVIOUS
<1>2. /\ a \in Seq(Entry) /\ b \in Seq(Entry) /\ t \in Nat /\ TermsOK(node[l])
      /\ Links(a) \subseteq AllLinks /\ Links(b) \subseteq AllLinks /\ LinksOK(AllLinks, elected)
  BY <1>1, Fields, LinksOf DEF TypeOK, LogsOK
<1>3. /\ Len(a) \in Nat /\ Len(b) \in Nat /\ DOMAIN a = 1..Len(a) /\ DOMAIN b = 1..Len(b)
      /\ k \in DOMAIN a /\ a[k].Term = t /\ j \in DOMAIN b /\ b[j].Term = t
      /\ j \in Nat /\ k \in Nat
  BY <1>1, <1>2, LenProperties
<1>4. j \in DOMAIN a
  <2>1. PICK x : x = <<j, term(b, j - 1), b[j]>>
    OBVIOUS
  <2>2. x \in AllLinks
    BY <1>2, <1>3, <2>1 DEF Links
  <2>3. x[1] = j /\ x[3].Term = t
    BY <1>3, <2>1
  <2>4. j <= Len(a)
    BY <1>1, <2>2, <2>3 DEF LogsOK
  <2> QED BY <1>3, <2>4
<1>5. a[j].Term = t
  <2>1. a[k].Term <= a[j].Term
    BY <1>2, <1>3, <1>4, TermsAscend
  <2>2. a[j].Term \in 1..t
    BY <1>1, <1>2, <1>4 DEF TermsOK
  <2> QED BY <1>2, <1>3, <2>1, <2>2
<1>6. Agree(a, b, j)
  <2>1. j \in DOMAIN a \cap DOMAIN b /\ a[j].Term = b[j].Term
    BY <1>3, <1>4, <1>5
  <2> QED BY <1>1, <2>1, LogsMatching DEF LogMatching
<1> QED
  BY <1>1, <1>3, <1>6, AgreeLess

\* A log that holds (index, term) beyond k has the k entries.
LEMMA BeyondAgrees ==
  ASSUME TypeOK, LogsOK, NEW l \in Server, Leader(l), NEW q \in Server,
         NEW k \in DOMAIN node[l].log, node[l].log[k].Term = node[l].Term, ChosenOK(l, k),
         NEW index \in Nat, index <= Len(node[q].log),
         Beyond(l, k, index, term(node[q].log, index))
  PROVE  Agree(node[l].log, node[q].log, k) /\ index >= k
<1>1. PICK a, b, t : a = node[l].log /\ b = node[q].log /\ t = node[l].Term
  OBVIOUS
<1>2. /\ a \in Seq(Entry) /\ b \in Seq(Entry) /\ t \in Nat
      /\ Links(b) \subseteq AllLinks /\ LinksOK(AllLinks, elected)
  BY <1>1, Fields, LinksOf DEF TypeOK, LogsOK
<1>3. /\ Len(a) \in Nat /\ Len(b) \in Nat /\ DOMAIN a = 1..Len(a) /\ DOMAIN b = 1..Len(b)
      /\ k \in DOMAIN a /\ a[k].Term = t /\ k \in Nat /\ k >= 1 /\ index <= Len(b)
  BY <1>1, <1>2, LenProperties
<1>4. CASE term(b, index) > t
  <2>1. index # 0
    BY <1>2, <1>4 DEF term
  <2>2. index \in DOMAIN b /\ b[index].Term > t
    BY <1>3, <1>4, <2>1 DEF term
  <2>3. Len(b) \in DOMAIN b /\ index <= Len(b)
    BY <1>3, <2>2
  <2>4. \A x \in DOMAIN b : b[x].Term \in Nat
    <3>1. \A x \in DOMAIN b : b[x] \in Entry
      BY <1>2, ElementOfSeq
    <3> QED BY <3>1 DEF Entry
  <2>5. b[index].Term <= b[Len(b)].Term
    BY <1>2, <2>2, <2>3, TermsAscend
  <2>6. lastTerm(b) > t
    <3>1. lastTerm(b) = b[Len(b)].Term
      BY <1>3, <2>3 DEF lastTerm, lastIndex, term
    <3> QED BY <1>2, <2>2, <2>3, <2>4, <2>5, <3>1
  <2>7. Agree(a, b, k)
    BY <1>1, <2>6 DEF ChosenOK
  <2>8. b[k].Term = t /\ k \in DOMAIN b
    BY <1>3, <2>7 DEF Agree
  <2>9. ~ index <= k
    <3>1. index <= k => b[index].Term <= b[k].Term
      BY <1>2, <2>2, <2>8, TermsAscend
    <3> QED BY <1>2, <2>2, <2>4, <2>8, <3>1
  <2> QED BY <1>1, <1>3, <2>7, <2>9
<1>5. CASE term(b, index) = t /\ index >= k
  <2>1. index \in DOMAIN b /\ index # 0
    BY <1>3, <1>5
  <2>2. b[index].Term = t
    BY <1>5, <2>1 DEF term
  <2>3. k <= index
    BY <1>3, <1>5
  <2> QED BY <1>1, <1>5, <2>1, <2>2, <2>3, EndsInTerm
<1> QED
  BY <1>1, <1>4, <1>5 DEF Beyond

\* Ballots are those of before and those that i reports.
LEMMA NewBallots ==
  ASSUME NEW i \in Server, NEW m, Wrote(i, m), NEW b \in VoteBallots'
  PROVE  \/ b \in VoteBallots
         \/ \E x \in Pending' :
              Reports(node'[i], m, x) /\ Granted(x) /\ b = <<x.From, x.Term, x.To>>
<1>1. \/ \E x \in Pending' : Granted(x) /\ b = <<x.From, x.Term, x.To>>
      \/ \E j \in Server : b \in Counted(node'[j])
  BY DEF VoteBallots, Cast, Pending
<1>2. CASE \E x \in Pending' : Granted(x) /\ b = <<x.From, x.Term, x.To>>
  <2>1. PICK x \in Pending' : Granted(x) /\ b = <<x.From, x.Term, x.To>>
    BY <1>2
  <2>2. CASE x \in Pending
    BY <2>1, <2>2, BallotsAre
  <2>3. CASE x \notin Pending
    BY <2>1, <2>3 DEF Wrote
  <2> QED BY <2>2, <2>3
<1>3. CASE \E j \in Server : b \in Counted(node'[j])
  <2>1. PICK j \in Server : b \in Counted(node'[j])
    BY <1>3
  <2>2. CASE j = i
    BY <2>1, <2>2 DEF Wrote
  <2>3. CASE j # i
    BY <2>1, <2>3, BallotsAre DEF Wrote
  <2> QED BY <2>2, <2>3
<1> QED
  BY <1>1, <1>2, <1>3

\* The log of a candidate with the ballots of a majority goes beyond what may
\* have been acknowledged by a majority.
LEMMA VotedBeyond ==
  ASSUME TypeOK, LogsOK, ChoicesOK, NEW l \in Server, Leader(l),
         NEW k \in DOMAIN node[l].log, node[l].log[k].Term = node[l].Term, Choosable(l, k),
         NEW i \in Server, node[i].state = "StateCandidate", node[i].Term > node[l].Term,
         Elected(node[i], VoteBallots)
  PROVE  Beyond(l, k, lastIndex(node[i].log), lastTerm(node[i].log))
<1>1. PICK r : r = node[i] /\ r.id = i /\ Counted(r) \subseteq VoteBallots
  <2>1. node[i].id = i
    BY DEF TypeOK, NodeOK
  <2> QED BY <2>1, BallotsAre
<1>2. PICK Q \in SUBSET Server :
        IsQuorum(Server, Q) /\ \A q \in Q : <<q, r.Term, r.id>> \in VoteBallots
  BY <1>1, ElectedByQuorum
<1>3. PICK A \in SUBSET Server :
        IsQuorum(Server, A) /\ \A q \in A : node[q].Term <= node[l].Term \/ Acked(q, l, k)
  BY DEF Choosable
<1>4. PICK q \in Server : q \in A /\ q \in Q
  BY <1>2, <1>3, QuorumsShare
<1>5. PICK b : b = <<q, r.Term, i>> /\ b \in VoteBallots /\ b[1] = q /\ b[2] = r.Term /\ b[3] = i
  <2>1. PICK b : b = <<q, r.Term, i>>
    OBVIOUS
  <2> QED BY <1>1, <1>2, <1>4, <2>1
<1>6. node[q].Term >= r.Term
  BY <1>5 DEF ChoicesOK
<1>7. Acked(q, l, k)
  <2>1. node[q].Term \in Nat /\ node[l].Term \in Nat /\ r.Term \in Nat
    BY <1>1, Fields DEF TypeOK
  <2> QED BY <1>1, <1>3, <1>4, <1>6, <2>1
<1>8. ChosenOK(l, k)
  BY DEF ChoicesOK
<1>9. Candidate(i, r.Term)
  BY <1>1 DEF Candidate
<1> QED
  BY <1>1, <1>5, <1>7, <1>8, <1>9 DEF ChosenOK

\* A log that is written in a later term keeps what may have been acknowledged
\* by a majority, or holds it by then.
LEMMA WritesPast ==
  ASSUME TypeOK, TypeOK', VotesOK, LogsOK, ChoicesOK, NEW i \in Server, NEW m, Wrote(i, m),
         NEW l \in Server, Leader(l), NEW k \in DOMAIN node[l].log,
         node[l].log[k].Term = node[l].Term, Choosable(l, k),
         node'[i].log # node[i].log, node'[i].Term > node[l].Term
  PROVE  /\ Agree(node[l].log, node'[i].log, k)
         /\ node'[i].state = "StateLeader" /\ node[i].state # "StateLeader" =>
              Beyond(l, k, lastIndex(node[i].log), lastTerm(node[i].log))
<1>1. PICK n, s, t : n = node[i] /\ s = node'[i] /\ t = node[l].Term
  OBVIOUS
<1>2. /\ NodeOK(i, n) /\ NodeOK(i, s) /\ n.log \in Seq(Entry) /\ s.log \in Seq(Entry)
      /\ TermsOK(n) /\ Writes(n, s, m) /\ s.Term > t /\ s.log # n.log
  BY <1>1, Fields DEF TypeOK, LogsOK, Wrote, Served
<1>3. /\ Len(n.log) \in Nat /\ Len(s.log) \in Nat /\ k \in Nat /\ ChosenOK(l, k)
      /\ Len(node[l].log) \in Nat /\ t \in Nat /\ s.Term \in Nat /\ k >= 1
  <2>1. node[l].log \in Seq(Entry) /\ t \in Nat /\ s.Term \in Nat
    BY <1>1, <1>2, Fields DEF TypeOK
  <2>2. k \in Nat /\ k >= 1 /\ Len(node[l].log) \in Nat
    BY <2>1, LenProperties
  <2>3. ChosenOK(l, k)
    BY DEF ChoicesOK
  <2> QED BY <1>2, <2>1, <2>2, <2>3, LenProperties
<1>4. CASE s.state = "StateLeader"
  <2>1. s.Term = n.Term /\ n.state \in {"StateCandidate", "StateLeader"}
    BY <1>2, <1>4 DEF Writes
  <2>2. n.state = "StateCandidate" => Beyond(l, k, lastIndex(n.log), lastTerm(n.log))
    <3> SUFFICES ASSUME n.state = "StateCandidate"
                 PROVE  Beyond(l, k, lastIndex(n.log), lastTerm(n.log))
      OBVIOUS
    <3>1. Elected(node[i], VoteBallots)
      BY <1>1, <1>4 DEF Wrote
    <3> QED BY <1>1, <1>2, <2>1, <3>1, VotedBeyond
  <2>3. Agree(node[l].log, n.log, k)
    <3>1. CASE n.state = "StateLeader"
      <4>1. lastTerm(n.log) > t
        BY <1>2, <2>1, <3>1 DEF TermsOK
      <4> QED BY <1>1, <1>3, <4>1 DEF ChosenOK
    <3>2. CASE n.state = "StateCandidate"
      <4>1. PICK x \in Nat : x = Len(n.log)
        BY <1>3
      <4>2. Beyond(l, k, x, term(node[i].log, x)) /\ x <= Len(node[i].log)
        BY <1>1, <1>3, <2>2, <3>2, <4>1 DEF lastIndex, lastTerm
      <4> QED BY <1>1, <1>3, <4>2, BeyondAgrees
    <3> QED BY <2>1, <3>1, <3>2
  <2>4. Agree(n.log, s.log, k)
    <3>1. Len(s.log) >= Len(n.log) /\ \A x \in 1..Len(n.log) : s.log[x] = n.log[x]
      BY <1>2, <1>4, LeaderAppends
    <3>2. k <= Len(n.log)
      BY <2>3 DEF Agree
    <3> QED BY <1>3, <3>1, <3>2 DEF Agree
  <2>5. Agree(node[l].log, s.log, k)
    BY <1>3, <2>3, <2>4 DEF Agree
  <2> QED BY <1>1, <2>1, <2>2, <2>5
<1>5. CASE s.state # "StateLeader"
  <2>1. /\ m.Type = "MsgApp" /\ m.Term = s.Term /\ matchTerm(n.log, m.Index, m.LogTerm)
        /\ s.log = appended(n.log, m.Index, m.Entries)
    BY <1>2, <1>5 DEF Writes
  <2>2. m \in Pending /\ m \in Messages /\ AppendShort(m)
    BY <2>1, PendingMessages DEF Wrote, Told, LogsOK, AppendOK
  <2>3. /\ m.Index \in Nat /\ m.Entries \in Seq(Entry) /\ m.Index <= Len(n.log)
        /\ term(n.log, m.Index) = m.LogTerm /\ Len(m.Entries) <= 1
    BY <2>1, <2>2 DEF Messages, Unsent, matchTerm, termKnown, AppendShort
  <2>4. /\ m.Entries # <<>> /\ Len(s.log) = m.Index + 1
        /\ \A x \in 1..m.Index : s.log[x] = n.log[x]
    BY <1>2, <2>1, <2>3, AppendedOne
  <2>5. Beyond(l, k, m.Index, m.LogTerm)
    <3>1. m.Entries[1].Term = m.Term
      BY <2>1, <2>2, <2>4 DEF AppendShort
    <3>2. CASE m.LogTerm = m.Term
      BY <1>1, <1>2, <2>1, <3>2 DEF Beyond
    <3>3. CASE m.LogTerm # m.Term
      <4>1. PICK a : a = <<m.Index + 1, m.LogTerm, m.Entries[1]>>
        OBVIOUS
      <4>2. a \in AllLinks
        <5>1. a \in Brings(m)
          BY <2>1, <2>4, <4>1 DEF Brings
        <5> QED BY <2>2, <5>1, LinksOf
      <4>3. a[1] - 1 = m.Index /\ a[2] = m.LogTerm /\ a[3].Term = m.Term
        BY <2>3, <3>1, <4>1
      <4>4. Opens(a) /\ a[3].Term > node[l].Term
        BY <1>1, <1>2, <2>1, <3>3, <4>3 DEF Opens
      <4> QED BY <1>3, <4>2, <4>3, <4>4 DEF ChosenOK
    <3> QED BY <3>2, <3>3
  <2>6. Agree(node[l].log, n.log, k) /\ m.Index >= k
    <3>1. PICK x \in Nat : x = m.Index
      BY <2>3
    <3>2. Beyond(l, k, x, term(node[i].log, x)) /\ x <= Len(node[i].log)
      BY <1>1, <2>3, <2>5, <3>1
    <3> QED BY <1>1, <1>3, <3>1, <3>2, BeyondAgrees
  <2>7. Agree(node[l].log, s.log, k)
    <3>1. PICK a, b, c, x : a = node[l].log /\ b = n.log /\ c = s.log /\ x = m.Index
      OBVIOUS
    <3>2. x \in Nat /\ k <= x /\ Len(c) = x + 1 /\ \A y \in 1..x : c[y] = b[y]
      BY <1>3, <2>3, <2>4, <2>6, <3>1
    <3>3. Agree(a, b, k) /\ k \in Nat
      BY <1>3, <2>6, <3>1
    <3>4. Agree(a, c, k)
      BY <3>2, <3>3 DEF Agree
    <3> QED BY <3>1, <3>4
  <2> QED BY <1>1, <1>5, <2>7
<1> QED
  BY <1>4, <1>5

\* Who has acknowledged k to a leader has done so before, or is in its term.
LEMMA AckedBefore ==
  ASSUME TypeOK, TypeOK', LogsOK, LogsOK', AcksOK, NEW i \in Server, NEW m, Wrote(i, m),
         NEW l \in Server, NEW t, LeadsIn(l, t), LeadsIn(l, t)', NEW q \in Server, q # l,
         NEW k \in Nat, k >= 1, Acked(q, l, k)'
  PROVE  Acked(q, l, k) \/ node'[q].Term = t
<1>1. PICK n, s : n = node[i] /\ s = node'[i] /\ s.id = i /\ Writes(n, s, m) /\ TermsOK(s)
                  /\ s.Term \in Nat
  <2>1. node'[i].id = i /\ node'[i].Term \in Nat
    BY Fields DEF TypeOK, NodeOK
  <2> QED BY <2>1 DEF Wrote, Served
<1>2. CASE node'[l].prs[q].Match >= k
  <2>1. CASE l # i
    BY <1>2, <2>1 DEF Wrote, Acked
  <2>2. CASE l = i
    <3>1. s.state = "StateLeader" /\ n.state = "StateLeader" /\ s.Term = t /\ n.Term = t
      BY <1>1, <2>2 DEF LeadsIn, Leader
    <3>2. q \in s.voters \ {s.id}
      BY <1>1, <2>2, <3>1 DEF TermsOK
    <3>3. \/ s.prs[q].Match = 0
          \/ s.prs[q].Match = n.prs[q].Match
          \/ Ack(m) /\ m.From = q /\ m.Term \in {0, s.Term} /\ s.prs[q].Match = m.Index
      BY <1>1, <3>1, <3>2 DEF Writes, Credits
    <3>4. CASE s.prs[q].Match = 0
      BY <1>1, <1>2, <2>2, <3>4
    <3>5. CASE s.prs[q].Match = n.prs[q].Match
      BY <1>1, <1>2, <2>2, <3>5 DEF Acked
    <3>6. CASE Ack(m) /\ m.From = q /\ m.Term \in {0, s.Term} /\ s.prs[q].Match = m.Index
      <4>1. m \in Pending /\ m.To = i
        BY <3>6 DEF Wrote, Told, Ack
      <4>2. m.Index >= k /\ m.Index > 0
        <5>1. m.Index \in Nat
          BY <4>1, PendingMessages DEF Messages, Unsent
        <5> QED BY <1>1, <1>2, <2>2, <3>6, <5>1
      <4>3. <<m.Term, m.To>> \in elected
        BY <3>6, <4>1, <4>2 DEF AcksOK, AckOK
      <4>4. m.Term >= 2
        <5>1. PICK e \in elected : e = <<m.Term, m.To>>
          BY <4>3
        <5>2. e[1] = m.Term
          BY <5>1
        <5> QED BY <5>1, <5>2 DEF LogsOK
      <4>5. m.Term = t
        BY <3>1, <3>6, <4>4
      <4> QED BY <1>1, <2>2, <3>1, <3>6, <4>1, <4>2, <4>5 DEF Acked
    <3> QED BY <3>3, <3>4, <3>5, <3>6
  <2> QED BY <2>1, <2>2
<1>3. CASE ~ node'[l].prs[q].Match >= k
  <2>1. PICK x \in Pending' :
          Ack(x) /\ x.From = q /\ x.To = l /\ x.Term = node'[l].Term /\ x.Index >= k
    BY <1>3 DEF Acked
  <2>2. x.Term = t
    BY <2>1 DEF LeadsIn
  <2>3. CASE x \in Pending
    BY <2>1, <2>2, <2>3 DEF Acked, LeadsIn
  <2>4. CASE x \notin Pending
    <3>1. Reports(s, m, x) /\ x.Index > 0
      <4>1. x.Index \in Nat
        <5>1. x \in Messages
          BY Fields DEF TypeOK, Pending, Held, Elements
        <5> QED BY <5>1 DEF Messages, Unsent
      <4> QED BY <1>1, <2>1, <2>4, <4>1 DEF Wrote
    <3>2. x.From = s.id /\ x.Term = s.Term
      BY <2>1, <3>1 DEF Reports
    <3> QED BY <1>1, <2>1, <2>2, <3>2
  <2> QED BY <2>3, <2>4
<1> QED
  BY <1>2, <1>3

\* What is acknowledged to a leader of its own term is held.
LEMMA AckedInTerm ==
  ASSUME TypeOK', LogsOK', AcksOK', NEW l \in Server, NEW t, LeadsIn(l, t)', NEW q \in Server,
         NEW k \in Nat, k >= 1, Acked(q, l, k)'
  PROVE  /\ node'[q].Term >= t
         /\ node'[q].Term = t => Agree(node'[l].log, node'[q].log, k)
<1>1. Leader(l)' /\ node'[l].Term = t
  BY DEF LeadsIn
<1>2. PICK a, b : /\ a = node'[l].log /\ b = node'[q].log /\ Len(a) \in Nat /\ Len(b) \in Nat
  <2>1. node'[l].log \in Seq(Entry) /\ node'[q].log \in Seq(Entry)
    BY Fields DEF TypeOK
  <2> QED BY <2>1, LenProperties
<1>3. CASE node'[l].prs[q].Match >= k
  <2>1. PICK p \in Nat : p = node'[l].prs[q].Match
    <3>1. q \in node'[l].voters
      BY <1>1 DEF LogsOK, TermsOK, Leader
    <3>2. ProgressOK(node'[l].prs[q])
      BY <3>1, Fields DEF TypeOK
    <3> QED BY <3>2 DEF ProgressOK, ProgressRecord
  <2>2. p > 0 /\ k <= p
    BY <1>3, <2>1
  <2>3. node'[q].Term >= t
    BY <1>1, <2>1, <2>2 DEF AcksOK
  <2>4. node'[q].Term = t => Agree(a, b, p)
    BY <1>1, <1>2, <2>1 DEF AcksOK, MatchSound
  <2>5. node'[q].Term = t => Agree(a, b, k)
    BY <1>2, <2>2, <2>4, AgreeLess
  <2> QED BY <1>2, <2>3, <2>5
<1>4. CASE ~ node'[l].prs[q].Match >= k
  <2>1. PICK x \in Pending' :
          Ack(x) /\ x.From = q /\ x.To = l /\ x.Term = node'[l].Term /\ x.Index >= k
    BY <1>4 DEF Acked
  <2>2. PICK p \in Nat : p = x.Index
    <3>1. x \in Messages
      BY <2>1, Fields DEF TypeOK, Pending, Held, Elements
    <3> QED BY <3>1 DEF Messages, Unsent
  <2>3. p > 0 /\ k <= p
    BY <2>1, <2>2
  <2>4. AckOK(x)' /\ x.Index > 0 /\ LeadsIn(x.To, x.Term)'
    BY <1>1, <2>1, <2>2, <2>3 DEF AcksOK
  <2>5. node'[q].Term >= t /\ (node'[q].Term = t => Agree(a, b, p))
    BY <1>1, <1>2, <2>1, <2>2, <2>3, <2>4 DEF AckOK
  <2>6. node'[q].Term = t => Agree(a, b, k)
    BY <1>2, <2>3, <2>5, AgreeLess
  <2> QED BY <1>2, <2>5, <2>6
<1> QED
  BY <1>3, <1>4

\* What a leader has of its log it keeps.
LEMMA LeaderKeeps ==
  ASSUME TypeOK, TypeOK', NEW i \in Server, NEW m, Wrote(i, m),
         NEW l \in Server, Leader(l)', NEW k \in DOMAIN node[l].log
  PROVE  /\ k \in DOMAIN node'[l].log /\ node'[l].log[k] = node[l].log[k]
         /\ Agree(node[l].log, node'[l].log, k)
<1>1. PICK a, b : a = node[l].log /\ b = node'[l].log
  OBVIOUS
<1>2. /\ a \in Seq(Entry) /\ b \in Seq(Entry) /\ Len(a) \in Nat /\ Len(b) \in Nat
      /\ DOMAIN a = 1..Len(a) /\ DOMAIN b = 1..Len(b)
  BY <1>1, Fields, LenProperties DEF TypeOK
<1>3. Len(b) >= Len(a) /\ \A x \in 1..Len(a) : b[x] = a[x]
  <2>1. CASE l = i
    BY <1>1, <2>1, LeaderAppends DEF TypeOK, Wrote, Served, Leader
  <2>2. CASE l # i
    BY <1>1, <1>2, <2>2 DEF Wrote
  <2> QED BY <2>1, <2>2
<1> QED
  BY <1>1, <1>2, <1>3, SMTT(30) DEF Agree

\* What a majority may still acknowledge, it might before.
LEMMA ChoosableBefore ==
  ASSUME TypeOK, TypeOK', LogsOK, LogsOK', AcksOK, NEW i \in Server, NEW m, Wrote(i, m),
         NEW l \in Server, NEW t, LeadsIn(l, t), LeadsIn(l, t)', NEW k \in Nat, k >= 1,
         Choosable(l, k)'
  PROVE  Choosable(l, k)
<1>1. PICK Q \in SUBSET Server :
        IsQuorum(Server, Q) /\ \A q \in Q : node'[q].Term <= node'[l].Term \/ Acked(q, l, k)'
  BY DEF Choosable
<1>2. node[l].Term = t /\ node'[l].Term = t
  BY DEF LeadsIn
<1>3. ASSUME NEW q \in Q
      PROVE  node[q].Term <= node[l].Term \/ Acked(q, l, k)
  <2>1. /\ node[q].Term \in Nat /\ node'[q].Term \in Nat /\ node'[q].Term >= node[q].Term
        /\ node[l].Term \in Nat
    BY WroteGrows
  <2>2. node'[q].Term <= t \/ Acked(q, l, k)'
    BY <1>1, <1>2
  <2>3. q # l /\ Acked(q, l, k)' => Acked(q, l, k) \/ node'[q].Term = t
    BY AckedBefore
  <2> QED BY <1>2, <2>1, <2>2, <2>3
<1> QED
  BY <1>1, <1>3 DEF Choosable

\* A log that has an entry of index k goes beyond it.
LEMMA HolderIsBeyond ==
  ASSUME NEW L, NEW F, LinksOK(L, F), NEW log \in Seq(Entry), Links(log) \subseteq L,
         NEW k \in DOMAIN log, NEW t, log[k].Term = t
  PROVE  /\ lastTerm(log) \in Nat /\ lastIndex(log) \in Nat
         /\ lastTerm(log) > t \/ (lastTerm(log) = t /\ lastIndex(log) >= k)
<1>1. Len(log) \in Nat /\ DOMAIN log = 1..Len(log)
  BY LenProperties
<1>2. k \in Nat /\ Len(log) \in DOMAIN log /\ k <= Len(log)
  BY <1>1
<1>3. lastTerm(log) = log[Len(log)].Term /\ lastIndex(log) = Len(log)
  BY <1>1, <1>2 DEF lastTerm, lastIndex, term
<1>4. log[Len(log)].Term \in Nat /\ log[k].Term \in Nat
  <2>1. log[Len(log)] \in Entry /\ log[k] \in Entry
    BY <1>2, ElementOfSeq
  <2> QED BY <2>1 DEF Entry
<1>5. log[k].Term <= log[Len(log)].Term
  BY <1>2, TermsAscend
<1> QED
  BY <1>1, <1>2, <1>3, <1>4, <1>5

\* Who acknowledged k to a leader still holds it.
LEMMA AckedHolds ==
  ASSUME TypeOK, TypeOK', VotesOK, LogsOK, LogsOK', AcksOK, AcksOK', ChoicesOK,
         NEW i \in Server, NEW m, Wrote(i, m),
         NEW l \in Server, NEW t, LeadsIn(l, t), LeadsIn(l, t)',
         NEW k \in DOMAIN node[l].log, node[l].log[k].Term = t, Choosable(l, k),
         NEW q \in Server, Acked(q, l, k)'
  PROVE  Agree(node'[l].log, node'[q].log, k)
<1>1. /\ Leader(l) /\ Leader(l)' /\ node[l].Term = t /\ node'[l].Term = t
      /\ k \in Nat /\ k >= 1
  <2>1. node[l].log \in Seq(Entry)
    BY Fields DEF TypeOK
  <2> QED BY <2>1, LenProperties DEF LeadsIn
<1>2. PICK a, b : a = node[l].log /\ b = node'[l].log /\ Agree(a, b, k)
  BY <1>1, LeaderKeeps
<1>3. CASE q = l
  BY <1>2, <1>3 DEF Agree
<1>4. CASE q # l /\ node'[q].Term = t
  BY <1>1, <1>4, AckedInTerm
<1>5. CASE q # l /\ node'[q].Term # t
  <2>1. Acked(q, l, k)
    BY <1>1, <1>5, AckedBefore
  <2>2. node'[q].Term > t
    <3>1. node'[q].Term >= t
      BY <1>1, AckedInTerm
    <3>2. node'[q].Term \in Nat /\ t \in Nat
      BY <1>1, WroteGrows
    <3> QED BY <1>5, <3>1, <3>2
  <2>3. Agree(a, node'[q].log, k)
    <3>1. CASE node'[q].log = node[q].log
      BY <1>1, <1>2, <2>1, <3>1 DEF ChoicesOK, ChosenOK
    <3>2. CASE node'[q].log # node[q].log
      <4>1. q = i
        BY <3>2 DEF Wrote
      <4> QED BY <1>1, <1>2, <2>2, <3>2, <4>1, WritesPast
    <3> QED BY <3>1, <3>2
  <2> QED BY <1>2, <2>3 DEF Agree
<1> QED
  BY <1>3, <1>4, <1>5

\* Every log with an entry of a later term still holds k.
LEMMA LaterHolds ==
  ASSUME TypeOK, TypeOK', VotesOK, LogsOK, LogsOK', ChoicesOK,
         NEW i \in Server, NEW m, Wrote(i, m),
         NEW l \in Server, NEW t, LeadsIn(l, t), LeadsIn(l, t)',
         NEW k \in DOMAIN node[l].log, node[l].log[k].Term = t, Choosable(l, k),
         NEW q \in Server, lastTerm(node'[q].log) > t
  PROVE  Agree(node'[l].log, node'[q].log, k)
<1>1. Leader(l) /\ Leader(l)' /\ node[l].Term = t /\ node'[l].Term = t
  BY DEF LeadsIn
<1>2. PICK a, b : a = node[l].log /\ b = node'[l].log /\ Agree(a, b, k)
  BY <1>1, LeaderKeeps
<1>3. CASE node'[q].log = node[q].log
  BY <1>1, <1>2, <1>3 DEF ChoicesOK, ChosenOK, Agree
<1>4. CASE node'[q].log # node[q].log
  <2>1. q = i
    BY <1>4 DEF Wrote
  <2>2. node'[q].Term > t
    <3>1. PICK s : s = node'[q] /\ TermsOK(s) /\ s.log \in Seq(Entry) /\ s.Term \in Nat
      BY Fields DEF TypeOK, LogsOK
    <3>2. Len(s.log) \in Nat /\ DOMAIN s.log = 1..Len(s.log) /\ t \in Nat
      BY <1>1, <3>1, LenProperties, Fields DEF TypeOK
    <3>3. Len(s.log) \in DOMAIN s.log
      BY <3>1, <3>2 DEF lastTerm, lastIndex, term
    <3>4. lastTerm(s.log) = s.log[Len(s.log)].Term
      BY <3>2, <3>3 DEF lastTerm, lastIndex, term
    <3>5. s.log[Len(s.log)].Term \in 1..s.Term
      BY <3>1, <3>3 DEF TermsOK
    <3> QED BY <3>1, <3>2, <3>4, <3>5
  <2>3. Agree(a, node'[q].log, k)
    BY <1>1, <1>2, <1>4, <2>1, <2>2, WritesPast
  <2> QED BY <1>2, <2>3 DEF Agree
<1> QED
  BY <1>3, <1>4

\* Every later term is still opened beyond k.
LEMMA OpensBeyond ==
  ASSUME TypeOK, TypeOK', VotesOK, LogsOK, ChoicesOK,
         NEW i \in Server, NEW m, Wrote(i, m),
         NEW l \in Server, NEW t, LeadsIn(l, t), LeadsIn(l, t)',
         NEW k \in DOMAIN node[l].log, node[l].log[k].Term = t, Choosable(l, k),
         NEW a \in AllLinks', Opens(a), a[3].Term > t
  PROVE  Beyond(l, k, a[1] - 1, a[2])
<1>1. Leader(l) /\ Leader(l)' /\ node[l].Term = t /\ node'[l].Term = t
  BY DEF LeadsIn
<1>2. PICK n, s : n = node[i] /\ s = node'[i]
  OBVIOUS
<1>3. a \in AllLinks \/ a \in Fresh(n, s)
  BY <1>2, WroteLinks
<1>4. CASE a \in AllLinks
  BY <1>1, <1>4 DEF ChoicesOK, ChosenOK
<1>5. CASE a \in Fresh(n, s)
  <2>1. s.state = "StateLeader" /\ s.log # n.log
    BY <1>5 DEF Fresh
  <2>2. PICK f : f = <<Len(n.log) + 1, lastTerm(n.log), s.log[Len(n.log) + 1]>> /\ a = f
    <3>1. PICK f : f = <<Len(n.log) + 1, lastTerm(n.log), s.log[Len(n.log) + 1]>>
      OBVIOUS
    <3>2. a = f
      BY <1>5, <2>1, <3>1, FreshIs
    <3> QED BY <3>1, <3>2
  <2>3. a[1] = Len(n.log) + 1 /\ a[2] = lastTerm(n.log) /\ a[3] = s.log[Len(n.log) + 1]
    BY <2>2
  <2>4. s.log[Len(n.log) + 1].Term = s.Term /\ Len(n.log) \in Nat
    <3>1. n.log \in Seq(Entry) /\ s.Term \in Nat
      BY <1>2, Fields DEF TypeOK
    <3>2. PICK d \in Data : s.log = Append(n.log, [Term |-> s.Term, Data |-> d])
      BY <1>2, <2>1 DEF Wrote, Served, Writes
    <3>3. PICK e \in Entry : e = [Term |-> s.Term, Data |-> d]
      BY <3>1, EntryOf
    <3>4. PICK p \in Seq(Entry) : p = n.log /\ s.log = Append(p, e)
      BY <3>1, <3>2, <3>3
    <3>5. s.log[Len(p) + 1] = e /\ Len(p) \in Nat
      BY <3>4, LenProperties
    <3> QED BY <3>3, <3>4, <3>5
  <2>5. n.state # "StateLeader"
    <3>1. n.state = "StateLeader" => lastTerm(n.log) = n.Term
      BY <1>2 DEF LogsOK, TermsOK
    <3>2. s.Term = n.Term
      BY <1>2, <2>1 DEF Wrote, Served, Writes
    <3> QED BY <2>3, <2>4, <3>1, <3>2 DEF Opens
  <2>6. Beyond(l, k, lastIndex(n.log), lastTerm(n.log))
    BY <1>1, <1>2, <2>1, <2>3, <2>4, <2>5, WritesPast
  <2>7. a[1] - 1 = lastIndex(n.log)
    BY <2>3, <2>4 DEF lastIndex
  <2> QED BY <2>3, <2>6, <2>7
<1> QED
  BY <1>3, <1>4, <1>5

\* A vote in a later term still goes to a candidate whose log goes beyond k.
LEMMA VotesBeyond ==
  ASSUME TypeOK, TypeOK', VotesOK, LogsOK, LogsOK', AcksOK, AcksOK', ChoicesOK,
         NEW i \in Server, NEW m, Wrote(i, m),
         NEW l \in Server, NEW t, LeadsIn(l, t), LeadsIn(l, t)',
         NEW k \in DOMAIN node[l].log, node[l].log[k].Term = t, Choosable(l, k),
         NEW b \in VoteBallots', node'[b[1]].Term >= b[2], b[1] \in Server, b[2] \in Nat,
         b[2] > t, Candidate(b[3], b[2])', b[3] \in Server, Acked(b[1], l, k)'
  PROVE  Beyond(l, k, lastIndex(node'[b[3]].log), lastTerm(node'[b[3]].log))
<1>1. /\ Leader(l) /\ node[l].Term = t /\ t \in Nat /\ k \in Nat /\ k >= 1
      /\ node'[b[1]].Term \in Nat
  <2>1. node[l].log \in Seq(Entry)
    BY Fields DEF TypeOK
  <2> QED BY <2>1, LenProperties, WroteGrows DEF LeadsIn
<1>2. PICK n, s : n = node[i] /\ s = node'[i] /\ s.id = i /\ Writes(n, s, m)
                  /\ n.Term \in Nat /\ s.Term \in Nat
  <2>1. node'[i].id = i
    BY DEF TypeOK, NodeOK
  <2> QED BY <2>1, WroteGrows DEF Wrote, Served
<1>3. PICK q, c, u : q = b[1] /\ c = b[3] /\ u = b[2]
  OBVIOUS
<1>4. node'[q].Term > t
  BY <1>1, <1>3
<1>5. q # l /\ Acked(q, l, k)
  <2>1. q # l
    BY <1>1, <1>4 DEF LeadsIn
  <2>2. q \in Server /\ Acked(q, l, k)'
    BY <1>3
  <2>3. Acked(q, l, k) \/ node'[q].Term = t
    BY <1>1, <2>1, <2>2, AckedBefore
  <2> QED BY <1>1, <1>3, <1>4, <2>1, <2>3
<1>6. CASE b \in VoteBallots
  <2>1. node[c].Term >= u
    BY <1>3, <1>6 DEF ChoicesOK
  <2>2. Candidate(c, u) /\ node'[c].log = node[c].log
    <3>1. CASE c = i
      <4>1. s.state = "StateCandidate" /\ s.Term = u
        BY <1>2, <1>3, <3>1 DEF Candidate
      <4>2. s.log = n.log /\ s.Term >= n.Term /\ (s.Term = n.Term => n.state = "StateCandidate")
        BY <1>2, <4>1 DEF Writes
      <4>3. n.Term = u
        BY <1>2, <2>1, <3>1, <4>1, <4>2
      <4> QED BY <1>2, <3>1, <4>1, <4>2, <4>3 DEF Candidate
    <3>2. CASE c # i
      BY <1>3, <3>2 DEF Wrote, Candidate
    <3> QED BY <3>1, <3>2
  <2>3. Beyond(l, k, lastIndex(node[c].log), lastTerm(node[c].log))
    <3>1. ChosenOK(l, k)
      BY <1>1, <1>6 DEF ChoicesOK
    <3> QED BY <1>1, <1>3, <1>5, <1>6, <2>2, <3>1 DEF ChosenOK
  <2> QED BY <1>3, <2>2, <2>3
<1>7. CASE b \notin VoteBallots
  <2>1. PICK x \in Pending' :
          Reports(s, m, x) /\ Granted(x) /\ b = <<x.From, x.Term, x.To>>
    BY <1>2, <1>7, NewBallots
  <2>2. q = x.From /\ u = x.Term /\ c = x.To
    BY <1>3, <2>1
  <2>3. /\ x.From = i /\ x.Term = s.Term
        /\ \/ s.state = "StateCandidate" /\ x.To = s.id
           \/ /\ m.Type = "MsgVote" /\ m.Term = s.Term /\ x.To = m.From
              /\ isUpToDate(s.log, m.Index, m.LogTerm)
    BY <1>2, <2>1 DEF Reports
  <2>4. /\ lastTerm(s.log) \in Nat /\ lastIndex(s.log) \in Nat
        /\ lastTerm(s.log) > t \/ (lastTerm(s.log) = t /\ lastIndex(s.log) >= k)
    <3>1. PICK g, h : g = node'[l].log /\ h = s.log /\ Agree(g, h, k)
      BY <1>2, <1>3, <2>2, <2>3, AckedHolds
    <3>2. k \in DOMAIN g /\ g[k].Term = t
      BY <3>1, LeaderKeeps DEF LeadsIn
    <3>3. h \in Seq(Entry)
      BY <1>2, <3>1, Fields DEF TypeOK
    <3>4. k \in DOMAIN h /\ h[k].Term = t
      BY <1>1, <3>1, <3>2, <3>3, LenProperties DEF Agree
    <3>5. PICK L, G : L = AllLinks' /\ G = elected' /\ LinksOK(L, G) /\ Links(h) \subseteq L
      BY <1>2, <3>1 DEF LogsOK, AllLinks
    <3> QED BY <3>1, <3>3, <3>4, <3>5, HolderIsBeyond
  <2>5. CASE x.To = s.id
    <3>1. node'[c].log = s.log
      BY <1>2, <2>2, <2>5
    <3> QED BY <1>1, <1>3, <2>4, <3>1 DEF Beyond
  <2>6. CASE /\ m.Type = "MsgVote" /\ m.Term = s.Term /\ x.To = m.From
             /\ isUpToDate(s.log, m.Index, m.LogTerm)
    <3>1. m \in Pending /\ m.To = i /\ AppendOK(m)
      BY <2>6 DEF Wrote, Told, LogsOK
    <3>2. c # i
      BY <2>2, <2>6, <3>1 DEF AppendOK, WellSent, AfterAppend
    <3>3. node'[c] = node[c] /\ c = m.From /\ u = m.Term
      BY <1>3, <2>2, <2>3, <2>6, <3>2 DEF Wrote
    <3>4. Candidate(m.From, m.Term)
      BY <1>3, <3>3 DEF Candidate
    <3>5. m.Index = lastIndex(node[c].log) /\ m.LogTerm = lastTerm(node[c].log)
      BY <2>6, <3>1, <3>3, <3>4 DEF ChoicesOK
    <3>6. m.Index \in Nat /\ m.LogTerm \in Nat
      BY <3>1, PendingMessages DEF Messages, Unsent
    <3>7. m.LogTerm > t \/ (m.LogTerm = t /\ m.Index >= k)
      BY <1>1, <2>4, <2>6, <3>6 DEF isUpToDate
    <3> QED BY <1>1, <1>3, <3>3, <3>5, <3>7 DEF Beyond
  <2> QED BY <2>3, <2>5, <2>6
<1> QED
  BY <1>6, <1>7

\* What a majority may acknowledge in a term stays chosen for as long as its
\* leader is in the term.
LEMMA ChosenKept ==
  ASSUME TypeOK, TypeOK', VotesOK, LogsOK, LogsOK', AcksOK, AcksOK', ChoicesOK,
         \A b \in VoteBallots' : node'[b[1]].Term >= b[2],
         \A b \in VoteBallots' : b[1] \in Server /\ b[2] \in Nat /\ b[3] \in Server,
         NEW i \in Server, NEW m, Wrote(i, m),
         NEW l \in Server, NEW t, LeadsIn(l, t), LeadsIn(l, t)',
         NEW k \in DOMAIN node[l].log, node[l].log[k].Term = t, Choosable(l, k)'
  PROVE  ChosenOK(l, k)'
<1>1. node[l].Term = t /\ node'[l].Term = t
  BY DEF LeadsIn
<1>2. Choosable(l, k)
  <2>1. node[l].log \in Seq(Entry)
    BY Fields DEF TypeOK
  <2>2. k \in Nat /\ k >= 1
    BY <2>1, LenProperties
  <2> QED BY <2>2, ChoosableBefore
<1>3. \A q \in Server : Acked(q, l, k)' => Agree(node'[l].log, node'[q].log, k)
  BY <1>2, AckedHolds
<1>4. \A q \in Server : lastTerm(node'[q].log) > t => Agree(node'[l].log, node'[q].log, k)
  BY <1>2, LaterHolds
<1>5. ASSUME NEW a \in AllLinks', Opens(a), a[3].Term > t
      PROVE  Beyond(l, k, a[1] - 1, a[2])'
  <2>1. Beyond(l, k, a[1] - 1, a[2])
    BY <1>2, <1>5, OpensBeyond
  <2> QED BY <1>1, <2>1 DEF Beyond
<1>6. ASSUME NEW b \in VoteBallots', b[2] > t, Candidate(b[3], b[2])', Acked(b[1], l, k)'
      PROVE  Beyond(l, k, lastIndex(node[b[3]].log), lastTerm(node[b[3]].log))'
  <2>1. Beyond(l, k, lastIndex(node'[b[3]].log), lastTerm(node'[b[3]].log))
    BY <1>2, <1>6, VotesBeyond
  <2> QED BY <1>1, <2>1 DEF Beyond
<1> QED
  BY <1>1, <1>3, <1>4, <1>5, <1>6 DEF ChosenOK

\* Nobody but its leader has acknowledged an entry that it has just appended.
LEMMA NotYetAcked ==
  ASSUME TypeOK, TypeOK', LogsOK, LogsOK', AcksOK, NEW i \in Server, NEW m, Wrote(i, m),
         Leader(i)', NEW k, k = Len(node[i].log) + 1, NEW q \in Server, q # i
  PROVE  ~ Acked(q, i, k)'
<1>1. PICK n, s : /\ n = node[i] /\ s = node'[i] /\ s.id = i /\ Writes(n, s, m) /\ TermsOK(s)
                  /\ s.Term \in Nat /\ s.state = "StateLeader" /\ s.Term = n.Term
                  /\ Len(n.log) \in Nat /\ k \in Nat /\ ~ k <= Len(n.log) /\ k > 0
  <2>1. node'[i].id = i
    BY DEF TypeOK, NodeOK
  <2>2. Len(node[i].log) \in Nat /\ node'[i].Term \in Nat
    BY WroteGrows
  <2>3. k \in Nat /\ ~ k <= Len(node[i].log) /\ k > 0
    BY <2>2
  <2>4. Writes(node[i], node'[i], m) /\ TermsOK(node'[i]) /\ node'[i].state = "StateLeader"
    BY DEF Wrote, Served, Leader
  <2>5. node'[i].Term = node[i].Term
    BY <2>4 DEF Writes
  <2> QED BY <2>1, <2>2, <2>3, <2>4, <2>5
<1>2. ASSUME NEW x \in Pending, Ack(x), x.To = i, x.Term \in {0, s.Term}, x.Index >= k
      PROVE  FALSE
  <2>1. x.Index \in Nat
    BY PendingMessages DEF Messages, Unsent
  <2>2. AckOK(x) /\ x.Index > 0
    BY <1>1, <1>2, <2>1 DEF AcksOK
  <2>3. PICK e \in elected : e = <<x.Term, x.To>>
    BY <1>2, <2>2 DEF AckOK
  <2>4. e[1] = x.Term /\ e[2] = i
    BY <1>2, <2>3
  <2>5. x.Term = s.Term /\ LeadsIn(i, x.Term)
    BY <1>1, <1>2, <2>4 DEF LogsOK
  <2>6. x.Index <= Len(n.log)
    BY <1>1, <1>2, <2>2, <2>5 DEF AckOK
  <2> QED BY <1>1, <1>2, <2>1, <2>6
<1>3. ASSUME s.prs[q].Match >= k
      PROVE  FALSE
  <2>1. q \in s.voters \ {s.id}
    BY <1>1 DEF TermsOK
  <2>2. \/ s.prs[q].Match = 0
        \/ n.state = "StateLeader" /\ s.prs[q].Match = n.prs[q].Match
        \/ Ack(m) /\ m.From = q /\ m.Term \in {0, s.Term} /\ s.prs[q].Match = m.Index
    BY <1>1, <2>1 DEF Writes, Credits
  <2>3. CASE s.prs[q].Match = 0
    BY <1>1, <1>3, <2>3
  <2>4. CASE n.state = "StateLeader" /\ s.prs[q].Match = n.prs[q].Match
    <3>1. q \in n.voters
      BY <1>1, <2>1 DEF Writes
    <3>2. n.prs[q].Match <= Len(n.log)
      BY <1>1, <2>4, <3>1 DEF LogsOK, PeersOK, PeerOK
    <3>3. n.prs[q].Match \in Nat
      BY <1>1, <3>1, Fields DEF TypeOK, ProgressOK, ProgressRecord
    <3> QED BY <1>1, <1>3, <2>4, <3>2, <3>3
  <2>5. CASE Ack(m) /\ m.From = q /\ m.Term \in {0, s.Term} /\ s.prs[q].Match = m.Index
    <3>1. m \in Pending /\ m.To = i
      BY <2>5 DEF Wrote, Told, Ack
    <3> QED BY <1>2, <1>3, <2>5, <3>1
  <2> QED BY <2>2, <2>3, <2>4, <2>5
<1>4. ASSUME NEW x \in Pending', Ack(x), x.From = q, x.To = i, x.Term = s.Term, x.Index >= k
      PROVE  FALSE
  <2>1. x \notin Pending
    BY <1>2, <1>4
  <2>2. Reports(s, m, x)
    BY <1>1, <1>4, <2>1 DEF Wrote
  <2>3. x.Index > 0
    <3>1. x \in Messages
      BY <1>4, Fields DEF TypeOK, Pending, Held, Elements
    <3>2. x.Index \in Nat
      BY <3>1 DEF Messages, Unsent
    <3> QED BY <1>1, <1>4, <3>2
  <2>4. x.From = s.id
    BY <1>4, <2>2, <2>3 DEF Reports
  <2> QED BY <1>1, <1>4, <2>4
<1> QED
  BY <1>1, <1>3, <1>4 DEF Acked

LEMMA BallotTypes ==
  ASSUME TypeOK
  PROVE  \A b \in VoteBallots : b[1] \in Server /\ b[2] \in Nat /\ b[3] \in Server
<1>1. ASSUME NEW b, b \in VoteBallots
      PROVE  \/ \E x \in Pending : b = <<x.From, x.Term, x.To>>
             \/ \E j, k \in Server : b = <<k, node[j].Term, node[j].id>>
  <2>1. \/ \E x \in Pending : b = <<x.From, x.Term, x.To>>
        \/ \E j \in Server : b \in Counted(node[j])
    BY <1>1 DEF VoteBallots, Cast, Pending
  <2> QED BY <2>1 DEF Counted
<1>2. \A x \in Pending : x.From \in Server /\ x.Term \in Nat /\ x.To \in Server
  BY PendingMessages DEF Messages, Unsent
<1>3. \A j \in Server : node[j].Term \in Nat /\ node[j].id \in Server
  BY Fields DEF TypeOK
<1>4. ASSUME NEW b \in VoteBallots
      PROVE  b[1] \in Server /\ b[2] \in Nat /\ b[3] \in Server
  <2>1. CASE \E x \in Pending : b = <<x.From, x.Term, x.To>>
    BY <1>2, <2>1
  <2>2. CASE \E j, k \in Server : b = <<k, node[j].Term, node[j].id>>
    BY <1>3, <2>2
  <2> QED BY <1>1, <1>4, <2>1, <2>2
<1> QED
  BY <1>4

LEMMA LinkTerms ==
  ASSUME TypeOK, TypeOK', LogsOK, NEW i \in Server, NEW m, Wrote(i, m)
  PROVE  \A a \in AllLinks' : a[3].Term \in Nat
<1>1. ASSUME NEW log \in Seq(Entry), NEW a \in Links(log)
      PROVE  a[3].Term \in Nat
  <2>1. PICK k \in DOMAIN log : a = <<k, term(log, k - 1), log[k]>>
    BY DEF Links
  <2>2. a[3] = log[k]
    BY <2>1
  <2>3. log[k] \in Entry
    BY ElementOfSeq
  <2> QED BY <2>2, <2>3 DEF Entry
<1>2. ASSUME NEW x \in Messages, NEW a \in Brings(x)
      PROVE  a[3].Term \in Nat
  <2>1. a = <<x.Index + 1, x.LogTerm, x.Entries[1]>> /\ x.Entries # <<>>
    BY <1>2 DEF Brings
  <2>2. a[3] = x.Entries[1]
    BY <2>1
  <2>3. x.Entries \in Seq(Entry)
    BY DEF Messages, Unsent
  <2>4. 1 \in DOMAIN x.Entries
    BY <2>1, <2>3, LenProperties
  <2>5. x.Entries[1] \in Entry
    BY <2>3, <2>4, ElementOfSeq
  <2> QED BY <2>2, <2>5 DEF Entry
<1>3. ASSUME NEW a \in AllLinks'
      PROVE  a[3].Term \in Nat
  <2>1. \/ a \in UNION {Links(node'[l].log) : l \in Server}
        \/ a \in UNION {Brings(y) : y \in Pending'}
    BY <1>3 DEF AllLinks
  <2>2. \/ \E j \in Server : a \in Links(node'[j].log)
        \/ \E x \in Pending' : a \in Brings(x)
    BY <2>1
  <2>3. \A j \in Server : node'[j].log \in Seq(Entry)
    BY Fields DEF TypeOK
  <2>4. \A x \in Pending' : x \in Messages
    BY Fields DEF TypeOK, Pending, Held, Elements
  <2>5. CASE \E j \in Server : a \in Links(node'[j].log)
    BY <1>1, <2>3, <2>5
  <2>6. CASE \E x \in Pending' : a \in Brings(x)
    BY <1>2, <2>4, <2>6
  <2> QED BY <2>2, <2>5, <2>6
<1> QED
  BY <1>3

\* Of an entry that a leader has just appended nothing can be wrong yet: if a
\* majority may still acknowledge it, nobody was elected in a later term.
LEMMA ChosenFresh ==
  ASSUME TypeOK, TypeOK', LogsOK, LogsOK', AcksOK, NEW i \in Server, NEW m, Wrote(i, m),
         \A e \in elected' : \E Q \in SUBSET Server :
           IsQuorum(Server, Q) /\ \A q \in Q : node'[q].Term >= e[1],
         \A b \in VoteBallots' : node'[b[1]].Term >= b[2],
         \A b \in VoteBallots' : b[1] \in Server /\ b[2] \in Nat /\ b[3] \in Server,
         Leader(i)', NEW k \in DOMAIN node'[i].log, k = Len(node[i].log) + 1, Choosable(i, k)'
  PROVE  ChosenOK(i, k)'
<1>1. PICK t : t = node'[i].Term /\ t \in Nat /\ t >= 2
  <2>1. node'[i].Term \in Nat
    BY WroteGrows
  <2>2. node'[i].Term >= 2
    BY DEF LogsOK, TermsOK, Leader
  <2> QED BY <2>1, <2>2
<1>2. PICK A \in SUBSET Server : IsQuorum(Server, A) /\ \A q \in A : node'[q].Term <= t
  <2>1. PICK A \in SUBSET Server :
          IsQuorum(Server, A) /\ \A q \in A : node'[q].Term <= node'[i].Term \/ Acked(q, i, k)'
    BY DEF Choosable
  <2>2. \A q \in A : q = i \/ ~ Acked(q, i, k)'
    BY NotYetAcked
  <2>3. t <= t
    BY <1>1
  <2> QED BY <1>1, <2>1, <2>2, <2>3
<1>3. ASSUME NEW x \in Nat, NEW j, <<x, j>> \in elected', x > t
      PROVE  FALSE
  <2>1. PICK e \in elected' : e = <<x, j>> /\ e[1] = x
    BY <1>3
  <2>2. PICK Q \in SUBSET Server : IsQuorum(Server, Q) /\ \A q \in Q : node'[q].Term >= x
    BY <2>1
  <2>3. PICK q \in Server : q \in A /\ q \in Q
    BY <1>2, <2>2, QuorumsShare
  <2>4. node'[q].Term \in Nat /\ node'[q].Term <= t /\ node'[q].Term >= x
    BY <1>2, <2>2, <2>3, WroteGrows
  <2> QED BY <1>1, <1>3, <2>4
<1>4. ASSUME NEW a \in AllLinks', a[3].Term \in Nat, a[3].Term > t
      PROVE  FALSE
  <2>1. PICK L, G : L = AllLinks' /\ G = elected' /\ LinksOK(L, G)
    BY DEF LogsOK
  <2>2. CASE a[3] = BootEntry
    BY <1>1, <1>4, <2>2 DEF BootEntry
  <2>3. CASE \E j \in Server : <<a[3].Term, j>> \in G
    BY <1>3, <1>4, <2>1, <2>3
  <2> QED BY <1>4, <2>1, <2>2, <2>3 DEF LinksOK
<1>5. ASSUME NEW q \in Server, Acked(q, i, k)'
      PROVE  Agree(node'[i].log, node'[q].log, k)
  <2>1. q = i
    BY <1>5, NotYetAcked
  <2>2. node'[i].log \in Seq(Entry)
    BY Fields DEF TypeOK
  <2>3. k <= Len(node'[i].log)
    BY <2>2, LenProperties
  <2> QED BY <2>1, <2>3 DEF Agree
<1>6. ASSUME NEW q \in Server, lastTerm(node'[q].log) > t
      PROVE  FALSE
  <2>1. PICK log \in Seq(Entry) : log = node'[q].log
    BY Fields DEF TypeOK
  <2>2. Len(log) \in Nat /\ DOMAIN log = 1..Len(log)
    BY LenProperties
  <2>3. Len(log) # 0
    BY <1>1, <1>6, <2>1 DEF lastTerm, lastIndex, term
  <2>4. Len(log) \in DOMAIN log /\ lastTerm(log) = log[Len(log)].Term
    BY <2>2, <2>3 DEF lastTerm, lastIndex, term
  <2>5. PICK a : a = <<Len(log), term(log, Len(log) - 1), log[Len(log)]>>
    OBVIOUS
  <2>6. a \in Links(log) /\ a[3] = log[Len(log)]
    BY <2>4, <2>5 DEF Links
  <2>7. a \in AllLinks'
    BY <2>1, <2>6 DEF AllLinks
  <2>8. a[3].Term \in Nat
    <3>1. log[Len(log)] \in Entry
      BY <2>4, ElementOfSeq
    <3> QED BY <2>6, <3>1 DEF Entry
  <2>9. a[3].Term > t
    BY <1>6, <2>1, <2>4, <2>6
  <2> QED BY <1>4, <2>7, <2>8, <2>9
<1>7. \A a \in AllLinks' : a[3].Term \in Nat
  BY LinkTerms
<1>8. ASSUME NEW b \in VoteBallots', b[2] > t, Acked(b[1], i, k)'
      PROVE  FALSE
  <2>1. b[1] = i
    BY <1>8, NotYetAcked
  <2>2. b[2] \in Nat /\ t >= b[2]
    BY <1>1, <1>8, <2>1
  <2> QED BY <1>1, <1>8, <2>2
<1> QED
  BY <1>1, <1>4, <1>5, <1>6, <1>7, <1>8 DEF ChosenOK

\* Ballots, elections and requests stay of the past.
LEMMA ElectionsKept ==
  ASSUME TypeOK, TypeOK', VotesOK, LogsOK, ChoicesOK, NEW i \in Server, NEW m, Wrote(i, m)
  PROVE  /\ \A e \in elected' : \E Q \in SUBSET Server :
              IsQuorum(Server, Q) /\ \A q \in Q : node'[q].Term >= e[1]
         /\ \A b \in VoteBallots' : node'[b[1]].Term >= b[2] /\ node'[b[3]].Term >= b[2]
         /\ \A b \in VoteBallots' : b[1] \in Server /\ b[2] \in Nat /\ b[3] \in Server
<1>1. PICK n, s : /\ n = node[i] /\ s = node'[i] /\ s.id = i /\ n.id = i /\ Writes(n, s, m)
                  /\ n.Term \in Nat /\ s.Term \in Nat
  <2>1. node'[i].id = i /\ node[i].id = i
    BY DEF TypeOK, NodeOK
  <2> QED BY <2>1, WroteGrows DEF Wrote, Served
<1>2. \A b \in VoteBallots : b[1] \in Server /\ b[2] \in Nat /\ b[3] \in Server
  BY BallotTypes
<1>3. ASSUME NEW q \in Server, NEW x \in Nat, node[q].Term >= x
      PROVE  node'[q].Term >= x
  BY <1>3, WroteGrows
<1>4. ASSUME NEW e \in elected'
      PROVE  \E Q \in SUBSET Server :
               IsQuorum(Server, Q) /\ \A q \in Q : node'[q].Term >= e[1]
  <2>1. CASE e \in elected
    <3>1. PICK Q \in SUBSET Server :
            IsQuorum(Server, Q) /\ \A q \in Q : node[q].Term >= e[1]
      BY <2>1 DEF ChoicesOK
    <3>2. e[1] \in Nat
      BY <2>1 DEF TypeOK
    <3> QED BY <1>3, <3>1, <3>2
  <2>2. CASE e \notin elected
    <3>1. s.state = "StateLeader" /\ e = <<s.Term, i>> /\ s.Term = n.Term
      BY <1>1, <1>4, <2>2 DEF Wrote, Writes
    <3>2. n.state # "StateLeader"
      BY <1>1, <2>2, <3>1 DEF VotesOK, Leader
    <3>3. Elected(n, VoteBallots) /\ Counted(n) \subseteq VoteBallots
      BY <1>1, <3>1, <3>2, BallotsAre DEF Wrote
    <3>4. PICK Q \in SUBSET Server :
            IsQuorum(Server, Q) /\ \A q \in Q : <<q, n.Term, n.id>> \in VoteBallots
      BY <3>3, ElectedByQuorum
    <3>5. ASSUME NEW q \in Q
          PROVE  node'[q].Term >= n.Term
      <4>1. PICK b \in VoteBallots : b = <<q, n.Term, n.id>> /\ b[1] = q /\ b[2] = n.Term
        BY <3>4
      <4>2. node[q].Term >= n.Term
        BY <4>1 DEF ChoicesOK
      <4> QED BY <1>1, <1>3, <4>2
    <3>6. e[1] = n.Term
      BY <3>1
    <3> QED BY <3>4, <3>5, <3>6
  <2> QED BY <2>1, <2>2
<1>5. ASSUME NEW b \in VoteBallots'
      PROVE  /\ node'[b[1]].Term >= b[2] /\ node'[b[3]].Term >= b[2]
             /\ b[1] \in Server /\ b[2] \in Nat /\ b[3] \in Server
  <2>1. CASE b \in VoteBallots
    BY <1>2, <1>3, <2>1 DEF ChoicesOK
  <2>2. CASE b \notin VoteBallots
    <3>1. PICK x \in Pending' :
            Reports(s, m, x) /\ Granted(x) /\ b = <<x.From, x.Term, x.To>>
      BY <1>1, <1>5, <2>2, NewBallots
    <3>2. b[1] = x.From /\ b[2] = x.Term /\ b[3] = x.To
      BY <3>1
    <3>3. /\ x.From = i /\ x.Term = s.Term
          /\ \/ x.To = i
             \/ m.Type = "MsgVote" /\ m.Term = s.Term /\ x.To = m.From
      BY <1>1, <3>1 DEF Reports
    <3>4. s.Term >= s.Term
      BY <1>1
    <3>5. node'[x.To].Term >= s.Term
      <4>1. CASE x.To = i
        BY <1>1, <3>4, <4>1
      <4>2. CASE m.Type = "MsgVote" /\ m.Term = s.Term /\ x.To = m.From
        <5>1. m \in Pending /\ m.From \in Server
          BY <4>2, PendingMessages DEF Wrote, Told, Messages
        <5>2. node[m.From].Term >= m.Term
          BY <4>2, <5>1 DEF ChoicesOK
        <5> QED BY <1>1, <1>3, <4>2, <5>1, <5>2
      <4> QED BY <3>3, <4>1, <4>2
    <3>6. x.To \in Server
      <4>1. x \in Messages
        BY <3>1, Fields DEF TypeOK, Pending, Held, Elements
      <4> QED BY <4>1 DEF Messages, Unsent
    <3> QED BY <1>1, <3>2, <3>3, <3>4, <3>5, <3>6
  <2> QED BY <2>1, <2>2
<1> QED
  BY <1>4, <1>5

\* The request of a candidate still tells of its log.
LEMMA RequestsKept ==
  ASSUME TypeOK, TypeOK', ChoicesOK, NEW i \in Server, NEW m, Wrote(i, m),
         NEW x \in Pending', x.Type = "MsgVote"
  PROVE  /\ node'[x.From].Term >= x.Term
         /\ Candidate(x.From, x.Term)' =>
              x.Index = lastIndex(node'[x.From].log) /\ x.LogTerm = lastTerm(node'[x.From].log)
<1>1. PICK n, s : /\ n = node[i] /\ s = node'[i] /\ s.id = i /\ Writes(n, s, m)
                  /\ n.Term \in Nat /\ s.Term \in Nat
  <2>1. node'[i].id = i
    BY DEF TypeOK, NodeOK
  <2> QED BY <2>1, WroteGrows DEF Wrote, Served
<1>2. CASE x \in Pending
  <2>1. x.From \in Server /\ x.Term \in Nat
    BY <1>2, PendingMessages DEF Messages, Unsent
  <2>2. /\ node[x.From].Term >= x.Term
        /\ Candidate(x.From, x.Term) =>
             x.Index = lastIndex(node[x.From].log) /\ x.LogTerm = lastTerm(node[x.From].log)
    BY <1>2 DEF ChoicesOK
  <2>3. node'[x.From].Term >= x.Term
    BY <2>1, <2>2, WroteGrows
  <2>4. Candidate(x.From, x.Term)' =>
          Candidate(x.From, x.Term) /\ node'[x.From].log = node[x.From].log
    <3> SUFFICES ASSUME Candidate(x.From, x.Term)'
                 PROVE  Candidate(x.From, x.Term) /\ node'[x.From].log = node[x.From].log
      OBVIOUS
    <3>1. CASE x.From = i
      <4>1. s.state = "StateCandidate" /\ s.Term = x.Term
        BY <1>1, <3>1 DEF Candidate
      <4>2. s.log = n.log /\ s.Term >= n.Term /\ (s.Term = n.Term => n.state = "StateCandidate")
        BY <1>1, <4>1 DEF Writes
      <4>3. n.Term = x.Term
        BY <1>1, <2>2, <3>1, <4>1, <4>2
      <4> QED BY <1>1, <3>1, <4>1, <4>2, <4>3 DEF Candidate
    <3>2. CASE x.From # i
      BY <2>1, <3>2 DEF Wrote, Candidate
    <3> QED BY <3>1, <3>2
  <2> QED BY <2>2, <2>3, <2>4
<1>3. CASE x \notin Pending
  <2>1. Reports(s, m, x)
    BY <1>1, <1>3 DEF Wrote
  <2>2. x.From = i /\ x.Term = s.Term /\ x.Index = lastIndex(s.log) /\ x.LogTerm = lastTerm(s.log)
    BY <1>1, <2>1 DEF Reports
  <2> QED BY <1>1, <2>2
<1> QED
  BY <1>2, <1>3

\* An entry of a leader's term that it did not have before is its last.
LEMMA JustAppended ==
  ASSUME TypeOK, TypeOK', LogsOK, ElectionSafety', NEW i \in Server, NEW m, Wrote(i, m),
         NEW l \in Server, NEW t, LeadsIn(l, t)',
         NEW k \in DOMAIN node'[l].log, node'[l].log[k].Term = t
  PROVE  \/ LeadsIn(l, t) /\ k \in DOMAIN node[l].log /\ node[l].log[k].Term = t
         \/ l = i /\ k = Len(node[i].log) + 1
<1>1. CASE l # i
  BY <1>1 DEF Wrote, LeadsIn, Leader
<1>2. CASE l = i
  <2>1. PICK n, s : /\ n = node[i] /\ s = node'[i] /\ Writes(n, s, m) /\ s.Term = t /\ n.Term = t
                    /\ s.state = "StateLeader" /\ n.log \in Seq(Entry) /\ s.log \in Seq(Entry)
                    /\ t \in Nat
    <3>1. node[i].log \in Seq(Entry) /\ node'[i].log \in Seq(Entry) /\ node'[i].Term \in Nat
      BY Fields DEF TypeOK
    <3> QED BY <1>2, <3>1 DEF Wrote, Served, Writes, LeadsIn, Leader
  <2>2. /\ Len(n.log) \in Nat /\ Len(s.log) \in Nat
        /\ DOMAIN n.log = 1..Len(n.log) /\ DOMAIN s.log = 1..Len(s.log)
    BY <2>1, LenProperties
  <2>3. CASE n.state = "StateLeader" /\ s.log = n.log
    BY <1>2, <2>1, <2>3 DEF LeadsIn, Leader
  <2>4. CASE ~ (n.state = "StateLeader" /\ s.log = n.log)
    <3>1. PICK d \in Data : s.log = Append(n.log, [Term |-> s.Term, Data |-> d])
      BY <2>1, <2>4 DEF Writes
    <3>2. PICK e \in Entry : e = [Term |-> s.Term, Data |-> d]
      BY <2>1, EntryOf
    <3>3. PICK p \in Seq(Entry) : p = n.log /\ s.log = Append(p, e)
      BY <2>1, <3>1, <3>2
    <3>4. Len(s.log) = Len(n.log) + 1 /\ \A x \in 1..Len(n.log) : s.log[x] = n.log[x]
      BY <2>1, <2>2, <3>3
    <3>5. CASE k = Len(n.log) + 1
      BY <1>2, <2>1, <3>5
    <3>6. CASE k # Len(n.log) + 1
      <4>1. k \in DOMAIN n.log /\ n.log[k].Term = t
        <5>1. k \in 1..Len(s.log) /\ s.log[k].Term = t
          BY <1>2, <2>1, <2>2
        <5>2. k \in 1..Len(n.log)
          BY <2>2, <3>4, <3>6, <5>1
        <5> QED BY <2>2, <3>4, <5>1, <5>2
      <4>2. n.state = "StateLeader"
        <5>1. SUFFICES ASSUME n.state = "StateCandidate"
                       PROVE  FALSE
          BY <2>1, <2>4 DEF Writes
        <5>2. PICK a : a = <<k, term(n.log, k - 1), n.log[k]>>
          OBVIOUS
        <5>3. a \in Links(n.log) /\ a[3] = n.log[k]
          BY <4>1, <5>2 DEF Links
        <5>4. a \in AllLinks
          BY <2>1, <5>3, LinksOf
        <5>5. <<n.Term, i>> \in elected' /\ elected \subseteq elected'
          BY <2>1 DEF Wrote
        <5>6. a[3].Term # n.Term
          BY <2>1, <5>1, <5>4, <5>5, NoLinkYet
        <5> QED BY <2>1, <4>1, <5>3, <5>6
      <4> QED BY <1>2, <2>1, <4>1, <4>2 DEF LeadsIn, Leader
    <3> QED BY <3>5, <3>6
  <2> QED BY <2>3, <2>4
<1> QED
  BY <1>1, <1>2

LEMMA ChoicesKept ==
  ASSUME TypeOK, TypeOK', VotesOK, LogsOK, LogsOK', AcksOK, AcksOK', ChoicesOK,
         ElectionSafety', NEW i \in Server, NEW m, Wrote(i, m)
  PROVE  ChoicesOK'
<1>1. /\ \A e \in elected' : \E Q \in SUBSET Server :
           IsQuorum(Server, Q) /\ \A q \in Q : node'[q].Term >= e[1]
      /\ \A b \in VoteBallots' : node'[b[1]].Term >= b[2]
      /\ \A b \in VoteBallots' : node'[b[3]].Term >= b[2]
      /\ \A b \in VoteBallots' : b[1] \in Server /\ b[2] \in Nat /\ b[3] \in Server
  BY ElectionsKept
<1>2. ASSUME NEW l \in Server, Leader(l)', NEW k \in DOMAIN node'[l].log,
             node'[l].log[k].Term = node'[l].Term, Choosable(l, k)'
      PROVE  ChosenOK(l, k)'
  <2>1. PICK t : t = node'[l].Term /\ LeadsIn(l, t)'
    BY <1>2 DEF LeadsIn
  <2>2. \/ LeadsIn(l, t) /\ k \in DOMAIN node[l].log /\ node[l].log[k].Term = t
        \/ l = i /\ k = Len(node[i].log) + 1
    BY <1>2, <2>1, JustAppended
  <2>3. CASE LeadsIn(l, t) /\ k \in DOMAIN node[l].log /\ node[l].log[k].Term = t
    BY <1>1, <1>2, <2>1, <2>3, ChosenKept
  <2>4. CASE l = i /\ k = Len(node[i].log) + 1
    BY <1>1, <1>2, <2>4, ChosenFresh
  <2> QED BY <2>2, <2>3, <2>4
<1> QED
  BY <1>1, <1>2, RequestsKept DEF ChoicesOK

\* A leader of a later term has what a majority has acknowledged.
LEMMA ChoicesComplete ==
  ASSUME TypeOK, LogsOK, ChoicesOK
  PROVE  LeaderCompleteness
<1> SUFFICES ASSUME NEW i \in Server, NEW j \in Server, Leader(i), Leader(j),
                    node[i].Term < node[j].Term,
                    NEW k \in DOMAIN node[i].log, Acknowledged(i, k)
             PROVE  Agree(node[i].log, node[j].log, k)
  BY DEF LeaderCompleteness
<1>1. node[i].voters = Server /\ lastTerm(node[j].log) = node[j].Term
  BY DEF LogsOK, TermsOK, Leader
<1>2. Choosable(i, k)
  <2>1. PICK Q : Q = {q \in node[i].voters : node[i].prs[q].Match >= k}
    OBVIOUS
  <2>2. IsQuorum(Server, Q) /\ \A q \in Q : Acked(q, i, k)
    BY <1>1, <2>1 DEF Acknowledged, Acked
  <2>3. Q \in SUBSET Server
    BY <1>1, <2>1
  <2> QED BY <2>2, <2>3 DEF Choosable
<1>3. ChosenOK(i, k)
  BY <1>2 DEF ChoicesOK, Acknowledged
<1>4. lastTerm(node[j].log) > node[i].Term
  <2>1. node[i].Term \in Nat /\ node[j].Term \in Nat
    BY Fields DEF TypeOK
  <2> QED BY <1>1, <2>1
<1> QED
  BY <1>3, <1>4 DEF ChosenOK
-----------------------------------------------------------------------------
(* Theorems *)

\* A process starts with the bootstrap entries or with nothing.
LEMMA StartedLogs ==
  ASSUME NEW i \in Server, NEW r, r = Started(i)
  PROVE  /\ TermsOK(r) /\ PeersOK(r) /\ r.state = "StateFollower" /\ Held(r) = {}
         /\ ~ r.panicked
         /\ \A a \in Links(r.log) : \E k \in 1..BootLen :
              a = <<k, IF k = 1 THEN 0 ELSE 1, BootEntry>>
<1>1. BootLen \in Nat
  BY ServerAssumption, FS_CardinalityType DEF BootLen
<1>2. CASE i \in Joiner
  <2>1. /\ r.voters = {} /\ r.log = <<>> /\ r.committed = 0 /\ r.state = "StateFollower"
        /\ r.panicked = FALSE /\ r.msgs = {} /\ r.msgsAfterAppend = <<>> /\ r.stepsOnAdvance = <<>>
    BY <1>2 DEF Started, NewNode
  <2>2. DOMAIN r.log = {} /\ Len(r.log) = 0
    BY <2>1
  <2>3. TermsOK(r) /\ PeersOK(r)
    BY <1>1, <2>1, <2>2, ServerAssumption DEF TermsOK, PeersOK
  <2>4. Held(r) = {}
    BY <2>1 DEF Held, Elements
  <2>5. Links(r.log) = {}
    BY <2>2 DEF Links
  <2> QED BY <2>1, <2>3, <2>4, <2>5
<1>3. CASE i \notin Joiner
  <2>1. PICK n : n = BootLen
    OBVIOUS
  <2>2. /\ r.voters = Server /\ r.log = [k \in 1..n |-> BootEntry] /\ r.committed = n
        /\ r.state = "StateFollower" /\ r.Term = 1
        /\ r.panicked = FALSE /\ r.msgs = {} /\ r.msgsAfterAppend = <<>> /\ r.stepsOnAdvance = <<>>
    BY <1>3, <2>1 DEF Started, Bootstrapped, NewNode, BootLen, BootEntry
  <2>3. DOMAIN r.log = 1..n /\ Len(r.log) = n /\ \A k \in 1..n : r.log[k] = BootEntry
    <3>1. PICK log : log = r.log
      OBVIOUS
    <3>2. log \in Seq({BootEntry}) /\ DOMAIN log = 1..n /\ \A k \in 1..n : log[k] = BootEntry
      BY <1>1, <2>1, <2>2, <3>1
    <3>3. Len(log) = n
      BY <1>1, <2>1, <3>2, LenProperties
    <3> QED BY <3>1, <3>2, <3>3
  <2>4. BootEntry.Term = 1
    BY DEF BootEntry
  <2>5. TermsOK(r) /\ PeersOK(r)
    BY <1>1, <2>1, <2>2, <2>3, <2>4 DEF TermsOK, PeersOK
  <2>6. Held(r) = {}
    BY <2>2 DEF Held, Elements
  <2>7. ASSUME NEW k \in 1..n
        PROVE  <<k, term(r.log, k - 1), r.log[k]>> = <<k, IF k = 1 THEN 0 ELSE 1, BootEntry>>
    <3>1. k = 1 => term(r.log, k - 1) = 0
      BY DEF term
    <3>2. k # 1 => k - 1 \in 1..n /\ k - 1 # 0
      BY <1>1, <2>1, <2>7
    <3>3. k # 1 => term(r.log, k - 1) = 1
      BY <2>3, <2>4, <3>2 DEF term
    <3> QED BY <2>3, <2>7, <3>1, <3>3
  <2>8. ASSUME NEW a \in Links(r.log)
        PROVE  \E k \in 1..BootLen : a = <<k, IF k = 1 THEN 0 ELSE 1, BootEntry>>
    <3>1. PICK k \in DOMAIN r.log : a = <<k, term(r.log, k - 1), r.log[k]>>
      BY <2>8 DEF Links
    <3>2. k \in 1..n
      BY <2>3
    <3>3. a = <<k, IF k = 1 THEN 0 ELSE 1, BootEntry>>
      BY <2>7, <3>1, <3>2
    <3> QED BY <2>1, <3>2, <3>3
  <2> QED BY <2>2, <2>5, <2>6, <2>8
<1> QED
  BY <1>2, <1>3

LEMMA InitLogs ==
  ASSUME Init
  PROVE  LogsOK /\ AcksOK /\ NoPanic
<1>1. \A i \in Server :
        /\ TermsOK(node[i]) /\ PeersOK(node[i]) /\ ~ Leader(i) /\ Held(node[i]) = {}
        /\ ~ node[i].panicked
        /\ \A a \in Links(node[i].log) : \E k \in 1..BootLen :
             a = <<k, IF k = 1 THEN 0 ELSE 1, BootEntry>>
  BY StartedLogs DEF Init, Leader
<1>2. Pending = {} /\ elected = {}
  BY <1>1 DEF Init, Pending
<1>3. \A a \in AllLinks : \E k \in 1..BootLen : a = <<k, IF k = 1 THEN 0 ELSE 1, BootEntry>>
  BY <1>1, <1>2 DEF AllLinks
<1>4. \A a \in AllLinks :
        /\ a[1] \in 1..BootLen /\ a[2] = (IF a[1] = 1 THEN 0 ELSE 1) /\ a[3] = BootEntry
        /\ a = <<a[1], a[2], a[3]>>
  BY <1>3
<1>5. BootLen \in Nat /\ BootEntry.Term = 1
  BY ServerAssumption, FS_CardinalityType DEF BootLen, BootEntry
<1>6. LinksOK(AllLinks, elected)
  BY <1>4, <1>5 DEF LinksOK, Opens
<1> QED
  BY <1>1, <1>2, <1>6 DEF LogsOK, AcksOK, NoPanic, MatchSound

\* The invariant of a cluster in which no process restarts
CoreOK == TypeOK /\ VotesOK /\ LeadsOK /\ LogsOK /\ AcksOK /\ NoPanic

LEMMA CoreInit ==
  Init => CoreOK
<1> SUFFICES ASSUME Init
             PROVE  CoreOK
  OBVIOUS
<1>1. TypeOK
  BY InitType
<1>2. LeadsOK
  BY InitLeads
<1> QED
  BY <1>1, <1>2, InitVotes, InitLogs DEF CoreOK

LEMMA CoreKept ==
  ASSUME MaxRestarts = 0, CoreOK, ElectionSafety', [Next]_vars
  PROVE  CoreOK'
<1>1. TypeOK'
  BY NextType DEF CoreOK
<1>2. CASE Next
  <2>1. VotesOK' /\ LeadsOK'
    BY <1>2, NextRefines, NextFollows DEF CoreOK
  <2>2. PICK i \in Server : \E m : Wrote(i, m)
    BY <1>2, NextWrote DEF CoreOK
  <2>3. PICK m : Wrote(i, m)
    BY <2>2
  <2>4. LogsOK'
    BY <1>1, <2>3, LogsKept DEF CoreOK
  <2>5. AcksOK'
    BY <1>1, <2>1, <2>3, <2>4, AcksKept DEF CoreOK
  <2>6. NoPanic'
    BY <2>3 DEF CoreOK, NoPanic, Wrote, Served, Writes
  <2> QED BY <1>1, <2>1, <2>4, <2>5, <2>6 DEF CoreOK
<1>3. CASE UNCHANGED vars
  <2>1. VotesOK' /\ LeadsOK' /\ NoPanic'
    BY <1>3 DEF CoreOK, vars, VotesOK, LeadsOK, NoPanic, Leader
  <2>2. LogsOK'
    BY <1>3 DEF CoreOK, vars, LogsOK, AllLinks, Pending, AppendOK, LeadsIn, Leader
  <2>3. AcksOK'
    BY <1>3 DEF CoreOK, vars, AcksOK, MatchSound, AckOK, Pending, LeadsIn, Leader
  <2> QED BY <1>1, <2>1, <2>2, <2>3 DEF CoreOK
<1> QED
  BY <1>2, <1>3

LEMMA CoreHolds ==
  ASSUME MaxRestarts = 0
  PROVE  Spec => []CoreOK
BY CoreInit, CoreKept, RaftElectsOneLeader, PTL DEF Spec

\* Without restarts two logs with the same term at an index agree up to it,
\* however appends are lost, repeated or late (maybeAppend, findConflict).
THEOREM LogsMatch ==
  ASSUME MaxRestarts = 0
  PROVE  Spec => []LogMatching
<1>1. CoreOK => LogMatching
  BY LogsMatching DEF CoreOK
<1> QED
  BY <1>1, CoreHolds, PTL

\* Without restarts no entry of the current term, nor one before it, is ever
\* taken back while the term lasts (truncateAndAppend after a conflict).
THEOREM EntriesStay ==
  ASSUME MaxRestarts = 0
  PROVE  Spec => KeepsEntriesOfTerm
<1>1. ASSUME CoreOK, CoreOK', [Next]_vars
      PROVE  [\A i \in Server :
                node'[i].Term = node[i].Term =>
                  \A k \in DOMAIN node[i].log :
                    node[i].log[k].Term = node[i].Term =>
                      Agree(node[i].log, node'[i].log, k)]_vars
  <2>1. CASE Next
    <3>1. PICK i \in Server : \E m : Wrote(i, m)
      BY <1>1, <2>1, NextWrote DEF CoreOK
    <3>2. PICK m : Wrote(i, m)
      BY <3>1
    <3> QED BY <1>1, <3>2, EntriesKept DEF CoreOK
  <2>2. CASE UNCHANGED vars
    BY <2>2
  <2> QED BY <1>1, <2>1, <2>2
<1> QED
  BY <1>1, CoreHolds, PTL DEF Spec, KeepsEntriesOfTerm

\* Without restarts a peer of a leader's term holds what the leader believes it
\* to hold (MaybeUpdate on late and repeated MsgAppResp).
THEOREM MatchIsSound ==
  ASSUME MaxRestarts = 0
  PROVE  Spec => []MatchSound
<1>1. CoreOK => MatchSound
  BY DEF CoreOK, AcksOK
<1> QED
  BY <1>1, CoreHolds, PTL

\* Without restarts a leader always knows the term before a peer's Next, and so
\* never falls silent towards it (maybeSendAppend, BecomeReplicate).
THEOREM PeersReachable ==
  ASSUME MaxRestarts = 0
  PROVE  Spec => []PeersStayReachable
<1>1. CoreOK => PeersStayReachable
  <2> SUFFICES ASSUME CoreOK, NEW i \in Server, Leader(i), NEW j \in node[i].voters
               PROVE  termKnown(node[i].log, node[i].prs[j].Next - 1)
    BY DEF PeersStayReachable
  <2>1. PICK r : r = node[i] /\ NodeOK(i, r) /\ PeersOK(r) /\ r.state = "StateLeader"
    BY DEF CoreOK, TypeOK, LogsOK, Leader
  <2>2. ProgressOK(r.prs[j]) /\ PeerOK(r, r.prs[j]) /\ Len(r.log) \in Nat
    BY <2>1, Fields, LenProperties DEF PeersOK
  <2>3. PICK q, l : q = r.prs[j].Next /\ l = Len(r.log)
    OBVIOUS
  <2>4. q \in Nat /\ q > 0 /\ q <= l + 1 /\ l \in Nat
    BY <2>2, <2>3 DEF ProgressOK, ProgressRecord, PeerOK
  <2>5. q - 1 \in 0..l
    BY <2>4
  <2> QED BY <2>1, <2>3, <2>5 DEF termKnown
<1> QED
  BY <1>1, CoreHolds, PTL

\* Without restarts no Panicf of raft, its log or its Progress is reached.
THEOREM NoPanics ==
  ASSUME MaxRestarts = 0
  PROVE  Spec => []NoPanic
<1>1. CoreOK => NoPanic
  BY DEF CoreOK
<1> QED
  BY <1>1, CoreHolds, PTL

LEMMA ChoicesInit ==
  Init => ChoicesOK
<1> SUFFICES ASSUME Init
             PROVE  ChoicesOK
  OBVIOUS
<1>1. \A j \in Server : node[j].state = "StateFollower" /\ Held(node[j]) = {}
  BY StartedLogs DEF Init
<1>2. Pending = {} /\ elected = {} /\ \A j \in Server : ~ Leader(j)
  BY <1>1 DEF Init, Pending, Leader
<1>3. VoteBallots = {}
  BY <1>1 DEF Init, VoteBallots, Cast, Counted
<1> QED
  BY <1>2, <1>3 DEF ChoicesOK

LEMMA ChoicesHold ==
  ASSUME MaxRestarts = 0
  PROVE  Spec => []ChoicesOK
<1>1. ASSUME CoreOK, CoreOK', ElectionSafety', ChoicesOK, [Next]_vars
      PROVE  ChoicesOK'
  <2>1. CASE Next
    <3>1. PICK i \in Server : \E m : Wrote(i, m)
      BY <1>1, <2>1, NextWrote DEF CoreOK
    <3>2. PICK m : Wrote(i, m)
      BY <3>1
    <3> QED BY <1>1, <3>2, ChoicesKept DEF CoreOK
  <2>2. CASE UNCHANGED vars
    BY <1>1, <2>2 DEF vars, ChoicesOK, ChosenOK, Choosable, Acked, Candidate, Beyond, AllLinks,
                      VoteBallots, Pending, Leader
  <2> QED BY <1>1, <2>1, <2>2
<1> QED
  BY <1>1, ChoicesInit, CoreHolds, RaftElectsOneLeader, PTL DEF Spec

\* Without restarts a leader of a later term has every entry that a majority
\* has acknowledged to an earlier one (isUpToDate, canVote, becomeLeader).
THEOREM LaterLeadersComplete ==
  ASSUME MaxRestarts = 0
  PROVE  Spec => []LeaderCompleteness
<1>1. CoreOK /\ ChoicesOK => LeaderCompleteness
  BY ChoicesComplete DEF CoreOK
<1> QED
  BY <1>1, CoreHolds, ChoicesHold, PTL
=============================================================================
