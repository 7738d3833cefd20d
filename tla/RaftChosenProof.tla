-------------------------- MODULE RaftChosenProof --------------------------
(***************************************************************************)
(* What a majority of the logs holds, as long as no process restarts.      *)
(***************************************************************************)
EXTENDS RaftLogProof

LEMMA LinkFields ==
  ASSUME NEW log \in Seq(Entry), NEW a \in Links(log)
  PROVE  /\ a[1] \in DOMAIN log /\ a[1] \in 1..Len(log)
         /\ a = <<a[1], term(log, a[1] - 1), log[a[1]]>>
         /\ a[2] = term(log, a[1] - 1) /\ a[3] = log[a[1]]
         /\ a[2] \in Nat /\ a[3] \in Entry /\ a[3].Term \in Nat
<1>1. PICK k \in DOMAIN log : a = <<k, term(log, k - 1), log[k]>>
  BY DEF Links
<1>2. k \in 1..Len(log) /\ Len(log) \in Nat /\ log[k] \in Entry
  BY LenProperties, ElementOfSeq
<1>3. termKnown(log, k - 1) /\ k - 1 \in Int
  BY <1>2 DEF termKnown
<1>4. term(log, k - 1) \in Nat
  BY <1>3, TermType
<1>5. log[k].Term \in Nat
  BY <1>2 DEF Entry
<1> QED
  BY <1>1, <1>2, <1>4, <1>5

LEMMA LinkTypes ==
  ASSUME TypeOK, NEW a \in AllLinks
  PROVE  a[1] \in Nat /\ a[1] >= 1 /\ a[3].Term \in Nat
<1>1. CASE \E j \in Server : a \in Links(node[j].log)
  <2>1. PICK log \in Seq(Entry) : a \in Links(log)
    BY <1>1, Fields DEF TypeOK
  <2> QED BY <2>1, LinkFields
<1>2. CASE \E x \in Pending : a \in Brings(x)
  <2>1. PICK x \in Pending : a \in Brings(x)
    BY <1>2
  <2>2. a = <<x.Index + 1, x.LogTerm, x.Entries[1]>> /\ x.Entries # <<>>
    BY <2>1 DEF Brings
  <2>3. x.Index \in Nat /\ x.Entries \in Seq(Entry)
    BY PendingMessages DEF Messages, Unsent
  <2>4. x.Entries[1] \in Entry
    BY <2>2, <2>3, LenProperties, ElementOfSeq
  <2>5. x.Entries[1].Term \in Nat
    BY <2>4 DEF Entry
  <2> QED BY <2>2, <2>3, <2>5
<1> QED
  BY <1>1, <1>2, LinkIn

\* A link stays in a log that keeps what there is as far as it.
LEMMA LinkStays ==
  ASSUME NEW log \in Seq(Entry), NEW new \in Seq(Entry), NEW a \in Links(log),
         a[1] <= Len(new), \A k \in 1..a[1] : new[k] = log[k]
  PROVE  a \in Links(new)
<1>1. PICK k \in Nat : /\ k = a[1] /\ k \in 1..Len(log) /\ k \in DOMAIN new
                       /\ a = <<k, term(log, k - 1), log[k]>>
  BY LinkFields, LenProperties
<1>2. new[k] = log[k]
  BY <1>1
<1>3. term(new, k - 1) = term(log, k - 1)
  <2>1. k = 1 \/ k - 1 \in 1..k
    BY <1>1
  <2> QED BY <1>1, <2>1 DEF term
<1> QED
  BY <1>1, <1>2, <1>3 DEF Links

\* An entry of the term of a link, at its index, is that of the link.
LEMMA SameLink ==
  ASSUME NEW L, NEW F, LinksOK(L, F), NEW log \in Seq(Entry), Links(log) \subseteq L,
         NEW a \in L, a[1] \in DOMAIN log, log[a[1]].Term = a[3].Term
  PROVE  a \in Links(log)
<1>1. PICK b : b = <<a[1], term(log, a[1] - 1), log[a[1]]>> /\ b \in Links(log)
  BY DEF Links
<1>2. a[1] = b[1] /\ a[3].Term = b[3].Term /\ b \in L
  BY <1>1
<1>3. a = b
  BY <1>2 DEF LinksOK
<1> QED
  BY <1>1, <1>3

\* A log that goes past a link has it.
LEMMA PastHas ==
  ASSUME TypeOK, LogsOK, NEW a \in AllLinks, NEW q \in Server,
         lastTerm(node[q].log) > a[3].Term => Has(q, a),
         NEW index \in Nat, index <= Len(node[q].log),
         Past(a, index, term(node[q].log, index))
  PROVE  Has(q, a) /\ a[1] <= index
<1>1. PICK log \in Seq(Entry) : log = node[q].log
  BY Fields DEF TypeOK
<1>2. PICK L, F : L = AllLinks /\ F = elected /\ LinksOK(L, F) /\ Links(log) \subseteq L
  BY <1>1, LinksOf DEF LogsOK
<1>3. PICK t \in Nat, k \in Nat : t = a[3].Term /\ k = a[1] /\ k >= 1
  BY LinkTypes
<1>4. /\ Len(log) \in Nat /\ DOMAIN log = 1..Len(log)
      /\ \A x \in DOMAIN log : log[x].Term \in Nat
  <2>1. \A x \in DOMAIN log : log[x] \in Entry
    BY ElementOfSeq
  <2> QED BY <2>1, LenProperties DEF Entry
<1>5. /\ index # 0 /\ index \in DOMAIN log
      /\ log[index].Term > t \/ (log[index].Term = t /\ index >= k)
  BY <1>1, <1>3, <1>4 DEF Past, term
<1>6. CASE log[index].Term > t
  <2>1. Len(log) \in DOMAIN log /\ index <= Len(log)
    BY <1>4, <1>5
  <2>2. log[index].Term <= log[Len(log)].Term
    BY <1>2, <1>5, <2>1, TermsAscend
  <2>3. lastTerm(log) = log[Len(log)].Term
    BY <1>4, <2>1 DEF lastTerm, lastIndex, term
  <2>4. Has(q, a)
    <3>1. PICK x \in Nat, y \in Nat : x = log[index].Term /\ y = log[Len(log)].Term
      BY <1>4, <1>5, <2>1
    <3>2. y > t
      BY <1>6, <2>2, <3>1
    <3> QED BY <1>1, <1>3, <2>3, <3>1, <3>2
  <2>5. k \in DOMAIN log /\ log[k].Term = t
    BY <1>1, <1>3, <2>4, LinkFields DEF Has
  <2>6. index <= k => log[index].Term <= log[k].Term
    BY <1>2, <1>5, <2>5, TermsAscend
  <2>7. k <= index
    BY <1>3, <1>4, <1>5, <1>6, <2>5, <2>6
  <2> QED BY <1>3, <2>4, <2>7
<1>7. CASE log[index].Term = t /\ index >= k
  <2>1. k \in DOMAIN log /\ k <= index
    BY <1>3, <1>4, <1>5, <1>7
  <2>2. log[k].Term = t
    <3> SUFFICES ASSUME log[k].Term # t
                 PROVE  FALSE
      OBVIOUS
    <3>1. term(log, k) # t /\ index > k
      BY <1>3, <1>7, <2>1 DEF term
    <3>2. OpensIn(log, t, k, index)
      BY <1>5, <1>7, <3>1, OpeningLink
    <3>3. PICK o \in Links(log) : o[1] \in (k + 1)..index /\ o[3].Term = t /\ Opens(o)
      BY <3>2 DEF OpensIn
    <3>4. o \in L /\ a \in L /\ o[3].Term = a[3].Term
      BY <1>2, <1>3, <3>3
    <3>5. o[1] <= k
      BY <1>2, <1>3, <3>3, <3>4 DEF LinksOK
    <3> QED BY <3>3, <3>5
  <2>3. a \in Links(log)
    BY <1>2, <1>3, <2>1, <2>2, SameLink
  <2> QED BY <1>1, <1>3, <2>1, <2>3 DEF Has
<1> QED
  BY <1>5, <1>6, <1>7
-----------------------------------------------------------------------------
(* Steps *)

\* The log of node s is that of n up to p and one more entry, of its term.
Rewritten(n, s, p) ==
  /\ p \in Nat /\ p >= BootLen /\ p <= Len(n.log) /\ Len(s.log) = p + 1
  /\ \A k \in 1..p : s.log[k] = n.log[k]
  /\ s.log[p + 1] \in Entry /\ s.log[p + 1].Term = s.Term

\* The entry goes behind the end if the node leads, or else where append m says.
Placed(n, s, m, p) ==
  /\ Rewritten(n, s, p)
  /\ s.state = "StateLeader" => p = Len(n.log)
  /\ s.state # "StateLeader" =>
       /\ m \in Pending /\ AppendOK(m) /\ m.Type = "MsgApp" /\ m.Term = s.Term
       /\ m.Index = p /\ m.LogTerm = term(n.log, p)
       /\ <<p + 1, m.LogTerm, s.log[p + 1]>> \in Brings(m)

LEMMA LogRewritten ==
  ASSUME TypeOK, TypeOK', LogsOK, NEW i \in Server, NEW m, Wrote(i, m),
         NEW n, n = node[i], NEW s, s = node'[i], s.log # n.log
  PROVE  \E p \in Nat : Placed(n, s, m, p)
<1>1. /\ n.log \in Seq(Entry) /\ s.log \in Seq(Entry) /\ s.Term \in Nat /\ TermsOK(n)
      /\ Len(n.log) \in Nat /\ Len(s.log) \in Nat /\ Writes(n, s, m) /\ BootLen \in Nat
  BY Fields, LenProperties, ServerAssumption, FS_CardinalityType
     DEF TypeOK, LogsOK, Wrote, Served, BootLen
<1>2. CASE s.state = "StateLeader"
  <2>1. /\ n.state \in {"StateCandidate", "StateLeader"}
        /\ \E d \in Data : s.log = Append(n.log, [Term |-> s.Term, Data |-> d])
    BY <1>1, <1>2 DEF Writes
  <2>2. PICK d \in Data : s.log = Append(n.log, [Term |-> s.Term, Data |-> d])
    BY <2>1
  <2>3. PICK e \in Entry : e = [Term |-> s.Term, Data |-> d]
    BY <1>1, EntryOf
  <2>4. PICK p \in Nat : p = Len(n.log)
    BY <1>1
  <2>5. PICK log \in Seq(Entry) : log = n.log /\ s.log = Append(log, e)
    BY <1>1, <2>2, <2>3
  <2>6. Len(s.log) = p + 1 /\ s.log[p + 1] = e /\ \A k \in 1..p : s.log[k] = n.log[k]
    BY <2>4, <2>5
  <2>7. p >= BootLen
    BY <1>1, <2>1, <2>4 DEF TermsOK
  <2>8. Rewritten(n, s, p)
    BY <1>1, <2>3, <2>4, <2>6, <2>7 DEF Rewritten
  <2> QED BY <1>2, <2>4, <2>8 DEF Placed
<1>3. CASE s.state # "StateLeader"
  <2>1. /\ m.Type = "MsgApp" /\ m.Term = s.Term /\ matchTerm(n.log, m.Index, m.LogTerm)
        /\ s.log = appended(n.log, m.Index, m.Entries)
    BY <1>1, <1>3 DEF Writes
  <2>2. m \in Pending /\ m \in Messages /\ AppendOK(m) /\ AppendShort(m)
    BY <2>1, PendingMessages DEF Wrote, Told, LogsOK, AppendOK
  <2>3. /\ m.Index \in Nat /\ m.Entries \in Seq(Entry) /\ m.Index <= Len(n.log)
        /\ term(n.log, m.Index) = m.LogTerm /\ Len(m.Entries) <= 1
    BY <2>1, <2>2 DEF Messages, Unsent, matchTerm, termKnown, AppendShort
  <2>4. /\ m.Entries # <<>> /\ Len(s.log) = m.Index + 1 /\ s.log[m.Index + 1] = m.Entries[1]
        /\ \A x \in 1..m.Index : s.log[x] = n.log[x]
    <3>1. n.log \in Seq(Entry) /\ s.log # n.log
      BY <1>1
    <3> QED BY <2>1, <2>3, <3>1, AppendedOne
  <2>5. m.Entries[1].Term = m.Term /\ m.Index >= BootLen
    BY <2>1, <2>2, <2>4 DEF AppendShort
  <2>6. m.Entries[1] \in Entry
    BY <2>3, <2>4, LenProperties, ElementOfSeq
  <2>7. PICK p \in Nat : p = m.Index
    BY <2>3
  <2>8. Rewritten(n, s, p)
    BY <2>1, <2>3, <2>4, <2>5, <2>6, <2>7 DEF Rewritten
  <2>9. <<p + 1, m.LogTerm, s.log[p + 1]>> \in Brings(m)
    BY <2>1, <2>4, <2>7 DEF Brings
  <2> QED BY <1>3, <2>1, <2>2, <2>3, <2>7, <2>8, <2>9 DEF Placed
<1> QED
  BY <1>2, <1>3

\* A link before the new entry is in both logs, or in neither.
LEMMA RewrittenLinks ==
  ASSUME NEW n, n.log \in Seq(Entry), NEW s, s.log \in Seq(Entry), NEW p \in Nat,
         Rewritten(n, s, p), NEW a
  PROVE  /\ a \in Links(s.log) => a[1] <= p + 1 /\ (a[1] <= p => a \in Links(n.log))
         /\ a \in Links(s.log) /\ a[1] > p => a[3].Term = s.Term /\ a[1] = p + 1
         /\ a \in Links(n.log) /\ a[1] <= p => a \in Links(s.log)
<1>1. PICK x, y : /\ x = n.log /\ y = s.log /\ x \in Seq(Entry) /\ y \in Seq(Entry)
                  /\ Len(x) \in Nat /\ Len(y) = p + 1 /\ p <= Len(x)
                  /\ \A k \in 1..p : y[k] = x[k]
                  /\ y[p + 1].Term = s.Term
  BY LenProperties DEF Rewritten
<1>2. ASSUME a \in Links(y)
      PROVE  /\ a[1] <= p + 1 /\ (a[1] <= p => a \in Links(x))
             /\ a[1] > p => a[3].Term = s.Term /\ a[1] = p + 1
  <2>1. PICK k \in 1..Len(y) : k = a[1] /\ a[3] = y[k]
    BY <1>1, <1>2, LinkFields
  <2>2. k <= p => a \in Links(x)
    <3> SUFFICES ASSUME k <= p
                 PROVE  a \in Links(x)
      OBVIOUS
    <3>1. k <= Len(x) /\ \A j \in 1..k : x[j] = y[j]
      BY <1>1, <2>1
    <3> QED BY <1>1, <1>2, <2>1, <3>1, LinkStays
  <2> QED BY <1>1, <2>1, <2>2
<1>3. ASSUME a \in Links(x), a[1] <= p
      PROVE  a \in Links(y)
  <2>1. PICK k \in 1..Len(x) : k = a[1]
    BY <1>1, <1>3, LinkFields
  <2>2. k <= Len(y) /\ \A j \in 1..k : y[j] = x[j]
    BY <1>1, <1>3, <2>1
  <2> QED BY <1>1, <1>3, <2>1, <2>2, LinkStays
<1> QED
  BY <1>1, <1>2, <1>3

\* What a log has of earlier terms it had before.
LEMMA HadBefore ==
  ASSUME TypeOK, TypeOK', LogsOK, NEW i \in Server, NEW m, Wrote(i, m),
         NEW q \in Server, NEW a, a \in Links(node'[q].log), a[3].Term # node'[q].Term
  PROVE  Has(q, a)
<1>1. CASE node'[q].log = node[q].log
  BY <1>1 DEF Has
<1>2. CASE node'[q].log # node[q].log
  <2>1. PICK n, s : n = node[i] /\ s = node'[i] /\ q = i /\ s.log # n.log
    BY <1>2 DEF Wrote
  <2>2. PICK p \in Nat : Rewritten(n, s, p)
    BY <2>1, LogRewritten DEF Placed
  <2>3. n.log \in Seq(Entry) /\ s.log \in Seq(Entry) /\ a \in Links(s.log)
    BY <2>1, Fields DEF TypeOK
  <2>4. a[1] \in Nat
    BY <2>3, LinkFields, LenProperties
  <2>5. a[1] <= p
    BY <2>1, <2>2, <2>3, <2>4, RewrittenLinks
  <2> QED BY <2>1, <2>2, <2>3, <2>5, RewrittenLinks DEF Has
<1> QED
  BY <1>1, <1>2

LEMMA ChoiceBefore ==
  ASSUME TypeOK, TypeOK', LogsOK, NEW i \in Server, NEW m, Wrote(i, m),
         NEW a, a[3].Term \in Nat, Choice(a)'
  PROVE  Choice(a)
<1>1. PICK Q \in SUBSET Server :
        IsQuorum(Server, Q) /\ \A q \in Q : node'[q].Term <= a[3].Term \/ a \in Links(node'[q].log)
  BY DEF Choice, Has
<1>2. ASSUME NEW q \in Q
      PROVE  node[q].Term <= a[3].Term \/ Has(q, a)
  <2>1. /\ node[q].Term \in Nat /\ node'[q].Term \in Nat /\ node'[q].Term >= node[q].Term
    BY WroteGrows
  <2>2. CASE node'[q].Term <= a[3].Term
    BY <2>1, <2>2
  <2>3. CASE node'[q].Term > a[3].Term
    BY <1>1, <2>1, <2>3, HadBefore
  <2> QED BY <2>1, <2>2, <2>3
<1> QED
  BY <1>1, <1>2 DEF Choice

\* The log of a candidate with the ballots of a majority goes past what may have
\* been chosen in an earlier term.
LEMMA VotedPast ==
  ASSUME TypeOK, ChoicesOK, NEW a \in AllLinks, Choice(a), Settled(a),
         NEW i \in Server, node[i].state = "StateCandidate", node[i].Term > a[3].Term,
         Elected(node[i], VoteBallots)
  PROVE  Past(a, lastIndex(node[i].log), lastTerm(node[i].log))
<1>1. PICK r : r = node[i] /\ r.id = i /\ Counted(r) \subseteq VoteBallots
  <2>1. node[i].id = i
    BY DEF TypeOK, NodeOK
  <2> QED BY <2>1, BallotsAre
<1>2. PICK Q \in SUBSET Server :
        IsQuorum(Server, Q) /\ \A q \in Q : <<q, r.Term, r.id>> \in VoteBallots
  BY <1>1, ElectedByQuorum
<1>3. PICK A \in SUBSET Server :
        IsQuorum(Server, A) /\ \A q \in A : node[q].Term <= a[3].Term \/ Has(q, a)
  BY DEF Choice
<1>4. PICK q \in Server : q \in A /\ q \in Q
  BY <1>2, <1>3, QuorumsShare
<1>5. PICK b : b = <<q, r.Term, i>> /\ b \in VoteBallots /\ b[1] = q /\ b[2] = r.Term /\ b[3] = i
  <2>1. PICK b : b = <<q, r.Term, i>>
    OBVIOUS
  <2> QED BY <1>1, <1>2, <1>4, <2>1
<1>6. node[q].Term >= r.Term
  BY <1>5 DEF ChoicesOK
<1>7. Has(q, a)
  <2>1. node[q].Term \in Nat /\ r.Term \in Nat /\ a[3].Term \in Nat
    BY <1>1, LinkTypes, Fields DEF TypeOK
  <2> QED BY <1>1, <1>3, <1>4, <1>6, <2>1
<1>8. Candidate(i, r.Term)
  BY <1>1 DEF Candidate
<1> QED
  BY <1>1, <1>5, <1>7, <1>8 DEF Settled

\* A log that is written in a later term has what may have been chosen.
LEMMA WrittenPast ==
  ASSUME TypeOK, TypeOK', LogsOK, ChoicesOK, NEW i \in Server, NEW m, Wrote(i, m),
         NEW a \in AllLinks, Choice(a), Settled(a),
         node'[i].log # node[i].log, node'[i].Term > a[3].Term
  PROVE  /\ a \in Links(node'[i].log)
         /\ node'[i].state = "StateLeader" /\ node[i].state # "StateLeader" =>
              Past(a, lastIndex(node[i].log), lastTerm(node[i].log))
<1>1. PICK n, s : n = node[i] /\ s = node'[i]
  OBVIOUS
<1>2. /\ n.log \in Seq(Entry) /\ s.log \in Seq(Entry) /\ s.Term > a[3].Term /\ s.log # n.log
      /\ Len(n.log) \in Nat /\ TermsOK(n) /\ Writes(n, s, m)
  BY <1>1, Fields, LenProperties DEF TypeOK, LogsOK, Wrote, Served
<1>3. PICK p \in Nat : Placed(n, s, m, p) /\ Rewritten(n, s, p)
  BY <1>1, <1>2, LogRewritten DEF Placed
<1>4. /\ p <= Len(n.log) /\ s.log[p + 1].Term = s.Term
      /\ a[1] \in Nat /\ a[3].Term \in Nat
  BY <1>3, LinkTypes DEF Rewritten
<1>5. lastTerm(n.log) > a[3].Term => Has(i, a)
  BY <1>1 DEF Settled
<1>6. CASE s.state = "StateLeader"
  <2>1. s.Term = n.Term /\ n.state \in {"StateCandidate", "StateLeader"}
    BY <1>2, <1>6 DEF Writes
  <2>2. n.state = "StateCandidate" => Past(a, lastIndex(n.log), lastTerm(n.log))
    <3> SUFFICES ASSUME n.state = "StateCandidate"
                 PROVE  Past(a, lastIndex(n.log), lastTerm(n.log))
      OBVIOUS
    <3>1. Elected(node[i], VoteBallots)
      BY <1>1, <1>6 DEF Wrote
    <3> QED BY <1>1, <1>2, <2>1, <3>1, VotedPast
  <2>3. Past(a, p, term(n.log, p))
    <3>1. lastIndex(n.log) = p /\ lastTerm(n.log) = term(n.log, p)
      BY <1>3, <1>6 DEF Placed, lastIndex, lastTerm
    <3>2. n.state = "StateLeader" => lastTerm(n.log) = n.Term
      BY <1>2 DEF TermsOK
    <3> QED BY <1>2, <2>1, <2>2, <3>1, <3>2 DEF Past
  <2>4. Has(i, a) /\ a[1] <= p
    BY <1>1, <1>4, <1>5, <2>3, PastHas
  <2>5. a \in Links(s.log)
    BY <1>1, <1>2, <1>3, <2>4, RewrittenLinks DEF Has
  <2> QED BY <1>1, <2>1, <2>2, <2>5
<1>7. CASE s.state # "StateLeader"
  <2>1. PICK o : o = <<p + 1, m.LogTerm, s.log[p + 1]>> /\ o \in AllLinks
    BY <1>3, <1>7, LinksOf DEF Placed
  <2>2. o[1] - 1 = p /\ o[2] = term(n.log, p) /\ o[3].Term = s.Term
    BY <1>3, <1>4, <1>7, <2>1 DEF Placed
  <2>3. Past(a, p, term(n.log, p))
    <3>1. CASE Opens(o)
      BY <1>2, <2>1, <2>2, <3>1 DEF Settled
    <3>2. CASE ~ Opens(o)
      BY <1>2, <2>2, <3>2 DEF Opens, Past
    <3> QED BY <3>1, <3>2
  <2>4. Has(i, a) /\ a[1] <= p
    BY <1>1, <1>4, <1>5, <2>3, PastHas
  <2>5. a \in Links(s.log)
    BY <1>1, <1>2, <1>3, <2>4, RewrittenLinks DEF Has
  <2> QED BY <1>1, <1>7, <2>5
<1> QED
  BY <1>6, <1>7

LEMMA SettledHas ==
  ASSUME NEW a, Settled(a), NEW q \in Server, lastTerm(node[q].log) > a[3].Term
  PROVE  Has(q, a)
BY DEF Settled

LEMMA LastTermIn ==
  ASSUME NEW r, r.log \in Seq(Entry), TermsOK(r), r.Term \in Nat, NEW t \in Nat,
         lastTerm(r.log) > t
  PROVE  /\ r.Term > t
         /\ \E a \in Links(r.log) : a[3].Term = lastTerm(r.log)
<1>1. PICK log \in Seq(Entry), k \in Nat :
        log = r.log /\ k = Len(log) /\ DOMAIN log = 1..k
  BY LenProperties
<1>2. k # 0
  BY <1>1 DEF lastTerm, lastIndex, term
<1>3. k \in DOMAIN log /\ lastTerm(log) = log[k].Term
  BY <1>1, <1>2 DEF lastTerm, lastIndex, term
<1>4. log[k].Term \in 1..r.Term
  BY <1>1, <1>3 DEF TermsOK
<1>5. PICK a : a = <<k, term(log, k - 1), log[k]>>
  OBVIOUS
<1>6. a \in Links(log) /\ a[3] = log[k]
  BY <1>3, <1>5 DEF Links
<1> QED
  BY <1>1, <1>3, <1>4, <1>6

\* Every log with an entry of a later term still has the link.
LEMMA LaterHas ==
  ASSUME TypeOK, TypeOK', LogsOK, LogsOK', ChoicesOK, NEW i \in Server, NEW m, Wrote(i, m),
         NEW a \in AllLinks, Choice(a), Settled(a),
         NEW q \in Server, lastTerm(node'[q].log) > a[3].Term
  PROVE  a \in Links(node'[q].log)
<1>1. CASE node'[q].log = node[q].log
  BY <1>1 DEF Settled, Has
<1>2. CASE node'[q].log # node[q].log
  <2>1. q = i
    BY <1>2 DEF Wrote
  <2>2. PICK s : s = node'[q] /\ s.log \in Seq(Entry) /\ TermsOK(s) /\ s.Term \in Nat
    BY Fields DEF TypeOK, LogsOK
  <2>3. s.Term > a[3].Term
    BY <2>2, LinkTypes, LastTermIn
  <2> QED BY <1>2, <2>1, <2>2, <2>3, WrittenPast
<1> QED
  BY <1>1, <1>2

\* Every later term is still opened past the link.
LEMMA OpensPast ==
  ASSUME TypeOK, TypeOK', LogsOK, ChoicesOK, NEW i \in Server, NEW m, Wrote(i, m),
         NEW a \in AllLinks, Choice(a), Settled(a),
         NEW o \in AllLinks', Opens(o), o[3].Term > a[3].Term
  PROVE  Past(a, o[1] - 1, o[2])
<1>1. PICK n, s : n = node[i] /\ s = node'[i]
  OBVIOUS
<1>2. o \in AllLinks \/ o \in Fresh(n, s)
  BY <1>1, WroteLinks
<1>3. CASE o \in AllLinks
  BY <1>3 DEF Settled
<1>4. CASE o \in Fresh(n, s)
  <2>1. s.state = "StateLeader" /\ s.log # n.log
    BY <1>4 DEF Fresh
  <2>2. PICK f : f = <<Len(n.log) + 1, lastTerm(n.log), s.log[Len(n.log) + 1]>> /\ o = f
    <3>1. PICK f : f = <<Len(n.log) + 1, lastTerm(n.log), s.log[Len(n.log) + 1]>>
      OBVIOUS
    <3>2. o = f
      BY <1>4, <2>1, <3>1, FreshIs
    <3> QED BY <3>1, <3>2
  <2>3. o[1] = Len(n.log) + 1 /\ o[2] = lastTerm(n.log) /\ o[3] = s.log[Len(n.log) + 1]
    BY <2>2
  <2>4. s.log[Len(n.log) + 1].Term = s.Term /\ Len(n.log) \in Nat
    <3>1. PICK p \in Nat : Placed(n, s, m, p)
      BY <1>1, <2>1, LogRewritten
    <3> QED BY <2>1, <3>1 DEF Placed, Rewritten
  <2>5. n.state # "StateLeader"
    <3>1. n.state = "StateLeader" => lastTerm(n.log) = n.Term
      BY <1>1 DEF LogsOK, TermsOK
    <3>2. s.Term = n.Term
      BY <1>1, <2>1 DEF Wrote, Served, Writes
    <3> QED BY <2>3, <2>4, <3>1, <3>2 DEF Opens
  <2>6. Past(a, lastIndex(n.log), lastTerm(n.log))
    BY <1>1, <2>1, <2>3, <2>4, <2>5, WrittenPast
  <2>7. o[1] - 1 = lastIndex(n.log)
    BY <2>3, <2>4 DEF lastIndex
  <2> QED BY <2>3, <2>6, <2>7
<1> QED
  BY <1>2, <1>3, <1>4

\* Who has the link still votes only for a candidate whose log goes past it.
LEMMA VotesPast ==
  ASSUME TypeOK, TypeOK', LogsOK, LogsOK', ChoicesOK, NEW i \in Server, NEW m, Wrote(i, m),
         NEW a \in AllLinks, Choice(a), Settled(a),
         NEW b \in VoteBallots', node'[b[1]].Term >= b[2],
         b[1] \in Server, b[2] \in Nat, b[3] \in Server,
         b[2] > a[3].Term, Candidate(b[3], b[2])', a \in Links(node'[b[1]].log)
  PROVE  Past(a, lastIndex(node'[b[3]].log), lastTerm(node'[b[3]].log))
<1>1. a[1] \in Nat /\ a[3].Term \in Nat /\ node'[b[1]].Term \in Nat
  BY LinkTypes, WroteGrows
<1>2. PICK n, s : n = node[i] /\ s = node'[i] /\ s.id = i /\ Writes(n, s, m)
                  /\ n.Term \in Nat /\ s.Term \in Nat
  <2>1. node'[i].id = i
    BY DEF TypeOK, NodeOK
  <2> QED BY <2>1, WroteGrows DEF Wrote, Served
<1>3. PICK q, c, u : /\ q = b[1] /\ c = b[3] /\ u = b[2]
                     /\ node'[c].state = "StateCandidate" /\ node'[c].Term = u
  <2>1. node'[b[3]].state = "StateCandidate" /\ node'[b[3]].Term = b[2]
    BY DEF Candidate
  <2> QED BY <2>1
<1>4. CASE b \in VoteBallots
  <2>1. node[c].Term >= u
    BY <1>3, <1>4 DEF ChoicesOK
  <2>2. Candidate(c, u) /\ node'[c].log = node[c].log
    <3>1. CASE c = i
      <4>1. s.state = "StateCandidate" /\ s.Term = u
        BY <1>2, <1>3, <3>1
      <4>2. s.log = n.log /\ s.Term >= n.Term /\ (s.Term = n.Term => n.state = "StateCandidate")
        BY <1>2, <4>1 DEF Writes
      <4>3. n.Term = u
        BY <1>2, <2>1, <3>1, <4>1, <4>2
      <4> QED BY <1>2, <3>1, <4>1, <4>2, <4>3 DEF Candidate
    <3>2. CASE c # i
      BY <1>3, <3>2 DEF Wrote, Candidate
    <3> QED BY <3>1, <3>2
  <2>3. Has(q, a)
    BY <1>1, <1>3, HadBefore
  <2>4. Past(a, lastIndex(node[c].log), lastTerm(node[c].log))
    BY <1>3, <1>4, <2>2, <2>3 DEF Settled
  <2> QED BY <1>3, <2>2, <2>4
<1>5. CASE b \notin VoteBallots
  <2>1. PICK x \in Pending' :
          Reports(s, m, x) /\ Granted(x) /\ b = <<x.From, x.Term, x.To>>
    BY <1>2, <1>5, NewBallots
  <2>2. q = x.From /\ u = x.Term /\ c = x.To
    BY <1>3, <2>1
  <2>3. /\ x.From = i /\ x.Term = s.Term
        /\ \/ s.state = "StateCandidate" /\ x.To = s.id
           \/ /\ m.Type = "MsgVote" /\ m.Term = s.Term /\ x.To = m.From
              /\ isUpToDate(s.log, m.Index, m.LogTerm)
    BY <1>2, <2>1 DEF Reports
  <2>4. /\ lastTerm(s.log) \in Nat /\ lastIndex(s.log) \in Nat
        /\ Past(a, lastIndex(s.log), lastTerm(s.log))
    <3>1. PICK h \in Seq(Entry) : h = s.log /\ a \in Links(h)
      BY <1>2, <1>3, <2>2, <2>3, Fields DEF TypeOK
    <3>2. a[1] \in DOMAIN h /\ h[a[1]].Term = a[3].Term
      BY <3>1, LinkFields
    <3>3. PICK L, G : L = AllLinks' /\ G = elected' /\ LinksOK(L, G) /\ Links(h) \subseteq L
      BY <1>2, <3>1 DEF LogsOK, AllLinks
    <3> QED BY <3>1, <3>2, <3>3, HolderIsBeyond DEF Past
  <2>5. CASE x.To = s.id
    <3>1. node'[c].log = s.log
      BY <1>2, <2>2, <2>5
    <3> QED BY <1>3, <2>4, <3>1
  <2>6. CASE /\ m.Type = "MsgVote" /\ m.Term = s.Term /\ x.To = m.From
             /\ isUpToDate(s.log, m.Index, m.LogTerm)
    <3>1. m \in Pending /\ m.To = i /\ AppendOK(m)
      BY <2>6 DEF Wrote, Told, LogsOK
    <3>2. c # i
      BY <2>2, <2>6, <3>1 DEF AppendOK, WellSent, AfterAppend
    <3>3. node'[c] = node[c] /\ c = m.From /\ u = m.Term
      BY <1>3, <2>2, <2>3, <2>6, <3>2 DEF Wrote
    <3>4. Candidate(m.From, m.Term)
      BY <1>3, <3>3 DEF Candidate
    <3>5. m.Index = lastIndex(node[c].log) /\ m.LogTerm = lastTerm(node[c].log)
      BY <2>6, <3>1, <3>3, <3>4 DEF ChoicesOK
    <3>6. m.Index \in Nat /\ m.LogTerm \in Nat
      BY <3>1, PendingMessages DEF Messages, Unsent
    <3>7. Past(a, m.Index, m.LogTerm)
      BY <1>1, <2>4, <2>6, <3>6 DEF isUpToDate, Past
    <3> QED BY <1>3, <3>3, <3>5, <3>7
  <2> QED BY <2>3, <2>5, <2>6
<1> QED
  BY <1>4, <1>5

\* Of an entry that a leader has just appended nothing can be wrong yet: if a
\* majority may still come to have it, nobody was elected in a later term.
LEMMA FreshSettled ==
  ASSUME TypeOK, TypeOK', LogsOK, LogsOK', NEW i \in Server, NEW m, Wrote(i, m),
         \A e \in elected' : \E Q \in SUBSET Server :
           IsQuorum(Server, Q) /\ \A q \in Q : node'[q].Term >= e[1],
         \A b \in VoteBallots' :
           node'[b[1]].Term >= b[2] /\ b[1] \in Server /\ b[2] \in Nat /\ b[3] \in Server,
         NEW a \in AllLinks', a \notin AllLinks, Choice(a)'
  PROVE  Settled(a)'
<1>1. PICK n, s : n = node[i] /\ s = node'[i]
  OBVIOUS
<1>2. \A q \in Server : node'[q].Term \in Nat
  BY WroteGrows
<1>3. PICK t \in Nat : t = a[3].Term
  BY LinkTerms
<1>4. t = s.Term /\ t >= 2
  <2>1. a \in Fresh(n, s)
    BY <1>1, WroteLinks
  <2>2. s.state = "StateLeader" /\ s.log # n.log
    BY <2>1 DEF Fresh
  <2>3. PICK f : f = <<Len(n.log) + 1, lastTerm(n.log), s.log[Len(n.log) + 1]>>
    OBVIOUS
  <2>4. a = f
    BY <2>1, <2>2, <2>3, FreshIs
  <2>5. a[3] = s.log[Len(n.log) + 1]
    BY <2>3, <2>4
  <2>6. PICK p \in Nat : Placed(n, s, m, p)
    BY <1>1, <2>2, LogRewritten
  <2>7. s.log[Len(n.log) + 1].Term = s.Term
    BY <2>2, <2>6 DEF Placed, Rewritten
  <2>8. s.Term >= 2
    BY <1>1, <2>2 DEF LogsOK, TermsOK
  <2> QED BY <1>3, <2>5, <2>7, <2>8
<1>5. ASSUME NEW q \in Server, a \in Links(node'[q].log)
      PROVE  q = i
  <2>1. q # i => node'[q] = node[q]
    BY DEF Wrote
  <2> QED BY <1>5, <2>1, LinksOf
<1>6. PICK A \in SUBSET Server : IsQuorum(Server, A) /\ \A q \in A : node'[q].Term <= t
  <2>1. PICK A \in SUBSET Server :
          IsQuorum(Server, A) /\ \A q \in A : node'[q].Term <= a[3].Term \/ a \in Links(node'[q].log)
    BY DEF Choice, Has
  <2>2. \A q \in A : node'[q].Term <= t
    BY <1>1, <1>2, <1>3, <1>4, <1>5, <2>1
  <2> QED BY <2>1, <2>2
<1>7. ASSUME NEW x \in Nat, NEW j, <<x, j>> \in elected', x > t
      PROVE  FALSE
  <2>1. PICK e \in elected' : e = <<x, j>> /\ e[1] = x
    BY <1>7
  <2>2. PICK Q \in SUBSET Server : IsQuorum(Server, Q) /\ \A q \in Q : node'[q].Term >= x
    BY <2>1
  <2>3. PICK q \in Server : q \in A /\ q \in Q
    BY <1>6, <2>2, QuorumsShare
  <2>4. node'[q].Term \in Nat /\ node'[q].Term <= t /\ node'[q].Term >= x
    BY <1>2, <1>6, <2>2, <2>3
  <2> QED BY <1>7, <2>4
<1>8. ASSUME NEW o \in AllLinks', o[3].Term > t
      PROVE  FALSE
  <2>1. PICK L, G : L = AllLinks' /\ G = elected' /\ LinksOK(L, G)
    BY DEF LogsOK
  <2>2. o[3].Term \in Nat
    BY LinkTerms
  <2>3. CASE o[3] = BootEntry
    BY <1>4, <1>8, <2>3 DEF BootEntry
  <2>4. CASE \E j \in Server : <<o[3].Term, j>> \in G
    BY <1>7, <1>8, <2>1, <2>2, <2>4
  <2> QED BY <1>8, <2>1, <2>3, <2>4 DEF LinksOK
<1>9. ASSUME NEW q \in Server, lastTerm(node'[q].log) > t
      PROVE  FALSE
  <2>1. PICK r : r = node'[q] /\ r.log \in Seq(Entry) /\ TermsOK(r) /\ r.Term \in Nat
    BY Fields DEF TypeOK, LogsOK
  <2>2. PICK o \in Links(r.log) : o[3].Term = lastTerm(r.log)
    BY <1>9, <2>1, LastTermIn
  <2>3. o \in AllLinks'
    BY <2>1, <2>2 DEF AllLinks
  <2> QED BY <1>8, <1>9, <2>1, <2>2, <2>3
<1>10. ASSUME NEW b \in VoteBallots', b[2] > t, a \in Links(node'[b[1]].log)
       PROVE  FALSE
  <2>1. b[1] = i /\ node'[b[1]].Term >= b[2] /\ b[2] \in Nat
    BY <1>5, <1>10
  <2> QED BY <1>1, <1>4, <1>10, <2>1
<1> QED
  BY <1>3, <1>8, <1>9, <1>10 DEF Settled, Has

LEMMA SettledKept ==
  ASSUME TypeOK, TypeOK', VotesOK, LogsOK, LogsOK', ChoicesOK, SettledOK,
         NEW i \in Server, NEW m, Wrote(i, m)
  PROVE  SettledOK'
<1> SUFFICES ASSUME NEW a \in AllLinks', a[1] > BootLen, Choice(a)'
             PROVE  Settled(a)'
  BY DEF SettledOK
<1>1. /\ \A e \in elected' : \E Q \in SUBSET Server :
           IsQuorum(Server, Q) /\ \A q \in Q : node'[q].Term >= e[1]
      /\ \A b \in VoteBallots' :
           node'[b[1]].Term >= b[2] /\ b[1] \in Server /\ b[2] \in Nat /\ b[3] \in Server
  BY ElectionsKept
<1>2. CASE a \in AllLinks
  <2>1. Choice(a) /\ Settled(a)
    BY <1>2, LinkTypes, ChoiceBefore DEF SettledOK
  <2>2. \A q \in Server : lastTerm(node'[q].log) > a[3].Term => a \in Links(node'[q].log)
    BY <1>2, <2>1, LaterHas
  <2>3. \A o \in AllLinks' : Opens(o) /\ o[3].Term > a[3].Term => Past(a, o[1] - 1, o[2])
    BY <1>2, <2>1, OpensPast
  <2>4. \A b \in VoteBallots' :
          b[2] > a[3].Term /\ Candidate(b[3], b[2])' /\ a \in Links(node'[b[1]].log) =>
            Past(a, lastIndex(node'[b[3]].log), lastTerm(node'[b[3]].log))
    BY <1>1, <1>2, <2>1, VotesPast
  <2> QED BY <2>2, <2>3, <2>4 DEF Settled, Has
<1>3. CASE a \notin AllLinks
  BY <1>1, <1>3, FreshSettled
<1> QED
  BY <1>2, <1>3
-----------------------------------------------------------------------------
(* Majorities *)

LEMMA QuorumGrows ==
  ASSUME NEW A, IsQuorum(Server, A), NEW B \in SUBSET Server, A \subseteq B
  PROVE  IsQuorum(Server, B)
<1>1. IsFiniteSet(Server) /\ IsFiniteSet(B)
  BY ServerAssumption, FS_Subset
<1>2. /\ Cardinality(A) \in Nat /\ Cardinality(B) \in Nat /\ Cardinality(Server) \in Nat
      /\ Cardinality(A) <= Cardinality(B)
  BY <1>1, FS_Subset, FS_CardinalityType
<1>3. PICK h \in Int : h = Cardinality(Server) \div 2 + 1
  BY <1>2
<1>4. Cardinality(B) >= h
  BY <1>2, <1>3 DEF IsQuorum
<1> QED
  BY <1>3, <1>4 DEF IsQuorum

LEMMA ChosenHeld ==
  ASSUME NEW logs, NEW k, NEW e, Chosen(logs, k, e)
  PROVE  \E q \in Server : HasEntry(logs[q], k, e)
<1>1. PICK A : A = {q \in Server : HasEntry(logs[q], k, e)} /\ IsQuorum(Server, A)
  BY DEF Chosen
<1>2. PICK q \in Server : q \in A /\ q \in A
  BY <1>1, QuorumsShare
<1> QED
  BY <1>1, <1>2

LEMMA OneChosen ==
  ASSUME NEW logs, NEW k, NEW e, Chosen(logs, k, e), NEW f, Chosen(logs, k, f)
  PROVE  e = f
<1>1. PICK A, B : /\ A = {q \in Server : HasEntry(logs[q], k, e)} /\ IsQuorum(Server, A)
                  /\ B = {q \in Server : HasEntry(logs[q], k, f)} /\ IsQuorum(Server, B)
  BY DEF Chosen
<1>2. PICK q \in Server : q \in A /\ q \in B
  BY <1>1, QuorumsShare
<1> QED
  BY <1>1, <1>2 DEF HasEntry

LEMMA MajorityIs ==
  ASSUME NEW logs, NEW M, M = MajorityOf(logs)
  PROVE  /\ M = [k \in DOMAIN M |-> M[k]]
         /\ \A k \in DOMAIN M : Chosen(logs, k, M[k])
         /\ \A k, e : Chosen(logs, k, e) => k \in DOMAIN M /\ M[k] = e
<1>1. /\ M = [k \in DOMAIN M |-> M[k]]
      /\ DOMAIN M = {k \in UNION {DOMAIN logs[q] : q \in Server} :
                       \E e \in EntriesAt(logs, k) : Chosen(logs, k, e)}
      /\ \A k \in DOMAIN M : M[k] = CHOOSE e \in EntriesAt(logs, k) : Chosen(logs, k, e)
  BY DEF MajorityOf
<1>2. \A k \in DOMAIN M : Chosen(logs, k, M[k])
  BY <1>1
<1>3. ASSUME NEW k, NEW e, Chosen(logs, k, e)
      PROVE  k \in DOMAIN M /\ M[k] = e
  <2>1. PICK q \in Server : k \in DOMAIN logs[q] /\ logs[q][k] = e
    BY <1>3, ChosenHeld DEF HasEntry
  <2>2. e \in EntriesAt(logs, k) /\ k \in UNION {DOMAIN logs[p] : p \in Server}
    BY <2>1 DEF EntriesAt
  <2>3. k \in DOMAIN M
    BY <1>1, <1>3, <2>2
  <2> QED BY <1>2, <1>3, <2>3, OneChosen
<1> QED
  BY <1>1, <1>2, <1>3

\* Logs that match, and what they are made of
Matching(logs) ==
  /\ \A q \in Server : logs[q] \in Seq(Entry)
  /\ \A q, r \in Server : \A k \in DOMAIN logs[q] \cap DOMAIN logs[r] :
       logs[q][k].Term = logs[r][k].Term => Agree(logs[q], logs[r], k)

\* What is before a chosen entry is chosen.
LEMMA ChosenBelow ==
  ASSUME NEW logs, Matching(logs), NEW M, M = MajorityOf(logs), NEW k \in DOMAIN M
  PROVE  /\ k \in Nat /\ k >= 1 /\ M[k] \in Entry
         /\ \A j \in 1..k : j \in DOMAIN M
         /\ \A q \in Server : HasEntry(logs[q], k, M[k]) =>
              \A j \in 1..k : j \in DOMAIN logs[q] /\ M[j] = logs[q][j]
<1>1. Chosen(logs, k, M[k])
  BY MajorityIs
<1>2. PICK q \in Server : HasEntry(logs[q], k, M[k])
  BY <1>1, ChosenHeld
<1>3. k \in Nat /\ k >= 1 /\ M[k] \in Entry
  BY <1>2, LenProperties, ElementOfSeq DEF HasEntry, Matching
<1>4. ASSUME NEW p \in Server, HasEntry(logs[p], k, M[k]), NEW j \in 1..k
      PROVE  j \in DOMAIN logs[p] /\ j \in DOMAIN M /\ M[j] = logs[p][j]
  <2>1. PICK a \in Seq(Entry) : a = logs[p] /\ k \in DOMAIN a /\ a[k] = M[k]
    BY <1>4 DEF HasEntry, Matching
  <2>2. j \in DOMAIN a
    BY <1>3, <2>1, LenProperties
  <2>3. ASSUME NEW r \in Server, HasEntry(logs[r], k, M[k])
        PROVE  HasEntry(logs[r], j, a[j])
    <3>1. PICK b \in Seq(Entry) : b = logs[r] /\ k \in DOMAIN b /\ b[k] = M[k]
      BY <2>3 DEF HasEntry, Matching
    <3>2. Agree(a, b, k)
      BY <2>1, <3>1 DEF Matching
    <3>3. b[j] = a[j] /\ j \in DOMAIN b
      BY <1>3, <3>1, <3>2, LenProperties DEF Agree
    <3> QED BY <3>1, <3>3 DEF HasEntry
  <2>4. PICK A, B : /\ A = {r \in Server : HasEntry(logs[r], k, M[k])}
                    /\ B = {r \in Server : HasEntry(logs[r], j, a[j])}
    OBVIOUS
  <2>5. IsQuorum(Server, A) /\ A \subseteq B /\ B \in SUBSET Server
    BY <1>1, <2>3, <2>4 DEF Chosen
  <2>6. Chosen(logs, j, a[j])
    BY <2>4, <2>5, QuorumGrows DEF Chosen
  <2>7. j \in DOMAIN M /\ M[j] = a[j]
    BY <2>6, MajorityIs
  <2> QED BY <2>1, <2>2, <2>7
<1> QED
  BY <1>2, <1>3, <1>4

LEMMA LogsAre ==
  /\ \A q \in Server : Logs[q] = node[q].log
  /\ \A q \in Server : Logs'[q] = node'[q].log
BY DEF Logs

LEMMA LogsAreMatching ==
  ASSUME TypeOK, LogsOK
  PROVE  Matching(Logs)
<1>1. \A q \in Server : node[q].log \in Seq(Entry)
  BY Fields DEF TypeOK
<1>2. LogMatching
  BY LogsMatching
<1> QED
  BY <1>1, <1>2, LogsAre DEF Matching, LogMatching

\* The link of a chosen entry may be chosen, and who holds the entry has the link.
LEMMA ChosenLink ==
  ASSUME TypeOK, LogsOK, NEW k, NEW e, Chosen(Logs, k, e),
         NEW q \in Server, HasEntry(node[q].log, k, e)
  PROVE  \E a \in AllLinks : a[1] = k /\ a[3] = e /\ Has(q, a) /\ Choice(a)
<1>1. PICK log \in Seq(Entry) : log = node[q].log /\ k \in DOMAIN log /\ log[k] = e
  BY Fields DEF TypeOK, HasEntry
<1>2. PICK a : a = <<k, term(log, k - 1), log[k]>> /\ a \in Links(log)
  BY <1>1 DEF Links
<1>3. PICK L, F : L = AllLinks /\ F = elected /\ LinksOK(L, F) /\ a \in L
  BY <1>1, <1>2, LinksOf DEF LogsOK
<1>4. a[1] = k /\ a[3] = e
  BY <1>1, <1>2
<1>5. ASSUME NEW r \in Server, HasEntry(node[r].log, k, e)
      PROVE  Has(r, a)
  <2>1. PICK b \in Seq(Entry) : b = node[r].log /\ k \in DOMAIN b /\ b[k] = e
    BY <1>5, Fields DEF TypeOK, HasEntry
  <2>2. Links(b) \subseteq L
    BY <1>3, <2>1, LinksOf
  <2>3. a \in Links(b)
    BY <1>3, <1>4, <2>1, <2>2, SameLink
  <2> QED BY <2>1, <2>3 DEF Has
<1>6. Choice(a)
  <2>1. PICK A : A = {r \in Server : HasEntry(Logs[r], k, e)} /\ IsQuorum(Server, A)
    BY DEF Chosen
  <2>2. \A r \in A : Has(r, a)
    BY <1>5, <2>1, LogsAre
  <2> QED BY <2>1, <2>2 DEF Choice
<1> QED
  BY <1>1, <1>2, <1>3, <1>4, <1>6 DEF Has

\* What is chosen is not taken back.
LEMMA EntryStays ==
  ASSUME TypeOK, TypeOK', VotesOK, LogsOK, ChoicesOK, SettledOK, NEW i \in Server, NEW m, Wrote(i, m),
         NEW k, NEW e, Chosen(Logs, k, e), NEW q \in Server, HasEntry(node[q].log, k, e)
  PROVE  HasEntry(node'[q].log, k, e)
<1>1. CASE node'[q].log = node[q].log
  BY <1>1
<1>2. CASE node'[q].log # node[q].log
  <2>1. PICK n, s : n = node[i] /\ s = node'[i] /\ q = i /\ s.log # n.log
    BY <1>2 DEF Wrote
  <2>2. /\ n.log \in Seq(Entry) /\ s.log \in Seq(Entry) /\ k \in DOMAIN n.log /\ n.log[k] = e
        /\ k \in Nat /\ k >= 1 /\ BootLen \in Nat /\ Len(n.log) \in Nat /\ Len(s.log) \in Nat
        /\ n.Term \in Nat /\ s.Term \in Nat /\ s.Term >= n.Term /\ TermsOK(n)
        /\ DOMAIN s.log = 1..Len(s.log)
    <3>1. n.log \in Seq(Entry) /\ s.log \in Seq(Entry) /\ k \in DOMAIN n.log /\ n.log[k] = e
      BY <2>1, Fields DEF TypeOK, HasEntry
    <3>2. s.Term >= n.Term /\ n.Term \in Nat /\ s.Term \in Nat
      BY <2>1, WroteGrows
    <3>3. BootLen \in Nat
      BY ServerAssumption, FS_CardinalityType DEF BootLen
    <3> QED BY <2>1, <3>1, <3>2, <3>3, LenProperties DEF LogsOK
  <2>3. CASE k <= BootLen
    <3>1. PICK p \in Nat : Rewritten(n, s, p)
      BY <2>1, LogRewritten DEF Placed
    <3>2. k \in DOMAIN s.log /\ s.log[k] = n.log[k]
      BY <2>2, <2>3, <3>1 DEF Rewritten
    <3> QED BY <2>1, <2>2, <3>2 DEF HasEntry
  <2>4. CASE k > BootLen
    <3>1. PICK a \in AllLinks : a[1] = k /\ a[3] = e /\ Has(q, a) /\ Choice(a)
      BY ChosenLink
    <3>2. Settled(a)
      BY <2>4, <3>1 DEF SettledOK
    <3>3. e.Term \in 1..n.Term
      BY <2>2 DEF TermsOK
    <3>4. CASE s.Term > e.Term
      <4>1. a \in Links(s.log)
        BY <2>1, <3>1, <3>2, <3>4, WrittenPast
      <4> QED BY <2>1, <2>2, <3>1, <4>1, LinkFields DEF HasEntry
    <3>5. CASE ~ s.Term > e.Term
      <4>1. s.Term = n.Term /\ n.log[k].Term = n.Term
        BY <2>2, <3>3, <3>5
      <4>2. Agree(node[q].log, node'[q].log, k)
        BY <2>1, <2>2, <4>1, EntriesKept
      <4>3. Agree(n.log, s.log, k)
        BY <2>1, <4>2
      <4>4. k \in DOMAIN s.log /\ s.log[k] = n.log[k]
        BY <2>2, <4>3 DEF Agree
      <4> QED BY <2>1, <2>2, <4>4 DEF HasEntry
    <3> QED BY <3>4, <3>5
  <2> QED BY <2>2, <2>3, <2>4
<1> QED
  BY <1>1, <1>2

LEMMA ChosenStays ==
  ASSUME TypeOK, TypeOK', VotesOK, LogsOK, ChoicesOK, SettledOK, NEW i \in Server, NEW m, Wrote(i, m),
         NEW k, NEW e, Chosen(Logs, k, e)
  PROVE  Chosen(Logs', k, e)
<1>1. PICK A, B : /\ A = {q \in Server : HasEntry(Logs[q], k, e)}
                  /\ B = {q \in Server : HasEntry(Logs'[q], k, e)}
  OBVIOUS
<1>2. IsQuorum(Server, A) /\ B \in SUBSET Server
  BY <1>1 DEF Chosen
<1>3. A \subseteq B
  BY <1>1, EntryStays, LogsAre
<1> QED
  BY <1>1, <1>2, <1>3, QuorumGrows DEF Chosen

\* What is newly chosen is what the step has added to a log.
LEMMA NewlyChosen ==
  ASSUME TypeOK, TypeOK', LogsOK, NEW i \in Server, NEW m, Wrote(i, m),
         NEW k, NEW e, Chosen(Logs', k, e), ~ Chosen(Logs, k, e)
  PROVE  k = Len(node'[i].log) /\ HasEntry(node'[i].log, k, e)
<1>1. PICK A, B : /\ A = {q \in Server : HasEntry(Logs[q], k, e)} /\ A \in SUBSET Server
                  /\ B = {q \in Server : HasEntry(Logs'[q], k, e)} /\ IsQuorum(Server, B)
  BY DEF Chosen
<1>2. ~ B \subseteq A
  BY <1>1, QuorumGrows DEF Chosen
<1>3. PICK q \in Server : HasEntry(node'[q].log, k, e) /\ ~ HasEntry(node[q].log, k, e)
  BY <1>1, <1>2, LogsAre
<1>4. PICK n, s : n = node[i] /\ s = node'[i] /\ q = i /\ s.log # n.log
  BY <1>3 DEF Wrote
<1>5. PICK p \in Nat : Rewritten(n, s, p)
  BY <1>4, LogRewritten DEF Placed
<1>6. /\ k \in 1..Len(s.log) /\ Len(s.log) = p + 1 /\ p <= Len(n.log) /\ Len(n.log) \in Nat
      /\ DOMAIN n.log = 1..Len(n.log) /\ s.log[k] = e
  <2>1. s.log \in Seq(Entry) /\ n.log \in Seq(Entry)
    BY <1>4, Fields DEF TypeOK
  <2> QED BY <1>3, <1>4, <1>5, <2>1, LenProperties DEF HasEntry, Rewritten
<1>7. k <= p => k \in DOMAIN n.log /\ n.log[k] = e
  BY <1>5, <1>6 DEF Rewritten
<1>8. k = p + 1
  BY <1>3, <1>4, <1>6, <1>7 DEF HasEntry
<1> QED
  BY <1>3, <1>4, <1>6, <1>8

LEMMA ChosenTerms ==
  ASSUME NEW L, NEW F, LinksOK(L, F), NEW logs, Matching(logs),
         NEW i \in Server, Links(logs[i]) \subseteq L,
         NEW M, M = MajorityOf(logs), NEW k \in DOMAIN M, HasEntry(logs[i], k, M[k])
  PROVE  \A j \in 1..k : M[j].Term <= M[k].Term
<1>1. PICK log \in Seq(Entry) : log = logs[i]
  BY DEF Matching
<1>2. k \in Nat /\ k >= 1 /\ \A j \in 1..k : j \in DOMAIN log /\ M[j] = log[j]
  BY <1>1, ChosenBelow
<1>3. ASSUME NEW j \in 1..k
      PROVE  M[j].Term <= M[k].Term
  <2>1. k \in 1..k /\ j <= k
    BY <1>2
  <2>2. j \in DOMAIN log /\ k \in DOMAIN log /\ M[j] = log[j] /\ M[k] = log[k]
    BY <1>2, <2>1
  <2>3. log[j].Term <= log[k].Term
    BY <1>1, <2>1, <2>2, TermsAscend
  <2> QED BY <2>2, <2>3
<1> QED
  BY <1>3

\* A step chooses nothing, or the entry that follows.
LEMMA StepChooses ==
  ASSUME TypeOK, TypeOK', VotesOK, LogsOK, LogsOK', ChoicesOK, SettledOK, Matching(Logs'),
         NEW i \in Server, NEW m, Wrote(i, m)
  PROVE  MajorityOf(Logs') = MajorityOf(Logs) \/ OneLog!Choose
<1>1. PICK L, K, M, N, n : /\ L = Logs /\ K = Logs' /\ M = MajorityOf(L) /\ N = MajorityOf(K)
                           /\ n = Len(node'[i].log)
  OBVIOUS
<1>2. Matching(L) /\ Matching(K)
  BY <1>1, LogsAreMatching
<1>3. M = [k \in DOMAIN M |-> M[k]] /\ N = [k \in DOMAIN N |-> N[k]]
  BY <1>1, MajorityIs
<1>4. \A k \in DOMAIN M : k \in DOMAIN N /\ N[k] = M[k]
  <2> SUFFICES ASSUME NEW k \in DOMAIN M
               PROVE  k \in DOMAIN N /\ N[k] = M[k]
    OBVIOUS
  <2>1. Chosen(L, k, M[k])
    BY <1>1, MajorityIs
  <2>2. Chosen(K, k, M[k])
    BY <1>1, <2>1, ChosenStays
  <2> QED BY <1>1, <2>2, MajorityIs
<1>5. \A k \in DOMAIN N : k \in DOMAIN M \/ (k = n /\ HasEntry(node'[i].log, k, N[k]))
  <2> SUFFICES ASSUME NEW k \in DOMAIN N, k \notin DOMAIN M
               PROVE  k = n /\ HasEntry(node'[i].log, k, N[k])
    OBVIOUS
  <2>1. Chosen(K, k, N[k])
    BY <1>1, MajorityIs
  <2>2. ~ Chosen(L, k, N[k])
    BY <1>1, MajorityIs
  <2> QED BY <1>1, <2>1, <2>2, NewlyChosen
<1>6. CASE n \notin DOMAIN N \/ n \in DOMAIN M
  <2>1. DOMAIN N = DOMAIN M
    BY <1>4, <1>5, <1>6
  <2>2. N = M
    BY <1>3, <1>4, <2>1
  <2> QED BY <1>1, <2>2
<1>7. CASE n \in DOMAIN N /\ n \notin DOMAIN M
  <2>1. /\ \A k \in DOMAIN M : k \in Nat /\ k >= 1 /\ \A j \in 1..k : j \in DOMAIN M
        /\ \A k \in DOMAIN N : k \in Nat /\ k >= 1 /\ N[k] \in Entry /\ \A j \in 1..k : j \in DOMAIN N
    BY <1>1, <1>2, ChosenBelow
  <2>2. n \in Nat /\ n >= 1
    BY <1>7, <2>1
  <2>3. DOMAIN M = 1..(n - 1)
    <3>1. ASSUME NEW k \in DOMAIN M
          PROVE  k \in 1..(n - 1)
      <4>1. k \in Nat /\ k >= 1 /\ n \notin 1..k
        BY <1>7, <2>1
      <4> QED BY <2>2, <4>1
    <3>2. ASSUME NEW k \in 1..(n - 1)
          PROVE  k \in DOMAIN M
      <4>1. k \in 1..n /\ k # n
        BY <2>2
      <4>2. k \in DOMAIN N
        BY <1>7, <2>1, <4>1
      <4> QED BY <1>5, <4>1, <4>2
    <3> QED BY <3>1, <3>2
  <2>4. DOMAIN N = 1..n
    <3>1. \A k \in DOMAIN N : k \in 1..n
      BY <1>5, <2>2, <2>3
    <3>2. \A k \in 1..n : k \in DOMAIN N
      BY <1>7, <2>1
    <3> QED BY <3>1, <3>2
  <2>5. \A j \in 1..(n - 1) : N[j] = M[j]
    BY <1>4, <2>3
  <2>6. N[n] \in Entry
    BY <1>7, <2>1
  <2>7. HasEntry(K[i], n, N[n])
    BY <1>1, <1>5, <1>7, LogsAre
  <2>8. PICK A, F : A = AllLinks' /\ F = elected' /\ LinksOK(A, F) /\ Links(K[i]) \subseteq A
    <3>1. Links(node'[i].log) \subseteq AllLinks'
      BY DEF AllLinks
    <3> QED BY <1>1, <3>1, LogsAre DEF LogsOK
  <2>9. \A j \in 1..n : N[j].Term <= N[n].Term
    BY <1>1, <1>2, <1>7, <2>7, <2>8, ChosenTerms
  <2>10. \A j \in 1..(n - 1) : N[j].Term <= N[n].Term
    BY <2>2, <2>9
  <2>11. OneLog!Choose
    BY <1>1, <1>7, <2>3, <2>4, <2>5, <2>6, <2>10 DEF OneLog!Choose
  <2> QED BY <2>11
<1> QED
  BY <1>6, <1>7

LEMMA StartedLog ==
  ASSUME NEW i \in Server
  PROVE  \/ Started(i).log = <<>>
         \/ Started(i).log = [k \in 1..BootLen |-> BootEntry]
BY DEF Started, Bootstrapped, NewNode, BootLen, BootEntry

\* At the start a majority has what Bootstrap gives, or nothing.
LEMMA FirstChosen ==
  ASSUME Init
  PROVE  OneLog!Init
<1>1. PICK L, M, B : L = Logs /\ M = MajorityOf(L) /\ B = [k \in 1..BootLen |-> BootEntry]
  OBVIOUS
<1>2. \A q \in Server : L[q] = <<>> \/ L[q] = B
  <2>1. \A q \in Server : node[q] = Started(q)
    BY DEF Init
  <2> QED BY <1>1, <2>1, StartedLog, LogsAre
<1>3. M = [k \in DOMAIN M |-> M[k]]
  BY <1>1, MajorityIs
<1>4. ASSUME NEW k \in DOMAIN M
      PROVE  /\ k \in 1..BootLen /\ M[k] = BootEntry
             /\ \A j \in 1..BootLen : j \in DOMAIN M
  <2>1. Chosen(L, k, M[k])
    BY <1>1, MajorityIs
  <2>2. PICK q \in Server : HasEntry(L[q], k, M[k])
    BY <2>1, ChosenHeld
  <2>3. \A p \in Server : \A e : HasEntry(L[p], k, e) => L[p] = B
    <3>1. DOMAIN <<>> = {}
      OBVIOUS
    <3> QED BY <1>2, <3>1 DEF HasEntry
  <2>4. k \in 1..BootLen /\ M[k] = BootEntry
    BY <1>1, <2>2, <2>3 DEF HasEntry
  <2>5. ASSUME NEW j \in 1..BootLen
        PROVE  j \in DOMAIN M
    <3>1. PICK A : A = {p \in Server : HasEntry(L[p], k, M[k])} /\ IsQuorum(Server, A)
      BY <2>1 DEF Chosen
    <3>2. PICK C \in SUBSET Server : C = {p \in Server : HasEntry(L[p], j, BootEntry)}
      OBVIOUS
    <3>3. HasEntry(B, j, BootEntry)
      BY <1>1 DEF HasEntry
    <3>4. A \subseteq C
      BY <2>3, <3>1, <3>2, <3>3
    <3>5. Chosen(L, j, BootEntry)
      BY <3>1, <3>2, <3>4, QuorumGrows DEF Chosen
    <3> QED BY <1>1, <3>5, MajorityIs
  <2> QED BY <2>4, <2>5
<1>5. CASE DOMAIN M = {}
  <2>1. M = [k \in 1..0 |-> BootEntry]
    BY <1>3, <1>5
  <2> QED BY <1>1, <2>1 DEF OneLog!Init
<1>6. CASE DOMAIN M # {}
  <2>1. DOMAIN M = 1..BootLen
    BY <1>4, <1>6
  <2>2. M = [k \in 1..BootLen |-> BootEntry]
    BY <1>3, <1>4, <2>1
  <2> QED BY <1>1, <2>2 DEF OneLog!Init
<1> QED
  BY <1>5, <1>6

LEMMA SettledInit ==
  Init => SettledOK
<1> SUFFICES ASSUME Init
             PROVE  SettledOK
  OBVIOUS
<1>1. LinksOK(AllLinks, elected) /\ elected = {}
  BY InitLogs DEF Init, LogsOK
<1>2. \A a \in AllLinks : a[1] <= BootLen
  BY <1>1 DEF LinksOK
<1>3. BootLen \in Nat /\ \A a \in AllLinks : a[1] \in Nat
  BY InitType, LinkTypes, ServerAssumption, FS_CardinalityType DEF BootLen
<1> QED
  BY <1>2, <1>3 DEF SettledOK

\* A leader has what a majority has from the terms up to its own.
LEMMA LeadersHold ==
  ASSUME TypeOK, LogsOK, SettledOK
  PROVE  LeadersHoldChosen
<1> SUFFICES ASSUME NEW i \in Server, Leader(i), NEW M, M = MajorityOf(Logs),
                    NEW k \in DOMAIN M, M[k].Term <= node[i].Term
             PROVE  HasEntry(node[i].log, k, M[k])
  BY DEF LeadersHoldChosen
<1>1. Matching(Logs) /\ Chosen(Logs, k, M[k])
  BY LogsAreMatching, MajorityIs
<1>2. k \in Nat /\ k >= 1 /\ BootLen \in Nat
  BY <1>1, ChosenBelow, ServerAssumption, FS_CardinalityType DEF BootLen
<1>3. PICK q \in Server : HasEntry(node[q].log, k, M[k])
  BY <1>1, ChosenHeld, LogsAre
<1>4. PICK a \in AllLinks : a[1] = k /\ a[3] = M[k] /\ Has(q, a) /\ Choice(a)
  BY <1>1, <1>3, ChosenLink
<1>5. PICK log \in Seq(Entry), t \in Nat :
        log = node[i].log /\ t = node[i].Term /\ lastTerm(log) = t /\ Len(log) >= BootLen
  <2>1. TermsOK(node[i]) /\ node[i].state = "StateLeader"
    BY DEF LogsOK, Leader
  <2> QED BY <2>1, Fields DEF TypeOK, TermsOK
<1>6. Len(log) \in Nat /\ DOMAIN log = 1..Len(log) /\ a[3].Term \in Nat
  BY LenProperties, LinkTypes
<1>7. CASE k <= BootLen
  <2>1. k \in DOMAIN log
    BY <1>2, <1>5, <1>6, <1>7
  <2>2. PICK b : b = <<k, term(log, k - 1), log[k]>> /\ b \in AllLinks
    <3>1. PICK b : b = <<k, term(log, k - 1), log[k]>>
      OBVIOUS
    <3>2. b \in Links(log)
      BY <2>1, <3>1 DEF Links
    <3> QED BY <1>5, <3>1, <3>2, LinksOf
  <2>3. \A c \in AllLinks : c[1] = k => c[3] = BootEntry
    BY <1>2, <1>7 DEF LogsOK, LinksOK
  <2>4. b[1] = k /\ b[3] = log[k]
    BY <2>2
  <2>5. log[k] = M[k]
    BY <1>4, <2>2, <2>3, <2>4
  <2> QED BY <1>5, <2>1, <2>5 DEF HasEntry
<1>8. CASE k > BootLen
  <2>1. Settled(a)
    <3>1. a[1] > BootLen
      BY <1>4, <1>8
    <3> QED BY <1>4, <3>1 DEF SettledOK
  <2>2. lastTerm(log) > a[3].Term => Has(i, a)
    <3>1. lastTerm(node[i].log) > a[3].Term => Has(i, a)
      BY <2>1, SettledHas
    <3> QED BY <1>5, <3>1
  <2>3. PICK x \in Nat : x = Len(log)
    BY <1>6
  <2>4. Past(a, x, term(log, x))
    <3>1. term(log, x) = t
      BY <1>5, <2>3 DEF lastTerm, lastIndex
    <3>2. CASE a[3].Term = t
      <4>1. a[1] <= Len(log)
        BY <1>5, <3>2 DEF LogsOK
      <4> QED BY <1>2, <1>4, <1>6, <2>3, <3>1, <3>2, <4>1 DEF Past
    <3>3. CASE a[3].Term # t
      BY <1>4, <1>5, <1>6, <3>1, <3>3 DEF Past
    <3> QED BY <3>2, <3>3
  <2>5. Has(i, a)
    BY <1>5, <2>2, <2>3, <2>4, PastHas
  <2>6. a[1] \in DOMAIN log /\ a[3] = log[a[1]]
    BY <1>5, <2>5, LinkFields DEF Has
  <2> QED BY <1>4, <1>5, <2>6 DEF HasEntry
<1> QED
  BY <1>2, <1>7, <1>8
-----------------------------------------------------------------------------
(* Theorems *)

LEMMA SettledHolds ==
  ASSUME MaxRestarts = 0
  PROVE  Spec => []SettledOK
<1>1. ASSUME CoreOK, CoreOK', ChoicesOK, SettledOK, [Next]_vars
      PROVE  SettledOK'
  <2>1. CASE Next
    <3>1. PICK i \in Server : \E m : Wrote(i, m)
      BY <1>1, <2>1, NextWrote DEF CoreOK
    <3>2. PICK m : Wrote(i, m)
      BY <3>1
    <3> QED BY <1>1, <3>2, SettledKept DEF CoreOK
  <2>2. CASE UNCHANGED vars
    BY <1>1, <2>2 DEF vars, SettledOK, Settled, Choice, Has, Candidate, AllLinks,
                      VoteBallots, Pending
  <2> QED BY <1>1, <2>1, <2>2
<1> QED
  BY <1>1, SettledInit, CoreHolds, ChoicesHold, PTL DEF Spec

\* Without restarts what a majority holds is one log, which only grows at its end
\* and by one entry at a time, whatever leaders come and go and however appends
\* get lost, repeated or late (maybeAppend, isUpToDate, canVote, becomeLeader).
THEOREM RaftKeepsChosen ==
  ASSUME MaxRestarts = 0
  PROVE  Spec => RefinesChosenLog
<1>1. Init => OneLog!Init
  BY FirstChosen
<1>2. CoreOK => Matching(Logs)
  BY LogsAreMatching DEF CoreOK
<1>3. ASSUME CoreOK, CoreOK', Matching(Logs)', ChoicesOK, SettledOK, [Next]_vars
      PROVE  [OneLog!Choose]_(MajorityOf(Logs))
  <2>1. CASE Next
    <3>1. PICK i \in Server : \E m : Wrote(i, m)
      BY <1>3, <2>1, NextWrote DEF CoreOK
    <3>2. PICK m : Wrote(i, m)
      BY <3>1
    <3>3. Matching(Logs')
      BY <1>3
    <3>4. MajorityOf(Logs') = MajorityOf(Logs) \/ OneLog!Choose
      BY <1>3, <3>2, <3>3, StepChooses DEF CoreOK
    <3> QED BY <3>4
  <2>2. CASE UNCHANGED vars
    <3>1. Logs' = Logs
      BY <2>2 DEF vars, Logs
    <3> QED BY <3>1
  <2> QED BY <1>3, <2>1, <2>2
<1> QED
  BY <1>1, <1>2, <1>3, CoreHolds, ChoicesHold, SettledHolds, PTL
     DEF Spec, RefinesChosenLog, OneLog!Spec

\* Without restarts no step takes from what a majority holds, and one that changes
\* a log adds to it the next entry or nothing (truncateAndAppend, becomeLeader).
THEOREM MajorityKeeps ==
  ASSUME MaxRestarts = 0
  PROVE  Spec => KeepsChosen
<1>1. ASSUME [OneLog!Choose]_(MajorityOf(Logs))
      PROVE  [Logs' # Logs => OneLog!Choose \/ UNCHANGED MajorityOf(Logs)]_node
  BY <1>1
<1> QED
  BY <1>1, RaftKeepsChosen, PTL DEF RefinesChosenLog, OneLog!Spec, KeepsChosen

\* Without restarts a leader has every entry that a majority holds from the terms
\* up to its own, whether or not it has heard of it (isUpToDate, becomeLeader).
THEOREM LeadersHaveChosen ==
  ASSUME MaxRestarts = 0
  PROVE  Spec => []LeadersHoldChosen
<1>1. CoreOK /\ SettledOK => LeadersHoldChosen
  BY LeadersHold DEF CoreOK
<1> QED
  BY <1>1, CoreHolds, SettledHolds, PTL
=============================================================================
