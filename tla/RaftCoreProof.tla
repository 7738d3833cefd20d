--------------------------- MODULE RaftCoreProof ---------------------------
(***************************************************************************)
(* The types of the raft core, and its elections.                          *)
(*                                                                         *)
(* Spec => []TypeOK: one lemma for each operator of RaftLog, Progress and  *)
(* Raft says that it keeps its type; the theorem puts them together, one   *)
(* step per action.                                                        *)
(*                                                                         *)
(* The raft core refines Election as long as no process restarts, and who  *)
(* is taken for leader was elected, whether or not processes restart: most *)
(* handlers do nothing that an election notices (Keeps); the others move   *)
(* on in time, vote, or count a vote (Handles). Lemmas take these facts    *)
(* from the handlers to the actions. The last part does the same for the   *)
(* leader that a server follows (Follows).                                 *)
(***************************************************************************)
EXTENDS RaftElection, FiniteSetTheorems, SequenceTheorems, WellFoundedInduction, TLAPS

-----------------------------------------------------------------------------
(* Least and greatest indexes *)

\* A non-empty set of naturals has the least element Min names (findConflict).
LEMMA MinOfNats ==
  ASSUME NEW S \in SUBSET Nat, S # {}
  PROVE  Min(S) \in S /\ \A x \in S : Min(S) <= x
<1> DEFINE R == OpToRel(<, Nat)
<1>1. \E x \in S : \A y \in S : ~ (<<y, x>> \in R)
  BY NatLessThanWellFounded, WFMin, Zenon
<1>2. \A x, y \in S : y < x => <<y, x>> \in R
  <2> TAKE x, y \in S
  <2> DEFINE ss == <<y, x>>
  <2>1. ss \in Nat \X Nat /\ ss[1] = y /\ ss[2] = x
    OBVIOUS
  <2> HIDE DEF ss
  <2>2. y < x => ss \in R
    BY <2>1 DEF OpToRel
  <2> QED BY <2>2 DEF ss
<1>3. \E x \in S : \A y \in S : ~ (y < x)
  BY <1>1, <1>2, Zenon
<1>4. \E x \in S : \A y \in S : x <= y
  BY <1>3
<1> QED
  BY <1>4 DEF Min

\* So has a set of naturals up to n a greatest one (findConflictByTerm).
LEMMA MaxOfNats ==
  ASSUME NEW n \in Nat, NEW S \in SUBSET (0..n), S # {}
  PROVE  Max(S) \in S /\ \A x \in S : Max(S) >= x
<1> DEFINE T == {n - x : x \in S}
<1>1. T \in SUBSET Nat /\ T # {}
  <2>1. \A x \in S : n - x \in Nat
    OBVIOUS
  <2> QED BY <2>1
<1>2. Min(T) \in T /\ \A u \in T : Min(T) <= u
  <2> HIDE DEF T
  <2> QED BY <1>1, MinOfNats
<1>3. PICK z \in S : Min(T) = n - z
  BY <1>2
<1>4. \A x \in S : z >= x
  <2> TAKE x \in S
  <2>1. Min(T) <= n - x
    BY <1>2
  <2> HIDE DEF T
  <2> QED BY <1>3, <2>1
<1> QED
  BY <1>4 DEF Max
-----------------------------------------------------------------------------
(* The log *)

LEMMA TermType ==
  ASSUME NEW log \in Seq(Entry)
  PROVE  /\ \A i \in Int : termKnown(log, i) => term(log, i) \in Nat
         /\ \A i \in Int : zeroTermOnOutOfBounds(log, i) \in Nat
         /\ lastIndex(log) \in Nat
         /\ lastTerm(log) \in Nat
<1>1. \A k \in 1..Len(log) : log[k] \in Entry
  BY ElementOfSeq
<1>2. Len(log) \in Nat /\ \A k \in 1..Len(log) : log[k].Term \in Nat
  BY <1>1, LenProperties DEF Entry
<1> QED
  BY <1>2 DEF termKnown, term, zeroTermOnOutOfBounds, lastTerm, lastIndex

LEMMA EntriesType ==
  ASSUME NEW log \in Seq(Entry), NEW i \in Nat \ {0}
  PROVE  entries(log, i) \in Seq(Entry)
BY DEF entries, lastIndex

LEMMA FindConflictByTermType ==
  ASSUME NEW log, NEW index \in Nat, NEW t
  PROVE  findConflictByTerm(log, index, t) \in Nat
<1> DEFINE G == {i \in 1..index : ~ termKnown(log, i) \/ term(log, i) <= t}
<1>1. G \in SUBSET (0..index)
  OBVIOUS
<1>2. G # {} => Max(G) \in 0..index
  <2> HIDE DEF G
  <2> QED BY <1>1, MaxOfNats
<1> QED
  BY <1>2 DEF findConflictByTerm

\* A conflict lies at or before the end of the log: all entries before it match.
LEMMA FindConflictBound ==
  ASSUME NEW log \in Seq(Entry), NEW index \in Nat, NEW ents \in Seq(Entry),
         index <= Len(log), findConflict(log, index, ents) # 0
  PROVE  /\ findConflict(log, index, ents) \in (index + 1)..(Len(log) + 1)
         /\ findConflict(log, index, ents) - index \in DOMAIN ents
<1> DEFINE C == Conflicts(log, index, ents)
<1>1. C \in SUBSET Nat /\ C # {} /\ C \subseteq DOMAIN ents
  BY DEF findConflict, Conflicts
<1>2. Min(C) \in C /\ \A k \in C : Min(C) <= k
  <2> HIDE DEF C
  <2> QED BY <1>1, MinOfNats
<1>3. findConflict(log, index, ents) = index + Min(C)
  BY <1>1 DEF findConflict
<1>4. Min(C) \in 1..Len(ents)
  BY <1>1, <1>2
<1>5. Min(C) = 1 \/ Min(C) - 1 \notin C
  BY <1>2, <1>4
<1>6. Min(C) = 1 \/ index + Min(C) - 1 <= Len(log)
  BY <1>4, <1>5 DEF Conflicts, matchTerm, termKnown
<1> QED
  BY <1>3, <1>4, <1>6

LEMMA AppendedType ==
  ASSUME NEW log \in Seq(Entry), NEW index \in Nat, NEW ents \in Seq(Entry),
         index <= Len(log)
  PROVE  appended(log, index, ents) \in Seq(Entry)
<1> DEFINE ci == findConflict(log, index, ents)
<1>1. CASE ci = 0
  BY <1>1 DEF appended
<1>2. CASE ci # 0
  <2>1. ci \in (index + 1)..(Len(log) + 1) /\ ci - index \in 1..Len(ents)
    BY <1>2, FindConflictBound
  <2> HIDE DEF ci
  <2>2. SubSeq(log, 1, ci - 1) \in Seq(Entry)
    BY <2>1
  <2>3. SubSeq(ents, ci - index, Len(ents)) \in Seq(Entry)
    BY <2>1
  <2> QED
    BY <1>2, <2>2, <2>3 DEF ci, appended, truncateAndAppend
<1> QED
  BY <1>1, <1>2
-----------------------------------------------------------------------------
(* The Progress of a peer *)

ProgressOK(pr) == pr \in ProgressRecord /\ pr.Next > pr.Match

LEMMA NewProgressType ==
  ASSUME NEW match \in Nat, NEW next \in Nat, next > match
  PROVE  ProgressOK(NewProgress(match, next))
BY DEF ProgressOK, ProgressRecord, NewProgress, ProgressStates

LEMMA ResetStateType ==
  ASSUME NEW pr \in ProgressRecord, NEW state \in ProgressStates
  PROVE  /\ ResetState(pr, state) \in ProgressRecord
         /\ ResetState(pr, state).Match = pr.Match
BY DEF ProgressRecord, ResetState

LEMMA BecomeReplicateType ==
  ASSUME NEW pr, ProgressOK(pr)
  PROVE  ProgressOK(BecomeReplicate(pr))
<1> DEFINE p == ResetState(pr, "StateReplicate")
<1>1. p \in ProgressRecord /\ p.Match = pr.Match
  BY ResetStateType DEF ProgressOK, ProgressStates
<1>2. BecomeReplicate(pr) = [p EXCEPT !.Next = pr.Match + 1]
  BY DEF BecomeReplicate
<1>3. pr.Match \in Nat
  BY DEF ProgressOK, ProgressRecord
<1> HIDE DEF p
<1> QED
  BY <1>1, <1>2, <1>3 DEF ProgressOK, ProgressRecord

LEMMA UpdateOnEntriesSendType ==
  ASSUME NEW pr, ProgressOK(pr), NEW ents
  PROVE  ProgressOK(UpdateOnEntriesSend(pr, ents))
BY DEF ProgressOK, ProgressRecord, UpdateOnEntriesSend

LEMMA MaybeUpdateType ==
  ASSUME NEW pr, ProgressOK(pr), NEW n \in Nat
  PROVE  ProgressOK(MaybeUpdate(pr, n))
<1>1. pr.Match \in Nat /\ pr.Next \in Nat /\ pr.MsgAppFlowPaused \in BOOLEAN
  BY DEF ProgressOK, ProgressRecord
<1>2. PICK match \in Nat : match = IF Updates(pr, n) THEN n ELSE pr.Match
  BY <1>1
<1>3. PICK paused \in BOOLEAN : paused = (pr.MsgAppFlowPaused /\ ~ Updates(pr, n))
  OBVIOUS
<1>4. PICK next \in Nat : next = (IF pr.Next > n + 1 THEN pr.Next ELSE n + 1)
  BY <1>1
<1>5. MaybeUpdate(pr, n) =
        [pr EXCEPT !.Match = match, !.MsgAppFlowPaused = paused, !.Next = next]
  BY <1>2, <1>3, <1>4 DEF MaybeUpdate
<1>6. next > match
  BY <1>1, <1>2, <1>4 DEF Updates, ProgressOK
<1> QED
  BY <1>5, <1>6 DEF ProgressOK, ProgressRecord
-----------------------------------------------------------------------------
(* Sending *)

\* The messages the handlers build from Message(type, to).
LEMMA MessageType ==
  ASSUME NEW type \in MessageTypes \ {"MsgProp"}, NEW to \in Server,
         NEW m, m = Message(type, to)
  PROVE  /\ m \in Unsent
         /\ \A n \in Nat : [m EXCEPT !.Index = n] \in Unsent
         /\ \A n \in Nat : [m EXCEPT !.Commit = n] \in Unsent
         /\ \A n \in Nat : [m EXCEPT !.Term = n] \in Unsent
         /\ \A n \in Nat : [m EXCEPT !.Term = n, !.Reject = TRUE] \in Unsent
         /\ \A t, n, u \in Nat : [m EXCEPT !.Term = t, !.Index = n, !.LogTerm = u] \in Unsent
         /\ \A n, t, c \in Nat, ents \in Seq(Entry) :
              [m EXCEPT !.Index = n, !.LogTerm = t, !.Entries = ents, !.Commit = c] \in Unsent
         /\ \A n, h, t \in Nat :
              [m EXCEPT !.Index = n, !.Reject = TRUE, !.RejectHint = h, !.LogTerm = t] \in Unsent
<1> DEFINE Raw == [Type : MessageTypes, From : Server \cup {None}, To : Server, Term : Nat,
                   Index : Nat, LogTerm : Nat, Entries : Seq(Entry), Commit : Nat,
                   Reject : BOOLEAN, RejectHint : Nat]
<1>1. m \in Raw /\ m.Type # "MsgProp"
  <2>1. <<>> \in Seq(Entry)
    OBVIOUS
  <2> QED BY <2>1 DEF Message
<1>2. \A x \in Raw : x.Type # "MsgProp" => x \in Unsent
  BY DEF Unsent
<1>3. m \in Unsent
  BY <1>1, <1>2
<1>4. \A n \in Nat : [m EXCEPT !.Index = n] \in Unsent
  BY <1>1, <1>2
<1>5. \A n \in Nat : [m EXCEPT !.Commit = n] \in Unsent
  BY <1>1, <1>2
<1>6. \A n \in Nat : [m EXCEPT !.Term = n] \in Unsent
  BY <1>1, <1>2
<1>7. \A n \in Nat : [m EXCEPT !.Term = n, !.Reject = TRUE] \in Unsent
  BY <1>1, <1>2
<1>8. \A t, n, u \in Nat : [m EXCEPT !.Term = t, !.Index = n, !.LogTerm = u] \in Unsent
  BY <1>1, <1>2
<1>9. \A n, t, c \in Nat, ents \in Seq(Entry) :
              [m EXCEPT !.Index = n, !.LogTerm = t, !.Entries = ents, !.Commit = c] \in Unsent
  BY <1>1, <1>2
<1>10. \A n, h, t \in Nat :
              [m EXCEPT !.Index = n, !.Reject = TRUE, !.RejectHint = h, !.LogTerm = t] \in Unsent
  BY <1>1, <1>2
<1> QED
  BY <1>3, <1>4, <1>5, <1>6, <1>7, <1>8, <1>9, <1>10

\* A well-formed node stays so when one field takes a value of its type.
LEMMA FieldType ==
  ASSUME NEW i, NEW r, NodeOK(i, r)
  PROVE  /\ \A M \in SUBSET Messages : NodeOK(i, [r EXCEPT !.msgs = M])
         /\ \A q \in Seq(Messages) : NodeOK(i, [r EXCEPT !.msgsAfterAppend = q])
         /\ \A l \in Seq(Entry) : NodeOK(i, [r EXCEPT !.log = l])
         /\ \A n \in Nat : NodeOK(i, [r EXCEPT !.committed = n])
         /\ \A n \in Nat : NodeOK(i, [r EXCEPT !.appliedIndex = n])
         /\ \A v \in Server \cup {None} : NodeOK(i, [r EXCEPT !.lead = v])
         /\ \A v \in Server \cup {None} : NodeOK(i, [r EXCEPT !.Vote = v])
         /\ \A f \in [Server -> Ballots] : NodeOK(i, [r EXCEPT !.votes = f])
         /\ \A prs \in [r.voters -> ProgressRecord] :
              (\A j \in r.voters : ProgressOK(prs[j])) => NodeOK(i, [r EXCEPT !.prs = prs])
         /\ NodeOK(i, panic(r))
<1>1. \A M \in SUBSET Messages : NodeOK(i, [r EXCEPT !.msgs = M])
  BY DEF NodeOK, NodeRecord
<1>2. \A q \in Seq(Messages) : NodeOK(i, [r EXCEPT !.msgsAfterAppend = q])
  BY DEF NodeOK, NodeRecord
<1>3. \A l \in Seq(Entry) : NodeOK(i, [r EXCEPT !.log = l])
  BY DEF NodeOK, NodeRecord
<1>4. \A n \in Nat : NodeOK(i, [r EXCEPT !.committed = n])
  BY DEF NodeOK, NodeRecord
<1>5. \A n \in Nat : NodeOK(i, [r EXCEPT !.appliedIndex = n])
  BY DEF NodeOK, NodeRecord
<1>6. \A v \in Server \cup {None} : NodeOK(i, [r EXCEPT !.lead = v])
  BY DEF NodeOK, NodeRecord
<1>7. \A v \in Server \cup {None} : NodeOK(i, [r EXCEPT !.Vote = v])
  BY DEF NodeOK, NodeRecord
<1>8. \A f \in [Server -> Ballots] : NodeOK(i, [r EXCEPT !.votes = f])
  BY DEF NodeOK, NodeRecord
<1>9. ASSUME NEW prs \in [r.voters -> ProgressRecord],
               \A j \in r.voters : ProgressOK(prs[j])
        PROVE  NodeOK(i, [r EXCEPT !.prs = prs])
  BY <1>9 DEF NodeOK, NodeRecord, ProgressOK
<1>10. NodeOK(i, panic(r))
  BY DEF NodeOK, NodeRecord, panic
<1> QED
  BY <1>1, <1>2, <1>3, <1>4, <1>5, <1>6, <1>7, <1>8, <1>9, <1>10

\* What a well-formed node's fields are.
LEMMA Fields ==
  ASSUME NEW i, NEW r, NodeOK(i, r)
  PROVE  /\ r.id \in Server /\ r.Term \in Nat /\ r.Vote \in Server \cup {None}
         /\ r.lead \in Server \cup {None} /\ r.log \in Seq(Entry) /\ r.committed \in Nat
         /\ r.voters \in {{}, Server} /\ r.prs \in [r.voters -> ProgressRecord]
         /\ r.votes \in [Server -> Ballots] /\ r.msgs \in SUBSET Messages
         /\ r.msgsAfterAppend \in Seq(Messages) /\ r.stepsOnAdvance \in Seq(Messages)
         /\ r.ready \in Nat /\ r.appliedIndex \in Nat
         /\ \A j \in r.voters : ProgressOK(r.prs[j])
BY DEF NodeOK, NodeRecord, ProgressOK

LEMMA StampType ==
  ASSUME NEW i, NEW r, NodeOK(i, r), NEW m \in Unsent
  PROVE  stamp(r, m) \in Messages
<1>1. r.id \in Server /\ r.Term \in Nat
  BY Fields
<1> QED
  BY <1>1 DEF stamp, Unsent, Messages

LEMMA SendType ==
  ASSUME NEW i, NEW r, NodeOK(i, r), NEW m \in Unsent
  PROVE  NodeOK(i, send(r, m))
<1> DEFINE s == stamp(r, m)
<1>1. r.msgs \cup {s} \in SUBSET Messages /\ Append(r.msgsAfterAppend, s) \in Seq(Messages)
  <2>1. s \in Messages
    BY StampType
  <2> HIDE DEF s
  <2> QED BY <2>1, Fields
<1>2. NodeOK(i, [r EXCEPT !.msgs = @ \cup {s}])
  BY <1>1, FieldType
<1>3. NodeOK(i, [r EXCEPT !.msgsAfterAppend = Append(@, s)])
  BY <1>1, FieldType
<1> QED
  BY <1>2, <1>3, FieldType DEF send

LEMMA SendAllType ==
  ASSUME NEW i, NEW r, NodeOK(i, r), NEW M \in SUBSET Unsent
  PROVE  NodeOK(i, sendAll(r, M))
<1> DEFINE S == {stamp(r, m) : m \in M}
<1>1. r.msgs \cup S \in SUBSET Messages
  BY StampType, Fields
<1>2. NodeOK(i, [r EXCEPT !.msgs = @ \cup S])
  BY <1>1, FieldType
<1> QED
  BY <1>2, FieldType DEF sendAll
LEMMA AppendToType ==
  ASSUME NEW i, NEW r, NodeOK(i, r), NEW to \in r.voters, termKnown(r.log, r.prs[to].Next - 1)
  PROVE  appendTo(r, to) \in Unsent
<1> DEFINE next == r.prs[to].Next
<1>1. to \in Server /\ next \in Nat \ {0} /\ r.committed \in Nat /\ r.log \in Seq(Entry)
  BY Fields DEF ProgressOK, ProgressRecord
<1>2. PICK t \in Nat : t = term(r.log, next - 1)
  <2>1. next - 1 \in Int /\ termKnown(r.log, next - 1)
    BY <1>1
  <2> HIDE DEF next
  <2>2. term(r.log, next - 1) \in Nat
    BY <1>1, <2>1, TermType
  <2> QED BY <2>2
<1>3. PICK ents \in Seq(Entry) :
        ents = IF r.prs[to].State = "StateReplicate" THEN <<>> ELSE entries(r.log, next)
  <2>1. entries(r.log, next) \in Seq(Entry) /\ <<>> \in Seq(Entry)
    <3> HIDE DEF next
    <3> QED BY <1>1, EntriesType
  <2> QED BY <2>1
<1>4. PICK index \in Nat : index = next - 1
  BY <1>1
<1>5. PICK m : m = Message("MsgApp", to)
  OBVIOUS
<1>6. "MsgApp" \in MessageTypes \ {"MsgProp"}
  BY DEF MessageTypes, LeaderMsgs
<1>7. [m EXCEPT !.Index = index, !.LogTerm = t, !.Entries = ents, !.Commit = r.committed]
        \in Unsent
  BY <1>1, <1>5, <1>6, MessageType
<1> QED
  BY <1>2, <1>3, <1>4, <1>5, <1>7 DEF appendTo

LEMMA MaybeSendAppendType ==
  ASSUME NEW i, NEW r, NodeOK(i, r), NEW dests \in SUBSET r.voters, NEW sendIfEmpty
  PROVE  /\ NodeOK(i, maybeSendAppend(r, dests, sendIfEmpty))
         /\ maybeSendAppend(r, dests, sendIfEmpty).voters = r.voters
<1> DEFINE known == {to \in dests : termKnown(r.log, r.prs[to].Next - 1)}
           sent  == {to \in known : sendIfEmpty \/ appendTo(r, to).Entries # <<>>}
           M     == {appendTo(r, to) : to \in sent}
           prs   == [to \in r.voters |->
                       IF to \in sent
                       THEN UpdateOnEntriesSend(r.prs[to], appendTo(r, to).Entries)
                       ELSE r.prs[to]]
           s     == sendAll(r, M)
<1>1. M \in SUBSET Unsent
  BY AppendToType
<1>2. NodeOK(i, s) /\ s.voters = r.voters
  <2> HIDE DEF M
  <2>1. NodeOK(i, s)
    BY <1>1, SendAllType
  <2>2. s.voters = r.voters
    BY DEF sendAll, panic, NodeOK, NodeRecord
  <2> QED BY <2>1, <2>2
<1>3. \A to \in r.voters : ProgressOK(prs[to])
  BY Fields, UpdateOnEntriesSendType
<1>4. prs \in [r.voters -> ProgressRecord]
  BY <1>3 DEF ProgressOK
<1>5. maybeSendAppend(r, dests, sendIfEmpty) = [s EXCEPT !.prs = prs]
  BY DEF maybeSendAppend
<1> HIDE DEF s, prs
<1>6. NodeOK(i, [s EXCEPT !.prs = prs])
  BY <1>2, <1>3, <1>4, FieldType
<1>7. [s EXCEPT !.prs = prs].voters = s.voters
  BY <1>2 DEF NodeOK, NodeRecord
<1> QED
  BY <1>2, <1>5, <1>6, <1>7

LEMMA BroadcastType ==
  ASSUME NEW i, NEW r, NodeOK(i, r)
  PROVE  /\ NodeOK(i, bcastAppend(r)) /\ NodeOK(i, bcastHeartbeat(r))
         /\ bcastAppend(r).voters = r.voters
<1>1. Peers(r) \in SUBSET r.voters
  BY DEF Peers
<1>2. NodeOK(i, bcastAppend(r)) /\ bcastAppend(r).voters = r.voters
  BY <1>1, MaybeSendAppendType DEF bcastAppend
<1> DEFINE commit(to) == IF r.prs[to].Match < r.committed THEN r.prs[to].Match ELSE r.committed
           M == {[Message("MsgHeartbeat", to) EXCEPT !.Commit = commit(to)] : to \in Peers(r)}
<1>3. \A to \in Peers(r) : commit(to) \in Nat /\ to \in Server
  BY <1>1, Fields DEF ProgressOK, ProgressRecord
<1>4. "MsgHeartbeat" \in MessageTypes \ {"MsgProp"}
  BY DEF MessageTypes, LeaderMsgs
<1>5. M \in SUBSET Unsent
  <2> HIDE DEF commit
  <2>1. \A to \in Peers(r) : [Message("MsgHeartbeat", to) EXCEPT !.Commit = commit(to)] \in Unsent
    BY <1>3, <1>4, MessageType
  <2> QED BY <2>1
<1>6. NodeOK(i, bcastHeartbeat(r))
  BY <1>5, SendAllType DEF bcastHeartbeat
<1> QED
  BY <1>2, <1>6
-----------------------------------------------------------------------------
(* Log, commit index and roles *)

LEMMA AppendEntryType ==
  ASSUME NEW i, NEW r, NodeOK(i, r), NEW data \in Data
  PROVE  NodeOK(i, appendEntry(r, data))
<1> DEFINE log == Append(r.log, [Term |-> r.Term, Data |-> data])
           l   == [r EXCEPT !.log = log]
           m   == [Message("MsgAppResp", r.id) EXCEPT !.Index = lastIndex(log)]
<1>1. log \in Seq(Entry)
  <2>1. [Term |-> r.Term, Data |-> data] \in Entry
    BY Fields DEF Entry
  <2> QED BY <2>1, Fields
<1>2. NodeOK(i, l)
  BY <1>1, FieldType
<1>3. m \in Unsent
  <2>1. lastIndex(log) \in Nat
    BY <1>1, TermType
  <2>2. "MsgAppResp" \in MessageTypes \ {"MsgProp"}
    BY DEF MessageTypes, ResponseMsgs, AfterAppend
  <2> HIDE DEF log
  <2> QED BY <2>1, <2>2, Fields, MessageType
<1>4. appendEntry(r, data) = send(l, m)
  BY DEF appendEntry
<1> HIDE DEF l, m
<1> QED
  BY <1>2, <1>3, <1>4, SendType

LEMMA MaybeCommitType ==
  ASSUME NEW i, NEW r, NodeOK(i, r)
  PROVE  NodeOK(i, maybeCommit(r)) /\ maybeCommit(r).voters = r.voters
<1>1. PICK n \in Nat : n = commitTo(r.committed, Committed(r))
  BY Fields DEF commitTo, Committed
<1>2. NodeOK(i, [r EXCEPT !.committed = n]) /\ [r EXCEPT !.committed = n].voters = r.voters
  <2>1. NodeOK(i, [r EXCEPT !.committed = n])
    BY FieldType
  <2> QED BY <2>1 DEF NodeOK, NodeRecord
<1> QED
  BY <1>1, <1>2 DEF maybeCommit

\* reset forgets the leader; what it keeps besides is used by its callers.
LEMMA ResetType ==
  ASSUME NEW i, NEW r, NodeOK(i, r), NEW t \in Nat
  PROVE  /\ NodeOK(i, reset(r, t))
         /\ reset(r, t).id = r.id /\ reset(r, t).voters = r.voters /\ reset(r, t).Term = t
<1> DEFINE fresh(j) == NewProgress(IF j = r.id THEN lastIndex(r.log) ELSE 0, lastIndex(r.log) + 1)
<1>1. PICK vote \in Server \cup {None} : vote = voteAfter(r, t)
  BY Fields DEF voteAfter
<1>2. PICK votes \in [Server -> Ballots] : votes = ResetVotes(Server)
  BY DEF ResetVotes, Ballots
<1>3. PICK prs \in [r.voters -> ProgressRecord] :
        prs = [j \in r.voters |-> fresh(j)] /\ \A j \in r.voters : ProgressOK(prs[j])
  <2>1. lastIndex(r.log) \in Nat
    BY Fields, TermType
  <2>2. \A j \in r.voters : ProgressOK(fresh(j))
    <3> TAKE j \in r.voters
    <3>1. PICK k \in Nat : k = (IF j = r.id THEN lastIndex(r.log) ELSE 0) /\ lastIndex(r.log) + 1 > k
      BY <2>1
    <3> QED BY <2>1, <3>1, NewProgressType
  <2>3. \A j \in r.voters : fresh(j) \in ProgressRecord
    BY <2>2 DEF ProgressOK
  <2> DEFINE p == [j \in r.voters |-> fresh(j)]
  <2>4. p \in [r.voters -> ProgressRecord] /\ \A j \in r.voters : p[j] = fresh(j)
    <3> HIDE DEF fresh
    <3> QED BY <2>3
  <2>5. \A j \in r.voters : ProgressOK(p[j])
    <3> HIDE DEF fresh, p
    <3> QED BY <2>2, <2>4
  <2> HIDE DEF fresh
  <2>6. p = [j \in r.voters |-> fresh(j)]
    OBVIOUS
  <2> HIDE DEF p
  <2> QED BY <2>4, <2>5, <2>6
<1>4. reset(r, t) = [r EXCEPT !.Term = t, !.Vote = vote, !.lead = None, !.votes = votes,
                               !.prs = prs]
  BY <1>1, <1>2, <1>3 DEF reset
<1>5. NodeOK(i, [r EXCEPT !.Term = t, !.Vote = vote, !.lead = None, !.votes = votes, !.prs = prs])
  BY <1>3 DEF NodeOK, NodeRecord, ProgressOK
<1> QED
  BY <1>4, <1>5 DEF NodeOK, NodeRecord

LEMMA RoleType ==
  ASSUME NEW i, NEW r, NodeOK(i, r), NEW v \in Server \cup {None}, NEW state,
         state \in {"StateFollower", "StatePreCandidate", "StateCandidate", "StateLeader"}
  PROVE  /\ NodeOK(i, [r EXCEPT !.lead = v, !.state = state])
         /\ NodeOK(i, [r EXCEPT !.Vote = v, !.state = state])
BY ZenonT(30) DEF NodeOK, NodeRecord

LEMMA BecomeType ==
  ASSUME NEW i, NEW r, NodeOK(i, r), NEW t \in Nat, NEW lead \in Server \cup {None}
  PROVE  /\ NodeOK(i, becomeFollower(r, t, lead))
         /\ NodeOK(i, becomePreCandidate(r))
         /\ NodeOK(i, becomeCandidate(r))
         /\ NodeOK(i, becomeLeader(r))
<1>1. NodeOK(i, becomeFollower(r, t, lead))
  <2>1. PICK s : s = reset(r, t) /\ NodeOK(i, s)
    BY ResetType
  <2>2. NodeOK(i, [s EXCEPT !.lead = lead, !.state = "StateFollower"])
    BY <2>1, RoleType
  <2> QED BY <2>1, <2>2 DEF becomeFollower
<1>2. NodeOK(i, becomePreCandidate(r))
  <2>1. PICK votes \in [Server -> Ballots] : votes = ResetVotes(Server)
    BY DEF ResetVotes, Ballots
  <2>2. NodeOK(i, [r EXCEPT !.votes = votes, !.lead = None, !.state = "StatePreCandidate"])
    BY DEF NodeOK, NodeRecord
  <2> QED BY <2>1, <2>2, FieldType DEF becomePreCandidate
<1>3. NodeOK(i, becomeCandidate(r))
  <2>1. r.Term + 1 \in Nat /\ r.id \in Server
    BY Fields
  <2>2. PICK s : s = reset(r, r.Term + 1) /\ NodeOK(i, s)
    BY <2>1, ResetType
  <2>3. NodeOK(i, [s EXCEPT !.Vote = r.id, !.state = "StateCandidate"])
    BY <2>1, <2>2, RoleType
  <2> QED BY <2>2, <2>3, FieldType DEF becomeCandidate
<1>4. NodeOK(i, becomeLeader(r))
  <2> DEFINE l == [reset(r, r.Term) EXCEPT !.lead = r.id, !.state = "StateLeader"]
             p == [l.prs EXCEPT ![r.id] = BecomeReplicate(@)]
             b == [l EXCEPT !.prs = p]
  <2>1. NodeOK(i, l)
    <3>1. PICK s : s = reset(r, r.Term) /\ NodeOK(i, s)
      BY Fields, ResetType
    <3>2. NodeOK(i, [s EXCEPT !.lead = r.id, !.state = "StateLeader"])
      BY <3>1, Fields, RoleType
    <3> QED BY <3>1, <3>2
  <2>2. p \in [l.voters -> ProgressRecord] /\ \A j \in l.voters : ProgressOK(p[j])
    <3> HIDE DEF l
    <3>1. l.prs \in [l.voters -> ProgressRecord] /\ \A j \in l.voters : ProgressOK(l.prs[j])
      BY <2>1, Fields
    <3>2. \A j \in l.voters : ProgressOK(BecomeReplicate(l.prs[j]))
      BY <3>1, BecomeReplicateType
    <3> QED BY <3>1, <3>2 DEF ProgressOK
  <2>3. NodeOK(i, b)
    <3> HIDE DEF l, p
    <3> QED BY <2>1, <2>2, FieldType
  <2>4. becomeLeader(r) = IF r.state = "StateFollower" THEN panic(r) ELSE appendEntry(b, EmptyEntry)
    BY DEF becomeLeader
  <2> HIDE DEF b
  <2> QED BY <2>3, <2>4, AppendEntryType, FieldType DEF Data
<1> QED
  BY <1>1, <1>2, <1>3, <1>4
\* A campaign asks the other voters and, when the node is one, the node itself.
LEMMA CampaignType ==
  ASSUME NEW i, NEW r, NodeOK(i, r), NEW pre
  PROVE  NodeOK(i, campaign(r, pre)) /\ NodeOK(i, hup(r, pre))
<1> DEFINE c    == IF pre THEN becomePreCandidate(r) ELSE becomeCandidate(r)
           t    == IF pre THEN c.Term + 1 ELSE c.Term
           type == IF pre THEN "MsgPreVote" ELSE "MsgVote"
           self == [Message(voteRespMsgType(type), r.id) EXCEPT !.Term = t]
           req(to) == [Message(type, to) EXCEPT !.Term = t, !.Index = lastIndex(r.log),
                                                !.LogTerm = lastTerm(r.log)]
           reqs == {req(to) : to \in Peers(r)}
           s    == IF r.id \in r.voters THEN send(c, self) ELSE c
<1>1. NodeOK(i, c)
  <2>1. None \in Server \cup {None} /\ r.Term \in Nat
    BY Fields
  <2> QED BY <2>1, BecomeType
<1>2. t \in Nat
  <2> HIDE DEF c
  <2> QED BY <1>1, Fields
<1>3. /\ type \in MessageTypes \ {"MsgProp"}
      /\ voteRespMsgType(type) \in MessageTypes \ {"MsgProp"}
  BY DEF MessageTypes, VoteMsgs, voteRespMsgType
<1>4. self \in Unsent
  <2> HIDE DEF t, type
  <2> QED BY <1>2, <1>3, Fields, MessageType
<1>5. reqs \in SUBSET Unsent
  <2>1. lastIndex(r.log) \in Nat /\ lastTerm(r.log) \in Nat
    BY Fields, TermType
  <2>2. \A to \in Server : req(to) \in Unsent
    <3> HIDE DEF t, type
    <3> QED BY <1>2, <1>3, <2>1, MessageType
  <2>3. Peers(r) \in SUBSET Server
    BY Fields DEF Peers
  <2> HIDE DEF req
  <2> QED BY <2>2, <2>3
<1>6. NodeOK(i, s)
  <2> HIDE DEF c, self
  <2> QED BY <1>1, <1>4, SendType
<1>7. campaign(r, pre) = sendAll(s, reqs)
  BY DEF campaign
<1>8. NodeOK(i, campaign(r, pre))
  <2> HIDE DEF s, reqs
  <2> QED BY <1>5, <1>6, <1>7, SendAllType
<1> QED
  BY <1>8 DEF hup
-----------------------------------------------------------------------------
(* Handlers *)

LEMMA HandleHeartbeatType ==
  ASSUME NEW i, NEW r, NodeOK(i, r), NEW m \in Messages
  PROVE  NodeOK(i, handleHeartbeat(r, m))
<1>1. m.From \in Server
  BY DEF Messages
<1>2. "MsgHeartbeatResp" \in MessageTypes \ {"MsgProp"}
  BY DEF MessageTypes, ResponseMsgs
<1>3. Message("MsgHeartbeatResp", m.From) \in Unsent
  BY <1>1, <1>2, MessageType
<1> QED
  BY <1>3, SendType DEF handleHeartbeat

LEMMA HandleAppendEntriesType ==
  ASSUME NEW i, NEW r, NodeOK(i, r), NEW m \in Messages
  PROVE  NodeOK(i, handleAppendEntries(r, m))
<1> DEFINE resp     == Message("MsgAppResp", m.From)
           lastnewi == m.Index + Len(m.Entries)
           tocommit == IF m.Commit < lastnewi THEN m.Commit ELSE lastnewi
           log      == appended(r.log, m.Index, m.Entries)
           from     == IF m.Index < lastIndex(r.log) THEN m.Index ELSE lastIndex(r.log)
           hint     == findConflictByTerm(r.log, from, m.LogTerm)
           hintTerm == zeroTermOnOutOfBounds(r.log, hint)
<1>1. m.From \in Server /\ m.Index \in Nat /\ m.Commit \in Nat /\ m.Entries \in Seq(Entry)
  BY DEF Messages, Unsent
<1>2. lastnewi \in Nat /\ tocommit \in Nat
  BY <1>1, LenProperties
<1>3. hint \in Nat /\ hintTerm \in Nat
  <2>1. from \in Nat /\ r.log \in Seq(Entry)
    BY <1>1, Fields, TermType
  <2>2. hint \in Nat
    <3> HIDE DEF from
    <3> QED BY <2>1, FindConflictByTermType
  <2> HIDE DEF hint
  <2> QED BY <2>1, <2>2, TermType
<1>4. "MsgAppResp" \in MessageTypes \ {"MsgProp"}
  BY DEF MessageTypes, ResponseMsgs, AfterAppend
<1>5. CASE m.Index < r.committed
  <2> DEFINE x == [resp EXCEPT !.Index = r.committed]
  <2>1. x \in Unsent
    <3>1. r.committed \in Nat
      BY Fields
    <3> QED BY <1>1, <1>4, <3>1, MessageType
  <2>2. handleAppendEntries(r, m) = send(r, x)
    <3>1. ~ (m.Index >= r.committed)
      BY <1>1, <1>5, Fields
    <3> QED BY <1>5, <3>1 DEF handleAppendEntries
  <2> HIDE DEF x
  <2> QED BY <2>1, <2>2, SendType
<1>6. CASE m.Index >= r.committed /\ matchTerm(r.log, m.Index, m.LogTerm)
  <2> DEFINE a == [r EXCEPT !.log = log, !.committed = commitTo(@, tocommit)]
             x == [resp EXCEPT !.Index = lastnewi]
             p == \/ appendPanics(r.log, r.committed, m.Index, m.Entries)
                  \/ commitPanics(log, r.committed, tocommit)
  <2>1. log \in Seq(Entry)
    BY <1>1, <1>6, Fields, AppendedType DEF matchTerm, termKnown
  <2>2. commitTo(r.committed, tocommit) \in Nat
    <3> HIDE DEF tocommit
    <3> QED BY <1>2, Fields DEF commitTo
  <2>3. NodeOK(i, a)
    <3>1. PICK n \in Nat : n = commitTo(r.committed, tocommit)
      BY <2>2
    <3>2. a = [r EXCEPT !.log = log, !.committed = n]
      BY <3>1
    <3> HIDE DEF log, a
    <3> QED BY <2>1, <3>2 DEF NodeOK, NodeRecord
  <2>4. x \in Unsent
    <3> HIDE DEF lastnewi
    <3> QED BY <1>1, <1>2, <1>4, MessageType
  <2>5. handleAppendEntries(r, m) = IF p THEN panic(r) ELSE send(a, x)
    <3>1. ~ (m.Index < r.committed)
      BY <1>1, <1>6, Fields
    <3> QED BY <1>6, <3>1 DEF handleAppendEntries
  <2> HIDE DEF a, x, p
  <2> QED BY <2>3, <2>4, <2>5, SendType, FieldType
<1>7. CASE ~ (m.Index < r.committed) /\ ~ matchTerm(r.log, m.Index, m.LogTerm)
  <2> DEFINE x == [resp EXCEPT !.Index = m.Index, !.Reject = TRUE, !.RejectHint = hint,
                               !.LogTerm = hintTerm]
  <2>1. x \in Unsent
    <3> HIDE DEF hint, hintTerm
    <3> QED BY <1>1, <1>3, <1>4, MessageType
  <2>2. handleAppendEntries(r, m) = send(r, x)
    BY <1>7 DEF handleAppendEntries
  <2> HIDE DEF x
  <2> QED BY <2>1, <2>2, SendType
<1> QED
  BY <1>1, <1>5, <1>6, <1>7, Fields

LEMMA LeadType ==
  ASSUME NEW i, NEW r, NodeOK(i, r), NEW m \in Messages
  PROVE  NodeOK(i, [r EXCEPT !.lead = m.From])
BY FieldType DEF Messages

LEMMA StepFollowerType ==
  ASSUME NEW i, NEW r, NodeOK(i, r), NEW m \in Messages
  PROVE  NodeOK(i, stepFollower(r, m))
<1> DEFINE l == [r EXCEPT !.lead = m.From]
           f == [m EXCEPT !.To = r.lead]
<1>1. NodeOK(i, l)
  BY LeadType
<1>2. r.lead # None => f \in Unsent
  BY Fields DEF Messages, Unsent
<1>3. CASE m.Type = "MsgProp"
  <2>1. stepFollower(r, m) = IF r.lead = None THEN r ELSE send(r, f)
    BY <1>3 DEF stepFollower
  <2> HIDE DEF f
  <2> QED BY <1>2, <2>1, SendType
<1>4. CASE m.Type = "MsgApp"
  <2>1. stepFollower(r, m) = handleAppendEntries(l, m)
    BY <1>4 DEF stepFollower
  <2> HIDE DEF l
  <2> QED BY <1>1, <2>1, HandleAppendEntriesType
<1>5. CASE m.Type = "MsgHeartbeat"
  <2>1. stepFollower(r, m) = handleHeartbeat(l, m)
    BY <1>5 DEF stepFollower
  <2> HIDE DEF l
  <2> QED BY <1>1, <2>1, HandleHeartbeatType
<1>6. CASE m.Type \notin {"MsgProp", "MsgApp", "MsgHeartbeat"}
  BY <1>6 DEF stepFollower
<1> QED
  BY <1>3, <1>4, <1>5, <1>6

LEMMA PollType ==
  ASSUME NEW i, NEW r, NodeOK(i, r), NEW id \in Server, NEW v
  PROVE  NodeOK(i, poll(r, id, v))
<1>1. RecordVote(r.votes, id, v) \in [Server -> Ballots]
  BY Fields DEF RecordVote, Ballots
<1> QED
  BY <1>1, FieldType DEF poll

LEMMA StepCandidateType ==
  ASSUME NEW i, NEW r, NodeOK(i, r), NEW m \in Messages
  PROVE  NodeOK(i, stepCandidate(r, m))
<1> DEFINE p == poll(r, m.From, ~ m.Reject)
<1>1. m.From \in Server /\ m.Term \in Nat
  BY DEF Messages, Unsent
<1>2. NodeOK(i, p)
  BY <1>1, PollType
<1>3. /\ NodeOK(i, becomeFollower(r, m.Term, m.From))
      /\ NodeOK(i, handleHeartbeat(becomeFollower(r, m.Term, m.From), m))
  BY <1>1, BecomeType, HandleHeartbeatType
<1>4. /\ NodeOK(i, campaign(p, FALSE))
      /\ NodeOK(i, bcastAppend(becomeLeader(p)))
      /\ NodeOK(i, becomeFollower(p, r.Term, None))
  <2> HIDE DEF p
  <2>1. NodeOK(i, becomeLeader(p)) /\ NodeOK(i, becomeFollower(p, r.Term, None))
    BY <1>2, BecomeType, Fields
  <2> QED BY <1>2, <2>1, CampaignType, BroadcastType
<1>5. stepCandidate(r, m) \in
        {r, p, becomeFollower(r, m.Term, m.From),
         handleHeartbeat(becomeFollower(r, m.Term, m.From), m),
         campaign(p, FALSE), bcastAppend(becomeLeader(p)), becomeFollower(p, r.Term, None)}
  BY DEF stepCandidate
<1> QED
  BY <1>2, <1>3, <1>4, <1>5

LEMMA HandleAppendResponseType ==
  ASSUME NEW i, NEW r, NodeOK(i, r), NEW m \in Messages, m.From \in r.voters
  PROVE  NodeOK(i, handleAppendResponse(r, m))
<1> DEFINE pr      == r.prs[m.From]
           moves   == Updates(pr, m.Index) \/ (pr.Match = m.Index /\ pr.State = "StateProbe")
           updated == MaybeUpdate(pr, m.Index)
           newPr   == IF moves /\ updated.State = "StateProbe"
                      THEN BecomeReplicate(updated) ELSE updated
           prs     == [r.prs EXCEPT ![m.From] = newPr]
           tracked == [r EXCEPT !.prs = prs]
           sent    == CASE commitAdvances(tracked) -> bcastAppend(maybeCommit(tracked))
                        [] ~ commitAdvances(tracked) /\ IsPaused(pr) ->
                             maybeSendAppend(tracked, {m.From}, TRUE)
                        [] OTHER -> tracked
<1>1. m.Index \in Nat
  BY DEF Messages, Unsent
<1>2. ProgressOK(newPr)
  <2>1. ProgressOK(updated)
    BY <1>1, Fields, MaybeUpdateType
  <2> HIDE DEF updated
  <2> QED BY <2>1, BecomeReplicateType
<1>3. prs \in [r.voters -> ProgressRecord] /\ \A j \in r.voters : ProgressOK(prs[j])
  <2>1. r.prs \in [r.voters -> ProgressRecord] /\ \A j \in r.voters : ProgressOK(r.prs[j])
    BY Fields
  <2> HIDE DEF newPr
  <2> QED BY <1>2, <2>1 DEF ProgressOK
<1>4. NodeOK(i, tracked) /\ tracked.voters = r.voters
  <2>1. NodeOK(i, tracked)
    <3> HIDE DEF prs
    <3> QED BY <1>3, FieldType
  <2> QED BY <2>1 DEF NodeOK, NodeRecord
<1>5. NodeOK(i, sent) /\ sent.voters = r.voters
  <2> HIDE DEF tracked
  <2>1. CASE commitAdvances(tracked)
    <3>1. PICK c : c = maybeCommit(tracked) /\ NodeOK(i, c) /\ c.voters = r.voters
      BY <1>4, MaybeCommitType
    <3>2. NodeOK(i, bcastAppend(c)) /\ bcastAppend(c).voters = r.voters
      BY <3>1, BroadcastType
    <3> QED BY <2>1, <3>1, <3>2
  <2>2. CASE ~ commitAdvances(tracked)
    <3>1. {m.From} \in SUBSET tracked.voters
      BY <1>4
    <3>2. /\ NodeOK(i, maybeSendAppend(tracked, {m.From}, TRUE))
          /\ maybeSendAppend(tracked, {m.From}, TRUE).voters = r.voters
      BY <1>4, <3>1, MaybeSendAppendType
    <3> QED BY <1>4, <2>2, <3>2
  <2> QED BY <2>1, <2>2
<1>6. NodeOK(i, maybeSendAppend(sent, {m.From}, FALSE))
  <2> HIDE DEF sent
  <2> QED BY <1>5, MaybeSendAppendType
<1>7. handleAppendResponse(r, m) =
        CASE m.Reject -> r
          [] ~ m.Reject /\ ~ moves -> tracked
          [] OTHER -> IF m.From = r.id THEN sent ELSE maybeSendAppend(sent, {m.From}, FALSE)
  BY DEF handleAppendResponse
<1> HIDE DEF moves, tracked, sent
<1> QED
  BY <1>4, <1>5, <1>6, <1>7

LEMMA StepLeaderType ==
  ASSUME NEW i, NEW r, NodeOK(i, r), NEW m \in Messages
  PROVE  NodeOK(i, stepLeader(r, m))
<1>1. CASE m.Type = "MsgProp"
  <2>1. m.Entries \in Seq(Entry) /\ m.Entries # <<>>
    BY <1>1 DEF Messages, Unsent
  <2>2. m.Entries[1].Data \in Data
    <3>1. m.Entries[1] \in Entry
      BY <2>1, EmptySeq, ElementOfSeq
    <3> QED BY <3>1 DEF Entry
  <2>3. NodeOK(i, bcastAppend(appendEntry(r, m.Entries[1].Data)))
    BY <2>2, AppendEntryType, BroadcastType
  <2> QED BY <1>1, <2>3 DEF stepLeader
<1>2. CASE m.Type = "MsgAppResp" /\ m.From \in r.voters
  BY <1>2, HandleAppendResponseType DEF stepLeader
<1>3. CASE m.Type # "MsgProp" /\ ~ (m.Type = "MsgAppResp" /\ m.From \in r.voters)
  BY <1>3 DEF stepLeader
<1> QED
  BY <1>1, <1>2, <1>3

LEMMA HandleVoteType ==
  ASSUME NEW i, NEW r, NodeOK(i, r), NEW m \in Messages
  PROVE  NodeOK(i, handleVote(r, m))
<1> DEFINE resp    == Message(voteRespMsgType(m.Type), m.From)
           grant   == [resp EXCEPT !.Term = m.Term]
           reject  == [resp EXCEPT !.Term = r.Term, !.Reject = TRUE]
           s       == send(r, grant)
           granted == canVote(r, m) /\ isUpToDate(r.log, m.Index, m.LogTerm)
<1>1. m.From \in Server /\ m.Term \in Nat /\ r.Term \in Nat
  BY Fields DEF Messages, Unsent
<1>2. voteRespMsgType(m.Type) \in MessageTypes \ {"MsgProp"}
  BY DEF MessageTypes, VoteMsgs, voteRespMsgType
<1>3. grant \in Unsent
  BY <1>1, <1>2, MessageType
<1>4. reject \in Unsent
  BY <1>1, <1>2, MessageType
<1>5. NodeOK(i, s) /\ NodeOK(i, [s EXCEPT !.Vote = m.From])
  <2> HIDE DEF grant
  <2> QED BY <1>1, <1>3, SendType, FieldType
<1>6. handleVote(r, m) =
        IF granted THEN IF m.Type = "MsgVote" THEN [s EXCEPT !.Vote = m.From] ELSE s
        ELSE send(r, reject)
  BY DEF handleVote
<1> HIDE DEF granted, s, reject
<1> QED
  BY <1>4, <1>5, <1>6, SendType

LEMMA TermChangeType ==
  ASSUME NEW i, NEW r, NodeOK(i, r), NEW m \in Messages
  PROVE  NodeOK(i, higherTerm(r, m)) /\ NodeOK(i, lowerTerm(r, m))
<1>1. m.From \in Server /\ m.Term \in Nat /\ r.Term \in Nat
  BY Fields DEF Messages, Unsent
<1>2. NodeOK(i, higherTerm(r, m))
  <2>1. NodeOK(i, becomeFollower(r, m.Term, m.From)) /\ NodeOK(i, becomeFollower(r, m.Term, None))
    BY <1>1, BecomeType
  <2> QED BY <2>1 DEF higherTerm
<1>3. NodeOK(i, lowerTerm(r, m))
  <2> DEFINE stale == (CheckQuorum \/ PreVote) /\ m.Type \in LeaderMsgs
             app == Message("MsgAppResp", m.From)
             pre == [Message("MsgPreVoteResp", m.From) EXCEPT !.Term = r.Term, !.Reject = TRUE]
  <2>1. {"MsgAppResp", "MsgPreVoteResp"} \subseteq MessageTypes \ {"MsgProp"}
    BY DEF MessageTypes, ResponseMsgs, AfterAppend
  <2>2. app \in Unsent /\ pre \in Unsent
    BY <1>1, <2>1, MessageType
  <2>3. m.Type = "MsgPreVote" => ~ stale
    BY DEF LeaderMsgs
  <2>4. lowerTerm(r, m) =
          IF stale THEN send(r, app) ELSE IF m.Type = "MsgPreVote" THEN send(r, pre) ELSE r
    BY <2>3 DEF lowerTerm
  <2> HIDE DEF stale, app, pre
  <2> QED BY <2>2, <2>4, SendType
<1> QED
  BY <1>2, <1>3

LEMMA StepType ==
  ASSUME NEW i, NEW r, NodeOK(i, r), NEW m \in Messages
  PROVE  NodeOK(i, Step(r, m))
<1>1. ASSUME NEW s, NodeOK(i, s)
      PROVE  NodeOK(i, dispatch(s, m))
  BY <1>1, HandleVoteType, StepFollowerType, StepLeaderType, StepCandidateType DEF dispatch
<1>2. NodeOK(i, lowerTerm(r, m)) /\ NodeOK(i, dispatch(higherTerm(r, m), m)) /\ NodeOK(i, dispatch(r, m))
  BY <1>1, TermChangeType
<1> QED
  BY <1>2 DEF Step

LEMMA SwitchToConfigType ==
  ASSUME NEW i, NEW r, NodeOK(i, r)
  PROVE  NodeOK(i, switchToConfig(r))
<1>1. NodeOK(i, bcastAppend(maybeCommit(r)))
  BY MaybeCommitType, BroadcastType
<1>2. NodeOK(i, maybeSendAppend(r, Peers(r), FALSE))
  BY MaybeSendAppendType DEF Peers
<1> QED
  BY <1>1, <1>2 DEF switchToConfig
-----------------------------------------------------------------------------
(* The specification *)

LEMMA NewNodeType ==
  ASSUME NEW i \in Server
  PROVE  NodeOK(i, NewNode(i))
<1>1. ResetVotes(Server) \in [Server -> Ballots]
  BY DEF ResetVotes, Ballots
<1>2. <<>> \in Seq(Entry) /\ <<>> \in Seq(Messages)
  OBVIOUS
<1> QED
  BY <1>1, <1>2 DEF NodeOK, NodeRecord, NewNode

LEMMA StartedType ==
  ASSUME NEW i \in Server
  PROVE  NodeOK(i, Started(i))
<1> DEFINE n    == Cardinality(Server)
           log  == [k \in 1..n |-> [Term |-> 1, Data |-> ConfEntry]]
           prs  == [j \in Server |-> NewProgress(0, n)]
<1>1. n \in Nat \ {0}
  BY ServerAssumption, FS_CardinalityType, FS_EmptySet
<1>2. log \in Seq(Entry)
  <2>1. [Term |-> 1, Data |-> ConfEntry] \in Entry
    BY DEF Entry, Data
  <2> HIDE DEF n
  <2> QED BY <1>1, <2>1
<1>3. prs \in [Server -> ProgressRecord] /\ \A j \in Server : ProgressOK(prs[j])
  <2>1. ProgressOK(NewProgress(0, n))
    <3> HIDE DEF n
    <3> QED BY <1>1, NewProgressType
  <2> HIDE DEF n
  <2> QED BY <2>1 DEF ProgressOK
<1>4. NodeOK(i, Bootstrapped(i))
  <2>1. Bootstrapped(i) = [NewNode(i) EXCEPT !.Term = 1, !.log = log, !.committed = n,
                                             !.voters = Server, !.prs = prs]
    BY DEF Bootstrapped
  <2>2. PICK w : w = NewNode(i) /\ NodeOK(i, w)
    BY NewNodeType
  <2> HIDE DEF n, log, prs
  <2>3. NodeOK(i, [w EXCEPT !.Term = 1, !.log = log, !.committed = n, !.voters = Server,
                            !.prs = prs])
    BY <1>1, <1>2, <1>3, <2>2 DEF NodeOK, NodeRecord, ProgressOK
  <2> QED BY <2>1, <2>2, <2>3
<1> QED
  BY <1>4, NewNodeType DEF Started

\* A step in which one node becomes r keeps the types if r has them.
LEMMA BecomesType ==
  ASSUME TypeOK, NEW i \in Server, NEW r, NodeOK(i, r), Becomes(i, r),
         net' \subseteq Messages, campaigns' \in 0..MaxCampaigns
  PROVE  TypeOK'
<1>1. r \in NodeRecord
  BY DEF NodeOK
<1>2. node' = [node EXCEPT ![i] = r] /\ node \in [Server -> NodeRecord]
  BY DEF Becomes, TypeOK
<1>3. node' \in [Server -> NodeRecord] /\ \A j \in Server : node'[j] = IF j = i THEN r ELSE node[j]
  BY <1>1, <1>2
<1>4. \A j \in Server : NodeOK(j, node'[j])
  BY <1>3 DEF TypeOK
<1>5. elected' \subseteq Nat \X Server
  <2>1. <<r.Term, i>> \in Nat \X Server
    BY <1>1 DEF NodeRecord
  <2>2. elected' \subseteq elected \cup {<<r.Term, i>>}
    BY <1>3 DEF Becomes
  <2> QED BY <2>1, <2>2 DEF TypeOK
<1> QED
  BY <1>3, <1>4, <1>5 DEF TypeOK, Becomes

LEMMA ProposalType ==
  ASSUME NEW i \in Server, NEW v \in Value
  PROVE  Proposal(i, v) \in Messages
<1>1. <<[Term |-> 0, Data |-> v]>> \in Seq(Entry)
  BY DEF Entry, Data
<1>2. "MsgProp" \in MessageTypes
  BY DEF MessageTypes
<1> QED
  BY <1>1, <1>2 DEF Proposal, Message, Messages, Unsent

LEMMA NextType ==
  TypeOK /\ [Next]_vars => TypeOK'
<1> SUFFICES ASSUME TypeOK, [Next]_vars
             PROVE  TypeOK'
  OBVIOUS
<1>1. CASE UNCHANGED vars
  BY <1>1 DEF vars, TypeOK
<1> SUFFICES ASSUME NEW i \in Server,
                    \/ ElectionTimeout(i) \/ HeartbeatTimeout(i)
                    \/ \E m \in net : Receive(i, m)
                    \/ \E v \in Value : Propose(i, v)
                    \/ \E m \in net : ReceiveProposal(i, m)
                    \/ Ready(i) \/ Publish(i) \/ Advance(i) \/ Restart(i)
             PROVE  TypeOK'
  BY <1>1 DEF Next
<1> USE DEF TypeOK
<1>2. NodeOK(i, node[i]) /\ net \subseteq Messages /\ campaigns \in 0..MaxCampaigns
  OBVIOUS
<1>3. ASSUME NEW m \in net, Delivers(m)
      PROVE  net' \subseteq Messages
  BY <1>2, <1>3 DEF Delivers
<1> HIDE DEF TypeOK
<1>4. CASE ElectionTimeout(i)
  <2>1. NodeOK(i, hup(node[i], PreVote))
    BY <1>2, CampaignType
  <2>2. campaigns' \in 0..MaxCampaigns
    BY <1>2, <1>4, BoundAssumption DEF ElectionTimeout
  <2> QED BY <1>2, <1>4, <2>1, <2>2, BecomesType DEF ElectionTimeout
<1>5. CASE HeartbeatTimeout(i)
  <2>1. NodeOK(i, bcastHeartbeat(node[i]))
    BY <1>2, BroadcastType
  <2> QED BY <1>2, <1>5, <2>1, BecomesType DEF HeartbeatTimeout
<1>6. CASE \E m \in net : Receive(i, m)
  <2>1. PICK m \in net : Receive(i, m)
    BY <1>6
  <2>2. NodeOK(i, Step(node[i], m))
    BY <1>2, StepType
  <2>3. net' \subseteq Messages
    BY <1>3, <2>1 DEF Receive
  <2> QED BY <1>2, <2>1, <2>2, <2>3, BecomesType DEF Receive
<1>7. CASE \E v \in Value : Propose(i, v)
  <2>1. PICK v \in Value : Propose(i, v)
    BY <1>7
  <2>2. PICK r : r = Step(node[i], Proposal(i, v)) /\ NodeOK(i, r)
    BY <1>2, ProposalType, StepType
  <2>3. NodeOK(i, [r EXCEPT !.waiting = TRUE])
    BY <2>2 DEF NodeOK, NodeRecord
  <2> QED BY <1>2, <2>1, <2>2, <2>3, BecomesType DEF Propose
<1>8. CASE \E m \in net : ReceiveProposal(i, m)
  <2>1. PICK m \in net : ReceiveProposal(i, m)
    BY <1>8
  <2>2. [m EXCEPT !.From = i] \in Messages
    BY <1>2 DEF Messages, Unsent
  <2>3. NodeOK(i, Step(node[i], [m EXCEPT !.From = i]))
    BY <1>2, <2>2, StepType
  <2>4. net' \subseteq Messages
    BY <1>3, <2>1 DEF ReceiveProposal
  <2> QED BY <1>2, <2>1, <2>3, <2>4, BecomesType DEF ReceiveProposal
<1>9. CASE Ready(i)
  <2> DEFINE r == [node[i] EXCEPT !.stepsOnAdvance = node[i].msgsAfterAppend, !.msgs = {},
                                  !.msgsAfterAppend = <<>>, !.ready = node[i].committed,
                                  !.phase = "handed"]
  <2>1. NodeOK(i, r)
    <3>1. PICK n : n = node[i] /\ NodeOK(i, n)
      BY <1>2
    <3>2. <<>> \in Seq(Messages) /\ {} \in SUBSET Messages
      OBVIOUS
    <3>3. NodeOK(i, [n EXCEPT !.stepsOnAdvance = n.msgsAfterAppend, !.msgs = {},
                              !.msgsAfterAppend = <<>>, !.ready = n.committed,
                              !.phase = "handed"])
      BY <3>1, <3>2, ZenonT(30) DEF NodeOK, NodeRecord
    <3> QED BY <3>1, <3>3
  <2>2. net' \subseteq Messages
    BY <1>2, <1>9, Fields DEF Ready
  <2>3. Becomes(i, r) /\ UNCHANGED campaigns
    BY <1>9 DEF Ready
  <2> HIDE DEF r
  <2> QED BY <1>2, <2>1, <2>2, <2>3, BecomesType
<1>10. CASE Publish(i)
  <2> DEFINE r == [node[i] EXCEPT !.appliedIndex = node[i].ready]
             conf == \E k \in Unpublished(node[i]) : r.log[k].Data = ConfEntry
  <2>1. NodeOK(i, r) /\ NodeOK(i, switchToConfig(r))
    <3>1. NodeOK(i, r)
      BY <1>2, Fields, FieldType
    <3> QED BY <3>1, SwitchToConfigType
  <2>2. Becomes(i, IF conf THEN switchToConfig(r) ELSE r) /\ UNCHANGED <<net, campaigns>>
    BY <1>10 DEF Publish
  <2> HIDE DEF r, conf
  <2> QED BY <1>2, <2>1, <2>2, BecomesType
<1>11. CASE Advance(i)
  <2>1. CASE node[i].stepsOnAdvance = <<>>
    <3>1. PICK n : n = node[i] /\ NodeOK(i, n)
      BY <1>2
    <3>2. NodeOK(i, [n EXCEPT !.phase = "idle"])
      BY <3>1 DEF NodeOK, NodeRecord
    <3> QED BY <1>2, <1>11, <2>1, <3>1, <3>2, BecomesType DEF Advance
  <2>2. CASE node[i].stepsOnAdvance # <<>>
    <3> DEFINE rest == Tail(node[i].stepsOnAdvance)
               phase == IF rest = <<>> THEN "idle" ELSE "advancing"
               r == [node[i] EXCEPT !.stepsOnAdvance = rest, !.phase = phase]
               m == Head(node[i].stepsOnAdvance)
    <3>1. rest \in Seq(Messages) /\ m \in Messages
      BY <1>2, <2>2, Fields, HeadTailProperties
    <3>2. NodeOK(i, r)
      <4>1. PICK n : n = node[i] /\ NodeOK(i, n)
        BY <1>2
      <4>2. phase \in {"idle", "handed", "advancing"}
        OBVIOUS
      <4> HIDE DEF rest, phase
      <4>3. NodeOK(i, [n EXCEPT !.stepsOnAdvance = rest, !.phase = phase])
        BY <3>1, <4>1, <4>2, ZenonT(30) DEF NodeOK, NodeRecord
      <4> QED BY <4>1, <4>3
    <3>3. Becomes(i, Step(r, m)) /\ UNCHANGED <<net, campaigns>>
      BY <1>11, <2>2 DEF Advance, AdvanceStep
    <3> HIDE DEF r, m
    <3>4. NodeOK(i, Step(r, m))
      BY <3>1, <3>2, StepType
    <3> QED BY <1>2, <3>3, <3>4, BecomesType
  <2> QED BY <2>1, <2>2
<1>12. CASE Restart(i)
  <2>1. Started(i) \in NodeRecord /\ NodeOK(i, Started(i))
    BY StartedType DEF NodeOK
  <2>2. node' \in [Server -> NodeRecord]
        /\ \A j \in Server : node'[j] = IF j = i THEN Started(i) ELSE node[j]
    BY <1>12, <2>1 DEF Restart, TypeOK
  <2>3. \A j \in Server : NodeOK(j, node'[j])
    BY <2>1, <2>2 DEF TypeOK
  <2>4. restarts' \in 0..MaxRestarts
    BY <1>12, BoundAssumption DEF Restart, TypeOK
  <2> QED BY <1>12, <2>2, <2>3, <2>4 DEF Restart, TypeOK
<1> QED
  BY <1>4, <1>5, <1>6, <1>7, <1>8, <1>9, <1>10, <1>11, <1>12

LEMMA InitType ==
  Init => TypeOK
<1> SUFFICES ASSUME Init PROVE TypeOK
  OBVIOUS
<1>1. \A i \in Server : Started(i) \in NodeRecord /\ NodeOK(i, Started(i))
  BY StartedType DEF NodeOK
<1> QED
  BY <1>1, BoundAssumption DEF Init, TypeOK

\* Every state of every behaviour is well formed, whatever the constants: no
\* handler of raft.go leaves a field, a Progress or a message without its type,
\* or Next at or below Match.
THEOREM TypeCorrect == Spec => []TypeOK
BY InitType, NextType, PTL DEF Spec
-----------------------------------------------------------------------------
(* Elections *)

\* What node r has produced since its last Ready.
Outbox(r) == r.msgs \cup Elements(r.msgsAfterAppend)

\* A message that is neither a vote nor a leader's without a term.
Routine(m) == ~ Granted(m) /\ Dated(m)

\* s is r as far as the election goes.
Same(r, s) ==
  /\ s.id = r.id /\ s.voters = r.voters /\ s.Term = r.Term /\ s.Vote = r.Vote
  /\ s.state = r.state /\ s.votes = r.votes /\ s.stepsOnAdvance = r.stepsOnAdvance
  /\ (\A n \in DOMAIN r.msgsAfterAppend : r.msgsAfterAppend[n].To = r.id) =>
       \A n \in DOMAIN s.msgsAfterAppend : s.msgsAfterAppend[n].To = s.id

\* s is r after an operator that votes for nobody.
Keeps(r, s) == Same(r, s) /\ \A m \in Outbox(s) : m \in Outbox(r) \/ Routine(m)
-----------------------------------------------------------------------------
(* Operators that no election notices *)

LEMMA KeepsSelf ==
  ASSUME NEW r
  PROVE  Keeps(r, r)
BY DEF Keeps, Same

LEMMA KeepsTransitive ==
  ASSUME NEW r, NEW s, NEW u, Keeps(r, s), Keeps(s, u)
  PROVE  Keeps(r, u)
BY DEF Keeps, Same

\* Fields that an election does not depend on.
LEMMA FieldKeeps ==
  ASSUME NEW i, NEW r, NodeOK(i, r)
  PROVE  /\ \A l : Keeps(r, [r EXCEPT !.log = l])
         /\ \A n : Keeps(r, [r EXCEPT !.committed = n])
         /\ \A l, n : Keeps(r, [r EXCEPT !.log = l, !.committed = n])
         /\ \A n : Keeps(r, [r EXCEPT !.appliedIndex = n])
         /\ \A v : Keeps(r, [r EXCEPT !.lead = v])
         /\ \A p : Keeps(r, [r EXCEPT !.prs = p])
         /\ \A w : Keeps(r, [r EXCEPT !.waiting = w])
         /\ \A ph : Keeps(r, [r EXCEPT !.phase = ph])
         /\ Keeps(r, panic(r))
<1>1. \A l : Keeps(r, [r EXCEPT !.log = l])
  BY DEF NodeOK, NodeRecord, Keeps, Same, Outbox
<1>2. \A n : Keeps(r, [r EXCEPT !.committed = n])
  BY DEF NodeOK, NodeRecord, Keeps, Same, Outbox
<1>3. \A l, n : Keeps(r, [r EXCEPT !.log = l, !.committed = n])
  BY DEF NodeOK, NodeRecord, Keeps, Same, Outbox
<1>4. \A n : Keeps(r, [r EXCEPT !.appliedIndex = n])
  BY DEF NodeOK, NodeRecord, Keeps, Same, Outbox
<1>5. \A v : Keeps(r, [r EXCEPT !.lead = v])
  BY DEF NodeOK, NodeRecord, Keeps, Same, Outbox
<1>6. \A p : Keeps(r, [r EXCEPT !.prs = p])
  BY DEF NodeOK, NodeRecord, Keeps, Same, Outbox
<1>7. \A w : Keeps(r, [r EXCEPT !.waiting = w])
  BY DEF NodeOK, NodeRecord, Keeps, Same, Outbox
<1>8. \A ph : Keeps(r, [r EXCEPT !.phase = ph])
  BY DEF NodeOK, NodeRecord, Keeps, Same, Outbox
<1>9. Keeps(r, panic(r))
  BY DEF NodeOK, NodeRecord, Keeps, Same, Outbox, panic
<1> QED
  BY <1>1, <1>2, <1>3, <1>4, <1>5, <1>6, <1>7, <1>8, <1>9

LEMMA AppendElements ==
  ASSUME NEW S, NEW q \in Seq(S), NEW e
  PROVE  Elements(Append(q, e)) = Elements(q) \cup {e}
<1>1. q \in Seq(S \cup {e}) /\ e \in S \cup {e}
  OBVIOUS
<1>2. /\ DOMAIN Append(q, e) = 1 .. (Len(q) + 1) /\ DOMAIN q = 1 .. Len(q) /\ Len(q) \in Nat
      /\ \A k \in 1 .. Len(q) : Append(q, e)[k] = q[k]
      /\ Append(q, e)[Len(q) + 1] = e
  BY <1>1, AppendProperties, LenProperties
<1>3. \A k \in 1 .. (Len(q) + 1) : k \in 1 .. Len(q) \/ k = Len(q) + 1
  BY <1>2
<1> QED
  BY <1>2, <1>3 DEF Elements

\* send adds one message, unless it panics.
LEMMA SendSame ==
  ASSUME NEW i, NEW r, NodeOK(i, r), NEW m \in Unsent
  PROVE  /\ Same(r, send(r, m))
         /\ \A x \in Outbox(send(r, m)) :
              x \in Outbox(r) \/ (x = stamp(r, m) /\ ~ sendPanics(r, m))
<1> DEFINE s == stamp(r, m)
<1>1. s.To = m.To
  BY DEF stamp, Unsent
<1>2. r.msgsAfterAppend \in Seq(Messages)
  BY Fields
<1> HIDE DEF s
<1>3. CASE sendPanics(r, m)
  <2>1. send(r, m) = panic(r)
    BY <1>3 DEF send
  <2>2. Same(r, panic(r))
    BY FieldKeeps DEF Keeps
  <2>3. Outbox(panic(r)) = Outbox(r)
    BY DEF NodeOK, NodeRecord, panic, Outbox
  <2> QED BY <2>1, <2>2, <2>3
<1>4. CASE ~ sendPanics(r, m) /\ m.To = r.id
  <2>1. PICK q : q = Append(r.msgsAfterAppend, s)
    OBVIOUS
  <2>2. send(r, m) = [r EXCEPT !.msgsAfterAppend = q]
    BY <1>4, <2>1 DEF send, s
  <2>3. Elements(q) = Elements(r.msgsAfterAppend) \cup {s}
    BY <1>2, <2>1, AppendElements
  <2>4. (\A x \in Elements(r.msgsAfterAppend) : x.To = r.id) => \A x \in Elements(q) : x.To = r.id
    BY <1>1, <1>4, <2>3
  <2>5. Same(r, [r EXCEPT !.msgsAfterAppend = q])
    BY <2>4 DEF NodeOK, NodeRecord, Same, Elements
  <2>6. Outbox([r EXCEPT !.msgsAfterAppend = q]) = Outbox(r) \cup {s}
    BY <2>3 DEF NodeOK, NodeRecord, Outbox
  <2> QED BY <1>4, <2>2, <2>5, <2>6 DEF s
<1>5. CASE ~ sendPanics(r, m) /\ m.To # r.id
  <2>1. send(r, m) = [r EXCEPT !.msgs = @ \cup {s}]
    BY <1>5 DEF send, s
  <2>2. Same(r, [r EXCEPT !.msgs = @ \cup {s}])
    BY DEF NodeOK, NodeRecord, Same
  <2>3. Outbox([r EXCEPT !.msgs = @ \cup {s}]) = Outbox(r) \cup {s}
    BY DEF NodeOK, NodeRecord, Outbox
  <2> QED BY <1>5, <2>1, <2>2, <2>3 DEF s
<1> QED
  BY <1>3, <1>4, <1>5

\* A message that is not a vote goes out as one that is not.
LEMMA StampRoutine ==
  ASSUME NEW i, NEW r, NodeOK(i, r), NEW m \in Unsent, m.Type # "MsgVoteResp" \/ m.Reject,
         m.Type \in LeaderMsgs => r.Term > 0
  PROVE  Routine(stamp(r, m))
<1>1. stamp(r, m).Type = m.Type /\ stamp(r, m).Reject = m.Reject
  BY DEF stamp, Unsent
<1>2. m.Type \in LeaderMsgs => stamp(r, m).Term = r.Term
  BY DEF stamp, Unsent, LeaderMsgs, VoteMsgs
<1> QED
  BY <1>1, <1>2 DEF Routine, Dated, Granted

LEMMA SendKeeps ==
  ASSUME NEW i, NEW r, NodeOK(i, r), NEW m \in Unsent, m.Type # "MsgVoteResp" \/ m.Reject,
         m.Type \notin LeaderMsgs
  PROVE  Keeps(r, send(r, m))
BY SendSame, StampRoutine DEF Keeps

LEMMA SendAllKeeps ==
  ASSUME NEW i, NEW r, NodeOK(i, r), NEW M \in SUBSET Unsent,
         \A m \in M : m.Type # "MsgVoteResp" /\ (m.Type \in LeaderMsgs => r.Term > 0)
  PROVE  Keeps(r, sendAll(r, M))
<1> DEFINE S == {stamp(r, m) : m \in M}
<1>1. \A x \in S : Routine(x)
  BY StampRoutine
<1> HIDE DEF S
<1>2. Keeps(r, [r EXCEPT !.msgs = @ \cup S])
  <2>1. Same(r, [r EXCEPT !.msgs = @ \cup S])
    BY DEF NodeOK, NodeRecord, Same
  <2>2. Outbox([r EXCEPT !.msgs = @ \cup S]) = Outbox(r) \cup S
    BY DEF NodeOK, NodeRecord, Outbox
  <2> QED BY <1>1, <2>1, <2>2 DEF Keeps
<1> QED
  BY <1>2, FieldKeeps DEF sendAll, S

LEMMA AppendToFields ==
  ASSUME NEW r, NEW to
  PROVE  appendTo(r, to).Type = "MsgApp"
BY DEF appendTo, Message

LEMMA MaybeSendAppendKeeps ==
  ASSUME NEW i, NEW r, NodeOK(i, r), NEW dests \in SUBSET r.voters, NEW sendIfEmpty, r.Term > 0
  PROVE  Keeps(r, maybeSendAppend(r, dests, sendIfEmpty))
<1> DEFINE known == {to \in dests : termKnown(r.log, r.prs[to].Next - 1)}
           sent  == {to \in known : sendIfEmpty \/ appendTo(r, to).Entries # <<>>}
           M     == {appendTo(r, to) : to \in sent}
           prs   == [to \in r.voters |->
                       IF to \in sent
                       THEN UpdateOnEntriesSend(r.prs[to], appendTo(r, to).Entries)
                       ELSE r.prs[to]]
           s     == sendAll(r, M)
<1>1. M \in SUBSET Unsent
  BY AppendToType
<1>2. \A m \in M : m.Type = "MsgApp"
  BY AppendToFields
<1>3. maybeSendAppend(r, dests, sendIfEmpty) = [s EXCEPT !.prs = prs]
  BY DEF maybeSendAppend
<1> HIDE DEF M, prs
<1>4. Keeps(r, s) /\ NodeOK(i, s)
  BY <1>1, <1>2, SendAllKeeps, SendAllType
<1> HIDE DEF s
<1>5. Keeps(s, [s EXCEPT !.prs = prs])
  BY <1>4, FieldKeeps
<1> QED
  BY <1>3, <1>4, <1>5, KeepsTransitive

LEMMA BroadcastKeeps ==
  ASSUME NEW i, NEW r, NodeOK(i, r), r.Term > 0
  PROVE  Keeps(r, bcastAppend(r)) /\ Keeps(r, bcastHeartbeat(r))
<1>1. Peers(r) \in SUBSET r.voters
  BY DEF Peers
<1>2. Keeps(r, bcastAppend(r))
  BY <1>1, MaybeSendAppendKeeps DEF bcastAppend
<1> DEFINE commit(to) == IF r.prs[to].Match < r.committed THEN r.prs[to].Match ELSE r.committed
           M == {[Message("MsgHeartbeat", to) EXCEPT !.Commit = commit(to)] : to \in Peers(r)}
<1>3. \A to \in Peers(r) : commit(to) \in Nat /\ to \in Server
  BY <1>1, Fields DEF ProgressOK, ProgressRecord
<1>4. "MsgHeartbeat" \in MessageTypes \ {"MsgProp"}
  BY DEF MessageTypes, LeaderMsgs
<1>5. M \in SUBSET Unsent
  <2> HIDE DEF commit
  <2>1. \A to \in Peers(r) : [Message("MsgHeartbeat", to) EXCEPT !.Commit = commit(to)] \in Unsent
    BY <1>3, <1>4, MessageType
  <2> QED BY <2>1
<1>6. \A m \in M : m.Type = "MsgHeartbeat"
  BY DEF Message
<1>7. bcastHeartbeat(r) = sendAll(r, M)
  BY DEF bcastHeartbeat
<1> HIDE DEF M
<1> QED
  BY <1>2, <1>5, <1>6, <1>7, SendAllKeeps

LEMMA AppendEntryKeeps ==
  ASSUME NEW i, NEW r, NodeOK(i, r), NEW data \in Data
  PROVE  Keeps(r, appendEntry(r, data))
<1> DEFINE log == Append(r.log, [Term |-> r.Term, Data |-> data])
           l   == [r EXCEPT !.log = log]
           m   == [Message("MsgAppResp", r.id) EXCEPT !.Index = lastIndex(log)]
<1>1. log \in Seq(Entry)
  <2>1. [Term |-> r.Term, Data |-> data] \in Entry
    BY Fields DEF Entry
  <2> QED BY <2>1, Fields
<1>2. NodeOK(i, l) /\ Keeps(r, l)
  <2> HIDE DEF log
  <2> QED BY <1>1, FieldType, FieldKeeps
<1>3. m \in Unsent
  <2>1. lastIndex(log) \in Nat
    BY <1>1, TermType
  <2>2. "MsgAppResp" \in MessageTypes \ {"MsgProp"}
    BY DEF MessageTypes, ResponseMsgs, AfterAppend
  <2> HIDE DEF log
  <2> QED BY <2>1, <2>2, Fields, MessageType
<1>4. m.Type = "MsgAppResp"
  BY DEF Message
<1>5. appendEntry(r, data) = send(l, m)
  BY DEF appendEntry
<1> HIDE DEF l, m
<1>6. Keeps(l, send(l, m))
  BY <1>2, <1>3, <1>4, SendKeeps DEF LeaderMsgs
<1> QED
  BY <1>2, <1>5, <1>6, KeepsTransitive

LEMMA MaybeCommitKeeps ==
  ASSUME NEW i, NEW r, NodeOK(i, r)
  PROVE  Keeps(r, maybeCommit(r))
<1>1. Keeps(r, [r EXCEPT !.committed = commitTo(@, Committed(r))])
  <2>1. PICK n : n = commitTo(r.committed, Committed(r))
    OBVIOUS
  <2> QED BY <2>1, FieldKeeps
<1> QED
  BY <1>1, KeepsSelf DEF maybeCommit

LEMMA HandleHeartbeatKeeps ==
  ASSUME NEW i, NEW r, NodeOK(i, r), NEW m \in Messages
  PROVE  Keeps(r, handleHeartbeat(r, m))
<1>1. m.From \in Server
  BY DEF Messages
<1>2. "MsgHeartbeatResp" \in MessageTypes \ {"MsgProp"}
  BY DEF MessageTypes, ResponseMsgs
<1>3. PICK x \in Unsent : x = Message("MsgHeartbeatResp", m.From)
  BY <1>1, <1>2, MessageType
<1>4. x.Type = "MsgHeartbeatResp"
  BY <1>3 DEF Message
<1> QED
  BY <1>3, <1>4, SendKeeps DEF handleHeartbeat, LeaderMsgs

\* The hint of a rejection, and its term
LEMMA HintType ==
  ASSUME NEW log \in Seq(Entry), NEW index \in Nat, NEW t
  PROVE  /\ findConflictByTerm(log, index, t) \in Nat
         /\ zeroTermOnOutOfBounds(log, findConflictByTerm(log, index, t)) \in Nat
<1>1. findConflictByTerm(log, index, t) \in Int /\ findConflictByTerm(log, index, t) \in Nat
  BY FindConflictByTermType
<1>2. \A i \in Int : zeroTermOnOutOfBounds(log, i) \in Nat
  BY TermType
<1> QED BY <1>1, <1>2

LEMMA HandleAppendEntriesKeeps ==
  ASSUME NEW i, NEW r, NodeOK(i, r), NEW m \in Messages
  PROVE  Keeps(r, handleAppendEntries(r, m))
<1> DEFINE resp     == Message("MsgAppResp", m.From)
           lastnewi == m.Index + Len(m.Entries)
           tocommit == IF m.Commit < lastnewi THEN m.Commit ELSE lastnewi
           log      == appended(r.log, m.Index, m.Entries)
           from     == IF m.Index < lastIndex(r.log) THEN m.Index ELSE lastIndex(r.log)
           hint     == findConflictByTerm(r.log, from, m.LogTerm)
           hintTerm == zeroTermOnOutOfBounds(r.log, hint)
           stale    == [resp EXCEPT !.Index = r.committed]
           accept   == [resp EXCEPT !.Index = lastnewi]
           reject   == [resp EXCEPT !.Index = m.Index, !.Reject = TRUE, !.RejectHint = hint,
                                    !.LogTerm = hintTerm]
<1>1. m.From \in Server /\ m.Index \in Nat /\ m.Commit \in Nat /\ m.Entries \in Seq(Entry)
  BY DEF Messages, Unsent
<1>2. lastnewi \in Nat /\ tocommit \in Nat
  BY <1>1, LenProperties
<1>3. hint \in Nat /\ hintTerm \in Nat
  <2>1. from \in Nat
    BY <1>1, Fields, TermType
  <2> HIDE DEF from
  <2>2. r.log \in Seq(Entry)
    BY Fields
  <2> QED BY <2>1, <2>2, HintType
<1>4. "MsgAppResp" \in MessageTypes \ {"MsgProp"}
  BY DEF MessageTypes, ResponseMsgs, AfterAppend
<1>5. /\ stale \in Unsent /\ stale.Type = "MsgAppResp"
      /\ accept \in Unsent /\ accept.Type = "MsgAppResp"
      /\ reject \in Unsent /\ reject.Type = "MsgAppResp"
  <2> HIDE DEF lastnewi, hint, hintTerm
  <2>1. r.committed \in Nat
    BY Fields
  <2>2. stale \in Unsent /\ accept \in Unsent /\ reject \in Unsent
    BY <1>1, <1>2, <1>3, <1>4, <2>1, MessageType
  <2>3. stale.Type = "MsgAppResp" /\ accept.Type = "MsgAppResp" /\ reject.Type = "MsgAppResp"
    BY DEF Message
  <2> QED BY <2>2, <2>3
<1> HIDE DEF stale, accept, reject
<1>6. CASE m.Index < r.committed
  <2>1. handleAppendEntries(r, m) = send(r, stale)
    <3>1. ~ (m.Index >= r.committed)
      BY <1>1, <1>6, Fields
    <3> QED BY <1>6, <3>1 DEF handleAppendEntries, stale
  <2> QED BY <1>5, <2>1, SendKeeps DEF LeaderMsgs
<1>7. CASE m.Index >= r.committed /\ matchTerm(r.log, m.Index, m.LogTerm)
  <2> DEFINE a == [r EXCEPT !.log = log, !.committed = commitTo(@, tocommit)]
             p == \/ appendPanics(r.log, r.committed, m.Index, m.Entries)
                  \/ commitPanics(log, r.committed, tocommit)
  <2>1. log \in Seq(Entry)
    BY <1>1, <1>7, Fields, AppendedType DEF matchTerm, termKnown
  <2>2. PICK n \in Nat : n = commitTo(r.committed, tocommit)
    <3> HIDE DEF tocommit
    <3> QED BY <1>2, Fields DEF commitTo
  <2>3. a = [r EXCEPT !.log = log, !.committed = n]
    BY <2>2
  <2>4. handleAppendEntries(r, m) = IF p THEN panic(r) ELSE send(a, accept)
    <3>1. ~ (m.Index < r.committed)
      BY <1>1, <1>7, Fields
    <3> QED BY <1>7, <3>1 DEF handleAppendEntries, accept
  <2> HIDE DEF a, p, log
  <2>5. NodeOK(i, a) /\ Keeps(r, a)
    BY <2>1, <2>3, FieldKeeps DEF NodeOK, NodeRecord
  <2>6. Keeps(a, send(a, accept))
    BY <1>5, <2>5, SendKeeps DEF LeaderMsgs
  <2> QED BY <2>4, <2>5, <2>6, KeepsTransitive, FieldKeeps
<1>8. CASE ~ (m.Index < r.committed) /\ ~ matchTerm(r.log, m.Index, m.LogTerm)
  <2>1. handleAppendEntries(r, m) = send(r, reject)
    BY <1>8 DEF handleAppendEntries, reject
  <2> QED BY <1>5, <2>1, SendKeeps DEF LeaderMsgs
<1> QED
  BY <1>1, <1>6, <1>7, <1>8, Fields

LEMMA StepFollowerKeeps ==
  ASSUME NEW i, NEW r, NodeOK(i, r), NEW m \in Messages
  PROVE  Keeps(r, stepFollower(r, m))
<1> DEFINE l == [r EXCEPT !.lead = m.From]
           f == [m EXCEPT !.To = r.lead]
<1>1. NodeOK(i, l) /\ Keeps(r, l)
  BY LeadType, FieldKeeps
<1>2. r.lead # None => f \in Unsent
  BY Fields DEF Messages, Unsent
<1>3. f.Type = m.Type
  BY DEF Messages, Unsent
<1>4. CASE m.Type = "MsgProp"
  <2>1. stepFollower(r, m) = IF r.lead = None THEN r ELSE send(r, f)
    BY <1>4 DEF stepFollower
  <2> HIDE DEF f
  <2> QED BY <1>2, <1>3, <1>4, <2>1, SendKeeps, KeepsSelf DEF LeaderMsgs
<1> HIDE DEF l
<1>5. CASE m.Type = "MsgApp"
  <2>1. stepFollower(r, m) = handleAppendEntries(l, m)
    BY <1>5 DEF stepFollower, l
  <2> QED BY <1>1, <2>1, HandleAppendEntriesKeeps, KeepsTransitive
<1>6. CASE m.Type = "MsgHeartbeat"
  <2>1. stepFollower(r, m) = handleHeartbeat(l, m)
    BY <1>6 DEF stepFollower, l
  <2> QED BY <1>1, <2>1, HandleHeartbeatKeeps, KeepsTransitive
<1>7. CASE m.Type \notin {"MsgProp", "MsgApp", "MsgHeartbeat"}
  BY <1>7, KeepsSelf DEF stepFollower
<1> QED
  BY <1>4, <1>5, <1>6, <1>7

LEMMA HandleAppendResponseKeeps ==
  ASSUME NEW i, NEW r, NodeOK(i, r), NEW m \in Messages, m.From \in r.voters, r.Term > 0
  PROVE  Keeps(r, handleAppendResponse(r, m))
<1> DEFINE pr      == r.prs[m.From]
           moves   == Updates(pr, m.Index) \/ (pr.Match = m.Index /\ pr.State = "StateProbe")
           updated == MaybeUpdate(pr, m.Index)
           newPr   == IF moves /\ updated.State = "StateProbe"
                      THEN BecomeReplicate(updated) ELSE updated
           prs     == [r.prs EXCEPT ![m.From] = newPr]
           tracked == [r EXCEPT !.prs = prs]
           sent    == CASE commitAdvances(tracked) -> bcastAppend(maybeCommit(tracked))
                        [] ~ commitAdvances(tracked) /\ IsPaused(pr) ->
                             maybeSendAppend(tracked, {m.From}, TRUE)
                        [] OTHER -> tracked
<1>1. m.Index \in Nat
  BY DEF Messages, Unsent
<1>2. ProgressOK(newPr)
  <2>1. ProgressOK(updated)
    BY <1>1, Fields, MaybeUpdateType
  <2> HIDE DEF updated
  <2> QED BY <2>1, BecomeReplicateType
<1>3. prs \in [r.voters -> ProgressRecord] /\ \A j \in r.voters : ProgressOK(prs[j])
  <2>1. r.prs \in [r.voters -> ProgressRecord] /\ \A j \in r.voters : ProgressOK(r.prs[j])
    BY Fields
  <2> HIDE DEF newPr
  <2> QED BY <1>2, <2>1 DEF ProgressOK
<1>4. NodeOK(i, tracked) /\ Keeps(r, tracked)
  <2> HIDE DEF prs
  <2> QED BY <1>3, FieldType, FieldKeeps
<1>5. handleAppendResponse(r, m) =
        CASE m.Reject -> r
          [] ~ m.Reject /\ ~ moves -> tracked
          [] OTHER -> IF m.From = r.id THEN sent ELSE maybeSendAppend(sent, {m.From}, FALSE)
  BY DEF handleAppendResponse
<1>6. NodeOK(i, sent) /\ Keeps(r, sent)
  <2> HIDE DEF tracked
  <2>1. tracked.Term = r.Term /\ tracked.voters = r.voters
    BY <1>4 DEF Keeps, Same
  <2>2. CASE commitAdvances(tracked)
    <3>1. PICK c : c = maybeCommit(tracked) /\ NodeOK(i, c) /\ Keeps(tracked, c)
      BY <1>4, MaybeCommitType, MaybeCommitKeeps
    <3>2. c.Term > 0
      BY <2>1, <3>1 DEF Keeps, Same
    <3>3. NodeOK(i, bcastAppend(c)) /\ Keeps(c, bcastAppend(c))
      BY <3>1, <3>2, BroadcastType, BroadcastKeeps
    <3>4. sent = bcastAppend(c)
      BY <2>2, <3>1
    <3> HIDE DEF sent
    <3> QED BY <1>4, <3>1, <3>3, <3>4, KeepsTransitive
  <2>3. CASE ~ commitAdvances(tracked)
    <3>1. {m.From} \in SUBSET tracked.voters
      BY <2>1
    <3>2. PICK t : t = maybeSendAppend(tracked, {m.From}, TRUE) /\ NodeOK(i, t) /\ Keeps(tracked, t)
      BY <1>4, <2>1, <3>1, MaybeSendAppendType, MaybeSendAppendKeeps
    <3>3. sent = t \/ sent = tracked
      BY <2>3, <3>2
    <3> HIDE DEF sent
    <3> QED BY <1>4, <3>2, <3>3, KeepsTransitive
  <2> QED BY <2>2, <2>3
<1> HIDE DEF moves, tracked, sent
<1>7. Keeps(r, maybeSendAppend(sent, {m.From}, FALSE))
  <2>1. sent.Term > 0 /\ {m.From} \in SUBSET sent.voters
    BY <1>6 DEF Keeps, Same
  <2>2. Keeps(sent, maybeSendAppend(sent, {m.From}, FALSE))
    BY <1>6, <2>1, MaybeSendAppendKeeps
  <2> QED BY <1>6, <2>2, KeepsTransitive
<1> QED
  BY <1>4, <1>5, <1>6, <1>7, KeepsSelf

LEMMA StepLeaderKeeps ==
  ASSUME NEW i, NEW r, NodeOK(i, r), NEW m \in Messages, r.Term > 0
  PROVE  Keeps(r, stepLeader(r, m))
<1>1. CASE m.Type = "MsgProp"
  <2>1. m.Entries \in Seq(Entry) /\ m.Entries # <<>>
    BY <1>1 DEF Messages, Unsent
  <2>2. m.Entries[1].Data \in Data
    <3>1. m.Entries[1] \in Entry
      BY <2>1, EmptySeq, ElementOfSeq
    <3> QED BY <3>1 DEF Entry
  <2>3. PICK a : a = appendEntry(r, m.Entries[1].Data) /\ NodeOK(i, a) /\ Keeps(r, a)
    BY <2>2, AppendEntryType, AppendEntryKeeps
  <2>4. Keeps(a, bcastAppend(a))
    BY <2>3, BroadcastKeeps DEF Keeps, Same
  <2> QED BY <1>1, <2>3, <2>4, KeepsSelf, KeepsTransitive DEF stepLeader
<1>2. CASE m.Type = "MsgAppResp" /\ m.From \in r.voters
  BY <1>2, HandleAppendResponseKeeps DEF stepLeader
<1>3. CASE m.Type # "MsgProp" /\ ~ (m.Type = "MsgAppResp" /\ m.From \in r.voters)
  BY <1>3, KeepsSelf DEF stepLeader
<1> QED
  BY <1>1, <1>2, <1>3

LEMMA LowerTermKeeps ==
  ASSUME NEW i, NEW r, NodeOK(i, r), NEW m \in Messages
  PROVE  Keeps(r, lowerTerm(r, m))
<1> DEFINE stale == (CheckQuorum \/ PreVote) /\ m.Type \in LeaderMsgs
           app == Message("MsgAppResp", m.From)
           pre == [Message("MsgPreVoteResp", m.From) EXCEPT !.Term = r.Term, !.Reject = TRUE]
<1>1. m.From \in Server /\ r.Term \in Nat
  BY Fields DEF Messages, Unsent
<1>2. {"MsgAppResp", "MsgPreVoteResp"} \subseteq MessageTypes \ {"MsgProp"}
  BY DEF MessageTypes, ResponseMsgs, AfterAppend
<1>3. app \in Unsent /\ app.Type = "MsgAppResp"
  BY <1>1, <1>2, MessageType DEF Message
<1>4. pre \in Unsent /\ pre.Type = "MsgPreVoteResp"
  BY <1>1, <1>2, MessageType DEF Message
<1>5. m.Type = "MsgPreVote" => ~ stale
  BY DEF LeaderMsgs
<1>6. lowerTerm(r, m) =
        IF stale THEN send(r, app) ELSE IF m.Type = "MsgPreVote" THEN send(r, pre) ELSE r
  BY <1>5 DEF lowerTerm
<1> HIDE DEF stale, app, pre
<1> QED
  BY <1>3, <1>4, <1>6, SendKeeps, KeepsSelf DEF LeaderMsgs

LEMMA SwitchToConfigKeeps ==
  ASSUME NEW i, NEW r, NodeOK(i, r), r.state = "StateLeader" => r.Term > 0
  PROVE  Keeps(r, switchToConfig(r))
<1>1. CASE r.state = "StateLeader"
  <2>1. PICK c : c = maybeCommit(r) /\ NodeOK(i, c) /\ Keeps(r, c)
    BY MaybeCommitType, MaybeCommitKeeps
  <2>2. Keeps(r, bcastAppend(c))
    <3>1. Keeps(c, bcastAppend(c))
      BY <1>1, <2>1, BroadcastKeeps DEF Keeps, Same
    <3> QED BY <2>1, <3>1, KeepsTransitive
  <2>3. Keeps(r, maybeSendAppend(r, Peers(r), FALSE))
    BY <1>1, MaybeSendAppendKeeps DEF Peers
  <2> QED BY <2>1, <2>2, <2>3, KeepsSelf DEF switchToConfig
<1>2. CASE r.state # "StateLeader"
  BY <1>2, KeepsSelf DEF switchToConfig
<1> QED
  BY <1>1, <1>2
-----------------------------------------------------------------------------
(* Handlers that an election notices *)

\* Server votes for s.Vote in term s.Term.
Ballot(s) == <<s.id, s.Term, s.Vote>>

\* s is r after a handler: time does not go back, a vote stays cast in its
\* term, and a message that is new and a vote is the vote s has cast.
Moves(r, s) ==
  /\ s.id = r.id /\ s.voters = r.voters /\ s.stepsOnAdvance = r.stepsOnAdvance
  /\ (\A n \in DOMAIN r.msgsAfterAppend : r.msgsAfterAppend[n].To = r.id) =>
       \A n \in DOMAIN s.msgsAfterAppend : s.msgsAfterAppend[n].To = s.id
  /\ s.Term >= r.Term
  /\ s.Term = r.Term => r.Vote \in {None, s.Vote}
  /\ \A m \in Outbox(s) :
       \/ m \in Outbox(r)
       \/ Routine(m)
       \/ Dated(m) /\ s.Vote # None /\ <<m.From, m.Term, m.To>> = Ballot(s)

\* r has the ballots of a majority, those of C included.
Elected(r, C) ==
  \E Q \in SUBSET Server :
    /\ 2 * Cardinality(Q) > Cardinality(Server)
    /\ \A k \in Q : <<k, r.Term, r.id>> \in Counted(r) \cup C

\* What s has counted, r had or is in C, and s leads if r did or was elected.
Tallies(r, s, C) ==
  /\ Counted(s) \subseteq Counted(r) \cup C
  /\ s.state = "StateLeader" =>
       \/ r.state = "StateLeader" /\ s.Term = r.Term
       \/ /\ s.Term = r.Term /\ s.Vote = r.Vote
          /\ \A m \in Outbox(s) : m \in Outbox(r) \/ Routine(m)
          /\ Elected(r, C)
  /\ s.state \in {"StatePreCandidate", "StateCandidate"} => s.voters = Server
  /\ s.state \in {"StateCandidate", "StateLeader"} => s.Term > 0

Handles(r, s, C) == Moves(r, s) /\ Tallies(r, s, C)

\* A node in a role has what the role needs.
RoleOK(r) ==
  /\ r.state \in {"StatePreCandidate", "StateCandidate"} => r.voters = Server
  /\ r.state \in {"StateCandidate", "StateLeader"} => r.Term > 0

LEMMA KeepsHandles ==
  ASSUME NEW i, NEW r, NodeOK(i, r), NEW s, Keeps(r, s), RoleOK(r), NEW C
  PROVE  Handles(r, s, C)
<1>1. Moves(r, s)
  BY Fields DEF Keeps, Same, Moves
<1>2. Counted(s) = Counted(r)
  BY DEF Keeps, Same, Counted
<1> QED
  BY <1>1, <1>2 DEF Handles, Tallies, Keeps, Same, RoleOK

LEMMA HandlesKeeps ==
  ASSUME NEW r, NEW h, NEW s, NEW C, Handles(r, h, C), Keeps(h, s)
  PROVE  Handles(r, s, C)
<1>1. s.id = h.id /\ s.voters = h.voters /\ s.Term = h.Term /\ s.Vote = h.Vote
      /\ s.state = h.state /\ Ballot(s) = Ballot(h)
  BY DEF Keeps, Same, Ballot
<1>2. Moves(r, s)
  BY <1>1 DEF Handles, Moves, Keeps, Same
<1>3. Counted(s) = Counted(h)
  BY DEF Keeps, Same, Counted
<1> QED
  BY <1>1, <1>2, <1>3 DEF Handles, Tallies, Keeps

LEMMA ResetFields ==
  ASSUME NEW i, NEW r, NodeOK(i, r), NEW t \in Nat, NEW s, s = reset(r, t)
  PROVE  /\ s.Term = t /\ s.Vote = voteAfter(r, t) /\ s.votes = ResetVotes(Server)
         /\ s.id = r.id /\ s.voters = r.voters /\ s.state = r.state /\ s.msgs = r.msgs
         /\ s.msgsAfterAppend = r.msgsAfterAppend /\ s.stepsOnAdvance = r.stepsOnAdvance
<1>1. PICK vote : vote = voteAfter(r, t)
  OBVIOUS
<1>2. PICK prs : prs = [j \in r.voters |->
               NewProgress(IF j = r.id THEN lastIndex(r.log) ELSE 0, lastIndex(r.log) + 1)]
  OBVIOUS
<1>3. PICK votes : votes = ResetVotes(Server)
  OBVIOUS
<1>4. s = [r EXCEPT !.Term = t, !.Vote = vote, !.lead = None, !.votes = votes, !.prs = prs]
  BY <1>1, <1>2, <1>3 DEF reset
<1> QED
  BY <1>1, <1>3, <1>4 DEF NodeOK, NodeRecord

\* A change of role, in the node's term or a later one, sends nothing.
Turns(r, s) ==
  /\ s.id = r.id /\ s.voters = r.voters /\ s.stepsOnAdvance = r.stepsOnAdvance
  /\ s.msgs = r.msgs /\ s.msgsAfterAppend = r.msgsAfterAppend
  /\ s.Term >= r.Term /\ (s.Term = r.Term => r.Vote \in {None, s.Vote})

LEMMA TurnsMoves ==
  ASSUME NEW r, NEW h, NEW s, Turns(r, h), Moves(h, s),
         r.Term \in Nat, h.Term \in Nat, s.Term \in Nat
  PROVE  Moves(r, s)
BY DEF Turns, Moves, Outbox

LEMMA BecomeFollowerTurns ==
  ASSUME NEW i, NEW r, NodeOK(i, r), NEW t \in Nat, t >= r.Term, NEW lead,
         NEW s, s = becomeFollower(r, t, lead)
  PROVE  /\ Turns(r, s) /\ s.state = "StateFollower" /\ s.Term = t
         /\ s.Vote = voteAfter(r, t)
<1>1. PICK z : z = reset(r, t) /\ NodeOK(i, z)
  BY ResetType
<1>2. s = [z EXCEPT !.lead = lead, !.state = "StateFollower"]
  BY <1>1 DEF becomeFollower
<1>3. /\ s.Term = z.Term /\ s.Vote = z.Vote /\ s.id = z.id /\ s.voters = z.voters
      /\ s.state = "StateFollower" /\ s.msgs = z.msgs
      /\ s.msgsAfterAppend = z.msgsAfterAppend /\ s.stepsOnAdvance = z.stepsOnAdvance
  BY <1>1, <1>2 DEF NodeOK, NodeRecord
<1>4. r.Term \in Nat
  BY Fields
<1> QED
  BY <1>1, <1>3, <1>4, ResetFields DEF Turns, voteAfter

\* A vote goes to the only candidate of the term it may go to.
LEMMA HandleVoteHandles ==
  ASSUME NEW i, NEW r, NodeOK(i, r), RoleOK(r), NEW m \in Messages, NEW C,
         m.Type \in {"MsgVote", "MsgPreVote"}, m.Type = "MsgVote" => m.Term \in {0, r.Term}
  PROVE  /\ Handles(r, handleVote(r, m), C)
         /\ handleVote(r, m).state = r.state
<1> DEFINE resp    == Message(voteRespMsgType(m.Type), m.From)
           grant   == [resp EXCEPT !.Term = m.Term]
           reject  == [resp EXCEPT !.Term = r.Term, !.Reject = TRUE]
           s       == send(r, grant)
           granted == canVote(r, m) /\ isUpToDate(r.log, m.Index, m.LogTerm)
<1>1. m.From \in Server /\ m.Term \in Nat /\ r.Term \in Nat /\ None \notin Server
  BY Fields, ServerAssumption DEF Messages, Unsent
<1>2. voteRespMsgType(m.Type) \in MessageTypes \ {"MsgProp"}
  BY DEF MessageTypes, VoteMsgs, voteRespMsgType
<1>3. grant \in Unsent /\ reject \in Unsent
  BY <1>1, <1>2, MessageType
<1>4. /\ grant.Type = voteRespMsgType(m.Type) /\ grant.From = None /\ grant.To = m.From
      /\ grant.Term = m.Term
      /\ reject.Type = voteRespMsgType(m.Type) /\ reject.Reject
  BY DEF Message
<1>5. handleVote(r, m) =
        IF granted THEN IF m.Type = "MsgVote" THEN [s EXCEPT !.Vote = m.From] ELSE s
        ELSE send(r, reject)
  BY DEF handleVote
<1>6. granted => r.Vote \in {None, m.From} \/ m.Type = "MsgPreVote"
  BY DEF canVote
<1>7. voteRespMsgType(m.Type) \notin LeaderMsgs
  BY DEF voteRespMsgType, LeaderMsgs
<1> HIDE DEF granted, grant, reject
<1>8. CASE ~ granted
  <2>1. Keeps(r, send(r, reject))
    BY <1>3, <1>4, <1>7, SendKeeps
  <2> QED BY <1>5, <1>8, <2>1, KeepsHandles DEF Keeps, Same
<1>9. CASE granted /\ m.Type = "MsgPreVote"
  <2>1. Keeps(r, send(r, grant))
    BY <1>3, <1>4, <1>7, <1>9, SendKeeps DEF voteRespMsgType
  <2> QED BY <1>5, <1>9, <2>1, KeepsHandles DEF Keeps, Same
<1>10. CASE granted /\ m.Type = "MsgVote"
  <2>1. /\ NodeOK(i, s) /\ Same(r, s)
        /\ \A x \in Outbox(s) : x \in Outbox(r) \/ (x = stamp(r, grant) /\ ~ sendPanics(r, grant))
    BY <1>3, SendSame, SendType
  <2> DEFINE v == [s EXCEPT !.Vote = m.From]
  <2> HIDE DEF s
  <2>2. /\ v.id = s.id /\ v.voters = s.voters /\ v.Term = s.Term /\ v.Vote = m.From
        /\ v.state = s.state /\ v.votes = s.votes /\ v.stepsOnAdvance = s.stepsOnAdvance
        /\ v.msgs = s.msgs /\ v.msgsAfterAppend = s.msgsAfterAppend
    BY <2>1 DEF NodeOK, NodeRecord
  <2> HIDE DEF v
  <2>3. grant.Type = "MsgVoteResp"
    BY <1>4, <1>10 DEF voteRespMsgType
  <2>4. ASSUME NEW x \in Outbox(v), x \notin Outbox(r)
        PROVE  Dated(x) /\ <<x.From, x.Term, x.To>> = Ballot(v)
    <3>1. x = stamp(r, grant) /\ ~ sendPanics(r, grant)
      BY <2>1, <2>2, <2>4 DEF Outbox
    <3>2. x.Type = "MsgVoteResp" /\ x.From = r.id /\ x.Term = m.Term /\ x.To = m.From
      BY <1>3, <1>4, <2>3, <3>1 DEF stamp, Unsent, VoteMsgs
    <3>3. m.Term # 0
      BY <1>4, <2>3, <3>1 DEF sendPanics, VoteMsgs
    <3>4. m.Term = r.Term /\ m.Term > 0
      BY <1>1, <1>10, <3>3
    <3> QED BY <2>1, <2>2, <3>2, <3>4 DEF Dated, Ballot, Same
  <2>5. Moves(r, v)
    BY <1>1, <1>6, <1>10, <2>1, <2>2, <2>4 DEF Moves, Same
  <2>6. Counted(v) = Counted(r)
    BY <2>1, <2>2 DEF Counted, Same
  <2>7. Tallies(r, v, C)
    BY <2>1, <2>2, <2>6 DEF Tallies, Same, RoleOK
  <2> QED BY <1>5, <1>10, <2>1, <2>2, <2>5, <2>7 DEF Handles, Same, v
<1> QED
  BY <1>8, <1>9, <1>10

\* A campaign starts without a counted vote; the candidate's own is a message.
LEMMA CampaignHandles ==
  ASSUME NEW i, NEW r, NodeOK(i, r), NEW pre, r.state # "StateLeader", r.voters = Server,
         NEW s, s = campaign(r, pre)
  PROVE  /\ Moves(r, s) /\ Counted(s) = {} /\ s.voters = Server
         /\ s.state \in {"StatePreCandidate", "StateCandidate"}
         /\ s.Term \in Nat /\ (s.state = "StateCandidate" => s.Term > 0)
<1> DEFINE c    == IF pre THEN becomePreCandidate(r) ELSE becomeCandidate(r)
           t    == IF pre THEN c.Term + 1 ELSE c.Term
           type == IF pre THEN "MsgPreVote" ELSE "MsgVote"
           self == [Message(voteRespMsgType(type), r.id) EXCEPT !.Term = t]
           req(to) == [Message(type, to) EXCEPT !.Term = t, !.Index = lastIndex(r.log),
                                                !.LogTerm = lastTerm(r.log)]
           reqs == {req(to) : to \in Peers(r)}
           u    == send(c, self)
<1>1. r.Term \in Nat /\ r.id \in Server /\ r.Term + 1 \in Nat
  BY Fields
<1>2. NodeOK(i, c)
  BY <1>1, BecomeType
<1>3. /\ c.id = r.id /\ c.voters = Server /\ c.msgs = r.msgs
      /\ c.msgsAfterAppend = r.msgsAfterAppend /\ c.stepsOnAdvance = r.stepsOnAdvance
      /\ c.votes = ResetVotes(Server)
      /\ pre => c.state = "StatePreCandidate" /\ c.Term = r.Term /\ c.Vote = r.Vote
      /\ ~ pre => c.state = "StateCandidate" /\ c.Term = r.Term + 1 /\ c.Vote = r.id
  <2>1. CASE pre
    <3>1. PICK votes : votes = ResetVotes(Server)
      OBVIOUS
    <3>2. c = [r EXCEPT !.votes = votes, !.lead = None, !.state = "StatePreCandidate"]
      BY <2>1, <3>1 DEF becomePreCandidate
    <3> HIDE DEF c
    <3> QED BY <2>1, <3>1, <3>2 DEF NodeOK, NodeRecord
  <2>2. CASE ~ pre
    <3>1. PICK z : z = reset(r, r.Term + 1) /\ NodeOK(i, z)
      BY <1>1, ResetType
    <3>2. c = [z EXCEPT !.Vote = r.id, !.state = "StateCandidate"]
      BY <2>2, <3>1 DEF becomeCandidate
    <3>3. /\ z.votes = ResetVotes(Server) /\ z.Term = r.Term + 1
          /\ z.id = r.id /\ z.voters = r.voters /\ z.msgs = r.msgs
          /\ z.msgsAfterAppend = r.msgsAfterAppend /\ z.stepsOnAdvance = r.stepsOnAdvance
      BY <1>1, <3>1, ResetFields
    <3> HIDE DEF c
    <3> QED BY <2>2, <3>1, <3>2, <3>3 DEF NodeOK, NodeRecord
  <2> QED BY <2>1, <2>2
<1>4. t \in Nat /\ (~ pre => t = c.Term /\ t > 0)
  BY <1>1, <1>3
<1>5. /\ type \in MessageTypes \ {"MsgProp"} /\ type \notin LeaderMsgs /\ type # "MsgVoteResp"
      /\ voteRespMsgType(type) \in MessageTypes \ {"MsgProp"}
      /\ voteRespMsgType(type) = IF pre THEN "MsgPreVoteResp" ELSE "MsgVoteResp"
  BY DEF MessageTypes, VoteMsgs, LeaderMsgs, voteRespMsgType
<1>6. /\ self \in Unsent /\ self.Type = voteRespMsgType(type) /\ self.From = None
      /\ self.To = r.id /\ self.Term = t
  <2> HIDE DEF t, type
  <2>1. self \in Unsent
    BY <1>4, <1>5, Fields, MessageType
  <2> QED BY <2>1 DEF Message
<1>7. reqs \in SUBSET Unsent /\ \A q \in reqs : q.Type = type
  <2>1. lastIndex(r.log) \in Nat /\ lastTerm(r.log) \in Nat
    BY Fields, TermType
  <2>2. \A to \in Server : req(to) \in Unsent
    <3> HIDE DEF t, type
    <3> QED BY <1>4, <1>5, <2>1, MessageType
  <2>3. Peers(r) \in SUBSET Server
    BY Fields DEF Peers
  <2>4. \A to : req(to).Type = type
    BY DEF Message
  <2> HIDE DEF req
  <2> QED BY <2>2, <2>3, <2>4
<1>8. s = sendAll(u, reqs)
  BY <1>1 DEF campaign
<1> HIDE DEF c, t, type, self, reqs
<1>9. /\ NodeOK(i, u) /\ Same(c, u)
      /\ \A x \in Outbox(u) : x \in Outbox(c) \/ (x = stamp(c, self) /\ ~ sendPanics(c, self))
  BY <1>2, <1>6, SendSame, SendType
<1> HIDE DEF u
<1>10. Keeps(u, s)
  BY <1>5, <1>7, <1>8, <1>9, SendAllKeeps
<1>11. /\ s.id = r.id /\ s.voters = Server /\ s.Term = c.Term /\ s.Vote = c.Vote
       /\ s.state = c.state /\ s.votes = ResetVotes(Server)
       /\ s.stepsOnAdvance = r.stepsOnAdvance
       /\ (\A n \in DOMAIN r.msgsAfterAppend : r.msgsAfterAppend[n].To = r.id) =>
            \A n \in DOMAIN s.msgsAfterAppend : s.msgsAfterAppend[n].To = s.id
  BY <1>3, <1>9, <1>10 DEF Keeps, Same
<1>12. stamp(c, self).Type = self.Type /\ stamp(c, self).From = r.id
       /\ stamp(c, self).To = r.id /\ stamp(c, self).Term = t
  BY <1>3, <1>5, <1>6 DEF stamp, Unsent, VoteMsgs
<1>13. CASE pre
  <2>1. Routine(stamp(c, self))
    BY <1>5, <1>6, <1>12, <1>13 DEF Routine, Dated, Granted, LeaderMsgs
  <2>2. \A x \in Outbox(s) : x \in Outbox(r) \/ Routine(x)
    BY <1>3, <1>9, <1>10, <2>1 DEF Keeps, Outbox
  <2>3. Moves(r, s)
    <3>1. c.Term = r.Term /\ c.Vote = r.Vote /\ r.Vote \in {None, c.Vote}
      BY <1>3, <1>13, Zenon
    <3> QED BY <1>1, <1>11, <2>2, <3>1 DEF Moves
  <2> QED BY <1>1, <1>3, <1>11, <1>13, <2>3 DEF Counted
<1>14. CASE ~ pre
  <2>1. /\ Dated(stamp(c, self))
        /\ <<stamp(c, self).From, stamp(c, self).Term, stamp(c, self).To>> = Ballot(s)
    BY <1>3, <1>4, <1>11, <1>12, <1>14 DEF Dated, Ballot
  <2>2. s.Vote # None
    BY <1>1, <1>3, <1>11, <1>14, ServerAssumption
  <2>3. \A x \in Outbox(s) :
          \/ x \in Outbox(r) \/ Routine(x)
          \/ Dated(x) /\ s.Vote # None /\ <<x.From, x.Term, x.To>> = Ballot(s)
    BY <1>3, <1>9, <1>10, <2>1, <2>2 DEF Keeps, Outbox
  <2>4. Moves(r, s)
    BY <1>1, <1>3, <1>11, <1>14, <2>3 DEF Moves
  <2>5. Counted(s) = {}
    BY <1>11 DEF Counted, ResetVotes
  <2> QED BY <1>1, <1>3, <1>11, <1>14, <2>4, <2>5
<1> QED
  BY <1>13, <1>14

LEMMA FollowerHandles ==
  ASSUME NEW i, NEW r, NodeOK(i, r), NEW t \in Nat, t >= r.Term, NEW lead,
         NEW s, s = becomeFollower(r, t, lead), NEW C
  PROVE  Handles(r, s, C)
<1>1. Turns(r, s) /\ s.state = "StateFollower"
  BY BecomeFollowerTurns
<1>2. Moves(r, s)
  BY <1>1 DEF Turns, Moves, Outbox
<1>3. Tallies(r, s, C)
  BY <1>1 DEF Tallies, Counted
<1> QED
  BY <1>2, <1>3 DEF Handles

\* A new leader has told nobody of it yet, and voted for nobody else.
LEMMA BecomeLeaderSends ==
  ASSUME NEW i, NEW p, NodeOK(i, p), p.state = "StateCandidate", p.Term > 0,
         NEW s, s = bcastAppend(becomeLeader(p))
  PROVE  /\ Moves(p, s) /\ s.state = "StateLeader" /\ s.Term = p.Term /\ s.Vote = p.Vote
         /\ \A m \in Outbox(s) : m \in Outbox(p) \/ Routine(m)
<1> DEFINE l == [reset(p, p.Term) EXCEPT !.lead = p.id, !.state = "StateLeader"]
           f == [l.prs EXCEPT ![p.id] = BecomeReplicate(@)]
           b == [l EXCEPT !.prs = f]
<1>1. p.Term \in Nat
  BY Fields
<1>2. /\ NodeOK(i, l) /\ l.id = p.id /\ l.voters = p.voters /\ l.Term = p.Term /\ l.Vote = p.Vote
      /\ l.state = "StateLeader" /\ l.msgs = p.msgs
      /\ l.msgsAfterAppend = p.msgsAfterAppend /\ l.stepsOnAdvance = p.stepsOnAdvance
  <2>1. PICK z : z = reset(p, p.Term) /\ NodeOK(i, z)
    BY <1>1, ResetType
  <2>2. /\ z.id = p.id /\ z.voters = p.voters /\ z.Term = p.Term /\ z.Vote = p.Vote
        /\ z.msgs = p.msgs
        /\ z.msgsAfterAppend = p.msgsAfterAppend /\ z.stepsOnAdvance = p.stepsOnAdvance
    BY <1>1, <2>1, ResetFields DEF voteAfter
  <2>3. l = [z EXCEPT !.lead = p.id, !.state = "StateLeader"]
    BY <2>1
  <2>4. NodeOK(i, l)
    BY <2>1, <2>3, Fields, RoleType
  <2>5. z \in NodeRecord
    BY <2>1 DEF NodeOK
  <2> HIDE DEF l
  <2>6. /\ l.id = z.id /\ l.voters = z.voters /\ l.Term = z.Term /\ l.Vote = z.Vote
        /\ l.state = "StateLeader" /\ l.msgs = z.msgs
        /\ l.msgsAfterAppend = z.msgsAfterAppend /\ l.stepsOnAdvance = z.stepsOnAdvance
    BY <2>3, <2>5 DEF NodeRecord
  <2> QED BY <2>2, <2>4, <2>6
<1>3. becomeLeader(p) = appendEntry(b, EmptyEntry)
  BY DEF becomeLeader
<1>4. NodeOK(i, b) /\ Keeps(l, b)
  <2> HIDE DEF l
  <2>1. f \in [l.voters -> ProgressRecord] /\ \A j \in l.voters : ProgressOK(f[j])
    <3>1. l.prs \in [l.voters -> ProgressRecord] /\ \A j \in l.voters : ProgressOK(l.prs[j])
      BY <1>2, Fields
    <3>2. \A j \in l.voters : ProgressOK(BecomeReplicate(l.prs[j]))
      BY <3>1, BecomeReplicateType
    <3> QED BY <3>1, <3>2 DEF ProgressOK
  <2> HIDE DEF f
  <2>2. NodeOK(i, [l EXCEPT !.prs = f])
    BY <1>2, <2>1, FieldType
  <2>3. Keeps(l, [l EXCEPT !.prs = f])
    BY <1>2, FieldKeeps
  <2> QED BY <2>2, <2>3
<1> HIDE DEF b, l
<1>5. PICK a : a = appendEntry(b, EmptyEntry) /\ NodeOK(i, a) /\ Keeps(b, a)
  <2>1. EmptyEntry \in Data
    BY DEF Data
  <2> QED BY <1>4, <2>1, AppendEntryType, AppendEntryKeeps
<1>6. Keeps(l, a)
  BY <1>4, <1>5, KeepsTransitive
<1>7. Keeps(a, s)
  <2>1. a.Term > 0
    BY <1>2, <1>6 DEF Keeps, Same
  <2> QED BY <1>3, <1>5, <2>1, BroadcastKeeps
<1>8. Keeps(l, s)
  BY <1>6, <1>7, KeepsTransitive
<1> QED
  BY <1>1, <1>2, <1>8 DEF Keeps, Same, Moves, Outbox

\* The vote a candidate counts is the one in the message.
LEMMA PollHandles ==
  ASSUME NEW i, NEW r, NodeOK(i, r), RoleOK(r), NEW m \in Messages, m.To = r.id,
         r.state = "StateCandidate" => m.Type = "MsgVoteResp" /\ (Granted(m) => m.Term = r.Term),
         r.state \in {"StatePreCandidate", "StateCandidate"},
         NEW p, p = poll(r, m.From, ~ m.Reject)
  PROVE  /\ p.id = r.id /\ p.voters = r.voters /\ p.Term = r.Term /\ p.Vote = r.Vote
         /\ p.state = r.state /\ p.msgs = r.msgs
         /\ p.msgsAfterAppend = r.msgsAfterAppend /\ p.stepsOnAdvance = r.stepsOnAdvance
         /\ Counted(p) \subseteq Counted(r) \cup Cast({m})
         /\ Handles(r, p, Cast({m}))
<1>1. PICK votes : votes = RecordVote(r.votes, m.From, ~ m.Reject)
  OBVIOUS
<1>2. p = [r EXCEPT !.votes = votes]
  BY <1>1 DEF poll
<1>3. /\ p.id = r.id /\ p.voters = r.voters /\ p.Term = r.Term /\ p.Vote = r.Vote
      /\ p.state = r.state /\ p.votes = votes /\ p.msgs = r.msgs
      /\ p.msgsAfterAppend = r.msgsAfterAppend /\ p.stepsOnAdvance = r.stepsOnAdvance
  BY <1>2 DEF NodeOK, NodeRecord
<1>4. \A k \in Server : votes[k] = "yes" => r.votes[k] = "yes" \/ (k = m.From /\ ~ m.Reject)
  BY <1>1, Fields DEF RecordVote
<1>5. Counted(p) \subseteq Counted(r) \cup Cast({m})
  <2>1. CASE r.state = "StateCandidate"
    <3> DEFINE yes == {k \in Server : votes[k] = "yes"}
    <3>1. Counted(p) = {<<k, r.Term, r.id>> : k \in yes}
      BY <1>3, <2>1 DEF Counted
    <3> SUFFICES ASSUME NEW k \in yes
                 PROVE  <<k, r.Term, r.id>> \in Counted(r) \cup Cast({m})
      BY <3>1
    <3>2. CASE r.votes[k] = "yes"
      BY <2>1, <3>2 DEF Counted
    <3>3. CASE k = m.From /\ ~ m.Reject
      <4>1. Granted(m) /\ m.Term = r.Term
        BY <2>1, <3>3 DEF Granted
      <4> QED BY <3>3, <4>1 DEF Cast
    <3> QED BY <1>4, <3>2, <3>3
  <2>2. CASE r.state # "StateCandidate"
    BY <1>3, <2>2 DEF Counted
  <2> QED BY <2>1, <2>2
<1>6. Moves(r, p)
  BY <1>3, Fields DEF Moves, Outbox
<1> QED
  BY <1>3, <1>5, <1>6 DEF Handles, Tallies, RoleOK

\* VoteWon is a majority of granted votes.
LEMMA WonByMajority ==
  ASSUME NEW votes \in [Server -> Ballots], JointVoteResult(Server, {}, votes) = "VoteWon"
  PROVE  2 * Cardinality({k \in Server : votes[k] = "yes"}) > Cardinality(Server)
<1> DEFINE r1 == MajorityVoteResult(Server, votes)
           r2 == MajorityVoteResult({}, votes)
           Q  == {k \in Server : votes[k] = "yes"}
<1>1. r1 = "VoteWon"
  <2>1. JointVoteResult(Server, {}, votes) =
          CASE r1 = r2 -> r1
            [] r1 # r2 /\ "VoteLost" \in {r1, r2} -> "VoteLost"
            [] OTHER -> "VotePending"
    BY DEF JointVoteResult
  <2> HIDE DEF r1, r2
  <2> QED BY <2>1
<1>2. Cardinality(Q) >= Cardinality(Server) \div 2 + 1
  <2> DEFINE q   == Cardinality(Server) \div 2 + 1
             yes == Cardinality(Q)
             mis == Cardinality(Voted(Server, votes, "missing"))
  <2>1. r1 = CASE Server = {} \/ yes >= q -> "VoteWon"
               [] Server # {} /\ yes < q /\ yes + mis >= q -> "VotePending"
               [] OTHER -> "VoteLost"
    BY DEF MajorityVoteResult, Voted
  <2>2. (Server = {} \/ yes >= q) \/ ~ (Server = {} \/ yes >= q)
    OBVIOUS
  <2> HIDE DEF r1, q, yes, mis
  <2>3. yes >= q
    BY <1>1, <2>1, ServerAssumption
  <2> QED BY <2>3 DEF q, yes
<1>3. Cardinality(Server) \in Nat /\ Cardinality(Q) \in Nat
  <2>1. Q \subseteq Server
    OBVIOUS
  <2> HIDE DEF Q
  <2> QED BY <2>1, ServerAssumption, FS_Subset, FS_CardinalityType
<1> HIDE DEF Q
<1>4. 2 * Cardinality(Q) > Cardinality(Server)
  BY <1>2, <1>3
<1> QED
  BY <1>4 DEF Q

\* Message m may be stepped by node r: it is r's, and not of an earlier term
\* unless of none; a vote is of r's term.
Fits(r, m) ==
  /\ m \in Messages /\ m.To = r.id /\ Dated(m)
  /\ m.Term = 0 \/ m.Term >= r.Term
  /\ m.Type \in {"MsgVote", "MsgVoteResp"} => m.Term \in {0, r.Term}

LEMMA StepCandidateHandles ==
  ASSUME NEW i, NEW r, NodeOK(i, r), RoleOK(r), NEW m, Fits(r, m),
         r.state \in {"StatePreCandidate", "StateCandidate"}
  PROVE  Handles(r, stepCandidate(r, m), Cast({m}))
<1> DEFINE mine == IF r.state = "StatePreCandidate" THEN "MsgPreVoteResp" ELSE "MsgVoteResp"
           p    == poll(r, m.From, ~ m.Reject)
           res  == JointVoteResult(r.voters, {}, p.votes)
           s    == stepCandidate(r, m)
           C    == Cast({m})
<1> SUFFICES Handles(r, s, C)
  OBVIOUS
<1>1. /\ m \in Messages /\ m.From \in Server /\ m.Term \in Nat /\ r.Term \in Nat
      /\ r.voters = Server
  BY Fields DEF Fits, Messages, Unsent, RoleOK
<1>2. Handles(r, r, C)
  BY KeepsSelf, KeepsHandles
<1>3. CASE m.Type \in LeaderMsgs
  <2>1. m.Term >= r.Term
    BY <1>1, <1>3 DEF Fits, Dated
  <2>2. PICK b : b = becomeFollower(r, m.Term, m.From) /\ Handles(r, b, C) /\ NodeOK(i, b)
    BY <1>1, <2>1, FollowerHandles, BecomeType
  <2>3. Handles(r, handleHeartbeat(b, m), C)
    BY <1>1, <2>2, HandleHeartbeatKeeps, HandlesKeeps
  <2>4. s = b \/ s = handleHeartbeat(b, m)
    BY <1>3, <2>2 DEF stepCandidate, LeaderMsgs
  <2> HIDE DEF s
  <2> QED BY <2>2, <2>3, <2>4
<1>4. CASE m.Type \notin LeaderMsgs /\ m.Type # mine
  <2>1. s = r
    BY <1>4 DEF stepCandidate, LeaderMsgs
  <2> QED BY <1>2, <2>1
<1>5. CASE m.Type = mine
  <2>1. /\ NodeOK(i, p) /\ Handles(r, p, C) /\ p.state = r.state /\ p.id = r.id
        /\ p.voters = Server /\ p.Term = r.Term /\ p.Vote = r.Vote /\ p.msgs = r.msgs
        /\ p.msgsAfterAppend = r.msgsAfterAppend /\ p.stepsOnAdvance = r.stepsOnAdvance
        /\ Counted(p) \subseteq Counted(r) \cup C
    <3>1. r.state = "StateCandidate" => m.Type = "MsgVoteResp" /\ (Granted(m) => m.Term = r.Term)
      BY <1>5 DEF Fits, Dated
    <3>2. NodeOK(i, p)
      BY <1>1, PollType
    <3> HIDE DEF p
    <3>3. m.To = r.id
      BY DEF Fits
    <3> QED BY <1>1, <3>1, <3>2, <3>3, PollHandles DEF p
  <2>2. s = CASE res = "VoteWon" -> IF r.state = "StatePreCandidate" THEN campaign(p, FALSE)
                                    ELSE bcastAppend(becomeLeader(p))
              [] res = "VoteLost" -> becomeFollower(p, r.Term, None)
              [] OTHER -> IF res = "VotePending" THEN p ELSE r
    <3>1. m.Type \notin {"MsgApp", "MsgHeartbeat"}
      BY <1>5
    <3>2. s = CASE m.Type = mine /\ res = "VoteWon" ->
                     IF r.state = "StatePreCandidate" THEN campaign(p, FALSE)
                     ELSE bcastAppend(becomeLeader(p))
                [] m.Type = mine /\ res = "VoteLost" -> becomeFollower(p, r.Term, None)
                [] m.Type = mine /\ res = "VotePending" -> p
                [] OTHER -> r
      BY <3>1 DEF stepCandidate
    <3> HIDE DEF s, p, res, mine
    <3> QED BY <1>5, <3>2
  <2> HIDE DEF p, C
  <2>3. Turns(r, p)
    BY <1>1, <2>1 DEF Turns
  <2>4. CASE res = "VoteWon" /\ r.state = "StatePreCandidate"
    <3>1. PICK c : c = campaign(p, FALSE)
      OBVIOUS
    <3>2. /\ Moves(p, c) /\ Counted(c) = {} /\ c.voters = Server
          /\ c.state \in {"StatePreCandidate", "StateCandidate"}
          /\ c.Term \in Nat /\ (c.state = "StateCandidate" => c.Term > 0)
      BY <2>1, <2>4, <3>1, CampaignHandles
    <3>3. Moves(r, c)
      BY <1>1, <2>1, <2>3, <3>2, TurnsMoves
    <3>4. s = c
      BY <2>2, <2>4, <3>1
    <3> HIDE DEF s
    <3> QED BY <3>2, <3>3, <3>4 DEF Handles, Tallies
  <2>5. CASE res = "VoteWon" /\ r.state # "StatePreCandidate"
    <3>1. r.state = "StateCandidate" /\ r.Term > 0
      BY <2>5 DEF RoleOK
    <3>2. PICK l : l = bcastAppend(becomeLeader(p))
      OBVIOUS
    <3>3. /\ Moves(p, l) /\ l.state = "StateLeader" /\ l.Term = p.Term /\ l.Vote = p.Vote
          /\ \A x \in Outbox(l) : x \in Outbox(p) \/ Routine(x)
      BY <2>1, <3>1, <3>2, BecomeLeaderSends
    <3>4. Moves(r, l)
      BY <1>1, <2>1, <2>3, <3>3, TurnsMoves
    <3>5. Elected(r, C)
      <4> DEFINE Q == {k \in Server : p.votes[k] = "yes"}
      <4>1. 2 * Cardinality(Q) > Cardinality(Server)
        <5>1. p.votes \in [Server -> Ballots]
          BY <2>1, Fields
        <5>2. JointVoteResult(Server, {}, p.votes) = "VoteWon"
          BY <1>1, <2>5
        <5> QED BY <5>1, <5>2, WonByMajority
      <4>2. Counted(p) = {<<k, r.Term, r.id>> : k \in Q}
        BY <2>1, <3>1 DEF Counted
      <4>3. \A k \in Q : <<k, r.Term, r.id>> \in Counted(r) \cup C
        BY <2>1, <4>2
      <4> HIDE DEF Q
      <4>4. Q \in SUBSET Server
        BY DEF Q
      <4> QED BY <4>1, <4>3, <4>4 DEF Elected
    <3>6. Tallies(r, l, C)
      BY <2>1, <3>1, <3>3, <3>5 DEF Tallies, Counted, Outbox
    <3>7. s = l
      BY <2>2, <2>5, <3>2
    <3> HIDE DEF s
    <3> QED BY <3>4, <3>6, <3>7 DEF Handles
  <2>6. CASE res = "VoteLost"
    <3>1. PICK b : b = becomeFollower(p, r.Term, None)
      OBVIOUS
    <3>2. Handles(p, b, C) /\ b.state = "StateFollower"
      BY <1>1, <2>1, <3>1, FollowerHandles, BecomeFollowerTurns
    <3>3. Moves(r, b)
      BY <2>1, <3>2 DEF Handles, Moves, Outbox
    <3>4. s = b
      BY <2>2, <2>6, <3>1
    <3> HIDE DEF s
    <3> QED BY <3>2, <3>3, <3>4 DEF Handles, Tallies, Counted
  <2>7. CASE res \notin {"VoteWon", "VoteLost"}
    <3>1. s = p \/ s = r
      BY <2>2, <2>7
    <3> HIDE DEF s
    <3> QED BY <1>2, <2>1, <3>1
  <2> QED BY <2>4, <2>5, <2>6, <2>7
<1> QED
  BY <1>3, <1>4, <1>5

LEMMA DispatchHandles ==
  ASSUME NEW i, NEW r, NodeOK(i, r), RoleOK(r), NEW m, Fits(r, m)
  PROVE  /\ Handles(r, dispatch(r, m), Cast({m}))
         /\ r.state = "StateFollower" => dispatch(r, m).state = "StateFollower"
<1>1. m \in Messages
  BY DEF Fits
<1>2. CASE m.Type \in {"MsgVote", "MsgPreVote"}
  <2>1. dispatch(r, m) = handleVote(r, m)
    BY <1>2 DEF dispatch
  <2>2. m.Type = "MsgVote" => m.Term \in {0, r.Term}
    BY DEF Fits
  <2> QED BY <1>1, <1>2, <2>1, <2>2, HandleVoteHandles
<1>3. CASE m.Type \notin {"MsgVote", "MsgPreVote"} /\ r.state = "StateFollower"
  <2>1. PICK s : s = stepFollower(r, m) /\ Keeps(r, s)
    BY <1>1, StepFollowerKeeps
  <2>2. dispatch(r, m) = s
    BY <1>3, <2>1 DEF dispatch
  <2>3. Handles(r, s, Cast({m})) /\ s.state = r.state
    BY <2>1, KeepsHandles DEF Keeps, Same
  <2> QED BY <1>3, <2>2, <2>3
<1>4. CASE m.Type \notin {"MsgVote", "MsgPreVote"} /\ r.state = "StateLeader"
  <2>1. PICK s : s = stepLeader(r, m) /\ Keeps(r, s)
    BY <1>1, <1>4, StepLeaderKeeps DEF RoleOK
  <2>2. dispatch(r, m) = s
    BY <1>4, <2>1 DEF dispatch
  <2>3. Handles(r, s, Cast({m}))
    BY <2>1, KeepsHandles
  <2> QED BY <1>4, <2>2, <2>3
<1>5. CASE /\ m.Type \notin {"MsgVote", "MsgPreVote"}
           /\ r.state \notin {"StateFollower", "StateLeader"}
  <2>1. r.state \in {"StatePreCandidate", "StateCandidate"}
    BY <1>5 DEF NodeOK, NodeRecord
  <2>2. dispatch(r, m) = stepCandidate(r, m)
    BY <1>5 DEF dispatch
  <2> QED BY <1>5, <2>1, <2>2, StepCandidateHandles
<1> QED
  BY <1>2, <1>3, <1>4, <1>5

\* raft.Step on any message, from any role.
LEMMA StepHandles ==
  ASSUME NEW i, NEW r, NodeOK(i, r), RoleOK(r), NEW m \in Messages, m.To = r.id, Dated(m)
  PROVE  Handles(r, Step(r, m), Cast({m}))
<1>1. m.Term \in Nat /\ r.Term \in Nat /\ m.From \in Server
  BY Fields DEF Messages, Unsent
<1>2. CASE isStale(r, m)
  <2>1. PICK s : s = lowerTerm(r, m) /\ Keeps(r, s)
    BY LowerTermKeeps
  <2>2. Step(r, m) = s
    BY <1>2, <2>1 DEF Step
  <2> QED BY <2>1, <2>2, KeepsHandles
<1>3. CASE ~ isStale(r, m) /\ m.Term > r.Term
  <2>1. Step(r, m) = dispatch(higherTerm(r, m), m)
    BY <1>3 DEF Step
  <2>2. CASE m.Type = "MsgPreVote" \/ (m.Type = "MsgPreVoteResp" /\ ~ m.Reject)
    <3>1. higherTerm(r, m) = r
      BY <2>2 DEF higherTerm, LeaderMsgs
    <3>2. Fits(r, m)
      BY <1>1, <1>3, <2>2 DEF Fits
    <3> QED BY <2>1, <3>1, <3>2, DispatchHandles
  <2>3. CASE ~ (m.Type = "MsgPreVote" \/ (m.Type = "MsgPreVoteResp" /\ ~ m.Reject))
    <3>1. PICK lead \in Server \cup {None} : higherTerm(r, m) = becomeFollower(r, m.Term, lead)
      BY <1>1, <2>3 DEF higherTerm
    <3>2. PICK h : h = becomeFollower(r, m.Term, lead)
      OBVIOUS
    <3>3. NodeOK(i, h) /\ Turns(r, h) /\ h.state = "StateFollower" /\ h.Term = m.Term
      BY <1>1, <1>3, <3>2, BecomeFollowerTurns, BecomeType
    <3>4. h.id = r.id /\ RoleOK(h) /\ Fits(h, m)
      BY <1>1, <3>3 DEF Turns, RoleOK, Fits
    <3>5. PICK s : s = dispatch(h, m)
      OBVIOUS
    <3>6. /\ NodeOK(i, s) /\ Handles(h, s, Cast({m})) /\ s.state = "StateFollower"
      <4>1. NodeOK(i, s)
        BY <3>3, <3>5, HandleVoteType, StepFollowerType DEF dispatch
      <4> QED BY <3>3, <3>4, <3>5, <4>1, DispatchHandles
    <3>7. Moves(r, s)
      BY <1>1, <3>3, <3>6, Fields, TurnsMoves DEF Handles
    <3>8. Tallies(r, s, Cast({m}))
      BY <3>6 DEF Tallies, Counted
    <3> QED BY <2>1, <3>1, <3>2, <3>5, <3>7, <3>8 DEF Handles
  <2> QED BY <2>2, <2>3
<1>4. CASE ~ isStale(r, m) /\ ~ (m.Term > r.Term)
  <2>1. Step(r, m) = dispatch(r, m)
    BY <1>4 DEF Step
  <2>2. Fits(r, m)
    BY <1>1, <1>4 DEF Fits, isStale
  <2> QED BY <2>1, <2>2, DispatchHandles
<1> QED
  BY <1>2, <1>3, <1>4

LEMMA HupHandles ==
  ASSUME NEW i, NEW r, NodeOK(i, r), RoleOK(r), NEW pre, NEW C
  PROVE  Handles(r, hup(r, pre), C)
<1>1. CASE r.state = "StateLeader" \/ ~ promotable(r)
  BY <1>1, KeepsSelf, KeepsHandles DEF hup
<1>2. CASE r.state # "StateLeader" /\ promotable(r)
  <2>1. r.voters = Server
    BY <1>2, Fields DEF promotable
  <2>2. PICK s : s = campaign(r, pre)
    OBVIOUS
  <2>3. /\ Moves(r, s) /\ Counted(s) = {} /\ s.voters = Server
        /\ s.state \in {"StatePreCandidate", "StateCandidate"}
        /\ s.state = "StateCandidate" => s.Term > 0
    BY <1>2, <2>1, <2>2, CampaignHandles
  <2>4. hup(r, pre) = s
    BY <1>2, <2>2 DEF hup
  <2> QED BY <2>3, <2>4 DEF Handles, Tallies
<1> QED
  BY <1>1, <1>2
-----------------------------------------------------------------------------
(* The specification *)

\* What a step does to the ballots, from what it does to the parts of them.
LEMMA BallotsBound ==
  ASSUME TypeOK, NEW i \in Server, NEW s, NodeOK(i, s), Becomes(i, s), NEW D,
         Cast(net') \subseteq D, Cast(Held(s)) \subseteq D, Counted(s) \subseteq D,
         VoteBallots \subseteq D
  PROVE  VoteBallots' \subseteq D
<1>1. \A j \in Server : node'[j] = IF j = i THEN s ELSE node[j]
  BY DEF TypeOK, Becomes
<1>2. \A j \in Server : Cast(Held(node[j])) \cup Counted(node[j]) \subseteq D
  BY DEF VoteBallots
<1>3. \A j \in Server : Cast(Held(node'[j])) \cup Counted(node'[j]) \subseteq D
  BY <1>1, <1>2
<1>4. VoteBallots' = Cast(net') \cup UNION {Cast(Held(node'[j])) \cup Counted(node'[j]) : j \in Server}
  BY DEF VoteBallots, Cast, Held, Counted, Elements, Granted
<1> QED
  BY <1>3, <1>4

LEMMA VotesKept ==
  ASSUME TypeOK, VotesOK, NEW i \in Server, NEW s, NodeOK(i, s), Becomes(i, s),
         VoteOK(s), \A m \in net' : Dated(m)
  PROVE  VotesOK'
<1>1. \A j \in Server : node'[j] = IF j = i THEN s ELSE node[j]
  BY DEF TypeOK, Becomes
<1>2. \A j \in Server : VoteOK(node'[j])
  BY <1>1 DEF VotesOK
<1>3. \A j \in Server : node'[j].state = "StateLeader" => <<node'[j].Term, j>> \in elected'
  BY <1>1 DEF VotesOK, Leader, Becomes
<1> QED
  BY <1>2, <1>3 DEF VotesOK, VoteOK, Leader, Dated, Granted, Held, Elements

\* A step in which a server casts a vote or moves on.
LEMMA VoteRefines ==
  ASSUME TypeOK, VotesOK, NEW i \in Server, NEW s, NodeOK(i, s), Becomes(i, s),
         s.Term >= node[i].Term, s.Term = node[i].Term => node[i].Vote \in {None, s.Vote},
         s.state = "StateLeader" => node[i].state = "StateLeader" /\ s.Term = node[i].Term,
         VoteBallots' \subseteq VoteBallots \cup (IF s.Vote = None THEN {} ELSE {Ballot(s)})
  PROVE  E!Next
<1>1. \A j \in Server : node'[j] = IF j = i THEN s ELSE node[j]
  BY DEF TypeOK, Becomes
<1>2. s.Term \in Nat /\ s.Vote \in Server \cup {None} /\ s.id = i
  BY Fields DEF NodeOK
<1>3. elected' = elected
  BY <1>1 DEF VotesOK, Leader, Becomes
<1>4. [j \in Server |-> node'[j].Term] = [[j \in Server |-> node[j].Term] EXCEPT ![i] = s.Term]
  BY <1>1
<1>5. [j \in Server |-> node'[j].Vote] = [[j \in Server |-> node[j].Vote] EXCEPT ![i] = s.Vote]
  BY <1>1
<1>6. Ballot(s) = <<i, s.Term, s.Vote>>
  BY <1>2 DEF Ballot
<1>7. E!Vote(i, s.Term, s.Vote)
  BY <1>2, <1>3, <1>4, <1>5, <1>6 DEF E!Vote
<1> QED
  BY <1>1, <1>2, <1>7 DEF E!Next

\* A step in which a candidate becomes leader.
LEMMA ElectRefines ==
  ASSUME TypeOK, NEW i \in Server, NEW s, NodeOK(i, s), Becomes(i, s),
         s.Term = node[i].Term, s.Vote = node[i].Vote, s.state = "StateLeader",
         Elected(node[i], VoteBallots), VoteBallots' \subseteq VoteBallots
  PROVE  E!Next
<1>1. \A j \in Server : node'[j] = IF j = i THEN s ELSE node[j]
  BY DEF TypeOK, Becomes
<1>2. elected' = elected \cup {<<node[i].Term, i>>}
  BY <1>1 DEF Becomes
<1>3. \A j \in Server : node'[j].Term = node[j].Term /\ node'[j].Vote = node[j].Vote
  BY <1>1
<1>4. /\ [j \in Server |-> node'[j].Term] = [j \in Server |-> node[j].Term]
      /\ [j \in Server |-> node'[j].Vote] = [j \in Server |-> node[j].Vote]
  BY <1>3
<1>5. PICK Q \in SUBSET Server : /\ 2 * Cardinality(Q) > Cardinality(Server)
                                 /\ \A k \in Q : <<k, node[i].Term, i>> \in VoteBallots
  <2>1. Counted(node[i]) \subseteq VoteBallots
    BY DEF VoteBallots
  <2>2. node[i].id = i
    BY DEF TypeOK, NodeOK
  <2> QED BY <2>1, <2>2 DEF Elected
<1>6. E!Majority(Q)
  <2>1. E!Cardinality(Q) = Cardinality(Q) /\ E!Cardinality(Server) = Cardinality(Server)
    BY DEF E!Cardinality, Cardinality
  <2> QED BY <1>5, <2>1 DEF E!Majority
<1>7. E!Elect(i)
  BY <1>2, <1>4, <1>5, <1>6 DEF E!Elect
<1> QED
  BY <1>7 DEF E!Next

\* r is node n as far as the election goes, with no more left to step.
Like(n, r) ==
  /\ r.id = n.id /\ r.Term = n.Term /\ r.Vote = n.Vote /\ r.state = n.state /\ r.votes = n.votes
  /\ r.voters = n.voters /\ r.msgs = n.msgs /\ r.msgsAfterAppend = n.msgsAfterAppend
  /\ Elements(r.stepsOnAdvance) \subseteq Elements(n.stepsOnAdvance)

LEMMA HandlerRefines ==
  ASSUME TypeOK, VotesOK, NEW i \in Server, NEW r, NEW s, NodeOK(i, s), Becomes(i, s),
         Like(node[i], r), NEW C, Handles(r, s, C), C \subseteq VoteBallots, net' \subseteq net
  PROVE  E!Next /\ VotesOK'
<1>1. PICK n : n = node[i] /\ NodeOK(i, n) /\ VoteOK(n)
  BY DEF TypeOK, VotesOK
<1> DEFINE D == VoteBallots \cup (IF s.Vote = None THEN {} ELSE {Ballot(s)})
<1>2. /\ Outbox(r) = Outbox(n) /\ Counted(r) = Counted(n) /\ Outbox(n) \subseteq Held(n)
      /\ Elements(s.stepsOnAdvance) \subseteq Elements(n.stepsOnAdvance)
      /\ Elements(n.stepsOnAdvance) \subseteq Held(n)
      /\ Held(s) = Outbox(s) \cup Elements(s.stepsOnAdvance)
  BY <1>1 DEF Like, Outbox, Counted, Held, Handles, Moves
<1>3. Cast(net') \subseteq VoteBallots /\ Cast(Held(n)) \subseteq VoteBallots
      /\ Counted(n) \subseteq VoteBallots
  <2>1. Cast(net') \subseteq VoteBallots
    BY DEF Cast, VoteBallots
  <2>2. Cast(Held(node[i])) \subseteq VoteBallots /\ Counted(node[i]) \subseteq VoteBallots
    BY DEF VoteBallots
  <2> QED BY <1>1, <2>1, <2>2
<1>4. Counted(s) \subseteq VoteBallots
  BY <1>2, <1>3 DEF Handles, Tallies
<1>5. Cast(Held(s)) \subseteq D
  <2> SUFFICES ASSUME NEW m \in Held(s), Granted(m)
               PROVE  <<m.From, m.Term, m.To>> \in D
    BY DEF Cast
  <2>1. CASE m \in Held(n)
    BY <1>3, <2>1 DEF Cast
  <2>2. CASE m \in Outbox(s) /\ m \notin Outbox(r)
    BY <2>2 DEF Handles, Moves, Routine
  <2> QED BY <1>2, <2>1, <2>2
<1>6. VoteOK(s)
  <2>1. s.id = n.id
    BY <1>1 DEF Like, Handles, Moves
  <2>2. \A k \in DOMAIN s.msgsAfterAppend : s.msgsAfterAppend[k].To = s.id
    BY <1>1 DEF Like, Handles, Moves, VoteOK
  <2>3. \A k \in DOMAIN s.stepsOnAdvance : s.stepsOnAdvance[k].To = s.id
    <3>1. \A x \in Elements(n.stepsOnAdvance) : x.To = n.id
      BY <1>1 DEF VoteOK, Elements
    <3>2. \A k \in DOMAIN s.stepsOnAdvance : s.stepsOnAdvance[k] \in Elements(s.stepsOnAdvance)
      BY DEF Elements
    <3> QED BY <1>2, <2>1, <3>1, <3>2
  <2>4. \A m \in Held(s) : Dated(m)
    <3>1. \A m \in Held(n) : Dated(m)
      BY <1>1 DEF VoteOK
    <3>2. \A m \in Outbox(s) : m \in Outbox(r) \/ Dated(m)
      BY DEF Handles, Moves, Routine
    <3> QED BY <1>2, <3>1, <3>2
  <2> QED BY <2>2, <2>3, <2>4 DEF VoteOK, Handles, Tallies
<1>7. VotesOK'
  <2>1. \A m \in net' : Dated(m)
    BY DEF VotesOK
  <2> QED BY <1>6, <2>1, VotesKept
<1>8. /\ s.Term >= n.Term /\ (s.Term = n.Term => n.Vote \in {None, s.Vote})
  BY <1>1 DEF Like, Handles, Moves
<1>9. CASE s.state = "StateLeader" => n.state = "StateLeader" /\ s.Term = n.Term
  <2>1. VoteBallots' \subseteq D
    BY <1>3, <1>4, <1>5, BallotsBound
  <2> QED BY <1>1, <1>7, <1>8, <1>9, <2>1, VoteRefines
<1>10. CASE s.state = "StateLeader" /\ ~ (n.state = "StateLeader" /\ s.Term = n.Term)
  <2>1. /\ s.Term = n.Term /\ s.Vote = n.Vote
        /\ \A m \in Outbox(s) : m \in Outbox(r) \/ Routine(m)
        /\ Elected(r, C)
    BY <1>1, <1>10 DEF Like, Handles, Tallies
  <2>2. Cast(Held(s)) \subseteq VoteBallots
    <3>1. \A m \in Held(s) : Granted(m) => m \in Held(n)
      BY <1>2, <2>1 DEF Routine
    <3> QED BY <1>3, <3>1 DEF Cast
  <2>3. VoteBallots' \subseteq VoteBallots
    BY <1>3, <1>4, <2>2, BallotsBound
  <2>4. Elected(n, VoteBallots)
    <3>1. n.Term = r.Term /\ n.id = r.id
      BY <1>1 DEF Like
    <3> QED BY <1>2, <2>1, <3>1 DEF Elected
  <2> QED BY <1>1, <1>7, <1>10, <2>1, <2>3, <2>4, ElectRefines
<1> QED
  BY <1>9, <1>10

\* A Ready moves messages, and leaves none that Advance had yet to step.
LEMMA ReadyRefines ==
  ASSUME TypeOK, VotesOK, NEW i \in Server, Ready(i)
  PROVE  E!Next /\ VotesOK'
<1>1. PICK n : n = node[i] /\ NodeOK(i, n) /\ VoteOK(n)
  BY DEF TypeOK, VotesOK
<1>2. PICK s : s = [n EXCEPT !.stepsOnAdvance = n.msgsAfterAppend, !.msgs = {},
                             !.msgsAfterAppend = <<>>, !.ready = n.committed,
                             !.phase = "handed"]
  OBVIOUS
<1>3. Becomes(i, s) /\ net' = net \cup n.msgs
  BY <1>1, <1>2 DEF Ready
<1>4. /\ s.id = n.id /\ s.Term = n.Term /\ s.Vote = n.Vote /\ s.state = n.state
      /\ s.votes = n.votes /\ s.voters = n.voters /\ s.msgs = {} /\ s.msgsAfterAppend = <<>>
      /\ s.stepsOnAdvance = n.msgsAfterAppend
  BY <1>1, <1>2 DEF NodeOK, NodeRecord
<1>5. NodeOK(i, s)
  <2>1. <<>> \in Seq(Messages) /\ {} \in SUBSET Messages
    OBVIOUS
  <2> QED BY <1>1, <1>2, <2>1, ZenonT(30) DEF NodeOK, NodeRecord
<1>6. Held(s) = Elements(n.msgsAfterAppend)
  BY <1>4 DEF Held, Elements
<1>7. /\ Held(s) \subseteq Held(n) /\ n.msgs \subseteq Held(n)
  BY <1>6 DEF Held
<1>8. VoteOK(s) /\ \A m \in net' : Dated(m)
  <2>1. \A m \in Held(n) : Dated(m)
    BY <1>1 DEF VoteOK
  <2>2. \A k \in DOMAIN s.stepsOnAdvance : s.stepsOnAdvance[k].To = s.id
    BY <1>1, <1>4 DEF VoteOK
  <2>3. \A m \in net' : Dated(m)
    BY <1>3, <1>7, <2>1 DEF VotesOK
  <2> QED BY <1>1, <1>4, <1>7, <2>1, <2>2, <2>3 DEF VoteOK
<1>9. VotesOK'
  BY <1>3, <1>5, <1>8, VotesKept
<1>10. VoteBallots' \subseteq VoteBallots
  <2>1. Cast(Held(n)) \subseteq VoteBallots /\ Counted(n) \subseteq VoteBallots
    BY <1>1 DEF VoteBallots
  <2>2. Cast(net') \subseteq VoteBallots
    <3>1. Cast(net') = Cast(net) \cup Cast(n.msgs) /\ Cast(n.msgs) \subseteq Cast(Held(n))
      BY <1>3, <1>7 DEF Cast
    <3>2. Cast(net) \subseteq VoteBallots
      BY DEF VoteBallots
    <3> QED BY <2>1, <3>1, <3>2
  <2>3. Cast(Held(s)) \subseteq VoteBallots /\ Counted(s) \subseteq VoteBallots
    BY <1>4, <1>7, <2>1 DEF Cast, Counted
  <2> QED BY <1>3, <1>5, <2>2, <2>3, BallotsBound
<1>11. n.Term >= n.Term
  BY <1>1, Fields
<1> QED
  BY <1>1, <1>3, <1>4, <1>5, <1>9, <1>10, <1>11, VoteRefines

\* A message in flight, or held by the node, is one of its ballots if it is one.
LEMMA KnownBallot ==
  ASSUME NEW m, m \in net \/ \E i \in Server : m \in Held(node[i])
  PROVE  Cast({m}) \subseteq VoteBallots
<1>1. CASE m \in net
  BY <1>1 DEF Cast, VoteBallots
<1>2. CASE \E i \in Server : m \in Held(node[i])
  <2>1. PICK i \in Server : m \in Held(node[i])
    BY <1>2
  <2>2. Cast({m}) \subseteq Cast(Held(node[i]))
    BY <2>1 DEF Cast
  <2> QED BY <2>2 DEF VoteBallots
<1> QED
  BY <1>1, <1>2

\* Advance steps the first message that the last Ready left the node.
LEMMA AdvanceRefines ==
  ASSUME TypeOK, VotesOK, NEW i \in Server, Advance(i)
  PROVE  E!Next /\ VotesOK'
<1>1. PICK n : n = node[i] /\ NodeOK(i, n) /\ VoteOK(n)
  BY DEF TypeOK, VotesOK
<1>2. net' = net
  BY DEF Advance
<1>3. RoleOK(n)
  BY <1>1 DEF VoteOK, RoleOK
<1>4. CASE n.stepsOnAdvance = <<>>
  <2>1. PICK s : s = [n EXCEPT !.phase = "idle"]
    OBVIOUS
  <2>2. NodeOK(i, s) /\ Keeps(n, s)
    BY <1>1, <2>1, FieldKeeps DEF NodeOK, NodeRecord
  <2>3. Becomes(i, s)
    BY <1>1, <1>4, <2>1 DEF Advance
  <2>4. Handles(n, s, {})
    BY <1>1, <1>3, <2>2, KeepsHandles
  <2> QED BY <1>1, <1>2, <2>2, <2>3, <2>4, HandlerRefines DEF Like
<1>5. CASE n.stepsOnAdvance # <<>>
  <2> DEFINE q == n.stepsOnAdvance
             rest == Tail(q)
             phase == IF rest = <<>> THEN "idle" ELSE "advancing"
             m == Head(q)
  <2>1. /\ rest \in Seq(Messages) /\ m \in Messages /\ m \in Elements(q)
        /\ Elements(rest) \subseteq Elements(q)
    <3>1. q \in Seq(Messages) /\ q # <<>>
      BY <1>1, <1>5, Fields
    <3> HIDE DEF q
    <3>2. /\ rest \in Seq(Messages) /\ m \in Messages /\ m = q[1] /\ 1 \in DOMAIN q
          /\ \A k \in DOMAIN rest : k + 1 \in DOMAIN q /\ rest[k] = q[k + 1]
      BY <3>1, HeadTailProperties
    <3> HIDE DEF rest, m
    <3> QED BY <3>2 DEF Elements
  <2>2. PICK r : r = [n EXCEPT !.stepsOnAdvance = rest, !.phase = phase]
    OBVIOUS
  <2>3. Becomes(i, Step(r, m))
    BY <1>1, <1>5, <2>2 DEF Advance, AdvanceStep
  <2>4. phase \in {"idle", "handed", "advancing"}
    OBVIOUS
  <2>5. m \in Held(n) /\ m.To = n.id /\ Dated(m)
    BY <1>1, <2>1 DEF Held, VoteOK, Elements
  <2> HIDE DEF rest, phase, m, q
  <2>6. NodeOK(i, r) /\ r.stepsOnAdvance = rest
        /\ r.id = n.id /\ r.Term = n.Term /\ r.Vote = n.Vote /\ r.state = n.state
        /\ r.votes = n.votes /\ r.voters = n.voters /\ r.msgs = n.msgs
        /\ r.msgsAfterAppend = n.msgsAfterAppend
    BY <1>1, <2>1, <2>2, <2>4, ZenonT(30) DEF NodeOK, NodeRecord
  <2>7. Like(n, r)
    BY <2>1, <2>6 DEF Like, q
  <2>8. RoleOK(r)
    BY <1>3, <2>6 DEF RoleOK
  <2>9. NodeOK(i, Step(r, m)) /\ Handles(r, Step(r, m), Cast({m}))
    BY <2>1, <2>5, <2>6, <2>8, StepHandles, StepType
  <2>10. Cast({m}) \subseteq VoteBallots
    BY <1>1, <2>5, KnownBallot
  <2> QED BY <1>1, <1>2, <2>3, <2>7, <2>9, <2>10, HandlerRefines
<1> QED
  BY <1>4, <1>5

LEMMA NextRefines ==
  ASSUME MaxRestarts = 0, TypeOK, VotesOK, Next
  PROVE  E!Next /\ VotesOK'
<1>1. PICK i \in Server :
        \/ ElectionTimeout(i) \/ HeartbeatTimeout(i)
        \/ \E m \in net : Receive(i, m)
        \/ \E v \in Value : Propose(i, v)
        \/ \E m \in net : ReceiveProposal(i, m)
        \/ Ready(i) \/ Publish(i) \/ Advance(i) \/ Restart(i)
  BY DEF Next
<1>2. PICK n : n = node[i] /\ NodeOK(i, n) /\ VoteOK(n) /\ Like(node[i], n)
  BY DEF TypeOK, VotesOK, Like
<1>3. RoleOK(n) /\ n.id = i
  BY <1>2 DEF VoteOK, RoleOK, NodeOK
<1>4. CASE ElectionTimeout(i)
  <2>1. PICK s : s = hup(n, PreVote) /\ NodeOK(i, s) /\ Handles(n, s, {})
    BY <1>2, <1>3, HupHandles, CampaignType
  <2>2. Becomes(i, s) /\ net' \subseteq net
    BY <1>2, <1>4, <2>1 DEF ElectionTimeout
  <2> QED BY <1>2, <2>1, <2>2, HandlerRefines
<1>5. CASE HeartbeatTimeout(i)
  <2>1. n.Term > 0
    BY <1>2, <1>3, <1>5 DEF HeartbeatTimeout, RoleOK
  <2>2. PICK s : s = bcastHeartbeat(n) /\ NodeOK(i, s) /\ Keeps(n, s)
    BY <1>2, <2>1, BroadcastKeeps, BroadcastType
  <2>3. Handles(n, s, {})
    BY <1>2, <1>3, <2>2, KeepsHandles
  <2>4. Becomes(i, s) /\ net' \subseteq net
    BY <1>2, <1>5, <2>2 DEF HeartbeatTimeout
  <2> QED BY <1>2, <2>2, <2>3, <2>4, HandlerRefines
<1>6. ASSUME NEW m \in net, Delivers(m)
      PROVE  net' \subseteq net
  BY <1>6 DEF Delivers
<1>7. CASE \E m \in net : Receive(i, m)
  <2>1. PICK m \in net : Receive(i, m)
    BY <1>7
  <2>2. m \in Messages /\ m.To = n.id /\ Dated(m)
    BY <1>3, <2>1 DEF Receive, TypeOK, VotesOK
  <2>3. PICK s : s = Step(n, m) /\ NodeOK(i, s) /\ Handles(n, s, Cast({m}))
    BY <1>2, <1>3, <2>2, StepHandles, StepType
  <2>4. Becomes(i, s) /\ net' \subseteq net
    BY <1>2, <1>6, <2>1, <2>3 DEF Receive
  <2>5. Cast({m}) \subseteq VoteBallots
    BY KnownBallot
  <2> QED BY <1>2, <2>3, <2>4, <2>5, HandlerRefines
<1>8. ASSUME NEW m \in Messages, m.Type = "MsgProp", m.To = i
      PROVE  \E s : s = Step(n, m) /\ NodeOK(i, s) /\ Handles(n, s, {})
  <2>1. Dated(m) /\ Cast({m}) = {}
    BY <1>8 DEF Dated, Granted, LeaderMsgs, Cast
  <2> QED BY <1>2, <1>3, <1>8, <2>1, StepHandles, StepType
<1>9. CASE \E v \in Value : Propose(i, v)
  <2>1. PICK v \in Value : Propose(i, v)
    BY <1>9
  <2>2. PICK m \in Messages : m = Proposal(i, v) /\ m.Type = "MsgProp" /\ m.To = i
    BY ProposalType DEF Proposal, Message
  <2>3. PICK t : t = Step(n, m) /\ NodeOK(i, t) /\ Handles(n, t, {})
    BY <1>8, <2>2
  <2>4. PICK s : s = [t EXCEPT !.waiting = TRUE]
    OBVIOUS
  <2>5. NodeOK(i, s) /\ Keeps(t, s)
    BY <2>3, <2>4, FieldKeeps DEF NodeOK, NodeRecord
  <2>6. Handles(n, s, {})
    BY <2>3, <2>5, HandlesKeeps
  <2>7. Becomes(i, s) /\ net' \subseteq net
    BY <1>2, <2>1, <2>2, <2>3, <2>4 DEF Propose
  <2> QED BY <1>2, <2>5, <2>6, <2>7, HandlerRefines
<1>10. CASE \E m \in net : ReceiveProposal(i, m)
  <2>1. PICK m \in net : ReceiveProposal(i, m)
    BY <1>10
  <2>2. PICK p : p = [m EXCEPT !.From = i]
    OBVIOUS
  <2>3. p \in Messages /\ p.Type = "MsgProp" /\ p.To = i
    BY <2>1, <2>2 DEF ReceiveProposal, TypeOK, Messages, Unsent
  <2>4. PICK s : s = Step(n, p) /\ NodeOK(i, s) /\ Handles(n, s, {})
    BY <1>8, <2>3
  <2>5. Becomes(i, s) /\ net' \subseteq net
    BY <1>2, <1>6, <2>1, <2>2, <2>4 DEF ReceiveProposal
  <2> QED BY <1>2, <2>4, <2>5, HandlerRefines
<1>11. CASE Publish(i)
  <2>1. PICK a : a = [n EXCEPT !.appliedIndex = n.ready] /\ NodeOK(i, a) /\ Keeps(n, a)
    <3>1. n.ready \in Nat
      BY <1>2, Fields
    <3>2. NodeOK(i, [n EXCEPT !.appliedIndex = n.ready])
      BY <1>2, <3>1, FieldType
    <3>3. Keeps(n, [n EXCEPT !.appliedIndex = n.ready])
      BY <1>2, FieldKeeps
    <3> QED BY <3>2, <3>3
  <2>2. a.state = "StateLeader" => a.Term > 0
    BY <1>3, <2>1 DEF Keeps, Same, RoleOK
  <2>3. PICK c : c = switchToConfig(a) /\ NodeOK(i, c) /\ Keeps(n, c)
    BY <2>1, <2>2, SwitchToConfigType, SwitchToConfigKeeps, KeepsTransitive
  <2>4. PICK s : s \in {a, c} /\ Becomes(i, s)
    BY <1>2, <1>11, <2>1, <2>3 DEF Publish
  <2>5. NodeOK(i, s) /\ Handles(n, s, {})
    BY <1>2, <1>3, <2>1, <2>3, <2>4, KeepsHandles
  <2>6. net' \subseteq net
    BY <1>11 DEF Publish
  <2> QED BY <1>2, <2>4, <2>5, <2>6, HandlerRefines
<1>12. CASE Restart(i)
  <2>1. restarts < 0 /\ restarts \in 0..0
    BY <1>12 DEF Restart, TypeOK
  <2> QED BY <2>1
<1> QED
  BY <1>1, <1>4, <1>5, <1>7, <1>9, <1>10, <1>11, <1>12, ReadyRefines, AdvanceRefines
-----------------------------------------------------------------------------
LEMMA InitVotes ==
  ASSUME Init
  PROVE  VotesOK /\ E!Init
<1>1. \A i \in Server :
        /\ node[i] = Started(i)
        /\ node[i].Term \in Nat /\ node[i].Vote = None /\ node[i].state = "StateFollower"
        /\ node[i].msgs = {} /\ node[i].msgsAfterAppend = <<>>
        /\ node[i].stepsOnAdvance = <<>>
  <2> TAKE i \in Server
  <2>1. /\ NewNode(i).Term = 0 /\ NewNode(i).Vote = None /\ NewNode(i).state = "StateFollower"
        /\ NewNode(i).msgs = {} /\ NewNode(i).msgsAfterAppend = <<>>
        /\ NewNode(i).stepsOnAdvance = <<>>
    BY DEF NewNode
  <2>2. /\ Bootstrapped(i).Term = 1 /\ Bootstrapped(i).Vote = None
        /\ Bootstrapped(i).state = "StateFollower"
        /\ Bootstrapped(i).msgs = {} /\ Bootstrapped(i).msgsAfterAppend = <<>>
        /\ Bootstrapped(i).stepsOnAdvance = <<>>
    BY DEF Bootstrapped, NewNode
  <2>3. node[i] = Started(i)
    BY DEF Init
  <2> QED BY <2>1, <2>2, <2>3 DEF Started
<1>2. \A i \in Server : Held(node[i]) = {} /\ Counted(node[i]) = {}
  BY <1>1 DEF Held, Elements, Counted
<1>3. net = {} /\ elected = {}
  BY DEF Init
<1>4. VoteBallots = {}
  BY <1>2, <1>3 DEF VoteBallots, Cast
<1>5. E!Init
  BY <1>1, <1>3, <1>4 DEF E!Init
<1>6. VotesOK
  BY <1>1, <1>2, <1>3 DEF VotesOK, VoteOK, Leader
<1> QED
  BY <1>5, <1>6

\* Without restarts, every behaviour of the raft core is one of Election: each
\* step of each handler casts at most one ballot, its own and the only one of
\* its term, loses some, or makes a leader of who holds a majority's.
THEOREM RaftElects ==
  ASSUME MaxRestarts = 0
  PROVE  Spec => RefinesElection
<1>1. Init => VotesOK /\ E!Init
  BY InitVotes
<1>2. TypeOK /\ VotesOK /\ [Next]_vars => [E!Next]_E!vars /\ VotesOK'
  <2> SUFFICES ASSUME TypeOK, VotesOK, [Next]_vars
               PROVE  [E!Next]_E!vars /\ VotesOK'
    OBVIOUS
  <2>1. CASE Next
    BY <2>1, NextRefines
  <2>2. CASE UNCHANGED vars
    <3>1. UNCHANGED E!vars
      BY <2>2 DEF vars, E!vars, VoteBallots, Cast, Held, Counted, Elements, Granted
    <3>2. VotesOK'
      BY <2>2 DEF vars, VotesOK, VoteOK, Held, Elements, Dated, Granted, Leader
    <3> QED BY <3>1, <3>2
  <2> QED BY <2>1, <2>2
<1> QED
  BY <1>1, <1>2, TypeCorrect, PTL DEF Spec, E!Spec, RefinesElection

P == INSTANCE ElectionProof WITH
       termOf  <- [i \in Server |-> node[i].Term],
       voteOf  <- [i \in Server |-> node[i].Vote],
       ballots <- VoteBallots,
       leaders <- elected

LEMMA ElectionInstance ==
  E!Spec => P!Spec
<1>1. \A Q : P!Majority(Q) <=> E!Majority(Q)
  <2>1. \A S : P!Cardinality(S) = E!Cardinality(S)
    BY DEF P!Cardinality, E!Cardinality
  <2> QED BY <2>1 DEF P!Majority, E!Majority
<1>2. E!Init => P!Init
  BY DEF E!Init, P!Init
<1>3. ASSUME NEW i \in Server, E!Elect(i)
      PROVE  P!Elect(i)
  BY <1>1, <1>3 DEF E!Elect, P!Elect
<1>4. ASSUME NEW i \in Server, NEW t, NEW c, E!Vote(i, t, c)
      PROVE  P!Vote(i, t, c)
  BY <1>4 DEF E!Vote, P!Vote
<1>5. [E!Next]_E!vars => [P!Next]_P!vars
  BY <1>3, <1>4 DEF E!Next, P!Next, E!vars, P!vars
<1> QED
  BY <1>2, <1>5, PTL DEF E!Spec, P!Spec

\* Both follow from what Election promises.
LEMMA ElectionPromises ==
  ASSUME MaxRestarts = 0
  PROVE  Spec => [](ElectionSafety /\ OneVotePerTerm)
<1>1. P!IsFiniteSet(Server) /\ None \notin Server
  BY ServerAssumption DEF P!IsFiniteSet, IsFiniteSet
<1>2. P!Spec => [](P!OneLeader /\ P!OneBallot)
  BY <1>1, P!ElectsOneLeader, PTL
<1>3. P!OneLeader => ElectionSafety
  BY DEF P!OneLeader, ElectionSafety
<1>4. P!OneBallot => OneVotePerTerm
  <2> SUFFICES ASSUME P!OneBallot, NEW a \in Grants, NEW b \in Grants,
                      a.From = b.From, a.Term = b.Term
               PROVE  a.To = b.To
    BY DEF OneVotePerTerm
  <2>1. \A m \in Grants : <<m.From, m.Term, m.To>> \in VoteBallots
    BY DEF Grants, InFlight, VoteBallots, Held, Cast, Granted
  <2> QED BY <2>1 DEF P!OneBallot
<1> QED
  BY <1>2, <1>3, <1>4, RaftElects, ElectionInstance, PTL DEF RefinesElection

\* Without restarts, no term ever has two leaders, whatever is lost, delayed or
\* reordered (stepCandidate, poll, becomeLeader).
THEOREM RaftElectsOneLeader ==
  ASSUME MaxRestarts = 0
  PROVE  Spec => []ElectionSafety
BY ElectionPromises, PTL

\* Without restarts, no server ever has votes in flight for two candidates of one
\* term (raft.Step under canVote, reset, and the vote a candidate casts itself).
THEOREM RaftCastsOneVote ==
  ASSUME MaxRestarts = 0
  PROVE  Spec => []OneVotePerTerm
BY ElectionPromises, PTL
-----------------------------------------------------------------------------
(* Whom a server follows *)

\* A message of a leader comes from one of F, the pairs of term and leader.
Vouched(F, m) == m.Type \in LeaderMsgs => m.Term > 0 /\ <<m.Term, m.From>> \in F

\* Node r follows a leader of F or none, leads only if in F, and no message of
\* its own pretends to a leadership.
Follows(F, r) ==
  /\ r.lead # None => <<r.Term, r.lead>> \in F
  /\ r.state \in {"StateCandidate", "StateLeader"} => r.Term > 0
  /\ r.state = "StateLeader" => <<r.Term, r.id>> \in F
  /\ \A m \in Held(r) : Vouched(F, m)

LeadsOK ==
  /\ \A i \in Server : Follows(elected, node[i])
  /\ \A m \in net : Vouched(elected, m)
-----------------------------------------------------------------------------
(* Operators that change no role *)

LEMMA StillFollows ==
  ASSUME NEW F, NEW r, NEW s, Follows(F, r), Same(r, s),
         s.lead # r.lead => <<r.Term, s.lead>> \in F,
         \A m \in Outbox(s) : m \in Outbox(r) \/ Vouched(F, m)
  PROVE  Follows(F, s)
BY DEF Follows, Same, Held, Outbox

\* Who was elected stays so.
LEMMA FollowsMore ==
  ASSUME NEW F, NEW G, F \subseteq G, NEW r, Follows(F, r)
  PROVE  Follows(G, r)
BY DEF Follows, Vouched

\* Fields that no leadership depends on, and the leader itself
LEMMA FieldFollows ==
  ASSUME NEW F, NEW i, NEW r, NodeOK(i, r), Follows(F, r)
  PROVE  /\ \A l : Follows(F, [r EXCEPT !.log = l])
         /\ \A n : Follows(F, [r EXCEPT !.committed = n])
         /\ \A l, n : Follows(F, [r EXCEPT !.log = l, !.committed = n])
         /\ \A n : Follows(F, [r EXCEPT !.appliedIndex = n])
         /\ \A v : <<r.Term, v>> \in F => Follows(F, [r EXCEPT !.lead = v])
         /\ \A p : Follows(F, [r EXCEPT !.prs = p])
         /\ \A w : Follows(F, [r EXCEPT !.waiting = w])
         /\ \A ph : Follows(F, [r EXCEPT !.phase = ph])
         /\ \A v : Follows(F, [r EXCEPT !.votes = v])
         /\ \A v : Follows(F, [r EXCEPT !.Vote = v])
         /\ Follows(F, panic(r))
<1>1. \A l : Follows(F, [r EXCEPT !.log = l])
  BY DEF NodeOK, NodeRecord, Follows, Held
<1>2. \A n : Follows(F, [r EXCEPT !.committed = n])
  BY DEF NodeOK, NodeRecord, Follows, Held
<1>3. \A l, n : Follows(F, [r EXCEPT !.log = l, !.committed = n])
  BY DEF NodeOK, NodeRecord, Follows, Held
<1>4. \A n : Follows(F, [r EXCEPT !.appliedIndex = n])
  BY DEF NodeOK, NodeRecord, Follows, Held
<1>5. \A v : <<r.Term, v>> \in F => Follows(F, [r EXCEPT !.lead = v])
  BY DEF NodeOK, NodeRecord, Follows, Held
<1>6. \A p : Follows(F, [r EXCEPT !.prs = p])
  BY DEF NodeOK, NodeRecord, Follows, Held
<1>7. \A w : Follows(F, [r EXCEPT !.waiting = w])
  BY DEF NodeOK, NodeRecord, Follows, Held
<1>8. \A ph : Follows(F, [r EXCEPT !.phase = ph])
  BY DEF NodeOK, NodeRecord, Follows, Held
<1>9. \A v : Follows(F, [r EXCEPT !.votes = v])
  BY DEF NodeOK, NodeRecord, Follows, Held
<1>10. \A v : Follows(F, [r EXCEPT !.Vote = v])
  BY DEF NodeOK, NodeRecord, Follows, Held
<1>11. Follows(F, panic(r))
  BY DEF NodeOK, NodeRecord, Follows, Held, panic
<1> QED
  BY <1>1, <1>2, <1>3, <1>4, <1>5, <1>6, <1>7, <1>8, <1>9, <1>10, <1>11

LEMMA SendFollows ==
  ASSUME NEW F, NEW i, NEW r, NodeOK(i, r), Follows(F, r), NEW m \in Unsent,
         m.Type \notin LeaderMsgs
  PROVE  Follows(F, send(r, m))
<1>1. stamp(r, m).Type = m.Type
  BY DEF stamp, Unsent
<1>2. send(r, m).lead = r.lead
  BY DEF send, panic, NodeOK, NodeRecord
<1> QED
  BY <1>1, <1>2, SendSame, StillFollows DEF Vouched

\* Only a leader sends a leader's messages, in its own name and term.
LEMMA SendAllFollows ==
  ASSUME NEW F, NEW i, NEW r, NodeOK(i, r), Follows(F, r), NEW M \in SUBSET Unsent,
         \A m \in M : m.Type \in LeaderMsgs => m.From = None /\ r.state = "StateLeader"
  PROVE  Follows(F, sendAll(r, M))
<1> DEFINE S == {stamp(r, m) : m \in M}
<1>1. ASSUME NEW m \in M
      PROVE  Vouched(F, stamp(r, m))
  <2>1. stamp(r, m).Type = m.Type
    BY DEF stamp, Unsent
  <2>2. m.Type \in LeaderMsgs =>
          stamp(r, m).Term = r.Term /\ stamp(r, m).From = r.id /\ r.state = "StateLeader"
    BY DEF stamp, Unsent, LeaderMsgs, VoteMsgs
  <2> QED BY <2>1, <2>2 DEF Vouched, Follows
<1>2. \A x \in S : Vouched(F, x)
  BY <1>1
<1> HIDE DEF S
<1>3. Follows(F, [r EXCEPT !.msgs = @ \cup S])
  <2>1. PICK s : s = [r EXCEPT !.msgs = @ \cup S]
    OBVIOUS
  <2>2. Same(r, s) /\ s.lead = r.lead /\ Outbox(s) = Outbox(r) \cup S
    BY <2>1 DEF NodeOK, NodeRecord, Same, Outbox
  <2> QED BY <1>2, <2>1, <2>2, StillFollows
<1> QED
  BY <1>3, FieldFollows DEF sendAll, S

LEMMA AppendToFrom ==
  ASSUME NEW r, NEW to
  PROVE  appendTo(r, to).From = None
BY DEF appendTo, Message

LEMMA MaybeSendAppendFollows ==
  ASSUME NEW F, NEW i, NEW r, NodeOK(i, r), Follows(F, r), r.state = "StateLeader",
         NEW dests \in SUBSET r.voters, NEW sendIfEmpty
  PROVE  Follows(F, maybeSendAppend(r, dests, sendIfEmpty))
<1> DEFINE known == {to \in dests : termKnown(r.log, r.prs[to].Next - 1)}
           sent  == {to \in known : sendIfEmpty \/ appendTo(r, to).Entries # <<>>}
           M     == {appendTo(r, to) : to \in sent}
           prs   == [to \in r.voters |->
                       IF to \in sent
                       THEN UpdateOnEntriesSend(r.prs[to], appendTo(r, to).Entries)
                       ELSE r.prs[to]]
           s     == sendAll(r, M)
<1>1. M \in SUBSET Unsent
  BY AppendToType
<1>2. \A m \in M : m.From = None
  BY AppendToFrom
<1>3. maybeSendAppend(r, dests, sendIfEmpty) = [s EXCEPT !.prs = prs]
  BY DEF maybeSendAppend
<1> HIDE DEF M, prs
<1>4. Follows(F, s) /\ NodeOK(i, s)
  BY <1>1, <1>2, SendAllFollows, SendAllType
<1> HIDE DEF s
<1>5. Follows(F, [s EXCEPT !.prs = prs])
  BY <1>4, FieldFollows
<1> QED
  BY <1>3, <1>5

LEMMA BroadcastFollows ==
  ASSUME NEW F, NEW i, NEW r, NodeOK(i, r), Follows(F, r), r.state = "StateLeader"
  PROVE  Follows(F, bcastAppend(r)) /\ Follows(F, bcastHeartbeat(r))
<1>1. Peers(r) \in SUBSET r.voters
  BY DEF Peers
<1>2. Follows(F, bcastAppend(r))
  BY <1>1, MaybeSendAppendFollows DEF bcastAppend
<1> DEFINE commit(to) == IF r.prs[to].Match < r.committed THEN r.prs[to].Match ELSE r.committed
           M == {[Message("MsgHeartbeat", to) EXCEPT !.Commit = commit(to)] : to \in Peers(r)}
<1>3. \A to \in Peers(r) : commit(to) \in Nat /\ to \in Server
  BY <1>1, Fields DEF ProgressOK, ProgressRecord
<1>4. "MsgHeartbeat" \in MessageTypes \ {"MsgProp"}
  BY DEF MessageTypes, LeaderMsgs
<1>5. M \in SUBSET Unsent
  <2> HIDE DEF commit
  <2>1. \A to \in Peers(r) : [Message("MsgHeartbeat", to) EXCEPT !.Commit = commit(to)] \in Unsent
    BY <1>3, <1>4, MessageType
  <2> QED BY <2>1
<1>6. \A m \in M : m.From = None
  BY DEF Message
<1>7. bcastHeartbeat(r) = sendAll(r, M)
  BY DEF bcastHeartbeat
<1> HIDE DEF M
<1> QED
  BY <1>2, <1>5, <1>6, <1>7, SendAllFollows

LEMMA AppendEntryFollows ==
  ASSUME NEW F, NEW i, NEW r, NodeOK(i, r), Follows(F, r), NEW data \in Data
  PROVE  Follows(F, appendEntry(r, data))
<1> DEFINE log == Append(r.log, [Term |-> r.Term, Data |-> data])
           l   == [r EXCEPT !.log = log]
           m   == [Message("MsgAppResp", r.id) EXCEPT !.Index = lastIndex(log)]
<1>1. log \in Seq(Entry)
  <2>1. [Term |-> r.Term, Data |-> data] \in Entry
    BY Fields DEF Entry
  <2> QED BY <2>1, Fields
<1>2. NodeOK(i, l) /\ Follows(F, l)
  <2> HIDE DEF log
  <2> QED BY <1>1, FieldType, FieldFollows
<1>3. m \in Unsent
  <2>1. lastIndex(log) \in Nat
    BY <1>1, TermType
  <2>2. "MsgAppResp" \in MessageTypes \ {"MsgProp"}
    BY DEF MessageTypes, ResponseMsgs, AfterAppend
  <2> HIDE DEF log
  <2> QED BY <2>1, <2>2, Fields, MessageType
<1>4. m.Type = "MsgAppResp"
  BY DEF Message
<1>5. appendEntry(r, data) = send(l, m)
  BY DEF appendEntry
<1> HIDE DEF l, m
<1> QED
  BY <1>2, <1>3, <1>4, <1>5, SendFollows DEF LeaderMsgs

LEMMA MaybeCommitFollows ==
  ASSUME NEW F, NEW i, NEW r, NodeOK(i, r), Follows(F, r)
  PROVE  Follows(F, maybeCommit(r))
<1>1. PICK n : n = commitTo(r.committed, Committed(r))
  OBVIOUS
<1>2. Follows(F, [r EXCEPT !.committed = n])
  BY FieldFollows
<1> QED
  BY <1>1, <1>2 DEF maybeCommit

LEMMA HandleHeartbeatFollows ==
  ASSUME NEW F, NEW i, NEW r, NodeOK(i, r), Follows(F, r), NEW m \in Messages
  PROVE  Follows(F, handleHeartbeat(r, m))
<1>1. m.From \in Server
  BY DEF Messages
<1>2. "MsgHeartbeatResp" \in MessageTypes \ {"MsgProp"}
  BY DEF MessageTypes, ResponseMsgs
<1>3. PICK x \in Unsent : x = Message("MsgHeartbeatResp", m.From)
  BY <1>1, <1>2, MessageType
<1>4. x.Type = "MsgHeartbeatResp"
  BY <1>3 DEF Message
<1> QED
  BY <1>3, <1>4, SendFollows DEF handleHeartbeat, LeaderMsgs

LEMMA HandleAppendEntriesFollows ==
  ASSUME NEW F, NEW i, NEW r, NodeOK(i, r), Follows(F, r), NEW m \in Messages
  PROVE  Follows(F, handleAppendEntries(r, m))
<1> DEFINE resp     == Message("MsgAppResp", m.From)
           lastnewi == m.Index + Len(m.Entries)
           tocommit == IF m.Commit < lastnewi THEN m.Commit ELSE lastnewi
           log      == appended(r.log, m.Index, m.Entries)
           from     == IF m.Index < lastIndex(r.log) THEN m.Index ELSE lastIndex(r.log)
           hint     == findConflictByTerm(r.log, from, m.LogTerm)
           hintTerm == zeroTermOnOutOfBounds(r.log, hint)
           stale    == [resp EXCEPT !.Index = r.committed]
           accept   == [resp EXCEPT !.Index = lastnewi]
           reject   == [resp EXCEPT !.Index = m.Index, !.Reject = TRUE, !.RejectHint = hint,
                                    !.LogTerm = hintTerm]
<1>1. m.From \in Server /\ m.Index \in Nat /\ m.Commit \in Nat /\ m.Entries \in Seq(Entry)
  BY DEF Messages, Unsent
<1>2. lastnewi \in Nat /\ tocommit \in Nat
  BY <1>1, LenProperties
<1>3. hint \in Nat /\ hintTerm \in Nat
  <2>1. from \in Nat
    BY <1>1, Fields, TermType
  <2> HIDE DEF from
  <2>2. r.log \in Seq(Entry)
    BY Fields
  <2> QED BY <2>1, <2>2, HintType
<1>4. "MsgAppResp" \in MessageTypes \ {"MsgProp"}
  BY DEF MessageTypes, ResponseMsgs, AfterAppend
<1>5. /\ stale \in Unsent /\ stale.Type = "MsgAppResp"
      /\ accept \in Unsent /\ accept.Type = "MsgAppResp"
      /\ reject \in Unsent /\ reject.Type = "MsgAppResp"
  <2> HIDE DEF lastnewi, hint, hintTerm
  <2>1. r.committed \in Nat
    BY Fields
  <2>2. stale \in Unsent /\ accept \in Unsent /\ reject \in Unsent
    BY <1>1, <1>2, <1>3, <1>4, <2>1, MessageType
  <2>3. stale.Type = "MsgAppResp" /\ accept.Type = "MsgAppResp" /\ reject.Type = "MsgAppResp"
    BY DEF Message
  <2> QED BY <2>2, <2>3
<1> HIDE DEF stale, accept, reject
<1>6. CASE m.Index < r.committed
  <2>1. handleAppendEntries(r, m) = send(r, stale)
    <3>1. ~ (m.Index >= r.committed)
      BY <1>1, <1>6, Fields
    <3> QED BY <1>6, <3>1 DEF handleAppendEntries, stale
  <2> QED BY <1>5, <2>1, SendFollows DEF LeaderMsgs
<1>7. CASE m.Index >= r.committed /\ matchTerm(r.log, m.Index, m.LogTerm)
  <2> DEFINE a == [r EXCEPT !.log = log, !.committed = commitTo(@, tocommit)]
             p == \/ appendPanics(r.log, r.committed, m.Index, m.Entries)
                  \/ commitPanics(log, r.committed, tocommit)
  <2>1. log \in Seq(Entry)
    BY <1>1, <1>7, Fields, AppendedType DEF matchTerm, termKnown
  <2>2. PICK n \in Nat : n = commitTo(r.committed, tocommit)
    <3> HIDE DEF tocommit
    <3> QED BY <1>2, Fields DEF commitTo
  <2>3. a = [r EXCEPT !.log = log, !.committed = n]
    BY <2>2
  <2>4. handleAppendEntries(r, m) = IF p THEN panic(r) ELSE send(a, accept)
    <3>1. ~ (m.Index < r.committed)
      BY <1>1, <1>7, Fields
    <3> QED BY <1>7, <3>1 DEF handleAppendEntries, accept
  <2> HIDE DEF a, p, log
  <2>5. NodeOK(i, a)
    BY <2>1, <2>3 DEF NodeOK, NodeRecord
  <2>6. Follows(F, a)
    BY <2>3, FieldFollows
  <2>7. Follows(F, send(a, accept))
    BY <1>5, <2>5, <2>6, SendFollows DEF LeaderMsgs
  <2>8. Follows(F, panic(r))
    BY FieldFollows
  <2> QED BY <2>4, <2>7, <2>8
<1>8. CASE ~ (m.Index < r.committed) /\ ~ matchTerm(r.log, m.Index, m.LogTerm)
  <2>1. handleAppendEntries(r, m) = send(r, reject)
    BY <1>8 DEF handleAppendEntries, reject
  <2> QED BY <1>5, <2>1, SendFollows DEF LeaderMsgs
<1> QED
  BY <1>1, <1>6, <1>7, <1>8, Fields

\* What raft.Step hands on is of the node's term if it comes from a leader.
Heard(F, r, m) == m.Type \in LeaderMsgs => m.Term = r.Term /\ <<m.Term, m.From>> \in F

LEMMA StepFollowerFollows ==
  ASSUME NEW F, NEW i, NEW r, NodeOK(i, r), Follows(F, r), NEW m \in Messages, Heard(F, r, m)
  PROVE  Follows(F, stepFollower(r, m))
<1> DEFINE l == [r EXCEPT !.lead = m.From]
           f == [m EXCEPT !.To = r.lead]
<1>1. NodeOK(i, l) /\ (m.Type \in LeaderMsgs => Follows(F, l))
  BY LeadType, FieldFollows DEF Heard
<1>2. r.lead # None => f \in Unsent
  BY Fields DEF Messages, Unsent
<1>3. f.Type = m.Type
  BY DEF Messages, Unsent
<1>4. CASE m.Type = "MsgProp"
  <2>1. stepFollower(r, m) = IF r.lead = None THEN r ELSE send(r, f)
    BY <1>4 DEF stepFollower
  <2> HIDE DEF f
  <2> QED BY <1>2, <1>3, <1>4, <2>1, SendFollows DEF LeaderMsgs
<1> HIDE DEF l
<1>5. CASE m.Type = "MsgApp"
  <2>1. stepFollower(r, m) = handleAppendEntries(l, m)
    BY <1>5 DEF stepFollower, l
  <2> QED BY <1>1, <1>5, <2>1, HandleAppendEntriesFollows DEF LeaderMsgs
<1>6. CASE m.Type = "MsgHeartbeat"
  <2>1. stepFollower(r, m) = handleHeartbeat(l, m)
    BY <1>6 DEF stepFollower, l
  <2> QED BY <1>1, <1>6, <2>1, HandleHeartbeatFollows DEF LeaderMsgs
<1>7. CASE m.Type \notin {"MsgProp", "MsgApp", "MsgHeartbeat"}
  BY <1>7 DEF stepFollower
<1> QED
  BY <1>4, <1>5, <1>6, <1>7

LEMMA HandleAppendResponseFollows ==
  ASSUME NEW F, NEW i, NEW r, NodeOK(i, r), Follows(F, r), r.state = "StateLeader",
         NEW m \in Messages, m.From \in r.voters
  PROVE  Follows(F, handleAppendResponse(r, m))
<1> DEFINE pr      == r.prs[m.From]
           moves   == Updates(pr, m.Index) \/ (pr.Match = m.Index /\ pr.State = "StateProbe")
           updated == MaybeUpdate(pr, m.Index)
           newPr   == IF moves /\ updated.State = "StateProbe"
                      THEN BecomeReplicate(updated) ELSE updated
           prs     == [r.prs EXCEPT ![m.From] = newPr]
           tracked == [r EXCEPT !.prs = prs]
           sent    == CASE commitAdvances(tracked) -> bcastAppend(maybeCommit(tracked))
                        [] ~ commitAdvances(tracked) /\ IsPaused(pr) ->
                             maybeSendAppend(tracked, {m.From}, TRUE)
                        [] OTHER -> tracked
<1>1. m.Index \in Nat
  BY DEF Messages, Unsent
<1>2. ProgressOK(newPr)
  <2>1. ProgressOK(updated)
    BY <1>1, Fields, MaybeUpdateType
  <2> HIDE DEF updated
  <2> QED BY <2>1, BecomeReplicateType
<1>3. prs \in [r.voters -> ProgressRecord] /\ \A j \in r.voters : ProgressOK(prs[j])
  <2>1. r.prs \in [r.voters -> ProgressRecord] /\ \A j \in r.voters : ProgressOK(r.prs[j])
    BY Fields
  <2> HIDE DEF newPr
  <2> QED BY <1>2, <2>1 DEF ProgressOK
<1>4. NodeOK(i, tracked) /\ Keeps(r, tracked) /\ Follows(F, tracked)
  <2> HIDE DEF prs
  <2> QED BY <1>3, FieldType, FieldKeeps, FieldFollows
<1>5. handleAppendResponse(r, m) =
        CASE m.Reject -> r
          [] ~ m.Reject /\ ~ moves -> tracked
          [] OTHER -> IF m.From = r.id THEN sent ELSE maybeSendAppend(sent, {m.From}, FALSE)
  BY DEF handleAppendResponse
<1>6. NodeOK(i, sent) /\ Keeps(tracked, sent) /\ Follows(F, sent)
  <2> HIDE DEF tracked
  <2>1. tracked.state = "StateLeader" /\ tracked.Term > 0 /\ tracked.voters = r.voters
    BY <1>4 DEF Keeps, Same, Follows
  <2>2. CASE commitAdvances(tracked)
    <3>1. PICK c : c = maybeCommit(tracked) /\ NodeOK(i, c) /\ Keeps(tracked, c) /\ Follows(F, c)
      BY <1>4, MaybeCommitType, MaybeCommitKeeps, MaybeCommitFollows
    <3>2. c.state = "StateLeader" /\ c.Term > 0
      BY <2>1, <3>1 DEF Keeps, Same
    <3>3. PICK b : b = bcastAppend(c) /\ NodeOK(i, b) /\ Keeps(c, b) /\ Follows(F, b)
      BY <3>1, <3>2, BroadcastType, BroadcastKeeps, BroadcastFollows
    <3>4. sent = b
      BY <2>2, <3>1, <3>3
    <3> HIDE DEF sent
    <3> QED BY <3>1, <3>3, <3>4, KeepsTransitive
  <2>3. CASE ~ commitAdvances(tracked)
    <3>1. {m.From} \in SUBSET tracked.voters
      BY <2>1
    <3>2. PICK t : /\ t = maybeSendAppend(tracked, {m.From}, TRUE)
                   /\ NodeOK(i, t) /\ Keeps(tracked, t) /\ Follows(F, t)
      BY <1>4, <2>1, <3>1, MaybeSendAppendType, MaybeSendAppendKeeps, MaybeSendAppendFollows
    <3>3. sent = t \/ sent = tracked
      BY <2>3, <3>2
    <3> HIDE DEF sent
    <3> QED BY <1>4, <3>2, <3>3, KeepsSelf
  <2> QED BY <2>2, <2>3
<1> HIDE DEF moves, tracked, sent
<1>7. Follows(F, maybeSendAppend(sent, {m.From}, FALSE))
  <2>1. sent.state = "StateLeader" /\ {m.From} \in SUBSET sent.voters
    BY <1>4, <1>6 DEF Keeps, Same
  <2> QED BY <1>6, <2>1, MaybeSendAppendFollows
<1> QED
  BY <1>4, <1>5, <1>6, <1>7

LEMMA StepLeaderFollows ==
  ASSUME NEW F, NEW i, NEW r, NodeOK(i, r), Follows(F, r), r.state = "StateLeader",
         NEW m \in Messages
  PROVE  Follows(F, stepLeader(r, m))
<1>1. CASE m.Type = "MsgProp"
  <2>1. m.Entries \in Seq(Entry) /\ m.Entries # <<>>
    BY <1>1 DEF Messages, Unsent
  <2>2. m.Entries[1].Data \in Data
    <3>1. m.Entries[1] \in Entry
      BY <2>1, EmptySeq, ElementOfSeq
    <3> QED BY <3>1 DEF Entry
  <2>3. PICK a : /\ a = appendEntry(r, m.Entries[1].Data)
                 /\ NodeOK(i, a) /\ Keeps(r, a) /\ Follows(F, a)
    BY <2>2, AppendEntryType, AppendEntryKeeps, AppendEntryFollows
  <2>4. Follows(F, bcastAppend(a))
    BY <2>3, BroadcastFollows DEF Keeps, Same
  <2> QED BY <1>1, <2>3, <2>4 DEF stepLeader
<1>2. CASE m.Type = "MsgAppResp" /\ m.From \in r.voters
  BY <1>2, HandleAppendResponseFollows DEF stepLeader
<1>3. CASE m.Type # "MsgProp" /\ ~ (m.Type = "MsgAppResp" /\ m.From \in r.voters)
  BY <1>3 DEF stepLeader
<1> QED
  BY <1>1, <1>2, <1>3

LEMMA LowerTermFollows ==
  ASSUME NEW F, NEW i, NEW r, NodeOK(i, r), Follows(F, r), NEW m \in Messages
  PROVE  Follows(F, lowerTerm(r, m))
<1> DEFINE stale == (CheckQuorum \/ PreVote) /\ m.Type \in LeaderMsgs
           app == Message("MsgAppResp", m.From)
           pre == [Message("MsgPreVoteResp", m.From) EXCEPT !.Term = r.Term, !.Reject = TRUE]
<1>1. m.From \in Server /\ r.Term \in Nat
  BY Fields DEF Messages, Unsent
<1>2. {"MsgAppResp", "MsgPreVoteResp"} \subseteq MessageTypes \ {"MsgProp"}
  BY DEF MessageTypes, ResponseMsgs, AfterAppend
<1>3. app \in Unsent /\ app.Type = "MsgAppResp"
  BY <1>1, <1>2, MessageType DEF Message
<1>4. pre \in Unsent /\ pre.Type = "MsgPreVoteResp"
  BY <1>1, <1>2, MessageType DEF Message
<1>5. m.Type = "MsgPreVote" => ~ stale
  BY DEF LeaderMsgs
<1>6. lowerTerm(r, m) =
        IF stale THEN send(r, app) ELSE IF m.Type = "MsgPreVote" THEN send(r, pre) ELSE r
  BY <1>5 DEF lowerTerm
<1> HIDE DEF stale, app, pre
<1> QED
  BY <1>3, <1>4, <1>6, SendFollows DEF LeaderMsgs

LEMMA SwitchToConfigFollows ==
  ASSUME NEW F, NEW i, NEW r, NodeOK(i, r), Follows(F, r)
  PROVE  Follows(F, switchToConfig(r))
<1>1. CASE r.state = "StateLeader"
  <2>1. PICK c : c = maybeCommit(r) /\ NodeOK(i, c) /\ Keeps(r, c) /\ Follows(F, c)
    BY MaybeCommitType, MaybeCommitKeeps, MaybeCommitFollows
  <2>2. Follows(F, bcastAppend(c))
    BY <1>1, <2>1, BroadcastFollows DEF Keeps, Same
  <2>3. Follows(F, maybeSendAppend(r, Peers(r), FALSE))
    BY <1>1, MaybeSendAppendFollows DEF Peers
  <2> QED BY <2>1, <2>2, <2>3 DEF switchToConfig
<1>2. CASE r.state # "StateLeader"
  BY <1>2 DEF switchToConfig
<1> QED
  BY <1>1, <1>2
-----------------------------------------------------------------------------
(* Changes of role *)

LEMMA ResetLead ==
  ASSUME NEW i, NEW r, NodeOK(i, r), NEW t
  PROVE  reset(r, t).lead = None
BY DEF reset, NodeOK, NodeRecord

LEMMA FollowerFollows ==
  ASSUME NEW F, NEW i, NEW r, NodeOK(i, r), Follows(F, r), NEW t \in Nat, NEW lead,
         lead # None => <<t, lead>> \in F,
         NEW s, s = becomeFollower(r, t, lead)
  PROVE  Follows(F, s)
<1>1. PICK z : z = reset(r, t) /\ NodeOK(i, z)
  BY ResetType
<1>2. s = [z EXCEPT !.lead = lead, !.state = "StateFollower"]
  BY <1>1 DEF becomeFollower
<1>3. /\ s.Term = z.Term /\ s.lead = lead /\ s.state = "StateFollower" /\ s.msgs = z.msgs
      /\ s.msgsAfterAppend = z.msgsAfterAppend /\ s.stepsOnAdvance = z.stepsOnAdvance
  BY <1>1, <1>2 DEF NodeOK, NodeRecord
<1>4. z.Term = t /\ Held(s) = Held(r)
  BY <1>1, <1>3, ResetFields DEF Held
<1> QED
  BY <1>3, <1>4 DEF Follows

LEMMA CandidateFollows ==
  ASSUME NEW F, NEW i, NEW r, NodeOK(i, r), Follows(F, r)
  PROVE  Follows(F, becomePreCandidate(r)) /\ Follows(F, becomeCandidate(r))
<1>1. Follows(F, panic(r))
  BY FieldFollows
<1>2. Follows(F, becomePreCandidate(r))
  <2>1. PICK votes : votes = ResetVotes(Server)
    OBVIOUS
  <2>2. Follows(F, [r EXCEPT !.votes = votes, !.lead = None, !.state = "StatePreCandidate"])
    BY DEF NodeOK, NodeRecord, Follows, Held
  <2> QED BY <1>1, <2>1, <2>2 DEF becomePreCandidate
<1>3. Follows(F, becomeCandidate(r))
  <2>1. r.Term + 1 \in Nat /\ r.Term + 1 > 0
    BY Fields
  <2>2. PICK z : z = reset(r, r.Term + 1) /\ NodeOK(i, z) /\ z.lead = None
    BY <2>1, ResetType, ResetLead
  <2>3. PICK s : s = [z EXCEPT !.Vote = r.id, !.state = "StateCandidate"]
    OBVIOUS
  <2>4. /\ s.Term = z.Term /\ s.lead = None /\ s.state = "StateCandidate" /\ s.msgs = z.msgs
        /\ s.msgsAfterAppend = z.msgsAfterAppend /\ s.stepsOnAdvance = z.stepsOnAdvance
    BY <2>2, <2>3 DEF NodeOK, NodeRecord
  <2>5. s.Term > 0 /\ Held(s) = Held(r)
    BY <2>1, <2>2, <2>4, ResetFields DEF Held
  <2>6. Follows(F, s)
    BY <2>4, <2>5 DEF Follows
  <2> QED BY <1>1, <2>2, <2>3, <2>6 DEF becomeCandidate
<1> QED
  BY <1>2, <1>3

\* A new leader follows itself, and says so to its peers.
LEMMA LeaderFollows ==
  ASSUME NEW F, NEW i, NEW p, NodeOK(i, p), Follows(F, p), p.state = "StateCandidate",
         <<p.Term, p.id>> \in F
  PROVE  Follows(F, bcastAppend(becomeLeader(p)))
<1> DEFINE l == [reset(p, p.Term) EXCEPT !.lead = p.id, !.state = "StateLeader"]
           f == [l.prs EXCEPT ![p.id] = BecomeReplicate(@)]
           b == [l EXCEPT !.prs = f]
<1>1. p.Term \in Nat /\ p.Term > 0
  BY Fields DEF Follows
<1>2. NodeOK(i, l) /\ Follows(F, l) /\ l.state = "StateLeader" /\ l.Term = p.Term
  <2>1. PICK z : z = reset(p, p.Term) /\ NodeOK(i, z)
    BY <1>1, ResetType
  <2>2. z.id = p.id /\ z.Term = p.Term /\ Held(z) = Held(p)
    BY <1>1, <2>1, ResetFields DEF Held
  <2>3. l = [z EXCEPT !.lead = p.id, !.state = "StateLeader"]
    BY <2>1
  <2>4. NodeOK(i, l)
    BY <2>1, <2>3, Fields, RoleType
  <2> HIDE DEF l
  <2>5. l.id = z.id /\ l.lead = p.id /\ l.Term = z.Term /\ l.state = "StateLeader" /\ Held(l) = Held(z)
    BY <2>1, <2>3 DEF NodeOK, NodeRecord, Held
  <2>6. Follows(F, l)
    BY <1>1, <2>2, <2>5 DEF Follows
  <2> QED BY <2>2, <2>4, <2>5, <2>6
<1>3. becomeLeader(p) = appendEntry(b, EmptyEntry)
  BY DEF becomeLeader
<1>4. NodeOK(i, b) /\ Follows(F, b) /\ Keeps(l, b)
  <2> HIDE DEF l
  <2>1. f \in [l.voters -> ProgressRecord] /\ \A j \in l.voters : ProgressOK(f[j])
    <3>1. l.prs \in [l.voters -> ProgressRecord] /\ \A j \in l.voters : ProgressOK(l.prs[j])
      BY <1>2, Fields
    <3>2. \A j \in l.voters : ProgressOK(BecomeReplicate(l.prs[j]))
      BY <3>1, BecomeReplicateType
    <3> QED BY <3>1, <3>2 DEF ProgressOK
  <2> HIDE DEF f
  <2>2. NodeOK(i, [l EXCEPT !.prs = f])
    BY <1>2, <2>1, FieldType
  <2>3. Keeps(l, [l EXCEPT !.prs = f])
    BY <1>2, FieldKeeps
  <2>4. Follows(F, [l EXCEPT !.prs = f])
    BY <1>2, FieldFollows
  <2> QED BY <2>2, <2>3, <2>4
<1> HIDE DEF b, l
<1>5. PICK a : a = appendEntry(b, EmptyEntry) /\ NodeOK(i, a) /\ Keeps(b, a) /\ Follows(F, a)
  <2>1. EmptyEntry \in Data
    BY DEF Data
  <2> QED BY <1>4, <2>1, AppendEntryType, AppendEntryKeeps, AppendEntryFollows
<1>6. a.state = "StateLeader"
  BY <1>2, <1>4, <1>5 DEF Keeps, Same
<1> QED
  BY <1>3, <1>5, <1>6, BroadcastFollows

LEMMA CampaignFollows ==
  ASSUME NEW F, NEW i, NEW r, NodeOK(i, r), Follows(F, r), NEW pre
  PROVE  Follows(F, campaign(r, pre)) /\ Follows(F, hup(r, pre))
<1> DEFINE c    == IF pre THEN becomePreCandidate(r) ELSE becomeCandidate(r)
           t    == IF pre THEN c.Term + 1 ELSE c.Term
           type == IF pre THEN "MsgPreVote" ELSE "MsgVote"
           self == [Message(voteRespMsgType(type), r.id) EXCEPT !.Term = t]
           req(to) == [Message(type, to) EXCEPT !.Term = t, !.Index = lastIndex(r.log),
                                                !.LogTerm = lastTerm(r.log)]
           reqs == {req(to) : to \in Peers(r)}
           s    == IF r.id \in r.voters THEN send(c, self) ELSE c
<1>1. NodeOK(i, c) /\ Follows(F, c)
  <2>1. None \in Server \cup {None} /\ r.Term \in Nat
    BY Fields
  <2> QED BY <2>1, BecomeType, CandidateFollows
<1>2. t \in Nat
  <2> HIDE DEF c
  <2> QED BY <1>1, Fields
<1>3. /\ type \in MessageTypes \ {"MsgProp"} /\ type \notin LeaderMsgs
      /\ voteRespMsgType(type) \in MessageTypes \ {"MsgProp"}
      /\ voteRespMsgType(type) \notin LeaderMsgs
  BY DEF MessageTypes, VoteMsgs, LeaderMsgs, voteRespMsgType
<1>4. self \in Unsent /\ self.Type = voteRespMsgType(type)
  <2> HIDE DEF t, type
  <2>1. self \in Unsent
    BY <1>2, <1>3, Fields, MessageType
  <2> QED BY <2>1 DEF Message
<1>5. reqs \in SUBSET Unsent /\ \A q \in reqs : q.Type = type
  <2>1. lastIndex(r.log) \in Nat /\ lastTerm(r.log) \in Nat
    BY Fields, TermType
  <2>2. \A to \in Server : req(to) \in Unsent
    <3> HIDE DEF t, type
    <3> QED BY <1>2, <1>3, <2>1, MessageType
  <2>3. Peers(r) \in SUBSET Server
    BY Fields DEF Peers
  <2>4. \A to : req(to).Type = type
    BY DEF Message
  <2> HIDE DEF req
  <2> QED BY <2>2, <2>3, <2>4
<1>6. NodeOK(i, s) /\ Follows(F, s)
  <2> HIDE DEF c, self, type
  <2> QED BY <1>1, <1>3, <1>4, SendType, SendFollows
<1>7. campaign(r, pre) = sendAll(s, reqs)
  BY DEF campaign
<1>8. Follows(F, campaign(r, pre))
  <2> HIDE DEF s, reqs, type
  <2> QED BY <1>3, <1>5, <1>6, <1>7, SendAllFollows
<1> QED
  BY <1>8 DEF hup

LEMMA HandleVoteFollows ==
  ASSUME NEW F, NEW i, NEW r, NodeOK(i, r), Follows(F, r), NEW m \in Messages
  PROVE  Follows(F, handleVote(r, m))
<1> DEFINE resp    == Message(voteRespMsgType(m.Type), m.From)
           grant   == [resp EXCEPT !.Term = m.Term]
           reject  == [resp EXCEPT !.Term = r.Term, !.Reject = TRUE]
           s       == send(r, grant)
           granted == canVote(r, m) /\ isUpToDate(r.log, m.Index, m.LogTerm)
<1>1. m.From \in Server /\ m.Term \in Nat /\ r.Term \in Nat
  BY Fields DEF Messages, Unsent
<1>2. voteRespMsgType(m.Type) \in MessageTypes \ {"MsgProp"} /\ voteRespMsgType(m.Type) \notin LeaderMsgs
  BY DEF MessageTypes, VoteMsgs, LeaderMsgs, voteRespMsgType
<1>3. grant \in Unsent /\ reject \in Unsent
  BY <1>1, <1>2, MessageType
<1>4. grant.Type = voteRespMsgType(m.Type) /\ reject.Type = voteRespMsgType(m.Type)
  BY DEF Message
<1>5. handleVote(r, m) =
        IF granted THEN IF m.Type = "MsgVote" THEN [s EXCEPT !.Vote = m.From] ELSE s
        ELSE send(r, reject)
  BY DEF handleVote
<1> HIDE DEF granted, grant, reject
<1>6. NodeOK(i, s) /\ Follows(F, s) /\ Follows(F, send(r, reject))
  BY <1>2, <1>3, <1>4, SendType, SendFollows
<1> HIDE DEF s
<1>7. Follows(F, [s EXCEPT !.Vote = m.From])
  BY <1>6, FieldFollows
<1> QED
  BY <1>5, <1>6, <1>7

LEMMA StepCandidateFollows ==
  ASSUME NEW F, NEW i, NEW r, NodeOK(i, r), Follows(F, r), NEW m \in Messages, Heard(F, r, m),
         r.state \in {"StatePreCandidate", "StateCandidate"},
         NEW s, s = stepCandidate(r, m), s.state = "StateLeader" => <<s.Term, s.id>> \in F
  PROVE  Follows(F, s)
<1> DEFINE p == poll(r, m.From, ~ m.Reject)
           b == becomeFollower(r, m.Term, m.From)
<1>1. m.From \in Server /\ m.Term \in Nat /\ r.Term \in Nat
  BY Fields DEF Messages, Unsent
<1>2. /\ NodeOK(i, p) /\ Follows(F, p)
      /\ p.state = r.state /\ p.Term = r.Term /\ p.id = r.id
  <2>1. PICK votes : votes = RecordVote(r.votes, m.From, ~ m.Reject)
    OBVIOUS
  <2>2. p = [r EXCEPT !.votes = votes]
    BY <2>1 DEF poll
  <2>3. NodeOK(i, p)
    BY <1>1, PollType
  <2> HIDE DEF p
  <2>4. Follows(F, p)
    BY <2>2, FieldFollows
  <2>5. p.state = r.state /\ p.Term = r.Term /\ p.id = r.id
    BY <2>2 DEF NodeOK, NodeRecord
  <2> QED BY <2>3, <2>4, <2>5
<1>3. \/ m.Type \in LeaderMsgs /\ s \in {b, handleHeartbeat(b, m)}
      \/ s \in {r, p, campaign(p, FALSE), becomeFollower(p, r.Term, None)}
      \/ r.state = "StateCandidate" /\ s = bcastAppend(becomeLeader(p))
  BY DEF stepCandidate, LeaderMsgs
<1> HIDE DEF p
<1>4. CASE m.Type \in LeaderMsgs /\ s \in {b, handleHeartbeat(b, m)}
  <2>1. NodeOK(i, b) /\ Follows(F, b)
    BY <1>1, <1>4, BecomeType, FollowerFollows DEF Heard
  <2> HIDE DEF b
  <2> QED BY <1>4, <2>1, HandleHeartbeatFollows
<1>5. CASE s \in {r, p, campaign(p, FALSE), becomeFollower(p, r.Term, None)}
  <2>1. Follows(F, campaign(p, FALSE))
    BY <1>2, CampaignFollows
  <2>2. Follows(F, becomeFollower(p, r.Term, None))
    BY <1>1, <1>2, FollowerFollows
  <2> QED BY <1>2, <1>5, <2>1, <2>2
<1>6. CASE r.state = "StateCandidate" /\ s = bcastAppend(becomeLeader(p))
  <2>1. p.state = "StateCandidate" /\ p.Term > 0
    BY <1>2, <1>6 DEF Follows
  <2>2. Moves(p, s) /\ s.state = "StateLeader" /\ s.Term = p.Term
    BY <1>2, <1>6, <2>1, BecomeLeaderSends
  <2>3. <<p.Term, p.id>> \in F
    BY <2>2 DEF Moves
  <2> QED BY <1>2, <1>6, <2>1, <2>3, LeaderFollows
<1> QED
  BY <1>3, <1>4, <1>5, <1>6

LEMMA DispatchFollows ==
  ASSUME NEW F, NEW i, NEW r, NodeOK(i, r), Follows(F, r), NEW m \in Messages, Heard(F, r, m),
         NEW s, s = dispatch(r, m), s.state = "StateLeader" => <<s.Term, s.id>> \in F
  PROVE  Follows(F, s)
<1>1. CASE m.Type \in {"MsgVote", "MsgPreVote"}
  BY <1>1, HandleVoteFollows DEF dispatch
<1>2. CASE m.Type \notin {"MsgVote", "MsgPreVote"} /\ r.state = "StateFollower"
  BY <1>2, StepFollowerFollows DEF dispatch
<1>3. CASE m.Type \notin {"MsgVote", "MsgPreVote"} /\ r.state = "StateLeader"
  BY <1>3, StepLeaderFollows DEF dispatch
<1>4. CASE /\ m.Type \notin {"MsgVote", "MsgPreVote"}
           /\ r.state \notin {"StateFollower", "StateLeader"}
  <2>1. r.state \in {"StatePreCandidate", "StateCandidate"}
    BY <1>4 DEF NodeOK, NodeRecord
  <2>2. s = stepCandidate(r, m)
    BY <1>4 DEF dispatch
  <2> QED BY <2>1, <2>2, StepCandidateFollows
<1> QED
  BY <1>1, <1>2, <1>3, <1>4

\* raft.Step on any message whose sender leads if it says so.
LEMMA StepFollows ==
  ASSUME NEW F, NEW i, NEW r, NodeOK(i, r), Follows(F, r), NEW m \in Messages, Vouched(F, m),
         NEW s, s = Step(r, m), s.state = "StateLeader" => <<s.Term, s.id>> \in F
  PROVE  Follows(F, s)
<1>1. m.Term \in Nat /\ r.Term \in Nat /\ m.From \in Server
  BY Fields DEF Messages, Unsent
<1>2. CASE isStale(r, m)
  BY <1>2, LowerTermFollows DEF Step
<1>3. CASE ~ isStale(r, m) /\ m.Term > r.Term
  <2>1. PICK h : h = higherTerm(r, m) /\ NodeOK(i, h)
    BY TermChangeType
  <2>2. s = dispatch(h, m)
    BY <1>3, <2>1 DEF Step
  <2>3. CASE m.Type = "MsgPreVote" \/ (m.Type = "MsgPreVoteResp" /\ ~ m.Reject)
    <3>1. h = r /\ Heard(F, r, m)
      BY <2>1, <2>3 DEF higherTerm, Heard, LeaderMsgs
    <3> QED BY <2>2, <3>1, DispatchFollows
  <2>4. CASE ~ (m.Type = "MsgPreVote" \/ (m.Type = "MsgPreVoteResp" /\ ~ m.Reject))
    <3>1. PICK lead : /\ h = becomeFollower(r, m.Term, lead)
                      /\ lead # None => m.Type \in LeaderMsgs /\ lead = m.From
      BY <2>1, <2>4 DEF higherTerm
    <3>2. Follows(F, h)
      BY <1>1, <3>1, FollowerFollows DEF Vouched
    <3>3. h.Term = m.Term
      BY <1>1, <1>3, <3>1, BecomeFollowerTurns
    <3>4. Heard(F, h, m)
      BY <3>3 DEF Heard, Vouched
    <3> QED BY <2>1, <2>2, <3>2, <3>4, DispatchFollows
  <2> QED BY <2>3, <2>4
<1>4. CASE ~ isStale(r, m) /\ ~ (m.Term > r.Term)
  <2>1. s = dispatch(r, m)
    BY <1>4 DEF Step
  <2>2. Heard(F, r, m)
    BY <1>1, <1>4 DEF Heard, Vouched, isStale
  <2> QED BY <2>1, <2>2, DispatchFollows
<1> QED
  BY <1>2, <1>3, <1>4
-----------------------------------------------------------------------------
(* The specification *)

\* A step in which node i becomes s, and sends no more than it held
LEMMA BecomesFollows ==
  ASSUME TypeOK, LeadsOK, NEW i \in Server, NEW s, Becomes(i, s), Follows(elected', s),
         \A m \in net' : m \in net \/ m \in Held(node[i])
  PROVE  LeadsOK'
<1>1. \A j \in Server : node'[j] = IF j = i THEN s ELSE node[j]
  BY DEF TypeOK, Becomes
<1>2. PICK F : F = elected' /\ elected \subseteq F
  BY DEF Becomes
<1>3. \A j \in Server : Follows(F, node[j])
  BY <1>2, FollowsMore DEF LeadsOK
<1>4. \A m \in net' : Vouched(F, m)
  BY <1>2, <1>3 DEF LeadsOK, Follows, Vouched
<1>5. \A j \in Server : Follows(F, node'[j])
  BY <1>1, <1>2, <1>3
<1>6. \A j \in Server : Follows(elected, node[j])'
  BY <1>2, <1>5 DEF Follows, Held, Elements, Vouched
<1>7. \A m \in net' : Vouched(elected, m)'
  BY <1>2, <1>4 DEF Vouched
<1> QED
  BY <1>6, <1>7 DEF LeadsOK

\* Ready hands the messages of node i to the transport.
LEMMA ReadyFollows ==
  ASSUME TypeOK, LeadsOK, NEW i \in Server, Ready(i), NEW F, F = elected'
  PROVE  LeadsOK'
<1>1. PICK n : n = node[i] /\ NodeOK(i, n) /\ Follows(elected, n)
  BY DEF TypeOK, LeadsOK
<1>2. PICK s : s = [n EXCEPT !.stepsOnAdvance = n.msgsAfterAppend, !.msgs = {},
                             !.msgsAfterAppend = <<>>, !.ready = n.committed,
                             !.phase = "handed"]
  OBVIOUS
<1>3. Becomes(i, s) /\ net' = net \cup n.msgs
  BY <1>1, <1>2 DEF Ready
<1>4. /\ s.id = n.id /\ s.Term = n.Term /\ s.state = n.state /\ s.lead = n.lead
      /\ s.msgs = {} /\ s.msgsAfterAppend = <<>> /\ s.stepsOnAdvance = n.msgsAfterAppend
  BY <1>1, <1>2 DEF NodeOK, NodeRecord
<1>5. Held(s) \subseteq Held(n) /\ n.msgs \subseteq Held(n)
  BY <1>4 DEF Held, Elements
<1>6. Follows(F, n)
  BY <1>1, <1>3, FollowsMore DEF Becomes
<1>7. Follows(F, s)
  BY <1>4, <1>5, <1>6 DEF Follows
<1> QED
  BY <1>1, <1>3, <1>5, <1>7, BecomesFollows

\* Advance steps what the node sent to itself.
LEMMA AdvanceFollows ==
  ASSUME TypeOK, LeadsOK, NEW i \in Server, Advance(i), NEW F, F = elected'
  PROVE  LeadsOK'
<1>1. PICK n : n = node[i] /\ NodeOK(i, n) /\ Follows(elected, n)
  BY DEF TypeOK, LeadsOK
<1>2. net' = net
  BY DEF Advance
<1>3. \A s : Becomes(i, s) => Follows(F, n)
  BY <1>1, FollowsMore DEF Becomes
<1>4. CASE n.stepsOnAdvance = <<>>
  <2>1. PICK s : s = [n EXCEPT !.phase = "idle"] /\ Becomes(i, s)
    BY <1>1, <1>4 DEF Advance
  <2>2. Follows(F, s)
    BY <1>1, <1>3, <2>1, FieldFollows
  <2> QED BY <1>2, <2>1, <2>2, BecomesFollows
<1>5. CASE n.stepsOnAdvance # <<>>
  <2> DEFINE q == n.stepsOnAdvance
             rest == Tail(q)
             phase == IF rest = <<>> THEN "idle" ELSE "advancing"
             m == Head(q)
  <2>1. /\ rest \in Seq(Messages) /\ m \in Messages /\ m \in Elements(q)
        /\ Elements(rest) \subseteq Elements(q)
    <3>1. q \in Seq(Messages) /\ q # <<>>
      BY <1>1, <1>5, Fields
    <3> HIDE DEF q
    <3>2. /\ rest \in Seq(Messages) /\ m \in Messages /\ m = q[1] /\ 1 \in DOMAIN q
          /\ \A k \in DOMAIN rest : k + 1 \in DOMAIN q /\ rest[k] = q[k + 1]
      BY <3>1, HeadTailProperties
    <3> HIDE DEF rest, m
    <3> QED BY <3>2 DEF Elements
  <2>2. PICK r : r = [n EXCEPT !.stepsOnAdvance = rest, !.phase = phase]
    OBVIOUS
  <2>3. Becomes(i, Step(r, m))
    BY <1>1, <1>5, <2>2 DEF Advance, AdvanceStep
  <2>4. phase \in {"idle", "handed", "advancing"}
    OBVIOUS
  <2>5. m \in Held(n)
    BY <2>1 DEF Held
  <2> HIDE DEF rest, phase, m, q
  <2>6. NodeOK(i, r)
    BY <1>1, <2>1, <2>2, <2>4 DEF NodeOK, NodeRecord
  <2>7. /\ r.id = n.id /\ r.Term = n.Term /\ r.state = n.state /\ r.lead = n.lead
        /\ r.msgs = n.msgs /\ r.msgsAfterAppend = n.msgsAfterAppend /\ r.stepsOnAdvance = rest
    BY <1>1, <2>2 DEF NodeOK, NodeRecord
  <2>8. Held(r) \subseteq Held(n)
    BY <2>1, <2>7 DEF Held, q
  <2>9. Follows(F, n)
    BY <1>3, <2>3
  <2>10. Follows(F, r) /\ Vouched(F, m)
    BY <2>5, <2>7, <2>8, <2>9 DEF Follows
  <2>11. PICK s : s = Step(r, m) /\ NodeOK(i, s) /\ Becomes(i, s)
    BY <2>1, <2>3, <2>6, StepType
  <2>12. s.state = "StateLeader" => <<s.Term, s.id>> \in F
    BY <2>11 DEF Becomes, TypeOK, NodeOK
  <2>13. Follows(F, s)
    BY <2>1, <2>6, <2>10, <2>11, <2>12, StepFollows
  <2> QED BY <1>2, <2>11, <2>13, BecomesFollows
<1> QED
  BY <1>4, <1>5

\* A restarted process knows no leader and has nothing to send.
LEMMA StartedFollows ==
  ASSUME NEW i \in Server, NEW F
  PROVE  Follows(F, Started(i))
<1>1. /\ NewNode(i).lead = None /\ NewNode(i).state = "StateFollower" /\ NewNode(i).msgs = {}
      /\ NewNode(i).msgsAfterAppend = <<>> /\ NewNode(i).stepsOnAdvance = <<>>
  BY DEF NewNode
<1>2. /\ Bootstrapped(i).lead = None /\ Bootstrapped(i).state = "StateFollower"
      /\ Bootstrapped(i).msgs = {}
      /\ Bootstrapped(i).msgsAfterAppend = <<>> /\ Bootstrapped(i).stepsOnAdvance = <<>>
  BY DEF Bootstrapped, NewNode
<1>3. PICK s : s = Started(i)
  OBVIOUS
<1>4. /\ s.lead = None /\ s.state = "StateFollower" /\ s.msgs = {}
      /\ s.msgsAfterAppend = <<>> /\ s.stepsOnAdvance = <<>>
  BY <1>1, <1>2, <1>3 DEF Started
<1>5. Held(s) = {}
  BY <1>4 DEF Held, Elements
<1> QED
  BY <1>3, <1>4, <1>5 DEF Follows

LEMMA NextFollows ==
  ASSUME TypeOK, LeadsOK, Next
  PROVE  LeadsOK'
<1>1. PICK i \in Server :
        \/ ElectionTimeout(i) \/ HeartbeatTimeout(i)
        \/ \E m \in net : Receive(i, m)
        \/ \E v \in Value : Propose(i, v)
        \/ \E m \in net : ReceiveProposal(i, m)
        \/ Ready(i) \/ Publish(i) \/ Advance(i) \/ Restart(i)
  BY DEF Next
<1>2. PICK F : F = elected'
  OBVIOUS
<1>3. elected \subseteq F
  BY <1>1, <1>2 DEF ElectionTimeout, HeartbeatTimeout, Receive, Propose, ReceiveProposal, Ready,
                    Publish, Advance, AdvanceStep, Restart, Becomes
<1>4. PICK n : n = node[i] /\ NodeOK(i, n) /\ Follows(F, n)
  BY <1>3, FollowsMore DEF TypeOK, LeadsOK
<1>5. ASSUME NEW s, NodeOK(i, s), Becomes(i, s)
      PROVE  s.state = "StateLeader" => <<s.Term, s.id>> \in F
  BY <1>2, <1>5 DEF Becomes, TypeOK, NodeOK
<1>6. ASSUME NEW s, Becomes(i, s), Follows(F, s), net' \subseteq net
      PROVE  LeadsOK'
  BY <1>2, <1>6, BecomesFollows
<1>7. ASSUME NEW m \in net, Delivers(m)
      PROVE  net' \subseteq net
  BY <1>7 DEF Delivers
<1>8. CASE ElectionTimeout(i)
  <2>1. PICK s : s = hup(n, PreVote) /\ Follows(F, s)
    BY <1>4, CampaignFollows
  <2>2. Becomes(i, s) /\ net' \subseteq net
    BY <1>4, <1>8, <2>1 DEF ElectionTimeout
  <2> QED BY <1>6, <2>1, <2>2
<1>9. CASE HeartbeatTimeout(i)
  <2>1. n.state = "StateLeader"
    BY <1>4, <1>9 DEF HeartbeatTimeout
  <2>2. PICK s : s = bcastHeartbeat(n) /\ Follows(F, s)
    BY <1>4, <2>1, BroadcastFollows
  <2>3. Becomes(i, s) /\ net' \subseteq net
    BY <1>4, <1>9, <2>2 DEF HeartbeatTimeout
  <2> QED BY <1>6, <2>2, <2>3
<1>10. CASE \E m \in net : Receive(i, m)
  <2>1. PICK m \in net : Receive(i, m)
    BY <1>10
  <2>2. m \in Messages /\ Vouched(F, m)
    BY <1>3 DEF TypeOK, LeadsOK, Vouched
  <2>3. PICK s : s = Step(n, m) /\ NodeOK(i, s)
    BY <1>4, <2>2, StepType
  <2>4. Becomes(i, s) /\ net' \subseteq net
    BY <1>4, <1>7, <2>1, <2>3 DEF Receive
  <2>5. Follows(F, s)
    BY <1>4, <1>5, <2>2, <2>3, <2>4, StepFollows
  <2> QED BY <1>6, <2>4, <2>5
<1>11. ASSUME NEW m \in Messages, m.Type = "MsgProp", NEW s, s = Step(n, m),
              s.state = "StateLeader" => <<s.Term, s.id>> \in F
       PROVE  Follows(F, s)
  <2>1. Vouched(F, m)
    BY <1>11 DEF Vouched, LeaderMsgs
  <2> QED BY <1>4, <1>11, <2>1, StepFollows
<1>12. CASE \E v \in Value : Propose(i, v)
  <2>1. PICK v \in Value : Propose(i, v)
    BY <1>12
  <2>2. PICK m \in Messages : m = Proposal(i, v) /\ m.Type = "MsgProp"
    BY ProposalType DEF Proposal, Message
  <2>3. PICK t : t = Step(n, m) /\ NodeOK(i, t)
    BY <1>4, <2>2, StepType
  <2>4. PICK s : s = [t EXCEPT !.waiting = TRUE]
    OBVIOUS
  <2>5. NodeOK(i, s) /\ s.state = t.state /\ s.Term = t.Term /\ s.id = t.id
    BY <2>3, <2>4 DEF NodeOK, NodeRecord
  <2>6. Becomes(i, s) /\ net' \subseteq net
    BY <1>4, <2>1, <2>2, <2>3, <2>4 DEF Propose
  <2>7. t.state = "StateLeader" => <<t.Term, t.id>> \in F
    BY <1>5, <2>5, <2>6
  <2>8. Follows(F, t)
    BY <1>11, <2>2, <2>3, <2>7
  <2>9. Follows(F, s)
    BY <2>3, <2>4, <2>8, FieldFollows
  <2> QED BY <1>6, <2>6, <2>9
<1>13. CASE \E m \in net : ReceiveProposal(i, m)
  <2>1. PICK m \in net : ReceiveProposal(i, m)
    BY <1>13
  <2>2. PICK p : p = [m EXCEPT !.From = i]
    OBVIOUS
  <2>3. p \in Messages /\ p.Type = "MsgProp"
    BY <2>1, <2>2 DEF ReceiveProposal, TypeOK, Messages, Unsent
  <2>4. PICK s : s = Step(n, p) /\ NodeOK(i, s)
    BY <1>4, <2>3, StepType
  <2>5. Becomes(i, s) /\ net' \subseteq net
    BY <1>4, <1>7, <2>1, <2>2, <2>4 DEF ReceiveProposal
  <2>6. Follows(F, s)
    BY <1>5, <1>11, <2>3, <2>4, <2>5
  <2> QED BY <1>6, <2>5, <2>6
<1>14. CASE Publish(i)
  <2>1. PICK a : a = [n EXCEPT !.appliedIndex = n.ready] /\ NodeOK(i, a) /\ Follows(F, a)
    <3>1. n.ready \in Nat
      BY <1>4, Fields
    <3>2. NodeOK(i, [n EXCEPT !.appliedIndex = n.ready])
      BY <1>4, <3>1, FieldType
    <3>3. Follows(F, [n EXCEPT !.appliedIndex = n.ready])
      BY <1>4, FieldFollows
    <3> QED BY <3>2, <3>3
  <2>2. PICK c : c = switchToConfig(a) /\ Follows(F, c)
    BY <2>1, SwitchToConfigFollows
  <2>3. PICK s : s \in {a, c} /\ Becomes(i, s)
    BY <1>4, <1>14, <2>1, <2>2 DEF Publish
  <2>4. net' \subseteq net
    BY <1>14 DEF Publish
  <2> QED BY <1>6, <2>1, <2>2, <2>3, <2>4
<1>15. CASE Restart(i)
  <2>1. PICK s : s = Started(i) /\ Follows(F, s)
    BY StartedFollows
  <2>2. /\ \A j \in Server : node'[j] = IF j = i THEN s ELSE node[j]
        /\ net' = net /\ elected' = elected
    BY <1>15, <2>1 DEF Restart, TypeOK
  <2>3. \A j \in Server : Follows(F, node'[j])
    BY <1>2, <2>1, <2>2 DEF LeadsOK
  <2>4. \A j \in Server : Follows(elected, node[j])'
    BY <1>2, <2>3 DEF Follows, Held, Elements, Vouched
  <2>5. \A m \in net' : Vouched(elected, m)'
    BY <2>2 DEF LeadsOK, Vouched
  <2> QED BY <2>4, <2>5 DEF LeadsOK
<1> QED
  BY <1>1, <1>2, <1>8, <1>9, <1>10, <1>12, <1>13, <1>14, <1>15, ReadyFollows, AdvanceFollows

LEMMA InitLeads ==
  Init => LeadsOK
<1> SUFFICES ASSUME Init PROVE LeadsOK
  OBVIOUS
<1>1. \A i \in Server : Follows(elected, node[i])
  BY StartedFollows DEF Init
<1> QED
  BY <1>1 DEF Init, LeadsOK

\* Whoever a server takes for leader was elected in its term, and so was the
\* sender of every append and heartbeat: the lead a handler sets comes from a
\* message that raft.Step has found to be of the node's term, and only a leader
\* sends those. It holds with restarts and repeated delivery too.
THEOREM LeadersAreElected == Spec => []LeadIsElected
<1>1. Init => LeadsOK
  BY InitLeads
<1>2. TypeOK /\ LeadsOK /\ [Next]_vars => LeadsOK'
  <2> SUFFICES ASSUME TypeOK, LeadsOK, [Next]_vars
               PROVE  LeadsOK'
    OBVIOUS
  <2>1. CASE Next
    BY <2>1, NextFollows
  <2>2. CASE UNCHANGED vars
    BY <2>2 DEF vars, LeadsOK, Follows, Vouched, Held, Elements
  <2> QED BY <2>1, <2>2
<1>3. LeadsOK => LeadIsElected
  BY DEF LeadsOK, Follows, LeadIsElected
<1> QED
  BY <1>1, <1>2, <1>3, TypeCorrect, PTL DEF Spec

\* The servers of a term that know a leader know the same one.
SameLeader ==
  \A i, j \in Server :
    /\ node[i].Term = node[j].Term
    /\ node[i].lead # None /\ node[j].lead # None
    => node[i].lead = node[j].lead

\* Without restarts no term has servers that follow, and forward proposals to,
\* different leaders, whatever becomes of the messages that told them.
THEOREM ServersFollowOneLeader ==
  ASSUME MaxRestarts = 0
  PROVE  Spec => []SameLeader
<1>1. ElectionSafety /\ LeadIsElected => SameLeader
  <2> SUFFICES ASSUME ElectionSafety, LeadIsElected, NEW i \in Server, NEW j \in Server,
                      node[i].Term = node[j].Term, node[i].lead # None, node[j].lead # None
               PROVE  node[i].lead = node[j].lead
    BY DEF SameLeader
  <2>1. /\ <<node[i].Term, node[i].lead>> \in elected
        /\ <<node[i].Term, node[j].lead>> \in elected
    BY DEF LeadIsElected
  <2>2. <<node[i].Term, node[i].lead>> = <<node[i].Term, node[j].lead>>
    BY <2>1 DEF ElectionSafety
  <2> QED BY <2>2
<1> QED
  BY <1>1, LeadersAreElected, RaftElectsOneLeader, PTL
=============================================================================
