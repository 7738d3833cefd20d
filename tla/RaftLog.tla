------------------------------ MODULE RaftLog ------------------------------
(***************************************************************************)
(* The operators of raftLog (raft/core/log.go) on a log, a sequence of     *)
(* entries [Term, Data] whose position is the entry's Index.               *)
(*                                                                         *)
(* The unstable part (log_unstable.go) holds the whole log: acceptUnstable *)
(* is never called, so unstable.offset stays 1 and MemoryStorage serves    *)
(* only the term 0 of index 0. No entry is ever compacted: firstIndex = 1. *)
(***************************************************************************)
EXTENDS Integers, Sequences, FiniteSetsExt

\* raftLog.lastIndex
lastIndex(log) == Len(log)

\* raftLog.term without its error: index 0 is the storage's dummy entry.
termKnown(log, i) == i \in 0..Len(log)
term(log, i) == IF i = 0 THEN 0 ELSE log[i].Term

\* raftLog.zeroTermOnOutOfBounds(raftLog.term(i))
zeroTermOnOutOfBounds(log, i) == IF termKnown(log, i) THEN term(log, i) ELSE 0

lastTerm(log) == term(log, lastIndex(log))

\* Mutant: the term of the entry is not compared.
matchTermByIndex(log, i, t) == termKnown(log, i)
matchTerm(log, i, t) == termKnown(log, i) /\ term(log, i) = t

\* Mutant: the comparison of the last terms is turned around.
isUpToDateSwapped(log, lasti, t) ==
  \/ t < lastTerm(log)
  \/ t = lastTerm(log) /\ lasti >= lastIndex(log)
\* raftLog.isUpToDate: is a log that ends in (lasti, t) as recent as this one?
isUpToDate(log, lasti, t) ==
  \/ t > lastTerm(log)
  \/ t = lastTerm(log) /\ lasti >= lastIndex(log)

\* Mutant: an entry of another term is taken for the same entry.
ConflictsByIndex(log, index, ents) ==
  {k \in DOMAIN ents : ~ termKnown(log, index + k)}
\* Positions of ents, which follow index, that this log does not hold.
Conflicts(log, index, ents) ==
  {k \in DOMAIN ents : ~ matchTerm(log, index + k, ents[k].Term)}

\* raftLog.findConflict: the first index of ents this log does not hold, or 0.
findConflict(log, index, ents) ==
  LET C == Conflicts(log, index, ents)
  IN  IF C = {} THEN 0 ELSE index + Min(C)

\* unstable.truncateAndAppend, with ents starting at index from.
truncateAndAppend(log, from, ents) == SubSeq(log, 1, from - 1) \o ents

\* raftLog.entries under r.maxMsgSize, which newRaft leaves at 0: limitSize
\* then keeps exactly the first entry.
entries(log, i) == IF i > lastIndex(log) THEN <<>> ELSE <<log[i]>>

\* raftLog.findConflictByTerm, the index it returns; the term it returns is
\* zeroTermOnOutOfBounds of that index.
findConflictByTerm(log, index, t) ==
  LET guess == {i \in 1..index : ~ termKnown(log, i) \/ term(log, i) <= t}
  IN  IF guess = {} THEN 0 ELSE Max(guess)

\* raftLog.commitTo: never decreases committed. The panic of an index past
\* the end of the log is commitPanics.
commitTo(committed, tocommit) == IF committed < tocommit THEN tocommit ELSE committed
commitPanics(log, committed, tocommit) == committed < tocommit /\ lastIndex(log) < tocommit

\* raftLog.maybeAppend after matchTerm(index, logTerm): the new log.
appended(log, index, ents) ==
  LET ci == findConflict(log, index, ents)
  IN  IF ci = 0 THEN log
      ELSE truncateAndAppend(log, ci, SubSeq(ents, ci - index, Len(ents)))

\* raftLog.maybeAppend: the Panicf of a conflict inside the committed prefix.
appendPanics(log, committed, index, ents) ==
  LET ci == findConflict(log, index, ents)
  IN  ci # 0 /\ ci <= committed
=============================================================================
