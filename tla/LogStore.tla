------------------------------ MODULE LogStore ------------------------------
(***************************************************************************)
(* The log of one process in memory: the unstable entries of log_unstable. *)
(* go, the MemoryStorage of storage.go behind them, and the slices of both *)
(* that others read while the log changes. The event loop appends and      *)
(* truncates; the application stores the entries of a Ready; a pipeline    *)
(* worker marshals the entries of a message some time after it was sent:   *)
(* one message, since messages are only read.                              *)
(*                                                                         *)
(* Go slices share arrays: an append that finds room writes in place, and  *)
(* every slice of that array sees it.                                      *)
(***************************************************************************)
EXTENDS Integers, SequencesExt

CONSTANTS
  MaxTerm,   \* bound on terms
  MaxLen,    \* bound on the length of the log
  MaxSpare   \* bound on the cells that a growing append allocates beyond need

ASSUME BoundAssumption == {MaxTerm, MaxLen, MaxSpare} \subseteq Nat /\ MaxTerm > 0

VARIABLES
  mem,        \* the arrays in use, each a sequence of cells
  unstable,   \* the slice unstable.entries
  offset,     \* unstable.offset; offsetInProgress is equal to it throughout
  ents,       \* the slice MemoryStorage.ents; its first entry is the dummy of index 0
  committed,  \* raftLog.committed
  ready,      \* the Ready.Entries in the application's hand: at most one
  held        \* the Entries of a message that is still to be marshalled: at most one

vars == <<mem, unstable, offset, ents, committed, ready, held>>

Entries == [Term : 1..MaxTerm]
Zero == [Term |-> 0]

Min2(a, b) == IF a < b THEN a ELSE b
-----------------------------------------------------------------------------
(* Go slices: len cells of array arr in use after the first lo, and room up *)
(* to cap                                                                   *)

Contents(s) == SubSeq(mem[s.arr], s.lo + 1, s.lo + s.len)

\* s[from:to:max]
Sub(s, from, to, max) == [arr |-> s.arr, lo |-> s.lo + from, len |-> to - from, cap |-> max - from]

FreshArr == CHOOSE a \in 1 .. Cardinality(DOMAIN mem) + 1 : a \notin DOMAIN mem

\* A new array that holds vals and has spare cells behind them
allocate(vals, spare) ==
  [mem |-> [a \in DOMAIN mem \cup {FreshArr} |->
              IF a = FreshArr THEN vals \o [k \in 1..spare |-> Zero] ELSE mem[a]],
   slice |-> [arr |-> FreshArr, lo |-> 0, len |-> Len(vals), cap |-> Len(vals) + spare]]

\* append(s, vals...). How much a new array has to spare is up to the runtime.
goAppend(s, vals, spare) ==
  LET end == s.lo + s.len
  IN  IF s.len + Len(vals) <= s.cap
      THEN [mem |-> [mem EXCEPT ![s.arr] =
                       [k \in DOMAIN @ |-> IF k - end \in DOMAIN vals THEN vals[k - end] ELSE @[k]]],
            slice |-> [s EXCEPT !.len = @ + Len(vals)]]
      ELSE allocate(Contents(s) \o vals, spare)
-----------------------------------------------------------------------------
(* raftLog: lookups over both parts *)

storageLast == ents.len - 1

\* lastIndex: unstable.maybeLastIndex, then the storage's
lastIndex == IF unstable.len # 0 THEN offset + unstable.len - 1 ELSE storageLast

\* unstable.maybeTerm: is the entry there?
inUnstable(i) == i \in offset .. offset + unstable.len - 1

\* Mutant: the end of the log is not looked at.
hasTermToStorageEnd(i) == inUnstable(i) \/ i \in 0..storageLast
\* raftLog.term: is there one, and which?
hasTerm(i) == inUnstable(i) \/ i \in 0 .. Min2(lastIndex, storageLast)

term(i) ==
  IF inUnstable(i) THEN Contents(unstable)[i - offset + 1].Term ELSE Contents(ents)[i + 1].Term

Conflicts(index, new) ==
  {k \in DOMAIN new : ~ (hasTerm(index + k) /\ term(index + k) = new[k].Term)}
-----------------------------------------------------------------------------
(* unstable and MemoryStorage *)

\* Mutant: the capacity of the slice is not limited.
unstableSliceShared(lo, hi) == Sub(unstable, lo - offset, hi - offset, unstable.cap)
\* unstable.slice: entries lo to hi - 1, without room behind them
unstableSlice(lo, hi) == Sub(unstable, lo - offset, hi - offset, hi - offset)

\* Mutant: the offset moves with every truncation.
offsetAfterMoves(from) == IF from = offset + unstable.len THEN offset ELSE from
\* unstable.truncateAndAppend: the new offset, and the new entries in memory
offsetAfter(from) == IF from = offset + unstable.len THEN offset ELSE Min2(from, offset)

truncateAndAppend(from, new, spare) ==
  IF from = offset + unstable.len
  THEN goAppend(unstable, new, spare)
  ELSE IF from <= offset
       THEN allocate(new, spare)
       ELSE goAppend(unstableSlice(offset, from), new, spare)

\* Mutant: nothing is cut off before entries are added.
storagePrefixAll(from) == ents
\* MemoryStorage.Append: the slice that entries from index from are appended to
storagePrefix(from) == IF ents.len > from THEN Sub(ents, 0, from, from) ELSE ents
-----------------------------------------------------------------------------
InUse == <<unstable, ents>> \o [k \in DOMAIN ready |-> ready[k].slice]
                           \o [k \in DOMAIN held |-> held[k].slice]

Covers(s, a, k) == s.arr = a /\ k \in s.lo + 1 .. s.lo + s.len

\* The slices change to u, e, r and h of memory m. Arrays that none of them refers
\* to are collected, a cell that none covers is forgotten, as it is written before
\* it is read, and an array is renamed to the first of its slices.
Becomes(m, u, e, r, h) ==
  LET slices == <<u, e>> \o [k \in DOMAIN r |-> r[k].slice] \o [k \in DOMAIN h |-> h[k].slice]
      Name(a) == Min({k \in DOMAIN slices : slices[k].arr = a})
      Renamed(s) == [s EXCEPT !.arr = Name(@)]
      Kept(a) == [k \in DOMAIN m[a] |->
                    IF \E s \in Range(slices) : Covers(s, a, k) THEN m[a][k] ELSE Zero]
  IN  /\ unstable' = Renamed(u)
      /\ ents' = Renamed(e)
      /\ ready' = [k \in DOMAIN r |-> [r[k] EXCEPT !.slice = Renamed(@)]]
      /\ held' = [k \in DOMAIN h |-> [h[k] EXCEPT !.slice = Renamed(@)]]
      /\ mem' = [n \in {Name(s.arr) : s \in Range(slices)} |-> Kept(slices[n].arr)]

\* A slice in somebody's hand, and what it held when it was given out
Hold(s) == [slice |-> s, entries |-> Contents(s)]

\* A process starts with an empty log (join) or with a bootstrap entry that is
\* committed; the log follows the storage's dummy entry.
Bootstrapped == <<[Term |-> 1]>>

Init ==
  \E first \in {<<>>, Bootstrapped}, spare \in 0..MaxSpare :
    /\ first = <<>> => spare = 0
    /\ mem = << first \o [k \in 1..spare |-> Zero], <<Zero>> >>
    /\ unstable = [arr |-> 1, lo |-> 0, len |-> Len(first), cap |-> Len(first) + spare]
    /\ ents = [arr |-> 2, lo |-> 0, len |-> 1, cap |-> 1]
    /\ offset = 1
    /\ committed = Len(first)
    /\ ready = <<>>
    /\ held = <<>>

\* raftLog.append, of entries that start at index from
append(from, new, spare) ==
  LET d == truncateAndAppend(from, new, spare)
  IN  /\ from + Len(new) - 1 <= MaxLen
      /\ offset' = offsetAfter(from)
      /\ UNCHANGED committed
      /\ Becomes(d.mem, d.slice, ents, ready, held)

\* raft.appendEntry: an entry of the leader's term, which no entry is ahead of
appendEntry(e, spare) ==
  /\ term(lastIndex) <= e.Term
  /\ append(lastIndex + 1, <<e>>, spare)

\* raftLog.maybeAppend: entries that follow one this log has. A conflict with a
\* committed entry would be a Panicf; that no leader sends one is shown of Raft.
maybeAppend(index, new, spare) ==
  /\ hasTerm(index)
  /\ Conflicts(index, new) # {}
  /\ LET k == Min(Conflicts(index, new))
     IN  /\ index + k > committed
         /\ append(index + k, SubSeq(new, k, Len(new)), spare)

\* RawNode.Ready with entries: nextUnstableEnts, which are all of them
Ready ==
  /\ ready = <<>>
  /\ unstable.len # 0
  /\ Becomes(mem, unstable, ents, <<Hold(Sub(unstable, 0, unstable.len, unstable.cap))>>, held)
  /\ UNCHANGED <<offset, committed>>

\* serveChannels: raftStorage.Append(rd.Entries). The first of the entries has the
\* offset that the unstable log had, and still has, when they were handed out.
Store(spare) ==
  /\ ready # <<>>
  /\ LET d == goAppend(storagePrefix(offset), Contents(ready[1].slice), spare)
     IN  Becomes(d.mem, unstable, d.slice, <<>>, held)
  /\ UNCHANGED <<offset, committed>>

\* maybeSendAppend: raftLog.entries(i) under a size limit that one entry exceeds
Send(i) ==
  /\ held = <<>>
  /\ inUnstable(i)
  /\ Becomes(mem, unstable, ents, ready, <<Hold(Sub(unstableSlice(i, lastIndex + 1), 0, 1, 1))>>)
  /\ UNCHANGED <<offset, committed>>

\* pipeline.handle: the message is marshalled and posted.
Marshal ==
  /\ held # <<>>
  /\ Becomes(mem, unstable, ents, ready, <<>>)
  /\ UNCHANGED <<offset, committed>>

\* A message brings one entry, as Send shows.
Next ==
  \/ \E spare \in 0..MaxSpare :
       \/ \E e \in Entries : appendEntry(e, spare)
       \/ \E e \in Entries, index \in 0..lastIndex : maybeAppend(index, <<e>>, spare)
       \/ Store(spare)
  \/ Ready
  \/ \E i \in 1..lastIndex : Send(i)
  \/ Marshal

Spec == Init /\ [][Next]_vars
-----------------------------------------------------------------------------
(* Properties *)

\* Every slice lies inside an array, its cells hold entries, and the unstable log
\* starts at index 1 and never shrinks into the committed part: what lets RaftLog
\* treat the two parts as one sequence (truncateAndAppend may move the offset).
SliceOK(s) ==
  /\ s.arr \in DOMAIN mem
  /\ s.lo + s.cap <= Len(mem[s.arr])
  /\ s.len \in 0..s.cap

StoreOK ==
  /\ \A s \in Range(InUse) : SliceOK(s)
  /\ \A e \in Range(Contents(unstable)) \cup Range(Tail(Contents(ents))) : e \in Entries
  /\ Head(Contents(ents)) = Zero
  /\ offset = 1
  /\ committed <= lastIndex

\* What the application and the pipeline's workers hold is never written to: a
\* Ready's entries are stored and a message's entries are marshalled as they were
\* handed out, though the event loop goes on appending and truncating meanwhile
\* (log_unstable.go:105, log.go:356).
HeldUnchanged == \A h \in Range(ready \o held) : Contents(h.slice) = h.entries

\* The log that the two-part lookups show, and the storage as its reader sees it
L == INSTANCE Log WITH
       log <- Contents(unstable),
       handed <- IF ready = <<>> THEN <<>> ELSE Contents(ready[1].slice),
       stored <- Tail(Contents(ents))

\* The storage keeps entries of a log that has been truncated since. A lookup never
\* returns one of them: it finds an index exactly if the log has it, and the log's
\* term (raftLog.term asks the storage only up to lastIndex).
TermsAgree ==
  \A i \in 0..MaxLen + 1 :
    /\ hasTerm(i) <=> L!termKnown(Contents(unstable), i)
    /\ hasTerm(i) => term(i) = L!term(Contents(unstable), i)

\* The slices implement the log, the handing out and the storing that Log states
\* of plain sequences: no step writes through a shared array.
RefinesLog == L!Spec
=============================================================================
