------------------------------- MODULE Codec -------------------------------
(***************************************************************************)
(* The protobuf encoding of src/raft/raftpb/raft.pb.go: Size, Marshal and  *)
(* Unmarshal of Message and of what it carries, with numbers of WordBits   *)
(* bits (64 in the code) and bytes as numbers.  HardState, which nothing   *)
(* encodes, is left out.                                                   *)
(***************************************************************************)
EXTENDS Integers, Sequences, SequencesExt

CONSTANTS WordBits,     \* the width of uint64 and int
          HalfBits,     \* the width of int32
          nil           \* a nil slice or pointer

\* Like 64, WordBits leaves one bit for the last byte of the longest varint.
ASSUME WordAssumption ==
  /\ WordBits \in Nat /\ WordBits > 7 /\ WordBits % 7 = 1
  /\ HalfBits \in 4 .. WordBits

Byte == 0..255

NoErr == "nil"
-----------------------------------------------------------------------------
(* Varints: seven bits a byte, the lowest first, and a mark on all bytes    *)
(* but the last                                                             *)

Len64(x) == CHOOSE n \in 0..WordBits : x < 2^n /\ (n > 0 => 2^(n-1) <= x)

\* Len64(x|1) is 1 for 0.
sovRaft(x) == ((IF x = 0 THEN 1 ELSE Len64(x)) + 6) \div 7

encodeVarintRaft(v) ==
  [i \in 1..sovRaft(v) |->
     LET rest == v \div 128^(i-1) IN IF rest >= 128 THEN 128 + (rest % 128) ELSE rest]

MaxVarint == (WordBits + 6) \div 7

\* The bits that byte b has left above shift, moved there
Shifted(b, shift) == ((b % 128) % 2^(WordBits - shift)) * 2^shift

\* The number after the first at bytes of d, and how many bytes precede what follows
ReadVarint(d, at) ==
  LET room  == Len(d) - at
      ends  == {n \in 1..(IF room < MaxVarint THEN room ELSE MaxVarint) : d[at + n] < 128}
      n     == CHOOSE k \in ends : \A e \in ends : k <= e
  IN  IF ends # {}
      THEN [err |-> NoErr, at |-> at + n,
            v |-> FoldLeft(LAMBDA v, i : v + Shifted(d[at + i], 7 * (i-1)), 0, [i \in 1..n |-> i])]
      ELSE [err |-> IF room >= MaxVarint THEN "ErrIntOverflowRaft" ELSE "ErrUnexpectedEOF",
            at |-> at, v |-> 0]

\* The sign bit of an int
Negative(v) == v >= 2^(WordBits - 1)

\* A length, which r has read, and the bytes it counts: d[from+1] to d[to]
Counted(d, r) ==
  [from |-> r.at, to |-> r.at + r.v,
   err  |-> CASE r.err # NoErr                              -> r.err
              [] Negative(r.v) \/ Negative(r.at + r.v)      -> "ErrInvalidLengthRaft"
              [] r.at + r.v > Len(d)                        -> "ErrUnexpectedEOF"
              [] OTHER                                      -> NoErr]

ReadLength(d, at) == Counted(d, ReadVarint(d, at))
-----------------------------------------------------------------------------
(* Unknown fields *)

Failed(s, err) == [s EXCEPT !.err = err]

\* One tag and what follows it, a number perhaps. A fixed number, and a length, may step
\* over the end: the caller looks.
SkipOver(s, tag, num) ==
  LET wire == tag.v % 8
      moved == CASE wire = 0 -> [s EXCEPT !.at = num.at]
                 [] wire = 1 -> [s EXCEPT !.at = tag.at + 8]
                 [] wire = 2 -> [s EXCEPT !.at = num.at + num.v]
                 [] wire = 3 -> [s EXCEPT !.at = tag.at, !.depth = @ + 1]
                 [] wire = 4 -> [s EXCEPT !.at = tag.at, !.depth = @ - 1]
                 [] wire = 5 -> [s EXCEPT !.at = tag.at + 4]
                 [] OTHER    -> Failed(s, "illegal wireType")
  IN  CASE tag.err # NoErr                      -> Failed(s, tag.err)
        [] wire \in {0, 2} /\ num.err # NoErr   -> Failed(s, num.err)
        [] wire = 2 /\ Negative(num.v)          -> Failed(s, "ErrInvalidLengthRaft")
        [] wire = 4 /\ s.depth = 0              -> Failed(s, "ErrUnexpectedEndOfGroupRaft")
        [] Negative(moved.at)                   -> Failed(s, "ErrInvalidLengthRaft")
        [] OTHER                                -> [moved EXCEPT !.done = moved.depth = 0]

SkipPart(d, s) ==
  LET tag == ReadVarint(d, s.at) IN SkipOver(s, tag, ReadVarint(d, tag.at))

\* The loop: until a part is done at depth 0, or the bytes end
RECURSIVE SkipParts(_, _)
SkipParts(d, s) ==
  IF s.done \/ s.err # NoErr THEN s
  ELSE IF s.at >= Len(d) THEN Failed(s, "ErrUnexpectedEOF")
  ELSE SkipParts(d, SkipPart(d, s))

\* How many bytes of d its first field takes, groups within groups included
skipRaft(d) == SkipParts(d, [at |-> 0, depth |-> 0, done |-> FALSE, err |-> NoErr])
-----------------------------------------------------------------------------
(* Fields as they are written and measured, with their tag *)

VarintField(tag, v) == <<tag>> \o encodeVarintRaft(v)
BoolField(tag, b)   == <<tag, IF b THEN 1 ELSE 0>>
NestedField(tag, d) == <<tag>> \o encodeVarintRaft(Len(d)) \o d
BytesFieldUnlessEmpty(tag, d) == IF d \in {nil, <<>>} THEN <<>> ELSE NestedField(tag, d)
BytesField(tag, d)  == IF d = nil THEN <<>> ELSE NestedField(tag, d)

VarintFields(tag, vals) == FlattenSeq([i \in DOMAIN vals |-> VarintField(tag, vals[i])])

VarintSize(v) == 1 + sovRaft(v)
NestedSize(l) == 1 + l + sovRaft(l)
BytesSize(d)  == IF d = nil THEN 0 ELSE NestedSize(Len(d))

VarintsSize(vals) == FoldLeft(LAMBDA n, v : n + VarintSize(v), 0, vals)
-----------------------------------------------------------------------------
(* The messages: what a new one holds, and its fields by their numbers.  A  *)
(* field's kind is varint, bool, varints, bytes or the message it holds.    *)

Field(name, kind) == [name |-> name, kind |-> kind]

ZeroEntry == [Type |-> 0, Term |-> 0, Index |-> 0, Data |-> nil]

EntryFields ==
  <<Field("Type", "varint"), Field("Term", "varint"), Field("Index", "varint"), Field("Data", "bytes")>>

ZeroConfChange == [ID |-> 0, Type |-> 0, NodeID |-> 0, Context |-> nil]

ConfChangeFieldsSwapped ==
  <<Field("ID", "varint"), Field("NodeID", "varint"), Field("Type", "varint"), Field("Context", "bytes")>>

ConfChangeFields ==
  <<Field("ID", "varint"), Field("Type", "varint"), Field("NodeID", "varint"), Field("Context", "bytes")>>

ZeroConfChangeSingle == [Type |-> 0, NodeID |-> 0]

ConfChangeSingleFields == <<Field("Type", "varint"), Field("NodeID", "varint")>>

ZeroConfChangeV2 == [Transition |-> 0, Changes |-> <<>>, Context |-> nil]

ConfChangeV2Fields ==
  <<Field("Transition", "varint"), Field("Changes", "ConfChangeSingle"), Field("Context", "bytes")>>

ZeroConfState ==
  [Voters |-> <<>>, Learners |-> <<>>, VotersOutgoing |-> <<>>, LearnersNext |-> <<>>, AutoLeave |-> FALSE]

ConfStateFields ==
  <<Field("Voters", "varints"), Field("Learners", "varints"), Field("VotersOutgoing", "varints"),
    Field("LearnersNext", "varints"), Field("AutoLeave", "bool")>>

ZeroSnapshotMetadata == [ConfState |-> ZeroConfState, Index |-> 0, Term |-> 0]

SnapshotMetadataFields == <<Field("ConfState", "ConfState"), Field("Index", "varint"), Field("Term", "varint")>>

ZeroSnapshot == [Data |-> nil, Metadata |-> ZeroSnapshotMetadata]

SnapshotFields == <<Field("Data", "bytes"), Field("Metadata", "SnapshotMetadata")>>

ZeroMessage ==
  [Type |-> 0, To |-> 0, From |-> 0, Term |-> 0, LogTerm |-> 0, Index |-> 0, Entries |-> <<>>, Commit |-> 0,
   Snapshot |-> nil, Reject |-> FALSE, RejectHint |-> 0, Context |-> nil, Vote |-> 0,
   Responses |-> <<>>]

MessageFieldsSwapped ==
  <<Field("Type", "varint"), Field("To", "varint"), Field("From", "varint"), Field("LogTerm", "varint"),
    Field("Term", "varint"), Field("Index", "varint"), Field("Entries", "Entry"), Field("Commit", "varint"),
    Field("Snapshot", "Snapshot"), Field("Reject", "bool"), Field("RejectHint", "varint"), Field("Context", "bytes"),
    Field("Vote", "varint"), Field("Responses", "Message")>>

MessageFields ==
  <<Field("Type", "varint"), Field("To", "varint"), Field("From", "varint"), Field("Term", "varint"),
    Field("LogTerm", "varint"), Field("Index", "varint"), Field("Entries", "Entry"), Field("Commit", "varint"),
    Field("Snapshot", "Snapshot"), Field("Reject", "bool"), Field("RejectHint", "varint"), Field("Context", "bytes"),
    Field("Vote", "varint"), Field("Responses", "Message")>>

Fields ==
  [Entry |-> EntryFields, ConfChange |-> ConfChangeFields, ConfChangeSingle |-> ConfChangeSingleFields,
   ConfChangeV2 |-> ConfChangeV2Fields, ConfState |-> ConfStateFields,
   SnapshotMetadata |-> SnapshotMetadataFields, Snapshot |-> SnapshotFields, Message |-> MessageFields]

\* Those that repeated fields hold
NewElement == [Entry |-> ZeroEntry, ConfChangeSingle |-> ZeroConfChangeSingle, Message |-> ZeroMessage]
-----------------------------------------------------------------------------
(* Unmarshal: a loop over fields.  s holds the value read so far (m), how   *)
(* many bytes of d precede the next field (at) and an error.                *)

Reading(m) == [at |-> 0, m |-> m, err |-> NoErr]

\* A reader that skips from behind the tag, not from preIndex
SkipFieldAfterTag(d, s) ==
  [s EXCEPT !.at = ReadVarint(d, @).at + skipRaft(SubSeq(d, @ + 1, Len(d))).at]

\* A reader that finds the end of an unknown field and does not go there
SkipFieldStays(d, s) == Failed(s, skipRaft(SubSeq(d, s.at + 1, Len(d))).err)

SkipTo(d, s, r) ==
  CASE r.err # NoErr                              -> Failed(s, r.err)
    [] Negative(r.at) \/ Negative(s.at + r.at)    -> Failed(s, "ErrInvalidLengthRaft")
    [] s.at + r.at > Len(d)                       -> Failed(s, "ErrUnexpectedEOF")
    [] OTHER                                      -> [s EXCEPT !.at = @ + r.at]

SkipField(d, s) == SkipTo(d, s, skipRaft(SubSeq(d, s.at + 1, Len(d))))

\* The fields by kind. r is the number, or the length, at their start. The
\* types of entries and messages, int32 in the code, all fit into HalfBits.
SetNumber(s, f, r) ==
  IF r.err # NoErr THEN Failed(s, r.err)
  ELSE [s EXCEPT !.at = r.at,
                 !.m[f.name] = CASE f.kind = "bool"    -> r.v # 0
                                 [] f.kind = "varints" -> Append(@, r.v)
                                 [] OTHER              -> r.v]

SetBytes(d, s, f, r) ==
  IF r.err # NoErr THEN Failed(s, r.err)
  ELSE [s EXCEPT !.at = r.to, !.m[f.name] = SubSeq(d, r.from + 1, r.to)]

\* Numbers one after the other up to the end of the length. A number may run over it.
SetPacked(d, s, f, r) ==
  IF r.err # NoErr THEN Failed(s, r.err)
  ELSE FoldLeft(LAMBDA t, i : IF t.err # NoErr \/ t.at >= r.to THEN t ELSE SetNumber(t, f, ReadVarint(d, t.at)),
                [s EXCEPT !.at = r.from],
                SubSeq(d, r.from + 1, r.to))

\* A message in a field: that of a repeated field is a new one behind those there are,
\* another is read into the one there is, and a Snapshot into a new one if there is none.
ReadInto(s, f) ==
  CASE f.kind \in DOMAIN NewElement               -> NewElement[f.kind]
    [] f.kind = "Snapshot" /\ s.m[f.name] = nil   -> ZeroSnapshot
    [] OTHER                                      -> s.m[f.name]

SetMessage(s, f, sub, to) ==
  IF sub.err # NoErr THEN Failed(s, sub.err)
  ELSE [s EXCEPT !.at = to,
                 !.m[f.name] = IF f.kind \in DOMAIN NewElement THEN Append(@, sub.m) ELSE sub.m]

RECURSIVE Unmarshal(_, _, _)

ReadMessage(d, s, f, r) ==
  IF r.err # NoErr THEN Failed(s, r.err)
  ELSE SetMessage(s, f, Unmarshal(f.kind, SubSeq(d, r.from + 1, r.to), ReadInto(s, f)), r.to)

WireTypesUnpacked(kind) == IF kind \in {"varint", "bool", "varints"} THEN {0} ELSE {2}

\* Which wire types a kind of field is written with
WireTypes(kind) ==
  CASE kind \in {"varint", "bool"} -> {0}
    [] kind = "varints"            -> {0, 2}
    [] OTHER                       -> {2}

\* One round of the loop of a message of this type, behind the tag
ReadValue(d, at, s, wire, f) ==
  CASE wire \notin WireTypes(f.kind) -> Failed(s, "wrong wireType")
    [] wire = 0 -> SetNumber(s, f, ReadVarint(d, at))
    [] f.kind = "bytes" -> SetBytes(d, s, f, ReadLength(d, at))
    [] f.kind = "varints" /\ wire = 2 -> SetPacked(d, s, f, ReadLength(d, at))
    [] OTHER -> ReadMessage(d, s, f, ReadLength(d, at))

ReadTagged(type, d, s, tag, num) ==
  CASE tag.err # NoErr -> Failed(s, tag.err)
    [] tag.v % 8 = 4 -> Failed(s, "wiretype end group for non-group")
    [] num = 0 \/ num >= 2^(HalfBits - 1) -> Failed(s, "illegal tag")
    [] num \notin DOMAIN Fields[type] -> SkipField(d, s)
    [] OTHER -> ReadValue(d, tag.at, s, tag.v % 8, Fields[type][num])

ReadField(type, d, s) ==
  LET tag == ReadVarint(d, s.at) IN ReadTagged(type, d, s, tag, (tag.v \div 8) % 2^HalfBits)

RECURSIVE ReadFields(_, _, _)
ReadFields(type, d, s) ==
  IF s.err # NoErr \/ s.at >= Len(d) THEN s ELSE ReadFields(type, d, ReadField(type, d, s))

\* Reads d into m.
Unmarshal(type, d, m) == ReadFields(type, d, Reading(m))
-----------------------------------------------------------------------------
(* Sizes and encodings of the messages *)

EntrySizeNoLength(e) ==
  VarintSize(e.Type) + VarintSize(e.Term) + VarintSize(e.Index) + (IF e.Data = nil THEN 0 ELSE 1 + Len(e.Data))

EntrySize(e) == VarintSize(e.Type) + VarintSize(e.Term) + VarintSize(e.Index) + BytesSize(e.Data)

EntryMarshal(e) ==
  VarintField(8, e.Type) \o VarintField(16, e.Term) \o VarintField(24, e.Index) \o BytesField(34, e.Data)

ConfChangeSize(c) ==
  VarintSize(c.ID) + VarintSize(c.Type) + VarintSize(c.NodeID) + BytesSize(c.Context)

ConfChangeMarshal(c) ==
  VarintField(8, c.ID) \o VarintField(16, c.Type) \o VarintField(24, c.NodeID) \o BytesField(34, c.Context)

ConfChangeSingleSize(c) == VarintSize(c.Type) + VarintSize(c.NodeID)

ConfChangeSingleMarshal(c) == VarintField(8, c.Type) \o VarintField(16, c.NodeID)

ConfChangeV2Size(c) ==
  VarintSize(c.Transition) + FoldLeft(LAMBDA n, s : n + NestedSize(ConfChangeSingleSize(s)), 0, c.Changes)
  + BytesSize(c.Context)

ConfChangeV2Marshal(c) ==
  VarintField(8, c.Transition)
  \o FlattenSeq([i \in DOMAIN c.Changes |-> NestedField(18, ConfChangeSingleMarshal(c.Changes[i]))])
  \o BytesField(26, c.Context)

ConfStateSize(c) ==
  VarintsSize(c.Voters) + VarintsSize(c.Learners) + VarintsSize(c.VotersOutgoing) + VarintsSize(c.LearnersNext) + 2

ConfStateMarshal(c) ==
  VarintFields(8, c.Voters) \o VarintFields(16, c.Learners) \o VarintFields(24, c.VotersOutgoing)
  \o VarintFields(32, c.LearnersNext) \o BoolField(40, c.AutoLeave)

SnapshotMetadataSize(s) == NestedSize(ConfStateSize(s.ConfState)) + VarintSize(s.Index) + VarintSize(s.Term)

SnapshotMetadataMarshal(s) ==
  NestedField(10, ConfStateMarshal(s.ConfState)) \o VarintField(16, s.Index) \o VarintField(24, s.Term)

SnapshotSize(s) == BytesSize(s.Data) + NestedSize(SnapshotMetadataSize(s.Metadata))

SnapshotMarshal(s) == BytesField(10, s.Data) \o NestedField(18, SnapshotMetadataMarshal(s.Metadata))

RECURSIVE MessageSize(_)
MessageSize(m) ==
  VarintSize(m.Type) + VarintSize(m.To) + VarintSize(m.From) + VarintSize(m.Term) + VarintSize(m.LogTerm)
  + VarintSize(m.Index) + FoldLeft(LAMBDA n, e : n + NestedSize(EntrySize(e)), 0, m.Entries) + VarintSize(m.Commit)
  + (IF m.Snapshot = nil THEN 0 ELSE NestedSize(SnapshotSize(m.Snapshot)))
  + 2 + VarintSize(m.RejectHint) + BytesSize(m.Context) + VarintSize(m.Vote)
  + FoldLeft(LAMBDA n, r : n + NestedSize(MessageSize(r)), 0, m.Responses)

\* The fields one by one, as MarshalToSizedBuffer puts them into the buffer from its end
RECURSIVE MessageMarshalFields(_)
MessageMarshalFields(m) ==
  <<VarintField(8, m.Type), VarintField(16, m.To), VarintField(24, m.From), VarintField(32, m.Term),
    VarintField(40, m.LogTerm), VarintField(48, m.Index)>>
  \o [i \in DOMAIN m.Entries |-> NestedField(58, EntryMarshal(m.Entries[i]))]
  \o <<VarintField(64, m.Commit),
       IF m.Snapshot = nil THEN <<>> ELSE NestedField(74, SnapshotMarshal(m.Snapshot)),
       BoolField(80, m.Reject), VarintField(88, m.RejectHint), BytesField(98, m.Context), VarintField(104, m.Vote)>>
  \o [i \in DOMAIN m.Responses |-> NestedField(114, FlattenSeq(MessageMarshalFields(m.Responses[i])))]

\* Marshal: a buffer of the size that Size says is filled from its end, and the first
\* n bytes of it returned, where n were written. With too small a buffer Go panics.
Marshal(size, written) ==
  IF Len(written) > size THEN <<>>
  ELSE SubSeq([i \in 1..(size - Len(written)) |-> 0] \o written, 1, Len(written))
=============================================================================
