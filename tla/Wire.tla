-------------------------------- MODULE Wire --------------------------------
(***************************************************************************)
(* One message on its way: pipeline.post marshals it, ServeHTTP of the     *)
(* peer unmarshals the body field by field and passes it on or refuses it. *)
(* The sender may be of a later version, with fields the reader does not   *)
(* know, for which Unmarshal has a branch.                                 *)
(***************************************************************************)
EXTENDS Codec, FiniteSets

CONSTANTS Messages,     \* messages of this version
          Newer,        \* those among them that a peer of a later version posts
          Unknown,      \* encoded fields that Message does not have
          Budgets       \* sizes for limitSize

VARIABLES msg,          \* the message posted
          body,         \* the bytes of the post
          read,         \* the state of Message.Unmarshal in the handler
          status        \* idle, reading, processed (204) or refused (400)

vars == <<msg, body, read, status>>

Init ==
  /\ msg = ZeroMessage
  /\ body = <<>>
  /\ read = Reading(ZeroMessage)
  /\ status = "idle"

Send(m, bytes) ==
  /\ status = "idle"
  /\ msg' = m
  /\ body' = bytes
  /\ read' = Reading(ZeroMessage)
  /\ status' = "reading"

\* p.post(raftpb.MustMarshal(&m))
Post(m) == Send(m, Marshal(MessageSize(m), FlattenSeq(MessageMarshalFields(m))))

\* The same by a peer that knows a field more, which it may write anywhere.
PostNewer(m, field, n) ==
  Send(m, FlattenSeq(InsertAt(MessageMarshalFields(m), n + 1, field)))

\* A round of the loop in Message.Unmarshal
ReadOne ==
  /\ status = "reading"
  /\ read.err = NoErr /\ read.at < Len(body)
  /\ read' = ReadField("Message", body, read)
  /\ UNCHANGED <<msg, body, status>>

\* Unmarshal returns: the message goes to Process, or the post is answered with an error.
Return ==
  /\ status = "reading"
  /\ read.err # NoErr \/ read.at >= Len(body)
  /\ status' = IF read.err # NoErr \/ read.at > Len(body) THEN "refused" ELSE "processed"
  /\ UNCHANGED <<msg, body, read>>

\* ServeHTTP has answered, and the pipeline takes its next message.
Answered ==
  /\ status \in {"processed", "refused"}
  /\ msg' = ZeroMessage
  /\ body' = <<>>
  /\ read' = Reading(ZeroMessage)
  /\ status' = "idle"

Next ==
  \/ \E m \in Messages : Post(m)
  \/ \E m \in Newer, field \in Unknown : \E n \in 0 .. Len(MessageMarshalFields(m)) : PostNewer(m, field, n)
  \/ ReadOne
  \/ Return
  \/ Answered

Spec == Init /\ [][Next]_vars
-----------------------------------------------------------------------------
(* limitSize: how many of ents a message or a Ready may carry *)

entsSize(ents) == FoldLeft(LAMBDA n, e : n + EntrySize(e), 0, ents)

limitSizeBelow(ents, maxSize) ==
  SubSeq(ents, 1, IF ents = <<>> THEN 0
                  ELSE CHOOSE n \in 1 .. Len(ents) :
                    /\ n > 1 => entsSize(SubSeq(ents, 1, n)) < maxSize
                    /\ n < Len(ents) => entsSize(SubSeq(ents, 1, n + 1)) >= maxSize)

limitSize(ents, maxSize) ==
  LET Sizes(n) == entsSize(SubSeq(ents, 1, n))
      over == {n \in 2 .. Len(ents) : Sizes(n) > maxSize}
  IN  IF over = {} THEN ents ELSE SubSeq(ents, 1, (CHOOSE n \in over : \A k \in over : n <= k) - 1)
-----------------------------------------------------------------------------
\* Well-formed states: the reader is inside the body, whatever it has read.
TypeOK ==
  /\ msg \in Messages \cup {ZeroMessage}
  /\ \A i \in DOMAIN body : body[i] \in Byte
  /\ read.at \in 0 .. Len(body)
  /\ read.m.Type \in 0 .. 2^WordBits - 1
  /\ status \in {"idle", "reading", "processed", "refused"}

\* What the handler passes to Process is what the pipeline took, nil and empty
\* slices told apart, and no message is refused, with or without unknown fields.
ArrivesWhole ==
  /\ status # "refused"
  /\ status = "processed" => read.m = msg

\* While a message is read, a field is as it was sent or not there yet, and the
\* entries and responses are the first ones: no field spills into another.
ReadsInOrder ==
  \A f \in DOMAIN msg :
    \/ read.m[f] \in {msg[f], ZeroMessage[f]}
    \/ f \in {"Entries", "Responses"} /\ IsPrefix(read.m[f], msg[f])

\* Unmarshal ends: each round of its loop, and of the one in skipRaft, moves on or fails.
MovesOn(s, next) == next.at > s.at \/ next.err # NoErr

ReadsOn ==
  status = "reading" /\ read.err = NoErr /\ read.at < Len(body) =>
    MovesOn(read, ReadField("Message", body, read))

\* Size, which sizes the buffer and is what limitSize counts, and MarshalToSizedBuffer
\* agree, for the message and whatever it carries.
SizesAgree ==
  /\ MessageSize(msg) = Len(FlattenSeq(MessageMarshalFields(msg)))
  /\ \A i \in DOMAIN msg.Entries : EntrySize(msg.Entries[i]) = Len(EntryMarshal(msg.Entries[i]))
  /\ msg.Snapshot # nil => SnapshotSize(msg.Snapshot) = Len(SnapshotMarshal(msg.Snapshot))

ChangeIn(e, r) ==
  r.err = NoErr /\ ConfChangeMarshal(r.m) = e.Data /\ ConfChangeSize(r.m) = Len(e.Data)

ChangesIn(e, r) ==
  r.err = NoErr /\ ConfChangeV2Marshal(r.m) = e.Data /\ ConfChangeV2Size(r.m) = Len(e.Data)

\* A configuration change is read from an entry that has arrived, by publishEntries, or
\* by stepLeader if it is a ConfChangeV2, as it was written by Marshal, and Size is right.
ChangesArrive ==
  status = "processed" =>
    \A i \in DOMAIN msg.Entries :
      /\ msg.Entries[i].Type = 1 =>
           ChangeIn(msg.Entries[i], Unmarshal("ConfChange", read.m.Entries[i].Data, ZeroConfChange))
      /\ msg.Entries[i].Type = 2 =>
           ChangesIn(msg.Entries[i], Unmarshal("ConfChangeV2", read.m.Entries[i].Data, ZeroConfChangeV2))

\* Voters that a peer has written as one packed field are read as the same voters.
Packed(tag, ids) == NestedField(tag, FlattenSeq([i \in DOMAIN ids |-> encodeVarintRaft(ids[i])]))

PackedAgrees ==
  msg.Snapshot # nil =>
    LET c == msg.Snapshot.Metadata.ConfState
    IN  Unmarshal("ConfState", Packed(10, c.Voters) \o BoolField(40, c.AutoLeave), ZeroConfState).m
          = [ZeroConfState EXCEPT !.Voters = c.Voters, !.AutoLeave = c.AutoLeave]

\* limitSize gives the longest prefix whose encoding fits, or a single entry.
FitsBudget ==
  \A maxSize \in Budgets :
    LET ents == limitSize(msg.Entries, maxSize)
        Bytes(n) == Len(FlattenSeq([i \in 1..n |-> EntryMarshal(msg.Entries[i])]))
    IN  /\ IsPrefix(ents, msg.Entries)
        /\ msg.Entries # <<>> => ents # <<>>
        /\ Len(ents) > 1 => Bytes(Len(ents)) <= maxSize
        /\ ents # msg.Entries => Bytes(Len(ents) + 1) > maxSize
=============================================================================
