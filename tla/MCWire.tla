------------------------------- MODULE MCWire -------------------------------
(***************************************************************************)
(* The instance of Wire for TLC: every number at the lengths a varint can  *)
(* have, every optional field absent, empty and present, up to two         *)
(* entries or responses, and unknown fields of every wire type.            *)
(***************************************************************************)
EXTENDS Wire

\* Numbers of one to five bytes, at both ends
Numbers == {1, 127, 128, 16383, 16384, 2^28, 2^WordBits - 1}

\* The enumerations have small values only.
MCNumber ==
  {[ZeroMessage EXCEPT ![f] = v] :
     f \in {"To", "From", "Term", "LogTerm", "Index", "Commit", "RejectHint", "Vote"}, v \in Numbers}
  \cup {[ZeroMessage EXCEPT !.Type = t] : t \in 1..22}

\* A payload whose length takes two bytes to write
Long == [i \in 1..130 |-> i]

MCChange == [ZeroConfChange EXCEPT !.NodeID = 2^28, !.Context = <<104, 116>>]

MCChanges ==
  [Transition |-> 1, Context |-> nil,
   Changes |-> <<[Type |-> 0, NodeID |-> 128], [Type |-> 1, NodeID |-> 2^28]>>]

MCEntries ==
  {ZeroEntry,
   [Type |-> 0, Term |-> 128, Index |-> 2^WordBits - 1, Data |-> <<>>],
   [Type |-> 0, Term |-> 1, Index |-> 2, Data |-> <<8, 255>>],
   [Type |-> 0, Term |-> 1, Index |-> 2, Data |-> Long],
   [Type |-> 1, Term |-> 1, Index |-> 1, Data |-> ConfChangeMarshal(MCChange)],
   [Type |-> 2, Term |-> 1, Index |-> 1, Data |-> ConfChangeV2Marshal(MCChanges)]}

MCLists == UNION {[1..n -> MCEntries] : n \in 1..2}

MCSnapshots ==
  {nil, ZeroSnapshot,
   [Data |-> <<0>>,
    Metadata |-> [Index |-> 3, Term |-> 128,
                  ConfState |-> [Voters |-> <<1, 2^28>>, Learners |-> <<128>>, VotersOutgoing |-> <<2, 3>>,
                                 LearnersNext |-> <<0>>, AutoLeave |-> TRUE]]]}

MCNewer ==
  {[ZeroMessage EXCEPT !.Term = 2^28]}
  \cup {[ZeroMessage EXCEPT !.Entries = <<e>>, !.Snapshot = s] : e \in MCEntries \ {ZeroEntry}, s \in MCSnapshots \ {nil}}

\* Messages within a message
MCResponses ==
  LET Response == [ZeroMessage EXCEPT !.Term = 128, !.Entries = <<ZeroEntry>>]
  IN  {[ZeroMessage EXCEPT !.Responses = l] :
         l \in {<<Response>>, <<ZeroMessage, [ZeroMessage EXCEPT !.Responses = <<Response>>]>>}}

MCMessages ==
  MCNumber \cup MCResponses
  \cup {[ZeroMessage EXCEPT !.Entries = l] : l \in MCLists}
  \cup {[ZeroMessage EXCEPT !.Snapshot = s, !.Context = c, !.Reject = b] :
          s \in MCSnapshots, c \in {nil, <<>>, <<1, 2>>}, b \in BOOLEAN}
  \cup MCNewer

\* Field 15 in each wire type, a group within a group, and a tag of two bytes
MCUnknown ==
  {<<120, 255, 1>>, <<121, 1, 2, 3, 4, 5, 6, 7, 8>>, <<122, 2, 8, 8>>, <<123, 8, 1, 124>>,
   <<123, 123, 122, 1, 124, 124, 124>>, <<125, 1, 2, 3, 4>>, <<128, 1, 5>>}

MCBudgets == {0, 6, 7, 13, 14, 20, 140, 1000}
=============================================================================
