-------------------------------- MODULE Log --------------------------------
(***************************************************************************)
(* What a process's log and its storage promise, without memory: the log   *)
(* as the operators of RaftLog change it, the entries that the application *)
(* has been handed with a Ready, and the entries it has stored.            *)
(*                                                                         *)
(* LogStore implements this specification.                                 *)
(***************************************************************************)
EXTENDS RaftLog

CONSTANT
  Entries,       \* what an entry can be
  Bootstrapped   \* the entries that a bootstrapped process starts with

VARIABLES
  log,     \* the entries of the process
  handed,  \* those of the Ready in the application's hand; none without one
  stored   \* those that the application has stored

vars == <<log, handed, stored>>

Init ==
  /\ log \in {<<>>, Bootstrapped}
  /\ handed = <<>>
  /\ stored = <<>>

\* A leader appends an entry.
AppendOne(e) == log' = Append(log, e) /\ UNCHANGED <<handed, stored>>

\* A follower takes over new, the entries that follow index in a leader's log.
Accept(index, new) ==
  /\ termKnown(log, index)
  /\ log' = appended(log, index, new)
  /\ UNCHANGED <<handed, stored>>

\* The application is handed the whole log, and stores it in place of what it had.
HandOut == handed = <<>> /\ handed' = log /\ UNCHANGED <<log, stored>>

Store == handed # <<>> /\ stored' = handed /\ handed' = <<>> /\ UNCHANGED log

\* A message brings one entry, which reaches the size limit.
Next ==
  \/ \E e \in Entries : AppendOne(e)
  \/ \E index \in 0..Len(log), e \in Entries : Accept(index, <<e>>)
  \/ HandOut
  \/ Store

Spec == Init /\ [][Next]_vars
=============================================================================
