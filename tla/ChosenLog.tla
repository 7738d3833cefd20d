----------------------------- MODULE ChosenLog -----------------------------
(***************************************************************************)
(* What a replicated log promises, without servers, terms of office or     *)
(* messages: it grows at its end, one entry at a time, and what is in it   *)
(* stays. The terms of its entries do not go back.                         *)
(*                                                                         *)
(* Raft implements this specification with what a majority holds.          *)
(***************************************************************************)
EXTENDS Integers

CONSTANTS
  Entry,      \* what a log holds, each with a Term
  FirstLogs   \* what may be chosen at the start

VARIABLE chosen   \* the entries by their indexes

Init == chosen \in FirstLogs

\* An entry is chosen for the next index.
Choose ==
  \E k \in DOMAIN chosen' :
    /\ DOMAIN chosen = 1..(k - 1) /\ DOMAIN chosen' = 1..k
    /\ \A j \in 1..(k - 1) : chosen'[j] = chosen[j]
    /\ chosen'[k] \in Entry
    /\ \A j \in 1..(k - 1) : chosen'[j].Term <= chosen'[k].Term

Spec == Init /\ [][Choose]_chosen
=============================================================================
