------------------------------ MODULE KVStore ------------------------------
(***************************************************************************)
(* What the key-value store promises: it is a replica of the log.  The     *)
(* committed writes take effect one at a time, each once and in log order. *)
(***************************************************************************)
EXTENDS Integers, Sequences

CONSTANTS Key,          \* an entry of the log that is a key is a write to it
          Other         \* entries that write nothing

VARIABLES log,          \* the committed entries
          applied,      \* how many of them have taken effect
          data          \* for each key the index of the entry whose value it holds, or 0

vars == <<log, applied, data>>

Init ==
  /\ log = <<>>
  /\ applied = 0
  /\ data = [k \in Key |-> 0]

Commit ==
  /\ \E e \in Key \cup Other : log' = Append(log, e)
  /\ UNCHANGED <<applied, data>>

\* The next write of the log takes effect; the entries up to it write nothing, nor
\* need the last.
Apply ==
  \E n \in applied + 1 .. Len(log) :
    /\ \A i \in applied + 1 .. n - 1 : log[i] \notin Key
    /\ applied' = n
    /\ data' = [k \in Key |-> IF log[n] = k THEN n ELSE data[k]]
    /\ UNCHANGED log

Next == Commit \/ Apply

Spec == Init /\ [][Next]_vars
-----------------------------------------------------------------------------
\* A key holds the value of the last write to it among those that have taken effect
\* (Kvstore.data, which Lookup reads).
Current ==
  \A k \in Key :
    /\ data[k] \in 0 .. applied
    /\ data[k] > 0 => log[data[k]] = k
    /\ \A i \in data[k] + 1 .. applied : log[i] # k
=============================================================================
