-------------------------------- MODULE Net --------------------------------
(***************************************************************************)
(* What lies between the raft cores, as the cores see it: no loops,        *)
(* channels, buffers or workers. A message that a core sends reaches the   *)
(* core it is for at most once, after any other; or it is lost, and then   *)
(* the sender is owed a report. A report proves nothing: its message may   *)
(* have arrived, or may arrive later. A proposal waits for a leader.       *)
(*                                                                         *)
(* Transport implements this specification.                                *)
(***************************************************************************)
EXTENDS Integers

CONSTANTS
  Node,   \* the raft cores
  Link,   \* <<i, j>>: i sends to j
  Msg,    \* the messages
  Props   \* those that are proposals

VARIABLES
  net,      \* <<l, m>>: m is on its way over link l
  doubted,  \* <<j, m>>: m may yet reach j, though its sender is told it is lost
  owed,     \* <<i, r>>: core i is owed the report r
  lead      \* whether a core knows a leader

vars == <<net, doubted, owed, lead>>

Init ==
  /\ net = {}
  /\ doubted = {}
  /\ owed = {}
  /\ lead = [i \in Node |-> FALSE]

\* Core i steps: it may find a leader, or lose it.
Step(i) == \E found \in BOOLEAN : lead' = [lead EXCEPT ![i] = found]

\* It steps m, unless that has to wait.
StepMsg(i, m) == (m \in Props => lead[i]) /\ Step(i)

\* It comes to be owed one report more.
Owe(i) == \E r \in owed' \ owed : r[1] = i /\ owed' = owed \cup {r}

\* Core i steps of itself.
Tick(i) == Step(i) /\ UNCHANGED <<net, doubted, owed>>

\* It sends messages, each of them new and over one link.
Send(i) ==
  LET sent == net' \ net
  IN  /\ net \subseteq net'
      /\ sent \subseteq {l \in Link : l[1] = i} \X Msg
      /\ \A x \in sent :
           /\ \A y \in net' : x[2] = y[2] => x = y
           /\ \A y \in doubted : x[2] # y[2]
      /\ UNCHANGED <<doubted, owed, lead>>

\* A message arrives. The answer to the sender may be lost.
Deliver(x) ==
  /\ net' = net \ {x}
  /\ StepMsg(x[1][2], x[2])
  /\ UNCHANGED owed \/ Owe(x[1][1])
  /\ UNCHANGED doubted

\* A message is lost, for good or so it seems, and its sender is owed a report.
Lose(x) ==
  /\ net' = net \ {x}
  /\ doubted' \in {doubted, doubted \cup {<<x[1][2], x[2]>>}}
  /\ Owe(x[1][1])
  /\ UNCHANGED lead

\* A message arrives that its sender may have been told is lost.
DeliverLate(y) ==
  /\ doubted' = doubted \ {y}
  /\ StepMsg(y[1], y[2])
  /\ UNCHANGED <<net, owed>>

\* A report is made.
Report(r) == owed' = owed \ {r} /\ UNCHANGED <<net, doubted, lead>>

Next ==
  \/ \E i \in Node : Tick(i) \/ Send(i)
  \/ \E x \in net : Deliver(x) \/ Lose(x)
  \/ \E y \in doubted : DeliverLate(y)
  \/ \E r \in owed : Report(r)

Spec == Init /\ [][Next]_vars
=============================================================================
