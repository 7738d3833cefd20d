----------------------------- MODULE Transport -----------------------------
(***************************************************************************)
(* The goroutines that carry a message from one raft core to another, and  *)
(* the channels they meet on: in each process the application loop         *)
(* (serveChannels) and the event loop (node.run); for each peer a buffer   *)
(* and the workers of its pipeline; for each post a handler in the peer's  *)
(* HTTP server, which calls node.Step. Raft has a set of messages in place *)
(* of all this; Net is what the raft cores may rely on.                    *)
(*                                                                         *)
(* A send on an unbuffered channel is one step with its receive, which the *)
(* event loop can take unless it owes somebody an answer. Nothing stops:   *)
(* done and stopc are never closed, and no post has a timeout.             *)
(***************************************************************************)
EXTENDS Integers, SequencesExt

CONSTANTS
  Node,      \* the processes
  Senders,   \* those whose Readys bring messages
  Worker,    \* the workers of a pipeline: connPerPipeline of them
  BufSize,   \* pipelineBufSize
  Props,     \* messages that are forwarded proposals, MsgProp
  Others,    \* messages of the other types
  NoMsg,     \* no message
  MaxMsgs,   \* bound on the messages of a Ready
  MaxConfs   \* bound on the configuration entries that a Ready commits

ASSUME TransportAssumption ==
  /\ Senders \subseteq Node
  /\ Props \cap Others = {} /\ NoMsg \notin Props \cup Others
  /\ BufSize \in Nat \ {0} /\ MaxMsgs \in Nat /\ MaxConfs \in Nat

VARIABLES
  app,      \* the application loop: where it is, and what is left of its Ready
  loop,     \* the event loop: advancec is open, an answer is owed, a leader is known
  buf,      \* pipeline.msgc of each sender and peer
  worker,   \* what each worker does, and the message it posts
  orphans   \* messages whose handler still is in node.Step after the post has failed

vars == <<app, loop, buf, worker, orphans>>

Msg == Props \cup Others

\* From a sender to a peer
Pipe == {p \in Senders \X Node : p[1] # p[2]}

AppState ==
  [pc : {"select", "send", "report", "publish", "confstate", "advance"},
   msgs : BoundedSeq(Pipe \X Msg, MaxMsgs),
   confs : 0..MaxConfs]

Posting(m) == [pc |-> "post", m |-> m]
Idle == [pc |-> "idle", m |-> NoMsg]
\* Mutant: the post failed, and the worker says nothing.
saysNothing == Idle
Reporting == [pc |-> "report", m |-> NoMsg]
-----------------------------------------------------------------------------
Init ==
  /\ app = [i \in Node |-> [pc |-> "select", msgs |-> <<>>, confs |-> 0]]
  /\ loop = [i \in Node |-> [advancec |-> FALSE, owes |-> FALSE, lead |-> FALSE]]
  /\ buf = [p \in Pipe |-> <<>>]
  /\ worker = [p \in Pipe |-> [w \in Worker |-> Idle]]
  /\ orphans = [i \in Node |-> {}]

\* Where a message is: in the application's hand, in a buffer, with a worker, with
\* a handler.
Places(m) ==
       {x \in Node \X {"app"} : \E y \in Range(app[x[1]].msgs) : y[2] = m}
  \cup {x \in Pipe \X (1..BufSize) : x[2] \in DOMAIN buf[x[1]] /\ buf[x[1]][x[2]] = m}
  \cup {x \in Pipe \X Worker : worker[x[1]][x[2]] = Posting(m)}
  \cup {x \in Node \X {"handler"} : m \in orphans[x[1]]}

\* What a Ready may bring: new messages, each once.
NewMsgs(i) ==
  {s \in BoundedSeq({p \in Pipe : p[1] = i} \X {m \in Msg : Places(m) = {}}, MaxMsgs) :
     \A j, k \in DOMAIN s : j # k => s[j][2] # s[k][2]}
-----------------------------------------------------------------------------
(* The event loop *)

\* It is at its select, and not waiting for confstatec to be read.
selecting(i) == ~ loop[i].owes

\* A tick, or a step of a message: a leader may become known or be lost.
Leads(i) == \E lead \in BOOLEAN : loop' = [loop EXCEPT ![i].lead = lead]

Tick(i) == selecting(i) /\ Leads(i) /\ UNCHANGED <<app, buf, worker, orphans>>

\* Mutant: every message waits for a leader.
waitsForLeaderAlways(m) == TRUE
\* node.stepWithWaitOption: a proposal goes to propc, which is open while a leader
\* is known, any other message to recvc.
waitsForLeader(m) == m \in Props

takes(i, m) == selecting(i) /\ (waitsForLeader(m) => loop[i].lead)
-----------------------------------------------------------------------------
(* The application loop *)

\* Where it goes with these messages and configuration entries left
Goes(i, msgs, confs) ==
  app' = [app EXCEPT ![i] =
    [pc |-> IF msgs # <<>> THEN "send" ELSE IF confs > 0 THEN "publish" ELSE "advance",
     msgs |-> msgs, confs |-> confs]]

\* readyc: the loop takes the Ready back at advancec only. HasReady is left out: here
\* a Ready may come at any time, also one without messages, and none has to come.
TakeReady(i) ==
  /\ app[i].pc = "select" /\ selecting(i)
  /\ ~ loop[i].advancec
  /\ loop' = [loop EXCEPT ![i].advancec = TRUE]
  /\ \E msgs \in NewMsgs(i), confs \in 0..MaxConfs : Goes(i, msgs, confs)
  /\ UNCHANGED <<buf, worker, orphans>>

\* Mutant: send has no default case.
dropsNothing(p) == FALSE
\* peer.send: the default case, taken when the buffer is full
drops(p) == Len(buf[p]) = BufSize

\* transport.Send of the next message
Send(i) ==
  /\ app[i].pc = "send"
  /\ LET p == Head(app[i].msgs)[1]
         m == Head(app[i].msgs)[2]
     IN  \/ /\ Len(buf[p]) < BufSize
            /\ buf' = [buf EXCEPT ![p] = Append(@, m)]
            /\ Goes(i, Tail(app[i].msgs), app[i].confs)
         \/ /\ drops(p)
            /\ app' = [app EXCEPT ![i].pc = "report", ![i].msgs = Tail(@)]
            /\ UNCHANGED buf
  /\ UNCHANGED <<loop, worker, orphans>>

\* ReportUnreachable of a dropped message: an MsgUnreachable into recvc, which no
\* role does anything about
Report(i) ==
  /\ app[i].pc = "report" /\ selecting(i)
  /\ Goes(i, app[i].msgs, app[i].confs)
  /\ UNCHANGED <<loop, buf, worker, orphans>>

\* publishEntries, ApplyConfChange: confc, then confstatec
Publish(i) ==
  /\ app[i].pc = "publish" /\ selecting(i)
  /\ loop' = [loop EXCEPT ![i].owes = TRUE]
  /\ app' = [app EXCEPT ![i].pc = "confstate"]
  /\ UNCHANGED <<buf, worker, orphans>>

ConfState(i) ==
  /\ app[i].pc = "confstate" /\ loop[i].owes
  /\ loop' = [loop EXCEPT ![i].owes = FALSE]
  /\ Goes(i, <<>>, app[i].confs - 1)
  /\ UNCHANGED <<buf, worker, orphans>>

\* Mutant: advancec stays open.
advancedStillOpen(l) == l
\* <-advancec: node.run closes it until the next Ready is taken.
advanced(l) == [l EXCEPT !.advancec = FALSE]

\* Advance steps what the node sent itself: a leader may become known.
Advance(i) ==
  /\ app[i].pc = "advance" /\ selecting(i) /\ loop[i].advancec
  /\ \E lead \in BOOLEAN : loop' = [loop EXCEPT ![i] = [advanced(@) EXCEPT !.lead = lead]]
  /\ app' = [app EXCEPT ![i].pc = "select"]
  /\ UNCHANGED <<buf, worker, orphans>>
-----------------------------------------------------------------------------
(* The pipeline and the handlers of its peer *)

\* pipeline.handle takes a message from the buffer.
Take(p, w) ==
  /\ worker[p][w] = Idle
  /\ buf[p] # <<>>
  /\ worker' = [worker EXCEPT ![p][w] = Posting(Head(buf[p]))]
  /\ buf' = [buf EXCEPT ![p] = Tail(@)]
  /\ UNCHANGED <<app, loop, orphans>>

\* ServeHTTP: node.Step returns when the loop has taken the message. The post has
\* succeeded, unless its answer is lost.
Serve(p, w) ==
  LET m == worker[p][w].m
  IN  /\ worker[p][w].pc = "post"
      /\ takes(p[2], m)
      /\ Leads(p[2])
      /\ worker' \in {[worker EXCEPT ![p][w] = v] : v \in {Idle, Reporting}}
      /\ UNCHANGED <<app, buf, orphans>>

\* Mutant: the message goes back into the buffer.
keptInBuffer(p, m) == IF Len(buf[p]) < BufSize THEN Append(buf[p], m) ELSE buf[p]
\* The buffer when the post of m has failed: nothing is sent again.
afterFailure(p, m) == buf[p]

\* The post fails before its handler runs, or while it does. The handler goes on.
Fail(p, w) ==
  LET m == worker[p][w].m
  IN  /\ worker[p][w].pc = "post"
      /\ worker' = [worker EXCEPT ![p][w] = Reporting]
      /\ buf' = [buf EXCEPT ![p] = afterFailure(p, m)]
      /\ orphans' \in {orphans, [orphans EXCEPT ![p[2]] = @ \cup {m}]}
      /\ UNCHANGED <<app, loop>>

ServeOrphan(i, m) ==
  /\ m \in orphans[i]
  /\ takes(i, m)
  /\ Leads(i)
  /\ orphans' = [orphans EXCEPT ![i] = @ \ {m}]
  /\ UNCHANGED <<app, buf, worker>>

\* Mutant: the worker returns.
afterReportReturns == [pc |-> "returned", m |-> NoMsg]
\* pipeline.handle continues after a failed post.
afterReport == Idle

\* ReportUnreachable of a failed post
ReportFailure(p, w) ==
  /\ worker[p][w] = Reporting
  /\ selecting(p[1])
  /\ worker' = [worker EXCEPT ![p][w] = afterReport]
  /\ UNCHANGED <<app, loop, buf, orphans>>
-----------------------------------------------------------------------------
Next ==
  \/ \E i \in Node :
       \/ Tick(i) \/ TakeReady(i) \/ Send(i) \/ Report(i) \/ Publish(i) \/ ConfState(i) \/ Advance(i)
       \/ \E m \in Msg : ServeOrphan(i, m)
  \/ \E p \in Pipe, w \in Worker : Take(p, w) \/ Serve(p, w) \/ Fail(p, w) \/ ReportFailure(p, w)

\* A goroutine that can go on does. One that waits for the event loop contends with
\* others: the loop's select is random, and those who wait on a channel queue.
Fairness ==
  /\ \A i \in Node :
       WF_vars(Send(i)) /\ WF_vars(Report(i)) /\ WF_vars(Publish(i)) /\ WF_vars(ConfState(i)) /\ WF_vars(Advance(i))
  /\ \A p \in Pipe, w \in Worker :
       WF_vars(Take(p, w)) /\ SF_vars(Serve(p, w)) /\ SF_vars(ReportFailure(p, w))

Spec == Init /\ [][Next]_vars /\ Fairness
-----------------------------------------------------------------------------
(* Properties *)

\* The types, and the step the two loops of a process are in: the event loop has
\* advancec open while the application has a Ready in hand, and waits for it only
\* while the application waits for the same answer (node.run, serveChannels).
TransportOK ==
  /\ app \in [Node -> AppState]
  /\ loop \in [Node -> [advancec : BOOLEAN, owes : BOOLEAN, lead : BOOLEAN]]
  /\ buf \in [Pipe -> BoundedSeq(Msg, BufSize)]
  /\ worker \in [Pipe -> [Worker -> {Posting(m) : m \in Msg} \cup {Idle, Reporting}]]
  /\ orphans \in [Node -> SUBSET Msg]
  /\ \A i \in Node :
       /\ loop[i].advancec <=> app[i].pc # "select"
       /\ loop[i].owes <=> app[i].pc = "confstate"

\* A message is in one place at most, so no raft core steps it twice, though posts
\* fail while their handlers run on: what the net of Raft takes for granted
\* (pipeline.handle).
OnePlace == \A m \in Msg : Cardinality(Places(m)) <= 1

\* The application loop always comes back to its select, whatever peers do: full
\* buffers, posts that never end and the calls back into the event loop while it
\* has a Ready in hand do not hold it up (peer.send, ReportUnreachable,
\* ApplyConfChange).
AppReturns == \A i \in Node : []<>(app[i].pc = "select")

\* A post that is no proposal ends, though neither end has a timeout: the peer's
\* event loop takes its message, leader or not (stepWithWaitOption).
PostsEnd ==
  \A p \in Pipe, w \in Worker, m \in Others :
    worker[p][w] = Posting(m) ~> worker[p][w] # Posting(m)

\* If the peer has a leader for good at some time, every message leaves the buffer,
\* whatever posts failed or waited before (pipeline.handle).
Drains ==
  \A p \in Pipe, m \in Msg :
    <>[](loop[p[2]].lead) => (m \in Range(buf[p]) ~> m \notin Range(buf[p]))
-----------------------------------------------------------------------------
(* The net between the raft cores *)

InHand(x)   == \E i \in Node : x \in Range(app[i].msgs)
Buffered(x) == x[2] \in Range(buf[x[1]])
Posted(x)   == \E w \in Worker : worker[x[1]][w] = Posting(x[2])

onItsWay == {x \in Pipe \X Msg : InHand(x) \/ Buffered(x) \/ Posted(x)}

handled == {y \in Node \X Msg : y[2] \in orphans[y[1]]}

unreported ==
       {<<i, <<"message", i>>>> : i \in {j \in Node : app[j].pc = "report"}}
  \cup {<<x[1][1], <<"post", x>>>> : x \in {y \in Pipe \X Worker : worker[y[1]][y[2]].pc = "report"}}

known == [i \in Node |-> loop[i].lead]

N == INSTANCE Net
       WITH Link <- Pipe, net <- onItsWay, doubted <- handled, owed <- unreported, lead <- known

\* To the raft cores all this is a net that delivers a message at most once, to whom it
\* is for, and that loses none without a report to its sender: not in a full buffer,
\* not in a Ready that waits for a configuration change, not by a post that fails
\* (peer.send, serveChannels, pipeline.handle). A proposal arrives only where a leader
\* is known.
RefinesNet == N!Spec
=============================================================================
