--------------------------- MODULE TransportProof ---------------------------
(***************************************************************************)
(* Transport keeps its loops in step and every message in one place, and   *)
(* implements Net, for any processes, pipelines, messages and bounds.      *)
(***************************************************************************)
EXTENDS Transport, FiniteSetTheorems, SequenceTheorems, TLAPS

\* What the application loop does has something to do it with.
Busy ==
  \A i \in Node :
    /\ app[i].pc = "send" => app[i].msgs # <<>>
    /\ app[i].pc \in {"publish", "confstate"} => app[i].confs > 0

\* The places of Places, a sequence's index included
InApp(m, i, k)    == k \in DOMAIN app[i].msgs /\ app[i].msgs[k][2] = m
InBuf(m, p, k)    == k \in DOMAIN buf[p] /\ buf[p][k] = m
InWorker(m, p, w) == worker[p][w] = Posting(m)
InHandler(m, i)   == m \in orphans[i]

\* No two of them hold m.
Once(m) ==
  /\ \A i, j \in Node, k, l \in Nat : InApp(m, i, k) /\ InApp(m, j, l) => i = j /\ k = l
  /\ \A p, q \in Pipe, k, l \in Nat : InBuf(m, p, k) /\ InBuf(m, q, l) => p = q /\ k = l
  /\ \A p, q \in Pipe, v, w \in Worker : InWorker(m, p, v) /\ InWorker(m, q, w) => p = q /\ v = w
  /\ \A i, j \in Node : InHandler(m, i) /\ InHandler(m, j) => i = j
  /\ \A i \in Node, k \in Nat, p \in Pipe, l \in Nat : ~ (InApp(m, i, k) /\ InBuf(m, p, l))
  /\ \A i \in Node, k \in Nat, p \in Pipe, w \in Worker : ~ (InApp(m, i, k) /\ InWorker(m, p, w))
  /\ \A i \in Node, k \in Nat, j \in Node : ~ (InApp(m, i, k) /\ InHandler(m, j))
  /\ \A p \in Pipe, k \in Nat, q \in Pipe, w \in Worker : ~ (InBuf(m, p, k) /\ InWorker(m, q, w))
  /\ \A p \in Pipe, k \in Nat, i \in Node : ~ (InBuf(m, p, k) /\ InHandler(m, i))
  /\ \A p \in Pipe, w \in Worker, i \in Node : ~ (InWorker(m, p, w) /\ InHandler(m, i))

Inv == TransportOK /\ Busy /\ \A m \in Msg : Once(m)
-----------------------------------------------------------------------------
(* Bounded sequences *)

LEMMA FromBounded ==
  ASSUME NEW S, NEW n \in Nat, NEW s \in BoundedSeq(S, n)
  PROVE  s \in Seq(S) /\ Len(s) <= n
<1>1. PICK k \in 0..n : s \in [1..k -> S]
  BY SMTT(30) DEF BoundedSeq, SeqOf
<1> QED BY <1>1

LEMMA ToBounded ==
  ASSUME NEW S, NEW n \in Nat, NEW s \in Seq(S), Len(s) <= n
  PROVE  s \in BoundedSeq(S, n)
<1>1. Len(s) \in 0..n /\ s \in [1..Len(s) -> S]
  BY LenProperties
<1> QED BY <1>1 DEF BoundedSeq, SeqOf

LEMMA EmptyBounded == ASSUME NEW S, NEW n \in Nat PROVE <<>> \in BoundedSeq(S, n)
<1>1. <<>> \in [1..0 -> S] /\ 0 \in 0..n
  OBVIOUS
<1> QED BY <1>1 DEF BoundedSeq, SeqOf

\* What is left of a sequence without its first element
LEMMA TailShifts ==
  ASSUME NEW S, NEW n \in Nat, NEW s \in BoundedSeq(S, n), s # <<>>
  PROVE  /\ Head(s) = s[1] /\ 1 \in DOMAIN s /\ s[1] \in S
         /\ Tail(s) \in BoundedSeq(S, n)
         /\ \A k \in DOMAIN Tail(s) : k \in Nat \ {0} /\ k + 1 \in DOMAIN s /\ Tail(s)[k] = s[k + 1]
<1>1. s \in Seq(S) /\ Len(s) <= n
  BY FromBounded
<1>2. Tail(s) \in Seq(S) /\ Len(Tail(s)) = Len(s) - 1
      /\ \A k \in 1 .. Len(Tail(s)) : Tail(s)[k] = s[k + 1]
  BY <1>1, HeadTailProperties
<1>3. Len(s) \in Nat /\ DOMAIN s = 1 .. Len(s) /\ DOMAIN Tail(s) = 1 .. Len(Tail(s)) /\ Len(s) > 0
  BY <1>1, <1>2, LenProperties, EmptySeq
<1>4. Tail(s) \in BoundedSeq(S, n)
  <2>1. Len(Tail(s)) <= n
    BY <1>1, <1>2, <1>3
  <2> QED BY <1>2, <2>1, ToBounded
<1>5. Head(s) = s[1] /\ s[1] \in S
  BY <1>1, <1>3
<1> QED BY <1>2, <1>3, <1>4, <1>5

\* A buffer with room for one more
LEMMA AppendAdds ==
  ASSUME NEW S, NEW n \in Nat, NEW s \in BoundedSeq(S, n), Len(s) < n, NEW e \in S
  PROVE  /\ Append(s, e) \in BoundedSeq(S, n)
         /\ Len(s) + 1 \in Nat
         /\ \A k \in DOMAIN Append(s, e) :
              \/ k \in DOMAIN s /\ Append(s, e)[k] = s[k]
              \/ k = Len(s) + 1 /\ Append(s, e)[k] = e
<1>1. s \in Seq(S) /\ Len(s) \in Nat
  BY FromBounded, LenProperties
<1>2. Append(s, e) \in Seq(S) /\ Len(Append(s, e)) = Len(s) + 1 /\ DOMAIN Append(s, e) = 1 .. Len(s) + 1
      /\ DOMAIN s = 1 .. Len(s)
  BY <1>1
<1>3. \A k \in 1 .. Len(s) + 1 : Append(s, e)[k] = IF k = Len(s) + 1 THEN e ELSE s[k]
  BY <1>1
<1>4. Append(s, e) \in BoundedSeq(S, n)
  <2>1. Len(Append(s, e)) <= n
    BY <1>1, <1>2
  <2> QED BY <1>2, <2>1, ToBounded
<1> QED BY <1>1, <1>2, <1>3, <1>4
-----------------------------------------------------------------------------
(* The loops *)

LEMMA PipeType == ASSUME NEW p \in Pipe PROVE p[1] \in Node /\ p[2] \in Node
BY TransportAssumption DEF Pipe

\* Goes leaves a well-formed application loop, which has advanced or has work to do.
LEMMA GoesOK ==
  ASSUME TransportOK, Busy, NEW i \in Node,
         NEW msgs \in BoundedSeq(Pipe \X Msg, MaxMsgs), NEW confs \in 0..MaxConfs,
         Goes(i, msgs, confs)
  PROVE  /\ app' \in [Node -> AppState] /\ Busy'
         /\ app'[i].msgs = msgs /\ app'[i].pc \in {"send", "publish", "advance"}
         /\ \A j \in Node \ {i} : app'[j] = app[j]
<1>1. app'[i] = [pc |-> IF msgs # <<>> THEN "send" ELSE IF confs > 0 THEN "publish" ELSE "advance",
                 msgs |-> msgs, confs |-> confs]
  BY DEF Goes, TransportOK
<1>2. app'[i] \in AppState
  BY <1>1 DEF AppState
<1>3. app' \in [Node -> AppState] /\ \A j \in Node \ {i} : app'[j] = app[j]
  BY <1>1, <1>2 DEF Goes, TransportOK
<1>4. Busy'
  BY <1>1, <1>3, TransportAssumption DEF Busy
<1> QED BY <1>1, <1>3, <1>4

LEMMA TypeInit == Init => TransportOK /\ Busy
<1> SUFFICES ASSUME Init PROVE TransportOK /\ Busy
  OBVIOUS
<1>1. <<>> \in BoundedSeq(Pipe \X Msg, MaxMsgs) /\ <<>> \in BoundedSeq(Msg, BufSize)
  BY EmptyBounded, TransportAssumption
<1>2. \A i \in Node : app[i] = [pc |-> "select", msgs |-> <<>>, confs |-> 0]
  BY DEF Init
<1>3. app \in [Node -> AppState]
  BY <1>1, TransportAssumption DEF Init, AppState
<1>4. Busy
  BY <1>2 DEF Busy
<1> QED BY <1>1, <1>2, <1>3, <1>4 DEF Init, TransportOK

\* A leader may become known or be lost: the loop is otherwise as it was.
LEMMA LeadsOK ==
  ASSUME TransportOK, NEW i \in Node, Leads(i)
  PROVE  /\ loop' \in [Node -> [advancec : BOOLEAN, owes : BOOLEAN, lead : BOOLEAN]]
         /\ \A j \in Node : loop'[j].advancec = loop[j].advancec /\ loop'[j].owes = loop[j].owes
BY DEF TransportOK, Leads

\* The steps of the two loops of a process
LEMMA LoopsOK ==
  ASSUME TransportOK, Busy, NEW i \in Node,
         Tick(i) \/ TakeReady(i) \/ Report(i) \/ Publish(i) \/ ConfState(i) \/ Advance(i)
  PROVE  TransportOK' /\ Busy'
<1> USE DEF selecting
<1>1. app[i] \in AppState /\ app[i].msgs \in BoundedSeq(Pipe \X Msg, MaxMsgs) /\ app[i].confs \in 0..MaxConfs
  BY DEF TransportOK, AppState
<1>2. CASE Tick(i)
  BY <1>2, LeadsOK DEF Tick, TransportOK, Busy
<1>3. CASE TakeReady(i)
  <2>1. PICK msgs \in NewMsgs(i), confs \in 0..MaxConfs : Goes(i, msgs, confs)
    BY <1>3 DEF TakeReady
  <2>2. msgs \in BoundedSeq({p \in Pipe : p[1] = i} \X {m \in Msg : Places(m) = {}}, MaxMsgs)
    BY DEF NewMsgs
  <2>3. msgs \in Seq({p \in Pipe : p[1] = i} \X {m \in Msg : Places(m) = {}}) /\ Len(msgs) <= MaxMsgs
    BY <2>2, FromBounded, TransportAssumption
  <2>4. ({p \in Pipe : p[1] = i} \X {m \in Msg : Places(m) = {}}) \subseteq Pipe \X Msg
    OBVIOUS
  <2>5. msgs \in Seq(Pipe \X Msg)
    BY <2>3, <2>4, SeqMonotonic
  <2>6. msgs \in BoundedSeq(Pipe \X Msg, MaxMsgs)
    BY <2>3, <2>5, ToBounded, TransportAssumption
  <2>7. app' \in [Node -> AppState] /\ Busy' /\ app'[i].pc \in {"send", "publish", "advance"}
        /\ \A j \in Node \ {i} : app'[j] = app[j]
    BY <2>1, <2>6, GoesOK
  <2>8. /\ loop' \in [Node -> [advancec : BOOLEAN, owes : BOOLEAN, lead : BOOLEAN]]
        /\ loop'[i].advancec = TRUE /\ loop'[i].owes = loop[i].owes
        /\ \A j \in Node \ {i} : loop'[j] = loop[j]
    BY <1>3 DEF TakeReady, TransportOK
  <2> QED BY <1>3, <2>7, <2>8 DEF TakeReady, TransportOK
<1>4. CASE Report(i)
  <2>1. app' \in [Node -> AppState] /\ Busy' /\ app'[i].pc \in {"send", "publish", "advance"}
        /\ \A j \in Node \ {i} : app'[j] = app[j]
    BY <1>1, <1>4, GoesOK DEF Report
  <2>2. app[i].pc = "report" /\ ~ loop[i].owes /\ UNCHANGED <<loop, buf, worker, orphans>>
    BY <1>4 DEF Report, selecting
  <2>3. \A j \in Node : (loop'[j].advancec <=> app'[j].pc # "select") /\ (loop'[j].owes <=> app'[j].pc = "confstate")
    BY <2>1, <2>2 DEF TransportOK
  <2> QED BY <2>1, <2>2, <2>3 DEF TransportOK
<1>5. CASE Publish(i)
  <2>1. app' \in [Node -> AppState] /\ app'[i].pc = "confstate" /\ app'[i].confs = app[i].confs
        /\ \A j \in Node \ {i} : app'[j] = app[j]
    BY <1>1, <1>5 DEF Publish, TransportOK, AppState
  <2>2. Busy'
    BY <1>5, <2>1 DEF Publish, Busy
  <2>3. /\ loop' \in [Node -> [advancec : BOOLEAN, owes : BOOLEAN, lead : BOOLEAN]]
        /\ loop'[i].owes = TRUE /\ loop'[i].advancec = loop[i].advancec
        /\ \A j \in Node \ {i} : loop'[j] = loop[j]
    BY <1>5 DEF Publish, TransportOK
  <2> QED BY <1>5, <2>1, <2>2, <2>3 DEF Publish, TransportOK
<1>6. CASE ConfState(i)
  <2>1. app[i].confs - 1 \in 0..MaxConfs
    BY <1>1, <1>6, TransportAssumption DEF ConfState, Busy
  <2>2. <<>> \in BoundedSeq(Pipe \X Msg, MaxMsgs)
    BY EmptyBounded, TransportAssumption
  <2>3. app' \in [Node -> AppState] /\ Busy' /\ app'[i].pc \in {"send", "publish", "advance"}
        /\ \A j \in Node \ {i} : app'[j] = app[j]
    BY <1>6, <2>1, <2>2, GoesOK DEF ConfState
  <2>4. app[i].pc = "confstate" /\ UNCHANGED <<buf, worker, orphans>>
    BY <1>6 DEF ConfState
  <2>5. /\ loop' \in [Node -> [advancec : BOOLEAN, owes : BOOLEAN, lead : BOOLEAN]]
        /\ loop'[i].owes = FALSE /\ loop'[i].advancec = loop[i].advancec
        /\ \A j \in Node \ {i} : loop'[j] = loop[j]
    BY <1>6 DEF ConfState, TransportOK
  <2>6. \A j \in Node : (loop'[j].advancec <=> app'[j].pc # "select") /\ (loop'[j].owes <=> app'[j].pc = "confstate")
    BY <2>3, <2>4, <2>5 DEF TransportOK
  <2> QED BY <2>3, <2>4, <2>5, <2>6 DEF TransportOK
<1>7. CASE Advance(i)
  <2>1. app' \in [Node -> AppState] /\ app'[i].pc = "select" /\ \A j \in Node \ {i} : app'[j] = app[j]
    BY <1>1, <1>7 DEF Advance, TransportOK, AppState
  <2>2. Busy'
    BY <2>1 DEF Busy
  <2>3. PICK lead \in BOOLEAN : loop' = [loop EXCEPT ![i] = [advanced(@) EXCEPT !.lead = lead]]
    BY <1>7 DEF Advance
  <2>4. loop'[i] = [advancec |-> FALSE, owes |-> loop[i].owes, lead |-> lead]
    BY <2>3 DEF advanced, TransportOK
  <2>5. /\ loop' \in [Node -> [advancec : BOOLEAN, owes : BOOLEAN, lead : BOOLEAN]]
        /\ \A j \in Node \ {i} : loop'[j] = loop[j]
    <3>1. loop'[i] \in [advancec : BOOLEAN, owes : BOOLEAN, lead : BOOLEAN]
      BY <2>4 DEF TransportOK
    <3>2. loop' = [loop EXCEPT ![i] = loop'[i]]
      BY <2>3, SMTT(30) DEF TransportOK
    <3> QED BY <3>1, <3>2 DEF TransportOK
  <2> QED BY <1>7, <2>1, <2>2, <2>4, <2>5 DEF Advance, TransportOK
<1> QED BY <1>2, <1>3, <1>4, <1>5, <1>6, <1>7

\* The steps that pass messages on
LEMMA SendOK ==
  ASSUME TransportOK, Busy, NEW i \in Node, Send(i)
  PROVE  TransportOK' /\ Busy'
<1> DEFINE p == Head(app[i].msgs)[1]
           m == Head(app[i].msgs)[2]
<1>1. /\ app[i] \in AppState /\ app[i].msgs \in BoundedSeq(Pipe \X Msg, MaxMsgs) /\ app[i].confs \in 0..MaxConfs
      /\ app[i].msgs # <<>>
  BY DEF TransportOK, AppState, Busy, Send
<1>2. Head(app[i].msgs) \in Pipe \X Msg /\ Tail(app[i].msgs) \in BoundedSeq(Pipe \X Msg, MaxMsgs)
  BY <1>1, TailShifts, TransportAssumption
<1>3. p \in Pipe /\ m \in Msg
  BY <1>2
<1>4. CASE Len(buf[p]) < BufSize /\ buf' = [buf EXCEPT ![p] = Append(@, m)]
           /\ Goes(i, Tail(app[i].msgs), app[i].confs)
  <2>1. app' \in [Node -> AppState] /\ Busy' /\ app'[i].pc \in {"send", "publish", "advance"}
        /\ \A j \in Node \ {i} : app'[j] = app[j]
    BY <1>1, <1>2, <1>4, GoesOK
  <2>2. buf[p] \in BoundedSeq(Msg, BufSize)
    BY <1>3 DEF TransportOK
  <2>3. Append(buf[p], m) \in BoundedSeq(Msg, BufSize)
    BY <1>3, <1>4, <2>2, AppendAdds, TransportAssumption
  <2>4. buf' \in [Pipe -> BoundedSeq(Msg, BufSize)]
    BY <1>4, <2>3 DEF TransportOK
  <2>5. app[i].pc = "send" /\ UNCHANGED <<loop, worker, orphans>>
    BY DEF Send
  <2> QED BY <2>1, <2>4, <2>5 DEF TransportOK
<1>5. CASE drops(p) /\ app' = [app EXCEPT ![i].pc = "report", ![i].msgs = Tail(@)] /\ UNCHANGED buf
  <2>1. app'[i] = [pc |-> "report", msgs |-> Tail(app[i].msgs), confs |-> app[i].confs]
        /\ \A j \in Node \ {i} : app'[j] = app[j]
    BY <1>1, <1>5 DEF TransportOK, AppState
  <2>2. app' = [app EXCEPT ![i] = app'[i]] /\ app'[i] \in AppState
    BY <1>1, <1>2, <1>5, <2>1 DEF AppState, TransportOK
  <2>3. app' \in [Node -> AppState]
    BY <2>2 DEF TransportOK
  <2>4. Busy'
    BY <2>1, SMTT(30) DEF Busy
  <2>5. app[i].pc = "send" /\ UNCHANGED <<loop, worker, orphans>>
    BY DEF Send
  <2>6. \A j \in Node : (loop'[j].advancec <=> app'[j].pc # "select") /\ (loop'[j].owes <=> app'[j].pc = "confstate")
    <3>1. (loop[i].advancec <=> app[i].pc # "select") /\ (loop[i].owes <=> app[i].pc = "confstate")
      BY DEF TransportOK
    <3>2. \A j \in Node : (loop[j].advancec <=> app[j].pc # "select") /\ (loop[j].owes <=> app[j].pc = "confstate")
      BY DEF TransportOK
    <3>3. app'[i].pc = "report"
      BY <2>1
    <3> QED BY <2>1, <2>5, <3>1, <3>2, <3>3
  <2> HIDE DEF p, m
  <2> QED BY <1>5, <2>3, <2>4, <2>5, <2>6 DEF TransportOK
<1> QED BY <1>4, <1>5 DEF Send

LEMMA PipelineOK ==
  ASSUME TransportOK, Busy,
         \/ \E i \in Node, m \in Msg : ServeOrphan(i, m)
         \/ \E p \in Pipe, w \in Worker : Take(p, w) \/ Serve(p, w) \/ Fail(p, w) \/ ReportFailure(p, w)
  PROVE  TransportOK' /\ Busy'
<1>1. CASE \E i \in Node, m \in Msg : ServeOrphan(i, m)
  <2>1. PICK i \in Node, m \in Msg : ServeOrphan(i, m)
    BY <1>1
  <2> QED BY <2>1, LeadsOK DEF ServeOrphan, TransportOK, Busy
<1>2. ASSUME NEW p \in Pipe, NEW w \in Worker, Take(p, w)
      PROVE  TransportOK' /\ Busy'
  <2>1. buf[p] \in BoundedSeq(Msg, BufSize) /\ buf[p] # <<>>
    BY <1>2 DEF Take, TransportOK
  <2>2. Head(buf[p]) \in Msg /\ Tail(buf[p]) \in BoundedSeq(Msg, BufSize)
    BY <2>1, TailShifts, TransportAssumption
  <2> QED BY <1>2, <2>2 DEF Take, TransportOK, Busy
<1>3. ASSUME NEW p \in Pipe, NEW w \in Worker, Serve(p, w)
      PROVE  TransportOK' /\ Busy'
  <2>1. Leads(p[2]) /\ p[2] \in Node
    BY <1>3, PipeType DEF Serve
  <2>2. worker' \in [Pipe -> [Worker -> {Posting(m) : m \in Msg} \cup {Idle, Reporting}]]
    <3>1. PICK v \in {Idle, Reporting} : worker' = [worker EXCEPT ![p][w] = v]
      BY <1>3 DEF Serve
    <3> QED BY <3>1 DEF TransportOK
  <2> QED BY <1>3, <2>1, <2>2, LeadsOK DEF Serve, TransportOK, Busy
<1>4. ASSUME NEW p \in Pipe, NEW w \in Worker, Fail(p, w)
      PROVE  TransportOK' /\ Busy'
  <2>1. p[2] \in Node /\ worker[p][w].m \in Msg /\ buf' = buf
    BY <1>4, PipeType DEF Fail, TransportOK, Posting, Idle, Reporting, afterFailure
  <2> QED BY <1>4, <2>1 DEF Fail, TransportOK, Busy
<1>5. ASSUME NEW p \in Pipe, NEW w \in Worker, ReportFailure(p, w)
      PROVE  TransportOK' /\ Busy'
  BY <1>5 DEF ReportFailure, afterReport, TransportOK, Busy
<1> QED BY <1>1, <1>2, <1>3, <1>4, <1>5
-----------------------------------------------------------------------------
(* The places *)

\* Fewer places, though positions may have shifted, are still one at most.
LEMMA FewerOnce ==
  ASSUME NEW m, Once(m), NEW a \in [Node -> Nat], NEW b \in [Pipe -> Nat],
         \A i \in Node, k \in Nat : InApp(m, i, k)' => InApp(m, i, k + a[i]),
         \A p \in Pipe, k \in Nat : InBuf(m, p, k)' => InBuf(m, p, k + b[p]),
         \A p \in Pipe, w \in Worker : InWorker(m, p, w)' => InWorker(m, p, w),
         \A i \in Node : InHandler(m, i)' => InHandler(m, i)
  PROVE  Once(m)'
<1>1. \A i \in Node, k \in Nat : k + a[i] \in Nat
  OBVIOUS
<1>2. \A p \in Pipe, k \in Nat : k + b[p] \in Nat
  OBVIOUS
<1>3. \A i, j \in Node, k, l \in Nat : InApp(m, i, k)' /\ InApp(m, j, l)' => i = j /\ k = l
  BY <1>1 DEF Once
<1>4. \A p, q \in Pipe, k, l \in Nat : InBuf(m, p, k)' /\ InBuf(m, q, l)' => p = q /\ k = l
  BY <1>2 DEF Once
<1> QED BY <1>1, <1>2, <1>3, <1>4 DEF Once

\* A message that is nowhere
LEMMA Nowhere ==
  ASSUME TransportOK, NEW m, Places(m) = {}
  PROVE  /\ \A i \in Node, k \in Nat : ~ InApp(m, i, k)
         /\ \A p \in Pipe, k \in Nat : ~ InBuf(m, p, k)
         /\ \A p \in Pipe, w \in Worker : ~ InWorker(m, p, w)
         /\ \A i \in Node : ~ InHandler(m, i)
<1>1. ASSUME NEW i \in Node, NEW k \in Nat, InApp(m, i, k) PROVE FALSE
  <2>1. app[i].msgs[k] \in Range(app[i].msgs)
    BY <1>1 DEF InApp, Range
  <2>2. <<i, "app">> \in Places(m)
    BY <1>1, <2>1 DEF Places, InApp
  <2> QED BY <2>2
<1>2. ASSUME NEW p \in Pipe, NEW k \in Nat, InBuf(m, p, k) PROVE FALSE
  <2>1. buf[p] \in Seq(Msg) /\ Len(buf[p]) <= BufSize
    BY FromBounded, TransportAssumption DEF TransportOK
  <2>2. k \in 1..BufSize
    BY <1>2, <2>1, LenProperties, TransportAssumption DEF InBuf
  <2>3. <<p, k>> \in Places(m)
    BY <1>2, <2>2 DEF Places, InBuf
  <2> QED BY <2>3
<1>3. ASSUME NEW p \in Pipe, NEW w \in Worker, InWorker(m, p, w) PROVE FALSE
  <2>1. <<p, w>> \in Places(m)
    BY <1>3 DEF Places, InWorker
  <2> QED BY <2>1
<1>4. ASSUME NEW i \in Node, InHandler(m, i) PROVE FALSE
  <2>1. <<i, "handler">> \in Places(m)
    BY <1>4 DEF Places, InHandler
  <2> QED BY <2>1
<1> QED BY <1>1, <1>2, <1>3, <1>4

\* One place at most, by the definition of Places
LEMMA OnceIsOnePlace ==
  ASSUME TransportOK, NEW m \in Msg, Once(m)
  PROVE  Cardinality(Places(m)) <= 1
<1>1. ASSUME NEW x \in Places(m), NEW y \in Places(m) PROVE x = y
  <2> DEFINE App(z)     == \E i \in Node, k \in Nat : z = <<i, "app">> /\ InApp(m, i, k)
             Buf(z)     == \E p \in Pipe, k \in Nat : z = <<p, k>> /\ InBuf(m, p, k)
             Wrk(z)     == \E p \in Pipe, w \in Worker : z = <<p, w>> /\ InWorker(m, p, w)
             Handler(z) == \E i \in Node : z = <<i, "handler">> /\ InHandler(m, i)
  <2>1. \A z \in Places(m) : App(z) \/ Buf(z) \/ Wrk(z) \/ Handler(z)
    <3> SUFFICES ASSUME NEW z \in Places(m) PROVE App(z) \/ Buf(z) \/ Wrk(z) \/ Handler(z)
      OBVIOUS
    <3>1. CASE z \in Node \X {"app"} /\ \E e \in Range(app[z[1]].msgs) : e[2] = m
      <4>1. PICK k \in DOMAIN app[z[1]].msgs : app[z[1]].msgs[k][2] = m
        BY <3>1 DEF Range
      <4>2. app[z[1]].msgs \in BoundedSeq(Pipe \X Msg, MaxMsgs)
        BY <3>1 DEF TransportOK, AppState
      <4>3. app[z[1]].msgs \in Seq(Pipe \X Msg)
        BY <4>2, FromBounded, TransportAssumption
      <4>4. k \in Nat
        BY <4>1, <4>3, LenProperties
      <4> QED BY <3>1, <4>1, <4>4 DEF InApp
    <3>2. CASE z \in Pipe \X (1..BufSize) /\ z[2] \in DOMAIN buf[z[1]] /\ buf[z[1]][z[2]] = m
      <4>1. PICK p \in Pipe, k \in 1..BufSize : z = <<p, k>>
        BY <3>2
      <4>2. InBuf(m, p, k) /\ k \in Nat
        BY <3>2, <4>1, TransportAssumption DEF InBuf
      <4> QED BY <4>1, <4>2
    <3>3. CASE z \in Pipe \X Worker /\ worker[z[1]][z[2]] = Posting(m)
      BY <3>3 DEF InWorker
    <3>4. CASE z \in Node \X {"handler"} /\ m \in orphans[z[1]]
      BY <3>4 DEF InHandler
    <3> QED BY <3>1, <3>2, <3>3, <3>4 DEF Places
  <2>2. CASE App(x)
    BY <2>1, <2>2 DEF Once
  <2>3. CASE Buf(x)
    BY <2>1, <2>3 DEF Once
  <2>4. CASE Wrk(x)
    BY <2>1, <2>4 DEF Once
  <2>5. CASE Handler(x)
    BY <2>1, <2>5 DEF Once
  <2> QED BY <2>1, <2>2, <2>3, <2>4, <2>5
<1>2. CASE Places(m) = {}
  BY <1>2, FS_EmptySet
<1>3. CASE \E x : Places(m) = {x}
  <2>1. PICK x : Places(m) = {x}
    BY <1>3
  <2>2. Cardinality({x}) = 1
    BY FS_Singleton
  <2> QED BY <2>1, <2>2
<1> QED BY <1>1, <1>2, <1>3
-----------------------------------------------------------------------------
(* The steps *)

LEMMA InitOnce == ASSUME Init, NEW m \in Msg PROVE Once(m)
<1>1. \A i \in Node, k \in Nat : ~ InApp(m, i, k)
  BY DEF Init, InApp
<1>2. \A p \in Pipe, k \in Nat : ~ InBuf(m, p, k)
  BY DEF Init, InBuf
<1>3. \A p \in Pipe, w \in Worker : ~ InWorker(m, p, w)
  BY DEF Init, InWorker, Idle, Posting
<1>4. \A i \in Node : ~ InHandler(m, i)
  BY DEF Init, InHandler
<1> QED BY <1>1, <1>2, <1>3, <1>4 DEF Once

\* A Ready brings messages that are nowhere else.
LEMMA TakeReadyOnce ==
  ASSUME TransportOK, NEW i \in Node, TakeReady(i), NEW m \in Msg, Once(m)
  PROVE  Once(m)'
<1>1. PICK msgs \in NewMsgs(i), confs \in 0..MaxConfs : Goes(i, msgs, confs)
  BY DEF TakeReady
<1>2. app'[i].msgs = msgs /\ (\A j \in Node \ {i} : app'[j] = app[j]) /\ UNCHANGED <<buf, worker, orphans>>
  BY <1>1 DEF TakeReady, Goes, TransportOK
<1>3. /\ \A k \in DOMAIN msgs : Places(msgs[k][2]) = {}
      /\ \A k, l \in DOMAIN msgs : k # l => msgs[k][2] # msgs[l][2]
  <2>1. msgs \in BoundedSeq({p \in Pipe : p[1] = i} \X {n \in Msg : Places(n) = {}}, MaxMsgs)
    BY DEF NewMsgs
  <2>2. msgs \in Seq({p \in Pipe : p[1] = i} \X {n \in Msg : Places(n) = {}})
    BY <2>1, FromBounded, TransportAssumption
  <2>3. \A k \in DOMAIN msgs : msgs[k] \in {p \in Pipe : p[1] = i} \X {n \in Msg : Places(n) = {}}
    BY <2>2, LenProperties, ElementOfSeq
  <2>4. \A k \in DOMAIN msgs : Places(msgs[k][2]) = {}
    BY <2>3
  <2> QED BY <2>4 DEF NewMsgs
<1>4. CASE \E k \in Nat : InApp(m, i, k)'
  <2>1. Places(m) = {}
    BY <1>2, <1>3, <1>4 DEF InApp
  <2>2. /\ \A j \in Node, k \in Nat : InApp(m, j, k)' => j = i
        /\ \A k, l \in Nat : InApp(m, i, k)' /\ InApp(m, i, l)' => k = l
    BY <1>2, <1>3, <2>1, Nowhere DEF InApp
  <2>3. /\ \A p \in Pipe, k \in Nat : ~ InBuf(m, p, k)'
        /\ \A p \in Pipe, w \in Worker : ~ InWorker(m, p, w)'
        /\ \A j \in Node : ~ InHandler(m, j)'
    BY <1>2, <2>1, Nowhere DEF InBuf, InWorker, InHandler
  <2> QED BY <2>2, <2>3 DEF Once
<1>5. CASE ~ \E k \in Nat : InApp(m, i, k)'
  <2> DEFINE a == [j \in Node |-> 0]
             b == [p \in Pipe |-> 0]
  <2>1. a \in [Node -> Nat] /\ b \in [Pipe -> Nat]
    OBVIOUS
  <2>2. \A j \in Node, k \in Nat : InApp(m, j, k)' => InApp(m, j, k + a[j])
    BY <1>2, <1>5 DEF InApp
  <2>3. /\ \A p \in Pipe, k \in Nat : InBuf(m, p, k)' => InBuf(m, p, k + b[p])
        /\ \A p \in Pipe, w \in Worker : InWorker(m, p, w)' => InWorker(m, p, w)
        /\ \A j \in Node : InHandler(m, j)' => InHandler(m, j)
    BY <1>2 DEF InBuf, InWorker, InHandler
  <2> HIDE DEF a, b
  <2> QED BY <2>1, <2>2, <2>3, FewerOnce
<1> QED BY <1>4, <1>5

\* The other steps of the loops move no message.
LEMMA LoopsOnce ==
  ASSUME TransportOK, NEW i \in Node,
         Tick(i) \/ Report(i) \/ Publish(i) \/ ConfState(i) \/ Advance(i),
         NEW m \in Msg, Once(m)
  PROVE  Once(m)'
<1>1. (\A j \in Node : app'[j].msgs \in {app[j].msgs, <<>>}) /\ UNCHANGED <<buf, worker, orphans>>
  BY DEF Tick, Report, Publish, ConfState, Advance, Goes, TransportOK, AppState
<1> DEFINE a == [j \in Node |-> 0]
           b == [p \in Pipe |-> 0]
<1>2. a \in [Node -> Nat] /\ b \in [Pipe -> Nat]
  OBVIOUS
<1>3. \A j \in Node, k \in Nat : InApp(m, j, k)' => InApp(m, j, k + a[j])
  BY <1>1 DEF InApp
<1>4. /\ \A p \in Pipe, k \in Nat : InBuf(m, p, k)' => InBuf(m, p, k + b[p])
      /\ \A p \in Pipe, w \in Worker : InWorker(m, p, w)' => InWorker(m, p, w)
      /\ \A j \in Node : InHandler(m, j)' => InHandler(m, j)
  BY <1>1 DEF InBuf, InWorker, InHandler
<1> HIDE DEF a, b
<1> QED BY <1>2, <1>3, <1>4, FewerOnce

\* The message at the head of what is left goes to the end of a buffer, or is dropped.
LEMMA SendOnce ==
  ASSUME TransportOK, Busy, NEW i \in Node, Send(i), NEW m \in Msg, Once(m)
  PROVE  Once(m)'
<1> DEFINE a == [j \in Node |-> IF j = i THEN 1 ELSE 0]
           b == [q \in Pipe |-> 0]
<1>1. app[i].msgs \in BoundedSeq(Pipe \X Msg, MaxMsgs) /\ app[i].msgs # <<>>
  BY DEF TransportOK, AppState, Busy, Send
<1> PICK p \in Pipe, n \in Msg : Head(app[i].msgs) = <<p, n>>
  BY <1>1, TailShifts, TransportAssumption
<1>2. /\ InApp(n, i, 1)
      /\ \A k \in DOMAIN Tail(app[i].msgs) :
           k \in Nat \ {0} /\ k + 1 \in DOMAIN app[i].msgs /\ Tail(app[i].msgs)[k] = app[i].msgs[k + 1]
  BY <1>1, TailShifts, TransportAssumption, SMTT(30) DEF InApp
<1>3. /\ app'[i].msgs = Tail(app[i].msgs)
      /\ \A j \in Node \ {i} : app'[j] = app[j]
      /\ UNCHANGED <<worker, orphans>>
  <2>1. app[i] \in AppState
    BY SMTT(30) DEF TransportOK
  <2>2. CASE Goes(i, Tail(app[i].msgs), app[i].confs)
    BY <2>2 DEF Send, Goes, TransportOK
  <2>3. CASE app' = [app EXCEPT ![i].pc = "report", ![i].msgs = Tail(@)]
    BY <2>1, <2>3 DEF Send, TransportOK, AppState
  <2> QED BY <2>2, <2>3 DEF Send
<1>4. /\ a \in [Node -> Nat] /\ b \in [Pipe -> Nat]
      /\ a[i] = 1 /\ \A j \in Node \ {i} : a[j] = 0
  OBVIOUS
<1>5. \A j \in Node, k \in Nat : InApp(m, j, k)' => (InApp(m, j, k + a[j]) /\ k # 0) \/ (j # i /\ InApp(m, j, k))
  <2> HIDE DEF a
  <2> SUFFICES ASSUME NEW j \in Node, NEW k \in Nat, InApp(m, j, k)'
               PROVE  (InApp(m, j, k + a[j]) /\ k # 0) \/ (j # i /\ InApp(m, j, k))
    OBVIOUS
  <2>1. CASE j = i
    BY <1>2, <1>3, <1>4, <2>1 DEF InApp
  <2>2. CASE j # i
    BY <1>3, <2>2 DEF InApp
  <2> QED BY <2>1, <2>2
<1>6. /\ \A q \in Pipe, w \in Worker : InWorker(m, q, w)' => InWorker(m, q, w)
      /\ \A j \in Node : InHandler(m, j)' => InHandler(m, j)
      /\ \A j \in Node, k \in Nat : InApp(m, j, k)' => InApp(m, j, k + a[j])
  <2>1. \A j \in Node, k \in Nat : j # i => k + a[j] = k
    BY <1>4
  <2> HIDE DEF a
  <2> QED BY <1>3, <1>5, <2>1 DEF InWorker, InHandler
<1>7. CASE UNCHANGED buf
  <2>1. \A q \in Pipe, k \in Nat : InBuf(m, q, k)' => InBuf(m, q, k + b[q])
    BY <1>7 DEF InBuf
  <2> HIDE DEF a, b
  <2> QED BY <1>4, <1>6, <2>1, FewerOnce
<1>8. CASE Len(buf[p]) < BufSize /\ buf' = [buf EXCEPT ![p] = Append(@, n)]
  <2>1. buf[p] \in BoundedSeq(Msg, BufSize)
    BY <1>2 DEF TransportOK
  <2>2. /\ Len(buf[p]) + 1 \in Nat
        /\ \A k \in DOMAIN Append(buf[p], n) :
             \/ k \in DOMAIN buf[p] /\ Append(buf[p], n)[k] = buf[p][k]
             \/ k = Len(buf[p]) + 1 /\ Append(buf[p], n)[k] = n
    BY <1>2, <1>8, <2>1, AppendAdds, TransportAssumption
  <2>3. buf'[p] = Append(buf[p], n) /\ \A q \in Pipe \ {p} : buf'[q] = buf[q]
    BY <1>2, <1>8 DEF TransportOK
  <2>4. \A q \in Pipe, k \in Nat : InBuf(m, q, k)' => InBuf(m, q, k) \/ (m = n /\ q = p /\ k = Len(buf[p]) + 1)
    <3>1. \A k : InBuf(m, p, k)' => InBuf(m, p, k) \/ (m = n /\ k = Len(buf[p]) + 1)
      BY <2>2, <2>3 DEF InBuf
    <3>2. \A q \in Pipe \ {p}, k \in Nat : InBuf(m, q, k)' => InBuf(m, q, k)
      BY <2>3 DEF InBuf
    <3> QED BY <3>1, <3>2
  <2>5. CASE m # n
    <3>1. \A q \in Pipe, k \in Nat : InBuf(m, q, k)' => InBuf(m, q, k + b[q])
      BY <2>4, <2>5
    <3> HIDE DEF a, b
    <3> QED BY <1>4, <1>6, <3>1, FewerOnce
  <2>6. CASE m = n
    <3>1. \A j \in Node, k \in Nat : ~ InApp(m, j, k)'
      <4>1. \A j \in Node, k \in Nat : InApp(m, j, k) => j = i /\ k = 1
        BY <1>2, <2>6 DEF Once
      <4> HIDE DEF a
      <4> QED BY <1>4, <1>5, <4>1
    <3>2. /\ \A q \in Pipe, k \in Nat : ~ InBuf(m, q, k)
          /\ \A q \in Pipe, w \in Worker : ~ InWorker(m, q, w)
          /\ \A j \in Node : ~ InHandler(m, j)
      BY <1>2, <2>6 DEF Once
    <3>3. \A q \in Pipe, k \in Nat : InBuf(m, q, k)' => q = p /\ k = Len(buf[p]) + 1
      BY <2>4, <3>2, SMTT(30)
    <3> HIDE DEF a, b
    <3> QED BY <1>6, <3>1, <3>2, <3>3 DEF Once
  <2> QED BY <2>5, <2>6
<1>9. UNCHANGED buf \/ (Len(buf[p]) < BufSize /\ buf' = [buf EXCEPT ![p] = Append(@, n)])
  <2>1. Head(app[i].msgs)[1] = p /\ Head(app[i].msgs)[2] = n
    OBVIOUS
  <2> QED BY <2>1 DEF Send
<1> QED BY <1>7, <1>8, <1>9, SMTT(30)

\* A worker takes the first message of the buffer.
LEMMA TakeOnce ==
  ASSUME TransportOK, NEW p \in Pipe, NEW w \in Worker, Take(p, w), NEW m \in Msg, Once(m)
  PROVE  Once(m)'
<1> DEFINE n == Head(buf[p])
           a == [j \in Node |-> 0]
           b == [q \in Pipe |-> IF q = p THEN 1 ELSE 0]
<1>1. buf[p] \in BoundedSeq(Msg, BufSize) /\ buf[p] # <<>>
  BY DEF Take, TransportOK
<1>2. /\ InBuf(n, p, 1)
      /\ \A k \in DOMAIN Tail(buf[p]) :
           k \in Nat \ {0} /\ k + 1 \in DOMAIN buf[p] /\ Tail(buf[p])[k] = buf[p][k + 1]
  BY <1>1, TailShifts, TransportAssumption DEF InBuf
<1>3. /\ buf'[p] = Tail(buf[p]) /\ \A q \in Pipe \ {p} : buf'[q] = buf[q]
      /\ UNCHANGED <<app, orphans>>
  BY DEF Take, TransportOK
<1>4. \A q \in Pipe, v \in Worker : worker'[q][v] = IF q = p /\ v = w THEN Posting(n) ELSE worker[q][v]
  BY DEF Take, TransportOK
<1>5. /\ a \in [Node -> Nat] /\ b \in [Pipe -> Nat]
      /\ b[p] = 1 /\ \A q \in Pipe \ {p} : b[q] = 0
  OBVIOUS
<1>6. /\ \A k \in Nat : InBuf(m, p, k)' => InBuf(m, p, k + 1) /\ k # 0
      /\ \A q \in Pipe \ {p}, k \in Nat : InBuf(m, q, k)' => InBuf(m, q, k)
  BY <1>2, <1>3 DEF InBuf
<1>7. /\ \A j \in Node, k \in Nat : InApp(m, j, k)' => InApp(m, j, k + a[j])
      /\ \A j \in Node : InHandler(m, j)' => InHandler(m, j)
  BY <1>3 DEF InApp, InHandler
<1>8. \A q \in Pipe, v \in Worker : InWorker(m, q, v)' => InWorker(m, q, v) \/ (m = n /\ q = p /\ v = w)
  BY <1>4 DEF InWorker, Posting
<1> HIDE DEF n
<1>9. CASE m # n
  <2>1. \A q \in Pipe, k \in Nat : InBuf(m, q, k)' => InBuf(m, q, k + b[q])
    <3>1. \A q \in Pipe \ {p}, k \in Nat : k + b[q] = k
      BY <1>5
    <3> HIDE DEF b
    <3> QED BY <1>5, <1>6, <3>1
  <2> HIDE DEF a, b
  <2> QED BY <1>5, <1>7, <1>8, <1>9, <2>1, FewerOnce
<1>10. CASE m = n
  <2>1. \A q \in Pipe, k \in Nat : ~ InBuf(m, q, k)'
    <3>1. \A q \in Pipe, k \in Nat : InBuf(m, q, k) => q = p /\ k = 1
      BY <1>2, <1>10 DEF Once
    <3> QED BY <1>6, <3>1
  <2>2. /\ \A j \in Node, k \in Nat : ~ InApp(m, j, k)
        /\ \A q \in Pipe, v \in Worker : ~ InWorker(m, q, v)
        /\ \A j \in Node : ~ InHandler(m, j)
    BY <1>2, <1>10 DEF Once
  <2>3. /\ \A j \in Node, k \in Nat : ~ InApp(m, j, k)'
        /\ \A j \in Node : ~ InHandler(m, j)'
    BY <1>7, <2>2
  <2>4. \A q \in Pipe, v \in Worker : InWorker(m, q, v)' => q = p /\ v = w
    BY <1>8, <2>2
  <2> QED BY <2>1, <2>3, <2>4 DEF Once
<1> QED BY <1>9, <1>10

\* The end of a post: nothing holds the message, or its handler alone.
LEMMA PostOnce ==
  ASSUME TransportOK, NEW p \in Pipe, NEW w \in Worker, Serve(p, w) \/ Fail(p, w) \/ ReportFailure(p, w),
         NEW m \in Msg, Once(m)
  PROVE  Once(m)'
<1> DEFINE a == [j \in Node |-> 0]
           b == [q \in Pipe |-> 0]
<1>1. a \in [Node -> Nat] /\ b \in [Pipe -> Nat]
  OBVIOUS
<1>2. UNCHANGED <<app, buf>>
  BY DEF Serve, Fail, ReportFailure, afterFailure, TransportOK
<1>3. \E v \in {Idle, Reporting} : worker' = [worker EXCEPT ![p][w] = v]
  BY DEF Serve, Fail, ReportFailure, afterReport
<1>4. \A q \in Pipe, v \in Worker : InWorker(m, q, v)' => InWorker(m, q, v) /\ <<q, v>> # <<p, w>>
  <2>1. PICK x \in {Idle, Reporting} : worker' = [worker EXCEPT ![p][w] = x]
    BY <1>3
  <2>2. x # Posting(m)
    BY DEF Idle, Reporting, Posting
  <2>3. \A q \in Pipe, v \in Worker : worker'[q][v] = IF q = p /\ v = w THEN x ELSE worker[q][v]
    BY <2>1 DEF TransportOK
  <2> QED BY <2>2, <2>3 DEF InWorker
<1>5. /\ \A j \in Node, k \in Nat : InApp(m, j, k)' => InApp(m, j, k + a[j])
      /\ \A q \in Pipe, k \in Nat : InBuf(m, q, k)' => InBuf(m, q, k + b[q])
  BY <1>2 DEF InApp, InBuf
<1>6. CASE UNCHANGED orphans
  <2>1. \A j \in Node : InHandler(m, j)' => InHandler(m, j)
    BY <1>6 DEF InHandler
  <2> HIDE DEF a, b
  <2> QED BY <1>1, <1>4, <1>5, <2>1, FewerOnce
<1>7. CASE Fail(p, w) /\ orphans' = [orphans EXCEPT ![p[2]] = @ \cup {worker[p][w].m}]
  <2>1. \A j \in Node : InHandler(m, j)' => InHandler(m, j) \/ (j = p[2] /\ m = worker[p][w].m)
    BY <1>7, PipeType DEF InHandler, TransportOK
  <2>2. CASE m # worker[p][w].m
    <3>1. \A j \in Node : InHandler(m, j)' => InHandler(m, j)
      BY <2>1, <2>2
    <3> HIDE DEF a, b
    <3> QED BY <1>1, <1>4, <1>5, <3>1, FewerOnce
  <2>3. CASE m = worker[p][w].m
    <3>1. InWorker(m, p, w)
      BY <1>7, <2>3 DEF Fail, InWorker, Posting, Idle, Reporting, TransportOK
    <3>2. /\ \A j \in Node, k \in Nat : ~ InApp(m, j, k)
          /\ \A q \in Pipe, k \in Nat : ~ InBuf(m, q, k)
          /\ \A q \in Pipe, v \in Worker : InWorker(m, q, v) => q = p /\ v = w
          /\ \A j \in Node : ~ InHandler(m, j)
      BY <3>1 DEF Once
    <3>3. /\ \A j \in Node, k \in Nat : ~ InApp(m, j, k)'
          /\ \A q \in Pipe, k \in Nat : ~ InBuf(m, q, k)'
      BY <1>2, <3>2 DEF InApp, InBuf
    <3>4. \A q \in Pipe, v \in Worker : ~ InWorker(m, q, v)'
      BY <1>4, <3>2
    <3>5. \A j \in Node : InHandler(m, j)' => j = p[2]
      BY <2>1, <3>2
    <3> QED BY <3>3, <3>4, <3>5 DEF Once
  <2> QED BY <2>2, <2>3
<1> QED BY <1>6, <1>7 DEF Serve, Fail, ReportFailure

LEMMA ServeOrphanOnce ==
  ASSUME TransportOK, NEW i \in Node, NEW n \in Msg, ServeOrphan(i, n), NEW m \in Msg, Once(m)
  PROVE  Once(m)'
<1> DEFINE a == [j \in Node |-> 0]
           b == [q \in Pipe |-> 0]
<1>1. a \in [Node -> Nat] /\ b \in [Pipe -> Nat]
  OBVIOUS
<1>2. /\ \A j \in Node, k \in Nat : InApp(m, j, k)' => InApp(m, j, k + a[j])
      /\ \A q \in Pipe, k \in Nat : InBuf(m, q, k)' => InBuf(m, q, k + b[q])
      /\ \A q \in Pipe, v \in Worker : InWorker(m, q, v)' => InWorker(m, q, v)
  BY DEF ServeOrphan, InApp, InBuf, InWorker
<1>3. \A j \in Node : InHandler(m, j)' => InHandler(m, j)
  BY DEF ServeOrphan, InHandler, TransportOK
<1> HIDE DEF a, b
<1> QED BY <1>1, <1>2, <1>3, FewerOnce
-----------------------------------------------------------------------------
LEMMA NextInv == ASSUME Inv, [Next]_vars PROVE Inv'
<1>1. TransportOK /\ Busy /\ \A m \in Msg : Once(m)
  BY DEF Inv
<1>2. CASE \E i \in Node : Tick(i) \/ Report(i) \/ Publish(i) \/ ConfState(i) \/ Advance(i)
  BY <1>1, <1>2, LoopsOK, LoopsOnce DEF Inv
<1>3. CASE \E i \in Node : TakeReady(i)
  BY <1>1, <1>3, LoopsOK, TakeReadyOnce DEF Inv
<1>4. CASE \E i \in Node : Send(i)
  BY <1>1, <1>4, SendOK, SendOnce DEF Inv
<1>5. CASE \E i \in Node, m \in Msg : ServeOrphan(i, m)
  BY <1>1, <1>5, PipelineOK, ServeOrphanOnce DEF Inv
<1>6. CASE \E p \in Pipe, w \in Worker : Take(p, w)
  BY <1>1, <1>6, PipelineOK, TakeOnce DEF Inv
<1>7. CASE \E p \in Pipe, w \in Worker : Serve(p, w) \/ Fail(p, w) \/ ReportFailure(p, w)
  BY <1>1, <1>7, PipelineOK, PostOnce DEF Inv
<1>8. CASE UNCHANGED vars
  BY <1>1, <1>8 DEF Inv, vars, TransportOK, Busy, Once, InApp, InBuf, InWorker, InHandler
<1> QED BY <1>2, <1>3, <1>4, <1>5, <1>6, <1>7, <1>8 DEF Next

LEMMA InvHolds == Spec => []Inv
<1>1. Init => Inv
  BY TypeInit, InitOnce DEF Inv
<1> QED BY <1>1, NextInv, PTL DEF Spec

\* The application loop and the event loop of a process are in step in every state, so
\* that neither waits for an answer that the other does not owe (serveChannels, node.run).
THEOREM TransportStaysOK == Spec => []TransportOK
BY InvHolds, PTL DEF Inv

\* A message is never in two places, whatever posts fail while their handlers go on and
\* however many workers there are: no raft core steps one twice (pipeline.handle).
THEOREM InOnePlace == Spec => []OnePlace
<1>1. Inv => OnePlace
  BY OnceIsOnePlace DEF Inv, OnePlace
<1> QED BY <1>1, InvHolds, PTL
-----------------------------------------------------------------------------
(* The net *)

\* What a sequence holds, with an element more at its end and with the first one less
LEMMA RangeAppend ==
  ASSUME NEW S, NEW n \in Nat, NEW s \in BoundedSeq(S, n), NEW e \in S
  PROVE  Range(Append(s, e)) = Range(s) \cup {e}
<1>1. s \in Seq(S) /\ Len(s) \in Nat
  BY FromBounded, LenProperties
<1>2. DOMAIN Append(s, e) = 1 .. Len(s) + 1 /\ DOMAIN s = 1 .. Len(s)
      /\ \A k \in 1 .. Len(s) + 1 : Append(s, e)[k] = IF k = Len(s) + 1 THEN e ELSE s[k]
  BY <1>1
<1>3. ASSUME NEW x \in Range(Append(s, e)) PROVE x \in Range(s) \cup {e}
  <2>1. PICK k \in 1 .. Len(s) + 1 : x = Append(s, e)[k]
    BY <1>2 DEF Range
  <2>2. CASE k = Len(s) + 1
    BY <1>1, <1>2, <2>1, <2>2
  <2>3. CASE k # Len(s) + 1
    <3>1. k \in DOMAIN s /\ x = s[k]
      BY <1>1, <1>2, <2>1, <2>3
    <3> QED BY <3>1 DEF Range
  <2> QED BY <2>2, <2>3
<1>4. Range(s) \subseteq Range(Append(s, e))
  <2>1. \A k \in DOMAIN s : k \in DOMAIN Append(s, e) /\ Append(s, e)[k] = s[k]
    BY <1>1, <1>2
  <2> QED BY <2>1 DEF Range
<1>5. e \in Range(Append(s, e))
  <2>1. Len(s) + 1 \in DOMAIN Append(s, e) /\ Append(s, e)[Len(s) + 1] = e
    BY <1>1, <1>2
  <2> QED BY <2>1 DEF Range
<1> QED BY <1>3, <1>4, <1>5

LEMMA RangeTail ==
  ASSUME NEW S, NEW n \in Nat, NEW s \in BoundedSeq(S, n), s # <<>>
  PROVE  Range(s) = {Head(s)} \cup Range(Tail(s))
<1>1. s \in Seq(S) /\ Head(s) = s[1] /\ 1 \in DOMAIN s
  BY FromBounded, TailShifts
<1>2. Tail(s) \in Seq(S) /\ Len(Tail(s)) = Len(s) - 1
      /\ \A k \in 1 .. Len(Tail(s)) : Tail(s)[k] = s[k + 1]
  BY <1>1, HeadTailProperties
<1>3. Len(s) \in Nat /\ DOMAIN s = 1 .. Len(s) /\ DOMAIN Tail(s) = 1 .. Len(Tail(s))
  BY <1>1, <1>2, LenProperties
<1>4. ASSUME NEW x \in Range(s) PROVE x \in {Head(s)} \cup Range(Tail(s))
  <2>1. PICK k \in DOMAIN s : x = s[k]
    BY DEF Range
  <2>2. CASE k # 1
    <3>1. k - 1 \in DOMAIN Tail(s) /\ Tail(s)[k - 1] = x
      BY <1>2, <1>3, <2>1, <2>2
    <3> QED BY <3>1 DEF Range
  <2> QED BY <1>1, <2>1, <2>2
<1>5. Range(Tail(s)) \subseteq Range(s)
  <2>1. \A k \in DOMAIN Tail(s) : k + 1 \in DOMAIN s /\ Tail(s)[k] = s[k + 1]
    BY TailShifts
  <2> QED BY <2>1 DEF Range
<1>6. Head(s) \in Range(s)
  BY <1>1 DEF Range
<1> QED BY <1>4, <1>5, <1>6

\* The application loop sends its own messages, all of them before it goes on.
Own ==
  \A i \in Node :
    /\ \A x \in Range(app[i].msgs) : x[1][1] = i
    /\ app[i].pc \notin {"send", "report"} => app[i].msgs = <<>>

\* After Goes with messages of its own
LEMMA GoesOwn ==
  ASSUME TransportOK, Own, NEW i \in Node, NEW msgs, NEW confs, Goes(i, msgs, confs),
         \A x \in Range(msgs) : x[1][1] = i
  PROVE  Own'
<1>1. app'[i] = [pc |-> IF msgs # <<>> THEN "send" ELSE IF confs > 0 THEN "publish" ELSE "advance",
                 msgs |-> msgs, confs |-> confs]
      /\ \A j \in Node \ {i} : app'[j] = app[j]
  BY DEF Goes, TransportOK
<1>2. /\ \A x \in Range(app'[i].msgs) : x[1][1] = i
      /\ app'[i].pc \notin {"send", "report"} => app'[i].msgs = <<>>
  BY <1>1
<1> QED BY <1>1, <1>2 DEF Own

LEMMA InitOwn == Init => Own
<1> SUFFICES ASSUME Init, NEW i \in Node
             PROVE  /\ \A x \in Range(app[i].msgs) : x[1][1] = i
                    /\ app[i].msgs = <<>>
  BY DEF Own
<1>1. app[i].msgs = <<>>
  BY DEF Init
<1> QED BY <1>1 DEF Range

LEMMA NextOwn == ASSUME Inv, Own, [Next]_vars PROVE Own'
<1>0. TransportOK /\ Busy /\ \A j \in Node : app[j] \in AppState
  BY DEF Inv, TransportOK
<1>1. ASSUME UNCHANGED app PROVE Own'
  BY <1>1 DEF Own
<1>2. ASSUME NEW i \in Node, NEW msgs \in {app[i].msgs, <<>>}, NEW confs, Goes(i, msgs, confs) PROVE Own'
  <2>1. \A x \in Range(msgs) : x[1][1] = i
    BY DEF Own, Range
  <2> QED BY <1>0, <1>2, <2>1, GoesOwn
<1>3. ASSUME NEW i \in Node, app[i].msgs = <<>>, app'[i].msgs = <<>>, \A j \in Node \ {i} : app'[j] = app[j]
      PROVE  Own'
  <2>1. \A x \in Range(app'[i].msgs) : x[1][1] = i
    BY <1>3 DEF Range
  <2> QED BY <1>3, <2>1 DEF Own
<1>4. ASSUME NEW i \in Node, Publish(i) \/ Advance(i) PROVE Own'
  <2>1. app[i].msgs = <<>>
    BY <1>4 DEF Publish, Advance, Own
  <2>2. app'[i].msgs = app[i].msgs /\ \A j \in Node \ {i} : app'[j] = app[j]
    BY <1>0, <1>4 DEF Publish, Advance, AppState, TransportOK
  <2> QED BY <1>3, <2>1, <2>2
<1>5. ASSUME NEW i \in Node, TakeReady(i) PROVE Own'
  <2>1. PICK msgs \in NewMsgs(i), confs \in 0..MaxConfs : Goes(i, msgs, confs)
    BY <1>5 DEF TakeReady
  <2>2. msgs \in Seq({p \in Pipe : p[1] = i} \X {n \in Msg : Places(n) = {}})
    BY FromBounded, TransportAssumption DEF NewMsgs
  <2>3. \A x \in Range(msgs) : x \in {p \in Pipe : p[1] = i} \X {n \in Msg : Places(n) = {}}
    BY <2>2, LenProperties, ElementOfSeq, SMTT(30) DEF Range
  <2> QED BY <1>0, <2>1, <2>3, GoesOwn
<1>6. ASSUME NEW i \in Node, Send(i) PROVE Own'
  <2>1. app[i].msgs \in BoundedSeq(Pipe \X Msg, MaxMsgs) /\ app[i].msgs # <<>>
    BY <1>0, <1>6 DEF AppState, Busy, Send
  <2>2. \A x \in Range(Tail(app[i].msgs)) : x[1][1] = i
    BY <2>1, RangeTail, TransportAssumption DEF Own
  <2>3. CASE Goes(i, Tail(app[i].msgs), app[i].confs)
    BY <1>0, <2>2, <2>3, GoesOwn
  <2>4. CASE app' = [app EXCEPT ![i].pc = "report", ![i].msgs = Tail(@)]
    <3>1. app'[i].pc = "report" /\ app'[i].msgs = Tail(app[i].msgs) /\ \A j \in Node \ {i} : app'[j] = app[j]
      BY <1>0, <2>4 DEF TransportOK, AppState
    <3> QED BY <2>2, <3>1 DEF Own
  <2> QED BY <1>6, <2>3, <2>4, SMTT(30) DEF Send
<1>7. ASSUME NEW i \in Node, Report(i) \/ ConfState(i) PROVE Own'
  BY <1>2, <1>7 DEF Report, ConfState
<1>8. ASSUME UNCHANGED vars \/ (\E i \in Node : Tick(i) \/ \E m \in Msg : ServeOrphan(i, m))
             \/ \E p \in Pipe, w \in Worker : Take(p, w) \/ Serve(p, w) \/ Fail(p, w) \/ ReportFailure(p, w)
      PROVE  Own'
  BY <1>1, <1>8 DEF vars, Tick, ServeOrphan, Take, Serve, Fail, ReportFailure
<1> QED BY <1>4, <1>5, <1>6, <1>7, <1>8 DEF Next

\* Where a message on its way is
LEMMA WhereOnWay ==
  ASSUME TransportOK, NEW x \in onItsWay
  PROVE  /\ x \in Pipe \X Msg
         /\ \/ \E i \in Node, k \in Nat : InApp(x[2], i, k) /\ app[i].msgs[k] = x
            \/ \E k \in Nat : InBuf(x[2], x[1], k)
            \/ \E w \in Worker : InWorker(x[2], x[1], w)
<1>1. x \in Pipe \X Msg /\ (InHand(x) \/ Buffered(x) \/ Posted(x))
  BY DEF onItsWay
<1>2. CASE InHand(x)
  <2>0. PICK i \in Node : x \in Range(app[i].msgs)
    BY <1>2 DEF InHand
  <2>1. PICK k \in DOMAIN app[i].msgs : x = app[i].msgs[k]
    BY <2>0 DEF Range
  <2>2. app[i].msgs \in BoundedSeq(Pipe \X Msg, MaxMsgs)
    BY DEF TransportOK, AppState
  <2>3. k \in Nat
    BY <2>1, <2>2, FromBounded, LenProperties, TransportAssumption
  <2> QED BY <1>1, <2>1, <2>3 DEF InApp
<1>3. CASE Buffered(x)
  <2>1. PICK k \in DOMAIN buf[x[1]] : x[2] = buf[x[1]][k]
    BY <1>3 DEF Buffered, Range
  <2>2. buf[x[1]] \in BoundedSeq(Msg, BufSize)
    BY <1>1 DEF TransportOK
  <2>3. k \in Nat
    BY <2>1, <2>2, FromBounded, LenProperties, TransportAssumption
  <2> QED BY <1>1, <2>1, <2>3 DEF InBuf
<1>4. CASE Posted(x)
  BY <1>1, <1>4 DEF Posted, InWorker
<1> QED BY <1>1, <1>2, <1>3, <1>4

\* A message goes over one link, and is with no handler before the post has failed.
Apart ==
  /\ \A x, y \in onItsWay : x[2] = y[2] => x = y
  /\ \A x \in onItsWay, y \in handled : x[2] # y[2]

LEMMA InvApart == Inv => Apart
<1> SUFFICES ASSUME Inv PROVE Apart
  OBVIOUS
<1>1. TransportOK /\ \A m \in Msg : Once(m)
  BY DEF Inv
<1>2. ASSUME NEW x \in onItsWay, NEW y \in onItsWay, x[2] = y[2] PROVE x = y
  <2>1. x \in Pipe \X Msg /\ y \in Pipe \X Msg /\ Once(x[2])
    BY <1>1, WhereOnWay
  <2>2. CASE \E i \in Node, k \in Nat : InApp(x[2], i, k) /\ app[i].msgs[k] = x
    <3>1. PICK i \in Node, k \in Nat : InApp(x[2], i, k) /\ app[i].msgs[k] = x
      BY <2>2
    <3>2. \E j \in Node, l \in Nat : InApp(x[2], j, l) /\ app[j].msgs[l] = y
      BY <1>1, <1>2, <2>1, <3>1, WhereOnWay DEF Once
    <3> QED BY <2>1, <3>1, <3>2 DEF Once
  <2>3. CASE \E k \in Nat : InBuf(x[2], x[1], k)
    <3>1. \E l \in Nat : InBuf(x[2], y[1], l)
      BY <1>1, <1>2, <2>1, <2>3, WhereOnWay DEF Once
    <3>2. x[1] = y[1]
      BY <2>1, <2>3, <3>1 DEF Once
    <3> QED BY <1>2, <2>1, <3>2
  <2>4. CASE \E w \in Worker : InWorker(x[2], x[1], w)
    <3>1. \E w \in Worker : InWorker(x[2], y[1], w)
      BY <1>1, <1>2, <2>1, <2>4, WhereOnWay DEF Once
    <3>2. x[1] = y[1]
      BY <2>1, <2>4, <3>1 DEF Once
    <3> QED BY <1>2, <2>1, <3>2
  <2> QED BY <1>1, <2>2, <2>3, <2>4, WhereOnWay
<1>3. ASSUME NEW x \in onItsWay, NEW y \in handled, x[2] = y[2] PROVE FALSE
  <2>1. x \in Pipe \X Msg /\ y[1] \in Node /\ InHandler(x[2], y[1]) /\ Once(x[2])
    BY <1>1, <1>3, WhereOnWay DEF handled, InHandler
  <2> QED BY <1>1, <2>1, WhereOnWay DEF Once
<1> QED BY <1>2, <1>3 DEF Apart

LEMMA NextApart == Inv' => Apart'
BY InvApart, PTL

\* What a core knows of a leader, after a step of its event loop
LEMMA KnownStep ==
  ASSUME TransportOK, NEW i \in Node, Leads(i)
  PROVE  N!Step(i)
<1>1. PICK lead \in BOOLEAN : loop' = [loop EXCEPT ![i].lead = lead]
  BY DEF Leads
<1>2. known' = [known EXCEPT ![i] = lead]
  BY <1>1 DEF known, TransportOK
<1> QED BY <1>2 DEF N!Step

\* The steps of the loops that pass no message on
LEMMA SameOnWay ==
  ASSUME UNCHANGED <<buf, worker, orphans>>, \A i \in Node : app'[i].msgs = app[i].msgs
  PROVE  onItsWay' = onItsWay /\ handled' = handled
BY DEF onItsWay, handled, InHand, Buffered, Posted

LEMMA SameUnreported ==
  ASSUME UNCHANGED worker, \A i \in Node : app'[i].pc = "report" <=> app[i].pc = "report"
  PROVE  unreported' = unreported
BY DEF unreported

LEMMA TickNet ==
  ASSUME TransportOK, Own, NEW i \in Node, Tick(i) \/ Advance(i)
  PROVE  N!Tick(i)
<1>1. CASE Tick(i)
  <2>1. N!Step(i)
    BY <1>1, KnownStep DEF Tick
  <2>2. onItsWay' = onItsWay /\ handled' = handled /\ unreported' = unreported
    BY <1>1, SameOnWay, SameUnreported DEF Tick
  <2> QED BY <2>1, <2>2 DEF N!Tick
<1>2. CASE Advance(i)
  <2>1. PICK lead \in BOOLEAN : loop' = [loop EXCEPT ![i] = [advanced(@) EXCEPT !.lead = lead]]
    BY <1>2 DEF Advance
  <2>2. loop'[i].lead = lead /\ \A j \in Node \ {i} : loop'[j] = loop[j]
    BY <2>1 DEF advanced, TransportOK
  <2>3. known' = [known EXCEPT ![i] = lead]
    BY <2>2 DEF known
  <2>4. \A j \in Node : app'[j].msgs = app[j].msgs /\ (app'[j].pc = "report" <=> app[j].pc = "report")
    BY <1>2 DEF Advance, TransportOK, AppState
  <2>5. onItsWay' = onItsWay /\ handled' = handled /\ unreported' = unreported
    BY <1>2, <2>4, SameOnWay, SameUnreported DEF Advance
  <2> QED BY <2>3, <2>5 DEF N!Tick, N!Step
<1> QED BY <1>1, <1>2

\* The calls into the event loop for a configuration change
LEMMA ConfNet ==
  ASSUME TransportOK, Own, NEW i \in Node, Publish(i) \/ ConfState(i)
  PROVE  UNCHANGED <<onItsWay, handled, unreported, known>>
<1>1. app[i].msgs = <<>> /\ app[i] \in AppState
  BY DEF Publish, ConfState, Own, TransportOK
<1>2. /\ app'[i].msgs = app[i].msgs /\ app'[i].pc # "report" /\ app[i].pc # "report"
      /\ \A j \in Node \ {i} : app'[j] = app[j]
  <2>1. CASE Publish(i)
    <3>1. app' = [app EXCEPT ![i].pc = "confstate"] /\ app[i].pc = "publish"
      BY <2>1 DEF Publish
    <3> QED BY <1>1, <3>1 DEF TransportOK, AppState
  <2>2. CASE ConfState(i)
    <3>1. Goes(i, <<>>, app[i].confs - 1) /\ app[i].pc = "confstate"
      BY <2>2 DEF ConfState
    <3> QED BY <1>1, <3>1 DEF Goes, TransportOK
  <2> QED BY <2>1, <2>2
<1>3. \A j \in Node : loop'[j].lead = loop[j].lead
  <2>1. loop \in [Node -> [advancec : BOOLEAN, owes : BOOLEAN, lead : BOOLEAN]]
    BY DEF TransportOK
  <2>2. PICK b \in BOOLEAN : loop' = [loop EXCEPT ![i].owes = b]
    BY DEF Publish, ConfState
  <2> QED BY <2>1, <2>2
<1>4. known' = known
  BY <1>3 DEF known
<1> QED BY <1>2, <1>4, SameOnWay, SameUnreported DEF Publish, ConfState

\* A report of a dropped message
LEMMA ReportNet ==
  ASSUME TransportOK, Own, NEW i \in Node, Report(i)
  PROVE  \E r \in unreported : N!Report(r)
<1> DEFINE r == <<i, <<"message", i>>>>
<1>1. r \in unreported
  BY DEF Report, unreported
<1>2. /\ app'[i].msgs = app[i].msgs /\ app'[i].pc # "report"
      /\ \A j \in Node \ {i} : app'[j] = app[j]
  BY DEF Report, Goes, TransportOK
<1>3. unreported' = unreported \ {r}
  <2>1. \A j \in Node : app'[j].pc = "report" <=> app[j].pc = "report" /\ j # i
    BY <1>2
  <2>2. worker' = worker
    BY DEF Report
  <2>3. ASSUME NEW x \in unreported', x \notin unreported \/ x = r PROVE FALSE
    <3>1. CASE \E j \in Node : app'[j].pc = "report" /\ x = <<j, <<"message", j>>>>
      BY <2>1, <2>3, <3>1 DEF unreported
    <3>2. CASE \E y \in Pipe \X Worker : worker'[y[1]][y[2]].pc = "report" /\ x = <<y[1][1], <<"post", y>>>>
      BY <2>2, <2>3, <3>2 DEF unreported
    <3> QED BY <3>1, <3>2 DEF unreported
  <2>4. ASSUME NEW x \in unreported, x # r PROVE x \in unreported'
    <3>1. CASE \E j \in Node : app[j].pc = "report" /\ x = <<j, <<"message", j>>>>
      BY <2>1, <2>4, <3>1 DEF unreported
    <3>2. CASE \E y \in Pipe \X Worker : worker[y[1]][y[2]].pc = "report" /\ x = <<y[1][1], <<"post", y>>>>
      BY <2>2, <3>2 DEF unreported
    <3> QED BY <3>1, <3>2 DEF unreported
  <2> QED BY <2>3, <2>4
<1>4. onItsWay' = onItsWay /\ handled' = handled /\ known' = known
  BY <1>2, SameOnWay DEF Report, known
<1> QED BY <1>1, <1>3, <1>4 DEF N!Report

\* Whether a worker owes a report
LEMMA PostUnreported ==
  ASSUME TransportOK, NEW p \in Pipe, NEW w \in Worker, NEW v, UNCHANGED app,
         worker' = [worker EXCEPT ![p][w] = v]
  PROVE  LET r == <<p[1], <<"post", <<p, w>>>>>>
         IN  /\ r \in unreported <=> worker[p][w].pc = "report"
             /\ unreported' = IF v.pc = "report" THEN unreported \cup {r} ELSE unreported \ {r}
<1> DEFINE r == <<p[1], <<"post", <<p, w>>>>>>
           Loops(x) == \E j \in Node : app[j].pc = "report" /\ x = <<j, <<"message", j>>>>
           Posts(x, q, u) == x = <<q[1], <<"post", <<q, u>>>>>>
<1>1. \A q \in Pipe, u \in Worker : worker'[q][u] = IF q = p /\ u = w THEN v ELSE worker[q][u]
  BY DEF TransportOK
<1>2. \A x : x \in unreported <=> Loops(x) \/ \E q \in Pipe, u \in Worker : worker[q][u].pc = "report" /\ Posts(x, q, u)
  BY DEF unreported
<1>3. \A x : x \in unreported' <=> Loops(x) \/ \E q \in Pipe, u \in Worker : worker'[q][u].pc = "report" /\ Posts(x, q, u)
  BY DEF unreported
<1>4. ~ Loops(r) /\ \A q \in Pipe, u \in Worker : Posts(r, q, u) <=> q = p /\ u = w
  OBVIOUS
<1>5. \A x, q, u : Posts(x, q, u) /\ q = p /\ u = w => x = r
  OBVIOUS
<1> HIDE DEF r, Loops, Posts
<1>6. r \in unreported <=> worker[p][w].pc = "report"
  BY <1>2, <1>4
<1>7. CASE v.pc = "report"
  <2>1. \A x : x \in unreported' <=> x \in unreported \cup {r}
    BY <1>1, <1>2, <1>3, <1>4, <1>5, <1>7
  <2> QED BY <1>6, <1>7, <2>1 DEF r
<1>8. CASE v.pc # "report"
  <2>1. \A x : x \in unreported' <=> x \in unreported \ {r}
    <3>1. \A x : x \in unreported' => x \in unreported \ {r}
      BY <1>1, <1>2, <1>3, <1>4, <1>8
    <3>2. \A x : x \in unreported \ {r} => x \in unreported'
      BY <1>1, <1>2, <1>3, <1>5
    <3> QED BY <3>1, <3>2
  <2> QED BY <1>6, <1>8, <2>1 DEF r
<1> QED BY <1>7, <1>8

\* A Ready brings messages that are new to the net.
LEMMA TakeReadyNet ==
  ASSUME TransportOK, Own, Apart', NEW i \in Node, TakeReady(i)
  PROVE  N!Send(i)
<1>1. PICK msgs \in NewMsgs(i), confs \in 0..MaxConfs : Goes(i, msgs, confs)
  BY DEF TakeReady
<1>2. /\ app'[i].msgs = msgs /\ app'[i].pc # "report"
      /\ (\A j \in Node \ {i} : app'[j] = app[j]) /\ UNCHANGED <<buf, worker, orphans>>
  BY <1>1 DEF TakeReady, Goes, TransportOK
<1>3. app[i].pc = "select" /\ app[i].msgs = <<>> /\ Range(app[i].msgs) = {}
  BY DEF TakeReady, Own, Range
<1>4. Range(msgs) \subseteq {l \in Pipe : l[1] = i} \X Msg
  <2>1. msgs \in Seq({p \in Pipe : p[1] = i} \X {n \in Msg : Places(n) = {}})
    BY FromBounded, TransportAssumption DEF NewMsgs
  <2> QED BY <2>1, LenProperties, ElementOfSeq DEF Range
<1>5. onItsWay' = onItsWay \cup Range(msgs)
  <2>1. \A x : InHand(x)' <=> InHand(x) \/ x \in Range(msgs)
    BY <1>2, <1>3 DEF InHand
  <2>2. \A x : (Buffered(x)' <=> Buffered(x)) /\ (Posted(x)' <=> Posted(x))
    BY <1>2 DEF Buffered, Posted
  <2>3. Range(msgs) \subseteq Pipe \X Msg
    BY <1>4
  <2> QED BY <2>1, <2>2, <2>3 DEF onItsWay
<1>6. handled' = handled
  BY <1>2 DEF handled
<1>7. unreported' = unreported
  BY <1>2, <1>3, SameUnreported
<1>8. known' = known
  <2>1. \A j \in Node : loop'[j].lead = loop[j].lead
    BY DEF TakeReady, TransportOK
  <2> QED BY <2>1 DEF known
<1>9. \A x \in onItsWay' \ onItsWay :
        /\ \A y \in onItsWay' : x[2] = y[2] => x = y
        /\ \A y \in handled : x[2] # y[2]
  BY <1>6 DEF Apart
<1>10. onItsWay' \ onItsWay \subseteq {l \in Pipe : l[1] = i} \X Msg
  BY <1>4, <1>5, SMTT(30)
<1> QED BY <1>5, <1>6, <1>7, <1>8, <1>9, <1>10 DEF N!Send

\* The message at the head of what is left stays on its way, or is dropped.
LEMMA SendNet ==
  ASSUME Inv, Own, NEW i \in Node, Send(i)
  PROVE  \/ UNCHANGED <<onItsWay, handled, unreported, known>>
         \/ \E x \in onItsWay : N!Lose(x)
<1>1. TransportOK /\ Busy /\ \A m \in Msg : Once(m)
  BY DEF Inv
<1>2. app[i] \in AppState /\ app[i].msgs \in BoundedSeq(Pipe \X Msg, MaxMsgs) /\ app[i].msgs # <<>>
  BY <1>1 DEF TransportOK, AppState, Busy, Send
<1> PICK p \in Pipe, m \in Msg : Head(app[i].msgs) = <<p, m>>
  BY <1>2, TailShifts, TransportAssumption
<1>3. Range(app[i].msgs) = {<<p, m>>} \cup Range(Tail(app[i].msgs)) /\ p[1] = i
  <2>1. Range(app[i].msgs) = {Head(app[i].msgs)} \cup Range(Tail(app[i].msgs))
    BY <1>2, RangeTail, TransportAssumption
  <2>2. <<p, m>> \in Range(app[i].msgs)
    BY <2>1
  <2>3. p[1] = i
    BY <2>2, SMTT(30) DEF Own
  <2> QED BY <2>1, <2>3
<1>4. <<p, m>> \in onItsWay /\ UNCHANGED <<loop, worker, orphans>>
  BY <1>3 DEF onItsWay, InHand, Send
<1>5. handled' = handled /\ known' = known
  BY <1>4 DEF handled, known
<1>6. CASE Len(buf[p]) < BufSize /\ buf' = [buf EXCEPT ![p] = Append(@, m)] /\ Goes(i, Tail(app[i].msgs), app[i].confs)
  <2>1. /\ app'[i].msgs = Tail(app[i].msgs) /\ app'[i].pc # "report" /\ app[i].pc # "report"
        /\ \A j \in Node \ {i} : app'[j] = app[j]
    BY <1>1, <1>6 DEF Send, Goes, TransportOK
  <2>2. Range(buf'[p]) = Range(buf[p]) \cup {m} /\ \A q \in Pipe \ {p} : buf'[q] = buf[q]
    <3>1. buf[p] \in BoundedSeq(Msg, BufSize)
      BY <1>1 DEF TransportOK
    <3>2. buf'[p] = Append(buf[p], m) /\ \A q \in Pipe \ {p} : buf'[q] = buf[q]
      BY <1>1, <1>6 DEF TransportOK
    <3> QED BY <3>1, <3>2, RangeAppend, TransportAssumption
  <2>3. \A x : InHand(x) <=> InHand(x)' \/ x = <<p, m>>
    BY <1>3, <2>1 DEF InHand
  <2>4. \A x \in Pipe \X Msg : Buffered(x)' <=> Buffered(x) \/ x = <<p, m>>
    BY <2>2 DEF Buffered
  <2>5. \A x : Posted(x)' <=> Posted(x)
    BY <1>4 DEF Posted
  <2>6. onItsWay' = onItsWay
    BY <2>3, <2>4, <2>5 DEF onItsWay
  <2>7. unreported' = unreported
    BY <1>4, <2>1, SameUnreported
  <2> QED BY <1>5, <2>6, <2>7
<1>7. CASE app' = [app EXCEPT ![i].pc = "report", ![i].msgs = Tail(@)] /\ UNCHANGED buf
  <2> DEFINE x == <<p, m>>
             r == <<i, <<"message", i>>>>
  <2>1. /\ app'[i].msgs = Tail(app[i].msgs) /\ app'[i].pc = "report" /\ app[i].pc # "report"
        /\ \A j \in Node \ {i} : app'[j] = app[j]
    BY <1>1, <1>2, <1>7 DEF Send, TransportOK, AppState
  <2>2. onItsWay' = onItsWay \ {x}
    <3>1. \A y : InHand(y) <=> InHand(y)' \/ y = x
      BY <1>3, <2>1 DEF InHand
    <3>2. \A y : (Buffered(y)' <=> Buffered(y)) /\ (Posted(y)' <=> Posted(y))
      BY <1>4, <1>7 DEF Buffered, Posted
    <3>3. x \notin onItsWay'
      <4>1. InApp(m, i, 1) /\ \A k \in DOMAIN Tail(app[i].msgs) :
              k \in Nat \ {0} /\ k + 1 \in DOMAIN app[i].msgs /\ Tail(app[i].msgs)[k] = app[i].msgs[k + 1]
        BY <1>2, TailShifts, TransportAssumption DEF InApp
      <4>2. ~ Buffered(x) /\ ~ Posted(x)
        <5>1. \A k \in Nat : ~ InBuf(m, p, k)
          BY <1>1, <4>1 DEF Once
        <5>2. \A w \in Worker : ~ InWorker(m, p, w)
          BY <1>1, <4>1 DEF Once
        <5>3. buf[p] \in BoundedSeq(Msg, BufSize)
          BY <1>1 DEF TransportOK
        <5>4. DOMAIN buf[p] \subseteq Nat
          BY <5>3, FromBounded, LenProperties, TransportAssumption
        <5> QED BY <5>1, <5>2, <5>4 DEF Buffered, Posted, InBuf, InWorker, Range
      <4>3. ASSUME NEW j \in Node, x \in Range(app'[j].msgs) PROVE FALSE
        <5>1. CASE j = i
          <6>1. PICK k \in DOMAIN Tail(app[i].msgs) : x = Tail(app[i].msgs)[k]
            BY <2>1, <4>3, <5>1 DEF Range
          <6>2. InApp(m, i, k + 1) /\ k + 1 \in Nat /\ k + 1 # 1
            BY <4>1, <6>1 DEF InApp
          <6> QED BY <1>1, <4>1, <6>2 DEF Once
        <5>2. CASE j # i
          BY <2>1, <4>3, <5>2, <1>3 DEF Own
        <5> QED BY <5>1, <5>2
      <4> QED BY <3>2, <4>2, <4>3 DEF onItsWay, InHand
    <3> QED BY <3>1, <3>2, <3>3 DEF onItsWay
  <2>3. unreported' = unreported \cup {r} /\ r \notin unreported
    <3>1. \A j \in Node : app'[j].pc = "report" <=> app[j].pc = "report" \/ j = i
      BY <2>1
    <3>2. {<<j, <<"message", j>>>> : j \in {k \in Node : app'[k].pc = "report"}}
            = {<<j, <<"message", j>>>> : j \in {k \in Node : app[k].pc = "report"}} \cup {r}
      BY <3>1
    <3>3. worker' = worker
      BY <1>4
    <3>4. r \notin unreported
      BY <2>1 DEF unreported
    <3> QED BY <3>2, <3>3, <3>4 DEF unreported
  <2>4. N!Owe(i)
    BY <2>3 DEF N!Owe
  <2> QED BY <1>3, <1>4, <1>5, <2>2, <2>4 DEF N!Lose
<1>8. Head(app[i].msgs)[1] = p /\ Head(app[i].msgs)[2] = m
  OBVIOUS
<1> QED BY <1>6, <1>7, <1>8, SMTT(30) DEF Send

\* A worker takes a message from the buffer.
LEMMA TakeNet ==
  ASSUME TransportOK, NEW p \in Pipe, NEW w \in Worker, Take(p, w)
  PROVE  UNCHANGED <<onItsWay, handled, unreported, known>>
<1>1. buf[p] \in BoundedSeq(Msg, BufSize) /\ buf[p] # <<>>
  BY DEF Take, TransportOK
<1> PICK m : m = Head(buf[p])
  OBVIOUS
<1>2. m \in Msg /\ Range(buf[p]) = {m} \cup Range(Tail(buf[p]))
  BY <1>1, TailShifts, RangeTail, TransportAssumption
<1>3. /\ buf'[p] = Tail(buf[p]) /\ \A q \in Pipe \ {p} : buf'[q] = buf[q]
      /\ worker' = [worker EXCEPT ![p][w] = Posting(m)]
      /\ worker[p][w] = Idle
      /\ UNCHANGED <<app, loop, orphans>>
  BY DEF Take, TransportOK
<1>4. \A q \in Pipe, u \in Worker : worker'[q][u] = IF q = p /\ u = w THEN Posting(m) ELSE worker[q][u]
  BY <1>3 DEF TransportOK
<1>5. \A x \in Pipe \X Msg : Buffered(x) <=> Buffered(x)' \/ x = <<p, m>>
  BY <1>2, <1>3 DEF Buffered
<1>6. \A x \in Pipe \X Msg : Posted(x)' <=> Posted(x) \/ x = <<p, m>>
  <2>1. \A n : Posting(n) # Idle /\ (Posting(n) = Posting(m) => n = m)
    BY DEF Posting, Idle
  <2>2. ASSUME NEW x \in Pipe \X Msg, Posted(x)' PROVE Posted(x) \/ x = <<p, m>>
    <3>1. PICK u \in Worker : worker'[x[1]][u] = Posting(x[2])
      BY <2>2 DEF Posted
    <3> QED BY <1>4, <2>1, <3>1 DEF Posted
  <2>3. ASSUME NEW x \in Pipe \X Msg, Posted(x) PROVE Posted(x)'
    <3>1. PICK u \in Worker : worker[x[1]][u] = Posting(x[2])
      BY <2>3 DEF Posted
    <3>2. worker'[x[1]][u] = Posting(x[2])
      BY <1>3, <1>4, <2>1, <3>1
    <3> QED BY <3>2 DEF Posted
  <2>4. Posted(<<p, m>>)'
    BY <1>4 DEF Posted
  <2> QED BY <2>2, <2>3, <2>4
<1>7. onItsWay' = onItsWay
  <2>1. \A x : InHand(x)' <=> InHand(x)
    BY <1>3 DEF InHand
  <2> QED BY <1>5, <1>6, <2>1 DEF onItsWay
<1>8. unreported' = unreported
  <2>1. Posting(m).pc # "report" /\ Idle.pc # "report"
    BY DEF Posting, Idle
  <2>2. LET r == <<p[1], <<"post", <<p, w>>>>>> IN r \notin unreported /\ unreported' = unreported \ {r}
    BY <1>3, <2>1, PostUnreported
  <2> QED BY <2>2
<1> QED BY <1>3, <1>7, <1>8 DEF handled, known

\* A post ends: its message leaves the net.
LEMMA PostEnds ==
  ASSUME Inv, NEW p \in Pipe, NEW w \in Worker, worker[p][w].pc = "post",
         NEW v \in {Idle, Reporting}, worker' = [worker EXCEPT ![p][w] = v], UNCHANGED <<app, buf>>
  PROVE  /\ worker[p][w].m \in Msg
         /\ <<p, worker[p][w].m>> \in onItsWay
         /\ onItsWay' = onItsWay \ {<<p, worker[p][w].m>>}
<1>1. TransportOK /\ \A n \in Msg : Once(n)
  BY DEF Inv
<1> PICK m \in Msg : worker[p][w] = Posting(m)
  BY <1>1 DEF TransportOK, Idle, Reporting
<1>2. worker[p][w].m = m /\ v # Posting(m) /\ \A n : v # Posting(n)
  BY DEF Posting, Idle, Reporting
<1> DEFINE x == <<p, m>>
<1>3. InWorker(m, p, w) /\ Posted(x)
  BY DEF InWorker, Posted
<1>4. x \in onItsWay
  BY <1>3 DEF onItsWay
<1>5. \A q \in Pipe, u \in Worker : worker'[q][u] = IF q = p /\ u = w THEN v ELSE worker[q][u]
  BY <1>1 DEF TransportOK
<1>6. \A y \in Pipe \X Msg : (InHand(y)' <=> InHand(y)) /\ (Buffered(y)' <=> Buffered(y))
  BY DEF InHand, Buffered
<1>7. \A y \in Pipe \X Msg : Posted(y)' => Posted(y)
  BY <1>2, <1>5 DEF Posted
<1>8. \A y \in Pipe \X Msg : Posted(y) => Posted(y)' \/ y = x
  <2> SUFFICES ASSUME NEW y \in Pipe \X Msg, Posted(y), y # x PROVE Posted(y)'
    OBVIOUS
  <2>1. PICK u \in Worker : worker[y[1]][u] = Posting(y[2])
    BY DEF Posted
  <2>2. y[1] # p \/ u # w
    BY <2>1 DEF Posting
  <2>3. worker'[y[1]][u] = Posting(y[2])
    BY <1>5, <2>1, <2>2
  <2> QED BY <2>3 DEF Posted
<1>9. ~ InHand(x) /\ ~ Buffered(x) /\ ~ Posted(x)'
  <2>1. ~ InHand(x)
    <3>1. ASSUME NEW j \in Node, x \in Range(app[j].msgs) PROVE FALSE
      <4>1. PICK k \in DOMAIN app[j].msgs : x = app[j].msgs[k]
        BY <3>1 DEF Range
      <4>2. app[j].msgs \in BoundedSeq(Pipe \X Msg, MaxMsgs)
        BY <1>1 DEF TransportOK, AppState
      <4>3. k \in Nat /\ InApp(m, j, k)
        BY <4>1, <4>2, FromBounded, LenProperties, TransportAssumption DEF InApp
      <4> QED BY <1>1, <1>3, <4>3 DEF Once
    <3> QED BY <3>1 DEF InHand
  <2>2. ~ Buffered(x)
    <3>1. \A k \in Nat : ~ InBuf(m, p, k)
      BY <1>1, <1>3 DEF Once
    <3>2. buf[p] \in BoundedSeq(Msg, BufSize)
      BY <1>1 DEF TransportOK
    <3>3. DOMAIN buf[p] \subseteq Nat
      BY <3>2, FromBounded, LenProperties, TransportAssumption
    <3> QED BY <3>1, <3>3 DEF Buffered, InBuf, Range
  <2>3. ~ Posted(x)'
    <3>1. \A u \in Worker : worker[p][u] = Posting(m) => u = w
      BY <1>1, <1>3 DEF Once, InWorker
    <3> QED BY <1>2, <1>5, <3>1 DEF Posted
  <2> QED BY <2>1, <2>2, <2>3
<1>10. onItsWay' = onItsWay \ {x}
  BY <1>6, <1>7, <1>8, <1>9 DEF onItsWay
<1> QED BY <1>2, <1>4, <1>10

\* A post is served: its message arrives, and its answer may be lost.
LEMMA ServeNet ==
  ASSUME Inv, NEW p \in Pipe, NEW w \in Worker, Serve(p, w)
  PROVE  \E x \in onItsWay : N!Deliver(x)
<1> PICK m : m = worker[p][w].m
  OBVIOUS
<1> DEFINE x == <<p, m>>
           r == <<p[1], <<"post", <<p, w>>>>>>
<1>1. TransportOK /\ p[2] \in Node
  BY PipeType DEF Inv
<1>2. worker[p][w].pc = "post" /\ takes(p[2], m) /\ Leads(p[2]) /\ UNCHANGED <<app, buf, orphans>>
  BY DEF Serve
<1> PICK v \in {Idle, Reporting} : worker' = [worker EXCEPT ![p][w] = v]
  BY DEF Serve
<1>3. m \in Msg /\ x \in onItsWay /\ onItsWay' = onItsWay \ {x}
  BY <1>2, PostEnds
<1>4. (m \in Props => known[p[2]]) /\ N!Step(p[2])
  BY <1>1, <1>2, KnownStep DEF takes, waitsForLeader, known
<1>5. r \notin unreported /\ unreported' = IF v.pc = "report" THEN unreported \cup {r} ELSE unreported \ {r}
  BY <1>1, <1>2, PostUnreported
<1>6. UNCHANGED unreported \/ N!Owe(p[1])
  <2>1. CASE v.pc = "report"
    <3>1. unreported' = unreported \cup {r} /\ r \in unreported' \ unreported
      BY <1>5, <2>1
    <3> QED BY <3>1 DEF N!Owe
  <2>2. CASE v.pc # "report"
    BY <1>5, <2>2
  <2> QED BY <2>1, <2>2
<1>7. handled' = handled
  BY <1>2 DEF handled
<1> QED BY <1>3, <1>4, <1>6, <1>7 DEF N!Deliver, N!StepMsg

\* A post fails: its message is lost, or its handler goes on.
LEMMA FailNet ==
  ASSUME Inv, NEW p \in Pipe, NEW w \in Worker, Fail(p, w)
  PROVE  \E x \in onItsWay : N!Lose(x)
<1> PICK m : m = worker[p][w].m
  OBVIOUS
<1> DEFINE x == <<p, m>>
           r == <<p[1], <<"post", <<p, w>>>>>>
<1>1. TransportOK /\ p[2] \in Node
  BY PipeType DEF Inv
<1>2. /\ worker[p][w].pc = "post" /\ worker' = [worker EXCEPT ![p][w] = Reporting]
      /\ UNCHANGED <<app, loop, buf>>
  BY <1>1 DEF Fail, afterFailure, TransportOK
<1>3. m \in Msg /\ x \in onItsWay /\ onItsWay' = onItsWay \ {x}
  BY <1>2, PostEnds
<1>4. r \notin unreported /\ unreported' = unreported \cup {r}
  <2>1. Reporting.pc = "report"
    BY DEF Reporting
  <2>2. r \notin unreported
        /\ unreported' = IF Reporting.pc = "report" THEN unreported \cup {r} ELSE unreported \ {r}
    BY <1>1, <1>2, PostUnreported
  <2> QED BY <2>1, <2>2
<1>5. N!Owe(p[1])
  <2>1. r \in unreported' \ unreported
    BY <1>4
  <2> QED BY <1>4, <2>1 DEF N!Owe
<1>6. handled' \in {handled, handled \cup {<<p[2], m>>}}
  <2>1. CASE orphans' = orphans
    BY <2>1 DEF handled
  <2>2. CASE orphans' = [orphans EXCEPT ![p[2]] = @ \cup {m}]
    <3>1. \A i \in Node : orphans'[i] = IF i = p[2] THEN orphans[i] \cup {m} ELSE orphans[i]
      BY <1>1, <2>2 DEF TransportOK
    <3>2. ASSUME NEW i \in Node, NEW n \in Msg
          PROVE  <<i, n>> \in handled' <=> <<i, n>> \in handled \/ <<i, n>> = <<p[2], m>>
      <4>1. (<<i, n>> \in handled <=> n \in orphans[i]) /\ (<<i, n>> \in handled' <=> n \in orphans'[i])
        BY DEF handled
      <4> QED BY <3>1, <4>1
    <3>3. handled \subseteq Node \X Msg /\ handled' \subseteq Node \X Msg /\ <<p[2], m>> \in Node \X Msg
      BY <1>1, <1>3 DEF handled
    <3>4. handled' = handled \cup {<<p[2], m>>}
      BY <3>2, <3>3
    <3> QED BY <3>4
  <2> QED BY <2>1, <2>2 DEF Fail
<1>7. known' = known
  BY <1>2 DEF known
<1> QED BY <1>3, <1>5, <1>6, <1>7 DEF N!Lose

\* A message arrives after the post has failed.
LEMMA ServeOrphanNet ==
  ASSUME TransportOK, NEW i \in Node, NEW m \in Msg, ServeOrphan(i, m)
  PROVE  \E y \in handled : N!DeliverLate(y)
<1> DEFINE y == <<i, m>>
<1>1. y \in handled /\ UNCHANGED <<app, buf, worker>>
  BY DEF ServeOrphan, handled
<1>2. (m \in Props => known[i]) /\ N!Step(i)
  BY KnownStep DEF ServeOrphan, takes, waitsForLeader, known
<1>3. handled' = handled \ {y}
  <2>1. \A j \in Node : orphans'[j] = IF j = i THEN orphans[j] \ {m} ELSE orphans[j]
    BY DEF ServeOrphan, TransportOK
  <2>2. ASSUME NEW j \in Node, NEW n \in Msg
        PROVE  <<j, n>> \in handled' <=> <<j, n>> \in handled /\ <<j, n>> # y
    <3>1. (<<j, n>> \in handled <=> n \in orphans[j]) /\ (<<j, n>> \in handled' <=> n \in orphans'[j])
      BY DEF handled
    <3> QED BY <2>1, <3>1
  <2>3. handled \subseteq Node \X Msg /\ handled' \subseteq Node \X Msg
    BY DEF handled
  <2> QED BY <2>2, <2>3
<1>4. onItsWay' = onItsWay /\ unreported' = unreported
  BY <1>1 DEF onItsWay, InHand, Buffered, Posted, unreported
<1> QED BY <1>1, <1>2, <1>3, <1>4 DEF N!DeliverLate, N!StepMsg

\* A report of a failed post
LEMMA ReportFailureNet ==
  ASSUME TransportOK, NEW p \in Pipe, NEW w \in Worker, ReportFailure(p, w)
  PROVE  \E r \in unreported : N!Report(r)
<1> DEFINE r == <<p[1], <<"post", <<p, w>>>>>>
<1>1. /\ worker[p][w] = Reporting /\ worker' = [worker EXCEPT ![p][w] = Idle]
      /\ UNCHANGED <<app, loop, buf, orphans>>
  BY DEF ReportFailure, afterReport
<1>2. Reporting.pc = "report" /\ Idle.pc # "report"
  BY DEF Reporting, Idle
<1>3. r \in unreported /\ unreported' = unreported \ {r}
  <2>1. /\ r \in unreported <=> worker[p][w].pc = "report"
        /\ unreported' = IF Idle.pc = "report" THEN unreported \cup {r} ELSE unreported \ {r}
    BY <1>1, PostUnreported
  <2> QED BY <1>1, <1>2, <2>1
<1>4. onItsWay' = onItsWay
  <2>1. \A q \in Pipe, u \in Worker : worker'[q][u] = IF q = p /\ u = w THEN Idle ELSE worker[q][u]
    BY <1>1 DEF TransportOK
  <2>2. \A n : Posting(n) # Idle /\ Posting(n) # Reporting
    BY DEF Posting, Idle, Reporting
  <2>3. \A x \in Pipe \X Msg : Posted(x)' <=> Posted(x)
    BY <1>1, <2>1, <2>2 DEF Posted
  <2>4. \A x \in Pipe \X Msg : (InHand(x)' <=> InHand(x)) /\ (Buffered(x)' <=> Buffered(x))
    BY <1>1 DEF InHand, Buffered
  <2> QED BY <2>3, <2>4 DEF onItsWay
<1>5. handled' = handled /\ known' = known
  BY <1>1 DEF handled, known
<1> QED BY <1>3, <1>4, <1>5 DEF N!Report

LEMMA InitNet == Init => N!Init
<1> SUFFICES ASSUME Init PROVE N!Init
  OBVIOUS
<1>1. \A x \in Pipe \X Msg : ~ InHand(x) /\ ~ Buffered(x) /\ ~ Posted(x)
  BY DEF Init, InHand, Buffered, Posted, Range, Idle, Posting
<1>2. onItsWay = {}
  BY <1>1 DEF onItsWay
<1>3. handled = {}
  BY DEF Init, handled
<1>4. unreported = {}
  <2>1. \A j \in Node : app[j].pc # "report"
    BY DEF Init
  <2>2. \A p \in Pipe, w \in Worker : worker[p][w].pc # "report"
    BY DEF Init, Idle
  <2> QED BY <2>1, <2>2 DEF unreported
<1>5. known = [i \in Node |-> FALSE]
  BY DEF Init, known
<1> QED BY <1>2, <1>3, <1>4, <1>5 DEF N!Init

LEMMA NextNet ==
  ASSUME Inv, Own, Apart', [Next]_vars
  PROVE  [N!Next]_(N!vars)
<1>1. TransportOK
  BY DEF Inv
<1>2. ASSUME NEW i \in Node, Tick(i) \/ Advance(i) PROVE N!Next
  BY <1>1, <1>2, TickNet DEF N!Next
<1>3. ASSUME NEW i \in Node, TakeReady(i) PROVE N!Next
  BY <1>1, <1>3, TakeReadyNet DEF N!Next
<1>4. ASSUME NEW i \in Node, Publish(i) \/ ConfState(i) PROVE UNCHANGED N!vars
  BY <1>1, <1>4, ConfNet DEF N!vars
<1>5. ASSUME NEW i \in Node, Send(i) PROVE N!Next \/ UNCHANGED N!vars
  BY <1>5, SendNet DEF N!Next, N!vars
<1>6. ASSUME NEW i \in Node, Report(i) PROVE N!Next
  BY <1>1, <1>6, ReportNet DEF N!Next
<1>7. ASSUME NEW i \in Node, NEW m \in Msg, ServeOrphan(i, m) PROVE N!Next
  BY <1>1, <1>7, ServeOrphanNet DEF N!Next
<1>8. ASSUME NEW p \in Pipe, NEW w \in Worker, Take(p, w) PROVE UNCHANGED N!vars
  BY <1>1, <1>8, TakeNet DEF N!vars
<1>9. ASSUME NEW p \in Pipe, NEW w \in Worker, Serve(p, w) \/ Fail(p, w) \/ ReportFailure(p, w) PROVE N!Next
  BY <1>1, <1>9, ServeNet, FailNet, ReportFailureNet DEF N!Next
<1>10. ASSUME UNCHANGED vars PROVE UNCHANGED N!vars
  BY <1>10 DEF vars, N!vars, onItsWay, InHand, Buffered, Posted, handled, unreported, known
<1> QED BY <1>2, <1>3, <1>4, <1>5, <1>6, <1>7, <1>8, <1>9, <1>10 DEF Next

\* The loops, channels, pipelines and handlers are, to the raft cores, a net that
\* delivers a message at most once and to whom it is for, and loses none without a report
\* to its sender, for any number of workers and any bounds (peer.send, pipeline.handle).
THEOREM TransportIsNet == Spec => RefinesNet
<1>1. Init => Inv /\ Own /\ N!Init
  BY TypeInit, InitOnce, InitOwn, InitNet DEF Inv
<1>2. Inv /\ Own /\ [Next]_vars => Inv' /\ Own' /\ [N!Next]_(N!vars)
  BY NextInv, NextOwn, NextApart, NextNet
<1> QED BY <1>1, <1>2, PTL DEF Spec, RefinesNet, N!Spec
=============================================================================
