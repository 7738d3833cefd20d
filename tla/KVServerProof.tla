--------------------------- MODULE KVServerProof ---------------------------
(***************************************************************************)
(* KVServer keeps KVOK and implements KVStore, for any keys, any number of *)
(* clients and any bounds.  KVOK is inductive as it stands.                *)
(***************************************************************************)
EXTENDS KVServer, TLAPS

LEMMA InitOK == Init => KVOK
<1> SUFFICES ASSUME Init PROVE KVOK
  OBVIOUS
<1>1. log \in Seq(Key \cup Other) /\ Len(log) = 0
  BY DEF Init
<1>2. AppOK
  BY DEF Init, AppOK, Cycle, Stopping, Failing
<1>3. StoreOK
  BY <1>1 DEF Init, StoreOK
<1>4. ClosedOK
  BY DEF Init, ClosedOK
<1> QED BY <1>1, <1>2, <1>3, <1>4 DEF Init, KVOK

\* A log that grows keeps what is said of its entries.
LEMMA CommitOK ==
  ASSUME KVOK, NEW e \in Key \cup Other, Commit(e)
  PROVE  KVOK'
<1>1. /\ log' \in Seq(Key \cup Other) /\ Len(log') = Len(log) + 1
      /\ \A i \in 1 .. Len(log) : log'[i] = log[i]
  BY DEF KVOK, Commit
<1>2. AppOK'
  BY <1>1 DEF KVOK, AppOK, Commit
<1>3. StoreOK'
  BY <1>1 DEF KVOK, StoreOK, Commit
<1> QED
  BY <1>1, <1>2, <1>3 DEF KVOK, ClosedOK, Commit

\* The start
LEMMA StartOK ==
  ASSUME KVOK, SnapshotterReady \/ StartRaft \/ ServeKV
  PROVE  KVOK'
<1>1. CASE SnapshotterReady
  BY <1>1 DEF KVOK, AppOK, StoreOK, ClosedOK, Cycle, Stopping, Failing, SnapshotterReady, At, Alive, Goes
<1>2. CASE StartRaft
  BY <1>2 DEF KVOK, AppOK, StoreOK, ClosedOK, Cycle, Stopping, Failing, StartRaft, At, Alive, Goes
<1>3. CASE ServeKV
  BY <1>3 DEF KVOK, AppOK, StoreOK, ClosedOK, ServeKV
<1> QED BY <1>1, <1>2, <1>3

\* The Ready cycle, but for the hand-over of a batch
LEMMA CycleOK ==
  ASSUME KVOK, TakeReady \/ PublishEntry \/ ApplyConfChange \/ ConfState \/ Advance
  PROVE  KVOK'
<1>1. CASE TakeReady
  <2>1. appliedIndex <= entriesToApply(nextCommittedEnts) /\ entriesToApply(nextCommittedEnts) <= Len(log)
        /\ entriesToApply(nextCommittedEnts) \in Nat
    BY KVAssumption DEF entriesToApply, nextCommittedEnts, KVOK
  <2> QED
    BY <1>1, <2>1 DEF KVOK, AppOK, StoreOK, ClosedOK, Cycle, Stopping, Failing, TakeReady, At, Alive
<1>2. CASE PublishEntry
  <2>1. /\ app.pc = "publish" /\ app.at \in Nat /\ app.hi \in Nat /\ app.at <= app.hi
        /\ app.at >= appliedIndex + 1 /\ appliedIndex \in Nat /\ handed
        /\ app' = [pc |-> "publish", at |-> app.at + 1, hi |-> app.hi]
    BY <1>2 DEF KVOK, AppOK, PublishEntry, At, Cycle
  <2>2. AppOK'
    BY <1>2, <2>1 DEF KVOK, AppOK, PublishEntry, Cycle, Stopping, Failing
  <2> QED
    BY <1>2, <2>1, <2>2 DEF KVOK, StoreOK, ClosedOK, PublishEntry
<1>3. CASE ApplyConfChange
  BY <1>3 DEF KVOK, AppOK, StoreOK, ClosedOK, Cycle, Stopping, Failing, ApplyConfChange, At, Alive, Goes
<1>4. CASE ConfState
  <2>1. /\ app.pc = "confstatec" /\ app.at \in Nat /\ app.hi \in Nat /\ app.at <= app.hi
        /\ app.at >= appliedIndex + 1 /\ appliedIndex \in Nat /\ handed
    BY <1>4 DEF KVOK, AppOK, ConfState, At, Cycle
  <2>2. \/ app' = [pc |-> "stop", at |-> app.at, hi |-> app.hi]
        \/ app' = [pc |-> "publish", at |-> app.at + 1, hi |-> app.hi]
    <3>1. CASE log[app.at] = "RemoveSelf"
      BY <1>4, <3>1 DEF KVOK, AppOK, ConfState
    <3>2. CASE log[app.at] # "RemoveSelf"
      BY <1>4, <3>2 DEF KVOK, AppOK, ConfState
    <3> QED BY <3>1, <3>2
  <2>3. AppOK'
    BY <1>4, <2>1, <2>2 DEF KVOK, AppOK, ConfState, Cycle, Stopping, Failing
  <2> QED
    BY <1>4, <2>1, <2>2, <2>3 DEF KVOK, StoreOK, ClosedOK, ConfState
<1>5. CASE Advance
  BY <1>5 DEF KVOK, AppOK, StoreOK, ClosedOK, Cycle, Stopping, Failing, Advance, At, Alive, Goes
<1> QED BY <1>1, <1>2, <1>3, <1>4, <1>5

\* A batch is handed over only to a readCommits that has none, and what is published
\* beside a batch has no put.
LEMMA PublishOK ==
  ASSUME KVOK, Publish
  PROVE  KVOK'
<1>1. appliedIndex' = app.hi /\ app.hi \in appliedIndex .. Len(log) /\ app' = [app EXCEPT !.pc = "advance"]
  BY DEF KVOK, AppOK, Publish, At, appliedAfter, Goes
<1>2. AppOK'
  BY <1>1 DEF KVOK, AppOK, Cycle, Stopping, Failing, Publish, At
<1>3. StoreOK'
  <2>1. CASE HasData
    BY <1>1, <2>1 DEF KVOK, AppOK, StoreOK, Publish
  <2>2. CASE ~ HasData
    BY <1>1, <2>2 DEF KVOK, AppOK, StoreOK, Publish, HasData
  <2> QED BY <2>1, <2>2
<1> QED
  BY <1>1, <1>2, <1>3 DEF KVOK, ClosedOK, Publish, At

\* stop and writeError
LEMMA EndOK ==
  ASSUME KVOK,
         Fails \/ StopHTTP \/ ServeRaftHttpEnds \/ CloseCommitC \/ CloseErrorC \/ StopNode \/ SendError
  PROVE  KVOK'
<1>1. CASE Fails
  BY <1>1 DEF KVOK, AppOK, StoreOK, ClosedOK, Cycle, Stopping, Failing, Fails, At, Alive, Goes
<1>2. CASE StopHTTP
  BY <1>2 DEF KVOK, AppOK, StoreOK, ClosedOK, Cycle, Stopping, Failing, StopHTTP, At, Alive, Goes, Closes
<1>3. CASE ServeRaftHttpEnds
  BY <1>3 DEF KVOK, AppOK, StoreOK, ClosedOK, ServeRaftHttpEnds, Closes
<1>4. CASE CloseCommitC
  BY <1>4 DEF KVOK, AppOK, StoreOK, ClosedOK, Cycle, Stopping, Failing, CloseCommitC, At, Alive, Goes, Closes
<1>5. CASE CloseErrorC
  BY <1>5 DEF KVOK, AppOK, StoreOK, ClosedOK, Cycle, Stopping, Failing, CloseErrorC, At, Alive, Goes, Closes
<1>6. CASE StopNode
  BY <1>6 DEF KVOK, AppOK, StoreOK, ClosedOK, Cycle, Stopping, Failing, StopNode, At, Alive, Goes, Closes
<1>7. CASE SendError
  BY <1>7 DEF KVOK, AppOK, StoreOK, ClosedOK, SendError, At
<1> QED BY <1>1, <1>2, <1>3, <1>4, <1>5, <1>6, <1>7

\* main, whose deferred calls close what the proposer reads
LEMMA MainOK ==
  ASSUME KVOK, MainReturns \/ CloseProposeC \/ Exit \/ ApplyRaces
  PROVE  KVOK'
<1>1. CASE MainReturns
  BY <1>1 DEF KVOK, AppOK, StoreOK, ClosedOK, MainReturns, Closes
<1>2. CASE CloseProposeC
  BY <1>2 DEF KVOK, AppOK, StoreOK, ClosedOK, CloseProposeC, Closes
<1>3. CASE Exit
  BY <1>3 DEF KVOK, AppOK, StoreOK, ClosedOK, Exit
<1>4. CASE ApplyRaces
  BY <1>4 DEF KVOK, AppOK, StoreOK, ClosedOK, ApplyRaces
<1> QED BY <1>1, <1>2, <1>3, <1>4

\* readCommits
LEMMA ReadCommitsOK ==
  ASSUME KVOK, ApplyNext \/ ApplyDone \/ CommitsEnd
  PROVE  KVOK'
<1>1. CASE ApplyNext
  <2>1. store.at \in 0 .. Len(log)
    BY <1>1 DEF ApplyNext, KVOK, StoreOK
  <2>2. data' \in [Key -> 0 .. Len(log)]
    BY <1>1, <2>1 DEF ApplyNext, Put, KVOK, StoreOK
  <2>3. /\ store' = [pc |-> "apply", at |-> store.at + 1, hi |-> store.hi]
        /\ store.at \in Nat /\ store.at <= store.hi /\ store.hi \in Nat
    BY <1>1 DEF ApplyNext, KVOK, StoreOK
  <2>4. /\ UNCHANGED <<log, appliedIndex, main>> /\ main # "starting" /\ store.hi <= appliedIndex
        /\ \A i \in store.hi + 1 .. appliedIndex : log[i] \notin Key
    BY <1>1 DEF ApplyNext, KVOK, StoreOK
  <2>5. store'.pc = "apply" /\ store'.at = store.at + 1 /\ store'.hi = store.hi
    BY <2>3
  <2>6. store' \in [pc : {"none", "range", "apply", "errorC", "returned"}, at : Nat, hi : Nat]
    BY <2>3
  <2>7. store'.at \in 1 .. store'.hi + 1
    BY <2>3, <2>5
  <2>8. StoreOK'
    BY <2>2, <2>4, <2>5, <2>6, <2>7 DEF StoreOK
  <2> QED
    BY <1>1, <2>8 DEF ApplyNext, KVOK, AppOK, ClosedOK
<1>2. CASE ApplyDone
  BY <1>2 DEF KVOK, AppOK, StoreOK, ClosedOK, ApplyDone
<1>3. CASE CommitsEnd
  BY <1>3 DEF KVOK, AppOK, StoreOK, ClosedOK, CommitsEnd
<1> QED BY <1>1, <1>2, <1>3

\* Clients and the proposer, which closes stopc only when main has returned
LEMMA ClientsOK ==
  ASSUME KVOK,
         \/ \E c \in Client : Request(c) \/ Answer(c) \/ TakePut(c)
         \/ Accepted \/ ProposeStops \/ ProposerEnds
  PROVE  KVOK'
<1>1. CASE \E c \in Client : Request(c) \/ Answer(c) \/ TakePut(c)
  <2>1. /\ UNCHANGED <<log, appliedIndex, app, loop, handed, closed, store, data, main>>
        /\ proposer' \in {proposer, "proposing"}
        /\ client' \in [Client -> {"idle", "sending", "reading"}]
    BY <1>1 DEF Request, Answer, TakePut, KVOK
  <2> QED BY <2>1 DEF KVOK, AppOK, StoreOK, ClosedOK
<1>2. CASE Accepted
  BY <1>2 DEF KVOK, AppOK, StoreOK, ClosedOK, Accepted
<1>3. CASE ProposeStops
  BY <1>3 DEF KVOK, AppOK, StoreOK, ClosedOK, ProposeStops
<1>4. CASE ProposerEnds
  BY <1>4 DEF KVOK, AppOK, StoreOK, ClosedOK, ProposerEnds, Closes
<1> QED BY <1>1, <1>2, <1>3, <1>4

LEMMA StepOK == KVOK /\ [Next]_vars => KVOK'
<1> SUFFICES ASSUME KVOK, [Next]_vars PROVE KVOK'
  OBVIOUS
<1>1. CASE UNCHANGED vars
  BY <1>1 DEF vars, KVOK, AppOK, StoreOK, ClosedOK
<1>2. CASE Next
  <2>1. CASE \E e \in Key \cup Other : Commit(e)
    BY <2>1, CommitOK
  <2>2. CASE App
    BY <2>2, StartOK, CycleOK, PublishOK, EndOK DEF App
  <2>3. CASE Main
    BY <2>3, StartOK, MainOK DEF Main
  <2>4. CASE Store \/ Proposer
    BY <2>4, ReadCommitsOK, ClientsOK DEF Store, Proposer
  <2>5. CASE TakeReady \/ Fails \/ ServeRaftHttpEnds \/ ApplyRaces \/ Accepted
    BY <2>5, CycleOK, EndOK, MainOK, ClientsOK
  <2>6. CASE \E c \in Client : Request(c) \/ Answer(c) \/ TakePut(c)
    BY <2>6, ClientsOK
  <2>7. CASE Exited
    BY <2>7 DEF Exited, vars, KVOK, AppOK, StoreOK, ClosedOK
  <2> QED BY <1>2, <2>1, <2>2, <2>3, <2>4, <2>5, <2>6, <2>7 DEF Next
<1> QED BY <1>1, <1>2

\* The loops of a server are in step, what a Ready covers is published once, and no
\* channel is used once it is closed: serveChannels, publishEntries, stop, main.
THEOREM ServerStaysOK == Spec => []KVOK
<1> QED BY InitOK, StepOK, PTL DEF Spec
-----------------------------------------------------------------------------
(* The refinement *)

\* A step that changes neither the log, nor the map, nor what has taken effect
LEMMA Stutter ==
  ASSUME UNCHANGED <<log, data>>, Stored' = Stored
  PROVE  [K!Next]_(K!vars)
BY DEF K!vars

\* Stored leaps over entries that are no puts: a batch is done, or a Ready had none.
LEMMA Leap ==
  ASSUME KVOK, UNCHANGED <<log, data>>,
         NEW s \in Nat, NEW t \in s .. Len(log), Stored = s, Stored' = t,
         \A i \in s + 1 .. t : log[i] \notin Key
  PROVE  [K!Next]_(K!vars)
<1>1. CASE t = s
  BY <1>1, Stutter
<1>2. CASE t # s
  <2>1. t \in s + 1 .. Len(log) /\ t \in Nat
    BY <1>2 DEF KVOK
  <2>2. data' = [k \in Key |-> IF log[t] = k THEN t ELSE data[k]]
    BY <2>1 DEF KVOK, StoreOK
  <2>3. \A i \in s + 1 .. t - 1 : log[i] \notin Key
    BY <2>1
  <2>4. K!Apply
    BY <2>1, <2>2, <2>3 DEF K!Apply
  <2> QED BY <2>4 DEF K!Next
<1> QED BY <1>1, <1>2

\* What moves neither the log, nor the map, nor the reader of commits nor appliedIndex
LEMMA StutterSteps ==
  ASSUME UNCHANGED <<log, data, store, appliedIndex>>
  PROVE  [K!Next]_(K!vars)
<1>1. Stored' = Stored
  BY DEF Stored
<1> QED BY <1>1, Stutter

LEMMA PublishLeaps ==
  ASSUME KVOK, Publish
  PROVE  [K!Next]_(K!vars)
<1>1. appliedIndex \in Nat /\ appliedIndex' = app.hi /\ app.hi \in appliedIndex .. Len(log)
  BY DEF KVOK, AppOK, Publish, At, appliedAfter
<1>2. UNCHANGED <<log, data>>
  BY DEF Publish
<1>3. CASE HasData
  <2>1. Stored' = appliedIndex /\ Stored = appliedIndex
    BY <1>1, <1>3 DEF Publish, Stored
  <2> QED BY <1>2, <2>1, Stutter
<1>4. CASE ~ HasData /\ store.pc = "apply"
  <2>1. Stored' = Stored
    BY <1>4 DEF Publish, Stored
  <2> QED BY <1>2, <2>1, Stutter
<1>5. CASE ~ HasData /\ store.pc # "apply"
  <2>1. Stored' = app.hi /\ Stored = appliedIndex
    BY <1>1, <1>5 DEF Publish, Stored
  <2> QED BY <1>1, <1>2, <1>5, <2>1, Leap DEF HasData
<1> QED BY <1>3, <1>4, <1>5

LEMMA ReadCommitsApplies ==
  ASSUME KVOK, ApplyNext \/ ApplyDone \/ CommitsEnd
  PROVE  [K!Next]_(K!vars)
<1>1. CASE ApplyNext
  <2>1. /\ store.at \in Nat /\ store.at \in 1 .. Len(log)
        /\ store'.pc = "apply" /\ store'.at = store.at + 1 /\ store.pc = "apply"
    BY <1>1 DEF ApplyNext, KVOK, StoreOK
  <2>2. Stored = store.at - 1 /\ Stored' = store.at
    BY <2>1 DEF Stored
  <2>3. data' = [k \in Key |-> IF log[store.at] = k THEN store.at ELSE data[k]] /\ log' = log
    BY <1>1 DEF ApplyNext, Put
  <2>4. K!Apply
    BY <2>1, <2>2, <2>3 DEF K!Apply
  <2> QED BY <2>4 DEF K!Next
<1>2. CASE ApplyDone
  <2>1. /\ store.at = store.hi + 1 /\ store.hi \in 0 .. appliedIndex /\ store.hi \in Nat
        /\ \A i \in store.hi + 1 .. appliedIndex : log[i] \notin Key
        /\ appliedIndex \in 0 .. Len(log)
    BY <1>2 DEF ApplyDone, KVOK, StoreOK
  <2>2. Stored = store.hi /\ Stored' = appliedIndex /\ UNCHANGED <<log, data>>
    BY <1>2, <2>1 DEF ApplyDone, Stored, KVOK, StoreOK
  <2> QED BY <2>1, <2>2, Leap
<1>3. CASE CommitsEnd
  <2>1. Stored' = Stored /\ UNCHANGED <<log, data>>
    BY <1>3 DEF CommitsEnd, Stored, KVOK, StoreOK
  <2> QED BY <2>1, Stutter
<1> QED BY <1>1, <1>2, <1>3

LEMMA Refines == KVOK /\ [Next]_vars => [K!Next]_(K!vars)
<1> SUFFICES ASSUME KVOK, [Next]_vars PROVE [K!Next]_(K!vars)
  OBVIOUS
<1>1. CASE \E e \in Key \cup Other : Commit(e)
  <2>1. K!Commit
    BY <1>1 DEF Commit, K!Commit, Stored
  <2> QED BY <2>1 DEF K!Next
<1>2. CASE Publish
  BY <1>2, PublishLeaps
<1>3. CASE Store
  BY <1>3, ReadCommitsApplies DEF Store
<1>4. CASE ServeKV
  <2>1. Stored' = Stored /\ UNCHANGED <<log, data>>
    BY <1>4 DEF ServeKV, Stored, KVOK, StoreOK
  <2> QED BY <2>1, Stutter
<1>5. CASE UNCHANGED <<log, data, store, appliedIndex>>
  BY <1>5, StutterSteps
<1>6. CASE App /\ ~ Publish
  <2>1. UNCHANGED <<log, data, store, appliedIndex>>
    BY <1>6 DEF App, SnapshotterReady, StartRaft, PublishEntry, ApplyConfChange, ConfState, Advance,
                StopHTTP, CloseCommitC, CloseErrorC, StopNode, SendError
  <2> QED BY <2>1, StutterSteps
<1>7. CASE Main /\ ~ ServeKV
  BY <1>5, <1>7 DEF Main, MainReturns, CloseProposeC, Exit
<1>8. CASE Proposer \/ TakeReady \/ Fails \/ ServeRaftHttpEnds \/ ApplyRaces \/ Accepted
  BY <1>5, <1>8 DEF Proposer, ProposeStops, ProposerEnds, TakeReady, Fails, ServeRaftHttpEnds, ApplyRaces, Accepted
<1>9. CASE \E c \in Client : Request(c) \/ Answer(c) \/ TakePut(c)
  BY <1>5, <1>9 DEF Request, Answer, TakePut
<1>10. CASE Exited \/ UNCHANGED vars
  BY <1>5, <1>10 DEF Exited, vars
<1> QED
  BY <1>1, <1>2, <1>3, <1>4, <1>6, <1>7, <1>8, <1>9, <1>10 DEF Next

\* However the core commits, cuts its Readys and repeats them, and wherever the server
\* stops, its map is what the committed puts make of it, each once and in log order.
THEOREM ServerIsReplica == Spec => RefinesStore
<1>1. Init => K!Init
  BY DEF Init, K!Init, Stored
<1> QED
  BY <1>1, ServerStaysOK, Refines, PTL DEF Spec, RefinesStore, K!Spec

LEMMA StoredTyped == KVOK => Stored \in 0 .. Len(log) /\ Len(log) \in Nat
BY DEF KVOK, StoreOK, Stored

LEMMA CurrentStep ==
  ASSUME KVOK, K!Current, [K!Next]_(K!vars)
  PROVE  K!Current'
<1>1. Stored \in Nat /\ Stored <= Len(log) /\ Len(log) \in Nat
  BY StoredTyped
<1>2. CASE UNCHANGED K!vars
  BY <1>2 DEF K!vars, K!Current
<1>3. CASE K!Commit
  <2>1. \A i \in 1 .. Len(log) : log'[i] = log[i]
    BY <1>3 DEF K!Commit, KVOK
  <2>2. Stored' = Stored /\ data' = data
    BY <1>3 DEF K!Commit
  <2>3. \A k \in Key : data[k] \in Nat
    BY DEF KVOK, StoreOK
  <2> SUFFICES ASSUME NEW k \in Key
               PROVE  /\ data[k] \in 0 .. Stored
                      /\ data[k] > 0 => log'[data[k]] = k
                      /\ \A i \in data[k] + 1 .. Stored : log'[i] # k
    BY <2>2 DEF K!Current
  <2>4. data[k] \in 0 .. Stored /\ (data[k] > 0 => log[data[k]] = k)
    BY DEF K!Current
  <2>5. \A i \in data[k] + 1 .. Stored : log[i] # k
    BY DEF K!Current
  <2> QED BY <1>1, <2>1, <2>3, <2>4, <2>5
<1>4. CASE K!Apply
  <2>1. PICK n \in Stored + 1 .. Len(log) :
          /\ \A i \in Stored + 1 .. n - 1 : log[i] \notin Key
          /\ Stored' = n
          /\ data' = [k \in Key |-> IF log[n] = k THEN n ELSE data[k]]
          /\ log' = log
    BY <1>4 DEF K!Apply
  <2>2. n \in Nat /\ n > Stored
    BY <1>1, <2>1
  <2> SUFFICES ASSUME NEW k \in Key
               PROVE  /\ data'[k] \in 0 .. n
                      /\ data'[k] > 0 => log[data'[k]] = k
                      /\ \A i \in data'[k] + 1 .. n : log[i] # k
    BY <2>1 DEF K!Current
  <2>3. data[k] \in Nat /\ data[k] <= Stored /\ (data[k] > 0 => log[data[k]] = k)
        /\ \A i \in data[k] + 1 .. Stored : log[i] # k
    BY DEF K!Current
  <2>4. CASE log[n] = k
    BY <2>1, <2>2, <2>4
  <2>5. CASE log[n] # k
    <3>1. data'[k] = data[k]
      BY <2>1, <2>5
    <3>2. \A i \in data[k] + 1 .. n : i \in data[k] + 1 .. Stored \/ i \in Stored + 1 .. n - 1 \/ i = n
      BY <1>1, <2>2, <2>3
    <3> QED BY <1>1, <2>1, <2>2, <2>3, <2>5, <3>1, <3>2
  <2> QED BY <2>4, <2>5
<1> QED BY <1>2, <1>3, <1>4 DEF K!Next

\* A GET finds the last put of its key among the entries that have taken effect: no
\* batch is applied twice, out of order or in part (readCommits, Lookup).
THEOREM ServerIsCurrent == Spec => []K!Current
<1>1. Init => K!Current
  <2> SUFFICES ASSUME Init, NEW k \in Key
               PROVE  /\ data[k] \in 0 .. Stored
                      /\ data[k] > 0 => log[data[k]] = k
                      /\ \A i \in data[k] + 1 .. Stored : log[i] # k
    BY DEF K!Current
  <2>1. data[k] = 0 /\ Stored = 0
    BY DEF Init, Stored
  <2> QED BY <2>1
<1>2. KVOK /\ K!Current /\ [Next]_vars => K!Current'
  BY Refines, CurrentStep
<1> QED
  BY <1>1, <1>2, ServerStaysOK, PTL DEF Spec
=============================================================================
