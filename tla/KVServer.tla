------------------------------ MODULE KVServer ------------------------------
(***************************************************************************)
(* The goroutines of one server above its raft core: startRaft and         *)
(* serveChannels, the goroutine that proposes, readCommits of the store,   *)
(* main, the raft HTTP server, the event loop of the node as far as these  *)
(* wait for it, and clients.  They share unbuffered channels: a send is a  *)
(* step of both ends.  What the core commits is taken as it comes.         *)
(***************************************************************************)
EXTENDS Integers, Sequences

CONSTANTS Key,          \* an entry of the log that is a key is a put of it
          Client,       \* handlers of client requests
          MaxLog,       \* bounds how many entries are committed
          MaxReady      \* how many entries fit in the CommittedEntries of a Ready

ASSUME KVAssumption ==
  /\ Key \cap {"empty", "ConfChange", "RemoveSelf"} = {}
  /\ MaxLog \in Nat /\ MaxReady \in Nat

VARIABLES log,          \* the committed entries
          appliedIndex,
          app,          \* startRaft, then serveChannels: where it is, and in publishEntries
                        \* the next entry to look at and the last one
          loop,         \* node.run: at its select, or sending on confstatec
          handed,       \* advancec is open: a Ready has been taken
          closed,       \* the channels that are closed
          store,        \* readCommits: where it is, and the next and last entry of its batch
          data,         \* the map: which entry's value a key holds, or 0
          proposer,     \* the goroutine of serveChannels that proposes
          client,       \* handleDataRequest of each client
          main          \* main, and with it the process

vars == <<log, appliedIndex, app, loop, handed, closed, store, data, proposer, client, main>>

\* Entries that are not puts: a leader's empty one, a change of the configuration
\* and the one that removes this server.
ConfChanges == {"ConfChange", "RemoveSelf"}
Other == {"empty"} \cup ConfChanges

Init ==
  /\ log = <<>>
  /\ appliedIndex = 0
  /\ app = [pc |-> "starting", at |-> 0, hi |-> 0]
  /\ loop = "select"
  /\ handed = FALSE
  /\ closed = {}
  /\ store = [pc |-> "none", at |-> 0, hi |-> 0]
  /\ data = [k \in Key |-> 0]
  /\ proposer = "none"
  /\ client = [c \in Client |-> "idle"]
  /\ main = "starting"

Alive == main # "exited"
At(pc) == Alive /\ app.pc = pc
Goes(pc) == app' = [app EXCEPT !.pc = pc]
Closes(c) == closed' = closed \cup {c}

\* The event loop is at its select.
Selects == loop = "select" /\ "done" \notin closed
-----------------------------------------------------------------------------
(* Start *)

\* startRaft signals that replay has finished, on a channel with room for it, and
\* goes on to build the node.
SnapshotterReady ==
  /\ At("starting")
  /\ Goes("building")
  /\ UNCHANGED <<log, appliedIndex, loop, handed, closed, store, data, proposer, client, main>>

\* The node and the transport are there: go serveRaftHttp(), go serveChannels().
StartRaft ==
  /\ At("building")
  /\ Goes("select")
  /\ proposer' = "select"
  /\ UNCHANGED <<log, appliedIndex, loop, handed, closed, store, data, client, main>>

\* main has the snapshotter, makes the store, which reads commits, and serves.
ServeKV ==
  /\ main = "starting" /\ app.pc # "starting"
  /\ main' = "serving"
  /\ store' = [store EXCEPT !.pc = "range"]
  /\ UNCHANGED <<log, appliedIndex, app, loop, handed, closed, data, proposer, client>>
-----------------------------------------------------------------------------
(* The Ready cycle *)

\* The core commits an entry in a step of the event loop.
Commit(e) ==
  /\ Alive /\ app.pc \notin {"starting", "building"}
  /\ Selects
  /\ Len(log) < MaxLog
  /\ log' = Append(log, e)
  /\ UNCHANGED <<appliedIndex, app, loop, handed, closed, store, data, proposer, client, main>>

\* How many entries a Ready carries: always from the first, as nothing is ever
\* accepted as applying, and as many as maxApplyingEntsSize allows.
nextCommittedEnts == IF Len(log) < MaxReady THEN Len(log) ELSE MaxReady

\* An off-by-one in the comparison with len(ents)
entriesToApplyButLast(n) == IF appliedIndex + 1 < n THEN n ELSE appliedIndex

\* The last entry to publish of a Ready with entries 1 to n, or none after appliedIndex
entriesToApply(n) == IF appliedIndex < n THEN n ELSE appliedIndex

\* readyc <- rd
TakeReady ==
  /\ At("select") /\ Selects /\ ~ handed
  /\ handed' = TRUE
  /\ app' = [pc |-> "publish", at |-> appliedIndex + 1, hi |-> entriesToApply(nextCommittedEnts)]
  /\ UNCHANGED <<log, appliedIndex, loop, closed, store, data, proposer, client, main>>

\* A round of the loop in publishEntries: a put goes into the batch, which is the puts
\* of appliedIndex + 1 to app.hi, and an empty entry is ignored.
PublishEntry ==
  /\ At("publish") /\ app.at <= app.hi
  /\ log[app.at] \notin ConfChanges
  /\ app' = [app EXCEPT !.at = @ + 1]
  /\ UNCHANGED <<log, appliedIndex, loop, handed, closed, store, data, proposer, client, main>>

\* A configuration change: ApplyConfChange sends on confc ...
ApplyConfChange ==
  /\ At("publish") /\ app.at <= app.hi
  /\ log[app.at] \in ConfChanges
  /\ Selects
  /\ loop' = "confstatec"
  /\ Goes("confstatec")
  /\ UNCHANGED <<log, appliedIndex, handed, closed, store, data, proposer, client, main>>

\* The call does not read confstatec.
ConfStateUnread ==
  /\ At("confstatec") /\ loop = "confstatec"
  /\ app' = [app EXCEPT !.pc = "publish", !.at = @ + 1]
  /\ UNCHANGED <<log, appliedIndex, loop, handed, closed, store, data, proposer, client, main>>

\* ... and reads confstatec. A server that finds itself removed stops at once,
\* with what the batch has so far.
ConfState ==
  /\ At("confstatec") /\ loop = "confstatec"
  /\ loop' = "select"
  /\ app' = IF log[app.at] = "RemoveSelf" THEN [app EXCEPT !.pc = "stop"]
            ELSE [app EXCEPT !.pc = "publish", !.at = @ + 1]
  /\ UNCHANGED <<log, appliedIndex, handed, closed, store, data, proposer, client, main>>

HasData == \E i \in appliedIndex + 1 .. app.hi : log[i] \in Key

\* ents[0].Index
appliedAfterFirst == IF app.hi > appliedIndex THEN appliedIndex + 1 ELSE appliedIndex

\* rn.appliedIndex = ents[len(ents)-1].Index, unless ents is empty
appliedAfter == app.hi

\* The batch goes to readCommits, if there is one.
Publish ==
  /\ At("publish") /\ app.at > app.hi
  /\ IF HasData
     THEN store.pc = "range" /\ store' = [pc |-> "apply", at |-> appliedIndex + 1, hi |-> app.hi]
     ELSE UNCHANGED store
  /\ appliedIndex' = appliedAfter
  /\ Goes("advance")
  /\ UNCHANGED <<log, loop, handed, closed, data, proposer, client, main>>

Advance ==
  /\ At("advance") /\ Selects /\ handed
  /\ handed' = FALSE
  /\ Goes("select")
  /\ UNCHANGED <<log, appliedIndex, loop, closed, store, data, proposer, client, main>>
-----------------------------------------------------------------------------
(* The end.  The cases on stopc, in serveChannels and in publishEntries, are *)
(* left out: ClosedOK says that stopc is open for as long as these select.       *)

\* reportCriticalError of a pipeline worker sends on ErrorC, if serveChannels selects.
Fails ==
  /\ At("select")
  /\ Goes("fail")
  /\ UNCHANGED <<log, appliedIndex, loop, handed, closed, store, data, proposer, client, main>>

\* stopHTTP, of stop and of writeError, closes httpstopc ...
StopHTTP ==
  /\ At("stop") \/ At("fail")
  /\ Closes("httpstopc")
  /\ Goes(IF app.pc = "stop" THEN "stopping" ELSE "failing")
  /\ UNCHANGED <<log, appliedIndex, loop, handed, store, data, proposer, client, main>>

\* ... which makes Accept and so Serve of the raft HTTP server return ...
ServeRaftHttpEnds ==
  /\ Alive
  /\ "httpstopc" \in closed /\ "httpdonec" \notin closed
  /\ Closes("httpdonec")
  /\ UNCHANGED <<log, appliedIndex, app, loop, handed, store, data, proposer, client, main>>

\* ... and waits for it. stop goes on with close(rn.commitC), close(rn.errorC) ...
CloseCommitC ==
  /\ At("stopping") /\ "httpdonec" \in closed
  /\ Closes("commitC")
  /\ Goes("closing")
  /\ UNCHANGED <<log, appliedIndex, loop, handed, store, data, proposer, client, main>>

\* stop without close(rn.errorC)
CloseErrorCNot ==
  /\ At("closing")
  /\ Goes("stopNode")
  /\ UNCHANGED <<log, appliedIndex, loop, handed, closed, store, data, proposer, client, main>>

CloseErrorC ==
  /\ At("closing")
  /\ Closes("errorC")
  /\ Goes("stopNode")
  /\ UNCHANGED <<log, appliedIndex, loop, handed, store, data, proposer, client, main>>

\* ... and node.Stop().
StopNode ==
  /\ At("stopNode") /\ Selects
  /\ Closes("done")
  /\ Goes("returned")
  /\ UNCHANGED <<log, appliedIndex, loop, handed, store, data, proposer, client, main>>

\* writeError: rn.errorC <- err. main receives it, as readCommits does not wait for it
\* until commitC is closed, and calls log.Fatal. What writeError does after it is lost.
SendError ==
  /\ At("failing") /\ "httpdonec" \in closed
  /\ main = "serving"
  /\ main' = "exited"
  /\ UNCHANGED <<log, appliedIndex, app, loop, handed, closed, store, data, proposer, client>>

\* main finds errorC closed and returns: its deferred calls close confChangeC, then
\* proposeC, and the process ends.
MainReturns ==
  /\ main = "serving" /\ "errorC" \in closed
  /\ main' = "returning"
  /\ Closes("confChangeC")
  /\ UNCHANGED <<log, appliedIndex, app, loop, handed, store, data, proposer, client>>

CloseProposeC ==
  /\ main = "returning" /\ "proposeC" \notin closed
  /\ Closes("proposeC")
  /\ UNCHANGED <<log, appliedIndex, app, loop, handed, store, data, proposer, client, main>>

Exit ==
  /\ main = "returning" /\ "proposeC" \in closed
  /\ main' = "exited"
  /\ UNCHANGED <<log, appliedIndex, app, loop, handed, closed, store, data, proposer, client>>
-----------------------------------------------------------------------------
(* readCommits *)

Put(d, i) == [k \in Key |-> IF log[i] = k THEN i ELSE d[k]]

\* s.data[dataKv.Key] = dataKv.Val, for each put of the batch
ApplyNext ==
  /\ Alive /\ store.pc = "apply" /\ store.at <= store.hi
  /\ data' = Put(data, store.at)
  /\ store' = [store EXCEPT !.at = @ + 1]
  /\ UNCHANGED <<log, appliedIndex, app, loop, handed, closed, proposer, client, main>>

\* The same while Lookup reads the map, without a lock: the runtime may end the process.
ApplyRaces ==
  /\ Alive /\ store.pc = "apply" /\ store.at <= store.hi
  /\ log[store.at] \in Key
  /\ \E c \in Client : client[c] = "reading"
  /\ main' = "exited"
  /\ UNCHANGED <<log, appliedIndex, app, loop, handed, closed, store, data, proposer, client>>

\* close(commit.applyDoneC), which nobody reads
ApplyDone ==
  /\ Alive /\ store.pc = "apply" /\ store.at > store.hi
  /\ store' = [store EXCEPT !.pc = "range"]
  /\ UNCHANGED <<log, appliedIndex, app, loop, handed, closed, data, proposer, client, main>>

\* commitC is closed, then errorC.
CommitsEnd ==
  /\ Alive
  /\ \/ store.pc = "range" /\ "commitC" \in closed /\ store' = [store EXCEPT !.pc = "errorC"]
     \/ store.pc = "errorC" /\ "errorC" \in closed /\ store' = [store EXCEPT !.pc = "returned"]
  /\ UNCHANGED <<log, appliedIndex, app, loop, handed, closed, data, proposer, client, main>>
-----------------------------------------------------------------------------
(* Clients and proposals *)

Serving == main \in {"serving", "returning"}

Request(c) ==
  /\ Serving /\ client[c] = "idle"
  /\ \E does \in {"sending", "reading"} : client' = [client EXCEPT ![c] = does]
  /\ UNCHANGED <<log, appliedIndex, app, loop, handed, closed, store, data, proposer, main>>

\* The answer to a GET, or the end of a PUT whose send finds proposeC closed, a panic
\* that net/http recovers
Answer(c) ==
  /\ Serving
  /\ client[c] = "reading" \/ (client[c] = "sending" /\ "proposeC" \in closed)
  /\ client' = [client EXCEPT ![c] = "idle"]
  /\ UNCHANGED <<log, appliedIndex, app, loop, handed, closed, store, data, proposer, main>>

\* s.proposeC <- buf.String(): the handler answers 204, the proposer calls Propose.
TakePut(c) ==
  /\ Serving /\ client[c] = "sending" /\ "proposeC" \notin closed
  /\ proposer = "select"
  /\ client' = [client EXCEPT ![c] = "idle"]
  /\ proposer' = "proposing"
  /\ UNCHANGED <<log, appliedIndex, app, loop, handed, closed, store, data, main>>

\* With a leader propc takes the proposal. Propose then waits for a result that nobody
\* can send: the channel for it is made after the proposal was passed by value.
Accepted ==
  /\ Alive /\ proposer = "proposing" /\ Selects
  /\ proposer' = "waiting"
  /\ UNCHANGED <<log, appliedIndex, app, loop, handed, closed, store, data, client, main>>

\* Propose returns ErrStopped.
ProposeStops ==
  /\ Alive /\ proposer \in {"proposing", "waiting"} /\ "done" \in closed
  /\ proposer' = "select"
  /\ UNCHANGED <<log, appliedIndex, app, loop, handed, closed, store, data, client, main>>

\* Either channel is closed: close(rn.stopc).
ProposerEnds ==
  /\ Alive /\ proposer = "select" /\ closed \cap {"proposeC", "confChangeC"} # {}
  /\ proposer' = "ended"
  /\ Closes("stopc")
  /\ UNCHANGED <<log, appliedIndex, app, loop, handed, store, data, client, main>>

Exited == main = "exited" /\ UNCHANGED vars
-----------------------------------------------------------------------------
App ==
  \/ SnapshotterReady \/ StartRaft
  \/ PublishEntry \/ ApplyConfChange \/ ConfState \/ Publish \/ Advance
  \/ StopHTTP \/ CloseCommitC \/ CloseErrorC \/ StopNode \/ SendError

Main == ServeKV \/ MainReturns \/ CloseProposeC \/ Exit
Store == ApplyNext \/ ApplyDone \/ CommitsEnd
Proposer == ProposeStops \/ ProposerEnds

Next ==
  \/ \E e \in Key \cup Other : Commit(e)
  \/ TakeReady \/ Fails
  \/ App \/ Main \/ Store \/ Proposer
  \/ ServeRaftHttpEnds
  \/ ApplyRaces
  \/ \E c \in Client : Request(c) \/ Answer(c) \/ TakePut(c)
  \/ Accepted
  \/ Exited

\* Every goroutine runs on while nothing holds it up. None of the steps that wait for
\* the event loop waits long: it is back at its select as soon as confstatec is read.
Fairness == WF_vars(App) /\ WF_vars(Main) /\ WF_vars(Store) /\ WF_vars(Proposer) /\ WF_vars(ServeRaftHttpEnds)

Spec == Init /\ [][Next]_vars /\ Fairness
-----------------------------------------------------------------------------
Cycle    == {"publish", "confstatec", "advance"}
Stopping == {"stop", "stopping", "closing", "stopNode", "returned"}
Failing  == {"fail", "failing"}

\* How many entries have taken effect: all that were published, but for what
\* readCommits has before it.
Stored == IF store.pc = "apply" THEN store.at - 1 ELSE appliedIndex

\* The two loops are in step: advancec is open exactly while the application has a
\* Ready, and confstatec is sent while it waits for it. What a Ready covers is published once.
AppOK ==
  /\ app \in [pc : {"starting", "building", "select"} \cup Cycle \cup Stopping \cup Failing, at : Nat, hi : Nat]
  /\ loop \in {"select", "confstatec"} /\ handed \in BOOLEAN
  /\ loop = "confstatec" => app.pc = "confstatec"
  /\ app.pc \in Cycle => handed
  /\ handed => app.pc \in Cycle \cup Stopping
  /\ app.pc \in {"publish", "confstatec"} => app.at \in appliedIndex + 1 .. app.hi + 1 /\ app.hi \in appliedIndex .. Len(log)
  /\ app.pc = "confstatec" => app.at <= app.hi

\* What readCommits has before it is what was published last, but for entries that are
\* no puts, and the map holds committed values.
StoreOK ==
  /\ store \in [pc : {"none", "range", "apply", "errorC", "returned"}, at : Nat, hi : Nat]
  /\ store.pc = "apply" => /\ store.at \in 1 .. store.hi + 1
                           /\ store.hi <= appliedIndex
                           /\ \A i \in store.hi + 1 .. appliedIndex : log[i] \notin Key
  /\ main = "starting" => store.pc = "none"
  /\ data \in [Key -> 0 .. Len(log)]

\* Nobody sends on commitC or errorC once it is closed, and stopc is open for as long as
\* serveChannels and publishEntries select on it: main returns only when they are done.
ClosedOK ==
  /\ closed \subseteq {"httpstopc", "httpdonec", "commitC", "errorC", "confChangeC", "proposeC", "stopc", "done"}
  /\ "commitC" \in closed => app.pc \in {"closing", "stopNode", "returned"}
  /\ "errorC" \in closed => app.pc \in {"stopNode", "returned"}
  /\ closed \cap {"confChangeC", "proposeC", "stopc"} # {} \/ main = "returning" => "errorC" \in closed

\* Well-formed states (serveChannels, publishEntries, readCommits, stop, main)
KVOK ==
  /\ log \in Seq(Key \cup Other)
  /\ appliedIndex \in 0 .. Len(log)
  /\ proposer \in {"none", "select", "proposing", "waiting", "ended"}
  /\ client \in [Client -> {"idle", "sending", "reading"}]
  /\ main \in {"starting", "serving", "returning", "exited"}
  /\ AppOK /\ StoreOK /\ ClosedOK

K == INSTANCE KVStore WITH applied <- Stored

\* However its batches are cut, whatever is published again with every Ready and
\* wherever it stops, the server is a replica of the log (entriesToApply,
\* publishEntries, readCommits).
RefinesStore == K!Spec

\* Once serveChannels has decided to stop or to give up, the process ends: none of
\* the goroutines that it waits for, or that must let go, waits for another.
StopEnds == app.pc \in Stopping \cup Failing ~> main = "exited"

\* Every committed entry that a Ready can carry takes effect, unless the server is
\* told to stop, as long as there is always another Ready: HasReady looks at messages
\* and not at what is committed.
ReadyFairness == WF_vars(TakeReady)
CommitsReachStore ==
  ReadyFairness =>
    \A i \in 1 .. MaxReady :
      i <= Len(log) ~> Stored >= i \/ app.pc \in Stopping \cup Failing \/ main = "exited"
=============================================================================
