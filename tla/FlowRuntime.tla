----------------------------- MODULE FlowRuntime -----------------------------
(***************************************************************************)
(* One HTTP-sourced flow of the Octo runtime, from Service.Run to the end  *)
(* of its shutdown: request handlers (connectors/http/source.go), the      *)
(* connector's table of parked requests (connectors/http/http.go), the     *)
(* flow's input channel and its workers (core/runtime/boundflow.go), the   *)
(* event bus that carries outcomes back (core/eventbus.go) and the start   *)
(* and stop sequence (core/runtime/runtime.go).                            *)
(*                                                                         *)
(* A request and the message built from it have the same name: NewMessage  *)
(* gives every message a fresh EventID, which is what the tables are keyed *)
(* on.  A step of this module is what one goroutine does between two       *)
(* points where another goroutine can see it.                              *)
(***************************************************************************)
EXTENDS Naturals, Sequences, FiniteSets

CONSTANTS Requests,      \* HTTP requests that may arrive
          Workers,       \* the flow's worker goroutines
          Buffer,        \* depth of the input channel
          HasErrorPath,  \* whether the flow declares an error: chain
          None           \* no message, no response, no result

\* The terminal outcomes of a message.
Kinds == {"completed", "dropped", "failed"}

\* The answers a handler can give; "none" is a client that left first.
Responses == {"ok", "encodeFailed", "noContent", "flowFailed", "badBody",
              "buildFailed", "unavailable", "timeout", "none"}

ASSUME RequestsAssumption == IsFiniteSet(Requests)
ASSUME WorkersAssumption == Workers # {}
ASSUME BufferAssumption == Buffer \in Nat \ {0}
ASSUME ErrorPathAssumption == HasErrorPath \in BOOLEAN
ASSUME NoneAssumption == None \notin Requests \cup Kinds \cup Responses

VARIABLES
    svc,       \* control point of Service.Run
    serving,   \* the server accepts requests
    req,       \* req[r]: control point of the handler of r
    resp,      \* resp[r]: what the handler answered
    gone,      \* requests whose client disconnected
    stopping,  \* source.stopping
    srcDone,   \* source.srcDone is closed
    sendWG,    \* counter of source.sendWG
    connDone,  \* Connector.done is closed
    subscribed,\* onFlowEvent is subscribed to the event bus
    pending,   \* requests in Connector.pending
    reply,     \* reply[r]: content of the reply channel of r (capacity one)
    in,        \* the input channel
    inClosed,  \* the input channel is closed
    wk,        \* wk[w]: control point of worker w
    msg,       \* msg[w]: the message worker w holds
    kind,      \* kind[w]: the outcome worker w is about to publish
    accepted,  \* history: messages that were put on the channel
    terminal   \* history: terminal[r] is the terminal events published for r

svcVars    == <<svc, serving>>
sourceVars == <<stopping, srcDone, sendWG>>
connVars   == <<connDone, subscribed>>
tableVars  == <<pending, reply>>
chanVars   == <<in, inClosed, accepted>>
workerVars == <<wk, msg, kind, terminal>>
reqVars    == <<req, resp, gone>>
vars == <<svcVars, sourceVars, connVars, tableVars, chanVars, workerVars, reqVars>>

\* Control points of Service.Run: up to "ready" it starts, then it stops.
SvcPoints == {"init", "connected", "ready", "refuse", "signal", "waitSends",
              "closeIn", "drain", "closeConn", "unsubscribe", "shutdown",
              "waitHandlers", "stopped"}

\* Control points of a request handler.
ReqPoints == {"idle", "reading", "acquire", "build", "sending", "release",
              "abort", "await", "done"}

\* Control points of a worker.
WorkerPoints == {"unborn", "idle", "root", "errorPath", "publish", "lookup",
                 "deliver", "exited"}

\* The responses of writeResult to each outcome; a result may fail to encode.
ResponseTo == [completed |-> {"ok", "encodeFailed"}, dropped |-> {"noContent"},
               failed |-> {"flowFailed"}]

TypeOK ==
    /\ svc \in SvcPoints
    /\ serving \in BOOLEAN /\ stopping \in BOOLEAN /\ srcDone \in BOOLEAN
    /\ connDone \in BOOLEAN /\ subscribed \in BOOLEAN /\ inClosed \in BOOLEAN
    /\ req \in [Requests -> ReqPoints]
    /\ resp \in [Requests -> Responses \cup {None}]
    /\ gone \subseteq Requests
    /\ sendWG \in Nat
    /\ pending \subseteq Requests
    /\ reply \in [Requests -> Kinds \cup {None}]
    /\ in \in Seq(Requests)
    /\ wk \in [Workers -> WorkerPoints]
    /\ msg \in [Workers -> Requests \cup {None}]
    /\ kind \in [Workers -> Kinds \cup {None}]
    /\ accepted \subseteq Requests
    /\ terminal \in [Requests -> Seq(Kinds)]

Init ==
    /\ svc = "init"
    /\ serving = FALSE
    /\ req = [r \in Requests |-> "idle"]
    /\ resp = [r \in Requests |-> None]
    /\ gone = {}
    /\ stopping = FALSE
    /\ srcDone = FALSE
    /\ sendWG = 0
    /\ connDone = FALSE
    /\ subscribed = FALSE
    /\ pending = {}
    /\ reply = [r \in Requests |-> None]
    /\ in = <<>>
    /\ inClosed = FALSE
    /\ wk = [w \in Workers |-> "unborn"]
    /\ msg = [w \in Workers |-> None]
    /\ kind = [w \in Workers |-> None]
    /\ accepted = {}
    /\ terminal = [r \in Requests |-> <<>>]

-----------------------------------------------------------------------------
(* The request handler: source.handle.                                     *)

Goto(r, point) == req' = [req EXCEPT ![r] = point]

\* Variant: the handler returns without forget.
FinishNoForget(r, answer) ==
    /\ Goto(r, "done")
    /\ resp' = [resp EXCEPT ![r] = answer]
    /\ UNCHANGED pending

\* The deferred forget and the return of the handler, with its answer.
Finish(r, answer) ==
    /\ Goto(r, "done")
    /\ resp' = [resp EXCEPT ![r] = answer]
    /\ pending' = pending \ {r}

\* The server accepts a connection and calls the handler.
Arrive(r) ==
    /\ serving
    /\ req[r] = "idle"
    /\ Goto(r, "reading")
    /\ UNCHANGED <<svcVars, sourceVars, connVars, tableVars, chanVars, workerVars, resp, gone>>

\* readBody: the body is read and checked to be JSON within its size limit.
ReadBody(r) ==
    /\ req[r] = "reading"
    /\ \/ Goto(r, "acquire") /\ UNCHANGED <<resp, pending>>
       \/ Finish(r, "badBody")
    /\ UNCHANGED <<svcVars, sourceVars, connVars, reply, chanVars, workerVars, gone>>

\* acquireSend: a send token, unless the source is stopping.
AcquireSend(r) ==
    /\ req[r] = "acquire"
    /\ \/ /\ stopping
          /\ Finish(r, "unavailable")
          /\ UNCHANGED sendWG
       \/ /\ ~stopping
          /\ sendWG' = sendWG + 1
          /\ Goto(r, "build")
          /\ UNCHANGED <<resp, pending>>
    /\ UNCHANGED <<svcVars, stopping, srcDone, connVars, reply, chanVars, workerVars, gone>>

\* Variant: the request is not parked before the send.
BuildUntracked(r) ==
    /\ req[r] = "build"
    /\ Goto(r, "sending")
    /\ UNCHANGED <<svcVars, sourceVars, connVars, tableVars, chanVars, workerVars, resp, gone>>

\* buildMessage and track: the reply channel exists before the message is sent.
BuildMessage(r) ==
    /\ req[r] = "build"
    /\ \/ /\ Goto(r, "sending")
          /\ pending' = pending \cup {r}
          /\ UNCHANGED <<resp, sendWG>>
       \/ /\ sendWG' = sendWG - 1
          /\ Finish(r, "buildFailed")
    /\ UNCHANGED <<svcVars, stopping, srcDone, connVars, reply, chanVars, workerVars, gone>>

\* send, the case that puts the message on the channel.
Send(r) ==
    /\ req[r] = "sending"
    /\ ~inClosed
    /\ Len(in) < Buffer
    /\ in' = Append(in, r)
    /\ accepted' = accepted \cup {r}
    /\ Goto(r, "release")
    /\ UNCHANGED <<svcVars, sourceVars, connVars, tableVars, inClosed, workerVars, resp, gone>>

\* send, the cases that give up: the request, the source or the connector ended.
SendAborted(r) ==
    /\ req[r] = "sending"
    /\ r \in gone \/ srcDone \/ connDone
    /\ Goto(r, "abort")
    /\ UNCHANGED <<svcVars, sourceVars, connVars, tableVars, chanVars, workerVars, resp, gone>>

\* Variant: an aborted send keeps its token.
ReleaseLeaks(r) ==
    /\ \/ /\ req[r] = "release"
          /\ sendWG' = sendWG - 1
          /\ Goto(r, "await")
          /\ UNCHANGED <<resp, pending>>
       \/ /\ req[r] = "abort"
          /\ UNCHANGED sendWG
          /\ Finish(r, "unavailable")
    /\ UNCHANGED <<svcVars, stopping, srcDone, connVars, reply, chanVars, workerVars, gone>>

\* releaseSend after send: on to awaitResult, or the 503 of an aborted send.
ReleaseSend(r) ==
    /\ sendWG' = sendWG - 1
    /\ \/ /\ req[r] = "release"
          /\ Goto(r, "await")
          /\ UNCHANGED <<resp, pending>>
       \/ /\ req[r] = "abort"
          /\ Finish(r, "unavailable")
    /\ UNCHANGED <<svcVars, stopping, srcDone, connVars, reply, chanVars, workerVars, gone>>

\* awaitResult: select picks any ready case.  The timer may fire at any time.
AwaitReply(r) ==
    /\ req[r] = "await"
    /\ reply[r] # None
    /\ \E answer \in ResponseTo[reply[r]] : Finish(r, answer)
    /\ reply' = [reply EXCEPT ![r] = None]
    /\ UNCHANGED <<svcVars, sourceVars, connVars, chanVars, workerVars, gone>>

AwaitTimeout(r) ==
    /\ req[r] = "await"
    /\ Finish(r, "timeout")
    /\ UNCHANGED <<svcVars, sourceVars, connVars, reply, chanVars, workerVars, gone>>

AwaitClientGone(r) ==
    /\ req[r] = "await"
    /\ r \in gone
    /\ Finish(r, "none")
    /\ UNCHANGED <<svcVars, sourceVars, connVars, reply, chanVars, workerVars, gone>>

AwaitConnDone(r) ==
    /\ req[r] = "await"
    /\ connDone
    /\ Finish(r, "unavailable")
    /\ UNCHANGED <<svcVars, sourceVars, connVars, reply, chanVars, workerVars, gone>>

\* The client disconnects; the server cancels the request's context.
Disconnect(r) ==
    /\ req[r] \notin {"idle", "done"}
    /\ r \notin gone
    /\ gone' = gone \cup {r}
    /\ UNCHANGED <<svcVars, sourceVars, connVars, tableVars, chanVars, workerVars, req, resp>>

Handler(r) ==
    \/ ReadBody(r) \/ AcquireSend(r) \/ BuildMessage(r)
    \/ Send(r) \/ SendAborted(r) \/ ReleaseSend(r)
    \/ AwaitReply(r) \/ AwaitTimeout(r) \/ AwaitClientGone(r) \/ AwaitConnDone(r)

-----------------------------------------------------------------------------
(* A worker of the flow: boundFlow.worker and boundFlow.handle.            *)

\* The range loop takes the next message; the started event has no listener
\* that acts on it.
Receive(w) ==
    /\ wk[w] = "idle"
    /\ in # <<>>
    /\ msg' = [msg EXCEPT ![w] = Head(in)]
    /\ in' = Tail(in)
    /\ wk' = [wk EXCEPT ![w] = "root"]
    /\ UNCHANGED <<svcVars, sourceVars, connVars, tableVars, inClosed, accepted, kind, terminal, reqVars>>

\* Variant: the worker leaves as soon as the channel is closed.
ExitWhenClosed(w) ==
    /\ wk[w] = "idle"
    /\ inClosed
    /\ wk' = [wk EXCEPT ![w] = "exited"]
    /\ UNCHANGED <<svcVars, sourceVars, connVars, tableVars, chanVars, msg, kind, terminal, reqVars>>

\* The range loop ends when the channel is closed and empty.
WorkerExit(w) ==
    /\ wk[w] = "idle"
    /\ inClosed
    /\ in = <<>>
    /\ wk' = [wk EXCEPT ![w] = "exited"]
    /\ UNCHANGED <<svcVars, sourceVars, connVars, tableVars, chanVars, msg, kind, terminal, reqVars>>

\* root.Process returns; a failure goes to the error path when there is one.
ProcessRoot(w) ==
    /\ wk[w] = "root"
    /\ \/ /\ \E k \in Kinds :
               /\ k = "failed" => ~HasErrorPath
               /\ kind' = [kind EXCEPT ![w] = k]
          /\ wk' = [wk EXCEPT ![w] = "publish"]
       \/ /\ HasErrorPath
          /\ wk' = [wk EXCEPT ![w] = "errorPath"]
          /\ UNCHANGED kind
    /\ UNCHANGED <<svcVars, sourceVars, connVars, tableVars, chanVars, msg, terminal, reqVars>>

\* errorPath.Process returns; its outcome replaces the failure.
ProcessErrorPath(w) ==
    /\ wk[w] = "errorPath"
    /\ \E k \in Kinds : kind' = [kind EXCEPT ![w] = k]
    /\ wk' = [wk EXCEPT ![w] = "publish"]
    /\ UNCHANGED <<svcVars, sourceVars, connVars, tableVars, chanVars, msg, terminal, reqVars>>

\* The worker is done with its message.
Rest(w) ==
    /\ wk' = [wk EXCEPT ![w] = "idle"]
    /\ msg' = [msg EXCEPT ![w] = None]
    /\ kind' = [kind EXCEPT ![w] = None]

\* EventBus.Publish copies the subscribers under the lock, then calls them.
PublishTerminal(w) ==
    /\ wk[w] = "publish"
    /\ terminal' = [terminal EXCEPT ![msg[w]] = Append(@, kind[w])]
    /\ \/ /\ subscribed
          /\ wk' = [wk EXCEPT ![w] = "lookup"]
          /\ UNCHANGED <<msg, kind>>
       \/ /\ ~subscribed
          /\ Rest(w)
    /\ UNCHANGED <<svcVars, sourceVars, connVars, tableVars, chanVars, reqVars>>

\* onFlowEvent finds the reply channel under the lock ...
LookupReply(w) ==
    /\ wk[w] = "lookup"
    /\ \/ /\ msg[w] \in pending
          /\ wk' = [wk EXCEPT ![w] = "deliver"]
          /\ UNCHANGED <<msg, kind>>
       \/ /\ msg[w] \notin pending
          /\ Rest(w)
    /\ UNCHANGED <<svcVars, sourceVars, connVars, tableVars, chanVars, terminal, reqVars>>

\* Variant: the result goes to whoever is parked.
DeliverToAnyone(w) ==
    /\ wk[w] = "deliver"
    /\ \E r \in pending : reply' = [reply EXCEPT ![r] = IF @ = None THEN kind[w] ELSE @]
    /\ Rest(w)
    /\ UNCHANGED <<svcVars, sourceVars, connVars, pending, chanVars, terminal, reqVars>>

\* ... and sends without blocking after the unlock.
DeliverReply(w) ==
    /\ wk[w] = "deliver"
    /\ reply' = [reply EXCEPT ![msg[w]] = IF @ = None THEN kind[w] ELSE @]
    /\ Rest(w)
    /\ UNCHANGED <<svcVars, sourceVars, connVars, pending, chanVars, terminal, reqVars>>

Worker(w) ==
    \/ Receive(w) \/ WorkerExit(w) \/ ProcessRoot(w) \/ ProcessErrorPath(w)
    \/ PublishTerminal(w) \/ LookupReply(w) \/ DeliverReply(w)

-----------------------------------------------------------------------------
(* Service.Run for this connector and this flow.                           *)

Step(from, to) == svc = from /\ svc' = to

\* Connector.Start: listen and subscribe.
StartConnector ==
    /\ Step("init", "connected")
    /\ subscribed' = TRUE
    /\ UNCHANGED <<serving, sourceVars, connDone, tableVars, chanVars, workerVars, reqVars>>

\* boundFlow.start: the workers, then source.Start begins to serve.
StartFlow ==
    /\ Step("connected", "ready")
    /\ wk' = [w \in Workers |-> "idle"]
    /\ serving' = TRUE
    /\ UNCHANGED <<sourceVars, connVars, tableVars, chanVars, msg, kind, terminal, reqVars>>

\* The context of Run is cancelled.
Cancel ==
    /\ Step("ready", "refuse")
    /\ UNCHANGED <<serving, sourceVars, connVars, tableVars, chanVars, workerVars, reqVars>>

\* source.Stop: refuse new sends, ...
StopRefuse ==
    /\ Step("refuse", "signal")
    /\ stopping' = TRUE
    /\ UNCHANGED <<serving, srcDone, sendWG, connVars, tableVars, chanVars, workerVars, reqVars>>

\* Variant: the event bus is left before the drain.
SignalAndUnsubscribe ==
    /\ Step("signal", "waitSends")
    /\ srcDone' = TRUE
    /\ subscribed' = FALSE
    /\ UNCHANGED <<serving, stopping, sendWG, connDone, tableVars, chanVars, workerVars, reqVars>>

\* ... wake the blocked ones, ...
StopSignal ==
    /\ Step("signal", "waitSends")
    /\ srcDone' = TRUE
    /\ UNCHANGED <<serving, stopping, sendWG, connVars, tableVars, chanVars, workerVars, reqVars>>

\* Variant: Stop returns without waiting for the sends.
StopNoWait ==
    /\ Step("waitSends", "closeIn")
    /\ UNCHANGED <<serving, sourceVars, connVars, tableVars, chanVars, workerVars, reqVars>>

\* ... and wait until no handler holds a send token.
StopWaitSends ==
    /\ Step("waitSends", "closeIn")
    /\ sendWG = 0
    /\ UNCHANGED <<serving, sourceVars, connVars, tableVars, chanVars, workerVars, reqVars>>

\* boundFlow.stop closes the channel ...
CloseIn ==
    /\ Step("closeIn", "drain")
    /\ inClosed' = TRUE
    /\ UNCHANGED <<serving, sourceVars, connVars, tableVars, in, accepted, workerVars, reqVars>>

\* ... and waits for its workers.
WaitWorkers ==
    /\ Step("drain", "closeConn")
    /\ \A w \in Workers : wk[w] = "exited"
    /\ UNCHANGED <<serving, sourceVars, connVars, tableVars, chanVars, workerVars, reqVars>>

\* Connector.Stop: close done, ...
CloseConn ==
    /\ Step("closeConn", "unsubscribe")
    /\ connDone' = TRUE
    /\ UNCHANGED <<serving, sourceVars, subscribed, tableVars, chanVars, workerVars, reqVars>>

\* ... leave the event bus, ...
Unsubscribe ==
    /\ Step("unsubscribe", "shutdown")
    /\ subscribed' = FALSE
    /\ UNCHANGED <<serving, sourceVars, connDone, tableVars, chanVars, workerVars, reqVars>>

\* ... close the listener ...
CloseListener ==
    /\ Step("shutdown", "waitHandlers")
    /\ serving' = FALSE
    /\ UNCHANGED <<sourceVars, connVars, tableVars, chanVars, workerVars, reqVars>>

\* ... and let server.Shutdown wait for the handlers that still run.
Shutdown ==
    /\ Step("waitHandlers", "stopped")
    /\ \A r \in Requests : req[r] \in {"idle", "done"}
    /\ UNCHANGED <<serving, sourceVars, connVars, tableVars, chanVars, workerVars, reqVars>>

Service ==
    \/ StartConnector \/ StartFlow \/ StopRefuse \/ StopSignal \/ StopWaitSends
    \/ CloseIn \/ WaitWorkers \/ CloseConn \/ Unsubscribe \/ CloseListener \/ Shutdown

\* Run has returned: nothing more happens.
Stopped == svc = "stopped" /\ UNCHANGED vars

Next ==
    \/ \E r \in Requests : Arrive(r) \/ Handler(r) \/ Disconnect(r)
    \/ \E w \in Workers : Worker(w)
    \/ Cancel
    \/ Service
    \/ Stopped

\* The goroutines that always get to run: workers (every block returns), the
\* service's own steps, and a handler wherever it does not wait for its client
\* or for a timer.
HandlerRuns(r) ==
    \/ AcquireSend(r) \/ BuildMessage(r) \/ Send(r) \/ SendAborted(r)
    \/ ReleaseSend(r) \/ AwaitReply(r) \/ AwaitClientGone(r) \/ AwaitConnDone(r)

Fairness ==
    /\ \A w \in Workers : WF_vars(Worker(w))
    /\ \A r \in Requests : WF_vars(HandlerRuns(r))
    /\ WF_vars(Service)

Spec == Init /\ [][Next]_vars

FairSpec == Spec /\ Fairness

-----------------------------------------------------------------------------
(* Properties.                                                             *)

Holding == {"root", "errorPath", "publish"}   \* the outcome is not published yet
Telling == {"lookup", "deliver"}              \* onFlowEvent is running

TokenHolders == {r \in Requests : req[r] \in {"build", "sending", "release", "abort"}}

\* No handler is in its send when the channel is closed: in Go that send would
\* panic.  The source's contract (core/source.go) with boundFlow.stop.
NoSendOnClosedChannel ==
    inClosed => \A r \in Requests : req[r] # "sending"

Queued(r) == \E i \in DOMAIN in : in[i] = r
Held(r)   == \E w \in Workers : msg[w] = r /\ wk[w] \in Holding
Ended(r)  == terminal[r] # <<>>

\* Every message put on the channel is in exactly one place: queued once, held
\* by one worker, or ended with one terminal event.  Nothing is lost or handled
\* twice, whatever the interleaving of handlers, workers and shutdown.
EveryMessageInOnePlace ==
    /\ \A i, j \in DOMAIN in : in[i] = in[j] => i = j
    /\ \A v, w \in Workers : (msg[v] = msg[w] /\ msg[v] # None) => v = w
    /\ \A r \in Requests :
          /\ r \in accepted <=> Queued(r) \/ Held(r) \/ Ended(r)
          /\ ~(Queued(r) /\ Held(r))
          /\ Ended(r) => ~Queued(r) /\ ~Held(r) /\ Len(terminal[r]) = 1

\* Once boundFlow.stop has seen its workers return, every accepted message has
\* its terminal event: shutdown drains, it does not drop.
DrainedMeansEnded ==
    svc \in {"closeConn", "unsubscribe", "shutdown", "waitHandlers", "stopped"} =>
        \A r \in accepted : Ended(r)

\* A parked handler never misses its outcome: if its message has ended and no
\* worker is still telling the connector, the outcome is in its reply channel.
\* This is why track comes before send and unsubscribe after the drain.
NoMissedReply ==
    \A r \in Requests :
        (/\ req[r] = "await"
         /\ Ended(r)
         /\ \A w \in Workers : ~(msg[w] = r /\ wk[w] \in Telling))
            => reply[r] # None

\* A handler answers with the outcome of its own message, and with no outcome
\* when its message was never put on the channel.
AnswersOwnOutcome ==
    \A r \in Requests, k \in Kinds :
        resp[r] \in ResponseTo[k] => terminal[r] = <<k>>

\* The table of parked requests holds the requests between track and forget and
\* no others: it does not grow with the number of requests served.
NoParkedLeak == pending = {r \in Requests : req[r] \in {"sending", "release", "abort", "await"}}

\* What the stages of shutdown have established (the strengthening that makes
\* NoSendOnClosedChannel inductive): the wait group counts the token holders,
\* there are none once the source has stopped, workers leave only an empty,
\* closed channel, and they publish an outcome they have.
Closed == {"drain", "closeConn", "unsubscribe", "shutdown", "waitHandlers", "stopped"}
NoSenders == Closed \cup {"closeIn"}

StopStages ==
    /\ sendWG = Cardinality(TokenHolders)
    /\ svc \in NoSenders \cup {"signal", "waitSends"} => stopping
    /\ svc \in NoSenders => TokenHolders = {}
    /\ inClosed <=> svc \in Closed
    /\ \A w \in Workers : wk[w] = "exited" => inClosed /\ in = <<>>
    /\ svc \in Closed \ {"drain"} => \A w \in Workers : wk[w] = "exited"
    /\ \A w \in Workers : wk[w] \in Telling \cup {"publish"} => kind[w] # None

\* What a worker has in hand (the strengthening behind EveryMessageInOnePlace):
\* a message from Receive until it rests, whose one terminal event is out while
\* it tells the connector; and no message is accepted before its handler's send.
InHand ==
    /\ \A w \in Workers : wk[w] \in Holding \cup Telling <=> msg[w] # None
    /\ \A w \in Workers : wk[w] \in Telling => terminal[msg[w]] = <<kind[w]>>
    /\ \A r \in accepted : req[r] \in {"release", "await", "done"}
    /\ svc \in {"init", "connected"} => \A w \in Workers : wk[w] = "unborn"

\* What travels from a worker to a handler (the strengthening behind
\* NoMissedReply and AnswersOwnOutcome): a reply is the outcome of its message,
\* the connector listens as long as a worker runs, and the outcome of a message
\* is on its way from the moment it ends, also before its handler waits for it.
Carried ==
    /\ \A r \in Requests : reply[r] # None => terminal[r] = <<reply[r]>>
    /\ svc \notin {"init", "shutdown", "waitHandlers", "stopped"} => subscribed
    /\ \A r \in Requests :
          (/\ req[r] \in {"release", "await"}
           /\ Ended(r)
           /\ \A w \in Workers : ~(msg[w] = r /\ wk[w] \in Telling))
              => reply[r] # None

\* A message that was put on the channel gets its handler an answer, without
\* help from the request timeout.
AcceptedIsAnswered ==
    \A r \in Requests : (r \in accepted) ~> (req[r] = "done")

\* Shutdown gets past the drain whatever the clients do, also when the channel
\* is full and handlers are blocked in send.
DrainTerminates == (svc = "refuse") ~> (svc = "closeConn")

-----------------------------------------------------------------------------
(* The flow keeps the promise of MessagePipeline.                          *)

Phase == IF ~inClosed THEN "open" ELSE IF svc = "drain" THEN "closed" ELSE "drained"

Outcome == [r \in Requests |-> IF terminal[r] = <<>> THEN None ELSE Head(terminal[r])]

Pipeline == INSTANCE MessagePipeline WITH
    Messages <- Requests, Pending <- None, phase <- Phase, outcome <- Outcome

\* One terminal event per accepted message, none accepted after the close, and
\* stopped only when all have ended: the flow refines MessagePipeline.
ImplementsPipeline == Pipeline!Spec
=============================================================================
