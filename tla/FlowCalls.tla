------------------------------ MODULE FlowCalls ------------------------------
(***************************************************************************)
(* Flows that call each other by name: the flow registry                   *)
(* (core/runtime/flowregistry.go), the implicit source that registers a    *)
(* flow (implicitsource.go), the flow-ref block (engine/flowref.go), and   *)
(* the order in which Service.Run starts and stops the flows (runtime.go). *)
(*                                                                         *)
(* A message is <<c, d>>: root c, or the sub-message that a flow-ref made  *)
(* at depth d of the chain of calls that started with c (Rekey gives every *)
(* sub-message an EventID of its own).  The chain of a flow has at most    *)
(* one flow-ref, which a message may or may not reach.                     *)
(***************************************************************************)
EXTENDS Naturals, Sequences

CONSTANTS Roots,     \* messages that enter from outside
          Entry,     \* Entry[c]: the flow that root c enters
          Flows,     \* the flows, in the order of the configuration
          Implicit,  \* the flows without a source of their own
          Target,    \* Target[f]: the flow named by f's flow-ref, or None
          OneWay,    \* the flows whose flow-ref is one-way
          Workers,   \* workers per flow, a set of names
          Buffer,    \* depth of every input channel
          MaxDepth,  \* bound on the depth of calls
          None

FlowSet == {Flows[i] : i \in DOMAIN Flows}
Messages == Roots \X (0..MaxDepth)
Crew == FlowSet \X Workers
Kinds == {"completed", "dropped", "failed"}
Refusals == {"unregistered", "gone", "cancelled"}

FlowsAssumption == Flows \in Seq(FlowSet) /\ Implicit \subseteq FlowSet /\ OneWay \subseteq FlowSet
TargetAssumption == Target \in [FlowSet -> Implicit \cup {None}] /\ Entry \in [Roots -> FlowSet]
BoundsAssumption == Buffer \in Nat \ {0} /\ MaxDepth \in Nat /\ Workers # {}
NoneAssumption == None \notin FlowSet \cup Kinds \cup Refusals \cup {"sent"} \cup Messages

VARIABLES
    svc,        \* "starting", "ready", "deregister", "close", "wait", "stopped"
    at,         \* position in StartOrder of the flow being started or stopped
    ctxDone,    \* the context of Run is cancelled
    quit,       \* roots whose outside caller has given up
    registered, \* flowRegistry.chans
    subscribed, \* the registry listens to the event bus
    pending,    \* flowRegistry.pending
    reply,      \* reply[m]: content of the reply channel of m
    in,         \* in[f]: the input channel of f
    closed,     \* the flows whose input channel is closed
    call,       \* call[m]: "none", "send", "await", "returned"
    ret,        \* ret[m]: what Call or Send returned for m
    wk,         \* wk[w]: control point of a worker
    msg,        \* msg[w]: the message it holds
    kind,       \* kind[w]: the outcome it is about to publish
    terminal    \* history: the terminal events of every message

svcVars  == <<svc, at, ctxDone, quit>>
regVars  == <<registered, subscribed>>
chanVars == <<in, closed>>
callVars == <<pending, reply, call, ret>>
wkVars   == <<wk, msg, kind, terminal>>
vars == <<svcVars, regVars, chanVars, callVars, wkVars>>

\* orderForStart: implicit flows first, each group in its configured order.
StartOrder ==
    LET isImplicit(f) == f \in Implicit
        isSourced(f) == f \notin Implicit
    IN SelectSeq(Flows, isImplicit) \o SelectSeq(Flows, isSourced)

\* Every flow is started, and started once: MergeConfigs rejects a second flow of
\* the same name.
OrderAssumption ==
    /\ DOMAIN StartOrder = DOMAIN Flows
    /\ FlowSet = {StartOrder[i] : i \in DOMAIN Flows}
    /\ \A i, j \in DOMAIN Flows : StartOrder[i] = StartOrder[j] => i = j

Sub(m) == <<m[1], m[2] + 1>>

TypeOK ==
    /\ svc \in {"starting", "ready", "deregister", "close", "wait", "stopped"}
    /\ at \in 0..(Len(Flows) + 1)
    /\ ctxDone \in BOOLEAN /\ subscribed \in BOOLEAN
    /\ quit \subseteq Roots
    /\ registered \subseteq Implicit /\ closed \subseteq FlowSet
    /\ pending \subseteq Messages
    /\ reply \in [Messages -> Kinds \cup {None}]
    /\ in \in [FlowSet -> Seq(Messages)] /\ \A f \in FlowSet : Len(in[f]) <= Buffer
    /\ call \in [Messages -> {"none", "send", "await", "returned"}]
    /\ ret \in [Messages -> Kinds \cup Refusals \cup {"sent", None}]
    /\ wk \in [Crew -> {"unborn", "idle", "run", "calling", "publish", "exited"}]
    /\ msg \in [Crew -> Messages \cup {None}]
    /\ kind \in [Crew -> Kinds \cup {None}]
    /\ terminal \in [Messages -> Seq(Kinds)]

Init ==
    /\ svc = "starting" /\ at = 1
    /\ ctxDone = FALSE
    /\ quit = {}
    /\ registered = {}
    /\ subscribed = TRUE
    /\ pending = {}
    /\ reply = [m \in Messages |-> None]
    /\ in = [f \in FlowSet |-> <<>>]
    /\ closed = {}
    /\ call = [m \in Messages |-> "none"]
    /\ ret = [m \in Messages |-> None]
    /\ wk = [w \in Crew |-> "unborn"]
    /\ msg = [w \in Crew |-> None]
    /\ kind = [w \in Crew |-> None]
    /\ terminal = [m \in Messages |-> <<>>]

-----------------------------------------------------------------------------
(* flowRegistry.Call and flowRegistry.Send, on behalf of message m.        *)

\* The flow a message is sent to, and whether anyone waits for its outcome.
FlowOf(m, f) == IF m[2] = 0 THEN Entry[m[1]] ELSE Target[f]
Waits(m, f) == m[2] = 0 \/ f \notin OneWay

\* The context of the call: the outside caller's, or the worker's.
Cancelled(m) == IF m[2] = 0 THEN m[1] \in quit ELSE ctxDone

Returned(m, r) ==
    /\ call' = [call EXCEPT ![m] = "returned"]
    /\ ret' = [ret EXCEPT ![m] = r]
    /\ pending' = pending \ {m}

\* track, then the lookup of Send.
Begin(m, f) ==
    /\ call[m] = "none"
    /\ \/ /\ FlowOf(m, f) \in registered
          /\ call' = [call EXCEPT ![m] = "send"]
          /\ pending' = IF Waits(m, f) THEN pending \cup {m} ELSE pending
          /\ UNCHANGED ret
       \/ /\ FlowOf(m, f) \notin registered
          /\ Returned(m, "unregistered")
    /\ UNCHANGED reply

\* The send succeeds ...
SendTo(m, f) ==
    /\ call[m] = "send"
    /\ FlowOf(m, f) \notin closed
    /\ Len(in[FlowOf(m, f)]) < Buffer
    /\ in' = [in EXCEPT ![FlowOf(m, f)] = Append(@, m)]
    /\ IF Waits(m, f)
         THEN call' = [call EXCEPT ![m] = "await"] /\ UNCHANGED <<ret, pending>>
         ELSE Returned(m, "sent")
    /\ UNCHANGED <<closed, reply>>

\* ... or the channel was closed under it and the panic is recovered, or the
\* context ends.
SendRefused(m, f) ==
    /\ call[m] = "send"
    /\ \/ FlowOf(m, f) \in closed /\ Returned(m, "gone")
       \/ Cancelled(m) /\ Returned(m, "cancelled")
    /\ UNCHANGED <<chanVars, reply>>

\* Variant: a waiting caller does not look at its context.
AwaitReplyOnly(m) ==
    /\ call[m] = "await"
    /\ reply[m] # None /\ Returned(m, reply[m]) /\ reply' = [reply EXCEPT ![m] = None]
    /\ UNCHANGED chanVars

\* The wait of Call ends with the outcome or with the context.
AwaitEnds(m) ==
    /\ call[m] = "await"
    /\ \/ reply[m] # None /\ Returned(m, reply[m]) /\ reply' = [reply EXCEPT ![m] = None]
       \/ Cancelled(m) /\ Returned(m, "cancelled") /\ UNCHANGED reply
    /\ UNCHANGED chanVars

\* An outside caller of an implicit flow (the CLI's invoke), which starts when
\* the service is ready and may give up.
OutsideCall(c) ==
    LET m == <<c, 0>> IN
    /\ Entry[c] \in Implicit
    /\ \/ svc # "starting" /\ Begin(m, None) /\ UNCHANGED chanVars
       \/ SendTo(m, None)
       \/ SendRefused(m, None)
       \/ AwaitEnds(m)
    /\ UNCHANGED <<svcVars, regVars, wkVars>>

GiveUp(c) ==
    /\ Entry[c] \in Implicit /\ c \notin quit /\ call[<<c, 0>>] # "returned"
    /\ quit' = quit \cup {c}
    /\ UNCHANGED <<svc, at, ctxDone, regVars, chanVars, callVars, wkVars>>

\* A source puts a root on its flow's channel; it does so from its Start until
\* its Stop, and never after (the contract FlowRuntime shows for HTTP).
Arrive(c) ==
    LET f == Entry[c] IN
    /\ f \notin Implicit
    /\ \E w \in Workers : wk[<<f, w>>] # "unborn"
    /\ call[<<c, 0>>] = "none"
    /\ f \notin closed /\ ~(svc = "close" /\ StartOrder[at] = f)
    /\ Len(in[f]) < Buffer
    /\ in' = [in EXCEPT ![f] = Append(@, <<c, 0>>)]
    /\ call' = [call EXCEPT ![<<c, 0>>] = "returned"]
    /\ ret' = [ret EXCEPT ![<<c, 0>>] = "sent"]
    /\ UNCHANGED <<svcVars, regVars, closed, pending, reply, wkVars>>

-----------------------------------------------------------------------------
(* A worker of flow f.                                                     *)

Receive(f, w) ==
    /\ wk[<<f, w>>] = "idle"
    /\ in[f] # <<>>
    /\ msg' = [msg EXCEPT ![<<f, w>>] = Head(in[f])]
    /\ in' = [in EXCEPT ![f] = Tail(@)]
    /\ wk' = [wk EXCEPT ![<<f, w>>] = "run"]
    /\ UNCHANGED <<svcVars, regVars, closed, callVars, kind, terminal>>

WorkerExit(f, w) ==
    /\ wk[<<f, w>>] = "idle"
    /\ f \in closed /\ in[f] = <<>>
    /\ wk' = [wk EXCEPT ![<<f, w>>] = "exited"]
    /\ UNCHANGED <<svcVars, regVars, chanVars, callVars, msg, kind, terminal>>

\* The chain ends without reaching the flow-ref.
RunToEnd(f, w) ==
    /\ wk[<<f, w>>] = "run"
    /\ \E k \in Kinds : kind' = [kind EXCEPT ![<<f, w>>] = k]
    /\ wk' = [wk EXCEPT ![<<f, w>>] = "publish"]
    /\ UNCHANGED <<svcVars, regVars, chanVars, callVars, msg, terminal>>

\* flowRef.Process: clone, rekey and call or send.
RunToRef(f, w) ==
    LET m == msg[<<f, w>>] IN
    /\ wk[<<f, w>>] = "run"
    /\ Target[f] # None
    /\ m[2] < MaxDepth
    /\ Begin(Sub(m), f)
    /\ wk' = [wk EXCEPT ![<<f, w>>] = "calling"]
    /\ UNCHANGED <<svcVars, regVars, chanVars, msg, kind, terminal>>

Calling(f, w) ==
    LET m == msg[<<f, w>>] IN
    /\ wk[<<f, w>>] = "calling"
    /\ SendTo(Sub(m), f) \/ SendRefused(Sub(m), f) \/ AwaitEnds(Sub(m))
    /\ UNCHANGED <<svcVars, regVars, wkVars>>

\* The call has returned: an error fails the chain, a dropped or completed
\* sub-message lets it go on to any end.
RefReturns(f, w) ==
    LET r == ret[Sub(msg[<<f, w>>])] IN
    /\ wk[<<f, w>>] = "calling"
    /\ call[Sub(msg[<<f, w>>])] = "returned"
    /\ \E k \in Kinds :
         /\ r \in Refusals \cup {"failed"} => k = "failed"
         /\ kind' = [kind EXCEPT ![<<f, w>>] = k]
    /\ wk' = [wk EXCEPT ![<<f, w>>] = "publish"]
    /\ UNCHANGED <<svcVars, regVars, chanVars, callVars, msg, terminal>>

\* Variant: the registry's handler answers the message's parent.
PublishToParent(f, w) ==
    LET m == msg[<<f, w>>] IN
    /\ wk[<<f, w>>] = "publish"
    /\ terminal' = [terminal EXCEPT ![m] = Append(@, kind[<<f, w>>])]
    /\ reply' = IF subscribed /\ <<m[1], 0>> \in pending /\ reply[<<m[1], 0>>] = None
                  THEN [reply EXCEPT ![<<m[1], 0>>] = kind[<<f, w>>]] ELSE reply
    /\ wk' = [wk EXCEPT ![<<f, w>>] = "idle"]
    /\ msg' = [msg EXCEPT ![<<f, w>>] = None]
    /\ kind' = [kind EXCEPT ![<<f, w>>] = None]
    /\ UNCHANGED <<svcVars, regVars, chanVars, pending, call, ret>>

\* Variant: a dropped message is not reported to the parked caller.
PublishDropSilently(f, w) ==
    LET m == msg[<<f, w>>] IN
    /\ wk[<<f, w>>] = "publish"
    /\ terminal' = [terminal EXCEPT ![m] = Append(@, kind[<<f, w>>])]
    /\ reply' = IF m \in pending /\ kind[<<f, w>>] # "dropped"
                  THEN [reply EXCEPT ![m] = kind[<<f, w>>]] ELSE reply
    /\ wk' = [wk EXCEPT ![<<f, w>>] = "idle"]
    /\ msg' = [msg EXCEPT ![<<f, w>>] = None]
    /\ kind' = [kind EXCEPT ![<<f, w>>] = None]
    /\ UNCHANGED <<svcVars, regVars, chanVars, pending, call, ret>>

\* handle publishes the terminal event; onFlowEvent of the registry runs on the
\* worker and answers the parked caller, if there is one.
Publish(f, w) ==
    LET m == msg[<<f, w>>] IN
    /\ wk[<<f, w>>] = "publish"
    /\ terminal' = [terminal EXCEPT ![m] = Append(@, kind[<<f, w>>])]
    /\ reply' = IF subscribed /\ m \in pending /\ reply[m] = None
                  THEN [reply EXCEPT ![m] = kind[<<f, w>>]] ELSE reply
    /\ wk' = [wk EXCEPT ![<<f, w>>] = "idle"]
    /\ msg' = [msg EXCEPT ![<<f, w>>] = None]
    /\ kind' = [kind EXCEPT ![<<f, w>>] = None]
    /\ UNCHANGED <<svcVars, regVars, chanVars, pending, call, ret>>

Worker(f, w) ==
    \/ Receive(f, w) \/ WorkerExit(f, w) \/ RunToEnd(f, w) \/ RunToRef(f, w)
    \/ Calling(f, w) \/ RefReturns(f, w) \/ Publish(f, w)

-----------------------------------------------------------------------------
(* Service.Run: startFlows, and stopFlows in reverse.                      *)

\* boundFlow.start: the workers, then the source; an implicit source registers.
StartNext ==
    LET f == StartOrder[at] IN
    /\ svc = "starting" /\ at <= Len(Flows)
    /\ wk' = [w \in Crew |-> IF w[1] = f THEN "idle" ELSE wk[w]]
    /\ registered' = IF f \in Implicit THEN registered \cup {f} ELSE registered
    /\ at' = at + 1
    /\ UNCHANGED <<svc, ctxDone, quit, subscribed, chanVars, callVars, msg, kind, terminal>>

Ready ==
    /\ svc = "starting" /\ at > Len(Flows)
    /\ svc' = "ready"
    /\ UNCHANGED <<at, ctxDone, quit, regVars, chanVars, callVars, wkVars>>

\* The context of Run is cancelled.
Cancel ==
    /\ svc = "ready"
    /\ ctxDone' = TRUE
    /\ svc' = "deregister"
    /\ at' = Len(Flows)
    /\ UNCHANGED <<quit, regVars, chanVars, callVars, wkVars>>

\* boundFlow.stop: the source's Stop ...
StopSource ==
    /\ svc = "deregister"
    /\ registered' = registered \ {StartOrder[at]}
    /\ svc' = "close"
    /\ UNCHANGED <<at, ctxDone, quit, subscribed, chanVars, callVars, wkVars>>

\* ... closing the channel ...
CloseIn ==
    /\ svc = "close"
    /\ closed' = closed \cup {StartOrder[at]}
    /\ svc' = "wait"
    /\ UNCHANGED <<at, ctxDone, quit, regVars, in, callVars, wkVars>>

\* ... and the wait for the workers.  After the last flow Run returns, and its
\* deferred call takes the registry off the event bus.
WaitWorkers ==
    /\ svc = "wait"
    /\ \A w \in Workers : wk[<<StartOrder[at], w>>] = "exited"
    /\ at' = at - 1
    /\ IF at = 1 THEN svc' = "stopped" /\ subscribed' = FALSE
                 ELSE svc' = "deregister" /\ UNCHANGED subscribed
    /\ UNCHANGED <<ctxDone, quit, registered, chanVars, callVars, wkVars>>

Service == StartNext \/ Ready \/ StopSource \/ CloseIn \/ WaitWorkers

Stopped == svc = "stopped" /\ UNCHANGED vars

Next ==
    \/ \E c \in Roots : OutsideCall(c) \/ GiveUp(c) \/ Arrive(c)
    \/ \E f \in FlowSet, w \in Workers : Worker(f, w)
    \/ Service
    \/ Cancel
    \/ Stopped

\* Workers, callers and the service's own steps always get to run; when roots
\* arrive, callers give up and the service is cancelled is up to the outside.
Fairness ==
    /\ \A f \in FlowSet, w \in Workers : WF_vars(Worker(f, w))
    /\ \A c \in Roots : WF_vars(call[<<c, 0>>] # "none" /\ OutsideCall(c))
    /\ WF_vars(Service)

Spec == Init /\ [][Next]_vars

FairSpec == Spec /\ Fairness

-----------------------------------------------------------------------------
(* Properties.                                                             *)

\* A call returns the outcome of its own sub-message, never that of another
\* message of the same chain of calls, and only after it was published.
ReturnsOwnOutcome ==
    \A m \in Messages : ret[m] \in Kinds => terminal[m] = <<ret[m]>>

\* The registry's table holds the callers that send or wait and no others.
NoParkedLeak ==
    \A m \in Messages : m \in pending => call[m] \in {"send", "await"}

\* A caller that waits is never forgotten: its message is on a channel, in a
\* worker's hands, or its outcome is in the reply channel.
WaitIsServed ==
    \A m \in Messages : call[m] = "await" =>
        \/ \E f \in FlowSet : \E i \in DOMAIN in[f] : in[f][i] = m
        \/ \E w \in Crew : msg[w] = m
        \/ reply[m] # None

\* Shutdown terminates whatever calls whatever, also when flows call each other
\* in a circle and every worker waits for another.
ShutdownTerminates == ctxDone ~> (svc = "stopped")
=============================================================================
