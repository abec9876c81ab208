------------------------------ MODULE QueueFlow ------------------------------
(***************************************************************************)
(* One subject of the standalone queues (services/standalone/queues.go),   *)
(* the queue-dispatch blocks that publish and request on it                *)
(* (connectors/queue/dispatch.go), and the flow whose queue source         *)
(* (connectors/queue/source.go, queue.go) consumes it: its listeners hand  *)
(* a message to the flow, wait for its outcome and answer the requester.   *)
(* The flow itself is its input channel and workers (FlowRuntime has the   *)
(* details).  The service stops the source, closes the channel and waits   *)
(* for the workers.                                                        *)
(***************************************************************************)
EXTENDS Naturals, Sequences, FiniteSets, Functions

CONSTANTS Published,   \* messages sent with Publish
          Requested,   \* messages sent with Request
          Listeners,   \* listener goroutines of the subscription
          Workers,     \* workers of the flow
          QueueBuffer, \* capacity of the subject's channel
          Buffer,      \* capacity of the flow's channel
          None

Messages == Published \cup Requested
Kinds == {"completed", "dropped", "failed"}

QueueAssumption ==
    /\ Published \cap Requested = {}
    /\ QueueBuffer \in Nat \ {0} /\ Buffer \in Nat \ {0}
    /\ None \notin Messages \cup Kinds
    /\ IsFiniteSet(Listeners)

VARIABLES
    subject,  \* the subject's channel
    sent,     \* sent[m]: "new", "waiting", or how Publish or Request returned
    reply,    \* reply[m]: content of the requester's reply channel
    stage,    \* of the source and flow: "new", "active", "done", "cancelled", "stopped", "closed", "over"
    ended,    \* the service's context, which Subscribe derives its own from, has ended
    lp,       \* lp[l]: "unborn", "idle", "send", "await", "answer", "exited"
    held,     \* held[l]: the message of a listener
    res,      \* res[l]: the outcome it took from its result channel, or "failed"
    pending,  \* Connector.pending
    result,   \* result[m]: content of the result channel of m
    out,      \* the flow's input channel
    work,     \* work[w]: the message a flow worker runs
    gone,     \* workers that have exited
    entered,  \* history: how often a message was put on the flow's channel
    terminal, \* history: terminal[m], the outcome of the flow for m
    expired   \* history: messages whose listener gave up waiting

runVars == <<stage, ended>>
flowVars == <<out, work, gone>>
listenVars == <<lp, held, res>>
vars == <<subject, sent, reply, stage, ended, lp, held, res, pending, result, out, work, gone,
          entered, terminal, expired>>

TypeOK ==
    /\ subject \in Seq(Messages) /\ Len(subject) <= QueueBuffer
    /\ sent \in [Messages -> {"new", "waiting", "ok", "full", "cancelled", "noreply"}]
    /\ reply \in [Messages -> Kinds \cup {None}]
    /\ stage \in {"new", "active", "done", "cancelled", "stopped", "closed", "over"}
    /\ ended \in BOOLEAN
    /\ lp \in [Listeners -> {"unborn", "idle", "send", "await", "answer", "exited"}]
    /\ held \in [Listeners -> Messages \cup {None}]
    /\ res \in [Listeners -> Kinds \cup {None}]
    /\ pending \subseteq Messages
    /\ result \in [Messages -> Kinds \cup {None}]
    /\ out \in Seq(Messages) /\ Len(out) <= Buffer
    /\ work \in [Workers -> Messages \cup {None}]
    /\ gone \subseteq Workers
    /\ entered \in [Messages -> Nat]
    /\ terminal \in [Messages -> Kinds \cup {None}]
    /\ expired \subseteq Messages

Init ==
    /\ subject = <<>>
    /\ sent = [m \in Messages |-> "new"]
    /\ reply = [m \in Messages |-> None]
    /\ stage = "new"
    /\ ended = FALSE
    /\ lp = [l \in Listeners |-> "unborn"]
    /\ held = [l \in Listeners |-> None]
    /\ res = [l \in Listeners |-> None]
    /\ pending = {}
    /\ result = [m \in Messages |-> None]
    /\ out = <<>>
    /\ work = [w \in Workers |-> None]
    /\ gone = {}
    /\ entered = [m \in Messages |-> 0]
    /\ terminal = [m \in Messages |-> None]
    /\ expired = {}

\* The subscription's context ends with the service's or when Close cancels it.
Cancelled == ended \/ stage \in {"cancelled", "stopped", "closed", "over"}
SourceDone == Cancelled \/ stage = "done"

-----------------------------------------------------------------------------
(* The senders.                                                            *)

\* queues.enqueue: a non-blocking send, for Publish and for Request.
Enqueue(m) ==
    /\ sent[m] = "new"
    /\ \/ /\ Len(subject) < QueueBuffer
          /\ subject' = Append(subject, m)
          /\ sent' = [sent EXCEPT ![m] = IF m \in Requested THEN "waiting" ELSE "ok"]
       \/ /\ Len(subject) = QueueBuffer
          /\ sent' = [sent EXCEPT ![m] = "full"]
          /\ UNCHANGED subject
       \/ /\ sent' = [sent EXCEPT ![m] = "cancelled"]
          /\ UNCHANGED subject
    /\ UNCHANGED <<reply, runVars, listenVars, pending, result, flowVars, entered, terminal, expired>>

\* Request's wait: the reply, or the deadline (or the sender's context).
GetReply(m) ==
    /\ sent[m] = "waiting" /\ reply[m] # None
    /\ sent' = [sent EXCEPT ![m] = "ok"]
    /\ UNCHANGED <<subject, reply, runVars, listenVars, pending, result, flowVars,
                   entered, terminal, expired>>

Deadline(m) ==
    /\ sent[m] = "waiting"
    /\ sent' = [sent EXCEPT ![m] = "noreply"]
    /\ UNCHANGED <<subject, reply, runVars, listenVars, pending, result, flowVars,
                   entered, terminal, expired>>

-----------------------------------------------------------------------------
(* A listener: consume and the source's handle.                            *)

Track(m) == pending' = pending \cup {m}
Forget(m) == pending' = pending \ {m}

\* consume takes a message, and handle tracks it ...
Consume(l) ==
    /\ lp[l] = "idle" /\ subject # <<>>
    /\ held' = [held EXCEPT ![l] = Head(subject)]
    /\ subject' = Tail(subject)
    /\ Track(Head(subject))
    /\ lp' = [lp EXCEPT ![l] = "send"]
    /\ UNCHANGED <<sent, reply, runVars, res, result, flowVars, entered, terminal, expired>>

\* ... or sees that the subscription was cancelled.
ListenerExit(l) ==
    /\ lp[l] = "idle" /\ Cancelled
    /\ lp' = [lp EXCEPT ![l] = "exited"]
    /\ UNCHANGED <<subject, sent, reply, runVars, held, res, pending, result, flowVars,
                   entered, terminal, expired>>

\* handle returns: the deferred forget, then consume decides on the reply.
HandleReturns(l, k) ==
    /\ Forget(held[l])
    /\ res' = [res EXCEPT ![l] = k]
    /\ lp' = [lp EXCEPT ![l] = "answer"]

\* Variant: handle returns as soon as the flow has the message.
SendOnly(l) ==
    /\ lp[l] = "send"
    /\ Len(out) < Buffer
    /\ out' = Append(out, held[l])
    /\ entered' = [entered EXCEPT ![held[l]] = @ + 1]
    /\ HandleReturns(l, "failed")
    /\ UNCHANGED <<subject, sent, reply, runVars, held, result, work, gone, terminal, expired>>

\* source.send puts the message on the flow's channel ...
Send(l) ==
    /\ lp[l] = "send"
    /\ Len(out) < Buffer
    /\ out' = Append(out, held[l])
    /\ entered' = [entered EXCEPT ![held[l]] = @ + 1]
    /\ lp' = [lp EXCEPT ![l] = "await"]
    /\ UNCHANGED <<subject, sent, reply, runVars, held, res, pending, result, work, gone,
                   terminal, expired>>

\* ... or gives up because the source stops.
SendAborts(l) ==
    /\ lp[l] = "send" /\ SourceDone
    /\ HandleReturns(l, "failed")
    /\ UNCHANGED <<subject, sent, reply, runVars, held, result, flowVars, entered, terminal, expired>>

\* awaitResult: the outcome of the flow ...
AwaitOutcome(l) ==
    /\ lp[l] = "await" /\ result[held[l]] # None
    /\ HandleReturns(l, result[held[l]])
    /\ UNCHANGED <<subject, sent, reply, runVars, held, result, flowVars, entered, terminal, expired>>

\* ... the timer, or the stop of the source.
AwaitEnds(l) ==
    /\ lp[l] = "await"
    /\ HandleReturns(l, "failed")
    /\ expired' = expired \cup {held[l]}
    /\ UNCHANGED <<subject, sent, reply, runVars, held, result, flowVars, entered, terminal>>

\* Variant: an error of the handler ends the listener's loop.
AnswerExits(l) ==
    LET m == held[l] IN
    /\ lp[l] = "answer"
    /\ reply' = IF m \in Requested /\ res[l] # "failed" /\ reply[m] = None
                  THEN [reply EXCEPT ![m] = res[l]] ELSE reply
    /\ lp' = [lp EXCEPT ![l] = IF res[l] = "failed" THEN "exited" ELSE "idle"]
    /\ held' = [held EXCEPT ![l] = None]
    /\ res' = [res EXCEPT ![l] = None]
    /\ UNCHANGED <<subject, sent, runVars, pending, result, flowVars, entered, terminal, expired>>

\* Variant: a failed flow answers the requester too.
AnswerAlways(l) ==
    LET m == held[l] IN
    /\ lp[l] = "answer"
    /\ reply' = IF m \in Requested /\ reply[m] = None THEN [reply EXCEPT ![m] = res[l]] ELSE reply
    /\ lp' = [lp EXCEPT ![l] = "idle"]
    /\ held' = [held EXCEPT ![l] = None]
    /\ res' = [res EXCEPT ![l] = None]
    /\ UNCHANGED <<subject, sent, runVars, pending, result, flowVars, entered, terminal, expired>>

\* Back in consume: a reply goes to a requester, an error to nobody.
Answer(l) ==
    LET m == held[l] IN
    /\ lp[l] = "answer"
    /\ reply' = IF m \in Requested /\ res[l] # "failed" /\ reply[m] = None
                  THEN [reply EXCEPT ![m] = res[l]] ELSE reply
    /\ lp' = [lp EXCEPT ![l] = "idle"]
    /\ held' = [held EXCEPT ![l] = None]
    /\ res' = [res EXCEPT ![l] = None]
    /\ UNCHANGED <<subject, sent, runVars, pending, result, flowVars, entered, terminal, expired>>

\* One listener goroutine.
Listener(l) ==
    \/ Consume(l) \/ ListenerExit(l) \/ Send(l) \/ SendAborts(l)
    \/ AwaitOutcome(l) \/ AwaitEnds(l) \/ Answer(l)

-----------------------------------------------------------------------------
(* The flow and the service.                                               *)

FlowTake(w) ==
    /\ work[w] = None /\ out # <<>>
    /\ work' = [work EXCEPT ![w] = Head(out)]
    /\ out' = Tail(out)
    /\ UNCHANGED <<subject, sent, reply, runVars, listenVars, pending, result, gone,
                   entered, terminal, expired>>

\* The flow ends and publishes; Connector.onFlowEvent answers the parked handler.
FlowEnds(w) ==
    LET m == work[w] IN
    /\ m # None
    /\ \E k \in Kinds :
         /\ terminal' = [terminal EXCEPT ![m] = k]
         /\ result' = IF m \in pending /\ result[m] = None THEN [result EXCEPT ![m] = k] ELSE result
    /\ work' = [work EXCEPT ![w] = None]
    /\ UNCHANGED <<subject, sent, reply, runVars, listenVars, pending, out, gone, entered, expired>>

FlowExit(w) ==
    /\ stage = "closed" /\ out = <<>> /\ work[w] = None /\ w \notin gone
    /\ gone' = gone \cup {w}
    /\ UNCHANGED <<subject, sent, reply, runVars, listenVars, pending, result, out, work,
                   entered, terminal, expired>>

\* source.Start: Subscribe starts the listeners.
Start ==
    /\ stage = "new"
    /\ stage' = "active"
    /\ lp' = [l \in Listeners |-> "idle"]
    /\ UNCHANGED <<subject, sent, reply, ended, held, res, pending, result, flowVars,
                   entered, terminal, expired>>

Move(s, t) ==
    /\ stage = s
    /\ stage' = t
    /\ UNCHANGED <<subject, sent, reply, ended, listenVars, pending, result, flowVars,
                   entered, terminal, expired>>

\* The service is cancelled; its flows are stopped afterwards.
EndContext ==
    /\ stage = "active" /\ ~ended
    /\ ended' = TRUE
    /\ UNCHANGED <<subject, sent, reply, stage, listenVars, pending, result, flowVars,
                   entered, terminal, expired>>

\* source.Stop (also without a cancellation, when a later flow fails to start): close done, cancel the subscription ...
CloseDone == Move("active", "done")
CancelSubscription == Move("done", "cancelled")

\* ... and wait for the listeners.
AwaitListeners == (\A l \in Listeners : lp[l] = "exited") /\ Move("cancelled", "stopped")

\* boundFlow.stop closes the channel and waits for the workers.
CloseOut == Move("stopped", "closed")
AwaitWorkers == gone = Workers /\ Move("closed", "over")

Stopping == CancelSubscription \/ AwaitListeners \/ CloseOut \/ AwaitWorkers

Over == stage = "over" /\ UNCHANGED vars

Next ==
    \/ \E m \in Messages : Enqueue(m) \/ GetReply(m) \/ Deadline(m)
    \/ \E l \in Listeners : Listener(l)
    \/ \E w \in Workers : FlowTake(w) \/ FlowEnds(w) \/ FlowExit(w)
    \/ Start \/ EndContext \/ CloseDone \/ Stopping
    \/ Over

Spec == Init /\ [][Next]_vars

\* Listeners and workers run (a wait for a flow ends by its timer at the
\* latest), requests have deadlines, and a stop that has begun goes on.
Fairness ==
    /\ \A l \in Listeners : WF_vars(Listener(l))
    /\ \A w \in Workers : WF_vars(FlowTake(w) \/ FlowEnds(w) \/ FlowExit(w))
    /\ \A m \in Requested : WF_vars(GetReply(m) \/ Deadline(m))
    /\ WF_vars(Stopping)

FairSpec == Spec /\ Fairness

-----------------------------------------------------------------------------
(* Properties.                                                             *)

InFlow == Range(out) \cup ({work[w] : w \in Workers} \ {None})

\* A request is answered with the outcome of its own message, and never with
\* that of a failed flow.
ReplyIsOwn ==
    \A m \in Messages : reply[m] # None => m \in Requested /\ reply[m] = terminal[m] /\ reply[m] # "failed"

\* The queue source limits the work in the flow: as long as no wait has expired
\* there are never more messages in it than listeners.
BoundedUnlessExpired == expired # {} \/ Cardinality(InFlow) <= Cardinality(Listeners)

\* What the subject holds is consumed, or the source stops.
Consumed ==
    (subject # <<>> /\ stage = "active" /\ ~ended) ~> (subject = <<>> \/ stage # "active" \/ ended)
=============================================================================
