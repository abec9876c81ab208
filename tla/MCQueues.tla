------------------------------- MODULE MCQueues ------------------------------
(***************************************************************************)
(* A queue and its flow in variables of their own, to stand beside other   *)
(* parts of the runtime in one specification.                              *)
(***************************************************************************)
CONSTANTS Published, Requested, Listeners, Consumers, QueueBuffer, FlowBuffer, NoMessage

VARIABLES
    queSubject, queSent, queReply, queStage, queEnded, queLp, queHeld, queRes, quePending,
    queResult, queOut, queWork, queGone, queEntered, queTerminal, queExpired

Queues == INSTANCE QueueFlow WITH
    Workers <- Consumers, Buffer <- FlowBuffer, None <- NoMessage,
    subject <- queSubject, sent <- queSent, reply <- queReply, stage <- queStage,
    ended <- queEnded, lp <- queLp, held <- queHeld, res <- queRes, pending <- quePending,
    result <- queResult, out <- queOut, work <- queWork, gone <- queGone,
    entered <- queEntered, terminal <- queTerminal, expired <- queExpired

queVars ==
    <<queSubject, queSent, queReply, queStage, queEnded, queLp, queHeld, queRes, quePending,
      queResult, queOut, queWork, queGone, queEntered, queTerminal, queExpired>>

ASSUME QueuesAssumption == Queues!QueueAssumption

\* A request is answered with the outcome of its own message, and never with
\* that of a failed flow.
ReplyIsOwn == Queues!ReplyIsOwn

\* The queue source limits the work in the flow: as long as no wait has expired
\* there are never more messages in it than listeners.
BoundedUnlessExpired == Queues!BoundedUnlessExpired

\* What the subject holds is consumed, or the source stops.
Consumed == Queues!Consumed
=============================================================================
