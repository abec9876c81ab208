------------------------------ MODULE MCProgress -----------------------------
(***************************************************************************)
(* What must eventually happen outside the flow of FlowRuntime: the forks  *)
(* of a flow, flows that call each other in a circle, a queue and its      *)
(* source, and the processes of the run host.  They share no state:        *)
(* `which' picks one and the variables of the others keep their first      *)
(* values, at which nothing fair is enabled.                               *)
(***************************************************************************)
EXTENDS RunHost, MCForks, MCQueues, Sequences, TLC

CONSTANTS Parts,                       \* the ones to pick from
          Roots, Entry, Flows, Implicit, Target, OneWay, Workers, Buffer, MaxDepth   \* of FlowCalls

VARIABLES
    which,
    refSvc, refAt, refCtxDone, refQuit, refRegistered, refSubscribed, refPending, refReply,
    refIn, refClosed, refCall, refRet, refWk, refMsg, refKind, refTerminal

refVars ==
    <<refSvc, refAt, refCtxDone, refQuit, refRegistered, refSubscribed, refPending,
      refReply, refIn, refClosed, refCall, refRet, refWk, refMsg, refKind, refTerminal>>

-----------------------------------------------------------------------------
Refs == INSTANCE FlowCalls WITH
    svc <- refSvc, at <- refAt, ctxDone <- refCtxDone, quit <- refQuit,
    registered <- refRegistered, subscribed <- refSubscribed, pending <- refPending,
    reply <- refReply, in <- refIn, closed <- refClosed, call <- refCall, ret <- refRet,
    wk <- refWk, msg <- refMsg, kind <- refKind, terminal <- refTerminal

ASSUME Refs!FlowsAssumption /\ Refs!TargetAssumption /\ Refs!BoundsAssumption /\ Refs!NoneAssumption

MCInit ==
    /\ which \in Parts
    /\ Init /\ Forks!Init /\ Refs!Init /\ Queues!Init

MCNext ==
    \/ which = "host" /\ Next /\ UNCHANGED <<which, forkVars, refVars, queVars>>
    \/ which = "forks" /\ Forks!Next /\ UNCHANGED <<which, vars, refVars, queVars>>
    \/ which = "refs" /\ Refs!Next /\ UNCHANGED <<which, vars, forkVars, queVars>>
    \/ which = "queues" /\ Queues!Next /\ UNCHANGED <<which, vars, forkVars, refVars>>

\* The fairness of the one that is picked.
MCFairness ==
    /\ \A c \in Calls : WF_vars(which = "host" /\ (\/ Remove(c) \/ StopReturns(c) \/ Prepare(c)
                                                   \/ Spawn(c) \/ NoPort(c) \/ SyncWrites(c)))
    /\ \A p \in Starts : WF_vars(which = "host" /\ life[p] = "killed" /\ Exit(p))
    /\ WF_vars(which = "host" /\ (ReapLast \/ \E n \in Namespaces : ReapNext(n)))
    /\ \A g \in FlowWorkers \cup PoolWorkers : WF_forkVars(which = "forks" /\ Forks!Goroutine(g))
    /\ \A p \in PoolWorkers : WF_forkVars(which = "forks" /\ (Forks!PoolTake(p) \/ Forks!PoolExit(p)))
    /\ \A w \in FlowWorkers : WF_forkVars(which = "forks" /\ Forks!FlowWorker(w))
    /\ WF_forkVars(which = "forks" /\ (Forks!StopPool \/ Forks!PoolStopped))
    /\ \A f \in Implicit, w \in Workers : WF_refVars(which = "refs" /\ Refs!Worker(f, w))
    /\ \A c \in Roots : WF_refVars(which = "refs" /\ refCall[<<c, 0>>] # "none" /\ Refs!OutsideCall(c))
    /\ WF_refVars(which = "refs" /\ Refs!Service)
    /\ \A l \in Listeners : WF_queVars(which = "queues" /\ Queues!Listener(l))
    /\ \A w \in Consumers : WF_queVars(which = "queues" /\ (Queues!FlowTake(w) \/ Queues!FlowEnds(w) \/ Queues!FlowExit(w)))
    /\ \A m \in Requested : WF_queVars(which = "queues" /\ (Queues!GetReply(m) \/ Queues!Deadline(m)))
    /\ WF_queVars(which = "queues" /\ Queues!Stopping)

MCSpec == MCInit /\ [][MCNext]_<<which, vars, forkVars, refVars, queVars>> /\ MCFairness

-----------------------------------------------------------------------------
(* The instance. *)

\* Two messages whose chains each fork two branches.
FlatKids ==
    ("m1" :> <<"b1", "b2">>) @@ ("m2" :> <<"b3", "b4">>) @@ [b \in Branches |-> <<>>]

\* One message whose fork has a branch with a fork of its own.
NestedKids ==
    ("m1" :> <<"b1", "b2">>) @@ ("b1" :> <<"b3", "b4">>) @@ [b \in Branches |-> <<>>]

\* Two implicit flows that call each other.
CircleFlows == <<"a", "b">>
CircleTarget == ("a" :> "b") @@ ("b" :> "a")
CircleEntry == "c1" :> "a"

-----------------------------------------------------------------------------
\* Shutdown terminates whatever calls whatever, also when flows call each other
\* in a circle and every worker waits for another.
ShutdownTerminates == Refs!ShutdownTerminates
=============================================================================
