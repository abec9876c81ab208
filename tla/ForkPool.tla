------------------------------ MODULE ForkPool -------------------------------
(***************************************************************************)
(* The shared pool of a flow and the fork blocks that run on it:           *)
(* core/internal/pool/pool.go, fork.Process in                             *)
(* core/internal/engine/composites.go, and the part of boundFlow.stop that *)
(* tears the pool down.                                                    *)
(*                                                                         *)
(* A node is one execution of a chain of blocks: a message at the root, or *)
(* a branch of a fork.  Kids[n] is the branches of the fork in the chain   *)
(* of n, in order; the chain of a node without kids has no fork in it.     *)
(* A goroutine holds the node it executes until the chain returns.         *)
(***************************************************************************)
EXTENDS Naturals, Sequences

CONSTANTS Messages,     \* the executions of the flow's root chain
          Branches,     \* the executions of fork branches
          Kids,         \* Kids[n]: the branches forked by n
          FlowWorkers,  \* goroutines of boundFlow.worker
          PoolWorkers,  \* goroutines of Pool.worker
          Queue,        \* capacity of Pool.tasks
          None          \* no node, no error

Nodes == Messages \cup Branches
Goroutines == FlowWorkers \cup PoolWorkers

NodesAssumption == Messages \cap Branches = {} /\ None \notin Nodes
GoroutinesAssumption == FlowWorkers \cap PoolWorkers = {}
QueueAssumption == Queue \in Nat \ {0}
KidsAssumption ==
    /\ Kids \in [Nodes -> Seq(Branches)]
    /\ \A m, n \in Nodes : \A i \in DOMAIN Kids[m], j \in DOMAIN Kids[n] :
          Kids[m][i] = Kids[n][j] => m = n /\ i = j

VARIABLES
    node,       \* node[n]: "new", "queued", "running" or "done"
    submitted,  \* submitted[n]: how many branches the fork of n has submitted
    firstErr,   \* firstErr[n]: the branch whose error the fork of n keeps
    failed,     \* the nodes whose chain returned an error
    on,         \* on[g]: the node goroutine g executes
    tasks,      \* Pool.tasks
    exited,     \* goroutines that have returned
    stage,      \* boundFlow.stop: "up", "drain", "pool", "stopped"
    crashed     \* an unrecovered panic ended the process

vars == <<node, submitted, firstErr, failed, on, tasks, exited, stage, crashed>>

TypeOK ==
    /\ node \in [Nodes -> {"new", "queued", "running", "done"}]
    /\ submitted \in [Nodes -> Nat] /\ \A n \in Nodes : submitted[n] <= Len(Kids[n])
    /\ firstErr \in [Nodes -> Branches \cup {None}]
    /\ failed \subseteq Nodes
    /\ on \in [Goroutines -> Nodes \cup {None}]
    /\ tasks \in Seq(Branches) /\ Len(tasks) <= Queue
    /\ exited \subseteq Goroutines
    /\ stage \in {"up", "drain", "pool", "stopped"}
    /\ crashed \in BOOLEAN

Init ==
    /\ node = [n \in Nodes |-> "new"]
    /\ submitted = [n \in Nodes |-> 0]
    /\ firstErr = [n \in Nodes |-> None]
    /\ failed = {}
    /\ on = [g \in Goroutines |-> None]
    /\ tasks = <<>>
    /\ exited = {}
    /\ stage = "up"
    /\ crashed = FALSE

IsKid(b, n) == \E i \in DOMAIN Kids[n] : Kids[n][i] = b

-----------------------------------------------------------------------------

\* The source puts a message on the input channel, which is open until it has
\* stopped.
Accept(m) ==
    /\ ~crashed
    /\ node[m] = "new" /\ stage = "up"
    /\ node' = [node EXCEPT ![m] = "queued"]
    /\ UNCHANGED <<submitted, firstErr, failed, on, tasks, exited, stage, crashed>>

\* A flow worker receives a message.
Take(w, m) ==
    /\ ~crashed
    /\ on[w] = None /\ w \notin exited
    /\ node[m] = "queued"
    /\ on' = [on EXCEPT ![w] = m]
    /\ node' = [node EXCEPT ![m] = "running"]
    /\ UNCHANGED <<submitted, firstErr, failed, tasks, exited, stage, crashed>>

\* The loop of Pool.worker receives the next task.
PoolTake(p) ==
    /\ ~crashed
    /\ on[p] = None /\ p \notin exited
    /\ tasks # <<>>
    /\ on' = [on EXCEPT ![p] = Head(tasks)]
    /\ node' = [node EXCEPT ![Head(tasks)] = "running"]
    /\ tasks' = Tail(tasks)
    /\ UNCHANGED <<submitted, firstErr, failed, exited, stage, crashed>>

\* fork.Process submits its next branch.  Submit never blocks: it panics when
\* the queue is full, and a send on the closed queue panics too.
Submit(g, n) ==
    /\ ~crashed
    /\ on[g] = n
    /\ submitted[n] < Len(Kids[n])
    /\ LET b == Kids[n][submitted[n] + 1] IN
         \/ /\ stage \in {"up", "drain"} /\ Len(tasks) < Queue
            /\ tasks' = Append(tasks, b)
            /\ node' = [node EXCEPT ![b] = "queued"]
            /\ submitted' = [submitted EXCEPT ![n] = @ + 1]
            /\ UNCHANGED crashed
         \/ /\ stage \in {"pool", "stopped"} \/ Len(tasks) = Queue
            /\ crashed' = TRUE
            /\ UNCHANGED <<tasks, node, submitted>>
    /\ UNCHANGED <<firstErr, failed, on, exited, stage>>

\* Variant: the error of a branch is not kept.
ReturnNoError(g, n) ==
    /\ ~crashed
    /\ on[g] = n
    /\ submitted[n] = Len(Kids[n])
    /\ \A b \in Branches : IsKid(b, n) => node[b] = "done"
    /\ \E err \in BOOLEAN :
         /\ firstErr[n] # None => err
         /\ failed' = IF err THEN failed \cup {n} ELSE failed
    /\ node' = [node EXCEPT ![n] = "done"]
    /\ on' = [on EXCEPT ![g] = None]
    /\ UNCHANGED <<submitted, firstErr, tasks, exited, stage, crashed>>

\* Variant: a branch that fails skips its wg.Done.
ReturnNoDone(g, n) ==
    /\ ~crashed
    /\ on[g] = n
    /\ submitted[n] = Len(Kids[n])
    /\ \A b \in Branches : IsKid(b, n) => node[b] = "done"
    /\ \/ node' = [node EXCEPT ![n] = "done"] /\ UNCHANGED failed
       \/ failed' = failed \cup {n} /\ UNCHANGED node
    /\ on' = [on EXCEPT ![g] = None]
    /\ UNCHANGED <<submitted, firstErr, tasks, exited, stage, crashed>>

\* The chain of n returns.  wg.Wait has seen every branch of its fork return;
\* with a branch error the fork fails and so does the chain, otherwise another
\* block of the chain may still fail.  The error of a branch is the fork's if
\* it is the first.
Return(g, n) ==
    /\ ~crashed
    /\ on[g] = n
    /\ submitted[n] = Len(Kids[n])
    /\ \A b \in Branches : IsKid(b, n) => node[b] = "done"
    /\ \E err \in BOOLEAN :
         /\ firstErr[n] # None => err
         /\ failed' = IF err THEN failed \cup {n} ELSE failed
         /\ firstErr' = [p \in Nodes |->
                           IF err /\ IsKid(n, p) /\ firstErr[p] = None THEN n ELSE firstErr[p]]
    /\ node' = [node EXCEPT ![n] = "done"]
    /\ on' = [on EXCEPT ![g] = None]
    /\ UNCHANGED <<submitted, tasks, exited, stage, crashed>>

\* The source has stopped and the input channel is closed.
CloseIn ==
    /\ ~crashed
    /\ stage = "up"
    /\ stage' = "drain"
    /\ UNCHANGED <<node, submitted, firstErr, failed, on, tasks, exited, crashed>>

\* A flow worker finds the channel closed and empty.
WorkerExit(w) ==
    /\ ~crashed
    /\ stage = "drain" /\ on[w] = None /\ w \notin exited
    /\ \A m \in Messages : node[m] # "queued"
    /\ exited' = exited \cup {w}
    /\ UNCHANGED <<node, submitted, firstErr, failed, on, tasks, stage, crashed>>

\* bf.wg.Wait returns and Pool.Stop closes the task queue.
StopPool ==
    /\ ~crashed
    /\ stage = "drain"
    /\ FlowWorkers \subseteq exited
    /\ stage' = "pool"
    /\ UNCHANGED <<node, submitted, firstErr, failed, on, tasks, exited, crashed>>

\* A pool worker finds the queue closed and empty.
PoolExit(p) ==
    /\ ~crashed
    /\ stage = "pool" /\ on[p] = None /\ p \notin exited
    /\ tasks = <<>>
    /\ exited' = exited \cup {p}
    /\ UNCHANGED <<node, submitted, firstErr, failed, on, tasks, stage, crashed>>

\* The wait of Pool.Stop returns.
PoolStopped ==
    /\ ~crashed
    /\ stage = "pool"
    /\ PoolWorkers \subseteq exited
    /\ stage' = "stopped"
    /\ UNCHANGED <<node, submitted, firstErr, failed, on, tasks, exited, crashed>>

Goroutine(g) == \E n \in Nodes : Submit(g, n) \/ Return(g, n)

FlowWorker(w) == WorkerExit(w) \/ \E m \in Messages : Take(w, m)

\* A process that has panicked or stopped takes no more steps.
Over == (crashed \/ stage = "stopped") /\ UNCHANGED vars

Next ==
    \/ \E m \in Messages : Accept(m)
    \/ \E w \in FlowWorkers : FlowWorker(w)
    \/ \E p \in PoolWorkers : PoolTake(p) \/ PoolExit(p)
    \/ \E g \in Goroutines : Goroutine(g)
    \/ CloseIn
    \/ StopPool
    \/ PoolStopped
    \/ Over

\* Every goroutine runs whenever it can; messages and the stop come from outside.
Fairness ==
    /\ \A g \in Goroutines : WF_vars(Goroutine(g))
    /\ \A p \in PoolWorkers : WF_vars(PoolTake(p) \/ PoolExit(p))
    /\ \A w \in FlowWorkers : WF_vars(FlowWorker(w))
    /\ WF_vars(StopPool \/ PoolStopped)

Spec == Init /\ [][Next]_vars

FairSpec == Spec /\ Fairness

-----------------------------------------------------------------------------
(* Properties.                                                             *)

\* A fork that has returned failed if one of its branches failed, and the error
\* it kept is that of a branch of its own ("the first branch error aborts the
\* fork").
ForkKeepsError ==
    \A n \in Nodes :
        /\ firstErr[n] # None => IsKid(firstErr[n], n) /\ firstErr[n] \in failed
        /\ node[n] = "done" /\ (\E b \in failed : IsKid(b, n)) => n \in failed

\* The messages on the channel are taken and finished, or the process has panicked:
\* Submit panics "rather than risk a silent deadlock".
NoSilentDeadlock ==
    (\E m \in Messages : node[m] = "queued")
      ~> (crashed \/ \A m \in Messages : node[m] \in {"new", "done"})

=============================================================================
