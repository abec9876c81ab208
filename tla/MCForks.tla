------------------------------- MODULE MCForks -------------------------------
(***************************************************************************)
(* Forks and their pool in variables of their own, to stand beside other   *)
(* parts in one specification.                                             *)
(***************************************************************************)
CONSTANTS Forked, Branches, Kids, FlowWorkers, PoolWorkers, Queue, NoNode

VARIABLES
    forkNode, forkSubmitted, forkFirstErr, forkFailed, forkOn, forkTasks, forkExited,
    forkStage, forkCrashed

Forks == INSTANCE ForkPool WITH
    Messages <- Forked, None <- NoNode,
    node <- forkNode, submitted <- forkSubmitted, firstErr <- forkFirstErr,
    failed <- forkFailed, on <- forkOn, tasks <- forkTasks, exited <- forkExited,
    stage <- forkStage, crashed <- forkCrashed

forkVars ==
    <<forkNode, forkSubmitted, forkFirstErr, forkFailed, forkOn, forkTasks, forkExited,
      forkStage, forkCrashed>>

ASSUME ForksAssumption ==
    Forks!NodesAssumption /\ Forks!GoroutinesAssumption /\ Forks!QueueAssumption /\ Forks!KidsAssumption

\* A fork that has returned failed if one of its branches failed, and the error
\* it kept is that of a branch of its own ("the first branch error aborts the
\* fork").
ForkKeepsError == Forks!ForkKeepsError

\* The messages on the channel are taken and finished, or the process has panicked:
\* Submit panics "rather than risk a silent deadlock".
NoSilentDeadlock == Forks!NoSilentDeadlock
=============================================================================
