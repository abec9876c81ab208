------------------------------- MODULE MCEngine ------------------------------
(***************************************************************************)
(* How a flow is reached from elsewhere, and the blocks that meet in a     *)
(* store: flow references, queues, object blocks, cache scopes and agent   *)
(* memory, each on its own.  `which' picks one; the others rest at their   *)
(* first values.                                                           *)
(***************************************************************************)
EXTENDS FlowCalls, MCQueues, MCStores, FiniteSets, TLC

CONSTANTS Agents, Clears, Attempts, MaxIterations, MaxTokens, Strategy, CharsPerToken, Sizes

VARIABLES
    which,
    memEntry, memPc, memMessages, memIter, memVersion, memTries, memOutcome

memVars ==
    <<memEntry, memPc, memMessages, memIter, memVersion, memTries, memOutcome>>

-----------------------------------------------------------------------------
Turns == [role : {"user", "assistant", "tool"}, by : Agents \cup {None}, n : Nat, size : Nat]
Threads == Seq(Turns)

Memory == INSTANCE AgentMemory WITH
    Values <- Threads, entry <- memEntry, pc <- memPc, messages <- memMessages,
    iter <- memIter, version <- memVersion, tries <- memTries, outcome <- memOutcome

ASSUME FlowsAssumption /\ TargetAssumption /\ BoundsAssumption /\ NoneAssumption /\ OrderAssumption
ASSUME Memory!AgentAssumption

MCInit ==
    /\ which \in {"refs", "queues", "objects", "cache", "memory"}
    /\ Init /\ Queues!Init /\ Objects!Init /\ Cache!Init /\ Memory!Init

MCNext ==
    \/ which = "refs" /\ Next /\ UNCHANGED <<which, queVars, objVars, cchVars, memVars>>
    \/ which = "queues" /\ Queues!Next /\ UNCHANGED <<which, vars, objVars, cchVars, memVars>>
    \/ which = "objects" /\ Objects!Next /\ UNCHANGED <<which, vars, queVars, cchVars, memVars>>
    \/ which = "cache" /\ Cache!Next /\ UNCHANGED <<which, vars, queVars, objVars, memVars>>
    \/ which = "memory" /\ Memory!Next /\ UNCHANGED <<which, vars, queVars, objVars, cchVars>>

MCSpec == MCInit /\ [][MCNext]_<<which, vars, queVars, objVars, cchVars, memVars>>

-----------------------------------------------------------------------------
(* The instance. *)

\* A web flow that calls a, which calls b; c1 comes from the web, c2 calls a.
ChainFlows == <<"web", "a", "b">>
ChainTarget == ("web" :> "a") @@ ("a" :> "b") @@ ("b" :> None)
ChainEntry == ("c1" :> "web") @@ ("c2" :> "a")

-----------------------------------------------------------------------------
\* A stored tool turn comes right after the assistant turn that called it.  The
\* one exception: a run that used up its iterations ends with a tool turn, which
\* compaction may have left as the first one.
ToolsFollowCalls == Memory!ToolsFollowCalls

=============================================================================
