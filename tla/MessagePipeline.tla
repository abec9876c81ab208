--------------------------- MODULE MessagePipeline ---------------------------
(***************************************************************************)
(* What a flow of the runtime promises about the messages its source hands *)
(* over (docs/processing-pipeline.md, "Flow events" and "Lifecycle"): a    *)
(* message is accepted only while the flow's input channel is open, every  *)
(* accepted message ends in exactly one of the three terminal outcomes,    *)
(* and the flow has stopped only when every accepted message has ended.    *)
(* How messages are queued, who processes them and who waits for the       *)
(* outcome is left to the modules that implement this one.                 *)
(***************************************************************************)
CONSTANTS Messages,  \* every message a source may ever produce
          Pending    \* the value of outcome[m] before m has ended

Kinds == {"completed", "dropped", "failed"}

VARIABLES phase,     \* "open", then "closed", then "drained"
          accepted,  \* the messages put on the input channel
          outcome    \* outcome[m]: how m ended

pipelineVars == <<phase, accepted, outcome>>

Init ==
    /\ phase = "open"
    /\ accepted = {}
    /\ outcome = [m \in Messages |-> Pending]

\* The source hands m to the flow.
Accept(m) ==
    /\ phase = "open"
    /\ m \notin accepted
    /\ accepted' = accepted \cup {m}
    /\ UNCHANGED <<phase, outcome>>

\* The flow publishes the terminal event of m.
Finish(m, k) ==
    /\ m \in accepted
    /\ outcome[m] = Pending
    /\ outcome' = [outcome EXCEPT ![m] = k]
    /\ UNCHANGED <<phase, accepted>>

\* The runtime closes the input channel.
CloseInput ==
    /\ phase = "open"
    /\ phase' = "closed"
    /\ UNCHANGED <<accepted, outcome>>

\* The runtime has seen every worker return.
Drained ==
    /\ phase = "closed"
    /\ \A m \in accepted : outcome[m] # Pending
    /\ phase' = "drained"
    /\ UNCHANGED <<accepted, outcome>>

Next ==
    \/ \E m \in Messages : Accept(m)
    \/ \E m \in Messages, k \in Kinds : Finish(m, k)
    \/ CloseInput
    \/ Drained

Spec == Init /\ [][Next]_pipelineVars
=============================================================================
