------------------------------ MODULE MCEditor ------------------------------
(* Small instances of the editor: a leaf with an optional connector         *)
(* reference, a flow-ref, a composite with a tool list and a default flow   *)
(* (ai-agent), and one with two bare block chains (handle-errors).          *)
EXTENDS EditorCanvas

Slot(type, required) == [type |-> type, required |-> required]
EmptySlots == [s \in {} |-> Slot("flow", FALSE)]

MCBlockSpec ==
    [log |-> [ref |-> "logger", required |-> FALSE, slots |-> EmptySlots],
     ref |-> [ref |-> "flow", required |-> TRUE, slots |-> EmptySlots],
     agent |-> [ref |-> "none", required |-> FALSE,
                slots |-> [tools |-> Slot("entry-list", TRUE),
                           default |-> Slot("flow", FALSE)]],
     handle |-> [ref |-> "none", required |-> FALSE,
                 slots |-> [process |-> Slot("block-list", TRUE),
                            error |-> Slot("block-list", TRUE)]]]

MCSourceSpec == [cron |-> {"cron"}, logger |-> {}]

Step(type, ref, slots) == [type |-> type, name |-> "", ref |-> ref, slots |-> slots]
FlowOf(name, source, process, error) ==
    [name |-> name, source |-> source, process |-> process, error |-> error,
     meta |-> "", tuning |-> ""]
LogStep == Step("log", "", [s \in {} |-> <<>>])
Tool == FlowOf("tool", <<>>, <<LogStep>>, <<>>)

\* A scheduled flow whose agent has one tool and whose error path logs, and a
\* callable flow; a handler with both chains filled.
MCConfigs ==
    {[env |-> <<>>, connectors |-> <<>>,
      flows |-> <<FlowOf("main", <<[connector |-> "cron", type |-> "cron"]>>,
                         <<Step("agent", "", [tools |-> <<Tool>>, default |-> <<>>])>>,
                         <<LogStep>>)>>],
     [env |-> <<>>, connectors |-> <<[name |-> "cron", type |-> "cron"]>>,
      flows |-> <<FlowOf("main", <<>>,
                         <<Step("handle", "", [process |-> <<LogStep>>,
                                               error |-> <<LogStep>>])>>, <<>>)>>]}
=============================================================================
