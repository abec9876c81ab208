---------------------------- MODULE EditorConfig ----------------------------
(***************************************************************************)
(* The editor document as the runtime configuration that is saved, run and *)
(* read back (model/serialize.ts, serializeFrom.ts), and the pre-flight    *)
(* check that gates Run (model/validate.ts).  The configuration carries no *)
(* ids: references are by name and by position.  A key that is left out of *)
(* the YAML is an empty sequence or an empty string here.                  *)
(***************************************************************************)
EXTENDS EditorDocument

(***************************************************************************)
(* Document to configuration.                                              *)
(***************************************************************************)
sourceToRuntime(doc, source) ==
    [connector |-> connectorResolver(doc, source), type |-> source.type]

RECURSIVE blockToRuntime(_, _)
flowToRuntime(doc, flow) ==
    LET block(b) == blockToRuntime(doc, b)
    IN  [name |-> flow.name,
         source |-> MapSeq(flow.source, LAMBDA s : sourceToRuntime(doc, s)),
         process |-> MapSeq(flow.process, block),
         error |-> IF flow.error = <<>> THEN <<>>
                   ELSE MapSeq(flow.error[1].process, block),
         meta |-> "", tuning |-> flow.tuning]

\* A case, a route or a tool: the inline flow and its per-entry metadata.
entryToRuntime(doc, flow) ==
    [flowToRuntime(doc, flow) EXCEPT !.meta = flow.meta]

slotToRuntime(doc, fieldType, slot) ==
    CASE fieldType = "flow" ->
             MapSeq(SubSeq(slot, 1, IF slot = <<>> THEN 0 ELSE 1),
                    LAMBDA f : flowToRuntime(doc, f))
      [] fieldType = "flow-list" -> MapSeq(slot, LAMBDA f : flowToRuntime(doc, f))
      [] fieldType = "entry-list" -> MapSeq(slot, LAMBDA f : entryToRuntime(doc, f))
      [] fieldType = "block-list" ->
             IF slot = <<>> THEN <<>>
             ELSE MapSeq(slot[1].process, LAMBDA b : blockToRuntime(doc, b))

blockToRuntime(doc, block) ==
    [type |-> block.type, name |-> block.name, ref |-> block.ref,
     slots |-> [s \in DOMAIN slotFields(block.type) |->
                   slotToRuntime(doc, slotFields(block.type)[s].type, block.slots[s])]]

toConfig(doc) ==
    [env |-> doc.env,
     connectors |-> MapSeq(doc.connectors, LAMBDA c : [name |-> c.name, type |-> c.type]),
     flows |-> MapSeq(doc.flows, LAMBDA f : flowToRuntime(doc, f))]

(***************************************************************************)
(* Configuration to document.  Fresh ids are the node's path.  `types` is  *)
(* the map from connection name to connector type.                         *)
(***************************************************************************)
sourceFromRuntimeByName(types, source) ==
    [connector |-> source.connector, ref |-> "", type |-> source.type]

sourceFromRuntime(types, source) ==
    LET bound == source.connector \in DOMAIN types
    IN  [connector |-> IF bound THEN types[source.connector] ELSE source.connector,
         ref |-> IF bound THEN source.connector ELSE "",
         type |-> source.type]

Numbered(seq, Op(_, _)) ==
    SubSeq([i \in DOMAIN seq |-> Op(ToString(i), seq[i])], 1, Len(seq))

RECURSIVE blockFromRuntime(_, _, _)
flowFromRuntimeUntuned(types, id, flow) ==
    [emptyFlow(id, flow.name) EXCEPT
        !.process = Numbered(flow.process, LAMBDA i, b :
                        blockFromRuntime(types, id \o "/" \o i, b)),
        !.meta = flow.meta]

flowFromRuntime(types, id, flow) ==
    LET block(i, b) == blockFromRuntime(types, id \o "/" \o i, b)
        onError(i, b) == blockFromRuntime(types, id \o "!" \o i, b)
    IN  [id |-> id, name |-> flow.name,
         source |-> MapSeq(flow.source, LAMBDA s : sourceFromRuntime(types, s)),
         process |-> Numbered(flow.process, block),
         error |-> IF flow.error = <<>> THEN <<>>
                   ELSE <<[emptyFlow(id \o ".error", "") EXCEPT
                             !.process = Numbered(flow.error, onError)]>>,
         meta |-> flow.meta, tuning |-> flow.tuning]

slotFromRuntime(types, id, fieldType, slot) ==
    IF fieldType = "block-list"
      THEN <<[emptyFlow(id, "") EXCEPT !.process =
                 Numbered(slot, LAMBDA i, b : blockFromRuntime(types, id \o "/" \o i, b))]>>
      ELSE Numbered(slot, LAMBDA i, f : flowFromRuntime(types, id \o i, f))

blockFromRuntime(types, id, block) ==
    [id |-> id, type |-> block.type, name |-> block.name, ref |-> block.ref,
     slots |-> [s \in DOMAIN slotFields(block.type) |->
                   slotFromRuntime(types, id \o "." \o s,
                                   slotFields(block.type)[s].type, block.slots[s])]]

fromConfig(config) ==
    LET names == {c.name : c \in Range(config.connectors)}
        \* A later connection of the same name wins in the Map.
        last(n) == CHOOSE i \in DOMAIN config.connectors :
                      /\ config.connectors[i].name = n
                      /\ \A j \in DOMAIN config.connectors :
                            config.connectors[j].name = n => j <= i
        types == [n \in names |-> config.connectors[last(n)].type]
        connectors == Numbered(config.connectors, LAMBDA i, c :
                         [id |-> "c" \o i, name |-> c.name, type |-> c.type])
        flows == Numbered(config.flows, LAMBDA i, f :
                    withErrorChain(flowFromRuntime(types, "f" \o i, f)))
    IN  [emptyDocument("f1") EXCEPT
           !.flows = IF flows = <<>> THEN @ ELSE flows,
           !.connectors = connectors, !.env = config.env]

(***************************************************************************)
(* The pre-flight check.  An issue list is abstracted to whether it stays  *)
(* empty.                                                                  *)
(***************************************************************************)
checkReference(doc, spec, ref) ==
    spec.ref # NoRef =>
        IF ref = "" THEN ~spec.required ELSE ref \in referenceOptions(doc, spec.ref)

checkSource(doc, source) ==
    LET matching == SelectSeq(doc.connectors, LAMBDA c : c.type = source.connector)
    IN  /\ source.connector \in DOMAIN SourceSpec
        /\ source.type \in SourceSpec[source.connector]
        /\ IF source.ref # ""
             THEN source.ref \in {c.name : c \in Range(matching)}
             ELSE Len(matching) < 2

RECURSIVE checkBlock(_, _)
checkFlow(doc, flow, isTopLevel) ==
    /\ isTopLevel => flow.source # <<>> \/ flow.process # <<>>
    /\ \A s \in Range(flow.source) : checkSource(doc, s)
    /\ \A b \in Range(flow.process) : checkBlock(doc, b)

checkBlock(doc, block) ==
    /\ checkReference(doc, BlockSpec[block.type], block.ref)
    /\ \A s \in DOMAIN slotFields(block.type) :
          LET filled == {f \in Range(block.slots[s]) : f.process # <<>>}
          IN  /\ slotFields(block.type)[s].required => filled # {}
              /\ \A f \in filled : checkFlow(doc, f, FALSE)

validateDocument(doc) ==
    /\ doc.flows # <<>>
    /\ duplicateNames(ConnectorNames(doc)) = {}
    /\ duplicateNames(flowNames(doc)) = {}
    /\ \A f \in Range(doc.flows) : checkFlow(doc, f, TRUE)
=============================================================================
