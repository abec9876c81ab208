--------------------------- MODULE EditorDocument ---------------------------
(***************************************************************************)
(* The visual editor's in-memory document (packages/editor, model/         *)
(* document.ts): a recursive tree of flows, whose steps are blocks, whose  *)
(* slots hold flows again.  Every node carries a client id.  A block's     *)
(* settings are abstracted to its one reference field (`ref`, "" when      *)
(* unset); a flow's per-entry metadata (when, description, inputSchema) to *)
(* `meta`; its concurrency tuning (workers, buffer, pool) to `tuning`.  An *)
(* optional part is a sequence of length at most one.                      *)
(***************************************************************************)
EXTENDS Naturals, Sequences, FiniteSets, SequencesExt, Functions

CONSTANTS
    BlockSpec,      \* block type -> [ref, required, slots]; slots: field -> [type, required]
    SourceSpec,     \* connector type -> the source types it exposes
    NoRef           \* a BlockSpec.ref: the block has no reference field

Null == ""

slotFields(type) == BlockSpec[type].slots

emptyFlow(id, name) ==
    [id |-> id, name |-> name, source |-> <<>>, process |-> <<>>,
     error |-> <<>>, meta |-> "", tuning |-> ""]

withErrorChain(flow) ==
    IF flow.error = <<>>
      THEN [flow EXCEPT !.error = <<emptyFlow(flow.id \o ".error", "")>>]
      ELSE flow

newBlock(id, type) ==
    [id |-> id, type |-> type, name |-> "", ref |-> "",
     slots |-> [s \in DOMAIN slotFields(type) |->
                   <<emptyFlow(id \o "." \o s, "")>>]]

blankDocument == [flows |-> <<>>, connectors |-> <<>>, env |-> <<>>]

emptyDocument(id) ==
    [blankDocument EXCEPT !.flows = <<withErrorChain(emptyFlow(id, "new-flow"))>>]

\* Array.map; SubSeq makes TLC evaluate every element once.
MapSeq(seq, Op(_)) == SubSeq([i \in DOMAIN seq |-> Op(seq[i])], 1, Len(seq))

(***************************************************************************)
(* Walking the tree.  SubFlows are the flows one level below a flow: those *)
(* in the slots of its steps, and its error chain.                         *)
(***************************************************************************)
SlotFlows(block) == UNION {Range(block.slots[s]) : s \in DOMAIN block.slots}

SubFlows(flow) ==
    Range(flow.error) \cup UNION {SlotFlows(b) : b \in Range(flow.process)}

RECURSIVE FlowTree(_)
FlowTree(flow) == {flow} \cup UNION {FlowTree(f) : f \in SubFlows(flow)}

AllFlows(doc) == UNION {FlowTree(f) : f \in Range(doc.flows)}

AllBlocks(doc) == UNION {Range(f.process) : f \in AllFlows(doc)}

findFlow(doc, id) == {f \in AllFlows(doc) : f.id = id}

findBlock(doc, id) == {b \in AllBlocks(doc) : b.id = id}

Found(set) == CHOOSE x \in set : TRUE

(***************************************************************************)
(* mapFlow and mapBlockById copy the tree with one node replaced.  The     *)
(* code passes the function to apply; here the node comes with it applied, *)
(* and a node that is not in the tree changes nothing.                     *)
(***************************************************************************)
RECURSIVE PutFlowMainPath(_, _)
PutFlowMainPath(flow, new) ==
    IF flow.id = new.id THEN new
    ELSE LET put(f) == PutFlowMainPath(f, new)
             inSlots(b) == [b EXCEPT !.slots =
                               [s \in DOMAIN b.slots |-> MapSeq(b.slots[s], put)]]
         IN  [flow EXCEPT !.process = MapSeq(flow.process, inSlots)]

RECURSIVE PutFlow(_, _)
PutFlow(flow, new) ==
    IF flow.id = new.id THEN new
    ELSE LET put(f) == PutFlow(f, new)
             inSlots(b) == [b EXCEPT !.slots =
                               [s \in DOMAIN b.slots |-> MapSeq(b.slots[s], put)]]
         IN  [flow EXCEPT !.process = MapSeq(flow.process, inSlots),
                          !.error = MapSeq(flow.error, put)]

mapFlow(doc, id, Fn(_)) ==
    IF findFlow(doc, id) = {} THEN doc
    ELSE LET new == Fn(Found(findFlow(doc, id)))
             put(f) == PutFlow(f, new)
         IN  [doc EXCEPT !.flows = MapSeq(doc.flows, put)]

RECURSIVE PutBlock(_, _)
PutBlock(flow, new) ==
    LET put(f) == PutBlock(f, new)
        step(b) == LET next == IF b.id = new.id THEN new ELSE b
                   IN  [next EXCEPT !.slots =
                           [s \in DOMAIN next.slots |-> MapSeq(next.slots[s], put)]]
    IN  [flow EXCEPT !.process = MapSeq(flow.process, step),
                     !.error = MapSeq(flow.error, put)]

mapBlockById(doc, id, Fn(_)) ==
    IF findBlock(doc, id) = {} THEN doc
    ELSE LET new == Fn(Found(findBlock(doc, id)))
             put(f) == PutBlock(f, new)
         IN  [doc EXCEPT !.flows = MapSeq(doc.flows, put)]

(***************************************************************************)
(* Names: identity.ts and connectors.ts.                                   *)
(***************************************************************************)

\* `base` if free, else base-2, base-3, ...: the first that is not taken.
uniqueSlug(base, taken) ==
    LET suffixed(n) == IF n = 1 THEN base ELSE base \o "-" \o ToString(n)
        free == {n \in 1..(Cardinality(taken) + 1) : suffixed(n) \notin taken}
    IN  suffixed(CHOOSE n \in free : \A m \in free : n <= m)

newConnector(id, type, taken) ==
    [id |-> id, name |-> uniqueSlug(type, taken), type |-> type]

\* The flow names a reference can mean: flow.error is not visited.
RECURSIVE NamesIn(_)
NamesIn(flow) ==
    <<flow.name>> \o FlattenSeq(MapSeq(flow.process, LAMBDA b :
        FlattenSeq(MapSeq(SetToSeq(DOMAIN b.slots), LAMBDA s :
            FlattenSeq(MapSeq(b.slots[s], NamesIn))))))

flowNames(doc) == SelectSeq(FlattenSeq(MapSeq(doc.flows, NamesIn)),
                            LAMBDA name : name # "")

duplicateNames(names) ==
    {n \in Range(names) : n # "" /\ Cardinality({i \in DOMAIN names : names[i] = n}) > 1}

ConnectorNames(doc) == MapSeq(doc.connectors, LAMBDA c : c.name)

referenceOptions(doc, ref) ==
    IF ref = "flow" THEN Range(flowNames(doc))
    ELSE {c.name : c \in {k \in Range(doc.connectors) : k.type = ref}} \ {""}

\* The connection a source is serialized with: its explicit binding, else the
\* only named connection of its connector type, else the type itself.
connectorResolver(doc, source) ==
    LET ofType == SelectSeq(doc.connectors,
                     LAMBDA c : c.type = source.connector /\ c.name # "")
    IN  IF source.ref # "" THEN source.ref
        ELSE IF Len(ofType) = 1 THEN ofType[1].name
        ELSE source.connector
=============================================================================
