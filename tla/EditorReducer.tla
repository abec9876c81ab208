--------------------------- MODULE EditorReducer ---------------------------
(***************************************************************************)
(* The editor's reducer (packages/editor, state/): every dispatched action *)
(* as a function from the state and its payload to the next state.  `id`   *)
(* is the fresh client id a transition may need.  The pointers of a state  *)
(* are ids, or Null.                                                       *)
(***************************************************************************)
EXTENDS EditorConfig

initialState(doc) ==
    [document |-> doc, viewMode |-> "canvas", activeFlowId |-> Null,
     selectedBlockId |-> Null, selectedSourceFlowId |-> Null,
     selectedConnectionId |-> Null]

Unselected(st) ==
    [st EXCEPT !.selectedBlockId = Null, !.selectedSourceFlowId = Null,
               !.selectedConnectionId = Null]

\* A pointer is dropped when it no longer resolves in the new document.
Resolved(st, doc) ==
    LET flow(id) == IF findFlow(doc, id) = {} THEN Null ELSE id
    IN  [st EXCEPT !.document = doc,
                   !.activeFlowId = flow(@),
                   !.selectedSourceFlowId = flow(@),
                   !.selectedBlockId = IF findBlock(doc, @) = {} THEN Null ELSE @]

\* Array.splice(index, 0, x), with the index counted from 0.
Inserted(seq, index, x) == InsertAt(seq, index + 1, x)

newFlow(doc, id) ==
    withErrorChain(emptyFlow(id, "flow-" \o ToString(Len(doc.flows) + 1)))

addFlow(st, id) ==
    [Unselected(st) EXCEPT
       !.document.flows = Append(@, newFlow(st.document, id)),
       !.activeFlowId = id]

\* No target flow yet: one is created, and starts with the block.
addBlock(st, id, blockType, flowId, index) ==
    LET block == newBlock(id, blockType)
        flow == [newFlow(st.document, id \o "f") EXCEPT !.process = <<block>>]
        target == IF flowId = Null THEN st.activeFlowId ELSE flowId
        found == findFlow(st.document, target) # {}
        at(f) == [f EXCEPT !.process =
                     Inserted(@, IF flowId = Null THEN Len(@) ELSE index, block)]
    IN  [Unselected(st) EXCEPT
           !.document = IF found THEN mapFlow(@, target, at)
                        ELSE [@ EXCEPT !.flows = Append(@, flow)],
           !.activeFlowId = IF found THEN target ELSE flow.id,
           !.selectedBlockId = id]

moveBlock(st, flowId, from, to) ==
    LET move(f) == [f EXCEPT !.process = Inserted(RemoveAt(@, from + 1), to, @[from + 1])]
    IN  [st EXCEPT !.document = mapFlow(@, flowId, move)]

Without(flow, blockId) ==
    [flow EXCEPT !.process = SelectSeq(@, LAMBDA b : b.id # blockId)]

moveBlockAcross(st, fromFlowId, toFlowId, blockId, index) ==
    LET block == Found(findBlock(st.document, blockId))
        insert(f) == [f EXCEPT !.process = Inserted(@, index, block)]
        without == mapFlow(st.document, fromFlowId, LAMBDA f : Without(f, blockId))
    IN  [Unselected(st) EXCEPT !.document = mapFlow(without, toFlowId, insert),
                               !.activeFlowId = toFlowId, !.selectedBlockId = blockId]

removeBlock(st, flowId, blockId) ==
    [st EXCEPT !.document = mapFlow(@, flowId, LAMBDA f : Without(f, blockId)),
               !.selectedBlockId = IF @ = blockId THEN Null ELSE @]

removeFlow(st, flowId) ==
    Resolved(st, [st.document EXCEPT
                    !.flows = SelectSeq(@, LAMBDA f : f.id # flowId)])

renameFlow(st, flowId, name) ==
    [st EXCEPT !.document = mapFlow(@, flowId, LAMBDA f : [f EXCEPT !.name = name])]

updateBlockSetting(st, blockId, value) ==
    [st EXCEPT !.document = mapBlockById(@, blockId, LAMBDA b : [b EXCEPT !.ref = value])]

renameBlock(st, blockId, name) ==
    [st EXCEPT !.document = mapBlockById(@, blockId, LAMBDA b : [b EXCEPT !.name = name])]

selectBlock(st, blockId) == [Unselected(st) EXCEPT !.selectedBlockId = blockId]

setActiveFlow(st, flowId) == [Unselected(st) EXCEPT !.activeFlowId = flowId]

\* LOAD_DOCUMENT, and the document half of LOAD_INTEGRATION and NEW_INTEGRATION.
loadDocument(st, doc) ==
    [Unselected(st) EXCEPT
       !.document = doc,
       !.activeFlowId = IF doc.flows = <<>> THEN Null ELSE doc.flows[1].id]

(***************************************************************************)
(* A flow's source.                                                        *)
(***************************************************************************)
addSource(st, flowId, connector, type) ==
    LET with(f) == [f EXCEPT !.source = <<[connector |-> connector, ref |-> "", type |-> type]>>]
    IN  [Unselected(st) EXCEPT
           !.document = mapFlow(@, flowId, with),
           !.activeFlowId = flowId, !.selectedSourceFlowId = flowId]

selectSource(st, flowId) ==
    [Unselected(st) EXCEPT !.selectedSourceFlowId = flowId,
                           !.activeFlowId = IF flowId = Null THEN @ ELSE flowId]

updateSourceConnector(st, flowId, name) ==
    LET bind(f) == [f EXCEPT !.source = MapSeq(@, LAMBDA s : [s EXCEPT !.ref = name])]
    IN  [st EXCEPT !.document = mapFlow(@, flowId, bind)]

removeSource(st, flowId) ==
    [st EXCEPT !.document = mapFlow(@, flowId, LAMBDA f : [f EXCEPT !.source = <<>>]),
               !.selectedSourceFlowId = IF @ = flowId THEN Null ELSE @]

(***************************************************************************)
(* Connections, environment, slots and metadata.                           *)
(***************************************************************************)
addConnection(st, id, type) ==
    [Unselected(st) EXCEPT
       !.document.connectors =
           Append(@, newConnector(id, type, Range(ConnectorNames(st.document)))),
       !.selectedConnectionId = id]

selectConnection(st, id) == [Unselected(st) EXCEPT !.selectedConnectionId = id]

renameConnection(st, id, name) ==
    [st EXCEPT !.document.connectors =
        MapSeq(@, LAMBDA c : IF c.id = id THEN [c EXCEPT !.name = name] ELSE c)]

removeConnection(st, id) ==
    [st EXCEPT !.document.connectors = SelectSeq(@, LAMBDA c : c.id # id),
               !.selectedConnectionId = IF @ = id THEN Null ELSE @]

setEnv(st, env) == [st EXCEPT !.document.env = env]

addSlotFlow(st, id, blockId, field) ==
    LET grow(b) == [b EXCEPT !.slots[field] = Append(@, emptyFlow(id, ""))]
    IN  [st EXCEPT !.document = mapBlockById(@, blockId, grow)]

removeSlotFlow(st, blockId, field, flowId) ==
    LET shrink(b) == [b EXCEPT !.slots[field] = SelectSeq(@, LAMBDA f : f.id # flowId)]
    IN  Resolved(st, mapBlockById(st.document, blockId, shrink))

setFlowMeta(st, flowId, field, value) ==
    LET set(f) == IF field = "tuning" THEN [f EXCEPT !.tuning = value]
                  ELSE [f EXCEPT !.meta = value]
    IN  [st EXCEPT !.document = mapFlow(@, flowId, set)]

setViewMode(st, mode) == [st EXCEPT !.viewMode = mode]
=============================================================================
