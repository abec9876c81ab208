---------------------------- MODULE EditorCanvas ----------------------------
(***************************************************************************)
(* What a user can do on the editor's canvas, palette and settings panel   *)
(* (packages/editor, components/).  Every action is one gesture and the    *)
(* dispatch it makes; what a gesture can point at is what the components   *)
(* render from the current state.  `op` is the type of the last dispatched *)
(* action, `edits` counts the gestures.                                    *)
(***************************************************************************)
EXTENDS EditorReducer

CONSTANTS
    Configs,        \* stored configurations the editor may open
    Palette,        \* bound: the block types a behaviour takes from the palette
    Slugs,          \* what a user may type as a name, after slugify
    MaxEdits        \* bound: gestures in a behaviour

VARIABLES state, op, edits
vars == <<state, op, edits>>

doc == state.document

\* A fresh client id (crypto.randomUUID): no two gestures share one.
newId == "n" \o ToString(edits)

Dispatch(type, next) ==
    /\ edits < MaxEdits
    /\ state' = next
    /\ op' = type
    /\ edits' = edits + 1

Canvas == state.viewMode = "canvas"

Init ==
    /\ \E d \in {blankDocument} \cup {fromConfig(c) : c \in Configs} :
          state = loadDocument(initialState(blankDocument), d)
    /\ op = "LOAD_INTEGRATION"
    /\ edits = 0

(***************************************************************************)
(* Palette and drag and drop.  Every flow on the canvas, nested or on the  *)
(* error path, has an insertion gap before each step and after the last.   *)
(***************************************************************************)
\* The flows drawn: a card draws its steps and its error path, a composite step
\* the flows of its slots.
CanvasFlows == AllFlows(doc)

Gaps(flow) == 0..Len(flow.process)

PaletteClick ==
    /\ Canvas
    /\ \E type \in Palette :
          Dispatch("ADD_BLOCK", addBlock(state, newId, type, Null, 0))

PaletteDrop ==
    /\ Canvas
    /\ \E type \in Palette, f \in CanvasFlows : \E index \in Gaps(f) :
          Dispatch("ADD_BLOCK", addBlock(state, newId, type, f.id, index))

\* A block drag: reorder within the flow (a gap index becomes a move), or move
\* to another flow.  Gaps inside the dragged block are drop targets too.
handleDragEnd(from, i, to, index) ==
    IF from.id # to.id
      THEN Dispatch("MOVE_BLOCK_ACROSS",
                    moveBlockAcross(state, from.id, to.id, from.process[i + 1].id, index))
      ELSE /\ index \notin {i, i + 1}
           /\ Dispatch("MOVE_BLOCK",
                       moveBlock(state, from.id, i, IF index > i THEN index - 1 ELSE index))

DragBlock ==
    /\ Canvas
    /\ \E from, to \in CanvasFlows :
       \E i \in 0..(Len(from.process) - 1), index \in Gaps(to) :
          handleDragEnd(from, i, to, index)

(***************************************************************************)
(* Flow cards, step nodes, the source node and picker.                     *)
(***************************************************************************)
AddFlowClick == Canvas /\ Dispatch("ADD_FLOW", addFlow(state, newId))

NodeClick ==
    /\ Canvas
    /\ \E f \in CanvasFlows : \E b \in Range(f.process) :
          \/ Dispatch("SELECT_BLOCK", selectBlock(state, b.id))
          \/ Dispatch("REMOVE_BLOCK", removeBlock(state, f.id, b.id))

FlowCardClick ==
    /\ Canvas
    /\ \E f \in Range(doc.flows) :
          \/ Dispatch("SET_ACTIVE_FLOW", setActiveFlow(state, f.id))
          \/ Dispatch("REMOVE_FLOW", removeFlow(state, f.id))

SourceCardClick ==
    /\ Canvas
    /\ \E f \in Range(doc.flows) :
          /\ f.source # <<>>
          /\ \/ Dispatch("SELECT_SOURCE", selectSource(state, f.id))
             \/ Dispatch("REMOVE_SOURCE", removeSource(state, f.id))

SourcePick ==
    /\ Canvas
    /\ \E f \in Range(doc.flows), c \in DOMAIN SourceSpec :
          /\ f.source = <<>>
          /\ \E type \in SourceSpec[c] :
                Dispatch("ADD_SOURCE", addSource(state, f.id, c, type))

(***************************************************************************)
(* The settings panel shows one thing: the selected connection, else the   *)
(* selected block, else the selected source, else the active flow.         *)
(***************************************************************************)
PanelConnection == {c \in Range(doc.connectors) : c.id = state.selectedConnectionId}

PanelBlock == IF PanelConnection # {} THEN {} ELSE findBlock(doc, state.selectedBlockId)

PanelSource ==
    IF PanelConnection \cup PanelBlock # {} THEN {}
    ELSE {f \in findFlow(doc, state.selectedSourceFlowId) : f.source # <<>>}

PanelFlow ==
    IF PanelConnection \cup PanelBlock \cup PanelSource # {} THEN {}
    ELSE findFlow(doc, state.activeFlowId)

BlockSettings ==
    /\ Canvas
    /\ \E b \in PanelBlock :
          \/ Dispatch("SELECT_BLOCK", selectBlock(state, Null))
          \/ Dispatch("RENAME_BLOCK", renameBlock(state, b.id, "step"))
          \/ \E name \in referenceOptions(doc, BlockSpec[b.type].ref) :
                Dispatch("UPDATE_BLOCK_SETTING", updateBlockSetting(state, b.id, name))

\* The list slots of the selected block: cases, branches, routes, tools.
ListSlots(b) == {s \in DOMAIN slotFields(b.type) :
                    slotFields(b.type)[s].type \in {"flow-list", "entry-list"}}

SlotListEditor ==
    /\ Canvas
    /\ \E b \in PanelBlock : \E s \in ListSlots(b) :
          \/ Dispatch("ADD_SLOT_FLOW", addSlotFlow(state, newId, b.id, s))
          \/ \E f \in Range(b.slots[s]) :
                \/ Dispatch("REMOVE_SLOT_FLOW", removeSlotFlow(state, b.id, s, f.id))
                \/ /\ slotFields(b.type)[s].type = "entry-list"
                   /\ \/ Dispatch("SET_FLOW_META", setFlowMeta(state, f.id, "meta", "text"))
                      \/ \E name \in Slugs : Dispatch("RENAME_FLOW", renameFlow(state, f.id, name))

SourceSettings ==
    /\ Canvas
    /\ \E f \in PanelSource :
          \/ Dispatch("SELECT_SOURCE", selectSource(state, Null))
          \/ \E name \in referenceOptions(doc, f.source[1].connector) \cup {""} :
                Dispatch("UPDATE_SOURCE_CONNECTOR", updateSourceConnector(state, f.id, name))

ConnectionSettings ==
    /\ Canvas
    /\ \E c \in PanelConnection :
          \/ Dispatch("SELECT_CONNECTION", selectConnection(state, Null))
          \/ \E name \in Slugs :
                Dispatch("RENAME_CONNECTION", renameConnection(state, c.id, name))

\* Tuning is offered for root flows only.
FlowSettings ==
    /\ Canvas
    /\ \E f \in PanelFlow :
          \/ \E name \in Slugs : Dispatch("RENAME_FLOW", renameFlow(state, f.id, name))
          \/ /\ f \in Range(doc.flows)
             /\ Dispatch("SET_FLOW_META", setFlowMeta(state, f.id, "tuning", "2"))

ConnectionsLauncher ==
    /\ Canvas
    /\ \/ \E type \in DOMAIN SourceSpec :
             Dispatch("ADD_CONNECTION", addConnection(state, newId, type))
       \/ \E c \in Range(doc.connectors) :
             \/ Dispatch("SELECT_CONNECTION", selectConnection(state, c.id))
             \/ Dispatch("REMOVE_CONNECTION", removeConnection(state, c.id))

EnvEditor ==
    /\ Canvas
    /\ \E env \in {<<>>} \cup {<<name>> : name \in Slugs \ {""}} :
          Dispatch("SET_ENV", setEnv(state, env))

ViewModeToggle ==
    \E mode \in {"canvas", "yaml"} \ {state.viewMode} :
        Dispatch("SET_VIEW_MODE", setViewMode(state, mode))

NewIntegration == Dispatch("NEW_INTEGRATION", loadDocument(state, emptyDocument(newId)))

Next ==
    \/ PaletteClick \/ PaletteDrop \/ DragBlock \/ AddFlowClick \/ NodeClick
    \/ FlowCardClick \/ SourceCardClick \/ SourcePick
    \/ BlockSettings \/ SlotListEditor \/ SourceSettings \/ ConnectionSettings
    \/ FlowSettings \/ ConnectionsLauncher \/ EnvEditor \/ ViewModeToggle
    \/ NewIntegration

Spec == Init /\ [][Next]_vars

-----------------------------------------------------------------------------
\* The ids of every node of a flow tree, with repetitions.
RECURSIVE IdsIn(_)
IdsIn(flow) ==
    <<flow.id>>
    \o FlattenSeq(MapSeq(flow.process, LAMBDA b :
           <<b.id>> \o FlattenSeq(MapSeq(SetToSeq(DOMAIN b.slots), LAMBDA s :
               FlattenSeq(MapSeq(b.slots[s], IdsIn))))))
    \o FlattenSeq(MapSeq(flow.error, IdsIn))

AllIds(d) == FlattenSeq(MapSeq(d.flows, IdsIn))

\* The last drag put a block into one of its own slots.
IntoItself ==
    \E b \in findBlock(doc, state'.selectedBlockId) :
        state'.activeFlowId \in {f.id : f \in UNION {FlowTree(g) : g \in SlotFlows(b)}}

\* A drag neither loses nor copies a node, whatever nesting it crosses.
MoveStep == op' \in {"MOVE_BLOCK", "MOVE_BLOCK_ACROSS"} =>
                Range(AllIds(doc')) = Range(AllIds(doc))

\* Moving blocks about, in and out of nested slots and error paths, keeps every
\* node of the document (DndProvider.handleDragEnd, moveBlock, moveBlockAcross),
\* a block dropped into one of its own slots apart.
MovesKeepNodes == [][IntoItself \/ MoveStep]_vars

\* Saving what was just loaded writes the same definition: a save, reload, save
\* cycle (toConfig, fromConfig, toConfig) never changes a stored integration
\* that has a flow.
ReloadStable ==
    doc.flows # <<>> => toConfig(fromConfig(toConfig(doc))) = toConfig(doc)

\* The bare chains of a block: their holding flows have no name in the YAML.
ChainFlows(d) ==
    UNION {UNION {Range(b.slots[s]) : s \in {t \in DOMAIN b.slots :
                     slotFields(b.type)[t].type = "block-list"}} : b \in AllBlocks(d)}

\* A document Run accepts is still accepted after it is saved and opened again
\* (validateDocument, toConfig, fromConfig).  Two namings are excepted, which the
\* YAML cannot carry: a connection named like another connector type, and a
\* named chain of a block-list slot.
ValidReload ==
    (/\ validateDocument(doc)
     /\ \A c \in Range(doc.connectors) : c.name \notin DOMAIN SourceSpec \ {c.type}
     /\ \A f \in ChainFlows(doc) : f.name = "")
    => validateDocument(fromConfig(toConfig(doc)))
=============================================================================
