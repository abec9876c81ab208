---------------------------- MODULE EditorSession ----------------------------
(***************************************************************************)
(* One editor tab against its store: SaveContext, IntegrationLoader, the   *)
(* title and file menu, the header's Tag, Duplicate and Deploy, the server *)
(* actions behind them, and the MCP tools that write the same store and    *)
(* announce it on the event stream.                                        *)
(*   "standalone": *.yaml files whose name follows the title (store.ts);   *)
(*   "platform":   integrations with a fixed id (the orchestrator).        *)
(* A definition is [line, rev, name]: the integration it descends from,    *)
(* the edit that made it, its name.  `clock` gives fresh edits and ids.    *)
(***************************************************************************)
EXTENDS Naturals, Sequences, FiniteSets, Functions, SequencesExt

CONSTANTS
    Hosts,          \* the hosts of a behaviour
    Names,          \* titles a user may type
    McpNames,       \* names an MCP client uses besides names nothing ever had
    Deployments,    \* live deployments of the integration
    Waits,          \* the user lets a save finish before opening something else,
                    \* and what was opened, tagged or deployed appear before
                    \* working on
    MaxClock,       \* bound: edits, creations and MCP writes
    MaxFails,       \* bound: failed calls
    MaxOpens,       \* bound: loads after which nothing else is opened
    MaxShips        \* bound: uses of Tag, Duplicate and Deploy

ASSUME SessionBounds == {MaxClock, MaxFails, MaxOpens, MaxShips} \subseteq Nat

VARIABLES host, files, editor, calls, events, ship, snapshots, live, clock, fails
vars == <<host, files, editor, calls, events, ship, snapshots, live, clock, fails>>

None == ""
DefaultName == "untitled"
Standalone == host = "standalone"

Definition(line, rev, name) == [line |-> line, rev |-> rev, name |-> name]

\* An in-flight server action or MCP tool call.
Call(op, seq, id, name, obj, def) ==
    [op |-> op, stage |-> "sent", seq |-> seq, id |-> id, name |-> name,
     obj |-> obj, def |-> def, target |-> None]

\* The editor mounts on a new document, or on a stored one it starts to load.
NewEditor(prop, line) ==
    [doc |-> [obj |-> line, line |-> line, rev |-> 0], id |-> None, name |-> "",
     loaded |-> 0, snapshot |-> [obj |-> 0, name |-> ""], busy |-> FALSE,
     error |-> FALSE, prop |-> prop, nav |-> prop, idRef |-> prop, banner |-> FALSE, missed |-> FALSE,
     seq |-> 1]

\* No Tag, Duplicate or Deploy under way.
Idle == [stage |-> "idle", kind |-> None, shown |-> 0, rev |-> 0, todo |-> {}]

Init ==
    /\ host \in Hosts
    /\ files = [id \in {"a"} |-> Definition(1, 1, "a")]
    /\ \E prop \in {None, "a"} :
          /\ editor = NewEditor(prop, 2)
          /\ calls = IF prop = None THEN {}
                     ELSE {Call("load", 1, prop, None, 0, Definition(0, 0, ""))}
    /\ events = <<>>
    /\ ship = Idle
    /\ snapshots = {}
    /\ live = [d \in Deployments |-> 0]
    /\ clock = 2
    /\ fails = 0

Step(c, next) == calls' = (calls \ {c}) \cup {next}
StoreUnchanged == UNCHANGED <<files, events, ship, snapshots, live, fails, host>>
EditorUnchanged == UNCHANGED <<editor, ship, snapshots, live, host>>

(***************************************************************************)
(* The store.  The first free id for a name, looked up before the write.   *)
(***************************************************************************)
freeId(name) ==
    LET suffixed(n) == IF n = 1 THEN name ELSE name \o "-" \o ToString(n)
        free == {n \in 1..(Cardinality(DOMAIN files) + 1) : suffixed(n) \notin DOMAIN files}
    IN  suffixed(CHOOSE n \in free : \A m \in free : n <= m)

Writes(stage) == {c \in calls : c.op \in {"save", "mcp"} /\ c.stage = stage}
Put(id, def) == [i \in DOMAIN files \cup {id} |-> IF i = id THEN def ELSE files[i]]

\* createFlow, updateFlow: the file to write.  A name other than the file's
\* moves the flow to a free one.
Place ==
    \E c \in Writes("sent") :
        /\ Standalone
        /\ Step(c, [c EXCEPT !.stage = "placed", !.target =
               IF c.id # None /\ c.name \in {None, c.id} THEN c.id ELSE freeId(c.name)])
        /\ UNCHANGED <<files, events, clock, fails>> /\ EditorUnchanged

\* The new file lands; a renamed flow still has its old one.
writeFlow ==
    \E c \in Writes("placed") :
        /\ files' = Put(c.target, [c.def EXCEPT !.name = c.target])
        /\ Step(c, [c EXCEPT !.stage = IF c.id \in {None, c.target} THEN "stored" ELSE "written"])
        /\ UNCHANGED <<events, clock, fails>> /\ EditorUnchanged

RemoveOldAnyway ==
    \E c \in Writes("placed") \cup Writes("written") :
        /\ c.id # None
        /\ files' = Restrict(files, DOMAIN files \ {c.id})
        /\ Step(c, IF c.stage = "placed" THEN c ELSE [c EXCEPT !.stage = "stored"])
        /\ UNCHANGED <<events, clock, fails>> /\ EditorUnchanged

RemoveOld ==
    \E c \in Writes("written") :
        /\ files' = Restrict(files, DOMAIN files \ {c.id})
        /\ Step(c, [c EXCEPT !.stage = "stored"])
        /\ UNCHANGED <<events, clock, fails>> /\ EditorUnchanged

\* The orchestrator writes an existing row in place, keeping the name when none
\* is given, and gives a new row an id.
WriteRow ==
    \E c \in Writes("sent") :
        LET id == IF c.id = None THEN "u" \o ToString(c.def.rev) ELSE c.id
        IN  /\ ~Standalone
            /\ files' = Put(id, [c.def EXCEPT !.name = IF c.name = None THEN files[id].name ELSE @])
            /\ Step(c, [c EXCEPT !.stage = "stored", !.target = id])
            /\ UNCHANGED <<events, clock, fails>> /\ EditorUnchanged

\* A save's request or write fails, or the orchestrator's answer is lost (the
\* standalone's server and disk are local).  An MCP call takes the same path.
Fail ==
    /\ fails < MaxFails
    /\ \E c \in calls :
          /\ c.op = "save" /\ c.stage # "failed" /\ (Standalone => c.stage # "stored")
          /\ Step(c, [c EXCEPT !.stage = "failed"])
    /\ fails' = fails + 1
    /\ UNCHANGED <<files, events, clock>> /\ EditorUnchanged

Read ==
    \E c \in {k \in calls : k.op = "load" /\ k.stage = "sent"} :
        /\ Step(c, IF c.id \in DOMAIN files
                     THEN [c EXCEPT !.stage = "stored", !.def = files[c.id]]
                     ELSE [c EXCEPT !.stage = "failed"])
        /\ UNCHANGED <<files, events, clock, fails>> /\ EditorUnchanged

(***************************************************************************)
(* MCP tools: create_integration and update_integration, with or without a *)
(* new name, announced once they are written.  One client, one call at a   *)
(* time.                                                                   *)
(***************************************************************************)
McpCall(id, name, line) ==
    /\ clock < MaxClock
    /\ ~\E c \in calls : c.op = "mcp"
    /\ clock' = clock + 1
    /\ calls' = calls \cup {Call("mcp", 0, id, name, 0, Definition(line, clock + 1, name))}
    /\ UNCHANGED editor /\ StoreUnchanged

McpName == McpNames \cup {"m" \o ToString(clock + 1)}
McpCreate == \E name \in McpName : McpCall(None, name, clock + 1)
McpUpdate == \E id \in DOMAIN files, name \in McpName \cup {None} :
                 McpCall(id, name, files[id].line)

\* The stream hands the editor every event, in order.
publish(id) == events' = Append(events, id)
integrationEventStream == events' = Tail(events)

announce ==
    \E c \in {k \in calls : k.op = "mcp" /\ k.stage = "stored"} :
        /\ publish(c.target)
        /\ calls' = calls \ {c}
        /\ UNCHANGED <<files, clock, fails>> /\ EditorUnchanged

(***************************************************************************)
(* Editing, saving and the file menu.                                      *)
(***************************************************************************)
saved == editor.snapshot = [obj |-> editor.doc.obj, name |-> editor.name]
empty == editor.doc.rev = 0

\* A document is being opened and is not on the canvas yet.
Opening ==
    \/ editor.nav # editor.prop
    \/ \E c \in calls : c.op = "load" /\ c.seq = editor.seq /\ c.id # editor.id
MayWork == Waits => ~Opening /\ ship.stage = "idle"

Edit ==
    /\ MayWork /\ clock < MaxClock
    /\ clock' = clock + 1
    /\ editor' = [editor EXCEPT !.doc.obj = clock + 1, !.doc.rev = clock + 1]
    /\ UNCHANGED calls /\ StoreUnchanged

SetTitle ==
    \E name \in Names \ {editor.name} :
        /\ MayWork
        /\ editor' = [editor EXCEPT !.name = name]
        /\ UNCHANGED <<calls, clock>> /\ StoreUnchanged

CanSave == ~editor.busy /\ ~empty /\ ~saved

SaveCall ==
    LET name == IF editor.name = "" THEN DefaultName ELSE editor.name
    IN  Call("save", 0, editor.id, name, editor.doc.obj,
             Definition(editor.doc.line, editor.doc.rev, name))

save ==
    /\ MayWork /\ CanSave
    /\ editor' = [editor EXCEPT !.busy = TRUE, !.error = FALSE]
    /\ calls' = calls \cup {SaveCall}
    /\ UNCHANGED clock /\ StoreUnchanged

\* The answer: the persisted id and a defaulted name are adopted by whatever
\* document is open by then.
Adopt(ed, c) ==
    [ed EXCEPT !.id = IF c.target # c.id THEN c.target ELSE @,
               !.name = IF c.name = DefaultName THEN DefaultName ELSE @,
               !.snapshot = [obj |-> c.obj, name |-> c.name],
               !.idRef = c.target]

SaveReply ==
    \E c \in {k \in calls : k.op = "save" /\ k.stage \in {"stored", "failed"}} :
        /\ calls' = calls \ {c}
        /\ editor' = [(IF c.stage = "stored" THEN Adopt(editor, c) ELSE editor)
                        EXCEPT !.busy = FALSE, !.error = c.stage = "failed"]
        /\ ship' = IF ship.stage = "saving" THEN [ship EXCEPT !.stage = "freezing"] ELSE ship
        /\ UNCHANGED <<clock, files, events, snapshots, live, fails, host>>

MayLeave == Standalone /\ (Waits => ~editor.busy)

newFlowKeepsId ==
    /\ MayLeave /\ clock < MaxClock
    /\ clock' = clock + 1
    /\ editor' = [editor EXCEPT !.doc = [obj |-> clock + 1, line |-> clock + 1, rev |-> 0],
                                !.name = "", !.nav = None]
    /\ UNCHANGED calls /\ StoreUnchanged

newFlow ==
    /\ MayLeave /\ clock < MaxClock
    /\ clock' = clock + 1
    /\ editor' = [editor EXCEPT !.doc = [obj |-> clock + 1, line |-> clock + 1, rev |-> 0],
                                !.id = None, !.name = "", !.nav = None]
    /\ UNCHANGED calls /\ StoreUnchanged

OpenFile ==
    /\ MayLeave /\ editor.seq < MaxOpens
    /\ \E id \in DOMAIN files : editor' = [editor EXCEPT !.nav = id]
    /\ UNCHANGED <<calls, clock>> /\ StoreUnchanged

(***************************************************************************)
(* IntegrationLoader.                                                      *)
(***************************************************************************)
Load(ed) ==
    /\ calls' = calls \cup {Call("load", ed.seq + 1, ed.prop, None, 0, Definition(0, 0, ""))}
    /\ editor' = [ed EXCEPT !.seq = @ + 1, !.missed = FALSE]

\* The route changed: the effect's cleanup retires loads in flight, and the new
\* document is loaded.
Navigated ==
    /\ editor.nav # editor.prop
    /\ LET ed == [editor EXCEPT !.prop = editor.nav, !.idRef = editor.nav, !.seq = @ + 1]
       IN  IF ed.prop = None THEN editor' = ed /\ UNCHANGED calls ELSE Load(ed)
    /\ UNCHANGED clock /\ StoreUnchanged

Loaded(ed, c, obj) ==
    [ed EXCEPT !.doc = [obj |-> obj, line |-> c.def.line, rev |-> c.def.rev],
               !.id = c.id, !.name = c.def.name, !.loaded = obj, !.banner = FALSE]

LoadReplyAny ==
    \E c \in {k \in calls : k.op = "load" /\ k.stage \in {"stored", "failed"}} :
        /\ calls' = calls \ {c}
        /\ editor' = IF c.stage = "stored"
                       THEN Loaded(editor, c, MaxClock + c.seq) ELSE editor
        /\ UNCHANGED clock /\ StoreUnchanged

\* A superseded load and a failed one are dropped.  The new object has an id of
\* its own: no edit, no earlier load has it.
LoadReply ==
    \E c \in {k \in calls : k.op = "load" /\ k.stage \in {"stored", "failed"}} :
        /\ calls' = calls \ {c}
        /\ editor' = IF c.seq = editor.seq /\ c.stage = "stored"
                       THEN Loaded(editor, c, MaxClock + c.seq) ELSE editor
        /\ UNCHANGED clock /\ StoreUnchanged

OpenFileChanged(id) == id = editor.idRef
Loading == \E c \in calls : c.op = "load" /\ c.seq = editor.seq
dirty == editor.loaded # 0 /\ editor.doc.obj # editor.loaded

\* An announced write of the open file reloads a clean editor and shows the
\* banner in a dirty one; without an integrationId nothing happens.  `missed`
\* records a banner raised while a load is in flight: its answer, perhaps read
\* before the write, hides the banner again.
EventArrives ==
    /\ events # <<>>
    /\ integrationEventStream
    /\ IF ~OpenFileChanged(Head(events)) \/ editor.prop = None THEN UNCHANGED <<editor, calls>>
       ELSE IF dirty THEN /\ editor' = [editor EXCEPT !.banner = TRUE, !.missed = @ \/ Loading]
                          /\ UNCHANGED calls
       ELSE Load(editor)
    /\ UNCHANGED <<files, ship, snapshots, live, clock, fails, host>>

Banner ==
    /\ editor.banner
    /\ \/ editor.seq < MaxOpens /\ Load(editor)
       \/ editor' = [editor EXCEPT !.banner = FALSE] /\ UNCHANGED calls
    /\ UNCHANGED clock /\ StoreUnchanged

(***************************************************************************)
(* The platform header: Tag, Duplicate and Deploy save first, then use     *)
(* what is stored under the id the last save returned.                     *)
(***************************************************************************)
SaveFirst(kind) ==
    /\ ~Standalone /\ MayWork /\ (Waits => ~editor.busy)
    /\ ship.stage = "idle" /\ ~empty
    /\ Cardinality(snapshots) < MaxShips
    /\ ship' = [Idle EXCEPT !.kind = kind, !.shown = editor.doc.rev,
                            !.stage = IF CanSave THEN "saving" ELSE "freezing"]
    /\ IF CanSave THEN /\ calls' = calls \cup {SaveCall}
                       /\ editor' = [editor EXCEPT !.busy = TRUE, !.error = FALSE]
       ELSE UNCHANGED <<calls, editor>>
    /\ UNCHANGED <<files, events, snapshots, live, clock, fails, host>>

TagClick == SaveFirst("tag")
DuplicateClick == SaveFirst("duplicate")
DeployClick == SaveFirst("deploy")

Frozen(rev) == snapshots' = snapshots \cup
                   {[rev |-> rev, shown |-> ship.shown]}

\* save() has returned, whether it stored, failed or did nothing.
Freeze ==
    /\ ship.stage = "freezing" /\ ship.kind # "duplicate"
    /\ IF editor.idRef = None THEN ship' = Idle /\ UNCHANGED snapshots
       ELSE LET rev == files[editor.idRef].rev
            IN  /\ Frozen(rev)
                /\ ship' = IF ship.kind = "tag" THEN Idle
                           ELSE [ship EXCEPT !.stage = "rolling", !.rev = rev,
                                             !.todo = Deployments]
    /\ UNCHANGED <<editor, calls, files, events, live, clock, fails, host>>

\* Duplicate creates a second integration and opens it.
duplicate ==
    /\ ship.stage = "freezing" /\ ship.kind = "duplicate"
    /\ IF editor.idRef = None \/ clock = MaxClock
         THEN ship' = Idle /\ UNCHANGED <<editor, calls, files, snapshots, clock>>
         ELSE LET copy == "u" \o ToString(clock + 1)
                  def == files[editor.idRef]
              IN  /\ clock' = clock + 1
                  /\ files' = (copy :> Definition(clock + 1, def.rev, copy)) @@ files
                  /\ Frozen(def.rev)
                  /\ ship' = Idle
                  /\ editor' = NewEditor(copy, clock + 1)
                  /\ calls' = {Call("load", 1, copy, None, 0, Definition(0, 0, ""))}
                             \cup {c \in calls : c.op = "mcp"}
    /\ UNCHANGED <<events, live, fails, host>>

\* Every live deployment is repointed in turn; a failed rollout ends the rest.
Rollout ==
    /\ ship.stage = "rolling"
    /\ \/ ship.todo = {} /\ ship' = Idle /\ UNCHANGED <<live, fails>>
       \/ /\ fails < MaxFails /\ fails' = fails + 1
          /\ ship' = Idle /\ UNCHANGED live
       \/ \E d \in ship.todo :
             /\ live' = [live EXCEPT ![d] = ship.rev]
             /\ ship' = [ship EXCEPT !.todo = @ \ {d}]
             /\ UNCHANGED fails
    /\ UNCHANGED <<editor, calls, files, events, snapshots, clock, host>>

Next ==
    \/ Place \/ writeFlow \/ RemoveOld \/ WriteRow \/ Fail \/ Read
    \/ McpCreate \/ McpUpdate \/ announce
    \/ Edit \/ SetTitle \/ save \/ SaveReply \/ newFlow \/ OpenFile
    \/ Navigated \/ LoadReply \/ EventArrives \/ Banner
    \/ TagClick \/ DuplicateClick \/ DeployClick \/ Freeze \/ duplicate \/ Rollout

Spec == Init /\ [][Next]_vars

-----------------------------------------------------------------------------
\* A save writes over nothing but its own integration's file: what the editor
\* has open and what the file it is about to write holds descend from the same
\* document (SaveContext.save, store.ts updateFlow and freeId).
OwnFile ==
    \A c \in calls : c.op = "save" /\ c.stage = "placed" /\ c.target \in DOMAIN files
                     => files[c.target].line = c.def.line

\* No integration disappears from the store: a rename removes the old file only
\* after the new one lands, also when calls fail in between (store.ts:129).
KeptInStore ==
    [][\A line \in {files[id].line : id \in DOMAIN files} :
          line \in {files'[id].line : id \in DOMAIN files'}]_vars

\* Once every call has answered and every event has arrived, an editor without
\* unsaved edits that has not `missed` an event shows what is stored, whatever the
\* MCP tools wrote meanwhile (IntegrationLoader, @octo/events, the store adapters).
CleanIsCurrent ==
    (/\ calls = {} /\ events = <<>> /\ editor.nav = editor.prop
     /\ editor.prop = editor.idRef /\ editor.prop \in DOMAIN files
     /\ editor.loaded # 0 /\ ~dirty /\ editor.id = editor.prop
     /\ ~editor.missed /\ ~editor.error /\ editor.snapshot.obj = 0)
    => editor.doc.rev = files[editor.prop].rev

\* What Tag, Duplicate and Deploy freeze is not older than what was on screen when
\* they were clicked: TagButton.tsx:10 says tagging saves first "so the snapshot
\* matches what's on screen".
ShippedHasShown == \A s \in snapshots : s.rev >= s.shown
=============================================================================
