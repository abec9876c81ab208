------------------------ MODULE IntegrationsConsole ------------------------
(***************************************************************************)
(* The integrations manager of the platform: a page (IntegrationsManager   *)
(* with its FolderTree, IntegrationList and IntegrationDetail) showing the *)
(* folders and integrations it loaded from the orchestrator, and changing  *)
(* them there.  Other consoles and editors work on the same orchestrator,  *)
(* and the page learns of their changes only when it loads again, so every *)
(* change is decided on a view that may be old.  The others are modelled   *)
(* by the calls they send: theirs may be decided on any view, however old. *)
(*                                                                         *)
(* Names are left out: they order what has the same position, and here the *)
(* ids, which are numbers, do that.  A definition is the number of times   *)
(* the integration has been written.  The confirmation dialogs keep what   *)
(* was clicked and are part of the click.                                  *)
(***************************************************************************)
EXTENDS Integers, Sequences, FiniteSets, FiniteSetsExt, SequencesExt

CONSTANTS NF, NI,        \* folders 1..NF and integrations 1..NI can exist
          Starts,        \* the orchestrator's contents at the start
          Links,         \* the selections in the addresses the page is opened at
          Overlap,       \* may two folder updates overlap in the orchestrator?
          MaxClicks,     \* clicks and drops
          MaxEvents      \* changes of the others and calls that fail

ConsoleBounds ==
    /\ {NF, NI, MaxClicks, MaxEvents} \subseteq Nat
    /\ Overlap \in BOOLEAN

VARIABLES
    db,        \* the orchestrator: folders, integrations and their positions
    view,      \* data: what the page loaded last
    path,      \* the segments of its address: its selection
    queue,     \* its server actions, sent one at a time
    busy,
    excused,   \* the view may be old: others changed db, or a call failed
    other,     \* the move of another console that is checked but not written
    clicks, events

vars == <<db, view, path, queue, busy, excused, other, clicks, events>>

Folders == 1..NF
Integrations == 1..NI
Root == 0                 \* no parent; an integration in no folder
Gone == NF + 1            \* the parent of a folder that does not exist
AllBucket == 0
Unfiled == NF + 1

-----------------------------------------------------------------------------
(* The folder tree *)

\* Where n steps up from each folder lead.
Up(parent, n) ==
    LET up[k \in 0..n] ==
          IF k = 0 THEN [f \in Folders |-> f]
          ELSE [f \in Folders |-> LET p == up[k-1][f]
                                  IN  IF p \in Folders THEN parent[p] ELSE p]
    IN  up[n]

Ancestors(parent, f) == {Up(parent, n)[f] : n \in 1..NF}

\* A folder is in the tree when its ancestors end at the root; a folder on
\* a cycle has no root above it.
buildTree(parent) == {f \in Folders : Root \in Ancestors(parent, f)}

isDescendant(parent, candidate, f) == candidate = f \/ f \in Ancestors(parent, candidate)

checkSelf(parent, id, to) == to # id

checkMove(parent, id, to) == to # id /\ (to \in Folders => id \notin Ancestors(parent, to))

\* ORDER BY position, name
Ordered(S, pos) ==
    SetToSortSeq(S, LAMBDA a, b : pos[a] < pos[b] \/ (pos[a] = pos[b] /\ a < b))

\* The folders depth first, the children of each in their order.
flatten(parent, pos) ==
    LET kids(p) == Ordered({f \in Folders : parent[f] = p}, pos)
        below[n \in 0..NF] ==
          [p \in 0..NF |->
             IF n = 0 THEN <<>>
             ELSE FlattenSeq([k \in DOMAIN kids(p) |-> <<kids(p)[k]>> \o below[n-1][kids(p)[k]]])]
    IN  below[NF][Root]

NextPosition(S, pos) == IF S = {} THEN 0 ELSE Max({pos[x] : x \in S}) + 1

-----------------------------------------------------------------------------
(* The address *)

Word(w) == [word |-> w, id |-> 0]
Id(n) == [word |-> "id", id |-> n]

buildPath(sel) ==
    (CASE sel.bucket = AllBucket -> <<>>
       [] sel.bucket = Unfiled   -> <<Word("unfiled")>>
       [] OTHER                  -> <<Word("f"), Id(sel.bucket)>>)
      \o (IF sel.selectedId = 0 THEN <<>> ELSE <<Word("i"), Id(sel.selectedId)>>)

readSelection(segments) ==
    LET first == IF segments = <<>> THEN Word("") ELSE segments[1]
        bucket == CASE first.word = "unfiled" -> Unfiled
                    [] first.word = "f" /\ Len(segments) > 1 -> segments[2].id
                    [] OTHER -> AllBucket
        read == CASE bucket = Unfiled -> 1 [] bucket = AllBucket -> 0 [] OTHER -> 2
        rest == SubSeq(segments, read + 1, Len(segments))
    IN  [bucket |-> bucket,
         selectedId |-> IF Len(rest) > 1 /\ rest[1].word = "i" THEN rest[2].id ELSE 0]

Selection == readSelection(path)

-----------------------------------------------------------------------------
(* What a console loads, and its calls *)

EMPTY ==
    [folders |-> <<>>, parent |-> [f \in Folders |-> Gone],
     definition |-> [i \in Integrations |-> 0],
     membership |-> [i \in Integrations |-> Root], order |-> [f \in Folders |-> <<>>]]

Members(f) == {i \in Integrations : db.folder[i] = f}

listFolders(d) ==
    LET tree == buildTree(db.parent)
    IN  [d EXCEPT !.folders = flatten(db.parent, db.fpos),
                  !.parent = [f \in Folders |-> IF f \in tree THEN db.parent[f] ELSE Gone]]

listIntegrations(d) == [d EXCEPT !.definition = db.definition]

listFolderIntegrations(d, f) ==
    [d EXCEPT !.order[f] = Ordered(Members(f), db.mpos),
              !.membership = [i \in Integrations |-> IF i \in Members(f) THEN f ELSE @[i]]]

Call(op, id, to, ids, definition) ==
    [op |-> op, id |-> id, to |-> to, ids |-> ids, definition |-> definition,
     data |-> EMPTY, part |-> FALSE]

\* refresh: `part' tells the load that ends a run from the one at the start.
Load(part) == [Call("listFolders", 0, 0, <<>>, 0) EXCEPT !.part = part]

Init ==
    /\ db \in Starts
    /\ view = EMPTY
    /\ path \in {buildPath(sel) : sel \in Links}
    /\ queue = <<Load(FALSE)>>
    /\ busy = FALSE /\ excused = FALSE
    /\ other = <<>>
    /\ clicks = 0 /\ events = 0

-----------------------------------------------------------------------------
(* The user *)

go(bucket, id) == path' = buildPath([bucket |-> bucket, selectedId |-> id])

\* Ask for a change; the refresh follows when it is answered.
run(call) ==
    /\ clicks' = clicks + 1
    /\ queue' = Append(queue, call)
    /\ busy' = TRUE
    /\ UNCHANGED <<db, excused, other, events>>

Shown ==
    LET v == view
        b == Selection.bucket
        there == {i \in Integrations : v.definition[i] # 0}
        inFolder == {i \in there : v.membership[i] = b}
        pos == [i \in inFolder |-> IF \E n \in DOMAIN v.order[b] : v.order[b][n] = i
                                   THEN CHOOSE n \in DOMAIN v.order[b] : v.order[b][n] = i
                                   ELSE NI + 1]
    IN  CASE b = AllBucket -> SetToSortSeq(there, <)
          [] b = Unfiled   -> SetToSortSeq({i \in there : v.membership[i] = Root}, <)
          [] OTHER         -> IF b \in Folders THEN Ordered(inFolder, pos) ELSE <<>>

Moved(s, a, o) ==
    LET without == SelectSeq(s, LAMBDA x : x # a)
        to == CHOOSE n \in DOMAIN s : s[n] = o
    IN  InsertAt(without, to, a)

\* What the page offers: the rows of the tree, the cards of the list, and the
\* selected integration, whose buttons rest while a change is on its way.
TreeFolders == ToSet(view.folders)
TreeBuckets == {AllBucket, Unfiled} \cup TreeFolders
Cards == ToSet(Shown)
Selected == {i \in {Selection.selectedId} \cap Integrations : view.definition[i] # 0}
Detail == IF busy THEN {} ELSE Selected

selectBucket(b) ==
    /\ b \in TreeBuckets
    /\ b # Selection.bucket
    /\ go(b, Selection.selectedId)
    /\ clicks' = clicks + 1
    /\ UNCHANGED <<db, view, queue, busy, excused, other, events>>

selectIntegration(i) ==
    /\ i \in Cards
    /\ i # Selection.selectedId
    /\ go(Selection.bucket, i)
    /\ clicks' = clicks + 1
    /\ UNCHANGED <<db, view, queue, busy, excused, other, events>>

createFolderHere ==
    LET b == Selection.bucket
    IN  /\ run(Call("createFolder", 0, IF b \in Folders THEN b ELSE Root, <<>>, 0))
        /\ UNCHANGED <<view, path>>

\* A rename sends the parent the console shows.
renameFolderTo(f) ==
    /\ f \in TreeFolders
    /\ run(Call("renameFolder", f, view.parent[f], <<>>, 0))
    /\ UNCHANGED <<view, path>>

removeFolder(f) ==
    /\ f \in TreeFolders
    /\ IF Selection.bucket = f THEN go(AllBucket, Selection.selectedId)
                                  ELSE UNCHANGED path
    /\ run(Call("deleteFolder", f, 0, <<>>, 0))
    /\ UNCHANGED view

\* A new integration is selected in the bucket shown when it was asked for.
onImportFile ==
    /\ ~busy
    /\ run(Call("createIntegration", 0, Selection.bucket, <<>>, 1))
    /\ UNCHANGED <<view, path>>

copySelected ==
    /\ \E i \in Detail :
         run(Call("createIntegration", 0, Selection.bucket, <<>>, view.definition[i]))
    /\ UNCHANGED <<view, path>>

\* The definition sent with the new name is the one loaded.
renameSelected ==
    /\ \E i \in Detail :
         run(Call("updateIntegration", i, 0, <<>>, view.definition[i]))
    /\ UNCHANGED <<view, path>>

removeSelected ==
    /\ \E i \in Detail : run(Call("deleteIntegration", i, 0, <<>>, 0))
    /\ go(Selection.bucket, 0)
    /\ UNCHANGED view

\* Dropping a card on another in a folder shows the new order at once.
reorderShown(a, o) ==
    LET b == Selection.bucket
        next == Moved(Shown, a, o)
    IN  /\ b \in Folders /\ a # o /\ {a, o} \subseteq Cards
        /\ view' = [view EXCEPT !.order[b] = next]
        /\ run(Call("reorderIntegrations", 0, b, next, 0))
        /\ UNCHANGED path

\* Dropping a card on a folder or on "Unfiled".
dropIntegration(a, o) ==
    LET current == view.membership[a]
    IN  /\ a \in Cards
        /\ \/ /\ o \in TreeFolders \ {current}
              /\ run(Call("assignIntegration", a, o, <<>>, 0))
           \/ /\ o = Root /\ current # Root
              /\ run(Call("unassignIntegration", a, current, <<>>, 0))
        /\ UNCHANGED <<view, path>>

\* Dropping a folder on a folder or on "All".
dropFolder(a, o) ==
    LET v == view
        siblings == SelectSeq(v.folders, LAMBDA x : v.parent[x] = v.parent[a])
    IN  /\ a \in TreeFolders /\ o # a
        /\ \/ /\ o \in ToSet(siblings)
              /\ run(Call("reorderFolders", 0, v.parent[a], Moved(siblings, a, o), 0))
           \/ /\ o \in TreeFolders \ ToSet(siblings)
              /\ ~isDescendant(v.parent, o, a)
              /\ run(Call("renameFolder", a, o, <<>>, 0))
           \/ /\ o = Root /\ v.parent[a] # Root
              /\ run(Call("renameFolder", a, Root, <<>>, 0))
        /\ UNCHANGED <<view, path>>

-----------------------------------------------------------------------------
(* The orchestrator *)

Exists(f) == f = Root \/ db.parent[f] # Gone

createFolder(to, f) ==
    [db EXCEPT !.parent[f] = to, !.nextFolder = f + 1,
               !.fpos[f] = NextPosition({g \in Folders : db.parent[g] = to}, db.fpos)]

\* The schema cascades to the folders below and to the memberships.
deleteFolder(id) ==
    LET dead == {id} \cup {f \in Folders : db.parent[f] # Gone /\ id \in Ancestors(db.parent, f)}
    IN  [db EXCEPT !.parent = [f \in Folders |-> IF f \in dead THEN Gone ELSE @[f]],
                   !.fpos = [f \in Folders |-> IF f \in dead THEN 0 ELSE @[f]],
                   !.folder = [i \in Integrations |-> IF @[i] \in dead THEN Root ELSE @[i]],
                   !.mpos = [i \in Integrations |-> IF db.folder[i] \in dead THEN 0 ELSE @[i]]]

\* Ids that are not (or no longer) in the group keep their position.
Renumber(pos, ids, group) ==
    [x \in DOMAIN pos |-> IF x \in ToSet(ids) \cap group
                          THEN CHOOSE n \in DOMAIN ids : ids[n] = x ELSE pos[x]]

AddIntegration(i, f) ==
    [db EXCEPT !.folder[i] = f, !.mpos[i] = NextPosition(Members(f), db.mpos)]

\* The contents a call leads to; none when it is refused.  An id is used
\* once; when none is left a creation is refused.
Served(call) ==
    CASE call.op = "createFolder" ->
           IF Exists(call.to) /\ db.nextFolder \in Folders
           THEN {createFolder(call.to, db.nextFolder)} ELSE {}
      [] call.op = "updateFolder" ->
           IF Exists(call.id) /\ Exists(call.to) THEN {[db EXCEPT !.parent[call.id] = call.to]} ELSE {}
      [] call.op = "deleteFolder" ->
           IF Exists(call.id) THEN {deleteFolder(call.id)} ELSE {}
      [] call.op = "reorderFolders" ->
           {[db EXCEPT !.fpos = Renumber(@, call.ids, {f \in Folders : db.parent[f] = call.to})]}
      [] call.op = "reorderIntegrations" ->
           {[db EXCEPT !.mpos = Renumber(@, call.ids, Members(call.to))]}
      [] call.op = "assignIntegration" ->
           IF Exists(call.to) /\ db.definition[call.id] # 0 THEN {AddIntegration(call.id, call.to)} ELSE {}
      [] call.op = "unassignIntegration" ->
           IF call.id \in Members(call.to)
           THEN {[db EXCEPT !.folder[call.id] = Root, !.mpos[call.id] = 0]} ELSE {}
      [] call.op = "createIntegration" ->
           {[db EXCEPT !.definition[i] = call.definition, !.nextIntegration = i + 1] :
              i \in {db.nextIntegration} \cap Integrations}
      [] call.op = "updateIntegration" ->
           IF db.definition[call.id] # 0
           THEN {[db EXCEPT !.definition[call.id] = call.definition]} ELSE {}
      [] call.op = "deleteIntegration" ->
           IF db.definition[call.id] # 0
           THEN {[db EXCEPT !.definition[call.id] = 0, !.folder[call.id] = Root, !.mpos[call.id] = 0]}
           ELSE {}

Running == IF queue = <<>> THEN "" ELSE Head(queue).op

AnsweredOnce(then) ==
    queue' = Tail(queue) \o (IF Tail(queue) = <<>> THEN then ELSE <<>>)

Answered(then) ==
    queue' = Tail(queue) \o then

\* Update checks a move and then writes it.
Update ==
    LET call == Head(queue)
    IN  /\ Running = "renameFolder"
        /\ Overlap \/ other = <<>>
        /\ IF call.to = Root \/ checkMove(db.parent, call.id, call.to)
           THEN queue' = [queue EXCEPT ![1].op = "updateFolder"] /\ UNCHANGED busy
           ELSE Answered(<<>>) /\ busy' = FALSE
        /\ UNCHANGED <<db, view, path, excused, other, clicks, events>>

Writing == {"createFolder", "updateFolder", "deleteFolder", "reorderFolders", "reorderIntegrations",
            "assignIntegration", "unassignIntegration", "createIntegration", "updateIntegration",
            "deleteIntegration"}
Reading == {"listFolders", "listIntegrations", "listMembers"}

\* A change and its answer: a refused one shows an error, the others refresh.
Answers ==
    LET call == Head(queue)
    IN  /\ Running \in Writing
        /\ IF Served(call) = {}
           THEN Answered(<<>>) /\ busy' = FALSE /\ UNCHANGED <<db, path>>
           ELSE /\ db' \in Served(call)
                /\ Answered(<<Load(TRUE)>>)
                /\ IF call.op = "createIntegration"
                   THEN go(call.to, db.nextIntegration)
                   ELSE UNCHANGED path
                /\ UNCHANGED busy
        /\ UNCHANGED <<view, excused, other, clicks, events>>

\* The reads of a load, each on its own: the folders, the integrations,
\* then the members of each folder found.
loadData ==
    LET call == Head(queue)
        d == call.data
        rest == SelectSeq(call.ids, LAMBDA f : f # Head(call.ids))
        done == IF call.ids = <<>> THEN d ELSE listFolderIntegrations(d, Head(call.ids))
    IN  /\ queue # <<>>
        /\ \/ /\ call.op = "listFolders"
              /\ queue' = [queue EXCEPT ![1] = [call EXCEPT !.op = "listIntegrations",
                                                              !.data = listFolders(d)]]
              /\ excused' = FALSE
              /\ UNCHANGED <<view, busy>>
           \/ /\ call.op = "listIntegrations"
              /\ Answered(<<[call EXCEPT !.op = "listMembers", !.ids = d.folders,
                                            !.data = listIntegrations(d)]>>)
              /\ UNCHANGED <<view, busy, excused>>
           \/ /\ call.op = "listMembers" /\ rest # <<>>
              /\ queue' = [queue EXCEPT ![1] =
                              [call EXCEPT !.ids = rest, !.data = listFolderIntegrations(d, Head(call.ids))]]
              /\ UNCHANGED <<view, busy, excused>>
           \/ /\ call.op = "listMembers" /\ rest = <<>>
              /\ Answered(<<>>)
              /\ view' = done
              /\ busy' = (busy /\ ~call.part)
              /\ UNCHANGED excused
        /\ UNCHANGED <<db, path, other, clicks, events>>

\* A call fails on the way there, or its answer is lost on the way back.
CallFails ==
    LET call == Head(queue)
    IN  /\ queue # <<>> /\ events < MaxEvents
        /\ events' = events + 1
        /\ db' \in {db} \cup IF call.op \in Writing THEN Served(call) ELSE {}
        /\ Answered(<<>>)
        /\ busy' = (busy /\ call.op \in Reading /\ ~call.part)
        /\ excused' = TRUE
        /\ UNCHANGED <<view, path, other, clicks>>

Pairs(S) == {p \in S \X S : p[1] # p[2]}

\* What the others may send: editors save definitions, new ones each time.
OtherCalls ==
    {Call("createFolder", 0, to, <<>>, 0) : to \in 0..NF}
      \cup {Call("deleteFolder", f, 0, <<>>, 0) : f \in Folders}
      \cup {Call("reorderFolders", 0, db.parent[p[1]], p, 0) : p \in Pairs(Folders)}
      \cup {Call("reorderIntegrations", 0, db.folder[p[1]], p, 0) : p \in Pairs(Integrations)}
      \cup {Call(op, i, f, <<>>, 0) : op \in {"assignIntegration", "unassignIntegration"},
                                    i \in Integrations, f \in Folders}
      \cup {Call("createIntegration", 0, 0, <<>>, 1)}
      \cup {Call(op, i, 0, <<>>, events + 2) : op \in {"updateIntegration", "deleteIntegration"},
                                             i \in Integrations}

OtherChanges ==
    /\ events < MaxEvents
    /\ events' = events + 1
    /\ \E call \in OtherCalls : db' \in Served(call) \ {db}
    /\ excused' = TRUE
    /\ UNCHANGED <<view, path, queue, busy, other, clicks>>

OtherChecks ==
    /\ events < MaxEvents /\ other = <<>>
    /\ Overlap \/ Running # "updateFolder"
    /\ events' = events + 1
    /\ \E f \in 1..db.nextFolder - 1, to \in 0..db.nextFolder - 1 :
         /\ to = Root \/ checkMove(db.parent, f, to)
         /\ other' = <<Call("updateFolder", f, to, <<>>, 0)>>
    /\ UNCHANGED <<db, view, path, queue, busy, excused, clicks>>

OtherMoves ==
    /\ other # <<>>
    /\ other' = <<>>
    /\ IF Served(other[1]) = {} THEN UNCHANGED <<db, excused>>
                                ELSE db' \in Served(other[1]) /\ excused' = TRUE
    /\ UNCHANGED <<view, path, queue, busy, clicks, events>>

Clicks ==
    /\ clicks < MaxClicks
    /\ \/ \E b \in 0..NF+1 : selectBucket(b)
       \/ \E i \in Integrations : selectIntegration(i)
       \/ createFolderHere \/ onImportFile
       \/ copySelected \/ renameSelected \/ removeSelected
       \/ \E f \in Folders : renameFolderTo(f) \/ removeFolder(f)
       \/ \E a, o \in Integrations : reorderShown(a, o)
       \/ \E a \in Integrations, o \in 0..NF : dropIntegration(a, o)
       \/ \E a \in Folders, o \in 0..NF : dropFolder(a, o)

Next ==
    \/ Clicks
    \/ Update \/ Answers \/ loadData \/ CallFails
    \/ OtherChanges \/ OtherChecks \/ OtherMoves

Spec == Init /\ [][Next]_vars

-----------------------------------------------------------------------------
(* Properties *)

\* Whatever old trees the consoles decide their moves on, the folders stay a forest: each
\* hangs from the root, so the tree the service builds shows it (folder service Update).
EveryFolderInTree == \A f \in Folders : db.parent[f] # Gone => f \in buildTree(db.parent)

Loaded ==
    LET all == listIntegrations(listFolders(EMPTY))
    IN  [all EXCEPT !.order = [f \in Folders |-> Ordered(Members(f), db.mpos)],
                    !.membership = db.folder]

\* When the page's calls are answered, it shows what the orchestrator holds, its own changes
\* and their order included, unless someone else changed that since the last load began or a
\* call failed (run and refresh of the manager, loadData).
OwnChangesShown ==
    queue = <<>> /\ ~excused => view = Loaded

\* A rename of an integration keeps its definition.
RenameKeepsDefinition ==
    [][Running = "updateIntegration" /\ queue' # <<>> /\ Head(queue') # Head(queue)
         => db'.definition = db.definition]_vars

=============================================================================
