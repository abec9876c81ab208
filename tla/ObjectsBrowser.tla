--------------------------- MODULE ObjectsBrowser ---------------------------
(***************************************************************************)
(* The platform's object browser: ObjectsManager with its reducer, against *)
(* the orchestrator's object store, which running flows write too.  A page *)
(* sends its server actions one at a time and they are answered in order.  *)
(* Nothing the page does depends on the store but through an answer, so a  *)
(* call runs and is answered in one step.                                  *)
(***************************************************************************)
EXTENDS Naturals, Sequences

CONSTANTS
    Deployments, Namespaces, Keys,
    Places,            \* where flows keep objects: <<deployment, namespace, key>>
    Binary,            \* the values flows write that are not text
    SecretNamespaces,  \* those whose values are never shown
    Waits,             \* the user lets a load or a save end before leaving its object
    MaxWrites,         \* bound: writes and deletes of flows, after the first
    MaxCalls,          \* bound: server actions waiting, for the user to click on
    MaxFails           \* bound: failed calls

None == ""
DEFAULT_NAMESPACE == "user"

ASSUME BrowserBounds ==
    /\ {MaxWrites, MaxCalls, MaxFails} \subseteq Nat
    /\ Waits \in BOOLEAN
    /\ DEFAULT_NAMESPACE \in Namespaces \ SecretNamespaces
    /\ None \notin Deployments \cup Namespaces \cup Keys
    /\ Places \subseteq Deployments \X Namespaces \X Keys

VARIABLES
    store,   \* the kv_store rows by <<deployment, namespace, key>>
    page,    \* the reducer's state
    queue,   \* server actions, the first one running
    dialog,  \* the delete the confirmation dialog asks about
    writes,  \* number of writes and deletes of flows
    fails

vars == <<store, page, queue, dialog, writes, fails>>

\* A value is a number, 0 the empty text, with whether it is binary; the user types one value
\* of their own.  `born', an object's first value, tells a recreated object from the one
\* deleted: its version starts over.
Text(v) == [id |-> v, bin |-> FALSE]
Typed == Text(MaxWrites + 1)
Absent == [val |-> Text(0), version |-> 0, born |-> 0]

isSecretNamespace(ns) == ns \in SecretNamespaces

\* What the page holds of an object, and where it came from.
Nothing == [at |-> <<None, None, None>>, row |-> Absent]
NoRows == [key \in Keys |-> Absent]
NoEntries == [loaded |-> FALSE, at |-> <<None, None>>, rows |-> NoRows]

Call(op, p, key) ==
    [op |-> op, dep |-> p.dep, ns |-> p.ns, key |-> key, val |-> Text(0), version |-> 0,
     latest |-> TRUE, seen |-> Nothing, then |-> None]

(***************************************************************************)
(* The reducer, one operator for each of its actions that is not a plain   *)
(* assignment.                                                             *)
(***************************************************************************)
initState(dep, key, ns) ==
    [dep |-> dep, namespaces |-> {}, ns |-> ns, entries |-> NoEntries, selectedKey |-> key,
     current |-> Nothing, draft |-> Text(0), creating |-> FALSE, newKey |-> None,
     busy |-> FALSE]

Deselected(p) ==
    [p EXCEPT !.selectedKey = None, !.current = Nothing, !.draft = Text(0)]

deploymentSelected(p, dep) ==
    [Deselected(p) EXCEPT !.dep = dep, !.namespaces = {}, !.ns = DEFAULT_NAMESPACE,
                          !.entries = NoEntries, !.creating = FALSE]

namespaceSelected(p, ns) ==
    [Deselected(p) EXCEPT !.ns = ns, !.entries = NoEntries, !.creating = FALSE]

keySelected(p, key) == [Deselected(p) EXCEPT !.selectedKey = key, !.creating = FALSE]

createStarted(p) == [Deselected(p) EXCEPT !.creating = TRUE, !.newKey = None]

Shown(p, object) ==
    [p EXCEPT !.current = object, !.draft = object.row.val]

created(p, key) ==
    [Deselected(p) EXCEPT !.selectedKey = key, !.creating = FALSE, !.busy = FALSE]

deleted(p) == [Deselected(p) EXCEPT !.busy = FALSE]

\* The error banner is not modelled; every error also clears busy.
Failed(p) == [p EXCEPT !.busy = FALSE]

NoDialog == Call(None, initState(None, None, None), None)

(***************************************************************************)
(* The effects that a change of the selection sets off.  valueSeq makes    *)
(* the newest value fetch the only one that counts; it is not bumped when  *)
(* the selection is only cleared.                                          *)
(***************************************************************************)
NamespaceEffect(old, new) ==
    IF new.dep # old.dep /\ new.dep # None THEN <<Call("namespaces", new, None)>> ELSE <<>>

EntriesEffect(old, new) ==
    IF <<new.dep, new.ns>> # <<old.dep, old.ns>> /\ new.dep # None
      THEN <<Call("list", new, None)>> ELSE <<>>

Fetches(old, new) ==
    /\ <<new.dep, new.ns, new.selectedKey>> # <<old.dep, old.ns, old.selectedKey>>
    /\ None \notin {new.dep, new.selectedKey}
    /\ ~isSecretNamespace(new.ns)

\* The calls after a rerender, `waiting' being those from before it.
ValueEffect(old, new, waiting) ==
    IF Fetches(old, new)
      THEN [i \in DOMAIN waiting |-> [waiting[i] EXCEPT !.latest = FALSE]]
             \o <<Call("get", new, new.selectedKey)>>
      ELSE waiting

Renders(new, waiting) ==
    /\ page' = new
    /\ queue' = ValueEffect(page, new,
                            waiting \o NamespaceEffect(page, new) \o EntriesEffect(page, new))

Init ==
    /\ store = [place \in Deployments \X Namespaces \X Keys |->
                  IF place \in Places THEN [val |-> Text(1), version |-> 1, born |-> 1] ELSE Absent]
    /\ \E dep \in Deployments \cup {None}, key \in Keys \cup {None}, ns \in Namespaces :
         LET blank == initState(None, None, DEFAULT_NAMESPACE)
             p     == initState(dep, key, ns)
         IN  /\ page = p
             /\ queue = ValueEffect(blank, p, NamespaceEffect(blank, p) \o EntriesEffect(blank, p))
    /\ dialog = NoDialog
    /\ writes = 1
    /\ fails = 0

(***************************************************************************)
(* What the page shows: the namespaces of the picker, the keys of the list *)
(* and the panel beside it.                                                *)
(***************************************************************************)
NamespacesOffered == IF page.namespaces = {} THEN {page.ns} ELSE page.namespaces
KeysOffered == {key \in Keys : page.entries.rows[key].version # 0}

Panel ==
    IF page.dep = None THEN "none"
    ELSE IF page.creating THEN "create"
    ELSE IF isSecretNamespace(page.ns) /\ page.selectedKey # None THEN "secret"
    ELSE IF page.current # Nothing THEN "object"
    ELSE "none"

dirty == ~page.current.row.val.bin /\ page.draft # page.current.row.val

\* The page takes clicks.  The dialog covers it.
Clickable == dialog = NoDialog /\ Len(queue) < MaxCalls

\* A write with the reload that ends it, or a value fetch.  `busy' does not tell: any
\* call's failure clears it.
InFlight(ops) == \E i \in DOMAIN queue : queue[i].op \in ops \/ queue[i].then # None

MayLeave == Waits => ~InFlight({"get", "set", "delete"})

(***************************************************************************)
(* The user.                                                               *)
(***************************************************************************)
selectDeployment ==
    /\ Clickable /\ MayLeave
    /\ \E dep \in (Deployments \cup {None}) \ {page.dep} :
         Renders(deploymentSelected(page, dep), queue)
    /\ UNCHANGED <<store, dialog, writes, fails>>

selectNamespace ==
    /\ Clickable /\ MayLeave /\ page.dep # None
    /\ \E ns \in NamespacesOffered \ {page.ns} : Renders(namespaceSelected(page, ns), queue)
    /\ UNCHANGED <<store, dialog, writes, fails>>

\* From key to key the sequence guard makes waiting for the value needless.
selectKey ==
    /\ Clickable /\ page.dep # None
    /\ Waits => ~InFlight({"set", "delete", "list"})
    /\ \E key \in KeysOffered :
         /\ Waits => key # page.selectedKey
         /\ Renders(keySelected(page, key), queue)
    /\ UNCHANGED <<store, dialog, writes, fails>>

startCreate ==
    /\ Clickable /\ MayLeave /\ page.dep # None /\ ~isSecretNamespace(page.ns)
    /\ Renders(createStarted(page), queue)
    /\ UNCHANGED <<store, dialog, writes, fails>>

\* The new key's name, the value, and Cancel.
Form ==
    /\ Clickable
    /\ Waits => ~InFlight({"set", "delete"})
    /\ \/ /\ Panel = "create"
          /\ \E key \in Keys : page' = [page EXCEPT !.newKey = key]
       \/ /\ Panel = "create"
          /\ page' = [page EXCEPT !.creating = FALSE]
       \/ /\ Panel = "create" \/ (Panel = "object" /\ ~page.current.row.val.bin)
          /\ page' = [page EXCEPT !.draft = Typed]
    /\ UNCHANGED <<store, queue, dialog, writes, fails>>

Refresh ==
    /\ Clickable /\ page.dep # None
    /\ queue' = Append(queue, Call("list", page, None))
    /\ UNCHANGED <<store, page, dialog, writes, fails>>

\* Create, or Save, each when its button is shown and enabled.
save ==
    /\ Clickable /\ ~page.busy
    /\ Waits => ~InFlight({"set", "delete"})
    /\ \/ /\ Panel = "create" /\ page.newKey # None
          /\ queue' = Append(queue, [Call("set", page, page.newKey) EXCEPT
                                       !.val = page.draft, !.then = "created"])
       \/ /\ Panel = "object" /\ dirty
          /\ queue' = Append(queue, [Call("set", page, page.current.at[3]) EXCEPT
                                       !.val = page.draft, !.version = page.current.row.version,
                                       !.seen = page.current, !.then = "saved"])
    /\ page' = [page EXCEPT !.busy = TRUE]
    /\ UNCHANGED <<store, dialog, writes, fails>>

\* What the delete button of the panel shown would delete, with the version shown.
remove ==
    /\ Clickable /\ ~page.busy /\ Panel \in {"secret", "object"}
    /\ Waits => ~InFlight({"set", "delete", "list"})
    /\ LET key  == IF page.current # Nothing THEN page.current.at[3] ELSE page.selectedKey
           seen == IF page.current # Nothing THEN page.current
                   ELSE [at  |-> <<page.entries.at[1], page.entries.at[2], page.selectedKey>>,
                         row |-> page.entries.rows[page.selectedKey]]
       IN  dialog' = [Call("delete", page, key) EXCEPT
                        !.version = seen.row.version, !.seen = seen, !.then = "deleted"]
    /\ UNCHANGED <<store, page, queue, writes, fails>>

\* The dialog is settled: the delete it was opened for, or nothing.
settle ==
    /\ dialog # NoDialog
    /\ dialog' = NoDialog
    /\ \/ /\ queue' = Append(queue, dialog)
          /\ page' = [page EXCEPT !.busy = TRUE]
       \/ UNCHANGED <<queue, page>>
    /\ UNCHANGED <<store, writes, fails>>

(***************************************************************************)
(* The server's answers.  A failed call may have run or not.               *)
(***************************************************************************)
Answers(op) == queue # <<>> /\ Head(queue).op = op
Place(c) == <<c.dep, c.ns, c.key>>

CallFails == fails < MaxFails /\ fails' = fails + 1

listNamespaces ==
    /\ Answers("namespaces")
    /\ LET dep  == Head(queue).dep
           held == {ns \in Namespaces : \E key \in Keys : store[<<dep, ns, key>>].version # 0}
       IN  \/ /\ Renders([page EXCEPT !.namespaces = held \cup {DEFAULT_NAMESPACE}], Tail(queue))
              /\ UNCHANGED fails
           \/ /\ CallFails
              /\ Renders([page EXCEPT !.namespaces = {DEFAULT_NAMESPACE}], Tail(queue))
    /\ UNCHANGED <<store, dialog, writes>>

Continued(p, c) ==
    CASE c.then = "created" -> created(p, c.key)
      [] c.then = "deleted" -> deleted(p)
      [] OTHER -> p

\* loadEntries, and what awaited it.  It never rejects: a failure empties the list.
loadEntries ==
    /\ Answers("list")
    /\ LET c == Head(queue)
           listed(rows) == [loaded |-> TRUE, at |-> <<c.dep, c.ns>>, rows |-> rows]
       IN  \/ /\ Renders(Continued([page EXCEPT
                              !.entries = listed([key \in Keys |-> store[<<c.dep, c.ns, key>>]])], c), Tail(queue))
              /\ UNCHANGED fails
           \/ /\ CallFails
              /\ Renders(Continued(Failed([page EXCEPT !.entries = listed(NoRows)]), c), Tail(queue))
    /\ UNCHANGED <<store, dialog, writes>>

getObjectAny ==
    /\ Answers("get")
    /\ LET c == Head(queue) IN
         IF store[Place(c)].version # 0
           THEN Renders(Shown(page, [at |-> Place(c), row |-> store[Place(c)]]), Tail(queue))
           ELSE Renders(Failed(page), Tail(queue))
    /\ UNCHANGED <<store, dialog, writes, fails>>

\* An answer that is not the newest fetch's is ignored.
getObject ==
    /\ Answers("get")
    /\ LET c == Head(queue) IN
         \/ /\ ~c.latest
            /\ Renders(page, Tail(queue))
            /\ UNCHANGED fails
         \/ /\ c.latest /\ store[Place(c)].version # 0
            /\ Renders(Shown(page, [at |-> Place(c), row |-> store[Place(c)]]), Tail(queue))
            /\ UNCHANGED fails
         \/ /\ c.latest
            /\ store[Place(c)].version # 0 => CallFails
            /\ store[Place(c)].version = 0 => UNCHANGED fails
            /\ Renders(Failed(page), Tail(queue))
    /\ UNCHANGED <<store, dialog, writes>>

AcceptsAny(c) == c.op \in {"set", "delete"}

\* Whether the store accepts a write with an expected version, and the row it leaves.
Accepts(c) ==
    CASE c.op = "set"    -> c.version = store[Place(c)].version
      [] c.op = "delete" -> c.version = 0 \/ store[Place(c)].version \in {0, c.version}

Written(place, val) ==
    [val |-> val, version |-> store[place].version + 1,
     born |-> IF store[place].version = 0 THEN val.id ELSE store[place].born]

\* saved and the reload of the list; or, for a create, the reload that ends with it.
setObject ==
    /\ Answers("set")
    /\ LET c   == Head(queue)
           row == Written(Place(c), Text(c.val.id))
           reload == [Call("list", c, c.key) EXCEPT !.then = c.then]
       IN  \/ /\ Accepts(c)
              /\ store' = [store EXCEPT ![Place(c)] = row]
              /\ IF c.then = "saved"
                   THEN Renders([Shown(page, [at |-> c.seen.at, row |-> row]) EXCEPT !.busy = FALSE],
                                Append(Tail(queue), reload))
                   ELSE Renders(page, Append(Tail(queue), reload))
              /\ UNCHANGED fails
           \/ /\ ~Accepts(c)
              /\ Renders(Failed(page), Tail(queue))
              /\ UNCHANGED <<store, fails>>
           \/ /\ CallFails
              /\ Renders(Failed(page), Tail(queue))
              /\ \/ Accepts(c) /\ store' = [store EXCEPT ![Place(c)] = row]
                 \/ UNCHANGED store
    /\ UNCHANGED <<dialog, writes>>

deleteObject ==
    /\ Answers("delete")
    /\ LET c      == Head(queue)
           reload == [Call("list", c, c.key) EXCEPT !.then = c.then]
       IN  \/ /\ Accepts(c)
              /\ store' = [store EXCEPT ![Place(c)] = Absent]
              /\ Renders(page, Append(Tail(queue), reload))
              /\ UNCHANGED fails
           \/ /\ ~Accepts(c)
              /\ Renders(Failed(page), Tail(queue))
              /\ UNCHANGED <<store, fails>>
           \/ /\ CallFails
              /\ Renders(Failed(page), Tail(queue))
              /\ \/ Accepts(c) /\ store' = [store EXCEPT ![Place(c)] = Absent]
                 \/ UNCHANGED store
    /\ UNCHANGED <<dialog, writes>>

\* A running flow's object blocks write and delete objects of its deployment.
FlowWrites ==
    /\ writes < MaxWrites
    /\ \E place \in Places :
         store' = [store EXCEPT ![place] =
                     Written(place, [id |-> writes + 1, bin |-> writes + 1 \in Binary])]
    /\ writes' = writes + 1
    /\ UNCHANGED <<page, queue, dialog, fails>>

FlowDeletes ==
    /\ writes < MaxWrites
    /\ \E place \in Places :
         store[place].version # 0 /\ store' = [store EXCEPT ![place] = Absent]
    /\ writes' = writes + 1
    /\ UNCHANGED <<page, queue, dialog, fails>>

Next ==
    \/ selectDeployment \/ selectNamespace \/ selectKey \/ startCreate \/ Form \/ Refresh
    \/ save \/ remove \/ settle
    \/ listNamespaces \/ loadEntries \/ getObject \/ setObject \/ deleteObject
    \/ FlowWrites \/ FlowDeletes

Spec == Init /\ [][Next]_vars

(***************************************************************************)
(* Properties.                                                             *)
(***************************************************************************)

\* The value in the editor is the selected object's: of the selected deployment,
\* namespace and key.  Save and Delete take the deployment and the namespace from the
\* selection and the key and the version from the value (ObjectsManager.tsx:218-224),
\* so a late answer that put another object's value there would be written over the
\* wrong object.
CurrentIsSelected ==
    page.current # Nothing =>
        page.current.at = <<page.dep, page.ns, page.selectedKey>>

\* What a save or a delete of the page replaces is what the user was shown of that
\* object, whatever the flows wrote meanwhile; an object deleted and recreated since is
\* the exception, its versions start over.  A delete of a secret that is not in the
\* loaded list has no version to go by.
ReplacesWhatWasShown ==
    [][queue' # queue =>
         \A place \in DOMAIN store :
           LET seen == Head(queue).seen IN
           store'[place] # store[place] /\ store[place].version # 0 =>
             \/ seen.row.version = 0 /\ Head(queue).op = "delete"
             \/ /\ seen.at = place
                /\ seen.row.born = store[place].born => seen.row.val = store[place].val]_vars

=============================================================================
