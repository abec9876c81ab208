--------------------------- MODULE BrowserProofs ---------------------------
(***************************************************************************)
(* The object browser with a user who waits for a load or a save to end:   *)
(* the value in the editor is the selected object's, and what a save or a  *)
(* delete replaces is what the page showed.                                *)
(***************************************************************************)
EXTENDS ObjectsBrowser, TLAPS

(***************************************************************************)
(* Types.                                                                  *)
(***************************************************************************)
Objects == Deployments \X Namespaces \X Keys
Deps == Deployments \cup {None}
Spaces == Namespaces \cup {None}
Names == Keys \cup {None}

ObjectVal == [id : Nat, bin : BOOLEAN]
ObjectRow == [val : ObjectVal, version : Nat, born : Nat]
HeldObject == [at : Deps \X Spaces \X Names, row : ObjectRow]
EntryList == [loaded : BOOLEAN, at : Deps \X Spaces, rows : [Keys -> ObjectRow]]

CallOps == {None, "namespaces", "list", "get", "set", "delete"}
Thens == {None, "saved", "created", "deleted"}

PageCall ==
    [op : CallOps, dep : Deps, ns : Spaces, key : Names, val : ObjectVal, version : Nat,
     latest : BOOLEAN, seen : HeldObject, then : Thens]

PageState ==
    [dep : Deps, namespaces : SUBSET Namespaces, ns : Namespaces, entries : EntryList,
     selectedKey : Names, current : HeldObject, draft : ObjectVal, creating : BOOLEAN,
     newKey : Names, busy : BOOLEAN]

BrowserTypes ==
    /\ store \in [Objects -> ObjectRow]
    /\ page \in PageState
    /\ queue \in Seq(PageCall)
    /\ dialog \in PageCall
    /\ writes \in Nat

(***************************************************************************)
(* The invariant.  A chain is a write, or the reload of the list that ends *)
(* one: there is at most one, and the selection stays until it has ended.  *)
(***************************************************************************)
Chain(c) == c.op \in {"set", "delete"} \/ c.then # None
Ending(c) == c.op = "delete" \/ c.then = "deleted"
Selection(p) == <<p.dep, p.ns, p.selectedKey>>

\* What a call is, whatever the page.
Shape(c) ==
    /\ c.op # None
    /\ c.op \in {"get", "set", "delete"} => Place(c) \in Objects
    /\ c.op \in {"list", "namespaces"} => c.dep \in Deployments /\ c.ns \in Namespaces
    /\ Chain(c) => c.then # None /\ c.op \in {"set", "delete", "list"}
    /\ c.op = "set" => ~isSecretNamespace(c.ns) /\ c.then \in {"saved", "created"}
    /\ c.op = "set" /\ c.then = "saved" =>
         c.seen.at = Place(c) /\ c.version = c.seen.row.version /\ c.version # 0
    /\ c.then = "created" => c.key \in Keys /\ c.version = 0
    /\ c.op = "delete" => c.then = "deleted" /\ c.version = c.seen.row.version

\* How it relates to the page.
Fits(p, c) ==
    /\ c.op = "get" /\ c.latest =>
         Place(c) = Selection(p) /\ ~isSecretNamespace(p.ns) /\ ~p.creating
    /\ Chain(c) => c.dep = p.dep /\ c.ns = p.ns
    /\ c.op = "set" /\ c.then = "saved" => c.key = p.selectedKey /\ ~p.creating
    /\ c.then = "created" => p.creating

CallsFit(p, q) == \A i \in DOMAIN q : Shape(q[i]) /\ Fits(p, q[i])

OneChain(q) ==
    \A i, j \in DOMAIN q :
        /\ Chain(q[i]) /\ Chain(q[j]) => i = j
        /\ Ending(q[i]) /\ i < j => q[j].op # "get"

PageFits(p) ==
    /\ p.current # Nothing =>
         p.current.at = Selection(p) /\ p.current.at \in Objects /\ p.current.row.version # 0
         /\ ~p.creating
    /\ p.creating => ~isSecretNamespace(p.ns) /\ p.dep # None

NoChain(q) == \A i \in DOMAIN q : ~Chain(q[i])

DialogFits(p, q, d) ==
    d # NoDialog => d.op = "delete" /\ Shape(d) /\ Fits(p, d) /\ NoChain(q)

SelectInv ==
    /\ BrowserTypes
    /\ CallsFit(page, queue)
    /\ OneChain(queue)
    /\ PageFits(page)
    /\ DialogFits(page, queue, dialog)

-----------------------------------------------------------------------------
(***************************************************************************)
(* Calls and the calls that wait.                                          *)
(***************************************************************************)

\* The empty values have their types.
LEMMA EmptyValues ==
    /\ Text(0) \in ObjectVal /\ Typed \in ObjectVal
    /\ Absent \in ObjectRow /\ Nothing \in HeldObject
    /\ NoEntries \in EntryList
    /\ Absent.version = 0
  <1>1. MaxWrites + 1 \in Nat /\ 0 \in Nat
    BY BrowserBounds
  <1>2. Text(0) \in ObjectVal /\ Typed \in ObjectVal
    BY <1>1, Zenon DEF Text, Typed, ObjectVal
  <1>3. Absent \in ObjectRow /\ Absent.version = 0
    BY <1>1, <1>2, Zenon DEF Absent, ObjectRow
  <1>4. Nothing \in HeldObject
    BY <1>3, Zenon DEF Nothing, HeldObject, Deps, Spaces, Names
  <1>5. NoEntries \in EntryList
    BY <1>3, Zenon DEF NoEntries, NoRows, EntryList, Deps, Spaces
  <1> QED
    BY <1>2, <1>3, <1>4, <1>5, Zenon

\* A call has the deployment and the namespace of the page, or of the call it follows.
LEMMA CallIs ==
    ASSUME NEW p, p.dep \in Deps, p.ns \in Spaces, NEW op \in CallOps, NEW key \in Names
    PROVE  /\ Call(op, p, key) \in PageCall
           /\ Call(op, p, key).op = op /\ Call(op, p, key).dep = p.dep
           /\ Call(op, p, key).ns = p.ns /\ Call(op, p, key).key = key
           /\ Call(op, p, key).then = None /\ Call(op, p, key).latest
           /\ Call(op, p, key).version = 0
           /\ Call(op, p, key).seen = Nothing
  BY EmptyValues, 0 \in Nat, Zenon DEF Call, PageCall, Thens

\* The types of what a page holds.
LEMMA PageHas ==
    ASSUME NEW p \in PageState
    PROVE  /\ p.dep \in Deps /\ p.ns \in Namespaces /\ p.ns \in Spaces /\ p.selectedKey \in Names
           /\ p.namespaces \in SUBSET Namespaces /\ p.entries \in EntryList
           /\ p.current \in HeldObject /\ p.draft \in ObjectVal /\ p.newKey \in Names
           /\ p.creating \in BOOLEAN /\ p.busy \in BOOLEAN
  BY Zenon DEF PageState, Spaces

\* No dialog is not a call of the page.
LEMMA NoDialogIs == NoDialog \in PageCall /\ NoDialog.op = None /\ NoDialog.then = None
  <1>1. NoDialog = [op |-> None, dep |-> None, ns |-> None, key |-> None, val |-> Text(0),
                    version |-> 0, latest |-> TRUE, seen |-> Nothing, then |-> None]
    BY Zenon DEF NoDialog, Call, initState
  <1>2. None \in CallOps /\ None \in Deps /\ None \in Spaces /\ None \in Names /\ None \in Thens
    BY Zenon DEF CallOps, Deps, Spaces, Names, Thens
  <1> QED
    BY <1>1, <1>2, EmptyValues, 0 \in Nat, Zenon DEF PageCall

\* The calls behind the first one.
LEMMA TailCalls ==
    ASSUME NEW q \in Seq(PageCall), q # <<>>
    PROVE  /\ Tail(q) \in Seq(PageCall) /\ Head(q) \in PageCall
           /\ 1 \in DOMAIN q /\ q[1] = Head(q)
           /\ \A i \in DOMAIN Tail(q) : i + 1 \in DOMAIN q /\ Tail(q)[i] = q[i + 1] /\ i \in Nat
           /\ \A i \in DOMAIN q : i # 1 => i - 1 \in DOMAIN Tail(q) /\ q[i] = Tail(q)[i - 1]
  OBVIOUS

\* A call that joins them.
LEMMA AppendCalls ==
    ASSUME NEW q \in Seq(PageCall), NEW c \in PageCall
    PROVE  /\ Append(q, c) \in Seq(PageCall)
           /\ DOMAIN Append(q, c) = DOMAIN q \cup {Len(q) + 1}
           /\ Append(q, c)[Len(q) + 1] = c /\ Len(q) + 1 \notin DOMAIN q
           /\ \A i \in DOMAIN q : Append(q, c)[i] = q[i] /\ i < Len(q) + 1 /\ i \in Nat
           /\ Len(q) \in Nat
  OBVIOUS

\* What holds of the calls holds of those behind the first; the first of a chain is all of it.
LEMMA TailKeeps ==
    ASSUME NEW p, NEW q \in Seq(PageCall), q # <<>>, CallsFit(p, q), OneChain(q)
    PROVE  /\ CallsFit(p, Tail(q)) /\ OneChain(Tail(q))
           /\ Shape(Head(q)) /\ Fits(p, Head(q))
           /\ Chain(Head(q)) => NoChain(Tail(q))
           /\ NoChain(q) => NoChain(Tail(q))
           /\ Ending(Head(q)) => \A i \in DOMAIN Tail(q) : Tail(q)[i].op # "get"
  <1>1. CallsFit(p, Tail(q)) /\ Shape(Head(q)) /\ Fits(p, Head(q))
    BY TailCalls, Zenon DEF CallsFit
  <1>2. OneChain(Tail(q))
    <2> SUFFICES ASSUME NEW i \in DOMAIN Tail(q), NEW j \in DOMAIN Tail(q)
                 PROVE  /\ Chain(Tail(q)[i]) /\ Chain(Tail(q)[j]) => i = j
                        /\ Ending(Tail(q)[i]) /\ i < j => Tail(q)[j].op # "get"
      BY Zenon DEF OneChain
    <2>1. /\ i + 1 \in DOMAIN q /\ Tail(q)[i] = q[i + 1] /\ i \in Nat
          /\ j + 1 \in DOMAIN q /\ Tail(q)[j] = q[j + 1] /\ j \in Nat
      BY TailCalls, Zenon
    <2>2. /\ Chain(q[i + 1]) /\ Chain(q[j + 1]) => i + 1 = j + 1
          /\ Ending(q[i + 1]) /\ i + 1 < j + 1 => q[j + 1].op # "get"
      BY <2>1, Zenon DEF OneChain
    <2> QED
      BY <2>1, <2>2
  <1>3. Chain(Head(q)) => NoChain(Tail(q))
    <2> SUFFICES ASSUME Chain(Head(q)), NEW i \in DOMAIN Tail(q), Chain(Tail(q)[i])
                 PROVE  FALSE
      BY Zenon DEF NoChain
    <2>1. i + 1 \in DOMAIN q /\ Tail(q)[i] = q[i + 1] /\ i \in Nat /\ i # 0 /\ 1 \in DOMAIN q
          /\ q[1] = Head(q)
      BY TailCalls
    <2>2. 1 = i + 1
      BY <2>1, Zenon DEF OneChain
    <2> QED
      BY <2>1, <2>2
  <1>4. NoChain(q) => NoChain(Tail(q))
    BY TailCalls, Zenon DEF NoChain
  <1>5. Ending(Head(q)) => \A i \in DOMAIN Tail(q) : Tail(q)[i].op # "get"
    <2> SUFFICES ASSUME Ending(Head(q)), NEW i \in DOMAIN Tail(q)
                 PROVE  Tail(q)[i].op # "get"
      OBVIOUS
    <2>1. i + 1 \in DOMAIN q /\ Tail(q)[i] = q[i + 1] /\ i \in Nat /\ i # 0 /\ 1 \in DOMAIN q
          /\ q[1] = Head(q)
      BY TailCalls
    <2>2. 1 < i + 1
      BY <2>1
    <2> QED
      BY <2>1, <2>2, Zenon DEF OneChain
  <1> QED
    BY <1>1, <1>2, <1>3, <1>4, <1>5, Zenon

\* A call may join when no chain is there for it to break.
LEMMA AppendKeeps ==
    ASSUME NEW p, NEW q \in Seq(PageCall), NEW c \in PageCall,
           CallsFit(p, q), OneChain(q), Shape(c), Fits(p, c),
           Chain(c) \/ c.op = "get" => NoChain(q)
    PROVE  CallsFit(p, Append(q, c)) /\ OneChain(Append(q, c))
  <1> DEFINE all == Append(q, c)
  <1>1. CallsFit(p, all)
    BY AppendCalls DEF CallsFit
  <1>2. ASSUME NEW i \in DOMAIN all, NEW j \in DOMAIN all
        PROVE  /\ Chain(all[i]) /\ Chain(all[j]) => i = j
               /\ Ending(all[i]) /\ i < j => all[j].op # "get"
    <2> HIDE DEF all
    <2>0. /\ DOMAIN all = DOMAIN q \cup {Len(q) + 1} /\ all[Len(q) + 1] = c
          /\ \A k \in DOMAIN q : all[k] = q[k] /\ k < Len(q) + 1 /\ k \in Nat
          /\ Len(q) \in Nat
      BY AppendCalls, Zenon DEF all
    <2>1. CASE i \in DOMAIN q /\ j \in DOMAIN q
      BY <2>0, <2>1, Zenon DEF OneChain
    <2>2. CASE i \in DOMAIN q /\ j = Len(q) + 1
      <3>1. all[i] = q[i] /\ all[j] = c
        BY <2>0, <2>2, Zenon
      <3>2. Chain(c) \/ c.op = "get" => ~Chain(q[i])
        BY <2>2, Zenon DEF NoChain
      <3>3. Ending(q[i]) => Chain(q[i])
        BY Zenon DEF Ending, Chain, None
      <3> QED
        BY <3>1, <3>2, <3>3, Zenon
    <2>3. CASE i = Len(q) + 1 /\ j \in DOMAIN q
      <3>1. all[j] = q[j] /\ all[i] = c /\ ~(i < j)
        BY <2>0, <2>3
      <3>2. Chain(c) => ~Chain(q[j])
        BY <2>3, Zenon DEF NoChain
      <3> QED
        BY <3>1, <3>2, Zenon
    <2>4. CASE i = Len(q) + 1 /\ j = Len(q) + 1
      <3>1. i = j /\ ~(i < j)
        BY <2>0, <2>4
      <3> QED
        BY <3>1, Zenon
    <2> QED
      BY <2>0, <2>1, <2>2, <2>3, <2>4, Zenon
  <1> QED
    BY <1>1, <1>2, Zenon DEF OneChain

(***************************************************************************)
(* What a rerender adds to the calls.                                      *)
(***************************************************************************)
Marked(q) == [i \in DOMAIN q |-> [q[i] EXCEPT !.latest = FALSE]]

\* A new fetch takes `latest' from the calls before it and nothing else.
LEMMA MarkedCalls ==
    ASSUME NEW q \in Seq(PageCall)
    PROVE  /\ Marked(q) \in Seq(PageCall) /\ DOMAIN Marked(q) = DOMAIN q
           /\ \A i \in DOMAIN q :
                /\ ~Marked(q)[i].latest
                /\ Marked(q)[i].op = q[i].op /\ Marked(q)[i].dep = q[i].dep
                /\ Marked(q)[i].ns = q[i].ns /\ Marked(q)[i].key = q[i].key
                /\ Marked(q)[i].val = q[i].val /\ Marked(q)[i].version = q[i].version
                /\ Marked(q)[i].seen = q[i].seen /\ Marked(q)[i].then = q[i].then
  <1>1. ASSUME NEW c \in PageCall
        PROVE  /\ [c EXCEPT !.latest = FALSE] \in PageCall
               /\ ~[c EXCEPT !.latest = FALSE].latest
               /\ [c EXCEPT !.latest = FALSE].op = c.op /\ [c EXCEPT !.latest = FALSE].dep = c.dep
               /\ [c EXCEPT !.latest = FALSE].ns = c.ns /\ [c EXCEPT !.latest = FALSE].key = c.key
               /\ [c EXCEPT !.latest = FALSE].val = c.val
               /\ [c EXCEPT !.latest = FALSE].version = c.version
               /\ [c EXCEPT !.latest = FALSE].seen = c.seen
               /\ [c EXCEPT !.latest = FALSE].then = c.then
    BY Zenon DEF PageCall
  <1>2. \A i \in DOMAIN q : q[i] \in PageCall
    OBVIOUS
  <1>3. DOMAIN Marked(q) = DOMAIN q
    BY Zenon DEF Marked
  <1>4. \A i \in DOMAIN q : Marked(q)[i] = [q[i] EXCEPT !.latest = FALSE]
    BY Zenon DEF Marked
  <1>5. Marked(q) \in Seq(PageCall)
    <2>1. Len(q) \in Nat /\ DOMAIN q = 1..Len(q)
      OBVIOUS
    <2>2. Marked(q) = [i \in 1..Len(q) |-> Marked(q)[i]]
      BY <2>1, Zenon DEF Marked
    <2>3. \A i \in 1..Len(q) : Marked(q)[i] \in PageCall
      BY <2>1, <1>1, <1>2, <1>4, Zenon
    <2> HIDE DEF Marked
    <2>4. Marked(q) \in [1..Len(q) -> PageCall]
      BY <2>2, <2>3, Zenon
    <2> QED
      BY <2>1, <2>4
  <1>6. ASSUME NEW i \in DOMAIN q
        PROVE  /\ ~Marked(q)[i].latest
               /\ Marked(q)[i].op = q[i].op /\ Marked(q)[i].dep = q[i].dep
               /\ Marked(q)[i].ns = q[i].ns /\ Marked(q)[i].key = q[i].key
               /\ Marked(q)[i].val = q[i].val /\ Marked(q)[i].version = q[i].version
               /\ Marked(q)[i].seen = q[i].seen /\ Marked(q)[i].then = q[i].then
    <2>1. q[i] \in PageCall /\ Marked(q)[i] = [q[i] EXCEPT !.latest = FALSE]
      BY <1>2, <1>4, <1>6, Zenon
    <2> QED
      BY <2>1 DEF PageCall
  <1> QED
    BY <1>3, <1>5, <1>6, Zenon

\* Without a chain, calls none of which is the latest fetch fit every page.
LEMMA MarkedKeeps ==
    ASSUME NEW p, NEW new, NEW q \in Seq(PageCall), CallsFit(p, q), OneChain(q), NoChain(q)
    PROVE  CallsFit(new, Marked(q)) /\ OneChain(Marked(q)) /\ NoChain(Marked(q))
  <1>1. ASSUME NEW i \in DOMAIN q
        PROVE  Shape(Marked(q)[i]) /\ ~Chain(Marked(q)[i]) /\ Fits(new, Marked(q)[i])
    <2>1. Shape(q[i]) /\ ~Chain(q[i])
      BY <1>1, Zenon DEF CallsFit, NoChain
    <2> DEFINE m == Marked(q)[i]
    <2>2. /\ ~m.latest /\ m.op = q[i].op /\ m.dep = q[i].dep /\ m.ns = q[i].ns /\ m.key = q[i].key
          /\ m.val = q[i].val /\ m.version = q[i].version /\ m.seen = q[i].seen
          /\ m.then = q[i].then
      BY <1>1, MarkedCalls, Zenon
    <2> HIDE DEF m
    <2>3. ~Chain(m)
      BY <2>1, <2>2, Zenon DEF Chain
    <2>4. Fits(new, m)
      BY <2>3, <2>2, Zenon DEF Fits, Chain, None
    <2>5. Place(m) = Place(q[i])
      BY <2>2, Zenon DEF Place
    <2>6. Shape(m)
      BY <2>1, <2>2, <2>3, <2>5, Zenon DEF Shape
    <2> QED
      BY <2>3, <2>4, <2>6, Zenon DEF m
  <1>2. DOMAIN Marked(q) = DOMAIN q
    BY MarkedCalls, Zenon
  <1>3. NoChain(Marked(q)) /\ CallsFit(new, Marked(q))
    BY <1>1, <1>2, Zenon DEF NoChain, CallsFit
  <1>4. OneChain(Marked(q))
    BY <1>3, Zenon DEF OneChain, NoChain, Ending, Chain, None
  <1> QED
    BY <1>3, <1>4, Zenon

\* With the selection as it was, the calls are those that waited.
LEMMA RendersSame ==
    ASSUME NEW new, new.dep = page.dep, new.ns = page.ns, new.selectedKey = page.selectedKey,
           NEW w \in Seq(PageCall), Renders(new, w)
    PROVE  page' = new /\ queue' = w
  <1>1. NamespaceEffect(page, new) = <<>> /\ EntriesEffect(page, new) = <<>> /\ ~Fetches(page, new)
    BY Zenon DEF NamespaceEffect, EntriesEffect, Fetches
  <1>2. (w \o <<>>) \o <<>> = w
    OBVIOUS
  <1> QED
    BY <1>1, <1>2, Zenon DEF Renders, ValueEffect

\* Another key of the same list: a fetch may join.
LEMMA RendersKey ==
    ASSUME NEW new, new.dep = page.dep, new.ns = page.ns, new.dep \in Deps, new.ns \in Spaces,
           new.selectedKey \in Names, NEW w \in Seq(PageCall), Renders(new, w)
    PROVE  /\ page' = new
           /\ Fetches(page, new) => queue' = Append(Marked(w), Call("get", new, new.selectedKey))
           /\ ~Fetches(page, new) => queue' = w
  <1>1. NamespaceEffect(page, new) = <<>> /\ EntriesEffect(page, new) = <<>>
    BY Zenon DEF NamespaceEffect, EntriesEffect
  <1>2. (w \o <<>>) \o <<>> = w
    OBVIOUS
  <1>3. Call("get", new, new.selectedKey) \in PageCall
    BY CallIs DEF CallOps
  <1>4. Marked(w) \o <<Call("get", new, new.selectedKey)>>
          = Append(Marked(w), Call("get", new, new.selectedKey))
    BY <1>3, MarkedCalls
  <1> QED
    BY <1>1, <1>2, <1>4, Zenon DEF Renders, ValueEffect, Marked

\* Another place with no key selected: its lists are asked for.
LEMMA RendersPlace ==
    ASSUME NEW new, new.selectedKey = None, new.dep \in Deps, new.ns \in Spaces,
           NEW w \in Seq(PageCall), Renders(new, w)
    PROVE  /\ page' = new
           /\ \/ queue' = w /\ (new.dep = None \/ (new.dep = page.dep /\ new.ns = page.ns))
              \/ queue' = Append(w, Call("list", new, None)) /\ new.dep # None
              \/ /\ queue' = Append(Append(w, Call("namespaces", new, None)),
                                    Call("list", new, None))
                 /\ new.dep # None
  <1> DEFINE list == Call("list", new, None)
             spaces == Call("namespaces", new, None)
  <1>1. list \in PageCall /\ spaces \in PageCall
    BY CallIs DEF CallOps, Names
  <1>2. page' = new /\ queue' = (w \o NamespaceEffect(page, new)) \o EntriesEffect(page, new)
    BY Zenon DEF Renders, ValueEffect, Fetches
  <1>3. /\ NamespaceEffect(page, new) = IF new.dep # page.dep /\ new.dep # None THEN <<spaces>> ELSE <<>>
        /\ EntriesEffect(page, new) = IF <<new.dep, new.ns>> # <<page.dep, page.ns>> /\ new.dep # None
                                        THEN <<list>> ELSE <<>>
    BY Zenon DEF NamespaceEffect, EntriesEffect
  <1> HIDE DEF list, spaces
  <1>4. (w \o <<>>) \o <<>> = w /\ (w \o <<>>) \o <<list>> = Append(w, list)
    BY <1>1
  <1>5. (w \o <<spaces>>) \o <<list>> = Append(Append(w, spaces), list)
    BY <1>1
  <1> QED
    BY <1>2, <1>3, <1>4, <1>5, Zenon DEF list, spaces

(***************************************************************************)
(* The reducer.                                                            *)
(***************************************************************************)

\* Every selection starts by dropping the object shown.
LEMMA DeselectedIs ==
    ASSUME NEW p \in PageState
    PROVE  /\ Deselected(p) \in PageState
           /\ Deselected(p).dep = p.dep /\ Deselected(p).ns = p.ns
           /\ Deselected(p).entries = p.entries /\ Deselected(p).creating = p.creating
           /\ Deselected(p).selectedKey = None /\ Deselected(p).current = Nothing
           /\ Deselected(p).draft = Text(0)
  BY EmptyValues, Zenon DEF Deselected, PageState, Names

\* Another deployment, with its default namespace.
LEMMA DeploymentSelectedIs ==
    ASSUME NEW p \in PageState, NEW dep \in Deps
    PROVE  LET new == deploymentSelected(p, dep) IN
           /\ new \in PageState /\ new.dep = dep /\ new.ns = DEFAULT_NAMESPACE
           /\ new.selectedKey = None /\ new.current = Nothing /\ new.draft = Text(0)
           /\ new.entries = NoEntries /\ ~new.creating
  <1>0. DEFAULT_NAMESPACE \in Namespaces /\ {} \in SUBSET Namespaces
    BY BrowserBounds, Zenon
  <1>1. ASSUME NEW d \in PageState
        PROVE  LET new == [d EXCEPT !.dep = dep, !.namespaces = {}, !.ns = DEFAULT_NAMESPACE,
                                           !.entries = NoEntries, !.creating = FALSE] IN
               /\ new \in PageState
               /\ new.dep = dep /\ new.ns = DEFAULT_NAMESPACE /\ new.entries = NoEntries
               /\ new.selectedKey = d.selectedKey /\ new.current = d.current /\ new.draft = d.draft
               /\ ~new.creating
    BY <1>0, EmptyValues, Zenon DEF PageState
  <1>2. Deselected(p) \in PageState
    BY DeselectedIs, Zenon
  <1> QED
    BY <1>1, <1>2, DeselectedIs, ZenonT(30) DEF deploymentSelected

\* Another namespace.
LEMMA NamespaceSelectedIs ==
    ASSUME NEW p \in PageState, NEW ns \in Namespaces
    PROVE  LET new == namespaceSelected(p, ns) IN
           /\ new \in PageState /\ new.dep = p.dep /\ new.ns = ns
           /\ new.selectedKey = None /\ new.current = Nothing /\ new.draft = Text(0)
           /\ new.entries = NoEntries /\ ~new.creating
  <1>1. ASSUME NEW d \in PageState
        PROVE  LET new == [d EXCEPT !.ns = ns, !.entries = NoEntries, !.creating = FALSE] IN
               /\ new \in PageState
               /\ new.dep = d.dep /\ new.ns = ns /\ new.entries = NoEntries
               /\ new.selectedKey = d.selectedKey /\ new.current = d.current /\ new.draft = d.draft
               /\ ~new.creating
    BY EmptyValues, Zenon DEF PageState
  <1>2. Deselected(p) \in PageState
    BY DeselectedIs, Zenon
  <1> QED
    BY <1>1, <1>2, DeselectedIs, ZenonT(30) DEF namespaceSelected

\* Another key.
LEMMA KeySelectedIs ==
    ASSUME NEW p \in PageState, NEW key \in Names
    PROVE  LET new == keySelected(p, key) IN
           /\ new \in PageState /\ new.dep = p.dep /\ new.ns = p.ns
           /\ new.selectedKey = key /\ new.current = Nothing /\ new.draft = Text(0)
           /\ new.entries = p.entries /\ ~new.creating
  <1>1. ASSUME NEW d \in PageState
        PROVE  LET new == [d EXCEPT !.selectedKey = key, !.creating = FALSE] IN
               /\ new \in PageState
               /\ new.dep = d.dep /\ new.ns = d.ns /\ new.entries = d.entries
               /\ new.selectedKey = key /\ new.current = d.current /\ new.draft = d.draft
               /\ ~new.creating
    BY Zenon DEF PageState
  <1>2. Deselected(p) \in PageState
    BY DeselectedIs, Zenon
  <1> QED
    BY <1>1, <1>2, DeselectedIs, ZenonT(30) DEF keySelected

\* The form of a new object.
LEMMA CreateStartedIs ==
    ASSUME NEW p \in PageState
    PROVE  LET new == createStarted(p) IN
           /\ new \in PageState /\ new.dep = p.dep /\ new.ns = p.ns
           /\ new.selectedKey = None /\ new.current = Nothing /\ new.draft = Text(0)
           /\ new.entries = p.entries /\ new.creating
  BY DeselectedIs, EmptyValues, Zenon DEF createStarted, PageState, Names

\* The object just created is selected, not shown yet.
LEMMA CreatedIs ==
    ASSUME NEW p \in PageState, NEW key \in Names
    PROVE  LET new == created(p, key) IN
           /\ new \in PageState /\ new.dep = p.dep /\ new.ns = p.ns
           /\ new.selectedKey = key /\ new.current = Nothing /\ new.draft = Text(0)
           /\ new.entries = p.entries /\ ~new.creating
  <1>1. ASSUME NEW d \in PageState
        PROVE  LET new == [d EXCEPT !.selectedKey = key, !.creating = FALSE, !.busy = FALSE] IN
               /\ new \in PageState
               /\ new.dep = d.dep /\ new.ns = d.ns /\ new.entries = d.entries
               /\ new.selectedKey = key /\ new.current = d.current /\ new.draft = d.draft
               /\ ~new.creating
    BY Zenon DEF PageState
  <1>2. Deselected(p) \in PageState
    BY DeselectedIs, Zenon
  <1> QED
    BY <1>1, <1>2, DeselectedIs, ZenonT(30) DEF created

\* The object just deleted is not selected any more.
LEMMA DeletedIs ==
    ASSUME NEW p \in PageState
    PROVE  LET new == deleted(p) IN
           /\ new \in PageState /\ new.dep = p.dep /\ new.ns = p.ns
           /\ new.selectedKey = None /\ new.current = Nothing /\ new.draft = Text(0)
           /\ new.entries = p.entries /\ new.creating = p.creating
  BY DeselectedIs, EmptyValues, Zenon DEF deleted, PageState

\* A failed call leaves what is on the page.
LEMMA FailedIs ==
    ASSUME NEW p \in PageState
    PROVE  LET new == Failed(p) IN
           /\ new \in PageState /\ new.dep = p.dep /\ new.ns = p.ns
           /\ new.selectedKey = p.selectedKey /\ new.current = p.current /\ new.draft = p.draft
           /\ new.entries = p.entries /\ new.creating = p.creating
  BY Zenon DEF Failed, PageState

\* The object an answer brings is shown, and its value is the draft.
LEMMA ShownIs ==
    ASSUME NEW p \in PageState, NEW object \in HeldObject
    PROVE  LET new == Shown(p, object) IN
           /\ new \in PageState /\ new.dep = p.dep /\ new.ns = p.ns
           /\ new.selectedKey = p.selectedKey /\ new.current = object
           /\ new.draft = object.row.val
           /\ new.entries = p.entries /\ new.creating = p.creating
  <1>1. object.row.val \in ObjectVal
    BY Zenon DEF HeldObject, ObjectRow
  <1> QED
    BY <1>1, Zenon DEF Shown, PageState

(***************************************************************************)
(* How calls relate to another page.                                       *)
(***************************************************************************)

\* A page with the same selection and form suits the same calls.
LEMMA SameSuits ==
    ASSUME NEW p, NEW new, NEW q, CallsFit(p, q),
           new.dep = p.dep, new.ns = p.ns, new.selectedKey = p.selectedKey,
           new.creating = p.creating
    PROVE  CallsFit(new, q)
  <1> SUFFICES ASSUME NEW i \in DOMAIN q
               PROVE  Shape(q[i]) /\ Fits(new, q[i])
    BY Zenon DEF CallsFit
  <1>1. Shape(q[i]) /\ Fits(p, q[i])
    BY Zenon DEF CallsFit
  <1>2. Selection(new) = Selection(p)
    BY Zenon DEF Selection
  <1> QED
    BY <1>1, <1>2, Zenon DEF Fits

\* Lists and picker contents suit every page.
LEMMA IdleSuits ==
    ASSUME NEW p, NEW new, NEW q, CallsFit(p, q), NoChain(q),
           \A i \in DOMAIN q : q[i].op = "get" => ~q[i].latest
    PROVE  CallsFit(new, q)
  <1> SUFFICES ASSUME NEW i \in DOMAIN q
               PROVE  Shape(q[i]) /\ Fits(new, q[i])
    BY Zenon DEF CallsFit
  <1>1. Shape(q[i]) /\ ~Chain(q[i]) /\ ~(q[i].op = "get" /\ q[i].latest)
    BY Zenon DEF CallsFit, NoChain
  <1> QED
    BY <1>1, Zenon DEF Fits, Chain, None

\* The calls for a list and for the namespaces of the page.
LEMMA PlainCalls ==
    ASSUME NEW p, p.dep \in Deployments, p.ns \in Namespaces, NEW op \in {"list", "namespaces"}
    PROVE  /\ Call(op, p, None) \in PageCall
           /\ Call(op, p, None).op = op
           /\ Call(op, p, None).dep = p.dep /\ Call(op, p, None).ns = p.ns
           /\ Shape(Call(op, p, None)) /\ ~Chain(Call(op, p, None))
           /\ \A new : Fits(new, Call(op, p, None))
  <1> DEFINE c == Call(op, p, None)
  <1>1. p.dep \in Deps /\ p.ns \in Spaces /\ op \in CallOps /\ None \in Names
    BY Zenon DEF Deps, Spaces, CallOps, Names
  <1>2. /\ c \in PageCall /\ c.op = op /\ c.dep = p.dep /\ c.ns = p.ns /\ c.then = None
    BY <1>1, CallIs
  <1> HIDE DEF c
  <1>3. ~Chain(c)
    BY <1>2, Zenon DEF Chain
  <1>4. Shape(c) /\ \A new : Fits(new, c)
    BY <1>2, <1>3, Zenon DEF Shape, Fits, Chain, None
  <1> QED
    BY <1>2, <1>3, <1>4, Zenon DEF c

\* One of them joins the calls of a page, whatever they are.
LEMMA PlainJoins ==
    ASSUME NEW p, p.dep \in Deployments, p.ns \in Namespaces, NEW op \in {"list", "namespaces"},
           NEW q \in Seq(PageCall), CallsFit(p, q), OneChain(q)
    PROVE  LET all == Append(q, Call(op, p, None)) IN
           /\ all \in Seq(PageCall) /\ CallsFit(p, all) /\ OneChain(all)
           /\ NoChain(q) => NoChain(all)
  <1> DEFINE c == Call(op, p, None)
  <1>1. c \in PageCall /\ c.op = op /\ Shape(c) /\ ~Chain(c) /\ Fits(p, c)
    BY PlainCalls, Zenon
  <1> HIDE DEF c
  <1>2. Append(q, c) \in Seq(PageCall)
    BY <1>1, AppendCalls, Zenon
  <1>3. CallsFit(p, Append(q, c)) /\ OneChain(Append(q, c))
    BY <1>1, AppendKeeps, Zenon
  <1>4. NoChain(q) => NoChain(Append(q, c))
    BY <1>1, AppendCalls DEF NoChain
  <1> QED
    BY <1>2, <1>3, <1>4, Zenon DEF c

\* A user who waits leaves no write behind, nor a fetch.
LEMMA NothingInFlight ==
    ASSUME NEW ops, {"set", "delete"} \subseteq ops, ~InFlight(ops)
    PROVE  /\ NoChain(queue)
           /\ \A i \in DOMAIN queue : queue[i].op \notin ops
  BY Zenon DEF InFlight, NoChain, Chain

\* The fetch of the object selected joins calls without a chain.
LEMMA FetchJoins ==
    ASSUME NEW p, NEW new \in PageState, new.dep # None, new.selectedKey \in Keys,
           ~isSecretNamespace(new.ns), ~new.creating,
           NEW w \in Seq(PageCall), CallsFit(p, w), OneChain(w), NoChain(w)
    PROVE  LET all == Append(Marked(w), Call("get", new, new.selectedKey)) IN
           all \in Seq(PageCall) /\ CallsFit(new, all) /\ OneChain(all)
  <1> DEFINE get == Call("get", new, new.selectedKey)
  <1>1. new.dep \in Deployments /\ new.dep \in Deps /\ new.ns \in Namespaces /\ new.ns \in Spaces
        /\ new.selectedKey \in Names
    BY PageHas, Zenon DEF Deps
  <1>2. /\ get \in PageCall /\ get.op = "get" /\ get.dep = new.dep /\ get.ns = new.ns
        /\ get.key = new.selectedKey /\ get.then = None
    BY <1>1, CallIs DEF CallOps
  <1> HIDE DEF get
  <1>3. Place(get) = Selection(new) /\ Place(get) \in Objects
    BY <1>1, <1>2, Zenon DEF Place, Selection, Objects
  <1>4. Shape(get) /\ Fits(new, get)
    BY <1>2, <1>3, Zenon DEF Shape, Fits, Chain, None
  <1>5. /\ Marked(w) \in Seq(PageCall) /\ CallsFit(new, Marked(w))
        /\ OneChain(Marked(w)) /\ NoChain(Marked(w))
    BY MarkedCalls, MarkedKeeps, Zenon
  <1>6. Append(Marked(w), get) \in Seq(PageCall)
    BY <1>2, <1>5, AppendCalls, Zenon
  <1>7. CallsFit(new, Append(Marked(w), get)) /\ OneChain(Append(Marked(w), get))
    BY <1>2, <1>4, <1>5, AppendKeeps, Zenon
  <1> QED
    BY <1>6, <1>7, Zenon DEF get

-----------------------------------------------------------------------------
(***************************************************************************)
(* The steps.                                                              *)
(***************************************************************************)

\* With no dialog open, the page and its calls are all there is to the invariant.
LEMMA ClosedDialog ==
    ASSUME SelectInv, store' = store, writes' = writes, dialog' = NoDialog,
           page' \in PageState, queue' \in Seq(PageCall),
           CallsFit(page', queue'), OneChain(queue'), PageFits(page')
    PROVE  SelectInv'
  <1>1. BrowserTypes'
    BY NoDialogIs, Zenon DEF SelectInv, BrowserTypes
  <1>2. DialogFits(page, queue, dialog)'
    BY Zenon DEF DialogFits
  <1> QED
    BY <1>1, <1>2, Zenon DEF SelectInv

\* Leaving for another deployment or namespace: only lists are on their way.
LEMMA Leaving ==
    ASSUME SelectInv, Waits, selectDeployment \/ selectNamespace
    PROVE  /\ page' \in PageState /\ page'.selectedKey = None /\ page'.current = Nothing
           /\ page'.draft = Text(0) /\ page'.entries = NoEntries /\ ~page'.creating
           /\ NoChain(queue)
           /\ \A i \in DOMAIN queue : queue[i].op # "get"
           /\ \/ queue' = queue /\ page'.dep = None
              \/ queue' = Append(queue, Call("list", page', None)) /\ page'.dep # None
              \/ /\ queue' = Append(Append(queue, Call("namespaces", page', None)),
                                    Call("list", page', None))
                 /\ page'.dep # None
  <1>1. page \in PageState /\ queue \in Seq(PageCall)
    BY Zenon DEF SelectInv, BrowserTypes
  <1>2. NoChain(queue) /\ \A i \in DOMAIN queue : queue[i].op # "get"
    <2>1. ~InFlight({"get", "set", "delete"})
      BY Zenon DEF selectDeployment, selectNamespace, MayLeave
    <2> QED
      BY <2>1, NothingInFlight, Zenon
  <1>3. PICK new \in PageState :
          /\ Renders(new, queue) /\ new.selectedKey = None /\ new.current = Nothing
          /\ new.draft = Text(0) /\ new.entries = NoEntries /\ ~new.creating
          /\ new.dep # page.dep \/ new.ns # page.ns
    <2>1. CASE selectDeployment
      <3>1. PICK dep \in Deps : dep # page.dep /\ Renders(deploymentSelected(page, dep), queue)
        BY <2>1, Zenon DEF selectDeployment, Deps
      <3> QED
        BY <1>1, <3>1, DeploymentSelectedIs
    <2>2. CASE selectNamespace
      <3>1. PICK ns \in NamespacesOffered \ {page.ns} : Renders(namespaceSelected(page, ns), queue)
        BY <2>2, Zenon DEF selectNamespace
      <3>2. ns \in Namespaces
        BY <1>1, <3>1, PageHas, Zenon DEF NamespacesOffered
      <3> QED
        BY <1>1, <3>1, <3>2, NamespaceSelectedIs
    <2> QED
      BY <2>1, <2>2, Zenon
  <1>4. /\ page' = new
        /\ \/ queue' = queue /\ (new.dep = None \/ (new.dep = page.dep /\ new.ns = page.ns))
           \/ queue' = Append(queue, Call("list", new, None)) /\ new.dep # None
           \/ /\ queue' = Append(Append(queue, Call("namespaces", new, None)),
                                 Call("list", new, None))
              /\ new.dep # None
    BY <1>1, <1>3, PageHas, RendersPlace, Zenon
  <1> QED
    BY <1>2, <1>3, <1>4, Zenon

\* Leaving keeps the invariant.
LEMMA LeaveSteps ==
    ASSUME SelectInv, Waits, selectDeployment \/ selectNamespace
    PROVE  SelectInv'
  <1>1. /\ page \in PageState /\ queue \in Seq(PageCall) /\ CallsFit(page, queue)
        /\ OneChain(queue) /\ store' = store /\ writes' = writes /\ dialog' = NoDialog
    BY Zenon DEF SelectInv, BrowserTypes, selectDeployment, selectNamespace, Clickable
  <1>2. PICK new : new = page'
    BY Zenon
  <1>3. CallsFit(new, queue)
    BY <1>1, Leaving, IdleSuits, Zenon
  <1>4. queue' \in Seq(PageCall) /\ CallsFit(new, queue') /\ OneChain(queue')
    <2>1. CASE queue' = queue
      BY <1>1, <1>3, <2>1, Zenon
    <2>2. CASE new.dep # None
      <3>1. new.dep \in Deployments /\ new.ns \in Namespaces
        BY <1>2, <2>2, Leaving, PageHas, Zenon DEF Deps
      <3>2. LET all == Append(queue, Call("list", new, None)) IN
            all \in Seq(PageCall) /\ CallsFit(new, all) /\ OneChain(all)
        BY <1>1, <1>3, <3>1, PlainJoins
      <3> DEFINE more == Append(queue, Call("namespaces", new, None))
      <3>3. more \in Seq(PageCall) /\ CallsFit(new, more) /\ OneChain(more)
        BY <1>1, <1>3, <3>1, PlainJoins, Zenon
      <3> HIDE DEF more
      <3>4. LET all == Append(more, Call("list", new, None)) IN
            all \in Seq(PageCall) /\ CallsFit(new, all) /\ OneChain(all)
        BY <3>1, <3>3, PlainJoins, Zenon
      <3> QED
        BY <1>1, <1>2, <1>3, <3>2, <3>4, Leaving, Zenon DEF more
    <2> QED
      BY <1>2, <2>1, <2>2, Leaving, Zenon
  <1>5. PageFits(new)
    BY <1>2, Leaving, Zenon DEF PageFits
  <1> QED
    BY <1>1, <1>2, <1>4, <1>5, Leaving, ClosedDialog, Zenon

\* From key to key: the fetch of the new one takes `latest' from the others.
LEMMA SelectKeyStep ==
    ASSUME SelectInv, Waits, selectKey
    PROVE  SelectInv'
  <1>1. /\ page \in PageState /\ queue \in Seq(PageCall) /\ CallsFit(page, queue)
        /\ OneChain(queue) /\ store' = store /\ writes' = writes /\ dialog' = NoDialog
    BY Zenon DEF SelectInv, BrowserTypes, selectKey, Clickable
  <1>2. NoChain(queue)
    <2>1. ~InFlight({"set", "delete", "list"})
      BY Zenon DEF selectKey
    <2> QED
      BY <2>1, NothingInFlight, Zenon
  <1>3. PICK key \in Keys : key # page.selectedKey /\ Renders(keySelected(page, key), queue)
    BY Zenon DEF selectKey, KeysOffered
  <1> DEFINE new == keySelected(page, key)
  <1>4. /\ new \in PageState /\ new.dep = page.dep /\ new.ns = page.ns
        /\ new.selectedKey = key /\ new.current = Nothing /\ ~new.creating
    BY <1>1, KeySelectedIs DEF Names
  <1>5. new.dep \in Deps /\ new.ns \in Spaces /\ new.selectedKey \in Names
    BY <1>4, PageHas, Zenon
  <1>6. key # None /\ page.dep # None /\ page.dep \in Deployments
    BY <1>1, BrowserBounds, PageHas, Zenon DEF selectKey, Deps
  <1> HIDE DEF new
  <1>7. /\ page' = new
        /\ Fetches(page, new) => queue' = Append(Marked(queue), Call("get", new, key))
        /\ ~Fetches(page, new) => queue' = queue
    BY <1>1, <1>3, <1>4, <1>5, RendersKey, Zenon DEF new
  <1>8. PageFits(new)
    BY <1>4, Zenon DEF PageFits
  <1>9. queue' \in Seq(PageCall) /\ CallsFit(new, queue') /\ OneChain(queue')
    <2>1. CASE isSecretNamespace(page.ns)
      <3>1. queue' = queue
        BY <1>4, <1>7, <2>1, Zenon DEF Fetches
      <3>2. \A i \in DOMAIN queue : queue[i].op = "get" => ~queue[i].latest
        BY <1>1, <2>1, Zenon DEF CallsFit, Fits
      <3> QED
        BY <1>1, <1>2, <3>1, <3>2, IdleSuits, Zenon
    <2>2. CASE ~isSecretNamespace(page.ns)
      <3>1. queue' = Append(Marked(queue), Call("get", new, new.selectedKey))
        BY <1>3, <1>4, <1>6, <1>7, <2>2, Zenon DEF Fetches
      <3> QED
        BY <1>1, <1>2, <1>4, <1>6, <2>2, <3>1, FetchJoins, Zenon
    <2> QED
      BY <2>1, <2>2, Zenon
  <1> QED
    BY <1>1, <1>4, <1>7, <1>8, <1>9, ClosedDialog, Zenon

\* The form of a new object opens when nothing is on its way but lists.
LEMMA StartCreateStep ==
    ASSUME SelectInv, Waits, startCreate
    PROVE  SelectInv'
  <1>1. /\ page \in PageState /\ queue \in Seq(PageCall) /\ CallsFit(page, queue)
        /\ OneChain(queue) /\ store' = store /\ writes' = writes /\ dialog' = NoDialog
    BY Zenon DEF SelectInv, BrowserTypes, startCreate, Clickable
  <1>2. NoChain(queue) /\ \A i \in DOMAIN queue : queue[i].op # "get"
    <2>1. ~InFlight({"get", "set", "delete"})
      BY Zenon DEF startCreate, MayLeave
    <2> QED
      BY <2>1, NothingInFlight, Zenon
  <1> DEFINE new == createStarted(page)
  <1>3. /\ new \in PageState /\ new.dep = page.dep /\ new.ns = page.ns
        /\ new.selectedKey = None /\ new.current = Nothing /\ new.creating
    BY <1>1, CreateStartedIs, Zenon
  <1>4. Renders(new, queue) /\ page.dep # None /\ ~isSecretNamespace(page.ns)
    BY Zenon DEF startCreate
  <1> HIDE DEF new
  <1>5. page' = new /\ queue' = queue
    <2>1. new.dep \in Deps /\ new.ns \in Spaces /\ new.selectedKey \in Names
      BY <1>3, PageHas, Zenon
    <2>2. ~Fetches(page, new)
      BY <1>3, Zenon DEF Fetches
    <2> QED
      BY <1>1, <1>3, <1>4, <2>1, <2>2, RendersKey, Zenon
  <1>6. CallsFit(new, queue)
    BY <1>1, <1>2, IdleSuits, Zenon
  <1>7. PageFits(new)
    BY <1>3, <1>4, Zenon DEF PageFits
  <1> QED
    BY <1>1, <1>3, <1>5, <1>6, <1>7, ClosedDialog, Zenon

\* The form is filled in or cancelled while no write is on its way.
LEMMA FormStep ==
    ASSUME SelectInv, Waits, Form
    PROVE  SelectInv'
  <1>1. /\ page \in PageState /\ queue \in Seq(PageCall) /\ CallsFit(page, queue)
        /\ OneChain(queue) /\ store' = store /\ writes' = writes /\ dialog' = NoDialog
        /\ queue' = queue /\ PageFits(page)
    BY Zenon DEF SelectInv, BrowserTypes, Form, Clickable
  <1>2. NoChain(queue)
    <2>1. ~InFlight({"set", "delete"})
      BY Zenon DEF Form
    <2> QED
      BY <2>1, NothingInFlight, Zenon
  <1>3. /\ page' \in PageState /\ page'.dep = page.dep /\ page'.ns = page.ns
        /\ page'.selectedKey = page.selectedKey /\ page'.current = page.current
        /\ page'.creating => page.creating
    <2>1. CASE \E key \in Keys : page' = [page EXCEPT !.newKey = key]
      BY <1>1, <2>1 DEF PageState, Names
    <2>2. CASE page' = [page EXCEPT !.creating = FALSE]
      BY <1>1, <2>2, Zenon DEF PageState
    <2>3. CASE page' = [page EXCEPT !.draft = Typed]
      BY <1>1, <2>3, EmptyValues, Zenon DEF PageState
    <2> QED
      BY <2>1, <2>2, <2>3, Zenon DEF Form
  <1>4. CallsFit(page', queue)
    <2> SUFFICES ASSUME NEW i \in DOMAIN queue
                 PROVE  Shape(queue[i]) /\ Fits(page', queue[i])
      BY Zenon DEF CallsFit
    <2>1. Shape(queue[i]) /\ Fits(page, queue[i]) /\ ~Chain(queue[i])
      BY <1>1, <1>2, Zenon DEF CallsFit, NoChain
    <2>2. Selection(page') = Selection(page)
      BY <1>3, Zenon DEF Selection
    <2> QED
      BY <1>3, <2>1, <2>2, Zenon DEF Fits, Chain, None
  <1>5. PageFits(page')
    BY <1>1, <1>3, Zenon DEF PageFits, Selection
  <1> QED
    BY <1>1, <1>3, <1>4, <1>5, ClosedDialog, Zenon

\* A refresh asks for the list of the page.
LEMMA RefreshStep ==
    ASSUME SelectInv, Refresh
    PROVE  SelectInv'
  <1>1. /\ page \in PageState /\ queue \in Seq(PageCall) /\ CallsFit(page, queue)
        /\ OneChain(queue) /\ store' = store /\ writes' = writes /\ dialog' = NoDialog
        /\ page' = page /\ PageFits(page) /\ page.dep # None
        /\ queue' = Append(queue, Call("list", page, None))
    BY Zenon DEF SelectInv, BrowserTypes, Refresh, Clickable
  <1>2. page.dep \in Deployments /\ page.ns \in Namespaces
    BY <1>1, PageHas, Zenon DEF Deps
  <1>3. queue' \in Seq(PageCall) /\ CallsFit(page, queue') /\ OneChain(queue')
    BY <1>1, <1>2, PlainJoins, Zenon
  <1> QED
    BY <1>1, <1>3, ClosedDialog, Zenon

\* A save writes the object shown, with its version; a create one that is not there.
LEMMA SaveStep ==
    ASSUME SelectInv, Waits, save
    PROVE  SelectInv'
  <1>1. /\ page \in PageState /\ queue \in Seq(PageCall) /\ CallsFit(page, queue)
        /\ OneChain(queue) /\ store' = store /\ writes' = writes /\ dialog' = NoDialog
        /\ page' = [page EXCEPT !.busy = TRUE] /\ PageFits(page)
    BY Zenon DEF SelectInv, BrowserTypes, save, Clickable
  <1>2. NoChain(queue)
    <2>1. ~InFlight({"set", "delete"})
      BY Zenon DEF save
    <2> QED
      BY <2>1, NothingInFlight, Zenon
  <1>3. PICK c \in PageCall : queue' = Append(queue, c) /\ Shape(c) /\ Fits(page, c)
    <2>1. CASE /\ Panel = "create" /\ page.newKey # None
               /\ queue' = Append(queue, [Call("set", page, page.newKey) EXCEPT
                                            !.val = page.draft, !.then = "created"])
      <3> DEFINE call == Call("set", page, page.newKey)
                 c == [call EXCEPT !.val = page.draft, !.then = "created"]
      <3>1. page.creating /\ page.dep # None
        BY <2>1, Zenon DEF Panel
      <3>2. /\ page.dep \in Deployments /\ page.ns \in Namespaces /\ page.newKey \in Keys
            /\ page.draft \in ObjectVal /\ page.dep \in Deps /\ page.ns \in Spaces
            /\ page.newKey \in Names
        BY <1>1, <2>1, <3>1, PageHas, Zenon DEF Deps, Names
      <3>3. /\ call \in PageCall /\ call.op = "set" /\ call.dep = page.dep /\ call.ns = page.ns
            /\ call.key = page.newKey /\ call.version = 0
        BY <3>2, CallIs DEF CallOps
      <3> HIDE DEF call
      <3>4. /\ c \in PageCall /\ c.op = "set" /\ c.dep = page.dep /\ c.ns = page.ns
            /\ c.key = page.newKey /\ c.version = 0 /\ c.then = "created"
        BY <3>2, <3>3, Zenon DEF PageCall, Thens
      <3> HIDE DEF c
      <3>5. ~isSecretNamespace(page.ns)
        BY <1>1, <3>1, Zenon DEF PageFits
      <3>6. Place(c) \in Objects
        BY <3>2, <3>4, Zenon DEF Place, Objects
      <3>7. Shape(c)
        BY <3>2, <3>4, <3>5, <3>6, Zenon DEF Shape, None
      <3>8. Fits(page, c)
        BY <3>1, <3>4, Zenon DEF Fits
      <3> QED
        <4>1. queue' = Append(queue, c)
          BY <2>1, Zenon DEF c, call
        <4> QED
          BY <4>1, <3>4, <3>7, <3>8, Zenon
    <2>2. CASE /\ Panel = "object"
               /\ queue' = Append(queue, [Call("set", page, page.current.at[3]) EXCEPT
                                       !.val = page.draft, !.version = page.current.row.version,
                                       !.seen = page.current, !.then = "saved"])
      <3> DEFINE call == Call("set", page, page.current.at[3])
                 c == [call EXCEPT !.val = page.draft, !.version = page.current.row.version,
                                   !.seen = page.current, !.then = "saved"]
      <3>1. /\ page.current # Nothing /\ page.dep # None
            /\ ~isSecretNamespace(page.ns) \/ page.selectedKey = None
        BY <2>2, Zenon DEF Panel
      <3>2. /\ page.current.at = Selection(page) /\ page.current.at \in Objects
            /\ page.current.row.version # 0 /\ ~page.creating
        BY <1>1, <3>1, Zenon DEF PageFits
      <3>3. /\ page.dep \in Deps /\ page.ns \in Spaces /\ page.draft \in ObjectVal
            /\ page.current \in HeldObject /\ page.current.row.version \in Nat
        BY <1>1, PageHas, Zenon DEF HeldObject, ObjectRow
      <3>4. /\ page.current.at[3] = page.selectedKey /\ page.selectedKey \in Keys
            /\ page.selectedKey \in Names
        BY <3>2 DEF Selection, Objects, Names
      <3>5. /\ call \in PageCall /\ call.op = "set" /\ call.dep = page.dep /\ call.ns = page.ns
            /\ call.key = page.selectedKey
        BY <3>3, <3>4, CallIs DEF CallOps
      <3> HIDE DEF call
      <3>6. /\ c \in PageCall /\ c.op = "set" /\ c.dep = page.dep /\ c.ns = page.ns
            /\ c.key = page.selectedKey /\ c.version = page.current.row.version
            /\ c.seen = page.current /\ c.then = "saved"
        BY <3>3, <3>5, Zenon DEF PageCall, Thens
      <3> HIDE DEF c
      <3>7. ~isSecretNamespace(page.ns)
        BY <3>1, <3>4, BrowserBounds, Zenon
      <3>8. Place(c) = Selection(page)
        BY <3>6, Zenon DEF Place, Selection
      <3>9. Shape(c)
        BY <3>2, <3>6, <3>7, <3>8, Zenon DEF Shape, None
      <3>10. Fits(page, c)
        BY <3>2, <3>6, Zenon DEF Fits
      <3> QED
        <4>1. queue' = Append(queue, c)
          BY <2>2, Zenon DEF c, call
        <4> QED
          BY <4>1, <3>6, <3>9, <3>10, Zenon
    <2> QED
      BY <2>1, <2>2, Zenon DEF save
  <1>4. queue' \in Seq(PageCall) /\ CallsFit(page, queue') /\ OneChain(queue')
    BY <1>1, <1>2, <1>3, AppendCalls, AppendKeeps, Zenon
  <1>5. /\ page' \in PageState /\ page'.dep = page.dep /\ page'.ns = page.ns
        /\ page'.selectedKey = page.selectedKey /\ page'.current = page.current
        /\ page'.creating = page.creating
    BY <1>1, Zenon DEF PageState
  <1>6. CallsFit(page', queue')
    BY <1>4, <1>5, SameSuits, Zenon
  <1>7. PageFits(page')
    BY <1>1, <1>5, Zenon DEF PageFits, Selection
  <1> QED
    BY <1>1, <1>4, <1>5, <1>6, <1>7, ClosedDialog, Zenon

\* The dialog of a delete opens when no write is on its way.
LEMMA RemoveStep ==
    ASSUME SelectInv, Waits, remove
    PROVE  SelectInv'
  <1>1. /\ page \in PageState /\ queue \in Seq(PageCall) /\ CallsFit(page, queue)
        /\ OneChain(queue) /\ PageFits(page) /\ UNCHANGED <<store, page, queue, writes>>
    BY Zenon DEF SelectInv, BrowserTypes, remove
  <1>2. NoChain(queue)
    <2>1. ~InFlight({"set", "delete", "list"})
      BY Zenon DEF remove
    <2> QED
      BY <2>1, NothingInFlight, Zenon
  <1> DEFINE key  == IF page.current # Nothing THEN page.current.at[3] ELSE page.selectedKey
             seen == IF page.current # Nothing THEN page.current
                     ELSE [at  |-> <<page.entries.at[1], page.entries.at[2], page.selectedKey>>,
                           row |-> page.entries.rows[page.selectedKey]]
             call == Call("delete", page, key)
  <1>3. dialog' = [call EXCEPT !.version = seen.row.version, !.seen = seen, !.then = "deleted"]
    BY Zenon DEF remove
  <1>4. page.dep # None /\ (page.current = Nothing => page.selectedKey # None)
    BY Zenon DEF remove, Panel
  <1>5. /\ page.dep \in Deployments /\ page.dep \in Deps /\ page.ns \in Namespaces
        /\ page.ns \in Spaces
    BY <1>1, <1>4, PageHas, Zenon DEF Deps
  <1>6. key \in Keys /\ key \in Names /\ seen \in HeldObject
    <2>1. CASE page.current # Nothing
      BY <1>1, <2>1, PageHas, Zenon DEF PageFits, Objects, Names
    <2>2. CASE page.current = Nothing
      <3>1. page.selectedKey \in Keys /\ page.entries \in EntryList
        BY <1>1, <1>4, <2>2, PageHas, Zenon DEF Names
      <3>2. page.entries.at[1] \in Deps /\ page.entries.at[2] \in Spaces
        BY <3>1, Zenon DEF EntryList
      <3>3. page.entries.rows[page.selectedKey] \in ObjectRow
        BY <3>1, Zenon DEF EntryList
      <3> QED
        BY <2>2, <3>1, <3>2, <3>3, Zenon DEF HeldObject, Names
    <2> QED
      BY <2>1, <2>2, Zenon
  <1> HIDE DEF key, seen
  <1>7. /\ call \in PageCall /\ call.op = "delete" /\ call.dep = page.dep
        /\ call.ns = page.ns /\ call.key = key
    BY <1>5, <1>6, CallIs DEF CallOps
  <1> HIDE DEF call
  <1>8. seen.row.version \in Nat
    BY <1>6, Zenon DEF HeldObject, ObjectRow
  <1>9. /\ dialog' \in PageCall /\ dialog'.op = "delete" /\ dialog'.dep = page.dep
        /\ dialog'.ns = page.ns /\ dialog'.key = key /\ dialog'.then = "deleted"
        /\ dialog'.version = seen.row.version /\ dialog'.seen = seen
    BY <1>3, <1>6, <1>7, <1>8, Zenon DEF PageCall, Thens
  <1>10. Place(dialog') \in Objects
    BY <1>5, <1>6, <1>9, Zenon DEF Place, Objects
  <1>11. Shape(dialog')
    BY <1>9, <1>10, Zenon DEF Shape, None
  <1>12. Fits(page, dialog')
    BY <1>9, Zenon DEF Fits
  <1>13. DialogFits(page, queue, dialog)'
    BY <1>1, <1>2, <1>9, <1>11, <1>12, Zenon DEF DialogFits
  <1>14. BrowserTypes'
    BY <1>1, <1>9, Zenon DEF SelectInv, BrowserTypes
  <1> QED
    BY <1>1, <1>13, <1>14, Zenon DEF SelectInv

\* Its delete joins, behind every fetch.
LEMMA SettleStep ==
    ASSUME SelectInv, settle
    PROVE  SelectInv'
  <1>1. /\ page \in PageState /\ queue \in Seq(PageCall) /\ CallsFit(page, queue)
        /\ OneChain(queue) /\ PageFits(page) /\ store' = store /\ writes' = writes
        /\ dialog' = NoDialog /\ dialog \in PageCall
    BY Zenon DEF SelectInv, BrowserTypes, settle
  <1>2. CASE UNCHANGED <<queue, page>>
    BY <1>1, <1>2, ClosedDialog, Zenon
  <1>3. CASE queue' = Append(queue, dialog) /\ page' = [page EXCEPT !.busy = TRUE]
    <2>1. Shape(dialog) /\ Fits(page, dialog) /\ NoChain(queue)
      BY Zenon DEF SelectInv, DialogFits, settle
    <2>2. queue' \in Seq(PageCall) /\ CallsFit(page, queue') /\ OneChain(queue')
      BY <1>1, <1>3, <2>1, AppendCalls, AppendKeeps, Zenon
    <2>3. /\ page' \in PageState /\ page'.dep = page.dep /\ page'.ns = page.ns
          /\ page'.selectedKey = page.selectedKey /\ page'.current = page.current
          /\ page'.creating = page.creating
      BY <1>1, <1>3, Zenon DEF PageState
    <2>4. CallsFit(page', queue')
      BY <2>2, <2>3, SameSuits, Zenon
    <2>5. PageFits(page')
      BY <1>1, <2>3, Zenon DEF PageFits, Selection
    <2> QED
      BY <1>1, <2>2, <2>3, <2>4, <2>5, ClosedDialog, Zenon
  <1> QED
    BY <1>2, <1>3, Zenon DEF settle

\* An answer that leaves selection, form and dialog: the first call is gone, and one that
\* fits may have joined.
LEMMA AnswerKeeps ==
    ASSUME SelectInv, queue # <<>>, NEW new \in PageState,
           new.dep = page.dep, new.ns = page.ns, new.selectedKey = page.selectedKey,
           new.creating = page.creating, PageFits(new),
           NEW w \in Seq(PageCall), CallsFit(page, w), OneChain(w),
           NoChain(queue) => NoChain(w), Renders(new, w),
           store' \in [Objects -> ObjectRow], writes' = writes, dialog' = dialog
    PROVE  SelectInv'
  <1>1. page' = new /\ queue' = w
    BY RendersSame, Zenon
  <1>2. CallsFit(new, w)
    BY SameSuits, Zenon
  <1>3. BrowserTypes'
    BY <1>1, Zenon DEF SelectInv, BrowserTypes
  <1>4. DialogFits(page, queue, dialog)'
    <2>1. Selection(new) = Selection(page)
      BY Zenon DEF Selection
    <2> QED
      BY <1>1, <2>1, Zenon DEF SelectInv, DialogFits, Fits
  <1> QED
    BY <1>1, <1>2, <1>3, <1>4, Zenon DEF SelectInv

\* The first call, and the invariant of those behind it.
LEMMA FirstCall ==
    ASSUME SelectInv, queue # <<>>
    PROVE  /\ Head(queue) \in PageCall /\ Shape(Head(queue)) /\ Fits(page, Head(queue))
           /\ Tail(queue) \in Seq(PageCall) /\ CallsFit(page, Tail(queue))
           /\ OneChain(Tail(queue))
           /\ NoChain(queue) => NoChain(Tail(queue))
           /\ Chain(Head(queue)) => NoChain(Tail(queue)) /\ dialog = NoDialog
           /\ Ending(Head(queue)) => \A i \in DOMAIN Tail(queue) : Tail(queue)[i].op # "get"
  <1>1. queue \in Seq(PageCall) /\ CallsFit(page, queue) /\ OneChain(queue)
    BY Zenon DEF SelectInv, BrowserTypes
  <1>2. Head(queue) \in PageCall /\ Tail(queue) \in Seq(PageCall) /\ 1 \in DOMAIN queue
        /\ queue[1] = Head(queue)
    BY <1>1, TailCalls, Zenon
  <1>3. Chain(Head(queue)) => dialog = NoDialog
    BY <1>2, Zenon DEF SelectInv, DialogFits, NoChain
  <1> QED
    BY <1>1, <1>2, <1>3, TailKeeps, Zenon

\* The namespaces of the picker.
LEMMA ListNamespacesStep ==
    ASSUME SelectInv, listNamespaces
    PROVE  SelectInv'
  <1>1. /\ page \in PageState /\ queue # <<>> /\ UNCHANGED <<store, dialog, writes>>
        /\ store \in [Objects -> ObjectRow] /\ PageFits(page)
    BY Zenon DEF SelectInv, BrowserTypes, listNamespaces, Answers
  <1>2. PICK spaces \in SUBSET Namespaces :
          Renders([page EXCEPT !.namespaces = spaces], Tail(queue))
    <2>1. DEFAULT_NAMESPACE \in Namespaces
      BY BrowserBounds, Zenon
    <2> DEFINE held == {ns \in Namespaces : \E key \in Keys :
                          store[<<Head(queue).dep, ns, key>>].version # 0}
    <2>2. held \cup {DEFAULT_NAMESPACE} \in SUBSET Namespaces
          /\ {DEFAULT_NAMESPACE} \in SUBSET Namespaces
      BY <2>1, Zenon
    <2>3. \/ Renders([page EXCEPT !.namespaces = held \cup {DEFAULT_NAMESPACE}], Tail(queue))
          \/ Renders([page EXCEPT !.namespaces = {DEFAULT_NAMESPACE}], Tail(queue))
      BY Zenon DEF listNamespaces
    <2> HIDE DEF held
    <2> QED
      BY <2>2, <2>3, Zenon
  <1> DEFINE new == [page EXCEPT !.namespaces = spaces]
  <1>3. /\ new \in PageState /\ new.dep = page.dep /\ new.ns = page.ns
        /\ new.selectedKey = page.selectedKey /\ new.creating = page.creating
        /\ new.current = page.current
    BY <1>1, Zenon DEF PageState
  <1> HIDE DEF new
  <1>4. PageFits(new)
    BY <1>1, <1>3, Zenon DEF PageFits, Selection
  <1>5. Renders(new, Tail(queue))
    BY <1>2, Zenon DEF new
  <1> QED
    BY <1>1, <1>3, <1>4, <1>5, FirstCall, AnswerKeeps, Zenon

\* The reload that ends a chain may select the object created, or drop the one deleted.
LEMMA ContinuedStep ==
    ASSUME SelectInv, queue # <<>>, NEW p \in PageState,
           p.dep = page.dep, p.ns = page.ns, p.selectedKey = page.selectedKey,
           p.creating = page.creating, p.current = page.current,
           Renders(Continued(p, Head(queue)), Tail(queue)), UNCHANGED <<store, dialog, writes>>
    PROVE  SelectInv'
  <1> DEFINE c == Head(queue)
             w == Tail(queue)
  <1>0. PageFits(page) /\ store \in [Objects -> ObjectRow]
    BY Zenon DEF SelectInv, BrowserTypes
  <1>1. /\ c \in PageCall /\ Shape(c) /\ Fits(page, c) /\ w \in Seq(PageCall)
        /\ CallsFit(page, w) /\ OneChain(w)
        /\ NoChain(queue) => NoChain(w)
        /\ Chain(c) => NoChain(w) /\ dialog = NoDialog
        /\ Ending(c) => \A i \in DOMAIN w : w[i].op # "get"
    BY FirstCall, Zenon
  <1>2. Renders(Continued(p, c), w)
    OBVIOUS
  <1> HIDE DEF c, w
  <1>3. p.dep \in Deps /\ p.ns \in Spaces
    BY PageHas, Zenon
  <1>4. CASE c.then = "created"
    <2> DEFINE new == created(p, c.key)
    <2>1. Chain(c) /\ c.key \in Keys /\ c.key \in Names /\ p.creating
      BY <1>1, <1>4, Zenon DEF Chain, Shape, Fits, Names, None
    <2>2. Renders(new, w)
      BY <1>2, <1>4, Zenon DEF Continued
    <2>3. /\ new \in PageState /\ new.dep = page.dep /\ new.ns = page.ns
          /\ new.selectedKey = c.key /\ new.current = Nothing /\ ~new.creating
      BY <2>1, CreatedIs, Zenon
    <2>4. new.dep \in Deps /\ new.ns \in Spaces /\ new.selectedKey \in Names
      BY <2>1, <2>3, <1>3, Zenon
    <2> HIDE DEF new
    <2>5. /\ page' = new
          /\ Fetches(page, new) => queue' = Append(Marked(w), Call("get", new, c.key))
          /\ ~Fetches(page, new) => queue' = w
      BY <1>1, <2>2, <2>3, <2>4, RendersKey, Zenon
    <2>6. \A i \in DOMAIN w : w[i].op = "get" => ~w[i].latest
      BY <1>1, <2>1, Zenon DEF CallsFit, Fits
    <2>7. queue' \in Seq(PageCall) /\ CallsFit(new, queue') /\ OneChain(queue')
      <3>1. CASE ~Fetches(page, new)
        BY <1>1, <2>1, <2>5, <2>6, <3>1, IdleSuits, Zenon
      <3>2. CASE Fetches(page, new)
        <4>1. new.dep # None /\ ~isSecretNamespace(new.ns)
          BY <3>2, Zenon DEF Fetches
        <4>2. queue' = Append(Marked(w), Call("get", new, new.selectedKey))
          BY <2>3, <2>5, <3>2, Zenon
        <4> QED
          BY <1>1, <2>1, <2>3, <4>1, <4>2, FetchJoins, Zenon
      <3> QED
        BY <3>1, <3>2, Zenon
    <2>8. PageFits(new)
      BY <2>3, Zenon DEF PageFits
    <2> QED
      BY <1>1, <2>1, <2>3, <2>5, <2>7, <2>8, ClosedDialog, Zenon
  <1>5. CASE c.then = "deleted"
    <2> DEFINE new == deleted(p)
    <2>1. Chain(c) /\ Ending(c)
      BY <1>5, Zenon DEF Chain, Ending, None
    <2>2. Renders(new, w)
      BY <1>2, <1>5, Zenon DEF Continued
    <2>3. /\ new \in PageState /\ new.dep = page.dep /\ new.ns = page.ns
          /\ new.selectedKey = None /\ new.current = Nothing /\ new.creating = page.creating
      BY DeletedIs, Zenon
    <2>4. new.dep \in Deps /\ new.ns \in Spaces /\ new.selectedKey \in Names
      BY <2>3, PageHas, Zenon
    <2> HIDE DEF new
    <2>5. page' = new /\ queue' = w
      <3>1. ~Fetches(page, new)
        BY <2>3, Zenon DEF Fetches
      <3> QED
        BY <1>1, <2>2, <2>3, <2>4, <3>1, RendersKey, Zenon
    <2>6. CallsFit(new, w)
      BY <1>1, <2>1, IdleSuits, Zenon
    <2>7. PageFits(new)
      BY <1>0, <2>3, Zenon DEF PageFits
    <2> QED
      BY <1>1, <2>1, <2>3, <2>5, <2>6, <2>7, ClosedDialog, Zenon
  <1>6. CASE c.then \notin {"created", "deleted"}
    <2>1. Renders(p, w)
      BY <1>2, <1>6, Zenon DEF Continued
    <2>2. PageFits(p)
      BY <1>0, Zenon DEF PageFits, Selection
    <2> QED
      BY <1>0, <1>1, <2>1, <2>2, AnswerKeeps, Zenon
  <1> QED
    BY <1>4, <1>5, <1>6, Zenon

\* The list of the page, or of the place it has left.
LEMMA LoadEntriesStep ==
    ASSUME SelectInv, loadEntries
    PROVE  SelectInv'
  <1>1. page \in PageState /\ queue # <<>> /\ UNCHANGED <<store, dialog, writes>>
        /\ Answers("list") /\ store \in [Objects -> ObjectRow]
    BY Zenon DEF SelectInv, BrowserTypes, loadEntries, Answers
  <1> DEFINE c == Head(queue)
             listed(rows) == [loaded |-> TRUE, at |-> <<c.dep, c.ns>>, rows |-> rows]
             found == [key \in Keys |-> store[<<c.dep, c.ns, key>>]]
  <1>2. c.dep \in Deployments /\ c.ns \in Namespaces
    BY <1>1, FirstCall, Zenon DEF Shape, Answers
  <1>3. listed(found) \in EntryList /\ listed(NoRows) \in EntryList
    <2>1. found \in [Keys -> ObjectRow]
      BY <1>1, <1>2, Zenon DEF Objects
    <2>2. NoRows \in [Keys -> ObjectRow]
      BY EmptyValues, Zenon DEF NoRows
    <2> HIDE DEF found
    <2> QED
      BY <1>2, <2>1, <2>2, Zenon DEF EntryList, Deps, Spaces
  <1>4. \/ Renders(Continued([page EXCEPT !.entries = listed(found)], c), Tail(queue))
        \/ Renders(Continued(Failed([page EXCEPT !.entries = listed(NoRows)]), c), Tail(queue))
    BY Zenon DEF loadEntries
  <1> HIDE DEF found, listed
  <1>5. PICK p \in PageState :
          /\ Renders(Continued(p, c), Tail(queue))
          /\ p.dep = page.dep /\ p.ns = page.ns /\ p.selectedKey = page.selectedKey
          /\ p.creating = page.creating /\ p.current = page.current
    <2>1. ASSUME NEW entries \in EntryList
          PROVE  LET p == [page EXCEPT !.entries = entries] IN
                 /\ p \in PageState /\ p.dep = page.dep /\ p.ns = page.ns
                 /\ p.selectedKey = page.selectedKey /\ p.creating = page.creating
                 /\ p.current = page.current
      BY <1>1, Zenon DEF PageState
    <2>2. CASE Renders(Continued([page EXCEPT !.entries = listed(found)], c), Tail(queue))
      BY <1>3, <2>1, <2>2, Zenon
    <2>3. CASE Renders(Continued(Failed([page EXCEPT !.entries = listed(NoRows)]), c), Tail(queue))
      <3> DEFINE p == [page EXCEPT !.entries = listed(NoRows)]
      <3>1. /\ p \in PageState /\ p.dep = page.dep /\ p.ns = page.ns
            /\ p.selectedKey = page.selectedKey /\ p.creating = page.creating
            /\ p.current = page.current
        BY <1>3, <2>1, Zenon
      <3>2. Renders(Continued(Failed(p), c), Tail(queue))
        BY <2>3, Zenon
      <3> HIDE DEF p
      <3> QED
        BY <3>1, <3>2, FailedIs
    <2> QED
      BY <1>4, <2>2, <2>3, Zenon
  <1> QED
    BY <1>1, <1>5, ContinuedStep, Zenon

\* Only the answer of the newest fetch is shown: it is the selected object's.
LEMMA GetObjectStep ==
    ASSUME SelectInv, getObject
    PROVE  SelectInv'
  <1> DEFINE c == Head(queue)
             object == [at |-> Place(c), row |-> store[Place(c)]]
  <1>1. /\ page \in PageState /\ queue # <<>> /\ UNCHANGED <<store, dialog, writes>>
        /\ c.op = "get" /\ store \in [Objects -> ObjectRow] /\ PageFits(page)
    BY Zenon DEF SelectInv, BrowserTypes, getObject, Answers
  <1>2. PICK new \in PageState :
          /\ Renders(new, Tail(queue)) /\ PageFits(new)
          /\ new.dep = page.dep /\ new.ns = page.ns /\ new.selectedKey = page.selectedKey
          /\ new.creating = page.creating
    <2>1. CASE Renders(page, Tail(queue))
      BY <1>1, <2>1, Zenon
    <2>2. CASE /\ c.latest /\ store[Place(c)].version # 0
               /\ Renders(Shown(page, object), Tail(queue))
      <3>1. Place(c) = Selection(page) /\ ~page.creating /\ Place(c) \in Objects
        BY <1>1, <2>2, FirstCall, Zenon DEF Fits, Shape
      <3>2. object \in HeldObject
        BY <1>1, <3>1, Zenon DEF HeldObject, Objects, Deps, Spaces, Names
      <3>3. object.at = Selection(page) /\ object.row.version # 0
        BY <2>2, <3>1, Zenon
      <3> HIDE DEF object
      <3> DEFINE new == Shown(page, object)
      <3>4. /\ new \in PageState /\ new.dep = page.dep /\ new.ns = page.ns
            /\ new.selectedKey = page.selectedKey /\ new.creating = page.creating
            /\ new.current = object
        BY <1>1, <3>2, ShownIs, Zenon
      <3>5. Renders(new, Tail(queue))
        BY <2>2, Zenon
      <3> HIDE DEF new
      <3>6. PageFits(new)
        BY <1>1, <3>1, <3>3, <3>4, Zenon DEF PageFits, Selection
      <3> QED
        BY <3>4, <3>5, <3>6, Zenon
    <2>3. CASE Renders(Failed(page), Tail(queue))
      <3>1. PageFits(Failed(page))
        BY <1>1, FailedIs, Zenon DEF PageFits, Selection
      <3> QED
        BY <1>1, <2>3, <3>1, FailedIs, Zenon
    <2> QED
      BY <2>1, <2>2, <2>3, Zenon DEF getObject
  <1> QED
    BY <1>1, <1>2, FirstCall, AnswerKeeps, Zenon

\* The reload that a write is followed by carries on its chain.
LEMMA ReloadJoins ==
    ASSUME SelectInv, queue # <<>>, Head(queue).op \in {"set", "delete"}
    PROVE  LET c   == Head(queue)
               all == Append(Tail(queue), [Call("list", c, c.key) EXCEPT !.then = c.then])
           IN  /\ all \in Seq(PageCall) /\ CallsFit(page, all) /\ OneChain(all)
               /\ NoChain(queue) => NoChain(all)
  <1> DEFINE c == Head(queue)
             w == Tail(queue)
             call == Call("list", c, c.key)
             reload == [call EXCEPT !.then = c.then]
  <1>1. /\ c \in PageCall /\ Shape(c) /\ Fits(page, c) /\ c.op \in {"set", "delete"}
        /\ w \in Seq(PageCall) /\ CallsFit(page, w) /\ OneChain(w)
        /\ Chain(c) => NoChain(w)
    BY FirstCall, Zenon
  <1>2. ~NoChain(queue)
    <2>1. 1 \in DOMAIN queue /\ queue[1] = c
      BY TailCalls, Zenon DEF SelectInv, BrowserTypes
    <2> QED
      BY <1>1, <2>1, Zenon DEF NoChain, Chain
  <1> HIDE DEF c, w
  <1>3. /\ Chain(c) /\ c.dep \in Deployments /\ c.ns \in Namespaces /\ c.dep = page.dep
        /\ c.ns = page.ns /\ c.then # None
    BY <1>1, Zenon DEF Chain, Shape, Fits, Place, Objects
  <1>4. c.dep \in Deps /\ c.ns \in Spaces /\ c.key \in Names /\ c.then \in Thens
    BY <1>1, Zenon DEF PageCall
  <1>5. /\ call \in PageCall /\ call.op = "list" /\ call.dep = c.dep /\ call.ns = c.ns
        /\ call.key = c.key /\ call.version = 0
    BY <1>4, CallIs DEF CallOps
  <1> HIDE DEF call
  <1>6. /\ reload \in PageCall /\ reload.op = "list" /\ reload.dep = c.dep /\ reload.ns = c.ns
        /\ reload.key = c.key /\ reload.version = 0 /\ reload.then = c.then
    BY <1>4, <1>5, Zenon DEF PageCall
  <1> HIDE DEF reload
  <1>7. Shape(reload) /\ Fits(page, reload)
    BY <1>1, <1>3, <1>6, Zenon DEF Shape, Fits, Chain, None
  <1>8. /\ Append(w, reload) \in Seq(PageCall) /\ CallsFit(page, Append(w, reload))
        /\ OneChain(Append(w, reload))
    BY <1>1, <1>3, <1>6, <1>7, AppendCalls, AppendKeeps, Zenon
  <1> QED
    BY <1>2, <1>8, Zenon DEF reload, call, c, w

\* What a write leaves is a row with a version.
LEMMA WrittenIs ==
    ASSUME store \in [Objects -> ObjectRow], NEW place \in Objects, NEW val \in ObjectVal
    PROVE  /\ Written(place, val) \in ObjectRow /\ Written(place, val).version # 0
           /\ [store EXCEPT ![place] = Written(place, val)] \in [Objects -> ObjectRow]
           /\ [store EXCEPT ![place] = Absent] \in [Objects -> ObjectRow]
  <1>1. store[place] \in ObjectRow
    OBVIOUS
  <1>2. store[place].version \in Nat /\ store[place].born \in Nat /\ val.id \in Nat
    BY <1>1, Zenon DEF ObjectRow, ObjectVal
  <1>3. Written(place, val) \in ObjectRow /\ Written(place, val).version # 0
    BY <1>2 DEF Written, ObjectRow
  <1> QED
    BY <1>3, EmptyValues, Zenon

\* A write that is answered: what was saved is shown in the place of what it replaced.
LEMMA SetObjectStep ==
    ASSUME SelectInv, setObject
    PROVE  SelectInv'
  <1> DEFINE c == Head(queue)
             row == Written(Place(c), Text(c.val.id))
             reload == [Call("list", c, c.key) EXCEPT !.then = c.then]
             object == [at |-> c.seen.at, row |-> row]
             new == [Shown(page, object) EXCEPT !.busy = FALSE]
             all == Append(Tail(queue), reload)
  <1>1. /\ page \in PageState /\ queue # <<>> /\ UNCHANGED <<dialog, writes>>
        /\ c.op = "set" /\ store \in [Objects -> ObjectRow] /\ PageFits(page)
    BY Zenon DEF SelectInv, BrowserTypes, setObject, Answers
  <1>2. /\ c \in PageCall /\ Shape(c) /\ Fits(page, c)
        /\ Tail(queue) \in Seq(PageCall) /\ CallsFit(page, Tail(queue)) /\ OneChain(Tail(queue))
        /\ NoChain(queue) => NoChain(Tail(queue))
    BY <1>1, FirstCall, Zenon
  <1>3. /\ all \in Seq(PageCall) /\ CallsFit(page, all) /\ OneChain(all)
        /\ NoChain(queue) => NoChain(all)
    BY <1>1, ReloadJoins, Zenon
  <1>4. Place(c) \in Objects /\ Text(c.val.id) \in ObjectVal
    BY <1>1, <1>2, Zenon DEF Shape, PageCall, Text, ObjectVal
  <1>5. row \in ObjectRow /\ row.version # 0 /\ [store EXCEPT ![Place(c)] = row] \in [Objects -> ObjectRow]
    BY <1>1, <1>4, WrittenIs, Zenon
  <1>6. store' \in [Objects -> ObjectRow]
    <2>1. store' = store \/ store' = [store EXCEPT ![Place(c)] = row]
      BY Zenon DEF setObject
    <2> QED
      BY <1>1, <1>5, <2>1, Zenon
  <1>7. \/ c.then = "saved" /\ Renders(new, all)
        \/ Renders(page, all)
        \/ Renders(Failed(page), Tail(queue))
    BY Zenon DEF setObject
  <1> HIDE DEF all, row
  <1>8. CASE c.then = "saved" /\ Renders(new, all)
    <2>1. c.seen.at = Selection(page) /\ c.seen.at \in Objects /\ ~page.creating
      BY <1>1, <1>2, <1>4, <1>8, Zenon DEF Shape, Fits, Place, Selection, Chain
    <2>2. object \in HeldObject /\ object.at = Selection(page) /\ object.at \in Objects
          /\ object.row.version # 0
      BY <1>5, <2>1, Zenon DEF HeldObject, Objects, Deps, Spaces, Names
    <2> HIDE DEF object
    <2>3. /\ Shown(page, object) \in PageState /\ Shown(page, object).dep = page.dep
          /\ Shown(page, object).ns = page.ns /\ Shown(page, object).current = object
          /\ Shown(page, object).selectedKey = page.selectedKey
          /\ Shown(page, object).creating = page.creating
      BY <1>1, <2>2, ShownIs
    <2>4. /\ new \in PageState /\ new.dep = page.dep /\ new.ns = page.ns
          /\ new.selectedKey = page.selectedKey /\ new.creating = page.creating
          /\ new.current = object
      <3>1. ASSUME NEW p \in PageState
            PROVE  LET q == [p EXCEPT !.busy = FALSE] IN
                   /\ q \in PageState /\ q.dep = p.dep /\ q.ns = p.ns
                   /\ q.selectedKey = p.selectedKey /\ q.creating = p.creating
                   /\ q.current = p.current
        BY Zenon DEF PageState
      <3> QED
        BY <2>3, <3>1, Zenon
    <2> HIDE DEF new
    <2>5. PageFits(new)
      BY <2>1, <2>2, <2>4, Zenon DEF PageFits, Selection
    <2> QED
      BY <1>1, <1>3, <1>6, <1>8, <2>4, <2>5, AnswerKeeps, Zenon
  <1>9. CASE Renders(page, all)
    BY <1>1, <1>3, <1>6, <1>9, AnswerKeeps, Zenon
  <1>10. CASE Renders(Failed(page), Tail(queue))
    <2>1. PageFits(Failed(page))
      BY <1>1, FailedIs, Zenon DEF PageFits, Selection
    <2> QED
      BY <1>1, <1>2, <1>6, <1>10, <2>1, FailedIs, AnswerKeeps, Zenon
  <1> QED
    BY <1>7, <1>8, <1>9, <1>10, Zenon

\* A delete that is answered.
LEMMA DeleteObjectStep ==
    ASSUME SelectInv, deleteObject
    PROVE  SelectInv'
  <1> DEFINE c == Head(queue)
             reload == [Call("list", c, c.key) EXCEPT !.then = c.then]
             all == Append(Tail(queue), reload)
  <1>1. /\ page \in PageState /\ queue # <<>> /\ UNCHANGED <<dialog, writes>>
        /\ c.op = "delete" /\ store \in [Objects -> ObjectRow] /\ PageFits(page)
    BY Zenon DEF SelectInv, BrowserTypes, deleteObject, Answers
  <1>2. /\ Tail(queue) \in Seq(PageCall) /\ CallsFit(page, Tail(queue)) /\ OneChain(Tail(queue))
        /\ NoChain(queue) => NoChain(Tail(queue))
        /\ Place(c) \in Objects
    BY <1>1, FirstCall, Zenon DEF Shape
  <1>3. /\ all \in Seq(PageCall) /\ CallsFit(page, all) /\ OneChain(all)
        /\ NoChain(queue) => NoChain(all)
    BY <1>1, ReloadJoins, Zenon
  <1>4. store' \in [Objects -> ObjectRow]
    <2>1. store' = store \/ store' = [store EXCEPT ![Place(c)] = Absent]
      BY Zenon DEF deleteObject
    <2> QED
      BY <1>1, <1>2, <2>1, WrittenIs, EmptyValues, Zenon
  <1>5. Renders(page, all) \/ Renders(Failed(page), Tail(queue))
    BY Zenon DEF deleteObject
  <1> HIDE DEF all
  <1>6. CASE Renders(page, all)
    BY <1>1, <1>3, <1>4, <1>6, AnswerKeeps, Zenon
  <1>7. CASE Renders(Failed(page), Tail(queue))
    <2>1. PageFits(Failed(page))
      BY <1>1, FailedIs, Zenon DEF PageFits, Selection
    <2> QED
      BY <1>1, <1>2, <1>4, <1>7, <2>1, FailedIs, AnswerKeeps, Zenon
  <1> QED
    BY <1>5, <1>6, <1>7, Zenon

\* Flows write behind the page.
LEMMA FlowSteps ==
    ASSUME SelectInv, FlowWrites \/ FlowDeletes
    PROVE  SelectInv'
  <1>1. UNCHANGED <<page, queue, dialog>> /\ writes' = writes + 1 /\ writes \in Nat
        /\ store \in [Objects -> ObjectRow]
    BY Zenon DEF SelectInv, BrowserTypes, FlowWrites, FlowDeletes
  <1>2. store' \in [Objects -> ObjectRow]
    <2>1. CASE FlowWrites
      <3> DEFINE val == [id |-> writes + 1, bin |-> writes + 1 \in Binary]
      <3>1. PICK place \in Objects : store' = [store EXCEPT ![place] = Written(place, val)]
        BY <2>1, BrowserBounds, Zenon DEF FlowWrites, Objects
      <3>2. val \in ObjectVal
        BY <1>1 DEF ObjectVal
      <3> HIDE DEF val
      <3> QED
        BY <1>1, <3>1, <3>2, WrittenIs, Zenon
    <2>2. CASE FlowDeletes
      <3>1. PICK place \in Objects : store' = [store EXCEPT ![place] = Absent]
        BY <2>2, BrowserBounds, Zenon DEF FlowDeletes, Objects
      <3> QED
        BY <1>1, <3>1, EmptyValues, Zenon
    <2> QED
      BY <2>1, <2>2, Zenon
  <1>3. BrowserTypes'
    BY <1>1, <1>2 DEF SelectInv, BrowserTypes
  <1> QED
    BY <1>1, <1>3, Zenon DEF SelectInv

\* The page opens with the calls for its place, and for the object of its link.
LEMMA SelectInit ==
    ASSUME Init
    PROVE  SelectInv
  <1>1. PICK dep \in Deps, key \in Names, ns \in Namespaces :
          LET blank == initState(None, None, DEFAULT_NAMESPACE)
              p     == initState(dep, key, ns)
          IN  /\ page = p
              /\ queue = ValueEffect(blank, p, NamespaceEffect(blank, p) \o EntriesEffect(blank, p))
    BY Zenon DEF Init, Deps, Names
  <1> DEFINE blank == initState(None, None, DEFAULT_NAMESPACE)
             p     == initState(dep, key, ns)
  <1>2. /\ p \in PageState /\ p.dep = dep /\ p.ns = ns /\ p.selectedKey = key
        /\ p.current = Nothing /\ ~p.creating
    BY EmptyValues, Zenon DEF initState, PageState, Names
  <1>3. blank.dep = None /\ blank.ns = DEFAULT_NAMESPACE /\ blank.selectedKey = None
    BY Zenon DEF initState
  <1>4. page = p /\ queue = ValueEffect(blank, p, NamespaceEffect(blank, p) \o EntriesEffect(blank, p))
    BY <1>1, Zenon
  <1> HIDE DEF blank, p
  <1>5. queue \in Seq(PageCall) /\ CallsFit(p, queue) /\ OneChain(queue)
    <2>0. /\ <<>> \in Seq(PageCall) /\ CallsFit(p, <<>>) /\ OneChain(<<>>) /\ NoChain(<<>>)
      BY DEF CallsFit, OneChain, NoChain
    <2>1. CASE dep = None
      <3>1. /\ NamespaceEffect(blank, p) = <<>> /\ EntriesEffect(blank, p) = <<>>
            /\ ~Fetches(blank, p)
        BY <1>2, <2>1, Zenon DEF NamespaceEffect, EntriesEffect, Fetches
      <3>2. queue = <<>> \o <<>>
        BY <1>4, <3>1, Zenon DEF ValueEffect
      <3>3. queue = <<>>
        BY <3>2
      <3> QED
        BY <2>0, <3>3, Zenon
    <2>2. CASE dep # None
      <3> DEFINE more == Append(<<>>, Call("namespaces", p, None))
                 w == Append(more, Call("list", p, None))
      <3>1. p.dep \in Deployments /\ p.ns \in Namespaces
        BY <1>2, <2>2, Zenon DEF Deps
      <3>2. more \in Seq(PageCall) /\ CallsFit(p, more) /\ OneChain(more) /\ NoChain(more)
        BY <2>0, <3>1, PlainJoins, Zenon
      <3>3. w \in Seq(PageCall) /\ CallsFit(p, w) /\ OneChain(w) /\ NoChain(w)
        <4> HIDE DEF more
        <4> QED
          BY <3>1, <3>2, PlainJoins, Zenon
      <3>4. NamespaceEffect(blank, p) \o EntriesEffect(blank, p) = w
        <4>1. /\ NamespaceEffect(blank, p) = <<Call("namespaces", p, None)>>
              /\ EntriesEffect(blank, p) = <<Call("list", p, None)>>
          BY <1>2, <1>3, <2>2, Zenon DEF NamespaceEffect, EntriesEffect
        <4>2. Call("namespaces", p, None) \in PageCall /\ Call("list", p, None) \in PageCall
          BY <3>1, PlainCalls, Zenon
        <4> QED
          BY <4>1, <4>2
      <3> HIDE DEF w
      <3>5. queue = IF Fetches(blank, p) THEN Marked(w) \o <<Call("get", p, p.selectedKey)>> ELSE w
        BY <1>4, <3>4, Zenon DEF ValueEffect, Marked
      <3>6. CASE ~Fetches(blank, p)
        BY <3>3, <3>5, <3>6, Zenon
      <3>7. CASE Fetches(blank, p)
        <4>1. /\ p.dep # None /\ p.selectedKey \in Keys /\ ~isSecretNamespace(p.ns)
              /\ p.dep \in Deps /\ p.ns \in Spaces /\ p.selectedKey \in Names
          BY <1>2, <3>7, PageHas, Zenon DEF Fetches, Names
        <4>2. Call("get", p, p.selectedKey) \in PageCall
          BY <4>1, CallIs DEF CallOps
        <4>3. queue = Append(Marked(w), Call("get", p, p.selectedKey))
          BY <3>3, <3>5, <3>7, <4>2, MarkedCalls
        <4> QED
          BY <1>2, <3>3, <4>1, <4>3, FetchJoins, Zenon
      <3> QED
        BY <3>6, <3>7, Zenon
    <2> QED
      BY <2>1, <2>2, Zenon
  <1>6. PageFits(p)
    BY <1>2, Zenon DEF PageFits
  <1>7. BrowserTypes
    <2>1. [val |-> Text(1), version |-> 1, born |-> 1] \in ObjectRow
      BY Zenon DEF ObjectRow, ObjectVal, Text
    <2>2. store \in [Objects -> ObjectRow]
      BY <2>1, EmptyValues, Zenon DEF Init, Objects
    <2> QED
      BY <1>2, <1>4, <1>5, <2>2, NoDialogIs, Zenon DEF BrowserTypes, Init
  <1>8. DialogFits(page, queue, dialog)
    BY Zenon DEF DialogFits, Init
  <1> QED
    BY <1>4, <1>5, <1>6, <1>7, <1>8, Zenon DEF SelectInv

\* Every step keeps it, with a user who waits.
LEMMA SelectStep ==
    ASSUME Waits, SelectInv, [Next]_vars
    PROVE  SelectInv'
  <1>1. CASE Next
    BY <1>1, LeaveSteps, SelectKeyStep, StartCreateStep, FormStep, RefreshStep, SaveStep,
       RemoveStep, SettleStep, ListNamespacesStep, LoadEntriesStep, GetObjectStep,
       SetObjectStep, DeleteObjectStep, FlowSteps, Zenon DEF Next
  <1>2. CASE UNCHANGED vars
    BY <1>2, Zenon DEF vars, SelectInv, BrowserTypes
  <1> QED
    BY <1>1, <1>2, Zenon

\* The value in the editor is that of the selected object, in every order of clicks,
\* answers and failures, when the user lets a load or a save end before leaving its object:
\* what ObjectsManager's valueSeq guard and its awaited reloads are for.
THEOREM EditorShowsSelected ==
    ASSUME Waits
    PROVE  Spec => []CurrentIsSelected
  <1>1. Init => SelectInv
    BY SelectInit, Zenon
  <1>2. SelectInv /\ [Next]_vars => SelectInv'
    BY SelectStep, Zenon
  <1>3. SelectInv => CurrentIsSelected
    BY Zenon DEF SelectInv, PageFits, CurrentIsSelected, Selection
  <1> QED
    BY <1>1, <1>2, <1>3, PTL DEF Spec

-----------------------------------------------------------------------------
(***************************************************************************)
(* What the page shows of the store.  A version of an object that is still *)
(* there has one value, as long as the object is not made anew: a flow     *)
(* writes a value not used before, and the user creates no object of which *)
(* the page holds a copy.                                                  *)
(***************************************************************************)
Used(w) == (0..w) \cup {MaxWrites + 1}

\* The row is a copy of what the place holds or held.
CopyOf(s, w, place, row) ==
    row.version # 0 =>
        /\ place \in Objects /\ row.born \in Used(w)
        /\ s[place].version # 0 /\ row.born = s[place].born =>
             /\ row.version <= s[place].version
             /\ row.version = s[place].version => row.val = s[place].val

StoreData(s, w) ==
    \A place \in Objects : s[place].val.id \in Used(w) /\ s[place].born \in Used(w)

\* Deletes take a version from the list only in a secret namespace, where the user creates
\* nothing.
PageData(s, w, p) ==
    /\ p.draft.id \in Used(w)
    /\ CopyOf(s, w, p.current.at, p.current.row)
    /\ isSecretNamespace(p.entries.at[2]) =>
         \A key \in Keys : CopyOf(s, w, <<p.entries.at[1], p.entries.at[2], key>>,
                                  p.entries.rows[key])

CallData(s, w, c) ==
    c.op \in {"set", "delete"} =>
        /\ c.val.id \in Used(w)
        /\ CopyOf(s, w, Place(c), c.seen.row)
        /\ c.op = "delete" /\ c.version # 0 => c.seen.at = Place(c)

QueueData(s, w, q) == \A i \in DOMAIN q : CallData(s, w, q[i])

\* The last list asked for is the page's own, and so is the one shown when none is asked for.
NoList(q) == \A i \in DOMAIN q : q[i].op # "list"

LastList(p, q) ==
    \A i \in DOMAIN q :
        q[i].op = "list" /\ (\A j \in DOMAIN q : i < j => q[j].op # "list") =>
            q[i].dep = p.dep /\ q[i].ns = p.ns

EntriesHere(p) == p.entries.at = <<p.dep, p.ns>> \/ p.entries.rows = NoRows

ListFits(p, q) == p.dep # None => LastList(p, q) /\ (NoList(q) => EntriesHere(p))

DataInv ==
    /\ StoreData(store, writes)
    /\ PageData(store, writes, page)
    /\ CallData(store, writes, dialog)
    /\ QueueData(store, writes, queue)
    /\ ListFits(page, queue)

\* The values used stay used.
LEMMA UsedIs ==
    ASSUME NEW w \in Nat
    PROVE  /\ 0 \in Used(w) /\ MaxWrites + 1 \in Used(w) /\ w + 1 \in Used(w + 1)
           /\ Used(w) \subseteq Used(w + 1)
           /\ w < MaxWrites => w + 1 \notin Used(w)
  BY BrowserBounds DEF Used

\* An empty place is a copy of everything.
LEMMA AbsentCopies ==
    ASSUME NEW s, NEW w, NEW place
    PROVE  CopyOf(s, w, place, Absent) /\ CopyOf(s, w, Nothing.at, Nothing.row)
  BY Zenon DEF CopyOf, Nothing, Absent

\* A page without an object and with the list as it was.
LEMMA BlankData ==
    ASSUME NEW s, NEW w \in Nat, NEW p, NEW new, new.draft = Text(0), new.current = Nothing,
           \/ new.entries = NoEntries
           \/ new.entries = p.entries /\ PageData(s, w, p)
    PROVE  PageData(s, w, new)
  <1>1. new.draft.id \in Used(w)
    BY UsedIs DEF Text
  <1>2. CopyOf(s, w, new.current.at, new.current.row)
    BY AbsentCopies, Zenon
  <1>3. CASE new.entries = NoEntries
    <2>1. \A key \in Keys : new.entries.rows[key] = Absent
      BY <1>3 DEF NoEntries, NoRows
    <2> QED
      BY <1>1, <1>2, <2>1, AbsentCopies, Zenon DEF PageData
  <1>4. CASE new.entries = p.entries /\ PageData(s, w, p)
    BY <1>1, <1>2, <1>4, Zenon DEF PageData
  <1> QED
    BY <1>3, <1>4, Zenon

\* Calls without a chain carry no copy.
LEMMA NoChainData ==
    ASSUME NEW s, NEW w, NEW q, NoChain(q)
    PROVE  QueueData(s, w, q)
  BY Zenon DEF NoChain, Chain, QueueData, CallData

\* Appending and taking calls, and their data.
LEMMA JoinData ==
    ASSUME NEW s, NEW w, NEW q \in Seq(PageCall), QueueData(s, w, q)
    PROVE  /\ q # <<>> => QueueData(s, w, Tail(q)) /\ CallData(s, w, Head(q))
           /\ \A c \in PageCall : CallData(s, w, c) => QueueData(s, w, Append(q, c))
  <1>1. q # <<>> => QueueData(s, w, Tail(q)) /\ CallData(s, w, Head(q))
    BY TailCalls, Zenon DEF QueueData
  <1>2. ASSUME NEW c \in PageCall, CallData(s, w, c)
        PROVE  QueueData(s, w, Append(q, c))
    BY <1>2, AppendCalls DEF QueueData
  <1> QED
    BY <1>1, <1>2, Zenon

\* The last list of the calls behind the first.
LEMMA TailList ==
    ASSUME NEW p, NEW q \in Seq(PageCall), q # <<>>, LastList(p, q)
    PROVE  /\ LastList(p, Tail(q))
           /\ NoList(Tail(q)) /\ Head(q).op # "list" => NoList(q)
           /\ NoList(Tail(q)) /\ Head(q).op = "list" => Head(q).dep = p.dep /\ Head(q).ns = p.ns
  <1>1. LastList(p, Tail(q))
    <2> SUFFICES ASSUME NEW i \in DOMAIN Tail(q), Tail(q)[i].op = "list",
                        \A j \in DOMAIN Tail(q) : i < j => Tail(q)[j].op # "list"
                 PROVE  Tail(q)[i].dep = p.dep /\ Tail(q)[i].ns = p.ns
      BY Zenon DEF LastList
    <2>1. i + 1 \in DOMAIN q /\ Tail(q)[i] = q[i + 1] /\ i \in Nat
      BY TailCalls, Zenon
    <2>2. ASSUME NEW j \in DOMAIN q, i + 1 < j
          PROVE  q[j].op # "list"
      <3>1. j \in Nat /\ j # 1
        BY <2>1, <2>2
      <3>2. j - 1 \in DOMAIN Tail(q) /\ q[j] = Tail(q)[j - 1]
        BY <3>1, TailCalls, Zenon
      <3>3. i < j - 1
        BY <2>1, <2>2, <3>1
      <3> QED
        BY <3>2, <3>3, Zenon
    <2> QED
      BY <2>1, <2>2, Zenon DEF LastList
  <1>2. NoList(Tail(q)) => \A i \in DOMAIN q : i # 1 => q[i].op # "list"
    <2> SUFFICES ASSUME NoList(Tail(q)), NEW i \in DOMAIN q, i # 1
                 PROVE  q[i].op # "list"
      OBVIOUS
    <2>1. i - 1 \in DOMAIN Tail(q) /\ q[i] = Tail(q)[i - 1]
      BY TailCalls, Zenon
    <2> QED
      BY <2>1, Zenon DEF NoList
  <1>3. 1 \in DOMAIN q /\ q[1] = Head(q)
    BY TailCalls, Zenon
  <1>4. \A j \in DOMAIN q : 1 < j => j # 1
    OBVIOUS
  <1>5. NoList(Tail(q)) /\ Head(q).op # "list" => NoList(q)
    BY <1>2, <1>3, Zenon DEF NoList
  <1>6. NoList(Tail(q)) /\ Head(q).op = "list" => Head(q).dep = p.dep /\ Head(q).ns = p.ns
    BY <1>2, <1>3, <1>4, Zenon DEF LastList
  <1> QED
    BY <1>1, <1>5, <1>6, Zenon

\* A list of the page that joins is the last one; another call changes nothing.
LEMMA JoinList ==
    ASSUME NEW p, NEW q \in Seq(PageCall), NEW c \in PageCall
    PROVE  /\ c.op = "list" /\ c.dep = p.dep /\ c.ns = p.ns =>
                LastList(p, Append(q, c)) /\ ~NoList(Append(q, c))
           /\ c.op # "list" /\ LastList(p, q) => LastList(p, Append(q, c))
           /\ NoList(Append(q, c)) => NoList(q)
  <1> DEFINE all == Append(q, c)
  <1>1. /\ DOMAIN all = DOMAIN q \cup {Len(q) + 1} /\ all[Len(q) + 1] = c
        /\ \A k \in DOMAIN q : all[k] = q[k] /\ k < Len(q) + 1
    BY AppendCalls
  <1> HIDE DEF all
  <1>2. c.op = "list" /\ c.dep = p.dep /\ c.ns = p.ns => LastList(p, all) /\ ~NoList(all)
    BY <1>1, Zenon DEF LastList, NoList
  <1>3. c.op # "list" /\ LastList(p, q) => LastList(p, all)
    BY <1>1 DEF LastList
  <1>4. NoList(all) => NoList(q)
    BY <1>1, Zenon DEF NoList
  <1> QED
    BY <1>2, <1>3, <1>4, Zenon DEF all

\* Fetches leave the lists as they are.
LEMMA FetchList ==
    ASSUME NEW p, NEW new, new.dep = p.dep, new.ns = p.ns, new.entries = p.entries,
           NEW q \in Seq(PageCall), ListFits(p, q), NEW all,
           \/ all = q
           \/ \E c \in PageCall : c.op = "get" /\ all = Append(Marked(q), c)
    PROVE  ListFits(new, all)
  <1>1. ASSUME NEW r, ListFits(p, r)
        PROVE  ListFits(new, r)
    <2>1. LastList(p, r) => LastList(new, r)
      BY Zenon DEF LastList
    <2>2. EntriesHere(p) => EntriesHere(new)
      BY Zenon DEF EntriesHere
    <2> QED
      BY <1>1, <2>1, <2>2, Zenon DEF ListFits
  <1>2. CASE all = q
    BY <1>1, <1>2, Zenon
  <1>3. ASSUME NEW c \in PageCall, c.op = "get", all = Append(Marked(q), c)
        PROVE  ListFits(new, all)
    <2>1. /\ Marked(q) \in Seq(PageCall) /\ DOMAIN Marked(q) = DOMAIN q
          /\ \A i \in DOMAIN q : Marked(q)[i].op = q[i].op /\ Marked(q)[i].dep = q[i].dep
                                 /\ Marked(q)[i].ns = q[i].ns
      BY MarkedCalls, Zenon
    <2>2. LastList(p, q) => LastList(p, Marked(q))
      BY <2>1, ZenonT(30) DEF LastList
    <2>3. NoList(Marked(q)) => NoList(q)
      BY <2>1, Zenon DEF NoList
    <2>4. LastList(p, Marked(q)) => LastList(p, all)
      BY <1>3, <2>1, JoinList, Zenon
    <2>5. NoList(all) => NoList(Marked(q))
      BY <1>3, <2>1, JoinList, Zenon
    <2>6. ListFits(p, all)
      BY <2>2, <2>3, <2>4, <2>5, Zenon DEF ListFits
    <2> QED
      BY <1>1, <2>6, Zenon
  <1> QED
    BY <1>2, <1>3, Zenon

\* What the store holds is a copy of itself.
LEMMA StoreCopies ==
    ASSUME NEW s \in [Objects -> ObjectRow], NEW w, StoreData(s, w), NEW place \in Objects
    PROVE  CopyOf(s, w, place, s[place])
  <1>1. s[place].version \in Nat
    BY Zenon DEF ObjectRow
  <1> QED
    BY <1>1 DEF CopyOf, StoreData

\* Calls that write nothing carry nothing.
LEMMA ReadData ==
    ASSUME NEW s, NEW w, NEW c, c.op \notin {"set", "delete"}
    PROVE  CallData(s, w, c)
  BY Zenon DEF CallData

\* Leaving drops every copy.
LEMMA LeaveData ==
    ASSUME SelectInv, DataInv, Waits, selectDeployment \/ selectNamespace
    PROVE  DataInv'
  <1>1. /\ queue \in Seq(PageCall) /\ writes \in Nat /\ UNCHANGED <<store, writes, dialog>>
        /\ dialog' = NoDialog
    BY Zenon DEF SelectInv, BrowserTypes, selectDeployment, selectNamespace, Clickable
  <1>2. PICK new : new = page'
    BY Zenon
  <1>3. /\ new \in PageState /\ new.draft = Text(0) /\ new.current = Nothing
        /\ new.entries = NoEntries
    BY <1>2, Leaving, Zenon
  <1>4. PageData(store, writes, new)
    BY <1>1, <1>3, BlankData, Zenon
  <1>5. QueueData(store, writes, queue') /\ ListFits(new, queue')
    <2>1. CASE queue' = queue /\ new.dep = None
      BY <2>1, Zenon DEF DataInv, ListFits
    <2>2. CASE new.dep # None
      <3> DEFINE list == Call("list", new, None)
                 spaces == Call("namespaces", new, None)
                 more == Append(queue, spaces)
      <3>1. new.dep \in Deployments /\ new.ns \in Namespaces
        BY <1>3, <2>2, PageHas, Zenon DEF Deps
      <3>2. list \in PageCall /\ list.op = "list" /\ list.dep = new.dep /\ list.ns = new.ns
        BY <3>1, PlainCalls, Zenon
      <3>3. spaces \in PageCall /\ spaces.op = "namespaces"
        BY <3>1, PlainCalls, Zenon
      <3>4. queue' = Append(queue, list) \/ queue' = Append(more, list)
        BY <1>2, <2>2, Leaving, Zenon
      <3> HIDE DEF list, spaces
      <3>5. more \in Seq(PageCall) /\ QueueData(store, writes, more)
        BY <1>1, <3>3, ReadData, JoinData, AppendCalls, Zenon DEF DataInv
      <3> HIDE DEF more
      <3>6. QueueData(store, writes, queue')
        BY <1>1, <3>2, <3>4, <3>5, ReadData, JoinData, Zenon DEF DataInv
      <3>7. LastList(new, queue') /\ ~NoList(queue')
        BY <1>1, <3>2, <3>4, <3>5, JoinList, Zenon
      <3> QED
        BY <3>6, <3>7, Zenon DEF ListFits
    <2> QED
      BY <1>2, <2>1, <2>2, Leaving, Zenon
  <1> QED
    BY <1>1, <1>2, <1>4, <1>5, Zenon DEF DataInv

\* So does another key, or the form of a new object; the list stays.
LEMMA SelectData ==
    ASSUME SelectInv, DataInv, Waits, selectKey \/ startCreate
    PROVE  DataInv'
  <1>1. /\ page \in PageState /\ queue \in Seq(PageCall) /\ writes \in Nat
        /\ UNCHANGED <<store, writes, dialog>>
    BY Zenon DEF SelectInv, BrowserTypes, selectKey, startCreate
  <1>2. NoChain(queue)
    <2>1. ~InFlight({"set", "delete", "list"}) \/ ~InFlight({"get", "set", "delete"})
      BY Zenon DEF selectKey, startCreate, MayLeave
    <2> QED
      BY <2>1, NothingInFlight, Zenon
  <1>3. PICK new \in PageState :
          /\ Renders(new, queue) /\ new.dep = page.dep /\ new.ns = page.ns
          /\ new.current = Nothing /\ new.draft = Text(0) /\ new.entries = page.entries
    BY <1>1, KeySelectedIs, CreateStartedIs DEF selectKey, startCreate, KeysOffered, Names
  <1>4. new.dep \in Deps /\ new.ns \in Spaces /\ new.selectedKey \in Names
    BY <1>3, PageHas, Zenon
  <1> DEFINE get == Call("get", new, new.selectedKey)
  <1>5. page' = new /\ (queue' = queue \/ queue' = Append(Marked(queue), get))
    BY <1>1, <1>3, <1>4, RendersKey, Zenon
  <1>6. get \in PageCall /\ get.op = "get"
    BY <1>4, CallIs DEF CallOps
  <1> HIDE DEF get
  <1>7. PageData(store, writes, new)
    BY <1>1, <1>3, BlankData, Zenon DEF DataInv
  <1>8. QueueData(store, writes, queue')
    <2>1. Marked(queue) \in Seq(PageCall) /\ NoChain(Marked(queue))
      BY <1>1, <1>2, MarkedCalls, MarkedKeeps, Zenon DEF SelectInv
    <2>2. QueueData(store, writes, Append(Marked(queue), get))
      BY <1>6, <2>1, NoChainData, ReadData, JoinData, Zenon
    <2> QED
      BY <1>5, <2>2, Zenon DEF DataInv
  <1>9. ListFits(new, queue')
    BY <1>1, <1>3, <1>5, <1>6, FetchList, Zenon DEF DataInv
  <1> QED
    BY <1>1, <1>5, <1>7, <1>8, <1>9, Zenon DEF DataInv

\* The form, and a refresh.
LEMMA FormData ==
    ASSUME SelectInv, DataInv, Form \/ Refresh
    PROVE  DataInv'
  <1>1. /\ page \in PageState /\ queue \in Seq(PageCall) /\ writes \in Nat
        /\ UNCHANGED <<store, writes, dialog>>
    BY Zenon DEF SelectInv, BrowserTypes, Form, Refresh
  <1>2. CASE Form
    <2>1. /\ queue' = queue /\ page'.dep = page.dep /\ page'.ns = page.ns
          /\ page'.entries = page.entries /\ page'.current = page.current
          /\ page'.draft = page.draft \/ page'.draft = Typed
      <3>1. CASE \E key \in Keys : page' = [page EXCEPT !.newKey = key]
        BY <1>1, <1>2, <3>1, Zenon DEF PageState, Form
      <3>2. CASE page' = [page EXCEPT !.creating = FALSE]
        BY <1>1, <1>2, <3>2, Zenon DEF PageState, Form
      <3>3. CASE page' = [page EXCEPT !.draft = Typed]
        BY <1>1, <1>2, <3>3, Zenon DEF PageState, Form
      <3> QED
        BY <1>2, <3>1, <3>2, <3>3, Zenon DEF Form
    <2>2. page'.draft.id \in Used(writes)
      <3>1. page.draft.id \in Used(writes) /\ Typed.id \in Used(writes)
        BY <1>1, UsedIs, Zenon DEF DataInv, PageData, Typed, Text
      <3> QED
        BY <2>1, <3>1, Zenon
    <2>3. PageData(store, writes, page')
      BY <2>1, <2>2, Zenon DEF DataInv, PageData
    <2>4. ListFits(page', queue)
      BY <1>1, <2>1, FetchList, Zenon DEF DataInv
    <2> QED
      BY <1>1, <2>1, <2>3, <2>4, Zenon DEF DataInv
  <1>3. CASE Refresh
    <2> DEFINE list == Call("list", page, None)
    <2>1. page.dep \in Deployments /\ page.ns \in Namespaces
      BY <1>1, <1>3, PageHas, Zenon DEF Refresh, Deps
    <2>2. list \in PageCall /\ list.op = "list" /\ list.dep = page.dep /\ list.ns = page.ns
      BY <2>1, PlainCalls, Zenon
    <2>3. queue' = Append(queue, list) /\ page' = page
      BY <1>3, Zenon DEF Refresh
    <2> HIDE DEF list
    <2>4. QueueData(store, writes, queue')
      BY <1>1, <2>2, <2>3, ReadData, JoinData, Zenon DEF DataInv
    <2>5. ListFits(page, queue')
      BY <1>1, <2>2, <2>3, JoinList, Zenon DEF ListFits
    <2> QED
      BY <1>1, <2>3, <2>4, <2>5, Zenon DEF DataInv
  <1> QED
    BY <1>2, <1>3, Zenon

\* A save carries the copy that is shown; a create none.
LEMMA SaveData ==
    ASSUME SelectInv, DataInv, save
    PROVE  DataInv'
  <1>1. /\ page \in PageState /\ queue \in Seq(PageCall) /\ writes \in Nat
        /\ UNCHANGED <<store, writes, dialog>> /\ page' = [page EXCEPT !.busy = TRUE]
        /\ PageFits(page) /\ page.draft.id \in Used(writes)
        /\ CopyOf(store, writes, page.current.at, page.current.row)
    BY Zenon DEF SelectInv, BrowserTypes, DataInv, PageData, save
  <1>2. page.dep \in Deps /\ page.ns \in Spaces /\ page.newKey \in Names
        /\ page.draft \in ObjectVal /\ page.current \in HeldObject
    BY <1>1, PageHas, Zenon
  <1>3. PICK c \in PageCall :
          /\ queue' = Append(queue, c) /\ c.op = "set" /\ CallData(store, writes, c)
    <2>1. CASE queue' = Append(queue, [Call("set", page, page.newKey) EXCEPT
                                         !.val = page.draft, !.then = "created"])
      <3> DEFINE call == Call("set", page, page.newKey)
                 c == [call EXCEPT !.val = page.draft, !.then = "created"]
      <3>1. call \in PageCall /\ call.op = "set" /\ call.seen = Nothing
        BY <1>2, CallIs DEF CallOps
      <3>2. queue' = Append(queue, c)
        BY <2>1, Zenon
      <3> HIDE DEF call
      <3>3. c \in PageCall /\ c.op = "set" /\ c.val = page.draft /\ c.seen = Nothing
        BY <1>2, <3>1, Zenon DEF PageCall, Thens
      <3> HIDE DEF c
      <3>4. CopyOf(store, writes, Place(c), c.seen.row)
        BY <3>3, AbsentCopies DEF Nothing
      <3> QED
        BY <1>1, <3>2, <3>3, <3>4, Zenon DEF CallData
    <2>2. CASE /\ Panel = "object"
               /\ queue' = Append(queue, [Call("set", page, page.current.at[3]) EXCEPT
                                       !.val = page.draft, !.version = page.current.row.version,
                                       !.seen = page.current, !.then = "saved"])
      <3> DEFINE call == Call("set", page, page.current.at[3])
                 c == [call EXCEPT !.val = page.draft, !.version = page.current.row.version,
                                   !.seen = page.current, !.then = "saved"]
      <3>1. page.current.at = Selection(page) /\ page.current.at[3] \in Names
        BY <1>1, <2>2, Zenon DEF PageFits, Panel, Objects, Names
      <3>2. page.current.row.version \in Nat
        BY <1>2, Zenon DEF HeldObject, ObjectRow
      <3>3. /\ call \in PageCall /\ call.op = "set" /\ call.dep = page.dep
            /\ call.ns = page.ns /\ call.key = page.current.at[3]
        BY <1>2, <3>1, CallIs DEF CallOps
      <3>4. queue' = Append(queue, c)
        BY <2>2, Zenon
      <3> HIDE DEF call
      <3>5. /\ c \in PageCall /\ c.op = "set" /\ c.val = page.draft /\ c.seen = page.current
            /\ c.dep = page.dep /\ c.ns = page.ns /\ c.key = page.current.at[3]
        BY <1>2, <3>2, <3>3, Zenon DEF PageCall, Thens
      <3> HIDE DEF c
      <3>6. Place(c) = page.current.at
        BY <3>1, <3>5 DEF Place, Selection
      <3> QED
        BY <1>1, <3>4, <3>5, <3>6, Zenon DEF CallData
    <2> QED
      BY <2>1, <2>2, Zenon DEF save
  <1>4. QueueData(store, writes, queue')
    BY <1>1, <1>3, JoinData, Zenon DEF DataInv
  <1>5. /\ page'.dep = page.dep /\ page'.ns = page.ns /\ page'.entries = page.entries
        /\ page'.current = page.current /\ page'.draft = page.draft
    BY <1>1, Zenon DEF PageState
  <1>6. PageData(store, writes, page')
    BY <1>5, Zenon DEF DataInv, PageData
  <1>7. ListFits(page', queue')
    <2>1. ListFits(page', queue)
      BY <1>1, <1>5, FetchList, Zenon DEF DataInv
    <2> QED
      BY <1>1, <1>3, <2>1, JoinList, Zenon DEF ListFits
  <1> QED
    BY <1>1, <1>4, <1>6, <1>7, Zenon DEF DataInv

\* A delete carries the copy shown, or that of the list where the value is a secret.
LEMMA RemoveData ==
    ASSUME SelectInv, DataInv, Waits, remove
    PROVE  DataInv'
  <1>1. /\ page \in PageState /\ UNCHANGED <<store, page, queue, writes>> /\ writes \in Nat
        /\ PageFits(page) /\ PageData(store, writes, page)
    BY Zenon DEF SelectInv, BrowserTypes, DataInv, remove
  <1>2. EntriesHere(page) /\ page.dep # None
    <2>1. page.dep # None
      BY Zenon DEF remove, Panel
    <2>2. NoList(queue)
      <3>1. ~InFlight({"set", "delete", "list"})
        BY Zenon DEF remove
      <3> QED
        BY <3>1, NothingInFlight, Zenon DEF NoList
    <2> QED
      BY <2>1, <2>2, Zenon DEF DataInv, ListFits
  <1> DEFINE key  == IF page.current # Nothing THEN page.current.at[3] ELSE page.selectedKey
             seen == IF page.current # Nothing THEN page.current
                     ELSE [at  |-> <<page.entries.at[1], page.entries.at[2], page.selectedKey>>,
                           row |-> page.entries.rows[page.selectedKey]]
             call == Call("delete", page, key)
  <1>3. dialog' = [call EXCEPT !.version = seen.row.version, !.seen = seen, !.then = "deleted"]
    BY Zenon DEF remove
  <1>4. page.dep \in Deps /\ page.ns \in Spaces /\ page.selectedKey \in Names
    BY <1>1, PageHas, Zenon
  <1> DEFINE place == <<page.dep, page.ns, key>>
  <1>5. /\ key \in Names /\ CopyOf(store, writes, place, seen.row)
        /\ seen.row.version # 0 => seen.at = place
    <2>1. CASE page.current # Nothing
      <3>1. page.current.at = Selection(page)
        BY <1>1, <2>1, Zenon DEF PageFits
      <3>2. key = page.selectedKey /\ seen = page.current
        BY <2>1, <3>1 DEF Selection
      <3> HIDE DEF key, seen
      <3> QED
        BY <1>1, <1>4, <3>1, <3>2, Zenon DEF PageData, Selection
    <2>2. CASE page.current = Nothing
      <3>1. isSecretNamespace(page.ns) /\ page.selectedKey # None
        BY <2>2, Zenon DEF remove, Panel
      <3>2. page.selectedKey \in Keys
        BY <1>4, <3>1, Zenon DEF Names
      <3>3. /\ key = page.selectedKey /\ seen.row = page.entries.rows[page.selectedKey]
            /\ seen.at = <<page.entries.at[1], page.entries.at[2], page.selectedKey>>
        BY <2>2, Zenon
      <3> HIDE DEF key, seen
      <3>4. CASE page.entries.at = <<page.dep, page.ns>>
        <4>1. page.entries.at[1] = page.dep /\ page.entries.at[2] = page.ns
          BY <3>4
        <4>2. CopyOf(store, writes, <<page.entries.at[1], page.entries.at[2], page.selectedKey>>,
                     page.entries.rows[page.selectedKey])
          BY <1>1, <3>1, <3>2, <4>1, Zenon DEF PageData
        <4> QED
          BY <1>4, <3>3, <4>1, <4>2, Zenon
      <3>5. CASE page.entries.rows = NoRows
        <4>1. seen.row = Absent
          BY <3>2, <3>3, <3>5, Zenon DEF NoRows
        <4> QED
          BY <1>4, <3>3, <4>1, AbsentCopies, EmptyValues, Zenon
      <3> QED
        BY <1>2, <3>4, <3>5, Zenon DEF EntriesHere
    <2> QED
      BY <2>1, <2>2, Zenon
  <1> HIDE DEF key, seen
  <1>6. /\ call \in PageCall /\ call.op = "delete" /\ call.dep = page.dep
        /\ call.ns = page.ns /\ call.key = key /\ call.val = Text(0)
    BY <1>4, <1>5, CallIs DEF CallOps, Call
  <1> HIDE DEF call
  <1>7. /\ dialog'.op = "delete" /\ dialog'.dep = page.dep /\ dialog'.ns = page.ns
        /\ dialog'.key = key /\ dialog'.val = Text(0) /\ dialog'.seen = seen
        /\ dialog'.version = seen.row.version
    BY <1>3, <1>6, Zenon DEF PageCall
  <1>8. Place(dialog') = place
    BY <1>7, Zenon DEF Place
  <1>9. dialog'.val.id \in Used(writes)
    BY <1>1, <1>7, UsedIs DEF Text
  <1> HIDE DEF place
  <1>10. CallData(store, writes, dialog')
    BY <1>5, <1>7, <1>8, <1>9, Zenon DEF CallData
  <1> QED
    BY <1>1, <1>10, Zenon DEF DataInv

\* The dialog's delete joins.
LEMMA SettleData ==
    ASSUME SelectInv, DataInv, settle
    PROVE  DataInv'
  <1>1. /\ page \in PageState /\ queue \in Seq(PageCall) /\ UNCHANGED <<store, writes>>
        /\ dialog \in PageCall /\ dialog' = NoDialog
    BY Zenon DEF SelectInv, BrowserTypes, settle
  <1>2. CallData(store, writes, dialog')
    BY <1>1, NoDialogIs, ReadData, Zenon DEF None
  <1>3. CASE UNCHANGED <<queue, page>>
    BY <1>1, <1>2, <1>3 DEF DataInv
  <1>4. CASE queue' = Append(queue, dialog) /\ page' = [page EXCEPT !.busy = TRUE]
    <2>1. dialog.op = "delete"
      BY Zenon DEF SelectInv, DialogFits, settle
    <2>2. QueueData(store, writes, queue')
      BY <1>1, <1>4, JoinData, Zenon DEF DataInv
    <2>3. /\ page'.dep = page.dep /\ page'.ns = page.ns /\ page'.entries = page.entries
          /\ page'.current = page.current /\ page'.draft = page.draft
      BY <1>1, <1>4, Zenon DEF PageState
    <2>4. PageData(store, writes, page')
      BY <2>3, Zenon DEF DataInv, PageData
    <2>5. ListFits(page', queue')
      <3>1. ListFits(page', queue)
        BY <1>1, <2>3, FetchList, Zenon DEF DataInv
      <3> QED
        BY <1>1, <1>4, <2>1, <3>1, JoinList, Zenon DEF ListFits
    <2> QED
      BY <1>1, <1>2, <2>2, <2>4, <2>5, Zenon DEF DataInv
  <1> QED
    BY <1>3, <1>4, Zenon DEF settle

\* What the answers of reads leave: the calls behind the first, and its list.
LEMMA AnswerData ==
    ASSUME SelectInv, DataInv, queue # <<>>, NEW p, p.dep = page.dep, p.ns = page.ns,
           \/ Head(queue).op # "list" /\ p.entries = page.entries
           \/ /\ Head(queue).op = "list"
              /\ \/ p.entries.at = <<Head(queue).dep, Head(queue).ns>>
                 \/ p.entries.rows = NoRows
    PROVE  ListFits(p, Tail(queue)) /\ QueueData(store, writes, Tail(queue))
  <1>1. queue \in Seq(PageCall) /\ QueueData(store, writes, queue) /\ ListFits(page, queue)
    BY Zenon DEF SelectInv, BrowserTypes, DataInv
  <1>2. QueueData(store, writes, Tail(queue))
    BY <1>1, JoinData, Zenon
  <1>3. ASSUME p.dep # None
        PROVE  LastList(p, Tail(queue)) /\ (NoList(Tail(queue)) => EntriesHere(p))
    <2>1. LastList(page, queue) /\ (NoList(queue) => EntriesHere(page))
      BY <1>1, <1>3, Zenon DEF ListFits
    <2>2. LastList(p, queue)
      BY <2>1, Zenon DEF LastList
    <2>3. /\ LastList(p, Tail(queue))
          /\ NoList(Tail(queue)) /\ Head(queue).op # "list" => NoList(queue)
          /\ NoList(Tail(queue)) /\ Head(queue).op = "list" =>
               Head(queue).dep = p.dep /\ Head(queue).ns = p.ns
      BY <1>1, <2>2, TailList, Zenon
    <2> QED
      BY <2>1, <2>3, Zenon DEF EntriesHere
  <1> QED
    BY <1>2, <1>3, Zenon DEF ListFits

\* The picker's answer.
LEMMA ListNamespacesData ==
    ASSUME SelectInv, DataInv, listNamespaces
    PROVE  DataInv'
  <1>1. /\ page \in PageState /\ queue # <<>> /\ UNCHANGED <<store, dialog, writes>>
        /\ Head(queue).op = "namespaces"
    BY Zenon DEF SelectInv, BrowserTypes, listNamespaces, Answers
  <1>2. PICK spaces : Renders([page EXCEPT !.namespaces = spaces], Tail(queue))
    BY Zenon DEF listNamespaces
  <1> DEFINE new == [page EXCEPT !.namespaces = spaces]
  <1>3. /\ new.dep = page.dep /\ new.ns = page.ns /\ new.selectedKey = page.selectedKey
        /\ new.entries = page.entries /\ new.draft = page.draft /\ new.current = page.current
    BY <1>1, Zenon DEF PageState
  <1> HIDE DEF new
  <1>4. page' = new /\ queue' = Tail(queue)
    BY <1>1, <1>2, <1>3, FirstCall, RendersSame, Zenon DEF new
  <1>5. ListFits(new, Tail(queue)) /\ QueueData(store, writes, Tail(queue))
    BY <1>1, <1>3, AnswerData, Zenon
  <1>6. PageData(store, writes, new)
    BY <1>3, Zenon DEF DataInv, PageData
  <1> QED
    BY <1>1, <1>4, <1>5, <1>6, Zenon DEF DataInv

\* A list is a copy of the store.
LEMMA LoadEntriesData ==
    ASSUME SelectInv, DataInv, loadEntries
    PROVE  DataInv'
  <1> DEFINE c == Head(queue)
             listed(rows) == [loaded |-> TRUE, at |-> <<c.dep, c.ns>>, rows |-> rows]
             found == [key \in Keys |-> store[<<c.dep, c.ns, key>>]]
  <1>1. /\ page \in PageState /\ queue # <<>> /\ UNCHANGED <<store, dialog, writes>>
        /\ c.op = "list" /\ store \in [Objects -> ObjectRow] /\ writes \in Nat
        /\ StoreData(store, writes)
    BY Zenon DEF SelectInv, BrowserTypes, DataInv, loadEntries, Answers
  <1>2. c.dep \in Deployments /\ c.ns \in Namespaces
    BY <1>1, FirstCall, Zenon DEF Shape
  <1>3. PICK p \in PageState, rows \in [Keys -> ObjectRow] :
          /\ Renders(Continued(p, c), Tail(queue))
          /\ p.dep = page.dep /\ p.ns = page.ns /\ p.selectedKey = page.selectedKey
          /\ p.current = page.current /\ p.draft = page.draft /\ p.entries = listed(rows)
          /\ rows = found \/ rows = NoRows
    <2>1. ASSUME NEW rows \in [Keys -> ObjectRow]
          PROVE  LET p == [page EXCEPT !.entries = listed(rows)] IN
                 /\ p \in PageState /\ p.dep = page.dep /\ p.ns = page.ns
                 /\ p.selectedKey = page.selectedKey /\ p.current = page.current
                 /\ p.draft = page.draft /\ p.entries = listed(rows)
      <3>1. listed(rows) \in EntryList
        BY <1>2, Zenon DEF EntryList, Deps, Spaces
      <3> HIDE DEF listed
      <3> QED
        BY <1>1, <3>1, Zenon DEF PageState
    <2>2. found \in [Keys -> ObjectRow] /\ NoRows \in [Keys -> ObjectRow]
      BY <1>1, <1>2, EmptyValues, Zenon DEF Objects, NoRows
    <2>3. \/ Renders(Continued([page EXCEPT !.entries = listed(found)], c), Tail(queue))
          \/ Renders(Continued(Failed([page EXCEPT !.entries = listed(NoRows)]), c), Tail(queue))
      BY Zenon DEF loadEntries
    <2> HIDE DEF found, listed
    <2>4. CASE Renders(Continued([page EXCEPT !.entries = listed(found)], c), Tail(queue))
      BY <2>1, <2>2, <2>4, Zenon
    <2>5. CASE Renders(Continued(Failed([page EXCEPT !.entries = listed(NoRows)]), c), Tail(queue))
      <3> DEFINE p == [page EXCEPT !.entries = listed(NoRows)]
      <3>1. /\ p \in PageState /\ p.dep = page.dep /\ p.ns = page.ns
            /\ p.selectedKey = page.selectedKey /\ p.current = page.current
            /\ p.draft = page.draft /\ p.entries = listed(NoRows)
        BY <2>1, <2>2, Zenon
      <3>2. Renders(Continued(Failed(p), c), Tail(queue))
        BY <2>5, Zenon
      <3> HIDE DEF p
      <3> QED
        BY <2>2, <3>1, <3>2, FailedIs
    <2> QED
      BY <2>3, <2>4, <2>5, Zenon
  <1>4. PageData(store, writes, p)
    <2>1. ASSUME NEW key \in Keys
          PROVE  CopyOf(store, writes, <<p.entries.at[1], p.entries.at[2], key>>, p.entries.rows[key])
      <3>1. p.entries.at[1] = c.dep /\ p.entries.at[2] = c.ns /\ p.entries.rows = rows
        BY <1>3
      <3>2. <<c.dep, c.ns, key>> \in Objects
        BY <1>2, Zenon DEF Objects
      <3>3. rows[key] = store[<<c.dep, c.ns, key>>] \/ rows[key] = Absent
        BY <1>3, Zenon DEF NoRows
      <3> QED
        BY <1>1, <3>1, <3>2, <3>3, StoreCopies, AbsentCopies, Zenon
    <2> QED
      BY <1>3, <2>1, Zenon DEF DataInv, PageData
  <1>5. ListFits(p, Tail(queue)) /\ QueueData(store, writes, Tail(queue))
    <2>1. p.entries.at = <<c.dep, c.ns>>
      BY <1>3
    <2> QED
      BY <1>1, <1>3, <2>1, AnswerData, Zenon
  <1>6. /\ Shape(c) /\ Tail(queue) \in Seq(PageCall)
        /\ Chain(c) => NoChain(Tail(queue))
    BY <1>1, FirstCall, Zenon
  <1>7. PICK new \in PageState :
          /\ Renders(new, Tail(queue)) /\ new.dep = p.dep /\ new.ns = p.ns
          /\ new.entries = p.entries
          /\ \/ new = p
             \/ new.current = Nothing /\ new.draft = Text(0) /\ Chain(c)
    <2>1. CASE c.then = "created"
      <3>1. c.key \in Names /\ Chain(c)
        BY <1>6, <2>1, Zenon DEF Shape, Names, Chain, None
      <3>2. Renders(created(p, c.key), Tail(queue))
        BY <1>3, <2>1, Zenon DEF Continued
      <3> QED
        BY <3>1, <3>2, CreatedIs, Zenon
    <2>2. CASE c.then = "deleted"
      <3>1. Chain(c)
        BY <2>2, Zenon DEF Chain, None
      <3>2. Renders(deleted(p), Tail(queue))
        BY <1>3, <2>2, Zenon DEF Continued
      <3> QED
        BY <3>1, <3>2, DeletedIs, Zenon
    <2>3. CASE c.then \notin {"created", "deleted"}
      BY <1>3, <2>3, Zenon DEF Continued
    <2> QED
      BY <2>1, <2>2, <2>3, Zenon
  <1> HIDE DEF c, listed, found
  <1> DEFINE get == Call("get", new, new.selectedKey)
  <1>8. new.dep \in Deps /\ new.ns \in Spaces /\ new.selectedKey \in Names
    BY <1>7, PageHas, Zenon
  <1>9. get \in PageCall /\ get.op = "get"
    BY <1>8, CallIs DEF CallOps
  <1>10. /\ page' = new
         /\ \/ queue' = Tail(queue)
            \/ Chain(c) /\ queue' = Append(Marked(Tail(queue)), get)
    <2>1. CASE new = p
      BY <1>3, <1>6, <1>7, <2>1, RendersSame, Zenon
    <2>2. CASE Chain(c)
      BY <1>3, <1>6, <1>7, <1>8, <2>2, RendersKey, Zenon
    <2> QED
      BY <1>7, <2>1, <2>2, Zenon
  <1> HIDE DEF get
  <1>11. PageData(store, writes, new)
    BY <1>1, <1>4, <1>7, BlankData, Zenon
  <1>12. QueueData(store, writes, queue')
    <2>1. CASE Chain(c) /\ queue' = Append(Marked(Tail(queue)), get)
      <3>1. NoChain(Marked(Tail(queue))) /\ Marked(Tail(queue)) \in Seq(PageCall)
        BY <1>1, <1>6, <2>1, FirstCall, MarkedCalls, MarkedKeeps, Zenon
      <3> QED
        BY <1>9, <2>1, <3>1, NoChainData, ReadData, JoinData, Zenon
    <2> QED
      BY <1>5, <1>10, <2>1, Zenon
  <1>13. ListFits(new, queue')
    BY <1>5, <1>6, <1>7, <1>9, <1>10, FetchList, Zenon
  <1> QED
    BY <1>1, <1>10, <1>11, <1>12, <1>13, Zenon DEF DataInv

\* A fetch brings a copy of the store.
LEMMA GetObjectData ==
    ASSUME SelectInv, DataInv, getObject
    PROVE  DataInv'
  <1> DEFINE c == Head(queue)
             object == [at |-> Place(c), row |-> store[Place(c)]]
  <1>1. /\ page \in PageState /\ queue # <<>> /\ UNCHANGED <<store, dialog, writes>>
        /\ c.op = "get" /\ store \in [Objects -> ObjectRow] /\ StoreData(store, writes)
    BY Zenon DEF SelectInv, BrowserTypes, DataInv, getObject, Answers
  <1>2. PICK new :
          /\ Renders(new, Tail(queue)) /\ new.dep = page.dep /\ new.ns = page.ns
          /\ new.selectedKey = page.selectedKey /\ new.entries = page.entries
          /\ PageData(store, writes, new)
    <2>1. CASE Renders(page, Tail(queue))
      BY <1>1, <2>1, Zenon DEF DataInv
    <2>2. CASE Renders(Shown(page, object), Tail(queue))
      <3>1. Place(c) \in Objects
        BY <1>1, FirstCall, Zenon DEF Shape
      <3>2. object \in HeldObject
        BY <1>1, <3>1, Zenon DEF HeldObject, Objects, Deps, Spaces, Names
      <3>3. CopyOf(store, writes, object.at, object.row) /\ object.row.val.id \in Used(writes)
        BY <1>1, <3>1, StoreCopies, Zenon DEF StoreData
      <3> HIDE DEF object
      <3> DEFINE new == Shown(page, object)
      <3>4. /\ new.dep = page.dep /\ new.ns = page.ns /\ new.selectedKey = page.selectedKey
            /\ new.entries = page.entries /\ new.current = object
            /\ new.draft = object.row.val
        BY <1>1, <3>2, ShownIs, Zenon
      <3>5. Renders(new, Tail(queue))
        BY <2>2
      <3> HIDE DEF new
      <3>6. PageData(store, writes, new)
        BY <3>3, <3>4, Zenon DEF DataInv, PageData
      <3> QED
        BY <3>4, <3>5, <3>6, Zenon
    <2>3. CASE Renders(Failed(page), Tail(queue))
      <3>1. PageData(store, writes, Failed(page))
        BY <1>1, FailedIs, Zenon DEF DataInv, PageData
      <3> QED
        BY <1>1, <2>3, <3>1, FailedIs, Zenon
    <2> QED
      BY <2>1, <2>2, <2>3, Zenon DEF getObject
  <1>3. page' = new /\ queue' = Tail(queue)
    BY <1>1, <1>2, FirstCall, RendersSame, Zenon
  <1>4. ListFits(new, Tail(queue)) /\ QueueData(store, writes, Tail(queue))
    BY <1>1, <1>2, AnswerData, Zenon
  <1> QED
    BY <1>1, <1>2, <1>3, <1>4, Zenon DEF DataInv

(***************************************************************************)
(* The store moves on: an object is left, gone, written over or made anew  *)
(* with a value not used before.                                           *)
(***************************************************************************)
Onward(s, t, w, place) ==
    \/ t[place] = s[place]
    \/ t[place].version = 0
    \/ /\ s[place].version # 0
       /\ t[place].born = s[place].born /\ t[place].version = s[place].version + 1
    \/ t[place].born \notin Used(w)

\* A copy stays one.
LEMMA CopyMoves ==
    ASSUME NEW s \in [Objects -> ObjectRow], NEW t, NEW w, NEW v, Used(w) \subseteq Used(v),
           NEW place, NEW row \in ObjectRow, CopyOf(s, w, place, row),
           place \in Objects => Onward(s, t, w, place)
    PROVE  CopyOf(t, v, place, row)
  <1> SUFFICES ASSUME row.version # 0
               PROVE  /\ place \in Objects /\ row.born \in Used(v)
                      /\ t[place].version # 0 /\ row.born = t[place].born =>
                           /\ row.version <= t[place].version
                           /\ row.version = t[place].version => row.val = t[place].val
    BY Zenon DEF CopyOf
  <1>1. /\ place \in Objects /\ row.born \in Used(w)
        /\ s[place].version # 0 /\ row.born = s[place].born =>
             /\ row.version <= s[place].version
             /\ row.version = s[place].version => row.val = s[place].val
    BY Zenon DEF CopyOf
  <1>2. row.version \in Nat /\ s[place].version \in Nat
    BY <1>1, Zenon DEF ObjectRow
  <1> QED
    BY <1>1, <1>2 DEF Onward

\* So do those of the page, at the places that move on.
LEMMA PageMoves ==
    ASSUME NEW s \in [Objects -> ObjectRow], NEW t, NEW w, NEW v, Used(w) \subseteq Used(v),
           NEW P, \A place \in P : Onward(s, t, w, place),
           NEW p \in PageState, PageData(s, w, p),
           p.current = Nothing \/ Objects \subseteq P,
           \A place \in Objects : isSecretNamespace(place[2]) => place \in P
    PROVE  PageData(t, v, p)
  <1>1. p.current \in HeldObject /\ p.entries \in EntryList
    BY PageHas, Zenon
  <1>2. CopyOf(t, v, p.current.at, p.current.row)
    <2>1. CASE p.current = Nothing
      BY <2>1, AbsentCopies, Zenon
    <2>2. CASE Objects \subseteq P
      <3>1. p.current.row \in ObjectRow /\ CopyOf(s, w, p.current.at, p.current.row)
        BY <1>1, Zenon DEF HeldObject, PageData
      <3>2. p.current.at \in Objects => Onward(s, t, w, p.current.at)
        BY <2>2, Zenon
      <3> QED
        BY <3>1, <3>2, CopyMoves
    <2> QED
      BY <2>1, <2>2, Zenon
  <1>3. ASSUME isSecretNamespace(p.entries.at[2]), NEW key \in Keys
        PROVE  CopyOf(t, v, <<p.entries.at[1], p.entries.at[2], key>>, p.entries.rows[key])
    <2> DEFINE place == <<p.entries.at[1], p.entries.at[2], key>>
    <2>1. p.entries.rows[key] \in ObjectRow /\ CopyOf(s, w, place, p.entries.rows[key])
      BY <1>1, <1>3, Zenon DEF EntryList, PageData
    <2>2. place[2] = p.entries.at[2]
      OBVIOUS
    <2>3. place \in Objects => Onward(s, t, w, place)
      BY <1>3, <2>2, Zenon
    <2> HIDE DEF place
    <2>4. CopyOf(t, v, place, p.entries.rows[key])
      BY <2>1, <2>3, CopyMoves, Zenon
    <2> QED
      BY <2>4, Zenon DEF place
  <1> QED
    BY <1>2, <1>3, Zenon DEF PageData

\* And those of a call.
LEMMA CallMoves ==
    ASSUME NEW s \in [Objects -> ObjectRow], NEW t, NEW w, NEW v, Used(w) \subseteq Used(v),
           \A place \in Objects : Onward(s, t, w, place),
           NEW c \in PageCall, CallData(s, w, c)
    PROVE  CallData(t, v, c)
  <1> SUFFICES ASSUME c.op \in {"set", "delete"}
               PROVE  CallData(t, v, c)
    BY ReadData, Zenon
  <1>1. c.seen.row \in ObjectRow
    BY Zenon DEF PageCall, HeldObject
  <1>2. CopyOf(t, v, Place(c), c.seen.row)
    BY <1>1, CopyMoves, Zenon DEF CallData
  <1> QED
    BY <1>2, Zenon DEF CallData

\* A flow's write and its delete.
LEMMA FlowData ==
    ASSUME SelectInv, DataInv, FlowWrites \/ FlowDeletes
    PROVE  DataInv'
  <1>1. /\ store \in [Objects -> ObjectRow] /\ writes \in Nat /\ writes' = writes + 1
        /\ writes < MaxWrites /\ UNCHANGED <<page, queue, dialog>>
        /\ page \in PageState /\ queue \in Seq(PageCall) /\ dialog \in PageCall
    BY Zenon DEF SelectInv, BrowserTypes, FlowWrites, FlowDeletes
  <1>2. Used(writes) \subseteq Used(writes') /\ writes + 1 \in Used(writes')
        /\ writes + 1 \notin Used(writes) /\ 0 \in Used(writes)
    BY <1>1, UsedIs, Zenon
  <1>3. PICK place \in Objects, row \in ObjectRow :
          /\ store' = [store EXCEPT ![place] = row]
          /\ row.val.id \in Used(writes') /\ row.born \in Used(writes')
          /\ \/ row.version = 0
             \/ /\ store[place].version # 0
                /\ row.born = store[place].born /\ row.version = store[place].version + 1
             \/ row.born \notin Used(writes)
    <2>1. CASE FlowWrites
      <3> DEFINE val == [id |-> writes + 1, bin |-> writes + 1 \in Binary]
      <3>1. PICK place \in Objects : store' = [store EXCEPT ![place] = Written(place, val)]
        BY <2>1, BrowserBounds, Zenon DEF FlowWrites, Objects
      <3>2. val.id = writes + 1 /\ val \in ObjectVal
        BY <1>1 DEF ObjectVal
      <3> HIDE DEF val
      <3> DEFINE row == Written(place, val)
      <3>3. /\ row.val = val /\ row.version = store[place].version + 1
            /\ row.born = IF store[place].version = 0 THEN writes + 1 ELSE store[place].born
        BY <3>2, Zenon DEF Written
      <3>4. store[place].born \in Used(writes)
        BY Zenon DEF DataInv, StoreData
      <3>5. store' = [store EXCEPT ![place] = row] /\ row \in ObjectRow
        BY <1>1, <3>1, <3>2, WrittenIs, Zenon
      <3> HIDE DEF row
      <3> QED
        BY <1>2, <3>2, <3>3, <3>4, <3>5, Zenon
    <2>2. CASE FlowDeletes
      <3>1. PICK place \in Objects : store' = [store EXCEPT ![place] = Absent]
        BY <2>2, BrowserBounds, Zenon DEF FlowDeletes, Objects
      <3>2. Absent.val.id = 0 /\ Absent.born = 0 /\ Absent.version = 0 /\ Absent \in ObjectRow
        BY EmptyValues, Zenon DEF Absent, Text
      <3> QED
        BY <1>2, <3>1, <3>2, Zenon
    <2> QED
      BY <2>1, <2>2, Zenon
  <1>4. store'[place] = row /\ \A other \in Objects : other # place => store'[other] = store[other]
    BY <1>1, <1>3, Zenon
  <1>5. \A other \in Objects : Onward(store, store', writes, other)
    BY <1>3, <1>4, Zenon DEF Onward
  <1>6. StoreData(store', writes')
    BY <1>2, <1>3, <1>4, Zenon DEF DataInv, StoreData
  <1>7. PageData(store', writes', page)
    BY <1>1, <1>2, <1>5, PageMoves, Zenon DEF DataInv
  <1>8. CallData(store', writes', dialog)
    BY <1>1, <1>2, <1>5, CallMoves, Zenon DEF DataInv
  <1>9. QueueData(store', writes', queue)
    <2>1. \A i \in DOMAIN queue : queue[i] \in PageCall /\ CallData(store, writes, queue[i])
      BY <1>1 DEF DataInv, QueueData
    <2> QED
      BY <1>1, <1>2, <1>5, <2>1, CallMoves, Zenon DEF QueueData
  <1>10. ListFits(page, queue)
    BY Zenon DEF DataInv
  <1> QED
    BY <1>1, <1>6, <1>7, <1>8, <1>9, <1>10, Zenon DEF DataInv

\* After the answer of a write: no chain waits, and its list may have been asked for.
LEMMA WriteAnswered ==
    ASSUME SelectInv, DataInv, queue # <<>>, Head(queue).op \in {"set", "delete"}
    PROVE  LET c   == Head(queue)
               all == Append(Tail(queue), [Call("list", c, c.key) EXCEPT !.then = c.then])
           IN  /\ Tail(queue) \in Seq(PageCall) /\ all \in Seq(PageCall) /\ dialog = NoDialog
               /\ Place(c) \in Objects /\ Shape(c) /\ Fits(page, c) /\ CallData(store, writes, c)
               /\ \A s, w : QueueData(s, w, Tail(queue)) /\ QueueData(s, w, all)
               /\ \A p : p.dep = page.dep /\ p.ns = page.ns /\ p.entries = page.entries =>
                           ListFits(p, Tail(queue)) /\ ListFits(p, all)
  <1> DEFINE c == Head(queue)
             call == Call("list", c, c.key)
             reload == [call EXCEPT !.then = c.then]
  <1>1. /\ c \in PageCall /\ Shape(c) /\ Fits(page, c) /\ Tail(queue) \in Seq(PageCall)
        /\ Chain(c) => NoChain(Tail(queue)) /\ dialog = NoDialog
    BY FirstCall, Zenon
  <1>2. Chain(c) /\ c.op # "list" /\ Place(c) \in Objects
    BY <1>1, Zenon DEF Chain, Shape
  <1>3. c.dep = page.dep /\ c.ns = page.ns
    BY <1>1, <1>2, Zenon DEF Fits
  <1>4. CallData(store, writes, c)
    BY JoinData, Zenon DEF DataInv, SelectInv, BrowserTypes
  <1>5. \A p : p.dep = page.dep /\ p.ns = page.ns /\ p.entries = page.entries =>
                 ListFits(p, Tail(queue))
    BY <1>2, AnswerData, Zenon
  <1> HIDE DEF c
  <1>6. c.dep \in Deps /\ c.ns \in Spaces /\ c.key \in Names /\ c.then \in Thens
    BY <1>1, Zenon DEF PageCall
  <1>7. call \in PageCall /\ call.op = "list" /\ call.dep = c.dep /\ call.ns = c.ns
    BY <1>6, CallIs DEF CallOps
  <1> HIDE DEF call
  <1>8. reload \in PageCall /\ reload.op = "list" /\ reload.dep = c.dep /\ reload.ns = c.ns
    BY <1>6, <1>7, Zenon DEF PageCall
  <1> HIDE DEF reload
  <1> DEFINE all == Append(Tail(queue), reload)
  <1>9. all \in Seq(PageCall)
    BY <1>1, <1>8, AppendCalls, Zenon
  <1>10. ASSUME NEW s, NEW w
         PROVE  QueueData(s, w, Tail(queue)) /\ QueueData(s, w, all)
    <2>1. QueueData(s, w, Tail(queue))
      BY <1>1, <1>2, NoChainData, Zenon
    <2> QED
      BY <1>1, <1>8, <2>1, ReadData, JoinData, Zenon
  <1>11. ASSUME NEW p, p.dep = page.dep, p.ns = page.ns
         PROVE  ListFits(p, all)
    BY <1>1, <1>3, <1>8, <1>11, JoinList, Zenon DEF ListFits
  <1> HIDE DEF all
  <1> QED
    BY <1>1, <1>2, <1>4, <1>5, <1>9, <1>10, <1>11, Zenon DEF all, reload, call, c

\* A set writes over the version it was sent with, or makes an object the page has no copy of.
LEMMA SetMoves ==
    ASSUME SelectInv, DataInv, queue # <<>>, Head(queue).op = "set", Accepts(Head(queue))
    PROVE  LET c   == Head(queue)
               row == Written(Place(c), Text(c.val.id))
               t   == [store EXCEPT ![Place(c)] = row]
           IN  /\ t \in [Objects -> ObjectRow] /\ t[Place(c)] = row /\ row \in ObjectRow
               /\ StoreData(t, writes) /\ PageData(t, writes, page)
  <1> DEFINE c == Head(queue)
             row == Written(Place(c), Text(c.val.id))
             t == [store EXCEPT ![Place(c)] = row]
  <1>1. /\ store \in [Objects -> ObjectRow] /\ page \in PageState /\ PageFits(page)
        /\ StoreData(store, writes) /\ PageData(store, writes, page)
    BY Zenon DEF SelectInv, BrowserTypes, DataInv
  <1>2. /\ c \in PageCall /\ c.op = "set" /\ Shape(c) /\ Fits(page, c) /\ Place(c) \in Objects
        /\ CallData(store, writes, c) /\ c.version = store[Place(c)].version
    BY WriteAnswered, FirstCall, Zenon DEF Accepts
  <1> HIDE DEF c
  <1>3. Text(c.val.id) \in ObjectVal /\ c.val.id \in Used(writes) /\ Text(c.val.id).id = c.val.id
    BY <1>2, Zenon DEF PageCall, Text, ObjectVal, CallData
  <1>4. /\ row.val = Text(c.val.id) /\ row.version = store[Place(c)].version + 1
        /\ row.born = IF store[Place(c)].version = 0 THEN c.val.id ELSE store[Place(c)].born
    BY <1>3, Zenon DEF Written
  <1>5. row \in ObjectRow /\ t \in [Objects -> ObjectRow]
    BY <1>1, <1>2, <1>3, WrittenIs, Zenon
  <1> HIDE DEF row
  <1>6. t[Place(c)] = row /\ \A place \in Objects : place # Place(c) => t[place] = store[place]
    BY <1>1, <1>2, Zenon
  <1> HIDE DEF t
  <1>7. StoreData(t, writes)
    BY <1>1, <1>2, <1>3, <1>4, <1>6 DEF StoreData
  <1>8. PageData(t, writes, page)
    <2>1. CASE store[Place(c)].version # 0
      <3>1. \A place \in Objects : Onward(store, t, writes, place)
        BY <1>4, <1>6, <2>1, Zenon DEF Onward
      <3> QED
        BY <1>1, <3>1, PageMoves, Zenon
    <2>2. CASE store[Place(c)].version = 0
      <3>1. c.then = "created" /\ ~isSecretNamespace(c.ns)
        BY <1>2, <2>2, Zenon DEF Shape
      <3>2. page.current = Nothing
        BY <1>1, <1>2, <3>1, Zenon DEF Fits, PageFits
      <3> DEFINE P == {place \in Objects : isSecretNamespace(place[2])}
      <3>3. \A place \in P : Onward(store, t, writes, place)
        <4>1. Place(c)[2] = c.ns
          BY Zenon DEF Place
        <4> QED
          BY <1>6, <3>1, <4>1, Zenon DEF Onward
      <3>4. \A place \in Objects : isSecretNamespace(place[2]) => place \in P
        OBVIOUS
      <3> HIDE DEF P
      <3> QED
        BY <1>1, <3>2, <3>3, <3>4, PageMoves, Zenon
    <2> QED
      BY <2>1, <2>2, Zenon
  <1> QED
    BY <1>5, <1>6, <1>7, <1>8, Zenon DEF c, row, t

\* A set of the page.
LEMMA SetObjectData ==
    ASSUME SelectInv, DataInv, setObject
    PROVE  DataInv'
  <1> DEFINE c == Head(queue)
             row == Written(Place(c), Text(c.val.id))
             t == [store EXCEPT ![Place(c)] = row]
             reload == [Call("list", c, c.key) EXCEPT !.then = c.then]
             all == Append(Tail(queue), reload)
             object == [at |-> c.seen.at, row |-> row]
             shown == [Shown(page, object) EXCEPT !.busy = FALSE]
  <1>1. /\ queue # <<>> /\ c.op = "set" /\ UNCHANGED <<dialog, writes>>
        /\ page \in PageState /\ store \in [Objects -> ObjectRow]
        /\ StoreData(store, writes) /\ PageData(store, writes, page)
    BY Zenon DEF SelectInv, BrowserTypes, DataInv, setObject, Answers
  <1>2. \/ Accepts(c) /\ store' = t /\ c.then = "saved" /\ Renders(shown, all)
        \/ Accepts(c) /\ store' = t /\ Renders(page, all)
        \/ (store' = store \/ (Accepts(c) /\ store' = t)) /\ Renders(Failed(page), Tail(queue))
    BY Zenon DEF setObject
  <1>3. Accepts(c) => /\ t \in [Objects -> ObjectRow] /\ t[Place(c)] = row /\ row \in ObjectRow
                      /\ StoreData(t, writes) /\ PageData(t, writes, page)
    BY <1>1, SetMoves, Zenon
  <1>4. /\ Tail(queue) \in Seq(PageCall) /\ all \in Seq(PageCall) /\ dialog = NoDialog
        /\ Place(c) \in Objects /\ Shape(c)
        /\ \A s, w : QueueData(s, w, Tail(queue)) /\ QueueData(s, w, all)
        /\ \A p : p.dep = page.dep /\ p.ns = page.ns /\ p.entries = page.entries =>
                    ListFits(p, Tail(queue)) /\ ListFits(p, all)
    BY <1>1, WriteAnswered, Zenon
  <1>5. CallData(store', writes, dialog)
    BY <1>4, NoDialogIs, ReadData, Zenon DEF None
  <1>6. PICK new :
          /\ Renders(new, all) \/ Renders(new, Tail(queue))
          /\ new.dep = page.dep /\ new.ns = page.ns /\ new.selectedKey = page.selectedKey
          /\ new.entries = page.entries
          /\ PageData(store', writes, new)
    <2>1. CASE Accepts(c) /\ store' = t /\ c.then = "saved" /\ Renders(shown, all)
      <3>1. c.seen.at = Place(c)
        BY <1>1, <1>4, <2>1, Zenon DEF Shape
      <3>2. object \in HeldObject /\ object.at = Place(c) /\ object.row = t[Place(c)]
        BY <1>3, <1>4, <2>1, <3>1, Zenon DEF HeldObject, Objects, Deps, Spaces, Names
      <3>3. CopyOf(t, writes, object.at, object.row) /\ object.row.val.id \in Used(writes)
        <4> HIDE DEF object, t, c
        <4> QED
          BY <1>3, <1>4, <2>1, <3>2, StoreCopies, Zenon DEF StoreData
      <3>4. Renders(shown, all) /\ store' = t /\ PageData(t, writes, page)
        BY <1>3, <2>1, Zenon
      <3> HIDE DEF object, t
      <3>5. /\ Shown(page, object) \in PageState /\ Shown(page, object).dep = page.dep
            /\ Shown(page, object).ns = page.ns /\ Shown(page, object).current = object
            /\ Shown(page, object).selectedKey = page.selectedKey
            /\ Shown(page, object).entries = page.entries
            /\ Shown(page, object).draft = object.row.val
        BY <1>1, <3>2, ShownIs
      <3>6. /\ shown.dep = page.dep /\ shown.ns = page.ns /\ shown.current = object
            /\ shown.selectedKey = page.selectedKey /\ shown.entries = page.entries
            /\ shown.draft = object.row.val
        <4>1. ASSUME NEW p \in PageState
              PROVE  LET q == [p EXCEPT !.busy = FALSE] IN
                     /\ q.dep = p.dep /\ q.ns = p.ns /\ q.selectedKey = p.selectedKey
                     /\ q.entries = p.entries /\ q.current = p.current /\ q.draft = p.draft
          BY Zenon DEF PageState
        <4> QED
          BY <3>5, <4>1, Zenon
      <3> HIDE DEF shown
      <3>7. PageData(t, writes, shown)
        BY <3>3, <3>4, <3>6, Zenon DEF PageData
      <3> QED
        BY <3>4, <3>6, <3>7, Zenon
    <2>2. CASE Accepts(c) /\ store' = t /\ Renders(page, all)
      BY <1>3, <2>2, Zenon
    <2>3. CASE /\ store' = store \/ (Accepts(c) /\ store' = t)
               /\ Renders(Failed(page), Tail(queue))
      <3>1. PageData(store', writes, page)
        BY <1>1, <1>3, <2>3, Zenon
      <3>2. PageData(store', writes, Failed(page))
        BY <1>1, <3>1, FailedIs, Zenon DEF PageData
      <3> QED
        BY <1>1, <2>3, <3>2, FailedIs, Zenon
    <2> QED
      BY <1>2, <2>1, <2>2, <2>3, Zenon
  <1>7. StoreData(store', writes)
    BY <1>1, <1>2, <1>3, Zenon
  <1> HIDE DEF all
  <1>8. page' = new /\ (queue' = all \/ queue' = Tail(queue))
    BY <1>4, <1>6, RendersSame, Zenon
  <1>9. QueueData(store', writes, queue') /\ ListFits(new, queue')
    BY <1>4, <1>6, <1>8, Zenon
  <1> QED
    BY <1>1, <1>5, <1>6, <1>7, <1>8, <1>9, Zenon DEF DataInv

\* A delete of the page.
LEMMA DeleteObjectData ==
    ASSUME SelectInv, DataInv, deleteObject
    PROVE  DataInv'
  <1> DEFINE c == Head(queue)
             t == [store EXCEPT ![Place(c)] = Absent]
             reload == [Call("list", c, c.key) EXCEPT !.then = c.then]
             all == Append(Tail(queue), reload)
  <1>1. /\ queue # <<>> /\ c.op = "delete" /\ UNCHANGED <<dialog, writes>>
        /\ page \in PageState /\ store \in [Objects -> ObjectRow] /\ writes \in Nat
        /\ StoreData(store, writes) /\ PageData(store, writes, page)
    BY Zenon DEF SelectInv, BrowserTypes, DataInv, deleteObject, Answers
  <1>2. store' = store \/ store' = t
    BY Zenon DEF deleteObject
  <1>3. Renders(page, all) \/ Renders(Failed(page), Tail(queue))
    BY Zenon DEF deleteObject
  <1>4. /\ Tail(queue) \in Seq(PageCall) /\ all \in Seq(PageCall) /\ dialog = NoDialog
        /\ Place(c) \in Objects
        /\ \A s, w : QueueData(s, w, Tail(queue)) /\ QueueData(s, w, all)
        /\ \A p : p.dep = page.dep /\ p.ns = page.ns /\ p.entries = page.entries =>
                    ListFits(p, Tail(queue)) /\ ListFits(p, all)
    BY <1>1, WriteAnswered, Zenon
  <1>5. CallData(store', writes, dialog)
    BY <1>4, NoDialogIs, ReadData, Zenon DEF None
  <1> HIDE DEF all, c
  <1>6. StoreData(store', writes) /\ PageData(store', writes, page)
    <2>1. CASE store' = store
      BY <1>1, <2>1, Zenon
    <2>2. CASE store' = t
      <3>1. /\ t[Place(c)] = Absent
            /\ \A place \in Objects : place # Place(c) => t[place] = store[place]
        BY <1>1, <1>4, Zenon
      <3>2. Absent.version = 0 /\ Absent.born \in Used(writes) /\ Absent.val.id \in Used(writes)
        BY <1>1, UsedIs, Zenon DEF Absent, Text
      <3> HIDE DEF t
      <3>3. StoreData(t, writes)
        BY <1>1, <3>1, <3>2, Zenon DEF StoreData
      <3>4. \A place \in Objects : Onward(store, t, writes, place)
        BY <3>1, <3>2, Zenon DEF Onward
      <3>5. PageData(t, writes, page)
        BY <1>1, <3>4, PageMoves, Zenon
      <3> QED
        BY <2>2, <3>3, <3>5, Zenon
    <2> QED
      BY <1>2, <2>1, <2>2, Zenon
  <1>7. PICK new :
          /\ Renders(new, all) \/ Renders(new, Tail(queue))
          /\ new.dep = page.dep /\ new.ns = page.ns /\ new.selectedKey = page.selectedKey
          /\ new.entries = page.entries
          /\ PageData(store', writes, new)
    <2>1. CASE Renders(page, all)
      BY <1>6, <2>1, Zenon
    <2>2. CASE Renders(Failed(page), Tail(queue))
      <3>1. PageData(store', writes, Failed(page))
        BY <1>1, <1>6, FailedIs, Zenon DEF PageData
      <3> QED
        BY <1>1, <2>2, <3>1, FailedIs, Zenon
    <2> QED
      BY <1>3, <2>1, <2>2, Zenon
  <1>8. page' = new /\ (queue' = all \/ queue' = Tail(queue))
    BY <1>4, <1>7, RendersSame, Zenon
  <1>9. QueueData(store', writes, queue') /\ ListFits(new, queue')
    BY <1>4, <1>7, <1>8, Zenon
  <1> QED
    BY <1>1, <1>5, <1>6, <1>7, <1>8, <1>9, Zenon DEF DataInv

\* The page as it opens: the calls in flight are reads, and the list is the page's own.
LEMMA DataInit ==
    ASSUME Init
    PROVE  DataInv
  <1>1. PICK dep \in Deps, key \in Names, ns \in Namespaces :
          LET blank == initState(None, None, DEFAULT_NAMESPACE)
              p     == initState(dep, key, ns)
          IN  /\ page = p
              /\ queue = ValueEffect(blank, p, NamespaceEffect(blank, p) \o EntriesEffect(blank, p))
    BY Zenon DEF Init, Deps, Names
  <1> DEFINE blank == initState(None, None, DEFAULT_NAMESPACE)
             p     == initState(dep, key, ns)
  <1>2. /\ p \in PageState /\ p.dep = dep /\ p.ns = ns /\ p.selectedKey = key
        /\ p.current = Nothing /\ p.draft = Text(0) /\ p.entries = NoEntries
    BY EmptyValues, Zenon DEF initState, PageState, Names
  <1>3. blank.dep = None /\ blank.ns = DEFAULT_NAMESPACE /\ blank.selectedKey = None
    BY Zenon DEF initState
  <1>4. page = p /\ queue = ValueEffect(blank, p, NamespaceEffect(blank, p) \o EntriesEffect(blank, p))
    BY <1>1, Zenon
  <1> HIDE DEF blank, p
  <1>5. writes = 1 /\ dialog = NoDialog
    BY Zenon DEF Init
  <1>6. StoreData(store, writes)
    <2>1. 0 \in Used(1) /\ 1 \in Used(1)
      BY BrowserBounds DEF Used
    <2>2. \A place \in Objects :
            \/ store[place] = [val |-> Text(1), version |-> 1, born |-> 1]
            \/ store[place] = Absent
      BY DEF Init, Objects
    <2> QED
      BY <1>5, <2>1, <2>2 DEF StoreData, Absent, Text
  <1>7. PageData(store, writes, page)
    BY <1>2, <1>4, <1>5, BlankData, Zenon
  <1>8. CallData(store, writes, dialog)
    BY <1>5, NoDialogIs, ReadData, Zenon DEF None
  <1>9. QueueData(store, writes, queue) /\ ListFits(page, queue)
    <2>0. <<>> \in Seq(PageCall) /\ QueueData(store, writes, <<>>)
      BY DEF QueueData
    <2>1. CASE dep = None
      <3>1. /\ NamespaceEffect(blank, p) = <<>> /\ EntriesEffect(blank, p) = <<>>
            /\ ~Fetches(blank, p)
        BY <1>2, <2>1 DEF NamespaceEffect, EntriesEffect, Fetches
      <3>2. queue = <<>> \o <<>>
        BY <1>4, <3>1, Zenon DEF ValueEffect
      <3>3. queue = <<>>
        BY <3>2
      <3> QED
        BY <1>2, <1>4, <2>0, <2>1, <3>3, Zenon DEF ListFits
    <2>2. CASE dep # None
      <3> DEFINE names == Call("namespaces", p, None)
                 list == Call("list", p, None)
                 more == Append(<<>>, names)
                 w == Append(more, list)
      <3>1. p.dep \in Deployments /\ p.ns \in Namespaces
        BY <1>2, <2>2, Zenon DEF Deps
      <3>2. names \in PageCall /\ list \in PageCall
        BY <3>1, PlainCalls, Zenon
      <3>3. names.op = "namespaces" /\ list.op = "list" /\ list.dep = p.dep /\ list.ns = p.ns
        BY Zenon DEF Call
      <3>4. NamespaceEffect(blank, p) \o EntriesEffect(blank, p) = w
        <4>1. NamespaceEffect(blank, p) = <<names>> /\ EntriesEffect(blank, p) = <<list>>
          BY <1>2, <1>3, <2>2, Zenon DEF NamespaceEffect, EntriesEffect
        <4> QED
          BY <3>2, <4>1
      <3> HIDE DEF names, list
      <3>5. more \in Seq(PageCall) /\ QueueData(store, writes, more)
        BY <2>0, <3>2, <3>3, AppendCalls, JoinData, ReadData, Zenon
      <3> HIDE DEF more
      <3>6. w \in Seq(PageCall) /\ QueueData(store, writes, w)
        BY <3>2, <3>3, <3>5, AppendCalls, JoinData, ReadData, Zenon
      <3>7. ListFits(p, w)
        BY <3>2, <3>3, <3>5, JoinList, Zenon DEF ListFits
      <3> HIDE DEF w
      <3>8. queue = IF Fetches(blank, p) THEN Marked(w) \o <<Call("get", p, p.selectedKey)>> ELSE w
        BY <1>4, <3>4, Zenon DEF ValueEffect, Marked
      <3>9. CASE ~Fetches(blank, p)
        BY <1>4, <3>6, <3>7, <3>8, <3>9, Zenon
      <3>10. CASE Fetches(blank, p)
        <4> DEFINE get == Call("get", p, p.selectedKey)
        <4>1. p.dep \in Deps /\ p.ns \in Spaces /\ p.selectedKey \in Names
          BY <1>2, PageHas, Zenon
        <4>2. get \in PageCall /\ get.op = "get"
          BY <4>1, CallIs DEF CallOps
        <4> HIDE DEF get
        <4>3. Marked(w) \in Seq(PageCall) /\ QueueData(store, writes, Marked(w))
          <5>1. /\ Marked(w) \in Seq(PageCall) /\ DOMAIN Marked(w) = DOMAIN w
                /\ \A i \in DOMAIN w : Marked(w)[i].op = w[i].op
            BY <3>6, MarkedCalls, Zenon
          <5>2. \A i \in DOMAIN w : w[i].op \notin {"set", "delete"}
            <6>1. DOMAIN more = {1} /\ more[1] = names
              BY <3>2 DEF more
            <6> QED
              BY <3>2, <3>3, <3>5, <6>1, AppendCalls DEF w
          <5> QED
            BY <5>1, <5>2, Zenon DEF QueueData, CallData
        <4>4. queue = Append(Marked(w), get)
          BY <3>8, <3>10, <4>2, <4>3 DEF get
        <4>5. QueueData(store, writes, queue)
          BY <4>2, <4>3, <4>4, JoinData, ReadData, Zenon
        <4> QED
          BY <1>4, <3>6, <3>7, <4>2, <4>4, <4>5, FetchList, Zenon
      <3> QED
        BY <3>9, <3>10, Zenon
    <2> QED
      BY <2>1, <2>2, Zenon
  <1> QED
    BY <1>6, <1>7, <1>8, <1>9, Zenon DEF DataInv

\* Every step keeps it, with a user who waits.
LEMMA DataStep ==
    ASSUME Waits, SelectInv, DataInv, [Next]_vars
    PROVE  DataInv'
  <1>1. CASE Next
    BY <1>1, LeaveData, SelectData, FormData, SaveData, RemoveData, SettleData,
       ListNamespacesData, LoadEntriesData, GetObjectData, SetObjectData, DeleteObjectData,
       FlowData, Zenon DEF Next
  <1>2. CASE UNCHANGED vars
    BY <1>2, Zenon DEF vars, DataInv
  <1> QED
    BY <1>1, <1>2, Zenon

\* What a step of the page replaces, as ReplacesWhatWasShown says it.
ShownIsReplaced ==
    queue' # queue =>
      \A place \in DOMAIN store :
        LET seen == Head(queue).seen IN
        store'[place] # store[place] /\ store[place].version # 0 =>
          \/ seen.row.version = 0 /\ Head(queue).op = "delete"
          \/ /\ seen.at = place
             /\ seen.row.born = store[place].born => seen.row.val = store[place].val

\* Only a set and a delete that the store accepts replace an object.
LEMMA WriteReplaces ==
    ASSUME SelectInv, DataInv, queue # <<>>, Head(queue).op \in {"set", "delete"},
           Accepts(Head(queue)), NEW row, store' = [store EXCEPT ![Place(Head(queue))] = row]
    PROVE  ShownIsReplaced
  <1> DEFINE c == Head(queue)
  <1>1. store \in [Objects -> ObjectRow]
    BY Zenon DEF SelectInv, BrowserTypes
  <1>2. /\ c \in PageCall /\ Shape(c) /\ Place(c) \in Objects /\ CallData(store, writes, c)
    BY WriteAnswered, FirstCall, Zenon
  <1>3. c.op \in {"set", "delete"} /\ Accepts(c) /\ store' = [store EXCEPT ![Place(c)] = row]
    OBVIOUS
  <1>4. c.seen \in HeldObject /\ c.seen.row.version \in Nat /\ c.version \in Nat
    BY <1>2, Zenon DEF PageCall, HeldObject, ObjectRow
  <1> SUFFICES ASSUME NEW place \in Objects,
                      store'[place] # store[place], store[place].version # 0
               PROVE  \/ c.seen.row.version = 0 /\ c.op = "delete"
                      \/ /\ c.seen.at = place
                         /\ c.seen.row.born = store[place].born => c.seen.row.val = store[place].val
    BY <1>1, Zenon DEF ShownIsReplaced
  <1> HIDE DEF c
  <1>5. place = Place(c)
    BY <1>1, <1>2, <1>3, Zenon
  <1>6. CopyOf(store, writes, place, c.seen.row)
    BY <1>2, <1>3, <1>5, Zenon DEF CallData
  <1>7. CASE c.op = "set"
    <2>1. c.version = store[place].version
      BY <1>3, <1>5, <1>7, Zenon DEF Accepts
    <2>2. c.then = "saved"
      BY <1>2, <1>7, <2>1, Zenon DEF Shape
    <2>3. c.seen.at = Place(c) /\ c.version = c.seen.row.version
      BY <1>2, <1>7, <2>2, Zenon DEF Shape
    <2> QED
      BY <1>5, <1>6, <2>1, <2>3 DEF CopyOf
  <1>8. CASE c.op = "delete"
    <2>1. c.version = c.seen.row.version
      BY <1>2, <1>8, Zenon DEF Shape
    <2>2. c.version = 0 \/ c.version = store[place].version
      BY <1>3, <1>5, <1>8, Zenon DEF Accepts
    <2>3. c.version # 0 => c.seen.at = Place(c)
      BY <1>2, <1>8, Zenon DEF CallData
    <2> QED
      BY <1>5, <1>6, <1>8, <2>1, <2>2, <2>3, Zenon DEF CopyOf
  <1> QED
    BY <1>3, <1>7, <1>8, Zenon

\* Whatever the flows write and delete while the user reads, edits and confirms, a save or
\* a delete of the page that the store accepts replaces the value the user was shown, when
\* the user lets a load or a save end before leaving its object.  The expected version that
\* saveObject and deleteObjectKey send, which the store compares, is what it rests on.
THEOREM WritesReplaceWhatWasShown ==
    ASSUME Waits
    PROVE  Spec => ReplacesWhatWasShown
  <1>1. Init => SelectInv /\ DataInv
    BY SelectInit, DataInit, Zenon
  <1>2. SelectInv /\ DataInv /\ [Next]_vars => (SelectInv /\ DataInv)'
    BY SelectStep, DataStep, Zenon
  <1>3. SelectInv /\ DataInv /\ [Next]_vars => [ShownIsReplaced]_vars
    <2> SUFFICES ASSUME SelectInv, DataInv, Next
                 PROVE  ShownIsReplaced
      OBVIOUS
    <2>1. CASE setObject
      <3>1. queue # <<>> /\ Head(queue).op \in {"set", "delete"}
        BY <2>1, Zenon DEF setObject, Answers
      <3>2. CASE store' = store
        BY <3>2, Zenon DEF ShownIsReplaced
      <3>3. CASE store' # store
        <4>1. PICK row : /\ Accepts(Head(queue))
                         /\ store' = [store EXCEPT ![Place(Head(queue))] = row]
          BY <2>1, <3>3, Zenon DEF setObject
        <4> QED
          BY <3>1, <4>1, WriteReplaces, Zenon
      <3> QED
        BY <3>2, <3>3, Zenon
    <2>2. CASE deleteObject
      <3>1. queue # <<>> /\ Head(queue).op \in {"set", "delete"}
        BY <2>2, Zenon DEF deleteObject, Answers
      <3>2. CASE store' = store
        BY <3>2, Zenon DEF ShownIsReplaced
      <3>3. CASE store' # store
        <4>1. PICK row : /\ Accepts(Head(queue))
                         /\ store' = [store EXCEPT ![Place(Head(queue))] = row]
          BY <2>2, <3>3, Zenon DEF deleteObject
        <4> QED
          BY <3>1, <4>1, WriteReplaces, Zenon
      <3> QED
        BY <3>2, <3>3, Zenon
    <2>3. CASE FlowWrites \/ FlowDeletes
      BY <2>3, Zenon DEF FlowWrites, FlowDeletes, ShownIsReplaced
    <2>4. CASE ~(setObject \/ deleteObject \/ FlowWrites \/ FlowDeletes)
      <3>1. store' = store
        BY <2>4, Zenon
        DEF Next, selectDeployment, selectNamespace, selectKey, startCreate, Form, Refresh, save,
            remove, settle, listNamespaces, loadEntries, getObject
      <3> QED
        BY <3>1, Zenon DEF ShownIsReplaced
    <2> QED
      BY <2>1, <2>2, <2>3, <2>4, Zenon
  <1> QED
    BY <1>1, <1>2, <1>3, PTL DEF Spec, ReplacesWhatWasShown, ShownIsReplaced

=============================================================================
