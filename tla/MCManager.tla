------------------------------ MODULE MCManager ------------------------------
(***************************************************************************)
(* The two pages that change something: the run panel of an editor and the *)
(* integrations manager.  They share no state, so `which' picks one and    *)
(* the variables of the other rest.                                        *)
(***************************************************************************)
EXTENDS RunConsole

CONSTANTS
    Pages,                                                \* the pages of this instance
    NF, NI, Starts, Links, Overlap, MaxClicks, MaxEvents  \* of the manager

VARIABLES
    which,
    db, view, path, calls, busy, excused, other, clicks, events

managerVars == <<db, view, path, calls, busy, excused, other, clicks, events>>
pageVars == <<which, vars, managerVars>>

Manager == INSTANCE IntegrationsConsole WITH queue <- calls

ASSUME Manager!ConsoleBounds

\* A manager of which nothing is loaded and nothing has changed.
ManagerRests ==
    /\ db \in Starts
    /\ view = Manager!EMPTY /\ path = <<>> /\ calls = <<>> /\ other = <<>>
    /\ busy = FALSE /\ excused = TRUE
    /\ clicks = 0 /\ events = 0

\* A panel rests as it starts.
MCInit ==
    /\ which \in Pages
    /\ Init
    /\ IF which = "manager" THEN Manager!Init ELSE ManagerRests

MCNext ==
    \/ which = "manager" /\ Manager!Next /\ UNCHANGED <<which, vars>>
    \/ which = "runs" /\ Next /\ UNCHANGED <<which, managerVars>>

MCSpec == MCInit /\ [][MCNext]_pageVars

-----------------------------------------------------------------------------
(* The instance. *)

\* Two folders, two integrations in the first; room for one more of each.  A folder
\* that does not exist has the parent NF + 1 (Gone).
MCStarts ==
    {[parent |-> <<0, 0, NF + 1>>, fpos |-> <<0, 1, 0>>,
      definition |-> <<1, 1, 0>>, folder |-> <<1, 1, 0>>, mpos |-> <<0, 1, 0>>,
      nextFolder |-> 3, nextIntegration |-> 3]}

\* The whole view (AllBucket), and the first integration with its folder.
MCLinks == {[bucket |-> 0, selectedId |-> 0], [bucket |-> 1, selectedId |-> 1]}

-----------------------------------------------------------------------------
(* The properties of the manager; those of the run panel are its own. *)

\* Whatever old trees the consoles decide their moves on, the folders stay a forest: each
\* hangs from the root, so the tree the service builds shows it (folder service Update).
EveryFolderInTree == Manager!EveryFolderInTree

\* When the page's calls are answered, it shows what the orchestrator holds, its own changes
\* and their order included, unless someone else changed that since the last load began or a
\* call failed (run and refresh of the manager, loadData).
OwnChangesShown == Manager!OwnChangesShown

\* A rename of an integration keeps its definition (IntegrationDetail sends it with the name).
RenameKeepsDefinition == Manager!RenameKeepsDefinition

=============================================================================
