------------------------------- MODULE MCViews -------------------------------
(***************************************************************************)
(* The two pages that show what running integrations leave behind: the     *)
(* object browser and the logs view.  They share no state, so `which'      *)
(* picks one and the variables of the other rest.                          *)
(***************************************************************************)
EXTENDS ObjectsBrowser, MCLogs

VARIABLE which

\* The object browser without a selection.
ObjectsRest ==
    /\ store = [place \in Deployments \X Namespaces \X Keys |-> Absent]
    /\ page = initState(None, None, DEFAULT_NAMESPACE)
    /\ queue = <<>> /\ dialog = NoDialog /\ writes = 1 /\ fails = 0

\* The logs view before its first query.
LogsRest == Logs!Init /\ logView.filter = CHOOSE filter \in Filters : TRUE

MCInit ==
    \/ which = "objects" /\ Init /\ LogsRest
    \/ which = "logs" /\ Logs!Init /\ ObjectsRest

MCNext ==
    \/ which = "objects" /\ Next /\ UNCHANGED <<which, logVars>>
    \/ which = "logs" /\ Logs!Next /\ UNCHANGED <<which, vars>>

MCSpec == MCInit /\ [][MCNext]_<<which, vars, logVars>>

-----------------------------------------------------------------------------
(* The instance. *)

MCPlaces == {<<"d1", "user", "k">>, <<"d1", "user", "j">>, <<"d1", "oauth_secrets", "k">>}
=============================================================================
