------------------------------ MODULE LogView ------------------------------
(***************************************************************************)
(* The platform's logs view: useLogStream with its debounced query, the    *)
(* tail poll and "Load older", against the log service's query, while      *)
(* deployments keep writing rows.  A page sends its server actions one at  *)
(* a time; a call runs and is answered in one step, for nothing the page   *)
(* does changes the rows.                                                  *)
(***************************************************************************)
EXTENDS Naturals, Sequences, FiniteSets, FiniteSetsExt

CONSTANTS
    Kinds,      \* what filters tell apart in a row: level, app, version, text
    Filters,    \* sets of kinds
    PageSize,   \* PAGE_SIZE
    TailSize,   \* TAIL_SIZE
    Allowed,    \* what may happen of "burst", "race" and "tie", see below
    MaxRows,    \* bound: rows of the table
    MaxCalls,   \* bound: server actions waiting, for a poll or a click
    MaxFails    \* bound: failed queries

\* burst: more than TailSize rows arrive between two looks at the newest rows;
\* race:  "Load older" is clicked before the rows of a new filter are there;
\* tie:   two rows have the same timestamp.
LogViewBounds ==
    /\ {PageSize, TailSize, MaxRows, MaxCalls, MaxFails} \subseteq Nat
    /\ 0 < TailSize /\ TailSize <= PageSize
    /\ Allowed \subseteq {"burst", "race", "tie"}
    /\ Filters \subseteq SUBSET Kinds

VARIABLES
    rows,   \* the logs table, in order of insertion: a row's index is its id
    view,   \* useLogStream's state
    queue,  \* server actions, the first one running
    fails

vars == <<rows, view, queue, fails>>

None == 0  \* no cursor; timestamps start at 1

Init ==
    /\ rows = <<>>
    /\ view \in [filter : Filters, entries : {{}}, olderCursor : {None}, loadingMore : {FALSE},
                 tailing : {FALSE}, timer : {TRUE}, stale : {FALSE}]
    /\ queue = <<>>
    /\ fails = 0

(***************************************************************************)
(* The log service.                                                        *)
(***************************************************************************)
Matching(filter, before) ==
    {id \in DOMAIN rows : rows[id].kind \in filter /\ (before = None \/ rows[id].ts < before)}

\* The newest rows up to the limit; rows of one timestamp come in any order.
Query(filter, before, limit) ==
    LET all == Matching(filter, before) IN
    {page \in kSubset(Min({limit, Cardinality(all)}), all) :
        \A id \in page, other \in all \ page : rows[other].ts <= rows[id].ts}

Oldest(page) == Min({rows[id].ts : id \in page})
NextBefore(page, limit) == IF Cardinality(page) = limit THEN Oldest(page) ELSE None

(***************************************************************************)
(* What is on the screen.                                                  *)
(***************************************************************************)
NewestShown == Max({rows[id].ts : id \in view.entries} \cup {0})

\* A load that will replace the list is on its way.
LoadPending == view.timer \/ \E i \in DOMAIN queue : queue[i].op = "load"

Unseen == {id \in DOMAIN rows : rows[id].kind \in view.filter /\ rows[id].ts > NewestShown}

CanLoadOlder == view.entries # {} /\ view.olderCursor # None /\ ~view.loadingMore

\* A deployment's row is stored.
Insert ==
    /\ Len(rows) < MaxRows
    /\ "burst" \notin Allowed => LoadPending \/ Cardinality(Unseen) < TailSize
    /\ \E kind \in Kinds, same \in BOOLEAN :
         /\ same => rows # <<>> /\ "tie" \in Allowed
         /\ LET last == IF rows = <<>> THEN 0 ELSE rows[Len(rows)].ts
            IN  rows' = Append(rows, [kind |-> kind, ts |-> IF same THEN last ELSE last + 1])
    /\ UNCHANGED <<view, queue, fails>>

(***************************************************************************)
(* The page.  A call has the filter of the moment it is sent; `latest' is  *)
(* seq = reqSeq.current.                                                   *)
(***************************************************************************)
Call(op, before) == [op |-> op, filter |-> view.filter, before |-> before, latest |-> TRUE]

\* Any control of the filter bar.  The query waits for the debounce.
setFilters ==
    /\ \E filter \in Filters \ {view.filter} :
         view' = [view EXCEPT !.filter = filter, !.timer = TRUE]
    /\ UNCHANGED <<rows, queue, fails>>

load ==
    /\ view.timer /\ Len(queue) < MaxCalls
    /\ view' = [view EXCEPT !.timer = FALSE]
    /\ queue' = Append([i \in DOMAIN queue |-> [queue[i] EXCEPT !.latest = FALSE]],
                       Call("load", None))
    /\ UNCHANGED <<rows, fails>>

toggleTail ==
    /\ Len(queue) < MaxCalls
    /\ view' = [view EXCEPT !.tailing = ~@]
    /\ queue' = IF view.tailing THEN queue ELSE Append(queue, Call("poll", None))
    /\ UNCHANGED <<rows, fails>>

poll ==
    /\ view.tailing /\ Len(queue) < MaxCalls
    /\ queue' = Append(queue, Call("poll", None))
    /\ UNCHANGED <<rows, view, fails>>

loadMore ==
    /\ CanLoadOlder /\ Len(queue) < MaxCalls
    /\ "race" \notin Allowed => ~LoadPending
    /\ view' = [view EXCEPT !.loadingMore = TRUE]
    /\ queue' = Append(queue, Call("more", view.olderCursor))
    /\ UNCHANGED <<rows, fails>>

(***************************************************************************)
(* The answers.                                                            *)
(***************************************************************************)
Answers(op) == queue # <<>> /\ Head(queue).op = op /\ queue' = Tail(queue) /\ UNCHANGED rows

QueryFails == fails < MaxFails /\ fails' = fails + 1

LoadReplyMerges ==
    /\ Answers("load")
    /\ \E page \in Query(Head(queue).filter, None, PageSize) :
         view' = [view EXCEPT !.entries = @ \cup page, !.olderCursor = NextBefore(page, PageSize),
                              !.stale = FALSE]
    /\ UNCHANGED fails

\* Only the newest query's answer replaces the list.  One that fails leaves the rows
\* of the filter before: `stale' keeps that in mind.
LoadReply ==
    /\ Answers("load")
    /\ \/ /\ ~Head(queue).latest
          /\ UNCHANGED <<view, fails>>
       \/ /\ Head(queue).latest
          /\ \E page \in Query(Head(queue).filter, None, PageSize) :
               view' = [view EXCEPT !.entries = page, !.olderCursor = NextBefore(page, PageSize),
                                    !.stale = FALSE]
          /\ UNCHANGED fails
       \/ /\ Head(queue).latest /\ QueryFails
          /\ view' = [view EXCEPT !.stale = TRUE]

\* Merged by id, whatever the filter has become.
PollReply ==
    /\ Answers("poll")
    /\ \/ /\ \E page \in Query(Head(queue).filter, None, TailSize) :
               view' = [view EXCEPT !.entries = @ \cup page]
          /\ UNCHANGED fails
       \/ QueryFails /\ UNCHANGED view

MoreReplyPastEdge ==
    /\ Answers("more")
    /\ \E page \in Query(Head(queue).filter, Head(queue).before, PageSize) :
         view' = [view EXCEPT !.entries = @ \cup page, !.loadingMore = FALSE,
                    !.olderCursor = IF NextBefore(page, PageSize) = None THEN None
                                    ELSE NextBefore(page, PageSize) - 1]
    /\ UNCHANGED fails

MoreReply ==
    /\ Answers("more")
    /\ \/ /\ \E page \in Query(Head(queue).filter, Head(queue).before, PageSize) :
               view' = [view EXCEPT !.entries = @ \cup page, !.loadingMore = FALSE,
                                    !.olderCursor = NextBefore(page, PageSize)]
          /\ UNCHANGED fails
       \/ QueryFails /\ view' = [view EXCEPT !.loadingMore = FALSE]

Next ==
    \/ Insert \/ setFilters \/ load \/ toggleTail \/ poll \/ loadMore
    \/ LoadReply \/ PollReply \/ MoreReply

Spec == Init /\ [][Next]_vars

(***************************************************************************)
(* Properties.                                                             *)
(***************************************************************************)
Quiet == queue = <<>> /\ ~view.timer /\ ~view.stale

\* Once every answer is in, the rows shown are the filter's, though polls and older
\* pages are merged without looking at the filter (useLogStream.ts:137, 161): a query
\* that replaces the list always comes after them.
OnlyMatchingRows == Quiet => view.entries \subseteq Matching(view.filter, None)

\* No hole in the list: of the rows that match, every one between the oldest that is
\* loaded (the cursor of "Load older") and the newest shown is there.
NoGap ==
    Quiet => \A id \in Matching(view.filter, None) :
                rows[id].ts < NewestShown /\ rows[id].ts >= view.olderCursor => id \in view.entries

=============================================================================
