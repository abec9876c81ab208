----------------------------- MODULE RunConsole -----------------------------
(***************************************************************************)
(* The editor's RUN button and log panel against the run host: RunProvider *)
(* with its debounced sync, the run server actions, which a page sends one *)
(* at a time, the session with its LogBuffer, and the SSE log stream with  *)
(* reconnects.  How calls interleave inside the host is RunHost's subject; *)
(* here a call is one step.                                                *)
(***************************************************************************)
EXTENDS Naturals, Sequences, Functions

CONSTANTS
    MaxLogLines,     \* MAX_LOG_LINES, the server's buffer
    MaxClientLogs,   \* MAX_CLIENT_LOGS, the panel's
    MaxRev,          \* bound: edits
    MaxLines,        \* bound: lines a runner writes
    MaxRuns,         \* bound: starts
    MaxFaults        \* bound: failed calls, dropped streams, page reloads, reaps

RunBounds ==
    /\ {MaxLogLines, MaxClientLogs, MaxRev, MaxLines, MaxRuns, MaxFaults} \subseteq Nat
    /\ 0 < MaxLogLines /\ MaxLogLines <= MaxClientLogs

ASSUME RunAssumption == RunBounds

VARIABLES
    doc,      \* the open document: its edit and whether it validates
    tab,      \* RunProvider's state and refs
    queue,    \* server actions sent or waiting to be sent, and the answer of the first
    session,  \* the namespace's session
    wire,     \* the log stream: which buffer it listens to, and what it carries
    cleared,  \* history: lines the user cleared
    lines,    \* number of lines written so far, by any runner
    runs, faults

vars == <<doc, tab, queue, session, wire, cleared, lines, runs, faults>>

NoStream == [open |-> FALSE, gen |-> 0, carries |-> <<>>]

NewTab == [available |-> FALSE, running |-> FALSE, busy |-> FALSE, error |-> FALSE,
           logs |-> <<>>, lastSeq |-> 0, lastYaml |-> 0, timer |-> 0, stream |-> FALSE]

\* Sequence numbers start at 1 here, so that 0 is the cursor before the first.
NewSession(gen) == [gen |-> gen, proc |-> 0, config |-> 0, logs |-> <<>>, seq |-> 1,
                    stale |-> FALSE]

Call(op, rev) == [op |-> op, rev |-> rev, answer |-> "none"]

Init ==
    /\ doc = [rev |-> 1, valid |-> TRUE]
    /\ tab = NewTab
    /\ queue = <<Call("status", 0)>>
    /\ session = NewSession(0)
    /\ wire = NoStream
    /\ cleared = {}
    /\ lines = 0 /\ runs = 0 /\ faults = 0

Fault == faults < MaxFaults /\ faults' = faults + 1

(***************************************************************************)
(* LogBuffer.  A line is [seq, line]: its number in the buffer, and which  *)
(* line it is.                                                             *)
(***************************************************************************)
Newest(seq, n) == SubSeq(seq, IF Len(seq) > n THEN Len(seq) - n + 1 ELSE 1, Len(seq))

push(s, line) ==
    [s EXCEPT !.logs = Newest(Append(@, [seq |-> s.seq, line |-> line]), MaxLogLines),
              !.seq = @ + 1]

resetFromZero(s) == [s EXCEPT !.logs = <<>>, !.seq = 1]

reset(s) == [s EXCEPT !.logs = <<>>]

\* What a stream that listens to the session's buffer carries after a push.
Notified(s) ==
    IF wire.open /\ wire.gen = s.gen
      THEN [wire EXCEPT !.carries = Append(@, s.logs[Len(s.logs)])] ELSE wire

\* The session pushes the next line, to its listener too.
Pushes(s) ==
    /\ session' = push(s, lines + 1)
    /\ wire' = Notified(push(s, lines + 1))
    /\ lines' = lines + 1

(***************************************************************************)
(* The server: what the first queued call does.                            *)
(***************************************************************************)
Executes(op) == queue # <<>> /\ Head(queue).op = op /\ Head(queue).answer = "none"
Answer(a) == queue' = [queue EXCEPT ![1].answer = a]

Status ==
    /\ Executes("status")
    /\ Answer(IF session.proc # 0 THEN "running" ELSE "ok")
    /\ UNCHANGED <<doc, tab, session, wire, cleared, lines, runs, faults>>

\* stop, a fresh buffer, the config, and the process with its first line; or the
\* config or the port cannot be had.
start ==
    /\ Executes("start")
    /\ LET fresh == reset([session EXCEPT !.proc = 0, !.config = 0, !.stale = FALSE])
       IN  \/ /\ lines < MaxLines
              /\ runs' = runs + 1
              /\ Pushes([fresh EXCEPT !.proc = runs + 1, !.config = Head(queue).rev])
              /\ Answer("ok")
              /\ UNCHANGED faults
           \/ /\ Fault
              /\ session' = fresh
              /\ Answer("failed")
              /\ UNCHANGED <<wire, lines, runs>>
    /\ UNCHANGED <<doc, tab, cleared>>

stop ==
    /\ Executes("stop")
    /\ session' = [session EXCEPT !.proc = 0, !.config = 0]
    /\ Answer("ok")
    /\ UNCHANGED <<doc, tab, wire, cleared, lines, runs, faults>>

\* A stopped runner makes sync do nothing.  A failed write leaves the config
\* stale: nobody retries it.
sync ==
    /\ Executes("sync")
    /\ IF session.proc = 0
         THEN Answer("ok") /\ UNCHANGED <<session, faults>>
         ELSE \/ /\ session' = [session EXCEPT !.config = Head(queue).rev, !.stale = FALSE]
                 /\ Answer("ok") /\ UNCHANGED faults
              \/ /\ Fault
                 /\ session' = [session EXCEPT !.stale = TRUE]
                 /\ Answer("failed")
    /\ UNCHANGED <<doc, tab, wire, cleared, lines, runs>>

\* The runner writes a line; it may exit by itself, with a last line.
pipe ==
    /\ session.proc # 0 /\ lines < MaxLines
    /\ \/ Pushes(session)
       \/ Pushes([session EXCEPT !.proc = 0])
    /\ UNCHANGED <<doc, tab, queue, cleared, runs, faults>>

\* The idle reaper stops the run and forgets the session with its buffer.
reapIdle ==
    /\ Fault
    /\ queue = <<>>
    /\ session' = NewSession(session.gen + 1)
    /\ UNCHANGED <<doc, tab, queue, wire, cleared, lines, runs>>

(***************************************************************************)
(* The log stream: a connection replays the buffer and then listens.       *)
(***************************************************************************)
Connect ==
    /\ tab.stream /\ ~wire.open
    /\ wire' = [open |-> TRUE, gen |-> session.gen, carries |-> session.logs]
    /\ UNCHANGED <<doc, tab, queue, session, cleared, lines, runs, faults>>

DropStream ==
    /\ wire.open /\ Fault
    /\ wire' = NoStream
    /\ UNCHANGED <<doc, tab, queue, session, cleared, lines, runs>>

\* A line already shown is dropped.
onLine ==
    /\ wire.carries # <<>>
    /\ wire' = [wire EXCEPT !.carries = Tail(@)]
    /\ LET l == Head(wire.carries)
       IN  tab' = IF l.seq <= tab.lastSeq THEN tab
                  ELSE [tab EXCEPT !.lastSeq = l.seq,
                                   !.logs = Newest(Append(@, l.line), MaxClientLogs)]
    /\ UNCHANGED <<doc, queue, session, cleared, lines, runs, faults>>

clearLogs ==
    /\ cleared' = cleared \cup Range(tab.logs)
    /\ tab' = [tab EXCEPT !.logs = <<>>]
    /\ UNCHANGED <<doc, queue, session, wire, lines, runs, faults>>

\* LogPanel and its button are there while a runner is available.
ClearClick == tab.available /\ clearLogs

(***************************************************************************)
(* RunProvider and RunBar.                                                 *)
(***************************************************************************)
\* The effect that debounces edits, after a change of document or of `running`.
Debounce(t, d) ==
    [t EXCEPT !.timer = IF t.running /\ d.valid /\ d.rev # t.lastYaml THEN d.rev ELSE 0]

Edit ==
    /\ doc.rev < MaxRev
    /\ \E ok \in BOOLEAN : doc' = [rev |-> doc.rev + 1, valid |-> ok]
    /\ tab' = Debounce(tab, doc')
    /\ UNCHANGED <<queue, session, wire, cleared, lines, runs, faults>>

TimerFires ==
    /\ tab.timer # 0
    /\ tab' = [tab EXCEPT !.timer = 0, !.lastYaml = tab.timer]
    /\ queue' = Append(queue, Call("sync", tab.timer))
    /\ UNCHANGED <<doc, session, wire, cleared, lines, runs, faults>>

StartClick ==
    /\ tab.available /\ ~tab.running /\ ~tab.busy /\ doc.valid /\ runs < MaxRuns
    /\ tab' = [tab EXCEPT !.busy = TRUE, !.error = FALSE]
    /\ queue' = Append(queue, Call("start", doc.rev))
    /\ UNCHANGED <<doc, session, wire, cleared, lines, runs, faults>>

StopClick ==
    /\ tab.available /\ tab.running /\ ~tab.busy
    /\ tab' = [tab EXCEPT !.busy = TRUE, !.error = FALSE]
    /\ queue' = Append(queue, Call("stop", 0))
    /\ UNCHANGED <<doc, session, wire, cleared, lines, runs, faults>>

\* The request is lost before it is served, or the answer after it.
CallFails ==
    /\ queue # <<>> /\ Head(queue).answer # "failed"
    /\ Fault
    /\ Answer("failed")
    /\ session' = [session EXCEPT !.stale = @ \/ Head(queue).op = "sync"]
    /\ UNCHANGED <<doc, tab, wire, cleared, lines, runs>>

Answered(op) == queue # <<>> /\ Head(queue).op = op /\ Head(queue).answer # "none"
Ok == Head(queue).answer # "failed"

StatusReply ==
    /\ Answered("status")
    /\ LET running == Head(queue).answer = "running"
       IN  tab' = IF Ok THEN Debounce([tab EXCEPT !.available = TRUE, !.running = running,
                                                  !.stream = running], doc) ELSE tab
    /\ queue' = Tail(queue)
    /\ UNCHANGED <<doc, session, wire, cleared, lines, runs, faults>>

StartReplyLatest ==
    /\ Answered("start")
    /\ tab' = IF Ok THEN [tab EXCEPT !.busy = FALSE, !.running = TRUE, !.logs = <<>>,
                                     !.lastYaml = doc.rev, !.stream = TRUE]
              ELSE [tab EXCEPT !.busy = FALSE, !.error = TRUE]
    /\ queue' = Tail(queue)
    /\ UNCHANGED <<doc, session, wire, cleared, lines, runs, faults>>

\* The started configuration is the clicked one; the effect compares it with
\* the document of now.
StartReply ==
    /\ Answered("start")
    /\ tab' = IF Ok THEN Debounce([tab EXCEPT !.busy = FALSE, !.running = TRUE, !.logs = <<>>,
                                              !.lastYaml = Head(queue).rev, !.stream = TRUE], doc)
              ELSE [tab EXCEPT !.busy = FALSE, !.error = TRUE]
    /\ queue' = Tail(queue)
    /\ UNCHANGED <<doc, session, wire, cleared, lines, runs, faults>>

\* Whether or not the stop succeeded, the page counts the run as stopped.
StopReply ==
    /\ Answered("stop")
    /\ tab' = [tab EXCEPT !.busy = FALSE, !.running = FALSE, !.timer = 0, !.stream = FALSE,
                          !.error = ~Ok]
    /\ wire' = NoStream
    /\ queue' = Tail(queue)
    /\ UNCHANGED <<doc, session, cleared, lines, runs, faults>>

SyncReply ==
    /\ Answered("sync")
    /\ queue' = Tail(queue)
    /\ UNCHANGED <<doc, tab, session, wire, cleared, lines, runs, faults>>

\* The page is reloaded between two calls, and reattaches if a runner is live.
Reload ==
    /\ queue = <<>> /\ Fault
    /\ tab' = NewTab
    /\ wire' = NoStream
    /\ cleared' = {}
    /\ queue' = <<Call("status", 0)>>
    /\ UNCHANGED <<doc, session, lines, runs>>

Next ==
    \/ Status \/ start \/ stop \/ sync \/ pipe \/ reapIdle
    \/ Connect \/ DropStream \/ onLine \/ ClearClick
    \/ Edit \/ TimerFires \/ StartClick \/ StopClick \/ CallFails
    \/ StatusReply \/ StartReply \/ StopReply \/ SyncReply \/ Reload

Spec == Init /\ [][Next]_vars

-----------------------------------------------------------------------------
\* Once the stream has caught up, the panel shows every buffered line the user
\* did not clear, until the reaper forgets the session (RunContext.tsx
\* openStream and start, LogBuffer.reset).
EveryLineShown ==
    session.gen = 0 /\ tab.running /\ wire.open /\ wire.carries = <<>> /\ queue = <<>>
    => \A i \in 1..Len(session.logs) : session.logs[i].line \in Range(tab.logs) \cup cleared

\* When nothing is pending, a running page's valid document is the one its runner
\* watches, also if it was edited while the start was under way; a failed sync
\* is the exception (RunContext.tsx:191-200).
ConfigFollows ==
    tab.running /\ doc.valid /\ tab.timer = 0 /\ queue = <<>> /\ session.proc # 0
    /\ ~session.stale
    => session.config = doc.rev

=============================================================================
