--------------------------- MODULE RunPanelProofs ---------------------------
(***************************************************************************)
(* What the RUN button and the log panel show, for any bounds of the two   *)
(* log buffers, any edits, runs and faults.  The page and its queue of     *)
(* server actions first (PanelInv): which calls can wait together, what    *)
(* the debounce waits for, when a stream is open.  Then the configuration  *)
(* (ConfigInv): what the page sent last is on its way or is what the       *)
(* runner watches.  Then the lines (LineInv): the buffer is numbered       *)
(* without a hole, the stream carries numbers in order, and a buffered     *)
(* line is on the stream, or on the panel and near its end.                *)
(***************************************************************************)
EXTENDS RunConsole, TLAPS

-----------------------------------------------------------------------------
(* The run panel: its types.                                               *)

RunLine == [seq : Nat, line : Nat]
RunCall == [op : {"status", "start", "stop", "sync"}, rev : Nat,
            answer : {"none", "ok", "running", "failed"}]
RunTab ==
    [available : BOOLEAN, running : BOOLEAN, busy : BOOLEAN, error : BOOLEAN, logs : Seq(Nat),
     lastSeq : Nat, lastYaml : Nat, timer : Nat, stream : BOOLEAN]
RunSession ==
    [gen : Nat, proc : Nat, config : Nat, logs : Seq(RunLine), seq : Nat, stale : BOOLEAN]

RunWire == [open : BOOLEAN, gen : Nat, carries : Seq(RunLine)]

RunTypes ==
    /\ doc \in [rev : Nat \ {0}, valid : BOOLEAN]
    /\ tab \in RunTab
    /\ queue \in Seq(RunCall)
    /\ session \in RunSession
    /\ wire \in RunWire
    /\ lines \in Nat /\ runs \in Nat

-----------------------------------------------------------------------------
(* The queue of server actions against the buttons.                        *)

\* A page that has not heard of the server yet.
Fresh ==
    /\ ~tab.available /\ ~tab.running /\ ~tab.busy
    /\ tab.lastSeq = 0 /\ tab.lastYaml = 0

IsSync(c) == c.op = "sync"

\* Only the first call can have an answer.  The page asks for the status before
\* anything else; while a start waits nothing is sent, while a stop waits only
\* edits are.
CallsInv ==
    \A i \in DOMAIN queue :
        /\ i # 1 => queue[i].answer = "none"
        /\ queue[i].op = "status" => Len(queue) = 1 /\ Fresh
        /\ queue[i].op = "start" =>
             i = Len(queue) /\ tab.busy /\ ~tab.running /\ queue[i].answer # "running"
        /\ queue[i].op = "stop" =>
             tab.busy /\ tab.running /\ \A j \in DOMAIN queue : j # i => IsSync(queue[j])

\* The timer that the effect sets for a running page with document d.
Due(running, d, lastYaml) == IF running /\ d.valid /\ d.rev # lastYaml THEN d.rev ELSE 0

\* The debounce waits for exactly the edits that the runner was not told.
TimerInv ==
    tab.timer = Due(tab.running, doc, tab.lastYaml)

\* The stream is open only while the page runs.
StreamInv ==
    /\ tab.stream = tab.running
    /\ wire.open => tab.running
    /\ ~wire.open => wire.carries = <<>>

PanelInv == RunTypes /\ CallsInv /\ TimerInv /\ StreamInv

-----------------------------------------------------------------------------
(* Which configuration the runner watches.                                 *)

LastSync(i) == IsSync(queue[i]) /\ \A j \in DOMAIN queue : j > i => ~IsSync(queue[j])
SyncWaits == \E i \in DOMAIN queue : IsSync(queue[i]) /\ queue[i].answer = "none"
Watches(rev) == session.proc = 0 \/ session.stale \/ session.config = rev

\* What the page sent last is on its way or is there.
SentInv ==
    /\ tab.running => \A i \in DOMAIN queue : LastSync(i) => queue[i].rev = tab.lastYaml
    /\ tab.running /\ tab.lastYaml # 0 => SyncWaits \/ Watches(tab.lastYaml)
    /\ \A i \in DOMAIN queue :
         queue[i].op = "start" /\ queue[i].answer = "ok" => session.config = queue[i].rev

ConfigInv == PanelInv /\ SentInv

-----------------------------------------------------------------------------
(* Which lines the panel shows.                                            *)

\* The buffer holds the newest lines, with consecutive numbers.
BufferInv ==
    /\ Len(session.logs) <= MaxLogLines /\ Len(session.logs) < session.seq
    /\ \A i \in DOMAIN session.logs :
         session.logs[i].seq + Len(session.logs) + 1 = session.seq + i

\* The stream carries numbers in order, none ahead of the buffer.
WireInv ==
    session.gen = 0 =>
    /\ wire.gen = 0
    /\ tab.lastSeq < session.seq
    /\ \A i \in DOMAIN wire.carries : wire.carries[i].seq < session.seq
    /\ \A i, j \in DOMAIN wire.carries :
         i < j => wire.carries[i].seq < wire.carries[j].seq

\* The panel has line e, so near the end of its list that the lines after it cannot
\* push it out before it leaves the buffer; or the user cleared it.
Shown(e) ==
    \/ e.line \in cleared
    \/ \E k \in DOMAIN tab.logs : tab.logs[k] = e.line /\ Len(tab.logs) + e.seq <= k + tab.lastSeq

\* A start succeeded, and the page has not heard of it yet.
Started == \E i \in DOMAIN queue : queue[i].op = "start" /\ queue[i].answer = "ok"

\* A buffered line is shown or is still to come.
LinesInv ==
    session.gen = 0 =>
    /\ tab.running => \A i \in DOMAIN session.logs :
         session.logs[i].seq <= tab.lastSeq => Shown(session.logs[i])
    /\ wire.open => \A i \in DOMAIN session.logs :
         session.logs[i].seq > tab.lastSeq
         => \E j \in DOMAIN wire.carries : wire.carries[j] = session.logs[i]
    /\ Started => \A i \in DOMAIN session.logs : session.logs[i].seq > tab.lastSeq

LineInv == PanelInv /\ BufferInv /\ WireInv /\ LinesInv

-----------------------------------------------------------------------------
(* The queue and the buffer, entry by entry.                               *)

RunAnswers == {"none", "ok", "running", "failed"}

\* The first call gets its answer, and the others stay.
LEMMA AnswerIs ==
    ASSUME queue \in Seq(RunCall), queue # <<>>, NEW a \in RunAnswers, Answer(a)
    PROVE  /\ queue' \in Seq(RunCall) /\ Len(queue') = Len(queue)
           /\ \A i \in 1..Len(queue) :
                /\ queue'[i].op = queue[i].op /\ queue'[i].rev = queue[i].rev
                /\ queue'[i].answer = IF i = 1 THEN a ELSE queue[i].answer
  <1>1. queue' = [queue EXCEPT ![1] = [@ EXCEPT !.answer = a]]
    BY Zenon DEF Answer
  <1>2. Len(queue) \in Nat \ {0} /\ DOMAIN queue = 1..Len(queue)
    OBVIOUS
  <1>3. \A i \in 1..Len(queue) : queue[i] \in RunCall
    OBVIOUS
  <1>4. \A c \in RunCall :
          /\ [c EXCEPT !.answer = a] \in RunCall /\ [c EXCEPT !.answer = a].op = c.op
          /\ [c EXCEPT !.answer = a].rev = c.rev /\ [c EXCEPT !.answer = a].answer = a
    BY DEF RunCall, RunAnswers
  <1>5. queue' \in Seq(RunCall) /\ Len(queue') = Len(queue)
    BY <1>1, <1>2, <1>3, <1>4
  <1>6. /\ queue'[1] = [queue[1] EXCEPT !.answer = a]
        /\ \A i \in 1..Len(queue) : i # 1 => queue'[i] = queue[i]
    BY <1>1, <1>2
  <1>7. /\ queue'[1].op = queue[1].op /\ queue'[1].rev = queue[1].rev
        /\ queue'[1].answer = a
    <2>1. queue[1] \in RunCall
      BY <1>2, <1>3
    <2> QED
      BY <1>4, <1>6, <2>1
  <1> QED
    BY <1>5, <1>6, <1>7, Zenon

\* The call that the server works on.
LEMMA HeadIs ==
    ASSUME queue \in Seq(RunCall), queue # <<>>
    PROVE  Head(queue) = queue[1] /\ queue[1] \in RunCall /\ queue[1].rev \in Nat
  <1>1. Head(queue) = queue[1] /\ queue[1] \in RunCall
    OBVIOUS
  <1> QED
    BY <1>1 DEF RunCall

\* A call is sent: the last of the queue.
LEMMA SentIs ==
    ASSUME queue \in Seq(RunCall), NEW c \in RunCall, queue' = Append(queue, c)
    PROVE  /\ queue' \in Seq(RunCall) /\ Len(queue') = Len(queue) + 1
           /\ \A i \in 1..Len(queue) : queue'[i] = queue[i]
           /\ queue'[Len(queue) + 1] = c
  OBVIOUS

\* The page takes the first answer.
LEMMA DoneIs ==
    ASSUME queue \in Seq(RunCall), queue # <<>>, queue' = Tail(queue)
    PROVE  /\ queue' \in Seq(RunCall) /\ Len(queue) # 0 /\ Len(queue') = Len(queue) - 1
           /\ \A i \in 1..Len(queue') : queue'[i] = queue[i + 1]
           /\ Head(queue) = queue[1]
  OBVIOUS

\* The last n entries of a list.
LEMMA NewestAre ==
    ASSUME NEW S, NEW s \in Seq(S), NEW n \in Nat \ {0}
    PROVE  /\ Newest(s, n) \in Seq(S)
           /\ Len(Newest(s, n)) = IF Len(s) > n THEN n ELSE Len(s)
           /\ \A i \in 1..Len(Newest(s, n)) :
                Newest(s, n)[i] = s[Len(s) - Len(Newest(s, n)) + i]
  <1> DEFINE from == IF Len(s) > n THEN Len(s) - n + 1 ELSE 1
             r == SubSeq(s, from, Len(s))
  <1>1. Len(s) \in Nat /\ from \in Nat \ {0} /\ from <= Len(s) + 1
    OBVIOUS
  <1>2. r = Newest(s, n)
    BY DEF Newest
  <1>3. r \in Seq(S) /\ Len(r) = Len(s) - from + 1
    <2> HIDE DEF from
    <2> QED
      BY <1>1
  <1>4. \A i \in 1..Len(r) : r[i] = s[from + i - 1]
    <2> HIDE DEF from
    <2> QED
      BY <1>1, <1>3
  <1>5. from = IF Len(s) > n THEN Len(s) - n + 1 ELSE 1
    OBVIOUS
  <1> HIDE DEF r, from
  <1>6. Len(r) = IF Len(s) > n THEN n ELSE Len(s)
    BY <1>1, <1>3, <1>5
  <1>7. \A i \in 1..Len(r) : from + i - 1 = Len(s) - Len(r) + i
    BY <1>1, <1>3
  <1> QED
    BY <1>2, <1>3, <1>4, <1>6, <1>7, Zenon

\* LogBuffer.push.
LEMMA PushIs ==
    ASSUME NEW s \in RunSession, NEW n \in Nat
    PROVE  LET r == push(s, n)
               added == Append(s.logs, [seq |-> s.seq, line |-> n])
           IN  /\ r \in RunSession /\ r.gen = s.gen /\ r.proc = s.proc /\ r.config = s.config
               /\ r.stale = s.stale /\ r.seq = s.seq + 1
               /\ added \in Seq(RunLine) /\ r.logs \in Seq(RunLine)
               /\ r.logs = Newest(added, MaxLogLines)
  <1> DEFINE e == [seq |-> s.seq, line |-> n]
             added == Append(s.logs, e)
             logs == Newest(added, MaxLogLines)
  <1>1. s.logs \in Seq(RunLine) /\ s.seq \in Nat /\ e \in RunLine
    BY DEF RunSession, RunLine
  <1>2. added \in Seq(RunLine)
    <2> HIDE DEF e
    <2> QED
      BY <1>1
  <1>3. MaxLogLines \in Nat \ {0}
    BY RunAssumption DEF RunBounds
  <1>4. logs \in Seq(RunLine)
    <2> HIDE DEF added
    <2> QED
      BY <1>2, <1>3, NewestAre, Zenon
  <1>5. push(s, n) = [s EXCEPT !.logs = logs, !.seq = @ + 1]
    BY DEF push
  <1> DEFINE next == s.seq + 1
             r == [s EXCEPT !.logs = logs, !.seq = next]
  <1>6. next \in Nat /\ next = s.seq + 1 /\ push(s, n) = r
    BY <1>1, <1>5
  <1> HIDE DEF logs, next
  <1>7. /\ r \in RunSession /\ r.gen = s.gen /\ r.proc = s.proc /\ r.config = s.config
        /\ r.stale = s.stale /\ r.seq = next /\ r.logs = logs
    BY <1>4, <1>6, Zenon DEF RunSession
  <1> HIDE DEF r
  <1> QED
    BY <1>2, <1>4, <1>6, <1>7, Zenon DEF logs

\* A line is pushed: what the buffer and the stream are then.
LEMMA PushedIs ==
    ASSUME RunTypes, NEW s \in RunSession, Pushes(s)
    PROVE  LET e == [seq |-> s.seq, line |-> lines + 1]
           IN  /\ e \in RunLine /\ lines' \in Nat
               /\ session' \in RunSession /\ session'.gen = s.gen /\ session'.proc = s.proc
               /\ session'.config = s.config /\ session'.stale = s.stale
               /\ session'.seq = s.seq + 1
               /\ session'.logs = Newest(Append(s.logs, e), MaxLogLines)
               /\ wire' \in RunWire /\ wire'.open = wire.open /\ wire'.gen = wire.gen
               /\ wire'.carries = IF wire.open /\ wire.gen = s.gen
                                       THEN Append(wire.carries, e) ELSE wire.carries
  <1> DEFINE e == [seq |-> s.seq, line |-> lines + 1]
             added == Append(s.logs, e)
             r == push(s, lines + 1)
  <1>1. lines \in Nat /\ lines + 1 \in Nat /\ wire \in RunWire
    BY DEF RunTypes
  <1>2. e \in RunLine /\ s.logs \in Seq(RunLine) /\ e.seq = s.seq
    BY <1>1 DEF RunLine, RunSession
  <1>3. /\ r \in RunSession /\ r.gen = s.gen /\ r.proc = s.proc /\ r.config = s.config
        /\ r.stale = s.stale /\ r.seq = s.seq + 1 /\ r.logs \in Seq(RunLine)
        /\ r.logs = Newest(added, MaxLogLines)
    BY <1>1, PushIs
  <1>4. session' = r /\ wire' = Notified(r) /\ lines' = lines + 1
    BY Zenon DEF Pushes
  <1>5. MaxLogLines \in Nat \ {0}
    BY RunAssumption DEF RunBounds
  <1> HIDE DEF e, r
  <1>6. /\ added \in Seq(RunLine) /\ Len(added) = Len(s.logs) + 1
        /\ added[Len(s.logs) + 1] = e /\ Len(s.logs) \in Nat
    BY <1>2
  <1> HIDE DEF added
  <1>7. /\ Len(r.logs) = IF Len(added) > MaxLogLines THEN MaxLogLines ELSE Len(added)
        /\ \A i \in 1..Len(r.logs) : r.logs[i] = added[Len(added) - Len(r.logs) + i]
    <2> DEFINE q == Newest(added, MaxLogLines)
    <2>1. /\ Len(q) = IF Len(added) > MaxLogLines THEN MaxLogLines ELSE Len(added)
          /\ \A i \in 1..Len(q) : q[i] = added[Len(added) - Len(q) + i]
      BY <1>5, <1>6, NewestAre, Zenon
    <2>2. r.logs = q
      BY <1>3, Zenon
    <2> HIDE DEF q
    <2> QED
      BY <2>1, <2>2, Zenon
  <1>8. r.logs[Len(r.logs)] = e
    <2>1. Len(r.logs) \in 1..Len(added) /\ Len(r.logs) \in 1..Len(r.logs)
      BY <1>5, <1>6, <1>7
    <2>2. Len(added) - Len(r.logs) + Len(r.logs) = Len(s.logs) + 1
      BY <1>6, <2>1
    <2> QED
      BY <1>6, <1>7, <2>1, <2>2, Zenon
  <1>9. /\ wire' \in RunWire /\ wire'.open = wire.open /\ wire'.gen = wire.gen
        /\ wire'.carries = IF wire.open /\ wire.gen = s.gen
                                THEN Append(wire.carries, e) ELSE wire.carries
    <2>1. wire' = IF wire.open /\ wire.gen = s.gen
                       THEN [wire EXCEPT !.carries = Append(@, e)] ELSE wire
      BY <1>3, <1>4, <1>8, Zenon DEF Notified
    <2> DEFINE c == Append(wire.carries, e)
    <2>2. c \in Seq(RunLine)
      BY <1>1, <1>2 DEF RunWire
    <2>3. wire' = IF wire.open /\ wire.gen = s.gen THEN [wire EXCEPT !.carries = c] ELSE wire
      BY <2>1
    <2> HIDE DEF c
    <2>4. LET w == [wire EXCEPT !.carries = c]
          IN  w \in RunWire /\ w.open = wire.open /\ w.gen = wire.gen /\ w.carries = c
      BY <1>1, <2>2 DEF RunWire
    <2> QED
      BY <1>1, <2>3, <2>4 DEF c
  <1> QED
    BY <1>1, <1>2, <1>3, <1>4, <1>9, Zenon DEF e, added

-----------------------------------------------------------------------------
(* What the steps of the server do.                                        *)

\* Everything of the page but the queue.
PageSame == UNCHANGED <<doc, tab, cleared>>

\* The session of s but for its process, its configuration and its buffer.
Session(s, p, c, logs, stale) ==
    /\ s \in RunSession /\ s.gen = session.gen /\ s.seq = session.seq
    /\ s.proc = p /\ s.config = c /\ s.logs = logs /\ s.stale = stale

\* A start: the buffer is emptied, and a process writes its first line; or it fails.
LEMMA StartIs ==
    ASSUME RunTypes, start
    PROVE  /\ queue # <<>> /\ queue[1].op = "start" /\ queue[1].answer = "none" /\ PageSame
           /\ \/ /\ Answer("ok") /\ runs' = runs + 1
                 /\ \E s : Session(s, runs + 1, queue[1].rev, <<>>, FALSE) /\ Pushes(s)
              \/ /\ Answer("failed") /\ UNCHANGED <<wire, lines, runs>>
                 /\ Session(session', 0, 0, <<>>, FALSE)
  <1> DEFINE fresh == reset([session EXCEPT !.proc = 0, !.config = 0, !.stale = FALSE])
             started == [fresh EXCEPT !.proc = runs + 1, !.config = Head(queue).rev]
  <1>1. /\ queue \in Seq(RunCall) /\ session \in RunSession /\ runs \in Nat
    BY DEF RunTypes
  <1>2. /\ queue # <<>> /\ Head(queue).op = "start" /\ Head(queue).answer = "none" /\ PageSame
        /\ \/ runs' = runs + 1 /\ Pushes(started) /\ Answer("ok")
           \/ session' = fresh /\ Answer("failed") /\ UNCHANGED <<wire, lines, runs>>
    BY Zenon DEF start, Executes, PageSame
  <1>3. Head(queue) = queue[1] /\ queue[1].rev \in Nat
    BY <1>1, <1>2, HeadIs, Zenon
  <1>4. Session(fresh, 0, 0, <<>>, FALSE)
    <2> DEFINE a == [session EXCEPT !.proc = 0, !.config = 0, !.stale = FALSE]
    <2>1. Session(a, 0, 0, session.logs, FALSE)
      BY <1>1, Zenon DEF Session, RunSession
    <2>2. fresh = [a EXCEPT !.logs = <<>>] /\ <<>> \in Seq(RunLine)
      BY DEF reset
    <2> HIDE DEF a, fresh
    <2> QED
      BY <2>1, <2>2, Zenon DEF Session, RunSession
  <1> DEFINE n == runs + 1
             c == Head(queue).rev
  <1>5. n \in Nat /\ c \in Nat /\ n = runs + 1 /\ c = queue[1].rev
        /\ started = [fresh EXCEPT !.proc = n, !.config = c]
    BY <1>1, <1>3
  <1> HIDE DEF fresh, n, c
  <1>6. Session([fresh EXCEPT !.proc = n, !.config = c], n, c, <<>>, FALSE)
    BY <1>4, <1>5, Zenon DEF Session, RunSession
  <1> HIDE DEF started
  <1> QED
    BY <1>2, <1>3, <1>4, <1>5, <1>6, Zenon

\* A stop.
LEMMA StopIs ==
    ASSUME RunTypes, stop
    PROVE  /\ queue # <<>> /\ queue[1].op = "stop" /\ queue[1].answer = "none" /\ PageSame
           /\ Answer("ok") /\ UNCHANGED <<wire, lines, runs>>
           /\ Session(session', 0, 0, session.logs, session.stale)
  <1>1. /\ queue # <<>> /\ Head(queue).op = "stop" /\ Head(queue).answer = "none" /\ PageSame
        /\ Answer("ok") /\ UNCHANGED <<wire, lines, runs>>
        /\ session' = [session EXCEPT !.proc = 0, !.config = 0]
    BY Zenon DEF stop, Executes, PageSame
  <1>2. Head(queue) = queue[1]
    BY <1>1 DEF RunTypes
  <1>3. Session(session', 0, 0, session.logs, session.stale)
    BY <1>1, Zenon DEF Session, RunSession, RunTypes
  <1> QED
    BY <1>1, <1>2, <1>3, Zenon

\* A sync: nothing without a process, or the config is written, or the write fails.
LEMMA SyncIs ==
    ASSUME RunTypes, sync
    PROVE  /\ queue # <<>> /\ queue[1].op = "sync" /\ queue[1].answer = "none" /\ PageSame
           /\ UNCHANGED <<wire, lines, runs>>
           /\ \/ session.proc = 0 /\ Answer("ok") /\ session' = session
              \/ /\ Answer("ok")
                 /\ Session(session', session.proc, queue[1].rev, session.logs, FALSE)
              \/ /\ Answer("failed")
                 /\ Session(session', session.proc, session.config, session.logs, TRUE)
  <1> DEFINE c == Head(queue).rev
  <1>1. /\ queue # <<>> /\ Head(queue).op = "sync" /\ Head(queue).answer = "none" /\ PageSame
        /\ UNCHANGED <<wire, lines, runs>>
        /\ \/ session.proc = 0 /\ Answer("ok") /\ session' = session
           \/ Answer("ok") /\ session' = [session EXCEPT !.config = c, !.stale = FALSE]
           \/ Answer("failed") /\ session' = [session EXCEPT !.stale = TRUE]
    BY Zenon DEF sync, Executes, PageSame
  <1>2. Head(queue) = queue[1] /\ c = queue[1].rev /\ c \in Nat
    BY <1>1, HeadIs, Zenon DEF RunTypes
  <1> HIDE DEF c
  <1>3. ASSUME session' = [session EXCEPT !.config = c, !.stale = FALSE]
        PROVE  Session(session', session.proc, c, session.logs, FALSE)
    BY <1>2, <1>3, Zenon DEF Session, RunSession, RunTypes
  <1>4. ASSUME session' = [session EXCEPT !.stale = TRUE]
        PROVE  Session(session', session.proc, session.config, session.logs, TRUE)
    BY <1>4, Zenon DEF Session, RunSession, RunTypes
  <1> QED
    BY <1>1, <1>2, <1>3, <1>4, Zenon

\* A call that fails; a failed sync leaves the config stale.
LEMMA FailIs ==
    ASSUME RunTypes, CallFails
    PROVE  /\ queue # <<>> /\ PageSame
           /\ Answer("failed") /\ UNCHANGED <<wire, lines, runs>>
           /\ \E b \in BOOLEAN :
                /\ Session(session', session.proc, session.config, session.logs, b)
                /\ b = (session.stale \/ queue[1].op = "sync")
  <1> DEFINE b == session.stale \/ Head(queue).op = "sync"
  <1>1. /\ queue # <<>> /\ PageSame /\ Answer("failed") /\ UNCHANGED <<wire, lines, runs>>
        /\ session' = [session EXCEPT !.stale = b]
    BY Zenon DEF CallFails, PageSame
  <1>2. Head(queue) = queue[1]
    BY <1>1 DEF RunTypes
  <1>3. b \in BOOLEAN
    OBVIOUS
  <1>4. b = (session.stale \/ queue[1].op = "sync")
    BY <1>2, Zenon
  <1> HIDE DEF b
  <1>5. Session(session', session.proc, session.config, session.logs, b)
    BY <1>1, <1>3 DEF Session, RunSession, RunTypes
  <1> QED
    BY <1>1, <1>3, <1>4, <1>5, Zenon

\* A line of the runner, the last one perhaps.
LEMMA PipeIs ==
    ASSUME RunTypes, pipe
    PROVE  /\ PageSame /\ UNCHANGED <<queue, runs>>
           /\ \E s, p : /\ p = 0 \/ p = session.proc
                        /\ Session(s, p, session.config, session.logs, session.stale)
                        /\ Pushes(s)
  <1>1. /\ PageSame /\ UNCHANGED <<queue, runs>>
        /\ Pushes(session) \/ Pushes([session EXCEPT !.proc = 0])
    BY Zenon DEF pipe, PageSame
  <1>2. Session(session, session.proc, session.config, session.logs, session.stale)
    BY Zenon DEF Session, RunTypes
  <1>3. Session([session EXCEPT !.proc = 0], 0, session.config, session.logs, session.stale)
    BY DEF Session, RunTypes, RunSession
  <1> QED
    BY <1>1, <1>2, <1>3, Zenon

\* A status call.
LEMMA StatusIs ==
    ASSUME RunTypes, Status
    PROVE  /\ queue # <<>> /\ queue[1].op = "status" /\ PageSame
           /\ \E a \in {"running", "ok"} : Answer(a)
           /\ UNCHANGED <<session, wire, lines, runs>>
  <1>1. /\ queue # <<>> /\ Head(queue).op = "status" /\ PageSame
        /\ Answer(IF session.proc # 0 THEN "running" ELSE "ok")
        /\ UNCHANGED <<session, wire, lines, runs>>
    BY Zenon DEF Status, Executes, PageSame
  <1>2. Head(queue) = queue[1]
    BY <1>1, HeadIs, Zenon DEF RunTypes
  <1> QED
    BY <1>1, <1>2, Zenon

\* The reaper leaves a session of another generation.
LEMMA ReapIs ==
    ASSUME RunTypes, reapIdle
    PROVE  /\ PageSame /\ UNCHANGED <<queue, wire, lines, runs>>
           /\ queue = <<>> /\ session' \in RunSession /\ session'.gen # 0
           /\ session'.proc = 0 /\ session'.logs = <<>> /\ session'.seq = 1
  <1>1. /\ PageSame /\ UNCHANGED <<queue, wire, lines, runs>> /\ queue = <<>>
        /\ session' = NewSession(session.gen + 1)
    BY Zenon DEF reapIdle, PageSame
  <1> DEFINE g == session.gen + 1
  <1>2. g \in Nat \ {0} /\ <<>> \in Seq(RunLine)
    BY DEF RunTypes, RunSession
  <1> HIDE DEF g
  <1>3. LET r == NewSession(g)
        IN  r \in RunSession /\ r.gen = g /\ r.proc = 0 /\ r.logs = <<>> /\ r.seq = 1
    BY <1>2 DEF NewSession, RunSession
  <1> QED
    BY <1>1, <1>2, <1>3, Zenon DEF g

-----------------------------------------------------------------------------
(* What the steps of the stream and of the page do.                        *)

Wire(w, open, gen, carries) ==
    w \in RunWire /\ w.open = open /\ w.gen = gen /\ w.carries = carries

\* A closed stream.
LEMMA NoStreamIs == Wire(NoStream, FALSE, 0, <<>>)
  <1>1. <<>> \in Seq(RunLine)
    OBVIOUS
  <1> QED
    BY <1>1 DEF Wire, RunWire, NoStream

\* A connection replays the buffer.
LEMMA ConnectIs ==
    ASSUME RunTypes, Connect
    PROVE  /\ tab.stream /\ ~wire.open
           /\ PageSame /\ UNCHANGED <<queue, session, lines, runs>>
           /\ Wire(wire', TRUE, session.gen, session.logs)
  <1>1. /\ tab.stream /\ ~wire.open
        /\ PageSame /\ UNCHANGED <<queue, session, lines, runs>>
        /\ wire' = [open |-> TRUE, gen |-> session.gen, carries |-> session.logs]
    BY Zenon DEF Connect, PageSame
  <1>2. session.gen \in Nat /\ session.logs \in Seq(RunLine)
    BY DEF RunTypes, RunSession
  <1>3. Wire(wire', TRUE, session.gen, session.logs)
    BY <1>1, <1>2 DEF Wire, RunWire
  <1> QED
    BY <1>1, <1>3, Zenon

\* The stream breaks.
LEMMA DropIs ==
    ASSUME RunTypes, DropStream
    PROVE  /\ PageSame /\ UNCHANGED <<queue, session, lines, runs>>
           /\ Wire(wire', FALSE, 0, <<>>)
  BY NoStreamIs, Zenon DEF DropStream, PageSame

\* The fields of RunProvider's state.
Tab(available, running, busy, logs, lastSeq, lastYaml, timer, stream) ==
    /\ tab' \in RunTab
    /\ tab'.available = available /\ tab'.running = running /\ tab'.busy = busy
    /\ tab'.logs = logs /\ tab'.lastSeq = lastSeq /\ tab'.lastYaml = lastYaml
    /\ tab'.timer = timer /\ tab'.stream = stream

\* A line reaches the panel: shown already, or the newest.
LEMMA LineIs ==
    ASSUME RunTypes, onLine
    PROVE  /\ wire.carries # <<>> /\ wire.carries[1] \in RunLine
           /\ Wire(wire', wire.open, wire.gen, Tail(wire.carries))
           /\ UNCHANGED <<doc, queue, session, cleared, lines, runs>>
           /\ \/ wire.carries[1].seq <= tab.lastSeq /\ tab' = tab
              \/ /\ ~(wire.carries[1].seq <= tab.lastSeq)
                 /\ Tab(tab.available, tab.running, tab.busy,
                        Newest(Append(tab.logs, wire.carries[1].line), MaxClientLogs),
                        wire.carries[1].seq, tab.lastYaml, tab.timer, tab.stream)
  <1> DEFINE l == Head(wire.carries)
             rest == Tail(wire.carries)
             logs == Newest(Append(tab.logs, l.line), MaxClientLogs)
  <1>1. /\ wire.carries # <<>>
        /\ UNCHANGED <<doc, queue, session, cleared, lines, runs>>
        /\ wire' = [wire EXCEPT !.carries = rest]
        /\ tab' = IF l.seq <= tab.lastSeq THEN tab
                     ELSE [tab EXCEPT !.lastSeq = l.seq, !.logs = logs]
    BY Zenon DEF onLine
  <1>2. wire \in RunWire /\ tab \in RunTab
    BY Zenon DEF RunTypes
  <1>3. wire.carries \in Seq(RunLine) /\ tab.logs \in Seq(Nat)
    BY <1>2 DEF RunWire, RunTab
  <1>4. l = wire.carries[1] /\ l \in RunLine /\ rest \in Seq(RunLine)
    BY <1>1, <1>3
  <1>5. l.line \in Nat /\ l.seq \in Nat
    BY <1>4 DEF RunLine
  <1>6. logs \in Seq(Nat)
    <2>1. MaxClientLogs \in Nat \ {0}
      BY RunAssumption DEF RunBounds
    <2>2. Append(tab.logs, l.line) \in Seq(Nat)
      BY <1>3, <1>5
    <2> QED
      BY <2>1, <2>2, NewestAre, Zenon
  <1>7. logs = Newest(Append(tab.logs, wire.carries[1].line), MaxClientLogs)
    BY <1>4, Zenon
  <1> HIDE DEF l, rest, logs
  <1>8. Wire(wire', wire.open, wire.gen, rest)
    BY <1>1, <1>2, <1>4 DEF Wire, RunWire
  <1>9. ASSUME tab' = [tab EXCEPT !.lastSeq = l.seq, !.logs = logs]
        PROVE  Tab(tab.available, tab.running, tab.busy, logs, l.seq, tab.lastYaml,
                   tab.timer, tab.stream)
    BY <1>2, <1>5, <1>6, <1>9, Zenon DEF Tab, RunTab
  <1> QED
    BY <1>1, <1>4, <1>7, <1>8, <1>9, Zenon DEF rest

\* The user clears the panel.
LEMMA ClearIs ==
    ASSUME RunTypes, ClearClick
    PROVE  /\ UNCHANGED <<doc, queue, session, wire, lines, runs>>
           /\ cleared' = cleared \cup {tab.logs[k] : k \in DOMAIN tab.logs}
           /\ Tab(tab.available, tab.running, tab.busy, <<>>, tab.lastSeq,
                  tab.lastYaml, tab.timer, tab.stream)
  <1>1. /\ UNCHANGED <<doc, queue, session, wire, lines, runs>>
        /\ cleared' = cleared \cup {tab.logs[k] : k \in DOMAIN tab.logs}
        /\ tab' = [tab EXCEPT !.logs = <<>>]
    BY Zenon DEF ClearClick, clearLogs, Range
  <1>2. tab \in RunTab /\ <<>> \in Seq(Nat)
    BY DEF RunTypes
  <1>3. Tab(tab.available, tab.running, tab.busy, <<>>, tab.lastSeq, tab.lastYaml,
            tab.timer, tab.stream)
    BY <1>1, <1>2, Zenon DEF Tab, RunTab
  <1> QED
    BY <1>1, <1>3, Zenon

\* An edit sets or clears the debounce.
LEMMA EditIs ==
    ASSUME RunTypes, Edit
    PROVE  /\ doc' \in [rev : Nat \ {0}, valid : BOOLEAN]
           /\ UNCHANGED <<queue, session, wire, cleared, lines, runs>>
           /\ Tab(tab.available, tab.running, tab.busy, tab.logs, tab.lastSeq,
                  tab.lastYaml, Due(tab.running, doc', tab.lastYaml), tab.stream)
  <1> DEFINE t == Due(tab.running, doc', tab.lastYaml)
  <1>1. /\ UNCHANGED <<queue, session, wire, cleared, lines, runs>>
        /\ \E ok \in BOOLEAN : doc' = [rev |-> doc.rev + 1, valid |-> ok]
        /\ tab' = [tab EXCEPT !.timer = t]
    BY Zenon DEF Edit, Debounce, Due
  <1>2. tab \in RunTab /\ doc.rev + 1 \in Nat \ {0}
    BY DEF RunTypes
  <1>3. doc' \in [rev : Nat \ {0}, valid : BOOLEAN]
    BY <1>1, <1>2
  <1>4. t \in Nat
    BY <1>3 DEF Due
  <1> HIDE DEF t
  <1>5. Tab(tab.available, tab.running, tab.busy, tab.logs, tab.lastSeq,
            tab.lastYaml, t, tab.stream)
    BY <1>1, <1>2, <1>4, Zenon DEF Tab, RunTab
  <1> QED
    BY <1>1, <1>3, <1>5, Zenon DEF t

\* A call is sent.
Sends(c, op) == c \in RunCall /\ c.op = op /\ c.answer = "none" /\ queue' = Append(queue, c)

\* The debounce fires: a sync with the document of then.
LEMMA TimerIs ==
    ASSUME RunTypes, TimerFires
    PROVE  /\ tab.timer # 0
           /\ UNCHANGED <<doc, session, wire, cleared, lines, runs>>
           /\ \E c : Sends(c, "sync") /\ c.rev = tab.timer
           /\ Tab(tab.available, tab.running, tab.busy, tab.logs, tab.lastSeq,
                  tab.timer, 0, tab.stream)
  <1> DEFINE c == Call("sync", tab.timer)
  <1>1. /\ UNCHANGED <<doc, session, wire, cleared, lines, runs>>
        /\ tab.timer # 0 /\ queue' = Append(queue, c)
        /\ tab' = [tab EXCEPT !.timer = 0, !.lastYaml = tab.timer]
    BY Zenon DEF TimerFires
  <1>2. tab \in RunTab /\ tab.timer \in Nat
    BY DEF RunTypes, RunTab
  <1>3. c \in RunCall /\ c.op = "sync" /\ c.answer = "none" /\ c.rev = tab.timer
    BY <1>2 DEF RunCall, Call
  <1> HIDE DEF c
  <1>4. Tab(tab.available, tab.running, tab.busy, tab.logs, tab.lastSeq,
            tab.timer, 0, tab.stream)
    BY <1>1, <1>2, Zenon DEF Tab, RunTab
  <1> QED
    BY <1>1, <1>3, <1>4, Zenon DEF Sends

\* RUN or STOP is clicked.
LEMMA ClickIs ==
    ASSUME RunTypes, StartClick \/ StopClick
    PROVE  /\ tab.available /\ ~tab.busy
           /\ UNCHANGED <<doc, session, wire, cleared, lines, runs>>
           /\ \/ ~tab.running /\ \E c : Sends(c, "start")
              \/ tab.running /\ \E c : Sends(c, "stop")
           /\ Tab(tab.available, tab.running, TRUE, tab.logs, tab.lastSeq,
                  tab.lastYaml, tab.timer, tab.stream)
  <1> DEFINE c == Call("start", doc.rev)
             d == Call("stop", 0)
  <1>1. /\ UNCHANGED <<doc, session, wire, cleared, lines, runs>>
        /\ tab.available /\ ~tab.busy
        /\ \/ ~tab.running /\ queue' = Append(queue, c)
           \/ tab.running /\ queue' = Append(queue, d)
        /\ tab' = [tab EXCEPT !.busy = TRUE, !.error = FALSE]
    BY Zenon DEF StartClick, StopClick
  <1>2. tab \in RunTab /\ doc.rev \in Nat
    BY DEF RunTypes
  <1>3. /\ c \in RunCall /\ c.op = "start" /\ c.answer = "none"
        /\ d \in RunCall /\ d.op = "stop" /\ d.answer = "none"
    BY <1>2 DEF RunCall, Call
  <1> HIDE DEF c, d
  <1>4. Tab(tab.available, tab.running, TRUE, tab.logs, tab.lastSeq, tab.lastYaml,
            tab.timer, tab.stream)
    BY <1>1, <1>2, Zenon DEF Tab, RunTab
  <1> QED
    BY <1>1, <1>3, <1>4, Zenon DEF Sends

\* The first call is answered.
Done(op) ==
    /\ queue # <<>> /\ queue[1].op = op /\ queue[1].answer # "none"
    /\ queue' = Tail(queue)

\* The answer of the status call attaches the page, or not.
LEMMA StatusReplyIs ==
    ASSUME RunTypes, StatusReply
    PROVE  /\ Done("status") /\ UNCHANGED <<doc, session, wire, cleared, lines, runs>>
           /\ \/ tab' = tab
              \/ \E run \in BOOLEAN :
                   Tab(TRUE, run, tab.busy, tab.logs, tab.lastSeq, tab.lastYaml,
                       Due(run, doc, tab.lastYaml), run)
  <1> DEFINE run == Head(queue).answer = "running"
             one == [tab EXCEPT !.available = TRUE, !.running = run, !.stream = run]
  <1>1. /\ queue # <<>> /\ Head(queue).op = "status" /\ Head(queue).answer # "none"
        /\ queue' = Tail(queue)
        /\ UNCHANGED <<doc, session, wire, cleared, lines, runs>>
        /\ tab' = tab \/ tab' = Debounce(one, doc)
    BY Zenon DEF StatusReply, Answered
  <1>2. Head(queue) = queue[1] /\ run \in BOOLEAN /\ tab \in RunTab /\ doc.rev \in Nat
    BY <1>1, HeadIs DEF RunTypes
  <1> HIDE DEF run
  <1>3. /\ one \in RunTab /\ one.available = TRUE /\ one.running = run /\ one.busy = tab.busy
        /\ one.logs = tab.logs /\ one.lastSeq = tab.lastSeq /\ one.lastYaml = tab.lastYaml
        /\ one.stream = run
    BY <1>2, Zenon DEF RunTab
  <1> HIDE DEF one
  <1> DEFINE t == Due(run, doc, tab.lastYaml)
  <1>4. t \in Nat /\ Debounce(one, doc) = [one EXCEPT !.timer = t]
    BY <1>2, <1>3 DEF Due, Debounce
  <1> HIDE DEF t
  <1>5. ASSUME tab' = [one EXCEPT !.timer = t]
        PROVE  Tab(TRUE, run, tab.busy, tab.logs, tab.lastSeq, tab.lastYaml, t, run)
    BY <1>3, <1>4, <1>5, Zenon DEF Tab, RunTab
  <1> QED
    BY <1>1, <1>2, <1>4, <1>5, Zenon DEF Done, t

\* The answer of a start: the page runs with what it sent, or shows an error.
LEMMA StartReplyIs ==
    ASSUME RunTypes, StartReply
    PROVE  /\ Done("start") /\ UNCHANGED <<doc, session, wire, cleared, lines, runs>>
           /\ \/ /\ queue[1].answer # "failed"
                 /\ Tab(tab.available, TRUE, FALSE, <<>>, tab.lastSeq, queue[1].rev,
                        Due(TRUE, doc, queue[1].rev), TRUE)
              \/ Tab(tab.available, tab.running, FALSE, tab.logs, tab.lastSeq,
                     tab.lastYaml, tab.timer, tab.stream)
  <1> DEFINE c == Head(queue).rev
             one == [tab EXCEPT !.busy = FALSE, !.running = TRUE, !.logs = <<>>, !.lastYaml = c,
                                   !.stream = TRUE]
             two == [tab EXCEPT !.busy = FALSE, !.error = TRUE]
  <1>1. /\ queue # <<>> /\ Head(queue).op = "start" /\ Head(queue).answer # "none"
        /\ queue' = Tail(queue)
        /\ UNCHANGED <<doc, session, wire, cleared, lines, runs>>
        /\ \/ Head(queue).answer # "failed" /\ tab' = Debounce(one, doc)
           \/ tab' = two
    BY Zenon DEF StartReply, Answered, Ok
  <1>2. /\ Head(queue) = queue[1] /\ c = queue[1].rev /\ c \in Nat
        /\ tab \in RunTab /\ doc.rev \in Nat /\ <<>> \in Seq(Nat)
    BY <1>1, HeadIs DEF RunTypes
  <1> HIDE DEF c
  <1>3. /\ one \in RunTab /\ one.available = tab.available /\ one.running = TRUE /\ one.busy = FALSE
        /\ one.logs = <<>> /\ one.lastSeq = tab.lastSeq /\ one.lastYaml = c /\ one.stream = TRUE
    BY <1>2, Zenon DEF RunTab
  <1>4. ASSUME tab' = two
        PROVE  Tab(tab.available, tab.running, FALSE, tab.logs, tab.lastSeq,
                   tab.lastYaml, tab.timer, tab.stream)
    BY <1>2, <1>4, Zenon DEF Tab, RunTab
  <1> HIDE DEF one, two
  <1> DEFINE t == Due(TRUE, doc, c)
  <1>5. t \in Nat /\ Debounce(one, doc) = [one EXCEPT !.timer = t]
    BY <1>2, <1>3 DEF Due, Debounce
  <1> HIDE DEF t
  <1>6. ASSUME tab' = [one EXCEPT !.timer = t]
        PROVE  Tab(tab.available, TRUE, FALSE, <<>>, tab.lastSeq, c, t, TRUE)
    BY <1>3, <1>5, <1>6 DEF Tab, RunTab
  <1> QED
    BY <1>1, <1>2, <1>4, <1>5, <1>6, Zenon DEF Done, t

\* The answer of a stop closes the stream.
LEMMA StopReplyIs ==
    ASSUME RunTypes, StopReply
    PROVE  /\ Done("stop") /\ UNCHANGED <<doc, session, cleared, lines, runs>>
           /\ Wire(wire', FALSE, 0, <<>>)
           /\ Tab(tab.available, FALSE, FALSE, tab.logs, tab.lastSeq, tab.lastYaml, 0, FALSE)
  <1> DEFINE b == ~Ok
  <1>1. /\ queue # <<>> /\ Head(queue).op = "stop" /\ Head(queue).answer # "none"
        /\ queue' = Tail(queue)
        /\ UNCHANGED <<doc, session, cleared, lines, runs>>
        /\ wire' = NoStream
        /\ tab' = [tab EXCEPT !.busy = FALSE, !.running = FALSE, !.timer = 0, !.stream = FALSE,
                                    !.error = b]
    BY Zenon DEF StopReply, Answered
  <1>2. Head(queue) = queue[1] /\ tab \in RunTab /\ b \in BOOLEAN
    BY <1>1, HeadIs DEF RunTypes
  <1> HIDE DEF b
  <1>3. Tab(tab.available, FALSE, FALSE, tab.logs, tab.lastSeq, tab.lastYaml, 0, FALSE)
    BY <1>1, <1>2, Zenon DEF Tab, RunTab
  <1> QED
    BY <1>1, <1>2, <1>3, NoStreamIs, Zenon DEF Done

\* The answer of a sync.
LEMMA SyncReplyIs ==
    ASSUME RunTypes, SyncReply
    PROVE  Done("sync") /\ PageSame /\ UNCHANGED <<session, wire, lines, runs>>
  <1>1. /\ queue # <<>> /\ Head(queue).op = "sync" /\ Head(queue).answer # "none"
        /\ queue' = Tail(queue)
        /\ PageSame /\ UNCHANGED <<session, wire, lines, runs>>
    BY Zenon DEF SyncReply, Answered, PageSame
  <1>2. Head(queue) = queue[1]
    BY <1>1, HeadIs, Zenon DEF RunTypes
  <1> QED
    BY <1>1, <1>2, Zenon DEF Done

\* The page is loaded again.
LEMMA ReloadIs ==
    ASSUME RunTypes, Reload
    PROVE  /\ UNCHANGED <<doc, session, lines, runs>> /\ Wire(wire', FALSE, 0, <<>>)
           /\ queue = <<>> /\ \E c : Sends(c, "status")
           /\ Tab(FALSE, FALSE, FALSE, <<>>, 0, 0, 0, FALSE)
  <1> DEFINE c == Call("status", 0)
  <1>1. /\ UNCHANGED <<doc, session, lines, runs>> /\ wire' = NoStream
        /\ queue = <<>> /\ queue' = <<c>> /\ tab' = NewTab
    BY Zenon DEF Reload
  <1>2. c \in RunCall /\ c.op = "status" /\ c.answer = "none"
    BY DEF RunCall, Call
  <1>3. <<>> \in Seq(Nat)
    OBVIOUS
  <1>4. Tab(FALSE, FALSE, FALSE, <<>>, 0, 0, 0, FALSE)
    BY <1>1, <1>3 DEF Tab, RunTab, NewTab
  <1> HIDE DEF c
  <1>5. queue' = Append(queue, c)
    BY <1>1, <1>2
  <1> QED
    BY <1>1, <1>2, <1>4, <1>5, NoStreamIs, Zenon DEF Sends

-----------------------------------------------------------------------------
(* The queue and the buttons.                                              *)

\* CallsInv of one call.
LEMMA CallAt ==
    ASSUME RunTypes, CallsInv, NEW i \in 1..Len(queue)
    PROVE  /\ i # 1 => queue[i].answer = "none"
           /\ queue[i].op = "status" => Len(queue) = 1 /\ Fresh
           /\ queue[i].op = "start" =>
                i = Len(queue) /\ tab.busy /\ ~tab.running /\ queue[i].answer # "running"
           /\ queue[i].op = "stop" =>
                /\ tab.busy /\ tab.running
                /\ \A j \in 1..Len(queue) : j # i => queue[j].op = "sync"
  <1>1. DOMAIN queue = 1..Len(queue)
    BY DEF RunTypes
  <1> QED
    BY <1>1, Zenon DEF CallsInv, IsSync

\* Nothing of the queue changes, nor of the buttons.
LEMMA CallsSame ==
    ASSUME CallsInv, queue' = queue, tab'.running = tab.running,
           tab'.busy = tab.busy, Fresh => Fresh'
    PROVE  CallsInv'
  BY Zenon DEF CallsInv

\* The first call gets an answer.
LEMMA CallsAnswered ==
    ASSUME RunTypes, CallsInv, queue # <<>>, NEW a \in RunAnswers, Answer(a),
           a = "running" => queue[1].op # "start", tab' = tab
    PROVE  CallsInv'
  <1>1. /\ queue \in Seq(RunCall) /\ DOMAIN queue = 1..Len(queue)
    BY DEF RunTypes
  <1>2. /\ queue' \in Seq(RunCall) /\ Len(queue') = Len(queue)
        /\ \A i \in 1..Len(queue) :
             /\ queue'[i].op = queue[i].op /\ queue'[i].rev = queue[i].rev
             /\ queue'[i].answer = IF i = 1 THEN a ELSE queue[i].answer
    BY <1>1, AnswerIs, Zenon
  <1>3. DOMAIN queue' = 1..Len(queue)
    BY <1>2
  <1>4. Fresh => Fresh'
    BY Zenon DEF Fresh
  <1>5. ASSUME NEW i \in 1..Len(queue)
        PROVE  /\ i # 1 => queue'[i].answer = "none"
               /\ queue'[i].op = "status" => Len(queue') = 1 /\ Fresh'
               /\ queue'[i].op = "start" =>
                    /\ i = Len(queue') /\ tab'.busy /\ ~tab'.running
                    /\ queue'[i].answer # "running"
               /\ queue'[i].op = "stop" =>
                    /\ tab'.busy /\ tab'.running
                    /\ \A j \in 1..Len(queue) : j # i => queue'[j].op = "sync"
    <2>1. /\ i # 1 => queue[i].answer = "none"
          /\ queue[i].op = "status" => Len(queue) = 1 /\ Fresh
          /\ queue[i].op = "start" =>
               i = Len(queue) /\ tab.busy /\ ~tab.running /\ queue[i].answer # "running"
          /\ queue[i].op = "stop" =>
               /\ tab.busy /\ tab.running
               /\ \A j \in 1..Len(queue) : j # i => queue[j].op = "sync"
      BY CallAt, Zenon
    <2>2. /\ queue'[i].op = queue[i].op /\ Len(queue') = Len(queue)
          /\ i # 1 => queue'[i].answer = queue[i].answer
          /\ i = 1 => queue'[i].answer = a
      BY <1>2
    <2>3. \A j \in 1..Len(queue) : queue'[j].op = queue[j].op
      BY <1>2, Zenon
    <2> QED
      BY <1>4, <2>1, <2>2, <2>3, Zenon
  <1> QED
    BY <1>3, <1>5, Zenon DEF CallsInv, IsSync

\* A call is sent in a state in which its button or the debounce allows it.
LEMMA CallsSent ==
    ASSUME RunTypes, CallsInv, NEW c, NEW op \in {"status", "start", "stop", "sync"}, Sends(c, op),
           \A i \in 1..Len(queue) : queue[i].op \notin {"status", "start"},
           op # "sync" => \A i \in 1..Len(queue) : queue[i].op = "sync",
           op = "sync" => tab'.busy = tab.busy /\ tab'.running = tab.running,
           op = "start" => tab'.busy /\ ~tab'.running,
           op = "stop" => tab'.busy /\ tab'.running,
           op = "status" => queue = <<>> /\ Fresh'
    PROVE  CallsInv'
  <1>1. /\ queue \in Seq(RunCall) /\ DOMAIN queue = 1..Len(queue) /\ Len(queue) \in Nat
    BY DEF RunTypes
  <1>2. c \in RunCall /\ c.op = op /\ c.answer = "none" /\ queue' = Append(queue, c)
    BY Zenon DEF Sends
  <1>3. /\ queue' \in Seq(RunCall) /\ Len(queue') = Len(queue) + 1
        /\ \A i \in 1..Len(queue) : queue'[i] = queue[i]
        /\ queue'[Len(queue) + 1] = c
    BY <1>1, <1>2, SentIs, Zenon
  <1>4. DOMAIN queue' = 1..Len(queue) \cup {Len(queue) + 1} /\ Len(queue) + 1 \notin 1..Len(queue)
    BY <1>1, <1>3
  <1>5. queue = <<>> => Len(queue') = 1
    BY <1>3
  <1>6. ASSUME NEW i \in 1..Len(queue)
        PROVE  /\ i # 1 => queue'[i].answer = "none"
               /\ queue'[i].op \notin {"status", "start"}
               /\ queue'[i].op = "stop" =>
                    /\ tab'.busy /\ tab'.running
                    /\ \A j \in DOMAIN queue' : j # i => queue'[j].op = "sync"
    <2>1. /\ i # 1 => queue'[i].answer = "none"
          /\ queue'[i].op \notin {"status", "start"}
      BY <1>1, <1>3, Zenon DEF CallsInv
    <2>2. ASSUME queue[i].op = "stop"
          PROVE  /\ tab'.busy /\ tab'.running
                 /\ \A j \in DOMAIN queue' : j # i => queue'[j].op = "sync"
      <3>1. op = "sync"
        BY <2>2, Zenon
      <3>2. tab.busy /\ tab.running /\ \A j \in 1..Len(queue) : j # i => queue[j].op = "sync"
        BY <1>1, <2>2, Zenon DEF CallsInv, IsSync
      <3> QED
        BY <1>2, <1>3, <1>4, <3>1, <3>2, Zenon
    <2> QED
      BY <1>3, <2>1, <2>2, Zenon
  <1>7. LET i == Len(queue) + 1 IN
               /\ queue'[i].answer = "none"
               /\ queue'[i].op = "status" => Len(queue') = 1 /\ Fresh'
               /\ queue'[i].op = "start" => i = Len(queue') /\ tab'.busy /\ ~tab'.running
               /\ queue'[i].op = "stop" =>
                    /\ tab'.busy /\ tab'.running
                    /\ \A j \in DOMAIN queue' : j # i => queue'[j].op = "sync"
    BY <1>2, <1>3, <1>4, <1>5, Zenon
  <1>8. ASSUME NEW i \in DOMAIN queue'
        PROVE  /\ i # 1 => queue'[i].answer = "none"
               /\ queue'[i].op = "status" => Len(queue') = 1 /\ Fresh'
               /\ queue'[i].op = "start" =>
                    /\ i = Len(queue') /\ tab'.busy /\ ~tab'.running
                    /\ queue'[i].answer # "running"
               /\ queue'[i].op = "stop" =>
                    /\ tab'.busy /\ tab'.running
                    /\ \A j \in DOMAIN queue' : j # i => queue'[j].op = "sync"
    <2>1. CASE i \in 1..Len(queue)
      BY <1>6, <2>1, Zenon
    <2>2. CASE i = Len(queue) + 1
      BY <1>7, <2>2, Zenon
    <2> QED
      BY <1>4, <2>1, <2>2, Zenon
  <1> QED
    BY <1>8, Zenon DEF CallsInv, IsSync

\* The page takes the first answer, and its buttons follow.
LEMMA CallsDone ==
    ASSUME RunTypes, CallsInv, NEW op, Done(op), op = "sync" => tab' = tab
    PROVE  CallsInv'
  <1>1. /\ queue \in Seq(RunCall) /\ DOMAIN queue = 1..Len(queue) /\ Len(queue) \in Nat
    BY DEF RunTypes
  <1>2. queue # <<>> /\ queue[1].op = op /\ queue' = Tail(queue)
    BY Zenon DEF Done
  <1>3. /\ queue' \in Seq(RunCall) /\ Len(queue) # 0 /\ Len(queue') = Len(queue) - 1
        /\ \A i \in 1..Len(queue') : queue'[i] = queue[i + 1]
    BY <1>1, <1>2, DoneIs, Zenon
  <1>4. DOMAIN queue' = 1..Len(queue') /\ 1 \in 1..Len(queue)
    BY <1>1, <1>3
  <1>5. ASSUME NEW i \in 1..Len(queue')
        PROVE  /\ i + 1 \in 1..Len(queue) /\ i + 1 # 1 /\ Len(queue) # 1
               /\ i + 1 = Len(queue) => i = Len(queue')
               /\ queue'[i] = queue[i + 1]
    <2> DEFINE n == Len(queue)
               m == Len(queue')
    <2>1. n \in Nat \ {0} /\ m = n - 1 /\ i \in 1..m
      BY <1>1, <1>3
    <2> HIDE DEF n, m
    <2>2. /\ i + 1 \in 1..n /\ i + 1 # 1 /\ n # 1 /\ (i + 1 = n => i = m)
      BY <2>1
    <2> QED
      BY <1>3, <2>2, Zenon DEF n, m
  <1>6. ASSUME NEW i \in 1..Len(queue')
        PROVE  queue'[i].answer = "none" /\ queue'[i].op # "status"
    <2>1. i + 1 \in 1..Len(queue) /\ i + 1 # 1 /\ Len(queue) # 1 /\ queue'[i] = queue[i + 1]
      BY <1>5, Zenon
    <2>2. queue[i + 1].answer = "none" /\ queue[i + 1].op # "status"
      BY <2>1, CallAt, Zenon
    <2> QED
      BY <2>1, <2>2, Zenon
  <1>7. ASSUME NEW i \in 1..Len(queue'), queue'[i].op # "sync"
        PROVE  tab' = tab
    <2>1. op = "sync"
      <3>1. queue[i + 1].op # "sync" /\ i + 1 \in DOMAIN queue
        BY <1>1, <1>3, <1>5, <1>7, Zenon
      <3>2. op # "status" /\ op # "stop" /\ op # "start"
        BY <1>1, <1>2, <1>4, <1>5, <3>1, Zenon DEF CallsInv, IsSync
      <3>3. op \in {"status", "start", "stop", "sync"}
        <4>1. queue[1] \in RunCall
          BY <1>1, <1>2, HeadIs, Zenon
        <4> QED
          BY <1>2, <4>1 DEF RunCall
      <3> QED
        BY <3>2, <3>3, Zenon
    <2> QED
      BY <2>1, Zenon
  <1>8. ASSUME NEW i \in 1..Len(queue'), queue'[i].op = "start"
        PROVE  i = Len(queue') /\ tab'.busy /\ ~tab'.running
    <2>1. tab' = tab
      BY <1>7, <1>8, Zenon
    <2>2. i + 1 = Len(queue) /\ tab.busy /\ ~tab.running
      BY <1>1, <1>3, <1>5, <1>8, Zenon DEF CallsInv
    <2> QED
      BY <1>5, <2>1, <2>2, Zenon
  <1>9. ASSUME NEW i \in 1..Len(queue'), queue'[i].op = "stop"
        PROVE  /\ tab'.busy /\ tab'.running
               /\ \A j \in 1..Len(queue') : j # i => queue'[j].op = "sync"
    <2>1. tab' = tab
      BY <1>7, <1>9, Zenon
    <2>2. /\ tab.busy /\ tab.running
          /\ \A j \in 1..Len(queue) : j # i + 1 => queue[j].op = "sync"
      BY <1>5, <1>9, CallAt, Zenon
    <2>3. ASSUME NEW j \in 1..Len(queue'), j # i PROVE queue'[j].op = "sync"
      <3>1. j + 1 # i + 1
        BY <2>3
      <3>2. j + 1 \in 1..Len(queue) /\ queue'[j] = queue[j + 1]
        BY <1>5, Zenon
      <3> QED
        BY <2>2, <3>1, <3>2, Zenon
    <2> QED
      BY <2>1, <2>2, <2>3, Zenon
  <1> QED
    BY <1>4, <1>6, <1>8, <1>9, Zenon DEF CallsInv, IsSync

\* A call is executed or lost.
LEMMA PanelServer ==
    ASSUME PanelInv, Status \/ start \/ stop \/ sync \/ CallFails
    PROVE  PanelInv'
  <1>1. RunTypes /\ CallsInv /\ TimerInv /\ StreamInv /\ queue \in Seq(RunCall) /\ wire \in RunWire
    BY Zenon DEF PanelInv, RunTypes
  <1>2. /\ queue # <<>> /\ PageSame
        /\ \E a \in {"ok", "running", "failed"} : Answer(a) /\ (a = "running" => queue[1].op # "start")
    BY <1>1, StatusIs, StartIs, StopIs, SyncIs, FailIs, Zenon
  <1>3. /\ session' \in RunSession /\ lines' \in Nat /\ runs' \in Nat
        /\ wire' \in RunWire /\ wire'.open = wire.open
        /\ ~wire.open => wire'.carries = wire.carries
    <2>1. CASE \E s \in RunSession : Pushes(s) /\ runs' = runs + 1
      <3>1. runs' \in Nat
        BY <1>1, <2>1 DEF RunTypes
      <3> QED
        BY <1>1, <2>1, <3>1, PushedIs, Zenon
    <2>2. CASE session' \in RunSession /\ UNCHANGED <<wire, lines, runs>>
      BY <1>1, <2>2, Zenon DEF RunTypes
    <2>3. session \in RunSession
      BY <1>1, Zenon DEF RunTypes
    <2> QED
      BY <1>1, <2>1, <2>2, <2>3, StatusIs, StartIs, StopIs, SyncIs, FailIs, Zenon DEF Session
  <1>4. PICK a \in {"ok", "running", "failed"} : Answer(a) /\ (a = "running" => queue[1].op # "start")
    BY <1>2, Zenon
  <1>5. a \in RunAnswers /\ UNCHANGED <<doc, tab>>
    BY <1>2, Zenon DEF RunAnswers, PageSame
  <1>6. queue' \in Seq(RunCall) /\ CallsInv'
    BY <1>1, <1>2, <1>4, <1>5, AnswerIs, CallsAnswered, Zenon
  <1>7. RunTypes'
    BY <1>1, <1>3, <1>5, <1>6, Zenon DEF RunTypes
  <1>8. TimerInv' /\ StreamInv'
    BY <1>1, <1>3, <1>5, Zenon DEF TimerInv, StreamInv, Due
  <1> QED
    BY <1>6, <1>7, <1>8, Zenon DEF PanelInv

\* The runner, the reaper and the connection.
LEMMA PanelStream ==
    ASSUME PanelInv,
           pipe \/ reapIdle \/ Connect \/ DropStream \/ UNCHANGED vars
    PROVE  PanelInv'
  <1>1. RunTypes /\ CallsInv /\ TimerInv /\ StreamInv
    BY Zenon DEF PanelInv
  <1>2. UNCHANGED <<doc, tab, queue>> /\ runs' = runs
    BY <1>1, PipeIs, ReapIs, ConnectIs, DropIs, Zenon DEF PageSame, vars
  <1>3. /\ session' \in RunSession /\ lines' \in Nat
        /\ wire' \in RunWire /\ (wire'.open => wire.open \/ tab.stream)
        /\ ~wire'.open => wire'.carries = <<>>
    <2>1. wire \in RunWire /\ session \in RunSession /\ lines \in Nat
      BY <1>1, Zenon DEF RunTypes
    <2>2. CASE pipe
      <3>1. PICK s \in RunSession : Pushes(s)
        BY <1>1, <2>2, PipeIs, Zenon DEF Session
      <3>2. /\ session' \in RunSession /\ lines' \in Nat
            /\ wire' \in RunWire /\ wire'.open = wire.open
            /\ ~wire.open => wire'.carries = wire.carries
        BY <1>1, <3>1, PushedIs, Zenon
      <3> QED
        BY <1>1, <3>2, Zenon DEF StreamInv
    <2>3. CASE reapIdle
      BY <1>1, <2>1, <2>3, ReapIs, Zenon DEF StreamInv
    <2>4. CASE Connect
      BY <1>1, <2>1, <2>4, ConnectIs, Zenon DEF Wire
    <2>5. CASE DropStream
      BY <1>1, <2>1, <2>5, DropIs, Zenon DEF Wire
    <2>6. CASE UNCHANGED vars
      BY <1>1, <2>1, <2>6, Zenon DEF vars, StreamInv
    <2> QED
      BY <2>2, <2>3, <2>4, <2>5, <2>6, Zenon
  <1>4. Fresh => Fresh'
    BY <1>2, Zenon DEF Fresh
  <1>5. CallsInv'
    BY <1>1, <1>2, <1>4, CallsSame, Zenon
  <1>6. RunTypes' /\ TimerInv' /\ StreamInv'
    BY <1>1, <1>2, <1>3, Zenon DEF RunTypes, TimerInv, StreamInv, Due
  <1> QED
    BY <1>5, <1>6, Zenon DEF PanelInv

\* The page without the server.
LEMMA PanelPage ==
    ASSUME PanelInv, onLine \/ ClearClick \/ Edit
    PROVE  PanelInv'
  <1>1. RunTypes /\ CallsInv /\ TimerInv /\ StreamInv
    BY Zenon DEF PanelInv
  <1>2. /\ UNCHANGED <<queue, session, lines, runs>>
        /\ doc' \in [rev : Nat \ {0}, valid : BOOLEAN]
        /\ tab' \in RunTab /\ tab'.available = tab.available /\ tab'.running = tab.running
        /\ tab'.busy = tab.busy /\ tab'.lastYaml = tab.lastYaml /\ tab'.stream = tab.stream
        /\ tab'.timer = Due(tab'.running, doc', tab'.lastYaml)
    <2>1. CASE onLine
      BY <1>1, <2>1, LineIs, Zenon DEF RunTypes, Tab, TimerInv
    <2>2. CASE ClearClick
      BY <1>1, <2>2, ClearIs, Zenon DEF RunTypes, Tab, TimerInv
    <2>3. CASE Edit
      BY <1>1, <2>3, EditIs, Zenon DEF Tab
    <2> QED
      BY <2>1, <2>2, <2>3, Zenon
  <1>3. /\ wire' \in RunWire /\ wire'.open = wire.open /\ (~wire.open => wire'.carries = <<>>)
        /\ wire.open \/ tab'.lastSeq = tab.lastSeq
    <2>1. CASE onLine
      BY <1>1, <2>1, LineIs, Zenon DEF Wire, StreamInv
    <2>2. CASE ClearClick
      BY <1>1, <2>2, ClearIs, Zenon DEF RunTypes, Tab, StreamInv
    <2>3. CASE Edit
      BY <1>1, <2>3, EditIs, Zenon DEF RunTypes, Tab, StreamInv
    <2> QED
      BY <2>1, <2>2, <2>3, Zenon
  <1>4. Fresh => Fresh'
    BY <1>1, <1>2, <1>3, Zenon DEF Fresh, StreamInv
  <1>5. CallsInv'
    BY <1>1, <1>2, <1>4, CallsSame, Zenon
  <1>6. RunTypes' /\ TimerInv' /\ StreamInv'
    BY <1>1, <1>2, <1>3, Zenon DEF RunTypes, TimerInv, StreamInv
  <1> QED
    BY <1>5, <1>6, Zenon DEF PanelInv

\* The page sends a call.
LEMMA PanelSends ==
    ASSUME PanelInv, TimerFires \/ StartClick \/ StopClick \/ Reload
    PROVE  PanelInv'
  <1>1. /\ RunTypes /\ CallsInv /\ TimerInv /\ StreamInv
        /\ queue \in Seq(RunCall) /\ wire \in RunWire /\ tab \in RunTab
    BY Zenon DEF PanelInv, RunTypes
  <1>2. /\ UNCHANGED <<doc, session, lines, runs>>
        /\ \E c : c \in RunCall /\ queue' = Append(queue, c)
        /\ tab' \in RunTab
    BY <1>1, TimerIs, ClickIs, ReloadIs, Zenon DEF Sends, Tab
  <1>3. RunTypes'
    <2>1. queue' \in Seq(RunCall)
      BY <1>1, <1>2, SentIs, Zenon
    <2>2. wire' \in RunWire
      BY <1>1, TimerIs, ClickIs, ReloadIs, Zenon DEF Wire
    <2> QED
      BY <1>1, <1>2, <2>1, <2>2, Zenon DEF RunTypes
  <1>4. CASE TimerFires
    <2>1. /\ tab.timer # 0 /\ \E c : Sends(c, "sync")
          /\ UNCHANGED <<doc, wire>>
          /\ Tab(tab.available, tab.running, tab.busy, tab.logs, tab.lastSeq,
                 tab.timer, 0, tab.stream)
      BY <1>1, <1>4, TimerIs, Zenon
    <2>2. tab.running /\ tab.timer = doc.rev /\ doc.valid
      BY <1>1, <2>1, Zenon DEF TimerInv, Due
    <2>3. \A i \in 1..Len(queue) : queue[i].op \notin {"status", "start"}
      BY <1>1, <2>2, CallAt, Zenon DEF Fresh
    <2>4. CallsInv'
      BY <1>1, <2>1, <2>3, CallsSent, Zenon DEF Tab
    <2>5. TimerInv' /\ StreamInv'
      BY <1>1, <2>1, <2>2, Zenon DEF Tab, TimerInv, Due, StreamInv
    <2> QED
      BY <1>3, <2>4, <2>5, Zenon DEF PanelInv
  <1>5. CASE StartClick \/ StopClick
    <2>1. /\ tab.available /\ ~tab.busy /\ UNCHANGED <<doc, wire>>
          /\ \/ ~tab.running /\ \E c : Sends(c, "start")
             \/ tab.running /\ \E c : Sends(c, "stop")
          /\ Tab(tab.available, tab.running, TRUE, tab.logs, tab.lastSeq,
                 tab.lastYaml, tab.timer, tab.stream)
      BY <1>1, <1>5, ClickIs, Zenon
    <2>2. \A i \in 1..Len(queue) : queue[i].op = "sync"
      <3> SUFFICES ASSUME NEW i \in 1..Len(queue) PROVE queue[i].op = "sync"
        OBVIOUS
      <3>1. queue[i].op \notin {"status", "start", "stop"}
        BY <1>1, <2>1, CallAt, Zenon DEF Fresh
      <3>2. queue[i].op \in {"status", "start", "stop", "sync"}
        <4>1. queue[i] \in RunCall
          BY <1>1
        <4> QED
          BY <4>1 DEF RunCall
      <3> QED
        BY <3>1, <3>2, Zenon
    <2>3. tab'.busy /\ (tab'.running = tab.running)
      BY <2>1, Zenon DEF Tab
    <2>4. CallsInv'
      BY <1>1, <2>1, <2>2, <2>3, CallsSent, Zenon
    <2>5. TimerInv' /\ StreamInv'
      BY <1>1, <2>1, Zenon DEF Tab, TimerInv, Due, StreamInv
    <2> QED
      BY <1>3, <2>4, <2>5, Zenon DEF PanelInv
  <1>6. CASE Reload
    <2>1. /\ Wire(wire', FALSE, 0, <<>>) /\ queue = <<>> /\ \E c : Sends(c, "status")
          /\ Tab(FALSE, FALSE, FALSE, <<>>, 0, 0, 0, FALSE)
      BY <1>1, <1>6, ReloadIs, Zenon
    <2>2. Fresh'
      BY <2>1, Zenon DEF Fresh, Tab
    <2>3. 1..Len(queue) = {}
      BY <2>1
    <2>4. CallsInv'
      BY <1>1, <2>1, <2>2, <2>3, CallsSent, Zenon
    <2>5. TimerInv' /\ StreamInv'
      BY <2>1, Zenon DEF Tab, Wire, TimerInv, Due, StreamInv
    <2> QED
      BY <1>3, <2>4, <2>5, Zenon DEF PanelInv
  <1> QED
    BY <1>4, <1>5, <1>6, Zenon

\* The page hears the answer of its first call.
LEMMA PanelReplies ==
    ASSUME PanelInv,
           StatusReply \/ StartReply \/ StopReply \/ SyncReply
    PROVE  PanelInv'
  <1>1. /\ RunTypes /\ CallsInv /\ TimerInv /\ StreamInv
        /\ queue \in Seq(RunCall) /\ wire \in RunWire /\ tab \in RunTab
    BY Zenon DEF PanelInv, RunTypes
  <1>2. /\ UNCHANGED <<doc, session, lines, runs>>
        /\ \E op : Done(op) /\ (op = "sync" => tab' = tab)
        /\ tab' \in RunTab /\ wire' \in RunWire
    BY <1>1, StatusReplyIs, StartReplyIs, StopReplyIs, SyncReplyIs, Zenon DEF Tab, Wire, PageSame
  <1>3. RunTypes' /\ CallsInv'
    <2>1. queue' \in Seq(RunCall)
      BY <1>1, <1>2, DoneIs, Zenon DEF Done
    <2>2. CallsInv'
      BY <1>1, <1>2, CallsDone, Zenon
    <2> QED
      BY <1>1, <1>2, <2>1, <2>2, Zenon DEF RunTypes
  <1>4. CASE StatusReply
    <2>1. /\ Done("status") /\ UNCHANGED <<doc, wire>>
          /\ \/ tab' = tab
             \/ \E run \in BOOLEAN :
                  Tab(TRUE, run, tab.busy, tab.logs, tab.lastSeq, tab.lastYaml,
                      Due(run, doc, tab.lastYaml), run)
      BY <1>1, <1>4, StatusReplyIs, Zenon
    <2>2. ~tab.running
      <3>1. 1 \in 1..Len(queue) /\ queue[1].op = "status"
        BY <1>1, <2>1 DEF Done
      <3> QED
        BY <1>1, <3>1, CallAt, Zenon DEF Fresh
    <2>3. TimerInv' /\ StreamInv'
      BY <1>1, <2>1, <2>2, Zenon DEF Tab, TimerInv, StreamInv
    <2> QED
      BY <1>3, <2>3, Zenon DEF PanelInv
  <1>5. CASE StartReply
    <2>1. /\ UNCHANGED <<doc, wire>>
          /\ \/ Tab(tab.available, TRUE, FALSE, <<>>, tab.lastSeq, queue[1].rev,
                    Due(TRUE, doc, queue[1].rev), TRUE)
             \/ Tab(tab.available, tab.running, FALSE, tab.logs, tab.lastSeq,
                    tab.lastYaml, tab.timer, tab.stream)
      BY <1>1, <1>5, StartReplyIs, Zenon
    <2>2. TimerInv' /\ StreamInv'
      BY <1>1, <2>1, Zenon DEF Tab, TimerInv, StreamInv
    <2> QED
      BY <1>3, <2>2, Zenon DEF PanelInv
  <1>6. CASE StopReply
    <2>1. /\ UNCHANGED doc /\ Wire(wire', FALSE, 0, <<>>)
          /\ Tab(tab.available, FALSE, FALSE, tab.logs, tab.lastSeq, tab.lastYaml, 0, FALSE)
      BY <1>1, <1>6, StopReplyIs, Zenon
    <2>2. TimerInv' /\ StreamInv'
      BY <2>1, Zenon DEF Tab, Wire, TimerInv, Due, StreamInv
    <2> QED
      BY <1>3, <2>2, Zenon DEF PanelInv
  <1>7. CASE SyncReply
    <2>1. TimerInv' /\ StreamInv'
      BY <1>1, <1>7, SyncReplyIs, Zenon DEF PageSame, TimerInv, StreamInv
    <2> QED
      BY <1>3, <2>1, Zenon DEF PanelInv
  <1> QED
    BY <1>4, <1>5, <1>6, <1>7, Zenon

\* Every step keeps the queue, the buttons, the debounce and the stream in line.
LEMMA PanelStep == PanelInv /\ [Next]_vars => PanelInv'
  BY PanelServer, PanelStream, PanelPage, PanelSends, PanelReplies, Zenon DEF Next

-----------------------------------------------------------------------------
(* The configuration.                                                      *)

\* The first call of a running page is a stop or a sync.
LEMMA RunningCalls ==
    ASSUME PanelInv, tab.running, NEW i \in 1..Len(queue)
    PROVE  queue[i].op \in {"stop", "sync"}
  <1>1. RunTypes /\ CallsInv /\ queue \in Seq(RunCall)
    BY Zenon DEF PanelInv, RunTypes
  <1>2. queue[i].op \notin {"status", "start"}
    BY <1>1, CallAt, Zenon DEF Fresh
  <1>3. queue[i] \in RunCall
    BY <1>1
  <1>4. queue[i].op \in {"status", "start", "stop", "sync"}
    BY <1>3 DEF RunCall
  <1> QED
    BY <1>2, <1>4, Zenon

\* The server answers: the last sync to be served has the newest revision.
LEMMA SentServer ==
    ASSUME ConfigInv, Status \/ start \/ stop \/ sync \/ CallFails
    PROVE  SentInv'
  <1>1. PanelInv /\ SentInv /\ RunTypes /\ CallsInv /\ queue \in Seq(RunCall)
    BY Zenon DEF ConfigInv, PanelInv, RunTypes
  <1>2. queue # <<>> /\ PageSame /\ \E a \in {"ok", "running", "failed"} : Answer(a)
    BY <1>1, StatusIs, StartIs, StopIs, SyncIs, FailIs, Zenon
  <1>3. PICK a \in {"ok", "running", "failed"} : Answer(a)
    BY <1>2, Zenon
  <1>4. /\ a \in RunAnswers /\ a # "none" /\ tab' = tab /\ DOMAIN queue = 1..Len(queue)
        /\ Len(queue) \in Nat \ {0}
    BY <1>1, <1>2 DEF RunAnswers, PageSame
  <1>5. /\ queue' \in Seq(RunCall) /\ Len(queue') = Len(queue)
        /\ \A i \in 1..Len(queue) :
             /\ queue'[i].op = queue[i].op /\ queue'[i].rev = queue[i].rev
             /\ queue'[i].answer = IF i = 1 THEN a ELSE queue[i].answer
    BY <1>1, <1>2, <1>3, <1>4, AnswerIs, Zenon
  <1>6. DOMAIN queue' = 1..Len(queue) /\ 1 \in 1..Len(queue)
    BY <1>4, <1>5
  <1>7. ASSUME tab'.running, NEW i \in DOMAIN queue', LastSync(i)'
        PROVE  queue'[i].rev = tab'.lastYaml
    <2>1. LastSync(i)
      BY <1>4, <1>5, <1>6, <1>7, Zenon DEF LastSync, IsSync
    <2> QED
      BY <1>1, <1>4, <1>5, <1>6, <1>7, <2>1, Zenon DEF SentInv
  <1>8. ASSUME tab'.running, tab'.lastYaml # 0, ~SyncWaits'
        PROVE  Watches(tab.lastYaml)'
    <2>1. \A j \in 1..Len(queue) : j # 1 => queue[j].op # "sync"
      <3> SUFFICES ASSUME NEW j \in 1..Len(queue), j # 1, queue[j].op = "sync" PROVE FALSE
        BY Zenon
      <3>1. queue[j].answer = "none"
        BY <1>1, CallAt, Zenon
      <3>2. queue'[j].answer = "none" /\ queue'[j].op = "sync"
        BY <1>5, <3>1
      <3> QED
        BY <1>6, <1>8, <3>2, Zenon DEF SyncWaits, IsSync
    <2>2. CASE queue[1].op = "sync"
      <3>1. LastSync(1)
        <4>1. \A j \in 1..Len(queue) : j > 1 => j # 1
          OBVIOUS
        <4> QED
          BY <1>4, <2>1, <2>2, <4>1, Zenon DEF LastSync, IsSync
      <3>2. queue[1].rev = tab.lastYaml
        BY <1>1, <1>4, <1>6, <1>8, <3>1, Zenon DEF SentInv
      <3>3. CASE sync
        BY <1>1, <1>4, <3>2, <3>3, SyncIs, Zenon DEF Session, Watches
      <3>4. CASE CallFails
        BY <1>1, <2>2, <3>4, FailIs, Zenon DEF Session, Watches
      <3> QED
        BY <1>1, <2>2, <3>3, <3>4, StatusIs, StartIs, StopIs, Zenon
    <2>3. CASE queue[1].op # "sync"
      <3>1. ~SyncWaits
        BY <1>4, <2>1, <2>3, Zenon DEF SyncWaits, IsSync
      <3>2. Watches(tab.lastYaml)
        BY <1>1, <1>4, <1>8, <3>1, Zenon DEF SentInv
      <3>3. queue[1].op = "stop"
        BY <1>1, <1>4, <1>6, <1>8, <2>3, RunningCalls, Zenon
      <3>4. CASE stop
        BY <1>1, <3>4, StopIs, Zenon DEF Session, Watches
      <3>5. CASE CallFails
        BY <1>1, <1>4, <3>2, <3>5, FailIs, Zenon DEF Session, Watches
      <3> QED
        BY <1>1, <2>3, <3>3, <3>4, <3>5, StatusIs, StartIs, SyncIs, Zenon
    <2> QED
      BY <2>2, <2>3, Zenon
  <1>9. ASSUME NEW i \in DOMAIN queue', queue'[i].op = "start", queue'[i].answer = "ok"
        PROVE  session'.config = queue'[i].rev
    <2>1. i \in 1..Len(queue) /\ queue[i].op = "start"
      BY <1>5, <1>6, <1>9, Zenon
    <2>2. i = 1 /\ queue'[1].answer = a
      <3>1. i # 1 => queue'[i].answer = queue[i].answer /\ queue[i].answer = "none"
        BY <1>1, <1>5, <2>1, CallAt
      <3> QED
        BY <1>5, <1>6, <1>9, <3>1
    <2>3. start /\ Answer("ok")
      <3>1. Answer("failed") => queue'[1].answer = "failed"
        BY <1>1, <1>2, <1>6, AnswerIs DEF RunAnswers
      <3> QED
        BY <1>1, <1>9, <2>1, <2>2, <3>1, StatusIs, StartIs, StopIs, SyncIs, FailIs, Zenon
    <2>4. PICK s : Session(s, runs + 1, queue[1].rev, <<>>, FALSE) /\ Pushes(s)
      <3>1. ~Answer("failed")
        BY <1>1, <1>2, <1>6, <1>9, <2>2, AnswerIs DEF RunAnswers
      <3> QED
        BY <1>1, <2>3, <3>1, StartIs, Zenon
    <2>5. session'.config = queue[1].rev
      BY <1>1, <2>4, PushedIs, Zenon DEF Session
    <2> QED
      BY <1>5, <1>6, <2>2, <2>5, Zenon
  <1> QED
    BY <1>7, <1>8, <1>9, Zenon DEF SentInv, Watches

\* The page and its queue stay; the session keeps its configuration or has no process.
LEMMA SentSame ==
    ASSUME ConfigInv, queue' = queue, tab'.running = tab.running,
           tab'.lastYaml = tab.lastYaml,
           \/ session'.config = session.config /\ session'.stale = session.stale
              /\ session'.proc \in {0, session.proc}
           \/ session'.proc = 0 /\ queue = <<>>
    PROVE  SentInv'
  <1>1. SentInv
    BY Zenon DEF ConfigInv
  <1>2. (SyncWaits' <=> SyncWaits) /\ \A i : LastSync(i)' <=> LastSync(i)
    BY Zenon DEF SyncWaits, LastSync, IsSync
  <1>3. ASSUME NEW n PROVE Watches(n) => session'.proc = 0 \/ session'.stale \/ session'.config = n
    BY Zenon DEF Watches
  <1>4. tab'.running /\ tab'.lastYaml # 0 => SyncWaits' \/ Watches(tab.lastYaml)'
    BY <1>1, <1>2, <1>3, Zenon DEF SentInv, Watches
  <1>5. ASSUME NEW i \in DOMAIN queue', queue'[i].op = "start", queue'[i].answer = "ok"
        PROVE  session'.config = queue'[i].rev
    <2>1. queue # <<>>
      BY <1>5
    <2> QED
      BY <1>1, <1>5, <2>1, Zenon DEF SentInv
  <1>6. tab'.running => \A i \in DOMAIN queue' : LastSync(i)' => queue'[i].rev = tab'.lastYaml
    BY <1>1, <1>2, Zenon DEF SentInv
  <1> QED
    BY <1>4, <1>5, <1>6, Zenon DEF SentInv

\* The runner, the stream and the edits do not touch what was sent.
LEMMA SentStream ==
    ASSUME ConfigInv,
           \/ pipe \/ reapIdle \/ Connect \/ DropStream \/ UNCHANGED vars
           \/ onLine \/ ClearClick \/ Edit
    PROVE  SentInv'
  <1>1. RunTypes
    BY Zenon DEF ConfigInv, PanelInv
  <1>2. CASE pipe
    <2>1. PICK s, p : /\ p = 0 \/ p = session.proc
                      /\ Session(s, p, session.config, session.logs, session.stale)
                      /\ Pushes(s)
      BY <1>1, <1>2, PipeIs, Zenon
    <2>2. /\ session'.config = session.config /\ session'.stale = session.stale
          /\ session'.proc \in {0, session.proc}
      BY <1>1, <2>1, PushedIs, Zenon DEF Session
    <2> QED
      BY <1>1, <1>2, <2>2, PipeIs, SentSame, Zenon DEF PageSame
  <1>3. CASE reapIdle
    BY <1>1, <1>3, ReapIs, SentSame, Zenon DEF PageSame
  <1>4. CASE Connect \/ DropStream \/ UNCHANGED vars
    BY <1>1, <1>4, ConnectIs, DropIs, SentSame, Zenon DEF PageSame, vars
  <1>5. CASE onLine \/ ClearClick \/ Edit
    BY <1>1, <1>5, LineIs, ClearIs, EditIs, SentSame, Zenon DEF Tab
  <1> QED
    BY <1>2, <1>3, <1>4, <1>5, Zenon

\* A sync that is sent is the last one.
LEMMA SentSends ==
    ASSUME ConfigInv, TimerFires \/ StartClick \/ StopClick \/ Reload
    PROVE  SentInv'
  <1>1. PanelInv /\ SentInv /\ RunTypes /\ CallsInv /\ queue \in Seq(RunCall) /\ Len(queue) \in Nat
    BY DEF ConfigInv, PanelInv, RunTypes
  <1>2. /\ session' = session
        /\ \E c : /\ c \in RunCall /\ c.answer = "none" /\ queue' = Append(queue, c)
                  /\ \/ c.op = "sync" /\ tab'.running = tab.running /\ tab'.lastYaml = c.rev
                     \/ c.op = "stop" /\ tab'.running = tab.running /\ tab'.lastYaml = tab.lastYaml
                     \/ ~tab'.running /\ c.op # "sync"
    BY <1>1, TimerIs, ClickIs, ReloadIs, Zenon DEF Sends, Tab
  <1>3. PICK c : /\ c \in RunCall /\ c.answer = "none" /\ queue' = Append(queue, c)
                 /\ \/ c.op = "sync" /\ tab'.running = tab.running /\ tab'.lastYaml = c.rev
                    \/ c.op = "stop" /\ tab'.running = tab.running /\ tab'.lastYaml = tab.lastYaml
                    \/ ~tab'.running /\ c.op # "sync"
    BY <1>2, Zenon
  <1> DEFINE n == Len(queue) + 1
  <1>4. /\ queue' \in Seq(RunCall) /\ Len(queue') = n
        /\ \A i \in 1..Len(queue) : queue'[i] = queue[i]
        /\ queue'[n] = c
    BY <1>1, <1>3, SentIs, Zenon
  <1>5. /\ DOMAIN queue = 1..Len(queue) /\ DOMAIN queue' = 1..Len(queue) \cup {n}
        /\ n \notin 1..Len(queue) /\ \A i \in 1..Len(queue) : n > i
    BY <1>1, <1>4
  <1> HIDE DEF n
  <1>6. ASSUME NEW i \in DOMAIN queue', queue'[i].op = "start", queue'[i].answer = "ok"
        PROVE  session'.config = queue'[i].rev
    BY <1>1, <1>2, <1>3, <1>4, <1>5, <1>6, Zenon DEF SentInv
  <1>7. CASE c.op = "sync"
    <2>1. tab'.lastYaml = c.rev
      BY <1>3, <1>7, Zenon
    <2>2. SyncWaits'
      BY <1>3, <1>4, <1>5, <1>7, Zenon DEF SyncWaits, IsSync
    <2>3. ASSUME NEW i \in DOMAIN queue', LastSync(i)' PROVE i = n
      BY <1>4, <1>5, <1>7, <2>3, Zenon DEF LastSync, IsSync
    <2> QED
      BY <1>4, <1>6, <2>1, <2>2, <2>3, Zenon DEF SentInv
  <1>8. CASE c.op = "stop" /\ tab'.running = tab.running /\ tab'.lastYaml = tab.lastYaml
    <2>1. SyncWaits => SyncWaits'
      BY <1>4, <1>5, Zenon DEF SyncWaits
    <2>2. ASSUME NEW i \in DOMAIN queue', LastSync(i)'
          PROVE  i \in 1..Len(queue) /\ LastSync(i)
      <3>1. queue'[i].op = "sync" /\ \A j \in DOMAIN queue' : j > i => ~IsSync(queue'[j])
        BY <2>2, Zenon DEF LastSync, IsSync
      <3>2. i # n
        BY <1>4, <1>8, <3>1, Zenon
      <3> QED
        BY <1>4, <1>5, <3>1, <3>2, Zenon DEF LastSync, IsSync
    <2>3. Watches(tab.lastYaml) => Watches(tab.lastYaml)'
      BY <1>2, <1>8, Zenon DEF Watches
    <2> QED
      BY <1>1, <1>4, <1>5, <1>6, <1>8, <2>1, <2>2, <2>3, Zenon DEF SentInv
  <1>9. CASE ~tab'.running
    BY <1>6, <1>9, Zenon DEF SentInv
  <1> QED
    BY <1>3, <1>7, <1>8, <1>9, Zenon

\* The page takes an answer: a start's revision is the one the runner was started with.
LEMMA SentReplies ==
    ASSUME ConfigInv, StatusReply \/ StartReply \/ StopReply \/ SyncReply
    PROVE  SentInv'
  <1>1. PanelInv /\ SentInv /\ RunTypes /\ CallsInv /\ queue \in Seq(RunCall)
    BY Zenon DEF ConfigInv, PanelInv, RunTypes
  <1>2. session' = session /\ \E op : Done(op)
    BY <1>1, StatusReplyIs, StartReplyIs, StopReplyIs, SyncReplyIs, Zenon
  <1>3. /\ queue # <<>> /\ queue[1].answer # "none" /\ queue' = Tail(queue)
    BY <1>2, Zenon DEF Done
  <1>4. /\ queue' \in Seq(RunCall) /\ Len(queue) # 0 /\ Len(queue') = Len(queue) - 1
        /\ \A i \in 1..Len(queue') : queue'[i] = queue[i + 1]
    BY <1>1, <1>3, DoneIs, Zenon
  <1>5. /\ DOMAIN queue = 1..Len(queue) /\ DOMAIN queue' = 1..Len(queue')
        /\ Len(queue) \in Nat /\ 1 \in 1..Len(queue)
        /\ \A i \in 1..Len(queue') : i + 1 \in 1..Len(queue) /\ i + 1 # 1
        /\ \A j \in 1..Len(queue) : j # 1 => j - 1 \in 1..Len(queue') /\ (j - 1) + 1 = j
    BY <1>1, <1>4
  <1>6. ASSUME NEW i \in DOMAIN queue', queue'[i].op = "start", queue'[i].answer = "ok"
        PROVE  FALSE
    <2>1. queue[i + 1].answer = "none"
      BY <1>1, <1>5, CallAt, Zenon
    <2> QED
      BY <1>4, <1>5, <1>6, <2>1, Zenon
  <1>7. CASE queue[1].op \in {"status", "start"}
    <2>1. Len(queue) = 1
      BY <1>1, <1>5, <1>7, CallAt, Zenon
    <2>2. DOMAIN queue' = {}
      BY <1>4, <1>5, <2>1
    <2>3. CASE StatusReply
      <3>1. Done("status") /\ (tab' = tab \/ tab'.lastYaml = tab.lastYaml)
        BY <1>1, <2>3, StatusReplyIs, Zenon DEF Tab
      <3>2. tab'.lastYaml = 0
        BY <1>1, <1>5, <3>1, CallAt, Zenon DEF Done, Fresh
      <3> QED
        BY <2>2, <3>2, Zenon DEF SentInv
    <2>4. CASE StartReply
      <3>1. /\ Done("start")
            /\ \/ queue[1].answer # "failed" /\ tab'.running /\ tab'.lastYaml = queue[1].rev
               \/ tab'.running = tab.running
        BY <1>1, <2>4, StartReplyIs, Zenon DEF Tab
      <3>2. queue[1].op = "start" /\ ~tab.running /\ queue[1].answer # "running"
        BY <1>1, <1>5, <3>1, CallAt, Zenon DEF Done
      <3>3. tab'.running => Watches(tab.lastYaml)'
        <4>1. queue[1] \in RunCall
          BY <1>1, <1>3, HeadIs, Zenon
        <4>2. queue[1].answer \in {"none", "ok", "running", "failed"}
          BY <4>1 DEF RunCall
        <4>3. tab'.running => queue[1].answer = "ok" /\ tab'.lastYaml = queue[1].rev
          BY <1>3, <3>1, <3>2, <4>2, Zenon
        <4> QED
          BY <1>1, <1>2, <1>5, <3>2, <4>3, Zenon DEF SentInv, Watches
      <3> QED
        BY <2>2, <3>3, Zenon DEF SentInv, Watches
    <2> QED
      BY <1>1, <1>7, <2>3, <2>4, StopReplyIs, SyncReplyIs, Zenon DEF Done
  <1>8. CASE StopReply
    <2>1. ~tab'.running
      BY <1>1, <1>8, StopReplyIs, Zenon DEF Tab
    <2> QED
      BY <1>6, <2>1, Zenon DEF SentInv
  <1>9. CASE SyncReply
    <2>1. tab' = tab
      BY <1>1, <1>9, SyncReplyIs, Zenon DEF PageSame
    <2>2. ASSUME NEW i \in DOMAIN queue', LastSync(i)'
          PROVE  LastSync(i + 1)
      <3>1. i \in 1..Len(queue') /\ queue'[i] = queue[i + 1]
        BY <1>4, <1>5, Zenon
      <3>2. /\ IsSync(queue[i + 1])
            /\ \A j \in 1..Len(queue') : j > i => ~IsSync(queue'[j])
        BY <1>5, <2>2, <3>1, Zenon DEF LastSync, IsSync
      <3>3. ASSUME NEW j \in 1..Len(queue), j > i + 1 PROVE ~IsSync(queue[j])
        <4>1. j # 1 /\ j - 1 \in 1..Len(queue') /\ j - 1 > i /\ queue'[j - 1] = queue[j]
          BY <1>4, <1>5, <3>1, <3>3
        <4> QED
          BY <3>2, <4>1, Zenon DEF IsSync
      <3>4. DOMAIN queue = 1..Len(queue)
        BY <1>5, Zenon
      <3> QED
        BY <3>2, <3>3, <3>4, Zenon DEF LastSync
    <2>3. tab'.running => \A i \in DOMAIN queue' : LastSync(i)' => queue'[i].rev = tab'.lastYaml
      <3> SUFFICES ASSUME tab'.running, NEW i \in DOMAIN queue', LastSync(i)'
                   PROVE  queue'[i].rev = tab'.lastYaml
        BY Zenon
      <3>1. i + 1 \in DOMAIN queue /\ queue'[i] = queue[i + 1]
        BY <1>4, <1>5, Zenon
      <3>2. LastSync(i + 1)
        BY <2>2, Zenon
      <3> QED
        BY <1>1, <2>1, <3>1, <3>2, Zenon DEF SentInv
    <2>4. SyncWaits => SyncWaits'
      <3> SUFFICES ASSUME NEW j \in 1..Len(queue), IsSync(queue[j]), queue[j].answer = "none"
                   PROVE  SyncWaits'
        BY <1>5, Zenon DEF SyncWaits
      <3>1. j # 1
        BY <1>3, Zenon
      <3>2. j - 1 \in 1..Len(queue') /\ queue'[j - 1] = queue[j]
        BY <1>4, <1>5, <3>1
      <3> QED
        BY <1>5, <3>2, Zenon DEF SyncWaits, IsSync
    <2>5. Watches(tab.lastYaml) => Watches(tab.lastYaml)'
      BY <1>2, <2>1, Zenon DEF Watches
    <2> QED
      BY <1>1, <1>6, <2>1, <2>3, <2>4, <2>5, Zenon DEF SentInv
  <1> QED
    BY <1>1, <1>7, <1>8, <1>9, StatusReplyIs, StartReplyIs, Zenon DEF Done

\* Every step leaves the newest revision sent on its way or with the runner.
LEMMA ConfigStep == ConfigInv /\ [Next]_vars => ConfigInv'
  BY PanelStep, SentServer, SentStream, SentSends, SentReplies, Zenon DEF ConfigInv, Next

\* The page asks for the status first.
LEMMA PanelStarts == Init => PanelInv
  <1> SUFFICES ASSUME Init PROVE PanelInv
    OBVIOUS
  <1> DEFINE c == Call("status", 0)
  <1>1. /\ doc = [rev |-> 1, valid |-> TRUE] /\ tab = NewTab /\ queue = <<c>>
        /\ session = NewSession(0) /\ wire = NoStream /\ lines = 0 /\ runs = 0
    BY Zenon DEF Init
  <1>2. c \in RunCall /\ c.op = "status" /\ c.answer = "none"
    BY DEF RunCall, Call
  <1>3. /\ <<>> \in Seq(Nat) /\ <<>> \in Seq(RunLine)
    OBVIOUS
  <1>4. tab \in RunTab /\ Fresh /\ tab.timer = 0 /\ ~tab.stream
    BY <1>1, <1>3 DEF RunTab, NewTab, Fresh
  <1>5. session \in RunSession
    BY <1>1, <1>3 DEF RunSession, NewSession
  <1>6. wire \in RunWire /\ ~wire.open /\ wire.carries = <<>>
    BY <1>1, NoStreamIs, Zenon DEF Wire
  <1> HIDE DEF c
  <1>7. queue \in Seq(RunCall) /\ Len(queue) = 1 /\ DOMAIN queue = {1} /\ queue[1] = c
    BY <1>1, <1>2
  <1>8. RunTypes
    <2>1. doc \in [rev : Nat \ {0}, valid : BOOLEAN] /\ lines \in Nat /\ runs \in Nat
      BY <1>1
    <2> QED
      BY <1>4, <1>5, <1>6, <1>7, <2>1, Zenon DEF RunTypes
  <1>9. CallsInv
    BY <1>2, <1>4, <1>7, Zenon DEF CallsInv
  <1> QED
    <2>1. tab.running = FALSE /\ tab.stream = FALSE
      BY <1>4 DEF RunTab, Fresh
    <2>2. TimerInv /\ StreamInv
      BY <1>4, <1>6, <2>1, Zenon DEF TimerInv, StreamInv, Due
    <2> QED
      BY <1>8, <1>9, <2>2, Zenon DEF PanelInv

\* Nothing was sent yet.
LEMMA ConfigStarts == Init => ConfigInv
  <1> SUFFICES ASSUME Init PROVE ConfigInv
    OBVIOUS
  <1>1. ~tab.running /\ queue = <<Call("status", 0)>>
    BY DEF Init, NewTab
  <1>2. \A i \in DOMAIN queue : queue[i].op # "start"
    BY <1>1 DEF Call
  <1> QED
    BY <1>1, <1>2, PanelStarts, Zenon DEF ConfigInv, SentInv

\* A debounce that does not wait has sent the document.
LEMMA ConfigIsSent == ConfigInv => ConfigFollows
  <1> SUFFICES ASSUME ConfigInv, tab.running, doc.valid, tab.timer = 0, queue = <<>>,
                      session.proc # 0, ~session.stale
               PROVE  session.config = doc.rev
    BY Zenon DEF ConfigFollows
  <1>1. RunTypes /\ TimerInv /\ SentInv
    BY Zenon DEF ConfigInv, PanelInv
  <1>2. doc.rev # 0
    BY <1>1 DEF RunTypes
  <1>3. doc.rev = tab.lastYaml
    BY <1>1, <1>2, Zenon DEF TimerInv, Due
  <1>4. ~SyncWaits
    <2>1. DOMAIN queue = {}
      OBVIOUS
    <2> QED
      BY <2>1, Zenon DEF SyncWaits
  <1> QED
    BY <1>1, <1>2, <1>3, <1>4, Zenon DEF SentInv, Watches

\* RunProvider and the run actions (RunContext.tsx:191): once the debounce has fired and
\* every call is answered, a live runner watches the document on the screen, whatever
\* edits, starts, stops, reloads and reaps came between; only a sync that failed
\* breaks it.
THEOREM RunnerHasTheDocument == Spec => []ConfigFollows
  <1>1. Init => ConfigInv
    BY ConfigStarts
  <1>2. ConfigInv /\ [Next]_vars => ConfigInv'
    BY ConfigStep
  <1>3. ConfigInv => ConfigFollows
    BY ConfigIsSent
  <1> QED
    BY <1>1, <1>2, <1>3, PTL DEF Spec

-----------------------------------------------------------------------------
(* The lines.                                                              *)

\* The panel keeps at least as many lines as the buffer.
LEMMA LogBounds ==
    MaxLogLines \in Nat \ {0} /\ MaxClientLogs \in Nat \ {0} /\ MaxLogLines <= MaxClientLogs
  BY RunAssumption DEF RunBounds

\* The k-th of l consecutive numbers that end before s.
LEMMA Numbers ==
    ASSUME NEW a \in Nat, NEW l \in Nat, NEW s \in Nat, NEW k \in Nat, NEW m \in Nat,
           a + l + 1 = s + k, l <= m, l < s, 0 < k, k <= l
    PROVE  0 < a /\ a < s /\ s <= a + m
  OBVIOUS

\* Consecutive numbers grow.
LEMMA NumbersGrow ==
    ASSUME NEW a \in Nat, NEW b \in Nat, NEW l \in Nat, NEW s \in Nat, NEW k \in Nat, NEW j \in Nat,
           a + l + 1 = s + k, b + l + 1 = s + j, k < j
    PROVE  a < b
  OBVIOUS

\* The numbers of the buffer, one by one.
LEMMA BufferAt ==
    ASSUME RunTypes, BufferInv, NEW i \in DOMAIN session.logs
    PROVE  /\ session.logs[i] \in RunLine /\ session.logs[i].seq \in Nat
           /\ session.seq \in Nat /\ 0 < session.logs[i].seq
           /\ session.logs[i].seq < session.seq
           /\ session.seq <= session.logs[i].seq + MaxLogLines
  <1>1. session.logs \in Seq(RunLine) /\ session.seq \in Nat
    BY DEF RunTypes, RunSession
  <1>2. /\ session.logs[i] \in RunLine /\ i \in 1..Len(session.logs)
        /\ Len(session.logs) \in Nat
    BY <1>1
  <1>3. session.logs[i].seq \in Nat
    BY <1>2 DEF RunLine
  <1>4. /\ Len(session.logs) <= MaxLogLines /\ Len(session.logs) < session.seq
        /\ session.logs[i].seq + Len(session.logs) + 1 = session.seq + i
    BY Zenon DEF BufferInv
  <1>5. i \in Nat /\ 0 < i /\ i <= Len(session.logs) /\ MaxLogLines \in Nat
    BY <1>2, LogBounds
  <1> QED
    BY <1>1, <1>2, <1>3, <1>4, <1>5, Numbers, Zenon

\* The numbers of the buffer grow.
LEMMA BufferSorted ==
    ASSUME RunTypes, BufferInv, NEW i \in DOMAIN session.logs, NEW j \in DOMAIN session.logs, i < j
    PROVE  session.logs[i].seq < session.logs[j].seq
  <1>1. /\ session.logs \in Seq(RunLine) /\ session.seq \in Nat
        /\ session.logs[i].seq \in Nat /\ session.logs[j].seq \in Nat
    BY BufferAt, Zenon DEF RunTypes, RunSession
  <1>2. i \in Nat /\ j \in Nat /\ Len(session.logs) \in Nat
    BY <1>1
  <1>3. /\ session.logs[i].seq + Len(session.logs) + 1 = session.seq + i
        /\ session.logs[j].seq + Len(session.logs) + 1 = session.seq + j
    BY Zenon DEF BufferInv
  <1> QED
    BY <1>1, <1>2, <1>3, NumbersGrow, Zenon

\* A push: the entries are the old ones and the new one, and are numbered on.
LEMMA BufferPushed ==
    ASSUME RunTypes, NEW s \in RunSession, Pushes(s), s.seq = session.seq,
           s.logs = <<>> \/ s.logs = session.logs, BufferInv
    PROVE  /\ BufferInv'
           /\ \A i \in DOMAIN session'.logs :
                \/ session'.logs[i] = [seq |-> s.seq, line |-> lines + 1]
                \/ \E j \in DOMAIN s.logs : session'.logs[i] = s.logs[j]
  <1> DEFINE e == [seq |-> s.seq, line |-> lines + 1]
             added == Append(s.logs, e)
             n == Len(s.logs)
             r == session'.logs
  <1>1. /\ e \in RunLine /\ s.logs \in Seq(RunLine) /\ s.seq \in Nat /\ e.seq = s.seq /\ n \in Nat
    BY DEF RunTypes, RunLine, RunSession
  <1>2. session'.seq = s.seq + 1 /\ r = Newest(added, MaxLogLines)
    BY PushedIs, Zenon
  <1>3. /\ n <= MaxLogLines /\ n < s.seq
        /\ \A k \in 1..n : s.logs[k].seq + n + 1 = s.seq + k
    <2>1. session.seq \in Nat /\ session.logs \in Seq(RunLine)
      BY DEF RunTypes, RunSession
    <2>2. CASE s.logs = <<>>
      <3>1. Len(session.logs) < session.seq /\ Len(session.logs) \in Nat
        BY <2>1 DEF BufferInv
      <3> QED
        BY <2>1, <2>2, <3>1, LogBounds
    <2>3. CASE s.logs = session.logs
      <3>1. DOMAIN s.logs = 1..n
        BY <1>1
      <3> QED
        BY <2>3, <3>1, Zenon DEF BufferInv
    <2> QED
      BY <2>2, <2>3, Zenon
  <1> HIDE DEF e
  <1>4. /\ added \in Seq(RunLine) /\ Len(added) = n + 1 /\ added[n + 1] = e
        /\ \A k \in 1..n : added[k] = s.logs[k]
    BY <1>1
  <1> HIDE DEF added
  <1>5. /\ r \in Seq(RunLine)
        /\ Len(r) = IF Len(added) > MaxLogLines THEN MaxLogLines ELSE Len(added)
        /\ \A i \in 1..Len(r) : r[i] = added[Len(added) - Len(r) + i]
    <2> DEFINE q == Newest(added, MaxLogLines)
    <2>1. /\ q \in Seq(RunLine)
          /\ Len(q) = IF Len(added) > MaxLogLines THEN MaxLogLines ELSE Len(added)
          /\ \A i \in 1..Len(q) : q[i] = added[Len(added) - Len(q) + i]
      BY <1>4, LogBounds, NewestAre, Zenon
    <2> HIDE DEF q, n, r
    <2>2. r = q
      BY <1>2, Zenon DEF q
    <2> QED
      BY <2>1, <2>2, Zenon
  <1>6. DOMAIN s.logs = 1..n /\ DOMAIN r = 1..Len(r) /\ Len(r) \in Nat
    BY <1>1, <1>5
  <1> HIDE DEF n, r
  <1>7. Len(r) <= MaxLogLines /\ Len(r) <= n + 1
    BY <1>1, <1>4, <1>5, LogBounds
  <1>8. ASSUME NEW i \in 1..Len(r)
        PROVE  /\ r[i].seq + Len(r) + 1 = s.seq + 1 + i
               /\ r[i] = e \/ \E j \in 1..n : r[i] = s.logs[j]
    <2> DEFINE k == n + 1 - Len(r) + i
    <2>1. k \in 1..(n + 1) /\ r[i] = added[k]
      <3>1. k \in 1..(n + 1) /\ Len(added) - Len(r) + i = k
        BY <1>1, <1>4, <1>6, <1>7
      <3> QED
        BY <1>5, <3>1, Zenon
    <2>2. k + Len(r) = n + 1 + i
      BY <1>1, <1>6
    <2> HIDE DEF k
    <2>3. CASE k = n + 1
      <3>1. r[i] = e
        BY <1>4, <2>1, <2>3
      <3> QED
        BY <1>1, <1>6, <2>2, <2>3, <3>1
    <2>4. CASE k \in 1..n
      <3>1. r[i] = s.logs[k] /\ s.logs[k] \in RunLine
        BY <1>1, <1>4, <1>6, <2>1, <2>4
      <3>2. r[i].seq \in Nat /\ r[i].seq + n + 1 = s.seq + k
        BY <1>3, <2>4, <3>1 DEF RunLine
      <3>3. k \in Nat /\ i \in Nat /\ n \in Nat /\ Len(r) \in Nat /\ s.seq \in Nat
        BY <1>1, <1>6, <2>4
      <3>4. r[i].seq + Len(r) + 1 = s.seq + 1 + i
        <4>1. PICK a \in Nat, l \in Nat, b \in Nat, q \in Nat, m \in Nat, x \in Nat :
                /\ a = r[i].seq /\ l = Len(r) /\ b = s.seq /\ q = k /\ m = n /\ x = i
                /\ a + m + 1 = b + q /\ q + l = m + 1 + x
          BY <2>2, <3>2, <3>3, Zenon
        <4>2. a + m + 1 = b + q /\ q + l = m + 1 + x
          BY <4>1, Zenon
        <4>3. a + l + 1 = b + 1 + x
          BY <4>2
        <4> QED
          BY <4>1, <4>3, Zenon
      <3> QED
        BY <2>4, <3>1, <3>4, Zenon
    <2>5. n \in Nat /\ k \in 1..(n + 1)
      BY <1>1, <2>1, Zenon
    <2>6. k = n + 1 \/ k \in 1..n
      BY <2>5
    <2> QED
      BY <2>3, <2>4, <2>6, Zenon
  <1>9. BufferInv'
    <2>1. Len(r) < s.seq + 1
      BY <1>1, <1>3, <1>6, <1>7
    <2>2. \A i \in DOMAIN r : r[i].seq + Len(r) + 1 = (s.seq + 1) + i
      BY <1>6, <1>8, Zenon
    <2> QED
      BY <1>2, <1>7, <2>1, <2>2, Zenon DEF BufferInv, r
  <1> QED
    BY <1>6, <1>8, <1>9, Zenon DEF e, r

\* The buffer stays.
LEMMA BufferSame ==
    ASSUME BufferInv, session'.logs = session.logs, session'.seq = session.seq
    PROVE  BufferInv'
  BY Zenon DEF BufferInv

\* The buffer is emptied, and its numbers go on or start again.
LEMMA BufferEmpty ==
    ASSUME RunTypes, session'.logs = <<>>,
           session'.seq = 1 \/ (BufferInv /\ session'.seq = session.seq)
    PROVE  BufferInv'
  <1>1. DOMAIN session'.logs = {} /\ Len(session'.logs) = 0
    OBVIOUS
  <1>2. session.seq \in Nat /\ Len(session.logs) \in Nat
    BY DEF RunTypes, RunSession
  <1>3. 0 < session'.seq /\ 0 <= MaxLogLines
    BY <1>2, LogBounds DEF BufferInv
  <1> QED
    BY <1>1, <1>3, Zenon DEF BufferInv

\* The types the lines need.
LEMMA LineTypes ==
    ASSUME RunTypes
    PROVE  /\ session \in RunSession /\ session.gen \in Nat /\ session.seq \in Nat
           /\ session.logs \in Seq(RunLine)
           /\ tab.logs \in Seq(Nat) /\ tab.lastSeq \in Nat
           /\ wire.carries \in Seq(RunLine)
  BY DEF RunTypes, RunSession, RunTab, RunWire

\* The runner writes a line, or a start empties the buffer and writes the first.
LEMMA LinePushed ==
    ASSUME LineInv, PageSame, NEW s, s \in RunSession, Pushes(s),
           s.gen = session.gen, s.seq = session.seq,
           \/ s.logs = session.logs /\ queue' = queue
           \/ s.logs = <<>> /\ ~tab.running
    PROVE  BufferInv' /\ WireInv' /\ LinesInv'
  <1> DEFINE e == [seq |-> s.seq, line |-> lines + 1]
             c == wire.carries
  <1>1. /\ RunTypes /\ BufferInv /\ WireInv /\ LinesInv /\ tab' = tab /\ cleared' = cleared
        /\ wire.open => tab.running
    BY Zenon DEF LineInv, PanelInv, PageSame, StreamInv
  <1>2. /\ BufferInv'
        /\ \A i \in DOMAIN session'.logs :
             session'.logs[i] = e \/ \E j \in DOMAIN s.logs : session'.logs[i] = s.logs[j]
    BY <1>1, BufferPushed, Zenon
  <1>3. /\ e \in RunLine /\ session'.gen = session.gen
        /\ session'.seq = session.seq + 1 /\ wire'.open = wire.open /\ wire'.gen = wire.gen
        /\ wire'.carries = IF wire.open /\ wire.gen = s.gen THEN Append(c, e) ELSE c
    BY <1>1, PushedIs, Zenon
  <1>4. e.seq = s.seq /\ c \in Seq(RunLine) /\ session.seq \in Nat /\ tab.lastSeq \in Nat
    BY <1>1, LineTypes
  <1> HIDE DEF e
  <1> SUFFICES ASSUME session.gen = 0 PROVE WireInv' /\ LinesInv'
    BY <1>2, <1>3, Zenon DEF WireInv, LinesInv
  <1>5. /\ wire.gen = 0 /\ tab.lastSeq < session.seq
        /\ \A i \in DOMAIN c : c[i].seq < session.seq
        /\ \A i, j \in DOMAIN c : i < j => c[i].seq < c[j].seq
    BY <1>1, Zenon DEF WireInv
  <1> DEFINE d == wire'.carries
             n == Len(c) + 1
  <1>6. /\ DOMAIN c = 1..Len(c) /\ Len(c) \in Nat
        /\ \A i \in DOMAIN c : c[i] \in RunLine
    BY <1>4
  <1>7. /\ DOMAIN d = IF wire.open THEN DOMAIN c \cup {n} ELSE DOMAIN c
        /\ \A i \in DOMAIN c : d[i] = c[i] /\ i < n /\ n \notin DOMAIN c
        /\ wire.open => d[n] = e
    <2> HIDE DEF c
    <2>1. wire.open => d = Append(c, e)
      BY <1>3, <1>5, Zenon
    <2>2. ~wire.open => d = c
      BY <1>3, Zenon
    <2>3. /\ \A i \in DOMAIN c : i < n
          /\ n \notin DOMAIN c
      BY <1>4, <1>6
    <2>4. /\ DOMAIN Append(c, e) = DOMAIN c \cup {n} /\ Append(c, e)[n] = e
          /\ \A i \in DOMAIN c : Append(c, e)[i] = c[i]
      <3>1. /\ Append(c, e) \in Seq(RunLine) /\ Len(Append(c, e)) = Len(c) + 1
            /\ Append(c, e)[Len(c) + 1] = e /\ \A i \in 1..Len(c) : Append(c, e)[i] = c[i]
        BY <1>3, <1>4
      <3>2. DOMAIN Append(c, e) = 1..(Len(c) + 1)
        BY <3>1
      <3> QED
        BY <1>6, <3>1, <3>2
    <2> HIDE DEF d, n
    <2>5. CASE wire.open
      BY <2>1, <2>3, <2>4, <2>5, Zenon
    <2>6. CASE ~wire.open
      BY <2>2, <2>3, <2>6, Zenon
    <2> QED
      BY <2>5, <2>6, Zenon
  <1> HIDE DEF c, d, n
  <1>8. \A x \in RunLine : x.seq \in Nat
    BY DEF RunLine
  <1>9. WireInv'
    <2>1. tab.lastSeq < session.seq + 1
      BY <1>4, <1>5
    <2>2. ASSUME NEW i \in DOMAIN d PROVE d[i].seq < session.seq + 1
      <3>1. CASE i \in DOMAIN c
        <4>1. c[i].seq \in Nat /\ c[i].seq < session.seq /\ d[i] = c[i]
          BY <1>5, <1>6, <1>7, <1>8, <3>1, Zenon
        <4> QED
          BY <1>4, <4>1
      <3>2. CASE i = n /\ wire.open
        BY <1>4, <1>7, <3>2
      <3> QED
        BY <1>7, <3>1, <3>2, Zenon
    <2>3. ASSUME NEW i \in DOMAIN d, NEW j \in DOMAIN d, i < j PROVE d[i].seq < d[j].seq
      <3>1. i \in DOMAIN c
        <4>1. DOMAIN d \subseteq Nat /\ \A k \in DOMAIN d : k <= n
          BY <1>6, <1>7 DEF n
        <4>2. i # n
          BY <2>3, <4>1
        <4> QED
          BY <1>7, <4>2, Zenon
      <3>2. CASE j \in DOMAIN c
        BY <1>5, <1>7, <2>3, <3>1, <3>2, Zenon
      <3>3. CASE j = n /\ wire.open
        BY <1>4, <1>5, <1>7, <3>1, <3>3, Zenon
      <3> QED
        BY <1>7, <3>2, <3>3, Zenon
    <2> QED
      BY <1>1, <1>3, <1>5, <2>1, <2>2, <2>3, Zenon DEF WireInv, d
  <1>10. e.seq > tab.lastSeq /\ ~(e.seq <= tab.lastSeq)
    BY <1>4, <1>5
  <1>11. ASSUME tab.running, NEW x, x.seq <= tab.lastSeq,
                \E i \in DOMAIN session'.logs : session'.logs[i] = x
         PROVE  Shown(x)'
    <2>1. x # e /\ s.logs = session.logs
      BY <1>10, <1>11, Zenon
    <2>2. PICK i \in DOMAIN session'.logs : session'.logs[i] = x
      BY <1>11, Zenon
    <2>3. \E j \in DOMAIN s.logs : session'.logs[i] = s.logs[j]
      BY <1>2, <2>1, <2>2, Zenon
    <2>4. PICK j \in DOMAIN session.logs : session.logs[j] = x
      BY <2>1, <2>2, <2>3, Zenon
    <2>5. Shown(session.logs[j])
      BY <1>1, <1>11, <2>4, Zenon DEF LinesInv
    <2> QED
      BY <1>1, <2>4, <2>5, Zenon DEF Shown
  <1>12. ASSUME wire.open, NEW i \in DOMAIN session'.logs, session'.logs[i].seq > tab.lastSeq
         PROVE  \E j \in DOMAIN d : d[j] = session'.logs[i]
    <2>1. CASE session'.logs[i] = e
      BY <1>7, <1>12, <2>1, Zenon
    <2>2. CASE session'.logs[i] # e
      <3>1. PICK j \in DOMAIN session.logs : session'.logs[i] = session.logs[j]
        BY <1>1, <1>2, <1>12, <2>2, Zenon
      <3>2. PICK k \in DOMAIN c : c[k] = session.logs[j]
        BY <1>1, <1>12, <3>1, Zenon DEF LinesInv, c
      <3> QED
        BY <1>7, <3>1, <3>2, Zenon
    <2> QED
      BY <2>1, <2>2, Zenon
  <1>13. ASSUME Started', NEW i \in DOMAIN session'.logs
         PROVE  session'.logs[i].seq > tab.lastSeq
    <2>1. CASE session'.logs[i] = e
      BY <1>10, <2>1, Zenon
    <2>2. CASE session'.logs[i] # e
      <3>1. PICK j \in DOMAIN s.logs : session'.logs[i] = s.logs[j]
        BY <1>2, <2>2, Zenon
      <3>2. s.logs # <<>>
        BY <3>1
      <3>3. s.logs = session.logs /\ Started
        BY <1>13, <3>2, Zenon DEF Started
      <3> QED
        BY <1>1, <3>1, <3>3, Zenon DEF LinesInv
    <2> QED
      BY <2>1, <2>2, Zenon
  <1>14. tab'.running => \A i \in DOMAIN session'.logs :
           session'.logs[i].seq <= tab'.lastSeq => Shown(session.logs[i])'
    BY <1>1, <1>11, Zenon DEF Shown
  <1> QED
    BY <1>1, <1>3, <1>9, <1>12, <1>13, <1>14, Zenon DEF LinesInv, d

\* The buffer stays, and so does the panel, or it stops.
LEMMA LineSame ==
    ASSUME LineInv, session'.logs = session.logs, session'.seq = session.seq,
           session'.gen = session.gen, tab'.lastSeq = tab.lastSeq,
           \/ ~tab'.running
           \/ tab.running /\ tab'.logs = tab.logs /\ cleared' = cleared,
           wire' = wire \/ Wire(wire', FALSE, 0, <<>>), Started' => Started
    PROVE  BufferInv' /\ WireInv' /\ LinesInv'
  <1>1. RunTypes /\ BufferInv /\ WireInv /\ LinesInv
    BY Zenon DEF LineInv, PanelInv
  <1>2. DOMAIN <<>> = {}
    OBVIOUS
  <1>3. BufferInv'
    BY <1>1, BufferSame, Zenon
  <1>4. WireInv'
    <2>1. CASE wire' = wire
      BY <1>1, <2>1, Zenon DEF WireInv
    <2>2. CASE Wire(wire', FALSE, 0, <<>>)
      BY <1>1, <1>2, <2>2, Zenon DEF WireInv, Wire
    <2> QED
      BY <2>1, <2>2, Zenon
  <1> SUFFICES ASSUME session.gen = 0 PROVE LinesInv'
    BY <1>3, <1>4, Zenon DEF LinesInv
  <1>5. ASSUME NEW x, Shown(x), tab'.running PROVE Shown(x)'
    BY <1>5, Zenon DEF Shown
  <1>6. tab'.running => \A i \in DOMAIN session'.logs :
          session'.logs[i].seq <= tab'.lastSeq => Shown(session.logs[i])'
    <2>1. tab'.running => \A i \in DOMAIN session.logs :
            session.logs[i].seq <= tab.lastSeq => Shown(session.logs[i])
      BY <1>1, Zenon DEF LinesInv
    <2> QED
      BY <1>5, <2>1, Zenon DEF Shown
  <1>7. wire'.open => wire' = wire
    BY Zenon DEF Wire
  <1>8. wire'.open => \A i \in DOMAIN session'.logs : session'.logs[i].seq > tab'.lastSeq
          => \E j \in DOMAIN wire'.carries : wire'.carries[j] = session'.logs[i]
    BY <1>1, <1>7, Zenon DEF LinesInv
  <1>9. Started' => \A i \in DOMAIN session'.logs : session'.logs[i].seq > tab'.lastSeq
    BY <1>1, Zenon DEF LinesInv
  <1> QED
    BY <1>3, <1>4, <1>6, <1>8, <1>9, Zenon DEF LinesInv

\* A start that failed after it had emptied the buffer.
LEMMA LineEmptied ==
    ASSUME LineInv, Session(session', 0, 0, <<>>, FALSE), PageSame, wire' = wire
    PROVE  BufferInv' /\ WireInv' /\ LinesInv'
  <1>1. RunTypes /\ BufferInv /\ WireInv
    BY Zenon DEF LineInv, PanelInv
  <1>2. /\ session'.logs = <<>> /\ session'.seq = session.seq /\ session'.gen = session.gen
        /\ tab' = tab
    BY Zenon DEF Session, PageSame
  <1>3. DOMAIN session'.logs = {}
    BY <1>2
  <1>4. BufferInv'
    BY <1>1, <1>2, BufferEmpty, Zenon
  <1> QED
    BY <1>1, <1>2, <1>3, <1>4, Zenon DEF WireInv, LinesInv

\* The server answers; only a start touches the buffer.
LEMMA LineServer ==
    ASSUME LineInv, Status \/ start \/ stop \/ sync \/ CallFails
    PROVE  BufferInv' /\ WireInv' /\ LinesInv'
  <1>1. RunTypes /\ CallsInv /\ queue \in Seq(RunCall)
    BY Zenon DEF LineInv, PanelInv, RunTypes
  <1>2. queue # <<>> /\ PageSame
    BY <1>1, StatusIs, StartIs, StopIs, SyncIs, FailIs, Zenon
  <1>3. /\ 1 \in 1..Len(queue) /\ DOMAIN queue = 1..Len(queue)
    BY <1>1, <1>2
  <1>4. ASSUME NEW a \in RunAnswers, Answer(a), a = "ok" => queue[1].op # "start"
        PROVE  Started' => Started
    <2>1. /\ queue' \in Seq(RunCall) /\ Len(queue') = Len(queue)
          /\ \A i \in 1..Len(queue) :
               /\ queue'[i].op = queue[i].op
               /\ queue'[i].answer = IF i = 1 THEN a ELSE queue[i].answer
      BY <1>1, <1>2, <1>4, AnswerIs, Zenon
    <2>2. DOMAIN queue' = 1..Len(queue)
      BY <2>1
    <2> QED
      BY <1>3, <1>4, <2>1, <2>2, Zenon DEF Started
  <1>5. {"ok", "running", "failed"} \subseteq RunAnswers
    BY DEF RunAnswers
  <1>6. CASE start
    <2>1. CASE /\ Answer("failed") /\ UNCHANGED <<wire, lines, runs>>
               /\ Session(session', 0, 0, <<>>, FALSE)
      BY <1>2, <2>1, LineEmptied, Zenon
    <2>2. CASE \E s : Session(s, runs + 1, queue[1].rev, <<>>, FALSE) /\ Pushes(s)
      <3>1. ~tab.running
        BY <1>1, <1>3, <1>6, StartIs, CallAt, Zenon
      <3> QED
        BY <1>2, <2>2, <3>1, LinePushed, Zenon DEF Session
    <2> QED
      BY <1>1, <1>6, <2>1, <2>2, StartIs, Zenon
  <1>7. CASE ~start
    <2>1. /\ session'.logs = session.logs /\ session'.seq = session.seq
          /\ session'.gen = session.gen /\ wire' = wire
      BY <1>1, <1>7, StatusIs, StopIs, SyncIs, FailIs, Zenon DEF Session
    <2>2. \E a \in RunAnswers : Answer(a) /\ (a = "ok" => queue[1].op # "start")
      BY <1>1, <1>5, <1>7, StatusIs, StopIs, SyncIs, FailIs, Zenon
    <2> QED
      BY <1>2, <1>4, <2>1, <2>2, LineSame, Zenon DEF PageSame
  <1> QED
    BY <1>6, <1>7, Zenon

\* A line is written, the session is forgotten, or the stream opens or breaks.
LEMMA LineStream ==
    ASSUME LineInv,
           pipe \/ reapIdle \/ Connect \/ DropStream \/ UNCHANGED vars
    PROVE  BufferInv' /\ WireInv' /\ LinesInv'
  <1>1. RunTypes /\ BufferInv /\ WireInv /\ LinesInv
    BY Zenon DEF LineInv, PanelInv
  <1>2. CASE pipe
    BY <1>1, <1>2, PipeIs, LinePushed, Zenon DEF Session
  <1>3. CASE reapIdle
    <2>1. session'.gen # 0 /\ session'.logs = <<>> /\ session'.seq = 1
      BY <1>1, <1>3, ReapIs, Zenon
    <2> QED
      BY <1>1, <2>1, BufferEmpty, Zenon DEF WireInv, LinesInv
  <1>4. CASE Connect
    <2>1. /\ PageSame /\ queue' = queue /\ session' = session
          /\ wire'.gen = session.gen /\ wire'.carries = session.logs
      BY <1>1, <1>4, ConnectIs, Zenon DEF Wire
    <2>2. tab' = tab /\ cleared' = cleared
      BY <2>1, Zenon DEF PageSame
    <2>3. BufferInv'
      BY <1>1, <2>1, BufferSame, Zenon
    <2>4. WireInv'
      BY <1>1, <2>1, <2>2, BufferAt, BufferSorted, Zenon DEF WireInv
    <2>5. LinesInv'
      <3>1. Started' <=> Started
        BY <2>1, Zenon DEF Started
      <3>2. \A x : Shown(x)' <=> Shown(x)
        BY <2>2, Zenon DEF Shown
      <3>3. session.gen = 0 /\ tab.running => \A i \in DOMAIN session'.logs :
              session'.logs[i].seq <= tab.lastSeq => Shown(session.logs[i])'
        BY <1>1, <2>1, <3>2, Zenon DEF LinesInv, Shown
      <3> QED
        BY <1>1, <2>1, <2>2, <3>1, <3>3, Zenon DEF LinesInv
    <2> QED
      BY <2>3, <2>4, <2>5, Zenon
  <1>5. CASE DropStream \/ UNCHANGED vars
    <2>1. UNCHANGED <<tab, cleared, queue, session>>
      BY <1>1, <1>5, DropIs, Zenon DEF PageSame, vars
    <2>2. wire' = wire \/ Wire(wire', FALSE, 0, <<>>)
      BY <1>1, <1>5, DropIs, Zenon DEF vars
    <2>3. Started' => Started
      BY <2>1, Zenon DEF Started
    <2> QED
      BY <2>1, <2>2, <2>3, LineSame, Zenon
  <1> QED
    BY <1>2, <1>3, <1>4, <1>5, Zenon

\* List q has line x at its end, and the lines of logs that are near its end.
Keeps(q, logs, x) ==
    /\ \E h \in DOMAIN q : q[h] = x /\ Len(q) <= h
    /\ \A k \in DOMAIN logs, seq, last, next \in Nat :
         last < next /\ next < seq + MaxClientLogs /\ Len(logs) + seq <= k + last
         => \E h \in DOMAIN q : q[h] = logs[k] /\ Len(q) + seq <= h + next

\* The panel takes one more line and cuts its oldest off.
LEMMA PanelKeeps ==
    ASSUME NEW logs \in Seq(Nat), NEW x \in Nat, NEW q, q = Newest(Append(logs, x), MaxClientLogs)
    PROVE  Keeps(q, logs, x)
  <1> DEFINE added == Append(logs, x)
             n == Len(logs)
             m == MaxClientLogs
  <1>1. m \in Nat \ {0} /\ n \in Nat
    BY LogBounds
  <1>2. /\ added \in Seq(Nat) /\ Len(added) = n + 1 /\ added[n + 1] = x
        /\ \A k \in 1..n : added[k] = logs[k]
    OBVIOUS
  <1> HIDE DEF added
  <1>3. /\ q \in Seq(Nat) /\ Len(q) = IF Len(added) > m THEN m ELSE Len(added)
        /\ \A i \in 1..Len(q) : q[i] = added[Len(added) - Len(q) + i]
    <2> DEFINE p == Newest(added, m)
    <2>1. /\ p \in Seq(Nat) /\ Len(p) = IF Len(added) > m THEN m ELSE Len(added)
          /\ \A i \in 1..Len(p) : p[i] = added[Len(added) - Len(p) + i]
      BY <1>1, <1>2, NewestAre, Zenon
    <2>2. q = p
      BY Zenon DEF added
    <2> HIDE DEF p, m
    <2> QED
      BY <2>1, <2>2, Zenon
  <1>4. DOMAIN q = 1..Len(q) /\ Len(q) \in Nat /\ DOMAIN logs = 1..n
    BY <1>3
  <1> DEFINE l == Len(q)
  <1> HIDE DEF m, n, l
  <1>5. l \in Nat \ {0} /\ l <= n + 1 /\ l <= m /\ (l = m \/ l = n + 1)
    BY <1>1, <1>2, <1>3, <1>4 DEF l
  <1>6. \A k \in 1..(n + 1) : l + k > n + 1 =>
          \E h \in 1..l : h = l + k - (n + 1) /\ q[h] = added[k]
    <2> SUFFICES ASSUME NEW k \in 1..(n + 1), l + k > n + 1
                 PROVE  \E h \in 1..l : h = l + k - (n + 1) /\ q[h] = added[k]
      BY Zenon
    <2> DEFINE h == l + k - (n + 1)
    <2>1. h \in 1..l /\ Len(added) - Len(q) + h = k
      BY <1>1, <1>2, <1>5 DEF l
    <2>2. q[h] = added[Len(added) - Len(q) + h]
      BY <1>3, <2>1, Zenon DEF l
    <2> HIDE DEF h
    <2>3. q[h] = added[k]
      BY <2>1, <2>2, Zenon
    <2> QED
      BY <2>1, <2>3, Zenon DEF h
  <1>7. \E h \in DOMAIN q : q[h] = x /\ Len(q) <= h
    <2>1. n + 1 \in 1..(n + 1) /\ l + (n + 1) > n + 1 /\ l + (n + 1) - (n + 1) = l /\ l <= l
      BY <1>1, <1>5
    <2>2. \E h \in 1..l : h = l + (n + 1) - (n + 1) /\ q[h] = added[n + 1]
      BY <1>6, <2>1, Zenon
    <2>3. \E h \in 1..l : l <= h /\ q[h] = x
      BY <1>2, <2>1, <2>2, Zenon DEF n
    <2> QED
      BY <1>4, <2>3, Zenon DEF l
  <1>8. ASSUME NEW k \in 1..n, NEW seq \in Nat, NEW last \in Nat, NEW next \in Nat, last < next,
               next < seq + m, n + seq <= k + last
        PROVE  \E h \in 1..l : q[h] = logs[k] /\ l + seq <= h + next
    <2>1. k \in 1..(n + 1) /\ l + k > n + 1 /\ l + seq <= l + k - (n + 1) + next
      BY <1>1, <1>5, <1>8
    <2>2. \E h \in 1..l : h = l + k - (n + 1) /\ q[h] = added[k]
      BY <1>6, <2>1, Zenon
    <2>3. added[k] = logs[k]
      BY <1>2, Zenon DEF n
    <2> QED
      BY <2>1, <2>2, <2>3, Zenon
  <1> QED
    BY <1>4, <1>7, <1>8, Zenon DEF Keeps, l, n, m

\* A line reaches the panel: those before it in the buffer are there.
LEMMA LineShows ==
    ASSUME LineInv, onLine
    PROVE  BufferInv' /\ WireInv' /\ LinesInv'
  <1> DEFINE c == wire.carries
             d == wire'.carries
             e == c[1]
             old == tab.logs
             new == tab'.logs
             last == tab.lastSeq
             seq == session.seq
  <1>1. /\ RunTypes /\ StreamInv /\ CallsInv /\ BufferInv /\ WireInv /\ LinesInv
    BY Zenon DEF LineInv, PanelInv
  <1>2. /\ c # <<>> /\ e \in RunLine /\ d = Tail(c) /\ wire'.open = wire.open /\ wire'.gen = wire.gen
        /\ UNCHANGED <<queue, session, cleared>> /\ tab'.running = tab.running
        /\ \/ e.seq <= last /\ tab' = tab
           \/ /\ ~(e.seq <= last) /\ tab'.lastSeq = e.seq
              /\ new = Newest(Append(old, e.line), MaxClientLogs)
    BY <1>1, LineIs, Zenon DEF Wire, Tab
  <1>3. /\ last \in Nat /\ e.seq \in Nat /\ e.line \in Nat
        /\ seq \in Nat /\ old \in Seq(Nat) /\ c \in Seq(RunLine)
    BY <1>1, <1>2, LineTypes DEF RunLine
  <1>4. wire.open /\ tab.running
    BY <1>1, <1>2, Zenon DEF StreamInv
  <1>5. ~Started
    <2>1. \A i \in DOMAIN queue : queue[i].op = "start" => ~tab.running
      BY <1>1, Zenon DEF CallsInv
    <2> QED
      BY <1>4, <2>1, Zenon DEF Started
  <1>6. BufferInv'
    BY <1>1, <1>2, BufferSame, Zenon
  <1> SUFFICES ASSUME session.gen = 0 PROVE WireInv' /\ LinesInv'
    BY <1>2, <1>6, Zenon DEF WireInv, LinesInv
  <1>7. /\ wire.gen = 0 /\ last < seq
        /\ \A i \in DOMAIN c : c[i].seq < seq
        /\ \A i, j \in DOMAIN c : i < j => c[i].seq < c[j].seq
    BY <1>1, Zenon DEF WireInv
  <1>8. /\ 1 \in DOMAIN c /\ \A i \in DOMAIN c : i # 1 => 1 < i
        /\ \A i \in DOMAIN d : i + 1 \in DOMAIN c /\ d[i] = c[i + 1]
        /\ \A i \in DOMAIN c : i # 1 => \E j \in DOMAIN d : d[j] = c[i]
        /\ \A i, j \in DOMAIN d : i < j => i + 1 < j + 1
    <2> HIDE DEF c
    <2>1. /\ DOMAIN c = 1..Len(c) /\ Len(c) \in Nat \ {0} /\ d \in Seq(RunLine) /\ Len(d) = Len(c) - 1
          /\ \A i \in 1..Len(d) : d[i] = c[i + 1]
      BY <1>2, <1>3
    <2> HIDE DEF d
    <2>2. DOMAIN d = 1..Len(d)
      BY <2>1
    <2>3. ASSUME NEW i \in DOMAIN c, i # 1 PROVE \E j \in DOMAIN d : d[j] = c[i]
      <3>1. i - 1 \in DOMAIN d /\ (i - 1) + 1 = i
        BY <2>1, <2>2, <2>3
      <3> QED
        BY <2>1, <2>2, <3>1, Zenon
    <2> QED
      BY <2>1, <2>2, <2>3
  <1>9. WireInv'
    <2>1. tab'.lastSeq < seq
      BY <1>2, <1>7, <1>8, Zenon
    <2>2. \A i \in DOMAIN d : d[i].seq < seq
      BY <1>7, <1>8, Zenon
    <2>3. \A i, j \in DOMAIN d : i < j => d[i].seq < d[j].seq
      BY <1>7, <1>8, Zenon
    <2> QED
      BY <1>2, <1>7, <2>1, <2>2, <2>3, Zenon DEF WireInv
  <1>10. /\ \A i \in DOMAIN session.logs : session.logs[i].seq <= last => Shown(session.logs[i])
         /\ \A i \in DOMAIN session.logs : session.logs[i].seq > last
              => \E j \in DOMAIN c : c[j] = session.logs[i]
    BY <1>1, <1>4, Zenon DEF LinesInv
  <1>11. CASE e.seq <= last /\ tab' = tab
    <2>1. ASSUME NEW x, x.seq > last, NEW j \in DOMAIN c, c[j] = x
          PROVE  \E k \in DOMAIN d : d[k] = x
      <3>1. j # 1
        BY <1>3, <1>11, <2>1
      <3> QED
        BY <1>8, <2>1, <3>1, Zenon
    <2>2. \A i \in DOMAIN session.logs : session.logs[i].seq <= last => Shown(session.logs[i])'
      BY <1>2, <1>10, <1>11, Zenon DEF Shown
    <2>3. \A i \in DOMAIN session.logs : session.logs[i].seq > last
            => \E j \in DOMAIN d : d[j] = session.logs[i]
      BY <1>10, <2>1, Zenon
    <2>4. ~Started'
      BY <1>2, <1>5, Zenon DEF Started
    <2>5. tab'.running => \A i \in DOMAIN session'.logs :
            session'.logs[i].seq <= tab'.lastSeq => Shown(session.logs[i])'
      BY <1>2, <1>11, <2>2, Zenon DEF Shown
    <2>6. \A i \in DOMAIN session'.logs : session'.logs[i].seq > tab'.lastSeq
            => \E j \in DOMAIN d : d[j] = session'.logs[i]
      BY <1>2, <1>11, <2>3, Zenon
    <2> QED
      BY <1>9, <2>4, <2>5, <2>6, Zenon DEF LinesInv
  <1>12. CASE /\ ~(e.seq <= last) /\ tab'.lastSeq = e.seq
              /\ new = Newest(Append(old, e.line), MaxClientLogs)
    <2>1. last < e.seq
      BY <1>3, <1>12
    <2>2. Keeps(new, old, e.line)
      <3>1. old \in Seq(Nat) /\ e.line \in Nat /\ new = Newest(Append(old, e.line), MaxClientLogs)
        BY <1>3, <1>12, Zenon
      <3> HIDE DEF old, new, e
      <3> QED
        BY <3>1, PanelKeeps, Zenon
    <2>3. ASSUME NEW x, NEW i \in DOMAIN session.logs, session.logs[i] = x
          PROVE  /\ x \in RunLine /\ x.seq \in Nat /\ e.seq < x.seq + MaxClientLogs
      <3>1. x \in RunLine /\ x.seq \in Nat /\ seq <= x.seq + MaxLogLines
        BY <1>1, <2>3, BufferAt, Zenon
      <3>2. e.seq < seq
        BY <1>7, <1>8, Zenon
      <3> HIDE DEF e, seq
      <3> QED
        BY <1>3, <3>1, <3>2, LogBounds
    <2>4. ASSUME NEW x, NEW i \in DOMAIN session.logs, session.logs[i] = x, x.seq <= e.seq
          PROVE  Shown(x)'
      <3>1. x \in RunLine /\ x.seq \in Nat /\ e.seq < x.seq + MaxClientLogs
        BY <2>3, <2>4, Zenon
      <3>2. CASE x.seq <= last
        <4>1. Shown(x)
          BY <1>10, <2>4, <3>2, Zenon DEF Shown
        <4>2. CASE x.line \in cleared
          BY <1>2, <4>2, Zenon DEF Shown
        <4>3. CASE \E k \in DOMAIN old : old[k] = x.line /\ Len(old) + x.seq <= k + last
          <5>1. \E h \in DOMAIN new : new[h] = x.line /\ Len(new) + x.seq <= h + e.seq
            <6>1. PICK k \in DOMAIN old : old[k] = x.line /\ Len(old) + x.seq <= k + last
              BY <4>3, Zenon
            <6>2. last \in Nat /\ e.seq \in Nat
              BY <1>3, Zenon
            <6> HIDE DEF old, new, e, last
            <6>3. \E h \in DOMAIN new : new[h] = old[k] /\ Len(new) + x.seq <= h + e.seq
              BY <2>1, <2>2, <3>1, <6>1, <6>2, Zenon DEF Keeps
            <6> QED
              BY <6>1, <6>3, Zenon
          <5> QED
            BY <1>12, <5>1, Zenon DEF Shown
        <4> QED
          BY <4>1, <4>2, <4>3, Zenon DEF Shown
      <3>3. CASE x.seq > last
        <4>1. PICK j \in DOMAIN c : c[j] = x
          BY <1>10, <2>4, <3>3, Zenon
        <4>2. x = e
          <5>1. j # 1 => e.seq < x.seq
            BY <1>7, <1>8, <4>1, Zenon
          <5>2. j = 1
            BY <1>3, <2>4, <3>1, <5>1
          <5> QED
            BY <4>1, <5>2, Zenon
        <4>3. PICK h \in DOMAIN new : new[h] = e.line /\ Len(new) <= h
          BY <2>2, Zenon DEF Keeps
        <4>4. Len(new) + e.seq <= h + e.seq
          <5>1. new \in Seq(Nat)
            BY <1>1, LineIs, Zenon DEF RunTypes, Tab, RunTab
          <5>2. Len(new) \in Nat /\ h \in Nat
            BY <5>1
          <5> QED
            BY <1>3, <4>3, <5>2
        <4> QED
          BY <1>12, <4>2, <4>3, <4>4, Zenon DEF Shown
      <3> QED
        BY <1>3, <3>1, <3>2, <3>3
    <2>5. ASSUME NEW x, NEW i \in DOMAIN session.logs, session.logs[i] = x, x.seq > e.seq
          PROVE  \E k \in DOMAIN d : d[k] = x
      <3>1. x.seq \in Nat
        BY <2>3, <2>5, Zenon
      <3>2. x.seq > last
        BY <1>3, <2>1, <2>5, <3>1
      <3>3. PICK j \in DOMAIN c : c[j] = x
        BY <1>10, <2>5, <3>2, Zenon
      <3>4. j # 1
        BY <1>3, <2>5, <3>1, <3>3
      <3> QED
        BY <1>8, <3>3, <3>4, Zenon
    <2>6. \A i \in DOMAIN session.logs : session.logs[i].seq <= e.seq => Shown(session.logs[i])'
      BY <1>2, <2>4, Zenon DEF Shown
    <2>7. \A i \in DOMAIN session.logs : session.logs[i].seq > e.seq
            => \E j \in DOMAIN d : d[j] = session.logs[i]
      BY <2>5, Zenon
    <2>8. ~Started'
      BY <1>2, <1>5, Zenon DEF Started
    <2> QED
      BY <1>2, <1>9, <1>12, <2>6, <2>7, <2>8, Zenon DEF LinesInv
  <1> QED
    BY <1>2, <1>11, <1>12, Zenon

\* The user clears the panel, or edits.
LEMMA LinePage ==
    ASSUME LineInv, ClearClick \/ Edit
    PROVE  BufferInv' /\ WireInv' /\ LinesInv'
  <1>1. RunTypes /\ BufferInv /\ WireInv /\ LinesInv /\ tab.running \in BOOLEAN
    BY DEF LineInv, PanelInv, RunTypes, RunTab
  <1>2. /\ UNCHANGED <<queue, session, wire>> /\ tab'.lastSeq = tab.lastSeq
        /\ tab'.running = tab.running
    BY <1>1, ClearIs, EditIs, Zenon DEF Tab
  <1>3. Started' <=> Started
    BY <1>2, Zenon DEF Started
  <1>4. CASE Edit
    <2>1. tab'.logs = tab.logs /\ cleared' = cleared
      BY <1>1, <1>4, EditIs, Zenon DEF Tab
    <2> QED
      BY <1>2, <1>3, <2>1, LineSame, Zenon
  <1>5. CASE ClearClick
    <2>1. cleared' = cleared \cup {tab.logs[k] : k \in DOMAIN tab.logs}
      BY <1>1, <1>5, ClearIs, Zenon
    <2>2. ASSUME NEW x, Shown(x) PROVE Shown(x)'
      BY <2>1, <2>2, Zenon DEF Shown
    <2>3. BufferInv' /\ WireInv'
      BY <1>1, <1>2, BufferSame, Zenon DEF WireInv
    <2>4. session.gen = 0 /\ tab.running => \A i \in DOMAIN session'.logs :
            session'.logs[i].seq <= tab.lastSeq => Shown(session.logs[i])'
      BY <1>1, <1>2, <2>2, Zenon DEF LinesInv, Shown
    <2>5. LinesInv'
      BY <1>1, <1>2, <1>3, <2>4, Zenon DEF LinesInv
    <2> QED
      BY <2>3, <2>5, Zenon
  <1> QED
    BY <1>4, <1>5, Zenon

\* The page sends a call, or is loaded again.
LEMMA LineSends ==
    ASSUME LineInv, TimerFires \/ StartClick \/ StopClick \/ Reload
    PROVE  BufferInv' /\ WireInv' /\ LinesInv'
  <1>1. RunTypes /\ BufferInv /\ queue \in Seq(RunCall)
    BY Zenon DEF LineInv, PanelInv, RunTypes
  <1>2. session' = session /\ \E c : c \in RunCall /\ c.answer = "none" /\ queue' = Append(queue, c)
    BY <1>1, TimerIs, ClickIs, ReloadIs, Zenon DEF Sends
  <1>3. PICK c : c \in RunCall /\ c.answer = "none" /\ queue' = Append(queue, c)
    BY <1>2, Zenon
  <1>4. Started' => Started
    <2> DEFINE n == Len(queue) + 1
    <2>1. /\ queue' \in Seq(RunCall) /\ Len(queue') = n
          /\ \A i \in 1..Len(queue) : queue'[i] = queue[i]
          /\ queue'[n] = c
      BY <1>1, <1>3, SentIs, Zenon
    <2>2. DOMAIN queue' = 1..Len(queue) \cup {n} /\ DOMAIN queue = 1..Len(queue)
      BY <1>1, <2>1
    <2> HIDE DEF n
    <2> QED
      BY <1>3, <2>1, <2>2, Zenon DEF Started
  <1>5. CASE TimerFires \/ StartClick \/ StopClick
    <2>1. /\ tab'.logs = tab.logs /\ tab'.lastSeq = tab.lastSeq /\ cleared' = cleared
          /\ wire' = wire /\ tab'.running = tab.running
      BY <1>1, <1>5, TimerIs, ClickIs, Zenon DEF Tab
    <2> QED
      BY <1>2, <1>4, <2>1, LineSame, Zenon
  <1>6. CASE Reload
    <2>1. /\ Wire(wire', FALSE, 0, <<>>) /\ queue = <<>> /\ ~tab'.running /\ tab'.lastSeq = 0
      BY <1>1, <1>6, ReloadIs, Zenon DEF Tab
    <2>2. ~Started' /\ DOMAIN <<>> = {}
      <3>1. DOMAIN queue = {} /\ DOMAIN <<>> = {}
        BY <2>1
      <3> QED
        BY <1>4, <3>1, Zenon DEF Started
    <2>3. 0 < session.seq
      <3>1. Len(session.logs) \in Nat /\ session.seq \in Nat
        BY <1>1, LineTypes
      <3> QED
        BY <1>1, <3>1 DEF BufferInv
    <2>4. BufferInv'
      BY <1>1, <1>2, BufferSame, Zenon
    <2>5. WireInv'
      BY <1>2, <2>1, <2>2, <2>3, Zenon DEF WireInv, Wire
    <2>6. LinesInv'
      BY <2>1, <2>2, Zenon DEF LinesInv, Wire
    <2> QED
      BY <2>4, <2>5, <2>6, Zenon
  <1> QED
    BY <1>5, <1>6, Zenon

\* The page comes to run: the panel has none of the buffer's lines yet.
LEMMA LineBegins ==
    ASSUME LineInv, ~tab.running, session' = session, wire' = wire,
           tab'.lastSeq = tab.lastSeq, ~Started',
           \A i \in DOMAIN session.logs : ~(session.logs[i].seq <= tab.lastSeq)
    PROVE  BufferInv' /\ WireInv' /\ LinesInv'
  <1>1. BufferInv /\ WireInv /\ ~wire.open
    BY Zenon DEF LineInv, PanelInv, StreamInv
  <1>2. BufferInv' /\ WireInv'
    BY <1>1, BufferSame, Zenon DEF WireInv
  <1> QED
    BY <1>1, <1>2, Zenon DEF LinesInv

\* The page takes an answer, and may begin to run.
LEMMA LineReplies ==
    ASSUME LineInv, StatusReply \/ StartReply \/ StopReply \/ SyncReply
    PROVE  BufferInv' /\ WireInv' /\ LinesInv'
  <1>1. /\ RunTypes /\ CallsInv /\ BufferInv /\ WireInv /\ LinesInv /\ queue \in Seq(RunCall)
        /\ tab.lastSeq \in Nat
    BY LineTypes, Zenon DEF LineInv, PanelInv, RunTypes
  <1>2. session' = session /\ \E op : Done(op)
    BY <1>1, StatusReplyIs, StartReplyIs, StopReplyIs, SyncReplyIs, Zenon
  <1>3. queue # <<>> /\ queue[1].answer # "none" /\ queue' = Tail(queue)
    BY <1>2, Zenon DEF Done
  <1>4. /\ queue' \in Seq(RunCall) /\ Len(queue) # 0 /\ Len(queue') = Len(queue) - 1
        /\ \A i \in 1..Len(queue') : queue'[i] = queue[i + 1]
    BY <1>1, <1>3, DoneIs, Zenon
  <1>5. /\ DOMAIN queue' = 1..Len(queue') /\ DOMAIN queue = 1..Len(queue)
        /\ 1 \in 1..Len(queue)
        /\ \A i \in 1..Len(queue') : i + 1 \in 1..Len(queue) /\ i + 1 # 1
    BY <1>1, <1>4
  <1>6. ~Started'
    <2> SUFFICES ASSUME NEW i \in 1..Len(queue') PROVE queue'[i].answer = "none"
      <3>1. "none" # "ok"
        OBVIOUS
      <3> QED
        BY <1>5, <3>1, Zenon DEF Started
    <2>1. queue[i + 1].answer = "none"
      BY <1>1, <1>5, CallAt, Zenon
    <2> QED
      BY <1>4, <2>1, Zenon
  <1>7. CASE StatusReply
    <2>1. /\ Done("status") /\ wire' = wire
          /\ tab' = tab \/ tab'.lastSeq = tab.lastSeq
      BY <1>1, <1>7, StatusReplyIs, Zenon DEF Tab
    <2>2. Fresh
      BY <1>1, <1>5, <2>1, CallAt, Zenon DEF Done
    <2>3. ~tab.running /\ tab.lastSeq = 0
      BY <2>2, Zenon DEF Fresh
    <2>4. ASSUME NEW i \in DOMAIN session.logs PROVE ~(session.logs[i].seq <= tab.lastSeq)
      <3> DEFINE a == session.logs[i].seq
      <3>1. a \in Nat /\ 0 < a
        BY <1>1, BufferAt, Zenon
      <3> HIDE DEF a
      <3>2. ~(a <= 0)
        BY <3>1
      <3> QED
        BY <2>3, <3>2, Zenon DEF a
    <2> QED
      BY <1>2, <1>6, <2>1, <2>3, <2>4, LineBegins, Zenon
  <1>8. CASE StartReply
    <2>1. /\ Done("start") /\ wire' = wire /\ tab'.lastSeq = tab.lastSeq /\ cleared' = cleared
          /\ queue[1].answer # "failed" \/ tab'.running = tab.running
      BY <1>1, <1>8, StartReplyIs, Zenon DEF Tab
    <2>2. queue[1].op = "start" /\ ~tab.running /\ queue[1].answer # "running"
      BY <1>1, <1>5, <2>1, CallAt, Zenon DEF Done
    <2>3. CASE tab'.running = tab.running
      BY <1>2, <1>6, <2>1, <2>2, <2>3, LineSame, Zenon
    <2>4. CASE queue[1].answer # "failed"
      <3>1. Started
        <4>1. queue[1] \in RunCall
          BY <1>1, <1>3, HeadIs, Zenon
        <4>2. queue[1].answer = "ok"
          BY <1>3, <2>2, <2>4, <4>1 DEF RunCall
        <4> QED
          BY <1>5, <2>2, <4>2, Zenon DEF Started
      <3>2. CASE session.gen = 0
        <4>1. ASSUME NEW i \in DOMAIN session.logs PROVE ~(session.logs[i].seq <= tab.lastSeq)
          <5> DEFINE a == session.logs[i].seq
          <5>1. a \in Nat /\ a > tab.lastSeq
            BY <1>1, <3>1, <3>2, BufferAt, Zenon DEF LinesInv
          <5> HIDE DEF a
          <5>2. ~(a <= tab.lastSeq)
            BY <1>1, <5>1
          <5> QED
            BY <5>2, Zenon DEF a
        <4> QED
          BY <1>2, <1>6, <2>1, <2>2, <4>1, LineBegins, Zenon
      <3>3. CASE session.gen # 0
        BY <1>1, <1>2, <3>3, BufferSame, Zenon DEF WireInv, LinesInv
      <3> QED
        BY <3>2, <3>3, Zenon
    <2> QED
      BY <2>1, <2>3, <2>4, Zenon
  <1>9. CASE StopReply
    <2>1. ~tab'.running /\ tab'.lastSeq = tab.lastSeq /\ Wire(wire', FALSE, 0, <<>>)
      BY <1>1, <1>9, StopReplyIs, Zenon DEF Tab
    <2> QED
      BY <1>2, <1>6, <2>1, LineSame, Zenon
  <1>10. CASE SyncReply
    <2>1. tab' = tab /\ cleared' = cleared /\ wire' = wire
      BY <1>1, <1>10, SyncReplyIs, Zenon DEF PageSame
    <2> QED
      BY <1>2, <1>6, <2>1, LineSame, Zenon
  <1> QED
    BY <1>7, <1>8, <1>9, <1>10, Zenon

\* Every step leaves the buffered lines shown or on their way.
LEMMA LineStep == LineInv /\ [Next]_vars => LineInv'
  BY PanelStep, LineServer, LineStream, LineShows, LinePage, LineSends, LineReplies, Zenon
     DEF LineInv, Next

\* No line was written yet.
LEMMA LineStarts == Init => LineInv
  <1> SUFFICES ASSUME Init PROVE LineInv
    OBVIOUS
  <1>1. /\ session.logs = <<>> /\ session.seq = 1 /\ tab.lastSeq = 0
        /\ ~wire.open /\ wire.gen = 0 /\ wire.carries = <<>>
        /\ ~tab.running /\ queue = <<Call("status", 0)>>
    BY DEF Init, NewSession, NewTab, NoStream
  <1>2. DOMAIN <<>> = {} /\ Len(<<>>) = 0 /\ 0 < 1 /\ 0 <= MaxLogLines
    BY LogBounds
  <1>3. ~Started
    BY <1>1 DEF Started, Call
  <1>4. BufferInv
    BY <1>1, <1>2, Zenon DEF BufferInv
  <1>5. WireInv
    BY <1>1, <1>2, Zenon DEF WireInv
  <1>6. LinesInv
    BY <1>1, <1>3, Zenon DEF LinesInv
  <1> QED
    BY <1>4, <1>5, <1>6, PanelStarts, Zenon DEF LineInv

\* A stream that has caught up has nothing left to bring.
LEMMA LinesAreShown == LineInv => EveryLineShown
  <1> SUFFICES ASSUME LineInv, session.gen = 0, tab.running, wire.open, wire.carries = <<>>,
                      NEW i \in 1..Len(session.logs)
               PROVE  session.logs[i].line \in Range(tab.logs) \cup cleared
    BY Zenon DEF EveryLineShown
  <1>1. RunTypes /\ BufferInv /\ LinesInv
    BY Zenon DEF LineInv, PanelInv
  <1>2. session.logs \in Seq(RunLine) /\ tab.lastSeq \in Nat
    BY <1>1, LineTypes, Zenon
  <1>3. i \in DOMAIN session.logs /\ DOMAIN wire.carries = {}
    BY <1>2
  <1>4. session.logs[i].seq <= tab.lastSeq
    <2> DEFINE a == session.logs[i].seq
    <2>1. a \in Nat /\ ~(a > tab.lastSeq)
      BY <1>1, <1>3, BufferAt, Zenon DEF LinesInv
    <2> HIDE DEF a
    <2>2. a <= tab.lastSeq
      BY <1>2, <2>1
    <2> QED
      BY <2>2, Zenon DEF a
  <1>5. Shown(session.logs[i])
    BY <1>1, <1>3, <1>4, Zenon DEF LinesInv
  <1> QED
    BY <1>5, Zenon DEF Shown, Range

\* RunProvider, LogBuffer and the log stream (RunContext.tsx openStream, LogBuffer.push and
\* reset): whatever bounds the two buffers have, reconnects replay lines and starts
\* empty the buffer, once a running page's stream has caught up every buffered
\* line is on the panel or was cleared by the user, until the reaper forgets the
\* session and its lines are numbered from the start again.
THEOREM PanelShowsEveryLine == Spec => []EveryLineShown
  <1>1. Init => LineInv
    BY LineStarts
  <1>2. LineInv /\ [Next]_vars => LineInv'
    BY LineStep
  <1>3. LineInv => EveryLineShown
    BY LinesAreShown
  <1> QED
    BY <1>1, <1>2, <1>3, PTL DEF Spec
=============================================================================
