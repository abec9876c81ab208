------------------------------- MODULE RunHost -------------------------------
(***************************************************************************)
(* The manager of the editor's dev runs (packages/run-host/src/session.ts, *)
(* ports.ts, reaper.ts): calls of start, stop and sync for the namespaces  *)
(* of the editor's users, the octo processes they spawn, the pool of HTTP  *)
(* ports and the idle reaper.  The code is single-threaded and interleaves *)
(* at its awaits, so a step of this module is what runs between two; a     *)
(* call that need not wait for an event resumes before the next event.     *)
(*                                                                         *)
(* A session object is a pair <<n, g>>: the g-th one of namespace n.  The  *)
(* reaper deletes the map entry, and the next call makes a new object,     *)
(* while a call that is under way keeps the old one.                       *)
(***************************************************************************)
EXTENDS Naturals, FiniteSetsExt

CONSTANTS Namespaces,
          Starts, Stops, Syncs,  \* the calls
          Networked,             \* the starts whose definition declares HTTP_PORT
          MaxPort,               \* the pool is 1 .. MaxPort
          MaxSweeps,             \* how often the reaper finds something
          Serial,                \* users wait for a call before they make the next
          Reaper,                \* the reaper, as a caller of stop
          None

Calls == Starts \cup Stops \cup Syncs \cup {Reaper}
Users == Starts \cup Stops \cup Syncs
Sessions == Namespaces \X (0 .. MaxSweeps)
Ports == 1 .. MaxPort

ASSUME RunHostAssumption ==
    /\ Networked \subseteq Starts
    /\ Reaper \notin Users
    /\ Starts \cap Stops = {} /\ Starts \cap Syncs = {} /\ Stops \cap Syncs = {}
    /\ MaxPort \in Nat /\ MaxSweeps \in Nat /\ Serial \in BOOLEAN
    /\ None \notin Calls \cup Namespaces \cup Ports \cup Sessions

VARIABLES
    gen,     \* gen[n]: the map's session object of n is <<n, gen[n]>>
    proc,    \* proc[s]: Session.proc, the start that spawned it
    port,    \* port[s]: Session.port
    config,  \* config[s]: Session.configPath, the start that wrote it
    inUse,   \* the ports taken from the pool
    files,   \* the config files on disk
    life,    \* life[c]: process of start c: "none", "running", "killed", "gone"
    bound,   \* bound[c]: the HTTP_PORT of that process
    pc,      \* pc[c]: "new", "exit", "rm", "resume", "prepare", "write", "done", "failed"
    ns,      \* ns[c]: the namespace of the call
    ses,     \* ses[c]: the session object it works on
    waits,   \* waits[c]: the process whose exit it awaits
    path,    \* path[c]: the file it removes or writes
    expired, \* namespaces the sweep has still to stop
    sweeps,  \* number of sweeps
    touched, \* history: namespaces used since the sweep looked at them
    reaped   \* history: processes the reaper stopped in such a namespace

sessionVars == <<gen, proc, port, config>>
callVars == <<ns, ses, waits, path>>
sweepVars == <<expired, sweeps, touched, reaped>>
vars == <<gen, proc, port, config, inUse, files, life, bound, pc, ns, ses, waits, path,
          expired, sweeps, touched, reaped>>

TypeOK ==
    /\ gen \in [Namespaces -> Nat]
    /\ proc \in [Sessions -> Starts \cup {None}]
    /\ port \in [Sessions -> Ports \cup {None}]
    /\ config \in [Sessions -> Starts \cup {None}]
    /\ inUse \subseteq Ports /\ files \subseteq Starts
    /\ life \in [Starts -> {"none", "running", "killed", "gone"}]
    /\ bound \in [Starts -> Ports \cup {None}]
    /\ pc \in [Calls -> {"new", "exit", "rm", "resume", "prepare", "write", "done", "failed"}]
    /\ ns \in [Calls -> Namespaces \cup {None}]
    /\ ses \in [Calls -> Sessions \cup {None}]
    /\ waits \in [Calls -> Starts \cup {None}]
    /\ path \in [Calls -> Starts \cup {None}]
    /\ expired \subseteq Namespaces /\ sweeps \in 0 .. MaxSweeps
    /\ touched \subseteq Namespaces /\ reaped \subseteq Starts
    /\ \A s \in Sessions : port[s] # None => port[s] \in inUse

Init ==
    /\ gen = [n \in Namespaces |-> 0]
    /\ proc = [s \in Sessions |-> None]
    /\ port = [s \in Sessions |-> None]
    /\ config = [s \in Sessions |-> None]
    /\ inUse = {} /\ files = {}
    /\ life = [c \in Starts |-> "none"]
    /\ bound = [c \in Starts |-> None]
    /\ pc = [c \in Calls |-> "new"]
    /\ ns = [c \in Calls |-> None]
    /\ ses = [c \in Calls |-> None]
    /\ waits = [c \in Calls |-> None]
    /\ path = [c \in Calls |-> None]
    /\ expired = {} /\ sweeps = 0 /\ touched = {} /\ reaped = {}

Session(n) == <<n, gen[n]>>
Live == {c \in Starts : life[c] \in {"running", "killed"}}
Quiet == \A c \in Calls : pc[c] # "resume"
Busy(c) == pc[c] \notin {"new", "done", "failed"}

\* Users call at any time; the serial ones wait for their namespace.
MayCall(c, n) ==
    /\ Quiet /\ pc[c] = "new"
    /\ Serial => \A d \in Users : Busy(d) => ns[d] # n

-----------------------------------------------------------------------------
(* stop, also as the first part of start and for the reaper.               *)

\* What stop does once the process is gone: W are the calls that resume.
Cleared(s, W) ==
    /\ proc' = [proc EXCEPT ![s] = None]
    /\ port' = [port EXCEPT ![s] = None]
    /\ inUse' = inUse \ {port[s]}
    /\ pc' = [c \in Calls |-> IF c \in W THEN IF config[s] # None THEN "rm" ELSE "resume" ELSE pc[c]]
    /\ path' = [c \in Calls |-> IF c \in W THEN config[s] ELSE path[c]]

\* Variant: stop goes on once it has signalled the process.
StopNoWait(c, n) ==
    LET s == Session(n) IN
    /\ ns' = [ns EXCEPT ![c] = n]
    /\ ses' = [ses EXCEPT ![c] = s]
    /\ waits' = [waits EXCEPT ![c] = proc[s]]
    /\ life' = IF proc[s] # None THEN [life EXCEPT ![proc[s]] = "killed"] ELSE life
    /\ Cleared(s, {c})
    /\ UNCHANGED <<config, files, bound>>

\* Until its first await: signal the process and wait for its exit.
StopBegins(c, n) ==
    LET s == Session(n)
        p == proc[s] IN
    /\ ns' = [ns EXCEPT ![c] = n]
    /\ ses' = [ses EXCEPT ![c] = s]
    /\ waits' = [waits EXCEPT ![c] = p]
    /\ \/ /\ p # None
          /\ life' = [life EXCEPT ![p] = "killed"]
          /\ pc' = [pc EXCEPT ![c] = "exit"]
          /\ UNCHANGED <<proc, port, inUse, path>>
       \/ /\ p = None
          /\ Cleared(s, {c})
          /\ UNCHANGED life
    /\ UNCHANGED <<config, files, bound>>

\* start and stop are called.
Call(c, n) ==
    /\ c \in Starts \cup Stops
    /\ MayCall(c, n)
    /\ StopBegins(c, n)
    /\ touched' = touched \cup {n}
    /\ UNCHANGED <<gen, expired, sweeps, reaped>>

\* Variant: the exit handler leaves the port to the next stop.
FinishKeepsPort(p) ==
    LET s == ses[p]
        W == {c \in Calls : pc[c] = "exit" /\ waits[c] = p} IN
    /\ Quiet /\ p \in Live
    /\ life' = [life EXCEPT ![p] = "gone"]
    /\ IF W # {}
         THEN Cleared(s, W)
         ELSE /\ proc' = IF proc[s] = p THEN [proc EXCEPT ![s] = None] ELSE proc
              /\ UNCHANGED <<port, inUse, pc, path>>
    /\ UNCHANGED <<gen, config, files, bound, ns, ses, waits, sweepVars>>

\* Variant: the process has one slot for a promise, and only one of its stops resumes.
ExitWakesOne(p) ==
    LET W == {c \in Calls : pc[c] = "exit" /\ waits[c] = p} IN
    /\ Quiet /\ p \in Live
    /\ life' = [life EXCEPT ![p] = "gone"]
    /\ IF W # {}
         THEN Cleared(ses[p], {CHOOSE c \in W : TRUE})
         ELSE Cleared(ses[p], {})
    /\ UNCHANGED <<gen, config, files, bound, ns, ses, waits, sweepVars>>

\* The process exits, signalled or not: its exit handler, and the stops that await it.
Exit(p) ==
    LET s == ses[p]
        own == proc[s] = p
        W == {c \in Calls : pc[c] = "exit" /\ waits[c] = p} IN
    /\ Quiet /\ p \in Live
    /\ life' = [life EXCEPT ![p] = "gone"]
    /\ IF W # {}
         THEN Cleared(s, W)
         ELSE /\ proc' = IF own THEN [proc EXCEPT ![s] = None] ELSE proc
              /\ IF own /\ bound[p] # None /\ port[s] = bound[p]
                   THEN /\ inUse' = inUse \ {bound[p]}
                        /\ port' = [port EXCEPT ![s] = None]
                   ELSE UNCHANGED <<inUse, port>>
              /\ UNCHANGED <<pc, path>>
    /\ UNCHANGED <<gen, config, files, bound, ns, ses, waits, sweepVars>>

\* The config file is removed, and only then forgotten.
Remove(c) ==
    /\ Quiet /\ pc[c] = "rm"
    /\ files' = files \ {path[c]}
    /\ config' = [config EXCEPT ![ses[c]] = None]
    /\ pc' = [pc EXCEPT ![c] = "resume"]
    /\ UNCHANGED <<gen, proc, port, inUse, life, bound, callVars, sweepVars>>

\* stop returns to its user.
StopReturns(c) ==
    /\ c \in Stops /\ pc[c] = "resume"
    /\ pc' = [pc EXCEPT ![c] = "done"]
    /\ UNCHANGED <<sessionVars, inUse, files, life, bound, callVars, sweepVars>>

-----------------------------------------------------------------------------
(* The rest of start, and sync.                                            *)

\* start resumes after stop, takes the session object and writes the config file.
Prepare(c) ==
    /\ c \in Starts /\ pc[c] = "resume"
    /\ ses' = [ses EXCEPT ![c] = Session(ns[c])]
    /\ pc' = [pc EXCEPT ![c] = "prepare"]
    /\ UNCHANGED <<sessionVars, inUse, files, life, bound, ns, waits, path, sweepVars>>

\* The ports allocatePort chooses from; it takes the lowest.
Free == Ports \ inUse

\* The file is written: start takes a port and spawns the process ...
Spawn(c) ==
    LET s == ses[c]
        b == IF c \in Networked THEN Min(Free) ELSE None IN
    /\ Quiet /\ pc[c] = "prepare"
    /\ c \in Networked => Free # {}
    /\ files' = files \cup {c}
    /\ config' = [config EXCEPT ![s] = c]
    /\ inUse' = IF b = None THEN inUse ELSE inUse \cup {b}
    /\ port' = [port EXCEPT ![s] = b]
    /\ bound' = [bound EXCEPT ![c] = b]
    /\ proc' = [proc EXCEPT ![s] = c]
    /\ life' = [life EXCEPT ![c] = "running"]
    /\ pc' = [pc EXCEPT ![c] = "done"]
    /\ UNCHANGED <<gen, callVars, sweepVars>>

\* ... or throws because the pool is exhausted.
NoPort(c) ==
    /\ Quiet /\ pc[c] = "prepare"
    /\ c \in Networked /\ Free = {}
    /\ files' = files \cup {c}
    /\ config' = [config EXCEPT ![ses[c]] = c]
    /\ pc' = [pc EXCEPT ![c] = "failed"]
    /\ UNCHANGED <<gen, proc, port, inUse, life, bound, callVars, sweepVars>>

\* sync is called: nothing to do unless the namespace runs ...
SyncBegins(c, n) ==
    LET s == Session(n)
        running == proc[s] # None /\ config[s] # None IN
    /\ c \in Syncs
    /\ MayCall(c, n)
    /\ ns' = [ns EXCEPT ![c] = n]
    /\ path' = [path EXCEPT ![c] = IF running THEN config[s] ELSE None]
    /\ pc' = [pc EXCEPT ![c] = IF running THEN "write" ELSE "done"]
    /\ touched' = touched \cup {n}
    /\ UNCHANGED <<sessionVars, inUse, files, life, bound, ses, waits, expired, sweeps, reaped>>

\* ... and otherwise it writes the file that the process watches.
SyncWrites(c) ==
    /\ Quiet /\ pc[c] = "write"
    /\ files' = files \cup {path[c]}
    /\ pc' = [pc EXCEPT ![c] = "done"]
    /\ UNCHANGED <<sessionVars, inUse, life, bound, callVars, sweepVars>>

-----------------------------------------------------------------------------
(* reapIdle.                                                               *)

\* The namespaces with a session that no call is using.
Idle == {n \in Namespaces : (\E c \in Users : ns[c] = n) /\ (\A c \in Users : ns[c] = n => ~Busy(c))}

Reap(n) ==
    /\ StopBegins(Reaper, n)
    /\ reaped' = reaped \cup {p \in Starts : n \in touched /\ proc[Session(n)] = p /\ life[p] = "running"}

\* A sweep collects the namespaces nobody has used for an hour (a call takes
\* less), and begins to stop the first one.
Sweep(n) ==
    /\ Quiet /\ ~Busy(Reaper) /\ sweeps < MaxSweeps
    /\ \E E \in SUBSET Idle :
         n \in E /\ expired' = E \ {n}
    /\ sweeps' = sweeps + 1
    /\ touched' = {}
    /\ StopBegins(Reaper, n)
    /\ UNCHANGED <<gen, reaped>>

\* When a namespace is stopped its map entry is deleted, and the sweep goes on
\* to the next one it collected ...
ReapNext(n) ==
    /\ pc[Reaper] = "resume" /\ n \in expired
    /\ gen' = [gen EXCEPT ![ns[Reaper]] = @ + 1]
    /\ expired' = expired \ {n}
    /\ Reap(n)
    /\ UNCHANGED <<sweeps, touched>>

\* ... or is over.
ReapLast ==
    /\ pc[Reaper] = "resume" /\ expired = {}
    /\ gen' = [gen EXCEPT ![ns[Reaper]] = @ + 1]
    /\ pc' = [pc EXCEPT ![Reaper] = "done"]
    /\ UNCHANGED <<proc, port, config, inUse, files, life, bound, callVars, sweepVars>>

Done == (\A c \in Users : pc[c] \in {"done", "failed"}) /\ ~Busy(Reaper) /\ UNCHANGED vars

Next ==
    \/ \E c \in Users, n \in Namespaces : Call(c, n) \/ SyncBegins(c, n)
    \/ \E c \in Calls : Remove(c) \/ StopReturns(c) \/ Prepare(c) \/ Spawn(c) \/ NoPort(c) \/ SyncWrites(c)
    \/ \E p \in Starts : Exit(p)
    \/ \E n \in Namespaces : Sweep(n) \/ ReapNext(n)
    \/ ReapLast
    \/ Done

Spec == Init /\ [][Next]_vars

\* File operations and continuations finish, and a signalled process exits
\* (SIGKILL follows SIGTERM); nobody has to call, and no process exits of itself.
Fairness ==
    /\ \A c \in Calls : WF_vars(Remove(c) \/ StopReturns(c) \/ Prepare(c) \/ Spawn(c) \/ NoPort(c) \/ SyncWrites(c))
    /\ \A p \in Starts : WF_vars(life[p] = "killed" /\ Exit(p))
    /\ WF_vars(ReapLast \/ \E n \in Namespaces : ReapNext(n))

FairSpec == Spec /\ Fairness

-----------------------------------------------------------------------------
(* Properties.                                                             *)

\* A session object never has two processes, whatever the reaper does, as long as
\* the users of a namespace wait for their calls: start stops the one before it,
\* also through the object that a call keeps over its awaits.
OneRunnerPerSession == \A c, d \in Live : ses[c] = ses[d] => c = d

\* The pool has no leak: exactly the ports of the running processes are taken.
NoPortLeak == inUse = {bound[c] : c \in Live} \ {None}

\* The map knows every process, so that stop, the reaper and the exit hook reach it.
NoOrphan == \A c \in Live : \E n \in Namespaces : proc[Session(n)] = c

\* The reaper stops no run of a namespace that is in use.
ActiveStays == reaped = {}

\* Every call ends, however the calls overlap: from whatever is under way the host
\* comes to rest (there are finitely many calls).
CallsEnd == (\E c \in Calls : Busy(c)) ~> (\A c \in Calls : ~Busy(c))
=============================================================================
