---------------------------- MODULE RunHostProofs ----------------------------
(***************************************************************************)
(* Proofs about the dev runs, for any number of namespaces, calls, ports   *)
(* and sweeps: a session object never has two processes, and the pool of   *)
(* ports has no leak, as long as the users of a namespace wait for their   *)
(* calls.                                                                  *)
(***************************************************************************)
EXTENDS RunHost, WellFoundedInduction, TLAPS

-----------------------------------------------------------------------------
(* The inductive invariant.                                                *)

\* The types that the argument needs.
Types ==
    /\ gen \in [Namespaces -> Nat]
    /\ proc \in [Sessions -> Starts \cup {None}]
    /\ port \in [Sessions -> Ports \cup {None}]
    /\ inUse \subseteq Ports
    /\ life \in [Starts -> {"none", "running", "killed", "gone"}]
    /\ bound \in [Starts -> Ports \cup {None}]
    /\ pc \in [Calls -> {"new", "exit", "rm", "resume", "prepare", "write", "done", "failed"}]
    /\ ns \in [Calls -> Namespaces \cup {None}]
    /\ ses \in [Calls -> Sessions \cup {None}]
    /\ waits \in [Calls -> Starts \cup {None}]
    /\ expired \subseteq Namespaces /\ sweeps \in 0 .. MaxSweeps

\* The sweep deletes the map entry of a namespace at most once, so every session
\* object it leads to is one of Sessions.
Swept ==
    /\ Busy(Reaper) => ns[Reaper] \in Namespaces \ expired
    /\ \A n \in Namespaces :
         gen[n] + (IF Busy(Reaper) /\ (n \in expired \/ ns[Reaper] = n) THEN 1 ELSE 0) <= sweeps

\* A call that is under way has an object of its namespace, which the map has, or
\* had before the reaper deleted it.
Placed ==
    \A c \in Calls :
        /\ Busy(c) => ns[c] \in Namespaces
        /\ pc[c] \in {"exit", "rm", "resume", "prepare"} => ses[c] \in Sessions
        /\ pc[c] = "new" => ses[c] = None
        /\ pc[c] = "prepare" => c \in Starts
        /\ ses[c] # None => ses[c][1] = ns[c] /\ ses[c][2] <= gen[ns[c]]

\* The users of a namespace wait for their calls.
OneUser == \A c, d \in Users : Busy(c) /\ Busy(d) /\ ns[c] = ns[d] => c = d

\* A process that lives is the one of its object, and no other object names it;
\* an object that the map will have later is empty.
Owned ==
    /\ \A c \in Starts : life[c] # "none" => pc[c] = "done" /\ ses[c] \in Sessions
    /\ \A c \in Live : proc[ses[c]] = c
    /\ \A s \in Sessions : /\ proc[s] # None => proc[s] \in Live /\ ses[proc[s]] = s
                           /\ s[2] > gen[s[1]] => proc[s] = None

\* A stop that waits for an exit waits for the process of its object, and the object
\* of a start that has stopped the run before it is empty; so is the object that the
\* map has by then, when the reaper has deleted the one the start began with.
Stopped ==
    /\ \A c \in Calls : pc[c] = "exit" => waits[c] # None /\ proc[ses[c]] = waits[c]
    /\ \A c \in Starts : /\ pc[c] \in {"exit", "rm", "resume"} =>
                              \/ proc[Session(ns[c])] = None
                              \/ pc[c] = "exit" /\ ses[c] = Session(ns[c])
                         /\ pc[c] = "prepare" => proc[ses[c]] = None

\* The ports of the objects are those of their processes, and no two have the same.
Ported ==
    /\ \A s \in Sessions : port[s] = IF proc[s] = None THEN None ELSE bound[proc[s]]
    /\ \A c, d \in Live : bound[c] # None /\ bound[c] = bound[d] => c = d
    /\ \A q \in Ports : q \in inUse <=> \E c \in Live : bound[c] = q

HostInv == Types /\ Swept /\ Placed /\ OneUser /\ Owned /\ Stopped /\ Ported

-----------------------------------------------------------------------------
(* Lemmas.                                                                 *)

\* A set of numbers that is not empty has a least one: allocatePort finds it.
LEMMA LeastOf == ASSUME NEW S \in SUBSET Nat, S # {} PROVE Min(S) \in S
  <1> DEFINE R == {ss \in Nat \X Nat : ss[1] < ss[2]}
  <1>1. IsWellFoundedOn(R, Nat)
    BY NatLessThanWellFounded, Zenon DEF OpToRel
  <1>2. PICK x \in S : \A y \in S : ~ (<<y, x>> \in R)
    <2> HIDE DEF R
    <2> QED
      BY <1>1, WFMin, Zenon
  <1>3. ASSUME NEW y \in S PROVE x <= y
    <2>1. <<y, x>> \in Nat \X Nat /\ <<y, x>>[1] = y /\ <<y, x>>[2] = x
      OBVIOUS
    <2>2. ~ (y < x)
      BY <1>2, <2>1, Zenon
    <2> QED
      BY <2>2
  <1> QED
    BY <1>3, Zenon DEF Min

\* The objects that the map has are in Sessions.
LEMMA SessionIn ==
    ASSUME Types, Swept, NEW n \in Namespaces
    PROVE  Session(n) \in Sessions /\ Session(n)[1] = n /\ Session(n)[2] = gen[n]
  <1>1. gen[n] \in Nat /\ sweeps \in 0 .. MaxSweeps /\ gen[n] <= sweeps
    BY DEF Types, Swept
  <1> QED
    BY <1>1, RunHostAssumption DEF Session, Sessions

\* Nobody has called yet.
LEMMA HostInit == Init => HostInv
  <1> SUFFICES ASSUME Init PROVE HostInv
    OBVIOUS
  <1>1. Types
    BY RunHostAssumption DEF Init, Types
  <1>2. Swept
    BY RunHostAssumption DEF Init, Swept, Busy, Calls
  <1>3. Placed /\ OneUser
    BY Zenon DEF Init, Placed, OneUser, Busy, Calls, Users
  <1>4. Owned
    BY RunHostAssumption, Zenon DEF Init, Owned, Live
  <1>5. Stopped
    BY Zenon DEF Init, Stopped, Calls
  <1>6. Ported
    BY RunHostAssumption, Zenon DEF Init, Ported, Live, Ports
  <1> QED
    BY <1>1, <1>2, <1>3, <1>4, <1>5, <1>6, Zenon DEF HostInv

\* A call goes on, or ends, and does nothing else that the invariant speaks of.
LEMMA CallGoesOn ==
    ASSUME HostInv, NEW c \in Calls, Busy(c), NEW x \in {"resume", "done", "failed"},
           pc' = [pc EXCEPT ![c] = x], x = "resume" => pc[c] = "rm",
           UNCHANGED <<gen, proc, port, inUse, life, bound, ns, ses, waits, expired, sweeps>>
    PROVE  HostInv'
  <1>0. Types /\ Swept /\ Placed /\ OneUser /\ Owned /\ Stopped /\ Ported
    BY Zenon DEF HostInv
  <1>1. Types'
    BY <1>0, Zenon DEF Types
  <1>2. \A d \in Calls : pc'[d] = IF d = c THEN x ELSE pc[d]
    BY <1>0, Zenon DEF Types
  <1>3. \A d \in Calls : Busy(d)' => Busy(d)
    BY <1>2, Zenon DEF Busy
  <1>4. Swept'
    <2>1. Reaper \in Calls
      BY Zenon DEF Calls
    <2> QED
      BY <1>0, <1>3, <2>1 DEF Swept, Types
  <1>5. Placed' /\ OneUser'
    BY <1>0, <1>2, <1>3 DEF Placed, OneUser, Users, Calls
  <1>6. Live' = Live
    BY Zenon DEF Live
  <1>7. Owned'
    BY <1>0, <1>2, <1>6 DEF Owned, Busy, Calls
  <1>8. Stopped'
    BY <1>0, <1>2 DEF Stopped, Session, Calls
  <1>9. Ported'
    BY <1>0, <1>6 DEF Ported
  <1> QED
    BY <1>1, <1>4, <1>5, <1>7, <1>8, <1>9, Zenon DEF HostInv

-----------------------------------------------------------------------------
(* stop.                                                                   *)

\* What stop does until its first await: it signals the process of the object and
\* waits for it, or finds the object empty.
LEMMA StopBegan ==
    ASSUME HostInv, NEW c \in Calls, NEW n \in Namespaces, StopBegins(c, n)
    PROVE  /\ UNCHANGED <<proc, port, inUse, bound>>
           /\ life' \in [Starts -> {"none", "running", "killed", "gone"}] /\ Live' = Live
           /\ \A d \in Starts : life'[d] = "none" <=> life[d] = "none"
           /\ ns' = [ns EXCEPT ![c] = n] /\ ses' = [ses EXCEPT ![c] = Session(n)]
           /\ waits' = [waits EXCEPT ![c] = proc[Session(n)]]
           /\ \A d \in Calls \ {c} : pc'[d] = pc[d]
           /\ pc' \in [Calls -> {"new", "exit", "rm", "resume", "prepare", "write", "done", "failed"}]
           /\ \/ pc'[c] = "exit" /\ proc[Session(n)] # None
              \/ pc'[c] \in {"rm", "resume"} /\ proc[Session(n)] = None
  <1>0. Types /\ Owned /\ Ported /\ Session(n) \in Sessions
    BY SessionIn, Zenon DEF HostInv
  <1> DEFINE s == Session(n)
             p == proc[s]
  <1>1. /\ ns' = [ns EXCEPT ![c] = n] /\ ses' = [ses EXCEPT ![c] = s]
        /\ waits' = [waits EXCEPT ![c] = p] /\ bound' = bound
    BY Zenon DEF StopBegins
  <1>2. CASE /\ p # None
             /\ life' = [life EXCEPT ![p] = "killed"]
             /\ pc' = [pc EXCEPT ![c] = "exit"]
             /\ UNCHANGED <<proc, port, inUse, path>>
    <2>1. p \in Live
      BY <1>0, <1>2, Zenon DEF Owned
    <2>2. p \in Starts /\ life[p] \in {"running", "killed"}
      BY <2>1, Zenon DEF Live
    <2>3. \A d \in Starts : life'[d] = IF d = p THEN "killed" ELSE life[d]
      BY <1>0, <1>2, Zenon DEF Types
    <2>4. Live' = Live
      BY <2>2, <2>3, Zenon DEF Live
    <2> HIDE DEF p, s
    <2> QED
      BY <1>0, <1>1, <1>2, <2>2, <2>3, <2>4 DEF Types, p, s
  <1>3. CASE p = None /\ Cleared(s, {c}) /\ UNCHANGED life
    <2>1. proc' = [proc EXCEPT ![s] = None] /\ port' = [port EXCEPT ![s] = None] /\ inUse' = inUse \ {port[s]}
      BY <1>3, Zenon DEF Cleared
    <2>2. port[s] = None /\ None \notin inUse
      BY <1>0, <1>3, RunHostAssumption, Zenon DEF Ported, Types
    <2>3. proc' = proc /\ port' = port /\ inUse' = inUse
      BY <1>0, <1>3, <2>1, <2>2 DEF Types
    <2>4. pc' = [d \in Calls |-> IF d \in {c} THEN IF config[s] # None THEN "rm" ELSE "resume" ELSE pc[d]]
      BY <1>3, Zenon DEF Cleared
    <2>5. Live' = Live
      BY <1>3, Zenon DEF Live
    <2> HIDE DEF p, s
    <2> QED
      BY <1>0, <1>1, <1>3, <2>3, <2>4, <2>5, Zenon DEF Types, p, s
  <1> QED
    BY <1>2, <1>3, Zenon DEF StopBegins

\* The object that a call makes when the reaper has deleted the one before is empty.
LEMMA LaterEmpty ==
    ASSUME HostInv, Types', Swept', NEW n \in Namespaces, gen'[n] >= gen[n], gen'[n] # gen[n]
    PROVE  proc[<<n, gen'[n]>>] = None
  <1> DEFINE t == <<n, gen'[n]>>
  <1>1. gen[n] \in Nat /\ Owned
    BY Zenon DEF HostInv, Types
  <1>2. gen'[n] \in Nat /\ sweeps' \in 0 .. MaxSweeps /\ gen'[n] <= sweeps'
    BY DEF Types, Swept
  <1> HIDE DEF Types, Swept
  <1>3. t \in Sessions /\ t[1] = n /\ t[2] = gen'[n]
    BY <1>2, RunHostAssumption DEF Sessions
  <1>4. gen'[n] > gen[n]
    BY <1>1, <1>2
  <1> HIDE DEF t
  <1>5. proc[t] = None
    BY <1>1, <1>3, <1>4, Zenon DEF Owned
  <1> QED
    BY <1>5, Zenon DEF t

\* A stop that begins keeps the invariant.  Only the reaper's advances gen, for the
\* namespace it has just stopped.
LEMMA StopKeeps ==
    ASSUME HostInv, NEW c \in Calls, NEW n \in Namespaces, StopBegins(c, n),
           c \in Users => pc[c] = "new" /\ \A d \in Users : Busy(d) => ns[d] # n,
           c = Reaper \/ c \in Starts \cup Stops,
           gen' \in [Namespaces -> Nat], \A m \in Namespaces : gen'[m] >= gen[m],
           gen'[n] = gen[n], Types', Swept'
    PROVE  HostInv'
  <1>0. Types /\ Swept /\ Placed /\ OneUser /\ Owned /\ Stopped /\ Ported
    BY Zenon DEF HostInv
  <1> DEFINE s == Session(n)
  <1>1. s \in Sessions /\ s[1] = n /\ s[2] = gen[n]
    BY <1>0, SessionIn, Zenon
  <1>2. /\ UNCHANGED <<proc, port, inUse, bound>> /\ Live' = Live
        /\ \A d \in Starts : life'[d] = "none" <=> life[d] = "none"
        /\ \A d \in Calls \ {c} : pc'[d] = pc[d]
        /\ \/ pc'[c] = "exit" /\ proc[s] # None
           \/ pc'[c] \in {"rm", "resume"} /\ proc[s] = None
    BY StopBegan, Zenon
  <1>3. \A d \in Calls : /\ ns'[d] = IF d = c THEN n ELSE ns[d]
                         /\ ses'[d] = IF d = c THEN s ELSE ses[d]
                         /\ waits'[d] = IF d = c THEN proc[s] ELSE waits[d]
    BY <1>0, StopBegan DEF Types
  <1>4. c \in Starts => life[c] = "none"
    BY <1>0, Zenon DEF Owned, Users
  <1> HIDE DEF s
  <1>5. Placed'
    <2> SUFFICES ASSUME NEW d \in Calls
                 PROVE  (/\ Busy(d) => ns[d] \in Namespaces
                         /\ pc[d] \in {"exit", "rm", "resume", "prepare"} => ses[d] \in Sessions
                         /\ pc[d] = "new" => ses[d] = None
                         /\ pc[d] = "prepare" => d \in Starts
                         /\ ses[d] # None => ses[d][1] = ns[d] /\ ses[d][2] <= gen[ns[d]])'
      BY Zenon DEF Placed
    <2>1. CASE d = c
      BY <1>1, <1>2, <1>3, <2>1, <1>0 DEF Types
    <2>2. CASE d # c
      <3>1. ses[d] # None => ses[d] \in Sessions /\ ns[d] \in Namespaces /\ ses[d][2] \in Nat
        BY <1>0 DEF Types, Placed, Sessions
      <3> QED
        BY <1>0, <1>2, <1>3, <2>2, <3>1 DEF Placed, Busy, Types
    <2> QED
      BY <2>1, <2>2, Zenon
  <1>6. OneUser'
    BY <1>0, <1>2, <1>3, RunHostAssumption DEF OneUser, Users, Busy, Calls
  <1>7. Owned'
    <2>1. \A d \in Starts : life'[d] # "none" => pc'[d] = "done" /\ ses'[d] \in Sessions /\ ses'[d] = ses[d]
      BY <1>0, <1>2, <1>3, <1>4 DEF Owned, Calls
    <2>2. \A d \in Live : d \in Starts /\ life[d] # "none"
      BY Zenon DEF Live
    <2>3. \A t \in Sessions : t[2] > gen'[t[1]] => t[2] > gen[t[1]]
      BY <1>0 DEF Types, Sessions
    <2> QED
      BY <1>0, <1>2, <2>1, <2>2, <2>3 DEF Owned
  <1>8. Stopped'
    <2>1. \A d \in Calls : pc'[d] = "exit" => waits'[d] # None /\ proc'[ses'[d]] = waits'[d]
      BY <1>0, <1>2, <1>3 DEF Stopped
    <2>2. ASSUME NEW d \in Starts, pc'[d] \in {"exit", "rm", "resume"}
          PROVE  \/ proc'[Session(ns[d])'] = None
                 \/ pc'[d] = "exit" /\ ses'[d] = Session(ns[d])'
      <3>1. d \in Calls
        BY Zenon DEF Calls
      <3>2. CASE d = c
        <4>1. Session(ns[d])' = s
          BY <1>3, <3>1, <3>2, Zenon DEF Session, s
        <4> QED
          BY <1>2, <1>3, <2>2, <3>1, <3>2, <4>1, Zenon
      <3>3. CASE d # c
        <4>1. /\ ns'[d] = ns[d] /\ pc'[d] = pc[d] /\ ses'[d] = ses[d] /\ ns[d] \in Namespaces
              /\ proc[Session(ns[d])] = None \/ (pc[d] = "exit" /\ ses[d] = Session(ns[d]))
          BY <1>0, <1>2, <1>3, <2>2, <3>1, <3>3, Zenon DEF Stopped, Placed, Busy
        <4>2. CASE gen'[ns[d]] = gen[ns[d]]
          BY <1>2, <4>1, <4>2, Zenon DEF Session
        <4>3. CASE gen'[ns[d]] # gen[ns[d]]
          BY <1>2, <4>1, <4>3, LaterEmpty, Zenon DEF Session
        <4> QED
          BY <4>2, <4>3, Zenon
      <3> QED
        BY <3>2, <3>3, Zenon
    <2>3. ASSUME NEW d \in Starts, pc'[d] = "prepare" PROVE proc'[ses'[d]] = None
      BY <1>0, <1>2, <1>3, <2>3 DEF Stopped, Calls
    <2> QED
      BY <2>1, <2>2, <2>3, Zenon DEF Stopped
  <1>9. Ported'
    BY <1>0, <1>2 DEF Ported
  <1> QED
    BY <1>5, <1>6, <1>7, <1>8, <1>9, Zenon DEF HostInv

\* Whoever begins a stop, the state keeps its types.
LEMMA StopTypes ==
    ASSUME HostInv, NEW c \in Calls, NEW n \in Namespaces, StopBegins(c, n),
           gen' \in [Namespaces -> Nat], expired' \subseteq Namespaces, sweeps' \in 0 .. MaxSweeps
    PROVE  Types'
  <1>1. Types /\ Session(n) \in Sessions /\ proc[Session(n)] \in Starts \cup {None}
    BY SessionIn, Zenon DEF HostInv, Types
  <1>2. ns' \in [Calls -> Namespaces \cup {None}]
    BY <1>1, StopBegan DEF Types
  <1>3. ses' \in [Calls -> Sessions \cup {None}]
    BY <1>1, StopBegan DEF Types
  <1>4. waits' \in [Calls -> Starts \cup {None}]
    BY <1>1, StopBegan DEF Types
  <1> QED
    BY <1>1, <1>2, <1>3, <1>4, StopBegan DEF Types

\* start and stop are called.
LEMMA CallKeeps ==
    ASSUME HostInv, Serial, NEW c \in Users, NEW n \in Namespaces, Call(c, n)
    PROVE  HostInv'
  <1>0. Types /\ Swept /\ c \in Calls /\ c # Reaper /\ Reaper \in Calls
    BY RunHostAssumption, Zenon DEF HostInv, Calls, Users
  <1>1. /\ c \in Starts \cup Stops /\ pc[c] = "new" /\ StopBegins(c, n)
        /\ \A d \in Users : Busy(d) => ns[d] # n
        /\ UNCHANGED <<gen, expired, sweeps>>
    BY Zenon DEF Call, MayCall
  <1>2. gen \in [Namespaces -> Nat] /\ expired \subseteq Namespaces /\ sweeps \in 0 .. MaxSweeps
    BY <1>0, Zenon DEF Types
  <1>3. Types'
    BY <1>0, <1>1, <1>2, StopTypes, Zenon
  <1>4. pc'[Reaper] = pc[Reaper] /\ ns'[Reaper] = ns[Reaper]
    BY <1>0, <1>1, StopBegan DEF Types
  <1>5. Swept'
    BY <1>0, <1>1, <1>4, Zenon DEF Swept, Busy
  <1>6. gen' \in [Namespaces -> Nat] /\ gen'[n] = gen[n] /\ \A m \in Namespaces : gen'[m] >= gen[m]
    BY <1>0, <1>1 DEF Types
  <1> QED
    BY <1>0, <1>1, <1>3, <1>5, <1>6, StopKeeps, Zenon

\* A sweep begins, with every namespace it collects still to be deleted once.
LEMMA SweepKeeps ==
    ASSUME HostInv, NEW n \in Namespaces, Sweep(n)
    PROVE  HostInv'
  <1>0. Types /\ Swept /\ Reaper \in Calls /\ Reaper \notin Users
    BY RunHostAssumption, Zenon DEF HostInv, Calls
  <1>1. /\ ~Busy(Reaper) /\ sweeps < MaxSweeps /\ sweeps' = sweeps + 1
        /\ expired' \subseteq Namespaces /\ n \notin expired'
        /\ StopBegins(Reaper, n) /\ gen' = gen
    BY Zenon DEF Sweep, Idle
  <1>2. gen' \in [Namespaces -> Nat]
    BY <1>0, <1>1, Zenon DEF Types
  <1>3. sweeps' \in 0 .. MaxSweeps
    BY <1>0, <1>1, RunHostAssumption DEF Types
  <1>4. Types'
    BY <1>0, <1>1, <1>2, <1>3, StopTypes, Zenon
  <1>5. ns'[Reaper] = n
    BY <1>0, <1>1, StopBegan DEF Types
  <1>6. \A m \in Namespaces : gen'[m] \in Nat /\ gen'[m] + 1 <= sweeps'
    BY <1>0, <1>1 DEF Swept, Types
  <1>7. Swept'
    BY <1>1, <1>5, <1>6, <1>3 DEF Swept
  <1>8. gen' \in [Namespaces -> Nat] /\ gen'[n] = gen[n] /\ \A m \in Namespaces : gen'[m] >= gen[m]
    BY <1>0, <1>1 DEF Types
  <1> QED
    BY <1>0, <1>1, <1>4, <1>7, <1>8, StopKeeps, Zenon

\* The map entry of the namespace that was stopped is deleted, once in a sweep.
LEMMA EntryDeleted ==
    ASSUME HostInv, pc[Reaper] = "resume", gen' = [gen EXCEPT ![ns[Reaper]] = @ + 1],
           expired' \subseteq expired, sweeps' = sweeps,
           \/ ~Busy(Reaper)'
           \/ ns'[Reaper] \in expired \ expired'
    PROVE  /\ Swept' /\ gen' \in [Namespaces -> Nat]
           /\ \A m \in Namespaces : gen'[m] = IF m = ns[Reaper] THEN gen[m] + 1 ELSE gen[m]
  <1>0. Types /\ Swept /\ Busy(Reaper) /\ ns[Reaper] \in Namespaces \ expired
    BY Zenon DEF HostInv, Swept, Busy
  <1>1. \A m \in Namespaces : gen'[m] = IF m = ns[Reaper] THEN gen[m] + 1 ELSE gen[m]
    BY <1>0, Zenon DEF Types
  <1>2. gen' \in [Namespaces -> Nat] /\ gen[ns[Reaper]] + 1 <= sweeps
    BY <1>0 DEF Types, Swept
  <1>3. ASSUME NEW m \in Namespaces
        PROVE  gen'[m] + (IF Busy(Reaper)' /\ (m \in expired' \/ ns'[Reaper] = m) THEN 1 ELSE 0) <= sweeps'
    <2>1. CASE m = ns[Reaper]
      BY <1>0, <1>1, <1>2, <2>1 DEF Types
    <2>2. CASE m # ns[Reaper]
      BY <1>0, <1>1, <2>2 DEF Types, Swept
    <2> QED
      BY <2>1, <2>2, Zenon
  <1>4. Busy(Reaper)' => ns'[Reaper] \in Namespaces \ expired'
    BY <1>0, Zenon DEF Types
  <1> QED
    BY <1>1, <1>2, <1>3, <1>4, Zenon DEF Swept

\* The sweep goes on to the next namespace it collected.
LEMMA ReapNextKeeps ==
    ASSUME HostInv, NEW n \in Namespaces, ReapNext(n)
    PROVE  HostInv'
  <1>0. Types /\ Swept /\ Reaper \in Calls /\ Reaper \notin Users
    BY RunHostAssumption, Zenon DEF HostInv, Calls
  <1>1. /\ pc[Reaper] = "resume" /\ n \in expired /\ gen' = [gen EXCEPT ![ns[Reaper]] = @ + 1]
        /\ expired' = expired \ {n} /\ StopBegins(Reaper, n) /\ sweeps' = sweeps
    BY Zenon DEF ReapNext, Reap
  <1>2. expired' \subseteq Namespaces /\ sweeps' \in 0 .. MaxSweeps
    BY <1>0, <1>1, Zenon DEF Types
  <1>3. ns'[Reaper] = n
    BY <1>0, <1>1, StopBegan DEF Types
  <1>4. /\ Swept' /\ gen' \in [Namespaces -> Nat]
        /\ \A m \in Namespaces : gen'[m] = IF m = ns[Reaper] THEN gen[m] + 1 ELSE gen[m]
    BY <1>1, <1>3, EntryDeleted, Zenon
  <1>5. n # ns[Reaper]
    BY <1>0, <1>1, Zenon DEF Swept, Busy
  <1>6. Types'
    BY <1>0, <1>1, <1>2, <1>4, StopTypes, Zenon
  <1>7. gen'[n] = gen[n] /\ \A m \in Namespaces : gen'[m] >= gen[m]
    BY <1>0, <1>4, <1>5 DEF Types
  <1> QED
    BY <1>0, <1>1, <1>4, <1>6, <1>7, StopKeeps, Zenon

\* The sweep is over, and the map entry of the last namespace is deleted.
LEMMA ReapLastKeeps == ASSUME HostInv, ReapLast PROVE HostInv'
  <1>0. Types /\ Swept /\ Placed /\ OneUser /\ Owned /\ Stopped /\ Ported /\ Reaper \in Calls
        /\ Reaper \notin Users
    BY RunHostAssumption, Zenon DEF HostInv, Calls
  <1>1. /\ pc[Reaper] = "resume" /\ gen' = [gen EXCEPT ![ns[Reaper]] = @ + 1]
        /\ pc' = [pc EXCEPT ![Reaper] = "done"]
        /\ UNCHANGED <<proc, port, inUse, life, bound, ns, ses, waits, expired, sweeps>>
    BY Zenon DEF ReapLast, callVars, sweepVars
  <1>2. \A d \in Calls : pc'[d] = IF d = Reaper THEN "done" ELSE pc[d]
    BY <1>0, <1>1, Zenon DEF Types
  <1>3. ~Busy(Reaper)'
    BY <1>0, <1>2, Zenon DEF Busy
  <1>4. /\ Swept' /\ gen' \in [Namespaces -> Nat]
        /\ \A m \in Namespaces : gen'[m] = IF m = ns[Reaper] THEN gen[m] + 1 ELSE gen[m]
    BY <1>1, <1>3, EntryDeleted, Zenon
  <1>5. Types'
    BY <1>0, <1>1, <1>4, Zenon DEF Types
  <1>6. \A m \in Namespaces : gen'[m] >= gen[m] /\ gen[m] \in Nat /\ gen'[m] \in Nat
    BY <1>0, <1>4 DEF Types
  <1>7. \A t \in Sessions : t[1] \in Namespaces /\ t[2] \in Nat
    BY DEF Sessions
  <1> HIDE DEF Types, Swept
  <1>8. Placed'
    <2> SUFFICES ASSUME NEW d \in Calls
                 PROVE  (/\ Busy(d) => ns[d] \in Namespaces
                         /\ pc[d] \in {"exit", "rm", "resume", "prepare"} => ses[d] \in Sessions
                         /\ pc[d] = "new" => ses[d] = None
                         /\ pc[d] = "prepare" => d \in Starts
                         /\ ses[d] # None => ses[d][1] = ns[d] /\ ses[d][2] <= gen[ns[d]])'
      BY Zenon DEF Placed
    <2>1. ses[d] # None => ses[d] \in Sessions
      BY <1>0, Zenon DEF Types
    <2>2. ses[d] # None => ses[d][1] = ns[d] /\ ses[d][2] <= gen'[ns[d]]
      BY <1>0, <1>6, <1>7, <2>1 DEF Placed
    <2> QED
      BY <1>0, <1>1, <1>2, <2>2 DEF Placed, Busy
  <1>9. OneUser'
    BY <1>0, <1>1, <1>2 DEF OneUser, Busy, Users, Calls
  <1>10. Live' = Live
    BY <1>1, Zenon DEF Live
  <1>11. Owned'
    <2>1. \A t \in Sessions : t[2] > gen'[t[1]] => t[2] > gen[t[1]]
      BY <1>6, <1>7
    <2> QED
      BY <1>0, <1>1, <1>2, <1>10, <2>1 DEF Owned, Calls, Users
  <1>12. Stopped'
    <2>1. ASSUME NEW d \in Starts, pc'[d] \in {"exit", "rm", "resume"}
          PROVE  \/ proc'[Session(ns[d])'] = None
                 \/ pc'[d] = "exit" /\ ses'[d] = Session(ns[d])'
      <3>1. /\ ns'[d] = ns[d] /\ pc'[d] = pc[d] /\ ses'[d] = ses[d] /\ ns[d] \in Namespaces
            /\ proc[Session(ns[d])] = None \/ (pc[d] = "exit" /\ ses[d] = Session(ns[d]))
        BY <1>0, <1>1, <1>2, <2>1 DEF Stopped, Placed, Busy, Calls, Users
      <3>2. CASE gen'[ns[d]] = gen[ns[d]]
        BY <1>1, <3>1, <3>2, Zenon DEF Session
      <3>3. CASE gen'[ns[d]] # gen[ns[d]]
        BY <1>1, <1>4, <1>5, <1>6, <3>1, <3>3, LaterEmpty, Zenon DEF Session
      <3> QED
        BY <3>2, <3>3, Zenon
    <2> QED
      BY <1>0, <1>1, <1>2, <2>1 DEF Stopped, Calls, Users
  <1>13. Ported'
    BY <1>0, <1>1, <1>10, Zenon DEF Ported
  <1> QED
    BY <1>4, <1>5, <1>8, <1>9, <1>11, <1>12, <1>13, Zenon DEF HostInv

-----------------------------------------------------------------------------
(* The exit of a process, and the rest of start and sync.                  *)

\* The process of an object exits: whoever handles it, a stop that waits or the exit
\* handler, empties the object and gives the port back.
LEMMA ExitEffect ==
    ASSUME HostInv, NEW p \in Starts, Exit(p)
    PROVE  /\ p \in Live /\ ses[p] \in Sessions /\ proc[ses[p]] = p
           /\ life' = [life EXCEPT ![p] = "gone"]
           /\ proc' = [proc EXCEPT ![ses[p]] = None]
           /\ port' = [port EXCEPT ![ses[p]] = None]
           /\ inUse' = inUse \ {bound[p]}
           /\ pc' \in [Calls -> {"new", "exit", "rm", "resume", "prepare", "write", "done", "failed"}]
           /\ \A d \in Calls : IF pc[d] = "exit" /\ waits[d] = p THEN pc'[d] \in {"rm", "resume"}
                                                                 ELSE pc'[d] = pc[d]
  <1>0. Types /\ Owned /\ Ported
    BY Zenon DEF HostInv
  <1> DEFINE s == ses[p]
             W == {c \in Calls : pc[c] = "exit" /\ waits[c] = p}
  <1>1. p \in Live /\ life' = [life EXCEPT ![p] = "gone"]
    BY Zenon DEF Exit
  <1>2. s \in Sessions /\ proc[s] = p /\ port[s] = bound[p]
    BY <1>0, <1>1, RunHostAssumption DEF Owned, Ported, Live, Calls
  <1>3. CASE W # {} /\ Cleared(s, W)
    BY <1>0, <1>1, <1>2, <1>3, Zenon DEF Cleared, Types
  <1>4. CASE W = {} /\ /\ proc' = [proc EXCEPT ![s] = None]
                       /\ IF bound[p] # None
                            THEN inUse' = inUse \ {bound[p]} /\ port' = [port EXCEPT ![s] = None]
                            ELSE UNCHANGED <<inUse, port>>
                       /\ UNCHANGED <<pc, path>>
    <2>1. None \notin inUse
      BY <1>0, RunHostAssumption, Zenon DEF Types
    <2>2. port' = [port EXCEPT ![s] = None] /\ inUse' = inUse \ {bound[p]}
      BY <1>0, <1>2, <1>4, <2>1 DEF Types
    <2>3. pc' = pc /\ \A d \in Calls : ~(pc[d] = "exit" /\ waits[d] = p)
      BY <1>4, Zenon
    <2> HIDE DEF s, W
    <2> QED
      BY <1>0, <1>1, <1>2, <1>4, <2>2, <2>3, Zenon DEF Types, s
  <1> QED
    BY <1>2, <1>3, <1>4, Zenon DEF Exit

\* A process ends, and its exit handler gives the port back.
LEMMA ExitKeeps == ASSUME HostInv, NEW p \in Starts, Exit(p) PROVE HostInv'
  <1>0. Types /\ Swept /\ Placed /\ OneUser /\ Owned /\ Stopped /\ Ported
    BY Zenon DEF HostInv
  <1> DEFINE s == ses[p]
  <1>1. /\ p \in Live /\ s \in Sessions /\ proc[s] = p
        /\ life' = [life EXCEPT ![p] = "gone"]
        /\ proc' = [proc EXCEPT ![s] = None] /\ port' = [port EXCEPT ![s] = None]
        /\ inUse' = inUse \ {bound[p]}
        /\ pc' \in [Calls -> {"new", "exit", "rm", "resume", "prepare", "write", "done", "failed"}]
        /\ \A d \in Calls : IF pc[d] = "exit" /\ waits[d] = p THEN pc'[d] \in {"rm", "resume"}
                                                              ELSE pc'[d] = pc[d]
    BY ExitEffect, Zenon
  <1>2. UNCHANGED <<gen, bound, ns, ses, waits, expired, sweeps>>
    BY Zenon DEF Exit, sweepVars
  <1>3. Types'
    BY <1>0, <1>1, <1>2, Zenon DEF Types
  <1>4. \A t \in Sessions : proc'[t] = IF t = s THEN None ELSE proc[t]
    BY <1>0, <1>1, Zenon DEF Types
  <1>5. Live' = Live \ {p} /\ \A d \in Starts : life'[d] # "none" => life[d] # "none"
    <2>1. \A d \in Starts : life'[d] = IF d = p THEN "gone" ELSE life[d]
      BY <1>0, <1>1, Zenon DEF Types
    <2>2. p \in Starts /\ life[p] \in {"running", "killed"}
      BY <1>1, Zenon DEF Live
    <2> QED
      BY <2>1, <2>2, Zenon DEF Live
  <1>6. \A d \in Calls : Busy(d)' <=> Busy(d)
    BY <1>1, Zenon DEF Busy
  <1>7. Reaper \in Calls /\ Starts \subseteq Calls /\ Users \subseteq Calls /\ Live \subseteq Starts
        /\ None \notin Starts
    BY RunHostAssumption, Zenon DEF Calls, Users, Live
  <1>8. \A d \in Calls : pc[d] = "exit" /\ waits[d] = p => ses[d] = s
    BY <1>0, <1>1, <1>7 DEF Stopped, Owned, Placed
  <1> HIDE DEF s
  <1>9. Swept'
    BY <1>0, <1>2, <1>6, <1>7, Zenon DEF Swept
  <1>10. Placed' /\ OneUser'
    BY <1>0, <1>1, <1>2, <1>6, <1>7, Zenon DEF Placed, OneUser
  <1>11. Owned'
    <2>1. \A c \in Starts : life'[c] # "none" => pc'[c] = "done" /\ ses'[c] \in Sessions
      BY <1>0, <1>1, <1>2, <1>5, <1>7, Zenon DEF Owned
    <2>2. ASSUME NEW c \in Live' PROVE proc'[ses'[c]] = c
      <3>1. c \in Live /\ c # p /\ ses[c] \in Sessions /\ proc[ses[c]] = c
        BY <1>0, <1>5, <1>7, Zenon DEF Owned, Live
      <3> QED
        BY <1>1, <1>2, <1>4, <3>1, Zenon
    <2>3. ASSUME NEW t \in Sessions
          PROVE  /\ proc'[t] # None => proc'[t] \in Live' /\ ses'[proc'[t]] = t
                 /\ t[2] > gen'[t[1]] => proc'[t] = None
      BY <1>0, <1>1, <1>2, <1>4, <1>5 DEF Owned, s
    <2> QED
      BY <2>1, <2>2, <2>3, Zenon DEF Owned
  <1>12. Stopped'
    <2>1. ASSUME NEW d \in Calls, pc'[d] = "exit" PROVE waits'[d] # None /\ proc'[ses'[d]] = waits'[d]
      <3>1. pc[d] = "exit" /\ waits[d] # p
        BY <1>1, <2>1, Zenon
      <3>2. waits[d] # None /\ proc[ses[d]] = waits[d] /\ ses[d] \in Sessions
        BY <1>0, <3>1, Zenon DEF Stopped, Placed
      <3> QED
        BY <1>1, <1>2, <1>4, <3>1, <3>2
    <2>2. ASSUME NEW d \in Starts, pc'[d] \in {"exit", "rm", "resume"}
          PROVE  \/ proc'[Session(ns[d])'] = None
                 \/ pc'[d] = "exit" /\ ses'[d] = Session(ns[d])'
      <3>1. d \in Calls /\ pc[d] \in {"exit", "rm", "resume"} /\ Session(ns[d])' = Session(ns[d])
        BY <1>1, <1>2, <1>7, <2>2, Zenon DEF Session
      <3>2. Session(ns[d]) \in Sessions
        BY <1>0, <3>1, SessionIn, Zenon DEF Placed, Busy
      <3>3. proc[Session(ns[d])] = None \/ (pc[d] = "exit" /\ ses[d] = Session(ns[d]))
        BY <1>0, <3>1, Zenon DEF Stopped
      <3> HIDE DEF Session
      <3>4. CASE pc[d] = "exit" /\ waits[d] = p
        BY <1>4, <1>8, <3>1, <3>2, <3>3, <3>4, Zenon
      <3>5. CASE ~(pc[d] = "exit" /\ waits[d] = p)
        BY <1>1, <1>2, <1>4, <3>1, <3>2, <3>3, <3>5, Zenon
      <3> QED
        BY <3>4, <3>5, Zenon
    <2>3. ASSUME NEW d \in Starts, pc'[d] = "prepare" PROVE proc'[ses'[d]] = None
      BY <1>0, <1>1, <1>2, <1>4, <1>7, <2>3 DEF Stopped, Placed
    <2> QED
      BY <2>1, <2>2, <2>3, Zenon DEF Stopped
  <1>13. Ported'
    <2>1. ASSUME NEW t \in Sessions PROVE port'[t] = IF proc'[t] = None THEN None ELSE bound'[proc'[t]]
      BY <1>0, <1>1, <1>2, <1>4 DEF Ported, Types
    <2>2. \A c, d \in Live' : bound'[c] # None /\ bound'[c] = bound'[d] => c = d
      BY <1>0, <1>2, <1>5 DEF Ported
    <2>3. ASSUME NEW q \in Ports PROVE q \in inUse' <=> \E c \in Live' : bound'[c] = q
      <3>1. q # None /\ q \in inUse' <=> q \in inUse /\ q # bound[p]
        BY <1>1, RunHostAssumption, Zenon
      <3> QED
        BY <1>0, <1>1, <1>2, <1>5, <3>1, RunHostAssumption DEF Ported
    <2> QED
      BY <2>1, <2>2, <2>3, Zenon DEF Ported
  <1> QED
    BY <1>3, <1>9, <1>10, <1>11, <1>12, <1>13, Zenon DEF HostInv

\* start takes the object that the map has when its stop is over.
LEMMA PrepareKeeps == ASSUME HostInv, NEW c \in Calls, Prepare(c) PROVE HostInv'
  <1>0. Types /\ Swept /\ Placed /\ OneUser /\ Owned /\ Stopped /\ Ported
    BY Zenon DEF HostInv
  <1>1. /\ c \in Starts /\ pc[c] = "resume"
        /\ ses' = [ses EXCEPT ![c] = Session(ns[c])] /\ pc' = [pc EXCEPT ![c] = "prepare"]
        /\ UNCHANGED <<gen, proc, port, inUse, life, bound, ns, waits, expired, sweeps>>
    BY Zenon DEF Prepare, sessionVars, sweepVars
  <1>2. /\ ns[c] \in Namespaces /\ proc[Session(ns[c])] = None
        /\ Session(ns[c]) \in Sessions /\ Session(ns[c])[1] = ns[c] /\ Session(ns[c])[2] = gen[ns[c]]
        /\ gen[ns[c]] \in Nat
    BY <1>0, <1>1, SessionIn DEF Placed, Busy, Stopped, Types
  <1>3. \A d \in Calls : /\ pc'[d] = IF d = c THEN "prepare" ELSE pc[d]
                         /\ ses'[d] = IF d = c THEN Session(ns[c]) ELSE ses[d]
    BY <1>0, <1>1, Zenon DEF Types
  <1>4. Types'
    BY <1>0, <1>1, <1>2, Zenon DEF Types
  <1>5. \A d \in Calls : Busy(d)' <=> Busy(d)
    BY <1>1, <1>3 DEF Busy
  <1>6. Reaper \in Calls /\ Starts \subseteq Calls /\ Users \subseteq Calls /\ Live' = Live
        /\ life[c] = "none" /\ \A n : Session(n)' = Session(n)
    BY <1>0, <1>1, Zenon DEF Calls, Users, Live, Owned, Session
  <1> HIDE DEF Session
  <1>7. Swept' /\ OneUser'
    BY <1>0, <1>1, <1>5, <1>6, Zenon DEF Swept, OneUser
  <1>8. Placed'
    BY <1>0, <1>1, <1>2, <1>3, <1>5 DEF Placed
  <1>9. Owned'
    <2>1. \A d \in Starts : life[d] # "none" => ses'[d] = ses[d] /\ pc'[d] = pc[d]
      BY <1>3, <1>6, Zenon
    <2> QED
      BY <1>0, <1>1, <1>6, <2>1 DEF Owned, Live
  <1>10. Stopped'
    BY <1>0, <1>1, <1>2, <1>3, <1>6 DEF Stopped
  <1>11. Ported'
    BY <1>0, <1>1, <1>6, Zenon DEF Ported
  <1> QED
    BY <1>4, <1>7, <1>8, <1>9, <1>10, <1>11, Zenon DEF HostInv

\* start takes a port that nobody has and spawns its process in the empty object.
LEMMA SpawnKeeps == ASSUME HostInv, NEW c \in Calls, Spawn(c) PROVE HostInv'
  <1>0. Types /\ Swept /\ Placed /\ OneUser /\ Owned /\ Stopped /\ Ported
    BY Zenon DEF HostInv
  <1> DEFINE s == ses[c]
             b == IF c \in Networked THEN Min(Free) ELSE None
  <1>1. /\ pc[c] = "prepare" /\ (c \in Networked => Free # {})
        /\ inUse' = (IF b = None THEN inUse ELSE inUse \cup {b})
        /\ port' = [port EXCEPT ![s] = b] /\ bound' = [bound EXCEPT ![c] = b]
        /\ proc' = [proc EXCEPT ![s] = c] /\ life' = [life EXCEPT ![c] = "running"]
        /\ pc' = [pc EXCEPT ![c] = "done"]
        /\ UNCHANGED <<gen, ns, ses, waits, expired, sweeps>>
    BY Zenon DEF Spawn, callVars, sweepVars
  <1>2. b = None \/ (b \in Ports /\ b \notin inUse /\ b # None)
    <2>1. Free \in SUBSET Nat
      BY DEF Free, Ports
    <2>2. c \in Networked => Min(Free) \in Free
      BY <1>1, <2>1, LeastOf, Zenon
    <2> QED
      BY <2>2, RunHostAssumption, Zenon DEF Free
  <1> HIDE DEF b
  <1>3. c \in Starts /\ s \in Sessions /\ proc[s] = None /\ s # None
    BY <1>0, <1>1, RunHostAssumption DEF Placed, Stopped
  <1>4. life[c] = "none" /\ c \in Users /\ ns[c] \in Namespaces /\ s[1] = ns[c] /\ s[2] <= gen[s[1]]
    BY <1>0, <1>1, <1>3, Zenon DEF Owned, Users, Placed, Busy
  <1> HIDE DEF s
  <1>5. Types'
    BY <1>0, <1>1, <1>2, <1>3, Zenon DEF Types
  <1>6. /\ \A d \in Calls : pc'[d] = IF d = c THEN "done" ELSE pc[d]
        /\ \A t \in Sessions : /\ proc'[t] = IF t = s THEN c ELSE proc[t]
                               /\ port'[t] = IF t = s THEN b ELSE port[t]
        /\ \A d \in Starts : /\ bound'[d] = IF d = c THEN b ELSE bound[d]
                             /\ life'[d] = IF d = c THEN "running" ELSE life[d]
        /\ UNCHANGED <<gen, ns, ses, waits, expired, sweeps>>
    BY <1>0, <1>1, Zenon DEF Types
  <1>7. Live' = Live \cup {c} /\ c \notin Live /\ Live \subseteq Starts
    BY <1>3, <1>4, <1>6 DEF Live
  <1>8. Reaper \in Calls /\ Starts \subseteq Calls /\ Users \subseteq Calls /\ None \notin Starts
        /\ \A n : Session(n)' = Session(n)
    BY <1>1, RunHostAssumption, Zenon DEF Calls, Users, Session
  <1>9. \A d \in Calls : Busy(d)' <=> Busy(d) /\ d # c
    BY <1>6, Zenon DEF Busy
  <1>10. Swept' /\ OneUser'
    <2>1. Reaper # c
      BY <1>4, RunHostAssumption, Zenon
    <2> QED
      BY <1>0, <1>1, <1>8, <1>9, <2>1, Zenon DEF Swept, OneUser
  <1>11. Placed'
    BY <1>0, <1>6, <1>9 DEF Placed
  <1>12. Owned'
    <2>1. \A d \in Starts : life'[d] # "none" => pc'[d] = "done" /\ ses'[d] \in Sessions
      BY <1>0, <1>3, <1>6, <1>8 DEF Owned, s
    <2>2. ASSUME NEW d \in Live' PROVE proc'[ses'[d]] = d
      <3>1. CASE d = c
        BY <1>3, <1>6, <3>1, Zenon DEF s
      <3>2. CASE d \in Live
        <4>1. ses[d] \in Sessions /\ proc[ses[d]] = d /\ d # None
          BY <1>0, <1>7, <1>8, <3>2 DEF Owned, Live
        <4> QED
          BY <1>3, <1>6, <4>1
      <3> QED
        BY <1>7, <3>1, <3>2, Zenon
    <2>3. ASSUME NEW t \in Sessions
          PROVE  /\ proc'[t] # None => proc'[t] \in Live' /\ ses'[proc'[t]] = t
                 /\ t[2] > gen'[t[1]] => proc'[t] = None
      <3>1. CASE t = s
        <4>1. s[2] \in Nat /\ gen[s[1]] \in Nat
          BY <1>0, <1>3, <1>4 DEF Types, Sessions
        <4> QED
          BY <1>4, <1>6, <1>7, <3>1, <4>1 DEF s
      <3>2. CASE t # s
        BY <1>0, <1>6, <1>7, <3>2 DEF Owned
      <3> QED
        BY <3>1, <3>2, Zenon
    <2> QED
      BY <2>1, <2>2, <2>3, Zenon DEF Owned
  <1>13. Stopped'
    <2>1. ASSUME NEW d \in Calls, pc'[d] = "exit" PROVE waits'[d] # None /\ proc'[ses'[d]] = waits'[d]
      <3>1. pc[d] = "exit"
        BY <1>6, <2>1, Zenon
      <3>2. waits[d] # None /\ proc[ses[d]] = waits[d] /\ ses[d] \in Sessions
        BY <1>0, <3>1, Zenon DEF Stopped, Placed
      <3> QED
        BY <1>3, <1>6, <3>2
    <2>2. ASSUME NEW d \in Starts, pc'[d] \in {"exit", "rm", "resume", "prepare"}
          PROVE  /\ d \in Calls /\ pc'[d] = pc[d] /\ ns[d] \in Namespaces
                 /\ Session(ns[d]) \in Sessions \ {s} /\ ses[d] \in Sessions \ {s}
      <3>1. d \in Calls /\ d # c /\ pc'[d] = pc[d] /\ d \in Users
        BY <1>6, <1>8, <2>2, Zenon DEF Users
      <3>2. Busy(d) /\ Busy(c)
        BY <1>1, <2>2, <3>1, Zenon DEF Busy
      <3>3. ns[d] \in Namespaces /\ ns[d] # ns[c]
        BY <1>0, <1>4, <3>1, <3>2, Zenon DEF OneUser, Placed
      <3>4. Session(ns[d]) \in Sessions /\ Session(ns[d])[1] = ns[d]
        BY <1>0, <3>3, SessionIn, Zenon
      <3>5. ses[d] \in Sessions /\ ses[d][1] = ns[d]
        BY <1>0, <2>2, <3>1, RunHostAssumption DEF Placed
      <3> QED
        BY <1>4, <3>1, <3>3, <3>4, <3>5, Zenon
    <2>3. ASSUME NEW d \in Starts, pc'[d] \in {"exit", "rm", "resume"}
          PROVE  \/ proc'[Session(ns[d])'] = None
                 \/ pc'[d] = "exit" /\ ses'[d] = Session(ns[d])'
      <3>1. Session(ns[d])' = Session(ns[d])
        BY <1>6, Zenon DEF Session
      <3> HIDE DEF Session
      <3> QED
        BY <1>0, <1>6, <2>2, <2>3, <3>1 DEF Stopped
    <2>4. ASSUME NEW d \in Starts, pc'[d] = "prepare" PROVE proc'[ses'[d]] = None
      BY <1>0, <1>6, <2>2, <2>4 DEF Stopped
    <2> QED
      BY <2>1, <2>3, <2>4, Zenon DEF Stopped
  <1>14. Ported'
    <2>1. ASSUME NEW t \in Sessions PROVE port'[t] = IF proc'[t] = None THEN None ELSE bound'[proc'[t]]
      <3>1. CASE t = s
        BY <1>3, <1>6, <1>8, <3>1
      <3>2. CASE t # s
        <4>1. proc[t] # None => proc[t] \in Starts /\ proc[t] # c
          BY <1>0, <1>7, Zenon DEF Owned
        <4> QED
          BY <1>0, <1>6, <3>2, <4>1 DEF Ported
      <3> QED
        BY <3>1, <3>2, Zenon
    <2>2. bound'[c] = b /\ \A d \in Live : bound'[d] = bound[d]
      BY <1>3, <1>6, <1>7, Zenon
    <2>3. \A d \in Live : bound[d] # None => bound[d] \in inUse
      BY <1>0, <1>7 DEF Ported, Types
    <2>4. \A d, e \in Live' : bound'[d] # None /\ bound'[d] = bound'[e] => d = e
      BY <1>0, <1>2, <1>7, <2>2, <2>3 DEF Ported
    <2>5. ASSUME NEW q \in Ports PROVE q \in inUse' <=> \E d \in Live' : bound'[d] = q
      <3>1. q # None
        BY RunHostAssumption, Zenon
      <3>2. q \in inUse' <=> q \in inUse \/ q = b
        BY <1>1, <1>2, <3>1, Zenon
      <3> QED
        BY <1>0, <1>7, <2>2, <3>2 DEF Ported
    <2> QED
      BY <2>1, <2>4, <2>5, Zenon DEF Ported
  <1> QED
    BY <1>5, <1>10, <1>11, <1>12, <1>13, <1>14, Zenon DEF HostInv

\* sync finds the run of its namespace, or nothing to do.
LEMMA SyncKeeps ==
    ASSUME HostInv, Serial, NEW c \in Users, NEW n \in Namespaces, SyncBegins(c, n)
    PROVE  HostInv'
  <1>0. Types /\ Swept /\ Placed /\ OneUser /\ Owned /\ Stopped /\ Ported
    BY Zenon DEF HostInv
  <1>1. /\ c \in Syncs /\ pc[c] = "new" /\ (\A d \in Users : Busy(d) => ns[d] # n)
        /\ ns' = [ns EXCEPT ![c] = n]
        /\ pc' = [pc EXCEPT ![c] = "write"] \/ pc' = [pc EXCEPT ![c] = "done"]
        /\ UNCHANGED <<gen, proc, port, inUse, life, bound, ses, waits, expired, sweeps>>
    BY Zenon DEF SyncBegins, MayCall, sessionVars
  <1>2. /\ c \in Calls /\ c # Reaper /\ c \notin Starts /\ Reaper \in Calls /\ Starts \subseteq Calls
        /\ Users \subseteq Calls /\ Live' = Live /\ ses[c] = None
    BY <1>0, <1>1, RunHostAssumption, Zenon DEF Calls, Users, Live, Placed
  <1>3. Types'
    BY <1>0, <1>1, <1>2, Zenon DEF Types
  <1>4. /\ \A d \in Calls \ {c} : pc'[d] = pc[d] /\ ns'[d] = ns[d]
        /\ pc'[c] \in {"write", "done"} /\ ns'[c] = n
    BY <1>0, <1>1, <1>2 DEF Types
  <1>5. \A d \in Calls \ {c} : Busy(d)' <=> Busy(d)
    BY <1>4, Zenon DEF Busy
  <1>6. Swept' /\ OneUser'
    BY <1>0, <1>1, <1>2, <1>4, <1>5 DEF Swept, OneUser
  <1>7. Placed'
    BY <1>0, <1>1, <1>2, <1>4, <1>5 DEF Placed
  <1>8. Owned' /\ Ported'
    BY <1>0, <1>1, <1>2, <1>4 DEF Owned, Ported
  <1>9. Stopped'
    BY <1>0, <1>1, <1>2, <1>4 DEF Stopped, Session
  <1> QED
    BY <1>3, <1>6, <1>7, <1>8, <1>9, Zenon DEF HostInv

-----------------------------------------------------------------------------
(* The theorems.                                                           *)

\* Every step of the host keeps the invariant.
LEMMA HostStep == ASSUME Serial, HostInv, [Next]_vars PROVE HostInv'
  <1>1. ASSUME NEW c \in Users, NEW n \in Namespaces, Call(c, n) \/ SyncBegins(c, n) PROVE HostInv'
    BY <1>1, CallKeeps, SyncKeeps, Zenon
  <1>2. ASSUME NEW c \in Calls, Remove(c) PROVE HostInv'
    BY <1>2, CallGoesOn, Zenon DEF Remove, Busy, callVars, sweepVars
  <1>3. ASSUME NEW c \in Calls, StopReturns(c) PROVE HostInv'
    BY <1>3, CallGoesOn, Zenon DEF StopReturns, Busy, sessionVars, callVars, sweepVars
  <1>4. ASSUME NEW c \in Calls, NoPort(c) PROVE HostInv'
    BY <1>4, CallGoesOn, Zenon DEF NoPort, Busy, callVars, sweepVars
  <1>5. ASSUME NEW c \in Calls, SyncWrites(c) PROVE HostInv'
    BY <1>5, CallGoesOn, Zenon DEF SyncWrites, Busy, sessionVars, callVars, sweepVars
  <1>6. ASSUME NEW c \in Calls, Prepare(c) \/ Spawn(c) PROVE HostInv'
    BY <1>6, PrepareKeeps, SpawnKeeps, Zenon
  <1>7. ASSUME NEW p \in Starts, Exit(p) PROVE HostInv'
    BY <1>7, ExitKeeps, Zenon
  <1>8. ASSUME NEW n \in Namespaces, Sweep(n) \/ ReapNext(n) PROVE HostInv'
    BY <1>8, SweepKeeps, ReapNextKeeps, Zenon
  <1>9. CASE UNCHANGED vars
    <2>1. Types' /\ Swept' /\ Placed' /\ OneUser'
      BY <1>9, Zenon DEF vars, HostInv, Types, Swept, Placed, OneUser, Busy
    <2>2. Owned' /\ Ported'
      BY <1>9, Zenon DEF vars, HostInv, Owned, Ported, Live
    <2>3. Stopped'
      BY <1>9, Zenon DEF vars, HostInv, Stopped, Session
    <2> QED
      BY <2>1, <2>2, <2>3, Zenon DEF HostInv
  <1> QED
    BY <1>1, <1>2, <1>3, <1>4, <1>5, <1>6, <1>7, <1>8, <1>9, ReapLastKeeps, Zenon DEF Next, Done

\* As long as the users of a namespace wait for their calls, a session object never
\* has two octo processes: start stops the one before it and waits for its exit,
\* also when the reaper deletes the map entry while the start is under way.
THEOREM OneRunner == ASSUME Serial PROVE Spec => []OneRunnerPerSession
  <1>1. HostInv => OneRunnerPerSession
    BY Zenon DEF HostInv, Owned, OneRunnerPerSession
  <1> QED
    BY <1>1, HostInit, HostStep, PTL DEF Spec

\* As long as the users of a namespace wait for their calls, the pool has exactly the
\* ports of the processes that live: a stop and the exit handler give a port back,
\* once, and allocatePort takes one that no process has.
THEOREM PortsAreThoseOfRuns == ASSUME Serial PROVE Spec => []NoPortLeak
  <1>1. ASSUME HostInv PROVE NoPortLeak
    <2>1. Types /\ Ported
      BY <1>1, Zenon DEF HostInv
    <2>2. \A c \in Live : bound[c] \in Ports \cup {None}
      BY <2>1, Zenon DEF Types, Live
    <2>3. inUse \subseteq Ports /\ None \notin Ports
      BY <2>1, RunHostAssumption, Zenon DEF Types
    <2> QED
      BY <2>1, <2>2, <2>3 DEF Ported, NoPortLeak
  <1> QED
    BY <1>1, HostInit, HostStep, PTL DEF Spec
=============================================================================
