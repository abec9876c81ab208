----------------------------- MODULE ObjectBlocks ----------------------------
(***************************************************************************)
(* The object-write, object-delete and object-read blocks                  *)
(* (core/internal/engine/object.go) of several flows at work on one key of *)
(* the store.  An object-write reads the version and writes with it, again *)
(* and again while it loses to others.  Each process stands for one run of *)
(* its block; a writer stores its own name.                                *)
(***************************************************************************)
EXTENDS KVCell

CONSTANTS Writers,   \* runs of object-write
          Deleters,  \* runs of object-delete
          Readers,   \* runs of object-read
          Attempts   \* objectWriteAttempts

ObjectAssumption ==
    /\ Attempts \in Nat \ {0} /\ Values = Writers
    /\ Writers \cap (Deleters \cup Readers) = {}

VARIABLES
    entry,    \* the entry of the key
    stamp,    \* history: which write stored it, 0 for none
    pc,       \* pc[p]: "get", "set", "run", "done"
    version,  \* version[w]: the version object-write has read
    read,     \* read[w]: history, the stamp of the entry it read
    tries,    \* tries[w]: the attempts it has used
    outcome,  \* outcome[p]: "none", "ok", "conflict", "error", "hit", "miss"
    changes,  \* history: changes of the key so far
    began     \* began[w]: history, the value of changes at the first attempt

vars == <<entry, stamp, pc, version, read, tries, outcome, changes, began>>

Procs == Writers \cup Deleters \cup Readers

TypeOK ==
    /\ entry \in Entries
    /\ stamp \in Nat /\ changes \in Nat
    /\ pc \in [Procs -> {"get", "set", "run", "done"}]
    /\ version \in [Writers -> Nat] /\ read \in [Writers -> Nat] /\ began \in [Writers -> Nat]
    /\ tries \in [Writers -> 0..Attempts]
    /\ outcome \in [Procs -> {"none", "ok", "conflict", "error", "hit", "miss"}]

Init ==
    /\ entry = Absent
    /\ stamp = 0 /\ changes = 0
    /\ pc = [p \in Procs |-> IF p \in Writers THEN "get" ELSE "run"]
    /\ version = [w \in Writers |-> 0]
    /\ read = [w \in Writers |-> 0]
    /\ tries = [w \in Writers |-> 0]
    /\ outcome = [p \in Procs |-> "none"]
    /\ began = [w \in Writers |-> 0]

Done(p, o) ==
    /\ pc' = [pc EXCEPT ![p] = "done"]
    /\ outcome' = [outcome EXCEPT ![p] = o]

\* kv.Get of an attempt; an error of the store fails the block.
ReadVersion(w) ==
    /\ pc[w] = "get"
    /\ began' = IF tries[w] = 0 THEN [began EXCEPT ![w] = changes] ELSE began
    /\ \/ /\ version' = [version EXCEPT ![w] = entry.version]
          /\ read' = [read EXCEPT ![w] = stamp]
          /\ pc' = [pc EXCEPT ![w] = "set"]
          /\ UNCHANGED outcome
       \/ Done(w, "error") /\ UNCHANGED <<version, read>>
    /\ UNCHANGED <<entry, stamp, tries, changes>>

\* kv.Set with that version takes effect.
WriteApplied(w) ==
    /\ pc[w] = "set"
    /\ Matches(entry, version[w])
    /\ entry' = Stored(entry, w)
    /\ stamp' = changes + 1 /\ changes' = changes + 1
    /\ Done(w, "ok") \/ Done(w, "error")
    /\ UNCHANGED <<version, read, tries, began>>

\* Variant: the version is read once, before the loop.
RetryUnread(w) ==
    /\ pc[w] = "set"
    /\ ~Matches(entry, version[w])
    /\ tries' = [tries EXCEPT ![w] = @ + 1]
    /\ \/ /\ tries[w] + 1 < Attempts
          /\ UNCHANGED <<pc, outcome>>
       \/ /\ tries[w] + 1 = Attempts
          /\ Done(w, "conflict")
    /\ UNCHANGED <<entry, stamp, version, read, changes, began>>

\* ... or conflicts: another attempt, unless this was the last one.
WriteConflicts(w) ==
    /\ pc[w] = "set"
    /\ ~Matches(entry, version[w])
    /\ tries' = [tries EXCEPT ![w] = @ + 1]
    /\ \/ /\ tries[w] + 1 < Attempts
          /\ pc' = [pc EXCEPT ![w] = "get"]
          /\ UNCHANGED outcome
       \/ /\ tries[w] + 1 = Attempts
          /\ Done(w, "conflict")
    /\ UNCHANGED <<entry, stamp, version, read, changes, began>>

\* ... or fails without effect.
WriteFails(w) ==
    /\ pc[w] = "set"
    /\ Done(w, "error")
    /\ UNCHANGED <<entry, stamp, version, read, tries, changes, began>>

\* objectDelete.Process: kv.Delete with version 0.
DeleteObject(d) ==
    /\ pc[d] = "run"
    /\ \/ /\ DeleteAllowed(entry, 0)
          /\ entry' = Absent /\ stamp' = 0
          /\ changes' = IF entry = Absent THEN changes ELSE changes + 1
          /\ Done(d, "ok")
       \/ Done(d, "error") /\ UNCHANGED <<entry, stamp, changes>>
    /\ UNCHANGED <<version, read, tries, began>>

\* objectRead.Process: a hit, or the default.
ReadObject(r) ==
    /\ pc[r] = "run"
    /\ Done(r, IF entry = Absent THEN "miss" ELSE "hit") \/ Done(r, "error")
    /\ UNCHANGED <<entry, stamp, version, read, tries, changes, began>>

WriterStep(w) == ReadVersion(w) \/ WriteApplied(w) \/ WriteConflicts(w) \/ WriteFails(w)

Finished == (\A p \in Procs : pc[p] = "done") /\ UNCHANGED vars

Next ==
    \/ \E w \in Writers : WriterStep(w)
    \/ \E d \in Deleters : DeleteObject(d)
    \/ \E r \in Readers : ReadObject(r)
    \/ Finished

Spec == Init /\ [][Next]_vars

-----------------------------------------------------------------------------
(* Properties.                                                             *)

\* object-write gives up only under contention: each of its attempts lost to a
\* change of its own, so the others changed the key at least that many times.
GivesUpUnderContention ==
    \A w \in Writers : outcome[w] = "conflict" => changes - began[w] >= Attempts

\* The version is what makes a write conditional: a write that succeeds found
\* the entry that its Get had seen, not another one ("A reader passes the
\* version it last saw to the next write to detect concurrent updates").
OverwritesWhatItRead ==
    [][\A w \in Writers : WriteApplied(w) => stamp = read[w]]_vars
=============================================================================
