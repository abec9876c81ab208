------------------------------- MODULE KVStore -------------------------------
(***************************************************************************)
(* What core.KV promises its callers (core/services.go), whichever store   *)
(* is behind it.  A call is open from Invoke to Return; seen[c] collects   *)
(* the entries its key has had since the call began, and the answer to the *)
(* call is one that some instant of the call justifies.                    *)
(***************************************************************************)
EXTENDS KVCell

CONSTANTS Clients, Keys,
          MaxVersion  \* bound: no call begins on an entry of this version

VARIABLES
    entry,   \* entry[k]: the entry of key k
    call,    \* call[c]: the open call of client c, or None
    seen,    \* seen[c]: the entries of its key since then
    result   \* result[c]: the answer, once there is one

vars == <<entry, call, seen, result>>

Calls ==
    [op : {"get"}, key : Keys, value : {None}, expected : {0}]
      \cup [op : {"set"}, key : Keys, value : Values, expected : 0..MaxVersion]
      \cup [op : {"delete"}, key : Keys, value : {None}, expected : 0..MaxVersion]

NoCall == [op |-> "none", key |-> None, value |-> None, expected |-> 0]
Results == [status : {"open", "ok", "conflict", "error"}, entry : Entries]
Open == [status |-> "open", entry |-> Absent]
Ok(e) == [status |-> "ok", entry |-> e]
Conflict == [status |-> "conflict", entry |-> Absent]
Error == [status |-> "error", entry |-> Absent]

TypeOK ==
    /\ entry \in [Keys -> Entries]
    /\ call \in [Clients -> Calls \cup {NoCall}]
    /\ seen \in [Clients -> SUBSET Entries]
    /\ result \in [Clients -> Results]

Init ==
    /\ entry = [k \in Keys |-> Absent]
    /\ call = [c \in Clients |-> NoCall]
    /\ seen = [c \in Clients |-> {}]
    /\ result = [c \in Clients |-> Open]

Pending(c, op) == call[c].op = op /\ result[c].status = "open"

\* The entries new of some keys become visible, also to the open calls on them.
Becomes(new) ==
    /\ entry' = new
    /\ seen' = [c \in Clients |->
                  IF call[c] = NoCall THEN seen[c] ELSE seen[c] \cup {new[call[c].key]}]

Answer(c, r) == result' = [result EXCEPT ![c] = r]

\* A client calls Get, Set or Delete.
Invoke(c, o) ==
    /\ call[c] = NoCall
    /\ entry[o.key].version < MaxVersion
    /\ call' = [call EXCEPT ![c] = o]
    /\ seen' = [seen EXCEPT ![c] = {entry[o.key]}]
    /\ result' = [result EXCEPT ![c] = Open]
    /\ UNCHANGED entry

GetDone(c) ==
    /\ Pending(c, "get")
    /\ \E e \in seen[c] : Answer(c, Ok(e))
    /\ UNCHANGED <<entry, call, seen>>

\* Set takes effect only on the version the caller expects.  The answer can be
\* lost on its way: the caller sees an error and the value is stored.
SetDone(c) ==
    LET k == call[c].key
        new == Stored(entry[k], call[c].value) IN
    /\ Pending(c, "set")
    /\ Matches(entry[k], call[c].expected)
    /\ Becomes([entry EXCEPT ![k] = new])
    /\ Answer(c, Ok(new)) \/ Answer(c, Error)
    /\ UNCHANGED call

\* ErrVersionConflict from Set: at some instant another version was stored.
SetConflict(c) ==
    /\ Pending(c, "set")
    /\ \E e \in seen[c] : ~Matches(e, call[c].expected)
    /\ Answer(c, Conflict)
    /\ UNCHANGED <<entry, call, seen>>

DeleteDone(c) ==
    LET k == call[c].key IN
    /\ Pending(c, "delete")
    /\ DeleteAllowed(entry[k], call[c].expected)
    /\ Becomes([entry EXCEPT ![k] = Absent])
    /\ Answer(c, Ok(Absent))
    /\ UNCHANGED call

\* Deleting an absent key does nothing.
DeleteNothing(c) ==
    /\ Pending(c, "delete")
    /\ Absent \in seen[c]
    /\ Answer(c, Ok(Absent))
    /\ UNCHANGED <<entry, call, seen>>

\* ErrVersionConflict from Delete: another version was stored, or the key was
\* away for a part of the call and has come back.
DeleteConflict(c) ==
    /\ Pending(c, "delete")
    /\ call[c].expected # 0
    /\ \/ \E e \in seen[c] : e.version \notin {0, call[c].expected}
       \/ \E e, f \in seen[c] : e.version = 0 /\ f.version # 0
    /\ Answer(c, Conflict)
    /\ UNCHANGED <<entry, call, seen>>

\* Any other error, without effect.
Failed(c) ==
    /\ call[c] # NoCall /\ result[c].status = "open"
    /\ Answer(c, Error)
    /\ UNCHANGED <<entry, call, seen>>

Return(c) ==
    /\ result[c].status # "open"
    /\ call' = [call EXCEPT ![c] = NoCall]
    /\ seen' = [seen EXCEPT ![c] = {}]
    /\ result' = [result EXCEPT ![c] = Open]
    /\ UNCHANGED entry

\* DeleteByDeployment: undeploying removes every key.
DropAll ==
    /\ Becomes([k \in Keys |-> Absent])
    /\ UNCHANGED <<call, result>>

Next ==
    \/ \E c \in Clients :
         \/ \E o \in Calls : Invoke(c, o)
         \/ GetDone(c) \/ SetDone(c) \/ SetConflict(c)
         \/ DeleteDone(c) \/ DeleteNothing(c) \/ DeleteConflict(c)
         \/ Failed(c) \/ Return(c)
    \/ DropAll

Spec == Init /\ [][Next]_vars
=============================================================================
