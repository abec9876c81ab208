-------------------------------- MODULE KVRepo -------------------------------
(***************************************************************************)
(* The orchestrator's store (orchestrator/internal/kv/repo.go): the        *)
(* transactions that Write, Delete, Get and DeleteByDeployment run against *)
(* PostgreSQL at READ COMMITTED.  entry is the committed table; a row has  *)
(* one lock, and a primary key that is being inserted blocks a second      *)
(* insert of it.  A statement that waited for a row that was deleted       *)
(* meanwhile finds no row, even if the key was inserted again.             *)
(***************************************************************************)
EXTENDS KVCell

CONSTANTS Clients, Keys,
          MaxVersion  \* bound: no call begins on an entry of this version

ASSUME RepoAssumption == MaxVersion \in Nat /\ None \notin Clients \cup Keys

VARIABLES
    entry, call, seen, result,  \* as in KVStore; seen is a history variable
    pc,      \* pc[c]: "idle", "start", "waiting", "gone", "insert", "commit", "recheck", "done"
    lock,    \* lock[k]: the client whose transaction holds the row lock
    ins      \* ins[k]: the client whose transaction has inserted the key

storeVars == <<entry, call, seen, result>>
vars == <<entry, call, seen, result, pc, lock, ins>>

Store == INSTANCE KVStore

TypeOK ==
    /\ Store!TypeOK
    /\ pc \in [Clients -> {"idle", "start", "waiting", "gone", "insert", "commit", "recheck", "done"}]
    /\ lock \in [Keys -> Clients \cup {None}]
    /\ ins \in [Keys -> Clients \cup {None}]

Init ==
    /\ Store!Init
    /\ pc = [c \in Clients |-> "idle"]
    /\ lock = [k \in Keys |-> None]
    /\ ins = [k \in Keys |-> None]

To(c, p) == pc' = [pc EXCEPT ![c] = p]
Free(k, c) == lock' = [lock EXCEPT ![k] = IF @ = c THEN None ELSE @]
                /\ ins' = [ins EXCEPT ![k] = IF @ = c THEN None ELSE @]

\* The request ends without a change of the table; a transaction rolls back.
Finish(c, r) ==
    /\ Store!Answer(c, r)
    /\ To(c, "done")
    /\ Free(call[c].key, c)
    /\ UNCHANGED <<entry, call, seen>>

Invoke(c, o) == Store!Invoke(c, o) /\ To(c, "start") /\ UNCHANGED <<lock, ins>>

Return(c) == pc[c] = "done" /\ Store!Return(c) /\ To(c, "idle") /\ UNCHANGED <<lock, ins>>

\* Repo.Get: one SELECT.
Get(c) ==
    /\ pc[c] = "start" /\ call[c].op = "get"
    /\ Finish(c, Store!Ok(entry[call[c].key]))

\* A statement that needs the row waits for its lock.
WaitForRow(c) ==
    LET k == call[c].key IN
    /\ pc[c] = "start"
    /\ entry[k] # Absent /\ lock[k] # None
    /\ \/ call[c].op = "set"
       \/ call[c].op = "delete" /\ DeleteAllowed(entry[k], call[c].expected)
    /\ To(c, "waiting")
    /\ UNCHANGED <<storeVars, lock, ins>>

\* Repo.Write: SELECT ... FOR UPDATE finds the row; the version is compared
\* under the lock.  (The UPDATE that follows is visible with the commit.)
LockRow(c) ==
    LET k == call[c].key IN
    /\ pc[c] \in {"start", "waiting"} /\ call[c].op = "set"
    /\ entry[k] # Absent /\ lock[k] = None
    /\ \/ /\ ~Matches(entry[k], call[c].expected)
          /\ Finish(c, Store!Conflict)
       \/ /\ Matches(entry[k], call[c].expected)
          /\ lock' = [lock EXCEPT ![k] = c]
          /\ To(c, "commit")
          /\ UNCHANGED <<storeVars, ins>>

\* ... or finds none: the key is created if the caller expects version 0.
NoRow(c) ==
    /\ call[c].op = "set"
    /\ \/ pc[c] = "start" /\ entry[call[c].key] = Absent
       \/ pc[c] = "gone"
    /\ \/ /\ call[c].expected # 0
          /\ Finish(c, Store!Conflict)
       \/ /\ call[c].expected = 0
          /\ To(c, "insert")
          /\ UNCHANGED <<storeVars, lock, ins>>

\* Variant: a unique violation is not reported; the row is overwritten.
InsertOverwrites(c) ==
    LET k == call[c].key IN
    /\ pc[c] = "insert" /\ ins[k] = None
    /\ ins' = [ins EXCEPT ![k] = c]
    /\ To(c, "commit")
    /\ UNCHANGED <<storeVars, lock>>

\* INSERT waits for another insert of the key and then collides with it.
Insert(c) ==
    LET k == call[c].key IN
    /\ pc[c] = "insert" /\ ins[k] = None
    /\ \/ /\ entry[k] # Absent
          /\ Finish(c, Store!Conflict)
       \/ /\ entry[k] = Absent
          /\ ins' = [ins EXCEPT ![k] = c]
          /\ To(c, "commit")
          /\ UNCHANGED <<storeVars, lock>>

\* COMMIT, whose answer may be lost.
Commit(c) ==
    LET k == call[c].key
        new == Stored(entry[k], call[c].value) IN
    /\ pc[c] = "commit"
    /\ Store!Becomes([entry EXCEPT ![k] = new])
    /\ Store!Answer(c, Store!Ok(new)) \/ Store!Answer(c, Store!Error)
    /\ To(c, "done")
    /\ Free(k, c)
    /\ UNCHANGED call

\* The rows of ks are deleted: whoever waits for one of them has lost it.
Deleted(c, ks) ==
    pc' = [w \in Clients |->
             IF w = c THEN "done"
             ELSE IF pc[w] = "waiting" /\ call[w].key \in ks THEN "gone" ELSE pc[w]]

\* Repo.Delete: one DELETE, which removes the row if its version is right ...
DeleteRow(c) ==
    LET k == call[c].key IN
    /\ pc[c] \in {"start", "waiting"} /\ call[c].op = "delete"
    /\ entry[k] # Absent /\ lock[k] = None
    /\ DeleteAllowed(entry[k], call[c].expected)
    /\ Store!Becomes([entry EXCEPT ![k] = Absent])
    /\ Store!Answer(c, Store!Ok(Absent))
    /\ Deleted(c, {k})
    /\ UNCHANGED <<call, lock, ins>>

\* ... or affects no row.
DeleteMisses(c) ==
    LET k == call[c].key IN
    /\ call[c].op = "delete"
    /\ \/ pc[c] = "gone"
       \/ pc[c] = "start" /\ (entry[k] = Absent \/ ~DeleteAllowed(entry[k], call[c].expected))
       \/ pc[c] = "waiting" /\ ~DeleteAllowed(entry[k], call[c].expected)
    /\ \/ /\ call[c].expected = 0
          /\ Finish(c, Store!Ok(Absent))
       \/ /\ call[c].expected # 0
          /\ To(c, "recheck")
          /\ UNCHANGED <<storeVars, lock, ins>>

\* Then a second statement looks whether the key is gone.
Recheck(c) ==
    /\ pc[c] = "recheck"
    /\ Finish(c, IF entry[call[c].key] = Absent THEN Store!Ok(Absent) ELSE Store!Conflict)

\* A statement fails, or the request's context ends, before the commit.
Abort(c) ==
    /\ pc[c] \notin {"idle", "done"}
    /\ Finish(c, Store!Error)

\* Repo.DeleteByDeployment: one DELETE over all keys of the deployment.
DeleteByDeployment ==
    /\ \A k \in Keys : lock[k] = None
    /\ \E k \in Keys : entry[k] # Absent
    /\ Store!Becomes([k \in Keys |-> Absent])
    /\ Deleted(None, {k \in Keys : entry[k] # Absent})
    /\ UNCHANGED <<call, result, lock, ins>>

Work(c) ==
    \/ Get(c) \/ LockRow(c) \/ NoRow(c) \/ Insert(c) \/ Commit(c)
    \/ DeleteRow(c) \/ DeleteMisses(c) \/ Recheck(c) \/ WaitForRow(c)

Next ==
    \/ \E c \in Clients :
         \/ \E o \in Store!Calls : Invoke(c, o)
         \/ Work(c) \/ Abort(c) \/ Return(c)
    \/ DeleteByDeployment

Spec == Init /\ [][Next]_vars

-----------------------------------------------------------------------------
(* Properties.                                                             *)

\* The transactions keep the promises of core.KV: a Set takes effect on the
\* version its caller expects or answers with a conflict that some instant of
\* the call explains.
ImplementsStore == Store!Spec
=============================================================================
