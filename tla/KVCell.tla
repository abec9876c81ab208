-------------------------------- MODULE KVCell -------------------------------
(***************************************************************************)
(* One key of the deployment's key/value store (core/services.go): a       *)
(* versioned entry, written with optimistic concurrency.  Version 0 stands *)
(* for an absent key, as in the code, where the zero Entry has version 0.  *)
(***************************************************************************)
EXTENDS Naturals

CONSTANTS Values,  \* what a key can hold
          None

ASSUME ValuesAssumption == None \notin Values

Absent == [version |-> 0, value |-> None]

\* An entry that is there has a version of at least 1.
Entries == {Absent} \cup [version : Nat \ {0}, value : Values]

\* store.write compares the caller's version with the stored one ...
Matches(e, expected) == e.version = expected

\* ... and stores the value under the next version.
Stored(e, v) == [version |-> e.version + 1, value |-> v]

\* store.Delete: version 0 deletes whatever is there.
DeleteAllowed(e, expected) == expected = 0 \/ e.version = expected
=============================================================================
