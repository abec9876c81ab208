------------------------------- MODULE MCStores ------------------------------
(***************************************************************************)
(* The blocks that meet in a key of the store, object blocks and cache     *)
(* scopes, each in variables of their own.                                 *)
(***************************************************************************)
EXTENDS Naturals

CONSTANTS Writers, Deleters, Readers, WriteAttempts,       \* of ObjectBlocks
          Scopes, Invalidators, MaxData, MaxExpiries,      \* of CacheScope
          NoValue

VARIABLES
    objEntry, objStamp, objPc, objVersion, objRead, objTries, objOutcome, objChanges,
    objBegan,
    cchData, cchEntry, cchExpired, cchExpiries, cchPc, cchVersion, cchBody, cchOutcome,
    cchEvicted, cchFloor, cchOverlap

Objects == INSTANCE ObjectBlocks WITH
    Values <- Writers, Attempts <- WriteAttempts, None <- NoValue,
    entry <- objEntry, stamp <- objStamp, pc <- objPc,
    version <- objVersion, read <- objRead, tries <- objTries, outcome <- objOutcome,
    changes <- objChanges, began <- objBegan

Generations == 0..MaxData

Cache == INSTANCE CacheScope WITH
    Values <- Generations, None <- NoValue,
    data <- cchData, entry <- cchEntry, expired <- cchExpired,
    expiries <- cchExpiries, pc <- cchPc, version <- cchVersion, body <- cchBody,
    outcome <- cchOutcome, evicted <- cchEvicted, floor <- cchFloor, overlap <- cchOverlap

objVars ==
    <<objEntry, objStamp, objPc, objVersion, objRead, objTries, objOutcome, objChanges,
      objBegan>>
cchVars ==
    <<cchData, cchEntry, cchExpired, cchExpiries, cchPc, cchVersion, cchBody, cchOutcome,
      cchEvicted, cchFloor, cchOverlap>>

ASSUME StoresAssumption == Objects!ObjectAssumption /\ Cache!CacheAssumption

\* object-write gives up only under contention: each of its attempts lost to a
\* change of its own, so the others changed the key at least that many times.
GivesUpUnderContention == Objects!GivesUpUnderContention

\* A scope that ran slowly never replaces a body by an older one: what it would
\* store was computed before, so its version is out of date.  An eviction while a
\* scope runs starts the versions again and voids that.
NeverBackwards == Cache!NeverBackwards
=============================================================================
