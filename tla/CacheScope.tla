------------------------------ MODULE CacheScope -----------------------------
(***************************************************************************)
(* The cache-scope composite and the invalidate-cache block                *)
(* (core/internal/engine/cache.go) on one cache key.  The wrapped flow     *)
(* computes a body from data that changes; a body is named by the          *)
(* generation of the data that it was computed from.                       *)
(***************************************************************************)
EXTENDS KVCell

CONSTANTS Scopes,        \* runs of the cache-scope
          Invalidators,  \* runs of invalidate-cache
          MaxData,       \* bound on the changes of the data
          MaxExpiries    \* bound on the times an entry expires

CacheAssumption ==
    /\ MaxData \in Nat /\ MaxExpiries \in Nat /\ Values = 0..MaxData
    /\ Scopes \cap Invalidators = {}

VARIABLES
    data,     \* generation of the data the wrapped flow reads
    entry,    \* the cache entry: its value is the generation of the body
    expired,  \* the entry's deadline has passed
    expiries, \* expiries so far
    pc,       \* pc[p]: "get", "body", "store", "done" of a scope; "run", "done"
    version,  \* version[s]: the version read on the way in
    body,     \* body[s]: the body the scope has to return
    outcome,  \* outcome[p]: "none", "hit", "computed", "dropped", "failed", "evicted"
    evicted,  \* history: generation of the data at the last eviction
    floor,    \* floor[s]: history, evicted when the scope began
    overlap   \* history: some eviction happened while a scope was computing

vars == <<data, entry, expired, expiries, pc, version, body, outcome, evicted, floor, overlap>>
worldVars == <<data, entry, expired, expiries, evicted, overlap>>

Bodies == Values \cup {None}

TypeOK ==
    /\ data \in Values /\ evicted \in Values
    /\ entry \in Entries
    /\ expired \in BOOLEAN /\ overlap \in BOOLEAN
    /\ expiries \in 0..MaxExpiries
    /\ pc \in [Scopes \cup Invalidators -> {"get", "body", "store", "run", "done"}]
    /\ version \in [Scopes -> Nat]
    /\ body \in [Scopes -> Bodies]
    /\ floor \in [Scopes -> Values]
    /\ outcome \in [Scopes \cup Invalidators ->
                      {"none", "hit", "computed", "dropped", "failed", "evicted"}]

Init ==
    /\ data = 0 /\ evicted = 0
    /\ entry = Absent
    /\ expired = FALSE /\ overlap = FALSE
    /\ expiries = 0
    /\ pc = [p \in Scopes \cup Invalidators |-> IF p \in Scopes THEN "get" ELSE "run"]
    /\ version = [s \in Scopes |-> 0]
    /\ body = [s \in Scopes |-> None]
    /\ floor = [s \in Scopes |-> 0]
    /\ outcome = [p \in Scopes \cup Invalidators |-> "none"]

Done(p, o) ==
    /\ pc' = [pc EXCEPT ![p] = "done"]
    /\ outcome' = [outcome EXCEPT ![p] = o]

\* decodeFreshEnvelope: present and not expired.
Fresh == entry # Absent /\ ~expired

\* kv.Get: a fresh hit is served ...
Hit(s) ==
    /\ pc[s] = "get"
    /\ Fresh
    /\ body' = [body EXCEPT ![s] = entry.value]
    /\ floor' = [floor EXCEPT ![s] = evicted]
    /\ Done(s, "hit")
    /\ UNCHANGED <<worldVars, version>>

\* ... and a miss, an expired entry or an error of the store runs the flow.
Miss(s) ==
    /\ pc[s] = "get"
    /\ \/ ~Fresh /\ version' = [version EXCEPT ![s] = entry.version]
       \/ version' = [version EXCEPT ![s] = 0]
    /\ floor' = [floor EXCEPT ![s] = evicted]
    /\ pc' = [pc EXCEPT ![s] = "body"]
    /\ UNCHANGED <<worldVars, body, outcome>>

\* The wrapped flow.
Compute(s) ==
    /\ pc[s] = "body"
    /\ \/ /\ body' = [body EXCEPT ![s] = data]
          /\ pc' = [pc EXCEPT ![s] = "store"]
          /\ UNCHANGED outcome
       \/ (Done(s, "dropped") \/ Done(s, "failed")) /\ UNCHANGED body
    /\ UNCHANGED <<worldVars, version, floor>>

\* Variant: the store is retried with the current version, as object-write does.
StoreCurrent(s) ==
    /\ pc[s] = "store"
    /\ entry' = Stored(entry, body[s]) /\ expired' = FALSE
    /\ Done(s, "computed")
    /\ UNCHANGED <<data, expiries, evicted, version, body, floor, overlap>>

\* cacheScope.store: one Set with the version read on the way in; a conflict
\* and every other error leave the result uncached.
Store(s) ==
    /\ pc[s] = "store"
    /\ \/ /\ Matches(entry, version[s])
          /\ entry' = Stored(entry, body[s]) /\ expired' = FALSE
       \/ UNCHANGED <<entry, expired>>
    /\ Done(s, "computed")
    /\ UNCHANGED <<data, expiries, evicted, version, body, floor, overlap>>

\* invalidateCache.Process: kv.Delete with version 0.
Invalidate(i) ==
    /\ pc[i] = "run"
    /\ \/ /\ DeleteAllowed(entry, 0)
          /\ entry' = Absent /\ expired' = FALSE
          /\ evicted' = data
          /\ overlap' = (overlap \/ \E s \in Scopes : pc[s] \in {"body", "store"})
          /\ Done(i, "evicted")
       \/ Done(i, "failed") /\ UNCHANGED <<entry, expired, evicted, overlap>>
    /\ UNCHANGED <<data, expiries, version, body, floor>>

\* The data changes; the deadline of the entry passes.
Change ==
    /\ data < MaxData
    /\ data' = data + 1
    /\ UNCHANGED <<entry, expired, expiries, evicted, pc, version, body, outcome, floor, overlap>>

Expire ==
    /\ Fresh /\ expiries < MaxExpiries
    /\ expired' = TRUE /\ expiries' = expiries + 1
    /\ UNCHANGED <<data, entry, evicted, pc, version, body, outcome, floor, overlap>>

Finished == (\A p \in Scopes \cup Invalidators : pc[p] = "done") /\ UNCHANGED vars

Next ==
    \/ \E s \in Scopes : Hit(s) \/ Miss(s) \/ Compute(s) \/ Store(s)
    \/ \E i \in Invalidators : Invalidate(i)
    \/ Change \/ Expire
    \/ Finished

Spec == Init /\ [][Next]_vars

-----------------------------------------------------------------------------
(* Properties.                                                             *)

NotOlder == entry # Absent /\ entry' # Absent /\ ~overlap => entry'.value >= entry.value

\* A scope that ran slowly never replaces a body by an older one: what it would
\* store was computed before, so its version is out of date.  An eviction while a
\* scope runs starts the versions again and voids that.
NeverBackwards == [][NotOlder]_vars

\* invalidate-cache evicts the entry "so a later cache-scope with the same key
\* recomputes": a scope that begins after it is not served older data.
LaterScopesRecompute ==
    \A s \in Scopes : outcome[s] = "hit" => body[s] >= floor[s]

=============================================================================
