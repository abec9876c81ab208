----------------------------- MODULE Deployments -----------------------------
(***************************************************************************)
(* The deployment service of the orchestrator                              *)
(* (orchestrator/internal/deployment/service.go, repo.go): calls of        *)
(* Deploy, Undeploy, Scale and Rollout, each a sequence of separate        *)
(* statements on the deployments table and of requests to the Kubernetes   *)
(* API (internal/kube/deploy.go), with no transaction around them.  A call *)
(* runs under the context of its HTTP request, which may end at any time.  *)
(*                                                                         *)
(* The integrations have one name, so that their slugs compete: slug i is  *)
(* the i-th candidate of allocateSlug.  Snapshots, env bindings and        *)
(* subdomains are resolved by reads before the first write and left out.   *)
(***************************************************************************)
EXTENDS Naturals, Sequences, FiniteSets

CONSTANTS Deploys, Undeploys, Scales, Rollouts,  \* the calls; a deployment is named by its Deploy
          Networked,  \* the deploys whose definition declares HTTP_PORT
          External,   \* those with an external endpoint
          MaxSlug,    \* the last candidate of allocateSlug
          Serial,     \* groups of calls of which one runs at a time
          MayFail,    \* the kinds of request that may fail: "apply", "kube", "repo"
          MayCancel,  \* the calls whose request's context may end early
          None

Calls == Deploys \cup Undeploys \cup Scales \cup Rollouts
Slugs == 0 .. MaxSlug
Tags == Deploys \cup Rollouts
Counts == {1} \cup Scales   \* a replica count: the default, or that of a Scale

\* Metadata (slug, tag) and settings (snap, count) of a row.
Rows == [slug : Slugs \cup {None}, tag : Tags, snap : Tags, count : Counts]

ASSUME DeploymentsAssumption ==
    /\ External \subseteq Networked /\ Networked \subseteq Deploys
    /\ MaxSlug \in Nat /\ MayCancel \subseteq Calls
    /\ Serial \subseteq SUBSET Calls /\ MayFail \subseteq {"apply", "kube", "repo"}
    /\ None \notin Calls \cup Slugs \cup Rows \cup [tag : Tags, count : Counts]

Kinds == {"config", "work", "service", "ingress"}

VARIABLES
    rows,    \* integration_deployments: rows[d], or None
    objs,    \* the Services and Ingresses named from a deployment id: <<kind, d>>
    config,  \* config[d]: the tag in d's ConfigMap, or None
    work,    \* work[d]: tag and replica count of d's workload, or None
    inner,   \* inner[s]: the deployment that Service octo-int-{s} selects, or None
    stored,  \* the deployments with entries in the KV store
    pc,      \* pc[c]
    target,  \* target[c]: the deployment of the call
    cand,    \* cand[c]: the slug a Deploy tries; chosen[c]: the user named it
    chosen,
    at,      \* at[c]: the next object that Apply creates
    read,    \* read[c]: the row that the call read
    gone     \* gone[c]: the request's context has ended

clusterVars == <<objs, config, work, inner, stored>>
localVars == <<target, cand, chosen, at, read>>
vars == <<rows, objs, config, work, inner, stored, pc, target, cand, chosen, at, read, gone>>

PCs == {"new", "slug", "create", "apply", "rbkube", "rbinner", "rbrow",
        "get", "delkube", "delrow", "delinner", "clean", "scale", "settings",
        "rollconfig", "rollwork", "meta", "done", "failed"}

Init ==
    /\ rows = [d \in Deploys |-> None]
    /\ objs = {}
    /\ config = [d \in Deploys |-> None]
    /\ work = [d \in Deploys |-> None]
    /\ inner = [s \in Slugs |-> None]
    /\ stored = {}
    /\ pc = [c \in Calls |-> "new"]
    /\ target = [c \in Calls |-> None]
    /\ cand = [c \in Deploys |-> None]
    /\ chosen = [c \in Deploys |-> FALSE]
    /\ at = [c \in Deploys |-> 1]
    /\ read = [c \in Calls |-> None]
    /\ gone = [c \in Calls |-> FALSE]

Ended(c) == pc[c] \in {"done", "failed"}
Busy(c) == pc[c] # "new" /\ ~Ended(c)
Goto(c, l) == pc' = [pc EXCEPT ![c] = l]
Fails(c, kind) == gone[c] \/ kind \in MayFail

MayBegin(c) ==
    /\ pc[c] = "new"
    /\ \A g \in Serial : c \in g => \A e \in g : ~Busy(e)

\* The client goes away or the request times out.
Cancel(c) ==
    /\ c \in MayCancel /\ Busy(c) /\ ~gone[c]
    /\ gone' = [gone EXCEPT ![c] = TRUE]
    /\ UNCHANGED <<rows, clusterVars, pc, localVars>>

-----------------------------------------------------------------------------
(* Deploy.                                                                 *)

BeginDeploy(c) ==
    /\ c \in Deploys /\ MayBegin(c)
    /\ target' = [target EXCEPT ![c] = c]
    /\ IF c \in Networked
         THEN /\ \/ cand' = [cand EXCEPT ![c] = 0] /\ UNCHANGED chosen
                 \/ \E s \in Slugs : cand' = [cand EXCEPT ![c] = s] /\ chosen' = [chosen EXCEPT ![c] = TRUE]
              /\ Goto(c, "slug")
         ELSE Goto(c, "create") /\ UNCHANGED <<cand, chosen>>
    /\ UNCHANGED <<rows, clusterVars, at, read, gone>>

Taken(s) == \E d \in Deploys : rows[d] # None /\ rows[d].slug = s

\* Variant: the slug is not looked up.
ResolveBlindly(c) ==
    /\ pc[c] = "slug"
    /\ Goto(c, "create")
    /\ UNCHANGED <<rows, clusterVars, localVars, gone>>

\* resolveSlug and allocateSlug: one query for each candidate.
ResolveSlug(c) ==
    /\ pc[c] = "slug"
    /\ \/ Fails(c, "repo") /\ Goto(c, "failed") /\ UNCHANGED cand
       \/ ~gone[c] /\ ~Taken(cand[c]) /\ Goto(c, "create") /\ UNCHANGED cand
       \/ /\ ~gone[c] /\ Taken(cand[c]) /\ (chosen[c] \/ cand[c] = MaxSlug)
          /\ Goto(c, "failed") /\ UNCHANGED cand
       \/ /\ ~gone[c] /\ Taken(cand[c]) /\ ~chosen[c] /\ cand[c] < MaxSlug
          /\ cand' = [cand EXCEPT ![c] = @ + 1] /\ UNCHANGED pc
    /\ UNCHANGED <<rows, clusterVars, target, chosen, at, read, gone>>

CreateRow(c) ==
    /\ pc[c] = "create"
    /\ \/ Fails(c, "repo") /\ Goto(c, "failed") /\ UNCHANGED rows
       \/ /\ ~gone[c]
          /\ rows' = [rows EXCEPT ![c] = [slug |-> cand[c], tag |-> c, snap |-> c, count |-> 1]]
          /\ Goto(c, "apply")
    /\ UNCHANGED <<clusterVars, localVars, gone>>

\* What kube.Apply creates, in this order.
Parts(c) == <<"config", "work">> \o (IF c \in Networked THEN <<"service", "inner">> ELSE <<>>)
                                \o (IF c \in External THEN <<"ingress">> ELSE <<>>)

\* ensureInternalService: octo-int-{slug} may exist already, which is no error.
EnsureInner(c) == IF inner[cand[c]] = None THEN [inner EXCEPT ![cand[c]] = c] ELSE inner

\* The next object is created.
Apply(c) ==
    LET p == Parts(c)[at[c]] IN
    /\ pc[c] = "apply" /\ ~gone[c]
    /\ objs' = IF p \in {"service", "ingress"} THEN objs \cup {<<p, c>>} ELSE objs
    /\ config' = IF p = "config" THEN [config EXCEPT ![c] = c] ELSE config
    /\ work' = IF p = "work" THEN [work EXCEPT ![c] = [tag |-> c, count |-> 1]] ELSE work
    /\ inner' = IF p = "inner" THEN EnsureInner(c) ELSE inner
    /\ at' = [at EXCEPT ![c] = @ + 1]
    /\ Goto(c, IF at[c] = Len(Parts(c)) THEN "done" ELSE "apply")
    /\ UNCHANGED <<rows, stored, target, cand, chosen, read, gone>>

ApplyFails(c) ==
    /\ pc[c] = "apply" /\ Fails(c, "apply")
    /\ Goto(c, "rbkube")
    /\ UNCHANGED <<rows, clusterVars, localVars, gone>>

\* kube.Delete has removed the objects of kinds K named from the id.
DeleteObjects(d, K) ==
    /\ objs' = {o \in objs : o[2] = d => o[1] \notin K}
    /\ config' = IF "config" \in K THEN [config EXCEPT ![d] = None] ELSE config
    /\ work' = IF "work" \in K THEN [work EXCEPT ![d] = None] ELSE work

\* It tries them all, missing ones are no error, and any of them may fail.
DeleteFails(c, d) == Fails(c, "kube") /\ \E K \in SUBSET Kinds : DeleteObjects(d, K)

\* The rollback, under the same context; its errors are only logged.
RollbackObjects(c) ==
    /\ pc[c] = "rbkube"
    /\ DeleteFails(c, c) \/ (~gone[c] /\ DeleteObjects(c, Kinds))
    /\ Goto(c, IF cand[c] = None THEN "rbrow" ELSE "rbinner")
    /\ UNCHANGED <<rows, inner, stored, localVars, gone>>

\* Variant: the rollback forgets the internal Service.
RollbackNoInner(c) ==
    /\ pc[c] = "rbinner"
    /\ Goto(c, "rbrow")
    /\ UNCHANGED <<rows, clusterVars, localVars, gone>>

RollbackInner(c) ==
    /\ pc[c] = "rbinner"
    /\ \/ Fails(c, "kube") /\ UNCHANGED inner
       \/ ~gone[c] /\ inner' = [inner EXCEPT ![cand[c]] = None]
    /\ Goto(c, "rbrow")
    /\ UNCHANGED <<rows, objs, config, work, stored, localVars, gone>>

RollbackRow(c) ==
    /\ pc[c] = "rbrow"
    /\ \/ Fails(c, "repo") /\ UNCHANGED rows
       \/ ~gone[c] /\ rows' = [rows EXCEPT ![c] = None]
    /\ Goto(c, "failed")
    /\ UNCHANGED <<clusterVars, localVars, gone>>

-----------------------------------------------------------------------------
(* The calls on a deployment begin with repo.Get.                          *)

Begin(c) ==
    /\ c \in Calls \ Deploys /\ MayBegin(c)
    /\ \E d \in Deploys : rows[d] # None /\ target' = [target EXCEPT ![c] = d]
    /\ Goto(c, "get")
    /\ UNCHANGED <<rows, clusterVars, cand, chosen, at, read, gone>>

First(c) == IF c \in Undeploys THEN "delkube" ELSE IF c \in Scales THEN "scale" ELSE "rollconfig"

Get(c) ==
    LET r == rows[target[c]] IN
    /\ pc[c] = "get"
    /\ \/ (Fails(c, "repo") \/ r = None) /\ Goto(c, "failed") /\ UNCHANGED read
       \/ ~gone[c] /\ r # None /\ Goto(c, First(c)) /\ read' = [read EXCEPT ![c] = r]
    /\ UNCHANGED <<rows, clusterVars, target, cand, chosen, at, gone>>

\* Variant: the entries are dropped with the objects.
UndeployObjectsAndStore(c) ==
    /\ pc[c] = "delkube"
    /\ ~gone[c] /\ DeleteObjects(target[c], Kinds) /\ Goto(c, "delrow")
    /\ stored' = stored \ {target[c]}
    /\ UNCHANGED <<rows, inner, localVars, gone>>

\* Undeploy: the objects, the row, the internal Service and the stored entries.
UndeployObjects(c) ==
    /\ pc[c] = "delkube"
    /\ \/ DeleteFails(c, target[c]) /\ Goto(c, "failed")
       \/ ~gone[c] /\ DeleteObjects(target[c], Kinds) /\ Goto(c, "delrow")
    /\ UNCHANGED <<rows, inner, stored, localVars, gone>>

UndeployRow(c) ==
    LET d == target[c] IN
    /\ pc[c] = "delrow"
    /\ \/ (Fails(c, "repo") \/ rows[d] = None) /\ Goto(c, "failed") /\ UNCHANGED rows
       \/ /\ ~gone[c] /\ rows[d] # None
          /\ rows' = [rows EXCEPT ![d] = None]
          /\ Goto(c, IF read[c].slug = None THEN "clean" ELSE "delinner")
    /\ UNCHANGED <<clusterVars, localVars, gone>>

UndeployInner(c) ==
    /\ pc[c] = "delinner"
    /\ \/ Fails(c, "kube") /\ UNCHANGED inner
       \/ ~gone[c] /\ inner' = [inner EXCEPT ![read[c].slug] = None]
    /\ Goto(c, "clean")
    /\ UNCHANGED <<rows, objs, config, work, stored, localVars, gone>>

CleanStore(c) ==
    /\ pc[c] = "clean"
    /\ \/ Fails(c, "repo") /\ UNCHANGED stored
       \/ ~gone[c] /\ stored' = stored \ {target[c]}
    /\ Goto(c, "done")
    /\ UNCHANGED <<rows, objs, config, work, inner, localVars, gone>>

\* A pod, which may outlive its workload for a while, stores a value.
PodStores(d) ==
    /\ at[d] > 2 /\ d \notin stored
    /\ stored' = stored \cup {d}
    /\ UNCHANGED <<rows, objs, config, work, inner, pc, localVars, gone>>

\* Scale: the workload, then the settings as they were read with the new count.
ScaleWork(c) ==
    LET d == target[c] IN
    /\ pc[c] = "scale"
    /\ \/ (Fails(c, "kube") \/ work[d] = None) /\ Goto(c, "failed") /\ UNCHANGED work
       \/ /\ ~gone[c] /\ work[d] # None
          /\ work' = [work EXCEPT ![d].count = c]
          /\ Goto(c, "settings")
    /\ UNCHANGED <<rows, objs, config, inner, stored, localVars, gone>>

\* Variant: Scale does not store the count.
SettingsUnchanged(c) ==
    /\ pc[c] = "settings"
    /\ Goto(c, "done")
    /\ UNCHANGED <<rows, clusterVars, localVars, gone>>

\* repo.UpdateSettings: of a Scale, and the last step of a Rollout, whose error is only logged.
UpdateSettings(c) ==
    LET d == target[c] IN
    /\ pc[c] = "settings"
    /\ \/ /\ Fails(c, "repo") \/ rows[d] = None
          /\ Goto(c, IF c \in Scales THEN "failed" ELSE "done")
          /\ UNCHANGED rows
       \/ /\ ~gone[c] /\ rows[d] # None
          /\ rows' = IF c \in Scales
                       THEN [rows EXCEPT ![d].count = c, ![d].snap = read[c].snap]
                       ELSE [rows EXCEPT ![d].count = read[c].count, ![d].snap = c]
          /\ Goto(c, "done")
    /\ UNCHANGED <<clusterVars, localVars, gone>>

\* Rollout: the ConfigMap, the workload, the metadata and the settings.
RolloutConfig(c) ==
    LET d == target[c] IN
    /\ pc[c] = "rollconfig"
    /\ \/ (Fails(c, "kube") \/ config[d] = None) /\ Goto(c, "failed") /\ UNCHANGED config
       \/ ~gone[c] /\ config[d] # None /\ config' = [config EXCEPT ![d] = c] /\ Goto(c, "rollwork")
    /\ UNCHANGED <<rows, objs, work, inner, stored, localVars, gone>>

RolloutWork(c) ==
    LET d == target[c] IN
    /\ pc[c] = "rollwork"
    /\ \/ (Fails(c, "kube") \/ work[d] = None) /\ Goto(c, "failed") /\ UNCHANGED work
       \/ /\ ~gone[c] /\ work[d] # None
          /\ work' = [work EXCEPT ![d] = [tag |-> c, count |-> read[c].count]]
          /\ Goto(c, "meta")
    /\ UNCHANGED <<rows, objs, config, inner, stored, localVars, gone>>

UpdateMetadata(c) ==
    LET d == target[c] IN
    /\ pc[c] = "meta"
    /\ \/ (Fails(c, "repo") \/ rows[d] = None) /\ Goto(c, "failed") /\ UNCHANGED rows
       \/ ~gone[c] /\ rows[d] # None /\ rows' = [rows EXCEPT ![d].tag = c] /\ Goto(c, "settings")
    /\ UNCHANGED <<clusterVars, localVars, gone>>

Deploy(c) ==
    \/ ResolveSlug(c) \/ CreateRow(c) \/ Apply(c) \/ ApplyFails(c)
    \/ RollbackObjects(c) \/ RollbackInner(c) \/ RollbackRow(c)
Undeploy(c) == UndeployObjects(c) \/ UndeployRow(c) \/ UndeployInner(c) \/ CleanStore(c)
Change(c) == ScaleWork(c) \/ UpdateSettings(c) \/ RolloutConfig(c) \/ RolloutWork(c) \/ UpdateMetadata(c)
Idle == (\A c \in Calls : ~Busy(c)) /\ UNCHANGED vars

Next ==
    \/ \E c \in Calls : BeginDeploy(c) \/ Begin(c) \/ Get(c) \/ Cancel(c)
    \/ \E c \in Calls : Deploy(c) \/ Undeploy(c) \/ Change(c)
    \/ \E d \in Deploys : PodStores(d)
    \/ Idle

Spec == Init /\ [][Next]_vars

-----------------------------------------------------------------------------
(* Properties.                                                             *)

Deployed(d) == rows[d] # None /\ pc[d] = "done" /\ \A c \in Calls : target[c] = d => ~Busy(c)

\* What each variable holds.
TypeOK ==
    /\ rows \in [Deploys -> Rows \cup {None}]
    /\ objs \subseteq {"service", "ingress"} \X Deploys /\ stored \subseteq Deploys
    /\ config \in [Deploys -> Tags \cup {None}]
    /\ work \in [Deploys -> [tag : Tags, count : Counts] \cup {None}]
    /\ inner \in [Slugs -> Deploys \cup {None}]
    /\ pc \in [Calls -> PCs]
    /\ target \in [Calls -> Deploys \cup {None}]
    /\ cand \in [Deploys -> Slugs \cup {None}] /\ chosen \in [Deploys -> BOOLEAN]
    /\ at \in [Deploys -> 1 .. 6]
    /\ read \in [Calls -> Rows \cup {None}] /\ gone \in [Calls -> BOOLEAN]

\* The slug that resolveSlug gave a networked deployment is that of no other row.
SlugsUnique ==
    \A d, e \in Deploys :
        rows[d] # None /\ rows[e] # None /\ rows[d].slug # None /\ rows[d].slug = rows[e].slug => d = e

\* The internal Service of a deployed slug selects that deployment: neither
\* ensureInternalService nor DeleteInternalService of another call got in its way.
\* An Undeploy that was cut short before it deleted its Service leaves it to the
\* next deployment of the slug, which then does not reach its own pods.
AddressReaches ==
    (\A c \in Undeploys : ~gone[c]) =>
        \A d \in Deploys : Deployed(d) /\ rows[d].slug # None => inner[rows[d].slug] = d

Trace(d) ==
    \/ rows[d] # None \/ config[d] # None \/ work[d] # None
    \/ \E o \in objs : o[2] = d
    \/ \E s \in Slugs : inner[s] = d

\* The comment on Deploy: "a failed deploy leaves nothing behind", no row, no
\* object and no internal Service.
NothingLeftBehind == \A d \in Deploys : pc[d] = "failed" => ~Trace(d)

\* The rollback does achieve that whenever it can still make requests, at
\* whichever object Apply had failed.
RollbackRemovesAll == \A d \in Deploys : pc[d] = "failed" /\ ~gone[d] => ~Trace(d)

\* When no call on a deployment runs, and none was cut short, its row states the
\* tag and the replica count of the workload, in the metadata and in the settings.
RowMatchesCluster ==
    \A d \in Deploys : Deployed(d) /\ (\A c \in Calls : target[c] = d => ~gone[c]) =>
        /\ work[d] = [tag |-> rows[d].tag, count |-> rows[d].count]
        /\ config[d] = rows[d].tag /\ rows[d].snap = rows[d].tag

\* Entries are dropped only once the row is gone: an Undeploy that fails before
\* that, and so can be retried or abandoned, costs the deployment none of its data.
StoreOutlivesRow == [][\A d \in stored : d \notin stored' => rows[d] = None]_vars
=============================================================================
