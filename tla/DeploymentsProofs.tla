-------------------------- MODULE DeploymentsProofs --------------------------
(***************************************************************************)
(* What the calls of the deployment service leave behind, for any number   *)
(* of deployments and of calls that run at the same time.  An Undeploy     *)
(* drops the stored entries only when the row is gone for good: a          *)
(* deployment that a call works on has had its row, and Deploy does not    *)
(* create it again (RowInv).  A failed Deploy removes all that it made:    *)
(* only Apply makes something of a deployment out of nothing (RollbackInv).*)
(* When Deploys and Undeploys run one at a time the internal Service of a  *)
(* slug selects the deployment that has it (AddressInv), and when all      *)
(* calls do a row says what runs in the cluster (AgreeInv).                *)
(***************************************************************************)
EXTENDS Deployments, TLAPS

\* Deploy has not stored its row yet.
Unstored == {"new", "slug", "create"}

\* The control points of a call that has a deployment, and of an Undeploy that
\* has deleted its row.
OnTarget == {"get", "delkube", "delrow", "delinner", "clean", "scale", "settings",
             "rollconfig", "rollwork", "meta"}
RowDeleted == {"delinner", "clean"}

Types ==
    /\ DOMAIN rows = Deploys
    /\ pc \in [Calls -> PCs]
    /\ target \in [Calls -> Deploys \cup {None}]

RowInv ==
    /\ Types
    /\ \A d \in Deploys : pc[d] \in Unstored => rows[d] = None
    /\ \A c \in Calls : pc[c] \in OnTarget => target[c] \in Deploys /\ pc[target[c]] \notin Unstored
    /\ \A c \in Calls : pc[c] \in RowDeleted => rows[target[c]] = None

\* No row and no call yet.
LEMMA RowInit == Init => RowInv
  BY DEF Init, RowInv, Types, PCs, Unstored, OnTarget, RowDeleted, Calls

\* A step of call c after which it is at p, and which creates no row anew.
LEMMA RowFrame ==
    ASSUME RowInv, NEW c \in Calls, NEW p \in PCs, pc' = [pc EXCEPT ![c] = p], Types',
           \A e \in Calls \ {c} : target'[e] = target[e],
           \A d \in Deploys : rows[d] = None => rows'[d] = None \/ (d = c /\ pc[c] = "create" /\ p = "apply"),
           p \in Unstored => pc[c] \in Unstored,
           p \in OnTarget => target'[c] \in Deploys /\ pc[target'[c]] \notin Unstored,
           p \in RowDeleted => rows'[target'[c]] = None
    PROVE  RowInv'
  <1>1. \A d \in Deploys : pc'[d] \notin Unstored \/ (pc[d] \in Unstored /\ rows'[d] = None)
    BY Zenon DEF RowInv, Types, Unstored, Calls
  <1>2. ASSUME NEW e \in Calls, pc'[e] \in OnTarget
        PROVE  target'[e] \in Deploys /\ pc[target'[e]] \notin Unstored
    BY <1>2, Zenon DEF RowInv, Types
  <1>3. ASSUME NEW e \in Calls, pc'[e] \in OnTarget
        PROVE  target'[e] \in Deploys /\ pc'[target'[e]] \notin Unstored
    BY <1>1, <1>2, <1>3, Zenon
  <1>4. ASSUME NEW e \in Calls, pc'[e] \in RowDeleted PROVE rows'[target'[e]] = None
    <2>1. CASE e = c
      BY <1>4, <2>1 DEF RowInv, Types
    <2>2. CASE e # c
      <3>1. pc[e] \in RowDeleted /\ target'[e] = target[e] /\ rows[target[e]] = None
        BY <1>4, <2>2 DEF RowInv, Types
      <3>2. target[e] \in Deploys /\ pc[target[e]] \notin Unstored
        BY <3>1, Zenon DEF RowInv, RowDeleted, OnTarget
      <3> QED
        BY <3>1, <3>2, Zenon DEF Unstored
    <2> QED
      BY <2>1, <2>2, Zenon
  <1> QED
    BY <1>1, <1>3, <1>4, Zenon DEF RowInv

\* The steps of a Deploy.
LEMMA RowDeploy ==
    ASSUME RowInv, NEW c \in Calls, BeginDeploy(c) \/ Deploy(c)
    PROVE  RowInv'
  <1> USE DEF Goto, localVars
  <1>1. CASE BeginDeploy(c)
    <2>1. PICK p \in {"slug", "create"} : pc' = [pc EXCEPT ![c] = p]
      BY <1>1, Zenon DEF BeginDeploy
    <2> QED
      BY <1>1, <2>1, RowFrame, Zenon
      DEF BeginDeploy, MayBegin, RowInv, Types, PCs, Unstored, OnTarget, RowDeleted
  <1>2. CASE ResolveSlug(c)
    <2>1. PICK p \in {"failed", "create", "slug"} : pc' = [pc EXCEPT ![c] = p]
      BY <1>2, Zenon DEF ResolveSlug, RowInv, Types
    <2> QED
      BY <1>2, <2>1, RowFrame, Zenon
      DEF ResolveSlug, RowInv, Types, PCs, Unstored, OnTarget, RowDeleted
  <1>3. CASE CreateRow(c)
    <2>1. PICK p \in {"failed", "apply"} :
            /\ pc' = [pc EXCEPT ![c] = p]
            /\ p = "failed" => rows' = rows
            /\ \A d \in Deploys : d # c => rows'[d] = rows[d]
            /\ DOMAIN rows' = DOMAIN rows
      BY <1>3, Zenon DEF CreateRow, RowInv, Types
    <2>2. pc[c] = "create" /\ target' = target /\ Types'
      BY <1>3, <2>1, Zenon DEF CreateRow, RowInv, Types, PCs
    <2>3. \A d \in Deploys : rows[d] = None =>
            rows'[d] = None \/ (d = c /\ pc[c] = "create" /\ p = "apply")
      BY <2>1, <2>2, Zenon
    <2>4. p \in PCs /\ p \notin Unstored \cup OnTarget \cup RowDeleted
      BY Zenon DEF PCs, Unstored, OnTarget, RowDeleted
    <2> QED
      BY <2>1, <2>2, <2>3, <2>4, RowFrame, Zenon
  <1>4. CASE Apply(c) \/ ApplyFails(c) \/ RollbackObjects(c) \/ RollbackInner(c) \/ RollbackRow(c)
    <2>1. PICK p \in {"done", "apply", "rbkube", "rbinner", "rbrow", "failed"} :
            pc' = [pc EXCEPT ![c] = p]
      BY <1>4, Zenon DEF Apply, ApplyFails, RollbackObjects, RollbackInner, RollbackRow
    <2>2. target' = target /\ (rows' = rows \/ rows' = [rows EXCEPT ![c] = None])
      BY <1>4, Zenon DEF Apply, ApplyFails, RollbackObjects, RollbackInner, RollbackRow
    <2>3. Types' /\ \A d \in Deploys : rows[d] = None => rows'[d] = None
      BY <2>1, <2>2, Zenon DEF RowInv, Types, PCs
    <2> QED
      BY <2>1, <2>2, <2>3, RowFrame, ZenonT(30) DEF PCs, Unstored, OnTarget, RowDeleted
  <1> QED
    BY <1>1, <1>2, <1>3, <1>4, Zenon DEF Deploy

\* The steps of the other calls.
LEMMA RowCalls ==
    ASSUME RowInv, NEW c \in Calls, Begin(c) \/ Get(c) \/ Undeploy(c) \/ Change(c)
    PROVE  RowInv'
  <1> USE DEF Goto, localVars
  <1>1. CASE Begin(c)
    <2>1. PICK d \in Deploys : rows[d] # None /\ target' = [target EXCEPT ![c] = d]
      BY <1>1, Zenon DEF Begin
    <2>2. pc[d] \notin Unstored
      BY <2>1, Zenon DEF RowInv
    <2>3. /\ pc' = [pc EXCEPT ![c] = "get"] /\ rows' = rows /\ Types' /\ target'[c] = d
          /\ \A e \in Calls \ {c} : target'[e] = target[e]
      BY <1>1, <2>1, Zenon DEF Begin, RowInv, Types, PCs
    <2> QED
      BY <2>2, <2>3, RowFrame, Zenon DEF PCs, Unstored, OnTarget, RowDeleted
  <1>2. CASE ~Begin(c)
    <2>1. target' = target /\ pc[c] \in OnTarget
      BY <1>2, Zenon
      DEF Get, Undeploy, Change, UndeployObjects, UndeployRow, UndeployInner, CleanStore, ScaleWork,
          UpdateSettings, RolloutConfig, RolloutWork, UpdateMetadata, OnTarget
    <2>2. target[c] \in Deploys /\ pc[target[c]] \notin Unstored
      BY <2>1, Zenon DEF RowInv
    <2>3. PICK p \in OnTarget \cup {"done", "failed"} :
            /\ pc' = [pc EXCEPT ![c] = p]
            /\ p \in RowDeleted => rows'[target[c]] = None
      BY <1>2, <2>2
      DEF Get, First, Undeploy, Change, UndeployObjects, UndeployRow, UndeployInner, CleanStore,
          ScaleWork, UpdateSettings, RolloutConfig, RolloutWork, UpdateMetadata, OnTarget,
          RowDeleted, RowInv, Types
    <2>4. DOMAIN rows' = Deploys /\ \A d \in Deploys : rows[d] = None => rows'[d] = None
      BY <1>2, <2>2, Zenon
      DEF Get, Undeploy, Change, UndeployObjects, UndeployRow, UndeployInner, CleanStore, ScaleWork,
          UpdateSettings, RolloutConfig, RolloutWork, UpdateMetadata, RowInv, Types
    <2>5. Types' /\ p \in PCs /\ p \notin Unstored
      BY <2>1, <2>3, <2>4, Zenon DEF RowInv, Types, PCs, Unstored, OnTarget
    <2> QED
      BY <2>1, <2>2, <2>3, <2>4, <2>5, RowFrame, Zenon
  <1> QED
    BY <1>1, <1>2, Zenon

\* Every step keeps the rows where their Deploys put them.
LEMMA RowStep == RowInv /\ [Next]_vars => RowInv'
  <1>1. ASSUME RowInv, UNCHANGED <<rows, pc, target>> PROVE RowInv'
    BY <1>1, Zenon DEF RowInv, Types
  <1>2. ASSUME RowInv, NEW c \in Calls, Cancel(c) PROVE RowInv'
    BY <1>1, <1>2, Zenon DEF Cancel, localVars
  <1>3. ASSUME RowInv, NEW d \in Deploys, PodStores(d) PROVE RowInv'
    BY <1>1, <1>3, Zenon DEF PodStores, localVars
  <1>4. RowInv /\ (Idle \/ UNCHANGED vars) => RowInv'
    BY <1>1, Zenon DEF Idle, vars
  <1> QED
    BY <1>2, <1>3, <1>4, RowDeploy, RowCalls, Zenon DEF Next

\* Only CleanStore drops entries.
LEMMA DropsAfterRow ==
    ASSUME RowInv, [Next]_vars, NEW d \in stored, d \notin stored'
    PROVE  rows[d] = None
  <1>1. PICK c \in Calls : CleanStore(c)
    BY ZenonT(30)
    DEF Next, BeginDeploy, Begin, Get, Cancel, Deploy, ResolveSlug, CreateRow, Apply, ApplyFails,
        RollbackObjects, RollbackInner, RollbackRow, Undeploy, UndeployObjects, UndeployRow,
        UndeployInner, Change, ScaleWork, UpdateSettings, RolloutConfig, RolloutWork,
        UpdateMetadata, PodStores, Idle, vars, clusterVars
  <1>2. d = target[c] /\ pc[c] = "clean"
    BY <1>1, Zenon DEF CleanStore
  <1> QED
    BY <1>2, Zenon DEF RowInv, RowDeleted

\* An Undeploy costs a deployment none of its data before its row is gone, for
\* any number of deployments and of calls on them, each of which may fail or end
\* early at any request to the database or the cluster.
THEOREM EntriesOutliveRow == Spec => StoreOutlivesRow
  <1>1. RowInv /\ [Next]_vars => [\A d \in stored : d \notin stored' => rows[d] = None]_vars
    BY DropsAfterRow, Zenon
  <1> QED
    BY <1>1, RowInit, RowStep, PTL DEF Spec, StoreOutlivesRow
-----------------------------------------------------------------------------
(* The rollback.                                                           *)

\* The objects named from the id of d are gone, or were never made.
NoObjects(d) == config[d] = None /\ work[d] = None /\ \A o \in objs : o[2] # d
NoInner(d) == \A s \in Slugs : inner[s] # d

\* Only Apply makes something of a deployment out of nothing, and what a rollback
\* that can make requests has removed stays away.
RolledBack(d) ==
    /\ pc[d] \notin OnTarget
    /\ \A s \in Slugs : inner[s] = d => s = cand[d]
    /\ pc[d] \in Unstored => NoObjects(d) /\ NoInner(d) /\ rows[d] = None
    /\ ~gone[d] => /\ pc[d] \in {"rbinner", "rbrow", "failed"} => NoObjects(d)
                   /\ pc[d] \in {"rbrow", "failed"} => NoInner(d)
                   /\ pc[d] = "failed" => rows[d] = None

RollbackTypes ==
    /\ DOMAIN config = Deploys /\ DOMAIN work = Deploys
    /\ DOMAIN inner = Slugs /\ DOMAIN cand = Deploys
    /\ (\A o \in objs : o[1] \in Kinds) /\ gone \in [Calls -> BOOLEAN]

RollbackInv == RowInv /\ RollbackTypes /\ \A d \in Deploys : RolledBack(d)

\* A step makes nothing of d that was not there.
NothingMade(d) ==
    /\ rows[d] = None => rows'[d] = None
    /\ config[d] = None => config'[d] = None
    /\ work[d] = None => work'[d] = None
    /\ \A o \in objs' : o[2] = d => o \in objs
    /\ \A s \in Slugs : inner'[s] = d => inner[s] = d

\* What such a step leaves in place.
LEMMA RolledBackStays ==
    ASSUME NEW d \in Deploys, RolledBack(d), NothingMade(d), pc'[d] = pc[d], cand'[d] = cand[d],
           gone[d] => gone'[d]
    PROVE  RolledBack(d)'
  <1>1. NoObjects(d) => NoObjects(d)'
    BY Zenon DEF NothingMade, NoObjects
  <1>2. NoInner(d) => NoInner(d)'
    BY Zenon DEF NothingMade, NoInner
  <1> QED
    BY <1>1, <1>2, Zenon DEF RolledBack, NothingMade

\* No call makes anything of a deployment that is not there, but for its own Deploy.
LEMMA OthersMakeNothing ==
    ASSUME RowInv, RollbackTypes, NEW c \in Calls, NEW d \in Deploys,
           \/ c # d /\ (BeginDeploy(c) \/ Deploy(c))
           \/ Begin(c) \/ Get(c) \/ Undeploy(c) \/ Change(c) \/ Cancel(c)
    PROVE  NothingMade(d)
  <1> USE DEF RollbackTypes, NothingMade, clusterVars
  <1>0. DOMAIN rows = Deploys /\ None \notin Deploys
    BY DeploymentsAssumption, Zenon DEF RowInv, Types, Calls
  <1>1. CASE BeginDeploy(c) \/ ResolveSlug(c) \/ ApplyFails(c) \/ Begin(c) \/ Get(c) \/ Cancel(c)
    BY <1>1, Zenon DEF BeginDeploy, ResolveSlug, ApplyFails, Begin, Get, Cancel
  <1>2. CASE c # d /\ CreateRow(c)
    BY <1>0, <1>2, Zenon DEF CreateRow
  <1>3. CASE c # d /\ Apply(c)
    BY <1>3 DEF Apply, EnsureInner
  <1>4. CASE RollbackObjects(c)
    BY <1>4, Zenon DEF RollbackObjects, DeleteFails, DeleteObjects
  <1>5. CASE RollbackInner(c) \/ RollbackRow(c)
    BY <1>0, <1>5, Zenon DEF RollbackInner, RollbackRow
  <1>6. CASE Undeploy(c)
    <2>1. CASE UndeployObjects(c)
      BY <2>1, Zenon DEF UndeployObjects, DeleteFails, DeleteObjects
    <2>2. CASE UndeployRow(c) \/ UndeployInner(c) \/ CleanStore(c)
      BY <1>0, <2>2, Zenon DEF UndeployRow, UndeployInner, CleanStore
    <2> QED
      BY <1>6, <2>1, <2>2, Zenon DEF Undeploy
  <1>7. CASE Change(c)
    <2>1. CASE ScaleWork(c) \/ RolloutConfig(c) \/ RolloutWork(c)
      BY <2>1, Zenon DEF ScaleWork, RolloutConfig, RolloutWork
    <2>2. CASE UpdateSettings(c) \/ UpdateMetadata(c)
      BY <1>0, <2>2, Zenon DEF UpdateSettings, UpdateMetadata
    <2> QED
      BY <1>7, <2>1, <2>2, Zenon DEF Change
  <1> QED
    BY <1>1, <1>2, <1>3, <1>4, <1>5, <1>6, <1>7, Zenon DEF Deploy

\* Every step keeps the types.
LEMMA RollbackTypesStep == ASSUME RollbackTypes, [Next]_vars PROVE RollbackTypes'
  <1> USE DEF RollbackTypes, clusterVars, localVars
  <1>1. ASSUME NEW c \in Calls, BeginDeploy(c) \/ Begin(c) \/ Get(c) \/ Cancel(c) PROVE RollbackTypes'
    BY <1>1, Zenon DEF BeginDeploy, Begin, Get, Cancel
  <1>2. ASSUME NEW c \in Calls, Deploy(c) PROVE RollbackTypes'
    BY <1>2
    DEF Deploy, ResolveSlug, CreateRow, Apply, EnsureInner, ApplyFails, RollbackObjects,
        DeleteFails, DeleteObjects, RollbackInner, RollbackRow, Kinds
  <1>3. ASSUME NEW c \in Calls, Undeploy(c) PROVE RollbackTypes'
    BY <1>3, Zenon
    DEF Undeploy, UndeployObjects, DeleteFails, DeleteObjects, UndeployRow, UndeployInner,
        CleanStore
  <1>4. ASSUME NEW c \in Calls, Change(c) PROVE RollbackTypes'
    BY <1>4, Zenon DEF Change, ScaleWork, UpdateSettings, RolloutConfig, RolloutWork, UpdateMetadata
  <1>5. ASSUME NEW d \in Deploys, PodStores(d) PROVE RollbackTypes'
    BY <1>5, Zenon DEF PodStores
  <1> QED
    BY <1>1, <1>2, <1>3, <1>4, <1>5, Zenon DEF Next, Idle, vars

\* A Deploy makes its objects and, when a request of Apply fails, removes them all.
LEMMA DeployRollsBack ==
    ASSUME RollbackInv, {"kube", "repo"} \cap MayFail = {}, NEW c \in Deploys, BeginDeploy(c) \/ Deploy(c)
    PROVE  RolledBack(c)'
  <1>0. RowInv /\ RollbackTypes /\ RolledBack(c) /\ DOMAIN rows = Deploys
        /\ pc \in [Calls -> PCs] /\ c \in Calls
    BY Zenon DEF RollbackInv, RowInv, Types, Calls
  <1> USE DEF RolledBack, Goto, Unstored, OnTarget, clusterVars, localVars
  <1>1. CASE BeginDeploy(c)
    BY <1>0, <1>1 DEF BeginDeploy, MayBegin, NoObjects, NoInner
  <1>2. CASE ResolveSlug(c)
    BY <1>0, <1>2, Zenon DEF ResolveSlug, NoObjects, NoInner
  <1>3. CASE CreateRow(c)
    BY <1>0, <1>3, Zenon DEF CreateRow, Fails, NoObjects, NoInner
  <1>4. CASE Apply(c)
    <2>1. pc'[c] \in {"apply", "done"} /\ cand' = cand
      BY <1>0, <1>4, Zenon DEF Apply
    <2>2. \A s \in Slugs : inner'[s] = c => s = cand'[c]
      BY <1>0, <1>4, <2>1, Zenon DEF Apply, EnsureInner, RollbackTypes
    <2> QED
      BY <2>1, <2>2, Zenon
  <1>5. CASE ApplyFails(c)
    BY <1>0, <1>5, Zenon DEF ApplyFails
  <1>6. CASE RollbackObjects(c)
    <2>1. /\ pc'[c] = (IF cand[c] = None THEN "rbrow" ELSE "rbinner") /\ gone' = gone
          /\ UNCHANGED <<inner, cand, rows>>
      BY <1>0, <1>6, Zenon DEF RollbackObjects
    <2>2. ~gone[c] => DeleteObjects(c, Kinds)
      BY <1>6, Zenon DEF RollbackObjects, DeleteFails, Fails
    <2>3. ~gone[c] => NoObjects(c)'
      BY <1>0, <2>2, Zenon DEF DeleteObjects, NoObjects, RollbackTypes, Kinds
    <2>4. cand[c] = None => NoInner(c)'
      BY <1>0, <2>1, DeploymentsAssumption, Zenon DEF NoInner
    <2> QED
      BY <1>0, <2>1, <2>3, <2>4, Zenon
  <1>7. CASE RollbackInner(c)
    <2>1. /\ pc[c] = "rbinner" /\ pc'[c] = "rbrow" /\ gone' = gone /\ UNCHANGED <<objs, config, work, cand, rows>>
          /\ inner' = inner \/ inner' = [inner EXCEPT ![cand[c]] = None]
          /\ ~gone[c] => inner' = [inner EXCEPT ![cand[c]] = None]
      BY <1>0, <1>7, Zenon DEF RollbackInner, Fails
    <2>2. \A s \in Slugs : inner'[s] = c => inner[s] = c /\ s = cand[c]
      BY <1>0, <2>1, DeploymentsAssumption DEF RollbackTypes, Calls
    <2>3. ~gone[c] => NoInner(c)'
      BY <1>0, <2>1, <2>2, DeploymentsAssumption DEF NoInner, RollbackTypes, Calls
    <2> QED
      BY <1>0, <2>1, <2>2, <2>3, Zenon DEF NoObjects
  <1>8. CASE RollbackRow(c)
    BY <1>0, <1>8, Zenon DEF RollbackRow, Fails, NoObjects, NoInner
  <1> QED
    BY <1>1, <1>2, <1>3, <1>4, <1>5, <1>6, <1>7, <1>8, Zenon DEF Deploy

\* Every step keeps what has been rolled back away.
LEMMA RollbackStep ==
    ASSUME RollbackInv, {"kube", "repo"} \cap MayFail = {}, [Next]_vars
    PROVE  RollbackInv'
  <1>0. RowInv /\ RollbackTypes /\ (\A d \in Deploys : RolledBack(d))
        /\ pc \in [Calls -> PCs] /\ Deploys \subseteq Calls
    BY Zenon DEF RollbackInv, RowInv, Types, Calls
  <1>1. RowInv' /\ RollbackTypes'
    BY <1>0, RowStep, RollbackTypesStep, Zenon
  <1>2. ASSUME NEW d \in Deploys PROVE RolledBack(d)'
    <2>1. ASSUME NEW c \in Calls, c # d, BeginDeploy(c) \/ Deploy(c) PROVE RolledBack(d)'
      <3>1. pc'[d] = pc[d] /\ cand'[d] = cand[d] /\ gone' = gone
        <4>1. CASE BeginDeploy(c) \/ ResolveSlug(c) \/ CreateRow(c)
          BY <1>0, <2>1, <4>1, Zenon
          DEF BeginDeploy, ResolveSlug, CreateRow, Goto, localVars, RollbackTypes
        <4>2. CASE Apply(c) \/ ApplyFails(c)
          BY <1>0, <2>1, <4>2, Zenon DEF Apply, ApplyFails, Goto, localVars
        <4>3. CASE RollbackObjects(c) \/ RollbackInner(c) \/ RollbackRow(c)
          BY <1>0, <2>1, <4>3, Zenon
          DEF RollbackObjects, RollbackInner, RollbackRow, Goto, localVars
        <4> QED
          BY <2>1, <4>1, <4>2, <4>3, Zenon DEF Deploy
      <3> QED
        BY <1>0, <2>1, <3>1, OthersMakeNothing, RolledBackStays, Zenon
    <2>2. ASSUME NEW c \in Calls, Begin(c) \/ Get(c) \/ Undeploy(c) \/ Change(c) PROVE RolledBack(d)'
      <3>1. cand' = cand /\ gone' = gone /\ \A e \in Calls \ {c} : pc'[e] = pc[e]
        BY <1>0, <2>2, Zenon
        DEF Begin, Get, Undeploy, UndeployObjects, UndeployRow, UndeployInner, CleanStore, Change,
            ScaleWork, UpdateSettings, RolloutConfig, RolloutWork, UpdateMetadata, Goto, localVars
      <3>2. c # d
        BY <1>0, <2>2, Zenon
        DEF Begin, Get, Undeploy, UndeployObjects, UndeployRow, UndeployInner, CleanStore, Change,
            ScaleWork, UpdateSettings, RolloutConfig, RolloutWork, UpdateMetadata, RolledBack,
            OnTarget
      <3> QED
        BY <1>0, <2>2, <3>1, <3>2, OthersMakeNothing, RolledBackStays, Zenon
    <2>3. ASSUME NEW c \in Calls, Cancel(c) PROVE RolledBack(d)'
      <3>1. pc' = pc /\ cand' = cand /\ (gone[d] => gone'[d])
        BY <1>0, <2>3, Zenon DEF Cancel, localVars, RollbackTypes
      <3> QED
        BY <1>0, <2>3, <3>1, OthersMakeNothing, RolledBackStays, Zenon
    <2>4. ASSUME UNCHANGED <<rows, objs, config, work, inner, pc, cand, gone>> PROVE RolledBack(d)'
      BY <1>0, <2>4, RolledBackStays, Zenon DEF NothingMade
    <2>5. CASE (\E e \in Deploys : PodStores(e)) \/ Idle \/ UNCHANGED vars
      BY <2>4, <2>5, Zenon DEF PodStores, Idle, vars, localVars
    <2>6. ASSUME BeginDeploy(d) \/ Deploy(d) PROVE RolledBack(d)'
      BY <2>6, DeployRollsBack, Zenon
    <2> QED
      BY <1>0, <2>1, <2>2, <2>3, <2>5, <2>6, Zenon DEF Next
  <1> QED
    BY <1>1, <1>2, Zenon DEF RollbackInv

\* Nothing has been made yet.
LEMMA RollbackInit == Init => RollbackInv
  <1> SUFFICES ASSUME Init PROVE RollbackInv
    OBVIOUS
  <1>1. RollbackTypes
    BY Zenon DEF Init, RollbackTypes
  <1>2. ASSUME NEW d \in Deploys PROVE RolledBack(d)
    BY DeploymentsAssumption, Zenon DEF Init, RolledBack, NoObjects, NoInner, OnTarget, Calls
  <1> QED
    BY <1>1, <1>2, RowInit, Zenon DEF RollbackInv

\* When the cluster and the database answer, a Deploy that fails leaves no row, no
\* object and no internal Service, at whichever object Apply had failed and whatever
\* calls run at the same time, if its own request's context lasts.
THEOREM RollbackIsComplete ==
    ASSUME {"kube", "repo"} \cap MayFail = {}
    PROVE  Spec => []RollbackRemovesAll
  <1>1. RollbackInv => RollbackRemovesAll
    BY DEF RollbackInv, RolledBack, RollbackRemovesAll, Trace, NoObjects, NoInner
  <1> QED
    BY <1>1, RollbackInit, RollbackStep, PTL DEF Spec

-----------------------------------------------------------------------------
(* The calls that run one at a time, and the rows that they have read.     *)

\* One call of g is under way at a time.
OneBusy(g) == \A c, e \in g : Busy(c) /\ Busy(e) => c = e

\* The control points of a Deploy, of an Undeploy, and of a Rollout.
DeployPCs == {"slug", "create", "apply", "rbkube", "rbinner", "rbrow"}
UndeployPCs == {"delkube", "delrow", "delinner", "clean"}
RolloutPCs == {"rollconfig", "rollwork", "meta"}

\* A call runs its own operation, on the row that it has read.
Role(c) ==
    /\ pc[c] \in DeployPCs => c \in Deploys
    /\ pc[c] \in UndeployPCs => c \in Undeploys
    /\ pc[c] = "scale" => c \in Scales
    /\ pc[c] \in RolloutPCs => c \in Rollouts
    /\ pc[c] = "settings" => c \in Scales \cup Rollouts
    /\ pc[c] \in OnTarget \ {"get"} => read[c] \in Rows /\ read[c].slug = cand[target[c]]

\* The types that the argument needs; a row has the slug that its Deploy chose.
SlugTypes ==
    /\ rows \in [Deploys -> Rows \cup {None}]
    /\ read \in [Calls -> Rows \cup {None}]
    /\ inner \in [Slugs -> Deploys \cup {None}]
    /\ cand \in [Deploys -> Slugs \cup {None}] /\ at \in [Deploys -> Nat]
    /\ \A c \in Calls : Role(c)
    /\ \A d \in Deploys : /\ rows[d] # None => rows[d].slug = cand[d]
                          /\ cand[d] # None => d \in Networked /\ pc[d] # "new"
                          /\ pc[d] = "slug" => cand[d] # None
                          /\ pc[d] \in Unstored => at[d] = 1

\* A call moves only itself, from where it is under way or may begin.
LEMMA OneMoves ==
    ASSUME RollbackInv, [Next]_vars, pc' # pc
    PROVE  \E c \in Calls, p \in PCs : pc' = [pc EXCEPT ![c] = p] /\ (Busy(c) \/ MayBegin(c))
  <1>0. pc \in [Calls -> PCs]
    BY Zenon DEF RollbackInv, RowInv, Types
  <1> USE DEF Goto, Busy, Ended, PCs
  <1>1. ASSUME NEW c \in Calls, BeginDeploy(c) \/ Begin(c) \/ Get(c)
        PROVE  \E p \in PCs : pc' = [pc EXCEPT ![c] = p] /\ (Busy(c) \/ MayBegin(c))
    BY <1>0, <1>1, Zenon DEF BeginDeploy, Begin, Get, First
  <1>2. ASSUME NEW c \in Calls, Deploy(c)
        PROVE  \E p \in PCs : pc' = [pc EXCEPT ![c] = p] /\ Busy(c)
    <2>1. CASE ResolveSlug(c)
      BY <1>0, <2>1, Zenon DEF ResolveSlug
    <2>2. CASE CreateRow(c)
      BY <1>0, <2>2, Zenon DEF CreateRow
    <2>3. CASE Apply(c) \/ ApplyFails(c)
      BY <1>0, <2>3, Zenon DEF Apply, ApplyFails
    <2>4. CASE RollbackObjects(c) \/ RollbackInner(c) \/ RollbackRow(c)
      BY <1>0, <2>4, Zenon DEF RollbackObjects, RollbackInner, RollbackRow
    <2> QED
      BY <1>2, <2>1, <2>2, <2>3, <2>4, Zenon DEF Deploy
  <1>3. ASSUME NEW c \in Calls, Undeploy(c)
        PROVE  \E p \in PCs : pc' = [pc EXCEPT ![c] = p] /\ Busy(c)
    BY <1>0, <1>3, Zenon DEF Undeploy, UndeployObjects, UndeployRow, UndeployInner, CleanStore
  <1>4. ASSUME NEW c \in Calls, Change(c)
        PROVE  \E p \in PCs : pc' = [pc EXCEPT ![c] = p] /\ Busy(c)
    BY <1>0, <1>4, Zenon
    DEF Change, ScaleWork, UpdateSettings, RolloutConfig, RolloutWork, UpdateMetadata
  <1> QED
    BY <1>1, <1>2, <1>3, <1>4, ZenonT(30) DEF Next, Cancel, PodStores, Idle, vars

\* No call of a group begins while one is under way.
LEMMA OneBusyStep ==
    ASSUME RollbackInv, NEW g \in Serial, OneBusy(g), [Next]_vars
    PROVE  OneBusy(g)'
  <1>0. pc \in [Calls -> PCs] /\ g \subseteq Calls
    BY DeploymentsAssumption, Zenon DEF RollbackInv, RowInv, Types
  <1>1. CASE pc' = pc
    BY <1>1, Zenon DEF OneBusy, Busy, Ended
  <1>2. CASE pc' # pc
    <2>1. PICK c \in Calls, p \in PCs : pc' = [pc EXCEPT ![c] = p] /\ (Busy(c) \/ MayBegin(c))
      BY <1>2, OneMoves, Zenon
    <2>2. \A e \in g : e # c => (Busy(e)' <=> Busy(e))
      BY <1>0, <2>1, Zenon DEF Busy, Ended
    <2>3. c \in g => Busy(c) \/ \A e \in g : ~Busy(e)
      BY <2>1, Zenon DEF MayBegin
    <2> QED
      BY <2>2, <2>3, Zenon DEF OneBusy
  <1> QED
    BY <1>1, <1>2, Zenon

\* The slug of a deployment is chosen before its row is stored.
LEMMA CandStays ==
    ASSUME RollbackInv, [Next]_vars, NEW d \in Deploys, pc[d] \notin {"new", "slug"}
    PROVE  cand'[d] = cand[d]
  <1>0. DOMAIN cand = Deploys
    BY Zenon DEF RollbackInv, RollbackTypes
  <1> QED
    BY <1>0, ZenonT(30)
    DEF Next, BeginDeploy, MayBegin, Begin, Get, Cancel, Deploy, ResolveSlug, CreateRow, Apply,
        ApplyFails, RollbackObjects, RollbackInner, RollbackRow, Undeploy, UndeployObjects,
        UndeployRow, UndeployInner, CleanStore, Change, ScaleWork, UpdateSettings, RolloutConfig,
        RolloutWork, UpdateMetadata, PodStores, Idle, vars, localVars

\* What a call that does not move keeps.
LEMMA RoleStays ==
    ASSUME RollbackInv, [Next]_vars, NEW c \in Calls, Role(c), pc'[c] = pc[c], read'[c] = read[c],
           pc[c] \in OnTarget => target'[c] = target[c]
    PROVE  Role(c)'
  <1>1. pc[c] \in OnTarget => cand'[target[c]] = cand[target[c]]
    BY CandStays, Zenon DEF RollbackInv, RowInv, Unstored
  <1> QED
    BY <1>1, Zenon DEF Role, OnTarget

\* The steps of the calls keep the types.
LEMMA RolesDeploy ==
    ASSUME RollbackInv, SlugTypes, NEW c \in Calls, BeginDeploy(c) \/ Deploy(c), [Next]_vars
    PROVE  /\ \A e \in Calls : Role(e)'
           /\ cand' \in [Deploys -> Slugs \cup {None}] /\ at' \in [Deploys -> Nat]
           /\ rows' \in [Deploys -> Rows \cup {None}] /\ inner' \in [Slugs -> Deploys \cup {None}]
           /\ read' = read
  <1>0. pc \in [Calls -> PCs] /\ c \in Deploys /\ RowInv /\ SlugTypes /\ Role(c)
    <2>1. pc \in [Calls -> PCs] /\ RowInv /\ Role(c)
      BY Zenon DEF RollbackInv, RowInv, Types, SlugTypes
    <2>2. pc[c] \in DeployPCs \/ c \in Deploys
      BY Zenon DEF BeginDeploy, Deploy, ResolveSlug, CreateRow, Apply, ApplyFails, RollbackObjects,
          RollbackInner, RollbackRow, DeployPCs
    <2> QED
      BY <2>1, <2>2, Zenon DEF Role
  <1>1. /\ read' = read /\ (\A e \in Calls \ {c} : pc'[e] = pc[e] /\ target'[e] = target[e])
        /\ pc'[c] \in DeployPCs \cup {"done", "failed"}
    BY <1>0, Zenon
    DEF BeginDeploy, Deploy, ResolveSlug, CreateRow, Apply, ApplyFails, RollbackObjects,
        RollbackInner, RollbackRow, DeployPCs, Goto, localVars, RowInv, Types
  <1>2. Role(c)'
    BY <1>0, <1>1, Zenon DEF Role, DeployPCs, UndeployPCs, RolloutPCs, OnTarget
  <1>3. \A e \in Calls \ {c} : Role(e)'
    BY <1>0, <1>1, RoleStays, Zenon DEF SlugTypes
  <1>4. cand' \in [Deploys -> Slugs \cup {None}] /\ at' \in [Deploys -> Nat]
    <2>1. cand[c] < MaxSlug /\ cand[c] \in Slugs => cand[c] + 1 \in Slugs
      BY DeploymentsAssumption DEF Slugs
    <2>2. 0 \in Slugs
      BY DeploymentsAssumption DEF Slugs
    <2>3. cand' = cand \/ cand' = [cand EXCEPT ![c] = 0] \/ (\E s \in Slugs : cand' = [cand EXCEPT ![c] = s])
          \/ (cand[c] < MaxSlug /\ cand' = [cand EXCEPT ![c] = cand[c] + 1] /\ pc[c] = "slug")
      BY <1>0, Zenon
      DEF BeginDeploy, Deploy, ResolveSlug, CreateRow, Apply, ApplyFails, RollbackObjects,
          RollbackInner, RollbackRow, localVars
    <2>4. at' = at \/ at' = [at EXCEPT ![c] = @ + 1]
      BY <1>0, Zenon
      DEF BeginDeploy, Deploy, ResolveSlug, CreateRow, Apply, ApplyFails, RollbackObjects,
          RollbackInner, RollbackRow, localVars
    <2>5. pc[c] = "slug" => cand[c] \in Slugs
      BY <1>0, Zenon DEF SlugTypes
    <2> QED
      BY <1>0, <2>1, <2>2, <2>3, <2>4, <2>5 DEF SlugTypes
  <1>5. rows' \in [Deploys -> Rows \cup {None}]
    <2>1. [slug |-> cand[c], tag |-> c, snap |-> c, count |-> 1] \in Rows
      BY <1>0, Zenon DEF SlugTypes, Rows, Tags, Counts
    <2>2. \/ rows' = rows \/ rows' = [rows EXCEPT ![c] = None]
          \/ rows' = [rows EXCEPT ![c] = [slug |-> cand[c], tag |-> c, snap |-> c, count |-> 1]]
      BY Zenon DEF BeginDeploy, Deploy, ResolveSlug, CreateRow, Apply, ApplyFails, RollbackObjects,
          RollbackInner, RollbackRow
    <2> HIDE DEF Rows
    <2> QED
      BY <1>0, <2>1, <2>2, Zenon DEF SlugTypes
  <1>6. inner' \in [Slugs -> Deploys \cup {None}]
    <2>1. \/ inner' = inner \/ inner' = [inner EXCEPT ![cand[c]] = None] \/ inner' = [inner EXCEPT ![cand[c]] = c]
      BY Zenon
      DEF BeginDeploy, Deploy, ResolveSlug, CreateRow, Apply, EnsureInner, ApplyFails,
          RollbackObjects, RollbackInner, RollbackRow, clusterVars
    <2> QED
      BY <1>0, <2>1, Zenon DEF SlugTypes
  <1> QED
    BY <1>1, <1>2, <1>3, <1>4, <1>5, <1>6, Zenon

\* The same for the calls that are not a Deploy.
LEMMA RolesOther ==
    ASSUME RollbackInv, SlugTypes, NEW c \in Calls, Begin(c) \/ Get(c) \/ Undeploy(c) \/ Change(c), [Next]_vars
    PROVE  /\ c \notin Deploys /\ (\A e \in Calls : Role(e)')
           /\ rows' \in [Deploys -> Rows \cup {None}] /\ read' \in [Calls -> Rows \cup {None}]
           /\ inner' \in [Slugs -> Deploys \cup {None}] /\ cand' = cand /\ at' = at
           /\ \A d \in Deploys : /\ rows'[d] # None => rows[d] # None /\ rows'[d].slug = rows[d].slug
                                 /\ pc'[d] = pc[d]
  <1>0. /\ pc \in [Calls -> PCs] /\ target \in [Calls -> Deploys \cup {None}] /\ Role(c) /\ SlugTypes
        /\ pc[c] \in OnTarget => target[c] \in Deploys
    BY Zenon DEF RollbackInv, RowInv, Types, SlugTypes
  <1>1. cand' = cand /\ at' = at
        /\ (\A e \in Calls \ {c} : pc'[e] = pc[e] /\ target'[e] = target[e] /\ read'[e] = read[e])
    BY <1>0, SMTT(30)
    DEF Begin, Get, Undeploy, UndeployObjects, UndeployRow, UndeployInner, CleanStore, Change,
        ScaleWork, UpdateSettings, RolloutConfig, RolloutWork, UpdateMetadata, Goto, localVars,
        SlugTypes
  <1>2. c \notin Deploys /\ \A d \in Deploys : pc'[d] = pc[d]
    <2>1. c \notin Deploys \/ pc[c] \in OnTarget
      BY Zenon
      DEF Begin, Get, Undeploy, UndeployObjects, UndeployRow, UndeployInner, CleanStore, Change,
          ScaleWork, UpdateSettings, RolloutConfig, RolloutWork, UpdateMetadata, OnTarget
    <2> QED
      BY <1>1, <2>1, Zenon DEF RollbackInv, RolledBack, Calls
  <1>3. \A e \in Calls \ {c} : Role(e)'
    BY <1>0, <1>1, RoleStays, Zenon DEF SlugTypes
  <1> USE DEF Goto, localVars, clusterVars
  <1>4. CASE Begin(c)
    <2>1. pc'[c] = "get" /\ UNCHANGED <<rows, read, inner>>
      BY <1>0, <1>4, Zenon DEF Begin
    <2>2. Role(c)'
      BY <2>1, Zenon DEF Role, DeployPCs, UndeployPCs, RolloutPCs
    <2> QED
      BY <1>0, <1>1, <1>2, <1>3, <2>1, <2>2, Zenon DEF SlugTypes
  <1>5. CASE Get(c)
    <2>1. /\ pc[c] = "get" /\ UNCHANGED <<rows, inner, target>>
          /\ \/ pc'[c] = "failed" /\ read' = read
             \/ pc'[c] = First(c) /\ rows[target[c]] # None /\ read' = [read EXCEPT ![c] = rows[target[c]]]
      BY <1>0, <1>5, Zenon DEF Get
    <2>2. target[c] \in Deploys
          /\ (rows[target[c]] # None => rows[target[c]] \in Rows /\ rows[target[c]].slug = cand[target[c]])
      BY <1>0, <2>1 DEF OnTarget, SlugTypes
    <2>3. read' \in [Calls -> Rows \cup {None}] /\ (pc'[c] # "failed" => read'[c] = rows[target[c]])
      <3> HIDE DEF Rows
      <3> QED
        BY <1>0, <2>1, <2>2, Zenon DEF SlugTypes, First
    <2>4. Role(c)'
      <3>1. CASE pc'[c] = "failed"
        BY <3>1, Zenon DEF Role, DeployPCs, UndeployPCs, RolloutPCs, OnTarget
      <3>2. CASE pc'[c] = First(c) /\ rows[target[c]] # None /\ pc'[c] # "failed"
        <4>1. read'[c] \in Rows /\ read'[c].slug = cand'[target'[c]]
          BY <1>1, <2>1, <2>2, <2>3, <3>2, Zenon
        <4> QED
          BY <1>2, <3>2, <4>1, Zenon
          DEF Role, First, DeployPCs, UndeployPCs, RolloutPCs, OnTarget, Calls
      <3> QED
        BY <2>1, <3>1, <3>2, Zenon
    <2> QED
      BY <1>0, <1>1, <1>2, <1>3, <2>1, <2>3, <2>4 DEF SlugTypes
  <1>6. CASE Undeploy(c)
    <2>1. /\ pc[c] \in UndeployPCs /\ pc'[c] \in UndeployPCs \cup {"done", "failed"} /\ UNCHANGED <<read, target>>
          /\ rows' = rows \/ rows' = [rows EXCEPT ![target[c]] = None]
          /\ inner' = inner \/ inner' = [inner EXCEPT ![read[c].slug] = None]
      BY <1>0, <1>6, Zenon
      DEF Undeploy, UndeployObjects, UndeployRow, UndeployInner, CleanStore, UndeployPCs
    <2>2. rows' \in [Deploys -> Rows \cup {None}] /\ inner' \in [Slugs -> Deploys \cup {None}]
          /\ \A d \in Deploys : rows'[d] # None => rows'[d] = rows[d]
      <3> HIDE DEF Rows
      <3> QED
        BY <1>0, <2>1, Zenon DEF SlugTypes
    <2>3. Role(c)'
      BY <1>0, <1>1, <2>1, Zenon DEF Role, DeployPCs, UndeployPCs, RolloutPCs, OnTarget
    <2> QED
      BY <1>0, <1>1, <1>2, <1>3, <2>1, <2>2, <2>3, Zenon DEF SlugTypes
  <1>7. CASE ScaleWork(c) \/ RolloutConfig(c) \/ RolloutWork(c)
    <2>1. /\ UNCHANGED <<rows, inner, read, target>>
          /\ \/ pc'[c] = "failed"
             \/ pc[c] = "scale" /\ pc'[c] = "settings"
             \/ pc[c] \in RolloutPCs /\ pc'[c] \in RolloutPCs
      BY <1>0, <1>7, Zenon DEF ScaleWork, RolloutConfig, RolloutWork, RolloutPCs
    <2>2. Role(c)'
      BY <1>0, <1>1, <2>1, Zenon DEF Role, DeployPCs, UndeployPCs, RolloutPCs, OnTarget
    <2> QED
      BY <1>0, <1>1, <1>2, <1>3, <2>1, <2>2, Zenon DEF SlugTypes
  <1>8. CASE UpdateSettings(c) \/ UpdateMetadata(c)
    <2> DEFINE d == target[c]
    <2>1. /\ UNCHANGED <<inner, read, target>> /\ pc[c] \in {"settings", "meta"}
          /\ pc'[c] \in {"failed", "done"} \/ (pc[c] = "meta" /\ pc'[c] = "settings")
          /\ \/ rows' = rows
             \/ /\ pc[c] = "settings" /\ c \in Scales /\ rows[d] # None
                /\ rows' = [rows EXCEPT ![d].count = c, ![d].snap = read[c].snap]
             \/ /\ pc[c] = "settings" /\ c \notin Scales /\ rows[d] # None
                /\ rows' = [rows EXCEPT ![d].count = read[c].count, ![d].snap = c]
             \/ /\ pc[c] = "meta" /\ rows[d] # None
                /\ rows' = [rows EXCEPT ![d].tag = c]
      BY <1>0, <1>8, Zenon DEF UpdateSettings, UpdateMetadata
    <2>2. /\ d \in Deploys /\ rows \in [Deploys -> Rows \cup {None}] /\ read[c] \in Rows
          /\ c \in Scales \cup Rollouts /\ (pc[c] = "meta" \/ c \notin Scales => c \in Rollouts)
      BY <1>0, <2>1, Zenon DEF OnTarget, Role, RolloutPCs, SlugTypes
    <2>3. rows[d] # None => rows[d] \in Rows /\ rows[d].slug = cand[d]
      BY <2>2, <1>0 DEF SlugTypes
    <2>4. rows' \in [Deploys -> Rows \cup {None}]
          /\ \A e \in Deploys : rows'[e] # None => rows[e] # None /\ rows'[e].slug = rows[e].slug
      <3>1. CASE rows' = rows
        BY <2>2, <3>1, Zenon
      <3>2. CASE rows' # rows
        <4>1. /\ rows[d] # None
              /\ \E r \in Rows : r.slug = rows[d].slug /\ rows' = [rows EXCEPT ![d] = r]
          BY <2>1, <2>2, <2>3, <3>2, SMTT(30) DEF Rows, Tags, Counts
        <4> HIDE DEF Rows
        <4> QED
          BY <2>2, <4>1
      <3> QED
        BY <3>1, <3>2, Zenon
    <2>5. Role(c)'
      BY <1>0, <1>1, <2>1, <2>2, Zenon DEF Role, DeployPCs, UndeployPCs, RolloutPCs, OnTarget
    <2> QED
      BY <1>0, <1>1, <1>2, <1>3, <2>1, <2>4, <2>5, Zenon DEF SlugTypes
  <1> QED
    BY <1>4, <1>5, <1>6, <1>7, <1>8, Zenon DEF Change

\* Nothing has a slug yet.
LEMMA SlugInit == Init => SlugTypes
  BY DEF Init, SlugTypes, Role, DeployPCs, UndeployPCs, RolloutPCs, OnTarget, Calls

\* Every step keeps the types and the slugs of the rows.
LEMMA SlugTypesStep == ASSUME RollbackInv, SlugTypes, [Next]_vars PROVE SlugTypes'
  <1>0. pc \in [Calls -> PCs] /\ Deploys \subseteq Calls
        /\ (\A d \in Deploys : pc[d] \in Unstored => rows[d] = None)
    BY Zenon DEF RollbackInv, RowInv, Types, Calls
  <1>1. ASSUME NEW c \in Calls, Begin(c) \/ Get(c) \/ Undeploy(c) \/ Change(c) PROVE SlugTypes'
    BY <1>1, RolesOther DEF SlugTypes
  <1>2. ASSUME NEW c \in Calls, BeginDeploy(c) \/ Deploy(c) PROVE SlugTypes'
    <2>1. /\ (\A e \in Calls : Role(e)') /\ read' \in [Calls -> Rows \cup {None}]
          /\ cand' \in [Deploys -> Slugs \cup {None}] /\ at' \in [Deploys -> Nat]
          /\ rows' \in [Deploys -> Rows \cup {None}] /\ inner' \in [Slugs -> Deploys \cup {None}]
      BY <1>2, RolesDeploy DEF SlugTypes
    <2>2. c \in Deploys
      BY <1>2, Zenon
      DEF SlugTypes, Role, DeployPCs, BeginDeploy, Deploy, ResolveSlug, CreateRow, Apply,
          ApplyFails, RollbackObjects, RollbackInner, RollbackRow
    <2> DEFINE Of(d) == /\ rows[d] # None => rows[d].slug = cand[d]
                        /\ cand[d] # None => d \in Networked /\ pc[d] # "new"
                        /\ pc[d] = "slug" => cand[d] # None
                        /\ pc[d] \in Unstored => at[d] = 1
    <2>3. \A d \in Deploys : Of(d)
      BY Zenon DEF SlugTypes
    <2>4. ASSUME NEW d \in Deploys, d # c PROVE Of(d)'
      <3>1. rows'[d] = rows[d] /\ cand'[d] = cand[d] /\ pc'[d] = pc[d] /\ at'[d] = at[d]
        BY <1>0, <1>2, <2>4, Zenon
        DEF SlugTypes, BeginDeploy, Deploy, ResolveSlug, CreateRow, Apply, ApplyFails,
            RollbackObjects, RollbackInner, RollbackRow, Goto, localVars
      <3> QED
        BY <2>3, <3>1, Zenon
    <2>5. Of(c)'
      <3>0. cand[c] \in Slugs \cup {None} /\ (\A s \in Slugs : s # None)
            /\ DOMAIN cand = Deploys /\ DOMAIN rows = Deploys
            /\ c \in Calls /\ Of(c)
        BY <2>2, <2>3, DeploymentsAssumption DEF SlugTypes
      <3> USE DEF Goto, localVars, Unstored
      <3>1. CASE BeginDeploy(c)
        <4>1. 0 \in Slugs
          BY DeploymentsAssumption DEF Slugs
        <4>2. pc[c] = "new" /\ rows'[c] = None /\ at' = at /\ at[c] = 1
          BY <1>0, <2>2, <3>0, <3>1, Zenon DEF BeginDeploy, MayBegin
        <4>3. \/ c \in Networked /\ pc'[c] = "slug" /\ cand'[c] \in Slugs
              \/ pc'[c] = "create" /\ cand' = cand
          BY <1>0, <2>2, <3>0, <3>1, <4>1, Zenon DEF BeginDeploy
        <4> QED
          BY <3>0, <4>2, <4>3, Zenon
      <3>2. CASE ResolveSlug(c)
        <4>1. pc[c] = "slug" /\ rows'[c] = None /\ at' = at /\ pc'[c] \in {"slug", "create", "failed"}
          BY <1>0, <2>2, <3>0, <3>2, Zenon DEF ResolveSlug
        <4>2. cand'[c] \in Slugs
          <5>1. cand[c] \in Slugs /\ (cand[c] < MaxSlug => cand[c] + 1 \in Slugs)
            BY <3>0, <4>1, DeploymentsAssumption DEF Slugs
          <5> QED
            BY <2>2, <3>0, <3>2, <5>1, Zenon DEF ResolveSlug
        <4> QED
          BY <3>0, <4>1, <4>2, Zenon
      <3>3. CASE CreateRow(c)
        <4>1. /\ pc[c] = "create" /\ pc'[c] \in {"apply", "failed"} /\ at' = at /\ cand' = cand
              /\ rows'[c] # None => rows'[c] = [slug |-> cand[c], tag |-> c, snap |-> c, count |-> 1]
          BY <1>0, <2>2, <3>0, <3>3, Zenon DEF CreateRow
        <4> QED
          BY <3>0, <4>1
      <3>4. CASE Apply(c) \/ ApplyFails(c) \/ RollbackObjects(c) \/ RollbackInner(c) \/ RollbackRow(c)
        <4>1. /\ pc[c] # "new" /\ pc'[c] \notin {"new", "slug", "create"} /\ cand' = cand
              /\ rows'[c] = rows[c] \/ rows'[c] = None
          BY <1>0, <2>2, <3>0, <3>4, Zenon
          DEF Apply, ApplyFails, RollbackObjects, RollbackInner, RollbackRow
        <4> QED
          BY <3>0, <4>1, Zenon
      <3> QED
        BY <1>2, <3>1, <3>2, <3>3, <3>4, Zenon DEF Deploy
    <2>6. \A d \in Deploys : Of(d)'
      BY <2>4, <2>5, Zenon
    <2> QED
      BY <2>1, <2>6, Zenon DEF SlugTypes
  <1>3. ASSUME UNCHANGED <<rows, read, inner, cand, at, pc, target>> PROVE SlugTypes'
    BY <1>3 DEF SlugTypes, Role
  <1> QED
    BY <1>1, <1>2, <1>3, Zenon DEF Next, Cancel, PodStores, Idle, vars, localVars, clusterVars

-----------------------------------------------------------------------------
(* The internal Services, when one Deploy or Undeploy runs at a time.      *)

\* No Undeploy was cut short.
Intact == \A c \in Undeploys : ~gone[c]

\* The rows have slugs of their own, and a Deploy that is about to store its row, or
\* an Undeploy that has deleted its, sees no other with the slug.
SlugsApart ==
    /\ \A d, e \in Deploys : rows[d] # None /\ rows[e] # None /\ cand[d] # None /\ cand[d] = cand[e] => d = e
    /\ \A d, e \in Deploys : pc[d] = "create" /\ rows[e] # None /\ cand[d] # None => cand[d] # cand[e]
    /\ \A c \in Calls, e \in Deploys :
          pc[c] = "delinner" /\ rows[e] # None /\ cand[e] # None => cand[target[c]] # cand[e]

\* An internal Service selects a deployment that has a row, or that an Undeploy is
\* removing; a Deploy has its own once Apply has passed it.
ServicesOwned ==
    /\ \A d \in Deploys : pc[d] \in {"apply", "rbkube", "rbinner"} => rows[d] # None
    /\ \A s \in Slugs : inner[s] # None =>
          \/ rows[inner[s]] # None
          \/ \E c \in Calls : pc[c] = "delinner" /\ target[c] = inner[s]
    /\ \A d \in Deploys : rows[d] # None /\ cand[d] # None /\ (pc[d] = "done" \/ (pc[d] = "apply" /\ at[d] > 4))
          => inner[cand[d]] = d

AddressInv(g) ==
    /\ RollbackInv /\ OneBusy(g) /\ SlugTypes /\ SlugsApart
    /\ Intact => ServicesOwned

\* A step that leaves the slugs, the internal Services and the rows where they are,
\* and takes no call to a point that the invariant speaks of.
LEMMA AddressFrame ==
    ASSUME inner' = inner, cand' = cand, at' = at, \A d \in Deploys : rows'[d] = None <=> rows[d] = None,
           \A c \in Calls : pc'[c] = "delinner" <=> pc[c] = "delinner",
           \A c \in Calls : pc[c] = "delinner" => target'[c] = target[c],
           \A d \in Deploys : /\ pc'[d] \in {"create", "apply", "done"} => pc'[d] = pc[d]
                              /\ pc'[d] \in {"rbkube", "rbinner"} => pc[d] \in {"apply", "rbkube", "rbinner"},
           inner \in [Slugs -> Deploys \cup {None}]
    PROVE  /\ SlugsApart => SlugsApart'
           /\ ServicesOwned => ServicesOwned'
  <1>1. SlugsApart => SlugsApart'
    BY DEF SlugsApart
  <1>2. ASSUME ServicesOwned PROVE ServicesOwned'
    <2>1. \A d \in Deploys : pc'[d] \in {"apply", "rbkube", "rbinner"} => rows'[d] # None
      BY <1>2 DEF ServicesOwned
    <2>2. ASSUME NEW s \in Slugs, inner'[s] # None
          PROVE  rows'[inner'[s]] # None \/ \E c \in Calls : pc'[c] = "delinner" /\ target'[c] = inner'[s]
      BY <1>2, <2>2 DEF ServicesOwned
    <2>3. \A d \in Deploys : rows'[d] # None /\ cand'[d] # None /\ (pc'[d] = "done" \/ (pc'[d] = "apply" /\ at'[d] > 4))
            => inner'[cand'[d]] = d
      BY <1>2 DEF ServicesOwned
    <2> QED
      BY <2>1, <2>2, <2>3, Zenon DEF ServicesOwned
  <1> QED
    BY <1>1, <1>2, Zenon

\* While a Deploy or an Undeploy is under way, no other is.
LEMMA AloneInGroup ==
    ASSUME NEW g, Deploys \cup Undeploys \subseteq g, AddressInv(g), NEW c \in g, Busy(c)
    PROVE  /\ \A d \in Deploys : d # c => pc[d] \in {"new", "done", "failed"}
           /\ \A e \in Calls : e # c => pc[e] \notin UndeployPCs
  <1>1. OneBusy(g) /\ \A e \in Calls : pc[e] \in UndeployPCs => e \in Undeploys
    BY Zenon DEF AddressInv, SlugTypes, Role
  <1> QED
    BY <1>1, Zenon DEF OneBusy, Busy, Ended, UndeployPCs

\* A Deploy chooses its slug, which no row has.
LEMMA ChooseKeeps ==
    ASSUME NEW g, Deploys \cup Undeploys \subseteq g, AddressInv(g), NEW c \in Deploys,
           BeginDeploy(c) \/ ResolveSlug(c)
    PROVE  SlugsApart' /\ (Intact' => ServicesOwned')
  <1>0. /\ RollbackInv /\ SlugTypes /\ SlugsApart /\ (Intact => ServicesOwned) /\ c \in Calls
        /\ pc \in [Calls -> PCs] /\ Deploys \subseteq Calls
    BY Zenon DEF AddressInv, RollbackInv, RowInv, Types, Calls
  <1> USE DEF Goto, localVars
  <1>1. /\ pc[c] \in {"new", "slug"} /\ UNCHANGED <<rows, inner, at, gone>>
        /\ pc'[c] \in {"slug", "create", "failed"}
        /\ \A e \in Calls : e # c => pc'[e] = pc[e] /\ target'[e] = target[e]
        /\ \A d \in Deploys : d # c => cand'[d] = cand[d]
    BY <1>0, SMTT(30)
    DEF BeginDeploy, ResolveSlug, MayBegin, clusterVars, RollbackInv, RollbackTypes, RowInv, Types
  <1>2. rows[c] = None
    BY <1>0, <1>1, Zenon DEF RollbackInv, RowInv, Unstored
  <1>3. ASSUME NEW e \in Deploys, pc'[c] = "create", rows[e] # None, cand'[c] # None PROVE cand'[c] # cand[e]
    <2>1. ~Taken(cand[c]) /\ cand'[c] = cand[c]
      BY <1>0, <1>3 DEF BeginDeploy, MayBegin, ResolveSlug, SlugTypes
    <2> QED
      BY <1>0, <1>3, <2>1, Zenon DEF Taken, SlugTypes
  <1>4. SlugsApart'
    <2>1. \A d, e \in Deploys : rows'[d] # None /\ rows'[e] # None /\ cand'[d] # None
              /\ cand'[d] = cand'[e] => d = e
      BY <1>0, <1>1, <1>2 DEF SlugsApart
    <2>2. \A d, e \in Deploys : pc'[d] = "create" /\ rows'[e] # None /\ cand'[d] # None => cand'[d] # cand'[e]
      BY <1>0, <1>1, <1>2, <1>3 DEF SlugsApart
    <2>3. ASSUME NEW b \in Calls, NEW e \in Deploys, pc'[b] = "delinner", rows'[e] # None, cand'[e] # None
          PROVE  cand'[target'[b]] # cand'[e]
      <3>1. b # c /\ pc[b] = "delinner" /\ target'[b] = target[b]
        BY <1>1, <2>3, Zenon
      <3>2. target[b] \in Deploys /\ target[b] # c
        BY <1>0, <1>1, <3>1 DEF RollbackInv, RowInv, OnTarget, Unstored
      <3> QED
        BY <1>0, <1>1, <1>2, <2>3, <3>1, <3>2 DEF SlugsApart
    <2> QED
      BY <2>1, <2>2, <2>3, Zenon DEF SlugsApart
  <1>5. ASSUME Intact' PROVE ServicesOwned'
    <2>0. ServicesOwned
      BY <1>0, <1>1, <1>5, Zenon DEF Intact
    <2>1. \A d \in Deploys : pc'[d] \in {"apply", "rbkube", "rbinner"} => rows'[d] # None
      BY <1>0, <1>1, <2>0, Zenon DEF ServicesOwned
    <2>2. ASSUME NEW s \in Slugs, inner'[s] # None
          PROVE  rows'[inner'[s]] # None \/ \E e \in Calls : pc'[e] = "delinner" /\ target'[e] = inner'[s]
      BY <1>1, <2>0, <2>2 DEF ServicesOwned
    <2>3. \A d \in Deploys : rows'[d] # None /\ cand'[d] # None /\ (pc'[d] = "done" \/ (pc'[d] = "apply" /\ at'[d] > 4))
            => inner'[cand'[d]] = d
      BY <1>0, <1>1, <1>2, <2>0 DEF ServicesOwned
    <2> QED
      BY <2>1, <2>2, <2>3, Zenon DEF ServicesOwned
  <1> QED
    BY <1>4, <1>5, Zenon

\* The row is stored: nobody else has stored one with the slug since it was looked up.
LEMMA CreateKeeps ==
    ASSUME NEW g, Deploys \cup Undeploys \subseteq g, AddressInv(g), NEW c \in Deploys, CreateRow(c)
    PROVE  SlugsApart' /\ (Intact' => ServicesOwned')
  <1>0. /\ RollbackInv /\ SlugTypes /\ SlugsApart /\ (Intact => ServicesOwned) /\ c \in Calls
        /\ pc \in [Calls -> PCs] /\ Deploys \subseteq Calls /\ DOMAIN rows = Deploys
    BY Zenon DEF AddressInv, RollbackInv, RowInv, Types, Calls
  <1>1. /\ pc[c] = "create" /\ UNCHANGED <<inner, at, gone, cand, target>> /\ at[c] = 1
        /\ \A e \in Calls : e # c => pc'[e] = pc[e]
        /\ \A d \in Deploys : d # c => rows'[d] = rows[d]
        /\ (pc'[c] = "failed" /\ rows'[c] = rows[c]) \/ (pc'[c] = "apply" /\ rows'[c] # None)
    <2>1. [slug |-> cand[c], tag |-> c, snap |-> c, count |-> 1] # None
      <3>1. [slug |-> cand[c], tag |-> c, snap |-> c, count |-> 1] \in Rows
        BY <1>0, Zenon DEF SlugTypes, Rows, Tags, Counts
      <3> QED
        BY <3>1, DeploymentsAssumption, Zenon
    <2> QED
      BY <1>0, <2>1 DEF CreateRow, Goto, localVars, clusterVars, SlugTypes, Unstored
  <1>2. /\ \A d \in Deploys : d # c => pc[d] \in {"new", "done", "failed"}
        /\ \A e \in Calls : pc[e] # "delinner"
    BY <1>0, <1>1, AloneInGroup DEF Busy, Ended, UndeployPCs
  <1>3. SlugsApart'
    BY <1>0, <1>1, <1>2 DEF SlugsApart
  <1>4. ASSUME Intact' PROVE ServicesOwned'
    <2>0. ServicesOwned
      BY <1>0, <1>1, <1>4, Zenon DEF Intact
    <2>1. \A d \in Deploys : pc'[d] \in {"apply", "rbkube", "rbinner"} => rows'[d] # None
      BY <1>0, <1>1, <2>0 DEF ServicesOwned
    <2>2. ASSUME NEW s \in Slugs, inner'[s] # None
          PROVE  rows'[inner'[s]] # None
      <3>1. inner[s] \in Deploys /\ rows[inner[s]] # None
        BY <1>0, <1>1, <1>2, <2>0, <2>2 DEF ServicesOwned, SlugTypes
      <3> QED
        BY <1>1, <3>1
    <2>3. \A d \in Deploys : rows'[d] # None /\ cand'[d] # None /\ (pc'[d] = "done" \/ (pc'[d] = "apply" /\ at'[d] > 4))
            => inner'[cand'[d]] = d
      BY <1>0, <1>1, <2>0 DEF ServicesOwned
    <2> QED
      BY <2>1, <2>2, <2>3, Zenon DEF ServicesOwned
  <1> QED
    BY <1>3, <1>4, Zenon

\* The internal Service is the fourth object of a networked deployment.
LEMMA InnerIsFourth ==
    ASSUME NEW c \in Networked
    PROVE  Parts(c)[4] = "inner" /\ (Len(Parts(c)) = 4 \/ Len(Parts(c)) = 5)
  <1> DEFINE Made == {"config", "work", "service", "inner", "ingress"}
  <1>0. ASSUME NEW s \in Seq(Made), NEW t \in Seq(Made)
        PROVE  /\ s \o t \in Seq(Made) /\ Len(s \o t) = Len(s) + Len(t)
               /\ \A i \in 1 .. Len(s) : (s \o t)[i] = s[i]
               /\ \A i \in 1 .. Len(t) : (s \o t)[Len(s) + i] = t[i]
    OBVIOUS
  <1> DEFINE u == <<"config", "work">>
             v == <<"service", "inner">>
             w == IF c \in External THEN <<"ingress">> ELSE <<>>
  <1>1. u \in Seq(Made) /\ Len(u) = 2 /\ v \in Seq(Made) /\ Len(v) = 2 /\ v[2] = "inner"
    OBVIOUS
  <1>2. w \in Seq(Made) /\ (Len(w) = 0 \/ Len(w) = 1)
    <2>1. CASE c \in External
      BY <2>1
    <2>2. CASE c \notin External
      BY <2>2
    <2> QED
      BY <2>1, <2>2
  <1>3. Parts(c) = (u \o v) \o w
    BY Zenon DEF Parts
  <1> HIDE DEF u, v, w
  <1>4. u \o v \in Seq(Made) /\ Len(u \o v) = 4 /\ (u \o v)[4] = "inner"
    <2>0. 2 \in 1 .. Len(v)
      BY <1>1
    <2>1. u \o v \in Seq(Made) /\ Len(u \o v) = Len(u) + Len(v) /\ (u \o v)[Len(u) + 2] = v[2]
      <3> HIDE DEF Made
      <3> QED
        BY <1>0, <1>1, <2>0, Zenon
    <2> QED
      BY <1>1, <2>1
  <1>5. Len((u \o v) \o w) = 4 + Len(w) /\ ((u \o v) \o w)[4] = (u \o v)[4]
    BY <1>0, <1>2, <1>4
  <1> QED
    BY <1>2, <1>3, <1>4, <1>5, SMTT(30)

\* Apply makes the next object, and the internal Service for itself: the one that
\* another deployment of the slug had is gone with it.
LEMMA ApplyKeeps ==
    ASSUME NEW g, Deploys \cup Undeploys \subseteq g, AddressInv(g), NEW c \in Deploys, Apply(c)
    PROVE  SlugsApart' /\ (Intact' => ServicesOwned')
  <1>0. /\ RollbackInv /\ SlugTypes /\ SlugsApart /\ (Intact => ServicesOwned) /\ c \in Calls
        /\ pc \in [Calls -> PCs] /\ Deploys \subseteq Calls /\ RolledBack(c)
        /\ None \notin Deploys /\ (\A d \in Deploys : RolledBack(d))
    BY DeploymentsAssumption, Zenon DEF AddressInv, RollbackInv, RowInv, Types, Calls
  <1>1. /\ pc[c] = "apply" /\ UNCHANGED <<rows, gone, cand, target>>
        /\ inner' = IF Parts(c)[at[c]] = "inner" THEN EnsureInner(c) ELSE inner
        /\ pc'[c] = IF at[c] = Len(Parts(c)) THEN "done" ELSE "apply"
        /\ at'[c] = at[c] + 1 /\ (\A e \in Calls : e # c => pc'[e] = pc[e])
        /\ \A d \in Deploys : d # c => at'[d] = at[d]
    BY <1>0, Zenon DEF Apply, Goto, SlugTypes
  <1>2. /\ \A d \in Deploys : d # c => pc[d] \in {"new", "done", "failed"}
        /\ \A e \in Calls : pc[e] # "delinner" /\ pc'[e] # "delinner"
    BY <1>0, <1>1, AloneInGroup DEF Busy, Ended, UndeployPCs
  <1>3. SlugsApart'
    BY <1>0, <1>1, <1>2 DEF SlugsApart
  <1>4. ASSUME Intact' PROVE ServicesOwned'
    <2>0. ServicesOwned
      BY <1>0, <1>1, <1>4, Zenon DEF Intact
    <2>1. \A d \in Deploys : pc'[d] \in {"apply", "rbkube", "rbinner"} => rows'[d] # None
      BY <1>0, <1>1, <2>0 DEF ServicesOwned
    <2>2. \A s \in Slugs : inner'[s] = inner[s] \/ (s = cand[c] /\ inner[s] = None /\ inner'[s] = c)
      BY <1>0, <1>1 DEF EnsureInner, SlugTypes
    <2>3. rows[c] # None
      BY <1>1, <2>0, Zenon DEF ServicesOwned
    <2>4. ASSUME NEW s \in Slugs, inner'[s] # None PROVE rows'[inner'[s]] # None
      BY <1>1, <1>2, <2>0, <2>2, <2>3, <2>4 DEF ServicesOwned
    <2>5. ASSUME cand[c] # None, at[c] >= 4 PROVE inner'[cand[c]] = c
      <3>1. cand[c] \in Slugs
        BY <1>0, <2>5, Zenon DEF SlugTypes
      <3>2. inner[cand[c]] # None => inner[cand[c]] = c
        <4>1. inner[cand[c]] # None =>
                /\ inner[cand[c]] \in Deploys /\ rows[inner[cand[c]]] # None
                /\ cand[inner[cand[c]]] = cand[c]
          BY <1>0, <1>2, <2>0, <3>1 DEF ServicesOwned, SlugTypes, RolledBack
        <4> QED
          BY <1>0, <2>3, <2>5, <4>1, Zenon DEF SlugsApart
      <3>3. CASE at[c] = 4
        <4>1. Parts(c)[4] = "inner"
          BY <1>0, <2>5, InnerIsFourth, Zenon DEF SlugTypes
        <4>2. inner' = IF inner[cand[c]] = None THEN [inner EXCEPT ![cand[c]] = c] ELSE inner
          BY <1>1, <3>3, <4>1 DEF EnsureInner
        <4> QED
          BY <1>0, <3>1, <3>2, <4>2, Zenon DEF SlugTypes
      <3>4. CASE at[c] # 4
        <4>1. at[c] > 4
          BY <1>0, <2>5, <3>4 DEF SlugTypes
        <4>2. inner[cand[c]] = c
          BY <1>1, <2>0, <2>3, <2>5, <4>1, Zenon DEF ServicesOwned
        <4> QED
          BY <1>0, <2>2, <3>1, <4>2, Zenon
      <3> QED
        BY <3>3, <3>4, Zenon
    <2>6. cand[c] # None /\ (pc'[c] = "done" \/ (pc'[c] = "apply" /\ at'[c] > 4)) => at[c] >= 4
      <3>1. at[c] \in Nat /\ (cand[c] # None => Len(Parts(c)) = 4 \/ Len(Parts(c)) = 5)
        BY <1>0, InnerIsFourth, Zenon DEF SlugTypes
      <3>2. pc'[c] = "done" => at[c] = Len(Parts(c))
        BY <1>1, Zenon
      <3>3. ASSUME at'[c] > 4 PROVE at[c] >= 4
        BY <1>1, <3>1, <3>3
      <3>4. ASSUME cand[c] # None, pc'[c] = "done" PROVE at[c] >= 4
        <4>1. \A n \in Nat : n = 4 \/ n = 5 => n >= 4
          OBVIOUS
        <4>2. at[c] = 4 \/ at[c] = 5
          BY <3>1, <3>2, <3>4, Zenon
        <4> QED
          BY <3>1, <4>1, <4>2, Zenon
      <3> QED
        BY <3>3, <3>4, Zenon
    <2>7. ASSUME NEW d \in Deploys, rows'[d] # None, cand'[d] # None,
                 pc'[d] = "done" \/ (pc'[d] = "apply" /\ at'[d] > 4)
          PROVE  inner'[cand'[d]] = d
      <3>1. CASE d = c
        BY <1>1, <2>5, <2>6, <2>7, <3>1, Zenon
      <3>2. CASE d # c
        <4>1. inner[cand[d]] = d /\ cand[d] \in Slugs
          BY <1>0, <1>1, <2>0, <2>7, <3>2 DEF ServicesOwned, SlugTypes
        <4> QED
          BY <1>0, <1>1, <2>2, <4>1, ZenonT(30)
      <3> QED
        BY <3>1, <3>2, Zenon
    <2> QED
      BY <2>1, <2>4, <2>7, Zenon DEF ServicesOwned
  <1> QED
    BY <1>3, <1>4

\* The rollback removes the internal Service of its own slug.
LEMMA RollbackInnerKeeps ==
    ASSUME NEW g, Deploys \cup Undeploys \subseteq g, AddressInv(g), NEW c \in Deploys, RollbackInner(c)
    PROVE  SlugsApart' /\ (Intact' => ServicesOwned')
  <1>0. /\ RollbackInv /\ SlugTypes /\ SlugsApart /\ (Intact => ServicesOwned) /\ c \in Calls
        /\ pc \in [Calls -> PCs] /\ Deploys \subseteq Calls
    BY Zenon DEF AddressInv, RollbackInv, RowInv, Types, Calls
  <1>1. /\ pc[c] = "rbinner" /\ UNCHANGED <<rows, gone, cand, target, at>> /\ pc'[c] = "rbrow"
        /\ inner' = inner \/ inner' = [inner EXCEPT ![cand[c]] = None]
        /\ \A e \in Calls : e # c => pc'[e] = pc[e]
    BY <1>0, Zenon DEF RollbackInner, Goto, localVars
  <1>2. SlugsApart'
    BY <1>0, <1>1 DEF SlugsApart
  <1>3. ASSUME Intact' PROVE ServicesOwned'
    <2>0. ServicesOwned
      BY <1>0, <1>1, <1>3, Zenon DEF Intact
    <2>1. \A s \in Slugs : inner'[s] = inner[s] \/ (s = cand[c] /\ inner'[s] = None)
      BY <1>0, <1>1 DEF SlugTypes
    <2>2. \A d \in Deploys : pc'[d] \in {"apply", "rbkube", "rbinner"} => rows'[d] # None
      BY <1>0, <1>1, <2>0, Zenon DEF ServicesOwned
    <2>3. ASSUME NEW s \in Slugs, inner'[s] # None
          PROVE  rows'[inner'[s]] # None \/ \E e \in Calls : pc'[e] = "delinner" /\ target'[e] = inner'[s]
      BY <1>1, <2>0, <2>1, <2>3 DEF ServicesOwned
    <2>4. ASSUME NEW d \in Deploys, rows'[d] # None, cand'[d] # None,
                 pc'[d] = "done" \/ (pc'[d] = "apply" /\ at'[d] > 4)
          PROVE  inner'[cand'[d]] = d
      <3>1. d # c /\ pc'[d] = pc[d] /\ rows[c] # None /\ cand[d] \in Slugs
        BY <1>0, <1>1, <2>0, <2>4, SMTT(30) DEF ServicesOwned, SlugTypes
      <3>2. inner[cand[d]] = d /\ cand[c] # cand[d]
        BY <1>0, <1>1, <2>0, <2>4, <3>1 DEF ServicesOwned, SlugsApart
      <3> QED
        BY <1>1, <2>1, <3>1, <3>2, Zenon
    <2> QED
      BY <2>2, <2>3, <2>4, Zenon DEF ServicesOwned
  <1> QED
    BY <1>2, <1>3, Zenon

\* The rollback removes the row when the internal Service is gone.
LEMMA RollbackRowKeeps ==
    ASSUME NEW g, Deploys \cup Undeploys \subseteq g, AddressInv(g), NEW c \in Deploys, RollbackRow(c),
           {"kube", "repo"} \cap MayFail = {}
    PROVE  SlugsApart' /\ (Intact' => ServicesOwned')
  <1>0. /\ RollbackInv /\ SlugTypes /\ SlugsApart /\ (Intact => ServicesOwned) /\ c \in Calls
        /\ pc \in [Calls -> PCs] /\ Deploys \subseteq Calls /\ RolledBack(c)
    BY Zenon DEF AddressInv, RollbackInv, RowInv, Types, Calls
  <1>1. /\ pc[c] = "rbrow" /\ UNCHANGED <<inner, gone, cand, target, at>> /\ pc'[c] = "failed"
        /\ rows' = rows \/ (rows' = [rows EXCEPT ![c] = None] /\ NoInner(c))
        /\ \A e \in Calls : e # c => pc'[e] = pc[e]
    BY <1>0, Zenon DEF RollbackRow, Goto, localVars, clusterVars, RolledBack
  <1>2. \A d \in Deploys : rows'[d] # None => rows[d] # None
    BY <1>0, <1>1, Zenon DEF SlugTypes
  <1>3. SlugsApart'
    BY <1>0, <1>1, <1>2 DEF SlugsApart
  <1>4. ASSUME Intact' PROVE ServicesOwned'
    <2>0. ServicesOwned
      BY <1>0, <1>1, <1>4, Zenon DEF Intact
    <2>1. \A d \in Deploys : pc'[d] \in {"apply", "rbkube", "rbinner"} => rows'[d] # None
      BY <1>0, <1>1, <2>0 DEF ServicesOwned, SlugTypes
    <2>2. ASSUME NEW s \in Slugs, inner'[s] # None
          PROVE  rows'[inner'[s]] # None \/ \E e \in Calls : pc'[e] = "delinner" /\ target'[e] = inner'[s]
      <3>1. inner[s] \in Deploys /\ (inner[s] = c => rows' = rows)
        BY <1>0, <1>1, <2>2 DEF SlugTypes, NoInner
      <3>2. rows'[inner[s]] = rows[inner[s]]
        BY <1>0, <1>1, <3>1, Zenon DEF SlugTypes
      <3> QED
        BY <1>1, <2>0, <2>2, <3>2 DEF ServicesOwned
    <2>3. \A d \in Deploys : rows'[d] # None /\ cand'[d] # None /\ (pc'[d] = "done" \/ (pc'[d] = "apply" /\ at'[d] > 4))
            => inner'[cand'[d]] = d
      BY <1>0, <1>1, <1>2, <2>0 DEF ServicesOwned
    <2> QED
      BY <2>1, <2>2, <2>3, Zenon DEF ServicesOwned
  <1> QED
    BY <1>3, <1>4, Zenon

\* An Undeploy deletes the row, and then has the internal Service to delete.
LEMMA UndeployRowKeeps ==
    ASSUME NEW g, Deploys \cup Undeploys \subseteq g, AddressInv(g), NEW c \in Calls, UndeployRow(c)
    PROVE  SlugsApart' /\ (Intact' => ServicesOwned')
  <1>0. /\ RollbackInv /\ SlugTypes /\ SlugsApart /\ (Intact => ServicesOwned)
        /\ pc \in [Calls -> PCs] /\ Deploys \subseteq Calls /\ (\A d \in Deploys : RolledBack(d))
        /\ Role(c) /\ pc[c] = "delrow"
    BY Zenon DEF AddressInv, RollbackInv, RowInv, Types, Calls, SlugTypes, UndeployRow
  <1> DEFINE d == target[c]
  <1>1. c \in g /\ c \notin Deploys /\ d \in Deploys /\ read[c].slug = cand[d]
    BY <1>0, Zenon DEF Role, UndeployPCs, OnTarget, RolledBack, RollbackInv, RowInv
  <1>2. /\ UNCHANGED <<inner, gone, cand, target, at>> /\ (\A e \in Calls : e # c => pc'[e] = pc[e])
        /\ \/ pc'[c] = "failed" /\ rows' = rows
           \/ /\ rows[d] # None /\ rows' = [rows EXCEPT ![d] = None]
              /\ pc'[c] = IF cand[d] = None THEN "clean" ELSE "delinner"
    BY <1>0, <1>1, Zenon DEF UndeployRow, Goto, localVars, clusterVars
  <1>3. /\ \A e \in Deploys : pc[e] \in {"new", "done", "failed"} /\ pc'[e] = pc[e]
        /\ \A e \in Calls : e # c => pc[e] # "delinner"
    BY <1>0, <1>1, <1>2, AloneInGroup DEF Busy, Ended, UndeployPCs
  <1> HIDE DEF d
  <1>4. CASE pc'[c] = "failed" /\ rows' = rows
    <2>1. \A e \in Calls : pc'[e] # "delinner" /\ pc[e] # "delinner"
      BY <1>0, <1>2, <1>3, <1>4, Zenon
    <2>2. Intact' => Intact
      BY <1>2, Zenon DEF Intact
    <2>3. inner \in [Slugs -> Deploys \cup {None}]
      BY <1>0, Zenon DEF SlugTypes
    <2> QED
      BY <1>0, <1>2, <1>3, <1>4, <2>1, <2>2, <2>3, AddressFrame, Zenon
  <1>5. CASE /\ rows[d] # None /\ rows' = [rows EXCEPT ![d] = None]
             /\ pc'[c] = IF cand[d] = None THEN "clean" ELSE "delinner"
    <2>1. \A e \in Deploys : rows'[e] # None => rows[e] # None /\ e # d
      BY <1>0, <1>1, <1>5, Zenon DEF SlugTypes
    <2>2. SlugsApart'
      <3>1. \A e, f \in Deploys : rows'[e] # None /\ rows'[f] # None /\ cand'[e] # None
                /\ cand'[e] = cand'[f] => e = f
        BY <1>0, <1>2, <2>1 DEF SlugsApart
      <3>2. \A e, f \in Deploys : pc'[e] = "create" /\ rows'[f] # None /\ cand'[e] # None => cand'[e] # cand'[f]
        BY <1>3, Zenon
      <3>3. ASSUME NEW b \in Calls, NEW e \in Deploys, pc'[b] = "delinner", rows'[e] # None, cand'[e] # None
            PROVE  cand'[target'[b]] # cand'[e]
        <4>1. b = c
          BY <1>2, <1>3, <3>3, Zenon
        <4> QED
          BY <1>0, <1>1, <1>2, <1>5, <2>1, <3>3, <4>1 DEF SlugsApart, d
      <3> QED
        BY <3>1, <3>2, <3>3, Zenon DEF SlugsApart
    <2>3. ASSUME Intact' PROVE ServicesOwned'
      <3>0. ServicesOwned
        BY <1>0, <1>2, <2>3, Zenon DEF Intact
      <3>1. \A e \in Deploys : pc'[e] \notin {"apply", "rbkube", "rbinner"}
        BY <1>3, Zenon
      <3>2. ASSUME NEW s \in Slugs, inner'[s] # None
            PROVE  rows'[inner'[s]] # None \/ \E e \in Calls : pc'[e] = "delinner" /\ target'[e] = inner'[s]
        <4>1. inner[s] \in Deploys /\ rows[inner[s]] # None
          BY <1>0, <1>2, <1>3, <3>0, <3>2 DEF ServicesOwned, SlugTypes
        <4>2. CASE inner[s] = d
          <5>1. s = cand[d] /\ s # None
            BY <1>0, <1>1, <4>2, DeploymentsAssumption, Zenon DEF RolledBack
          <5> QED
            BY <1>2, <1>5, <4>2, <5>1, Zenon DEF d
        <4>3. CASE inner[s] # d
          BY <1>0, <1>2, <1>5, <4>1, <4>3, Zenon DEF SlugTypes
        <4> QED
          BY <4>2, <4>3, Zenon
      <3>3. \A e \in Deploys : rows'[e] # None /\ cand'[e] # None /\ (pc'[e] = "done" \/ (pc'[e] = "apply" /\ at'[e] > 4))
              => inner'[cand'[e]] = e
        BY <1>2, <1>3, <2>1, <3>0, Zenon DEF ServicesOwned
      <3> QED
        BY <3>1, <3>2, <3>3 DEF ServicesOwned
    <2> QED
      BY <2>2, <2>3, Zenon
  <1> QED
    BY <1>2, <1>4, <1>5, Zenon

\* An Undeploy that was not cut short deletes the internal Service of its slug, which
\* no row has by then.
LEMMA UndeployInnerKeeps ==
    ASSUME NEW g, Deploys \cup Undeploys \subseteq g, AddressInv(g), NEW c \in Calls, UndeployInner(c),
           {"kube", "repo"} \cap MayFail = {}
    PROVE  SlugsApart' /\ (Intact' => ServicesOwned')
  <1>0. /\ RollbackInv /\ SlugTypes /\ SlugsApart /\ (Intact => ServicesOwned)
        /\ pc \in [Calls -> PCs] /\ Deploys \subseteq Calls /\ (\A d \in Deploys : RolledBack(d))
        /\ Role(c) /\ pc[c] = "delinner"
    BY Zenon DEF AddressInv, RollbackInv, RowInv, Types, Calls, SlugTypes, UndeployInner
  <1> DEFINE d == target[c]
  <1>1. c \in g /\ c \in Undeploys /\ c \notin Deploys /\ d \in Deploys /\ read[c].slug = cand[d]
    BY <1>0, Zenon DEF Role, UndeployPCs, OnTarget, RolledBack, RollbackInv, RowInv
  <1>2. /\ UNCHANGED <<rows, gone, cand, target, at>> /\ (\A e \in Calls : e # c => pc'[e] = pc[e]) /\ pc'[c] = "clean"
        /\ inner' = inner \/ inner' = [inner EXCEPT ![cand[d]] = None]
        /\ ~gone[c] => inner' = [inner EXCEPT ![cand[d]] = None]
    BY <1>0, <1>1, Zenon DEF UndeployInner, Goto, localVars, Fails
  <1>3. /\ \A e \in Deploys : pc[e] \in {"new", "done", "failed"} /\ pc'[e] = pc[e]
        /\ \A e \in Calls : e # c => pc[e] # "delinner"
    BY <1>0, <1>1, <1>2, AloneInGroup DEF Busy, Ended, UndeployPCs
  <1>4. SlugsApart'
    BY <1>0, <1>2, <1>3 DEF SlugsApart
  <1>5. ASSUME Intact' PROVE ServicesOwned'
    <2>0. ServicesOwned /\ inner' = [inner EXCEPT ![cand[d]] = None]
      BY <1>0, <1>1, <1>2, <1>5, Zenon DEF Intact
    <2>1. \A s \in Slugs : inner'[s] = IF s = cand[d] THEN None ELSE inner[s]
      BY <1>0, <2>0, Zenon DEF SlugTypes
    <2>2. \A e \in Deploys : pc'[e] \notin {"apply", "rbkube", "rbinner"}
      BY <1>3
    <2>3. ASSUME NEW s \in Slugs, inner'[s] # None PROVE rows'[inner'[s]] # None
      <3>1. s # cand[d] /\ inner'[s] = inner[s] /\ inner[s] \in Deploys
        BY <1>0, <2>1, <2>3 DEF SlugTypes
      <3>2. inner[s] # d
        BY <1>0, <1>1, <3>1, Zenon DEF RolledBack
      <3> QED
        BY <1>2, <1>3, <2>0, <2>3, <3>1, <3>2 DEF ServicesOwned
    <2>4. ASSUME NEW e \in Deploys, rows'[e] # None, cand'[e] # None,
                 pc'[e] = "done" \/ (pc'[e] = "apply" /\ at'[e] > 4)
          PROVE  inner'[cand'[e]] = e
      <3>1. inner[cand[e]] = e /\ cand[e] \in Slugs /\ cand[d] # cand[e]
        BY <1>0, <1>2, <1>3, <2>0, <2>4 DEF ServicesOwned, SlugsApart, SlugTypes
      <3> QED
        BY <1>2, <2>1, <3>1, Zenon
    <2> QED
      BY <2>2, <2>3, <2>4, Zenon DEF ServicesOwned
  <1> QED
    BY <1>4, <1>5

\* Every step keeps the internal Services with their deployments.
LEMMA AddressStep ==
    ASSUME NEW g \in Serial, Deploys \cup Undeploys \subseteq g, AddressInv(g),
           {"kube", "repo"} \cap MayFail = {}, [Next]_vars
    PROVE  AddressInv(g)'
  <1>0. RollbackInv /\ OneBusy(g) /\ SlugTypes /\ SlugsApart /\ (Intact => ServicesOwned) /\ pc \in [Calls -> PCs]
        /\ inner \in [Slugs -> Deploys \cup {None}] /\ Deploys \subseteq Calls /\ gone \in [Calls -> BOOLEAN]
    BY Zenon DEF AddressInv, RollbackInv, RollbackTypes, RowInv, Types, SlugTypes, Calls
  <1>1. RollbackInv' /\ OneBusy(g)' /\ SlugTypes'
    BY <1>0, RollbackStep, OneBusyStep, SlugTypesStep, Zenon
  <1> DEFINE Kept == SlugsApart' /\ (Intact' => ServicesOwned')
  <1>2. ASSUME NEW c \in Calls, BeginDeploy(c) \/ ResolveSlug(c) \/ CreateRow(c)
               \/ Apply(c) \/ RollbackInner(c) \/ RollbackRow(c)
        PROVE  Kept
    <2>1. c \in Deploys
      BY <1>0, <1>2, Zenon
      DEF SlugTypes, Role, DeployPCs, BeginDeploy, ResolveSlug, CreateRow, Apply, RollbackInner,
          RollbackRow
    <2> QED
      BY <1>2, <2>1, ChooseKeeps, CreateKeeps, ApplyKeeps, RollbackInnerKeeps, RollbackRowKeeps,
          Zenon
  <1>3. ASSUME NEW c \in Calls, UndeployRow(c) \/ UndeployInner(c) PROVE Kept
    BY <1>3, UndeployRowKeeps, UndeployInnerKeeps, Zenon
  <1>4. ASSUME NEW c \in Calls, ApplyFails(c) \/ RollbackObjects(c) PROVE Kept
    <2>1. /\ UNCHANGED <<rows, inner, cand, at, target, gone>> /\ (\A e \in Calls : e # c => pc'[e] = pc[e])
          /\ pc[c] \in {"apply", "rbkube"} /\ pc'[c] \in {"rbkube", "rbinner", "rbrow"}
      BY <1>0, <1>4, Zenon DEF ApplyFails, RollbackObjects, Goto, localVars, clusterVars
    <2>2. Intact' => Intact
      BY <2>1, Zenon DEF Intact
    <2>3. \A d \in Deploys : /\ pc'[d] \in {"create", "apply", "done"} => pc'[d] = pc[d]
                             /\ pc'[d] \in {"rbkube", "rbinner"} => pc[d] \in {"apply", "rbkube", "rbinner"}
      BY <1>0, <2>1, Zenon
    <2>4. \A e \in Calls : pc'[e] = "delinner" <=> pc[e] = "delinner"
      BY <2>1, Zenon
    <2> QED
      BY <1>0, <2>1, <2>2, <2>3, <2>4, AddressFrame, Zenon
  <1>5. ASSUME NEW c \in Calls,
               Begin(c) \/ Get(c) \/ UndeployObjects(c) \/ CleanStore(c) \/ Change(c)
        PROVE  Kept
    <2>1. /\ UNCHANGED <<inner, gone>> /\ pc[c] # "delinner" /\ pc'[c] # "delinner"
          /\ (\A e \in Calls : e # c => pc'[e] = pc[e] /\ target'[e] = target[e])
      BY <1>0, <1>5, SMTT(30)
      DEF Begin, MayBegin, Get, First, UndeployObjects, CleanStore, Change, ScaleWork,
          UpdateSettings, RolloutConfig, RolloutWork, UpdateMetadata, Goto, localVars, clusterVars,
          RollbackInv, RowInv, Types
    <2>2. cand' = cand /\ at' = at /\ \A d \in Deploys : pc'[d] = pc[d] /\ (rows'[d] # None => rows[d] # None)
      BY <1>0, <1>5, RolesOther, Zenon DEF Undeploy
    <2>3. \A d \in Deploys : rows[d] # None => rows'[d] # None
      <3>1. CASE rows' = rows
        BY <3>1, Zenon
      <3>2. CASE rows' # rows
        <4>1. UpdateSettings(c) \/ UpdateMetadata(c)
          BY <1>5, <3>2, Zenon
          DEF Begin, Get, UndeployObjects, CleanStore, Change, ScaleWork, RolloutConfig, RolloutWork
        <4>2. target[c] \in Deploys /\ rows \in [Deploys -> Rows \cup {None}] /\ None \notin Rows
          BY <1>0, <4>1, DeploymentsAssumption, Zenon
          DEF RollbackInv, RowInv, OnTarget, UpdateSettings, UpdateMetadata, SlugTypes
        <4>3. \A e \in Deploys : e # target[c] => rows'[e] = rows[e]
          BY <4>1, <4>2, Zenon DEF UpdateSettings, UpdateMetadata
        <4>4. rows[target[c]] \in Rows /\ rows'[target[c]] \in Rows
          <5>1. rows[target[c]] # None
            BY <3>2, <4>1, Zenon DEF UpdateSettings, UpdateMetadata
          <5>2. rows'[target[c]] \in Rows
            <6>1. Role(c) /\ read[c] \in Rows /\ c \in Scales \cup Rollouts
                  /\ (pc[c] = "meta" \/ c \notin Scales => c \in Rollouts)
              BY <1>0, <4>1, Zenon
              DEF SlugTypes, Role, OnTarget, RolloutPCs, UpdateSettings, UpdateMetadata
            <6> QED
              BY <3>2, <4>1, <4>2, <5>1, <6>1 DEF UpdateSettings, UpdateMetadata, Rows, Tags, Counts
          <5> QED
            BY <4>2, <5>1, <5>2, Zenon
        <4> QED
          BY <4>2, <4>3, <4>4, Zenon
      <3> QED
        BY <3>1, <3>2, Zenon
    <2>4. Intact' => Intact
      BY <2>1, Zenon DEF Intact
    <2> QED
      BY <1>0, <2>1, <2>2, <2>3, <2>4, AddressFrame, Zenon
  <1>6. ASSUME UNCHANGED <<rows, inner, cand, at, pc, target>>, \A c \in Calls : gone[c] => gone'[c] PROVE Kept
    <2>1. Intact' => Intact
      BY <1>6 DEF Intact, Calls
    <2> QED
      BY <1>0, <1>6, <2>1, AddressFrame, Zenon
  <1>7. ASSUME NEW c \in Calls, Cancel(c) PROVE Kept
    BY <1>0, <1>6, <1>7, Zenon DEF Cancel, localVars, clusterVars
  <1>8. ASSUME (\E d \in Deploys : PodStores(d)) \/ Idle \/ UNCHANGED vars PROVE Kept
    BY <1>6, <1>8, Zenon DEF PodStores, Idle, vars, localVars
  <1>9. Kept
    BY <1>2, <1>3, <1>4, <1>5, <1>7, <1>8, Zenon DEF Next, Deploy, Undeploy
  <1> QED
    BY <1>1, <1>9, Zenon DEF AddressInv

\* When Deploys and Undeploys run one at a time and the cluster and the database
\* answer, the internal Service of a deployed slug selects that deployment's pods,
\* whatever Deploys failed or were cut short before, and whatever Scales and Rollouts
\* run at the same time, unless an Undeploy was cut short.
THEOREM AddressesReach ==
    ASSUME NEW g \in Serial, Deploys \cup Undeploys \subseteq g, {"kube", "repo"} \cap MayFail = {}
    PROVE  Spec => []AddressReaches
  <1>1. Init => AddressInv(g)
    <2> SUFFICES ASSUME Init PROVE AddressInv(g)
      OBVIOUS
    <2>1. OneBusy(g)
      BY DeploymentsAssumption, Zenon DEF Init, OneBusy, Busy
    <2>2. SlugsApart /\ ServicesOwned
      BY Zenon DEF Init, SlugsApart, ServicesOwned, Calls
    <2> QED
      BY <2>1, <2>2, RollbackInit, SlugInit, Zenon DEF AddressInv
  <1>2. ASSUME AddressInv(g), Intact, NEW d \in Deploys, Deployed(d), rows[d].slug # None
        PROVE  inner[rows[d].slug] = d
    BY <1>2, Zenon DEF AddressInv, SlugTypes, ServicesOwned, Deployed
  <1>3. AddressInv(g) => AddressReaches
    BY <1>2, Zenon DEF AddressReaches, Intact
  <1> QED
    BY <1>1, <1>3, AddressStep, PTL DEF Spec

-----------------------------------------------------------------------------
(* The rows and the workloads, when one call runs at a time.               *)

\* No call on d was cut short.
Unhurt(d) == \A c \in Calls : target[c] = d => ~gone[c]

\* Where a call has changed a deployment and will change it again.
Midway == {"delrow", "settings", "rollwork", "meta"}

\* The ConfigMap and the workload of d are as Apply makes them for tag and count.
Runs(d, tag, count) == config[d] = tag /\ work[d] = [tag |-> tag, count |-> count]

Settled(d) == Runs(d, rows[d].tag, rows[d].count) /\ rows[d].snap = rows[d].tag

\* What a Scale or a Rollout of d has changed so far.
Halfway(c, d) ==
    /\ pc[c] \in {"scale", "rollconfig"} => Settled(d) /\ read[c] = rows[d]
    /\ pc[c] = "settings" /\ c \in Scales =>
          Runs(d, rows[d].tag, c) /\ rows[d].snap = rows[d].tag /\ read[c] = rows[d]
    /\ pc[c] = "rollwork" => config[d] = c /\ work[d] # None /\ read[c] = rows[d]
    /\ pc[c] = "meta" => Runs(d, c, rows[d].count) /\ read[c] = rows[d]
    /\ pc[c] = "settings" /\ c \notin Scales =>
          Runs(d, c, rows[d].count) /\ rows[d].tag = c /\ read[c].count = rows[d].count

\* What Apply has made of d so far, and what d is like once it is deployed.
Agrees(d) ==
    rows[d] # None =>
        /\ pc[d] = "apply" => /\ rows[d].tag = d /\ rows[d].snap = d /\ rows[d].count = 1
                              /\ at[d] > 1 => config[d] = d
                              /\ at[d] > 2 => work[d] = [tag |-> d, count |-> 1]
        /\ pc[d] = "done" /\ Unhurt(d) =>
              /\ \A c \in Calls : target[c] = d => Halfway(c, d)
              /\ (\A c \in Calls : target[c] = d => pc[c] \notin Midway) => Settled(d)

\* A call has a target once it has begun, and is of one kind.
CallTypes ==
    /\ \A c \in Calls : /\ pc[c] = "new" => target[c] = None
                        /\ pc[c] \in RolloutPCs => c \notin Scales
    /\ \A d \in Deploys : pc[d] # "new" => target[d] = d

AgreeInv == RollbackInv /\ OneBusy(Calls) /\ SlugTypes /\ CallTypes /\ \A d \in Deploys : Agrees(d)

\* What a step of a deploy call does to the calls: it moves its own, whose target is
\* the deployment it makes.
LEMMA DeployMoves ==
    ASSUME pc \in [Calls -> PCs], target \in [Calls -> Deploys \cup {None}], Deploys \subseteq Calls,
           \A e \in Calls : Role(e), CallTypes, NEW c \in Calls, BeginDeploy(c) \/ Deploy(c)
    PROVE  /\ c \in Deploys /\ gone' = gone /\ read' = read
           /\ target'[c] = c /\ (target[c] = None \/ target[c] = c)
           /\ pc'[c] \notin RolloutPCs \cup {"new"}
           /\ \A e \in Calls : e # c => pc'[e] = pc[e] /\ target'[e] = target[e]
  <1> DEFINE After == {"slug", "create", "apply", "done", "failed", "rbkube", "rbinner", "rbrow"}
             Moves == gone' = gone /\ read' = read /\ \E l \in After : Goto(c, l)
  <1>1. c \in Deploys
    BY Zenon
    DEF Role, DeployPCs, BeginDeploy, Deploy, ResolveSlug, CreateRow, Apply, ApplyFails,
        RollbackObjects, RollbackInner, RollbackRow
  <1>2. CASE BeginDeploy(c)
    <2>1. Moves
      BY <1>2, Zenon DEF BeginDeploy
    <2>2. pc[c] = "new" /\ target' = [target EXCEPT ![c] = c]
      BY <1>2, Zenon DEF BeginDeploy, MayBegin
    <2> QED
      BY <1>1, <2>1, <2>2 DEF Goto, RolloutPCs, CallTypes
  <1>3. CASE Deploy(c)
    <2>1. target' = target /\ pc[c] # "new"
      BY <1>3, Zenon
      DEF Deploy, ResolveSlug, CreateRow, Apply, ApplyFails, RollbackObjects, RollbackInner,
          RollbackRow, localVars
    <2>2. Moves
      <3>1. CASE ResolveSlug(c)
        <4>1. pc' = pc => Goto(c, "slug")
          BY <3>1 DEF ResolveSlug, Goto
        <4> QED
          BY <3>1, <4>1, Zenon DEF ResolveSlug
      <3>2. CASE CreateRow(c)
        BY <3>2, Zenon DEF CreateRow, localVars
      <3>3. CASE Apply(c) \/ ApplyFails(c)
        BY <3>3, Zenon DEF Apply, ApplyFails, localVars
      <3>4. CASE RollbackObjects(c) \/ RollbackInner(c) \/ RollbackRow(c)
        BY <3>4, Zenon DEF RollbackObjects, RollbackInner, RollbackRow, localVars
      <3> QED
        BY <1>3, <3>1, <3>2, <3>3, <3>4, Zenon DEF Deploy
    <2> QED
      BY <1>1, <2>1, <2>2 DEF Goto, RolloutPCs, CallTypes
  <1> QED
    BY <1>2, <1>3

\* A call begins once, with its target, and its first step is that of its kind.
LEMMA CallTypesStep ==
    ASSUME RollbackInv, SlugTypes, CallTypes, [Next]_vars
    PROVE  CallTypes'
  <1>0. /\ pc \in [Calls -> PCs] /\ target \in [Calls -> Deploys \cup {None}] /\ Deploys \subseteq Calls /\ CallTypes
        /\ \A c \in Calls : Role(c)
    BY Zenon DEF RollbackInv, RowInv, Types, Calls, SlugTypes
  <1> USE DEF Goto, localVars
  <1>1. ASSUME NEW c \in Calls, BeginDeploy(c) \/ Deploy(c) PROVE CallTypes'
    <2>1. /\ c \in Deploys /\ \A e \in Calls : e # c => pc'[e] = pc[e] /\ target'[e] = target[e]
      BY <1>0, <1>1, DeployMoves, Zenon
    <2>2. target'[c] = c /\ pc'[c] \notin RolloutPCs \cup {"new"}
      BY <1>0, <1>1, DeployMoves, Zenon
    <2> QED
      BY <1>0, <2>1, <2>2, Zenon DEF CallTypes
  <1>2. ASSUME NEW c \in Calls, Begin(c) \/ Get(c) \/ Undeploy(c) \/ Change(c) PROVE CallTypes'
    <2>1. c \notin Deploys /\ \A e \in Calls : e # c => pc'[e] = pc[e] /\ target'[e] = target[e]
      <3>1. c \notin Deploys
        BY <1>2, RolesOther, Zenon
      <3> QED
        BY <1>0, <1>2, <3>1, Zenon
        DEF Begin, Get, Undeploy, UndeployObjects, UndeployRow, UndeployInner, CleanStore, Change,
            ScaleWork, UpdateSettings, RolloutConfig, RolloutWork, UpdateMetadata
    <2>2. pc'[c] # "new" /\ (pc'[c] \in RolloutPCs => c \notin Scales)
      BY <1>0, <1>2
      DEF Begin, Get, First, Undeploy, UndeployObjects, UndeployRow, UndeployInner, CleanStore,
          Change, ScaleWork, UpdateSettings, RolloutConfig, RolloutWork, UpdateMetadata, RolloutPCs,
          CallTypes
    <2> QED
      BY <1>0, <2>1, <2>2, Zenon DEF CallTypes
  <1>3. ASSUME UNCHANGED <<pc, target>> PROVE CallTypes'
    BY <1>0, <1>3, Zenon DEF CallTypes
  <1> QED
    BY <1>1, <1>2, <1>3, Zenon DEF Next, Cancel, PodStores, Idle, vars

\* What a step on another deployment leaves in place.
LEMMA AgreesFrame ==
    ASSUME NEW d \in Deploys, Agrees(d), rows'[d] = rows[d], config'[d] = config[d], work'[d] = work[d],
           pc'[d] = pc[d], at'[d] = at[d],
           \A c \in Calls : target'[c] = d => target[c] = d /\ pc'[c] = pc[c] /\ read'[c] = read[c],
           \A c \in Calls : target[c] = d => target'[c] = d /\ (gone[c] => gone'[c])
    PROVE  Agrees(d)'
  <1>1. Unhurt(d)' => Unhurt(d)
    BY Zenon DEF Unhurt
  <1>2. Settled(d) => Settled(d)'
    BY Zenon DEF Settled, Runs
  <1>3. ASSUME NEW c \in Calls, target'[c] = d, Halfway(c, d) PROVE Halfway(c, d)'
    BY <1>2, <1>3, Zenon DEF Halfway, Runs
  <1>4. (\A c \in Calls : target'[c] = d => pc'[c] \notin Midway)
            => \A c \in Calls : target[c] = d => pc[c] \notin Midway
    BY Zenon
  <1> HIDE DEF Midway
  <1> QED
    BY <1>1, <1>2, <1>3, <1>4, Zenon DEF Agrees

\* What the only call under way has to establish of its deployment.
LEMMA AgreesAlone ==
    ASSUME NEW c \in Calls, NEW d \in Deploys, \A e \in Calls : e # c => pc'[e] \in {"new", "done", "failed"},
           pc'[d] # "apply",
           rows'[d] # None /\ pc'[d] = "done" /\ (target'[c] = d => ~gone'[c])
             => Halfway(c, d)' /\ (Settled(d)' \/ (target'[c] = d /\ pc'[c] \in Midway))
    PROVE  Agrees(d)'
  <1>1. ASSUME rows'[d] # None, pc'[d] = "done", Unhurt(d)'
        PROVE  /\ \A e \in Calls : target'[e] = d => Halfway(e, d)'
               /\ (\A e \in Calls : target'[e] = d => pc'[e] \notin Midway) => Settled(d)'
    <2>1. Halfway(c, d)' /\ (Settled(d)' \/ (target'[c] = d /\ pc'[c] \in Midway))
      BY <1>1, Zenon DEF Unhurt
    <2>2. \A e \in Calls : e # c => Halfway(e, d)'
      BY Zenon DEF Halfway
    <2> QED
      BY <2>1, <2>2, Zenon
  <1> QED
    BY <1>1, Zenon DEF Agrees

\* Apply makes the ConfigMap and then the workload.
LEMMA FirstParts ==
    ASSUME NEW c
    PROVE  Parts(c)[1] = "config" /\ Parts(c)[2] = "work" /\ Len(Parts(c)) \in Nat /\ Len(Parts(c)) >= 2
  <1> DEFINE Made == {"config", "work", "service", "inner", "ingress"}
  <1>0. ASSUME NEW s \in Seq(Made), NEW t \in Seq(Made)
        PROVE  /\ s \o t \in Seq(Made) /\ Len(s \o t) = Len(s) + Len(t) /\ Len(t) \in Nat
               /\ \A i \in 1 .. Len(s) : (s \o t)[i] = s[i]
    OBVIOUS
  <1> DEFINE u == <<"config", "work">>
             v == IF c \in Networked THEN <<"service", "inner">> ELSE <<>>
             w == IF c \in External THEN <<"ingress">> ELSE <<>>
  <1>1. u \in Seq(Made) /\ Len(u) = 2 /\ u[1] = "config" /\ u[2] = "work"
    OBVIOUS
  <1>2. v \in Seq(Made)
    <2>1. CASE c \in Networked
      BY <2>1
    <2>2. CASE c \notin Networked
      BY <2>2
    <2> QED
      BY <2>1, <2>2, Zenon
  <1>3. w \in Seq(Made)
    <2>1. CASE c \in External
      BY <2>1
    <2>2. CASE c \notin External
      BY <2>2
    <2> QED
      BY <2>1, <2>2, Zenon
  <1>4. Parts(c) = (u \o v) \o w
    BY Zenon DEF Parts
  <1> HIDE DEF u, v, w, Made
  <1>5. /\ u \o v \in Seq(Made) /\ Len(u \o v) \in Nat /\ Len(u \o v) >= 2
        /\ (u \o v)[1] = "config" /\ (u \o v)[2] = "work"
    <2>1. 1 \in 1 .. Len(u) /\ 2 \in 1 .. Len(u)
      BY <1>1
    <2>2. u \o v \in Seq(Made) /\ Len(u \o v) = Len(u) + Len(v) /\ Len(v) \in Nat
          /\ (u \o v)[1] = u[1] /\ (u \o v)[2] = u[2]
      BY <1>0, <1>1, <1>2, <2>1, Zenon
    <2> QED
      BY <1>1, <2>2
  <1>6. /\ Len((u \o v) \o w) = Len(u \o v) + Len(w) /\ Len(w) \in Nat
        /\ ((u \o v) \o w)[1] = "config" /\ ((u \o v) \o w)[2] = "work"
    <2>1. 1 \in 1 .. Len(u \o v) /\ 2 \in 1 .. Len(u \o v)
      BY <1>5
    <2> QED
      BY <1>0, <1>3, <1>5, <2>1, Zenon
  <1> QED
    BY <1>4, <1>5, <1>6

\* The steps of a Deploy, for its own deployment.
LEMMA DeployAgrees ==
    ASSUME AgreeInv, NEW c \in Deploys, BeginDeploy(c) \/ Deploy(c)
    PROVE  Agrees(c)'
  <1>0. /\ RollbackInv /\ SlugTypes /\ Agrees(c) /\ c \in Calls
        /\ pc \in [Calls -> PCs] /\ rows \in [Deploys -> Rows \cup {None}] /\ at \in [Deploys -> Nat]
        /\ DOMAIN config = Deploys /\ DOMAIN work = Deploys
    BY Zenon DEF AgreeInv, SlugTypes, RollbackInv, RollbackTypes, RowInv, Types, Calls
  <1> USE DEF Goto, localVars
  <1>1. CASE BeginDeploy(c) \/ ResolveSlug(c) \/ ApplyFails(c)
               \/ RollbackObjects(c) \/ RollbackInner(c) \/ RollbackRow(c)
    <2>1. pc'[c] \notin {"apply", "done"}
      BY <1>0, <1>1, Zenon
      DEF BeginDeploy, ResolveSlug, ApplyFails, RollbackObjects, RollbackInner, RollbackRow
    <2> QED
      BY <2>1, Zenon DEF Agrees
  <1>2. CASE CreateRow(c)
    <2>1. pc[c] = "create" /\ at[c] = 1 /\ at' = at
      BY <1>0, <1>2, Zenon DEF CreateRow, SlugTypes, Unstored
    <2>2. \/ pc'[c] = "failed"
          \/ pc'[c] = "apply" /\ rows'[c] = [slug |-> cand[c], tag |-> c, snap |-> c, count |-> 1]
      BY <1>0, <1>2, Zenon DEF CreateRow
    <2> QED
      BY <2>1, <2>2 DEF Agrees
  <1>3. CASE Apply(c)
    <2> DEFINE p == Parts(c)[at[c]]
    <2>1. /\ pc[c] = "apply" /\ rows' = rows /\ at'[c] = at[c] + 1 /\ at[c] \in Nat
          /\ config'[c] = IF p = "config" THEN c ELSE config[c]
          /\ work'[c] = IF p = "work" THEN [tag |-> c, count |-> 1] ELSE work[c]
          /\ pc'[c] = (IF at[c] = Len(Parts(c)) THEN "done" ELSE "apply")
          /\ \A e \in Calls : e # c => pc'[e] = pc[e]
      BY <1>0, <1>3, Zenon DEF Apply
    <2>2. Parts(c)[1] = "config" /\ Parts(c)[2] = "work" /\ Len(Parts(c)) \in Nat /\ Len(Parts(c)) >= 2
      BY FirstParts, Zenon
    <2>3. ASSUME rows[c] # None
          PROVE  /\ rows[c].tag = c /\ rows[c].snap = c /\ rows[c].count = 1
                 /\ at'[c] > 1 => config'[c] = c
                 /\ at'[c] > 2 => work'[c] = [tag |-> c, count |-> 1]
                 /\ pc'[c] = "done" => at'[c] > 1 /\ at'[c] > 2
      <3>1. rows[c].tag = c /\ rows[c].snap = c /\ rows[c].count = 1
        BY <1>0, <2>1, <2>3, Zenon DEF Agrees
      <3>2. at[c] > 1 => config[c] = c
        BY <1>0, <2>1, <2>3, Zenon DEF Agrees
      <3>3. at[c] > 2 => work[c] = [tag |-> c, count |-> 1]
        BY <1>0, <2>1, <2>3, Zenon DEF Agrees
      <3>4. at[c] = 0 \/ at[c] = 1 \/ at[c] = 2 \/ at[c] > 2
        BY <2>1
      <3>5. at'[c] > 1 => config'[c] = c
        BY <2>1, <2>2, <3>2, <3>4
      <3>6. at'[c] > 2 => work'[c] = [tag |-> c, count |-> 1]
        BY <2>1, <2>2, <3>3, <3>4
      <3>7. pc'[c] = "done" => at'[c] > 1 /\ at'[c] > 2
        BY <2>1, <2>2
      <3> QED
        BY <3>1, <3>5, <3>6, <3>7, Zenon
    <2>4. CASE pc'[c] = "done"
      <3>1. \A e \in Calls : pc'[e] \in {"new", "done", "failed"}
        BY <1>0, <2>1, <2>4, Zenon DEF AgreeInv, OneBusy, Busy, Ended
      <3>2. rows'[c] # None => Settled(c)'
        BY <2>1, <2>3, <2>4, Zenon DEF Settled, Runs
      <3>3. Halfway(c, c)'
        BY <2>4, Zenon DEF Halfway
      <3> QED
        BY <1>0, <2>4, <3>1, <3>2, <3>3, AgreesAlone, Zenon
    <2>5. CASE pc'[c] # "done"
      BY <2>1, <2>3, <2>5, Zenon DEF Agrees
    <2> QED
      BY <2>4, <2>5, Zenon
  <1> QED
    BY <1>1, <1>2, <1>3, Zenon DEF Deploy

\* What a call that is not a Deploy has to establish of its deployment: it is the only
\* call under way, and what it finds is as it left it.
LEMMA CallAgrees ==
    ASSUME AgreeInv, Calls \in Serial, NEW c \in Calls, Begin(c) \/ Get(c) \/ Undeploy(c) \/ Change(c), [Next]_vars,
           NEW d \in Deploys, target'[c] = d,
           /\ rows[d] # None /\ rows'[d] # None /\ ~gone[c]
           /\ pc[c] # "new" => Halfway(c, d)
           /\ pc[c] \notin Midway => Settled(d)
           => Halfway(c, d)' /\ (Settled(d)' \/ pc'[c] \in Midway)
    PROVE  Agrees(d)'
  <1>0. /\ RollbackInv /\ SlugTypes /\ Agrees(d) /\ d \in Calls /\ CallTypes /\ OneBusy(Calls)
        /\ pc \in [Calls -> PCs] /\ target \in [Calls -> Deploys \cup {None}] /\ None \notin Deploys
    BY DeploymentsAssumption, Zenon DEF AgreeInv, RollbackInv, RowInv, Types, Calls
  <1>1. c \notin Deploys /\ (\A e \in Deploys : pc'[e] = pc[e] /\ (rows'[e] # None => rows[e] # None))
    BY <1>0, RolesOther, Zenon
  <1>2. /\ (Busy(c) \/ MayBegin(c)) /\ gone' = gone /\ (pc[c] # "new" => target' = target)
        /\ \A e \in Calls : e # c => pc'[e] = pc[e] /\ target'[e] = target[e]
    BY <1>0, Zenon
    DEF Begin, Get, Undeploy, UndeployObjects, UndeployRow, UndeployInner, CleanStore, Change,
        ScaleWork, UpdateSettings, RolloutConfig, RolloutWork, UpdateMetadata, Busy, Ended,
        MayBegin, Goto, localVars
  <1>3. \A e \in Calls : e # c => pc[e] \in {"new", "done", "failed"}
    BY <1>0, <1>2 DEF OneBusy, MayBegin, Busy, Ended
  <1>4. pc'[d] # "apply" /\ pc[d] = pc'[d] /\ d # c
    BY <1>0, <1>1, <1>3, Zenon
  <1>5. ASSUME rows'[d] # None, pc'[d] = "done", Unhurt(d)'
        PROVE  Halfway(c, d)' /\ (Settled(d)' \/ pc'[c] \in Midway)
    <2>1. ~gone[c] /\ rows[d] # None /\ pc[d] = "done"
      BY <1>1, <1>2, <1>5, Zenon DEF Unhurt
    <2>2. Unhurt(d)
      <3>1. ASSUME NEW e \in Calls, target[e] = d PROVE ~gone[e]
        BY <1>0, <1>2, <1>5, <2>1, <3>1, Zenon DEF Unhurt, CallTypes
      <3> QED
        BY <3>1, Zenon DEF Unhurt
    <2>3. pc[c] # "new" => Halfway(c, d)
      BY <1>0, <1>2, <2>1, <2>2, Zenon DEF Agrees
    <2>4. pc[c] \notin Midway => Settled(d)
      <3>1. {"new", "done", "failed"} \cap Midway = {}
        BY Zenon DEF Midway
      <3> HIDE DEF Midway
      <3> QED
        BY <1>0, <1>3, <2>1, <2>2, <3>1, Zenon DEF Agrees
    <2> QED
      BY <1>5, <2>1, <2>3, <2>4, Zenon
  <1>6. \A e \in Calls : e # c => Halfway(e, d)'
    BY <1>2, <1>3, Zenon DEF Halfway
  <1> HIDE DEF Midway
  <1> QED
    BY <1>4, <1>5, <1>6, Zenon DEF Agrees

\* The steps of an Undeploy, for the deployment that it removes.
LEMMA UndeployAgrees ==
    ASSUME AgreeInv, Calls \in Serial, {"kube", "repo"} \cap MayFail = {}, [Next]_vars,
           NEW c \in Calls, Begin(c) \/ Get(c) \/ Undeploy(c), NEW d \in Deploys, target'[c] = d
    PROVE  Agrees(d)'
  <1>0. /\ pc \in [Calls -> PCs] /\ rows \in [Deploys -> Rows \cup {None}] /\ read \in [Calls -> Rows \cup {None}]
    BY Zenon DEF AgreeInv, SlugTypes, RollbackInv, RowInv, Types
  <1> SUFFICES ASSUME rows[d] # None, rows'[d] # None, ~gone[c], pc[c] # "new" => Halfway(c, d),
                      pc[c] \notin Midway => Settled(d)
               PROVE  Halfway(c, d)' /\ (Settled(d)' \/ pc'[c] \in Midway)
    BY CallAgrees, Zenon
  <1> USE DEF Goto
  <1>1. CASE Begin(c)
    <2>1. Settled(d)' /\ pc'[c] = "get"
      BY <1>0, <1>1, Zenon DEF Begin, MayBegin, Midway, Settled, Runs, clusterVars
    <2> QED
      BY <2>1, Zenon DEF Halfway
  <1>2. CASE Get(c)
    <2>1. Settled(d)' /\ target[c] = d /\ rows' = rows
      BY <1>0, <1>2, Zenon DEF Get, Midway, Settled, Runs, clusterVars
    <2>2. \/ pc'[c] = "failed"
          \/ pc'[c] \in {"delkube", "scale", "rollconfig"} /\ read'[c] = rows[d]
      BY <1>0, <1>2, <2>1, Zenon DEF Get, First
    <2> QED
      BY <2>1, <2>2, Zenon DEF Halfway
  <1>3. CASE UndeployObjects(c)
    <2>1. pc'[c] = "delrow"
      BY <1>0, <1>3, Zenon DEF UndeployObjects, DeleteFails, Fails
    <2> QED
      BY <2>1, Zenon DEF Halfway, Midway
  <1>4. CASE UndeployRow(c)
    <2>1. rows'[d] = None
      BY <1>0, <1>4, Zenon DEF UndeployRow, Fails, localVars
    <2> QED
      BY <2>1, Zenon
  <1>5. CASE UndeployInner(c) \/ CleanStore(c)
    <2>1. Settled(d)' /\ pc'[c] \in {"clean", "done"}
      BY <1>0, <1>5, Zenon DEF UndeployInner, CleanStore, Midway, Settled, Runs
    <2> QED
      BY <2>1, Zenon DEF Halfway
  <1> QED
    BY <1>1, <1>2, <1>3, <1>4, <1>5, Zenon DEF Undeploy

\* The steps of a Scale and of a Rollout, for the deployment that they change.
LEMMA ChangeAgrees ==
    ASSUME AgreeInv, Calls \in Serial, {"kube", "repo"} \cap MayFail = {}, [Next]_vars,
           NEW c \in Calls, Change(c), NEW d \in Deploys, target'[c] = d
    PROVE  Agrees(d)'
  <1>0. /\ pc \in [Calls -> PCs] /\ rows \in [Deploys -> Rows \cup {None}] /\ Role(c)
        /\ DOMAIN config = Deploys /\ DOMAIN work = Deploys /\ (pc[c] \in RolloutPCs => c \notin Scales)
    BY Zenon DEF AgreeInv, SlugTypes, RollbackInv, RollbackTypes, RowInv, Types, CallTypes
  <1> SUFFICES ASSUME rows[d] # None, rows'[d] # None, ~gone[c], pc[c] # "new" => Halfway(c, d),
                      pc[c] \notin Midway => Settled(d)
               PROVE  Halfway(c, d)' /\ (Settled(d)' \/ pc'[c] \in Midway)
    BY CallAgrees, Zenon
  <1>1. target[c] = d /\ UNCHANGED <<target, read>> /\ pc[c] # "new" /\ Halfway(c, d)
    BY Zenon
    DEF Change, ScaleWork, UpdateSettings, RolloutConfig, RolloutWork, UpdateMetadata, localVars
  <1>2. rows[d] \in Rows /\ [tag |-> rows[d].tag, count |-> rows[d].count] # None
    <2>1. rows[d] \in Rows
      BY <1>0, Zenon
    <2>2. [tag |-> rows[d].tag, count |-> rows[d].count] \in [tag : Tags, count : Counts]
      BY <2>1, Zenon DEF Rows
    <2>3. None \notin [tag : Tags, count : Counts]
      BY DeploymentsAssumption, Zenon
    <2> QED
      BY <2>1, <2>2, <2>3, Zenon
  <1> USE DEF Goto, Fails
  <1>3. CASE ScaleWork(c)
    <2>1. Settled(d) /\ read[c] = rows[d] /\ c \in Scales /\ pc[c] = "scale"
      BY <1>0, <1>1, <1>3, Zenon DEF Halfway, ScaleWork, Role
    <2>2. /\ pc'[c] = "settings" /\ rows' = rows /\ config' = config
          /\ work'[d] = [work[d] EXCEPT !.count = c]
      BY <1>0, <1>1, <1>2, <1>3, <2>1 DEF ScaleWork, Settled, Runs
    <2>3. Runs(d, rows[d].tag, c)'
      BY <2>1, <2>2 DEF Settled, Runs
    <2> QED
      BY <1>1, <2>1, <2>2, <2>3, Zenon DEF Halfway, Midway, Settled, Runs
  <1>4. CASE RolloutConfig(c)
    <2>1. Settled(d) /\ read[c] = rows[d] /\ pc[c] = "rollconfig"
      BY <1>1, <1>4, Zenon DEF Halfway, RolloutConfig
    <2>2. rows' = rows /\ work' = work
      BY <1>4, Zenon DEF RolloutConfig
    <2>3. CASE Goto(c, "failed") /\ config' = config
      <3>1. pc'[c] = "failed" /\ Settled(d)'
        BY <1>0, <2>1, <2>2, <2>3, Zenon DEF Settled, Runs
      <3> QED
        BY <3>1, Zenon DEF Halfway
    <2>4. CASE Goto(c, "rollwork") /\ config' = [config EXCEPT ![d] = c]
      <3>1. pc'[c] = "rollwork" /\ config'[d] = c /\ work'[d] # None
        BY <1>0, <1>2, <2>1, <2>2, <2>4, Zenon DEF Settled, Runs
      <3> QED
        BY <1>1, <2>1, <2>2, <3>1, Zenon DEF Halfway, Midway
    <2> QED
      BY <1>1, <1>4, <2>3, <2>4, Zenon DEF RolloutConfig
  <1>5. CASE RolloutWork(c)
    <2>1. config[d] = c /\ work[d] # None /\ read[c] = rows[d]
      BY <1>1, <1>5, Zenon DEF Halfway, RolloutWork
    <2>2. rows' = rows /\ config' = config /\ pc'[c] = "meta" /\ work'[d] = [tag |-> c, count |-> read[c].count]
      BY <1>0, <1>1, <1>5, <2>1, Zenon DEF RolloutWork
    <2> QED
      BY <1>1, <2>1, <2>2, Zenon DEF Halfway, Midway, Runs
  <1>6. CASE UpdateMetadata(c)
    <2>1. Runs(d, c, rows[d].count) /\ read[c] = rows[d] /\ c \notin Scales
      BY <1>0, <1>1, <1>6, Zenon DEF Halfway, UpdateMetadata, RolloutPCs
    <2>2. rows'[d] = [rows[d] EXCEPT !.tag = c] /\ config' = config /\ work' = work /\ pc'[c] = "settings"
      BY <1>0, <1>1, <1>6 DEF UpdateMetadata, clusterVars
    <2>3. rows'[d].tag = c /\ rows'[d].count = rows[d].count
      BY <1>2, <2>2, Zenon DEF Rows
    <2> QED
      BY <1>1, <2>1, <2>2, <2>3, Zenon DEF Halfway, Midway, Runs
  <1>7. CASE UpdateSettings(c)
    <2>1. config' = config /\ work' = work /\ pc'[c] = "done" /\ pc[c] = "settings"
      BY <1>0, <1>1, <1>7, Zenon DEF UpdateSettings, clusterVars
    <2>2. CASE c \in Scales
      <3>1. Runs(d, rows[d].tag, c) /\ rows[d].snap = rows[d].tag /\ read[c] = rows[d]
        BY <1>1, <2>1, <2>2, Zenon DEF Halfway
      <3>2. rows'[d] = [rows[d] EXCEPT !.count = c, !.snap = read[c].snap]
        BY <1>0, <1>1, <1>7, <2>2, ZenonT(30) DEF UpdateSettings
      <3>3. rows'[d].tag = rows[d].tag /\ rows'[d].count = c /\ rows'[d].snap = rows[d].snap
        BY <1>2, <3>1, <3>2 DEF Rows
      <3> QED
        BY <2>1, <3>1, <3>3, Zenon DEF Settled, Runs, Halfway
    <2>3. CASE c \notin Scales
      <3>1. Runs(d, c, rows[d].count) /\ rows[d].tag = c /\ read[c].count = rows[d].count
        BY <1>1, <2>1, <2>3, Zenon DEF Halfway
      <3>2. rows'[d] = [rows[d] EXCEPT !.count = read[c].count, !.snap = c]
        BY <1>0, <1>1, <1>7, <2>3, ZenonT(30) DEF UpdateSettings
      <3>3. rows'[d].tag = c /\ rows'[d].count = rows[d].count /\ rows'[d].snap = c
        BY <1>2, <3>1, <3>2, Zenon DEF Rows
      <3> QED
        BY <2>1, <3>1, <3>3, Zenon DEF Settled, Runs, Halfway
    <2> QED
      BY <2>2, <2>3
  <1> QED
    BY <1>3, <1>4, <1>5, <1>6, <1>7, Zenon DEF Change

\* Every step keeps the rows in agreement with the cluster.
LEMMA AgreeStep ==
    ASSUME AgreeInv, Calls \in Serial, {"kube", "repo"} \cap MayFail = {}, [Next]_vars
    PROVE  AgreeInv'
  <1>0. /\ RollbackInv /\ OneBusy(Calls) /\ SlugTypes /\ CallTypes /\ (\A d \in Deploys : Agrees(d))
        /\ pc \in [Calls -> PCs] /\ target \in [Calls -> Deploys \cup {None}] /\ None \notin Deploys
        /\ rows \in [Deploys -> Rows \cup {None}] /\ DOMAIN config = Deploys /\ DOMAIN work = Deploys
        /\ at \in [Deploys -> Nat] /\ read \in [Calls -> Rows \cup {None}] /\ gone \in [Calls -> BOOLEAN]
        /\ Deploys \subseteq Calls
    BY DeploymentsAssumption, Zenon
    DEF AgreeInv, RollbackInv, RollbackTypes, RowInv, Types, SlugTypes, Calls
  <1>1. RollbackInv' /\ OneBusy(Calls)' /\ SlugTypes' /\ CallTypes'
    <2>1. RollbackInv' /\ SlugTypes' /\ CallTypes'
      BY <1>0, RollbackStep, SlugTypesStep, CallTypesStep, Zenon
    <2> QED
      BY <1>0, <2>1, OneBusyStep, Zenon
  <1>2. ASSUME NEW d \in Deploys PROVE Agrees(d)'
    <2>0. Agrees(d) /\ d \in Calls /\ d # None
      BY <1>0, Zenon
    <2>1. ASSUME NEW c \in Calls, BeginDeploy(c) \/ Deploy(c) PROVE Agrees(d)'
      <3>1. c \in Deploys
        BY <1>0, <2>1, DeployMoves, Zenon DEF SlugTypes
      <3>2. target'[c] = c /\ (target[c] = None \/ target[c] = c) /\ gone' = gone
            /\ \A e \in Calls : e # c => pc'[e] = pc[e] /\ read'[e] = read[e] /\ target'[e] = target[e]
        <4>1. /\ gone' = gone /\ read' = read /\ target'[c] = c /\ (target[c] = None \/ target[c] = c)
              /\ \A e \in Calls : e # c => pc'[e] = pc[e] /\ target'[e] = target[e]
          BY <1>0, <2>1, DeployMoves, Zenon DEF SlugTypes
        <4> QED
          BY <4>1, Zenon
      <3>3. CASE c # d
        <4>1. rows'[d] = rows[d] /\ config'[d] = config[d] /\ work'[d] = work[d] /\ at'[d] = at[d]
          <5>1. CASE BeginDeploy(c) \/ ResolveSlug(c) \/ ApplyFails(c)
            BY <5>1, Zenon DEF BeginDeploy, ResolveSlug, ApplyFails, clusterVars, localVars
          <5>2. CASE CreateRow(c) \/ RollbackRow(c)
            BY <1>0, <3>1, <3>3, <5>2 DEF CreateRow, RollbackRow, clusterVars, localVars
          <5>3. CASE Apply(c)
            BY <1>0, <3>1, <3>3, <5>3 DEF Apply
          <5>4. CASE RollbackObjects(c) \/ RollbackInner(c)
            BY <1>0, <3>1, <3>3, <5>4
            DEF RollbackObjects, DeleteFails, DeleteObjects, RollbackInner, localVars
          <5> QED
            BY <2>1, <5>1, <5>2, <5>3, <5>4, Zenon DEF Deploy
        <4> QED
          BY <2>0, <3>2, <3>3, <4>1, AgreesFrame, Zenon
      <3> QED
        BY <2>1, <3>3, DeployAgrees, Zenon
    <2>2. ASSUME NEW c \in Calls, Begin(c) \/ Get(c) \/ Undeploy(c) \/ Change(c) PROVE Agrees(d)'
      <3>1. c \notin Deploys /\ at' = at /\ pc'[d] = pc[d]
        BY <1>0, <2>2, RolesOther, Zenon
      <3>2. target'[c] \in Deploys /\ (target[c] = None \/ target[c] = target'[c]) /\ gone' = gone
            /\ \A e \in Calls : e # c => pc'[e] = pc[e] /\ read'[e] = read[e] /\ target'[e] = target[e]
        <4>1. pc[c] \in OnTarget => target[c] \in Deploys
          BY <1>0, Zenon DEF RollbackInv, RowInv
        <4> QED
          BY <1>0, <2>2, <4>1, SMTT(30)
          DEF Begin, MayBegin, Get, Undeploy, UndeployObjects, UndeployRow, UndeployInner,
              CleanStore, Change, ScaleWork, UpdateSettings, RolloutConfig, RolloutWork,
              UpdateMetadata, Goto, localVars, CallTypes, OnTarget
      <3>3. CASE target'[c] # d
        <4>1. rows'[d] = rows[d] /\ config'[d] = config[d] /\ work'[d] = work[d]
          BY <1>0, <2>2, <3>3, SMTT(30)
          DEF Begin, Get, Undeploy, UndeployObjects, DeleteFails, DeleteObjects, UndeployRow,
              UndeployInner, CleanStore, Change, ScaleWork, UpdateSettings, RolloutConfig,
              RolloutWork, UpdateMetadata, localVars, clusterVars
        <4> QED
          BY <2>0, <3>1, <3>2, <3>3, <4>1, AgreesFrame, Zenon
      <3>4. CASE target'[c] = d
        BY <2>2, <3>4, UndeployAgrees, ChangeAgrees
      <3> QED
        BY <3>3, <3>4, Zenon
    <2>3. ASSUME UNCHANGED <<rows, config, work, at, pc, target, read>>, \A c \in Calls : gone[c] => gone'[c]
          PROVE  Agrees(d)'
      BY <2>0, <2>3, AgreesFrame, Zenon
    <2>4. ASSUME NEW c \in Calls, Cancel(c) PROVE Agrees(d)'
      BY <1>0, <2>3, <2>4, Zenon DEF Cancel, localVars, clusterVars
    <2>5. CASE (\E e \in Deploys : PodStores(e)) \/ Idle \/ UNCHANGED vars
      BY <2>3, <2>5, Zenon DEF PodStores, Idle, vars, localVars
    <2> QED
      BY <2>1, <2>2, <2>4, <2>5, Zenon DEF Next
  <1> QED
    BY <1>1, <1>2, Zenon DEF AgreeInv

\* When the calls run one at a time and the cluster and the database answer, the row
\* of a deployment names the tag that its ConfigMap and its workload have, and their
\* count, after any number of Deploys, Scales and Rollouts of any deployments, failed
\* ones included, unless a call on that deployment was cut short.
THEOREM RowsMatchTheCluster ==
    ASSUME Calls \in Serial, {"kube", "repo"} \cap MayFail = {}
    PROVE  Spec => []RowMatchesCluster
  <1>1. Init => AgreeInv
    <2> SUFFICES ASSUME Init PROVE AgreeInv
      OBVIOUS
    <2>1. OneBusy(Calls)
      BY Zenon DEF Init, OneBusy, Busy
    <2>2. CallTypes /\ \A d \in Deploys : Agrees(d)
      BY Zenon DEF Init, CallTypes, Agrees, RolloutPCs, Calls
    <2> QED
      BY <2>1, <2>2, RollbackInit, SlugInit, Zenon DEF AgreeInv
  <1>2. ASSUME AgreeInv, NEW d \in Deploys, Deployed(d), \A c \in Calls : target[c] = d => ~gone[c]
        PROVE  Settled(d)
    <2>1. \A c \in Calls : target[c] = d => pc[c] \notin Midway
      BY <1>2, Zenon DEF Deployed, Busy, Ended, Midway
    <2>2. Agrees(d) /\ rows[d] # None /\ pc[d] = "done" /\ Unhurt(d)
      BY <1>2, Zenon DEF AgreeInv, Deployed, Unhurt
    <2> HIDE DEF Midway
    <2> QED
      BY <2>1, <2>2, Zenon DEF Agrees
  <1>3. AgreeInv => RowMatchesCluster
    BY <1>2, Zenon DEF RowMatchesCluster, Settled, Runs
  <1> QED
    BY <1>1, <1>3, AgreeStep, PTL DEF Spec

=============================================================================
