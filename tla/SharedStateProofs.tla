-------------------------- MODULE SharedStateProofs --------------------------
(***************************************************************************)
(* Proofs about what the runs of flows share, for any number of them: fork *)
(* and the pool, object-write and cache-scope; and the transactions of the *)
(* orchestrator's store, which implement what core.KV promises (KVStore),  *)
(* for any clients, keys, values and versions.                             *)
(***************************************************************************)
EXTENDS MCForks, MCStores, KVRepo, Sequences, TLAPS

-----------------------------------------------------------------------------
(* fork and the pool.                                                      *)

\* The types that the argument needs.
ForkTypes ==
    /\ forkNode \in [Forks!Nodes -> {"new", "queued", "running", "done"}]
    /\ forkSubmitted \in [Forks!Nodes -> Nat]
    /\ forkFirstErr \in [Forks!Nodes -> Branches \cup {NoNode}]
    /\ forkOn \in [Forks!Goroutines -> Forks!Nodes \cup {NoNode}]
    /\ forkTasks \in Seq(Branches)

\* A node is executed once: a goroutine has it, or the queue has it, or nobody does.
ExecutedOnce ==
    /\ \A g \in Forks!Goroutines : forkOn[g] # NoNode => forkNode[forkOn[g]] = "running"
    /\ \A g, h \in Forks!Goroutines : forkOn[g] # NoNode /\ forkOn[g] = forkOn[h] => g = h
    /\ \A i \in 1 .. Len(forkTasks) : forkNode[forkTasks[i]] = "queued"
    /\ \A i, j \in 1 .. Len(forkTasks) : forkTasks[i] = forkTasks[j] => i = j
    /\ \A n \in Forks!Nodes : \A i \in DOMAIN Kids[n] :
          i > forkSubmitted[n] => forkNode[Kids[n][i]] = "new"

\* The error of a branch is kept when it returns, and no branch is left when its
\* fork returns.
ErrorsKept ==
    \A n \in Forks!Nodes :
        /\ forkFirstErr[n] # NoNode => Forks!IsKid(forkFirstErr[n], n) /\ forkFirstErr[n] \in forkFailed
        /\ \A b \in forkFailed : Forks!IsKid(b, n) => forkFirstErr[n] # NoNode
        /\ forkNode[n] = "done" => /\ forkFirstErr[n] # NoNode => n \in forkFailed
                                   /\ \A b \in Branches : Forks!IsKid(b, n) => forkNode[b] = "done"

ForkInv == ForkTypes /\ ExecutedOnce /\ ErrorsKept

\* Nothing has been submitted yet.
LEMMA ForkInit == ASSUME Forks!Init PROVE ForkInv
  <1>1. ForkTypes
    BY DEF Forks!Init, ForkTypes
  <1>2. ExecutedOnce
    <2>1. forkTasks = <<>> /\ \A g \in Forks!Goroutines : forkOn[g] = NoNode
      BY Zenon DEF Forks!Init
    <2>2. \A n \in Forks!Nodes : \A i \in DOMAIN Kids[n] : Kids[n][i] \in Forks!Nodes
      BY ForksAssumption DEF Forks!KidsAssumption, Forks!Nodes
    <2> QED
      BY <2>1, <2>2 DEF Forks!Init, ExecutedOnce
  <1>3. ErrorsKept
    BY Zenon DEF Forks!Init, ErrorsKept
  <1> QED
    BY <1>1, <1>2, <1>3, Zenon DEF ForkInv

\* A branch belongs to one fork, at one place.
LEMMA BranchFacts ==
    ASSUME NEW n \in Forks!Nodes, NEW i \in DOMAIN Kids[n]
    PROVE  /\ Kids[n][i] \in Branches /\ Kids[n][i] \in Forks!Nodes /\ i \in Nat
           /\ \A m \in Forks!Nodes : \A j \in DOMAIN Kids[m] : Kids[m][j] = Kids[n][i] => m = n /\ j = i
  BY ForksAssumption DEF Forks!KidsAssumption, Forks!Nodes

\* A step that takes a node on before it is done, and no error, keeps the errors.
LEMMA NoErrorYet ==
    ASSUME ForkTypes, ErrorsKept, NEW m \in Forks!Nodes, NEW x \in {"new", "queued", "running"},
           forkNode[m] # "done", forkNode' = [forkNode EXCEPT ![m] = x],
           UNCHANGED <<forkFirstErr, forkFailed>>
    PROVE  ErrorsKept'
  <1>1. \A n \in Forks!Nodes : forkNode'[n] = "done" <=> forkNode[n] = "done"
    BY Zenon DEF ForkTypes
  <1>2. Branches \subseteq Forks!Nodes
    BY Zenon DEF Forks!Nodes
  <1> QED
    BY <1>1, <1>2 DEF ErrorsKept, Forks!IsKid

\* A message is put on the input channel.
LEMMA AcceptKeeps == ASSUME ForkInv, NEW m \in Forked, Forks!Accept(m) PROVE ForkInv'
  <1>0. ForkTypes /\ ExecutedOnce /\ ErrorsKept /\ m \in Forks!Nodes /\ m \notin Branches
    BY ForksAssumption, Zenon DEF ForkInv, Forks!Nodes, Forks!NodesAssumption
  <1>1. /\ forkNode[m] = "new" /\ forkNode' = [forkNode EXCEPT ![m] = "queued"]
        /\ UNCHANGED <<forkSubmitted, forkFirstErr, forkFailed, forkOn, forkTasks>>
    BY Zenon DEF Forks!Accept
  <1>2. ForkTypes'
    BY <1>0, <1>1, Zenon DEF ForkTypes
  <1>3. \A n \in Forks!Nodes : forkNode'[n] = IF n = m THEN "queued" ELSE forkNode[n]
    BY <1>0, <1>1, Zenon DEF ForkTypes
  <1>4. ExecutedOnce'
    <2>1. \A g \in Forks!Goroutines : forkOn[g] # NoNode => forkOn[g] \in Forks!Nodes \ {m}
      BY <1>0, <1>1 DEF ForkTypes, ExecutedOnce
    <2>2. \A i \in 1 .. Len(forkTasks) : forkTasks[i] \in Forks!Nodes \ {m}
      BY <1>0 DEF ForkTypes, Forks!Nodes
    <2>3. \A n \in Forks!Nodes : \A i \in DOMAIN Kids[n] : Kids[n][i] \in Forks!Nodes \ {m}
      BY <1>0, BranchFacts
    <2> QED
      BY <1>0, <1>1, <1>3, <2>1, <2>2, <2>3 DEF ExecutedOnce
  <1>5. ErrorsKept'
    BY <1>0, <1>1, NoErrorYet, Zenon
  <1> QED
    BY <1>2, <1>4, <1>5, Zenon DEF ForkInv

\* A goroutine begins to execute a node that no other has.
LEMMA BeginKeeps ==
    ASSUME ForkInv, NEW g \in Forks!Goroutines, NEW m \in Forks!Nodes,
           forkOn[g] = NoNode, forkNode[m] = "queued",
           forkOn' = [forkOn EXCEPT ![g] = m], forkNode' = [forkNode EXCEPT ![m] = "running"],
           forkTasks' \in Seq(Branches),
           \A i \in 1 .. Len(forkTasks') :
               /\ forkTasks'[i] # m
               /\ \E j \in 1 .. Len(forkTasks) : forkTasks'[i] = forkTasks[j],
           \A i, j \in 1 .. Len(forkTasks') : forkTasks'[i] = forkTasks'[j] => i = j,
           UNCHANGED <<forkSubmitted, forkFirstErr, forkFailed>>
    PROVE  ForkInv'
  <1>0. ForkTypes /\ ExecutedOnce /\ ErrorsKept
    BY Zenon DEF ForkInv
  <1>1. ForkTypes'
    BY <1>0, Zenon DEF ForkTypes
  <1>2. /\ \A n \in Forks!Nodes : forkNode'[n] = IF n = m THEN "running" ELSE forkNode[n]
        /\ \A h \in Forks!Goroutines : forkOn'[h] = IF h = g THEN m ELSE forkOn[h]
    BY <1>0, Zenon DEF ForkTypes
  <1>3. \A h \in Forks!Goroutines : forkOn[h] # NoNode => forkOn[h] \in Forks!Nodes \ {m}
    BY <1>0 DEF ForkTypes, ExecutedOnce
  <1>4. \A h \in Forks!Goroutines : forkOn'[h] # NoNode => forkNode'[forkOn'[h]] = "running"
    BY <1>0, <1>2, <1>3 DEF ExecutedOnce
  <1>5. \A h, k \in Forks!Goroutines : forkOn'[h] # NoNode /\ forkOn'[h] = forkOn'[k] => h = k
    BY <1>0, <1>2, <1>3 DEF ExecutedOnce
  <1>6. \A i \in 1 .. Len(forkTasks') : forkNode'[forkTasks'[i]] = "queued"
    <2>1. \A i \in 1 .. Len(forkTasks) : forkTasks[i] \in Forks!Nodes /\ forkNode[forkTasks[i]] = "queued"
      BY <1>0 DEF ForkTypes, Forks!Nodes, ExecutedOnce
    <2> QED
      BY <1>2, <2>1
  <1>7. \A n \in Forks!Nodes : \A i \in DOMAIN Kids[n] :
            i > forkSubmitted'[n] => forkNode'[Kids[n][i]] = "new"
    BY <1>0, <1>2, BranchFacts DEF ExecutedOnce
  <1>8. ExecutedOnce'
    BY <1>4, <1>5, <1>6, <1>7, Zenon DEF ExecutedOnce
  <1>9. ErrorsKept'
    BY <1>0, NoErrorYet, Zenon
  <1> QED
    BY <1>1, <1>8, <1>9, Zenon DEF ForkInv

\* A flow worker receives a message.
LEMMA TakeKeeps == ASSUME ForkInv, NEW w \in FlowWorkers, NEW m \in Forked, Forks!Take(w, m) PROVE ForkInv'
  <1>0. ForkTypes /\ ExecutedOnce /\ m \in Forks!Nodes /\ m \notin Branches /\ w \in Forks!Goroutines
    BY ForksAssumption, Zenon DEF ForkInv, Forks!Nodes, Forks!NodesAssumption, Forks!Goroutines
  <1>1. forkTasks' = forkTasks /\ forkTasks \in Seq(Branches)
    BY <1>0, Zenon DEF Forks!Take, ForkTypes
  <1>2. \A i \in 1 .. Len(forkTasks) : forkTasks[i] # m
    BY <1>0, <1>1
  <1>3. /\ forkOn[w] = NoNode /\ forkNode[m] = "queued"
        /\ forkOn' = [forkOn EXCEPT ![w] = m] /\ forkNode' = [forkNode EXCEPT ![m] = "running"]
        /\ UNCHANGED <<forkSubmitted, forkFirstErr, forkFailed>>
    BY Zenon DEF Forks!Take
  <1>4. \A i, j \in 1 .. Len(forkTasks) : forkTasks[i] = forkTasks[j] => i = j
    BY <1>0, Zenon DEF ExecutedOnce
  <1> QED
    BY <1>0, <1>1, <1>2, <1>3, <1>4, BeginKeeps, Zenon

\* A pool worker receives the first task.
LEMMA PoolTakeKeeps == ASSUME ForkInv, NEW p \in PoolWorkers, Forks!PoolTake(p) PROVE ForkInv'
  <1>0. ForkTypes /\ ExecutedOnce /\ p \in Forks!Goroutines
    BY Zenon DEF ForkInv, Forks!Goroutines
  <1> DEFINE m == Head(forkTasks)
  <1>1. /\ forkOn[p] = NoNode /\ forkTasks # <<>> /\ forkTasks' = Tail(forkTasks)
        /\ forkOn' = [forkOn EXCEPT ![p] = m] /\ forkNode' = [forkNode EXCEPT ![m] = "running"]
        /\ UNCHANGED <<forkSubmitted, forkFirstErr, forkFailed>>
    BY Zenon DEF Forks!PoolTake
  <1>2. forkTasks \in Seq(Branches)
    BY <1>0, Zenon DEF ForkTypes
  <1>3. m = forkTasks[1] /\ 1 \in 1 .. Len(forkTasks) /\ m \in Branches
    BY <1>1, <1>2
  <1>4. m \in Forks!Nodes /\ forkNode[m] = "queued"
    BY <1>0, <1>3 DEF ExecutedOnce, Forks!Nodes
  <1>5. /\ forkTasks' \in Seq(Branches)
        /\ \A i \in 1 .. Len(forkTasks') : forkTasks'[i] = forkTasks[i + 1] /\ i + 1 \in 1 .. Len(forkTasks)
    BY <1>1, <1>2
  <1> HIDE DEF m
  <1>6. \A i, j \in 1 .. Len(forkTasks') : forkTasks'[i] = forkTasks'[j] => i = j
    <2>1. \A i, j \in 1 .. Len(forkTasks') : forkTasks'[i] = forkTasks'[j] => i + 1 = j + 1
      BY <1>0, <1>5 DEF ExecutedOnce
    <2> QED
      BY <2>1
  <1>7. \A i \in 1 .. Len(forkTasks') : forkTasks'[i] # m
    <2>1. \A i \in 1 .. Len(forkTasks') : forkTasks'[i] = m => i + 1 = 1
      BY <1>0, <1>3, <1>5 DEF ExecutedOnce
    <2> QED
      BY <2>1
  <1> QED
    BY <1>0, <1>1, <1>4, <1>5, <1>6, <1>7, BeginKeeps, ZenonT(30)

\* A fork submits its next branch, which nobody has, or Submit panics.
LEMMA SubmitKeeps ==
    ASSUME ForkInv, NEW g \in Forks!Goroutines, NEW n \in Forks!Nodes, Forks!Submit(g, n)
    PROVE  ForkInv'
  <1>0. ForkTypes /\ ExecutedOnce /\ ErrorsKept
    BY Zenon DEF ForkInv
  <1> DEFINE k == forkSubmitted[n] + 1
             b == Kids[n][k]
  <1>1. /\ forkSubmitted[n] < Len(Kids[n]) /\ UNCHANGED <<forkFirstErr, forkFailed, forkOn>>
        /\ \/ /\ forkTasks' = Append(forkTasks, b) /\ forkNode' = [forkNode EXCEPT ![b] = "queued"]
              /\ forkSubmitted' = [forkSubmitted EXCEPT ![n] = @ + 1]
           \/ UNCHANGED <<forkTasks, forkNode, forkSubmitted>>
    BY Zenon DEF Forks!Submit
  <1>2. Kids[n] \in Seq(Branches) /\ forkSubmitted[n] \in Nat
    BY <1>0, ForksAssumption, Zenon DEF Forks!KidsAssumption, ForkTypes
  <1>3. k \in DOMAIN Kids[n] /\ k > forkSubmitted[n] /\ k \in Nat
    BY <1>1, <1>2
  <1>4. b \in Branches /\ b \in Forks!Nodes /\ forkNode[b] = "new"
    BY <1>0, <1>3, BranchFacts, Zenon DEF ExecutedOnce
  <1>5. CASE UNCHANGED <<forkTasks, forkNode, forkSubmitted>>
    BY <1>0, <1>1, <1>5 DEF ForkInv, ForkTypes, ExecutedOnce, ErrorsKept
  <1>6. CASE /\ forkTasks' = Append(forkTasks, b) /\ forkNode' = [forkNode EXCEPT ![b] = "queued"]
             /\ forkSubmitted' = [forkSubmitted EXCEPT ![n] = @ + 1]
    <2>1. ForkTypes'
      BY <1>0, <1>1, <1>4, <1>6, SMTT(30) DEF ForkTypes
    <2>2. /\ \A m \in Forks!Nodes : /\ forkNode'[m] = IF m = b THEN "queued" ELSE forkNode[m]
                                    /\ forkSubmitted'[m] = IF m = n THEN k ELSE forkSubmitted[m]
      BY <1>0, <1>6, Zenon DEF ForkTypes
    <2>3. /\ forkTasks \in Seq(Branches) /\ Len(forkTasks) \in Nat /\ Len(forkTasks') = Len(forkTasks) + 1
          /\ \A i \in 1 .. Len(forkTasks) : forkTasks'[i] = forkTasks[i] /\ forkTasks[i] \in Forks!Nodes \ {b}
          /\ forkTasks'[Len(forkTasks) + 1] = b
      <3>1. forkTasks \in Seq(Branches) /\ forkTasks' = Append(forkTasks, b)
        BY <1>0, <1>6, Zenon DEF ForkTypes
      <3>2. \A i \in 1 .. Len(forkTasks) : forkTasks[i] \in Forks!Nodes
        BY <3>1 DEF Forks!Nodes
      <3>3. \A i \in 1 .. Len(forkTasks) : forkTasks[i] # b
        BY <1>0, <1>4, Zenon DEF ExecutedOnce
      <3> HIDE DEF b
      <3> QED
        BY <1>4, <3>1, <3>2, <3>3
    <2>4. \A i \in 1 .. Len(forkTasks') : i \in 1 .. Len(forkTasks) \/ i = Len(forkTasks) + 1
      BY <2>3
    <2>5. \A h \in Forks!Goroutines : forkOn[h] # NoNode => forkOn[h] \in Forks!Nodes \ {b}
      <3>1. \A h \in Forks!Goroutines : forkOn[h] # NoNode =>
                forkOn[h] \in Forks!Nodes /\ forkNode[forkOn[h]] = "running"
        <4>1. \A h \in Forks!Goroutines : forkOn[h] \in Forks!Nodes \cup {NoNode}
          BY <1>0, Zenon DEF ForkTypes
        <4>2. \A h \in Forks!Goroutines : forkOn[h] # NoNode => forkNode[forkOn[h]] = "running"
          BY <1>0, Zenon DEF ExecutedOnce
        <4> QED
          BY <4>1, <4>2
      <3> QED
        BY <1>4, <3>1
    <2>6. \A m \in Forks!Nodes : \A i \in DOMAIN Kids[m] :
              i > forkSubmitted'[m] => Kids[m][i] # b /\ i > forkSubmitted[m]
      <3> SUFFICES ASSUME NEW m \in Forks!Nodes, NEW i \in DOMAIN Kids[m], i > forkSubmitted'[m]
                   PROVE  Kids[m][i] # b /\ i > forkSubmitted[m]
        OBVIOUS
      <3>1. i \in Nat /\ (Kids[m][i] = b => m = n /\ i = k)
        BY <1>3, BranchFacts
      <3>2. forkSubmitted'[m] = IF m = n THEN k ELSE forkSubmitted[m]
        BY <2>2, Zenon
      <3> QED
        BY <1>2, <1>3, <3>1, <3>2
    <2> HIDE DEF b, k
    <2>7. \A i \in 1 .. Len(forkTasks') : forkNode'[forkTasks'[i]] = "queued"
      BY <1>0, <1>4, <2>2, <2>3, <2>4 DEF ExecutedOnce
    <2>8. \A i, j \in 1 .. Len(forkTasks') : forkTasks'[i] = forkTasks'[j] => i = j
      BY <1>0, <2>3, <2>4 DEF ExecutedOnce
    <2>9. \A m \in Forks!Nodes : \A i \in DOMAIN Kids[m] :
              i > forkSubmitted'[m] => forkNode'[Kids[m][i]] = "new"
      BY <1>0, <2>2, <2>6, BranchFacts, SMTT(30) DEF ExecutedOnce
    <2>10. ExecutedOnce'
      BY <1>0, <1>1, <2>2, <2>5, <2>7, <2>8, <2>9 DEF ExecutedOnce
    <2>11. ErrorsKept'
      BY <1>0, <1>1, <1>4, <1>6, NoErrorYet, Zenon
    <2> QED
      BY <2>1, <2>10, <2>11, Zenon DEF ForkInv
  <1> QED
    BY <1>1, <1>5, <1>6, Zenon

\* A chain returns, after the branches of its fork.
LEMMA ReturnKeeps ==
    ASSUME ForkInv, NEW g \in Forks!Goroutines, NEW n \in Forks!Nodes, Forks!Return(g, n)
    PROVE  ForkInv'
  <1>0. ForkTypes /\ ExecutedOnce /\ ErrorsKept /\ NoNode \notin Forks!Nodes /\ Branches \subseteq Forks!Nodes
    BY ForksAssumption, Zenon DEF ForkInv, Forks!NodesAssumption, Forks!Nodes
  <1>1. /\ forkOn[g] = n /\ (\A b \in Branches : Forks!IsKid(b, n) => forkNode[b] = "done")
        /\ forkNode' = [forkNode EXCEPT ![n] = "done"] /\ forkOn' = [forkOn EXCEPT ![g] = NoNode]
        /\ UNCHANGED <<forkSubmitted, forkTasks>>
    BY Zenon DEF Forks!Return
  <1>2. PICK err \in BOOLEAN :
            /\ forkFirstErr[n] # NoNode => err
            /\ forkFailed' = IF err THEN forkFailed \cup {n} ELSE forkFailed
            /\ forkFirstErr' = [p \in Forks!Nodes |->
                   IF err /\ Forks!IsKid(n, p) /\ forkFirstErr[p] = NoNode THEN n ELSE forkFirstErr[p]]
    BY Zenon DEF Forks!Return
  <1>3. \A p \in Forks!Nodes : forkFirstErr'[p] =
            IF err /\ Forks!IsKid(n, p) /\ forkFirstErr[p] = NoNode THEN n ELSE forkFirstErr[p]
    BY <1>2, Zenon
  <1>4. \A b, p : p \in Forks!Nodes /\ Forks!IsKid(b, p) => b \in Branches
    BY BranchFacts DEF Forks!IsKid
  <1>5. ForkTypes'
    BY <1>0, <1>1, <1>2, <1>4, Zenon DEF ForkTypes
  <1>6. /\ \A m \in Forks!Nodes : forkNode'[m] = IF m = n THEN "done" ELSE forkNode[m]
        /\ \A h \in Forks!Goroutines : forkOn'[h] = IF h = g THEN NoNode ELSE forkOn[h]
        /\ forkNode[n] = "running"
    BY <1>0, <1>1 DEF ForkTypes, ExecutedOnce
  <1>7. ExecutedOnce'
    <2>1. \A h \in Forks!Goroutines : forkOn'[h] # NoNode => forkOn[h] \in Forks!Nodes \ {n}
      BY <1>0, <1>1, <1>6, SMTT(30) DEF ForkTypes, ExecutedOnce
    <2>2. \A i \in 1 .. Len(forkTasks) : forkTasks[i] \in Forks!Nodes \ {n}
      <3>1. \A i \in 1 .. Len(forkTasks) : forkTasks[i] \in Forks!Nodes
        BY <1>0 DEF ForkTypes, Forks!Nodes
      <3>2. \A i \in 1 .. Len(forkTasks) : forkNode[forkTasks[i]] = "queued"
        BY <1>0, Zenon DEF ExecutedOnce
      <3> QED
        BY <1>6, <3>1, <3>2
    <2>3. \A m \in Forks!Nodes : \A i \in DOMAIN Kids[m] :
              i > forkSubmitted[m] => Kids[m][i] \in Forks!Nodes \ {n}
      BY <1>0, <1>6, BranchFacts DEF ExecutedOnce
    <2> QED
      BY <1>0, <1>1, <1>6, <2>1, <2>2, <2>3 DEF ExecutedOnce
  <1>8. ASSUME NEW p \in Forks!Nodes, Forks!IsKid(n, p) PROVE forkNode[p] # "done"
    BY <1>0, <1>4, <1>6, <1>8, Zenon DEF ErrorsKept
  <1>9. ErrorsKept'
    <2> SUFFICES ASSUME NEW p \in Forks!Nodes
                 PROVE  /\ forkFirstErr'[p] # NoNode =>
                              Forks!IsKid(forkFirstErr'[p], p) /\ forkFirstErr'[p] \in forkFailed'
                        /\ \A b \in forkFailed' : Forks!IsKid(b, p) => forkFirstErr'[p] # NoNode
                        /\ forkNode'[p] = "done" =>
                             /\ forkFirstErr'[p] # NoNode => p \in forkFailed'
                             /\ \A b \in Branches : Forks!IsKid(b, p) => forkNode'[b] = "done"
      BY Zenon DEF ErrorsKept, Forks!IsKid
    <2>1. forkFirstErr'[p] # NoNode => Forks!IsKid(forkFirstErr'[p], p) /\ forkFirstErr'[p] \in forkFailed'
      BY <1>0, <1>2, <1>3, Zenon DEF ErrorsKept
    <2>2. \A b \in forkFailed' : Forks!IsKid(b, p) => forkFirstErr'[p] # NoNode
      BY <1>0, <1>2, <1>3 DEF ErrorsKept
    <2>3. CASE p = n
      <3>1. ~ Forks!IsKid(n, n)
        BY <1>1, <1>4, <1>6, Zenon
      <3>2. forkFirstErr'[n] # NoNode => err
        BY <1>2, <1>3, <3>1, Zenon
      <3> QED
        BY <1>0, <1>1, <1>2, <1>6, <2>1, <2>2, <2>3, <3>2
    <2>4. CASE p # n
      BY <1>0, <1>2, <1>3, <1>6, <1>8, <2>1, <2>2, <2>4 DEF ErrorsKept
    <2> QED
      BY <2>3, <2>4, Zenon
  <1> QED
    BY <1>5, <1>7, <1>9, Zenon DEF ForkInv

\* Every step of the forks and their pool keeps the invariant.
LEMMA ForkStep == ASSUME ForkInv, [Forks!Next]_(Forks!vars) PROVE ForkInv'
  <1>1. ASSUME NEW m \in Forked, Forks!Accept(m) PROVE ForkInv'
    BY <1>1, AcceptKeeps, Zenon
  <1>2. ASSUME NEW w \in FlowWorkers, NEW m \in Forked, Forks!Take(w, m) PROVE ForkInv'
    BY <1>2, TakeKeeps, Zenon
  <1>3. ASSUME NEW p \in PoolWorkers, Forks!PoolTake(p) PROVE ForkInv'
    BY <1>3, PoolTakeKeeps, Zenon
  <1>4. ASSUME NEW g \in Forks!Goroutines, Forks!Goroutine(g) PROVE ForkInv'
    BY <1>4, SubmitKeeps, ReturnKeeps, Zenon DEF Forks!Goroutine
  <1>5. ASSUME UNCHANGED <<forkNode, forkSubmitted, forkFirstErr, forkFailed, forkOn, forkTasks>>
        PROVE  ForkInv'
    <2>1. ForkTypes' /\ ExecutedOnce'
      BY <1>5 DEF ForkInv, ForkTypes, ExecutedOnce
    <2>2. ErrorsKept'
      BY <1>5 DEF ForkInv, ErrorsKept, Forks!IsKid
    <2> QED
      BY <2>1, <2>2, Zenon DEF ForkInv
  <1> QED
    BY <1>1, <1>2, <1>3, <1>4, <1>5, Zenon
    DEF Forks!Next, Forks!vars, Forks!FlowWorker, Forks!WorkerExit, Forks!PoolExit, Forks!CloseIn,
        Forks!StopPool, Forks!PoolStopped, Forks!Over

\* Whatever the branches of a fork do, and wherever they run: a fork with a branch
\* that failed fails, and the error it keeps is that of a branch of its own.
THEOREM ForksKeepErrors == Forks!Spec => []ForkKeepsError
  <1>1. ForkInv => ForkKeepsError
    BY Zenon DEF ForkInv, ErrorsKept, ForkKeepsError, Forks!ForkKeepsError
  <1> QED
    BY <1>1, ForkInit, ForkStep, PTL DEF Forks!Spec

-----------------------------------------------------------------------------
(* Object blocks.                                                          *)

\* The types that the argument needs.
ObjectTypes ==
    /\ objEntry \in Objects!Entries
    /\ objChanges \in Nat
    /\ objPc \in [Objects!Procs -> {"get", "set", "run", "done"}]
    /\ objOutcome \in [Objects!Procs -> {"none", "ok", "conflict", "error", "hit", "miss"}]
    /\ objVersion \in [Writers -> Nat] /\ objTries \in [Writers -> Nat] /\ objBegan \in [Writers -> Nat]

\* What a writer has lost: a change for each attempt it used, and one more if the
\* version it has read is no longer the stored one.
Paid(w) ==
    /\ objPc[w] \in {"get", "set"} => objTries[w] < WriteAttempts
    /\ objPc[w] = "get" /\ objTries[w] # 0 => objChanges - objBegan[w] >= objTries[w]
    /\ objPc[w] = "set" => objChanges - objBegan[w] >= objTries[w]
    /\ objPc[w] = "set" /\ objEntry.version # objVersion[w] => objChanges - objBegan[w] >= objTries[w] + 1
    /\ objOutcome[w] # "none" => objPc[w] = "done"
    /\ objOutcome[w] = "conflict" => objChanges - objBegan[w] >= WriteAttempts

ContentionInv == ObjectTypes /\ \A w \in Writers : Paid(w)

\* Entries and what a write makes of them.
LEMMA ObjectEntryFacts ==
    ASSUME NEW e \in Objects!Entries
    PROVE  /\ e.version \in Nat
           /\ Objects!Absent \in Objects!Entries
           /\ \A v \in Writers : Objects!Stored(e, v) \in Objects!Entries
  BY DEF Objects!Entries, Objects!Absent, Objects!Stored

\* Nobody has tried yet.
LEMMA ContentionInit == ASSUME Objects!ObjectAssumption, Objects!Init PROVE ContentionInv
  <1>0. Objects!Absent \in Objects!Entries
    BY Zenon DEF Objects!Entries
  <1>1. ObjectTypes
    BY <1>0, Zenon DEF Objects!Init, ObjectTypes
  <1>2. \A w \in Writers : objPc[w] = "get" /\ objTries[w] = 0 /\ objOutcome[w] = "none"
    BY Zenon DEF Objects!Init, Objects!Procs
  <1> QED
    BY <1>1, <1>2 DEF ContentionInv, Paid, Objects!ObjectAssumption

\* A writer that is not the one to move has lost no less than before, since every
\* change of the entry is counted.
LEMMA OthersPaid ==
    ASSUME ObjectTypes, ObjectTypes', Objects!ObjectAssumption, NEW w \in Writers, Paid(w),
           objPc'[w] = objPc[w], objOutcome'[w] = objOutcome[w],
           objVersion'[w] = objVersion[w], objTries'[w] = objTries[w], objBegan'[w] = objBegan[w],
           \/ UNCHANGED <<objEntry, objChanges>>
           \/ objChanges' = objChanges + 1
    PROVE  Paid(w)'
  BY DEF ObjectTypes, Paid, Objects!ObjectAssumption

\* Every step keeps the invariant.
LEMMA ContentionStep ==
    ASSUME Objects!ObjectAssumption, ContentionInv, [Objects!Next]_(Objects!vars)
    PROVE  ContentionInv'
  <1> USE DEF ContentionInv
  <1>0. ObjectTypes /\ WriteAttempts \in Nat
    BY Zenon DEF Objects!ObjectAssumption
  <1>1. ASSUME NEW w \in Writers, Objects!ReadVersion(w) PROVE ContentionInv'
    <2>1. objEntry.version \in Nat /\ w \in Objects!Procs
      BY <1>0, ObjectEntryFacts, Zenon DEF ObjectTypes, Objects!Procs
    <2>2. ObjectTypes'
      BY <1>0, <1>1, <2>1, Zenon DEF Objects!ReadVersion, Objects!Done, ObjectTypes
    <2>3. Paid(w)'
      <3>1. objPc[w] = "get" /\ objOutcome[w] = "none"
        BY <1>0, <1>1, <2>1, Zenon DEF Objects!ReadVersion, Paid, ObjectTypes
      <3>2. /\ objBegan'[w] = IF objTries[w] = 0 THEN objChanges ELSE objBegan[w]
            /\ objTries'[w] = objTries[w] /\ objChanges' = objChanges /\ objEntry' = objEntry
        BY <1>0, <1>1, Zenon DEF Objects!ReadVersion, ObjectTypes
      <3>3. \/ objPc'[w] = "set" /\ objVersion'[w] = objEntry.version /\ objOutcome'[w] = objOutcome[w]
            \/ objPc'[w] = "done" /\ objOutcome'[w] = "error"
        BY <1>0, <1>1, <2>1, Zenon DEF Objects!ReadVersion, Objects!Done, ObjectTypes
      <3> QED
        BY <1>0, <3>1, <3>2, <3>3 DEF Paid, ObjectTypes
    <2>4. ASSUME NEW v \in Writers \ {w} PROVE Paid(v)'
      BY <1>0, <1>1, <2>1, <2>2, OthersPaid, SMTT(30)
      DEF Objects!ReadVersion, Objects!Done, ObjectTypes, Objects!Procs
    <2> QED
      BY <2>2, <2>3, <2>4, Zenon
  <1>2. ASSUME NEW w \in Writers,
               Objects!WriteApplied(w) \/ Objects!WriteFails(w) PROVE ContentionInv'
    <2>1. objEntry' \in Objects!Entries /\ objChanges' \in Nat /\ w \in Objects!Procs
      BY <1>0, <1>2, ObjectEntryFacts
      DEF Objects!WriteApplied, Objects!WriteFails, ObjectTypes, Objects!ObjectAssumption,
          Objects!Procs
    <2>2. ObjectTypes'
      BY <1>0, <1>2, <2>1 DEF Objects!WriteApplied, Objects!WriteFails, Objects!Done, ObjectTypes
    <2>3. Paid(w)'
      BY <1>0, <1>2, <2>1, Zenon
      DEF Objects!WriteApplied, Objects!WriteFails, Objects!Done, ObjectTypes, Paid
    <2>4. ASSUME NEW v \in Writers \ {w} PROVE Paid(v)'
      BY <1>0, <1>2, <2>2, OthersPaid
      DEF Objects!WriteApplied, Objects!WriteFails, Objects!Done, ObjectTypes, Objects!Procs
    <2> QED
      BY <2>2, <2>3, <2>4, Zenon
  <1>3. ASSUME NEW w \in Writers, Objects!WriteConflicts(w) PROVE ContentionInv'
    <2>1. w \in Objects!Procs
      BY Zenon DEF Objects!Procs
    <2>2. ObjectTypes'
      BY <1>0, <1>3, <2>1 DEF Objects!WriteConflicts, Objects!Done, ObjectTypes
    <2>3. Paid(w)'
      <3>1. /\ objPc[w] = "set" /\ objOutcome[w] = "none" /\ objTries[w] < WriteAttempts
            /\ objChanges - objBegan[w] >= objTries[w] + 1
        BY <1>0, <1>3, <2>1, Zenon DEF Objects!WriteConflicts, Objects!Matches, Paid, ObjectTypes
      <3>2. /\ objTries'[w] = objTries[w] + 1
            /\ UNCHANGED <<objChanges, objEntry, objBegan>>
        BY <1>0, <1>3, Zenon DEF Objects!WriteConflicts, ObjectTypes
      <3>3. \/ objPc'[w] = "get" /\ objTries[w] + 1 < WriteAttempts /\ objOutcome'[w] = objOutcome[w]
            \/ objPc'[w] = "done" /\ objTries[w] + 1 = WriteAttempts /\ objOutcome'[w] = "conflict"
        BY <1>0, <1>3, <2>1, Zenon DEF Objects!WriteConflicts, Objects!Done, ObjectTypes
      <3> QED
        BY <1>0, <3>1, <3>2, <3>3, Zenon DEF Paid, ObjectTypes
    <2>4. ASSUME NEW v \in Writers \ {w} PROVE Paid(v)'
      BY <1>0, <1>3, <2>2, OthersPaid
      DEF Objects!WriteConflicts, Objects!Done, ObjectTypes, Objects!Procs
    <2> QED
      BY <2>2, <2>3, <2>4, Zenon
  <1>4. ASSUME NEW p \in Deleters \cup Readers, Objects!DeleteObject(p) \/ Objects!ReadObject(p)
        PROVE  ContentionInv'
    <2>1. objEntry' \in Objects!Entries /\ objChanges' \in Nat /\ p \in Objects!Procs /\ p \notin Writers
      BY <1>0, <1>4, ObjectEntryFacts
      DEF Objects!DeleteObject, Objects!ReadObject, ObjectTypes, Objects!ObjectAssumption,
          Objects!Procs
    <2>2. ObjectTypes'
      BY <1>0, <1>4, <2>1, Zenon
      DEF Objects!DeleteObject, Objects!ReadObject, Objects!Done, ObjectTypes
    <2>3. UNCHANGED <<objEntry, objChanges>> \/ objChanges' = objChanges + 1
      BY <1>4, Zenon DEF Objects!DeleteObject, Objects!ReadObject
    <2>4. ASSUME NEW v \in Writers PROVE Paid(v)'
      BY <1>0, <1>4, <2>1, <2>2, <2>3, OthersPaid
      DEF Objects!DeleteObject, Objects!ReadObject, Objects!Done, ObjectTypes, Objects!Procs
    <2> QED
      BY <2>2, <2>4, Zenon
  <1>5. CASE UNCHANGED Objects!vars
    BY <1>5, Zenon DEF Objects!vars, ObjectTypes, Paid
  <1> QED
    BY <1>1, <1>2, <1>3, <1>4, <1>5, Zenon DEF Objects!Next, Objects!WriterStep, Objects!Finished

\* object-write gives up only after others changed the key as often as it tried
\* (the loop over objectWriteAttempts in objectWrite.Process).
THEOREM WritersGiveUpUnderContention == Objects!Spec => []GivesUpUnderContention
  <1>1. Objects!Init => ContentionInv
    BY StoresAssumption, ContentionInit, Zenon
  <1>2. ContentionInv /\ [Objects!Next]_(Objects!vars) => ContentionInv'
    BY StoresAssumption, ContentionStep, Zenon
  <1>3. ContentionInv => GivesUpUnderContention
    BY Zenon DEF ContentionInv, Paid, GivesUpUnderContention, Objects!GivesUpUnderContention
  <1> QED
    BY <1>1, <1>2, <1>3, PTL DEF Objects!Spec

-----------------------------------------------------------------------------
(* Cache scopes.                                                           *)

ScopeRuns(s) == cchPc[s] \in {"body", "store"}

\* The types that the argument needs.
CacheTypes ==
    /\ cchData \in Generations
    /\ cchEntry \in Cache!Entries
    /\ cchPc \in [Scopes \cup Invalidators -> {"get", "body", "store", "run", "done"}]
    /\ cchVersion \in [Scopes -> Nat]
    /\ cchBody \in [Scopes -> Cache!Bodies]

\* Bodies are not newer than the data.  As long as no eviction met a running scope,
\* a scope has read no version newer than the one that is stored, and one whose
\* version is still the stored one has computed nothing older than what is stored.
VersionsInv ==
    /\ CacheTypes
    /\ \A s \in Scopes : cchPc[s] = "store" => cchBody[s] \in Generations /\ cchBody[s] <= cchData
    /\ cchEntry # Cache!Absent => cchEntry.value <= cchData
    /\ ~cchOverlap => \A s \in Scopes :
         /\ ScopeRuns(s) => cchVersion[s] <= cchEntry.version
         /\ cchPc[s] = "store" /\ cchEntry # Cache!Absent /\ cchVersion[s] = cchEntry.version
              => cchEntry.value <= cchBody[s]

\* The zero Entry is the only one of version 0, and a write moves on from it.
LEMMA CacheEntryFacts ==
    ASSUME NEW e \in Cache!Entries
    PROVE  /\ e.version \in Nat
           /\ e # Cache!Absent => e.version # 0 /\ e.value \in Generations
           /\ Cache!Absent \in Cache!Entries /\ Cache!Absent.version = 0
           /\ \A v \in Generations : /\ Cache!Stored(e, v) \in Cache!Entries /\ Cache!Stored(e, v) # Cache!Absent
                                /\ Cache!Stored(e, v).version = e.version + 1
                                /\ Cache!Stored(e, v).value = v
  BY DEF Cache!Entries, Cache!Absent, Cache!Stored

\* Scopes and invalidations start from an empty cache.
LEMMA VersionsInit == ASSUME Cache!CacheAssumption, Cache!Init PROVE VersionsInv
  <1>0. Cache!Absent \in Cache!Entries
    BY Zenon DEF Cache!Entries
  <1>1. CacheTypes
    BY <1>0 DEF Cache!CacheAssumption, Cache!Init, CacheTypes, Cache!Bodies
  <1> QED
    BY <1>1, Zenon DEF Cache!Init, VersionsInv, ScopeRuns

\* Every step keeps the invariant.
LEMMA VersionsStep ==
    ASSUME Cache!CacheAssumption, VersionsInv, [Cache!Next]_(Cache!vars)
    PROVE  VersionsInv'
  <1> USE DEF VersionsInv, ScopeRuns
  <1>0. CacheTypes /\ Generations \subseteq Nat /\ cchData \in Nat
    BY DEF Cache!CacheAssumption, CacheTypes
  <1>1. ASSUME NEW s \in Scopes, Cache!Hit(s) PROVE VersionsInv'
    <2>1. cchEntry.value \in Generations
      BY <1>0, <1>1, CacheEntryFacts, Zenon DEF Cache!Hit, Cache!Fresh, CacheTypes
    <2>2. CacheTypes'
      BY <1>0, <1>1, <2>1, Zenon
      DEF Cache!Hit, Cache!Done, CacheTypes, Cache!worldVars, Cache!Bodies
    <2> QED
      BY <1>0, <1>1, <2>2 DEF Cache!Hit, Cache!Done, CacheTypes, Cache!worldVars
  <1>2. ASSUME NEW s \in Scopes, Cache!Miss(s) PROVE VersionsInv'
    <2>1. cchEntry.version \in Nat
      BY <1>0, CacheEntryFacts, Zenon DEF CacheTypes
    <2>2. CacheTypes'
      BY <1>0, <1>2, <2>1 DEF Cache!Miss, CacheTypes, Cache!worldVars
    <2>3. cchVersion'[s] <= cchEntry.version
      BY <1>0, <1>2, <2>1 DEF Cache!Miss, CacheTypes
    <2> QED
      BY <1>0, <1>2, <2>1, <2>2, <2>3 DEF Cache!Miss, CacheTypes, Cache!worldVars
  <1>3. ASSUME NEW s \in Scopes, Cache!Compute(s) PROVE VersionsInv'
    <2>1. CacheTypes'
      BY <1>0, <1>3 DEF Cache!Compute, Cache!Done, CacheTypes, Cache!worldVars, Cache!Bodies
    <2>2. cchEntry # Cache!Absent => cchEntry.value \in Nat
      BY <1>0, CacheEntryFacts, Zenon DEF CacheTypes
    <2>3. UNCHANGED <<cchData, cchEntry, cchOverlap, cchVersion>>
      BY <1>3, Zenon DEF Cache!Compute, Cache!worldVars
    <2>4. \A t \in Scopes \ {s} : cchPc'[t] = cchPc[t] /\ cchBody'[t] = cchBody[t]
      BY <1>0, <1>3, Zenon DEF Cache!Compute, Cache!Done, CacheTypes
    <2>5. cchPc'[s] = "done" \/ (cchPc'[s] = "store" /\ cchBody'[s] = cchData /\ cchPc[s] = "body")
      BY <1>0, <1>3, Zenon DEF Cache!Compute, Cache!Done, CacheTypes
    <2> QED
      BY <1>0, <2>1, <2>2, <2>3, <2>4, <2>5 DEF CacheTypes
  <1>4. ASSUME NEW s \in Scopes, Cache!Store(s) PROVE VersionsInv'
    <2>1. cchBody[s] \in Generations
      BY <1>4, Zenon DEF Cache!Store
    <2>2. CacheTypes'
      <3>1. cchEntry' \in {cchEntry, Cache!Stored(cchEntry, cchBody[s])}
        BY <1>4, Zenon DEF Cache!Store
      <3>2. cchEntry \in Cache!Entries
        BY <1>0, Zenon DEF CacheTypes
      <3>3. cchEntry' \in Cache!Entries
        BY <2>1, <3>1, <3>2, CacheEntryFacts
      <3> QED
        BY <1>0, <1>4, <3>3, Zenon DEF Cache!Store, Cache!Done, CacheTypes
    <2>3. CASE cchEntry' = cchEntry
      BY <1>0, <1>4, <2>2, <2>3, Zenon DEF Cache!Store, Cache!Done, CacheTypes
    <2>4. CASE cchEntry' = Cache!Stored(cchEntry, cchBody[s])
      <3>1. /\ cchEntry'.version = cchEntry.version + 1 /\ cchEntry'.value = cchBody[s]
            /\ cchEntry.version \in Nat
        BY <1>0, <2>1, <2>4, CacheEntryFacts, Zenon DEF CacheTypes
      <3> QED
        BY <1>0, <1>4, <2>1, <2>2, <3>1 DEF Cache!Store, Cache!Done, CacheTypes
    <2> QED
      BY <1>4, <2>3, <2>4, Zenon DEF Cache!Store
  <1>5. ASSUME NEW i \in Invalidators, Cache!Invalidate(i) PROVE VersionsInv'
    <2>1. CacheTypes'
      BY <1>0, <1>5, CacheEntryFacts DEF Cache!Invalidate, Cache!Done, CacheTypes
    <2>2. \A s \in Scopes : cchPc'[s] = cchPc[s]
      BY <1>0, <1>5, Zenon DEF Cache!Invalidate, Cache!Done, CacheTypes, Cache!CacheAssumption
    <2>3. CASE UNCHANGED <<cchEntry, cchOverlap>>
      BY <1>0, <1>5, <2>1, <2>2, <2>3, Zenon DEF Cache!Invalidate
    <2>4. CASE cchEntry' = Cache!Absent /\ cchOverlap' = (cchOverlap \/ \E s \in Scopes : cchPc[s] \in {"body", "store"})
      BY <1>0, <1>5, <2>1, <2>2, <2>4, Zenon DEF Cache!Invalidate
    <2> QED
      BY <1>5, <2>3, <2>4, Zenon DEF Cache!Invalidate
  <1>6. CASE Cache!Change
    <2>1. cchData' = cchData + 1 /\ cchData' \in Generations
      BY <1>0, <1>6 DEF Cache!Change, Cache!CacheAssumption
    <2>2. CacheTypes'
      BY <1>0, <1>6, <2>1, Zenon DEF Cache!Change, CacheTypes
    <2>3. cchEntry # Cache!Absent => cchEntry.value \in Nat
      BY <1>0, CacheEntryFacts, Zenon DEF CacheTypes
    <2>4. \A s \in Scopes : cchBody[s] \in Generations => cchBody[s] \in Nat
      BY <1>0, Zenon
    <2>5. UNCHANGED <<cchEntry, cchOverlap, cchPc, cchVersion, cchBody>>
      BY <1>6, Zenon DEF Cache!Change
    <2> QED
      BY <1>0, <2>1, <2>2, <2>3, <2>4, <2>5
  <1>7. CASE Cache!Expire
    <2>1. CacheTypes'
      BY <1>0, <1>7, Zenon DEF Cache!Expire, CacheTypes, Cache!CacheAssumption
    <2> QED
      BY <1>7, <2>1, Zenon DEF Cache!Expire
  <1>8. CASE UNCHANGED Cache!vars
    BY <1>8, Zenon DEF Cache!vars, CacheTypes
  <1> QED
    BY <1>1, <1>2, <1>3, <1>4, <1>5, <1>6, <1>7, <1>8, Zenon DEF Cache!Next, Cache!Finished

\* A store that takes effect puts nothing older in the place of what it finds.
LEMMA StoreNotOlder ==
    ASSUME Cache!CacheAssumption, VersionsInv, [Cache!Next]_(Cache!vars)
    PROVE  Cache!NotOlder
  <1> SUFFICES ASSUME cchEntry # Cache!Absent, cchEntry' # Cache!Absent, ~cchOverlap
               PROVE  cchEntry'.value >= cchEntry.value
    BY Zenon DEF Cache!NotOlder
  <1>0. CacheTypes /\ cchEntry.value \in Nat
    <2>1. cchEntry \in Cache!Entries /\ Generations \subseteq Nat
      BY DEF VersionsInv, CacheTypes, Cache!CacheAssumption
    <2> QED
      BY <2>1, CacheEntryFacts, Zenon DEF VersionsInv
  <1>1. CASE cchEntry' = cchEntry
    BY <1>0, <1>1
  <1>2. ASSUME NEW s \in Scopes, Cache!Store(s), cchEntry' = Cache!Stored(cchEntry, cchBody[s]),
               Cache!Matches(cchEntry, cchVersion[s])
        PROVE  cchEntry'.value >= cchEntry.value
    <2>1. cchBody[s] \in Generations /\ cchEntry \in Cache!Entries
      BY <1>0, <1>2, Zenon DEF VersionsInv, Cache!Store, CacheTypes
    <2>2. cchEntry'.value = cchBody[s]
      BY <1>2, <2>1, CacheEntryFacts, Zenon
    <2>3. cchBody[s] \in Nat
      BY <2>1 DEF Cache!CacheAssumption
    <2> QED
      BY <1>0, <1>2, <2>2, <2>3, Zenon DEF VersionsInv, Cache!Store, Cache!Matches
  <1> QED
    BY <1>1, <1>2, Zenon
    DEF Cache!Next, Cache!Hit, Cache!Miss, Cache!Compute, Cache!Store, Cache!Invalidate,
        Cache!Change, Cache!Expire, Cache!Finished, Cache!vars, Cache!worldVars

\* A scope that ran slowly never replaces a body by an older one (cacheScope.store
\* sets with the version read on the way in), whatever the number of scopes.
THEOREM CacheNeverBackwards == Cache!Spec => NeverBackwards
  <1>1. Cache!Init => VersionsInv
    BY StoresAssumption, VersionsInit, Zenon
  <1>2. VersionsInv /\ [Cache!Next]_(Cache!vars) => VersionsInv' /\ Cache!NotOlder
    BY StoresAssumption, VersionsStep, StoreNotOlder, Zenon
  <1> QED
    BY <1>1, <1>2, PTL DEF Cache!Spec, NeverBackwards, Cache!NeverBackwards

-----------------------------------------------------------------------------
(***************************************************************************)
(* The transactions of the store.  The invariant says what a transaction   *)
(* knows of its row at each of its statements: the row that it has locked, *)
(* or the key that it has inserted, is at the version that the caller      *)
(* expects until it commits, and a statement that found no row did so      *)
(* during the call.                                                        *)
(***************************************************************************)
PCs == {"idle", "start", "waiting", "gone", "insert", "commit", "recheck", "done"}

Types ==
    /\ entry \in [Keys -> Entries]
    /\ call \in [Clients -> Store!Calls \cup {Store!NoCall}]
    /\ seen \in [Clients -> SUBSET Entries]
    /\ result \in [Clients -> Store!Results]
    /\ pc \in [Clients -> PCs]
    /\ lock \in [Keys -> Clients \cup {None}]
    /\ ins \in [Keys -> Clients \cup {None}]

\* The transaction of c that is about to commit.
Holds(c) ==
    LET k == call[c].key IN
    \/ lock[k] = c /\ entry[k] # Absent /\ entry[k].version = call[c].expected
    \/ ins[k] = c /\ entry[k] = Absent /\ call[c].expected = 0

\* What holds of the call of c at each statement.
CallOK(c) ==
    /\ pc[c] = "idle" <=> call[c] = Store!NoCall
    /\ pc[c] = "done" <=> result[c].status # "open"
    /\ pc[c] # "idle" => entry[call[c].key] \in seen[c]
    /\ pc[c] \in {"waiting", "gone"} => call[c].op \in {"set", "delete"}
    /\ pc[c] = "gone" => Absent \in seen[c]
    /\ pc[c] = "insert" => call[c].op = "set" /\ call[c].expected = 0
    /\ pc[c] = "commit" => call[c].op = "set" /\ Holds(c)
    /\ pc[c] = "recheck" =>
         /\ call[c].op = "delete" /\ call[c].expected # 0
         /\ Absent \in seen[c] \/ \E e \in seen[c] : e.version \notin {0, call[c].expected}

RepoInv == Types /\ \A c \in Clients : CallOK(c)

\* A call names a key; no call is NoCall.
LEMMA CallFacts ==
    ASSUME NEW o \in Store!Calls
    PROVE  /\ o.key \in Keys /\ o # Store!NoCall
           /\ o.op \in {"get", "set", "delete"} /\ o.expected \in Nat
           /\ o.op = "set" => o.value \in Values
  BY RepoAssumption DEF Store!Calls, Store!NoCall

\* Version 0 is the absent entry.
LEMMA EntryFacts ==
    /\ Absent \in Entries /\ Absent.version = 0
    /\ \A e \in Entries : e.version \in Nat /\ (e.version = 0 <=> e = Absent)
    /\ \A e \in Entries, v \in Values : Stored(e, v) \in Entries /\ Stored(e, v) # Absent
  BY DEF Entries, Absent, Stored

\* The store's entries are those of KVCell.
LEMMA SameCell ==
    /\ Store!Absent = Absent /\ Store!Entries = Entries
    /\ \A e, v : Store!Stored(e, v) = Stored(e, v) /\ Store!Matches(e, v) = Matches(e, v)
    /\ \A e, v : Store!DeleteAllowed(e, v) = DeleteAllowed(e, v)
  BY Zenon
  DEF Store!Absent, Absent, Store!Entries, Entries, Store!Stored, Stored, Store!Matches, Matches,
      Store!DeleteAllowed, DeleteAllowed

\* Every answer closes the call.
LEMMA ResultFacts ==
    /\ \A e \in Entries : Store!Ok(e) \in Store!Results /\ Store!Ok(e).status # "open"
    /\ Store!Conflict \in Store!Results /\ Store!Conflict.status # "open"
    /\ Store!Error \in Store!Results /\ Store!Error.status # "open"
    /\ Store!Open \in Store!Results /\ Store!Open.status = "open"
  BY EntryFacts, SameCell, Zenon
  DEF Store!Ok, Store!Conflict, Store!Error, Store!Open, Store!Results

\* What the invariant says of a client in the midst of a call.
LEMMA Calling ==
    ASSUME RepoInv, NEW c \in Clients, pc[c] # "idle"
    PROVE  /\ call[c] \in Store!Calls /\ call[c].key \in Keys /\ call[c] # Store!NoCall
           /\ entry[call[c].key] \in Entries /\ entry[call[c].key] \in seen[c]
           /\ call[c].op = "set" => call[c].value \in Values
           /\ pc[c] # "done" => result[c].status = "open"
  <1>1. call[c] \in Store!Calls /\ entry[call[c].key] \in seen[c]
    BY Zenon DEF RepoInv, Types, CallOK
  <1>2. /\ call[c].key \in Keys /\ call[c] # Store!NoCall
        /\ call[c].op = "set" => call[c].value \in Values
    BY <1>1, CallFacts, Zenon
  <1> QED
    BY <1>1, <1>2, Zenon DEF RepoInv, Types, CallOK

-----------------------------------------------------------------------------
(* Steps of one client that leave the table alone.                         *)

\* The other clients notice nothing.
LEMMA Quiet ==
    ASSUME RepoInv, Types', NEW c \in Clients, CallOK(c)', UNCHANGED entry,
           \A x \in Clients \ {c} :
             /\ call'[x] = call[x] /\ seen'[x] = seen[x]
             /\ pc'[x] = pc[x] /\ result'[x] = result[x]
             /\ \A k \in Keys : (lock[k] = x => lock'[k] = x) /\ (ins[k] = x => ins'[k] = x)
    PROVE  RepoInv'
  <1>1. ASSUME NEW x \in Clients \ {c} PROVE CallOK(x)'
    <2>0. /\ CallOK(x) /\ call'[x] = call[x] /\ seen'[x] = seen[x]
          /\ pc'[x] = pc[x] /\ result'[x] = result[x] /\ entry' = entry
      BY Zenon DEF RepoInv
    <2>1. CASE pc[x] = "idle"
      BY <2>0, <2>1, Zenon DEF CallOK
    <2>2. CASE pc[x] # "idle"
      <3>1. call[x].key \in Keys
        BY <2>2, Calling, Zenon
      <3>2. /\ lock[call[x].key] = x => lock'[call[x].key] = x
            /\ ins[call[x].key] = x => ins'[call[x].key] = x
        BY <3>1, Zenon
      <3>3. Holds(x) => Holds(x)'
        BY <2>0, <3>2, Zenon DEF Holds
      <3> QED
        BY <2>0, <3>3, Zenon DEF CallOK
    <2> QED
      BY <2>1, <2>2, Zenon
  <1> QED
    BY <1>1, Zenon DEF RepoInv

\* The request ends: its locks are freed and it has an answer.
LEMMA Finishes ==
    ASSUME RepoInv, NEW c \in Clients, pc[c] # "idle",
           NEW r \in Store!Results, r.status # "open", Finish(c, r)
    PROVE  RepoInv'
  <1>0. Types /\ call[c] # Store!NoCall /\ entry[call[c].key] \in seen[c] /\ call[c].key \in Keys
    BY Calling, Zenon DEF RepoInv
  <1>1. Types'
    BY <1>0, Zenon DEF Types, Finish, Store!Answer, To, Free, PCs
  <1>2. CallOK(c)'
    BY <1>0, Zenon DEF Types, Finish, Store!Answer, To, CallOK
  <1>3. \A x \in Clients \ {c} :
          /\ call'[x] = call[x] /\ seen'[x] = seen[x]
          /\ pc'[x] = pc[x] /\ result'[x] = result[x]
          /\ \A k \in Keys : (lock[k] = x => lock'[k] = x) /\ (ins[k] = x => ins'[k] = x)
    BY <1>0 DEF Types, Finish, Store!Answer, To, Free
  <1> QED
    BY <1>1, <1>2, <1>3, Quiet, Zenon DEF Finish

\* The steps within a transaction, and its ends without effect.
LEMMA InvokeKeeps ==
    ASSUME RepoInv, NEW c \in Clients, NEW o \in Store!Calls, Invoke(c, o)
    PROVE  RepoInv'
  <1>0. Types /\ o.key \in Keys /\ o # Store!NoCall /\ pc[c] = "idle"
    BY CallFacts, Zenon DEF RepoInv, Invoke, Store!Invoke, CallOK
  <1>1. Types'
    BY <1>0, ResultFacts DEF Types, Invoke, Store!Invoke, To, PCs
  <1>2. CallOK(c)'
    BY <1>0, ResultFacts, Zenon DEF Types, Invoke, Store!Invoke, To, CallOK
  <1> QED
    BY <1>0, <1>1, <1>2, Quiet, Zenon DEF Types, Invoke, Store!Invoke, To

\* A client takes the result of its call.
LEMMA AnswerKeeps ==
    ASSUME RepoInv, NEW c \in Clients, Return(c)
    PROVE  RepoInv'
  <1>0. Types
    BY Zenon DEF RepoInv
  <1>1. Types'
    BY <1>0, ResultFacts, Zenon DEF Types, Return, Store!Return, To, PCs
  <1>2. CallOK(c)'
    BY <1>0, ResultFacts, Zenon DEF Types, Return, Store!Return, To, CallOK
  <1> QED
    BY <1>0, <1>1, <1>2, Quiet, Zenon DEF Types, Return, Store!Return, To

\* A statement of a transaction that stores nothing.
LEMMA StatementKeeps ==
    ASSUME RepoInv, NEW c \in Clients,
           Get(c) \/ WaitForRow(c) \/ LockRow(c) \/ NoRow(c) \/ Insert(c)
             \/ DeleteMisses(c) \/ Recheck(c) \/ Abort(c)
    PROVE  RepoInv'
  <1>0. pc[c] \notin {"idle", "done"}
    BY Zenon DEF Get, WaitForRow, LockRow, NoRow, Insert, DeleteMisses, Recheck, Abort
  <1>1. /\ Types /\ CallOK(c) /\ call[c] # Store!NoCall /\ call[c].key \in Keys
        /\ entry[call[c].key] \in Entries /\ entry[call[c].key] \in seen[c]
        /\ result[c].status = "open"
    BY <1>0, Calling, Zenon DEF RepoInv
  <1> DEFINE k == call[c].key
             Goes(p) == To(c, p) /\ UNCHANGED <<storeVars, lock, ins>>
  <1>2. ASSUME NEW r \in Store!Results, r.status # "open", Finish(c, r) PROVE RepoInv'
    BY <1>0, <1>2, Finishes, Zenon
  <1>3. ASSUME NEW p \in PCs, pc' = [pc EXCEPT ![c] = p], UNCHANGED storeVars,
               \/ UNCHANGED <<lock, ins>>
               \/ lock[k] = None /\ lock' = [lock EXCEPT ![k] = c] /\ ins' = ins
               \/ ins[k] = None /\ ins' = [ins EXCEPT ![k] = c] /\ lock' = lock,
               CallOK(c)'
        PROVE  RepoInv'
    <2>1. Types'
      BY <1>1, <1>3 DEF Types, storeVars
    <2>2. \A x \in Clients \ {c} : \A j \in Keys :
            (lock[j] = x => lock'[j] = x) /\ (ins[j] = x => ins'[j] = x)
      BY <1>1, <1>3, RepoAssumption DEF Types
    <2> QED
      BY <1>1, <1>3, <2>1, <2>2, Quiet, Zenon DEF Types, storeVars
  <1>4. CASE Get(c)
    BY <1>1, <1>2, <1>4, ResultFacts, Zenon DEF Get
  <1>5. CASE WaitForRow(c)
    <2>1. CallOK(c)'
      BY <1>1, <1>5, Zenon DEF WaitForRow, To, storeVars, CallOK, Types
    <2> QED
      BY <1>3, <1>5, <2>1, Zenon DEF WaitForRow, To, PCs
  <1>6. CASE LockRow(c)
    <2>1. CASE Finish(c, Store!Conflict)
      BY <1>2, <2>1, ResultFacts, Zenon
    <2>2. CASE ~Finish(c, Store!Conflict)
      <3>1. /\ call[c].op = "set" /\ entry[k] # Absent /\ lock[k] = None
            /\ entry[k].version = call[c].expected
            /\ lock' = [lock EXCEPT ![k] = c] /\ pc' = [pc EXCEPT ![c] = "commit"]
            /\ UNCHANGED storeVars /\ ins' = ins
        BY <1>6, <2>2, Zenon DEF LockRow, Matches, To
      <3>2. CallOK(c)'
        BY <1>1, <3>1, Zenon DEF storeVars, CallOK, Holds, Types
      <3> QED
        BY <1>3, <3>1, <3>2, Zenon DEF PCs
    <2> QED
      BY <2>1, <2>2, Zenon
  <1>7. CASE NoRow(c)
    <2>1. CASE Finish(c, Store!Conflict)
      BY <1>2, <2>1, ResultFacts, Zenon
    <2>2. CASE ~Finish(c, Store!Conflict)
      <3>1. CallOK(c)'
        BY <1>1, <1>7, <2>2, Zenon DEF NoRow, To, storeVars, CallOK, Types
      <3> QED
        BY <1>3, <1>7, <2>2, <3>1, Zenon DEF NoRow, To, PCs
    <2> QED
      BY <2>1, <2>2, Zenon
  <1>8. CASE Insert(c)
    <2>1. CASE Finish(c, Store!Conflict)
      BY <1>2, <2>1, ResultFacts, Zenon
    <2>2. CASE ~Finish(c, Store!Conflict)
      <3>1. /\ pc[c] = "insert" /\ entry[k] = Absent /\ ins[k] = None
            /\ ins' = [ins EXCEPT ![k] = c] /\ pc' = [pc EXCEPT ![c] = "commit"]
            /\ UNCHANGED storeVars /\ lock' = lock
        BY <1>8, <2>2, Zenon DEF Insert, To
      <3>2. CallOK(c)'
        BY <1>1, <3>1, Zenon DEF storeVars, CallOK, Holds, Types
      <3> QED
        BY <1>3, <3>1, <3>2, Zenon DEF PCs
    <2> QED
      BY <2>1, <2>2, Zenon
  <1>9. CASE DeleteMisses(c)
    <2>1. CASE Finish(c, Store!Ok(Absent))
      BY <1>2, <2>1, ResultFacts, EntryFacts, Zenon
    <2>2. CASE ~Finish(c, Store!Ok(Absent))
      <3>1. /\ call[c].op = "delete" /\ call[c].expected # 0
            /\ pc' = [pc EXCEPT ![c] = "recheck"] /\ UNCHANGED <<storeVars, lock, ins>>
        BY <1>9, <2>2, Zenon DEF DeleteMisses, To
      <3>2. \/ Absent \in seen[c]
            \/ \E e \in seen[c] : e.version \notin {0, call[c].expected}
        BY <1>1, <1>9, EntryFacts, Zenon DEF DeleteMisses, DeleteAllowed, CallOK
      <3>3. CallOK(c)'
        BY <1>1, <3>1, <3>2, Zenon DEF storeVars, CallOK, Types
      <3> QED
        BY <1>3, <3>1, <3>3, Zenon DEF PCs
    <2> QED
      BY <2>1, <2>2, Zenon
  <1>10. CASE Recheck(c)
    BY <1>2, <1>10, ResultFacts, EntryFacts, Zenon DEF Recheck
  <1>11. CASE Abort(c)
    BY <1>2, <1>11, ResultFacts, Zenon DEF Abort
  <1> QED
    BY <1>4, <1>5, <1>6, <1>7, <1>8, <1>9, <1>10, <1>11, Zenon

-----------------------------------------------------------------------------
(* Steps that change the table.                                            *)

\* Open calls see the new entries; nobody loses a row that it holds, and whoever
\* waited for a deleted row has seen it absent.
LEMMA Writes ==
    ASSUME RepoInv, NEW new \in [Keys -> Entries], Store!Becomes(new), UNCHANGED call, Types',
           NEW x \in Clients, result'[x].status = result[x].status,
           \/ pc'[x] = pc[x]
           \/ pc[x] = "waiting" /\ pc'[x] = "gone" /\ new[call[x].key] = Absent,
           pc[x] = "commit" =>
             /\ new[call[x].key] = entry[call[x].key]
             /\ lock[call[x].key] = x => lock'[call[x].key] = x
             /\ ins[call[x].key] = x => ins'[call[x].key] = x
    PROVE  CallOK(x)'
  <1>1. Types /\ CallOK(x)
    BY Zenon DEF RepoInv
  <1>2. CASE pc[x] = "idle"
    BY <1>1, <1>2, Zenon DEF CallOK
  <1>3. CASE pc[x] # "idle"
    <2>1. call[x] # Store!NoCall /\ call[x].key \in Keys
      BY <1>3, Calling, Zenon
    <2>2. seen'[x] = seen[x] \cup {new[call[x].key]} /\ entry' = new /\ call' = call
      BY <2>1, Zenon DEF Store!Becomes
    <2>3. pc'[x] = "commit" => Holds(x)'
      BY <1>1, <2>2, Zenon DEF CallOK, Holds
    <2> QED
      BY <1>1, <1>3, <2>1, <2>2, <2>3, Zenon DEF CallOK
  <1> QED
    BY <1>2, <1>3, Zenon

\* What becomes of the store's history variables is well typed.
LEMMA BecomesTypes ==
    ASSUME RepoInv, NEW new \in [Keys -> Entries], Store!Becomes(new)
    PROVE  entry' \in [Keys -> Entries] /\ seen' \in [Clients -> SUBSET Entries]
  <1>1. \A x \in Clients : call[x] # Store!NoCall => call[x].key \in Keys
    BY CallFacts, Zenon DEF RepoInv, Types
  <1> QED
    BY <1>1 DEF RepoInv, Types, Store!Becomes

\* A Set's commit: the entry gets its value and the next version.
LEMMA CommitKeeps ==
    ASSUME RepoInv, NEW c \in Clients, Commit(c)
    PROVE  RepoInv'
  <1> DEFINE k == call[c].key
             nv == Stored(entry[k], call[c].value)
             new == [entry EXCEPT ![k] = nv]
  <1>0. pc[c] = "commit"
    BY Zenon DEF Commit
  <1>1. /\ Types /\ CallOK(c) /\ Holds(c) /\ call[c].op = "set" /\ k \in Keys
        /\ call[c] # Store!NoCall /\ nv \in Entries /\ new \in [Keys -> Entries]
    <2>1. Types /\ CallOK(c) /\ Holds(c) /\ call[c].op = "set"
      BY <1>0, Zenon DEF RepoInv, CallOK
    <2>2. k \in Keys /\ call[c] # Store!NoCall /\ nv \in Entries
      BY <1>0, <2>1, Calling, EntryFacts, Zenon
    <2> QED
      BY <2>1, <2>2, Zenon DEF Types
  <1>2. /\ Store!Becomes(new) /\ call' = call /\ pc' = [pc EXCEPT ![c] = "done"]
        /\ result' = [result EXCEPT ![c] = Store!Ok(nv)] \/ result' = [result EXCEPT ![c] = Store!Error]
        /\ lock' = [lock EXCEPT ![k] = IF @ = c THEN None ELSE @]
        /\ ins' = [ins EXCEPT ![k] = IF @ = c THEN None ELSE @]
    BY Zenon DEF Commit, Store!Answer, To, Free
  <1>3. result' \in [Clients -> Store!Results] /\ result'[c].status # "open"
    <2> HIDE DEF nv
    <2> QED
      BY <1>1, <1>2, ResultFacts DEF Types
  <1>4. Types'
    <2> HIDE DEF k, new
    <2> QED
      BY <1>1, <1>2, <1>3, BecomesTypes, Zenon DEF Types, PCs
  <1>5. CallOK(c)'
    <2>1. seen'[c] = seen[c] \cup {new[k]} /\ entry' = new
      BY <1>1, <1>2, Zenon DEF Store!Becomes
    <2> HIDE DEF new
    <2> QED
      BY <1>0, <1>1, <1>2, <1>3, <2>1, Zenon DEF CallOK, Types
  <1>6. ASSUME NEW x \in Clients \ {c} PROVE CallOK(x)'
    <2>1. pc'[x] = pc[x] /\ result'[x] = result[x]
      BY <1>1, <1>2, Zenon DEF Types
    <2>2. \A j \in Keys : (lock[j] = x => lock'[j] = x) /\ (ins[j] = x => ins'[j] = x)
      BY <1>1, <1>2 DEF Types
    <2>3. ASSUME pc[x] = "commit" PROVE call[x].key \in Keys /\ call[x].key # k
      <3>1. Holds(x) /\ call[x].key \in Keys
        BY <2>3, Calling, Zenon DEF RepoInv, CallOK
      <3> QED
        BY <1>1, <3>1, Zenon DEF Holds
    <2>4. pc[x] = "commit" =>
             /\ new[call[x].key] = entry[call[x].key]
             /\ lock[call[x].key] = x => lock'[call[x].key] = x
             /\ ins[call[x].key] = x => ins'[call[x].key] = x
      BY <1>1, <2>2, <2>3, Zenon DEF Types
    <2> HIDE DEF new, k
    <2> QED
      BY <1>1, <1>2, <1>4, <2>1, <2>4, Writes, Zenon
  <1> QED
    BY <1>4, <1>5, <1>6, Zenon DEF RepoInv

\* A Delete's row goes with its lock.
LEMMA DeleteRowKeeps ==
    ASSUME RepoInv, NEW c \in Clients, DeleteRow(c)
    PROVE  RepoInv'
  <1> DEFINE k == call[c].key
             new == [entry EXCEPT ![k] = Absent]
  <1>1. /\ Types /\ CallOK(c) /\ pc[c] \notin {"idle", "done"} /\ k \in Keys
        /\ call[c] # Store!NoCall /\ new \in [Keys -> Entries]
    BY Calling, EntryFacts, Zenon DEF RepoInv, DeleteRow, Types
  <1>2. /\ Store!Becomes(new) /\ result' = [result EXCEPT ![c] = Store!Ok(Absent)]
        /\ Deleted(c, {k}) /\ UNCHANGED <<call, lock, ins>>
        /\ lock[k] = None /\ entry[k] # Absent
    BY Zenon DEF DeleteRow, Store!Answer
  <1>3. result' \in [Clients -> Store!Results] /\ result'[c].status # "open" /\ pc'[c] = "done"
    BY <1>1, <1>2, ResultFacts, EntryFacts, Zenon DEF Types, Deleted
  <1>4. Types'
    <2> HIDE DEF k, new
    <2>1. pc' \in [Clients -> PCs]
      BY <1>1, <1>2, Zenon DEF Deleted, Types, PCs
    <2> QED
      BY <1>1, <1>2, <1>3, <2>1, BecomesTypes, Zenon DEF Types
  <1>5. CallOK(c)'
    <2>1. seen'[c] = seen[c] \cup {new[k]} /\ entry' = new
      BY <1>1, <1>2, Zenon DEF Store!Becomes
    <2> HIDE DEF new
    <2> QED
      BY <1>1, <1>2, <1>3, <2>1, Zenon DEF CallOK, Types
  <1>6. ASSUME NEW x \in Clients \ {c} PROVE CallOK(x)'
    <2>1. result'[x] = result[x]
      BY <1>1, <1>2, Zenon DEF Types
    <2>2. \/ pc'[x] = pc[x]
          \/ pc[x] = "waiting" /\ pc'[x] = "gone" /\ new[call[x].key] = Absent
      BY <1>1, <1>2, Zenon DEF Types, Deleted
    <2>3. ASSUME pc[x] = "commit" PROVE call[x].key \in Keys /\ call[x].key # k
      <3>1. Holds(x) /\ call[x].key \in Keys
        BY <2>3, Calling, Zenon DEF RepoInv, CallOK
      <3> QED
        BY <1>1, <1>2, <3>1, RepoAssumption, Zenon DEF Holds
    <2>4. pc[x] = "commit" => new[call[x].key] = entry[call[x].key]
      BY <1>1, <2>3, Zenon DEF Types
    <2> HIDE DEF new, k
    <2> QED
      BY <1>1, <1>2, <1>4, <2>1, <2>2, <2>4, Writes, Zenon
  <1> QED
    BY <1>4, <1>5, <1>6, Zenon DEF RepoInv

\* Undeploy drops the entries of the deployment (DeleteByDeployment).
LEMMA DropKeeps == ASSUME RepoInv, DeleteByDeployment PROVE RepoInv'
  <1> DEFINE new == [k \in Keys |-> Absent]
             ks == {k \in Keys : entry[k] # Absent}
  <1>1. Types /\ new \in [Keys -> Entries]
    BY EntryFacts, Zenon DEF RepoInv
  <1>2. /\ Store!Becomes(new) /\ Deleted(None, ks) /\ UNCHANGED <<call, result, lock, ins>>
        /\ \A k \in Keys : lock[k] = None
    BY Zenon DEF DeleteByDeployment
  <1>3. Types'
    <2> HIDE DEF new, ks
    <2>1. pc' \in [Clients -> PCs]
      BY <1>1, <1>2, Zenon DEF Deleted, Types, PCs
    <2> QED
      BY <1>1, <1>2, <2>1, BecomesTypes, Zenon DEF Types
  <1>4. ASSUME NEW x \in Clients PROVE CallOK(x)'
    <2>1. x # None
      BY RepoAssumption, Zenon
    <2>2. \/ pc'[x] = pc[x]
          \/ pc[x] = "waiting" /\ pc'[x] = "gone" /\ new[call[x].key] = Absent
      BY <1>1, <1>2, <2>1, Zenon DEF Types, Deleted
    <2>3. ASSUME pc[x] = "commit" PROVE new[call[x].key] = entry[call[x].key]
      <3>1. Holds(x) /\ call[x].key \in Keys
        BY <2>3, Calling, Zenon DEF RepoInv, CallOK
      <3> QED
        BY <1>2, <2>1, <3>1, Zenon DEF Holds
    <2> HIDE DEF new, ks
    <2> QED
      BY <1>1, <1>2, <1>3, <2>2, <2>3, Writes, Zenon
  <1> QED
    BY <1>3, <1>4, Zenon DEF RepoInv

\* The empty table.
LEMMA RepoInit == Init => RepoInv
  <1> SUFFICES ASSUME Init PROVE RepoInv
    OBVIOUS
  <1>1. Types
    BY EntryFacts, ResultFacts, SameCell, Zenon DEF Init, Store!Init, Types, PCs
  <1>2. \A c \in Clients : CallOK(c)
    BY ResultFacts, Zenon DEF Init, Store!Init, CallOK
  <1> QED
    BY <1>1, <1>2, Zenon DEF RepoInv

\* Every step of the repository.
LEMMA RepoStep == RepoInv /\ [Next]_vars => RepoInv'
  <1>1. RepoInv /\ UNCHANGED vars => RepoInv'
    <2> SUFFICES ASSUME RepoInv, UNCHANGED vars PROVE RepoInv'
      OBVIOUS
    <2>1. UNCHANGED <<entry, call, seen, result, pc, lock, ins>>
      BY Zenon DEF vars
    <2>2. Types'
      BY <2>1, Zenon DEF RepoInv, Types
    <2>3. ASSUME NEW c \in Clients PROVE CallOK(c)'
      BY <2>1, Zenon DEF RepoInv, CallOK, Holds
    <2> QED
      BY <2>2, <2>3, Zenon DEF RepoInv
  <1>2. RepoInv /\ Next => RepoInv'
    BY InvokeKeeps, AnswerKeeps, StatementKeeps, CommitKeeps, DeleteRowKeeps, DropKeeps, Zenon
    DEF Next, Work
  <1> QED
    BY <1>1, <1>2, Zenon

-----------------------------------------------------------------------------
(* The refinement.                                                         *)

\* A step of the repository is a step of the store, or changes nothing there.
LEMMA StoreStep == RepoInv /\ [Next]_vars => [Store!Next]_(Store!vars)
  <1> SUFFICES ASSUME RepoInv, Next PROVE [Store!Next]_(Store!vars)
    BY Zenon DEF vars, Store!vars
  <1>1. ASSUME NEW c \in Clients, NEW o \in Store!Calls, Invoke(c, o) PROVE Store!Next
    BY <1>1, Zenon DEF Invoke, Store!Next
  <1>2. ASSUME NEW c \in Clients, Return(c) PROVE Store!Next
    BY <1>2, Zenon DEF Return, Store!Next
  <1>3. CASE DeleteByDeployment
    BY <1>3, SameCell, Zenon DEF DeleteByDeployment, Store!DropAll, Store!Next
  <1>4. ASSUME NEW c \in Clients, Work(c) \/ Abort(c) PROVE [Store!Next]_(Store!vars)
    <2> DEFINE k == call[c].key
    <2>0. pc[c] \notin {"idle", "done"} /\ (pc[c] = "commit" => call[c].op = "set" /\ Holds(c))
      BY <1>4, Zenon
      DEF Work, Get, LockRow, NoRow, Insert, Commit, DeleteRow, DeleteMisses, Recheck, WaitForRow,
          Abort, RepoInv, CallOK
    <2>1. /\ Types /\ CallOK(c) /\ call[c] # Store!NoCall /\ entry[k] \in Entries /\ entry[k] \in seen[c]
          /\ result[c].status = "open"
      BY <2>0, Calling, Zenon DEF RepoInv
    <2>2. ASSUME UNCHANGED storeVars PROVE UNCHANGED Store!vars
      BY <2>2, Zenon DEF storeVars, Store!vars
    <2>3. CASE Get(c)
      BY <2>1, <2>3, Zenon DEF Get, Finish, Store!GetDone, Store!Pending, Store!Next
    <2>4. CASE WaitForRow(c)
      BY <2>2, <2>4, Zenon DEF WaitForRow
    <2>5. CASE Finish(c, Store!Conflict) /\ (LockRow(c) \/ NoRow(c) \/ Insert(c))
      <3>1. call[c].op = "set"
        BY <2>1, <2>5, Zenon DEF LockRow, NoRow, Insert, CallOK
      <3>2. \E e \in seen[c] : ~Matches(e, call[c].expected)
        BY <2>1, <2>5, EntryFacts, Zenon
        DEF LockRow, NoRow, Insert, CallOK, Matches, Finish, To, Types
      <3> QED
        BY <2>1, <2>5, <3>1, <3>2, SameCell, Zenon
        DEF Finish, Store!SetConflict, Store!Pending, Store!Next
    <2>6. CASE ~Finish(c, Store!Conflict) /\ (LockRow(c) \/ NoRow(c) \/ Insert(c))
      BY <2>2, <2>6, Zenon DEF LockRow, NoRow, Insert
    <2>7. CASE Commit(c)
      <3>1. Matches(entry[k], call[c].expected) /\ call[c].op = "set"
        BY <2>0, <2>7, EntryFacts, Zenon DEF Commit, Holds, Matches
      <3> QED
        BY <2>1, <2>7, <3>1, SameCell, Zenon DEF Commit, Store!SetDone, Store!Pending, Store!Next
    <2>8. CASE DeleteRow(c)
      BY <2>1, <2>8, SameCell, Zenon DEF DeleteRow, Store!DeleteDone, Store!Pending, Store!Next
    <2>9. CASE DeleteMisses(c)
      <3>1. CASE Finish(c, Store!Ok(Absent))
        <4>1. call[c].op = "delete" /\ Absent \in seen[c]
          BY <2>1, <2>9, <3>1, EntryFacts, Zenon
          DEF DeleteMisses, DeleteAllowed, CallOK, Finish, To, Types
        <4> QED
          BY <2>1, <3>1, <4>1, SameCell, Zenon
          DEF Finish, Store!DeleteNothing, Store!Pending, Store!Next
      <3>2. CASE ~Finish(c, Store!Ok(Absent))
        BY <2>2, <2>9, <3>2, Zenon DEF DeleteMisses
      <3> QED
        BY <3>1, <3>2, Zenon
    <2>10. CASE Recheck(c)
      <3>1. /\ call[c].op = "delete" /\ call[c].expected # 0
            /\ Absent \in seen[c] \/ \E e \in seen[c] : e.version \notin {0, call[c].expected}
        BY <2>1, <2>10, Zenon DEF Recheck, CallOK
      <3>2. CASE entry[k] = Absent
        BY <2>1, <2>10, <3>1, <3>2, SameCell, Zenon
        DEF Recheck, Finish, Store!DeleteNothing, Store!Pending, Store!Next
      <3>3. CASE entry[k] # Absent
        <4>1. entry[k].version # 0 /\ Absent.version = 0
          BY <2>1, <3>3, EntryFacts, Zenon
        <4>2. \/ \E e \in seen[c] : e.version \notin {0, call[c].expected}
              \/ \E e, f \in seen[c] : e.version = 0 /\ f.version # 0
          BY <2>1, <3>1, <4>1, Zenon
        <4> QED
          BY <2>1, <2>10, <3>1, <3>3, <4>2, Zenon
          DEF Recheck, Finish, Store!DeleteConflict, Store!Pending, Store!Next
      <3> QED
        BY <3>2, <3>3, Zenon
    <2>11. CASE Abort(c)
      BY <2>1, <2>11, Zenon DEF Abort, Finish, Store!Failed, Store!Next
    <2> QED
      BY <1>4, <2>3, <2>4, <2>5, <2>6, <2>7, <2>8, <2>9, <2>10, <2>11, Zenon DEF Work
  <1> QED
    BY <1>1, <1>2, <1>3, <1>4, Zenon DEF Next

\* The orchestrator's transactions at READ COMMITTED, with lost commits, aborted
\* requests and an undeploy that drops the table's rows under them, keep the
\* promises of core.KV for any clients, keys, values and versions: every Get, Set
\* and Delete has an answer that some instant of the call justifies, and a Set
\* takes effect only on the version its caller expects.
THEOREM RepoImplementsStore == Spec => ImplementsStore
  <1>1. Init => Store!Init
    BY Zenon DEF Init
  <1> QED
    BY <1>1, RepoInit, RepoStep, StoreStep, PTL DEF Spec, ImplementsStore, Store!Spec

=============================================================================
