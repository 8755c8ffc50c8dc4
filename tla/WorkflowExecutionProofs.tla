---------------------- MODULE WorkflowExecutionProofs ----------------------
(* Theorems about the executor for every graph, policy and worklist: stage   *)
(* events are bracketed, the lists of a worklist agree with its items, what  *)
(* is settled stays settled, nothing is handed out twice, and what an item   *)
(* depends on is completed on disk before its worker starts.                 *)
EXTENDS WorkflowExecution, FiniteSetTheorems, WellFoundedInduction, TLAPS

(* What outside sees when stage s is the active one, or none is.             *)
Sees(s) == [t \in Stages |-> IF t = s THEN 1 ELSE 0]

StageTypes ==
  /\ node \in Nodes
  /\ stage \in Stages \cup {None}

(* StagesBalanced alone is not inductive: a call starts with no stage only   *)
(* because the last one left none, and a call that threw is no longer on.    *)
StageInv ==
  /\ StageTypes
  /\ pc = "idle" => stage = None
  /\ result = "error" => pc = "idle"
  /\ StagesBalanced

(* A node's stage is None or one of the stages.                              *)
LEMMA StageOfNode == ASSUME NEW n \in Nodes PROVE Stage[n] \in Stages \cup {None}
  BY DEF Stages

(* Completing the active stage leaves none open; starting one then opens it. *)
LEMMA Bracket ==
  ASSUME NEW s \in Stages \cup {None}, NEW t \in Stages \cup {None}
  PROVE  /\ Completed(Sees(s), s) = Sees(None)
         /\ Started(Sees(None), t) = Sees(t)
  <1>0. None \notin Stages
    BY DEF Stages
  <1>1. Completed(Sees(s), s) = Sees(None)
    BY <1>0 DEF Completed, Sees
  <1>2. Started(Sees(None), t) = Sees(t)
    BY <1>0 DEF Started, Sees
  <1> QED BY <1>1, <1>2

(* A step that touches no stage, and neither begins nor ends a call.         *)
LEMMA StageStutter ==
  ASSUME StageInv, UNCHANGED <<node, stage, published, result>>,
         pc # "idle", pc' # "idle"
  PROVE  StageInv'
  BY DEF StageInv, StageTypes, StagesBalanced, Stages

(* A call that returns, and one that throws.                                 *)
LEMMA StageReturn ==
  ASSUME StageInv, pc # "idle", NEW status, Return(status)
  PROVE  StageInv'
  <1>1. published = Sees(stage)
    BY DEF StageInv, StagesBalanced, Sees
  <1>2. published' = Sees(None) /\ stage' = None /\ node' = node /\ pc' = "idle"
    BY <1>1, Bracket DEF Return, StageInv, StageTypes
  <1> QED BY <1>2 DEF StageInv, StageTypes, StagesBalanced, Sees, Stages

LEMMA StageThrow ==
  ASSUME StageInv, Throw
  PROVE  StageInv'
  BY DEF StageInv, StageTypes, StagesBalanced, Throw, Stages

LEMMA StageCall == ASSUME StageInv, Call PROVE StageInv'
  <1>1. published' = Sees(stage') /\ stage' = None /\ node' = Entry /\ pc' = "node"
        /\ result' = None
    <2>1. None \notin Stages
      BY DEF Stages
    <2> QED BY <2>1 DEF Call, Sees
  <1> QED BY <1>1, GraphAssumption DEF StageInv, StageTypes, StagesBalanced, Sees, Stages, None

LEMMA StageEnter == ASSUME StageInv, EnterNode PROVE StageInv'
  <1>1. published = Sees(stage) /\ pc = "node" /\ result # "error"
    BY DEF StageInv, StagesBalanced, Sees, EnterNode
  <1>2. published' = Sees(stage') /\ stage' \in Stages \cup {None}
    <2>1. CASE Stage[node] \in {None, stage}
      BY <2>1, <1>1 DEF EnterNode, VisitNode, StageInv, StageTypes
    <2>2. CASE Stage[node] \notin {None, stage}
      <3>1. Stage[node] \in Stages \cup {None} /\ stage \in Stages \cup {None}
        BY StageOfNode DEF StageInv, StageTypes
      <3>2. Started(Completed(Sees(stage), stage), Stage[node]) = Sees(Stage[node])
        BY <3>1, Bracket
      <3> QED BY <3>1, <3>2, <2>2, <1>1 DEF EnterNode, VisitNode
    <2> QED BY <2>1, <2>2
  <1>3. node' = node /\ result' = result /\ pc' # "idle"
    BY DEF EnterNode, VisitNode
  <1> QED BY <1>1, <1>2, <1>3 DEF StageInv, StageTypes, StagesBalanced, Sees, Stages

(* Moving on, the walk goes to a node of the graph.                          *)
LEMMA NextIsNode ==
  ASSUME NEW n, NEW o, NEW status, EndStatus(n, o, status) = None
  PROVE  resolveNextWorkflowNodeId(n, o) \in Nodes
  <1>1. DeadEndStatus(status) # None
    BY PolicyAssumption DEF DeadEndStatus, None
  <1> QED BY <1>1 DEF EndStatus, None

LEMMA StageLeave == ASSUME StageInv, LeaveNode PROVE StageInv'
  <1>0. pc = "leave"
    BY DEF LeaveNode
  <1>1. CASE EndStatus(node, outcome, last) # None
    <2>1. Return(EndStatus(node, outcome, last))
      BY <1>1 DEF LeaveNode
    <2> QED BY <2>1, <1>0, StageReturn
  <1>2. CASE EndStatus(node, outcome, last) = None
    <2> DEFINE next == resolveNextWorkflowNodeId(node, outcome)
    <2>1. node' = next /\ LeaveStage(next) /\ pc' = "node" /\ result' = result
      BY <1>2 DEF LeaveNode
    <2>2. next \in Nodes
      BY <1>2, NextIsNode
    <2> HIDE DEF next
    <2>3. published = Sees(stage) /\ result # "error"
      BY <1>0 DEF StageInv, StagesBalanced, Sees
    <2>4. published' = Sees(stage') /\ stage' \in Stages \cup {None}
      BY <2>1, <2>3, Bracket DEF LeaveStage, StageInv, StageTypes
    <2> QED BY <2>1, <2>2, <2>3, <2>4 DEF StageInv, StageTypes, StagesBalanced, Sees, Stages
  <1> QED BY <1>1, <1>2

(* The steps of the worklist node leave the stages alone, or throw.          *)
LEMMA StageWorklist ==
  ASSUME StageInv, Load \/ PlanEnds \/ StartItem \/ WorkerEnds \/ BatchEnds \/ ReplanEnds
  PROVE  StageInv'
  <1>1. CASE Load
    <2>1. CASE Throw
      BY <2>1, StageThrow
    <2>2. CASE ~Throw
      BY <1>1, <2>2, StageStutter DEF Load, Loaded, walk
    <2> QED BY <2>1, <2>2
  <1>2. CASE PlanEnds
    <2>1. CASE Throw
      BY <2>1, StageThrow
    <2>2. CASE ~Throw
      BY <1>2, <2>2, StageStutter DEF PlanEnds, Loaded, walk
    <2> QED BY <2>1, <2>2
  <1>3. CASE StartItem
    BY <1>3, StageStutter DEF StartItem, walk
  <1>4. CASE WorkerEnds
    BY <1>4, StageStutter DEF WorkerEnds, LeaveList
  <1>5. CASE BatchEnds
    BY <1>5, StageStutter DEF BatchEnds, LeaveList
  <1>6. CASE ReplanEnds
    <2>1. CASE Throw
      BY <2>1, StageThrow
    <2>2. CASE ~Throw
      BY <1>6, <2>2, StageStutter DEF ReplanEnds, LeaveList
    <2> QED BY <2>1, <2>2
  <1> QED BY <1>1, <1>2, <1>3, <1>4, <1>5, <1>6

LEMMA StageInit == Init => StageInv
  BY GraphAssumption DEF Init, StageInv, StageTypes, StagesBalanced, Stages, None

LEMMA StageStep == ASSUME StageInv, [Next]_vars PROVE StageInv'
  <1>1. CASE Call
    BY <1>1, StageCall
  <1>2. CASE Exhausted
    BY <1>2, StageReturn DEF Exhausted
  <1>3. CASE EnterNode
    BY <1>3, StageEnter
  <1>4. CASE AgentEnds
    BY <1>4, StageStutter DEF AgentEnds
  <1>5. CASE LeaveNode
    BY <1>5, StageLeave
  <1>6. CASE Load \/ PlanEnds \/ StartItem \/ WorkerEnds \/ BatchEnds \/ ReplanEnds
    BY <1>6, StageWorklist
  <1>7. CASE PlannerWrites
    BY <1>7, StageStutter DEF PlannerWrites, walk
  <1>8. CASE Abort \/ AbortInWrite
    BY <1>8, StageThrow DEF Abort, AbortInWrite
  <1>9. CASE UNCHANGED vars
    BY <1>9 DEF vars, walk, StageInv, StageTypes, StagesBalanced, Stages
  <1> QED BY <1>1, <1>2, <1>3, <1>4, <1>5, <1>6, <1>7, <1>8, <1>9 DEF Next, Execute

(* The brackets of the stage hooks hold after every step of every call:      *)
(* executeWorkflow starts a stage once, completes it once, and leaves one    *)
(* open only when it throws.                                                 *)
THEOREM StagesCorrect == Spec => []StagesBalanced
  <1>1. StageInv /\ [Next]_vars => StageInv'
    BY StageStep
  <1>2. StageInv => StagesBalanced
    BY DEF StageInv
  <1> QED BY StageInit, <1>1, <1>2, PTL DEF Spec

-----------------------------------------------------------------------------
(* The worklist.                                                             *)

ItemState == [status : Statuses, attempts : Nat]

IsList(w) ==
  /\ w = [items |-> w.items, completed |-> w.completed, failed |-> w.failed]
  /\ DOMAIN w.items \subseteq Items
  /\ w.items \in [DOMAIN w.items -> ItemState]

Matches(w, d) ==
  /\ Ids(d) \subseteq DOMAIN w.items
  /\ w.completed = HasStatus(w, d, {"completed"})
  /\ w.failed = HasStatus(w, d, Bad)

(* The invariant adds to ListsMatchItems the types its steps rest on, and    *)
(* that the item a worker has is one of the document and is running.         *)
ListInv ==
  /\ IsList(wl)
  /\ doc \in Seq(Item) /\ file.items \in Seq(Item)
  /\ ListsMatchItems
  /\ pc = "worker" => item \in Ids(doc) /\ wl.items[item].status = "running"

(* Every item a worklist knows keeps its status.                             *)
Keeps(w, v) ==
  \A i \in DOMAIN w.items : i \in DOMAIN v.items /\ v.items[i].status = w.items[i].status

(* An item is the one the document names.                                    *)
LEMMA Found ==
  ASSUME NEW d \in Seq(Item), NEW i \in Ids(d)
  PROVE  InDocument(d, i) \in Item /\ InDocument(d, i).id = i
         /\ \E k \in DOMAIN d : d[k] = InDocument(d, i)
  <1> DEFINE k == CHOOSE j \in DOMAIN d : d[j].id = i
  <1>1. k \in DOMAIN d /\ d[k].id = i
    BY DEF Ids
  <1>2. InDocument(d, i) = d[k]
    BY DEF InDocument
  <1> HIDE DEF k
  <1>3. d[k] \in Item
    BY <1>1
  <1> QED BY <1>1, <1>2, <1>3

LEMMA IdsAreItems == ASSUME NEW d \in Seq(Item) PROVE Ids(d) \subseteq Items
  <1>1. \A k \in DOMAIN d : d[k] \in Item
    OBVIOUS
  <1> QED BY <1>1 DEF Ids, Item

(* Synchronisation makes the lists match the document, keeps what was known, *)
(* and takes the rest from the document.                                     *)
LEMMA Synchronized ==
  ASSUME NEW w, IsList(w), NEW d \in Seq(Item)
  PROVE  /\ IsList(synchronizeRuntimeWorklist(w, d))
         /\ Matches(synchronizeRuntimeWorklist(w, d), d)
         /\ Keeps(w, synchronizeRuntimeWorklist(w, d))
         /\ \A i \in DOMAIN synchronizeRuntimeWorklist(w, d).items \ DOMAIN w.items :
              \E k \in DOMAIN d :
                d[k].id = i /\ d[k].status = synchronizeRuntimeWorklist(w, d).items[i].status
  <1> DEFINE v == synchronizeRuntimeWorklist(w, d)
  <1>1. /\ v.items = ItemsAfter(w, d) /\ v.completed = IdsAfter(w, d, {"completed"})
        /\ v.failed = IdsAfter(w, d, Bad)
        /\ v = [items |-> v.items, completed |-> v.completed, failed |-> v.failed]
    BY DEF synchronizeRuntimeWorklist
  <1>2. DOMAIN v.items = DOMAIN w.items \cup Ids(d)
    BY <1>1 DEF ItemsAfter
  <1>3. ASSUME NEW i \in Ids(d)
        PROVE  /\ v.items[i].status = StatusAfter(w, d, i)
               /\ v.items[i] \in ItemState
    <2>1. v.items[i] = [status |-> StatusAfter(w, d, i), attempts |-> AttemptsAfter(w, d, i)]
      BY <1>1, <1>3 DEF ItemsAfter
    <2>2. InDocument(d, i).status \in Statuses /\ InDocument(d, i).attempts \in Nat
      BY <1>3, Found DEF Item
    <2>3. i \in DOMAIN w.items => w.items[i].status \in Statuses /\ w.items[i].attempts \in Nat
      BY DEF IsList, ItemState
    <2>4. StatusAfter(w, d, i) \in Statuses /\ AttemptsAfter(w, d, i) \in Nat
      BY <2>2, <2>3 DEF StatusAfter, AttemptsAfter
    <2> QED BY <2>1, <2>4 DEF ItemState
  <1>4. ASSUME NEW i \in DOMAIN w.items \ Ids(d) PROVE v.items[i] = w.items[i]
    BY <1>1, <1>4 DEF ItemsAfter
  <1> HIDE DEF v
  <1>5. IsList(v)
    <2>1. \A i \in DOMAIN v.items : v.items[i] \in ItemState
      BY <1>2, <1>3, <1>4 DEF IsList
    <2>2. v.items = [i \in DOMAIN v.items |-> v.items[i]]
      BY <1>1 DEF ItemsAfter
    <2>3. DOMAIN v.items \subseteq Items
      BY <1>2, IdsAreItems DEF IsList
    <2>4. v.items \in [DOMAIN v.items -> ItemState]
      BY <2>1, <2>2
    <2> QED BY <1>1, <2>3, <2>4 DEF IsList
  <1>6. Matches(v, d)
    BY <1>1, <1>2, <1>3 DEF Matches, HasStatus, IdsAfter
  <1>7. Keeps(w, v)
    BY <1>2, <1>3, <1>4 DEF Keeps, StatusAfter
  <1>8. \A i \in DOMAIN v.items \ DOMAIN w.items :
          \E k \in DOMAIN d : d[k].id = i /\ d[k].status = v.items[i].status
    <2> SUFFICES ASSUME NEW i \in DOMAIN v.items \ DOMAIN w.items
                 PROVE  \E k \in DOMAIN d : d[k].id = i /\ d[k].status = v.items[i].status
      OBVIOUS
    <2>1. i \in Ids(d) /\ v.items[i].status = InDocument(d, i).status
      BY <1>2, <1>3 DEF StatusAfter
    <2> QED BY <2>1, Found
  <1> QED BY <1>5, <1>6, <1>7, <1>8 DEF v

(* An update of the document keeps its items.                                *)
LEMMA UpdateKeepsIds ==
  ASSUME NEW d \in Seq(Item), NEW w, IsList(w), NEW i \in DOMAIN w.items
  PROVE  /\ updateDocumentItemStatus(d, w, i) \in Seq(Item)
         /\ Ids(updateDocumentItemStatus(d, w, i)) = Ids(d)
  <1> DEFINE e == updateDocumentItemStatus(d, w, i)
             new == [id |-> i, status |-> w.items[i].status, attempts |-> w.items[i].attempts]
  <1>1. e = [k \in DOMAIN d |-> IF d[k].id = i THEN new ELSE d[k]]
    BY DEF updateDocumentItemStatus, Updated
  <1>2. new \in Item
    BY DEF IsList, ItemState, Item
  <1> HIDE DEF new
  <1>3. e \in Seq(Item)
    <2>1. DOMAIN d = 1..Len(d) /\ Len(d) \in Nat /\ \A k \in 1..Len(d) : d[k] \in Item
      OBVIOUS
    <2>2. e \in [1..Len(d) -> Item]
      BY <1>1, <1>2, <2>1
    <2> QED BY <2>1, <2>2
  <1>4. new.id = i
    BY DEF new
  <1>5. DOMAIN e = DOMAIN d /\ \A k \in DOMAIN d : e[k].id = d[k].id
    BY <1>1, <1>4
  <1> HIDE DEF e
  <1>6. Ids(e) = Ids(d)
    BY <1>5 DEF Ids
  <1> QED BY <1>3, <1>6 DEF e

(* Marking an item changes its status and no other.                          *)
LEMMA Marked ==
  ASSUME NEW w, IsList(w), NEW d, Matches(w, d), NEW i \in Ids(d)
  PROVE  /\ w.items[i].status = "pending" =>
              LET v == markWorkItemRunning(w, i)
              IN  /\ IsList(v) /\ Matches(v, d) /\ v.items[i].status = "running"
                  /\ DOMAIN v.items = DOMAIN w.items
                  /\ \A j \in DOMAIN w.items \ {i} : v.items[j] = w.items[j]
         /\ \A status \in DispatchStatuses :
              LET v == markWorkItemFromDispatch(w, i, status)
              IN  /\ IsList(v) /\ Matches(v, d)
                  /\ v.items[i].status = FinalStatus(w, i, status)
                  /\ DOMAIN v.items = DOMAIN w.items
                  /\ \A j \in DOMAIN w.items \ {i} : v.items[j] = w.items[j]
  <1>0. i \in DOMAIN w.items /\ i \in Items /\ w.items[i] \in ItemState
        /\ Ids(d) \subseteq DOMAIN w.items
    BY DEF Matches, IsList
  <1>1. ASSUME w.items[i].status = "pending"
        PROVE  LET v == markWorkItemRunning(w, i)
               IN  /\ IsList(v) /\ Matches(v, d) /\ v.items[i].status = "running"
                   /\ DOMAIN v.items = DOMAIN w.items
                   /\ \A j \in DOMAIN w.items \ {i} : v.items[j] = w.items[j]
    <2> DEFINE v == markWorkItemRunning(w, i)
               new == [status |-> "running", attempts |-> w.items[i].attempts + 1]
    <2>1. new \in ItemState
      BY <1>0 DEF ItemState, Statuses
    <2>2. /\ v.items = [w.items EXCEPT ![i] = new]
          /\ v.completed = w.completed /\ v.failed = w.failed
          /\ v = [items |-> v.items, completed |-> v.completed, failed |-> v.failed]
      BY DEF markWorkItemRunning, IsList
    <2>3. new.status = "running"
      OBVIOUS
    <2> HIDE DEF new, v
    <2>4. /\ DOMAIN v.items = DOMAIN w.items /\ v.items[i] = new
          /\ \A j \in DOMAIN w.items \ {i} : v.items[j] = w.items[j]
          /\ v.items \in [DOMAIN w.items -> ItemState]
      BY <1>0, <2>1, <2>2 DEF IsList
    <2>5. IsList(v)
      BY <2>2, <2>4 DEF IsList
    <2>6. Matches(v, d)
      BY <1>0, <1>1, <2>2, <2>3, <2>4 DEF Matches, HasStatus, Bad
    <2> QED BY <2>3, <2>4, <2>5, <2>6 DEF v
  <1>2. ASSUME NEW status \in DispatchStatuses
        PROVE  LET v == markWorkItemFromDispatch(w, i, status)
               IN  /\ IsList(v) /\ Matches(v, d)
                   /\ v.items[i].status = FinalStatus(w, i, status)
                   /\ DOMAIN v.items = DOMAIN w.items
                   /\ \A j \in DOMAIN w.items \ {i} : v.items[j] = w.items[j]
    <2> DEFINE v == markWorkItemFromDispatch(w, i, status)
               final == FinalStatus(w, i, status)
    <2>1. final \in Bad \cup {"completed"}
      BY DEF FinalStatus, Bad
    <2>2. /\ v.items = [w.items EXCEPT ![i].status = final]
          /\ v.completed = IF final = "completed" THEN w.completed \cup {i} ELSE w.completed \ {i}
          /\ v.failed = IF final = "completed" THEN w.failed \ {i} ELSE w.failed \cup {i}
          /\ v = [items |-> v.items, completed |-> v.completed, failed |-> v.failed]
      BY DEF markWorkItemFromDispatch
    <2> HIDE DEF final, v
    <2>3. /\ DOMAIN v.items = DOMAIN w.items /\ v.items[i].status = final
          /\ \A j \in DOMAIN w.items \ {i} : v.items[j] = w.items[j]
          /\ v.items \in [DOMAIN w.items -> ItemState]
      BY <1>0, <2>1, <2>2 DEF IsList, ItemState, Statuses, Bad
    <2>4. IsList(v)
      BY <2>2, <2>3 DEF IsList
    <2>5. Matches(v, d)
      BY <1>0, <2>1, <2>2, <2>3 DEF Matches, HasStatus, Bad
    <2> QED BY <2>3, <2>4, <2>5 DEF v, final
  <1> QED BY <1>1, <1>2

(* Reading the document that is on disk: a batch starts, or a replan ends.   *)
LEMMA ListRead ==
  ASSUME ListInv, doc' = file.items, wl' = synchronizeRuntimeWorklist(wl, file.items),
         UNCHANGED file, pc' # "worker"
  PROVE  ListInv' /\ Keeps(wl, wl')
  <1>1. IsList(wl') /\ Matches(wl', doc') /\ Keeps(wl, wl')
    BY Synchronized DEF ListInv
  <1> QED BY <1>1 DEF ListInv, ListsMatchItems, Matches

(* A step that leaves the worklist and the files alone.                      *)
LEMMA ListStutter ==
  ASSUME ListInv, UNCHANGED <<wl, doc, file>>, pc' # "worker",
         pc' \in {"items", "replan"} => pc = "items"
  PROVE  ListInv' /\ Keeps(wl, wl')
  BY DEF ListInv, ListsMatchItems, Keeps

(* A step that leaves the node, or the call, and forgets its worklist.       *)
LEMMA ListForgotten ==
  ASSUME ListInv, ForgetList, file'.items \in Seq(Item),
         pc' \notin {"items", "worker", "replan"}
  PROVE  ListInv'
  BY DEF ListInv, ListsMatchItems, ForgetList, NewWorklist, IsList

(* Between v and w only item i changed, which the document names.            *)
OnlyItem(w, v, i) ==
  /\ i \in DOMAIN w.items /\ DOMAIN v.items = DOMAIN w.items
  /\ \A j \in DOMAIN w.items \ {i} : v.items[j] = w.items[j]

LEMMA ListStart ==
  ASSUME ListInv, StartItem
  PROVE  /\ ListInv' /\ OnlyItem(wl, wl', item') /\ wl.items[item'].status = "pending"
         /\ \E k \in DOMAIN doc : doc[k].id = item'
  <1>1. PICK k \in ReadyItems(wl, doc) : item' = doc[k].id
    BY DEF StartItem
  <1>2. k \in DOMAIN doc /\ item' \in Ids(doc) /\ wl.items[item'].status = "pending"
    BY <1>1 DEF ReadyItems, Ids
  <1>3. IsList(wl) /\ Matches(wl, doc) /\ doc \in Seq(Item)
    BY DEF ListInv, ListsMatchItems, Matches, StartItem
  <1>4. wl' = markWorkItemRunning(wl, item') /\ doc' = updateDocumentItemStatus(doc, wl', item')
        /\ file'.items = doc' /\ pc' = "worker"
    BY DEF StartItem
  <1>5. /\ IsList(wl') /\ Matches(wl', doc) /\ wl'.items[item'].status = "running"
        /\ OnlyItem(wl, wl', item')
    BY <1>2, <1>3, <1>4, Marked DEF OnlyItem, Matches
  <1>6. doc' \in Seq(Item) /\ Ids(doc') = Ids(doc)
    BY <1>3, <1>4, <1>5, UpdateKeepsIds DEF OnlyItem
  <1>7. Matches(wl', doc')
    BY <1>5, <1>6 DEF Matches, HasStatus
  <1> QED BY <1>1, <1>2, <1>4, <1>5, <1>6, <1>7 DEF ListInv, ListsMatchItems, Matches

LEMMA ListFinish ==
  ASSUME ListInv, WorkerEnds
  PROVE  /\ ListInv' /\ OnlyItem(wl, wl', item) /\ wl.items[item].status = "running"
         /\ item \in claimed' => wl'.items[item].status = "completed"
  <1>1. PICK status \in DispatchStatuses :
          /\ wl' = markWorkItemFromDispatch(wl, item, status)
          /\ claimed' = IF status = "completed" THEN claimed ELSE claimed \ {item}
    BY DEF WorkerEnds
  <1>2. /\ IsList(wl) /\ Matches(wl, doc) /\ doc \in Seq(Item)
        /\ item \in Ids(doc) /\ wl.items[item].status = "running"
    BY DEF ListInv, ListsMatchItems, Matches, WorkerEnds
  <1>3. doc' = updateDocumentItemStatus(doc, wl', item) /\ file'.items = doc'
        /\ pc' \in {"leave", "items"}
    BY DEF WorkerEnds, LeaveList
  <1>4. /\ IsList(wl') /\ Matches(wl', doc) /\ OnlyItem(wl, wl', item)
        /\ wl'.items[item].status = FinalStatus(wl, item, status)
    BY <1>1, <1>2, Marked DEF OnlyItem, Matches
  <1>5. doc' \in Seq(Item) /\ Ids(doc') = Ids(doc)
    BY <1>2, <1>3, <1>4, UpdateKeepsIds DEF OnlyItem
  <1>6. Matches(wl', doc')
    BY <1>4, <1>5 DEF Matches, HasStatus
  <1>7. item \in claimed' => wl'.items[item].status = "completed"
    BY <1>1, <1>4 DEF FinalStatus
  <1> QED BY <1>2, <1>3, <1>4, <1>5, <1>6, <1>7 DEF ListInv, ListsMatchItems, Matches

(* Whatever the planner writes is a document.                                *)
LEMMA PlansAreDocuments ==
  ASSUME NEW d \in Seq(Item), NEW e \in Plans(d)
  PROVE  e \in Seq(Item)
  <1>1. ASSUME NEW i \in Items PROVE NewItem(i) \in Item
    BY DEF NewItem, Item, Statuses
  <1>2. CASE \E i \in Items : e = Append(d, NewItem(i))
    BY <1>1, <1>2
  <1>3. CASE \E i \in Items : e = <<NewItem(i)>>
    BY <1>1, <1>3
  <1>4. CASE \E k \in DOMAIN d : e = [d EXCEPT ![k].status = "pending"]
    <2>1. PICK k \in DOMAIN d : e = [d EXCEPT ![k].status = "pending"]
      BY <1>4
    <2> DEFINE new == [d[k] EXCEPT !.status = "pending"]
    <2>2. new \in Item
      <3>1. d[k] \in Item
        OBVIOUS
      <3>2. new = [id |-> d[k].id, status |-> "pending", attempts |-> d[k].attempts]
        BY <3>1 DEF Item
      <3> QED BY <3>1, <3>2 DEF Item, Statuses
    <2>3. e = [d EXCEPT ![k] = new]
      BY <2>1
    <2> HIDE DEF new
    <2> QED BY <2>2, <2>3
  <1> QED BY <1>2, <1>3, <1>4 DEF Plans

(* Every item that is settled keeps its status.                              *)
Settles(w, v) ==
  \A i \in DOMAIN w.items :
    w.items[i].status \in Bad \cup {"completed"} =>
      i \in DOMAIN v.items /\ v.items[i].status = w.items[i].status

LEMMA ListStep ==
  ASSUME ListInv, [Next]_vars
  PROVE  ListInv' /\ (pc' \notin {"idle", "node"} => Settles(wl, wl'))
  <1> USE DEF Settles, Keeps
  <1>1. CASE Call
    BY <1>1, ListStutter DEF Call, list
  <1>2. CASE Exhausted
    BY <1>2, ListStutter DEF Exhausted, Return, list
  <1>3. CASE EnterNode
    BY <1>3, ListStutter DEF EnterNode, VisitNode, list
  <1>4. CASE AgentEnds
    BY <1>4, ListStutter DEF AgentEnds, list
  <1>5. CASE LeaveNode
    <2>1. pc' \in {"idle", "node"}
      BY <1>5 DEF LeaveNode, Return
    <2> QED BY <1>5, <2>1, ListForgotten DEF LeaveNode, ListInv
  <1>6. CASE Throw /\ file' = file
    BY <1>6, ListForgotten DEF Throw, ListInv
  <1>7. CASE Load
    BY <1>6, <1>7, ListRead, ListStutter DEF Load, Loaded, list
  <1>8. CASE PlanEnds
    BY <1>6, <1>8, ListRead DEF PlanEnds, Loaded
  <1>9. CASE StartItem
    BY <1>9, ListStart DEF OnlyItem, Bad
  <1>10. CASE WorkerEnds
    BY <1>10, ListFinish DEF OnlyItem, Bad
  <1>11. CASE BatchEnds
    BY <1>11, ListStutter DEF BatchEnds, LeaveList, list
  <1>12. CASE ReplanEnds
    BY <1>6, <1>12, ListRead DEF ReplanEnds, LeaveList
  <1>13. CASE PlannerWrites
    <2>1. file'.items \in Seq(Item)
      <3>1. PICK e \in Plans(IF file.whole THEN file.items ELSE <<>>) :
              file' = [whole |-> TRUE, items |-> e]
        BY <1>13 DEF PlannerWrites
      <3>2. (IF file.whole THEN file.items ELSE <<>>) \in Seq(Item)
        BY DEF ListInv
      <3> QED BY <3>1, <3>2, PlansAreDocuments
    <2> QED BY <1>13, <2>1 DEF PlannerWrites, list, ListInv, ListsMatchItems
  <1>14. CASE Abort
    BY <1>6, <1>14 DEF Abort
  <1>15. CASE AbortInWrite
    BY <1>15, ListForgotten DEF AbortInWrite, Throw
  <1>16. CASE UNCHANGED vars
    BY <1>16 DEF vars, walk, list, ListInv, ListsMatchItems
  <1> QED BY <1>1, <1>2, <1>3, <1>4, <1>5, <1>7, <1>8, <1>9, <1>10, <1>11, <1>12, <1>13,
             <1>14, <1>15, <1>16 DEF Next, Execute

LEMMA ListInit == Init => ListInv
  BY DEF Init, ListInv, ListsMatchItems, NewWorklist, IsList

(* The lists by which executeWorklistNode chooses items and judges the node  *)
(* agree with the items, whatever agents do to the document.                 *)
THEOREM ListsCorrect == Spec => []ListsMatchItems
  <1>1. ListInv /\ [Next]_vars => ListInv'
    BY ListStep
  <1>2. ListInv => ListsMatchItems
    BY DEF ListInv
  <1> QED BY ListInit, <1>1, <1>2, PTL DEF Spec

(* No document brings a settled item back while its node runs.               *)
THEOREM SettledCorrect == Spec => SettledStays
  <1> DEFINE Step == \A i \in DOMAIN wl.items :
       wl.items[i].status \in Bad \cup {"completed"} /\ pc' \notin {"idle", "node"} =>
         i \in DOMAIN wl'.items /\ wl'.items[i].status = wl.items[i].status
  <1>1. ListInv /\ [Next]_vars => ListInv'
    BY ListStep
  <1>2. ListInv /\ [Next]_vars => [Step]_vars
    BY ListStep DEF Settles
  <1>3. Spec => [][Step]_vars
    BY ListInit, <1>1, <1>2, PTL DEF Spec
  <1> QED BY <1>3 DEF SettledStays

-----------------------------------------------------------------------------
(* Nothing is handed out twice.                                              *)

Taken == {"running", "completed"}

(* An item a worker may have done is running or completed wherever a later   *)
(* batch, visit or call can read its status: it is written before the worker *)
(* starts.                                                                   *)
SafeList(w, C) == \A i \in DOMAIN w.items : i \in C => w.items[i].status \in Taken
SafeDoc(d, C) == \A k \in DOMAIN d : d[k].id \in C => d[k].status \in Taken

ClaimInv == SafeList(wl, claimed) /\ SafeDoc(doc, claimed) /\ SafeDoc(file.items, claimed)

LEMMA ClaimUpdate ==
  ASSUME NEW d, NEW C, NEW w, NEW i, SafeDoc(d, C \ {i}), i \in C => w.items[i].status \in Taken
  PROVE  SafeDoc(updateDocumentItemStatus(d, w, i), C)
  BY DEF SafeDoc, updateDocumentItemStatus, Updated

LEMMA ClaimRead ==
  ASSUME ListInv, ClaimInv, doc' = file.items, wl' = synchronizeRuntimeWorklist(wl, file.items),
         UNCHANGED <<file, claimed>>
  PROVE  ClaimInv'
  <1>1. /\ Keeps(wl, wl')
        /\ \A i \in DOMAIN wl'.items \ DOMAIN wl.items :
             \E k \in DOMAIN file.items :
               file.items[k].id = i /\ file.items[k].status = wl'.items[i].status
    BY Synchronized DEF ListInv
  <1>2. SafeList(wl', claimed)
    BY <1>1 DEF ClaimInv, SafeList, SafeDoc, Keeps
  <1> QED BY <1>2 DEF ClaimInv

LEMMA ClaimForgotten ==
  ASSUME ClaimInv, ForgetList, UNCHANGED claimed, file' = file \/ file'.items = <<>>
  PROVE  ClaimInv'
  BY DEF ClaimInv, ForgetList, NewWorklist, SafeList, SafeDoc

(* A planner that reopens failed items only does not touch what is taken.    *)
LEMMA ClaimPlans ==
  ASSUME Reopens \subseteq Bad, NEW d \in Seq(Item), SafeDoc(d, claimed), NEW e \in Plans(d)
  PROVE  SafeDoc(e, claimed)
  <1>1. ASSUME NEW i \in Items \ (claimed \cup Ids(d)), e = Append(d, NewItem(i)) \/ e = <<NewItem(i)>>
        PROVE  SafeDoc(e, claimed)
    <2>1. NewItem(i).id = i
      BY DEF NewItem
    <2>2. \A k \in DOMAIN e : e[k] = NewItem(i) \/ (k \in DOMAIN d /\ e[k] = d[k])
      BY <1>1
    <2> QED BY <2>1, <2>2 DEF SafeDoc
  <1>2. ASSUME NEW k \in DOMAIN d, d[k].status \in Reopens, e = [d EXCEPT ![k].status = "pending"]
        PROVE  SafeDoc(e, claimed)
    <2> DEFINE new == [d[k] EXCEPT !.status = "pending"]
    <2>1. e = [d EXCEPT ![k] = new]
      BY <1>2
    <2>2. new.id = d[k].id
      <3>1. d[k] \in Item
        OBVIOUS
      <3> QED BY <3>1 DEF Item
    <2>3. d[k].id \notin claimed
      BY <1>2 DEF SafeDoc, Bad, Taken
    <2> HIDE DEF new
    <2>4. DOMAIN e = DOMAIN d /\ e[k] = new /\ \A j \in DOMAIN d \ {k} : e[j] = d[j]
      BY <2>1
    <2> QED BY <2>2, <2>3, <2>4 DEF SafeDoc
  <1> QED BY <1>1, <1>2 DEF Plans

LEMMA ClaimStep ==
  ASSUME Reopens \subseteq Bad, ListInv, ClaimInv, [Next]_vars
  PROVE  ClaimInv'
  <1>1. CASE UNCHANGED <<list, file, claimed>>
    BY <1>1 DEF list, ClaimInv
  <1>2. CASE ForgetList /\ claimed' = claimed /\ (file' = file \/ file'.items = <<>>)
    BY <1>2, ClaimForgotten
  <1>3. CASE Load
    BY <1>1, <1>2, <1>3, ClaimRead DEF Load, Loaded, Throw
  <1>4. CASE PlanEnds
    BY <1>2, <1>4, ClaimRead DEF PlanEnds, Loaded, Throw
  <1>5. CASE StartItem
    <2>1. OnlyItem(wl, wl', item') /\ wl'.items[item'].status = "running"
      BY <1>5, ListStart, ListStep DEF ListInv, StartItem
    <2>2. doc' = updateDocumentItemStatus(doc, wl', item') /\ file'.items = doc'
          /\ claimed' = claimed \cup {item'}
      BY <1>5 DEF StartItem
    <2>3. SafeList(wl', claimed')
      BY <2>1, <2>2 DEF ClaimInv, SafeList, OnlyItem, Taken
    <2>4. SafeDoc(doc, claimed' \ {item'})
      BY <2>2 DEF ClaimInv, SafeDoc
    <2>5. SafeDoc(doc', claimed')
      BY <2>1, <2>2, <2>4, ClaimUpdate DEF Taken
    <2> QED BY <2>2, <2>3, <2>5 DEF ClaimInv
  <1>6. CASE WorkerEnds
    <2>1. OnlyItem(wl, wl', item) /\ (item \in claimed' => wl'.items[item].status = "completed")
      BY <1>6, ListFinish
    <2>2. doc' = updateDocumentItemStatus(doc, wl', item) /\ file'.items = doc'
          /\ claimed' \subseteq claimed
      BY <1>6 DEF WorkerEnds
    <2>3. SafeList(wl', claimed')
      BY <2>1, <2>2 DEF ClaimInv, SafeList, OnlyItem, Taken
    <2>4. SafeDoc(doc, claimed' \ {item})
      BY <2>2 DEF ClaimInv, SafeDoc
    <2>5. SafeDoc(doc', claimed')
      BY <2>1, <2>2, <2>4, ClaimUpdate DEF Taken
    <2> QED BY <2>2, <2>3, <2>5 DEF ClaimInv
  <1>7. CASE ReplanEnds
    BY <1>2, <1>7, ClaimRead DEF ReplanEnds, Throw
  <1>8. CASE PlannerWrites
    <2> DEFINE d == IF file.whole THEN file.items ELSE <<>>
    <2>1. PICK e \in Plans(d) : file' = [whole |-> TRUE, items |-> e]
      BY <1>8 DEF PlannerWrites
    <2>2. d \in Seq(Item) /\ SafeDoc(d, claimed)
      BY DEF ListInv, ClaimInv, SafeDoc
    <2> HIDE DEF d
    <2>3. SafeDoc(file'.items, claimed)
      BY <2>1, <2>2, ClaimPlans
    <2> QED BY <1>8, <2>3 DEF PlannerWrites, list, ClaimInv
  <1>9. CASE Call \/ Exhausted \/ EnterNode \/ AgentEnds \/ BatchEnds \/ UNCHANGED vars
    BY <1>1, <1>9 DEF Call, Exhausted, EnterNode, VisitNode, AgentEnds, BatchEnds, vars
  <1>10. CASE LeaveNode \/ Abort \/ AbortInWrite
    BY <1>2, <1>10 DEF LeaveNode, Abort, AbortInWrite, Throw
  <1> QED BY <1>3, <1>4, <1>5, <1>6, <1>7, <1>8, <1>9, <1>10 DEF Next, Execute

(* executeWorklistNode hands an item out at most once, over all batches,     *)
(* visits, calls, rejected calls and crashes, provided agents reopen only    *)
(* items that failed.                                                        *)
THEOREM AtMostOnceCorrect ==
  ASSUME Reopens \subseteq Bad
  PROVE  Spec => AtMostOnce
  <1> DEFINE Step == pc = "items" /\ pc' = "worker" => item' \notin claimed
  <1>1. Init => ListInv /\ ClaimInv
    BY ListInit DEF Init, ClaimInv, SafeList, SafeDoc
  <1>2. ListInv /\ ClaimInv /\ [Next]_vars => (ListInv /\ ClaimInv)'
    BY ListStep, ClaimStep
  <1>3. ListInv /\ ClaimInv /\ [Next]_vars => [Step]_vars
    <2> SUFFICES ASSUME ListInv, ClaimInv, Next, pc = "items", pc' = "worker"
                 PROVE  item' \notin claimed
      OBVIOUS
    <2>1. StartItem
      BY DEF Next, Execute, Call, Exhausted, EnterNode, AgentEnds, LeaveNode, Load, PlanEnds,
             WorkerEnds, BatchEnds, ReplanEnds, PlannerWrites, Abort, AbortInWrite, Throw, LeaveList
    <2>2. item' \in DOMAIN wl.items /\ wl.items[item'].status = "pending"
      BY <2>1, ListStart DEF OnlyItem
    <2> QED BY <2>2 DEF ClaimInv, SafeList, Taken
  <1>4. Spec => [][Step]_vars
    BY <1>1, <1>2, <1>3, PTL DEF Spec
  <1> QED BY <1>4 DEF AtMostOnce

-----------------------------------------------------------------------------
(* What an item depends on is completed on disk before its worker starts.    *)

Distinct(d) == \A j, k \in DOMAIN d : d[j].id = d[k].id => j = k

(* What is completed was claimed, so that no planner recreates it.           *)
DoneClaimed(d) == \A k \in DOMAIN d : d[k].status = "completed" => d[k].id \in claimed

(* A document calls every item completed that the runtime knows to be.       *)
SaysDone(d, w) ==
  \A k \in DOMAIN d :
    d[k].id \in DOMAIN w.items /\ w.items[d[k].id].status = "completed" =>
      d[k].status = "completed"

GoodDoc(d) == Distinct(d) /\ DoneClaimed(d) /\ SaysDone(d, wl)

DoneInv ==
  /\ \A i \in DOMAIN wl.items : wl.items[i].status = "completed" => i \in claimed
  /\ GoodDoc(doc) /\ GoodDoc(file.items)
  /\ pc = "worker" => item \in claimed
  /\ DependenciesOnDisk

(* Reading the file: what is new in the list is what the file says.          *)
LEMMA DoneRead ==
  ASSUME ListInv, DoneInv, doc' = file.items, wl' = synchronizeRuntimeWorklist(wl, file.items),
         UNCHANGED <<file, claimed>>, pc' # "worker"
  PROVE  DoneInv'
  <1>1. /\ Keeps(wl, wl')
        /\ \A i \in DOMAIN wl'.items \ DOMAIN wl.items :
             \E k \in DOMAIN file.items :
               file.items[k].id = i /\ file.items[k].status = wl'.items[i].status
    BY Synchronized DEF ListInv
  <1>2. Distinct(file.items) /\ DoneClaimed(file.items) /\ SaysDone(file.items, wl)
    BY DEF DoneInv, GoodDoc
  <1>3. SaysDone(file.items, wl')
    BY <1>1, <1>2 DEF SaysDone, Distinct, Keeps
  <1>4. \A i \in DOMAIN wl'.items : wl'.items[i].status = "completed" => i \in claimed
    BY <1>1, <1>2 DEF DoneInv, DoneClaimed, Keeps
  <1> QED BY <1>2, <1>3, <1>4 DEF DoneInv, GoodDoc, DoneClaimed, DependenciesOnDisk

LEMMA DoneForgotten ==
  ASSUME DoneInv, ForgetList, UNCHANGED claimed, file' = file \/ file'.items = <<>>,
         pc' # "worker"
  PROVE  DoneInv'
  BY DEF DoneInv, GoodDoc, ForgetList, NewWorklist, Distinct, DoneClaimed, SaysDone,
         DependenciesOnDisk

(* A planner that reopens failed items only takes back no completion.        *)
LEMMA DonePlans ==
  ASSUME Reopens \subseteq Bad, NEW d \in Seq(Item), DoneInv, GoodDoc(d), NEW e \in Plans(d)
  PROVE  GoodDoc(e)
  <1>1. ASSUME NEW i \in Items \ (claimed \cup Ids(d)), e = Append(d, NewItem(i)) \/ e = <<NewItem(i)>>
        PROVE  GoodDoc(e)
    <2>1. NewItem(i).id = i /\ NewItem(i).status = "pending"
      BY DEF NewItem
    <2>2. \A k \in DOMAIN e : (e[k] = NewItem(i) /\ k = Len(e)) \/ (k \in DOMAIN d /\ e[k] = d[k])
      <3> DEFINE new == NewItem(i)
      <3> HIDE DEF new
      <3>1. CASE e = Append(d, new)
        BY <3>1 DEF new
      <3>2. CASE e = <<new>>
        BY <3>2 DEF new
      <3> QED BY <1>1, <3>1, <3>2 DEF new
    <2>3. \A k \in DOMAIN d : d[k].id # i
      BY DEF Ids
    <2>4. Distinct(e)
      BY <2>1, <2>2, <2>3 DEF GoodDoc, Distinct
    <2> QED BY <2>1, <2>2, <2>4 DEF GoodDoc, DoneClaimed, SaysDone, DoneInv
  <1>2. ASSUME NEW k \in DOMAIN d, d[k].status \in Reopens, e = [d EXCEPT ![k].status = "pending"]
        PROVE  GoodDoc(e)
    <2> DEFINE new == [d[k] EXCEPT !.status = "pending"]
    <2>1. e = [d EXCEPT ![k] = new]
      BY <1>2
    <2>2. new.id = d[k].id /\ new.status = "pending"
      <3>1. d[k] \in Item
        OBVIOUS
      <3> QED BY <3>1 DEF Item
    <2>3. d[k].status # "completed"
      BY <1>2 DEF Bad
    <2> HIDE DEF new
    <2>4. DOMAIN e = DOMAIN d /\ e[k] = new /\ \A j \in DOMAIN d \ {k} : e[j] = d[j]
      BY <2>1
    <2>5. \A j \in DOMAIN e : e[j].id = d[j].id
      BY <2>2, <2>4
    <2> QED BY <2>2, <2>3, <2>4, <2>5 DEF GoodDoc, Distinct, DoneClaimed, SaysDone
  <1> QED BY <1>1, <1>2 DEF Plans

(* An update writes to the document what the list says of its item.          *)
LEMMA UpdateFields ==
  ASSUME NEW d, NEW w, NEW i
  PROVE  LET e == updateDocumentItemStatus(d, w, i)
         IN  /\ DOMAIN e = DOMAIN d
             /\ \A k \in DOMAIN d : /\ e[k].id = d[k].id
                                    /\ d[k].id = i => e[k].status = w.items[i].status
                                    /\ d[k].id # i => e[k] = d[k]
  BY DEF updateDocumentItemStatus, Updated

(* Only item i of the list changes, and the document is told.                *)
LEMMA DoneUpdate ==
  ASSUME DoneInv, NEW i, OnlyItem(wl, wl', i), doc' = updateDocumentItemStatus(doc, wl', i),
         claimed \ {i} \subseteq claimed', wl'.items[i].status = "completed" => i \in claimed'
  PROVE  /\ \A j \in DOMAIN wl'.items : wl'.items[j].status = "completed" => j \in claimed'
         /\ GoodDoc(doc)'
  <1>1. /\ DOMAIN doc' = DOMAIN doc
        /\ \A k \in DOMAIN doc : /\ doc'[k].id = doc[k].id
                                 /\ doc[k].id = i => doc'[k].status = wl'.items[i].status
                                 /\ doc[k].id # i => doc'[k] = doc[k]
    BY UpdateFields
  <1>2. \A j \in DOMAIN wl'.items : wl'.items[j].status = "completed" => j \in claimed'
    BY DEF DoneInv, OnlyItem
  <1>3. Distinct(doc')
    BY <1>1 DEF DoneInv, GoodDoc, Distinct
  <1>4. DoneClaimed(doc)'
    BY <1>1 DEF DoneInv, GoodDoc, DoneClaimed
  <1>5. SaysDone(doc', wl')
    BY <1>1 DEF DoneInv, GoodDoc, SaysDone, OnlyItem
  <1> QED BY <1>2, <1>3, <1>4, <1>5 DEF GoodDoc

LEMMA DoneStart == ASSUME ListInv, DoneInv, StartItem PROVE DoneInv'
  <1>1. OnlyItem(wl, wl', item') /\ wl'.items[item'].status = "running"
        /\ wl.items[item'].status = "pending"
    BY ListStart, ListStep DEF ListInv, StartItem, Next, Execute
  <1>2. /\ doc' = updateDocumentItemStatus(doc, wl', item') /\ file'.items = doc'
        /\ claimed' = claimed \cup {item'}
    BY DEF StartItem
  <1>3. /\ \A j \in DOMAIN wl'.items : wl'.items[j].status = "completed" => j \in claimed'
        /\ GoodDoc(doc)'
    BY <1>1, <1>2, DoneUpdate
  <1>4. ASSUME NEW i \in DependsOn[item']
        PROVE  \E k \in DOMAIN doc' : doc'[k].id = i /\ doc'[k].status = "completed"
    <2>1. PICK k \in ReadyItems(wl, doc) : item' = doc[k].id
      BY DEF StartItem
    <2>2. i \in wl.completed
      BY <1>4, <2>1 DEF ReadyItems
    <2>3. i \in Ids(doc) /\ wl.items[i].status = "completed" /\ i \in DOMAIN wl.items
      BY <2>2 DEF ListInv, ListsMatchItems, HasStatus, StartItem
    <2>4. PICK j \in DOMAIN doc : doc[j].id = i
      BY <2>3 DEF Ids
    <2>5. doc[j].status = "completed" /\ i # item'
      BY <1>1, <2>3, <2>4 DEF DoneInv, GoodDoc, SaysDone
    <2>6. j \in DOMAIN doc' /\ doc'[j] = doc[j]
      BY <1>2, <2>4, <2>5, UpdateFields
    <2> QED BY <2>4, <2>5, <2>6
  <1>5. DependenciesOnDisk'
    BY <1>2, <1>4 DEF DependenciesOnDisk
  <1> QED BY <1>2, <1>3, <1>5 DEF DoneInv, GoodDoc, DoneClaimed

LEMMA DoneFinish == ASSUME ListInv, DoneInv, WorkerEnds PROVE DoneInv'
  <1>1. PICK status \in DispatchStatuses :
          /\ wl' = markWorkItemFromDispatch(wl, item, status)
          /\ claimed' = IF status = "completed" THEN claimed ELSE claimed \ {item}
    BY DEF WorkerEnds
  <1>2. OnlyItem(wl, wl', item)
    BY ListFinish
  <1>3. /\ doc' = updateDocumentItemStatus(doc, wl', item) /\ file'.items = doc'
        /\ pc' # "worker" /\ item \in claimed
    BY DEF WorkerEnds, LeaveList, DoneInv
  <1>4. wl'.items[item].status = "completed" => item \in claimed'
    <2>1. wl'.items[item].status = FinalStatus(wl, item, status)
      BY <1>1, Marked DEF ListInv, ListsMatchItems, Matches, WorkerEnds
    <2> QED BY <1>1, <1>3, <2>1 DEF FinalStatus
  <1>5. claimed \ {item} \subseteq claimed'
    BY <1>1
  <1>6. /\ \A j \in DOMAIN wl'.items : wl'.items[j].status = "completed" => j \in claimed'
        /\ GoodDoc(doc)'
    BY <1>2, <1>3, <1>4, <1>5, DoneUpdate
  <1> QED BY <1>3, <1>6 DEF DoneInv, GoodDoc, DoneClaimed, DependenciesOnDisk

LEMMA DoneStep ==
  ASSUME Reopens \subseteq Bad, ListInv, DoneInv, [Next]_vars
  PROVE  DoneInv'
  <1>1. CASE UNCHANGED <<list, file, claimed>> /\ (pc' = "worker" => pc = "worker")
    BY <1>1 DEF list, DoneInv, GoodDoc, DoneClaimed, DependenciesOnDisk
  <1>2. CASE ForgetList /\ claimed' = claimed /\ (file' = file \/ file'.items = <<>>) /\ pc' # "worker"
    BY <1>2, DoneForgotten
  <1>3. CASE Load
    BY <1>1, <1>2, <1>3, DoneRead DEF Load, Loaded, Throw
  <1>4. CASE PlanEnds
    BY <1>2, <1>4, DoneRead DEF PlanEnds, Loaded, Throw
  <1>5. CASE StartItem
    BY <1>5, DoneStart
  <1>6. CASE WorkerEnds
    BY <1>6, DoneFinish
  <1>7. CASE ReplanEnds
    BY <1>2, <1>7, DoneRead DEF ReplanEnds, Throw, LeaveList
  <1>8. CASE PlannerWrites
    <2> DEFINE d == IF file.whole THEN file.items ELSE <<>>
    <2>1. PICK e \in Plans(d) : file' = [whole |-> TRUE, items |-> e]
      BY <1>8 DEF PlannerWrites
    <2>2. d \in Seq(Item) /\ GoodDoc(d)
      BY DEF ListInv, DoneInv, GoodDoc, Distinct, DoneClaimed, SaysDone
    <2> HIDE DEF d
    <2>3. GoodDoc(file'.items)
      BY <2>1, <2>2, DonePlans
    <2>4. pc # "worker" /\ pc' = pc /\ UNCHANGED <<wl, doc, claimed>>
      BY <1>8 DEF PlannerWrites, list
    <2> QED BY <2>3, <2>4 DEF DoneInv, GoodDoc, DoneClaimed, DependenciesOnDisk
  <1>9. CASE Call \/ Exhausted \/ EnterNode \/ AgentEnds \/ BatchEnds \/ UNCHANGED vars
    BY <1>1, <1>9 DEF Call, Exhausted, Return, EnterNode, VisitNode, AgentEnds, BatchEnds,
                      LeaveList, vars
  <1>10. CASE LeaveNode \/ Abort \/ AbortInWrite
    BY <1>2, <1>10 DEF LeaveNode, Return, Abort, AbortInWrite, Throw
  <1> QED BY <1>3, <1>4, <1>5, <1>6, <1>7, <1>8, <1>9, <1>10 DEF Next, Execute

(* executeWorklistNode starts the worker of an item only when the file says  *)
(* that every item it depends on is completed, provided agents reopen only   *)
(* items that failed.                                                        *)
THEOREM DependenciesCorrect ==
  ASSUME Reopens \subseteq Bad
  PROVE  Spec => []DependenciesOnDisk
  <1>1. Init => ListInv /\ DoneInv
    BY ListInit DEF Init, DoneInv, GoodDoc, Distinct, DoneClaimed, SaysDone, DependenciesOnDisk,
                    NewWorklist
  <1>2. ListInv /\ DoneInv /\ [Next]_vars => (ListInv /\ DoneInv)'
    BY ListStep, DoneStep
  <1>3. ListInv /\ DoneInv => DependenciesOnDisk
    BY DEF DoneInv
  <1> QED BY <1>1, <1>2, <1>3, PTL DEF Spec

-----------------------------------------------------------------------------
(* The types.                                                                *)

(* StageInv and ListInv have the types of node and stage and of the items.   *)
WalkTyped ==
  /\ pc \in {"idle", "node", "agent", "leave", "load", "plan", "items", "worker", "replan"}
  /\ steps \in 0..MaxSteps
  /\ last \in DispatchStatuses \cup {None} /\ outcome \in Conditions \cup {None}
  /\ result \in {None, "done", "stuck", "discarded", "crash", "error"}
  /\ published \in [Stages -> Int]
  /\ calls \in 0..MaxCalls /\ faults \in 0..MaxFaults

(* A batch is asked for only when there is one left.                         *)
ListTyped ==
  /\ wl.completed \subseteq Items /\ wl.failed \subseteq Items
  /\ Distinct(doc) /\ Distinct(file.items) /\ file.whole \in BOOLEAN
  /\ batch \in 0..MaxBatches - 1 /\ item \in Items \cup {None} /\ processed \in BOOLEAN
  /\ pc = "replan" => batch + 1 < MaxBatches
  /\ claimed \subseteq Items

LEMMA MinIsThere == ASSUME NEW S \in SUBSET Nat, S # {} PROVE Min(S) \in S
  <1>1. PICK x \in S : \A y \in S : ~(<<y, x>> \in OpToRel(<, Nat))
    BY WFMin, NatLessThanWellFounded
  <1>2. \A y \in S : ~(y < x)
    BY <1>1 DEF OpToRel
  <1>3. \A y \in S : x <= y
    BY <1>2
  <1> QED BY <1>3 DEF Min

(* What is found is one of those looked for.                                 *)
LEMMA FirstFound ==
  ASSUME NEW tried, DOMAIN tried \subseteq Nat, NEW conds
  PROVE  FirstIn(tried, conds) \in conds \cup {None}
  <1> DEFINE hits == {k \in DOMAIN tried : tried[k] \in conds}
  <1>1. hits # {} => Min(hits) \in hits
    BY MinIsThere
  <1> QED BY <1>1 DEF FirstIn

(* An agent's end has an outcome.                                            *)
LEMMA OutcomeTyped ==
  ASSUME NEW n, NEW status \in DispatchStatuses, NEW negative \in BOOLEAN
  PROVE  inferWorkflowOutcome(n, status, negative) \in Conditions
  <1> DEFINE pairs == <<<<"approved", "rejected">>, <<"pass", "fail">>,
                        <<"improved", "equal_or_worse">>>>
             used == {k \in DOMAIN pairs : pairs[k][1] \in When(n) \/ pairs[k][2] \in When(n)}
  <1>1. When(n) \subseteq Conditions
    <2> DEFINE Edge == [from : Nodes, to : STRING, when : Conditions]
    <2>1. Edges \in Seq(Edge)
      BY GraphAssumption
    <2>2. \A e \in Edge : e.when \in Conditions
      OBVIOUS
    <2> HIDE DEF Edge
    <2>3. \A k \in DOMAIN Edges : Edges[k] \in Edge
      BY <2>1
    <2> QED BY <2>2, <2>3 DEF When
  <1>2. pickFailureCondition(When(n)) \in Conditions /\ Fallback(When(n)) \in Conditions
    <2> DEFINE tried == <<"failure", "fail", "rejected", "equal_or_worse", "crash", "timeout",
                          "exhausted">>
    <2>1. Fallback(When(n)) \in Conditions
      BY DEF Fallback, Conditions
    <2>2. DOMAIN tried \subseteq Nat
      OBVIOUS
    <2> HIDE DEF tried
    <2>3. FirstIn(tried, When(n)) \in When(n) \cup {None}
      BY <2>2, FirstFound
    <2> QED BY <1>1, <2>1, <2>3 DEF pickFailureCondition, tried
  <1>3. ASSUME NEW k \in DOMAIN pairs PROVE {pairs[k][1], pairs[k][2]} \subseteq Conditions
    <2>1. k \in {1, 2, 3}
      OBVIOUS
    <2> QED BY <2>1 DEF Conditions
  <1>4. used \in SUBSET Nat /\ used \subseteq DOMAIN pairs
    OBVIOUS
  <1>5. used # {} => {pairs[Min(used)][1], pairs[Min(used)][2]} \subseteq Conditions
    BY <1>3, <1>4, MinIsThere
  <1> HIDE DEF pairs, used
  <1>6. {"success", "timeout"} \subseteq Conditions
    BY DEF Conditions
  <1> QED BY <1>2, <1>5, <1>6 DEF inferWorkflowOutcome, DispatchStatuses, pairs, used

(* A call returns one of the statuses of a call.                             *)
LEMMA EndTyped ==
  ASSUME NEW n, NEW o, NEW status
  PROVE  EndStatus(n, o, status) \in {None, "done", "stuck", "discarded", "crash"}
  <1>1. resolveCompletionStatus(n, o) \in {None, "done", "discarded", "crash"}
    BY DEF resolveCompletionStatus
  <1>2. DeadEndStatus(status) \in {"done", "stuck", "discarded", "crash"}
    BY PolicyAssumption DEF DeadEndStatus
  <1> QED BY <1>1, <1>2 DEF EndStatus

LEMMA MaxStepsTyped == MaxSteps \in Nat
  BY GraphAssumption, PolicyAssumption, FS_CardinalityType DEF MaxSteps

LEMMA PublishedTyped ==
  ASSUME NEW p \in [Stages -> Int], NEW s
  PROVE  Completed(p, s) \in [Stages -> Int] /\ Started(p, s) \in [Stages -> Int]
  <1>1. ASSUME NEW v \in Int PROVE [p EXCEPT ![s] = v] \in [Stages -> Int]
    OBVIOUS
  <1>2. CASE s \in Stages
    BY <1>1, <1>2 DEF Completed, Started
  <1>3. CASE s \notin Stages
    <2>1. \A v : [p EXCEPT ![s] = v] = p
      BY <1>3
    <2> QED BY <2>1 DEF Completed, Started
  <1> QED BY <1>2, <1>3

(* A call that returns, and one that throws.                                 *)
LEMMA WalkEnds ==
  ASSUME WalkTyped, UNCHANGED calls, faults' \in 0..MaxFaults,
         \/ Throw
         \/ \E status \in {"done", "stuck", "discarded", "crash"} : Return(status)
  PROVE  WalkTyped'
  BY PublishedTyped DEF WalkTyped, Throw, Return

LEMMA WalkStep ==
  ASSUME WalkTyped, [Next]_vars
  PROVE  WalkTyped'
  <1>1. CASE UNCHANGED <<pc, walk, result, published, bounds>>
    BY <1>1 DEF WalkTyped, walk, bounds
  <1>2. CASE Throw /\ UNCHANGED bounds
    BY <1>2, WalkEnds DEF WalkTyped, bounds
  <1>3. CASE Call
    BY <1>3, MaxStepsTyped, PolicyAssumption DEF Call, WalkTyped
  <1>4. CASE Exhausted
    BY <1>4, WalkEnds, PolicyAssumption DEF Exhausted, WalkTyped, bounds
  <1>5. CASE EnterNode
    <2>1. steps' \in 0..MaxSteps /\ last' = None /\ UNCHANGED <<result, calls, faults>>
      BY <1>5, MaxStepsTyped DEF EnterNode, VisitNode, WalkTyped, bounds
    <2>2. published' \in [Stages -> Int]
      BY <1>5, PublishedTyped DEF EnterNode, VisitNode, WalkTyped
    <2>3. pc' \in {"leave", "agent", "load"} /\ outcome' \in Conditions \cup {None}
      BY <1>5 DEF EnterNode, VisitNode, WalkTyped, Conditions
    <2> QED BY <2>1, <2>2, <2>3 DEF WalkTyped
  <1>6. CASE AgentEnds
    BY <1>6, OutcomeTyped DEF AgentEnds, WalkTyped, bounds
  <1>7. CASE LeaveNode
    <2>1. UNCHANGED bounds
      BY <1>7 DEF LeaveNode
    <2>2. CASE EndStatus(node, outcome, last) # None
      BY <1>7, <2>1, <2>2, EndTyped, WalkEnds DEF LeaveNode, WalkTyped, bounds
    <2>3. CASE EndStatus(node, outcome, last) = None
      <3>1. /\ LeaveStage(resolveNextWorkflowNodeId(node, outcome))
            /\ pc' = "node" /\ outcome' = None /\ UNCHANGED <<steps, last, result>>
        BY <1>7, <2>3 DEF LeaveNode
      <3>2. published' \in [Stages -> Int]
        BY <3>1, PublishedTyped DEF LeaveStage, WalkTyped
      <3> QED BY <2>1, <3>1, <3>2 DEF WalkTyped, bounds
    <2> QED BY <2>2, <2>3
  <1>8. CASE Load
    BY <1>2, <1>8 DEF Load, Loaded, WalkTyped, walk, bounds
  <1>9. CASE PlanEnds
    BY <1>2, <1>9 DEF PlanEnds, Loaded, WalkTyped, walk, bounds
  <1>10. CASE StartItem
    BY <1>10 DEF StartItem, WalkTyped, walk, bounds
  <1>11. CASE WorkerEnds
    BY <1>11 DEF WorkerEnds, LeaveList, WalkTyped, bounds, Conditions
  <1>12. CASE BatchEnds
    BY <1>12 DEF BatchEnds, LeaveList, ListOutcome, WalkTyped, bounds, Conditions
  <1>13. CASE ReplanEnds
    BY <1>2, <1>13 DEF ReplanEnds, LeaveList, ListOutcome, WalkTyped, bounds, Conditions
  <1>14. CASE PlannerWrites
    BY <1>1, <1>14 DEF PlannerWrites
  <1>15. CASE Abort \/ AbortInWrite
    <2>1. Throw /\ UNCHANGED calls /\ faults < MaxFaults /\ faults' = faults + 1
      BY <1>15 DEF Abort, AbortInWrite
    <2>2. faults' \in 0..MaxFaults
      BY <2>1, PolicyAssumption DEF WalkTyped
    <2> QED BY <2>1, <2>2, WalkEnds
  <1>16. CASE UNCHANGED vars
    BY <1>1, <1>16 DEF vars
  <1> QED BY <1>3, <1>4, <1>5, <1>6, <1>7, <1>8, <1>9, <1>10, <1>11, <1>12, <1>13, <1>14,
             <1>15, <1>16 DEF Next, Execute

(* What the planner writes names no item twice.                              *)
LEMMA PlansDistinct ==
  ASSUME NEW d \in Seq(Item), Distinct(d), NEW e \in Plans(d)
  PROVE  Distinct(e)
  <1>1. ASSUME NEW i \in Items \ Ids(d), e = Append(d, NewItem(i)) \/ e = <<NewItem(i)>>
        PROVE  Distinct(e)
    <2> DEFINE new == NewItem(i)
    <2>1. new.id = i
      BY DEF NewItem
    <2>2. \A k \in DOMAIN d : d[k].id # i
      BY DEF Ids
    <2> HIDE DEF new
    <2>3. \A k \in DOMAIN e : (e[k] = new /\ k = Len(e)) \/ (k \in DOMAIN d /\ e[k] = d[k])
      <3>1. CASE e = Append(d, new)
        BY <3>1
      <3>2. CASE e = <<new>>
        BY <3>2
      <3> QED BY <1>1, <3>1, <3>2 DEF new
    <2> QED BY <2>1, <2>2, <2>3 DEF Distinct
  <1>2. ASSUME NEW k \in DOMAIN d, e = [d EXCEPT ![k].status = "pending"]
        PROVE  Distinct(e)
    <2> DEFINE new == [d[k] EXCEPT !.status = "pending"]
    <2>1. e = [d EXCEPT ![k] = new]
      BY <1>2
    <2>2. new.id = d[k].id
      <3>1. d[k] \in Item
        OBVIOUS
      <3> QED BY <3>1 DEF Item
    <2> HIDE DEF new
    <2>3. DOMAIN e = DOMAIN d /\ \A j \in DOMAIN e : e[j].id = d[j].id
      BY <2>1, <2>2
    <2> QED BY <2>3 DEF Distinct
  <1> QED BY <1>1, <1>2 DEF Plans

(* What the steps of the list do to what the list and the documents name.    *)
LEMMA ListsTyped ==
  ASSUME NEW w, w.completed \subseteq Items, w.failed \subseteq Items, NEW i \in Items,
         NEW status, NEW d \in Seq(Item), Distinct(d)
  PROVE  /\ markWorkItemRunning(w, i).completed = w.completed
         /\ markWorkItemRunning(w, i).failed = w.failed
         /\ markWorkItemFromDispatch(w, i, status).completed \subseteq Items
         /\ markWorkItemFromDispatch(w, i, status).failed \subseteq Items
         /\ synchronizeRuntimeWorklist(w, d).completed \subseteq Items
         /\ synchronizeRuntimeWorklist(w, d).failed \subseteq Items
         /\ \A v : Distinct(updateDocumentItemStatus(d, v, i))
  <1>1. /\ markWorkItemRunning(w, i).completed = w.completed
        /\ markWorkItemRunning(w, i).failed = w.failed
    BY DEF markWorkItemRunning
  <1>2. /\ markWorkItemFromDispatch(w, i, status).completed \subseteq Items
        /\ markWorkItemFromDispatch(w, i, status).failed \subseteq Items
    BY DEF markWorkItemFromDispatch
  <1>3. /\ synchronizeRuntimeWorklist(w, d).completed \subseteq Items
        /\ synchronizeRuntimeWorklist(w, d).failed \subseteq Items
    BY IdsAreItems DEF synchronizeRuntimeWorklist, IdsAfter
  <1>4. ASSUME NEW v PROVE Distinct(updateDocumentItemStatus(d, v, i))
    BY UpdateFields DEF Distinct
  <1> QED BY <1>1, <1>2, <1>3, <1>4

LEMMA Nothing ==
  /\ NewWorklist.completed = {} /\ NewWorklist.failed = {} /\ Distinct(<<>>)
  /\ 0 \in 0..MaxBatches - 1
  <1>1. 0 \in 0..MaxBatches - 1
    BY PolicyAssumption
  <1> QED BY <1>1 DEF NewWorklist, Distinct

LEMMA TypedForgotten ==
  ASSUME ListTyped, ForgetList, pc' # "replan", UNCHANGED claimed,
         file' = file \/ file' = [whole |-> FALSE, items |-> <<>>]
  PROVE  ListTyped'
  <1>1. wl' = NewWorklist /\ doc' = <<>> /\ batch' = 0 /\ item' = None /\ processed' = FALSE
    BY DEF ForgetList
  <1>2. Distinct(file'.items) /\ file'.whole \in BOOLEAN
    <2>1. CASE file' = file
      BY <2>1 DEF ListTyped, Distinct
    <2>2. CASE file' = [whole |-> FALSE, items |-> <<>>]
      <3>1. file'.items = <<>> /\ file'.whole = FALSE
        BY <2>2
      <3> QED BY <3>1, Nothing DEF Distinct
    <2> QED BY <2>1, <2>2
  <1> QED BY <1>1, <1>2, Nothing DEF ListTyped

LEMMA TypedRead ==
  ASSUME ListInv, ListTyped, doc' = file.items,
         wl' = synchronizeRuntimeWorklist(wl, file.items), pc' # "replan",
         UNCHANGED <<file, claimed, item>>, processed' \in BOOLEAN,
         batch' \in 0..MaxBatches - 1
  PROVE  ListTyped'
  <1>1. wl'.completed \subseteq Items /\ wl'.failed \subseteq Items
    BY IdsAreItems DEF ListInv, synchronizeRuntimeWorklist, IdsAfter
  <1> QED BY <1>1 DEF ListTyped

LEMMA TypedStep ==
  ASSUME ListInv, ListTyped, [Next]_vars
  PROVE  ListTyped'
  <1>1. CASE UNCHANGED <<list, file, claimed>> /\ pc' # "replan"
    BY <1>1 DEF ListTyped, list
  <1>2. CASE Throw /\ UNCHANGED claimed /\ (file' = file \/ file' = [whole |-> FALSE, items |-> <<>>])
    BY <1>2, TypedForgotten DEF Throw
  <1>3. CASE Call \/ Exhausted \/ EnterNode \/ AgentEnds
    BY <1>1, <1>3 DEF Call, Exhausted, Return, EnterNode, VisitNode, AgentEnds
  <1>4. CASE LeaveNode
    <2>1. pc' # "replan"
      BY <1>4 DEF LeaveNode, Return
    <2> QED BY <1>4, <2>1, TypedForgotten DEF LeaveNode
  <1>5. CASE Load
    BY <1>1, <1>2, <1>5, TypedRead DEF Load, Loaded, ListTyped
  <1>6. CASE PlanEnds
    BY <1>2, <1>6, TypedRead DEF PlanEnds, Loaded, ListTyped
  <1>7. CASE StartItem
    <2>1. PICK k \in ReadyItems(wl, doc) : item' = doc[k].id
      BY <1>7 DEF StartItem
    <2>2. doc \in Seq(Item) /\ k \in DOMAIN doc
      BY <2>1 DEF ListInv, ReadyItems
    <2>3. item' \in Items
      BY <2>1, <2>2, IdsAreItems DEF Ids
    <2>4. /\ wl' = markWorkItemRunning(wl, item')
          /\ doc' = updateDocumentItemStatus(doc, wl', item')
          /\ file' = [whole |-> TRUE, items |-> doc'] /\ claimed' = claimed \cup {item'}
          /\ pc' = "worker" /\ processed' = TRUE /\ batch' = batch
      BY <1>7 DEF StartItem
    <2>5. wl'.completed \subseteq Items /\ wl'.failed \subseteq Items /\ Distinct(doc')
      BY <2>2, <2>3, <2>4, ListsTyped DEF ListTyped
    <2> QED BY <2>3, <2>4, <2>5 DEF ListTyped, Distinct
  <1>8. CASE WorkerEnds
    <2>1. PICK status \in DispatchStatuses :
            /\ wl' = markWorkItemFromDispatch(wl, item, status)
            /\ claimed' = IF status = "completed" THEN claimed ELSE claimed \ {item}
      BY <1>8 DEF WorkerEnds
    <2>2. doc \in Seq(Item) /\ item \in Items
      BY <1>8, IdsAreItems DEF ListInv, WorkerEnds
    <2>3. /\ doc' = updateDocumentItemStatus(doc, wl', item)
          /\ file' = [whole |-> TRUE, items |-> doc'] /\ item' = None
          /\ pc' # "replan" /\ UNCHANGED <<processed, batch>>
      BY <1>8 DEF WorkerEnds, LeaveList
    <2>4. wl'.completed \subseteq Items /\ wl'.failed \subseteq Items /\ Distinct(doc')
      BY <2>1, <2>2, <2>3, ListsTyped DEF ListTyped
    <2> QED BY <2>1, <2>3, <2>4 DEF ListTyped, Distinct
  <1>9. CASE BatchEnds
    BY <1>9 DEF BatchEnds, LeaveList, ListTyped, list
  <1>10. CASE ReplanEnds
    <2>1. CASE file.whole
      <3>1. /\ doc' = file.items /\ wl' = synchronizeRuntimeWorklist(wl, file.items)
            /\ pc' # "replan" /\ UNCHANGED <<file, claimed, item, processed>>
            /\ batch' = batch \/ batch' = batch + 1
        BY <1>10, <2>1 DEF ReplanEnds, LeaveList
      <3>2. batch' \in 0..MaxBatches - 1
        BY <1>10, <3>1, PolicyAssumption DEF ListTyped, ReplanEnds
      <3>3. processed' \in BOOLEAN
        BY <3>1 DEF ListTyped
      <3> QED BY <3>1, <3>2, <3>3, TypedRead
    <2>2. CASE ~file.whole
      BY <1>2, <1>10, <2>2 DEF ReplanEnds
    <2> QED BY <2>1, <2>2
  <1>11. CASE PlannerWrites
    <2> DEFINE d == IF file.whole THEN file.items ELSE <<>>
    <2>1. PICK e \in Plans(d) : file' = [whole |-> TRUE, items |-> e]
      BY <1>11 DEF PlannerWrites
    <2>2. d \in Seq(Item) /\ Distinct(d)
      BY DEF ListInv, ListTyped, Distinct
    <2> HIDE DEF d
    <2>3. Distinct(file'.items) /\ file'.whole \in BOOLEAN
      BY <2>1, <2>2, PlansDistinct
    <2> QED BY <1>11, <2>3 DEF PlannerWrites, list, ListTyped, Distinct
  <1>12. CASE Abort \/ AbortInWrite
    BY <1>2, <1>12 DEF Abort, AbortInWrite
  <1>13. CASE UNCHANGED vars
    BY <1>13 DEF vars, list, ListTyped, Distinct
  <1> QED BY <1>3, <1>4, <1>5, <1>6, <1>7, <1>8, <1>9, <1>10, <1>11, <1>12, <1>13
          DEF Next, Execute

(* The state of a call, the worklist in memory and the document on disk keep *)
(* their types, and no document ever names an item twice.                    *)
THEOREM TypeCorrect == Spec => []TypeOK
  <1> DEFINE TypeInv == StageInv /\ ListInv /\ WalkTyped /\ ListTyped
  <1>1. Init => TypeInv
    <2> SUFFICES ASSUME Init PROVE TypeInv
      OBVIOUS
    <2>1. WalkTyped
      BY MaxStepsTyped, PolicyAssumption DEF Init, WalkTyped
    <2>2. ListTyped
      BY Nothing DEF Init, ListTyped
    <2> QED BY <2>1, <2>2, StageInit, ListInit
  <1>2. TypeInv /\ [Next]_vars => TypeInv'
    BY StageStep, ListStep, WalkStep, TypedStep
  <1>3. TypeInv => TypeOK
    <2> SUFFICES ASSUME TypeInv PROVE TypeOK
      OBVIOUS
    <2>1. doc \in Document /\ file.items \in Document
      BY DEF ListInv, ListTyped, Document, Distinct
    <2>2. /\ DOMAIN wl = {"items", "completed", "failed"} /\ DOMAIN wl.items \subseteq Items
          /\ \A i \in DOMAIN wl.items : wl.items[i] \in [status : Statuses, attempts : Nat]
      BY DEF ListInv, IsList, ItemState
    <2> QED BY <2>1, <2>2 DEF TypeOK, StageInv, StageTypes, WalkTyped, ListTyped
  <1> QED BY <1>1, <1>2, <1>3, PTL DEF Spec

=============================================================================
