------------------------- MODULE WorkflowExecution -------------------------
(* The TypeScript workflow executor, src/core/workflowExecution.ts: a call   *)
(* walks the nodes of a graph, hands each node that has an assignee to an    *)
(* agent and chooses the next node by the outcome.  A worklist node works    *)
(* through a document of items on disk, and may ask a planner for more.      *)
(*                                                                           *)
(* A call is one asynchronous function.  `pc' is the await it stands at;     *)
(* what it does between two awaits of an agent or a file is one action.      *)
(* Prompts, titles, timestamps and the batch counter, which nothing reads,   *)
(* are left out.  The artifact and the roles a worklist node names are in    *)
(* the spec of the workspace.                                                *)
EXTENDS Integers, Sequences, FiniteSets, FiniteSetsExt

CONSTANTS
  Nodes, Entry,        \* workflow.nodes and workflow.entryNodeId
  Kind,                \* what executes a node; "bare": no role resolves for it
  Stage,               \* the stage of a node, or None
  Edges,               \* workflow.edges, in order
  SuccessNodes, FailureNodes, DefaultStatus, MaxIterations, \* completionPolicy
  Writers,             \* assignment nodes whose agent writes the item document
  Reopens,             \* statuses an agent may put back to pending
  Items, DependsOn,    \* item ids, and the ids an item waits for
  MaxAttempts,         \* of an item; 0 when it has none
  HasPlanner,          \* the worklist node has a planner role and prompt
  Replenishes,         \* its mode is replenishing and it replenishes when empty
  MaxBatches, StopOnItemFailure,
  MaxCalls, MaxFaults  \* bounds of the model

None == "none"
Conditions == {"always", "success", "failure", "timeout", "pass", "fail", "approved",
               "rejected", "improved", "equal_or_worse", "crash", "retry", "exhausted"}
Statuses == {"pending", "running", "completed", "failed", "blocked", "discarded"}
DispatchStatuses == {"completed", "failed", "stopped"}

ASSUME GraphAssumption ==
  /\ None \notin Nodes /\ IsFiniteSet(Nodes)
  /\ Entry \in Nodes
  /\ Kind \in [Nodes -> {"assign", "review", "bare", "worklist", "complete"}]
  /\ DOMAIN Stage = Nodes
  /\ Edges \in Seq([from : Nodes, to : STRING, when : Conditions])
ASSUME PolicyAssumption ==
  /\ SuccessNodes \subseteq Nodes /\ FailureNodes \subseteq Nodes /\ Writers \subseteq Nodes
  /\ DefaultStatus \in {"done", "stuck", "discarded", "crash"}
  /\ MaxIterations \in Nat \ {0} /\ MaxBatches \in Nat \ {0}
  /\ MaxCalls \in Nat /\ MaxFaults \in Nat
ASSUME ItemAssumption ==
  /\ DependsOn \in [Items -> SUBSET Items]
  /\ MaxAttempts \in [Items -> Nat]
  /\ Reopens \subseteq Statuses
  /\ {HasPlanner, Replenishes, StopOnItemFailure} \subseteq BOOLEAN

VARIABLES
  pc,         \* the await the call stands at; "idle" when there is no call
  node, steps,
  stage,      \* activeStageId
  last,       \* status of the last dispatch of the node, or None
  outcome,    \* of the node, once it has one
  result,     \* what the last call returned or threw
  wl,         \* the runtime worklist of the node
  doc,        \* the document as loaded: a sequence of items
  batch, item, processed,
  file,       \* the document on disk; not whole after a cut write
  published,  \* stage events seen outside: started less completed, by stage
  claimed,    \* items handed to a worker, and not known to have failed
  calls, faults

walk == <<node, steps, stage, outcome, last>>
list == <<wl, doc, batch, item, processed>>
bounds == <<calls, faults>>
vars == <<pc, walk, result, list, file, published, claimed, bounds>>

MaxSteps == Cardinality(Nodes) * MaxIterations
Stages == {Stage[n] : n \in Nodes} \ {None}

-----------------------------------------------------------------------------
(* The graph.                                                                *)

When(n) == {Edges[k].when : k \in {j \in DOMAIN Edges : Edges[j].from = n}}

(* Array.find: the first of some conditions that is one of conds, or None.   *)
FirstIn(tried, conds) ==
  LET hits == {k \in DOMAIN tried : tried[k] \in conds}
  IN  IF hits = {} THEN None ELSE tried[Min(hits)]

FirstEdge(n, c) == Edges[Min({k \in DOMAIN Edges : Edges[k].from = n /\ Edges[k].when = c})]

(* The conditions tried in order when a node ended with outcome o.           *)
Tried(o) ==
  <<o>> \o (IF o \in {"pass", "approved", "improved"} THEN <<"success">> ELSE <<>>)
        \o (IF o \in {"fail", "rejected", "equal_or_worse", "crash", "timeout"}
            THEN <<"failure">> ELSE <<>>)
        \o <<"always">>

resolveNextWorkflowNodeId(n, o) ==
  LET found == FirstIn(Tried(o), When(n))
  IN  IF found = None THEN None ELSE FirstEdge(n, found).to

Fallback(conds) == IF "success" \in conds THEN "success" ELSE "always"

pickFailureCondition(conds) ==
  LET found == FirstIn(<<"failure", "fail", "rejected", "equal_or_worse",
                         "crash", "timeout", "exhausted">>, conds)
  IN  IF found = None THEN Fallback(conds) ELSE found

(* negative: the agent's text holds more negative than positive words.       *)
inferWorkflowOutcome(n, status, negative) ==
  LET conds == When(n)
      Judged(good, bad) ==
        IF negative THEN IF bad \in conds THEN bad ELSE pickFailureCondition(conds)
        ELSE IF good \in conds THEN good ELSE "success"
      pairs == <<<<"approved", "rejected">>, <<"pass", "fail">>, <<"improved", "equal_or_worse">>>>
      used == {k \in DOMAIN pairs : pairs[k][1] \in conds \/ pairs[k][2] \in conds}
  IN  IF status = "stopped" /\ "timeout" \in conds THEN "timeout"
      ELSE IF status \in {"failed", "stopped"} THEN pickFailureCondition(conds)
      ELSE IF used # {} THEN Judged(pairs[Min(used)][1], pairs[Min(used)][2])
      ELSE IF Kind[n] = "review" /\ negative THEN pickFailureCondition(conds)
      ELSE Fallback(conds)

resolveCompletionStatus(n, o) ==
  CASE Kind[n] = "complete" \/ n \in SuccessNodes -> "done"
    [] Kind[n] # "complete" /\ n \in FailureNodes \ SuccessNodes ->
         IF o \in {"failure", "fail"} THEN "crash" ELSE "discarded"
    [] OTHER -> None

-----------------------------------------------------------------------------
(* The worklist.  wl.items is a map from the ids seen in this execution of   *)
(* the node; doc and file.items are sequences of records with distinct ids.  *)

NewWorklist == [items |-> [i \in {} |-> None], completed |-> {}, failed |-> {}]
Ids(d) == {d[k].id : k \in DOMAIN d}
Bad == {"failed", "discarded"}

InDocument(d, i) == d[CHOOSE k \in DOMAIN d : d[k].id = i]

(* What the runtime knows of an item comes before what the document says.    *)
(* A faulty form: the document comes first.                                  *)
StatusInDocument(w, d, i) == InDocument(d, i).status
StatusAfter(w, d, i) ==
  IF i \in DOMAIN w.items THEN w.items[i].status ELSE InDocument(d, i).status

AttemptsAfter(w, d, i) ==
  LET read == InDocument(d, i).attempts
  IN  IF i \in DOMAIN w.items /\ w.items[i].attempts > read THEN w.items[i].attempts ELSE read

ItemsAfter(w, d) ==
  [i \in DOMAIN w.items \cup Ids(d) |->
     IF i \in Ids(d) THEN [status |-> StatusAfter(w, d, i), attempts |-> AttemptsAfter(w, d, i)]
     ELSE w.items[i]]

IdsAfter(w, d, S) == {i \in Ids(d) : StatusAfter(w, d, i) \in S}

(* A faulty form: the lists are extended, not rebuilt.                       *)
SynchronizeExtending(w, d) ==
  [items |-> ItemsAfter(w, d), completed |-> w.completed \cup IdsAfter(w, d, {"completed"}),
   failed |-> w.failed \cup IdsAfter(w, d, Bad)]

synchronizeRuntimeWorklist(w, d) ==
  [items |-> ItemsAfter(w, d), completed |-> IdsAfter(w, d, {"completed"}),
   failed |-> IdsAfter(w, d, Bad)]

HasStatus(w, d, S) == {i \in Ids(d) : w.items[i].status \in S}

ReadyItems(w, d) ==
  {k \in DOMAIN d : w.items[d[k].id].status = "pending" /\ DependsOn[d[k].id] \subseteq w.completed}

markWorkItemRunning(w, i) ==
  [w EXCEPT !.items[i] = [status |-> "running", attempts |-> @.attempts + 1]]

FinalStatus(w, i, status) ==
  IF status = "completed" THEN "completed"
  ELSE IF MaxAttempts[i] # 0 /\ w.items[i].attempts >= MaxAttempts[i] THEN "discarded"
  ELSE "failed"

(* A faulty form: whatever was dispatched counts as completed for others.    *)
MarkFromDispatchSettled(w, i, status) ==
  LET final == FinalStatus(w, i, status)
  IN  [items |-> [w.items EXCEPT ![i].status = final],
       completed |-> w.completed \cup {i},
       failed |-> IF final = "completed" THEN w.failed \ {i} ELSE w.failed \cup {i}]

markWorkItemFromDispatch(w, i, status) ==
  LET final == FinalStatus(w, i, status)
  IN  [items |-> [w.items EXCEPT ![i].status = final],
       completed |-> IF final = "completed" THEN w.completed \cup {i} ELSE w.completed \ {i},
       failed |-> IF final = "completed" THEN w.failed \ {i} ELSE w.failed \cup {i}]

Updated(d, w, i) ==
  [k \in DOMAIN d |-> IF d[k].id = i THEN [id |-> i, status |-> w.items[i].status,
                                           attempts |-> w.items[i].attempts]
                                     ELSE d[k]]

(* A faulty form: only the end of an item is written, not its start.         *)
UpdateSettledOnly(d, w, i) == IF w.items[i].status = "running" THEN d ELSE Updated(d, w, i)

updateDocumentItemStatus(d, w, i) == Updated(d, w, i)

countPendingItems(w) == Cardinality({i \in DOMAIN w.items : w.items[i].status = "pending"})

-----------------------------------------------------------------------------
(* The walk.                                                                 *)

Init ==
  /\ pc = "idle" /\ node = Entry /\ steps = 0 /\ stage = None
  /\ last = None /\ outcome = None /\ result = None
  /\ wl = NewWorklist /\ doc = <<>> /\ batch = 0 /\ item = None /\ processed = FALSE
  /\ file = [whole |-> TRUE, items |-> <<>>]
  /\ published = [s \in Stages |-> 0]
  /\ claimed = {} /\ calls = 0 /\ faults = 0

(* What the stage hooks publish.                                             *)
Completed(p, s) == IF s = None THEN p ELSE [p EXCEPT ![s] = @ - 1]
Started(p, s) == IF s = None THEN p ELSE [p EXCEPT ![s] = @ + 1]

ForgetList ==
  /\ wl' = NewWorklist /\ doc' = <<>> /\ batch' = 0 /\ item' = None /\ processed' = FALSE

(* The call is over: it returned, or it threw and ran none of the hooks.     *)
Return(status) ==
  /\ pc' = "idle" /\ result' = status
  /\ published' = Completed(published, stage)
  /\ stage' = None /\ outcome' = None
  /\ UNCHANGED <<node, steps, last>>

Throw ==
  /\ pc' = "idle" /\ result' = "error"
  /\ stage' = None /\ outcome' = None
  /\ ForgetList
  /\ UNCHANGED <<node, steps, last, published>>

(* A call of executeWorkflow.                                                *)
Call ==
  /\ pc = "idle" /\ calls < MaxCalls
  /\ calls' = calls + 1
  /\ pc' = "node" /\ node' = Entry /\ steps' = 0
  /\ stage' = None /\ last' = None /\ outcome' = None /\ result' = None
  /\ published' = [s \in Stages |-> 0]   \* counted from the start of the call
  /\ UNCHANGED <<list, file, claimed, faults>>

Exhausted ==
  /\ pc = "node" /\ steps >= MaxSteps
  /\ Return(DefaultStatus)
  /\ UNCHANGED <<list, file, claimed, bounds>>

VisitNode ==
  /\ last' = None
  /\ IF Stage[node] \notin {None, stage}
     THEN /\ published' = Started(Completed(published, stage), Stage[node])
          /\ stage' = Stage[node]
     ELSE UNCHANGED <<published, stage>>
  /\ \/ /\ Kind[node] \in {"complete", "bare"}
        /\ pc' = "leave" /\ outcome' = "success"
     \/ /\ Kind[node] \in {"assign", "review"}
        /\ pc' = "agent" /\ UNCHANGED outcome
     \/ /\ Kind[node] = "worklist"
        /\ pc' = "load" /\ UNCHANGED outcome
  /\ UNCHANGED <<node, result, list, file, claimed, bounds>>

(* Faulty forms: one step too many; steps that are not counted.              *)
EnterOnceMore == pc = "node" /\ steps <= MaxSteps /\ steps' = steps + 1 /\ VisitNode
EnterUncounted == pc = "node" /\ steps < MaxSteps /\ UNCHANGED steps /\ VisitNode

EnterNode == pc = "node" /\ steps < MaxSteps /\ steps' = steps + 1 /\ VisitNode

AgentEnds ==
  /\ pc = "agent"
  /\ \E status \in DispatchStatuses, negative \in BOOLEAN :
       /\ last' = status
       /\ outcome' = inferWorkflowOutcome(node, status, negative)
  /\ pc' = "leave"
  /\ UNCHANGED <<node, steps, stage, result, list, file, published, claimed, bounds>>

(* How a walk with no edge to follow ends.                                   *)
DeadEndStatus(status) ==
  IF status = "failed" THEN "crash" ELSE IF status = "stopped" THEN "stuck" ELSE DefaultStatus

(* What the call returns once a node has its outcome, or None to move on.    *)
EndStatus(n, o, status) ==
  LET next == resolveNextWorkflowNodeId(n, o)
  IN  IF resolveCompletionStatus(n, o) # None THEN resolveCompletionStatus(n, o)
      ELSE IF next = None THEN DeadEndStatus(status)
      ELSE IF next \notin Nodes THEN "crash"
      ELSE None

(* A faulty form: the stage is reported completed, and stays active.         *)
LeaveStageActive(next) ==
  /\ published' = IF Stage[next] # Stage[node] THEN Completed(published, stage) ELSE published
  /\ UNCHANGED stage

LeaveStage(next) ==
  IF Stage[node] # None /\ stage # None /\ Stage[next] # Stage[node]
  THEN published' = Completed(published, stage) /\ stage' = None
  ELSE UNCHANGED <<published, stage>>

LeaveNode ==
  /\ pc = "leave"
  /\ ForgetList
  /\ \/ /\ EndStatus(node, outcome, last) # None
        /\ Return(EndStatus(node, outcome, last))
     \/ /\ EndStatus(node, outcome, last) = None
        /\ LET next == resolveNextWorkflowNodeId(node, outcome)
           IN  node' = next /\ LeaveStage(next)
        /\ pc' = "node" /\ outcome' = None
        /\ UNCHANGED <<steps, last, result>>
  /\ UNCHANGED <<file, claimed, bounds>>

-----------------------------------------------------------------------------
(* The worklist node.                                                        *)

LeaveList(o) == pc' = "leave" /\ outcome' = o
ListOutcome(w) == IF w.failed # {} THEN "failure" ELSE "success"

(* The document is in memory: the batch starts.                              *)
Loaded ==
  /\ doc' = file.items
  /\ wl' = synchronizeRuntimeWorklist(wl, file.items)
  /\ pc' = "items" /\ processed' = FALSE
  /\ UNCHANGED <<walk, result, batch, item, published>>

(* ensureWorklistLoaded: a document with items, or no planner to ask.        *)
Load ==
  /\ pc = "load"
  /\ \/ ~file.whole /\ Throw
     \/ file.whole /\ (file.items # <<>> \/ ~HasPlanner) /\ Loaded
     \/ /\ file.whole /\ file.items = <<>> /\ HasPlanner
        /\ pc' = "plan" /\ UNCHANGED <<walk, result, list, published>>
  /\ UNCHANGED <<file, claimed, bounds>>

(* The planner's dispatch is over, whatever its status.                      *)
PlanEnds ==
  /\ pc = "plan"
  /\ \/ ~file.whole /\ Throw
     \/ file.whole /\ Loaded
  /\ UNCHANGED <<file, claimed, bounds>>

StartItem ==
  /\ pc = "items"
  /\ \E k \in ReadyItems(wl, doc) :
       /\ \A j \in ReadyItems(wl, doc) : k <= j
       /\ item' = doc[k].id
  /\ wl' = markWorkItemRunning(wl, item')
  /\ doc' = updateDocumentItemStatus(doc, wl', item')
  /\ file' = [whole |-> TRUE, items |-> doc']
  /\ claimed' = claimed \cup {item'}
  /\ pc' = "worker" /\ processed' = TRUE
  /\ UNCHANGED <<walk, result, batch, published, bounds>>

WorkerEnds ==
  /\ pc = "worker"
  /\ \E status \in DispatchStatuses :
       /\ last' = status
       /\ wl' = markWorkItemFromDispatch(wl, item, status)
       /\ claimed' = IF status = "completed" THEN claimed ELSE claimed \ {item}
  /\ doc' = updateDocumentItemStatus(doc, wl', item)
  /\ file' = [whole |-> TRUE, items |-> doc']
  /\ item' = None
  /\ IF wl'.items[item].status = "failed" /\ StopOnItemFailure
     THEN LeaveList("failure")
     ELSE pc' = "items" /\ UNCHANGED outcome
  /\ UNCHANGED <<node, steps, stage, result, batch, processed, published, bounds>>

(* No item is ready: the batch is over.                                      *)
BatchEnds ==
  /\ pc = "items" /\ ReadyItems(wl, doc) = {}
  /\ LET stuck == \/ HasStatus(wl, doc, Bad) # {}
                  \/ HasStatus(wl, doc, {"pending"}) # {} /\ ~processed
         more == Replenishes /\ HasPlanner /\ batch + 1 < MaxBatches
     IN  \/ stuck /\ LeaveList("failure")
         \/ ~stuck /\ ~more /\ LeaveList(ListOutcome(wl))
         \/ ~stuck /\ more /\ pc' = "replan" /\ UNCHANGED outcome
  /\ UNCHANGED <<node, steps, stage, last, result, list, file, published, claimed, bounds>>

ReplanEnds ==
  /\ pc = "replan"
  /\ \/ ~file.whole /\ Throw
     \/ /\ file.whole
        /\ last' \in DispatchStatuses
        /\ doc' = file.items
        /\ wl' = synchronizeRuntimeWorklist(wl, file.items)
        /\ \/ /\ countPendingItems(wl') <= countPendingItems(wl)
              /\ LeaveList(ListOutcome(wl'))
              /\ UNCHANGED batch
           \/ /\ countPendingItems(wl') > countPendingItems(wl)
              /\ pc' = "load" /\ batch' = batch + 1
              /\ UNCHANGED outcome
        /\ UNCHANGED <<node, steps, stage, result, item, processed, published>>
  /\ UNCHANGED <<file, claimed, bounds>>

-----------------------------------------------------------------------------
(* What agents and faults do.                                                *)

NewItem(i) == [id |-> i, status |-> "pending", attempts |-> 0]

(* A planner adds an item, replaces the document by one item, or reopens one. *)
(* Items it adds are new: it is told not to recreate what was done.          *)
Plans(d) ==
  LET fresh == Items \ (claimed \cup Ids(d))
  IN  {Append(d, NewItem(i)) : i \in fresh} \cup {<<NewItem(i)>> : i \in fresh}
      \cup {[d EXCEPT ![k].status = "pending"] : k \in {j \in DOMAIN d : d[j].status \in Reopens}}

PlannerWrites ==
  /\ pc \in {"plan", "replan"} \/ (pc = "agent" /\ node \in Writers)
  /\ \E d \in Plans(IF file.whole THEN file.items ELSE <<>>) :
       file' = [whole |-> TRUE, items |-> d]
  /\ UNCHANGED <<pc, walk, result, list, published, claimed, bounds>>

(* An agent's call is rejected, or the process dies.                         *)
Abort ==
  /\ pc # "idle" /\ faults < MaxFaults
  /\ faults' = faults + 1
  /\ Throw
  /\ UNCHANGED <<file, claimed, calls>>

(* The process dies while it rewrites the document.                          *)
AbortInWrite ==
  /\ faults < MaxFaults
  /\ pc = "worker" \/ (pc = "items" /\ ReadyItems(wl, doc) # {})
  /\ faults' = faults + 1
  /\ file' = [whole |-> FALSE, items |-> <<>>]
  /\ Throw
  /\ UNCHANGED <<claimed, calls>>

Execute ==
  \/ Exhausted \/ EnterNode \/ AgentEnds \/ LeaveNode
  \/ Load \/ PlanEnds \/ StartItem \/ WorkerEnds \/ BatchEnds \/ ReplanEnds

Next == Call \/ Execute \/ PlannerWrites \/ Abort \/ AbortInWrite

(* The agents' calls end: every adapter waits for them with a timeout.       *)
Spec == Init /\ [][Next]_vars /\ WF_vars(Execute)

-----------------------------------------------------------------------------
(* Properties.                                                               *)

Item == [id : Items, status : Statuses, attempts : Nat]
Document == {d \in Seq(Item) : \A j, k \in DOMAIN d : d[j].id = d[k].id => j = k}

(* Every variable has its type, and documents name an item once.             *)
TypeOK ==
  /\ pc \in {"idle", "node", "agent", "leave", "load", "plan", "items", "worker", "replan"}
  /\ node \in Nodes /\ steps \in 0..MaxSteps
  /\ stage \in Stages \cup {None}
  /\ last \in DispatchStatuses \cup {None} /\ outcome \in Conditions \cup {None}
  /\ result \in {None, "done", "stuck", "discarded", "crash", "error"}
  /\ DOMAIN wl = {"items", "completed", "failed"}
  /\ DOMAIN wl.items \subseteq Items
  /\ \A i \in DOMAIN wl.items : wl.items[i] \in [status : Statuses, attempts : Nat]
  /\ wl.completed \subseteq Items /\ wl.failed \subseteq Items
  /\ doc \in Document /\ file.items \in Document /\ file.whole \in BOOLEAN
  /\ batch \in 0..MaxBatches - 1 /\ item \in Items \cup {None} /\ processed \in BOOLEAN
  /\ published \in [Stages -> Int]
  /\ claimed \subseteq Items
  /\ calls \in 0..MaxCalls /\ faults \in 0..MaxFaults

(* The stage events of a call are bracketed: outside sees the active stage   *)
(* started and not completed, and no other, although a stage is left in      *)
(* three places; only a call that threw leaves its stage open.               *)
StagesBalanced ==
  result # "error" => published = [s \in Stages |-> IF s = stage THEN 1 ELSE 0]

(* The two lists that decide which items are ready and whether the node      *)
(* succeeded agree with the map of items, for the items of the document,     *)
(* through reloads, replans, failures and retries.                           *)
ListsMatchItems ==
  pc \in {"items", "worker", "replan"} =>
    /\ Ids(doc) \subseteq DOMAIN wl.items
    /\ wl.completed = HasStatus(wl, doc, {"completed"})
    /\ wl.failed = HasStatus(wl, doc, Bad)

(* An item is not handed out again once a worker may have done it, in this   *)
(* execution, a later batch, a later visit of the node or a later call, also *)
(* when a call dies with the item in flight; unless an agent reopens it.     *)
AtMostOnce == [][pc = "items" /\ pc' = "worker" => item' \notin claimed]_vars

(* An item that is settled stays settled while the node runs: a document the *)
(* planner rewrote does not bring it back.                                   *)
SettledStays ==
  [][\A i \in DOMAIN wl.items :
       wl.items[i].status \in Bad \cup {"completed"} /\ pc' \notin {"idle", "node"} =>
         i \in DOMAIN wl'.items /\ wl'.items[i].status = wl.items[i].status]_vars

(* A worker is started only when every item it depends on is completed, in   *)
(* the document on disk too.                                                 *)
DependenciesOnDisk ==
  pc = "worker" =>
    \A i \in DependsOn[item] :
      \E k \in DOMAIN file.items : file.items[k].id = i /\ file.items[k].status = "completed"

(* Every call ends.                                                          *)
CallEnds == pc # "idle" ~> pc = "idle"

(* What tests/e2e/templateCases.mjs says of a finished run: every item of    *)
(* the queue is completed.                                                   *)
DoneItemsCompleted ==
  result = "done" =>
    \A k \in DOMAIN file.items : file.items[k].status = "completed"

(* README.md, line 279: the autoresearch loop goes from its evaluation to    *)
(* keep or discard.                                                          *)
EvaluationDecides == pc = "idle" /\ result \notin {None, "error"} => node # "evaluate_results"

=============================================================================
