------------------------ MODULE CtenoWorkspaceProofs ------------------------
(***************************************************************************)
(* What every step of the Cteno adapter preserves, for any workspace,      *)
(* messages and answers, and any number of dispatches, sessions, crashes,  *)
(* I/O errors and errors of the host.                                      *)
(***************************************************************************)
EXTENDS CtenoWorkspace, RuntimeCoreProofs, TurnPlanningProofs

----------------------------------------------------------------------------
(* The inductive invariant *)

\* A task is one dispatch's, and named for a dispatch that there is or for a session only.
TaskInv(ds) ==
  /\ \A d, e \in DOMAIN ds : ds[d].task # None /\ ds[d].task = ds[e].task => d = e
  /\ \A d \in DOMAIN ds : ds[d].task # None => ds[d].task[2] \in DOMAIN ds \cup {0}

\* RunningHasWork, of a runtime in memory or on disk
WorkInv(ds, w) ==
  w.mode = "workflow_running" =>
    /\ w.request
    /\ \/ w.node = None
       \/ NodeRole[w.node] = None
       \/ \E d \in DOMAIN ds :
            /\ ds[d].node = w.node
            /\ \/ ds[d].status \notin Terminal
               \/ \E c \in EdgeConditions(w.node, ds[d].status) : NextNode(w.node, c) = None

\* A runtime and its workflow, wherever they are kept
GoodHalves(r, w) ==
  GoodRuntime(r) /\ w \in WorkflowState /\ TaskInv(r.dispatches) /\ WorkInv(r.dispatches, w)

InitLists == {<<"spec", "seed", "binding">>, <<"seed", "binding">>, <<"binding">>}
PersistLists == {<<"state", "provider", "log">>, <<"provider", "log">>, <<"log">>}

\* The call has the stage, the files and the job that belong together; no object, no workflow.
CallInv ==
  /\ call \in Call /\ job \in Job
  /\ call.stage = "down" => wf = NewWorkflow
  /\ call.stage = "preparing" => call.files \in InitLists
  /\ call.stage = "writing" => call.files \in PersistLists
  /\ call.stage \in {"down", "idle", "busy"} => call.files = <<>>
  /\ call.stage \in {"down", "idle"} => job = NoJob
  /\ call.stage = "preparing" => job.kind = "boot"
  /\ call.stage = "busy" => job.kind # "none"
  /\ call.stage = "writing" => job.kind \in {"none", "boot"}

\* The dispatch that a message is for waits, and no task is named for it yet.
JobInv ==
  /\ job.kind \in {"assign", "dispatch"} => job.id \in DOMAIN rt.dispatches
  /\ job.kind = "dispatch" =>
       /\ rt.dispatches[job.id].status = "queued"
       /\ \A d \in DOMAIN rt.dispatches :
            rt.dispatches[d].task # None => rt.dispatches[d].task[2] # job.id
       /\ job.todo \in Seq(RoleTaskRequest)

\* A workspace that can be used has a session for each role; a bootstrap is on the way there.
HostInv ==
  /\ host \in {"fresh", "ready", "failed"}
  /\ spawned \in 0..MaxSessions
  /\ DOMAIN bindings \subseteq Roles /\ Range(bindings) \subseteq 1..spawned
  /\ host = "ready" => DOMAIN bindings = Roles
  /\ call.stage \in {"busy", "writing"} /\ job.kind # "boot" => host = "ready"
  /\ job.kind = "boot" =>
       /\ host # "ready"
       /\ job.todo \in Seq(Roles) /\ job.todo # <<>>
       /\ IF call.stage = "writing" THEN DOMAIN bindings = Roles
          ELSE Roles = DOMAIN bindings \cup Range(job.todo)

\* What reads well on disk is a good runtime, and the sessions of a complete workspace or none.
DiskShape ==
  /\ DOMAIN disk = {"spec", "state", "provider", "log"}
  /\ disk.state.is = "ok" =>
       \E r : GoodHalves(r, disk.state.wf) /\ disk.state.rt = Snapshot(r)
  /\ disk.provider.is = "ok" =>
       /\ disk.provider.bindings = <<>> \/ DOMAIN disk.provider.bindings = Roles
       /\ Range(disk.provider.bindings) \subseteq 1..spawned

\* The sessions in use are saved, of a bootstrap once only the log is left to write.
SavedInv ==
  /\ SessionsOnDisk
  /\ call.stage = "writing" /\ Head(call.files) = "log" /\ disk.provider.is = "ok" =>
       disk.provider.bindings = bindings

IInv ==
  /\ GoodHalves(rt, wf)
  /\ acked \subseteq DispatchIds /\ faults \in 0..MaxFaults
  /\ inbox \in [Sessions -> Seq(DispatchIds)]
  /\ CallInv /\ JobInv /\ HostInv /\ DiskShape /\ SavedInv

----------------------------------------------------------------------------
(* The two halves of the runtime *)

\* What a running workflow waits for stays while no dispatch ends.
LEMMA WorkKept ==
  ASSUME NEW ds, NEW nxt, NEW w, WorkInv(ds, w),
         \A d \in DOMAIN ds :
           /\ d \in DOMAIN nxt /\ nxt[d].node = ds[d].node
           /\ \/ nxt[d].status = ds[d].status
              \/ {ds[d].status, nxt[d].status} \cap Terminal = {}
  PROVE  WorkInv(nxt, w)
BY DEF WorkInv

\* Tasks stay apart while none is given out.
LEMMA TasksKept ==
  ASSUME NEW ds, NEW nxt, TaskInv(ds), DOMAIN ds \subseteq DOMAIN nxt,
         \A d \in DOMAIN nxt :
           IF d \in DOMAIN ds THEN nxt[d].task = ds[d].task ELSE nxt[d].task = None
  PROVE  TaskInv(nxt)
BY DEF TaskInv

\* Queueing a dispatch, claimed or not, gives the workflow something to wait for at its node.
LEMMA QueueKeeps ==
  ASSUME NEW r, GoodRuntime(r), TaskInv(r.dispatches),
         NEW id \in DispatchIds \ DOMAIN r.dispatches, NEW request \in RoleTaskRequest,
         NEW nxt, nxt = QueueDispatch(r, id, request) \/ nxt = QueueAndClaim(r, id, request)
  PROVE  /\ GoodRuntime(nxt) /\ TaskInv(nxt.dispatches)
         /\ \A w : WorkInv(r.dispatches, w) => WorkInv(nxt.dispatches, w)
         /\ \A w : w.request /\ w.node = request.node => WorkInv(nxt.dispatches, w)
         /\ DOMAIN nxt.dispatches = DOMAIN r.dispatches \cup {id}
         /\ nxt.dispatches[id].status = "queued" /\ nxt.dispatches[id].task = None
         /\ \A d \in DOMAIN r.dispatches :
              /\ nxt.dispatches[d].node = r.dispatches[d].node
              /\ nxt.dispatches[d].status = r.dispatches[d].status
              /\ nxt.dispatches[d].task = r.dispatches[d].task
<1>1. /\ GoodStep(r, nxt)
      /\ DOMAIN nxt.dispatches = DOMAIN r.dispatches \cup {id}
      /\ nxt.dispatches[id].status = "queued" /\ nxt.dispatches[id].task = None
      /\ nxt.dispatches[id].node = request.node
      /\ \A d \in DOMAIN r.dispatches :
           /\ nxt.dispatches[d].status = r.dispatches[d].status
           /\ nxt.dispatches[d].task = r.dispatches[d].task
  <2>1. CASE nxt = QueueAndClaim(r, id, request)
    BY <2>1, QueueAndClaimGood
  <2>2. CASE nxt = QueueDispatch(r, id, request)
    BY <2>2, QueueDispatchGood, QueueDispatchEffect DEF GoodRuntime
  <2> QED BY <2>1, <2>2
<1>2. \A d \in DOMAIN r.dispatches : nxt.dispatches[d].node = r.dispatches[d].node
  BY <1>1 DEF GoodStep, KeepsBindings
<1>3. TaskInv(nxt.dispatches)
  BY <1>1, TasksKept
<1>4. \A w : WorkInv(r.dispatches, w) => WorkInv(nxt.dispatches, w)
  BY <1>1, <1>2, WorkKept
<1>5. \A w : w.request /\ w.node = request.node => WorkInv(nxt.dispatches, w)
  BY <1>1 DEF WorkInv, Terminal
<1> QED BY <1>1, <1>2, <1>3, <1>4, <1>5 DEF GoodStep

\* Starting the front of the queue with a task that nobody has.
LEMMA StartKeeps ==
  ASSUME NEW r, GoodRuntime(r), TaskInv(r.dispatches), CanStartNext(r), NEW t \in TaskIds,
         t \notin BoundTasks(r.dispatches), t[2] \in DOMAIN r.dispatches \cup {0},
         NEW nxt, nxt = StartNextDispatch(r, t)
  PROVE  /\ GoodRuntime(nxt) /\ TaskInv(nxt.dispatches)
         /\ \A w : WorkInv(r.dispatches, w) => WorkInv(nxt.dispatches, w)
         /\ DOMAIN nxt.dispatches = DOMAIN r.dispatches
         /\ \A d \in DOMAIN r.dispatches : nxt.dispatches[d].task \in {r.dispatches[d].task, t}
<1> DEFINE id == Head(r.pending)
           ds == nxt.dispatches
<1>1. /\ id \in DOMAIN r.dispatches /\ r.dispatches[id].status = "queued"
      /\ DOMAIN ds = DOMAIN r.dispatches
      /\ ds[id].status = "started" /\ ds[id].task = t
      /\ \A d \in DOMAIN r.dispatches \ {id} : ds[d] = r.dispatches[d]
  BY StartNextDispatchEffect
<1>2. GoodRuntime(nxt) /\ KeepsBindings(r, nxt)
  BY StartNextDispatchGood DEF GoodStep
<1>3. \A d \in DOMAIN r.dispatches : ds[d].node = r.dispatches[d].node
  BY <1>2 DEF KeepsBindings
<1> HIDE DEF id, ds
<1>4. \A d \in DOMAIN r.dispatches : r.dispatches[d].task # t
  BY NoneAssumption DEF BoundTasks
<1>5. TaskInv(ds)
  <2>1. ASSUME NEW d \in DOMAIN ds, NEW e \in DOMAIN ds, ds[d].task # None,
               ds[d].task = ds[e].task
        PROVE  d = e
    <3>1. CASE d # id /\ e # id
      BY <1>1, <2>1, <3>1 DEF TaskInv
    <3>2. CASE d = id \/ e = id
      BY <1>1, <1>4, <2>1, <3>2
    <3> QED BY <3>1, <3>2
  <2>2. ASSUME NEW d \in DOMAIN ds, ds[d].task # None
        PROVE  ds[d].task[2] \in DOMAIN ds \cup {0}
    <3>1. CASE d = id
      BY <1>1, <3>1
    <3>2. CASE d # id
      BY <1>1, <2>2, <3>2 DEF TaskInv
    <3> QED BY <3>1, <3>2
  <2> QED BY <2>1, <2>2 DEF TaskInv
<1>6. \A w : WorkInv(r.dispatches, w) => WorkInv(ds, w)
  <2>1. \A d \in DOMAIN r.dispatches :
          /\ d \in DOMAIN ds /\ ds[d].node = r.dispatches[d].node
          /\ \/ ds[d].status = r.dispatches[d].status
             \/ {r.dispatches[d].status, ds[d].status} \cap Terminal = {}
    BY <1>1, <1>3 DEF Terminal
  <2> QED BY <2>1, WorkKept
<1>7. \A d \in DOMAIN r.dispatches : ds[d].task \in {r.dispatches[d].task, t}
  BY <1>1
<1> QED BY <1>1, <1>2, <1>5, <1>6, <1>7 DEF ds

\* Progress of a task that is not over, and answers outside any task, end nothing.
LEMMA ProgressKeeps ==
  ASSUME NEW r, NEW w, GoodHalves(r, w), NEW t, KnowsTask(r, t),
         r.dispatches[r.taskMap[t]].status \notin Terminal,
         NEW nxt, nxt = ProgressDispatch(r, t)
  PROVE  GoodHalves(nxt, w)
<1> DEFINE id == r.taskMap[t]
           ds == nxt.dispatches
<1>1. /\ id \in DOMAIN r.dispatches /\ r.dispatches[id].task = t
      /\ DOMAIN ds = DOMAIN r.dispatches
      /\ ds[id].status = "running" /\ ds[id].task = t
      /\ \A d \in DOMAIN r.dispatches \ {id} : ds[d] = r.dispatches[d]
  BY ReportEffect DEF GoodHalves
<1>2. GoodRuntime(nxt) /\ KeepsBindings(r, nxt)
  BY ProgressDispatchGood DEF GoodHalves, GoodStep
<1>3. \A d \in DOMAIN r.dispatches : ds[d].node = r.dispatches[d].node
  BY <1>2 DEF KeepsBindings
<1>4. TaskInv(ds)
  BY <1>1, TasksKept DEF GoodHalves
<1>5. WorkInv(ds, w)
  <2>1. \A d \in DOMAIN r.dispatches :
          /\ d \in DOMAIN ds /\ ds[d].node = r.dispatches[d].node
          /\ \/ ds[d].status = r.dispatches[d].status
             \/ {r.dispatches[d].status, ds[d].status} \cap Terminal = {}
    BY <1>1, <1>3 DEF Terminal
  <2> QED BY <2>1, WorkKept DEF GoodHalves
<1> QED BY <1>2, <1>4, <1>5 DEF GoodHalves

\* Completing a task, with a text or without, changes the status of its dispatch and no other.
LEMMA CompletionEffect ==
  ASSUME NEW r, GoodRuntime(r), TaskInv(r.dispatches), NEW t, KnowsTask(r, t),
         NEW status \in Terminal, NEW done, done = CompleteDispatch(r, t, status),
         NEW nxt, nxt = done \/ nxt = AttachResultText(done, t)
  PROVE  LET id == r.taskMap[t]
         IN  /\ GoodRuntime(nxt) /\ TaskInv(nxt.dispatches)
             /\ id \in DOMAIN r.dispatches /\ nxt.dispatches[id].status = status
             /\ DOMAIN nxt.dispatches = DOMAIN r.dispatches
             /\ \A d \in DOMAIN r.dispatches :
                  /\ nxt.dispatches[d].node = r.dispatches[d].node
                  /\ nxt.dispatches[d].role = r.dispatches[d].role
                  /\ nxt.dispatches[d].task = r.dispatches[d].task
                  /\ d # id => nxt.dispatches[d].status = r.dispatches[d].status
<1> DEFINE id == r.taskMap[t]
           ds == done.dispatches
<1>1. /\ id \in DOMAIN r.dispatches /\ r.dispatches[id].task = t
      /\ DOMAIN ds = DOMAIN r.dispatches
      /\ ds[id].status = status /\ ds[id].task = t
      /\ \A d \in DOMAIN r.dispatches \ {id} : ds[d] = r.dispatches[d]
  BY ReportEffect
<1>2. GoodRuntime(done) /\ KeepsBindings(r, done)
  BY CompleteDispatchGood DEF GoodStep, Terminal, DispatchStatus
<1>3. /\ GoodRuntime(nxt) /\ KeepsBindings(done, nxt)
      /\ DOMAIN nxt.dispatches = DOMAIN ds
      /\ \A d \in DOMAIN ds : /\ nxt.dispatches[d].status = ds[d].status
                              /\ nxt.dispatches[d].task = ds[d].task
  <2>1. KnowsTask(done, t)
    <3>1. done.taskMap = r.taskMap
      BY DEF GoodRuntime, IsRuntime, CompleteDispatch
    <3> QED BY <3>1 DEF KnowsTask
  <2>2. CASE nxt = done
    BY <1>2, <2>2, GoodStepsCompose DEF GoodStep
  <2>3. CASE nxt = AttachResultText(done, t)
    BY <1>2, <2>1, <2>3, AttachResultTextGood, OtherEffect DEF GoodStep
  <2> QED BY <2>2, <2>3
<1>4. \A d \in DOMAIN r.dispatches : /\ nxt.dispatches[d].node = r.dispatches[d].node
                                    /\ nxt.dispatches[d].role = r.dispatches[d].role
  BY <1>2, <1>3 DEF KeepsBindings
<1> HIDE DEF id, ds
<1>5. \A d \in DOMAIN r.dispatches : nxt.dispatches[d].task = r.dispatches[d].task
  BY <1>1, <1>3
<1>6. TaskInv(nxt.dispatches)
  BY <1>1, <1>3, <1>5, TasksKept
<1> QED BY <1>1, <1>3, <1>4, <1>5, <1>6 DEF id

\* A node is left along an edge out of it that is for the condition, or an unconditional one.
LEMMA NextIsAlongEdge ==
  ASSUME NEW node, NEW condition, NEW next, next = NextNode(node, condition)
  PROVE  \/ next = None
         \/ /\ next \in Nodes
            /\ \E i \in DOMAIN Edges :
                 /\ Edges[i].from = node /\ Edges[i].to = next
                 /\ Edges[i].when \in {condition, "always"}
<1> DEFINE exact == EdgesFrom(node, condition)
           edges == IF exact # {} THEN exact ELSE EdgesFrom(node, "always")
           first == CHOOSE i \in edges : \A j \in edges : i <= j
<1>1. /\ edges \subseteq DOMAIN Edges
      /\ \A i \in edges : Edges[i].from = node /\ Edges[i].when \in {condition, "always"}
  BY DEF EdgesFrom
<1>2. next = IF edges = {} THEN None ELSE Edges[first].to
  BY DEF NextNode
<1> HIDE DEF edges
<1>3. CASE edges # {}
  <2> DEFINE EdgeRecord == [from: Nodes, when: EdgeCondition, to: Nodes]
  <2>1. Edges \in Seq(EdgeRecord) /\ \A e \in EdgeRecord : e.to \in Nodes
    BY EdgesAssumption
  <2> HIDE DEF EdgeRecord
  <2>2. DOMAIN Edges \subseteq Nat /\ \A i \in DOMAIN Edges : Edges[i].to \in Nodes
    BY <2>1
  <2>3. \E i \in edges : \A j \in edges : i <= j
    BY <1>1, <1>3, <2>2, LeastExists
  <2>4. first \in edges
    BY <2>3
  <2> QED BY <1>1, <1>2, <1>3, <2>2, <2>4
<1> QED BY <1>2, <1>3

\* A workflow that is taken on from a dispatch that is over goes along an edge or ends; where it
\* goes there is a followup to wait for, or nobody, and where it stays it is stuck, or waits
\* for somebody else.
LEMMA AdvanceKeeps ==
  ASSUME NEW r, NEW w, GoodHalves(r, w), NEW id \in DOMAIN r.dispatches,
         NEW ds, DOMAIN ds = DOMAIN r.dispatches, ds[id].status \in Terminal,
         ds[id].node \in Maybe(Nodes),
         \A d \in DOMAIN ds : /\ ds[d].node = r.dispatches[d].node
                              /\ d # id => ds[d].status = r.dispatches[d].status,
         NEW a \in Advanced(w, ds[id])
  PROVE  /\ a.wf \in WorkflowState /\ a.followups \subseteq RoleTaskRequest
         /\ a.followups = {} => WorkInv(ds, a.wf)
         /\ \A f \in a.followups : a.wf.request /\ a.wf.node = f.node
         /\ w.mode = "workflow_running" /\ a.wf.mode = "workflow_running" /\ a.wf.node # w.node =>
              \E i \in DOMAIN Edges :
                /\ Edges[i].to = a.wf.node /\ Edges[i].from = ds[id].node
                /\ Edges[i].when \in EdgeConditions(ds[id].node, ds[id].status) \cup {"always"}
<1> DEFINE node == ds[id].node
           status == ds[id].status
<1>1. w \in WorkflowState /\ WorkInv(r.dispatches, w)
  BY DEF GoodHalves
<1>2. ASSUME w.mode = "workflow_running", w.node # node \/ node = None
      PROVE  WorkInv(ds, w)
  BY <1>1, <1>2 DEF WorkInv
<1>3. CASE ~Advances(w, node)
  <2>1. a.wf = w /\ a.followups = {}
    BY <1>3 DEF Advanced
  <2>2. WorkInv(ds, w)
    <3>1. CASE w.mode # "workflow_running"
      BY <3>1 DEF WorkInv
    <3>2. CASE w.mode = "workflow_running"
      BY <1>2, <1>3, <3>2 DEF Advances, Maybe
    <3> QED BY <3>1, <3>2
  <2> QED BY <1>1, <2>1, <2>2
<1>4. CASE Advances(w, node) /\ IsTerminalNode(node, status)
  <2>1. a.wf = EndWorkflow(w) /\ a.followups = {}
    BY <1>4 DEF Advanced
  <2>2. EndWorkflow(w) \in WorkflowState /\ EndWorkflow(w).mode = "group_chat"
    BY <1>1 DEF EndWorkflow, WorkflowState, WorkspaceMode, Maybe
  <2> QED BY <2>1, <2>2 DEF WorkInv
<1>5. CASE Advances(w, node) /\ ~IsTerminalNode(node, status)
  <2>1. PICK condition \in EdgeConditions(node, status) :
          /\ a.wf = MoveWorkflow(w, NextNode(node, condition))
          /\ a.followups = Followups(w, NextNode(node, condition))
    BY <1>5 DEF Advanced
  <2> DEFINE next == NextNode(node, condition)
  <2>2. \/ next = None
        \/ /\ next \in Nodes
           /\ \E i \in DOMAIN Edges :
                /\ Edges[i].from = node /\ Edges[i].to = next
                /\ Edges[i].when \in {condition, "always"}
    BY NextIsAlongEdge
  <2>3. w.mode = "workflow_running" /\ node \in Nodes /\ w.request
    BY <1>1, <1>5 DEF Advances, WorkInv
  <2>4. CASE next = None
    <3>1. a.wf = w /\ a.followups = {}
      BY <2>1, <2>4 DEF MoveWorkflow, Followups
    <3>2. CASE w.node # node
      BY <1>1, <1>2, <2>3, <3>1, <3>2
    <3>3. CASE w.node = node
      <4>1. WorkInv(ds, w)
        BY <2>1, <2>3, <2>4, <3>3 DEF WorkInv
      <4> QED BY <1>1, <3>1, <4>1
    <3> QED BY <3>2, <3>3
  <2>5. CASE next # None
    <3>1. /\ a.wf = [w EXCEPT !.node = next]
          /\ a.followups = IF NodeRole[next] # None
                           THEN {[role |-> NodeRole[next], node |-> next]} ELSE {}
      BY <2>1, <2>3, <2>5 DEF MoveWorkflow, Followups
    <3> HIDE DEF next
    <3>2. /\ a.wf \in WorkflowState /\ a.wf.mode = w.mode
          /\ a.wf.request /\ a.wf.node = next
      BY <1>1, <2>2, <2>3, <2>5, <3>1 DEF WorkflowState, Maybe
    <3>3. a.followups \subseteq RoleTaskRequest /\ \A f \in a.followups : f.node = next
      <4>1. NodeRole[next] \in Maybe(Roles)
        BY <2>2, <2>5, NodeRoleAssumption
      <4> QED BY <2>2, <2>5, <3>1, <4>1 DEF RoleTaskRequest, Maybe
    <3>4. a.followups = {} => WorkInv(ds, a.wf)
      <4>1. a.followups = {} => NodeRole[next] = None
        BY <3>1
      <4> QED BY <3>2, <4>1 DEF WorkInv
    <3> QED BY <2>1, <2>2, <2>5, <3>2, <3>3, <3>4
  <2> QED BY <2>4, <2>5
<1> QED BY <1>3, <1>4, <1>5

\* That every member answers ends nothing.
LEMMA AnswersKeep ==
  ASSUME NEW r, NEW w, GoodHalves(r, w)
  PROVE  /\ GoodHalves(AllAnswered(r), w)
         /\ AllAnswered(r).dispatches = r.dispatches
BY AllAnsweredGood DEF GoodHalves, GoodStep

----------------------------------------------------------------------------
(* What a turn can come to *)

LEMMA MessageGood ==
  ASSUME NEW request \in Messages
  PROVE  GoodTurn(Workspace, request) /\ Named(Workspace, request) \subseteq Roles
<1>1. GoodTurn(Workspace, request)
  BY WorkspaceAssumption, MessagesAssumption DEF GoodTurn
<1>2. KnownRoles(Workspace) = Roles
  BY WorkspaceAssumption DEF KnownRoles
<1>3. ({Workspace.coordinator, Workspace.default, Workspace.claim.fallback, request.prefer}
         \ {None}) \subseteq Roles
  BY NamesAssumption DEF Maybe
<1>4. ASSUME Workspace.workflow # None, NEW n \in DOMAIN Workspace.workflow.nodes
      PROVE  RoleIds(Workspace.workflow.nodes[n]) \subseteq Roles
  BY <1>4, NamesAssumption
<1> QED BY <1>1, <1>2, <1>3, <1>4 DEF Named

\* Every plan is one for the roles and nodes of the workspace.
LEMMA PlanTyped ==
  ASSUME NEW request \in Messages, NEW p, NEW max, GoodPlan(Workspace, request, p, max)
  PROVE  p \in Seq(RoleTaskRequest)
<1>1. p \in Seq(Assignment)
  BY DEF GoodPlan
<1>2. ASSUME NEW i \in DOMAIN p
      PROVE  p[i] \in RoleTaskRequest
  <2>1. p[i] \in Assignment
    BY <1>1
  <2>2. p[i].role \in Roles /\ p[i].node \in Maybe(Nodes)
    <3>1. CASE p[i].node = None
      BY <3>1, MessageGood DEF GoodPlan, PlanFits, Maybe
    <3>2. CASE p[i].node # None
      BY <3>2, NamesAssumption DEF GoodPlan, PlanFits, Maybe
    <3> QED BY <3>1, <3>2
  <2> QED BY <2>1, <2>2 DEF Assignment, RoleTaskRequest
<1> QED BY <1>1, <1>2

\* The plan of an approved workflow has its entry, unless nobody can take that.
LEMMA EntryPlanResolved ==
  ASSUME NEW request \in Messages, Workspace.workflow # None
  PROVE  LET entry == Workspace.workflow.entry
         IN  /\ entry \in Nodes
             /\ EntryPlan(Workspace, request) =
                  IF NodeRole[entry] = None THEN <<>>
                  ELSE <<[role |-> NodeRole[entry], node |-> entry]>>
<1> DEFINE entry == Workspace.workflow.entry
<1>1. entry \in Nodes /\ entry \in DOMAIN Workspace.workflow.nodes
  BY NamesAssumption
<1>2. NodeRole[entry] = ResolveNodeRole(Workspace, request, Workspace.workflow.nodes[entry])
  BY <1>1, ResolvedAssumption
<1> QED BY <1>1, <1>2 DEF EntryPlan

Approved(plan) ==
  /\ Workspace.workflow # None /\ Workspace.workflow.entry \in Nodes
  /\ plan = IF NodeRole[Workspace.workflow.entry] = None THEN <<>>
            ELSE <<[role |-> NodeRole[Workspace.workflow.entry],
                    node |-> Workspace.workflow.entry]>>

LEMMA FinalPlanTyped ==
  ASSUME NEW request \in Messages, NEW p,
         GoodPlan(Workspace, request, p, MaxAssignments(Workspace, request)),
         NEW answer, NEW ok, NEW d, d = CoordinatorDecision(Workspace, request, answer),
         NEW plan, plan = FinalPlan(Workspace, request, p, d, ok)
  PROVE  /\ plan \in Seq(RoleTaskRequest)
         /\ d.kind = "propose_workflow" /\ ok => Approved(plan)
<1>1. GoodTurn(Workspace, request)
  BY MessageGood
<1>2. CASE d.kind = "propose_workflow" /\ ok
  <2>1. plan = EntryPlan(Workspace, request)
    BY <1>2 DEF FinalPlan
  <2>2. Workspace.workflow # None
    BY <1>2 DEF CoordinatorDecision, ParsedDecision, Decision, ShouldPropose
  <2>3. plan \in Seq(RoleTaskRequest)
    BY <1>1, <2>1, EntryPlanGood, PlanTyped
  <2> QED BY <2>1, <2>2, <2>3, EntryPlanResolved DEF Approved
<1>3. CASE ~(d.kind = "propose_workflow" /\ ok)
  <2>1. CASE d.kind = "delegate" /\ p = <<>>
    <3>1. plan = DirectPlan(d.target) /\ d.target \in Named(Workspace, request)
      BY <1>1, <1>3, <2>1, DecisionTyped DEF FinalPlan
    <3>2. GoodPlan(Workspace, request, plan, 1)
      BY <1>1, <3>1, DirectPlanGood
    <3> QED BY <1>3, <3>2, PlanTyped
  <2>2. CASE ~(d.kind = "delegate" /\ p = <<>>)
    BY <1>3, <2>2, PlanTyped DEF FinalPlan
  <2> QED BY <2>1, <2>2
<1> QED BY <1>2, <1>3

LEMMA ConsultedTyped ==
  ASSUME NEW request \in Messages, NEW p,
         GoodPlan(Workspace, request, p, MaxAssignments(Workspace, request)),
         NEW o \in Consulted(request, p)
  PROVE  /\ o.plan \in Seq(RoleTaskRequest)
         /\ o.vote \in {"none", "approved", "rejected"}
         /\ o.vote = "approved" => Approved(o.plan)
<1> DEFINE decisions == {CoordinatorDecision(Workspace, request, answer) :
                           answer \in CoordinatorAnswers \cup {None}}
           Settled(d, ok, vote) ==
             [plan |-> FinalPlan(Workspace, request, p, d, ok), vote |-> vote]
<1>1. PICK d \in decisions :
        \/ o = Settled(d, FALSE, "none")
        \/ /\ d.kind = "propose_workflow"
           /\ \E ok : o = Settled(d, ok, IF ok THEN "approved" ELSE "rejected")
  <2> HIDE DEF decisions
  <2>1. \E d \in decisions :
          o \in IF d.kind # "propose_workflow" THEN {Settled(d, FALSE, "none")}
                ELSE {Settled(d, ok, IF ok THEN "approved" ELSE "rejected") :
                        ok \in {Approves(Workspace, votes) :
                                votes \in {b \in [DOMAIN VoteCandidates(Workspace) -> VoteDecision] :
                                  \A i \in DOMAIN b :
                                    b[i] \in {NormalizedVote(Workspace, request, d.kind,
                                                 VoteCandidates(Workspace)[i], v) : v \in VoteDecision}
                                              \cup {"abstain"}}}}
    BY DEF Consulted, decisions
  <2> QED BY <2>1
<1>2. PICK answer : d = CoordinatorDecision(Workspace, request, answer)
  OBVIOUS
<1>3. CASE o = Settled(d, FALSE, "none")
  BY <1>2, <1>3, FinalPlanTyped
<1>4. ASSUME d.kind = "propose_workflow", NEW ok,
             o = Settled(d, ok, IF ok THEN "approved" ELSE "rejected")
      PROVE  /\ o.plan \in Seq(RoleTaskRequest)
             /\ o.vote \in {"none", "approved", "rejected"}
             /\ o.vote = "approved" => Approved(o.plan)
  BY <1>2, <1>4, FinalPlanTyped
<1> QED BY <1>1, <1>3, <1>4

\* Whatever the members answer, a turn comes to a plan for the roles of the workspace.
LEMMA OutcomeTyped ==
  ASSUME NEW outcome \in TurnOutcomes
  PROVE  /\ outcome.plan \in Seq(RoleTaskRequest)
         /\ outcome.vote \in {"none", "approved", "rejected"}
         /\ outcome.vote = "approved" => Approved(outcome.plan)
<1>1. PICK request \in Messages :
        \/ /\ request.prefer # None
           /\ outcome.vote = "none" /\ outcome.plan = DirectPlan(request.prefer)
        \/ \E claims \in ClaimSets(request) :
             LET plan == GroupPlan(Workspace, request, claims)
             IN  \/ \E o \in Consulted(request, plan) :
                      outcome.vote = o.vote /\ outcome.plan = o.plan
                 \/ outcome.vote = "none" /\ outcome.plan = plan
  BY DEF TurnOutcomes
<1>2. GoodTurn(Workspace, request)
  BY MessageGood
<1>3. CASE /\ request.prefer # None
           /\ outcome.vote = "none" /\ outcome.plan = DirectPlan(request.prefer)
  <2>1. request.prefer \in Named(Workspace, request)
    BY <1>3 DEF Named
  <2>2. GoodPlan(Workspace, request, outcome.plan, 1)
    BY <1>2, <1>3, <2>1, DirectPlanGood
  <2> QED BY <1>3, <2>2, PlanTyped
<1>4. ASSUME NEW claims \in ClaimSets(request)
      PROVE  GoodPlan(Workspace, request, GroupPlan(Workspace, request, claims),
                      MaxAssignments(Workspace, request))
  <2>1. DOMAIN claims = KnownRoles(Workspace)
    BY DEF ClaimSets, ClaimCandidates
  <2>2. ASSUME NEW r \in DOMAIN claims PROVE claims[r] \in ClaimResponse
    <3>1. \/ claims[r] = NoClaim
          \/ \E a \in ClaimAnswers : claims[r] = ParsedClaim(Workspace, request, r, a)
      BY <2>1, <2>2 DEF ClaimSets, ClaimCandidates
    <3>2. NoClaim \in ClaimResponse
      BY DEF NoClaim, ClaimResponse, ClaimDecision
    <3> QED BY <3>1, <3>2, ParsedClaimTyped, AnswersAssumption
  <2>3. GoodClaims(Workspace, claims)
    BY <2>1, <2>2 DEF GoodClaims
  <2> QED BY <1>2, <2>3, GroupPlanGood
<1>5. ASSUME NEW claims \in ClaimSets(request),
             LET plan == GroupPlan(Workspace, request, claims)
             IN  \/ \E o \in Consulted(request, plan) :
                      outcome.vote = o.vote /\ outcome.plan = o.plan
                 \/ outcome.vote = "none" /\ outcome.plan = plan
      PROVE  /\ outcome.plan \in Seq(RoleTaskRequest)
             /\ outcome.vote \in {"none", "approved", "rejected"}
             /\ outcome.vote = "approved" => Approved(outcome.plan)
  BY <1>4, <1>5, ConsultedTyped, PlanTyped
<1> QED BY <1>1, <1>3, <1>5

----------------------------------------------------------------------------
(* Calls that end or go on *)

LEMMA InitIInv == Init => IInv
<1> SUFFICES ASSUME Init PROVE IInv
  OBVIOUS
<1> USE DEF Init, InitWorkspace
<1>1. GoodHalves(rt, wf)
  BY NewRuntimeGood DEF GoodHalves, NewRuntime, NewWorkflow, WorkflowState, WorkspaceMode, Maybe,
                        TaskInv, WorkInv
<1>2. acked \subseteq DispatchIds /\ faults \in 0..MaxFaults
  BY MaxFaultsAssumption
<1>3. inbox \in [Sessions -> Seq(DispatchIds)]
  OBVIOUS
<1>4. CallInv /\ JobInv
  BY DEF CallInv, JobInv, Call, Resting, Job, NoJob, Maybe
<1>5. HostInv
  BY MaxSessionsAssumption DEF HostInv, Resting, NoJob, Range
<1>6. DiskShape /\ SavedInv
  BY DEF DiskShape, SavedInv, SessionsOnDisk, NoDisk, Missing, Resting
<1> QED BY <1>1, <1>2, <1>3, <1>4, <1>5, <1>6 DEF IInv

\* A step that touches neither the host nor the disk, and after which the call is over, is to be
\* persisted or waits for a session.
LEMMA CallGood ==
  ASSUME IInv, UNCHANGED <<bindings, disk, acked, host, spawned>>, faults' \in 0..MaxFaults,
         GoodHalves(rt', wf'), inbox' \in [Sessions -> Seq(DispatchIds)],
         call' \in Call, job' \in Job, job'.kind # "boot", JobInv',
         \/ call'.stage = "idle" /\ call'.files = <<>> /\ job' = NoJob
         \/ /\ host = "ready" /\ job' = NoJob
            /\ call'.stage = "writing" /\ call'.files = PersistFiles
         \/ /\ host = "ready" /\ job'.kind # "none"
            /\ call'.stage = "busy" /\ call'.files = <<>>
  PROVE  IInv'
<1>1. CallInv'
  <2>1. PersistFiles \in PersistLists /\ NoJob.kind = "none"
    BY DEF PersistLists, PersistFiles, NoJob
  <2>2. CASE call'.stage = "idle" /\ call'.files = <<>> /\ job' = NoJob
    BY <2>1, <2>2 DEF CallInv
  <2>3. CASE job' = NoJob /\ call'.stage = "writing" /\ call'.files = PersistFiles
    BY <2>1, <2>3 DEF CallInv
  <2>4. CASE job'.kind # "none" /\ call'.stage = "busy" /\ call'.files = <<>>
    BY <2>4 DEF CallInv
  <2> QED BY <2>2, <2>3, <2>4
<1>2. HostInv'
  BY DEF IInv, HostInv, NoJob
<1>3. DiskShape'
  BY DEF IInv, DiskShape
<1>4. SavedInv'
  BY DEF IInv, SavedInv, SessionsOnDisk, PersistFiles
<1> QED BY <1>1, <1>2, <1>3, <1>4 DEF IInv

\* A call of a workspace in use that ends in a persist.
LEMMA FinishGood ==
  ASSUME IInv, host = "ready", NEW completed \in SUBSET DispatchIds, Finish(completed),
         GoodHalves(rt', wf'), inbox' \in [Sessions -> Seq(DispatchIds)],
         UNCHANGED <<bindings, durableVars, host, spawned>>
  PROVE  IInv'
<1>1. call' = [stage |-> "writing", completed |-> completed, files |-> PersistFiles]
  BY DEF Finish, ToPersist
<1>2. call' \in Call /\ call'.stage = "writing" /\ call'.files = PersistFiles
  BY <1>1 DEF Call, PersistFiles
<1>3. job' = NoJob /\ NoJob \in Job /\ NoJob.kind = "none"
  BY DEF Finish, NoJob, Job, Maybe
<1>4. JobInv'
  BY <1>3 DEF JobInv
<1>5. UNCHANGED <<disk, acked, faults>> /\ faults \in 0..MaxFaults
  BY DEF durableVars, IInv
<1> QED BY <1>2, <1>3, <1>4, <1>5, CallGood

\* A call that fails: what it did in memory stays.
LEMMA AbortGood ==
  ASSUME IInv, HostFault, Abort, job' = NoJob,
         UNCHANGED <<rt, wf, bindings, disk, acked, host, spawned, inbox>>
  PROVE  IInv'
<1>1. call' \in Call /\ call'.stage = "idle" /\ call'.files = <<>>
  BY DEF Abort, Resting, Call
<1>2. NoJob \in Job /\ NoJob.kind = "none"
  BY DEF NoJob, Job, Maybe
<1>3. JobInv'
  BY <1>2 DEF JobInv
<1>4. faults' \in 0..MaxFaults
  BY MaxFaultsAssumption DEF HostFault, IInv
<1>5. GoodHalves(rt', wf') /\ inbox' \in [Sessions -> Seq(DispatchIds)]
  BY DEF IInv
<1> QED BY <1>1, <1>2, <1>3, <1>4, <1>5, CallGood

----------------------------------------------------------------------------
(* The life of the object, and what is written *)

\* A write, also one that is cut short, leaves a disk from which something good is restored.
LEMMA WriteKeeps ==
  ASSUME IInv, NEW file \in {"spec", "seed", "binding", "state", "provider", "log"},
         disk' = WriteFile(disk, file, Memory) \/ disk' \in BrokenWrite(disk, file, Memory),
         file = "provider" => DOMAIN bindings = Roles, spawned' = spawned
  PROVE  /\ DiskShape'
         /\ \/ disk'.provider = disk.provider
            \/ disk'.provider.is = "torn" /\ file \in {"binding", "provider"}
            \/ file = "binding"
            \/ file = "provider" /\ disk'.provider.bindings = bindings
         /\ file = "provider" /\ disk' = WriteFile(disk, file, Memory) =>
              disk'.provider.bindings = bindings
<1>1. /\ DOMAIN disk = {"spec", "state", "provider", "log"}
      /\ disk.state.is = "ok" =>
           \E r : GoodHalves(r, disk.state.wf) /\ disk.state.rt = Snapshot(r)
      /\ disk.provider.is = "ok" =>
           /\ disk.provider.bindings = <<>> \/ DOMAIN disk.provider.bindings = Roles
           /\ Range(disk.provider.bindings) \subseteq 1..spawned
  BY DEF IInv, DiskShape
<1>2. /\ DOMAIN disk' = {"spec", "state", "provider", "log"}
      /\ \/ disk'.state = disk.state
         \/ disk'.state.is \in {"seed", "torn"}
         \/ disk'.state.is = "ok" /\ disk'.state.rt = Snapshot(rt) /\ disk'.state.wf = wf
      /\ \/ disk'.provider = disk.provider
         \/ disk'.provider.is = "torn" /\ file \in {"binding", "provider"}
         \/ /\ disk'.provider.is = "ok"
            /\ \/ file = "binding" /\ disk'.provider.bindings = <<>>
               \/ file = "provider" /\ disk'.provider.bindings = bindings
      /\ file = "provider" /\ disk' = WriteFile(disk, file, Memory) =>
           disk'.provider.bindings = bindings
  <2>1. CASE file = "spec"
    BY <1>1, <2>1 DEF WriteFile, BrokenWrite
  <2>2. CASE file = "seed"
    BY <1>1, <2>2 DEF WriteFile, BrokenWrite, Torn
  <2>3. CASE file = "binding"
    BY <1>1, <2>3 DEF WriteFile, BrokenWrite, Torn
  <2>4. CASE file = "state"
    BY <1>1, <2>4 DEF WriteFile, BrokenWrite, Torn, Memory
  <2>5. CASE file = "provider"
    BY <1>1, <2>5 DEF WriteFile, BrokenWrite, Torn, Memory
  <2>6. CASE file = "log"
    BY <1>1, <2>6 DEF WriteFile, BrokenWrite, Memory
  <2> QED BY <2>1, <2>2, <2>3, <2>4, <2>5, <2>6
<1>3. disk'.state.is = "ok" =>
        \E r : GoodHalves(r, disk'.state.wf) /\ disk'.state.rt = Snapshot(r)
  <2>1. CASE disk'.state = disk.state
    BY <1>1, <2>1
  <2>2. CASE disk'.state.is \in {"seed", "torn"}
    BY <2>2
  <2>3. CASE disk'.state.rt = Snapshot(rt) /\ disk'.state.wf = wf
    BY <2>3 DEF IInv
  <2> QED BY <1>2, <2>1, <2>2, <2>3
<1>4. disk'.provider.is = "ok" =>
        /\ disk'.provider.bindings = <<>> \/ DOMAIN disk'.provider.bindings = Roles
        /\ Range(disk'.provider.bindings) \subseteq 1..spawned'
  <2>1. Range(bindings) \subseteq 1..spawned /\ Range(<<>>) = {}
    BY DEF IInv, HostInv, Range
  <2> QED BY <1>1, <1>2, <2>1
<1> QED BY <1>2, <1>3, <1>4 DEF DiskShape

\* The file that is written next, and what is left after it
LEMMA NextFile ==
  ASSUME IInv, call.stage \in {"preparing", "writing"}
  PROVE  LET file == Head(call.files)
             rest == Tail(call.files)
         IN  /\ call.files # <<>>
             /\ call.stage = "preparing" =>
                  /\ file \in {"spec", "seed", "binding"}
                  /\ rest = <<>> \/ rest \in InitLists
             /\ call.stage = "writing" =>
                  /\ file \in {"state", "provider", "log"}
                  /\ file = "log" => rest = <<>>
                  /\ file # "log" => rest \in PersistLists
                  /\ rest # <<>> /\ Head(rest) = "log" => file = "provider"
                  /\ DOMAIN bindings = Roles
<1>1. /\ call.stage = "preparing" => call.files \in InitLists
      /\ call.stage = "writing" => call.files \in PersistLists
  BY DEF IInv, CallInv
<1>2. call.stage = "writing" => DOMAIN bindings = Roles
  BY DEF IInv, HostInv
<1>3. CASE call.stage = "preparing"
  <2>1. CASE call.files = <<"spec", "seed", "binding">>
    BY <1>3, <2>1 DEF InitLists
  <2>2. CASE call.files = <<"seed", "binding">>
    BY <1>3, <2>2 DEF InitLists
  <2>3. CASE call.files = <<"binding">>
    BY <1>3, <2>3
  <2> QED BY <1>1, <1>3, <2>1, <2>2, <2>3 DEF InitLists
<1>4. CASE call.stage = "writing"
  <2>1. CASE call.files = <<"state", "provider", "log">>
    BY <1>2, <1>4, <2>1 DEF PersistLists
  <2>2. CASE call.files = <<"provider", "log">>
    BY <1>2, <1>4, <2>2 DEF PersistLists
  <2>3. CASE call.files = <<"log">>
    BY <1>2, <1>4, <2>3
  <2> QED BY <1>1, <1>4, <2>1, <2>2, <2>3 DEF PersistLists
<1>5. call.stage = "preparing" \/ call.stage = "writing"
  OBVIOUS
<1> QED BY <1>3, <1>4, <1>5

\* Between two calls, or without an object, there is nothing under way.
LEMMA RestGood ==
  ASSUME NEW stage \in {"down", "idle"}, call' = Resting(stage), job' = NoJob,
         GoodHalves(rt', wf'), acked' \subseteq DispatchIds, faults' \in 0..MaxFaults,
         inbox' \in [Sessions -> Seq(DispatchIds)],
         host' \in {"fresh", "ready", "failed"}, spawned' \in 0..MaxSessions,
         DOMAIN bindings' \subseteq Roles, Range(bindings') \subseteq 1..spawned',
         host' = "ready" => DOMAIN bindings' = Roles, DiskShape', SessionsOnDisk',
         stage = "down" => wf' = NewWorkflow
  PROVE  IInv'
<1>1. /\ call' \in Call /\ call'.stage = stage /\ call'.files = <<>>
      /\ NoJob \in Job /\ NoJob.kind = "none"
  BY DEF Resting, Call, NoJob, Job, Maybe
<1>2. CallInv' /\ JobInv'
  BY <1>1 DEF CallInv, JobInv
<1>3. HostInv' /\ SavedInv'
  BY <1>1 DEF HostInv, SavedInv
<1> QED BY <1>2, <1>3 DEF IInv

\* A new object holds nothing.
LEMMA NothingGood ==
  /\ GoodHalves(NewRuntime, NewWorkflow)
  /\ DOMAIN <<>> = {} /\ Range(<<>>) = {}
<1>1. GoodHalves(NewRuntime, NewWorkflow)
  BY NewRuntimeGood DEF GoodHalves, NewRuntime, NewWorkflow, WorkflowState, WorkspaceMode, Maybe,
                        TaskInv, WorkInv
<1> QED BY <1>1 DEF Range

LEMMA RestoreGood == IInv /\ Restore => IInv'
<1> SUFFICES ASSUME IInv, Restore PROVE IInv'
  OBVIOUS
<1>1. /\ rt' \in RestoreSnapshot(disk.state.rt) /\ wf' = disk.state.wf
      /\ bindings' = disk.provider.bindings
      /\ disk.state.is = "ok" /\ disk.provider.is = "ok"
      /\ call.stage = "down" /\ call' = Resting("idle")
      /\ host' = IF bindings' = <<>> THEN "fresh" ELSE "ready"
      /\ disk' = disk /\ acked' = acked /\ faults' = faults
      /\ job' = job /\ spawned' = spawned /\ inbox' = inbox
  BY DEF Restore, Load, CanRestore, durableVars
<1>2. GoodHalves(rt', wf')
  <2>1. PICK r : GoodHalves(r, disk.state.wf) /\ disk.state.rt = Snapshot(r)
    BY <1>1 DEF IInv, DiskShape
  <2>2. /\ DOMAIN Snapshot(r) = DOMAIN r /\ Snapshot(r).dispatches = r.dispatches
        /\ Snapshot(r).members = r.members /\ Snapshot(r).clock = r.clock
    BY <2>1 DEF Snapshot, GoodHalves, GoodRuntime, IsRuntime
  <2>3. GoodStep(r, rt') /\ rt'.dispatches = r.dispatches
    BY <1>1, <2>1, <2>2, RestoreSavedGood DEF GoodHalves
  <2> QED BY <1>1, <2>1, <2>3 DEF GoodHalves, GoodStep
<1>3. /\ bindings' = <<>> \/ DOMAIN bindings' = Roles
      /\ Range(bindings') \subseteq 1..spawned
  BY <1>1 DEF IInv, DiskShape
<1>4. /\ acked \subseteq DispatchIds /\ faults \in 0..MaxFaults
      /\ inbox \in [Sessions -> Seq(DispatchIds)] /\ spawned \in 0..MaxSessions /\ job = NoJob
  BY <1>1 DEF IInv, HostInv, CallInv
<1>5. DiskShape'
  BY <1>1 DEF IInv, DiskShape
<1>6. SessionsOnDisk'
  BY <1>1 DEF SessionsOnDisk
<1> QED BY <1>1, <1>2, <1>3, <1>4, <1>5, <1>6, NothingGood, RestGood

LEMMA EndGood == IInv /\ End => IInv'
<1> SUFFICES ASSUME IInv, End PROVE IInv'
  OBVIOUS
<1>1. /\ rt' = NewRuntime /\ wf' = NewWorkflow /\ bindings' = <<>> /\ call' = Resting("down")
      /\ host' = "fresh" /\ job' = NoJob /\ spawned' = spawned
      /\ inbox' \in {inbox, [s \in Sessions |-> <<>>]}
  BY DEF End, Close, Delete, Crash, Forget
<1>2. /\ acked \subseteq DispatchIds /\ faults \in 0..MaxFaults
      /\ inbox \in [Sessions -> Seq(DispatchIds)] /\ spawned \in 0..MaxSessions
  BY DEF IInv, HostInv
<1>3. acked' \subseteq DispatchIds /\ faults' \in 0..MaxFaults
  BY <1>2, MaxFaultsAssumption DEF End, Close, Delete, Crash, durableVars
<1>4. inbox' \in [Sessions -> Seq(DispatchIds)]
  <2>1. [s \in Sessions |-> <<>>] \in [Sessions -> Seq(DispatchIds)]
    OBVIOUS
  <2> QED BY <1>1, <1>2, <2>1
<1>5. DiskShape'
  <2>1. CASE disk' = disk
    BY <1>1, <2>1 DEF IInv, DiskShape
  <2>2. CASE disk' = NoDisk
    BY <2>2 DEF DiskShape, NoDisk, Missing
  <2>3. CASE call.files # <<>> /\ disk' \in BrokenWrite(disk, Head(call.files), Memory)
    <3>1. call.stage \in {"preparing", "writing"}
      BY <2>3 DEF IInv, CallInv, Call
    <3>2. /\ Head(call.files) \in {"spec", "seed", "binding", "state", "provider", "log"}
          /\ Head(call.files) = "provider" => DOMAIN bindings = Roles
      BY <3>1, NextFile
    <3> QED BY <1>1, <2>3, <3>2, WriteKeeps
  <2> QED BY <2>1, <2>2, <2>3 DEF End, Close, Delete, Crash, durableVars
<1>6. SessionsOnDisk'
  BY <1>1 DEF SessionsOnDisk
<1> QED BY <1>1, <1>2, <1>3, <1>4, <1>5, <1>6, NothingGood, RestGood

LEMMA LifeGood == IInv /\ (New \/ Restore \/ RestoreExisting \/ End) => IInv'
<1> SUFFICES ASSUME IInv, New \/ RestoreExisting PROVE IInv'
  BY RestoreGood, EndGood
<1>1. /\ GoodHalves(rt, wf) /\ acked \subseteq DispatchIds /\ faults \in 0..MaxFaults
      /\ inbox \in [Sessions -> Seq(DispatchIds)]
      /\ DOMAIN bindings \subseteq Roles /\ Range(bindings) \subseteq 1..spawned
      /\ spawned \in 0..MaxSessions /\ (call.stage = "down" => job = NoJob)
  BY DEF IInv, HostInv, CallInv
<1>2. CASE New
  <2>1. /\ call' = Resting("idle") /\ host' = "fresh" /\ job' = NoJob
        /\ UNCHANGED <<rt, wf, bindings, disk, acked, faults, spawned, inbox>>
    BY <1>1, <1>2 DEF New, durableVars
  <2>2. DiskShape'
    BY <2>1 DEF IInv, DiskShape
  <2>3. SessionsOnDisk'
    BY <2>1 DEF SessionsOnDisk
  <2> QED BY <1>1, <2>1, <2>2, <2>3, RestGood
<1>3. CASE RestoreExisting
  <2>1. /\ host = "ready" /\ Finish({})
        /\ UNCHANGED <<rt, wf, bindings, durableVars, host, spawned, inbox>>
    BY <1>3 DEF RestoreExisting
  <2>2. GoodHalves(rt', wf') /\ inbox' \in [Sessions -> Seq(DispatchIds)]
    BY <1>1, <2>1
  <2> QED BY <2>1, <2>2, FinishGood
<1> QED BY <1>2, <1>3

----------------------------------------------------------------------------
(* Bootstrapping and persisting *)

LEMMA HeadAndTail ==
  ASSUME NEW S, NEW s \in Seq(S), s # <<>>
  PROVE  /\ Head(s) \in S /\ Tail(s) \in Seq(S)
         /\ Range(s) = {Head(s)} \cup Range(Tail(s))
<1>1. /\ Tail(s) \in Seq(S)
      /\ DOMAIN Tail(s) = 1..(Len(s) - 1)
      /\ \A i \in 1..(Len(s) - 1) : Tail(s)[i] = s[i + 1]
      /\ DOMAIN s = 1..Len(s) /\ Len(s) \in Nat \ {0}
      /\ Head(s) = s[1] /\ Head(s) \in S
  OBVIOUS
<1>2. ASSUME NEW e \in Range(Tail(s)) PROVE e \in Range(s)
  BY <1>1 DEF Range
<1>3. ASSUME NEW e \in Range(s) PROVE e = Head(s) \/ e \in Range(Tail(s))
  <2>1. PICK i \in 1..Len(s) : s[i] = e
    BY <1>1 DEF Range
  <2>2. CASE i # 1
    <3>1. i - 1 \in 1..(Len(s) - 1) /\ Tail(s)[i - 1] = s[i]
      BY <1>1, <2>2
    <3> QED BY <1>1, <2>1, <3>1 DEF Range
  <2> QED BY <1>1, <2>1, <2>2
<1>4. Head(s) \in Range(s)
  BY <1>1 DEF Range
<1> QED BY <1>1, <1>2, <1>3, <1>4

\* While a bootstrap is under way the workspace is not in use.
LEMMA BootGood ==
  ASSUME IInv, UNCHANGED <<rt, wf, acked, inbox>>, faults' \in 0..MaxFaults,
         call' \in Call, CallInv', job'.kind = "boot", host' \in {"fresh", "failed"},
         spawned' \in 0..MaxSessions,
         DOMAIN bindings' \subseteq Roles, Range(bindings') \subseteq 1..spawned',
         job'.todo \in Seq(Roles), job'.todo # <<>>,
         IF call'.stage = "writing" THEN DOMAIN bindings' = Roles /\ Head(call'.files) # "log"
         ELSE Roles = DOMAIN bindings' \cup Range(job'.todo),
         DiskShape'
  PROVE  IInv'
<1>1. JobInv'
  BY DEF JobInv
<1>2. HostInv'
  BY DEF HostInv
<1>3. SavedInv'
  BY DEF SavedInv, SessionsOnDisk
<1> QED BY <1>1, <1>2, <1>3 DEF IInv

\* A call is what its fields are.
LEMMA CallFields ==
  ASSUME NEW c \in Call
  PROVE  /\ c = [stage |-> c.stage, completed |-> c.completed, files |-> c.files]
         /\ c.completed \in SUBSET DispatchIds
<1> DEFINE Files == Seq({"spec", "seed", "binding", "state", "provider", "log"})
           Stages == {"down", "idle", "preparing", "busy", "writing"}
<1>1. c \in [stage: Stages, completed: SUBSET DispatchIds, files: Files]
  BY DEF Call
<1> HIDE DEF Files, Stages
<1> QED BY <1>1

LEMMA BootstrapGood == IInv /\ Bootstrap => IInv'
<1> SUFFICES ASSUME IInv, Bootstrap PROVE IInv'
  OBVIOUS
<1>1. /\ call.stage = "idle" /\ host \in {"fresh", "failed"} /\ host' = host
      /\ UNCHANGED <<rt, wf, bindings, disk, acked, faults, spawned, inbox>>
      /\ job' = [NoJob EXCEPT !.kind = "boot", !.todo = Workspace.roles]
      /\ call' = IF InitFiles(disk) = <<>> THEN [call EXCEPT !.stage = "busy"]
                 ELSE [call EXCEPT !.stage = "preparing", !.files = InitFiles(disk)]
  BY DEF Bootstrap, durableVars
<1>2. Workspace.roles \in Seq(Roles) /\ Workspace.roles # <<>>
      /\ Range(Workspace.roles) = Roles
  BY WorkspaceAssumption DEF IsSpec, Range
<1>3. /\ job' \in Job /\ job'.kind = "boot" /\ job'.todo = Workspace.roles
  BY <1>1, <1>2 DEF Job, NoJob, Maybe
<1>4. /\ DOMAIN bindings \subseteq Roles /\ Range(bindings) \subseteq 1..spawned
      /\ spawned \in 0..MaxSessions /\ faults \in 0..MaxFaults
      /\ call \in Call /\ call.files = <<>>
  BY <1>1 DEF IInv, HostInv, CallInv
<1>5. /\ call' \in Call
      /\ \/ call'.stage = "busy" /\ call'.files = <<>>
         \/ call'.stage = "preparing" /\ call'.files = <<"spec", "seed", "binding">>
  <2>1. InitFiles(disk) = <<>> \/ InitFiles(disk) = <<"spec", "seed", "binding">>
    BY DEF InitFiles
  <2>2. call = [stage |-> call.stage, completed |-> call.completed, files |-> call.files]
        /\ call.completed \in SUBSET DispatchIds
    BY <1>4, CallFields
  <2>3. CASE InitFiles(disk) = <<>>
    <3>1. call' = [call EXCEPT !.stage = "busy"]
      BY <1>1, <2>3
    <3>2. call' = [stage |-> "busy", completed |-> call.completed, files |-> <<>>]
      BY <1>4, <2>2, <3>1
    <3> QED BY <2>2, <3>2 DEF Call
  <2>4. CASE InitFiles(disk) = <<"spec", "seed", "binding">>
    <3>1. call' = [call EXCEPT !.stage = "preparing", !.files = <<"spec", "seed", "binding">>]
      BY <1>1, <2>4
    <3>2. call' = [stage |-> "preparing", completed |-> call.completed,
                   files |-> <<"spec", "seed", "binding">>]
      BY <2>2, <3>1
    <3> QED BY <2>2, <3>2 DEF Call
  <2> QED BY <2>1, <2>3, <2>4
<1>6. CallInv'
  BY <1>3, <1>5 DEF CallInv, InitLists
<1>7. DiskShape'
  BY <1>1 DEF IInv, DiskShape
<1> QED BY <1>1, <1>2, <1>3, <1>4, <1>5, <1>6, <1>7, BootGood

LEMMA PrepareWriteGood == IInv /\ PrepareWrite => IInv'
<1> SUFFICES ASSUME IInv, PrepareWrite PROVE IInv'
  OBVIOUS
<1>1. /\ call.stage = "preparing" /\ disk' = WriteFile(disk, Head(call.files), Memory)
      /\ UNCHANGED <<rt, wf, bindings, acked, faults, host, job, spawned, inbox>>
      /\ call' = IF Tail(call.files) = <<>> THEN [call EXCEPT !.stage = "busy", !.files = <<>>]
                 ELSE [call EXCEPT !.files = Tail(@)]
  BY DEF PrepareWrite, adapterVars
<1>2. /\ call \in Call /\ job \in Job /\ job.kind = "boot" /\ faults \in 0..MaxFaults
      /\ host \in {"fresh", "failed"} /\ spawned \in 0..MaxSessions
      /\ DOMAIN bindings \subseteq Roles /\ Range(bindings) \subseteq 1..spawned
      /\ job.todo \in Seq(Roles) /\ job.todo # <<>>
      /\ Roles = DOMAIN bindings \cup Range(job.todo)
  BY <1>1 DEF IInv, CallInv, HostInv
<1>3. /\ Head(call.files) \in {"spec", "seed", "binding"}
      /\ Tail(call.files) = <<>> \/ Tail(call.files) \in InitLists
  BY <1>1, NextFile
<1>4. /\ call' \in Call
      /\ \/ call'.stage = "busy" /\ call'.files = <<>>
         \/ call'.stage = "preparing" /\ call'.files \in InitLists
  <2>1. call = [stage |-> call.stage, completed |-> call.completed, files |-> call.files]
        /\ call.completed \in SUBSET DispatchIds
    BY <1>2, CallFields
  <2>2. CASE Tail(call.files) = <<>>
    <3>1. call' = [call EXCEPT !.stage = "busy", !.files = <<>>]
      BY <1>1, <2>2
    <3>2. call' = [stage |-> "busy", completed |-> call.completed, files |-> <<>>]
      BY <2>1, <3>1
    <3> QED BY <2>1, <3>2 DEF Call
  <2>3. CASE Tail(call.files) \in InitLists /\ Tail(call.files) # <<>>
    <3>1. call' = [call EXCEPT !.files = Tail(call.files)]
      BY <1>1, <2>3
    <3>2. call' = [stage |-> "preparing", completed |-> call.completed,
                   files |-> Tail(call.files)]
      BY <1>1, <2>1, <3>1
    <3>3. Tail(call.files) \in Seq({"spec", "seed", "binding", "state", "provider", "log"})
      BY <1>1, <1>2, NextFile DEF Call
    <3> QED BY <2>1, <2>3, <3>2, <3>3 DEF Call
  <2> QED BY <1>3, <2>2, <2>3
<1>5. CallInv'
  BY <1>1, <1>2, <1>4 DEF CallInv
<1>6. DiskShape'
  BY <1>1, <1>3, WriteKeeps
<1> QED BY <1>1, <1>2, <1>4, <1>5, <1>6, BootGood

LEMMA SpawnRoleGood == IInv /\ SpawnRole => IInv'
<1> SUFFICES ASSUME IInv, SpawnRole PROVE IInv'
  OBVIOUS
<1>1. /\ call.stage = "busy" /\ job.kind = "boot"
      /\ spawned < MaxSessions /\ spawned' = spawned + 1
      /\ bindings' = Put(bindings, Head(job.todo), spawned + 1)
      /\ UNCHANGED <<rt, wf, disk, acked, faults, host, inbox>>
      /\ \/ Tail(job.todo) = <<>> /\ call' = ToPersist({}) /\ job' = job
         \/ /\ Tail(job.todo) # <<>> /\ call' = call
            /\ job' = [job EXCEPT !.todo = Tail(@)]
  BY DEF SpawnRole, durableVars
<1>2. /\ call \in Call /\ job \in Job /\ faults \in 0..MaxFaults /\ call.files = <<>>
      /\ host \in {"fresh", "failed"} /\ spawned \in 0..MaxSessions
      /\ DOMAIN bindings \subseteq Roles /\ Range(bindings) \subseteq 1..spawned
      /\ job.todo \in Seq(Roles) /\ job.todo # <<>>
      /\ Roles = DOMAIN bindings \cup Range(job.todo)
  BY <1>1 DEF IInv, CallInv, HostInv
<1>3. /\ Head(job.todo) \in Roles /\ Tail(job.todo) \in Seq(Roles)
      /\ Range(job.todo) = {Head(job.todo)} \cup Range(Tail(job.todo))
  BY <1>2, HeadAndTail
<1>4. /\ spawned' \in 0..MaxSessions /\ spawned' \in Nat
      /\ \A s \in 1..spawned : s \in 1..spawned'
      /\ spawned' \in 1..spawned'
  BY <1>1, <1>2, MaxSessionsAssumption
<1>5. /\ DOMAIN bindings' = DOMAIN bindings \cup {Head(job.todo)}
      /\ Range(bindings') \subseteq 1..spawned'
  BY <1>1, <1>2, <1>4 DEF Put, Range
<1>6. DiskShape'
  BY <1>1, <1>4 DEF IInv, DiskShape
<1>7. CASE Tail(job.todo) = <<>>
  <2>1. call' = [stage |-> "writing", completed |-> {}, files |-> PersistFiles] /\ job' = job
    BY <1>1, <1>7 DEF ToPersist
  <2>2. /\ call' \in Call /\ call'.stage = "writing" /\ call'.files \in PersistLists
        /\ Head(call'.files) # "log"
    BY <2>1 DEF Call, PersistFiles, PersistLists
  <2>3. CallInv'
    BY <1>1, <1>2, <2>1, <2>2 DEF CallInv
  <2>4. DOMAIN bindings' = Roles
    BY <1>2, <1>3, <1>5, <1>7, NothingGood
  <2> QED BY <1>1, <1>2, <1>4, <1>5, <1>6, <2>1, <2>2, <2>3, <2>4, BootGood
<1>8. CASE Tail(job.todo) # <<>>
  <2>1. /\ job' \in Job /\ job'.kind = "boot" /\ job'.todo = Tail(job.todo) /\ call' = call
    BY <1>1, <1>2, <1>3, <1>8 DEF Job
  <2>2. CallInv'
    BY <1>1, <1>2, <2>1 DEF CallInv
  <2>3. Roles = DOMAIN bindings' \cup Range(job'.todo) /\ DOMAIN bindings' \subseteq Roles
    BY <1>2, <1>3, <1>5, <2>1
  <2> QED BY <1>1, <1>2, <1>3, <1>4, <1>5, <1>6, <1>8, <2>1, <2>2, <2>3, BootGood
<1> QED BY <1>7, <1>8

LEMMA BootFailsGood == IInv /\ (PrepareError \/ SpawnError) => IInv'
<1> SUFFICES ASSUME IInv, PrepareError \/ SpawnError PROVE IInv'
  OBVIOUS
<1>1. /\ call' = Resting("idle") /\ job' = NoJob /\ host' = "failed"
      /\ UNCHANGED <<rt, wf, bindings, acked, spawned, inbox>>
      /\ faults < MaxFaults /\ faults' = faults + 1
  BY DEF PrepareError, SpawnError, BootstrapFails, Abort, HostFault
<1>2. /\ GoodHalves(rt, wf) /\ acked \subseteq DispatchIds /\ faults' \in 0..MaxFaults
      /\ inbox \in [Sessions -> Seq(DispatchIds)]
      /\ DOMAIN bindings \subseteq Roles /\ Range(bindings) \subseteq 1..spawned
      /\ spawned \in 0..MaxSessions
  BY <1>1, MaxFaultsAssumption DEF IInv, HostInv
<1>3. DiskShape'
  <2>1. CASE disk' = disk
    BY <1>1, <2>1 DEF IInv, DiskShape
  <2>2. CASE /\ call.stage = "preparing"
             /\ disk' \in BrokenWrite(disk, Head(call.files), Memory)
    <3>1. Head(call.files) \in {"spec", "seed", "binding"}
      BY <2>2, NextFile
    <3> QED BY <1>1, <2>2, <3>1, WriteKeeps
  <2> QED BY <2>1, <2>2 DEF PrepareError, SpawnError
<1>4. SessionsOnDisk'
  BY <1>1 DEF SessionsOnDisk
<1> QED BY <1>1, <1>2, <1>3, <1>4, RestGood

LEMMA PersistWriteGood ==
  ASSUME IInv, Write, IF call'.stage = "idle" THEN job' = NoJob ELSE UNCHANGED job,
         host' = IF call'.stage = "idle" /\ job.kind = "boot" THEN "ready" ELSE host,
         UNCHANGED <<spawned, inbox>>
  PROVE  IInv'
<1> DEFINE file == Head(call.files)
           rest == Tail(call.files)
<1>1. /\ call.stage = "writing" /\ disk' = WriteFile(disk, file, Memory)
      /\ UNCHANGED <<rt, wf, bindings, faults, spawned, inbox>>
      /\ \/ rest # <<>> /\ call' = [call EXCEPT !.files = rest] /\ acked' = acked
         \/ rest = <<>> /\ call' = Resting("idle") /\ acked' = acked \cup call.completed
  BY DEF Write
<1>2. /\ file \in {"state", "provider", "log"}
      /\ file = "log" => rest = <<>>
      /\ file # "log" => rest \in PersistLists
      /\ rest # <<>> /\ Head(rest) = "log" => file = "provider"
      /\ DOMAIN bindings = Roles
  BY <1>1, NextFile
<1>3. /\ DiskShape'
      /\ \/ disk'.provider = disk.provider
         \/ disk'.provider.is = "torn"
         \/ file = "provider" /\ disk'.provider.bindings = bindings
      /\ file = "provider" => disk'.provider.bindings = bindings
  BY <1>1, <1>2, WriteKeeps
<1>4. /\ GoodHalves(rt, wf) /\ acked \subseteq DispatchIds /\ faults \in 0..MaxFaults
      /\ inbox \in [Sessions -> Seq(DispatchIds)] /\ job \in Job /\ call \in Call
      /\ Range(bindings) \subseteq 1..spawned /\ spawned \in 0..MaxSessions
      /\ host \in {"fresh", "ready", "failed"} /\ job.kind \in {"none", "boot"}
      /\ job.kind = "boot" => host # "ready" /\ job.todo \in Seq(Roles) /\ job.todo # <<>>
      /\ job.kind = "none" => host = "ready"
  BY <1>1 DEF IInv, CallInv, HostInv
<1>5. /\ host = "ready" /\ disk.provider.is = "ok" => disk.provider.bindings = bindings
      /\ file = "log" /\ disk.provider.is = "ok" => disk.provider.bindings = bindings
  BY <1>1 DEF IInv, SavedInv, SessionsOnDisk
<1> HIDE DEF file, rest
<1>6. CASE rest # <<>>
  <2>1. call = [stage |-> call.stage, completed |-> call.completed, files |-> call.files]
        /\ call.completed \in SUBSET DispatchIds
    BY <1>4, CallFields
  <2>2. rest \in Seq({"spec", "seed", "binding", "state", "provider", "log"})
    <3>1. call.files \in Seq({"spec", "seed", "binding", "state", "provider", "log"})
      BY <1>4 DEF Call
    <3> QED BY <1>1, <3>1, NextFile DEF rest
  <2>3. call' = [stage |-> "writing", completed |-> call.completed, files |-> rest]
    BY <1>1, <1>6, <2>1
  <2>4. call' \in Call /\ call'.stage = "writing" /\ call'.files = rest
    BY <2>1, <2>2, <2>3 DEF Call
  <2>5. job' = job /\ host' = host /\ acked' = acked
    BY <1>1, <1>6, <2>4
  <2>6. CallInv'
    BY <1>2, <1>4, <1>6, <2>4, <2>5 DEF CallInv
  <2>7. JobInv'
    BY <1>4, <2>5 DEF JobInv
  <2>8. HostInv'
    BY <1>1, <1>2, <1>4, <2>4, <2>5 DEF HostInv
  <2>9. SavedInv'
    BY <1>1, <1>2, <1>3, <1>5, <1>6, <2>4, <2>5 DEF SavedInv, SessionsOnDisk
  <2> QED BY <1>1, <1>3, <1>4, <2>5, <2>6, <2>7, <2>8, <2>9 DEF IInv
<1>7. CASE rest = <<>>
  <2>1. call' = Resting("idle") /\ call'.stage = "idle" /\ acked' = acked \cup call.completed
    BY <1>1, <1>7 DEF Resting
  <2>2. /\ job' = NoJob /\ host' = IF job.kind = "boot" THEN "ready" ELSE host
    BY <2>1
  <2>3. acked' \subseteq DispatchIds
    BY <1>4, <2>1 DEF Call
  <2>4. file = "log"
    BY <1>2, <1>7 DEF PersistLists
  <2>5. SessionsOnDisk'
    BY <1>1, <1>3, <1>5, <2>4 DEF SessionsOnDisk
  <2> QED BY <1>1, <1>2, <1>3, <1>4, <2>1, <2>2, <2>3, <2>5, RestGood
<1> QED BY <1>6, <1>7

LEMMA PersistErrorGood ==
  ASSUME IInv, WriteError, job' = NoJob, host' = IF job.kind = "boot" THEN "failed" ELSE host,
         UNCHANGED <<spawned, inbox>>
  PROVE  IInv'
<1> DEFINE file == Head(call.files)
<1>1. /\ call.stage = "writing" /\ disk' \in BrokenWrite(disk, file, Memory)
      /\ UNCHANGED <<rt, wf, bindings, acked>> /\ faults < MaxFaults /\ faults' = faults + 1
      /\ call' = IF file \in Range(InitFiles(NoDisk))
                 THEN [call EXCEPT !.files = PersistFiles] ELSE Resting("idle")
  BY DEF WriteError
<1>2. file \in {"state", "provider", "log"} /\ DOMAIN bindings = Roles
  BY <1>1, NextFile
<1>3. file \notin Range(InitFiles(NoDisk))
  <2>1. InitFiles(NoDisk) = <<"spec", "seed", "binding">>
    BY DEF InitFiles, NoDisk
  <2> QED BY <1>2, <2>1 DEF Range
<1>4. /\ DiskShape'
      /\ \/ disk'.provider = disk.provider
         \/ disk'.provider.is = "torn"
         \/ file = "provider" /\ disk'.provider.bindings = bindings
  BY <1>1, <1>2, WriteKeeps
<1>5. /\ GoodHalves(rt, wf) /\ acked \subseteq DispatchIds /\ faults' \in 0..MaxFaults
      /\ inbox \in [Sessions -> Seq(DispatchIds)]
      /\ Range(bindings) \subseteq 1..spawned /\ spawned \in 0..MaxSessions
      /\ host \in {"fresh", "ready", "failed"} /\ job.kind \in {"none", "boot"}
      /\ host = "ready" /\ disk.provider.is = "ok" => disk.provider.bindings = bindings
  BY <1>1, MaxFaultsAssumption DEF IInv, CallInv, HostInv, SavedInv, SessionsOnDisk
<1> HIDE DEF file
<1>6. SessionsOnDisk'
  BY <1>1, <1>4, <1>5 DEF SessionsOnDisk
<1> QED BY <1>1, <1>2, <1>3, <1>4, <1>5, <1>6, RestGood

LEMMA PersistGood == IInv /\ Persist => IInv'
BY PersistWriteGood, PersistErrorGood DEF Persist

----------------------------------------------------------------------------
(* Dispatching *)

\* A dispatch that has just been queued waits, and no task can be named for it.
LEMMA BeginGood ==
  ASSUME NEW r, GoodRuntime(r), TaskInv(r.dispatches),
         DOMAIN r.dispatches = DOMAIN rt.dispatches,
         NEW requests \in Seq(RoleTaskRequest), requests # <<>>, BeginDispatch(r, requests)
  PROVE  /\ GoodRuntime(rt') /\ TaskInv(rt'.dispatches)
         /\ \A w : WorkInv(r.dispatches, w) => WorkInv(rt'.dispatches, w)
         /\ \A w : w.request /\ w.node = Head(requests).node => WorkInv(rt'.dispatches, w)
         /\ job' \in Job /\ job'.kind = "dispatch" /\ JobInv'
         /\ \A d \in DOMAIN r.dispatches :
              /\ d \in DOMAIN rt'.dispatches
              /\ rt'.dispatches[d].node = r.dispatches[d].node
              /\ rt'.dispatches[d].status = r.dispatches[d].status
<1>1. Head(requests) \in RoleTaskRequest /\ Tail(requests) \in Seq(RoleTaskRequest)
  BY HeadAndTail
<1>2. PICK id \in FreshIds :
        /\ rt' = QueueAndClaim(r, id, Head(requests))
        /\ job' = [kind |-> "dispatch", id |-> id, todo |-> Tail(requests)]
  BY DEF BeginDispatch
<1>3. id \in DispatchIds \ DOMAIN r.dispatches
  BY <1>2 DEF FreshIds
<1>4. /\ GoodRuntime(rt') /\ TaskInv(rt'.dispatches)
      /\ \A w : WorkInv(r.dispatches, w) => WorkInv(rt'.dispatches, w)
      /\ \A w : w.request /\ w.node = Head(requests).node => WorkInv(rt'.dispatches, w)
      /\ DOMAIN rt'.dispatches = DOMAIN r.dispatches \cup {id}
      /\ rt'.dispatches[id].status = "queued" /\ rt'.dispatches[id].task = None
      /\ \A d \in DOMAIN r.dispatches :
           /\ rt'.dispatches[d].node = r.dispatches[d].node
           /\ rt'.dispatches[d].status = r.dispatches[d].status
           /\ rt'.dispatches[d].task = r.dispatches[d].task
  <2> DEFINE request == Head(requests)
  <2>1. request \in RoleTaskRequest
    BY <1>1
  <2>2. rt' = QueueDispatch(r, id, request) \/ rt' = QueueAndClaim(r, id, request)
    BY <1>2
  <2> HIDE DEF request
  <2>3. GoodRuntime(rt') /\ TaskInv(rt'.dispatches)
    BY <1>3, <2>1, <2>2, QueueKeeps
  <2>5. ASSUME NEW w, WorkInv(r.dispatches, w) PROVE WorkInv(rt'.dispatches, w)
    BY <1>3, <2>1, <2>2, <2>5, QueueKeeps
  <2>6. ASSUME NEW w, w.request, w.node = request.node PROVE WorkInv(rt'.dispatches, w)
    BY <1>3, <2>1, <2>2, <2>6, QueueKeeps
  <2>4. /\ DOMAIN rt'.dispatches = DOMAIN r.dispatches \cup {id}
        /\ rt'.dispatches[id].status = "queued" /\ rt'.dispatches[id].task = None
        /\ \A d \in DOMAIN r.dispatches :
             /\ rt'.dispatches[d].node = r.dispatches[d].node
             /\ rt'.dispatches[d].status = r.dispatches[d].status
             /\ rt'.dispatches[d].task = r.dispatches[d].task
    BY <1>3, <2>1, <2>2, QueueKeeps
  <2> QED BY <2>3, <2>4, <2>5, <2>6 DEF request
<1>5. job' \in Job /\ job'.kind = "dispatch" /\ job'.id = id /\ job'.todo = Tail(requests)
  BY <1>1, <1>2, <1>3 DEF Job, Maybe
<1>6. ASSUME NEW d \in DOMAIN rt'.dispatches, rt'.dispatches[d].task # None
      PROVE  rt'.dispatches[d].task[2] # id
  <2>1. d \in DOMAIN r.dispatches /\ rt'.dispatches[d].task = r.dispatches[d].task
    BY <1>4, <1>6
  <2>2. r.dispatches[d].task[2] \in DOMAIN r.dispatches \cup {0}
    BY <1>6, <2>1 DEF TaskInv
  <2> QED BY <1>3, <2>1, <2>2, TaskIdsAssumption
<1>7. JobInv'
  BY <1>1, <1>4, <1>5, <1>6 DEF JobInv
<1> QED BY <1>4, <1>5, <1>7

\* A call that awaits a session
LEMMA BusyCall ==
  ASSUME IInv, Ready, NEW completed \in SUBSET DispatchIds,
         \/ call' = [call EXCEPT !.stage = "busy"]
         \/ call' = [call EXCEPT !.stage = "busy", !.completed = completed]
  PROVE  call' \in Call /\ call'.stage = "busy" /\ call'.files = <<>>
<1>1. call \in Call /\ call.files = <<>>
  BY DEF IInv, CallInv, Ready
<1>2. call = [stage |-> call.stage, completed |-> call.completed, files |-> call.files]
      /\ call.completed \in SUBSET DispatchIds
  BY <1>1, CallFields
<1>3. CASE call' = [call EXCEPT !.stage = "busy"]
  <2>1. call' = [stage |-> "busy", completed |-> call.completed, files |-> <<>>]
    BY <1>1, <1>2, <1>3
  <2> QED BY <1>2, <2>1 DEF Call
<1>4. CASE call' = [call EXCEPT !.stage = "busy", !.completed = completed]
  <2>1. call' = [stage |-> "busy", completed |-> completed, files |-> <<>>]
    BY <1>1, <1>2, <1>4
  <2> QED BY <2>1 DEF Call
<1> QED BY <1>3, <1>4

\* The session that a message is for
LEMMA SessionTyped ==
  ASSUME IInv, host = "ready", NEW id \in DOMAIN rt.dispatches
  PROVE  SessionOf(id) \in Sessions
<1>1. /\ DOMAIN bindings = Roles /\ Range(bindings) \subseteq 1..spawned
      /\ spawned \in 0..MaxSessions
  BY DEF IInv, HostInv
<1>2. rt.dispatches[id].role \in Roles
  BY DEF IInv, GoodHalves, GoodRuntime, IsRuntime, TaskDispatch
<1>3. bindings[rt.dispatches[id].role] \in 1..spawned
  BY <1>1, <1>2 DEF Range
<1> QED BY <1>1, <1>3, MaxSessionsAssumption DEF SessionOf, Sessions

LEMMA AssignTaskGood == IInv /\ AssignTask => IInv'
<1> SUFFICES ASSUME IInv, AssignTask PROVE IInv'
  OBVIOUS
<1>1. PICK request \in TaskRequests, id \in FreshIds :
        /\ rt' = QueueDispatch(rt, id, request)
        /\ job' = [kind |-> "assign", id |-> id, todo |-> <<>>]
  BY DEF AssignTask
<1>2. /\ Ready /\ call' = [call EXCEPT !.stage = "busy"]
      /\ UNCHANGED <<wf, bindings, disk, acked, faults, host, spawned, inbox>>
  BY DEF AssignTask, durableVars
<1>3. request \in RoleTaskRequest /\ id \in DispatchIds \ DOMAIN rt.dispatches
  BY <1>1, TaskRequestsAssumption DEF FreshIds
<1>4. /\ GoodHalves(rt, wf) /\ faults \in 0..MaxFaults
      /\ inbox \in [Sessions -> Seq(DispatchIds)]
  BY DEF IInv
<1>5. GoodHalves(rt', wf') /\ id \in DOMAIN rt'.dispatches
  <2>1. GoodRuntime(rt) /\ TaskInv(rt.dispatches) /\ WorkInv(rt.dispatches, wf)
    BY <1>4 DEF GoodHalves
  <2>2. /\ GoodRuntime(rt') /\ TaskInv(rt'.dispatches)
        /\ DOMAIN rt'.dispatches = DOMAIN rt.dispatches \cup {id}
    BY <1>1, <1>3, <2>1, QueueKeeps
  <2>3. WorkInv(rt'.dispatches, wf)
    BY <1>1, <1>3, <2>1, QueueKeeps
  <2>4. wf' = wf
    BY <1>2
  <2> QED BY <1>4, <2>2, <2>3, <2>4 DEF GoodHalves
<1>6. job' \in Job /\ job'.kind = "assign" /\ job'.id = id
  BY <1>1, <1>3 DEF Job, Maybe
<1>7. JobInv'
  BY <1>5, <1>6 DEF JobInv
<1>8. call' \in Call /\ call'.stage = "busy" /\ call'.files = <<>>
  BY <1>2, BusyCall
<1> QED BY <1>2, <1>4, <1>5, <1>6, <1>7, <1>8, CallGood DEF Ready

\* What a turn does to the workflow
LEMMA AfterVoteGood ==
  ASSUME wf \in WorkflowState, NEW outcome \in TurnOutcomes
  PROVE  /\ AfterVote(outcome) \in WorkflowState
         /\ outcome.vote = "none" => AfterVote(outcome) = wf
         /\ outcome.vote = "rejected" => AfterVote(outcome).mode = "group_chat"
         /\ outcome.vote = "approved" =>
              /\ AfterVote(outcome).request
              /\ IF outcome.plan = <<>>
                 THEN AfterVote(outcome).node = None /\ NodeRole[Workspace.workflow.entry] = None
                 ELSE /\ AfterVote(outcome).node = Workspace.workflow.entry
                      /\ Head(outcome.plan).node = Workspace.workflow.entry
<1>1. /\ outcome.vote \in {"none", "approved", "rejected"}
      /\ outcome.vote = "approved" => Approved(outcome.plan)
  BY OutcomeTyped
<1>2. CASE outcome.vote = "none"
  BY <1>2 DEF AfterVote
<1>3. CASE outcome.vote = "rejected"
  <2>1. AfterVote(outcome) = CloseVote(OpenVote(wf), FALSE)
    BY <1>3 DEF AfterVote
  <2> QED BY <1>3, <2>1 DEF CloseVote, OpenVote, WorkflowState, WorkspaceMode
<1>4. CASE outcome.vote = "approved"
  <2> DEFINE entry == Workspace.workflow.entry
             node == IF outcome.plan = <<>> THEN None ELSE outcome.plan[1].node
  <2>1. AfterVote(outcome) = StartWorkflow(CloseVote(OpenVote(wf), TRUE), node)
    BY <1>4 DEF AfterVote
  <2>2. /\ entry \in Nodes
        /\ outcome.plan = IF NodeRole[entry] = None THEN <<>>
                          ELSE <<[role |-> NodeRole[entry], node |-> entry]>>
    BY <1>1, <1>4 DEF Approved
  <2>3. /\ outcome.plan = <<>> => NodeRole[entry] = None /\ node = None
        /\ outcome.plan # <<>> => node = entry /\ Head(outcome.plan).node = entry
    BY <2>2
  <2>4. node \in Maybe(Nodes)
    BY <2>2, <2>3 DEF Maybe
  <2> HIDE DEF node
  <2>5. /\ AfterVote(outcome) \in WorkflowState
        /\ AfterVote(outcome).request /\ AfterVote(outcome).node = node
    BY <2>1, <2>4 DEF StartWorkflow, CloseVote, OpenVote, WorkflowState, WorkspaceMode
  <2> QED BY <1>4, <2>3, <2>5
<1> QED BY <1>1, <1>2, <1>3, <1>4

LEMMA SendTurnGood == IInv /\ SendTurn => IInv'
<1> SUFFICES ASSUME IInv, SendTurn PROVE IInv'
  OBVIOUS
<1>1. PICK outcome \in TurnOutcomes :
        LET answered == IF outcome.asked THEN AllAnswered(rt) ELSE rt
        IN  /\ wf' = AfterVote(outcome)
            /\ IF outcome.plan = <<>>
               THEN rt' = answered /\ job' = [NoJob EXCEPT !.kind = "notify"]
               ELSE BeginDispatch(answered, outcome.plan)
  BY DEF SendTurn
<1>2. /\ Ready /\ call' = [call EXCEPT !.stage = "busy"]
      /\ UNCHANGED <<bindings, disk, acked, faults, host, spawned, inbox>>
  BY DEF SendTurn, durableVars
<1> DEFINE answered == IF outcome.asked THEN AllAnswered(rt) ELSE rt
<1>3. /\ GoodHalves(rt, wf) /\ wf \in WorkflowState /\ faults \in 0..MaxFaults
      /\ inbox \in [Sessions -> Seq(DispatchIds)]
  BY DEF IInv, GoodHalves
<1>4. GoodHalves(answered, wf) /\ answered.dispatches = rt.dispatches
  BY <1>3, AnswersKeep
<1>5. /\ outcome.plan \in Seq(RoleTaskRequest)
      /\ outcome.vote \in {"none", "approved", "rejected"}
  BY OutcomeTyped
<1>6. /\ wf' \in WorkflowState
      /\ outcome.vote = "none" => wf' = wf
      /\ outcome.vote = "rejected" => wf'.mode = "group_chat"
      /\ outcome.vote = "approved" =>
           /\ wf'.request
           /\ IF outcome.plan = <<>> THEN wf'.node = None ELSE wf'.node = Head(outcome.plan).node
  BY <1>1, <1>3, AfterVoteGood
<1>7. call' \in Call /\ call'.stage = "busy" /\ call'.files = <<>>
  BY <1>2, BusyCall
<1> HIDE DEF answered
<1>8. /\ GoodHalves(rt', wf') /\ job' \in Job /\ job'.kind \notin {"none", "boot"} /\ JobInv'
  <2>1. CASE outcome.plan = <<>>
    <3>1. rt' = answered /\ job' = [NoJob EXCEPT !.kind = "notify"]
      BY <1>1, <2>1 DEF answered
    <3>2. WorkInv(rt'.dispatches, wf')
      BY <1>4, <1>5, <1>6, <2>1, <3>1 DEF WorkInv, GoodHalves
    <3>3. job' = [kind |-> "notify", id |-> None, todo |-> <<>>]
      BY <3>1 DEF NoJob
    <3>4. job' \in Job /\ job'.kind = "notify"
      BY <3>3 DEF Job, Maybe
    <3> QED BY <1>4, <1>6, <3>1, <3>2, <3>4 DEF GoodHalves, JobInv
  <2>2. CASE outcome.plan # <<>>
    <3>1. BeginDispatch(answered, outcome.plan)
      BY <1>1, <2>2 DEF answered
    <3>2. /\ GoodRuntime(answered) /\ TaskInv(answered.dispatches)
          /\ DOMAIN answered.dispatches = DOMAIN rt.dispatches
          /\ WorkInv(answered.dispatches, wf)
      BY <1>4 DEF GoodHalves
    <3>3. /\ GoodRuntime(rt') /\ TaskInv(rt'.dispatches)
          /\ \A w : WorkInv(answered.dispatches, w) => WorkInv(rt'.dispatches, w)
          /\ \A w : w.request /\ w.node = Head(outcome.plan).node => WorkInv(rt'.dispatches, w)
          /\ job' \in Job /\ job'.kind = "dispatch" /\ JobInv'
      BY <1>5, <2>2, <3>1, <3>2, BeginGood
    <3>4. WorkInv(rt'.dispatches, wf')
      <4>1. CASE outcome.vote = "none"
        BY <1>6, <3>2, <3>3, <4>1
      <4>2. CASE outcome.vote = "rejected"
        BY <1>6, <4>2 DEF WorkInv
      <4>3. CASE outcome.vote = "approved"
        BY <1>6, <2>2, <3>3, <4>3
      <4> QED BY <1>5, <4>1, <4>2, <4>3
    <3> QED BY <1>6, <3>3, <3>4 DEF GoodHalves
  <2> QED BY <2>1, <2>2
<1> QED BY <1>2, <1>3, <1>7, <1>8, CallGood DEF Ready

\* The session takes a message.
LEMMA DeliveredTyped ==
  ASSUME IInv, host = "ready", job.id \in DOMAIN rt.dispatches, Delivered
  PROVE  inbox' \in [Sessions -> Seq(DispatchIds)]
<1>1. inbox \in [Sessions -> Seq(DispatchIds)] /\ job.id \in DispatchIds
  BY DEF IInv, GoodHalves, GoodRuntime, IsRuntime
<1>2. SessionOf(job.id) \in Sessions
  BY SessionTyped
<1>3. Append(inbox[SessionOf(job.id)], job.id) \in Seq(DispatchIds)
  BY <1>1, <1>2
<1> QED BY <1>1, <1>2, <1>3 DEF Delivered

LEMMA DispatchSentGood == IInv /\ DispatchSent => IInv'
<1> SUFFICES ASSUME IInv, DispatchSent PROVE IInv'
  OBVIOUS
<1> DEFINE t == TaskOf(job.id)
           started == StartNextDispatch(rt, t)
<1>1. /\ call.stage = "busy" /\ job.kind = "dispatch" /\ Delivered
      /\ UNCHANGED <<wf, bindings, disk, acked, faults, host, spawned>>
      /\ \/ job.todo = <<>> /\ rt' = started /\ Finish(call.completed)
         \/ job.todo # <<>> /\ BeginDispatch(started, job.todo) /\ call' = call
  BY DEF DispatchSent, durableVars
<1>2. /\ GoodHalves(rt, wf) /\ faults \in 0..MaxFaults /\ host = "ready"
      /\ call \in Call /\ call.files = <<>>
      /\ job.id \in DOMAIN rt.dispatches /\ rt.dispatches[job.id].status = "queued"
      /\ \A d \in DOMAIN rt.dispatches :
           rt.dispatches[d].task # None => rt.dispatches[d].task[2] # job.id
      /\ job.todo \in Seq(RoleTaskRequest)
  BY <1>1 DEF IInv, CallInv, HostInv, JobInv
<1>3. GoodRuntime(rt) /\ TaskInv(rt.dispatches) /\ WorkInv(rt.dispatches, wf)
  BY <1>2 DEF GoodHalves
<1>4. CanStartNext(rt)
  <2>1. job.id \in Range(rt.pending)
    BY <1>2, <1>3 DEF GoodRuntime, QueueFaithful, WithStatus
  <2> QED BY <2>1, NothingGood DEF CanStartNext
<1>5. /\ t \in TaskIds /\ t[2] = job.id
      /\ t \notin BoundTasks(rt.dispatches)
  <2>1. job.id \in DispatchIds
    BY <1>2, <1>3 DEF GoodRuntime, IsRuntime
  <2>2. SessionOf(job.id) \in Sessions
    BY <1>2, SessionTyped
  <2>3. t \in TaskIds /\ t[2] = job.id
    BY <2>1, <2>2, TaskIdsAssumption DEF TaskOf
  <2> QED BY <1>2, <2>3 DEF BoundTasks
<1> HIDE DEF t, started
<1>6. /\ GoodRuntime(started) /\ TaskInv(started.dispatches)
      /\ DOMAIN started.dispatches = DOMAIN rt.dispatches
  BY <1>2, <1>3, <1>4, <1>5, StartKeeps DEF started
<1>7. WorkInv(started.dispatches, wf)
  BY <1>2, <1>3, <1>4, <1>5, StartKeeps DEF started
<1>8. inbox' \in [Sessions -> Seq(DispatchIds)]
  BY <1>1, <1>2, DeliveredTyped
<1>9. CASE job.todo = <<>> /\ rt' = started /\ Finish(call.completed)
  <2>1. GoodHalves(rt', wf')
    BY <1>1, <1>2, <1>6, <1>7, <1>9 DEF GoodHalves
  <2>2. call.completed \in SUBSET DispatchIds
    BY <1>2, CallFields
  <2> QED BY <1>1, <1>2, <1>8, <1>9, <2>1, <2>2, FinishGood DEF durableVars
<1>10. CASE job.todo # <<>> /\ BeginDispatch(started, job.todo) /\ call' = call
  <2>1. /\ GoodRuntime(rt') /\ TaskInv(rt'.dispatches)
        /\ job' \in Job /\ job'.kind = "dispatch" /\ JobInv'
        /\ \A w : WorkInv(started.dispatches, w) => WorkInv(rt'.dispatches, w)
    BY <1>2, <1>6, <1>10, BeginGood
  <2>2. GoodHalves(rt', wf')
    BY <1>1, <1>2, <1>7, <2>1 DEF GoodHalves
  <2> QED BY <1>1, <1>2, <1>8, <1>10, <2>1, <2>2, CallGood
<1> QED BY <1>1, <1>9, <1>10

LEMMA OtherSendsGood == IInv /\ (AssignmentSent \/ NoticeSent \/ SendFailed) => IInv'
<1> SUFFICES ASSUME IInv, AssignmentSent \/ NoticeSent \/ SendFailed PROVE IInv'
  OBVIOUS
<1>1. CASE AssignmentSent \/ NoticeSent
  <2>1. /\ call.stage = "busy" /\ job.kind \in {"assign", "notify"} /\ Finish({})
        /\ UNCHANGED <<rt, wf, bindings, durableVars, host, spawned>>
        /\ \/ job.kind = "assign" /\ Delivered
           \/ inbox' = inbox
    BY <1>1 DEF AssignmentSent, NoticeSent
  <2>2. /\ host = "ready" /\ GoodHalves(rt, wf) /\ inbox \in [Sessions -> Seq(DispatchIds)]
        /\ job.kind = "assign" => job.id \in DOMAIN rt.dispatches
    BY <2>1 DEF IInv, HostInv, JobInv
  <2>3. inbox' \in [Sessions -> Seq(DispatchIds)]
    BY <2>1, <2>2, DeliveredTyped
  <2>4. GoodHalves(rt', wf')
    BY <2>1, <2>2
  <2> QED BY <2>1, <2>2, <2>3, <2>4, FinishGood
<1>2. CASE SendFailed
  BY <1>2, AbortGood DEF SendFailed
<1> QED BY <1>1, <1>2

----------------------------------------------------------------------------
(* What the host reports *)

LEMMA StartTaskGood == IInv /\ StartTask => IInv'
<1> SUFFICES ASSUME IInv, StartTask PROVE IInv'
  OBVIOUS
<1> DEFINE t == <<SessionOf(Head(rt.pending)), 0>>
<1>1. /\ host = "ready" /\ CanStartNext(rt) /\ ~KnowsTask(rt, t)
      /\ rt' = StartNextDispatch(rt, t) /\ Finish({})
      /\ UNCHANGED <<wf, bindings, durableVars, host, spawned, inbox>>
  BY DEF StartTask, Ready
<1>2. /\ GoodRuntime(rt) /\ TaskInv(rt.dispatches) /\ WorkInv(rt.dispatches, wf)
      /\ wf \in WorkflowState /\ inbox \in [Sessions -> Seq(DispatchIds)]
  BY DEF IInv, GoodHalves
<1>3. t \notin BoundTasks(rt.dispatches)
  BY <1>1, <1>2 DEF KnowsTask, GoodRuntime, IndexFaithful
<1>4. t \in TaskIds /\ t[2] \in DOMAIN rt.dispatches \cup {0}
  <2>1. SessionOf(Head(rt.pending)) \in Sessions
    BY <1>1, <1>2, FrontIsQueued, SessionTyped
  <2> QED BY <2>1, TaskIdsAssumption
<1> HIDE DEF t
<1>5. GoodRuntime(rt') /\ TaskInv(rt'.dispatches)
  BY <1>1, <1>2, <1>3, <1>4, StartKeeps
<1>6. WorkInv(rt'.dispatches, wf)
  BY <1>1, <1>2, <1>3, <1>4, StartKeeps
<1>7. GoodHalves(rt', wf') /\ inbox' \in [Sessions -> Seq(DispatchIds)]
  BY <1>1, <1>2, <1>5, <1>6 DEF GoodHalves
<1> QED BY <1>1, <1>7, FinishGood

LEMMA ProgressTaskGood == IInv /\ ProgressTask => IInv'
<1> SUFFICES ASSUME IInv, ProgressTask PROVE IInv'
  OBVIOUS
<1>1. PICK task \in DOMAIN rt.taskMap :
        IsOpen(rt.taskMap[task]) /\ rt' = ProgressDispatch(rt, task)
  BY DEF ProgressTask
<1>2. /\ host = "ready" /\ Finish({})
      /\ UNCHANGED <<wf, bindings, durableVars, host, spawned, inbox>>
  BY DEF ProgressTask, Ready
<1>3. GoodHalves(rt, wf) /\ inbox \in [Sessions -> Seq(DispatchIds)]
  BY DEF IInv
<1>4. GoodHalves(rt', wf)
  BY <1>1, <1>3, ProgressKeeps DEF KnowsTask, IsOpen
<1>5. GoodHalves(rt', wf') /\ inbox' \in [Sessions -> Seq(DispatchIds)]
  BY <1>2, <1>3, <1>4
<1> QED BY <1>2, <1>5, FinishGood

\* A step moves a workflow that goes on running.
Goes == wf.mode = "workflow_running" /\ wf'.mode = "workflow_running" /\ wf'.node # wf.node

\* The workflow comes to where it is along an edge that is for what a dispatch came to.
AlongEdge ==
  \E i \in DOMAIN Edges, d \in DOMAIN rt'.dispatches :
    LET D == rt'.dispatches[d]
    IN  /\ Edges[i].to = wf'.node /\ Edges[i].from = D.node
        /\ D.status \in Terminal
        /\ Edges[i].when \in EdgeConditions(D.node, D.status) \cup {"always"}

\* A task that is over takes the workflow along, and the call persists or dispatches what follows.
LEMMA CompletionGood ==
  ASSUME IInv, Ready, NEW task \in DOMAIN rt.taskMap, NEW status \in Terminal,
         NEW withText \in BOOLEAN, CompleteProviderTask(task, status, withText),
         inbox' \in [Sessions -> Seq(DispatchIds)],
         UNCHANGED <<bindings, durableVars, host, spawned>>
  PROVE  IInv' /\ (Goes => AlongEdge)
<1> DEFINE done  == CompleteDispatch(rt, task, status)
           ended == IF withText THEN AttachResultText(done, task) ELSE done
           id    == rt.taskMap[task]
           completed == IF status = "completed" THEN {id} ELSE {}
<1>1. PICK a \in Advanced(wf, ended.dispatches[id]) :
        /\ wf' = a.wf
        /\ IF a.followups = {}
           THEN rt' = ended /\ Finish(completed)
           ELSE /\ \E request \in a.followups : BeginDispatch(ended, <<request>>)
                /\ call' = [call EXCEPT !.stage = "busy", !.completed = completed]
  BY DEF CompleteProviderTask
<1>2. /\ GoodHalves(rt, wf) /\ GoodRuntime(rt) /\ TaskInv(rt.dispatches)
      /\ faults \in 0..MaxFaults /\ KnowsTask(rt, task)
      /\ UNCHANGED <<disk, acked, faults>>
  BY DEF IInv, GoodHalves, KnowsTask, durableVars
<1>3. ended = done \/ ended = AttachResultText(done, task)
  OBVIOUS
<1> HIDE DEF ended
<1>4. /\ GoodRuntime(ended) /\ TaskInv(ended.dispatches)
      /\ id \in DOMAIN rt.dispatches /\ ended.dispatches[id].status = status
      /\ DOMAIN ended.dispatches = DOMAIN rt.dispatches
      /\ \A d \in DOMAIN rt.dispatches :
           /\ ended.dispatches[d].node = rt.dispatches[d].node
           /\ d # id => ended.dispatches[d].status = rt.dispatches[d].status
  BY <1>2, <1>3, CompletionEffect
<1> HIDE DEF done, id, completed
<1>5. ended.dispatches[id].node \in Maybe(Nodes)
  BY <1>4 DEF GoodRuntime, IsRuntime, TaskDispatch
<1> DEFINE ds == ended.dispatches
<1>6. /\ DOMAIN ds = DOMAIN rt.dispatches /\ ds[id].status \in Terminal
      /\ ds[id].node \in Maybe(Nodes) /\ a \in Advanced(wf, ds[id])
      /\ \A d \in DOMAIN ds : /\ ds[d].node = rt.dispatches[d].node
                              /\ d # id => ds[d].status = rt.dispatches[d].status
  BY <1>1, <1>4, <1>5
<1> HIDE DEF ds
<1>7. /\ a.wf \in WorkflowState /\ a.followups \subseteq RoleTaskRequest
      /\ a.followups = {} => WorkInv(ds, a.wf)
      /\ \A f \in a.followups : a.wf.request /\ a.wf.node = f.node
      /\ wf.mode = "workflow_running" /\ a.wf.mode = "workflow_running"
           /\ a.wf.node # wf.node =>
           \E i \in DOMAIN Edges :
             /\ Edges[i].to = a.wf.node /\ Edges[i].from = ds[id].node
             /\ Edges[i].when \in EdgeConditions(ds[id].node, ds[id].status) \cup {"always"}
  BY <1>2, <1>4, <1>6, AdvanceKeeps
<1>8. completed \in SUBSET DispatchIds
  BY <1>2, <1>4 DEF completed, GoodRuntime, IsRuntime
<1>9. CASE a.followups = {}
  <2>1. rt' = ended /\ Finish(completed)
    BY <1>1, <1>9
  <2>2. GoodHalves(rt', wf')
    BY <1>1, <1>4, <1>7, <1>9, <2>1 DEF GoodHalves, ds
  <2>3. IInv'
    BY <1>8, <2>1, <2>2, FinishGood DEF Ready
  <2>4. Goes => AlongEdge
    BY <1>1, <1>4, <1>6, <1>7, <2>1 DEF Goes, AlongEdge, ds
  <2> QED BY <2>3, <2>4
<1>10. CASE a.followups # {}
  <2>1. PICK request \in a.followups : BeginDispatch(ended, <<request>>)
    BY <1>1, <1>10
  <2> DEFINE requests == <<request>>
  <2>2. /\ requests \in Seq(RoleTaskRequest) /\ requests # <<>>
        /\ Head(requests).node = request.node
    BY <1>7
  <2>3. BeginDispatch(ended, requests)
    BY <2>1
  <2> HIDE DEF requests
  <2>4. /\ GoodRuntime(rt') /\ TaskInv(rt'.dispatches)
        /\ job' \in Job /\ job'.kind = "dispatch" /\ JobInv'
        /\ \A w : w.request /\ w.node = Head(requests).node => WorkInv(rt'.dispatches, w)
    BY <1>4, <2>2, <2>3, BeginGood
  <2>5. \A d \in DOMAIN ended.dispatches :
          /\ d \in DOMAIN rt'.dispatches
          /\ rt'.dispatches[d].node = ended.dispatches[d].node
          /\ rt'.dispatches[d].status = ended.dispatches[d].status
    BY <1>4, <2>2, <2>3, BeginGood
  <2>6. GoodHalves(rt', wf')
    BY <1>1, <1>7, <2>1, <2>2, <2>4 DEF GoodHalves
  <2>7. call' \in Call /\ call'.stage = "busy" /\ call'.files = <<>>
    <3>1. call' = [call EXCEPT !.stage = "busy", !.completed = completed]
      BY <1>1, <1>10
    <3> QED BY <1>8, <3>1, BusyCall
  <2>8. IInv'
    BY <1>2, <2>4, <2>6, <2>7, CallGood DEF Ready
  <2>9. Goes => AlongEdge
    BY <1>1, <1>4, <1>6, <1>7, <2>5 DEF Goes, AlongEdge, ds
  <2> QED BY <2>8, <2>9
<1> QED BY <1>9, <1>10

LEMMA CompleteTaskGood == IInv /\ CompleteTask => IInv' /\ (Goes => AlongEdge)
<1> SUFFICES ASSUME IInv, CompleteTask PROVE IInv' /\ (Goes => AlongEdge)
  OBVIOUS
<1>1. PICK task \in DOMAIN rt.taskMap, status \in Terminal :
        CompleteProviderTask(task, status, FALSE)
  BY DEF CompleteTask
<1>2. Ready /\ UNCHANGED <<bindings, durableVars, host, spawned, inbox>>
  BY DEF CompleteTask
<1>3. inbox' \in [Sessions -> Seq(DispatchIds)]
  BY <1>2 DEF IInv
<1> QED BY <1>1, <1>2, <1>3, CompletionGood

\* Of some dispatches one is the latest.
LEMMA LatestExists ==
  ASSUME NEW r, IsRuntime(r), NEW open \in SUBSET DOMAIN r.dispatches, open # {}
  PROVE  \E d \in open : \A e \in open : r.dispatches[e].createdAt <= r.dispatches[d].createdAt
<1> DEFINE created(d) == r.dispatches[d].createdAt
           Later == {p \in open \X open : \/ created(p[1]) > created(p[2])
                                          \/ created(p[1]) = created(p[2]) /\ p[1] > p[2]}
<1>1. \A d \in open : created(d) \in Nat /\ d \in Nat
  BY DispatchIdsAssumption DEF IsRuntime, TaskDispatch
<1>2. IsFiniteSet(open)
  BY FS_Subset, DispatchIdsAssumption DEF IsRuntime
<1> HIDE DEF created
<1>3. StrictOrder(open, Later)
  BY <1>1 DEF StrictOrder
<1>4. PICK d \in open : \A e \in open : <<e, d>> \notin Later
  BY <1>2, <1>3, SomeoneIsFirst
<1>5. \A e \in open : ~(created(e) > created(d))
  BY <1>4
<1>6. \A e \in open : created(e) <= created(d)
  BY <1>1, <1>5
<1> QED BY <1>6 DEF created

LEMMA MemberAnswersGood == IInv /\ MemberAnswers => IInv' /\ (Goes => AlongEdge)
<1> SUFFICES ASSUME IInv, MemberAnswers PROVE IInv' /\ (Goes => AlongEdge)
  OBVIOUS
<1>1. PICK s \in Sessions :
        /\ inbox[s] # <<>> /\ inbox' = [inbox EXCEPT ![s] = Tail(@)]
        /\ IF s \notin Range(bindings) THEN UNCHANGED <<rt, wf, call, job>>
           ELSE LET role == CHOOSE r \in DOMAIN bindings : bindings[r] = s
                    open == OpenIn(role, s)
                    latest == CHOOSE d \in open : \A e \in open :
                                rt.dispatches[e].createdAt <= rt.dispatches[d].createdAt
                IN  IF open = {} THEN Finish({}) /\ UNCHANGED <<rt, wf>>
                    ELSE \E status \in {"completed", "failed"} :
                           CompleteProviderTask(rt.dispatches[latest].task, status, TRUE)
  BY DEF MemberAnswers
<1>2. Ready /\ UNCHANGED <<bindings, durableVars, host, spawned>>
  BY DEF MemberAnswers
<1>3. /\ GoodHalves(rt, wf) /\ faults \in 0..MaxFaults
      /\ inbox \in [Sessions -> Seq(DispatchIds)]
      /\ call \in Call /\ call.files = <<>> /\ job = NoJob /\ job \in Job
      /\ UNCHANGED <<disk, acked, faults>>
  BY <1>2 DEF IInv, CallInv, Ready, durableVars
<1>4. inbox' \in [Sessions -> Seq(DispatchIds)]
  <2>1. inbox[s] \in Seq(DispatchIds)
    BY <1>3
  <2>2. Tail(inbox[s]) \in Seq(DispatchIds)
    BY <1>1, <2>1, HeadAndTail
  <2> QED BY <1>1, <1>3, <2>2
<1>5. CASE s \notin Range(bindings)
  <2>1. UNCHANGED <<rt, wf, call, job>>
    BY <1>1, <1>5
  <2>2. NoJob.kind = "none"
    BY DEF NoJob
  <2>3. JobInv'
    BY <1>3, <2>1, <2>2 DEF JobInv
  <2>4. call'.stage = "idle" /\ call' \in Call /\ call'.files = <<>> /\ job' = NoJob
    BY <1>2, <1>3, <2>1 DEF Ready
  <2>5. GoodHalves(rt', wf') /\ job' \in Job /\ job'.kind # "boot"
    BY <1>3, <2>1, <2>2
  <2>6. IInv'
    BY <1>2, <1>3, <1>4, <2>3, <2>4, <2>5, CallGood
  <2> QED BY <2>1, <2>6 DEF Goes
<1>6. CASE s \in Range(bindings)
  <2> DEFINE role == CHOOSE r \in DOMAIN bindings : bindings[r] = s
             open == OpenIn(role, s)
             latest == CHOOSE d \in open : \A e \in open :
                         rt.dispatches[e].createdAt <= rt.dispatches[d].createdAt
  <2>1. CASE open = {}
    <3>1. Finish({}) /\ UNCHANGED <<rt, wf>>
      BY <1>1, <1>6, <2>1
    <3>2. GoodHalves(rt', wf')
      BY <1>3, <3>1
    <3>3. IInv'
      BY <1>2, <1>4, <3>1, <3>2, FinishGood DEF Ready
    <3> QED BY <3>1, <3>3 DEF Goes
  <2>2. CASE open # {}
    <3>1. PICK status \in {"completed", "failed"} :
            CompleteProviderTask(rt.dispatches[latest].task, status, TRUE)
      BY <1>1, <1>6, <2>2
    <3>2. /\ open \subseteq DOMAIN rt.dispatches
          /\ \A d \in open : rt.dispatches[d].task # None
      BY DEF OpenIn
    <3> HIDE DEF open
    <3>3. latest \in open
      BY <1>3, <2>2, <3>2, LatestExists DEF GoodHalves, GoodRuntime
    <3>4. rt.dispatches[latest].task \in DOMAIN rt.taskMap
      BY <1>3, <3>2, <3>3 DEF GoodHalves, GoodRuntime, IndexFaithful, BoundTasks
    <3> QED BY <1>2, <1>4, <3>1, <3>4, CompletionGood DEF Terminal
  <2> QED BY <2>1, <2>2
<1> QED BY <1>5, <1>6

----------------------------------------------------------------------------
(* The invariant, and what a step does to the workflow *)

\* What MovesAlongEdges says of a step
Moves ==
  Goes =>
    \/ wf'.node = Workspace.workflow.entry
    \/ wf'.node = None /\ NodeRole[Workspace.workflow.entry] = None
    \/ AlongEdge

\* Nothing but a turn or a completion moves a workflow that goes on running.
LEMMA StepMoves == IInv /\ [Next]_vars => [Moves]_wf
<1> SUFFICES ASSUME IInv, [Next]_vars PROVE Moves \/ wf' = wf
  OBVIOUS
<1>1. CASE CompleteTask \/ MemberAnswers
  BY <1>1, CompleteTaskGood, MemberAnswersGood DEF Moves, Goes
<1>2. CASE SendTurn
  <2>1. PICK outcome \in TurnOutcomes : wf' = AfterVote(outcome)
    BY <1>2 DEF SendTurn
  <2>2. wf \in WorkflowState /\ outcome.vote \in {"none", "approved", "rejected"}
    BY OutcomeTyped DEF IInv, GoodHalves
  <2> QED BY <2>1, <2>2, AfterVoteGood DEF Moves, Goes
<1>3. CASE End
  BY <1>3 DEF End, Close, Delete, Crash, Forget, NewWorkflow, Moves, Goes
<1>4. CASE Restore
  <2>1. wf.mode = "group_chat"
    BY <1>4 DEF Restore, IInv, CallInv, NewWorkflow
  <2> QED BY <2>1 DEF Moves, Goes
<1>5. CASE \/ New \/ RestoreExisting \/ Persist
           \/ Bootstrap \/ PrepareWrite \/ PrepareError \/ SpawnRole \/ SpawnError
           \/ AssignTask \/ DispatchSent \/ AssignmentSent \/ NoticeSent \/ SendFailed
           \/ StartTask \/ ProgressTask \/ UNCHANGED vars
  BY <1>5 DEF New, RestoreExisting, Persist, Write, WriteError,
              Bootstrap, PrepareWrite, PrepareError, SpawnRole, SpawnError,
              AssignTask, DispatchSent, AssignmentSent, NoticeSent, SendFailed,
              StartTask, ProgressTask, vars, workspaceVars
<1> QED BY <1>1, <1>2, <1>3, <1>4, <1>5 DEF Next

LEMMA StutterGood == IInv /\ UNCHANGED vars => IInv'
<1> SUFFICES ASSUME IInv, UNCHANGED vars PROVE IInv'
  OBVIOUS
<1>1. /\ UNCHANGED <<rt, wf, bindings, call, disk, acked, faults>>
      /\ UNCHANGED <<host, job, spawned, inbox>>
  BY DEF vars, workspaceVars, adapterVars
<1>2. CallInv' /\ JobInv'
  BY <1>1 DEF IInv, CallInv, JobInv
<1>3. HostInv'
  BY <1>1 DEF IInv, HostInv
<1>4. DiskShape' /\ SavedInv'
  BY <1>1 DEF IInv, DiskShape, SavedInv, SessionsOnDisk
<1> QED BY <1>1, <1>2, <1>3, <1>4 DEF IInv

\* The invariant holds in every reachable state.
LEMMA Invariance == Spec => []IInv
<1>1. Init => IInv
  BY InitIInv
<1>2. IInv /\ [Next]_vars => IInv'
  <2> SUFFICES ASSUME IInv, [Next]_vars PROVE IInv'
    OBVIOUS
  <2>1. CASE New \/ Restore \/ RestoreExisting \/ End
    BY <2>1, LifeGood
  <2>2. CASE Bootstrap \/ PrepareWrite \/ PrepareError \/ SpawnRole \/ SpawnError \/ Persist
    BY <2>2, BootstrapGood, PrepareWriteGood, BootFailsGood, SpawnRoleGood, PersistGood
  <2>3. CASE AssignTask \/ SendTurn
    BY <2>3, AssignTaskGood, SendTurnGood
  <2>4. CASE DispatchSent \/ AssignmentSent \/ NoticeSent \/ SendFailed
    BY <2>4, DispatchSentGood, OtherSendsGood
  <2>5. CASE StartTask \/ ProgressTask \/ CompleteTask \/ MemberAnswers
    BY <2>5, StartTaskGood, ProgressTaskGood, CompleteTaskGood, MemberAnswersGood
  <2>6. CASE UNCHANGED vars
    BY <2>6, StutterGood
  <2> QED BY <2>1, <2>2, <2>3, <2>4, <2>5, <2>6 DEF Next
<1> QED BY <1>1, <1>2, PTL DEF Spec

----------------------------------------------------------------------------
(* Who is answered *)

\* The dispatch whose message is under way
Key == IF job.kind = "dispatch" THEN job.id ELSE None

\* OutOfStep = {}, of a runtime in memory or on disk
InStep(ds, id) ==
  \A d \in DOMAIN ds : IF ds[d].status = "queued" THEN d = id ELSE ds[d].task[2] # 0

OwnTasks(ds) == \A d \in DOMAIN ds : ds[d].task # None => ds[d].task[2] = d

OpenOf(ds, role) ==
  {d \in DOMAIN ds : ds[d].role = role /\ ds[d].task # None /\ ds[d].status \notin Terminal}

\* A member has the session its tasks are named for, and a message for each open dispatch.
Answerable(ds, binds, box) ==
  /\ \A d \in DOMAIN ds : ds[d].task # None => ds[d].task[1] = binds[ds[d].role]
  /\ \A r \in DOMAIN binds : Cardinality(OpenOf(ds, r)) <= Len(box[binds[r]])

\* The halves of what AnswersReachDispatches says
Attributed(ds, id) == InStep(ds, id) => OwnTasks(ds)
Awaited(ds, id, binds, box) == InStep(ds, id) => Answerable(ds, binds, box)

MemoryInv ==
  /\ Attributed(rt.dispatches, Key)
  /\ faults = 0 => Awaited(rt.dispatches, Key, bindings, inbox)

\* A restart finds on disk what the members can answer.
DiskInv ==
  disk.state.is = "ok" =>
    /\ Attributed(disk.state.rt.dispatches, None)
    /\ faults = 0 /\ call.stage = "down" =>
         Awaited(disk.state.rt.dispatches, None, disk.provider.bindings, inbox)

StateIsSaved == disk.state.is = "ok" /\ disk.state.rt.dispatches = rt.dispatches

SessionsAreSaved == disk.provider.is = "ok" /\ disk.provider.bindings = bindings

\* Until something goes wrong each call ends with memory and disk in agreement, before the
\* bootstrap there is nothing in either, and no two members share a session.
CalmInv ==
  faults = 0 =>
    /\ IsInjective(bindings)
    /\ host # "ready" \/ call.stage = "down" => DOMAIN rt.dispatches = {}
    /\ call.stage = "down" /\ disk.state.is = "ok" =>
         /\ disk.provider.is = "ok" /\ DOMAIN disk.provider.bindings = Roles
         /\ IsInjective(disk.provider.bindings)
    /\ call.stage \notin {"down", "writing"} /\ host # "ready" => disk.state.is # "ok"
    /\ call.stage = "idle" /\ host = "ready" => StateIsSaved /\ SessionsAreSaved
    /\ call.stage = "writing" =>
         /\ Head(call.files) \in {"provider", "log"} => StateIsSaved
         /\ Head(call.files) = "log" => SessionsAreSaved

AInv == MemoryInv /\ DiskInv /\ CalmInv

\* No dispatch is started, opened again or taken out of the queue, and what is new is queued.
Same(ds, nxt) ==
  /\ \A d \in DOMAIN ds :
       /\ d \in DOMAIN nxt
       /\ nxt[d].task = ds[d].task /\ nxt[d].role = ds[d].role
       /\ nxt[d].status = "queued" <=> ds[d].status = "queued"
       /\ ds[d].status \in Terminal => nxt[d].status \in Terminal
  /\ \A d \in DOMAIN nxt \ DOMAIN ds : nxt[d].status = "queued" /\ nxt[d].task = None

\* No member has fewer messages.
Fuller(binds, box, nextBox) ==
  \A r \in DOMAIN binds :
    /\ Len(box[binds[r]]) \in Nat /\ Len(nextBox[binds[r]]) \in Nat
    /\ Len(box[binds[r]]) <= Len(nextBox[binds[r]])

\* The open dispatches of a role can be counted.
LEMMA OpenOfFinite ==
  ASSUME NEW r, IsRuntime(r), NEW role
  PROVE  IsFiniteSet(OpenOf(r.dispatches, role)) /\ Cardinality(OpenOf(r.dispatches, role)) \in Nat
<1>1. OpenOf(r.dispatches, role) \in SUBSET DispatchIds
  BY DEF OpenOf, IsRuntime
<1> QED BY <1>1, FS_Subset, FS_CardinalityType, DispatchIdsAssumption

\* What leaves the started dispatches alone, or ends some, keeps them attributed; a runtime out
\* of step does not come into step.
LEMMA SameKeeps ==
  ASSUME NEW r, NEW s, IsRuntime(r), IsRuntime(s), Same(r.dispatches, s.dispatches),
         NEW id, NEW nextId, nextId = id \/ nextId \notin DOMAIN r.dispatches
  PROVE  /\ InStep(s.dispatches, nextId) => InStep(r.dispatches, id)
         /\ Attributed(r.dispatches, id) => Attributed(s.dispatches, nextId)
         /\ \A binds, box, nextBox :
              Awaited(r.dispatches, id, binds, box) /\ Fuller(binds, box, nextBox) =>
                Awaited(s.dispatches, nextId, binds, nextBox)
<1> DEFINE ds == r.dispatches
           nxt == s.dispatches
<1>1. InStep(nxt, nextId) => InStep(ds, id)
  BY DEF InStep, Same
<1>2. OwnTasks(ds) => OwnTasks(nxt)
  BY DEF OwnTasks, Same
<1>3. ASSUME NEW binds, NEW box, NEW nextBox, Answerable(ds, binds, box),
             Fuller(binds, box, nextBox)
      PROVE  Answerable(nxt, binds, nextBox)
  <2>1. \A d \in DOMAIN nxt : nxt[d].task # None => nxt[d].task[1] = binds[nxt[d].role]
    BY <1>3 DEF Answerable, Same
  <2>2. ASSUME NEW role \in DOMAIN binds
        PROVE  Cardinality(OpenOf(nxt, role)) <= Len(nextBox[binds[role]])
    <3>1. OpenOf(nxt, role) \in SUBSET OpenOf(ds, role)
      BY DEF OpenOf, Same
    <3>2. Cardinality(OpenOf(nxt, role)) <= Cardinality(OpenOf(ds, role))
      BY <3>1, OpenOfFinite, FS_Subset
    <3>3. Cardinality(OpenOf(nxt, role)) \in Nat /\ Cardinality(OpenOf(ds, role)) \in Nat
      BY OpenOfFinite
    <3>4. /\ Cardinality(OpenOf(ds, role)) <= Len(box[binds[role]])
          /\ Len(box[binds[role]]) <= Len(nextBox[binds[role]])
          /\ Len(box[binds[role]]) \in Nat /\ Len(nextBox[binds[role]]) \in Nat
      BY <1>3 DEF Answerable, Fuller
    <3> QED BY <3>2, <3>3, <3>4
  <2> QED BY <2>1, <2>2 DEF Answerable
<1> QED BY <1>1, <1>2, <1>3 DEF Attributed, Awaited

\* Queueing changes nothing but the queue.
LEMMA QueueSame ==
  ASSUME NEW r, IsRuntime(r), NEW id \in DispatchIds \ DOMAIN r.dispatches, NEW request,
         NEW nxt, nxt = QueueDispatch(r, id, request) \/ nxt = QueueAndClaim(r, id, request)
  PROVE  Same(r.dispatches, nxt.dispatches)
<1> DEFINE ds == r.dispatches
           queued == Put(ds, id, NewDispatch(request, r.clock))
           new == NewDispatch(request, r.clock)
<1>1. /\ QueueDispatch(r, id, request).dispatches = queued
      /\ DOMAIN QueueDispatch(r, id, request) = DOMAIN r
  BY DEF QueueDispatch, IsRuntime
<1>2. /\ DOMAIN queued = DOMAIN ds \cup {id} /\ queued[id] = new
      /\ \A d \in DOMAIN ds : queued[d] = ds[d]
  BY DEF Put
<1> DEFINE claimed == [queued EXCEPT ![id].claim = "claimed"]
<1>3. new.status = "queued" /\ new.task = None
  BY DEF NewDispatch
<1>4. /\ DOMAIN claimed = DOMAIN ds \cup {id}
      /\ claimed[id].status = "queued" /\ claimed[id].task = None
      /\ \A d \in DOMAIN ds : claimed[d] = ds[d]
  <2>1. claimed[id] = [new EXCEPT !.claim = "claimed"]
    BY <1>2
  <2>2. [new EXCEPT !.claim = "claimed"].status = "queued" /\ [new EXCEPT !.claim = "claimed"].task = None
    BY <1>3 DEF NewDispatch
  <2> QED BY <1>2, <2>1, <2>2
<1>5. nxt.dispatches = queued \/ nxt.dispatches = claimed
  BY <1>1 DEF QueueAndClaim, ClaimDispatch, IsRuntime
<1> HIDE DEF queued, claimed, new
<1> QED BY <1>2, <1>3, <1>4, <1>5 DEF Same

LEMMA BeginSame ==
  ASSUME NEW r, IsRuntime(r), DOMAIN r.dispatches = DOMAIN rt.dispatches, NEW requests,
         BeginDispatch(r, requests)
  PROVE  Same(r.dispatches, rt'.dispatches) /\ Key' \notin DOMAIN r.dispatches
<1>1. PICK id \in FreshIds :
        /\ rt' = QueueAndClaim(r, id, Head(requests))
        /\ job' = [kind |-> "dispatch", id |-> id, todo |-> Tail(requests)]
  BY DEF BeginDispatch
<1>2. id \in DispatchIds \ DOMAIN r.dispatches
  BY DEF FreshIds
<1>3. Key' = id
  BY <1>1 DEF Key
<1> QED BY <1>1, <1>2, <1>3, QueueSame

\* Between two messages none is under way.
LEMMA NoKey == ASSUME NEW r, IsRuntime(r) PROVE None \notin DOMAIN r.dispatches
BY DispatchIdsAssumption, NoneAssumption DEF IsRuntime

\* Each member has a session, with a number of messages.
LEMMA BoxTyped ==
  ASSUME NEW n \in 0..MaxSessions, NEW binds, Range(binds) \subseteq 1..n,
         NEW box \in [Sessions -> Seq(DispatchIds)], NEW r \in DOMAIN binds
  PROVE  binds[r] \in Sessions /\ box[binds[r]] \in Seq(DispatchIds)
<1>1. binds[r] \in Range(binds)
  BY DEF Range
<1>2. 1..n \subseteq Sessions
  BY MaxSessionsAssumption DEF Sessions
<1> QED BY <1>1, <1>2

\* A step that starts nothing, and after which no member has fewer messages
LEMMA MemoryKept ==
  ASSUME IInv, IInv', MemoryInv, Same(rt.dispatches, rt'.dispatches), bindings' = bindings,
         inbox' = inbox \/ Fuller(bindings, inbox, inbox'), faults' = 0 => faults = 0,
         Key' = Key \/ Key' \notin DOMAIN rt.dispatches
  PROVE  MemoryInv'
<1>1. Fuller(bindings, inbox, inbox')
  <2>1. \A r \in DOMAIN bindings : inbox[bindings[r]] \in Seq(DispatchIds)
    BY BoxTyped DEF IInv, HostInv
  <2> QED BY <2>1 DEF Fuller
<1>2. IsRuntime(rt) /\ IsRuntime(rt')
  BY DEF IInv, GoodHalves, GoodRuntime
<1>3. /\ Attributed(rt.dispatches, Key) => Attributed(rt'.dispatches, Key')
      /\ \A binds, box, nextBox :
           Awaited(rt.dispatches, Key, binds, box) /\ Fuller(binds, box, nextBox) =>
             Awaited(rt'.dispatches, Key', binds, nextBox)
  BY <1>2, SameKeeps
<1> QED BY <1>1, <1>3 DEF MemoryInv

\* A step that does not touch the dispatches
LEMMA QuietKept ==
  ASSUME IInv, IInv', MemoryInv, UNCHANGED <<rt, bindings>>,
         inbox' = inbox \/ Fuller(bindings, inbox, inbox'), faults' = 0 => faults = 0,
         job' = job \/ job'.kind # "dispatch"
  PROVE  MemoryInv'
<1>1. Same(rt.dispatches, rt'.dispatches)
  BY DEF Same
<1>2. Key' = Key \/ Key' = None
  BY DEF Key
<1>3. None \notin DOMAIN rt.dispatches
  BY NoKey DEF IInv, GoodHalves, GoodRuntime
<1> QED BY <1>1, <1>2, <1>3, MemoryKept

\* Where there are no dispatches, there are none to answer.
LEMMA NothingToAnswer ==
  ASSUME NEW ds, DOMAIN ds = {}, NEW id, NEW binds, NEW box,
         \A r \in DOMAIN binds : box[binds[r]] \in Seq(DispatchIds)
  PROVE  Attributed(ds, id) /\ Awaited(ds, id, binds, box)
<1>1. ASSUME NEW r \in DOMAIN binds PROVE Cardinality(OpenOf(ds, r)) <= Len(box[binds[r]])
  <2>1. OpenOf(ds, r) = {} /\ Len(box[binds[r]]) \in Nat
    BY DEF OpenOf
  <2> QED BY <2>1, FS_EmptySet
<1> QED BY <1>1 DEF Attributed, Awaited, OwnTasks, Answerable

\* What can happen to the saved state in a step but at the end of which no restart is possible,
\* or that may have gone wrong
LEMMA DiskKept ==
  ASSUME IInv, MemoryInv, DiskInv, faults' # 0 \/ call'.stage # "down",
         \/ disk'.state.is # "ok"
         \/ disk'.state = disk.state
         \/ call.stage = "writing" /\ disk'.state.rt.dispatches = rt.dispatches
  PROVE  DiskInv'
<1>1. CASE disk'.state.is # "ok"
  BY <1>1 DEF DiskInv
<1>2. CASE disk'.state = disk.state
  BY <1>2 DEF DiskInv
<1>3. CASE call.stage = "writing" /\ disk'.state.rt.dispatches = rt.dispatches
  <2>1. Key = None
    BY <1>3 DEF IInv, CallInv, Key
  <2> QED BY <1>3, <2>1 DEF DiskInv, MemoryInv
<1> QED BY <1>1, <1>2, <1>3

\* The state and the sessions on disk after a write
LEMMA Written ==
  ASSUME IInv, call.stage \in {"preparing", "writing"}, NEW file, file = Head(call.files),
         disk' = WriteFile(disk, file, Memory) \/ disk' \in BrokenWrite(disk, file, Memory)
  PROVE  /\ \/ disk'.state.is # "ok"
            \/ disk'.state = disk.state
            \/ call.stage = "writing" /\ disk'.state.rt.dispatches = rt.dispatches
         /\ disk' = WriteFile(disk, file, Memory) =>
              /\ call.stage = "preparing" => disk'.state = disk.state \/ disk'.state.is # "ok"
              /\ IF file = "state"
                 THEN disk'.state.is = "ok" /\ disk'.state.rt.dispatches = rt.dispatches
                 ELSE file \in {"provider", "log"} => disk'.state = disk.state
              /\ file = "provider" => disk'.provider.is = "ok" /\ disk'.provider.bindings = bindings
              /\ file = "log" => disk'.provider = disk.provider
<1>1. DOMAIN disk = {"spec", "state", "provider", "log"}
  BY DEF IInv, DiskShape
<1>2. /\ call.stage = "preparing" => file \in {"spec", "seed", "binding"}
      /\ call.stage = "writing" => file \in {"state", "provider", "log"}
  BY NextFile
<1>3. Memory.rt.dispatches = rt.dispatches /\ Memory.bindings = bindings
  BY DEF Memory, Snapshot, IInv, GoodHalves, GoodRuntime, IsRuntime
<1>4. CASE file = "spec"
  BY <1>1, <1>2, <1>4 DEF WriteFile, BrokenWrite
<1>5. CASE file = "seed"
  BY <1>1, <1>2, <1>5 DEF WriteFile, BrokenWrite, Torn
<1>6. CASE file = "binding"
  BY <1>1, <1>2, <1>6 DEF WriteFile, BrokenWrite
<1>7. CASE file = "state"
  BY <1>1, <1>2, <1>3, <1>7 DEF WriteFile, BrokenWrite, Torn
<1>8. CASE file = "provider"
  BY <1>1, <1>2, <1>3, <1>8 DEF WriteFile, BrokenWrite
<1>9. CASE file = "log"
  BY <1>1, <1>2, <1>9 DEF WriteFile, BrokenWrite
<1> QED BY <1>2, <1>4, <1>5, <1>6, <1>7, <1>8, <1>9

\* A call of a workspace in use that goes on, or that is to be saved
LEMMA InUseKept ==
  ASSUME IInv, AInv, MemoryInv', host = "ready", UNCHANGED <<bindings, durableVars, host>>,
         call'.stage = "busy" \/ \E completed : Finish(completed)
  PROVE  AInv'
<1>1. /\ call'.stage \in {"busy", "writing"}
      /\ call'.stage = "writing" => Head(call'.files) = "state"
  BY DEF Finish, ToPersist, PersistFiles
<1>2. UNCHANGED <<bindings, disk, acked, faults, host>>
  BY DEF durableVars
<1>3. DiskInv'
  BY <1>1, <1>2, DiskKept DEF AInv
<1>4. CalmInv'
  BY <1>1, <1>2 DEF AInv, CalmInv
<1> QED BY <1>3, <1>4 DEF AInv


\* What goes wrong may leave a state on disk, but one of dispatches that are in step.
LEMMA WrongKept ==
  ASSUME IInv, AInv, MemoryInv', faults' = faults + 1,
         \/ disk' = disk
         \/ /\ call.stage \in {"preparing", "writing"}
            /\ disk' \in BrokenWrite(disk, Head(call.files), Memory)
  PROVE  AInv'
<1>1. faults' # 0
  BY DEF IInv
<1>2. DiskInv'
  BY <1>1, Written, DiskKept DEF AInv
<1> QED BY <1>1, <1>2 DEF AInv, CalmInv

LEMMA FaultsKept ==
  ASSUME IInv, AInv, IInv',
         \/ PrepareError \/ SpawnError \/ SendFailed
         \/ WriteError /\ job' = NoJob /\ inbox' = inbox
  PROVE  AInv'
<1>1. /\ UNCHANGED <<rt, bindings, inbox>> /\ job' = NoJob /\ faults' = faults + 1
      /\ \/ disk' = disk
         \/ /\ call.stage \in {"preparing", "writing"}
            /\ disk' \in BrokenWrite(disk, Head(call.files), Memory)
  BY DEF PrepareError, SpawnError, SendFailed, WriteError, BootstrapFails, HostFault
<1>2. faults' = 0 => faults = 0
  BY <1>1 DEF IInv
<1>3. MemoryInv'
  BY <1>1, <1>2, QuietKept DEF AInv, NoJob
<1> QED BY <1>1, <1>3, WrongKept

LEMMA EndKept ==
  ASSUME IInv, AInv, IInv', End
  PROVE  AInv'
<1>1. /\ rt' = NewRuntime /\ bindings' = <<>> /\ call'.stage = "down" /\ host' = "fresh"
      /\ disk' = disk => inbox' = inbox
  BY DEF End, Close, Delete, Crash, Forget, Resting
<1>2. DOMAIN NewRuntime.dispatches = {} /\ DOMAIN bindings' = {} /\ IsInjective(bindings')
  BY <1>1, NothingGood DEF NewRuntime, IsInjective
<1>3. MemoryInv'
  BY <1>1, <1>2, NothingToAnswer DEF MemoryInv
<1>4. CASE Crash
  <2>1. /\ faults' = faults + 1
        /\ IF call.files = <<>> THEN disk' = disk
           ELSE disk' \in BrokenWrite(disk, Head(call.files), Memory)
    BY <1>4 DEF Crash
  <2>2. call.files # <<>> => call.stage \in {"preparing", "writing"}
    BY DEF IInv, CallInv, Call
  <2> QED BY <1>3, <2>1, <2>2, WrongKept
<1>5. CASE Delete
  <2>1. disk'.state.is # "ok"
    BY <1>5 DEF Delete, NoDisk, Missing
  <2> QED BY <1>1, <1>2, <1>3, <2>1 DEF AInv, DiskInv, CalmInv
<1>6. CASE Close
  <2>1. call.stage = "idle" /\ UNCHANGED <<disk, acked, faults>> /\ inbox' = inbox
    BY <1>1, <1>6 DEF Close, durableVars
  <2>2. Key = None
    BY <2>1 DEF IInv, CallInv, NoJob, Key
  <2>3. faults = 0 /\ disk.state.is = "ok" =>
          /\ disk.state.rt.dispatches = rt.dispatches
          /\ disk.provider.is = "ok" /\ disk.provider.bindings = bindings
          /\ DOMAIN bindings = Roles /\ IsInjective(bindings)
          /\ Awaited(rt.dispatches, None, bindings, inbox)
    BY <2>1, <2>2 DEF AInv, CalmInv, StateIsSaved, SessionsAreSaved, MemoryInv, IInv, HostInv
  <2>4. disk.state.is = "ok" => Attributed(disk.state.rt.dispatches, None)
    BY DEF AInv, DiskInv
  <2>5. DiskInv'
    BY <2>1, <2>3, <2>4 DEF DiskInv
  <2>6. CalmInv'
    BY <1>1, <1>2, <2>1, <2>3 DEF CalmInv
  <2> QED BY <1>3, <2>5, <2>6 DEF AInv
<1> QED BY <1>4, <1>5, <1>6 DEF End

LEMMA RestoreKept ==
  ASSUME IInv, AInv, IInv', Restore
  PROVE  AInv'
<1>1. /\ rt' \in RestoreSnapshot(disk.state.rt) /\ bindings' = disk.provider.bindings
      /\ disk.state.is = "ok" /\ disk.provider.is = "ok"
      /\ call.stage = "down" /\ call'.stage = "idle"
      /\ host' = IF bindings' = <<>> THEN "fresh" ELSE "ready"
      /\ UNCHANGED <<disk, acked, faults, job, spawned, inbox>>
  BY DEF Restore, Load, CanRestore, durableVars, Resting
<1>2. rt'.dispatches = disk.state.rt.dispatches
  <2>1. PICK r : GoodHalves(r, disk.state.wf) /\ disk.state.rt = Snapshot(r)
    BY <1>1 DEF IInv, DiskShape
  <2>2. /\ DOMAIN Snapshot(r) = DOMAIN r /\ Snapshot(r).dispatches = r.dispatches
        /\ Snapshot(r).members = r.members /\ Snapshot(r).clock = r.clock
    BY <2>1 DEF Snapshot, GoodHalves, GoodRuntime, IsRuntime
  <2> QED BY <1>1, <2>1, <2>2, RestoreSavedGood DEF GoodHalves
<1>3. Key' = None
  BY <1>1 DEF IInv, CallInv, NoJob, Key
<1>4. MemoryInv'
  BY <1>1, <1>2, <1>3 DEF AInv, DiskInv, MemoryInv
<1>5. DiskInv'
  BY <1>1, DiskKept DEF AInv
<1>6. CalmInv'
  <2>1. SUFFICES ASSUME faults = 0 PROVE CalmInv'
    BY <1>1 DEF CalmInv
  <2>2. DOMAIN bindings' = Roles /\ IsInjective(bindings')
    BY <1>1, <2>1 DEF AInv, CalmInv
  <2>3. Roles # {}
    <3>1. Workspace.roles \in Seq(Ids) /\ Workspace.roles # <<>> /\ Range(Workspace.roles) = Roles
      BY WorkspaceAssumption DEF IsSpec
    <3> QED BY <3>1, HeadAndTail
  <2>4. host' = "ready"
    BY <1>1, <2>2, <2>3, NothingGood
  <2> QED BY <1>1, <1>2, <2>2, <2>4 DEF CalmInv, StateIsSaved, SessionsAreSaved
<1> QED BY <1>4, <1>5, <1>6 DEF AInv

LEMMA NewKept ==
  ASSUME IInv, AInv, IInv', New
  PROVE  AInv'
<1>1. /\ call.stage = "down" /\ call'.stage = "idle" /\ disk.state.is # "ok" /\ host' = "fresh"
      /\ UNCHANGED <<rt, bindings, disk, acked, faults, job, spawned, inbox>>
  BY DEF New, durableVars, Resting
<1>2. MemoryInv'
  BY <1>1, QuietKept DEF AInv
<1>3. DiskInv' /\ CalmInv'
  BY <1>1 DEF AInv, DiskInv, CalmInv
<1> QED BY <1>2, <1>3 DEF AInv

\* What the bootstrap does before it saves
LEMMA BootKept ==
  ASSUME IInv, AInv, IInv', Bootstrap \/ PrepareWrite
  PROVE  AInv'
<1>1. /\ UNCHANGED <<rt, bindings, acked, faults, host, spawned, inbox>>
      /\ job' = job \/ job'.kind = "boot"
      /\ call'.stage \in {"preparing", "busy"} /\ host # "ready"
      /\ \/ call.stage = "idle" /\ disk' = disk
         \/ call.stage = "preparing" /\ disk' = WriteFile(disk, Head(call.files), Memory)
  <2>1. CASE Bootstrap
    <3>1. job' = [NoJob EXCEPT !.kind = "boot", !.todo = Workspace.roles]
      BY <2>1 DEF Bootstrap
    <3>2. job'.kind = "boot"
      BY <3>1 DEF NoJob
    <3>3. call \in Call
      BY DEF IInv, CallInv
    <3>4. call'.stage \in {"preparing", "busy"}
      BY <2>1, <3>3 DEF Bootstrap, Call
    <3> QED BY <2>1, <3>2, <3>4 DEF Bootstrap, durableVars
  <2>2. CASE PrepareWrite
    <3>1. call \in Call /\ call.stage = "preparing"
      BY <2>2 DEF IInv, CallInv, PrepareWrite
    <3>2. call'.stage \in {"preparing", "busy"}
      BY <2>2, <3>1 DEF PrepareWrite, Call
    <3>3. host # "ready"
      BY <3>1 DEF IInv, CallInv, HostInv
    <3> QED BY <2>2, <3>1, <3>2, <3>3 DEF PrepareWrite, adapterVars
  <2> QED BY <2>1, <2>2
<1>2. disk'.state = disk.state \/ disk'.state.is # "ok"
  BY <1>1, Written
<1>3. MemoryInv'
  BY <1>1, QuietKept DEF AInv
<1>4. DiskInv'
  BY <1>1, <1>2, DiskKept DEF AInv
<1>5. CalmInv'
  BY <1>1, <1>2 DEF AInv, CalmInv
<1> QED BY <1>3, <1>4, <1>5 DEF AInv

LEMMA SpawnRoleKept ==
  ASSUME IInv, AInv, IInv', SpawnRole
  PROVE  AInv'
<1>1. /\ bindings' = Put(bindings, Head(job.todo), spawned + 1)
      /\ call.stage = "busy" /\ job.kind = "boot" /\ host # "ready"
      /\ job' = job \/ job'.kind = "boot"
      /\ UNCHANGED <<rt, disk, acked, faults, host, inbox>>
      /\ call' = call \/ call' = ToPersist({})
  <2>1. job \in Job
    BY DEF IInv, CallInv
  <2>2. job' = job \/ job'.kind = "boot"
    BY <2>1 DEF SpawnRole, Job
  <2> QED BY <2>2 DEF SpawnRole, durableVars, IInv, HostInv
<1>2. /\ call'.stage \in {"busy", "writing"}
      /\ call'.stage = "writing" => Head(call'.files) = "state"
  BY <1>1 DEF ToPersist, PersistFiles
<1>3. Key' = None /\ Key = None
  BY <1>1 DEF Key
<1>4. MemoryInv'
  <2>1. Attributed(rt'.dispatches, Key')
    BY <1>1, <1>3 DEF AInv, MemoryInv
  <2>2. ASSUME faults' = 0 PROVE Awaited(rt'.dispatches, Key', bindings', inbox')
    <3>1. DOMAIN rt'.dispatches = {}
      BY <1>1, <2>2 DEF AInv, CalmInv
    <3>2. \A r \in DOMAIN bindings' : inbox'[bindings'[r]] \in Seq(DispatchIds)
      BY BoxTyped DEF IInv, HostInv
    <3> QED BY <3>1, <3>2, NothingToAnswer
  <2> QED BY <2>1, <2>2 DEF MemoryInv
<1>5. DiskInv'
  BY <1>1, <1>2, DiskKept DEF AInv
<1>6. faults = 0 => IsInjective(bindings')
  <2>1. ASSUME faults = 0 PROVE IsInjective(bindings)
    BY <2>1 DEF AInv, CalmInv
  <2>2. \A r \in DOMAIN bindings : bindings[r] # spawned + 1
    <3>1. Range(bindings) \subseteq 1..spawned /\ spawned \in Nat
      BY MaxSessionsAssumption DEF IInv, HostInv
    <3>2. \A r \in DOMAIN bindings : bindings[r] \in 1..spawned
      BY <3>1 DEF Range
    <3> QED BY <3>1, <3>2
  <2> QED BY <1>1, <2>1, <2>2 DEF IsInjective, Put
<1>7. CalmInv'
  BY <1>1, <1>2, <1>6 DEF AInv, CalmInv
<1> QED BY <1>4, <1>5, <1>7 DEF AInv

LEMMA WhatIsLeft ==
  ASSUME NEW files \in PersistLists
  PROVE  LET file == Head(files)
             rest == Tail(files)
         IN  /\ file \in {"state", "provider", "log"}
             /\ file = "state" => rest # <<>> /\ Head(rest) = "provider"
             /\ file = "provider" => rest # <<>> /\ Head(rest) = "log"
             /\ file = "log" => rest = <<>>
<1>1. CASE files = <<"state", "provider", "log">>
  BY <1>1
<1>2. CASE files = <<"provider", "log">>
  BY <1>2
<1>3. CASE files = <<"log">>
  BY <1>3
<1> QED BY <1>1, <1>2, <1>3 DEF PersistLists

LEMMA PersistKept ==
  ASSUME IInv, AInv, IInv', Persist
  PROVE  AInv'
<1>1. CASE WriteError /\ job' = NoJob /\ inbox' = inbox
  BY <1>1, FaultsKept
<1>2. CASE /\ Write /\ inbox' = inbox
           /\ IF call'.stage = "idle" THEN job' = NoJob ELSE job' = job
           /\ host' = IF call'.stage = "idle" /\ job.kind = "boot" THEN "ready" ELSE host
  <2> DEFINE file == Head(call.files)
             rest == Tail(call.files)
  <2>1. /\ call.stage = "writing" /\ disk' = WriteFile(disk, file, Memory)
        /\ UNCHANGED <<rt, wf, bindings, faults>>
        /\ IF rest # <<>> THEN call' = [call EXCEPT !.files = rest]
           ELSE call' = Resting("idle")
    BY <1>2 DEF Write
  <2>2. call \in Call /\ call.files \in PersistLists
    BY <2>1 DEF IInv, CallInv
  <2>3. /\ file \in {"state", "provider", "log"}
        /\ file = "state" => rest # <<>> /\ Head(rest) = "provider"
        /\ file = "provider" => rest # <<>> /\ Head(rest) = "log"
        /\ file = "log" => rest = <<>>
    BY <2>2, WhatIsLeft
  <2>4. IF rest = <<>> THEN call'.stage = "idle"
        ELSE call'.stage = "writing" /\ Head(call'.files) = Head(rest)
    BY <2>1, <2>2 DEF Call, Resting
  <2>5. /\ IF file = "state"
           THEN disk'.state.is = "ok" /\ disk'.state.rt.dispatches = rt.dispatches
           ELSE disk'.state = disk.state
        /\ file = "provider" => disk'.provider.is = "ok" /\ disk'.provider.bindings = bindings
        /\ file = "log" => disk'.provider = disk.provider
    BY <2>1, <2>3, Written
  <2>6. MemoryInv'
    BY <1>2, <2>1, QuietKept DEF AInv, NoJob
  <2>7. DiskInv'
    BY <2>1, <2>4, <2>5, DiskKept DEF AInv
  <2>8. job.kind # "boot" => host = "ready"
    BY <2>1 DEF IInv, HostInv
  <2>9. faults' = 0 => IsInjective(bindings') /\ (host' # "ready" => DOMAIN rt'.dispatches = {})
    BY <1>2, <2>1 DEF AInv, CalmInv
  <2> HIDE DEF file, rest
  <2>10. faults' = 0 => StateIsSaved' /\ (file \in {"provider", "log"} => SessionsAreSaved')
    <3>1. ASSUME faults = 0
          PROVE  /\ file \in {"provider", "log"} => StateIsSaved
                 /\ file = "log" => SessionsAreSaved
      BY <2>1, <3>1 DEF AInv, CalmInv, file
    <3> QED BY <2>1, <2>3, <2>5, <3>1 DEF StateIsSaved, SessionsAreSaved
  <2>11. call'.stage = "idle" => host' = "ready"
    BY <1>2, <2>8
  <2>12. call'.stage = "writing" /\ Head(call'.files) = "log" => file = "provider"
    BY <2>3, <2>4
  <2>13. call'.stage = "idle" => file = "log"
    BY <2>3, <2>4
  <2>14. CalmInv'
    BY <2>4, <2>9, <2>10, <2>11, <2>12, <2>13 DEF CalmInv
  <2> QED BY <2>6, <2>7, <2>14 DEF AInv
<1> QED BY <1>1, <1>2 DEF Persist

\* A message more for a session, and no less for any other
LEMMA DeliveredFuller ==
  ASSUME IInv, host = "ready", job.id \in DOMAIN rt.dispatches, Delivered
  PROVE  /\ Fuller(bindings, inbox, inbox')
         /\ Len(inbox'[SessionOf(job.id)]) = Len(inbox[SessionOf(job.id)]) + 1
<1>1. SessionOf(job.id) \in Sessions /\ job.id \in DispatchIds
  BY SessionTyped DEF IInv, GoodHalves, GoodRuntime, IsRuntime
<1>2. /\ \A r \in DOMAIN bindings :
           bindings[r] \in Sessions /\ inbox[bindings[r]] \in Seq(DispatchIds)
      /\ inbox \in [Sessions -> Seq(DispatchIds)]
  BY BoxTyped DEF IInv, HostInv
<1>3. /\ inbox[SessionOf(job.id)] \in Seq(DispatchIds)
      /\ inbox' = [inbox EXCEPT ![SessionOf(job.id)] = Append(@, job.id)]
  BY <1>1, <1>2 DEF Delivered
<1>4. Len(inbox'[SessionOf(job.id)]) = Len(inbox[SessionOf(job.id)]) + 1
  BY <1>1, <1>2, <1>3
<1>5. \A s \in Sessions : s # SessionOf(job.id) => inbox'[s] = inbox[s]
  BY <1>2, <1>3
<1>6. Len(inbox[SessionOf(job.id)]) \in Nat
  BY <1>3
<1> HIDE DEF SessionOf
<1> QED BY <1>2, <1>4, <1>5, <1>6 DEF Fuller

LEMMA QuietCallsKept ==
  ASSUME IInv, AInv, IInv', RestoreExisting \/ NoticeSent \/ AssignmentSent
  PROVE  AInv'
<1>1. /\ host = "ready" /\ Finish({})
      /\ UNCHANGED <<rt, wf, bindings, durableVars, host, spawned>>
      /\ \/ inbox' = inbox
         \/ Delivered /\ job.id \in DOMAIN rt.dispatches
  BY DEF RestoreExisting, NoticeSent, AssignmentSent, IInv, HostInv, JobInv
<1>2. inbox' = inbox \/ Fuller(bindings, inbox, inbox')
  BY <1>1, DeliveredFuller
<1>3. job'.kind # "dispatch" /\ faults' = faults
  BY <1>1 DEF Finish, NoJob, durableVars
<1>4. MemoryInv'
  BY <1>1, <1>2, <1>3, QuietKept DEF AInv
<1> QED BY <1>1, <1>4, InUseKept

\* Queueing, of a task to be assigned or of what a turn comes to
LEMMA TurnsKept ==
  ASSUME IInv, AInv, IInv', AssignTask \/ SendTurn
  PROVE  AInv'
<1>1. /\ Ready /\ call' = [call EXCEPT !.stage = "busy"]
      /\ UNCHANGED <<bindings, durableVars, host, spawned, inbox>>
  BY DEF AssignTask, SendTurn
<1>2. call'.stage = "busy"
  BY <1>1 DEF IInv, CallInv, Call
<1>3. IsRuntime(rt) /\ GoodHalves(rt, wf)
  BY DEF IInv, GoodHalves, GoodRuntime
<1>4. Same(rt.dispatches, rt'.dispatches) /\ Key' \notin DOMAIN rt.dispatches
  <2>1. CASE AssignTask
    <3>1. PICK request \in TaskRequests, id \in FreshIds :
            /\ rt' = QueueDispatch(rt, id, request)
            /\ job' = [kind |-> "assign", id |-> id, todo |-> <<>>]
      BY <2>1 DEF AssignTask
    <3>2. id \in DispatchIds \ DOMAIN rt.dispatches /\ Key' = None
      BY <3>1 DEF FreshIds, Key
    <3> QED BY <1>3, <3>1, <3>2, QueueSame, NoKey
  <2>2. CASE SendTurn
    <3>1. PICK outcome \in TurnOutcomes :
            LET answered == IF outcome.asked THEN AllAnswered(rt) ELSE rt
            IN  IF outcome.plan = <<>>
                THEN rt' = answered /\ job' = [NoJob EXCEPT !.kind = "notify"]
                ELSE BeginDispatch(answered, outcome.plan)
      BY <2>2 DEF SendTurn
    <3> DEFINE answered == IF outcome.asked THEN AllAnswered(rt) ELSE rt
    <3>2. GoodHalves(answered, wf) /\ answered.dispatches = rt.dispatches
      BY <1>3, AnswersKeep
    <3> HIDE DEF answered
    <3>3. CASE outcome.plan = <<>>
      <4>1. rt' = answered /\ job' = [NoJob EXCEPT !.kind = "notify"]
        BY <3>1, <3>3 DEF answered
      <4>2. Key' = None
        BY <4>1 DEF Key, NoJob
      <4> QED BY <1>3, <3>2, <4>1, <4>2, NoKey DEF Same
    <3>4. CASE outcome.plan # <<>>
      <4>1. BeginDispatch(answered, outcome.plan)
        BY <3>1, <3>4 DEF answered
      <4> QED BY <3>2, <4>1, BeginSame DEF GoodHalves, GoodRuntime
    <3> QED BY <3>3, <3>4
  <2> QED BY <2>1, <2>2
<1>5. MemoryInv'
  BY <1>1, <1>4, MemoryKept DEF AInv, durableVars
<1> QED BY <1>1, <1>2, <1>5, InUseKept DEF Ready

\* The dispatch a message is for is the one it starts, or one is left in the queue.
LEMMA SentKept ==
  ASSUME IInv, AInv, IInv', DispatchSent
  PROVE  AInv'
<1> DEFINE t == TaskOf(job.id)
           started == StartNextDispatch(rt, t)
           id == Head(rt.pending)
           ds == rt.dispatches
           nxt == started.dispatches
<1>1. /\ call.stage = "busy" /\ job.kind = "dispatch" /\ Delivered
      /\ UNCHANGED <<wf, bindings, durableVars, host, spawned>>
      /\ \/ rt' = started /\ Finish(call.completed)
         \/ BeginDispatch(started, job.todo) /\ call' = call
  BY DEF DispatchSent
<1>2. /\ GoodRuntime(rt) /\ TaskInv(ds) /\ host = "ready"
      /\ job.id \in DOMAIN ds /\ ds[job.id].status = "queued"
      /\ DOMAIN bindings = Roles
  BY <1>1 DEF IInv, GoodHalves, HostInv, JobInv
<1>3. CanStartNext(rt)
  <2>1. job.id \in Range(rt.pending)
    BY <1>2 DEF GoodRuntime, QueueFaithful, WithStatus
  <2> QED BY <2>1, NothingGood DEF CanStartNext
<1>4. t \in TaskIds /\ t[1] = SessionOf(job.id) /\ t[2] = job.id
  <2>1. job.id \in DispatchIds /\ SessionOf(job.id) \in Sessions
    BY <1>2, SessionTyped DEF GoodRuntime, IsRuntime
  <2> QED BY <2>1, TaskIdsAssumption DEF TaskOf
<1> HIDE DEF t
<1>5. /\ id \in DOMAIN ds /\ ds[id].status = "queued" /\ ds[id].task = None
      /\ DOMAIN nxt = DOMAIN ds /\ nxt[id].status = "started" /\ nxt[id].task = t
      /\ \A d \in DOMAIN ds \ {id} : nxt[d] = ds[d]
  BY <1>2, <1>3, <1>4, StartNextDispatchEffect, FrontIsQueued
<1>6. IsRuntime(started) /\ IsRuntime(rt) /\ nxt[id].role = ds[id].role
  BY <1>2, <1>3, <1>4, <1>5, StartNextDispatchGood DEF GoodStep, GoodRuntime, KeepsBindings
<1>7. job.id # 0 /\ ds[id].role \in Roles
  BY <1>2, <1>5, <1>6, TaskIdsAssumption DEF IsRuntime, TaskDispatch
<1>8. Key = job.id
  BY <1>1 DEF Key
<1> HIDE DEF started, id
<1>9. ASSUME InStep(nxt, None) PROVE id = job.id /\ InStep(ds, Key)
  <2>1. \A d \in DOMAIN nxt : nxt[d].status # "queued"
    BY <1>6, <1>9, NoKey DEF InStep
  <2>2. id = job.id
    BY <1>2, <1>5, <2>1
  <2> QED BY <1>5, <1>8, <1>9, <2>1, <2>2 DEF InStep
<1>10. Attributed(nxt, None)
  <2> SUFFICES ASSUME InStep(nxt, None) PROVE OwnTasks(nxt)
    BY DEF Attributed
  <2>1. OwnTasks(ds) /\ id = job.id
    BY <1>9 DEF AInv, MemoryInv, Attributed
  <2> QED BY <1>4, <1>5, <2>1 DEF OwnTasks
<1>11. ASSUME faults = 0 PROVE Awaited(nxt, None, bindings, inbox')
  <2> SUFFICES ASSUME InStep(nxt, None) PROVE Answerable(nxt, bindings, inbox')
    BY DEF Awaited
  <2>1. Answerable(ds, bindings, inbox) /\ id = job.id
    BY <1>9, <1>11 DEF AInv, MemoryInv, Awaited
  <2>2. /\ Fuller(bindings, inbox, inbox')
        /\ Len(inbox'[SessionOf(id)]) = Len(inbox[SessionOf(id)]) + 1
    BY <1>1, <1>2, <2>1, DeliveredFuller
  <2>3. \A d \in DOMAIN nxt : nxt[d].task # None => nxt[d].task[1] = bindings[nxt[d].role]
    BY <1>4, <1>5, <1>6, <2>1 DEF Answerable, SessionOf
  <2>4. ASSUME NEW role \in DOMAIN bindings
        PROVE  Cardinality(OpenOf(nxt, role)) <= Len(inbox'[bindings[role]])
    <3>1. /\ IsFiniteSet(OpenOf(ds, role)) /\ IsFiniteSet(OpenOf(nxt, role))
          /\ Cardinality(OpenOf(ds, role)) \in Nat /\ Cardinality(OpenOf(nxt, role)) \in Nat
      BY <1>6, OpenOfFinite
    <3>2. /\ Cardinality(OpenOf(ds, role)) <= Len(inbox[bindings[role]])
          /\ Len(inbox[bindings[role]]) <= Len(inbox'[bindings[role]])
          /\ Len(inbox[bindings[role]]) \in Nat /\ Len(inbox'[bindings[role]]) \in Nat
      BY <2>1, <2>2 DEF Answerable, Fuller
    <3>3. CASE role = ds[id].role
      <4>1. OpenOf(nxt, role) \in SUBSET (OpenOf(ds, role) \cup {id})
        BY <1>5 DEF OpenOf
      <4>2. /\ IsFiniteSet(OpenOf(ds, role) \cup {id})
            /\ Cardinality(OpenOf(ds, role) \cup {id}) \in Nat
            /\ Cardinality(OpenOf(ds, role) \cup {id}) <= Cardinality(OpenOf(ds, role)) + 1
        <5> DEFINE S == OpenOf(ds, role)
        <5> HIDE DEF S
        <5>1. /\ IsFiniteSet(S \cup {id})
              /\ Cardinality(S \cup {id}) = IF id \in S THEN Cardinality(S) ELSE Cardinality(S) + 1
          BY <3>1, FS_AddElement DEF S
        <5> QED BY <3>1, <5>1 DEF S
      <4>3. Cardinality(OpenOf(nxt, role)) <= Cardinality(OpenOf(ds, role) \cup {id})
        BY <4>1, <4>2, FS_Subset
      <4>4. Len(inbox'[bindings[role]]) = Len(inbox[bindings[role]]) + 1
        BY <2>2, <3>3 DEF SessionOf
      <4> QED BY <3>1, <3>2, <4>2, <4>3, <4>4
    <3>4. CASE role # ds[id].role
      <4>1. OpenOf(nxt, role) = OpenOf(ds, role)
        BY <1>5, <1>6, <3>4 DEF OpenOf
      <4> QED BY <3>1, <3>2, <4>1
    <3> QED BY <3>3, <3>4
  <2> QED BY <2>3, <2>4 DEF Answerable
<1>12. faults' = faults
  BY <1>1 DEF durableVars
<1>13. CASE rt' = started /\ Finish(call.completed)
  <2>1. Key' = None
    BY <1>13 DEF Finish, NoJob, Key
  <2>2. MemoryInv'
    BY <1>1, <1>10, <1>11, <1>12, <1>13, <2>1 DEF MemoryInv
  <2> QED BY <1>1, <1>2, <1>13, <2>2, InUseKept
<1>14. CASE BeginDispatch(started, job.todo) /\ call' = call
  <2>1. Same(nxt, rt'.dispatches) /\ Key' \notin DOMAIN nxt
    BY <1>5, <1>6, <1>14, BeginSame
  <2>2. IsRuntime(rt')
    BY DEF IInv, GoodHalves, GoodRuntime
  <2>3. /\ Attributed(rt'.dispatches, Key')
        /\ \A binds, box, nextBox :
             Awaited(nxt, None, binds, box) /\ Fuller(binds, box, nextBox) =>
               Awaited(rt'.dispatches, Key', binds, nextBox)
    BY <1>6, <1>10, <2>1, <2>2, SameKeeps
  <2>4. Fuller(bindings, inbox', inbox')
    BY <1>1, <1>2, DeliveredFuller DEF Fuller
  <2>5. MemoryInv'
    BY <1>1, <1>11, <1>12, <2>3, <2>4 DEF MemoryInv
  <2> QED BY <1>1, <1>2, <1>14, <2>5, InUseKept
<1> QED BY <1>1, <1>13, <1>14

\* A dispatch under the host's own task is out of step.
LEMMA HostStartKept ==
  ASSUME IInv, AInv, IInv', StartTask
  PROVE  AInv'
<1> DEFINE t == <<SessionOf(Head(rt.pending)), 0>>
           id == Head(rt.pending)
<1>1. /\ host = "ready" /\ CanStartNext(rt)
      /\ rt' = StartNextDispatch(rt, t) /\ Finish({})
      /\ UNCHANGED <<bindings, durableVars, host>>
  BY DEF StartTask, Ready
<1>2. GoodRuntime(rt)
  BY DEF IInv, GoodHalves
<1>3. t \in TaskIds /\ t[2] = 0
  BY <1>1, <1>2, FrontIsQueued, SessionTyped, TaskIdsAssumption
<1> HIDE DEF t
<1>4. /\ id \in DOMAIN rt'.dispatches /\ rt'.dispatches[id].status = "started"
      /\ rt'.dispatches[id].task = t
  BY <1>1, <1>2, <1>3, StartNextDispatchEffect
<1> HIDE DEF id
<1>5. ~InStep(rt'.dispatches, Key')
  BY <1>3, <1>4 DEF InStep
<1>6. MemoryInv'
  BY <1>5 DEF MemoryInv, Attributed, Awaited
<1> QED BY <1>1, <1>6, InUseKept

LEMMA ProgressKept ==
  ASSUME IInv, AInv, IInv', ProgressTask
  PROVE  AInv'
<1>1. PICK task \in DOMAIN rt.taskMap :
        IsOpen(rt.taskMap[task]) /\ rt' = ProgressDispatch(rt, task)
  BY DEF ProgressTask
<1>2. /\ host = "ready" /\ Finish({})
      /\ UNCHANGED <<wf, bindings, durableVars, host, spawned, inbox>>
  BY DEF ProgressTask, Ready
<1>3. GoodRuntime(rt) /\ KnowsTask(rt, task)
  BY <1>1 DEF IInv, GoodHalves, KnowsTask
<1> DEFINE id == rt.taskMap[task]
<1>4. /\ id \in DOMAIN rt.dispatches /\ rt.dispatches[id].task = task
      /\ DOMAIN rt'.dispatches = DOMAIN rt.dispatches
      /\ rt'.dispatches[id].status = "running" /\ rt'.dispatches[id].task = task
      /\ \A d \in DOMAIN rt.dispatches \ {id} : rt'.dispatches[d] = rt.dispatches[d]
  BY <1>1, <1>3, ReportEffect
<1>5. /\ rt'.dispatches[id].role = rt.dispatches[id].role
      /\ rt.dispatches[id].status # "queued" /\ rt.dispatches[id].status \notin Terminal
  <2>1. KeepsBindings(rt, rt')
    BY <1>1, <1>3, ProgressDispatchGood DEF GoodStep
  <2>2. task # None
    BY <1>3, NoneAssumption DEF KnowsTask, GoodRuntime, IsRuntime
  <2> QED BY <1>1, <1>3, <1>4, <2>1, <2>2 DEF KeepsBindings, GoodRuntime, StartedIsBound, IsOpen
<1> HIDE DEF id
<1>6. Same(rt.dispatches, rt'.dispatches)
  BY <1>4, <1>5 DEF Same
<1>7. Key' = None /\ faults' = faults
  BY <1>2 DEF Key, Finish, NoJob, durableVars
<1>8. None \notin DOMAIN rt.dispatches
  BY <1>3, NoKey DEF GoodRuntime
<1>9. MemoryInv'
  BY <1>2, <1>6, <1>7, <1>8, MemoryKept DEF AInv
<1> QED BY <1>2, <1>9, InUseKept

\* A completion ends its dispatch, and queues one at most.
LEMMA CompletionSame ==
  ASSUME IInv, Ready, NEW task \in DOMAIN rt.taskMap, NEW status \in Terminal,
         NEW withText \in BOOLEAN, CompleteProviderTask(task, status, withText)
  PROVE  /\ call'.stage = "busy" \/ \E completed : Finish(completed)
         /\ \E ended :
              /\ IsRuntime(ended) /\ Same(rt.dispatches, ended.dispatches)
              /\ DOMAIN ended.dispatches = DOMAIN rt.dispatches
              /\ ended.dispatches[rt.taskMap[task]].status \in Terminal
              /\ Same(ended.dispatches, rt'.dispatches)
              /\ Key' \notin DOMAIN ended.dispatches
<1> DEFINE done  == CompleteDispatch(rt, task, status)
           ended == IF withText THEN AttachResultText(done, task) ELSE done
           id    == rt.taskMap[task]
           completed == IF status = "completed" THEN {id} ELSE {}
<1>1. PICK a \in Advanced(wf, ended.dispatches[id]) :
        IF a.followups = {}
        THEN rt' = ended /\ Finish(completed)
        ELSE /\ \E request \in a.followups : BeginDispatch(ended, <<request>>)
             /\ call' = [call EXCEPT !.stage = "busy", !.completed = completed]
  BY DEF CompleteProviderTask
<1>2. /\ GoodRuntime(rt) /\ TaskInv(rt.dispatches) /\ KnowsTask(rt, task) /\ call \in Call
  BY DEF IInv, GoodHalves, KnowsTask, CallInv
<1>3. ended = done \/ ended = AttachResultText(done, task)
  OBVIOUS
<1> HIDE DEF ended
<1>4. /\ GoodRuntime(ended)
      /\ id \in DOMAIN rt.dispatches /\ ended.dispatches[id].status = status
      /\ DOMAIN ended.dispatches = DOMAIN rt.dispatches
      /\ \A d \in DOMAIN rt.dispatches :
           /\ ended.dispatches[d].role = rt.dispatches[d].role
           /\ ended.dispatches[d].task = rt.dispatches[d].task
           /\ d # id => ended.dispatches[d].status = rt.dispatches[d].status
  BY <1>2, <1>3, CompletionEffect
<1>5. \A d \in DOMAIN rt.dispatches :
        rt.dispatches[d].status = "queued" <=> ended.dispatches[d].status = "queued"
  BY <1>2, <1>4 DEF GoodRuntime, StartedIsBound
<1> HIDE DEF done, id, completed
<1>6. IsRuntime(ended) /\ Same(rt.dispatches, ended.dispatches)
  BY <1>4, <1>5 DEF Same, GoodRuntime
<1>7. CASE a.followups = {}
  <2>1. rt' = ended /\ Finish(completed)
    BY <1>1, <1>7
  <2>2. Key' \notin DOMAIN ended.dispatches
    BY <1>6, <2>1, NoKey DEF Key, Finish, NoJob
  <2>3. Same(ended.dispatches, rt'.dispatches)
    BY <2>1 DEF Same
  <2> QED BY <1>4, <1>6, <2>1, <2>2, <2>3 DEF id
<1>8. CASE a.followups # {}
  <2>1. PICK request \in a.followups : BeginDispatch(ended, <<request>>)
    BY <1>1, <1>8
  <2>2. Same(ended.dispatches, rt'.dispatches) /\ Key' \notin DOMAIN ended.dispatches
    BY <1>4, <1>6, <2>1, BeginSame
  <2>3. call'.stage = "busy"
    BY <1>1, <1>2, <1>8 DEF Call
  <2> QED BY <1>4, <1>6, <2>2, <2>3 DEF id
<1> QED BY <1>7, <1>8

LEMMA CompleteKept ==
  ASSUME IInv, AInv, IInv', CompleteTask
  PROVE  AInv'
<1>1. PICK task \in DOMAIN rt.taskMap, status \in Terminal :
        CompleteProviderTask(task, status, FALSE)
  BY DEF CompleteTask
<1>2. Ready /\ UNCHANGED <<bindings, durableVars, host, spawned, inbox>>
  BY DEF CompleteTask
<1>3. /\ call'.stage = "busy" \/ \E completed : Finish(completed)
      /\ \E ended :
           /\ Same(rt.dispatches, ended.dispatches) /\ Same(ended.dispatches, rt'.dispatches)
           /\ Key' \notin DOMAIN ended.dispatches
  BY <1>1, <1>2, CompletionSame
<1>4. Same(rt.dispatches, rt'.dispatches) /\ Key' \notin DOMAIN rt.dispatches
  BY <1>3 DEF Same
<1>5. MemoryInv'
  BY <1>2, <1>4, MemoryKept DEF AInv, durableVars
<1> QED BY <1>2, <1>3, <1>5, InUseKept DEF Ready

\* An answer that is of no use to any dispatch, or a message less for a dispatch less
LEMMA AnswerKept ==
  ASSUME IInv, AInv, IInv', MemberAnswers
  PROVE  AInv'
<1>1. PICK s \in Sessions :
        /\ inbox[s] # <<>> /\ inbox' = [inbox EXCEPT ![s] = Tail(@)]
        /\ IF s \notin Range(bindings) THEN UNCHANGED <<rt, wf, call, job>>
           ELSE LET role == CHOOSE r \in DOMAIN bindings : bindings[r] = s
                    open == OpenIn(role, s)
                    latest == CHOOSE d \in open : \A e \in open :
                                rt.dispatches[e].createdAt <= rt.dispatches[d].createdAt
                IN  IF open = {} THEN Finish({}) /\ UNCHANGED <<rt, wf>>
                    ELSE \E status \in {"completed", "failed"} :
                           CompleteProviderTask(rt.dispatches[latest].task, status, TRUE)
  BY DEF MemberAnswers
<1>2. Ready /\ UNCHANGED <<bindings, disk, acked, faults, host, spawned>>
  BY DEF MemberAnswers, durableVars
<1>3. /\ GoodRuntime(rt) /\ IsRuntime(rt) /\ TaskInv(rt.dispatches) /\ IsRuntime(rt')
      /\ inbox \in [Sessions -> Seq(DispatchIds)] /\ job = NoJob
  BY <1>2 DEF IInv, GoodHalves, GoodRuntime, CallInv, Ready
<1>4. /\ \A r \in DOMAIN bindings :
           bindings[r] \in Sessions /\ inbox[bindings[r]] \in Seq(DispatchIds)
      /\ \A r \in DOMAIN bindings : bindings[r] # s => inbox'[bindings[r]] = inbox[bindings[r]]
      /\ Len(inbox[s]) \in Nat \ {0} /\ Len(inbox'[s]) = Len(inbox[s]) - 1
  <2>1. \A r \in DOMAIN bindings :
          bindings[r] \in Sessions /\ inbox[bindings[r]] \in Seq(DispatchIds)
    BY BoxTyped DEF IInv, HostInv
  <2>2. inbox[s] \in Seq(DispatchIds) /\ inbox[s] # <<>>
    BY <1>1, <1>3
  <2>3. inbox'[s] = Tail(inbox[s])
    BY <1>1, <1>3
  <2>4. Len(Tail(inbox[s])) = Len(inbox[s]) - 1 /\ Len(inbox[s]) \in Nat \ {0}
    BY <2>2
  <2> QED BY <1>1, <1>3, <2>1, <2>3, <2>4
<1>5. Key = None /\ None \notin DOMAIN rt.dispatches
  BY <1>3, NoKey DEF Key, NoJob
<1>6. CASE s \notin Range(bindings)
  <2>1. UNCHANGED <<rt, wf, call, job>>
    BY <1>1, <1>6
  <2>2. \A r \in DOMAIN bindings : bindings[r] # s
    BY <1>6 DEF Range
  <2>3. Fuller(bindings, inbox, inbox')
    BY <1>4, <2>2 DEF Fuller
  <2>4. MemoryInv'
    BY <1>2, <2>1, <2>3, QuietKept DEF AInv
  <2>5. DiskInv'
    BY <1>2, <2>1, DiskKept DEF AInv, Ready
  <2>6. CalmInv'
    BY <1>2, <2>1 DEF AInv, CalmInv, StateIsSaved, SessionsAreSaved
  <2> QED BY <2>4, <2>5, <2>6 DEF AInv
<1>7. CASE s \in Range(bindings)
  <2> DEFINE role == CHOOSE r \in DOMAIN bindings : bindings[r] = s
             open == OpenIn(role, s)
             latest == CHOOSE d \in open : \A e \in open :
                         rt.dispatches[e].createdAt <= rt.dispatches[d].createdAt
  <2>1. role \in DOMAIN bindings /\ bindings[role] = s
    BY <1>7 DEF Range
  <2>2. faults = 0 => \A r \in DOMAIN bindings : r # role => bindings[r] # s
    BY <2>1 DEF AInv, CalmInv, IsInjective
  <2>3. \A d \in open : /\ d \in DOMAIN rt.dispatches /\ rt.dispatches[d].task # None
                        /\ rt.dispatches[d].role = role /\ rt.dispatches[d].status \notin Terminal
    BY DEF OpenIn, IsOpen
  <2>4. ASSUME Answerable(rt.dispatches, bindings, inbox) PROVE OpenOf(rt.dispatches, role) \subseteq open
    BY <2>1, <2>4 DEF Answerable, OpenOf, OpenIn, IsOpen
  <2> HIDE DEF role
  <2>5. CASE open = {}
    <3>1. Finish({}) /\ UNCHANGED <<rt, wf>>
      BY <1>1, <1>7, <2>5 DEF role
    <3>2. Key' = None
      BY <3>1 DEF Finish, NoJob, Key
    <3>3. ASSUME faults = 0, InStep(rt.dispatches, None)
          PROVE  Answerable(rt.dispatches, bindings, inbox')
      <4>1. Answerable(rt.dispatches, bindings, inbox)
        BY <1>5, <3>3 DEF AInv, MemoryInv, Awaited
      <4>2. ASSUME NEW r \in DOMAIN bindings
            PROVE  Cardinality(OpenOf(rt.dispatches, r)) <= Len(inbox'[bindings[r]])
        <5>1. CASE r = role
          <6>1. OpenOf(rt.dispatches, r) = {}
            BY <2>4, <2>5, <4>1, <5>1
          <6>2. Len(inbox'[bindings[r]]) \in Nat
            BY <1>4, <2>1, <5>1
          <6> QED BY <6>1, <6>2, FS_EmptySet
        <5>2. CASE r # role
          BY <1>4, <2>2, <3>3, <4>1, <5>2 DEF Answerable
        <5> QED BY <5>1, <5>2
      <4> QED BY <4>1, <4>2 DEF Answerable
    <3>4. MemoryInv'
      BY <1>2, <1>5, <3>1, <3>2, <3>3 DEF AInv, MemoryInv, Awaited
    <3> QED BY <1>2, <3>1, <3>4, InUseKept DEF Ready, durableVars
  <2>6. CASE open # {}
    <3>1. PICK status \in {"completed", "failed"} :
            CompleteProviderTask(rt.dispatches[latest].task, status, TRUE)
      BY <1>1, <1>7, <2>6 DEF role
    <3> HIDE DEF open
    <3>2. latest \in open
      BY <1>3, <2>3, <2>6, LatestExists
    <3> DEFINE task == rt.dispatches[latest].task
    <3>3. task \in DOMAIN rt.taskMap /\ rt.taskMap[task] = latest
      <4>1. latest \in DOMAIN rt.dispatches /\ task # None
        BY <2>3, <3>2
      <4> HIDE DEF latest
      <4>2. task \in DOMAIN rt.taskMap
        BY <1>3, <4>1 DEF GoodRuntime, IndexFaithful, BoundTasks
      <4>3. rt.taskMap[task] \in DOMAIN rt.dispatches /\ rt.dispatches[rt.taskMap[task]].task = task
        BY <1>3, <4>2 DEF GoodRuntime, IndexFaithful, BoundTo
      <4> QED BY <1>3, <4>1, <4>2, <4>3 DEF TaskInv
    <3> HIDE DEF latest
    <3>4. /\ call'.stage = "busy" \/ \E completed : Finish(completed)
          /\ \E ended :
               /\ IsRuntime(ended) /\ Same(rt.dispatches, ended.dispatches)
               /\ DOMAIN ended.dispatches = DOMAIN rt.dispatches
               /\ ended.dispatches[latest].status \in Terminal
               /\ Same(ended.dispatches, rt'.dispatches)
               /\ Key' \notin DOMAIN ended.dispatches
      BY <1>2, <3>1, <3>3, CompletionSame DEF Terminal
    <3>5. PICK ended :
            /\ IsRuntime(ended) /\ Same(rt.dispatches, ended.dispatches)
            /\ DOMAIN ended.dispatches = DOMAIN rt.dispatches
            /\ ended.dispatches[latest].status \in Terminal
            /\ Same(ended.dispatches, rt'.dispatches)
            /\ Key' \notin DOMAIN ended.dispatches
      BY <3>4
    <3> DEFINE ds == rt.dispatches
               nxt == ended.dispatches
    <3>6. /\ InStep(nxt, None) => InStep(ds, None)
          /\ Attributed(nxt, None)
      <4>1. Attributed(ds, None)
        BY <1>5 DEF AInv, MemoryInv
      <4> QED BY <1>3, <3>5, <4>1, SameKeeps
    <3>7. ASSUME faults = 0 PROVE Awaited(nxt, None, bindings, inbox')
      <4> SUFFICES ASSUME InStep(nxt, None) PROVE Answerable(nxt, bindings, inbox')
        BY DEF Awaited
      <4>1. Answerable(ds, bindings, inbox)
        BY <1>5, <3>6, <3>7 DEF AInv, MemoryInv, Awaited
      <4>2. \A d \in DOMAIN nxt : nxt[d].task # None => nxt[d].task[1] = bindings[nxt[d].role]
        BY <3>5, <4>1 DEF Answerable, Same
      <4>3. ASSUME NEW r \in DOMAIN bindings
            PROVE  Cardinality(OpenOf(nxt, r)) <= Len(inbox'[bindings[r]])
        <5> DEFINE before == OpenOf(ds, r)
                   after == OpenOf(nxt, r)
        <5>1. /\ IsFiniteSet(before) /\ Cardinality(before) \in Nat /\ Cardinality(after) \in Nat
              /\ Cardinality(before) <= Len(inbox[bindings[r]])
              /\ Len(inbox[bindings[r]]) \in Nat
          <6>1. /\ IsFiniteSet(before) /\ Cardinality(before) \in Nat
                /\ Cardinality(after) \in Nat
            BY <1>3, <3>5, OpenOfFinite
          <6>2. Cardinality(before) <= Len(inbox[bindings[r]])
            BY <4>1 DEF Answerable
          <6>3. Len(inbox[bindings[r]]) \in Nat
            BY <1>4
          <6> QED BY <6>1, <6>2, <6>3
        <5>2. CASE r = role
          <6>1. after \in SUBSET (before \ {latest}) /\ latest \in before
            BY <2>3, <3>2, <3>5, <5>2 DEF OpenOf, Same
          <6> HIDE DEF before, after
          <6>2. IsFiniteSet(before \ {latest}) /\ Cardinality(before \ {latest}) = Cardinality(before) - 1
            BY <5>1, <6>1, FS_RemoveElement
          <6>3. Cardinality(after) <= Cardinality(before \ {latest})
            BY <6>1, <6>2, FS_Subset
          <6>4. Len(inbox'[bindings[r]]) = Len(inbox[bindings[r]]) - 1
            BY <1>4, <2>1, <5>2
          <6> QED BY <5>1, <6>2, <6>3, <6>4 DEF after
        <5>3. CASE r # role
          <6>1. after \in SUBSET before
            BY <3>5 DEF OpenOf, Same
          <6> HIDE DEF before, after
          <6>2. Cardinality(after) <= Cardinality(before)
            BY <5>1, <6>1, FS_Subset
          <6>3. inbox'[bindings[r]] = inbox[bindings[r]]
            BY <1>4, <2>2, <3>7, <5>3
          <6> QED BY <5>1, <6>2, <6>3 DEF after
        <5> QED BY <5>2, <5>3
      <4> QED BY <4>2, <4>3 DEF Answerable
    <3>8. MemoryInv'
      <4>1. /\ Attributed(rt'.dispatches, Key')
            /\ \A binds, box, nextBox :
                 Awaited(nxt, None, binds, box) /\ Fuller(binds, box, nextBox) =>
                   Awaited(rt'.dispatches, Key', binds, nextBox)
        BY <1>3, <3>5, <3>6, SameKeeps
      <4>2. Fuller(bindings, inbox', inbox')
        <5>1. \A r \in DOMAIN bindings : Len(inbox'[bindings[r]]) \in Nat
          <6>1. \A r \in DOMAIN bindings' : inbox'[bindings'[r]] \in Seq(DispatchIds)
            BY BoxTyped DEF IInv, HostInv
          <6> QED BY <1>2, <6>1
        <5> QED BY <5>1 DEF Fuller
      <4> QED BY <1>2, <3>7, <4>1, <4>2 DEF MemoryInv
    <3> QED BY <1>2, <3>4, <3>8, InUseKept DEF Ready, durableVars
  <2> QED BY <2>5, <2>6
<1> QED BY <1>6, <1>7

LEMMA StutterKept ==
  ASSUME IInv, AInv, IInv', UNCHANGED vars
  PROVE  AInv'
<1>1. UNCHANGED <<rt, bindings, call, disk, faults, host, job, inbox>>
  BY DEF vars, workspaceVars, adapterVars
<1>2. MemoryInv'
  BY <1>1, QuietKept DEF AInv
<1>3. DiskInv'
  BY <1>1 DEF AInv, DiskInv
<1>4. CalmInv'
  BY <1>1 DEF AInv, CalmInv, StateIsSaved, SessionsAreSaved
<1> QED BY <1>2, <1>3, <1>4 DEF AInv

LEMMA StepKept == IInv /\ AInv /\ IInv' /\ [Next]_vars => AInv'
<1> SUFFICES ASSUME IInv, AInv, IInv', [Next]_vars PROVE AInv'
  OBVIOUS
<1>1. CASE New \/ Restore \/ End
  BY <1>1, NewKept, RestoreKept, EndKept
<1>2. CASE Bootstrap \/ PrepareWrite \/ SpawnRole \/ Persist
  BY <1>2, BootKept, SpawnRoleKept, PersistKept
<1>3. CASE PrepareError \/ SpawnError \/ SendFailed
  BY <1>3, FaultsKept
<1>4. CASE \/ AssignTask \/ SendTurn \/ DispatchSent
           \/ RestoreExisting \/ AssignmentSent \/ NoticeSent
  BY <1>4, TurnsKept, SentKept, QuietCallsKept
<1>5. CASE StartTask \/ ProgressTask \/ CompleteTask \/ MemberAnswers
  BY <1>5, HostStartKept, ProgressKept, CompleteKept, AnswerKept
<1>6. CASE UNCHANGED vars
  BY <1>6, StutterKept
<1> QED BY <1>1, <1>2, <1>3, <1>4, <1>5, <1>6 DEF Next

LEMMA InitAInv == Init => AInv
<1> SUFFICES ASSUME Init PROVE AInv
  OBVIOUS
<1>1. /\ rt = NewRuntime /\ bindings = <<>> /\ call.stage = "down" /\ disk.state.is # "ok"
  BY DEF Init, InitWorkspace, Resting, NoDisk, Missing
<1>2. DOMAIN rt.dispatches = {} /\ DOMAIN bindings = {} /\ IsInjective(bindings)
  BY <1>1, NothingGood DEF NewRuntime, IsInjective
<1>3. MemoryInv
  BY <1>2, NothingToAnswer DEF MemoryInv
<1> QED BY <1>1, <1>2, <1>3 DEF AInv, DiskInv, CalmInv

----------------------------------------------------------------------------
\* The variables always have the shape of the fields and locals they stand for.
THEOREM TypeCorrect == Spec => []TypeOK
<1>1. IInv => TypeOK
  <2> SUFFICES ASSUME IInv PROVE TypeOK
    OBVIOUS
  <2>1. IsWorkspace
    BY DEF IInv, GoodHalves, GoodRuntime, CallInv, HostInv, IsWorkspace
  <2>2. /\ Range(bindings) \subseteq 1..spawned
        /\ host \in {"fresh", "ready", "failed"}
        /\ host = "ready" => DOMAIN bindings = Roles
        /\ job \in Job
        /\ call.stage \in {"down", "idle"} => job = NoJob
        /\ spawned \in 0..MaxSessions
    BY DEF IInv, CallInv, HostInv
  <2>3. inbox \in [Sessions -> Seq(DispatchIds)]
    BY DEF IInv
  <2> QED BY <2>1, <2>2, <2>3 DEF TypeOK
<1> QED BY <1>1, Invariance, PTL

\* While nothing is left in the queue or started by the host, a message starts its own dispatch,
\* whatever sends failed before and whatever was restored; and if nothing has failed or crashed,
\* a member has no fewer messages left to answer than open dispatches.
THEOREM AnswersArrive == Spec => []AnswersReachDispatches
<1>1. IInv /\ AInv => AnswersReachDispatches
  <2> SUFFICES ASSUME IInv, AInv, OutOfStep = {}
               PROVE  /\ OwnTasks(rt.dispatches)
                      /\ faults = 0 => Answerable(rt.dispatches, bindings, inbox)
    BY DEF AnswersReachDispatches, OwnTasks, Answerable, OpenOf, StartedFor, IsOpen
  <2>1. InStep(rt.dispatches, Key)
    BY DEF OutOfStep, InStep, Key
  <2> QED BY <2>1 DEF AInv, MemoryInv, Attributed, Awaited
<1>2. Spec => []AInv
  <2>1. Init => AInv
    BY InitAInv
  <2>2. IInv /\ IInv' /\ AInv /\ [Next]_vars => AInv'
    BY StepKept
  <2> QED BY <2>1, <2>2, Invariance, PTL DEF Spec
<1> QED BY <1>1, <1>2, Invariance, PTL

\* A running workflow always waits for a dispatch, unless nobody can take its node or no edge
\* is for what the dispatch came to.
THEOREM WorkflowsWait == Spec => []RunningHasWork
<1>1. IInv => RunningHasWork
  BY DEF IInv, GoodHalves, WorkInv, RunningHasWork, IsOpen
<1> QED BY <1>1, Invariance, PTL

\* The sessions of a workspace in use are those a restart finds in its provider file.
THEOREM SessionsSaved == Spec => []SessionsOnDisk
<1>1. IInv => SessionsOnDisk
  BY DEF IInv, SavedInv
<1> QED BY <1>1, Invariance, PTL

\* No interleaving of turns, reports, crashes and restores moves a running workflow but to its
\* entry or along an edge that is for what a dispatch came to.
THEOREM WorkflowsKeepToEdges == Spec => MovesAlongEdges
<1>1. IInv /\ [Next]_vars => [Moves]_wf
  BY StepMoves
<1> QED BY <1>1, Invariance, PTL DEF Spec, MovesAlongEdges, Moves, Goes, AlongEdge
=============================================================================
