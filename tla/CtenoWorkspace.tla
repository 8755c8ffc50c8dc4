--------------------------- MODULE CtenoWorkspace ---------------------------
(***************************************************************************)
(* CtenoWorkspaceAdapter (rust/crates/multi-agent-runtime-cteno/src/       *)
(* adapter.rs).  Each role has a session of the Cteno host; a dispatch is  *)
(* a message to the session of its role, and the host reports what comes   *)
(* back, in calls of its own.  Between the calls of an adapter only the    *)
(* members act; inside a call, each message to a session is awaited.       *)
(*                                                                         *)
(* The host and the members are external.  The host bootstraps a workspace *)
(* before it uses it and gives a task id of its own to one dispatch only;  *)
(* a member answers the messages of its session one by one, in order.      *)
(*                                                                         *)
(* Members, nodes and sessions are naturals, as TurnPlanning wants them;   *)
(* the task cteno:<session>:<dispatch> is <<session, dispatch>>, and the   *)
(* host's own task of a session is <<session, 0>>.  The public context     *)
(* that messages carry, and its cursors, are left out.                     *)
(***************************************************************************)
EXTENDS PersistedWorkspace, TurnPlanning

CONSTANTS
  Workspace,           \* the WorkspaceSpec, as far as planning reads it
  Messages,            \* the messages users send, as WorkspaceTurnRequest
  ClaimAnswers,        \* what a member may answer to a claim prompt
  CoordinatorAnswers,  \* what the coordinator may answer
  TaskRequests,        \* what the host passes to assign_role_task
  MaxSessions          \* bound: sessions spawned in a behaviour

Sessions == 1..MaxSessions

ASSUME MaxSessionsAssumption == MaxSessions \in Nat
ASSUME WorkspaceAssumption == IsSpec(Workspace) /\ Range(Workspace.roles) = Roles
ASSUME MessagesAssumption == \A request \in Messages : IsRequest(Workspace, request)
ASSUME AnswersAssumption == \A a \in ClaimAnswers : a.confidence \in Int \cup {None}

\* Whoever the workspace or a message names is one of its roles: what the code does with a
\* name that is none, an error where it is to be dispatched to, is left out.
ASSUME NamesAssumption ==
  /\ {Workspace.coordinator, Workspace.default, Workspace.claim.fallback} \subseteq Maybe(Roles)
  /\ \A request \in Messages : request.prefer \in Maybe(Roles)
  /\ IF Workspace.workflow = None THEN Nodes = {}
     ELSE /\ DOMAIN Workspace.workflow.nodes = Nodes
          /\ Workspace.workflow.entry \in Nodes
          /\ \A n \in Nodes : RoleIds(Workspace.workflow.nodes[n]) \subseteq Roles
ASSUME TaskIdsAssumption == TaskIds = Sessions \X (DispatchIds \cup {0}) /\ 0 \notin DispatchIds
ASSUME ResolvedAssumption ==
  \A request \in Messages, n \in Nodes :
    NodeRole[n] = ResolveNodeRole(Workspace, request, Workspace.workflow.nodes[n])
ASSUME TaskRequestsAssumption == TaskRequests \subseteq RoleTaskRequest

VARIABLES
  host,     \* whether the host can use the workspace
  job,      \* what the running call awaits
  spawned,  \* sessions spawned so far
  inbox     \* per session, the dispatches whose message its member has yet to answer

adapterVars == <<host, job, spawned, inbox>>
vars == <<workspaceVars, adapterVars>>

\* A call bootstraps, tells the workspace session that nobody takes the message, or sends a
\* dispatch, of assign_role_task or one to be started; todo is what follows, roles to be
\* provisioned or requests to be dispatched.
Job ==
  [kind: {"none", "boot", "notify", "assign", "dispatch"}, id: Maybe(DispatchIds),
   todo: Seq(Roles) \cup Seq(RoleTaskRequest)]

NoJob == [kind |-> "none", id |-> None, todo |-> <<>>]

Init ==
  /\ InitWorkspace
  /\ host = "fresh"
  /\ job = NoJob
  /\ spawned = 0
  /\ inbox = [s \in Sessions |-> <<>>]

FreshIds == DispatchIds \ (DOMAIN rt.dispatches \cup UNION {Range(inbox[s]) : s \in Sessions})

Finish(completed) ==
  /\ call' = ToPersist(completed)
  /\ job' = NoJob

----------------------------------------------------------------------------
(* The life of the workspace object *)

\* new, where no workspace has been saved yet.  It touches nothing on disk.
New ==
  /\ call.stage = "down"
  /\ disk.state.is \in {"missing", "seed"}
  /\ call' = Resting("idle")
  /\ host' = "fresh"
  /\ UNCHANGED <<rt, wf, bindings, durableVars, job, spawned, inbox>>

\* restore_from_local.  The provider state has the provisioned roles unless it is the seed.
Restore ==
  /\ call.stage = "down"
  /\ Load
  /\ call' = Resting("idle")
  /\ host' = IF bindings' = <<>> THEN "fresh" ELSE "ready"
  /\ UNCHANGED <<durableVars, job, spawned, inbox>>

\* restore_existing, with what bootstrapped() returns: it registers the same sessions again.
RestoreExisting ==
  /\ call.stage = "idle" /\ host = "ready"
  /\ Finish({})
  /\ UNCHANGED <<rt, wf, bindings, durableVars, host, spawned, inbox>>

\* The members outlive the object, and with delete_workspace their sessions are cleaned up.
End ==
  /\ Close \/ Delete \/ Crash
  /\ host' = "fresh"
  /\ job' = NoJob
  /\ inbox' = IF disk # NoDisk /\ disk' = NoDisk THEN [s \in Sessions |-> <<>>] ELSE inbox
  /\ UNCHANGED spawned

\* bootstrap, which a host also calls again after it has failed
Bootstrap ==
  /\ call.stage = "idle" /\ host \in {"fresh", "failed"}
  /\ spawned + Len(Workspace.roles) <= MaxSessions
  /\ job' = [NoJob EXCEPT !.kind = "boot", !.todo = Workspace.roles]
  /\ call' = IF InitFiles(disk) = <<>> THEN [call EXCEPT !.stage = "busy"]
             ELSE [call EXCEPT !.stage = "preparing", !.files = InitFiles(disk)]
  /\ UNCHANGED <<rt, wf, bindings, durableVars, host, spawned, inbox>>

PrepareWrite ==
  /\ call.stage = "preparing"
  /\ disk' = WriteFile(disk, Head(call.files), Memory)
  /\ call' = IF Tail(call.files) = <<>> THEN [call EXCEPT !.stage = "busy", !.files = <<>>]
             ELSE [call EXCEPT !.files = Tail(@)]
  /\ UNCHANGED <<rt, wf, bindings, acked, faults, adapterVars>>

\* Bound: the errors of the host count as faults too.
HostFault == faults < MaxFaults /\ faults' = faults + 1

BootstrapFails ==
  /\ Abort
  /\ job' = NoJob
  /\ host' = "failed"

\* Unlike start of the other adapters, bootstrap does not go on after an I/O error here.
PrepareError ==
  /\ call.stage = "preparing"
  /\ faults < MaxFaults
  /\ faults' = faults + 1
  /\ disk' \in BrokenWrite(disk, Head(call.files), Memory)
  /\ BootstrapFails
  /\ UNCHANGED <<rt, wf, bindings, acked, spawned, inbox>>

\* The host provisions one role after the other; members the adapter knows before it saves.
SpawnRole ==
  /\ call.stage = "busy" /\ job.kind = "boot"
  /\ spawned < MaxSessions
  /\ spawned' = spawned + 1
  /\ bindings' = Put(bindings, Head(job.todo), spawned + 1)
  /\ IF Tail(job.todo) = <<>>
     THEN /\ call' = ToPersist({})
          /\ UNCHANGED job
     ELSE /\ job' = [job EXCEPT !.todo = Tail(@)]
          /\ UNCHANGED call
  /\ UNCHANGED <<rt, wf, durableVars, host, inbox>>

\* prepare_workspace_layout, create_workspace_persona, create_role_agent or
\* spawn_role_session fails; roles provisioned before keep their new sessions.
SpawnError ==
  /\ call.stage = "busy" /\ job.kind = "boot"
  /\ HostFault
  /\ BootstrapFails
  /\ UNCHANGED <<rt, wf, bindings, disk, acked, spawned, inbox>>

\* Faulty variant: a bootstrap that cannot save what it provisioned is a bootstrap.
PersistOrNot ==
  /\ Write \/ WriteError
  /\ job' = IF call'.stage = "idle" THEN NoJob ELSE job
  /\ host' = IF call'.stage = "idle" /\ job.kind = "boot" THEN "ready" ELSE host
  /\ UNCHANGED <<spawned, inbox>>

\* The persist at the end of a call; that of a bootstrap makes the workspace usable.
Persist ==
  \/ /\ Write
     /\ IF call'.stage = "idle" THEN job' = NoJob ELSE UNCHANGED job
     /\ host' = IF call'.stage = "idle" /\ job.kind = "boot" THEN "ready" ELSE host
     /\ UNCHANGED <<spawned, inbox>>
  \/ /\ WriteError
     /\ job' = NoJob
     /\ host' = IF job.kind = "boot" THEN "failed" ELSE host
     /\ UNCHANGED <<spawned, inbox>>

----------------------------------------------------------------------------
(* Dispatching *)

Ready == call.stage = "idle" /\ host = "ready"

\* dispatch_assignment_once up to its await, for the first request, from runtime r
BeginDispatch(r, requests) ==
  \E id \in FreshIds :
    /\ rt' = QueueAndClaim(r, id, Head(requests))
    /\ job' = [kind |-> "dispatch", id |-> id, todo |-> Tail(requests)]

\* assign_role_task, which neither claims nor starts what it queues
AssignTask ==
  \E request \in TaskRequests :
    /\ Ready
    /\ \E id \in FreshIds :
         /\ rt' = QueueDispatch(rt, id, request)
         /\ job' = [kind |-> "assign", id |-> id, todo |-> <<>>]
    /\ call' = [call EXCEPT !.stage = "busy"]
    /\ UNCHANGED <<wf, bindings, durableVars, host, spawned, inbox>>

SessionOf(id) == bindings[rt.dispatches[id].role]

Delivered == inbox' = [inbox EXCEPT ![SessionOf(job.id)] = Append(@, job.id)]

\* Faulty variant: the task is named for the message that the session has to answer next.
TaskOfNext(id) == <<SessionOf(id), Head(Append(inbox[SessionOf(id)], id))>>

\* cteno:<session>:<dispatch>
TaskOf(id) == <<SessionOf(id), id>>

\* The session takes the message.  The task is named for its dispatch; what it starts is the
\* front of the queue.
DispatchSent ==
  /\ call.stage = "busy" /\ job.kind = "dispatch"
  /\ Delivered
  /\ LET started == StartNextDispatch(rt, TaskOf(job.id))
     IN  IF job.todo = <<>>
         THEN /\ rt' = started
              /\ Finish(call.completed)
         ELSE /\ BeginDispatch(started, job.todo)
              /\ UNCHANGED call
  /\ UNCHANGED <<wf, bindings, durableVars, host, spawned>>

AssignmentSent ==
  /\ call.stage = "busy" /\ job.kind = "assign"
  /\ Delivered
  /\ Finish({})
  /\ UNCHANGED <<rt, wf, bindings, durableVars, host, spawned>>

NoticeSent ==
  /\ call.stage = "busy" /\ job.kind = "notify"
  /\ Finish({})
  /\ UNCHANGED <<rt, wf, bindings, durableVars, host, spawned, inbox>>

\* It does not: a dispatch stays in the queue, and nothing is persisted.
SendFailed ==
  /\ call.stage = "busy" /\ job.kind \in {"dispatch", "assign", "notify"}
  /\ HostFault
  /\ Abort
  /\ job' = NoJob
  /\ UNCHANGED <<rt, wf, bindings, disk, acked, host, spawned, inbox>>

----------------------------------------------------------------------------
(* Workspace turns *)

\* What asking the coordinator can come to: the plan and how the vote went, if there was one.
Consulted(request, claimPlan) ==
  LET Voted(kind) ==
        LET voters == VoteCandidates(Workspace)
            Ballot(i) == {NormalizedVote(Workspace, request, kind, voters[i], v) :
                            v \in VoteDecision} \cup {"abstain"}
        IN  {Approves(Workspace, votes) :
               votes \in {b \in [DOMAIN voters -> VoteDecision] :
                            \A i \in DOMAIN b : b[i] \in Ballot(i)}}
      Settled(decision, ok, vote) ==
        [plan |-> FinalPlan(Workspace, request, claimPlan, decision, ok), vote |-> vote]
      decisions == {CoordinatorDecision(Workspace, request, answer) :
                      answer \in CoordinatorAnswers \cup {None}}
  IN  UNION {IF decision.kind # "propose_workflow" THEN {Settled(decision, FALSE, "none")}
             ELSE {Settled(decision, ok, IF ok THEN "approved" ELSE "rejected") :
                     ok \in Voted(decision.kind)} : decision \in decisions}

ClaimSets(request) ==
  LET Answers(r) == {ParsedClaim(Workspace, request, r, a) : a \in ClaimAnswers}
                      \cup {NoClaim}
      asked == ClaimCandidates(Workspace, request)
  IN  {claims \in [asked -> UNION {Answers(r) : r \in asked}] :
         \A r \in asked : claims[r] \in Answers(r)}

\* What a turn can come to: a message that is addressed is not discussed.
TurnOutcomes ==
  UNION {IF request.prefer # None
         THEN {[asked |-> FALSE, vote |-> "none", plan |-> DirectPlan(request.prefer)]}
         ELSE {[asked |-> TRUE, vote |-> o.vote, plan |-> o.plan] : o \in UNION
                {LET plan == GroupPlan(Workspace, request, claims)
                 IN  IF AsksCoordinator(Workspace, request, plan)
                     THEN Consulted(request, plan)
                     ELSE {[plan |-> plan, vote |-> "none"]} : claims \in ClaimSets(request)}} :
           request \in Messages}

AfterVote(outcome) ==
  CASE outcome.vote = "none"     -> wf
    [] outcome.vote = "rejected" -> CloseVote(OpenVote(wf), FALSE)
    [] outcome.vote = "approved" ->
         StartWorkflow(CloseVote(OpenVote(wf), TRUE),
                       IF outcome.plan = <<>> THEN None ELSE outcome.plan[1].node)

\* send_workspace_turn.  Members whose answer is awaited have nothing else to report to, so
\* the claims, the decision and the votes are one step.
SendTurn ==
  \E outcome \in TurnOutcomes :
    /\ Ready
    /\ Cardinality(FreshIds) >= Len(outcome.plan)
    /\ wf' = AfterVote(outcome)
    /\ LET answered == IF outcome.asked THEN AllAnswered(rt) ELSE rt
       IN  IF outcome.plan = <<>>
           THEN /\ rt' = answered
                /\ job' = [NoJob EXCEPT !.kind = "notify"]
           ELSE BeginDispatch(answered, outcome.plan)
    /\ call' = [call EXCEPT !.stage = "busy"]
    /\ UNCHANGED <<bindings, durableVars, host, spawned, inbox>>

----------------------------------------------------------------------------
(* What the host reports *)

IsOpen(id) == rt.dispatches[id].status \notin Terminal

\* complete_provider_task: completing, advancing the workflow, dispatching what it asks for
CompleteProviderTask(task, status, withText) ==
  LET done  == CompleteDispatch(rt, task, status)
      ended == IF withText THEN AttachResultText(done, task) ELSE done
      id    == rt.taskMap[task]
      completed == IF status = "completed" THEN {id} ELSE {}
  IN  \E a \in Advanced(wf, ended.dispatches[id]) :
        /\ wf' = a.wf
        /\ IF a.followups = {}
           THEN /\ rt' = ended
                /\ Finish(completed)
           ELSE /\ \E request \in a.followups : BeginDispatch(ended, <<request>>)
                /\ call' = [call EXCEPT !.stage = "busy", !.completed = completed]

\* start_provider_task, with the host's task of the session of the dispatch it will start
StartTask ==
  /\ Ready /\ CanStartNext(rt)
  /\ LET task == <<SessionOf(Head(rt.pending)), 0>>
     IN  /\ ~KnowsTask(rt, task)
         /\ rt' = StartNextDispatch(rt, task)
  /\ Finish({})
  /\ UNCHANGED <<wf, bindings, durableVars, host, spawned, inbox>>

\* progress_provider_task, of a task that is not over
ProgressTask ==
  \E task \in DOMAIN rt.taskMap :
    /\ Ready /\ IsOpen(rt.taskMap[task])
    /\ rt' = ProgressDispatch(rt, task)
    /\ Finish({})
    /\ UNCHANGED <<wf, bindings, durableVars, host, spawned, inbox>>

\* complete_provider_task, of a task that is not over, or once more of a completed one, since
\* the call that completed it may have returned Err.
CompleteTask ==
  \E task \in DOMAIN rt.taskMap, status \in Terminal :
    /\ Ready
    /\ IsOpen(rt.taskMap[task]) \/ status = rt.dispatches[rt.taskMap[task]].status
    /\ CompleteProviderTask(task, status, FALSE)
    /\ UNCHANGED <<bindings, durableVars, host, spawned, inbox>>

\* Faulty variant: all that is open, whoever has it.
OpenAnywhere(role, s) == {d \in DOMAIN rt.dispatches : rt.dispatches[d].task # None /\ IsOpen(d)}

\* The open dispatches of a role that a task of session s was started for
OpenIn(role, s) ==
  {d \in DOMAIN rt.dispatches :
     /\ rt.dispatches[d].role = role /\ IsOpen(d)
     /\ rt.dispatches[d].task # None /\ rt.dispatches[d].task[1] = s}

\* ingest_member_response: of the open dispatches, the answer is taken to be for the latest.
\* When there is none it is only a message, and from a session of no role not even that.
MemberAnswers ==
  \E s \in Sessions :
    /\ Ready /\ inbox[s] # <<>>
    /\ inbox' = [inbox EXCEPT ![s] = Tail(@)]
    /\ IF s \notin Range(bindings) THEN UNCHANGED <<rt, wf, call, job>>
       ELSE LET role == CHOOSE r \in DOMAIN bindings : bindings[r] = s
                open == OpenIn(role, s)
                latest == CHOOSE d \in open : \A e \in open :
                            rt.dispatches[e].createdAt <= rt.dispatches[d].createdAt
            IN  IF open = {} THEN Finish({}) /\ UNCHANGED <<rt, wf>>
                ELSE \E status \in {"completed", "failed"} :
                       CompleteProviderTask(rt.dispatches[latest].task, status, TRUE)
    /\ UNCHANGED <<bindings, durableVars, host, spawned>>

----------------------------------------------------------------------------

Next ==
  \/ New \/ Restore \/ RestoreExisting \/ End \/ Persist
  \/ Bootstrap \/ PrepareWrite \/ PrepareError \/ SpawnRole \/ SpawnError
  \/ AssignTask \/ SendTurn
  \/ DispatchSent \/ AssignmentSent \/ NoticeSent \/ SendFailed
  \/ StartTask \/ ProgressTask \/ CompleteTask \/ MemberAnswers

Spec == Init /\ [][Next]_vars

----------------------------------------------------------------------------
(* Properties *)

\* The variables have the shape of the fields and locals they stand for; a job is one of a
\* running call, and a member has only messages that name a dispatch.
TypeOK ==
  /\ IsWorkspace
  /\ Range(bindings) \subseteq 1..spawned
  /\ host \in {"fresh", "ready", "failed"}
  /\ host = "ready" => DOMAIN bindings = Roles
  /\ job \in Job
  /\ call.stage \in {"down", "idle"} => job = NoJob
  /\ spawned \in 0..MaxSessions
  /\ inbox \in [Sessions -> Seq(DispatchIds)]

\* The dispatches out of step with the messages: left in the queue, by a send that failed or an
\* assignment, or started by the host under a task of its own.
OutOfStep ==
  {d \in DOMAIN rt.dispatches :
     IF rt.dispatches[d].status = "queued" THEN job.kind # "dispatch" \/ job.id # d
     ELSE rt.dispatches[d].task[2] = 0}

StartedFor(role) ==
  {d \in DOMAIN rt.dispatches : rt.dispatches[d].role = role /\ rt.dispatches[d].task # None}

\* While none is, a message starts its own dispatch, over any turns, followups, crashes and
\* restores; and although an answer goes to the latest open dispatch of the role and not to the
\* one it is for, none is left without: a member has yet to answer as many messages as it has
\* open dispatches, unless a crash or a failed write has undone an answer.
AnswersReachDispatches ==
  OutOfStep = {} =>
    /\ \A d \in DOMAIN rt.dispatches :
         rt.dispatches[d].task # None => rt.dispatches[d].task[2] = d
    /\ faults = 0 => \A r \in DOMAIN bindings :
         Cardinality({d \in StartedFor(r) : IsOpen(d)}) <= Len(inbox[bindings[r]])

\* A running workflow waits for somebody: at its active node a dispatch is queued or open, if
\* anybody can take the node, or one is over whose result no edge of the node is for.
RunningHasWork ==
  LET At(n) == {d \in DOMAIN rt.dispatches : rt.dispatches[d].node = n}
      Stuck(n, status) == \E c \in EdgeConditions(n, status) : NextNode(n, c) = None
  IN  wf.mode = "workflow_running" /\ wf.node # None =>
        \/ NodeRole[wf.node] = None
        \/ \E d \in At(wf.node) : IsOpen(d) \/ Stuck(wf.node, rt.dispatches[d].status)

\* A host that may use the workspace finds the sessions of its members again after a restart:
\* the provider file has them, unless it was torn by a failed write.
SessionsOnDisk ==
  host = "ready" /\ disk.provider.is = "ok" => disk.provider.bindings = bindings

\* However the dispatches of several turns and followups end, a running workflow goes to its
\* entry, which is no node if nobody can take that, or along an edge that is for what a
\* dispatch came to, at the node it was made for.
MovesAlongEdges ==
  [][wf.mode = "workflow_running" /\ wf'.mode = "workflow_running" /\ wf'.node # wf.node =>
       \/ wf'.node = Workspace.workflow.entry
       \/ wf'.node = None /\ NodeRole[Workspace.workflow.entry] = None
       \/ \E i \in DOMAIN Edges, d \in DOMAIN rt'.dispatches :
            LET D == rt'.dispatches[d]
            IN  /\ Edges[i].to = wf'.node /\ Edges[i].from = D.node
                /\ D.status \in Terminal
                /\ Edges[i].when \in EdgeConditions(D.node, D.status) \cup {"always"}]_wf

\* A workflow gets past a review only when a reviewer has completed it: where every path from
\* the entry to the active node leads through a review node, a dispatch of that is completed.
GatesHold ==
  LET Reviews == {g \in Nodes : Workspace.workflow.nodes[g].type = "review"}
      Closed(S, g) == \A i \in DOMAIN Edges :
                        Edges[i].from \in S \ {g} => Edges[i].to \in S
      Behind(n, g) == n # g /\ \E S \in SUBSET Nodes :
                        Workspace.workflow.entry \in S /\ n \notin S /\ Closed(S, g)
  IN  wf.mode = "workflow_running" /\ wf.node # None =>
        \A g \in Reviews : Behind(wf.node, g) =>
          \E d \in DOMAIN rt.dispatches :
            rt.dispatches[d].node = g /\ rt.dispatches[d].status = "completed"
=============================================================================
