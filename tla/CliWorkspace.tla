---------------------------- MODULE CliWorkspace ----------------------------
(***************************************************************************)
(* What the Codex and the Claude adapter have in common (the files named   *)
(* workspace.rs of rust/crates/multi-agent-runtime-codex and -claude):     *)
(* each dispatch runs as one turn of a command-line process, and a         *)
(* workspace turn chains the dispatches that the workflow asks for.  How a *)
(* stream of the process is read is in CodexWorkspace and ClaudeWorkspace. *)
(***************************************************************************)
EXTENDS PersistedWorkspace

CONSTANTS
  EntryNode,             \* spec.workflow.entry_node_id
  MaxWorkflowFollowups,  \* options.max_workflow_followups
  CallerRequests         \* what callers pass to run_role_task

ASSUME EntryAssumption == EntryNode \in Nodes /\ NodeRole[EntryNode] \in Roles
ASSUME CallersAssumption == CallerRequests \subseteq RoleTaskRequest
ASSUME FollowupsAssumption == MaxWorkflowFollowups \in Nat

VARIABLE turn  \* where the running call is in the provider turn of its current dispatch

vars == <<workspaceVars, turn>>

\* Whether the call chains workflow followups and how many it may still take; its current
\* dispatch and whether others were queued ahead of that one; what the stream has shown; the
\* exit status.
Turn ==
  [step: {"none", "launching", "streaming", "draining", "settled"}, chain: BOOLEAN,
   budget: 0..MaxWorkflowFollowups, id: Maybe(DispatchIds), behind: BOOLEAN,
   opened: BOOLEAN, done: BOOLEAN, failed: BOOLEAN, ok: BOOLEAN]

NoTurn ==
  [step |-> "none", chain |-> FALSE, budget |-> 0, id |-> None, behind |-> FALSE,
   opened |-> FALSE, done |-> FALSE, failed |-> FALSE, ok |-> FALSE]

Init == InitWorkspace /\ turn = NoTurn

----------------------------------------------------------------------------
(* The life of the workspace object *)

\* new and start.  Callers create a workspace where there is none.
Create ==
  /\ call.stage = "down"
  /\ disk = NoDisk
  /\ call' = [ToPersist({}) EXCEPT !.files = InitFiles(disk) \o @]
  /\ UNCHANGED <<rt, wf, bindings, durableVars>>

\* restore_from_local and start, which persists what was just read
Restore ==
  /\ call.stage = "down"
  /\ Load
  /\ call' = ToPersist({})
  /\ UNCHANGED durableVars

Life == (Create \/ Restore \/ Close \/ Delete \/ Crash) /\ turn' = NoTurn

Persist == (Write \/ WriteError) /\ UNCHANGED turn

\* The call goes on to its persist.
Finish ==
  /\ call' = ToPersist(call.completed)
  /\ turn' = NoTurn

----------------------------------------------------------------------------
(* Starting a call *)

\* execute_assignment up to its first await, from runtime r and with the turn so far
BeginAssignment(r, t, request) ==
  \E id \in DispatchIds \ DOMAIN r.dispatches :
    /\ rt' = QueueAndClaim(r, id, request)
    /\ call' = [call EXCEPT !.stage = "busy"]
    /\ turn' = [NoTurn EXCEPT !.step = "launching", !.chain = t.chain, !.budget = t.budget,
                              !.id = id, !.behind = r.pending # <<>>]

Unchained == NoTurn
Chained == [NoTurn EXCEPT !.chain = TRUE, !.budget = MaxWorkflowFollowups]

\* run_role_task, with the request as its caller made it
RunRoleTask ==
  \E request \in CallerRequests :
    /\ call.stage = "idle"
    /\ RoomFor(1)
    /\ BeginAssignment(rt, Unchained, request)
    /\ UNCHANGED <<wf, bindings, durableVars>>

\* run_workspace_turn, decided Delegate: one assignment outside any workflow node
Delegate ==
  \E role \in Roles :
    /\ call.stage = "idle"
    /\ RoomFor(1)
    /\ BeginAssignment(rt, Chained, [role |-> role, node |-> None])
    /\ UNCHANGED <<wf, bindings, durableVars>>

\* run_workspace_turn, decided ProposeWorkflow: the vote opens and closes in the same call
ProposeApproved ==
  /\ call.stage = "idle"
  /\ RoomFor(1 + MaxWorkflowFollowups)
  /\ wf' = StartWorkflow(CloseVote(OpenVote(wf), TRUE), EntryNode)
  /\ BeginAssignment(AllAnswered(rt), Chained,
                     [role |-> NodeRole[EntryNode], node |-> EntryNode])
  /\ UNCHANGED <<bindings, durableVars>>

ProposeRejected ==
  /\ call.stage = "idle"
  /\ wf' = CloseVote(OpenVote(wf), FALSE)
  /\ rt' = AllAnswered(rt)
  /\ Finish
  /\ UNCHANGED <<bindings, durableVars>>

----------------------------------------------------------------------------
(* The provider turn, but for what the stream says *)

CurrentRole == rt.dispatches[turn.id].role

\* current_task_id: the role's conversation, or the dispatch's own id, which names no task
CurrentTask == IF CurrentRole \in DOMAIN bindings THEN bindings[CurrentRole] ELSE None

\* The process is spawned and takes the prompt.
Launch ==
  /\ turn.step = "launching"
  /\ turn' = [turn EXCEPT !.step = "streaming"]
  /\ UNCHANGED workspaceVars

\* It is not, or the pipe breaks before the prompt is written.
LaunchError ==
  /\ turn.step = "launching"
  /\ Abort /\ turn' = NoTurn
  /\ UNCHANGED <<rt, wf, bindings, durableVars>>

\* The conversation that the process says it is in becomes the role's and takes the next
\* dispatch of the queue, whichever that is.
Announce(conversation) ==
  /\ turn.step = "streaming" /\ ~turn.opened
  /\ CanStartNext(rt)
  /\ bindings' = Put(bindings, CurrentRole, conversation)
  /\ rt' = StartNextDispatch(rt, conversation)
  /\ turn' = [turn EXCEPT !.opened = TRUE]
  /\ UNCHANGED <<wf, call, durableVars>>

\* What the process says it does is progress of the role's conversation.
Progress ==
  /\ turn.step = "streaming" /\ turn.opened
  /\ KnowsTask(rt, CurrentTask)
  /\ rt' = ProgressDispatch(rt, CurrentTask)
  /\ UNCHANGED <<wf, bindings, call, turn, durableVars>>

\* The stream ends, at any point, and the process exits.
ProcessExit ==
  /\ turn.step = "streaming"
  /\ \E success \in BOOLEAN : turn' = [turn EXCEPT !.step = "draining", !.ok = success]
  /\ UNCHANGED workspaceVars

\* turn_timeout passes first, and the process is killed.
TurnTimeout ==
  /\ turn.step = "streaming"
  /\ Abort /\ turn' = NoTurn
  /\ UNCHANGED <<rt, wf, bindings, durableVars>>

\* Standard error is read to its end and the turn is judged.
TurnError ==
  /\ turn.step = "draining"
  /\ ~turn.ok \/ turn.failed
  /\ Abort /\ turn' = NoTurn
  /\ UNCHANGED <<rt, wf, bindings, durableVars>>

----------------------------------------------------------------------------
(* execute_assignment_chain after an assignment *)

\* run_role_task has no chain, and a dispatch that was never started does not advance.
ChainEnds ==
  /\ turn.step = "settled"
  /\ ~turn.chain \/ rt.dispatches[turn.id].task = None
  /\ Finish
  /\ UNCHANGED <<rt, wf, bindings, durableVars>>

\* Faulty variant: followups are not counted.
BudgetAfterUncounted(t) == t.budget

\* Faulty variant: the counter runs the wrong way.
BudgetAfterRaised(t) == t.budget + 1

BudgetAfter(t) == t.budget - 1

\* The advance is about the dispatch that the task of this call's dispatch now points to.
ChainAdvances ==
  /\ turn.step = "settled"
  /\ turn.chain /\ rt.dispatches[turn.id].task # None
  /\ \E a \in Advanced(wf, rt.dispatches[rt.taskMap[rt.dispatches[turn.id].task]]) :
       /\ wf' = a.wf
       /\ IF turn.budget > 0 /\ a.followups # {}
          THEN \E request \in a.followups :
                 BeginAssignment(rt, [turn EXCEPT !.budget = BudgetAfter(turn)], request)
          ELSE /\ Finish
               /\ UNCHANGED rt
  /\ UNCHANGED <<bindings, durableVars>>

CallSteps ==
  \/ RunRoleTask \/ Delegate \/ ProposeApproved \/ ProposeRejected
  \/ Launch \/ LaunchError \/ ProcessExit \/ TurnTimeout \/ TurnError
  \/ ChainEnds \/ ChainAdvances

----------------------------------------------------------------------------
(* Properties of a call *)

\* The variables have the shape of the fields and locals they stand for.
TypeOK ==
  /\ IsWorkspace
  /\ Range(bindings) \subseteq TaskIds
  /\ turn \in Turn
  /\ turn.step # "none" <=> call.stage = "busy"

\* What a turn reports is about a conversation that the runtime knows, so that no report makes
\* the call fail, and goes to the dispatch of the running call, provided that nothing was left
\* in the queue when that was queued (see ReturnedIsCompleted of CodexWorkspace).
CorrelatedUnlessBehind ==
  turn.opened =>
    /\ KnowsTask(rt, CurrentTask)
    /\ ~turn.behind => rt.taskMap[CurrentTask] = turn.id

\* A chained dispatch runs at the workflow's active node: the workflow has not moved or
\* stopped under it, from queueing it to the advance that follows it.
ExecutesActiveNode ==
  LET node == rt.dispatches[turn.id].node
  IN  turn.chain /\ turn.id # None /\ node # None =>
        wf.mode = "workflow_running" /\ wf.node = node

\* No later turn reopens a completed dispatch, even one that resumes the same conversation.
CompletedIsFinal ==
  [][call.stage # "down" /\ call'.stage # "down" =>
       WithStatus(rt.dispatches, "completed") \subseteq WithStatus(rt'.dispatches, "completed")]_rt

\* After a dispatch the active node moves along an edge out of the node that the dispatch ran
\* at, or the workflow ends, and then that node is one that the completion policy ends it at.
WorkflowFollowsEdges ==
  [][turn.step = "settled" /\ call'.stage # "down" /\ wf'.node # wf.node =>
       /\ wf.node # None
       /\ rt.dispatches[turn.id].node = wf.node
       /\ \/ wf'.mode = "group_chat" /\ wf'.node = None
             /\ wf.node \in SuccessNodes \cup FailureNodes \cup CompleteNodes
          \/ \E i \in DOMAIN Edges : Edges[i].from = wf.node /\ Edges[i].to = wf'.node]_wf

\* A call returns or the host dies, whatever the process does: the timeout ends a turn, and
\* the followup budget ends a chain that goes around a cycle of the workflow.
CallReturns == call.stage \notin {"down", "idle"} ~> call.stage \in {"down", "idle"}

\* A conversation that the provider state remembers belongs to a dispatch of the saved state,
\* so a restored adapter never resumes one that the restored runtime has not heard of.
ThreadsHaveDispatches ==
  disk.provider.is = "ok" /\ disk.state.is = "ok" =>
    Range(disk.provider.bindings) \subseteq BoundTasks(disk.state.rt.dispatches)
=============================================================================
