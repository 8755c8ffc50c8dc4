-------------------------- MODULE DispatchRuntime --------------------------
(***************************************************************************)
(* WorkspaceRuntime under  its public API: any caller may call any         *)
(* dispatch method whenever it returns Ok, with any argument, and may at   *)
(* any time throw the runtime away and restore a new one from the last     *)
(* snapshot.  (A method that returns Err before it changes anything is a   *)
(* stuttering step.)                                                       *)
(***************************************************************************)
EXTENDS RuntimeCore

CONSTANTS
  CompletionStatuses,  \* what callers pass to complete_dispatch
  ClaimDecisions       \* what callers pass to claim_dispatch

\* No caller reports a dispatch as queued; anything else is a legal argument.
ASSUME CompletionStatusesAssumption == CompletionStatuses \subseteq DispatchStatus \ {"queued"}
ASSUME ClaimDecisionsAssumption == ClaimDecisions \subseteq ClaimStatus

VARIABLES
  rt,         \* the runtime
  requeued,   \* history: the dispatches of a queue that a restore put in another order
  reindexed   \* history: the tasks that a restore pointed to another dispatch

vars == <<rt, requeued, reindexed>>

Init ==
  /\ rt = NewRuntime
  /\ requeued = {}
  /\ reindexed = {}

Queue ==
  \E id \in DispatchIds \ DOMAIN rt.dispatches, request \in RoleTaskRequest :
    /\ rt' = QueueDispatch(rt, id, request)
    /\ UNCHANGED <<requeued, reindexed>>

Claim ==
  \E id \in DOMAIN rt.dispatches, status \in ClaimDecisions :
    /\ rt' = ClaimDispatch(rt, id, status)
    /\ UNCHANGED <<requeued, reindexed>>

Start ==
  \E t \in TaskIds :
    /\ CanStartNext(rt)
    /\ rt' = StartNextDispatch(rt, t)
    /\ reindexed' = reindexed \ {t}
    /\ UNCHANGED requeued

Progress ==
  \E t \in TaskIds :
    /\ KnowsTask(rt, t)
    /\ rt' = ProgressDispatch(rt, t)
    /\ UNCHANGED <<requeued, reindexed>>

Complete ==
  \E t \in TaskIds, status \in CompletionStatuses :
    /\ KnowsTask(rt, t)
    /\ rt' = CompleteDispatch(rt, t, status)
    /\ UNCHANGED <<requeued, reindexed>>

Attach ==
  \E t \in TaskIds :
    /\ KnowsTask(rt, t)
    /\ rt' = AttachResultText(rt, t)
    /\ UNCHANGED <<requeued, reindexed>>

Answer ==
  \E role \in Roles :
    /\ rt' = MemberAnswered(rt, role)
    /\ UNCHANGED <<requeued, reindexed>>

Restore ==
  /\ rt' \in RestoreSnapshot(rt)
  /\ requeued' = requeued \cup (IF rt'.pending = rt.pending THEN {} ELSE Range(rt.pending))
  /\ reindexed' = reindexed \cup {t \in DOMAIN rt.taskMap : rt'.taskMap[t] # rt.taskMap[t]}

Next ==
  \/ Queue \/ Claim \/ Start \/ Progress \/ Complete \/ Attach \/ Answer \/ Restore

Spec == Init /\ [][Next]_vars

----------------------------------------------------------------------------
(* Properties *)

\* The runtime record keeps the shape of the struct, and the history variables theirs.
TypeOK ==
  /\ IsRuntime(rt)
  /\ requeued \subseteq DOMAIN rt.dispatches
  /\ reindexed \subseteq BoundTasks(rt.dispatches)

\* pending_dispatch_queue is exactly the set of queued dispatches, each once: no call and
\* no restore loses one, queues one twice, or leaves a started one to be started again.
PendingIsQueued == QueueFaithful(rt)

\* provider_task_to_dispatch agrees with the provider_task_id fields: every task that
\* was ever bound is known, and reports of it reach a dispatch that it did start.
TaskIndexFaithful == IndexFaithful(rt)

\* Correlation is FIFO: a dispatch starts before every dispatch created after it, unless
\* a restore put both back in the queue, where Uuid order replaces creation order.
StartsInQueueOrder ==
  \A d, e \in DOMAIN rt.dispatches :
    LET D == rt.dispatches[d]
        E == rt.dispatches[e]
    IN  (D.createdAt < E.createdAt /\ E.startedAt # None) =>
          \/ D.startedAt # None /\ D.startedAt < E.startedAt
          \/ {d, e} \subseteq requeued

\* A task that starts several dispatches reports about the one it started last, unless a
\* restore indexed it anew, where the highest Uuid replaces the latest start.
LatestStartOwnsTask ==
  \A t \in DOMAIN rt.taskMap \ reindexed :
    \A d \in BoundTo(rt.dispatches, t) :
      rt.dispatches[d].startedAt <= rt.dispatches[rt.taskMap[t]].startedAt

\* What a started dispatch is bound to is settled: no later call, restart included, moves
\* it to another role, node or task, restamps it, drops its result, or queues it again.
BindingIsPermanent == [][KeepsBindings(rt, rt')]_rt

----------------------------------------------------------------------------
(* Refinement: queue, index and clock hidden, the runtime is a DispatchBoard. *)

Phase(d) ==
  IF d \notin DOMAIN rt.dispatches THEN "absent"
  ELSE IF rt.dispatches[d].status = "queued" THEN "waiting"
  ELSE IF rt.dispatches[d].status \in Terminal THEN "closed"
  ELSE "open"

Owner(d) == IF d \in DOMAIN rt.dispatches THEN rt.dispatches[d].task ELSE None

Board == INSTANCE DispatchBoard
  WITH phase <- [d \in DispatchIds |-> Phase(d)], owner <- [d \in DispatchIds |-> Owner(d)]

\* Every call posts, takes, reports on or closes one dispatch, or changes nothing at that
\* level; in particular restore_snapshot, which rebuilds both indexes, changes nothing.
ImplementsBoard == Board!Spec
============================================================================
