---------------------------- MODULE RuntimeCore ----------------------------
(***************************************************************************)
(* The dispatch half of WorkspaceRuntime, the provider-neutral runtime     *)
(* every Rust adapter embeds (rust/crates/multi-agent-runtime-core/src/    *)
(* runtime.rs).  The struct is a record and each `&mut self` method is an  *)
(* operator from one record to the next, so that an adapter that calls     *)
(* several methods in one handler composes the operators in one action.    *)
(* The condition under which a method returns Ok is an operator of its own *)
(* (CanStartNext, KnowsTask), since callers branch on it.                  *)
(*                                                                         *)
(* Uuids are natural numbers: only their order, which is the iteration     *)
(* order of the BTreeMap of dispatches, is observable.  Timestamps are     *)
(* readings of a logical clock that every stamping method advances.  Texts *)
(* are left out, except whether a dispatch has a result text; so is        *)
(* claimed_by_member_ids, always the role itself, and the event log.       *)
(***************************************************************************)
EXTENDS Option, Naturals, Sequences, FiniteSets, Functions

CONSTANTS
  Roles,        \* the role ids of the WorkspaceSpec, which are also the members
  DispatchIds,  \* the Uuids that Uuid::new_v4 can return
  TaskIds,      \* the ids a provider gives to its tasks, threads or sessions
  Nodes,        \* the workflow node ids
  ClaimMode     \* spec.claim_policy.mode, "direct" when there is no policy

ASSUME DispatchIdsAssumption == DispatchIds \subseteq Nat /\ IsFiniteSet(DispatchIds)
ASSUME NoneAssumption == None \notin Roles \cup TaskIds \cup Nodes \cup Nat
ASSUME ClaimModeAssumption == ClaimMode \in {"direct", "claim", "coordinator_only"}

----------------------------------------------------------------------------
(* Types *)

Terminal == {"completed", "failed", "stopped"}
DispatchStatus == {"queued", "started", "running"} \cup Terminal
ClaimStatus == {"pending", "claimed", "supporting", "declined"}
MemberStatus == {"idle", "active", "blocked", "waiting"}

RoleTaskRequest == [role: Roles, node: Maybe(Nodes)]

TaskDispatch ==
  [role: Roles, node: Maybe(Nodes), status: DispatchStatus, task: Maybe(TaskIds),
   claim: ClaimStatus, createdAt: Nat, startedAt: Maybe(Nat), result: BOOLEAN]

\* dispatches and members are fields of the serialized WorkspaceState; pending is
\* pending_dispatch_queue and taskMap is provider_task_to_dispatch, which are not.
IsRuntime(rt) ==
  /\ DOMAIN rt = {"dispatches", "members", "pending", "taskMap", "clock"}
  /\ DOMAIN rt.dispatches \subseteq DispatchIds
  /\ rt.dispatches \in [DOMAIN rt.dispatches -> TaskDispatch]
  /\ rt.members \in [Roles -> MemberStatus]
  /\ rt.pending \in Seq(DOMAIN rt.dispatches)
  /\ DOMAIN rt.taskMap \subseteq TaskIds
  /\ rt.taskMap \in [DOMAIN rt.taskMap -> DOMAIN rt.dispatches]
  /\ rt.clock \in Nat

NewRuntime ==
  [dispatches |-> [d \in {} |-> None], members |-> [m \in Roles |-> "idle"],
   pending |-> <<>>, taskMap |-> [t \in {} |-> None], clock |-> 0]

----------------------------------------------------------------------------
(* Helpers *)

\* BTreeMap::insert
Put(f, k, v) == [x \in DOMAIN f \cup {k} |-> IF x = k THEN v ELSE f[x]]

WithStatus(ds, status) == {d \in DOMAIN ds : ds[d].status = status}
BoundTo(ds, t) == {d \in DOMAIN ds : ds[d].task = t}
BoundTasks(ds) == {ds[d].task : d \in DOMAIN ds} \ {None}

----------------------------------------------------------------------------
(* Queueing and claiming *)

\* Faulty variant: the claim status stays unset until a member answers.
NewDispatchUnclaimed(request, now) ==
  [role |-> request.role, node |-> request.node, status |-> "queued", task |-> None,
   claim |-> None, createdAt |-> now, startedAt |-> None, result |-> FALSE]

NewDispatch(request, now) ==
  [role |-> request.role, node |-> request.node, status |-> "queued", task |-> None,
   claim |-> IF ClaimMode = "claim" THEN "pending" ELSE "claimed",
   createdAt |-> now, startedAt |-> None, result |-> FALSE]

\* id is the Uuid drawn for the new dispatch
QueueDispatch(rt, id, request) ==
  [rt EXCEPT !.pending = Append(@, id),
             !.dispatches = Put(@, id, NewDispatch(request, rt.clock)),
             !.clock = @ + 1]

ClaimDispatch(rt, id, status) == [rt EXCEPT !.dispatches[id].claim = status]

\* How the adapters assign: a dispatch is queued, and its role claims it at once.
QueueAndClaim(rt, id, request) ==
  LET queued == QueueDispatch(rt, id, request)
  IN  IF queued.dispatches[id].claim = "claimed" THEN queued
      ELSE ClaimDispatch(queued, id, "claimed")

----------------------------------------------------------------------------
(* The provider's life cycle *)

CanStartNext(rt) == rt.pending # <<>>

StartDispatch(rt, id, t) ==
  [rt EXCEPT !.dispatches[id] = [@ EXCEPT !.status = "started", !.task = t,
                                          !.startedAt = rt.clock],
             !.taskMap = Put(@, t, id),
             !.members[rt.dispatches[id].role] = "active",
             !.clock = @ + 1]

PopPending(rt) == [rt EXCEPT !.pending = Tail(@)]

\* Faulty variant: the front of the queue is read and not popped.
StartWithoutPop(rt, t) == StartDispatch(rt, Head(rt.pending), t)

\* Faulty variant: the newest dispatch is taken first.
StartNewestFirst(rt, t) ==
  StartDispatch([rt EXCEPT !.pending = SubSeq(@, 1, Len(@) - 1)], rt.pending[Len(rt.pending)], t)

\* Faulty variant: an indexed task keeps its first dispatch (entry().or_insert).
StartKeepingIndex(rt, t) ==
  [StartDispatch(PopPending(rt), Head(rt.pending), t)
     EXCEPT !.taskMap = IF t \in DOMAIN rt.taskMap THEN rt.taskMap ELSE @]

\* Faulty variant: the dispatch does not record the task that started it.
StartUnbound(rt, t) ==
  [StartDispatch(PopPending(rt), Head(rt.pending), t)
     EXCEPT !.dispatches[Head(rt.pending)].task = None]

\* The front of the queue is started, whichever dispatch the caller has in mind.
StartNextDispatch(rt, t) == StartDispatch(PopPending(rt), Head(rt.pending), t)

\* find_dispatch_mut: Err(UnknownProviderTask) unless this holds
KnowsTask(rt, t) == t \in DOMAIN rt.taskMap

ProgressDispatch(rt, t) ==
  LET id == rt.taskMap[t]
  IN  [rt EXCEPT !.dispatches[id].status = "running",
                 !.members[rt.dispatches[id].role] = "active"]

MemberAfter(status) ==
  CASE status = "completed" -> "idle"
    [] status = "failed"    -> "blocked"
    [] status = "stopped"   -> "waiting"
    [] OTHER                -> "active"

\* A status outside Terminal also makes the method return Err, after these updates.
CompleteDispatch(rt, t, status) ==
  LET id == rt.taskMap[t]
  IN  [rt EXCEPT !.dispatches[id].status = status,
                 !.members[rt.dispatches[id].role] = MemberAfter(status)]

AttachResultText(rt, t) == [rt EXCEPT !.dispatches[rt.taskMap[t]].result = TRUE]

----------------------------------------------------------------------------
(* Saving and restoring.  Only the WorkspaceState is saved.  The queue and the task index are rebuilt from    *)
(* the dispatches in Uuid order; of several dispatches that carry the same *)
(* task id the last inserted, which is the highest Uuid, wins the index.   *)

\* state: what of a runtime is serialized
Snapshot(rt) == [rt EXCEPT !.pending = <<>>, !.taskMap = <<>>]

InUuidOrder(ids) ==
  {q \in [1..Cardinality(ids) -> ids] :
     /\ \A i, j \in DOMAIN q : i < j => q[i] < q[j]
     /\ ids \subseteq Range(q)}

IndexOf(ds) ==
  {m \in [BoundTasks(ds) -> DOMAIN ds] :
     \A t \in DOMAIN m : m[t] \in BoundTo(ds, t) /\ \A e \in BoundTo(ds, t) : e <= m[t]}

\* Faulty variant: what was started and never completed is queued again.
RestoreRequeueing(state) ==
  LET ds == [d \in DOMAIN state.dispatches |->
               IF state.dispatches[d].status \in Terminal THEN state.dispatches[d]
               ELSE [state.dispatches[d] EXCEPT !.status = "queued"]]
  IN  UNION {{[state EXCEPT !.dispatches = ds, !.pending = q, !.taskMap = m] :
                m \in IndexOf(ds)} : q \in InUuidOrder(WithStatus(ds, "queued"))}

\* restore_snapshot: the one runtime that a persisted state is restored to, as a set
RestoreSnapshot(state) ==
  UNION {{[state EXCEPT !.pending = q, !.taskMap = m] : m \in IndexOf(state.dispatches)} :
           q \in InUuidOrder(WithStatus(state.dispatches, "queued"))}

----------------------------------------------------------------------------
(* Member updates made outside the dispatch life cycle *)

\* record_claim_response and record_workflow_vote_response
MemberAnswered(rt, role) == [rt EXCEPT !.members[role] = "waiting"]

\* Every member records an answer, to a claim window or a vote; all roles are candidates.
AllAnswered(rt) == [rt EXCEPT !.members = [m \in Roles |-> "waiting"]]

----------------------------------------------------------------------------
(* Consistency of the two private indexes with the serialized dispatches. *)

\* pending_dispatch_queue holds exactly the queued dispatches, each once.
QueueFaithful(rt) ==
  /\ IsInjective(rt.pending)
  /\ Range(rt.pending) = WithStatus(rt.dispatches, "queued")

\* provider_task_to_dispatch knows exactly the tasks that the provider_task_id fields name,
\* and points each to a dispatch that names it.
IndexFaithful(rt) ==
  /\ DOMAIN rt.taskMap = BoundTasks(rt.dispatches)
  /\ \A t \in DOMAIN rt.taskMap : rt.taskMap[t] \in BoundTo(rt.dispatches, t)

\* Exactly the dispatches that were started carry a task and a start time.
StartedIsBound(rt) ==
  \A d \in DOMAIN rt.dispatches :
    LET D == rt.dispatches[d]
    IN  /\ D.status = "queued" <=> D.task = None
        /\ D.status = "queued" <=> D.startedAt = None

\* What a started dispatch is bound to is settled: its role, node, task and start never
\* change, it is never queued again, and neither it nor its result text disappears.
KeepsBindings(rt, nxt) ==
  \A d \in DOMAIN rt.dispatches :
    LET D == rt.dispatches[d]
        E == nxt.dispatches[d]
    IN  /\ d \in DOMAIN nxt.dispatches
        /\ E.role = D.role /\ E.node = D.node /\ E.createdAt = D.createdAt
        /\ D.task # None =>
             E.task = D.task /\ E.startedAt = D.startedAt /\ E.status # "queued"
        /\ D.result => E.result
============================================================================
