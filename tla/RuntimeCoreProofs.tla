------------------------- MODULE RuntimeCoreProofs -------------------------
(***************************************************************************)
(* What each method of the runtime preserves: the shape of the runtime and *)
(* the agreement of its two private indexes with the serialized state.     *)
(***************************************************************************)
EXTENDS RuntimeCore, FiniteSetTheorems, TLAPS

\* What every runtime an adapter holds satisfies.
GoodRuntime(rt) ==
  /\ IsRuntime(rt)
  /\ QueueFaithful(rt)
  /\ IndexFaithful(rt)
  /\ StartedIsBound(rt)

\* A new runtime has nothing queued and nothing bound.
LEMMA NewRuntimeGood == GoodRuntime(NewRuntime)
BY DEF GoodRuntime, IsRuntime, QueueFaithful, IndexFaithful, StartedIsBound, NewRuntime,
       IsInjective, Range, WithStatus, BoundTo, BoundTasks, MemberStatus

\* What every method preserves.
GoodStep(rt, nxt) == GoodRuntime(nxt) /\ KeepsBindings(rt, nxt)

\* A task that was bound stays bound, since the dispatch it was bound to keeps it.
LEMMA BoundTasksGrow ==
  ASSUME NEW old, NEW nxt, KeepsBindings(old, nxt)
  PROVE  /\ DOMAIN old.dispatches \subseteq DOMAIN nxt.dispatches
         /\ BoundTasks(old.dispatches) \subseteq BoundTasks(nxt.dispatches)
BY DEF KeepsBindings, BoundTasks

\* Methods one after the other, or none, are a good step if each of them is.
LEMMA GoodStepsCompose ==
  ASSUME NEW rt, GoodRuntime(rt)
  PROVE  /\ GoodStep(rt, rt)
         /\ \A mid, nxt : GoodStep(rt, mid) /\ GoodStep(mid, nxt) => GoodStep(rt, nxt)
<1>1. GoodStep(rt, rt)
  BY DEF GoodStep, KeepsBindings, GoodRuntime, StartedIsBound
<1>2. ASSUME NEW mid, NEW nxt, GoodStep(rt, mid), GoodStep(mid, nxt)
      PROVE  GoodStep(rt, nxt)
  BY <1>2 DEF GoodStep, KeepsBindings
<1> QED BY <1>1, <1>2

----------------------------------------------------------------------------
\* queue_dispatch keeps the queue equal to the queued dispatches.
LEMMA QueueDispatchGood ==
  ASSUME NEW rt, GoodRuntime(rt),
         NEW id \in DispatchIds \ DOMAIN rt.dispatches, NEW request \in RoleTaskRequest
  PROVE  GoodStep(rt, QueueDispatch(rt, id, request))
<1> DEFINE new == NewDispatch(request, rt.clock)
           ds  == Put(rt.dispatches, id, new)
           nxt == QueueDispatch(rt, id, request)
<1>1. IsRuntime(rt)
  BY DEF GoodRuntime
<1>2. /\ DOMAIN nxt = DOMAIN rt
      /\ nxt.dispatches = ds
      /\ nxt.members = rt.members
      /\ nxt.pending = Append(rt.pending, id)
      /\ nxt.taskMap = rt.taskMap
      /\ nxt.clock = rt.clock + 1
  BY <1>1 DEF IsRuntime, QueueDispatch
<1>3. /\ new \in TaskDispatch
      /\ new.status = "queued" /\ new.task = None /\ new.startedAt = None
  BY <1>1 DEF IsRuntime, NewDispatch, TaskDispatch, RoleTaskRequest, DispatchStatus, ClaimStatus,
              Maybe
<1> HIDE DEF new
<1>4. /\ DOMAIN ds = DOMAIN rt.dispatches \cup {id}
      /\ \A d \in DOMAIN rt.dispatches : ds[d] = rt.dispatches[d]
      /\ ds[id] = new
      /\ ds \in [DOMAIN ds -> TaskDispatch]
  BY <1>1, <1>3 DEF Put, IsRuntime
<1> HIDE DEF ds, nxt
<1>5. IsRuntime(nxt)
  BY <1>1, <1>2, <1>4 DEF IsRuntime
<1>6. QueueFaithful(nxt)
  <2>1. IsInjective(nxt.pending)
    BY <1>1, <1>2, <1>4 DEF IsRuntime, GoodRuntime, QueueFaithful, IsInjective, Range
  <2>2. Range(nxt.pending) = Range(rt.pending) \cup {id}
    <3>1. rt.pending \in Seq(DOMAIN rt.dispatches)
      BY <1>1 DEF IsRuntime
    <3>2. /\ DOMAIN nxt.pending = DOMAIN rt.pending \cup {Len(rt.pending) + 1}
          /\ \A i \in DOMAIN rt.pending : nxt.pending[i] = rt.pending[i]
          /\ nxt.pending[Len(rt.pending) + 1] = id
      BY <1>2, <3>1
    <3>3. Len(rt.pending) + 1 \notin DOMAIN rt.pending
      BY <3>1
    <3> QED BY <3>2, <3>3 DEF Range
  <2>3. WithStatus(ds, "queued") = WithStatus(rt.dispatches, "queued") \cup {id}
    BY <1>3, <1>4 DEF WithStatus
  <2> QED BY <1>2, <2>1, <2>2, <2>3 DEF QueueFaithful, GoodRuntime
<1>7. IndexFaithful(nxt)
  <2>1. BoundTasks(ds) = BoundTasks(rt.dispatches)
    BY <1>3, <1>4 DEF BoundTasks
  <2>2. \A t : BoundTo(rt.dispatches, t) \subseteq BoundTo(ds, t)
    BY <1>4 DEF BoundTo
  <2> QED BY <1>2, <2>1, <2>2 DEF IndexFaithful, GoodRuntime
<1>8. StartedIsBound(nxt)
  BY <1>2, <1>3, <1>4 DEF StartedIsBound, GoodRuntime
<1>9. KeepsBindings(rt, nxt)
  BY <1>2, <1>4 DEF KeepsBindings, GoodRuntime, StartedIsBound
<1> QED BY <1>5, <1>6, <1>7, <1>8, <1>9 DEF GoodStep, GoodRuntime, nxt

----------------------------------------------------------------------------
\* E is D after a method that neither queues nor starts it.
SameBinding(D, E) ==
  /\ E.role = D.role /\ E.node = D.node /\ E.createdAt = D.createdAt
  /\ E.task = D.task /\ E.startedAt = D.startedAt
  /\ E.status = "queued" <=> D.status = "queued"
  /\ D.result => E.result

\* A method that changes no binding and queues or starts nothing keeps both indexes good.
LEMMA UpdateGood ==
  ASSUME NEW rt, NEW nxt, GoodRuntime(rt),
         DOMAIN nxt = DOMAIN rt,
         DOMAIN nxt.dispatches = DOMAIN rt.dispatches,
         nxt.dispatches \in [DOMAIN rt.dispatches -> TaskDispatch],
         \A d \in DOMAIN rt.dispatches : SameBinding(rt.dispatches[d], nxt.dispatches[d]),
         nxt.members \in [Roles -> MemberStatus],
         nxt.pending = rt.pending, nxt.taskMap = rt.taskMap, nxt.clock = rt.clock
  PROVE  GoodStep(rt, nxt)
<1>1. IsRuntime(nxt)
  BY DEF GoodRuntime, IsRuntime
<1>2. WithStatus(nxt.dispatches, "queued") = WithStatus(rt.dispatches, "queued")
  BY DEF WithStatus, SameBinding
<1>3. /\ BoundTasks(nxt.dispatches) = BoundTasks(rt.dispatches)
      /\ \A t : BoundTo(nxt.dispatches, t) = BoundTo(rt.dispatches, t)
  BY DEF BoundTasks, BoundTo, SameBinding
<1>4. StartedIsBound(nxt)
  BY DEF GoodRuntime, StartedIsBound, SameBinding
<1>5. KeepsBindings(rt, nxt)
  BY DEF GoodRuntime, StartedIsBound, SameBinding, KeepsBindings
<1> QED BY <1>1, <1>2, <1>3, <1>4, <1>5
        DEF GoodStep, GoodRuntime, QueueFaithful, IndexFaithful

\* A dispatch stays one when a method assigns one of its fields.
LEMMA DispatchUpdates ==
  ASSUME NEW D \in TaskDispatch
  PROVE  /\ \A status \in DispatchStatus : [D EXCEPT !.status = status] \in TaskDispatch
         /\ \A status \in ClaimStatus : [D EXCEPT !.claim = status] \in TaskDispatch
         /\ [D EXCEPT !.result = TRUE] \in TaskDispatch
         /\ \A t \in TaskIds, now \in Nat :
              [D EXCEPT !.status = "started", !.task = t, !.startedAt = now] \in TaskDispatch
BY DEF TaskDispatch, DispatchStatus, Maybe

\* claim_dispatch
LEMMA ClaimDispatchGood ==
  ASSUME NEW rt, GoodRuntime(rt), NEW id \in DOMAIN rt.dispatches, NEW status \in ClaimStatus
  PROVE  GoodStep(rt, ClaimDispatch(rt, id, status))
<1> DEFINE nxt == ClaimDispatch(rt, id, status)
<1>1. IsRuntime(rt)
  BY DEF GoodRuntime
<1>2. /\ DOMAIN nxt = DOMAIN rt
      /\ nxt.dispatches = [rt.dispatches EXCEPT ![id] = [rt.dispatches[id] EXCEPT !.claim = status]]
      /\ nxt.members = rt.members
      /\ nxt.pending = rt.pending
      /\ nxt.taskMap = rt.taskMap
      /\ nxt.clock = rt.clock
  BY <1>1 DEF IsRuntime, ClaimDispatch
<1> HIDE DEF nxt
<1>3. nxt.dispatches \in [DOMAIN rt.dispatches -> TaskDispatch]
  <2>1. [rt.dispatches[id] EXCEPT !.claim = status] \in TaskDispatch
    BY <1>1, DispatchUpdates DEF IsRuntime
  <2> QED BY <1>1, <1>2, <2>1 DEF IsRuntime
<1>4. \A d \in DOMAIN rt.dispatches : SameBinding(rt.dispatches[d], nxt.dispatches[d])
  BY <1>1, <1>2 DEF IsRuntime, TaskDispatch, SameBinding
<1>5. nxt.members \in [Roles -> MemberStatus]
  BY <1>1, <1>2 DEF IsRuntime
<1> QED BY <1>2, <1>3, <1>4, <1>5, UpdateGood DEF nxt

\* A known task is bound to a dispatch that was started, so it is not a queued one.
LEMMA KnownTaskStarted ==
  ASSUME NEW rt, GoodRuntime(rt), NEW t, KnowsTask(rt, t)
  PROVE  /\ t \in TaskIds
         /\ rt.taskMap[t] \in DOMAIN rt.dispatches
         /\ rt.dispatches[rt.taskMap[t]].task = t
         /\ rt.dispatches[rt.taskMap[t]].status # "queued"
BY NoneAssumption
DEF GoodRuntime, IsRuntime, KnowsTask, IndexFaithful, StartedIsBound, BoundTo

\* progress_dispatch
LEMMA ProgressDispatchGood ==
  ASSUME NEW rt, GoodRuntime(rt), NEW t, KnowsTask(rt, t)
  PROVE  GoodStep(rt, ProgressDispatch(rt, t))
<1> DEFINE nxt == ProgressDispatch(rt, t)
           id  == rt.taskMap[t]
<1>1. IsRuntime(rt) /\ id \in DOMAIN rt.dispatches /\ rt.dispatches[id].status # "queued"
  BY KnownTaskStarted DEF GoodRuntime
<1> HIDE DEF id
<1>2. /\ DOMAIN nxt = DOMAIN rt
      /\ nxt.dispatches = [rt.dispatches EXCEPT ![id] = [rt.dispatches[id] EXCEPT !.status = "running"]]
      /\ nxt.members = [rt.members EXCEPT ![rt.dispatches[id].role] = "active"]
      /\ nxt.pending = rt.pending
      /\ nxt.taskMap = rt.taskMap
      /\ nxt.clock = rt.clock
  BY <1>1 DEF IsRuntime, ProgressDispatch, id
<1> HIDE DEF nxt
<1>3. nxt.dispatches \in [DOMAIN rt.dispatches -> TaskDispatch]
  <2>1. [rt.dispatches[id] EXCEPT !.status = "running"] \in TaskDispatch
    BY <1>1, DispatchUpdates DEF IsRuntime, DispatchStatus
  <2> QED BY <1>1, <1>2, <2>1 DEF IsRuntime
<1>4. \A d \in DOMAIN rt.dispatches : SameBinding(rt.dispatches[d], nxt.dispatches[d])
  BY <1>1, <1>2 DEF IsRuntime, TaskDispatch, SameBinding
<1>5. nxt.members \in [Roles -> MemberStatus]
  BY <1>1, <1>2 DEF IsRuntime, TaskDispatch, MemberStatus
<1> QED BY <1>2, <1>3, <1>4, <1>5, UpdateGood DEF nxt

\* complete_dispatch
LEMMA CompleteDispatchGood ==
  ASSUME NEW rt, GoodRuntime(rt), NEW t, KnowsTask(rt, t),
         NEW status \in DispatchStatus \ {"queued"}
  PROVE  GoodStep(rt, CompleteDispatch(rt, t, status))
<1> DEFINE nxt == CompleteDispatch(rt, t, status)
           id  == rt.taskMap[t]
<1>1. IsRuntime(rt) /\ id \in DOMAIN rt.dispatches /\ rt.dispatches[id].status # "queued"
  BY KnownTaskStarted DEF GoodRuntime
<1> HIDE DEF id
<1>2. /\ DOMAIN nxt = DOMAIN rt
      /\ nxt.dispatches = [rt.dispatches EXCEPT ![id] = [rt.dispatches[id] EXCEPT !.status = status]]
      /\ nxt.members = [rt.members EXCEPT ![rt.dispatches[id].role] = MemberAfter(status)]
      /\ nxt.pending = rt.pending
      /\ nxt.taskMap = rt.taskMap
      /\ nxt.clock = rt.clock
  BY <1>1 DEF IsRuntime, CompleteDispatch, id
<1> HIDE DEF nxt
<1>3. nxt.dispatches \in [DOMAIN rt.dispatches -> TaskDispatch]
  <2>1. [rt.dispatches[id] EXCEPT !.status = status] \in TaskDispatch
    BY <1>1, DispatchUpdates DEF IsRuntime
  <2> QED BY <1>1, <1>2, <2>1 DEF IsRuntime
<1>4. \A d \in DOMAIN rt.dispatches : SameBinding(rt.dispatches[d], nxt.dispatches[d])
  BY <1>1, <1>2 DEF IsRuntime, TaskDispatch, SameBinding
<1>5. MemberAfter(status) \in MemberStatus
  BY DEF MemberAfter, MemberStatus, DispatchStatus, Terminal
<1>6. nxt.members \in [Roles -> MemberStatus]
  BY <1>1, <1>2, <1>5 DEF IsRuntime
<1> QED BY <1>2, <1>3, <1>4, <1>6, UpdateGood DEF nxt

\* attach_result_text
LEMMA AttachResultTextGood ==
  ASSUME NEW rt, GoodRuntime(rt), NEW t, KnowsTask(rt, t)
  PROVE  GoodStep(rt, AttachResultText(rt, t))
<1> DEFINE nxt == AttachResultText(rt, t)
           id  == rt.taskMap[t]
<1>1. IsRuntime(rt) /\ id \in DOMAIN rt.dispatches
  BY KnownTaskStarted DEF GoodRuntime
<1> HIDE DEF id
<1>2. /\ DOMAIN nxt = DOMAIN rt
      /\ nxt.dispatches = [rt.dispatches EXCEPT ![id] = [rt.dispatches[id] EXCEPT !.result = TRUE]]
      /\ nxt.members = rt.members
      /\ nxt.pending = rt.pending
      /\ nxt.taskMap = rt.taskMap
      /\ nxt.clock = rt.clock
  BY <1>1 DEF IsRuntime, AttachResultText, id
<1> HIDE DEF nxt
<1>3. nxt.dispatches \in [DOMAIN rt.dispatches -> TaskDispatch]
  <2>1. [rt.dispatches[id] EXCEPT !.result = TRUE] \in TaskDispatch
    BY <1>1, DispatchUpdates DEF IsRuntime
  <2> QED BY <1>1, <1>2, <2>1 DEF IsRuntime
<1>4. \A d \in DOMAIN rt.dispatches : SameBinding(rt.dispatches[d], nxt.dispatches[d])
  BY <1>1, <1>2 DEF IsRuntime, TaskDispatch, SameBinding
<1>5. nxt.members \in [Roles -> MemberStatus]
  BY <1>1, <1>2 DEF IsRuntime
<1> QED BY <1>2, <1>3, <1>4, <1>5, UpdateGood DEF nxt

\* record_claim_response and record_workflow_vote_response
LEMMA MemberAnsweredGood ==
  ASSUME NEW rt, GoodRuntime(rt), NEW role \in Roles
  PROVE  GoodStep(rt, MemberAnswered(rt, role))
<1> DEFINE nxt == MemberAnswered(rt, role)
<1>1. IsRuntime(rt)
  BY DEF GoodRuntime
<1>2. /\ DOMAIN nxt = DOMAIN rt
      /\ nxt.dispatches = rt.dispatches
      /\ nxt.members = [rt.members EXCEPT ![role] = "waiting"]
      /\ nxt.pending = rt.pending
      /\ nxt.taskMap = rt.taskMap
      /\ nxt.clock = rt.clock
  BY <1>1 DEF IsRuntime, MemberAnswered
<1> HIDE DEF nxt
<1>3. nxt.members \in [Roles -> MemberStatus]
  BY <1>1, <1>2 DEF IsRuntime, MemberStatus
<1> QED BY <1>1, <1>2, <1>3, UpdateGood DEF nxt, IsRuntime, SameBinding

----------------------------------------------------------------------------
\* The queue never holds a dispatch that does not exist or was started.
LEMMA FrontIsQueued ==
  ASSUME NEW rt, GoodRuntime(rt), CanStartNext(rt)
  PROVE  /\ Head(rt.pending) \in DOMAIN rt.dispatches
         /\ rt.dispatches[Head(rt.pending)].status = "queued"
         /\ rt.dispatches[Head(rt.pending)].task = None
<1>1. Head(rt.pending) \in Range(rt.pending)
  BY DEF GoodRuntime, IsRuntime, CanStartNext, Range
<1> QED BY <1>1 DEF GoodRuntime, QueueFaithful, WithStatus, StartedIsBound

\* Popping the front removes it and nothing else.
LEMMA PopFront ==
  ASSUME NEW S, NEW q \in Seq(S), q # <<>>, IsInjective(q)
  PROVE  /\ Tail(q) \in Seq(S)
         /\ IsInjective(Tail(q))
         /\ Range(Tail(q)) = Range(q) \ {Head(q)}
<1>1. /\ Tail(q) \in Seq(S)
      /\ Len(Tail(q)) = Len(q) - 1
      /\ DOMAIN Tail(q) = 1..(Len(q) - 1)
      /\ \A i \in 1..(Len(q) - 1) : Tail(q)[i] = q[i + 1]
      /\ DOMAIN q = 1..Len(q) /\ Len(q) \in Nat \ {0}
      /\ Head(q) = q[1]
  OBVIOUS
<1>2. IsInjective(Tail(q))
  BY <1>1 DEF IsInjective
<1>3. \A i \in 2..Len(q) : i - 1 \in DOMAIN Tail(q) /\ Tail(q)[i - 1] = q[i]
  BY <1>1
<1>4. ASSUME NEW e \in Range(Tail(q)) PROVE e \in Range(q) \ {Head(q)}
  BY <1>1 DEF Range, IsInjective
<1>5. ASSUME NEW e \in Range(q) \ {Head(q)} PROVE e \in Range(Tail(q))
  <2>1. PICK i \in 1..Len(q) : q[i] = e
    BY <1>1 DEF Range
  <2>2. i \in 2..Len(q)
    BY <1>1, <2>1
  <2> QED BY <1>3, <2>1, <2>2 DEF Range
<1> QED BY <1>1, <1>2, <1>4, <1>5

\* start_next_dispatch binds the front of the queue to t and changes no other dispatch.
LEMMA StartNextDispatchStep ==
  ASSUME NEW rt, GoodRuntime(rt), CanStartNext(rt), NEW t \in TaskIds,
         NEW id, id = Head(rt.pending), NEW nxt, nxt = StartNextDispatch(rt, t),
         NEW new, new = [rt.dispatches[id] EXCEPT !.status = "started", !.task = t,
                                                  !.startedAt = rt.clock]
  PROVE  /\ DOMAIN nxt = DOMAIN rt
         /\ nxt.dispatches = [rt.dispatches EXCEPT ![id] = new]
         /\ nxt.members = [rt.members EXCEPT ![rt.dispatches[id].role] = "active"]
         /\ nxt.pending = Tail(rt.pending)
         /\ nxt.taskMap = Put(rt.taskMap, t, id)
         /\ nxt.clock = rt.clock + 1
<1> DEFINE mid == PopPending(rt)
<1>1. IsRuntime(rt) /\ id \in DOMAIN rt.dispatches
  BY FrontIsQueued DEF GoodRuntime
<1>2. /\ DOMAIN mid = DOMAIN rt
      /\ mid.dispatches = rt.dispatches
      /\ mid.members = rt.members
      /\ mid.pending = Tail(rt.pending)
      /\ mid.taskMap = rt.taskMap
      /\ mid.clock = rt.clock
  BY <1>1 DEF IsRuntime, PopPending
<1>3. nxt = StartDispatch(mid, id, t)
  BY DEF StartNextDispatch
<1> HIDE DEF mid
<1> QED BY <1>1, <1>2, <1>3 DEF IsRuntime, StartDispatch

\* start_next_dispatch keeps both indexes faithful.
LEMMA StartNextDispatchGood ==
  ASSUME NEW rt, GoodRuntime(rt), CanStartNext(rt), NEW t \in TaskIds
  PROVE  GoodStep(rt, StartNextDispatch(rt, t))
<1> DEFINE id  == Head(rt.pending)
           nxt == StartNextDispatch(rt, t)
           new == [rt.dispatches[id] EXCEPT !.status = "started", !.task = t,
                                            !.startedAt = rt.clock]
<1>1. /\ IsRuntime(rt)
      /\ id \in DOMAIN rt.dispatches
      /\ rt.dispatches[id].status = "queued"
      /\ rt.dispatches[id].task = None
  BY FrontIsQueued DEF GoodRuntime
<1>2. /\ DOMAIN nxt = DOMAIN rt
      /\ nxt.dispatches = [rt.dispatches EXCEPT ![id] = new]
      /\ nxt.members = [rt.members EXCEPT ![rt.dispatches[id].role] = "active"]
      /\ nxt.pending = Tail(rt.pending)
      /\ nxt.taskMap = Put(rt.taskMap, t, id)
      /\ nxt.clock = rt.clock + 1
  BY StartNextDispatchStep
<1>3. /\ Tail(rt.pending) \in Seq(DOMAIN rt.dispatches)
      /\ IsInjective(Tail(rt.pending))
      /\ Range(Tail(rt.pending)) = Range(rt.pending) \ {id}
  BY <1>1, PopFront DEF GoodRuntime, IsRuntime, QueueFaithful, CanStartNext
<1>4. /\ new \in TaskDispatch
      /\ new.status = "started" /\ new.task = t /\ new.startedAt = rt.clock
      /\ new.role = rt.dispatches[id].role /\ new.node = rt.dispatches[id].node
      /\ new.createdAt = rt.dispatches[id].createdAt /\ new.result = rt.dispatches[id].result
      /\ t # None /\ rt.clock # None
  <2>1. new \in TaskDispatch
    BY <1>1, DispatchUpdates DEF IsRuntime
  <2>2. rt.dispatches[id] \in TaskDispatch
    BY <1>1 DEF IsRuntime
  <2> QED BY <1>1, <2>1, <2>2, NoneAssumption DEF IsRuntime, TaskDispatch
<1> HIDE DEF id, nxt, new
<1>5. /\ DOMAIN nxt.dispatches = DOMAIN rt.dispatches
      /\ nxt.dispatches \in [DOMAIN rt.dispatches -> TaskDispatch]
      /\ nxt.dispatches[id] = new
      /\ \A d \in DOMAIN rt.dispatches \ {id} : nxt.dispatches[d] = rt.dispatches[d]
  BY <1>1, <1>2, <1>4 DEF IsRuntime
<1>6. /\ DOMAIN nxt.taskMap = DOMAIN rt.taskMap \cup {t}
      /\ nxt.taskMap[t] = id
      /\ \A u \in DOMAIN rt.taskMap \ {t} : nxt.taskMap[u] = rt.taskMap[u]
      /\ nxt.taskMap \in [DOMAIN nxt.taskMap -> DOMAIN rt.dispatches]
  BY <1>1, <1>2 DEF IsRuntime, Put
<1>7. IsRuntime(nxt)
  <2>1. nxt.members \in [Roles -> MemberStatus]
    BY <1>1, <1>2 DEF IsRuntime, TaskDispatch, MemberStatus
  <2> QED BY <1>1, <1>2, <1>3, <1>5, <1>6, <2>1 DEF IsRuntime
<1>8. QueueFaithful(nxt)
  <2>1. WithStatus(nxt.dispatches, "queued") = WithStatus(rt.dispatches, "queued") \ {id}
    BY <1>4, <1>5 DEF WithStatus
  <2> QED BY <1>2, <1>3, <2>1 DEF QueueFaithful, GoodRuntime
<1>9. IndexFaithful(nxt)
  <2>1. BoundTasks(nxt.dispatches) = BoundTasks(rt.dispatches) \cup {t}
    BY <1>1, <1>4, <1>5 DEF BoundTasks
  <2>2. ASSUME NEW u \in DOMAIN nxt.taskMap
        PROVE  nxt.taskMap[u] \in BoundTo(nxt.dispatches, u)
    <3>1. CASE u = t
      BY <1>1, <1>4, <1>5, <1>6, <3>1 DEF BoundTo
    <3>2. CASE u # t
      <4>1. u \in DOMAIN rt.taskMap /\ rt.taskMap[u] \in BoundTo(rt.dispatches, u)
        BY <1>6, <3>2 DEF GoodRuntime, IndexFaithful
      <4>2. u # None
        BY <1>1, <4>1, NoneAssumption DEF IsRuntime
      <4> QED BY <1>1, <1>5, <1>6, <3>2, <4>1, <4>2 DEF BoundTo
    <3> QED BY <3>1, <3>2
  <2> QED BY <1>6, <2>1, <2>2 DEF IndexFaithful, GoodRuntime
<1>10. StartedIsBound(nxt)
  BY <1>4, <1>5 DEF StartedIsBound, GoodRuntime
<1>11. KeepsBindings(rt, nxt)
  BY <1>1, <1>4, <1>5 DEF KeepsBindings, GoodRuntime, StartedIsBound
<1> QED BY <1>7, <1>8, <1>9, <1>10, <1>11 DEF GoodStep, GoodRuntime, nxt

\* A restored runtime is the saved one with a queue and an index.
LEMMA RestoreEffect ==
  ASSUME NEW state, NEW nxt \in RestoreSnapshot(state),
         DOMAIN state = {"dispatches", "members", "pending", "taskMap", "clock"}
  PROVE  \E q \in InUuidOrder(WithStatus(state.dispatches, "queued")) :
         \E m \in IndexOf(state.dispatches) :
           /\ DOMAIN nxt = DOMAIN state
           /\ nxt.dispatches = state.dispatches
           /\ nxt.members = state.members
           /\ nxt.pending = q
           /\ nxt.taskMap = m
           /\ nxt.clock = state.clock
<1>1. PICK q \in InUuidOrder(WithStatus(state.dispatches, "queued")),
           m \in IndexOf(state.dispatches) :
        nxt = [state EXCEPT !.pending = q, !.taskMap = m]
  BY DEF RestoreSnapshot
<1>2. /\ DOMAIN nxt = DOMAIN state
      /\ nxt.dispatches = state.dispatches
      /\ nxt.members = state.members
      /\ nxt.pending = q
      /\ nxt.taskMap = m
      /\ nxt.clock = state.clock
  BY <1>1
<1> QED BY <1>2

\* restore_snapshot rebuilds both indexes of a runtime that was saved without them.
LEMMA RestoreSavedGood ==
  ASSUME NEW old, GoodRuntime(old), NEW state, DOMAIN state = DOMAIN old,
         state.dispatches = old.dispatches, state.members = old.members,
         state.clock = old.clock, NEW nxt \in RestoreSnapshot(state)
  PROVE  /\ GoodStep(old, nxt)
         /\ nxt.dispatches = old.dispatches
<1> DEFINE ds  == state.dispatches
           ids == WithStatus(ds, "queued")
<1>1. /\ DOMAIN state = {"dispatches", "members", "pending", "taskMap", "clock"}
      /\ DOMAIN ds \subseteq DispatchIds
      /\ ds \in [DOMAIN ds -> TaskDispatch]
      /\ state.members \in [Roles -> MemberStatus]
      /\ state.clock \in Nat
  BY DEF GoodRuntime, IsRuntime
<1>2. PICK q \in InUuidOrder(ids) :
        \E m \in IndexOf(ds) :
          /\ DOMAIN nxt = DOMAIN state /\ nxt.dispatches = ds
          /\ nxt.members = state.members /\ nxt.clock = state.clock
          /\ nxt.pending = q /\ nxt.taskMap = m
  BY <1>1, RestoreEffect
<1>3. PICK m \in IndexOf(ds) :
        /\ DOMAIN nxt = DOMAIN state /\ nxt.dispatches = ds
        /\ nxt.members = state.members /\ nxt.clock = state.clock
        /\ nxt.pending = q /\ nxt.taskMap = m
  BY <1>2
<1>4. IsFiniteSet(ids) /\ ids \subseteq DOMAIN ds /\ ids \subseteq Nat
  BY <1>1, FS_Subset, DispatchIdsAssumption DEF WithStatus
<1>5. Cardinality(ids) \in Nat
  BY <1>4, FS_CardinalityType
<1> DEFINE n == Cardinality(ids)
<1>6. /\ q \in [1..n -> ids]
      /\ \A i, j \in 1..n : i < j => q[i] < q[j]
      /\ ids \subseteq Range(q)
  BY <1>2 DEF InUuidOrder
<1> HIDE DEF n, ids
<1>7. q \in Seq(DOMAIN ds)
  BY <1>4, <1>5, <1>6 DEF n
<1>8. IsInjective(q)
  <2>1. \A i, j \in 1..n : i # j => i < j \/ j < i
    BY <1>5 DEF n
  <2>2. \A i \in 1..n : q[i] \in Nat
    BY <1>4, <1>6
  <2> QED BY <1>6, <2>1, <2>2 DEF IsInjective
<1>9. Range(q) = ids
  BY <1>6 DEF Range
<1>10. /\ m \in [BoundTasks(ds) -> DOMAIN ds]
       /\ \A t \in DOMAIN m : m[t] \in BoundTo(ds, t)
  BY <1>3 DEF IndexOf
<1>11. BoundTasks(ds) \subseteq TaskIds
  BY <1>1 DEF BoundTasks, TaskDispatch, Maybe
<1>12. IsRuntime(nxt)
  BY <1>1, <1>3, <1>7, <1>10, <1>11 DEF IsRuntime
<1>13. QueueFaithful(nxt)
  BY <1>3, <1>8, <1>9 DEF QueueFaithful, ids
<1>14. IndexFaithful(nxt)
  BY <1>3, <1>10 DEF IndexFaithful
<1>15. StartedIsBound(nxt)
  BY <1>3 DEF GoodRuntime, StartedIsBound
<1>16. KeepsBindings(old, nxt)
  BY <1>3 DEF GoodRuntime, StartedIsBound, KeepsBindings
<1> QED BY <1>3, <1>12, <1>13, <1>14, <1>15, <1>16 DEF GoodStep, GoodRuntime

\* The same of a runtime that is restored from itself.
LEMMA RestoreSnapshotGood ==
  ASSUME NEW state, GoodRuntime(state), NEW nxt \in RestoreSnapshot(state)
  PROVE  /\ GoodStep(state, nxt)
         /\ nxt.dispatches = state.dispatches
BY RestoreSavedGood

----------------------------------------------------------------------------
(* What each method does to the dispatches, for proofs about callers. *)

\* queue_dispatch adds one queued dispatch.
LEMMA QueueDispatchEffect ==
  ASSUME NEW rt, IsRuntime(rt), NEW id \in DispatchIds, NEW request \in RoleTaskRequest
  PROVE  LET ds == QueueDispatch(rt, id, request).dispatches
         IN  /\ DOMAIN ds = DOMAIN rt.dispatches \cup {id}
             /\ ds[id].status = "queued" /\ ds[id].task = None /\ ds[id].node = request.node
             /\ ds[id].createdAt = rt.clock
             /\ \A d \in DOMAIN rt.dispatches \ {id} : ds[d] = rt.dispatches[d]
<1> DEFINE new == NewDispatch(request, rt.clock)
           ds  == QueueDispatch(rt, id, request).dispatches
<1>1. ds = Put(rt.dispatches, id, new)
  BY DEF IsRuntime, QueueDispatch
<1>2. /\ new.status = "queued" /\ new.task = None /\ new.node = request.node
      /\ new.createdAt = rt.clock
  BY DEF NewDispatch
<1> HIDE DEF new, ds
<1>3. /\ DOMAIN ds = DOMAIN rt.dispatches \cup {id}
      /\ ds[id].status = "queued" /\ ds[id].task = None /\ ds[id].node = request.node
      /\ ds[id].createdAt = rt.clock
      /\ \A d \in DOMAIN rt.dispatches \ {id} : ds[d] = rt.dispatches[d]
  BY <1>1, <1>2 DEF Put
<1> QED BY <1>3 DEF ds

\* start_next_dispatch starts the front of the queue and no other dispatch.
LEMMA StartNextDispatchEffect ==
  ASSUME NEW rt, GoodRuntime(rt), CanStartNext(rt), NEW t \in TaskIds
  PROVE  LET id == Head(rt.pending)
             ds == StartNextDispatch(rt, t).dispatches
         IN  /\ id \in DOMAIN rt.dispatches /\ rt.dispatches[id].status = "queued"
             /\ DOMAIN ds = DOMAIN rt.dispatches
             /\ ds[id].status = "started" /\ ds[id].task = t /\ ds[id].startedAt = rt.clock
             /\ \A d \in DOMAIN rt.dispatches \ {id} : ds[d] = rt.dispatches[d]
<1> DEFINE id  == Head(rt.pending)
           nxt == StartNextDispatch(rt, t)
           new == [rt.dispatches[id] EXCEPT !.status = "started", !.task = t,
                                            !.startedAt = rt.clock]
<1>1. /\ IsRuntime(rt) /\ id \in DOMAIN rt.dispatches
      /\ rt.dispatches[id].status = "queued" /\ rt.dispatches[id] \in TaskDispatch
  BY FrontIsQueued DEF GoodRuntime, IsRuntime
<1>2. /\ DOMAIN nxt = DOMAIN rt
      /\ nxt.dispatches = [rt.dispatches EXCEPT ![id] = new]
      /\ nxt.members = [rt.members EXCEPT ![rt.dispatches[id].role] = "active"]
      /\ nxt.pending = Tail(rt.pending)
      /\ nxt.taskMap = Put(rt.taskMap, t, id)
      /\ nxt.clock = rt.clock + 1
  BY StartNextDispatchStep
<1>3. new.status = "started" /\ new.task = t /\ new.startedAt = rt.clock
  BY <1>1 DEF TaskDispatch
<1> HIDE DEF new, nxt, id
<1>4. /\ DOMAIN nxt.dispatches = DOMAIN rt.dispatches
      /\ nxt.dispatches[id].status = "started" /\ nxt.dispatches[id].task = t
      /\ nxt.dispatches[id].startedAt = rt.clock
      /\ \A d \in DOMAIN rt.dispatches \ {id} : nxt.dispatches[d] = rt.dispatches[d]
  BY <1>1, <1>2, <1>3 DEF IsRuntime
<1> QED BY <1>1, <1>4 DEF nxt, id

\* progress_dispatch and complete_dispatch assign the status of the task's dispatch only.
LEMMA ReportEffect ==
  ASSUME NEW rt, GoodRuntime(rt), NEW t, KnowsTask(rt, t), NEW status,
         NEW id, id = rt.taskMap[t], NEW ds,
         \/ ds = ProgressDispatch(rt, t).dispatches /\ status = "running"
         \/ ds = CompleteDispatch(rt, t, status).dispatches
  PROVE  /\ id \in DOMAIN rt.dispatches /\ rt.dispatches[id].task = t
         /\ DOMAIN ds = DOMAIN rt.dispatches
         /\ ds[id].status = status /\ ds[id].task = t
         /\ \A d \in DOMAIN rt.dispatches \ {id} : ds[d] = rt.dispatches[d]
<1> DEFINE new == [rt.dispatches[id] EXCEPT !.status = status]
<1>1. /\ IsRuntime(rt) /\ id \in DOMAIN rt.dispatches
      /\ rt.dispatches[id].task = t /\ rt.dispatches[id] \in TaskDispatch
  BY KnownTaskStarted DEF GoodRuntime, IsRuntime
<1>2. ds = [rt.dispatches EXCEPT ![id] = new]
  <2>1. CASE ds = ProgressDispatch(rt, t).dispatches /\ status = "running"
    BY <1>1, <2>1 DEF IsRuntime, ProgressDispatch
  <2>2. CASE ds = CompleteDispatch(rt, t, status).dispatches
    BY <1>1, <2>2 DEF IsRuntime, CompleteDispatch
  <2> QED BY <2>1, <2>2
<1>3. new.status = status /\ new.task = t
  BY <1>1 DEF TaskDispatch
<1> HIDE DEF new
<1> QED BY <1>1, <1>2, <1>3 DEF IsRuntime

\* claim_dispatch, attach_result_text and the answers move no dispatch in its life cycle.
LEMMA OtherEffect ==
  ASSUME NEW rt, GoodRuntime(rt), NEW ds,
         \/ \E id \in DOMAIN rt.dispatches :
              \E status : ds = ClaimDispatch(rt, id, status).dispatches
         \/ \E t : KnowsTask(rt, t) /\ ds = AttachResultText(rt, t).dispatches
         \/ \E role : ds = MemberAnswered(rt, role).dispatches
  PROVE  /\ DOMAIN ds = DOMAIN rt.dispatches
         /\ \A d \in DOMAIN rt.dispatches :
              ds[d].status = rt.dispatches[d].status /\ ds[d].task = rt.dispatches[d].task
<1>1. IsRuntime(rt)
  BY DEF GoodRuntime
<1>2. ASSUME NEW id \in DOMAIN rt.dispatches, NEW status,
             ds = ClaimDispatch(rt, id, status).dispatches
      PROVE  ds = [rt.dispatches EXCEPT ![id] = [rt.dispatches[id] EXCEPT !.claim = status]]
  BY <1>1, <1>2 DEF IsRuntime, ClaimDispatch
<1>3. ASSUME NEW t, KnowsTask(rt, t), ds = AttachResultText(rt, t).dispatches
      PROVE  \E id \in DOMAIN rt.dispatches :
               ds = [rt.dispatches EXCEPT ![id] = [rt.dispatches[id] EXCEPT !.result = TRUE]]
  BY <1>1, <1>3, KnownTaskStarted DEF IsRuntime, AttachResultText
<1>4. ASSUME NEW role, ds = MemberAnswered(rt, role).dispatches
      PROVE  ds = rt.dispatches
  BY <1>1, <1>4 DEF IsRuntime, MemberAnswered
<1>5. \A id \in DOMAIN rt.dispatches : \A status :
        LET D == rt.dispatches[id]
        IN  /\ [D EXCEPT !.claim = status].status = D.status
            /\ [D EXCEPT !.claim = status].task = D.task
            /\ [D EXCEPT !.result = TRUE].status = D.status
            /\ [D EXCEPT !.result = TRUE].task = D.task
  BY <1>1 DEF IsRuntime, TaskDispatch
<1>6. CASE ds = rt.dispatches
  BY <1>6
<1>7. ASSUME NEW id \in DOMAIN rt.dispatches, NEW E, ds = [rt.dispatches EXCEPT ![id] = E],
             E.status = rt.dispatches[id].status, E.task = rt.dispatches[id].task
      PROVE  /\ DOMAIN ds = DOMAIN rt.dispatches
             /\ \A d \in DOMAIN rt.dispatches :
                  ds[d].status = rt.dispatches[d].status /\ ds[d].task = rt.dispatches[d].task
  BY <1>1, <1>7 DEF IsRuntime
<1>8. CASE \E id \in DOMAIN rt.dispatches :
             \E status : ds = ClaimDispatch(rt, id, status).dispatches
  <2>0. PICK id \in DOMAIN rt.dispatches :
          \E status : ds = ClaimDispatch(rt, id, status).dispatches
    BY <1>8
  <2>1. PICK status : ds = ClaimDispatch(rt, id, status).dispatches
    BY <2>0
  <2> DEFINE E == [rt.dispatches[id] EXCEPT !.claim = status]
  <2>2. ds = [rt.dispatches EXCEPT ![id] = E]
    BY <1>2, <2>1
  <2>3. E.status = rt.dispatches[id].status /\ E.task = rt.dispatches[id].task
    BY <1>5
  <2> HIDE DEF E
  <2> QED BY <1>7, <2>2, <2>3
<1>9. CASE \E t : KnowsTask(rt, t) /\ ds = AttachResultText(rt, t).dispatches
  <2>1. PICK id \in DOMAIN rt.dispatches :
          ds = [rt.dispatches EXCEPT ![id] = [rt.dispatches[id] EXCEPT !.result = TRUE]]
    BY <1>3, <1>9
  <2> DEFINE E == [rt.dispatches[id] EXCEPT !.result = TRUE]
  <2>2. E.status = rt.dispatches[id].status /\ E.task = rt.dispatches[id].task
    BY <1>5
  <2> HIDE DEF E
  <2> QED BY <1>7, <2>1, <2>2 DEF E
<1> QED BY <1>4, <1>6, <1>8, <1>9

----------------------------------------------------------------------------
(* What the adapters make of several methods *)

\* The dispatches that are completed
Completed(r) == WithStatus(r.dispatches, "completed")

\* Queueing a dispatch and claiming it is a good step that completes and starts nothing.
LEMMA QueueAndClaimGood ==
  ASSUME NEW r, GoodRuntime(r), NEW id \in DispatchIds \ DOMAIN r.dispatches,
         NEW request \in RoleTaskRequest, NEW nxt, nxt = QueueAndClaim(r, id, request)
  PROVE  /\ GoodStep(r, nxt)
         /\ Completed(r) \subseteq Completed(nxt)
         /\ DOMAIN nxt.dispatches = DOMAIN r.dispatches \cup {id}
         /\ nxt.dispatches[id].status = "queued" /\ nxt.dispatches[id].task = None
         /\ nxt.dispatches[id].node = request.node
         /\ nxt.pending = Append(r.pending, id)
         /\ \A d \in DOMAIN r.dispatches :
              /\ nxt.dispatches[d].status = r.dispatches[d].status
              /\ nxt.dispatches[d].task = r.dispatches[d].task
<1> DEFINE queued == QueueDispatch(r, id, request)
<1>1. GoodStep(r, queued)
  BY QueueDispatchGood
<1>2. /\ DOMAIN queued.dispatches = DOMAIN r.dispatches \cup {id}
      /\ queued.dispatches[id].status = "queued" /\ queued.dispatches[id].task = None
      /\ queued.dispatches[id].node = request.node
      /\ \A d \in DOMAIN r.dispatches \ {id} : queued.dispatches[d] = r.dispatches[d]
      /\ queued.pending = Append(r.pending, id)
  <2>1. IsRuntime(r)
    BY DEF GoodRuntime
  <2>2. queued.pending = Append(r.pending, id)
    BY <2>1 DEF IsRuntime, QueueDispatch
  <2> QED BY <2>1, <2>2, QueueDispatchEffect
<1> HIDE DEF queued
<1>3. Completed(r) \subseteq Completed(queued)
  BY <1>2 DEF Completed, WithStatus
<1>4. CASE nxt = queued
  BY <1>1, <1>2, <1>3, <1>4
<1>5. CASE nxt = ClaimDispatch(queued, id, "claimed")
  <2>1. GoodRuntime(queued) /\ id \in DOMAIN queued.dispatches
    BY <1>1, <1>2 DEF GoodStep
  <2>2. GoodStep(queued, nxt)
    BY <1>5, <2>1, ClaimDispatchGood DEF ClaimStatus
  <2>3. /\ DOMAIN nxt.dispatches = DOMAIN queued.dispatches
        /\ \A d \in DOMAIN queued.dispatches :
             /\ nxt.dispatches[d].status = queued.dispatches[d].status
             /\ nxt.dispatches[d].task = queued.dispatches[d].task
    BY <1>5, <2>1, OtherEffect
  <2>4. nxt.pending = queued.pending
    BY <1>5, <2>1 DEF ClaimDispatch, GoodRuntime, IsRuntime
  <2>5. Completed(queued) \subseteq Completed(nxt)
    BY <2>3 DEF Completed, WithStatus
  <2>6. nxt.dispatches[id].node = queued.dispatches[id].node
    BY <2>1, <2>2 DEF GoodStep, KeepsBindings
  <2>7. GoodStep(r, nxt)
    BY <1>1, <2>2, GoodStepsCompose
  <2> QED BY <1>2, <1>3, <2>1, <2>3, <2>4, <2>5, <2>6, <2>7
<1> QED BY <1>4, <1>5 DEF QueueAndClaim, queued

\* That all members answer changes no dispatch.
LEMMA AllAnsweredGood ==
  ASSUME NEW r, GoodRuntime(r)
  PROVE  /\ GoodStep(r, AllAnswered(r))
         /\ AllAnswered(r).dispatches = r.dispatches
<1> DEFINE nxt == AllAnswered(r)
<1>1. /\ DOMAIN nxt = DOMAIN r
      /\ nxt.dispatches = r.dispatches
      /\ nxt.members = [m \in Roles |-> "waiting"]
      /\ nxt.pending = r.pending /\ nxt.taskMap = r.taskMap /\ nxt.clock = r.clock
  BY DEF AllAnswered, GoodRuntime, IsRuntime
<1> HIDE DEF nxt
<1>2. nxt.members \in [Roles -> MemberStatus]
  BY <1>1 DEF MemberStatus
<1>3. \A d \in DOMAIN r.dispatches : SameBinding(r.dispatches[d], nxt.dispatches[d])
  BY <1>1 DEF SameBinding
<1>4. nxt.dispatches \in [DOMAIN r.dispatches -> TaskDispatch]
  BY <1>1 DEF GoodRuntime, IsRuntime
<1>5. GoodStep(r, nxt)
  BY <1>1, <1>2, <1>3, <1>4, UpdateGood
<1> QED BY <1>1, <1>5 DEF nxt
============================================================================
