----------------------- MODULE DispatchRuntimeProofs -----------------------
(***************************************************************************)
(* The invariants and the refinement of DispatchRuntime, for every set of  *)
(* roles, dispatch ids and provider tasks and every sequence of calls.     *)
(***************************************************************************)
EXTENDS DispatchRuntime, RuntimeCoreProofs

\* The inductive invariant: the runtime's own, and that history speaks of what exists.
IInv ==
  /\ GoodRuntime(rt)
  /\ requeued \subseteq DOMAIN rt.dispatches
  /\ reindexed \subseteq BoundTasks(rt.dispatches)

\* The initial runtime satisfies the invariant.
LEMMA InitIInv == Init => IInv
BY NewRuntimeGood DEF Init, IInv

\* Every call is a good step of the runtime.
LEMMA NextGoodStep ==
  ASSUME IInv, Next
  PROVE  GoodStep(rt, rt')
<1>1. CASE Queue
  BY <1>1, QueueDispatchGood DEF Queue, IInv
<1>2. CASE Claim
  BY <1>2, ClaimDispatchGood, ClaimDecisionsAssumption DEF Claim, IInv
<1>3. CASE Start
  BY <1>3, StartNextDispatchGood DEF Start, IInv
<1>4. CASE Progress
  BY <1>4, ProgressDispatchGood DEF Progress, IInv
<1>5. CASE Complete
  BY <1>5, CompleteDispatchGood, CompletionStatusesAssumption DEF Complete, IInv
<1>6. CASE Attach
  BY <1>6, AttachResultTextGood DEF Attach, IInv
<1>7. CASE Answer
  BY <1>7, MemberAnsweredGood DEF Answer, IInv
<1>8. CASE Restore
  BY <1>8, RestoreSnapshotGood DEF Restore, IInv
<1> QED BY <1>1, <1>2, <1>3, <1>4, <1>5, <1>6, <1>7, <1>8 DEF Next

\* The invariant is inductive.
LEMMA NextIInv == IInv /\ [Next]_vars => IInv'
<1> SUFFICES ASSUME IInv, [Next]_vars PROVE IInv'
  OBVIOUS
<1>1. CASE Next
  <2>1. GoodRuntime(rt') /\ KeepsBindings(rt, rt')
    BY <1>1, NextGoodStep DEF GoodStep
  <2>2. /\ DOMAIN rt.dispatches \subseteq DOMAIN rt'.dispatches
        /\ BoundTasks(rt.dispatches) \subseteq BoundTasks(rt'.dispatches)
    BY <2>1, BoundTasksGrow
  <2>3. requeued' \subseteq DOMAIN rt'.dispatches
    <3>1. Range(rt.pending) \subseteq DOMAIN rt.dispatches
      BY DEF IInv, GoodRuntime, QueueFaithful, WithStatus
    <3>2. requeued' \subseteq requeued \cup Range(rt.pending)
      BY <1>1 DEF Next, Queue, Claim, Start, Progress, Complete, Attach, Answer, Restore
    <3> QED BY <2>2, <3>1, <3>2 DEF IInv
  <2>4. reindexed' \subseteq BoundTasks(rt'.dispatches)
    <3>1. DOMAIN rt.taskMap = BoundTasks(rt.dispatches)
      BY DEF IInv, GoodRuntime, IndexFaithful
    <3>2. reindexed' \subseteq reindexed \cup DOMAIN rt.taskMap
      BY <1>1 DEF Next, Queue, Claim, Start, Progress, Complete, Attach, Answer, Restore
    <3> QED BY <2>2, <3>1, <3>2 DEF IInv
  <2> QED BY <2>1, <2>3, <2>4 DEF IInv
<1>2. CASE UNCHANGED vars
  BY <1>2 DEF vars, IInv
<1> QED BY <1>1, <1>2

\* Every reachable state satisfies the inductive invariant.
THEOREM Invariance == Spec => []IInv
BY InitIInv, NextIInv, PTL DEF Spec

\* The runtime keeps its shape, whatever the callers do.
THEOREM TypeCorrect == Spec => []TypeOK
<1>1. IInv => TypeOK
  BY DEF IInv, GoodRuntime, TypeOK
<1> QED BY <1>1, Invariance, PTL

\* The queue is always exactly the set of queued dispatches, restarts included.
THEOREM QueueCorrect == Spec => []PendingIsQueued
<1>1. IInv => PendingIsQueued
  BY DEF IInv, GoodRuntime, PendingIsQueued
<1> QED BY <1>1, Invariance, PTL

\* The index of provider tasks always agrees with the dispatches, restarts included.
THEOREM IndexCorrect == Spec => []TaskIndexFaithful
<1>1. IInv => TaskIndexFaithful
  BY DEF IInv, GoodRuntime, TaskIndexFaithful
<1> QED BY <1>1, Invariance, PTL

\* No call ever unbinds, rebinds or re-queues a dispatch that was started.
THEOREM BindingCorrect == Spec => BindingIsPermanent
<1>1. IInv /\ [Next]_vars => [KeepsBindings(rt, rt')]_rt
  BY NextGoodStep DEF GoodStep, vars
<1> QED BY <1>1, Invariance, PTL DEF Spec, BindingIsPermanent

----------------------------------------------------------------------------
(* Refinement: every call is one step of the DispatchBoard or invisible there. *)

\* A dispatch that was started reads as open or closed, by its status alone.
PhaseOf(status) ==
  IF status = "queued" THEN "waiting" ELSE IF status \in Terminal THEN "closed" ELSE "open"

\* The two maps of the refinement before and after a step that touches only dispatch id.
LEMMA OneDispatchMoves ==
  ASSUME IInv, NEW id \in DispatchIds,
         DOMAIN rt'.dispatches = DOMAIN rt.dispatches \cup {id},
         \A d \in DOMAIN rt.dispatches \ {id} : rt'.dispatches[d] = rt.dispatches[d],
         NEW phase, phase = PhaseOf(rt'.dispatches[id].status),
         NEW owner, owner = rt'.dispatches[id].task
  PROVE  /\ [d \in DispatchIds |-> Phase(d)'] =
              [[d \in DispatchIds |-> Phase(d)] EXCEPT ![id] = phase]
         /\ [d \in DispatchIds |-> Owner(d)'] =
              [[d \in DispatchIds |-> Owner(d)] EXCEPT ![id] = owner]
BY DEF Phase, Owner, PhaseOf

\* What the maps say of a dispatch that exists.
LEMMA MapsOf ==
  ASSUME NEW id \in DOMAIN rt.dispatches
  PROVE  Phase(id) = PhaseOf(rt.dispatches[id].status) /\ Owner(id) = rt.dispatches[id].task
BY DEF Phase, Owner, PhaseOf

\* A report puts the dispatch of the reporting task in the phase of the reported status.
LEMMA ReportOnBoard ==
  ASSUME IInv, NEW t \in TaskIds, NEW status \in DispatchStatus \ {"queued"}, KnowsTask(rt, t),
         \/ rt' = ProgressDispatch(rt, t) /\ status = "running"
         \/ rt' = CompleteDispatch(rt, t, status)
  PROVE  \E d \in DispatchIds : Board!Report(d, t) \/ Board!Close(d, t)
<1> DEFINE id == rt.taskMap[t]
<1>1. /\ id \in DOMAIN rt.dispatches /\ rt.dispatches[id].task = t
      /\ DOMAIN rt'.dispatches = DOMAIN rt.dispatches
      /\ rt'.dispatches[id].status = status /\ rt'.dispatches[id].task = t
      /\ \A d \in DOMAIN rt.dispatches \ {id} : rt'.dispatches[d] = rt.dispatches[d]
  BY ReportEffect DEF IInv
<1>2. id \in DispatchIds
  BY <1>1 DEF IInv, GoodRuntime, IsRuntime
<1> HIDE DEF id
<1>3. Owner(id) = t
  BY <1>1, MapsOf
<1>4. /\ [d \in DispatchIds |-> Phase(d)'] =
           [[d \in DispatchIds |-> Phase(d)] EXCEPT ![id] = PhaseOf(status)]
      /\ [d \in DispatchIds |-> Owner(d)'] =
           [[d \in DispatchIds |-> Owner(d)] EXCEPT ![id] = t]
  <2>1. DOMAIN rt'.dispatches = DOMAIN rt.dispatches \cup {id}
    BY <1>1
  <2>2. PhaseOf(status) = PhaseOf(rt'.dispatches[id].status)
    BY <1>1
  <2> QED BY <1>1, <1>2, <2>1, <2>2, OneDispatchMoves
<1>5. [d \in DispatchIds |-> Owner(d)'] = [d \in DispatchIds |-> Owner(d)]
  BY <1>2, <1>3, <1>4
<1>6. PhaseOf(status) \in {"open", "closed"}
  BY DEF PhaseOf
<1> QED BY <1>2, <1>3, <1>4, <1>5, <1>6 DEF Board!Report, Board!Close

\* Every call maps to a step of the board or leaves it alone.
LEMMA NextOnBoard ==
  ASSUME IInv, Next
  PROVE  Board!Next \/ UNCHANGED Board!vars
<1>1. CASE Queue
  <2>1. PICK id \in DispatchIds \ DOMAIN rt.dispatches, request \in RoleTaskRequest :
          rt' = QueueDispatch(rt, id, request)
    BY <1>1 DEF Queue
  <2>2. /\ DOMAIN rt'.dispatches = DOMAIN rt.dispatches \cup {id}
        /\ rt'.dispatches[id].status = "queued" /\ rt'.dispatches[id].task = None
        /\ \A d \in DOMAIN rt.dispatches \ {id} : rt'.dispatches[d] = rt.dispatches[d]
    BY <2>1, QueueDispatchEffect DEF IInv, GoodRuntime
  <2>3. /\ [d \in DispatchIds |-> Phase(d)'] =
             [[d \in DispatchIds |-> Phase(d)] EXCEPT ![id] = "waiting"]
        /\ [d \in DispatchIds |-> Owner(d)'] =
             [[d \in DispatchIds |-> Owner(d)] EXCEPT ![id] = None]
    <3>1. "waiting" = PhaseOf(rt'.dispatches[id].status)
      BY <2>2 DEF PhaseOf
    <3> QED BY <2>2, <3>1, OneDispatchMoves
  <2>4. Phase(id) = "absent" /\ Owner(id) = None
    BY DEF Phase, Owner
  <2>5. [d \in DispatchIds |-> Owner(d)'] = [d \in DispatchIds |-> Owner(d)]
    BY <2>3, <2>4
  <2>6. Board!Post(id)
    BY <2>3, <2>4, <2>5 DEF Board!Post
  <2> QED BY <2>6 DEF Board!Next
<1>2. CASE Start
  <2>1. PICK t \in TaskIds : CanStartNext(rt) /\ rt' = StartNextDispatch(rt, t)
    BY <1>2 DEF Start
  <2> DEFINE id == Head(rt.pending)
  <2>2. /\ id \in DOMAIN rt.dispatches /\ rt.dispatches[id].status = "queued"
        /\ DOMAIN rt'.dispatches = DOMAIN rt.dispatches
        /\ rt'.dispatches[id].status = "started" /\ rt'.dispatches[id].task = t
        /\ \A d \in DOMAIN rt.dispatches \ {id} : rt'.dispatches[d] = rt.dispatches[d]
    BY <2>1, StartNextDispatchEffect DEF IInv
  <2>3. id \in DispatchIds
    BY <2>2 DEF IInv, GoodRuntime, IsRuntime
  <2> HIDE DEF id
  <2>4. /\ [d \in DispatchIds |-> Phase(d)'] =
             [[d \in DispatchIds |-> Phase(d)] EXCEPT ![id] = "open"]
        /\ [d \in DispatchIds |-> Owner(d)'] =
             [[d \in DispatchIds |-> Owner(d)] EXCEPT ![id] = t]
    <3>1. DOMAIN rt'.dispatches = DOMAIN rt.dispatches \cup {id}
      BY <2>2
    <3>2. "open" = PhaseOf(rt'.dispatches[id].status)
      BY <2>2 DEF PhaseOf, Terminal
    <3> QED BY <2>2, <2>3, <3>1, <3>2, OneDispatchMoves
  <2>5. Phase(id) = "waiting"
    BY <2>2, MapsOf DEF PhaseOf
  <2>6. Board!Take(id, t)
    BY <2>3, <2>4, <2>5 DEF Board!Take
  <2> QED BY <2>3, <2>6 DEF Board!Next
<1>3. CASE Progress
  <2>1. PICK t \in TaskIds : KnowsTask(rt, t) /\ rt' = ProgressDispatch(rt, t)
    BY <1>3 DEF Progress
  <2>2. "running" \in DispatchStatus \ {"queued"}
    BY DEF DispatchStatus
  <2>3. \E d \in DispatchIds : Board!Report(d, t) \/ Board!Close(d, t)
    BY <2>1, <2>2, ReportOnBoard
  <2> QED BY <2>3 DEF Board!Next
<1>4. CASE Complete
  <2>1. PICK t \in TaskIds, status \in CompletionStatuses :
          KnowsTask(rt, t) /\ rt' = CompleteDispatch(rt, t, status)
    BY <1>4 DEF Complete
  <2>2. \E d \in DispatchIds : Board!Report(d, t) \/ Board!Close(d, t)
    BY <2>1, ReportOnBoard, CompletionStatusesAssumption
  <2> QED BY <2>2 DEF Board!Next
<1>5. CASE Claim \/ Attach \/ Answer \/ Restore
  <2>1. /\ DOMAIN rt'.dispatches = DOMAIN rt.dispatches
        /\ \A d \in DOMAIN rt.dispatches :
             /\ rt'.dispatches[d].status = rt.dispatches[d].status
             /\ rt'.dispatches[d].task = rt.dispatches[d].task
    <3>1. CASE Claim \/ Attach \/ Answer
      BY <3>1, OtherEffect DEF Claim, Attach, Answer, IInv
    <3>2. CASE Restore
      BY <3>2, RestoreSnapshotGood DEF Restore, IInv
    <3> QED BY <1>5, <3>1, <3>2
  <2>2. \A d \in DispatchIds : Phase(d)' = Phase(d) /\ Owner(d)' = Owner(d)
    BY <2>1 DEF Phase, Owner
  <2> QED BY <2>2 DEF Board!vars
<1> QED BY <1>1, <1>2, <1>3, <1>4, <1>5 DEF Next

\* The runtime implements the board: a dispatch is taken once, by one task, for good.
THEOREM BoardImplemented == Spec => ImplementsBoard
<1>1. Init => Board!Init
  BY DEF Init, NewRuntime, Board!Init, Phase, Owner
<1>2. IInv /\ [Next]_vars => [Board!Next]_(Board!vars)
  <2> SUFFICES ASSUME IInv, [Next]_vars PROVE Board!Next \/ UNCHANGED Board!vars
    OBVIOUS
  <2>1. CASE Next
    BY <2>1, NextOnBoard
  <2>2. CASE UNCHANGED vars
    BY <2>2 DEF vars, Board!vars, Phase, Owner
  <2> QED BY <2>1, <2>2
<1> QED BY <1>1, <1>2, Invariance, PTL DEF Spec, ImplementsBoard, Board!Spec

----------------------------------------------------------------------------
(***************************************************************************)
(* The order in which what was queued is started, and which of the         *)
(* dispatches of one task its reports are about: first come first served   *)
(* and the last start, but for what a restore has reshuffled.              *)
(***************************************************************************)

\* All stamps are in the past.
StampsInPast ==
  \A d \in DOMAIN rt.dispatches :
    LET D == rt.dispatches[d]
    IN  D.createdAt < rt.clock /\ (D.startedAt # None => D.startedAt < rt.clock)

\* The queue is in the order of creation, but for what a restore has put back.
QueueInOrder ==
  \A i, j \in DOMAIN rt.pending :
    i < j => \/ rt.dispatches[rt.pending[i]].createdAt < rt.dispatches[rt.pending[j]].createdAt
             \/ {rt.pending[i], rt.pending[j]} \subseteq requeued

OrderInv == IInv /\ StampsInPast /\ QueueInOrder /\ StartsInQueueOrder /\ LatestStartOwnsTask

----------------------------------------------------------------------------
\* There is nothing yet.
LEMMA InitOrderInv == Init => OrderInv
<1> SUFFICES ASSUME Init PROVE OrderInv
  OBVIOUS
<1>1. DOMAIN rt.dispatches = {} /\ DOMAIN rt.pending = {} /\ DOMAIN rt.taskMap = {}
  BY DEF Init, NewRuntime
<1> QED BY <1>1, InitIInv DEF OrderInv, StampsInPast, QueueInOrder, StartsInQueueOrder,
                              LatestStartOwnsTask

\* What the invariant says of a dispatch
LEMMA DispatchFacts ==
  ASSUME IInv, NEW d \in DOMAIN rt.dispatches
  PROVE  /\ rt.clock \in Nat /\ rt.dispatches[d].createdAt \in Nat
         /\ rt.dispatches[d].startedAt # None => rt.dispatches[d].startedAt \in Nat
         /\ rt.dispatches[d].task = None <=> rt.dispatches[d].status = "queued"
         /\ rt.dispatches[d].startedAt = None <=> rt.dispatches[d].status = "queued"
         /\ rt.dispatches[d].status = "queued" <=> d \in Range(rt.pending)
<1>1. rt.dispatches[d] \in TaskDispatch
  BY DEF IInv, GoodRuntime, IsRuntime
<1> QED BY <1>1 DEF IInv, GoodRuntime, IsRuntime, StartedIsBound, QueueFaithful, WithStatus,
                    TaskDispatch, Maybe

\* A good step that queues and starts nothing leaves every stamp and every task.
LEMMA StampsKept ==
  ASSUME IInv, GoodStep(rt, rt'), Range(rt'.pending) = Range(rt.pending)
  PROVE  \A d \in DOMAIN rt.dispatches :
           /\ rt'.dispatches[d].createdAt = rt.dispatches[d].createdAt
           /\ rt'.dispatches[d].startedAt = rt.dispatches[d].startedAt
           /\ rt'.dispatches[d].task = rt.dispatches[d].task
<1> SUFFICES ASSUME NEW d \in DOMAIN rt.dispatches
             PROVE  /\ rt'.dispatches[d].createdAt = rt.dispatches[d].createdAt
                    /\ rt'.dispatches[d].startedAt = rt.dispatches[d].startedAt
                    /\ rt'.dispatches[d].task = rt.dispatches[d].task
  OBVIOUS
<1>1. d \in DOMAIN rt'.dispatches
      /\ rt'.dispatches[d].createdAt = rt.dispatches[d].createdAt
  BY DEF GoodStep, KeepsBindings
<1>2. CASE rt.dispatches[d].task # None
  BY <1>1, <1>2 DEF GoodStep, KeepsBindings
<1>3. CASE rt.dispatches[d].task = None
  <2>1. rt.dispatches[d].startedAt = None /\ d \in Range(rt.pending)
    BY <1>3, DispatchFacts
  <2>2. rt'.dispatches[d].status = "queued"
    BY <1>1, <2>1 DEF GoodStep, GoodRuntime, QueueFaithful, WithStatus
  <2>3. rt'.dispatches[d].startedAt = None /\ rt'.dispatches[d].task = None
    BY <1>1, <2>2 DEF GoodStep, GoodRuntime, StartedIsBound
  <2> QED BY <1>1, <1>3, <2>1, <2>3
<1> QED BY <1>2, <1>3

\* Claims, reports, results and answers leave the queue, the index and the clock alone.
LEMMA QuietSteps ==
  ASSUME IInv, Claim \/ Progress \/ Complete \/ Attach \/ Answer
  PROVE  /\ DOMAIN rt'.dispatches = DOMAIN rt.dispatches
         /\ rt'.pending = rt.pending /\ rt'.taskMap = rt.taskMap /\ rt'.clock = rt.clock
         /\ UNCHANGED <<requeued, reindexed>>
<1>1. IsRuntime(rt)
  BY DEF IInv, GoodRuntime
<1>2. UNCHANGED <<requeued, reindexed>>
  BY DEF Claim, Progress, Complete, Attach, Answer
<1>3. CASE Claim
  BY <1>1, <1>2, <1>3 DEF Claim, IsRuntime, ClaimDispatch
<1>4. CASE Progress
  <2>1. PICK t \in TaskIds : rt' = ProgressDispatch(rt, t)
    BY <1>4 DEF Progress
  <2> QED BY <1>1, <1>2, <2>1 DEF IsRuntime, ProgressDispatch
<1>5. CASE Complete
  <2>1. PICK t \in TaskIds, status \in CompletionStatuses : rt' = CompleteDispatch(rt, t, status)
    BY <1>5 DEF Complete
  <2> QED BY <1>1, <1>2, <2>1 DEF IsRuntime, CompleteDispatch
<1>6. CASE Attach
  BY <1>1, <1>2, <1>6 DEF Attach, IsRuntime, AttachResultText
<1>7. CASE Answer
  BY <1>1, <1>2, <1>7 DEF Answer, IsRuntime, MemberAnswered
<1> QED BY <1>3, <1>4, <1>5, <1>6, <1>7

\* The step of each kind of call preserves the order.
LEMMA QuietOrder ==
  ASSUME OrderInv, IInv', Claim \/ Progress \/ Complete \/ Attach \/ Answer
  PROVE  OrderInv'
<1>1. IInv /\ Next
  BY DEF OrderInv, Next
<1>2. GoodStep(rt, rt')
  BY <1>1, NextGoodStep
<1>3. /\ DOMAIN rt'.dispatches = DOMAIN rt.dispatches
      /\ rt'.pending = rt.pending /\ rt'.taskMap = rt.taskMap /\ rt'.clock = rt.clock
      /\ UNCHANGED <<requeued, reindexed>>
  BY <1>1, QuietSteps
<1>4. \A d \in DOMAIN rt.dispatches :
        /\ rt'.dispatches[d].createdAt = rt.dispatches[d].createdAt
        /\ rt'.dispatches[d].startedAt = rt.dispatches[d].startedAt
        /\ rt'.dispatches[d].task = rt.dispatches[d].task
  BY <1>1, <1>2, <1>3, StampsKept
<1>5. Range(rt.pending) \subseteq DOMAIN rt.dispatches
      /\ \A t \in DOMAIN rt.taskMap : rt.taskMap[t] \in DOMAIN rt.dispatches
  BY <1>1 DEF IInv, GoodRuntime, QueueFaithful, IndexFaithful, WithStatus, BoundTo
<1>6. StampsInPast'
  BY <1>3, <1>4 DEF OrderInv, StampsInPast
<1>7. QueueInOrder'
  BY <1>3, <1>4, <1>5 DEF OrderInv, QueueInOrder, Range
<1>8. StartsInQueueOrder'
  BY <1>3, <1>4 DEF OrderInv, StartsInQueueOrder
<1>9. LatestStartOwnsTask'
  BY <1>3, <1>4, <1>5 DEF OrderInv, LatestStartOwnsTask, BoundTo
<1> QED BY <1>6, <1>7, <1>8, <1>9 DEF OrderInv

\* A new dispatch is the newest and the last of the queue.
LEMMA QueueOrder ==
  ASSUME OrderInv, IInv', Queue
  PROVE  OrderInv'
<1>1. PICK id \in DispatchIds \ DOMAIN rt.dispatches, request \in RoleTaskRequest :
        rt' = QueueDispatch(rt, id, request) /\ UNCHANGED <<requeued, reindexed>>
  BY DEF Queue
<1>2. IInv /\ IsRuntime(rt)
  BY DEF OrderInv, IInv, GoodRuntime
<1>3. /\ DOMAIN rt'.dispatches = DOMAIN rt.dispatches \cup {id}
      /\ rt'.dispatches[id].status = "queued" /\ rt'.dispatches[id].task = None
      /\ rt'.dispatches[id].createdAt = rt.clock
      /\ \A d \in DOMAIN rt.dispatches : rt'.dispatches[d] = rt.dispatches[d]
  BY <1>1, <1>2, QueueDispatchEffect
<1>4. /\ rt'.pending = Append(rt.pending, id) /\ rt'.taskMap = rt.taskMap
      /\ rt'.clock = rt.clock + 1
  BY <1>1, <1>2 DEF QueueDispatch, IsRuntime
<1>5. rt'.dispatches[id].startedAt = None
  BY <1>3 DEF IInv, GoodRuntime, StartedIsBound
<1>6. StampsInPast'
  <2>1. ASSUME NEW d \in DOMAIN rt.dispatches
        PROVE  /\ rt'.dispatches[d].createdAt < rt'.clock
               /\ rt'.dispatches[d].startedAt # None => rt'.dispatches[d].startedAt < rt'.clock
    BY <1>2, <1>3, <1>4, DispatchFacts DEF OrderInv, StampsInPast
  <2>2. rt'.dispatches[id].createdAt < rt'.clock
    BY <1>2, <1>3, <1>4 DEF IsRuntime
  <2> QED BY <1>3, <1>5, <2>1, <2>2 DEF StampsInPast
<1>7. QueueInOrder'
  <2> DEFINE q == rt.pending
             n == Len(q)
  <2>1. /\ n \in Nat /\ DOMAIN q = 1..n /\ DOMAIN rt'.pending = 1..(n + 1)
        /\ \A i \in 1..n : rt'.pending[i] = q[i] /\ q[i] \in DOMAIN rt.dispatches
        /\ rt'.pending[n + 1] = id
    BY <1>2, <1>4 DEF IsRuntime
  <2> HIDE DEF q, n
  <2> SUFFICES ASSUME NEW i \in 1..(n + 1), NEW j \in 1..(n + 1), i < j
               PROVE  \/ rt'.dispatches[rt'.pending[i]].createdAt
                           < rt'.dispatches[rt'.pending[j]].createdAt
                      \/ {rt'.pending[i], rt'.pending[j]} \subseteq requeued'
    BY <2>1 DEF QueueInOrder
  <2>2. i \in 1..n
    BY <2>1
  <2>3. CASE j \in 1..n
    <3>1. \/ rt.dispatches[q[i]].createdAt < rt.dispatches[q[j]].createdAt
          \/ {q[i], q[j]} \subseteq requeued
      BY <2>1, <2>2, <2>3 DEF OrderInv, QueueInOrder, q
    <3> QED BY <1>1, <1>3, <2>1, <2>2, <2>3, <3>1
  <2>4. CASE j = n + 1
    <3>1. rt.dispatches[q[i]].createdAt < rt.clock
      BY <2>1, <2>2 DEF OrderInv, StampsInPast
    <3> QED BY <1>3, <2>1, <2>2, <2>4, <3>1
  <2> QED BY <2>1, <2>3, <2>4
<1>8. StartsInQueueOrder'
  <2> SUFFICES ASSUME NEW d \in DOMAIN rt'.dispatches, NEW e \in DOMAIN rt'.dispatches,
                      rt'.dispatches[d].createdAt < rt'.dispatches[e].createdAt,
                      rt'.dispatches[e].startedAt # None
               PROVE  \/ /\ rt'.dispatches[d].startedAt # None
                         /\ rt'.dispatches[d].startedAt < rt'.dispatches[e].startedAt
                      \/ {d, e} \subseteq requeued'
    BY DEF StartsInQueueOrder
  <2>1. e \in DOMAIN rt.dispatches
    BY <1>3, <1>5
  <2>2. d \in DOMAIN rt.dispatches
    <3>1. rt.dispatches[e].createdAt < rt.clock /\ rt.dispatches[e].createdAt \in Nat
          /\ rt.clock \in Nat
      BY <1>2, <2>1, DispatchFacts DEF OrderInv, StampsInPast
    <3> QED BY <1>3, <2>1, <3>1
  <2> QED BY <1>1, <1>3, <2>1, <2>2 DEF OrderInv, StartsInQueueOrder
<1>9. LatestStartOwnsTask'
  <2> SUFFICES ASSUME NEW t \in DOMAIN rt'.taskMap \ reindexed',
                      NEW d \in BoundTo(rt'.dispatches, t)
               PROVE  rt'.dispatches[d].startedAt <= rt'.dispatches[rt'.taskMap[t]].startedAt
    BY DEF LatestStartOwnsTask
  <2>1. t \in TaskIds /\ t # None /\ rt.taskMap[t] \in DOMAIN rt.dispatches
    BY <1>2, <1>4, NoneAssumption DEF IsRuntime
  <2>2. d \in BoundTo(rt.dispatches, t)
    BY <1>3, <2>1 DEF BoundTo
  <2>3. rt.dispatches[d].startedAt <= rt.dispatches[rt.taskMap[t]].startedAt
    BY <1>1, <1>4, <2>2 DEF OrderInv, LatestStartOwnsTask
  <2> QED BY <1>3, <1>4, <2>1, <2>2, <2>3 DEF BoundTo
<1> QED BY <1>6, <1>7, <1>8, <1>9 DEF OrderInv

\* The front of the queue is the oldest that waits, but for what a restore has put back, and
\* its start is the latest.
LEMMA StartOrder ==
  ASSUME OrderInv, IInv', Start
  PROVE  OrderInv'
<1>1. PICK t \in TaskIds :
        /\ CanStartNext(rt) /\ rt' = StartNextDispatch(rt, t)
        /\ reindexed' = reindexed \ {t} /\ UNCHANGED requeued
  BY DEF Start
<1>2. IInv /\ GoodRuntime(rt) /\ IsRuntime(rt)
  BY DEF OrderInv, IInv, GoodRuntime
<1> DEFINE id == Head(rt.pending)
<1>3. /\ id \in DOMAIN rt.dispatches /\ rt.dispatches[id].status = "queued"
      /\ DOMAIN rt'.dispatches = DOMAIN rt.dispatches
      /\ rt'.dispatches[id].task = t /\ rt'.dispatches[id].startedAt = rt.clock
      /\ \A d \in DOMAIN rt.dispatches \ {id} : rt'.dispatches[d] = rt.dispatches[d]
  BY <1>1, <1>2, StartNextDispatchEffect
<1>4. /\ rt'.pending = Tail(rt.pending) /\ rt'.taskMap = Put(rt.taskMap, t, id)
      /\ rt'.clock = rt.clock + 1
  BY <1>1, <1>2 DEF StartNextDispatch, StartDispatch, PopPending, IsRuntime
<1>5. rt'.dispatches[id].createdAt = rt.dispatches[id].createdAt
  <2>1. GoodStep(rt, rt')
    BY <1>2, NextGoodStep DEF Next
  <2> QED BY <1>3, <2>1 DEF GoodStep, KeepsBindings
<1> DEFINE q == rt.pending
           n == Len(q)
<1>6. /\ n \in Nat \ {0} /\ DOMAIN q = 1..n /\ id = q[1]
      /\ DOMAIN rt'.pending = 1..(n - 1)
      /\ \A i \in 1..(n - 1) : rt'.pending[i] = q[i + 1]
      /\ \A i \in 1..n : q[i] \in DOMAIN rt.dispatches
  BY <1>1, <1>2, <1>4 DEF IsRuntime, CanStartNext
<1>6a. \A i, j \in 1..n :
         i < j => \/ rt.dispatches[q[i]].createdAt < rt.dispatches[q[j]].createdAt
                  \/ {q[i], q[j]} \subseteq requeued
  <2>1. DOMAIN q = 1..n
    BY <1>6
  <2> HIDE DEF n
  <2> QED BY <2>1 DEF OrderInv, QueueInOrder
<1> HIDE DEF id, q, n
<1>7. \A d \in DOMAIN rt.dispatches :
        rt'.dispatches[d].createdAt = rt.dispatches[d].createdAt
  BY <1>3, <1>5
<1>8. StampsInPast'
  <2> SUFFICES ASSUME NEW d \in DOMAIN rt.dispatches
        PROVE  /\ rt'.dispatches[d].createdAt < rt'.clock
               /\ rt'.dispatches[d].startedAt # None => rt'.dispatches[d].startedAt < rt'.clock
    BY <1>3 DEF StampsInPast
  <2>1. /\ rt.dispatches[d].createdAt < rt.clock
        /\ rt.dispatches[d].startedAt # None => rt.dispatches[d].startedAt < rt.clock
    BY DEF OrderInv, StampsInPast
  <2> QED BY <1>2, <1>3, <1>4, <1>7, <2>1, DispatchFacts
<1>9. QueueInOrder'
  <2> SUFFICES ASSUME NEW i \in 1..(n - 1), NEW j \in 1..(n - 1), i < j
               PROVE  \/ rt'.dispatches[rt'.pending[i]].createdAt
                           < rt'.dispatches[rt'.pending[j]].createdAt
                      \/ {rt'.pending[i], rt'.pending[j]} \subseteq requeued'
    BY <1>6 DEF QueueInOrder
  <2>1. /\ i + 1 \in 1..n /\ j + 1 \in 1..n /\ i + 1 < j + 1
        /\ rt'.pending[i] = q[i + 1] /\ rt'.pending[j] = q[j + 1]
    BY <1>6
  <2>2. \/ rt.dispatches[q[i + 1]].createdAt < rt.dispatches[q[j + 1]].createdAt
        \/ {q[i + 1], q[j + 1]} \subseteq requeued
    BY <1>6a, <2>1
  <2> QED BY <1>1, <1>6, <1>7, <2>1, <2>2
<1>10. StartsInQueueOrder'
  <2> SUFFICES ASSUME NEW d \in DOMAIN rt.dispatches, NEW e \in DOMAIN rt.dispatches,
                      rt.dispatches[d].createdAt < rt.dispatches[e].createdAt,
                      rt'.dispatches[e].startedAt # None
               PROVE  \/ /\ rt'.dispatches[d].startedAt # None
                         /\ rt'.dispatches[d].startedAt < rt'.dispatches[e].startedAt
                      \/ {d, e} \subseteq requeued
    BY <1>1, <1>3, <1>7 DEF StartsInQueueOrder
  <2>1. CASE e # id
    <3>1. rt'.dispatches[e].startedAt = rt.dispatches[e].startedAt
      BY <1>3, <2>1
    <3>2. \/ /\ rt.dispatches[d].startedAt # None
             /\ rt.dispatches[d].startedAt < rt.dispatches[e].startedAt
          \/ {d, e} \subseteq requeued
      BY <3>1 DEF OrderInv, StartsInQueueOrder
    <3>3. rt.dispatches[id].startedAt = None
      BY <1>2, <1>3, DispatchFacts
    <3> QED BY <1>3, <3>1, <3>2, <3>3
  <2>2. CASE e = id
    <3>1. d # id
      BY <1>2, <2>2, DispatchFacts
    <3>2. CASE rt.dispatches[d].startedAt # None
      <4>1. rt.dispatches[d].startedAt < rt.clock
        BY <3>2 DEF OrderInv, StampsInPast
      <4> QED BY <1>3, <2>2, <3>1, <3>2, <4>1
    <3>3. CASE rt.dispatches[d].startedAt = None
      <4>1. d \in Range(rt.pending)
        BY <1>2, <3>3, DispatchFacts
      <4>2. PICK j \in 1..n : q[j] = d
        BY <1>6, <4>1 DEF Range, q
      <4>3. 1 < j /\ 1 \in 1..n
        BY <1>6, <3>1, <4>2
      <4>4. rt.dispatches[id].createdAt < rt.dispatches[d].createdAt \/ {id, d} \subseteq requeued
        BY <1>6, <1>6a, <4>2, <4>3
      <4>5. ~(rt.dispatches[id].createdAt < rt.dispatches[d].createdAt)
        BY <1>2, <2>2, DispatchFacts
      <4> QED BY <2>2, <4>4, <4>5
    <3> QED BY <3>2, <3>3
  <2> QED BY <2>1, <2>2
<1>11. LatestStartOwnsTask'
  <2> SUFFICES ASSUME NEW s \in DOMAIN rt'.taskMap \ reindexed',
                      NEW d \in BoundTo(rt'.dispatches, s)
               PROVE  rt'.dispatches[d].startedAt <= rt'.dispatches[rt'.taskMap[s]].startedAt
    BY DEF LatestStartOwnsTask
  <2>1. d \in DOMAIN rt.dispatches /\ rt'.dispatches[d].task = s
    BY <1>3 DEF BoundTo
  <2>2. CASE s = t
    <3>1. rt'.taskMap[s] = id
      BY <1>4, <2>2 DEF Put
    <3>2. CASE d = id
      BY <1>2, <1>3, <3>1, <3>2 DEF IsRuntime
    <3>3. CASE d # id
      <4>1. rt'.dispatches[d] = rt.dispatches[d]
        BY <1>3, <2>1, <3>3
      <4>2. rt.dispatches[d].startedAt # None
        BY <1>2, <2>1, <2>2, <4>1, NoneAssumption, DispatchFacts
      <4>3. rt.dispatches[d].startedAt \in Nat /\ rt.dispatches[d].startedAt < rt.clock
            /\ rt.clock \in Nat
        BY <1>2, <2>1, <4>2, DispatchFacts DEF OrderInv, StampsInPast
      <4> QED BY <1>3, <3>1, <4>1, <4>3
    <3> QED BY <3>2, <3>3
  <2>3. CASE s # t
    <3>1. s \in DOMAIN rt.taskMap \ reindexed /\ rt'.taskMap[s] = rt.taskMap[s]
      BY <1>1, <1>4, <2>3 DEF Put
    <3>2. d # id /\ d \in BoundTo(rt.dispatches, s)
      BY <1>3, <2>1, <2>3 DEF BoundTo
    <3>3. rt.taskMap[s] \in DOMAIN rt.dispatches /\ rt.dispatches[rt.taskMap[s]].task = s
      BY <1>2, <3>1 DEF GoodRuntime, IndexFaithful, BoundTo
    <3>4. s \in TaskIds /\ rt.dispatches[id].task = None
      BY <1>2, <1>3, <3>1, DispatchFacts DEF IsRuntime
    <3>5. rt.taskMap[s] # id
      BY <3>3, <3>4, NoneAssumption
    <3>6. rt.dispatches[d].startedAt <= rt.dispatches[rt.taskMap[s]].startedAt
      BY <3>1, <3>2 DEF OrderInv, LatestStartOwnsTask
    <3> QED BY <1>3, <2>1, <3>1, <3>2, <3>3, <3>5, <3>6
  <2> QED BY <2>2, <2>3
<1> QED BY <1>8, <1>9, <1>10, <1>11 DEF OrderInv

\* A restore that changes an order or an owner says so.
LEMMA RestoreOrder ==
  ASSUME OrderInv, IInv', Restore
  PROVE  OrderInv'
<1>1. IInv /\ GoodRuntime(rt) /\ IsRuntime(rt) /\ GoodRuntime(rt')
  BY DEF OrderInv, IInv, GoodRuntime
<1>2. /\ rt'.dispatches = rt.dispatches /\ rt'.clock = rt.clock
      /\ requeued' = requeued \cup (IF rt'.pending = rt.pending THEN {} ELSE Range(rt.pending))
      /\ reindexed' = reindexed \cup {t \in DOMAIN rt.taskMap : rt'.taskMap[t] # rt.taskMap[t]}
  BY <1>1, RestoreEffect DEF Restore, IsRuntime
<1>3. /\ Range(rt'.pending) = Range(rt.pending)
      /\ Range(rt.pending) \subseteq DOMAIN rt.dispatches
      /\ DOMAIN rt'.taskMap = DOMAIN rt.taskMap
  BY <1>1, <1>2 DEF GoodRuntime, QueueFaithful, IndexFaithful, WithStatus
<1>4. StampsInPast'
  BY <1>2 DEF OrderInv, StampsInPast
<1>5. QueueInOrder'
  <2>1. CASE rt'.pending = rt.pending
    BY <1>2, <2>1 DEF OrderInv, QueueInOrder
  <2>2. CASE rt'.pending # rt.pending
    <3>1. \A i \in DOMAIN rt'.pending : rt'.pending[i] \in requeued'
      BY <1>2, <1>3, <2>2 DEF Range
    <3> QED BY <3>1 DEF QueueInOrder
  <2> QED BY <2>1, <2>2
<1>6. StartsInQueueOrder'
  BY <1>2 DEF OrderInv, StartsInQueueOrder
<1>7. LatestStartOwnsTask'
  <2>1. \A t \in DOMAIN rt'.taskMap \ reindexed' :
          t \in DOMAIN rt.taskMap \ reindexed /\ rt'.taskMap[t] = rt.taskMap[t]
    BY <1>2, <1>3
  <2> QED BY <1>2, <2>1 DEF OrderInv, LatestStartOwnsTask
<1> QED BY <1>4, <1>5, <1>6, <1>7 DEF OrderInv

\* Every reachable state satisfies the invariant.
LEMMA AlwaysOrderInv == Spec => []OrderInv
<1>1. Init => OrderInv
  BY InitOrderInv
<1>2. OrderInv /\ [Next]_vars => OrderInv'
  <2> SUFFICES ASSUME OrderInv, [Next]_vars PROVE OrderInv'
    OBVIOUS
  <2>1. IInv'
    BY NextIInv DEF OrderInv
  <2>2. CASE Next
    BY <2>1, <2>2, QuietOrder, QueueOrder, StartOrder, RestoreOrder DEF Next
  <2>3. CASE UNCHANGED vars
    BY <2>1, <2>3 DEF vars, OrderInv, StampsInPast, QueueInOrder, StartsInQueueOrder,
                      LatestStartOwnsTask
  <2> QED BY <2>2, <2>3
<1> QED BY <1>1, <1>2, PTL DEF Spec

----------------------------------------------------------------------------
\* Dispatches start in the order in which they were queued, but for those that a restore has
\* put back in the order of their ids.
THEOREM StartsInOrder == Spec => []StartsInQueueOrder
<1>1. OrderInv => StartsInQueueOrder
  BY DEF OrderInv
<1> QED BY <1>1, AlwaysOrderInv, PTL

\* The reports of a task are about the dispatch that it started last, but for tasks that a
\* restore has pointed to another.
THEOREM LatestStartOwns == Spec => []LatestStartOwnsTask
<1>1. OrderInv => LatestStartOwnsTask
  BY DEF OrderInv
<1> QED BY <1>1, AlwaysOrderInv, PTL
============================================================================
