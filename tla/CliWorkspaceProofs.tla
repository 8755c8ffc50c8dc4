------------------------- MODULE CliWorkspaceProofs -------------------------
(***************************************************************************)
(* What every step that the Codex and the Claude adapter share preserves,  *)
(* for any process, any caller and any number of crashes and I/O errors,   *)
(* and then the theorems about each of the two.                            *)
(***************************************************************************)
EXTENDS CodexWorkspace, ClaudeWorkspace, RuntimeCoreProofs, WellFoundedInduction

----------------------------------------------------------------------------
(* The inductive invariant *)

\* What can be left to write, in the order of InitFiles and PersistFiles
FileLists ==
  { <<"spec", "seed", "binding", "state", "provider", "log">>,
    <<"seed", "binding", "state", "provider", "log">>,
    <<"binding", "state", "provider", "log">>,
    <<"state", "provider", "log">>, <<"provider", "log">>, <<"log">> }

\* The call has the stage and the files that belong together, and no object holds nothing.
CallInv ==
  /\ call \in Call
  /\ call.stage # "preparing"
  /\ IF call.stage = "writing" THEN call.files \in FileLists ELSE call.files = <<>>
  /\ call.stage = "down" => rt = NewRuntime /\ bindings = <<>> /\ call.completed = {}
  /\ turn.step # "none" <=> call.stage = "busy"

\* The files, each by itself
DiskShape ==
  /\ DOMAIN disk = {"spec", "state", "provider", "log"}
  /\ disk.state.is = "ok" =>
       /\ \E r : GoodRuntime(r) /\ disk.state.rt = Snapshot(r)
       /\ disk.state.wf \in WorkflowState
  /\ disk.provider.is = "ok" => DOMAIN disk.provider.bindings \subseteq Roles
  /\ disk.state.is = "missing" => acked = {}

\* The files, compared with each other
DiskInv == ThreadsHaveDispatches /\ LogNeverAhead /\ AckedOnDisk

\* The object in memory knows all that is saved, reported and acknowledged.
MemoryInv ==
  call.stage # "down" =>
    /\ Range(bindings) \subseteq BoundTasks(rt.dispatches)
    /\ disk.provider.is = "ok" =>
         Range(disk.provider.bindings) \subseteq BoundTasks(rt.dispatches)
    /\ call.completed \cup acked \cup disk.log.completed \subseteq Completed(rt)

\* Once a persist has written the state, it is that of the runtime until the persist is over.
SavedInv ==
  call.stage = "writing" /\ Head(call.files) \in {"provider", "log"} =>
    disk.state.is = "ok" /\ disk.state.rt.dispatches = rt.dispatches

\* The turn is about a dispatch that exists, in the queue until a conversation is announced,
\* and alone there if the queue was empty before.  Once it has a task it is that task's.
DispatchInv ==
  turn.step # "none" =>
    LET D == rt.dispatches[turn.id]
    IN  /\ turn.id \in DOMAIN rt.dispatches
        /\ ~turn.opened =>
             /\ D.status = "queued"
             /\ ~turn.behind => rt.pending = <<turn.id>>
        /\ D.task # None => rt.taskMap[D.task] = turn.id

\* What the turn has seen of its stream, and where the workflow is meanwhile
TurnInv ==
  /\ turn \in Turn
  /\ turn.step \in {"none", "launching"} => ~turn.opened
  /\ turn.done => turn.opened
  /\ turn.opened => CurrentRole \in DOMAIN bindings
  /\ CorrelatedUnlessBehind
  /\ ExecutesActiveNode

IInv ==
  /\ GoodRuntime(rt)
  /\ wf \in WorkflowState
  /\ DOMAIN bindings \subseteq Roles
  /\ acked \subseteq DispatchIds
  /\ faults \in 0..MaxFaults
  /\ CallInv /\ DiskShape /\ DiskInv /\ MemoryInv /\ SavedInv /\ DispatchInv /\ TurnInv

----------------------------------------------------------------------------
\* There is nothing in memory and nothing on disk.
LEMMA InitIInv == Init => IInv
<1> SUFFICES ASSUME Init PROVE IInv
  OBVIOUS
<1> USE DEF Init, InitWorkspace
<1>1. GoodRuntime(rt)
  BY NewRuntimeGood
<1>2. wf \in WorkflowState
  BY DEF NewWorkflow, WorkflowState, WorkspaceMode, Maybe
<1>3. DOMAIN bindings \subseteq Roles /\ acked \subseteq DispatchIds /\ faults \in 0..MaxFaults
  BY MaxFaultsAssumption
<1>4. CallInv
  BY DEF CallInv, Call, Resting, NoTurn
<1>5. DiskShape /\ DiskInv
  BY DEF DiskShape, DiskInv, ThreadsHaveDispatches, LogNeverAhead, AckedOnDisk, NoDisk, Missing
<1>6. MemoryInv /\ SavedInv
  BY DEF MemoryInv, SavedInv, Resting
<1>7. DispatchInv /\ TurnInv
  BY FollowupsAssumption DEF DispatchInv, TurnInv, NoTurn, Turn, CorrelatedUnlessBehind,
                             ExecutesActiveNode, Maybe
<1> QED BY <1>1, <1>2, <1>3, <1>4, <1>5, <1>6, <1>7 DEF IInv

----------------------------------------------------------------------------
(* The calls in memory *)

\* Without a turn there is nothing to say of one.
LEMMA NoTurnGood ==
  ASSUME turn' = NoTurn
  PROVE  DispatchInv' /\ TurnInv'
BY FollowupsAssumption DEF DispatchInv, TurnInv, NoTurn, Turn, CorrelatedUnlessBehind,
                           ExecutesActiveNode, Maybe

\* Between two persists the object moves ahead of what is saved.
LEMMA MemoryMovesAhead ==
  ASSUME IInv, call.stage \in {"idle", "busy"}, call'.stage # "down",
         GoodStep(rt, rt'), Completed(rt) \subseteq Completed(rt'), UNCHANGED durableVars,
         Range(bindings') \subseteq BoundTasks(rt'.dispatches),
         call'.completed \subseteq Completed(rt'),
         call'.stage = "writing" => Head(call'.files) = "state"
  PROVE  DiskShape' /\ DiskInv' /\ MemoryInv' /\ SavedInv'
<1>1. BoundTasks(rt.dispatches) \subseteq BoundTasks(rt'.dispatches)
  BY BoundTasksGrow DEF GoodStep
<1>2. UNCHANGED <<disk, acked, faults>>
  BY DEF durableVars
<1>3. DiskShape'
  BY <1>2 DEF IInv, DiskShape
<1>4. DiskInv'
  BY <1>2 DEF IInv, DiskInv, ThreadsHaveDispatches, LogNeverAhead, AckedOnDisk
<1>5. MemoryInv'
  <2>1. /\ disk.provider.is = "ok" =>
             Range(disk.provider.bindings) \subseteq BoundTasks(rt.dispatches)
        /\ acked \cup disk.log.completed \subseteq Completed(rt)
    BY DEF IInv, MemoryInv
  <2> QED BY <1>1, <1>2, <2>1 DEF MemoryInv
<1>6. SavedInv'
  BY DEF SavedInv
<1> QED BY <1>3, <1>4, <1>5, <1>6

\* A call that begins an assignment has its dispatch last in the queue.
LEMMA BeginAssignmentGood ==
  ASSUME IInv, call.stage \in {"idle", "busy"},
         NEW r, GoodStep(rt, r), r.dispatches = rt.dispatches,
         NEW t, t.chain \in BOOLEAN, t.budget \in 0..MaxWorkflowFollowups,
         NEW request \in RoleTaskRequest, BeginAssignment(r, t, request),
         t.chain /\ request.node # None =>
           wf'.mode = "workflow_running" /\ wf'.node = request.node,
         wf' \in WorkflowState, UNCHANGED <<bindings, durableVars>>
  PROVE  IInv' /\ Completed(rt) \subseteq Completed(rt') /\ ~turn'.opened
<1>1. PICK id \in DispatchIds \ DOMAIN r.dispatches :
        /\ rt' = QueueAndClaim(r, id, request)
        /\ call' = [call EXCEPT !.stage = "busy"]
        /\ turn' = [NoTurn EXCEPT !.step = "launching", !.chain = t.chain, !.budget = t.budget,
                                  !.id = id, !.behind = r.pending # <<>>]
  BY DEF BeginAssignment
<1>2. GoodRuntime(r) /\ GoodRuntime(rt)
  BY DEF GoodStep, IInv
<1>3. /\ GoodStep(r, rt') /\ Completed(r) \subseteq Completed(rt')
      /\ id \in DOMAIN rt'.dispatches
      /\ rt'.dispatches[id].status = "queued" /\ rt'.dispatches[id].task = None
      /\ rt'.dispatches[id].node = request.node
      /\ rt'.pending = Append(r.pending, id)
  BY <1>1, <1>2, QueueAndClaimGood
<1>4. GoodStep(rt, rt') /\ Completed(rt) \subseteq Completed(rt')
  BY <1>2, <1>3, GoodStepsCompose DEF Completed
<1>5. /\ call'.stage = "busy" /\ call'.completed = call.completed /\ call'.files = <<>>
      /\ call' \in Call
  BY <1>1 DEF IInv, CallInv, Call
<1>6. call.completed \subseteq Completed(rt)
  BY DEF IInv, MemoryInv
<1>7. DiskShape' /\ DiskInv' /\ MemoryInv' /\ SavedInv'
  <2>1. Range(bindings') \subseteq BoundTasks(rt'.dispatches)
    BY <1>4, BoundTasksGrow DEF GoodStep, IInv, MemoryInv
  <2> QED BY <1>4, <1>5, <1>6, <2>1, MemoryMovesAhead
<1>8. CallInv'
  BY <1>1, <1>5 DEF CallInv, NoTurn
<1>9. DispatchInv' /\ TurnInv' /\ ~turn'.opened
  <2>1. turn' \in Turn
    BY <1>1 DEF Turn, NoTurn, Maybe
  <2>2. r.pending = <<>> => rt'.pending = <<id>>
    BY <1>3
  <2>3. /\ turn'.step = "launching" /\ ~turn'.opened /\ ~turn'.done /\ turn'.id = id
        /\ turn'.behind = (r.pending # <<>>) /\ turn'.chain = t.chain
    BY <1>1 DEF NoTurn
  <2>4. DispatchInv'
    BY <1>3, <2>2, <2>3 DEF DispatchInv
  <2>5. ExecutesActiveNode'
    BY <1>3, <2>3 DEF ExecutesActiveNode
  <2> QED BY <2>1, <2>3, <2>4, <2>5 DEF TurnInv, CorrelatedUnlessBehind
<1> QED BY <1>4, <1>7, <1>8, <1>9 DEF IInv, GoodStep, durableVars

\* A call that is over, or goes on to its persist, has no turn.
LEMMA CallSettles ==
  ASSUME IInv, call.stage \in {"idle", "busy"},
         GoodStep(rt, rt'), rt'.dispatches = rt.dispatches,
         call' \in {ToPersist(call.completed), Resting("idle")}, turn' = NoTurn,
         wf' \in WorkflowState, UNCHANGED <<bindings, durableVars>>
  PROVE  IInv'
<1>1. Completed(rt) \subseteq Completed(rt')
  BY DEF Completed
<1>2. /\ call' \in Call
      /\ call'.completed \subseteq call.completed
      /\ \/ call'.stage = "idle" /\ call'.files = <<>>
         \/ call'.stage = "writing" /\ call'.files = <<"state", "provider", "log">>
  <2>1. call.completed \subseteq DispatchIds
    BY DEF IInv, CallInv, Call
  <2>2. CASE call' = ToPersist(call.completed)
    BY <2>1, <2>2 DEF Call, ToPersist, PersistFiles
  <2>3. CASE call' = Resting("idle")
    BY <2>3 DEF Call, Resting
  <2> QED BY <2>2, <2>3
<1>3. DiskShape' /\ DiskInv' /\ MemoryInv' /\ SavedInv'
  <2>1. Range(bindings') \subseteq BoundTasks(rt'.dispatches)
    BY DEF IInv, MemoryInv
  <2>2. call'.completed \subseteq Completed(rt')
    BY <1>1, <1>2 DEF IInv, MemoryInv
  <2>3. call'.stage = "writing" => Head(call'.files) = "state"
    BY <1>2
  <2> QED BY <1>1, <1>2, <2>1, <2>2, <2>3, MemoryMovesAhead
<1>4. CallInv'
  BY <1>2 DEF CallInv, FileLists, NoTurn
<1>5. DispatchInv' /\ TurnInv'
  BY NoTurnGood
<1> QED BY <1>3, <1>4, <1>5 DEF IInv, GoodStep, durableVars

\* A turn that goes on starts and queues nothing, and undoes no completion.
LEMMA TurnGoesOn ==
  ASSUME IInv, turn.step # "none",
         GoodStep(rt, rt'), Completed(rt) \subseteq Completed(rt'),
         rt'.pending = rt.pending, rt'.taskMap = rt.taskMap,
         turn' \in Turn, turn'.step # "none", turn'.id = turn.id,
         turn'.behind = turn.behind, turn'.opened = turn.opened,
         turn'.step # "launching", turn'.chain = turn.chain, turn'.done => turn'.opened,
         NEW more \in SUBSET Completed(rt'),
         call' = [call EXCEPT !.completed = @ \cup more],
         UNCHANGED <<wf, bindings, durableVars>>
  PROVE  IInv'
<1>1. call.stage = "busy" /\ call.files = <<>> /\ turn.id \in DOMAIN rt.dispatches
  BY DEF IInv, CallInv, DispatchInv
<1>2. more \subseteq DispatchIds
  BY DEF GoodStep, GoodRuntime, IsRuntime, Completed, WithStatus
<1>3. /\ call' \in Call
      /\ call'.stage = "busy" /\ call'.files = <<>>
      /\ call'.completed = call.completed \cup more
  BY <1>1, <1>2 DEF IInv, CallInv, Call
<1>4. DiskShape' /\ DiskInv' /\ MemoryInv' /\ SavedInv'
  <2>1. Range(bindings') \subseteq BoundTasks(rt'.dispatches)
    BY <1>1, BoundTasksGrow DEF GoodStep, IInv, MemoryInv
  <2>2. call'.completed \subseteq Completed(rt')
    BY <1>1, <1>3 DEF IInv, MemoryInv
  <2> QED BY <1>1, <1>3, <2>1, <2>2, MemoryMovesAhead
<1>5. CallInv'
  BY <1>3 DEF CallInv
<1>6. DispatchInv'
  <2> DEFINE id == turn.id
             D == rt.dispatches[id]
             E == rt'.dispatches[id]
  <2>1. id \in DOMAIN rt.dispatches /\ id \in DOMAIN rt'.dispatches
    BY <1>1 DEF GoodStep, KeepsBindings
  <2>2. D.status = "queued" <=> E.status = "queued"
    BY <2>1 DEF IInv, GoodStep, GoodRuntime, QueueFaithful, WithStatus
  <2>3. /\ D.task # None => E.task = D.task
        /\ D.task = None => E.task = None
    BY <2>1, <2>2 DEF IInv, GoodStep, GoodRuntime, StartedIsBound, KeepsBindings
  <2> QED BY <2>1, <2>2, <2>3 DEF IInv, DispatchInv
<1>7. TurnInv'
  <2>1. /\ turn'.id \in DOMAIN rt'.dispatches /\ CurrentRole' = CurrentRole
        /\ rt'.dispatches[turn'.id].node = rt.dispatches[turn.id].node
    BY <1>1 DEF GoodStep, KeepsBindings, CurrentRole
  <2>2. CurrentTask' = CurrentTask
    BY <2>1 DEF CurrentTask
  <2>3. ExecutesActiveNode'
    BY <2>1 DEF IInv, TurnInv, ExecutesActiveNode
  <2> QED BY <2>1, <2>2, <2>3 DEF IInv, TurnInv, CorrelatedUnlessBehind, KnowsTask
<1> QED BY <1>4, <1>5, <1>6, <1>7 DEF IInv, GoodStep, durableVars

\* The conversation that is announced takes the front of the queue.
LEMMA AnnounceGood ==
  ASSUME IInv, NEW conversation \in TaskIds, Announce(conversation)
  PROVE  /\ IInv'
         /\ CurrentTask' = conversation
         /\ rt'.taskMap[conversation] \in DOMAIN rt'.dispatches
         /\ rt'.dispatches[rt'.taskMap[conversation]].status = "started"
         /\ Completed(rt) \subseteq Completed(rt')
<1> DEFINE id == Head(rt.pending)
<1>1. /\ call.stage = "busy" /\ call.files = <<>> /\ turn.id \in DOMAIN rt.dispatches
      /\ GoodRuntime(rt) /\ CanStartNext(rt)
  BY DEF Announce, IInv, CallInv, DispatchInv
<1>2. /\ rt' = StartNextDispatch(rt, conversation)
      /\ bindings' = Put(bindings, CurrentRole, conversation)
      /\ turn' = [turn EXCEPT !.opened = TRUE]
      /\ UNCHANGED <<wf, call, durableVars>>
  BY DEF Announce
<1>3. GoodStep(rt, rt')
  BY <1>1, <1>2, StartNextDispatchGood
<1>4. /\ id \in DOMAIN rt.dispatches /\ rt.dispatches[id].status = "queued"
      /\ DOMAIN rt'.dispatches = DOMAIN rt.dispatches
      /\ rt'.dispatches[id].status = "started" /\ rt'.dispatches[id].task = conversation
      /\ \A d \in DOMAIN rt.dispatches \ {id} : rt'.dispatches[d] = rt.dispatches[d]
  BY <1>1, <1>2, StartNextDispatchEffect
<1>5. rt'.taskMap = Put(rt.taskMap, conversation, id)
  BY <1>1, <1>2 DEF GoodRuntime, IsRuntime, StartNextDispatch, StartDispatch, PopPending
<1>6. conversation \in DOMAIN rt'.taskMap /\ rt'.taskMap[conversation] = id
  BY <1>5 DEF Put
<1>7. Completed(rt) \subseteq Completed(rt')
  BY <1>4 DEF Completed, WithStatus
<1>8. CurrentRole \in Roles /\ CurrentRole' = CurrentRole
  <2>1. turn'.id = turn.id
    BY <1>2 DEF IInv, TurnInv, Turn
  <2>2. rt.dispatches[turn.id] \in TaskDispatch
    BY <1>1 DEF GoodRuntime, IsRuntime
  <2> QED BY <1>1, <1>3, <2>1, <2>2 DEF GoodStep, KeepsBindings, CurrentRole, TaskDispatch
<1>9. /\ DOMAIN bindings' = DOMAIN bindings \cup {CurrentRole}
      /\ bindings'[CurrentRole] = conversation
      /\ \A x \in DOMAIN bindings \ {CurrentRole} : bindings'[x] = bindings[x]
  BY <1>2 DEF Put
<1>10. CurrentTask' = conversation
  BY <1>8, <1>9 DEF CurrentTask
<1>11. DiskShape' /\ DiskInv' /\ MemoryInv' /\ SavedInv'
  <2>1. conversation \in BoundTasks(rt'.dispatches)
    BY <1>4, NoneAssumption DEF BoundTasks
  <2>2. BoundTasks(rt.dispatches) \subseteq BoundTasks(rt'.dispatches)
    BY <1>3, BoundTasksGrow DEF GoodStep
  <2>3. Range(bindings) \subseteq BoundTasks(rt.dispatches)
    BY <1>1 DEF IInv, MemoryInv
  <2>4. Range(bindings') \subseteq BoundTasks(rt'.dispatches)
    BY <1>9, <2>1, <2>2, <2>3 DEF Range
  <2>5. call'.completed \subseteq Completed(rt')
    BY <1>1, <1>2, <1>7 DEF IInv, MemoryInv
  <2> QED BY <1>1, <1>2, <1>3, <1>7, <2>4, <2>5, MemoryMovesAhead
<1>12. CallInv'
  BY <1>1, <1>2 DEF IInv, CallInv, TurnInv, Turn
<1>13. DispatchInv' /\ TurnInv'
  <2>1. /\ turn' \in Turn /\ turn'.opened /\ turn'.id = turn.id
        /\ turn'.step = turn.step /\ turn'.behind = turn.behind /\ turn'.chain = turn.chain
    BY <1>2 DEF IInv, TurnInv, Turn
  <2>2. turn.step = "streaming" /\ ~turn.opened
    BY DEF Announce
  <2>3. ~turn.behind => id = turn.id
    BY <2>2 DEF IInv, DispatchInv
  <2>4. CorrelatedUnlessBehind'
    BY <1>6, <1>10, <2>1, <2>3 DEF CorrelatedUnlessBehind, KnowsTask
  <2>5. rt.dispatches[turn.id].status = "queued" /\ rt.dispatches[turn.id].task = None
    BY <1>1, <2>2 DEF IInv, DispatchInv, GoodRuntime, StartedIsBound
  <2>6. DispatchInv'
    BY <1>1, <1>4, <1>6, <2>1, <2>5 DEF DispatchInv
  <2>7. rt'.dispatches[turn.id].node = rt.dispatches[turn.id].node
    BY <1>1, <1>3 DEF GoodStep, KeepsBindings
  <2>8. ExecutesActiveNode'
    BY <1>2, <2>1, <2>7 DEF IInv, TurnInv, ExecutesActiveNode
  <2> QED BY <1>8, <1>9, <2>1, <2>2, <2>4, <2>6, <2>8 DEF TurnInv
<1>14. DOMAIN bindings' \subseteq Roles
  BY <1>8, <1>9 DEF IInv
<1> QED BY <1>2, <1>3, <1>4, <1>6, <1>7, <1>10, <1>11, <1>12, <1>13, <1>14
        DEF IInv, GoodStep, durableVars

----------------------------------------------------------------------------
(* Persisting *)

\* The files go in order, the log last and the state before what goes with it.
LEMMA FilesInOrder ==
  ASSUME NEW files \in FileLists
  PROVE  /\ files # <<>>
         /\ Head(files) \in {"spec", "seed", "binding", "state", "provider", "log"}
         /\ Tail(files) = <<>> <=> Head(files) = "log"
         /\ Tail(files) # <<>> =>
              /\ Tail(files) \in FileLists
              /\ Head(files) \notin {"state", "provider"} =>
                   Head(Tail(files)) \notin {"provider", "log"}
<1>1. CASE files = <<"spec", "seed", "binding", "state", "provider", "log">>
  BY <1>1 DEF FileLists
<1>2. CASE files = <<"seed", "binding", "state", "provider", "log">>
  BY <1>2 DEF FileLists
<1>3. CASE files = <<"binding", "state", "provider", "log">>
  BY <1>3 DEF FileLists
<1>4. CASE files = <<"state", "provider", "log">>
  BY <1>4 DEF FileLists
<1>5. CASE files = <<"provider", "log">>
  BY <1>5 DEF FileLists
<1>6. CASE files = <<"log">>
  <2>1. Tail(files) = <<>> /\ Head(files) = "log"
    BY <1>6
  <2> QED BY <1>6, <2>1
<1> QED BY <1>1, <1>2, <1>3, <1>4, <1>5, <1>6 DEF FileLists

\* Only its own file differs after a write, and it is as written, or no longer reads, or, for
\* the log, has some of what was to be written.
LEMMA WriteEffect ==
  ASSUME DOMAIN disk = {"spec", "state", "provider", "log"},
         NEW file \in {"spec", "seed", "binding", "state", "provider", "log"},
         NEW new, new = WriteFile(disk, file, Memory) \/ new \in BrokenWrite(disk, file, Memory)
  PROVE  /\ DOMAIN new = {"spec", "state", "provider", "log"}
         /\ \/ new.state = disk.state
            \/ new.state.is \in {"seed", "torn"} /\ file \in {"seed", "state"}
            \/ /\ file = "state" /\ new.state.is = "ok"
               /\ new.state.rt = Snapshot(rt) /\ new.state.wf = wf
         /\ \/ new.provider = disk.provider
            \/ new.provider.is = "torn" /\ file \in {"binding", "provider"}
            \/ /\ new.provider.is = "ok"
               /\ \/ file = "binding" /\ new.provider.bindings = <<>>
                  \/ file = "provider" /\ new.provider.bindings = bindings
         /\ \/ new.log = disk.log
            \/ file = "log" /\ new.log.completed \subseteq disk.log.completed \cup call.completed
         /\ file = "state" /\ new = WriteFile(disk, file, Memory) =>
              new.state.is = "ok" /\ new.state.rt = Snapshot(rt)
<1>1. CASE file = "spec"
  BY <1>1 DEF WriteFile, BrokenWrite
<1>2. CASE file = "seed"
  BY <1>2 DEF WriteFile, BrokenWrite, Torn
<1>3. CASE file = "binding"
  BY <1>3 DEF WriteFile, BrokenWrite, Torn
<1>4. CASE file = "state"
  BY <1>4 DEF WriteFile, BrokenWrite, Torn, Memory, Snapshot
<1>5. CASE file = "provider"
  BY <1>5 DEF WriteFile, BrokenWrite, Torn, Memory
<1>6. CASE file = "log"
  BY <1>6 DEF WriteFile, BrokenWrite, Memory
<1> QED BY <1>1, <1>2, <1>3, <1>4, <1>5, <1>6

\* A write, whether or not it is cut short, keeps the files in agreement with each other and
\* behind the object in memory.
LEMMA WriteKeepsFiles ==
  ASSUME IInv, call.stage = "writing", NEW file, file = Head(call.files),
         \/ disk' = WriteFile(disk, file, Memory)
         \/ disk' \in BrokenWrite(disk, file, Memory),
         \/ acked' = acked
         \/ file = "log" /\ acked' = acked \cup call.completed
  PROVE  /\ DiskShape' /\ DiskInv'
         /\ disk'.provider.is = "ok" =>
              Range(disk'.provider.bindings) \subseteq BoundTasks(rt.dispatches)
         /\ acked' \cup disk'.log.completed \subseteq Completed(rt)
         /\ \/ file \in {"provider", "log"}
            \/ file = "state" /\ disk' = WriteFile(disk, file, Memory)
            => disk'.state.is = "ok" /\ disk'.state.rt.dispatches = rt.dispatches
<1>1. /\ file \in {"spec", "seed", "binding", "state", "provider", "log"}
      /\ DOMAIN disk = {"spec", "state", "provider", "log"}
      /\ GoodRuntime(rt)
  BY FilesInOrder DEF IInv, CallInv, DiskShape
<1>2. Snapshot(rt).dispatches = rt.dispatches
  BY <1>1 DEF GoodRuntime, IsRuntime, Snapshot
<1>3. /\ Range(bindings) \subseteq BoundTasks(rt.dispatches)
      /\ disk.provider.is = "ok" =>
           Range(disk.provider.bindings) \subseteq BoundTasks(rt.dispatches)
      /\ call.completed \cup acked \cup disk.log.completed \subseteq Completed(rt)
  BY DEF IInv, MemoryInv
<1>4. /\ DOMAIN disk' = {"spec", "state", "provider", "log"}
      /\ \/ disk'.state = disk.state
         \/ disk'.state.is \in {"seed", "torn"} /\ file \in {"seed", "state"}
         \/ /\ file = "state" /\ disk'.state.is = "ok"
            /\ disk'.state.rt = Snapshot(rt) /\ disk'.state.wf = wf
      /\ \/ disk'.provider = disk.provider
         \/ disk'.provider.is = "torn" /\ file \in {"binding", "provider"}
         \/ /\ disk'.provider.is = "ok"
            /\ \/ file = "binding" /\ disk'.provider.bindings = <<>>
               \/ file = "provider" /\ disk'.provider.bindings = bindings
      /\ \/ disk'.log = disk.log
         \/ file = "log" /\ disk'.log.completed \subseteq disk.log.completed \cup call.completed
      /\ file = "state" /\ disk' = WriteFile(disk, file, Memory) =>
           disk'.state.is = "ok" /\ disk'.state.rt = Snapshot(rt)
  BY <1>1, WriteEffect
<1>5. file \in {"provider", "log"} =>
        disk'.state = disk.state /\ disk.state.is = "ok" /\ disk.state.rt.dispatches = rt.dispatches
  BY <1>4 DEF IInv, SavedInv
<1>6. /\ disk'.provider.is = "ok" =>
           /\ Range(disk'.provider.bindings) \subseteq BoundTasks(rt.dispatches)
           /\ DOMAIN disk'.provider.bindings \subseteq Roles
  <2>1. Range(<<>>) = {} /\ DOMAIN <<>> = {}
    BY DEF Range
  <2>2. DOMAIN bindings \subseteq Roles
    BY DEF IInv
  <2>3. disk.provider.is = "ok" => DOMAIN disk.provider.bindings \subseteq Roles
    BY DEF IInv, DiskShape
  <2> QED BY <1>3, <1>4, <2>1, <2>2, <2>3
<1>7. acked' \cup disk'.log.completed \subseteq Completed(rt)
  BY <1>3, <1>4
<1>8. DiskShape'
  <2>1. disk'.state.is = "ok" =>
          /\ \E r : GoodRuntime(r) /\ disk'.state.rt = Snapshot(r)
          /\ disk'.state.wf \in WorkflowState
    BY <1>1, <1>4 DEF IInv, DiskShape
  <2>2. disk'.state.is = "missing" => acked' = {}
    BY <1>4, <1>5 DEF IInv, DiskShape
  <2> QED BY <1>4, <1>6, <2>1, <2>2 DEF DiskShape
<1>9. DiskInv'
  <2>1. CASE disk'.state = disk.state /\ file \in {"provider", "log"}
    BY <1>5, <1>6, <1>7, <2>1
       DEF DiskInv, ThreadsHaveDispatches, LogNeverAhead, AckedOnDisk, Completed
  <2>2. CASE disk'.state = disk.state /\ file \notin {"provider", "log"}
    <3>1. /\ acked' = acked /\ disk'.log = disk.log
          /\ \/ disk'.provider = disk.provider
             \/ disk'.provider.is = "torn"
             \/ disk'.provider.bindings = <<>>
      BY <1>4, <2>2
    <3>2. Range(<<>>) = {}
      BY DEF Range
    <3> QED BY <2>2, <3>1, <3>2
            DEF IInv, DiskInv, ThreadsHaveDispatches, LogNeverAhead, AckedOnDisk
  <2>3. CASE disk'.state.is = "ok" /\ disk'.state.rt = Snapshot(rt)
    BY <1>2, <1>6, <1>7, <2>3
       DEF DiskInv, ThreadsHaveDispatches, LogNeverAhead, AckedOnDisk, Completed
  <2>4. CASE disk'.state.is \in {"seed", "torn"}
    BY <2>4 DEF DiskInv, ThreadsHaveDispatches, LogNeverAhead, AckedOnDisk
  <2> QED BY <1>4, <2>1, <2>2, <2>3, <2>4
<1> QED BY <1>2, <1>4, <1>5, <1>6, <1>7, <1>8, <1>9

\* A write, or the error that ends a persist.
LEMMA PersistGood ==
  ASSUME IInv, Persist
  PROVE  IInv' /\ UNCHANGED <<rt, turn>>
<1> DEFINE file == Head(call.files)
<1>1. /\ call.stage = "writing" /\ call.files \in FileLists /\ call \in Call
      /\ UNCHANGED <<rt, wf, bindings, turn>>
  BY DEF Persist, Write, WriteError, IInv, CallInv
<1>2. turn.step = "none" /\ ~turn.opened
  BY <1>1 DEF IInv, CallInv, TurnInv
<1>3. /\ call.files # <<>>
      /\ file \in {"spec", "seed", "binding", "state", "provider", "log"}
      /\ Tail(call.files) = <<>> <=> file = "log"
      /\ Tail(call.files) # <<>> =>
           /\ Tail(call.files) \in FileLists
           /\ file \notin {"state", "provider"} =>
                Head(Tail(call.files)) \notin {"provider", "log"}
  BY <1>1, FilesInOrder
<1>4. /\ \/ disk' = WriteFile(disk, file, Memory)
         \/ disk' \in BrokenWrite(disk, file, Memory)
      /\ \/ acked' = acked
         \/ file = "log" /\ acked' = acked \cup call.completed
  BY <1>3 DEF Persist, Write, WriteError
<1>5. /\ DiskShape' /\ DiskInv'
      /\ disk'.provider.is = "ok" =>
           Range(disk'.provider.bindings) \subseteq BoundTasks(rt.dispatches)
      /\ acked' \cup disk'.log.completed \subseteq Completed(rt)
      /\ \/ file \in {"provider", "log"}
         \/ file = "state" /\ disk' = WriteFile(disk, file, Memory)
         => disk'.state.is = "ok" /\ disk'.state.rt.dispatches = rt.dispatches
  BY <1>1, <1>4, WriteKeepsFiles
<1>6. \/ /\ call'.stage = "writing" /\ call'.files \in FileLists
         /\ call'.completed = call.completed /\ call' \in Call
         /\ Head(call'.files) \in {"provider", "log"} =>
              \/ file \in {"provider", "log"}
              \/ file = "state" /\ disk' = WriteFile(disk, file, Memory)
      \/ call' = Resting("idle")
  <2>1. CASE Write /\ Tail(call.files) # <<>>
    <3>1. call' = [call EXCEPT !.files = Tail(@)] /\ disk' = WriteFile(disk, file, Memory)
      BY <2>1 DEF Write
    <3>2. /\ call'.stage = "writing" /\ call'.completed = call.completed
          /\ call'.files = Tail(call.files)
      BY <1>1, <3>1 DEF Call
    <3>3. call' \in Call
      <4>1. Tail(call.files) \in Seq({"spec", "seed", "binding", "state", "provider", "log"})
        BY <1>1, <1>3 DEF Call
      <4> QED BY <1>1, <3>1, <4>1 DEF Call
    <3> QED BY <1>3, <2>1, <3>1, <3>2, <3>3
  <2>2. CASE Write /\ Tail(call.files) = <<>>
    BY <2>2 DEF Write
  <2>3. CASE WriteError
    <3>1. CASE call' = Resting("idle")
      BY <3>1
    <3>2. CASE call' = [call EXCEPT !.files = PersistFiles]
      <4>1. /\ PersistFiles \in FileLists /\ Head(PersistFiles) = "state"
            /\ PersistFiles \in Seq({"spec", "seed", "binding", "state", "provider", "log"})
        BY DEF FileLists, PersistFiles
      <4>2. /\ call'.stage = "writing" /\ call'.completed = call.completed
            /\ call'.files = PersistFiles /\ call' \in Call
        BY <1>1, <3>2, <4>1 DEF Call
      <4> QED BY <4>1, <4>2
    <3> QED BY <2>3, <3>1, <3>2 DEF WriteError
  <2> QED BY <2>1, <2>2, <2>3 DEF Persist
<1>7. /\ call'.stage \in {"writing", "idle"} /\ call'.completed \subseteq call.completed
      /\ call' \in Call
  <2>1. Resting("idle") \in Call /\ Resting("idle").stage = "idle"
        /\ Resting("idle").completed = {}
    BY DEF Resting, Call
  <2> QED BY <1>6, <2>1
<1>8. MemoryInv'
  BY <1>1, <1>5, <1>7 DEF IInv, MemoryInv, Completed
<1>9. SavedInv'
  BY <1>1, <1>5, <1>6 DEF SavedInv, Resting
<1>10. CallInv'
  BY <1>1, <1>2, <1>6, <1>7 DEF CallInv, Resting
<1>11. DispatchInv' /\ TurnInv'
  BY <1>1, <1>2 DEF IInv, DispatchInv, TurnInv, CorrelatedUnlessBehind, ExecutesActiveNode
<1>12. acked' \subseteq DispatchIds
  BY <1>1, <1>4 DEF IInv, Call
<1>13. faults' \in 0..MaxFaults
  BY MaxFaultsAssumption DEF IInv, Persist, Write, WriteError
<1> QED BY <1>1, <1>5, <1>8, <1>9, <1>10, <1>11, <1>12, <1>13 DEF IInv

----------------------------------------------------------------------------
(* The life of the workspace object *)

\* Two lists of three are a list of six.
LEMMA ThreeAndThree ==
  ASSUME NEW S, NEW a \in S, NEW b \in S, NEW c \in S, NEW d \in S, NEW e \in S, NEW f \in S
  PROVE  <<a, b, c>> \o <<d, e, f>> = <<a, b, c, d, e, f>>
<1> DEFINE q == <<a, b, c>> \o <<d, e, f>>
           l == <<a, b, c, d, e, f>>
<1>1. Len(q) = 6 /\ q \in Seq(S) /\ Len(l) = 6 /\ l \in Seq(S)
  OBVIOUS
<1>2. q[1] = a /\ q[2] = b /\ q[3] = c /\ q[4] = d /\ q[5] = e /\ q[6] = f
  OBVIOUS
<1>3. l[1] = a /\ l[2] = b /\ l[3] = c /\ l[4] = d /\ l[5] = e /\ l[6] = f
  OBVIOUS
<1> HIDE DEF q, l
<1>4. \A i \in 1..6 : q[i] = l[i]
  BY <1>2, <1>3
<1>5. q = l
  BY <1>1, <1>4
<1> QED BY <1>5 DEF q, l

\* Where there is no object, nothing is in memory, and only the files matter.
LEMMA GoneGood ==
  ASSUME Forget, turn' = NoTurn, DiskShape', DiskInv',
         acked' \subseteq DispatchIds, faults' \in 0..MaxFaults
  PROVE  IInv'
<1>1. GoodRuntime(rt')
  BY NewRuntimeGood DEF Forget
<1>2. wf' \in WorkflowState
  BY DEF Forget, NewWorkflow, WorkflowState, WorkspaceMode, Maybe
<1>3. DOMAIN bindings' \subseteq Roles
  BY DEF Forget
<1>4. CallInv'
  BY DEF Forget, CallInv, Call, Resting, NoTurn
<1>5. MemoryInv' /\ SavedInv'
  BY DEF Forget, MemoryInv, SavedInv, Resting
<1>6. DispatchInv' /\ TurnInv'
  BY NoTurnGood
<1> QED BY <1>1, <1>2, <1>3, <1>4, <1>5, <1>6 DEF IInv

\* Create, restore, close, delete and crash.
LEMMA LifeGood ==
  ASSUME IInv, Life
  PROVE  /\ IInv' /\ turn' = NoTurn
         /\ call.stage = "down" \/ call'.stage = "down"
<1> USE DEF Life
<1>1. CASE Create
  <2>1. /\ call.stage = "down" /\ disk = NoDisk
        /\ call' = [ToPersist({}) EXCEPT !.files = InitFiles(disk) \o @]
        /\ UNCHANGED <<rt, wf, bindings, durableVars>>
    BY <1>1 DEF Create
  <2>2. InitFiles(disk) \o PersistFiles = <<"spec", "seed", "binding", "state", "provider", "log">>
    <3>1. disk.spec = Missing
      BY <2>1 DEF NoDisk
    <3>2. InitFiles(disk) = <<"spec", "seed", "binding">>
      BY <3>1 DEF InitFiles
    <3> DEFINE S == {"spec", "seed", "binding", "state", "provider", "log"}
    <3>3. "spec" \in S /\ "seed" \in S /\ "binding" \in S
      OBVIOUS
    <3>4. "state" \in S /\ "provider" \in S /\ "log" \in S
      OBVIOUS
    <3> HIDE DEF S
    <3>5. <<"spec", "seed", "binding">> \o <<"state", "provider", "log">>
            = <<"spec", "seed", "binding", "state", "provider", "log">>
      BY <3>3, <3>4, ThreeAndThree
    <3> QED BY <3>2, <3>5 DEF PersistFiles
  <2>3. /\ call'.stage = "writing" /\ call'.completed = {} /\ call' \in Call
        /\ call'.files = <<"spec", "seed", "binding", "state", "provider", "log">>
    <3>1. call' = [stage |-> "writing", completed |-> {},
                   files |-> <<"spec", "seed", "binding", "state", "provider", "log">>]
      BY <2>1, <2>2 DEF ToPersist
    <3> QED BY <3>1 DEF Call
  <2>4. rt = NewRuntime /\ bindings = <<>> /\ turn.step = "none" /\ ~turn.opened
    BY <2>1 DEF IInv, CallInv, TurnInv
  <2>5. CallInv'
    BY <2>3 DEF CallInv, FileLists, NoTurn
  <2>6. MemoryInv'
    <3>1. disk.provider.is # "ok" /\ disk.log.completed = {} /\ disk.state.is = "missing"
      BY <2>1 DEF NoDisk, Missing
    <3>2. acked = {}
      BY <3>1 DEF IInv, DiskShape
    <3>3. Range(bindings) = {}
      BY <2>4 DEF Range
    <3> QED BY <2>1, <2>3, <3>1, <3>2, <3>3 DEF MemoryInv, durableVars
  <2>7. SavedInv'
    BY <2>3 DEF SavedInv
  <2>8. DispatchInv' /\ TurnInv'
    BY NoTurnGood
  <2>9. DiskShape' /\ DiskInv'
    BY <2>1 DEF IInv, DiskShape, DiskInv, ThreadsHaveDispatches, LogNeverAhead, AckedOnDisk,
                durableVars
  <2> QED BY <2>1, <2>5, <2>6, <2>7, <2>8, <2>9 DEF IInv, durableVars
<1>2. CASE Restore
  <2>1. /\ call.stage = "down" /\ CanRestore(disk)
        /\ rt' \in RestoreSnapshot(disk.state.rt)
        /\ wf' = disk.state.wf /\ bindings' = disk.provider.bindings
        /\ call' = ToPersist({}) /\ UNCHANGED durableVars
    BY <1>2 DEF Restore, Load
  <2>2. disk.state.is = "ok" /\ disk.provider.is = "ok"
    BY <2>1 DEF CanRestore
  <2>3. PICK r : GoodRuntime(r) /\ disk.state.rt = Snapshot(r)
    BY <2>2 DEF IInv, DiskShape
  <2>4. GoodRuntime(rt') /\ rt'.dispatches = disk.state.rt.dispatches
    <3> DEFINE saved == disk.state.rt
    <3>1. /\ DOMAIN saved = DOMAIN r /\ saved.dispatches = r.dispatches
          /\ saved.members = r.members /\ saved.clock = r.clock
      BY <2>3 DEF Snapshot, GoodRuntime, IsRuntime
    <3> HIDE DEF saved
    <3>2. rt' \in RestoreSnapshot(saved)
      BY <2>1 DEF saved
    <3> QED BY <2>3, <3>1, <3>2, RestoreSavedGood DEF GoodStep, saved
  <2>5. /\ call'.stage = "writing" /\ call'.completed = {} /\ call' \in Call
        /\ call'.files = <<"state", "provider", "log">>
    BY <2>1 DEF ToPersist, PersistFiles, Call
  <2>6. CallInv'
    BY <2>5 DEF CallInv, FileLists, NoTurn
  <2>7. MemoryInv'
    BY <2>1, <2>2, <2>4, <2>5
       DEF IInv, DiskInv, ThreadsHaveDispatches, LogNeverAhead, AckedOnDisk, MemoryInv, Completed,
           durableVars
  <2>8. SavedInv'
    BY <2>5 DEF SavedInv
  <2>9. DispatchInv' /\ TurnInv'
    BY NoTurnGood
  <2>10. DiskShape' /\ DiskInv'
    BY <2>1 DEF IInv, DiskShape, DiskInv, ThreadsHaveDispatches, LogNeverAhead, AckedOnDisk,
                durableVars
  <2>11. wf' \in WorkflowState /\ DOMAIN bindings' \subseteq Roles
    BY <2>1, <2>2 DEF IInv, DiskShape
  <2> QED BY <2>1, <2>4, <2>6, <2>7, <2>8, <2>9, <2>10, <2>11 DEF IInv, durableVars
<1>3. CASE Close
  <2>1. DiskShape' /\ DiskInv' /\ UNCHANGED durableVars
    BY <1>3 DEF Close, IInv, DiskShape, DiskInv, ThreadsHaveDispatches, LogNeverAhead,
                AckedOnDisk, durableVars
  <2>2. Forget /\ call'.stage = "down"
    BY <1>3 DEF Close, Forget, Resting
  <2> QED BY <2>1, <2>2, GoneGood DEF IInv, durableVars
<1>4. CASE Delete
  <2>1. disk' = NoDisk /\ acked' = {} /\ UNCHANGED faults
    BY <1>4 DEF Delete
  <2>2. DiskShape' /\ DiskInv'
    BY <2>1 DEF DiskShape, DiskInv, ThreadsHaveDispatches, LogNeverAhead, AckedOnDisk, NoDisk,
                Missing
  <2>3. Forget /\ call'.stage = "down"
    BY <1>4 DEF Delete, Forget, Resting
  <2> QED BY <2>1, <2>2, <2>3, GoneGood DEF IInv
<1>5. CASE Crash
  <2>1. /\ Forget /\ call'.stage = "down" /\ acked' = acked /\ faults' \in 0..MaxFaults
    BY <1>5, MaxFaultsAssumption DEF Crash, Forget, Resting, IInv
  <2>2. CASE call.files = <<>>
    <3>1. DiskShape' /\ DiskInv'
      BY <1>5, <2>1, <2>2 DEF Crash, IInv, DiskShape, DiskInv, ThreadsHaveDispatches,
                              LogNeverAhead, AckedOnDisk
    <3> QED BY <2>1, <3>1, GoneGood DEF IInv
  <2>3. CASE call.files # <<>>
    <3>1. call.stage = "writing" /\ disk' \in BrokenWrite(disk, Head(call.files), Memory)
      BY <1>5, <2>3 DEF Crash, IInv, CallInv
    <3>2. DiskShape' /\ DiskInv'
      BY <2>1, <3>1, WriteKeepsFiles
    <3> QED BY <2>1, <3>2, GoneGood DEF IInv
  <2> QED BY <2>2, <2>3
<1> QED BY <1>1, <1>2, <1>3, <1>4, <1>5

----------------------------------------------------------------------------
(* The workflow *)

\* A set of naturals has a least element.
LEMMA LeastExists ==
  ASSUME NEW S \in SUBSET Nat, S # {}
  PROVE  \E i \in S : \A j \in S : i <= j
<1>1. PICK x \in S : \A y \in S : ~(<<y, x>> \in OpToRel(<, Nat))
  BY WFMin, NatLessThanWellFounded
<1>2. \A y \in S : ~(y < x)
  BY <1>1 DEF OpToRel
<1> QED BY <1>2

\* The next node is a node that an edge leads to, or none.
LEMMA NextNodeTyped ==
  ASSUME NEW node, NEW condition
  PROVE  /\ NextNode(node, condition) \in Maybe(Nodes)
         /\ NextNode(node, condition) # None =>
              \E i \in DOMAIN Edges :
                Edges[i].from = node /\ Edges[i].to = NextNode(node, condition)
<1> DEFINE exact == EdgesFrom(node, condition)
           edges == IF exact # {} THEN exact ELSE EdgesFrom(node, "always")
           first == CHOOSE i \in edges : \A j \in edges : i <= j
<1>1. edges \subseteq DOMAIN Edges /\ \A i \in edges : Edges[i].from = node
  BY DEF EdgesFrom
<1>2. NextNode(node, condition) = IF edges = {} THEN None ELSE Edges[first].to
  BY DEF NextNode
<1> HIDE DEF edges
<1>3. CASE edges = {}
  BY <1>2, <1>3 DEF Maybe
<1>4. CASE edges # {}
  <2> DEFINE EdgeRecord == [from: Nodes, when: EdgeCondition, to: Nodes]
  <2>a. Edges \in Seq(EdgeRecord)
    BY EdgesAssumption
  <2>b. \A e \in EdgeRecord : e.to \in Nodes
    OBVIOUS
  <2> HIDE DEF EdgeRecord
  <2>1. DOMAIN Edges \subseteq Nat /\ \A i \in DOMAIN Edges : Edges[i].to \in Nodes
    BY <2>a, <2>b
  <2>2. \E i \in edges : \A j \in edges : i <= j
    BY <1>1, <1>4, <2>1, LeastExists
  <2>3. first \in edges
    BY <2>2
  <2> QED BY <1>1, <1>2, <1>4, <2>1, <2>3 DEF Maybe
<1> QED BY <1>3, <1>4

\* The vote, the start, the end and the moves of a workflow keep its state well formed, and
\* every request it makes is one a role can take.
LEMMA WorkflowTyped ==
  ASSUME NEW w \in WorkflowState
  PROVE  /\ OpenVote(w) \in WorkflowState
         /\ \A ok \in BOOLEAN : CloseVote(w, ok) \in WorkflowState
         /\ \A n \in Nodes : StartWorkflow(w, n) \in WorkflowState
         /\ EndWorkflow(w) \in WorkflowState
         /\ \A n \in Maybe(Nodes) : /\ MoveWorkflow(w, n) \in WorkflowState
                                   /\ Followups(w, n) \subseteq RoleTaskRequest
<1>1. OpenVote(w) \in WorkflowState
  BY DEF OpenVote, WorkflowState, WorkspaceMode
<1>2. \A ok \in BOOLEAN : CloseVote(w, ok) \in WorkflowState
  BY DEF CloseVote, WorkflowState, WorkspaceMode
<1>3. \A n \in Nodes : StartWorkflow(w, n) \in WorkflowState
  BY DEF StartWorkflow, WorkflowState, WorkspaceMode, Maybe
<1>4. EndWorkflow(w) \in WorkflowState
  BY DEF EndWorkflow, WorkflowState, WorkspaceMode, Maybe
<1>5. \A n \in Maybe(Nodes) : MoveWorkflow(w, n) \in WorkflowState
  BY DEF MoveWorkflow, WorkflowState, Maybe
<1>6. \A n \in Maybe(Nodes) : Followups(w, n) \subseteq RoleTaskRequest
  BY NodeRoleAssumption DEF Followups, RoleTaskRequest, Maybe
<1> QED BY <1>1, <1>2, <1>3, <1>4, <1>5, <1>6

\* So does advancing after a dispatch.
LEMMA AdvancedTyped ==
  ASSUME NEW w \in WorkflowState, NEW d, NEW a \in Advanced(w, d)
  PROVE  a.wf \in WorkflowState /\ a.followups \subseteq RoleTaskRequest
<1>1. CASE a = [wf |-> w, followups |-> {}]
  BY <1>1
<1>2. CASE a = [wf |-> EndWorkflow(w), followups |-> {}]
  BY <1>2, WorkflowTyped
<1>3. CASE \E condition \in EdgeConditions(d.node, d.status) :
             a = [wf |-> MoveWorkflow(w, NextNode(d.node, condition)),
                  followups |-> Followups(w, NextNode(d.node, condition))]
  BY <1>3, NextNodeTyped, WorkflowTyped
<1> QED BY <1>1, <1>2, <1>3 DEF Advanced

\* A followup is asked for at the node that a running workflow has just moved to.
LEMMA FollowupsAtNode ==
  ASSUME NEW w \in WorkflowState, NEW d, NEW a \in Advanced(w, d), NEW request \in a.followups
  PROVE  a.wf.mode = "workflow_running" /\ a.wf.node = request.node
<1>1. PICK condition \in EdgeConditions(d.node, d.status) :
        a = [wf |-> MoveWorkflow(w, NextNode(d.node, condition)),
             followups |-> Followups(w, NextNode(d.node, condition))]
  BY DEF Advanced
<1>2. w.mode = "workflow_running"
  <2>1. CASE Advances(w, d.node)
    BY <2>1 DEF Advances
  <2>2. CASE ~Advances(w, d.node)
    BY <2>2 DEF Advanced
  <2> QED BY <2>1, <2>2
<1> DEFINE next == NextNode(d.node, condition)
<1> HIDE DEF next
<1>3. a.wf = MoveWorkflow(w, next) /\ a.followups = Followups(w, next)
  BY <1>1 DEF next
<1>4. next # None /\ request.node = next
  BY <1>3 DEF Followups
<1> QED BY <1>2, <1>3, <1>4 DEF MoveWorkflow, WorkflowState

----------------------------------------------------------------------------
(* The provider turn and the chain *)

\* What the process reports keeps the invariant, and its dispatch runs.
LEMMA ProgressGood ==
  ASSUME IInv, Progress, rt.dispatches[rt.taskMap[CurrentTask]].status # "completed"
  PROVE  /\ IInv'
         /\ Completed(rt) \subseteq Completed(rt')
         /\ CurrentTask' = CurrentTask /\ rt'.taskMap = rt.taskMap
         /\ rt'.dispatches[rt.taskMap[CurrentTask]].status = "running"
<1> DEFINE t == CurrentTask
           d == rt.taskMap[t]
<1>1. /\ turn.step = "streaming" /\ turn.opened /\ KnowsTask(rt, t)
      /\ rt' = ProgressDispatch(rt, t)
      /\ UNCHANGED <<wf, bindings, call, turn, durableVars>>
  BY DEF Progress
<1>2. GoodRuntime(rt) /\ turn.id \in DOMAIN rt.dispatches /\ call \in Call
  BY <1>1 DEF IInv, DispatchInv, CallInv
<1> HIDE DEF t, d
<1>3. GoodStep(rt, rt')
  BY <1>1, <1>2, ProgressDispatchGood
<1>4. /\ d \in DOMAIN rt.dispatches
      /\ DOMAIN rt'.dispatches = DOMAIN rt.dispatches
      /\ rt'.dispatches[d].status = "running"
      /\ \A e \in DOMAIN rt.dispatches \ {d} : rt'.dispatches[e] = rt.dispatches[e]
  BY <1>1, <1>2, ReportEffect DEF d
<1>5. rt'.pending = rt.pending /\ rt'.taskMap = rt.taskMap
  BY <1>1, <1>2 DEF ProgressDispatch, GoodRuntime, IsRuntime
<1>6. rt.dispatches[d].status # "completed"
  BY DEF t, d
<1>7. Completed(rt) \subseteq Completed(rt')
  BY <1>4, <1>6 DEF Completed, WithStatus
<1>8. call' = [call EXCEPT !.completed = @ \cup {}]
  BY <1>1, <1>2 DEF Call
<1>9. IInv'
  <2>1. {} \in SUBSET Completed(rt')
    OBVIOUS
  <2>2. /\ turn' \in Turn /\ turn'.step # "none" /\ turn'.step # "launching"
        /\ turn'.id = turn.id /\ turn'.behind = turn.behind /\ turn'.opened = turn.opened
        /\ turn'.chain = turn.chain /\ (turn'.done => turn'.opened)
    BY <1>1 DEF IInv, TurnInv
  <2> QED BY <1>1, <1>3, <1>5, <1>7, <1>8, <2>1, <2>2, TurnGoesOn
<1>10. CurrentTask' = CurrentTask
  BY <1>1, <1>2, <1>3 DEF CurrentTask, CurrentRole, GoodStep, KeepsBindings
<1> QED BY <1>4, <1>5, <1>7, <1>9, <1>10 DEF t, d

\* A step of the turn that changes nothing but the turn itself
LEMMA OnlyTurnGood ==
  ASSUME IInv, turn.step # "none", UNCHANGED workspaceVars,
         turn' \in Turn, turn'.step \notin {"none", "launching"},
         turn'.id = turn.id, turn'.behind = turn.behind, turn'.opened = turn.opened,
         turn'.chain = turn.chain, turn'.done => turn'.opened
  PROVE  IInv'
<1>1. GoodRuntime(rt) /\ GoodRuntime(rt') /\ UNCHANGED rt /\ call \in Call
  BY DEF IInv, CallInv, workspaceVars
<1>2. GoodStep(rt, rt')
  BY <1>1, GoodStepsCompose
<1>3. call' = [call EXCEPT !.completed = @ \cup {}]
  BY <1>1 DEF Call, workspaceVars
<1>4. {} \in SUBSET Completed(rt')
  OBVIOUS
<1>5. Completed(rt) \subseteq Completed(rt')
  BY <1>1
<1>6. rt'.pending = rt.pending /\ rt'.taskMap = rt.taskMap
  BY <1>1
<1> QED BY <1>2, <1>3, <1>4, <1>5, <1>6, TurnGoesOn DEF workspaceVars, durableVars

\* The completion that the stream reports keeps the invariant; its dispatch is completed, has
\* its result where one is attached, and is among those that the call reports.
LEMMA CompletionGood ==
  ASSUME IInv, turn.step # "none", KnowsTask(rt, CurrentTask),
         NEW ended, ended = CompleteDispatch(rt, CurrentTask, "completed"),
         rt' \in {ended, AttachResultText(ended, CurrentTask)},
         call' = [call EXCEPT !.completed = @ \cup {rt.taskMap[CurrentTask]}],
         turn' \in Turn, turn'.step \notin {"none", "launching"}, turn'.id = turn.id,
         turn'.behind = turn.behind, turn'.opened = turn.opened,
         turn'.chain = turn.chain, turn'.done => turn'.opened,
         UNCHANGED <<wf, bindings, durableVars>>
  PROVE  /\ IInv'
         /\ Completed(rt) \subseteq Completed(rt')
         /\ rt.taskMap[CurrentTask] \in DOMAIN rt'.dispatches
         /\ rt'.dispatches[rt.taskMap[CurrentTask]].status = "completed"
         /\ rt' = AttachResultText(ended, CurrentTask) =>
              rt'.dispatches[rt.taskMap[CurrentTask]].result
         /\ rt.taskMap[CurrentTask] \in call'.completed
<1> DEFINE t == CurrentTask
           d == rt.taskMap[t]
<1> HIDE DEF t, d
<1>1. GoodRuntime(rt) /\ KnowsTask(rt, t) /\ call \in Call
  BY DEF IInv, CallInv, t
<1>2. ended = CompleteDispatch(rt, t, "completed") /\ rt' \in {ended, AttachResultText(ended, t)}
  BY DEF t
<1>3. /\ GoodStep(rt, ended)
      /\ DOMAIN ended = DOMAIN rt
      /\ ended.pending = rt.pending /\ ended.taskMap = rt.taskMap
  <2>1. GoodStep(rt, ended)
    <3>1. "completed" \in DispatchStatus \ {"queued"}
      BY DEF DispatchStatus, Terminal
    <3>2. GoodStep(rt, CompleteDispatch(rt, t, "completed"))
      BY <1>1, <3>1, CompleteDispatchGood
    <3> QED BY <1>2, <3>2
  <2> QED BY <1>1, <1>2, <2>1 DEF CompleteDispatch, GoodRuntime, IsRuntime
<1>4. /\ d \in DOMAIN rt.dispatches
      /\ DOMAIN ended.dispatches = DOMAIN rt.dispatches
      /\ ended.dispatches[d].status = "completed"
      /\ \A e \in DOMAIN rt.dispatches \ {d} : ended.dispatches[e] = rt.dispatches[e]
  BY <1>1, <1>2, ReportEffect DEF d
<1>5. /\ GoodStep(rt, rt')
      /\ rt'.pending = rt.pending /\ rt'.taskMap = rt.taskMap
      /\ DOMAIN rt'.dispatches = DOMAIN rt.dispatches
      /\ \A e \in DOMAIN rt.dispatches : rt'.dispatches[e].status = ended.dispatches[e].status
      /\ rt' = AttachResultText(ended, t) => rt'.dispatches[d].result
  <2>1. GoodRuntime(ended) /\ KnowsTask(ended, t) /\ d = ended.taskMap[t]
    BY <1>1, <1>3 DEF GoodStep, KnowsTask, d
  <2>2. CASE rt' = ended /\ rt' # AttachResultText(ended, t)
    BY <1>3, <1>4, <2>2
  <2>3. CASE rt' = AttachResultText(ended, t)
    <3>1. GoodStep(ended, rt')
      BY <2>1, <2>3, AttachResultTextGood
    <3>2. GoodStep(rt, rt')
      BY <1>1, <1>3, <3>1, GoodStepsCompose
    <3>3. /\ DOMAIN rt'.dispatches = DOMAIN ended.dispatches
          /\ \A e \in DOMAIN ended.dispatches :
               rt'.dispatches[e].status = ended.dispatches[e].status
      BY <2>1, <2>3, OtherEffect
    <3>4. rt'.pending = ended.pending /\ rt'.taskMap = ended.taskMap
      BY <2>1, <2>3 DEF AttachResultText, GoodRuntime, IsRuntime
    <3>5. rt'.dispatches[d].result
      <4>1. ended.dispatches[d] \in TaskDispatch /\ d \in DOMAIN ended.dispatches
        BY <1>4, <2>1 DEF GoodRuntime, IsRuntime
      <4> QED BY <2>1, <2>3, <4>1 DEF AttachResultText, GoodRuntime, IsRuntime, TaskDispatch
    <3> QED BY <1>3, <1>4, <3>2, <3>3, <3>4, <3>5
  <2> QED BY <1>2, <2>2, <2>3
<1>6. Completed(rt) \subseteq Completed(rt') /\ d \in Completed(rt')
  BY <1>4, <1>5 DEF Completed, WithStatus
<1>7. call' = [call EXCEPT !.completed = @ \cup {d}] /\ d \in call'.completed
  <2>1. call' = [call EXCEPT !.completed = @ \cup {d}]
    BY DEF d, t
  <2> QED BY <1>1, <2>1 DEF Call
<1>8. {d} \in SUBSET Completed(rt')
  BY <1>6
<1>9. IInv'
  BY <1>5, <1>6, <1>7, <1>8, TurnGoesOn
<1> QED BY <1>4, <1>5, <1>6, <1>7, <1>9 DEF d, t

\* An action of a call undoes no completion, and afterwards the stream has been opened only if
\* it was and the process has just exited.
CallMoves ==
  /\ Completed(rt) \subseteq Completed(rt')
  /\ turn'.opened =>
       /\ UNCHANGED workspaceVars
       /\ turn.step = "streaming" /\ turn'.step = "draining"
       /\ turn.opened /\ turn'.id = turn.id
       /\ turn'.done = turn.done /\ turn'.behind = turn.behind

\* A call that starts queues and claims its first dispatch, or has its workflow rejected.
LEMMA StartGood ==
  ASSUME IInv, RunRoleTask \/ Delegate \/ ProposeApproved \/ ProposeRejected
  PROVE  IInv' /\ CallMoves
<1>1. /\ GoodRuntime(rt) /\ wf \in WorkflowState
      /\ GoodStep(rt, rt)
      /\ GoodStep(rt, AllAnswered(rt)) /\ AllAnswered(rt).dispatches = rt.dispatches
  BY GoodStepsCompose, AllAnsweredGood DEF IInv
<1>2. /\ Unchained.chain \in BOOLEAN /\ Unchained.budget \in 0..MaxWorkflowFollowups
      /\ Chained.chain \in BOOLEAN /\ Chained.budget \in 0..MaxWorkflowFollowups
  BY FollowupsAssumption DEF Unchained, Chained, NoTurn
<1>3. CASE RunRoleTask
  <2>1. PICK request \in CallerRequests :
          /\ call.stage = "idle" /\ BeginAssignment(rt, Unchained, request)
          /\ UNCHANGED <<wf, bindings, durableVars>>
    BY <1>3 DEF RunRoleTask
  <2>2. request \in RoleTaskRequest /\ ~Unchained.chain
    BY CallersAssumption DEF Unchained, NoTurn
  <2> QED BY <1>1, <1>2, <2>1, <2>2, BeginAssignmentGood DEF CallMoves
<1>4. CASE Delegate
  <2>1. PICK role \in Roles :
          /\ call.stage = "idle"
          /\ BeginAssignment(rt, Chained, [role |-> role, node |-> None])
          /\ UNCHANGED <<wf, bindings, durableVars>>
    BY <1>4 DEF Delegate
  <2>2. [role |-> role, node |-> None] \in RoleTaskRequest
    BY DEF RoleTaskRequest, Maybe
  <2> QED BY <1>1, <1>2, <2>1, <2>2, BeginAssignmentGood DEF CallMoves
<1>5. CASE ProposeApproved
  <2>1. /\ call.stage = "idle"
        /\ wf' = StartWorkflow(CloseVote(OpenVote(wf), TRUE), EntryNode)
        /\ BeginAssignment(AllAnswered(rt), Chained,
                           [role |-> NodeRole[EntryNode], node |-> EntryNode])
        /\ UNCHANGED <<bindings, durableVars>>
    BY <1>5 DEF ProposeApproved
  <2>2. wf' \in WorkflowState
    <3>1. OpenVote(wf) \in WorkflowState
      BY <1>1, WorkflowTyped
    <3>2. CloseVote(OpenVote(wf), TRUE) \in WorkflowState
      BY <3>1, WorkflowTyped
    <3> QED BY <2>1, <3>2, WorkflowTyped, EntryAssumption
  <2> DEFINE request == [role |-> NodeRole[EntryNode], node |-> EntryNode]
             r == AllAnswered(rt)
  <2>3. request \in RoleTaskRequest
    BY EntryAssumption DEF RoleTaskRequest, Maybe
  <2>4. BeginAssignment(r, Chained, request) /\ GoodStep(rt, r) /\ r.dispatches = rt.dispatches
    BY <1>1, <2>1
  <2>5. /\ call.stage = "idle" /\ UNCHANGED <<bindings, durableVars>>
        /\ wf'.mode = "workflow_running" /\ wf'.node = request.node
    <3>1. OpenVote(wf) \in WorkflowState
      BY <1>1, WorkflowTyped
    <3>2. CloseVote(OpenVote(wf), TRUE) \in WorkflowState
      BY <3>1, WorkflowTyped
    <3> QED BY <2>1, <3>2 DEF StartWorkflow, WorkflowState
  <2> HIDE DEF request, r
  <2>6. IInv' /\ Completed(rt) \subseteq Completed(rt') /\ ~turn'.opened
    BY <1>2, <2>2, <2>3, <2>4, <2>5, BeginAssignmentGood
  <2> QED BY <2>6 DEF CallMoves
<1>6. CASE ProposeRejected
  <2>1. /\ call.stage = "idle" /\ wf' = CloseVote(OpenVote(wf), FALSE)
        /\ rt' = AllAnswered(rt) /\ call' = ToPersist(call.completed) /\ turn' = NoTurn
        /\ UNCHANGED <<bindings, durableVars>>
    BY <1>6 DEF ProposeRejected, Finish
  <2>2. wf' \in WorkflowState
    <3>1. OpenVote(wf) \in WorkflowState
      BY <1>1, WorkflowTyped
    <3> QED BY <2>1, <3>1, WorkflowTyped
  <2>3. IInv'
    BY <1>1, <2>1, <2>2, CallSettles
  <2>4. ~turn'.opened /\ Completed(rt') = Completed(rt)
    BY <1>1, <2>1 DEF NoTurn, Completed
  <2> QED BY <2>3, <2>4 DEF CallMoves
<1> QED BY <1>3, <1>4, <1>5, <1>6

\* A turn goes on to its stream and to its exit, or the call fails.
LEMMA TurnStepGood ==
  ASSUME IInv, Launch \/ ProcessExit \/ LaunchError \/ TurnTimeout \/ TurnError
  PROVE  IInv' /\ CallMoves
<1>1. turn \in Turn /\ (turn.step = "launching" => ~turn.opened)
         /\ (turn.done => turn.opened)
  BY DEF IInv, TurnInv
<1>2. CASE Launch \/ ProcessExit
  <2>1. /\ turn.step # "none" /\ UNCHANGED workspaceVars
        /\ turn' \in Turn /\ turn'.step \notin {"none", "launching"}
        /\ turn'.id = turn.id /\ turn'.behind = turn.behind /\ turn'.opened = turn.opened
        /\ turn'.done = turn.done /\ turn'.chain = turn.chain
        /\ turn'.done => turn'.opened
        /\ turn.opened => turn.step = "streaming" /\ turn'.step = "draining"
    BY <1>1, <1>2 DEF Launch, ProcessExit, Turn
  <2>2. IInv'
    BY <2>1, OnlyTurnGood
  <2> QED BY <2>1, <2>2 DEF CallMoves, workspaceVars
<1>3. CASE LaunchError \/ TurnTimeout \/ TurnError
  <2>1. /\ turn.step # "none" /\ call' = Resting("idle") /\ turn' = NoTurn
        /\ UNCHANGED <<rt, wf, bindings, durableVars>>
    BY <1>3 DEF LaunchError, TurnTimeout, TurnError, Abort
  <2>2. call.stage = "busy" /\ GoodStep(rt, rt') /\ wf' \in WorkflowState
    BY <2>1, GoodStepsCompose DEF IInv, CallInv
  <2>3. IInv'
    BY <2>1, <2>2, CallSettles
  <2> QED BY <2>1, <2>3 DEF CallMoves, NoTurn
<1> QED BY <1>2, <1>3

\* The chain ends, or goes on with the dispatch that the workflow asks for.
LEMMA ChainGood ==
  ASSUME IInv, ChainEnds \/ ChainAdvances
  PROVE  IInv' /\ CallMoves
<1>1. /\ turn.step = "settled" /\ call.stage = "busy"
      /\ GoodRuntime(rt) /\ GoodStep(rt, rt) /\ wf \in WorkflowState /\ turn \in Turn
  BY GoodStepsCompose DEF IInv, CallInv, TurnInv, ChainEnds, ChainAdvances
<1>2. ASSUME Finish, UNCHANGED <<rt, bindings, durableVars>>, wf' \in WorkflowState
      PROVE  IInv' /\ CallMoves
  <2>1. IInv'
    BY <1>1, <1>2, CallSettles DEF Finish
  <2> QED BY <1>2, <2>1 DEF Finish, CallMoves, NoTurn
<1>3. CASE ChainEnds
  BY <1>1, <1>2, <1>3 DEF ChainEnds
<1>4. CASE ChainAdvances
  <2> DEFINE d == rt.dispatches[rt.taskMap[rt.dispatches[turn.id].task]]
  <2>1. PICK a \in Advanced(wf, d) :
          /\ wf' = a.wf
          /\ IF turn.budget > 0 /\ a.followups # {}
             THEN \E request \in a.followups :
                    BeginAssignment(rt, [turn EXCEPT !.budget = BudgetAfter(turn)], request)
             ELSE Finish /\ UNCHANGED rt
    BY <1>4 DEF ChainAdvances
  <2>2. UNCHANGED <<bindings, durableVars>>
    BY <1>4 DEF ChainAdvances
  <2> HIDE DEF d
  <2>3. wf' \in WorkflowState /\ a.followups \subseteq RoleTaskRequest
    BY <1>1, <2>1, AdvancedTyped
  <2>4. CASE turn.budget > 0 /\ a.followups # {}
    <3> DEFINE t == [turn EXCEPT !.budget = BudgetAfter(turn)]
    <3>1. PICK request \in a.followups : BeginAssignment(rt, t, request)
      BY <2>1, <2>4
    <3>2. t.chain \in BOOLEAN /\ t.budget \in 0..MaxWorkflowFollowups
      BY <1>1, <2>4, FollowupsAssumption DEF Turn, BudgetAfter
    <3>3. request.node # None => wf'.mode = "workflow_running" /\ wf'.node = request.node
      BY <1>1, <2>1, <3>1, FollowupsAtNode
    <3> HIDE DEF t
    <3> QED BY <1>1, <2>2, <2>3, <3>1, <3>2, <3>3, BeginAssignmentGood DEF CallMoves
  <2>5. CASE ~(turn.budget > 0 /\ a.followups # {})
    BY <1>2, <2>1, <2>2, <2>3, <2>5
  <2> QED BY <2>4, <2>5
<1> QED BY <1>3, <1>4

\* Every action of a call but for those of its stream.
LEMMA CallStepsGood ==
  ASSUME IInv, CallSteps
  PROVE  IInv' /\ CallMoves
BY StartGood, TurnStepGood, ChainGood DEF CallSteps

\* After a dispatch the active node moves along an edge, or the workflow ends where it may.
FollowsEdges ==
  turn.step = "settled" /\ call'.stage # "down" /\ wf'.node # wf.node =>
    /\ wf.node # None
    /\ rt.dispatches[turn.id].node = wf.node
    /\ \/ wf'.mode = "group_chat" /\ wf'.node = None
          /\ wf.node \in SuccessNodes \cup FailureNodes \cup CompleteNodes
       \/ \E i \in DOMAIN Edges : Edges[i].from = wf.node /\ Edges[i].to = wf'.node

\* Only the advance after a settled turn moves the workflow, and the dispatch it is about is
\* the one that ran at the active node.
LEMMA ChainFollowsEdges ==
  ASSUME IInv, Life \/ Persist \/ CallSteps
  PROVE  FollowsEdges
<1> SUFFICES ASSUME turn.step = "settled", call'.stage # "down", wf'.node # wf.node
             PROVE  /\ wf.node # None
                    /\ rt.dispatches[turn.id].node = wf.node
                    /\ \/ wf'.mode = "group_chat" /\ wf'.node = None
                          /\ wf.node \in SuccessNodes \cup FailureNodes \cup CompleteNodes
                       \/ \E i \in DOMAIN Edges :
                            Edges[i].from = wf.node /\ Edges[i].to = wf'.node
  BY DEF FollowsEdges
<1>1. call.stage = "busy" /\ wf \in WorkflowState /\ turn \in Turn
  BY DEF IInv, CallInv, TurnInv
<1>2. ~Life
  BY <1>1, LifeGood
<1>3. ~Persist
  BY <1>1 DEF Persist, Write, WriteError
<1>4. ChainAdvances
  BY <1>1, <1>2, <1>3
     DEF CallSteps, RunRoleTask, Delegate, ProposeApproved, ProposeRejected, Launch, LaunchError,
         ProcessExit, TurnTimeout, TurnError, ChainEnds
<1> DEFINE D == rt.dispatches[turn.id]
<1>5. PICK a \in Advanced(wf, rt.dispatches[rt.taskMap[D.task]]) : wf' = a.wf
  BY <1>4 DEF ChainAdvances
<1>6. turn.chain /\ D.task # None
  BY <1>4 DEF ChainAdvances
<1>7. rt.taskMap[D.task] = turn.id
  BY <1>6 DEF IInv, DispatchInv
<1>8. D.node # None /\ turn.id # None => wf.mode = "workflow_running" /\ wf.node = D.node
  BY <1>6 DEF IInv, TurnInv, ExecutesActiveNode
<1>9. turn.id # None
  BY NoneAssumption, DispatchIdsAssumption DEF IInv, DispatchInv, GoodRuntime, IsRuntime
<1> HIDE DEF D
<1>10. a \in Advanced(wf, D) /\ a.wf.node # wf.node
  BY <1>5, <1>7 DEF D
<1>11. Advances(wf, D.node)
  BY <1>10 DEF Advanced
<1>12. D.node # None /\ wf.node = D.node
  BY <1>8, <1>9, <1>11, NoneAssumption DEF Advances
<1>13. CASE IsTerminalNode(D.node, D.status)
  <2>1. a.wf = EndWorkflow(wf)
    BY <1>10, <1>11, <1>13 DEF Advanced
  <2>2. a.wf.mode = "group_chat" /\ a.wf.node = None
    BY <1>1, <2>1 DEF EndWorkflow, WorkflowState
  <2>3. D.node \in SuccessNodes \cup FailureNodes \cup CompleteNodes
    BY <1>13 DEF IsTerminalNode
  <2> QED BY <1>5, <1>12, <2>2, <2>3 DEF D
<1>14. CASE ~IsTerminalNode(D.node, D.status)
  <2>1. PICK condition \in EdgeConditions(D.node, D.status) :
          a.wf = MoveWorkflow(wf, NextNode(D.node, condition))
    BY <1>10, <1>11, <1>14 DEF Advanced
  <2> DEFINE next == NextNode(D.node, condition)
  <2>2. next # None =>
          \E i \in DOMAIN Edges : Edges[i].from = D.node /\ Edges[i].to = next
    BY NextNodeTyped
  <2> HIDE DEF next
  <2>3. a.wf = MoveWorkflow(wf, next)
    BY <2>1 DEF next
  <2>4. next # None /\ a.wf.node = next
    BY <1>1, <1>10, <2>3 DEF MoveWorkflow, WorkflowState
  <2> QED BY <1>5, <1>12, <2>2, <2>4 DEF D
<1> QED BY <1>13, <1>14

\* A step that changes nothing keeps the invariant.
LEMMA StutterGood ==
  ASSUME IInv, UNCHANGED vars
  PROVE  IInv'
<1>1. /\ UNCHANGED <<rt, wf, bindings, call, disk, acked, faults, turn>>
  BY DEF vars, workspaceVars
<1>2. CallInv' /\ DiskShape' /\ DiskInv'
  BY <1>1 DEF IInv, CallInv, DiskShape, DiskInv, ThreadsHaveDispatches, LogNeverAhead, AckedOnDisk
<1>3. MemoryInv' /\ SavedInv' /\ DispatchInv' /\ TurnInv'
  BY <1>1 DEF IInv, MemoryInv, SavedInv, DispatchInv, TurnInv, CorrelatedUnlessBehind,
              ExecutesActiveNode, CurrentRole, CurrentTask,
              KnowsTask, Completed
<1> QED BY <1>1, <1>2, <1>3 DEF IInv

\* The invariant contains the type invariant and every shared invariant that the runs check.
LEMMA IInvImplies ==
  ASSUME IInv
  PROVE  /\ TypeOK /\ IndexesSurvive /\ CorrelatedUnlessBehind /\ ExecutesActiveNode
         /\ ThreadsHaveDispatches /\ LogNeverAhead /\ AckedOnDisk
<1>1. /\ IsWorkspace /\ IndexesSurvive
      /\ GoodRuntime(rt)
  BY DEF IInv, IsWorkspace, CallInv, GoodRuntime, IndexesSurvive
<1>2. Range(bindings) \subseteq TaskIds
  <2>1. CASE call.stage = "down"
    BY <2>1 DEF IInv, CallInv, Range
  <2>2. CASE call.stage # "down"
    BY <1>1, <2>2 DEF IInv, MemoryInv, GoodRuntime, IsRuntime, TaskDispatch, BoundTasks, Maybe
  <2> QED BY <2>1, <2>2
<1> QED BY <1>1, <1>2 DEF IInv, CallInv, TurnInv, DiskInv, TypeOK

----------------------------------------------------------------------------
(* The Codex adapter completes for good, whatever the process says. *)

\* The conversation of an open turn is on a dispatch that has not completed yet, so that no
\* progress reopens one that has.
CodexOpenInv ==
  turn.opened /\ turn.step \in {"streaming", "draining"} =>
    rt.dispatches[rt.taskMap[CurrentTask]].status # "completed"

CodexInv == IInv /\ CodexOpenInv

\* A dispatch that has completed while the object lives stays completed.
KeepsCompleted ==
  call.stage # "down" /\ call'.stage # "down" => Completed(rt) \subseteq Completed(rt')

----------------------------------------------------------------------------
\* Nothing has been opened.
LEMMA InitCodexInv == Init => CodexInv
<1>1. ASSUME Init PROVE ~turn.opened
  BY <1>1 DEF Init, NoTurn
<1> QED BY <1>1, InitIInv DEF CodexInv, CodexOpenInv

\* The turns of the Codex CLI, from the thread they announce to the judgement of the exit.
LEMMA CodexStreamGood ==
  ASSUME CodexInv,
         ThreadStarted \/ ItemEvent \/ TurnCompleted \/ TurnFailed \/ CodexTurnEnd
  PROVE  CodexInv' /\ Completed(rt) \subseteq Completed(rt')
<1>1. IInv /\ turn \in Turn /\ CodexOpenInv /\ (turn.done => turn.opened)
  BY DEF CodexInv, IInv, TurnInv
<1>2. CASE ThreadStarted
  <2>1. PICK t \in AnnouncedThreads : Announce(t)
    BY <1>2 DEF ThreadStarted
  <2>2. t \in TaskIds
    <3>1. CurrentTask # None => CurrentTask \in Range(bindings)
      BY DEF CurrentTask, Range
    <3>2. call.stage # "down"
      BY <1>1, <2>1 DEF Announce, IInv, CallInv
    <3>3. BoundTasks(rt.dispatches) \subseteq TaskIds
      BY <1>1 DEF IInv, GoodRuntime, IsRuntime, TaskDispatch, BoundTasks, Maybe
    <3> QED BY <1>1, <2>1, <3>1, <3>2, <3>3 DEF AnnouncedThreads, IInv, MemoryInv
  <2>3. /\ IInv' /\ CurrentTask' = t /\ Completed(rt) \subseteq Completed(rt')
        /\ rt'.dispatches[rt'.taskMap[t]].status = "started"
    BY <1>1, <2>1, <2>2, AnnounceGood
  <2> QED BY <2>3 DEF CodexInv, CodexOpenInv
<1>3. CASE ItemEvent
  <2>1. Progress /\ turn.opened /\ turn.step = "streaming"
    BY <1>3 DEF ItemEvent, Progress
  <2>2. rt.dispatches[rt.taskMap[CurrentTask]].status # "completed"
    BY <1>1, <2>1 DEF CodexOpenInv
  <2>3. /\ IInv' /\ Completed(rt) \subseteq Completed(rt')
        /\ CurrentTask' = CurrentTask /\ rt'.taskMap = rt.taskMap
        /\ rt'.dispatches[rt.taskMap[CurrentTask]].status = "running"
    BY <1>1, <2>1, <2>2, ProgressGood
  <2> QED BY <2>3 DEF CodexInv, CodexOpenInv
<1>4. CASE TurnCompleted \/ TurnFailed
  <2>1. /\ turn.step = "streaming" /\ UNCHANGED workspaceVars
        /\ turn' \in Turn /\ turn'.step = turn.step
        /\ turn'.id = turn.id /\ turn'.behind = turn.behind /\ turn'.opened = turn.opened
        /\ turn'.chain = turn.chain /\ (turn'.done => turn'.opened)
    BY <1>1, <1>4 DEF TurnCompleted, TurnFailed, Turn
  <2>2. IInv'
    BY <1>1, <2>1, OnlyTurnGood
  <2>3. UNCHANGED <<rt, bindings>> /\ CurrentTask' = CurrentTask
    BY <2>1 DEF workspaceVars, CurrentTask, CurrentRole
  <2> QED BY <1>1, <2>1, <2>2, <2>3 DEF CodexInv, CodexOpenInv
<1>5. CASE CodexTurnEnd
  <2>1. /\ turn.step = "draining"
        /\ turn' \in Turn /\ turn'.step = "settled"
        /\ turn'.id = turn.id /\ turn'.behind = turn.behind /\ turn'.opened = turn.opened
        /\ turn'.chain = turn.chain /\ (turn'.done => turn'.opened)
    BY <1>1, <1>5 DEF CodexTurnEnd, Turn
  <2>2. CodexOpenInv'
    BY <2>1 DEF CodexOpenInv
  <2>3. CASE turn.done
    <3> DEFINE ended == CompleteDispatch(rt, CurrentTask, "completed")
    <3>1. /\ KnowsTask(rt, CurrentTask)
          /\ rt' \in {ended, AttachResultText(ended, CurrentTask)}
          /\ call' = [call EXCEPT !.completed = @ \cup {rt.taskMap[CurrentTask]}]
          /\ UNCHANGED <<wf, bindings, durableVars>>
      BY <1>5, <2>3 DEF CodexTurnEnd
    <3> QED BY <1>1, <2>1, <2>2, <3>1, CompletionGood DEF CodexInv
  <2>4. CASE ~turn.done
    <3>1. UNCHANGED workspaceVars
      BY <1>5, <2>4 DEF CodexTurnEnd, workspaceVars, durableVars
    <3>2. IInv' /\ UNCHANGED rt
      BY <1>1, <2>1, <3>1, OnlyTurnGood DEF workspaceVars
    <3> QED BY <2>2, <3>2 DEF CodexInv
  <2> QED BY <2>3, <2>4
<1> QED BY <1>2, <1>3, <1>4, <1>5

\* Every step preserves the invariant, and every completion unless the object goes or comes.
LEMMA StepCodexInv ==
  ASSUME CodexInv, [CodexNext]_vars
  PROVE  CodexInv' /\ KeepsCompleted
<1>1. IInv
  BY DEF CodexInv
<1>2. CASE Life
  <2>1. /\ IInv' /\ turn' = NoTurn
        /\ call.stage = "down" \/ call'.stage = "down"
    BY <1>1, <1>2, LifeGood
  <2> QED BY <2>1 DEF CodexInv, CodexOpenInv, NoTurn, KeepsCompleted
<1>3. CASE Persist
  <2>1. IInv' /\ UNCHANGED <<rt, turn>>
    BY <1>1, <1>3, PersistGood
  <2>2. ~turn.opened
    BY <1>1, <1>3 DEF Persist, Write, WriteError, IInv, CallInv, TurnInv
  <2> QED BY <2>1, <2>2 DEF CodexInv, CodexOpenInv, KeepsCompleted
<1>4. CASE CallSteps
  <2>1. IInv' /\ CallMoves
    BY <1>1, <1>4, CallStepsGood
  <2>2. CodexOpenInv'
    <3>1. CASE ~turn'.opened
      BY <3>1 DEF CodexOpenInv
    <3>2. CASE turn'.opened
      <4>1. /\ UNCHANGED <<rt, bindings>> /\ turn'.id = turn.id
            /\ turn.opened /\ turn.step = "streaming"
        BY <2>1, <3>2 DEF CallMoves, workspaceVars
      <4>2. CurrentTask' = CurrentTask
        BY <4>1 DEF CurrentTask, CurrentRole
      <4> QED BY <4>1, <4>2 DEF CodexInv, CodexOpenInv
    <3> QED BY <3>1, <3>2
  <2> QED BY <2>1, <2>2 DEF CodexInv, CallMoves, KeepsCompleted
<1>5. CASE ThreadStarted \/ ItemEvent \/ TurnCompleted \/ TurnFailed \/ CodexTurnEnd
  BY <1>5, CodexStreamGood DEF KeepsCompleted
<1>6. CASE UNCHANGED vars
  <2>1. IInv' /\ UNCHANGED <<rt, bindings, turn>>
    BY <1>1, <1>6, StutterGood DEF vars, workspaceVars
  <2>2. CurrentTask' = CurrentTask
    BY <2>1 DEF CurrentTask, CurrentRole
  <2> QED BY <2>1, <2>2 DEF CodexInv, CodexOpenInv, KeepsCompleted
<1> QED BY <1>2, <1>3, <1>4, <1>5, <1>6 DEF CodexNext

\* The invariant holds in every reachable state.
LEMMA AlwaysCodexInv == CodexSpec => []CodexInv
<1>1. Init => CodexInv
  BY InitCodexInv
<1>2. CodexInv /\ [CodexNext]_vars => CodexInv'
  BY StepCodexInv
<1> QED BY <1>1, <1>2, PTL DEF CodexSpec

----------------------------------------------------------------------------
\* The variables always have the shape of the fields and locals they stand for.
THEOREM CodexTypeOK == CodexSpec => []TypeOK
<1>1. CodexInv => TypeOK
  BY IInvImplies DEF CodexInv
<1> QED BY <1>1, AlwaysCodexInv, PTL

\* What a turn reports is about a conversation that the runtime knows, and about the call's
\* own dispatch unless an earlier one was left in the queue.
THEOREM CodexCorrelated == CodexSpec => []CorrelatedUnlessBehind
<1>1. CodexInv => CorrelatedUnlessBehind
  BY IInvImplies DEF CodexInv
<1> QED BY <1>1, AlwaysCodexInv, PTL

\* No turn reopens a completed dispatch.
THEOREM CodexCompletedIsFinal == CodexSpec => CompletedIsFinal
<1>1. CodexInv /\ [CodexNext]_vars =>
        [call.stage # "down" /\ call'.stage # "down" =>
           WithStatus(rt.dispatches, "completed")
             \subseteq WithStatus(rt'.dispatches, "completed")]_rt
  BY StepCodexInv DEF KeepsCompleted, Completed
<1> QED BY <1>1, AlwaysCodexInv, PTL DEF CodexSpec, CompletedIsFinal

\* The workflow does not move or stop under a dispatch that runs at its active node.
THEOREM CodexExecutesActiveNode == CodexSpec => []ExecutesActiveNode
<1>1. CodexInv => ExecutesActiveNode
  BY IInvImplies DEF CodexInv
<1> QED BY <1>1, AlwaysCodexInv, PTL

\* The active node moves only after a dispatch that ran at it, along an edge out of it, or is
\* given up because the completion policy ends the workflow there.
THEOREM CodexWorkflowFollowsEdges == CodexSpec => WorkflowFollowsEdges
<1>1. CodexInv /\ [CodexNext]_vars => FollowsEdges
  <2> SUFFICES ASSUME CodexInv, [CodexNext]_vars PROVE FollowsEdges
    OBVIOUS
  <2>1. CASE Life \/ Persist \/ CallSteps
    BY <2>1, ChainFollowsEdges DEF CodexInv
  <2>2. CASE ~(Life \/ Persist \/ CallSteps)
    BY <2>2 DEF CodexNext, vars, workspaceVars, ThreadStarted, ItemEvent, Progress, TurnCompleted,
                TurnFailed, CodexTurnEnd, FollowsEdges
  <2> QED BY <2>1, <2>2
<1>2. CodexInv /\ [CodexNext]_vars =>
        [turn.step = "settled" /\ call'.stage # "down" /\ wf'.node # wf.node =>
           /\ wf.node # None
           /\ rt.dispatches[turn.id].node = wf.node
           /\ \/ wf'.mode = "group_chat" /\ wf'.node = None
                 /\ wf.node \in SuccessNodes \cup FailureNodes \cup CompleteNodes
              \/ \E i \in DOMAIN Edges : Edges[i].from = wf.node /\ Edges[i].to = wf'.node]_wf
  BY <1>1 DEF FollowsEdges
<1> QED BY <1>2, AlwaysCodexInv, PTL DEF CodexSpec, WorkflowFollowsEdges

\* The queue and the task index stay consistent with the dispatches through failed launches,
\* timeouts, crashes and restores.
THEOREM CodexIndexesSurvive == CodexSpec => []IndexesSurvive
<1>1. CodexInv => IndexesSurvive
  BY IInvImplies DEF CodexInv
<1> QED BY <1>1, AlwaysCodexInv, PTL

\* What a call returned as completed, and what the event log says is completed, is completed
\* in any saved state that reads, however many writes broke or were cut short.
THEOREM CodexSavesSurvive == CodexSpec => [](LogNeverAhead /\ AckedOnDisk /\ ThreadsHaveDispatches)
<1>1. CodexInv => LogNeverAhead /\ AckedOnDisk /\ ThreadsHaveDispatches
  BY IInvImplies DEF CodexInv
<1> QED BY <1>1, AlwaysCodexInv, PTL
----------------------------------------------------------------------------
(* The Claude adapter: what a turn that ended well returns is what its      *)
(* stream completed, although the process can still fail in between.       *)

\* Until the stream has the result, its conversation is on a dispatch that has not completed.
\* From then on the dispatch of the call is completed, has its result and is reported.
ClaudeOpenInv ==
  turn.opened /\ turn.step \in {"streaming", "draining"} /\ ~turn.done =>
    rt.dispatches[rt.taskMap[CurrentTask]].status # "completed"

DoneInv ==
  turn.done /\ ~turn.behind =>
    /\ rt.dispatches[turn.id].status = "completed"
    /\ rt.dispatches[turn.id].result
    /\ turn.id \in call.completed

ClaudeInv == IInv /\ ClaudeOpenInv /\ DoneInv

----------------------------------------------------------------------------
\* Nothing has been opened or done.
LEMMA InitClaudeInv == Init => ClaudeInv
<1>1. ASSUME Init PROVE ~turn.opened /\ ~turn.done
  BY <1>1 DEF Init, NoTurn
<1> QED BY <1>1, InitIInv DEF ClaudeInv, ClaudeOpenInv, DoneInv

\* A step that leaves the turn, its conversation and its dispatch alone
LEMMA TurnKept ==
  ASSUME ClaudeInv, UNCHANGED <<rt, bindings, call>>, turn'.id = turn.id,
         turn'.behind = turn.behind, turn'.opened => turn.opened, turn'.done = turn.done,
         turn.step \in {"streaming", "draining"}
  PROVE  ClaudeOpenInv' /\ DoneInv'
<1>1. CurrentTask' = CurrentTask
  BY DEF CurrentTask, CurrentRole
<1> QED BY <1>1 DEF ClaudeInv, ClaudeOpenInv, DoneInv

\* The turns of the Claude CLI, from the session they announce to the end of the process.
LEMMA ClaudeStreamGood ==
  ASSUME ClaudeInv,
         SystemInit \/ AssistantContent \/ ResultSuccess \/ ResultError \/ ClaudeTurnEnd
  PROVE  ClaudeInv'
<1>1. IInv /\ turn \in Turn /\ ClaudeOpenInv /\ (turn.done => turn.opened)
  BY DEF ClaudeInv, IInv, TurnInv
<1>2. CASE SystemInit
  <2>1. PICK s \in AnnouncedSessions : Announce(s)
    BY <1>2 DEF SystemInit
  <2>2. s \in TaskIds
    <3>1. CurrentTask # None => CurrentTask \in Range(bindings)
      BY DEF CurrentTask, Range
    <3>2. call.stage # "down"
      BY <1>1, <2>1 DEF Announce, IInv, CallInv
    <3>3. BoundTasks(rt.dispatches) \subseteq TaskIds
      BY <1>1 DEF IInv, GoodRuntime, IsRuntime, TaskDispatch, BoundTasks, Maybe
    <3> QED BY <1>1, <2>1, <3>1, <3>2, <3>3 DEF AnnouncedSessions, IInv, MemoryInv
  <2>3. /\ IInv' /\ CurrentTask' = s
        /\ rt'.dispatches[rt'.taskMap[s]].status = "started"
    BY <1>1, <2>1, <2>2, AnnounceGood
  <2>4. ~turn'.done
    BY <1>1, <2>1 DEF Announce, Turn
  <2> QED BY <2>3, <2>4 DEF ClaudeInv, ClaudeOpenInv, DoneInv
<1>3. CASE AssistantContent
  <2>1. Progress /\ turn.opened /\ turn.step = "streaming" /\ ~turn.done /\ turn' = turn
    BY <1>3 DEF AssistantContent, Progress
  <2>2. rt.dispatches[rt.taskMap[CurrentTask]].status # "completed"
    BY <1>1, <2>1 DEF ClaudeOpenInv
  <2>3. /\ IInv'
        /\ CurrentTask' = CurrentTask /\ rt'.taskMap = rt.taskMap
        /\ rt'.dispatches[rt.taskMap[CurrentTask]].status = "running"
    BY <1>1, <2>1, <2>2, ProgressGood
  <2> QED BY <2>1, <2>3 DEF ClaudeInv, ClaudeOpenInv, DoneInv
<1>4. CASE ResultSuccess
  <2> DEFINE ended == CompleteDispatch(rt, CurrentTask, "completed")
             d == rt.taskMap[CurrentTask]
  <2>1. /\ turn.step # "none" /\ KnowsTask(rt, CurrentTask)
        /\ rt' = AttachResultText(ended, CurrentTask)
        /\ call' = [call EXCEPT !.completed = @ \cup {d}]
        /\ UNCHANGED <<wf, bindings, durableVars>>
    BY <1>4 DEF ResultSuccess
  <2>2. /\ turn' \in Turn /\ turn'.step \notin {"none", "launching"}
        /\ turn'.id = turn.id /\ turn'.behind = turn.behind /\ turn'.opened = turn.opened
        /\ turn'.chain = turn.chain /\ (turn'.done => turn'.opened)
        /\ turn.opened /\ turn'.done
    BY <1>1, <1>4 DEF ResultSuccess, Turn
  <2>3. /\ IInv'
        /\ rt'.dispatches[d].status = "completed" /\ rt'.dispatches[d].result
        /\ d \in call'.completed
    BY <1>1, <2>1, <2>2, CompletionGood
  <2>4. ~turn.behind => d = turn.id
    BY <1>1, <2>2 DEF IInv, TurnInv, CorrelatedUnlessBehind
  <2> HIDE DEF d
  <2> QED BY <2>2, <2>3, <2>4 DEF ClaudeInv, ClaudeOpenInv, DoneInv
<1>5. CASE ResultError \/ ClaudeTurnEnd
  <2>1. /\ turn.step \in {"streaming", "draining"} /\ UNCHANGED workspaceVars
        /\ turn' \in Turn /\ turn'.step \notin {"none", "launching"}
        /\ turn'.id = turn.id /\ turn'.behind = turn.behind /\ turn'.opened = turn.opened
        /\ turn'.chain = turn.chain /\ turn'.done = turn.done /\ (turn'.done => turn'.opened)
    BY <1>1, <1>5 DEF ResultError, ClaudeTurnEnd, Turn
  <2>2. IInv'
    BY <1>1, <2>1, OnlyTurnGood
  <2>3. ClaudeOpenInv' /\ DoneInv'
    BY <2>1, TurnKept DEF workspaceVars
  <2> QED BY <2>2, <2>3 DEF ClaudeInv
<1> QED BY <1>2, <1>3, <1>4, <1>5

\* Every step preserves the invariant.
LEMMA StepClaudeInv ==
  ASSUME ClaudeInv, [ClaudeNext]_vars
  PROVE  ClaudeInv'
<1>1. IInv
  BY DEF ClaudeInv
<1>2. CASE Life
  <2>1. IInv' /\ turn' = NoTurn
    BY <1>1, <1>2, LifeGood
  <2> QED BY <2>1 DEF ClaudeInv, ClaudeOpenInv, DoneInv, NoTurn
<1>3. CASE Persist
  <2>1. IInv' /\ UNCHANGED <<rt, turn>>
    BY <1>1, <1>3, PersistGood
  <2>2. ~turn.opened /\ ~turn.done
    BY <1>1, <1>3 DEF Persist, Write, WriteError, IInv, CallInv, TurnInv
  <2> QED BY <2>1, <2>2 DEF ClaudeInv, ClaudeOpenInv, DoneInv
<1>4. CASE CallSteps
  <2>1. IInv' /\ CallMoves
    BY <1>1, <1>4, CallStepsGood
  <2>2. ClaudeOpenInv' /\ DoneInv'
    <3>1. CASE ~turn'.opened
      <4>1. ~turn'.done
        BY <2>1, <3>1 DEF IInv, TurnInv
      <4> QED BY <3>1, <4>1 DEF ClaudeOpenInv, DoneInv
    <3>2. CASE turn'.opened
      BY <2>1, <3>2, TurnKept DEF CallMoves, workspaceVars
    <3> QED BY <3>1, <3>2
  <2> QED BY <2>1, <2>2 DEF ClaudeInv
<1>5. CASE SystemInit \/ AssistantContent \/ ResultSuccess \/ ResultError \/ ClaudeTurnEnd
  BY <1>5, ClaudeStreamGood
<1>6. CASE UNCHANGED vars
  <2>1. IInv' /\ UNCHANGED <<rt, bindings, call, turn>>
    BY <1>1, <1>6, StutterGood DEF vars, workspaceVars
  <2>2. CurrentTask' = CurrentTask
    BY <2>1 DEF CurrentTask, CurrentRole
  <2> QED BY <2>1, <2>2 DEF ClaudeInv, ClaudeOpenInv, DoneInv
<1> QED BY <1>2, <1>3, <1>4, <1>5, <1>6 DEF ClaudeNext

\* The invariant holds in every reachable state.
LEMMA AlwaysClaudeInv == ClaudeSpec => []ClaudeInv
<1>1. Init => ClaudeInv
  BY InitClaudeInv
<1>2. ClaudeInv /\ [ClaudeNext]_vars => ClaudeInv'
  BY StepClaudeInv
<1> QED BY <1>1, <1>2, PTL DEF ClaudeSpec

----------------------------------------------------------------------------
\* A call whose turn ended well returns a dispatch that is completed, has its result and is
\* reported, unless an earlier call left its dispatch ahead in the queue.
THEOREM ClaudeReturned == ClaudeSpec => []ReturnedUnlessBehind
<1>1. ClaudeInv => ReturnedUnlessBehind
  BY DEF ClaudeInv, DoneInv, ReturnedUnlessBehind
<1> QED BY <1>1, AlwaysClaudeInv, PTL

\* The queue and the task index stay consistent with the dispatches through failed launches,
\* timeouts, crashes and restores.
THEOREM ClaudeIndexesSurvive == ClaudeSpec => []IndexesSurvive
<1>1. ClaudeInv => IndexesSurvive
  BY IInvImplies DEF ClaudeInv
<1> QED BY <1>1, AlwaysClaudeInv, PTL

\* A restored adapter resumes no session that the restored runtime has not heard of.
THEOREM ClaudeThreadsHaveDispatches == ClaudeSpec => []ThreadsHaveDispatches
<1>1. ClaudeInv => ThreadsHaveDispatches
  BY IInvImplies DEF ClaudeInv
<1> QED BY <1>1, AlwaysClaudeInv, PTL

\* The event log never reports a completion that the saved state does not have.
THEOREM ClaudeLogNeverAhead == ClaudeSpec => []LogNeverAhead
<1>1. ClaudeInv => LogNeverAhead
  BY IInvImplies DEF ClaudeInv
<1> QED BY <1>1, AlwaysClaudeInv, PTL

\* What a call returned as completed is completed in any saved state that reads, however many
\* writes broke or were cut short.
THEOREM ClaudeAckedOnDisk == ClaudeSpec => []AckedOnDisk
<1>1. ClaudeInv => AckedOnDisk
  BY IInvImplies DEF ClaudeInv
<1> QED BY <1>1, AlwaysClaudeInv, PTL

\* The variables always have the shape of the fields and locals they stand for.
THEOREM ClaudeTypeOK == ClaudeSpec => []TypeOK
<1>1. ClaudeInv => TypeOK
  BY IInvImplies DEF ClaudeInv
<1> QED BY <1>1, AlwaysClaudeInv, PTL
=============================================================================
