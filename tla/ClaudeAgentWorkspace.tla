------------------------ MODULE ClaudeAgentWorkspace ------------------------
(***************************************************************************)
(* ClaudeAgentWorkspace (src/adapters/claude/claudeAgentWorkspace.ts), the *)
(* TypeScript adapter: one stream of the Claude SDK is shared by all calls *)
(* and by all dispatches.  What a message of the stream is about is told   *)
(* by two queues alone.  Callers wait for events with a timeout            *)
(* (src/core/runtime.ts), and every event schedules a save, which is made  *)
(* behind the calls and the stream, one after the other.                   *)
(*                                                                         *)
(* Claude is external.  It answers the messages in order, each with one    *)
(* result.  It launches an agent only for a message that asks for one, and *)
(* one at most, which is over before the result.  Since it does, the task  *)
(* it announces is named here for the message that it was launched for.    *)
(*                                                                         *)
(* Callers start a workspace once, use it, and close or delete it last.    *)
(* Members, activities, claims and the session id are left out, and with   *)
(* that the provider file, which has nothing else.                         *)
(***************************************************************************)
EXTENDS Naturals, Sequences, FiniteSets, Functions

CONSTANTS
  DispatchIds,  \* the uuids of dispatches
  MaxSends,     \* bound: messages of users that ask for no dispatch
  MaxFaults,    \* bound: crashes and I/O errors
  MaxJobs,      \* bound: saves behind the stream
  None

ASSUME BoundsAssumption == MaxSends \in Nat /\ MaxFaults \in Nat /\ MaxJobs \in Nat \ {0}

VARIABLES
  life,        \* the workspace object
  dispatches,  \* state.dispatches
  pending,     \* pendingDispatchQueue
  results,     \* pendingResultDispatchQueue
  taskMap,     \* taskToDispatch
  inbox,       \* inputQueue: messages that Claude has yet to take
  claude,      \* the message it is at, and the agent launched for that; None without a stream
  wait,        \* per dispatch, what its caller waits for
  jobs,        \* the saves scheduled, each with the dispatches that end in its events
  saving,      \* the save in progress
  ahead,       \* the saves that deleteWorkspace still waits for
  disk,        \* the workspace directory
  sends,       \* user messages so far
  strayed,     \* history: a dispatch has got what was for another message
  faults       \* history: crashes and I/O errors so far

objectVars == <<dispatches, pending, results, taskMap, wait>>
saveVars == <<jobs, saving, disk, faults>>
historyVars == <<sends, strayed>>
vars == <<life, objectVars, inbox, claude, ahead, saveVars, historyVars>>

UserMessage == "user"
Session == "session"
\* The dispatch of a task that nothing was queued for
Untracked(task) == <<"untracked", task>>

ASSUME IdsAssumption ==
  /\ {None, UserMessage, Session} \cap DispatchIds = {}
  /\ \A d \in DispatchIds : Untracked(d) \notin DispatchIds
  /\ None \notin {UserMessage, Session} \cup Nat
  /\ None \notin [message: {None, UserMessage} \cup DispatchIds, agent: {"none", "running", "over"}]

AllIds == DispatchIds \cup {Untracked(d) : d \in DispatchIds}

\* Started and running are one status here, and so are completed, failed and stopped.  The task
\* is named for its message or, where Claude answered without an agent, the session; the result
\* text, for the message that it answers.
Dispatch ==
  [status: {"queued", "started", "ended"}, task: {None, Session} \cup DispatchIds,
   result: {None, UserMessage} \cup DispatchIds]

NewDispatch == [status |-> "queued", task |-> None, result |-> None]

Idle == [message |-> None, agent |-> "none"]
NotSaving == [files |-> <<>>, ended |-> {}]
NoDisk == [spec |-> "missing", state |-> "missing", saved |-> <<>>, ended |-> {}]
Nobody == [d \in DispatchIds |-> "none"]

Init ==
  /\ life = "new"
  /\ dispatches = <<>>
  /\ pending = <<>> /\ results = <<>> /\ taskMap = <<>>
  /\ inbox = <<>> /\ claude = None
  /\ wait = Nobody
  /\ jobs = <<>> /\ saving = NotSaving /\ ahead = None
  /\ disk = NoDisk
  /\ sends = 0 /\ strayed = FALSE /\ faults = 0

\* Faulty variant: a record is only updated, never added.
PutKnown(f, k, v) == [x \in DOMAIN f |-> IF x = k THEN v ELSE f[x]]

Put(f, k, v) == [x \in DOMAIN f \cup {k} |-> IF x = k THEN v ELSE f[x]]
Ended(ds) == {d \in DOMAIN ds : ds[d].status = "ended"}

----------------------------------------------------------------------------
(* Saving.  The events of one handler are one save here; saves in a row    *)
(* that report the end of no dispatch are one too.                         *)

\* Faulty variant: only the end of a dispatch is worth a save.
ScheduledEnds(ended) == jobs' = IF ended = {} THEN jobs ELSE Append(jobs, ended)

Scheduled(ended) ==
  jobs' = IF ended = {} /\ jobs # <<>> /\ jobs[Len(jobs)] = {} THEN jobs ELSE Append(jobs, ended)

\* emitEvent for a handler in which the given dispatches end
Emit(ended) == Scheduled(ended) /\ Len(jobs') <= MaxJobs /\ UNCHANGED <<saving, disk, faults>>

InProgress == saving.files # <<>>

\* persistRuntime
PersistFiles == <<"state", "events">>

\* initializeWorkspace, unless there is a workspace.json; its state.json is none that restores.
InitFiles == IF disk.spec = "missing" THEN <<"spec", "seed">> ELSE <<>>

\* One write.  The state is read when it is written, not when its save is scheduled.
Written(w) ==
  CASE Head(w.files) = "spec"   -> [disk EXCEPT !.spec = "ok"]
    [] Head(w.files) = "seed"   -> [disk EXCEPT !.state = "seed"]
    [] Head(w.files) = "state"  -> [disk EXCEPT !.state = "ok", !.saved = dispatches]
    [] Head(w.files) = "events" -> [disk EXCEPT !.ended = @ \cup w.ended]

\* What a write that is cut short can leave
Broken(w) ==
  {disk} \cup CASE Head(w.files) = "spec" -> {[disk EXCEPT !.spec = "torn"]}
               [] Head(w.files) \in {"seed", "state"} ->
                    {[disk EXCEPT !.state = "torn", !.saved = <<>>]}
               [] Head(w.files) = "events" -> {[disk EXCEPT !.ended = @ \cup w.ended]}

\* The write that comes next: the file, and the save it belongs to
NextWrite == IF InProgress THEN saving ELSE [files |-> PersistFiles, ended |-> Head(jobs)]

CanWrite == life # "starting" /\ (InProgress \/ jobs # <<>>)

\* deleteWorkspace has one save less to wait for.
OneLess == ahead' = IF ahead \in Nat \ {0} THEN ahead - 1 ELSE ahead

Save ==
  /\ CanWrite
  /\ disk' = Written(NextWrite)
  /\ IF Tail(NextWrite.files) = <<>> THEN saving' = NotSaving /\ OneLess
     ELSE saving' = [NextWrite EXCEPT !.files = Tail(@)] /\ UNCHANGED ahead
  /\ jobs' = IF InProgress THEN jobs ELSE Tail(jobs)
  /\ UNCHANGED <<life, objectVars, inbox, claude, historyVars, faults>>

\* An I/O error ends a save and is ignored.
SaveError ==
  /\ CanWrite
  /\ faults < MaxFaults
  /\ faults' = faults + 1
  /\ disk' \in Broken(NextWrite)
  /\ saving' = NotSaving /\ OneLess
  /\ jobs' = IF InProgress THEN jobs ELSE Tail(jobs)
  /\ UNCHANGED <<life, objectVars, inbox, claude, historyVars>>

----------------------------------------------------------------------------
(* The life of the object *)

\* start, up to the files of a new workspace
Start ==
  /\ life = "new"
  /\ life' = "starting"
  /\ saving' = [NotSaving EXCEPT !.files = InitFiles]
  /\ UNCHANGED <<objectVars, inbox, claude, ahead, jobs, disk, faults, historyVars>>

Initialize ==
  /\ life = "starting" /\ InProgress
  /\ disk' = Written(saving)
  /\ saving' = [saving EXCEPT !.files = Tail(@)]
  /\ UNCHANGED <<life, objectVars, inbox, claude, ahead, jobs, faults, historyVars>>

InitializeError ==
  /\ life = "starting" /\ InProgress
  /\ faults < MaxFaults
  /\ faults' = faults + 1
  /\ disk' \in Broken(saving)
  /\ saving' = NotSaving
  /\ life' = "new"
  /\ UNCHANGED <<objectVars, inbox, claude, ahead, jobs, historyVars>>

\* The stream begins.
Started ==
  /\ life = "starting" /\ ~InProgress
  /\ life' = "active"
  /\ claude' = Idle
  /\ Emit({})
  /\ UNCHANGED <<objectVars, inbox, ahead, historyVars>>

\* close: the stream ends, and what Claude had still to answer stays without one.  Nothing
\* keeps callers from closing what they have deleted.
Close ==
  /\ life \in {"active", "deleting", "deleted"}
  /\ life' = IF life = "active" THEN "closed" ELSE life
  /\ claude' = None
  /\ Emit({})
  /\ UNCHANGED <<objectVars, inbox, ahead, historyVars>>

\* The SDK fails; consumeMessages ends and nothing starts it again.
StreamFails ==
  /\ claude # None
  /\ claude' = None
  /\ Emit({})
  /\ UNCHANGED <<life, objectVars, inbox, ahead, historyVars>>

\* deleteWorkspace up to its await, of an open workspace or a closed one: it ends the input,
\* but not the stream.
Delete ==
  /\ life \in {"active", "closed"}
  /\ life' = IF life = "active" THEN "deleting" ELSE "erasing"
  /\ ahead' = Len(jobs) + IF InProgress THEN 1 ELSE 0
  /\ UNCHANGED <<objectVars, inbox, claude, saveVars, historyVars>>

\* Faulty variant: the saves that are under way are not waited for.
NothingToWaitFor == TRUE

SavesFlushed == ahead = 0

Remove ==
  /\ life \in {"deleting", "erasing"} /\ SavesFlushed
  /\ life' = IF life = "deleting" THEN "deleted" ELSE "erased"
  /\ disk' = NoDisk
  /\ UNCHANGED <<objectVars, inbox, claude, ahead, jobs, saving, faults, historyVars>>

Crash ==
  /\ life \notin {"down", "deleted", "erased"}
  /\ faults < MaxFaults
  /\ faults' = faults + 1
  /\ life' = "down"
  /\ dispatches' = <<>>
  /\ pending' = <<>> /\ results' = <<>> /\ taskMap' = <<>>
  /\ inbox' = <<>> /\ claude' = None
  /\ wait' = Nobody
  /\ jobs' = <<>> /\ saving' = NotSaving /\ ahead' = None
  /\ disk' \in IF InProgress \/ CanWrite THEN Broken(NextWrite) ELSE {disk}
  /\ UNCHANGED historyVars

\* restoreFromLocal and applyPersistedState: neither the queues nor the map of tasks come back,
\* and the log is not read.
Restore ==
  /\ life = "down"
  /\ disk.spec = "ok" /\ disk.state = "ok"
  /\ life' = "new"
  /\ dispatches' = disk.saved
  /\ UNCHANGED <<pending, results, taskMap, wait, inbox, claude, ahead, saveVars, historyVars>>

----------------------------------------------------------------------------
(* Calls *)

\* send
Send ==
  /\ life = "active" /\ sends < MaxSends
  /\ sends' = sends + 1
  /\ inbox' = Append(inbox, UserMessage)
  /\ Emit({})
  /\ UNCHANGED <<life, objectVars, claude, ahead, strayed>>

\* assignRoleTask and runRoleTask, the first of which does not wait for what comes of it.
Assign ==
  \E d \in DispatchIds \ DOMAIN dispatches, waits \in BOOLEAN :
    /\ life = "active"
    /\ dispatches' = Put(dispatches, d, NewDispatch)
    /\ pending' = Append(pending, d)
    /\ inbox' = Append(inbox, d)
    /\ wait' = [wait EXCEPT ![d] = IF waits THEN "assigned" ELSE "none"]
    /\ Emit({})
    /\ UNCHANGED <<life, results, taskMap, claude, ahead, historyVars>>

\* assignRoleTask with a model that the role's agent does not have, or of a closed workspace: it
\* throws when the dispatch is queued already.
AssignThrows ==
  \E d \in DispatchIds \ DOMAIN dispatches :
    /\ life \in {"active", "closed"}
    /\ dispatches' = Put(dispatches, d, NewDispatch)
    /\ pending' = Append(pending, d)
    /\ strayed' = TRUE
    /\ Emit({})
    /\ UNCHANGED <<life, results, taskMap, wait, inbox, claude, ahead, sends>>

\* runDispatch listens for the end of its dispatch once assignRoleTask has resolved.
Listen ==
  \E d \in DispatchIds :
    /\ wait[d] = "assigned"
    /\ wait' = [wait EXCEPT ![d] = "terminal"]
    /\ UNCHANGED <<life, dispatches, pending, results, taskMap, inbox, claude, ahead, saveVars,
                   historyVars>>

\* waitForEvent times out: runDispatch throws, or returns what it knows.
TimedOut ==
  \E d \in DispatchIds :
    /\ wait[d] \in {"terminal", "result"}
    /\ wait' = [wait EXCEPT ![d] = "none"]
    /\ UNCHANGED <<life, dispatches, pending, results, taskMap, inbox, claude, ahead, saveVars,
                   historyVars>>

\* Faulty variant: the call listens for the result text later, if at all.
AfterEndLate(id) == wait

\* A dispatch.completed, failed or stopped: its caller goes on to wait for the result text,
\* after the handler and before the next message is handled.
AfterEnd(id) == [d \in DispatchIds |-> IF d = id /\ wait[d] = "terminal" THEN "result" ELSE wait[d]]

AfterResult(id) == [d \in DispatchIds |-> IF d = id /\ wait[d] = "result" THEN "none" ELSE wait[d]]

----------------------------------------------------------------------------
(* The stream *)

\* External: an answer takes I/O, so that callers that do none have gone on before it.
TakeMessage ==
  /\ claude = Idle /\ inbox # <<>>
  /\ \A d \in DispatchIds : wait[d] # "assigned"
  /\ claude' = [Idle EXCEPT !.message = Head(inbox)]
  /\ inbox' = Tail(inbox)
  /\ UNCHANGED <<life, objectVars, ahead, saveVars, historyVars>>

AtTask == claude # None /\ claude.message \in DispatchIds

\* The dispatch that a new task is for: the next in the queue, or one made up for it.
NextForTask(task) == IF pending = <<>> THEN Untracked(task) ELSE Head(pending)

\* handleTaskStarted
TaskStarted ==
  /\ AtTask /\ claude.agent = "none"
  /\ claude' = [claude EXCEPT !.agent = "running"]
  /\ LET task == claude.message
         id == NextForTask(task)
         known == IF id \in DOMAIN dispatches THEN dispatches[id] ELSE NewDispatch
     IN  /\ dispatches' = Put(dispatches, id, [known EXCEPT !.status = "started", !.task = task])
         /\ pending' = IF pending = <<>> THEN pending ELSE Tail(pending)
         /\ taskMap' = Put(taskMap, task, id)
  /\ Emit({})
  /\ UNCHANGED <<life, results, wait, inbox, ahead, historyVars>>

AgentRuns == AtTask /\ claude.agent = "running" /\ claude.message \in DOMAIN taskMap

\* handleTaskProgress
TaskProgress ==
  /\ AgentRuns
  /\ Emit({})
  /\ UNCHANGED <<life, objectVars, inbox, claude, ahead, historyVars>>

\* handleTaskNotification
TaskNotification ==
  /\ AgentRuns
  /\ LET id == taskMap[claude.message]
     IN  /\ dispatches' = [dispatches EXCEPT ![id].status = "ended"]
         /\ results' = Append(results, id)
         /\ wait' = AfterEnd(id)
         /\ Emit({id})
  /\ claude' = [claude EXCEPT !.agent = "over"]
  /\ UNCHANGED <<life, pending, taskMap, inbox, ahead, historyVars>>

\* Faulty variant: the queue of what is to start comes first.
ResultQueueSwapped == pending \o results

\* The dispatches that a result may be for, the first of which it is taken to be for
ResultQueue == results \o pending

\* handleResultMessage
Result ==
  /\ claude # None /\ claude.message # None /\ claude.agent # "running"
  /\ claude' = Idle
  /\ IF ResultQueue = <<>>
     THEN Emit({}) /\ UNCHANGED <<objectVars, strayed>>
     ELSE \E text \in BOOLEAN :
            LET id == Head(ResultQueue)
                direct == dispatches[id].status = "queued"
                ended == IF ~direct THEN dispatches[id]
                         ELSE [dispatches[id] EXCEPT !.status = "ended", !.task = Session]
            IN  /\ dispatches' = [dispatches EXCEPT ![id] =
                     IF text THEN [ended EXCEPT !.result = claude.message] ELSE ended]
                /\ IF results # <<>> /\ id = Head(results)
                   THEN results' = Tail(results) /\ UNCHANGED pending
                   ELSE pending' = Tail(pending) /\ UNCHANGED results
                /\ wait' = IF direct THEN AfterEnd(id)
                           ELSE IF text THEN AfterResult(id) ELSE wait
                /\ strayed' = (strayed \/ (claude.message = UserMessage /\ direct))
                /\ Emit(IF direct THEN {id} ELSE {})
                /\ UNCHANGED taskMap
  /\ UNCHANGED <<life, inbox, ahead, sends>>

----------------------------------------------------------------------------

Next ==
  \/ Start \/ Initialize \/ InitializeError \/ Started \/ Close \/ StreamFails
  \/ Delete \/ Remove \/ Crash \/ Restore \/ Save \/ SaveError
  \/ Send \/ Assign \/ AssignThrows \/ Listen \/ TimedOut
  \/ TakeMessage \/ TaskStarted \/ TaskProgress \/ TaskNotification \/ Result

Spec == Init /\ [][Next]_vars

----------------------------------------------------------------------------
(* Properties *)

\* The variables have the shape of the fields and promises they stand for.
TypeOK ==
  /\ life \in {"new", "starting", "active", "closed", "deleting", "deleted", "erasing", "erased",
               "down"}
  /\ DOMAIN dispatches \subseteq AllIds
  /\ dispatches \in [DOMAIN dispatches -> Dispatch]
  /\ pending \in Seq(DispatchIds) /\ IsInjective(pending)
  /\ results \in Seq(AllIds) /\ IsInjective(results)
  /\ Range(taskMap) \cup Range(pending) \cup Range(results) \subseteq DOMAIN dispatches
  /\ inbox \in Seq(DispatchIds \cup {UserMessage})
  /\ claude \in {None} \cup [message: {None, UserMessage} \cup DispatchIds,
                            agent: {"none", "running", "over"}]
  /\ wait \in [DispatchIds -> {"none", "assigned", "terminal", "result"}]
  /\ jobs \in Seq(SUBSET AllIds)
  /\ ahead \in {None} \cup Nat
  /\ faults \in 0..MaxFaults

Own(d) ==
  /\ dispatches[d].task \in {None, Session, d}
  /\ dispatches[d].result \in {None, d}

\* However calls overlap, and after any restart, a dispatch is started by the agent and given
\* the text of its own message, until the result of a message that asked for no dispatch is
\* taken for one, or a dispatch is queued that has no message.
CorrelatedUntilStray == ~strayed => \A d \in DOMAIN dispatches : d \in DispatchIds /\ Own(d)

\* runDispatch listens for the end of a dispatch once its assignment has resolved, and for the
\* text once it has heard the end.  Until something strays no end comes before its caller
\* listens, or is lost on one who does; and no text does, whatever strays, but that of a
\* dispatch which Claude answers itself: end and text are told in one go, and its caller hears
\* of the end only.
NothingMissed ==
  \A d \in DOMAIN dispatches \cap DispatchIds :
    /\ wait[d] \in {"assigned", "terminal"} => dispatches[d].status # "ended" \/ strayed
    /\ wait[d] = "result" => dispatches[d].result = None \/ dispatches[d].task = Session

\* However long a save waits for the one before it, and through write errors and crashes, the log
\* never reports the end of a dispatch that the saved state, if it can be read, has as open.
\* Without faults, and when an open or closed workspace has no save left to make, the saved state
\* is the state.
SavedInOrder ==
  /\ disk.state = "ok" => disk.ended \subseteq Ended(disk.saved)
  /\ life \in {"active", "closed"} /\ jobs = <<>> /\ ~InProgress /\ faults = 0 =>
       disk.state = "ok" /\ disk.saved = dispatches

\* Of a workspace that is closed and deleted nothing is left, in spite of the saves that were
\* under way; one that is deleted open may write files again, but none that can be restored.
DeletedIsGone ==
  /\ life = "erased" => disk = NoDisk
  /\ life = "deleted" => disk.spec = "missing"
=============================================================================
