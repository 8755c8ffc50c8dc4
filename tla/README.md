# multi-agent-runtime in TLA+

This directory specifies the runtime of this repository in TLA+, checks it with TLC on small
instances and proves part of it with TLAPS for every instance.  It covers the Rust workspace under
`rust/` with its three adapters, and of the TypeScript package under `src/` the workflow executor
and the Claude adapter with the runtime and the persistence it uses.

## The system

A *workspace* is a team of *roles* over one LLM provider.  Work is a *task dispatch*: queued for
a role, started under an id the provider announces (a task, a thread or a session), reported on,
completed, and given a result text.  A workspace can also run a *workflow*, a graph whose nodes
are dispatched one after the other after the roles have voted for it.

| component | state | operations | what must hold |
|---|---|---|---|
| core runtime, dispatches (`multi-agent-runtime-core/src/runtime.rs`) | `dispatches`, `members`; private: `pending_dispatch_queue`, `provider_task_to_dispatch` | queue, claim, start next, progress, complete, attach result, restore | the private indexes agree with the dispatches, also after a restore; correlation is FIFO; what is started stays bound |
| core runtime, workflow (same file) | `workflow_runtime`: mode, vote window, active node, request message | open, answer and close a vote, start, advance after a dispatch | the active node moves along edges and in step with the dispatch at it |
| local persistence (`multi-agent-runtime-local`) | `workspace.json`, `state.json`, `provider-state.json`, `events.jsonl` | initialise, persist, load, delete | files of different generations still fit together; what was acknowledged is kept |
| Codex adapter (`multi-agent-runtime-codex`) | the runtime, `role_thread_ids`, the Codex process, its timeout | new/start, restore, `run_role_task`, `run_workspace_turn`, delete | a turn reports on its own dispatch; failures leave the indexes intact; calls return |
| Claude adapter (`multi-agent-runtime-claude`) | the runtime, session ids per role | the same calls; a result in the stream completes its dispatch before the process exits | as Codex; a completion outlives what fails after it |
| Cteno adapter (`multi-agent-runtime-cteno`) | the runtime, member sessions, context cursors | bootstrap, turns, assignments, member answers, reports of provider tasks | while none is out of step, a message starts its own dispatch and, until a fault, no open one is left without an answer; a running workflow waits for somebody; a usable workspace finds its sessions again |
| turn planning (`multi-agent-protocol/src/workspace_turn.rs`) | none | decide, claim, vote, entry plan | work goes to who speaks up for it and fits; a message is not dropped while somebody does |
| TypeScript workflow execution (`src/core/workflowExecution.ts`) | per call: node, stage, steps, the node's worklist; on disk: the document of items | walk the graph, run an agent per node, work through a list, replan | calls end; items run once and in dependency order; stage events are bracketed |
| TypeScript Claude adapter with the waits of `src/core/runtime.ts` and the files of `src/core/localPersistence.ts` | one stream, two dispatch queues, a task map, waits with timeouts, a chain of saves | start, send, `assignRoleTask`, `runRoleTask`, the stream's handlers, close, delete, restore | dispatches get their own tasks and results, and callers hear of them, until a message strays; saves keep their order |
| TypeScript Codex and hybrid adapters | a chain of dispatches per role; a child workspace per provider | as the Claude adapter | a role's dispatches run one by one |
| templates, types, events | data | | |

Components meet in three ways: adapters own a runtime and call its methods synchronously;
the provider's messages arrive between those calls; and a persist copies the runtime's
serialized half, and the adapter's provider ids, to disk after a call.  What is hard is what
lies between: a message for another dispatch than the caller believes, a turn that dies with its
dispatch queued, a restart that has to rebuild what was not saved, a save cut in two.
`PROJECT.json` lists each such hazard with its line and the properties about it.

## Modules

| module | what it is |
|---|---|
| `Option` | optional values, for the modules below |
| `RuntimeCore` | the dispatch half of `WorkspaceRuntime`: the struct as a record, each method an operator on it |
| `DispatchRuntime` | `RuntimeCore` under its public API: callers call any method in any order, and restore at any time |
| `DispatchBoard` | abstract specification: dispatches that are posted, taken by a task, reported on, closed; no queue, no index, no restart |
| `RuntimeCoreProofs` | lemmas: each method keeps the runtime well formed and keeps the bindings |
| `DispatchRuntimeProofs` | the theorems about dispatches, and those about the order of starts and the ownership of a task |
| `WorkflowCore` | the workflow half of `WorkspaceRuntime`, as operators |
| `LocalPersistence` | the files of a workspace, one write at a time, and what a cut write leaves |
| `PersistedWorkspace` | what all Rust adapters share, over the three above: the life of the workspace object, persisting, crashes and I/O errors |
| `CliWorkspace` | what the Codex and the Claude adapter share: calls, the turn of a process with its timeout, the workflow chain |
| `CodexWorkspace`, `ClaudeWorkspace` | the two adapters: their streams, and when a dispatch is completed |
| `CliWorkspaceProofs` | the invariant of the CLI adapters, what each step they share does to it, and the theorems about the two |
| `TurnPlanning` | the planning functions of `workspace_turn.rs`, as operators |
| `WorkspaceTurn` | one workspace turn, from the message over claims, decision and votes to the plan |
| `TurnPlanningProofs` | lemmas about ranks and about what the planning operators return |
| `WorkspaceTurnProofs` | the theorems about a turn, on these |
| `CtenoWorkspace` | the Cteno adapter, on `PersistedWorkspace` and `TurnPlanning`, with its host and members |
| `CtenoWorkspaceProofs` | the invariant of the Cteno adapter and the theorems about it, on the lemmas of both |
| `WorkflowExecution` | the TypeScript executor: the walk over a graph and the worklist node with its document on disk |
| `WorkflowExecutionProofs` | theorems about it |
| `ClaudeAgentWorkspace` | the TypeScript Claude adapter, its callers' waits and its saves |
| `ClaudeAgentWorkspaceProofs` | the theorems about it |
| `MC...` | instances for TLC, one per module with runs |

**RuntimeCore.**  `rt.dispatches` and `rt.members` are the maps of `WorkspaceState`; `rt.pending`
and `rt.taskMap` are the two private indexes, which a snapshot does not carry and
`RestoreSnapshot` rebuilds.  Uuids are naturals since only their order, the iteration order of a
BTreeMap, can be observed: it is the order in which a restore queues, and the last of several
dispatches with the same task id gets the index.  Timestamps are readings of a clock that every
stamping method advances.  Texts, events and activities are left out, except whether a result
text exists.

**PersistedWorkspace.**  `rt` and `wf` are the two halves of the runtime, `bindings` the thread or
session of each role.  The calls of an adapter take `&mut self`, so one runs at a time; `call` is
that call: its stage (`down` when there is no object, `idle`, `preparing` the files of a new
workspace, `busy`, `writing`), the dispatches it completed, whose events it appends to the log,
and the files it has still to write.  Each write is an action; a crash may cut it, and an I/O error
ends the call.  A call that returns `Err` leaves what it did in memory and loses its events and
its persist, as in the code.  `acked` records what callers were told is completed.

**CliWorkspace, CodexWorkspace, ClaudeWorkspace.**  `turn` is where the running call is with the
process of its current dispatch: `launching` (dispatch queued and claimed, process not yet
spawned), `streaming`, `draining` (process gone, standard error still to read), `settled` (the
provider turn is done and the chain decides whether the workflow goes on).  Everything a call does
between two awaits is one action.  The process is external: its stream starts with the thread or
session that it resumes or a fresh one, and may stop, fail, hang or exit at any point.  The two
adapters differ in the stream and in one order: Codex completes a dispatch after a good exit
(`CodexTurnEnd`), Claude when the stream has the result (`ResultSuccess`), after which the process may
still fail, so that the call returns `Err` for a dispatch that is completed.

**TurnPlanning, WorkspaceTurn.**  Role and node ids are naturals, since the code compares and
sorts them only.  A message is known by what the code computes from its text: how well it suits
each role and node, whether it has the words of a loop, a limit or an addressee.  Answers are what
the parsers make of them, including none.  `WorkspaceTurn` is the sequence of awaits of
`send_workspace_turn`; `PlanAlone` is the turn of the CLI adapters, which ask nobody.

**CtenoWorkspace.**  `job` is what the running call awaits: a role to be provisioned, or a session
to take a message.  `inbox` has the messages that the member of a session has yet to answer;
members outlive the object.  An answer is taken to be for the latest open dispatch of its role in
that session, as in `ingest_member_response`.  The host reports progress and ends of provider
tasks at any time between calls, and an end once more.  Claims, decision and votes of a turn are
one step here, since members that are being asked have nothing else to report to.

**ClaudeAgentWorkspace.**  `pending`, `results` and `taskMap` are `pendingDispatchQueue`,
`pendingResultDispatchQueue` and `taskToDispatch`.  `inbox` and `claude` are the input queue and
the message that Claude is at, with the agent it launched for it; tasks are named for the message
they were launched for, so that a dispatch with a task or a text of another message shows.  `wait`
is what the caller of a dispatch awaits in `runDispatch`: to be assigned, its end, its result.
`jobs` are the saves that events have scheduled and `saving` the one being made; the state is read
when it is written.  `life` has `deleting` and `erasing` for a deletion that waits for the
saves, of an open or a closed workspace.  `strayed` records the two ways in which the queues are
known to get out of step, so that the properties can say what holds without them: the result of
a `send` message is taken for a queued dispatch, and `assignRoleTask` throws after it has queued
one.  `README.md:416` says that FIFO is reliable only when the orchestrator is the only source of
launches.

**WorkflowExecution.**  A call of `executeWorkflow` is one asynchronous function; `pc` is the await
it stands at (`node`, `agent`, `leave`, and for a worklist `load`, `plan`, `items`, `worker`,
`replan`) and everything between two awaits of an agent or a file is one action.  `wl` is the
runtime worklist, `doc` the document as loaded, `file` the one on disk.  An agent's text is
reduced to whether negative words outnumber positive ones, which is all `inferWorkflowOutcome`
uses.  Agents that plan may add items, replace the document by one item, or put items with a
status in `Reopens` back to pending; items they add are new, as their prompt demands.  A call may
throw at any await (an agent's wait timed out, the process died) and leaves the file as it is, or
cut if it was being written; the next call starts from the entry node with nothing in memory.
`published` counts the stage events that the hooks send out, and `claimed` the items a worker may
have done; both only record.  One call runs at a time, and nobody writes the document while a
worker runs.

## Runs

| run | instance | shows |
|---|---|---|
| `dispatch` | 3 dispatches, 2 tasks, 1 role | type, queue and index invariants, FIFO correlation, ownership of a shared task, permanence of bindings, refinement of `DispatchBoard` |
| `codex_turns` | 3 dispatches, 2 threads, 2 roles, 3 nodes, budget 1, no faults | `CorrelatedUnlessBehind`, `ExecutesActiveNode`, `CompletedIsFinal`, `WorkflowFollowsEdges` |
| `codex_orphan` | as `codex_turns` | violated: `ReturnedIsCompleted` |
| `claude` | 2 dispatches, 2 crashes or I/O errors | `IndexesSurvive`, `ThreadsHaveDispatches`, `LogNeverAhead`, `AckedOnDisk`, `ReturnedUnlessBehind`, `CallReturns` |
| `turn_planning` | 4 workspaces of 3 roles; every mix of messages, claims, decisions and votes | `StrongerAnswerKeepsWork`, `DeclinersLeftAlone`, `NodesFitRoles`, `TurnIsWorked` |
| `cteno` | 2 roles, 4 nodes, 2 dispatches, 3 sessions, 1 fault | `AnswersReachDispatches`, `RunningHasWork`, `SessionsOnDisk`, `MovesAlongEdges` |
| `cteno_gate` | the same, no fault | violated: `GatesHold` |
| `claude_agent` | 2 dispatches, 1 message of a user, 2 saves waiting, 1 fault | `CorrelatedUntilStray`, `NothingMissed`, `SavedInOrder`, `DeletedIsGone` |
| `worklist_finite` | the finite list of `tests/e2e/templateCases.mjs`: 3 items, 2 calls, 8 steps each, 1 fault | `TypeOK`, `StagesBalanced`, `DependenciesOnDisk`, `AtMostOnce` |
| `worklist_queue` | the replenished queue of the same file: 3 batches, 6 steps, a planner that reopens anything | `ListsMatchItems`, `SettledStays`, `CallEnds` |
| `worklist_done` | the queue, one call, no fault | violated: `DoneItemsCompleted` |
| `autoresearch` | the graph of `src/templates/autoresearch.ts`, one call | violated: `EvaluationDecides` |

Bounds and why they are enough.  Two tasks let one be shared and one be fresh.  Three dispatches
give the queue an order to get wrong while one is in flight: an orphan, the call behind it, and a
later one.  Budget 1 gives a chain of two nodes and the cut after it; the graph has a loop, an
unconditional edge taken when no exact one matches, and a node that ends the workflow although it
has an edge.  In `codex_turns` faults are excluded, but every failed launch, timeout and bad exit,
and orderly restarts, remain.  The files and faults, which both CLI adapters have in common, are
checked on Claude's stream, the one in which a call can fail with a dispatch completed; two faults
let a failed write be followed by a crash inside the next one.  A call starts only when there are ids left for all it may queue, so the bound
on ids never stops it half-way.  Provider ids are symmetric where no liveness is checked.  The
runs allow deadlock: with every id used and the workspace unreadable or deleted the bounded
system stops.
For Cteno a send or a spawn that fails counts as a fault, and three sessions let a bootstrap that
failed after one of two roles be tried again; the graph is the coding loop with a review whose
failure leads back.  The four workspaces of `turn_planning` are shaped like the coding studio, the
autoresearch template, one whose entry nobody can take and one without a workflow; its first and
last differ in every policy the planning reads.  In `claude_agent` two dispatches and one message
of a user are the least that can be taken for one another, and two saves behind one in progress
let one wait while a handler schedules another.
In the worklist runs one item waits for another, one has one attempt (its failure discards it),
one two and one no limit; two calls and a fault let a call die with an item in flight and another
find what it left; `maxIterations` 2 lets a list fail, be planned again and be visited again, and
the limit on steps be reached.

Fairness.  `CallEnds` assumes that the executor goes on and that agents' calls end, since every
adapter waits for them with a timeout (`waitForEvent`); not that planners write anything.
`CallReturns`, checked on the Claude instance (Codex shares its chain, timeout and fairness),
assumes that the host keeps executing a call (`ChainEnds`,
`ChainAdvances`, `Write`), that the timer fires (`TurnTimeout`), and of the process only what
lies outside the timer's reach in the code: it takes its prompt or breaks the pipe (`Launch`), and
its standard error closes once it has exited (`TurnError`, `CodexTurnEnd`, `ClaudeTurnEnd`).  Nothing assumes that it
ever says anything.

### What the violated runs show

`start_next_dispatch` starts the front of the queue.  A call that fails before `thread.started`
leaves its dispatch there, and nothing removes it: the next call's turn starts and completes that
dispatch, with the thread of its own role, and returns `Ok` with its own dispatch still queued;
so do all calls after it, and a workflow no longer advances.  `tests/live_codex_e2e.rs:47` asserts
that a turn that succeeds returns a completed dispatch.  `CorrelatedUnlessBehind` is the same
promise with the condition it needs, and holds.

A batch of the worklist fails on a pending item only if it ran none at all.  With one item run, an
item whose dependency is not in the document (the planner dropped it when it was done) stays
pending while the node succeeds and the workflow is `done`; `templateCases.mjs:608` asserts that
all items are then completed.  An item left `running` by a call that died is skipped in the same
way.

What a member claims in group chat gets the workflow node that suits it best
(`build_assignment_from_claim_response`), and a dispatch that completes takes a running workflow on
from the node it was made for, whichever is active (`advance_workflow_after_dispatch`).  A claim
that is still open when a workflow starts therefore moves it past its review, though no reviewer
was ever asked; `README.md:278` has the review between plan and architecture, and `README.md:252`
says the structure is preserved "for reliable loops and gates".  The same sentence grants that "the
runtime does not yet execute every workflow node natively"; the nodes passed here are ones that it
does execute.  `MovesAlongEdges` is what holds: every move is along an edge, of the node of some
dispatch that is over.

In the built-in autoresearch template no role resolves for `evaluate_results`: its outcome is
`success`, none of its edges (`improved`, `equal_or_worse`, `crash`) matches, and the call returns
the default status `done` there, without the keep or discard of `README.md:279`.  `README.md:252`
says of the templates' workflows that "the runtime does not yet execute every workflow node
natively", which allows for a node that does nothing, but not for a loop that ends as done at it.

## Proofs

`DispatchRuntimeProofs` proves, for any finite set of ids and any roles, tasks, nodes, claim mode
and caller arguments: `TypeCorrect`, `QueueCorrect`, `IndexCorrect`, `BindingCorrect` and
`BoardImplemented`.  They rest on the named assumptions of the modules: `None` is none of the
other values, ids are naturals, and no caller completes a dispatch with status `queued`.

The inductive invariant is that the runtime is well formed: typed, `QueueFaithful`,
`IndexFaithful`, and `StartedIsBound` (a dispatch has a task and a start time exactly when it is
no longer queued).  The last part is not a property of its own but the first ones are not
inductive without it: that popping the queue and binding the task removes exactly one queued
dispatch and adds exactly one bound one needs that nothing queued is bound.  `RuntimeCoreProofs`
has one lemma per method, from a well-formed runtime to a well-formed one that `KeepsBindings`;
the theorems then have one case per action.  The refinement maps queue, index and clock away:
queueing posts, starting takes, progress and completion report on or close, claim, restore and
the others stutter; that completion never hits a waiting dispatch comes from the invariant.

The second half of that module proves `StartsInOrder` and `LatestStartOwns`.  Neither is inductive: the
invariant `OrderInv` adds that every stamp is in the past, so that what is queued or started next
is later than everything else, and that the queue is in the order of creation except among what a
restore has put back.  There is one lemma per kind of call: those that touch neither queue nor
index, queueing, starting, and the restore, which records the dispatches and tasks whose order it
may change.

`WorkflowExecutionProofs` proves every safety property of the executor's passing runs, for every
finite graph, completion policy, set of items and worklist configuration.  `StagesCorrect`:
`StagesBalanced` alone is not inductive; a call starts with no stage open only because the last one
left none, and an error never outlives the call.  `ListsCorrect` and `SettledCorrect`: the invariant
adds that what a worker has is an item of the document and is running; one lemma each for
synchronising, marking and updating.  `AtMostOnceCorrect`: the start of an item is written before
its dispatch, so a claimed item is running or completed in all three places a later step reads it
from, the runtime list, the loaded document and the file; it assumes that agents reopen only failed
items (`Reopens \subseteq {"failed", "discarded"}`), without which it is false.
`DependenciesCorrect` has the same assumption; the list decides what is ready and the file is what
the property is about, so the invariant adds that documents name an item once, that both documents
call completed whatever the list does, and that what is completed was claimed, so that no planner
recreates it.  `TypeCorrect` needs, besides the two halves above, that a batch is asked for only
while one is left, that agents' ends and calls have one of the outcomes and statuses of their types,
and that no planner, read or update makes a document name an item twice, whatever agents reopen.

`CliWorkspaceProofs` proves every safety property that the runs `codex_turns` and `claude` check, for any roles, graph, completion policy, followup budget, callers,
process and number of crashes and I/O errors.  The invariant, `IInv` of `CliWorkspaceProofs`, is a
conjunction of seven parts, since what the properties say of the disk, say, holds only by what is
in memory while the disk is written:

- `CallInv`: what is left to write is a suffix of one of the two lists that the code writes;
- `DiskShape`: a saved state is the serialized half of some well-formed runtime, so that a restore
  yields one (`RestoreSavedGood`);
- `DiskInv`: the three properties that compare files of different generations;
- `MemoryInv`: the object knows all threads, completions and acknowledgements on disk.  Files are
  replaced one at a time by what is in memory, and each replacement keeps `DiskInv` for this reason;
- `SavedInv`: once a persist has written the state, it is that of the runtime until the persist
  ends, which is why provider state and log may follow it and not go before;
- `DispatchInv`: a call's dispatch is queued until a conversation is announced, alone in the queue
  if that was empty, and the owner of its task afterwards;
- `TurnInv`: the correlation itself, and the workflow standing at the dispatch's node.

There is one lemma per group of actions (`LifeGood`, `PersistGood`, `StartGood`, `TurnStepGood`,
`ChainGood`), and one for each thing a stream can do to the runtime (`AnnounceGood`,
`ProgressGood`, `CompletionGood`), which the two adapters combine in `CodexStreamGood` and `ClaudeStreamGood`.  Codex
adds that the conversation of an open turn is on a dispatch that has not completed; Claude says so
until the result, and from then on that the completion is there.

`WorkspaceTurnProofs` proves every property of `turn_planning`, for any finite workspaces, any
messages and any answers (`SpecsAssumption`, `RequestsAssumption` and `AnswersAssumption` say that
they are of the right types, and no more).  The lemmas are in `TurnPlanningProofs`, whose first part is about
sorting: in a strict total order
of a finite set the ranks of the members are the numbers below its size (`RankOnto`), so that
`InOrder` is a sequence of the whole set by rank and `FirstN` takes those of low rank.  On this rest
the limit on assignments, that a stronger claim is taken before a weaker one (`StrongerKeeps`), and
that a claim can push out nobody who ranks above it.  The affinity of several nodes together is a sum
by recursion over a set; that it is a number for every set is shown by taking a least one for which it
is not (`LeastExists`, `JointAffinityTyped`), since the induction theorems cannot be cited.  The
second part follows each way to a plan, direct, heuristic, by claims or by the entry node, and shows
that it is a `GoodPlan`: typed, within the limit, roles apart, and each at a node that it fits.
The invariant then only adds that, until the coordinator is heard, the plan is the one that
everybody's claims make, and that a vote is held only on a proposal.

`CtenoWorkspaceProofs` proves every property of the run `cteno`, for any team, graph, completion policy,
messages and answers, and any number of dispatches, sessions and faults.  `MessagesAssumption`,
`AnswersAssumption` and `TaskRequestsAssumption` are about types only; `TaskIdsAssumption` says how
the host names tasks.  `WorkspaceAssumption` and `NamesAssumption` say that the spec's names are names
of its roles and nodes, and `ResolvedAssumption` that all messages resolve a node to the same role
(a message matters only for a node that names several candidates and no owner or reviewer).  The
invariant, `IInv` of that module, has these parts:

- `GoodHalves`: a well-formed runtime with `TaskInv` and `WorkInv`.  `TaskInv` says that no task is
  bound to two dispatches, and that each is named for a dispatch that exists or for a session only, so
  that the task of a dispatch just queued is nobody's yet.  `WorkInv` is `RunningHasWork` for a runtime
  wherever it is kept, and adds that a running workflow has the message its followups are made from;
- `DiskShape`: a saved state is the serialized half of such a runtime, which is what a restore starts from,
  and a saved provider state is that of a complete workspace or of a new one;
- `CallInv`: the stage of a call, the files it has to write and what it awaits belong together, and a
  workspace that is down has no workflow;
- `JobInv`: the dispatch that a message is for is still queued when the session takes the message, and
  no task is named for it.  The front of the queue, which is what the message then starts, may be another
  one; the task goes to that one, and is new all the same;
- `HostInv`: a usable workspace has a session per role, and a bootstrap has sessions for all roles
  that it has not still to provision;
- `SavedInv`: `SessionsOnDisk`, and what a bootstrap has saved when only its log is left to write.

The planning lemmas enter at one place: `OutcomeTyped` shows that every plan a turn can come to is one of
requests to roles at nodes of the workflow, and that an approved one is that of the entry, or empty where
nobody can take that.  Then there is one lemma
per group of actions: the life of the object (`LifeGood`), a bootstrap
(`BootstrapGood`, `PrepareWriteGood`, `SpawnRoleGood`), a persist (`PersistGood`), turns and assignments
(`SendTurnGood`, `AssignTaskGood`), what sessions take (`DispatchSentGood`) and what the host and the
members report (`CompletionGood`, which both ways to complete a dispatch use).
`AnswersArrive` rests on a second invariant, `AInv`, that is kept by the steps from states with `IInv`:

- `MemoryInv`: a runtime that is in step (`OutOfStep` is empty) names each task for its own
  dispatch, and without faults each member has its own session and as many messages to answer as
  dispatches of its role are open;
- `DiskInv`: the same of what a restart would find, since an orderly restart takes the saved
  state for the state, and the messages outlive it;
- `CalmInv`: without faults memory and disk agree whenever no call is under way, nothing is in
  either before the bootstrap, and members have different sessions.

Only a start takes a dispatch out of the queue, so no other step brings a runtime into step that was
not (`Same`, `SameKeeps`); a start from a runtime that comes into step by it has nothing in the queue but the
dispatch whose message is taken, which is the one it starts.  An answer takes one message and completes one open dispatch, which one does
not matter for the count.  The count needs `faults = 0`: a crash before a completion is saved opens
its dispatch again, and the message that was answered does not come back.
`WorkflowsKeepToEdges` is the action property on this: only a turn and a completion change the
active node (`StepMoves`).  The proof found that it was stated too strongly: a vote that is
approved while a workflow runs starts it again, and where nobody can take the entry the active
node becomes none.

`ClaudeAgentWorkspaceProofs` proves every property of `claude_agent`, for any dispatches, messages and
number of faults, with `IdsAssumption` (ids of dispatches, messages of users and dispatches made up
for untracked tasks are different).  None of the five is inductive.  Its invariant has one part for
each thing that the handlers rely on without testing it:

- `LifeInv`: what each stage of the object's life still has, and may still write; a deletion counts
  the saves before it (`ahead`), which is why nothing writes the directory of a workspace that was
  closed before; one deleted open may have state and log written again, but never a spec;
- `QueueInv`, which holds whatever strays: what is pending has no task, what is in the queue of
  results has ended, and at most one is, since one message is worked on at a time;
- `MessageInv`: a message is in the input once, and no dispatch was made up for it yet;
- `CorrelationInv`: until something strays, the pending dispatches are those of the messages that
  wait, in the same order, and the one that Claude is at comes first.  That is the argument for
  FIFO correlation: taking a message, starting its task and its result each move both fronts;
- `WaitInv`: until something strays, a caller that listens for an end, or is about to, has not missed
  it; one that listens for a text has missed it only if Claude answered the dispatch itself;
- `SaveInv`: the ends that scheduled saves will log are known to the state, which is written first.

Only model-checked: the liveness properties `CallReturns` and `CallEnds`, which need ENABLED; every
other property of a passing run is stated by a theorem.  `ReturnedIsCompleted`,
`DoneItemsCompleted`, `EvaluationDecides` and `GatesHold` are false.

## Not modelled, and the plan

Left out of what is modelled: instruction texts and prompts; members' activities and emitted
events except the ends in the log; `initialize` and session ids, the claim window's own state and
the records of votes; `record_message`, the public context and its cursors, which shape only the
texts that sessions get; AGENT.md files; `Respond` turns, which only persist; a host that drops a
call's future half-way; an existing directory passed to `new`; names in a Cteno workspace that are
none of its roles, which end in an error of the call that uses them (`MissingRoleSession`,
`UnknownRole`), and a workflow whose entry is none of its nodes; and deletion or clean-up that fails
half-way.  Of the TypeScript Claude adapter also its provider file, which repeats the session id, and
`runWorkspaceTurn`, which composes a plan and `executeWorkflow`; of the planning its TypeScript
twin.

Known limits that no property forbids: a write truncates the file it replaces, so that a crash
inside it can leave a workspace or a worklist that no longer reads (`local/src/lib.rs:180`,
`workflowExecution.ts:677`; modelled, and the properties of the files hold only while they read);
a process that neither takes its prompt nor closes standard error blocks its call, since both are
outside the timeout (`codex/src/workspace.rs:564`; the fairness assumes it away); an item that the
planner dropped and brings back is not counted as new (`workflowExecution.ts:389`); `new` over a
directory that holds a workspace saves over it (`codex/src/workspace.rs:145`; callers are
assumed not to); and a workflow waits for ever at a node that no role can take
(`core/src/runtime.rs:1060`; `RunningHasWork` leaves such nodes out).

In this order:

1. The TypeScript Codex adapter: a chain of dispatches per role, each on a stream of its own, and
   what closing does to a chain (`codexSdkWorkspace.ts:317`); then the hybrid adapter over both.
2. `WorkflowRuntime`: the workflow half under any order of calls, as `DispatchRuntime` for the
   dispatch half, and an abstract `WorkflowWalk` (a token on a graph) that it implements.
3. The public context of the Cteno adapter and its cursors: no message twice, none lost.
