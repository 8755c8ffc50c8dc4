--------------------------- MODULE CodexWorkspace ---------------------------
(***************************************************************************)
(* CodexWorkspace (rust/crates/multi-agent-runtime-codex/src/workspace.rs):*)
(* the turns of the Codex CLI.  A dispatch is completed once the process   *)
(* has exited well.                                                        *)
(*                                                                         *)
(* The Codex process is external: its stream starts with thread.started,   *)
(* which names the resumed thread or a fresh one, and may stop anywhere.   *)
(***************************************************************************)
EXTENDS CliWorkspace

----------------------------------------------------------------------------
(* The stream *)

\* External: the id the process announces, the thread it was told to resume or a fresh one
AnnouncedThreads ==
  IF CurrentTask # None THEN {CurrentTask} ELSE TaskIds \ BoundTasks(rt.dispatches)

ThreadStarted == turn.step = "streaming" /\ \E t \in AnnouncedThreads : Announce(t)

\* item.started, item.updated and item.completed, of every kind that reports progress
ItemEvent == Progress

TurnCompleted ==
  /\ turn.step = "streaming" /\ turn.opened /\ ~turn.done
  /\ turn' = [turn EXCEPT !.done = TRUE]
  /\ UNCHANGED workspaceVars

TurnFailed ==
  /\ turn.step = "streaming" /\ turn.opened /\ ~turn.failed
  /\ turn' = [turn EXCEPT !.failed = TRUE]
  /\ UNCHANGED workspaceVars

\* A result text is attached when the stream had an agent message; it had one or not.
CodexTurnEnd ==
  /\ turn.step = "draining"
  /\ turn.ok /\ ~turn.failed
  /\ turn' = [turn EXCEPT !.step = "settled"]
  /\ IF turn.done
     THEN LET ended == CompleteDispatch(rt, CurrentTask, "completed")
          IN  /\ KnowsTask(rt, CurrentTask)
              /\ rt' \in {ended, AttachResultText(ended, CurrentTask)}
              /\ call' = [call EXCEPT !.completed = @ \cup {rt.taskMap[CurrentTask]}]
     ELSE UNCHANGED <<rt, call>>
  /\ UNCHANGED <<wf, bindings, durableVars>>

----------------------------------------------------------------------------

CodexNext ==
  \/ Life \/ Persist \/ CallSteps
  \/ ThreadStarted \/ ItemEvent \/ TurnCompleted \/ TurnFailed \/ CodexTurnEnd

\* The host keeps running a call and the timeout fires; of the process, only that it takes
\* its prompt or dies, and that standard error closes.
CodexFairness ==
  /\ WF_vars(Launch \/ LaunchError)
  /\ WF_vars(TurnTimeout)
  /\ WF_vars(TurnError \/ CodexTurnEnd)
  /\ WF_vars(ChainEnds \/ ChainAdvances)
  /\ WF_vars(Persist)

CodexSpec == Init /\ [][CodexNext]_vars /\ CodexFairness
----------------------------------------------------------------------------

\* What tests/live_codex_e2e.rs asserts of a turn that succeeds: the dispatch it returns is
\* completed.  It is not when an earlier call left its dispatch in the queue.
ReturnedIsCompleted ==
  turn.step = "settled" /\ turn.done => rt.dispatches[turn.id].status = "completed"
=============================================================================
