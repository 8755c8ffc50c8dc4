--------------------------- MODULE ClaudeWorkspace ---------------------------
(***************************************************************************)
(* ClaudeWorkspace (rust/crates/multi-agent-runtime-claude/src/            *)
(* workspace.rs): the turns of the Claude CLI.  Unlike Codex's, a dispatch *)
(* is completed as soon as the stream has the result, so that a turn can   *)
(* still fail after that.                                                  *)
(*                                                                         *)
(* The Claude process is external: its stream starts with system/init,     *)
(* which names the session that it resumes or a fresh one, ends with one   *)
(* result of that session, and may stop anywhere.                          *)
(***************************************************************************)
EXTENDS CliWorkspace

----------------------------------------------------------------------------
(* The stream *)

\* External: claude --resume goes on in the session it is given or in a fresh copy of it.
AnnouncedSessions ==
  ({CurrentTask} \ {None}) \cup (TaskIds \ BoundTasks(rt.dispatches))

SystemInit == turn.step = "streaming" /\ \E s \in AnnouncedSessions : Announce(s)

\* A tool use or a thought; texts change nothing.
AssistantContent == ~turn.done /\ ~turn.failed /\ Progress

\* Faulty variant: only a turn that exits well completes, as in Codex.
ResultAwaitingExit ==
  /\ turn.step = "streaming" /\ turn.opened /\ ~turn.done /\ ~turn.failed
  /\ turn' = [turn EXCEPT !.done = TRUE]
  /\ UNCHANGED workspaceVars

\* The result names the session that init did; its text is attached, whatever it is.
ResultSuccess ==
  /\ turn.step = "streaming" /\ turn.opened /\ ~turn.done /\ ~turn.failed
  /\ KnowsTask(rt, CurrentTask)
  /\ turn' = [turn EXCEPT !.done = TRUE]
  /\ rt' = AttachResultText(CompleteDispatch(rt, CurrentTask, "completed"), CurrentTask)
  /\ call' = [call EXCEPT !.completed = @ \cup {rt.taskMap[CurrentTask]}]
  /\ UNCHANGED <<wf, bindings, durableVars>>

ResultError ==
  /\ turn.step = "streaming" /\ turn.opened /\ ~turn.done /\ ~turn.failed
  /\ turn' = [turn EXCEPT !.failed = TRUE]
  /\ UNCHANGED workspaceVars

ClaudeTurnEnd ==
  /\ turn.step = "draining"
  /\ turn.ok /\ ~turn.failed
  /\ turn' = [turn EXCEPT !.step = "settled"]
  /\ UNCHANGED workspaceVars

----------------------------------------------------------------------------

ClaudeNext ==
  \/ Life \/ Persist \/ CallSteps
  \/ SystemInit \/ AssistantContent \/ ResultSuccess \/ ResultError \/ ClaudeTurnEnd

\* As for Codex, nothing is assumed of the process but that it takes its prompt or dies, and
\* closes standard error.
ClaudeFairness ==
  /\ WF_vars(Launch \/ LaunchError)
  /\ WF_vars(TurnTimeout)
  /\ WF_vars(TurnError \/ ClaudeTurnEnd)
  /\ WF_vars(ChainEnds \/ ChainAdvances)
  /\ WF_vars(Persist)

ClaudeSpec == Init /\ [][ClaudeNext]_vars /\ ClaudeFairness
----------------------------------------------------------------------------

\* A call whose turn ended well returns a dispatch that is completed, has its result and is
\* among those it reports: nothing undoes a completion between the result in the stream and
\* the end of the process.  Again provided that nothing was left in the queue ahead of it.
ReturnedUnlessBehind ==
  turn.step = "settled" /\ turn.done /\ ~turn.behind =>
    /\ rt.dispatches[turn.id].status = "completed"
    /\ rt.dispatches[turn.id].result
    /\ turn.id \in call.completed
=============================================================================
