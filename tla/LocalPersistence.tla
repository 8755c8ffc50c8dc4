-------------------------- MODULE LocalPersistence --------------------------
(***************************************************************************)
(* LocalWorkspacePersistence: the files of one workspace directory.  A     *)
(* persist writes three files one after the other, each by truncating it   *)
(* and writing it anew (the event log by appending), so a crash or an I/O  *)
(* error leaves the files before it new, those after it old, and its own   *)
(* file old, torn or, for the log, cut short.                              *)
(*                                                                         *)
(* A file is a record whose field `is` tells how it reads; one that reads  *)
(* well has its contents in further fields.  AGENT.md files are left out.  *)
(***************************************************************************)
EXTENDS Naturals, Sequences

Missing == [is |-> "missing"]
Torn == [is |-> "torn"]

NoDisk == [spec |-> Missing, state |-> Missing, provider |-> Missing,
           log |-> [end |-> "clean", completed |-> {}]]

\* ensure_workspace_initialized, which does nothing once workspace.json exists.  The seed
\* it writes to state.json is not a WorkspaceState and does not load as one.
InitFiles(disk) == IF disk.spec = Missing THEN <<"spec", "seed", "binding">> ELSE <<>>

\* Faulty variant: the provider state goes first.
ProviderFirst == <<"provider", "state", "log">>

\* Faulty variant: the event log goes first.
LogFirst == <<"log", "state", "provider">>

\* persist_runtime: the order of the writes
PersistFiles == <<"state", "provider", "log">>

\* append_jsonl writes a line and its newline one after the other, so that the log can end
\* in half a line, which never reads, or in a line without its newline, which reads until the
\* next append, of at least one event, continues it.
EndAfterAppend(end) == IF end = "clean" THEN "clean" ELSE "torn"

\* One write that succeeds.  memory has the state and the bindings to save and the set of
\* dispatches whose completion is among the events to append.
WriteFile(disk, file, memory) ==
  CASE file = "spec"     -> [disk EXCEPT !.spec = [is |-> "ok"]]
    [] file = "seed"     -> [disk EXCEPT !.state = [is |-> "seed"]]
    [] file = "binding"  -> [disk EXCEPT !.provider = [is |-> "ok", bindings |-> <<>>]]
    [] file = "state"    -> [disk EXCEPT !.state = [is |-> "ok", rt |-> memory.rt,
                                                    wf |-> memory.wf]]
    [] file = "provider" -> [disk EXCEPT !.provider = [is |-> "ok", bindings |-> memory.bindings]]
    [] file = "log"      -> [disk EXCEPT !.log = [end |-> EndAfterAppend(@.end),
                                                  completed |-> @.completed \cup memory.completed]]

\* What one write that is cut short can leave behind.
BrokenWrite(disk, file, memory) ==
  {disk} \cup
  CASE file = "spec"                  -> {[disk EXCEPT !.spec = Torn]}
    [] file \in {"seed", "state"}       -> {[disk EXCEPT !.state = Torn]}
    [] file \in {"binding", "provider"} -> {[disk EXCEPT !.provider = Torn]}
    [] file = "log"                   ->
         {[disk EXCEPT !.log = [end |-> end, completed |-> @.completed \cup lines]] :
            end \in IF disk.log.end = "clean" THEN {"clean", "unterminated", "torn"} ELSE {"torn"},
            lines \in SUBSET memory.completed}

\* load_workspace_spec, load_workspace_state, load_events and load_provider_state all read
CanRestore(disk) ==
  /\ disk.spec.is = "ok"
  /\ disk.state.is = "ok"
  /\ disk.provider.is = "ok"
  /\ disk.log.end # "torn"
=============================================================================
