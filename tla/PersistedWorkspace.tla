------------------------- MODULE PersistedWorkspace -------------------------
(***************************************************************************)
(* What the Rust adapters have in common: a workspace object that holds    *)
(* the runtime (RuntimeCore, WorkflowCore) and the provider's conversation *)
(* of each role, is written to the workspace directory (LocalPersistence)  *)
(* at the end of each call, and can be lost and restored at any time.  The *)
(* calls take &mut self, so that one runs at a time; what interleaves with *)
(* it is the provider, I/O errors and crashes of the host process.         *)
(*                                                                         *)
(* An adapter conjoins these actions with what they do to its own          *)
(* variables.                                                              *)
(***************************************************************************)
EXTENDS WorkflowCore, LocalPersistence

CONSTANT MaxFaults  \* bound: crashes and I/O errors in a behaviour

ASSUME MaxFaultsAssumption == MaxFaults \in Nat

VARIABLES
  rt,        \* the runtime's dispatches
  wf,        \* the runtime's workflow state
  bindings,  \* per role, its thread or session at the provider
  call,      \* where the running call is
  disk,      \* the workspace directory
  acked,     \* history: dispatches returned to the caller as completed
  faults     \* history: crashes and I/O errors so far

workspaceVars == <<rt, wf, bindings, call, disk, acked, faults>>
durableVars == <<disk, acked, faults>>

\* The call in progress: its stage, where "down" is no workspace object at all; the
\* dispatches that it has completed, whose events it appends; the files still to write.
Call ==
  [stage: {"down", "idle", "preparing", "busy", "writing"},
   completed: SUBSET DispatchIds,
   files: Seq({"spec", "seed", "binding", "state", "provider", "log"})]

Resting(stage) == [stage |-> stage, completed |-> {}, files |-> <<>>]

InitWorkspace ==
  /\ rt = NewRuntime
  /\ wf = NewWorkflow
  /\ bindings = <<>>
  /\ call = Resting("down")
  /\ disk = NoDisk
  /\ acked = {}
  /\ faults = 0

\* Bound: a call starts only when there are ids for every dispatch it may queue.
RoomFor(n) == Cardinality(DispatchIds \ DOMAIN rt.dispatches) >= n

----------------------------------------------------------------------------
(* The life of the workspace object *)

\* restore_from_local: what is read from the directory
Load ==
  /\ CanRestore(disk)
  /\ rt' \in RestoreSnapshot(disk.state.rt)
  /\ wf' = disk.state.wf
  /\ bindings' = disk.provider.bindings

\* The object is gone, and what it had in memory with it.
Forget ==
  /\ rt' = NewRuntime
  /\ wf' = NewWorkflow
  /\ bindings' = <<>>
  /\ call' = Resting("down")

\* Callers drop the object between two calls.
Close ==
  /\ call.stage = "idle"
  /\ Forget
  /\ UNCHANGED durableVars

\* delete_workspace, after which callers drop the object
Delete ==
  /\ call.stage = "idle"
  /\ Forget
  /\ disk' = NoDisk
  /\ acked' = {}
  /\ UNCHANGED faults

Memory ==
  [rt |-> Snapshot(rt), wf |-> wf, bindings |-> bindings, completed |-> call.completed]

\* The host process dies, in the middle of a write or anywhere else.
Crash ==
  /\ faults < MaxFaults
  /\ call.stage # "down"
  /\ faults' = faults + 1
  /\ Forget
  /\ IF call.files = <<>> THEN disk' = disk
     ELSE disk' \in BrokenWrite(disk, Head(call.files), Memory)
  /\ UNCHANGED acked

----------------------------------------------------------------------------
(* Persisting.  A call that gets here returns Ok once the last file is written. *)

\* Faulty variant: a call saves what is new, and leaves the state to start.
ToPersistNews(completed) ==
  [stage |-> "writing", completed |-> completed, files |-> <<"provider", "log">>]

ToPersist(completed) ==
  [stage |-> "writing", completed |-> completed, files |-> PersistFiles]

\* The call returns Err: what it did in memory stays, its events and the persist are lost.
Abort == call' = Resting("idle")

Write ==
  /\ call.stage = "writing"
  /\ disk' = WriteFile(disk, Head(call.files), Memory)
  /\ IF Tail(call.files) # <<>>
     THEN /\ call' = [call EXCEPT !.files = Tail(@)]
          /\ UNCHANGED acked
     ELSE /\ call' = Resting("idle")
          /\ acked' = acked \cup call.completed
  /\ UNCHANGED <<rt, wf, bindings, faults>>

\* An I/O error in one of them ends the persist; one in the files before them, which only
\* start writes, skips the rest of those and goes on to the persist.
WriteError ==
  /\ faults < MaxFaults
  /\ call.stage = "writing"
  /\ faults' = faults + 1
  /\ disk' \in BrokenWrite(disk, Head(call.files), Memory)
  /\ call' = IF Head(call.files) \in Range(InitFiles(NoDisk))
             THEN [call EXCEPT !.files = PersistFiles] ELSE Resting("idle")
  /\ UNCHANGED <<rt, wf, bindings, acked>>

----------------------------------------------------------------------------
(* Properties *)

IsWorkspace ==
  /\ IsRuntime(rt)
  /\ wf \in WorkflowState
  /\ DOMAIN bindings \subseteq Roles
  /\ call \in Call
  /\ acked \subseteq DispatchIds
  /\ faults \in 0..MaxFaults

\* Failed launches and sends, timeouts, crashes and restores leave the queue and the task
\* index consistent with the dispatches, whatever they interrupt.
IndexesSurvive == QueueFaithful(rt) /\ IndexFaithful(rt)

\* The event log never reports a completion that the saved state does not have.
LogNeverAhead ==
  disk.state.is = "ok" =>
    disk.log.completed \subseteq WithStatus(disk.state.rt.dispatches, "completed")

\* What a call returned as completed is completed after any crash and restore, as long as
\* the state file reads at all.
AckedOnDisk ==
  disk.state.is = "ok" => acked \subseteq WithStatus(disk.state.rt.dispatches, "completed")
=============================================================================
