--------------------------- MODULE DispatchBoard ---------------------------
(***************************************************************************)
(* What the runtime promises about dispatches, with neither a queue nor a  *)
(* task index: a dispatch is posted once, is taken once by one provider    *)
(* task, and from then on belongs to that task for good; every later       *)
(* report is about a dispatch the reporting task has taken.  Rebuilding    *)
(* the runtime from a snapshot is invisible at this level.                 *)
(***************************************************************************)
CONSTANTS DispatchIds, TaskIds, None

VARIABLES
  phase,  \* per dispatch: "absent", "waiting", "open" or "closed"
  owner   \* per dispatch: the provider task that took it

vars == <<phase, owner>>

Init ==
  /\ phase = [d \in DispatchIds |-> "absent"]
  /\ owner = [d \in DispatchIds |-> None]

Post(d) ==
  /\ phase[d] = "absent"
  /\ phase' = [phase EXCEPT ![d] = "waiting"]
  /\ UNCHANGED owner

Take(d, t) ==
  /\ phase[d] = "waiting"
  /\ phase' = [phase EXCEPT ![d] = "open"]
  /\ owner' = [owner EXCEPT ![d] = t]

\* A task may report again after it has closed its dispatch, and so reopen it.
Report(d, t) ==
  /\ owner[d] = t
  /\ phase' = [phase EXCEPT ![d] = "open"]
  /\ UNCHANGED owner

Close(d, t) ==
  /\ owner[d] = t
  /\ phase' = [phase EXCEPT ![d] = "closed"]
  /\ UNCHANGED owner

Next ==
  \E d \in DispatchIds :
    \/ Post(d)
    \/ \E t \in TaskIds : Take(d, t) \/ Report(d, t) \/ Close(d, t)

Spec == Init /\ [][Next]_vars
============================================================================
