--------------------- MODULE ClaudeAgentWorkspaceProofs ---------------------
(***************************************************************************)
(* Theorems about the TypeScript Claude adapter: its queues name the right *)
(* dispatch until a message strays; until then no caller misses an end,    *)
(* and no text but that of a direct answer; the log keeps within the saved *)
(* state; and a deleted workspace cannot be restored, of which nothing is  *)
(* left if it was closed.                                                  *)
(***************************************************************************)
EXTENDS ClaudeAgentWorkspace, TLAPS

IsMap(ds) == DOMAIN ds \subseteq AllIds /\ ds \in [DOMAIN ds -> Dispatch]

\* The files in the shape that their reader expects, and the save under way
DiskTypes ==
  /\ disk = [spec |-> disk.spec, state |-> disk.state, saved |-> disk.saved, ended |-> disk.ended]
  /\ IsMap(disk.saved) /\ disk.ended \subseteq AllIds
  /\ saving = [files |-> saving.files, ended |-> saving.ended]
  /\ saving.ended \subseteq AllIds

\* What each stage of the object's life still has, and may still write.
LifeInv ==
  /\ life \in {"new", "starting", "down"} =>
       /\ pending = <<>> /\ results = <<>> /\ taskMap = <<>> /\ inbox = <<>> /\ jobs = <<>>
       /\ claude = None /\ wait = Nobody
  /\ life \in {"new", "down"} => saving = NotSaving
  /\ life = "starting" => /\ saving.files \in {<<>>, <<"seed">>, <<"spec", "seed">>}
                          /\ saving.ended = {}
  /\ life # "starting" => saving.files \in {<<>>, <<"events">>}
  /\ life \in {"closed", "erasing", "erased"} => claude = None
  /\ life = "erasing" => ahead = Len(jobs) + IF InProgress THEN 1 ELSE 0
  /\ life = "erased" => jobs = <<>> /\ ~InProgress
  /\ DeletedIsGone

At(agent) == claude # None /\ claude.agent = agent

\* Whatever strayed: what is pending has nothing yet, what is in the queue of results has
\* ended, and the agent's task is one of a dispatch that has no text.
QueueInv ==
  /\ \A i \in DOMAIN pending :
       dispatches[pending[i]].status = "queued" /\ dispatches[pending[i]].result = None
  /\ \A i \in DOMAIN results : dispatches[results[i]].status = "ended"
  /\ Len(results) <= 1
  /\ results # <<>> => claude = None \/ At("over")
  /\ At("over") => results # <<>>
  /\ claude # None /\ claude.agent # "none" => claude.message \in DispatchIds
  /\ At("running") =>
       /\ claude.message \in DOMAIN taskMap
       /\ LET id == taskMap[claude.message]
          IN  /\ dispatches[id].status = "started"
              /\ id \in DispatchIds => dispatches[id].result = None

UntrackedKnown(ds) == \A d \in DispatchIds : Untracked(d) \in DOMAIN ds => d \in DOMAIN ds

\* Every message is there once, is of a known dispatch, and until its task starts no dispatch
\* has been made up for that.
MessageInv ==
  /\ \A k \in DOMAIN inbox : inbox[k] \in DispatchIds =>
       /\ inbox[k] \in DOMAIN dispatches
       /\ Untracked(inbox[k]) \notin DOMAIN dispatches
       /\ \A l \in DOMAIN inbox : inbox[l] = inbox[k] => l = k
       /\ claude # None => claude.message # inbox[k]
  /\ AtTask =>
       /\ claude.message \in DOMAIN dispatches
       /\ claude.agent = "none" => Untracked(claude.message) \notin DOMAIN dispatches
  /\ UntrackedKnown(dispatches) /\ UntrackedKnown(disk.saved)

AllOwn(ds) ==
  \A d \in DOMAIN ds :
    d \in DispatchIds /\ ds[d].task \in {None, Session, d} /\ ds[d].result \in {None, d}

\* The message that Claude is at is of the first pending dispatch
IsFirst == AtTask /\ claude.agent = "none"

\* Until something strays, the pending dispatches are those whose messages wait, in order.
CorrelationInv ==
  ~strayed =>
    /\ AllOwn(dispatches) /\ AllOwn(disk.saved)
    /\ claude # None =>
         /\ IsFirst => pending # <<>> /\ pending[1] = claude.message
         /\ \A k \in DOMAIN inbox : inbox[k] \in DispatchIds => inbox[k] \in Range(pending)
         /\ \A i \in DOMAIN pending : (i = 1 /\ IsFirst) \/ pending[i] \in Range(inbox)
         /\ \A i, j \in DOMAIN pending, k, l \in DOMAIN inbox :
              i < j /\ inbox[k] = pending[i] /\ inbox[l] = pending[j] => k < l
    /\ At("running") => taskMap[claude.message] = claude.message
    /\ At("over") => results[1] = claude.message

\* A call that listens, or is about to, has not missed the end.
WaitInv ==
  /\ \A d \in DOMAIN dispatches \cap DispatchIds :
       /\ wait[d] \in {"assigned", "terminal"} => dispatches[d].status # "ended" \/ strayed
       /\ wait[d] = "result" => dispatches[d].result = None \/ dispatches[d].task = Session
  /\ AtTask => wait[claude.message] # "assigned"

\* All ends that are or will be in the log are known, and are in the saved state before.
SaveInv ==
  /\ \A i \in DOMAIN jobs : jobs[i] \subseteq Ended(dispatches)
  /\ saving.ended \subseteq Ended(dispatches)
  /\ life # "down" => disk.ended \subseteq Ended(dispatches)
  /\ saving.files = <<"events">> /\ disk.state = "ok" => saving.ended \subseteq Ended(disk.saved)
  /\ disk.state = "ok" => disk.ended \subseteq Ended(disk.saved)
  /\ life \in {"active", "closed"} /\ jobs = <<>> /\ faults = 0 =>
       disk.state = "ok" /\ disk.saved = dispatches

IInv ==
  /\ TypeOK /\ DiskTypes /\ LifeInv /\ QueueInv /\ MessageInv /\ CorrelationInv /\ WaitInv
  /\ SaveInv

----------------------------------------------------------------------------
(* Helpers *)

LEMMA TailFacts ==
  ASSUME NEW S, NEW s \in Seq(S), s # <<>>
  PROVE  /\ Tail(s) \in Seq(S) /\ Len(Tail(s)) = Len(s) - 1 /\ Head(s) = s[1]
         /\ 1 \in DOMAIN s /\ DOMAIN s = 1..Len(s) /\ Head(s) \in S
         /\ DOMAIN Tail(s) = 1..(Len(s) - 1)
         /\ \A i \in DOMAIN Tail(s) : i + 1 \in DOMAIN s /\ Tail(s)[i] = s[i + 1]
OBVIOUS

LEMMA AppendFacts ==
  ASSUME NEW S, NEW s \in Seq(S), NEW x \in S
  PROVE  /\ Append(s, x) \in Seq(S) /\ Append(s, x) # <<>> /\ Len(Append(s, x)) = Len(s) + 1
         /\ DOMAIN s = 1..Len(s) /\ DOMAIN Append(s, x) = 1..(Len(s) + 1)
         /\ Append(s, x)[Len(s) + 1] = x
         /\ \A i \in DOMAIN s : Append(s, x)[i] = s[i]
OBVIOUS

LEMMA EmptyMap == IsMap(<<>>)
BY DEF IsMap

\* An emitted event is saved by a save of its own or with the last one.
LEMMA EmitFacts ==
  ASSUME jobs \in Seq(SUBSET AllIds), NEW ended \in SUBSET AllIds, Emit(ended)
  PROVE  /\ jobs' \in Seq(SUBSET AllIds) /\ jobs' # <<>>
         /\ \A i \in DOMAIN jobs' : (i \in DOMAIN jobs /\ jobs'[i] = jobs[i]) \/ jobs'[i] = ended
         /\ UNCHANGED <<saving, disk, faults>>
<1>1. CASE jobs' = jobs /\ jobs # <<>>
  BY <1>1 DEF Emit
<1>2. CASE jobs' = Append(jobs, ended)
  BY <1>2 DEF Emit
<1> QED BY <1>1, <1>2 DEF Emit, Scheduled

\* Queueing a save breaks nothing that is said of the files, if the ends it saves are known.
LEMMA SaveEmit ==
  ASSUME TypeOK, SaveInv, NEW ended \in SUBSET AllIds, Emit(ended), life # "down",
         Ended(dispatches) \cup ended \subseteq Ended(dispatches)'
  PROVE  SaveInv'
<1>1. /\ jobs' # <<>> /\ UNCHANGED <<saving, disk, faults>>
      /\ \A i \in DOMAIN jobs' : (i \in DOMAIN jobs /\ jobs'[i] = jobs[i]) \/ jobs'[i] = ended
  BY EmitFacts DEF TypeOK
<1>2. \A i \in DOMAIN jobs' : jobs'[i] \subseteq Ended(dispatches)'
  BY <1>1 DEF SaveInv
<1> QED BY <1>1, <1>2 DEF SaveInv

\* Nor anything said of the object's life, while it still queues saves.
LEMMA LifeEmit ==
  ASSUME TypeOK, LifeInv, NEW ended \in SUBSET AllIds, Emit(ended),
         life' \in {"active", "closed", "deleting", "deleted"},
         life = "starting" => ~InProgress,
         life' = "closed" => claude' = None, life' = "deleted" => life = "deleted"
  PROVE  LifeInv'
<1>1. UNCHANGED <<saving, disk, faults>>
  BY EmitFacts DEF TypeOK
<1> QED BY <1>1 DEF LifeInv, DeletedIsGone, NotSaving, InProgress

\* Steps that leave the parts of the invariant alone
LEMMA QueueStutter ==
  ASSUME QueueInv, UNCHANGED <<dispatches, pending, results, taskMap, claude>>
  PROVE  QueueInv'
BY DEF QueueInv, At

SavedKept == disk'.saved \in {disk.saved, dispatches, <<>>}

LEMMA MessageStutter ==
  ASSUME MessageInv, SavedKept, UNCHANGED <<dispatches, inbox, claude>>
  PROVE  MessageInv'
<1>1. UntrackedKnown(disk'.saved)
  BY DEF MessageInv, SavedKept, UntrackedKnown
<1> QED BY <1>1 DEF MessageInv, AtTask, UntrackedKnown

LEMMA CorrelationStutter ==
  ASSUME CorrelationInv, SavedKept, UNCHANGED <<dispatches, pending, results, taskMap, inbox, claude>>,
         strayed => strayed'
  PROVE  CorrelationInv'
<1>1. ~strayed' => AllOwn(disk'.saved)
  BY DEF CorrelationInv, SavedKept, AllOwn
<1> QED BY <1>1 DEF CorrelationInv, AtTask, IsFirst, At, AllOwn

LEMMA WaitStutter ==
  ASSUME WaitInv, UNCHANGED <<dispatches, wait, claude>>, strayed => strayed'
  PROVE  WaitInv'
BY DEF WaitInv, AtTask

----------------------------------------------------------------------------
(* Saving *)

Objects == <<dispatches, pending, results, taskMap, wait, inbox, claude>>

\* A step that writes, or prepares to: the objects in memory stay.
LEMMA QuietParts ==
  ASSUME IInv, UNCHANGED <<Objects, strayed>>, SavedKept
  PROVE  QueueInv' /\ MessageInv' /\ CorrelationInv' /\ WaitInv'
BY QueueStutter, MessageStutter, CorrelationStutter, WaitStutter DEF IInv, Objects

\* The second write of a save ends it; the first one leaves that to come.
LEMMA WriteCases ==
  ASSUME IInv, CanWrite
  PROVE  \/ /\ saving.files = <<"events">> /\ InProgress /\ NextWrite = saving
            /\ Written(NextWrite) = [disk EXCEPT !.ended = @ \cup saving.ended]
            /\ Broken(NextWrite) = {disk, [disk EXCEPT !.ended = @ \cup saving.ended]}
         \/ /\ saving.files = <<>> /\ ~InProgress /\ jobs # <<>>
            /\ NextWrite = [files |-> <<"state", "events">>, ended |-> Head(jobs)]
            /\ Written(NextWrite) = [disk EXCEPT !.state = "ok", !.saved = dispatches]
            /\ Broken(NextWrite) = {disk, [disk EXCEPT !.state = "torn", !.saved = <<>>]}
<1>1. CASE InProgress
  <2>1. saving.files = <<"events">> /\ NextWrite = saving
    BY <1>1 DEF CanWrite, IInv, LifeInv, InProgress, NextWrite
  <2>2. Head(NextWrite.files) = "events" /\ NextWrite.ended = saving.ended
    BY <2>1
  <2> QED BY <1>1, <2>1, <2>2 DEF Written, Broken
<1>2. CASE ~InProgress
  <2>1. NextWrite = [files |-> <<"state", "events">>, ended |-> Head(jobs)] /\ jobs # <<>>
    BY <1>2 DEF CanWrite, NextWrite, PersistFiles
  <2>2. Head(NextWrite.files) = "state"
    BY <2>1
  <2> QED BY <1>2, <2>1, <2>2 DEF Written, Broken, InProgress
<1> QED BY <1>1, <1>2

LEMMA SaveGood == ASSUME IInv, Save PROVE IInv'
<1>1. UNCHANGED <<life, Objects, sends, strayed, faults>>
  BY DEF Save, objectVars, historyVars, Objects
<1>2. CanWrite /\ disk' = Written(NextWrite) /\ life # "starting"
  BY DEF Save, CanWrite
<1>3. /\ jobs \in Seq(SUBSET AllIds) /\ DiskTypes /\ IsMap(dispatches) /\ LifeInv /\ SaveInv
  BY DEF IInv, TypeOK, IsMap
<1>4. CASE InProgress
  <2>1. /\ saving.files = <<"events">> /\ NextWrite = saving
        /\ disk' = [disk EXCEPT !.ended = @ \cup saving.ended]
    BY <1>2, <1>4, WriteCases
  <2>2. saving' = NotSaving /\ OneLess /\ jobs' = jobs
    <3>1. NextWrite.files = <<"events">>
      BY <2>1
    <3>2. Tail(NextWrite.files) = <<>>
      BY <3>1
    <3> QED BY <1>4, <3>2 DEF Save
  <2>3. /\ disk'.spec = disk.spec /\ disk'.state = disk.state /\ disk'.saved = disk.saved
        /\ disk'.ended = disk.ended \cup saving.ended
        /\ disk' = [spec |-> disk'.spec, state |-> disk'.state, saved |-> disk'.saved,
                    ended |-> disk'.ended]
    BY <1>3, <2>1 DEF DiskTypes
  <2>4. DiskTypes'
    BY <1>3, <2>2, <2>3 DEF DiskTypes, NotSaving, IsMap
  <2>5. TypeOK'
    BY <1>1, <2>2 DEF IInv, TypeOK, OneLess, Objects
  <2>6. LifeInv'
    BY <1>1, <1>2, <1>3, <1>4, <2>1, <2>2, <2>3
       DEF LifeInv, NotSaving, DeletedIsGone, InProgress, OneLess, Objects
  <2>7. SaveInv'
    BY <1>1, <1>3, <2>1, <2>2, <2>3 DEF SaveInv, NotSaving, Objects
  <2> QED BY <1>1, <2>3, <2>4, <2>5, <2>6, <2>7, QuietParts DEF IInv, SavedKept
<1>5. CASE ~InProgress
  <2>1. /\ jobs # <<>> /\ NextWrite = [files |-> <<"state", "events">>, ended |-> Head(jobs)]
        /\ disk' = [disk EXCEPT !.state = "ok", !.saved = dispatches]
    BY <1>2, <1>5, WriteCases
  <2>2. Tail(NextWrite.files) = <<"events">> /\ Tail(NextWrite.files) # <<>>
    BY <2>1
  <2>3. saving' = [NextWrite EXCEPT !.files = Tail(@)] /\ ahead' = ahead /\ jobs' = Tail(jobs)
    BY <1>5, <2>2 DEF Save
  <2>4. saving' = [files |-> <<"events">>, ended |-> Head(jobs)]
    BY <2>1, <2>2, <2>3
  <2>5. /\ disk'.spec = disk.spec /\ disk'.state = "ok" /\ disk'.saved = dispatches
        /\ disk'.ended = disk.ended
        /\ disk' = [spec |-> disk'.spec, state |-> disk'.state, saved |-> disk'.saved,
                    ended |-> disk'.ended]
    BY <1>3, <2>1 DEF DiskTypes
  <2>6. /\ jobs' \in Seq(SUBSET AllIds) /\ Len(jobs') = Len(jobs) - 1 /\ Head(jobs) = jobs[1]
        /\ \A i \in DOMAIN jobs' : i + 1 \in DOMAIN jobs /\ jobs'[i] = jobs[i + 1]
        /\ Head(jobs) \in SUBSET AllIds /\ 1 \in DOMAIN jobs
    BY <1>3, <2>1, <2>3, TailFacts
  <2>7. DiskTypes'
    BY <1>1, <1>3, <2>4, <2>5, <2>6 DEF DiskTypes, IsMap, Objects
  <2>8. TypeOK'
    BY <1>1, <2>3, <2>6 DEF IInv, TypeOK, Objects
  <2>9. LifeInv'
    BY <1>1, <1>2, <1>3, <1>5, <2>1, <2>3, <2>4, <2>5, <2>6
       DEF LifeInv, NotSaving, DeletedIsGone, InProgress, Objects
  <2>10. SaveInv'
    BY <1>1, <1>3, <2>3, <2>4, <2>5, <2>6, <2>1 DEF SaveInv, LifeInv, Objects
  <2> QED BY <1>1, <2>5, <2>7, <2>8, <2>9, <2>10, QuietParts DEF IInv, SavedKept
<1> QED BY <1>4, <1>5

LEMMA SaveErrorGood == ASSUME IInv, SaveError PROVE IInv'
<1>1. UNCHANGED <<life, Objects, sends, strayed>> /\ faults' = faults + 1 /\ faults < MaxFaults
  BY DEF SaveError, objectVars, historyVars, Objects
<1>2. CanWrite /\ disk' \in Broken(NextWrite) /\ saving' = NotSaving /\ OneLess /\ life # "starting"
      /\ jobs' = IF InProgress THEN jobs ELSE Tail(jobs)
  BY DEF SaveError, CanWrite
<1>3. /\ jobs \in Seq(SUBSET AllIds) /\ DiskTypes /\ IsMap(dispatches) /\ LifeInv /\ SaveInv
      /\ faults \in 0..MaxFaults
  BY DEF IInv, TypeOK, IsMap
<1>4. /\ jobs' \in Seq(SUBSET AllIds)
      /\ InProgress => jobs' = jobs
      /\ ~InProgress => Len(jobs') = Len(jobs) - 1
      /\ \A i \in DOMAIN jobs' : \E j \in DOMAIN jobs : jobs'[i] = jobs[j]
  BY <1>2, <1>3, TailFacts, WriteCases
<1>5. /\ disk'.spec = disk.spec
      /\ \/ disk'.saved = disk.saved /\ disk'.state = disk.state
         \/ disk'.saved = <<>> /\ disk'.state = "torn"
      /\ \/ disk'.ended = disk.ended
         \/ /\ saving.files = <<"events">> /\ disk'.ended = disk.ended \cup saving.ended
            /\ disk'.saved = disk.saved /\ disk'.state = disk.state
      /\ disk' = [spec |-> disk'.spec, state |-> disk'.state, saved |-> disk'.saved,
                  ended |-> disk'.ended]
  BY <1>2, <1>3, WriteCases DEF DiskTypes
<1>6. DiskTypes'
  BY <1>2, <1>3, <1>5, EmptyMap DEF DiskTypes, NotSaving
<1>7. TypeOK'
  BY <1>1, <1>2, <1>3, <1>4, BoundsAssumption DEF IInv, TypeOK, OneLess, Objects
<1>8. LifeInv'
  <2>1. life # "erased" /\ (life = "erasing" => ahead \in Nat \ {0})
    BY <1>2, <1>3, WriteCases DEF LifeInv, CanWrite
  <2> QED BY <1>1, <1>2, <1>3, <1>4, <1>5, <2>1
             DEF LifeInv, NotSaving, DeletedIsGone, InProgress, OneLess, Objects
<1>9. SaveInv'
  BY <1>1, <1>2, <1>3, <1>4, <1>5 DEF SaveInv, NotSaving, Objects
<1> QED BY <1>1, <1>5, <1>6, <1>7, <1>8, <1>9, QuietParts DEF IInv, SavedKept

----------------------------------------------------------------------------
(* The life of the object *)

LEMMA StartGood == ASSUME IInv, Start PROVE IInv'
<1>1. UNCHANGED <<Objects, ahead, jobs, disk, faults, strayed, sends>> /\ life' = "starting"
      /\ life = "new"
  BY DEF Start, objectVars, historyVars, Objects
<1>2. /\ saving' = [files |-> InitFiles, ended |-> {}]
      /\ InitFiles \in {<<>>, <<"spec", "seed">>}
  BY DEF Start, NotSaving, InitFiles
<1>3. TypeOK' /\ DiskTypes'
  BY <1>1, <1>2 DEF IInv, TypeOK, DiskTypes, Objects
<1>4. LifeInv'
  BY <1>1, <1>2 DEF IInv, LifeInv, DeletedIsGone, Objects
<1>5. SaveInv'
  BY <1>1, <1>2 DEF IInv, SaveInv, Objects
<1> QED BY <1>1, <1>3, <1>4, <1>5, QuietParts DEF IInv, SavedKept

\* What initializeWorkspace writes, and what an error in that leaves
LEMMA InitializeCases ==
  ASSUME IInv, life = "starting", InProgress
  PROVE  /\ saving.ended = {} /\ Tail(saving.files) \in {<<>>, <<"seed">>}
         /\ \A d \in {Written(saving)} \cup Broken(saving) :
              /\ d = [spec |-> d.spec, state |-> d.state, saved |-> d.saved, ended |-> d.ended]
              /\ d.saved \in {disk.saved, <<>>} /\ d.ended = disk.ended
              /\ d.state = "ok" => disk.state = "ok" /\ d.saved = disk.saved
<1>1. saving.files \in {<<"seed">>, <<"spec", "seed">>} /\ saving.ended = {}
  BY DEF IInv, LifeInv, InProgress
<1>2. CASE saving.files = <<"seed">>
  <2>1. Head(saving.files) = "seed" /\ Tail(saving.files) = <<>>
    BY <1>2
  <2>2. /\ Written(saving) = [disk EXCEPT !.state = "seed"]
        /\ Broken(saving) = {disk, [disk EXCEPT !.state = "torn", !.saved = <<>>]}
    BY <2>1 DEF Written, Broken
  <2>3. ASSUME NEW d,
               d \in {disk, [disk EXCEPT !.state = "seed"],
                     [disk EXCEPT !.state = "torn", !.saved = <<>>]}
        PROVE  /\ d = [spec |-> d.spec, state |-> d.state, saved |-> d.saved, ended |-> d.ended]
               /\ d.saved \in {disk.saved, <<>>} /\ d.ended = disk.ended
               /\ d.state = "ok" => disk.state = "ok" /\ d.saved = disk.saved
    BY <2>3 DEF IInv, DiskTypes
  <2> QED BY <1>1, <2>1, <2>2, <2>3
<1>3. CASE saving.files = <<"spec", "seed">>
  <2>1. Head(saving.files) = "spec" /\ Tail(saving.files) = <<"seed">>
    BY <1>3
  <2>2. /\ Written(saving) = [disk EXCEPT !.spec = "ok"]
        /\ Broken(saving) = {disk, [disk EXCEPT !.spec = "torn"]}
    BY <2>1 DEF Written, Broken
  <2>3. ASSUME NEW d, d \in {disk, [disk EXCEPT !.spec = "ok"], [disk EXCEPT !.spec = "torn"]}
        PROVE  /\ d = [spec |-> d.spec, state |-> d.state, saved |-> d.saved, ended |-> d.ended]
               /\ d.saved = disk.saved /\ d.ended = disk.ended /\ d.state = disk.state
    BY <2>3 DEF IInv, DiskTypes
  <2> QED BY <1>1, <2>1, <2>2, <2>3
<1> QED BY <1>1, <1>2, <1>3

LEMMA InitializeGood == ASSUME IInv, Initialize \/ InitializeError PROVE IInv'
<1>1. /\ UNCHANGED <<Objects, ahead, jobs, strayed, sends>> /\ life = "starting" /\ InProgress
      /\ faults' \in 0..MaxFaults
  BY BoundsAssumption DEF Initialize, InitializeError, objectVars, historyVars, Objects, IInv, TypeOK
<1>2. /\ disk' \in {Written(saving)} \cup Broken(saving)
      /\ \/ life' = "new" /\ saving' = NotSaving
         \/ life' = "starting" /\ saving' = [saving EXCEPT !.files = Tail(@)]
  BY DEF Initialize, InitializeError
<1>3. /\ saving'.files \in {<<>>, <<"seed">>} /\ saving'.ended = {}
      /\ life' = "new" => saving' = NotSaving
      /\ saving' = [files |-> saving'.files, ended |-> saving'.ended]
      /\ life' \in {"new", "starting"}
  <2>1. saving.ended = {} /\ Tail(saving.files) \in {<<>>, <<"seed">>}
    BY <1>1, InitializeCases
  <2>2. CASE life' = "new" /\ saving' = NotSaving
    BY <2>2 DEF NotSaving
  <2>3. CASE life' = "starting" /\ saving' = [saving EXCEPT !.files = Tail(@)]
    <3>1. saving' = [files |-> Tail(saving.files), ended |-> {}]
      BY <2>1, <2>3 DEF IInv, DiskTypes
    <3> QED BY <2>1, <2>3, <3>1
  <2> QED BY <1>2, <2>2, <2>3
<1>4. /\ disk' = [spec |-> disk'.spec, state |-> disk'.state, saved |-> disk'.saved,
                  ended |-> disk'.ended]
      /\ disk'.saved \in {disk.saved, <<>>} /\ disk'.ended = disk.ended
      /\ disk'.state = "ok" => disk.state = "ok" /\ disk'.saved = disk.saved
  BY <1>1, <1>2, InitializeCases
<1>5. TypeOK'
  BY <1>1, <1>3 DEF IInv, TypeOK, Objects
<1>6. DiskTypes'
  BY <1>3, <1>4, EmptyMap DEF IInv, DiskTypes
<1>7. LifeInv'
  <2>1. life' # "starting" => saving'.files = <<>>
    BY <1>3 DEF NotSaving
  <2> QED BY <1>1, <1>3, <2>1 DEF IInv, LifeInv, DeletedIsGone, Objects
<1>8. SaveInv'
  BY <1>1, <1>3, <1>4 DEF IInv, SaveInv, Objects
<1> QED BY <1>1, <1>4, <1>5, <1>6, <1>7, <1>8, QuietParts DEF IInv, SavedKept

LEMMA DeleteGood == ASSUME IInv, Delete PROVE IInv'
<1>1. UNCHANGED <<Objects, saveVars, sends, strayed>>
  BY DEF Delete, objectVars, historyVars, Objects
<1>2. /\ life \in {"active", "closed"} /\ ahead' = Len(jobs) + (IF InProgress THEN 1 ELSE 0)
      /\ life' = IF life = "active" THEN "deleting" ELSE "erasing"
  BY DEF Delete
<1>3. ahead' \in Nat
  BY <1>2 DEF IInv, TypeOK
<1>4. TypeOK' /\ DiskTypes'
  BY <1>1, <1>2, <1>3 DEF IInv, TypeOK, DiskTypes, Objects, saveVars
<1>5. LifeInv'
  BY <1>1, <1>2 DEF IInv, LifeInv, DeletedIsGone, Objects, saveVars, InProgress
<1>6. SaveInv'
  BY <1>1, <1>2 DEF IInv, SaveInv, Objects, saveVars
<1> QED BY <1>1, <1>4, <1>5, <1>6, QuietParts DEF IInv, SavedKept, saveVars

LEMMA RemoveGood == ASSUME IInv, Remove PROVE IInv'
<1>1. UNCHANGED <<Objects, ahead, jobs, saving, faults, sends, strayed>> /\ disk' = NoDisk
  BY DEF Remove, objectVars, historyVars, Objects
<1>2. /\ life \in {"deleting", "erasing"} /\ ahead = 0
      /\ life' = IF life = "deleting" THEN "deleted" ELSE "erased"
  BY DEF Remove, SavesFlushed
<1>3. TypeOK'
  BY <1>1, <1>2 DEF IInv, TypeOK, Objects
<1>4. DiskTypes'
  BY <1>1, EmptyMap DEF IInv, DiskTypes, NoDisk
<1>5. LifeInv'
  <2>1. life = "erasing" => jobs = <<>> /\ ~InProgress
    BY <1>2 DEF IInv, LifeInv, TypeOK
  <2> QED BY <1>1, <1>2, <2>1 DEF IInv, LifeInv, DeletedIsGone, Objects, NoDisk, InProgress
<1>6. SaveInv'
  BY <1>1, <1>2 DEF IInv, SaveInv, Objects, NoDisk
<1> QED BY <1>1, <1>3, <1>4, <1>5, <1>6, QuietParts DEF IInv, SavedKept, NoDisk

\* The stream begins, or ends.
LEMMA StreamEndGood ==
  ASSUME IInv, UNCHANGED <<objectVars, inbox, ahead, historyVars>>, Emit({}),
         claude' = None \/ (claude = None /\ claude' = Idle /\ life = "starting"),
         life = "starting" => ~InProgress, life # "down",
         life' \in {"active", "closed", "deleting", "deleted"},
         life' = "closed" => claude' = None, life' = "deleted" => life = "deleted"
  PROVE  IInv'
<1>1. /\ jobs' \in Seq(SUBSET AllIds) /\ UNCHANGED <<saving, disk, faults>>
  BY EmitFacts DEF IInv, TypeOK
<1>2. TypeOK'
  BY <1>1 DEF IInv, TypeOK, objectVars, Idle
<1>3. DiskTypes' /\ SavedKept
  BY <1>1 DEF IInv, DiskTypes, SavedKept
<1>4. LifeInv'
  BY LifeEmit DEF IInv
<1>5. SaveInv'
  BY SaveEmit DEF IInv, objectVars
<1>6. claude' = Idle => life = "starting" /\ Idle # None
  BY IdsAssumption DEF Idle
<1>7. ~IsFirst' /\ ~At("running")' /\ ~At("over")' /\ ~AtTask'
      /\ (claude' # None => claude'.agent = "none" /\ claude'.message = None)
  BY <1>6, IdsAssumption DEF IsFirst, AtTask, At, Idle
<1>8. claude' # None => pending = <<>> /\ results = <<>> /\ inbox = <<>>
  BY <1>6 DEF IInv, LifeInv
<1>9. QueueInv'
  BY <1>7, <1>8 DEF IInv, QueueInv, objectVars, At
<1>10. MessageInv'
  BY <1>1, <1>7, <1>8 DEF IInv, MessageInv, objectVars, UntrackedKnown
<1>11. CorrelationInv'
  BY <1>1, <1>7, <1>8 DEF IInv, CorrelationInv, objectVars, historyVars, AllOwn
<1>12. WaitInv'
  BY <1>7 DEF IInv, WaitInv, objectVars, historyVars
<1> QED BY <1>2, <1>3, <1>4, <1>5, <1>9, <1>10, <1>11, <1>12 DEF IInv

LEMMA StreamLifeGood == ASSUME IInv, Started \/ Close \/ StreamFails PROVE IInv'
<1>1. CASE Started
  <2>1. claude = None
    BY <1>1 DEF Started, IInv, LifeInv
  <2> QED BY <1>1, <2>1, StreamEndGood DEF Started
<1>2. CASE Close
  BY <1>2, StreamEndGood DEF Close
<1>3. CASE StreamFails
  <2>1. life \in {"active", "deleting", "deleted"}
    BY <1>3 DEF StreamFails, IInv, LifeInv, TypeOK
  <2> QED BY <1>3, <2>1, StreamEndGood DEF StreamFails
<1> QED BY <1>1, <1>2, <1>3

\* Whatever was in memory is gone, and from what is saved everything starts again.
LEMMA CrashGood == ASSUME IInv, Crash PROVE IInv'
<1>1. /\ dispatches' = <<>> /\ pending' = <<>> /\ results' = <<>> /\ taskMap' = <<>>
      /\ inbox' = <<>> /\ claude' = None /\ wait' = Nobody /\ jobs' = <<>>
      /\ saving' = NotSaving /\ ahead' = None /\ life' = "down" /\ strayed' = strayed
      /\ faults' \in 0..MaxFaults
      /\ disk' \in IF InProgress \/ CanWrite THEN Broken(NextWrite) ELSE {disk}
  BY BoundsAssumption DEF Crash, historyVars, IInv, TypeOK
<1>2. /\ disk' = [spec |-> disk'.spec, state |-> disk'.state, saved |-> disk'.saved,
                  ended |-> disk'.ended]
      /\ disk'.saved \in {disk.saved, <<>>} /\ disk'.ended \subseteq AllIds
      /\ disk'.state = "ok" => disk'.ended \subseteq Ended(disk'.saved)
  <2>1. CASE CanWrite
    <3>1. /\ saving.files = <<"events">> => disk' \in {disk, [disk EXCEPT !.ended = @ \cup saving.ended]}
          /\ saving.files # <<"events">> =>
               disk' \in {disk, [disk EXCEPT !.state = "torn", !.saved = <<>>]}
      BY <1>1, <2>1, WriteCases
    <3> QED BY <3>1 DEF IInv, DiskTypes, SaveInv
  <2>2. CASE ~CanWrite /\ InProgress
    <3>1. life = "starting" /\ NextWrite = saving
      BY <2>2 DEF CanWrite, NextWrite
    <3> QED BY <1>1, <2>2, <3>1, InitializeCases DEF IInv, DiskTypes, SaveInv
  <2>3. CASE ~CanWrite /\ ~InProgress
    BY <1>1, <2>3 DEF IInv, DiskTypes, SaveInv
  <2> QED BY <2>1, <2>2, <2>3
<1>3. TypeOK'
  BY <1>1, EmptyMap DEF TypeOK, IsMap, IsInjective, Range, Nobody
<1>4. DiskTypes'
  BY <1>1, <1>2, EmptyMap DEF IInv, DiskTypes, NotSaving
<1>5. LifeInv'
  BY <1>1 DEF LifeInv, DeletedIsGone, NotSaving
<1>6. QueueInv'
  BY <1>1 DEF QueueInv, At
<1>7. MessageInv'
  BY <1>1, <1>2 DEF IInv, MessageInv, AtTask, UntrackedKnown
<1>8. CorrelationInv'
  BY <1>1, <1>2 DEF IInv, CorrelationInv, AllOwn, At, IsFirst, AtTask
<1>9. WaitInv'
  BY <1>1 DEF WaitInv, AtTask
<1>10. SaveInv'
  BY <1>1, <1>2 DEF IInv, SaveInv, NotSaving, Ended
<1> QED BY <1>3, <1>4, <1>5, <1>6, <1>7, <1>8, <1>9, <1>10 DEF IInv

LEMMA RestoreGood == ASSUME IInv, Restore PROVE IInv'
<1>1. /\ UNCHANGED <<pending, results, taskMap, wait, inbox, claude, ahead, saveVars, historyVars>>
      /\ life = "down" /\ life' = "new" /\ dispatches' = disk.saved /\ disk.state = "ok"
  BY DEF Restore
<1>2. /\ pending = <<>> /\ results = <<>> /\ taskMap = <<>> /\ inbox = <<>> /\ claude = None
      /\ wait = Nobody /\ saving = NotSaving /\ jobs = <<>>
  BY <1>1 DEF IInv, LifeInv
<1>3. TypeOK'
  BY <1>1, <1>2 DEF IInv, TypeOK, DiskTypes, IsMap, saveVars, Range
<1>4. DiskTypes' /\ LifeInv'
  BY <1>1 DEF IInv, DiskTypes, LifeInv, DeletedIsGone, saveVars
<1>5. QueueInv' /\ MessageInv' /\ WaitInv'
  BY <1>1, <1>2 DEF IInv, QueueInv, MessageInv, WaitInv, At, AtTask, saveVars, Nobody, UntrackedKnown
<1>6. CorrelationInv'
  BY <1>1, <1>2 DEF IInv, CorrelationInv, AllOwn, At, IsFirst, AtTask, saveVars, historyVars
<1>7. SaveInv'
  BY <1>1, <1>2 DEF IInv, SaveInv, saveVars, NotSaving
<1> QED BY <1>3, <1>4, <1>5, <1>6, <1>7 DEF IInv

----------------------------------------------------------------------------
(* Calls *)

\* A step that queues a save while the stream runs, or may run
LEMMA EmitStep ==
  ASSUME IInv, NEW ended \in SUBSET AllIds, Emit(ended), UNCHANGED <<life, ahead>>,
         life \in {"active", "closed", "deleting", "deleted"},
         life = "closed" => claude' = None,
         Ended(dispatches) \cup ended \subseteq Ended(dispatches)'
  PROVE  /\ DiskTypes' /\ LifeInv' /\ SaveInv' /\ SavedKept
         /\ jobs' \in Seq(SUBSET AllIds) /\ UNCHANGED <<saving, disk, faults>>
<1>1. jobs' \in Seq(SUBSET AllIds) /\ UNCHANGED <<saving, disk, faults>>
  BY EmitFacts DEF IInv, TypeOK
<1>2. DiskTypes' /\ SavedKept
  BY <1>1 DEF IInv, DiskTypes, SavedKept
<1>3. LifeInv' /\ SaveInv'
  BY LifeEmit, SaveEmit DEF IInv
<1> QED BY <1>1, <1>2, <1>3

\* With a stream the object is in use, or deleted while it was.
LEMMA StreamLife == ASSUME IInv, claude # None PROVE life \in {"active", "deleting", "deleted"}
BY DEF IInv, LifeInv, TypeOK

LEMMA TaskProgressGood == ASSUME IInv, TaskProgress PROVE IInv'
<1>1. UNCHANGED <<life, Objects, ahead, sends, strayed>> /\ Emit({}) /\ claude # None
  BY DEF TaskProgress, AgentRuns, AtTask, objectVars, historyVars, Objects
<1>2. life \in {"active", "deleting", "deleted"}
  BY <1>1, StreamLife
<1>3. /\ DiskTypes' /\ LifeInv' /\ SaveInv' /\ SavedKept
      /\ jobs' \in Seq(SUBSET AllIds) /\ UNCHANGED faults
  BY <1>1, <1>2, EmitStep DEF Objects
<1>4. TypeOK'
  BY <1>1, <1>3 DEF IInv, TypeOK, Objects
<1> QED BY <1>1, <1>3, <1>4, QuietParts DEF IInv

LEMMA SendGood == ASSUME IInv, Send PROVE IInv'
<1>1. /\ UNCHANGED <<life, objectVars, claude, ahead, strayed>> /\ Emit({}) /\ life = "active"
      /\ inbox' = Append(inbox, UserMessage)
  BY DEF Send
<1>2. /\ DiskTypes' /\ LifeInv' /\ SaveInv' /\ SavedKept
      /\ jobs' \in Seq(SUBSET AllIds) /\ UNCHANGED <<disk, faults>>
  BY <1>1, EmitStep DEF objectVars
<1>3. /\ inbox' \in Seq(DispatchIds \cup {UserMessage})
      /\ \A k \in DOMAIN inbox : k \in DOMAIN inbox' /\ inbox'[k] = inbox[k]
      /\ \A k \in DOMAIN inbox' : inbox'[k] \in DispatchIds => k \in DOMAIN inbox
  BY <1>1, AppendFacts, IdsAssumption DEF IInv, TypeOK
<1>4. TypeOK'
  BY <1>1, <1>2, <1>3 DEF IInv, TypeOK, objectVars
<1>5. QueueInv' /\ WaitInv'
  BY <1>1, QueueStutter, WaitStutter DEF IInv, objectVars
<1>6. MessageInv'
  BY <1>1, <1>2, <1>3 DEF IInv, MessageInv, objectVars, AtTask, UntrackedKnown
<1>7. CorrelationInv'
  <2>1. SUFFICES ASSUME ~strayed PROVE CorrelationInv'
    BY <1>1 DEF CorrelationInv
  <2>2. \A i \in DOMAIN pending : pending[i] \in DispatchIds
    BY DEF IInv, TypeOK
  <2>3. claude # None =>
          /\ \A k \in DOMAIN inbox' : inbox'[k] \in DispatchIds => inbox'[k] \in Range(pending)
          /\ \A i \in DOMAIN pending : (i = 1 /\ IsFirst) \/ pending[i] \in Range(inbox')
          /\ \A i, j \in DOMAIN pending, k, l \in DOMAIN inbox' :
               i < j /\ inbox'[k] = pending[i] /\ inbox'[l] = pending[j] => k < l
    BY <1>3, <2>1, <2>2 DEF IInv, CorrelationInv, Range
  <2> QED BY <1>1, <1>2, <2>1, <2>3
             DEF IInv, CorrelationInv, objectVars, AllOwn, IsFirst, AtTask, At
<1> QED BY <1>2, <1>4, <1>5, <1>6, <1>7 DEF IInv

\* A dispatch that is queued is new to all queues, and so is the one made up for its task.
LEMMA QueuedFacts ==
  ASSUME IInv, NEW d \in DispatchIds \ DOMAIN dispatches,
         dispatches' = Put(dispatches, d, NewDispatch), pending' = Append(pending, d),
         UNCHANGED <<results, taskMap, claude>>
  PROVE  /\ IsMap(dispatches)' /\ pending' \in Seq(DispatchIds) /\ IsInjective(pending)'
         /\ DOMAIN dispatches' = DOMAIN dispatches \cup {d}
         /\ (Range(taskMap) \cup Range(pending) \cup Range(results))' \subseteq DOMAIN dispatches'
         /\ \A x \in DOMAIN dispatches : dispatches'[x] = dispatches[x]
         /\ dispatches'[d].status = "queued" /\ dispatches'[d].result = None
         /\ dispatches'[d].task = None
         /\ Ended(dispatches) \subseteq Ended(dispatches)'
         /\ QueueInv' /\ UntrackedKnown(dispatches')
         /\ \A x \in DispatchIds : Untracked(x) # d
         /\ Untracked(d) \notin DOMAIN dispatches
<1>1. /\ DOMAIN dispatches' = DOMAIN dispatches \cup {d}
      /\ \A x \in DOMAIN dispatches : dispatches'[x] = dispatches[x]
      /\ dispatches'[d] = NewDispatch /\ NewDispatch \in Dispatch
      /\ dispatches' \in [DOMAIN dispatches' -> Dispatch]
      /\ NewDispatch.status = "queued" /\ NewDispatch.result = None /\ NewDispatch.task = None
  BY DEF Put, NewDispatch, Dispatch, IInv, TypeOK
<1>2. IsMap(dispatches)'
  BY <1>1 DEF IsMap, AllIds, IInv, TypeOK
<1>3. /\ pending' \in Seq(DispatchIds) /\ DOMAIN pending = 1..Len(pending)
      /\ DOMAIN pending' = 1..(Len(pending) + 1) /\ pending'[Len(pending) + 1] = d
      /\ Len(pending) \in Nat
      /\ \A i \in DOMAIN pending : pending'[i] = pending[i] /\ pending[i] \in DOMAIN dispatches
  BY AppendFacts DEF IInv, TypeOK, Range
<1>4. IsInjective(pending)'
  BY <1>3 DEF IInv, TypeOK, IsInjective
<1>5. (Range(taskMap) \cup Range(pending) \cup Range(results))' \subseteq DOMAIN dispatches'
  BY <1>1, <1>3 DEF IInv, TypeOK, Range
<1>6. Ended(dispatches) \subseteq Ended(dispatches)'
  BY <1>1 DEF Ended
<1>7. /\ \A x \in DispatchIds : Untracked(x) # d
      /\ UntrackedKnown(dispatches') /\ Untracked(d) \notin DOMAIN dispatches
  BY <1>1, IdsAssumption DEF IInv, MessageInv, UntrackedKnown
<1>8. QueueInv'
  <2>1. \A i \in DOMAIN pending' :
          dispatches'[pending'[i]].status = "queued" /\ dispatches'[pending'[i]].result = None
    BY <1>1, <1>3 DEF IInv, QueueInv
  <2>2. \A i \in DOMAIN results :
          results[i] \in DOMAIN dispatches /\ dispatches'[results[i]] = dispatches[results[i]]
    BY <1>1 DEF IInv, TypeOK, Range
  <2>3. \A t \in DOMAIN taskMap :
          taskMap[t] \in DOMAIN dispatches /\ dispatches'[taskMap[t]] = dispatches[taskMap[t]]
    BY <1>1 DEF IInv, TypeOK, Range
  <2> QED BY <2>1, <2>2, <2>3 DEF IInv, QueueInv, At
<1> QED BY <1>1, <1>2, <1>3, <1>4, <1>5, <1>6, <1>7, <1>8

LEMMA AssignGood == ASSUME IInv, Assign PROVE IInv'
<1>1. PICK d \in DispatchIds \ DOMAIN dispatches, waits \in BOOLEAN :
        /\ life = "active" /\ dispatches' = Put(dispatches, d, NewDispatch)
        /\ pending' = Append(pending, d) /\ inbox' = Append(inbox, d)
        /\ wait' = [wait EXCEPT ![d] = IF waits THEN "assigned" ELSE "none"]
        /\ Emit({})
        /\ UNCHANGED <<life, results, taskMap, claude, ahead, historyVars>>
  BY DEF Assign
<1>2. /\ IsMap(dispatches)' /\ pending' \in Seq(DispatchIds) /\ IsInjective(pending)'
      /\ DOMAIN dispatches' = DOMAIN dispatches \cup {d}
      /\ (Range(taskMap) \cup Range(pending) \cup Range(results))' \subseteq DOMAIN dispatches'
      /\ \A x \in DOMAIN dispatches : dispatches'[x] = dispatches[x]
      /\ dispatches'[d].status = "queued" /\ dispatches'[d].result = None
      /\ dispatches'[d].task = None
      /\ Ended(dispatches) \subseteq Ended(dispatches)'
      /\ QueueInv' /\ UntrackedKnown(dispatches')
      /\ \A x \in DispatchIds : Untracked(x) # d
      /\ Untracked(d) \notin DOMAIN dispatches
  BY <1>1, QueuedFacts
<1>3. /\ DiskTypes' /\ LifeInv' /\ SaveInv' /\ SavedKept
      /\ jobs' \in Seq(SUBSET AllIds) /\ UNCHANGED <<disk, faults>>
  BY <1>1, <1>2, EmitStep
<1>4. /\ inbox' \in Seq(DispatchIds \cup {UserMessage}) /\ DOMAIN inbox = 1..Len(inbox)
      /\ DOMAIN inbox' = 1..(Len(inbox) + 1) /\ inbox'[Len(inbox) + 1] = d
      /\ Len(inbox) \in Nat
      /\ \A k \in DOMAIN inbox : inbox'[k] = inbox[k] /\ inbox[k] # d
  <2>1. \A k \in DOMAIN inbox : inbox[k] # d
    BY <1>1 DEF IInv, MessageInv
  <2> QED BY <1>1, <2>1, AppendFacts DEF IInv, TypeOK
<1>5. /\ wait' \in [DispatchIds -> {"none", "assigned", "terminal", "result"}]
      /\ \A x \in DispatchIds : x # d => wait'[x] = wait[x]
      /\ wait'[d] \in {"assigned", "none"}
  BY <1>1 DEF IInv, TypeOK
<1>6. AtTask => claude.message \in DOMAIN dispatches /\ claude.message # d
  BY <1>1 DEF IInv, MessageInv
<1>7. TypeOK'
  BY <1>1, <1>2, <1>3, <1>4, <1>5 DEF IInv, TypeOK, IsMap
<1>8. MessageInv'
  <2>1. ASSUME NEW k \in DOMAIN inbox', inbox'[k] \in DispatchIds
        PROVE  /\ inbox'[k] \in DOMAIN dispatches'
               /\ Untracked(inbox'[k]) \notin DOMAIN dispatches'
               /\ \A l \in DOMAIN inbox' : inbox'[l] = inbox'[k] => l = k
               /\ claude # None => claude.message # inbox'[k]
    BY <1>1, <1>2, <1>4, <1>6, <2>1 DEF IInv, MessageInv, AtTask
  <2>2. AtTask => /\ claude.message \in DOMAIN dispatches'
                  /\ claude.agent = "none" => Untracked(claude.message) \notin DOMAIN dispatches'
    BY <1>2, <1>6 DEF IInv, MessageInv, AtTask
  <2> QED BY <1>1, <1>2, <1>3, <2>1, <2>2 DEF IInv, MessageInv, AtTask
<1>9. CorrelationInv'
  <2>1. SUFFICES ASSUME ~strayed PROVE CorrelationInv'
    BY <1>1 DEF CorrelationInv, historyVars
  <2>2. /\ DOMAIN pending = 1..Len(pending) /\ Len(pending) \in Nat
        /\ DOMAIN pending' = 1..(Len(pending) + 1) /\ pending'[Len(pending) + 1] = d
        /\ \A i \in DOMAIN pending : pending'[i] = pending[i] /\ pending[i] # d
    BY <1>1, AppendFacts DEF IInv, TypeOK, Range
  <2>3. AllOwn(dispatches')
    BY <1>1, <1>2, <2>1 DEF IInv, CorrelationInv, AllOwn
  <2>4. ASSUME claude # None
        PROVE  /\ IsFirst => pending' # <<>> /\ pending'[1] = claude.message
               /\ \A k \in DOMAIN inbox' : inbox'[k] \in DispatchIds => inbox'[k] \in Range(pending')
               /\ \A i \in DOMAIN pending' : (i = 1 /\ IsFirst) \/ pending'[i] \in Range(inbox')
    BY <1>4, <2>1, <2>2, <2>4 DEF IInv, CorrelationInv, Range
  <2>5. ASSUME claude # None, NEW i \in DOMAIN pending', NEW j \in DOMAIN pending',
               NEW k \in DOMAIN inbox', NEW l \in DOMAIN inbox',
               i < j, inbox'[k] = pending'[i], inbox'[l] = pending'[j]
        PROVE  k < l
    <3>1. i \in DOMAIN pending /\ k \in DOMAIN inbox
      BY <1>4, <2>2, <2>5
    <3> QED BY <1>4, <2>1, <2>2, <2>5, <3>1 DEF IInv, CorrelationInv
  <2>6. At("running") => taskMap[claude.message] = claude.message
    BY <2>1 DEF IInv, CorrelationInv
  <2>7. At("over") => results[1] = claude.message
    BY <2>1 DEF IInv, CorrelationInv
  <2>8. AllOwn(disk.saved)
    BY <2>1 DEF IInv, CorrelationInv
  <2> QED BY <1>1, <1>3, <2>3, <2>4, <2>5, <2>6, <2>7, <2>8
             DEF CorrelationInv, IsFirst, AtTask, At
<1>10. WaitInv'
  BY <1>1, <1>2, <1>5, <1>6 DEF IInv, WaitInv, AtTask, historyVars
<1> QED BY <1>2, <1>3, <1>7, <1>8, <1>9, <1>10 DEF IInv

LEMMA AssignThrowsGood == ASSUME IInv, AssignThrows PROVE IInv'
<1>1. PICK d \in DispatchIds \ DOMAIN dispatches :
        /\ life \in {"active", "closed"} /\ dispatches' = Put(dispatches, d, NewDispatch)
        /\ pending' = Append(pending, d) /\ strayed' = TRUE /\ Emit({})
        /\ UNCHANGED <<life, results, taskMap, wait, inbox, claude, ahead, sends>>
  BY DEF AssignThrows
<1>2. /\ IsMap(dispatches)' /\ pending' \in Seq(DispatchIds) /\ IsInjective(pending)'
      /\ DOMAIN dispatches' = DOMAIN dispatches \cup {d}
      /\ (Range(taskMap) \cup Range(pending) \cup Range(results))' \subseteq DOMAIN dispatches'
      /\ \A x \in DOMAIN dispatches : dispatches'[x] = dispatches[x]
      /\ dispatches'[d].status = "queued" /\ dispatches'[d].result = None
      /\ Ended(dispatches) \subseteq Ended(dispatches)'
      /\ QueueInv' /\ UntrackedKnown(dispatches')
      /\ \A x \in DispatchIds : Untracked(x) # d
  BY <1>1, QueuedFacts
<1>3. life = "closed" => claude = None
  BY DEF IInv, LifeInv
<1>4. /\ DiskTypes' /\ LifeInv' /\ SaveInv' /\ SavedKept
      /\ jobs' \in Seq(SUBSET AllIds) /\ UNCHANGED <<disk, faults>>
  BY <1>1, <1>2, <1>3, EmitStep
<1>5. TypeOK'
  BY <1>1, <1>2, <1>4 DEF IInv, TypeOK, IsMap
<1>6. MessageInv'
  BY <1>1, <1>2, <1>4 DEF IInv, MessageInv, AtTask
<1>7. CorrelationInv' /\ WaitInv'
  BY <1>1, <1>2 DEF IInv, CorrelationInv, WaitInv, AtTask
<1> QED BY <1>2, <1>4, <1>5, <1>6, <1>7 DEF IInv

LEMMA CallerGood == ASSUME IInv, Listen \/ TimedOut PROVE IInv'
<1>1. PICK d \in DispatchIds, w \in {"terminal", "none"} :
        /\ wait[d] \in {"assigned", "terminal", "result"}
        /\ w = "terminal" => wait[d] = "assigned"
        /\ wait' = [wait EXCEPT ![d] = w]
        /\ UNCHANGED <<life, dispatches, pending, results, taskMap, inbox, claude, ahead, saveVars,
                       historyVars>>
  BY DEF Listen, TimedOut
<1>2. /\ wait' \in [DispatchIds -> {"none", "assigned", "terminal", "result"}]
      /\ \A x \in DispatchIds : x # d => wait'[x] = wait[x]
      /\ wait'[d] = w
  BY <1>1 DEF IInv, TypeOK
<1>3. TypeOK' /\ DiskTypes' /\ SavedKept
  BY <1>1, <1>2 DEF IInv, TypeOK, DiskTypes, saveVars, SavedKept
<1>4. LifeInv'
  <2>1. wait # Nobody
    BY <1>1 DEF Nobody
  <2> QED BY <1>1, <2>1 DEF IInv, LifeInv, DeletedIsGone, InProgress, saveVars
<1>5. QueueInv' /\ MessageInv' /\ CorrelationInv'
  BY <1>1, <1>3, QueueStutter, MessageStutter, CorrelationStutter DEF IInv, historyVars
<1>6. WaitInv'
  BY <1>1, <1>2 DEF IInv, WaitInv, AtTask, historyVars
<1>7. SaveInv'
  BY <1>1 DEF IInv, SaveInv, saveVars
<1> QED BY <1>3, <1>4, <1>5, <1>6, <1>7 DEF IInv

----------------------------------------------------------------------------
(* The stream *)

\* The first pending dispatch leaves the queue.
LEMMA FirstLeaves ==
  ASSUME IInv, pending # <<>>, pending' = Tail(pending)
  PROVE  /\ pending' \in Seq(DispatchIds) /\ IsInjective(pending)'
         /\ Head(pending) = pending[1] /\ 1 \in DOMAIN pending /\ pending[1] \in DispatchIds
         /\ pending[1] \in DOMAIN dispatches
         /\ DOMAIN pending \subseteq Nat
         /\ \A i \in DOMAIN pending' : /\ i \in Nat /\ i + 1 \in DOMAIN pending
                                       /\ pending'[i] = pending[i + 1]
                                       /\ pending[i + 1] # pending[1] /\ i + 1 # 1
         /\ Range(pending') \subseteq Range(pending)
         /\ \A x \in Range(pending) : x = pending[1] \/ x \in Range(pending')
<1>1. /\ pending' \in Seq(DispatchIds) /\ Len(pending') = Len(pending) - 1
      /\ Head(pending) = pending[1] /\ 1 \in DOMAIN pending /\ DOMAIN pending = 1..Len(pending)
      /\ Len(pending) \in Nat /\ Head(pending) \in DispatchIds
      /\ DOMAIN pending' = 1..(Len(pending) - 1)
      /\ \A i \in DOMAIN pending' : i + 1 \in DOMAIN pending /\ pending'[i] = pending[i + 1]
  BY TailFacts DEF IInv, TypeOK
<1>2. \A i \in DOMAIN pending' : i \in Nat /\ i + 1 # 1 /\ pending[i + 1] # pending[1]
  BY <1>1 DEF IInv, TypeOK, IsInjective
<1>3. IsInjective(pending)'
  <2>1. ASSUME NEW i \in DOMAIN pending', NEW j \in DOMAIN pending', pending'[i] = pending'[j]
        PROVE  i = j
    <3>1. i + 1 \in DOMAIN pending /\ j + 1 \in DOMAIN pending /\ pending[i + 1] = pending[j + 1]
      BY <1>1, <2>1
    <3>2. i + 1 = j + 1
      BY <3>1 DEF IInv, TypeOK, IsInjective
    <3> QED BY <1>1, <3>2
  <2> QED BY <2>1 DEF IsInjective
<1>4. Range(pending') \subseteq Range(pending)
  BY <1>1 DEF Range
<1>5. ASSUME NEW x \in Range(pending), x # pending[1]
      PROVE  x \in Range(pending')
  <2>1. PICK i \in DOMAIN pending : x = pending[i]
    BY DEF Range
  <2>2. i \in 1..Len(pending) /\ i # 1
    BY <1>1, <1>5, <2>1
  <2>3. i - 1 \in DOMAIN pending' /\ (i - 1) + 1 = i
    BY <1>1, <2>2
  <2> QED BY <1>1, <2>1, <2>3 DEF Range
<1>6. pending[1] \in DOMAIN dispatches
  BY <1>1 DEF IInv, TypeOK, Range
<1> QED BY <1>1, <1>2, <1>3, <1>4, <1>5, <1>6

LEMMA TakeMessageGood == ASSUME IInv, TakeMessage PROVE IInv'
<1>1. /\ claude = Idle /\ inbox # <<>> /\ \A d \in DispatchIds : wait[d] # "assigned"
      /\ inbox' = Tail(inbox)
      /\ UNCHANGED <<life, dispatches, pending, results, taskMap, wait, ahead, saveVars, strayed>>
      /\ UNCHANGED <<sends>>
  BY DEF TakeMessage, objectVars, historyVars
<1>2. /\ claude' = [message |-> Head(inbox), agent |-> "none"]
      /\ claude'.message = Head(inbox) /\ claude'.agent = "none"
  BY DEF TakeMessage, Idle
<1>3. claude # None /\ ~AtTask /\ ~At("over") /\ ~At("running") /\ ~IsFirst
  BY <1>1, IdsAssumption DEF Idle, AtTask, At, IsFirst
<1>4. /\ inbox' \in Seq(DispatchIds \cup {UserMessage}) /\ Head(inbox) = inbox[1]
      /\ 1 \in DOMAIN inbox /\ Head(inbox) \in DispatchIds \cup {UserMessage}
      /\ DOMAIN inbox = 1..Len(inbox) /\ DOMAIN inbox' = 1..(Len(inbox) - 1) /\ Len(inbox) \in Nat
      /\ \A k \in DOMAIN inbox' : k + 1 \in DOMAIN inbox /\ inbox'[k] = inbox[k + 1]
  BY <1>1, TailFacts DEF IInv, TypeOK
<1>5. TypeOK' /\ DiskTypes' /\ SavedKept
  BY <1>1, <1>2, <1>4 DEF IInv, TypeOK, DiskTypes, saveVars, SavedKept
<1>6. LifeInv'
  BY <1>1, <1>3, StreamLife DEF IInv, LifeInv, DeletedIsGone, saveVars, InProgress
<1>7. results = <<>>
  BY <1>3 DEF IInv, QueueInv
<1>8. QueueInv'
  BY <1>1, <1>2, <1>7 DEF IInv, QueueInv, At
<1>9. MessageInv'
  <2>1. ASSUME NEW k \in DOMAIN inbox', inbox'[k] \in DispatchIds
        PROVE  /\ inbox'[k] \in DOMAIN dispatches
               /\ Untracked(inbox'[k]) \notin DOMAIN dispatches
               /\ \A l \in DOMAIN inbox' : inbox'[l] = inbox'[k] => l = k
               /\ inbox[1] # inbox'[k]
    <3>1. /\ k + 1 \in DOMAIN inbox /\ inbox'[k] = inbox[k + 1]
          /\ k \in Nat /\ k + 1 # 1
      BY <1>4
    <3>2. \A l \in DOMAIN inbox' : /\ l \in Nat /\ l + 1 \in DOMAIN inbox
                                   /\ inbox'[l] = inbox[l + 1]
      BY <1>4
    <3>3. \A l \in DOMAIN inbox : inbox[l] = inbox[k + 1] => l = k + 1
      BY <2>1, <3>1 DEF IInv, MessageInv
    <3> QED BY <1>4, <2>1, <3>1, <3>2, <3>3 DEF IInv, MessageInv
  <2>2. inbox[1] \in DispatchIds => /\ inbox[1] \in DOMAIN dispatches
                                    /\ Untracked(inbox[1]) \notin DOMAIN dispatches
    BY <1>4 DEF IInv, MessageInv
  <2> QED BY <1>1, <1>2, <1>4, <2>1, <2>2 DEF IInv, MessageInv, AtTask, saveVars
<1>10. CorrelationInv'
  <2>1. SUFFICES ASSUME ~strayed PROVE CorrelationInv'
    BY <1>1 DEF CorrelationInv
  <2>2. /\ \A k \in DOMAIN inbox : inbox[k] \in DispatchIds => inbox[k] \in Range(pending)
        /\ \A i \in DOMAIN pending : pending[i] \in Range(inbox)
        /\ \A i, j \in DOMAIN pending, k, l \in DOMAIN inbox :
             i < j /\ inbox[k] = pending[i] /\ inbox[l] = pending[j] => k < l
    BY <1>3, <2>1 DEF IInv, CorrelationInv
  <2>3. /\ DOMAIN pending = 1..Len(pending) /\ Len(pending) \in Nat
        /\ \A i, j \in DOMAIN pending : pending[i] = pending[j] => i = j
        /\ \A i \in DOMAIN pending : pending[i] \in DispatchIds
    BY DEF IInv, TypeOK, IsInjective
  <2>4. ASSUME inbox[1] \in DispatchIds
        PROVE  pending # <<>> /\ pending[1] = inbox[1]
    <3>1. PICK i \in DOMAIN pending : pending[i] = inbox[1]
      BY <1>4, <2>2, <2>4 DEF Range
    <3>2. 1 \in DOMAIN pending /\ pending # <<>>
      BY <2>3, <3>1
    <3>3. PICK k \in DOMAIN inbox : inbox[k] = pending[1]
      BY <2>2, <3>2 DEF Range
    <3>4. i = 1
      <4>1. SUFFICES ASSUME 1 < i PROVE FALSE
        BY <2>3, <3>1
      <4>2. k < 1
        BY <1>4, <2>2, <3>1, <3>2, <3>3, <4>1
      <4> QED BY <1>4, <3>3, <4>2
    <3> QED BY <3>1, <3>2, <3>4
  <2>5. ASSUME NEW i \in DOMAIN pending
        PROVE  (i = 1 /\ IsFirst') \/ pending[i] \in Range(inbox')
    <3>1. PICK k \in DOMAIN inbox : inbox[k] = pending[i]
      BY <2>2 DEF Range
    <3>2. CASE k = 1
      <4>1. inbox[1] \in DispatchIds /\ pending[1] = pending[i]
        BY <2>3, <2>4, <3>1, <3>2
      <4>2. i = 1
        BY <2>3, <2>4, <4>1
      <4> QED BY <1>2, <1>4, <1>5, <4>1, <4>2, IdsAssumption DEF IsFirst, AtTask, TypeOK
    <3>3. CASE k # 1
      <4>1. k - 1 \in DOMAIN inbox' /\ (k - 1) + 1 = k
        BY <1>4, <3>1, <3>3
      <4> QED BY <1>4, <3>1, <4>1 DEF Range
    <3> QED BY <3>2, <3>3
  <2>6. ASSUME NEW i \in DOMAIN pending, NEW j \in DOMAIN pending,
               NEW k \in DOMAIN inbox', NEW l \in DOMAIN inbox',
               i < j, inbox'[k] = pending[i], inbox'[l] = pending[j]
        PROVE  k < l
    <3>1. /\ k + 1 \in DOMAIN inbox /\ l + 1 \in DOMAIN inbox /\ k \in Nat /\ l \in Nat
          /\ inbox[k + 1] = pending[i] /\ inbox[l + 1] = pending[j]
      BY <1>4, <2>6
    <3>2. k + 1 < l + 1
      BY <2>2, <2>6, <3>1
    <3> QED BY <3>1, <3>2
  <2>7. \A k \in DOMAIN inbox' : inbox'[k] \in DispatchIds => inbox'[k] \in Range(pending)
    BY <1>4, <2>2
  <2>8. AllOwn(dispatches) /\ AllOwn(disk.saved)
    BY <2>1 DEF IInv, CorrelationInv
  <2>9. ~At("running")' /\ ~At("over")'
    BY <1>2 DEF At
  <2>10. IsFirst' => inbox[1] \in DispatchIds
    BY <1>2, <1>4 DEF IsFirst, AtTask
  <2> QED BY <1>1, <1>2, <1>4, <2>4, <2>5, <2>6, <2>7, <2>8, <2>9, <2>10
             DEF CorrelationInv, saveVars
<1>11. WaitInv'
  BY <1>1, <1>2 DEF IInv, WaitInv, AtTask
<1>12. SaveInv'
  BY <1>1 DEF IInv, SaveInv, saveVars
<1> QED BY <1>5, <1>6, <1>8, <1>9, <1>10, <1>11, <1>12 DEF IInv

LEMMA TaskStartedGood == ASSUME IInv, TaskStarted PROVE IInv'
<1> DEFINE task == claude.message
           id == NextForTask(task)
           known == IF id \in DOMAIN dispatches THEN dispatches[id] ELSE NewDispatch
<1>1. /\ AtTask /\ claude.agent = "none" /\ claude # None /\ task \in DispatchIds /\ IsFirst
      /\ dispatches' = Put(dispatches, id, [known EXCEPT !.status = "started", !.task = task])
      /\ pending' = IF pending = <<>> THEN pending ELSE Tail(pending)
      /\ taskMap' = Put(taskMap, task, id)
      /\ Emit({}) /\ UNCHANGED <<life, results, wait, inbox, ahead, sends, strayed>>
  BY DEF TaskStarted, AtTask, historyVars, IsFirst
<1>2. /\ claude' = [claude EXCEPT !.agent = "running"]
      /\ claude' = [message |-> task, agent |-> "running"]
      /\ claude'.message = task /\ claude'.agent = "running" /\ claude' # None
  <2>1. claude' = [claude EXCEPT !.agent = "running"]
    BY DEF TaskStarted
  <2>2. claude' = [message |-> task, agent |-> "running"]
    BY <1>1, <2>1 DEF IInv, TypeOK
  <2>3. claude' \in [message: {None, UserMessage} \cup DispatchIds, agent: {"none", "running", "over"}]
    BY <1>1, <2>2
  <2> QED BY <2>1, <2>2, <2>3, IdsAssumption
<1>3. results = <<>>
  BY <1>1 DEF IInv, QueueInv, At
\* The dispatch is queued and has nothing yet, or is made up.
<1>4. /\ id \in AllIds /\ known \in Dispatch /\ known.status = "queued" /\ known.result = None
      /\ id \in Range(pending) \/ (pending = <<>> /\ id = Untracked(task))
      /\ id \notin Range(pending)'
      /\ id \notin Ended(dispatches) /\ task \in DOMAIN dispatches
      /\ \A x \in DispatchIds : Untracked(x) = id => x = task
      /\ id = Untracked(task) => id \notin DOMAIN dispatches
  <2>1. CASE pending = <<>>
    <3>1. id = Untracked(task) /\ id \notin DOMAIN dispatches /\ known = NewDispatch
      BY <1>1, <2>1 DEF NextForTask, IInv, MessageInv
    <3>2. id \in AllIds /\ task \in DOMAIN dispatches
      BY <1>1, <3>1 DEF AllIds, IInv, MessageInv
    <3>3. known \in Dispatch /\ known.status = "queued" /\ known.result = None
      BY <3>1 DEF NewDispatch, Dispatch
    <3>4. id \notin Range(pending)' /\ id \notin Ended(dispatches)
      BY <1>1, <2>1, <3>1 DEF Range, Ended
    <3>5. \A x \in DispatchIds : Untracked(x) = id => x = task
      BY <3>1 DEF Untracked
    <3> HIDE DEF id, known, task
    <3> QED BY <2>1, <3>1, <3>2, <3>3, <3>4, <3>5
  <2>2. CASE pending # <<>>
    <3>1. /\ id = pending[1] /\ 1 \in DOMAIN pending /\ id \in DispatchIds /\ id \in DOMAIN dispatches
          /\ known = dispatches[id] /\ id \notin Range(pending') /\ id \in Range(pending)
      <4>1. pending' = Tail(pending)
        BY <1>1, <2>2
      <4>2. id = Head(pending)
        BY <2>2 DEF NextForTask
      <4> HIDE DEF id, known
      <4>3. /\ id = pending[1] /\ 1 \in DOMAIN pending /\ id \in DispatchIds
            /\ id \in DOMAIN dispatches /\ id \notin Range(pending')
        BY <2>2, <4>1, <4>2, FirstLeaves DEF Range
      <4> QED BY <4>3 DEF known, Range
    <3>2. known \in Dispatch /\ known.status = "queued" /\ known.result = None
      BY <3>1 DEF IInv, TypeOK, QueueInv
    <3>3. id \in AllIds /\ id \notin Ended(dispatches) /\ task \in DOMAIN dispatches
      BY <1>1, <3>1, <3>2 DEF AllIds, Ended, IInv, MessageInv
    <3>4. \A x \in DispatchIds : Untracked(x) # id
      BY <3>1, IdsAssumption
    <3>5. id # Untracked(task)
      BY <1>1, <3>4
    <3> HIDE DEF id, known, task
    <3> QED BY <3>1, <3>2, <3>3, <3>4, <3>5
  <2> QED BY <2>1, <2>2
<1> HIDE DEF id, known, task
<1>5. /\ DOMAIN dispatches' = DOMAIN dispatches \cup {id}
      /\ \A x \in DOMAIN dispatches : x # id => dispatches'[x] = dispatches[x]
      /\ dispatches' \in [DOMAIN dispatches' -> Dispatch]
      /\ dispatches'[id].status = "started" /\ dispatches'[id].result = None
      /\ dispatches'[id].task = task
  <2>1. /\ [known EXCEPT !.status = "started", !.task = task] \in Dispatch
        /\ [known EXCEPT !.status = "started", !.task = task].status = "started"
        /\ [known EXCEPT !.status = "started", !.task = task].result = None
        /\ [known EXCEPT !.status = "started", !.task = task].task = task
    BY <1>1, <1>4 DEF Dispatch
  <2> QED BY <1>1, <2>1 DEF Put, IInv, TypeOK
<1>6. /\ DOMAIN taskMap' = DOMAIN taskMap \cup {task} /\ taskMap'[task] = id
      /\ Range(taskMap') \subseteq Range(taskMap) \cup {id}
  BY <1>1 DEF Put, Range
<1>7. /\ pending' \in Seq(DispatchIds) /\ IsInjective(pending)'
      /\ Range(pending') \subseteq Range(pending)
  <2>1. CASE pending = <<>>
    BY <1>1, <2>1 DEF IInv, TypeOK
  <2>2. CASE pending # <<>>
    BY <1>1, <2>2, FirstLeaves
  <2> QED BY <2>1, <2>2
<1>8. /\ Ended(dispatches) \subseteq Ended(dispatches)'
      /\ life \in {"active", "deleting", "deleted"}
  BY <1>1, <1>4, <1>5, StreamLife DEF Ended
<1>9. /\ DiskTypes' /\ LifeInv' /\ SaveInv' /\ SavedKept
      /\ jobs' \in Seq(SUBSET AllIds) /\ UNCHANGED <<disk, faults>>
  BY <1>1, <1>8, EmitStep
<1>10. TypeOK'
  <2>1. DOMAIN dispatches' \subseteq AllIds
    BY <1>4, <1>5 DEF IInv, TypeOK
  <2>2. (Range(taskMap) \cup Range(pending) \cup Range(results))' \subseteq DOMAIN dispatches'
    BY <1>1, <1>5, <1>6, <1>7 DEF IInv, TypeOK
  <2> QED BY <1>1, <1>2, <1>5, <1>7, <1>9, <2>1, <2>2 DEF IInv, TypeOK
<1>11. QueueInv'
  <2>1. \A i \in DOMAIN pending' :
          dispatches'[pending'[i]].status = "queued" /\ dispatches'[pending'[i]].result = None
    <3>1. ASSUME NEW i \in DOMAIN pending'
          PROVE  /\ pending'[i] # id /\ pending'[i] \in DOMAIN dispatches
                 /\ \E j \in DOMAIN pending : pending'[i] = pending[j]
      <4>1. pending'[i] \in Range(pending') /\ pending'[i] # id
        BY <1>4 DEF Range
      <4>2. pending'[i] \in Range(pending)
        BY <1>7, <4>1
      <4> QED BY <4>1, <4>2 DEF Range, IInv, TypeOK
    <3> QED BY <1>5, <3>1 DEF IInv, QueueInv
  <2> QED BY <1>1, <1>2, <1>3, <1>5, <1>6, <2>1 DEF IInv, QueueInv, At
<1>12. MessageInv'
  <2>1. ASSUME NEW k \in DOMAIN inbox, inbox[k] \in DispatchIds
        PROVE  /\ inbox[k] \in DOMAIN dispatches'
               /\ Untracked(inbox[k]) \notin DOMAIN dispatches'
               /\ \A l \in DOMAIN inbox : inbox[l] = inbox[k] => l = k
               /\ task # inbox[k]
    <3>1. inbox[k] # task
      BY <1>1, <2>1 DEF IInv, MessageInv, task
    <3> QED BY <1>4, <1>5, <2>1, <3>1 DEF IInv, MessageInv
  <2>2. UntrackedKnown(dispatches')
    BY <1>4, <1>5 DEF IInv, MessageInv, UntrackedKnown
  <2> QED BY <1>1, <1>2, <1>4, <1>5, <1>9, <2>1, <2>2 DEF IInv, MessageInv, AtTask
<1>13. CorrelationInv'
  <2>1. SUFFICES ASSUME ~strayed PROVE CorrelationInv'
    BY <1>1 DEF CorrelationInv
  <2>2. pending # <<>> /\ pending[1] = task
    BY <1>1, <2>1 DEF IInv, CorrelationInv, task
  <2>3. pending' = Tail(pending) /\ id = task
    BY <1>1, <2>2, FirstLeaves DEF id, NextForTask
  <2>4. /\ DOMAIN pending \subseteq Nat
        /\ \A i \in DOMAIN pending' : /\ i \in Nat /\ i + 1 \in DOMAIN pending
                                      /\ pending'[i] = pending[i + 1] /\ i + 1 # 1
        /\ \A x \in Range(pending) : x = task \/ x \in Range(pending')
    BY <2>2, <2>3, FirstLeaves
  <2>5. AllOwn(dispatches') /\ AllOwn(disk.saved)
    BY <1>1, <1>5, <2>1, <2>3 DEF IInv, CorrelationInv, AllOwn
  <2>6. \A k \in DOMAIN inbox : inbox[k] \in DispatchIds => inbox[k] \in Range(pending')
    BY <1>1, <2>1, <2>4 DEF IInv, CorrelationInv, MessageInv, task
  <2>7. \A i \in DOMAIN pending' : pending'[i] \in Range(inbox)
    BY <1>1, <2>1, <2>4 DEF IInv, CorrelationInv
  <2>8. ASSUME NEW i \in DOMAIN pending', NEW j \in DOMAIN pending',
               NEW k \in DOMAIN inbox, NEW l \in DOMAIN inbox,
               i < j, inbox[k] = pending'[i], inbox[l] = pending'[j]
        PROVE  k < l
    <3>1. /\ i + 1 \in DOMAIN pending /\ j + 1 \in DOMAIN pending /\ i + 1 < j + 1
          /\ inbox[k] = pending[i + 1] /\ inbox[l] = pending[j + 1]
      BY <2>4, <2>8
    <3> QED BY <1>1, <2>1, <3>1 DEF IInv, CorrelationInv
  <2> QED BY <1>1, <1>2, <1>6, <1>9, <2>3, <2>5, <2>6, <2>7, <2>8
             DEF CorrelationInv, IsFirst, AtTask, At
<1>14. WaitInv'
  <2>1. ASSUME NEW x \in DOMAIN dispatches' \cap DispatchIds
        PROVE  /\ wait[x] \in {"assigned", "terminal"} => dispatches'[x].status # "ended" \/ strayed
               /\ wait[x] = "result" => dispatches'[x].result = None \/ dispatches'[x].task = Session
    BY <1>5 DEF IInv, WaitInv
  <2> QED BY <1>1, <1>2, <2>1 DEF IInv, WaitInv, AtTask, task
<1> QED BY <1>9, <1>10, <1>11, <1>12, <1>13, <1>14 DEF IInv

LEMMA TaskNotificationGood == ASSUME IInv, TaskNotification PROVE IInv'
<1> DEFINE id == taskMap[claude.message]
<1>1. /\ AtTask /\ claude.agent = "running" /\ claude.message \in DOMAIN taskMap /\ claude # None
      /\ claude.message \in DispatchIds
      /\ dispatches' = [dispatches EXCEPT ![id].status = "ended"]
      /\ results' = Append(results, id) /\ wait' = AfterEnd(id) /\ Emit({id})
      /\ UNCHANGED <<life, pending, taskMap, inbox, ahead, sends, strayed>>
  BY DEF TaskNotification, AgentRuns, AtTask, historyVars
<1>2. /\ claude' = [message |-> claude.message, agent |-> "over"]
      /\ claude'.message = claude.message /\ claude'.agent = "over"
  BY <1>1 DEF TaskNotification, IInv, TypeOK
<1>3. /\ id \in DOMAIN dispatches /\ id \in AllIds /\ dispatches[id].status = "started"
      /\ id \in DispatchIds => dispatches[id].result = None
      /\ results = <<>>
  BY <1>1 DEF IInv, TypeOK, QueueInv, At, Range
<1>4. ~strayed => id = claude.message
  BY <1>1 DEF IInv, CorrelationInv, At
<1> HIDE DEF id
<1>6. /\ DOMAIN dispatches' = DOMAIN dispatches
      /\ \A x \in DOMAIN dispatches : x # id => dispatches'[x] = dispatches[x]
      /\ dispatches' \in [DOMAIN dispatches -> Dispatch]
      /\ dispatches'[id].status = "ended" /\ dispatches'[id].result = dispatches[id].result
      /\ dispatches'[id].task = dispatches[id].task
  BY <1>1, <1>3 DEF IInv, TypeOK, Dispatch
<1>7. /\ results' = <<id>> /\ results' # <<>> /\ results'[1] = id /\ Len(results') = 1
      /\ DOMAIN results' = {1} /\ results' \in Seq(AllIds)
  BY <1>1, <1>3
<1>8. /\ wait' \in [DispatchIds -> {"none", "assigned", "terminal", "result"}]
      /\ \A x \in DispatchIds : x # id => wait'[x] = wait[x]
      /\ id \in DispatchIds => wait'[id] # "terminal" /\ (wait'[id] = "assigned" => wait[id] = "assigned")
      /\ \A x \in DispatchIds : wait[x] # "assigned" => wait'[x] # "assigned"
  BY <1>1 DEF AfterEnd, IInv, TypeOK
<1>9. /\ Ended(dispatches) \cup {id} \subseteq Ended(dispatches)'
      /\ life \in {"active", "deleting", "deleted"}
  BY <1>1, <1>3, <1>6, StreamLife DEF Ended
<1>10. /\ DiskTypes' /\ LifeInv' /\ SaveInv' /\ SavedKept
       /\ jobs' \in Seq(SUBSET AllIds) /\ UNCHANGED <<disk, faults>>
  BY <1>1, <1>3, <1>9, EmitStep
<1>11. TypeOK'
  <2>1. (Range(taskMap) \cup Range(pending) \cup Range(results))' \subseteq DOMAIN dispatches'
    BY <1>1, <1>3, <1>6, <1>7 DEF IInv, TypeOK, Range
  <2>2. IsInjective(results)'
    BY <1>7 DEF IsInjective
  <2> QED BY <1>1, <1>2, <1>6, <1>7, <1>8, <1>10, <2>1, <2>2 DEF IInv, TypeOK
<1>12. \A i \in DOMAIN pending : pending[i] # id /\ pending[i] \in DOMAIN dispatches
  BY <1>3 DEF IInv, QueueInv, TypeOK, Range
<1>13. QueueInv'
  BY <1>1, <1>2, <1>6, <1>7, <1>12 DEF IInv, QueueInv, At
<1>14. MessageInv'
  BY <1>1, <1>2, <1>6, <1>10 DEF IInv, MessageInv, AtTask, UntrackedKnown
<1>15. CorrelationInv'
  <2>1. SUFFICES ASSUME ~strayed PROVE CorrelationInv'
    BY <1>1 DEF CorrelationInv
  <2>2. AllOwn(dispatches') /\ AllOwn(disk.saved)
    BY <1>6, <2>1 DEF IInv, CorrelationInv, AllOwn
  <2>3. ~IsFirst /\ ~IsFirst' /\ ~At("running")'
    BY <1>1, <1>2 DEF IsFirst, At
  <2> QED BY <1>1, <1>2, <1>4, <1>7, <1>10, <2>1, <2>2, <2>3 DEF IInv, CorrelationInv
<1>16. WaitInv'
  <2>1. ASSUME NEW x \in DOMAIN dispatches' \cap DispatchIds
        PROVE  /\ wait'[x] \in {"assigned", "terminal"} => dispatches'[x].status # "ended" \/ strayed
               /\ wait'[x] = "result" => dispatches'[x].result = None \/ dispatches'[x].task = Session
    <3>1. CASE x = id
      <4>1. wait'[x] = "assigned" => strayed
        BY <1>1, <1>4, <1>8, <3>1 DEF IInv, WaitInv
      <4> QED BY <1>3, <1>6, <1>8, <3>1, <4>1
    <3>2. CASE x # id
      BY <1>6, <1>8, <3>2 DEF IInv, WaitInv
    <3> QED BY <3>1, <3>2
  <2> QED BY <1>1, <1>2, <1>8, <2>1 DEF IInv, WaitInv, AtTask
<1> QED BY <1>10, <1>11, <1>13, <1>14, <1>15, <1>16 DEF IInv

\* The end of a turn, of a dispatch that Claude answered itself or whose agent is done.
LEMMA ResultFacts ==
  ASSUME IInv, Result, ResultQueue # <<>>
  PROVE  /\ claude # None /\ ~At("running") /\ claude' = Idle
         /\ claude.message \in DispatchIds \cup {UserMessage}
         /\ UNCHANGED <<life, inbox, ahead, taskMap, sends>>
         /\ \E id \in DOMAIN dispatches, ended \in Dispatch, text \in BOOLEAN :
              /\ dispatches' = [dispatches EXCEPT ![id] =
                   IF text THEN [ended EXCEPT !.result = claude.message] ELSE ended]
              /\ id = Head(ResultQueue)
              /\ \/ /\ results # <<>> /\ id = results[1] /\ dispatches[id].status = "ended"
                    /\ ended = dispatches[id]
                    /\ results' = <<>> /\ pending' = pending
                    /\ wait' = IF text THEN AfterResult(id) ELSE wait
                    /\ At("over") /\ claude.message \in DispatchIds
                    /\ Emit({})
                    /\ strayed' <=> strayed
                 \/ /\ results = <<>> /\ pending # <<>> /\ id = pending[1]
                    /\ dispatches[id].status = "queued" /\ dispatches[id].result = None
                    /\ ended = [dispatches[id] EXCEPT !.status = "ended", !.task = Session]
                    /\ results' = results /\ pending' = Tail(pending)
                    /\ wait' = AfterEnd(id) /\ claude.agent = "none"
                    /\ Emit({id})
                    /\ strayed' <=> strayed \/ claude.message = UserMessage
<1> DEFINE id == Head(ResultQueue)
           direct == dispatches[id].status = "queued"
           ended == IF ~direct THEN dispatches[id]
                    ELSE [dispatches[id] EXCEPT !.status = "ended", !.task = Session]
<1>1. PICK text \in BOOLEAN :
        /\ dispatches' = [dispatches EXCEPT ![id] =
             IF text THEN [ended EXCEPT !.result = claude.message] ELSE ended]
        /\ IF results # <<>> /\ id = Head(results)
           THEN results' = Tail(results) /\ UNCHANGED pending
           ELSE pending' = Tail(pending) /\ UNCHANGED results
        /\ wait' = IF direct THEN AfterEnd(id) ELSE IF text THEN AfterResult(id) ELSE wait
        /\ strayed' = (strayed \/ (claude.message = UserMessage /\ direct))
        /\ Emit(IF direct THEN {id} ELSE {})
        /\ UNCHANGED taskMap
  BY DEF Result
<1>2. /\ claude # None /\ claude.agent # "running" /\ claude' = Idle
      /\ claude.message \in DispatchIds \cup {UserMessage}
      /\ UNCHANGED <<life, inbox, ahead, sends>>
      /\ claude.agent \in {"none", "running", "over"}
  BY DEF Result, IInv, TypeOK
<1>3. results \in Seq(AllIds) /\ pending \in Seq(DispatchIds)
  BY DEF IInv, TypeOK
<1>4. CASE results # <<>>
  <2>1. /\ Head(results) = results[1] /\ 1 \in DOMAIN results /\ Tail(results) = <<>>
        /\ Len(results) <= 1
    <3>1. Len(results) <= 1
      BY DEF IInv, QueueInv
    <3>2. Head(results) = results[1] /\ 1 \in DOMAIN results
      BY <1>3, <1>4, TailFacts
    <3>3. Tail(results) \in Seq(AllIds) /\ Len(Tail(results)) = Len(results) - 1 /\ Len(results) \in Nat
      BY <1>3, <1>4, TailFacts
    <3>4. Len(Tail(results)) = 0
      BY <3>1, <3>3
    <3> QED BY <3>1, <3>2, <3>3, <3>4
  <2>2. id = results[1]
    BY <1>3, <1>4, <2>1 DEF ResultQueue
  <2>3. id \in DOMAIN dispatches /\ dispatches[id].status = "ended"
    BY <2>1, <2>2 DEF IInv, TypeOK, QueueInv, Range
  <2>4. ~direct /\ ended = dispatches[id] /\ ended \in Dispatch
    BY <2>3 DEF IInv, TypeOK
  <2>5. At("over") /\ claude.message \in DispatchIds
    BY <1>2, <1>4 DEF IInv, QueueInv, At
  <2> HIDE DEF id, direct, ended
  <2>6. results' = <<>> /\ pending' = pending
    BY <1>1, <1>4, <2>1, <2>2
  <2>7. /\ wait' = (IF text THEN AfterResult(id) ELSE wait) /\ Emit({})
        /\ strayed' <=> strayed
    BY <1>1, <2>4
  <2>8. ~At("running")
    BY <1>2 DEF At
  <2> QED BY <1>1, <1>2, <1>4, <2>2, <2>3, <2>4, <2>5, <2>6, <2>7, <2>8 DEF id
<1>5. CASE results = <<>>
  <2>1. pending # <<>> /\ id = pending[1] /\ 1 \in DOMAIN pending
    BY <1>3, <1>5, TailFacts DEF ResultQueue
  <2>2. /\ id \in DOMAIN dispatches /\ dispatches[id].status = "queued"
        /\ dispatches[id].result = None
    BY <2>1 DEF IInv, TypeOK, QueueInv, Range
  <2>3. /\ direct /\ ended = [dispatches[id] EXCEPT !.status = "ended", !.task = Session]
        /\ ended \in Dispatch
    <3>1. direct /\ ended = [dispatches[id] EXCEPT !.status = "ended", !.task = Session]
      BY <2>2
    <3>2. dispatches[id] \in Dispatch
      BY <2>2 DEF IInv, TypeOK
    <3> HIDE DEF id, direct, ended
    <3> QED BY <3>1, <3>2 DEF Dispatch
  <2>4. claude.agent = "none"
    BY <1>2, <1>5 DEF IInv, QueueInv, At
  <2> HIDE DEF id, direct, ended
  <2>5. /\ pending' = Tail(pending) /\ results' = results /\ wait' = AfterEnd(id) /\ Emit({id})
    BY <1>1, <1>5, <2>3
  <2>7. strayed' <=> strayed \/ claude.message = UserMessage
    BY <1>1, <2>3
  <2>6. ~At("running")
    BY <1>2 DEF At
  <2> QED BY <1>1, <1>2, <1>5, <2>1, <2>2, <2>3, <2>4, <2>5, <2>6, <2>7 DEF id
<1> QED BY <1>4, <1>5

\* A step that ends the turn: no task is under way, and no message is Claude's.
LEMMA IdleFacts ==
  ASSUME claude' = Idle
  PROVE  /\ claude' # None /\ ~IsFirst' /\ ~AtTask' /\ ~At("running")' /\ ~At("over")'
         /\ claude'.message = None /\ claude'.agent = "none"
         /\ claude' \in [message: {None, UserMessage} \cup DispatchIds, agent: {"none", "running", "over"}]
<1>1. claude'.message = None /\ claude'.agent = "none"
  BY DEF Idle
<1>2. claude' \in [message: {None, UserMessage} \cup DispatchIds, agent: {"none", "running", "over"}]
  BY DEF Idle
<1>3. claude' # None
  BY <1>2, IdsAssumption
<1> QED BY <1>1, <1>2, <1>3, IdsAssumption DEF IsFirst, AtTask, At

\* Nothing is queued, so that the result is nobody's.
LEMMA NobodysResultGood == ASSUME IInv, Result, ResultQueue = <<>> PROVE IInv'
<1>1. /\ claude # None /\ claude.message # None /\ claude' = Idle /\ Emit({})
      /\ UNCHANGED <<life, objectVars, inbox, ahead, sends, strayed>>
  BY DEF Result
<1>2. results = <<>> /\ pending = <<>>
  BY DEF ResultQueue, IInv, TypeOK
<1>3. life \in {"active", "deleting", "deleted"}
  BY <1>1, StreamLife
<1>4. /\ DiskTypes' /\ LifeInv' /\ SaveInv' /\ SavedKept
      /\ jobs' \in Seq(SUBSET AllIds) /\ UNCHANGED <<disk, faults>>
  BY <1>1, <1>3, EmitStep DEF objectVars
<1>5. TypeOK'
  BY <1>1, <1>4, IdleFacts DEF IInv, TypeOK, objectVars
<1>6. QueueInv'
  BY <1>1, <1>2, IdleFacts DEF IInv, QueueInv, objectVars
<1>7. MessageInv'
  BY <1>1, <1>4, IdleFacts, IdsAssumption DEF IInv, MessageInv, UntrackedKnown, objectVars
<1>8. CorrelationInv'
  BY <1>1, <1>2, <1>4, IdleFacts DEF IInv, CorrelationInv, AllOwn, Range, objectVars
<1>9. WaitInv'
  BY <1>1, IdleFacts DEF IInv, WaitInv, objectVars
<1> QED BY <1>4, <1>5, <1>6, <1>7, <1>8, <1>9 DEF IInv

LEMMA ResultGood == ASSUME IInv, Result PROVE IInv'
<1>0. CASE ResultQueue = <<>>
  BY <1>0, NobodysResultGood
<1> SUFFICES ASSUME ResultQueue # <<>> PROVE IInv'
  BY <1>0
<1>1. /\ claude # None /\ ~At("running") /\ claude' = Idle
      /\ claude.message \in DispatchIds \cup {UserMessage}
      /\ UNCHANGED <<life, inbox, ahead, taskMap, sends>>
  BY ResultFacts
<1>2. PICK id \in DOMAIN dispatches, ended \in Dispatch, text \in BOOLEAN :
        /\ dispatches' = [dispatches EXCEPT ![id] =
             IF text THEN [ended EXCEPT !.result = claude.message] ELSE ended]
        /\ \/ /\ results # <<>> /\ id = results[1] /\ dispatches[id].status = "ended"
              /\ ended = dispatches[id]
              /\ results' = <<>> /\ pending' = pending
              /\ wait' = IF text THEN AfterResult(id) ELSE wait
              /\ At("over") /\ claude.message \in DispatchIds
              /\ Emit({})
              /\ strayed' <=> strayed
           \/ /\ results = <<>> /\ pending # <<>> /\ id = pending[1]
              /\ dispatches[id].status = "queued" /\ dispatches[id].result = None
              /\ ended = [dispatches[id] EXCEPT !.status = "ended", !.task = Session]
              /\ results' = results /\ pending' = Tail(pending)
              /\ wait' = AfterEnd(id) /\ claude.agent = "none"
              /\ Emit({id})
              /\ strayed' <=> strayed \/ claude.message = UserMessage
  BY ResultFacts
<1>3. ended.status = "ended"
  BY <1>2 DEF IInv, TypeOK, Dispatch
<1>4. /\ DOMAIN dispatches' = DOMAIN dispatches
      /\ \A x \in DOMAIN dispatches : x # id => dispatches'[x] = dispatches[x]
      /\ dispatches' \in [DOMAIN dispatches -> Dispatch]
      /\ dispatches'[id].status = "ended"
      /\ dispatches'[id].result = IF text THEN claude.message ELSE ended.result
      /\ dispatches'[id].task = ended.task
  <2>1. /\ [ended EXCEPT !.result = claude.message] \in Dispatch
        /\ [ended EXCEPT !.result = claude.message].status = ended.status
        /\ [ended EXCEPT !.result = claude.message].task = ended.task
        /\ [ended EXCEPT !.result = claude.message].result = claude.message
    BY <1>1, <1>2 DEF Dispatch
  <2> QED BY <1>2, <1>3, <2>1 DEF IInv, TypeOK
<1>5. life \in {"active", "deleting", "deleted"} /\ Ended(dispatches) \cup {id} \subseteq Ended(dispatches)'
      /\ id \in AllIds
  BY <1>1, <1>2, <1>4, StreamLife DEF Ended, IInv, TypeOK
<1>6. /\ DiskTypes' /\ LifeInv' /\ SaveInv' /\ SavedKept
      /\ jobs' \in Seq(SUBSET AllIds) /\ UNCHANGED <<disk, faults>>
  <2>1. Emit({}) \/ Emit({id})
    BY <1>2
  <2>2. CASE Emit({})
    BY <1>1, <1>5, <2>2, EmitStep
  <2>3. CASE Emit({id})
    BY <1>1, <1>5, <2>3, EmitStep
  <2> QED BY <2>1, <2>2, <2>3
<1>7. wait' \in [DispatchIds -> {"none", "assigned", "terminal", "result"}]
  BY <1>2 DEF AfterEnd, AfterResult, IInv, TypeOK
<1>8. MessageInv'
  BY <1>1, <1>4, <1>6, IdleFacts, IdsAssumption DEF IInv, MessageInv, UntrackedKnown
<1>9. CASE results # <<>>
  <2>1. /\ id = results[1] /\ dispatches[id].status = "ended" /\ ended = dispatches[id]
        /\ results' = <<>> /\ pending' = pending
        /\ wait' = (IF text THEN AfterResult(id) ELSE wait)
        /\ At("over") /\ claude.message \in DispatchIds
    BY <1>2, <1>9
  <2>2. strayed' <=> strayed
    BY <1>2, <1>9
  <2>3. TypeOK'
    BY <1>1, <1>4, <1>6, <1>7, <2>1, IdleFacts DEF IInv, TypeOK, IsInjective, Range
  <2>4. \A i \in DOMAIN pending : pending[i] # id /\ pending[i] \in DOMAIN dispatches
    BY <2>1 DEF IInv, QueueInv, TypeOK, Range
  <2>5. QueueInv'
    BY <1>1, <1>4, <2>1, <2>4, IdleFacts DEF IInv, QueueInv
  <2>6. CorrelationInv'
    <3>1. SUFFICES ASSUME ~strayed PROVE CorrelationInv'
      BY <2>2 DEF CorrelationInv
    <3>2. id = claude.message
      BY <2>1, <3>1 DEF IInv, CorrelationInv
    <3>3. AllOwn(dispatches') /\ AllOwn(disk.saved)
      BY <1>2, <1>4, <2>1, <3>1, <3>2 DEF IInv, CorrelationInv, AllOwn
    <3>4. ~IsFirst
      BY <2>1 DEF At, IsFirst
    <3> QED BY <1>1, <1>6, <2>1, <3>1, <3>3, <3>4, IdleFacts DEF IInv, CorrelationInv
  <2>7. WaitInv'
    <3>1. ASSUME NEW x \in DOMAIN dispatches' \cap DispatchIds
          PROVE  /\ wait'[x] \in {"assigned", "terminal"} => dispatches'[x].status # "ended" \/ strayed
                 /\ wait'[x] = "result" => dispatches'[x].result = None \/ dispatches'[x].task = Session
      <4>1. /\ wait'[x] # wait[x] => x = id /\ wait'[x] = "none"
            /\ text /\ x = id => wait'[x] # "result"
        BY <2>1 DEF AfterResult, IInv, TypeOK
      <4> QED BY <1>4, <2>1, <4>1 DEF IInv, WaitInv
    <3> QED BY <2>2, <3>1, IdleFacts, <1>1 DEF WaitInv
  <2> QED BY <1>6, <1>8, <2>3, <2>5, <2>6, <2>7 DEF IInv
<1>10. CASE results = <<>>
  <2>1. /\ pending # <<>> /\ id = pending[1]
        /\ dispatches[id].status = "queued" /\ dispatches[id].result = None
        /\ ended = [dispatches[id] EXCEPT !.status = "ended", !.task = Session]
        /\ results' = <<>> /\ pending' = Tail(pending)
        /\ wait' = AfterEnd(id) /\ claude.agent = "none"
    BY <1>2, <1>10
  <2>2. strayed' <=> strayed \/ claude.message = UserMessage
    BY <1>2, <1>10
  <2>3. /\ pending' \in Seq(DispatchIds) /\ IsInjective(pending)'
        /\ id \in DispatchIds
        /\ DOMAIN pending \subseteq Nat
        /\ \A i \in DOMAIN pending' : /\ i \in Nat /\ i + 1 \in DOMAIN pending
                                      /\ pending'[i] = pending[i + 1]
                                      /\ pending[i + 1] # id /\ i + 1 # 1
        /\ Range(pending') \subseteq Range(pending)
        /\ \A x \in Range(pending) : x = id \/ x \in Range(pending')
    BY <2>1, FirstLeaves
  <2>4. ended.task = Session /\ ended.result = None
    BY <1>2, <2>1 DEF IInv, TypeOK, Dispatch
  <2>5. TypeOK'
    <3>1. (Range(taskMap) \cup Range(pending) \cup Range(results))' \subseteq DOMAIN dispatches'
      BY <1>1, <1>4, <1>10, <2>1, <2>3 DEF IInv, TypeOK
    <3>2. results' \in Seq(AllIds) /\ IsInjective(results)'
      BY <1>10, <2>1 DEF IInv, TypeOK
    <3> QED BY <1>1, <1>4, <1>6, <1>7, <2>3, <3>1, <3>2, IdleFacts DEF IInv, TypeOK
  <2>6. QueueInv'
    <3>1. \A i \in DOMAIN pending' :
            dispatches'[pending'[i]].status = "queued" /\ dispatches'[pending'[i]].result = None
      <4>1. \A i \in DOMAIN pending : pending[i] \in DOMAIN dispatches
        BY DEF IInv, TypeOK, Range
      <4> QED BY <1>4, <2>3, <4>1 DEF IInv, QueueInv
    <3> QED BY <2>1, <3>1, IdleFacts, <1>1 DEF QueueInv
  <2>7. ~strayed' => ~strayed /\ IsFirst /\ id = claude.message
    <3>1. SUFFICES ASSUME ~strayed' PROVE ~strayed /\ IsFirst /\ id = claude.message
      OBVIOUS
    <3>2. ~strayed /\ IsFirst
      BY <1>1, <2>1, <2>2, <3>1 DEF IsFirst, AtTask
    <3> QED BY <1>1, <2>1, <3>2 DEF IInv, CorrelationInv
  <2>8. CorrelationInv'
    <3>1. SUFFICES ASSUME ~strayed' PROVE CorrelationInv'
      BY DEF CorrelationInv
    <3>2. ~strayed /\ IsFirst /\ AtTask /\ id = claude.message
      BY <2>7, <3>1 DEF IsFirst
    <3>3. AllOwn(dispatches') /\ AllOwn(disk.saved)
      BY <1>4, <2>3, <2>4, <3>2 DEF IInv, CorrelationInv, AllOwn
    <3>4. \A k \in DOMAIN inbox : inbox[k] \in DispatchIds => inbox[k] \in Range(pending')
      BY <1>1, <2>3, <3>2 DEF IInv, CorrelationInv, MessageInv
    <3>5. \A i \in DOMAIN pending' : pending'[i] \in Range(inbox)
      BY <1>1, <2>3, <3>2 DEF IInv, CorrelationInv
    <3>6. ASSUME NEW i \in DOMAIN pending', NEW j \in DOMAIN pending',
                 NEW k \in DOMAIN inbox, NEW l \in DOMAIN inbox,
                 i < j, inbox[k] = pending'[i], inbox[l] = pending'[j]
          PROVE  k < l
      <4>1. /\ i + 1 \in DOMAIN pending /\ j + 1 \in DOMAIN pending /\ i + 1 < j + 1
            /\ inbox[k] = pending[i + 1] /\ inbox[l] = pending[j + 1]
        BY <2>3, <3>6
      <4> QED BY <1>1, <3>2, <4>1 DEF IInv, CorrelationInv
    <3> QED BY <1>1, <1>6, <3>3, <3>4, <3>5, <3>6, IdleFacts DEF CorrelationInv
  <2>9. WaitInv'
    <3>1. ASSUME NEW x \in DOMAIN dispatches' \cap DispatchIds
          PROVE  /\ wait'[x] \in {"assigned", "terminal"} => dispatches'[x].status # "ended" \/ strayed'
                 /\ wait'[x] = "result" => dispatches'[x].result = None \/ dispatches'[x].task = Session
      <4>1. /\ x # id => wait'[x] = wait[x]
            /\ x = id => wait'[x] # "terminal" /\ (wait'[x] = "assigned" => wait[x] = "assigned")
        BY <2>1 DEF AfterEnd, IInv, TypeOK
      <4>2. CASE x = id
        <5>1. wait'[x] = "assigned" => strayed'
          BY <2>7, <4>1, <4>2 DEF IInv, WaitInv, IsFirst
        <5> QED BY <1>4, <2>4, <4>1, <4>2, <5>1
      <4>3. CASE x # id
        BY <1>4, <2>2, <4>1, <4>3 DEF IInv, WaitInv
      <4> QED BY <4>2, <4>3
    <3> QED BY <1>1, <3>1, IdleFacts DEF WaitInv
  <2> QED BY <1>6, <1>8, <2>5, <2>6, <2>8, <2>9 DEF IInv
<1> QED BY <1>9, <1>10

----------------------------------------------------------------------------
(* The theorems *)

LEMMA InitGood == ASSUME Init PROVE IInv
<1>1. /\ life = "new" /\ dispatches = <<>> /\ pending = <<>> /\ results = <<>> /\ taskMap = <<>>
      /\ inbox = <<>> /\ claude = None /\ wait = Nobody /\ jobs = <<>> /\ saving = NotSaving
      /\ ahead = None /\ disk = NoDisk /\ faults = 0
  BY DEF Init
<1>2. TypeOK
  <2>1. 0 \in 0..MaxFaults
    BY BoundsAssumption
  <2> QED BY <1>1, <2>1, EmptyMap DEF TypeOK, IsMap, IsInjective, Range, Nobody
<1>3. DiskTypes
  BY <1>1, EmptyMap DEF DiskTypes, NoDisk, NotSaving
<1>4. LifeInv
  BY <1>1 DEF LifeInv, DeletedIsGone, NotSaving
<1>5. QueueInv /\ MessageInv /\ WaitInv
  BY <1>1 DEF QueueInv, MessageInv, WaitInv, At, AtTask, UntrackedKnown, NoDisk
<1>6. CorrelationInv
  BY <1>1 DEF CorrelationInv, AllOwn, At, IsFirst, AtTask, NoDisk
<1>7. SaveInv
  BY <1>1 DEF SaveInv, NotSaving, NoDisk, Ended
<1> QED BY <1>2, <1>3, <1>4, <1>5, <1>6, <1>7 DEF IInv

LEMMA StutterGood == ASSUME IInv, UNCHANGED vars PROVE IInv'
<1>1. UNCHANGED <<Objects, life, ahead, saveVars, historyVars>>
  BY DEF vars, objectVars, Objects
<1>2. TypeOK' /\ DiskTypes' /\ SavedKept
  BY <1>1 DEF IInv, TypeOK, DiskTypes, Objects, saveVars, SavedKept
<1>3. LifeInv' /\ SaveInv'
  BY <1>1 DEF IInv, LifeInv, DeletedIsGone, InProgress, SaveInv, Objects, saveVars
<1> QED BY <1>1, <1>2, <1>3, QuietParts DEF IInv, historyVars

\* No step of the calls, of the stream or of the saves breaks any part of the invariant.
LEMMA StepGood == IInv /\ [Next]_vars => IInv'
<1> SUFFICES ASSUME IInv, [Next]_vars PROVE IInv'
  OBVIOUS
<1>1. CASE Start \/ Initialize \/ InitializeError \/ Started \/ Close \/ StreamFails
  BY <1>1, StartGood, InitializeGood, StreamLifeGood
<1>2. CASE Delete \/ Remove \/ Crash \/ Restore \/ Save \/ SaveError
  BY <1>2, DeleteGood, RemoveGood, CrashGood, RestoreGood, SaveGood, SaveErrorGood
<1>3. CASE Send \/ Assign \/ AssignThrows \/ Listen \/ TimedOut
  BY <1>3, SendGood, AssignGood, AssignThrowsGood, CallerGood
<1>4. CASE TakeMessage \/ TaskStarted \/ TaskProgress \/ TaskNotification \/ Result
  BY <1>4, TakeMessageGood, TaskStartedGood, TaskProgressGood, TaskNotificationGood, ResultGood
<1>5. CASE UNCHANGED vars
  BY <1>5, StutterGood
<1> QED BY <1>1, <1>2, <1>3, <1>4, <1>5 DEF Next

LEMMA Invariance == Spec => []IInv
<1>1. Init => IInv
  BY InitGood
<1> QED BY <1>1, StepGood, PTL DEF Spec

\* For any number of dispatches, messages, faults and saves, every field and promise of the
\* adapter keeps its shape: the queues name no dispatch twice, and none that is not known.
THEOREM TypeCorrect == Spec => []TypeOK
<1>1. IInv => TypeOK
  BY DEF IInv
<1> QED BY <1>1, Invariance, PTL

\* The two queues alone tell which dispatch a message of the shared stream is about, and they
\* tell it right through every crash and restart, until a result that belongs to no dispatch is
\* taken for one (handleResultMessage), or a dispatch is queued without a message.
THEOREM Correlated == Spec => []CorrelatedUntilStray
<1>1. IInv => CorrelatedUntilStray
  BY DEF IInv, CorrelationInv, AllOwn, CorrelatedUntilStray, Own
<1> QED BY <1>1, Invariance, PTL

\* Until something strays, runDispatch listens for the end of its dispatch (waitForDispatchTerminal)
\* before that is told; and whatever strays it listens for the text before that is told, but for a
\* dispatch that Claude answers itself, whose end and text come in one handler: its caller misses
\* the text and falls back on the end.
THEOREM NothingIsMissed == Spec => []NothingMissed
<1>1. IInv => NothingMissed
  BY DEF IInv, WaitInv, NothingMissed
<1> QED BY <1>1, Invariance, PTL

\* The chain of saves (persistRuntime) writes the state before the log, however long one of them
\* takes, whatever strayed, and through write errors and crashes: the log never knows of an end
\* that a saved state which reads does not.  Without faults the last save leaves the state on disk.
THEOREM FilesAgree == Spec => []SavedInOrder
<1>1. IInv => SavedInOrder
  BY DEF IInv, SaveInv, SavedInOrder, Ended
<1> QED BY <1>1, Invariance, PTL

\* deleteWorkspace waits for every save there was when it was called: the files of a closed
\* workspace are gone for good, and those of an open one are never a workspace again.
THEOREM DeletionIsFinal == Spec => []DeletedIsGone
<1>1. IInv => DeletedIsGone
  BY DEF IInv, LifeInv
<1> QED BY <1>1, Invariance, PTL

=============================================================================
