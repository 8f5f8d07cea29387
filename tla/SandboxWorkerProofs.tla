------------------------- MODULE SandboxWorkerProofs -------------------------
(* Theorems about SandboxWorker, for any set of sandboxes and any number   *)
(* of faults, crashes, reconciliations, lost tables and events.            *)
EXTENDS SandboxWorker, SequenceTheorems, TLAPS

NoRun == {"idle", "down", "reconcile"}
Creating == {"create_dir", "create_disk", "create_vm", "create_mark", "create_undo", "create_state"}
Starting == {"note_created", "inject", "note_injected", "check", "note_started", "poll"}
BeforeSend == {"prepare", "note_prepared", "create_row", "note_running", "send"} \cup Creating \cup Starting
Talking == {"note_sent", "spawn", "stream", "note_event", "note_result"}
Destroying == {"destroy_vm", "destroy_disk", "destroy_dir", "destroy_state", "destroy_error"}
Removed == {"note_destroyed", "drop_ws", "note_cleanup", "return"}

(* A run and a reconciliation exclude each other, and what a run works on  *)
(* is a sandbox of its own.                                                *)
Activity ==
  /\ pc \notin NoRun => cur \in Sandboxes
  /\ pc \notin Destroying \cup {"reconcile"} => todo = {}
  /\ pc \notin NoRun /\ todo = {} => outcome[cur] = "open"

(* The row is stored first and closed last. *)
RowFirst ==
  /\ pc \in Creating => rec[cur] \notin {"none", "destroyed"}
  /\ \A s \in Sandboxes \ vanished : rec[s] = "destroyed" => ~Leftover(s)
  /\ losses = 0 => \A s \in Sandboxes \ vanished : rec[s] = "none" => ~Leftover(s)

(* A created machine is marked, and there until it is destroyed, unless    *)
(* an operator removed it: status() sees no other reason for its absence.  *)
MachineStays ==
  pc \in Starting \cup {"create_state"} =>
    vm[cur] # "unmarked" /\ (cur \notin vanished => vm[cur] # "none")

(* destroy() has removed what comes before the step it is at. *)
DestroyOrder ==
  /\ pc \in {"destroy_disk", "destroy_dir", "destroy_state"} => vm[cur] = "none"
  /\ pc \in {"destroy_dir", "destroy_state"} => ~disk[cur]
  /\ pc = "destroy_state" => ~dir[cur]

(* The locals sandbox and workspace of run() say what there is to remove,  *)
(* and a run without a sandbox has failed.                                 *)
LocalsTell ==
  /\ hasSb => hasWs
  /\ pc \in Creating \cup {"create_row"} => hasWs
  /\ pc \in Starting \cup Talking \cup {"note_running", "send", "note_abort", "note_refused",
                                        "artifacts", "note_destroyed"} => hasSb
  /\ pc \in Destroying /\ todo = {} => hasSb
  /\ pc \in {"note_failed", "close", "drop_ws", "note_cleanup", "return"} /\ ~hasSb =>
       result = "failed"

(* A cleanup without an error has removed everything. *)
CleanupHonest ==
  /\ pc = "note_cleanup" => errs # {}
  /\ pc \in Removed /\ hasSb /\ errs = {} => ~Leftover(cur) /\ ~dir[cur]
  /\ pc = "return" /\ hasSb /\ errs = {} /\ ~raising => ~ws[cur]

(* The guest gets one task, after the run has got as far as that. *)
OneTask ==
  /\ pc \in NoRun \cup BeforeSend \/ todo # {} => \A s \in Sandboxes : tasks[s] = 0
  /\ pc \in NoRun \cup BeforeSend \cup {"note_sent", "spawn"} \/ todo # {} =>
       \A s \in Sandboxes : queue[s] = <<>>
  /\ pc \in Talking => tasks[cur] = 1

(* The result frame is the last thing the reader reads. *)
DoneIsLast ==
  \A s \in Sandboxes : \A i \in 1..Len(queue[s]) :
    queue[s][i] = "done" => reader[s] = "finished" /\ said[s] \in {"success", "failed", "foreign"}

(* Whoever gets to the cleanup has a result to return. *)
ResultKnown ==
  \/ pc \in Removed \cup {"note_result", "note_abort", "note_refused", "note_failed", "close", "artifacts"}
  \/ pc \in Destroying /\ todo = {}
  => result \in Outcomes

(* A success is what the guest said, in answer to the task. *)
SuccessIsSaid ==
  result = "success" =>
    /\ todo = {}
    /\ pc \in Destroying \cup Removed \cup {"note_result", "failed", "close", "artifacts"}
    /\ said[cur] = "success" /\ tasks[cur] = 1 /\ reader[cur] = "finished"
    /\ pc \in Destroying \cup Removed /\ errs = {} => collected

(* What a reconciliation is done with, and reports no error for, is gone. *)
SweepHonest ==
  pc = "reconcile" \/ todo # {} =>
    \A s \in Sandboxes \ (todo \cup errs \cup vanished) :
      /\ rec[s] # "none" => ~Leftover(s)
      /\ rec[s] = "none" => vm[s] \in {"none", "unmarked"}

IInv == /\ TypeOK /\ Activity /\ RowFirst /\ MachineStays /\ DestroyOrder /\ LocalsTell
        /\ CleanupHonest /\ OneTask /\ DoneIsLast /\ ResultKnown /\ SuccessIsSaid
        /\ SweepHonest /\ CleanUnlessFailed

-----------------------------------------------------------------------------
LEMMA PcsDef == Pcs =
  {"note_prepared", "note_created", "note_injected", "note_started", "note_running", "note_sent",
   "note_event", "note_result", "note_abort", "note_refused", "note_failed", "note_destroyed",
   "note_cleanup", "idle", "down", "prepare", "failed", "create_row", "create_dir", "create_disk",
   "create_vm", "create_mark", "create_undo", "create_state", "inject", "check", "poll", "send",
   "spawn", "stream", "close", "artifacts", "destroy_vm", "destroy_disk", "destroy_dir",
   "destroy_state", "destroy_error", "drop_ws", "return", "reconcile"}
BY DEF Pcs, AfterEvent

LEMMA StatusIsState ==
  ASSUME NEW v \in VmStates \ {"unmarked"}
  PROVE  StatusOf(v) \in RecStates
BY DEF StatusOf, VmStates, RecStates

(* What a step may do to each of the functions over sandboxes. *)
LEMMA Changes ==
  ASSUME TypeOK, Activity, MachineStays, ResultKnown, [Next]_vars
  PROVE
   /\ \/ vm' = vm
      \/ \E s \in Sandboxes \cup {None}, v \in {"none", "unmarked", "off", "starting", "running"} :
           vm' = [vm EXCEPT ![s] = v]
   /\ \/ disk' = disk
      \/ \E v \in BOOLEAN : disk' = [disk EXCEPT ![cur] = v]
   /\ \/ dir' = dir
      \/ \E v \in BOOLEAN : dir' = [dir EXCEPT ![cur] = v]
   /\ \/ ws' = ws
      \/ \E v \in BOOLEAN : ws' = [ws EXCEPT ![cur] = v]
   /\ \/ rec' = rec \/ rec' = [s \in Sandboxes |-> "none"]
      \/ \E s \in Sandboxes, v \in RecStates : rec' = [rec EXCEPT ![s] = v]
   /\ \/ session' = session \/ session' = [s \in Sandboxes |-> FALSE]
      \/ \E s \in Sandboxes \cup {None}, v \in BOOLEAN : session' = [session EXCEPT ![s] = v]
   /\ \/ reader' = reader \/ reader' = [s \in Sandboxes |-> "none"]
      \/ \E s \in Sandboxes \cup {None}, v \in {"spawned", "reading", "finished"} :
           reader' = [reader EXCEPT ![s] = v]
   /\ \/ queue' = queue \/ queue' = [s \in Sandboxes |-> <<>>]
      \/ queue' = [queue EXCEPT ![cur] = <<>>]
      \/ /\ cur \in Sandboxes /\ queue[cur] # <<>>
         /\ queue' = [queue EXCEPT ![cur] = Tail(queue[cur])]
      \/ \E s \in Sandboxes, v \in {"event", "done", "error"} :
           queue' = [queue EXCEPT ![s] = Append(queue[s], v)]
   /\ \/ said' = said \/ said' = [s \in Sandboxes |-> None]
      \/ \E s \in Sandboxes, v \in {"success", "failed", "foreign"} : said' = [said EXCEPT ![s] = v]
   /\ \/ tasks' = tasks \/ tasks' = [s \in Sandboxes |-> 0]
      \/ tasks' = [tasks EXCEPT ![cur] = tasks[cur] + 1]
   /\ \/ outcome' = outcome
      \/ \E s \in Sandboxes \cup {None}, v \in Outcomes \cup {"open", "raised", "cleanup_failed", "crashed"} :
           outcome' = [outcome EXCEPT ![s] = v]
<1> USE SandboxAssumption DEF TypeOK, Next, ProcessStep, CreateStep, CleanupStep,
      DestroyStep, ReconcileStep, ReaderStep, Prepare, RecordEvent, Failed, CreateRow,
      CreateDir, CreateDisk, CreateVm, CreateMark, CreateUndo, CreateReturns,
      ScriptFails, Inject, Abort, StartVm, Poll, SendTask, SpawnReader, TakeItem,
      CloseChannel, RetrieveArtifacts, DropWorkspace, Return, NoLocals, NoChannel,
      DestroyVm, DestroyDisk, DestroyDir, DestroyState, SetState, Back, Reconciling,
      EndReconcile, ReconcileNext, Begin, ReaderConnects, ReaderReads, ReaderBreaks,
      Put, MachineStep, StartReconcile, Crash, Restart, LoseStore, Cancel, Expire, Ok,
      Fault, HostOnly, host, locals, channel, caller, history, bounds, vars
<1>1. \/ vm' = vm
      \/ \E s \in Sandboxes \cup {None}, v \in {"none", "unmarked", "off", "starting", "running"} :
           vm' = [vm EXCEPT ![s] = v]
  OBVIOUS
<1>2. \/ disk' = disk
      \/ \E v \in BOOLEAN : disk' = [disk EXCEPT ![cur] = v]
  OBVIOUS
<1>3. \/ dir' = dir
      \/ \E v \in BOOLEAN : dir' = [dir EXCEPT ![cur] = v]
  OBVIOUS
<1>4. \/ ws' = ws
      \/ \E v \in BOOLEAN : ws' = [ws EXCEPT ![cur] = v]
  OBVIOUS
<1>5. \/ rec' = rec \/ rec' = [s \in Sandboxes |-> "none"]
      \/ \E s \in Sandboxes, v \in RecStates : rec' = [rec EXCEPT ![s] = v]
  <2>1. CASE CreateRow BY <2>1 DEF Activity, NoRun, RecStates
  <2>2. CASE CreateUndo BY <2>2 DEF Activity, NoRun, RecStates
  <2>3. CASE StartVm BY <2>3 DEF Activity, NoRun, RecStates
  <2>4. CASE Poll
    <3>1. cur \in Sandboxes /\ vm[cur] # "unmarked"
      BY <2>4 DEF Activity, NoRun, MachineStays, Starting
    <3>2. StatusOf(vm[cur]) \in RecStates
      BY <3>1, StatusIsState
    <3> QED BY <2>4, <3>1, <3>2 DEF RecStates
  <2>5. CASE DestroyState
    <3>1. cur \in Sandboxes
      BY <2>5 DEF Activity, NoRun
    <3> QED BY <2>5, <3>1 DEF FinalState, RecStates
  <2>6. ASSUME NEW s \in Sandboxes, ReconcileNext(s)
        PROVE  rec' = rec \/ \E v \in RecStates : rec' = [rec EXCEPT ![s] = v]
    <3>1. CASE s \in Listed
      <4>1. StatusOf(vm[s]) \in RecStates
        BY <3>1, StatusIsState DEF Listed
      <4> QED BY <2>6, <4>1 DEF RecStates
    <3>2. CASE s \notin Listed
      BY <2>6, <3>2
    <3> QED BY <3>1, <3>2
  <2>7. CASE ~(CreateRow \/ CreateUndo \/ StartVm \/ Poll \/ DestroyState \/ \E s \in Sandboxes : ReconcileNext(s))
    <3>1. rec' = rec \/ rec' = [s \in Sandboxes |-> "none"]
      BY <2>7
    <3> QED BY <3>1
  <2> QED BY <2>1, <2>2, <2>3, <2>4, <2>5, <2>6, <2>7, Zenon
<1>6. \/ session' = session \/ session' = [s \in Sandboxes |-> FALSE]
      \/ \E s \in Sandboxes \cup {None}, v \in BOOLEAN : session' = [session EXCEPT ![s] = v]
  OBVIOUS
<1>7. \/ reader' = reader \/ reader' = [s \in Sandboxes |-> "none"]
      \/ \E s \in Sandboxes \cup {None}, v \in {"spawned", "reading", "finished"} :
           reader' = [reader EXCEPT ![s] = v]
  OBVIOUS
<1>8. \/ queue' = queue \/ queue' = [s \in Sandboxes |-> <<>>]
      \/ queue' = [queue EXCEPT ![cur] = <<>>]
      \/ /\ cur \in Sandboxes /\ queue[cur] # <<>>
         /\ queue' = [queue EXCEPT ![cur] = Tail(queue[cur])]
      \/ \E s \in Sandboxes, v \in {"event", "done", "error"} :
           queue' = [queue EXCEPT ![s] = Append(queue[s], v)]
  BY DEF Activity, NoRun
<1>9. \/ said' = said \/ said' = [s \in Sandboxes |-> None]
      \/ \E s \in Sandboxes, v \in {"success", "failed", "foreign"} : said' = [said EXCEPT ![s] = v]
  OBVIOUS
<1>10. \/ tasks' = tasks \/ tasks' = [s \in Sandboxes |-> 0]
       \/ tasks' = [tasks EXCEPT ![cur] = tasks[cur] + 1]
  OBVIOUS
<1>11. \/ outcome' = outcome
       \/ \E s \in Sandboxes \cup {None}, v \in Outcomes \cup {"open", "raised", "cleanup_failed", "crashed"} :
            outcome' = [outcome EXCEPT ![s] = v]
  BY DEF OutcomeOf, InRun, ResultKnown, Removed
<1> QED BY <1>1, <1>2, <1>3, <1>4, <1>5, <1>6, <1>7, <1>8, <1>9, <1>10, <1>11

LEMMA LocalTypes ==
  ASSUME TypeOK, Activity, MachineStays, ResultKnown, [Next]_vars
  PROVE
   /\ pc' \in Pcs
   /\ cur' \in Sandboxes \cup {None}
   /\ hasSb' \in BOOLEAN /\ hasWs' \in BOOLEAN /\ raising' \in BOOLEAN /\ collected' \in BOOLEAN
   /\ errs' \subseteq Sandboxes
   /\ vanished' \subseteq Sandboxes
   /\ result' \in Outcomes \cup {None}
   /\ todo' \subseteq Sandboxes
   /\ cancelled' \in BOOLEAN /\ expired' \in BOOLEAN
   /\ {faults', crashes', reconciles', losses'} \subseteq Nat
<1> USE SandboxAssumption DEF TypeOK, Next, ProcessStep, CreateStep, CleanupStep,
      DestroyStep, ReconcileStep, ReaderStep, Prepare, RecordEvent, Failed, CreateRow,
      CreateDir, CreateDisk, CreateVm, CreateMark, CreateUndo, CreateReturns,
      ScriptFails, Inject, Abort, StartVm, Poll, SendTask, SpawnReader, TakeItem,
      CloseChannel, RetrieveArtifacts, DropWorkspace, Return, NoLocals, NoChannel,
      DestroyVm, DestroyDisk, DestroyDir, DestroyState, SetState, Back, Reconciling,
      EndReconcile, ReconcileNext, Begin, ReaderConnects, ReaderReads, ReaderBreaks,
      Put, MachineStep, StartReconcile, Crash, Restart, LoseStore, Cancel, Expire, Ok,
      Fault, HostOnly, host, locals, channel, caller, history, bounds, vars
<1>1. pc' \in Pcs
  BY PcsDef DEF AfterEvent
<1>2. cur' \in Sandboxes \cup {None}
  OBVIOUS
<1>3. hasSb' \in BOOLEAN /\ hasWs' \in BOOLEAN /\ raising' \in BOOLEAN /\ collected' \in BOOLEAN
  OBVIOUS
<1>4. errs' \subseteq Sandboxes
  BY  DEF Activity, NoRun
<1>5. vanished' \subseteq Sandboxes
  OBVIOUS
<1>6. result' \in Outcomes \cup {None}
  BY  DEF ResultOf, Outcomes, Activity, NoRun
<1>7. todo' \subseteq Sandboxes
  BY  DEF Eligible, Listed
<1>8. cancelled' \in BOOLEAN /\ expired' \in BOOLEAN
  OBVIOUS
<1>9. {faults', crashes', reconciles', losses'} \subseteq Nat
  OBVIOUS
<1> QED BY <1>1, <1>2, <1>3, <1>4, <1>5, <1>6, <1>7, <1>8, <1>9

LEMMA TypeStep == TypeOK /\ Activity /\ MachineStays /\ ResultKnown /\ [Next]_vars => TypeOK'
<1> SUFFICES ASSUME TypeOK, Activity, MachineStays, ResultKnown, [Next]_vars PROVE TypeOK'
  OBVIOUS
<1>1. vm' \in [Sandboxes -> VmStates]
  <2>1. \/ vm' = vm
        \/ \E s \in Sandboxes \cup {None}, v \in {"none", "unmarked", "off", "starting", "running"} :
             vm' = [vm EXCEPT ![s] = v]
    BY Changes, Zenon
  <2>2. vm \in [Sandboxes -> VmStates]
    BY DEF TypeOK
  <2> QED BY <2>1, <2>2 DEF VmStates
<1>2. disk' \in [Sandboxes -> BOOLEAN]
  <2>1. \/ disk' = disk
        \/ \E v \in BOOLEAN : disk' = [disk EXCEPT ![cur] = v]
    BY Changes, Zenon
  <2>2. disk \in [Sandboxes -> BOOLEAN]
    BY DEF TypeOK
  <2> QED BY <2>1, <2>2
<1>3. dir' \in [Sandboxes -> BOOLEAN]
  <2>1. \/ dir' = dir
        \/ \E v \in BOOLEAN : dir' = [dir EXCEPT ![cur] = v]
    BY Changes, Zenon
  <2>2. dir \in [Sandboxes -> BOOLEAN]
    BY DEF TypeOK
  <2> QED BY <2>1, <2>2
<1>4. ws' \in [Sandboxes -> BOOLEAN]
  <2>1. \/ ws' = ws
        \/ \E v \in BOOLEAN : ws' = [ws EXCEPT ![cur] = v]
    BY Changes, Zenon
  <2>2. ws \in [Sandboxes -> BOOLEAN]
    BY DEF TypeOK
  <2> QED BY <2>1, <2>2
<1>5. rec' \in [Sandboxes -> RecStates]
  <2>1. \/ rec' = rec \/ rec' = [s \in Sandboxes |-> "none"]
        \/ \E s \in Sandboxes, v \in RecStates : rec' = [rec EXCEPT ![s] = v]
    BY Changes, Zenon
  <2>2. rec \in [Sandboxes -> RecStates]
    BY DEF TypeOK
  <2> QED BY <2>1, <2>2 DEF RecStates
<1>6. session' \in [Sandboxes -> BOOLEAN]
  <2>1. \/ session' = session \/ session' = [s \in Sandboxes |-> FALSE]
        \/ \E s \in Sandboxes \cup {None}, v \in BOOLEAN : session' = [session EXCEPT ![s] = v]
    BY Changes, Zenon
  <2>2. session \in [Sandboxes -> BOOLEAN]
    BY DEF TypeOK
  <2> QED BY <2>1, <2>2
<1>7. reader' \in [Sandboxes -> {"none", "spawned", "reading", "finished"}]
  <2>1. \/ reader' = reader \/ reader' = [s \in Sandboxes |-> "none"]
        \/ \E s \in Sandboxes \cup {None}, v \in {"spawned", "reading", "finished"} :
             reader' = [reader EXCEPT ![s] = v]
    BY Changes, Zenon
  <2>2. reader \in [Sandboxes -> {"none", "spawned", "reading", "finished"}]
    BY DEF TypeOK
  <2> QED BY <2>1, <2>2
<1>8. queue' \in [Sandboxes -> Seq({"event", "done", "error"})]
  <2>1. \/ queue' = queue \/ queue' = [s \in Sandboxes |-> <<>>]
        \/ queue' = [queue EXCEPT ![cur] = <<>>]
        \/ /\ cur \in Sandboxes /\ queue[cur] # <<>>
           /\ queue' = [queue EXCEPT ![cur] = Tail(queue[cur])]
        \/ \E s \in Sandboxes, v \in {"event", "done", "error"} :
             queue' = [queue EXCEPT ![s] = Append(queue[s], v)]
    BY Changes, Zenon
  <2>2. queue \in [Sandboxes -> Seq({"event", "done", "error"})]
    BY DEF TypeOK
  <2>3. CASE cur \in Sandboxes /\ queue[cur] # <<>> /\ queue' = [queue EXCEPT ![cur] = Tail(queue[cur])]
    <3>1. Tail(queue[cur]) \in Seq({"event", "done", "error"})
      BY <2>2, <2>3
    <3> QED BY <2>2, <2>3, <3>1
  <2>4. ASSUME NEW s \in Sandboxes, NEW v \in {"event", "done", "error"},
               queue' = [queue EXCEPT ![s] = Append(queue[s], v)]
        PROVE  queue' \in [Sandboxes -> Seq({"event", "done", "error"})]
    <3>1. Append(queue[s], v) \in Seq({"event", "done", "error"})
      BY <2>2
    <3> QED BY <2>2, <2>4, <3>1
  <2>5. CASE queue' = [s \in Sandboxes |-> <<>>]
    <3>1. <<>> \in Seq({"event", "done", "error"})
      OBVIOUS
    <3> QED BY <2>5, <3>1, Zenon
  <2>6. CASE queue' = [queue EXCEPT ![cur] = <<>>]
    <3>1. <<>> \in Seq({"event", "done", "error"})
      OBVIOUS
    <3> QED BY <2>2, <2>6, <3>1
  <2> QED BY <2>1, <2>2, <2>3, <2>4, <2>5, <2>6, Zenon
<1>9. said' \in [Sandboxes -> {"success", "failed", "foreign", None}]
  <2>1. \/ said' = said \/ said' = [s \in Sandboxes |-> None]
        \/ \E s \in Sandboxes, v \in {"success", "failed", "foreign"} : said' = [said EXCEPT ![s] = v]
    BY Changes, Zenon
  <2>2. said \in [Sandboxes -> {"success", "failed", "foreign", None}]
    BY DEF TypeOK
  <2> QED BY <2>1, <2>2
<1>10. tasks' \in [Sandboxes -> Nat]
  <2>1. \/ tasks' = tasks \/ tasks' = [s \in Sandboxes |-> 0]
        \/ tasks' = [tasks EXCEPT ![cur] = tasks[cur] + 1]
    BY Changes, Zenon
  <2>2. tasks \in [Sandboxes -> Nat]
    BY DEF TypeOK
  <2> QED BY <2>1, <2>2
<1>11. outcome' \in [Sandboxes -> Outcomes \cup {"none", "open", "raised", "cleanup_failed", "crashed"}]
  <2>1. \/ outcome' = outcome
        \/ \E s \in Sandboxes \cup {None}, v \in Outcomes \cup {"open", "raised", "cleanup_failed", "crashed"} :
             outcome' = [outcome EXCEPT ![s] = v]
    BY Changes, Zenon
  <2>2. outcome \in [Sandboxes -> Outcomes \cup {"none", "open", "raised", "cleanup_failed", "crashed"}]
    BY DEF TypeOK
  <2> QED BY <2>1, <2>2 DEF Outcomes
<1> QED BY LocalTypes, <1>1, <1>2, <1>3, <1>4, <1>5, <1>6, <1>7, <1>8, <1>9, <1>10, <1>11 DEF TypeOK

(* A frame the reader has read is put where it belongs, and only while the *)
(* run still listens.                                                      *)
LEMMA ReadKeepsTalk ==
  ASSUME TypeOK, Activity, OneTask, DoneIsLast, SuccessIsSaid, NEW s \in Sandboxes, ReaderReads(s)
  PROVE  OneTask' /\ DoneIsLast' /\ SuccessIsSaid'
<1>1. /\ UNCHANGED <<pc, cur, todo, tasks, result, errs, collected>>
      /\ reader[s] = "reading" /\ reader \in [Sandboxes -> {"none", "spawned", "reading", "finished"}]
      /\ \A t \in Sandboxes \ {s} : said'[t] = said[t] /\ reader'[t] = reader[t]
  BY DEF ReaderReads, TypeOK, locals
<1>2. \E item \in {"event", "done", "error"} :
        /\ Put(s, item)
        /\ item = "done" => reader'[s] = "finished" /\ said'[s] \in {"success", "failed", "foreign"}
  BY DEF ReaderReads, TypeOK
<1>3. PICK item \in {"event", "done", "error"} :
        /\ queue' = IF cur = s /\ pc \in {"stream", "note_event"}
                    THEN [queue EXCEPT ![s] = Append(queue[s], item)] ELSE queue
        /\ item = "done" => reader'[s] = "finished" /\ said'[s] \in {"success", "failed", "foreign"}
  BY <1>2 DEF Put
<1>4. OneTask'
  <2>1. CASE pc \in {"stream", "note_event"}
    <3>1. todo = {} /\ tasks[cur] = 1
      BY <2>1 DEF Activity, OneTask, Destroying, Talking
    <3> QED
      BY <1>1, <2>1, <3>1 DEF OneTask, NoRun, BeforeSend, Creating, Starting
  <2>2. CASE pc \notin {"stream", "note_event"}
    <3>1. queue' = queue
      BY <1>3, <2>2
    <3> QED
      BY <1>1, <3>1 DEF OneTask
  <2> QED BY <2>1, <2>2
<1>5. DoneIsLast'
  <2> SUFFICES ASSUME NEW t \in Sandboxes, NEW i \in 1..Len(queue'[t]), queue'[t][i] = "done"
               PROVE  reader'[t] = "finished" /\ said'[t] \in {"success", "failed", "foreign"}
    BY DEF DoneIsLast
  <2>1. CASE t # s \/ queue' = queue
    <3>1. queue'[t] = queue[t]
      BY <1>3, <2>1 DEF TypeOK
    <3>2. reader[t] = "finished" /\ said[t] \in {"success", "failed", "foreign"}
      BY <3>1 DEF DoneIsLast
    <3>3. t # s
      BY <1>1, <3>2
    <3> QED BY <1>1, <3>2, <3>3
  <2>2. CASE t = s /\ queue' # queue
    <3>1. queue[s] \in Seq({"event", "done", "error"}) /\ queue'[s] = Append(queue[s], item)
      BY <1>3, <2>2 DEF TypeOK
    <3>2. i = Len(queue[s]) + 1 /\ item = "done"
      <4>1. \A j \in 1..Len(queue[s]) : queue[s][j] # "done"
        BY <1>1 DEF DoneIsLast
      <4> QED
        BY <2>2, <3>1, <4>1
    <3> QED BY <1>3, <2>2, <3>2
  <2> QED BY <2>1, <2>2
<1>6. SuccessIsSaid'
  <2>1. result = "success" => cur \in Sandboxes \ {s}
    BY <1>1 DEF SuccessIsSaid, Activity, NoRun, Destroying, Removed
  <2> QED
    BY <1>1, <2>1 DEF SuccessIsSaid
<1> QED BY <1>4, <1>5, <1>6

LEMMA ConnectKeepsQueue ==
  ASSUME TypeOK, DoneIsLast, NEW s \in Sandboxes, ReaderConnects(s)
  PROVE  DoneIsLast'
<1>1. /\ said' = said /\ reader[s] = "spawned"
      /\ \A t \in Sandboxes \ {s} : reader'[t] = reader[t] /\ queue'[t] = queue[t]
      /\ queue'[s] = queue[s] \/ queue'[s] = Append(queue[s], "error")
  BY DEF ReaderConnects, Put, TypeOK
<1>2. \A j \in 1..Len(queue[s]) : queue[s][j] # "done"
  BY <1>1 DEF DoneIsLast
<1>3. queue[s] \in Seq({"event", "done", "error"})
  BY DEF TypeOK
<1>4. \A j \in 1..Len(queue'[s]) : queue'[s][j] # "done"
  BY <1>1, <1>2, <1>3
<1> QED
  BY <1>1, <1>4 DEF DoneIsLast

LEMMA RecordKeepsSweep ==
  ASSUME Activity, RecordEvent
  PROVE  SweepHonest'
<1>1. pc # "reconcile" /\ todo' = todo /\ pc' # "reconcile"
  BY DEF RecordEvent, Ok, Fault, AfterEvent
<1>2. todo = {}
  BY DEF Activity, Destroying, RecordEvent, AfterEvent
<1> QED
  BY <1>1, <1>2 DEF SweepHonest

LEMMA RecordKeepsTask ==
  ASSUME TypeOK, Activity, OneTask, RecordEvent
  PROVE  OneTask'
<1> USE DEF RecordEvent, Ok, Fault, AfterEvent
<1>1. UNCHANGED <<cur, todo, tasks, queue>>
  BY DEF channel
<1>2. todo = {}
  BY DEF Activity, Destroying
<1>3. pc' \in NoRun \cup BeforeSend => pc \in BeforeSend
  BY DEF NoRun, BeforeSend, Creating, Starting
<1>4. pc' \in {"note_sent", "spawn"} => pc = "note_sent"
  OBVIOUS
<1>5. pc' \in Talking => pc \in Talking
  BY DEF Talking
<1> QED
  BY <1>1, <1>2, <1>3, <1>4, <1>5 DEF OneTask

(* status() stores "destroyed" of a machine that is not there, which is a  *)
(* machine an operator removed.                                            *)
LEMMA PollKeepsRow ==
  ASSUME TypeOK, Activity, MachineStays, RowFirst, Poll
  PROVE  RowFirst'
<1>1. /\ cur \in Sandboxes /\ cur' = cur
      /\ UNCHANGED <<vm, disk, vanished, losses>>
      /\ pc' \notin Creating
  BY DEF Poll, Ok, Fault, Activity, NoRun, Creating, history, bounds
<1>2. \A s \in Sandboxes \ {cur} : rec'[s] = rec[s]
  BY DEF Poll, TypeOK
<1>3. rec'[cur] # "none" /\ (rec'[cur] = "destroyed" => vm[cur] = "none")
  BY <1>1 DEF Poll, TypeOK, StatusOf, VmStates
<1>4. vm[cur] = "none" => cur \in vanished
  BY DEF Poll, MachineStays, Starting
<1> QED
  BY <1>1, <1>2, <1>3, <1>4 DEF RowFirst, Leftover

LEMMA SweepKeepsRow ==
  ASSUME TypeOK, Activity, RowFirst, NEW s \in Sandboxes, ReconcileNext(s)
  PROVE  RowFirst'
<1>1. UNCHANGED <<vm, disk, vanished, losses>> /\ pc' \notin Creating
  BY DEF ReconcileNext, Ok, Fault, Creating, history, bounds
<1>2. \A t \in Sandboxes \ {s} : rec'[t] = rec[t]
  BY DEF ReconcileNext, TypeOK, SetState
<1>3. rec'[s] = rec[s] \/ (rec'[s] \notin {"none", "destroyed"})
  BY DEF ReconcileNext, TypeOK, SetState, StatusOf, VmStates, Listed
<1> QED
  BY <1>1, <1>2, <1>3 DEF RowFirst, Leftover

(* Steps and the conjunct they are hardest on: what the rest of IInv says  *)
(* is left out.                                                            *)
LEMMA RecordEventKeepsLocalsTell ==
  ASSUME TypeOK, TypeOK', Activity, LocalsTell, RecordEvent
  PROVE  LocalsTell'
BY SandboxAssumption DEF TypeOK, Activity, LocalsTell, RecordEvent, NoRun, Creating,
   Starting, Talking, Destroying, AfterEvent, host, locals, channel, caller, history,
   bounds, Ok, Fault, HostOnly

LEMMA RetrieveArtifactsKeepsSuccessIsSaid ==
  ASSUME TypeOK, TypeOK', Activity, SuccessIsSaid, RetrieveArtifacts
  PROVE  SuccessIsSaid'
BY SandboxAssumption DEF TypeOK, Activity, SuccessIsSaid, RetrieveArtifacts, Destroying,
   Removed, AfterEvent, host, locals, channel, caller, history, bounds, Ok, Fault,
   HostOnly

LEMMA DropWorkspaceKeepsCleanupHonest ==
  ASSUME TypeOK, TypeOK', Activity, LocalsTell, CleanupHonest, DropWorkspace
  PROVE  CleanupHonest'
BY SandboxAssumption DEF TypeOK, Activity, LocalsTell, CleanupHonest, DropWorkspace,
   Removed, Leftover, NoRun, AfterEvent, host, locals, channel, caller, history, bounds,
   Ok, Fault, HostOnly

LEMMA DropWorkspaceKeepsOneTask ==
  ASSUME TypeOK, TypeOK', Activity, OneTask, DropWorkspace
  PROVE  OneTask'
BY SandboxAssumption DEF TypeOK, Activity, OneTask, DropWorkspace, NoRun, BeforeSend,
   Creating, Starting, Talking, AfterEvent, host, locals, channel, caller, history,
   bounds, Ok, Fault, HostOnly

LEMMA DestroyDirKeepsOneTask ==
  ASSUME TypeOK, TypeOK', Activity, OneTask, DestroyDir
  PROVE  OneTask'
BY SandboxAssumption DEF TypeOK, Activity, OneTask, DestroyDir, NoRun, BeforeSend,
   Creating, Starting, Talking, AfterEvent, host, locals, channel, caller, history,
   bounds, Ok, Fault, HostOnly

LEMMA DestroyStateKeepsMachineStays ==
  ASSUME TypeOK, TypeOK', Activity, MachineStays, DestroyState
  PROVE  MachineStays'
BY SandboxAssumption DEF TypeOK, Activity, MachineStays, DestroyState, SetState,
   FinalState, Back, Reconciling, Starting, AfterEvent, host, locals, channel, caller,
   history, bounds, Ok, Fault, HostOnly

LEMMA DestroyStateKeepsCleanupHonest ==
  ASSUME TypeOK, TypeOK', Activity, DestroyOrder, CleanupHonest, DestroyState
  PROVE  CleanupHonest'
BY SandboxAssumption DEF TypeOK, Activity, DestroyOrder, CleanupHonest, DestroyState,
   SetState, FinalState, Back, Reconciling, Removed, Leftover, NoRun, AfterEvent, host,
   locals, channel, caller, history, bounds, Ok, Fault, HostOnly

(* One step of the program, of the machines or of the caller keeps the     *)
(* inductive invariant, types apart.                                       *)
LEMMA StepInv == IInv /\ TypeOK' /\ [Next]_vars => IInv'
<1> SUFFICES ASSUME IInv, TypeOK', [Next]_vars PROVE IInv'
  OBVIOUS
<1> USE SandboxAssumption DEF vars, host, locals, channel, caller, history, bounds, Ok,
      Fault, HostOnly, NoRun, Creating, Starting, BeforeSend, Talking, Destroying, Removed,
      AfterEvent, Leftover, Outcomes, IInv, TypeOK, Activity, RowFirst, MachineStays,
      DestroyOrder, LocalsTell, CleanupHonest, OneTask, DoneIsLast, ResultKnown,
      SuccessIsSaid, SweepHonest, CleanUnlessFailed
<1>1. ASSUME Prepare PROVE IInv' BY <1>1 DEF Prepare
<1>2. ASSUME RecordEvent PROVE IInv'
  <2>1. Activity' BY <1>2 DEF RecordEvent
  <2>2. RowFirst' BY <1>2 DEF RecordEvent
  <2>3. MachineStays' BY <1>2 DEF RecordEvent
  <2>4. DestroyOrder' BY <1>2 DEF RecordEvent
  <2>5. LocalsTell' BY <1>2, RecordEventKeepsLocalsTell
  <2>6. CleanupHonest' BY <1>2 DEF RecordEvent
  <2>7. OneTask' BY <1>2, RecordKeepsTask
  <2>8. DoneIsLast' BY <1>2 DEF RecordEvent
  <2>9. ResultKnown' BY <1>2 DEF RecordEvent
  <2>10. SuccessIsSaid' BY <1>2 DEF RecordEvent
  <2>11. SweepHonest' BY <1>2, RecordKeepsSweep
  <2>12. CleanUnlessFailed' BY <1>2 DEF RecordEvent
  <2> QED BY <2>1, <2>2, <2>3, <2>4, <2>5, <2>6, <2>7, <2>8, <2>9, <2>10, <2>11, <2>12
<1>3. ASSUME Failed PROVE IInv'
  <2>1. Activity' BY <1>3 DEF Failed
  <2>2. RowFirst' BY <1>3 DEF Failed
  <2>3. MachineStays' BY <1>3 DEF Failed
  <2>4. DestroyOrder' BY <1>3 DEF Failed
  <2>5. LocalsTell' BY <1>3 DEF Failed
  <2>6. CleanupHonest' BY <1>3 DEF Failed
  <2>7. OneTask' BY <1>3 DEF Failed
  <2>8. DoneIsLast' BY <1>3 DEF Failed
  <2>9. ResultKnown' BY <1>3 DEF Failed
  <2>10. SuccessIsSaid' BY <1>3 DEF Failed
  <2>11. SweepHonest' BY <1>3 DEF Failed
  <2>12. CleanUnlessFailed' BY <1>3 DEF Failed
  <2> QED BY <2>1, <2>2, <2>3, <2>4, <2>5, <2>6, <2>7, <2>8, <2>9, <2>10, <2>11, <2>12
<1>4. ASSUME CreateRow PROVE IInv' BY <1>4 DEF CreateRow
<1>5. ASSUME CreateDir PROVE IInv' BY <1>5 DEF CreateDir
<1>6. ASSUME CreateDisk PROVE IInv' BY <1>6 DEF CreateDisk, ScriptFails
<1>7. ASSUME CreateVm PROVE IInv' BY <1>7 DEF CreateVm, ScriptFails
<1>8. ASSUME CreateMark PROVE IInv' BY <1>8 DEF CreateMark, ScriptFails
<1>9. ASSUME CreateUndo PROVE IInv' BY <1>9 DEF CreateUndo
<1>10. ASSUME CreateReturns PROVE IInv' BY <1>10 DEF CreateReturns, ScriptFails
<1>11. ASSUME Inject PROVE IInv' BY <1>11 DEF Inject
<1>12. ASSUME Abort PROVE IInv'
  <2>1. Activity' BY <1>12 DEF Abort
  <2>2. RowFirst' BY <1>12 DEF Abort
  <2>3. MachineStays' BY <1>12 DEF Abort
  <2>4. DestroyOrder' BY <1>12 DEF Abort
  <2>5. LocalsTell' BY <1>12 DEF Abort
  <2>6. CleanupHonest' BY <1>12 DEF Abort
  <2>7. OneTask' BY <1>12 DEF Abort
  <2>8. DoneIsLast' BY <1>12 DEF Abort
  <2>9. ResultKnown' BY <1>12 DEF Abort
  <2>10. SuccessIsSaid' BY <1>12 DEF Abort
  <2>11. SweepHonest' BY <1>12 DEF Abort
  <2>12. CleanUnlessFailed' BY <1>12 DEF Abort
  <2> QED BY <2>1, <2>2, <2>3, <2>4, <2>5, <2>6, <2>7, <2>8, <2>9, <2>10, <2>11, <2>12
<1>13. ASSUME StartVm PROVE IInv' BY <1>13 DEF StartVm
<1>14. ASSUME Poll PROVE IInv'
  <2>1. Activity' BY <1>14 DEF Poll, StatusOf
  <2>2. RowFirst' BY <1>14, PollKeepsRow
  <2>3. MachineStays' BY <1>14 DEF Poll, StatusOf
  <2>4. DestroyOrder' BY <1>14 DEF Poll, StatusOf
  <2>5. LocalsTell' BY <1>14 DEF Poll, StatusOf
  <2>6. CleanupHonest' BY <1>14 DEF Poll, StatusOf
  <2>7. OneTask' BY <1>14 DEF Poll, StatusOf
  <2>8. DoneIsLast' BY <1>14 DEF Poll, StatusOf
  <2>9. ResultKnown' BY <1>14 DEF Poll, StatusOf
  <2>10. SuccessIsSaid' BY <1>14 DEF Poll, StatusOf
  <2>11. SweepHonest' BY <1>14 DEF Poll, StatusOf
  <2>12. CleanUnlessFailed' BY <1>14 DEF Poll, StatusOf
  <2> QED BY <2>1, <2>2, <2>3, <2>4, <2>5, <2>6, <2>7, <2>8, <2>9, <2>10, <2>11, <2>12
<1>15. ASSUME SendTask PROVE IInv' BY <1>15 DEF SendTask
<1>16. ASSUME SpawnReader PROVE IInv' BY <1>16 DEF SpawnReader
<1>17. ASSUME TakeItem PROVE IInv'
  <2>1. Activity' BY <1>17 DEF TakeItem, ResultOf
  <2>2. RowFirst' BY <1>17 DEF TakeItem, ResultOf
  <2>3. MachineStays' BY <1>17 DEF TakeItem, ResultOf
  <2>4. DestroyOrder' BY <1>17 DEF TakeItem, ResultOf
  <2>5. LocalsTell' BY <1>17 DEF TakeItem, ResultOf
  <2>6. CleanupHonest' BY <1>17 DEF TakeItem, ResultOf
  <2>7. OneTask' BY <1>17 DEF TakeItem, ResultOf
  <2>8. DoneIsLast' BY <1>17 DEF TakeItem, ResultOf
  <2>9. ResultKnown' BY <1>17 DEF TakeItem, ResultOf
  <2>10. SuccessIsSaid' BY <1>17 DEF TakeItem, ResultOf
  <2>11. SweepHonest' BY <1>17 DEF TakeItem, ResultOf
  <2>12. CleanUnlessFailed' BY <1>17 DEF TakeItem, ResultOf
  <2> QED BY <2>1, <2>2, <2>3, <2>4, <2>5, <2>6, <2>7, <2>8, <2>9, <2>10, <2>11, <2>12
<1>18. ASSUME CloseChannel PROVE IInv'
  <2>1. Activity' BY <1>18 DEF CloseChannel
  <2>2. RowFirst' BY <1>18 DEF CloseChannel
  <2>3. MachineStays' BY <1>18 DEF CloseChannel
  <2>4. DestroyOrder' BY <1>18 DEF CloseChannel
  <2>5. LocalsTell' BY <1>18 DEF CloseChannel
  <2>6. CleanupHonest' BY <1>18 DEF CloseChannel
  <2>7. OneTask' BY <1>18 DEF CloseChannel
  <2>8. DoneIsLast' BY <1>18 DEF CloseChannel
  <2>9. ResultKnown' BY <1>18 DEF CloseChannel
  <2>10. SuccessIsSaid' BY <1>18 DEF CloseChannel
  <2>11. SweepHonest' BY <1>18 DEF CloseChannel
  <2>12. CleanUnlessFailed' BY <1>18 DEF CloseChannel
  <2> QED BY <2>1, <2>2, <2>3, <2>4, <2>5, <2>6, <2>7, <2>8, <2>9, <2>10, <2>11, <2>12
<1>19. ASSUME RetrieveArtifacts PROVE IInv'
  <2>1. Activity' BY <1>19 DEF RetrieveArtifacts
  <2>2. RowFirst' BY <1>19 DEF RetrieveArtifacts
  <2>3. MachineStays' BY <1>19 DEF RetrieveArtifacts
  <2>4. DestroyOrder' BY <1>19 DEF RetrieveArtifacts
  <2>5. LocalsTell' BY <1>19 DEF RetrieveArtifacts
  <2>6. CleanupHonest' BY <1>19 DEF RetrieveArtifacts
  <2>7. OneTask' BY <1>19 DEF RetrieveArtifacts
  <2>8. DoneIsLast' BY <1>19 DEF RetrieveArtifacts
  <2>9. ResultKnown' BY <1>19 DEF RetrieveArtifacts
  <2>10. SuccessIsSaid' BY <1>19, RetrieveArtifactsKeepsSuccessIsSaid
  <2>11. SweepHonest' BY <1>19 DEF RetrieveArtifacts
  <2>12. CleanUnlessFailed' BY <1>19 DEF RetrieveArtifacts
  <2> QED BY <2>1, <2>2, <2>3, <2>4, <2>5, <2>6, <2>7, <2>8, <2>9, <2>10, <2>11, <2>12
<1>20. ASSUME DropWorkspace PROVE IInv'
  <2>1. Activity' BY <1>20 DEF DropWorkspace
  <2>2. RowFirst' BY <1>20 DEF DropWorkspace
  <2>3. MachineStays' BY <1>20 DEF DropWorkspace
  <2>4. DestroyOrder' BY <1>20 DEF DropWorkspace
  <2>5. LocalsTell' BY <1>20 DEF DropWorkspace
  <2>6. CleanupHonest' BY <1>20, DropWorkspaceKeepsCleanupHonest
  <2>7. OneTask' BY <1>20, DropWorkspaceKeepsOneTask
  <2>8. DoneIsLast' BY <1>20 DEF DropWorkspace
  <2>9. ResultKnown' BY <1>20 DEF DropWorkspace
  <2>10. SuccessIsSaid' BY <1>20 DEF DropWorkspace
  <2>11. SweepHonest' BY <1>20 DEF DropWorkspace
  <2>12. CleanUnlessFailed' BY <1>20 DEF DropWorkspace
  <2> QED BY <2>1, <2>2, <2>3, <2>4, <2>5, <2>6, <2>7, <2>8, <2>9, <2>10, <2>11, <2>12
<1>21. ASSUME Return PROVE IInv'
  <2>1. Activity' BY <1>21 DEF Return, OutcomeOf, NoLocals, NoChannel
  <2>2. RowFirst' BY <1>21 DEF Return, OutcomeOf, NoLocals, NoChannel
  <2>3. MachineStays' BY <1>21 DEF Return, OutcomeOf, NoLocals, NoChannel
  <2>4. DestroyOrder' BY <1>21 DEF Return, OutcomeOf, NoLocals, NoChannel
  <2>5. LocalsTell' BY <1>21 DEF Return, OutcomeOf, NoLocals, NoChannel
  <2>6. CleanupHonest' BY <1>21 DEF Return, OutcomeOf, NoLocals, NoChannel
  <2>7. OneTask' BY <1>21 DEF Return, OutcomeOf, NoLocals, NoChannel
  <2>8. DoneIsLast' BY <1>21 DEF Return, OutcomeOf, NoLocals, NoChannel
  <2>9. ResultKnown' BY <1>21 DEF Return, OutcomeOf, NoLocals, NoChannel
  <2>10. SuccessIsSaid' BY <1>21 DEF Return, OutcomeOf, NoLocals, NoChannel
  <2>11. SweepHonest' BY <1>21 DEF Return, OutcomeOf, NoLocals, NoChannel
  <2>12. CleanUnlessFailed' BY <1>21 DEF Return, OutcomeOf, NoLocals, NoChannel
  <2> QED BY <2>1, <2>2, <2>3, <2>4, <2>5, <2>6, <2>7, <2>8, <2>9, <2>10, <2>11, <2>12
<1>22. ASSUME DestroyVm PROVE IInv'
  <2>1. Activity' BY <1>22 DEF DestroyVm
  <2>2. RowFirst' BY <1>22 DEF DestroyVm
  <2>3. MachineStays' BY <1>22 DEF DestroyVm
  <2>4. DestroyOrder' BY <1>22 DEF DestroyVm
  <2>5. LocalsTell' BY <1>22 DEF DestroyVm
  <2>6. CleanupHonest' BY <1>22 DEF DestroyVm
  <2>7. OneTask' BY <1>22 DEF DestroyVm
  <2>8. DoneIsLast' BY <1>22 DEF DestroyVm
  <2>9. ResultKnown' BY <1>22 DEF DestroyVm
  <2>10. SuccessIsSaid' BY <1>22 DEF DestroyVm
  <2>11. SweepHonest' BY <1>22 DEF DestroyVm
  <2>12. CleanUnlessFailed' BY <1>22 DEF DestroyVm
  <2> QED BY <2>1, <2>2, <2>3, <2>4, <2>5, <2>6, <2>7, <2>8, <2>9, <2>10, <2>11, <2>12
<1>23. ASSUME DestroyDisk PROVE IInv'
  <2>1. Activity' BY <1>23 DEF DestroyDisk
  <2>2. RowFirst' BY <1>23 DEF DestroyDisk
  <2>3. MachineStays' BY <1>23 DEF DestroyDisk
  <2>4. DestroyOrder' BY <1>23 DEF DestroyDisk
  <2>5. LocalsTell' BY <1>23 DEF DestroyDisk
  <2>6. CleanupHonest' BY <1>23 DEF DestroyDisk
  <2>7. OneTask' BY <1>23 DEF DestroyDisk
  <2>8. DoneIsLast' BY <1>23 DEF DestroyDisk
  <2>9. ResultKnown' BY <1>23 DEF DestroyDisk
  <2>10. SuccessIsSaid' BY <1>23 DEF DestroyDisk
  <2>11. SweepHonest' BY <1>23 DEF DestroyDisk
  <2>12. CleanUnlessFailed' BY <1>23 DEF DestroyDisk
  <2> QED BY <2>1, <2>2, <2>3, <2>4, <2>5, <2>6, <2>7, <2>8, <2>9, <2>10, <2>11, <2>12
<1>24. ASSUME DestroyDir PROVE IInv'
  <2>1. Activity' BY <1>24 DEF DestroyDir
  <2>2. RowFirst' BY <1>24 DEF DestroyDir
  <2>3. MachineStays' BY <1>24 DEF DestroyDir
  <2>4. DestroyOrder' BY <1>24 DEF DestroyDir
  <2>5. LocalsTell' BY <1>24 DEF DestroyDir
  <2>6. CleanupHonest' BY <1>24 DEF DestroyDir
  <2>7. OneTask' BY <1>24, DestroyDirKeepsOneTask
  <2>8. DoneIsLast' BY <1>24 DEF DestroyDir
  <2>9. ResultKnown' BY <1>24 DEF DestroyDir
  <2>10. SuccessIsSaid' BY <1>24 DEF DestroyDir
  <2>11. SweepHonest' BY <1>24 DEF DestroyDir
  <2>12. CleanUnlessFailed' BY <1>24 DEF DestroyDir
  <2> QED BY <2>1, <2>2, <2>3, <2>4, <2>5, <2>6, <2>7, <2>8, <2>9, <2>10, <2>11, <2>12
<1>25. ASSUME DestroyState PROVE IInv'
  <2>1. Activity' BY <1>25 DEF DestroyState, SetState, FinalState, Back, Reconciling
  <2>2. RowFirst' BY <1>25 DEF DestroyState, SetState, FinalState, Back, Reconciling
  <2>3. MachineStays' BY <1>25, DestroyStateKeepsMachineStays
  <2>4. DestroyOrder' BY <1>25 DEF DestroyState, SetState, FinalState, Back, Reconciling
  <2>5. LocalsTell' BY <1>25 DEF DestroyState, SetState, FinalState, Back, Reconciling
  <2>6. CleanupHonest' BY <1>25, DestroyStateKeepsCleanupHonest
  <2>7. OneTask' BY <1>25 DEF DestroyState, SetState, FinalState, Back, Reconciling
  <2>8. DoneIsLast' BY <1>25 DEF DestroyState, SetState, FinalState, Back, Reconciling
  <2>9. ResultKnown' BY <1>25 DEF DestroyState, SetState, FinalState, Back, Reconciling
  <2>10. SuccessIsSaid' BY <1>25 DEF DestroyState, SetState, FinalState, Back, Reconciling
  <2>11. SweepHonest' BY <1>25 DEF DestroyState, SetState, FinalState, Back, Reconciling
  <2>12. CleanUnlessFailed' BY <1>25 DEF DestroyState, SetState, FinalState, Back, Reconciling
  <2> QED BY <2>1, <2>2, <2>3, <2>4, <2>5, <2>6, <2>7, <2>8, <2>9, <2>10, <2>11, <2>12
<1>26. ASSUME EndReconcile PROVE IInv'
  <2>1. Activity' BY <1>26 DEF EndReconcile, NoLocals
  <2>2. RowFirst' BY <1>26 DEF EndReconcile, NoLocals
  <2>3. MachineStays' BY <1>26 DEF EndReconcile, NoLocals
  <2>4. DestroyOrder' BY <1>26 DEF EndReconcile, NoLocals
  <2>5. LocalsTell' BY <1>26 DEF EndReconcile, NoLocals
  <2>6. CleanupHonest' BY <1>26 DEF EndReconcile, NoLocals
  <2>7. OneTask' BY <1>26 DEF EndReconcile, NoLocals
  <2>8. DoneIsLast' BY <1>26 DEF EndReconcile, NoLocals
  <2>9. ResultKnown' BY <1>26 DEF EndReconcile, NoLocals
  <2>10. SuccessIsSaid' BY <1>26 DEF EndReconcile, NoLocals
  <2>11. SweepHonest' BY <1>26 DEF EndReconcile, NoLocals
  <2>12. CleanUnlessFailed' BY <1>26 DEF EndReconcile, NoLocals
  <2> QED BY <2>1, <2>2, <2>3, <2>4, <2>5, <2>6, <2>7, <2>8, <2>9, <2>10, <2>11, <2>12
<1>27. ASSUME StartReconcile PROVE IInv' BY <1>27 DEF StartReconcile, Eligible, Listed
<1>28. ASSUME Crash PROVE IInv'
  <2>1. Activity' BY <1>28 DEF Crash, InRun, Reconciling, NoLocals, NoChannel
  <2>2. RowFirst' BY <1>28 DEF Crash, InRun, Reconciling, NoLocals, NoChannel
  <2>3. MachineStays' BY <1>28 DEF Crash, InRun, Reconciling, NoLocals, NoChannel
  <2>4. DestroyOrder' BY <1>28 DEF Crash, InRun, Reconciling, NoLocals, NoChannel
  <2>5. LocalsTell' BY <1>28 DEF Crash, InRun, Reconciling, NoLocals, NoChannel
  <2>6. CleanupHonest' BY <1>28 DEF Crash, InRun, Reconciling, NoLocals, NoChannel
  <2>7. OneTask' BY <1>28 DEF Crash, InRun, Reconciling, NoLocals, NoChannel
  <2>8. DoneIsLast' BY <1>28 DEF Crash, InRun, Reconciling, NoLocals, NoChannel
  <2>9. ResultKnown' BY <1>28 DEF Crash, InRun, Reconciling, NoLocals, NoChannel
  <2>10. SuccessIsSaid' BY <1>28 DEF Crash, InRun, Reconciling, NoLocals, NoChannel
  <2>11. SweepHonest' BY <1>28 DEF Crash, InRun, Reconciling, NoLocals, NoChannel
  <2>12. CleanUnlessFailed' BY <1>28 DEF Crash, InRun, Reconciling, NoLocals, NoChannel
  <2> QED BY <2>1, <2>2, <2>3, <2>4, <2>5, <2>6, <2>7, <2>8, <2>9, <2>10, <2>11, <2>12
<1>29. ASSUME Restart PROVE IInv' BY <1>29 DEF Restart
<1>30. ASSUME LoseStore PROVE IInv' BY <1>30 DEF LoseStore
<1>31. ASSUME Cancel PROVE IInv'
  <2>1. Activity' BY <1>31 DEF Cancel
  <2>2. RowFirst' BY <1>31 DEF Cancel
  <2>3. MachineStays' BY <1>31 DEF Cancel
  <2>4. DestroyOrder' BY <1>31 DEF Cancel
  <2>5. LocalsTell' BY <1>31 DEF Cancel
  <2>6. CleanupHonest' BY <1>31 DEF Cancel
  <2>7. OneTask' BY <1>31 DEF Cancel
  <2>8. DoneIsLast' BY <1>31 DEF Cancel
  <2>9. ResultKnown' BY <1>31 DEF Cancel
  <2>10. SuccessIsSaid' BY <1>31 DEF Cancel
  <2>11. SweepHonest' BY <1>31 DEF Cancel
  <2>12. CleanUnlessFailed' BY <1>31 DEF Cancel
  <2> QED BY <2>1, <2>2, <2>3, <2>4, <2>5, <2>6, <2>7, <2>8, <2>9, <2>10, <2>11, <2>12
<1>32. ASSUME Expire PROVE IInv' BY <1>32 DEF Expire
<1>33. ASSUME NEW s \in Sandboxes, ReconcileNext(s) PROVE IInv'
  <2>1. Activity' BY <1>33 DEF ReconcileNext, SetState, StatusOf, Listed
  <2>2. RowFirst' BY <1>33, SweepKeepsRow
  <2>3. MachineStays' BY <1>33 DEF ReconcileNext, SetState, StatusOf, Listed
  <2>4. DestroyOrder' BY <1>33 DEF ReconcileNext, SetState, StatusOf, Listed
  <2>5. LocalsTell' BY <1>33 DEF ReconcileNext, SetState, StatusOf, Listed
  <2>6. CleanupHonest' BY <1>33 DEF ReconcileNext, SetState, StatusOf, Listed
  <2>7. OneTask' BY <1>33 DEF ReconcileNext, SetState, StatusOf, Listed
  <2>8. DoneIsLast' BY <1>33 DEF ReconcileNext, SetState, StatusOf, Listed
  <2>9. ResultKnown' BY <1>33 DEF ReconcileNext, SetState, StatusOf, Listed
  <2>10. SuccessIsSaid' BY <1>33 DEF ReconcileNext, SetState, StatusOf, Listed
  <2>11. SweepHonest' BY <1>33 DEF ReconcileNext, SetState, StatusOf, Listed
  <2>12. CleanUnlessFailed' BY <1>33 DEF ReconcileNext, SetState, StatusOf, Listed
  <2> QED BY <2>1, <2>2, <2>3, <2>4, <2>5, <2>6, <2>7, <2>8, <2>9, <2>10, <2>11, <2>12
<1>34. ASSUME NEW s \in Sandboxes, Begin(s) PROVE IInv' BY <1>34 DEF Begin
<1>35. ASSUME NEW s \in Sandboxes, ReaderConnects(s) PROVE IInv'
  <2>1. Activity' BY <1>35 DEF ReaderConnects, Put
  <2>2. RowFirst' BY <1>35 DEF ReaderConnects, Put
  <2>3. MachineStays' BY <1>35 DEF ReaderConnects, Put
  <2>4. DestroyOrder' BY <1>35 DEF ReaderConnects, Put
  <2>5. LocalsTell' BY <1>35 DEF ReaderConnects, Put
  <2>6. CleanupHonest' BY <1>35 DEF ReaderConnects, Put
  <2>7. OneTask' BY <1>35 DEF ReaderConnects, Put
  <2>8. DoneIsLast' BY <1>35, ConnectKeepsQueue
  <2>9. ResultKnown' BY <1>35 DEF ReaderConnects, Put
  <2>10. SuccessIsSaid' BY <1>35 DEF ReaderConnects, Put
  <2>11. SweepHonest' BY <1>35 DEF ReaderConnects, Put
  <2>12. CleanUnlessFailed' BY <1>35 DEF ReaderConnects, Put
  <2> QED BY <2>1, <2>2, <2>3, <2>4, <2>5, <2>6, <2>7, <2>8, <2>9, <2>10, <2>11, <2>12
<1>36. ASSUME NEW s \in Sandboxes, ReaderReads(s) PROVE IInv'
  <2>1. Activity' BY <1>36 DEF ReaderReads, Put
  <2>2. RowFirst' BY <1>36 DEF ReaderReads, Put
  <2>3. MachineStays' BY <1>36 DEF ReaderReads, Put
  <2>4. DestroyOrder' BY <1>36 DEF ReaderReads, Put
  <2>5. LocalsTell' BY <1>36 DEF ReaderReads, Put
  <2>6. CleanupHonest' BY <1>36 DEF ReaderReads, Put
  <2>7. OneTask' BY <1>36, ReadKeepsTalk
  <2>8. DoneIsLast' BY <1>36, ReadKeepsTalk
  <2>9. ResultKnown' BY <1>36 DEF ReaderReads, Put
  <2>10. SuccessIsSaid' BY <1>36, ReadKeepsTalk
  <2>11. SweepHonest' BY <1>36 DEF ReaderReads, Put
  <2>12. CleanUnlessFailed' BY <1>36 DEF ReaderReads, Put
  <2> QED BY <2>1, <2>2, <2>3, <2>4, <2>5, <2>6, <2>7, <2>8, <2>9, <2>10, <2>11, <2>12
<1>37. ASSUME NEW s \in Sandboxes, ReaderBreaks(s) PROVE IInv'
  <2>1. Activity' BY <1>37 DEF ReaderBreaks, Put
  <2>2. RowFirst' BY <1>37 DEF ReaderBreaks, Put
  <2>3. MachineStays' BY <1>37 DEF ReaderBreaks, Put
  <2>4. DestroyOrder' BY <1>37 DEF ReaderBreaks, Put
  <2>5. LocalsTell' BY <1>37 DEF ReaderBreaks, Put
  <2>6. CleanupHonest' BY <1>37 DEF ReaderBreaks, Put
  <2>7. OneTask' BY <1>37 DEF ReaderBreaks, Put
  <2>8. DoneIsLast' BY <1>37 DEF ReaderBreaks, Put
  <2>9. ResultKnown' BY <1>37 DEF ReaderBreaks, Put
  <2>10. SuccessIsSaid' BY <1>37 DEF ReaderBreaks, Put
  <2>11. SweepHonest' BY <1>37 DEF ReaderBreaks, Put
  <2>12. CleanUnlessFailed' BY <1>37 DEF ReaderBreaks, Put
  <2> QED BY <2>1, <2>2, <2>3, <2>4, <2>5, <2>6, <2>7, <2>8, <2>9, <2>10, <2>11, <2>12
<1>38. ASSUME NEW s \in Sandboxes, MachineStep(s) PROVE IInv'
  <2>1. Activity' BY <1>38 DEF MachineStep
  <2>2. RowFirst' BY <1>38 DEF MachineStep
  <2>3. MachineStays' BY <1>38 DEF MachineStep
  <2>4. DestroyOrder' BY <1>38 DEF MachineStep
  <2>5. LocalsTell' BY <1>38 DEF MachineStep
  <2>6. CleanupHonest' BY <1>38 DEF MachineStep
  <2>7. OneTask' BY <1>38 DEF MachineStep
  <2>8. DoneIsLast' BY <1>38 DEF MachineStep
  <2>9. ResultKnown' BY <1>38 DEF MachineStep
  <2>10. SuccessIsSaid' BY <1>38 DEF MachineStep
  <2>11. SweepHonest' BY <1>38 DEF MachineStep
  <2>12. CleanUnlessFailed' BY <1>38 DEF MachineStep
  <2> QED BY <2>1, <2>2, <2>3, <2>4, <2>5, <2>6, <2>7, <2>8, <2>9, <2>10, <2>11, <2>12
<1>39. CASE UNCHANGED vars BY <1>39
<1> QED BY <1>1, <1>2, <1>3, <1>4, <1>5, <1>6, <1>7, <1>8, <1>9, <1>10, <1>11, <1>12, <1>13,
      <1>14, <1>15, <1>16, <1>17, <1>18, <1>19, <1>20, <1>21, <1>22, <1>23, <1>24, <1>25,
      <1>26, <1>27, <1>28, <1>29, <1>30, <1>31, <1>32, <1>33, <1>34, <1>35, <1>36, <1>37,
      <1>38, <1>39 DEF Next, ProcessStep, CreateStep, CleanupStep, DestroyStep,
      ReconcileStep, ReaderStep

LEMMA InitInv == Init => IInv
<1> SUFFICES ASSUME Init PROVE IInv
  OBVIOUS
<1> USE DEF Init
<1>1. TypeOK
  <2>1. /\ queue \in [Sandboxes -> Seq({"event", "done", "error"})]
        /\ tasks \in [Sandboxes -> Nat]
    OBVIOUS
  <2>2. /\ vm \in [Sandboxes -> VmStates] /\ rec \in [Sandboxes -> RecStates]
        /\ reader \in [Sandboxes -> {"none", "spawned", "reading", "finished"}]
        /\ said \in [Sandboxes -> {"success", "failed", "foreign", None}]
    BY DEF VmStates, RecStates
  <2>3. outcome \in [Sandboxes -> Outcomes \cup {"none", "open", "raised", "cleanup_failed", "crashed"}]
    OBVIOUS
  <2>4. pc \in Pcs
    BY PcsDef
  <2>5. /\ disk \in [Sandboxes -> BOOLEAN] /\ dir \in [Sandboxes -> BOOLEAN]
        /\ ws \in [Sandboxes -> BOOLEAN] /\ session \in [Sandboxes -> BOOLEAN]
    OBVIOUS
  <2>6. /\ cur \in Sandboxes \cup {None} /\ result \in Outcomes \cup {None}
        /\ hasSb \in BOOLEAN /\ hasWs \in BOOLEAN /\ raising \in BOOLEAN /\ collected \in BOOLEAN
        /\ cancelled \in BOOLEAN /\ expired \in BOOLEAN
    OBVIOUS
  <2>7. /\ errs \subseteq Sandboxes /\ todo \subseteq Sandboxes /\ vanished \subseteq Sandboxes
        /\ {faults, crashes, reconciles, losses} \subseteq Nat
    OBVIOUS
  <2> HIDE DEF Init
  <2> QED BY <2>1, <2>2, <2>3, <2>4, <2>5, <2>6, <2>7 DEF TypeOK
<1>2. Activity /\ RowFirst /\ MachineStays /\ DestroyOrder
  BY DEF Activity, NoRun, RowFirst, Creating, Leftover, MachineStays, Starting, DestroyOrder
<1>3. LocalsTell /\ CleanupHonest /\ OneTask /\ DoneIsLast
  BY DEF LocalsTell, Creating, Starting, Talking, Destroying, CleanupHonest, Removed, OneTask, DoneIsLast
<1>4. ResultKnown /\ SuccessIsSaid /\ SweepHonest /\ CleanUnlessFailed
  BY SandboxAssumption
  DEF ResultKnown, Removed, Destroying, SuccessIsSaid, SweepHonest, CleanUnlessFailed, Outcomes
<1> QED BY <1>1, <1>2, <1>3, <1>4 DEF IInv

(* The inductive invariant, for any sandboxes, faults, crashes and lost    *)
(* tables (SandboxWorkerBackend.run, HyperVSandboxController).             *)
THEOREM Correct == Spec => []IInv
<1>1. IInv /\ [Next]_vars => IInv'
  BY TypeStep, StepInv DEF IInv
<1> QED BY InitInv, <1>1, PTL DEF Spec

(* The table holds statuses of the code only, and every variable a value   *)
(* of its type.                                                            *)
THEOREM TypeCorrect == Spec => []TypeOK
BY Correct, PTL DEF IInv

(* Whatever a fault or a crash leaves on the host has a row that is not    *)
(* final: create() stores the row first, destroy() stores DESTROYED last.  *)
THEOREM LeftoversTraceable == Spec => []Traceable
<1>1. IInv => Traceable
  BY DEF IInv, RowFirst, Traceable
<1> QED BY Correct, <1>1, PTL

(* A run that reports success, cancellation or a timeout has removed its   *)
(* machine, disk, directory and workspace (run, _cleanup).                 *)
THEOREM CleanOutcomes == Spec => []CleanUnlessFailed
BY Correct, PTL DEF IInv

(* Only the start and the end of a run and a crash write its outcome, and  *)
(* only EndReconcile() leaves the sweep for the idle state.                *)
LEMMA OutcomeFrame ==
  [Next]_vars => Return \/ Crash \/ (\E t \in Sandboxes : Begin(t)) \/ outcome' = outcome
BY DEF Prepare, RecordEvent, Failed, CreateRow, CreateDir, CreateDisk, ScriptFails,
   CreateVm, CreateMark, CreateUndo, CreateReturns, Inject, Abort, StartVm, Poll,
   StatusOf, SendTask, SpawnReader, TakeItem, ResultOf, CloseChannel, RetrieveArtifacts,
   DropWorkspace, Return, OutcomeOf, NoLocals, NoChannel, DestroyVm, DestroyDisk,
   DestroyDir, DestroyState, SetState, FinalState, Back, Reconciling, EndReconcile,
   ReconcileNext, Listed, Begin, ReaderConnects, Put, ReaderReads, ReaderBreaks,
   MachineStep, StartReconcile, Eligible, Crash, InRun, Restart, LoseStore, Cancel,
   Expire, Next, ProcessStep, CreateStep, CleanupStep, DestroyStep, ReconcileStep,
   ReaderStep, HostOnly, history, vars, Ok, Fault, AfterEvent

LEMMA SweepEnds ==
  ASSUME [Next]_vars, pc = "reconcile", pc' = "idle"
  PROVE  EndReconcile
BY DEF Prepare, RecordEvent, Failed, CreateRow, CreateDir, CreateDisk, ScriptFails,
   CreateVm, CreateMark, CreateUndo, CreateReturns, Inject, Abort, StartVm, Poll,
   StatusOf, SendTask, SpawnReader, TakeItem, ResultOf, CloseChannel, RetrieveArtifacts,
   DropWorkspace, Return, OutcomeOf, NoLocals, NoChannel, DestroyVm, DestroyDisk,
   DestroyDir, DestroyState, SetState, FinalState, Back, Reconciling, EndReconcile,
   ReconcileNext, Listed, Begin, ReaderConnects, Put, ReaderReads, ReaderBreaks,
   MachineStep, StartReconcile, Eligible, Crash, InRun, Restart, LoseStore, Cancel,
   Expire, Next, ProcessStep, CreateStep, CleanupStep, DestroyStep, ReconcileStep,
   ReaderStep, HostOnly, history, vars, Ok, Fault, AfterEvent

(* Success is what the guest said in answer to the one task it was sent,   *)
(* and its artifacts were collected (retrieve_result, _retrieve_artifacts). *)
THEOREM SuccessComplete == Spec => SuccessIsComplete
<1>1. ASSUME IInv, [Next]_vars, NEW s \in Sandboxes, outcome[s] = "open", outcome'[s] = "success"
      PROVE  said[s] = "success" /\ tasks[s] = 1 /\ collected
  <2>1. Return
    <3>1. CASE Crash
      <4>1. cur = s => outcome'[s] = "crashed" \/ outcome' = outcome
        BY <1>1, <3>1 DEF Crash, IInv, TypeOK
      <4>2. cur # s => outcome'[s] = outcome[s]
        BY <1>1, <3>1 DEF Crash, IInv, TypeOK
      <4> QED BY <1>1, <4>1, <4>2
    <3>2. CASE \E t \in Sandboxes : Begin(t)
      BY <1>1, <3>2 DEF Begin, IInv, TypeOK
    <3>3. ~Return /\ ~Crash /\ ~(\E t \in Sandboxes : Begin(t)) => outcome' = outcome
      BY <1>1, OutcomeFrame
    <3> QED BY <1>1, <3>1, <3>2, <3>3
  <2>2. cur \in Sandboxes /\ pc = "return" /\ outcome' = [outcome EXCEPT ![cur] = OutcomeOf]
    BY <1>1, <2>1 DEF Return, IInv, Activity, NoRun
  <2>3. s = cur /\ OutcomeOf = "success"
    BY <1>1, <2>2 DEF IInv, TypeOK
  <2>4. result = "success" /\ errs = {}
    BY <1>1, <2>3 DEF OutcomeOf
  <2> QED
    BY <1>1, <2>2, <2>3, <2>4 DEF IInv, SuccessIsSaid, Removed
<1>2. IInv /\ [Next]_vars => [\A s \in Sandboxes :
       outcome[s] = "open" /\ outcome'[s] = "success" =>
         said[s] = "success" /\ tasks[s] = 1 /\ collected]_vars
  BY <1>1
<1> QED BY Correct, <1>2, PTL DEF Spec, SuccessIsComplete

(* When reconcile() is through, a sandbox it does not report an error for  *)
(* has neither machine nor disk (HyperVSandboxController.reconcile).       *)
THEOREM ReconcileComplete == Spec => ReconcileLeavesNothing
<1>1. IInv /\ [Next]_vars => [pc = "reconcile" /\ pc' = "idle" =>
       \A s \in Sandboxes \ (errs \cup vanished) :
         /\ rec[s] # "none" => ~Leftover(s)
         /\ rec[s] = "none" => vm[s] \in {"none", "unmarked"}]_vars
  <2> SUFFICES ASSUME IInv, [Next]_vars, pc = "reconcile", pc' = "idle" PROVE todo = {}
    BY DEF IInv, SweepHonest
  <2>1. EndReconcile
    BY SweepEnds
  <2> QED BY <2>1 DEF EndReconcile
<1> QED BY Correct, <1>1, PTL DEF Spec, ReconcileLeavesNothing
=============================================================================
