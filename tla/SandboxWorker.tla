---------------------------- MODULE SandboxWorker ----------------------------
(***************************************************************************)
(* A worker run in a disposable Hyper-V machine:                           *)
(* night_shifts/backends/sandbox_worker.py (SandboxWorkerBackend.run, its  *)
(* cleanup and its reader thread), backends/hyperv.py                      *)
(* (HyperVSandboxController.create, start, status, destroy, reconcile)     *)
(* with the scripts under backends/hyperv_scripts, and                     *)
(* backends/hyperv_serial.py (HyperVSerialTransport).                      *)
(*                                                                         *)
(* One host process makes one run at a time, each with its own sandbox.    *)
(* A step is one effect outside the process: a PowerShell command or the   *)
(* part of a script between two effects on Hyper-V, a directory operation, *)
(* a write to a SQLite store.  Every one may raise, the process may die    *)
(* between any two, and reconcile() is what a later process does about it. *)
(* A store that refuses an event (event_store.append or on_event raising)  *)
(* is a fault like any other.                                              *)
(***************************************************************************)
EXTENDS Integers, Sequences

CONSTANTS Sandboxes,      \* sandbox ids; also the job of the run that draws the id
          MaxFaults,      \* bound: operations that raise
          MaxCrashes,     \* bound: deaths of the host process
          MaxReconciles,  \* bound: calls of reconcile()
          MaxLosses,      \* bound: how often the sandbox table is lost
          Vanishing,      \* machines that may be removed behind the controller's back
          MaxQueue,       \* bound: events the guest sends
          None

Outcomes == {"success", "failed", "cancelled", "timed_out"}

ASSUME SandboxAssumption ==
  /\ {MaxFaults, MaxCrashes, MaxReconciles, MaxLosses, MaxQueue} \subseteq Nat
  /\ Vanishing \subseteq Sandboxes
  /\ None \notin Sandboxes \cup Outcomes

(* "unmarked" is a machine whose owner marker is not yet written. *)
VmStates == {"none", "unmarked", "off", "starting", "running"}
RecStates == {"none", "created", "starting", "running", "stopped", "error", "destroyed"}

(* Where an event is recorded in run(), and what follows. *)
AfterEvent == [note_prepared  |-> "create_row",
               note_created   |-> "inject",
               note_injected  |-> "check",
               note_started   |-> "poll",
               note_running   |-> "send",
               note_sent      |-> "spawn",
               note_event     |-> "stream",
               note_result    |-> "close",
               note_abort     |-> "close",
               note_refused   |-> "close",
               note_failed    |-> "close",
               note_destroyed |-> "drop_ws",
               note_cleanup   |-> "return"]

VARIABLES
  \* the host
  vm,         \* the sandbox's machine in Hyper-V
  disk,       \* its differencing disk exists
  dir,        \* the directory of disk and machine configuration exists
  ws,         \* the prepared workspace of the job exists
  rec,        \* status in the sandbox table; "none" without a row
  \* the process: run(), destroy() and reconcile()
  pc, cur,
  hasSb, hasWs,  \* run()'s locals sandbox and workspace are not None
  result,        \* run()'s local result
  errs,          \* sandboxes with an entry in the errors list of _cleanup() or reconcile()
  raising,       \* an exception is on its way out of run()
  collected,     \* the artifacts were collected
  todo,          \* sandboxes reconcile() has still to look at
  \* the serial channel and the reader thread
  session, reader, queue,
  said,       \* the result frame in the session
  tasks,      \* how many task frames the guest was sent
  \* the caller
  cancelled, expired,
  \* history
  outcome,    \* how the run of a sandbox ended
  vanished,   \* machines removed behind the controller's back
  faults, crashes, reconciles, losses

host    == <<vm, disk, dir, ws, rec>>
locals  == <<cur, hasSb, hasWs, result, errs, raising, collected, todo>>
channel == <<session, reader, queue, said, tasks>>
caller  == <<cancelled, expired>>
history == <<outcome, vanished>>
bounds  == <<crashes, reconciles, losses>>
vars    == <<host, pc, locals, channel, caller, history, faults, bounds>>

Init ==
  /\ vm = [s \in Sandboxes |-> "none"]
  /\ disk = [s \in Sandboxes |-> FALSE]
  /\ dir = [s \in Sandboxes |-> FALSE]
  /\ ws = [s \in Sandboxes |-> FALSE]
  /\ rec = [s \in Sandboxes |-> "none"]
  /\ pc = "idle"
  /\ cur = None
  /\ hasSb = FALSE /\ hasWs = FALSE
  /\ result = None
  /\ errs = {}
  /\ raising = FALSE /\ collected = FALSE
  /\ todo = {}
  /\ session = [s \in Sandboxes |-> FALSE]
  /\ reader = [s \in Sandboxes |-> "none"]
  /\ queue = [s \in Sandboxes |-> <<>>]
  /\ said = [s \in Sandboxes |-> None]
  /\ tasks = [s \in Sandboxes |-> 0]
  /\ cancelled = FALSE /\ expired = FALSE
  /\ outcome = [s \in Sandboxes |-> "none"]
  /\ vanished = {}
  /\ faults = 0 /\ crashes = 0 /\ reconciles = 0 /\ losses = 0

-----------------------------------------------------------------------------
(* An operation succeeds, or raises while faults are left. *)
Ok(p) == pc' = p /\ UNCHANGED faults
Fault(p) == faults < MaxFaults /\ faults' = faults + 1 /\ pc' = p

(* The local variables of run() and reconcile() when none is active. *)
NoLocals ==
  /\ cur' = None
  /\ hasSb' = FALSE
  /\ hasWs' = FALSE
  /\ result' = None
  /\ errs' = {}
  /\ raising' = FALSE
  /\ collected' = FALSE
  /\ todo' = {}
  /\ cancelled' = FALSE
  /\ expired' = FALSE

(* No channel is in use.  A daemon reader that outlives its run can only   *)
(* touch its own session from then on and is not followed further.         *)
NoChannel ==
  /\ session' = [s \in Sandboxes |-> FALSE]
  /\ reader' = [s \in Sandboxes |-> "none"]
  /\ queue' = [s \in Sandboxes |-> <<>>]
  /\ said' = [s \in Sandboxes |-> None]
  /\ tasks' = [s \in Sandboxes |-> 0]

(* Only the host changes. *)
HostOnly == UNCHANGED <<locals, channel, caller, history, bounds>>

Begin(s) ==
  /\ pc = "idle"
  /\ outcome[s] = "none"
  /\ outcome' = [outcome EXCEPT ![s] = "open"]
  /\ cur' = s
  /\ Ok("prepare")
  /\ UNCHANGED <<host, hasSb, hasWs, result, errs, raising, collected, todo, channel, caller,
                 vanished, bounds>>

(* workspace_provider.prepare(); on failure it removes what it made, which *)
(* may fail too.                                                           *)
Prepare ==
  /\ pc = "prepare"
  /\ \/ Ok("note_prepared") /\ ws' = [ws EXCEPT ![cur] = TRUE]
     \/ Fault("failed") /\ \E left \in BOOLEAN : ws' = [ws EXCEPT ![cur] = left]
  /\ UNCHANGED <<vm, disk, dir, rec>>
  /\ HostOnly

(* _record_event().  _prepare_workspace() returns the workspace only after *)
(* its event; _failure() and _abort_result() return a result only after    *)
(* theirs.  An exception ends run()'s try block, the exception handler, or *)
(* _cleanup() itself.                                                      *)
RecordEvent ==
  /\ pc \in DOMAIN AfterEvent
  /\ \/ /\ Ok(AfterEvent[pc])
        /\ hasWs' = (hasWs \/ pc = "note_prepared")
        /\ UNCHANGED <<result, raising>>
     \/ /\ pc \notin {"note_failed", "note_destroyed", "note_cleanup"}
        /\ Fault("failed")
        /\ UNCHANGED <<hasWs, result, raising>>
     \/ /\ pc \in {"note_failed", "note_destroyed", "note_cleanup"}
        /\ Fault(IF pc = "note_failed" THEN "close" ELSE "return")
        /\ raising' = TRUE
        /\ UNCHANGED <<hasWs, result>>
  /\ UNCHANGED <<host, cur, hasSb, errs, collected, todo, channel, caller, history,
                 bounds>>

(* run()'s exception handler: _failure(). *)
Failed ==
  /\ pc = "failed"
  /\ result' = "failed"
  /\ Ok("note_failed")
  /\ UNCHANGED <<host, cur, hasSb, hasWs, errs, raising, collected, todo, channel, caller, history, bounds>>

-----------------------------------------------------------------------------
(* create(): the row comes first, so that whatever follows can be found.   *)
CreateRow ==
  /\ pc = "create_row"
  /\ \/ Ok("create_dir") /\ rec' = [rec EXCEPT ![cur] = "created"]
     \/ Fault("failed") /\ UNCHANGED rec
  /\ UNCHANGED <<vm, disk, dir, ws>>
  /\ HostOnly

CreateDir ==
  /\ pc = "create_dir"
  /\ \/ Ok("create_disk") /\ dir' = [dir EXCEPT ![cur] = TRUE]
     \/ Fault("failed") /\ UNCHANGED dir
  /\ UNCHANGED <<vm, disk, ws, rec>>
  /\ HostOnly

(* create.ps1 fails in one of its commands, and its catch block removes    *)
(* machine and disk; or the runner's timeout kills it, and nobody does.    *)
ScriptFails ==
  /\ Fault("create_undo")
  /\ \/ /\ vm' = [vm EXCEPT ![cur] = "none"]
        /\ disk' = [disk EXCEPT ![cur] = FALSE]
     \/ UNCHANGED <<vm, disk>>

CreateDisk ==
  /\ pc = "create_disk"
  /\ \/ Ok("create_vm") /\ disk' = [disk EXCEPT ![cur] = TRUE] /\ UNCHANGED vm
     \/ ScriptFails
  /\ UNCHANGED <<dir, ws, rec>>
  /\ HostOnly

CreateVm ==
  /\ pc = "create_vm"
  /\ \/ Ok("create_mark") /\ vm' = [vm EXCEPT ![cur] = "unmarked"] /\ UNCHANGED disk
     \/ ScriptFails
  /\ UNCHANGED <<dir, ws, rec>>
  /\ HostOnly

CreateMark ==
  /\ pc = "create_mark"
  /\ \/ Ok("create_state") /\ vm' = [vm EXCEPT ![cur] = "off"] /\ UNCHANGED disk
     \/ ScriptFails
  /\ UNCHANGED <<dir, ws, rec>>
  /\ HostOnly

(* create(), the exception handler: rmdir() leaves a directory that is not *)
(* empty, the row says ERROR, and the caller gets no sandbox.              *)
CreateUndo ==
  /\ pc = "create_undo"
  /\ dir' = [dir EXCEPT ![cur] = disk[cur] \/ vm[cur] # "none"]
  /\ \/ Ok("failed") /\ rec' = [rec EXCEPT ![cur] = "error"]
     \/ Fault("failed") /\ UNCHANGED rec
  /\ UNCHANGED <<vm, disk, ws>>
  /\ HostOnly

(* The rest of create.ps1 configures the machine; then _set_state(CREATED) *)
(* and the return of create().                                             *)
CreateReturns ==
  /\ pc = "create_state"
  /\ \/ Ok("note_created") /\ hasSb' = TRUE /\ UNCHANGED <<vm, disk>>
     \/ Fault("failed") /\ UNCHANGED <<hasSb, vm, disk>>
     \/ ScriptFails /\ UNCHANGED hasSb
  /\ UNCHANGED <<dir, ws, rec, cur, hasWs, result, errs, raising, collected, todo, channel, caller,
                 history, bounds>>

Inject ==
  /\ pc = "inject"
  /\ Ok("note_injected") \/ Fault("failed")
  /\ UNCHANGED host
  /\ HostOnly

-----------------------------------------------------------------------------
(* Mutant: only the caller ends a run. *)
AbortingOnRequest == cancelled

(* _abort_result(): cancellation before timeout. *)
Aborting == cancelled \/ expired

Abort ==
  /\ pc \in {"check", "poll", "stream"}
  /\ Aborting
  /\ result' = IF cancelled THEN "cancelled" ELSE "timed_out"
  /\ Ok("note_abort")
  /\ UNCHANGED <<host, cur, hasSb, hasWs, errs, raising, collected, todo, channel, caller, history, bounds>>

(* provider.start(): start.ps1, then the row; either may fail, the script  *)
(* also after it has started the machine.                                  *)
StartVm ==
  /\ pc = "check"
  /\ ~Aborting
  /\ \/ /\ Ok("note_started")
        /\ vm[cur] = "off"
        /\ vm' = [vm EXCEPT ![cur] = "starting"]
        /\ rec' = [rec EXCEPT ![cur] = "starting"]
     \/ Ok("failed") /\ vm[cur] = "none" /\ rec' = [rec EXCEPT ![cur] = "error"] /\ UNCHANGED vm
     \/ /\ Fault("failed")
        /\ \/ vm[cur] = "off" /\ vm' = [vm EXCEPT ![cur] = "starting"]
           \/ UNCHANGED vm
        /\ \/ rec' = [rec EXCEPT ![cur] = "error"]
           \/ UNCHANGED rec
  /\ UNCHANGED <<disk, dir, ws>>
  /\ HostOnly

(* Mutant: the state's name in Hyper-V is stored as it is. *)
StatusRaw(v) == v

(* _STATE_MAP: a machine that Hyper-V does not know counts as destroyed.   *)
StatusOf(v) == IF v = "none" THEN "destroyed" ELSE IF v = "off" THEN "stopped" ELSE v

(* One pass of the startup loop: provider.status() stores what it saw. *)
Poll ==
  /\ pc = "poll"
  /\ ~Aborting
  /\ \/ /\ rec' = [rec EXCEPT ![cur] = StatusOf(vm[cur])]
        /\ IF vm[cur] = "running" THEN Ok("note_running") /\ UNCHANGED result
           ELSE IF vm[cur] = "starting" THEN Ok("poll") /\ UNCHANGED result
           ELSE Ok("note_refused") /\ result' = "failed"
     \/ Fault("failed") /\ rec' = [rec EXCEPT ![cur] = "error"] /\ UNCHANGED result
  /\ UNCHANGED <<vm, disk, dir, ws, cur, hasSb, hasWs, errs, raising, collected, todo, channel, caller,
                 history, bounds>>

(* channel.send_task(): connects, refuses a second task in a session, and  *)
(* closes the session when the write fails.                                *)
SendTask ==
  /\ pc = "send"
  /\ \/ /\ Ok("note_sent")
        /\ vm[cur] = "running"
        /\ session' = [session EXCEPT ![cur] = TRUE]
        /\ tasks' = [tasks EXCEPT ![cur] = @ + 1]
     \/ Ok("failed") /\ vm[cur] # "running" /\ UNCHANGED <<session, tasks>>
     \/ Fault("failed") /\ UNCHANGED <<session, tasks>>
  /\ UNCHANGED <<host, locals, reader, queue, said, caller, history, bounds>>

SpawnReader ==
  /\ pc = "spawn"
  /\ Ok("stream")
  /\ reader' = [reader EXCEPT ![cur] = "spawned"]
  /\ UNCHANGED <<host, locals, session, queue, said, tasks, caller, history, bounds>>

(* Mutant: the stream's end is success whatever the guest said. *)
ResultTrusting(item) ==
  IF item = "done" THEN "success" ELSE IF item = "error" THEN "failed" ELSE result

(* retrieve_result() after the reader is done: the frame it has read,      *)
(* unless it names another job.                                            *)
ResultOf(item) ==
  IF item = "event" THEN result
  ELSE IF item = "done" /\ said[cur] # "foreign" THEN said[cur]
  ELSE "failed"

(* One item of the reader's queue.  A protocol error is a failure of its   *)
(* own; the event of an item is recorded before the next look at the       *)
(* deadline.                                                               *)
TakeItem ==
  /\ pc = "stream"
  /\ ~Aborting
  /\ queue[cur] # <<>>
  /\ LET item == Head(queue[cur])
     IN  /\ queue' = [queue EXCEPT ![cur] = Tail(@)]
         /\ result' = ResultOf(item)
         /\ IF item = "event" THEN Ok("note_event")
            ELSE IF item = "done" THEN Ok(IF said[cur] = "foreign" THEN "failed" ELSE "note_result")
            ELSE Ok("note_refused")
  /\ UNCHANGED <<host, cur, hasSb, hasWs, errs, raising, collected, todo, session, reader, said, tasks,
                 caller, history, bounds>>

-----------------------------------------------------------------------------
(* The reader puts an item into the queue of its run, which nobody reads   *)
(* once the stream loop is left.                                           *)
Put(s, item) ==
  queue' = IF cur = s /\ pc \in {"stream", "note_event"} THEN [queue EXCEPT ![s] = Append(@, item)]
           ELSE queue

(* The reader thread, a daemon.  events() looks the session up when the    *)
(* thread first runs, and connects again when the channel was closed       *)
(* meanwhile.                                                              *)
ReaderConnects(s) ==
  /\ reader[s] = "spawned"
  /\ \/ /\ session[s] \/ vm[s] = "running"
        /\ session' = [session EXCEPT ![s] = TRUE]
        /\ reader' = [reader EXCEPT ![s] = "reading"]
        /\ UNCHANGED queue
     \/ /\ ~session[s]
        /\ reader' = [reader EXCEPT ![s] = "finished"]
        /\ Put(s, "error")
        /\ UNCHANGED session
  /\ UNCHANGED <<host, pc, locals, said, tasks, caller, history, faults, bounds>>

(* A frame: an event, the result, or one that decoding or _validate_event  *)
(* rejects.                                                                *)
ReaderReads(s) ==
  /\ reader[s] = "reading"
  /\ session[s]
  /\ vm[s] = "running"
  /\ \/ /\ Len(queue[s]) < MaxQueue
        /\ Put(s, "event")
        /\ UNCHANGED <<reader, said>>
     \/ /\ \E o \in {"success", "failed", "foreign"} : said' = [said EXCEPT ![s] = o]
        /\ Put(s, "done")
        /\ reader' = [reader EXCEPT ![s] = "finished"]
     \/ /\ Put(s, "error")
        /\ reader' = [reader EXCEPT ![s] = "finished"]
        /\ UNCHANGED said
  /\ UNCHANGED <<host, pc, locals, session, tasks, caller, history, faults, bounds>>

(* The pipe broke, was closed under the reader or carried a malformed      *)
(* frame: _read_message() closes the session.                              *)
ReaderBreaks(s) ==
  /\ reader[s] = "reading"
  /\ session' = [session EXCEPT ![s] = FALSE]
  /\ Put(s, "error")
  /\ reader' = [reader EXCEPT ![s] = "finished"]
  /\ UNCHANGED <<host, pc, locals, said, tasks, caller, history, faults, bounds>>

-----------------------------------------------------------------------------
(* _cleanup(): close the channel and join the reader, for at most          *)
(* reader_join_seconds.  The queue, the flag and the clock are not looked  *)
(* at again.                                                               *)
CloseChannel ==
  /\ pc = "close"
  /\ IF hasSb
       THEN /\ session' = [session EXCEPT ![cur] = FALSE]
            /\ Ok("artifacts")
       ELSE Ok("drop_ws") /\ UNCHANGED session
  /\ cancelled' = FALSE /\ expired' = FALSE
  /\ queue' = [queue EXCEPT ![cur] = <<>>]
  /\ UNCHANGED <<host, locals, reader, said, tasks, history, bounds>>

(* _retrieve_artifacts(): only a successful result of this model names     *)
(* artifacts.                                                              *)
RetrieveArtifacts ==
  /\ pc = "artifacts"
  /\ \/ /\ Ok("destroy_vm")
        /\ collected' = (result = "success")
        /\ UNCHANGED errs
     \/ /\ result = "success"
        /\ Fault("destroy_vm")
        /\ errs' = errs \cup {cur}
        /\ UNCHANGED collected
  /\ UNCHANGED <<host, cur, hasSb, hasWs, result, raising, todo, channel, caller, history, bounds>>

Reconciling == todo # {}

(* destroy.ps1 refuses a machine without the owner marker, then removes    *)
(* the machine and the disk; the directory follows.                        *)
DestroyVm ==
  /\ pc = "destroy_vm"
  /\ \/ vm[cur] # "unmarked" /\ Ok("destroy_disk") /\ vm' = [vm EXCEPT ![cur] = "none"]
     \/ vm[cur] = "unmarked" /\ Ok("destroy_error") /\ UNCHANGED vm
     \/ Fault("destroy_error") /\ UNCHANGED vm
  /\ UNCHANGED <<disk, dir, ws, rec>>
  /\ HostOnly

DestroyDisk ==
  /\ pc = "destroy_disk"
  /\ \/ Ok("destroy_dir") /\ disk' = [disk EXCEPT ![cur] = FALSE]
     \/ Fault("destroy_error") /\ UNCHANGED disk
  /\ UNCHANGED <<vm, dir, ws, rec>>
  /\ HostOnly

DestroyDir ==
  /\ pc = "destroy_dir"
  /\ \/ Ok("destroy_state") /\ dir' = [dir EXCEPT ![cur] = FALSE]
     \/ Fault("destroy_error") /\ UNCHANGED dir
  /\ UNCHANGED <<vm, disk, ws, rec>>
  /\ HostOnly

(* An orphan has no row to update. *)
SetState(s, st) == rec' = [rec EXCEPT ![s] = IF rec[s] = "none" THEN "none" ELSE st]

(* Where destroy()'s caller goes on. *)
Back(raised) ==
  IF Reconciling THEN "reconcile" ELSE IF raised THEN "drop_ws" ELSE "note_destroyed"

(* Mutant: the row is closed whether or not the resources are gone. *)
FinalAlways(raised) == "destroyed"

FinalState(raised) == IF raised THEN "error" ELSE "destroyed"

(* destroy(): DESTROYED, or ERROR and the exception; the store may refuse. *)
DestroyState ==
  /\ pc \in {"destroy_state", "destroy_error"}
  /\ LET raised == pc = "destroy_error"
     IN  \/ /\ Ok(Back(raised))
            /\ SetState(cur, FinalState(raised))
            /\ errs' = IF raised THEN errs \cup {cur} ELSE errs
         \/ Fault(Back(TRUE)) /\ errs' = errs \cup {cur} /\ UNCHANGED rec
  /\ todo' = todo \ {cur}
  /\ UNCHANGED <<vm, disk, dir, ws, cur, hasSb, hasWs, result, raising, collected, channel, caller,
                 history, bounds>>

(* workspace_provider.destroy() *)
DropWorkspace ==
  /\ pc = "drop_ws"
  /\ \/ /\ Ok(IF errs = {} THEN "return" ELSE "note_cleanup")
        /\ ws' = [ws EXCEPT ![cur] = ~hasWs /\ @]
        /\ UNCHANGED errs
     \/ hasWs /\ Fault("note_cleanup") /\ errs' = errs \cup {cur} /\ UNCHANGED ws
  /\ UNCHANGED <<vm, disk, dir, rec, cur, hasSb, hasWs, result, raising, collected, todo, channel, caller,
                 history, bounds>>

(* Mutant: an error of the cleanup does not change the result. *)
OutcomeKeepsResult == IF raising THEN "raised" ELSE result

(* The result of run(): an exception, a cleanup failure, or the result. *)
OutcomeOf == IF raising THEN "raised" ELSE IF errs # {} THEN "cleanup_failed" ELSE result

Return ==
  /\ pc = "return"
  /\ outcome' = [outcome EXCEPT ![cur] = OutcomeOf]
  /\ Ok("idle")
  /\ NoLocals
  /\ NoChannel
  /\ UNCHANGED <<host, vanished, bounds>>

-----------------------------------------------------------------------------
(* reconcile() takes up the machines Hyper-V lists with name and marker    *)
(* (_owned_inventory) and the rows that are not final or whose machine is  *)
(* listed; rows are stored by this controller only.                        *)
Listed == {s \in Sandboxes : vm[s] \notin {"none", "unmarked"}}

(* Mutant: a row in status ERROR is taken for final as well. *)
EligibleSkipsErrors == Listed \cup {s \in Sandboxes : rec[s] \notin {"none", "destroyed", "error"}}

Eligible == Listed \cup {s \in Sandboxes : rec[s] \notin {"none", "destroyed"}}

StartReconcile ==
  /\ pc \in {"idle", "down"}
  /\ reconciles < MaxReconciles
  /\ reconciles' = reconciles + 1
  /\ todo' = Eligible
  /\ errs' = {}
  /\ Ok("reconcile")
  /\ UNCHANGED <<host, cur, hasSb, hasWs, result, raising, collected, channel, caller, history,
                 crashes, losses>>

(* The next sandbox: the state seen on the host is stored first.  A store  *)
(* that refuses it is an error of this sandbox, and the sweep goes on.     *)
ReconcileNext(s) ==
  /\ pc = "reconcile"
  /\ s \in todo
  /\ cur' = s
  /\ \/ /\ Ok("destroy_vm")
        /\ IF s \in Listed THEN SetState(s, StatusOf(vm[s])) ELSE UNCHANGED rec
        /\ UNCHANGED <<errs, todo>>
     \/ /\ s \in Listed /\ rec[s] # "none"
        /\ Fault("reconcile")
        /\ errs' = errs \cup {s}
        /\ todo' = todo \ {s}
        /\ UNCHANGED rec
  /\ UNCHANGED <<vm, disk, dir, ws, hasSb, hasWs, result, raising, collected, channel, caller,
                 history, bounds>>

EndReconcile ==
  /\ pc = "reconcile"
  /\ todo = {}
  /\ Ok("idle")
  /\ NoLocals
  /\ UNCHANGED <<host, channel, history, bounds>>

-----------------------------------------------------------------------------
InRun == pc \notin {"idle", "down", "reconcile"} /\ ~Reconciling

(* The process dies, with its threads and open pipes. *)
Crash ==
  /\ pc # "down"
  /\ crashes < MaxCrashes
  /\ crashes' = crashes + 1
  /\ Ok("down")
  /\ outcome' = IF InRun THEN [outcome EXCEPT ![cur] = "crashed"] ELSE outcome
  /\ NoLocals
  /\ NoChannel
  /\ UNCHANGED <<host, vanished, reconciles, losses>>

(* A new process; nothing in the code makes it reconcile first. *)
Restart ==
  /\ pc = "down"
  /\ Ok("idle")
  /\ UNCHANGED host
  /\ HostOnly

(* The database is replaced while no process runs: the machines it knew of *)
(* are orphans.                                                            *)
LoseStore ==
  /\ pc = "down"
  /\ losses < MaxLosses
  /\ losses' = losses + 1
  /\ rec' = [s \in Sandboxes |-> "none"]
  /\ UNCHANGED <<vm, disk, dir, ws, pc, locals, channel, caller, history, faults, crashes,
                 reconciles>>

(* The machine boots, the guest shuts down, or an operator removes the     *)
(* machine with the tools of Hyper-V.                                      *)
MachineStep(s) ==
  /\ \/ vm[s] = "starting" /\ vm' = [vm EXCEPT ![s] = "running"] /\ UNCHANGED vanished
     \/ vm[s] = "running" /\ vm' = [vm EXCEPT ![s] = "off"] /\ UNCHANGED vanished
     \/ /\ s \in Vanishing
        /\ vm[s] \in {"off", "starting", "running"}
        /\ vanished' = vanished \cup {s}
        /\ vm' = [vm EXCEPT ![s] = "none"]
  /\ UNCHANGED <<disk, dir, ws, rec, pc, locals, channel, caller, outcome, faults, bounds>>

(* The caller's flag and the clock matter where _abort_result() looks at   *)
(* them; what happens earlier is seen there.                               *)
Cancel ==
  /\ pc \in {"check", "poll", "stream"}
  /\ ~cancelled
  /\ cancelled' = TRUE
  /\ UNCHANGED <<host, pc, locals, channel, expired, history, faults, bounds>>

Expire ==
  /\ pc \in {"check", "poll", "stream", "note_event"}
  /\ ~expired
  /\ expired' = TRUE
  /\ UNCHANGED <<host, pc, locals, channel, cancelled, history, faults, bounds>>

CreateStep == CreateRow \/ CreateDir \/ CreateDisk \/ CreateVm \/ CreateMark \/ CreateUndo \/ CreateReturns
DestroyStep == DestroyVm \/ DestroyDisk \/ DestroyDir \/ DestroyState
CleanupStep == CloseChannel \/ RetrieveArtifacts \/ DropWorkspace \/ Return
ReconcileStep == (\E s \in Sandboxes : ReconcileNext(s)) \/ EndReconcile

ProcessStep ==
  \/ Prepare \/ RecordEvent \/ Failed \/ CreateStep \/ Inject \/ Abort
  \/ StartVm \/ Poll \/ SendTask \/ SpawnReader \/ TakeItem
  \/ CleanupStep \/ DestroyStep \/ ReconcileStep

ReaderStep(s) == ReaderConnects(s) \/ ReaderReads(s) \/ ReaderBreaks(s)

Next ==
  \/ ProcessStep
  \/ \E s \in Sandboxes : Begin(s) \/ ReaderStep(s) \/ MachineStep(s)
  \/ StartReconcile \/ Crash \/ Restart \/ LoseStore \/ Cancel \/ Expire

(* The process goes on and its deadline passes; every call it makes has a  *)
(* timeout of its own.  Nothing obliges the guest, the reader's pipe or an *)
(* operator.                                                               *)
Fairness == WF_vars(ProcessStep) /\ WF_vars(Expire)

Spec == Init /\ [][Next]_vars /\ Fairness

-----------------------------------------------------------------------------
Pcs == DOMAIN AfterEvent \cup
       {"idle", "down", "prepare", "failed", "create_row", "create_dir", "create_disk", "create_vm",
        "create_mark", "create_undo", "create_state", "inject", "check", "poll", "send", "spawn",
        "stream", "close", "artifacts", "destroy_vm", "destroy_disk", "destroy_dir",
        "destroy_state", "destroy_error", "drop_ws", "return", "reconcile"}

(* Type correctness; the table holds statuses of the code only (_STATE_MAP). *)
TypeOK ==
  /\ vm \in [Sandboxes -> VmStates]
  /\ disk \in [Sandboxes -> BOOLEAN]
  /\ dir \in [Sandboxes -> BOOLEAN]
  /\ ws \in [Sandboxes -> BOOLEAN]
  /\ rec \in [Sandboxes -> RecStates]
  /\ pc \in Pcs
  /\ cur \in Sandboxes \cup {None}
  /\ hasSb \in BOOLEAN /\ hasWs \in BOOLEAN /\ raising \in BOOLEAN /\ collected \in BOOLEAN
  /\ errs \subseteq Sandboxes
  /\ result \in Outcomes \cup {None}
  /\ todo \subseteq Sandboxes
  /\ session \in [Sandboxes -> BOOLEAN]
  /\ reader \in [Sandboxes -> {"none", "spawned", "reading", "finished"}]
  /\ queue \in [Sandboxes -> Seq({"event", "done", "error"})]
  /\ said \in [Sandboxes -> {"success", "failed", "foreign", None}]
  /\ tasks \in [Sandboxes -> Nat]
  /\ cancelled \in BOOLEAN /\ expired \in BOOLEAN
  /\ outcome \in [Sandboxes -> Outcomes \cup {"none", "open", "raised", "cleanup_failed", "crashed"}]
  /\ vanished \subseteq Sandboxes
  /\ {faults, crashes, reconciles, losses} \subseteq Nat

Leftover(s) == vm[s] # "none" \/ disk[s]

(* Whatever a fault or a crash leaves on the host can be found again: a    *)
(* machine or a disk has a row that is not final (create() stores the row  *)
(* first, destroy() stores DESTROYED last).  Not so when the table is lost *)
(* or when an operator removed the machine, which status() takes for       *)
(* destroyed.                                                              *)
Traceable ==
  losses = 0 => \A s \in Sandboxes \ vanished :
                  Leftover(s) => rec[s] \notin {"none", "destroyed"}

(* A run that reports success, cancellation or a timeout has removed its   *)
(* machine, disk, directory and workspace, however the abort raced with    *)
(* startup and stream and wherever the cleanup met a fault (run,           *)
(* _cleanup).                                                              *)
CleanUnlessFailed ==
  \A s \in Sandboxes :
    outcome[s] \in {"success", "cancelled", "timed_out"} =>
      vm[s] = "none" /\ ~disk[s] /\ ~dir[s] /\ ~ws[s]

(* Success is what the guest said in answer to the one task it was sent,   *)
(* and its artifacts were collected before the machine went away.          *)
SuccessIsComplete ==
  [][\A s \in Sandboxes :
       outcome[s] = "open" /\ outcome'[s] = "success" =>
         said[s] = "success" /\ tasks[s] = 1 /\ collected]_vars

(* "Cleanup continues after individual failures so one bad VM cannot       *)
(* strand every other owned sandbox": when reconcile() is through, every   *)
(* sandbox it does not report an error for has neither machine nor disk,   *)
(* with or without a row; machines that vanished under the controller and  *)
(* what is left of a lost table's rows aside.                              *)
ReconcileLeavesNothing ==
  [][pc = "reconcile" /\ pc' = "idle" =>
       \A s \in Sandboxes \ (errs \cup vanished) :
         /\ rec[s] # "none" => ~Leftover(s)
         /\ rec[s] = "none" => vm[s] \in {"none", "unmarked"}]_vars

(* The same without the exception: reconcile() will "destroy sandboxes     *)
(* left behind when a previous controller stopped", with their disks.      *)
ReconcileCleansAll ==
  [][pc = "reconcile" /\ pc' = "idle" =>
       \A s \in Sandboxes \ errs : rec[s] # "none" => ~Leftover(s)]_vars

(* run() returns: its deadline ends the startup loop and the stream, and   *)
(* the cleanup does not wait for guest or reader.                          *)
RunReturns == InRun ~> ~InRun
=============================================================================
