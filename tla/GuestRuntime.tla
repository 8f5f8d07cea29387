---------------------------- MODULE GuestRuntime ----------------------------
(***************************************************************************)
(* The loop of the guest of a sandbox: night_shifts/guest/runtime.py       *)
(* (main, run_once), which answers the one task HyperVSerialTransport      *)
(* sends (SandboxWorker has the controller's side) with events and a       *)
(* result.                                                                 *)
(*                                                                         *)
(* A frame is written whole, or not at all when it is too long, or in      *)
(* part when the channel breaks.  The worker executor is whatever the      *)
(* image has; none of the repository's own catches what emit() raises.     *)
(* Its tools are those of GuestTools and are left out here.                *)
(***************************************************************************)
EXTENDS WorkerControl, Sequences, SequencesExt

CONSTANT MaxEvents  \* MAX_WORKER_EVENTS

ASSUME EventsAssumption == MaxEvents \in Nat

VARIABLES
  gpc,     \* "open", "read", "validate", "start", "execute", "result", "fallback", "exit0", "exit1"
  bound,   \* the task names the job, repository and revision of the manifest
  emitted, \* run_once(): event_count
  answer,  \* the WorkerResult to be written, or "none"
  frames   \* what is on the serial line

runtimeVars == <<gpc, bound, emitted, answer, frames>>

RuntimeInit == gpc = "open" /\ bound = FALSE /\ emitted = 0 /\ answer = "none" /\ frames = <<>>
RuntimeRest == gpc = "exit0" /\ bound = FALSE /\ emitted = 0 /\ answer = "none" /\ frames = <<>>

FromExecutor == {"submitted", "blocked", "failed"}
ResultFrames == FromExecutor \cup {"task failed", "overlong"}

(* _open_serial(): the device, an exclusive lock on it, raw mode. *)
OpenSerial ==
  /\ gpc = "open"
  /\ \/ gpc' = "read" /\ Works
     \/ gpc' = "exit1" /\ Fails
  /\ UNCHANGED <<bound, emitted, answer, frames>>

(* _read_task(): a closed channel, a frame without end and one that        *)
(* decode_task() refuses end the process without a word.                   *)
ReadTask ==
  /\ gpc = "read"
  /\ \/ gpc' = "validate" /\ bound' \in BOOLEAN /\ Works
     \/ gpc' = "exit1" /\ UNCHANGED bound /\ Fails
  /\ UNCHANGED <<emitted, answer, frames>>

(* What run_once() makes of any exception of its try block. *)
TaskFails == answer' = "task failed" /\ gpc' = "result"

(* _validate_task_workspace(): the profile, and the manifest's owner, mode *)
(* and shape; then job, repository and revision against it.                *)
ValidateWorkspace ==
  /\ gpc = "validate"
  /\ \/ bound /\ gpc' = "start" /\ UNCHANGED answer /\ Works
     \/ ~bound /\ TaskFails /\ Works
     \/ TaskFails /\ Fails
  /\ UNCHANGED <<bound, emitted, frames>>

(* _write_frame(): the length is checked first, so a broken channel is the *)
(* only way to leave a part of a frame.                                    *)
Written(frame) == frames' = Append(frames, frame)
Breaks == frames' = Append(frames, "torn") /\ Fails

(* emit(): the worker_started event, then those of the executor.  A frame  *)
(* that is too long and a channel that breaks raise like one event too     *)
(* many; the event that raised has been counted.                           *)
Emit ==
  /\ gpc \in {"start", "execute"}
  /\ emitted' = emitted + 1
  /\ \/ /\ emitted < MaxEvents
        /\ Written("event") /\ gpc' = "execute" /\ UNCHANGED answer /\ Works
     \/ emitted = MaxEvents /\ TaskFails /\ UNCHANGED frames /\ Works
     \/ emitted < MaxEvents /\ TaskFails /\ Breaks
     \/ emitted < MaxEvents /\ TaskFails /\ UNCHANGED frames /\ Fails
  /\ UNCHANGED bound

(* execute() returns a result, which may be too long for a frame or name   *)
(* another job, or raises.                                                 *)
ExecutorReturns ==
  /\ gpc = "execute"
  /\ \/ answer' \in FromExecutor /\ gpc' \in {"result", "fallback"} /\ Works
     \/ TaskFails /\ Fails
  /\ UNCHANGED <<bound, emitted, frames>>

(* _write_result(): the result, or in its place one that says it was too   *)
(* long.  An exception reaches main().                                     *)
WriteResult ==
  /\ gpc \in {"result", "fallback"}
  /\ \/ /\ Written(IF gpc = "fallback" THEN "overlong" ELSE answer)
        /\ gpc' = "exit0" /\ Works
     \/ gpc' = "exit1" /\ Breaks
  /\ UNCHANGED <<bound, emitted, answer>>

RuntimeStep ==
  /\ \/ OpenSerial \/ ReadTask \/ ValidateWorkspace \/ Emit
     \/ ExecutorReturns \/ WriteResult
  /\ UNCHANGED control
=============================================================================
