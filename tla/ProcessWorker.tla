---------------------------- MODULE ProcessWorker ----------------------------
(***************************************************************************)
(* A worker in a child process: night_shifts/backends/process.py           *)
(* (ProcessWorkerBackend.run) and the process it starts,                   *)
(* night_shifts/worker_process.py, or any other program that speaks its    *)
(* lines.                                                                  *)
(*                                                                         *)
(* The child writes lines, a reader thread moves them into a queue and     *)
(* ends it when nobody holds the child's stdout any more, and run() takes  *)
(* one entry a round.  A line is an event, a result or neither.  Its       *)
(* text, the stderr thread and the length of a round are left out.         *)
(***************************************************************************)
EXTENDS WorkerControl, Sequences

CONSTANT MaxLines  \* bound: lines the child writes

ASSUME ProcessAssumption == MaxLines \in Nat

VARIABLES
  proc,     \* the child: "none", "running", "exited"
  holder,   \* a process the child started holds its stdout
  said,     \* every line the child has written
  pumped,   \* how many of them are in the queue or taken from it
  taken,    \* how many run() has looked at
  pumpDone, \* the reader has put the end mark behind them
  eof,      \* run()'s local stdout_closed
  got,      \* run()'s local result is set
  logged,   \* the events recorded, the worker's own and the host's
  ppc       \* run(): "spawn", "task", "loop", "record", "note_...", "returned", "raised"

processVars == <<proc, holder, said, pumped, taken, pumpDone, eof, got, logged, ppc>>

(* Lines run() takes for what they are; "garbage" is everything else: not  *)
(* a message, another job's, or an event in the name of another actor.     *)
Lines == {"event", "result", "garbage"}
HostEvent == [note_cancelled |-> "worker_cancelled", note_timed_out |-> "worker_timed_out",
              note_received |-> "worker_result_received", note_failed |-> "worker_failed",
              note_protocol_error |-> "worker_protocol_error"]

ProcessInit ==
  /\ proc = "none" /\ holder = FALSE /\ said = <<>> /\ pumped = 0 /\ taken = 0
  /\ pumpDone = FALSE /\ eof = FALSE /\ got = FALSE /\ logged = <<>> /\ ppc = "spawn"

ProcessRest ==
  /\ proc = "none" /\ holder = FALSE /\ said = <<>> /\ pumped = 0 /\ taken = 0
  /\ pumpDone = FALSE /\ eof = FALSE /\ got = FALSE /\ logged = <<>> /\ ppc = "returned"

-----------------------------------------------------------------------------
(* The child. *)
Spawn ==
  /\ ppc = "spawn"
  /\ \/ proc' = "running" /\ ppc' = "task" /\ Works
     \/ ppc' = "raised" /\ UNCHANGED proc /\ Fails
  /\ UNCHANGED <<holder, said, pumped, taken, pumpDone, eof, got, logged>>

ChildWrites ==
  /\ proc = "running" /\ ppc # "task" /\ Len(said) < MaxLines
  /\ \E line \in Lines: said' = Append(said, line)
  /\ Works
  /\ UNCHANGED <<proc, holder, pumped, taken, pumpDone, eof, got, logged, ppc>>

ChildExits ==
  /\ proc = "running"
  /\ proc' = "exited"
  /\ \/ holder' = FALSE /\ Works
     \/ holder' = TRUE /\ Fails
  /\ UNCHANGED <<said, pumped, taken, pumpDone, eof, got, logged, ppc>>

(* _pump_lines(). *)
Pump ==
  /\ proc # "none" /\ ~pumpDone
  /\ \/ pumped < Len(said) /\ pumped' = pumped + 1 /\ UNCHANGED pumpDone
     \/ /\ pumped = Len(said) /\ proc = "exited" /\ ~holder
        /\ pumpDone' = TRUE /\ UNCHANGED pumped
  /\ Works
  /\ UNCHANGED <<proc, holder, said, taken, eof, got, logged, ppc>>

(* _terminate(): terminate, then kill, then wait; a process that holds the *)
(* child's stdout is not touched.                                          *)
Terminated == proc' = "exited"

(* The task goes to the child's stdin before there is a deadline.  With no *)
(* reader left the write fails or was short enough for the pipe.           *)
SendTask ==
  /\ ppc = "task" /\ proc = "exited" /\ ~holder
  /\ ppc' \in {"loop", "raised"}
  /\ Works
  /\ UNCHANGED <<proc, holder, said, pumped, taken, pumpDone, eof, got, logged>>

(* While somebody has the other end, the write ends only when the pipe has *)
(* room for it or breaks: that is up to the child.                         *)
TaskTaken ==
  /\ ppc = "task" /\ (proc = "running" \/ holder)
  /\ \/ ppc' = "loop" /\ UNCHANGED proc /\ Works
     \/ ppc' = "raised" /\ Terminated /\ Fails
  /\ UNCHANGED <<holder, said, pumped, taken, pumpDone, eof, got, logged>>

-----------------------------------------------------------------------------
(* run()'s loop. *)

Expected(line) == line = "event" \/ (line = "result" /\ ~got)

(* One entry of the queue: an event is recorded, the first result kept;    *)
(* anything else ends the run.                                             *)
Take ==
  /\ ppc = "loop"
  /\ \/ /\ taken < pumped
        /\ taken' = taken + 1
        /\ LET line == said[taken + 1] IN
             /\ got' = (got \/ line = "result")
             /\ ppc' = IF ~Expected(line) THEN "note_protocol_error"
                       ELSE IF line = "event" THEN "record" ELSE "look"
             /\ IF Expected(line) THEN UNCHANGED proc ELSE Terminated
        /\ UNCHANGED eof
     \/ /\ taken = pumped /\ pumpDone /\ ~eof
        /\ eof' = TRUE /\ ppc' = "look" /\ UNCHANGED <<taken, got, proc>>
     \/ /\ taken = pumped  \* queue.Empty
        /\ ppc' = "look" /\ UNCHANGED <<taken, got, eof, proc>>
  /\ Works
  /\ UNCHANGED <<holder, said, pumped, pumpDone, logged>>

(* _record_event(): the store or the callback may raise, out of run().     *)
RecordEvent ==
  /\ ppc = "record"
  /\ \/ logged' = Append(logged, "event") /\ ppc' = "look" /\ Works
     \/ ppc' = "raised" /\ UNCHANGED logged /\ Fails
  /\ UNCHANGED <<proc, holder, said, pumped, taken, pumpDone, eof, got>>

(* The checks at the end of a round, in their order. *)
Look ==
  /\ ppc = "look"
  /\ ppc' = IF cancelRequested THEN "note_cancelled"
            ELSE IF expired THEN "note_timed_out"
            ELSE IF proc = "exited" /\ eof THEN IF got THEN "note_received" ELSE "note_failed"
            ELSE "loop"
  /\ IF cancelRequested \/ expired THEN Terminated ELSE UNCHANGED proc
  /\ Works
  /\ UNCHANGED <<holder, said, pumped, taken, pumpDone, eof, got, logged>>

(* The host's last event, then the return. *)
NoteEnd ==
  /\ ppc \in DOMAIN HostEvent
  /\ \/ logged' = Append(logged, HostEvent[ppc]) /\ ppc' = "returned" /\ Works
     \/ ppc' = "raised" /\ UNCHANGED logged /\ Fails
  /\ UNCHANGED <<proc, holder, said, pumped, taken, pumpDone, eof, got>>

ProcessCancel ==
  /\ ppc \notin {"returned", "raised"}
  /\ ~cancelRequested /\ cancelRequested' = TRUE
  /\ Works
  /\ UNCHANGED <<expired, processVars>>

ProcessStep ==
  /\ \/ Spawn \/ Pump \/ SendTask
     \/ Take \/ RecordEvent \/ Look
     \/ NoteEnd
  /\ UNCHANGED control

ProcessOutside ==
  \/ (ChildWrites \/ ChildExits \/ TaskTaken) /\ UNCHANGED control
  \/ ProcessCancel
=============================================================================
