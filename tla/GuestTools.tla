----------------------------- MODULE GuestTools ------------------------------
(***************************************************************************)
(* The tools a worker's model may call inside the guest:                   *)
(* night_shifts/guest/tools.py (GuestWorkerTools.invoke) over              *)
(* guest/repository.py, guest/commands.py and guest/artifacts.py.          *)
(*                                                                         *)
(* The repository is one tracked file, whose version is left out, and one  *)
(* new file; there is one artifact name.  A tool call is atomic here:      *)
(* the guest serves one request at a time, and a process that a command    *)
(* leaves behind is not followed.  A call may raise at any system call,    *)
(* before or after its effect.                                             *)
(***************************************************************************)
EXTENDS WorkerControl

CONSTANTS Ids,      \* call ids a model may use, 1 and up
          Posix     \* the guest runs on Linux, as the real one does

ASSUME PosixAssumption == Posix \in BOOLEAN

VARIABLES
  made,      \* the new file exists
  staged,    \* a file lies under the artifact's name
  listed,    \* ArtifactWriter has recorded the artifact
  effects    \* how often the call with an id changed the guest

guestVars == <<made, staged, listed, effects>>

Tools == {"read", "edit", "stale_edit", "create", "artifact", "command", "denied"}

ToolsInit == /\ made = FALSE /\ staged = FALSE /\ listed = FALSE
             /\ effects = [i \in Ids |-> 0]

Effect(id) == effects' = [effects EXCEPT ![id] = @ + 1]
NoEffect == UNCHANGED guestVars

(* _parent(), _read() and _walk(): a directory or a file opened component  *)
(* by component, no link followed; a tree with anything else in it, or     *)
(* more than the limits, is refused as a whole.                            *)
Walk(ok) == IF ok THEN Works ELSE Fails

(* list_files, read_file, search_text. *)
Read(ok) == NoEffect /\ Walk(ok)

(* What the caller of apply_patch() hears of an edit that was made.  On    *)
(* Linux the finally block unlinks the temporary file that os.replace()    *)
(* has just renamed; the unlink raises and the call reports an error.      *)
EditReported == ~Posix

(* apply_patch() on the tracked file with its current digest. *)
Edit(id, ok) ==
  \/ /\ ok = EditReported
     /\ Effect(id) /\ Works
     /\ UNCHANGED <<made, staged, listed>>
  \/ ~ok /\ NoEffect /\ Fails

(* A digest of an earlier version, or a missing or ambiguous context. *)
StaleEdit(ok) == ~ok /\ NoEffect /\ Works

(* apply_patch() that creates a file: linking the staged copy fails when   *)
(* the name is taken.                                                      *)
CreateFile(id, ok) ==
  \/ /\ ~made /\ ok
     /\ made' = TRUE /\ Effect(id) /\ Works
     /\ UNCHANGED <<staged, listed>>
  \/ ~ok /\ NoEffect /\ IF made THEN Works ELSE Fails

(* write_text(): exclusive creation, then the record.  A write that raises *)
(* leaves its file, so the name is taken from then on.                     *)
WriteArtifact(id, ok) ==
  \/ /\ ~staged /\ ok
     /\ staged' = TRUE /\ listed' = TRUE /\ Effect(id) /\ Works
     /\ UNCHANGED <<made>>
  \/ /\ ~staged /\ ~ok /\ Fails
     /\ staged' \in BOOLEAN
     /\ effects' = IF staged' THEN [effects EXCEPT ![id] = @ + 1] ELSE effects
     /\ UNCHANGED <<made, listed>>
  \/ staged /\ ~ok /\ NoEffect /\ Works

(* run(): a command that ended, timed out or wrote too much is a result;   *)
(* one that could not start, whose descendants hold its output, or whose   *)
(* result is over 16 KiB as JSON is an error, the last two after it ran.   *)
RunCommand(id, ok) ==
  \/ Effect(id) /\ UNCHANGED <<made, staged, listed>> /\ IF ok THEN Works ELSE Fails
  \/ ~ok /\ NoEffect /\ Fails

(* invoke(): the profile's allowlist and the argument checks come first. *)
Invoke(id, tool, ok) ==
  CASE tool = "read" -> Read(ok)
    [] tool = "edit" -> Edit(id, ok)
    [] tool = "stale_edit" -> StaleEdit(ok)
    [] tool = "create" -> CreateFile(id, ok)
    [] tool = "artifact" -> WriteArtifact(id, ok)
    [] tool = "command" -> RunCommand(id, ok)
    [] tool = "denied" -> ~ok /\ NoEffect /\ Works
=============================================================================
