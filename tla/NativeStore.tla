----------------------------- MODULE NativeStore ------------------------------
(***************************************************************************)
(* The three bodies that make new files on a host another program may      *)
(* write to, and that share one discipline: hold every directory and file  *)
(* by a handle, create exclusively, never reopen by a path alone.          *)
(*   "provision"  bootstrap_native_provision.py: the fixed worker, its     *)
(*                one-shot hand-off and NativeValidationProvisioner.run(); *)
(*   "media"      bootstrap_native_media_store.py:                         *)
(*                materialize_validation_media(), HeldValidationMedia;     *)
(*   "marker"     maintenance_store_native_prototype.py: probe_new_store().*)
(* A body may be run again on the same store, and may die anywhere.        *)
(*                                                                         *)
(* Left out: which field, ACL, attribute or digest differs, since each     *)
(* difference is a refusal; and the bytes of the files.                    *)
(***************************************************************************)
EXTENDS WorkerControl, Sequences, SequencesExt

CONSTANT MaxRuns  \* bound: runs of a body on one store

ASSUME RunsAssumption == MaxRuns \in Nat

VARIABLES
  kind,    \* the body, "none" when this form is not explored
  stage,   \* where the run is, "idle" between runs
  cause,   \* the error on its way out: "none", "refused", "unknown"
  input,   \* recovery.iso and the bundle: "good" or "changed"
  root,    \* the new directory exists
  item,    \* the output in work, an index
  files,   \* output -> "absent", "empty", "torn", "whole", "altered" (its content), "alien"
  doubt,   \* a close of this run was uncertain
  wrote,   \* history: this run created something
  paths,   \* history: HeldValidationMedia gave its paths
  exits    \* how the runs ended

storeVars == <<kind, stage, cause, input, root, item, files, doubt, wrote, paths, exits>>

(* The files, in the order they are written; the record is the last one. *)
Outputs ==
  CASE kind = "provision" -> <<"deployment", "bundle", "recovery", "record">>
    [] kind = "media" -> <<"cidata", "review">>
    [] kind = "marker" -> <<"probe">>
    [] OTHER -> <<>>

Names == {"deployment", "bundle", "recovery", "record", "cidata", "review", "probe"}
Current == Outputs[item]
Made == {Outputs[i]: i \in DOMAIN Outputs}

StoreRest ==
  /\ stage = "idle" /\ cause = "none" /\ input = "good" /\ root = FALSE /\ item = 1
  /\ files = [f \in Names |-> "absent"] /\ doubt = FALSE /\ wrote = FALSE /\ paths = FALSE
  /\ exits = <<>>

Advances(from, to) == stage = from /\ ~expired /\ Works /\ stage' = to /\ UNCHANGED cause
Exit(code) == /\ stage' = "idle" /\ cause' = "none"
              /\ exits' = Append(exits, [code |-> code, wrote |-> wrote])

-----------------------------------------------------------------------------
BeginRun ==
  /\ kind # "none" /\ stage = "idle" /\ Len(exits) < MaxRuns
  /\ stage' = "frame" /\ item' = 1 /\ doubt' = FALSE /\ wrote' = FALSE
  /\ Works
  /\ UNCHANGED <<kind, cause, input, root, files, paths, exits>>

(* Mutant: a refusal of the body is passed on as it is. *)
AlwaysRefused == "126"

(* ProvisionWorkerHandoff.run(): once the body was entered, its refusal    *)
(* says nothing about the store.                                           *)
RefusalCode == IF stage \in {"frame", "bind"} THEN "126" ELSE "125"

Code(why) == IF kind # "provision" THEN why
             ELSE IF why = "refused" THEN RefusalCode ELSE "125"

Answers(from, to) ==
  /\ \/ Advances(from, to) /\ UNCHANGED exits
     \/ stage = from /\ Works /\ Exit(Code("refused"))
     \/ stage = from /\ Fails /\ Exit(Code("unknown"))
  /\ UNCHANGED <<kind, input, root, item, files, doubt, wrote, paths>>

(* The fixed frame, the host it must run on, the deadline in its own clock. *)
CheckFrame == Answers("frame", "bind")

(* The request against its pins: everything before native access. *)
BindRequest == kind = "provision" /\ Answers("bind", "dirs")

(* _plan(), _render(): the media and their review, in memory. *)
RenderMedia == kind = "media" /\ Answers("bind", "dirs")

(* _path_parts(): what the anchor's path may look like. *)
CheckAnchorPath == kind = "marker" /\ Answers("bind", "dirs")

(* The volume's root and every directory on the way, each one relative to  *)
(* the handle before.                                                      *)
HoldDirectories ==
  /\ kind # "media"
  /\ Advances("dirs", IF kind = "marker" THEN "claim" ELSE "inputs")
  /\ UNCHANGED <<kind, input, root, item, files, doubt, wrote, paths, exits>>

(* The same for the media, down to the anchor the plan names by identity;  *)
(* every one is observed again when the last is held.                      *)
AcquireDirectories ==
  /\ kind = "media"
  /\ Advances("dirs", "inputs")
  /\ UNCHANGED <<kind, input, root, item, files, doubt, wrote, paths, exits>>

(* The inputs with their complete digests, held before anything is created; *)
(* a changed input is refused.                                             *)
HoldInputs ==
  /\ Advances("inputs", "claim") /\ input = "good"
  /\ UNCHANGED <<kind, input, root, item, files, doubt, wrote, paths, exits>>

(* The directory of this installation or attempt, created exclusively. *)
ClaimRoot ==
  /\ Advances("claim", "open") /\ ~root
  /\ root' = TRUE /\ wrote' = TRUE
  /\ UNCHANGED <<kind, input, item, files, doubt, paths, exits>>

(* leaf() with FILE_CREATE: the name must be free. *)
Creates(f) == files[f] = "absent" /\ files' = [files EXCEPT ![f] = "empty"]

OpenWriter ==
  /\ Advances("open", "write") /\ Creates(Current)
  /\ UNCHANGED <<kind, input, root, item, doubt, wrote, paths, exits>>

(* write(): all of it, and a flush; a short write is not repeated. *)
Writes(f) == files' = [files EXCEPT ![f] = "whole"]

(* The writer's metadata are taken before it is closed. *)
WriteOutput ==
  /\ kind # "marker"
  /\ Advances("write", "close") /\ Writes(Current)
  /\ UNCHANGED <<kind, input, root, item, doubt, wrote, paths, exits>>

(* write_marker(): written, flushed and read back through the one handle.  *)
WriteMarker ==
  /\ kind = "marker"
  /\ Advances("write", "verify") /\ Writes(Current)
  /\ UNCHANGED <<kind, input, root, item, doubt, wrote, paths, exits>>

CloseWriter ==
  /\ Advances("close", "reopen")
  /\ UNCHANGED <<kind, input, root, item, files, doubt, wrote, paths, exits>>

(* Mutant: the walk over the outputs goes one too far. *)
LastOutputPassed == item > Len(Outputs)

LastOutput == item = Len(Outputs)

(* verify_all() before the record of a provision, and at the end. *)
AfterOutput ==
  IF LastOutput \/ (kind = "provision" /\ item = Len(Outputs) - 1)
  THEN "verify" ELSE "open"

(* _same(written, observed): between the writer's close and this open      *)
(* nobody held the file.                                                   *)
SameFile(f) == files[f] \in {"whole", "altered"}

(* verify_bytes(): the length, the digest and, where they are known, the   *)
(* bytes themselves.                                                       *)
SameBytes(f) == files[f] = "whole"

Reopen ==
  /\ Advances("reopen", AfterOutput) /\ SameFile(Current) /\ SameBytes(Current)
  /\ item' = IF AfterOutput = "open" THEN item + 1 ELSE item
  /\ UNCHANGED <<kind, input, root, files, doubt, wrote, paths, exits>>

(* _directories(), _file_metadata(): what is held is as it was observed. *)
HeldAsObserved == \A i \in 1..item: SameFile(Outputs[i])

(* Every directory, input and output through its handle, bytes included. *)
VerifyAll ==
  /\ Advances("verify", IF ~LastOutput THEN "open"
                        ELSE IF kind = "media" THEN "held" ELSE "release")
  /\ HeldAsObserved
  /\ item' = IF LastOutput THEN item ELSE item + 1
  /\ UNCHANGED <<kind, input, root, files, doubt, wrote, paths, exits>>

(* What a failed operation may have done all the same. *)
StoreFails ==
  /\ stage \in {"dirs", "inputs", "claim", "open", "write", "close", "reopen", "verify"}
  /\ \/ /\ \/ expired
           \/ stage = "inputs" /\ input = "changed"
           \/ stage = "claim" /\ root
           \/ stage = "open" /\ files[Current] # "absent"
           \/ stage = "reopen" /\ ~(SameFile(Current) /\ SameBytes(Current))
        /\ Works /\ cause' = "refused"
        /\ UNCHANGED <<root, files, doubt, wrote>>
     \/ /\ Fails /\ cause' \in {"refused", "unknown"}
        /\ root' \in IF stage = "claim" THEN {root, TRUE} ELSE {root}
        /\ wrote' = (wrote \/ root' # root)
        /\ \E left \in CASE stage = "open" /\ files[Current] = "absent" -> {"absent", "empty"}
                         [] stage = "write" -> {"empty", "torn", "whole"}
                         [] OTHER -> {files[Current]}:
             files' = [files EXCEPT ![Current] = left]
        /\ doubt' = (doubt \/ stage = "close")
  /\ stage' = "undo"
  /\ UNCHANGED <<kind, input, item, paths, exits>>

(* Every handle is closed once, whatever happens to the others; a close in *)
(* doubt overrides success and refusal, and so does the deadline.          *)
CloseHandles ==
  /\ stage \in {"release", "undo"}
  /\ \E certain \in BOOLEAN:
       /\ IF certain THEN Works ELSE Fails
       /\ Exit(IF doubt \/ ~certain THEN Code("unknown")
               ELSE IF stage = "release" /\ ~expired THEN "0"
               ELSE IF stage = "release" THEN Code("refused") ELSE Code(cause))
       /\ doubt' = (doubt \/ ~certain)
  /\ UNCHANGED <<kind, input, root, item, files, wrote, paths>>

(* HeldValidationMedia.checked_paths(): a verification that fails is the   *)
(* end of the set.                                                         *)
CheckedPaths ==
  /\ stage = "held"
  /\ \/ ~expired /\ Works /\ paths' = TRUE /\ UNCHANGED <<stage, cause>>
     \/ expired /\ Works /\ stage' = "undo" /\ cause' = "refused" /\ UNCHANGED paths
     \/ Fails /\ stage' = "undo" /\ cause' = "unknown" /\ UNCHANGED paths
  /\ UNCHANGED <<kind, input, root, item, files, doubt, wrote, exits>>

(* HeldValidationMedia.close(), when its user is done. *)
ReleaseMedia ==
  /\ stage = "held"
  /\ stage' = "release"
  /\ Works
  /\ UNCHANGED <<kind, cause, input, root, item, files, doubt, wrote, paths, exits>>

-----------------------------------------------------------------------------
(* Another program of the host, during a run, where no handle forbids it:  *)
(* an input before it is held, a name not yet created, the file between    *)
(* its writer and its reader.                                              *)
OtherWrites ==
  /\ Fails
  /\ \/ /\ stage \in {"frame", "bind", "dirs", "inputs"} /\ input = "good"
        /\ input' = "changed" /\ UNCHANGED files
     \/ /\ stage \notin {"idle", "frame", "bind"} /\ root
        /\ \E f \in Made:
             /\ files[f] = "absent" \/ (stage = "reopen" /\ f = Current)
             /\ \E as \in {"alien"} \cup (IF files[f] = "whole" THEN {"altered"} ELSE {}):
                  files' = [files EXCEPT ![f] = as]
        /\ UNCHANGED input
  /\ UNCHANGED <<kind, stage, cause, root, item, doubt, wrote, paths, exits>>

(* The process dies: a write in progress is torn, the handles are gone. *)
StoreCrash ==
  /\ stage # "idle"
  /\ Fails
  /\ files' = IF stage = "write"
              THEN [files EXCEPT ![Current] = "torn"] ELSE files
  /\ Exit("died")
  /\ UNCHANGED <<kind, input, root, item, doubt, wrote, paths>>

StoreStep ==
  \/ BeginRun \/ CheckFrame \/ BindRequest \/ RenderMedia \/ CheckAnchorPath
  \/ HoldDirectories \/ AcquireDirectories \/ HoldInputs \/ ClaimRoot
  \/ OpenWriter \/ WriteOutput \/ WriteMarker \/ CloseWriter \/ Reopen \/ VerifyAll \/ StoreFails \/ CloseHandles \/ CheckedPaths

StoreAround == OtherWrites \/ StoreCrash \/ ReleaseMedia

StoreEnded == kind = "none" \/ exits # <<>> \/ stage = "held"
=============================================================================
