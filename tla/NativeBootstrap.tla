---------------------------- MODULE NativeBootstrap ---------------------------
(***************************************************************************)
(* The prototypes of the native bootstrap and the operator's work on       *)
(* images, each on its own: nothing in the repository starts one of them,  *)
(* or one after another, so a behaviour chooses its form when it begins.   *)
(*   "sequence"  the validation in a guest (NativeSequence);               *)
(*   "provision", "media", "marker"  new files on the host (NativeStore);  *)
(*   "serial"    a session over the serial port (SerialTls);               *)
(*   "prepare"   a machine to install an image in (ImagePreparation);      *)
(*   "maintain"  a copy of its disk, and the export (ImageMaintenance).    *)
(* They share the deadline they were given and the faults around them.     *)
(***************************************************************************)
EXTENDS NativeSequence, NativeStore, SerialTls, ImageMaintenance

CONSTANT Forms  \* the forms to explore

ASSUME FormsAssumption ==
  Forms \subseteq {"sequence", "provision", "media", "marker", "serial", "prepare", "maintain"}

VARIABLE form

imageVars == <<preparationVars, maintenanceVars>>
restVars == <<storeVars, serialVars, imageVars>>
vars == <<form, control, faults, sequenceVars, restVars>>

Init ==
  /\ ControlInit /\ form \in Forms
  /\ SequenceRest /\ StoreRest
  /\ kind = IF form \in {"provision", "media", "marker"} THEN form ELSE "none"
  /\ IF form = "serial"
     THEN /\ SerialInit("open") /\ bound \in BOOLEAN /\ pinned \in [Ends -> BOOLEAN]
          /\ \A e \in Ends: pinned[e] \/ (bound /\ pinned[Peer(e)])  \* bound: one mismatch
     ELSE SerialInit("off") /\ bound = TRUE /\ pinned = [e \in Ends |-> TRUE]
  /\ IF form = "prepare" THEN \E c \in Operators: CreationBegun(c) ELSE PreparationRest
  /\ IF form = "maintain" THEN \E mode \in {"inspect", "finalize"}: MaintenanceInit(mode)
     ELSE MaintenanceInit("none")

ProgramStep ==
  \/ form = "sequence" /\ GuestStep /\ UNCHANGED <<form, restVars>>
  \/ StoreStep /\ UNCHANGED <<form, control, sequenceVars, serialVars, imageVars>>
  \/ SerialStep /\ UNCHANGED <<form, control, sequenceVars, storeVars, imageVars>>
  \/ form = "prepare" /\ PreparationStep
     /\ UNCHANGED <<form, control, sequenceVars, storeVars, serialVars, maintenanceVars>>
  \/ form = "maintain" /\ MaintenanceStep
     /\ UNCHANGED <<form, control, sequenceVars, storeVars, serialVars, preparationVars>>

Around ==
  \/ form = "sequence" /\ GuestAround /\ UNCHANGED <<form, restVars>>
  \/ StoreAround /\ UNCHANGED <<form, control, sequenceVars, serialVars, imageVars>>
  \/ SerialAround /\ UNCHANGED <<form, control, sequenceVars, storeVars, imageVars>>
  \/ form = "prepare" /\ PreparationAround
     /\ UNCHANGED <<form, control, sequenceVars, storeVars, serialVars, maintenanceVars>>
  \/ form = "maintain" /\ MaintenanceAround
     /\ UNCHANGED <<form, control, sequenceVars, storeVars, serialVars, preparationVars>>

Ended == CASE form = "sequence" -> Booted
           [] form = "serial" -> SerialEnded
           [] form = "prepare" -> PreparationEnded
           [] form = "maintain" -> MaintenanceEnded
           [] OTHER -> StoreEnded

ClockNext ==
  form \notin {"prepare", "maintain"} /\ ~expired /\ DeadlinePasses /\ UNCHANGED <<form, sequenceVars, restVars>>

Next == ProgramStep \/ Around \/ ClockNext

(* The programs run and the clock passes.  The worker child, the kernel    *)
(* and its log, the other end's line, the guests and the callers owe       *)
(* nothing.                                                                *)
Spec == Init /\ [][Next]_vars /\ WF_vars(ProgramStep) /\ WF_vars(ClockNext)

-----------------------------------------------------------------------------
(* Safety: type correctness of the composed state. *)
TypeOK ==
  /\ expired \in BOOLEAN /\ cancelRequested \in BOOLEAN /\ faults \in 0..(IF form \in {"prepare", "maintain"} THEN MaxMishaps ELSE MaxFaults)
  /\ n \in 0..Workers /\ late \in BOOLEAN /\ retained \in BOOLEAN
  /\ failure \in {"none", "worker_observation_unknown", "cleanup_unknown"}
  /\ owner.state \in {"none", "held", "closed", "cleanup_unknown"}
  /\ child.at \in {"none", "entering", "preflight", "gate", "working", "reporting", "exiting",
                   "killed", "zombie", "reaped"}
  /\ gate \in {"empty", "G", "closed"} /\ Len(log) <= MaxLog + 1
  /\ audit \in {"none", "pending", "logged"} /\ denial \in {"none", "own", "alien"}
  /\ ram \in {"none", "held", "changed", "failed", "closed", "unclosed"}
  /\ boot \in {"off", "stage", "media", "policy", "launch", "wait", "done", "failed"}
  /\ boots \in 0..MaxBoots /\ created \in 0..MaxFixture
  /\ sequence \in {"new", "running", "done", "failed"}
  /\ files \in [Names -> {"absent", "empty", "torn", "whole", "altered", "alien"}]
  /\ Len(exits) <= MaxRuns /\ (kind # "none" => item \in DOMAIN Outputs)
  /\ cause \in {"none", "refused", "unknown"}
  /\ \A e \in Ends: end[e].line \in {"none", "open", "closed", "unknown"}
  /\ pio.at \in {"none", "pending", "done"}
  /\ claims \subseteq {"launch", "retire"} /\ lock \in Operators \cup {"none", "left"}
  /\ host.vm \in {"absent", "bare", "off", "running"} /\ calls \in 0..MaxCalls
  /\ attempt.result \in {"none", "prepared_not_started", "maintenance_unknown",
                         "inspected_not_accepted", "finalized_not_accepted"}
  /\ bench.vm \in {"absent", "bare", "ready", "running", "off"}
  /\ bench.copy \in {"none", "torn", "source", "mounted", "half", "final", "altered"}

(* A denial the sequence counts is the worker's own, although the log has  *)
(* older records of its pid and others arrive; and no worker acts before   *)
(* its kernel cursor was taken (bootstrap_native_capture.py,               *)
(* bootstrap_native_denials.py).                                           *)
EvidenceIsOwn ==
  /\ \A e \in evidence: e.of = "own"
  /\ child.acted => capture.at # "none"

(* The summary on the console is written once, after eleven workers in     *)
(* order, three own denials, no child left, fixtures unchanged at every    *)
(* use and surely closed, in the sealed root under the profile             *)
(* (bootstrap_native_sequence.py, guest/bootstrap_native_boot.py).         *)
SummaryIsEarned ==
  Contains(console, "summary") =>
    /\ sequence = "done" /\ n = Workers
    /\ evidence = {[worker |-> k, of |-> "own"]: k \in {3, 6, 9}}
    /\ child.at = "reaped" /\ ~retained
    /\ ram = "closed" /\ changedAt \in {0, Workers}
    /\ sealed /\ profile
    /\ \A i, j \in DOMAIN console: console[i] = "summary" /\ console[j] = "summary" => i = j

(* Safety: what the validation reports, to itself and on the console, is   *)
(* what its workers were seen to do (bootstrap_native_sequence.py).        *)
ReportIsEarned == EvidenceIsOwn /\ SummaryIsEarned

(* Safety: exit status 126 means that the run created nothing, 0 that every *)
(* output is there and whole, and only one run ever says so; wherever a    *)
(* run dies, an installation record means that what it lists is whole;     *)
(* paths are given only of whole files (bootstrap_native_provision.py,     *)
(* bootstrap_native_media_store.py, maintenance_store_native_prototype.py). *)
StoreIsEarned ==
  /\ \A i \in DOMAIN exits:
       /\ exits[i].code = "126" => ~exits[i].wrote
       /\ exits[i].code = "0" => \A f \in Made: files[f] = "whole"
  /\ Cardinality({i \in DOMAIN exits: exits[i].code = "0"}) <= 1
  /\ files["record"] = "whole" =>
       \A f \in {"deployment", "bundle", "recovery"}: files[f] = "whole"
  /\ stage = "held" \/ paths => \A f \in Made: files[f] = "whole"

(* Safety: an end is given what the other one sent, in order, each message *)
(* once, and only between two ends that have each other's pin and the same *)
(* attempt; nothing is sent to a stranger; a buffer the kernel may still   *)
(* use belongs to a channel whose cleanup is unknown; the guest closes its *)
(* descriptor once (bounded_tls_pipe.py, serial_pipe_io.py,                *)
(* guest/serial_device_io.py, maintenance_tls_prototype.py).               *)
ChannelIsHonest ==
  /\ \A e \in Ends:
       /\ IsPrefix(received[e], sent[Peer(e)])
       /\ sent[e] # <<>> \/ end[e].ready => pinned[e]
       /\ received[e] # <<>> => bound /\ pinned[Peer(e)]
  /\ end["controller"].line = "closed" => pio.at = "none"
  /\ end["controller"].op = "done" /\ pio.at # "none" => end["controller"].line = "unknown"
  /\ closes <= 1

(* One operation at a time works on the machine; whatever failed, died or   *)
(* raced, it was started and given its seed at most once, the start under   *)
(* its claim; and a manifest that does not say "unknown" is true of the     *)
(* host (ubuntu_preparation_safety.py, ubuntu_seed_attachment.py,           *)
(* ubuntu_preparation_launch.py, ubuntu_preparation_retirement.py).         *)
PreparationIsHonest ==
  /\ Cardinality({c \in Operators: call[c].op # "create" /\ call[c].at \notin {"idle", "guard"}}) <= 1
  /\ host.seeds <= 1 /\ host.starts <= 1
  /\ host.starts = 1 => "launch" \in claims
  /\ CASE manifest = "created_not_started" ->
            host.vm = "off" /\ host.seeds = 0 /\ host.starts = 0
       [] manifest = "created_seed_attached_not_started" ->
            host.vm = "off" /\ host.seeds = 1 /\ host.starts = 0
       [] manifest = "installer_vm_started_not_reviewed" ->
            host.vm \in {"off", "running"} /\ host.starts = 1
       [] manifest = "retired_vm_disk_retained" -> host.vm = "absent" /\ host.disk
       [] OTHER -> TRUE

(* A success on record means a machine that is gone and the digest of a     *)
(* copy the guest finished, or only read; "off" is noted of a machine that  *)
(* is off; one publication exports, and records as exported, the finished   *)
(* copy under its policy and nothing else (image_finalization.py,           *)
(* maintain_image_copy.ps1, guest/finalize_image_copy.py,                   *)
(* image_publication.py).                                                   *)
MaintenanceIsHonest ==
  /\ attempt.result \in {"inspected_not_accepted", "finalized_not_accepted"} =>
       /\ attempt.claimed /\ bench.vm = "absent"
       /\ attempt.hashed = IF attempt.mode = "inspect" THEN "source" ELSE "final"
  /\ attempt.noted = "off_observed" => bench.vm # "running"
  /\ export.image # "none" => export.claimed /\ attempt.result = "finalized_not_accepted"
  /\ export.record # "none" => export.image = "final" /\ export.policy
  /\ Cardinality({p \in Operators: pub[p] \in {"export", "record"}}) <= 1

(* Safety: what the records say of machines and images holds of the host.   *)
ImageIsEarned == PreparationIsHonest /\ MaintenanceIsHonest

(* Refinement: several operators, their claims, the guard and every death   *)
(* between two of their steps keep what manifest.json promises of one       *)
(* machine ("records `launch_unknown` before one start command",            *)
(* docs/night_shift_image_setup.md; "must not be overwritten using a stale  *)
(* manifest snapshot", ubuntu_preparation_retirement.py).                   *)
Machine == INSTANCE MachineLifecycle WITH status <- manifest, machine <- host
ImplementsMachine == Machine!Spec

(* Liveness: boot() returns, a store run exits, every call of a session    *)
(* or of the operator ends, whatever children, kernel and line do.         *)
ProgramsEnd == <>[]Ended
=============================================================================
