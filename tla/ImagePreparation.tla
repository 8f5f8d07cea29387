--------------------------- MODULE ImagePreparation ---------------------------
(***************************************************************************)
(* The preparation machine of one identity and the operations on it:       *)
(*   ubuntu_image_preparation.py    create, and every write of a manifest; *)
(*   ubuntu_seed_attachment.py      attach the install seed;               *)
(*   ubuntu_preparation_launch.py   review a plan, start the machine once; *)
(*   ubuntu_preparation_retirement.py  discard the machine, keep its disk; *)
(*   ubuntu_preparation_safety.py   the guard that excludes each other;    *)
(*   ubuntu_preparation_control.py  the directory all of it is kept in.    *)
(* The operator may run them side by side, from several processes.  A      *)
(* command either does what it is for, or any part of it.  Its timeout     *)
(* kills it; one whose caller died may go on, but the guard its caller     *)
(* left keeps everybody else away, so what it does later it may as well    *)
(* have done by then.                                                      *)
(*                                                                         *)
(* Left out: which path, ACL, digest or setting differs, since each        *)
(* difference is a refusal; the configuration directory of the machine;    *)
(* and a retirement of a creation still at work: "unknown_state_reviewed"  *)
(* is the operator's word that it is over, and no code asks.               *)
(***************************************************************************)
EXTENDS WorkerControl

CONSTANTS Operators,  \* processes of the operator
          MaxCalls,   \* bound: attachments, launches and retirements begun
          MaxMishaps  \* bound: steps that fail, and processes that die

ASSUME OperatorsAssumption == "none" \notin Operators /\ "left" \notin Operators

ASSUME BoundsAssumption == MaxCalls \in Nat /\ MaxMishaps \in Nat

VARIABLES
  manifest,  \* the status in manifest.json, "none" when this form is not explored
  pending,   \* a manifest.pending was left behind
  claims,    \* the permanent claims that exist, "launch" and "retire"
  lock,      \* vm-operation.lock: whose it is, "left" when nobody's
  host,      \* the machine, its seed drives, its disk; history: its starts
  call,      \* operator -> the call in progress
  calls      \* calls begun

preparationVars == <<manifest, pending, claims, lock, host, call, calls>>

Idle == [op |-> "none", at |-> "idle", record |-> "none"]
NoMachine == [vm |-> "absent", seeds |-> 0, disk |-> FALSE, starts |-> 0]

Mishap == faults < MaxMishaps /\ faults' = faults + 1

Launched == {"launch_unknown", "installer_vm_started_not_reviewed"}

(* The status a call must find, the one it stores before its command, and  *)
(* the one it stores after it.                                             *)
Eligible(op) ==
  CASE op = "attach" -> {"created_not_started"}
    [] op = "launch" -> {"created_seed_attached_not_started"}
    [] op = "retire" -> {"provisioning_unknown", "created_not_started", "seed_attach_unknown",
                         "created_seed_attached_not_started"} \cup Launched

Definite(op) ==
  CASE op = "create" -> "created_not_started"
    [] op = "attach" -> "created_seed_attached_not_started"
    [] op = "launch" -> "installer_vm_started_not_reviewed"
    [] op = "retire" -> "retired_vm_disk_retained"

(* Mutant: the result is stored before the command. *)
ResultFirst(op) == Definite(op)

Unknown(op) ==
  CASE op = "attach" -> "seed_attach_unknown"
    [] op = "launch" -> "launch_unknown"
    [] op = "retire" -> "retirement_unknown"

PreparationRest ==
  /\ manifest = "none" /\ pending = FALSE /\ claims = {} /\ lock = "none"
  /\ host = NoMachine /\ call = [c \in Operators |-> Idle] /\ calls = 0

(* create_image_preparation_vm() has made the directories of a fresh       *)
(* identity and stored the first manifest.                                 *)
CreationBegun(c) ==
  /\ manifest = "provisioning_unknown" /\ pending = FALSE /\ claims = {} /\ lock = "none"
  /\ host = NoMachine /\ calls = 0
  /\ call = [d \in Operators |-> IF d = c
                                 THEN [op |-> "create", at |-> "command", record |-> "none"]
                                 ELSE Idle]

Is(c, where) == call[c].at = where
Continues(c, where) == call' = [call EXCEPT ![c].at = where]
GivesUp(c) == IF call[c].op = "create" THEN "idle" ELSE "release"

-----------------------------------------------------------------------------
(* Mutant: what was reviewed is taken for what is there. *)
RecordTrusted(record) == ~pending

(* What the code finds out before it acts.  The record of the caller and   *)
(* the manifest are compared, no half-written manifest is there.           *)
RecordAgrees(record) == manifest = record /\ ~pending

AttachInputs(record) == RecordAgrees(record) /\ claims = {}

(* _launch_inputs(): for the plan nobody may hold the guard. *)
LaunchInputs(record, held) ==
  RecordAgrees(record) /\ host.disk /\ claims = {} /\ (held \/ lock = "none")

(* _launch_binding(): a claim of a launch goes with a launched status. *)
LaunchBinding(record) == "launch" \in claims <=> record \in Launched

RetireInputs(record) == RecordAgrees(record) /\ host.disk /\ LaunchBinding(record)

InputsHold(op, record, held) ==
  CASE op = "attach" -> held => AttachInputs(record)  \* looks at nothing without the guard
    [] op = "launch" -> LaunchInputs(record, held)
    [] op = "retire" -> RetireInputs(record)

(* build_preparation_launch_plan(), or the first look of a retirement, or  *)
(* the record an earlier call returned: what the operator then approves.   *)
Review(c, op) ==
  /\ manifest # "none" /\ Is(c, "idle") /\ calls < MaxCalls
  /\ manifest \in Eligible(op) /\ InputsHold(op, manifest, FALSE)
  /\ manifest = "provisioning_unknown" => \A d \in Operators: call[d].op = "create" => Is(d, "idle")
  /\ call' = [call EXCEPT ![c] = [op |-> op, at |-> "guard", record |-> manifest]]
  /\ calls' = calls + 1
  /\ Works
  /\ UNCHANGED <<manifest, pending, claims, lock, host>>

(* preparation_operation(): an exclusive file, or nothing. *)
TakeGuard(c) ==
  /\ Is(c, "guard")
  /\ \/ lock = "none" /\ Works /\ lock' = c /\ Continues(c, "inputs")
     \/ lock # "none" /\ Works /\ UNCHANGED lock /\ call' = [call EXCEPT ![c] = Idle]
     \/ /\ lock = "none" /\ Mishap /\ lock' \in {"none", "left"}
        /\ call' = [call EXCEPT ![c] = Idle]
  /\ UNCHANGED <<manifest, pending, claims, host, calls>>

(* Everything is looked at again under the guard, against the record and,  *)
(* for a launch, against the approved plan.                                *)
LookAgain(c) ==
  /\ Is(c, "inputs")
  /\ Continues(c, IF ~InputsHold(call[c].op, call[c].record, TRUE) THEN "release"
             ELSE IF call[c].op = "attach" THEN "mark" ELSE "claim")
  /\ Works
  /\ UNCHANGED <<manifest, pending, claims, lock, host, calls>>

(* The permanent claim, created exclusively. *)
TakeClaim(c) ==
  /\ Is(c, "claim")
  /\ IF call[c].op \in claims THEN Continues(c, "release") /\ UNCHANGED claims
     ELSE Continues(c, "mark") /\ claims' = claims \cup {call[c].op}
  /\ Works
  /\ UNCHANGED <<manifest, pending, lock, host, calls>>

(* _store_manifest(): manifest.pending exclusively, then os.replace(). *)
Store(c, status, to) ==
  /\ IF pending THEN Continues(c, GivesUp(c)) /\ UNCHANGED manifest
     ELSE Continues(c, to) /\ manifest' = status
  /\ Works
  /\ UNCHANGED <<pending, claims, lock, host, calls>>

MarkUnknown(c) == Is(c, "mark") /\ Store(c, Unknown(call[c].op), "command")

-----------------------------------------------------------------------------
(* The scripts: what each of them asks of the host, what it leaves there   *)
(* when it ends, and what it may leave when it does not.                   *)
PrepareVm == [ready |-> host.vm = "absent" /\ ~host.disk,
              done |-> [host EXCEPT !.vm = "off", !.disk = TRUE],
              broken |-> {[host EXCEPT !.vm = vm, !.disk = disk]:
                            vm \in {"absent", "bare", "off"}, disk \in BOOLEAN}]

AttachSeed == [ready |-> host.vm = "off" /\ host.seeds = 0 /\ host.disk,
               done |-> [host EXCEPT !.seeds = host.seeds + 1],
               broken |-> {host, [host EXCEPT !.seeds = host.seeds + 1]}]

LaunchVm == [ready |-> host.vm = "off" /\ host.seeds = 1 /\ host.disk,
             done |-> [host EXCEPT !.vm = "running", !.starts = host.starts + 1],
             broken |-> {host, [host EXCEPT !.vm = "running", !.starts = host.starts + 1]}]

RetireVm == [ready |-> host.vm \in {"off", "running"} /\ host.disk,
             done |-> [host EXCEPT !.vm = "absent"],
             broken |-> {host} \cup {[host EXCEPT !.vm = vm]: vm \in {"off", "absent"}}]

Script(op) == CASE op = "create" -> PrepareVm [] op = "attach" -> AttachSeed
                [] op = "launch" -> LaunchVm [] op = "retire" -> RetireVm

(* A script that refuses, fails or answers with anything but the receipt   *)
(* expected of it is an exception.                                         *)
RunScript(c) ==
  /\ Is(c, "command")
  /\ IF Script(call[c].op).ready THEN host' = Script(call[c].op).done /\ Continues(c, "settle")
     ELSE Continues(c, GivesUp(c)) /\ UNCHANGED host
  /\ Works
  /\ UNCHANGED <<manifest, pending, claims, lock, calls>>

Settle(c) == Is(c, "settle") /\ Store(c, Definite(call[c].op), GivesUp(c))

(* The guard is unlinked only when it is still this call's own. *)
ReleaseGuard(c) ==
  /\ Is(c, "release")
  /\ \/ lock' = "none" /\ Works
     \/ lock' = "left" /\ Mishap
  /\ call' = [call EXCEPT ![c] = Idle]
  /\ UNCHANGED <<manifest, pending, claims, host, calls>>

(* What a step that fails, or whose process dies in it, may have done. *)
Interrupted(c) ==
  LET op == call[c].op
      stored == IF Is(c, "mark") THEN Unknown(op) ELSE Definite(op)
  IN /\ claims' \in {claims} \cup (IF Is(c, "claim") THEN {claims \cup {op}} ELSE {})
     /\ host' \in {host} \cup (IF Is(c, "command") /\ Script(op).ready THEN Script(op).broken ELSE {})
     /\ \/ UNCHANGED <<manifest, pending>>
        \/ /\ call[c].at \in {"mark", "settle"} /\ ~pending
           /\ \/ pending' = TRUE /\ UNCHANGED manifest
              \/ manifest' = stored /\ UNCHANGED pending
     /\ UNCHANGED calls

StepFails(c) ==
  /\ call[c].at \in {"inputs", "claim", "mark", "command", "settle"}
  /\ Interrupted(c) /\ Continues(c, GivesUp(c))
  /\ Mishap
  /\ UNCHANGED lock

OperatorDies(c) ==
  /\ ~Is(c, "idle")
  /\ Interrupted(c) /\ call' = [call EXCEPT ![c] = Idle]
  /\ lock' = IF lock = c THEN "left" ELSE lock
  /\ Mishap

(* The installer asks for power-off at its end. *)
GuestPowersOff ==
  /\ host.vm = "running" /\ host' = [host EXCEPT !.vm = "off"]
  /\ Works
  /\ UNCHANGED <<manifest, pending, claims, lock, call, calls>>

PreparationStep ==
  \E c \in Operators:
    \/ TakeGuard(c) \/ LookAgain(c) \/ TakeClaim(c) \/ MarkUnknown(c) \/ RunScript(c)
    \/ Settle(c) \/ ReleaseGuard(c) \/ StepFails(c)

PreparationAround ==
  \/ \E c \in Operators: OperatorDies(c) \/ \E op \in {"attach", "launch", "retire"}: Review(c, op)
  \/ GuestPowersOff

PreparationEnded == \A c \in Operators: Is(c, "idle")
=============================================================================
