-------------------------- MODULE MachineLifecycle --------------------------
(***************************************************************************)
(* What manifest.json promises an operator about a preparation machine,    *)
(* without operators, guards, claims or the calls that share them: a       *)
(* command is announced on disk before anything of the machine changes, it *)
(* changes what it is for and nothing else, and its end is recorded only   *)
(* when the machine is as the record says.  A machine gets one disk, one   *)
(* seed, one start; after its retirement nothing changes any more.         *)
(***************************************************************************)
EXTENDS Naturals

VARIABLES status,  \* the status in manifest.json, "none" where there is no machine
          machine  \* the machine, its seed drives, its disk; history: its starts

Commands == {"create", "attach", "launch", "retire"}

Before == [create |-> {},
           attach |-> {"created_not_started"},
           launch |-> {"created_seed_attached_not_started"},
           retire |-> {"provisioning_unknown", "created_not_started", "seed_attach_unknown",
                       "created_seed_attached_not_started", "launch_unknown",
                       "installer_vm_started_not_reviewed"}]

During == [create |-> "provisioning_unknown", attach |-> "seed_attach_unknown",
           launch |-> "launch_unknown", retire |-> "retirement_unknown"]

After == [create |-> "created_not_started", attach |-> "created_seed_attached_not_started",
          launch |-> "installer_vm_started_not_reviewed", retire |-> "retired_vm_disk_retained"]

Init ==
  /\ status \in {"none", "provisioning_unknown"}
  /\ machine = [vm |-> "absent", seeds |-> 0, disk |-> FALSE, starts |-> 0]

Announce(op) == status \in Before[op] /\ status' = During[op] /\ UNCHANGED machine

(* The machine is registered with a new disk, and removed again when that fails. *)
Provisioned ==
  /\ machine.vm = "absent"
  /\ \E vm \in {"absent", "bare", "off"}, disk \in BOOLEAN:
       machine' = [machine EXCEPT !.vm = vm, !.disk = disk]

SeedAdded ==
  machine.vm = "off" /\ machine.seeds = 0 /\ machine' = [machine EXCEPT !.seeds = 1]

Started ==
  /\ machine.vm = "off" /\ machine.seeds = 1 /\ machine.starts = 0
  /\ machine' = [machine EXCEPT !.vm = "running", !.starts = 1]

(* Turned off, and unregistered; the disk stays. *)
Retired ==
  /\ machine.vm \in {"off", "running"} /\ machine.disk
  /\ \E vm \in {"off", "absent"}: machine' = [machine EXCEPT !.vm = vm]

Command(op) ==
  /\ status = During[op] /\ UNCHANGED status
  /\ CASE op = "create" -> Provisioned [] op = "attach" -> SeedAdded
       [] op = "launch" -> Started [] op = "retire" -> Retired

Achieved(op) ==
  CASE op = "create" -> machine.vm = "off" /\ machine.seeds = 0
    [] op = "attach" -> machine.vm = "off" /\ machine.seeds = 1
    [] op = "launch" -> machine.vm # "absent" /\ machine.starts = 1
    [] op = "retire" -> machine.vm = "absent" /\ machine.disk

Conclude(op) ==
  status = During[op] /\ Achieved(op) /\ status' = After[op] /\ UNCHANGED machine

(* The installer asks for power-off at its end. *)
PowerOff ==
  machine.vm = "running" /\ machine' = [machine EXCEPT !.vm = "off"] /\ UNCHANGED status

Next == PowerOff \/ \E op \in Commands: Announce(op) \/ Command(op) \/ Conclude(op)

Spec == Init /\ [][Next]_<<status, machine>>
=============================================================================
