---------------------------- MODULE NativeSequence ----------------------------
(***************************************************************************)
(* The native validation inside the guest, from the NoCloud entry to the   *)
(* summary on its console:                                                 *)
(*   guest/bootstrap_native_boot.py   boot(), namespace(), supervise();    *)
(*   bootstrap_native_ram.py          the fixtures the supervisor holds;   *)
(*   bootstrap_native_sequence.py     the eleven workers, one at a time.   *)
(* boot() runs namespace() as a child with a timeout; namespace() becomes  *)
(* supervise() in the same process.  cloud-init may run the entry again.   *)
(*                                                                         *)
(* Left out: which check of runtime, devices, mounts or bytes refuses, and *)
(* the content of archives and policy.                                     *)
(***************************************************************************)
EXTENDS NativeWorker

CONSTANTS MaxBoots,   \* bound: runs of the entry in one guest
          MaxFixture  \* bound: files the supervisor creates, eight in the code

ASSUME SequenceAssumption == MaxBoots \in Nat /\ MaxFixture \in Nat

VARIABLES
  boot,      \* boot() of this run: where it is
  boots,     \* runs of the entry
  phase,     \* the namespace process: where namespace() or supervise() is
  profile,   \* the AppArmor profile is loaded
  staged,    \* the directories under /run exist
  sealed,    \* the validator's root is read-only
  created,   \* fixtures on the RAM mounts
  sequence,  \* NativeValidationSequence._state
  evidence,  \* the workers whose denial the sequence accepted
  changedAt, \* history: the worker at which a fixture was changed, 0 for none
  console    \* what was written to the guest's standard output

bootVars == <<boot, boots, phase, profile, staged, sealed>>
runVars == <<created, sequence, evidence, changedAt, console>>
sequenceVars == <<workerVars, bootVars, runVars>>

SequenceRest ==
  /\ WorkerInit
  /\ boot = "off" /\ boots = 0 /\ phase = "none" /\ profile = FALSE /\ staged = FALSE
  /\ sealed = FALSE /\ created = 0 /\ sequence = "new" /\ evidence = {} /\ changedAt = 0
  /\ console = <<>>

Boots(from, to) == boot = from /\ boot' = to

(* _profile(): the policy is in the kernel, enforced, or it is not. *)
ProfileIs(present) == profile = present

(* _sealed_view(): the mounts are the sealed root's, and no others. *)
SealedView == sealed

(* What _runtime() and the checks beside it refuse: the budget is over, or *)
(* the machine is not the one, or not in the state, they are for.          *)
Refuses == (expired /\ Works) \/ Fails

Phase(from, to) == phase = from /\ ~expired /\ phase' = to /\ Works

-----------------------------------------------------------------------------
(* boot(): a fresh guest, whose stage it creates exclusively; media; policy. *)
Enter ==
  /\ boot \in {"off", "failed"} /\ boots < MaxBoots
  /\ boots' = boots + 1
  /\ boot' = IF profile \/ staged THEN "failed" ELSE "stage"
  /\ Works
  /\ UNCHANGED <<phase, profile, staged, sealed, workerVars, runVars, control>>

(* validate_inputs(): both archives against their pins, byte for byte, and *)
(* the sources in one against those in the other.                          *)
ReadInputs(from, to) == Boots(from, to) /\ UNCHANGED <<staged, profile, phase>>

BootStep ==
  /\ boot \in {"stage", "media", "policy", "launch"}
  /\ \/ /\ ~expired /\ Works
        /\ \/ Boots("stage", "media") /\ staged' = TRUE /\ UNCHANGED <<profile, phase>>
           \/ ReadInputs("media", "policy")
           \/ Boots("policy", "launch") /\ ProfileIs(FALSE) /\ profile' = TRUE /\ UNCHANGED <<staged, phase>>
           \/ Boots("launch", "wait") /\ phase' = "enter" /\ UNCHANGED <<staged, profile>>
     \/ /\ Refuses
        /\ boot' = "failed"
        /\ staged' \in IF boot = "stage" THEN BOOLEAN ELSE {staged}
        /\ profile' \in IF boot = "policy" THEN BOOLEAN ELSE {profile}
        /\ UNCHANGED phase
  /\ UNCHANGED <<boots, sealed, workerVars, runVars, control>>

(* _command(phase=True): the timeout kills the phase, and only the phase. *)
BootWaits ==
  /\ boot = "wait"
  /\ Works
  /\ \/ /\ phase \in {"done", "exit125"}
        /\ boot' = IF phase = "done" /\ ~expired THEN "done" ELSE "failed"
        /\ UNCHANGED <<phase, at, gate>>
     \/ /\ expired /\ phase \notin {"done", "exit125"}
        /\ boot' = "failed" /\ phase' = "killed"
        /\ at' = "dead" /\ GateCloses
  /\ UNCHANGED <<boots, profile, staged, sealed, runVars, control, late, n, failure, owner,
                 retained, session, capture, denial, child, reports, log, audit, ram>>

-----------------------------------------------------------------------------
(* namespace() and the first half of supervise(): checks, the private root *)
(* with the sources, its seal, chroot and exec, and all checks again.      *)
PrepareRoot ==
  /\ \/ Phase("enter", "root") /\ ProfileIs(TRUE) /\ UNCHANGED sealed
     \/ Phase("root", "check") /\ sealed' = TRUE
     \/ Phase("check", "fixtures") /\ SealedView /\ UNCHANGED sealed
  /\ UNCHANGED <<boot, boots, profile, staged, workerVars, runVars, control>>

(* main() turns whatever was raised into the unknown line and status 125. *)
PhaseFails ==
  /\ phase \in {"enter", "root", "check"}
  /\ Refuses
  /\ phase' = "exit125" /\ console' = Append(console, "unknown")
  /\ UNCHANGED <<boot, boots, profile, staged, sealed, workerVars, control, created, sequence,
                 evidence, changedAt>>

(* NativeRamFixtures(): one file after the other, each one exclusive; a    *)
(* failure closes the descriptors and leaves the files.                    *)
CreateFixture ==
  /\ phase = "fixtures" /\ ram = "none"
  /\ \/ /\ ~expired /\ Works
        /\ IF created < MaxFixture THEN created' = created + 1 /\ UNCHANGED <<ram, phase>>
           ELSE ram' = "held" /\ phase' = "workers" /\ UNCHANGED created
     \/ ((expired /\ Works) \/ Fails) /\ ram' = "closed" /\ phase' = "fail" /\ UNCHANGED created
  /\ UNCHANGED <<boot, boots, profile, staged, sealed, control, late, hostVars, child, gate,
                 reports, log, audit, sequence, evidence, changedAt, console>>

(* run() takes the object before anything else; each _step() is one worker *)
(* within min(deadline, 5 s).                                              *)
NextWorker ==
  /\ phase = "workers" /\ sequence \in {"new", "running"} /\ at = "idle" /\ n < Workers
  /\ ~expired /\ ram # "failed" /\ BeginWorker
  /\ sequence' = "running"
  /\ Works
  /\ UNCHANGED <<bootVars, created, evidence, changedAt, console, control>>

(* launch_context() refuses, or the budget is over, before a worker. *)
NoNextWorker ==
  /\ phase = "workers" /\ sequence \in {"new", "running"} /\ at = "idle" /\ n < Workers
  /\ expired \/ ram = "failed"
  /\ sequence' = "failed" /\ phase' = "fail"
  /\ Works
  /\ UNCHANGED <<boot, boots, profile, staged, sealed, workerVars, control, created, evidence,
                 changedAt, console>>

(* The end of _step(), and the pair when it was the second control. *)
Accepts ==
  /\ failure = "none" /\ ~late /\ ~expired /\ ram # "failed"
  /\ Negative => denial # "none"

WorkerObserved ==
  /\ phase = "workers" /\ at = "ended"
  /\ IF Accepts
     THEN /\ evidence' = IF Negative THEN evidence \cup {[worker |-> n, of |-> denial]}
                         ELSE evidence
          /\ sequence' = IF n = Workers THEN "done" ELSE sequence
          /\ phase' = IF n = Workers THEN "close" ELSE phase
          /\ at' = "idle"
     ELSE /\ sequence' = "failed" /\ phase' = "fail"
          /\ UNCHANGED <<evidence, at>>
  /\ Works
  /\ UNCHANGED <<boot, boots, profile, staged, sealed, control, late, worldVars, n, failure,
                 owner, retained, session, capture, denial, created, changedAt, console>>

-----------------------------------------------------------------------------
(* Fixtures are closed after a failure too; _RETAINED must be empty. *)
CloseFixtures ==
  /\ phase \in {"close", "fail"}
  /\ \/ /\ Works /\ ram' = "closed"
        /\ phase' = IF phase = "close" /\ ~retained /\ ~expired THEN "report" ELSE "fail_closed"
     \/ /\ ram # "closed" /\ Fails /\ ram' = "unclosed"
        /\ phase' = "fail_closed"
  /\ UNCHANGED <<boot, boots, profile, staged, sealed, runVars, control, late, hostVars, child,
                 gate, reports, log, audit>>

(* The summary is written once; what fails after that adds the unknown     *)
(* line to it.                                                             *)
Report ==
  /\ \/ /\ phase = "report" /\ Works
        /\ IF expired THEN console' = Append(console, "unknown") /\ phase' = "exit125"
           ELSE console' = Append(console, "summary") /\ phase' = "reported"
     \/ /\ phase = "report" /\ Fails
        /\ phase' = "exit125"
        /\ \E torn \in {<<>>, <<"torn">>}: console' = Append(console \o torn, "unknown")
     \/ /\ phase = "reported" /\ Works
        /\ IF expired THEN console' = Append(console, "unknown") /\ phase' = "exit125"
           ELSE UNCHANGED console /\ phase' = "done"
     \/ /\ phase = "fail_closed" /\ Works
        /\ console' = Append(console, "unknown") /\ phase' = "exit125"
  /\ UNCHANGED <<boot, boots, profile, staged, sealed, workerVars, control, created, sequence,
                 evidence, changedAt>>

-----------------------------------------------------------------------------
GuestStep ==
  \/ Enter \/ BootStep \/ BootWaits \/ PrepareRoot \/ PhaseFails \/ CreateFixture
  \/ NextWorker \/ NoNextWorker \/ WorkerObserved \/ CloseFixtures \/ Report
  \/ (ObserveStep \/ WorkerTimesOut) /\ UNCHANGED <<bootVars, runVars, control>>

GuestAround ==
  \/ (ChildStep \/ KernelLogs) /\ UNCHANGED <<bootVars, runVars, control>>
  \/ /\ FixtureChanges
     /\ changedAt' = n
     /\ UNCHANGED <<bootVars, control, created, sequence, evidence, console>>

Booted == boot \in {"done", "failed"}
=============================================================================
