----------------------------- MODULE NativeWorker -----------------------------
(***************************************************************************)
(* One fixed worker of the native validation, on both sides of its pipes:  *)
(*   bootstrap_native_capture.py      observe_fixed_worker(), the order of *)
(*                                    it all, and NativeKernelCapture;     *)
(*   bootstrap_native_owner.py        the owner of child, pipes and pidfd; *)
(*   bootstrap_native_supervision.py  the reports it accepts;              *)
(*   bootstrap_native_denials.py      the one denial a record must be;     *)
(*   guest/bootstrap_native_child.py, guest/bootstrap_native_worker.py     *)
(*                                    the child itself.                    *)
(* The supervisor is one thread; the child, the kernel's log and the clock *)
(* move between any two of its system calls.                               *)
(*                                                                         *)
(* Left out: the texts of the checks of runtime, mounts, devices, labels   *)
(* and descriptors (an operation that fails), pids, and byte limits.       *)
(***************************************************************************)
EXTENDS WorkerControl, Sequences, SequencesExt

CONSTANT MaxLog  \* bound: kernel records while one worker is observed

ASSUME LogAssumption == MaxLog \in Nat

VARIABLES
  n,         \* the worker of the plan that is being observed, 0 before the first
  at,        \* where observe_fixed_worker() is
  failure,   \* its local of that name
  late,      \* the worker's deadline, at most 5 seconds, has passed
  owner,     \* NativeWorkerOwner: its state, has a pidfd, _lifetime_unknown, _close_unknown
  retained,  \* the child is in _RETAINED
  child,     \* the process: where it is, its status or report, its pipes, operated
  gate,      \* the gate pipe: "empty", "G" or "closed"
  reports,   \* the report pipe
  session,   \* WorkerReportSession: _ready, _released, _result
  log,       \* the kernel log since the worker began
  audit,     \* of the worker's denial: "none", "pending", "logged"
  capture,   \* NativeKernelCapture: where it is, _baseline_sequence, records
  denial,    \* whose record was correlated: "none", "own" or "alien"
  ram        \* NativeRamFixtures: "none", "held", "changed", "failed", "closed", "unclosed"

hostVars == <<n, at, failure, owner, retained, session, capture, denial>>
worldVars == <<child, gate, reports, log, audit, ram>>
workerVars == <<late, hostVars, worldVars>>

Denied == {"runtime_write", "pool_sibling_write", "outside_exec"}  \* CASES
Workers == 11
Worker(k) ==
  IF k \in {1, Workers} THEN [case |-> "allowed_pools", mode |-> "confined"]
  ELSE [case |-> <<"runtime_write", "pool_sibling_write", "outside_exec">>[(k - 2) \div 3 + 1],
        mode |-> IF (k - 2) % 3 = 1 THEN "confined" ELSE "control"]

Case == Worker(n).case
Confined == Worker(n).mode = "confined"
Negative == Confined /\ Case \in Denied

NoOwner == [state |-> "none", pidfd |-> FALSE, unknown |-> FALSE, leak |-> FALSE]
NoChild == [at |-> "none", exit |-> "none", pipes |-> FALSE, acted |-> FALSE]
NoSession == [ready |-> FALSE, released |-> FALSE, result |-> "none"]
NoCapture == [at |-> "none", base |-> 0, records |-> <<>>, unknown |-> FALSE]

(* The log already holds a denial by an earlier process with this pid. *)
FreshWorker ==
  /\ late = FALSE /\ failure = "none" /\ owner = NoOwner /\ child = NoChild /\ gate = "empty"
  /\ reports = <<>> /\ session = NoSession /\ log = <<"alien">> /\ audit = "none"
  /\ capture = NoCapture /\ denial = "none"

WorkerInit == n = 0 /\ at = "idle" /\ retained = FALSE /\ ram = "none" /\ FreshWorker

Alive == child.at \notin {"none", "zombie", "reaped"}
Raise == at' = "undo_log" /\ failure' = "worker_observation_unknown"
Step(from, to) == at = from /\ ~late /\ at' = to /\ Works /\ UNCHANGED failure

-----------------------------------------------------------------------------
(* observe_fixed_worker(), step by step. *)
BeginWorker ==
  /\ at = "idle" /\ n < Workers
  /\ n' = n + 1 /\ at' = "pins"
  /\ late' = FALSE /\ failure' = "none" /\ owner' = NoOwner /\ child' = NoChild /\ gate' = "empty"
  /\ reports' = <<>> /\ session' = NoSession /\ log' = <<"alien">> /\ audit' = "none"
  /\ capture' = NoCapture /\ denial' = "none"
  /\ UNCHANGED <<retained, ram>>

AfterPins == [pins |-> "spawn", pins2 |-> "baseline", pins3 |-> "correlate"]

(* NativeRamFixtures.verify(), before the child, when it is ready, and      *)
(* after its capture; a failure is final.                                  *)
VerifyPins ==
  /\ at \in DOMAIN AfterPins
  /\ \/ ram = "held" /\ Step(at, AfterPins[at]) /\ UNCHANGED ram
     \/ (ram # "held" \/ late) /\ Works /\ Raise /\ ram' = "failed"
     \/ Fails /\ Raise /\ ram' = "failed"
  /\ UNCHANGED <<n, late, owner, retained, child, gate, reports, session, log, audit, capture,
                 denial>>

(* NativeWorkerOwner(): nothing is spawned while an earlier child is unknown. *)
OwnerChecks ==
  /\ at = "spawn"
  /\ \/ ~retained /\ Step("spawn", "plan")
     \/ (((retained \/ late) /\ Works) \/ Fails) /\ Raise
  /\ UNCHANGED <<n, late, owner, retained, session, capture, denial, worldVars>>

(* The pipes, and the one command line with the child's reviewed sources. *)
RenderPlan ==
  /\ at = "plan"
  /\ \/ Step("plan", "exec")
     \/ ((late /\ Works) \/ Fails) /\ Raise
  /\ UNCHANGED <<n, late, owner, retained, session, capture, denial, worldVars>>

Spawn ==
  /\ at = "exec"
  /\ \/ /\ Step("exec", "adopt")
        /\ child' = [NoChild EXCEPT !.at = "entering", !.pipes = TRUE]
        /\ retained' = TRUE
     \/ ((late /\ Works) \/ Fails) /\ Raise /\ UNCHANGED <<child, retained>>
  /\ UNCHANGED <<n, late, owner, gate, reports, session, log, audit, capture, denial, ram>>

(* The rest of the constructor; when it raises, it aborts by itself and    *)
(* the caller never holds an owner.                                        *)
Adopt ==
  /\ at = "adopt"
  /\ \/ Step("adopt", "ready") /\ owner' = [NoOwner EXCEPT !.state = "held", !.pidfd = TRUE]
     \/ /\ late /\ Works /\ at' = "abort" /\ failure' = "worker_observation_unknown"
        /\ owner' = [NoOwner EXCEPT !.pidfd = TRUE]
     \/ /\ Fails /\ at' = "abort" /\ failure' = "worker_observation_unknown"
        /\ \E pidfd \in BOOLEAN: owner' = [NoOwner EXCEPT !.pidfd = pidfd]
  /\ UNCHANGED <<n, late, retained, session, capture, denial, worldVars>>

(* _frame(): "ready" once and first, one result after the release, of a    *)
(* kind the case allows.                                                   *)
FrameFits(frame) ==
  IF frame = "ready" THEN ~session.ready /\ ~session.released
  ELSE /\ session.released /\ session.result = "none"
       /\ frame \in IF Case = "allowed_pools" THEN {"pools_checked"}
                    ELSE {"eacces", "other_errno"}
                           \cup (IF Case = "outside_exec" THEN {}
                                 ELSE IF Confined THEN {"unexpected_open"} ELSE {"control_written"})

(* _read() in await_ready(), release_gate() and observe_exit(). *)
ReadReport ==
  /\ at \in {"ready", "gate", "reports"} /\ reports # <<>> /\ ~late
  /\ Works
  /\ reports' = Tail(reports)
  /\ IF ~FrameFits(Head(reports)) THEN Raise /\ UNCHANGED session
     ELSE /\ session' = IF Head(reports) = "ready" THEN [session EXCEPT !.ready = TRUE]
                        ELSE [session EXCEPT !.result = Head(reports)]
          /\ at' = IF at = "ready" THEN "pins2" ELSE at
          /\ UNCHANGED failure
  /\ UNCHANGED <<n, late, owner, retained, capture, denial, child, gate, log, audit, ram>>

(* End of file: too early, or what observe_exit() waits for. *)
ReadEnd ==
  /\ at \in {"ready", "gate", "reports"} /\ reports = <<>> /\ ~child.pipes /\ ~late
  /\ Works
  /\ IF at = "reports" THEN at' = "exit" /\ UNCHANGED failure ELSE Raise
  /\ UNCHANGED <<n, late, owner, retained, session, capture, denial, worldVars>>

(* A wait of the owner ends with the deadline, or an operation of it fails: *)
(* the gate may have been released although release_gate() raised.         *)
WaitFails ==
  /\ at \in {"ready", "gate", "reports", "exit"}
  /\ \/ late /\ Works /\ UNCHANGED <<owner, gate>>
     \/ Fails /\ UNCHANGED <<owner, gate>>
     \/ /\ at \in {"gate", "exit"} /\ Fails
        /\ owner' = [owner EXCEPT !.leak = TRUE]
        /\ gate' = IF at = "gate" THEN "G" ELSE gate
  /\ Raise
  /\ UNCHANGED <<n, late, retained, session, capture, denial, child, reports, log, audit, ram>>

(* Mutant: the cursor is the beginning of the log. *)
BaselineAtStart == 0

(* The sequence number of the last record before the release. *)
Baseline == Len(log)

TakeBaseline ==
  /\ at = "baseline"
  /\ \/ Step("baseline", "gate") /\ capture' = [capture EXCEPT !.at = "open", !.base = Baseline]
     \/ ((late /\ Works) \/ Fails) /\ Raise /\ UNCHANGED capture
  /\ UNCHANGED <<n, late, owner, retained, session, denial, worldVars>>

(* release_gate(), after everything queued was read. *)
ReleaseGate ==
  /\ at = "gate" /\ reports = <<>> /\ child.pipes
  /\ Step("gate", "reports")
  /\ gate' = "G" /\ session' = [session EXCEPT !.released = TRUE]
  /\ UNCHANGED <<n, late, owner, retained, capture, denial, child, reports, log, audit, ram>>

(* finish_exit(): only an exec that replaced a control may lack a result. *)
ExitFits ==
  IF session.result = "none" THEN Case = "outside_exec" /\ ~Confined /\ child.exit = "37"
  ELSE /\ child.exit = "0"
       /\ session.result = IF Case = "allowed_pools" THEN "pools_checked"
                           ELSE IF Confined THEN "eacces" ELSE "control_written"

ObserveExit ==
  /\ at = "exit" /\ child.at = "zombie" /\ ~late
  /\ \/ /\ Works /\ UNCHANGED owner
        /\ IF ExitFits THEN at' = "collect" /\ UNCHANGED failure ELSE Raise
     \/ Fails /\ Raise /\ owner' = [owner EXCEPT !.unknown = TRUE]
  /\ UNCHANGED <<n, late, retained, session, capture, denial, worldVars>>

(* NativeKernelCapture.finish(): a complete interval up to a quiet tail. *)
Collect ==
  /\ at = "collect"
  /\ LET records == SubSeq(log, capture.base + 1, Len(log)) IN
     \/ /\ ~Contains(records, "lost") /\ Step("collect", "pins3")
        /\ capture' = [capture EXCEPT !.at = "finished", !.records = records]
     \/ /\ (Contains(records, "lost") \/ late) /\ Works
        /\ Raise /\ UNCHANGED capture
     \/ Fails /\ Raise /\ UNCHANGED capture
  /\ UNCHANGED <<n, late, owner, retained, session, denial, worldVars>>

(* correlate_local_denial(): exactly one denial with the worker's pid. *)
WithPid(records) == {i \in DOMAIN records: records[i] \in {"own", "alien"}}

Correlate ==
  /\ at = "correlate"
  /\ LET records == capture.records IN
     \/ ~Negative /\ at' = "close_log" /\ UNCHANGED <<failure, denial>>
     \/ /\ Negative
        /\ \E i \in DOMAIN records: WithPid(records) = {i} /\ denial' = records[i]
        /\ at' = "close_log" /\ UNCHANGED failure
     \/ /\ Negative
        /\ \A i \in DOMAIN records: WithPid(records) # {i}
        /\ Raise /\ UNCHANGED denial
  /\ Works
  /\ UNCHANGED <<n, late, owner, retained, session, capture, worldVars>>

(* capture.close(), on the way and in the cleanup: an uncertain close stays so. *)
CloseLog ==
  /\ at \in {"close_log", "undo_log"}
  /\ \E certain \in BOOLEAN:
       /\ IF certain \/ capture.at \in {"none", "closed"} THEN certain /\ Works ELSE Fails
       /\ capture' = IF capture.at = "none" THEN capture
                     ELSE [capture EXCEPT !.at = "closed", !.unknown = @ \/ ~certain]
  /\ IF at = "close_log" /\ ~capture'.unknown THEN at' = "reap" /\ UNCHANGED failure
     ELSE IF at = "close_log" THEN Raise
     ELSE /\ at' = "undo_child"
          /\ failure' = IF capture'.unknown THEN "cleanup_unknown" ELSE failure
  /\ UNCHANGED <<n, late, owner, retained, session, denial, worldVars>>

(* _reap(): the wait that may have consumed the child although it raised. *)
Reaped == child' = [child EXCEPT !.at = "reaped"] /\ retained' = FALSE
MaybeReaped == /\ \E where \in {"zombie", "reaped"}: child' = [child EXCEPT !.at = where]
               /\ UNCHANGED retained

(* The pipes are closed with the owner; a child at the gate reads the end. *)
GateCloses == gate' = IF gate = "empty" THEN "closed" ELSE gate

ReapAfterCapture ==
  /\ at = "reap"
  /\ \/ /\ Step("reap", "undo_log") /\ Reaped /\ GateCloses
        /\ owner' = [owner EXCEPT !.state = "closed"]
     \/ Fails /\ Raise /\ MaybeReaped /\ owner' = [owner EXCEPT !.unknown = TRUE] /\ UNCHANGED gate
     \/ Fails /\ Raise /\ Reaped /\ owner' = [owner EXCEPT !.leak = TRUE] /\ UNCHANGED gate
     \/ late /\ Works /\ Raise /\ UNCHANGED <<child, retained, owner, gate>>
  /\ UNCHANGED <<n, late, session, capture, denial, reports, log, audit, ram>>

-----------------------------------------------------------------------------
(* abort(): one attempt; the exact child is killed, awaited and reaped, or *)
(* its end stays unknown.                                                  *)
Abandoned(uncertain) ==
  LET unknown == uncertain \/ owner.leak IN
  /\ owner' = [owner EXCEPT !.state = IF unknown THEN "cleanup_unknown" ELSE "closed"]
  /\ IF at = "abort" THEN at' = "undo_log" /\ UNCHANGED failure
     ELSE /\ at' = "ended"
          /\ failure' = IF unknown THEN "cleanup_unknown" ELSE failure
  /\ GateCloses

NothingToAbort == at = "undo_child" /\ owner.state \in {"none", "closed", "cleanup_unknown"}

Abort ==
  /\ at \in {"abort", "undo_child"}
  /\ \/ /\ NothingToAbort
        /\ at' = "ended"
        /\ Works /\ UNCHANGED <<failure, child, retained, owner, gate>>
     \/ /\ ~NothingToAbort
        /\ \/ /\ owner.unknown \/ (Alive /\ ~owner.pidfd)
              /\ Works /\ Abandoned(TRUE) /\ UNCHANGED <<child, retained>>
           \/ /\ ~owner.unknown /\ child.at = "reaped"
              /\ Works /\ Abandoned(FALSE) /\ UNCHANGED <<child, retained>>
           \/ /\ ~owner.unknown /\ child.at = "zombie"
              /\ \/ Reaped /\ Works /\ Abandoned(FALSE)
                 \/ MaybeReaped /\ Fails /\ Abandoned(TRUE)
           \/ /\ ~owner.unknown /\ Alive /\ owner.pidfd
              /\ child' = [child EXCEPT !.at = "killed"]
              /\ IF child.at = "killed" THEN Abandoned(TRUE)  \* _CLEANUP_SECONDS have passed
                 ELSE UNCHANGED <<at, failure, owner, gate>>
              /\ Works /\ UNCHANGED retained
  /\ UNCHANGED <<n, late, session, capture, denial, reports, log, audit, ram>>

-----------------------------------------------------------------------------
(* The child: enter() and run_fixed_case(). *)
Exits(status) == child' = [child EXCEPT !.at = "zombie", !.exit = status, !.pipes = FALSE]

(* Any check that fails ends in os._exit(125): without an effect, or after it. *)
ChildRefuses ==
  /\ \/ child.at \in {"entering", "preflight", "gate", "working", "reporting"} /\ late /\ Works
     \/ child.at = "gate" /\ gate = "closed" /\ Works
     \/ child.at \in {"entering", "preflight", "gate", "working", "reporting"} /\ Fails
  /\ Exits("125")
  /\ UNCHANGED <<late, hostVars, gate, reports, log, audit, ram>>

(* enter(): context, digests and descriptors, and into the profile. *)
ChildEnters ==
  /\ child.at = "entering" /\ ~late
  /\ child' = [child EXCEPT !.at = "preflight"]
  /\ Works
  /\ UNCHANGED <<late, hostVars, gate, reports, log, audit, ram>>

(* run_fixed_case(): its own view of all that, and the first message. *)
ChildReady ==
  /\ child.at = "preflight" /\ ~late
  /\ child' = [child EXCEPT !.at = "gate"]
  /\ reports' = Append(reports, "ready")
  /\ Works
  /\ UNCHANGED <<late, hostVars, gate, log, audit, ram>>

ChildPasses ==
  /\ child.at = "gate" /\ gate = "G" /\ ~late
  /\ child' = [child EXCEPT !.at = "working"]
  /\ Works
  /\ UNCHANGED <<late, hostVars, gate, reports, log, audit, ram>>

(* _operation(): the kernel denies a confined worker, and its audit record *)
(* is on its way; or the policy does not hold, and a fault it is.          *)
ChildOperates ==
  /\ child.at = "working" /\ ~late
  /\ \E allowed \in IF Case = "allowed_pools" THEN {TRUE} ELSE BOOLEAN:
       /\ IF Negative = allowed THEN Fails ELSE Works
       /\ audit' = IF Negative /\ ~allowed THEN "pending" ELSE audit
       /\ child' =
            IF allowed /\ Case = "outside_exec"
            THEN [child EXCEPT !.at = "exiting", !.exit = "37", !.pipes = FALSE, !.acted = TRUE]
            ELSE [child EXCEPT !.at = "reporting", !.acted = TRUE,
                    !.exit = IF Case = "allowed_pools" THEN "pools_checked"
                             ELSE IF ~allowed THEN IF Negative THEN "eacces" ELSE "other_errno"
                             ELSE IF Confined THEN "unexpected_open" ELSE "control_written"]
  /\ UNCHANGED <<late, hostVars, gate, reports, log, ram>>

ChildReports ==
  /\ child.at = "reporting" /\ ~late
  /\ reports' = Append(reports, child.exit)
  /\ child' = [child EXCEPT !.at = "exiting", !.exit = "0", !.pipes = FALSE]
  /\ Works
  /\ UNCHANGED <<late, hostVars, gate, log, audit, ram>>

ChildEnds ==
  /\ \/ child.at = "exiting" /\ Exits(child.exit)
     \/ child.at = "killed" /\ Exits("killed")
  /\ Works
  /\ UNCHANGED <<late, hostVars, gate, reports, log, audit, ram>>

(* The kernel logs the worker's denial when it gets to it, and others'; a  *)
(* process that got the pid of a reaped worker may be denied the same.     *)
KernelLogs ==
  /\ at \notin {"idle", "ended", "dead"} /\ Len(log) < MaxLog
  /\ \E record \in {"own", "other", "alien", "lost"}:
       /\ record = "own" => audit = "pending"
       /\ record = "alien" => child.at = "reaped" /\ capture.at = "open"
       /\ record \in {"other", "lost"} => capture.at = "open"
       /\ log' = Append(log, record)
       /\ audit' = IF record = "own" THEN "logged" ELSE audit
       /\ IF record = "lost" THEN Fails ELSE Works
  /\ UNCHANGED <<late, hostVars, child, gate, reports, ram>>

(* Something else in the guest changes a fixture. *)
FixtureChanges ==
  /\ ram = "held" /\ Fails
  /\ ram' = "changed"
  /\ UNCHANGED <<late, hostVars, child, gate, reports, log, audit>>

WorkerTimesOut ==
  /\ at \notin {"idle", "ended", "dead"} /\ ~late
  /\ late' = TRUE
  /\ Works
  /\ UNCHANGED <<hostVars, worldVars>>

ObserveStep ==
  \/ VerifyPins \/ OwnerChecks \/ RenderPlan \/ Spawn \/ Adopt \/ ReadReport \/ ReadEnd
  \/ WaitFails \/ TakeBaseline
  \/ ReleaseGate \/ ObserveExit \/ Collect \/ Correlate \/ CloseLog \/ ReapAfterCapture \/ Abort

ChildStep ==
  \/ ChildRefuses \/ ChildEnters \/ ChildReady \/ ChildPasses \/ ChildOperates
  \/ ChildReports \/ ChildEnds
=============================================================================
