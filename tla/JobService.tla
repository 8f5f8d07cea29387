----------------------------- MODULE JobService -----------------------------
(***************************************************************************)
(* night_shifts/service.py (NightShiftService) over the SQLite stores of   *)
(* night_shifts/storage/sqlite.py, for one job and several callers.        *)
(*                                                                         *)
(* transition() and request_cancellation() read the job row, compute a new *)
(* row and write the WHOLE row back, then append an event: three separate  *)
(* SQLite transactions, without a lock or a version check.  They are three *)
(* steps here, and calls overlap as they like: nothing in the code makes   *)
(* callers take turns.  Two history variables tell how far a behaviour has *)
(* used that freedom.  run_local() makes several such calls around the run *)
(* of a worker backend.                                                    *)
(***************************************************************************)
EXTENDS Integers, Sequences, FiniteSets, JobStates

CONSTANTS Callers,     \* threads or processes that use the service
          MaxCalls,    \* bound: number of calls that callers start
          MaxCrashes,  \* bound: number of crashes
          NoJob, None

ASSUME ServiceAssumption ==
  /\ IsFiniteSet(Callers)
  /\ MaxCalls \in Nat
  /\ MaxCrashes \in Nat
  /\ NoJob \notin [status : Statuses, cancel : BOOLEAN]
  /\ None \notin Statuses \cup {"create", "cancel"}

(* Targets a person asks for: queueing and the review workflow.  The       *)
(* statuses of a run are run_local()'s business.                           *)
UserTargets == {"queued", "awaiting_review", "revision_requested", "rejected", "approved",
                "published", "merged"}

Outcomes == {"success", "submitted", "blocked", "cancelled", "timed_out", "failed"}

VARIABLES
  row,      \* the job's row in SQLite: its status and cancellation_requested
  strict,   \* job.budget.max_cost_usd is set; never updated
  events,   \* the event rows of the job, in insertion order
  want,     \* per caller: what its service call in progress is to do
  stage,    \* per caller: where that call is
  seen,     \* per caller: the row the call has read
  phase,    \* per caller: where its run_local() is
  calls,    \* number of calls started
  crashes,  \* number of crashes
  overlap,  \* history: a call has read while another was past its read
  lost      \* history: writes over a row that was not the row read

callVars == <<want, stage, seen, phase>>
vars == <<row, strict, events, callVars, calls, crashes, overlap, lost>>

Rows == [status : Statuses, cancel : BOOLEAN]
Stages == {"idle", "read", "write", "append"}
Phases == {"none", "entered", "provisioning", "starting", "backend", "closing"}
Wants == Statuses \cup {"create", "cancel", None}

Init ==
  /\ row = NoJob
  /\ strict \in BOOLEAN
  /\ events = <<>>
  /\ want = [c \in Callers |-> None]
  /\ stage = [c \in Callers |-> "idle"]
  /\ seen = [c \in Callers |-> NoJob]
  /\ phase = [c \in Callers |-> "none"]
  /\ calls = 0
  /\ crashes = 0
  /\ overlap = FALSE
  /\ lost = 0

-----------------------------------------------------------------------------
(* A call of the service begins; its first transaction comes later. *)
Start(c, w) ==
  /\ want' = [want EXCEPT ![c] = w]
  /\ stage' = [stage EXCEPT ![c] = "read"]
  /\ UNCHANGED seen

Unoccupied(c) == stage[c] = "idle" /\ phase[c] = "none" /\ calls < MaxCalls

(* create(), request_cancellation() or transition().  The job's identity   *)
(* is a fresh uuid, so one caller creates it.                              *)
UserCall(c, w) ==
  /\ Unoccupied(c)
  /\ w = "create" => row = NoJob /\ \A d \in Callers : want[d] # "create"
  /\ calls' = calls + 1
  /\ Start(c, w)
  /\ UNCHANGED <<row, strict, events, phase, crashes, overlap, lost>>

StartRun(c) ==
  /\ Unoccupied(c)
  /\ row # NoJob
  /\ calls' = calls + 1
  /\ phase' = [phase EXCEPT ![c] = "entered"]
  /\ UNCHANGED <<row, strict, events, want, stage, seen, crashes, overlap, lost>>

(* run_local(), up to its first transition: a cancelled job is closed, a   *)
(* job with a strict cost budget is failed, any other is provisioned.      *)
EnterRun(c) ==
  /\ phase[c] = "entered"
  /\ stage[c] = "idle"
  /\ LET w == IF row.cancel THEN "cancelled" ELSE IF strict THEN "failed" ELSE "provisioning"
     IN  /\ Start(c, w)
         /\ phase' = [phase EXCEPT ![c] = IF w = "provisioning" THEN w ELSE "closing"]
  /\ UNCHANGED <<row, strict, events, calls, crashes, overlap, lost>>

(* Mutant: a run that was interrupted may be claimed again. *)
MayMoveReclaim(s, t) == <<s, t>> \in Edges \cup ({"running"} \X {"provisioning"})

(* Mutant: only final statuses are protected. *)
MayMoveLoose(s, t) == s \notin Final

(* validate_transition() *)
MayMove(s, t) == <<s, t>> \in Edges

(* The checks of a call on the row it has read. *)
Accepted(w, r) ==
  IF w = "create" THEN r = NoJob
  ELSE /\ r # NoJob
       /\ IF w = "cancel" THEN r.status \notin Final ELSE MayMove(r.status, w)

(* The row a call computes from the row it has read. *)
NewRow(w, r) ==
  IF w = "create" THEN [status |-> "draft", cancel |-> FALSE]
  ELSE IF w = "cancel" THEN [r EXCEPT !.cancel = TRUE]
  ELSE [r EXCEPT !.status = w]

EventOf(w, r) ==
  [from |-> IF w = "create" THEN None ELSE r.status,
   to   |-> IF w = "create" THEN "draft" ELSE IF w = "cancel" THEN r.status ELSE w]

Inside(c) == stage[c] \in {"write", "append"}

(* _require() and the checks.  A refused call raises, and run_local()      *)
(* passes the exception on.                                                *)
Read(c) ==
  /\ stage[c] = "read"
  /\ overlap' = (overlap \/ \E d \in Callers : Inside(d))
  /\ seen' = [seen EXCEPT ![c] = row]
  /\ IF Accepted(want[c], row)
       THEN stage' = [stage EXCEPT ![c] = "write"] /\ UNCHANGED <<want, phase>>
       ELSE /\ stage' = [stage EXCEPT ![c] = "idle"]
            /\ want' = [want EXCEPT ![c] = None]
            /\ phase' = [phase EXCEPT ![c] = "none"]
  /\ UNCHANGED <<row, strict, events, calls, crashes, lost>>

(* JobStore.create() inserts; update() sets every column from the row that *)
(* was read before.                                                        *)
Write(c) ==
  /\ stage[c] = "write"
  /\ row' = NewRow(want[c], seen[c])
  /\ stage' = [stage EXCEPT ![c] = "append"]
  /\ lost' = IF seen[c] = row THEN lost ELSE lost + 1
  /\ UNCHANGED <<strict, events, want, seen, phase, calls, crashes, overlap>>

(* The call after this one, in run_local(). *)
Resume(c) ==
  IF phase[c] = "provisioning" THEN "starting"
  ELSE IF phase[c] = "starting" THEN "backend"
  ELSE "none"

(* Mutant: cancellations are not recorded. *)
AppendStatusOnly(c) ==
  /\ stage[c] = "append"
  /\ events' = IF want[c] \in {"cancel", "failed"} THEN events
               ELSE Append(events, EventOf(want[c], seen[c]))
  /\ phase' = [phase EXCEPT ![c] = Resume(c)]
  /\ IF Resume(c) = "starting" THEN Start(c, "running")
     ELSE /\ want' = [want EXCEPT ![c] = None]
          /\ stage' = [stage EXCEPT ![c] = "idle"]
          /\ UNCHANGED seen
  /\ UNCHANGED <<row, strict, calls, crashes, overlap, lost>>

(* EventStore.append(), and the return of the call. *)
AppendEvent(c) ==
  /\ stage[c] = "append"
  /\ events' = Append(events, EventOf(want[c], seen[c]))
  /\ phase' = [phase EXCEPT ![c] = Resume(c)]
  /\ IF Resume(c) = "starting" THEN Start(c, "running")
     ELSE /\ want' = [want EXCEPT ![c] = None]
          /\ stage' = [stage EXCEPT ![c] = "idle"]
          /\ UNCHANGED seen
  /\ UNCHANGED <<row, strict, calls, crashes, overlap, lost>>

(* Mutant: a timed-out run is handed to the reviewers. *)
TargetReview(outcome) ==
  IF outcome = "timed_out" THEN "awaiting_review"
  ELSE IF outcome \in {"success", "submitted"} THEN "completed"
  ELSE IF outcome = "cancelled" THEN "cancelled"
  ELSE "failed"

TargetOf(outcome) ==
  IF outcome \in {"success", "submitted"} THEN "completed"
  ELSE IF outcome = "cancelled" THEN "cancelled"
  ELSE "failed"

(* backend.run() returns or raises ("failed").  It polls the cancellation  *)
(* flag of the row, but may also finish without having seen it.            *)
BackendReturns(c) ==
  /\ phase[c] = "backend"
  /\ stage[c] = "idle"
  /\ \E o \in Outcomes :
       /\ o = "cancelled" => row.cancel
       /\ Start(c, TargetOf(o))
  /\ phase' = [phase EXCEPT ![c] = "closing"]
  /\ UNCHANGED <<row, strict, events, calls, crashes, overlap, lost>>

(* The process that hosts the callers dies.  The rows stay; nothing in the *)
(* code looks for jobs that were running.                                  *)
Crash ==
  /\ crashes < MaxCrashes
  /\ crashes' = crashes + 1
  /\ want' = [c \in Callers |-> None]
  /\ stage' = [c \in Callers |-> "idle"]
  /\ seen' = [c \in Callers |-> NoJob]
  /\ phase' = [c \in Callers |-> "none"]
  /\ UNCHANGED <<row, strict, events, calls, overlap, lost>>

CallStep(c) == Read(c) \/ Write(c) \/ AppendEvent(c) \/ EnterRun(c) \/ BackendReturns(c)

Next ==
  \/ \E c \in Callers :
       \/ \E w \in UserTargets \cup {"create", "cancel"} : UserCall(c, w)
       \/ StartRun(c)
       \/ CallStep(c)
  \/ Crash

(* A caller that has begun a call goes on with it, and backends have a     *)
(* timeout (budget.timeout_seconds).                                       *)
Fairness == \A c \in Callers : WF_vars(CallStep(c))

Spec == Init /\ [][Next]_vars /\ Fairness

-----------------------------------------------------------------------------
(* Type correctness of rows, events and calls in progress. *)
TypeOK ==
  /\ row \in Rows \cup {NoJob}
  /\ strict \in BOOLEAN
  /\ events \in Seq([from : Statuses \cup {None}, to : Statuses])
  /\ want \in [Callers -> Wants]
  /\ stage \in [Callers -> Stages]
  /\ seen \in [Callers -> Rows \cup {NoJob}]
  /\ phase \in [Callers -> Phases]
  /\ calls \in Nat
  /\ crashes \in Nat
  /\ overlap \in BOOLEAN
  /\ lost \in Nat

(* The job table keeps its promise to readers, except where a call writes  *)
(* over a row it has not read: the service implements JobLifecycle         *)
(* ("Validated lifecycle transitions for night-shift jobs",                *)
(* state_machine.py), and each step outside it is a lost update.           *)
Lifecycle == INSTANCE JobLifecycle WITH row <- row, lost <- lost, NoJob <- NoJob
ImplementsLifecycle == Lifecycle!Spec

(* A cancellation that request_cancellation() has stored is never lost     *)
(* (test_cancellation_request_is_durable_and_audited).                     *)
CancellationIsDurable ==
  [][row # NoJob /\ row.cancel => row'.cancel]_vars

(* The callers whose run_local() has claimed the job and runs it. *)
Backends == {c \in Callers : phase[c] \in {"starting", "backend"}}

(* run_local() executes "one queued job through a backend": the step to    *)
(* "provisioning" takes the job from the queue.  The code does not keep it *)
(* when two calls read "queued" before either writes.                      *)
OneBackendPerJob == Cardinality(Backends) <= 1

(* What it does keep, however calls overlap: the state machine lets nobody *)
(* claim a job that a backend may still complete, so every backend more    *)
(* than one was paid for with a lost update, a call that wrote over a row  *)
(* other than the one it had read.                                         *)
SecondBackendNeedsLostUpdate == Cardinality(Backends) <= 1 + lost

Breaks == {i \in 1..Len(events) - 1 : events[i].to # events[i + 1].from}

(* What the trail does not tell of the row r: breaks, and a last event     *)
(* that does not end in the row's status.                                  *)
Gaps(r) ==
  Cardinality(Breaks)
    + (IF r # NoJob /\ (events = <<>> \/ events[Len(events)].to # r.status) THEN 1 ELSE 0)

(* As long as no two calls have overlapped, the event trail tells the      *)
(* job's history: read in order, each event starts where the one before    *)
(* ended and the last one ends in the row's status, except for one event   *)
(* per crash and the event of the call in progress.                        *)
TrailIsComplete ==
  LET unwritten == IF \E c \in Callers : stage[c] = "append" THEN 1 ELSE 0
  IN  ~overlap => Gaps(row) <= crashes + unwritten

(* A run ends, calls that overlap included: a job stays in "running" only  *)
(* when its host crashed or an update was lost.                            *)
Running == row # NoJob /\ row.status = "running"
RunEnds == Running ~> ~Running \/ crashes > 0 \/ lost > 0

-----------------------------------------------------------------------------
(* The inductive invariant behind the theorems of JobServiceProofs: what   *)
(* holds however calls overlap, and what holds until they do.              *)

(* Which call belongs to which part of run_local(). *)
PhaseMatchesCall ==
  \A c \in Callers :
    /\ stage[c] = "idle" => want[c] = None
    /\ phase[c] = "none" => want[c] \in UserTargets \cup {"create", "cancel", None}
    /\ phase[c] \in {"entered", "backend"} => stage[c] = "idle"
    /\ phase[c] \in {"provisioning", "starting", "closing"} => stage[c] # "idle"
    /\ phase[c] = "provisioning" => want[c] = "provisioning"
    /\ phase[c] = "starting" => want[c] = "running"
    /\ phase[c] = "closing" => want[c] \in {"completed", "cancelled", "failed"}
    /\ phase[c] = "entered" => row # NoJob

(* The caller that has claimed the job and may still complete it. *)
Holder(c) ==
  \/ phase[c] = "provisioning" /\ stage[c] = "append"
  \/ phase[c] \in {"starting", "backend"}
  \/ phase[c] = "closing" /\ want[c] = "completed" /\ stage[c] \in {"read", "write"}

(* The statuses from which no caller but the holder can lead the job back  *)
(* to "queued".                                                            *)
Claimed(r) == r # NoJob /\ r.status \in {"provisioning", "running", "cancelled", "failed"}

(* A claim is backed by the row's status or by a lost update. *)
Holders == {c \in Callers : Holder(c)}
ClaimsPaid == Cardinality(Holders) <= lost + (IF Claimed(row) THEN 1 ELSE 0)

(* However calls overlap. *)
AcceptedInside == \A c \in Callers : Inside(c) => Accepted(want[c], seen[c])
Overlapping == TypeOK /\ PhaseMatchesCall /\ AcceptedInside /\ ClaimsPaid

(* One call at a time is past its read, and until it writes, what it read  *)
(* is still the row.                                                       *)
FreshRead ==
  /\ \A c, d \in Callers : Inside(c) /\ Inside(d) => c = d
  /\ \A c \in Callers : stage[c] = "write" => seen[c] = row

(* Between the write of a row and the append of its event, the trail tells *)
(* the row that the call had read; otherwise it tells the row.             *)
TrailKept ==
  /\ row = NoJob => events = <<>>
  /\ \A c \in Callers :
       stage[c] = "append" => /\ row = NewRow(want[c], seen[c])
                              /\ seen[c] = NoJob => events = <<>>
                              /\ Gaps(seen[c]) <= crashes
  /\ (\A c \in Callers : stage[c] # "append") => Gaps(row) <= crashes

(* The inductive invariant. *)
IInv == Overlapping /\ (~overlap => FreshRead /\ TrailKept)
=============================================================================
