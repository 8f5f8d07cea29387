----------------------------- MODULE NightWorker -----------------------------
(***************************************************************************)
(* One worker run of the night shift, and what it rests on, in the forms the   *)
(* code has:                                                               *)
(*   "fixture"   run_fixture_in_sandbox(): a machine, a session, a fixed   *)
(*               transfer (FixtureRun);                                    *)
(*   "job"       HostJobExecution.run(): the model loop over a loaded      *)
(*               session and an inference client (HostJob);                *)
(*   "review"    collect_after_worker() and ReviewBundleStore, or          *)
(*               "artifacts", ArtifactRetriever (ReviewBundle);            *)
(*   "process"   ProcessWorkerBackend.run() (ProcessWorker);               *)
(*   "snapshot"  GitSnapshotExporter.export() (SnapshotExport);            *)
(*   "guest"     the loop of the guest's own program (GuestRuntime).       *)
(* Nothing in the repository runs two of them on one sandbox: the forms    *)
(* share the session, the deadline and the cancellation, and the form of a *)
(* behaviour is chosen when it begins.                                     *)
(***************************************************************************)
EXTENDS HostJob, ReviewBundle, ProcessWorker, SnapshotExport, GuestRuntime

CONSTANT Forms  \* the forms to explore

ASSUME FormsAssumption ==
  Forms \subseteq {"fixture", "job", "review", "artifacts", "process", "snapshot", "guest"}

(* What op holds while there is an operation. *)
Operations == [name: DOMAIN OpPhase, arg: Ids \cup {None}, id: Nat,
               at: {"send", "wait", "settle", "abort", "closing"}]

(* None is a value of its own. *)
ASSUME NoneAssumption == None \notin Operations

VARIABLE form

jobVars == <<inferenceVars, guestVars, loopVars>>
runVars == <<pc, vm, fixtureVars, sessionVars>>
sideVars == <<snapshotVars, runtimeVars>>
vars == <<form, control, faults, runVars, jobVars, reviewVars, processVars, sideVars>>

FixtureForm == FixtureInit /\ SessionInit /\ NoModelInit /\ LoopRest /\ ReviewRest /\ ProcessRest
JobForm == JobInit /\ LoadedInit /\ InferenceInit /\ ReviewRest /\ ProcessRest
ReviewForm == ReviewInit /\ LoadedInit /\ NoModelInit /\ LoopRest /\ ProcessRest
ArtifactsForm == /\ pc = "copy" /\ vm = "running" /\ FixtureRest /\ ReviewRest
                 /\ LoadedInit /\ NoModelInit /\ LoopRest /\ ProcessRest
NoRunForm == /\ pc = "return" /\ vm = "none" /\ FixtureRest /\ ReviewRest
             /\ SessionInit /\ NoModelInit /\ LoopRest /\ ProcessRest
ProcessForm == /\ pc = "return" /\ vm = "none" /\ FixtureRest /\ ReviewRest
               /\ SessionInit /\ NoModelInit /\ LoopRest /\ ProcessInit

Init ==
  /\ ControlInit /\ ToolsInit
  /\ form \in Forms
  /\ CASE form = "fixture" -> FixtureForm
       [] form = "job" -> JobForm
       [] form = "review" -> ReviewForm
       [] form = "artifacts" -> ArtifactsForm
       [] form = "process" -> ProcessForm
       [] OTHER -> NoRunForm
  /\ IF form = "snapshot" THEN SnapshotInit ELSE SnapshotRest
  /\ IF form = "guest" THEN RuntimeInit ELSE RuntimeRest

(* What the host's threads do, and what the guest, the machine, the model  *)
(* process, the canceller and a crash do to them.                          *)
FixtureHost == /\ form = "fixture"
               /\ \/ FixtureStep
                  \/ SessionStep /\ UNCHANGED <<pc, vm, fixtureVars>>
               /\ UNCHANGED <<form, jobVars, reviewVars, processVars, sideVars>>

FixtureOutside == /\ form = "fixture"
                  /\ \/ FixtureMachine \/ FixtureCancel
                     \/ SessionGuest /\ UNCHANGED <<pc, vm, fixtureVars>>
                  /\ UNCHANGED <<form, jobVars, reviewVars, processVars, sideVars>>

JobHost == /\ form = "job"
           /\ \/ JobStep
              \/ SessionStep /\ UNCHANGED <<pc, vm, fixtureVars, jobVars>>
              \/ InferenceStep /\ UNCHANGED <<runVars, guestVars, loopVars>>
           /\ UNCHANGED <<form, reviewVars, processVars, sideVars>>

JobAround == /\ form = "job"
             /\ \/ JobOutside
                \/ SessionGuest /\ UNCHANGED <<pc, vm, fixtureVars, jobVars>>
                \/ InferenceChild /\ UNCHANGED <<runVars, guestVars, loopVars>>
             /\ UNCHANGED <<form, reviewVars, processVars, sideVars>>

ReviewHost == /\ form \in {"review", "artifacts"}
              /\ \/ ReviewStep
                 \/ SessionStep /\ UNCHANGED <<pc, vm, fixtureVars, reviewVars>>
              /\ UNCHANGED <<form, jobVars, processVars, sideVars>>

ReviewOutside == /\ form \in {"review", "artifacts"}
                 /\ \/ ReviewCrash
                    \/ SessionGuest /\ UNCHANGED <<pc, vm, fixtureVars, reviewVars>>
                 /\ UNCHANGED <<form, jobVars, processVars, sideVars>>

ProcessHost == /\ form = "process"
               /\ ProcessStep
               /\ UNCHANGED <<form, runVars, jobVars, reviewVars, sideVars>>

ProcessAround == /\ form = "process"
                 /\ ProcessOutside
                 /\ UNCHANGED <<form, runVars, jobVars, reviewVars, sideVars>>

SnapshotHost == /\ form = "snapshot"
                /\ SnapshotStep
                /\ UNCHANGED <<form, runVars, jobVars, reviewVars, processVars, runtimeVars>>

SnapshotAround == /\ form = "snapshot"
                  /\ GitProcess
                  /\ UNCHANGED <<form, runVars, jobVars, reviewVars, processVars, runtimeVars>>

GuestProgram == /\ form = "guest"
                /\ RuntimeStep
                /\ UNCHANGED <<form, runVars, jobVars, reviewVars, processVars, snapshotVars>>

Returned == /\ pc \in {"return", "raised"} /\ ppc \in {"returned", "raised"}
            /\ spc \in {"returned", "raised"} /\ gpc \in {"exit0", "exit1"}

ClockNext == /\ ~Returned
             /\ DeadlinePasses
             /\ UNCHANGED <<form, runVars, jobVars, reviewVars, processVars, sideVars>>

HostNext == \/ FixtureHost \/ JobHost \/ ReviewHost \/ ProcessHost
            \/ SnapshotHost

Outside == \/ FixtureOutside \/ JobAround \/ ReviewOutside \/ ProcessAround
           \/ SnapshotAround \/ GuestProgram

Next == HostNext \/ Outside \/ ClockNext

(* The host's threads are scheduled and the clock runs; closing and        *)
(* reaping are bounded waits.  Guest, machine, model process, canceller    *)
(* and a child that is to read its task owe nothing: the guest's own       *)
(* program waits for its channel and its executor without a limit.         *)
Spec == Init /\ [][Next]_vars /\ WF_vars(HostNext) /\ WF_vars(ClockNext)

-----------------------------------------------------------------------------
(* Safety: type correctness of the composed state. *)
TypeOK ==
  /\ expired \in BOOLEAN /\ cancelRequested \in BOOLEAN /\ faults \in 0..MaxFaults
  /\ phase \in {"new", "loading", "ready", "exporting", "done"} /\ closed \in BOOLEAN
  /\ nextId \in Nat /\ loadOff \in 0..Chunks /\ exportOff \in 0..ReportChunks
  /\ conn \in {"open", "closed", "stuck"} /\ ended \in {"none", "ok", "error"}
  /\ op \in Operations \cup {None}
  /\ canc \in [Callers -> {"no", "flag", "done", "raised"}]
  /\ guest.incoming \in 0..Chunks /\ guest.sent \in 0..ReportChunks
  /\ vm \in {"none", "created", "starting", "running", "stopped", "gone"}
  /\ evidence \in {None, "passed", "failed"} /\ error \in BOOLEAN
  /\ requests \in 0..MaxRequests /\ lease \in BOOLEAN /\ stopped \in BOOLEAN
  /\ child \in {"idle", "working", "replied", "failed", "dead"}
  /\ revoke \in [Revokers -> {"no", "popped", "in", "clean", "raised"}]
  /\ effects \in [Ids -> Nat]
  /\ turn \in 0..MaxTurns /\ used \in 0..MaxToolCalls /\ seen \subseteq Ids
  /\ bundle \in [BundleFiles -> {"absent", "torn", "whole"}] /\ records \subseteq Artifacts
  /\ proc \in {"none", "running", "exited"} /\ said \in Seq(Lines)
  /\ git \in {"none", "running", "ok", "failed", "killed"} /\ kept \in 0..wrote
  /\ exported \subseteq Paths /\ emitted \in 0..MaxEvents + 1

(* Host and guest agree about the transfer whatever is lost,               *)
(* corrupted or cancelled between them.  The host never counts a chunk the *)
(* guest has not taken, the guest is at most one chunk ahead, "ready"      *)
(* means the whole archive and "done" the whole report                     *)
(* (tool_session.py against guest/fixture_transfer.py).  A fixture run     *)
(* that succeeded moved the whole archive in and the whole report out,     *)
(* destroyed the machine, and closed the session, unless somebody else     *)
(* cancelled it after the last chunk and has its transport to close        *)
(* (fixture_transfer.py, FixtureRun.succeeded).                            *)
Agreement ==
  /\ loadOff <= guest.incoming /\ guest.incoming <= loadOff + 1
  /\ exportOff <= guest.sent /\ guest.sent <= exportOff + 1
  /\ phase # "new" => guest.phase # "new"
  /\ phase \in {"ready", "exporting", "done"} => loadOff = Chunks
  /\ phase \in {"exporting", "done"} => guest.phase \in {"exporting", "done", "closed"}
  /\ phase = "done" => exportOff = ReportChunks

FixtureSuccess ==
  form = "fixture" /\ pc = "return" /\ Succeeded =>
    /\ vm = "gone" /\ op = None
    /\ conn = "closed" \/ canc["canceller"] \in {"flag", "raised"}
    /\ guest.incoming = Chunks /\ guest.sent = ReportChunks

(* Safety: a transfer is in step at every moment and complete at the end   *)
(* (tool_session.py, fixture_transfer.py).                                 *)
TransferIsWhole == Agreement /\ FixtureSuccess

(* Once close_client() or cancel_client() has returned, no request reaches  *)
(* the model, although infer() may have fetched the session and passed     *)
(* every check before (inference.py, process_inference.py).                *)
RevokedNeverDispatched ==
  [][child = "idle" /\ child' = "working" => \A who \in Revokers: ~Revoked(who)]_vars

(* A model process that could not be reaped was reported to somebody,      *)
(* whichever thread tried first; and a submission is returned only after   *)
(* transport and process are really gone (job_execution.py).               *)
CleanupIsHonest ==
  form = "job" /\ pc = "return" =>
    /\ child # "dead" /\ revoke["canceller"] \notin {"popped", "in"} =>
         unclean \/ revoke["canceller"] = "raised"
    /\ outcome = "submitted" => conn = "closed" /\ child = "dead"

(* Safety: revocation takes effect, and its failure is told: no dispatch   *)
(* after it, and no clean end over a live process (inference.py,           *)
(* process_inference.py, job_execution.py).                                *)
RevocationHolds == RevokedNeverDispatched /\ []CleanupIsHonest

(* Safety: a call id takes effect at most once in a run, whatever the      *)
(* model repeats, after the cancellation was requested the loop begins at  *)
(* most the one call whose guard it had passed, and an artifact the result *)
(* refers to was recorded and is on disk (executor.py, guest/artifacts.py).*)
CallsOnce ==
  /\ late <= 1
  /\ \A i \in Ids: effects[i] <= 1 /\ (effects[i] = 1 => i \in seen)
  /\ referenced => listed
  /\ listed => staged

(* A bundle that reads as ready for review is about                        *)
(* the workspace the guest had, completely exported, submitted, checked    *)
(* and replayed, and its machine is gone.  Wherever the host dies, a       *)
(* completion marker means that every file it vouches for is whole, and an *)
(* artifact record that its copy is (review_collection.py,                 *)
(* review_bundle.py, artifacts.py).                                        *)
ReadyIsEarned ==
  form = "review" /\ ReadBundle = "ready_for_review" =>
    /\ vm = "gone" /\ conn = "closed"
    /\ exportOff = ReportChunks /\ guest.sent = ReportChunks
    /\ report.about = workspace /\ workspace = "changed"
    /\ given = [result |-> "submitted", checks |-> "passed", replay |-> "matching"]

StoredIsWhole ==
  /\ bundle["complete"] # "absent" =>
       /\ \A f \in {"incomplete", "report", "manifest"}: bundle[f] = "whole"
       /\ report.state \in {"ready_for_review", "evidence_only"} => bundle["patch"] = "whole"
  /\ \A a \in records: copies[a] = "whole"

(* Safety: what is stored of a run is whole, and what is ready for review  *)
(* is what the run did (review_bundle.py, artifacts.py).                   *)
BundleIsHonest == ReadyIsEarned /\ StoredIsWhole

Count(line, seq) == Cardinality({i \in DOMAIN seq: seq[i] = line})

(* What export() returns is the whole approved                             *)
(* commit, whatever becomes of the Git processes and of the threads that   *)
(* read them: every entry of its tree, nothing else, each as approved      *)
(* (snapshot.py).                                                          *)
SnapshotIsApproved ==
  form = "snapshot" /\ spc = "returned" =>
    /\ commit
    /\ exported = approved
    /\ \A p \in Paths: tree[p] = IF p \in approved THEN "same" ELSE "absent"

(* run() returns only when the child has exited, and returns the worker's  *)
(* own result only when it was the only one, came with nothing unexpected, *)
(* and every event before the end was recorded (process.py).               *)
(* In the guest, one frame at most is a result, the last; an executor's    *)
(* own is there only for a task that named this workspace, after events    *)
(* that were all written whole (runtime.py).                               *)
ResultIsWhole ==
  /\ form = "process" /\ ppc = "returned" =>
       /\ proc = "exited"
       /\ Last(logged) = "worker_result_received" =>
            /\ taken = Len(said) /\ Count("result", said) = 1 /\ Count("garbage", said) = 0
            /\ Count("event", logged) = Count("event", said)
  /\ form = "guest" =>
       /\ gpc = "exit0" <=> frames # <<>> /\ Last(frames) \in ResultFrames
       /\ \A i \in DOMAIN frames: frames[i] \in ResultFrames => i = Len(frames)
       /\ frames # <<>> /\ Last(frames) \in FromExecutor \cup {"overlong"} =>
            bound /\ Len(frames) = emitted + 1 /\ Count("torn", frames) = 0

(* Safety: what comes back from a child process, through pipes and reader  *)
(* threads, is whole (snapshot.py, process.py, runtime.py).                *)
ResultsAreWhole == SnapshotIsApproved /\ ResultIsWhole

(* Liveness: every run on the host comes to an end whatever guest, model   *)
(* and Git do, provided that a child process takes its task from its       *)
(* stdin; the guest's program promises nothing (tool_session.py,           *)
(* process_inference.py, process.py, snapshot.py).                         *)
RunsReturn == form # "guest" /\ []<>(ppc # "task") => <>Returned
=============================================================================
