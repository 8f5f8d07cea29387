---------------------------- MODULE ReviewBundle -----------------------------
(***************************************************************************)
(* What a worker run leaves on the host.                                   *)
(* night_shifts/review_collection.py (collect_after_worker) retrieves the  *)
(* final workspace over the ToolSession (review_retrieval.py,              *)
(* final_workspace.py), destroys the machine and has                       *)
(* night_shifts/review_bundle.py (ReviewBundleStore.collect, read) store   *)
(* the evidence with the patch of review_patch.py;                         *)
(* night_shifts/artifacts.py (ArtifactRetriever.collect) copies the        *)
(* artifacts of a run.                                                     *)
(*                                                                         *)
(* The host may die between any two writes and in the middle of one.  A    *)
(* workspace is "same" (as the base), "changed" or "unsafe" (its patch     *)
(* cannot be represented).  Sizes, names and digests are valid or not.     *)
(***************************************************************************)
EXTENDS FixtureRun, Sequences

CONSTANT Artifacts  \* references in the worker's result

VARIABLES
  given,     \* arguments of collect(): worker result, checks, replay receipt
  workspace, \* the guest's files: "same", "changed", "unsafe"
  final,     \* the retrieved workspace, or None
  diag,      \* diagnostics and cleanup status gathered so far
  bundle,    \* the job's directory: each file "absent", "torn" or "whole"
  report,    \* the state written into report.json and the workspace it is about
  copies, records  \* copied artifacts ("absent", "torn", "whole") and stored records

reviewVars == <<given, workspace, final, diag, bundle, report, copies, records>>

BundleFiles == {"incomplete", "report", "patch", "manifest", "complete"}

Results == {"submitted", "blocked", "missing"}
CheckResults == {"passed", "failed", "not_run"}
Receipts == {"none", "matching", "stale"}

ReviewRest ==
  /\ given = None /\ workspace = "same" /\ final = None
  /\ diag = [reasons |-> {}, clean |-> FALSE]
  /\ bundle = [f \in BundleFiles |-> "absent"] /\ report = None
  /\ copies = [a \in Artifacts |-> "absent"] /\ records = {}

(* The worker loop is over and the machine still exists. *)
ReviewInit ==
  /\ given \in [result: Results, checks: CheckResults, replay: Receipts]
  /\ workspace \in {"same", "changed", "unsafe"}
  /\ final = None
  /\ diag = [reasons |-> {}, clean |-> FALSE]
  /\ bundle = [f \in BundleFiles |-> "absent"] /\ report = None
  /\ copies = [a \in Artifacts |-> "absent"] /\ records = {}
  /\ pc = "retrieve" /\ vm = "running"
  /\ FixtureRest

Reason(why) == diag' = [diag EXCEPT !.reasons = @ \cup {why}]

Rest == UNCHANGED <<fixtureVars, given, workspace>>

-----------------------------------------------------------------------------
(* retrieve_final_workspace(): finalize, export to the end, decode. *)
RetrieveStep ==
  /\ pc = "retrieve" /\ Idle /\ phase # "done"
  /\ BeginOp(IF phase = "ready" THEN "finalize" ELSE "export", None)
  /\ Works
  /\ UNCHANGED <<pc, vm, final, diag, bundle, report, copies, records>> /\ Rest

RetrieveGoesOn ==
  /\ pc = "retrieve" /\ ended = "ok"
  /\ ended' = "none"
  /\ Works
  /\ UNCHANGED <<pc, vm, session, conn, canc, op, wire, guest, final, diag, bundle, report,
                 copies, records>>
  /\ Rest

RetrieveFails ==
  /\ pc = "retrieve" /\ ended = "error"
  /\ ended' = "none"
  /\ Reason("export failed") /\ pc' = "close_session"
  /\ Works
  /\ UNCHANGED <<vm, session, conn, canc, op, wire, guest, final, bundle, report, copies, records>>
  /\ Rest

(* decode_final_workspace() takes the whole canonical export or nothing. *)
Retrieved ==
  /\ pc = "retrieve" /\ Idle /\ phase = "done"
  /\ \/ final' = workspace /\ UNCHANGED diag /\ Works
     \/ Reason("export failed") /\ UNCHANGED final /\ Fails
  /\ pc' = "close_session"
  /\ UNCHANGED <<vm, sessionVars, bundle, report, copies, records>> /\ Rest

(* The close in retrieve_final_workspace()'s finally block, whose failure  *)
(* takes the retrieved files with it; the second one is silent.            *)
ReviewCloses ==
  /\ pc = "close_session"
  /\ \/ CancelFlag("worker") /\ Works /\ UNCHANGED <<pc, final, diag>>
     \/ CancelTransport("worker") /\ UNCHANGED <<pc, final, diag>>
     \/ /\ canc["worker"] \in {"done", "raised"}
        /\ pc' = "destroy_vm"
        /\ IF canc["worker"] = "raised" THEN final' = None /\ Reason("export failed")
           ELSE UNCHANGED <<final, diag>>
        /\ Works /\ UNCHANGED sessionVars
  /\ UNCHANGED <<vm, bundle, report, copies, records>> /\ Rest

ReviewDestroys ==
  /\ pc = "destroy_vm" /\ pc' = "mkdir"
  /\ \/ /\ vm' = "gone" /\ guest' = [guest EXCEPT !.phase = "closed"]
        /\ diag' = [diag EXCEPT !.clean = TRUE] /\ Works
     \/ Reason("destroy failed") /\ UNCHANGED <<vm, guest>> /\ Fails
  /\ UNCHANGED <<session, conn, canc, op, ended, wire, final, bundle, report, copies, records>>
  /\ Rest

-----------------------------------------------------------------------------
(* What collect() holds against a coding task; every part of it can also   *)
(* be the only one.                                                        *)
Reasons ==
  diag.reasons
  \cup (IF given.result = "missing" THEN {"result missing"} ELSE {})
  \cup (IF given.result # "submitted" THEN {"not submitted"} ELSE {})
  \cup (IF final = None THEN {"export missing"} ELSE {})
  \cup (IF final = "unsafe" THEN {"unrepresentable"} ELSE {})
  \cup (IF final \notin {"changed"} THEN {"no changes"} ELSE {})
  \cup (IF ~diag.clean THEN {"not clean"} ELSE {})
  \cup (IF given.checks # "passed" THEN {"checks"} ELSE {})
  \cup (IF given.replay # "matching" \/ final \notin {"same", "changed"} THEN {"replay"} ELSE {})

HasPatch == final \in {"same", "changed"}

(* A receipt comes from a runner that calls collect() itself;              *)
(* collect_after_worker() passes none, so what it stores is never ready.   *)
StateOf == IF Reasons = {} THEN "ready_for_review"
           ELSE IF HasPatch THEN "evidence_only" ELSE "incomplete"

(* Mutant: the marker is written with the manifest still to come. *)
MarkerBeforeManifest == <<"incomplete", "report", "patch", "complete", "manifest">>

(* The order of _write() in collect(). *)
WriteOrder == <<"incomplete", "report", "patch", "manifest", "complete">>

Unwritten == {i \in DOMAIN WriteOrder: bundle[WriteOrder[i]] # "whole"
                                          /\ (WriteOrder[i] = "patch" => HasPatch)}
NextFile == WriteOrder[CHOOSE i \in Unwritten: \A j \in Unwritten: i <= j]
Stored == Unwritten = {}

(* mkdir() is exclusive: a second collect() for the job raises. *)
MakeDirectory ==
  /\ pc = "mkdir"
  /\ \/ pc' = "write" /\ Works
     \/ pc' = "raised" /\ Fails
  /\ UNCHANGED <<vm, sessionVars, final, diag, bundle, report, copies, records>> /\ Rest

(* _write(): exclusive creation, content, fsync.  Between the first file   *)
(* and the second the evidence is examined, and may be refused.            *)
WriteFile ==
  /\ pc = "write" /\ ~Stored
  /\ \/ /\ bundle[NextFile] = "absent"
        /\ bundle' = [bundle EXCEPT ![NextFile] = "torn"]
        /\ UNCHANGED <<pc, report>> /\ Works
     \/ /\ bundle[NextFile] = "torn"
        /\ bundle' = [bundle EXCEPT ![NextFile] = "whole"]
        /\ report' = IF NextFile = "report" THEN [state |-> StateOf, about |-> final] ELSE report
        /\ UNCHANGED pc /\ Works
     \/ pc' = "raised" /\ UNCHANGED <<bundle, report>> /\ Fails
  /\ UNCHANGED <<vm, sessionVars, final, diag, copies, records>> /\ Rest

BundleSaved ==
  /\ pc = "write" /\ Stored /\ pc' = "return"
  /\ Works
  /\ UNCHANGED <<vm, sessionVars, final, diag, bundle, report, copies, records>> /\ Rest

(* The host dies. *)
HostDies ==
  /\ pc \in {"mkdir", "write", "copy"}
  /\ pc' = "raised"
  /\ Fails
  /\ UNCHANGED <<vm, sessionVars, final, diag, bundle, report, copies, records>> /\ Rest

(* read(): a verified bundle, one whose writing was interrupted, or an     *)
(* exception.                                                              *)
ReadBundle ==
  IF bundle["incomplete"] # "whole" THEN "raises"
  ELSE IF bundle["complete"] = "absent" THEN "incomplete"
  ELSE IF /\ \A f \in {"complete", "manifest", "report"}: bundle[f] = "whole"
          /\ bundle["patch"] # "torn"
       THEN report.state ELSE "raises"

-----------------------------------------------------------------------------
(* ArtifactRetriever.collect(): everything is read and checked first; then *)
(* each artifact is copied and recorded, and the copy whose record is      *)
(* refused is removed.  Earlier ones stay.                                 *)
CopyArtifact(a) ==
  /\ pc = "copy"
  /\ copies[a] \in {"absent", "torn"}
  /\ \A b \in Artifacts \ {a}: copies[b] = "absent" \/ b \in records
  /\ \/ /\ copies' = [copies EXCEPT ![a] = IF @ = "absent" THEN "torn" ELSE "whole"]
        /\ UNCHANGED pc /\ Works
     \/ pc' = "raised" /\ UNCHANGED copies /\ Fails
  /\ UNCHANGED <<vm, sessionVars, final, diag, bundle, report, records>> /\ Rest

RecordArtifact(a) ==
  /\ pc = "copy" /\ copies[a] = "whole" /\ a \notin records
  /\ \/ records' = records \cup {a} /\ UNCHANGED <<pc, copies>> /\ Works
     \/ /\ copies' = [copies EXCEPT ![a] = "absent"]
        /\ pc' = "raised" /\ UNCHANGED records /\ Fails
  /\ UNCHANGED <<vm, sessionVars, final, diag, bundle, report>> /\ Rest

ArtifactsCollected ==
  /\ pc = "copy" /\ records = Artifacts /\ pc' = "return"
  /\ Works
  /\ UNCHANGED <<vm, sessionVars, final, diag, bundle, report, copies, records>> /\ Rest

ReviewStep ==
  /\ \/ RetrieveStep \/ RetrieveGoesOn \/ RetrieveFails \/ Retrieved
     \/ ReviewCloses \/ ReviewDestroys
     \/ MakeDirectory \/ WriteFile \/ BundleSaved
     \/ \E a \in Artifacts: CopyArtifact(a) \/ RecordArtifact(a)
     \/ ArtifactsCollected
  /\ UNCHANGED control

ReviewCrash == HostDies /\ UNCHANGED control
=============================================================================
