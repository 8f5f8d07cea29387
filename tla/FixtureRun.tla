----------------------------- MODULE FixtureRun ------------------------------
(***************************************************************************)
(* A caller-managed machine and the transfer of a fixed fixture through    *)
(* it: night_shifts/fixture_transfer.py (run_fixture_in_sandbox,           *)
(* transfer_fixture, _check_report) over a ToolSession.  The archive is    *)
(* night_shifts/snapshot.py's encoding of the approved files, made before  *)
(* the machine exists.  The provider's calls (create, start, status,       *)
(* destroy) succeed or raise; SandboxWorker has their effects on Hyper-V.  *)
(***************************************************************************)
EXTENDS ToolSession

VARIABLES
  pc,        \* where run_fixture_in_sandbox() or another owner of the machine is
  vm,        \* "none", "created", "starting", "running", "stopped", "gone"
  evidence,  \* what _check_report() made of the report: None, "passed", "failed"
  error,     \* the run's error is set
  cleanup    \* operations of its finally block that raised

fixtureVars == <<evidence, error, cleanup>>

FixtureInit ==
  /\ pc = "create" /\ vm = "none"
  /\ evidence = None /\ error = FALSE /\ cleanup = {}

FixtureRest == evidence = None /\ error = FALSE /\ cleanup = {}

(* An exception on its way to the finally block of the run. *)
RaiseTo(place) == pc' = place /\ error' = TRUE

(* Both finally blocks: transfer_fixture() closes the session, then the    *)
(* run closes it again, which is silent, and destroys the machine.         *)
Create ==
  /\ pc = "create"
  /\ \/ Works /\ vm' = "created" /\ pc' = "start" /\ UNCHANGED error
     \/ Fails /\ RaiseTo("return") /\ UNCHANGED vm
  /\ UNCHANGED <<sessionVars, evidence, cleanup>>

Start ==
  /\ pc = "start"
  /\ \/ Works /\ vm' = "starting" /\ pc' = "poll" /\ UNCHANGED error
     \/ Fails /\ RaiseTo("destroy") /\ UNCHANGED vm
  /\ UNCHANGED <<sessionVars, evidence, cleanup>>

(* The poll ends with the deadline, a machine that runs, or one that       *)
(* stopped.                                                                *)
Poll ==
  /\ pc = "poll"
  /\ IF expired \/ vm = "stopped" THEN RaiseTo("destroy") /\ Works
     ELSE \/ vm = "running" /\ pc' = "transfer" /\ Works /\ UNCHANGED error
          \/ Fails /\ RaiseTo("destroy")
  /\ UNCHANGED <<vm, sessionVars, evidence, cleanup>>

(* The machine boots, or stops by itself; a machine that stops takes the   *)
(* guest with it.                                                          *)
Boot ==
  /\ vm = "starting" /\ vm' = "running"
  /\ Works
  /\ UNCHANGED <<pc, sessionVars, evidence, error, cleanup>>

Stop ==
  /\ vm \in {"starting", "running"} /\ vm' = "stopped"
  /\ guest' = [guest EXCEPT !.phase = "closed"]
  /\ Fails
  /\ UNCHANGED <<pc, session, conn, canc, op, ended, wire, evidence, error, cleanup>>

(* The order of transfer_fixture(): hello, every chunk, finalize, export   *)
(* until the end.                                                          *)
NextOp == CASE phase = "new" -> "hello"
            [] phase = "loading" -> "load"
            [] phase = "ready" -> "finalize"
            [] OTHER -> "export"

TransferStep ==
  /\ pc = "transfer" /\ Idle /\ phase # "done"
  /\ BeginOp(NextOp, None)
  /\ Works
  /\ UNCHANGED <<pc, vm, evidence, error, cleanup>>

TransferGoesOn ==
  /\ pc = "transfer" /\ ended = "ok"
  /\ ended' = "none"
  /\ Works
  /\ UNCHANGED <<pc, vm, session, conn, canc, op, wire, guest, evidence, error, cleanup>>

TransferFails ==
  /\ pc = "transfer" /\ ended = "error"
  /\ RaiseTo("close") /\ ended' = "none"
  /\ Works
  /\ UNCHANGED <<vm, session, conn, canc, op, wire, guest, evidence, cleanup>>

(* _check_report(): the report names this archive, and says whether the    *)
(* fixture's text was as expected.  A guest of another build answers       *)
(* something else, which raises.                                           *)
CheckReport ==
  /\ pc = "transfer" /\ Idle /\ phase = "done"
  /\ \/ /\ evidence' \in {"passed", "failed"} /\ Works
        /\ pc' = "close" /\ UNCHANGED error
     \/ RaiseTo("close") /\ Fails /\ UNCHANGED evidence
  /\ UNCHANGED <<vm, sessionVars, cleanup>>

(* session.close() inside transfer_fixture(): when it raises, the evidence *)
(* is never returned.                                                      *)
CloseSession ==
  /\ pc = "close"
  /\ \/ CancelFlag("worker") /\ Works /\ UNCHANGED <<pc, error, evidence>>
     \/ CancelTransport("worker") /\ UNCHANGED <<pc, error, evidence>>
     \/ /\ canc["worker"] \in {"done", "raised"}
        /\ pc' = "destroy"
        /\ error' = (error \/ canc["worker"] = "raised")
        /\ evidence' = IF error' THEN None ELSE evidence
        /\ Works
        /\ UNCHANGED sessionVars
  /\ UNCHANGED <<vm, cleanup>>

(* provider.destroy(): its failure is reported beside the evidence. *)
Destroy ==
  /\ pc = "destroy"
  /\ pc' = "return"
  /\ \/ /\ Works
        /\ vm' = "gone" /\ guest' = [guest EXCEPT !.phase = "closed"]
        /\ UNCHANGED cleanup
     \/ Fails /\ cleanup' = {"sandbox destroy"} /\ UNCHANGED <<vm, guest>>
  /\ UNCHANGED <<session, conn, canc, op, ended, wire, evidence, error>>

(* FixtureRun.succeeded. *)
Succeeded == evidence = "passed" /\ ~error /\ cleanup = {}

FixtureStep ==
  /\ \/ Create \/ Start \/ Poll
     \/ TransferStep \/ TransferGoesOn \/ TransferFails \/ CheckReport
     \/ CloseSession \/ Destroy
  /\ UNCHANGED control

FixtureMachine == (Boot \/ Stop) /\ UNCHANGED control

(* Whoever made the session for the run (session_factory) may cancel it    *)
(* from another thread at any point of the transfer.                       *)
FixtureCancel ==
  /\ \/ pc \in {"transfer", "close"} /\ CancelFlag("canceller") /\ Works
     \/ CancelTransport("canceller")
  /\ UNCHANGED <<pc, vm, fixtureVars, control>>
=============================================================================
