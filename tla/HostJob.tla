------------------------------- MODULE HostJob -------------------------------
(***************************************************************************)
(* The worker loop on the host: night_shifts/executor.py                   *)
(* (MediatedModelExecutor.execute) inside night_shifts/job_execution.py    *)
(* (HostJobExecution.run), over a ToolSession whose guest serves           *)
(* GuestTools, and an Inference session.  Another thread may request the   *)
(* cancellation and then cancel the session and the model client.          *)
(*                                                                         *)
(* What a model says is chosen when it answers; which tool a call is for,  *)
(* and whether its arguments pass the host's own checks, when the call is  *)
(* made.  Summaries, usage and event payloads are left out; emit_event()   *)
(* may raise.                                                              *)
(***************************************************************************)
EXTENDS FixtureRun, Inference, GuestTools, Sequences, SequencesExt

CONSTANTS MaxTurns,      \* ModelExecutorLimits.max_turns
          MaxToolCalls,  \* ModelExecutorLimits.max_tool_calls
          MaxBatch       \* bound: calls in one response

ASSUME JobAssumption == {MaxTurns, MaxToolCalls, MaxBatch} \subseteq Nat \ {0}

VARIABLES
  turn, used,   \* execute(): the turn it is in, the tool calls used
  seen,         \* seen_calls
  batch,        \* the calls of the response that are still to be made
  referenced,   \* the artifact's reference is in artifact_references
  outcome,      \* of the WorkerResult: "none", "submitted", "blocked", "failed", ...
  unclean,      \* cleanup_status is FAILED
  late          \* history: tool calls begun after the cancellation was requested

loopVars == <<turn, used, seen, batch, referenced, outcome, unclean, late>>

LoopRest ==
  /\ turn = 0 /\ used = 0 /\ seen = {} /\ batch = <<>>
  /\ referenced = FALSE /\ outcome = "none" /\ unclean = FALSE /\ late = 0

JobInit == pc = "authorize" /\ vm = "running" /\ FixtureRest /\ LoopRest

(* A fresh call id is the least unused one: its name does not matter. *)
Responses ==
  {calls \in UNION {[1..n -> Ids]: n \in 1..MaxBatch}:
     \A n \in DOMAIN calls: \A i \in 1..calls[n] - 1:
        i \in seen \/ \E m \in 1..n - 1: calls[m] = i}

LoopRests == UNCHANGED <<vm, fixtureVars, guestVars>>

(* A WorkerResult, or an exception that run() turns into one. *)
End(result) == outcome' = result /\ pc' = "stop_session"
Raises == End(IF StopOutcome = "none" THEN "failed" ELSE StopOutcome)

-----------------------------------------------------------------------------
(* run(): the frozen policy against task, session and client. *)
AuthorizeJob ==
  /\ pc = "authorize"
  /\ \/ Authorized /\ pc' = "turn" /\ UNCHANGED outcome /\ Works
     \/ ~Authorized /\ Raises /\ Works
     \/ End("failed") /\ Fails
  /\ UNCHANGED <<sessionVars, inferenceVars, turn, used, seen, batch, referenced,
                 unclean, late>>
  /\ LoopRests

(* A turn: the limit, the guard, an event, and the request. *)
BeginTurn ==
  /\ pc = "turn"
  /\ \/ /\ turn = MaxTurns /\ End("failed") /\ Works
        /\ UNCHANGED <<inferenceVars, turn>>
     \/ /\ turn < MaxTurns /\ StopOutcome # "none" /\ End(StopOutcome) /\ Works
        /\ UNCHANGED <<inferenceVars, turn>>
     \/ /\ turn < MaxTurns /\ StopOutcome = "none"
        /\ turn' = turn + 1
        /\ Fetch /\ pc' = "infer" /\ UNCHANGED outcome
     \/ /\ turn < MaxTurns /\ StopOutcome = "none" /\ Raises /\ Fails
        /\ UNCHANGED <<inferenceVars, turn>>
  /\ UNCHANGED <<sessionVars, used, seen, batch, referenced, unclean, late>>
  /\ LoopRests

InferenceFails ==
  /\ pc = "infer" /\ inf = "raised"
  /\ Raises /\ inf' = "idle"
  /\ Works
  /\ UNCHANGED <<sessionVars, modelVars, turn, used, seen, batch, referenced,
                 unclean, late>>
  /\ LoopRests

(* Mutant: only duplicates within the response are refused. *)
ValidAlone(calls) == IsInjective(calls)

(* _valid_response(): no call id twice, in this response or in the run. *)
ValidResponse(calls) == IsInjective(calls) /\ Range(calls) \cap seen = {}

(* Mutant: the limit is checked against the calls made before. *)
LimitAhead(calls) == used <= MaxToolCalls

WithinLimit(calls) == used + Len(calls) <= MaxToolCalls

(* After the guard: calls within the limit, or the end of the loop. *)
ModelAnswers ==
  /\ pc = "infer" /\ inf = "ok"
  /\ inf' = "idle"
  /\ Works
  /\ \/ StopOutcome # "none" /\ End(StopOutcome) /\ UNCHANGED batch
     \/ /\ StopOutcome = "none"
        /\ \/ \E calls \in Responses:
                IF ValidResponse(calls) /\ WithinLimit(calls)
                THEN pc' = "call" /\ batch' = calls /\ UNCHANGED outcome
                ELSE End("failed") /\ UNCHANGED batch
           \/ \E result \in {"submitted", "blocked", "failed"}: End(result) /\ UNCHANGED batch
  /\ UNCHANGED <<sessionVars, modelVars, turn, used, seen, referenced, unclean, late>>
  /\ LoopRests

(* The guard before a call. *)
NextCall ==
  /\ pc = "call"
  /\ IF batch = <<>> THEN pc' = "turn" /\ UNCHANGED <<outcome, seen>>
     ELSE IF StopOutcome # "none" THEN End(StopOutcome) /\ UNCHANGED seen
     ELSE pc' = "invoke" /\ seen' = seen \cup {Head(batch)} /\ UNCHANGED outcome
  /\ Works
  /\ UNCHANGED <<sessionVars, inferenceVars, turn, used, batch, referenced, unclean, late>>
  /\ LoopRests

(* _invoke(): a call that the host refuses is an error result without an   *)
(* exchange; any other goes to the guest.                                  *)
RefusedByHost ==
  /\ pc = "invoke" /\ Idle
  /\ pc' = "result"
  /\ Works
  /\ UNCHANGED <<sessionVars, inferenceVars, turn, used, seen, batch, referenced, outcome,
                 unclean, late>>
  /\ LoopRests

SendCall ==
  /\ pc = "invoke" /\ Idle
  /\ BeginOp("tool", Head(batch))
  /\ late' = IF cancelRequested THEN late + 1 ELSE late
  /\ pc' = "exchange"
  /\ Works
  /\ UNCHANGED <<inferenceVars, turn, used, seen, batch, referenced, outcome, unclean>>
  /\ LoopRests

(* The guest of a job, which is not in this repository, hands the call to  *)
(* GuestWorkerTools and replies with its result.                           *)
GuestRunsTool ==
  /\ wire # None /\ wire.dir = "request" /\ wire.name = "tool"
  /\ guest.phase = "ready" /\ wire.id = guest.expects
  /\ \E tool \in Tools, ok \in BOOLEAN:
       /\ Invoke(wire.arg, tool, ok)
       /\ wire' = [dir |-> "reply", kind |-> "ok", id |-> wire.id, flag |-> ok, tool |-> tool]
  /\ guest' = [guest EXCEPT !.expects = @ + 1]
  /\ UNCHANGED <<session, conn, canc, op, ended, pc, vm, fixtureVars, inferenceVars, loopVars>>

(* The result reaches the executor. *)
ToolResult ==
  /\ op # None /\ op.name = "tool"
  /\ SettleOp
  /\ referenced' = (referenced \/ (wire.flag /\ wire.tool = "artifact"))
  /\ Works
  /\ UNCHANGED <<pc, inferenceVars, turn, used, seen, batch, outcome, unclean, late>>
  /\ LoopRests

(* An exception of the session is "worker tool provider failed". *)
CallEnds ==
  /\ pc = "exchange" /\ ended # "none"
  /\ ended' = "none"
  /\ IF ended = "ok" THEN pc' = "result" /\ UNCHANGED outcome ELSE End("failed")
  /\ Works
  /\ UNCHANGED <<session, conn, canc, op, wire, guest, inferenceVars, turn, used, seen, batch,
                 referenced, unclean, late>>
  /\ LoopRests

(* The guard after a call, and the event about it. *)
AfterCall ==
  /\ pc = "result"
  /\ IF StopOutcome # "none" THEN End(StopOutcome) /\ UNCHANGED <<used, batch>> /\ Works
     ELSE \/ /\ used' = used + 1 /\ batch' = Tail(batch)
             /\ pc' = "call" /\ UNCHANGED outcome /\ Works
          \/ Raises /\ UNCHANGED <<used, batch>> /\ Fails
  /\ UNCHANGED <<sessionVars, inferenceVars, turn, seen, referenced, unclean, late>>
  /\ LoopRests

-----------------------------------------------------------------------------
(* run()'s cleanup: the session, then the model client, both always. *)
StopSession ==
  /\ pc = "stop_session"
  /\ \/ CancelFlag("worker") /\ Works /\ UNCHANGED pc
     \/ CancelTransport("worker") /\ UNCHANGED pc
     \/ /\ canc["worker"] \in {"done", "raised"}
        /\ pc' = "stop_model" /\ Works /\ UNCHANGED sessionVars
  /\ UNCHANGED <<inferenceVars, loopVars>>
  /\ LoopRests

StopModel ==
  /\ pc = "stop_model"
  /\ \/ Revoke("worker") /\ UNCHANGED pc
     \/ Revoked("worker") /\ pc' = "conclude" /\ Works /\ UNCHANGED inferenceVars
  /\ UNCHANGED <<sessionVars, loopVars>>
  /\ LoopRests

(* A cleanup that raised makes the run a failure; a cancellation that came *)
(* in after the last guard overrides a submission, and nothing else.       *)
Conclude ==
  /\ pc = "conclude" /\ pc' = "return"
  /\ IF "raised" \in {canc["worker"], revoke["worker"]}
     THEN outcome' = "failed" /\ unclean' = TRUE
     ELSE /\ UNCHANGED unclean
          /\ outcome' = IF outcome = "submitted" /\ cancelRequested THEN "cancelled" ELSE outcome
  /\ Works
  /\ UNCHANGED <<sessionVars, inferenceVars, turn, used, seen, batch, referenced, late>>
  /\ LoopRests

(* The canceller, one thread: the request first, then the session and the  *)
(* client in either order.                                                 *)
RequestCancel ==
  /\ pc # "return" /\ ~cancelRequested
  /\ cancelRequested' = TRUE
  /\ Works
  /\ UNCHANGED <<expired, pc, sessionVars, inferenceVars, loopVars>>
  /\ LoopRests

CancellerActs ==
  /\ cancelRequested
  /\ \/ /\ \/ revoke["canceller"] \notin {"popped", "in"} /\ CancelFlag("canceller") /\ Works
           \/ CancelTransport("canceller")
        /\ UNCHANGED inferenceVars
     \/ canc["canceller"] # "flag" /\ Revoke("canceller") /\ UNCHANGED sessionVars
  /\ UNCHANGED <<control, pc, loopVars>>
  /\ LoopRests

JobStep ==
  \/ /\ \/ AuthorizeJob \/ BeginTurn \/ InferenceFails \/ ModelAnswers
        \/ NextCall \/ RefusedByHost \/ SendCall \/ ToolResult
        \/ CallEnds \/ AfterCall
        \/ StopSession \/ StopModel \/ Conclude
     /\ UNCHANGED control
  \/ CancellerActs

JobOutside == RequestCancel \/ (GuestRunsTool /\ UNCHANGED control)
=============================================================================
