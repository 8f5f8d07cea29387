---------------------------- MODULE NightJobProofs ----------------------------
(* Theorems about the job form of NightWorker and about what the child     *)
(* processes hand back, for any numbers of turns, calls, requests, lines,  *)
(* events, paths and faults.  The session is that of NightWorkerProofs.    *)
EXTENDS NightWorkerProofs

-----------------------------------------------------------------------------
(* A job: HostJob. *)

Looping == {"authorize", "turn", "infer", "call", "invoke", "exchange", "result"}
Stopping == {"stop_session", "stop_model", "conclude", "return"}
Making == {"call", "invoke", "exchange", "result"}

LoopTyped ==
  /\ pc \in Looping \cup Stopping
  /\ turn \in 0..MaxTurns /\ used \in 0..MaxToolCalls /\ seen \subseteq Ids /\ batch \in Seq(Ids)
  /\ effects \in [Ids -> 0..1]
  /\ late \in 0..1
  /\ outcome \in {"none", "submitted", "blocked", "failed", "cancelled", "timed_out"}

(* Where the parts of a job are. *)
JobPlaces ==
  /\ pc # "exchange" => op = None /\ ended = "none"
  /\ pc = "exchange" /\ op # None => op.name = "tool" /\ op.arg = Head(batch)
  /\ pc \in Looping \ {"exchange"} \/ ended = "ok" => wire = None
  /\ pc = "infer" <=> inf # "idle"
  /\ outcome = "none" <=> pc \in Looping

(* Calls that are made have been seen, calls to be made have not. *)
BatchFits ==
  pc \in Making =>
    /\ IsInjective(batch) /\ used + Len(batch) <= MaxToolCalls
    /\ pc = "call" => \A i \in 1..Len(batch) : batch[i] \notin seen
    /\ pc # "call" =>
         batch # <<>> /\ batch[1] \in seen /\ \A i \in 2..Len(batch) : batch[i] \notin seen

(* The call that is made, and the one on the line, had no effect yet. *)
EffectsFit ==
  /\ \A i \in Ids : effects[i] = 1 => i \in seen
  /\ pc = "invoke" \/ (pc = "exchange" /\ At("send")) => effects[batch[1]] = 0
  /\ wire # None /\ wire.dir = "request" =>
       wire.name = "tool" /\ wire.arg \in seen /\ effects[wire.arg] = 0

OneIsLate ==
  late > 0 => cancelRequested /\ pc \notin Looping \ {"exchange", "result"}

ArtifactsFit ==
  /\ listed => staged
  /\ referenced => listed
  /\ /\ At("wait") \/ At("settle")
     /\ wire # None /\ wire.dir = "reply" /\ wire.kind = "ok" /\ wire.flag /\ wire.tool = "artifact"
     => listed

CallsInv == form = "job" =>
  LoopTyped /\ JobPlaces /\ BatchFits /\ EffectsFit /\ OneIsLate /\ ArtifactsFit

ModelTyped ==
  /\ requests \in 0..MaxRequests /\ lease \in BOOLEAN /\ stopped \in BOOLEAN
  /\ inf \in {"idle", "fetched", "send", "wait", "parse", "close", "closing", "ok", "raised"}
  /\ child \in {"idle", "working", "replied", "failed", "dead"}
  /\ revoke \in [Revokers -> {"no", "popped", "in", "clean", "raised"}]
  /\ closer \in Revokers \cup {"nobody"}

(* Who has begun to revoke the model, and how far it got. *)
RevocationFits ==
  /\ lease => \A r \in Revokers : revoke[r] = "no"
  /\ ~lease => \E r \in Revokers : revoke[r] # "no"
  /\ revoke["worker"] # "no" => pc \in {"stop_model", "conclude", "return"}
  /\ pc \in {"conclude", "return"} => Revoked("worker")
  /\ revoke["canceller"] # "no" => cancelRequested
  /\ \A r \in Revokers : revoke[r] = "in" => closer = r
  /\ inf = "closing" => closer = "worker"
  /\ closer # "nobody" => stopped /\ ~unreaped

ModelFits ==
  /\ ~stopped => ~unreaped
  /\ stopped /\ closer = "nobody" => pipe = "closed" /\ (child = "dead" \/ unreaped)
  /\ Revoked("canceller") => pipe = "closed" \/ revoke["worker"] # "no"
  /\ ~lease /\ (\A r \in Revokers : revoke[r] \in {"no", "clean"}) => child = "dead"
  /\ pc = "return" /\ revoke["worker"] = "raised" => unclean

(* A submission is over a session that was open until the run closed it. *)
SubmissionFits ==
  /\ \A r \in Callers : canc[r] # "no" => closed
  /\ canc["worker"] # "no" => pc \in Stopping
  /\ pc \in Stopping \ {"stop_session"} => canc["worker"] \in {"done", "raised"}
  /\ canc["canceller"] # "no" => cancelRequested
  /\ pc \in Looping /\ ~cancelRequested => (closed => At("closing") \/ ended = "error")
  /\ outcome = "submitted" /\ ~cancelRequested =>
       /\ canc["worker"] = "no" => ~closed
       /\ canc["worker"] = "done" => conn = "closed"
  /\ outcome = "submitted" /\ pc = "return" =>
       ~cancelRequested /\ conn = "closed" /\ child = "dead"

ModelInv == form = "job" => ModelTyped /\ RevocationFits /\ ModelFits /\ SubmissionFits

NoModel == form # "job" => child = "dead"

-----------------------------------------------------------------------------
(* A worker process: ProcessWorker. *)

HostEvents == {"worker_cancelled", "worker_timed_out", "worker_result_received", "worker_failed",
               "worker_protocol_error"}

(* The places of a line among the first k of a sequence. *)
LinesOf(line, seq, k) == {i \in 1..k : seq[i] = line}

ProcessTyped ==
  /\ proc \in {"none", "running", "exited"} /\ said \in Seq(Lines)
  /\ pumped \in 0..Len(said) /\ taken \in 0..pumped
  /\ logged \in Seq({"event"} \cup HostEvents)
  /\ ppc \in {"spawn", "task", "loop", "record", "look", "returned", "raised"} \cup DOMAIN HostEvent
  /\ got \in BOOLEAN

TakenFits ==
  /\ ppc \in DOMAIN HostEvent \cup {"returned"} => proc = "exited"
  /\ ppc = "spawn" => proc = "none" /\ said = <<>>
  /\ ppc \in {"task", "loop", "record", "look"} => proc # "none"
  /\ pumpDone => proc = "exited" /\ pumped = Len(said)
  /\ eof => pumpDone /\ taken = pumped

(* Nothing unexpected was taken, every event that was is recorded or about *)
(* to be, and a result was taken at most once.                             *)
Counted ==
  /\ LinesOf("garbage", said, taken) = {}
  /\ Cardinality(LinesOf("result", said, taken)) = IF got THEN 1 ELSE 0
  /\ Cardinality(LinesOf("event", said, taken)) =
       Cardinality(LinesOf("event", logged, Len(logged))) + IF ppc = "record" THEN 1 ELSE 0

ResultFits ==
  /\ ppc \in {"spawn", "task", "loop", "record", "look", "note_received"} => Counted
  /\ ppc = "note_received" => got /\ eof
  /\ ppc = "returned" =>
       /\ logged # <<>>
       /\ logged[Len(logged)] = "worker_result_received" => Counted /\ got /\ taken = Len(said)

ProcessInv == form = "process" => ProcessTyped /\ TakenFits /\ ResultFits

-----------------------------------------------------------------------------
(* The guest's program: GuestRuntime. *)

FramesTyped ==
  /\ gpc \in {"open", "read", "validate", "start", "execute", "result", "fallback", "exit0", "exit1"}
  /\ bound \in BOOLEAN /\ emitted \in 0..MaxEvents + 1
  /\ answer \in {"none", "task failed"} \cup FromExecutor
  /\ frames \in Seq({"event", "torn"} \cup ResultFrames)

Sound == bound /\ Len(frames) = emitted /\ \A i \in 1..Len(frames) : frames[i] = "event"

FramesFit ==
  /\ gpc \in {"open", "read", "validate"} => frames = <<>> /\ emitted = 0
  /\ gpc \in {"start", "execute", "fallback"} => Sound /\ emitted <= MaxEvents
  /\ gpc = "result" => answer # "none" /\ (answer \in FromExecutor => Sound)
  /\ gpc # "exit0" => \A i \in 1..Len(frames) : frames[i] \notin ResultFrames
  /\ gpc = "exit0" =>
       /\ frames # <<>> /\ frames[Len(frames)] \in ResultFrames
       /\ \A i \in 1..Len(frames) - 1 : frames[i] \notin ResultFrames
       /\ frames[Len(frames)] # "task failed" =>
            bound /\ Len(frames) = emitted + 1 /\ \A i \in 1..Len(frames) - 1 : frames[i] = "event"

FramesInv == form = "guest" => FramesTyped /\ FramesFit

-----------------------------------------------------------------------------
(* The export of a commit: SnapshotExport. *)

SnapshotTyped ==
  /\ tree \in [Paths -> Kinds] /\ approved \subseteq Paths /\ exported \subseteq Paths /\ entries \subseteq Paths
  /\ spc \in {"type", "list", "entry", "blob", "encode", "returned", "raised"}
  /\ git \in {"none", "running", "ok", "failed", "killed"} /\ inherits \in BOOLEAN
  /\ drain \in {"reading", "eof", "stopped"} \X {"reading", "eof", "stopped"}
  /\ wrote \in Nat /\ kept \in 0..wrote

PipesFit ==
  /\ Calling => wrote <= Output
  /\ spc \in {"entry", "encode", "returned"} => git = "none" /\ wrote = 0
  /\ Calling /\ git = "ok" => wrote = Output
  /\ git # "none" /\ drain[1] = "eof" => kept = wrote /\ git # "running"

EntriesFit ==
  /\ spc \in {"list", "entry", "blob", "encode", "returned"} => commit
  /\ spc \in {"type", "list"} => exported = {}
  /\ spc \in {"type", "list", "entry", "blob", "encode", "returned"} =>
       \A p \in exported : p \in approved /\ tree[p] = "same"
  /\ spc \in {"entry", "blob", "encode", "returned"} => Tree = exported \cup entries
  /\ spc = "blob" => entries # {} /\ NextPath \in approved
  /\ spc \in {"encode", "returned"} => entries = {}
  /\ spc = "returned" => exported = approved

SnapshotInv == form = "snapshot" => SnapshotTyped /\ PipesFit /\ EntriesFit
-----------------------------------------------------------------------------
(* The calls of a job. *)

LEMMA JobLimits ==
  /\ MaxTurns \in Nat /\ MaxToolCalls \in Nat /\ MaxRequests \in Nat
BY JobAssumption, InferenceAssumption

LEMMA EndsHow ==
  ASSUME TRUE
  PROVE  StopOutcome \in {"none", "cancelled", "timed_out"} /\ (cancelRequested => StopOutcome = "cancelled")
BY DEF StopOutcome

(* The first of the calls, and those after it. *)
LEMMA FirstCall ==
  ASSUME NEW s \in Seq(Ids), s # <<>>
  PROVE  /\ Head(s) = s[1] /\ Head(s) \in Ids /\ Len(s) \in Nat /\ Len(s) >= 1 /\ 1 \in 1..Len(s)
         /\ Tail(s) \in Seq(Ids) /\ Len(Tail(s)) = Len(s) - 1
         /\ \A i \in 1..Len(Tail(s)) : Tail(s)[i] = s[i + 1]
<1>1. Len(s) \in Nat /\ Len(s) # 0
  BY EmptySeq
<1>2. Head(s) = s[1]
  OBVIOUS
<1> QED BY <1>1, <1>2, HeadTailProperties

SameSession == UNCHANGED <<op, ended, wire>>
SameGuest == UNCHANGED guestVars

LEMMA CallsSame ==
  ASSUME CallsInv, form' = form, form = "job", SameSession, SameGuest,
         UNCHANGED <<pc, turn, used, seen, batch, referenced, outcome, late>>,
         inf' = "idle" <=> inf = "idle", cancelRequested => cancelRequested'
  PROVE  CallsInv'
<1> USE DEF CallsInv
<1>1. LoopTyped' /\ JobPlaces' /\ BatchFits'
  BY DEF LoopTyped, JobPlaces, BatchFits, SameSession, SameGuest, guestVars, Looping, Stopping, Making
<1>2. EffectsFit' /\ OneIsLate' /\ ArtifactsFit'
  BY DEF EffectsFit, OneIsLate, ArtifactsFit, SameSession, SameGuest, guestVars, At
<1> QED BY <1>1, <1>2

(* The steps of the loop that leave session and guest alone. *)
LEMMA LoopKeeps ==
  ASSUME CallsInv, form' = form, form = "job", cancelRequested' = cancelRequested,
         \/ AuthorizeJob \/ BeginTurn \/ InferenceFails \/ ModelAnswers
         \/ NextCall \/ RefusedByHost \/ AfterCall
  PROVE  CallsInv'
<1> USE DEF CallsInv
<1> USE JobLimits
<1>1. /\ SameSession /\ SameGuest /\ UNCHANGED late /\ referenced' = referenced
      /\ op = None /\ ended = "none" /\ pc \in Looping \ {"exchange"} /\ wire = None
  BY DEF AuthorizeJob, BeginTurn, InferenceFails, ModelAnswers, NextCall, RefusedByHost, AfterCall,
     SameSession, SameGuest, LoopRests, JobPlaces, sessionVars, channel, session, Looping
<1>2. /\ pc' \in Looping \cup Stopping /\ pc' # "exchange"
      /\ outcome' \in {"none", "submitted", "blocked", "failed", "cancelled", "timed_out"}
      /\ outcome' = "none" <=> pc' \in Looping
      /\ pc' = "infer" <=> inf' # "idle"
      /\ pc' \in Stopping => pc' = "stop_session"
  <2>1. ASSUME NEW result, End(result), result \in {"submitted", "blocked", "failed", "cancelled", "timed_out"}
        PROVE  pc' = "stop_session" /\ outcome' \in {"submitted", "blocked", "failed", "cancelled", "timed_out"}
    BY <2>1 DEF End
  <2>2. ASSUME Raises
        PROVE  pc' = "stop_session" /\ outcome' \in {"submitted", "blocked", "failed", "cancelled", "timed_out"}
    BY <2>2, EndsHow DEF End, Raises
  <2>3. \/ pc' = "stop_session" /\ outcome' \in {"submitted", "blocked", "failed", "cancelled", "timed_out"}
        \/ pc' \in Looping \ {"exchange"} /\ outcome' = outcome
    <3>1. CASE AuthorizeJob
      BY <2>1, <2>2, <3>1 DEF AuthorizeJob, Looping
    <3>2. CASE BeginTurn
      BY <2>1, <2>2, <3>2, EndsHow DEF BeginTurn, Looping
    <3>3. CASE InferenceFails
      BY <2>1, <2>2, <3>3 DEF InferenceFails, Looping
    <3>4. CASE ModelAnswers
      BY <2>1, <3>4, EndsHow DEF ModelAnswers, Looping
    <3>5. CASE NextCall
      BY <2>1, <3>5, EndsHow DEF NextCall, Looping
    <3>6. CASE RefusedByHost \/ AfterCall
      BY <2>1, <2>2, <3>6, EndsHow DEF RefusedByHost, AfterCall, Looping
    <3> QED BY <3>1, <3>2, <3>3, <3>4, <3>5, <3>6
  <2>4. outcome = "none"
    BY <1>1 DEF JobPlaces
  <2>5. pc' = "infer" <=> inf' # "idle"
    BY DEF AuthorizeJob, BeginTurn, InferenceFails, ModelAnswers, NextCall, RefusedByHost, AfterCall, JobPlaces,
           End, Raises, Fetch, inferenceVars
  <2>6. "stop_session" \in Stopping /\ Looping \cap Stopping = {}
    BY DEF Looping, Stopping
  <2> QED BY <2>3, <2>4, <2>5, <2>6
<1>3. turn' \in 0..MaxTurns /\ seen' \subseteq Ids /\ batch' \in Seq(Ids) /\ used' \in 0..MaxToolCalls
  <2>1. turn' \in 0..MaxTurns
    BY DEF AuthorizeJob, BeginTurn, InferenceFails, ModelAnswers, NextCall, RefusedByHost, AfterCall, LoopTyped
  <2>2. seen' \subseteq Ids
    BY FirstCall
    DEF AuthorizeJob, BeginTurn, InferenceFails, ModelAnswers, NextCall, RefusedByHost, AfterCall, LoopTyped
  <2>3. batch' \in Seq(Ids)
    BY FirstCall, ResponsesAreCalls
    DEF AuthorizeJob, BeginTurn, InferenceFails, ModelAnswers, NextCall, RefusedByHost, AfterCall, LoopTyped,
        BatchFits, Making
  <2>4. used' \in 0..MaxToolCalls
    <3>1. CASE AfterCall /\ used' = used + 1
      <4>1. batch \in Seq(Ids) /\ batch # <<>> /\ used + Len(batch) <= MaxToolCalls /\ used \in 0..MaxToolCalls
        BY <3>1 DEF AfterCall, BatchFits, Making, LoopTyped
      <4>2. Len(batch) \in Nat /\ Len(batch) >= 1
        BY <4>1, FirstCall
      <4> QED BY <3>1, <4>1, <4>2
    <3>2. CASE used' = used
      BY <3>2 DEF LoopTyped
    <3> QED BY <3>1, <3>2
        DEF AuthorizeJob, BeginTurn, InferenceFails, ModelAnswers, NextCall, RefusedByHost, AfterCall
  <2> QED BY <2>1, <2>2, <2>3, <2>4
<1>4. LoopTyped'
  BY <1>1, <1>2, <1>3 DEF LoopTyped, SameGuest, guestVars
<1>5. JobPlaces'
  BY <1>1, <1>2 DEF JobPlaces, SameSession
<1>6. BatchFits'
  <2>1. CASE ModelAnswers /\ pc' = "call"
    <3>1. PICK calls \in Responses : ValidResponse(calls) /\ WithinLimit(calls) /\ batch' = calls
      BY <2>1 DEF ModelAnswers, End
    <3>2. calls \in Seq(Ids) /\ DOMAIN calls = 1..Len(calls)
      BY ResponsesAreCalls
    <3>3. used' = used /\ seen' = seen
      BY <2>1 DEF ModelAnswers
    <3>4. \A i \in 1..Len(calls) : calls[i] \notin seen
      BY <3>1, <3>2 DEF ValidResponse, Range
    <3> QED BY <2>1, <3>1, <3>3, <3>4 DEF ValidResponse, WithinLimit, BatchFits
  <2>2. CASE NextCall /\ pc' = "invoke"
    <3>1. /\ batch # <<>> /\ batch \in Seq(Ids) /\ seen' = seen \cup {Head(batch)}
          /\ UNCHANGED <<used, batch>> /\ pc = "call"
      BY <2>2 DEF NextCall, End, LoopTyped
    <3>2. /\ IsInjective(batch) /\ used + Len(batch) <= MaxToolCalls
          /\ \A i \in 1..Len(batch) : batch[i] \notin seen
      BY <3>1 DEF BatchFits, Making
    <3>3. \A i \in 2..Len(batch) : batch[i] # batch[1]
      <4>1. DOMAIN batch = 1..Len(batch) /\ Len(batch) \in Nat /\ 1 \in 1..Len(batch)
        BY <3>1, FirstCall
      <4>2. ASSUME NEW i \in 2..Len(batch) PROVE i \in DOMAIN batch /\ i # 1 /\ 1 \in DOMAIN batch
        BY <4>1
      <4> QED BY <3>2, <4>2 DEF IsInjective
    <3>4. Head(batch) = batch[1] /\ Len(batch) \in Nat /\ 2..Len(batch) \subseteq 1..Len(batch)
      BY <3>1, FirstCall
    <3> QED BY <2>2, <3>1, <3>2, <3>3, <3>4 DEF BatchFits
  <2>3. CASE AfterCall /\ pc' = "call"
    <3>1. /\ batch # <<>> /\ batch \in Seq(Ids) /\ UNCHANGED seen /\ pc = "result"
          /\ used' = used + 1 /\ batch' = Tail(batch) /\ used \in 0..MaxToolCalls
      BY <2>3 DEF AfterCall, End, Raises, LoopTyped, BatchFits, Making
    <3>2. /\ IsInjective(batch) /\ used + Len(batch) <= MaxToolCalls
          /\ \A i \in 2..Len(batch) : batch[i] \notin seen
      BY <3>1 DEF BatchFits, Making
    <3>3. /\ Len(batch) \in Nat /\ Len(batch') = Len(batch) - 1 /\ batch' \in Seq(Ids)
          /\ \A i \in 1..Len(batch') : batch'[i] = batch[i + 1]
      BY <3>1, FirstCall
    <3>4. used' + Len(batch') <= MaxToolCalls
      BY <3>1, <3>2, <3>3
    <3>5. \A i \in 1..Len(batch') : batch'[i] \notin seen
      <4>1. \A i \in 1..Len(batch') : i + 1 \in 2..Len(batch)
        BY <3>3
      <4> QED BY <3>2, <3>3, <4>1
    <3>6. IsInjective(batch')
      <4>1. DOMAIN batch = 1..Len(batch) /\ DOMAIN batch' = 1..Len(batch')
        BY <3>1, <3>3
      <4>2. \A i \in 1..Len(batch') : i + 1 \in 1..Len(batch)
        BY <3>3
      <4>3. \A i, j \in 1..Len(batch') : i + 1 = j + 1 => i = j
        BY <3>3
      <4> QED BY <3>2, <3>3, <4>1, <4>2, <4>3 DEF IsInjective
    <3> QED BY <2>3, <3>1, <3>4, <3>5, <3>6 DEF BatchFits
  <2>4. CASE RefusedByHost
    BY <2>4 DEF RefusedByHost, BatchFits, Making
  <2>5. CASE pc' \notin Making
    BY <2>5 DEF BatchFits
  <2>6. pc' \in Making => \/ ModelAnswers /\ pc' = "call"
                          \/ NextCall /\ pc' = "invoke"
                          \/ AfterCall /\ pc' = "call"
                          \/ RefusedByHost
    <3>1. AuthorizeJob \/ BeginTurn \/ InferenceFails => pc' \notin Making
      BY DEF AuthorizeJob, BeginTurn, InferenceFails, End, Raises, Making
    <3>2. ModelAnswers \/ AfterCall => (pc' \in Making => pc' = "call")
      BY DEF ModelAnswers, AfterCall, End, Raises, Making
    <3>3. NextCall => (pc' \in Making => pc' = "invoke")
      BY DEF NextCall, End, Making
    <3> QED BY <3>1, <3>2, <3>3
  <2> QED BY <2>1, <2>2, <2>3, <2>4, <2>5, <2>6
<1>7. EffectsFit'
  <2>1. seen \subseteq seen'
    BY DEF AuthorizeJob, BeginTurn, InferenceFails, ModelAnswers, NextCall, RefusedByHost, AfterCall
  <2>2. pc' = "invoke" => effects'[batch'[1]] = 0
    <3>1. ASSUME NextCall, pc' = "invoke" PROVE effects'[batch'[1]] = 0
      <4>1. pc = "call" /\ batch # <<>> /\ batch' = batch /\ batch \in Seq(Ids)
        BY <3>1 DEF NextCall, End, LoopTyped
      <4>2. 1 \in 1..Len(batch) /\ batch[1] \in Ids
        BY <4>1, FirstCall
      <4>3. batch[1] \notin seen
        BY <4>1, <4>2 DEF BatchFits, Making
      <4>4. effects[batch[1]] \in 0..1 /\ effects[batch[1]] # 1
        BY <4>2, <4>3 DEF LoopTyped, EffectsFit
      <4> QED BY <1>1, <4>1, <4>4 DEF SameGuest, guestVars
    <3> QED BY <3>1 DEF AuthorizeJob, BeginTurn, InferenceFails, ModelAnswers, RefusedByHost, AfterCall, End, Raises
  <2> QED BY <1>1, <1>2, <2>1, <2>2 DEF EffectsFit, SameSession, SameGuest, guestVars, At
<1>8. OneIsLate' /\ ArtifactsFit'
  <2>1. late > 0 => pc' = "stop_session"
    BY <1>1, EndsHow DEF OneIsLate, AfterCall, AuthorizeJob, BeginTurn, InferenceFails, ModelAnswers, NextCall, RefusedByHost, End, Looping
  <2>2. OneIsLate'
    BY <1>1, <2>1 DEF OneIsLate, Looping
  <2>3. ArtifactsFit'
    BY <1>1 DEF ArtifactsFit, SameSession, SameGuest, guestVars, At
  <2> QED BY <2>2, <2>3
<1> QED BY <1>4, <1>5, <1>6, <1>7, <1>8

(* The steps of the cleanup: no call is made any more. *)
LEMMA StopKeeps ==
  ASSUME CallsInv, form' = form, form = "job", cancelRequested' = cancelRequested,
         StopSession \/ StopModel \/ Conclude
  PROVE  CallsInv'
<1> USE DEF CallsInv
<1>1. /\ SameSession /\ SameGuest /\ UNCHANGED <<turn, used, seen, batch, referenced, late, inf>>
      /\ pc \in Stopping /\ pc' \in Stopping
      /\ outcome' \in {outcome, "failed", "cancelled"}
  BY DEF StopSession, StopModel, Conclude, CancelFlag, CancelTransport, Revoke, SameSession, SameGuest, LoopRests,
         sessionVars, session, channel, inferenceVars, modelVars, loopVars, Stopping
<1>2. LoopTyped' /\ JobPlaces' /\ BatchFits'
  BY <1>1 DEF LoopTyped, JobPlaces, BatchFits, SameSession, SameGuest, guestVars, Looping, Stopping, Making
<1>3. EffectsFit' /\ OneIsLate' /\ ArtifactsFit'
  BY <1>1 DEF EffectsFit, OneIsLate, ArtifactsFit, SameSession, SameGuest, guestVars, At, Looping, Stopping
<1> QED BY <1>2, <1>3

LEMMA SendCallKeeps ==
  ASSUME SessionInv, CallsInv, form' = form, form = "job", cancelRequested' = cancelRequested, SendCall
  PROVE  CallsInv'
<1> USE DEF CallsInv
<1>1. /\ SameGuest /\ UNCHANGED <<turn, used, seen, batch, referenced, outcome, inf, ended, wire>>
      /\ pc = "invoke" /\ pc' = "exchange" /\ wire = None /\ outcome = "none" /\ ended = "none" /\ late = 0
      /\ batch # <<>> /\ batch \in Seq(Ids)
  BY DEF SendCall, BeginOp, SameGuest, LoopRests, inferenceVars, JobPlaces, Looping, OneIsLate, LoopTyped,
         BatchFits, Making
<1>2. op'.name = "tool" /\ op'.arg = Head(batch)
  BY DEF SendCall, BeginOp
<1>3. late' \in 0..1 /\ (late' > 0 => cancelRequested)
  BY <1>1 DEF SendCall
<1>4. LoopTyped' /\ JobPlaces' /\ BatchFits'
  <2>1. LoopTyped'
    BY <1>1, <1>3 DEF LoopTyped, SameGuest, guestVars, Looping
  <2>2. JobPlaces'
    BY <1>1, <1>2 DEF JobPlaces, Looping
  <2>3. BatchFits'
    BY <1>1 DEF BatchFits, Making
  <2> QED BY <2>1, <2>2, <2>3
<1>5. EffectsFit'
  BY <1>1 DEF EffectsFit, SameGuest, guestVars
<1>6. OneIsLate' /\ ArtifactsFit'
  BY <1>1, <1>3 DEF OneIsLate, ArtifactsFit, SameGuest, guestVars, Looping
<1> QED BY <1>4, <1>5, <1>6

LEMMA ToolResultKeeps ==
  ASSUME SessionInv, CallsInv, form' = form, form = "job", cancelRequested' = cancelRequested, ToolResult
  PROVE  CallsInv'
<1> USE DEF CallsInv
<1>1. /\ SameGuest /\ UNCHANGED <<pc, turn, used, seen, batch, outcome, late, inf>>
      /\ op # None /\ op.at = "settle" /\ wire' = None /\ op' = None /\ ended' = "ok"
      /\ referenced' = (referenced \/ (wire.flag /\ wire.tool = "artifact"))
  BY DEF ToolResult, SettleOp, SameGuest, LoopRests, inferenceVars
<1>2. pc = "exchange" /\ wire # None /\ wire.dir = "reply" /\ wire.kind = "ok"
  BY <1>1 DEF JobPlaces, SessionInv, WireFits, At
<1>3. referenced' => listed
  BY <1>1, <1>2 DEF ArtifactsFit, At
<1>4. LoopTyped' /\ BatchFits' /\ OneIsLate'
  BY <1>1 DEF LoopTyped, BatchFits, OneIsLate, SameGuest, guestVars, Looping, Making
<1>5. JobPlaces'
  BY <1>1, <1>2 DEF JobPlaces, Looping
<1>6. EffectsFit' /\ ArtifactsFit'
  BY <1>1, <1>3 DEF EffectsFit, ArtifactsFit, SameGuest, guestVars, At
<1> QED BY <1>4, <1>5, <1>6

LEMMA CallEndsKeeps ==
  ASSUME SessionInv, CallsInv, form' = form, form = "job", cancelRequested' = cancelRequested, CallEnds
  PROVE  CallsInv'
<1> USE DEF CallsInv
<1>1. /\ SameGuest /\ UNCHANGED <<turn, used, seen, batch, late, inf, op, wire, referenced>>
      /\ pc = "exchange" /\ ended # "none" /\ ended' = "none" /\ op = None
      /\ \/ pc' = "result" /\ outcome' = outcome /\ ended = "ok"
         \/ pc' = "stop_session" /\ outcome' = "failed"
  BY DEF CallEnds, SameGuest, LoopRests, inferenceVars, End, SessionInv, OpFits
<1>2. LoopTyped' /\ JobPlaces'
  BY <1>1 DEF LoopTyped, JobPlaces, SameGuest, guestVars, Looping, Stopping
<1>3. BatchFits' /\ OneIsLate'
  BY <1>1 DEF BatchFits, OneIsLate, Looping, Making
<1>4. EffectsFit' /\ ArtifactsFit'
  BY <1>1 DEF EffectsFit, ArtifactsFit, SameGuest, guestVars, At
<1> QED BY <1>2, <1>3, <1>4

(* The session carries the call out.  No chunk of a workspace is on the    *)
(* line of a job, so the guest serves calls only.                          *)
LEMMA LineKeeps ==
  ASSUME SessionInv, CallsInv, form' = form, form = "job", SessionStep \/ SessionGuest,
         UNCHANGED <<pc, vm, fixtureVars, jobVars>>
  PROVE  CallsInv'
<1> USE DEF CallsInv
<1>1. /\ SameGuest /\ cancelRequested' = cancelRequested
      /\ UNCHANGED <<pc, turn, used, seen, batch, referenced, outcome, late, inf>>
  BY DEF SessionStep, SessionGuest, control, SameGuest, jobVars, loopVars, inferenceVars
<1>2. LoopTyped' /\ BatchFits' /\ OneIsLate'
  BY <1>1 DEF LoopTyped, BatchFits, OneIsLate, SameGuest, guestVars
<1>3. CASE SessionGuest
  <2>1. /\ UNCHANGED <<op, ended>> /\ wire # None /\ wire'.dir = "reply" /\ wire'.kind = "bad"
        /\ op # None /\ op.at = "wait"
    BY <1>3 DEF SessionGuest, GuestServes, Noise, Reply, EffectsFit
  <2>2. JobPlaces'
    BY <1>1, <2>1 DEF JobPlaces
  <2>3. EffectsFit' /\ ArtifactsFit'
    BY <1>1, <2>1 DEF EffectsFit, ArtifactsFit, SameGuest, guestVars, At
  <2> QED BY <1>2, <2>2, <2>3
<1>4. CASE SessionStep
  <2>1. op # None /\ pc = "exchange" /\ op.name = "tool" /\ op.arg = Head(batch) /\ ended = "none" /\ ~SettleOp
    BY <1>4 DEF SessionStep, SendOp, ReceiveOp, NoReply, SettleOp, AbortOp, FinishAbort, JobPlaces, SessionInv, OpFits
  <2>2. op \in Operations
    BY <2>1 DEF SessionInv, SessionTyped
  <2>3. CASE SendOp /\ wire' = Request /\ Goto("wait")
    <3>1. op'.name = "tool" /\ op'.arg = op.arg /\ op'.at = "wait" /\ op' # None /\ ended' = ended /\ op.at = "send"
      BY <2>1, <2>2, <2>3, OperationMoves DEF SendOp
    <3>2. wire'.dir = "request" /\ wire'.name = "tool" /\ wire'.arg = Head(batch)
      BY <2>1, <2>3 DEF Request
    <3>3. batch # <<>> /\ batch[1] \in seen /\ batch[1] = Head(batch) /\ effects[batch[1]] = 0
      BY <2>1, <3>1, FirstCall DEF BatchFits, Making, EffectsFit, At, LoopTyped
    <3>4. JobPlaces'
      BY <1>1, <2>1, <3>1 DEF JobPlaces, Looping
    <3>5. EffectsFit' /\ ArtifactsFit'
      BY <1>1, <3>1, <3>2, <3>3 DEF EffectsFit, ArtifactsFit, SameGuest, guestVars, At
    <3> QED BY <1>2, <3>4, <3>5
  <2>4. CASE ReceiveOp /\ Acceptable(wire) /\ Goto("settle") /\ UNCHANGED wire
    <3>1. op'.name = "tool" /\ op'.arg = op.arg /\ op'.at = "settle" /\ op' # None /\ ended' = ended /\ op.at = "wait"
      BY <2>1, <2>2, <2>4, OperationMoves DEF ReceiveOp
    <3>2. JobPlaces'
      BY <1>1, <2>1, <3>1 DEF JobPlaces, Looping
    <3>3. EffectsFit' /\ ArtifactsFit'
      BY <1>1, <2>1, <2>4, <3>1 DEF EffectsFit, ArtifactsFit, SameGuest, guestVars, At
    <3> QED BY <1>2, <3>2, <3>3
  <2>5. CASE Goto("abort") /\ wire' \in {wire, None} /\ ended' = ended
    <3>1. op'.name = "tool" /\ op'.arg = op.arg /\ op'.at = "abort" /\ op' # None
      BY <2>1, <2>2, <2>5, OperationMoves
    <3>2. JobPlaces'
      BY <1>1, <2>1, <2>5, <3>1 DEF JobPlaces, Looping
    <3>3. EffectsFit' /\ ArtifactsFit'
      BY <1>1, <2>5, <3>1 DEF EffectsFit, ArtifactsFit, SameGuest, guestVars, At
    <3> QED BY <1>2, <3>2, <3>3
  <2>6. CASE AbortOp \/ FinishAbort
    <3>1. /\ wire' = wire
          /\ \/ op' = None /\ ended' = "error"
             \/ op' # None /\ op'.at = "closing" /\ op'.name = "tool" /\ op'.arg = op.arg /\ ended' = ended
      BY <2>1, <2>2, <2>6, OperationMoves DEF AbortOp, FinishAbort
    <3>2. JobPlaces'
      BY <1>1, <2>1, <3>1 DEF JobPlaces, Looping
    <3>3. EffectsFit' /\ ArtifactsFit'
      BY <1>1, <3>1 DEF EffectsFit, ArtifactsFit, SameGuest, guestVars, At
    <3> QED BY <1>2, <3>2, <3>3
  <2> QED BY <1>4, <2>1, <2>3, <2>4, <2>5, <2>6 DEF SessionStep, SendOp, ReceiveOp, NoReply
<1> QED BY <1>3, <1>4

(* What a tool may do: one effect for its call, and a record only of a     *)
(* file that is there.                                                     *)
LEMMA InvokeIs ==
  ASSUME effects \in [Ids -> 0..1], NEW id \in Ids, effects[id] = 0,
         NEW tool \in Tools, NEW ok \in BOOLEAN, Invoke(id, tool, ok), listed => staged
  PROVE  /\ effects' \in [Ids -> 0..1]
         /\ \A i \in Ids : i # id => effects'[i] = effects[i]
         /\ listed' => staged'
         /\ listed => listed'
         /\ tool = "artifact" /\ ok => listed'
<1>1. CASE effects' = effects /\ staged' = staged /\ listed' = listed /\ ~(tool = "artifact" /\ ok)
  BY <1>1
<1>2. ASSUME effects' \in {effects, [effects EXCEPT ![id] = @ + 1]}
      PROVE  effects' \in [Ids -> 0..1] /\ \A i \in Ids : i # id => effects'[i] = effects[i]
  BY <1>2
<1>3. CASE tool \in {"read", "stale_edit", "denied"}
  BY <1>1, <1>3 DEF Invoke, Read, StaleEdit, NoEffect, guestVars
<1>4. CASE tool = "edit"
  BY <1>1, <1>2, <1>4 DEF Invoke, Edit, Effect, NoEffect, guestVars
<1>5. CASE tool = "create"
  BY <1>1, <1>2, <1>5 DEF Invoke, CreateFile, Effect, NoEffect, guestVars
<1>6. CASE tool = "command"
  BY <1>1, <1>2, <1>6 DEF Invoke, RunCommand, Effect, NoEffect, guestVars
<1>7. CASE tool = "artifact"
  <2>1. WriteArtifact(id, ok)
    BY <1>7 DEF Invoke
  <2>2. effects' \in {effects, [effects EXCEPT ![id] = @ + 1]}
    BY <2>1 DEF WriteArtifact, Effect, NoEffect, guestVars
  <2>3. /\ listed' => staged'
        /\ listed => listed'
        /\ ok => listed'
    BY <2>1 DEF WriteArtifact, NoEffect, guestVars
  <2> QED BY <1>2, <2>2, <2>3
<1> QED BY <1>3, <1>4, <1>5, <1>6, <1>7 DEF Tools

LEMMA ToolRunKeeps ==
  ASSUME SessionInv, CallsInv, form' = form, form = "job", cancelRequested' = cancelRequested, GuestRunsTool
  PROVE  CallsInv'
<1> USE DEF CallsInv
<1>1. PICK tool \in Tools, ok \in BOOLEAN :
        /\ Invoke(wire.arg, tool, ok)
        /\ wire'.dir = "reply" /\ wire'.kind = "ok" /\ (wire'.flag <=> ok) /\ wire'.tool = tool
  BY ToolKeeps
<1>2. /\ UNCHANGED <<pc, turn, used, seen, batch, referenced, outcome, late, inf, op, ended>>
      /\ wire # None /\ wire.dir = "request"
  BY DEF GuestRunsTool, loopVars, inferenceVars
<1>3. wire.arg \in Ids /\ wire.arg \in seen /\ effects[wire.arg] = 0 /\ effects \in [Ids -> 0..1]
  BY <1>2 DEF EffectsFit, LoopTyped
<1>4. /\ effects' \in [Ids -> 0..1]
      /\ \A i \in Ids : i # wire.arg => effects'[i] = effects[i]
      /\ listed' => staged'
      /\ listed => listed'
      /\ tool = "artifact" /\ ok => listed'
  BY <1>1, <1>3, InvokeIs DEF ArtifactsFit
<1>5. /\ pc \notin Looping \ {"exchange"} /\ ended # "ok"
      /\ ~At("send") /\ ~At("settle")
  BY <1>2 DEF JobPlaces, SessionInv, WireFits, At
<1>6. LoopTyped' /\ BatchFits' /\ OneIsLate'
  BY <1>2, <1>4 DEF LoopTyped, BatchFits, OneIsLate, Looping
<1>7. JobPlaces'
  BY <1>2, <1>5 DEF JobPlaces
<1>8. EffectsFit'
  BY <1>1, <1>2, <1>3, <1>4, <1>5 DEF EffectsFit, At, Looping
<1>9. ArtifactsFit'
  BY <1>1, <1>2, <1>4, <1>5 DEF ArtifactsFit, At
<1> QED BY <1>6, <1>7, <1>8, <1>9

(* Another form has no calls. *)
NoCalls == form # "job" =>
  /\ late = 0 /\ effects = [i \in Ids |-> 0] /\ ~referenced /\ ~listed /\ ~staged

LEMMA CallsStay ==
  ASSUME SessionInv, Batches, CallsInv, NoCalls, [Next]_vars
  PROVE  CallsInv' /\ NoCalls'
<1>1. form' = form
  BY SessionStays
<1>2. CASE UNCHANGED jobVars /\ form # "job"
  BY <1>1, <1>2 DEF CallsInv, NoCalls, jobVars, guestVars, loopVars
<1>3. CASE form = "job" /\ JobHost
  <2>1. CASE CancellerActs
    <3>1. UNCHANGED <<control, pc, loopVars>> /\ SameGuest /\ inf' = inf
      BY <2>1 DEF CancellerActs, SameGuest, LoopRests, Revoke, inferenceVars, modelVars
    <3>2. SameSession
      BY <2>1 DEF CancellerActs, CancelFlag, CancelTransport, SameSession, channel, sessionVars
    <3> QED BY <1>1, <1>3, <3>1, <3>2, CallsSame DEF control, loopVars, NoCalls
  <2>2. CASE JobStep /\ ~CancellerActs
    BY <1>1, <1>3, <2>2, LoopKeeps, SendCallKeeps, ToolResultKeeps, CallEndsKeeps, StopKeeps
    DEF JobStep, control, NoCalls
  <2>3. CASE SessionStep /\ UNCHANGED <<pc, vm, fixtureVars, jobVars>>
    BY <1>1, <1>3, <2>3, LineKeeps DEF NoCalls
  <2>4. CASE InferenceStep /\ UNCHANGED <<runVars, guestVars, loopVars>>
    <3>1. inf' = "idle" <=> inf = "idle"
      BY <2>4 DEF InferenceStep, Authorize, SendRequest, Receive, Parse, InferCloses, InferReaps,
                  RevokeCloses, RevokeReaps
    <3> QED BY <1>1, <1>3, <2>4, <3>1, CallsSame
        DEF InferenceStep, control, runVars, sessionVars, channel, loopVars, SameSession, SameGuest, NoCalls
  <2> QED BY <1>3, <2>1, <2>2, <2>3, <2>4 DEF JobHost
<1>4. CASE form = "job" /\ JobAround
  <2>1. CASE RequestCancel
    BY <1>1, <1>4, <2>1, CallsSame
    DEF RequestCancel, LoopRests, SameSession, SameGuest, sessionVars, channel, loopVars, inferenceVars, NoCalls
  <2>2. CASE GuestRunsTool /\ UNCHANGED control
    BY <1>1, <1>4, <2>2, ToolRunKeeps DEF control, NoCalls
  <2>3. CASE SessionGuest /\ UNCHANGED <<pc, vm, fixtureVars, jobVars>>
    BY <1>1, <1>4, <2>3, LineKeeps DEF NoCalls
  <2>4. CASE InferenceChild /\ UNCHANGED <<runVars, guestVars, loopVars>>
    BY <1>1, <1>4, <2>4, CallsSame
    DEF InferenceChild, ChildAnswers, control, runVars, sessionVars, channel, loopVars, SameSession, SameGuest, NoCalls
  <2> QED BY <1>4, <2>1, <2>2, <2>3, <2>4 DEF JobAround, JobOutside
<1>5. CASE form = "job" /\ UNCHANGED <<runVars, jobVars>> /\ cancelRequested' = cancelRequested
  BY <1>1, <1>5, CallsSame
  DEF runVars, jobVars, sessionVars, channel, loopVars, inferenceVars, SameSession, SameGuest, NoCalls
<1> QED
  BY <1>1, <1>2, <1>3, <1>4, <1>5
  DEF Next, HostNext, Outside, FixtureHost, FixtureOutside, JobHost, JobAround, ReviewHost, ReviewOutside,
      ProcessHost, ProcessAround, SnapshotHost, SnapshotAround, GuestProgram, ClockNext, DeadlinePasses, vars, control

LEMMA CallsBegin ==
  ASSUME Init
  PROVE  CallsInv /\ NoCalls
<1>1. effects = [i \in Ids |-> 0] /\ ~listed /\ ~staged
  BY DEF Init, ToolsInit
<1>2. LoopRest
  BY DEF Init, FixtureForm, JobForm, ReviewForm, ArtifactsForm, ProcessForm, NoRunForm, JobInit
<1>3. NoCalls
  BY <1>1, <1>2 DEF NoCalls, LoopRest
<1>4. CallsInv
  <2> SUFFICES ASSUME form = "job" PROVE LoopTyped /\ JobPlaces /\ BatchFits /\ EffectsFit /\ OneIsLate /\ ArtifactsFit
    BY DEF CallsInv
  <2>1. pc = "authorize" /\ op = None /\ wire = None /\ ended = "none" /\ inf = "idle"
    BY DEF Init, JobForm, JobInit, LoadedInit, InferenceInit
  <2> QED BY <1>1, <1>2, <2>1, JobLimits
      DEF LoopRest, LoopTyped, JobPlaces, BatchFits, EffectsFit, OneIsLate, ArtifactsFit, Looping, Stopping, Making, At
<1> QED BY <1>3, <1>4

(* Safety: a call id takes effect at most once in a run, whatever the      *)
(* model repeats and the session loses, at most the one call whose guard   *)
(* had passed begins after the cancellation was requested, and an artifact *)
(* that is referred to was recorded and is there (executor.py,             *)
(* job_execution.py, guest/artifacts.py).                                  *)
THEOREM CallsTakeEffectOnce == Spec => []CallsOnce
<1> DEFINE Inv == SessionInv /\ Batches /\ CallsInv /\ NoCalls
<1>1. Init => Inv
  BY SessionBegins, CallsBegin
<1>2. Inv /\ [Next]_vars => Inv'
  BY SessionStays, CallsStay
<1>3. Inv => CallsOnce
  BY DEF CallsOnce, CallsInv, NoCalls, LoopTyped, EffectsFit, ArtifactsFit
<1> QED BY <1>1, <1>2, <1>3, PTL DEF Spec

-----------------------------------------------------------------------------
(* The model of a job. *)

ModelLeft == UNCHANGED <<lease, requests, child, pipe, stopped, closer, unreaped, revoke>>

LEMMA TheTwo == "worker" \in Revokers /\ "canceller" \in Revokers /\ Revokers = {"worker", "canceller"}
                /\ "worker" \in Callers /\ "canceller" \in Callers /\ Callers = {"worker", "canceller"}
BY DEF Revokers, Callers

(* A step of the loop: the model is as it was, and a submission is made of *)
(* an open session.                                                        *)
LEMMA LoopModel ==
  ASSUME SessionInv, CallsInv, ModelInv, form' = form, form = "job", cancelRequested' = cancelRequested,
         \/ AuthorizeJob \/ BeginTurn \/ InferenceFails \/ ModelAnswers
         \/ NextCall \/ RefusedByHost \/ AfterCall \/ SendCall \/ ToolResult \/ CallEnds
  PROVE  ModelInv'
<1> USE DEF ModelInv, CallsInv
<1>1. ModelLeft /\ UNCHANGED <<canc, closed, conn, unclean>> /\ pc \in Looping
  <2>1. CASE AuthorizeJob \/ BeginTurn \/ InferenceFails \/ ModelAnswers
    BY <2>1 DEF AuthorizeJob, BeginTurn, InferenceFails, ModelAnswers, ModelLeft, modelVars, inferenceVars,
       sessionVars, session, Fetch, Looping
  <2>2. CASE NextCall \/ RefusedByHost \/ AfterCall \/ CallEnds
    BY <2>2 DEF NextCall, RefusedByHost, AfterCall, CallEnds, ModelLeft, modelVars, inferenceVars, sessionVars,
       session, Looping
  <2>3. CASE SendCall
    BY <2>3 DEF SendCall, BeginOp, ModelLeft, modelVars, inferenceVars, Looping
  <2>4. CASE ToolResult
    <3>1. pc = "exchange"
      BY <2>4 DEF ToolResult, JobPlaces
    <3> QED BY <2>4, <3>1 DEF ToolResult, SettleOp, ModelLeft, modelVars, inferenceVars, Looping
  <2> QED BY <2>1, <2>2, <2>3, <2>4
<1>2. pc' \in Looping \cup {"stop_session"}
  <2>1. CASE AuthorizeJob \/ BeginTurn \/ InferenceFails \/ ModelAnswers
    BY <2>1 DEF AuthorizeJob, BeginTurn, InferenceFails, ModelAnswers, End, Raises, Looping
  <2>2. CASE NextCall \/ RefusedByHost \/ AfterCall \/ CallEnds
    BY <2>2 DEF NextCall, RefusedByHost, AfterCall, CallEnds, End, Raises, Looping
  <2>3. CASE SendCall \/ ToolResult
    BY <1>1, <2>3 DEF SendCall, ToolResult, Looping
  <2> QED BY <2>1, <2>2, <2>3
<1>3. inf' \in {inf, "idle", "fetched", "raised"}
  BY DEF AuthorizeJob, BeginTurn, InferenceFails, ModelAnswers, NextCall, RefusedByHost, AfterCall, SendCall,
         ToolResult, CallEnds, inferenceVars, Fetch
<1>4. outcome' = "submitted" => op' = None /\ ended' = "none" /\ op = None /\ ended = "none" /\ pc' = "stop_session"
  <2>1. outcome = "none"
    BY <1>1 DEF JobPlaces
  <2>2. outcome' = "submitted" => ModelAnswers /\ pc' = "stop_session"
    BY <2>1, EndsHow DEF AuthorizeJob, BeginTurn, InferenceFails, ModelAnswers, NextCall, RefusedByHost, AfterCall, SendCall,
         ToolResult, CallEnds, End, Raises
  <2>3. ModelAnswers => op' = None /\ ended' = "none" /\ op = None /\ ended = "none"
    BY DEF ModelAnswers, JobPlaces, sessionVars, channel
  <2> QED BY <2>2, <2>3
<1>5. ASSUME pc' \in Looping, ~cancelRequested, closed
      PROVE  At("closing")' \/ ended' = "error"
  <2>1. At("closing") \/ ended = "error"
    BY <1>1, <1>5 DEF SubmissionFits
  <2>2. pc = "exchange"
    BY <2>1 DEF JobPlaces, At
  <2>3. ToolResult => FALSE
    BY <2>1 DEF ToolResult, SettleOp, SessionInv, OpFits, At
  <2>4. CallEnds => FALSE
    BY <1>5, <2>1 DEF CallEnds, End, SessionInv, OpFits, At, Looping
  <2> QED BY <2>2, <2>3, <2>4
      DEF AuthorizeJob, BeginTurn, InferenceFails, ModelAnswers, NextCall, RefusedByHost, AfterCall, SendCall
<1>6. ModelTyped'
  BY <1>1, <1>3 DEF ModelTyped, ModelLeft
<1>7. RevocationFits'
  BY <1>1, <1>2, <1>3 DEF RevocationFits, ModelLeft, Looping, Revoked
<1>8. ModelFits'
  BY <1>1, <1>2 DEF ModelFits, ModelLeft, Looping, Revoked
<1>9. SubmissionFits'
  <2>1. canc["worker"] = "no"
    BY <1>1, TheTwo DEF SubmissionFits, Looping, Stopping, SessionInv, SessionTyped
  <2>2. outcome' = "submitted" /\ ~cancelRequested => ~closed
    BY <1>1, <1>4 DEF SubmissionFits, At
  <2> QED BY <1>1, <1>2, <1>4, <1>5, <2>1, <2>2 DEF SubmissionFits, Looping, Stopping
<1> QED BY <1>6, <1>7, <1>8, <1>9

(* Using the model does not touch what is held about it. *)
LEMMA ModelUsed ==
  ASSUME RevocationFits, ModelFits, form' = form,
         UNCHANGED <<lease, pipe, stopped, closer, unreaped, revoke, pc, cancelRequested, unclean>>,
         child = "dead" => child' = "dead", inf' = "closing" => inf = "closing"
  PROVE  RevocationFits' /\ ModelFits'
BY DEF RevocationFits, ModelFits, Revoked

LEMMA ModelMoves ==
  ASSUME CallsInv, ModelInv, form' = form, form = "job", InferenceStep \/ InferenceChild,
         UNCHANGED <<runVars, guestVars, loopVars>>
  PROVE  ModelInv'
<1> USE DEF ModelInv
<1>0. UNCHANGED <<pc, canc, closed, conn, op, ended, outcome, unclean, cancelRequested>>
  BY DEF runVars, sessionVars, session, channel, loopVars, InferenceStep, InferenceChild, control
<1>1. child = "dead" => child' = "dead"
  BY DEF InferenceStep, InferenceChild, Authorize, SendRequest, Receive, Parse, InferCloses, InferReaps,
         RevokeCloses, RevokeReaps, ChildAnswers, Model, Reap, modelVars
<1>2. SubmissionFits'
  BY <1>0, <1>1 DEF SubmissionFits, At
<1>3. CASE Authorize \/ SendRequest \/ Receive \/ Parse \/ ChildAnswers
  <2>1. /\ UNCHANGED <<lease, pipe, stopped, closer, unreaped, revoke>> /\ inf' \in {inf, "send", "close", "wait", "parse", "ok", "raised"}
        /\ child' \in {child, "working", "idle", "replied", "failed"}
    BY <1>3 DEF Authorize, SendRequest, Receive, Parse, ChildAnswers, Model, modelVars
  <2>2. requests' \in 0..MaxRequests
    BY <1>3, JobLimits DEF Authorize, SendRequest, Receive, Parse, ChildAnswers, modelVars, ModelTyped
  <2>3. ModelTyped'
    BY <2>1, <2>2 DEF ModelTyped
  <2> QED BY <1>0, <1>1, <1>2, <2>1, <2>3, ModelUsed
<1>4. CASE InferCloses
  <2>1. /\ UNCHANGED <<lease, requests, child, pipe, unreaped, revoke>>
        /\ \/ closer = "nobody" /\ ~stopped /\ closer' = "worker" /\ stopped' = TRUE /\ inf' = "closing"
           \/ inf' = "raised" /\ UNCHANGED <<closer, stopped>>
    BY <1>4 DEF InferCloses, CloseModel
  <2>2. pc = "infer"
    BY <1>4, <1>0 DEF InferCloses, CallsInv, JobPlaces
  <2>3. ModelTyped'
    BY <2>1, TheTwo DEF ModelTyped
  <2>4. RevocationFits' /\ ModelFits'
    <3>1. \A r \in Revokers : revoke[r] # "in" \/ closer = r
      BY DEF RevocationFits
    <3>2. closer = "nobody" => \A r \in Revokers : revoke[r] # "in"
      BY <3>1, TheTwo
    <3> QED BY <1>0, <2>1, <2>2, <3>2 DEF RevocationFits, ModelFits, Revoked
  <2> QED BY <1>2, <2>3, <2>4
<1>5. CASE InferReaps
  <2>1. /\ UNCHANGED <<lease, requests, stopped, revoke>> /\ pipe' = "closed" /\ closer' = "nobody" /\ inf' = "raised"
        /\ closer = "worker"
        /\ \/ child' = "dead" /\ unreaped' = unreaped
           \/ child' = child /\ unreaped' = TRUE
    BY <1>5 DEF InferReaps, Reap
  <2>2. pc = "infer"
    BY <1>5, <1>0 DEF InferReaps, CallsInv, JobPlaces
  <2>3. ModelTyped'
    BY <2>1, TheTwo DEF ModelTyped
  <2>4. \A r \in Revokers : revoke[r] # "in"
    <3>1. revoke["worker"] = "no"
      BY <2>2, TheTwo DEF RevocationFits, ModelTyped
    <3> QED BY <2>1, <3>1, TheTwo DEF RevocationFits
  <2>5. RevocationFits' /\ ModelFits'
    BY <1>0, <2>1, <2>2, <2>4 DEF RevocationFits, ModelFits, Revoked
  <2> QED BY <1>2, <2>3, <2>5
<1>6. ASSUME NEW who \in Revokers, RevokeCloses(who)
      PROVE  ModelInv'
  <2>1. /\ UNCHANGED <<lease, requests, child, pipe, unreaped, inf>> /\ revoke[who] = "popped" /\ closer = "nobody"
        /\ \/ ~stopped /\ closer' = who /\ stopped' = TRUE /\ revoke' = [revoke EXCEPT ![who] = "in"]
           \/ /\ stopped /\ UNCHANGED <<closer, stopped>>
              /\ revoke' = [revoke EXCEPT ![who] = IF unreaped THEN "raised" ELSE "clean"]
    BY <1>6 DEF RevokeCloses, CloseModel, SecondClose
  <2>2. revoke \in [Revokers -> {"no", "popped", "in", "clean", "raised"}]
    BY DEF ModelTyped
  <2>3. ModelTyped'
    BY <2>1, <2>2 DEF ModelTyped
  <2>4. \A r \in Revokers : revoke[r] # "in" /\ r # "nobody"
    BY <2>1, TheTwo DEF RevocationFits
  <2>5. RevocationFits'
    <3>1. /\ revoke'[who] \in {"in", "raised", "clean"}
          /\ \A r \in Revokers : r # who => revoke'[r] = revoke[r]
          /\ \A r \in Revokers : revoke'[r] = "in" => closer' = r
      BY <2>1, <2>2, <2>4
    <3>2. ~lease' /\ inf' # "closing"
      BY <2>1, TheTwo DEF RevocationFits
    <3>3. closer' # "nobody" => stopped' /\ ~unreaped'
      BY <2>1 DEF ModelFits
    <3>4. /\ revoke'["worker"] # "no" => pc \in {"stop_model", "conclude", "return"}
          /\ pc \in {"conclude", "return"} => revoke'["worker"] \in {"clean", "raised"}
          /\ revoke'["canceller"] # "no" => cancelRequested
      BY <2>1, <3>1, TheTwo DEF RevocationFits, Revoked
    <3> QED BY <1>0, <3>1, <3>2, <3>3, <3>4 DEF RevocationFits, Revoked
  <2>6. ModelFits'
    BY <1>0, <2>1, <2>2, <2>4, TheTwo DEF RevocationFits, ModelFits, Revoked
  <2> QED BY <1>2, <2>3, <2>5, <2>6
<1>7. ASSUME NEW who \in Revokers, RevokeReaps(who)
      PROVE  ModelInv'
  <2>1. /\ UNCHANGED <<lease, requests, stopped, inf>> /\ revoke[who] = "in" /\ pipe' = "closed" /\ closer' = "nobody"
        /\ \/ child' = "dead" /\ unreaped' = unreaped
           \/ child' = child /\ unreaped' = TRUE
        /\ revoke' = [revoke EXCEPT ![who] = IF unreaped' THEN "raised" ELSE "clean"]
    BY <1>7 DEF RevokeReaps, Reap
  <2>2. revoke \in [Revokers -> {"no", "popped", "in", "clean", "raised"}]
    BY DEF ModelTyped
  <2>3. ModelTyped'
    BY <2>1, <2>2 DEF ModelTyped
  <2>4. closer = who /\ stopped /\ ~unreaped /\ (\A r \in Revokers : r # who => revoke[r] # "in")
    BY <2>1, TheTwo DEF RevocationFits
  <2>5. inf # "closing"
    <3>1. inf = "closing" => who = "worker" /\ pc = "infer"
      BY <2>4, <1>0 DEF RevocationFits, CallsInv, JobPlaces
    <3> QED BY <2>1, <3>1 DEF RevocationFits
  <2>6. RevocationFits'
    BY <1>0, <2>1, <2>2, <2>4, <2>5 DEF RevocationFits, Revoked
  <2>7. ModelFits'
    <3>1. unreaped' <=> child' # "dead" \/ unreaped'
      BY <2>1, <2>4
    <3> QED BY <1>0, <2>1, <2>2, <2>4, TheTwo DEF RevocationFits, ModelFits, Revoked
  <2> QED BY <1>2, <2>3, <2>6, <2>7
<1> QED BY <1>3, <1>4, <1>5, <1>6, <1>7 DEF InferenceStep, InferenceChild

(* Taking the token away: by the worker in its cleanup, by the canceller   *)
(* once it has asked for the cancellation.                                 *)
LEMMA RevokeKeeps ==
  ASSUME ModelTyped, RevocationFits, ModelFits, NEW who \in Revokers, Revoke(who),
         who = "worker" => pc = "stop_model", who = "canceller" => cancelRequested,
         UNCHANGED <<pc, cancelRequested, unclean>>
  PROVE  ModelTyped' /\ RevocationFits' /\ ModelFits' /\ child' = child
<1>1. /\ UNCHANGED <<requests, inf, child, pipe, stopped, closer, unreaped>> /\ lease' = FALSE /\ revoke[who] = "no"
      /\ revoke' = [revoke EXCEPT ![who] = IF lease THEN "popped" ELSE "clean"]
  BY DEF Revoke
<1>2. revoke \in [Revokers -> {"no", "popped", "in", "clean", "raised"}]
  BY DEF ModelTyped
<1>3. /\ revoke'[who] = IF lease THEN "popped" ELSE "clean"
      /\ \A r \in Revokers : r # who => revoke'[r] = revoke[r]
  BY <1>1, <1>2
<1>4. ModelTyped'
  BY <1>1, <1>2 DEF ModelTyped
<1>5. RevocationFits'
  BY <1>1, <1>3, TheTwo DEF RevocationFits, Revoked
<1>6. ModelFits'
  <2>1. Revoked("canceller")' => pipe = "closed" \/ revoke'["worker"] # "no"
    BY <1>1, <1>3, TheTwo DEF RevocationFits, ModelFits, Revoked
  <2>2. (\A r \in Revokers : revoke'[r] \in {"no", "clean"}) => child = "dead"
    <3>1. CASE lease
      BY <1>3, <3>1
    <3>2. CASE ~lease
      BY <1>1, <1>3, <3>2 DEF ModelFits
    <3> QED BY <3>1, <3>2
  <2>3. pc = "return" /\ revoke'["worker"] = "raised" => unclean
    BY <1>1, <1>3, TheTwo DEF ModelFits
  <2> QED BY <1>1, <2>1, <2>2, <2>3 DEF ModelFits
<1> QED BY <1>1, <1>4, <1>5, <1>6

(* Cancelling the session: it is closed from then on. *)
LEMMA CancelCloses ==
  ASSUME SessionInv, NEW c \in Callers, CancelFlag(c) \/ CancelTransport(c),
         \A r \in Callers : canc[r] # "no" => closed
  PROVE  /\ closed' /\ canc'[c] # "no" /\ UNCHANGED <<op, ended>>
         /\ \A r \in Callers : r # c => canc'[r] = canc[r]
         /\ ~closed => canc'[c] = "flag"
         /\ canc[c] = "no" => conn' = conn
         /\ canc[c] # "no" /\ canc'[c] = "done" => conn' = "closed"
         /\ canc[c] \in {"no", "flag"}
<1>1. canc \in [Callers -> {"no", "flag", "done", "raised"}]
  BY DEF SessionInv, SessionTyped
<1> QED BY <1>1 DEF CancelFlag, CancelTransport, session, channel

LEMMA StopsModel ==
  ASSUME SessionInv, CallsInv, ModelInv, form' = form, form = "job", cancelRequested' = cancelRequested,
         StopSession \/ StopModel \/ Conclude
  PROVE  ModelInv'
<1> USE DEF ModelInv
<1>0. op = None /\ ended = "none" /\ pc \in Stopping
  BY DEF StopSession, StopModel, Conclude, CallsInv, JobPlaces, Stopping
<1>1. CASE StopSession /\ (CancelFlag("worker") \/ CancelTransport("worker")) /\ UNCHANGED pc
  <2>1. ModelLeft /\ UNCHANGED <<inf, outcome, unclean>> /\ pc = "stop_session"
    BY <1>1 DEF StopSession, inferenceVars, modelVars, ModelLeft, loopVars
  <2>2. /\ closed' /\ canc'["worker"] # "no" /\ UNCHANGED <<op, ended>> /\ canc'["canceller"] = canc["canceller"]
        /\ ~closed => canc'["worker"] = "flag"
        /\ canc["worker"] = "no" => conn' = conn
        /\ canc["worker"] # "no" /\ canc'["worker"] = "done" => conn' = "closed"
    BY <1>1, CancelCloses, TheTwo DEF SubmissionFits
  <2>3. ModelTyped' /\ RevocationFits' /\ ModelFits'
    BY <1>1, <2>1 DEF ModelTyped, RevocationFits, ModelFits, ModelLeft, Revoked
  <2>4. SubmissionFits'
    BY <1>1, <2>1, <2>2, TheTwo DEF SubmissionFits, Looping, Stopping
  <2> QED BY <2>3, <2>4
<1>2. CASE StopSession /\ canc["worker"] \in {"done", "raised"} /\ pc' = "stop_model" /\ UNCHANGED sessionVars
  <2>1. ModelLeft /\ UNCHANGED <<inf, outcome, unclean, canc, closed, conn, op, ended>> /\ pc = "stop_session"
    BY <1>2 DEF StopSession, inferenceVars, modelVars, ModelLeft, loopVars, sessionVars, session, channel
  <2>2. ModelTyped' /\ RevocationFits' /\ ModelFits'
    BY <1>2, <2>1 DEF ModelTyped, RevocationFits, ModelFits, ModelLeft, Revoked
  <2>3. SubmissionFits'
    BY <1>2, <2>1, TheTwo DEF SubmissionFits, Looping, Stopping
  <2> QED BY <2>2, <2>3
<1>3. CASE StopModel /\ Revoke("worker") /\ UNCHANGED pc
  <2>1. pc = "stop_model" /\ UNCHANGED <<unclean, outcome, canc, closed, conn, op, ended>>
    BY <1>3 DEF StopModel, sessionVars, session, channel, loopVars
  <2>2. ModelTyped' /\ RevocationFits' /\ ModelFits' /\ child' = child
    BY <1>3, <2>1, RevokeKeeps, TheTwo
  <2>3. SubmissionFits'
    BY <1>3, <2>1, <2>2 DEF SubmissionFits, At
  <2> QED BY <2>2, <2>3
<1>4. CASE StopModel /\ Revoked("worker") /\ pc' = "conclude" /\ UNCHANGED inferenceVars
  <2>1. ModelLeft /\ pc = "stop_model" /\ UNCHANGED <<inf, unclean, outcome, canc, closed, conn, op, ended>>
    BY <1>4 DEF StopModel, sessionVars, session, channel, loopVars, inferenceVars, modelVars, ModelLeft
  <2>2. ModelTyped' /\ RevocationFits' /\ ModelFits'
    BY <1>4, <2>1 DEF ModelTyped, RevocationFits, ModelFits, ModelLeft, Revoked
  <2>3. SubmissionFits'
    BY <1>4, <2>1 DEF SubmissionFits, Looping, Stopping
  <2> QED BY <2>2, <2>3
<1>5. CASE Conclude
  <2>1. /\ ModelLeft /\ pc = "conclude" /\ pc' = "return" /\ UNCHANGED <<inf, canc, closed, conn, op, ended>>
        /\ "raised" \in {canc["worker"], revoke["worker"]} => outcome' = "failed" /\ unclean' = TRUE
        /\ "raised" \notin {canc["worker"], revoke["worker"]} =>
             unclean' = unclean /\ (outcome' = "submitted" => outcome = "submitted" /\ ~cancelRequested)
    BY <1>5 DEF Conclude, sessionVars, session, channel, inferenceVars, modelVars, ModelLeft
  <2>2. ModelTyped'
    BY <2>1 DEF ModelTyped, ModelLeft
  <2>3. RevocationFits' /\ ModelFits'
    BY <2>1 DEF RevocationFits, ModelFits, ModelLeft, Revoked
  <2>4. outcome' = "submitted" => ~cancelRequested /\ conn = "closed" /\ child = "dead" /\ canc["worker"] # "no"
    <3>1. ASSUME outcome' = "submitted" PROVE ~cancelRequested /\ conn = "closed" /\ child = "dead" /\ canc["worker"] # "no"
      <4>1. "raised" \notin {canc["worker"], revoke["worker"]} /\ outcome = "submitted" /\ ~cancelRequested
        BY <2>1, <3>1
      <4>2. canc["worker"] = "done" /\ conn = "closed"
        BY <2>1, <4>1 DEF SubmissionFits, Stopping
      <4>3. revoke["worker"] = "clean" /\ revoke["canceller"] = "no" /\ ~lease
        BY <2>1, <4>1, TheTwo DEF RevocationFits, Revoked
      <4>4. child = "dead"
        BY <4>3, TheTwo DEF ModelFits
      <4> QED BY <4>1, <4>2, <4>4
    <3> QED BY <3>1
  <2>5. SubmissionFits'
    BY <2>1, <2>4 DEF SubmissionFits, Looping, Stopping, ModelLeft
  <2> QED BY <2>2, <2>3, <2>5
<1> QED BY <1>1, <1>2, <1>3, <1>4, <1>5 DEF StopSession, StopModel

LEMMA CancellerModel ==
  ASSUME SessionInv, ModelInv, form' = form, form = "job", CancellerActs \/ RequestCancel
  PROVE  ModelInv'
<1> USE DEF ModelInv
<1>1. CASE RequestCancel
  <2>1. /\ ModelLeft /\ UNCHANGED <<inf, pc, unclean, outcome, canc, closed, conn, op, ended>>
        /\ cancelRequested' /\ ~cancelRequested /\ pc # "return"
    BY <1>1 DEF RequestCancel, sessionVars, session, channel, loopVars, inferenceVars, modelVars, ModelLeft
  <2>2. ModelTyped' /\ RevocationFits' /\ ModelFits'
    BY <2>1 DEF ModelTyped, RevocationFits, ModelFits, ModelLeft, Revoked
  <2>3. SubmissionFits'
    BY <2>1 DEF SubmissionFits
  <2> QED BY <2>2, <2>3
<1>2. CASE CancellerActs /\ (CancelFlag("canceller") \/ CancelTransport("canceller")) /\ UNCHANGED inferenceVars
  <2>1. ModelLeft /\ UNCHANGED <<inf, pc, unclean, outcome, cancelRequested>> /\ cancelRequested
    BY <1>2 DEF CancellerActs, control, loopVars, inferenceVars, modelVars, ModelLeft
  <2>2. /\ closed' /\ UNCHANGED <<op, ended>> /\ canc'["worker"] = canc["worker"]
    BY <1>2, CancelCloses, TheTwo DEF SubmissionFits
  <2>3. ModelTyped' /\ RevocationFits' /\ ModelFits'
    BY <2>1 DEF ModelTyped, RevocationFits, ModelFits, ModelLeft, Revoked
  <2>4. SubmissionFits'
    BY <2>1, <2>2 DEF SubmissionFits
  <2> QED BY <2>3, <2>4
<1>3. CASE CancellerActs /\ Revoke("canceller") /\ UNCHANGED sessionVars
  <2>1. cancelRequested /\ UNCHANGED <<pc, cancelRequested, unclean, outcome, canc, closed, conn, op, ended>>
    BY <1>3 DEF CancellerActs, control, loopVars, sessionVars, session, channel
  <2>2. ModelTyped' /\ RevocationFits' /\ ModelFits' /\ child' = child
    BY <1>3, <2>1, RevokeKeeps, TheTwo
  <2>3. SubmissionFits'
    BY <2>1, <2>2 DEF SubmissionFits
  <2> QED BY <2>2, <2>3
<1> QED BY <1>1, <1>2, <1>3 DEF CancellerActs

(* The session carries a call out, or the guest does: the model is not     *)
(* concerned, and only a failure closes the session.                       *)
LEMMA LineModel ==
  ASSUME SessionInv, CallsInv, ModelInv, form' = form, form = "job",
         UNCHANGED <<pc, inferenceVars, loopVars, cancelRequested>>,
         \/ SessionStep \/ SessionGuest \/ GuestRunsTool
         \/ UNCHANGED sessionVars
  PROVE  ModelInv'
<1> USE DEF ModelInv
<1>1. ModelLeft /\ UNCHANGED <<inf, pc, unclean, outcome, cancelRequested>>
  BY DEF loopVars, inferenceVars, modelVars, ModelLeft
<1>2. ModelTyped' /\ RevocationFits' /\ ModelFits'
  BY <1>1 DEF ModelTyped, RevocationFits, ModelFits, ModelLeft, Revoked
<1>3. CASE UNCHANGED <<canc, closed, conn, op, ended>>
  <2>1. SubmissionFits'
    BY <1>1, <1>3 DEF SubmissionFits, At, ModelLeft
  <2> QED BY <1>2, <2>1
<1>4. CASE SessionStep
  <2>1. op # None /\ pc = "exchange" /\ ~SettleOp /\ ended = "none"
    BY <1>4 DEF SessionStep, SendOp, ReceiveOp, NoReply, SettleOp, AbortOp, FinishAbort, CallsInv, JobPlaces, SessionInv, OpFits
  <2>2. outcome = "none" /\ canc' = canc /\ canc["worker"] = "no"
    <3>1. outcome = "none" /\ pc \notin Stopping
      BY <2>1 DEF CallsInv, JobPlaces, Looping, Stopping
    <3>2. canc' = canc
      BY <1>4, CarriedOut
    <3> QED BY <3>1, <3>2, TheTwo DEF SubmissionFits
  <2>3. closed => closed'
    BY <1>4, <2>1 DEF SessionStep, SendOp, ReceiveOp, NoReply, AbortOp, FinishAbort, session
  <2>4. OwnClose => OwnClose'
    BY <1>4, CarriedOut
  <2>5. ~cancelRequested => OwnClose
    BY <2>1, <2>2 DEF SubmissionFits, OwnClose, Looping
  <2>6. SubmissionFits'
    BY <1>1, <2>1, <2>2, <2>3, <2>4, <2>5 DEF SubmissionFits, OwnClose, Cancelled, LeftToCanceller,
       Looping, Stopping
  <2> QED BY <1>2, <2>6
<1> QED BY <1>3, <1>4 DEF SessionGuest, GuestServes, Noise, GuestRunsTool, sessionVars, session, channel

LEMMA ModelStays ==
  ASSUME SessionInv, Batches, CallsInv, ModelInv, NoModel, [Next]_vars
  PROVE  ModelInv' /\ NoModel'
<1>1. form' = form
  BY SessionStays
<1>2. CASE UNCHANGED jobVars /\ form # "job"
  BY <1>1, <1>2 DEF ModelInv, NoModel, jobVars, inferenceVars, modelVars
<1>3. CASE form = "job" /\ JobHost
  <2>1. CASE CancellerActs
    BY <1>1, <1>3, <2>1, CancellerModel DEF NoModel
  <2>2. CASE JobStep /\ ~CancellerActs
    BY <1>1, <1>3, <2>2, LoopModel, StopsModel DEF JobStep, control, NoModel
  <2>3. CASE SessionStep /\ UNCHANGED <<pc, vm, fixtureVars, jobVars>>
    BY <1>1, <1>3, <2>3, LineModel DEF NoModel, jobVars, SessionStep, control
  <2>4. CASE InferenceStep /\ UNCHANGED <<runVars, guestVars, loopVars>>
    BY <1>1, <1>3, <2>4, ModelMoves DEF NoModel
  <2> QED BY <1>3, <2>1, <2>2, <2>3, <2>4 DEF JobHost
<1>4. CASE form = "job" /\ JobAround
  <2>1. CASE RequestCancel
    BY <1>1, <1>4, <2>1, CancellerModel DEF NoModel
  <2>2. CASE GuestRunsTool /\ UNCHANGED control
    BY <1>1, <1>4, <2>2, LineModel DEF control, NoModel, GuestRunsTool
  <2>3. CASE SessionGuest /\ UNCHANGED <<pc, vm, fixtureVars, jobVars>>
    BY <1>1, <1>4, <2>3, LineModel DEF NoModel, jobVars, SessionGuest, control
  <2>4. CASE InferenceChild /\ UNCHANGED <<runVars, guestVars, loopVars>>
    BY <1>1, <1>4, <2>4, ModelMoves DEF NoModel
  <2> QED BY <1>4, <2>1, <2>2, <2>3, <2>4 DEF JobAround, JobOutside
<1>5. CASE form = "job" /\ UNCHANGED <<runVars, jobVars>> /\ cancelRequested' = cancelRequested
  BY <1>1, <1>5, LineModel DEF runVars, jobVars, NoModel
<1> QED
  BY <1>1, <1>2, <1>3, <1>4, <1>5
  DEF Next, HostNext, Outside, FixtureHost, FixtureOutside, JobHost, JobAround, ReviewHost, ReviewOutside,
      ProcessHost, ProcessAround, SnapshotHost, SnapshotAround, GuestProgram, ClockNext, DeadlinePasses, vars, control

LEMMA ModelBegins ==
  ASSUME Init
  PROVE  ModelInv /\ NoModel
<1>1. CASE form = "job"
  <2>1. pc = "authorize" /\ outcome = "none" /\ LoadedInit /\ InferenceInit
    BY <1>1 DEF Init, JobForm, JobInit, LoopRest
  <2>2. ModelTyped /\ RevocationFits /\ ModelFits
    <3>1. /\ lease = TRUE /\ requests = 0 /\ inf = "idle" /\ child = "idle" /\ pipe = "open"
          /\ stopped = FALSE /\ closer = "nobody" /\ unreaped = FALSE
          /\ revoke = [r \in Revokers |-> "no"]
      BY <2>1 DEF InferenceInit, NewClient
    <3>2. ModelTyped
      <4>1. lease \in BOOLEAN /\ stopped \in BOOLEAN
        BY <3>1, Zenon
      <4>3. requests \in 0..MaxRequests
        BY <3>1, JobLimits
      <4>2. revoke \in [Revokers -> {"no", "popped", "in", "clean", "raised"}]
        BY <3>1
      <4> QED BY <3>1, <4>1, <4>2, <4>3 DEF ModelTyped
    <3>3. RevocationFits
      BY <2>1, <3>1, TheTwo DEF RevocationFits, Revoked
    <3>4. ModelFits
      BY <2>1, <3>1, TheTwo DEF ModelFits, Revoked
    <3> QED BY <3>2, <3>3, <3>4
  <2>3. SubmissionFits
    BY <2>1, TheTwo DEF LoadedInit, SubmissionFits, Stopping
  <2> QED BY <1>1, <2>2, <2>3 DEF ModelInv, NoModel
<1>2. CASE form # "job"
  <2>1. NoModelInit
    BY <1>2 DEF Init, FixtureForm, ReviewForm, ArtifactsForm, ProcessForm, NoRunForm
  <2> QED BY <1>2, <2>1 DEF NoModelInit, ModelInv, NoModel
<1> QED BY <1>1, <1>2

(* Safety: no request reaches the model once a revocation has returned,    *)
(* whatever infer() had fetched before; a model process that could not be  *)
(* reaped was reported, and a submission is returned only when transport   *)
(* and process are gone (inference.py, process_inference.py,               *)
(* job_execution.py).                                                      *)
THEOREM RevocationsHold == Spec => RevocationHolds
<1> DEFINE Inv == SessionInv /\ Batches /\ CallsInv /\ NoCalls /\ ModelInv /\ NoModel
<1>1. Init => Inv
  BY SessionBegins, CallsBegin, ModelBegins
<1>2. Inv /\ [Next]_vars => Inv'
  BY SessionStays, CallsStay, ModelStays
<1>3. Inv => CleanupIsHonest
  <2> SUFFICES ASSUME Inv, form = "job", pc = "return" PROVE
        /\ child # "dead" /\ revoke["canceller"] \notin {"popped", "in"} => unclean \/ revoke["canceller"] = "raised"
        /\ outcome = "submitted" => conn = "closed" /\ child = "dead"
    BY DEF CleanupIsHonest
  <2>1. ModelTyped /\ RevocationFits /\ ModelFits /\ SubmissionFits
    BY DEF ModelInv
  <2>2. revoke["worker"] \in {"clean", "raised"} /\ ~lease
    BY <2>1, TheTwo DEF RevocationFits, Revoked
  <2>3. revoke["canceller"] \in {"no", "popped", "in", "clean", "raised"}
    BY <2>1, TheTwo DEF ModelTyped
  <2>4. ASSUME child # "dead", revoke["canceller"] \in {"no", "clean"} PROVE unclean
    <3>1. revoke["worker"] # "clean"
      BY <2>1, <2>2, <2>4, TheTwo DEF ModelFits
    <3> QED BY <2>1, <2>2, <3>1 DEF ModelFits
  <2> QED BY <2>1, <2>3, <2>4 DEF SubmissionFits
<1>4. Inv /\ [Next]_vars => [child = "idle" /\ child' = "working" => \A who \in Revokers : ~Revoked(who)]_vars
  <2> SUFFICES ASSUME Inv, Next, child = "idle", child' = "working" PROVE \A who \in Revokers : ~Revoked(who)
    BY DEF vars, jobVars, inferenceVars, modelVars
  <2>1. SendRequest /\ form = "job"
    <3>1. ~UNCHANGED child
      OBVIOUS
    <3>2. InferenceStep \/ InferenceChild => SendRequest
      BY DEF InferenceStep, InferenceChild, Authorize, Receive, Parse, InferCloses, InferReaps, RevokeCloses,
             RevokeReaps, ChildAnswers, Reap, modelVars
    <3>3. JobStep \/ JobOutside => UNCHANGED child
      <4>1. AuthorizeJob \/ BeginTurn \/ InferenceFails \/ ModelAnswers \/ NextCall \/ RefusedByHost \/ AfterCall => UNCHANGED child
        BY DEF AuthorizeJob, BeginTurn, InferenceFails, ModelAnswers, NextCall, RefusedByHost, AfterCall, Fetch,
               inferenceVars, modelVars
      <4>2. SendCall \/ ToolResult \/ CallEnds \/ StopSession \/ StopModel \/ Conclude => UNCHANGED child
        BY DEF SendCall, ToolResult, CallEnds, StopSession, StopModel, Conclude, Revoke, inferenceVars, modelVars
      <4>3. CancellerActs \/ RequestCancel \/ GuestRunsTool => UNCHANGED child
        BY DEF CancellerActs, RequestCancel, GuestRunsTool, Revoke, inferenceVars, modelVars
      <4> QED BY <4>1, <4>2, <4>3 DEF JobStep, JobOutside
    <3>4. UNCHANGED jobVars => UNCHANGED child
      BY DEF jobVars, inferenceVars, modelVars
    <3> QED BY <3>1, <3>2, <3>3, <3>4
        DEF Next, HostNext, Outside, FixtureHost, FixtureOutside, JobHost, JobAround, ReviewHost, ReviewOutside,
            ProcessHost, ProcessAround, SnapshotHost, SnapshotAround, GuestProgram, ClockNext
  <2>2. pc = "infer" /\ pipe = "open"
    BY <2>1 DEF SendRequest, CallsInv, JobPlaces
  <2>3. revoke["worker"] = "no" /\ ~Revoked("canceller")
    BY <2>1, <2>2, TheTwo DEF ModelInv, ModelTyped, RevocationFits, ModelFits
  <2> QED BY <2>3, TheTwo DEF Revoked
<1>5. Spec => []Inv
  BY <1>1, <1>2, PTL DEF Spec
<1>6. Spec => []CleanupIsHonest
  BY <1>3, <1>5, PTL
<1>7. Spec => RevokedNeverDispatched
  BY <1>4, <1>5, PTL DEF Spec, RevokedNeverDispatched
<1> QED BY <1>6, <1>7, PTL DEF RevocationHolds

-----------------------------------------------------------------------------
(* Counting the lines of a sequence. *)

LEMMA LinesFinite ==
  ASSUME NEW line, NEW seq, NEW k \in Nat
  PROVE  IsFiniteSet(LinesOf(line, seq, k)) /\ Cardinality(LinesOf(line, seq, k)) \in Nat
<1>1. IsFiniteSet(1..k)
  BY FS_Interval
<1>2. LinesOf(line, seq, k) \subseteq 1..k
  BY DEF LinesOf
<1> QED BY <1>1, <1>2, FS_Subset, FS_CardinalityType

(* One more place is one more line, or none. *)
LEMMA LinesNext ==
  ASSUME NEW line, NEW seq, NEW k \in Nat
  PROVE  /\ seq[k + 1] = line => Cardinality(LinesOf(line, seq, k + 1)) = Cardinality(LinesOf(line, seq, k)) + 1
         /\ seq[k + 1] # line => LinesOf(line, seq, k + 1) = LinesOf(line, seq, k)
<1>1. k + 1 \notin LinesOf(line, seq, k)
  BY DEF LinesOf
<1>2. ASSUME seq[k + 1] = line
      PROVE  LinesOf(line, seq, k + 1) = LinesOf(line, seq, k) \cup {k + 1}
  BY <1>2 DEF LinesOf
<1>3. ASSUME seq[k + 1] # line
      PROVE  LinesOf(line, seq, k + 1) = LinesOf(line, seq, k)
  <2>1. \A i \in 1..k + 1 : seq[i] = line => i # k + 1
    BY <1>3
  <2> QED BY <2>1 DEF LinesOf
<1> QED BY <1>1, <1>2, <1>3, LinesFinite, FS_AddElement

LEMMA LinesAppend ==
  ASSUME NEW S, NEW seq \in Seq(S), NEW elt \in S, NEW line, NEW k \in 0..Len(seq)
  PROVE  LinesOf(line, Append(seq, elt), k) = LinesOf(line, seq, k)
<1>1. \A i \in 1..k : Append(seq, elt)[i] = seq[i]
  <2>1. \A i \in 1..k : i \in 1..Len(seq)
    OBVIOUS
  <2> QED BY <2>1, AppendProperties
<1> QED BY <1>1 DEF LinesOf

LEMMA CountIs ==
  ASSUME NEW S, NEW seq \in Seq(S), NEW line
  PROVE  Count(line, seq) = Cardinality(LinesOf(line, seq, Len(seq)))
<1>1. DOMAIN seq = 1..Len(seq)
  OBVIOUS
<1>2. {i \in DOMAIN seq : seq[i] = line} = LinesOf(line, seq, Len(seq))
  BY <1>1 DEF LinesOf
<1> QED BY <1>2 DEF Count

-----------------------------------------------------------------------------
(* The worker process. *)

LEMMA ProcessLimits ==
  /\ MaxLines \in Nat
  /\ DOMAIN HostEvent = {"note_cancelled", "note_timed_out", "note_received", "note_failed", "note_protocol_error"}
  /\ HostEvent["note_received"] = "worker_result_received"
  /\ \A p \in DOMAIN HostEvent : /\ HostEvent[p] \in HostEvents /\ HostEvent[p] # "event"
                                 /\ HostEvent[p] = "worker_result_received" => p = "note_received"
BY ProcessAssumption DEF HostEvent, HostEvents

LEMMA EventLogged ==
  ASSUME ProcessTyped, NEW what \in {"event"} \cup HostEvents, logged' = Append(logged, what)
  PROVE  /\ logged' \in Seq({"event"} \cup HostEvents) /\ logged' # <<>> /\ logged'[Len(logged')] = what
         /\ Len(logged) \in Nat /\ Len(logged') = Len(logged) + 1
         /\ what = "event" => Cardinality(LinesOf("event", logged', Len(logged'))) =
                                Cardinality(LinesOf("event", logged, Len(logged))) + 1
         /\ what # "event" => Cardinality(LinesOf("event", logged', Len(logged'))) =
                                Cardinality(LinesOf("event", logged, Len(logged)))
<1>1. logged \in Seq({"event"} \cup HostEvents) /\ Len(logged) \in Nat
  BY DEF ProcessTyped
<1>2. /\ logged' \in Seq({"event"} \cup HostEvents) /\ logged' # <<>> /\ Len(logged') = Len(logged) + 1
      /\ logged'[Len(logged) + 1] = what
  BY <1>1, AppendProperties
<1>3. LinesOf("event", logged', Len(logged)) = LinesOf("event", logged, Len(logged))
  BY <1>1, LinesAppend
<1> QED BY <1>1, <1>2, <1>3, LinesNext

LEMMA ProcessSame ==
  ASSUME ProcessTyped, TakenFits, ResultFits, UNCHANGED processVars
  PROVE  ProcessTyped' /\ TakenFits' /\ ResultFits'
BY DEF ProcessTyped, TakenFits, ResultFits, Counted, processVars

(* The child and the reader: what run() has taken stays what it was. *)
LEMMA ChildKeeps ==
  ASSUME ProcessTyped, TakenFits, ResultFits, Spawn \/ Pump \/ SendTask \/ TaskTaken \/ ChildWrites \/ ChildExits
  PROVE  ProcessTyped' /\ TakenFits' /\ ResultFits'
<1>1. UNCHANGED <<taken, got, logged, eof>>
  BY DEF Spawn, Pump, SendTask, TaskTaken, ChildWrites, ChildExits
<1>2. Len(said) \in Nat /\ pumped \in 0..Len(said) /\ taken \in 0..pumped /\ taken \in 0..Len(said)
  BY DEF ProcessTyped
<1>3. CASE ChildWrites
  <2>1. PICK line \in Lines : said' = Append(said, line)
    BY <1>3 DEF ChildWrites
  <2>2. said' \in Seq(Lines) /\ Len(said') = Len(said) + 1
    BY <2>1, AppendProperties DEF ProcessTyped
  <2>3. \A l : LinesOf(l, said', taken) = LinesOf(l, said, taken)
    BY <1>2, <2>1, LinesAppend DEF ProcessTyped
  <2>4. UNCHANGED <<proc, pumped, pumpDone, ppc>> /\ proc = "running" /\ ppc # "returned"
    BY <1>3 DEF ChildWrites, TakenFits
  <2>5. ProcessTyped'
    BY <1>1, <1>2, <2>2, <2>4 DEF ProcessTyped
  <2>6. TakenFits'
    BY <1>1, <2>4 DEF TakenFits
  <2>7. ResultFits'
    BY <1>1, <2>3, <2>4 DEF ResultFits, Counted
  <2> QED BY <2>5, <2>6, <2>7
<1>4. CASE Spawn \/ Pump \/ SendTask \/ TaskTaken \/ ChildExits
  <2>1. said' = said /\ pumped' \in pumped..Len(said) /\ proc' \in {"running", "exited", proc}
        /\ (proc = "exited" => proc' = "exited") /\ (proc # "none" => proc' # "none")
        /\ (pumpDone => pumpDone' /\ pumped' = pumped)
    <3>1. CASE Spawn
      BY <1>2, <3>1 DEF Spawn, TakenFits
    <3>2. CASE Pump
      BY <1>2, <3>2 DEF Pump
    <3>3. CASE SendTask \/ TaskTaken
      BY <1>2, <3>3 DEF SendTask, TaskTaken, Terminated
    <3>4. CASE ChildExits
      BY <1>2, <3>4 DEF ChildExits
    <3> QED BY <1>4, <3>1, <3>2, <3>3, <3>4
  <2>2. /\ ppc \notin {"spawn", "task"} => ppc' = ppc
        /\ ppc \in {"spawn", "task"} => ppc' \in {ppc, "task", "loop", "raised"}
        /\ ppc' \in {"task", "loop"} => proc' # "none"
        /\ ppc' = "spawn" => proc' = proc
        /\ pumpDone' => proc' = "exited" /\ pumped' = Len(said)
    <3>1. CASE Spawn
      BY <3>1 DEF Spawn, TakenFits
    <3>2. CASE Pump
      BY <3>2 DEF Pump, TakenFits
    <3>3. CASE SendTask \/ TaskTaken
      BY <3>3 DEF SendTask, TaskTaken, Terminated, TakenFits
    <3>4. CASE ChildExits
      BY <3>4 DEF ChildExits, TakenFits
    <3> QED BY <1>4, <3>1, <3>2, <3>3, <3>4
  <2>3. ProcessTyped'
    BY <1>1, <1>2, <2>1, <2>2 DEF ProcessTyped
  <2>4. TakenFits'
    BY <1>1, <2>1, <2>2, ProcessLimits DEF TakenFits
  <2>5. ResultFits'
    BY <1>1, <2>1, <2>2 DEF ResultFits, Counted
  <2> QED BY <2>3, <2>4, <2>5
<1> QED BY <1>3, <1>4

LEMMA TakeKeeps ==
  ASSUME ProcessTyped, TakenFits, ResultFits, Take
  PROVE  ProcessTyped' /\ TakenFits' /\ ResultFits'
<1>1. /\ UNCHANGED <<said, pumped, pumpDone, logged>> /\ ppc = "loop" /\ Counted /\ proc # "none"
  BY DEF Take, ResultFits, TakenFits
<1>2. Len(said) \in Nat /\ pumped \in 0..Len(said) /\ taken \in 0..pumped /\ said \in Seq(Lines)
  BY DEF ProcessTyped
<1>3. CASE taken < pumped
  <2> DEFINE line == said[taken + 1]
  <2>0. got' = (got \/ line = "result")
    BY <1>2, <1>3 DEF Take
  <2>1. /\ taken' = taken + 1 /\ eof' = eof
        /\ ppc' = IF ~Expected(line) THEN "note_protocol_error" ELSE IF line = "event" THEN "record" ELSE "look"
        /\ IF Expected(line) THEN proc' = proc ELSE proc' = "exited"
    BY <1>2, <1>3 DEF Take, Terminated
  <2>2. taken + 1 \in 1..Len(said) /\ taken + 1 \in 0..pumped /\ line \in Lines /\ taken \in Nat /\ ~eof
    BY <1>2, <1>3 DEF TakenFits
  <2> HIDE DEF line
  <2>3. got' \in BOOLEAN
    BY <2>0, Zenon
  <2>9. ppc' \in {"note_protocol_error", "record", "look"} /\ proc' \in {proc, "exited"}
        /\ (ppc' = "note_protocol_error" => proc' = "exited")
    BY <2>1
  <2>4. ProcessTyped'
    <3>1. /\ said' \in Seq(Lines) /\ pumped' \in 0..Len(said') /\ taken' \in 0..pumped'
          /\ logged' \in Seq({"event"} \cup HostEvents) /\ proc' \in {"none", "running", "exited"}
      BY <1>1, <1>2, <2>1, <2>2, <2>9 DEF ProcessTyped
    <3>2. ppc' \in {"spawn", "task", "loop", "record", "look", "returned", "raised"} \cup DOMAIN HostEvent
      BY <2>9, ProcessLimits
    <3> QED BY <3>1, <3>2, <2>3, Zenon DEF ProcessTyped
  <2>5. TakenFits'
    BY <1>1, <2>1, <2>2, <2>9, ProcessLimits DEF TakenFits
  <2>6. CASE ~Expected(line)
    <3>1. ppc' = "note_protocol_error"
      BY <2>1, <2>6, Zenon
    <3> QED BY <2>4, <2>5, <3>1 DEF ResultFits
  <2>7. CASE line = "event"
    <3>1. /\ LinesOf("garbage", said, taken + 1) = LinesOf("garbage", said, taken)
          /\ LinesOf("result", said, taken + 1) = LinesOf("result", said, taken)
          /\ Cardinality(LinesOf("event", said, taken + 1)) = Cardinality(LinesOf("event", said, taken)) + 1
      BY <2>2, <2>7, LinesNext DEF line
    <3>2. ppc' = "record"
      BY <2>1, <2>7 DEF Expected
    <3>3. got' = got
      <4>1. got \in BOOLEAN /\ line # "result"
        BY <2>7 DEF ProcessTyped
      <4> QED BY <2>0, <4>1, Zenon
    <3>4. Counted'
      <4>1. /\ LinesOf("garbage", said', taken') = {}
            /\ Cardinality(LinesOf("event", said', taken')) =
                 Cardinality(LinesOf("event", logged', Len(logged'))) + IF ppc' = "record" THEN 1 ELSE 0
        <5>1. Cardinality(LinesOf("event", logged, Len(logged))) \in Nat
          BY LinesFinite DEF ProcessTyped
        <5> QED BY <1>1, <2>1, <3>1, <3>2, <5>1 DEF Counted
      <4>2. Cardinality(LinesOf("result", said', taken')) = IF got' THEN 1 ELSE 0
        BY <1>1, <2>1, <3>1, <3>3 DEF Counted
      <4> QED BY <4>1, <4>2 DEF Counted
    <3> QED
      <4>1. ppc' # "note_received" /\ ppc' # "returned"
        BY <3>2
      <4> QED BY <2>4, <2>5, <3>4, <4>1, Zenon DEF ResultFits
  <2>8. CASE line = "result" /\ ~got
    <3>1. /\ LinesOf("garbage", said, taken + 1) = LinesOf("garbage", said, taken)
          /\ Cardinality(LinesOf("result", said, taken + 1)) = Cardinality(LinesOf("result", said, taken)) + 1
          /\ LinesOf("event", said, taken + 1) = LinesOf("event", said, taken)
      BY <2>2, <2>8, LinesNext DEF line
    <3>4. ppc' = "look"
      BY <2>1, <2>8 DEF Expected
    <3>2. got'
      BY <2>0, <2>8, Zenon
    <3>3. Counted'
      BY <1>1, <2>1, <2>8, <3>1, <3>2, <3>4 DEF Counted
    <3> QED
      <4>1. ppc' # "note_received" /\ ppc' # "returned"
        BY <3>4
      <4> QED BY <2>4, <2>5, <3>3, <4>1, Zenon DEF ResultFits
  <2> QED BY <2>4, <2>5, <2>6, <2>7, <2>8 DEF Expected
<1>4. CASE taken = pumped
  <2>1. /\ UNCHANGED <<taken, got, proc>> /\ ppc' = "look"
        /\ eof' = eof \/ (eof' = TRUE /\ pumpDone)
    BY <1>2, <1>4 DEF Take
  <2>2. ProcessTyped'
    BY <1>1, <2>1 DEF ProcessTyped
  <2>3. TakenFits'
    BY <1>1, <1>4, <2>1, ProcessLimits DEF TakenFits
  <2>4. ResultFits'
    BY <1>1, <2>1 DEF ResultFits, Counted
  <2> QED BY <2>2, <2>3, <2>4
<1> QED BY <1>3, <1>4 DEF Take

LEMMA RunKeeps ==
  ASSUME ProcessTyped, TakenFits, ResultFits, RecordEvent \/ Look \/ NoteEnd
  PROVE  ProcessTyped' /\ TakenFits' /\ ResultFits'
<1>1. UNCHANGED <<said, pumped, taken, pumpDone, eof, got>>
  BY DEF RecordEvent, Look, NoteEnd
<1>2. CASE RecordEvent
  <2>1. /\ proc' = proc /\ ppc = "record" /\ Counted
        /\ \/ logged' = Append(logged, "event") /\ ppc' = "look"
           \/ ppc' = "raised" /\ logged' = logged
    BY <1>2 DEF RecordEvent, ResultFits
  <2>2. ProcessTyped'
    BY <1>1, <2>1, EventLogged DEF ProcessTyped
  <2>3. TakenFits'
    BY <1>1, <2>1, ProcessLimits DEF TakenFits
  <2>4. ResultFits'
    <3>1. CASE ppc' = "raised"
      BY <3>1 DEF ResultFits
    <3>2. CASE logged' = Append(logged, "event") /\ ppc' = "look"
      <4>1. Cardinality(LinesOf("event", logged', Len(logged'))) = Cardinality(LinesOf("event", logged, Len(logged))) + 1
        BY <3>2, EventLogged
      <4>2. Cardinality(LinesOf("event", logged, Len(logged))) \in Nat
        BY LinesFinite DEF ProcessTyped
      <4>3. Counted'
        BY <1>1, <2>1, <3>2, <4>1, <4>2 DEF Counted
      <4> QED BY <3>2, <4>3 DEF ResultFits
    <3> QED BY <2>1, <3>1, <3>2
  <2> QED BY <2>2, <2>3, <2>4
<1>3. CASE Look
  <2>1. /\ logged' = logged /\ ppc = "look" /\ Counted /\ proc # "none"
        /\ ppc' \in {"note_cancelled", "note_timed_out", "note_received", "note_failed", "loop"}
        /\ ppc' = "note_received" => got /\ eof
        /\ ppc' # "loop" => proc' = "exited"
        /\ proc' \in {proc, "exited"}
    BY <1>3 DEF Look, Terminated, ResultFits, TakenFits
  <2>2. ProcessTyped'
    BY <1>1, <2>1, ProcessLimits DEF ProcessTyped
  <2>3. TakenFits'
    BY <1>1, <2>1, ProcessLimits DEF TakenFits
  <2>4. ResultFits'
    BY <1>1, <2>1 DEF ResultFits, Counted
  <2> QED BY <2>2, <2>3, <2>4
<1>4. CASE NoteEnd
  <2>1. /\ proc' = proc /\ ppc \in DOMAIN HostEvent /\ proc = "exited"
        /\ \/ logged' = Append(logged, HostEvent[ppc]) /\ ppc' = "returned"
           \/ ppc' = "raised" /\ logged' = logged
    BY <1>4 DEF NoteEnd, TakenFits
  <2>2. ProcessTyped'
    BY <1>1, <2>1, EventLogged, ProcessLimits DEF ProcessTyped
  <2>3. TakenFits'
    BY <1>1, <2>1, ProcessLimits DEF TakenFits
  <2>4. ResultFits'
    <3>1. CASE ppc' = "raised"
      BY <3>1 DEF ResultFits
    <3>2. CASE logged' = Append(logged, HostEvent[ppc]) /\ ppc' = "returned"
      <4>1. /\ logged' # <<>> /\ logged'[Len(logged')] = HostEvent[ppc]
            /\ Cardinality(LinesOf("event", logged', Len(logged'))) = Cardinality(LinesOf("event", logged, Len(logged)))
        BY <2>1, <3>2, EventLogged, ProcessLimits
      <4>2. ASSUME HostEvent[ppc] = "worker_result_received"
            PROVE  Counted' /\ got' /\ taken' = Len(said')
        <5>1. ppc = "note_received"
          BY <2>1, <4>2, ProcessLimits
        <5>2. Counted /\ got /\ eof
          BY <5>1 DEF ResultFits
        <5>3. taken = Len(said)
          BY <5>2 DEF TakenFits
        <5> QED BY <1>1, <3>2, <4>1, <5>1, <5>2, <5>3 DEF Counted
      <4> QED BY <3>2, <4>1, <4>2 DEF ResultFits
    <3> QED BY <2>1, <3>1, <3>2
  <2> QED BY <2>2, <2>3, <2>4
<1> QED BY <1>2, <1>3, <1>4

LEMMA FormStays ==
  ASSUME [Next]_vars
  PROVE  form' = form
BY DEF Next, HostNext, Outside, FixtureHost, FixtureOutside, JobHost, JobAround, ReviewHost, ReviewOutside,
       ProcessHost, ProcessAround, SnapshotHost, SnapshotAround, GuestProgram, ClockNext, vars

NoProcess == form # "process" => proc = "none" /\ said = <<>>

LEMMA ProcessStays ==
  ASSUME ProcessInv, NoProcess, [Next]_vars
  PROVE  ProcessInv' /\ NoProcess'
<1>1. form' = form
  BY FormStays
<1>2. CASE UNCHANGED processVars
  BY <1>1, <1>2, ProcessSame DEF ProcessInv, NoProcess, processVars
<1>3. CASE ProcessHost \/ ProcessAround
  BY <1>1, <1>2, <1>3, ChildKeeps, TakeKeeps, RunKeeps
  DEF ProcessHost, ProcessAround, ProcessStep, ProcessOutside, ProcessCancel, ProcessInv, NoProcess
<1> QED
  BY <1>2, <1>3
  DEF Next, HostNext, Outside, FixtureHost, FixtureOutside, JobHost, JobAround, ReviewHost, ReviewOutside,
      SnapshotHost, SnapshotAround, GuestProgram, ClockNext, vars

LEMMA ProcessBegins ==
  ASSUME Init
  PROVE  ProcessInv /\ NoProcess
<1>1. CASE form = "process"
  <2>1. ProcessInit
    BY <1>1 DEF Init, ProcessForm
  <2>2. \A line, seq : LinesOf(line, seq, 0) = {}
    BY DEF LinesOf
  <2>3. ProcessTyped
    <3>1. got \in BOOLEAN
      BY <2>1, Zenon DEF ProcessInit
    <3>2. /\ said \in Seq(Lines) /\ Len(said) = 0 /\ logged \in Seq({"event"} \cup HostEvents)
          /\ pumped \in 0..Len(said) /\ taken \in 0..pumped /\ proc = "none" /\ ppc = "spawn"
      BY <2>1 DEF ProcessInit
    <3> QED BY <3>1, <3>2 DEF ProcessTyped
  <2>4. TakenFits
    BY <2>1, ProcessLimits DEF ProcessInit, TakenFits
  <2>5. ResultFits
    BY <2>1, <2>2, FS_EmptySet DEF ProcessInit, ResultFits, Counted
  <2> QED BY <1>1, <2>3, <2>4, <2>5 DEF ProcessInv, NoProcess
<1>2. CASE form # "process"
  BY <1>2 DEF Init, FixtureForm, JobForm, ReviewForm, ArtifactsForm, NoRunForm, ProcessRest, ProcessInv, NoProcess
<1> QED BY <1>1, <1>2

LEMMA ProcessIsWhole ==
  ASSUME ProcessInv, form = "process", ppc = "returned"
  PROVE  /\ proc = "exited"
         /\ Last(logged) = "worker_result_received" =>
              /\ taken = Len(said) /\ Count("result", said) = 1 /\ Count("garbage", said) = 0
              /\ Count("event", logged) = Count("event", said)
<1>1. ProcessTyped /\ proc = "exited" /\ ResultFits
  BY DEF ProcessInv, TakenFits
<1>2. ASSUME Last(logged) = "worker_result_received"
      PROVE  /\ taken = Len(said) /\ Count("result", said) = 1 /\ Count("garbage", said) = 0
             /\ Count("event", logged) = Count("event", said)
  <2>1. Counted /\ got /\ taken = Len(said)
    BY <1>1, <1>2 DEF ResultFits, Last
  <2>2. Cardinality(LinesOf("event", logged, Len(logged))) \in Nat
    BY <1>1, LinesFinite DEF ProcessTyped
  <2>3. /\ Count("result", said) = Cardinality(LinesOf("result", said, taken))
        /\ Count("garbage", said) = Cardinality(LinesOf("garbage", said, taken))
        /\ Count("event", said) = Cardinality(LinesOf("event", said, taken))
        /\ Count("event", logged) = Cardinality(LinesOf("event", logged, Len(logged)))
    BY <1>1, <2>1, CountIs DEF ProcessTyped
  <2>4. Cardinality(LinesOf("result", said, taken)) = 1
    BY <2>1, Zenon DEF Counted
  <2>5. Cardinality(LinesOf("garbage", said, taken)) = 0
    BY <2>1, FS_EmptySet DEF Counted
  <2>6. Cardinality(LinesOf("event", said, taken)) = Cardinality(LinesOf("event", logged, Len(logged)))
    <3>1. ppc # "record"
      OBVIOUS
    <3>2. Cardinality(LinesOf("event", said, taken)) = Cardinality(LinesOf("event", logged, Len(logged))) + 0
      BY <2>1, <3>1, Zenon DEF Counted
    <3> QED BY <2>2, <3>2
  <2> QED BY <2>1, <2>3, <2>4, <2>5, <2>6, Zenon
<1> QED BY <1>1, <1>2

-----------------------------------------------------------------------------
(* The guest's program. *)

Frames == {"event", "torn"} \cup ResultFrames

(* What one more frame makes of the channel. *)
LEMMA OneMoreFrame ==
  ASSUME FramesTyped, NEW frame \in Frames, frames' = Append(frames, frame)
  PROVE  /\ Len(frames) \in Nat /\ frames' \in Seq(Frames) /\ frames' # <<>>
         /\ Len(frames') = Len(frames) + 1 /\ frames'[Len(frames')] = frame
         /\ \A i \in 1..Len(frames) : frames'[i] = frames[i]
<1>1. frames \in Seq(Frames)
  BY DEF FramesTyped, Frames
<1> QED BY <1>1, AppendProperties

LEMMA OrTheLast ==
  ASSUME NEW n \in Nat
  PROVE  \A i \in 1..n : i \in 1..n - 1 \/ i = n
OBVIOUS

LEMMA BoundStays ==
  ASSUME FramesTyped, bound' = bound
  PROVE  bound' \in BOOLEAN /\ (bound => bound')
<1>1. bound \in BOOLEAN
  BY DEF FramesTyped
<1> QED BY <1>1, Zenon

LEMMA FramesNumbers ==
  ASSUME FramesTyped
  PROVE  /\ frames \in Seq(Frames) /\ Len(frames) \in Nat
         /\ emitted \in 0..MaxEvents + 1 /\ MaxEvents \in Nat
<1>1. frames \in Seq(Frames) /\ emitted \in 0..MaxEvents + 1
  BY DEF FramesTyped, Frames
<1> QED BY <1>1, LenProperties, EventsAssumption

(* An event: what was sound stays so. *)
LEMMA EmitKeeps ==
  ASSUME FramesTyped, FramesFit, Emit
  PROVE  FramesTyped' /\ FramesFit'
<1>1. /\ bound' \in BOOLEAN /\ (bound => bound') /\ emitted' = emitted + 1 /\ emitted \in Nat /\ emitted <= MaxEvents
      /\ Sound /\ frames \in Seq(Frames) /\ Len(frames) \in Nat
  <2>1. bound' = bound /\ emitted' = emitted + 1 /\ gpc \in {"start", "execute"}
    BY DEF Emit
  <2>2. Sound /\ emitted <= MaxEvents
    BY <2>1 DEF FramesFit
  <2>3. bound' \in BOOLEAN /\ (bound => bound')
    BY <2>1, BoundStays
  <2> HIDE DEF Sound
  <2> QED BY <2>1, <2>2, <2>3, FramesNumbers
<1>2. CASE emitted < MaxEvents /\ Written("event") /\ gpc' = "execute" /\ answer' = answer
  <2>1. /\ frames' \in Seq(Frames) /\ Len(frames') = Len(frames) + 1 /\ Len(frames) \in Nat
        /\ frames'[Len(frames')] = "event" /\ \A i \in 1..Len(frames) : frames'[i] = frames[i]
    BY <1>2, OneMoreFrame DEF Written, Frames
  <2>2. \A i \in 1..Len(frames') : frames'[i] = "event"
    <3>1. \A i \in 1..Len(frames') : i \in 1..Len(frames) \/ i = Len(frames')
      BY <2>1
    <3> QED BY <1>1, <2>1, <3>1 DEF Sound
  <2>3. FramesTyped'
    <3>1. emitted' \in 0..MaxEvents + 1 /\ gpc' = "execute" /\ answer' = answer
      BY <1>1, <1>2, FramesNumbers
    <3>2. answer \in {"none", "task failed"} \cup FromExecutor
      BY DEF FramesTyped
    <3> QED BY <1>1, <2>1, <3>1, <3>2 DEF FramesTyped, Frames
  <2>4. Sound' /\ emitted' <= MaxEvents
    BY <1>1, <1>2, <2>1, <2>2, FramesNumbers DEF Sound
  <2>5. \A i \in 1..Len(frames') : frames'[i] \notin ResultFrames
    BY <2>2 DEF ResultFrames, FromExecutor
  <2>6. FramesFit'
    BY <1>2, <2>4, <2>5 DEF FramesFit
  <2> QED BY <2>3, <2>6
<1>3. CASE /\ TaskFails
           /\ frames' \in {frames, Append(frames, "torn")}
  <2>1. gpc' = "result" /\ answer' = "task failed"
    BY <1>3 DEF TaskFails
  <2>2. frames' \in Seq(Frames) /\ \A i \in 1..Len(frames') : frames'[i] \notin ResultFrames
    <3>1. \A i \in 1..Len(frames) : frames[i] \notin ResultFrames
      BY <1>1 DEF Sound, ResultFrames, FromExecutor
    <3>2. CASE frames' = frames
      BY <1>1, <3>1, <3>2
    <3>3. CASE frames' = Append(frames, "torn")
      <4>1. /\ frames' \in Seq(Frames) /\ Len(frames') = Len(frames) + 1 /\ Len(frames) \in Nat
            /\ frames'[Len(frames')] = "torn" /\ \A i \in 1..Len(frames) : frames'[i] = frames[i]
        BY <3>3, OneMoreFrame DEF Frames
      <4>2. \A i \in 1..Len(frames') : i \in 1..Len(frames) \/ i = Len(frames')
        BY <4>1
      <4> QED BY <3>1, <4>1, <4>2 DEF ResultFrames, FromExecutor
    <3> QED BY <1>3, <3>2, <3>3
  <2>3. FramesTyped'
    <3>1. emitted' \in 0..MaxEvents + 1
      BY <1>1, FramesNumbers
    <3> QED BY <1>1, <2>1, <2>2, <3>1 DEF FramesTyped, Frames
  <2>4. FramesFit'
    BY <2>1, <2>2 DEF FramesFit, FromExecutor
  <2> QED BY <2>3, <2>4
<1> QED BY <1>2, <1>3 DEF Emit, Breaks

(* The result, or a part of it. *)
LEMMA WriteResultKeeps ==
  ASSUME FramesTyped, FramesFit, WriteResult
  PROVE  FramesTyped' /\ FramesFit'
<1> DEFINE frame == IF gpc = "fallback" THEN "overlong" ELSE answer
<1>1. /\ UNCHANGED <<bound, emitted, answer>> /\ gpc \in {"result", "fallback"}
      /\ \A i \in 1..Len(frames) : frames[i] \notin ResultFrames
  BY DEF WriteResult, FramesFit
<1>2. frame \in ResultFrames /\ (frame # "task failed" => Sound)
  BY <1>1 DEF FramesTyped, FramesFit, ResultFrames, FromExecutor
<1>3. CASE Written(frame) /\ gpc' = "exit0"
  <2> HIDE DEF frame
  <2>1. /\ frames' \in Seq(Frames) /\ Len(frames') = Len(frames) + 1 /\ Len(frames) \in Nat /\ frames' # <<>>
        /\ frames'[Len(frames')] = frame /\ \A i \in 1..Len(frames) : frames'[i] = frames[i]
    BY <1>2, <1>3, OneMoreFrame DEF Written, Frames
  <2>2. FramesTyped'
    BY <1>1, <1>3, <2>1 DEF FramesTyped, Frames
  <2>3. Len(frames') - 1 = Len(frames)
    BY <2>1
  <2>4. \A i \in 1..Len(frames') - 1 : frames'[i] \notin ResultFrames
    BY <1>1, <2>1, <2>3
  <2>5. ASSUME frame # "task failed"
        PROVE  bound' /\ Len(frames') = emitted' + 1 /\ \A i \in 1..Len(frames') - 1 : frames'[i] = "event"
    BY <1>1, <1>2, <2>1, <2>3, <2>5 DEF Sound
  <2>6. FramesFit'
    BY <1>2, <1>3, <2>1, <2>4, <2>5 DEF FramesFit
  <2> QED BY <2>2, <2>6
<1>4. CASE gpc' = "exit1" /\ frames' = Append(frames, "torn")
  <2>1. /\ frames' \in Seq(Frames) /\ Len(frames') = Len(frames) + 1 /\ Len(frames) \in Nat
        /\ frames'[Len(frames')] = "torn" /\ \A i \in 1..Len(frames) : frames'[i] = frames[i]
    BY <1>4, OneMoreFrame DEF Frames
  <2>2. \A i \in 1..Len(frames') : i \in 1..Len(frames) \/ i = Len(frames')
    BY <2>1
  <2>3. \A i \in 1..Len(frames') : frames'[i] \notin ResultFrames
    BY <1>1, <2>1, <2>2 DEF ResultFrames, FromExecutor
  <2>4. FramesTyped'
    BY <1>1, <1>4, <2>1 DEF FramesTyped, Frames
  <2>5. FramesFit'
    BY <1>4, <2>3 DEF FramesFit
  <2> QED BY <2>4, <2>5
<1> QED BY <1>3, <1>4 DEF WriteResult, Breaks

(* The steps that write nothing. *)
LEMMA QuietKeeps ==
  ASSUME FramesTyped, FramesFit, OpenSerial \/ ReadTask \/ ValidateWorkspace \/ ExecutorReturns
  PROVE  FramesTyped' /\ FramesFit'
<1>1. UNCHANGED <<emitted, frames>>
  BY DEF OpenSerial, ReadTask, ValidateWorkspace, ExecutorReturns
<1>2. CASE OpenSerial \/ ReadTask
  <2>1. answer' = answer /\ frames = <<>> /\ emitted = 0 /\ bound' \in BOOLEAN
        /\ gpc' \in {"read", "validate", "exit1"}
    BY <1>2 DEF OpenSerial, ReadTask, FramesTyped, FramesFit
  <2>2. FramesTyped'
    BY <1>1, <2>1 DEF FramesTyped
  <2>3. FramesFit'
    BY <1>1, <2>1 DEF FramesFit
  <2> QED BY <2>2, <2>3
<1>3. CASE ValidateWorkspace
  <2>1. /\ bound' = bound /\ frames = <<>> /\ emitted = 0 /\ gpc' \in {"start", "result"}
        /\ gpc' = "start" => bound /\ answer' = answer
        /\ gpc' = "result" => answer' = "task failed"
    BY <1>3 DEF ValidateWorkspace, TaskFails, FramesFit
  <2>2. FramesTyped'
    BY <1>1, <2>1 DEF FramesTyped
  <2>3. FramesFit'
    <3>1. Len(frames') = 0 /\ emitted' = 0 /\ emitted' <= MaxEvents /\ (bound => bound')
      <4>1. frames' = <<>> /\ emitted' = 0
        BY <1>1, <2>1
      <4>2. Len(frames') = 0
        BY <4>1
      <4>3. bound => bound'
        BY <2>1, BoundStays
      <4>4. emitted' <= MaxEvents
        BY <4>1, EventsAssumption
      <4> QED BY <4>1, <4>2, <4>3, <4>4
    <3>2. CASE gpc' = "start"
      <4>1. Sound'
        BY <2>1, <3>1, <3>2 DEF Sound
      <4> QED BY <1>1, <2>1, <3>1, <3>2, <4>1 DEF FramesFit
    <3>3. CASE gpc' = "result"
      <4>1. answer' = "task failed"
        BY <2>1, <3>3
      <4>2. \A i \in 1..Len(frames') : frames'[i] \notin ResultFrames
        BY <3>1
      <4> QED BY <3>3, <4>1, <4>2 DEF FramesFit, FromExecutor
    <3> QED BY <2>1, <3>2, <3>3
  <2> QED BY <2>2, <2>3
<1>4. CASE ExecutorReturns
  <2>1. /\ bound' = bound /\ Sound /\ emitted <= MaxEvents /\ gpc' \in {"result", "fallback"}
        /\ answer' \in FromExecutor \cup {"task failed"}
        /\ \A i \in 1..Len(frames) : frames[i] \notin ResultFrames
    BY <1>4 DEF ExecutorReturns, TaskFails, FramesFit
  <2>2. FramesTyped'
    BY <1>1, <2>1 DEF FramesTyped, FromExecutor
  <2>3. FramesFit'
    BY <1>1, <1>4, <2>1 DEF FramesFit, Sound, FromExecutor
  <2> QED BY <2>2, <2>3
<1> QED BY <1>2, <1>3, <1>4

LEMMA FramesSame ==
  ASSUME FramesTyped, FramesFit, UNCHANGED runtimeVars
  PROVE  FramesTyped' /\ FramesFit'
BY DEF FramesTyped, FramesFit, Sound, runtimeVars

LEMMA FramesStay ==
  ASSUME FramesInv, [Next]_vars
  PROVE  FramesInv'
<1>1. form' = form
  BY FormStays
<1>2. CASE UNCHANGED runtimeVars
  BY <1>1, <1>2, FramesSame DEF FramesInv
<1>3. CASE GuestProgram
  BY <1>1, <1>3, QuietKeeps, EmitKeeps, WriteResultKeeps DEF GuestProgram, RuntimeStep, FramesInv
<1> QED
  BY <1>2, <1>3
  DEF Next, HostNext, Outside, FixtureHost, FixtureOutside, JobHost, JobAround, ReviewHost, ReviewOutside,
      ProcessHost, ProcessAround, SnapshotHost, SnapshotAround, ClockNext, vars, sideVars

LEMMA FramesBegin ==
  ASSUME Init
  PROVE  FramesInv
<1>1. CASE form = "guest"
  <2>1. RuntimeInit
    BY <1>1 DEF Init
  <2>2. bound \in BOOLEAN
    BY <2>1, Zenon DEF RuntimeInit
  <2>3. FramesTyped
    BY <2>1, <2>2, EventsAssumption DEF RuntimeInit, FramesTyped
  <2>4. FramesFit
    BY <2>1 DEF RuntimeInit, FramesFit
  <2> QED BY <2>3, <2>4 DEF FramesInv
<1>2. CASE form # "guest"
  BY <1>2 DEF FramesInv
<1> QED BY <1>1, <1>2

LEMMA GuestIsWhole ==
  ASSUME FramesInv, form = "guest"
  PROVE  /\ gpc = "exit0" <=> frames # <<>> /\ Last(frames) \in ResultFrames
         /\ \A i \in DOMAIN frames : frames[i] \in ResultFrames => i = Len(frames)
         /\ frames # <<>> /\ Last(frames) \in FromExecutor \cup {"overlong"} =>
              bound /\ Len(frames) = emitted + 1 /\ Count("torn", frames) = 0
<1>1. /\ FramesTyped /\ FramesFit /\ frames \in Seq(Frames) /\ Len(frames) \in Nat
      /\ DOMAIN frames = 1..Len(frames) /\ (frames # <<>> => Len(frames) \in 1..Len(frames))
  <2>1. FramesTyped /\ FramesFit /\ frames \in Seq(Frames)
    BY DEF FramesInv, FramesTyped, Frames
  <2> QED BY <2>1, EmptySeq
<1>2. gpc = "exit0" <=> frames # <<>> /\ Last(frames) \in ResultFrames
  BY <1>1 DEF FramesFit, Last
<1>3. \A i \in DOMAIN frames : frames[i] \in ResultFrames => i = Len(frames)
  <2>1. CASE gpc = "exit0"
    <3>0. Len(frames) \in Nat
      BY <1>1
    <3>1. \A i \in 1..Len(frames) : i \in 1..Len(frames) - 1 \/ i = Len(frames)
      BY <3>0, OrTheLast
    <3> QED BY <1>1, <2>1, <3>1 DEF FramesFit
  <2>2. CASE gpc # "exit0"
    BY <1>1, <2>2 DEF FramesFit
  <2> QED BY <2>1, <2>2
<1>4. ASSUME frames # <<>>, Last(frames) \in FromExecutor \cup {"overlong"}
      PROVE  bound /\ Len(frames) = emitted + 1 /\ Count("torn", frames) = 0
  <2>1. gpc = "exit0" /\ frames[Len(frames)] # "task failed" /\ frames[Len(frames)] # "torn"
    BY <1>2, <1>4 DEF ResultFrames, FromExecutor, Last
  <2>2. bound /\ Len(frames) = emitted + 1 /\ \A i \in 1..Len(frames) - 1 : frames[i] = "event"
    BY <1>1, <2>1 DEF FramesFit
  <2>3. {i \in DOMAIN frames : frames[i] = "torn"} = {}
    <3>0. Len(frames) \in Nat
      BY <1>1
    <3>1. \A i \in 1..Len(frames) : i \in 1..Len(frames) - 1 \/ i = Len(frames)
      BY <3>0, OrTheLast
    <3>2. \A i \in 1..Len(frames) : frames[i] # "torn"
      BY <2>1, <2>2, <3>1
    <3> QED BY <1>1, <3>2
  <2> QED BY <2>2, <2>3, FS_EmptySet DEF Count
<1> QED BY <1>2, <1>3, <1>4

-----------------------------------------------------------------------------
(* The export of a commit. *)

DrainStates == {"reading", "eof", "stopped"}

LEMMA PairOfEnds ==
  ASSUME NEW d \in DrainStates \X DrainStates
  PROVE  /\ d[1] \in DrainStates /\ d[2] \in DrainStates /\ DOMAIN d = {1, 2} /\ Range(d) = {d[1], d[2]}
         /\ \A x \in DrainStates : /\ [d EXCEPT ![1] = x] \in DrainStates \X DrainStates /\ [d EXCEPT ![1] = x][1] = x
                            /\ [d EXCEPT ![2] = x] \in DrainStates \X DrainStates /\ [d EXCEPT ![2] = x][1] = d[1]
<1>1. PICK a \in DrainStates, b \in DrainStates : d = <<a, b>>
  OBVIOUS
<1>2. d[1] \in DrainStates /\ d[2] \in DrainStates /\ DOMAIN d = {1, 2}
  BY <1>1
<1>3. Range(d) = {d[1], d[2]}
  BY <1>2 DEF Range
<1>4. ASSUME NEW x \in DrainStates
      PROVE  /\ [d EXCEPT ![1] = x] \in DrainStates \X DrainStates /\ [d EXCEPT ![1] = x][1] = x
             /\ [d EXCEPT ![2] = x] \in DrainStates \X DrainStates /\ [d EXCEPT ![2] = x][1] = d[1]
  <2>1. [d EXCEPT ![1] = x] = <<x, b>> /\ [d EXCEPT ![2] = x] = <<a, x>>
    BY <1>1
  <2> QED BY <1>1, <2>1
<1> QED BY <1>2, <1>3, <1>4

LEMMA TreeCounts ==
  ASSUME TRUE
  PROVE  /\ IsFiniteSet(Tree) /\ Cardinality(Tree) \in Nat /\ Tree \subseteq Paths
         /\ {p \in Tree : Cardinality({q \in Tree : q < p}) < Cardinality(Tree)} = Tree
<1>1. Tree \subseteq Paths /\ PathCount \in Nat
  BY SnapshotAssumption DEF Tree
<1>2. IsFiniteSet(Tree) /\ Cardinality(Tree) \in Nat
  <2>1. IsFiniteSet(Paths)
    BY <1>1, FS_Interval DEF Paths
  <2>2. IsFiniteSet(Tree)
    BY <1>1, <2>1, FS_Subset
  <2> QED BY <2>2, FS_CardinalityType
<1>3. ASSUME NEW p \in Tree
      PROVE  Cardinality({q \in Tree : q < p}) < Cardinality(Tree)
  <2> DEFINE less == {q \in Tree : q < p}
  <2>1. less \subseteq Tree /\ p \notin less
    BY <1>1 DEF Paths
  <2> HIDE DEF less
  <2>2. /\ IsFiniteSet(less) /\ Cardinality(less) <= Cardinality(Tree)
        /\ Cardinality(Tree) = Cardinality(less) => Tree = less
    BY <1>2, <2>1, FS_Subset
  <2>3. Cardinality(less) \in Nat
    BY <2>2, FS_CardinalityType
  <2>4. Tree # less
    BY <2>1
  <2>5. Cardinality(less) < Cardinality(Tree)
    BY <1>2, <2>2, <2>3, <2>4
  <2> QED BY <2>5 DEF less
<1> QED BY <1>1, <1>2, <1>3

LEMMA OutputCounts ==
  /\ Output \in Nat
  /\ tree' = tree => Tree' = Tree /\ Output' \in Nat
  /\ tree' = tree /\ spc' = spc => Output' = Output
<1>1. Cardinality(Tree) \in Nat
  BY TreeCounts
<1>2. Output \in Nat
  BY <1>1 DEF Output
<1>3. ASSUME tree' = tree
      PROVE  Tree' = Tree /\ Output' \in Nat
  <2>1. Tree' = Tree
    BY <1>3 DEF Tree
  <2> QED BY <1>1, <2>1 DEF Output
<1>4. ASSUME tree' = tree, spc' = spc
      PROVE  Output' = Output
  BY <1>4 DEF Output, Tree
<1> QED BY <1>2, <1>3, <1>4

(* The output of a command that is settled is all of it. *)
LEMMA SettledIsWhole ==
  ASSUME SnapshotTyped, PipesFit, Calling, Settled
  PROVE  kept = Output
<1>1. drain[1] = "eof"
  <2>1. drain \in DrainStates \X DrainStates /\ "stopped" \notin Range(drain) /\ "reading" \notin Range(drain)
    BY DEF SnapshotTyped, DrainStates, Settled, Exceeded, ReadersDone
  <2>2. drain[1] \in DrainStates /\ Range(drain) = {drain[1], drain[2]}
    BY <2>1, PairOfEnds
  <2> QED BY <2>1, <2>2 DEF DrainStates
<1>2. git = "ok"
  BY DEF Settled
<1>3. kept = wrote /\ wrote = Output
  BY <1>1, <1>2 DEF PipesFit
<1> QED BY <1>3

-----------------------------------------------------------------------------
(* The commands of Git. *)

(* The files do not change while a command runs. *)
LEMMA EntriesSame ==
  ASSUME SnapshotTyped, EntriesFit, GitSame, spc' \in {spc, "raised"}
  PROVE  EntriesFit'
<1>1. UNCHANGED <<tree, commit, approved, entries, exported>> /\ Tree' = Tree /\ NextPath' = NextPath
  BY DEF GitSame, Tree, NextPath
<1>2. (commit => commit')
  BY <1>1, Zenon
<1>3. CASE spc' = spc
  BY <1>1, <1>2, <1>3 DEF EntriesFit
<1>4. CASE spc' = "raised"
  BY <1>4 DEF EntriesFit
<1> QED BY <1>3, <1>4

LEMMA CommandKeeps ==
  ASSUME SnapshotTyped, PipesFit, GitStarts \/ GitRuns \/ DrainOutput \/ DrainErrors \/ GitOverdue \/ GitRefused
  PROVE  SnapshotTyped' /\ PipesFit' /\ GitSame /\ spc' \in {spc, "raised"}
<1>1. GitSame /\ spc' \in {spc, "raised"} /\ tree' = tree
  BY DEF GitStarts, GitRuns, DrainOutput, DrainErrors, GitOverdue, GitRefused, GitSame
<1>2. Output \in Nat /\ Output' \in Nat /\ (spc' = spc => Output' = Output) /\ (spc' = spc => (Calling <=> Calling'))
      /\ (spc' = "raised" => ~Calling')
  BY <1>1, OutputCounts DEF Calling
<1>3. /\ drain \in DrainStates \X DrainStates /\ wrote \in Nat /\ kept \in 0..wrote
      /\ git \in {"none", "running", "ok", "failed", "killed"}
      /\ <<"reading", "reading">> \in DrainStates \X DrainStates /\ <<"eof", "eof">> \in DrainStates \X DrainStates
  BY DEF SnapshotTyped, DrainStates
<1>4. ASSUME /\ drain' \in DrainStates \X DrainStates /\ wrote' \in Nat /\ kept' \in 0..wrote'
             /\ git' \in {"none", "running", "ok", "failed", "killed"}
             /\ inherits' \in BOOLEAN
      PROVE  SnapshotTyped'
  <2>1. /\ tree' \in [Paths -> Kinds] /\ approved' \subseteq Paths /\ exported' \subseteq Paths /\ entries' \subseteq Paths
        /\ spc' \in {"type", "list", "entry", "blob", "encode", "returned", "raised"}
    BY <1>1 DEF SnapshotTyped, GitSame
  <2> QED BY <1>4, <2>1, Zenon DEF SnapshotTyped, DrainStates
<1>5. inherits' \in BOOLEAN
  <2>1. inherits \in BOOLEAN /\ (inherits' = inherits \/ inherits' = TRUE \/ inherits' = FALSE)
    BY Zenon DEF SnapshotTyped, GitStarts, GitRuns, DrainOutput, DrainErrors, GitOverdue, GitRefused, Reset
  <2> QED BY <2>1, Zenon
<1>6. /\ drain' \in DrainStates \X DrainStates /\ wrote' \in Nat /\ kept' \in 0..wrote'
      /\ git' \in {"none", "running", "ok", "failed", "killed"} /\ PipesFit'
  <2>1. CASE GitStarts
    <3>1. /\ UNCHANGED <<wrote, kept>> /\ git = "none" /\ Calling /\ spc \notin {"entry", "encode", "returned"}
          /\ \/ git' = "running" /\ drain' = <<"reading", "reading">> /\ spc' = spc
             \/ spc' = "raised" /\ git' = git /\ drain' = drain
      BY <2>1 DEF GitStarts, Calling
    <3> QED BY <1>2, <1>3, <3>1 DEF PipesFit
  <2>2. CASE GitRuns
    <3>1. /\ UNCHANGED <<spc, kept, drain>> /\ git = "running"
          /\ \/ wrote < Output /\ wrote' = wrote + 1 /\ git' = git
             \/ wrote = Output /\ git' = "ok" /\ wrote' = wrote
             \/ git' = "failed" /\ wrote' = wrote
      BY <2>2 DEF GitRuns
    <3>2. drain[1] # "eof"
      BY <3>1 DEF PipesFit
    <3> QED BY <1>2, <1>3, <3>1, <3>2 DEF PipesFit
  <2>3. CASE DrainOutput
    <3>1. /\ UNCHANGED <<spc, git, wrote>> /\ drain[1] = "reading"
          /\ \/ kept < wrote /\ kept' = kept + 1 /\ drain' = drain
             \/ drain' = [drain EXCEPT ![1] = "stopped"] /\ kept' = kept
             \/ kept = wrote /\ git # "running" /\ drain' = [drain EXCEPT ![1] = "eof"] /\ kept' = kept
      BY <2>3 DEF DrainOutput, EndOfPipe
    <3>2. /\ drain' \in DrainStates \X DrainStates
          /\ drain'[1] = "eof" => kept' = kept /\ kept = wrote /\ git # "running"
      BY <1>3, <3>1, PairOfEnds DEF DrainStates
    <3>3. wrote' = wrote /\ git' = git /\ kept' \in 0..wrote'
      BY <1>3, <3>1
    <3> QED BY <1>2, <1>3, <3>1, <3>2, <3>3 DEF PipesFit
  <2>4. CASE DrainErrors
    <3>1. /\ UNCHANGED <<spc, git, wrote, kept>>
          /\ drain' \in {[drain EXCEPT ![2] = "eof"], [drain EXCEPT ![2] = "stopped"]}
      BY <2>4 DEF DrainErrors
    <3>2. drain' \in DrainStates \X DrainStates /\ drain'[1] = drain[1]
      BY <1>3, <3>1, PairOfEnds DEF DrainStates
    <3> QED BY <1>2, <1>3, <3>1, <3>2 DEF PipesFit
  <2>5. CASE GitOverdue
    <3>1. /\ UNCHANGED <<wrote, kept, drain>> /\ git # "none" /\ spc' = "raised"
          /\ git' = IF git = "running" THEN "killed" ELSE git
      BY <2>5 DEF GitOverdue
    <3> QED BY <1>2, <1>3, <3>1 DEF PipesFit
  <2>6. CASE GitRefused
    BY <1>2, <1>3, <2>6 DEF GitRefused, Reset, PipesFit
  <2> QED BY <2>1, <2>2, <2>3, <2>4, <2>5, <2>6
<1> QED BY <1>1, <1>4, <1>5, <1>6

-----------------------------------------------------------------------------
(* The listing and the blobs. *)

(* A set of paths has a first one. *)
LEMMA FirstPath ==
  ASSUME NEW set, set \subseteq Paths, set # {}
  PROVE  \E p \in set : \A q \in set : p <= q
<1> DEFINE Less == OpToRel(<, Nat)
<1>1. set \subseteq Nat
  BY SnapshotAssumption DEF Paths
<1>2. IsWellFoundedOn(Less, Nat)
  BY NatLessThanWellFounded
<1>3. \A x, y \in Nat : y < x => <<y, x>> \in Less
  BY DEF OpToRel
<1> HIDE DEF Less
<1>4. PICK p \in set : \A q \in set : ~ (<<q, p>> \in Less)
  BY <1>1, <1>2, WFMin
<1>5. ASSUME NEW q \in set
      PROVE  p <= q
  <2>1. ~ (q < p)
    BY <1>1, <1>3, <1>4
  <2> QED BY <1>1, <2>1
<1> QED BY <1>5

LEMMA NextPathIs ==
  ASSUME SnapshotTyped, entries # {}
  PROVE  NextPath \in entries /\ NextPath \in Paths
<1>1. entries \subseteq Paths
  BY DEF SnapshotTyped
<1>2. \E p \in entries : \A q \in entries : p <= q
  BY <1>1, FirstPath
<1>3. NextPath \in entries
  BY <1>2 DEF NextPath
<1> QED BY <1>1, <1>3

(* What a command left behind is taken away. *)
LEMMA ResetFits ==
  ASSUME SnapshotTyped, Reset, tree' = tree,
         approved' \subseteq Paths, exported' \subseteq Paths, entries' \subseteq Paths,
         spc' \in {"type", "list", "entry", "blob", "encode", "returned", "raised"}
  PROVE  SnapshotTyped' /\ PipesFit'
<1>1. Output' \in Nat
  BY OutputCounts
<1>2. /\ git' = "none" /\ wrote' = 0 /\ kept' = 0 /\ drain' \in DrainStates \X DrainStates
  BY DEF Reset, DrainStates
<1>3. inherits' \in BOOLEAN
  BY Zenon DEF Reset
<1>4. tree' \in [Paths -> Kinds] /\ wrote' \in Nat /\ kept' \in 0..wrote'
      /\ git' \in {"none", "running", "ok", "failed", "killed"}
  BY <1>2 DEF SnapshotTyped
<1>5. SnapshotTyped'
  BY <1>2, <1>3, <1>4, Zenon DEF SnapshotTyped, DrainStates
<1>6. PipesFit'
  BY <1>1, <1>2 DEF PipesFit
<1> QED BY <1>5, <1>6

(* A step of export() between two commands. *)
LEMMA BetweenFits ==
  ASSUME SnapshotTyped, PipesFit, UNCHANGED <<git, inherits, wrote, kept, drain, tree, approved, exported, entries>>,
         spc \in {"entry", "encode", "returned"},
         spc' \in {"type", "list", "entry", "blob", "encode", "returned", "raised"}
  PROVE  SnapshotTyped' /\ PipesFit'
<1>1. SnapshotTyped'
  BY DEF SnapshotTyped
<1>2. PipesFit'
  <2>1. Output' \in Nat
    BY OutputCounts
  <2>2. wrote' = 0 /\ git' = "none"
    BY DEF PipesFit
  <2> QED BY <2>1, <2>2 DEF PipesFit
<1> QED BY <1>1, <1>2

(* What split() made of the output is the whole tree. *)
LEMMA ListKeeps ==
  ASSUME SnapshotTyped, PipesFit, EntriesFit, TreeListed
  PROVE  SnapshotTyped' /\ PipesFit' /\ EntriesFit'
<1>1. spc = "list" /\ Settled /\ Reset /\ spc' = "entry" /\ UNCHANGED <<tree, approved, exported>>
      /\ commit' = commit /\ entries' = {p \in Tree : Cardinality({q \in Tree : q < p}) < kept}
  BY DEF TreeListed
<1>2. kept = Cardinality(Tree)
  <2>1. kept = Output
    BY <1>1, SettledIsWhole DEF Calling
  <2> QED BY <1>1, <2>1 DEF Output
<1>3. entries' = Tree /\ Tree' = Tree /\ Tree \subseteq Paths
  <2>1. Tree' = Tree
    BY <1>1, OutputCounts
  <2> QED BY <1>1, <1>2, <2>1, TreeCounts, Zenon
<1>4. approved' \subseteq Paths /\ exported' \subseteq Paths /\ entries' \subseteq Paths /\ exported = {}
  BY <1>1, <1>3 DEF SnapshotTyped, EntriesFit
<1>5. SnapshotTyped' /\ PipesFit'
  BY <1>1, <1>4, ResetFits
<1>6. commit'
  <2>1. commit
    BY <1>1 DEF EntriesFit
  <2> QED BY <1>1, <2>1, Zenon
<1>7. EntriesFit'
  BY <1>1, <1>3, <1>4, <1>6 DEF EntriesFit
<1> QED BY <1>5, <1>7

LEMMA TypeKeeps ==
  ASSUME SnapshotTyped, PipesFit, EntriesFit, TypeKnown
  PROVE  SnapshotTyped' /\ PipesFit' /\ EntriesFit'
<1>1. /\ spc = "type" /\ Reset /\ UNCHANGED <<tree, approved, exported, entries>> /\ exported = {}
      /\ spc' \in {"list", "raised"} /\ commit' = commit /\ (spc' = "list" => commit)
  BY DEF TypeKnown, GitSame, EntriesFit
<1>2. SnapshotTyped' /\ PipesFit'
  BY <1>1, ResetFits DEF SnapshotTyped
<1>3. spc' = "list" => commit'
  BY <1>1, Zenon
<1>4. EntriesFit'
  BY <1>1, <1>3 DEF EntriesFit
<1> QED BY <1>2, <1>4

LEMMA EntryKeeps ==
  ASSUME SnapshotTyped, PipesFit, EntriesFit, NextEntry \/ Encode
  PROVE  SnapshotTyped' /\ PipesFit' /\ EntriesFit'
<1>1. /\ spc \in {"entry", "encode"} /\ UNCHANGED <<git, inherits, wrote, kept, drain>>
      /\ UNCHANGED <<tree, approved, exported, entries>> /\ commit' = commit
      /\ spc' \in {"blob", "encode", "returned", "raised"}
  BY DEF NextEntry, Encode, GitSame
<1>2. SnapshotTyped' /\ PipesFit'
  BY <1>1, BetweenFits
<1>3. /\ commit /\ Tree = exported \cup entries /\ \A p \in exported : p \in approved /\ tree[p] = "same"
      /\ Tree' = Tree /\ NextPath' = NextPath
  BY <1>1, OutputCounts DEF EntriesFit, NextPath
<1>4. commit'
  BY <1>1, <1>3, Zenon
<1>5. /\ spc' = "blob" => entries # {} /\ NextPath \in approved
      /\ spc' \in {"encode", "returned"} => entries = {}
      /\ spc' = "returned" => exported = approved
  <2>1. CASE NextEntry
    BY <2>1 DEF NextEntry, EntryAllowed
  <2>2. CASE Encode
    BY <2>2 DEF Encode, EntriesFit
  <2> QED BY <2>1, <2>2
<1>6. EntriesFit'
  BY <1>1, <1>3, <1>4, <1>5 DEF EntriesFit
<1> QED BY <1>2, <1>6

LEMMA BlobKeeps ==
  ASSUME SnapshotTyped, PipesFit, EntriesFit, BlobRead
  PROVE  SnapshotTyped' /\ PipesFit' /\ EntriesFit'
<1>1. /\ spc = "blob" /\ Reset /\ UNCHANGED <<tree, approved>> /\ commit' = commit
      /\ \/ /\ tree[NextPath] = "same" /\ exported' = exported \cup {NextPath}
            /\ entries' = entries \ {NextPath} /\ spc' = "entry"
         \/ spc' = "raised" /\ UNCHANGED <<exported, entries>>
  BY DEF BlobRead
<1>2. entries # {} /\ NextPath \in approved /\ commit /\ Tree = exported \cup entries
      /\ \A p \in exported : p \in approved /\ tree[p] = "same"
  BY <1>1 DEF EntriesFit
<1>3. NextPath \in entries /\ NextPath \in Paths
  BY <1>2, NextPathIs
<1>4. SnapshotTyped' /\ PipesFit'
  <2>1. approved' \subseteq Paths /\ exported' \subseteq Paths /\ entries' \subseteq Paths
    BY <1>1, <1>3 DEF SnapshotTyped
  <2> QED BY <1>1, <2>1, ResetFits
<1>5. commit' /\ Tree' = Tree
  <2>1. commit'
    BY <1>1, <1>2, Zenon
  <2> QED BY <1>1, <2>1, OutputCounts
<1>6. EntriesFit'
  <2>1. CASE spc' = "raised"
    BY <2>1 DEF EntriesFit
  <2>2. CASE /\ tree[NextPath] = "same" /\ exported' = exported \cup {NextPath}
             /\ entries' = entries \ {NextPath} /\ spc' = "entry"
    <3>1. Tree' = exported' \cup entries'
      BY <1>2, <1>3, <1>5, <2>2
    <3>2. \A p \in exported' : p \in approved' /\ tree'[p] = "same"
      BY <1>1, <1>2, <2>2
    <3> QED BY <1>5, <2>2, <3>1, <3>2 DEF EntriesFit
  <2> QED BY <1>1, <2>1, <2>2
<1> QED BY <1>4, <1>6

LEMMA SnapshotSame ==
  ASSUME SnapshotTyped, PipesFit, EntriesFit, UNCHANGED snapshotVars
  PROVE  SnapshotTyped' /\ PipesFit' /\ EntriesFit'
<1>1. /\ UNCHANGED <<tree, approved, spc, git, wrote, kept, drain, entries, exported>>
      /\ commit' = commit /\ inherits' = inherits /\ GitSame
  BY DEF snapshotVars, GitSame
<1>2. SnapshotTyped'
  BY <1>1 DEF SnapshotTyped
<1>3. PipesFit'
  BY <1>1, OutputCounts DEF PipesFit, Calling
<1>4. EntriesFit'
  BY <1>1, EntriesSame
<1> QED BY <1>2, <1>3, <1>4

LEMMA SnapshotStays ==
  ASSUME SnapshotInv, [Next]_vars
  PROVE  SnapshotInv'
<1>1. form' = form
  BY FormStays
<1>2. CASE UNCHANGED snapshotVars
  BY <1>1, <1>2, SnapshotSame DEF SnapshotInv
<1>3. CASE SnapshotHost \/ SnapshotAround
  <2>1. form = "snapshot" /\ SnapshotTyped /\ PipesFit /\ EntriesFit
    BY <1>3 DEF SnapshotHost, SnapshotAround, SnapshotInv
  <2>2. CASE GitStarts \/ GitRuns \/ DrainOutput \/ DrainErrors \/ GitOverdue \/ GitRefused
    <3>1. SnapshotTyped' /\ PipesFit' /\ GitSame /\ spc' \in {spc, "raised"}
      BY <2>1, <2>2, CommandKeeps
    <3> QED BY <2>1, <3>1, EntriesSame DEF SnapshotInv
  <2>3. CASE TypeKnown \/ TreeListed \/ NextEntry \/ BlobRead \/ Encode
    BY <2>1, <2>3, TypeKeeps, ListKeeps, EntryKeeps, BlobKeeps DEF SnapshotInv
  <2> QED BY <1>3, <2>2, <2>3 DEF SnapshotHost, SnapshotAround, SnapshotStep, GitProcess
<1> QED
  BY <1>2, <1>3
  DEF Next, HostNext, Outside, FixtureHost, FixtureOutside, JobHost, JobAround, ReviewHost, ReviewOutside,
      ProcessHost, ProcessAround, GuestProgram, ClockNext, vars, sideVars

LEMMA SnapshotBegins ==
  ASSUME Init
  PROVE  SnapshotInv
<1>1. CASE form = "snapshot"
  <2>1. SnapshotInit
    BY <1>1 DEF Init
  <2>2. inherits \in BOOLEAN
    BY <2>1, Zenon DEF SnapshotInit, NoGit
  <2>3. /\ tree \in [Paths -> Kinds] /\ approved \subseteq Paths /\ exported = {} /\ entries = {} /\ spc = "type"
        /\ git = "none" /\ wrote = 0 /\ kept = 0 /\ drain = <<"eof", "eof">>
    BY <2>1 DEF SnapshotInit, NoGit
  <2>4. SnapshotTyped
    BY <2>2, <2>3 DEF SnapshotTyped
  <2>5. PipesFit
    BY <2>3, OutputCounts DEF PipesFit
  <2>6. EntriesFit
    BY <2>3 DEF EntriesFit
  <2> QED BY <2>4, <2>5, <2>6 DEF SnapshotInv
<1>2. CASE form # "snapshot"
  BY <1>2 DEF SnapshotInv
<1> QED BY <1>1, <1>2

-----------------------------------------------------------------------------
(* Safety: what comes back from a child process is whole.  An export that  *)
(* returns has every entry of the approved commit and nothing else,        *)
(* whatever the Git processes and the threads that read them did; run()    *)
(* returns the worker's result only when it was the only one, with every   *)
(* event before it recorded; and on the guest's line a result is the last  *)
(* frame, an executor's own only after events that were written whole      *)
(* (snapshot.py, process.py, runtime.py).                                  *)
THEOREM ResultsWhole == Spec => []ResultsAreWhole
<1> DEFINE Inv == ProcessInv /\ NoProcess /\ FramesInv /\ SnapshotInv
<1>1. Init => Inv
  BY ProcessBegins, FramesBegin, SnapshotBegins
<1>2. Inv /\ [Next]_vars => Inv'
  BY ProcessStays, FramesStay, SnapshotStays
<1>3. Inv => ResultsAreWhole
  <2> SUFFICES ASSUME Inv PROVE ResultsAreWhole
    OBVIOUS
  <2>1. ASSUME form = "snapshot", spc = "returned"
        PROVE  /\ commit /\ exported = approved
               /\ \A p \in Paths : tree[p] = IF p \in approved THEN "same" ELSE "absent"
    <3>1. /\ commit /\ Tree = exported \cup entries /\ entries = {} /\ exported = approved
          /\ \A p \in exported : p \in approved /\ tree[p] = "same"
      BY <2>1 DEF SnapshotInv, EntriesFit
    <3>2. \A p \in Paths : p \notin approved => tree[p] = "absent"
      BY <3>1 DEF Tree
    <3> QED BY <3>1, <3>2
  <2>2. SnapshotIsApproved
    BY <2>1 DEF SnapshotIsApproved
  <2>3. ResultIsWhole
    BY ProcessIsWhole, GuestIsWhole DEF ResultIsWhole
  <2> QED BY <2>2, <2>3 DEF ResultsAreWhole
<1> QED BY <1>1, <1>2, <1>3, PTL DEF Spec

-----------------------------------------------------------------------------
(* Types: what the invariants above leave open. *)

ControlTyped == expired \in BOOLEAN /\ cancelRequested \in BOOLEAN /\ faults \in 0..MaxFaults

MachineTyped ==
  /\ vm \in {"none", "created", "starting", "running", "stopped", "gone"}
  /\ evidence \in {None, "passed", "failed"} /\ error \in BOOLEAN

(* The parts that rest in a form that has none of them. *)
RestTyped ==
  /\ form # "job" => ModelTyped /\ turn \in 0..MaxTurns /\ used \in 0..MaxToolCalls /\ seen \subseteq Ids
  /\ form # "snapshot" =>
       /\ git \in {"none", "running", "ok", "failed", "killed"} /\ kept \in 0..wrote /\ exported \subseteq Paths
  /\ form # "guest" => emitted \in 0..MaxEvents + 1

(* Every step works, or raises and is counted. *)
LEMMA SessionFaults ==
  ASSUME SessionStep \/ SessionGuest
  PROVE  (Works \/ Fails) /\ UNCHANGED control
BY Zenon DEF SessionStep, SessionGuest, NoReply, FinishAbort, CloseConn, GuestServes, Noise

LEMMA FixtureFaults ==
  ASSUME FixtureStep \/ FixtureMachine \/ FixtureCancel
  PROVE  (Works \/ Fails) /\ UNCHANGED control
BY Zenon DEF FixtureStep, FixtureMachine, FixtureCancel, Create, Start, Poll, Boot, Stop, TransferStep, TransferGoesOn, TransferFails,
       CheckReport, CloseSession, CancelTransport, CloseConn, Destroy

LEMMA ToolFaults ==
  ASSUME NEW id, NEW tool \in Tools, NEW ok, Invoke(id, tool, ok)
  PROVE  Works \/ Fails
<1>1. \/ Read(ok) \/ Edit(id, ok) \/ StaleEdit(ok) \/ CreateFile(id, ok) \/ WriteArtifact(id, ok) \/ RunCommand(id, ok)
      \/ Works
  BY DEF Invoke, Tools
<1> QED BY <1>1, Zenon DEF Read, Walk, Edit, StaleEdit, CreateFile, WriteArtifact, RunCommand

LEMMA JobFaults ==
  ASSUME JobStep \/ InferenceStep \/ InferenceChild \/ JobOutside
  PROVE  /\ Works \/ Fails
         /\ expired' = expired /\ cancelRequested' \in {cancelRequested, TRUE}
<1>1. Works \/ Fails
  <2>1. CASE JobStep
    <3>1. AuthorizeJob \/ BeginTurn \/ InferenceFails \/ ModelAnswers \/ NextCall \/ RefusedByHost => Works \/ Fails
      BY Zenon DEF AuthorizeJob, BeginTurn, Fetch, InferenceFails, ModelAnswers, NextCall, RefusedByHost
    <3>2. SendCall \/ ToolResult \/ CallEnds \/ AfterCall \/ Conclude => Works \/ Fails
      BY Zenon DEF SendCall, ToolResult, CallEnds, AfterCall, Conclude
    <3>3. StopSession \/ StopModel \/ CancellerActs => Works \/ Fails
      BY Zenon DEF StopSession, StopModel, CancellerActs, CancelTransport, CloseConn, Revoke
    <3> QED BY <2>1, <3>1, <3>2, <3>3, Zenon DEF JobStep
  <2>2. CASE InferenceStep \/ InferenceChild
    BY <2>2, Zenon DEF InferenceStep, InferenceChild, Authorize, SendRequest, Receive, Parse, InferCloses, InferReaps,
                       RevokeCloses, RevokeReaps, Reap, ChildAnswers, Model
  <2>3. CASE JobOutside
    BY <2>3, ToolFaults, Zenon DEF JobOutside, RequestCancel, GuestRunsTool
  <2> QED BY <2>1, <2>2, <2>3
<1>2. UNCHANGED control \/ RequestCancel
  BY Zenon DEF JobStep, InferenceStep, InferenceChild, JobOutside, CancellerActs
<1> QED BY <1>1, <1>2 DEF control, RequestCancel

LEMMA ReviewFaults ==
  ASSUME ReviewStep \/ ReviewCrash
  PROVE  (Works \/ Fails) /\ UNCHANGED control
BY Zenon DEF ReviewStep, ReviewCrash, HostDies, RetrieveStep, RetrieveGoesOn, RetrieveFails, Retrieved, ReviewCloses,
       ReviewDestroys, MakeDirectory, WriteFile, BundleSaved, CopyArtifact, RecordArtifact, ArtifactsCollected,
       CancelTransport, CloseConn

LEMMA ProcessFaults ==
  ASSUME ProcessStep \/ ProcessOutside
  PROVE  /\ Works \/ Fails
         /\ expired' = expired /\ cancelRequested' \in {cancelRequested, TRUE}
<1>1. Works \/ Fails
  BY Zenon DEF ProcessStep, ProcessOutside, ProcessCancel, Spawn, Pump, SendTask, TaskTaken, Take, RecordEvent, Look, NoteEnd,
               ChildWrites, ChildExits
<1>2. UNCHANGED control \/ ProcessCancel
  BY Zenon DEF ProcessStep, ProcessOutside
<1> QED BY <1>1, <1>2 DEF control, ProcessCancel

LEMMA SideFaults ==
  ASSUME SnapshotStep \/ GitProcess \/ RuntimeStep
  PROVE  (Works \/ Fails) /\ UNCHANGED control
<1>1. CASE SnapshotStep \/ GitProcess
  BY <1>1, Zenon DEF SnapshotStep, GitProcess, GitStarts, GitRuns, DrainOutput, DrainErrors, GitOverdue, GitRefused,
       TypeKnown, TreeListed, NextEntry, BlobRead, Encode
<1>2. CASE RuntimeStep
  BY <1>2, Zenon DEF RuntimeStep, OpenSerial, ReadTask, ValidateWorkspace, Emit, ExecutorReturns, WriteResult, Breaks
<1> QED BY <1>1, <1>2

LEMMA ControlStays ==
  ASSUME ControlTyped, [Next]_vars
  PROVE  ControlTyped'
<1>1. /\ Works \/ Fails
      /\ expired' \in {expired, TRUE} /\ cancelRequested' \in {cancelRequested, TRUE}
  <2>1. CASE FixtureHost \/ FixtureOutside
    BY <2>1, FixtureFaults, SessionFaults DEF FixtureHost, FixtureOutside, control
  <2>2. CASE JobHost \/ JobAround
    BY <2>2, JobFaults, SessionFaults DEF JobHost, JobAround, control
  <2>3. CASE ReviewHost \/ ReviewOutside
    BY <2>3, ReviewFaults, SessionFaults DEF ReviewHost, ReviewOutside, control
  <2>4. CASE ProcessHost \/ ProcessAround
    BY <2>4, ProcessFaults DEF ProcessHost, ProcessAround
  <2>5. CASE SnapshotHost \/ SnapshotAround \/ GuestProgram
    BY <2>5, SideFaults DEF SnapshotHost, SnapshotAround, GuestProgram, control
  <2>6. CASE ClockNext
    BY <2>6 DEF ClockNext, DeadlinePasses, Works
  <2>7. CASE UNCHANGED vars
    BY <2>7 DEF vars, control, Works
  <2> QED BY <2>1, <2>2, <2>3, <2>4, <2>5, <2>6, <2>7 DEF Next, HostNext, Outside
<1>2. faults' \in 0..MaxFaults
  BY <1>1, FaultAssumption DEF Works, Fails, ControlTyped
<1>3. expired' \in BOOLEAN /\ cancelRequested' \in BOOLEAN
  BY <1>1, Zenon DEF ControlTyped
<1> QED BY <1>2, <1>3, Zenon DEF ControlTyped

(* The machine, and what a fixture run made of its report. *)
LEMMA MachineStays ==
  ASSUME MachineTyped, [Next]_vars
  PROVE  MachineTyped'
<1>1. CASE UNCHANGED <<vm, fixtureVars>>
  <2>1. vm' = vm /\ evidence' = evidence /\ error' = error
    BY <1>1 DEF fixtureVars
  <2> QED BY <2>1, Zenon DEF MachineTyped
<1>2. CASE FixtureHost \/ FixtureOutside
  <2>1. CASE FixtureStep \/ FixtureMachine
    <3>1. vm' \in {"none", "created", "starting", "running", "stopped", "gone"}
      BY <2>1 DEF MachineTyped, FixtureStep, FixtureMachine, Create, Start, Poll, Boot, Stop, TransferStep,
                  TransferGoesOn, TransferFails, CheckReport, CloseSession, Destroy
    <3>2. evidence' \in {None, "passed", "failed"}
      BY <2>1 DEF MachineTyped, FixtureStep, FixtureMachine, Create, Start, Poll, Boot, Stop, TransferStep,
                  TransferGoesOn, TransferFails, CheckReport, CloseSession, Destroy
    <3>3. error' \in BOOLEAN
      <4>1. error \in BOOLEAN
        BY DEF MachineTyped
      <4>2. error' = error \/ error' = TRUE \/ error' = (error \/ canc["worker"] = "raised")
        BY <2>1, Zenon DEF FixtureStep, FixtureMachine, Create, Start, Poll, Boot, Stop, TransferStep,
                  TransferGoesOn, TransferFails, CheckReport, CloseSession, Destroy, RaiseTo
      <4> QED BY <4>1, <4>2, Zenon
    <3> QED BY <3>1, <3>2, <3>3, Zenon DEF MachineTyped
  <2>2. CASE FixtureCancel
    BY <1>1, <2>2 DEF FixtureCancel
  <2> QED BY <1>1, <1>2, <2>1, <2>2 DEF FixtureHost, FixtureOutside
<1>3. CASE ReviewHost \/ ReviewOutside
  <2>1. CASE ReviewStep \/ ReviewCrash
    <3>1. UNCHANGED fixtureVars
      BY <2>1, Zenon DEF ReviewStep, ReviewCrash, HostDies, RetrieveStep, RetrieveGoesOn, RetrieveFails, Retrieved,
           ReviewCloses, ReviewDestroys, MakeDirectory, WriteFile, BundleSaved, CopyArtifact, RecordArtifact,
           ArtifactsCollected, Rest
    <3>2. vm' = vm \/ vm' = "gone"
      BY <2>1, Zenon DEF ReviewStep, ReviewCrash, HostDies, RetrieveStep, RetrieveGoesOn, RetrieveFails, Retrieved,
           ReviewCloses, ReviewDestroys, MakeDirectory, WriteFile, BundleSaved, CopyArtifact, RecordArtifact,
           ArtifactsCollected
    <3>3. evidence' = evidence /\ error' = error
      BY <3>1 DEF fixtureVars
    <3>4. evidence' \in {None, "passed", "failed"} /\ error' \in BOOLEAN
      BY <3>3, Zenon DEF MachineTyped
    <3> QED BY <3>2, <3>4, Zenon DEF MachineTyped
  <2> QED BY <1>1, <1>3, <2>1 DEF ReviewHost, ReviewOutside
<1>4. CASE JobHost \/ JobAround
  <2>1. UNCHANGED <<vm, fixtureVars>>
    <3>1. JobStep => UNCHANGED <<vm, fixtureVars>>
      BY Zenon DEF JobStep, AuthorizeJob, BeginTurn, InferenceFails, ModelAnswers, NextCall, RefusedByHost, SendCall,
           ToolResult, CallEnds, AfterCall, StopSession, StopModel, Conclude, CancellerActs, LoopRests
    <3>2. JobOutside => UNCHANGED <<vm, fixtureVars>>
      BY Zenon DEF JobOutside, RequestCancel, GuestRunsTool, LoopRests
    <3> QED BY <1>4, <3>1, <3>2 DEF JobHost, JobAround, runVars
  <2> QED BY <1>1, <2>1
<1> QED
  BY <1>1, <1>2, <1>3, <1>4
  DEF Next, HostNext, Outside, ProcessHost, ProcessAround, SnapshotHost, SnapshotAround, GuestProgram, ClockNext,
      vars, runVars

LEMMA RestStays ==
  ASSUME RestTyped, [Next]_vars
  PROVE  RestTyped'
<1>1. form' = form
  BY FormStays
<1>2. form # "job" => UNCHANGED jobVars
  BY DEF Next, HostNext, Outside, FixtureHost, FixtureOutside, JobHost, JobAround, ReviewHost, ReviewOutside,
         ProcessHost, ProcessAround, SnapshotHost, SnapshotAround, GuestProgram, ClockNext, vars
<1>3. form # "snapshot" => UNCHANGED snapshotVars
  BY DEF Next, HostNext, Outside, FixtureHost, FixtureOutside, JobHost, JobAround, ReviewHost, ReviewOutside,
         ProcessHost, ProcessAround, SnapshotHost, SnapshotAround, GuestProgram, ClockNext, vars, sideVars
<1>4. form # "guest" => UNCHANGED runtimeVars
  BY DEF Next, HostNext, Outside, FixtureHost, FixtureOutside, JobHost, JobAround, ReviewHost, ReviewOutside,
         ProcessHost, ProcessAround, SnapshotHost, SnapshotAround, GuestProgram, ClockNext, vars, sideVars
<1>5. form # "job" => ModelTyped' /\ turn' \in 0..MaxTurns /\ used' \in 0..MaxToolCalls /\ seen' \subseteq Ids
  <2>1. SUFFICES ASSUME form # "job"
        PROVE  ModelTyped' /\ turn' \in 0..MaxTurns /\ used' \in 0..MaxToolCalls /\ seen' \subseteq Ids
    OBVIOUS
  <2>2. UNCHANGED <<requests, lease, stopped, inf, child, revoke, closer, turn, used, seen>>
    BY <1>2, <2>1 DEF jobVars, inferenceVars, modelVars, loopVars
  <2> QED BY <2>1, <2>2 DEF RestTyped, ModelTyped
<1>6. form # "snapshot" => /\ git' \in {"none", "running", "ok", "failed", "killed"} /\ kept' \in 0..wrote'
                           /\ exported' \subseteq Paths
  BY <1>3 DEF RestTyped, snapshotVars
<1>7. form # "guest" => emitted' \in 0..MaxEvents + 1
  BY <1>4 DEF RestTyped, runtimeVars
<1> QED BY <1>1, <1>5, <1>6, <1>7, Zenon DEF RestTyped

LEMMA TypesBegin ==
  ASSUME Init
  PROVE  ControlTyped /\ MachineTyped /\ RestTyped
<1>1. ControlTyped
  <2>1. faults = 0 /\ expired = FALSE /\ cancelRequested = FALSE
    BY DEF Init, ControlInit
  <2>2. faults \in 0..MaxFaults
    BY <2>1, FaultAssumption
  <2> QED BY <2>1, <2>2, Zenon DEF ControlTyped
<1>2. MachineTyped
  <2>1. (vm = "none" \/ vm = "running") /\ evidence = None /\ error = FALSE
    BY Zenon DEF Init, FixtureForm, JobForm, ReviewForm, ArtifactsForm, NoRunForm, ProcessForm, FixtureInit, JobInit,
           ReviewInit, FixtureRest
  <2> QED BY <2>1, Zenon DEF MachineTyped
<1>3. ASSUME form # "job"
      PROVE  ModelTyped /\ turn \in 0..MaxTurns /\ used \in 0..MaxToolCalls /\ seen \subseteq Ids
  <2>1. NoModelInit /\ LoopRest
    BY <1>3, FormsAssumption DEF Init, FixtureForm, ReviewForm, ArtifactsForm, NoRunForm, ProcessForm
  <2>2. turn \in 0..MaxTurns /\ used \in 0..MaxToolCalls /\ seen \subseteq Ids /\ requests \in 0..MaxRequests
    BY <2>1, JobLimits DEF NoModelInit, LoopRest
  <2>3. lease \in BOOLEAN /\ stopped \in BOOLEAN
    BY <2>1, Zenon DEF NoModelInit
  <2>4. /\ inf = "idle" /\ child = "dead" /\ closer = "nobody"
        /\ revoke \in [Revokers -> {"no", "popped", "in", "clean", "raised"}]
    BY <2>1 DEF NoModelInit
  <2>5. ModelTyped
    BY <2>2, <2>3, <2>4, Zenon DEF ModelTyped
  <2> QED BY <2>2, <2>5
<1>4. ASSUME form # "snapshot"
      PROVE  /\ git \in {"none", "running", "ok", "failed", "killed"} /\ kept \in 0..wrote /\ exported \subseteq Paths
  BY <1>4 DEF Init, SnapshotRest, NoGit
<1>5. ASSUME form # "guest"
      PROVE  emitted \in 0..MaxEvents + 1
  BY <1>5, EventsAssumption DEF Init, RuntimeRest
<1> QED BY <1>1, <1>2, <1>3, <1>4, <1>5, Zenon DEF RestTyped

(* Type correctness: the composed state of every form stays within its      *)
(* types and its bounds, whatever is lost, cancelled or raised (the modules *)
(* of night_shifts that NightWorker composes).                              *)
THEOREM TypeCorrect == Spec => []TypeOK
<1> DEFINE Inv == /\ SessionInv /\ Batches /\ CallsInv /\ NoCalls /\ ModelInv /\ NoModel /\ ReviewInv
                  /\ ProcessInv /\ NoProcess /\ FramesInv /\ SnapshotInv
                  /\ ControlTyped /\ MachineTyped /\ RestTyped
<1>1. Init => Inv
  BY SessionBegins, CallsBegin, ModelBegins, ReviewBegins, ProcessBegins, FramesBegin, SnapshotBegins, TypesBegin
<1>2. Inv /\ [Next]_vars => Inv'
  BY SessionStays, CallsStay, ModelStays, ReviewStays, ProcessStays, FramesStay, SnapshotStays,
     ControlStays, MachineStays, RestStays
<1>3. Inv => TypeOK
  <2> SUFFICES ASSUME Inv PROVE TypeOK
    OBVIOUS
  <2>1. ControlTyped /\ MachineTyped
    OBVIOUS
  <2>2. /\ phase \in Phases /\ closed \in BOOLEAN /\ nextId \in Nat
        /\ loadOff \in 0..Chunks /\ exportOff \in 0..ReportChunks
        /\ conn \in {"open", "closed", "stuck"} /\ ended \in {"none", "ok", "error"}
        /\ op \in Operations \cup {None}
        /\ canc \in [Callers -> {"no", "flag", "done", "raised"}]
    BY Zenon DEF SessionInv, SessionTyped
  <2>3. guest.incoming \in 0..Chunks /\ guest.sent \in 0..ReportChunks
    BY DEF SessionInv, SessionTyped, Guests
  <2>4. /\ ModelTyped /\ turn \in 0..MaxTurns /\ used \in 0..MaxToolCalls /\ seen \subseteq Ids
    BY Zenon DEF ModelInv, CallsInv, LoopTyped, RestTyped
  <2>5. effects \in [Ids -> Nat]
    BY DEF CallsInv, LoopTyped, NoCalls
  <2>6. bundle \in [BundleFiles -> {"absent", "torn", "whole"}] /\ records \subseteq Artifacts
    BY DEF ReviewInv, ReviewTyped
  <2>7. proc \in {"none", "running", "exited"} /\ said \in Seq(Lines)
    <3>1. CASE form = "process"
      BY <3>1 DEF ProcessInv, ProcessTyped
    <3>2. CASE form # "process"
      <4>1. proc = "none" /\ said = <<>>
        BY <3>2 DEF NoProcess
      <4> QED BY <4>1
    <3> QED BY <3>1, <3>2
  <2>8. git \in {"none", "running", "ok", "failed", "killed"} /\ kept \in 0..wrote /\ exported \subseteq Paths
    BY Zenon DEF SnapshotInv, SnapshotTyped, RestTyped
  <2>9. emitted \in 0..MaxEvents + 1
    BY DEF FramesInv, FramesTyped, RestTyped
  <2> QED
    BY <2>1, <2>2, <2>3, <2>4, <2>5, <2>6, <2>7, <2>8, <2>9, Zenon
    DEF TypeOK, ControlTyped, MachineTyped, ModelTyped, Phases
<1> QED BY <1>1, <1>2, <1>3, PTL DEF Spec
====
