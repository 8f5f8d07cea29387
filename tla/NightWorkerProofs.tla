---------------------------- MODULE NightWorkerProofs ---------------------------
(* Theorems about NightWorker, for any numbers of chunks, requests, turns, *)
(* calls, faults and artifacts.                                            *)
EXTENDS NightWorker, SequenceTheorems, FiniteSetTheorems, TLAPS

-----------------------------------------------------------------------------
(* The session: ToolSession. *)

Phases == {"new", "loading", "ready", "exporting", "done"}
Guests == [phase : Phases \cup {"closed"}, expects : Nat, incoming : 0..Chunks, sent : 0..ReportChunks]
At(place) == op # None /\ op.at = place
Live == op # None /\ op.at \in {"send", "wait", "settle"}

SessionTyped ==
  /\ phase \in Phases /\ closed \in BOOLEAN /\ nextId \in Nat
  /\ loadOff \in 0..Chunks /\ exportOff \in 0..ReportChunks
  /\ conn \in {"open", "closed", "stuck"} /\ ended \in {"none", "ok", "error"}
  /\ canc \in [Callers -> {"no", "flag", "done", "raised"}]
  /\ guest \in Guests /\ op \in Operations \cup {None}

(* An end that still waits for chunks has not got them all. *)
Unfinished ==
  /\ phase \in {"new", "loading"} => loadOff < Chunks
  /\ phase # "done" => exportOff < ReportChunks
  /\ guest.phase \in {"new", "loading"} => guest.incoming < Chunks
  /\ guest.phase \notin {"done", "closed"} => guest.sent < ReportChunks

(* An operation in flight is one of its phase; a failed one has closed the *)
(* session.                                                                *)
OpFits ==
  /\ op # None => ended = "none"
  /\ Live => phase = OpPhase[op.name]
  /\ At("closing") \/ ended = "error" => closed

(* What a good reply to the operation says of the guest. *)
Served ==
  /\ op.name = "hello" => guest.phase # "new"
  /\ op.name = "load" => guest.incoming = loadOff + 1
  /\ op.name = "finalize" => guest.phase \in {"exporting", "done", "closed"}
  /\ op.name = "export" => guest.sent = exportOff + 1 /\ (wire.flag <=> guest.sent = ReportChunks)

(* A request asks for what comes next.  The line is empty when an operation *)
(* is sent, and while it is answered it carries nothing of another one.    *)
WireFits ==
  /\ wire # None => closed \/ op # None
  /\ wire # None /\ wire.dir = "request" =>
       /\ wire.name = "load" => wire.offset = loadOff /\ (wire.final <=> loadOff + 1 = Chunks)
       /\ wire.name = "export" => wire.offset = exportOff
  /\ At("send") => wire = None
  /\ At("wait") /\ wire # None =>
       \/ wire.dir = "request" /\ wire.name = op.name /\ wire.arg = op.arg
       \/ wire.dir = "reply" /\ (wire.kind = "ok" => Served)
  /\ At("settle") => wire # None /\ wire.dir = "reply" /\ wire.kind = "ok" /\ Served

SessionInv == SessionTyped /\ Agreement /\ Unfinished /\ OpFits /\ WireFits

-----------------------------------------------------------------------------
(* A fixture run: FixtureRun. *)

(* The canceller closed the session first: its transport is closed, or is  *)
(* the canceller's to close.                                               *)
LeftToCanceller == canc["canceller"] \in {"flag", "raised"}
Cancelled == LeftToCanceller \/ (canc["canceller"] = "done" /\ conn = "closed")

(* While a transfer runs only a failed operation or the canceller has      *)
(* closed the session.                                                     *)
OwnClose ==
  /\ canc["worker"] = "no"
  /\ closed => At("closing") \/ ended = "error" \/ Cancelled

Clean == pc \in {"close", "destroy", "return"} /\ ~error

FixtureFits ==
  form = "fixture" =>
    /\ pc \in {"create", "start", "poll", "transfer"} => OwnClose
    /\ pc \in {"create", "start", "poll"} => op = None /\ ended = "none"
    /\ pc \in {"create", "start", "poll", "transfer", "close", "destroy", "return"}
    /\ Clean => op = None /\ ended = "none" /\ phase = "done"
    /\ Clean /\ pc = "close" =>
         /\ canc["worker"] = "no" /\ closed => Cancelled
         /\ canc["worker"] = "done" => conn = "closed" \/ LeftToCanceller
    /\ Clean /\ pc \in {"destroy", "return"} => conn = "closed" \/ LeftToCanceller
    /\ Clean /\ pc = "return" /\ cleanup = {} => vm = "gone"

-----------------------------------------------------------------------------
(* What is stored of a run: ReviewBundle. *)

ReviewTyped ==
  /\ bundle \in [BundleFiles -> {"absent", "torn", "whole"}]
  /\ copies \in [Artifacts -> {"absent", "torn", "whole"}] /\ records \subseteq Artifacts

Collecting == {"retrieve", "close_session", "destroy_vm", "mkdir", "write"}

ReviewFits ==
  form = "review" =>
    /\ pc \in Collecting \cup {"return", "raised"}
    /\ given \in [result : Results, checks : CheckResults, replay : Receipts]
    /\ diag = [reasons |-> diag.reasons, clean |-> diag.clean]
    /\ final \in {None, workspace} /\ workspace \in {"same", "changed", "unsafe"}
    /\ pc = "retrieve" => OwnClose /\ final = None
    /\ canc["canceller"] = "no"
    /\ pc # "retrieve" /\ final # None => op = None /\ ended = "none" /\ phase = "done"
    /\ pc = "close_session" /\ final # None =>
         /\ canc["worker"] = "no" => ~closed
         /\ canc["worker"] = "done" => conn = "closed"
    /\ pc \notin {"retrieve", "close_session"} /\ final # None => conn = "closed"
    /\ diag.clean => vm = "gone" /\ pc \notin {"retrieve", "close_session", "destroy_vm"}
    /\ pc \in Collecting \ {"write"} => \A f \in BundleFiles : bundle[f] = "absent"

Earlier(i) == {j \in 1..i - 1 : WriteOrder[j] = "patch" => HasPatch}

(* The files are written in their order; the report says what was so. *)
InOrder ==
  form = "review" =>
    /\ \A i \in 1..5 : bundle[WriteOrder[i]] # "absent" =>
         \A j \in Earlier(i) : bundle[WriteOrder[j]] = "whole"
    /\ bundle["report"] = "whole" => report = [state |-> StateOf, about |-> final]

NotWritten ==
  /\ form = "artifacts" => pc \in {"copy", "return", "raised"}
  /\ form # "review" => \A f \in BundleFiles : bundle[f] = "absent"

CopiesWhole == \A a \in records : copies[a] = "whole"

ReviewInv == ReviewTyped /\ ReviewFits /\ InOrder /\ NotWritten /\ CopiesWhole


LEMMA Limits ==
  /\ Chunks \in Nat \ {0} /\ ReportChunks \in Nat \ {0} /\ MaxFaults \in Nat
  /\ DOMAIN OpPhase = {"hello", "load", "tool", "finalize", "export"}
  /\ OpPhase["hello"] = "new" /\ OpPhase["load"] = "loading" /\ OpPhase["tool"] = "ready"
  /\ OpPhase["finalize"] = "ready" /\ OpPhase["export"] = "exporting"
BY SessionAssumption, FaultAssumption DEF OpPhase

(* An operation that is begun, and one that goes on to another place. *)
LEMMA OperationIs ==
  ASSUME NEW o \in Operations
  PROVE  o # None /\ o.name \in DOMAIN OpPhase /\ o.id \in Nat
BY NoneAssumption DEF Operations

LEMMA OperationMoves ==
  ASSUME op \in Operations \cup {None}, op # None, NEW place \in {"wait", "settle", "abort", "closing"},
         Goto(place)
  PROVE  /\ op' \in Operations /\ op' # None
         /\ op'.name = op.name /\ op'.arg = op.arg /\ op'.id = op.id /\ op'.at = place
<1>1. op \in Operations /\ op' = [op EXCEPT !.at = place]
  BY DEF Goto
<1>2. op' \in Operations
  BY <1>1 DEF Operations
<1> QED BY <1>1, <1>2, OperationIs DEF Operations

LEMMA BeginKeeps ==
  ASSUME SessionInv, NEW name \in DOMAIN OpPhase, NEW arg \in Ids \cup {None}, BeginOp(name, arg)
  PROVE  SessionInv'
<1> USE DEF SessionInv
<1>1. PICK place \in {"send", "abort"} :
        /\ op' = [name |-> name, arg |-> arg, id |-> nextId, at |-> place]
        /\ nextId' \in Nat
        /\ place = "send" => ~closed /\ phase = OpPhase[name]
  BY DEF BeginOp, RequirePhase, SessionTyped
<1>2. /\ op'.name = name /\ op'.arg = arg /\ op'.id = nextId /\ op'.at = place
      /\ op = None /\ ended = "none" /\ op' \in Operations /\ op' # None
      /\ UNCHANGED <<phase, closed, loadOff, exportOff, conn, canc, ended, wire, guest>>
  BY <1>1, OperationIs DEF BeginOp, Idle, Operations, SessionTyped
<1>3. SessionTyped' /\ OpFits'
  BY <1>1, <1>2 DEF SessionTyped, OpFits, At, Live
<1>4. Agreement' /\ Unfinished'
  BY <1>2 DEF Agreement, Unfinished
<1>5. WireFits'
  BY <1>1, <1>2 DEF WireFits, At
<1> QED BY <1>3, <1>4, <1>5

LEMMA SendKeeps ==
  ASSUME SessionInv, SendOp
  PROVE  SessionInv'
<1> USE DEF SessionInv
<1>1. op # None /\ op.at = "send" /\ UNCHANGED <<session, conn, canc, ended, guest>>
  BY DEF SendOp
<1>2. UNCHANGED <<phase, closed, nextId, loadOff, exportOff>>
  BY <1>1 DEF session
<1>3. CASE wire' = Request /\ Goto("wait")
  <2>1. op'.name = op.name /\ op'.arg = op.arg /\ op'.at = "wait" /\ op' # None /\ op' \in Operations
    BY <1>1, <1>3, OperationMoves DEF SessionTyped
  <2>2. /\ wire'.dir = "request" /\ wire'.name = op.name /\ wire'.arg = op.arg
        /\ wire'.name = "load" => wire'.offset = loadOff /\ (wire'.final <=> loadOff + 1 = Chunks)
        /\ wire'.name = "export" => wire'.offset = exportOff
    BY <1>3 DEF Request
  <2>3. SessionTyped' /\ OpFits'
    BY <1>1, <1>2, <2>1 DEF SessionTyped, OpFits, At, Live
  <2>4. Agreement' /\ Unfinished'
    BY <1>1, <1>2 DEF Agreement, Unfinished
  <2>5. WireFits'
    BY <1>1, <1>2, <2>1, <2>2 DEF WireFits, At
  <2> QED BY <2>3, <2>4, <2>5
<1>4. CASE Goto("abort") /\ UNCHANGED wire
  <2>1. op'.at = "abort" /\ op' # None /\ op' \in Operations
    BY <1>1, <1>4, OperationMoves DEF SessionTyped
  <2>2. SessionTyped' /\ OpFits'
    BY <1>1, <1>2, <2>1 DEF SessionTyped, OpFits, At, Live
  <2>3. Agreement' /\ Unfinished'
    BY <1>1, <1>2 DEF Agreement, Unfinished
  <2>4. WireFits'
    BY <1>1, <1>2, <1>4, <2>1 DEF WireFits, At
  <2> QED BY <2>2, <2>3, <2>4
<1> QED BY <1>3, <1>4 DEF SendOp

LEMMA ReceiveKeeps ==
  ASSUME SessionInv, ReceiveOp
  PROVE  SessionInv'
<1> USE DEF SessionInv
<1>1. /\ op # None /\ op.at = "wait" /\ wire # None /\ wire.dir = "reply"
      /\ UNCHANGED <<session, conn, canc, ended, guest>>
  BY DEF ReceiveOp
<1>2. UNCHANGED <<phase, closed, nextId, loadOff, exportOff>>
  BY <1>1 DEF session
<1>3. CASE Acceptable(wire) /\ RequirePhase(OpPhase[op.name]) /\ Goto("settle") /\ UNCHANGED wire
  <2>1. op'.name = op.name /\ op'.arg = op.arg /\ op'.at = "settle" /\ op' # None /\ op' \in Operations
    BY <1>1, <1>3, OperationMoves DEF SessionTyped
  <2>2. SessionTyped' /\ OpFits'
    BY <1>1, <1>2, <1>3, <2>1 DEF SessionTyped, OpFits, At, Live, RequirePhase
  <2>3. Agreement' /\ Unfinished'
    BY <1>1, <1>2 DEF Agreement, Unfinished
  <2>4. wire.kind = "ok" /\ Served
    BY <1>1, <1>3 DEF WireFits, At, Acceptable
  <2>5. Served'
    BY <1>1, <1>2, <1>3, <2>1, <2>4 DEF Served
  <2>6. WireFits'
    BY <1>1, <1>2, <1>3, <2>1, <2>4, <2>5 DEF WireFits, At
  <2> QED BY <2>2, <2>3, <2>6
<1>4. CASE Goto("abort") /\ wire' = None
  <2>1. op'.at = "abort" /\ op' # None /\ op' \in Operations
    BY <1>1, <1>4, OperationMoves DEF SessionTyped
  <2>2. SessionTyped' /\ OpFits'
    BY <1>1, <1>2, <2>1 DEF SessionTyped, OpFits, At, Live
  <2>3. Agreement' /\ Unfinished'
    BY <1>1, <1>2 DEF Agreement, Unfinished
  <2>4. WireFits'
    BY <1>1, <1>2, <1>4, <2>1 DEF WireFits, At
  <2> QED BY <2>2, <2>3, <2>4
<1> QED BY <1>3, <1>4 DEF ReceiveOp

(* An operation that is given up leaves what is on the line.               *)
LEMMA NoReplyKeeps ==
  ASSUME SessionInv, NoReply
  PROVE  SessionInv'
<1> USE DEF SessionInv
<1>1. /\ op # None /\ op.at = "wait" /\ Goto("abort")
      /\ UNCHANGED <<phase, closed, nextId, loadOff, exportOff, conn, canc, ended, wire, guest>>
  BY DEF NoReply, session
<1>2. op'.at = "abort" /\ op' # None /\ op' \in Operations
  BY <1>1, OperationMoves DEF SessionTyped
<1>4. SessionTyped' /\ OpFits'
  BY <1>1, <1>2 DEF SessionTyped, OpFits, At, Live
<1>5. Agreement' /\ Unfinished'
  BY <1>1 DEF Agreement, Unfinished
<1>6. WireFits'
  BY <1>1, <1>2 DEF WireFits, At
<1> QED BY <1>4, <1>5, <1>6

LEMMA SettleKeeps ==
  ASSUME SessionInv, SettleOp
  PROVE  SessionInv' /\ wire' = None /\ op' = None /\ ended' = "ok"
<1> USE DEF SessionInv
<1>1. /\ op # None /\ op.at = "settle" /\ op \in Operations /\ op.name \in DOMAIN OpPhase
      /\ wire' = None /\ op' = None /\ ended' = "ok"
      /\ UNCHANGED <<closed, nextId, conn, canc, guest>>
  BY OperationIs DEF SettleOp, SessionTyped
<1>2. Served /\ phase = OpPhase[op.name] /\ ended = "none"
  BY <1>1 DEF WireFits, At, OpFits, Live
<1>3. CASE op.name \in {"hello", "tool", "finalize"}
  <2>1. loadOff' = loadOff /\ exportOff' = exportOff
    BY <1>3 DEF SettleOp
  <2>2. phase' = IF op.name = "hello" THEN "loading" ELSE IF op.name = "finalize" THEN "exporting" ELSE phase
    BY <1>3 DEF SettleOp
  <2>3. op.name = "hello" => loadOff < Chunks
    BY <1>2, Limits DEF SessionTyped, Agreement, Unfinished
  <2> QED
    BY <1>1, <1>2, <1>3, <2>1, <2>2, Limits
    DEF Served, SessionTyped, Agreement, Unfinished, OpFits, WireFits, At, Live, Phases, Guests
<1>4. CASE op.name = "load"
  <2>1. loadOff' = loadOff + 1 /\ exportOff' = exportOff
        /\ phase' = IF loadOff + 1 = Chunks THEN "ready" ELSE phase
    BY <1>4 DEF SettleOp
  <2>2. guest.incoming = loadOff + 1 /\ phase = "loading" /\ loadOff < Chunks
    BY <1>2, <1>4, Limits DEF Served, Unfinished
  <2>3. loadOff \in Nat /\ exportOff \in Nat /\ guest.incoming \in 0..Chunks
    BY Limits DEF SessionTyped, Guests
  <2>4. SessionTyped'
    BY <1>1, <2>1, <2>2, <2>3, Limits DEF SessionTyped, Phases
  <2>5. Agreement' /\ Unfinished'
    BY <1>1, <2>1, <2>2, <2>3, Limits DEF Agreement, Unfinished
  <2>6. OpFits' /\ WireFits'
    BY <1>1 DEF OpFits, WireFits, At, Live
  <2> QED BY <1>1, <2>4, <2>5, <2>6
<1>5. CASE op.name = "export"
  <2>1. loadOff' = loadOff /\ exportOff' = exportOff + 1
        /\ phase' = IF wire.flag THEN "done" ELSE phase
    BY <1>5 DEF SettleOp
  <2>2. guest.sent = exportOff + 1 /\ phase = "exporting" /\ (wire.flag <=> guest.sent = ReportChunks)
    BY <1>2, <1>5, Limits DEF Served
  <2>3. loadOff \in Nat /\ exportOff \in Nat /\ guest.sent \in 0..ReportChunks
    BY Limits DEF SessionTyped, Guests
  <2>4. SessionTyped'
    BY <1>1, <2>1, <2>2, <2>3, Limits DEF SessionTyped, Phases
  <2>5. Agreement' /\ Unfinished'
    BY <1>1, <2>1, <2>2, <2>3, Limits DEF Agreement, Unfinished
  <2>6. OpFits' /\ WireFits'
    BY <1>1 DEF OpFits, WireFits, At, Live
  <2> QED BY <1>1, <2>4, <2>5, <2>6
<1> QED BY <1>1, <1>3, <1>4, <1>5, Limits

LEMMA AbortKeeps ==
  ASSUME SessionInv, AbortOp \/ FinishAbort
  PROVE  SessionInv'
<1> USE DEF SessionInv
<1>1. /\ op # None /\ op.at \in {"abort", "closing"} /\ closed' \in BOOLEAN /\ (closed => closed')
      /\ UNCHANGED <<phase, nextId, loadOff, exportOff, canc, wire, guest>>
      /\ conn' \in {"open", "closed", "stuck"}
  BY DEF AbortOp, FinishAbort, CloseConn, session, SessionTyped
<1>2. \/ op' = None /\ ended' = "error" /\ closed'
      \/ op' \in Operations /\ op' # None /\ op'.at = "closing" /\ closed' /\ ended' = ended
  BY OperationMoves DEF AbortOp, FinishAbort, SessionTyped, OpFits, session, At
<1>3. SessionTyped' /\ OpFits'
  BY <1>1, <1>2 DEF SessionTyped, OpFits, At, Live
<1>4. Agreement' /\ Unfinished'
  BY <1>1 DEF Agreement, Unfinished
<1>5. WireFits'
  BY <1>1, <1>2 DEF WireFits, At
<1> QED BY <1>3, <1>4, <1>5

(* A cancellation takes nothing back: what comes after it fails. *)
LEMMA CancelKeeps ==
  ASSUME SessionInv, NEW c \in Callers, CancelFlag(c) \/ CancelTransport(c)
  PROVE  SessionInv'
<1> USE DEF SessionInv
<1>1. /\ closed' \in BOOLEAN /\ (closed => closed') /\ conn' \in {"open", "closed", "stuck"}
      /\ canc' \in [Callers -> {"no", "flag", "done", "raised"}]
      /\ UNCHANGED <<phase, nextId, loadOff, exportOff, op, ended, wire, guest>>
  BY DEF CancelFlag, CancelTransport, CloseConn, session, channel, SessionTyped
<1>2. SessionTyped' /\ OpFits'
  BY <1>1 DEF SessionTyped, OpFits, At, Live
<1>3. Agreement' /\ Unfinished'
  BY <1>1 DEF Agreement, Unfinished
<1>4. Served' <=> Served
  BY <1>1 DEF Served
<1>5. WireFits'
  BY <1>1, <1>4 DEF WireFits, At
<1> QED BY <1>2, <1>3, <1>5

(* The reply to the last operation is taken, or the machine is gone.       *)
LEMMA TakenKeeps ==
  ASSUME SessionInv, ended # "none", ended' = "none",
         UNCHANGED <<session, conn, canc, op, wire, guest>>
  PROVE  SessionInv'
<1> USE DEF SessionInv
<1>1. op = None /\ UNCHANGED <<phase, closed, nextId, loadOff, exportOff>>
  BY DEF OpFits, session
<1> QED BY <1>1 DEF SessionTyped, OpFits, At, Live, Agreement, Unfinished, WireFits

LEMMA GuestStops ==
  ASSUME SessionInv, guest' = [guest EXCEPT !.phase = "closed"],
         UNCHANGED <<session, conn, canc, op, ended, wire>>
  PROVE  SessionInv'
<1> USE DEF SessionInv
<1>1. /\ guest'.phase = "closed" /\ guest'.incoming = guest.incoming /\ guest'.sent = guest.sent
      /\ guest' \in Guests
  BY DEF SessionTyped, Guests
<1>2. UNCHANGED <<phase, closed, nextId, loadOff, exportOff>>
  BY DEF session
<1>3. SessionTyped' /\ OpFits'
  BY <1>1, <1>2 DEF SessionTyped, OpFits, At, Live
<1>4. Agreement' /\ Unfinished'
  BY <1>1, <1>2 DEF Agreement, Unfinished
<1>5. Served => Served'
  BY <1>1, <1>2 DEF Served
<1>6. WireFits'
  BY <1>1, <1>2, <1>5 DEF WireFits, At
<1> QED BY <1>3, <1>4, <1>6

(* A request the guest accepts is the next one, so its reply is good; any  *)
(* other ends the guest.                                                   *)
LEMMA ServeKeeps ==
  ASSUME SessionInv, GuestServes
  PROVE  SessionInv'
<1> USE DEF SessionInv
<1>1. /\ wire # None /\ wire.dir = "request" /\ wire.name # "tool"
      /\ UNCHANGED <<phase, closed, nextId, loadOff, exportOff, conn, canc, op, ended>>
  BY DEF GuestServes, session
<1>2. CASE guest' = [guest EXCEPT !.phase = "closed"] /\ wire' = None
  <2>1. /\ guest'.phase = "closed" /\ guest'.incoming = guest.incoming /\ guest'.sent = guest.sent
        /\ guest' \in Guests
    BY <1>2 DEF SessionTyped, Guests
  <2>2. SessionTyped' /\ OpFits'
    BY <1>1, <2>1 DEF SessionTyped, OpFits, At, Live
  <2>3. Agreement' /\ Unfinished'
    BY <1>1, <2>1 DEF Agreement, Unfinished
  <2>4. WireFits'
    BY <1>1, <1>2, <2>1 DEF WireFits, At
  <2> QED BY <2>2, <2>3, <2>4
<1>3. CASE GuestAccepts(wire) /\ guest' = GuestAfter(wire) /\ wire' = Reply(wire, "ok", Ends(wire))
  <2>0. guest \in Guests /\ guest.incoming \in Nat /\ guest.sent \in Nat /\ guest.expects \in Nat
        /\ loadOff \in Nat /\ exportOff \in Nat
    BY Limits DEF SessionTyped, Guests
  <2>1. wire'.dir = "reply" /\ wire'.kind = "ok" /\ (wire'.flag <=> Ends(wire))
    BY <1>3 DEF Reply
  <2>2. wire.name \in {"hello", "load", "finalize", "export"}
    BY <1>1, <1>3 DEF GuestAccepts
  <2>3. /\ wire.name = "hello" => /\ guest.phase = "new" /\ guest'.phase = "loading"
                                  /\ guest'.incoming = guest.incoming /\ guest'.sent = guest.sent
        /\ wire.name = "load" =>
             /\ guest.phase = "loading" /\ wire.offset = guest.incoming
             /\ wire.final => guest.incoming + 1 = Chunks
             /\ guest'.phase = IF wire.final THEN "ready" ELSE "loading"
             /\ guest'.incoming = guest.incoming + 1 /\ guest'.sent = guest.sent
        /\ wire.name = "finalize" =>
             /\ guest.phase = "ready" /\ guest'.phase = "exporting"
             /\ guest'.incoming = guest.incoming /\ guest'.sent = guest.sent
        /\ wire.name = "export" =>
             /\ guest.phase = "exporting" /\ wire.offset = guest.sent
             /\ guest'.phase = IF guest.sent + 1 = ReportChunks THEN "done" ELSE "exporting"
             /\ guest'.incoming = guest.incoming /\ guest'.sent = guest.sent + 1
    BY <1>3, <2>0 DEF GuestAccepts, GuestAfter, Decodes, Guests
  <2>4. guest' \in [phase : {"new", "loading", "ready", "exporting", "done", "closed"},
                    expects : Nat, incoming : Nat, sent : Nat]
    <3> DEFINE Next4 == [phase : {"new", "loading", "ready", "exporting", "done", "closed"},
                         expects : Nat, incoming : Nat, sent : Nat]
    <3>0. guest \in Next4 /\ guest.expects + 1 \in Nat /\ guest.incoming + 1 \in Nat
          /\ guest.sent + 1 \in Nat
      BY <2>0 DEF Guests, Phases
    <3>1. CASE wire.name = "hello"
      <4>1. guest' = [guest EXCEPT !.phase = "loading"]
        BY <1>3, <3>1 DEF GuestAfter
      <4> QED BY <3>0, <4>1
    <3>2. CASE wire.name = "load"
      <4> DEFINE p == IF wire.final THEN "ready" ELSE "loading"
      <4>1. guest' = [guest EXCEPT !.phase = p, !.incoming = guest.incoming + 1, !.expects = guest.expects + 1]
        BY <1>3, <3>2 DEF GuestAfter
      <4>2. p \in {"ready", "loading"}
        OBVIOUS
      <4> HIDE DEF p
      <4> QED BY <3>0, <4>1, <4>2
    <3>3. CASE wire.name = "finalize"
      <4>1. guest' = [guest EXCEPT !.phase = "exporting", !.expects = guest.expects + 1]
        BY <1>3, <3>3 DEF GuestAfter
      <4> QED BY <3>0, <4>1
    <3>4. CASE wire.name = "export"
      <4> DEFINE p == IF guest.sent + 1 = ReportChunks THEN "done" ELSE "exporting"
      <4>1. guest' = [guest EXCEPT !.phase = p, !.sent = guest.sent + 1, !.expects = guest.expects + 1]
        BY <1>3, <3>4 DEF GuestAfter
      <4>2. p \in {"done", "exporting"}
        OBVIOUS
      <4> HIDE DEF p
      <4> QED BY <3>0, <4>1, <4>2
    <3> QED BY <2>2, <3>1, <3>2, <3>3, <3>4
  <2>5. /\ wire.name = "load" => loadOff = guest.incoming /\ (wire.final <=> loadOff + 1 = Chunks)
        /\ wire.name = "export" => exportOff = guest.sent
    BY <1>1, <2>3 DEF WireFits
  <2>6. guest'.incoming \in 0..Chunks /\ guest'.sent \in 0..ReportChunks
    BY <2>0, <2>2, <2>3, <2>5, Limits DEF Guests, Unfinished
  <2>7. guest'.phase \in Phases \cup {"closed"}
    BY <2>2, <2>3 DEF Phases
  <2>8. guest' \in Guests
    BY <2>4, <2>6, <2>7 DEF Guests, Phases
  <2>9. SessionTyped' /\ OpFits'
    BY <1>1, <2>8 DEF SessionTyped, OpFits, At, Live
  <2>10. Agreement' /\ Unfinished'
    BY <1>1, <2>0, <2>2, <2>3, <2>5, <2>6, Limits DEF Agreement, Unfinished, SessionTyped
  <2>11. At("wait") => Served'
    <3>1. At("wait") => wire.name = op.name
      BY <1>1 DEF WireFits
    <3>2. wire.name = "export" => (wire'.flag <=> guest'.sent = ReportChunks)
      BY <2>1, <2>3 DEF Ends
    <3> QED BY <1>1, <2>2, <2>3, <2>5, <3>1, <3>2 DEF Served
  <2>12. ~At("send") /\ ~At("settle")
    BY <1>1 DEF WireFits, At
  <2>13. WireFits'
    BY <1>1, <2>1, <2>11, <2>12 DEF WireFits, At
  <2> QED BY <2>9, <2>10, <2>13
<1> QED BY <1>2, <1>3 DEF GuestServes

(* Tools do not touch the transfer, and noise is not a good reply.         *)
LEMMA NoiseKeeps ==
  ASSUME SessionInv, Noise
  PROVE  SessionInv'
<1> USE DEF SessionInv
<1>1. /\ op # None /\ op.at = "wait" /\ wire # None /\ wire'.dir = "reply" /\ wire'.kind = "bad"
      /\ UNCHANGED <<phase, closed, nextId, loadOff, exportOff, conn, canc, op, ended, guest>>
  BY DEF Noise, Reply, session
<1>2. SessionTyped' /\ OpFits'
  BY <1>1 DEF SessionTyped, OpFits, At, Live
<1>3. Agreement' /\ Unfinished'
  BY <1>1 DEF Agreement, Unfinished
<1>4. WireFits'
  BY <1>1 DEF WireFits, At
<1> QED BY <1>2, <1>3, <1>4

LEMMA ToolKeeps ==
  ASSUME SessionInv, GuestRunsTool
  PROVE  /\ SessionInv'
         /\ wire # None /\ wire.dir = "request" /\ wire.name = "tool"
         /\ \E tool \in Tools, ok \in BOOLEAN :
              /\ Invoke(wire.arg, tool, ok)
              /\ wire'.dir = "reply" /\ wire'.kind = "ok" /\ (wire'.flag <=> ok) /\ wire'.tool = tool
<1> USE DEF SessionInv
<1>1. PICK tool \in Tools, ok \in BOOLEAN :
        /\ Invoke(wire.arg, tool, ok)
        /\ wire' = [dir |-> "reply", kind |-> "ok", id |-> wire.id, flag |-> ok, tool |-> tool]
  BY DEF GuestRunsTool
<1>2. wire'.dir = "reply" /\ wire'.kind = "ok" /\ (wire'.flag <=> ok) /\ wire'.tool = tool
  BY <1>1
<1>3. /\ wire # None /\ wire.dir = "request" /\ wire.name = "tool" /\ guest.phase = "ready"
      /\ UNCHANGED <<phase, closed, nextId, loadOff, exportOff, conn, canc, op, ended>>
      /\ guest' = [guest EXCEPT !.expects = @ + 1]
  BY DEF GuestRunsTool, session
<1>4. /\ guest'.phase = guest.phase /\ guest'.incoming = guest.incoming /\ guest'.sent = guest.sent
      /\ guest' \in Guests
  BY <1>3 DEF SessionTyped, Guests
<1>5. SessionTyped' /\ OpFits'
  BY <1>3, <1>4 DEF SessionTyped, OpFits, At, Live
<1>6. Agreement' /\ Unfinished'
  BY <1>3, <1>4 DEF Agreement, Unfinished
<1>7. ~At("send") /\ ~At("settle") /\ (At("wait") => op.name = "tool")
  BY <1>3 DEF WireFits, At
<1>8. At("wait") => Served'
  BY <1>3, <1>7 DEF Served
<1>9. WireFits'
  BY <1>2, <1>3, <1>7, <1>8 DEF WireFits, At
<1> QED BY <1>1, <1>2, <1>3, <1>5, <1>6, <1>9

-----------------------------------------------------------------------------
(* Everything a step of NightWorker does to the session. *)

SessionMove ==
  \/ \E name \in DOMAIN OpPhase, arg \in Ids \cup {None} : BeginOp(name, arg)
  \/ SendOp \/ ReceiveOp \/ NoReply \/ SettleOp \/ AbortOp \/ FinishAbort
  \/ \E c \in Callers : CancelFlag(c) \/ CancelTransport(c)
  \/ ended # "none" /\ ended' = "none" /\ UNCHANGED <<session, conn, canc, op, wire, guest>>
  \/ guest' = [guest EXCEPT !.phase = "closed"] /\ UNCHANGED <<session, conn, canc, op, ended, wire>>
  \/ GuestServes \/ Noise \/ GuestRunsTool
  \/ UNCHANGED sessionVars

LEMMA MoveKeeps ==
  ASSUME SessionInv, SessionMove
  PROVE  SessionInv'
<1>1. CASE UNCHANGED sessionVars
  BY <1>1 DEF sessionVars, session, channel, SessionInv, SessionTyped, Agreement, Unfinished, OpFits,
     WireFits, Served, At, Live
<1> QED
  BY <1>1, BeginKeeps, SendKeeps, ReceiveKeeps, NoReplyKeeps, SettleKeeps, AbortKeeps, CancelKeeps,
     TakenKeeps, GuestStops, ServeKeeps, NoiseKeeps, ToolKeeps
  DEF SessionMove

(* The calls of a response are ids, and the one that is made is its first. *)
Batches ==
  form = "job" =>
    batch \in Seq(Ids) /\ (pc \in {"invoke", "exchange", "result"} => batch # <<>>)

LEMMA ResponsesAreCalls ==
  ASSUME NEW calls \in Responses
  PROVE  calls \in Seq(Ids)
<1>1. PICK n \in 1..MaxBatch : calls \in [1..n -> Ids]
  BY DEF Responses
<1> QED BY <1>1, SeqDef

LEMMA BatchesKeep ==
  ASSUME Batches, form' = form, form = "job", JobHost \/ JobAround
  PROVE  Batches'
<1>1. CASE UNCHANGED <<pc, batch>>
  BY <1>1 DEF Batches
<1>2. CASE JobStep
  <2>1. CASE ModelAnswers
    BY <2>1, ResponsesAreCalls DEF ModelAnswers, End, Batches
  <2>2. CASE NextCall
    BY <2>2 DEF NextCall, End, Batches
  <2>3. CASE AfterCall
    BY <2>3, HeadTailProperties DEF AfterCall, End, Raises, Batches
  <2>4. CASE AuthorizeJob \/ BeginTurn \/ InferenceFails \/ RefusedByHost \/ SendCall \/ ToolResult
    BY <2>4 DEF AuthorizeJob, BeginTurn, InferenceFails, RefusedByHost, SendCall, ToolResult, End, Raises, Batches
  <2>5. CASE CallEnds \/ StopSession \/ StopModel \/ Conclude \/ CancellerActs
    BY <2>5 DEF CallEnds, StopSession, StopModel, Conclude, CancellerActs, loopVars, End, Batches
  <2> QED BY <1>2, <2>1, <2>2, <2>3, <2>4, <2>5 DEF JobStep
<1>3. CASE JobOutside
  BY <1>3, <1>1 DEF JobOutside, RequestCancel, GuestRunsTool, loopVars
<1> QED BY <1>1, <1>2, <1>3 DEF JobHost, JobAround, runVars, jobVars, loopVars

LEMMA FormMoves ==
  ASSUME Batches, [Next]_vars
  PROVE  SessionMove
<1>1. CASE FixtureHost \/ FixtureOutside
  <2>1. CASE FixtureStep
    <3>1. CASE TransferStep
      <4>1. NextOp \in DOMAIN OpPhase
        BY Limits DEF NextOp
      <4> QED BY <3>1, <4>1 DEF TransferStep, SessionMove
    <3>2. CASE CloseSession
      BY <3>2 DEF CloseSession, SessionMove, Callers
    <3>3. CASE TransferGoesOn \/ TransferFails
      BY <3>3 DEF TransferGoesOn, TransferFails, SessionMove
    <3>4. CASE Create \/ Start \/ Poll \/ CheckReport
      BY <3>4 DEF Create, Start, Poll, CheckReport, SessionMove
    <3>5. CASE Destroy
      BY <3>5 DEF Destroy, SessionMove, sessionVars, channel
    <3> QED BY <2>1, <3>1, <3>2, <3>3, <3>4, <3>5 DEF FixtureStep
  <2>2. CASE FixtureMachine \/ FixtureCancel
    BY <2>2 DEF FixtureMachine, FixtureCancel, Boot, Stop, SessionMove, Callers
  <2>3. CASE SessionStep \/ SessionGuest
    BY <2>3 DEF SessionStep, SessionGuest, SessionMove
  <2> QED BY <1>1, <2>1, <2>2, <2>3 DEF FixtureHost, FixtureOutside
<1>2. CASE JobHost \/ JobAround
  <2>1. CASE SendCall
    <3>1. Head(batch) \in Ids
      BY <1>2, <2>1, HeadTailProperties DEF SendCall, Batches, JobHost, JobAround
    <3>2. "tool" \in DOMAIN OpPhase
      BY Limits
    <3> QED BY <2>1, <3>1, <3>2 DEF SendCall, SessionMove
  <2>2. CASE ToolResult \/ CallEnds
    BY <2>2 DEF ToolResult, CallEnds, SessionMove
  <2>3. CASE StopSession \/ CancellerActs
    BY <2>3 DEF StopSession, CancellerActs, SessionMove, Callers
  <2>4. CASE AuthorizeJob \/ BeginTurn \/ InferenceFails \/ ModelAnswers \/ NextCall \/ RefusedByHost
    BY <2>4 DEF AuthorizeJob, BeginTurn, InferenceFails, ModelAnswers, NextCall, RefusedByHost, SessionMove
  <2>5. CASE AfterCall \/ StopModel \/ Conclude \/ RequestCancel
    BY <2>5 DEF AfterCall, StopModel, Conclude, RequestCancel, SessionMove
  <2>6. CASE GuestRunsTool
    BY <2>6 DEF SessionMove
  <2>7. CASE SessionStep \/ SessionGuest
    BY <2>7 DEF SessionStep, SessionGuest, SessionMove
  <2>8. CASE UNCHANGED runVars
    BY <2>8 DEF runVars, SessionMove
  <2> QED BY <1>2, <2>1, <2>2, <2>3, <2>4, <2>5, <2>6, <2>7, <2>8 DEF JobHost, JobAround, JobStep, JobOutside
<1>3. CASE ReviewHost \/ ReviewOutside
  <2>1. CASE RetrieveStep
    <3>1. {"finalize", "export"} \subseteq DOMAIN OpPhase
      BY Limits
    <3> QED BY <2>1, <3>1 DEF RetrieveStep, SessionMove
  <2>2. CASE RetrieveGoesOn \/ RetrieveFails
    BY <2>2 DEF RetrieveGoesOn, RetrieveFails, SessionMove
  <2>3. CASE ReviewCloses
    BY <2>3 DEF ReviewCloses, SessionMove, Callers
  <2>4. CASE ReviewDestroys
    BY <2>4 DEF ReviewDestroys, SessionMove, sessionVars, channel
  <2>5. CASE Retrieved \/ MakeDirectory \/ WriteFile \/ BundleSaved \/ ArtifactsCollected \/ HostDies
    BY <2>5 DEF Retrieved, MakeDirectory, WriteFile, BundleSaved, ArtifactsCollected, HostDies, SessionMove
  <2>6. CASE \E a \in Artifacts : CopyArtifact(a) \/ RecordArtifact(a)
    BY <2>6 DEF CopyArtifact, RecordArtifact, SessionMove
  <2>7. CASE SessionStep \/ SessionGuest
    BY <2>7 DEF SessionStep, SessionGuest, SessionMove
  <2> QED BY <1>3, <2>1, <2>2, <2>3, <2>4, <2>5, <2>6, <2>7
        DEF ReviewHost, ReviewOutside, ReviewStep, ReviewCrash
<1>4. CASE UNCHANGED runVars
  BY <1>4 DEF runVars, SessionMove
<1> QED
  BY <1>1, <1>2, <1>3, <1>4
  DEF Next, HostNext, Outside, ProcessHost, ProcessAround, SnapshotHost, SnapshotAround, GuestProgram,
      ClockNext, vars

(* The session of every form, and the calls of a job. *)
LEMMA SessionStays ==
  ASSUME SessionInv, Batches, [Next]_vars
  PROVE  SessionInv' /\ Batches' /\ form' = form
<1>1. form' = form
  BY DEF Next, HostNext, Outside, FixtureHost, FixtureOutside, JobHost, JobAround, ReviewHost, ReviewOutside,
     ProcessHost, ProcessAround, SnapshotHost, SnapshotAround, GuestProgram, ClockNext, vars
<1>2. Batches'
  <2>1. CASE JobHost \/ JobAround
    BY <1>1, <2>1, BatchesKeep DEF JobHost, JobAround
  <2>2. CASE form # "job"
    BY <1>1, <2>2 DEF Batches
  <2>3. CASE UNCHANGED <<form, runVars, jobVars>>
    BY <2>3 DEF Batches, runVars, jobVars, loopVars
  <2> QED
    BY <1>1, <2>1, <2>2, <2>3
    DEF Next, HostNext, Outside, FixtureHost, FixtureOutside, ReviewHost, ReviewOutside, ProcessHost,
        ProcessAround, SnapshotHost, SnapshotAround, GuestProgram, ClockNext, vars
<1> QED BY <1>1, <1>2, FormMoves, MoveKeeps

LEMMA SessionBegins ==
  ASSUME Init
  PROVE  SessionInv /\ Batches
<1>1. SessionInit \/ LoadedInit
  BY DEF Init, FixtureForm, JobForm, ReviewForm, ArtifactsForm, ProcessForm, NoRunForm
<1>2. SessionInv
  <2>1. /\ op = None /\ ended = "none" /\ wire = None /\ closed = FALSE /\ conn = "open" /\ nextId \in Nat
        /\ phase \in Phases /\ loadOff \in 0..Chunks /\ exportOff \in 0..ReportChunks
        /\ canc \in [Callers -> {"no", "flag", "done", "raised"}]
    BY <1>1, Limits DEF SessionInit, LoadedInit, Phases
  <2>2. guest \in Guests
    BY <1>1, Limits DEF SessionInit, LoadedInit, NewGuest, Guests, Phases
  <2>3. SessionTyped
    BY <2>1, <2>2 DEF SessionTyped
  <2>4. Agreement /\ Unfinished
    BY <1>1, Limits DEF SessionInit, LoadedInit, NewGuest, Agreement, Unfinished
  <2>5. OpFits /\ WireFits
    BY <2>1 DEF OpFits, WireFits, At, Live
  <2> QED BY <2>3, <2>4, <2>5 DEF SessionInv
<1>3. Batches
  BY DEF Init, JobForm, JobInit, LoopRest, Batches
<1> QED BY <1>2, <1>3

-----------------------------------------------------------------------------
(* The fixture run. *)

(* Whoever carries the operation out touches no cancellation, and closes   *)
(* the session only by failing; the guest touches nothing of the host's.   *)
LEMMA CarriedOut ==
  ASSUME SessionInv, SessionStep \/ SessionGuest
  PROVE  /\ canc' = canc
         /\ OwnClose => OwnClose'
         /\ op = None => UNCHANGED <<op, ended, phase, closed, conn>>
<1>1. CASE SendOp \/ ReceiveOp \/ NoReply
  BY <1>1, OperationMoves DEF SendOp, ReceiveOp, NoReply, session, SessionInv, SessionTyped, OwnClose, Cancelled, LeftToCanceller, At, OpFits
<1>2. CASE SettleOp
  BY <1>2 DEF SettleOp, OwnClose, Cancelled, LeftToCanceller, SessionInv, OpFits, At
<1>3. CASE AbortOp
  BY <1>3, OperationMoves DEF AbortOp, OwnClose, Cancelled, LeftToCanceller, SessionInv, SessionTyped, OpFits, At
<1>4. CASE FinishAbort
  BY <1>4 DEF FinishAbort, OwnClose, Cancelled, LeftToCanceller
<1>5. CASE SessionGuest
  <2>1. UNCHANGED <<phase, closed, conn, canc, op, ended>>
    BY <1>5 DEF SessionGuest, GuestServes, Noise, session
  <2> QED BY <2>1 DEF OwnClose, Cancelled, LeftToCanceller, At
<1> QED BY <1>1, <1>2, <1>3, <1>4, <1>5 DEF SessionStep

(* A transfer that is begun, or whose operation is taken, is still one's   *)
(* own; so is the session that is closed at its end.                       *)
LEMMA OwnBegins ==
  ASSUME OwnClose, NEW name, NEW arg, BeginOp(name, arg)
  PROVE  OwnClose' /\ canc' = canc
BY DEF BeginOp, OwnClose, Cancelled, LeftToCanceller, Idle, At

LEMMA OwnGoesOn ==
  ASSUME OwnClose, SessionInv, ended = "ok", ended' = "none",
         UNCHANGED <<session, conn, canc, op, wire, guest>>
  PROVE  OwnClose'
BY DEF SessionInv, OpFits, OwnClose, Cancelled, LeftToCanceller, At, session

LEMMA WorkerCloses ==
  ASSUME SessionInv, op = None, CancelFlag("worker") \/ CancelTransport("worker"),
         canc["worker"] = "no" /\ closed => Cancelled
  PROVE  /\ op' = None /\ ended' = ended /\ phase' = phase
         /\ canc'["worker"] \in {"flag", "done", "raised"}
         /\ canc'["canceller"] = canc["canceller"]
         /\ canc'["worker"] = "done" => conn' = "closed" \/ LeftToCanceller'
<1>1. Callers = {"worker", "canceller"} /\ canc \in [Callers -> {"no", "flag", "done", "raised"}]
  BY DEF Callers, SessionInv, SessionTyped
<1> QED BY <1>1 DEF CancelFlag, CancelTransport, session, channel, Cancelled, LeftToCanceller

(* A canceller that is first leaves the transport closed, or has it to     *)
(* close; one that is not changes nothing.                                 *)
LEMMA CancellerCloses ==
  ASSUME SessionInv, CancelFlag("canceller") \/ CancelTransport("canceller")
  PROVE  /\ UNCHANGED <<op, ended, phase>> /\ canc'["worker"] = canc["worker"]
         /\ closed' => closed \/ Cancelled'
         /\ Cancelled => Cancelled'
         /\ conn = "closed" \/ LeftToCanceller => conn' = "closed" \/ LeftToCanceller'
<1>1. Callers = {"worker", "canceller"} /\ canc \in [Callers -> {"no", "flag", "done", "raised"}]
  BY DEF Callers, SessionInv, SessionTyped
<1>2. CASE CancelFlag("canceller")
  BY <1>1, <1>2 DEF CancelFlag, channel, Cancelled, LeftToCanceller
<1>3. CASE CancelTransport("canceller")
  BY <1>1, <1>3 DEF CancelTransport, CloseConn, session, channel, Cancelled, LeftToCanceller
<1> QED BY <1>2, <1>3

LEMMA FixtureKeeps ==
  ASSUME SessionInv, FixtureFits, form = "fixture", form' = form, FixtureHost \/ FixtureOutside
  PROVE  FixtureFits'
<1> USE DEF FixtureFits
<1>1. CASE Create \/ Start \/ Poll
  BY <1>1 DEF Create, Start, Poll, RaiseTo, sessionVars, session, channel, OwnClose, Cancelled, LeftToCanceller, At, Clean
<1>2. CASE TransferStep
  BY <1>2, OwnBegins DEF TransferStep, Clean
<1>3. CASE TransferGoesOn
  BY <1>3, OwnGoesOn DEF TransferGoesOn, Clean
<1>4. CASE TransferFails
  BY <1>4 DEF TransferFails, RaiseTo, Clean
<1>5. CASE CheckReport
  BY <1>5 DEF CheckReport, RaiseTo, sessionVars, session, channel, OwnClose, Cancelled, LeftToCanceller, At, Clean, Idle
<1>6. CASE CloseSession
  <2>1. CASE CancelFlag("worker") \/ CancelTransport("worker")
    <3>1. UNCHANGED <<pc, error, vm, cleanup>> /\ pc = "close"
      BY <1>6, <2>1 DEF CloseSession, CancelFlag, CancelTransport
    <3>2. CASE error
      BY <3>1, <3>2 DEF Clean
    <3>3. CASE ~error
      BY <2>1, <3>1, <3>3, WorkerCloses DEF Clean
    <3> QED BY <3>2, <3>3
  <2>2. CASE canc["worker"] \in {"done", "raised"} /\ pc' = "destroy" /\ UNCHANGED sessionVars
    BY <1>6, <2>2 DEF CloseSession, CancelFlag, CancelTransport, sessionVars, session, channel, Clean,
       LeftToCanceller
  <2> QED BY <1>6, <2>1, <2>2 DEF CloseSession
<1>7. CASE Destroy
  BY <1>7 DEF Destroy, session, Clean, LeftToCanceller
<1>8. CASE Boot \/ Stop
  BY <1>8 DEF Boot, Stop, sessionVars, session, channel, OwnClose, Cancelled, LeftToCanceller, At, Clean
<1>9. CASE (SessionStep \/ SessionGuest) /\ UNCHANGED <<pc, vm, fixtureVars>>
  BY <1>9, CarriedOut DEF fixtureVars, Clean, Cancelled, LeftToCanceller
<1>10. CASE FixtureCancel
  <2>1. UNCHANGED <<pc, vm, error, cleanup>>
    BY <1>10 DEF FixtureCancel, fixtureVars
  <2>2. OwnClose => OwnClose'
    BY <1>10, CancellerCloses DEF FixtureCancel, OwnClose, At
  <2> QED BY <1>10, <2>1, <2>2, CancellerCloses DEF FixtureCancel, Clean
<1> QED BY <1>1, <1>2, <1>3, <1>4, <1>5, <1>6, <1>7, <1>8, <1>9, <1>10
        DEF FixtureHost, FixtureOutside, FixtureStep, FixtureMachine

WorkerInv == SessionInv /\ Batches /\ FixtureFits

LEMMA WorkerInvBegins ==
  ASSUME Init
  PROVE  WorkerInv
<1>1. FixtureFits
  BY DEF Init, FixtureForm, FixtureInit, SessionInit, FixtureFits, OwnClose, Cancelled, LeftToCanceller, Callers, Clean
<1> QED BY <1>1, SessionBegins DEF WorkerInv

LEMMA WorkerInvStays ==
  ASSUME WorkerInv, [Next]_vars
  PROVE  WorkerInv'
<1>1. SessionInv' /\ Batches' /\ form' = form
  BY SessionStays DEF WorkerInv
<1>2. CASE form # "fixture"
  BY <1>1, <1>2 DEF WorkerInv, FixtureFits
<1>3. CASE FixtureHost \/ FixtureOutside
  BY <1>1, <1>3, FixtureKeeps DEF WorkerInv, FixtureHost, FixtureOutside
<1>4. CASE UNCHANGED <<form, runVars>>
  BY <1>1, <1>4 DEF WorkerInv, FixtureFits, runVars, fixtureVars, sessionVars, session, channel, OwnClose, Cancelled, LeftToCanceller, At, Clean
<1> QED
  BY <1>1, <1>2, <1>3, <1>4
  DEF Next, HostNext, Outside, JobHost, JobAround, ReviewHost, ReviewOutside, ProcessHost,
      ProcessAround, SnapshotHost, SnapshotAround, GuestProgram, ClockNext, vars

(* Safety: host and guest agree about every transfer, whatever is lost,    *)
(* corrupted, cancelled or closed between them, and a fixture run that     *)
(* succeeded moved all of the archive in and all of the report out         *)
(* (tool_session.py, fixture_transfer.py).                                 *)
THEOREM TransfersAreWhole == Spec => []TransferIsWhole
<1>1. WorkerInv => TransferIsWhole
  <2> SUFFICES ASSUME WorkerInv PROVE TransferIsWhole
    OBVIOUS
  <2>1. Agreement /\ guest.incoming \in 0..Chunks /\ guest.sent \in 0..ReportChunks
    BY DEF WorkerInv, SessionInv, SessionTyped, Guests
  <2>2. ASSUME form = "fixture", pc = "return", Succeeded
        PROVE  /\ vm = "gone" /\ op = None /\ (conn = "closed" \/ canc["canceller"] \in {"flag", "raised"})
               /\ guest.incoming = Chunks /\ guest.sent = ReportChunks
    <3>1. /\ vm = "gone" /\ op = None /\ phase = "done"
          /\ conn = "closed" \/ canc["canceller"] \in {"flag", "raised"}
      BY <2>2 DEF WorkerInv, FixtureFits, Clean, Succeeded, LeftToCanceller
    <3>2. loadOff = Chunks /\ exportOff = ReportChunks
      BY <2>1, <3>1 DEF Agreement
    <3> QED BY <2>1, <3>1, <3>2, Limits DEF Agreement
  <2> QED BY <2>1, <2>2 DEF TransferIsWhole, FixtureSuccess
<1> QED BY <1>1, WorkerInvBegins, WorkerInvStays, PTL DEF Spec

-----------------------------------------------------------------------------
(* What is stored of a run. *)

LEMMA TheOrder ==
  /\ DOMAIN WriteOrder = 1..5
  /\ WriteOrder[1] = "incomplete" /\ WriteOrder[2] = "report" /\ WriteOrder[3] = "patch"
  /\ WriteOrder[4] = "manifest" /\ WriteOrder[5] = "complete"
  /\ \A i \in 1..5 : WriteOrder[i] \in BundleFiles
  /\ \A f \in BundleFiles : \E i \in 1..5 : f = WriteOrder[i]
  /\ \A i, j \in 1..5 : WriteOrder[i] = WriteOrder[j] => i = j
<1>1. /\ DOMAIN WriteOrder = 1..5
      /\ WriteOrder[1] = "incomplete" /\ WriteOrder[2] = "report" /\ WriteOrder[3] = "patch"
      /\ WriteOrder[4] = "manifest" /\ WriteOrder[5] = "complete"
  BY DEF WriteOrder
<1>2. \A i \in 1..5 : i = 1 \/ i = 2 \/ i = 3 \/ i = 4 \/ i = 5
  OBVIOUS
<1> HIDE DEF WriteOrder
<1>3. \A i \in 1..5 : WriteOrder[i] \in BundleFiles
  BY <1>1, <1>2 DEF BundleFiles
<1>4. \A f \in BundleFiles : \E i \in 1..5 : f = WriteOrder[i]
  BY <1>1 DEF BundleFiles
<1>5. \A i, j \in 1..5 : WriteOrder[i] = WriteOrder[j] => i = j
  BY <1>1, <1>2
<1> QED BY <1>1, <1>3, <1>4, <1>5

LEMMA LeastOfFive ==
  ASSUME NEW S \in SUBSET (1..5), S # {}
  PROVE  \E i \in S : \A j \in S : i <= j
<1>1. \A i \in 1..5 : i = 1 \/ i = 2 \/ i = 3 \/ i = 4 \/ i = 5
  OBVIOUS
<1>2. 1 \in S \/ 2 \in S \/ 3 \in S \/ 4 \in S \/ 5 \in S
  BY <1>1
<1> QED BY <1>1, <1>2

(* The file that is written next is the first that is missing. *)
LEMMA NextIs ==
  ASSUME ~Stored
  PROVE  \E i \in 1..5 : /\ NextFile = WriteOrder[i] /\ bundle[WriteOrder[i]] # "whole"
                         /\ \A j \in Earlier(i) : bundle[WriteOrder[j]] = "whole"
<1> DEFINE Least(i) == \A j \in Unwritten : i <= j
<1>1. Unwritten \subseteq 1..5 /\ Unwritten # {}
  BY TheOrder DEF Unwritten, Stored
<1>2. \E i \in Unwritten : Least(i)
  BY <1>1, LeastOfFive
<1>3. PICK i : i = CHOOSE k \in Unwritten : Least(k)
  OBVIOUS
<1>4. i \in Unwritten /\ Least(i)
  BY <1>2, <1>3
<1>5. NextFile = WriteOrder[i]
  BY <1>3 DEF NextFile
<1>6. ASSUME NEW j \in Earlier(i) PROVE bundle[WriteOrder[j]] = "whole"
  <2>1. j \in 1..5 /\ j < i
    BY <1>1, <1>4 DEF Earlier
  <2>2. j \notin Unwritten
    BY <1>1, <1>4, <2>1
  <2> QED BY <2>1, <2>2, TheOrder DEF Unwritten, Earlier
<1> QED BY <1>1, <1>4, <1>5, <1>6 DEF Unwritten

Unwritable == UNCHANGED <<bundle, copies, records, report>>

LEMMA RetrievalKeeps ==
  ASSUME SessionInv, ReviewInv, form' = form, form \in {"review", "artifacts"},
         RetrieveStep \/ RetrieveGoesOn \/ RetrieveFails \/ Retrieved \/ ReviewCloses \/ ReviewDestroys
  PROVE  ReviewInv'
<1> USE DEF ReviewInv, ReviewFits
<1>1. /\ UNCHANGED <<bundle, copies, records, report, workspace, given>>
      /\ form = "review" /\ pc \in {"retrieve", "close_session", "destroy_vm"}
      /\ final' \in {None, final, workspace}
      /\ pc' \in {"retrieve", "close_session", "destroy_vm", "mkdir"}
      /\ diag' = [reasons |-> diag'.reasons, clean |-> diag'.clean]
      /\ pc # "destroy_vm" => diag'.clean = diag.clean
  BY DEF RetrieveStep, RetrieveGoesOn, RetrieveFails, Retrieved, ReviewCloses, ReviewDestroys, Rest, Reason,
     NotWritten
<1>2. ReviewTyped' /\ NotWritten' /\ CopiesWhole'
  BY <1>1 DEF ReviewTyped, NotWritten, CopiesWhole
<1>3. InOrder'
  BY <1>1, TheOrder DEF InOrder, Collecting, BundleFiles
<1> SUFFICES ReviewFits'
  BY <1>2, <1>3
<1>4. /\ pc' \in Collecting /\ final' \in {None, workspace'} /\ workspace' \in {"same", "changed", "unsafe"}
      /\ given' \in [result : Results, checks : CheckResults, replay : Receipts]
      /\ \A f \in BundleFiles : bundle'[f] = "absent"
  BY <1>1 DEF Collecting
<1>5. CASE RetrieveStep
  BY <1>1, <1>4, <1>5, OwnBegins DEF RetrieveStep, Rest
<1>6. CASE RetrieveGoesOn
  BY <1>1, <1>4, <1>6, OwnGoesOn DEF RetrieveGoesOn, Rest
<1>7. CASE RetrieveFails
  BY <1>1, <1>4, <1>7 DEF RetrieveFails
<1>8. CASE Retrieved
  BY <1>1, <1>4, <1>8 DEF Retrieved, OwnClose, Cancelled, LeftToCanceller, sessionVars, session, channel, Idle, At
<1>9. CASE ReviewCloses
  <2>1. CASE (CancelFlag("worker") \/ CancelTransport("worker")) /\ UNCHANGED <<pc, final, diag>>
    <3>1. pc = "close_session" /\ UNCHANGED vm
      BY <1>9 DEF ReviewCloses
    <3>2. canc'["canceller"] = "no"
      BY <1>1, <2>1 DEF CancelFlag, CancelTransport, SessionInv, SessionTyped, Callers
    <3>3. CASE final = None
      BY <1>1, <1>4, <2>1, <3>1, <3>2, <3>3
    <3>4. CASE final # None
      BY <1>1, <1>4, <2>1, <3>1, <3>2, <3>4, WorkerCloses DEF LeftToCanceller
    <3> QED BY <3>3, <3>4
  <2>2. CASE canc["worker"] \in {"done", "raised"} /\ pc' = "destroy_vm" /\ UNCHANGED sessionVars
    BY <1>1, <1>4, <1>9, <2>2 DEF ReviewCloses, CancelFlag, CancelTransport, sessionVars, session, channel, Reason
  <2> QED BY <1>9, <2>1, <2>2 DEF ReviewCloses
<1>10. CASE ReviewDestroys
  BY <1>1, <1>4, <1>10 DEF ReviewDestroys, session, Reason
<1> QED BY <1>5, <1>6, <1>7, <1>8, <1>9, <1>10

(* Storing: what the report is about does not change any more. *)
Settings == <<form, given, workspace, final, diag>>

LEMMA SettledReport ==
  ASSUME UNCHANGED Settings
  PROVE  StateOf' = StateOf /\ (HasPatch' <=> HasPatch)
BY DEF Settings, StateOf, HasPatch, Reasons

LEMMA WriteKeeps ==
  ASSUME ReviewInv, WriteFile, form' = form, form \in {"review", "artifacts"}
  PROVE  ReviewInv'
<1> USE DEF ReviewInv
<1>1. /\ UNCHANGED <<vm, sessionVars, final, diag, copies, records, given, workspace>>
      /\ pc = "write" /\ pc' \in {"write", "raised"} /\ ~Stored
  BY DEF WriteFile, Rest
<1>2. form = "review"
  BY <1>1 DEF NotWritten
<1>3. PICK i \in 1..5 : /\ NextFile = WriteOrder[i] /\ bundle[WriteOrder[i]] # "whole"
                        /\ \A j \in Earlier(i) : bundle[WriteOrder[j]] = "whole"
  BY <1>1, NextIs
<1>4. StateOf' = StateOf /\ HasPatch' = HasPatch /\ \A k \in 1..5 : Earlier(k)' = Earlier(k)
  BY <1>1, SettledReport DEF Settings, Earlier, HasPatch
<1>5. PICK now \in {"torn", "whole"} :
        \/ UNCHANGED <<bundle, report>>
        \/ /\ bundle' = [bundle EXCEPT ![WriteOrder[i]] = now]
           /\ now = "torn" => report' = report
           /\ now = "whole" =>
                report' = IF WriteOrder[i] = "report" THEN [state |-> StateOf, about |-> final] ELSE report
  BY <1>3 DEF WriteFile
<1>6. ReviewTyped'
  BY <1>1, <1>5, TheOrder DEF ReviewTyped
<1>7. ReviewFits'
  BY <1>1, <1>2 DEF ReviewFits, Collecting, sessionVars, session, channel
<1>8. InOrder'
  <2>1. CASE UNCHANGED <<bundle, report>>
    BY <1>1, <1>4, <2>1 DEF InOrder
  <2>2. CASE /\ bundle' = [bundle EXCEPT ![WriteOrder[i]] = now]
             /\ now = "torn" => report' = report
             /\ now = "whole" =>
                  report' = IF WriteOrder[i] = "report" THEN [state |-> StateOf, about |-> final] ELSE report
    <3>1. bundle'[WriteOrder[i]] = now /\ \A k \in 1..5 : k # i => bundle'[WriteOrder[k]] = bundle[WriteOrder[k]]
      BY <2>2, TheOrder DEF ReviewTyped
    <3>2. ASSUME NEW k \in 1..5, bundle'[WriteOrder[k]] # "absent", NEW j \in Earlier(k)
          PROVE  bundle'[WriteOrder[j]] = "whole"
      <4>1. j \in 1..5 /\ j # k
        BY DEF Earlier
      <4>2. bundle[WriteOrder[j]] = "whole"
        BY <1>2, <1>3, <3>1, <3>2 DEF InOrder
      <4> QED BY <1>3, <3>1, <4>1, <4>2
    <3>3. bundle'["report"] = "whole" => report' = [state |-> StateOf, about |-> final]
      BY <1>2, <1>3, <2>2, <3>1, TheOrder DEF InOrder
    <3> QED BY <1>1, <1>4, <3>2, <3>3 DEF InOrder
  <2> QED BY <1>5, <2>1, <2>2
<1>9. NotWritten' /\ CopiesWhole'
  BY <1>1, <1>2 DEF NotWritten, CopiesWhole
<1> QED BY <1>6, <1>7, <1>8, <1>9

(* A copy that is recorded is not touched again. *)
LEMMA CopyKeeps ==
  ASSUME ReviewInv, form' = form, form \in {"review", "artifacts"}, NEW a \in Artifacts,
         CopyArtifact(a) \/ RecordArtifact(a)
  PROVE  ReviewInv'
<1> USE DEF ReviewInv
<1>1. /\ UNCHANGED <<vm, sessionVars, final, diag, given, workspace, bundle, report>>
      /\ pc = "copy" /\ pc' \in {"copy", "raised"}
  BY DEF CopyArtifact, RecordArtifact, Rest
<1>2. form = "artifacts"
  BY <1>1 DEF ReviewFits, Collecting
<1>3. ReviewTyped'
  BY <1>1 DEF CopyArtifact, RecordArtifact, ReviewTyped
<1>4. CopiesWhole'
  BY DEF CopyArtifact, RecordArtifact, CopiesWhole, ReviewTyped
<1>5. ReviewFits' /\ InOrder' /\ NotWritten'
  BY <1>1, <1>2 DEF ReviewFits, InOrder, NotWritten
<1> QED BY <1>3, <1>4, <1>5

LEMMA StoredKeeps ==
  ASSUME SessionInv, ReviewInv, form' = form, form \in {"review", "artifacts"},
         \/ MakeDirectory \/ BundleSaved \/ ArtifactsCollected \/ HostDies
         \/ (SessionStep \/ SessionGuest) /\ UNCHANGED <<pc, vm, fixtureVars, reviewVars>>
  PROVE  ReviewInv'
<1> USE DEF ReviewInv
<1>1. UNCHANGED <<vm, final, diag, given, workspace, bundle, report, copies, records>>
  BY DEF MakeDirectory, BundleSaved, ArtifactsCollected, HostDies, Rest, reviewVars
<1>2. StateOf' = StateOf /\ HasPatch' = HasPatch /\ \A k \in 1..5 : Earlier(k)' = Earlier(k)
  BY <1>1, SettledReport DEF Settings, Earlier, HasPatch
<1>3. ReviewTyped' /\ InOrder' /\ CopiesWhole'
  BY <1>1, <1>2 DEF ReviewTyped, InOrder, CopiesWhole
<1>4. NotWritten'
  BY <1>1 DEF NotWritten, MakeDirectory, BundleSaved, ArtifactsCollected, HostDies
<1>5. ReviewFits'
  <2>1. CASE (SessionStep \/ SessionGuest) /\ UNCHANGED <<pc, vm, fixtureVars, reviewVars>>
    BY <1>1, <2>1, CarriedOut DEF ReviewFits
  <2>2. CASE MakeDirectory \/ BundleSaved \/ ArtifactsCollected \/ HostDies
    BY <1>1, <2>2
    DEF ReviewFits, MakeDirectory, BundleSaved, ArtifactsCollected, HostDies, Collecting,
        sessionVars, session, channel
  <2> QED BY <2>1, <2>2
<1> QED BY <1>3, <1>4, <1>5

LEMMA ReviewBegins ==
  ASSUME Init
  PROVE  ReviewInv
<1>1. /\ bundle = [f \in BundleFiles |-> "absent"] /\ copies = [a \in Artifacts |-> "absent"] /\ records = {}
      /\ diag = [reasons |-> {}, clean |-> FALSE]
  BY DEF Init, FixtureForm, JobForm, ReviewForm, ArtifactsForm, ProcessForm, NoRunForm, ReviewRest, ReviewInit
<1>2. ReviewTyped /\ CopiesWhole /\ InOrder
  BY <1>1, TheOrder DEF ReviewTyped, CopiesWhole, InOrder, BundleFiles
<1>3. NotWritten
  BY <1>1 DEF NotWritten, Init, ArtifactsForm
<1>4. ReviewFits
  BY <1>1 DEF Init, ReviewForm, ReviewInit, LoadedInit, ReviewFits, Collecting, OwnClose, Cancelled, LeftToCanceller, Callers
<1> QED BY <1>2, <1>3, <1>4 DEF ReviewInv

LEMMA ReviewStays ==
  ASSUME SessionInv, Batches, ReviewInv, [Next]_vars
  PROVE  ReviewInv'
<1>1. form' = form
  BY SessionStays
<1>2. CASE ReviewHost
  <2>1. CASE \E a \in Artifacts : CopyArtifact(a) \/ RecordArtifact(a)
    BY <1>1, <1>2, <2>1, CopyKeeps DEF ReviewHost
  <2>2. CASE ~\E a \in Artifacts : CopyArtifact(a) \/ RecordArtifact(a)
    BY <1>1, <1>2, <2>2, RetrievalKeeps, WriteKeeps, StoredKeeps DEF ReviewHost, ReviewStep
  <2> QED BY <2>1, <2>2
<1>3. CASE ReviewOutside
  BY <1>1, <1>3, StoredKeeps DEF ReviewOutside, ReviewCrash
<1>4. CASE UNCHANGED reviewVars /\ (form \notin {"review", "artifacts"} \/ UNCHANGED runVars)
  <2>1. StateOf' = StateOf /\ HasPatch' = HasPatch /\ \A k \in 1..5 : Earlier(k)' = Earlier(k)
    BY <1>1, <1>4, SettledReport DEF Settings, Earlier, HasPatch, reviewVars
  <2>2. ReviewTyped' /\ CopiesWhole' /\ InOrder'
    BY <1>1, <1>4, <2>1 DEF ReviewTyped, CopiesWhole, InOrder, reviewVars, ReviewInv
  <2>3. NotWritten'
    BY <1>1, <1>4 DEF NotWritten, reviewVars, runVars, ReviewInv
  <2>4. ReviewFits'
    BY <1>1, <1>4 DEF ReviewFits, reviewVars, runVars, sessionVars, session, channel, OwnClose, Cancelled, LeftToCanceller, At, ReviewInv
  <2> QED BY <2>2, <2>3, <2>4 DEF ReviewInv
<1> QED
  BY <1>1, <1>2, <1>3, <1>4
  DEF Next, HostNext, Outside, FixtureHost, FixtureOutside, JobHost, JobAround, ProcessHost,
      ProcessAround, SnapshotHost, SnapshotAround, GuestProgram, ClockNext, vars

(* Safety: wherever the host dies, a completion marker vouches for files   *)
(* that are whole and an artifact record for a copy that is, and a bundle  *)
(* that reads as ready for review is about the workspace the guest had,    *)
(* exported to the end, of a job that was submitted, checked and replayed  *)
(* and whose machine is gone (review_collection.py, review_bundle.py,      *)
(* artifacts.py).                                                          *)
THEOREM BundlesAreHonest == Spec => []BundleIsHonest
<1> DEFINE Inv == SessionInv /\ Batches /\ ReviewInv
<1>1. Init => Inv
  BY SessionBegins, ReviewBegins
<1>2. Inv /\ [Next]_vars => Inv'
  BY SessionStays, ReviewStays
<1>3. Inv => BundleIsHonest
  <2> SUFFICES ASSUME Inv PROVE BundleIsHonest
    OBVIOUS
  <2> USE DEF ReviewInv
  <2>1. StateOf = "ready_for_review" =>
          /\ final = "changed" /\ diag.clean /\ final # None
          /\ form = "review" => given = [result |-> "submitted", checks |-> "passed", replay |-> "matching"]
    <3>1. StateOf = "ready_for_review" => Reasons = {}
      BY DEF StateOf
    <3>2. Reasons = {} => /\ final = "changed" /\ diag.clean /\ final # None
                          /\ given.result = "submitted" /\ given.checks = "passed" /\ given.replay = "matching"
      BY DEF Reasons
    <3> QED BY <3>1, <3>2 DEF ReviewFits
  <2>2. StateOf \in {"ready_for_review", "evidence_only"} => HasPatch
    BY <2>1 DEF StateOf, HasPatch
  <2>3. form = "review" /\ bundle["complete"] # "absent" =>
          /\ bundle["incomplete"] = "whole" /\ bundle["report"] = "whole" /\ bundle["manifest"] = "whole"
          /\ HasPatch => bundle["patch"] = "whole"
    <3>1. 1 \in Earlier(5) /\ 2 \in Earlier(5) /\ 4 \in Earlier(5) /\ (HasPatch => 3 \in Earlier(5))
      BY TheOrder DEF Earlier
    <3> QED BY <3>1, TheOrder DEF InOrder
  <2>4. bundle["complete"] # "absent" => form = "review"
    BY DEF NotWritten, BundleFiles
  <2>5. StoredIsWhole
    BY <2>2, <2>3, <2>4 DEF StoredIsWhole, InOrder, CopiesWhole
  <2>6. ASSUME form = "review", ReadBundle = "ready_for_review"
        PROVE  /\ vm = "gone" /\ conn = "closed"
               /\ exportOff = ReportChunks /\ guest.sent = ReportChunks
               /\ report.about = workspace /\ workspace = "changed"
               /\ given = [result |-> "submitted", checks |-> "passed", replay |-> "matching"]
    <3>1. bundle["report"] = "whole" /\ report.state = "ready_for_review"
      BY <2>6 DEF ReadBundle
    <3>2. report.about = final /\ StateOf = "ready_for_review"
      BY <2>6, <3>1 DEF InOrder
    <3>3. final = "changed" /\ final # None /\ diag.clean /\ workspace = final
          /\ given = [result |-> "submitted", checks |-> "passed", replay |-> "matching"]
      BY <2>1, <2>6, <3>2 DEF ReviewFits
    <3>4. vm = "gone" /\ conn = "closed" /\ phase = "done"
      BY <2>6, <3>3 DEF ReviewFits
    <3>5. exportOff = ReportChunks /\ guest.sent = ReportChunks
      BY <3>4, Limits DEF SessionInv, SessionTyped, Guests, Agreement
    <3> QED BY <3>2, <3>3, <3>4, <3>5
  <2> QED BY <2>5, <2>6 DEF BundleIsHonest, ReadyIsEarned
<1> QED BY <1>1, <1>2, <1>3, PTL DEF Spec
====
