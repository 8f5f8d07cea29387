----------------------------- MODULE ToolSession -----------------------------
(***************************************************************************)
(* One host-initiated session with the guest of a sandbox:                 *)
(* night_shifts/tool_session.py (SandboxToolSession) and the guest that    *)
(* answers it, night_shifts/guest/fixture_transfer.py                      *)
(* (FixtureGuestSession).                                                  *)
(*                                                                         *)
(* The worker thread makes one operation at a time; cancel() may come from *)
(* the canceller's thread at any moment.  An operation is taken apart      *)
(* where cancel() or the guest can come in between: the checks under the   *)
(* locks, the send, the guest, the receive with its second check of the    *)
(* phase, and the updates of offset and phase, which the code makes after  *)
(* both locks are released.  A frame is its kind: JSON, base64 and the     *)
(* identity fields are either what the peer expects ("ok") or not ("bad"). *)
(* The archive and the report are counted in chunks.                       *)
(***************************************************************************)
EXTENDS WorkerControl

CONSTANTS Chunks,        \* chunks of the workspace archive
          ReportChunks,  \* chunks of the guest's report or export
          None

ASSUME SessionAssumption == Chunks \in Nat \ {0} /\ ReportChunks \in Nat \ {0}

(* The phase an operation needs. *)
OpPhase == [hello |-> "new", load |-> "loading", tool |-> "ready",
            finalize |-> "ready", export |-> "exporting"]

VARIABLES
  phase, closed, nextId, loadOff, exportOff,  \* SandboxToolSession
  conn,     \* its transport: "open", "closed", or "stuck" when closing it raised
  op,       \* the operation in flight, [name, id, at], or None
  ended,    \* how the last operation ended: "none", "ok", "error"
  canc,     \* explicit cancel(): "no", "flag" (_closed is set), "done", "raised"
  wire,     \* the frame on the serial channel, or None
  guest     \* FixtureGuestSession: phase, the request id it expects, chunks in and out

session == <<phase, closed, nextId, loadOff, exportOff>>
channel == <<op, ended, wire, guest>>
sessionVars == <<session, conn, canc, channel>>

Callers == {"worker", "canceller"}
NewGuest == [phase |-> "new", expects |-> 1, incoming |-> 0, sent |-> 0]

SessionInit ==
  /\ phase = "new" /\ closed = FALSE /\ nextId = 1 /\ loadOff = 0 /\ exportOff = 0
  /\ conn = "open"
  /\ op = None /\ ended = "none" /\ wire = None
  /\ canc = [c \in Callers |-> "no"]
  /\ guest = NewGuest

(* A session whose workspace is loaded: where the worker loop begins. *)
LoadedInit ==
  /\ phase = "ready" /\ closed = FALSE /\ nextId = Chunks + 1
  /\ loadOff = Chunks /\ exportOff = 0
  /\ conn = "open"
  /\ op = None /\ ended = "none" /\ wire = None
  /\ canc = [c \in Callers |-> "no"]
  /\ guest = [phase |-> "ready", expects |-> Chunks + 1, incoming |-> Chunks, sent |-> 0]

-----------------------------------------------------------------------------
(* The operation of the caller's thread. *)
RequirePhase(p) == ~closed /\ phase = p /\ ~expired

Idle == op = None /\ ended = "none"

(* start() and _exchange(): the non-blocking lock, the phase, the next id. *)
(* A wrong phase raises inside the try block, so it closes the session.    *)
BeginOp(name, arg) ==
  /\ Idle
  /\ IF RequirePhase(OpPhase[name])
     THEN /\ op' = [name |-> name, arg |-> arg, id |-> nextId, at |-> "send"]
          /\ nextId' = IF name = "hello" THEN nextId ELSE nextId + 1
     ELSE op' = [name |-> name, arg |-> arg, id |-> nextId, at |-> "abort"] /\ UNCHANGED nextId
  /\ UNCHANGED <<phase, closed, loadOff, exportOff, conn, canc, ended, wire, guest>>

Goto(place) == op' = [op EXCEPT !.at = place]

(* load_chunk() announces the last chunk; export_chunk() asks from the     *)
(* offset it has received up to.                                           *)
Request == [dir |-> "request", name |-> op.name, arg |-> op.arg, id |-> op.id,
            offset |-> IF op.name = "load" THEN loadOff
                       ELSE IF op.name = "export" THEN exportOff ELSE 0,
            final |-> op.name = "load" /\ loadOff + 1 = Chunks]

SendOp ==
  /\ op # None /\ op.at = "send"
  /\ IF conn = "open" /\ ~expired
     THEN wire' = Request /\ Goto("wait")
     ELSE Goto("abort") /\ UNCHANGED wire
  /\ UNCHANGED <<session, conn, canc, ended, guest>>

(* Mutant: any frame with a newline at its end will do. *)
AnyFrame(frame) == frame.dir = "reply"

(* _receive() and the checks behind it: version, type, identity, request   *)
(* id, status.                                                             *)
Acceptable(frame) == frame.dir = "reply" /\ frame.kind = "ok" /\ frame.id = op.id

(* A good reply counts only if no cancel() came in the meantime; a bad     *)
(* one, a typed error of the guest and an early end of the channel abort.  *)
ReceiveOp ==
  /\ op # None /\ op.at = "wait"
  /\ wire # None /\ wire.dir = "reply"
  /\ IF conn = "open" /\ Acceptable(wire) /\ RequirePhase(OpPhase[op.name])
     THEN Goto("settle") /\ UNCHANGED wire
     ELSE Goto("abort") /\ wire' = None
  /\ UNCHANGED <<session, conn, canc, ended, guest>>

(* The operation timeout, the deadline, or a transport closed under it.  A *)
(* request that is already in the guest's buffer stays there.              *)
NoReply ==
  /\ op # None /\ op.at = "wait"
  /\ IF conn # "open" \/ expired \/ guest.phase = "closed" THEN Works ELSE Fails
  /\ Goto("abort")
  /\ UNCHANGED <<session, conn, canc, ended, wire, guest>>

(* What the caller does with the reply, after the operation lock. *)
SettleOp ==
  /\ op # None /\ op.at = "settle"
  /\ loadOff' = IF op.name = "load" THEN loadOff + 1 ELSE loadOff
  /\ exportOff' = IF op.name = "export" THEN exportOff + 1 ELSE exportOff
  /\ phase' = CASE op.name = "hello" -> "loading"
                [] op.name = "load" /\ loadOff + 1 = Chunks -> "ready"
                [] op.name = "finalize" -> "exporting"
                [] op.name = "export" /\ wire.flag -> "done"
                [] OTHER -> phase
  /\ wire' = None
  /\ op' = None /\ ended' = "ok"
  /\ UNCHANGED <<closed, nextId, conn, canc, guest>>

(* _abort(): the first to set _closed closes the transport as well. *)
AbortOp ==
  /\ op # None /\ op.at = "abort"
  /\ IF closed THEN op' = None /\ ended' = "error" /\ UNCHANGED closed
     ELSE Goto("closing") /\ closed' = TRUE /\ UNCHANGED ended
  /\ UNCHANGED <<phase, nextId, loadOff, exportOff, conn, canc, wire, guest>>

CloseConn == \/ conn' = "closed" /\ Works
             \/ conn' = "stuck" /\ Fails

FinishAbort ==
  /\ op # None /\ op.at = "closing"
  /\ CloseConn
  /\ op' = None /\ ended' = "error"
  /\ UNCHANGED <<session, canc, wire, guest>>

(* cancel() and close(), by either thread: idempotent, and silent when     *)
(* somebody else has already set _closed.                                  *)
CancelFlag(c) ==
  /\ canc[c] = "no"
  /\ IF closed THEN canc' = [canc EXCEPT ![c] = "done"] /\ UNCHANGED closed
     ELSE canc' = [canc EXCEPT ![c] = "flag"] /\ closed' = TRUE
  /\ UNCHANGED <<phase, nextId, loadOff, exportOff, conn, channel>>

CancelTransport(c) ==
  /\ canc[c] = "flag"
  /\ CloseConn
  /\ canc' = [canc EXCEPT ![c] = IF conn' = "closed" THEN "done" ELSE "raised"]
  /\ UNCHANGED <<session, channel>>

-----------------------------------------------------------------------------
(* decode_snapshot(): the archive is canonical JSON, so only all of it, in *)
(* order, is one.                                                          *)
Decodes(frame) == frame.final /\ guest.incoming + 1 = Chunks

(* The guest after a request it accepts; any other request ends it. *)
GuestAccepts(frame) ==
  \/ guest.phase = "new" /\ frame.name = "hello"
  \/ /\ frame.id = guest.expects
     /\ \/ /\ guest.phase = "loading" /\ frame.name = "load"
           /\ frame.offset = guest.incoming
           /\ frame.final => Decodes(frame)
        \/ guest.phase = "ready" /\ frame.name = "finalize"
        \/ guest.phase = "exporting" /\ frame.name = "export" /\ frame.offset = guest.sent

GuestAfter(frame) ==
  CASE frame.name = "hello" -> [guest EXCEPT !.phase = "loading"]
    [] frame.name = "load" ->
         [guest EXCEPT !.phase = IF frame.final THEN "ready" ELSE "loading",
                       !.incoming = @ + 1, !.expects = @ + 1]
    [] frame.name = "finalize" -> [guest EXCEPT !.phase = "exporting", !.expects = @ + 1]
    [] frame.name = "export" ->
         [guest EXCEPT !.phase = IF guest.sent + 1 = ReportChunks THEN "done" ELSE "exporting",
                       !.sent = @ + 1, !.expects = @ + 1]

(* "flag" is the eof of an export, or that a tool call did not fail. *)
Reply(frame, kind, flag) == [dir |-> "reply", kind |-> kind, id |-> frame.id, flag |-> flag]

Ends(frame) == frame.name = "export" /\ guest.sent + 1 = ReportChunks

(* handle() and serve(): one frame in, one frame out; a failure closes the *)
(* session and the process exits without a reply.                          *)
GuestServes ==
  /\ wire # None /\ wire.dir = "request" /\ wire.name # "tool"
  /\ \/ /\ GuestAccepts(wire) /\ Works
        /\ guest' = GuestAfter(wire)
        /\ wire' = Reply(wire, "ok", Ends(wire))
     \/ /\ IF GuestAccepts(wire) THEN Fails ELSE Works
        /\ guest' = [guest EXCEPT !.phase = "closed"]
        /\ wire' = None
  /\ UNCHANGED <<session, conn, canc, op, ended>>

(* Bytes on the serial line that are not the reply: console output of the  *)
(* guest, a truncated frame, another session's nonce, a typed error.       *)
Noise ==
  /\ op # None /\ op.at = "wait"
  /\ wire # None
  /\ Fails
  /\ wire' = Reply(wire, "bad", FALSE)
  /\ UNCHANGED <<session, conn, canc, op, ended, guest>>

SessionStep ==
  /\ \/ SendOp /\ Works
     \/ ReceiveOp /\ Works
     \/ NoReply
     \/ op # None /\ op.name # "tool" /\ SettleOp /\ Works
     \/ AbortOp /\ Works
     \/ FinishAbort
  /\ UNCHANGED control

(* What the guest does, or not. *)
SessionGuest == (GuestServes \/ Noise) /\ UNCHANGED control
=============================================================================
