------------------------------- MODULE SerialTls ------------------------------
(***************************************************************************)
(* One authenticated session over a virtual machine's serial port:         *)
(*   bounded_tls_pipe.py        the controller's end, BoundedTlsPipe, over *)
(*   serial_pipe_io.py          overlapped I/O on a Windows pipe;          *)
(*   guest/bounded_tls_serial.py the guest's end, GuestTlsSerial, over     *)
(*   guest/serial_device_io.py  the nonblocking ttyS0;                     *)
(*   maintenance_tls_prototype.py  the TLS endpoint and the frames of both.*)
(* A TLS record is numbered within its session: lost, repeated or foreign  *)
(* bytes make the next record fail.  A frame is two records.               *)
(*                                                                         *)
(* Left out: a TLS write that wants to read first, calls from another      *)
(* thread or inside a call (refused without effect), and byte limits.      *)
(***************************************************************************)
EXTENDS WorkerControl, Sequences, SequencesExt

CONSTANT MaxMessages  \* MAX_MESSAGES of a session and direction

Ends == {"controller", "guest"}
Peer(e) == IF e = "guest" THEN "controller" ELSE "guest"

VARIABLES
  end,      \* both ends: op, line, hs, ready, out, inq, got, put, plain, tx, rx
  wire,     \* wire[e]: records on their way from e
  pio,      \* the controller's outstanding OVERLAPPED: at, write, data
  again,    \* the owner closed a channel of unknown cleanup once more
  closes,   \* history: close() calls on the guest's descriptor
  sent,     \* history: sequence numbers e queued
  received, \* history: sequence numbers e was given
  pinned,   \* pinned[e]: the other end presents the leaf that e has pinned
  bound     \* both ends were made for the same attempt and machine

serialVars == <<end, wire, pio, again, closes, sent, received, pinned, bound>>

NewEnd(op) == [op |-> op, line |-> "none", hs |-> 0, ready |-> FALSE, out |-> <<>>,
               inq |-> <<>>, got |-> 0, put |-> 0, plain |-> 0, tx |-> 0, rx |-> 0]
NoTransfer == [at |-> "none", write |-> FALSE, data |-> <<>>]

SerialInit(op) ==
  /\ end = [e \in Ends |-> NewEnd(op)] /\ wire = [e \in Ends |-> <<>>] /\ pio = NoTransfer
  /\ again = FALSE /\ closes = 0
  /\ sent = [e \in Ends |-> <<>>] /\ received = [e \in Ends |-> <<>>]

(* Mutant: the wait for a completion has no end of its own. *)
NeverOver == FALSE

(* IOBudget.remaining() raises; a cancellation has the effect of the deadline. *)
BudgetOver == expired

Set(e, new) == end' = [end EXCEPT ![e] = new]
Busy(e) == end[e].op \in {"open", "handshake", "send", "receive"}

(* Around every operation. *)
Goes(e, ops) == end[e].op \in ops /\ ~BudgetOver /\ Works

(* _fail() and _dispose() of the adapter: terminal, and nothing is replayed. *)
Terminal(e) == Set(e, [end[e] EXCEPT !.op = "dispose", !.ready = FALSE, !.plain = 0])

-----------------------------------------------------------------------------
Opened(e) ==
  /\ Goes(e, {"open"})
  /\ Set(e, [end[e] EXCEPT !.op = "handshake", !.line = "open"])
  /\ UNCHANGED <<wire, pio, again, closes, sent, received, pinned, bound>>

(* connect(): it waits for the pipe, and opens it once. *)
OpenPipe == Opened("controller")

(* _open(): a tty of the right kind, claimed and made raw. *)
OpenTty == Opened("guest")

Record(e, i, body) == [n |-> end[e].put + i, body |-> body]
(* client hello, server flight, client flight *)
Needs(e) == IF e = "controller" THEN {2} ELSE IF end[e].hs = 0 THEN {1} ELSE {3}
Readable(e) == end[e].inq # <<>>
Good(e) == Readable(e) /\ Head(end[e].inq).n = end[e].got + 1

(* step() until authenticated; the pin is compared when TLS is through. *)
HandshakeStep(e) ==
  /\ Goes(e, {"handshake"}) /\ ~end[e].ready /\ end[e].out = <<>>
  /\ \/ /\ e = "controller" /\ end[e].hs = 0
        /\ Set(e, [end[e] EXCEPT !.hs = 1, !.out = <<Record(e, 1, <<"h", 1, 0>>)>>, !.put = @ + 1])
     \/ /\ Good(e) /\ Head(end[e].inq).body \in {<<"h", k, 0>>: k \in Needs(e)}
        /\ LET last == e = "controller" \/ end[e].hs = 1
               flight == IF e = "controller" THEN <<Record(e, 1, <<"h", 3, 0>>)>>
                         ELSE IF last THEN <<>> ELSE <<Record(e, 1, <<"h", 2, 0>>)>> IN
           IF last /\ ~pinned[e] THEN Terminal(e)
           ELSE Set(e, [end[e] EXCEPT !.hs = 1, !.ready = last, !.out = flight, !.inq = <<>>,
                                      !.got = @ + 1, !.put = @ + Len(flight)])
  /\ UNCHANGED <<wire, pio, again, closes, sent, received, pinned, bound>>

Authenticated(e) ==
  /\ Goes(e, {"handshake"}) /\ end[e].ready /\ end[e].out = <<>>
  /\ Set(e, [end[e] EXCEPT !.op = "idle"])
  /\ UNCHANGED <<wire, pio, again, closes, sent, received, pinned, bound>>

(* queue_message(), and a session that has used up its numbers. *)
SendMessage(e) ==
  /\ Goes(e, {"idle"})
  /\ IF end[e].tx >= MaxMessages THEN Terminal(e) /\ UNCHANGED sent
     ELSE /\ Set(e, [end[e] EXCEPT !.op = "send", !.tx = @ + 1, !.put = @ + 2,
                                   !.out = <<Record(e, 1, <<"m", end[e].tx, 1>>),
                                             Record(e, 2, <<"m", end[e].tx, 2>>)>>])
          /\ sent' = [sent EXCEPT ![e] = Append(@, end[e].tx)]
  /\ UNCHANGED <<wire, pio, again, closes, received, pinned, bound>>

Sent(e) ==
  /\ Goes(e, {"send"}) /\ end[e].out = <<>>
  /\ Set(e, [end[e] EXCEPT !.op = "idle"])
  /\ UNCHANGED <<wire, pio, again, closes, sent, received, pinned, bound>>

Receive(e) ==
  /\ Goes(e, {"idle"})
  /\ Set(e, [end[e] EXCEPT !.op = "receive"])
  /\ UNCHANGED <<wire, pio, again, closes, sent, received, pinned, bound>>

(* receive_message() and _pop(): a frame only when it is whole, of this    *)
(* attempt, from the peer, and the next one.                               *)
TakeRecord(e) ==
  /\ Goes(e, {"receive"}) /\ Good(e) /\ Head(end[e].inq).body[1] = "m"
  /\ LET body == Head(end[e].inq).body
         taken == [end[e] EXCEPT !.inq = <<>>, !.got = @ + 1] IN
     IF end[e].plain = 0
     THEN Set(e, [taken EXCEPT !.plain = 1]) /\ UNCHANGED received
     ELSE IF ~bound \/ body[2] # end[e].rx \/ end[e].rx >= MaxMessages
     THEN Terminal(e) /\ UNCHANGED received
     ELSE /\ Set(e, [taken EXCEPT !.op = "idle", !.plain = 0, !.rx = @ + 1])
          /\ received' = [received EXCEPT ![e] = Append(@, body[2])]
  /\ UNCHANGED <<wire, pio, again, closes, sent, pinned, bound>>

(* TLS refuses a record out of place; the budget is over; an operation     *)
(* raises.  A submitted transfer is still the kernel's.                    *)
OperationFails(e) ==
  /\ \/ Busy(e) /\ BudgetOver /\ Works
     \/ Busy(e) /\ Fails
     \/ Busy(e) /\ Readable(e) /\ ~Good(e) /\ Works
  /\ \E line \in IF end[e].op = "open" THEN {"none", "open"} ELSE {end[e].line}:
       Set(e, [end[e] EXCEPT !.op = "dispose", !.ready = FALSE, !.plain = 0, !.line = line])
  /\ UNCHANGED <<wire, pio, again, closes, sent, received, pinned, bound>>

CallAfterStop(e) ==
  /\ end[e].op = "idle" /\ BudgetOver
  /\ Works
  /\ Terminal(e)
  /\ UNCHANGED <<wire, pio, again, closes, sent, received, pinned, bound>>

-----------------------------------------------------------------------------
(* SerialDevice: what poll() and read() or write() do at once. *)
WantsWrite(e) == end[e].op \in {"handshake", "send", "receive"} /\ end[e].out # <<>>
WantsRead(e) == /\ end[e].op = "receive" \/ (end[e].op = "handshake" /\ ~end[e].ready)
                /\ end[e].out = <<>> /\ ~Readable(e)
                /\ e = "guest" \/ end[e].hs = 1

DeviceWrites ==
  /\ WantsWrite("guest") /\ ~BudgetOver /\ Works
  /\ wire' = [wire EXCEPT !["guest"] = Append(@, Head(end["guest"].out))]
  /\ Set("guest", [end["guest"] EXCEPT !.out = Tail(end["guest"].out)])
  /\ UNCHANGED <<pio, again, closes, sent, received, pinned, bound>>

DeviceReads ==
  /\ WantsRead("guest") /\ wire["controller"] # <<>> /\ ~BudgetOver /\ Works
  /\ wire' = [wire EXCEPT !["controller"] = Tail(@)]
  /\ Set("guest", [end["guest"] EXCEPT !.inq = <<Head(wire["controller"])>>])
  /\ UNCHANGED <<pio, again, closes, sent, received, pinned, bound>>

(* SerialDevice._dispose(): detached first, then restored, released and    *)
(* closed whatever fails, and never again.                                 *)
DeviceDisposes ==
  /\ end["guest"].op = "dispose"
  /\ \/ Works /\ Set("guest", [end["guest"] EXCEPT !.op = "done", !.line = "closed"])
     \/ /\ end["guest"].line = "open" /\ Fails
        /\ Set("guest", [end["guest"] EXCEPT !.op = "done", !.line = "unknown"])
  /\ closes' = IF end["guest"].line = "open" THEN closes + 1 ELSE closes
  /\ UNCHANGED <<wire, pio, again, sent, received, pinned, bound>>

(* BoundedPipe._transfer(): the kernel owns buffer, event and OVERLAPPED   *)
(* from the submission to its completion.                                  *)
Submit ==
  /\ WantsWrite("controller") \/ WantsRead("controller")
  /\ pio.at = "none" /\ ~BudgetOver /\ Works
  /\ pio' = [at |-> "pending", write |-> WantsWrite("controller"),
             data |-> IF WantsWrite("controller") THEN <<Head(end["controller"].out)>> ELSE <<>>]
  /\ UNCHANGED <<end, wire, again, closes, sent, received, pinned, bound>>

(* GetOverlappedResult() has an answer; the event could not be closed: the *)
(* channel is in _QUARANTINE, and nobody disposes of it again by itself.   *)
Poll ==
  /\ Busy("controller") /\ pio.at = "done" /\ ~BudgetOver
  /\ \/ /\ Works
        /\ IF pio.write THEN Set("controller", [end["controller"] EXCEPT !.out = Tail(end["controller"].out)])
           ELSE Set("controller", [end["controller"] EXCEPT !.inq = pio.data])
     \/ /\ Fails
        /\ Set("controller", [end["controller"] EXCEPT !.op = "done", !.line = "unknown", !.ready = FALSE])
  /\ pio' = NoTransfer
  /\ UNCHANGED <<wire, again, closes, sent, received, pinned, bound>>

(* Mutant: the buffers are released when the drain took too long. *)
ReleaseAnyway == "closed"

(* _dispose(): cleanup is unknown while the kernel may still hold them. *)
AfterDrainTimeout == "unknown"

PipeDisposes ==
  /\ end["controller"].op = "dispose"
  /\ \/ /\ pio.at = "pending"
        /\ Works
        /\ Set("controller", [end["controller"] EXCEPT !.op = "done", !.line = AfterDrainTimeout])
        /\ UNCHANGED pio
     \/ /\ pio.at # "pending"
        /\ \/ Works /\ Set("controller", [end["controller"] EXCEPT !.op = "done", !.line = "closed"])
           \/ /\ end["controller"].line # "none" /\ Fails
              /\ Set("controller", [end["controller"] EXCEPT !.op = "done", !.line = "unknown"])
        /\ pio' = NoTransfer
  /\ UNCHANGED <<wire, again, closes, sent, received, pinned, bound>>

(* The same owner looks at exactly these resources again; the guest's      *)
(* close() only repeats that it does not know.                             *)
CloseAgain ==
  /\ end["controller"].op = "done" /\ end["controller"].line = "unknown" /\ ~again
  /\ again' = TRUE
  /\ Set("controller", [end["controller"] EXCEPT !.op = "dispose"])
  /\ Works
  /\ UNCHANGED <<wire, pio, closes, sent, received, pinned, bound>>

(* close() by the caller. *)
CloseIdle(e) ==
  /\ end[e].op = "idle"
  /\ Works
  /\ Terminal(e)
  /\ UNCHANGED <<wire, pio, again, closes, sent, received, pinned, bound>>

-----------------------------------------------------------------------------
(* The kernel and the hypervisor's pipe; a transfer being cancelled either *)
(* had its effect or has none.                                             *)
KernelCompletes ==
  /\ pio.at = "pending"
  /\ \/ /\ pio.write
        /\ wire' = [wire EXCEPT !["controller"] = Append(@, pio.data[1])]
        /\ pio' = [pio EXCEPT !.at = "done"]
     \/ /\ ~pio.write /\ wire["guest"] # <<>>
        /\ wire' = [wire EXCEPT !["guest"] = Tail(@)]
        /\ pio' = [pio EXCEPT !.at = "done", !.data = <<Head(wire["guest"])>>]
     \/ /\ end["controller"].op = "dispose"
        /\ pio' = [pio EXCEPT !.at = "done"] /\ UNCHANGED wire
  /\ Works
  /\ UNCHANGED <<end, again, closes, sent, received, pinned, bound>>

(* The line drops or repeats a record, or carries something foreign. *)
LineFault ==
  /\ Fails
  /\ \E e \in Ends:
       /\ wire[e] # <<>>
       /\ \/ wire' = [wire EXCEPT ![e] = Tail(@)]
          \/ wire' = [wire EXCEPT ![e] = <<Head(@)>> \o @]
          \/ wire' = [wire EXCEPT ![e] = <<[n |-> 0, body |-> <<"x", 0, 0>>]>> \o @]
  /\ UNCHANGED <<end, pio, again, closes, sent, received, pinned, bound>>

EndStep(e) ==
  \/ HandshakeStep(e) \/ Authenticated(e) \/ Sent(e) \/ TakeRecord(e)
  \/ OperationFails(e)

SerialStep ==
  \/ \E e \in Ends: EndStep(e)
  \/ OpenPipe \/ OpenTty
  \/ DeviceWrites \/ DeviceReads \/ DeviceDisposes \/ Submit \/ Poll \/ PipeDisposes

SerialAround ==
  \/ \E e \in Ends: SendMessage(e) \/ Receive(e) \/ CallAfterStop(e) \/ CloseIdle(e)
  \/ CloseAgain \/ KernelCompletes \/ LineFault

SerialEnded == \A e \in Ends: end[e].op \in {"off", "idle", "done"}
=============================================================================
