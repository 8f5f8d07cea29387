--------------------------- MODULE ImageMaintenance ---------------------------
(***************************************************************************)
(* One maintenance of a copied disk, and the publication of its result:    *)
(*   image_finalization.py         run_image_maintenance();                *)
(*   maintain_image_copy.ps1       the copy, the recovery machine;         *)
(*   guest/finalize_image_copy.py  main() inside that machine;             *)
(*   image_publication.py, publish_image_copy.ps1  the export.             *)
(* The command may be killed by its timeout and its caller may die; the    *)
(* machine and the guest in it then go on by themselves.                   *)
(*                                                                         *)
(* Left out: which check of paths, digests, settings, pipe security or     *)
(* guest policy refuses, since each one is a failure; the bytes on disks;  *)
(* a script that outlives its caller.  Until the script hashes the copy,   *)
(* no other program writes it: nothing but the attempt knows its path.     *)
(***************************************************************************)
EXTENDS ImagePreparation

VARIABLES
  attempt,  \* run_image_maintenance(): where it is; its manifest, claim and receipts
  bench,    \* the source, the copy and the recovery machine
  rescue,   \* main() in that machine: where it is, its verdict, its receipt
  export,   \* publication.claim, the file, its policy, the record beside it
  pub       \* operator -> where its publish_finalized_image() is

maintenanceVars == <<attempt, bench, rescue, export, pub>>

MaintenanceInit(mode) ==
  /\ attempt = [mode |-> mode, at |-> IF mode = "none" THEN "off" ELSE "prepare",
                result |-> "none", unsaved |-> FALSE, claimed |-> FALSE,
                hashed |-> "none", noted |-> "none"]
  /\ bench = [source |-> "good", copy |-> "none", vm |-> "absent"]
  /\ rescue = [at |-> "none", ok |-> FALSE, reply |-> "none"]
  /\ export = [claimed |-> FALSE, image |-> "none", policy |-> FALSE, record |-> "none"]
  /\ pub = [p \in Operators |-> "new"]

Success == IF attempt.mode = "inspect" THEN "inspected_not_accepted" ELSE "finalized_not_accepted"

InScript == {"copy", "create", "boot", "channel", "guest", "stop", "verify", "remove"}

(* The script lives, and denies every other program to write the source. *)
SourceHeld == attempt.at \in (InScript \ {"copy"}) \cup {"catch"}

Attempt(from, to) == attempt.at = from /\ attempt' = [attempt EXCEPT !.at = to]

-----------------------------------------------------------------------------
(* Before the command: inputs against their digests, the directories and   *)
(* the first manifest; then the media, the manifest again, the claim.      *)
PrepareAttempt ==
  /\ attempt.at = "prepare"
  /\ attempt' = IF bench.source = "good"
                THEN [attempt EXCEPT !.at = "media", !.result = "prepared_not_started"]
                ELSE [attempt EXCEPT !.at = "raised"]
  /\ Works /\ UNCHANGED <<bench, rescue, export, pub>>

WriteMedia == Attempt("media", "mark") /\ Works /\ UNCHANGED <<bench, rescue, export, pub>>

ClaimAttempt ==
  /\ \/ /\ attempt.at = "mark"
        /\ attempt' = [attempt EXCEPT !.at = "claim", !.result = "maintenance_unknown"]
     \/ /\ attempt.at = "claim"
        /\ attempt' = [attempt EXCEPT !.at = "copy", !.claimed = TRUE]
  /\ Works /\ UNCHANGED <<bench, rescue, export, pub>>

(* COPY: the source is held against writers, looked at again and copied. *)
CopySource ==
  /\ Attempt("copy", IF bench.source = "good" THEN "create" ELSE "catch")
  /\ bench' = [bench EXCEPT !.copy = IF bench.source = "good" THEN "source" ELSE @]
  /\ Works /\ UNCHANGED <<rescue, export, pub>>

(* CREATE: a machine with the copy and both media, on record before it runs. *)
CreateRescue ==
  /\ Attempt("create", "boot")
  /\ bench' = [bench EXCEPT !.vm = "ready"]
  /\ Works /\ UNCHANGED <<rescue, export, pub>>

(* BOOT *)
StartRescue ==
  /\ Attempt("boot", "channel")
  /\ bench' = [bench EXCEPT !.vm = "running"]
  /\ rescue' = [rescue EXCEPT !.at = "booting"]
  /\ Works /\ UNCHANGED <<export, pub>>

(* CHANNEL: connect, look at the pipe's owner and ACL, send the handshake; *)
(* a guest that no longer waits for it never answers.                      *)
SendHandshake ==
  /\ Attempt("channel", "guest")
  /\ rescue' = [rescue EXCEPT !.at = IF @ = "booting" THEN "asked" ELSE @]
  /\ Works /\ UNCHANGED <<bench, export, pub>>

(* GUEST: the receipt, or the deadline, which may come first. *)
AwaitReply ==
  /\ \/ rescue.reply = "success" /\ Attempt("guest", "stop")
     \/ Attempt("guest", "catch")
  /\ Works /\ UNCHANGED <<bench, rescue, export, pub>>

(* What the power going off under the guest leaves in the copy. *)
Settled == IF bench.copy = "mounted" THEN "half" ELSE bench.copy

(* STOP: the live system, after the guest has unmounted the copy. *)
StopRescue ==
  /\ Attempt("stop", "verify")
  /\ bench' = [bench EXCEPT !.vm = "off", !.copy = Settled]
  /\ rescue' = [rescue EXCEPT !.at = "gone"]
  /\ Works /\ UNCHANGED <<export, pub>>

(* VERIFY: the digests of both disks. *)
VerifyDisks ==
  /\ attempt.at = "verify" /\ bench.source = "good"
  /\ attempt' = [attempt EXCEPT !.at = "remove", !.hashed = bench.copy]
  /\ Works /\ UNCHANGED <<bench, rescue, export, pub>>

(* REMOVE: the machine is gone and nothing refers to the copy; the script  *)
(* answers and lets go of the source.                                      *)
RemoveRescue ==
  /\ Attempt("remove", "receipt")
  /\ bench' = [bench EXCEPT !.vm = "absent"]
  /\ Works /\ UNCHANGED <<rescue, export, pub>>

(* The receipt is what it must be, and the source is hashed once more. *)
CheckReceipt ==
  /\ Attempt("receipt", IF bench.source = "good" THEN "store" ELSE "failed")
  /\ Works /\ UNCHANGED <<bench, rescue, export, pub>>

StoreResult ==
  /\ attempt.at = "store"
  /\ attempt' = [attempt EXCEPT !.at = "done", !.result = Success]
  /\ Works /\ UNCHANGED <<bench, rescue, export, pub>>

-----------------------------------------------------------------------------
(* The script's catch: a machine it owns is turned off, and seen to be; a  *)
(* failure receipt says so, or is lost; the source is let go.              *)
StopAfterFailure ==
  /\ attempt.at = "catch"
  /\ \E stopped \in BOOLEAN, noted \in {"none", "unknown", "off_observed"}:
       /\ stopped => bench.vm \in {"ready", "running", "off"}
       /\ noted = "off_observed" => stopped
       /\ bench' = IF stopped THEN [bench EXCEPT !.vm = "off", !.copy = Settled] ELSE bench
       /\ rescue' = IF stopped THEN [rescue EXCEPT !.at = "gone"] ELSE rescue
       /\ attempt' = [attempt EXCEPT !.at = "failed", !.noted = noted]
       /\ IF noted = (IF bench.vm \in {"absent", "bare"} THEN "unknown" ELSE "off_observed")
          THEN Works ELSE Mishap
  /\ UNCHANGED <<export, pub>>

(* The except branch of Python: the manifest once more, with the status    *)
(* the attempt has reached in memory.                                      *)
RecordFailure ==
  /\ attempt.at \in {"failed", "failed_to_store"}
  /\ attempt' = [attempt EXCEPT !.at = "raised",
                                !.result = IF attempt.at = "failed_to_store" /\ ~attempt.unsaved
                                           THEN Success ELSE @]
  /\ Works /\ UNCHANGED <<bench, rescue, export, pub>>

(* What a step that is cut short may have done all the same. *)
HalfDone ==
  \/ UNCHANGED <<bench, rescue>>
  \/ /\ attempt.at = "copy" /\ bench.source = "good"
     /\ bench' = [bench EXCEPT !.copy = "torn"] /\ UNCHANGED rescue
  \/ /\ attempt.at = "create"
     /\ \E vm \in {"bare", "ready"}: bench' = [bench EXCEPT !.vm = vm]
     /\ UNCHANGED rescue
  \/ /\ attempt.at = "boot"
     /\ bench' = [bench EXCEPT !.vm = "running"] /\ rescue' = [rescue EXCEPT !.at = "booting"]
  \/ /\ attempt.at = "remove"
     /\ bench' = [bench EXCEPT !.vm = "absent"] /\ UNCHANGED rescue

(* _manifest() is at work on a manifest.pending. *)
Storing == attempt.at \in {"mark", "store", "failed", "failed_to_store"}

(* An exception: in the script it is caught there, around it in Python,    *)
(* before it and after it by nobody.                                       *)
AttemptFails ==
  /\ Mishap
  /\ \/ attempt.at \in InScript /\ Attempt(attempt.at, "catch") /\ HalfDone
     \/ /\ attempt.at = "receipt" /\ Attempt("receipt", "failed") /\ UNCHANGED <<bench, rescue>>
     \/ /\ \E unsaved \in BOOLEAN, claimed \in {attempt.claimed, attempt.at = "claim"}:
             /\ unsaved => attempt.unsaved \/ Storing
             /\ attempt.unsaved => unsaved
             /\ attempt.claimed => claimed
             /\ attempt.at \in {"prepare", "media", "claim"} \/ Storing
             /\ attempt' = [attempt EXCEPT
                  !.at = IF @ = "store" THEN "failed_to_store" ELSE "raised",
                  !.unsaved = unsaved, !.claimed = claimed]
        /\ UNCHANGED <<bench, rescue>>
  /\ UNCHANGED <<export, pub>>

(* The timeout of the command kills the script, and nothing else. *)
ScriptKilled ==
  /\ attempt.at \in InScript \cup {"catch"}
  /\ Attempt(attempt.at, "failed") /\ HalfDone
  /\ Mishap
  /\ UNCHANGED <<export, pub>>

(* The process dies, and the script with it. *)
AttemptDies ==
  /\ attempt.at \notin {"off", "done", "raised", "dead"}
  /\ HalfDone
  /\ \E unsaved \in BOOLEAN, stored \in {attempt.result, Success}:
       /\ stored = Success => attempt.at \in {"store", "failed_to_store"} /\ ~attempt.unsaved
       /\ unsaved => attempt.unsaved \/ (Storing /\ stored # Success)
       /\ attempt.unsaved => unsaved
       /\ attempt' = [attempt EXCEPT !.at = "dead", !.unsaved = unsaved, !.result = stored]
  /\ Mishap
  /\ UNCHANGED <<export, pub>>

-----------------------------------------------------------------------------
(* The guest, while its machine runs.  Nothing makes it go on. *)
Guest(from, to) == bench.vm = "running" /\ rescue.at = from /\ rescue' = [rescue EXCEPT !.at = to]
GuestEnds(from, to, ok) ==
  /\ bench.vm = "running" /\ rescue.at = from
  /\ rescue' = [rescue EXCEPT !.at = to, !.ok = ok]

(* The machine is not the one it is for, or no handshake came in time. *)
GuestRefuses == Guest("booting", "gone") /\ UNCHANGED bench

(* main(): the layout of the disk, everything read-only, the mount. *)
GuestMounts ==
  \/ Guest("asked", "reading") /\ UNCHANGED bench
  \/ GuestEnds("asked", "closing", FALSE) /\ UNCHANGED bench

(* inspect: the inventory.  finalize: prepare() accepts the whole plan     *)
(* before the copy is mounted again, to be written.                        *)
GuestInspects ==
  \/ attempt.mode = "inspect" /\ GuestEnds("reading", "closing", TRUE) /\ UNCHANGED bench
  \/ /\ attempt.mode = "finalize" /\ Guest("reading", "cleaning")
     /\ bench' = [bench EXCEPT !.copy = "mounted"]
  \/ GuestEnds("reading", "closing", FALSE) /\ UNCHANGED bench

(* finalize(): everything removed and restored, and audited after that. *)
GuestFinalizes == \E ok \in BOOLEAN: GuestEnds("cleaning", "closing", ok) /\ UNCHANGED bench

(* The finally branch: unmounted, read-only again and seen to be, or the   *)
(* attempt has failed whatever it did.                                     *)
GuestCloses ==
  /\ bench.vm = "running" /\ rescue.at = "closing"
  /\ \E unmounted \in BOOLEAN:
       /\ rescue' = [rescue EXCEPT !.at = "replied",
                       !.reply = IF rescue.ok /\ unmounted THEN "success" ELSE "failed"]
       /\ bench' = [bench EXCEPT !.copy =
                       IF @ # "mounted" \/ ~unmounted THEN @
                       ELSE IF rescue.ok THEN "final" ELSE "half"]

-----------------------------------------------------------------------------
(* publish_finalized_image(): the manifest is the one that was reviewed    *)
(* and says that a finalization succeeded; no output is there yet.  Bound: *)
(* each process tries once.                                                *)
BeginPublication(p) ==
  /\ pub[p] = "new" /\ attempt.result = "finalized_not_accepted"
  /\ export.image = "none" /\ export.record = "none"
  /\ pub' = [pub EXCEPT ![p] = "claim"]
  /\ Works /\ UNCHANGED <<attempt, bench, rescue, export>>

ClaimPublication(p) ==
  /\ pub[p] = "claim"
  /\ pub' = [pub EXCEPT ![p] = IF export.claimed THEN "over" ELSE "export"]
  /\ export' = [export EXCEPT !.claimed = TRUE]
  /\ Works /\ UNCHANGED <<attempt, bench, rescue>>

(* Mutant: the script trusts the digest it was given. *)
CopyTrusted == bench.vm = "absent"

(* The script: the copy is nobody's disk and has the accepted digest. *)
CopyIsAccepted == bench.vm = "absent" /\ bench.copy = attempt.hashed

ExportCopy(p) ==
  /\ pub[p] = "export"
  /\ IF CopyIsAccepted /\ export.image = "none"
     THEN /\ export' = [export EXCEPT !.image = bench.copy, !.policy = TRUE]
          /\ pub' = [pub EXCEPT ![p] = "record"]
     ELSE pub' = [pub EXCEPT ![p] = "over"] /\ UNCHANGED export
  /\ Works /\ UNCHANGED <<attempt, bench, rescue>>

(* The receipt and the file agree with the accepted digest; the record is  *)
(* created exclusively.                                                    *)
RecordProvenance(p) ==
  /\ pub[p] = "record"
  /\ export' = [export EXCEPT !.record = "whole"]
  /\ pub' = [pub EXCEPT ![p] = "over"]
  /\ Works /\ UNCHANGED <<attempt, bench, rescue>>

(* The script may end anywhere in the export or before its policy is set. *)
TornExports ==
  UNION {{[export EXCEPT !.image = image, !.policy = policy]: policy \in BOOLEAN}:
           image \in {"torn", bench.copy}}

(* An exception or the death of the process: what is there stays there. *)
PublicationFails(p) ==
  /\ pub[p] \in {"claim", "export", "record"}
  /\ export' \in {export} \cup
       CASE pub[p] = "claim" -> {[export EXCEPT !.claimed = TRUE]}
         [] pub[p] = "export" /\ CopyIsAccepted -> TornExports
         [] pub[p] = "record" -> {[export EXCEPT !.record = "torn"]}
         [] OTHER -> {}
  /\ pub' = [pub EXCEPT ![p] = "over"]
  /\ Mishap /\ UNCHANGED <<attempt, bench, rescue>>

(* Another program of the host writes a disk nobody holds. *)
DiskChanges ==
  /\ attempt.at # "off"
  /\ \/ ~SourceHeld /\ bench.source = "good" /\ bench' = [bench EXCEPT !.source = "changed"]
     \/ attempt.hashed \in {"source", "final"} /\ bench' = [bench EXCEPT !.copy = "altered"]
  /\ Mishap /\ UNCHANGED <<attempt, rescue, export, pub>>

-----------------------------------------------------------------------------
MaintenanceStep ==
  \/ PrepareAttempt \/ WriteMedia \/ ClaimAttempt \/ CopySource \/ CreateRescue \/ StartRescue
  \/ SendHandshake \/ AwaitReply \/ StopRescue \/ VerifyDisks \/ RemoveRescue \/ CheckReceipt
  \/ StoreResult \/ StopAfterFailure \/ RecordFailure \/ AttemptFails
  \/ \E p \in Operators: ClaimPublication(p) \/ ExportCopy(p) \/ RecordProvenance(p)

MaintenanceAround ==
  \/ ScriptKilled \/ AttemptDies \/ DiskChanges
  \/ (GuestRefuses \/ GuestMounts \/ GuestInspects \/ GuestFinalizes \/ GuestCloses)
     /\ Works /\ UNCHANGED <<attempt, export, pub>>
  \/ \E p \in Operators: BeginPublication(p) \/ PublicationFails(p)

MaintenanceEnded ==
  /\ attempt.at \in {"off", "done", "raised", "dead"}
  /\ \A p \in Operators: pub[p] \in {"new", "over"}
=============================================================================
