--------------------------- MODULE SnapshotExport ---------------------------
(***************************************************************************)
(* The export of an approved commit: night_shifts/snapshot.py              *)
(* (GitSnapshotExporter.export over _bounded_git, and encode_snapshot's    *)
(* policy).  Each Git command is a child process with two reader threads   *)
(* that stop at a limit; the caller polls the child until it has exited or *)
(* the command's own deadline is over.                                     *)
(*                                                                         *)
(* Output is counted in chunks: a listing has one for each entry, in the   *)
(* order of the paths, and an object two.  What a path, a mode, a size and *)
(* a digest look like is left out: an entry of the tree is as approved, of *)
(* other content, or of a kind the export refuses.                         *)
(***************************************************************************)
EXTENDS WorkerControl, Functions

CONSTANTS PathCount,   \* paths the commit may have, 1..PathCount
          MaxListing,  \* MAX_LISTING_BYTES, in entries
          MaxFiles     \* MAX_FILES

ASSUME SnapshotAssumption == {PathCount, MaxListing, MaxFiles} \subseteq Nat \ {0}

VARIABLES
  tree, commit, approved, \* what the revision is and has; the operator's file list
  spc,      \* export(): "type", "list", "entry", "blob", "encode", "returned", "raised"
  git,      \* the Git process: "none", "running", "ok", "failed", "killed"
  inherits, \* a process Git started holds its pipes
  wrote,    \* chunks Git has written to stdout
  kept,     \* chunks in output[0]
  drain,    \* the readers of stdout and stderr: "reading", "eof", "stopped"
  entries,  \* paths of the listing, as read, that are still to be exported
  exported  \* the files so far

snapshotVars == <<tree, commit, approved, spc, git, inherits, wrote, kept, drain, entries, exported>>

Paths == 1..PathCount
Kinds == {"absent", "same", "altered", "link"}
Tree == {p \in Paths: tree[p] # "absent"}

NoGit == git = "none" /\ inherits = FALSE /\ wrote = 0 /\ kept = 0 /\ drain = <<"eof", "eof">>

SnapshotInit ==
  /\ tree \in [Paths -> Kinds] /\ commit \in BOOLEAN
  /\ approved \in {a \in SUBSET Paths: a # {} /\ Cardinality(a) <= MaxFiles}
  /\ spc = "type" /\ NoGit /\ entries = {} /\ exported = {}

SnapshotRest ==
  /\ tree = [p \in Paths |-> "absent"] /\ commit = TRUE /\ approved = {}
  /\ spc = "returned" /\ NoGit /\ entries = {} /\ exported = {}

-----------------------------------------------------------------------------
(* _bounded_git(). *)
Calling == spc \in {"type", "list", "blob"}

(* How many chunks the command writes, and how many its reader takes. *)
Output == CASE spc = "type" -> 1 [] spc = "list" -> Cardinality(Tree) [] OTHER -> 2
Limit == IF spc = "list" THEN MaxListing ELSE 2

GitSame == UNCHANGED <<tree, commit, approved, entries, exported>>

GitStarts ==
  /\ Calling /\ git = "none"
  /\ \/ git' = "running" /\ drain' = <<"reading", "reading">> /\ UNCHANGED spc /\ Works
     \/ spc' = "raised" /\ UNCHANGED <<git, drain>> /\ Fails
  /\ UNCHANGED <<inherits, wrote, kept>> /\ GitSame

(* Git, which may fail at any point, or leave a process behind. *)
GitRuns ==
  /\ git = "running"
  /\ \/ wrote < Output /\ wrote' = wrote + 1 /\ UNCHANGED <<git, inherits>> /\ Works
     \/ wrote = Output /\ git' = "ok" /\ UNCHANGED <<wrote, inherits>> /\ Works
     \/ wrote = Output /\ git' = "ok" /\ inherits' = TRUE /\ UNCHANGED wrote /\ Fails
     \/ git' = "failed" /\ UNCHANGED <<wrote, inherits>> /\ Fails
  /\ UNCHANGED <<spc, kept, drain>> /\ GitSame

EndOfPipe == git # "running" /\ ~inherits

(* drain(): a chunk that would exceed the capacity, or a read error, sets  *)
(* the flag and ends the reader.                                           *)
DrainOutput ==
  /\ drain[1] = "reading"
  /\ \/ kept < wrote /\ kept < Limit /\ kept' = kept + 1 /\ UNCHANGED drain /\ Works
     \/ kept < wrote /\ kept = Limit /\ drain' = [drain EXCEPT ![1] = "stopped"]
        /\ UNCHANGED kept /\ Works
     \/ kept = wrote /\ EndOfPipe /\ drain' = [drain EXCEPT ![1] = "eof"]
        /\ UNCHANGED kept /\ Works
     \/ drain' = [drain EXCEPT ![1] = "stopped"] /\ UNCHANGED kept /\ Fails
  /\ UNCHANGED <<spc, git, inherits, wrote>> /\ GitSame

DrainErrors ==
  /\ drain[2] = "reading"
  /\ \/ EndOfPipe /\ drain' = [drain EXCEPT ![2] = "eof"] /\ Works
     \/ drain' = [drain EXCEPT ![2] = "stopped"] /\ Fails
  /\ UNCHANGED <<spc, git, inherits, wrote, kept>> /\ GitSame

Exceeded == "stopped" \in Range(drain)
ReadersDone == "reading" \notin Range(drain)

(* The loop over poll() raises; the child is killed and reaped.  So does   *)
(* the join of a reader that is still alive at the deadline, when the      *)
(* child has already exited.  Nothing of the output is used.               *)
GitOverdue ==
  /\ Calling /\ git # "none" /\ (git = "running" \/ ~ReadersDone)
  /\ spc' = "raised" /\ git' = (IF git = "running" THEN "killed" ELSE git)
  /\ Works
  /\ UNCHANGED <<inherits, wrote, kept, drain>> /\ GitSame

(* Mutant: the readers are joined, but not asked whether they are done. *)
SettledWithoutReaders == git = "ok" /\ ~Exceeded

(* After poll() and the two joins: the output is complete. *)
Settled == git = "ok" /\ ~Exceeded /\ ReadersDone

(* The output is taken, and the process of the next command is a new one. *)
Reset == git' = "none" /\ inherits' = FALSE /\ wrote' = 0 /\ kept' = 0 /\ drain' = <<"eof", "eof">>

GitRefused ==
  /\ Calling /\ git \in {"ok", "failed"} /\ ReadersDone
  /\ Exceeded \/ git = "failed"
  /\ spc' = "raised" /\ Reset
  /\ Works /\ GitSame

-----------------------------------------------------------------------------
(* export(), after the checks of identity and policy. *)
TypeKnown ==
  /\ spc = "type" /\ Settled
  /\ spc' = (IF commit /\ kept = Output THEN "list" ELSE "raised")
  /\ Reset
  /\ Works /\ GitSame

(* split() of the listing: the first paths, as many as were read. *)
TreeListed ==
  /\ spc = "list" /\ Settled
  /\ entries' = {p \in Tree: Cardinality({q \in Tree: q < p}) < kept} /\ spc' = "entry"
  /\ Reset
  /\ Works /\ UNCHANGED <<tree, commit, approved, exported>>

(* The loop over the listing, in the order of the paths, and its checks of an entry. *)
NextPath == CHOOSE p \in entries: \A q \in entries: p <= q

EntryAllowed(p) == p \in approved /\ tree[p] # "link" /\ Cardinality(exported) < MaxFiles

NextEntry ==
  /\ spc = "entry"
  /\ spc' = IF entries = {} THEN "encode"
            ELSE IF EntryAllowed(NextPath) THEN "blob" ELSE "raised"
  /\ Works
  /\ UNCHANGED <<git, inherits, wrote, kept, drain>> /\ GitSame

(* Length and digest of the object against the approval. *)
BlobRead ==
  /\ spc = "blob" /\ Settled
  /\ IF kept = Output /\ tree[NextPath] = "same"
     THEN /\ exported' = exported \cup {NextPath}
          /\ entries' = entries \ {NextPath} /\ spc' = "entry"
     ELSE spc' = "raised" /\ UNCHANGED <<exported, entries>>
  /\ Reset
  /\ Works /\ UNCHANGED <<tree, commit, approved>>

(* encode_snapshot() checks once more what _files_valid() can refuse:      *)
(* names, modes, text and sizes.                                           *)
Encode ==
  /\ spc = "encode"
  /\ \/ spc' = "raised" /\ Fails
     \/ /\ spc' = IF approved = exported /\ Cardinality(exported) \in 1..MaxFiles
                  THEN "returned" ELSE "raised"
        /\ Works
  /\ UNCHANGED <<git, inherits, wrote, kept, drain>> /\ GitSame

SnapshotStep ==
  /\ \/ GitStarts \/ DrainOutput \/ DrainErrors \/ GitOverdue \/ GitRefused
     \/ TypeKnown \/ TreeListed \/ NextEntry \/ BlobRead \/ Encode
  /\ UNCHANGED control

GitProcess == GitRuns /\ UNCHANGED control
=============================================================================
