----------------------------- MODULE PendingEdits -----------------------------
(***************************************************************************)
(* editing/store.py (EditStore): file changes the agent proposes and the   *)
(* operator approves or rejects, over a small file tree that other         *)
(* programs change meanwhile.  The proposals come from the mutation tools  *)
(* (tools/fs/edit.py, tools/fs/ops.py) on the agent's thread, approve()    *)
(* and reject() from the UI (adapters/textual/app.py).                     *)
(*                                                                         *)
(* A file is a row of regions, each holding one text: an exact edit finds  *)
(* a text that must occur in exactly one region, and a change overlaps     *)
(* another one when both touch a region.  How a file on disk ends its lines *)
(* is kept beside its text: read_text() turns every ending into "\n", and  *)
(* write_text() turns "\n" into the ending of the platform.  approve() is  *)
(* one step: what happens between its check of a path and its use of it is *)
(* left out, an OSError in its middle is not.                              *)
(***************************************************************************)
EXTENDS Integers, Sequences, FiniteSets, SequencesExt

CONSTANTS Paths,        \* path names, each a sequence of components
          Regions,      \* regions of a file
          Texts,        \* what a region may hold
          Endings,      \* how files end their lines, mixed ones included
          LineSep,      \* os.linesep
          InitialContents, \* bound: contents of the files there are at first
          InitialEndings,  \* bound: how those files end their lines
          MaxInputs,    \* bound: proposals, changes by other programs and OSErrors together
          MaxFaults,    \* bound: OSErrors
          MaxSteps      \* bound: exact replacements per proposal

Contents == [Regions -> Texts]

ASSUME EditsAssumption ==
  /\ Paths \subseteq Seq(UNION {Range(p) : p \in Paths})
  /\ \A p \in Paths : p # <<>> /\ (Len(p) > 1 => Front(p) \in Paths)
  /\ IsFiniteSet(Regions) /\ Regions # {}
  /\ Texts # {} /\ InitialContents \subseteq Contents
  /\ LineSep \in Endings /\ InitialEndings \subseteq Endings
  /\ {MaxInputs, MaxFaults, MaxSteps} \subseteq Nat

Absent == [type |-> "absent"]
Dir == [type |-> "dir"]
File(c, s) == [type |-> "file", data |-> c, ends |-> s]
Files == [type : {"file"}, data : Contents, ends : Endings]
Nodes == {Absent, Dir} \cup Files
Trees == [Paths -> Nodes]

Replacements == {e \in [find : Texts, replace : Texts] : e.find # e.replace}
Batches == UNION {[1..n -> Replacements] : n \in 1..MaxSteps}

VARIABLES fs,       \* the file tree
          edits,    \* self._edits: the proposals, by id
          last,     \* id and result of the approve() call just made
          effects,  \* history: how often a proposal took effect
          others, faults

vars == <<fs, edits, last, effects, others, faults>>

NoCall == [id |-> 0, result |-> "none"]

IsTree(f) == \A p \in Paths : Len(p) > 1 /\ f[p] # Absent => f[Front(p)] = Dir

Init ==
  /\ fs \in {f \in [Paths -> {Absent, Dir} \cup {n \in Files : /\ n.data \in InitialContents
                                                             /\ n.ends \in InitialEndings}] :
                IsTree(f)}
  /\ edits = <<>>
  /\ last = NoCall
  /\ effects = <<>>
  /\ others = 0
  /\ faults = 0

-----------------------------------------------------------------------------
(* File trees. *)
Exists(f, p) == f[p] # Absent

(* The file write_text() leaves. *)
Written(c) == File(c, LineSep)

IsFile(f, p) == f[p].type = "file"

(* _is_relative_to(q, p) *)
Under(p, q) == IsPrefix(p, q)

(* _remove_path() *)
Removed(f, p) == [q \in Paths |-> IF Under(p, q) THEN Absent ELSE f[q]]

(* mkdir(parents=True, exist_ok=True) of p's parent raises when an         *)
(* ancestor is a file.                                                     *)
Blocked(f, p) == \E q \in Paths : IsStrictPrefix(q, p) /\ IsFile(f, q)

(* Mutant: missing directories are not made. *)
WithoutParents(f, p) == f

WithParents(f, p) == [q \in Paths |-> IF IsStrictPrefix(q, p) THEN Dir ELSE f[q]]

Rebase(q, from, to) == to \o SubSeq(q, Len(from) + 1, Len(q))

(* The subtree of g at s, put at d in f. *)
Grafted(f, g, s, d) ==
  [q \in Paths |-> IF ~Under(d, q) THEN f[q]
                   ELSE IF Rebase(q, d, s) \in Paths THEN g[Rebase(q, d, s)] ELSE Absent]

(* Bound: what is moved or copied still has a name in Paths. *)
Fits(f, s, d) == \A q \in Paths : Under(s, q) /\ Exists(f, q) => Rebase(q, s, d) \in Paths

-----------------------------------------------------------------------------
(* Exact replacements. *)

(* _apply_exact_edit(): the find-block must match exactly once. *)
ApplyExact(acc, e) ==
  LET hits == {r \in Regions : acc.data[r] = e.find}
  IN  IF acc.ok /\ Cardinality(hits) = 1
        THEN [ok |-> TRUE, data |-> [r \in Regions |-> IF r \in hits THEN e.replace ELSE acc.data[r]]]
        ELSE [acc EXCEPT !.ok = FALSE]

(* The replacements of a proposal, each on the result of the one before. *)
ApplyBatch(c, batch) ==
  LET after[n \in 0..Len(batch)] ==
        IF n = 0 THEN [ok |-> TRUE, data |-> c] ELSE ApplyExact(after[n - 1], batch[n])
  IN  after[Len(batch)]

(* _changed_spans() *)
Changed(original, modified) == {r \in Regions : original[r] # modified[r]}

(* Mutant: what others changed meanwhile is not compared. *)
OverlapIgnored(original, current, proposed) == FALSE

(* _changes_overlap() *)
ChangesOverlap(original, current, proposed) ==
  Changed(original, current) \cap Changed(original, proposed) # {}

-----------------------------------------------------------------------------
(* Proposals.  A refused proposal returns an error and stores nothing.     *)

InputsLeft == Len(edits) + others + faults < MaxInputs

Blank == CHOOSE c \in Contents : TRUE

Propose(e) ==
  /\ InputsLeft
  /\ edits' = Append(edits, e)
  /\ effects' = Append(effects, 0)
  /\ last' = NoCall
  /\ UNCHANGED <<fs, others, faults>>

(* "ends" is history: how the file ended its lines when it was read. *)
Proposal(kind, p) ==
  [kind |-> kind, path |-> p, dest |-> p, original |-> Blank, ends |-> LineSep, new |-> Blank,
   batch |-> <<>>, recursive |-> FALSE, force |-> FALSE, status |-> "pending"]

EditProposal(p, new, batch) ==
  [Proposal("edit", p) EXCEPT !.original = fs[p].data, !.ends = fs[p].ends, !.new = new,
                              !.batch = batch]

(* propose() *)
ProposeEdit(p, batch) ==
  /\ IsFile(fs, p)
  /\ InputsLeft
  /\ LET result == ApplyBatch(fs[p].data, batch)
     IN  /\ result.ok
         /\ Propose(EditProposal(p, result.data, batch))

(* propose_replace(); with create_if_missing an absent file is created. *)
ProposeReplace(p, c) ==
  /\ IsFile(fs, p)
  /\ fs[p].data # c
  /\ Propose(EditProposal(p, c, <<>>))

ProposeCreate(p, c) ==
  /\ ~Exists(fs, p)
  /\ Propose([Proposal("create", p) EXCEPT !.new = c])

ProposeMove(s, d, force) ==
  /\ Exists(fs, s)
  /\ s # d
  /\ ~(fs[s] = Dir /\ Under(s, d))
  /\ Exists(fs, d) => force
  /\ Propose([Proposal("move", s) EXCEPT !.dest = d, !.force = force])

ProposeCopy(s, d, recursive, force) ==
  /\ Exists(fs, s)
  /\ s # d
  /\ fs[s] = Dir => recursive /\ ~Under(s, d)
  /\ Exists(fs, d) => force
  /\ Propose([Proposal("copy", s) EXCEPT !.dest = d, !.recursive = recursive, !.force = force])

ProposeDelete(p, recursive, force) ==
  /\ Exists(fs, p) \/ force
  /\ fs[p] = Dir => recursive
  /\ Propose([Proposal("delete", p) EXCEPT !.recursive = recursive, !.force = force])

-----------------------------------------------------------------------------
(* approve(): what a call does to the tree f.  "refused" is a ValueError,  *)
(* "raised" any other exception.                                           *)

Done(f) == [result |-> "applied", tree |-> f]
Refused(f) == [result |-> "refused", tree |-> f]
Raised(f) == [result |-> "raised", tree |-> f]

(* An edit of a file whose text changed since the proposal is replayed on  *)
(* the current text, unless that is unsafe.  Endings are not compared.     *)
ApplyEdit(e, f) ==
  IF ~IsFile(f, e.path) THEN Raised(f)
  ELSE LET current == f[e.path].data
           replay == ApplyBatch(current, e.batch)
       IN  IF current = e.original THEN Done([f EXCEPT ![e.path] = Written(e.new)])
           ELSE IF \/ e.batch = <<>>
                   \/ ChangesOverlap(e.original, current, e.new)
                   \/ ~replay.ok
             THEN Refused(f)
             ELSE Done([f EXCEPT ![e.path] = Written(replay.data)])

(* Mutant: a file that appeared since the proposal is overwritten. *)
CreateOverwrites(e, f) ==
  IF Blocked(f, e.path) THEN Raised(f)
  ELSE Done([WithParents(Removed(f, e.path), e.path) EXCEPT ![e.path] = Written(e.new)])

ApplyCreate(e, f) ==
  IF Exists(f, e.path) THEN Refused(f)
  ELSE IF Blocked(f, e.path) THEN Raised(f)
  ELSE Done([WithParents(f, e.path) EXCEPT ![e.path] = Written(e.new)])

ApplyDelete(e, f) ==
  IF ~Exists(f, e.path) THEN IF e.force THEN Done(f) ELSE Refused(f)
  ELSE IF f[e.path] = Dir /\ ~e.recursive THEN Refused(f)
  ELSE Done(Removed(f, e.path))

(* The checks of a move or a copy. *)
Unsafe(e, f) ==
  \/ ~Exists(f, e.path)
  \/ f[e.path] = Dir /\ (Under(e.path, e.dest) \/ (e.kind = "copy" /\ ~e.recursive))
  \/ Exists(f, e.dest) /\ ~e.force

(* An existing destination is removed before anything is put there, and    *)
(* the source with it when it lies below.                                  *)
Cleared(e, f) == IF Exists(f, e.dest) THEN Removed(f, e.dest) ELSE f

(* shutil.move(), shutil.copytree() or shutil.copy2(). *)
Place(e, f) ==
  IF ~Exists(f, e.path) THEN Raised(f)
  ELSE LET rest == IF e.kind = "move" THEN Removed(f, e.path) ELSE f
       IN  Done(Grafted(WithParents(rest, e.dest), f, e.path, e.dest))

ApplyTransfer(e, f) ==
  IF Unsafe(e, f) THEN Refused(f)
  ELSE IF Blocked(f, e.dest) THEN Raised(f)
  ELSE Place(e, Cleared(e, f))

Apply(e, f) ==
  IF e.kind = "edit" THEN ApplyEdit(e, f)
  ELSE IF e.kind = "create" THEN ApplyCreate(e, f)
  ELSE IF e.kind = "delete" THEN ApplyDelete(e, f)
  ELSE ApplyTransfer(e, f)

(* Mutant: an edit that is not pending any more is taken. *)
OpenUnlessRejected(i) == edits[i].status # "rejected"

Open(i) == edits[i].status = "pending"

(* approve(): only a call that went through marks the edit as applied; the *)
(* edit of any other call stays pending and may be approved again.         *)
Approve(i) ==
  /\ Open(i)
  /\ edits[i].kind \in {"move", "copy"} => Fits(fs, edits[i].path, edits[i].dest)
  /\ LET r == Apply(edits[i], fs)
     IN  /\ fs' = r.tree
         /\ last' = [id |-> i, result |-> r.result]
         /\ IF r.result = "applied"
              THEN /\ edits' = [edits EXCEPT ![i].status = "applied"]
                   /\ effects' = [effects EXCEPT ![i] = @ + 1]
              ELSE UNCHANGED <<edits, effects>>
  /\ UNCHANGED <<others, faults>>

(* The trees that lack part of what f has at and below p, but nothing      *)
(* above what is left: rmtree() that stopped, copytree() that did not end. *)
PartlyRemoved(f, p) ==
  LET below == {q \in Paths : Under(p, q)}
      closed == {gone \in SUBSET below : \A q \in gone, r \in below : Under(q, r) => r \in gone}
  IN  {[q \in Paths |-> IF q \in gone THEN Absent ELSE f[q]] : gone \in closed}

(* The source at the destination as well, before a move removes it. *)
CopyMade(e, f) ==
  Grafted(WithParents(Cleared(e, f), e.dest), Cleared(e, f), e.path, e.dest)

(* What an OSError in the middle of approve() may leave: a file that was   *)
(* cut short (any content), a destination partly cleared or partly filled, *)
(* and, for a move to another device, a copy and part of the source.       *)
Interrupted(e, f) ==
  IF e.kind = "edit" THEN {f} \cup {[f EXCEPT ![e.path] = Written(c)] : c \in Contents}
  ELSE IF e.kind = "create"
    THEN {f, WithParents(f, e.path)}
           \cup {[WithParents(f, e.path) EXCEPT ![e.path] = Written(c)] : c \in Contents}
  ELSE IF e.kind = "delete" THEN PartlyRemoved(f, e.path)
  ELSE PartlyRemoved(f, e.dest) \cup PartlyRemoved(CopyMade(e, f), e.dest)
         \cup (IF e.kind = "move" THEN PartlyRemoved(CopyMade(e, f), e.path) ELSE {})

(* approve() meets an OSError where it would have gone through. *)
ApproveFails(i) ==
  /\ Open(i)
  /\ edits[i].kind \in {"move", "copy"} => Fits(fs, edits[i].path, edits[i].dest)
  /\ InputsLeft /\ faults < MaxFaults
  /\ faults' = faults + 1
  /\ Apply(edits[i], fs).result = "applied"
  /\ fs' \in Interrupted(edits[i], fs)
  /\ last' = [id |-> i, result |-> "raised"]
  /\ UNCHANGED <<edits, effects, others>>

Reject(i) ==
  /\ edits[i].status = "pending"
  /\ edits' = [edits EXCEPT ![i].status = "rejected"]
  /\ last' = NoCall
  /\ UNCHANGED <<fs, effects, others, faults>>

(* Another program (an editor, a shell command, create_folder) writes,     *)
(* removes or creates something, after the first proposal.                 *)
OtherChange ==
  /\ InputsLeft
  /\ edits # <<>>
  /\ others' = others + 1
  /\ \E p \in Paths :
       \/ fs' = Removed(fs, p)
       \/ ~Exists(fs, p) /\ fs' = [fs EXCEPT ![p] = Dir]
       \/ fs[p] # Dir /\ \E n \in Files : fs' = [fs EXCEPT ![p] = n]
  /\ IsTree(fs') /\ fs' # fs
  /\ last' = NoCall
  /\ UNCHANGED <<edits, effects, faults>>

ProposeStep ==
  \/ \E p \in Paths :
       \/ \E batch \in Batches : ProposeEdit(p, batch)
       \/ \E c \in Contents : ProposeReplace(p, c) \/ ProposeCreate(p, c)
       \/ \E recursive, force \in BOOLEAN : ProposeDelete(p, recursive, force)
  \/ \E s, d \in Paths, force \in BOOLEAN :
       \/ ProposeMove(s, d, force)
       \/ \E recursive \in BOOLEAN : ProposeCopy(s, d, recursive, force)

Next ==
  \/ ProposeStep
  \/ \E i \in DOMAIN edits : Approve(i) \/ ApproveFails(i) \/ Reject(i)
  \/ OtherChange

Spec == Init /\ [][Next]_vars

-----------------------------------------------------------------------------
Proposals == [kind : {"edit", "create", "move", "copy", "delete"}, path : Paths, dest : Paths,
              original : Contents, ends : Endings, new : Contents, batch : Seq(Replacements),
              recursive : BOOLEAN, force : BOOLEAN, status : {"pending", "applied", "rejected"}]

(* Type correctness; the operations keep the file system a tree. *)
TypeOK ==
  /\ fs \in Trees /\ IsTree(fs)
  /\ \A i \in DOMAIN edits : edits[i] \in Proposals
  /\ last \in [id : 0..Len(edits), result : {"none", "applied", "refused", "raised"}]
  /\ Len(effects) = Len(edits)
  /\ others \in 0..MaxInputs
  /\ faults \in 0..MaxInputs

(* The edit whose approval the step was, if any. *)
Approved(i) == last'.id = i /\ last'.result = "applied"

(* "Exact-match edits are replayed against the latest file content and are *)
(* rejected when changes overlap" (README.md): what an approved edit       *)
(* changes in the text of the current file is what the reviewed diff       *)
(* showed, region by region, and what others changed in the text meanwhile *)
(* stays.                                                                  *)
ReviewedChange(e, before, after) ==
  \A r \in Regions : after[r] = IF e.new[r] # e.original[r] THEN e.new[r] ELSE before[r]

(* What an approval takes away or overwrites was named in the review: the  *)
(* edited file, a deleted or moved tree, a destination with force.  Files  *)
(* that appeared at a destination since the proposal survive.              *)
Named(e, p) ==
  \/ e.kind = "edit" /\ p = e.path
  \/ e.kind \in {"delete", "move"} /\ Under(e.path, p)
  \/ e.kind \in {"move", "copy"} /\ e.force /\ Under(e.dest, p)

NoClobber ==
  [][\A i \in DOMAIN edits : last'.id = i =>
       \A p \in Paths : Exists(fs, p) /\ fs'[p] # fs[p] => Named(edits[i], p)]_vars

(* "Applied" means that the tree shows the reviewed operation: the         *)
(* reviewed change of an edited file's text, the moved or copied subtree,  *)
(* line endings included, at its destination and for a move nowhere else,  *)
(* the created file, nothing where a path was deleted.  An edited file     *)
(* does not keep the endings it had: the whole file gets the platform's    *)
(* (EditStore.approve).                                                    *)
AppliedAsReviewed ==
  [][\A i \in DOMAIN edits : Approved(i) =>
       LET e == edits[i]
       IN  /\ e.kind = "edit" => /\ ReviewedChange(e, fs[e.path].data, fs'[e.path].data)
                                 /\ fs'[e.path].ends = LineSep
           /\ e.kind = "create" => fs'[e.path] = Written(e.new)
           /\ e.kind = "delete" => ~Exists(fs', e.path)
           /\ e.kind = "move" => ~Exists(fs', e.path)
           /\ e.kind \in {"move", "copy"} =>
                \A q \in Paths : Under(e.path, q) /\ Exists(fs, q) =>
                                   fs'[Rebase(q, e.path, e.dest)] = fs[q]]_vars

(* An edit takes effect at most once and never after its rejection,        *)
(* however often a failed approval is repeated.                            *)
EffectOnce ==
  \A i \in DOMAIN edits : effects[i] = IF edits[i].status = "applied" THEN 1 ELSE 0

(* approve() "raises ValueError if the pending change cannot be applied    *)
(* safely": a call that does not apply the edit leaves the tree alone.     *)
FailedApproveChangesNothing ==
  [][last'.result \in {"refused", "raised"} => fs' = fs]_vars
=============================================================================
