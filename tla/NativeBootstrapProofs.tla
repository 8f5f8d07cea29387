-------------------------- MODULE NativeBootstrapProofs -------------------------
(* Theorems about NativeBootstrap, for any numbers of faults, runs, calls, *)
(* operators and messages.  The forms share no state but the deadline and  *)
(* the faults, so each one has an inductive invariant of its own.          *)
EXTENDS NativeBootstrap, SequenceTheorems, FiniteSetTheorems, TLAPS

-----------------------------------------------------------------------------
(* The new files on the host: NativeStore.                                 *)

Kinds == {"none", "provision", "media", "marker"}
Stages == {"idle", "frame", "bind", "dirs", "inputs", "claim", "open", "write", "close", "reopen",
           "verify", "held", "release", "undo"}
Contents == {"absent", "empty", "torn", "whole", "altered", "alien"}
Codes == {"0", "125", "126", "died", "refused", "unknown"}
Causes == {"none", "refused", "unknown"}

(* A run is at work on the files of its own new directory. *)
Building == {"open", "write", "close", "reopen", "verify"}

WholeUpTo(k) == \A j \in 1..k : files[Outputs[j]] = "whole"
AllWhole == WholeUpTo(Len(Outputs))

Succeeded(i) == exits[i].code = "0"

StoreTyped ==
  /\ kind \in Kinds /\ stage \in Stages /\ cause \in Causes
  /\ stage = "undo" => cause # "none"
  /\ root \in BOOLEAN /\ wrote \in BOOLEAN /\ paths \in BOOLEAN /\ doubt \in BOOLEAN
  /\ files \in [Names -> Contents]
  /\ exits \in Seq([code : Codes, wrote : BOOLEAN])
  /\ IF kind = "none" THEN stage = "idle" /\ exits = <<>> /\ ~paths /\ files = [f \in Names |-> "absent"]
                      ELSE item \in 1..Len(Outputs)

(* A refusal that says so created nothing. *)
RefusalsAreClean ==
  /\ stage \in {"frame", "bind"} => ~wrote
  /\ \A i \in 1..Len(exits) : exits[i].code = "126" => ~exits[i].wrote

(* The outputs are finished in their order, under a directory of this store. *)
WrittenInOrder ==
  /\ stage \in {"frame", "bind", "dirs", "inputs", "claim"} => item = 1
  /\ stage \in Building \cup {"held", "release"} => root
  /\ stage \in Building \ {"verify"} => WholeUpTo(item - 1)
  /\ stage = "verify" => WholeUpTo(item)
  /\ stage \in {"held", "release"} => AllWhole

(* Once a run has succeeded or given its paths no other run gets to write. *)
FinishedForGood ==
  /\ paths \/ (\E i \in 1..Len(exits) : Succeeded(i)) => root /\ AllWhole /\ stage \notin Building
  /\ (\E i \in 1..Len(exits) : Succeeded(i)) => stage \notin {"held", "release"}
  /\ \A i, j \in 1..Len(exits) : Succeeded(i) /\ Succeeded(j) => i = j

(* The installation record comes last. *)
RecordIsLast ==
  /\ kind # "provision" => files["record"] = "absent"
  /\ files["record"] = "whole" =>
       /\ root
       /\ \A f \in {"deployment", "bundle", "recovery"} : files[f] = "whole"
       /\ stage \in Building => item = 4

StoreInv == StoreTyped /\ RefusalsAreClean /\ WrittenInOrder /\ FinishedForGood /\ RecordIsLast

LEMMA OutputFacts ==
  ASSUME kind \in Kinds, kind # "none"
  PROVE  /\ Len(Outputs) \in 1..4 /\ DOMAIN Outputs = 1..Len(Outputs)
         /\ \A i \in 1..Len(Outputs) : Outputs[i] \in Names
         /\ \A i, j \in 1..Len(Outputs) : Outputs[i] = Outputs[j] => i = j
         /\ kind = "provision" =>
              /\ Len(Outputs) = 4 /\ Outputs[1] = "deployment" /\ Outputs[2] = "bundle"
              /\ Outputs[3] = "recovery" /\ Outputs[4] = "record"
         /\ kind # "provision" => \A i \in 1..Len(Outputs) : Outputs[i] # "record"
<1>1. CASE kind = "provision"
  BY <1>1 DEF Outputs, Names
<1>2. CASE kind = "media"
  BY <1>2 DEF Outputs, Names
<1>3. CASE kind = "marker"
  BY <1>3 DEF Outputs, Names
<1> QED BY <1>1, <1>2, <1>3 DEF Kinds

LEMMA MadeIs ==
  ASSUME kind \in Kinds, kind # "none"
  PROVE  /\ \A f \in Made : \E i \in 1..Len(Outputs) : f = Outputs[i]
         /\ \A i \in 1..Len(Outputs) : Outputs[i] \in Made
BY OutputFacts DEF Made

LEMMA SameOutputs ==
  ASSUME kind' = kind
  PROVE  Outputs' = Outputs
BY DEF Outputs

(* A step that writes no file. *)
LEMMA QuietStep ==
  ASSUME StoreInv, kind # "none", UNCHANGED <<kind, root, files, paths, exits>>,
         cause' \in Causes, stage' = "undo" => cause' # "none", wrote' \in BOOLEAN, doubt' \in BOOLEAN,
         item' \in 1..Len(Outputs),
         stage' \in {"frame", "bind"} => ~wrote',
         stage' \in {"frame", "bind", "dirs", "inputs", "claim"} => item' = 1,
         \/ stage' \in {"frame", "bind", "dirs", "inputs", "claim", "undo"}
         \/ stage = "close" /\ stage' = "reopen" /\ item' = item
         \/ stage = "held" /\ stage' = "release"
  PROVE  StoreInv'
<1>1. Outputs' = Outputs
  BY SameOutputs
<1>2. StoreTyped'
  BY <1>1 DEF StoreInv, StoreTyped, Stages
<1>3. RefusalsAreClean'
  BY DEF StoreInv, RefusalsAreClean
<1>4. WrittenInOrder'
  BY <1>1 DEF StoreInv, WrittenInOrder, WholeUpTo, AllWhole, Building
<1>5. FinishedForGood'
  <2>1. /\ AllWhole' <=> AllWhole
        /\ stage' \in Building => stage \in Building
        /\ stage' \in {"held", "release"} => stage \in {"held", "release"}
    BY <1>1 DEF AllWhole, WholeUpTo, Building
  <2>2. \A i : Succeeded(i)' <=> Succeeded(i)
    BY DEF Succeeded
  <2> QED BY <2>1, <2>2 DEF StoreInv, FinishedForGood
<1>6. RecordIsLast'
  BY DEF StoreInv, RecordIsLast, Building
<1> QED BY <1>2, <1>3, <1>4, <1>5, <1>6 DEF StoreInv

(* A step of a run at work on the current output. *)
LEMMA BuildingStep ==
  ASSUME StoreInv, kind # "none", UNCHANGED <<kind, exits, paths>>,
         cause' \in Causes, stage' = "undo" => cause' # "none", wrote' \in BOOLEAN, doubt' \in BOOLEAN,
         item' \in 1..Len(Outputs), stage' \in Building \cup {"held", "release", "undo"},
         files' \in [Names -> Contents],
         stage \in Building, root' = root,
         \A f \in Names : f # Current => files'[f] = files[f],
         item' = item \/ item' = item + 1,
         \/ stage' = "undo"
         \/ stage' \in Building \ {"verify"} /\ \A j \in 1..item' - 1 : files'[Outputs[j]] = "whole"
         \/ stage' = "verify" /\ \A j \in 1..item' : files'[Outputs[j]] = "whole"
         \/ stage' \in {"held", "release"} /\ \A j \in 1..Len(Outputs) : files'[Outputs[j]] = "whole",
         files'[Current] = "whole" => files[Current] = "whole" \/ stage = "write"
  PROVE  StoreInv'
<1>0. /\ StoreTyped /\ RefusalsAreClean /\ WrittenInOrder /\ FinishedForGood /\ RecordIsLast
      /\ kind \in Kinds
  BY DEF StoreInv, StoreTyped
<1>1. Outputs' = Outputs
  BY SameOutputs
<1>o. /\ Len(Outputs) \in 1..4
      /\ \A i \in 1..Len(Outputs) : Outputs[i] \in Names
      /\ \A i, j \in 1..Len(Outputs) : Outputs[i] = Outputs[j] => i = j
      /\ kind = "provision" =>
           /\ Len(Outputs) = 4 /\ Outputs[1] = "deployment" /\ Outputs[2] = "bundle"
           /\ Outputs[3] = "recovery" /\ Outputs[4] = "record"
      /\ kind # "provision" => \A i \in 1..Len(Outputs) : Outputs[i] # "record"
  BY <1>0, OutputFacts
<1>i. item \in 1..Len(Outputs) /\ Current \in Names /\ Current = Outputs[item]
  BY <1>0, <1>o DEF StoreTyped, Current
<1>s. stage' \in Stages /\ stage' \notin {"frame", "bind", "dirs", "inputs", "claim"}
  BY DEF Stages, Building
<1>2. StoreTyped'
  BY <1>0, <1>1, <1>s DEF StoreTyped
<1>3. RefusalsAreClean'
  BY <1>0, <1>s DEF RefusalsAreClean
<1>4. WrittenInOrder'
  BY <1>0, <1>1, <1>s DEF WrittenInOrder, WholeUpTo, AllWhole, Building
<1>5. FinishedForGood'
  <2>1. \A i : Succeeded(i)' <=> Succeeded(i)
    BY DEF Succeeded
  <2>2. ~paths /\ ~\E i \in 1..Len(exits) : Succeeded(i)
    BY <1>0 DEF FinishedForGood
  <2> QED BY <2>1, <2>2 DEF FinishedForGood
<1>6. RecordIsLast'
  <2>1. CASE kind # "provision"
    <3>1. Current # "record" /\ "record" \in Names
      BY <1>o, <1>i, <2>1 DEF Names
    <3> QED BY <1>0, <2>1, <3>1 DEF RecordIsLast
  <2>2. CASE kind = "provision"
    <3>1. /\ Outputs[1] = "deployment" /\ Outputs[2] = "bundle" /\ Outputs[3] = "recovery"
          /\ Outputs[4] = "record" /\ item \in 1..4 /\ Len(Outputs) = 4
          /\ {"deployment", "bundle", "recovery", "record"} \subseteq Names
      BY <1>o, <1>i, <2>2 DEF Names
    <3> SUFFICES ASSUME files'["record"] = "whole"
                 PROVE  /\ root'
                        /\ \A f \in {"deployment", "bundle", "recovery"} : files'[f] = "whole"
                        /\ stage' \in Building => item' = 4
      BY <2>2 DEF RecordIsLast
    <3>2. CASE files["record"] = "whole"
      <4>1. root /\ stage \in Building /\ item = 4 /\ \A f \in {"deployment", "bundle", "recovery"} : files[f] = "whole"
        BY <1>0, <3>2 DEF RecordIsLast
      <4>2. Current = "record"
        BY <1>i, <3>1, <4>1
      <4>3. item' = 4
        BY <3>1, <4>1
      <4> QED BY <3>1, <4>1, <4>2, <4>3
    <3>3. CASE files["record"] # "whole"
      <4>1. Current = "record" /\ stage = "write"
        BY <3>1, <3>3
      <4>2. item = 4
        <5>1. Outputs[item] = Outputs[4] /\ 4 \in 1..Len(Outputs) /\ item \in 1..Len(Outputs)
          BY <1>i, <3>1, <4>1
        <5> QED BY <1>o, <5>1
      <4>3. WholeUpTo(3) /\ root
        BY <1>0, <4>1, <4>2 DEF WrittenInOrder, Building
      <4>4. \A f \in {"deployment", "bundle", "recovery"} : files[f] = "whole"
        BY <3>1, <4>3 DEF WholeUpTo
      <4>5. item' = 4 /\ stage \in Building
        BY <3>1, <4>1, <4>2 DEF Building
      <4> QED BY <3>1, <4>1, <4>3, <4>4, <4>5
    <3> QED BY <3>2, <3>3
  <2> QED BY <2>1, <2>2
<1> QED BY <1>2, <1>3, <1>4, <1>5, <1>6 DEF StoreInv

(* The directory of a run comes into being. *)
LEMMA RootAppears ==
  ASSUME StoreInv, kind # "none", stage = "claim", ~root, root' = TRUE,
         UNCHANGED <<kind, item, files, paths, exits>>, stage' \in {"open", "undo"},
         cause' \in Causes, stage' = "undo" => cause' # "none", wrote' \in BOOLEAN, doubt' \in BOOLEAN
  PROVE  StoreInv'
<1>0. /\ StoreTyped /\ RefusalsAreClean /\ WrittenInOrder /\ FinishedForGood /\ RecordIsLast
      /\ item = 1 /\ files["record"] # "whole"
      /\ ~paths /\ ~\E i \in 1..Len(exits) : Succeeded(i)
  BY DEF StoreInv, WrittenInOrder, RecordIsLast, FinishedForGood
<1>1. Outputs' = Outputs
  BY SameOutputs
<1>2. StoreTyped' /\ RefusalsAreClean'
  BY <1>0, <1>1 DEF StoreTyped, RefusalsAreClean, Stages
<1>3. WrittenInOrder' /\ RecordIsLast'
  BY <1>0, <1>1 DEF WrittenInOrder, WholeUpTo, Building, RecordIsLast
<1>4. FinishedForGood'
  <2>1. \A i : Succeeded(i)' <=> Succeeded(i)
    BY DEF Succeeded
  <2> QED BY <1>0, <2>1 DEF FinishedForGood
<1> QED BY <1>2, <1>3, <1>4 DEF StoreInv

(* The end of a run. *)
LEMMA RunEnds ==
  ASSUME StoreInv, kind # "none", NEW code \in Codes, Exit(code),
         code = "126" => ~wrote, code = "0" => stage = "release",
         UNCHANGED <<kind, root, item, wrote, paths>>, doubt' \in BOOLEAN,
         files' = files \/ (stage = "write" /\ files' = [files EXCEPT ![Current] = "torn"])
  PROVE  StoreInv'
<1>0. /\ StoreTyped /\ RefusalsAreClean /\ WrittenInOrder /\ FinishedForGood /\ RecordIsLast
      /\ kind \in Kinds /\ exits \in Seq([code : Codes, wrote : BOOLEAN]) /\ wrote \in BOOLEAN
  BY DEF StoreInv, StoreTyped
<1>1. Outputs' = Outputs
  BY SameOutputs
<1> DEFINE k == Len(exits) + 1
           e == [code |-> code, wrote |-> wrote]
<1>2. stage' = "idle" /\ cause' = "none" /\ exits' = Append(exits, e) /\ e.code = code /\ e.wrote = wrote
      /\ e \in [code : Codes, wrote : BOOLEAN]
  BY <1>0 DEF Exit
<1> HIDE DEF e
<1>3. /\ exits' \in Seq([code : Codes, wrote : BOOLEAN]) /\ Len(exits') = k /\ Len(exits) \in Nat
      /\ \A i \in 1..Len(exits) : exits'[i] = exits[i]
      /\ exits'[k] = e
  BY <1>0, <1>2, AppendProperties, LenProperties
<1>4. \A i \in 1..k : i \in 1..Len(exits) \/ i = k
  BY <1>3
<1>5. StoreTyped'
  <2>1. files' \in [Names -> Contents]
    BY <1>0 DEF StoreTyped, Contents
  <2> QED BY <1>0, <1>1, <1>2, <1>3, <2>1 DEF StoreTyped, Stages, Causes
<1>6. RefusalsAreClean'
  BY <1>0, <1>2, <1>3, <1>4 DEF RefusalsAreClean
<1>7. WrittenInOrder'
  BY <1>2 DEF WrittenInOrder, Building
<1>8. FinishedForGood'
  <2>1. \A i \in 1..k : exits'[i].code = "0" <=> IF i = k THEN code = "0" ELSE Succeeded(i)
    BY <1>2, <1>3, <1>4 DEF Succeeded
  <2>p. \A i : Succeeded(i)' <=> exits'[i].code = "0"
    BY DEF Succeeded
  <2>2. ASSUME paths \/ code = "0" \/ \E i \in 1..Len(exits) : Succeeded(i)
        PROVE  root' /\ AllWhole'
    <3>1. root /\ AllWhole /\ stage \notin Building
      BY <1>0, <2>2 DEF FinishedForGood, WrittenInOrder, Building
    <3>2. files' = files
      BY <3>1 DEF Building
    <3> QED BY <1>1, <3>1, <3>2 DEF AllWhole, WholeUpTo
  <2>3. (\E i \in 1..Len(exits') : Succeeded(i)') <=> code = "0" \/ \E i \in 1..Len(exits) : Succeeded(i)
    BY <1>3, <1>4, <2>1, <2>p
  <2>4. ASSUME NEW i \in 1..k, NEW j \in 1..k, exits'[i].code = "0", exits'[j].code = "0" PROVE i = j
    <3>1. CASE code = "0"
      <4>1. ~\E h \in 1..Len(exits) : Succeeded(h)
        BY <1>0, <3>1 DEF FinishedForGood
      <4> QED BY <1>4, <2>1, <2>4, <4>1
    <3>2. CASE code # "0"
      BY <1>0, <1>4, <2>1, <2>4, <3>2 DEF FinishedForGood
    <3> QED BY <3>1, <3>2
  <2> QED BY <1>2, <1>3, <2>2, <2>3, <2>4, <2>p DEF FinishedForGood, Building
<1>9. RecordIsLast'
  <2>1. CASE files' = files
    BY <1>0, <1>2, <2>1 DEF RecordIsLast, Building
  <2>2. CASE stage = "write" /\ files' = [files EXCEPT ![Current] = "torn"]
    <3>1. /\ item \in 1..Len(Outputs) /\ Current = Outputs[item] /\ Current \in Names
          /\ kind # "provision" => Current # "record"
          /\ kind = "provision" => Outputs[4] = "record"
          /\ files \in [Names -> Contents] /\ "record" \in Names
      BY <1>0, OutputFacts DEF StoreTyped, Current, Names
    <3>2. CASE kind # "provision"
      BY <1>0, <2>2, <3>1, <3>2 DEF RecordIsLast
    <3>3. CASE kind = "provision"
      <4>1. files'["record"] # "whole"
        BY <1>0, <2>2, <3>1, <3>3 DEF RecordIsLast, Building
      <4> QED BY <3>3, <4>1 DEF RecordIsLast
    <3> QED BY <3>2, <3>3
  <2> QED BY <2>1, <2>2
<1> QED BY <1>5, <1>6, <1>7, <1>8, <1>9 DEF StoreInv

LEMMA CodesAre ==
  \A why \in {"refused", "unknown"} :
    /\ Code(why) \in Codes /\ Code(why) # "0"
    /\ Code(why) = "126" => stage \in {"frame", "bind"}
BY DEF Code, RefusalCode, Codes

LEMMA AnswersKeeps ==
  ASSUME StoreInv, kind # "none", NEW from \in {"frame", "bind"}, NEW to \in {"bind", "dirs"}, Answers(from, to)
  PROVE  StoreInv'
<1>0. /\ cause \in Causes /\ wrote \in BOOLEAN /\ doubt \in BOOLEAN /\ item \in 1..Len(Outputs)
      /\ stage \in {"frame", "bind"} => ~wrote /\ item = 1
  BY DEF StoreInv, StoreTyped, RefusalsAreClean, WrittenInOrder
<1>1. stage = from /\ UNCHANGED <<kind, input, root, item, files, doubt, wrote, paths>>
  BY DEF Answers, Advances
<1>2. CASE Advances(from, to) /\ UNCHANGED exits
  <2>1. to = stage' /\ cause' = cause /\ (stage' \in {"frame", "bind", "dirs", "inputs", "claim"} => item' = 1)
    BY <1>0, <1>1, <1>2 DEF Advances
  <2> QED BY <1>0, <1>1, <1>2, <2>1, QuietStep
<1>3. CASE Exit(Code("refused")) \/ Exit(Code("unknown"))
  <2>1. UNCHANGED files /\ Code("refused") \in Codes /\ Code("unknown") \in Codes
        /\ Code("refused") # "0" /\ Code("unknown") # "0"
    BY <1>1, CodesAre
  <2> QED BY <1>0, <1>1, <1>3, <2>1, RunEnds
<1> QED BY <1>2, <1>3 DEF Answers

LEMMA StoreStepKeeps == ASSUME StoreInv, StoreStep \/ StoreAround PROVE StoreInv'
<1>k. kind # "none"
  <2>1. kind = "none" => stage = "idle"
    BY DEF StoreInv, StoreTyped
  <2>2. CASE BeginRun
    BY <2>2 DEF BeginRun
  <2>3. CASE CheckFrame \/ BindRequest \/ RenderMedia \/ CheckAnchorPath
    BY <2>1, <2>3 DEF CheckFrame, BindRequest, RenderMedia, CheckAnchorPath, Answers, Advances
  <2>4. CASE HoldDirectories \/ AcquireDirectories \/ HoldInputs \/ ClaimRoot \/ OpenWriter
             \/ WriteOutput \/ WriteMarker \/ CloseWriter \/ Reopen \/ VerifyAll
    BY <2>1, <2>4 DEF HoldDirectories, AcquireDirectories, HoldInputs, ClaimRoot, OpenWriter,
                      WriteOutput, WriteMarker, CloseWriter, Reopen, VerifyAll, Advances
  <2>5. CASE StoreFails \/ CloseHandles \/ CheckedPaths \/ StoreCrash \/ ReleaseMedia
    BY <2>1, <2>5 DEF StoreFails, CloseHandles, CheckedPaths, StoreCrash, ReleaseMedia
  <2>6. CASE OtherWrites
    <3>1. stage # "idle" \/ stage \notin {"idle", "frame", "bind"}
      BY <2>6 DEF OtherWrites
    <3> QED BY <2>1, <3>1
  <2> QED BY <2>2, <2>3, <2>4, <2>5, <2>6 DEF StoreStep, StoreAround
<1>0. StoreTyped /\ RefusalsAreClean /\ WrittenInOrder /\ FinishedForGood /\ RecordIsLast
  BY DEF StoreInv
<1>t. /\ kind \in Kinds /\ stage \in Stages /\ cause \in Causes
      /\ stage = "undo" => cause # "none"
      /\ root \in BOOLEAN /\ wrote \in BOOLEAN /\ paths \in BOOLEAN /\ doubt \in BOOLEAN
      /\ files \in [Names -> Contents] /\ item \in 1..Len(Outputs)
  BY <1>0, <1>k DEF StoreTyped
<1>o. /\ Len(Outputs) \in 1..4 /\ DOMAIN Outputs = 1..Len(Outputs)
      /\ \A i \in 1..Len(Outputs) : Outputs[i] \in Names
      /\ \A i, j \in 1..Len(Outputs) : Outputs[i] = Outputs[j] => i = j
      /\ Current = Outputs[item] /\ Current \in Names
  BY <1>t, <1>k, OutputFacts DEF Current
<1>1. CASE BeginRun
  <2>1. /\ stage' = "frame" /\ item' = 1 /\ doubt' = FALSE /\ wrote' = FALSE
        /\ UNCHANGED <<kind, cause, input, root, files, paths, exits>>
    BY <1>1 DEF BeginRun
  <2>2. 1 \in 1..Len(Outputs)
    BY <1>o
  <2>3. item' \in 1..Len(Outputs) /\ wrote' \in BOOLEAN /\ doubt' \in BOOLEAN /\ cause' \in Causes
    BY <1>t, <2>1, <2>2
  <2> QED BY <1>k, <2>1, <2>3, QuietStep
<1>2. CASE CheckFrame \/ BindRequest \/ RenderMedia \/ CheckAnchorPath
  <2>1. Answers("frame", "bind") \/ Answers("bind", "dirs")
    BY <1>2 DEF CheckFrame, BindRequest, RenderMedia, CheckAnchorPath
  <2> QED BY <1>k, <2>1, AnswersKeeps
<1>3. CASE HoldDirectories \/ AcquireDirectories \/ HoldInputs
  <2>1. /\ stage \in {"dirs", "inputs"} /\ stage' \in {"inputs", "claim"} /\ cause' = cause
        /\ UNCHANGED <<kind, root, item, files, doubt, wrote, paths, exits>>
    BY <1>3 DEF HoldDirectories, AcquireDirectories, HoldInputs, Advances
  <2>2. item = 1
    BY <1>0, <2>1 DEF WrittenInOrder
  <2> QED BY <1>t, <1>k, <2>1, <2>2, QuietStep
<1>4. CASE ClaimRoot
  <2>1. /\ stage = "claim" /\ stage' = "open" /\ ~root /\ root' = TRUE /\ wrote' = TRUE /\ cause' = cause
        /\ UNCHANGED <<kind, input, item, files, doubt, paths, exits>>
    BY <1>4 DEF ClaimRoot, Advances
  <2> QED BY <1>t, <1>k, <2>1, RootAppears
<1>5. CASE OpenWriter \/ WriteOutput \/ WriteMarker
  <2>1. /\ \/ stage = "open" /\ stage' = "write" /\ files' = [files EXCEPT ![Current] = "empty"]
           \/ stage = "write" /\ stage' = "close" /\ files' = [files EXCEPT ![Current] = "whole"]
           \/ kind = "marker" /\ stage = "write" /\ stage' = "verify"
              /\ files' = [files EXCEPT ![Current] = "whole"]
        /\ cause' = cause /\ UNCHANGED <<kind, input, root, item, doubt, wrote, paths, exits>>
    BY <1>5 DEF OpenWriter, WriteOutput, WriteMarker, Advances, Creates, Writes
  <2>2. WholeUpTo(item - 1)
    BY <1>0, <2>1 DEF WrittenInOrder, Building
  <2>3. /\ files' \in [Names -> Contents]
        /\ \A f \in Names : f # Current => files'[f] = files[f]
        /\ stage = "write" => files'[Current] = "whole"
        /\ stage = "open" => files'[Current] = "empty"
    BY <1>t, <1>o, <2>1 DEF Contents
  <2>4. \A j \in 1..item' - 1 : files'[Outputs[j]] = "whole"
    <3>1. \A j \in 1..item - 1 : j \in 1..Len(Outputs) /\ j # item /\ files[Outputs[j]] = "whole"
      BY <1>t, <1>o, <2>2 DEF WholeUpTo
    <3>2. \A j \in 1..item - 1 : Outputs[j] \in Names /\ Outputs[j] # Current
      BY <1>t, <1>o, <3>1
    <3> QED BY <2>1, <2>3, <3>1, <3>2
  <2>5. stage' = "verify" => \A j \in 1..item' : files'[Outputs[j]] = "whole"
    <3>1. \A j \in 1..item : j \in 1..item - 1 \/ j = item
      BY <1>t, <1>o
    <3> QED BY <1>o, <2>1, <2>3, <2>4, <3>1
  <2>6. /\ stage \in Building /\ stage' \in Building
        /\ stage' \in Building \ {"verify"} \/ stage' = "verify"
    BY <2>1 DEF Building
  <2> QED BY <1>t, <1>k, <2>1, <2>3, <2>4, <2>5, <2>6, BuildingStep
<1>6. CASE CloseWriter
  <2>1. /\ stage = "close" /\ stage' = "reopen" /\ cause' = cause
        /\ UNCHANGED <<kind, root, item, files, doubt, wrote, paths, exits>>
    BY <1>6 DEF CloseWriter, Advances
  <2> QED BY <1>t, <1>k, <2>1, QuietStep
<1>7. CASE Reopen
  <2>1. /\ stage = "reopen" /\ stage' = AfterOutput /\ files[Current] = "whole" /\ cause' = cause
        /\ item' = IF AfterOutput = "open" THEN item + 1 ELSE item
        /\ UNCHANGED <<kind, root, files, doubt, wrote, paths, exits>>
    BY <1>7 DEF Reopen, Advances, SameBytes
  <2>2. \A j \in 1..item : files[Outputs[j]] = "whole"
    <3>1. WholeUpTo(item - 1)
      BY <1>0, <2>1 DEF WrittenInOrder, Building
    <3>2. \A j \in 1..item : j \in 1..item - 1 \/ j = item
      BY <1>t, <1>o
    <3> QED BY <1>o, <2>1, <3>1, <3>2 DEF WholeUpTo
  <2>3. AfterOutput = "verify" \/ (AfterOutput = "open" /\ item # Len(Outputs))
    BY DEF AfterOutput, LastOutput
  <2>4. item' \in 1..Len(Outputs) /\ (item' = item \/ item' = item + 1)
    <3> DEFINE l == Len(Outputs)
    <3>1. item \in 1..l /\ l \in 1..4 /\ (AfterOutput = "verify" \/ (AfterOutput = "open" /\ item # l))
          /\ item' = IF AfterOutput = "open" THEN item + 1 ELSE item
      BY <1>t, <1>o, <2>1, <2>3
    <3> HIDE DEF l
    <3>2. item' \in 1..l /\ (item' = item \/ item' = item + 1)
      BY <3>1
    <3> QED BY <3>2 DEF l
  <2>5. CASE AfterOutput = "verify"
    <3>1. item' = item /\ stage' = "verify" /\ stage' \in Building /\ stage \in Building
      BY <2>1, <2>5 DEF Building
    <3>2. \A j \in 1..item' : files'[Outputs[j]] = "whole"
      BY <2>1, <2>2, <3>1
    <3> QED BY <1>t, <1>k, <2>1, <2>4, <3>1, <3>2, BuildingStep
  <2>6. CASE AfterOutput = "open"
    <3>1. item' - 1 = item /\ stage' = "open" /\ stage' \in Building \ {"verify"} /\ stage \in Building
      BY <1>t, <1>o, <2>1, <2>6 DEF Building
    <3>2. \A j \in 1..item' - 1 : files'[Outputs[j]] = "whole"
      BY <2>1, <2>2, <3>1
    <3> QED BY <1>t, <1>k, <2>1, <2>4, <3>1, <3>2, BuildingStep
  <2> QED BY <2>3, <2>5, <2>6
<1>8. CASE VerifyAll
  <2>1. /\ stage = "verify" /\ cause' = cause
        /\ stage' = IF ~LastOutput THEN "open" ELSE IF kind = "media" THEN "held" ELSE "release"
        /\ item' = IF LastOutput THEN item ELSE item + 1
        /\ UNCHANGED <<kind, root, files, doubt, wrote, paths, exits>>
    BY <1>8 DEF VerifyAll, Advances
  <2>2. \A j \in 1..item : files[Outputs[j]] = "whole"
    BY <1>0, <2>1 DEF WrittenInOrder, WholeUpTo
  <2>3. CASE LastOutput
    <3>1. item' = item /\ item = Len(Outputs) /\ stage' \in {"held", "release"} /\ stage \in Building
      BY <2>1, <2>3 DEF LastOutput, Building
    <3>2. \A j \in 1..Len(Outputs) : files'[Outputs[j]] = "whole"
      BY <2>1, <2>2, <3>1
    <3> QED BY <1>t, <1>k, <2>1, <3>1, <3>2, BuildingStep
  <2>4. CASE ~LastOutput
    <3>1. /\ item' - 1 = item /\ item' = item + 1 /\ item' \in 1..Len(Outputs)
          /\ stage' = "open" /\ stage' \in Building \ {"verify"} /\ stage \in Building
      <4> DEFINE l == Len(Outputs)
      <4>1. item \in 1..l /\ l \in 1..4 /\ item # l /\ item' = item + 1 /\ stage' = "open" /\ stage = "verify"
        BY <1>t, <1>o, <2>1, <2>4 DEF LastOutput
      <4> HIDE DEF l
      <4>2. item' - 1 = item /\ item' = item + 1 /\ item' \in 1..l
        BY <4>1
      <4>3. stage' = "open" /\ stage' \in Building \ {"verify"} /\ stage \in Building
        BY <4>1 DEF Building
      <4> QED BY <4>2, <4>3 DEF l
    <3>2. \A j \in 1..item' - 1 : files'[Outputs[j]] = "whole"
      BY <2>1, <2>2, <3>1
    <3> QED BY <1>t, <1>k, <2>1, <3>1, <3>2, BuildingStep
  <2> QED BY <2>3, <2>4
<1>9. CASE StoreFails
  <2>1. /\ stage \in {"dirs", "inputs", "claim", "open", "write", "close", "reopen", "verify"}
        /\ stage' = "undo" /\ cause' \in {"refused", "unknown"}
        /\ UNCHANGED <<kind, input, item, paths, exits>>
        /\ cause' \in Causes /\ cause' # "none"
    BY <1>9 DEF StoreFails, Causes
  <2>2. /\ root' \in BOOLEAN /\ (root' = root \/ (stage = "claim" /\ root' = TRUE))
        /\ wrote' \in BOOLEAN /\ doubt' \in BOOLEAN
    BY <1>9, <1>t DEF StoreFails
  <2>3. \/ files' = files
        \/ stage = "open" /\ files[Current] = "absent" /\ files' = [files EXCEPT ![Current] = "empty"]
        \/ stage = "write" /\ \E left \in {"empty", "torn", "whole"} : files' = [files EXCEPT ![Current] = left]
    <3>1. CASE UNCHANGED files
      BY <3>1
    <3>2. CASE \E left \in CASE stage = "open" /\ files[Current] = "absent" -> {"absent", "empty"}
                             [] stage = "write" -> {"empty", "torn", "whole"}
                             [] OTHER -> {files[Current]} :
                 files' = [files EXCEPT ![Current] = left]
      <4>1. [files EXCEPT ![Current] = files[Current]] = files
        BY <1>t, <1>o
      <4>2. CASE stage = "open" /\ files[Current] = "absent"
        BY <3>2, <4>1, <4>2
      <4>3. CASE stage = "write"
        BY <3>2, <4>3
      <4>4. CASE ~(stage = "open" /\ files[Current] = "absent") /\ stage # "write"
        BY <3>2, <4>1, <4>4
      <4> QED BY <4>2, <4>3, <4>4
    <3> QED BY <1>9, <3>1, <3>2 DEF StoreFails
  <2>4. CASE stage \in Building
    <3>1. root' = root
      BY <2>2, <2>4 DEF Building
    <3>2. /\ files' \in [Names -> Contents] /\ \A f \in Names : f # Current => files'[f] = files[f]
          /\ files'[Current] = "whole" => files[Current] = "whole" \/ stage = "write"
      BY <1>t, <1>o, <2>3 DEF Contents
    <3>3. item' \in 1..Len(Outputs)
      BY <1>t, <2>1
    <3> QED BY <1>t, <1>k, <2>1, <2>2, <2>4, <3>1, <3>2, <3>3, BuildingStep
  <2>5. CASE stage \notin Building
    <3>1. files' = files
      BY <2>3, <2>5 DEF Building
    <3>2. CASE root' = root
      <4>1. item' \in 1..Len(Outputs)
        BY <1>t, <2>1
      <4> QED BY <1>k, <2>1, <2>2, <3>1, <3>2, <4>1, QuietStep
    <3>3. CASE root' # root
      <4>1. stage = "claim" /\ ~root /\ root' = TRUE
        BY <1>t, <2>2, <3>3
      <4> QED BY <1>k, <2>1, <2>2, <3>1, <4>1, RootAppears
    <3> QED BY <3>2, <3>3
  <2> QED BY <2>4, <2>5
<1>10. CASE CloseHandles
  <2>1. /\ stage \in {"release", "undo"} /\ (stage = "undo" => cause # "none")
        /\ UNCHANGED <<kind, input, root, item, files, wrote, paths>> /\ doubt' \in BOOLEAN
    BY <1>10, <1>0, <1>t DEF CloseHandles, StoreTyped
  <2>2. PICK code : /\ Exit(code)
                    /\ \/ code \in {Code("unknown"), Code("refused")}
                       \/ stage = "release" /\ code = "0"
                       \/ stage = "undo" /\ code = Code(cause)
    BY <1>10, <2>1 DEF CloseHandles
  <2>3. code \in Codes /\ (code = "0" => stage = "release") /\ code # "126"
    BY <2>1, <2>2, <1>t, CodesAre DEF Causes, Codes
  <2> QED BY <2>1, <2>2, <2>3, <1>k, RunEnds
<1>11. CASE CheckedPaths
  <2>1. stage = "held" /\ UNCHANGED <<kind, input, root, item, files, doubt, wrote, exits>>
    BY <1>11 DEF CheckedPaths
  <2>2. CASE paths' = TRUE /\ UNCHANGED <<stage, cause>>
    <3>1. Outputs' = Outputs
      BY <2>1, SameOutputs
    <3>2. StoreTyped' /\ RefusalsAreClean' /\ RecordIsLast'
      BY <1>0, <1>k, <2>1, <2>2, <3>1 DEF StoreTyped, RefusalsAreClean, RecordIsLast
    <3>3. WrittenInOrder' /\ AllWhole' /\ root
      BY <1>0, <2>1, <2>2, <3>1 DEF WrittenInOrder, WholeUpTo, AllWhole
    <3>4. FinishedForGood'
      <4>1. \A i : Succeeded(i)' <=> Succeeded(i)
        BY <2>1 DEF Succeeded
      <4> QED BY <1>0, <2>1, <2>2, <3>3, <4>1 DEF FinishedForGood, Building
    <3> QED BY <3>2, <3>3, <3>4 DEF StoreInv
  <2>3. CASE stage' = "undo" /\ cause' \in {"refused", "unknown"} /\ UNCHANGED paths
    BY <2>1, <2>3, <1>t, <1>k, QuietStep DEF Causes
  <2> QED BY <1>11, <2>2, <2>3 DEF CheckedPaths
<1>12. CASE OtherWrites
  <2>1. UNCHANGED <<kind, stage, cause, root, item, doubt, wrote, paths, exits>>
    BY <1>12 DEF OtherWrites
  <2>2. Outputs' = Outputs
    BY <2>1, SameOutputs
  <2>3. CASE files' = files
    <3>1. StoreTyped' /\ RefusalsAreClean' /\ RecordIsLast'
      BY <1>0, <2>1, <2>2, <2>3 DEF StoreTyped, RefusalsAreClean, RecordIsLast
    <3>2. WrittenInOrder'
      BY <1>0, <2>1, <2>2, <2>3 DEF WrittenInOrder, WholeUpTo, AllWhole
    <3>3. FinishedForGood'
      BY <1>0, <2>1, <2>2, <2>3 DEF FinishedForGood, WholeUpTo, AllWhole, Succeeded
    <3> QED BY <3>1, <3>2, <3>3 DEF StoreInv
  <2>4. CASE root /\ \E f \in Made :
               /\ files[f] = "absent" \/ (stage = "reopen" /\ f = Current)
               /\ \E as \in {"alien", "altered"} : files' = [files EXCEPT ![f] = as]
    <3>1. PICK i \in 1..Len(Outputs), as \in {"alien", "altered"} :
            /\ files[Outputs[i]] = "absent" \/ (stage = "reopen" /\ Outputs[i] = Current)
            /\ files' = [files EXCEPT ![Outputs[i]] = as]
      <4>1. PICK f \in Made : /\ files[f] = "absent" \/ (stage = "reopen" /\ f = Current)
                              /\ \E as \in {"alien", "altered"} : files' = [files EXCEPT ![f] = as]
        BY <2>4
      <4>2. PICK i \in 1..Len(Outputs) : f = Outputs[i]
        BY <1>t, <1>k, <4>1, MadeIs
      <4> QED BY <4>1, <4>2
    <3>2. /\ files' \in [Names -> Contents]
          /\ files[Outputs[i]] # "whole" \/ (stage = "reopen" /\ i = item)
          /\ \A f \in Names : f # Outputs[i] => files'[f] = files[f]
          /\ files'[Outputs[i]] # "whole"
      BY <3>1, <1>t, <1>o DEF Contents
    <3>3. \A j \in 1..Len(Outputs) : files[Outputs[j]] = "whole" /\ ~(stage = "reopen" /\ j = item)
             => files'[Outputs[j]] = "whole"
      BY <3>2, <1>o
    <3>4. StoreTyped' /\ RefusalsAreClean'
      BY <1>0, <1>k, <2>1, <2>2, <3>2 DEF StoreTyped, RefusalsAreClean
    <3>5. WrittenInOrder'
      BY <1>0, <1>t, <1>o, <2>1, <2>2, <3>3 DEF WrittenInOrder, WholeUpTo, AllWhole, Building
    <3>6. FinishedForGood'
      <4>1. \A j : Succeeded(j)' <=> Succeeded(j)
        BY <2>1 DEF Succeeded
      <4>2. stage \notin Building /\ AllWhole => AllWhole'
        BY <1>o, <2>2, <3>3 DEF AllWhole, WholeUpTo, Building
      <4> QED BY <1>0, <2>1, <4>1, <4>2 DEF FinishedForGood
    <3>7. RecordIsLast'
      <4>1. CASE kind # "provision"
        BY <1>0, <1>t, <1>k, <2>1, <3>2, <4>1, OutputFacts DEF RecordIsLast, Names
      <4>2. CASE kind = "provision"
        <5>1. /\ Outputs[1] = "deployment" /\ Outputs[2] = "bundle" /\ Outputs[3] = "recovery"
              /\ Outputs[4] = "record" /\ Len(Outputs) = 4
          BY <1>t, <1>k, <4>2, OutputFacts
        <5>2. ASSUME files'["record"] = "whole"
              PROVE  /\ root
                     /\ \A f \in {"deployment", "bundle", "recovery"} : files'[f] = "whole"
                     /\ stage \in Building => item = 4
          <6>1. files["record"] = "whole"
            BY <3>2, <5>1, <5>2 DEF Names
          <6>2. /\ \A f \in {"deployment", "bundle", "recovery"} : files[f] = "whole"
                /\ stage \in Building => item = 4
            BY <1>0, <6>1 DEF RecordIsLast
          <6>3. \A j \in 1..3 : files[Outputs[j]] = "whole" /\ j \in 1..Len(Outputs)
                                 /\ ~(stage = "reopen" /\ j = item)
            BY <5>1, <6>2 DEF Building
          <6>4. \A j \in 1..3 : files'[Outputs[j]] = "whole"
            BY <3>3, <6>3
          <6> QED BY <2>4, <5>1, <6>2, <6>4
        <5> QED BY <2>1, <4>2, <5>2 DEF RecordIsLast
      <4> QED BY <4>1, <4>2
    <3> QED BY <3>4, <3>5, <3>6, <3>7 DEF StoreInv
  <2> QED BY <1>12, <2>3, <2>4 DEF OtherWrites
<1>13. CASE StoreCrash
  <2>1. /\ Exit("died") /\ UNCHANGED <<kind, input, root, item, doubt, wrote, paths>>
        /\ files' = files \/ (stage = "write" /\ files' = [files EXCEPT ![Current] = "torn"])
    BY <1>13 DEF StoreCrash
  <2> QED BY <2>1, <1>t, <1>k, RunEnds DEF Codes
<1>14. CASE ReleaseMedia
  <2>1. /\ stage = "held" /\ stage' = "release"
        /\ UNCHANGED <<kind, cause, input, root, item, files, doubt, wrote, paths, exits>>
    BY <1>14 DEF ReleaseMedia
  <2> QED BY <2>1, <1>t, <1>k, QuietStep
<1> QED BY <1>1, <1>2, <1>3, <1>4, <1>5, <1>6, <1>7, <1>8, <1>9, <1>10, <1>11, <1>12, <1>13, <1>14
        DEF StoreStep, StoreAround

LEMMA StoreInitially == Init => StoreInv
<1> SUFFICES ASSUME Init PROVE StoreInv
  OBVIOUS
<1>1. /\ stage = "idle" /\ cause = "none" /\ root = FALSE /\ item = 1
      /\ files = [f \in Names |-> "absent"] /\ doubt = FALSE /\ wrote = FALSE /\ paths = FALSE
      /\ exits = <<>>
  BY DEF Init, StoreRest
<1>2. kind \in Kinds
  BY DEF Init, Kinds
<1>3. \A i \in 1..Len(exits) : FALSE
  BY <1>1
<1>4. StoreTyped
  <2>1. files \in [Names -> Contents] /\ exits \in Seq([code : Codes, wrote : BOOLEAN])
    BY <1>1 DEF Contents
  <2>2. kind # "none" => item \in 1..Len(Outputs)
    BY <1>1, <1>2, OutputFacts
  <2> QED BY <1>1, <1>2, <2>1, <2>2 DEF StoreTyped, Stages, Causes
<1>5. RefusalsAreClean /\ WrittenInOrder /\ FinishedForGood /\ RecordIsLast
  BY <1>1, <1>3 DEF RefusalsAreClean, WrittenInOrder, FinishedForGood, RecordIsLast, Building, Names
<1> QED BY <1>4, <1>5 DEF StoreInv

LEMMA StoreUnchanged == ASSUME StoreInv, UNCHANGED storeVars PROVE StoreInv'
<1>1. Outputs' = Outputs
  BY SameOutputs DEF storeVars
<1>2. StoreTyped' /\ RefusalsAreClean' /\ RecordIsLast'
  BY <1>1 DEF StoreInv, StoreTyped, RefusalsAreClean, RecordIsLast, storeVars
<1>3. WrittenInOrder' /\ FinishedForGood'
  BY <1>1 DEF StoreInv, WrittenInOrder, FinishedForGood, WholeUpTo, AllWhole, Succeeded, storeVars
<1> QED BY <1>2, <1>3 DEF StoreInv

THEOREM StoreCorrect == Spec => []StoreInv
<1>1. StoreInv /\ [Next]_vars => StoreInv'
  <2> SUFFICES ASSUME StoreInv, [Next]_vars PROVE StoreInv'
    OBVIOUS
  <2>1. StoreStep \/ StoreAround \/ UNCHANGED storeVars
    BY DEF Next, ProgramStep, Around, ClockNext, restVars, vars
  <2> QED BY <2>1, StoreStepKeeps, StoreUnchanged
<1> QED BY <1>1, StoreInitially, PTL DEF Spec

(* The files on the host are what the exit codes, the record and the paths *)
(* say of them (bootstrap_native_provision.py,                             *)
(* bootstrap_native_media_store.py, maintenance_store_native_prototype.py).*)
THEOREM StoreEarned == Spec => []StoreIsEarned
<1>1. ASSUME StoreInv PROVE StoreIsEarned
  <2>1. /\ StoreTyped /\ RefusalsAreClean /\ WrittenInOrder /\ FinishedForGood /\ RecordIsLast
        /\ kind \in Kinds /\ DOMAIN exits = 1..Len(exits)
    BY <1>1, LenProperties DEF StoreInv, StoreTyped
  <2>2. ASSUME AllWhole, NEW f \in Made PROVE files[f] = "whole"
    <3>1. CASE kind = "none"
      BY <2>2, <3>1 DEF Made, Outputs
    <3>2. CASE kind # "none"
      BY <2>1, <2>2, <3>2, MadeIs DEF AllWhole, WholeUpTo
    <3> QED BY <3>1, <3>2
  <2>3. ASSUME NEW i \in DOMAIN exits
        PROVE  /\ exits[i].code = "126" => ~exits[i].wrote
               /\ exits[i].code = "0" => \A f \in Made : files[f] = "whole"
    BY <2>1, <2>2 DEF RefusalsAreClean, FinishedForGood, Succeeded
  <2>4. Cardinality({i \in DOMAIN exits : exits[i].code = "0"}) <= 1
    <3> DEFINE S == {i \in DOMAIN exits : exits[i].code = "0"}
    <3>1. \A i, j \in S : i = j
      BY <2>1 DEF FinishedForGood, Succeeded
    <3>2. CASE S = {}
      BY <3>2, FS_EmptySet
    <3>3. CASE S # {}
      <4>1. PICK i : S = {i}
        BY <3>1, <3>3
      <4>2. Cardinality({i}) = 1
        BY FS_Singleton
      <4> QED BY <4>1, <4>2
    <3> QED BY <3>2, <3>3
  <2>5. stage = "held" \/ paths => \A f \in Made : files[f] = "whole"
    BY <2>1, <2>2 DEF WrittenInOrder, FinishedForGood
  <2> QED BY <2>1, <2>3, <2>4, <2>5 DEF StoreIsEarned, RecordIsLast
<1> QED BY <1>1, StoreCorrect, PTL

-----------------------------------------------------------------------------
(* The session over the serial port: SerialTls.                            *)

EndOps == {"off", "open", "handshake", "idle", "send", "receive", "dispose", "done"}
Lines == {"none", "open", "closed", "unknown"}
Records == [n : Nat, body : {"h", "m", "x"} \X Nat \X Nat]
EndStates ==
  [op : EndOps, line : Lines, hs : {0, 1}, ready : BOOLEAN, out : Seq(Records), inq : Seq(Records),
   got : Nat, put : Nat, plain : {0, 1}, tx : Nat, rx : Nat]
Transfers == [at : {"none", "pending", "done"}, write : BOOLEAN, data : Seq(Records)]

ChannelTyped ==
  /\ end \in [Ends -> EndStates]
  /\ wire \in [Ends -> Seq(Records)]
  /\ pio \in Transfers
  /\ pinned \in [Ends -> BOOLEAN] /\ bound \in BOOLEAN
  /\ closes \in {0, 1}
  /\ sent \in [Ends -> Seq(Nat)] /\ received \in [Ends -> Seq(Nat)]

(* Records of the handshake that e makes. *)
Hellos(e) == IF e = "guest" THEN 1 ELSE 2

(* The records that may come from an end that has sent k messages: foreign *)
(* ones, those of its handshake, and the halves of its messages, each      *)
(* under the number that it has in the session.                            *)
Genuines(e, k) ==
  {r \in Records :
     \/ r.n = 0
     \/ r.n \in 1..Hellos(e) /\ r.body[1] = "h"
     \/ \E m \in 0..k - 1, i \in {1, 2} : r.n = Hellos(e) + 2 * m + i /\ r.body = <<"m", m, i>>}

From(e) == Genuines(e, end[e].tx)

Source(p) == IF p.write THEN "controller" ELSE "guest"

RecordsAreGenuine ==
  /\ \A e \in Ends : /\ end[e].out \in Seq(From(e))
                     /\ wire[e] \in Seq(From(e))
                     /\ end[e].inq \in Seq(From(Peer(e)))
  /\ pio.data \in Seq(From(Source(pio)))

(* How far an end is: the records it has made and accepted follow from its *)
(* part of the handshake and the messages it counts.                       *)
Follows(e, x) ==
  /\ x.op \in {"off", "open"} => ~x.ready /\ x.hs = 0
  /\ x.op \in {"off", "open", "handshake"} /\ ~x.ready =>
       /\ x.put = x.hs /\ x.got = IF e = "guest" THEN x.hs ELSE 0
       /\ x.tx = 0 /\ x.rx = 0 /\ x.plain = 0
  /\ x.ready =>
       /\ x.op \in {"handshake", "idle", "send", "receive"} /\ x.hs = 1 /\ pinned[e]
       /\ x.put = Hellos(e) + 2 * x.tx
       /\ x.got = Hellos(Peer(e)) + 2 * x.rx + x.plain
  /\ x.op \in {"idle", "send", "receive"} => x.ready
  /\ x.tx > 0 => pinned[e]
  /\ x.rx > 0 => bound
  /\ x.line = "closed" => x.op = "done"

Counted(k) == [i \in 1..k |-> i - 1]

SessionFollows ==
  \A e \in Ends : /\ Follows(e, end[e])
                  /\ sent[e] = Counted(end[e].tx) /\ received[e] = Counted(end[e].rx)
                  /\ end[e].rx <= end[Peer(e)].tx

(* The outstanding transfer is the one that the controller's operation     *)
(* needs next, until the operation is given up.                            *)
TransferFits(c, p) ==
  /\ c.hs = 0 => c.out = <<>> /\ c.inq = <<>>
  /\ c.op \in {"idle", "receive"} => c.out = <<>>
  /\ p.at # "none" =>
       /\ c.hs = 1 /\ c.op \notin {"off", "open", "idle"}
       /\ p.write => Len(p.data) = 1
       /\ c.op \notin {"dispose", "done"} =>
            IF p.write THEN c.out # <<>>
            ELSE /\ c.out = <<>> /\ c.inq = <<>> /\ c.op \in {"handshake", "receive"}
                 /\ c.op = "handshake" => ~c.ready
  /\ c.line = "closed" => p.at = "none"
  /\ c.op = "done" /\ p.at # "none" => c.line = "unknown"

DescriptorFollows ==
  /\ TransferFits(end["controller"], pio)
  /\ end["guest"].op # "done" => closes = 0

ChannelInv == ChannelTyped /\ RecordsAreGenuine /\ SessionFollows /\ DescriptorFollows

LEMMA PeerIsOther == \A e \in Ends : Peer(e) \in Ends /\ Peer(e) # e /\ Peer(Peer(e)) = e /\ Ends = {e, Peer(e)}
BY DEF Ends, Peer

(* What came from an end may still have come from it when it sent more. *)
LEMMA GenuineGrows ==
  ASSUME NEW e \in Ends, NEW k \in Nat, NEW l \in Nat, k <= l
  PROVE  Genuines(e, k) \subseteq Genuines(e, l) /\ Seq(Genuines(e, k)) \subseteq Seq(Genuines(e, l))
<1>1. Genuines(e, k) \subseteq Genuines(e, l)
  BY DEF Genuines, Hellos
<1> QED BY <1>1

LEMMA CountedFacts ==
  ASSUME NEW k \in Nat
  PROVE  /\ Counted(k) \in Seq(Nat) /\ Len(Counted(k)) = k
         /\ Append(Counted(k), k) = Counted(k + 1)
<1>1. Counted(k) \in Seq(Nat) /\ Len(Counted(k)) = k
  BY DEF Counted
<1>2. Append(Counted(k), k) = Counted(k + 1)
  <2>1. Append(Counted(k), k) \in Seq(Nat) /\ Len(Append(Counted(k), k)) = k + 1
    BY <1>1
  <2>2. Counted(k + 1) \in Seq(Nat) /\ Len(Counted(k + 1)) = k + 1
    BY DEF Counted
  <2>3. ASSUME NEW i \in 1..k + 1 PROVE Append(Counted(k), k)[i] = Counted(k + 1)[i]
    BY <1>1 DEF Counted
  <2> QED BY <2>1, <2>2, <2>3
<1> QED BY <1>1, <1>2

(* One end goes on to x; what it counts grows by at most one message, and  *)
(* records move along the line.                                            *)
LEMMA EndMoves ==
  ASSUME ChannelInv, NEW e \in Ends, NEW x \in EndStates, Set(e, x), UNCHANGED <<pinned, bound>>,
         Follows(e, x),
         \/ x.tx = end[e].tx /\ sent' = sent
         \/ x.tx = end[e].tx + 1 /\ sent' = [sent EXCEPT ![e] = Append(@, end[e].tx)],
         \/ x.rx = end[e].rx /\ received' = received
         \/ /\ x.rx = end[e].rx + 1 /\ x.rx <= end[Peer(e)].tx
            /\ received' = [received EXCEPT ![e] = Append(@, end[e].rx)],
         x.out \in Seq(Genuines(e, x.tx)), x.inq \in Seq(From(Peer(e))),
         \/ UNCHANGED wire
         \/ \E d \in Ends : \E s \in Seq(From(d)) : wire' = [wire EXCEPT ![d] = s],
         pio' \in Transfers, pio'.data \in Seq(From(Source(pio'))),
         TransferFits(IF e = "controller" THEN x ELSE end["controller"], pio'),
         closes' \in {0, 1}, (IF e = "guest" THEN x ELSE end["guest"]).op # "done" => closes' = 0
  PROVE  ChannelInv'
<1> DEFINE d == Peer(e)
<1>p. d \in Ends /\ d # e /\ Peer(d) = e /\ Ends = {e, d}
  BY PeerIsOther
<1>t. /\ end \in [Ends -> EndStates] /\ wire \in [Ends -> Seq(Records)]
      /\ sent \in [Ends -> Seq(Nat)] /\ received \in [Ends -> Seq(Nat)]
  BY DEF ChannelInv, ChannelTyped
<1> HIDE DEF d
<1>1. /\ end' \in [Ends -> EndStates] /\ end'[e] = x /\ end'[d] = end[d]
  BY <1>p, <1>t DEF Set
<1>2. /\ x.tx \in Nat /\ x.rx \in Nat /\ end[e].tx \in Nat /\ end[e].rx \in Nat
      /\ end[d].tx \in Nat /\ end[d].rx \in Nat
  BY <1>p, <1>t DEF EndStates
<1>3. end[e].tx <= x.tx
  BY <1>2
<1>4. /\ From(e)' = Genuines(e, x.tx) /\ From(d)' = From(d)
      /\ Seq(From(e)) \subseteq Seq(From(e)')
  BY <1>1, <1>2, <1>3, GenuineGrows DEF From
<1>5. \A c \in Ends : Seq(From(c)) \subseteq Seq(From(c)')
  BY <1>p, <1>4
<1>6. \A c \in Ends : Seq(From(c)) \subseteq Seq(Records)
  <2>1. \A c \in Ends : From(c) \subseteq Records
    BY DEF From, Genuines
  <2> QED BY <2>1
<1>7. wire' \in [Ends -> Seq(Records)] /\ \A c \in Ends : wire'[c] \in Seq(From(c))
  <2>1. \A c \in Ends : wire[c] \in Seq(From(c))
    BY DEF ChannelInv, RecordsAreGenuine
  <2> QED BY <1>t, <1>6, <2>1
<1>8. sent' \in [Ends -> Seq(Nat)] /\ sent'[e] = Counted(x.tx) /\ sent'[d] = Counted(end[d].tx)
  <2>1. sent[e] = Counted(end[e].tx) /\ sent[d] = Counted(end[d].tx)
    BY <1>p DEF ChannelInv, SessionFollows
  <2>2. Counted(x.tx) \in Seq(Nat) /\ Append(Counted(end[e].tx), end[e].tx) = Counted(end[e].tx + 1)
    BY <1>2, CountedFacts
  <2> QED BY <1>p, <1>t, <2>1, <2>2
<1>9. received' \in [Ends -> Seq(Nat)] /\ received'[e] = Counted(x.rx) /\ received'[d] = Counted(end[d].rx)
  <2>1. received[e] = Counted(end[e].rx) /\ received[d] = Counted(end[d].rx)
    BY <1>p DEF ChannelInv, SessionFollows
  <2>2. Counted(x.rx) \in Seq(Nat) /\ Append(Counted(end[e].rx), end[e].rx) = Counted(end[e].rx + 1)
    BY <1>2, CountedFacts
  <2> QED BY <1>p, <1>t, <2>1, <2>2
<1>10. ChannelTyped'
  BY <1>1, <1>7, <1>8, <1>9 DEF ChannelInv, ChannelTyped
<1>11. RecordsAreGenuine'
  <2>1. end[d].out \in Seq(From(d)) /\ end[d].inq \in Seq(From(e))
    BY <1>p DEF ChannelInv, RecordsAreGenuine
  <2>2. \A c \in Ends : /\ end'[c].out \in Seq(From(c)') /\ wire'[c] \in Seq(From(c)')
                        /\ end'[c].inq \in Seq(From(Peer(c))')
    <3>1. /\ end'[e].out \in Seq(From(e)') /\ end'[e].inq \in Seq(From(d)')
          /\ end'[d].out \in Seq(From(d)') /\ end'[d].inq \in Seq(From(e)')
      BY <1>1, <1>4, <2>1 DEF d
    <3> QED BY <1>p, <1>5, <1>7, <3>1 DEF d
  <2>3. Source(pio') \in Ends
    BY DEF Source, Ends
  <2>4. pio'.data \in Seq(Genuines(Source(pio'), end'[Source(pio')].tx))
    BY <1>5, <2>3 DEF From
  <2> QED BY <2>2, <2>4 DEF RecordsAreGenuine, From
<1>12. SessionFollows'
  <2>1. Follows(d, end[d]) /\ end[e].rx <= end[d].tx /\ end[d].rx <= end[e].tx
    BY <1>p DEF ChannelInv, SessionFollows, d
  <2>2. Follows(e, x)' /\ Follows(d, end[d])'
    BY <2>1, <1>1 DEF Follows
  <2>3. x.rx <= end[d].tx /\ end[d].rx <= x.tx
    BY <1>2, <1>3, <2>1 DEF d
  <2>4. /\ Follows(e, end[e])' /\ sent'[e] = Counted(end'[e].tx) /\ received'[e] = Counted(end'[e].rx)
        /\ end'[e].rx <= end'[Peer(e)].tx
    BY <1>p, <1>1, <1>8, <1>9, <2>2, <2>3 DEF d, Follows
  <2>5. /\ Follows(d, end[d])' /\ sent'[d] = Counted(end'[d].tx) /\ received'[d] = Counted(end'[d].rx)
        /\ end'[d].rx <= end'[Peer(d)].tx
    BY <1>p, <1>1, <1>8, <1>9, <2>2, <2>3
  <2> HIDE DEF Follows
  <2> QED BY <1>p, <2>4, <2>5 DEF SessionFollows
<1>13. DescriptorFollows'
  <2>1. /\ end'["controller"] = IF e = "controller" THEN x ELSE end["controller"]
        /\ end'["guest"] = IF e = "guest" THEN x ELSE end["guest"]
    BY <1>t DEF Set, Ends
  <2> HIDE DEF TransferFits
  <2> QED BY <2>1 DEF DescriptorFollows
<1> QED BY <1>10, <1>11, <1>12, <1>13 DEF ChannelInv

LEMMA EndFacts ==
  ASSUME ChannelInv, NEW e \in Ends
  PROVE  /\ end[e] \in EndStates /\ Follows(e, end[e])
         /\ end[e].out \in Seq(From(e)) /\ end[e].inq \in Seq(From(Peer(e)))
         /\ pio \in Transfers /\ pio.data \in Seq(From(Source(pio)))
         /\ TransferFits(end["controller"], pio)
         /\ closes \in {0, 1} /\ end["guest"].op # "done" => closes = 0
BY DEF ChannelInv, ChannelTyped, RecordsAreGenuine, SessionFollows, DescriptorFollows

(* Only the state of one end's operation changes. *)
LEMMA EndTurns ==
  ASSUME ChannelInv, NEW e \in Ends, NEW x \in EndStates, Set(e, x),
         UNCHANGED <<wire, sent, received, pinned, bound>>,
         x.out = end[e].out, x.inq = end[e].inq, x.tx = end[e].tx, x.rx = end[e].rx,
         Follows(e, x),
         pio' = pio \/ pio' = NoTransfer,
         TransferFits(IF e = "controller" THEN x ELSE end["controller"], pio'),
         closes' \in {0, 1}, (IF e = "guest" THEN x ELSE end["guest"]).op # "done" => closes' = 0
  PROVE  ChannelInv'
<1>1. x.out \in Seq(Genuines(e, x.tx)) /\ x.inq \in Seq(From(Peer(e)))
  BY EndFacts DEF From
<1>2. pio' \in Transfers /\ pio'.data \in Seq(From(Source(pio')))
  <2>1. CASE pio' = NoTransfer
    BY <2>1 DEF NoTransfer, Transfers
  <2>2. CASE pio' = pio
    BY <2>2, EndFacts DEF Source
  <2> QED BY <2>1, <2>2
<1> QED BY <1>1, <1>2, EndMoves

(* An operation is given up. *)
LEMMA EndStops ==
  ASSUME ChannelInv, NEW e \in Ends, NEW x \in EndStates, Set(e, x),
         UNCHANGED <<wire, pio, closes, sent, received, pinned, bound>>,
         end[e].op \notin {"off", "done"},
         x.op = "dispose", x.ready = FALSE, x.line # "closed", x.hs = end[e].hs,
         x.out = end[e].out, x.inq = end[e].inq, x.tx = end[e].tx, x.rx = end[e].rx
  PROVE  ChannelInv'
<1>1. Follows(e, x)
  BY EndFacts DEF Follows, EndStates
<1>2. TransferFits(IF e = "controller" THEN x ELSE end["controller"], pio')
  <2>1. CASE e = "controller"
    BY <2>1, EndFacts DEF TransferFits
  <2>2. CASE e # "controller"
    BY <2>2, EndFacts
  <2> QED BY <2>1, <2>2
<1>3. closes' \in {0, 1} /\ ((IF e = "guest" THEN x ELSE end["guest"]).op # "done" => closes' = 0)
  <2>1. closes \in {0, 1} /\ (end["guest"].op # "done" => closes = 0) /\ closes' = closes
    BY DEF ChannelInv, ChannelTyped, DescriptorFollows
  <2> QED BY <2>1
<1> QED BY <1>1, <1>2, <1>3, EndTurns

LEMMA TerminalKeeps ==
  ASSUME ChannelInv, NEW e \in Ends, Terminal(e), end[e].op \notin {"off", "done"},
         UNCHANGED <<wire, pio, closes, sent, received, pinned, bound>>
  PROVE  ChannelInv'
<1> DEFINE x == [end[e] EXCEPT !.op = "dispose", !.ready = FALSE, !.plain = 0]
<1>1. /\ x \in EndStates /\ x.op = "dispose" /\ x.ready = FALSE /\ x.line # "closed" /\ x.hs = end[e].hs
      /\ x.out = end[e].out /\ x.inq = end[e].inq /\ x.tx = end[e].tx /\ x.rx = end[e].rx
  BY EndFacts DEF EndStates, EndOps, Follows
<1>2. Set(e, x)
  BY DEF Terminal
<1> HIDE DEF x
<1> QED BY <1>1, <1>2, EndStops

-----------------------------------------------------------------------------
LEMMA OpenedKeeps == ASSUME ChannelInv, NEW e \in Ends, Opened(e) PROVE ChannelInv'
<1> DEFINE x == [end[e] EXCEPT !.op = "handshake", !.line = "open"]
<1>1. /\ end[e] \in EndStates /\ end[e].op = "open" /\ Set(e, x)
      /\ UNCHANGED <<wire, pio, closes, sent, received, pinned, bound>>
  BY EndFacts DEF Opened, Goes
<1>2. /\ x \in EndStates /\ x.op = "handshake" /\ x.line = "open" /\ x.hs = end[e].hs /\ x.ready = end[e].ready
      /\ x.out = end[e].out /\ x.inq = end[e].inq /\ x.got = end[e].got /\ x.put = end[e].put
      /\ x.tx = end[e].tx /\ x.rx = end[e].rx /\ x.plain = end[e].plain
  BY <1>1 DEF EndStates, EndOps, Lines
<1> HIDE DEF x
<1>3. Follows(e, x)
  BY <1>1, <1>2, EndFacts DEF Follows
<1>4. TransferFits(IF e = "controller" THEN x ELSE end["controller"], pio)
  <2>1. CASE e = "controller"
    BY <2>1, <1>1, <1>2, EndFacts DEF TransferFits, Follows
  <2>2. CASE e # "controller"
    BY <2>2, EndFacts
  <2> QED BY <2>1, <2>2
<1>5. closes \in {0, 1} /\ ((IF e = "guest" THEN x ELSE end["guest"]).op # "done" => closes = 0)
  BY <1>1, <1>2 DEF ChannelInv, ChannelTyped, DescriptorFollows
<1> QED BY <1>1, <1>2, <1>3, <1>4, <1>5, EndTurns

(* An authenticated, sent or received message leaves no transfer behind. *)
LEMMA NothingOutstanding ==
  ASSUME ChannelInv,
         LET c == end["controller"] IN
           \/ c.op \in {"off", "open", "idle", "send"} /\ c.out = <<>>
           \/ c.op = "handshake" /\ c.ready /\ c.out = <<>>
           \/ c.op \in {"handshake", "receive"} /\ c.out = <<>> /\ c.inq # <<>>
  PROVE  pio.at = "none"
<1>1. TransferFits(end["controller"], pio)
  BY DEF ChannelInv, DescriptorFollows
<1> QED BY <1>1 DEF TransferFits

(* Between two operations: what the end has made is on its way. *)
LEMMA BetweenOperations ==
  ASSUME ChannelInv, NEW e \in Ends, NEW op \in {"idle", "receive"},
         Set(e, [end[e] EXCEPT !.op = op]),
         UNCHANGED <<wire, pio, closes, sent, received, pinned, bound>>,
         end[e].ready, end[e].op \in {"handshake", "idle", "send"},
         e = "controller" => end[e].out = <<>>
  PROVE  ChannelInv'
<1> DEFINE x == [end[e] EXCEPT !.op = op]
<1>1. end[e] \in EndStates
  BY EndFacts
<1>2. /\ x \in EndStates /\ x.op = op /\ x.line = end[e].line /\ x.hs = end[e].hs /\ x.ready = end[e].ready
      /\ x.out = end[e].out /\ x.inq = end[e].inq /\ x.got = end[e].got /\ x.put = end[e].put
      /\ x.tx = end[e].tx /\ x.rx = end[e].rx /\ x.plain = end[e].plain
  BY <1>1 DEF EndStates, EndOps
<1> HIDE DEF x
<1>3. Follows(e, x)
  BY <1>1, <1>2, EndFacts DEF Follows
<1>4. TransferFits(IF e = "controller" THEN x ELSE end["controller"], pio)
  <2>1. CASE e = "controller"
    <3>1. pio.at = "none"
      BY <2>1, NothingOutstanding
    <3> QED BY <2>1, <3>1, <1>2, EndFacts DEF TransferFits
  <2>2. CASE e # "controller"
    BY <2>2, EndFacts
  <2> QED BY <2>1, <2>2
<1>5. closes \in {0, 1} /\ ((IF e = "guest" THEN x ELSE end["guest"]).op # "done" => closes = 0)
  BY <1>1, <1>2 DEF ChannelInv, ChannelTyped, DescriptorFollows
<1>6. Set(e, x)
  BY DEF x
<1> QED BY <1>2, <1>3, <1>4, <1>5, <1>6, EndTurns

LEMMA ReturnsKeep ==
  ASSUME ChannelInv, NEW e \in Ends, Authenticated(e) \/ Sent(e) \/ Receive(e)
  PROVE  ChannelInv'
<1>1. end[e].op \in {"idle", "send", "receive"} => end[e].ready
  BY EndFacts DEF Follows
<1>2. e = "controller" /\ end[e].op = "idle" => end[e].out = <<>>
  BY EndFacts DEF TransferFits
<1>3. CASE Authenticated(e)
  BY <1>3, BetweenOperations DEF Authenticated, Goes
<1>4. CASE Sent(e)
  BY <1>1, <1>4, BetweenOperations DEF Sent, Goes
<1>5. CASE Receive(e)
  BY <1>1, <1>2, <1>5, BetweenOperations DEF Receive, Goes
<1> QED BY <1>3, <1>4, <1>5

LEMMA GivenUpKeeps ==
  ASSUME ChannelInv, NEW e \in Ends, OperationFails(e) \/ CallAfterStop(e) \/ CloseIdle(e)
  PROVE  ChannelInv'
<1>1. CASE CallAfterStop(e) \/ CloseIdle(e)
  BY <1>1, TerminalKeeps DEF CallAfterStop, CloseIdle
<1>2. CASE OperationFails(e)
  <2>1. PICK line \in IF end[e].op = "open" THEN {"none", "open"} ELSE {end[e].line} :
          Set(e, [end[e] EXCEPT !.op = "dispose", !.ready = FALSE, !.plain = 0, !.line = line])
    BY <1>2 DEF OperationFails
  <2> DEFINE x == [end[e] EXCEPT !.op = "dispose", !.ready = FALSE, !.plain = 0, !.line = line]
  <2>2. end[e].op \notin {"off", "done"} /\ UNCHANGED <<wire, pio, closes, sent, received, pinned, bound>>
    BY <1>2 DEF OperationFails, Busy
  <2>3. end[e] \in EndStates /\ line \in Lines \ {"closed"}
    BY <2>2, EndFacts DEF Follows, EndStates, Lines
  <2>4. /\ x \in EndStates /\ x.op = "dispose" /\ x.ready = FALSE /\ x.line # "closed" /\ x.hs = end[e].hs
        /\ x.out = end[e].out /\ x.inq = end[e].inq /\ x.tx = end[e].tx /\ x.rx = end[e].rx
    BY <2>3 DEF EndStates, EndOps
  <2> HIDE DEF x
  <2> QED BY <2>1, <2>2, <2>4, EndStops DEF x
<1> QED BY <1>1, <1>2

-----------------------------------------------------------------------------
LEMMA RecordIs ==
  ASSUME ChannelInv, NEW e \in Ends, NEW i \in {1, 2}, NEW body
  PROVE  /\ Record(e, i, body).n = end[e].put + i /\ Record(e, i, body).body = body
         /\ body \in {"h", "m", "x"} \X Nat \X Nat => Record(e, i, body) \in Records
BY EndFacts DEF Record, Records, EndStates

(* A flight of the handshake. *)
LEMMA HelloIsGenuine ==
  ASSUME ChannelInv, NEW e \in Ends, NEW k \in {1, 2, 3}, NEW j \in Nat, end[e].put < Hellos(e)
  PROVE  <<Record(e, 1, <<"h", k, 0>>)>> \in Seq(Genuines(e, j))
<1> DEFINE r == Record(e, 1, <<"h", k, 0>>)
<1>1. r \in Records /\ r.n = end[e].put + 1 /\ r.body = <<"h", k, 0>>
  BY RecordIs
<1> HIDE DEF r
<1>2. r.n \in 1..Hellos(e) /\ r.body[1] = "h"
  BY <1>1, EndFacts DEF EndStates, Hellos
<1>3. r \in Genuines(e, j)
  BY <1>1, <1>2 DEF Genuines
<1> QED BY <1>3 DEF r

LEMMA HandshakeKeeps == ASSUME ChannelInv, NEW e \in Ends, HandshakeStep(e) PROVE ChannelInv'
<1>1. /\ end[e].op = "handshake" /\ ~end[e].ready /\ end[e].out = <<>>
      /\ UNCHANGED <<wire, pio, closes, sent, received, pinned, bound>>
  BY DEF HandshakeStep, Goes
<1>2. end[e] \in EndStates /\ Follows(e, end[e])
  BY EndFacts
<1>3. /\ end[e].put = end[e].hs /\ end[e].got = (IF e = "guest" THEN end[e].hs ELSE 0)
      /\ end[e].tx = 0 /\ end[e].rx = 0 /\ end[e].plain = 0
  BY <1>1, <1>2 DEF Follows
<1>4. closes \in {0, 1} /\ ((IF e = "guest" THEN end[e] ELSE end["guest"]).op # "done" => closes = 0)
  BY DEF ChannelInv, ChannelTyped, DescriptorFollows
<1>5. ASSUME NEW x \in EndStates, Set(e, x), Follows(e, x), x.op = "handshake", x.hs = 1,
             x.tx = 0, x.rx = 0, x.line = end[e].line,
             x.out \in Seq(Genuines(e, 0)), x.inq \in Seq(From(Peer(e))),
             e = "controller" => pio.at = "none"
      PROVE  ChannelInv'
  <2>1. TransferFits(IF e = "controller" THEN x ELSE end["controller"], pio)
    <3>1. CASE e = "controller"
      BY <3>1, <1>5 DEF TransferFits
    <3>2. CASE e # "controller"
      BY <3>2, EndFacts
    <3> QED BY <3>1, <3>2
  <2>2. (IF e = "guest" THEN x ELSE end["guest"]).op # "done" => closes = 0
    BY <1>1, <1>4, <1>5
  <2>3. pio \in Transfers /\ pio.data \in Seq(From(Source(pio)))
    BY EndFacts
  <2>4. x.out \in Seq(Genuines(e, x.tx)) /\ x.tx = end[e].tx /\ x.rx = end[e].rx
    BY <1>3, <1>5
  <2>5. pio' \in Transfers /\ pio'.data \in Seq(From(Source(pio')))
    BY <1>1, <2>3
  <2>6. TransferFits(IF e = "controller" THEN x ELSE end["controller"], pio')
    BY <1>1, <2>1
  <2> QED BY <1>1, <1>4, <1>5, <2>2, <2>4, <2>5, <2>6, EndMoves
<1>6. end[e].inq \in Seq(From(Peer(e)))
  BY EndFacts
<1>7. CASE /\ e = "controller" /\ end[e].hs = 0
           /\ Set(e, [end[e] EXCEPT !.hs = 1, !.out = <<Record(e, 1, <<"h", 1, 0>>)>>, !.put = @ + 1])
  <2> DEFINE out == <<Record(e, 1, <<"h", 1, 0>>)>>
             x == [end[e] EXCEPT !.hs = 1, !.out = out, !.put = @ + 1]
  <2>1. out \in Seq(Genuines(e, 0)) /\ out \in Seq(Records)
    <3>1. out \in Seq(Genuines(e, 0))
      BY <1>3, <1>7, HelloIsGenuine DEF Hellos
    <3>2. Genuines(e, 0) \subseteq Records
      BY DEF Genuines
    <3> QED BY <3>1, <3>2
  <2> HIDE DEF out
  <2>2. /\ x \in EndStates /\ x.op = "handshake" /\ x.hs = 1 /\ ~x.ready /\ x.line = end[e].line
        /\ x.tx = 0 /\ x.rx = 0 /\ x.plain = 0 /\ x.put = 1 /\ x.got = 0
        /\ x.out = out /\ x.inq = end[e].inq
    <3>1. /\ end[e].put + 1 \in Nat /\ end[e].put + 1 = 1 /\ end[e].got = 0
      BY <1>2, <1>3, <1>7 DEF EndStates
    <3>2. x \in EndStates
      BY <1>2, <2>1, <3>1 DEF EndStates
    <3>3. ~x.ready
      BY <1>1, <1>2 DEF EndStates
    <3>4. /\ x.op = "handshake" /\ x.hs = 1 /\ x.line = end[e].line
          /\ x.tx = 0 /\ x.rx = 0 /\ x.plain = 0 /\ x.put = 1 /\ x.got = 0
          /\ x.out = out /\ x.inq = end[e].inq
      BY <1>1, <1>2, <1>3, <3>1 DEF EndStates
    <3> QED BY <3>2, <3>3, <3>4
  <2>3. Set(e, x)
    BY <1>7 DEF out
  <2> HIDE DEF x
  <2>4. Follows(e, x)
    BY <1>1, <1>2, <1>7, <2>2 DEF Follows
  <2>5. pio.at = "none"
    BY <1>7, EndFacts DEF TransferFits
  <2> QED BY <1>5, <1>6, <2>1, <2>2, <2>3, <2>4, <2>5
<1>8. CASE Terminal(e)
  BY <1>1, <1>8, TerminalKeeps
<1>9. ASSUME Good(e), ~Terminal(e),
             LET last == e = "controller" \/ end[e].hs = 1
                 flight == IF e = "controller" THEN <<Record(e, 1, <<"h", 3, 0>>)>>
                           ELSE IF last THEN <<>> ELSE <<Record(e, 1, <<"h", 2, 0>>)>> IN
             IF last /\ ~pinned[e] THEN Terminal(e)
             ELSE Set(e, [end[e] EXCEPT !.hs = 1, !.ready = last, !.out = flight, !.inq = <<>>,
                                        !.got = @ + 1, !.put = @ + Len(flight)])
      PROVE  ChannelInv'
  <2> DEFINE last == e = "controller" \/ end[e].hs = 1
             flight == IF e = "controller" THEN <<Record(e, 1, <<"h", 3, 0>>)>>
                       ELSE IF last THEN <<>> ELSE <<Record(e, 1, <<"h", 2, 0>>)>>
             x == [end[e] EXCEPT !.hs = 1, !.ready = last, !.out = flight, !.inq = <<>>,
                                 !.got = @ + 1, !.put = @ + Len(flight)]
  <2>1. (last => pinned[e]) /\ Set(e, x)
    BY <1>9
  <2>2. end[e].inq # <<>> /\ (e = "controller" => end[e].hs = 1 /\ pio.at = "none")
    <3>1. end[e].inq # <<>>
      BY <1>9 DEF Good, Readable
    <3>2. e = "controller" => end[e].hs = 1
      BY <3>1, <1>2, EndFacts DEF TransferFits, EndStates
    <3> QED BY <3>1, <3>2, <1>1, NothingOutstanding
  <2>3. flight \in Seq(Genuines(e, 0)) /\ Len(flight) = IF e = "guest" /\ last THEN 0 ELSE 1
    <3>1. CASE e = "controller"
      <4>1. <<Record(e, 1, <<"h", 3, 0>>)>> \in Seq(Genuines(e, 0))
        BY <3>1, <1>3, <2>2, HelloIsGenuine DEF Hellos
      <4> QED BY <3>1, <4>1
    <3>2. CASE e = "guest" /\ last
      BY <3>2
    <3>3. CASE e = "guest" /\ ~last
      <4>1. <<Record(e, 1, <<"h", 2, 0>>)>> \in Seq(Genuines(e, 0))
        BY <3>3, <1>2, <1>3, HelloIsGenuine DEF Hellos, EndStates
      <4> QED BY <3>3, <4>1
    <3> QED BY <3>1, <3>2, <3>3 DEF Ends
  <2>4. flight \in Seq(Records) /\ last \in BOOLEAN
    <3>1. Genuines(e, 0) \subseteq Records
      BY DEF Genuines
    <3> HIDE DEF flight
    <3> QED BY <2>3, <3>1
  <2>5. last <=> e = "controller" \/ end[e].hs = 1
    OBVIOUS
  <2> HIDE DEF flight, last
  <2>6. /\ x \in EndStates /\ x.op = "handshake" /\ x.hs = 1 /\ (x.ready <=> last) /\ x.line = end[e].line
        /\ x.tx = 0 /\ x.rx = 0 /\ x.plain = 0 /\ x.out = flight /\ x.inq = <<>>
        /\ x.got = end[e].got + 1 /\ x.put = end[e].put + Len(flight)
    <3>1. end[e].got + 1 \in Nat /\ end[e].put + Len(flight) \in Nat /\ <<>> \in Seq(Records)
      BY <1>2, <2>3 DEF EndStates
    <3>2. x \in EndStates
      BY <1>2, <2>4, <3>1 DEF EndStates
    <3>3. x.ready <=> last
      BY <1>2, <2>4 DEF EndStates
    <3>4. /\ x.op = "handshake" /\ x.hs = 1 /\ x.line = end[e].line
          /\ x.tx = 0 /\ x.rx = 0 /\ x.plain = 0 /\ x.out = flight /\ x.inq = <<>>
          /\ x.got = end[e].got + 1 /\ x.put = end[e].put + Len(flight)
      BY <1>1, <1>2, <1>3, <3>1 DEF EndStates
    <3> QED BY <3>2, <3>3, <3>4
  <2> HIDE DEF x
  <2>7. Follows(e, x)
    <3>1. x.line # "closed"
      BY <1>1, <1>2, <2>6 DEF Follows
    <3>2. CASE last
      <4>1. /\ x.put = Hellos(e) + 2 * x.tx
            /\ x.got = Hellos(Peer(e)) + 2 * x.rx + x.plain
        BY <3>2, <1>3, <2>2, <2>3, <2>5, <2>6 DEF Ends, Peer, Hellos
      <4> QED BY <3>1, <3>2, <4>1, <2>1, <2>6 DEF Follows
    <3>3. CASE ~last
      <4>1. e = "guest" /\ end[e].hs = 0
        BY <3>3, <1>2, <2>5 DEF Ends, EndStates
      <4>2. x.put = 1 /\ x.got = 1 /\ ~x.ready
        BY <4>1, <3>3, <1>3, <2>3, <2>6
      <4> QED BY <3>1, <4>1, <4>2, <2>6 DEF Follows
    <3> QED BY <3>2, <3>3
  <2>8. x.inq \in Seq(From(Peer(e)))
    BY <2>6
  <2> QED BY <1>5, <2>1, <2>2, <2>3, <2>6, <2>7, <2>8
<1> QED BY <1>7, <1>8, <1>9 DEF HandshakeStep

LEMMA SendKeeps == ASSUME ChannelInv, NEW e \in Ends, SendMessage(e) PROVE ChannelInv'
<1>1. /\ end[e].op = "idle" /\ UNCHANGED <<wire, pio, closes, received, pinned, bound>>
      /\ end[e] \in EndStates /\ Follows(e, end[e])
  BY EndFacts DEF SendMessage, Goes
<1>2. CASE Terminal(e) /\ UNCHANGED sent
  BY <1>1, <1>2, TerminalKeeps
<1>3. CASE /\ sent' = [sent EXCEPT ![e] = Append(@, end[e].tx)]
           /\ Set(e, [end[e] EXCEPT !.op = "send", !.tx = @ + 1, !.put = @ + 2,
                                    !.out = <<Record(e, 1, <<"m", end[e].tx, 1>>),
                                              Record(e, 2, <<"m", end[e].tx, 2>>)>>])
  <2> DEFINE out == <<Record(e, 1, <<"m", end[e].tx, 1>>), Record(e, 2, <<"m", end[e].tx, 2>>)>>
             x == [end[e] EXCEPT !.op = "send", !.tx = @ + 1, !.put = @ + 2, !.out = out]
  <2>1. /\ end[e].ready /\ end[e].tx \in Nat /\ end[e].put \in Nat /\ end[e].put = Hellos(e) + 2 * end[e].tx
        /\ end[e].got = Hellos(Peer(e)) + 2 * end[e].rx + end[e].plain /\ pinned[e] /\ end[e].hs = 1
    BY <1>1 DEF Follows, EndStates
  <2>2. ASSUME NEW i \in {1, 2}
        PROVE  Record(e, i, <<"m", end[e].tx, i>>) \in Genuines(e, end[e].tx + 1)
    <3> DEFINE r == Record(e, i, <<"m", end[e].tx, i>>)
    <3>1. <<"m", end[e].tx, i>> \in {"h", "m", "x"} \X Nat \X Nat
      BY <2>1
    <3>2. r \in Records /\ r.n = end[e].put + i /\ r.body = <<"m", end[e].tx, i>>
      BY <3>1, RecordIs
    <3> HIDE DEF r
    <3>3. end[e].tx \in 0..(end[e].tx + 1) - 1 /\ r.n = Hellos(e) + 2 * end[e].tx + i
      BY <2>1, <3>2 DEF Hellos
    <3>4. r \in Genuines(e, end[e].tx + 1)
      BY <3>2, <3>3 DEF Genuines
    <3> QED BY <3>4 DEF r
  <2>3. out \in Seq(Genuines(e, end[e].tx + 1)) /\ out # <<>>
    BY <2>2
  <2>4. out \in Seq(Records)
    <3>1. Genuines(e, end[e].tx + 1) \subseteq Records
      BY DEF Genuines
    <3> HIDE DEF out
    <3> QED BY <2>3, <3>1
  <2> HIDE DEF out
  <2>5. /\ x.op = "send" /\ x.line = end[e].line /\ x.hs = end[e].hs
        /\ x.tx = end[e].tx + 1 /\ x.put = end[e].put + 2 /\ x.out = out
        /\ x.inq = end[e].inq /\ x.got = end[e].got /\ x.rx = end[e].rx /\ x.plain = end[e].plain
    BY <1>1 DEF EndStates
  <2>6. x.ready
    BY <1>1, <2>1 DEF EndStates
  <2>7. x \in EndStates
    <3>1. end[e].tx + 1 \in Nat /\ end[e].put + 2 \in Nat /\ "send" \in EndOps
      BY <2>1 DEF EndOps
    <3> QED BY <1>1, <2>4, <3>1 DEF EndStates
  <2>8. Set(e, x)
    BY <1>3 DEF out
  <2> HIDE DEF x
  <2>9. Follows(e, x)
    <3>1. x.put = Hellos(e) + 2 * x.tx
      BY <2>1, <2>5 DEF Hellos
    <3>2. x.rx > 0 => bound
      BY <1>1, <2>5 DEF Follows
    <3>3. x.line # "closed"
      BY <1>1, <2>5 DEF Follows
    <3> QED BY <2>1, <2>5, <2>6, <3>1, <3>2, <3>3 DEF Follows
  <2>10. TransferFits(IF e = "controller" THEN x ELSE end["controller"], pio')
    <3>1. CASE e = "controller"
      <4>1. end["controller"].out = <<>>
        BY <1>1, <3>1, EndFacts DEF TransferFits
      <4>2. pio.at = "none"
        BY <1>1, <3>1, <4>1, NothingOutstanding
      <4>3. x.hs = 1
        BY <2>1, <2>5
      <4> QED BY <1>1, <3>1, <4>2, <4>3, <2>5 DEF TransferFits
    <3>2. CASE e # "controller"
      BY <1>1, <3>2, EndFacts
    <3> QED BY <3>1, <3>2
  <2>11. pio' \in Transfers /\ pio'.data \in Seq(From(Source(pio'))) /\ end[e].inq \in Seq(From(Peer(e)))
    BY <1>1, EndFacts
  <2>12. closes' \in {0, 1} /\ ((IF e = "guest" THEN x ELSE end["guest"]).op # "done" => closes' = 0)
    BY <1>1, <2>5 DEF ChannelInv, ChannelTyped, DescriptorFollows
  <2> QED BY <1>1, <1>3, <2>3, <2>5, <2>7, <2>8, <2>9, <2>10, <2>11, <2>12, EndMoves
<1> QED BY <1>2, <1>3 DEF SendMessage

(* A record that an end accepts in a message's place is that half of the   *)
(* next message of the other end.                                          *)
LEMMA NextHalf ==
  ASSUME ChannelInv, NEW e \in Ends, end[e].op = "receive", Good(e), Head(end[e].inq).body[1] = "m"
  PROVE  /\ end[e].rx < end[Peer(e)].tx
         /\ Head(end[e].inq).body[2] = end[e].rx
<1> DEFINE r == Head(end[e].inq)
           d == Peer(e)
<1>1. end[e].inq # <<>> /\ r.n = end[e].got + 1 /\ r.body[1] = "m"
  BY DEF Good, Readable
<1>2. r \in Genuines(d, end[d].tx)
  <2>1. end[e].inq \in Seq(Genuines(d, end[d].tx))
    BY EndFacts DEF From
  <2> QED BY <1>1, <2>1
<1>3. /\ end[e].got \in Nat /\ end[e].rx \in Nat /\ end[e].plain \in {0, 1}
      /\ end[e].got = Hellos(d) + 2 * end[e].rx + end[e].plain
  BY EndFacts DEF EndStates, Follows
<1>4. end[d].tx \in Nat
  BY PeerIsOther, EndFacts DEF EndStates
<1> HIDE DEF r, d
<1>5. r.n # 0 /\ r.body[1] # "h"
  BY <1>1, <1>3
<1>6. PICK m \in 0..end[d].tx - 1, i \in {1, 2} : r.n = Hellos(d) + 2 * m + i /\ r.body = <<"m", m, i>>
  BY <1>2, <1>5 DEF Genuines
<1>7. 2 * m + i = 2 * end[e].rx + end[e].plain + 1
  <2>1. Hellos(d) \in Nat /\ m \in Nat
    BY <1>4 DEF Hellos
  <2>2. r.n = end[e].got + 1 /\ r.n = Hellos(d) + 2 * m + i
    BY <1>1, <1>6
  <2>3. end[e].got + 1 = Hellos(d) + 2 * m + i
    BY <2>2
  <2>4. i \in Nat /\ end[e].plain \in Nat
    BY <1>3
  <2> QED BY <1>3, <2>1, <2>3, <2>4
<1>8. m = end[e].rx /\ m < end[d].tx
  BY <1>3, <1>4, <1>7
<1>9. r.body[2] = m
  BY <1>6
<1> QED BY <1>8, <1>9 DEF r, d

LEMMA TakeKeeps == ASSUME ChannelInv, NEW e \in Ends, TakeRecord(e) PROVE ChannelInv'
<1>1. /\ end[e].op = "receive" /\ Good(e) /\ Head(end[e].inq).body[1] = "m"
      /\ UNCHANGED <<wire, pio, closes, sent, pinned, bound>>
      /\ end[e] \in EndStates /\ Follows(e, end[e])
  BY EndFacts DEF TakeRecord, Goes
<1>2. /\ end[e].ready /\ end[e].rx \in Nat /\ end[e].got \in Nat /\ end[e].put = Hellos(e) + 2 * end[e].tx
      /\ end[e].got = Hellos(Peer(e)) + 2 * end[e].rx + end[e].plain /\ pinned[e] /\ end[e].hs = 1
      /\ end[e].line # "closed" /\ end[e].plain \in {0, 1}
      /\ end[e].tx > 0 => pinned[e]
      /\ end[e].rx > 0 => bound
  BY <1>1 DEF Follows, EndStates
<1>3. end[e].rx < end[Peer(e)].tx /\ Head(end[e].inq).body[2] = end[e].rx
  BY <1>1, NextHalf
<1>4. /\ pio \in Transfers /\ pio.data \in Seq(From(Source(pio)))
      /\ end[e].out \in Seq(Genuines(e, end[e].tx))
      /\ closes \in {0, 1} /\ ((IF e = "guest" THEN end[e] ELSE end["guest"]).op # "done" => closes = 0)
  BY EndFacts DEF ChannelInv, ChannelTyped, DescriptorFollows, From
<1>5. e = "controller" => end["controller"].out = <<>> /\ pio.at = "none"
  <2>1. e = "controller" => end["controller"].out = <<>>
    BY <1>1, EndFacts DEF TransferFits
  <2>2. end[e].inq # <<>>
    BY <1>1 DEF Good, Readable
  <2> QED BY <1>1, <2>1, <2>2, NothingOutstanding
(* The end after the record, whether the message is whole or not. *)
<1>6. ASSUME NEW x \in EndStates, Set(e, x), x.op \in {"receive", "idle"}, x.ready, x.hs = 1,
             x.line = end[e].line, x.out = end[e].out, x.inq = <<>>, x.tx = end[e].tx,
             x.put = end[e].put, x.got = Hellos(Peer(e)) + 2 * x.rx + x.plain, x.rx > 0 => bound,
             \/ x.rx = end[e].rx /\ received' = received
             \/ /\ x.rx = end[e].rx + 1
                /\ received' = [received EXCEPT ![e] = Append(@, end[e].rx)]
      PROVE  ChannelInv'
  <2>1. Follows(e, x)
    BY <1>2, <1>6 DEF Follows
  <2>2. TransferFits(IF e = "controller" THEN x ELSE end["controller"], pio)
    <3>1. CASE e = "controller"
      BY <1>2, <1>5, <1>6, <3>1 DEF TransferFits
    <3>2. CASE e # "controller"
      BY <3>2, EndFacts
    <3> QED BY <3>1, <3>2
  <2>3. x.out \in Seq(Genuines(e, x.tx)) /\ x.inq \in Seq(From(Peer(e)))
    BY <1>4, <1>6
  <2>4. x.rx = end[e].rx + 1 => x.rx <= end[Peer(e)].tx
    <3>1. end[Peer(e)].tx \in Nat
      BY PeerIsOther, EndFacts DEF EndStates
    <3> QED BY <1>2, <1>3, <3>1
  <2>5. (IF e = "guest" THEN x ELSE end["guest"]).op # "done" => closes = 0
    BY <1>1, <1>4
  <2>6. /\ pio' \in Transfers /\ pio'.data \in Seq(From(Source(pio')))
        /\ TransferFits(IF e = "controller" THEN x ELSE end["controller"], pio')
        /\ closes' \in {0, 1} /\ ((IF e = "guest" THEN x ELSE end["guest"]).op # "done" => closes' = 0)
    BY <1>1, <1>4, <2>2, <2>5
  <2>7. \/ x.rx = end[e].rx /\ received' = received
        \/ /\ x.rx = end[e].rx + 1 /\ x.rx <= end[Peer(e)].tx
           /\ received' = [received EXCEPT ![e] = Append(@, end[e].rx)]
    BY <1>6, <2>4
  <2>8. x.tx = end[e].tx /\ sent' = sent /\ UNCHANGED wire /\ UNCHANGED <<pinned, bound>>
    BY <1>1, <1>6
  <2> QED BY <1>6, <2>1, <2>3, <2>6, <2>7, <2>8, EndMoves
<1> DEFINE taken == [end[e] EXCEPT !.inq = <<>>, !.got = @ + 1]
<1>7. /\ taken \in EndStates /\ taken.op = "receive" /\ taken.ready /\ taken.hs = 1
      /\ taken.line = end[e].line /\ taken.out = end[e].out /\ taken.inq = <<>> /\ taken.tx = end[e].tx
      /\ taken.put = end[e].put /\ taken.got = end[e].got + 1 /\ taken.rx = end[e].rx
  <2>1. end[e].got + 1 \in Nat /\ <<>> \in Seq(Records)
    BY <1>2
  <2>2. taken \in EndStates
    BY <1>1, <2>1 DEF EndStates
  <2>3. taken.ready
    BY <1>1, <1>2 DEF EndStates
  <2>4. /\ taken.op = "receive" /\ taken.hs = 1
        /\ taken.line = end[e].line /\ taken.out = end[e].out /\ taken.inq = <<>> /\ taken.tx = end[e].tx
        /\ taken.put = end[e].put /\ taken.got = end[e].got + 1 /\ taken.rx = end[e].rx
    BY <1>1, <1>2 DEF EndStates
  <2> QED BY <2>2, <2>3, <2>4
<1>8. \/ end[e].plain = 0 /\ Set(e, [taken EXCEPT !.plain = 1]) /\ UNCHANGED received
      \/ Terminal(e) /\ UNCHANGED received
      \/ /\ end[e].plain = 1 /\ bound
         /\ Set(e, [taken EXCEPT !.op = "idle", !.plain = 0, !.rx = @ + 1])
         /\ received' = [received EXCEPT ![e] = Append(@, end[e].rx)]
  BY <1>2, <1>3 DEF TakeRecord
<1> HIDE DEF taken
<1>9. CASE end[e].plain = 0 /\ Set(e, [taken EXCEPT !.plain = 1]) /\ UNCHANGED received
  <2> DEFINE x == [taken EXCEPT !.plain = 1]
  <2>1. /\ x \in EndStates /\ x.op = "receive" /\ x.hs = 1
        /\ x.line = end[e].line /\ x.out = end[e].out /\ x.inq = <<>> /\ x.tx = end[e].tx
        /\ x.put = end[e].put /\ x.got = end[e].got + 1 /\ x.rx = end[e].rx /\ x.plain = 1
    BY <1>7 DEF EndStates
  <2>2. x.ready
    BY <1>7 DEF EndStates
  <2> HIDE DEF x
  <2>3. Set(e, x)
    BY <1>9 DEF x
  <2>4. x.got = Hellos(Peer(e)) + 2 * x.rx + x.plain
    BY <1>2, <1>9, <2>1 DEF Hellos
  <2> QED BY <1>2, <1>6, <1>9, <2>1, <2>2, <2>3, <2>4
<1>10. CASE Terminal(e) /\ UNCHANGED received
  BY <1>1, <1>10, TerminalKeeps
<1>11. CASE /\ end[e].plain = 1 /\ bound
            /\ Set(e, [taken EXCEPT !.op = "idle", !.plain = 0, !.rx = @ + 1])
            /\ received' = [received EXCEPT ![e] = Append(@, end[e].rx)]
  <2> DEFINE x == [taken EXCEPT !.op = "idle", !.plain = 0, !.rx = @ + 1]
  <2>1. /\ x.op = "idle" /\ x.hs = 1
        /\ x.line = end[e].line /\ x.out = end[e].out /\ x.inq = <<>> /\ x.tx = end[e].tx
        /\ x.put = end[e].put /\ x.got = end[e].got + 1 /\ x.rx = end[e].rx + 1 /\ x.plain = 0
    BY <1>7 DEF EndStates
  <2>2. x.ready
    BY <1>7 DEF EndStates
  <2>3. x \in EndStates
    <3>1. taken.rx + 1 \in Nat /\ "idle" \in EndOps
      BY <1>2, <1>7 DEF EndOps
    <3> QED BY <1>7, <3>1 DEF EndStates
  <2> HIDE DEF x
  <2>4. Set(e, x)
    BY <1>11 DEF x
  <2>5. x.got = Hellos(Peer(e)) + 2 * x.rx + x.plain
    BY <1>2, <1>11, <2>1 DEF Hellos
  <2> QED BY <1>2, <1>6, <1>11, <2>1, <2>2, <2>3, <2>4, <2>5
<1> QED BY <1>8, <1>9, <1>10, <1>11

-----------------------------------------------------------------------------
(* Records move along the line while neither end counts or finishes        *)
(* anything.                                                               *)
LEMMA RecordsMove ==
  ASSUME ChannelInv, NEW e \in Ends, NEW x \in EndStates, Set(e, x),
         UNCHANGED <<sent, received, pinned, bound, closes>>,
         x.op = end[e].op, x.line = end[e].line, x.hs = end[e].hs, x.ready <=> end[e].ready,
         x.tx = end[e].tx, x.rx = end[e].rx, x.put = end[e].put, x.got = end[e].got, x.plain = end[e].plain,
         x.out \in Seq(From(e)), x.inq \in Seq(From(Peer(e))),
         \/ UNCHANGED wire
         \/ \E d \in Ends : \E s \in Seq(From(d)) : wire' = [wire EXCEPT ![d] = s],
         pio' \in Transfers, pio'.data \in Seq(From(Source(pio'))),
         TransferFits(IF e = "controller" THEN x ELSE end["controller"], pio')
  PROVE  ChannelInv'
<1>1. Follows(e, x)
  BY EndFacts DEF Follows
<1>2. closes' \in {0, 1} /\ ((IF e = "guest" THEN x ELSE end["guest"]).op # "done" => closes' = 0)
  BY DEF ChannelInv, ChannelTyped, DescriptorFollows
<1>3. x.out \in Seq(Genuines(e, x.tx)) /\ x.tx = end[e].tx /\ sent' = sent /\ x.rx = end[e].rx /\ received' = received
  BY DEF From
<1>4. UNCHANGED <<pinned, bound>>
  OBVIOUS
<1> QED BY <1>1, <1>2, <1>3, <1>4, EndMoves

LEMMA EndStays ==
  ASSUME ChannelInv, UNCHANGED end, NEW e \in Ends
  PROVE  Set(e, end[e])
BY EndFacts DEF ChannelInv, ChannelTyped, Set

LEMMA NothingMoves == ASSUME ChannelInv, UNCHANGED serialVars PROVE ChannelInv'
<1>1. "guest" \in Ends
  BY DEF Ends
<1>2. Set("guest", end["guest"])
  BY <1>1, EndStays DEF serialVars
<1>3. /\ end["guest"] \in EndStates /\ end["guest"].out \in Seq(From("guest"))
      /\ end["guest"].inq \in Seq(From(Peer("guest")))
      /\ pio \in Transfers /\ pio.data \in Seq(From(Source(pio))) /\ TransferFits(end["controller"], pio)
  BY <1>1, EndFacts
<1>4. /\ pio' \in Transfers /\ pio'.data \in Seq(From(Source(pio')))
      /\ TransferFits(IF "guest" = "controller" THEN end["guest"] ELSE end["controller"], pio')
  BY <1>3 DEF serialVars
<1>5. UNCHANGED <<sent, received, pinned, bound, closes>> /\ UNCHANGED wire
  BY DEF serialVars
<1> QED BY <1>1, <1>2, <1>3, <1>4, <1>5, RecordsMove

(* The ends stand still, and a transfer or the line goes on. *)
LEMMA LineMoves ==
  ASSUME ChannelInv, UNCHANGED <<end, sent, received, pinned, bound, closes>>,
         \/ UNCHANGED wire
         \/ \E d \in Ends : \E s \in Seq(From(d)) : wire' = [wire EXCEPT ![d] = s],
         pio' \in Transfers, pio'.data \in Seq(From(Source(pio'))),
         TransferFits(end["controller"], pio')
  PROVE  ChannelInv'
<1>1. "guest" \in Ends
  BY DEF Ends
<1>2. Set("guest", end["guest"])
  BY <1>1, EndStays
<1>3. /\ end["guest"] \in EndStates /\ end["guest"].out \in Seq(From("guest"))
      /\ end["guest"].inq \in Seq(From(Peer("guest")))
  BY <1>1, EndFacts
<1>4. TransferFits(IF "guest" = "controller" THEN end["guest"] ELSE end["controller"], pio')
  OBVIOUS
<1> QED BY <1>1, <1>2, <1>3, <1>4, RecordsMove

LEMMA DeviceKeeps == ASSUME ChannelInv, DeviceWrites \/ DeviceReads PROVE ChannelInv'
<1> DEFINE g == end["guest"]
<1>0. "guest" \in Ends /\ "controller" \in Ends /\ Peer("guest") = "controller"
  BY DEF Ends, Peer
<1>1. /\ g \in EndStates /\ g.out \in Seq(From("guest")) /\ g.inq \in Seq(From("controller"))
      /\ g.out \in Seq(Records)
      /\ wire["guest"] \in Seq(From("guest")) /\ wire["controller"] \in Seq(From("controller"))
  BY <1>0, EndFacts DEF ChannelInv, RecordsAreGenuine, EndStates
<1>2. /\ UNCHANGED <<pio, closes, sent, received, pinned, bound>>
      /\ pio' \in Transfers /\ pio'.data \in Seq(From(Source(pio')))
      /\ TransferFits(end["controller"], pio')
  <2>1. UNCHANGED <<pio, closes, sent, received, pinned, bound>>
    BY DEF DeviceWrites, DeviceReads
  <2>2. /\ pio \in Transfers /\ pio.data \in Seq(From(Source(pio))) /\ TransferFits(end["controller"], pio)
    BY <1>0, EndFacts
  <2> QED BY <2>1, <2>2
<1>3. CASE DeviceWrites
  <2> DEFINE x == [g EXCEPT !.out = Tail(g.out)]
  <2>1. g.out # <<>> /\ Set("guest", x) /\ wire' = [wire EXCEPT !["guest"] = Append(@, Head(g.out))]
    BY <1>3 DEF DeviceWrites, WantsWrite
  <2>2. Append(wire["guest"], Head(g.out)) \in Seq(From("guest")) /\ Tail(g.out) \in Seq(From("guest"))
    BY <1>1, <2>1
  <2>3. /\ x \in EndStates /\ x.op = g.op /\ x.line = g.line /\ x.hs = g.hs /\ (x.ready <=> g.ready)
        /\ x.tx = g.tx /\ x.rx = g.rx /\ x.put = g.put /\ x.got = g.got /\ x.plain = g.plain
        /\ x.out = Tail(g.out) /\ x.inq = g.inq
    <3>1. Tail(g.out) \in Seq(Records)
      BY <1>1, <2>1
    <3> QED BY <1>1, <3>1 DEF EndStates
  <2> HIDE DEF x
  <2>4. \E d \in Ends : \E s \in Seq(From(d)) : wire' = [wire EXCEPT ![d] = s]
    <3>1. wire' = [wire EXCEPT !["guest"] = Append(wire["guest"], Head(g.out))]
      BY <2>1
    <3> HIDE DEF g
    <3> QED BY <1>0, <2>2, <3>1
  <2>5. TransferFits(IF "guest" = "controller" THEN x ELSE end["controller"], pio')
    BY <1>2
  <2> QED BY <1>0, <1>1, <1>2, <2>1, <2>2, <2>3, <2>4, <2>5, RecordsMove
<1>4. CASE DeviceReads
  <2> DEFINE r == Head(wire["controller"])
             x == [g EXCEPT !.inq = <<r>>]
  <2>1. /\ wire["controller"] # <<>> /\ Set("guest", x)
        /\ wire' = [wire EXCEPT !["controller"] = Tail(wire["controller"])]
    BY <1>4 DEF DeviceReads
  <2>2. <<r>> \in Seq(From("controller")) /\ Tail(wire["controller"]) \in Seq(From("controller"))
    BY <1>1, <2>1
  <2>3. /\ x \in EndStates /\ x.op = g.op /\ x.line = g.line /\ x.hs = g.hs /\ (x.ready <=> g.ready)
        /\ x.tx = g.tx /\ x.rx = g.rx /\ x.put = g.put /\ x.got = g.got /\ x.plain = g.plain
        /\ x.out = g.out /\ x.inq = <<r>>
    <3>1. <<r>> \in Seq(Records)
      <4>1. From("controller") \subseteq Records
        BY DEF From, Genuines
      <4> HIDE DEF r
      <4> QED BY <2>2, <4>1
    <3> QED BY <1>1, <3>1 DEF EndStates
  <2> HIDE DEF x
  <2>4. \E d \in Ends : \E s \in Seq(From(d)) : wire' = [wire EXCEPT ![d] = s]
    BY <1>0, <2>1, <2>2
  <2>5. TransferFits(IF "guest" = "controller" THEN x ELSE end["controller"], pio')
    BY <1>2
  <2>6. x.inq \in Seq(From(Peer("guest"))) /\ x.out \in Seq(From("guest"))
    BY <1>0, <1>1, <2>2, <2>3
  <2> QED BY <1>0, <1>2, <2>1, <2>3, <2>4, <2>5, <2>6, RecordsMove
<1> QED BY <1>3, <1>4

LEMMA GuestDisposes == ASSUME ChannelInv, DeviceDisposes PROVE ChannelInv'
<1> DEFINE g == end["guest"]
<1>0. "guest" \in Ends
  BY DEF Ends
<1>1. g \in EndStates /\ g.op = "dispose" /\ Follows("guest", g) /\ closes = 0
  <2>1. g.op = "dispose"
    BY DEF DeviceDisposes
  <2>2. g \in EndStates /\ Follows("guest", g)
    BY <1>0, EndFacts
  <2>3. closes = 0
    BY <2>1 DEF ChannelInv, DescriptorFollows
  <2> QED BY <2>1, <2>2, <2>3
<1>2. PICK line \in {"closed", "unknown"} : Set("guest", [g EXCEPT !.op = "done", !.line = line])
  BY DEF DeviceDisposes
<1> DEFINE x == [g EXCEPT !.op = "done", !.line = line]
<1>3. /\ x \in EndStates /\ x.op = "done" /\ x.out = g.out /\ x.inq = g.inq /\ x.tx = g.tx /\ x.rx = g.rx
  BY <1>1 DEF EndStates, EndOps, Lines
<1>4. ~x.ready
  BY <1>1 DEF EndStates, Follows
<1> HIDE DEF x
<1>5. Follows("guest", x)
  BY <1>1, <1>3, <1>4 DEF Follows
<1>6. /\ UNCHANGED <<wire, sent, received, pinned, bound>> /\ pio' = pio
      /\ closes' \in {0, 1}
  BY <1>1 DEF DeviceDisposes
<1>7. TransferFits(IF "guest" = "controller" THEN x ELSE end["controller"], pio')
  BY <1>0, <1>6, EndFacts
<1> QED BY <1>0, <1>2, <1>3, <1>5, <1>6, <1>7, EndTurns DEF x

(* A step of the controller's end of which the transfer is a part. *)
LEMMA ControllerMoves ==
  ASSUME ChannelInv, NEW x \in EndStates, Set("controller", x),
         UNCHANGED <<wire, closes, sent, received, pinned, bound>>,
         x.tx = end["controller"].tx, x.rx = end["controller"].rx, x.put = end["controller"].put,
         x.got = end["controller"].got, x.hs = end["controller"].hs,
         x.plain = end["controller"].plain,
         \/ /\ x.op = end["controller"].op /\ x.line = end["controller"].line
            /\ x.ready <=> end["controller"].ready
         \/ x.op \in {"dispose", "done"} /\ ~x.ready /\ (x.line = "closed" => x.op = "done"),
         x.out \in Seq(From("controller")), x.inq \in Seq(From("guest")),
         pio' \in Transfers, pio'.data \in Seq(From(Source(pio'))), TransferFits(x, pio')
  PROVE  ChannelInv'
<1>0. "controller" \in Ends /\ Peer("controller") = "guest"
  BY DEF Ends, Peer
<1>1. Follows("controller", end["controller"])
  BY <1>0, EndFacts
<1>2. Follows("controller", x)
  <2>1. CASE x.op = end["controller"].op /\ x.line = end["controller"].line /\ (x.ready <=> end["controller"].ready)
    BY <1>1, <2>1 DEF Follows
  <2>2. CASE x.op \in {"dispose", "done"} /\ ~x.ready /\ (x.line = "closed" => x.op = "done")
    BY <1>1, <2>2 DEF Follows
  <2> QED BY <2>1, <2>2
<1>3. closes' \in {0, 1} /\ ((IF "controller" = "guest" THEN x ELSE end["guest"]).op # "done" => closes' = 0)
  BY DEF ChannelInv, ChannelTyped, DescriptorFollows
<1>4. /\ x.out \in Seq(Genuines("controller", x.tx)) /\ x.inq \in Seq(From(Peer("controller")))
      /\ UNCHANGED wire /\ UNCHANGED <<pinned, bound>> /\ sent' = sent /\ received' = received
      /\ TransferFits(IF "controller" = "controller" THEN x ELSE end["controller"], pio')
  BY <1>0 DEF From
<1> QED BY <1>0, <1>2, <1>3, <1>4, EndMoves

LEMMA ControllerFacts ==
  ASSUME ChannelInv
  PROVE  /\ "controller" \in Ends /\ "guest" \in Ends
         /\ end["controller"] \in EndStates /\ Follows("controller", end["controller"])
         /\ end["controller"].out \in Seq(From("controller")) /\ end["controller"].inq \in Seq(From("guest"))
         /\ pio \in Transfers /\ pio.data \in Seq(From(Source(pio)))
         /\ TransferFits(end["controller"], pio)
         /\ wire["guest"] \in Seq(From("guest")) /\ wire["controller"] \in Seq(From("controller"))
<1>1. "controller" \in Ends /\ "guest" \in Ends /\ Peer("controller") = "guest"
  BY DEF Ends, Peer
<1> QED BY <1>1, EndFacts DEF ChannelInv, RecordsAreGenuine

LEMMA NoTransferFacts == NoTransfer \in Transfers /\ NoTransfer.data = <<>> /\ NoTransfer.at = "none"
BY DEF NoTransfer, Transfers

LEMMA SubmitKeeps == ASSUME ChannelInv, Submit PROVE ChannelInv'
<1> DEFINE c == end["controller"]
           write == WantsWrite("controller")
           data == IF write THEN <<Head(c.out)>> ELSE <<>>
<1>1. /\ UNCHANGED <<end, wire, closes, sent, received, pinned, bound>>
      /\ write \/ WantsRead("controller")
      /\ pio' = [at |-> "pending", write |-> write, data |-> data]
  BY DEF Submit
<1>2. c \in EndStates /\ c.out \in Seq(From("controller")) /\ TransferFits(c, pio) /\ Follows("controller", c)
  BY ControllerFacts
<1>3. write <=> c.op \in {"handshake", "send", "receive"} /\ c.out # <<>>
  BY DEF WantsWrite
<1>4. ~write => /\ c.op = "receive" \/ (c.op = "handshake" /\ ~c.ready)
                /\ c.out = <<>> /\ c.inq = <<>> /\ c.hs = 1
  BY <1>1 DEF WantsRead, Readable
<1>5. c.hs = 1 /\ c.line # "closed" /\ c.op \notin {"off", "open", "idle", "dispose", "done"}
  BY <1>2, <1>3, <1>4 DEF TransferFits, Follows, EndStates
<1>6. /\ write \in BOOLEAN
      /\ write => data \in Seq(From("controller")) /\ Len(data) = 1
      /\ ~write => data = <<>>
  <2>1. write \in BOOLEAN
    BY DEF WantsWrite
  <2>2. CASE write
    <3>1. Head(c.out) \in From("controller")
      BY <1>2, <1>3, <2>2
    <3> QED BY <2>1, <2>2, <3>1
  <2>3. CASE ~write
    BY <2>1, <2>3
  <2> QED BY <2>2, <2>3
<1>7. data \in Seq(Records)
  <2>1. From("controller") \subseteq Records
    BY DEF From, Genuines
  <2> QED BY <1>6, <2>1
<1> HIDE DEF data, write
<1>8. /\ pio' \in Transfers /\ pio'.at = "pending" /\ (pio'.write <=> write) /\ pio'.data = data
  BY <1>1, <1>6, <1>7 DEF Transfers
<1>9. pio'.data \in Seq(From(Source(pio')))
  <2>1. CASE write
    BY <2>1, <1>6, <1>8 DEF Source
  <2>2. CASE ~write
    BY <2>2, <1>6, <1>8
  <2> QED BY <2>1, <2>2
<1>10. TransferFits(c, pio')
  <2>1. CASE write
    BY <2>1, <1>2, <1>3, <1>5, <1>6, <1>8 DEF TransferFits
  <2>2. CASE ~write
    BY <2>2, <1>2, <1>4, <1>5, <1>8 DEF TransferFits
  <2> QED BY <2>1, <2>2
<1> QED BY <1>1, <1>8, <1>9, <1>10, LineMoves

LEMMA PollKeeps == ASSUME ChannelInv, Poll PROVE ChannelInv'
<1> DEFINE c == end["controller"]
<1>1. /\ Busy("controller") /\ pio.at = "done" /\ pio' = NoTransfer
      /\ UNCHANGED <<wire, closes, sent, received, pinned, bound>>
  BY DEF Poll
<1>2. /\ c \in EndStates /\ Follows("controller", c) /\ TransferFits(c, pio)
      /\ c.out \in Seq(From("controller")) /\ c.inq \in Seq(From("guest"))
      /\ pio \in Transfers /\ pio.data \in Seq(From(Source(pio)))
  BY ControllerFacts
<1>3. c.hs = 1 /\ c.op \in {"handshake", "send", "receive"} /\ c.line # "closed"
  BY <1>1, <1>2 DEF TransferFits, Busy, Follows
<1>4. pio' \in Transfers /\ pio'.data \in Seq(From(Source(pio'))) /\ pio'.at = "none"
  BY <1>1, NoTransferFacts
<1>5. CASE pio.write /\ Set("controller", [c EXCEPT !.out = Tail(c.out)])
  <2> DEFINE x == [c EXCEPT !.out = Tail(c.out)]
  <2>1. c.out # <<>> /\ c.op # "receive"
    BY <1>1, <1>2, <1>3, <1>5 DEF TransferFits
  <2>2. Tail(c.out) \in Seq(From("controller")) /\ Tail(c.out) \in Seq(Records)
    BY <1>2, <2>1 DEF EndStates
  <2>3. /\ x \in EndStates /\ x.op = c.op /\ x.line = c.line /\ x.hs = c.hs /\ (x.ready <=> c.ready)
        /\ x.tx = c.tx /\ x.rx = c.rx /\ x.put = c.put /\ x.got = c.got /\ x.plain = c.plain
        /\ x.out = Tail(c.out) /\ x.inq = c.inq
    BY <1>2, <2>2 DEF EndStates
  <2>4. Set("controller", x)
    BY <1>5
  <2> HIDE DEF x
  <2>5. TransferFits(x, pio')
    BY <1>3, <1>4, <2>1, <2>3 DEF TransferFits
  <2> QED BY <1>1, <1>2, <1>4, <2>2, <2>3, <2>4, <2>5, ControllerMoves
<1>6. CASE ~pio.write /\ Set("controller", [c EXCEPT !.inq = pio.data])
  <2> DEFINE x == [c EXCEPT !.inq = pio.data]
  <2>1. pio.data \in Seq(From("guest")) /\ pio.data \in Seq(Records) /\ c.out = <<>>
    BY <1>1, <1>2, <1>3, <1>6 DEF TransferFits, Source, Transfers
  <2>2. /\ x \in EndStates /\ x.op = c.op /\ x.line = c.line /\ x.hs = c.hs /\ (x.ready <=> c.ready)
        /\ x.tx = c.tx /\ x.rx = c.rx /\ x.put = c.put /\ x.got = c.got /\ x.plain = c.plain
        /\ x.out = c.out /\ x.inq = pio.data
    BY <1>2, <2>1 DEF EndStates
  <2>3. Set("controller", x)
    BY <1>6
  <2> HIDE DEF x
  <2>4. TransferFits(x, pio')
    BY <1>3, <1>4, <2>1, <2>2 DEF TransferFits
  <2> QED BY <1>1, <1>2, <1>4, <2>1, <2>2, <2>3, <2>4, ControllerMoves
<1>7. CASE Set("controller", [c EXCEPT !.op = "done", !.line = "unknown", !.ready = FALSE])
  <2> DEFINE x == [c EXCEPT !.op = "done", !.line = "unknown", !.ready = FALSE]
  <2>1. /\ x \in EndStates /\ x.op = "done" /\ x.line = "unknown" /\ x.hs = c.hs
        /\ x.tx = c.tx /\ x.rx = c.rx /\ x.put = c.put /\ x.got = c.got /\ x.plain = c.plain
        /\ x.out = c.out /\ x.inq = c.inq
    BY <1>2 DEF EndStates, EndOps, Lines
  <2>2. ~x.ready
    BY <1>2 DEF EndStates
  <2>3. Set("controller", x)
    BY <1>7
  <2> HIDE DEF x
  <2>4. TransferFits(x, pio')
    BY <1>3, <1>4, <2>1 DEF TransferFits
  <2> QED BY <1>1, <1>2, <1>4, <2>1, <2>2, <2>3, <2>4, ControllerMoves
<1> QED BY <1>5, <1>6, <1>7 DEF Poll

(* The controller's end finishes, or is looked at once more by its owner. *)
LEMMA ControllerEnds ==
  ASSUME ChannelInv, NEW op \in {"done", "dispose"}, NEW line \in Lines,
         Set("controller", [end["controller"] EXCEPT !.op = op, !.line = line]),
         UNCHANGED <<wire, closes, sent, received, pinned, bound>>,
         end["controller"].op \in {"dispose", "done"},
         pio' = pio \/ pio' = NoTransfer,
         line = "closed" => op = "done" /\ pio' = NoTransfer,
         op = "done" /\ pio'.at # "none" => line = "unknown"
  PROVE  ChannelInv'
<1> DEFINE c == end["controller"]
           x == [c EXCEPT !.op = op, !.line = line]
<1>1. /\ c \in EndStates /\ Follows("controller", c) /\ TransferFits(c, pio)
      /\ c.out \in Seq(From("controller")) /\ c.inq \in Seq(From("guest"))
      /\ pio \in Transfers /\ pio.data \in Seq(From(Source(pio)))
  BY ControllerFacts
<1>2. /\ x \in EndStates /\ x.op = op /\ x.line = line /\ x.hs = c.hs
      /\ x.tx = c.tx /\ x.rx = c.rx /\ x.put = c.put /\ x.got = c.got /\ x.plain = c.plain
      /\ x.out = c.out /\ x.inq = c.inq
  BY <1>1 DEF EndStates, EndOps
<1>3. ~x.ready
  BY <1>1 DEF EndStates, Follows
<1>4. Set("controller", x)
  OBVIOUS
<1> HIDE DEF x
<1>5. pio' \in Transfers /\ pio'.data \in Seq(From(Source(pio')))
  <2>1. CASE pio' = NoTransfer
    BY <2>1, NoTransferFacts
  <2>2. CASE pio' = pio
    BY <2>2, <1>1
  <2> QED BY <2>1, <2>2
<1>6. TransferFits(x, pio')
  <2>1. CASE pio' = NoTransfer
    BY <2>1, <1>1, <1>2, NoTransferFacts DEF TransferFits
  <2>2. CASE pio' = pio
    BY <2>2, <1>1, <1>2, NoTransferFacts DEF TransferFits
  <2> QED BY <2>1, <2>2
<1>7. x.line = "closed" => x.op = "done"
  BY <1>2
<1> QED BY <1>1, <1>2, <1>3, <1>4, <1>5, <1>6, <1>7, ControllerMoves

LEMMA PipeKeeps == ASSUME ChannelInv, PipeDisposes \/ CloseAgain PROVE ChannelInv'
<1> DEFINE c == end["controller"]
<1>1. /\ UNCHANGED <<wire, closes, sent, received, pinned, bound>> /\ c.op \in {"dispose", "done"}
      /\ "closed" \in Lines /\ "unknown" \in Lines
  BY DEF PipeDisposes, CloseAgain, Lines
<1>2. CASE PipeDisposes
  <2>1. PICK line \in {"closed", "unknown"} :
          /\ Set("controller", [c EXCEPT !.op = "done", !.line = line])
          /\ pio' = NoTransfer \/ (line = "unknown" /\ pio' = pio)
    BY <1>2 DEF PipeDisposes, AfterDrainTimeout
  <2>2. line = "closed" => pio' = NoTransfer
    BY <2>1
  <2>3. pio'.at # "none" => line = "unknown"
    BY <2>1, NoTransferFacts
  <2> QED BY <1>1, <2>1, <2>2, <2>3, ControllerEnds
<1>3. CASE CloseAgain
  <2> DEFINE x == [c EXCEPT !.op = "dispose", !.line = "unknown"]
  <2>1. c \in EndStates /\ c.line = "unknown" /\ Set("controller", [c EXCEPT !.op = "dispose"]) /\ pio' = pio
    BY <1>3, ControllerFacts DEF CloseAgain
  <2>2. x = [c EXCEPT !.op = "dispose"]
    BY <2>1 DEF EndStates
  <2> QED BY <1>1, <2>1, <2>2, ControllerEnds
<1> QED BY <1>2, <1>3

LEMMA KernelKeeps == ASSUME ChannelInv, KernelCompletes PROVE ChannelInv'
<1> DEFINE c == end["controller"]
<1>1. UNCHANGED <<end, sent, received, pinned, bound, closes>> /\ pio.at = "pending"
  BY DEF KernelCompletes
<1>2. /\ c \in EndStates /\ TransferFits(c, pio)
      /\ pio \in Transfers /\ pio.data \in Seq(From(Source(pio)))
      /\ wire["guest"] \in Seq(From("guest")) /\ wire["controller"] \in Seq(From("controller"))
      /\ "controller" \in Ends /\ "guest" \in Ends
  BY ControllerFacts
<1>3. ASSUME NEW p \in Transfers, pio' = p, p.at = "done", p.write <=> pio.write,
             p.data \in Seq(From(Source(pio))), pio.write => p.data = pio.data
      PROVE  /\ pio' \in Transfers /\ pio'.data \in Seq(From(Source(pio')))
             /\ TransferFits(c, pio')
  <2>1. Source(p) = Source(pio)
    BY <1>3 DEF Source
  <2>2. TransferFits(c, p)
    BY <1>1, <1>2, <1>3 DEF TransferFits
  <2> QED BY <1>3, <2>1, <2>2
<1>4. CASE /\ pio.write /\ wire' = [wire EXCEPT !["controller"] = Append(@, pio.data[1])]
           /\ pio' = [pio EXCEPT !.at = "done"]
  <2> DEFINE p == [pio EXCEPT !.at = "done"]
  <2>1. p \in Transfers /\ p.at = "done" /\ (p.write <=> pio.write) /\ p.data = pio.data
    BY <1>2 DEF Transfers
  <2> HIDE DEF p
  <2>2. /\ pio' \in Transfers /\ pio'.data \in Seq(From(Source(pio'))) /\ TransferFits(c, pio')
    BY <1>2, <1>3, <1>4, <2>1 DEF p
  <2>3. Append(wire["controller"], pio.data[1]) \in Seq(From("controller"))
    <3>1. Len(pio.data) = 1 /\ pio.data \in Seq(From("controller"))
      BY <1>1, <1>2, <1>4 DEF TransferFits, Source
    <3> QED BY <1>2, <3>1
  <2>4. \E d \in Ends : \E s \in Seq(From(d)) : wire' = [wire EXCEPT ![d] = s]
    BY <1>2, <1>4, <2>3
  <2> QED BY <1>1, <2>2, <2>4, LineMoves
<1>5. CASE /\ ~pio.write /\ wire["guest"] # <<>> /\ wire' = [wire EXCEPT !["guest"] = Tail(@)]
           /\ pio' = [pio EXCEPT !.at = "done", !.data = <<Head(wire["guest"])>>]
  <2> DEFINE data == <<Head(wire["guest"])>>
             p == [pio EXCEPT !.at = "done", !.data = data]
  <2>1. data \in Seq(From("guest")) /\ Tail(wire["guest"]) \in Seq(From("guest"))
    BY <1>2, <1>5
  <2>2. data \in Seq(Records)
    <3>1. From("guest") \subseteq Records
      BY DEF From, Genuines
    <3> HIDE DEF data
    <3> QED BY <2>1, <3>1
  <2> HIDE DEF data
  <2>3. p \in Transfers /\ p.at = "done" /\ (p.write <=> pio.write) /\ p.data = data
    BY <1>2, <2>2 DEF Transfers
  <2>4. pio' = p
    BY <1>5 DEF data
  <2> HIDE DEF p
  <2>5. p.data \in Seq(From(Source(pio)))
    BY <1>5, <2>1, <2>3 DEF Source
  <2>6. /\ pio' \in Transfers /\ pio'.data \in Seq(From(Source(pio'))) /\ TransferFits(c, pio')
    BY <1>3, <1>5, <2>3, <2>4, <2>5
  <2>7. \E d \in Ends : \E s \in Seq(From(d)) : wire' = [wire EXCEPT ![d] = s]
    BY <1>2, <1>5, <2>1
  <2> QED BY <1>1, <2>6, <2>7, LineMoves
<1>6. CASE pio' = [pio EXCEPT !.at = "done"] /\ UNCHANGED wire
  <2> DEFINE p == [pio EXCEPT !.at = "done"]
  <2>1. p \in Transfers /\ p.at = "done" /\ (p.write <=> pio.write) /\ p.data = pio.data
    BY <1>2 DEF Transfers
  <2> HIDE DEF p
  <2>2. /\ pio' \in Transfers /\ pio'.data \in Seq(From(Source(pio'))) /\ TransferFits(c, pio')
    BY <1>2, <1>3, <1>6, <2>1 DEF p
  <2> QED BY <1>1, <1>6, <2>2, LineMoves
<1> QED BY <1>4, <1>5, <1>6 DEF KernelCompletes

LEMMA LineKeeps == ASSUME ChannelInv, LineFault PROVE ChannelInv'
<1>1. UNCHANGED <<end, pio, closes, sent, received, pinned, bound>>
  BY DEF LineFault
<1>2. PICK e \in Ends :
        /\ wire[e] # <<>>
        /\ \/ wire' = [wire EXCEPT ![e] = Tail(wire[e])]
           \/ wire' = [wire EXCEPT ![e] = <<Head(wire[e])>> \o wire[e]]
           \/ wire' = [wire EXCEPT ![e] = <<[n |-> 0, body |-> <<"x", 0, 0>>]>> \o wire[e]]
  BY DEF LineFault
<1>3. wire[e] \in Seq(From(e))
  BY DEF ChannelInv, RecordsAreGenuine
<1>4. [n |-> 0, body |-> <<"x", 0, 0>>] \in From(e)
  BY DEF From, Genuines, Records
<1>5. /\ Tail(wire[e]) \in Seq(From(e)) /\ <<Head(wire[e])>> \o wire[e] \in Seq(From(e))
      /\ <<[n |-> 0, body |-> <<"x", 0, 0>>]>> \o wire[e] \in Seq(From(e))
  BY <1>2, <1>3, <1>4
<1>6. \E d \in Ends : \E s \in Seq(From(d)) : wire' = [wire EXCEPT ![d] = s]
  BY <1>2, <1>5
<1>7. pio' \in Transfers /\ pio'.data \in Seq(From(Source(pio'))) /\ TransferFits(end["controller"], pio')
  BY <1>1, ControllerFacts
<1> QED BY <1>1, <1>6, <1>7, LineMoves

LEMMA ChannelStepKeeps == ASSUME ChannelInv, SerialStep \/ SerialAround PROVE ChannelInv'
<1>1. "controller" \in Ends /\ "guest" \in Ends
  BY DEF Ends
<1>2. CASE SerialStep
  BY <1>1, <1>2, HandshakeKeeps, ReturnsKeep, TakeKeeps, GivenUpKeeps, OpenedKeeps, DeviceKeeps, GuestDisposes,
     SubmitKeeps, PollKeeps, PipeKeeps
  DEF SerialStep, EndStep, OpenPipe, OpenTty
<1>3. CASE SerialAround
  BY <1>3, SendKeeps, ReturnsKeep, GivenUpKeeps, PipeKeeps, KernelKeeps, LineKeeps DEF SerialAround
<1> QED BY <1>2, <1>3

LEMMA ChannelInitially == Init => ChannelInv
<1> SUFFICES ASSUME Init PROVE ChannelInv
  OBVIOUS
<1>1. PICK op \in {"open", "off"} : SerialInit(op)
  BY DEF Init
<1>2. pinned \in [Ends -> BOOLEAN] /\ bound \in BOOLEAN
  BY DEF Init
<1>3. /\ end = [e \in Ends |-> NewEnd(op)] /\ wire = [e \in Ends |-> <<>>] /\ pio = NoTransfer /\ closes = 0
      /\ sent = [e \in Ends |-> <<>>] /\ received = [e \in Ends |-> <<>>]
  BY <1>1 DEF SerialInit
<1> DEFINE x == NewEnd(op)
<1>4. /\ x \in EndStates /\ x.op = op /\ x.line = "none" /\ x.hs = 0 /\ x.out = <<>> /\ x.inq = <<>>
      /\ x.got = 0 /\ x.put = 0 /\ x.plain = 0 /\ x.tx = 0 /\ x.rx = 0
  BY DEF NewEnd, EndStates, EndOps, Lines
<1>5. ~x.ready
  BY DEF NewEnd
<1> HIDE DEF x
<1>6. \A e \in Ends : end[e] = x /\ wire[e] = <<>> /\ sent[e] = <<>> /\ received[e] = <<>>
  BY <1>3 DEF x
<1>7. ChannelTyped
  <2>1. end \in [Ends -> EndStates]
    BY <1>3, <1>4 DEF x
  <2> QED BY <1>2, <1>3, <2>1, NoTransferFacts DEF ChannelTyped
<1>8. RecordsAreGenuine
  <2>1. pio.data = <<>>
    BY <1>3, NoTransferFacts
  <2>2. \A e \in Ends : end[e].out = <<>> /\ wire[e] = <<>> /\ end[e].inq = <<>>
    BY <1>4, <1>6
  <2>3. pio.data \in Seq(From(Source(pio)))
    BY <2>1
  <2>4. ASSUME NEW e \in Ends
        PROVE  end[e].out \in Seq(From(e)) /\ wire[e] \in Seq(From(e)) /\ end[e].inq \in Seq(From(Peer(e)))
    <3>1. end[e].out = <<>> /\ wire[e] = <<>> /\ end[e].inq = <<>>
      BY <2>2
    <3> QED BY <3>1
  <2> QED BY <2>3, <2>4 DEF RecordsAreGenuine
<1>9. SessionFollows
  <2>1. Counted(0) = <<>>
    BY CountedFacts
  <2>2. \A e \in Ends : Follows(e, x)
    BY <1>4, <1>5 DEF Follows
  <2> QED BY <1>4, <1>6, <2>1, <2>2, PeerIsOther DEF SessionFollows
<1>10. DescriptorFollows
  <2>1. "controller" \in Ends
    BY DEF Ends
  <2> QED BY <1>3, <1>4, <1>6, <2>1, NoTransferFacts DEF DescriptorFollows, TransferFits
<1> QED BY <1>7, <1>8, <1>9, <1>10 DEF ChannelInv

(* The inductive invariant of the two ends and the line: what is buffered,  *)
(* on the wire or being given out is genuine and in sequence, and the       *)
(* descriptor of the guest is closed by the one transfer that owns it.      *)
THEOREM ChannelCorrect == Spec => []ChannelInv
<1>1. ChannelInv /\ [Next]_vars => ChannelInv'
  <2> SUFFICES ASSUME ChannelInv, [Next]_vars PROVE ChannelInv'
    OBVIOUS
  <2>1. SerialStep \/ SerialAround \/ UNCHANGED serialVars
    BY DEF Next, ProgramStep, Around, ClockNext, restVars, vars
  <2> QED BY <2>1, ChannelStepKeeps, NothingMoves
<1> QED BY <1>1, ChannelInitially, PTL DEF Spec

(* Whatever the line drops, repeats or invents, and wherever calls, I/O    *)
(* and cleanup fail, an end is given the other end's messages in order,    *)
(* each once, under pin and binding; no buffer is released while the       *)
(* kernel may use it; the guest closes once (bounded_tls_pipe.py,          *)
(* serial_pipe_io.py, guest/serial_device_io.py,                           *)
(* maintenance_tls_prototype.py).                                          *)
THEOREM ChannelEarned == Spec => []ChannelIsHonest
<1>1. ASSUME ChannelInv PROVE ChannelIsHonest
  <2>1. ASSUME NEW e \in Ends
        PROVE  /\ IsPrefix(received[e], sent[Peer(e)])
               /\ sent[e] # <<>> \/ end[e].ready => pinned[e]
               /\ received[e] # <<>> => bound /\ pinned[Peer(e)]
    <3> DEFINE d == Peer(e)
    <3>1. /\ end[e] \in EndStates /\ end[d] \in EndStates /\ Follows(e, end[e]) /\ Follows(d, end[d])
          /\ sent[e] = Counted(end[e].tx) /\ received[e] = Counted(end[e].rx) /\ sent[d] = Counted(end[d].tx)
          /\ end[e].rx <= end[d].tx
      BY <1>1, PeerIsOther, EndFacts DEF ChannelInv, SessionFollows
    <3> HIDE DEF d
    <3>2. end[e].rx \in Nat /\ end[d].tx \in Nat /\ end[e].tx \in Nat
      BY <3>1 DEF EndStates
    <3>3. IsPrefix(received[e], sent[d])
      <4> DEFINE r == received[e]
                 s == sent[d]
                 k == end[e].rx
      <4>1. /\ r \in Seq(Nat) /\ Len(r) = k /\ s \in Seq(Nat) /\ Len(s) = end[d].tx
            /\ \A i \in 1..k : r[i] = i - 1 /\ s[i] = i - 1
        <5>1. /\ r = Counted(k) /\ s = Counted(end[d].tx) /\ k \in Nat /\ k <= end[d].tx
          BY <3>1, <3>2
        <5>2. /\ r \in Seq(Nat) /\ Len(r) = k /\ s \in Seq(Nat) /\ Len(s) = end[d].tx
          BY <3>2, <5>1, CountedFacts
        <5> HIDE DEF r, s, k
        <5>3. \A i \in 1..k : r[i] = i - 1 /\ s[i] = i - 1
          BY <3>2, <5>1 DEF Counted
        <5> QED BY <5>2, <5>3
      <4> HIDE DEF r, s, k
      <4>2. k \in Nat /\ k <= Len(s)
        BY <3>1, <3>2, <4>1 DEF k
      <4>3. SubSeq(s, 1, k) = SubSeq(r, 1, k)
        BY <4>1, <4>2
      <4> QED BY <4>1, <4>2, <4>3 DEF IsPrefix, r, s
    <3>4. sent[e] # <<>> \/ end[e].ready => pinned[e]
      <4>1. Counted(0) = <<>>
        BY CountedFacts
      <4> QED BY <3>1, <3>2, <4>1 DEF Follows
    <3>5. received[e] # <<>> => bound /\ pinned[d]
      <4>1. Counted(0) = <<>>
        BY CountedFacts
      <4>2. received[e] # <<>> => end[e].rx > 0 /\ end[d].tx > 0
        BY <3>1, <3>2, <4>1
      <4> QED BY <3>1, <4>2 DEF Follows
    <3> QED BY <3>3, <3>4, <3>5 DEF d
  <2>2. /\ end["controller"].line = "closed" => pio.at = "none"
        /\ end["controller"].op = "done" /\ pio.at # "none" => end["controller"].line = "unknown"
    BY <1>1 DEF ChannelInv, DescriptorFollows, TransferFits
  <2>3. closes <= 1
    BY <1>1 DEF ChannelInv, ChannelTyped
  <2> QED BY <2>1, <2>2, <2>3 DEF ChannelIsHonest
<1> QED BY <1>1, ChannelCorrect, PTL

-----------------------------------------------------------------------------
(* The machine an image is installed in: ImagePreparation.                 *)

Ops == {"attach", "launch", "retire"}
Phases == {"idle", "guard", "inputs", "claim", "mark", "command", "settle", "release"}
Statuses == {"none", "provisioning_unknown", "created_not_started", "seed_attach_unknown",
             "created_seed_attached_not_started", "launch_unknown",
             "installer_vm_started_not_reviewed", "retirement_unknown", "retired_vm_disk_retained"}

Machines == [vm : {"absent", "bare", "off", "running"}, seeds : {0, 1}, disk : BOOLEAN, starts : {0, 1}]
Calls == [op : Ops \cup {"create", "none"}, at : Phases, record : Statuses]

(* A creation at work, and any other call that has the guard. *)
Creating(c) == call[c].op = "create" /\ call[c].at # "idle"
Working(c) == call[c].op # "create" /\ call[c].at \notin {"idle", "guard"}
Engaged(c) == Creating(c) \/ Working(c)

PreparationTyped ==
  /\ manifest \in Statuses /\ pending \in BOOLEAN /\ claims \subseteq {"launch", "retire"}
  /\ lock \in Operators \cup {"none", "left"} /\ host \in Machines /\ call \in [Operators -> Calls]

CallTyped(c) ==
  /\ call[c].op = "none" => call[c].at = "idle"
  /\ Creating(c) => call[c].at \in {"command", "settle"}
  /\ call[c].at = "claim" => call[c].op # "attach"
  /\ call[c].op \in Ops => call[c].record \in Eligible(call[c].op)

(* Whoever works has the guard, and nobody works beside a creation. *)
Alone(c) ==
  /\ Working(c) => lock = c
  /\ Creating(c) => \A d \in Operators : d # c => call[d].at = "idle"

(* How far the manifest is along with the call that has the guard. *)
ManifestFollows(c) ==
  /\ Creating(c) => manifest = "provisioning_unknown"
  /\ Working(c) =>
       /\ call[c].at \in {"claim", "mark"} => manifest = call[c].record
       /\ call[c].at \in {"command", "settle"} => manifest = Unknown(call[c].op)
       /\ call[c].at \in {"mark", "command", "settle"} /\ call[c].op = "launch" => "launch" \in claims

(* What a command finds on the host and leaves there until it is recorded. *)
HostFollows(c) ==
  /\ Creating(c) /\ call[c].at = "settle" => host.vm = "off"
  /\ Working(c) =>
       /\ call[c].op = "attach" /\ call[c].at = "settle" => host.seeds = 1
       /\ call[c].op = "launch" /\ call[c].at = "command" => host.starts = 0
       /\ call[c].op = "launch" /\ call[c].at = "settle" =>
            host.vm \in {"off", "running"} /\ host.starts = 1
       /\ call[c].op = "retire" /\ call[c].at = "settle" => host.vm = "absent" /\ host.disk

CallFits(c) == CallTyped(c) /\ Alone(c) /\ ManifestFollows(c) /\ HostFollows(c)

(* What each status means. *)
StatusHolds ==
  /\ host.starts = 1 => "launch" \in claims
  /\ manifest \in {"none", "provisioning_unknown", "created_not_started"} => host.seeds = 0
  /\ manifest \in {"none", "provisioning_unknown", "created_not_started", "seed_attach_unknown",
                   "created_seed_attached_not_started"} => host.starts = 0
  /\ manifest \in {"created_not_started", "seed_attach_unknown", "created_seed_attached_not_started"}
       => host.vm = "off"
  /\ manifest = "created_seed_attached_not_started" => host.seeds = 1
  /\ manifest = "installer_vm_started_not_reviewed" => host.vm \in {"off", "running"} /\ host.starts = 1
  /\ manifest = "retired_vm_disk_retained" => host.vm = "absent" /\ host.disk

PreparationInv == PreparationTyped /\ StatusHolds /\ \A c \in Operators : CallFits(c)

(* No two calls are engaged at once. *)
LEMMA EngagedAlone ==
  ASSUME PreparationInv, NEW c \in Operators, NEW d \in Operators, Engaged(c), d # c
  PROVE  call[d].at \in {"idle", "guard"} /\ ~Engaged(d)
<1>1. CallFits(c) /\ CallFits(d)
  BY DEF PreparationInv
<1>2. CASE Creating(c)
  BY <1>1, <1>2 DEF CallFits, Alone, Engaged, Creating, Working
<1>3. CASE Working(c)
  <2>1. lock = c /\ ~Creating(d)
    BY <1>1, <1>3 DEF CallFits, Alone, Creating, Working
  <2>2. ~Working(d)
    BY <1>1, <2>1 DEF CallFits, Alone
  <2> QED BY <1>1, <2>1, <2>2 DEF Engaged, Creating, Working, CallFits, CallTyped
<1> QED BY <1>2, <1>3 DEF Engaged

(* A step of a busy call concerns no other call. *)
LEMMA CallMoves ==
  ASSUME PreparationInv, NEW c \in Operators, Engaged(c),
         PreparationTyped', StatusHolds', CallFits(c)',
         \A d \in Operators : d # c => call'[d] = call[d]
  PROVE  PreparationInv'
<1>1. ASSUME NEW d \in Operators, d # c PROVE CallFits(d)'
  <2>1. call[d].at \in {"idle", "guard"} /\ ~Engaged(d) /\ CallFits(d) /\ call'[d] = call[d]
    BY <1>1, EngagedAlone DEF PreparationInv
  <2>2. ~Creating(d)' /\ ~Working(d)'
    BY <2>1 DEF Engaged, Creating, Working
  <2> QED BY <2>1, <2>2 DEF CallFits, CallTyped, Alone, ManifestFollows, HostFollows
<1> QED BY <1>1 DEF PreparationInv

LEMMA ContinuesIs ==
  ASSUME PreparationInv, NEW c \in Operators, NEW to \in Phases, Continues(c, to)
  PROVE  /\ call' \in [Operators -> Calls]
         /\ call'[c].op = call[c].op /\ call'[c].record = call[c].record /\ call'[c].at = to
         /\ \A d \in Operators : d # c => call'[d] = call[d]
<1>1. call \in [Operators -> Calls] /\ call' = [call EXCEPT ![c].at = to]
  BY DEF PreparationInv, PreparationTyped, Continues
<1>2. [call[c] EXCEPT !.at = to] \in Calls
  BY <1>1 DEF Calls
<1>3. call' = [call EXCEPT ![c] = [call[c] EXCEPT !.at = to]]
  BY <1>1
<1>4. call'[c] = [call[c] EXCEPT !.at = to] /\ call[c] \in Calls
  BY <1>1, <1>3
<1>5. call'[c].op = call[c].op /\ call'[c].record = call[c].record /\ call'[c].at = to
  BY <1>4 DEF Calls
<1>6. call' \in [Operators -> Calls] /\ \A d \in Operators : d # c => call'[d] = call[d]
  BY <1>1, <1>2, <1>3
<1> QED BY <1>5, <1>6

LEMMA IdleIs ==
  ASSUME PreparationInv, NEW c \in Operators, call' = [call EXCEPT ![c] = Idle]
  PROVE  /\ call' \in [Operators -> Calls] /\ call'[c].op = "none" /\ call'[c].at = "idle" /\ CallFits(c)'
         /\ \A d \in Operators : d # c => call'[d] = call[d]
<1>1. Idle \in Calls /\ Idle.op = "none" /\ Idle.at = "idle"
  BY DEF Idle, Calls, Ops, Phases, Statuses
<1>2. call \in [Operators -> Calls]
  BY DEF PreparationInv, PreparationTyped
<1>3. /\ call' \in [Operators -> Calls] /\ call'[c].op = "none" /\ call'[c].at = "idle"
      /\ \A d \in Operators : d # c => call'[d] = call[d]
  BY <1>1, <1>2
<1>4. ~Creating(c)' /\ ~Working(c)'
  BY <1>3 DEF Creating, Working
<1> QED BY <1>3, <1>4 DEF CallFits, CallTyped, Alone, ManifestFollows, HostFollows, Ops

(* A busy call comes to its end, with the guard still to be released. *)
LEMMA GivesUpIs ==
  ASSUME PreparationInv, NEW c \in Operators, Engaged(c), UNCHANGED lock,
         Continues(c, GivesUp(c)) \/ (Working(c) /\ Continues(c, "release"))
  PROVE  CallFits(c)'
<1> DEFINE to == IF Creating(c) THEN "idle" ELSE "release"
<1>1. to \in Phases /\ Continues(c, to)
  BY DEF Phases, GivesUp, Engaged, Creating, Working
<1>2. call'[c].op = call[c].op /\ call'[c].record = call[c].record /\ call'[c].at = to
  BY <1>1, ContinuesIs
<1>3. CallFits(c)
  BY DEF PreparationInv
<1>4. ~Creating(c)' /\ (Working(c)' => Working(c)) /\ call'[c].at \in {"idle", "release"}
  BY <1>2 DEF Creating, Working, Engaged
<1>5. CallTyped(c)'
  BY <1>2, <1>3, <1>4 DEF CallFits, CallTyped, Working, Creating, Eligible, Engaged
<1>6. Alone(c)' /\ ManifestFollows(c)' /\ HostFollows(c)'
  BY <1>3, <1>4 DEF CallFits, Alone, ManifestFollows, HostFollows
<1> QED BY <1>5, <1>6 DEF CallFits

(* The creation registers the machine and its disk, or takes back any part. *)
LEMMA PrepareVmEffect ==
  PrepareVm.ready /\ (host' = PrepareVm.done \/ host' \in PrepareVm.broken) =>
    /\ host.vm = "absent"
    /\ \/ host' = [host EXCEPT !.vm = "off", !.disk = TRUE]
       \/ \E vm \in {"absent", "bare", "off"}, disk \in BOOLEAN :
            host' = [host EXCEPT !.vm = vm, !.disk = disk]
<1> DEFINE whole == [host EXCEPT !.vm = "off", !.disk = TRUE]
           part(vm, disk) == [host EXCEPT !.vm = vm, !.disk = disk]
           parts == {part(vm, disk) : vm \in {"absent", "bare", "off"}, disk \in BOOLEAN}
           ready == host.vm = "absent" /\ ~host.disk
<1>1. PrepareVm = [ready |-> ready, done |-> whole, broken |-> parts]
  BY DEF PrepareVm
<1> HIDE DEF whole, part, ready
<1>2. \A x \in parts : \E vm \in {"absent", "bare", "off"}, disk \in BOOLEAN : x = part(vm, disk)
  OBVIOUS
<1> HIDE DEF parts
<1>3. PrepareVm.ready /\ (host' = PrepareVm.done \/ host' \in PrepareVm.broken) =>
        (host' = whole \/ host' \in parts) /\ ready
  BY <1>1
<1> QED BY <1>2, <1>3 DEF whole, part, ready

(* What a command at work may make of the host. *)
LEMMA ScriptEffect ==
  ASSUME PreparationInv, NEW c \in Operators, Is(c, "command"), Script(call[c].op).ready,
         host' = Script(call[c].op).done \/ host' \in Script(call[c].op).broken
  PROVE  /\ host' \in Machines
         /\ CASE call[c].op = "create" ->
                   /\ host'.seeds = host.seeds /\ host'.starts = host.starts
                   /\ host' = Script("create").done => host'.vm = "off"
              [] call[c].op = "attach" ->
                   /\ host'.vm = host.vm /\ host'.starts = host.starts
                   /\ host' = Script("attach").done => host'.seeds = 1
              [] call[c].op = "launch" ->
                   /\ host'.seeds = host.seeds
                   /\ host' = Script("launch").done => host'.vm \in {"off", "running"} /\ host'.starts = 1
              [] call[c].op = "retire" ->
                   /\ host'.seeds = host.seeds /\ host'.starts = host.starts
                   /\ host' = Script("retire").done => host'.vm = "absent" /\ host'.disk
<1>0. /\ host \in Machines /\ call[c].op \in Ops \cup {"create", "none"} /\ CallFits(c)
  BY DEF PreparationInv, PreparationTyped, Calls
<1>1. Engaged(c) /\ call[c].op # "none"
  BY <1>0 DEF CallFits, CallTyped, Is, Engaged, Creating, Working
<1>2. CASE call[c].op = "create"
  <2>1. \/ host' = [host EXCEPT !.vm = "off", !.disk = TRUE]
        \/ \E vm \in {"absent", "bare", "off"}, disk \in BOOLEAN : host' = [host EXCEPT !.vm = vm, !.disk = disk]
    <3>1. Script(call[c].op) = PrepareVm
      BY <1>2 DEF Script
    <3> QED BY <3>1, PrepareVmEffect
  <2>2. host' \in Machines /\ host'.seeds = host.seeds /\ host'.starts = host.starts
    BY <1>0, <2>1 DEF Machines
  <2>3. host' = Script("create").done => host'.vm = "off"
    <3> DEFINE parts == {[host EXCEPT !.vm = vm, !.disk = disk] :
                           vm \in {"absent", "bare", "off"}, disk \in BOOLEAN}
               ready == host.vm = "absent" /\ ~host.disk
    <3>a. PrepareVm = [ready |-> ready, done |-> [host EXCEPT !.vm = "off", !.disk = TRUE], broken |-> parts]
      BY DEF PrepareVm
    <3>b. Script("create") = PrepareVm
      BY DEF Script
    <3> HIDE DEF parts, ready
    <3>1. Script("create").done = [host EXCEPT !.vm = "off", !.disk = TRUE]
      BY <3>a, <3>b
    <3>2. [host EXCEPT !.vm = "off", !.disk = TRUE].vm = "off"
      BY <1>0 DEF Machines
    <3> QED BY <3>1, <3>2
  <2> QED BY <1>2, <2>2, <2>3
<1>3. CASE call[c].op = "attach"
  <2>1. host.seeds = 0 /\ (host' = host \/ host' = [host EXCEPT !.seeds = host.seeds + 1])
    BY <1>3 DEF Script, AttachSeed
  <2>2. host' \in Machines /\ host'.vm = host.vm /\ host'.starts = host.starts
    BY <1>0, <2>1 DEF Machines
  <2>3. host' = Script("attach").done => host'.seeds = 1
    BY <1>0, <2>1 DEF Machines, Script, AttachSeed
  <2> QED BY <1>3, <2>2, <2>3
<1>4. CASE call[c].op = "launch"
  <2>1. host.starts = 0
    BY <1>0, <1>1, <1>4 DEF CallFits, HostFollows, Is, Engaged, Creating
  <2>2. host' = host \/ host' = [host EXCEPT !.vm = "running", !.starts = host.starts + 1]
    BY <1>4 DEF Script, LaunchVm
  <2> DEFINE started == [host EXCEPT !.vm = "running", !.starts = 1]
  <2>3. started \in Machines /\ started.seeds = host.seeds /\ started.vm = "running" /\ started.starts = 1
    BY <1>0 DEF Machines
  <2>d. host' = started \/ host' = host
    BY <2>1, <2>2
  <2>4. host' = Script("launch").done => host' = started
    BY <2>1 DEF Script, LaunchVm
  <2> HIDE DEF started
  <2>5. host' \in Machines /\ host'.seeds = host.seeds
    BY <1>0, <2>3, <2>d
  <2>6. host' = Script("launch").done => host'.vm \in {"off", "running"} /\ host'.starts = 1
    BY <2>3, <2>4
  <2> QED BY <1>4, <2>5, <2>6
<1>5. CASE call[c].op = "retire"
  <2>1. host.disk /\ (host' = host \/ \E vm \in {"off", "absent"} : host' = [host EXCEPT !.vm = vm])
    BY <1>5 DEF Script, RetireVm
  <2>2. host' \in Machines /\ host'.seeds = host.seeds /\ host'.starts = host.starts
    BY <1>0, <2>1 DEF Machines
  <2>3. host' = Script("retire").done => host'.vm = "absent" /\ host'.disk
    BY <1>0, <2>1 DEF Machines, Script, RetireVm
  <2> QED BY <1>5, <2>2, <2>3
<1> QED BY <1>0, <1>1, <1>2, <1>3, <1>4, <1>5 DEF Ops

(* Whatever a command does, the status is true of the host. *)
LEMMA CommandKeepsStatus ==
  ASSUME PreparationInv, NEW c \in Operators, Is(c, "command"), Script(call[c].op).ready,
         host' = Script(call[c].op).done \/ host' \in Script(call[c].op).broken,
         UNCHANGED <<manifest, claims>>
  PROVE  host' \in Machines /\ StatusHolds'
<1>0. /\ StatusHolds /\ call[c].op \in Ops \cup {"create", "none"} /\ CallFits(c)
  BY DEF PreparationInv, PreparationTyped, Calls
<1>1. call[c].op # "none" /\ call[c].at = "command"
  BY <1>0 DEF CallFits, CallTyped, Is
<1>m. host' \in Machines
  BY ScriptEffect
<1>2. CASE call[c].op = "create"
  <2>1. manifest = "provisioning_unknown" /\ host'.seeds = host.seeds /\ host'.starts = host.starts
    BY <1>0, <1>1, <1>2, ScriptEffect DEF CallFits, ManifestFollows, Creating
  <2> QED BY <1>0, <1>m, <2>1 DEF StatusHolds
<1>3. CASE call[c].op # "create"
  <2>1. Working(c) /\ manifest = Unknown(call[c].op)
    BY <1>0, <1>1, <1>3 DEF CallFits, ManifestFollows, Working
  <2>2. CASE call[c].op = "attach"
    <3>1. manifest = "seed_attach_unknown" /\ host'.vm = host.vm /\ host'.starts = host.starts
      BY <2>1, <2>2, ScriptEffect DEF Unknown
    <3> QED BY <1>0, <1>m, <3>1 DEF StatusHolds
  <2>3. CASE call[c].op = "launch"
    <3>1. manifest = "launch_unknown" /\ "launch" \in claims
      BY <1>0, <1>1, <2>1, <2>3 DEF Unknown, CallFits, ManifestFollows
    <3> QED BY <1>0, <1>m, <3>1 DEF StatusHolds
  <2>4. CASE call[c].op = "retire"
    <3>1. manifest = "retirement_unknown" /\ host'.starts = host.starts
      BY <2>1, <2>4, ScriptEffect DEF Unknown
    <3> QED BY <1>0, <1>m, <3>1 DEF StatusHolds
  <2> QED BY <1>0, <1>1, <1>3, <2>2, <2>3, <2>4 DEF Ops
<1> QED BY <1>m, <1>2, <1>3

(* A status is stored when it is true of the host. *)
LEMMA StoredIsTrue ==
  ASSUME PreparationInv, NEW c \in Operators,
         \/ Is(c, "mark") /\ manifest' = Unknown(call[c].op)
         \/ Is(c, "settle") /\ manifest' = Definite(call[c].op),
         UNCHANGED <<host, claims>>
  PROVE  manifest' \in Statuses /\ StatusHolds'
<1>0. /\ StatusHolds /\ call[c].op \in Ops \cup {"create", "none"} /\ CallFits(c)
  BY DEF PreparationInv, PreparationTyped, Calls
<1>1. call[c].op # "none" /\ Engaged(c)
  BY <1>0 DEF CallFits, CallTyped, Is, Engaged, Creating, Working
<1>2. CASE Is(c, "mark")
  <2>1. Working(c) /\ manifest = call[c].record /\ call[c].op \in Ops
    BY <1>0, <1>1, <1>2 DEF CallFits, CallTyped, ManifestFollows, Is, Engaged, Creating
  <2>2. manifest \in Eligible(call[c].op) /\ manifest' = Unknown(call[c].op)
    BY <1>0, <1>2, <2>1 DEF CallFits, CallTyped, Is
  <2>3. CASE call[c].op = "attach"
    BY <1>0, <2>2, <2>3 DEF Eligible, Unknown, StatusHolds, Statuses
  <2>4. CASE call[c].op = "launch"
    BY <1>0, <2>2, <2>4 DEF Eligible, Unknown, StatusHolds, Statuses
  <2>5. CASE call[c].op = "retire"
    BY <1>0, <2>2, <2>5 DEF Eligible, Unknown, StatusHolds, Statuses
  <2> QED BY <2>1, <2>3, <2>4, <2>5 DEF Ops
<1>3. CASE Is(c, "settle")
  <2>0. call[c].at = "settle" /\ manifest' = Definite(call[c].op)
    BY <1>3 DEF Is
  <2>1. CASE call[c].op = "create"
    <3>1. manifest = "provisioning_unknown" /\ host.vm = "off" /\ manifest' = "created_not_started"
      BY <1>0, <2>0, <2>1 DEF CallFits, ManifestFollows, HostFollows, Creating, Definite
    <3> QED BY <1>0, <3>1 DEF StatusHolds, Statuses
  <2>2. CASE call[c].op = "attach"
    <3>1. /\ manifest = "seed_attach_unknown" /\ host.seeds = 1
          /\ manifest' = "created_seed_attached_not_started"
      BY <1>0, <2>0, <2>2 DEF CallFits, ManifestFollows, HostFollows, Working, Definite, Unknown
    <3> QED BY <1>0, <3>1 DEF StatusHolds, Statuses
  <2>3. CASE call[c].op = "launch"
    <3>1. host.vm \in {"off", "running"} /\ host.starts = 1 /\ manifest' = "installer_vm_started_not_reviewed"
      BY <1>0, <2>0, <2>3 DEF CallFits, HostFollows, Working, Definite
    <3> QED BY <1>0, <3>1 DEF StatusHolds, Statuses
  <2>4. CASE call[c].op = "retire"
    <3>1. host.vm = "absent" /\ host.disk /\ manifest' = "retired_vm_disk_retained"
      BY <1>0, <2>0, <2>4 DEF CallFits, HostFollows, Working, Definite
    <3> QED BY <1>0, <3>1 DEF StatusHolds, Statuses
  <2> QED BY <1>0, <1>1, <2>1, <2>2, <2>3, <2>4 DEF Ops
<1> QED BY <1>2, <1>3 DEF Is

LEMMA InterruptedIs ==
  ASSUME PreparationInv, NEW c \in Operators, Interrupted(c)
  PROVE  /\ manifest' \in Statuses /\ pending' \in BOOLEAN /\ claims' \subseteq {"launch", "retire"}
         /\ host' \in Machines /\ StatusHolds'
         /\ call[c].at \in {"idle", "guard"} => UNCHANGED <<manifest, pending, claims, host>>
<1>0. /\ StatusHolds /\ PreparationTyped /\ call[c].op \in Ops \cup {"create", "none"} /\ CallFits(c)
  BY DEF PreparationInv, PreparationTyped, Calls
<1>1. /\ claims' = claims \/ (call[c].at = "claim" /\ claims' = claims \cup {call[c].op})
      /\ host' = host \/ (Is(c, "command") /\ Script(call[c].op).ready /\ host' \in Script(call[c].op).broken)
  BY DEF Interrupted, Is
<1>2. \/ UNCHANGED <<manifest, pending>>
      \/ call[c].at \in {"mark", "settle"} /\ pending' = TRUE /\ UNCHANGED manifest
      \/ /\ UNCHANGED pending
         /\ \/ Is(c, "mark") /\ manifest' = Unknown(call[c].op)
            \/ Is(c, "settle") /\ manifest' = Definite(call[c].op)
  BY DEF Interrupted, Is
<1>3. claims' \subseteq {"launch", "retire"} /\ pending' \in BOOLEAN
  <2>1. call[c].at = "claim" => call[c].op \in {"launch", "retire"}
    BY <1>0 DEF CallFits, CallTyped, Creating, Ops
  <2> QED BY <1>0, <1>1, <1>2, <2>1 DEF PreparationTyped
<1>4. CASE call[c].at = "command"
  <2>1. UNCHANGED <<manifest, claims>>
    BY <1>1, <1>2, <1>4 DEF Is
  <2>2. host' \in Machines /\ StatusHolds'
    <3>1. CASE host' = host
      BY <1>0, <2>1, <3>1 DEF StatusHolds, PreparationTyped
    <3>2. CASE host' # host
      BY <1>1, <2>1, <3>2, CommandKeepsStatus
    <3> QED BY <3>1, <3>2
  <2> QED BY <1>0, <1>3, <1>4, <2>1, <2>2 DEF PreparationTyped
<1>5. CASE call[c].at \in {"mark", "settle"}
  <2>1. UNCHANGED <<host, claims>>
    BY <1>1, <1>5 DEF Is
  <2>2. manifest' \in Statuses /\ StatusHolds'
    <3>1. CASE manifest' = manifest
      BY <1>0, <2>1, <3>1 DEF StatusHolds, PreparationTyped
    <3>2. CASE manifest' # manifest
      BY <1>2, <2>1, <3>2, StoredIsTrue
    <3> QED BY <3>1, <3>2
  <2> QED BY <1>0, <1>3, <1>5, <2>1, <2>2 DEF PreparationTyped
<1>6. CASE call[c].at \notin {"command", "mark", "settle"}
  <2>1. UNCHANGED <<host, manifest, pending>> /\ claims \subseteq claims'
        /\ (call[c].at \in {"idle", "guard"} => UNCHANGED claims)
    BY <1>1, <1>2, <1>6 DEF Is
  <2>2. StatusHolds'
    BY <1>0, <2>1 DEF StatusHolds
  <2> QED BY <1>0, <1>3, <2>1, <2>2 DEF PreparationTyped
<1> QED BY <1>4, <1>5, <1>6

(* A step of the caller outside of the guard. *)
LEMMA OutsideStep ==
  ASSUME PreparationInv, NEW c \in Operators, ~Engaged(c), UNCHANGED <<manifest, pending, claims, host>>,
         call' \in [Operators -> Calls], \A d \in Operators : d # c => call'[d] = call[d],
         CallTyped(c)', lock' \in Operators \cup {"none", "left"},
         \A d \in Operators : lock = d /\ d # c => lock' = d,
         \/ call'[c].at \in {"idle", "guard"} /\ ~Creating(c)'
         \/ Working(c)' /\ call'[c].at = "inputs" /\ lock' = c,
         call'[c].at # "idle" => \A d \in Operators : ~Creating(d)
  PROVE  PreparationInv'
<1>1. PreparationTyped' /\ StatusHolds'
  BY DEF PreparationInv, PreparationTyped, StatusHolds
<1>2. CallFits(c)'
  <2>1. ~Creating(c)' /\ (Working(c)' => call'[c].at = "inputs" /\ lock' = c)
    BY DEF Creating, Working
  <2> QED BY <2>1 DEF CallFits, Alone, ManifestFollows, HostFollows
<1>3. ASSUME NEW d \in Operators, d # c PROVE CallFits(d)'
  <2>1. CallFits(d) /\ call'[d] = call[d]
    BY <1>3 DEF PreparationInv
  <2>2. (Working(d)' <=> Working(d)) /\ (Creating(d)' <=> Creating(d))
    BY <2>1 DEF Working, Creating
  <2>3. Alone(d)'
    <3>1. Working(d)' => lock' = d
      BY <1>3, <2>1, <2>2 DEF CallFits, Alone
    <3>2. ASSUME Creating(d), NEW e \in Operators, e # d PROVE call'[e].at = "idle"
      BY <2>1, <3>2 DEF CallFits, Alone
    <3> QED BY <2>2, <3>1, <3>2 DEF Alone
  <2>4. CallTyped(d)' /\ ManifestFollows(d)' /\ HostFollows(d)'
    BY <2>1, <2>2 DEF CallFits, CallTyped, ManifestFollows, HostFollows
  <2> QED BY <2>3, <2>4 DEF CallFits
<1> QED BY <1>1, <1>2, <1>3 DEF PreparationInv

LEMMA ReviewKeeps ==
  ASSUME PreparationInv, NEW c \in Operators, NEW op \in Ops, Review(c, op)
  PROVE  PreparationInv'
<1>1. /\ call[c].at = "idle" /\ manifest \in Eligible(op) /\ UNCHANGED <<manifest, pending, claims, lock, host>>
      /\ manifest = "provisioning_unknown" => \A d \in Operators : ~Creating(d)
      /\ call' = [call EXCEPT ![c] = [op |-> op, at |-> "guard", record |-> manifest]]
  BY DEF Review, Is, Creating
<1>2. call \in [Operators -> Calls] /\ manifest \in Statuses /\ lock \in Operators \cup {"none", "left"}
  BY DEF PreparationInv, PreparationTyped
<1>3. \A d \in Operators : ~Creating(d)
  BY <1>1 DEF PreparationInv, CallFits, ManifestFollows
<1> DEFINE new == [op |-> op, at |-> "guard", record |-> manifest]
<1>4. new \in Calls /\ new.op = op /\ new.at = "guard" /\ new.record = manifest
  BY <1>2 DEF Calls, Phases
<1> HIDE DEF new
<1>5. call' = [call EXCEPT ![c] = new]
  BY <1>1 DEF new
<1>6. /\ call' \in [Operators -> Calls] /\ call'[c] = new
      /\ \A d \in Operators : d # c => call'[d] = call[d]
  BY <1>2, <1>4, <1>5
<1>7. CallTyped(c)' /\ ~Creating(c)' /\ call'[c].at = "guard"
  BY <1>1, <1>4, <1>6 DEF CallTyped, Creating, Ops
<1>8. ~Engaged(c)
  BY <1>1 DEF Engaged, Creating, Working
<1> QED BY <1>1, <1>2, <1>3, <1>6, <1>7, <1>8, OutsideStep

LEMMA TakeGuardKeeps ==
  ASSUME PreparationInv, NEW c \in Operators, TakeGuard(c)
  PROVE  PreparationInv'
<1>1. call[c].at = "guard" /\ UNCHANGED <<manifest, pending, claims, host>>
  BY DEF TakeGuard, Is
<1>2. CallFits(c) /\ ~Creating(c)
  BY <1>1 DEF PreparationInv, CallFits, CallTyped
<1>3. ~Engaged(c) /\ call[c].op # "create" /\ call[c].op # "none"
  BY <1>1, <1>2 DEF Engaged, Creating, Working, CallFits, CallTyped
<1>4. \A d \in Operators : ~Creating(d)
  BY <1>1, <1>3 DEF PreparationInv, CallFits, Alone, Creating
<1>5. lock \in Operators \cup {"none", "left"} /\ "none" \notin Operators /\ "left" \notin Operators
  BY OperatorsAssumption DEF PreparationInv, PreparationTyped
<1>6. CASE lock = "none" /\ lock' = c /\ Continues(c, "inputs")
  <2>1. /\ call' \in [Operators -> Calls] /\ call'[c].op = call[c].op /\ call'[c].record = call[c].record
        /\ call'[c].at = "inputs" /\ \A d \in Operators : d # c => call'[d] = call[d]
    BY <1>6, ContinuesIs DEF Phases
  <2>2. CallTyped(c)' /\ Working(c)' /\ ~Creating(c)'
    BY <1>2, <1>3, <2>1 DEF CallFits, CallTyped, Working, Creating, Eligible
  <2> QED BY <1>1, <1>3, <1>4, <1>5, <1>6, <2>1, <2>2, OutsideStep
<1>7. CASE call' = [call EXCEPT ![c] = Idle] /\ (lock' = lock \/ (lock = "none" /\ lock' \in {"none", "left"}))
  <2>1. /\ call' \in [Operators -> Calls] /\ call'[c].op = "none" /\ call'[c].at = "idle" /\ CallFits(c)'
        /\ \A d \in Operators : d # c => call'[d] = call[d]
    BY <1>7, IdleIs
  <2>2. CallTyped(c)' /\ ~Creating(c)'
    BY <2>1 DEF CallFits, Creating
  <2> QED BY <1>1, <1>3, <1>4, <1>5, <1>7, <2>1, <2>2, OutsideStep
<1> QED BY <1>6, <1>7 DEF TakeGuard

(* A busy call that goes on to its next phase. *)
LEMMA PhaseMoves ==
  ASSUME PreparationInv, NEW c \in Operators, Engaged(c), NEW to \in Phases, Continues(c, to), UNCHANGED lock,
         manifest' \in Statuses, pending' \in BOOLEAN, claims' \subseteq {"launch", "retire"},
         host' \in Machines,
         StatusHolds',
         to # "idle", Creating(c) => to \in {"command", "settle"},
         to = "claim" => call[c].op # "attach",
         Creating(c) => manifest' = "provisioning_unknown" /\ (to = "settle" => host'.vm = "off"),
         Working(c) =>
           /\ to # "guard"
           /\ to \in {"claim", "mark"} => manifest' = call[c].record
           /\ to \in {"command", "settle"} => manifest' = Unknown(call[c].op)
           /\ to \in {"mark", "command", "settle"} /\ call[c].op = "launch" => "launch" \in claims'
           /\ call[c].op = "attach" /\ to = "settle" => host'.seeds = 1
           /\ call[c].op = "launch" /\ to = "command" => host'.starts = 0
           /\ call[c].op = "launch" /\ to = "settle" => host'.vm \in {"off", "running"} /\ host'.starts = 1
           /\ call[c].op = "retire" /\ to = "settle" => host'.vm = "absent" /\ host'.disk
  PROVE  PreparationInv'
<1>1. /\ call' \in [Operators -> Calls] /\ call'[c].op = call[c].op /\ call'[c].record = call[c].record
      /\ call'[c].at = to /\ \A d \in Operators : d # c => call'[d] = call[d]
  BY ContinuesIs
<1>2. CallFits(c) /\ PreparationTyped
  BY DEF PreparationInv
<1>3. PreparationTyped'
  BY <1>1, <1>2 DEF PreparationTyped
<1>4. (Creating(c)' <=> Creating(c)) /\ (Working(c)' <=> Working(c))
  BY <1>1 DEF Engaged, Creating, Working
<1>5. CallTyped(c)'
  BY <1>1, <1>2, <1>4 DEF CallFits, CallTyped, Eligible, Creating, Working, Engaged
<1>6. Alone(c)'
  BY <1>1, <1>2, <1>4 DEF CallFits, Alone
<1>7. ManifestFollows(c)' /\ HostFollows(c)'
  BY <1>1, <1>4 DEF ManifestFollows, HostFollows, Unknown
<1>8. CallFits(c)'
  BY <1>5, <1>6, <1>7 DEF CallFits
<1> QED BY <1>1, <1>3, <1>8, CallMoves

LEMMA GiveUpMoves ==
  ASSUME PreparationInv, NEW c \in Operators, Engaged(c), UNCHANGED lock,
         Continues(c, GivesUp(c)) \/ (Working(c) /\ Continues(c, "release")),
         manifest' \in Statuses, pending' \in BOOLEAN, claims' \subseteq {"launch", "retire"},
         host' \in Machines, StatusHolds'
  PROVE  PreparationInv'
<1>1. PICK to \in Phases : Continues(c, to)
  BY DEF GivesUp, Phases
<1>2. call' \in [Operators -> Calls] /\ \A d \in Operators : d # c => call'[d] = call[d]
  BY <1>1, ContinuesIs
<1>3. CallFits(c)'
  BY GivesUpIs
<1>4. PreparationTyped'
  BY <1>2 DEF PreparationInv, PreparationTyped
<1> QED BY <1>2, <1>3, <1>4, CallMoves

LEMMA PreparationStepKeeps ==
  ASSUME PreparationInv, NEW c \in Operators,
         \/ LookAgain(c) \/ TakeClaim(c) \/ MarkUnknown(c) \/ RunScript(c) \/ Settle(c)
         \/ ReleaseGuard(c) \/ StepFails(c)
  PROVE  PreparationInv'
<1>0. /\ PreparationTyped /\ StatusHolds /\ CallFits(c)
      /\ manifest \in Statuses /\ pending \in BOOLEAN /\ claims \subseteq {"launch", "retire"}
      /\ host \in Machines /\ call[c].op \in Ops \cup {"create", "none"}
  BY DEF PreparationInv, PreparationTyped, Calls
<1>1. call[c].at \in {"inputs", "claim", "mark", "command", "settle", "release"}
  BY DEF LookAgain, TakeClaim, MarkUnknown, RunScript, Settle, ReleaseGuard, StepFails, Is
<1>2. Engaged(c) /\ call[c].op # "none"
  BY <1>0, <1>1 DEF Engaged, Creating, Working, CallFits, CallTyped
<1>3. Creating(c) => call[c].at \in {"command", "settle"} /\ call[c].op = "create"
  BY <1>0 DEF CallFits, CallTyped, Creating
<1>4. call[c].at \notin {"command", "settle"} => Working(c) /\ call[c].op \in Ops
  BY <1>0, <1>2, <1>3 DEF Engaged, Working, Creating
<1>p. Phases = {"idle", "guard", "inputs", "claim", "mark", "command", "settle", "release"}
  BY DEF Phases
<1>5. CASE LookAgain(c)
  <2>1. call[c].at = "inputs" /\ UNCHANGED <<manifest, pending, claims, lock, host>> /\ Working(c)
        /\ ~Creating(c)
    BY <1>3, <1>4, <1>5 DEF LookAgain, Is
  <2>2. StatusHolds'
    BY <1>0, <2>1 DEF StatusHolds
  <2>3. CASE Continues(c, "release")
    BY <1>0, <1>2, <2>1, <2>2, <2>3, GiveUpMoves
  <2>4. CASE ~Continues(c, "release")
    <3>1. PICK to \in {"mark", "claim"} :
            /\ Continues(c, to) /\ (to = "mark" <=> call[c].op = "attach")
            /\ InputsHold(call[c].op, call[c].record, TRUE)
      BY <1>5, <2>4 DEF LookAgain
    <3>2. manifest = call[c].record
      BY <1>4, <2>1, <3>1 DEF InputsHold, AttachInputs, LaunchInputs, RetireInputs, RecordAgrees, Ops
    <3> QED BY <1>0, <1>2, <1>p, <2>1, <2>2, <3>1, <3>2, PhaseMoves
  <2> QED BY <2>3, <2>4
<1>6. CASE TakeClaim(c)
  <2>1. call[c].at = "claim" /\ UNCHANGED <<manifest, pending, lock, host>> /\ Working(c) /\ ~Creating(c)
        /\ call[c].op \in {"launch", "retire"} /\ manifest = call[c].record
    BY <1>0, <1>3, <1>4, <1>6 DEF TakeClaim, Is, CallFits, CallTyped, ManifestFollows, Ops
  <2>2. \/ Continues(c, "release") /\ UNCHANGED claims
        \/ Continues(c, "mark") /\ claims' = claims \cup {call[c].op}
    BY <1>6 DEF TakeClaim
  <2>3. StatusHolds' /\ claims' \subseteq {"launch", "retire"}
    BY <1>0, <2>1, <2>2 DEF StatusHolds
  <2> QED BY <1>0, <1>2, <1>p, <2>1, <2>2, <2>3, GiveUpMoves, PhaseMoves
<1>7. CASE MarkUnknown(c)
  <2>1. call[c].at = "mark" /\ UNCHANGED <<pending, claims, lock, host>> /\ Working(c) /\ ~Creating(c)
    BY <1>3, <1>4, <1>7 DEF MarkUnknown, Store, Is
  <2>2. CASE Continues(c, GivesUp(c)) /\ UNCHANGED manifest
    <3>1. StatusHolds'
      BY <1>0, <2>1, <2>2 DEF StatusHolds
    <3> QED BY <1>0, <1>2, <2>1, <2>2, <3>1, GiveUpMoves
  <2>3. CASE Continues(c, "command") /\ manifest' = Unknown(call[c].op)
    <3>1. manifest' \in Statuses /\ StatusHolds'
      BY <2>1, <2>3, StoredIsTrue DEF Is
    <3>2. /\ call[c].op = "launch" => "launch" \in claims
          /\ call[c].op = "launch" => host.starts = 0
      BY <1>0, <2>1 DEF CallFits, CallTyped, ManifestFollows, Eligible, StatusHolds, Ops
    <3> QED BY <1>0, <1>2, <1>p, <2>1, <2>3, <3>1, <3>2, PhaseMoves
  <2> QED BY <1>7, <2>2, <2>3 DEF MarkUnknown, Store
<1>8. CASE RunScript(c)
  <2>1. call[c].at = "command" /\ UNCHANGED <<manifest, pending, claims, lock>>
    BY <1>8 DEF RunScript, Is
  <2>2. CASE Continues(c, GivesUp(c)) /\ UNCHANGED host
    <3>1. StatusHolds'
      BY <1>0, <2>1, <2>2 DEF StatusHolds
    <3> QED BY <1>0, <1>2, <2>1, <2>2, <3>1, GiveUpMoves
  <2>3. CASE Script(call[c].op).ready /\ host' = Script(call[c].op).done /\ Continues(c, "settle")
    <3>1. host' \in Machines /\ StatusHolds'
      BY <2>1, <2>3, CommandKeepsStatus DEF Is
    <3>2. /\ call[c].op = "create" => host'.vm = "off"
          /\ call[c].op = "attach" => host'.seeds = 1
          /\ call[c].op = "launch" => host'.vm \in {"off", "running"} /\ host'.starts = 1
          /\ call[c].op = "retire" => host'.vm = "absent" /\ host'.disk
      BY <2>1, <2>3, ScriptEffect DEF Is
    <3>3. /\ Creating(c) => manifest = "provisioning_unknown"
          /\ Working(c) => manifest = Unknown(call[c].op)
          /\ Working(c) /\ call[c].op = "launch" => "launch" \in claims
      BY <1>0, <2>1 DEF CallFits, ManifestFollows
    <3> QED BY <1>0, <1>2, <1>3, <1>p, <2>1, <2>3, <3>1, <3>2, <3>3, PhaseMoves
  <2> QED BY <1>8, <2>2, <2>3 DEF RunScript
<1>9. CASE Settle(c)
  <2>1. call[c].at = "settle" /\ UNCHANGED <<pending, claims, lock, host>> /\ Continues(c, GivesUp(c))
    BY <1>9 DEF Settle, Store, Is
  <2>2. manifest' \in Statuses /\ StatusHolds'
    <3>1. CASE UNCHANGED manifest
      BY <1>0, <2>1, <3>1 DEF StatusHolds
    <3>2. CASE manifest' = Definite(call[c].op)
      BY <2>1, <3>2, StoredIsTrue DEF Is
    <3> QED BY <1>9, <3>1, <3>2 DEF Settle, Store
  <2> QED BY <1>0, <1>2, <2>1, <2>2, GiveUpMoves
<1>10. CASE ReleaseGuard(c)
  <2>1. call[c].at = "release" /\ lock' \in {"none", "left"} /\ call' = [call EXCEPT ![c] = Idle]
        /\ UNCHANGED <<manifest, pending, claims, host>>
    BY <1>10 DEF ReleaseGuard, Is
  <2>2. /\ call' \in [Operators -> Calls] /\ CallFits(c)'
        /\ \A d \in Operators : d # c => call'[d] = call[d]
    BY <2>1, IdleIs
  <2>3. PreparationTyped' /\ StatusHolds'
    BY <1>0, <2>1, <2>2 DEF PreparationTyped, StatusHolds
  <2> QED BY <1>2, <2>2, <2>3, CallMoves
<1>11. CASE StepFails(c)
  <2>1. Interrupted(c) /\ Continues(c, GivesUp(c)) /\ UNCHANGED lock
    BY <1>11 DEF StepFails
  <2> QED BY <1>2, <2>1, InterruptedIs, GiveUpMoves
<1> QED BY <1>5, <1>6, <1>7, <1>8, <1>9, <1>10, <1>11

LEMMA OperatorDiesKeeps ==
  ASSUME PreparationInv, NEW c \in Operators, OperatorDies(c)
  PROVE  PreparationInv'
<1>1. /\ call[c].at # "idle" /\ Interrupted(c) /\ call' = [call EXCEPT ![c] = Idle]
      /\ lock' = IF lock = c THEN "left" ELSE lock
  BY DEF OperatorDies, Is
<1>2. /\ call' \in [Operators -> Calls] /\ CallFits(c)' /\ call'[c].at = "idle" /\ call'[c].op = "none"
      /\ \A d \in Operators : d # c => call'[d] = call[d]
  BY <1>1, IdleIs
<1>3. /\ manifest' \in Statuses /\ pending' \in BOOLEAN /\ claims' \subseteq {"launch", "retire"}
      /\ host' \in Machines /\ StatusHolds'
      /\ call[c].at \in {"idle", "guard"} => UNCHANGED <<manifest, pending, claims, host>>
  BY <1>1, InterruptedIs
<1>4. lock' \in Operators \cup {"none", "left"} /\ \A d \in Operators : lock = d /\ d # c => lock' = d
  BY <1>1 DEF PreparationInv, PreparationTyped
<1>5. CASE Engaged(c)
  <2>1. PreparationTyped'
    BY <1>2, <1>3, <1>4 DEF PreparationTyped
  <2> QED BY <1>2, <1>3, <1>5, <2>1, CallMoves
<1>6. CASE ~Engaged(c)
  <2>1. CallFits(c)
    BY DEF PreparationInv
  <2>2. call[c].at = "guard"
    BY <1>1, <1>6, <2>1 DEF Engaged, Creating, Working, CallFits, CallTyped
  <2>3. CallTyped(c)' /\ ~Creating(c)'
    BY <1>2 DEF CallFits, Creating
  <2> QED BY <1>2, <1>3, <1>4, <1>6, <2>2, <2>3, OutsideStep
<1> QED BY <1>5, <1>6

LEMMA PowerOffKeeps == ASSUME PreparationInv, GuestPowersOff PROVE PreparationInv'
<1>1. /\ host.vm = "running" /\ host' = [host EXCEPT !.vm = "off"] /\ host \in Machines
      /\ UNCHANGED <<manifest, pending, claims, lock, call>>
  BY DEF GuestPowersOff, PreparationInv, PreparationTyped
<1>2. /\ host' \in Machines /\ host'.vm = "off" /\ host'.seeds = host.seeds /\ host'.starts = host.starts
      /\ host'.disk = host.disk
  BY <1>1 DEF Machines
<1>3. PreparationTyped' /\ StatusHolds'
  BY <1>1, <1>2 DEF PreparationInv, PreparationTyped, StatusHolds
<1>4. ASSUME NEW c \in Operators PROVE CallFits(c)'
  BY <1>1, <1>2 DEF PreparationInv, CallFits, CallTyped, Alone, ManifestFollows, HostFollows,
                    Creating, Working, Eligible, Unknown
<1> QED BY <1>3, <1>4 DEF PreparationInv

LEMMA PreparationUnchanged == ASSUME PreparationInv, UNCHANGED preparationVars PROVE PreparationInv'
<1>1. PreparationTyped' /\ StatusHolds'
  BY DEF PreparationInv, PreparationTyped, StatusHolds, preparationVars
<1>2. ASSUME NEW c \in Operators PROVE CallFits(c)'
  BY DEF PreparationInv, CallFits, CallTyped, Alone, ManifestFollows, HostFollows, Creating, Working,
         Eligible, Unknown, preparationVars
<1> QED BY <1>1, <1>2 DEF PreparationInv

LEMMA PreparationInitially == Init => PreparationInv
<1> SUFFICES ASSUME Init PROVE PreparationInv
  OBVIOUS
<1>1. Idle \in Calls /\ Idle.op = "none" /\ Idle.at = "idle" /\ NoMachine \in Machines
      /\ NoMachine.seeds = 0 /\ NoMachine.starts = 0
  BY DEF Idle, Calls, Ops, Phases, Statuses, NoMachine, Machines
<1>2. CASE PreparationRest
  <2>1. /\ manifest = "none" /\ pending = FALSE /\ claims = {} /\ lock = "none" /\ host = NoMachine
        /\ call = [c \in Operators |-> Idle]
    BY <1>2 DEF PreparationRest
  <2>2. PreparationTyped /\ StatusHolds
    <3>1. call \in [Operators -> Calls]
      BY <1>1, <2>1
    <3>2. host.seeds = 0 /\ host.starts = 0 /\ host \in Machines
      BY <1>1, <2>1
    <3>3. manifest \in Statuses /\ claims \subseteq {"launch", "retire"} /\ pending \in BOOLEAN
      BY <2>1 DEF Statuses
    <3>4. PreparationTyped
      BY <2>1, <3>1, <3>2, <3>3 DEF PreparationTyped
    <3>5. StatusHolds
      BY <2>1, <3>2 DEF StatusHolds
    <3> QED BY <3>4, <3>5
  <2>3. ASSUME NEW c \in Operators PROVE CallFits(c)
    <3>1. call[c].op = "none" /\ call[c].at = "idle"
      BY <1>1, <2>1
    <3> QED BY <3>1 DEF CallFits, CallTyped, Alone, ManifestFollows, HostFollows, Creating, Working, Ops
  <2> QED BY <2>2, <2>3 DEF PreparationInv
<1>3. ASSUME NEW b \in Operators, CreationBegun(b) PROVE PreparationInv
  <2> DEFINE first == [op |-> "create", at |-> "command", record |-> "none"]
  <2>0. first \in Calls /\ first.op = "create" /\ first.at = "command"
    BY DEF Calls, Ops, Phases, Statuses
  <2> HIDE DEF first
  <2>1. /\ manifest = "provisioning_unknown" /\ pending = FALSE /\ claims = {} /\ lock = "none"
        /\ host = NoMachine /\ call = [d \in Operators |-> IF d = b THEN first ELSE Idle]
    BY <1>3 DEF CreationBegun, first
  <2>2. PreparationTyped /\ StatusHolds
    <3>1. call \in [Operators -> Calls]
      BY <1>1, <2>0, <2>1
    <3>2. host.seeds = 0 /\ host.starts = 0 /\ host \in Machines
      BY <1>1, <2>1
    <3>3. manifest \in Statuses /\ claims \subseteq {"launch", "retire"} /\ pending \in BOOLEAN
      BY <2>1 DEF Statuses
    <3>4. PreparationTyped
      BY <2>1, <3>1, <3>2, <3>3 DEF PreparationTyped
    <3>5. StatusHolds
      BY <2>1, <3>2 DEF StatusHolds
    <3> QED BY <3>4, <3>5
  <2>3. \A d \in Operators : d # b => call[d].op = "none" /\ call[d].at = "idle"
    BY <1>1, <2>1
  <2>4. call[b].op = "create" /\ call[b].at = "command"
    BY <2>0, <2>1
  <2>5. ASSUME NEW c \in Operators PROVE CallFits(c)
    <3>1. CASE c = b
      BY <2>1, <2>3, <2>4, <3>1 DEF CallFits, CallTyped, Alone, ManifestFollows, HostFollows, Creating, Working, Ops
    <3>2. CASE c # b
      BY <2>3, <3>2 DEF CallFits, CallTyped, Alone, ManifestFollows, HostFollows, Creating, Working, Ops
    <3> QED BY <3>1, <3>2
  <2> QED BY <2>2, <2>5 DEF PreparationInv
<1> QED BY <1>2, <1>3 DEF Init

THEOREM PreparationCorrect == Spec => []PreparationInv
<1>1. PreparationInv /\ [Next]_vars => PreparationInv'
  <2> SUFFICES ASSUME PreparationInv, [Next]_vars PROVE PreparationInv'
    OBVIOUS
  <2>1. PreparationStep \/ PreparationAround \/ UNCHANGED preparationVars
    BY DEF Next, ProgramStep, Around, ClockNext, restVars, imageVars, vars
  <2>2. CASE PreparationStep
    BY <2>2, TakeGuardKeeps, PreparationStepKeeps DEF PreparationStep
  <2>3. CASE PreparationAround
    BY <2>3, OperatorDiesKeeps, ReviewKeeps, PowerOffKeeps DEF PreparationAround, Ops
  <2> QED BY <2>1, <2>2, <2>3, PreparationUnchanged
<1> QED BY <1>1, PreparationInitially, PTL DEF Spec

LEMMA PreparationEarned == ASSUME PreparationInv PROVE PreparationIsHonest
<1>1. PreparationTyped /\ StatusHolds /\ \A c \in Operators : CallFits(c)
  BY DEF PreparationInv
<1>2. host.seeds \in {0, 1} /\ host.starts \in {0, 1}
  BY <1>1 DEF PreparationTyped, Machines
<1> DEFINE S == {c \in Operators : call[c].op # "create" /\ call[c].at \notin {"idle", "guard"}}
<1>3. Cardinality(S) <= 1
  <2>1. \A c, d \in S : c = d
    BY <1>1 DEF CallFits, Alone, Working
  <2>2. CASE S = {}
    BY <2>2, FS_EmptySet
  <2>3. CASE S # {}
    <3>1. PICK c : S = {c}
      BY <2>1, <2>3
    <3>2. Cardinality({c}) = 1
      BY FS_Singleton
    <3> QED BY <3>1, <3>2
  <2> QED BY <2>2, <2>3
<1> HIDE DEF S
<1>4. /\ host.seeds <= 1 /\ host.starts <= 1
      /\ host.starts = 1 => "launch" \in claims
      /\ manifest = "created_not_started" => host.vm = "off" /\ host.seeds = 0 /\ host.starts = 0
      /\ manifest = "created_seed_attached_not_started" =>
           host.vm = "off" /\ host.seeds = 1 /\ host.starts = 0
      /\ manifest = "installer_vm_started_not_reviewed" => host.vm \in {"off", "running"} /\ host.starts = 1
      /\ manifest = "retired_vm_disk_retained" => host.vm = "absent" /\ host.disk
  BY <1>1, <1>2 DEF StatusHolds
<1> QED BY <1>3, <1>4 DEF PreparationIsHonest, S

-----------------------------------------------------------------------------
(* The steps of the operators, seen as steps of the machine's record:      *)
(* MachineLifecycle.                                                       *)

LEMMA TablesAre ==
  /\ Machine!During["create"] = "provisioning_unknown" /\ Machine!After["create"] = Definite("create")
  /\ \A op \in Ops : /\ Machine!During[op] = Unknown(op) /\ Machine!After[op] = Definite(op)
                     /\ Machine!Before[op] = Eligible(op)
BY DEF Ops, Machine!During, Machine!After, Machine!Before, Unknown, Definite, Eligible, Launched

(* A script is at work only while the manifest says that its outcome is    *)
(* unknown, and may end anywhere in what it does.                          *)
LEMMA CommandRefines ==
  ASSUME PreparationInv, NEW c \in Operators, Is(c, "command"), Script(call[c].op).ready,
         host' = Script(call[c].op).done \/ host' \in Script(call[c].op).broken,
         UNCHANGED manifest
  PROVE  Machine!Next \/ UNCHANGED <<manifest, host>>
<1>0. /\ host \in Machines /\ call[c].op \in Ops \cup {"create", "none"} /\ CallFits(c)
      /\ call[c].at = "command" /\ StatusHolds
  BY DEF PreparationInv, PreparationTyped, Calls, Is
<1>1. call[c].op # "none"
  BY <1>0 DEF CallFits, CallTyped
<1>2. CASE call[c].op = "create"
  <2>1. manifest = "provisioning_unknown"
    BY <1>0, <1>2 DEF CallFits, ManifestFollows, Creating
  <2>2. Script("create") = PrepareVm
    BY DEF Script
  <2>3. /\ host.vm = "absent"
        /\ \E vm \in {"absent", "bare", "off"}, disk \in BOOLEAN :
             host' = [host EXCEPT !.vm = vm, !.disk = disk]
    <3>1. /\ host.vm = "absent"
          /\ \/ host' = [host EXCEPT !.vm = "off", !.disk = TRUE]
             \/ \E vm \in {"absent", "bare", "off"}, disk \in BOOLEAN :
                  host' = [host EXCEPT !.vm = vm, !.disk = disk]
      BY <1>2, <2>2, PrepareVmEffect
    <3> QED BY <3>1, Zenon
  <2>4. Machine!Provisioned
    BY <2>3 DEF Machine!Provisioned
  <2>5. Machine!Command("create")
    BY <2>1, <2>4, TablesAre DEF Machine!Command
  <2> QED BY <2>5 DEF Machine!Next, Machine!Commands
<1>3. CASE call[c].op # "create"
  <2>1. Working(c) /\ manifest = Unknown(call[c].op) /\ call[c].op \in Ops
    BY <1>0, <1>1, <1>3 DEF CallFits, ManifestFollows, Working
  <2>2. manifest = Machine!During[call[c].op]
    BY <2>1, TablesAre
  <2>3. CASE call[c].op = "attach"
    <3>1. host.vm = "off" /\ host.seeds = 0 /\ (host' = host \/ host' = [host EXCEPT !.seeds = 0 + 1])
      BY <2>3 DEF Script, AttachSeed
    <3>2. host' = host \/ Machine!SeedAdded
      BY <3>1 DEF Machine!SeedAdded
    <3>3. host' = host \/ Machine!Command("attach")
      BY <2>2, <2>3, <3>2 DEF Machine!Command
    <3> QED BY <3>3 DEF Machine!Next, Machine!Commands
  <2>4. CASE call[c].op = "launch"
    <3>1. host.starts = 0
      BY <1>0, <2>1, <2>4 DEF CallFits, HostFollows
    <3>2. /\ host.vm = "off" /\ host.seeds = 1
          /\ host' = host \/ host' = [host EXCEPT !.vm = "running", !.starts = 0 + 1]
      BY <2>4, <3>1 DEF Script, LaunchVm
    <3>3. host' = host \/ Machine!Started
      BY <3>1, <3>2 DEF Machine!Started
    <3>4. host' = host \/ Machine!Command("launch")
      BY <2>2, <2>4, <3>3 DEF Machine!Command
    <3> QED BY <3>4 DEF Machine!Next, Machine!Commands
  <2>5. CASE call[c].op = "retire"
    <3>1. /\ host.vm \in {"off", "running"} /\ host.disk
          /\ host' = host \/ \E vm \in {"off", "absent"} : host' = [host EXCEPT !.vm = vm]
      BY <2>5, Zenon DEF Script, RetireVm
    <3>2. host' = host \/ Machine!Retired
      BY <3>1 DEF Machine!Retired
    <3>3. host' = host \/ Machine!Command("retire")
      BY <2>2, <2>5, <3>2 DEF Machine!Command
    <3> QED BY <3>3 DEF Machine!Next, Machine!Commands
  <2> QED BY <2>1, <2>3, <2>4, <2>5 DEF Ops
<1> QED BY <1>2, <1>3

(* What is written under the guard was true when it was read there.        *)
LEMMA StoreRefines ==
  ASSUME PreparationInv, NEW c \in Operators,
         \/ Is(c, "mark") /\ manifest' = Unknown(call[c].op)
         \/ Is(c, "settle") /\ manifest' = Definite(call[c].op),
         UNCHANGED host
  PROVE  Machine!Next
<1>0. /\ StatusHolds /\ call[c].op \in Ops \cup {"create", "none"} /\ CallFits(c) /\ host \in Machines
  BY DEF PreparationInv, PreparationTyped, Calls
<1>1. call[c].op # "none"
  BY <1>0 DEF CallFits, CallTyped, Is
<1>2. CASE Is(c, "mark")
  <2>1. Working(c) /\ manifest = call[c].record /\ call[c].op \in Ops
    BY <1>0, <1>1, <1>2 DEF CallFits, CallTyped, ManifestFollows, Is, Creating, Working
  <2>2. manifest \in Eligible(call[c].op) /\ manifest' = Unknown(call[c].op)
    BY <1>0, <1>2, <2>1 DEF CallFits, CallTyped, Is
  <2>3. Machine!Announce(call[c].op)
    BY <2>1, <2>2, TablesAre DEF Machine!Announce
  <2> QED BY <2>1, <2>3 DEF Machine!Next, Machine!Commands, Ops
<1>3. CASE Is(c, "settle")
  <2>0. call[c].at = "settle" /\ manifest' = Definite(call[c].op)
    BY <1>3 DEF Is
  <2>1. CASE call[c].op = "create"
    <3>1. manifest = "provisioning_unknown" /\ host.vm = "off"
      BY <1>0, <2>0, <2>1 DEF CallFits, ManifestFollows, HostFollows, Creating
    <3>2. Machine!Achieved("create")
      BY <1>0, <3>1 DEF StatusHolds, Machine!Achieved
    <3>3. Machine!Conclude("create")
      BY <2>0, <2>1, <3>1, <3>2, TablesAre DEF Machine!Conclude
    <3> QED BY <3>3 DEF Machine!Next, Machine!Commands
  <2>2. CASE call[c].op \in Ops
    <3>1. Working(c) /\ manifest = Unknown(call[c].op)
      BY <1>0, <2>0, <2>2 DEF CallFits, ManifestFollows, Working, Ops
    <3>3. Machine!Achieved(call[c].op)
      <4>1. CASE call[c].op = "attach"
        <5>1. host.seeds = 1 /\ manifest = "seed_attach_unknown"
          BY <1>0, <2>0, <3>1, <4>1 DEF CallFits, HostFollows, Unknown
        <5> QED BY <1>0, <4>1, <5>1 DEF StatusHolds, Machine!Achieved
      <4>2. CASE call[c].op = "launch"
        <5>1. host.vm \in {"off", "running"} /\ host.starts = 1
          BY <1>0, <2>0, <3>1, <4>2 DEF CallFits, HostFollows
        <5> QED BY <4>2, <5>1 DEF Machine!Achieved
      <4>3. CASE call[c].op = "retire"
        <5>1. host.vm = "absent" /\ host.disk
          BY <1>0, <2>0, <3>1, <4>3 DEF CallFits, HostFollows
        <5> QED BY <4>3, <5>1 DEF Machine!Achieved
      <4> QED BY <2>2, <4>1, <4>2, <4>3 DEF Ops
    <3>4. Machine!Conclude(call[c].op)
      BY <2>0, <2>2, <3>1, <3>3, TablesAre DEF Machine!Conclude
    <3> QED BY <2>2, <3>4 DEF Machine!Next, Machine!Commands, Ops
  <2> QED BY <1>0, <1>1, <2>1, <2>2
<1> QED BY <1>2, <1>3

LEMMA InterruptedRefines ==
  ASSUME PreparationInv, NEW c \in Operators, Interrupted(c)
  PROVE  Machine!Next \/ UNCHANGED <<manifest, host>>
<1>1. host' = host \/ (Is(c, "command") /\ Script(call[c].op).ready /\ host' \in Script(call[c].op).broken)
  BY DEF Interrupted, Is
<1>2. \/ UNCHANGED manifest
      \/ /\ call[c].at \in {"mark", "settle"}
         /\ \/ Is(c, "mark") /\ manifest' = Unknown(call[c].op)
            \/ Is(c, "settle") /\ manifest' = Definite(call[c].op)
  BY DEF Interrupted, Is
<1>3. CASE call[c].at = "command"
  <2>1. UNCHANGED manifest
    BY <1>2, <1>3 DEF Is
  <2> QED BY <1>1, <2>1, CommandRefines
<1>4. CASE call[c].at # "command"
  <2>1. UNCHANGED host
    BY <1>1, <1>4 DEF Is
  <2> QED BY <1>2, <2>1, StoreRefines
<1> QED BY <1>3, <1>4

LEMMA PreparationRefines ==
  ASSUME PreparationInv, PreparationStep \/ PreparationAround
  PROVE  Machine!Next \/ UNCHANGED <<manifest, host>>
<1>1. ASSUME NEW c \in Operators, TakeGuard(c) \/ LookAgain(c) \/ TakeClaim(c) \/ ReleaseGuard(c)
      PROVE  UNCHANGED <<manifest, host>>
  BY <1>1 DEF TakeGuard, LookAgain, TakeClaim, ReleaseGuard
<1>2. ASSUME NEW c \in Operators, MarkUnknown(c) \/ Settle(c)
      PROVE  Machine!Next \/ UNCHANGED <<manifest, host>>
  <2>1. UNCHANGED host
    BY <1>2 DEF MarkUnknown, Settle, Store
  <2>2. \/ UNCHANGED manifest
        \/ Is(c, "mark") /\ manifest' = Unknown(call[c].op)
        \/ Is(c, "settle") /\ manifest' = Definite(call[c].op)
    BY <1>2 DEF MarkUnknown, Settle, Store
  <2> QED BY <2>1, <2>2, StoreRefines
<1>3. ASSUME NEW c \in Operators, RunScript(c)
      PROVE  Machine!Next \/ UNCHANGED <<manifest, host>>
  <2>1. /\ Is(c, "command") /\ UNCHANGED manifest
        /\ UNCHANGED host \/ (Script(call[c].op).ready /\ host' = Script(call[c].op).done)
    BY <1>3 DEF RunScript
  <2> QED BY <2>1, CommandRefines
<1>4. ASSUME NEW c \in Operators, StepFails(c) \/ OperatorDies(c)
      PROVE  Machine!Next \/ UNCHANGED <<manifest, host>>
  BY <1>4, InterruptedRefines DEF StepFails, OperatorDies
<1>5. ASSUME NEW c \in Operators, NEW op, Review(c, op) PROVE UNCHANGED <<manifest, host>>
  BY <1>5 DEF Review
<1>6. ASSUME GuestPowersOff PROVE Machine!Next
  <2>1. Machine!PowerOff
    BY <1>6 DEF GuestPowersOff, Machine!PowerOff
  <2> QED BY <2>1 DEF Machine!Next
<1>7. CASE PreparationStep
  <2>1. PICK c \in Operators :
          \/ TakeGuard(c) \/ LookAgain(c) \/ TakeClaim(c) \/ MarkUnknown(c) \/ RunScript(c)
          \/ Settle(c) \/ ReleaseGuard(c) \/ StepFails(c)
    BY <1>7 DEF PreparationStep
  <2> QED BY <1>1, <1>2, <1>3, <1>4, <2>1
<1>8. CASE PreparationAround
  <2>1. GuestPowersOff \/ \E c \in Operators :
           OperatorDies(c) \/ \E op \in {"attach", "launch", "retire"} : Review(c, op)
    BY <1>8 DEF PreparationAround
  <2>2. ASSUME NEW c \in Operators, \E op \in {"attach", "launch", "retire"} : Review(c, op)
        PROVE  UNCHANGED <<manifest, host>>
    BY <1>5, <2>2
  <2>3. CASE GuestPowersOff
    BY <1>6, <2>3
  <2>4. ASSUME NEW c \in Operators, OperatorDies(c)
        PROVE  Machine!Next \/ UNCHANGED <<manifest, host>>
    BY <1>4, <2>4
  <2> QED BY <2>1, <2>2, <2>3, <2>4
<1> QED BY <1>7, <1>8

(* Whatever the operators do, and wherever they die, manifest.json and the  *)
(* machine move as MachineLifecycle allows: announced before the command,   *)
(* one seed, one start, concluded only when it is so, nothing after the     *)
(* retirement (ubuntu_image_preparation.py, ubuntu_seed_attachment.py,      *)
(* ubuntu_preparation_launch.py, ubuntu_preparation_retirement.py).         *)
THEOREM MachineRefined == Spec => ImplementsMachine
<1>1. Init => Machine!Init
  <2> SUFFICES ASSUME Init PROVE Machine!Init
    OBVIOUS
  <2>1. host = NoMachine /\ manifest \in {"none", "provisioning_unknown"}
    BY DEF Init, PreparationRest, CreationBegun
  <2> QED BY <2>1 DEF NoMachine, Machine!Init
<1>2. PreparationInv /\ [Next]_vars => [Machine!Next]_<<manifest, host>>
  <2> SUFFICES ASSUME PreparationInv, [Next]_vars PROVE Machine!Next \/ UNCHANGED <<manifest, host>>
    OBVIOUS
  <2>1. PreparationStep \/ PreparationAround \/ UNCHANGED preparationVars
    BY DEF Next, ProgramStep, Around, ClockNext, restVars, imageVars, vars
  <2>2. CASE UNCHANGED preparationVars
    BY <2>2 DEF preparationVars
  <2> QED BY <2>1, <2>2, PreparationRefines
<1> QED BY <1>1, <1>2, PreparationCorrect, PTL DEF Spec, ImplementsMachine, Machine!Spec

-----------------------------------------------------------------------------
(* The copy of its disk, and what is published of it: ImageMaintenance.    *)

Results == {"none", "prepared_not_started", "maintenance_unknown", "inspected_not_accepted",
            "finalized_not_accepted"}
Successes == {"inspected_not_accepted", "finalized_not_accepted"}
Disks == {"none", "torn", "source", "mounted", "half", "final", "altered"}
AttemptStages == {"off", "prepare", "media", "mark", "claim", "receipt", "store", "done", "failed",
                  "failed_to_store", "raised", "dead", "catch"} \cup InScript

Attempts == [mode : {"none", "inspect", "finalize"}, at : AttemptStages, result : Results,
             unsaved : BOOLEAN, claimed : BOOLEAN, hashed : Disks,
             noted : {"none", "unknown", "off_observed"}]
Benches == [source : {"good", "changed"}, copy : Disks, vm : {"absent", "bare", "ready", "running", "off"}]
Rescues == [at : {"none", "booting", "asked", "reading", "cleaning", "closing", "replied", "gone"},
            ok : BOOLEAN, reply : {"none", "success", "failed"}]
Exports == [claimed : BOOLEAN, image : Disks, policy : BOOLEAN, record : {"none", "torn", "whole"}]

(* The copy as it is to be when the attempt succeeds. *)
Wanted == IF attempt.mode = "inspect" THEN "source" ELSE "final"

AttemptTyped ==
  /\ attempt \in Attempts /\ bench \in Benches /\ rescue \in Rescues
  /\ attempt.mode = "none" <=> attempt.at = "off"

PublicationTyped == export \in Exports /\ pub \in [Operators -> {"new", "claim", "export", "record", "over"}]

(* The copy is what the guest has made of it so far, until it is hashed. *)
CopyFollows ==
  /\ attempt.hashed # "none" => rescue.at = "gone"
  /\ rescue.at = "none" => rescue.reply = "none"
  /\ attempt.hashed = "none" =>
       /\ attempt.at \in {"create", "boot"} => bench.copy = "source"
       /\ attempt.at \in {"off", "prepare", "media", "mark", "claim", "copy", "create", "boot"}
            => rescue.at = "none"
       /\ rescue.at \in {"booting", "asked", "reading"} => bench.copy = "source"
       /\ rescue.at \in {"booting", "asked", "reading", "cleaning", "closing"} => rescue.reply = "none"
       /\ rescue.at = "cleaning" => bench.copy = "mounted" /\ attempt.mode = "finalize"
       /\ rescue.at = "closing" /\ rescue.ok =>
            bench.copy = IF attempt.mode = "inspect" THEN "source" ELSE "mounted"
       /\ rescue.reply = "success" => bench.copy = Wanted
  /\ attempt.at \in {"stop", "verify"} => rescue.reply = "success"

(* What an attempt has established when it gets somewhere. *)
AttemptFollows ==
  /\ attempt.at \in InScript \cup {"catch", "receipt", "store", "failed_to_store", "done"} => attempt.claimed
  /\ attempt.at \in {"off", "prepare", "media", "mark", "claim"} \cup (InScript \ {"remove"})
       => attempt.hashed = "none"
  /\ attempt.at \in {"remove", "receipt", "store", "failed_to_store"} => attempt.hashed = Wanted
  /\ attempt.at \in {"verify", "remove"} => rescue.at = "gone"
  /\ attempt.at \in {"receipt", "store", "failed_to_store"} => bench.vm = "absent"
  /\ attempt.result \in Successes =>
       /\ attempt.at \in {"done", "raised", "dead"} /\ attempt.claimed
       /\ attempt.result = Success /\ attempt.hashed = Wanted /\ bench.vm = "absent"
  /\ attempt.noted # "none" => attempt.at \in {"failed", "raised", "dead"}
  /\ attempt.noted = "off_observed" => bench.vm = "off"

(* One publication gets beyond the claim, and its image is the copy. *)
PublicationFollows ==
  /\ \A p \in Operators :
       /\ pub[p] # "new" => attempt.result = "finalized_not_accepted"
       /\ pub[p] \in {"export", "record"} => export.claimed /\ export.record = "none"
       /\ pub[p] = "export" => export.image = "none"
       /\ pub[p] = "record" => export.image = "final" /\ export.policy
  /\ \A p, q \in Operators : pub[p] \in {"export", "record"} /\ pub[q] \in {"export", "record"} => p = q
  /\ export.claimed => attempt.result = "finalized_not_accepted"
  /\ export.image # "none" => export.claimed
  /\ export.record # "none" => export.image = "final" /\ export.policy /\ export.claimed

MaintenanceInv == AttemptTyped /\ PublicationTyped /\ CopyFollows /\ AttemptFollows /\ PublicationFollows

(* The fields of the attempt that most steps leave alone. *)
Keeps ==
  /\ attempt'.mode = attempt.mode /\ attempt'.result = attempt.result
  /\ attempt'.claimed = attempt.claimed /\ attempt'.hashed = attempt.hashed /\ attempt'.noted = attempt.noted

LEMMA AttemptMoves ==
  ASSUME AttemptTyped, NEW to \in AttemptStages, NEW from, Attempt(from, to)
  PROVE  attempt.at = from /\ attempt' \in Attempts /\ attempt'.at = to /\ Keeps
BY DEF AttemptTyped, Attempts, Attempt, Keeps

(* A step of the attempt concerns no publication. *)
LEMMA AttemptStep ==
  ASSUME MaintenanceInv, attempt' \in Attempts, bench' \in Benches, rescue' \in Rescues,
         attempt'.mode = attempt.mode, attempt.at # "off", attempt'.at # "off",
         attempt.result = "finalized_not_accepted" => attempt'.result = "finalized_not_accepted",
         CopyFollows', AttemptFollows', UNCHANGED <<export, pub>>
  PROVE  MaintenanceInv'
<1>1. AttemptTyped'
  BY DEF MaintenanceInv, AttemptTyped
<1>2. PublicationTyped' /\ PublicationFollows'
  BY DEF MaintenanceInv, PublicationTyped, PublicationFollows
<1> QED BY <1>1, <1>2 DEF MaintenanceInv

(* A step of the attempt alone that hashes nothing. *)
LEMMA AloneStep ==
  ASSUME MaintenanceInv, attempt' \in Attempts, UNCHANGED <<bench, rescue, export, pub>>,
         attempt'.mode = attempt.mode, attempt'.hashed = attempt.hashed, attempt'.noted = attempt.noted,
         attempt.at # "off", attempt'.at # "off", attempt.claimed => attempt'.claimed,
         attempt'.at \in InScript \cup {"catch", "receipt", "store", "failed_to_store", "done"} =>
           attempt'.claimed,
         attempt'.at \in {"prepare", "media", "mark", "claim"} \cup (InScript \ {"remove"}) =>
           attempt.hashed = "none",
         attempt'.at \in {"create", "boot", "verify", "remove", "receipt"} => FALSE,
         attempt'.at \in {"media", "mark", "claim", "copy"} => attempt.at \in {"prepare", "media", "mark", "claim"},
         attempt'.at # "prepare",
         attempt'.at = "stop" => rescue.reply = "success",
         attempt'.at \in {"store", "failed_to_store"} => attempt.at \in {"receipt", "store"},
         attempt.noted # "none" => attempt'.at \in {"failed", "raised", "dead"},
         \/ attempt'.result = attempt.result
            /\ (attempt.at \in {"done", "raised", "dead"} => attempt'.at \in {"done", "raised", "dead"})
         \/ attempt'.result \in {"prepared_not_started", "maintenance_unknown"} /\ attempt.result \notin Successes
         \/ attempt'.result = Success /\ attempt.at \in {"store", "failed_to_store"}
            /\ attempt'.at \in {"done", "raised", "dead"}
  PROVE  MaintenanceInv'
<1>1. CopyFollows /\ AttemptFollows /\ bench \in Benches /\ rescue \in Rescues
  BY DEF MaintenanceInv, AttemptTyped
<1>2. CopyFollows'
  BY <1>1 DEF CopyFollows, Wanted
<1>3. Wanted' = Wanted /\ Success' = Success
  BY DEF Wanted, Success
<1>4. AttemptFollows'
  BY <1>1, <1>3 DEF AttemptFollows, Successes, InScript
<1>5. attempt.result = "finalized_not_accepted" => attempt'.result = "finalized_not_accepted"
  BY <1>1 DEF AttemptFollows, Successes
<1> QED BY <1>1, <1>2, <1>4, <1>5, AttemptStep

LEMMA MovesAloneKeep ==
  ASSUME MaintenanceInv,
         \/ PrepareAttempt \/ WriteMedia \/ ClaimAttempt \/ AwaitReply \/ CheckReceipt
         \/ StoreResult \/ RecordFailure
  PROVE  MaintenanceInv'
<1>0. AttemptTyped /\ CopyFollows /\ AttemptFollows /\ attempt \in Attempts
  BY DEF MaintenanceInv, AttemptTyped
<1>s. AttemptStages = {"off", "prepare", "media", "mark", "claim", "receipt", "store", "done", "failed",
                       "failed_to_store", "raised", "dead", "catch", "copy", "create", "boot", "channel",
                       "guest", "stop", "verify", "remove"}
  BY DEF AttemptStages, InScript
<1>1. CASE PrepareAttempt
  <2>1. /\ attempt.at = "prepare" /\ UNCHANGED <<bench, rescue, export, pub>>
        /\ \/ attempt' = [attempt EXCEPT !.at = "media", !.result = "prepared_not_started"]
           \/ attempt' = [attempt EXCEPT !.at = "raised"]
    BY <1>1 DEF PrepareAttempt
  <2>2. /\ attempt' \in Attempts /\ attempt'.mode = attempt.mode /\ attempt'.claimed = attempt.claimed
        /\ attempt'.hashed = attempt.hashed /\ attempt'.noted = attempt.noted
        /\ \/ attempt'.at = "media" /\ attempt'.result = "prepared_not_started"
           \/ attempt'.at = "raised" /\ attempt'.result = attempt.result
    BY <1>0, <1>s, <2>1 DEF Attempts, Results
  <2> QED BY <1>0, <2>1, <2>2, AloneStep DEF AttemptFollows, InScript
<1>2. CASE WriteMedia
  <2>1. UNCHANGED <<bench, rescue, export, pub>> /\ Attempt("media", "mark")
    BY <1>2 DEF WriteMedia
  <2>2. attempt.at = "media" /\ attempt' \in Attempts /\ attempt'.at = "mark" /\ Keeps
    BY <1>0, <1>s, <2>1, AttemptMoves
  <2> QED BY <1>0, <2>1, <2>2, AloneStep DEF AttemptFollows, InScript, Keeps
<1>3. CASE ClaimAttempt
  <2>1. /\ UNCHANGED <<bench, rescue, export, pub>>
        /\ \/ /\ attempt.at = "mark"
              /\ attempt' = [attempt EXCEPT !.at = "claim", !.result = "maintenance_unknown"]
           \/ /\ attempt.at = "claim"
              /\ attempt' = [attempt EXCEPT !.at = "copy", !.claimed = TRUE]
    BY <1>3 DEF ClaimAttempt
  <2>2. /\ attempt' \in Attempts /\ attempt'.mode = attempt.mode
        /\ attempt'.hashed = attempt.hashed /\ attempt'.noted = attempt.noted
        /\ \/ /\ attempt.at = "mark" /\ attempt'.at = "claim" /\ attempt'.result = "maintenance_unknown"
              /\ attempt'.claimed = attempt.claimed
           \/ /\ attempt.at = "claim" /\ attempt'.at = "copy" /\ attempt'.result = attempt.result
              /\ attempt'.claimed = TRUE
    BY <1>0, <1>s, <2>1 DEF Attempts, Results
  <2> QED BY <1>0, <2>1, <2>2, AloneStep DEF AttemptFollows, InScript
<1>4. CASE AwaitReply
  <2>1. /\ UNCHANGED <<bench, rescue, export, pub>>
        /\ Attempt("guest", "catch") \/ (rescue.reply = "success" /\ Attempt("guest", "stop"))
    BY <1>4 DEF AwaitReply
  <2>2. /\ attempt.at = "guest" /\ attempt' \in Attempts /\ Keeps
        /\ attempt'.at = "catch" \/ (rescue.reply = "success" /\ attempt'.at = "stop")
    BY <1>0, <1>s, <2>1, AttemptMoves
  <2> QED BY <1>0, <2>1, <2>2, AloneStep DEF AttemptFollows, InScript, Keeps
<1>5. CASE CheckReceipt
  <2>1. UNCHANGED <<bench, rescue, export, pub>> /\ (Attempt("receipt", "store") \/ Attempt("receipt", "failed"))
    BY <1>5 DEF CheckReceipt
  <2>2. attempt.at = "receipt" /\ attempt' \in Attempts /\ Keeps /\ attempt'.at \in {"store", "failed"}
    BY <1>0, <1>s, <2>1, AttemptMoves
  <2> QED BY <1>0, <2>1, <2>2, AloneStep DEF AttemptFollows, InScript, Keeps
<1>6. CASE StoreResult
  <2>1. /\ attempt.at = "store" /\ UNCHANGED <<bench, rescue, export, pub>>
        /\ attempt' = [attempt EXCEPT !.at = "done", !.result = Success]
    BY <1>6 DEF StoreResult
  <2>2. Success \in Results
    BY DEF Success, Results
  <2>3. /\ attempt' \in Attempts /\ attempt'.mode = attempt.mode /\ attempt'.claimed = attempt.claimed
        /\ attempt'.hashed = attempt.hashed /\ attempt'.noted = attempt.noted
        /\ attempt'.at = "done" /\ attempt'.result = Success
    BY <1>0, <1>s, <2>1, <2>2 DEF Attempts
  <2> QED BY <1>0, <2>1, <2>3, AloneStep DEF AttemptFollows, InScript
<1>7. CASE RecordFailure
  <2>1. /\ attempt.at \in {"failed", "failed_to_store"} /\ UNCHANGED <<bench, rescue, export, pub>>
        /\ \/ attempt' = [attempt EXCEPT !.at = "raised"]
           \/ attempt.at = "failed_to_store" /\ attempt' = [attempt EXCEPT !.at = "raised", !.result = Success]
    <3>1. [attempt EXCEPT !.at = "raised", !.result = attempt.result] = [attempt EXCEPT !.at = "raised"]
      BY <1>0 DEF Attempts
    <3> QED BY <1>7, <3>1 DEF RecordFailure
  <2>2. Success \in Results
    BY DEF Success, Results
  <2>3. /\ attempt' \in Attempts /\ attempt'.mode = attempt.mode /\ attempt'.claimed = attempt.claimed
        /\ attempt'.hashed = attempt.hashed /\ attempt'.noted = attempt.noted
        /\ attempt'.at = "raised"
        /\ attempt'.result = attempt.result \/ (attempt.at = "failed_to_store" /\ attempt'.result = Success)
    BY <1>0, <1>s, <2>1, <2>2 DEF Attempts
  <2> QED BY <1>0, <2>1, <2>3, AloneStep DEF AttemptFollows, InScript
<1> QED BY <1>1, <1>2, <1>3, <1>4, <1>5, <1>6, <1>7

LEMMA ScriptKeeps ==
  ASSUME MaintenanceInv,
         \/ CopySource \/ CreateRescue \/ StartRescue \/ SendHandshake \/ StopRescue \/ VerifyDisks \/ RemoveRescue
  PROVE  MaintenanceInv'
<1>0. /\ AttemptTyped /\ CopyFollows /\ AttemptFollows
      /\ attempt \in Attempts /\ bench \in Benches /\ rescue \in Rescues
  BY DEF MaintenanceInv, AttemptTyped
<1>s. AttemptStages = {"off", "prepare", "media", "mark", "claim", "receipt", "store", "done", "failed",
                       "failed_to_store", "raised", "dead", "catch", "copy", "create", "boot", "channel",
                       "guest", "stop", "verify", "remove"}
  BY DEF AttemptStages, InScript
<1>r. attempt.at \in InScript => attempt.result # "finalized_not_accepted"
  BY <1>0 DEF AttemptFollows, InScript, Successes
<1>1. CASE CopySource
  <2>1. /\ UNCHANGED <<rescue, export, pub>>
        /\ Attempt("copy", IF bench.source = "good" THEN "create" ELSE "catch")
        /\ bench' = [bench EXCEPT !.copy = IF bench.source = "good" THEN "source" ELSE bench.copy]
    BY <1>1 DEF CopySource
  <2>2. /\ attempt.at = "copy" /\ attempt' \in Attempts /\ Keeps
        /\ attempt'.at = IF bench.source = "good" THEN "create" ELSE "catch"
    BY <1>0, <1>s, <2>1, AttemptMoves
  <2>3. /\ bench' \in Benches /\ bench'.vm = bench.vm
        /\ bench'.copy = IF bench.source = "good" THEN "source" ELSE bench.copy
    BY <1>0, <2>1 DEF Benches, Disks
  <2>4. CopyFollows' /\ AttemptFollows'
    BY <1>0, <2>1, <2>2, <2>3 DEF CopyFollows, AttemptFollows, Wanted, InScript, Successes, Keeps
  <2> QED BY <1>0, <1>r, <2>1, <2>2, <2>3, <2>4, AttemptStep DEF Keeps, InScript
<1>2. CASE CreateRescue
  <2>1. UNCHANGED <<rescue, export, pub>> /\ Attempt("create", "boot") /\ bench' = [bench EXCEPT !.vm = "ready"]
    BY <1>2 DEF CreateRescue
  <2>2. attempt.at = "create" /\ attempt' \in Attempts /\ Keeps /\ attempt'.at = "boot"
    BY <1>0, <1>s, <2>1, AttemptMoves
  <2>3. bench' \in Benches /\ bench'.vm = "ready" /\ bench'.copy = bench.copy
    BY <1>0, <2>1 DEF Benches
  <2>4. CopyFollows' /\ AttemptFollows'
    BY <1>0, <2>1, <2>2, <2>3 DEF CopyFollows, AttemptFollows, Wanted, InScript, Successes, Keeps
  <2> QED BY <1>0, <1>r, <2>1, <2>2, <2>3, <2>4, AttemptStep DEF Keeps, InScript
<1>3. CASE StartRescue
  <2>1. /\ UNCHANGED <<export, pub>> /\ Attempt("boot", "channel") /\ bench' = [bench EXCEPT !.vm = "running"]
        /\ rescue' = [rescue EXCEPT !.at = "booting"]
    BY <1>3 DEF StartRescue
  <2>2. attempt.at = "boot" /\ attempt' \in Attempts /\ Keeps /\ attempt'.at = "channel"
    BY <1>0, <1>s, <2>1, AttemptMoves
  <2>3. bench' \in Benches /\ bench'.vm = "running" /\ bench'.copy = bench.copy
    BY <1>0, <2>1 DEF Benches
  <2>4. rescue' \in Rescues /\ rescue'.at = "booting" /\ rescue'.reply = rescue.reply
    BY <1>0, <2>1 DEF Rescues
  <2>5. CopyFollows' /\ AttemptFollows'
    BY <1>0, <2>2, <2>3, <2>4 DEF CopyFollows, AttemptFollows, Wanted, InScript, Successes, Keeps
  <2> QED BY <1>0, <1>r, <2>1, <2>2, <2>3, <2>4, <2>5, AttemptStep DEF Keeps, InScript
<1>4. CASE SendHandshake
  <2>1. /\ UNCHANGED <<bench, export, pub>> /\ Attempt("channel", "guest")
        /\ rescue' = [rescue EXCEPT !.at = IF rescue.at = "booting" THEN "asked" ELSE rescue.at]
    BY <1>4 DEF SendHandshake
  <2>2. attempt.at = "channel" /\ attempt' \in Attempts /\ Keeps /\ attempt'.at = "guest"
    BY <1>0, <1>s, <2>1, AttemptMoves
  <2>3. /\ rescue' \in Rescues /\ rescue'.at = (IF rescue.at = "booting" THEN "asked" ELSE rescue.at)
        /\ rescue'.reply = rescue.reply /\ rescue'.ok = rescue.ok
    BY <1>0, <2>1 DEF Rescues
  <2>4. CopyFollows' /\ AttemptFollows'
    BY <1>0, <2>1, <2>2, <2>3 DEF CopyFollows, AttemptFollows, Wanted, InScript, Successes, Keeps
  <2> QED BY <1>0, <1>r, <2>1, <2>2, <2>3, <2>4, AttemptStep DEF Keeps, InScript
<1>5. CASE StopRescue
  <2>1. /\ UNCHANGED <<export, pub>> /\ Attempt("stop", "verify")
        /\ bench' = [bench EXCEPT !.vm = "off", !.copy = Settled]
        /\ rescue' = [rescue EXCEPT !.at = "gone"]
    BY <1>5 DEF StopRescue
  <2>2. attempt.at = "stop" /\ attempt' \in Attempts /\ Keeps /\ attempt'.at = "verify"
    BY <1>0, <1>s, <2>1, AttemptMoves
  <2>3. bench' \in Benches /\ bench'.vm = "off" /\ bench'.copy = Settled
    BY <1>0, <2>1 DEF Benches, Disks, Settled
  <2>4. rescue' \in Rescues /\ rescue'.at = "gone" /\ rescue'.reply = rescue.reply
    BY <1>0, <2>1 DEF Rescues
  <2>5. CopyFollows' /\ AttemptFollows'
    BY <1>0, <2>2, <2>3, <2>4 DEF CopyFollows, AttemptFollows, Wanted, InScript, Successes, Keeps, Settled
  <2> QED BY <1>0, <1>r, <2>1, <2>2, <2>3, <2>4, <2>5, AttemptStep DEF Keeps, InScript
<1>6. CASE VerifyDisks
  <2>1. /\ attempt.at = "verify" /\ UNCHANGED <<bench, rescue, export, pub>>
        /\ attempt' = [attempt EXCEPT !.at = "remove", !.hashed = bench.copy]
    BY <1>6 DEF VerifyDisks
  <2>2. /\ attempt' \in Attempts /\ attempt'.at = "remove" /\ attempt'.hashed = bench.copy
        /\ attempt'.mode = attempt.mode /\ attempt'.result = attempt.result
        /\ attempt'.claimed = attempt.claimed /\ attempt'.noted = attempt.noted
    BY <1>0, <1>s, <2>1 DEF Attempts, Benches
  <2>3. bench.copy = Wanted /\ rescue.at = "gone"
    BY <1>0, <2>1 DEF CopyFollows, AttemptFollows, InScript
  <2>4. CopyFollows' /\ AttemptFollows'
    BY <1>0, <2>1, <2>2, <2>3 DEF CopyFollows, AttemptFollows, Wanted, InScript, Successes
  <2> QED BY <1>0, <1>r, <2>1, <2>2, <2>4, AttemptStep DEF InScript
<1>7. CASE RemoveRescue
  <2>1. UNCHANGED <<rescue, export, pub>> /\ Attempt("remove", "receipt") /\ bench' = [bench EXCEPT !.vm = "absent"]
    BY <1>7 DEF RemoveRescue
  <2>2. attempt.at = "remove" /\ attempt' \in Attempts /\ Keeps /\ attempt'.at = "receipt"
    BY <1>0, <1>s, <2>1, AttemptMoves
  <2>3. bench' \in Benches /\ bench'.vm = "absent" /\ bench'.copy = bench.copy
    BY <1>0, <2>1 DEF Benches
  <2>4. CopyFollows' /\ AttemptFollows'
    BY <1>0, <2>1, <2>2, <2>3 DEF CopyFollows, AttemptFollows, Wanted, InScript, Successes, Keeps
  <2> QED BY <1>0, <1>r, <2>1, <2>2, <2>3, <2>4, AttemptStep DEF Keeps, InScript
<1> QED BY <1>1, <1>2, <1>3, <1>4, <1>5, <1>6, <1>7

(* A step cut short, or the catch: the attempt moves on to its end. *)
LEMMA HalfDoneIs ==
  ASSUME MaintenanceInv, HalfDone
  PROVE  /\ bench' \in Benches /\ rescue' \in Rescues /\ rescue'.reply = rescue.reply
         /\ rescue'.ok = rescue.ok
         /\ \/ UNCHANGED <<bench, rescue>>
            \/ attempt.at = "copy" /\ UNCHANGED rescue /\ bench'.vm = bench.vm
            \/ attempt.at \in {"create", "remove"} /\ UNCHANGED rescue /\ bench'.copy = bench.copy
            \/ attempt.at = "boot" /\ bench'.copy = bench.copy /\ rescue'.at = "booting"
<1>0. bench \in Benches /\ rescue \in Rescues
  BY DEF MaintenanceInv, AttemptTyped
<1>1. CASE UNCHANGED <<bench, rescue>>
  BY <1>0, <1>1
<1>2. CASE attempt.at = "copy" /\ bench' = [bench EXCEPT !.copy = "torn"] /\ UNCHANGED rescue
  BY <1>0, <1>2 DEF Benches, Disks
<1>3. CASE attempt.at = "create" /\ UNCHANGED rescue
           /\ \E vm \in {"bare", "ready"} : bench' = [bench EXCEPT !.vm = vm]
  BY <1>0, <1>3 DEF Benches
<1>4. CASE attempt.at = "boot" /\ bench' = [bench EXCEPT !.vm = "running"]
           /\ rescue' = [rescue EXCEPT !.at = "booting"]
  <2>1. bench' \in Benches /\ bench'.copy = bench.copy
    BY <1>0, <1>4 DEF Benches
  <2>2. rescue' \in Rescues /\ rescue'.at = "booting" /\ rescue'.reply = rescue.reply /\ rescue'.ok = rescue.ok
    BY <1>0, <1>4 DEF Rescues
  <2> QED BY <1>4, <2>1, <2>2
<1>5. CASE attempt.at = "remove" /\ bench' = [bench EXCEPT !.vm = "absent"] /\ UNCHANGED rescue
  BY <1>0, <1>5 DEF Benches
<1> QED BY <1>1, <1>2, <1>3, <1>4, <1>5 DEF HalfDone

(* An attempt cut short in its script. *)
LEMMA CutShort ==
  ASSUME MaintenanceInv, HalfDone, attempt' \in Attempts, Keeps, attempt'.at \in {"catch", "failed", "dead"},
         attempt.at \in InScript \cup {"catch"}, UNCHANGED <<export, pub>>
  PROVE  MaintenanceInv'
<1>0. /\ AttemptTyped /\ CopyFollows /\ AttemptFollows
  BY DEF MaintenanceInv, AttemptTyped
<1>1. /\ bench' \in Benches /\ rescue' \in Rescues /\ rescue'.reply = rescue.reply
      /\ rescue'.ok = rescue.ok
      /\ \/ UNCHANGED <<bench, rescue>>
         \/ attempt.at = "copy" /\ UNCHANGED rescue /\ bench'.vm = bench.vm
         \/ attempt.at \in {"create", "remove"} /\ UNCHANGED rescue /\ bench'.copy = bench.copy
         \/ attempt.at = "boot" /\ bench'.copy = bench.copy /\ rescue'.at = "booting"
  BY HalfDoneIs
<1>2. CopyFollows'
  BY <1>0, <1>1 DEF CopyFollows, AttemptFollows, Wanted, Keeps, InScript
<1>3. attempt.noted = "none" /\ attempt.result \notin Successes
  BY <1>0 DEF AttemptFollows, InScript
<1>4. AttemptFollows'
  BY <1>0, <1>1, <1>3 DEF AttemptFollows, InScript, Keeps
<1> QED BY <1>0, <1>1, <1>2, <1>3, <1>4, AttemptStep DEF Keeps, InScript, Successes

LEMMA FailureKeeps ==
  ASSUME MaintenanceInv, StopAfterFailure \/ AttemptFails \/ ScriptKilled \/ AttemptDies
  PROVE  MaintenanceInv'
<1>0. /\ AttemptTyped /\ CopyFollows /\ AttemptFollows
      /\ attempt \in Attempts /\ bench \in Benches /\ rescue \in Rescues
  BY DEF MaintenanceInv, AttemptTyped
<1>s. AttemptStages = {"off", "prepare", "media", "mark", "claim", "receipt", "store", "done", "failed",
                       "failed_to_store", "raised", "dead", "catch", "copy", "create", "boot", "channel",
                       "guest", "stop", "verify", "remove"}
  BY DEF AttemptStages, InScript
<1>1. CASE StopAfterFailure
  <2>1. PICK stopped \in BOOLEAN, noted \in {"none", "unknown", "off_observed"} :
          /\ noted = "off_observed" => stopped
          /\ bench' = IF stopped THEN [bench EXCEPT !.vm = "off", !.copy = Settled] ELSE bench
          /\ rescue' = IF stopped THEN [rescue EXCEPT !.at = "gone"] ELSE rescue
          /\ attempt' = [attempt EXCEPT !.at = "failed", !.noted = noted]
    BY <1>1 DEF StopAfterFailure
  <2>2. attempt.at = "catch" /\ UNCHANGED <<export, pub>>
    BY <1>1 DEF StopAfterFailure
  <2>3. /\ attempt' \in Attempts /\ attempt'.at = "failed" /\ attempt'.noted = noted
        /\ attempt'.mode = attempt.mode /\ attempt'.result = attempt.result
        /\ attempt'.claimed = attempt.claimed /\ attempt'.hashed = attempt.hashed
    BY <1>0, <1>s, <2>1 DEF Attempts
  <2>4. /\ bench' \in Benches
        /\ IF stopped THEN bench'.vm = "off" /\ bench'.copy = Settled ELSE bench' = bench
    BY <1>0, <2>1 DEF Benches, Disks, Settled
  <2>5. /\ rescue' \in Rescues /\ rescue'.reply = rescue.reply /\ rescue'.ok = rescue.ok
        /\ rescue'.at = IF stopped THEN "gone" ELSE rescue.at
    BY <1>0, <2>1 DEF Rescues
  <2>6. CopyFollows'
    BY <1>0, <2>2, <2>3, <2>4, <2>5 DEF CopyFollows, Wanted, Settled, InScript
  <2>7. attempt.result \notin Successes
    BY <1>0, <2>2 DEF AttemptFollows
  <2>8. AttemptFollows'
    BY <1>0, <2>1, <2>2, <2>3, <2>4, <2>7 DEF AttemptFollows, InScript
  <2> QED BY <2>2, <2>3, <2>4, <2>5, <2>6, <2>7, <2>8, AttemptStep DEF Successes
<1>2. CASE AttemptFails
  <2>1. CASE attempt.at \in InScript /\ Attempt(attempt.at, "catch") /\ HalfDone
    <3>1. attempt' \in Attempts /\ attempt'.at = "catch" /\ Keeps /\ UNCHANGED <<export, pub>>
      BY <1>0, <1>2, <1>s, <2>1, AttemptMoves DEF AttemptFails
    <3> QED BY <2>1, <3>1, CutShort
  <2>2. CASE Attempt("receipt", "failed") /\ UNCHANGED <<bench, rescue>>
    <3>1. /\ attempt.at = "receipt" /\ attempt' \in Attempts /\ attempt'.at = "failed" /\ Keeps
          /\ UNCHANGED <<export, pub>>
      BY <1>0, <1>2, <1>s, <2>2, AttemptMoves DEF AttemptFails
    <3> QED BY <1>0, <2>2, <3>1, AloneStep DEF AttemptFollows, InScript, Keeps
  <2>3. CASE /\ \E unsaved \in BOOLEAN, claimed \in {attempt.claimed, attempt.at = "claim"} :
                  /\ attempt.claimed => claimed
                  /\ attempt' = [attempt EXCEPT !.at = IF attempt.at = "store" THEN "failed_to_store" ELSE "raised",
                                                !.unsaved = unsaved, !.claimed = claimed]
             /\ attempt.at \in {"prepare", "media", "claim"} \/ Storing
             /\ UNCHANGED <<bench, rescue>>
    <3>1. PICK unsaved \in BOOLEAN, claimed \in {attempt.claimed, attempt.at = "claim"} :
            /\ attempt.claimed => claimed
            /\ attempt' = [attempt EXCEPT !.at = IF attempt.at = "store" THEN "failed_to_store" ELSE "raised",
                                          !.unsaved = unsaved, !.claimed = claimed]
      BY <2>3
    <3>2. attempt.at \in {"prepare", "media", "claim", "mark", "store", "failed", "failed_to_store"}
      BY <2>3 DEF Storing
    <3>3. claimed \in BOOLEAN
      BY <1>0, <3>1 DEF Attempts
    <3>4. /\ attempt' \in Attempts /\ attempt'.claimed = claimed
          /\ attempt'.at = (IF attempt.at = "store" THEN "failed_to_store" ELSE "raised")
          /\ attempt'.mode = attempt.mode /\ attempt'.result = attempt.result
          /\ attempt'.noted = attempt.noted /\ attempt'.hashed = attempt.hashed
      BY <1>0, <1>s, <3>1, <3>3 DEF Attempts
    <3>5. UNCHANGED <<export, pub>>
      BY <1>2 DEF AttemptFails
    <3> QED BY <1>0, <2>3, <3>1, <3>2, <3>4, <3>5, AloneStep DEF AttemptFollows, InScript
  <2> QED BY <1>2, <2>1, <2>2, <2>3 DEF AttemptFails
<1>3. CASE ScriptKilled
  <2>1. /\ attempt.at \in InScript \cup {"catch"} /\ Attempt(attempt.at, "failed") /\ HalfDone
        /\ UNCHANGED <<export, pub>>
    BY <1>3 DEF ScriptKilled
  <2>2. attempt' \in Attempts /\ attempt'.at = "failed" /\ Keeps
    BY <1>0, <1>s, <2>1, AttemptMoves
  <2> QED BY <2>1, <2>2, CutShort
<1>4. CASE AttemptDies
  <2>1. /\ attempt.at \notin {"off", "done", "raised", "dead"} /\ HalfDone /\ UNCHANGED <<export, pub>>
    BY <1>4 DEF AttemptDies
  <2>2. PICK unsaved \in BOOLEAN, stored \in {attempt.result, Success} :
          /\ stored = Success => attempt.at \in {"store", "failed_to_store"} /\ ~attempt.unsaved
          /\ attempt' = [attempt EXCEPT !.at = "dead", !.unsaved = unsaved, !.result = stored]
    BY <1>4 DEF AttemptDies
  <2>3. stored \in Results
    BY <1>0, <2>2 DEF Success, Results, Attempts
  <2>4. /\ attempt' \in Attempts /\ attempt'.at = "dead" /\ attempt'.result = stored
        /\ attempt'.mode = attempt.mode /\ attempt'.claimed = attempt.claimed
        /\ attempt'.noted = attempt.noted /\ attempt'.hashed = attempt.hashed
    BY <1>0, <1>s, <2>2, <2>3 DEF Attempts
  <2>5. CASE attempt.at \in InScript \cup {"catch"}
    <3>1. stored = attempt.result
      BY <2>2, <2>5 DEF InScript
    <3> QED BY <2>1, <2>4, <2>5, <3>1, CutShort DEF Keeps
  <2>6. CASE attempt.at \notin InScript \cup {"catch"}
    <3>1. UNCHANGED <<bench, rescue>>
      BY <2>1, <2>6 DEF HalfDone, InScript
    <3> QED BY <1>0, <2>1, <2>2, <2>4, <2>6, <3>1, AloneStep DEF AttemptFollows, InScript
  <2> QED BY <2>5, <2>6
<1> QED BY <1>1, <1>2, <1>3, <1>4

(* The guest at work in the machine. *)
LEMMA GuestKeeps ==
  ASSUME MaintenanceInv, UNCHANGED <<attempt, export, pub>>,
         GuestRefuses \/ GuestMounts \/ GuestInspects \/ GuestFinalizes \/ GuestCloses
  PROVE  MaintenanceInv'
<1>0. /\ AttemptTyped /\ CopyFollows /\ AttemptFollows
      /\ attempt \in Attempts /\ bench \in Benches /\ rescue \in Rescues
  BY DEF MaintenanceInv, AttemptTyped
<1>2. CASE GuestRefuses \/ GuestMounts
  <2>1. /\ bench' = bench
        /\ \/ rescue.at = "booting" /\ rescue' = [rescue EXCEPT !.at = "gone"]
           \/ rescue.at = "asked" /\ rescue' = [rescue EXCEPT !.at = "reading"]
           \/ rescue.at = "asked" /\ rescue' = [rescue EXCEPT !.at = "closing", !.ok = FALSE]
    BY <1>2 DEF GuestRefuses, GuestMounts, Guest, GuestEnds
  <2>2. /\ rescue' \in Rescues /\ rescue'.reply = rescue.reply
        /\ \/ rescue.at = "booting" /\ rescue'.at = "gone"
           \/ rescue.at = "asked" /\ rescue'.at = "reading"
           \/ rescue.at = "asked" /\ rescue'.at = "closing" /\ ~rescue'.ok
    BY <1>0, <2>1 DEF Rescues
  <2>3. CopyFollows' /\ AttemptFollows'
    BY <1>0, <2>1, <2>2 DEF CopyFollows, AttemptFollows, Wanted, InScript, Success
  <2>4. attempt.at # "off"
    BY <1>0, <2>2 DEF CopyFollows, AttemptFollows, AttemptTyped
  <2> QED BY <1>0, <2>1, <2>2, <2>3, <2>4, AttemptStep
<1>3. CASE GuestInspects
  <2>1. \/ /\ attempt.mode = "inspect" /\ rescue.at = "reading" /\ bench' = bench
           /\ rescue' = [rescue EXCEPT !.at = "closing", !.ok = TRUE]
        \/ /\ attempt.mode = "finalize" /\ rescue.at = "reading" /\ bench' = [bench EXCEPT !.copy = "mounted"]
           /\ rescue' = [rescue EXCEPT !.at = "cleaning"]
        \/ /\ rescue.at = "reading" /\ bench' = bench
           /\ rescue' = [rescue EXCEPT !.at = "closing", !.ok = FALSE]
    BY <1>3 DEF GuestInspects, Guest, GuestEnds
  <2>2. /\ rescue' \in Rescues /\ rescue'.reply = rescue.reply /\ rescue.at = "reading"
        /\ bench' \in Benches /\ bench'.vm = bench.vm
        /\ \/ attempt.mode = "inspect" /\ rescue'.at = "closing" /\ bench'.copy = bench.copy
           \/ attempt.mode = "finalize" /\ rescue'.at = "cleaning" /\ bench'.copy = "mounted"
           \/ rescue'.at = "closing" /\ ~rescue'.ok /\ bench'.copy = bench.copy
    BY <1>0, <2>1 DEF Rescues, Benches, Disks
  <2>3. CopyFollows' /\ AttemptFollows'
    BY <1>0, <2>2 DEF CopyFollows, AttemptFollows, Wanted, InScript, Success
  <2>4. attempt.at # "off"
    BY <1>0, <2>2 DEF CopyFollows, AttemptFollows, AttemptTyped
  <2> QED BY <1>0, <2>2, <2>3, <2>4, AttemptStep
<1>4. CASE GuestFinalizes
  <2>1. PICK ok \in BOOLEAN : rescue.at = "cleaning" /\ rescue' = [rescue EXCEPT !.at = "closing", !.ok = ok]
    BY <1>4 DEF GuestFinalizes, GuestEnds
  <2>2. /\ rescue' \in Rescues /\ rescue'.reply = rescue.reply /\ rescue'.at = "closing"
        /\ bench' = bench /\ rescue.at = "cleaning"
    BY <1>0, <1>4, <2>1 DEF Rescues, GuestFinalizes
  <2>3. CopyFollows' /\ AttemptFollows'
    BY <1>0, <2>2 DEF CopyFollows, AttemptFollows, Wanted, InScript, Success
  <2>4. attempt.at # "off"
    BY <1>0, <2>2 DEF CopyFollows, AttemptFollows, AttemptTyped
  <2> QED BY <1>0, <2>2, <2>3, <2>4, AttemptStep
<1>5. CASE GuestCloses
  <2>1. PICK unmounted \in BOOLEAN :
          /\ rescue' = [rescue EXCEPT !.at = "replied",
                          !.reply = IF rescue.ok /\ unmounted THEN "success" ELSE "failed"]
          /\ bench' = [bench EXCEPT !.copy =
                          IF bench.copy # "mounted" \/ ~unmounted THEN bench.copy
                          ELSE IF rescue.ok THEN "final" ELSE "half"]
    BY <1>5 DEF GuestCloses
  <2>2. /\ rescue' \in Rescues /\ rescue'.at = "replied"
        /\ rescue'.reply = IF rescue.ok /\ unmounted THEN "success" ELSE "failed"
    BY <1>0, <2>1 DEF Rescues
  <2>3. /\ bench' \in Benches /\ bench'.vm = bench.vm
        /\ bench'.copy = IF bench.copy # "mounted" \/ ~unmounted THEN bench.copy
                         ELSE IF rescue.ok THEN "final" ELSE "half"
    BY <1>0, <2>1 DEF Benches, Disks
  <2>4. rescue.at = "closing"
    BY <1>5 DEF GuestCloses
  <2>5. CopyFollows' /\ AttemptFollows'
    BY <1>0, <2>2, <2>3, <2>4 DEF CopyFollows, AttemptFollows, Wanted, InScript, Success
  <2>6. attempt.at # "off"
    BY <1>0, <2>4 DEF CopyFollows, AttemptFollows, AttemptTyped
  <2> QED BY <1>0, <2>2, <2>3, <2>5, <2>6, AttemptStep
<1> QED BY <1>2, <1>3, <1>4, <1>5

LEMMA TornExportsAre ==
  ASSUME NEW torn, torn \in TornExports
  PROVE  \E image \in {"torn", bench.copy}, policy \in BOOLEAN :
           torn = [export EXCEPT !.image = image, !.policy = policy]
BY DEF TornExports

(* Publications, and what other programs write. *)
LEMMA PublicationKeeps ==
  ASSUME MaintenanceInv, NEW p \in Operators,
         \/ BeginPublication(p) \/ ClaimPublication(p) \/ ExportCopy(p) \/ RecordProvenance(p)
         \/ PublicationFails(p)
  PROVE  MaintenanceInv'
<1>0. /\ AttemptTyped /\ CopyFollows /\ AttemptFollows /\ PublicationFollows /\ bench \in Benches
      /\ export \in Exports /\ pub \in [Operators -> {"new", "claim", "export", "record", "over"}]
  BY DEF MaintenanceInv, AttemptTyped, PublicationTyped
<1>1. UNCHANGED <<attempt, bench, rescue>>
  BY DEF BeginPublication, ClaimPublication, ExportCopy, RecordProvenance, PublicationFails
<1>2. AttemptTyped' /\ CopyFollows' /\ AttemptFollows'
  BY <1>0, <1>1 DEF AttemptTyped, CopyFollows, AttemptFollows, Wanted, Success
<1>3. ASSUME CopyIsAccepted, attempt.result = "finalized_not_accepted" PROVE bench.copy = "final"
  <2>1. attempt.hashed = Wanted /\ attempt.result = Success
    BY <1>0, <1>3 DEF AttemptFollows, Successes
  <2>2. attempt.mode # "inspect"
    BY <1>3, <2>1 DEF Success
  <2> QED BY <1>3, <2>1, <2>2 DEF CopyIsAccepted, Wanted
<1>a. CASE BeginPublication(p)
  <2>1. attempt.result = "finalized_not_accepted" /\ pub' = [pub EXCEPT ![p] = "claim"] /\ export' = export
    BY <1>a DEF BeginPublication
  <2>2. PublicationTyped' /\ PublicationFollows'
    BY <1>0, <1>1, <2>1 DEF PublicationTyped, PublicationFollows
  <2> QED BY <1>2, <2>2 DEF MaintenanceInv
<1>b. CASE ClaimPublication(p)
  <2>1. /\ pub[p] = "claim" /\ export' = [export EXCEPT !.claimed = TRUE]
        /\ pub' = [pub EXCEPT ![p] = IF export.claimed THEN "over" ELSE "export"]
    BY <1>b DEF ClaimPublication
  <2>2. /\ export' \in Exports /\ export'.claimed /\ export'.image = export.image
        /\ export'.policy = export.policy /\ export'.record = export.record
    BY <1>0, <2>1 DEF Exports
  <2>3. attempt.result = "finalized_not_accepted"
    BY <1>0, <2>1 DEF PublicationFollows
  <2>4. CASE export.claimed
    <3>1. pub' = [pub EXCEPT ![p] = "over"]
      BY <2>1, <2>4
    <3>2. PublicationTyped' /\ PublicationFollows'
      BY <1>0, <1>1, <2>1, <2>2, <2>3, <2>4, <3>1 DEF PublicationTyped, PublicationFollows
    <3> QED BY <1>2, <3>2 DEF MaintenanceInv
  <2>5. CASE ~export.claimed
    <3>1. pub' = [pub EXCEPT ![p] = "export"]
      BY <2>1, <2>5
    <3>2. export.image = "none" /\ export.record = "none" /\ \A q \in Operators : pub[q] \notin {"export", "record"}
      BY <1>0, <2>5 DEF PublicationFollows
    <3>3. PublicationTyped' /\ PublicationFollows'
      BY <1>0, <1>1, <2>1, <2>2, <2>3, <3>1, <3>2 DEF PublicationTyped, PublicationFollows
    <3> QED BY <1>2, <3>3 DEF MaintenanceInv
  <2> QED BY <2>4, <2>5
<1>c. CASE ExportCopy(p)
  <2>0. pub[p] = "export" /\ attempt.result = "finalized_not_accepted" /\ export.claimed
        /\ export.image = "none" /\ export.record = "none"
    BY <1>0, <1>c DEF ExportCopy, PublicationFollows
  <2>1. CASE CopyIsAccepted /\ export' = [export EXCEPT !.image = bench.copy, !.policy = TRUE]
             /\ pub' = [pub EXCEPT ![p] = "record"]
    <3>1. bench.copy = "final"
      BY <1>3, <2>0, <2>1
    <3>2. /\ export' \in Exports /\ export'.image = "final" /\ export'.policy
          /\ export'.claimed = export.claimed /\ export'.record = export.record
      BY <1>0, <2>1, <3>1 DEF Exports, Disks
    <3>3. PublicationTyped' /\ PublicationFollows'
      BY <1>0, <1>1, <2>0, <2>1, <3>2 DEF PublicationTyped, PublicationFollows
    <3> QED BY <1>2, <3>3 DEF MaintenanceInv
  <2>2. CASE pub' = [pub EXCEPT ![p] = "over"] /\ UNCHANGED export
    <3>1. PublicationTyped' /\ PublicationFollows'
      BY <1>0, <1>1, <2>0, <2>2 DEF PublicationTyped, PublicationFollows
    <3> QED BY <1>2, <3>1 DEF MaintenanceInv
  <2> QED BY <1>c, <2>1, <2>2 DEF ExportCopy
<1>d. CASE RecordProvenance(p)
  <2>1. pub[p] = "record" /\ export' = [export EXCEPT !.record = "whole"] /\ pub' = [pub EXCEPT ![p] = "over"]
    BY <1>d DEF RecordProvenance
  <2>2. /\ export' \in Exports /\ export'.claimed = export.claimed /\ export'.image = export.image
        /\ export'.policy = export.policy
    BY <1>0, <2>1 DEF Exports
  <2>3. /\ export.image = "final" /\ export.policy /\ export.claimed
        /\ \A q \in Operators : q # p => pub[q] \notin {"export", "record"}
    BY <1>0, <2>1 DEF PublicationFollows
  <2>4. PublicationTyped' /\ PublicationFollows'
    BY <1>0, <1>1, <2>1, <2>2, <2>3 DEF PublicationTyped, PublicationFollows
  <2> QED BY <1>2, <2>4 DEF MaintenanceInv
<1>e. CASE PublicationFails(p)
  <2>0. pub[p] \in {"claim", "export", "record"} /\ pub' = [pub EXCEPT ![p] = "over"]
        /\ attempt.result = "finalized_not_accepted"
    BY <1>0, <1>e DEF PublicationFails, PublicationFollows
  <2> DEFINE claimed == [export EXCEPT !.claimed = TRUE]
             torn == [export EXCEPT !.record = "torn"]
  <2>1. export' \in {export} \cup CASE pub[p] = "claim" -> {claimed}
                                    [] pub[p] = "export" /\ CopyIsAccepted -> TornExports
                                    [] pub[p] = "record" -> {torn}
                                    [] OTHER -> {}
    BY <1>e DEF PublicationFails
  <2> HIDE DEF claimed, torn
  <2>2. \/ export' = export
        \/ pub[p] = "claim" /\ export' = claimed
        \/ pub[p] = "export" /\ CopyIsAccepted /\ export' \in TornExports
        \/ pub[p] = "record" /\ export' = torn
    BY <2>0, <2>1
  <2>3. CASE export' = export
    <3>1. PublicationTyped' /\ PublicationFollows'
      BY <1>0, <1>1, <2>0, <2>3 DEF PublicationTyped, PublicationFollows
    <3> QED BY <1>2, <3>1 DEF MaintenanceInv
  <2>4. CASE pub[p] = "claim" /\ export' = claimed
    <3>1. /\ export' \in Exports /\ export'.claimed /\ export'.image = export.image
          /\ export'.policy = export.policy /\ export'.record = export.record
      BY <1>0, <2>4 DEF Exports, claimed
    <3>2. PublicationTyped' /\ PublicationFollows'
      BY <1>0, <1>1, <2>0, <3>1 DEF PublicationTyped, PublicationFollows
    <3> QED BY <1>2, <3>2 DEF MaintenanceInv
  <2>5. CASE pub[p] = "export" /\ CopyIsAccepted /\ export' \in TornExports
    <3>1. PICK image \in {"torn", bench.copy}, policy \in BOOLEAN :
            export' = [export EXCEPT !.image = image, !.policy = policy]
      BY <2>5, TornExportsAre
    <3>2. image \in Disks
      BY <1>0, <3>1 DEF Benches, Disks
    <3>3. /\ export' \in Exports /\ export'.claimed = export.claimed /\ export'.record = export.record
      BY <1>0, <3>1, <3>2 DEF Exports
    <3>4. export.claimed /\ export.record = "none"
          /\ \A q \in Operators : q # p => pub[q] \notin {"export", "record"}
      BY <1>0, <2>5 DEF PublicationFollows
    <3>5. PublicationTyped' /\ PublicationFollows'
      BY <1>0, <1>1, <2>0, <3>3, <3>4 DEF PublicationTyped, PublicationFollows
    <3> QED BY <1>2, <3>5 DEF MaintenanceInv
  <2>6. CASE pub[p] = "record" /\ export' = torn
    <3>1. /\ export' \in Exports /\ export'.claimed = export.claimed /\ export'.image = export.image
          /\ export'.policy = export.policy
      BY <1>0, <2>6 DEF Exports, torn
    <3>2. /\ export.image = "final" /\ export.policy /\ export.claimed
          /\ \A q \in Operators : q # p => pub[q] \notin {"export", "record"}
      BY <1>0, <2>6 DEF PublicationFollows
    <3>3. PublicationTyped' /\ PublicationFollows'
      BY <1>0, <1>1, <2>0, <3>1, <3>2 DEF PublicationTyped, PublicationFollows
    <3> QED BY <1>2, <3>3 DEF MaintenanceInv
  <2> QED BY <2>2, <2>3, <2>4, <2>5, <2>6
<1> QED BY <1>a, <1>b, <1>c, <1>d, <1>e

LEMMA DiskChangesKeep == ASSUME MaintenanceInv, DiskChanges PROVE MaintenanceInv'
<1>0. /\ AttemptTyped /\ CopyFollows /\ AttemptFollows
      /\ attempt \in Attempts /\ bench \in Benches /\ rescue \in Rescues
  BY DEF MaintenanceInv, AttemptTyped
<1>1. /\ attempt.at # "off" /\ UNCHANGED <<attempt, rescue, export, pub>>
      /\ \/ bench' = [bench EXCEPT !.source = "changed"]
         \/ attempt.hashed \in {"source", "final"} /\ bench' = [bench EXCEPT !.copy = "altered"]
  BY DEF DiskChanges
<1>2. /\ bench' \in Benches /\ bench'.vm = bench.vm
      /\ bench'.copy = bench.copy \/ attempt.hashed # "none"
  BY <1>0, <1>1 DEF Benches, Disks
<1>3. CopyFollows' /\ AttemptFollows'
  BY <1>0, <1>1, <1>2 DEF CopyFollows, AttemptFollows, Wanted, Success
<1> QED BY <1>0, <1>1, <1>2, <1>3, AttemptStep

LEMMA MaintenanceUnchanged == ASSUME MaintenanceInv, UNCHANGED maintenanceVars PROVE MaintenanceInv'
<1>1. AttemptTyped' /\ CopyFollows' /\ AttemptFollows'
  BY DEF MaintenanceInv, AttemptTyped, CopyFollows, AttemptFollows, Wanted, Success, maintenanceVars
<1>2. PublicationTyped' /\ PublicationFollows'
  BY DEF MaintenanceInv, PublicationTyped, PublicationFollows, maintenanceVars
<1> QED BY <1>1, <1>2 DEF MaintenanceInv

LEMMA MaintenanceInitially == Init => MaintenanceInv
<1> SUFFICES ASSUME Init PROVE MaintenanceInv
  OBVIOUS
<1>1. PICK mode \in {"none", "inspect", "finalize"} : MaintenanceInit(mode)
  BY DEF Init
<1>2. /\ attempt = [mode |-> mode, at |-> IF mode = "none" THEN "off" ELSE "prepare",
                    result |-> "none", unsaved |-> FALSE, claimed |-> FALSE, hashed |-> "none", noted |-> "none"]
      /\ bench = [source |-> "good", copy |-> "none", vm |-> "absent"]
      /\ rescue = [at |-> "none", ok |-> FALSE, reply |-> "none"]
      /\ export = [claimed |-> FALSE, image |-> "none", policy |-> FALSE, record |-> "none"]
      /\ pub = [p \in Operators |-> "new"]
  BY <1>1 DEF MaintenanceInit
<1>3. /\ attempt \in Attempts /\ attempt.mode = mode /\ attempt.at = (IF mode = "none" THEN "off" ELSE "prepare")
      /\ attempt.result = "none" /\ attempt.hashed = "none" /\ attempt.noted = "none"
  BY <1>2 DEF Attempts, AttemptStages, Results, Disks
<1>4. bench \in Benches /\ rescue \in Rescues /\ rescue.at = "none" /\ rescue.reply = "none"
  BY <1>2 DEF Benches, Rescues, Disks
<1>5. AttemptTyped /\ CopyFollows
  BY <1>3, <1>4 DEF AttemptTyped, CopyFollows
<1>6. AttemptFollows
  BY <1>3, <1>4 DEF AttemptFollows, InScript, Successes
<1>7. PublicationTyped /\ PublicationFollows
  BY <1>2 DEF PublicationTyped, PublicationFollows, Exports, Disks
<1> QED BY <1>5, <1>6, <1>7 DEF MaintenanceInv

THEOREM MaintenanceCorrect == Spec => []MaintenanceInv
<1>1. MaintenanceInv /\ [Next]_vars => MaintenanceInv'
  <2> SUFFICES ASSUME MaintenanceInv, [Next]_vars PROVE MaintenanceInv'
    OBVIOUS
  <2>1. MaintenanceStep \/ MaintenanceAround \/ UNCHANGED maintenanceVars
    BY DEF Next, ProgramStep, Around, ClockNext, restVars, imageVars, vars
  <2>2. CASE MaintenanceStep
    BY <2>2, MovesAloneKeep, ScriptKeeps, FailureKeeps, PublicationKeeps DEF MaintenanceStep
  <2>3. CASE MaintenanceAround
    BY <2>3, FailureKeeps, GuestKeeps, DiskChangesKeep, PublicationKeeps DEF MaintenanceAround
  <2> QED BY <2>1, <2>2, <2>3, MaintenanceUnchanged
<1> QED BY <1>1, MaintenanceInitially, PTL DEF Spec

LEMMA MaintenanceEarned == ASSUME MaintenanceInv PROVE MaintenanceIsHonest
<1>1. AttemptFollows /\ PublicationFollows
  BY DEF MaintenanceInv
<1> DEFINE S == {p \in Operators : pub[p] \in {"export", "record"}}
<1>2. Cardinality(S) <= 1
  <2>1. \A p, q \in S : p = q
    BY <1>1 DEF PublicationFollows
  <2>2. CASE S = {}
    BY <2>2, FS_EmptySet
  <2>3. CASE S # {}
    <3>1. PICK p : S = {p}
      BY <2>1, <2>3
    <3>2. Cardinality({p}) = 1
      BY FS_Singleton
    <3> QED BY <3>1, <3>2
  <2> QED BY <2>2, <2>3
<1> HIDE DEF S
<1>3. /\ attempt.result \in {"inspected_not_accepted", "finalized_not_accepted"} =>
           /\ attempt.claimed /\ bench.vm = "absent"
           /\ attempt.hashed = IF attempt.mode = "inspect" THEN "source" ELSE "final"
      /\ attempt.noted = "off_observed" => bench.vm # "running"
      /\ export.image # "none" => export.claimed /\ attempt.result = "finalized_not_accepted"
      /\ export.record # "none" => export.image = "final" /\ export.policy
  BY <1>1 DEF AttemptFollows, PublicationFollows, Successes, Wanted
<1> QED BY <1>2, <1>3 DEF MaintenanceIsHonest, S

(* What the records say of machines and images holds of the host, whatever *)
(* fails, dies or races (ubuntu_preparation_safety.py,                     *)
(* ubuntu_seed_attachment.py, ubuntu_preparation_launch.py,                *)
(* ubuntu_preparation_retirement.py, image_finalization.py,                *)
(* image_publication.py).                                                  *)
THEOREM ImageEarned == Spec => []ImageIsEarned
<1>1. PreparationInv /\ MaintenanceInv => ImageIsEarned
  BY PreparationEarned, MaintenanceEarned DEF ImageIsEarned
<1> QED BY <1>1, PreparationCorrect, MaintenanceCorrect, PTL

-----------------------------------------------------------------------------
(* The validation in a guest: NativeSequence.                              *)

Undoing == {"undo_log", "undo_child", "ended"}
Blind == {"pins", "spawn", "plan", "exec", "adopt", "ready", "pins2", "baseline"}
Recording == {"gate", "reports", "exit", "collect"}
Judging == {"pins3", "correlate", "close_log"}
Forward == Blind \cup Recording \cup Judging \cup {"reap"}
Places == Forward \cup Undoing \cup {"idle", "abort", "dead"}
Failures == {"none", "worker_observation_unknown", "cleanup_unknown"}
Owners == [state : {"none", "held", "closed", "cleanup_unknown"}, pidfd : BOOLEAN, unknown : BOOLEAN,
           leak : BOOLEAN]
Children ==
  [at : {"none", "entering", "preflight", "gate", "working", "reporting", "exiting", "killed",
         "zombie", "reaped"},
   exit : {"none", "125", "37", "0", "killed", "pools_checked", "eacces", "other_errno",
           "unexpected_open", "control_written"},
   pipes : BOOLEAN, acted : BOOLEAN]
Logged == {"own", "other", "alien", "lost"}
Captures == [at : {"none", "open", "finished", "closed"}, base : Nat, records : Seq(Logged \ {"alien"}),
             unknown : BOOLEAN]

WorkerTyped ==
  /\ n \in 0..Workers /\ at \in Places /\ failure \in Failures
  /\ late \in BOOLEAN /\ retained \in BOOLEAN
  /\ owner \in Owners /\ child \in Children /\ capture \in Captures
  /\ gate \in {"empty", "G", "closed"}
  /\ log \in Seq(Logged) /\ audit \in {"none", "pending", "logged"}
  /\ denial \in {"none", "own"}
  /\ ram \in {"none", "held", "changed", "failed", "closed", "unclosed"}

Rooted == {"root", "check", "fixtures", "workers", "close", "fail", "report", "fail_closed",
           "reported", "done"}
GuestPhases == {"none", "enter", "exit125", "killed"} \cup Rooted
Consoles == {<<>>, <<"summary">>, <<"unknown">>, <<"torn", "unknown">>, <<"summary", "unknown">>}

GuestTyped ==
  /\ boot \in {"off", "stage", "media", "policy", "launch", "wait", "done", "failed"}
  /\ boots \in 0..MaxBoots /\ created \in 0..MaxFixture
  /\ phase \in GuestPhases /\ profile \in BOOLEAN /\ staged \in BOOLEAN /\ sealed \in BOOLEAN
  /\ sequence \in {"new", "running", "done", "failed"}
  /\ console \in Consoles /\ changedAt \in 0..Workers

(* No record of another process with the pid comes after the cursor, which *)
(* is taken before the gate opens: the child is reaped once the log is      *)
(* closed.                                                                 *)
LogFollows ==
  /\ Len(log) \in 1..MaxLog + 1 /\ \A i \in 2..Len(log) : log[i] # "alien"
  /\ capture.at # "none" => capture.base \in 1..Len(log)
  /\ at \in Blind \cup {"abort"} => capture.at = "none"
  /\ at \in Recording => capture.at = "open"
  /\ at \in Judging => capture.at = "finished"
  /\ at = "reap" => capture.at = "closed"
  /\ at \in {"idle", "undo_child", "ended"} => capture.at \in {"none", "closed"}
  /\ at \in Forward \/ capture.at \in {"open", "finished"} => child.at # "reaped"
  /\ gate = "G" \/ child.at \in {"working", "reporting"} \/ child.acted => capture.at # "none"

(* A worker without a failure had its denial, and its child is reaped.     *)
Done == at \in Undoing /\ failure = "none"
FailureFollows ==
  /\ at \in Forward => failure = "none"
  /\ at = "abort" => failure # "none"
  /\ Done => child.at = "reaped" /\ owner.state = "closed"
  /\ Done \/ at \in {"close_log", "reap"} => (Negative => denial = "own")

(* A fixture that was changed before the last check of a worker was seen.   *)
FixturesFollow ==
  /\ ram \in {"none", "held"} => changedAt = 0
  /\ phase \in {"workers", "close"} /\ (Done \/ at \in (Forward \ {"pins"}) \cup {"idle"}) =>
       ram = "held" \/ (ram = "changed" /\ changedAt = n)

OwnDenials(k) == {[worker |-> w, of |-> "own"] : w \in {v \in {3, 6, 9} : v <= k}}

(* The sequence has gone through the workers it counts. *)
Seen == IF at = "idle" THEN n ELSE n - 1
Early == {"none", "enter", "root", "check", "fixtures"}
EvidenceFollows ==
  /\ \A e \in evidence : e.of = "own"
  /\ phase \in Early => n = 0 /\ at = "idle" /\ ram = "none"
  /\ at \notin {"idle", "ended", "dead"} => phase = "workers"
  /\ at = "dead" => phase = "killed"
  /\ at \notin {"idle", "dead"} => n >= 1
  /\ phase \in Early \cup {"workers"} => evidence = OwnDenials(Seen)
  /\ phase \in {"close", "report", "reported"} => at = "idle"

BootFollows ==
  /\ boot \in {"off", "stage", "media", "policy", "launch"} => phase = "none"
  /\ boot \in {"media", "policy", "launch", "wait"} \/ phase # "none" => staged
  /\ phase \in Rooted => profile
  /\ phase \in Rooted \ {"root"} => sealed

(* All that a summary says, but for the close of the fixtures. *)
Complete ==
  /\ sequence = "done" /\ n = Workers /\ evidence = OwnDenials(Workers)
  /\ child.at = "reaped"
Closed == ~retained /\ ram = "closed" /\ changedAt \in {0, Workers} /\ sealed /\ profile

ConsoleFollows ==
  /\ phase \in {"close", "report"} => Complete
  /\ phase = "report" => Closed
  /\ phase \in (Rooted \cup {"none", "enter"}) \ {"reported", "done"} => console = <<>>
  /\ phase = "reported" => console = <<"summary">>
  /\ console \in {<<"summary">>, <<"summary", "unknown">>} => Complete /\ Closed /\ at \in {"idle", "dead"}

SequenceInv ==
  /\ WorkerTyped /\ GuestTyped /\ LogFollows /\ FailureFollows /\ FixturesFollow
  /\ EvidenceFollows /\ BootFollows /\ ConsoleFollows


Underway == Places \ {"idle", "ended", "dead"}

(* What a step of the observer leaves alone. *)
Observes == UNCHANGED <<n, late, log, audit, bootVars, runVars>>

LEMMA ConsoleFacts ==
  /\ <<>> # <<"summary">> /\ <<>> # <<"summary", "unknown">> /\ <<"unknown">> # <<"summary">>
  /\ <<"unknown">> # <<"summary", "unknown">> /\ <<"torn", "unknown">> # <<"summary">>
  /\ <<"torn", "unknown">> # <<"summary", "unknown">>
<1>1. Len(<<>>) = 0 /\ Len(<<"summary">>) = 1 /\ Len(<<"unknown">>) = 1
      /\ Len(<<"summary", "unknown">>) = 2 /\ Len(<<"torn", "unknown">>) = 2
  OBVIOUS
<1>2. <<"summary">>[1] = "summary" /\ <<"unknown">>[1] = "unknown" /\ <<"torn", "unknown">>[1] = "torn"
      /\ <<"summary", "unknown">>[1] = "summary"
  OBVIOUS
<1> QED BY <1>1, <1>2

LEMMA WorkerFacts ==
  ASSUME SequenceInv
  PROVE  /\ n \in 0..Workers /\ at \in Places /\ failure \in Failures /\ owner \in Owners
         /\ child \in Children /\ capture \in Captures /\ log \in Seq(Logged) /\ Len(log) \in Nat \ {0}
         /\ at \in Underway => phase = "workers" /\ console = <<>> /\ n >= 1 /\ evidence = OwnDenials(n - 1)
<1>1. WorkerTyped /\ LogFollows /\ EvidenceFollows /\ ConsoleFollows
  BY DEF SequenceInv
<1>2. Len(log) \in Nat \ {0}
  BY <1>1, LenProperties DEF WorkerTyped, LogFollows
<1>3. ASSUME at \in Underway
      PROVE  phase = "workers" /\ console = <<>> /\ n >= 1 /\ evidence = OwnDenials(n - 1)
  BY <1>1, <1>3 DEF Underway, EvidenceFollows, ConsoleFollows, Seen, Rooted
<1> QED BY <1>1, <1>2, <1>3 DEF WorkerTyped

LEMMA ForwardFacts ==
  /\ Forward \subseteq Underway
  /\ \A p \in Forward : p \in Places \ {"idle", "dead"} /\ p \notin Undoing /\ p \notin {"idle", "abort", "ended"}
<1>1. ASSUME NEW p \in Forward PROVE p \in Underway /\ p \in Places
  BY DEF Underway, Places, Forward, Blind, Recording, Judging, Undoing
<1>2. ASSUME NEW p \in Forward PROVE p \notin {"idle", "dead", "undo_log", "undo_child", "ended", "abort"}
  BY DEF Forward, Blind, Recording, Judging
<1> QED BY <1>1, <1>2 DEF Undoing

(* While a worker is observed, what is known of the guest stays. *)
LEMMA ObserverMoves ==
  ASSUME SequenceInv, Observes, at \in Underway, at' \in Places \ {"idle", "dead"},
         WorkerTyped', LogFollows', FailureFollows', FixturesFollow'
  PROVE  SequenceInv'
<1>1. phase' = "workers" /\ console' = <<>> /\ n' >= 1 /\ n' = n /\ evidence' = OwnDenials(n - 1)
  BY WorkerFacts DEF Observes, bootVars, runVars
<1>2. GuestTyped' /\ BootFollows'
  BY DEF SequenceInv, GuestTyped, BootFollows, Observes, bootVars, runVars
<1>3. EvidenceFollows'
  <2>1. \A e \in evidence' : e.of = "own"
    BY DEF SequenceInv, EvidenceFollows, Observes, runVars
  <2>2. Seen' = n - 1
    BY <1>1 DEF Seen
  <2> QED BY <1>1, <2>1, <2>2 DEF EvidenceFollows, Early
<1>4. ConsoleFollows'
  BY <1>1, ConsoleFacts DEF ConsoleFollows
<1> QED BY <1>2, <1>3, <1>4 DEF SequenceInv

(* The observer goes on to the next operation. *)
LEMMA ObserverGoesOn ==
  ASSUME SequenceInv, Observes, at \in Forward \ {"reap"}, at' \in Forward,
         failure' = failure, ram' = ram, at = "pins" => ram = "held",
         retained' \in BOOLEAN, owner' \in Owners, child' \in Children, capture' \in Captures,
         gate' \in {"empty", "G", "closed"}, denial' \in {"none", "own"},
         child'.at # "reaped", child'.acted => child.acted,
         child'.at \in {"working", "reporting"} => child.at \in {"working", "reporting"},
         gate' = "G" => gate = "G" \/ capture'.at # "none",
         capture.at # "none" => capture'.at # "none",
         capture'.at # "none" => capture'.base \in 1..Len(log),
         at' \in Blind => capture'.at = "none",
         at' \in Recording => capture'.at = "open",
         at' \in Judging => capture'.at = "finished",
         at' = "reap" => capture'.at = "closed",
         at' = "pins" => at = "pins",
         at' \in {"close_log", "reap"} => (Negative => denial' = "own")
  PROVE  SequenceInv'
<1>1. /\ at \in Underway
      /\ at' \in Places \ {"idle", "dead"} /\ at' \notin Undoing /\ at' \notin {"idle", "abort", "ended"}
  BY ForwardFacts
<1>2. WorkerTyped'
  BY <1>1 DEF SequenceInv, WorkerTyped, Observes
<1>3. LogFollows'
  <2>1. Len(log') \in 1..MaxLog + 1 /\ \A i \in 2..Len(log') : log'[i] # "alien"
    BY DEF SequenceInv, LogFollows, Observes
  <2>2. capture'.at # "none" => capture'.base \in 1..Len(log')
    BY DEF Observes
  <2>3. gate' = "G" \/ child'.at \in {"working", "reporting"} \/ child'.acted => capture'.at # "none"
    BY DEF SequenceInv, LogFollows
  <2> QED BY <1>1, <2>1, <2>2, <2>3 DEF LogFollows, Undoing
<1>4. FailureFollows'
  <2>1. failure' = "none" /\ ~Done' /\ (Negative' <=> Negative)
    BY <1>1 DEF SequenceInv, FailureFollows, Done, Negative, Confined, Case, Observes
  <2> QED BY <1>1, <2>1 DEF FailureFollows
<1>5. FixturesFollow'
  BY <1>1 DEF SequenceInv, FixturesFollow, Observes, bootVars, runVars, Done
<1> QED BY <1>1, <1>2, <1>3, <1>4, <1>5, ObserverMoves

(* The constructor of the owner raises. *)
Abandons == capture.at = "none" /\ at' = "abort" /\ failure' = "worker_observation_unknown"

(* An exception leads to the cleanup, whatever is left of the child.       *)
LEMMA ObserverRaises ==
  ASSUME SequenceInv, Observes, at \in Forward, Raise \/ Abandons,
         ram' \in {ram, "failed"}, denial' = denial, retained' \in BOOLEAN, owner' \in Owners,
         capture' \in Captures, capture'.base = capture.base,
         capture'.at = capture.at \/ (capture.at # "none" /\ capture'.at = "closed"),
         child' \in Children, child'.acted => child.acted,
         child'.at \in {"working", "reporting"} => child.at \in {"working", "reporting"},
         child'.at = "reaped" => capture'.at = "closed",
         gate' \in {"empty", "G", "closed"}, gate' = "G" => gate = "G" \/ capture.at # "none"
  PROVE  SequenceInv'
<1>1. /\ at \in Underway
      /\ at' \in {"undo_log", "abort"} /\ at' \in Places \ {"idle", "dead"} /\ at' \notin Forward
      /\ failure' = "worker_observation_unknown"
      /\ at' = "abort" => capture.at = "none"
  BY ForwardFacts DEF Raise, Abandons, Places, Undoing
<1>2. WorkerTyped'
  BY <1>1 DEF SequenceInv, WorkerTyped, Observes, Failures
<1>3. LogFollows'
  <2>1. Len(log') \in 1..MaxLog + 1 /\ \A i \in 2..Len(log') : log'[i] # "alien"
    BY DEF SequenceInv, LogFollows, Observes
  <2>2. capture'.at # "none" => capture'.base \in 1..Len(log')
    BY DEF SequenceInv, LogFollows, Observes
  <2>3. gate' = "G" \/ child'.at \in {"working", "reporting"} \/ child'.acted => capture'.at # "none"
    BY DEF SequenceInv, LogFollows
  <2>4. at' \notin Blind \cup Recording \cup Judging
    BY <1>1 DEF Blind, Recording, Judging
  <2> QED BY <1>1, <2>1, <2>2, <2>3, <2>4 DEF LogFollows
<1>4. FailureFollows'
  BY <1>1 DEF FailureFollows, Done
<1>5. FixturesFollow'
  BY <1>1 DEF SequenceInv, FixturesFollow, Observes, runVars, Done
<1> QED BY <1>1, <1>2, <1>3, <1>4, <1>5, ObserverMoves

LEMMA ObserverFacts ==
  ASSUME SequenceInv, at \in Forward
  PROVE  /\ retained \in BOOLEAN /\ owner \in Owners /\ child \in Children /\ capture \in Captures
         /\ gate \in {"empty", "G", "closed"} /\ denial \in {"none", "own"} /\ failure = "none"
         /\ child.at # "reaped" /\ (capture.at # "none" => capture.base \in 1..Len(log))
         /\ at \in Blind => capture.at = "none"
         /\ at \in Recording => capture.at = "open"
         /\ at \in Judging => capture.at = "finished"
         /\ at = "reap" => capture.at = "closed"
BY DEF SequenceInv, WorkerTyped, LogFollows, FailureFollows

(* An operation that is done, or raises, and changes nothing else. *)
LEMMA ObserverOperates ==
  ASSUME SequenceInv, Observes, at \in Forward \ {"pins", "reap"},
         UNCHANGED <<retained, owner, child, gate, capture, denial, ram>>,
         \/ Raise
         \/ /\ at' \in Forward \ {"pins", "close_log", "reap"} /\ failure' = failure
            /\ at' \in Blind => at \in Blind
            /\ at' \in Recording => at \in Recording
            /\ at' \in Judging => at \in Judging
  PROVE  SequenceInv'
<1>1. CASE Raise
  BY <1>1, ObserverFacts, ObserverRaises
<1>2. CASE /\ at' \in Forward \ {"pins", "close_log", "reap"} /\ failure' = failure
           /\ at' \in Blind => at \in Blind
           /\ at' \in Recording => at \in Recording
           /\ at' \in Judging => at \in Judging
  BY <1>2, ObserverFacts, ObserverGoesOn
<1> QED BY <1>1, <1>2

LEMMA VerifyPinsKeeps ==
  ASSUME SequenceInv, VerifyPins, UNCHANGED <<bootVars, runVars>>
  PROVE  SequenceInv'
<1>1. /\ at \in {"pins", "pins2", "pins3"}
      /\ Observes /\ UNCHANGED <<owner, retained, child, gate, capture, denial>>
  BY DEF VerifyPins, Observes, AfterPins
<1>2. at \in Forward
  BY <1>1 DEF Forward, Blind, Judging
<1>4. CASE ram = "held" /\ Step(at, AfterPins[at]) /\ UNCHANGED ram
  <2>1. /\ failure' = failure /\ at' = AfterPins[at]
        /\ at' = IF at = "pins" THEN "spawn" ELSE IF at = "pins2" THEN "baseline" ELSE "correlate"
    BY <1>1, <1>4 DEF Step, AfterPins
  <2>2. /\ at' \in Forward /\ at' # "pins" /\ at \in Forward \ {"reap"} /\ at' \notin {"close_log", "reap"}
        /\ at' \in Blind => at \in Blind
        /\ at' \notin Recording
        /\ at' \in Judging => at \in Judging
    BY <1>1, <2>1 DEF Forward, Blind, Recording, Judging
  <2> QED BY <1>1, <1>2, <1>4, <2>1, <2>2, ObserverFacts, ObserverGoesOn
<1>5. CASE Raise /\ ram' = "failed"
  BY <1>1, <1>2, <1>5, ObserverFacts, ObserverRaises
<1> QED BY <1>4, <1>5 DEF VerifyPins

LEMMA OwnerKeeps ==
  ASSUME SequenceInv, UNCHANGED <<bootVars, runVars>>, OwnerChecks \/ RenderPlan \/ Spawn \/ Adopt
  PROVE  SequenceInv'
<1>1. CASE OwnerChecks \/ RenderPlan
  <2>1. /\ Observes /\ UNCHANGED <<retained, owner, child, gate, capture, denial, ram>>
        /\ \/ Raise
           \/ at = "spawn" /\ at' = "plan" /\ failure' = failure
           \/ at = "plan" /\ at' = "exec" /\ failure' = failure
        /\ at \in {"spawn", "plan"}
    BY <1>1 DEF OwnerChecks, RenderPlan, Observes, worldVars, Step
  <2>2. /\ at \in Forward \ {"pins", "reap"} /\ at \in Blind
        /\ {"plan", "exec"} \subseteq Blind \ {"pins", "close_log", "reap"}
    BY <2>1 DEF Forward, Blind
  <2>3. Blind \subseteq Forward
    BY DEF Forward
  <2>4. \A p \in {"plan", "exec"} : p \notin Recording /\ p \notin Judging
    BY DEF Recording, Judging
  <2> QED BY <2>1, <2>2, <2>3, <2>4, ObserverOperates
<1>2. CASE Spawn
  <2>1. /\ Observes /\ UNCHANGED <<owner, gate, capture, denial, ram>> /\ at = "exec"
        /\ \/ /\ at' = "adopt" /\ failure' = failure /\ retained' = TRUE
              /\ child' = [NoChild EXCEPT !.at = "entering", !.pipes = TRUE]
           \/ Raise /\ UNCHANGED <<child, retained>>
    BY <1>2 DEF Spawn, Observes, Step
  <2>2. at \in Forward \ {"pins", "reap"} /\ at \in Blind
    BY <2>1 DEF Forward, Blind
  <2>3. "adopt" \in Forward /\ "adopt" \in Blind /\ "adopt" \notin Recording /\ "adopt" \notin Judging
    BY DEF Forward, Blind, Recording, Judging
  <2>4. CASE at' = "adopt" /\ failure' = failure /\ retained' = TRUE
             /\ child' = [NoChild EXCEPT !.at = "entering", !.pipes = TRUE]
    <3>1. child' \in Children /\ child'.at = "entering" /\ ~child'.acted
      BY <2>4 DEF NoChild, Children
    <3> QED BY <2>1, <2>2, <2>3, <2>4, <3>1, ObserverFacts, ObserverGoesOn
  <2>5. CASE Raise /\ UNCHANGED <<child, retained>>
    BY <2>1, <2>2, <2>5, ObserverFacts, ObserverRaises
  <2> QED BY <2>1, <2>4, <2>5
<1>3. CASE Adopt
  <2>1. /\ Observes /\ UNCHANGED <<retained, child, gate, capture, denial, ram>> /\ at = "adopt"
        /\ \/ at' = "ready" /\ failure' = failure
           \/ at' = "abort" /\ failure' = "worker_observation_unknown"
        /\ \/ owner' = [NoOwner EXCEPT !.state = "held", !.pidfd = TRUE]
           \/ \E pidfd \in BOOLEAN : owner' = [NoOwner EXCEPT !.pidfd = pidfd]
    BY <1>3 DEF Adopt, Observes, worldVars, Step
  <2>2. at \in Forward \ {"pins", "reap"} /\ at \in Blind
    BY <2>1 DEF Forward, Blind
  <2>3. "ready" \in Forward /\ "ready" \in Blind /\ "ready" \notin Recording /\ "ready" \notin Judging
    BY DEF Forward, Blind, Recording, Judging
  <2>4. owner' \in Owners
    BY <2>1 DEF NoOwner, Owners
  <2>5. CASE at' = "ready" /\ failure' = failure
    BY <2>1, <2>2, <2>3, <2>4, <2>5, ObserverFacts, ObserverGoesOn
  <2>6. CASE at' = "abort" /\ failure' = "worker_observation_unknown"
    BY <2>1, <2>2, <2>4, <2>6, ObserverFacts, ObserverRaises DEF Abandons
  <2> QED BY <2>1, <2>5, <2>6
<1> QED BY <1>1, <1>2, <1>3

LEMMA WaitsKeep ==
  ASSUME SequenceInv, UNCHANGED <<bootVars, runVars>>,
         ReadReport \/ ReadEnd \/ WaitFails \/ TakeBaseline \/ ReleaseGate \/ ObserveExit
  PROVE  SequenceInv'
<1>1. {"ready", "baseline", "gate", "reports", "exit"} \subseteq Forward \ {"pins", "reap"}
      /\ {"gate", "reports", "exit"} \subseteq Recording /\ "collect" \in Recording \cap Forward
      /\ {"ready", "pins2", "baseline"} \subseteq Blind \cap Forward
  BY DEF Forward, Blind, Recording
<1>2. Blind \cap Recording = {} /\ Blind \cap Judging = {} /\ Recording \cap Judging = {}
      /\ "reap" \notin Blind \cup Recording \cup Judging /\ "close_log" \in Judging /\ "pins" \in Blind
  BY DEF Blind, Recording, Judging
<1>3. CASE ReadReport \/ ReadEnd
  <2>1. /\ Observes /\ UNCHANGED <<retained, owner, child, gate, capture, denial, ram>>
        /\ at \in {"ready", "gate", "reports"}
        /\ \/ Raise
           \/ failure' = failure /\ at' = IF at = "ready" THEN "pins2" ELSE at
           \/ failure' = failure /\ at = "reports" /\ at' = "exit"
    BY <1>3 DEF ReadReport, ReadEnd, Observes, worldVars
  <2> QED BY <1>1, <1>2, <2>1, ObserverOperates
<1>4. CASE WaitFails
  <2>1. /\ Observes /\ UNCHANGED <<retained, child, capture, denial, ram>> /\ Raise
        /\ at \in {"ready", "gate", "reports", "exit"}
        /\ \/ UNCHANGED <<owner, gate>>
           \/ /\ at \in {"gate", "exit"} /\ owner' = [owner EXCEPT !.leak = TRUE]
              /\ gate' \in {"G", gate}
    BY <1>4 DEF WaitFails, Observes
  <2>2. owner' \in Owners
    BY <2>1, <1>1, ObserverFacts DEF Owners
  <2> QED BY <1>1, <2>1, <2>2, ObserverFacts, ObserverRaises
<1>5. CASE TakeBaseline
  <2>1. /\ Observes /\ UNCHANGED <<retained, owner, child, gate, denial, ram>> /\ at = "baseline"
        /\ \/ /\ at' = "gate" /\ failure' = failure
              /\ capture' = [capture EXCEPT !.at = "open", !.base = Len(log)]
           \/ Raise /\ UNCHANGED capture
    BY <1>5 DEF TakeBaseline, Observes, worldVars, Step, Baseline
  <2>2. CASE at' = "gate" /\ failure' = failure
             /\ capture' = [capture EXCEPT !.at = "open", !.base = Len(log)]
    <3>1. Len(log) \in Nat /\ Len(log) \in 1..Len(log)
      BY WorkerFacts
    <3>2. capture' \in Captures /\ capture'.at = "open" /\ capture'.base = Len(log)
      BY <1>1, <2>1, <2>2, <3>1, ObserverFacts DEF Captures
    <3> QED BY <1>1, <1>2, <2>1, <2>2, <3>1, <3>2, ObserverFacts, ObserverGoesOn
  <2>3. CASE Raise /\ UNCHANGED capture
    BY <1>1, <2>1, <2>3, ObserverFacts, ObserverRaises
  <2> QED BY <2>1, <2>2, <2>3
<1>6. CASE ReleaseGate
  <2>1. /\ Observes /\ UNCHANGED <<retained, owner, child, capture, denial, ram>> /\ at = "gate"
        /\ at' = "reports" /\ failure' = failure /\ gate' = "G"
    BY <1>6 DEF ReleaseGate, Observes, Step
  <2> QED BY <1>1, <1>2, <2>1, ObserverFacts, ObserverGoesOn
<1>7. CASE ObserveExit
  <2>1. /\ Observes /\ UNCHANGED <<retained, child, gate, capture, denial, ram>> /\ at = "exit"
        /\ \/ at' = "collect" /\ failure' = failure /\ UNCHANGED owner
           \/ Raise /\ owner' \in {owner, [owner EXCEPT !.unknown = TRUE]}
    BY <1>7 DEF ObserveExit, Observes, worldVars
  <2>2. owner' \in Owners
    BY <1>1, <2>1, ObserverFacts DEF Owners
  <2>3. CASE at' = "collect" /\ failure' = failure /\ UNCHANGED owner
    BY <1>1, <1>2, <2>1, <2>3, ObserverOperates
  <2>4. CASE Raise
    BY <1>1, <2>1, <2>2, <2>4, ObserverFacts, ObserverRaises
  <2> QED BY <2>1, <2>3, <2>4
<1> QED BY <1>3, <1>4, <1>5, <1>6, <1>7

LEMMA CollectKeeps ==
  ASSUME SequenceInv, UNCHANGED <<bootVars, runVars>>, Collect
  PROVE  SequenceInv'
<1>1. at \in Forward \ {"pins", "reap"} /\ at \in Recording
  BY DEF Collect, Forward, Recording
<1>2. "pins3" \in Forward /\ "pins3" \in Judging /\ "pins3" \notin Blind /\ "pins3" \notin Recording
  BY DEF Forward, Blind, Recording, Judging
<1> DEFINE records == SubSeq(log, capture.base + 1, Len(log))
<1>3. /\ Observes /\ UNCHANGED <<retained, owner, child, gate, denial, ram>> /\ at = "collect"
      /\ \/ /\ at' = "pins3" /\ failure' = failure
            /\ capture' = [capture EXCEPT !.at = "finished", !.records = records]
         \/ Raise /\ UNCHANGED capture
  BY DEF Collect, Observes, worldVars, Step
<1>4. records \in Seq(Logged \ {"alien"})
  <2>1. /\ log \in Seq(Logged) /\ capture.base \in 1..Len(log) /\ Len(log) \in Nat
        /\ \A i \in 2..Len(log) : log[i] # "alien"
    BY <1>1, WorkerFacts, ObserverFacts DEF SequenceInv, LogFollows, Recording
  <2>2. \A i \in capture.base + 1..Len(log) : log[i] \in Logged \ {"alien"}
    BY <2>1, ElementOfSeq
  <2>3. capture.base + 1 \in Int /\ Len(log) \in Int
    BY <2>1
  <2> QED BY <2>2, <2>3, SubSeqProperties
<1> HIDE DEF records
<1>5. CASE at' = "pins3" /\ failure' = failure
           /\ capture' = [capture EXCEPT !.at = "finished", !.records = records]
  <2>1. capture \in Captures /\ capture.at = "open"
    BY <1>1, ObserverFacts DEF Recording
  <2>2. capture' \in Captures /\ capture'.at = "finished" /\ capture'.base = capture.base
    BY <1>4, <1>5, <2>1 DEF Captures
  <2> QED BY <1>1, <1>2, <1>3, <1>5, <2>1, <2>2, ObserverFacts, ObserverGoesOn
<1>6. CASE Raise /\ UNCHANGED capture
  BY <1>1, <1>3, <1>6, ObserverFacts, ObserverRaises
<1> QED BY <1>3, <1>5, <1>6

LEMMA CorrelateKeeps ==
  ASSUME SequenceInv, UNCHANGED <<bootVars, runVars>>, Correlate
  PROVE  SequenceInv'
<1>1. at \in Forward \ {"pins", "reap"} /\ at \in Judging /\ capture.records \in Seq(Logged \ {"alien"})
  BY WorkerFacts DEF Correlate, Forward, Judging, Captures
<1>2. "close_log" \in Forward /\ "close_log" \in Judging /\ "close_log" \notin Blind /\ "close_log" \notin Recording
  BY DEF Forward, Blind, Recording, Judging
<1>3. Observes /\ UNCHANGED <<retained, owner, child, gate, capture, ram>> /\ at = "correlate"
  BY DEF Correlate, Observes, worldVars
<1>4. CASE Raise /\ UNCHANGED denial
  BY <1>1, <1>3, <1>4, ObserverFacts, ObserverRaises
<1>5. CASE at' = "close_log" /\ failure' = failure /\ denial' \in {"none", "own"} /\ (Negative => denial' = "own")
  BY <1>1, <1>2, <1>3, <1>5, ObserverFacts, ObserverGoesOn
<1>6. ASSUME Negative, NEW i \in DOMAIN capture.records, WithPid(capture.records) = {i},
             denial' = capture.records[i]
      PROVE  denial' = "own"
  <2>1. capture.records[i] \in {"own", "alien"}
    BY <1>6 DEF WithPid
  <2>2. capture.records[i] \in Logged \ {"alien"}
    BY <1>1, <1>6, ElementOfSeq, LenProperties
  <2> QED BY <1>6, <2>1, <2>2
<1>7. denial \in {"none", "own"}
  BY <1>1, ObserverFacts
<1>8. \/ Raise /\ UNCHANGED denial
      \/ at' = "close_log" /\ failure' = failure /\ denial' \in {"none", "own"} /\ (Negative => denial' = "own")
  BY <1>6, <1>7 DEF Correlate
<1> QED BY <1>4, <1>5, <1>8

(* A step of the cleanup. *)
LEMMA ObserverCleans ==
  ASSUME SequenceInv, Observes, at \in {"abort", "undo_log", "undo_child"},
         at' \in {at, "undo_log", "undo_child", "ended"}, at' = "abort" => capture'.at = "none",
         at' \in {"undo_child", "ended"} => capture'.at \in {"none", "closed"},
         failure' \in Failures,
         failure' = "none" => failure = "none" /\ at \in Undoing /\ UNCHANGED <<child, owner>>,
         UNCHANGED <<ram, denial>>, retained' \in BOOLEAN, owner' \in Owners,
         capture' \in Captures, capture'.base = capture.base,
         capture'.at = capture.at \/ (capture.at # "none" /\ capture'.at = "closed"),
         child' \in Children, child'.acted => child.acted,
         child'.at \in {"working", "reporting"} => child.at \in {"working", "reporting"},
         child'.at = "reaped" => child.at = "reaped" \/ capture'.at \in {"none", "closed"},
         gate' \in {"empty", "G", "closed"}, gate' = "G" => gate = "G"
  PROVE  SequenceInv'
<1>1. /\ at \in Underway /\ at' \in Places \ {"idle", "dead"}
      /\ at' \notin Forward /\ at' \notin Blind \cup Recording \cup Judging
  <2>1. \A p \in {"abort", "undo_log", "undo_child", "ended"} :
          p \in Places \ {"idle", "dead"} /\ p \notin Blind /\ p \notin Recording /\ p \notin Judging /\ p # "reap"
    BY DEF Places, Undoing, Blind, Recording, Judging
  <2> QED BY <2>1 DEF Underway, Forward
<1>2. WorkerTyped'
  BY <1>1 DEF SequenceInv, WorkerTyped, Observes
<1>3. LogFollows'
  <2>1. Len(log') \in 1..MaxLog + 1 /\ \A i \in 2..Len(log') : log'[i] # "alien"
    BY DEF SequenceInv, LogFollows, Observes
  <2>2. capture'.at # "none" => capture'.base \in 1..Len(log')
    BY DEF SequenceInv, LogFollows, Observes
  <2>3. gate' = "G" \/ child'.at \in {"working", "reporting"} \/ child'.acted => capture'.at # "none"
    BY DEF SequenceInv, LogFollows
  <2>4. capture'.at \in {"open", "finished"} => child'.at # "reaped"
    BY DEF SequenceInv, LogFollows
  <2>5. at' # "reap" /\ at' # "idle"
    BY <1>1 DEF Forward
  <2> QED BY <1>1, <2>1, <2>2, <2>3, <2>4, <2>5 DEF LogFollows
<1>4. Done' => Done /\ UNCHANGED <<child, owner>>
  BY DEF Done
<1>5. at' = "abort" => failure' # "none"
  BY DEF Undoing
<1>6. FailureFollows'
  <2>1. Done' => child'.at = "reaped" /\ owner'.state = "closed"
    BY <1>4 DEF SequenceInv, FailureFollows
  <2>2. Negative' <=> Negative
    BY DEF Negative, Confined, Case, Observes
  <2>3. Done' => (Negative' => denial' = "own")
    BY <1>4, <2>2 DEF SequenceInv, FailureFollows
  <2>4. at' # "close_log" /\ at' # "reap"
    OBVIOUS
  <2> QED BY <1>1, <1>5, <2>1, <2>3, <2>4 DEF FailureFollows
<1>7. FixturesFollow'
  <2>1. ram' = ram /\ changedAt' = changedAt /\ phase' = phase /\ n' = n
    BY DEF Observes, bootVars, runVars
  <2>2. at' \notin (Forward \ {"pins"}) \cup {"idle"}
    BY <1>1
  <2> QED BY <1>4, <2>1, <2>2 DEF SequenceInv, FixturesFollow
<1> QED BY <1>1, <1>2, <1>3, <1>6, <1>7, ObserverMoves

LEMMA CloseLogKeeps ==
  ASSUME SequenceInv, UNCHANGED <<bootVars, runVars>>, CloseLog
  PROVE  SequenceInv'
<1>1. PICK certain \in BOOLEAN :
        /\ capture' = IF capture.at = "none" THEN capture
                      ELSE [capture EXCEPT !.at = "closed", !.unknown = capture.unknown \/ ~certain]
        /\ \/ at = "close_log" /\ ~capture'.unknown /\ at' = "reap" /\ failure' = failure
           \/ at = "close_log" /\ Raise
           \/ at = "undo_log" /\ at' = "undo_child" /\ failure' \in {failure, "cleanup_unknown"}
  BY DEF CloseLog
<1>2. Observes /\ UNCHANGED <<retained, owner, child, gate, denial, ram>>
  BY DEF CloseLog, Observes, worldVars
<1>3. capture \in Captures /\ failure \in Failures
  BY WorkerFacts
<1>4. /\ capture' \in Captures /\ capture'.base = capture.base
      /\ IF capture.at = "none" THEN capture'.at = "none" ELSE capture'.at = "closed"
  BY <1>1, <1>3 DEF Captures
<1>5. CASE at = "close_log"
  <2>1. at \in Forward \ {"pins", "reap"} /\ at \in Judging
    BY <1>5 DEF Forward, Judging
  <2>2. "reap" \in Forward /\ "reap" \notin Blind /\ "reap" \notin Recording /\ "reap" \notin Judging
    BY DEF Forward, Blind, Recording, Judging
  <2>3. Negative => denial = "own"
    BY <1>5 DEF SequenceInv, FailureFollows
  <2>4. capture.at = "finished"
    BY <2>1, ObserverFacts
  <2>5. CASE at' = "reap" /\ failure' = failure
    BY <1>2, <1>4, <1>5, <2>1, <2>2, <2>3, <2>4, <2>5, ObserverFacts, ObserverGoesOn
  <2>6. CASE Raise
    BY <1>2, <1>4, <2>1, <2>4, <2>6, ObserverFacts, ObserverRaises
  <2> QED BY <1>1, <1>5, <2>5, <2>6
<1>6. CASE at = "undo_log" /\ at' = "undo_child" /\ failure' \in {failure, "cleanup_unknown"}
  <2>1. /\ retained \in BOOLEAN /\ owner \in Owners /\ child \in Children /\ gate \in {"empty", "G", "closed"}
        /\ failure' \in Failures /\ at \in Undoing
    BY <1>3, <1>6 DEF SequenceInv, WorkerTyped, Failures, Undoing
  <2> QED BY <1>2, <1>4, <1>6, <2>1, ObserverCleans
<1> QED BY <1>1, <1>5, <1>6

LEMMA ReapKeeps ==
  ASSUME SequenceInv, UNCHANGED <<bootVars, runVars>>, ReapAfterCapture
  PROVE  SequenceInv'
<1>1. at \in Forward /\ at = "reap" /\ at \notin Undoing /\ capture.at = "closed"
  BY ObserverFacts DEF ReapAfterCapture, Forward, Undoing
<1>2. Observes /\ UNCHANGED <<capture, denial, ram>>
  BY DEF ReapAfterCapture, Observes
<1>3. child \in Children /\ owner \in Owners /\ gate \in {"empty", "G", "closed"} /\ retained \in BOOLEAN
  BY <1>1, ObserverFacts
<1>4. CASE Raise
  <2>1. /\ retained' \in {retained, FALSE}
        /\ child' = child \/ \E where \in {"zombie", "reaped"} : child' = [child EXCEPT !.at = where]
        /\ owner' \in {owner, [owner EXCEPT !.unknown = TRUE], [owner EXCEPT !.leak = TRUE]}
        /\ gate' = gate
    <3>1. ~Step("reap", "undo_log")
      BY <1>1, <1>4, ObserverFacts DEF Step, Raise
    <3> QED BY <3>1 DEF ReapAfterCapture, Reaped, MaybeReaped
  <2>2. retained' \in BOOLEAN /\ owner' \in Owners
    BY <1>3, <2>1 DEF Owners
  <2>3. child' \in Children /\ (child'.acted <=> child.acted) /\ child'.at \in {child.at, "zombie", "reaped"}
    BY <1>3, <2>1 DEF Children
  <2>4. child'.at \in {"working", "reporting"} => child.at \in {"working", "reporting"}
    BY <2>3
  <2>5. gate' \in {"empty", "G", "closed"} /\ (gate' = "G" => gate = "G" \/ capture.at # "none")
    BY <1>1, <1>3, <2>1
  <2> QED BY <1>1, <1>2, <1>4, <2>2, <2>3, <2>4, <2>5, ObserverFacts, ObserverRaises
<1>5. CASE Step("reap", "undo_log") /\ Reaped /\ GateCloses /\ owner' = [owner EXCEPT !.state = "closed"]
  <2>1. /\ at' = "undo_log" /\ failure' = failure /\ failure = "none" /\ retained' = FALSE
        /\ child' = [child EXCEPT !.at = "reaped"] /\ gate' = IF gate = "empty" THEN "closed" ELSE gate
        /\ owner' = [owner EXCEPT !.state = "closed"]
    BY <1>1, <1>5, ObserverFacts DEF Step, Reaped, GateCloses
  <2>2. /\ child' \in Children /\ child'.at = "reaped" /\ (child'.acted <=> child.acted)
        /\ owner' \in Owners /\ owner'.state = "closed"
    BY <1>3, <2>1 DEF Children, Owners
  <2>3. /\ at' \notin Blind \cup Recording \cup Judging /\ at' \notin Forward
        /\ at' \in Places \ {"idle", "dead"} /\ at \in Underway
    BY <1>1, <2>1 DEF Places, Undoing, Forward, Blind, Recording, Judging, Underway
  <2>4. gate' \in {"empty", "G", "closed"} /\ (gate' = "G" => gate = "G")
    BY <1>3, <2>1
  <2>5. WorkerTyped'
    BY <1>2, <2>1, <2>2, <2>3, <2>4 DEF SequenceInv, WorkerTyped, Observes
  <2>6. LogFollows'
    <3>1. Len(log') \in 1..MaxLog + 1 /\ \A i \in 2..Len(log') : log'[i] # "alien"
      BY <1>2 DEF SequenceInv, LogFollows, Observes
    <3>2. capture'.at = "closed" /\ capture'.base \in 1..Len(log')
      BY <1>1, <1>2, ObserverFacts DEF Observes
    <3> QED BY <2>1, <2>3, <3>1, <3>2 DEF LogFollows
  <2>7. Negative' => denial' = "own"
    BY <1>1, <1>2 DEF SequenceInv, FailureFollows, Negative, Confined, Case, Observes
  <2>8. FailureFollows'
    BY <2>1, <2>2, <2>3, <2>7 DEF FailureFollows
  <2>9. FixturesFollow'
    BY <1>1, <1>2 DEF SequenceInv, FixturesFollow, Observes, bootVars, runVars
  <2> QED BY <1>2, <2>3, <2>5, <2>6, <2>8, <2>9, ObserverMoves
<1> QED BY <1>4, <1>5 DEF ReapAfterCapture

LEMMA AbortKeeps ==
  ASSUME SequenceInv, UNCHANGED <<bootVars, runVars>>, Abort
  PROVE  SequenceInv'
<1>1. /\ Observes /\ UNCHANGED <<capture, denial, ram>> /\ at \in {"abort", "undo_child"}
  BY DEF Abort, Observes
<1>2. /\ child \in Children /\ owner \in Owners /\ gate \in {"empty", "G", "closed"} /\ retained \in BOOLEAN
      /\ failure \in Failures /\ capture \in Captures
  BY DEF SequenceInv, WorkerTyped
<1>3. capture.at \in {"none", "closed"} /\ (at = "abort" => capture.at = "none")
  BY <1>1 DEF SequenceInv, LogFollows
<1>4. CASE NothingToAbort /\ at' = "ended" /\ UNCHANGED <<failure, child, retained, owner, gate>>
  <2>1. at \in Undoing
    BY <1>4 DEF NothingToAbort, Undoing
  <2> QED BY <1>1, <1>2, <1>3, <1>4, <2>1, ObserverCleans
<1>5. CASE ~NothingToAbort
  <2>1. failure # "none"
    BY <1>1, <1>5 DEF SequenceInv, FailureFollows, Done, Undoing, NothingToAbort
  <2>2. /\ retained' \in {retained, FALSE}
        /\ child' = child \/ \E where \in {"zombie", "reaped", "killed"} : child' = [child EXCEPT !.at = where]
        /\ \/ UNCHANGED <<at, failure, owner, gate>>
           \/ \E uncertain \in BOOLEAN : Abandoned(uncertain)
    BY <1>5 DEF Abort, Reaped, MaybeReaped
  <2>3. /\ retained' \in BOOLEAN
        /\ child' \in Children /\ (child'.acted <=> child.acted)
        /\ child'.at \in {child.at, "zombie", "reaped", "killed"}
    BY <1>2, <2>2 DEF Children
  <2>4. /\ at' \in {at, "undo_log", "ended"} /\ (at' = "abort" => at = "abort")
        /\ failure' \in Failures /\ failure' # "none"
        /\ gate' \in {"empty", "G", "closed"} /\ (gate' = "G" => gate = "G")
    BY <1>1, <1>2, <2>1, <2>2 DEF Abandoned, GateCloses, Failures
  <2>5. owner' \in Owners
    BY <1>2, <2>2 DEF Abandoned, Owners
  <2> QED BY <1>1, <1>2, <1>3, <2>3, <2>4, <2>5, ObserverCleans
<1> QED BY <1>4, <1>5 DEF Abort

LEMMA ObserverKeeps ==
  ASSUME SequenceInv, UNCHANGED <<bootVars, runVars>>, ObserveStep
  PROVE  SequenceInv'
BY VerifyPinsKeeps, OwnerKeeps, WaitsKeep, CollectKeeps, CorrelateKeeps, CloseLogKeeps, ReapKeeps,
   AbortKeeps DEF ObserveStep

(* The child moves on by itself. *)
LEMMA ChildMoves ==
  ASSUME SequenceInv, UNCHANGED <<late, hostVars, bootVars, runVars, gate, log, ram>>,
         audit' \in {"none", "pending", "logged"}, child' \in Children,
         child.at # "reaped", child'.at # "reaped",
         child'.acted \/ child'.at \in {"working", "reporting"} =>
           child.acted \/ child.at \in {"working", "reporting"} \/ gate = "G"
  PROVE  SequenceInv'
<1>1. /\ UNCHANGED <<late, n, at, failure, owner, retained, capture, denial, gate, log, ram>>
      /\ UNCHANGED <<boot, boots, phase, profile, staged, sealed, created, sequence, evidence, changedAt, console>>
  BY DEF hostVars, bootVars, runVars
<1>2. WorkerTyped' /\ GuestTyped'
  BY <1>1 DEF SequenceInv, WorkerTyped, GuestTyped
<1>3. LogFollows'
  BY <1>1 DEF SequenceInv, LogFollows
<1>4. ~Done /\ ~Done'
  BY <1>1 DEF SequenceInv, FailureFollows, Done
<1>5. Negative' <=> Negative
  BY <1>1 DEF Negative, Confined, Case
<1>6. FailureFollows' /\ FixturesFollow'
  BY <1>1, <1>4, <1>5 DEF SequenceInv, FailureFollows, FixturesFollow
<1>7. EvidenceFollows' /\ BootFollows'
  BY <1>1 DEF SequenceInv, EvidenceFollows, BootFollows, Seen
<1>8. ~Complete
  BY DEF Complete
<1>9. ConsoleFollows'
  BY <1>1, <1>8 DEF SequenceInv, ConsoleFollows
<1> QED BY <1>2, <1>3, <1>6, <1>7, <1>9 DEF SequenceInv

LEMMA ChildKeeps ==
  ASSUME SequenceInv, UNCHANGED <<bootVars, runVars>>, ChildStep
  PROVE  SequenceInv'
<1>1. child \in Children /\ audit \in {"none", "pending", "logged"}
  BY DEF SequenceInv, WorkerTyped
<1>2. UNCHANGED <<late, hostVars, gate, log, ram>>
  BY DEF ChildStep, ChildRefuses, ChildEnters, ChildReady, ChildPasses, ChildOperates, ChildReports, ChildEnds
<1>3. CASE ChildRefuses \/ ChildEnds
  <2>1. /\ child.at \notin {"none", "reaped"} /\ audit' = audit
        /\ \E e \in {"125", "killed", child.exit} :
             child' = [child EXCEPT !.at = "zombie", !.exit = e, !.pipes = FALSE]
    BY <1>3 DEF ChildRefuses, ChildEnds, Exits
  <2>2. child' \in Children /\ (child'.acted <=> child.acted) /\ child'.at = "zombie"
    BY <1>1, <2>1 DEF Children
  <2> QED BY <1>1, <1>2, <2>1, <2>2, ChildMoves
<1>4. CASE ChildEnters \/ ChildReady \/ ChildPasses
  <2>1. /\ child.at \in {"entering", "preflight", "gate"} /\ audit' = audit
        /\ \E p \in {"preflight", "gate", "working"} : child' = [child EXCEPT !.at = p]
        /\ gate = "G" \/ child'.at # "working"
    BY <1>1, <1>4 DEF ChildEnters, ChildReady, ChildPasses, Children
  <2>2. /\ child' \in Children /\ (child'.acted <=> child.acted)
        /\ child'.at \in {"preflight", "gate", "working"}
    BY <1>1, <2>1 DEF Children
  <2> QED BY <1>1, <1>2, <2>1, <2>2, ChildMoves
<1>5. CASE ChildOperates
  <2>1. /\ child.at = "working" /\ audit' \in {audit, "pending"}
        /\ \/ child' = [child EXCEPT !.at = "exiting", !.exit = "37", !.pipes = FALSE, !.acted = TRUE]
           \/ \E e \in {"pools_checked", "eacces", "other_errno", "unexpected_open", "control_written"} :
                child' = [child EXCEPT !.at = "reporting", !.acted = TRUE, !.exit = e]
    BY <1>5 DEF ChildOperates
  <2>2. child' \in Children /\ child'.at \in {"exiting", "reporting"}
    BY <1>1, <2>1 DEF Children
  <2> QED BY <1>1, <1>2, <2>1, <2>2, ChildMoves
<1>6. CASE ChildReports
  <2>1. /\ child.at = "reporting" /\ audit' = audit
        /\ child' = [child EXCEPT !.at = "exiting", !.exit = "0", !.pipes = FALSE]
    BY <1>6 DEF ChildReports
  <2>2. child' \in Children /\ (child'.acted <=> child.acted) /\ child'.at = "exiting"
    BY <1>1, <2>1 DEF Children
  <2> QED BY <1>1, <1>2, <2>1, <2>2, ChildMoves
<1> QED BY <1>3, <1>4, <1>5, <1>6 DEF ChildStep

LEMMA KernelLogsKeeps ==
  ASSUME SequenceInv, UNCHANGED <<bootVars, runVars>>, KernelLogs \/ WorkerTimesOut
  PROVE  SequenceInv'
<1>1. /\ UNCHANGED <<n, at, failure, owner, retained, capture, denial, child, gate, ram>>
      /\ UNCHANGED <<boot, boots, phase, profile, staged, sealed, created, sequence, evidence, changedAt, console>>
  BY DEF KernelLogs, WorkerTimesOut, hostVars, worldVars, bootVars, runVars
<1>2. log \in Seq(Logged) /\ LogFollows /\ late \in BOOLEAN /\ audit \in {"none", "pending", "logged"}
  BY DEF SequenceInv, WorkerTyped
<1>3. \/ log' = log /\ audit' = audit /\ late' = TRUE
      \/ /\ Len(log) < MaxLog /\ late' = late /\ audit' \in {audit, "logged"}
         /\ \E record \in {"own", "other", "lost"} : log' = Append(log, record)
  BY <1>2 DEF KernelLogs, WorkerTimesOut, worldVars, hostVars, LogFollows
<1>4. log' \in Seq(Logged) /\ Len(log') \in 1..MaxLog + 1 /\ \A i \in 2..Len(log') : log'[i] # "alien"
  <2>1. CASE log' = log
    BY <1>2, <2>1 DEF LogFollows
  <2>2. ASSUME Len(log) < MaxLog, NEW record \in {"own", "other", "lost"}, log' = Append(log, record)
        PROVE  log' \in Seq(Logged) /\ Len(log') \in 1..MaxLog + 1 /\ \A i \in 2..Len(log') : log'[i] # "alien"
    <3>1. /\ log' \in Seq(Logged) /\ Len(log') = Len(log) + 1 /\ log'[Len(log) + 1] = record
          /\ \A i \in 1..Len(log) : log'[i] = log[i]
      BY <1>2, <2>2, AppendProperties DEF Logged
    <3>2. Len(log) \in Nat /\ MaxLog \in Nat
      BY <1>2, LenProperties, LogAssumption
    <3> QED BY <1>2, <2>2, <3>1, <3>2 DEF LogFollows
  <2> QED BY <1>3, <2>1, <2>2
<1>5. /\ capture.at # "none" => capture.base \in 1..Len(log')
      /\ late' \in BOOLEAN /\ audit' \in {"none", "pending", "logged"}
  <2>1. Len(log) \in Nat /\ Len(log') \in Nat /\ Len(log') >= Len(log)
    BY <1>2, <1>3, AppendProperties, LenProperties DEF Logged
  <2>2. capture.at # "none" => capture.base \in 1..Len(log)
    BY <1>2 DEF LogFollows
  <2>3. late' \in BOOLEAN /\ audit' \in {"none", "pending", "logged"}
    BY <1>2, <1>3
  <2> QED BY <2>1, <2>2, <2>3
<1>6. WorkerTyped' /\ GuestTyped'
  BY <1>1, <1>4, <1>5 DEF SequenceInv, WorkerTyped, GuestTyped
<1>7. LogFollows'
  BY <1>1, <1>2, <1>4, <1>5 DEF LogFollows
<1>8. (Done' <=> Done) /\ (Negative' <=> Negative)
  BY <1>1 DEF Negative, Confined, Case, Done
<1>9. FailureFollows' /\ FixturesFollow'
  BY <1>1, <1>8 DEF SequenceInv, FailureFollows, FixturesFollow
<1>10. EvidenceFollows' /\ BootFollows'
  BY <1>1 DEF SequenceInv, EvidenceFollows, BootFollows, Seen
<1>11. ConsoleFollows'
  BY <1>1 DEF SequenceInv, ConsoleFollows, Complete, Closed
<1> QED BY <1>6, <1>7, <1>9, <1>10, <1>11 DEF SequenceInv

LEMMA FixtureChangesKeeps ==
  ASSUME SequenceInv, FixtureChanges, changedAt' = n,
         UNCHANGED <<bootVars, created, sequence, evidence, console>>
  PROVE  SequenceInv'
<1>1. /\ UNCHANGED <<late, n, at, failure, owner, retained, capture, denial, child, gate, log, audit>>
      /\ UNCHANGED <<boot, boots, phase, profile, staged, sealed, created, sequence, evidence, console>>
      /\ ram = "held" /\ ram' = "changed"
  BY DEF FixtureChanges, hostVars, bootVars
<1>2. WorkerTyped' /\ GuestTyped'
  BY <1>1 DEF SequenceInv, WorkerTyped, GuestTyped
<1>3. (Done' <=> Done) /\ (Negative' <=> Negative)
  BY <1>1 DEF Negative, Confined, Case, Done
<1>4. LogFollows' /\ FailureFollows'
  BY <1>1, <1>3 DEF SequenceInv, LogFollows, FailureFollows
<1>5. FixturesFollow'
  BY <1>1 DEF FixturesFollow
<1>6. EvidenceFollows' /\ BootFollows'
  BY <1>1 DEF SequenceInv, EvidenceFollows, BootFollows, Seen
<1>7. ConsoleFollows'
  BY <1>1 DEF SequenceInv, ConsoleFollows, Complete, Closed
<1> QED BY <1>2, <1>4, <1>5, <1>6, <1>7 DEF SequenceInv

(* The guest's own steps between two workers, or before and after all. *)
Between == UNCHANGED <<late, n, at, failure, owner, retained, capture, denial, child, gate, log, audit>>

LEMMA WorkerRests ==
  ASSUME SequenceInv, Between, ram' \in {"none", "held", "changed", "failed", "closed", "unclosed"}
  PROVE  WorkerTyped' /\ LogFollows' /\ FailureFollows'
<1>1. (Done' <=> Done) /\ (Negative' <=> Negative)
  BY DEF Between, Negative, Confined, Case, Done
<1> QED BY <1>1 DEF SequenceInv, WorkerTyped, LogFollows, FailureFollows, Between

LEMMA BootKeeps ==
  ASSUME SequenceInv, Enter \/ BootStep \/ PrepareRoot
  PROVE  SequenceInv'
<1>1. Between /\ ram' = ram /\ UNCHANGED <<created, sequence, evidence, changedAt, console>>
  BY DEF Enter, BootStep, PrepareRoot, workerVars, hostVars, worldVars, runVars, Between
<1>2. WorkerTyped' /\ LogFollows' /\ FailureFollows'
  BY <1>1, WorkerRests DEF SequenceInv, WorkerTyped
<1>3. GuestTyped /\ BootFollows /\ EvidenceFollows /\ ConsoleFollows /\ FixturesFollow
  BY DEF SequenceInv
<1>4. CASE Enter
  <2>1. /\ UNCHANGED <<phase, profile, staged, sealed>> /\ boots < MaxBoots /\ boots' = boots + 1
        /\ boot' = IF profile \/ staged THEN "failed" ELSE "stage"
    BY <1>4 DEF Enter
  <2>2. GuestTyped'
    BY <1>1, <1>3, <2>1, SequenceAssumption DEF GuestTyped
  <2>3. FixturesFollow'
    BY <1>1, <1>3, <2>1 DEF FixturesFollow, Between, Done
  <2>4. EvidenceFollows'
    BY <1>1, <1>3, <2>1 DEF EvidenceFollows, Between, Seen
  <2>5. BootFollows'
    BY <1>3, <2>1 DEF BootFollows
  <2>6. ConsoleFollows'
    BY <1>1, <1>3, <2>1 DEF ConsoleFollows, Between, Complete, Closed
  <2> QED BY <1>2, <2>2, <2>3, <2>4, <2>5, <2>6 DEF SequenceInv
<1>5. CASE BootStep
  <2>1. /\ boot \in {"stage", "media", "policy", "launch"} /\ phase = "none" /\ UNCHANGED <<boots, sealed>>
    BY <1>3, <1>5 DEF BootStep, BootFollows
  <2>2. \/ boot = "stage" /\ boot' = "media" /\ staged' = TRUE /\ UNCHANGED <<profile, phase>>
        \/ boot = "media" /\ boot' = "policy" /\ UNCHANGED <<staged, profile, phase>>
        \/ boot = "policy" /\ boot' = "launch" /\ profile' = TRUE /\ UNCHANGED <<staged, phase>>
        \/ boot = "launch" /\ boot' = "wait" /\ phase' = "enter" /\ UNCHANGED <<staged, profile>>
        \/ boot' = "failed" /\ staged' \in BOOLEAN /\ profile' \in BOOLEAN /\ UNCHANGED phase
    BY <1>3, <1>5 DEF BootStep, Boots, ReadInputs, GuestTyped
  <2>3. phase' \in {"none", "enter"} /\ console = <<>>
    BY <1>3, <2>1, <2>2 DEF ConsoleFollows
  <2>4. GuestTyped'
    <3>1. profile' \in BOOLEAN /\ staged' \in BOOLEAN
      BY <1>3, <2>2 DEF GuestTyped
    <3>2. boot' \in {"media", "policy", "launch", "wait", "failed"}
      BY <2>2
    <3> QED BY <1>1, <1>3, <2>1, <2>3, <3>1, <3>2 DEF GuestTyped, GuestPhases
  <2>5. FixturesFollow'
    BY <1>1, <1>3, <2>3 DEF FixturesFollow
  <2>6. EvidenceFollows'
    <3>1. n = 0 /\ at = "idle" /\ ram = "none" /\ evidence = OwnDenials(Seen) /\ Seen' = Seen
      BY <1>1, <1>3, <2>1 DEF EvidenceFollows, Early, Seen, Between
    <3> QED BY <1>1, <1>3, <2>3, <3>1 DEF EvidenceFollows, Between
  <2>7. BootFollows'
    <3>1. phase' \notin Rooted
      BY <2>3 DEF Rooted
    <3>2. boot \in {"media", "policy", "launch"} => staged
      BY <1>3 DEF BootFollows
    <3> QED BY <2>1, <2>2, <3>1, <3>2 DEF BootFollows
  <2>8. ConsoleFollows'
    BY <1>1, <2>3, ConsoleFacts DEF ConsoleFollows
  <2> QED BY <1>2, <2>4, <2>5, <2>6, <2>7, <2>8 DEF SequenceInv
<1>6. CASE PrepareRoot
  <2>1. /\ UNCHANGED <<boot, boots, profile, staged>>
        /\ \/ phase = "enter" /\ phase' = "root" /\ (profile <=> TRUE) /\ UNCHANGED sealed
           \/ phase = "root" /\ phase' = "check" /\ sealed' = TRUE
           \/ phase = "check" /\ phase' = "fixtures" /\ UNCHANGED sealed
    BY <1>6 DEF PrepareRoot, Phase, ProfileIs
  <2>2. /\ phase \in Early /\ phase' \in Early \ {"none", "enter"} /\ phase' \in Rooted
        /\ phase' \notin {"workers", "close", "report", "reported", "done"} /\ console = <<>>
        /\ phase \in Rooted \/ phase' = "root"
    BY <1>3, <2>1 DEF Early, Rooted, ConsoleFollows
  <2>3. GuestTyped'
    <3>1. sealed' \in BOOLEAN
      BY <1>3, <2>1 DEF GuestTyped
    <3> QED BY <1>1, <1>3, <2>1, <2>2, <3>1 DEF GuestTyped, GuestPhases
  <2>4. FixturesFollow'
    BY <1>1, <1>3, <2>2 DEF FixturesFollow
  <2>5. EvidenceFollows'
    <3>1. n = 0 /\ at = "idle" /\ ram = "none" /\ evidence = OwnDenials(Seen) /\ Seen' = Seen
      BY <1>1, <1>3, <2>2 DEF EvidenceFollows, Seen, Between
    <3> QED BY <1>1, <1>3, <2>2, <3>1 DEF EvidenceFollows, Between
  <2>6. BootFollows'
    BY <1>3, <2>1, <2>2 DEF BootFollows, Rooted
  <2>7. ConsoleFollows'
    BY <1>1, <2>2, ConsoleFacts DEF ConsoleFollows
  <2> QED BY <1>2, <2>3, <2>4, <2>5, <2>6, <2>7 DEF SequenceInv
<1> QED BY <1>4, <1>5, <1>6

LEMMA BootWaitsKeeps ==
  ASSUME SequenceInv, BootWaits
  PROVE  SequenceInv'
<1>1. /\ UNCHANGED <<late, n, failure, owner, retained, capture, denial, child, log, audit, ram>>
      /\ UNCHANGED <<boots, profile, staged, sealed, created, sequence, evidence, changedAt, console>>
      /\ boot = "wait"
  BY DEF BootWaits, runVars
<1>2. WorkerTyped /\ GuestTyped /\ BootFollows /\ EvidenceFollows /\ ConsoleFollows
  BY DEF SequenceInv
<1>3. CASE UNCHANGED <<phase, at, gate>> /\ boot' \in {"done", "failed"}
  <2>1. Between
    BY <1>1, <1>3 DEF Between
  <2>2. WorkerTyped' /\ LogFollows' /\ FailureFollows'
    BY <1>1, <1>2, <2>1, WorkerRests DEF WorkerTyped
  <2>3. GuestTyped' /\ BootFollows'
    BY <1>1, <1>2, <1>3 DEF GuestTyped, BootFollows
  <2>4. FixturesFollow'
    BY <1>1, <1>3 DEF SequenceInv, FixturesFollow, Done
  <2>5. EvidenceFollows' /\ ConsoleFollows'
    BY <1>1, <1>2, <1>3 DEF EvidenceFollows, Seen, ConsoleFollows, Complete, Closed
  <2> QED BY <2>2, <2>3, <2>4, <2>5 DEF SequenceInv
<1>4. CASE boot' = "failed" /\ phase' = "killed" /\ at' = "dead" /\ GateCloses
  <2>1. at' \notin Forward /\ at' \notin Blind \cup Recording \cup Judging /\ at' \in Places /\ ~Done'
    BY <1>4 DEF Forward, Blind, Recording, Judging, Places, Done, Undoing
  <2>2. gate' \in {"empty", "G", "closed"} /\ (gate' = "G" => gate = "G")
    BY <1>2, <1>4 DEF GateCloses, WorkerTyped
  <2>3. WorkerTyped'
    BY <1>1, <1>2, <2>1, <2>2 DEF WorkerTyped
  <2>4. LogFollows'
    BY <1>1, <1>4, <2>1, <2>2 DEF SequenceInv, LogFollows
  <2>5. FailureFollows'
    BY <1>4, <2>1 DEF FailureFollows
  <2>6. FixturesFollow'
    BY <1>1, <1>4 DEF SequenceInv, FixturesFollow
  <2>7. phase' \notin Rooted /\ phase' \notin Early /\ phase' \in GuestPhases
    BY <1>4 DEF Rooted, Early, GuestPhases
  <2>8. GuestTyped'
    BY <1>1, <1>2, <1>4, <2>7 DEF GuestTyped
  <2>9. EvidenceFollows'
    BY <1>1, <1>2, <1>4, <2>7 DEF EvidenceFollows
  <2>10. BootFollows'
    BY <1>1, <1>2, <1>4, <2>7 DEF BootFollows
  <2>11. ConsoleFollows'
    BY <1>1, <1>2, <1>4, <2>7 DEF ConsoleFollows, Complete, Closed
  <2> QED BY <2>3, <2>4, <2>5, <2>6, <2>8, <2>9, <2>10, <2>11 DEF SequenceInv
<1> QED BY <1>3, <1>4 DEF BootWaits

(* A step between workers that ends in a phase in which nothing is claimed. *)
LEMMA PhaseEnds ==
  ASSUME SequenceInv, Between, UNCHANGED <<boot, boots, profile, staged, sealed, created, evidence, changedAt>>,
         ram' = ram \/ ram' \in {"closed", "unclosed"},
         phase # "none", at \in {"idle", "ended"},
         sequence' \in {"new", "running", "done", "failed"},
         \/ phase \in Rooted \ {"root"} /\ phase' \in {"fail", "fail_closed"} /\ console' = <<>>
         \/ phase' = "exit125" /\ console' \in {<<"unknown">>, <<"torn", "unknown">>}
  PROVE  SequenceInv'
<1>1. GuestTyped /\ BootFollows /\ EvidenceFollows /\ ConsoleFollows /\ FixturesFollow /\ WorkerTyped
  BY DEF SequenceInv
<1>2. ram' \in {"none", "held", "changed", "failed", "closed", "unclosed"}
  BY <1>1 DEF WorkerTyped
<1>3. WorkerTyped' /\ LogFollows' /\ FailureFollows'
  BY <1>2, WorkerRests
<1>4. /\ phase' \in GuestPhases /\ phase' \notin Early /\ console' \in Consoles
      /\ phase' \notin {"workers", "close", "report", "reported", "done", "root"}
      /\ phase' \in Rooted => phase \in Rooted \ {"root"}
      /\ phase' # "exit125" => console' = <<>>
  BY DEF GuestPhases, Rooted, Early, Consoles
<1>5. GuestTyped'
  BY <1>1, <1>4 DEF GuestTyped
<1>6. FixturesFollow'
  BY <1>1, <1>4 DEF FixturesFollow
<1>7. EvidenceFollows'
  BY <1>1, <1>4 DEF EvidenceFollows, Between
<1>8. BootFollows'
  BY <1>1, <1>4 DEF BootFollows
<1>9. ConsoleFollows'
  <2>1. console' # <<"summary">> /\ console' # <<"summary", "unknown">>
    BY ConsoleFacts
  <2>2. phase' = "exit125" => phase' \notin Rooted \cup {"none", "enter"}
    BY DEF Rooted
  <2> QED BY <1>4, <2>1, <2>2 DEF ConsoleFollows
<1> QED BY <1>3, <1>5, <1>6, <1>7, <1>8, <1>9 DEF SequenceInv

LEMMA UnknownIs ==
  /\ Append(<<>>, "unknown") = <<"unknown">> /\ Append(<<>>, "summary") = <<"summary">>
  /\ Append(<<>> \o <<>>, "unknown") = <<"unknown">>
  /\ Append(<<>> \o <<"torn">>, "unknown") = <<"torn", "unknown">>
  /\ Append(<<"summary">>, "unknown") = <<"summary", "unknown">>
<1>1. <<>> \o <<>> = <<>> /\ <<>> \o <<"torn">> = <<"torn">>
  OBVIOUS
<1>2. Append(<<>>, "unknown") = <<"unknown">> /\ Append(<<>>, "summary") = <<"summary">>
  OBVIOUS
<1>3. ASSUME NEW a \in {"torn", "summary"}
      PROVE  Append(<<a>>, "unknown") = <<a, "unknown">>
  <2> DEFINE all == {"torn", "summary", "unknown"}
             s == Append(<<a>>, "unknown")
             t == <<a, "unknown">>
  <2>1. <<a>> \in Seq(all) /\ Len(<<a>>) = 1 /\ <<a>>[1] = a
    OBVIOUS
  <2>2. s \in Seq(all) /\ Len(s) = 2 /\ s[1] = a /\ s[2] = "unknown"
    BY <2>1, AppendProperties
  <2>3. t \in Seq(all) /\ Len(t) = 2 /\ t[1] = a /\ t[2] = "unknown"
    OBVIOUS
  <2> HIDE DEF s, t
  <2>4. \A i \in 1..Len(s) : s[i] = t[i]
    BY <2>2, <2>3
  <2>5. s = t
    BY <2>2, <2>3, <2>4, SeqEqual
  <2> QED BY <2>5 DEF s, t
<1> QED BY <1>1, <1>2, <1>3

LEMMA SummaryKeeps ==
  ASSUME SequenceInv, Report
  PROVE  SequenceInv'
<1>1. /\ Between /\ ram' = ram
      /\ UNCHANGED <<boot, boots, profile, staged, sealed, created, sequence, evidence, changedAt>>
  BY DEF Report, workerVars, hostVars, worldVars, Between
<1>2. GuestTyped /\ BootFollows /\ EvidenceFollows /\ ConsoleFollows /\ FixturesFollow /\ WorkerTyped
  BY DEF SequenceInv
<1>3. WorkerTyped' /\ LogFollows' /\ FailureFollows'
  BY <1>1, <1>2, WorkerRests DEF WorkerTyped
<1>4. phase \in {"report", "fail_closed", "reported"}
  BY DEF Report
<1>5. CASE phase \in {"report", "fail_closed"} /\ phase' = "exit125"
  <2>1. console = <<>> /\ phase # "none" /\ at \in {"idle", "ended"}
    BY <1>2, <1>5 DEF ConsoleFollows, Rooted, EvidenceFollows
  <2>2. \/ console' = Append(console, "unknown")
        \/ \E torn \in {<<>>, <<"torn">>} : console' = Append(console \o torn, "unknown")
    BY <1>5 DEF Report
  <2>3. console' \in {<<"unknown">>, <<"torn", "unknown">>}
    BY <2>1, <2>2, UnknownIs
  <2>4. sequence' \in {"new", "running", "done", "failed"}
    BY <1>1, <1>2 DEF GuestTyped
  <2> QED BY <1>1, <1>5, <2>1, <2>3, <2>4, PhaseEnds
<1>6. CASE (phase = "report" /\ phase' # "exit125") \/ phase = "reported"
  <2>1. Complete /\ Closed /\ at = "idle"
    BY <1>2, <1>6, ConsoleFacts DEF ConsoleFollows, EvidenceFollows, Rooted
  <2>2. /\ phase' \in {"reported", "done", "exit125"}
        /\ console' = IF phase' = "exit125" THEN <<"summary", "unknown">> ELSE <<"summary">>
    <3>1. CASE phase = "report" /\ phase' # "exit125"
      <4>1. console = <<>>
        BY <1>2, <3>1 DEF ConsoleFollows, Rooted
      <4> QED BY <3>1, <4>1, UnknownIs DEF Report
    <3>2. CASE phase = "reported"
      <4>1. console = <<"summary">>
        BY <1>2, <3>2 DEF ConsoleFollows
      <4> QED BY <3>2, <4>1, UnknownIs DEF Report
    <3> QED BY <1>6, <3>1, <3>2
  <2>3. /\ Complete' /\ Closed' /\ at' = "idle"
    BY <1>1, <2>1 DEF Complete, Closed, Between
  <2>4. GuestTyped'
    BY <1>1, <1>2, <2>2 DEF GuestTyped, GuestPhases, Rooted, Consoles
  <2>5. FixturesFollow'
    BY <1>1, <1>2, <2>2 DEF FixturesFollow
  <2>6. EvidenceFollows'
    BY <1>1, <1>2, <2>2, <2>3 DEF EvidenceFollows, Early
  <2>7. BootFollows'
    BY <1>1, <1>2, <1>6, <2>1, <2>2 DEF BootFollows, Closed
  <2>8. ConsoleFollows'
    BY <2>2, <2>3, ConsoleFacts DEF ConsoleFollows, Rooted
  <2> QED BY <1>3, <2>4, <2>5, <2>6, <2>7, <2>8 DEF SequenceInv
<1>7. phase = "fail_closed" => phase' = "exit125"
  BY DEF Report
<1> QED BY <1>4, <1>5, <1>6, <1>7

(* The policy of a negative case: workers 3, 6 and 9. *)
LEMMA NegativeIs ==
  ASSUME n \in 1..Workers
  PROVE  Negative <=> n \in {3, 6, 9}
<1>1. n \in {1, 2, 3, 4, 5, 6, 7, 8, 9, 10, 11}
  BY DEF Workers
<1>2. CASE n \in {1, 11}
  BY <1>2 DEF Negative, Confined, Case, Worker, Workers, Denied
<1>3. CASE n \in {2, 3, 4}
  <2>1. n # 1 /\ n # Workers /\ (n - 2) \div 3 + 1 = 1 /\ (((n - 2) % 3 = 1) <=> n = 3)
    BY <1>3 DEF Workers
  <2> QED BY <1>3, <2>1 DEF Negative, Confined, Case, Worker, Denied
<1>4. CASE n \in {5, 6, 7}
  <2>1. n # 1 /\ n # Workers /\ (n - 2) \div 3 + 1 = 2 /\ (((n - 2) % 3 = 1) <=> n = 6)
    BY <1>4 DEF Workers
  <2> QED BY <1>4, <2>1 DEF Negative, Confined, Case, Worker, Denied
<1>5. CASE n \in {8, 9, 10}
  <2>1. n # 1 /\ n # Workers /\ (n - 2) \div 3 + 1 = 3 /\ (((n - 2) % 3 = 1) <=> n = 9)
    BY <1>5 DEF Workers
  <2> QED BY <1>5, <2>1 DEF Negative, Confined, Case, Worker, Denied
<1> QED BY <1>1, <1>2, <1>3, <1>4, <1>5

LEMMA OneDenialMore ==
  ASSUME NEW k \in 1..Workers
  PROVE  OwnDenials(k) = IF k \in {3, 6, 9} THEN OwnDenials(k - 1) \cup {[worker |-> k, of |-> "own"]}
                         ELSE OwnDenials(k - 1)
<1>1. \A v \in {3, 6, 9} : v <= k <=> v <= k - 1 \/ v = k
  OBVIOUS
<1> QED BY <1>1 DEF OwnDenials

LEMMA FixtureIsCreated ==
  ASSUME SequenceInv, CreateFixture
  PROVE  SequenceInv'
<1>1. /\ UNCHANGED <<boot, boots, profile, staged, sealed, sequence, evidence, changedAt, console>>
      /\ Between /\ phase = "fixtures" /\ ram = "none"
  BY DEF CreateFixture, hostVars, Between
<1>2. GuestTyped /\ BootFollows /\ EvidenceFollows /\ ConsoleFollows /\ FixturesFollow
  BY DEF SequenceInv
<1>3. /\ n = 0 /\ at = "idle" /\ changedAt = 0 /\ console = <<>> /\ evidence = OwnDenials(Seen)
      /\ Seen' = Seen /\ n' = 0 /\ at' = "idle"
  BY <1>1, <1>2 DEF EvidenceFollows, FixturesFollow, ConsoleFollows, Early, Rooted, Seen, Between
<1>4. CASE ram' = "closed" /\ phase' = "fail" /\ UNCHANGED created
  BY <1>1, <1>2, <1>3, <1>4, PhaseEnds DEF GuestTyped, Rooted
<1>5. CASE \/ created < MaxFixture /\ created' = created + 1 /\ UNCHANGED <<ram, phase>>
           \/ ram' = "held" /\ phase' = "workers" /\ UNCHANGED created
  <2>1. created' \in 0..MaxFixture /\ ram' \in {"none", "held"} /\ phase' \in {"fixtures", "workers"}
        /\ (phase' = "workers" => ram' = "held") /\ (phase' = "fixtures" => ram' = "none")
    BY <1>1, <1>2, <1>5, SequenceAssumption DEF GuestTyped
  <2>2. WorkerTyped' /\ LogFollows' /\ FailureFollows'
    BY <1>1, <2>1, WorkerRests
  <2>3. GuestTyped'
    BY <1>1, <1>2, <2>1 DEF GuestTyped, GuestPhases, Rooted
  <2>4. FixturesFollow'
    BY <1>1, <1>3, <2>1 DEF FixturesFollow
  <2>5. EvidenceFollows'
    BY <1>1, <1>2, <1>3, <2>1 DEF EvidenceFollows, Early
  <2>6. BootFollows'
    BY <1>1, <1>2, <2>1 DEF BootFollows, Rooted
  <2>7. ConsoleFollows'
    BY <1>1, <1>3, <2>1, ConsoleFacts DEF ConsoleFollows
  <2> QED BY <2>2, <2>3, <2>4, <2>5, <2>6, <2>7 DEF SequenceInv
<1> QED BY <1>4, <1>5 DEF CreateFixture

LEMMA NextWorkerKeeps ==
  ASSUME SequenceInv, NextWorker
  PROVE  SequenceInv'
<1>1. /\ UNCHANGED <<boot, boots, phase, profile, staged, sealed, created, evidence, changedAt, console>>
      /\ UNCHANGED <<retained, ram>>
      /\ phase = "workers" /\ at = "idle" /\ n < Workers /\ sequence' = "running"
      /\ n' = n + 1 /\ at' = "pins" /\ late' = FALSE /\ failure' = "none" /\ owner' = NoOwner
      /\ child' = NoChild /\ gate' = "empty" /\ log' = <<"alien">> /\ audit' = "none"
      /\ capture' = NoCapture /\ denial' = "none"
  BY DEF NextWorker, BeginWorker, bootVars
<1>2. GuestTyped /\ BootFollows /\ EvidenceFollows /\ ConsoleFollows /\ FixturesFollow /\ WorkerTyped
  BY DEF SequenceInv
<1>3. /\ at' \in Forward /\ at' \in Blind /\ at' \notin Recording \cup Judging /\ at' \in Places
      /\ at' \notin Undoing \cup {"abort", "close_log", "reap", "idle", "ended", "dead", "undo_child"}
  BY <1>1 DEF Forward, Blind, Recording, Judging, Places, Undoing
<1>4. /\ owner' \in Owners /\ child' \in Children /\ capture' \in Captures
      /\ child'.at = "none" /\ ~child'.acted /\ capture'.at = "none"
  <2>1. NoOwner \in Owners /\ NoChild \in Children /\ NoChild.at = "none" /\ ~NoChild.acted
    BY DEF NoOwner, Owners, NoChild, Children
  <2>2. NoCapture \in Captures /\ NoCapture.at = "none"
    BY DEF NoCapture, Captures
  <2> QED BY <1>1, <2>1, <2>2
<1>5. log' \in Seq(Logged) /\ Len(log') = 1
  BY <1>1 DEF Logged
<1>6. n' \in 1..Workers
  BY <1>1, <1>2 DEF WorkerTyped, Workers
<1>7. WorkerTyped'
  <2>1. n' \in 0..Workers
    BY <1>6 DEF Workers
  <2> QED BY <1>1, <1>2, <1>3, <1>4, <1>5, <2>1 DEF WorkerTyped, Failures
<1>8. GuestTyped'
  BY <1>1, <1>2 DEF GuestTyped
<1>9. LogFollows'
  BY <1>1, <1>3, <1>4, <1>5, LogAssumption DEF LogFollows
<1>10. FailureFollows'
  BY <1>1, <1>3 DEF FailureFollows, Done
<1>11. FixturesFollow'
  BY <1>1, <1>2, <1>3 DEF FixturesFollow, Done
<1>12. EvidenceFollows'
  <2>1. evidence = OwnDenials(n) /\ n' - 1 = n
    BY <1>1, <1>2 DEF EvidenceFollows, Seen, WorkerTyped, Workers
  <2>2. evidence' = OwnDenials(n' - 1)
    BY <1>1, <2>1
  <2>3. Seen' = n' - 1
    BY <1>3 DEF Seen
  <2> QED BY <1>1, <1>2, <1>6, <2>2, <2>3 DEF EvidenceFollows, Early
<1>13. BootFollows'
  BY <1>1, <1>2 DEF BootFollows
<1>14. ConsoleFollows'
  <2>1. console' = <<>>
    BY <1>1, <1>2 DEF ConsoleFollows, Rooted
  <2> QED BY <1>1, <2>1, ConsoleFacts DEF ConsoleFollows
<1> QED BY <1>7, <1>8, <1>9, <1>10, <1>11, <1>12, <1>13, <1>14 DEF SequenceInv

LEMMA WorkerIsObserved ==
  ASSUME SequenceInv, WorkerObserved
  PROVE  SequenceInv'
<1>1. /\ UNCHANGED <<boot, boots, profile, staged, sealed, created, changedAt, console>>
      /\ UNCHANGED <<late, n, failure, owner, retained, capture, denial, child, gate, log, audit, ram>>
      /\ phase = "workers" /\ at = "ended"
  BY DEF WorkerObserved, worldVars
<1>2. GuestTyped /\ BootFollows /\ EvidenceFollows /\ ConsoleFollows /\ FixturesFollow /\ WorkerTyped /\ FailureFollows
  BY DEF SequenceInv
<1>3. console = <<>> /\ n \in 1..Workers /\ evidence = OwnDenials(n - 1)
  BY <1>1, <1>2 DEF EvidenceFollows, ConsoleFollows, Seen, Rooted, WorkerTyped, Workers
<1>4. CASE sequence' = "failed" /\ phase' = "fail" /\ UNCHANGED <<evidence, at>>
  <2>1. Between /\ phase \in Rooted \ {"root"} /\ console' = <<>>
    BY <1>1, <1>3, <1>4 DEF Between, Rooted
  <2> QED BY <1>1, <1>4, <2>1, PhaseEnds
<1>5. CASE /\ Accepts
           /\ evidence' = IF Negative THEN evidence \cup {[worker |-> n, of |-> denial]} ELSE evidence
           /\ sequence' = IF n = Workers THEN "done" ELSE sequence
           /\ phase' = IF n = Workers THEN "close" ELSE phase
           /\ at' = "idle"
  <2>1. Done
    BY <1>1, <1>5 DEF Accepts, Done, Undoing
  <2>2. child.at = "reaped" /\ (Negative => denial = "own") /\ (ram = "held" \/ (ram = "changed" /\ changedAt = n))
    BY <1>1, <1>2, <2>1 DEF FailureFollows, FixturesFollow
  <2>3. evidence' = OwnDenials(n)
    BY <1>3, <1>5, <2>2, NegativeIs, OneDenialMore
  <2>4. /\ at' \notin Forward /\ at' \notin Blind \cup Recording \cup Judging /\ at' \in Places /\ at' \notin Undoing
    BY <1>5 DEF Forward, Blind, Recording, Judging, Places, Undoing
  <2>5. WorkerTyped'
    BY <1>1, <1>2, <2>4 DEF WorkerTyped
  <2>6. LogFollows'
    <3>1. capture.at \in {"none", "closed"}
      BY <1>1 DEF SequenceInv, LogFollows
    <3> QED BY <1>1, <1>5, <2>4, <3>1 DEF SequenceInv, LogFollows
  <2>7. FailureFollows'
    BY <1>5, <2>4 DEF FailureFollows, Done
  <2>8. FixturesFollow'
    BY <1>1, <1>2, <2>2 DEF FixturesFollow
  <2>9. phase' \in {"workers", "close"} /\ (phase' = "close" => n = Workers /\ sequence' = "done")
    BY <1>1, <1>5
  <2>10. GuestTyped'
    <3>1. sequence' \in {"new", "running", "done", "failed"}
      BY <1>2, <1>5 DEF GuestTyped
    <3> QED BY <1>1, <1>2, <2>9, <3>1 DEF GuestTyped, GuestPhases, Rooted
  <2>11. EvidenceFollows'
    <3>1. Seen' = n
      BY <1>1, <1>5 DEF Seen
    <3>2. \A e \in evidence' : e.of = "own"
      BY <2>3 DEF OwnDenials
    <3> QED BY <1>5, <2>3, <2>9, <3>1, <3>2 DEF EvidenceFollows, Early
  <2>12. BootFollows'
    BY <1>1, <1>2, <2>9 DEF BootFollows, Rooted
  <2>13. ConsoleFollows'
    <3>1. phase' = "close" => Complete'
      BY <1>1, <2>2, <2>3, <2>9 DEF Complete
    <3> QED BY <1>1, <1>3, <2>9, <3>1, ConsoleFacts DEF ConsoleFollows
  <2> QED BY <2>5, <2>6, <2>7, <2>8, <2>10, <2>11, <2>12, <2>13 DEF SequenceInv
<1> QED BY <1>4, <1>5 DEF WorkerObserved

LEMMA FixturesAreClosed ==
  ASSUME SequenceInv, CloseFixtures
  PROVE  SequenceInv'
<1>1. /\ Between /\ phase \in {"close", "fail"} /\ ram' \in {"closed", "unclosed"}
      /\ UNCHANGED <<boot, boots, profile, staged, sealed, created, sequence, evidence, changedAt, console>>
  BY DEF CloseFixtures, hostVars, runVars, Between
<1>2. GuestTyped /\ BootFollows /\ EvidenceFollows /\ ConsoleFollows /\ FixturesFollow
  BY DEF SequenceInv
<1>3. console = <<>> /\ at \in {"idle", "ended"}
  BY <1>1, <1>2 DEF ConsoleFollows, EvidenceFollows, Rooted
<1>4. CASE phase' = "fail_closed"
  <2>1. /\ phase \in Rooted \ {"root"} /\ phase # "none" /\ console' = <<>>
        /\ sequence' \in {"new", "running", "done", "failed"}
    BY <1>1, <1>2, <1>3 DEF GuestTyped, Rooted
  <2> QED BY <1>1, <1>3, <1>4, <2>1, PhaseEnds
<1>5. CASE phase = "close" /\ ~retained /\ ram' = "closed" /\ phase' = "report"
  <2>1. Complete /\ at = "idle" /\ sealed /\ profile
    BY <1>2, <1>5 DEF ConsoleFollows, EvidenceFollows, BootFollows, Rooted
  <2>2. changedAt \in {0, Workers}
    BY <1>2, <1>5, <2>1 DEF FixturesFollow, Complete
  <2>3. Complete'
    BY <1>1, <2>1 DEF Complete, Between
  <2>4. Closed'
    BY <1>1, <1>5, <2>1, <2>2 DEF Closed, Between
  <2>5. WorkerTyped' /\ LogFollows' /\ FailureFollows'
    BY <1>1, WorkerRests
  <2>6. GuestTyped'
    BY <1>1, <1>2, <1>5 DEF GuestTyped, GuestPhases, Rooted
  <2>7. FixturesFollow'
    BY <1>5 DEF FixturesFollow
  <2>8. EvidenceFollows'
    BY <1>1, <1>2, <1>5, <2>1 DEF EvidenceFollows, Early, Between
  <2>9. BootFollows'
    BY <1>1, <1>2, <1>5, <2>1 DEF BootFollows
  <2>10. ConsoleFollows'
    BY <1>1, <1>3, <1>5, <2>3, <2>4, ConsoleFacts DEF ConsoleFollows
  <2> QED BY <2>5, <2>6, <2>7, <2>8, <2>9, <2>10 DEF SequenceInv
<1>6. \/ phase' = "fail_closed"
      \/ phase = "close" /\ ~retained /\ ram' = "closed" /\ phase' = "report"
  BY DEF CloseFixtures
<1> QED BY <1>4, <1>5, <1>6

LEMMA PhaseGivesUp ==
  ASSUME SequenceInv, PhaseFails \/ NoNextWorker
  PROVE  SequenceInv'
<1>1. /\ Between /\ ram' = ram
      /\ UNCHANGED <<boot, boots, profile, staged, sealed, created, evidence, changedAt>>
  BY DEF PhaseFails, NoNextWorker, workerVars, hostVars, worldVars, Between
<1>2. GuestTyped /\ EvidenceFollows /\ ConsoleFollows
  BY DEF SequenceInv
<1>3. CASE PhaseFails
  <2>1. phase \in {"enter", "root", "check"} /\ phase' = "exit125" /\ console' = Append(console, "unknown")
        /\ sequence' = sequence
    BY <1>3 DEF PhaseFails
  <2>2. at = "idle" /\ console = <<>> /\ phase # "none"
    BY <1>2, <2>1 DEF EvidenceFollows, ConsoleFollows, Early, Rooted
  <2>3. console' = <<"unknown">> /\ sequence' \in {"new", "running", "done", "failed"}
    BY <1>2, <2>1, <2>2, UnknownIs DEF GuestTyped
  <2> QED BY <1>1, <2>1, <2>2, <2>3, PhaseEnds
<1>4. CASE NoNextWorker
  <2>1. phase = "workers" /\ at = "idle" /\ sequence' = "failed" /\ phase' = "fail" /\ console' = console
    BY <1>4 DEF NoNextWorker
  <2>2. console = <<>> /\ phase \in Rooted \ {"root"} /\ phase # "none"
    BY <1>2, <2>1 DEF ConsoleFollows, Rooted
  <2> QED BY <1>1, <2>1, <2>2, PhaseEnds
<1> QED BY <1>3, <1>4

LEMMA GuestStepKeeps ==
  ASSUME SequenceInv, GuestStep
  PROVE  SequenceInv'
BY BootKeeps, BootWaitsKeeps, PhaseGivesUp, FixtureIsCreated, NextWorkerKeeps, WorkerIsObserved,
   FixturesAreClosed, SummaryKeeps, ObserverKeeps, KernelLogsKeeps DEF GuestStep

LEMMA GuestAroundKeeps ==
  ASSUME SequenceInv, GuestAround
  PROVE  SequenceInv'
BY ChildKeeps, KernelLogsKeeps, FixtureChangesKeeps DEF GuestAround

LEMMA SequenceUnchanged ==
  ASSUME SequenceInv, UNCHANGED sequenceVars
  PROVE  SequenceInv'
<1>1. /\ Between /\ ram' = ram
      /\ UNCHANGED <<boot, boots, phase, profile, staged, sealed, created, sequence, evidence, changedAt, console>>
  BY DEF sequenceVars, workerVars, bootVars, runVars, hostVars, worldVars, Between
<1>2. WorkerTyped' /\ LogFollows' /\ FailureFollows'
  BY <1>1, WorkerRests DEF SequenceInv, WorkerTyped
<1>3. GuestTyped' /\ BootFollows'
  BY <1>1 DEF SequenceInv, GuestTyped, BootFollows
<1>4. FixturesFollow' /\ EvidenceFollows' /\ ConsoleFollows'
  BY <1>1 DEF SequenceInv, FixturesFollow, EvidenceFollows, ConsoleFollows, Between, Done, Seen, Complete, Closed
<1> QED BY <1>2, <1>3, <1>4 DEF SequenceInv

LEMMA SequenceInitially ==
  Init => SequenceInv
<1> SUFFICES ASSUME Init PROVE SequenceInv
  OBVIOUS
<1>1. /\ n = 0 /\ at = "idle" /\ retained = FALSE /\ ram = "none" /\ FreshWorker
      /\ boot = "off" /\ boots = 0 /\ phase = "none" /\ profile = FALSE /\ staged = FALSE
      /\ sealed = FALSE /\ created = 0 /\ sequence = "new" /\ evidence = {} /\ changedAt = 0
      /\ console = <<>>
  BY DEF Init, SequenceRest, WorkerInit
<1>2. /\ owner \in Owners /\ child \in Children /\ capture \in Captures
      /\ child.at = "none" /\ ~child.acted /\ capture.at = "none"
  <2>1. NoOwner \in Owners /\ NoChild \in Children /\ NoChild.at = "none" /\ ~NoChild.acted
    BY DEF NoOwner, Owners, NoChild, Children
  <2>2. NoCapture \in Captures /\ NoCapture.at = "none"
    BY DEF NoCapture, Captures
  <2> QED BY <1>1, <2>1, <2>2 DEF FreshWorker
<1>3. log \in Seq(Logged) /\ Len(log) = 1
  BY <1>1 DEF FreshWorker, Logged
<1>4. /\ at \notin Forward /\ at \notin Blind \cup Recording \cup Judging /\ at \in Places /\ at \notin Undoing
  BY <1>1 DEF Forward, Blind, Recording, Judging, Places, Undoing
<1>5. WorkerTyped
  <2>1. n \in 0..Workers
    BY <1>1 DEF Workers
  <2>2. late = FALSE /\ retained = FALSE
    BY <1>1, Zenon DEF FreshWorker
  <2>3. late \in BOOLEAN /\ retained \in BOOLEAN
    BY <2>2, Zenon
  <2>4. failure = "none" /\ gate = "empty" /\ audit = "none" /\ denial = "none" /\ ram = "none"
    BY <1>1, Zenon DEF FreshWorker
  <2>5. /\ failure \in Failures /\ gate \in {"empty", "G", "closed"}
        /\ audit \in {"none", "pending", "logged"} /\ denial \in {"none", "own"}
        /\ ram \in {"none", "held", "changed", "failed", "closed", "unclosed"}
    BY <2>4 DEF Failures
  <2> QED BY <1>2, <1>3, <1>4, <2>1, <2>3, <2>5, Zenon DEF WorkerTyped
<1>6. GuestTyped
  <2>1. boots \in 0..MaxBoots /\ created \in 0..MaxFixture /\ changedAt \in 0..Workers
    <3>1. boots = 0 /\ created = 0 /\ changedAt = 0
      BY <1>1, Zenon
    <3> QED BY <3>1, SequenceAssumption DEF Workers
  <2>2. profile \in BOOLEAN /\ staged \in BOOLEAN /\ sealed \in BOOLEAN
    BY <1>1, Zenon
  <2>3. boot = "off" /\ phase = "none" /\ sequence = "new" /\ console = <<>>
    BY <1>1, Zenon
  <2>4. /\ boot \in {"off", "stage", "media", "policy", "launch", "wait", "done", "failed"}
        /\ phase \in GuestPhases /\ sequence \in {"new", "running", "done", "failed"}
        /\ console \in Consoles
    BY <2>3 DEF GuestPhases, Consoles
  <2> QED BY <2>1, <2>2, <2>4, Zenon DEF GuestTyped
<1>7. LogFollows
  BY <1>1, <1>2, <1>3, <1>4, LogAssumption DEF LogFollows, FreshWorker
<1>8. FailureFollows /\ FixturesFollow
  BY <1>1, <1>4 DEF FailureFollows, FixturesFollow, Done
<1>9. EvidenceFollows
  <2>1. OwnDenials(0) = {}
    BY DEF OwnDenials
  <2> QED BY <1>1, <2>1 DEF EvidenceFollows, Seen
<1>10. BootFollows
  BY <1>1 DEF BootFollows, Rooted
<1>11. ConsoleFollows
  BY <1>1, ConsoleFacts DEF ConsoleFollows
<1> QED BY <1>5, <1>6, <1>7, <1>8, <1>9, <1>10, <1>11 DEF SequenceInv

(* The inductive invariant of the validation in the guest: where each of    *)
(* its eleven workers is, what its log, its child and its fixtures are by    *)
(* then, and what the sequence and the console may say (boot(),             *)
(* supervise(), observe_fixed_worker()).                                   *)
THEOREM SequenceCorrect == Spec => []SequenceInv
<1>1. SequenceInv /\ [Next]_vars => SequenceInv'
  <2> SUFFICES ASSUME SequenceInv, [Next]_vars PROVE SequenceInv'
    OBVIOUS
  <2>1. GuestStep \/ GuestAround \/ UNCHANGED sequenceVars
    BY DEF Next, ProgramStep, Around, ClockNext, vars
  <2> QED BY <2>1, GuestStepKeeps, GuestAroundKeeps, SequenceUnchanged
<1> QED BY <1>1, SequenceInitially, PTL DEF Spec

(* A denial that the sequence counts is the worker's own, no worker acts    *)
(* before its cursor was taken, and the summary is written once, after      *)
(* eleven workers, three own denials, the last child reaped, and fixtures   *)
(* that were the same at every use (bootstrap_native_capture.py,            *)
(* bootstrap_native_sequence.py, guest/bootstrap_native_boot.py).           *)
THEOREM ReportEarned == Spec => []ReportIsEarned
<1>1. ASSUME SequenceInv PROVE ReportIsEarned
  <2>1. EvidenceIsOwn
    BY <1>1 DEF SequenceInv, EvidenceFollows, LogFollows, EvidenceIsOwn
  <2>2. ASSUME Contains(console, "summary")
        PROVE  console \in {<<"summary">>, <<"summary", "unknown">>}
    <3>1. PICK i \in 1..Len(console) : console[i] = "summary"
      BY <2>2 DEF Contains
    <3>2. console \in {<<>>, <<"unknown">>, <<"torn", "unknown">>, <<"summary">>, <<"summary", "unknown">>}
      BY <1>1 DEF SequenceInv, GuestTyped, Consoles
    <3>3. CASE console = <<>>
      BY <3>1, <3>3
    <3>4. CASE console = <<"unknown">>
      <4>1. Len(console) = 1 /\ console[1] = "unknown"
        BY <3>4
      <4> QED BY <3>1, <4>1
    <3>5. CASE console = <<"torn", "unknown">>
      <4>1. Len(console) = 2 /\ console[1] = "torn" /\ console[2] = "unknown"
        BY <3>5
      <4> QED BY <3>1, <4>1
    <3> QED BY <3>2, <3>3, <3>4, <3>5
  <2>3. ASSUME console \in {<<"summary">>, <<"summary", "unknown">>}
        PROVE  \A i, j \in DOMAIN console : console[i] = "summary" /\ console[j] = "summary" => i = j
    <3>1. CASE console = <<"summary">>
      BY <3>1
    <3>2. CASE console = <<"summary", "unknown">>
      BY <3>2
    <3> QED BY <2>3, <3>1, <3>2
  <2>4. Complete /\ Closed => evidence = {[worker |-> k, of |-> "own"] : k \in {3, 6, 9}}
    <3>1. {v \in {3, 6, 9} : v <= Workers} = {3, 6, 9}
      BY DEF Workers
    <3> QED BY <3>1 DEF Complete, OwnDenials
  <2>5. SummaryIsEarned
    BY <1>1, <2>2, <2>3, <2>4 DEF SequenceInv, ConsoleFollows, SummaryIsEarned, Complete, Closed
  <2> QED BY <2>1, <2>5 DEF ReportIsEarned
<1> QED BY <1>1, SequenceCorrect, PTL

-----------------------------------------------------------------------------
(* The form, the faults and the bounded counters.                          *)

StoreForms == {"provision", "media", "marker"}
ImageForms == {"prepare", "maintain"}
Budget == IF form \in ImageForms THEN MaxMishaps ELSE MaxFaults

(* Nothing is on the line of a form that has no session. *)
FormFollows ==
  /\ form \in {"sequence", "serial"} \cup StoreForms \cup ImageForms
  /\ kind = IF form \in StoreForms THEN form ELSE "none"
  /\ form # "serial" => /\ \A e \in Ends : end[e].op = "off" /\ wire[e] = <<>>
                        /\ pio.at = "none"

(* A run that is at work has not used up the runs. *)
CountsHold ==
  /\ expired \in BOOLEAN /\ cancelRequested \in BOOLEAN /\ faults \in 0..Budget
  /\ Len(exits) <= MaxRuns /\ (stage # "idle" => Len(exits) < MaxRuns)
  /\ calls \in 0..MaxCalls

BoundsInv == FormFollows /\ CountsHold

(* What a step costs of the faults that a run may see. *)
LEMMA FaultsBounded ==
  /\ faults \in 0..MaxFaults /\ (Works \/ Fails) => faults' \in 0..MaxFaults
  /\ faults \in 0..MaxMishaps /\ (Works \/ Mishap) => faults' \in 0..MaxMishaps
BY FaultAssumption, BoundsAssumption DEF Works, Fails, Mishap

LEMMA ObserverPays ==
  ASSUME ObserveStep \/ WorkerTimesOut PROVE Works \/ Fails
<1>1. CASE VerifyPins
  BY <1>1 DEF VerifyPins, Step
<1>2. CASE OwnerChecks \/ RenderPlan \/ Spawn \/ Adopt
  BY <1>2 DEF OwnerChecks, RenderPlan, Spawn, Adopt, Step
<1>3. CASE ReadReport \/ ReadEnd \/ WaitFails
  BY <1>3 DEF ReadReport, ReadEnd, WaitFails
<1>4. CASE TakeBaseline \/ ReleaseGate \/ ObserveExit
  BY <1>4 DEF TakeBaseline, ReleaseGate, ObserveExit, Step
<1>5. CASE Collect
  BY <1>5 DEF Collect, Step
<1>6. CASE Correlate \/ WorkerTimesOut
  BY <1>6 DEF Correlate, WorkerTimesOut
<1>7. CASE CloseLog
  BY <1>7 DEF CloseLog
<1>8. CASE ReapAfterCapture
  BY <1>8 DEF ReapAfterCapture, Step
<1>9. CASE Abort
  BY <1>9 DEF Abort
<1> QED BY <1>1, <1>2, <1>3, <1>4, <1>5, <1>6, <1>7, <1>8, <1>9 DEF ObserveStep

LEMMA ChildPays ==
  ASSUME ChildStep \/ KernelLogs \/ FixtureChanges PROVE Works \/ Fails
<1>1. CASE ChildRefuses \/ ChildEnters \/ ChildReady \/ ChildPasses
  BY <1>1 DEF ChildRefuses, ChildEnters, ChildReady, ChildPasses
<1>2. CASE ChildOperates
  BY <1>2 DEF ChildOperates
<1>3. CASE ChildReports \/ ChildEnds \/ KernelLogs \/ FixtureChanges
  BY <1>3 DEF ChildReports, ChildEnds, KernelLogs, FixtureChanges
<1> QED BY <1>1, <1>2, <1>3 DEF ChildStep

LEMMA GuestPays ==
  ASSUME GuestStep \/ GuestAround PROVE (Works \/ Fails) /\ UNCHANGED control
<1>1. CASE Enter \/ BootStep \/ BootWaits
  BY <1>1 DEF Enter, BootStep, BootWaits, Refuses
<1>2. CASE PrepareRoot \/ PhaseFails \/ CreateFixture
  BY <1>2 DEF PrepareRoot, PhaseFails, CreateFixture, Phase, Refuses
<1>3. CASE NextWorker \/ NoNextWorker \/ WorkerObserved
  BY <1>3 DEF NextWorker, NoNextWorker, WorkerObserved
<1>4. CASE CloseFixtures \/ Report
  BY <1>4 DEF CloseFixtures, Report
<1>5. CASE (ObserveStep \/ WorkerTimesOut) /\ UNCHANGED <<bootVars, runVars, control>>
  BY <1>5, ObserverPays
<1>6. CASE GuestAround
  BY <1>6, ChildPays DEF GuestAround
<1> QED BY <1>1, <1>2, <1>3, <1>4, <1>5, <1>6 DEF GuestStep

(* A step of a body: it belongs to a form that has files, and ends at most *)
(* the one run that is at work.                                            *)
LEMMA StoreCounts ==
  ASSUME StoreTyped, StoreStep \/ StoreAround
  PROVE  /\ Works \/ Fails
         /\ kind # "none" /\ kind' = kind
         /\ \/ stage # "idle" /\ exits' = exits
            \/ stage # "idle" /\ stage' = "idle" /\ Len(exits') = Len(exits) + 1
            \/ Len(exits) < MaxRuns /\ exits' = exits
<1> DEFINE Counts == \/ stage # "idle" /\ exits' = exits
                     \/ stage # "idle" /\ stage' = "idle" /\ Len(exits') = Len(exits) + 1
                     \/ Len(exits) < MaxRuns /\ exits' = exits
<1>1. ASSUME NEW code, Exit(code) PROVE stage' = "idle" /\ Len(exits') = Len(exits) + 1
  BY <1>1 DEF Exit, StoreTyped
<1>2. ASSUME NEW from, NEW to, from # "idle", Answers(from, to)
      PROVE  (Works \/ Fails) /\ kind' = kind /\ stage # "idle" /\ Counts
  <2>1. stage = from /\ kind' = kind /\ (Works \/ Fails)
    BY <1>2 DEF Answers, Advances
  <2>2. exits' = exits \/ Exit(Code("refused")) \/ Exit(Code("unknown"))
    BY <1>2 DEF Answers
  <2> QED BY <1>1, <1>2, <2>1, <2>2
<1>3. CASE BeginRun
  BY <1>3 DEF BeginRun
<1>4. CASE CheckFrame \/ BindRequest \/ RenderMedia \/ CheckAnchorPath
  <2>1. Answers("frame", "bind") \/ Answers("bind", "dirs")
    BY <1>4 DEF CheckFrame, BindRequest, RenderMedia, CheckAnchorPath
  <2> QED BY <1>2, <2>1 DEF StoreTyped
<1>5. CASE HoldDirectories \/ AcquireDirectories \/ HoldInputs \/ ClaimRoot
  BY <1>5 DEF HoldDirectories, AcquireDirectories, HoldInputs, ClaimRoot, Advances, StoreTyped
<1>6. CASE OpenWriter \/ WriteOutput \/ WriteMarker \/ CloseWriter
  BY <1>6 DEF OpenWriter, WriteOutput, WriteMarker, CloseWriter, Advances, StoreTyped
<1>7. CASE Reopen \/ VerifyAll \/ CheckedPaths \/ ReleaseMedia
  BY <1>7 DEF Reopen, VerifyAll, CheckedPaths, ReleaseMedia, Advances, StoreTyped
<1>8. CASE StoreFails
  BY <1>8 DEF StoreFails, StoreTyped
<1>9. CASE CloseHandles
  <2>1. stage \in {"release", "undo"} /\ (Works \/ Fails) /\ kind' = kind
    BY <1>9 DEF CloseHandles
  <2>2. \E code : Exit(code)
    BY <1>9 DEF CloseHandles
  <2> QED BY <1>1, <2>1, <2>2 DEF StoreTyped
<1>10. CASE OtherWrites
  BY <1>10 DEF OtherWrites, StoreTyped
<1>11. CASE StoreCrash
  BY <1>1, <1>11 DEF StoreCrash, StoreTyped
<1> QED BY <1>3, <1>4, <1>5, <1>6, <1>7, <1>8, <1>9, <1>10, <1>11 DEF StoreStep, StoreAround

(* The session: no end that is off, and no line without a record, moves. *)
LEMMA SerialPays ==
  ASSUME SerialStep \/ SerialAround PROVE Works \/ Fails
<1>1. ASSUME NEW e \in Ends, EndStep(e) PROVE Works \/ Fails
  BY <1>1 DEF EndStep, HandshakeStep, Authenticated, Sent, TakeRecord, OperationFails, Goes
<1>2. ASSUME NEW e \in Ends, SendMessage(e) \/ Receive(e) \/ CallAfterStop(e) \/ CloseIdle(e)
      PROVE  Works \/ Fails
  BY <1>2 DEF SendMessage, Receive, CallAfterStop, CloseIdle, Goes
<1>3. CASE OpenPipe \/ OpenTty \/ DeviceWrites \/ DeviceReads \/ DeviceDisposes
  BY <1>3 DEF OpenPipe, OpenTty, Opened, Goes, DeviceWrites, DeviceReads, DeviceDisposes
<1>4. CASE Submit \/ Poll \/ PipeDisposes
  BY <1>4 DEF Submit, Poll, PipeDisposes
<1>5. CASE CloseAgain \/ KernelCompletes \/ LineFault
  BY <1>5 DEF CloseAgain, KernelCompletes, LineFault
<1> QED BY <1>1, <1>2, <1>3, <1>4, <1>5 DEF SerialStep, SerialAround

LEMMA SerialSleeps ==
  ASSUME \A e \in Ends : end[e].op = "off" /\ wire[e] = <<>>, pio.at = "none"
  PROVE  ~SerialStep /\ ~SerialAround
<1> SUFFICES ASSUME SerialStep \/ SerialAround PROVE FALSE
  OBVIOUS
<1>0. "controller" \in Ends /\ "guest" \in Ends
  BY DEF Ends
<1>1. ASSUME NEW e \in Ends, EndStep(e) PROVE FALSE
  BY <1>1 DEF EndStep, HandshakeStep, Authenticated, Sent, TakeRecord, OperationFails, Goes, Busy
<1>2. ASSUME NEW e \in Ends, SendMessage(e) \/ Receive(e) \/ CallAfterStop(e) \/ CloseIdle(e)
      PROVE  FALSE
  BY <1>2 DEF SendMessage, Receive, CallAfterStop, CloseIdle, Goes
<1>3. CASE OpenPipe \/ OpenTty
  BY <1>0, <1>3 DEF OpenPipe, OpenTty, Opened, Goes
<1>4. CASE DeviceWrites \/ DeviceReads \/ DeviceDisposes
  BY <1>0, <1>4 DEF DeviceWrites, DeviceReads, DeviceDisposes, WantsWrite, WantsRead
<1>5. CASE Submit \/ Poll \/ PipeDisposes
  BY <1>0, <1>5 DEF Submit, Poll, PipeDisposes, WantsWrite, WantsRead, Busy
<1>6. CASE CloseAgain \/ KernelCompletes \/ LineFault
  BY <1>0, <1>6 DEF CloseAgain, KernelCompletes, LineFault
<1> QED BY <1>1, <1>2, <1>3, <1>4, <1>5, <1>6 DEF SerialStep, SerialAround

LEMMA PreparationCounts ==
  ASSUME calls \in 0..MaxCalls, PreparationStep \/ PreparationAround
  PROVE  (Works \/ Mishap) /\ calls' \in 0..MaxCalls
<1>1. ASSUME NEW c \in Operators, TakeGuard(c) \/ LookAgain(c) \/ TakeClaim(c) \/ RunScript(c)
      PROVE  (Works \/ Mishap) /\ calls' = calls
  BY <1>1 DEF TakeGuard, LookAgain, TakeClaim, RunScript
<1>2. ASSUME NEW c \in Operators, MarkUnknown(c) \/ Settle(c) \/ ReleaseGuard(c)
      PROVE  (Works \/ Mishap) /\ calls' = calls
  BY <1>2 DEF MarkUnknown, Settle, ReleaseGuard, Store
<1>3. ASSUME NEW c \in Operators, StepFails(c) \/ OperatorDies(c)
      PROVE  (Works \/ Mishap) /\ calls' = calls
  BY <1>3 DEF StepFails, OperatorDies, Interrupted
<1>4. ASSUME NEW c \in Operators, NEW op, Review(c, op)
      PROVE  Works /\ calls < MaxCalls /\ calls' = calls + 1
  BY <1>4 DEF Review
<1>5. ASSUME GuestPowersOff PROVE Works /\ calls' = calls
  BY <1>5 DEF GuestPowersOff
<1>6. (Works \/ Mishap) /\ (calls' = calls \/ (calls < MaxCalls /\ calls' = calls + 1))
  <2>1. CASE PreparationStep
    <3>1. PICK c \in Operators :
            \/ TakeGuard(c) \/ LookAgain(c) \/ TakeClaim(c) \/ MarkUnknown(c) \/ RunScript(c)
            \/ Settle(c) \/ ReleaseGuard(c) \/ StepFails(c)
      BY <2>1 DEF PreparationStep
    <3> QED BY <1>1, <1>2, <1>3, <3>1
  <2>2. ASSUME NEW c \in Operators, \E op \in {"attach", "launch", "retire"} : Review(c, op)
        PROVE  Works /\ calls < MaxCalls /\ calls' = calls + 1
    BY <1>4, <2>2
  <2>3. CASE PreparationAround
    <3>1. GuestPowersOff \/ \E c \in Operators :
             OperatorDies(c) \/ \E op \in {"attach", "launch", "retire"} : Review(c, op)
      BY <2>3 DEF PreparationAround
    <3>2. CASE GuestPowersOff
      BY <1>5, <3>2
    <3>3. ASSUME NEW c \in Operators, OperatorDies(c) PROVE (Works \/ Mishap) /\ calls' = calls
      BY <1>3, <3>3
    <3> QED BY <2>2, <3>1, <3>2, <3>3
  <2> QED BY <2>1, <2>3
<1> QED BY <1>6, BoundsAssumption

LEMMA MaintenancePays ==
  ASSUME MaintenanceStep \/ MaintenanceAround PROVE Works \/ Mishap
<1>1. CASE PrepareAttempt \/ WriteMedia \/ ClaimAttempt \/ CopySource \/ CreateRescue \/ StartRescue
  BY <1>1 DEF PrepareAttempt, WriteMedia, ClaimAttempt, CopySource, CreateRescue, StartRescue
<1>2. CASE SendHandshake \/ AwaitReply \/ StopRescue \/ VerifyDisks \/ RemoveRescue \/ CheckReceipt
  BY <1>2 DEF SendHandshake, AwaitReply, StopRescue, VerifyDisks, RemoveRescue, CheckReceipt
<1>3. CASE StoreResult \/ StopAfterFailure \/ RecordFailure \/ AttemptFails
  BY <1>3 DEF StoreResult, StopAfterFailure, RecordFailure, AttemptFails
<1>4. CASE ScriptKilled \/ AttemptDies \/ DiskChanges
  BY <1>4 DEF ScriptKilled, AttemptDies, DiskChanges
<1>5. ASSUME NEW p \in Operators,
             \/ ClaimPublication(p) \/ ExportCopy(p) \/ RecordProvenance(p)
             \/ BeginPublication(p) \/ PublicationFails(p)
      PROVE  Works \/ Mishap
  BY <1>5 DEF ClaimPublication, ExportCopy, RecordProvenance, BeginPublication, PublicationFails
<1> QED BY <1>1, <1>2, <1>3, <1>4, <1>5 DEF MaintenanceStep, MaintenanceAround

LEMMA BoundsInitially ==
  Init => BoundsInv
<1> SUFFICES ASSUME Init PROVE BoundsInv
  OBVIOUS
<1>1. /\ form \in {"sequence", "serial"} \cup StoreForms \cup ImageForms
      /\ kind = IF form \in StoreForms THEN form ELSE "none"
  BY FormsAssumption DEF Init, StoreForms, ImageForms
<1>2. ASSUME form # "serial"
      PROVE  (\A e \in Ends : end[e].op = "off" /\ wire[e] = <<>>) /\ pio.at = "none"
  BY <1>2 DEF Init, SerialInit, NewEnd, NoTransfer
<1>3. expired \in BOOLEAN /\ cancelRequested \in BOOLEAN
  <2>1. expired = FALSE /\ cancelRequested = FALSE
    BY Zenon DEF Init, ControlInit
  <2> QED BY <2>1, Zenon
<1>4. faults \in 0..Budget
  <2>1. faults = 0
    BY Zenon DEF Init, ControlInit
  <2> QED BY <2>1, FaultAssumption, BoundsAssumption DEF Budget
<1>5. Len(exits) <= MaxRuns /\ (stage # "idle" => Len(exits) < MaxRuns)
  <2>1. exits = <<>> /\ stage = "idle"
    BY Zenon DEF Init, StoreRest
  <2> QED BY <2>1, RunsAssumption
<1>6. calls \in 0..MaxCalls
  <2>1. calls = 0
    BY DEF Init, PreparationRest, CreationBegun
  <2> QED BY <2>1, BoundsAssumption
<1> QED BY <1>1, <1>2, <1>3, <1>4, <1>5, <1>6 DEF BoundsInv, FormFollows, CountsHold

(* Which part of the state a step moves, and what it costs. *)
LEMMA BoundsKept ==
  ASSUME StoreInv, BoundsInv, [Next]_vars PROVE BoundsInv'
<1>0. StoreTyped /\ Len(exits) \in Nat
  BY DEF StoreInv, StoreTyped
<1>1. form' = form
  BY DEF Next, ProgramStep, Around, ClockNext, vars
<1>2. (form \notin ImageForms) => faults \in 0..MaxFaults
  BY DEF BoundsInv, CountsHold, Budget
<1>3. (form \in ImageForms) => faults \in 0..MaxMishaps
  BY DEF BoundsInv, CountsHold, Budget
<1>4. /\ kind # "none" => form \in StoreForms
      /\ form # "serial" => ~SerialStep /\ ~SerialAround
      /\ {"sequence", "serial"} \cap ImageForms = {} /\ StoreForms \cap ImageForms = {}
      /\ "serial" \notin StoreForms
  BY SerialSleeps DEF BoundsInv, FormFollows, StoreForms, ImageForms
<1>5. CASE form = "sequence" /\ (GuestStep \/ GuestAround) /\ UNCHANGED <<form, restVars>>
  <2>1. (Works \/ Fails) /\ UNCHANGED control
    BY <1>5, GuestPays
  <2>2. faults' \in 0..Budget'
    BY <1>1, <1>2, <1>4, <1>5, <2>1, FaultsBounded DEF Budget, ImageForms
  <2>3. UNCHANGED <<kind, stage, exits, calls, end, wire, pio, expired, cancelRequested>>
    BY <1>5, <2>1 DEF restVars, storeVars, serialVars, imageVars, preparationVars, control
  <2> QED BY <1>1, <2>2, <2>3 DEF BoundsInv, FormFollows, CountsHold
<1>6. CASE /\ StoreStep \/ StoreAround
           /\ UNCHANGED <<form, control, sequenceVars, serialVars, imageVars>>
  <2>1. /\ Works \/ Fails
        /\ kind # "none" /\ kind' = kind
        /\ \/ stage # "idle" /\ exits' = exits
           \/ stage # "idle" /\ stage' = "idle" /\ Len(exits') = Len(exits) + 1
           \/ Len(exits) < MaxRuns /\ exits' = exits
    BY <1>0, <1>6, StoreCounts
  <2>2. faults' \in 0..Budget'
    BY <1>1, <1>2, <1>4, <2>1, FaultsBounded DEF Budget, ImageForms, StoreForms
  <2>3. UNCHANGED <<calls, end, wire, pio, expired, cancelRequested>>
    BY <1>6 DEF serialVars, imageVars, preparationVars, control
  <2>4. Len(exits') <= MaxRuns /\ (stage' # "idle" => Len(exits') < MaxRuns)
    BY <1>0, <2>1, RunsAssumption DEF BoundsInv, CountsHold
  <2>5. kind' = kind
    BY <2>1
  <2> QED BY <1>1, <2>2, <2>3, <2>4, <2>5 DEF BoundsInv, FormFollows, CountsHold
<1>7. CASE /\ SerialStep \/ SerialAround
           /\ UNCHANGED <<form, control, sequenceVars, storeVars, imageVars>>
  <2>1. (Works \/ Fails) /\ form = "serial"
    BY <1>4, <1>7, SerialPays
  <2>2. faults' \in 0..Budget'
    BY <1>1, <1>2, <2>1, FaultsBounded DEF Budget, ImageForms
  <2>3. UNCHANGED <<kind, stage, exits, calls, expired, cancelRequested>>
    BY <1>7 DEF storeVars, imageVars, preparationVars, control
  <2> QED BY <1>1, <2>1, <2>2, <2>3 DEF BoundsInv, FormFollows, CountsHold
<1>8. CASE /\ form = "prepare" /\ (PreparationStep \/ PreparationAround)
           /\ UNCHANGED <<form, control, sequenceVars, storeVars, serialVars, maintenanceVars>>
  <2>1. (Works \/ Mishap) /\ calls' \in 0..MaxCalls
    BY <1>8, PreparationCounts DEF BoundsInv, CountsHold
  <2>2. faults' \in 0..Budget'
    BY <1>1, <1>3, <1>8, <2>1, FaultsBounded DEF Budget, ImageForms
  <2>3. UNCHANGED <<kind, stage, exits, end, wire, pio, expired, cancelRequested>>
    BY <1>8 DEF storeVars, serialVars, control
  <2> QED BY <1>1, <2>1, <2>2, <2>3 DEF BoundsInv, FormFollows, CountsHold
<1>9. CASE /\ form = "maintain" /\ (MaintenanceStep \/ MaintenanceAround)
           /\ UNCHANGED <<form, control, sequenceVars, storeVars, serialVars, preparationVars>>
  <2>1. Works \/ Mishap
    BY <1>9, MaintenancePays
  <2>2. faults' \in 0..Budget'
    BY <1>1, <1>3, <1>9, <2>1, FaultsBounded DEF Budget, ImageForms
  <2>3. UNCHANGED <<kind, stage, exits, calls, end, wire, pio, expired, cancelRequested>>
    BY <1>9 DEF storeVars, serialVars, preparationVars, control
  <2> QED BY <1>1, <2>2, <2>3 DEF BoundsInv, FormFollows, CountsHold
<1>10. CASE ClockNext
  <2>1. faults' = faults /\ Budget' = Budget
    BY <1>1, <1>10 DEF ClockNext, DeadlinePasses, Budget
  <2>2. UNCHANGED <<kind, stage, exits, calls, end, wire, pio, cancelRequested>>
    BY <1>10 DEF ClockNext, DeadlinePasses, restVars, storeVars, serialVars, imageVars, preparationVars
  <2>3. expired' \in BOOLEAN
    <3>1. expired' = TRUE
      BY <1>10, Zenon DEF ClockNext, DeadlinePasses
    <3> QED BY <3>1, Zenon
  <2> QED BY <1>1, <2>1, <2>2, <2>3 DEF BoundsInv, FormFollows, CountsHold
<1>11. CASE UNCHANGED vars
  <2>1. UNCHANGED <<form, faults, kind, stage, exits, calls, end, wire, pio, expired, cancelRequested>>
    BY <1>11 DEF vars, restVars, storeVars, serialVars, imageVars, preparationVars, control
  <2> QED BY <2>1 DEF BoundsInv, FormFollows, CountsHold, Budget
<1> QED BY <1>5, <1>6, <1>7, <1>8, <1>9, <1>10, <1>11 DEF Next, ProgramStep, Around

(* No step costs more faults, runs of a body or calls of operators than the *)
(* bounds allow, and no form starts another one: boot(), the store bodies,  *)
(* a session and the image scripts do not call each other.                  *)
THEOREM BoundsCorrect == Spec => []BoundsInv
<1>1. StoreInv /\ BoundsInv /\ [Next]_vars => BoundsInv'
  BY BoundsKept
<1> QED BY <1>1, BoundsInitially, StoreCorrect, PTL DEF Spec

(* The composed state is well typed whatever the form: the observer, the    *)
(* guest, the files, the channel, the machines and the records of the       *)
(* native bootstrap and the image scripts stay in the states of the code.   *)
THEOREM TypeCorrect == Spec => []TypeOK
<1>1. ASSUME SequenceInv, StoreInv, ChannelInv, PreparationInv, MaintenanceInv, BoundsInv
      PROVE  TypeOK
  <2>1. expired \in BOOLEAN /\ cancelRequested \in BOOLEAN /\ calls \in 0..MaxCalls
        /\ Len(exits) <= MaxRuns
    BY <1>1 DEF BoundsInv, CountsHold
  <2>2. faults \in 0..(IF form \in {"prepare", "maintain"} THEN MaxMishaps ELSE MaxFaults)
    BY <1>1 DEF BoundsInv, CountsHold, Budget, ImageForms
  <2>3. /\ n \in 0..Workers /\ late \in BOOLEAN /\ retained \in BOOLEAN
        /\ failure \in {"none", "worker_observation_unknown", "cleanup_unknown"}
        /\ gate \in {"empty", "G", "closed"}
        /\ audit \in {"none", "pending", "logged"} /\ denial \in {"none", "own", "alien"}
        /\ ram \in {"none", "held", "changed", "failed", "closed", "unclosed"}
    BY <1>1 DEF SequenceInv, WorkerTyped, Failures
  <2>4. /\ owner.state \in {"none", "held", "closed", "cleanup_unknown"}
        /\ child.at \in {"none", "entering", "preflight", "gate", "working", "reporting", "exiting",
                         "killed", "zombie", "reaped"}
    BY <1>1 DEF SequenceInv, WorkerTyped, Owners, Children
  <2>5. Len(log) <= MaxLog + 1
    BY <1>1, LogAssumption DEF SequenceInv, LogFollows
  <2>6. /\ boot \in {"off", "stage", "media", "policy", "launch", "wait", "done", "failed"}
        /\ boots \in 0..MaxBoots /\ created \in 0..MaxFixture
        /\ sequence \in {"new", "running", "done", "failed"}
    BY <1>1 DEF SequenceInv, GuestTyped
  <2>7. /\ files \in [Names -> {"absent", "empty", "torn", "whole", "altered", "alien"}]
        /\ cause \in {"none", "refused", "unknown"}
    BY <1>1 DEF StoreInv, StoreTyped, Contents, Causes
  <2>8. kind # "none" => item \in DOMAIN Outputs
    BY <1>1, OutputFacts DEF StoreInv, StoreTyped
  <2>9. /\ \A e \in Ends : end[e].line \in {"none", "open", "closed", "unknown"}
        /\ pio.at \in {"none", "pending", "done"}
    BY <1>1 DEF ChannelInv, ChannelTyped, EndStates, Transfers, Lines
  <2>10. /\ claims \subseteq {"launch", "retire"} /\ lock \in Operators \cup {"none", "left"}
         /\ host.vm \in {"absent", "bare", "off", "running"}
    BY <1>1 DEF PreparationInv, PreparationTyped, Machines
  <2>11. /\ attempt.result \in {"none", "prepared_not_started", "maintenance_unknown",
                                "inspected_not_accepted", "finalized_not_accepted"}
         /\ bench.vm \in {"absent", "bare", "ready", "running", "off"}
         /\ bench.copy \in {"none", "torn", "source", "mounted", "half", "final", "altered"}
    BY <1>1 DEF MaintenanceInv, AttemptTyped, Attempts, Benches, Results, Disks
  <2> QED BY <2>1, <2>2, <2>3, <2>4, <2>5, <2>6, <2>7, <2>8, <2>9, <2>10, <2>11, Zenon DEF TypeOK
<1> QED BY <1>1, SequenceCorrect, StoreCorrect, ChannelCorrect, PreparationCorrect, MaintenanceCorrect,
          BoundsCorrect, PTL
=============================================================================
