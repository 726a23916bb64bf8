------------------------- MODULE AtomicPublishProofs -------------------------
(***************************************************************************)
(* What AtomicPublish guarantees for every number of calls, paths, files   *)
(* and chunks: type correctness, the safety invariants that TLC checks on  *)
(* two calls, that published files are frozen, and that the protocol       *)
(* implements DurableStore.                                                *)
(***************************************************************************)
EXTENDS AtomicPublish, SequenceTheorems, TLAPS

USE OpAssumption, NoFileAssumption DEF modeVars, nameVars, Permission

-----------------------------------------------------------------------------
(* Type correctness.                                                       *)

LEMMA InitTypes == Init => PublishTypeOK
<1> SUFFICES ASSUME Init PROVE PublishTypeOK
  OBVIOUS
<1>1. << >> \in Content
  BY DEF Content
<1>2. \A c \in Chunk : <<c>> \in Content
  BY DEF Content
<1>3. data \in [File -> Content]
  BY <1>1, <1>2 DEF Init, FileSystemInit
<1>4. FileSystemTypeOK
  BY <1>3 DEF Init, FileSystemInit, FileSystemTypeOK, Entry, Original
<1>5. QED
  BY <1>1, <1>4 DEF Init, PublishTypeOK, Stage, Outcome, Entry

LEMMA StepTypes ==
  ASSUME PublishTypeOK, NEW o \in Op, Step(o)
  PROVE  PublishTypeOK'
<1> USE DEF PublishTypeOK, FileSystemTypeOK, Goto, Return, FailOpen, FailClosed,
            Stage, Outcome, Entry
<1>1. CASE Probe(o)
  BY <1>1 DEF Probe, fsVars
<1>2. CASE CreateTemp(o)
  <2>1. << >> \in Content
    BY DEF Content
  <2>2. QED
    BY <1>2, <2>1 DEF CreateTemp, CreateTempFile, fsVars
<1>3. CASE OpenExisting(o)
  BY <1>3 DEF OpenExisting, fsVars
<1>4. CASE CopyExisting(o)
  <2>1. data[existing[o]] \in Content
    BY <1>4 DEF CopyExisting
  <2>2. \A n \in 0..Len(data[existing[o]]) : SubSeq(data[existing[o]], 1, n) \in Content
    BY <2>1 DEF Content
  <2>3. CASE /\ SetData(o, data[existing[o]])
             /\ base' = [base EXCEPT ![o] = data[existing[o]]]
             /\ Goto(o, "write")
    BY <1>4, <2>1, <2>3 DEF CopyExisting, SetData
  <2>4. ASSUME NEW part \in Content, SetData(o, part), FailOpen(o), UNCHANGED base
        PROVE  PublishTypeOK'
    BY <1>4, <2>4 DEF CopyExisting, SetData
  <2>5. QED
    BY <1>4, <2>2, <2>3, <2>4 DEF CopyExisting
<1>5. ASSUME NEW c \in Chunk, WriteChunk(o, c)
      PROVE  PublishTypeOK'
  <2>1. Append(data[o], c) \in Content /\ Append(written[o], c) \in Content
    BY DEF Content
  <2>2. ASSUME NEW d \in Content, SetData(o, d),
               NEW w \in Content, written' \in {written, [written EXCEPT ![o] = w]},
               FailOpen(o) \/ UNCHANGED <<pc, outcome>>
        PROVE  PublishTypeOK'
    <3>1. UNCHANGED <<mode, path, existing, base, found>>
      BY <1>5 DEF WriteChunk
    <3>2. QED
      BY <2>2, <3>1 DEF SetData
  <2>3. QED
    BY <1>5, <2>1, <2>2 DEF WriteChunk
<1>6. CASE CallbackReturns(o)
  BY <1>6 DEF CallbackReturns, fsVars
<1>7. CASE SyncTemp(o)
  BY <1>7 DEF SyncTemp, SyncFile, fsVars
<1>8. CASE CloseTemp(o)
  BY <1>8 DEF CloseTemp, fsVars
<1>9. CASE ChmodTemp(o)
  BY <1>9 DEF ChmodTemp, ChmodFile, fsVars
<1>10. CASE Rename(o)
  BY <1>10 DEF Rename, RenameTemp, fsVars
<1>11. CASE CleanupClose(o)
  BY <1>11 DEF CleanupClose, fsVars
<1>12. CASE CleanupRemove(o)
  BY <1>12 DEF CleanupRemove, RemoveTemp, fsVars
<1>13. QED
  BY <1>1, <1>2, <1>3, <1>4, <1>5, <1>6, <1>7, <1>8, <1>9, <1>10, <1>11, <1>12
     DEF Step

LEMMA NextTypes == PublishTypeOK /\ [Next]_vars => PublishTypeOK'
<1> SUFFICES ASSUME PublishTypeOK, [Next]_vars PROVE PublishTypeOK'
  OBVIOUS
<1>1. ASSUME NEW o \in Op, Step(o) PROVE PublishTypeOK'
  BY <1>1, StepTypes
<1> USE DEF PublishTypeOK, FileSystemTypeOK, Goto, Stage, Outcome, Entry
<1>2. ASSUME NEW o \in Op, Start(o) PROVE PublishTypeOK'
  BY <1>2 DEF Start, fsVars
<1>3. ASSUME NEW o \in Op, Kill(o) PROVE PublishTypeOK'
  BY <1>3 DEF Kill, fsVars
<1>4. CASE PowerFailure
  <2>1. /\ temps' \in SUBSET File /\ diskTemps' \in SUBSET File
        /\ revived' \in SUBSET File /\ unsettled' \in SUBSET File
    BY <1>4 DEF PowerFailure, PowerLoss
  <2>2. perm' \in [File -> Permission]
    BY <1>4 DEF PowerFailure, PowerLoss
  <2>3. QED
    BY <1>4, <2>1, <2>2 DEF PowerFailure, PowerLoss, InProgress
<1>5. CASE Kernel
  BY <1>5 DEF Kernel, FlushEntry, WriteBack, opVars
<1>6. CASE UNCHANGED vars
  BY <1>6 DEF vars, fsVars, opVars
<1>7. QED
  BY <1>1, <1>2, <1>3, <1>4, <1>5, <1>6 DEF Next

(* Every variable keeps its type, whatever the calls do.                   *)
THEOREM TypeCorrect == Spec => []PublishTypeOK
<1>1. QED
  BY InitTypes, NextTypes, PTL DEF Spec

-----------------------------------------------------------------------------
(* The inductive invariant.                                                *)

Unstaged == {"idle", "probe", "createTemp"}

Staging == {"write", "sync", "close", "chmod", "rename"}

(* How far the temporary file of o is, stage by stage: the protocol's      *)
(* order is what makes PublishedIsWhole true at the rename.                *)
Progress(o) ==
  /\ pc[o] \in Unstaged \cup {"openExisting", "copy"} =>
       base[o] = << >> /\ written[o] = << >>
  /\ pc[o] \in {"openExisting", "copy"} => data[o] = << >>
  /\ pc[o] \in Staging => data[o] = Whole(o)
  /\ pc[o] \in {"close", "chmod", "rename"} => synced[o] = data[o]
  /\ pc[o] = "rename" => perm[o] = "final"

(* A file is reachable under a path only after its call returned ok.       *)
Reached(o) ==
  /\ outcome[o] = "none" <=> pc[o] # "returned"
  /\ outcome[o] = "ok" =>
       data[o] = Whole(o) /\ synced[o] = data[o] /\ perm[o] \in {"final", "reverted"}
  /\ Linked(o) => outcome[o] = "ok"

WholeInv == \A o \in Op : Progress(o) /\ Reached(o)

(* Names: a call's file is only ever under its own path, and a temporary   *)
(* name is that of a call that has created it; one that the disk may still *)
(* hold is not that of a file whose rename has reached the disk.           *)
NamesInv ==
  /\ \A o \in Op, p \in Path : dir[p] = o \/ diskDir[p] = o => p = path[o]
  /\ temps \subseteq diskTemps
  /\ diskTemps \subseteq Op
  /\ \A o \in diskTemps :
       /\ pc[o] \notin Unstaged
       /\ outcome[o] = "ok" => diskDir[path[o]] # o
  /\ \A o \in temps :
       \/ outcome[o] \in {"none", "leaked"}
       \/ o \in revived /\ (outcome[o] = "ok" => dir[path[o]] # o)

(* What create found keeps it from getting past the probe.                 *)
CreateInv ==
  \A o \in Op :
    /\ pc[o] = "idle" => found[o] = NoFile
    /\ mode[o] = "create" /\ found[o] # NoFile =>
         /\ pc[o] \in {"probe", "returned", "dead"}
         /\ outcome[o] # "ok"
         /\ pc[o] = "probe" => dir[path[o]] # NoFile

LEMMA AppendToConcat ==
  ASSUME NEW s \in Content, NEW t \in Content, NEW c \in Chunk
  PROVE  Append(s \o t, c) = s \o Append(t, c)
<1>1. s \o t \in Seq(Chunk)
  BY ConcatProperties DEF Content
<1>2. Append(s \o t, c) = (s \o t) \o <<c>> /\ Append(t, c) = t \o <<c>>
  BY <1>1, AppendIsConcat DEF Content
<1>3. <<c>> \in Seq(Chunk)
  OBVIOUS
<1>4. QED
  BY <1>2, <1>3, ConcatAssociative DEF Content

(* A step of one call leaves everything of another alone, but may take a   *)
(* path from it.                                                           *)
LEMMA StepFrame ==
  ASSUME PublishTypeOK, NEW o \in Op, Step(o)
  PROVE  /\ UNCHANGED <<mode, path, found, diskDir>>
         /\ \/ UNCHANGED dir
            \/ Rename(o) /\ dir' = [dir EXCEPT ![path[o]] = o] /\ outcome'[o] = "ok"
         /\ \A f \in File : f # o =>
              /\ data'[f] = data[f] /\ synced'[f] = synced[f] /\ perm'[f] = perm[f]
              /\ f \in temps' <=> f \in temps
              /\ f \in diskTemps' <=> f \in diskTemps
         /\ revived' = revived
         /\ \A q \in Op : q # o =>
              /\ pc'[q] = pc[q] /\ outcome'[q] = outcome[q] /\ existing'[q] = existing[q]
              /\ base'[q] = base[q] /\ written'[q] = written[q]
<1> USE DEF PublishTypeOK, FileSystemTypeOK, Goto, Return, FailOpen, FailClosed,
            SetData, fsVars
<1>1. CASE Probe(o)
  BY <1>1 DEF Probe
<1>2. CASE CreateTemp(o)
  BY <1>2 DEF CreateTemp, CreateTempFile
<1>3. CASE OpenExisting(o)
  BY <1>3 DEF OpenExisting
<1>4. CASE CopyExisting(o)
  BY <1>4 DEF CopyExisting
<1>5. ASSUME NEW c \in Chunk, WriteChunk(o, c)
      PROVE  /\ UNCHANGED <<mode, path, found, diskDir, dir, synced, perm, nameVars>>
             /\ \A f \in File : f # o => data'[f] = data[f]
             /\ \A q \in Op : q # o =>
              /\ pc'[q] = pc[q] /\ outcome'[q] = outcome[q] /\ existing'[q] = existing[q]
              /\ base'[q] = base[q] /\ written'[q] = written[q]
  BY <1>5 DEF WriteChunk
<1>6. CASE CallbackReturns(o)
  BY <1>6 DEF CallbackReturns
<1>7. CASE SyncTemp(o)
  BY <1>7 DEF SyncTemp, SyncFile
<1>8. CASE CloseTemp(o)
  BY <1>8 DEF CloseTemp
<1>9. CASE ChmodTemp(o)
  BY <1>9 DEF ChmodTemp, ChmodFile
<1>10. CASE Rename(o)
  BY <1>10 DEF Rename, RenameTemp
<1>11. CASE CleanupClose(o)
  BY <1>11 DEF CleanupClose
<1>12. CASE CleanupRemove(o)
  BY <1>12 DEF CleanupRemove, RemoveTemp
<1>13. QED
  BY <1>1, <1>2, <1>3, <1>4, <1>5, <1>6, <1>7, <1>8, <1>9, <1>10, <1>11, <1>12
     DEF Step

(* The call that takes the step keeps its own part of the invariant.       *)
LEMMA OwnProgress ==
  ASSUME PublishTypeOK, WholeInv, NEW o \in Op, Step(o)
  PROVE  Progress(o)' /\ Reached(o)'
<1>1. Progress(o) /\ Reached(o)
  BY DEF WholeInv
<1>2. outcome[o] = "none" /\ ~Linked(o)
  <2>1. pc[o] # "returned"
    BY DEF Step, Probe, CreateTemp, OpenExisting, CopyExisting, WriteChunk,
           CallbackReturns, SyncTemp, CloseTemp, ChmodTemp, Rename, CleanupClose,
           CleanupRemove
  <2>2. QED
    BY <1>1, <2>1 DEF Reached
<1>3. << >> \o << >> = << >> /\ \A s \in Content : s \o << >> = s
  BY ConcatEmptySeq DEF Content
<1> USE <1>2 DEF PublishTypeOK, FileSystemTypeOK, Goto, Return, FailOpen, FailClosed,
                 fsVars, Progress, Reached, Whole, Linked, Unstaged, Staging
<1>4. CASE Probe(o)
  BY <1>1, <1>4 DEF Probe
<1>5. CASE CreateTemp(o)
  BY <1>1, <1>3, <1>5 DEF CreateTemp, CreateTempFile
<1>6. CASE OpenExisting(o)
  BY <1>1, <1>3, <1>6 DEF OpenExisting
<1>7. CASE CopyExisting(o)
  <2>1. data[existing[o]] \in Content
    BY <1>7 DEF CopyExisting
  <2>2. UNCHANGED <<dir, diskDir, synced, perm, outcome, written>>
    BY <1>7 DEF CopyExisting, SetData
  <2>3. pc'[o] = "write" => data'[o] = base'[o] /\ base'[o] \in Content /\ written[o] = << >>
    BY <1>1, <1>7, <2>1 DEF CopyExisting, SetData
  <2>4. pc'[o] \in {"write", "cleanupClose"}
    BY <1>7 DEF CopyExisting
  <2>5. QED
    BY <1>1, <1>3, <2>2, <2>3, <2>4
<1>8. ASSUME NEW c \in Chunk, WriteChunk(o, c)
      PROVE  Progress(o)' /\ Reached(o)'
  <2>1. UNCHANGED <<dir, diskDir, synced, perm, outcome, base>>
    BY <1>8 DEF WriteChunk, SetData
  <2>2. pc'[o] \in {"write", "cleanupClose"}
    BY <1>8 DEF WriteChunk
  <2>3. pc'[o] = "write" => data'[o] = Append(data[o], c) /\ written'[o] = Append(written[o], c)
    BY <1>8 DEF WriteChunk, SetData
  <2>4. data[o] = base[o] \o written[o]
    BY <1>1, <1>8 DEF WriteChunk
  <2>5. Append(base[o] \o written[o], c) = base[o] \o Append(written[o], c)
    <3>1. base[o] \in Content /\ written[o] \in Content
      OBVIOUS
    <3>2. QED
      BY ONLY <3>1, AppendToConcat, c \in Chunk
  <2>6. pc'[o] = "write" => data'[o] = base'[o] \o written'[o]
    BY <2>1, <2>3, <2>4, <2>5
  <2>7. QED
    BY <1>1, <2>1, <2>2, <2>6
<1>9. CASE CallbackReturns(o)
  BY <1>1, <1>9 DEF CallbackReturns
<1>10. CASE SyncTemp(o)
  BY <1>1, <1>10 DEF SyncTemp, SyncFile
<1>11. CASE CloseTemp(o)
  BY <1>1, <1>11 DEF CloseTemp
<1>12. CASE ChmodTemp(o)
  BY <1>1, <1>12 DEF ChmodTemp, ChmodFile
<1>13. CASE Rename(o)
  BY <1>1, <1>13 DEF Rename, RenameTemp
<1>14. CASE CleanupClose(o)
  BY <1>1, <1>14 DEF CleanupClose
<1>15. CASE CleanupRemove(o)
  BY <1>1, <1>15 DEF CleanupRemove, RemoveTemp
<1>16. QED
  BY <1>4, <1>5, <1>6, <1>7, <1>8, <1>9, <1>10, <1>11, <1>12, <1>13, <1>14, <1>15
     DEF Step

LEMMA WholeInvStep == PublishTypeOK /\ WholeInv /\ [Next]_vars => WholeInv'
<1> SUFFICES ASSUME PublishTypeOK, WholeInv, [Next]_vars, NEW q \in Op
             PROVE  Progress(q)' /\ Reached(q)'
  BY DEF WholeInv
<1>0. Progress(q) /\ Reached(q)
  BY DEF WholeInv
<1>1. ASSUME NEW o \in Op, Step(o) PROVE Progress(q)' /\ Reached(q)'
  <2>1. CASE q = o
    BY <1>1, <2>1, OwnProgress
  <2>2. CASE q # o
    <3>1. /\ pc'[q] = pc[q] /\ outcome'[q] = outcome[q]
          /\ base'[q] = base[q] /\ written'[q] = written[q]
          /\ data'[q] = data[q] /\ synced'[q] = synced[q] /\ perm'[q] = perm[q]
      BY <1>1, <2>2, StepFrame
    <3>2. Linked(q)' => Linked(q)
      BY <1>1, <2>2, StepFrame DEF Linked, PublishTypeOK, FileSystemTypeOK
    <3>3. QED
      BY <1>0, <3>1, <3>2 DEF Progress, Reached, Whole
  <2>3. QED
    BY <2>1, <2>2
<1> USE <1>0 DEF Progress, Reached, Whole, Linked, PublishTypeOK, FileSystemTypeOK,
                 Goto, Unstaged, Staging
<1>2. ASSUME NEW o \in Op, Start(o) PROVE Progress(q)' /\ Reached(q)'
  BY <1>2 DEF Start, fsVars
<1>3. ASSUME NEW o \in Op, Kill(o) PROVE Progress(q)' /\ Reached(q)'
  BY <1>3 DEF Kill, fsVars, InProgress
<1>4. CASE PowerFailure
  <2>1. pc'[q] \in {"idle", "returned", "dead"} /\ (pc'[q] # "dead" => pc'[q] = pc[q])
        /\ (pc[q] = "returned" => pc'[q] = "returned")
    BY <1>4 DEF PowerFailure, InProgress
  <2>2. UNCHANGED <<outcome, base, written, synced, diskDir>>
        /\ data' = synced /\ dir' = diskDir /\ perm'[q] \in {perm[q], "reverted"}
    BY <1>4 DEF PowerFailure, PowerLoss
  <2>3. QED
    BY <2>1, <2>2
<1>5. CASE Kernel
  <2>1. UNCHANGED <<pc, outcome, base, written, data, dir, perm>>
    BY <1>5 DEF Kernel, FlushEntry, WriteBack, opVars
  <2>2. synced'[q] = synced[q] \/ synced'[q] = data[q]
    BY <1>5 DEF Kernel, FlushEntry, WriteBack
  <2>3. Linked(q)' => Linked(q)
    BY <1>5, <2>1 DEF Kernel, FlushEntry, WriteBack
  <2>4. QED
    BY <2>1, <2>2, <2>3
<1>6. CASE UNCHANGED vars
  BY <1>6 DEF vars, fsVars, opVars
<1>7. QED
  BY <1>1, <1>2, <1>3, <1>4, <1>5, <1>6 DEF Next

LEMMA WholeInvInit == Init => WholeInv
<1> SUFFICES ASSUME Init, NEW o \in Op PROVE Progress(o) /\ Reached(o)
  BY DEF WholeInv
<1>1. QED
  BY DEF Init, FileSystemInit, Original, Progress, Reached, Linked, Unstaged, Staging

(* A path leads to an original or to a finished, fsynced, complete file,   *)
(* whose mode only a power loss can have taken back.                       *)
THEOREM PublishedWhole == Spec => []PublishedIsWhole
<1>1. WholeInv => PublishedIsWhole
  BY DEF WholeInv, Reached, PublishedIsWhole
<1>2. QED
  BY <1>1, WholeInvInit, WholeInvStep, TypeCorrect, PTL DEF Spec

-----------------------------------------------------------------------------
(* Temporary names.                                                        *)

LEMMA NamesInvInit == Init => NamesInv
BY DEF Init, FileSystemInit, Original, NamesInv

(* A call that takes a step has returned nothing and published nothing.    *)
LEMMA AtWork ==
  ASSUME WholeInv, NEW o \in Op, Step(o)
  PROVE  outcome[o] = "none" /\ pc[o] # "returned" /\ ~Linked(o)
<1>1. pc[o] # "returned"
  BY DEF Step, Probe, CreateTemp, OpenExisting, CopyExisting, WriteChunk,
         CallbackReturns, SyncTemp, CloseTemp, ChmodTemp, Rename, CleanupClose,
         CleanupRemove
<1>2. QED
  BY <1>1 DEF WholeInv, Reached

(* The temporary name of the call that takes the step.                     *)
LEMMA OwnTempName ==
  ASSUME PublishTypeOK, WholeInv, NamesInv, NEW o \in Op, Step(o)
  PROVE  /\ o \in diskTemps' => pc'[o] \notin Unstaged
         /\ o \in temps' => o \in diskTemps' /\ outcome'[o] \in {"none", "leaked"}
<1>1. Reached(o) /\ (o \in diskTemps => pc[o] \notin Unstaged) /\ temps \subseteq diskTemps
  BY DEF WholeInv, NamesInv, PublishTypeOK, FileSystemTypeOK
<1> USE DEF PublishTypeOK, FileSystemTypeOK, Goto, Return, FailOpen, FailClosed,
            fsVars, Unstaged, Reached
<1>2. CASE Probe(o) BY <1>1, <1>2 DEF Probe
<1>3. CASE CreateTemp(o) BY <1>1, <1>3 DEF CreateTemp, CreateTempFile
<1>4. CASE OpenExisting(o) BY <1>1, <1>4 DEF OpenExisting
<1>5. CASE CopyExisting(o) BY <1>1, <1>5 DEF CopyExisting, SetData
<1>6. ASSUME NEW c \in Chunk, WriteChunk(o, c)
      PROVE  /\ o \in diskTemps' => pc'[o] \notin Unstaged
             /\ o \in temps' => o \in diskTemps' /\ outcome'[o] \in {"none", "leaked"}
  BY <1>1, <1>6 DEF WriteChunk, SetData
<1>7. CASE CallbackReturns(o) BY <1>1, <1>7 DEF CallbackReturns
<1>8. CASE SyncTemp(o) BY <1>1, <1>8 DEF SyncTemp, SyncFile
<1>9. CASE CloseTemp(o) BY <1>1, <1>9 DEF CloseTemp
<1>10. CASE ChmodTemp(o) BY <1>1, <1>10 DEF ChmodTemp, ChmodFile
<1>11. CASE Rename(o) BY <1>1, <1>11 DEF Rename, RenameTemp
<1>12. CASE CleanupClose(o) BY <1>1, <1>12 DEF CleanupClose
<1>13. CASE CleanupRemove(o) BY <1>1, <1>13 DEF CleanupRemove, RemoveTemp
<1>14. QED
  BY <1>2, <1>3, <1>4, <1>5, <1>6, <1>7, <1>8, <1>9, <1>10, <1>11, <1>12, <1>13
     DEF Step

LEMMA NamesInvStep ==
  PublishTypeOK /\ WholeInv /\ NamesInv /\ [Next]_vars => NamesInv'
<1> SUFFICES ASSUME PublishTypeOK, WholeInv, NamesInv, [Next]_vars
             PROVE  NamesInv'
  OBVIOUS
<1>1. ASSUME NEW o \in Op, Step(o) PROVE NamesInv'
  <2>1. \A q \in Op, p \in Path : dir'[p] = q \/ diskDir'[p] = q => p = path'[q]
    BY <1>1, StepFrame DEF NamesInv, PublishTypeOK, FileSystemTypeOK
  <2>2. diskTemps' \subseteq Op
    <3>1. diskTemps' \subseteq File
      BY <1>1, StepTypes DEF PublishTypeOK, FileSystemTypeOK
    <3>2. QED
      BY <1>1, <3>1, StepFrame DEF NamesInv
  <2>3. ASSUME NEW q \in diskTemps'
        PROVE  pc'[q] \notin Unstaged /\ (outcome'[q] = "ok" => diskDir'[path'[q]] # q)
    <3>1. diskDir' = diskDir /\ path' = path /\ path[q] \in Path
      BY <1>1, <2>2, <2>3, StepFrame DEF PublishTypeOK
    <3>2. CASE q = o
      <4>1. diskDir[path[o]] # o
        BY <1>1, <3>1, <3>2, AtWork DEF Linked
      <4>2. QED
        BY <1>1, <2>3, <3>1, <3>2, <4>1, OwnTempName
    <3>3. CASE q # o
      <4>1. q \in diskTemps /\ pc'[q] = pc[q] /\ outcome'[q] = outcome[q]
        BY <1>1, <2>2, <2>3, <3>3, StepFrame
      <4>2. QED
        BY <3>1, <4>1 DEF NamesInv
    <3>4. QED
      BY <3>2, <3>3
  <2>4. temps' \subseteq diskTemps'
    <3>1. o \in temps' => o \in diskTemps'
      BY <1>1, OwnTempName
    <3>2. temps' \subseteq File
      BY <1>1, StepTypes DEF PublishTypeOK, FileSystemTypeOK
    <3>3. \A f \in temps' : f # o => f \in diskTemps'
      BY <1>1, <3>2, StepFrame DEF NamesInv
    <3>4. QED
      BY <3>1, <3>3
  <2>5. ASSUME NEW q \in temps'
        PROVE  \/ outcome'[q] \in {"none", "leaked"}
               \/ q \in revived' /\ (outcome'[q] = "ok" => dir'[path'[q]] # q)
    <3>1. q \in Op
      BY <1>1, <2>2, <2>5, <2>4
    <3>2. CASE q = o
      BY <1>1, <2>5, <3>2, OwnTempName
    <3>3. CASE q # o
      <4>1. /\ q \in temps /\ outcome'[q] = outcome[q] /\ revived' = revived
            /\ path' = path /\ path[q] \in Path
        BY <1>1, <2>5, <3>1, <3>3, StepFrame DEF PublishTypeOK
      <4>2. \A p \in Path : dir'[p] = q => dir[p] = q
        BY <1>1, <3>3, StepFrame DEF PublishTypeOK, FileSystemTypeOK
      <4>3. QED
        BY <4>1, <4>2 DEF NamesInv
    <3>4. QED
      BY <3>2, <3>3
  <2>6. QED
    BY <2>1, <2>2, <2>3, <2>4, <2>5 DEF NamesInv
<1> USE DEF NamesInv, PublishTypeOK, FileSystemTypeOK, Goto, Unstaged
<1>2. ASSUME NEW o \in Op, Start(o) PROVE NamesInv'
  BY <1>2 DEF Start, fsVars
<1>3. ASSUME NEW o \in Op, Kill(o) PROVE NamesInv'
  BY <1>3 DEF Kill, fsVars
<1>4. CASE PowerFailure
  <2>1. UNCHANGED <<diskDir, path, outcome>> /\ dir' = diskDir
    BY <1>4 DEF PowerFailure, PowerLoss
  <2>2. \A o \in Op : pc'[o] \in {pc[o], "dead"}
    BY <1>4 DEF PowerFailure
  <2>3. temps' \subseteq diskTemps /\ diskTemps' = temps' /\ revived' = temps' \ (temps \ revived)
    BY <1>4 DEF PowerFailure, PowerLoss
  <2>4. ASSUME NEW o \in temps'
        PROVE  \/ outcome[o] \in {"none", "leaked"}
               \/ o \in revived' /\ (outcome[o] = "ok" => dir'[path[o]] # o)
    <3>1. outcome[o] = "ok" => dir'[path[o]] # o
      BY <2>1, <2>3, <2>4
    <3>2. CASE o \in temps /\ o \notin revived
      BY <3>2
    <3>3. CASE o \in revived'
      BY <3>1, <3>3
    <3>4. QED
      BY <2>3, <2>4, <3>2, <3>3
  <2>5. QED
    BY <2>1, <2>2, <2>3, <2>4
<1>5. CASE Kernel
  <2>1. UNCHANGED <<path, pc, outcome, dir, temps, revived>>
    BY <1>5 DEF Kernel, FlushEntry, WriteBack, opVars
  <2>2. CASE UNCHANGED <<diskDir, diskTemps>>
    BY <2>1, <2>2
  <2>3. ASSUME NEW p \in Path, diskDir' = [diskDir EXCEPT ![p] = dir[p]],
               diskTemps' = diskTemps \ {dir[p]}
        PROVE  NamesInv'
    <3>1. \A q \in Path : diskDir'[q] = IF q = p THEN dir[p] ELSE diskDir[q]
      BY <2>3
    <3>2. dir[p] \notin temps
      BY DEF WholeInv, Reached, Linked
    <3>3. QED
      BY <2>1, <2>3, <3>1, <3>2
  <2>4. QED
    BY <1>5, <2>2, <2>3 DEF Kernel, FlushEntry, WriteBack
<1>6. CASE UNCHANGED vars
  BY <1>6 DEF vars, fsVars, opVars
<1>7. QED
  BY <1>1, <1>2, <1>3, <1>4, <1>5, <1>6 DEF Next

(* Temporary files belong to calls under way, killed calls, calls that     *)
(* reported the leak, and calls whose removal or rename a power loss       *)
(* undid.                                                                  *)
THEOREM NoStrayTemps == Spec => []TempsAccountedFor
<1>1. PublishTypeOK /\ WholeInv /\ NamesInv => TempsAccountedFor
  <2> SUFFICES ASSUME PublishTypeOK, WholeInv, NamesInv, NEW o \in temps
               PROVE  \/ InProgress(o)
                      \/ pc[o] = "dead"
                      \/ outcome[o] = "leaked"
                      \/ o \in revived /\ (outcome[o] = "ok" => dir[path[o]] # o)
    BY DEF TempsAccountedFor
  <2>1. o \in Op /\ o \in diskTemps
    BY DEF NamesInv, PublishTypeOK, FileSystemTypeOK
  <2>2. QED
    BY <2>1 DEF NamesInv, WholeInv, Reached, InProgress, Unstaged
<1>2. QED
  BY <1>1, NamesInvInit, NamesInvStep, WholeInvInit, WholeInvStep, TypeCorrect,
     PTL DEF Spec

-----------------------------------------------------------------------------
(* Create mode.                                                            *)

LEMMA CreateInvStep ==
  PublishTypeOK /\ WholeInv /\ CreateInv /\ [Next]_vars => CreateInv'
<1> SUFFICES ASSUME PublishTypeOK, WholeInv, CreateInv, [Next]_vars, NEW q \in Op
             PROVE  /\ pc'[q] = "idle" => found'[q] = NoFile
                    /\ mode'[q] = "create" /\ found'[q] # NoFile =>
                         /\ pc'[q] \in {"probe", "returned", "dead"}
                         /\ outcome'[q] # "ok"
                         /\ pc'[q] = "probe" => dir'[path'[q]] # NoFile
  BY DEF CreateInv
<1>0. /\ pc[q] = "idle" => found[q] = NoFile
      /\ mode[q] = "create" /\ found[q] # NoFile =>
           /\ pc[q] \in {"probe", "returned", "dead"}
           /\ outcome[q] # "ok"
           /\ pc[q] = "probe" => dir[path[q]] # NoFile
  BY DEF CreateInv
<1> USE <1>0 DEF PublishTypeOK, FileSystemTypeOK, Goto, Return
<1>1. ASSUME NEW o \in Op, Step(o), mode[q] = "create", found[q] # NoFile
      PROVE  /\ pc'[q] \in {"probe", "returned", "dead"}
             /\ outcome'[q] # "ok"
             /\ pc'[q] = "probe" => dir'[path'[q]] # NoFile
  <2>1. CASE q = o
    <3>1. Probe(o)
      BY <1>1, <2>1
         DEF Step, CreateTemp, OpenExisting, CopyExisting, WriteChunk, CallbackReturns,
             SyncTemp, CloseTemp, ChmodTemp, Rename, CleanupClose, CleanupRemove
    <3>2. QED
      BY <1>1, <2>1, <3>1 DEF Probe
  <2>2. CASE q # o
    <3>1. pc'[q] = pc[q] /\ outcome'[q] = outcome[q] /\ path' = path
      BY <1>1, <2>2, StepFrame
    <3>2. \A p \in Path : dir[p] # NoFile => dir'[p] # NoFile
      BY <1>1, StepFrame
    <3>3. QED
      BY <1>1, <3>1, <3>2
  <2>3. QED
    BY <2>1, <2>2
<1>2. ASSUME NEW o \in Op, Step(o), pc'[q] = "idle" PROVE found'[q] = NoFile
  <2>1. found' = found
    BY <1>2, StepFrame
  <2>2. pc[q] = "idle"
    <3>1. CASE q = o
      BY <1>2, <3>1
         DEF Step, Probe, CreateTemp, OpenExisting, CopyExisting, WriteChunk,
             CallbackReturns, SyncTemp, CloseTemp, ChmodTemp, Rename, CleanupClose,
             CleanupRemove, FailOpen, FailClosed
    <3>2. CASE q # o
      BY <1>2, <3>2, StepFrame
    <3>3. QED
      BY <3>1, <3>2
  <2>3. QED
    BY <2>1, <2>2
<1>3. ASSUME NEW o \in Op, Step(o) PROVE mode' = mode /\ found' = found
  BY <1>3, StepFrame
<1>4. ASSUME NEW o \in Op, Start(o)
      PROVE  /\ pc'[q] = "idle" => found'[q] = NoFile
             /\ mode'[q] = "create" /\ found'[q] # NoFile =>
                  /\ pc'[q] \in {"probe", "returned", "dead"}
                  /\ outcome'[q] # "ok"
                  /\ pc'[q] = "probe" => dir'[path'[q]] # NoFile
  BY <1>4 DEF Start, fsVars, WholeInv, Reached
<1>5. ASSUME NEW o \in Op, Kill(o) PROVE CreateInv'
  BY <1>5 DEF Kill, fsVars, CreateInv, InProgress
<1>6. CASE PowerFailure
  BY <1>6 DEF PowerFailure, PowerLoss, CreateInv, InProgress
<1>7. CASE Kernel
  BY <1>7 DEF Kernel, FlushEntry, WriteBack, opVars, CreateInv
<1>8. CASE UNCHANGED vars
  BY <1>8 DEF vars, fsVars, opVars, CreateInv
<1>9. QED
  BY <1>1, <1>2, <1>3, <1>4, <1>5, <1>6, <1>7, <1>8 DEF Next, CreateInv

(* Create publishes nothing where it found a file.                         *)
THEOREM CreateRefuses == Spec => []CreateRefusesWhatItFound
<1>1. Init => CreateInv
  BY DEF Init, FileSystemInit, CreateInv
<1>2. WholeInv /\ CreateInv => CreateRefusesWhatItFound
  BY DEF WholeInv, Reached, CreateInv, CreateRefusesWhatItFound
<1>3. QED
  BY <1>1, <1>2, CreateInvStep, WholeInvInit, WholeInvStep, TypeCorrect, PTL DEF Spec

-----------------------------------------------------------------------------
(* Files with a path are frozen.                                           *)

(* An original is fsynced and stays so.                                    *)
OriginalsSettled == \A f \in Original : synced[f] = data[f]

LEMMA OriginalsSettledStep ==
  PublishTypeOK /\ OriginalsSettled /\ [Next]_vars => OriginalsSettled'
<1> SUFFICES ASSUME PublishTypeOK, OriginalsSettled, [Next]_vars, NEW f \in Original
             PROVE  synced'[f] = data'[f]
  BY DEF OriginalsSettled
<1>1. synced[f] = data[f] /\ f \in File /\ f \notin Op
  BY DEF OriginalsSettled, Original
<1>2. ASSUME NEW o \in Op, Step(o) PROVE synced'[f] = data'[f]
  BY <1>1, <1>2, StepFrame
<1>3. CASE PowerFailure
  BY <1>3 DEF PowerFailure, PowerLoss
<1>4. CASE Kernel
  BY <1>1, <1>4
     DEF Kernel, FlushEntry, WriteBack, PublishTypeOK, FileSystemTypeOK
<1>5. ASSUME NEW o \in Op, Start(o) \/ Kill(o) PROVE synced'[f] = data'[f]
  BY <1>1, <1>5 DEF Start, Kill, fsVars
<1>6. QED
  BY <1>1, <1>2, <1>3, <1>4, <1>5 DEF Next, vars, fsVars

LEMMA FrozenStep ==
  ASSUME PublishTypeOK, WholeInv, OriginalsSettled, [Next]_vars,
         NEW f \in File, NEW p \in Path, dir[p] = f
  PROVE  data'[f] = data[f]
<1>1. f \in Op => outcome[f] = "ok" /\ pc[f] = "returned" /\ synced[f] = data[f]
  BY DEF WholeInv, Reached, Linked
<1>2. synced[f] = data[f]
  BY <1>1 DEF OriginalsSettled, Original
<1>3. ASSUME NEW o \in Op, Step(o) PROVE data'[f] = data[f]
  <2>1. f # o
    BY <1>1, <1>3
       DEF Step, Probe, CreateTemp, OpenExisting, CopyExisting, WriteChunk,
           CallbackReturns, SyncTemp, CloseTemp, ChmodTemp, Rename, CleanupClose,
           CleanupRemove
  <2>2. QED
    BY <1>3, <2>1, StepFrame
<1>4. QED
  BY <1>2, <1>3
     DEF Next, Start, Kill, PowerFailure, PowerLoss, Kernel, FlushEntry, WriteBack,
         vars, fsVars

(* Whoever has a published file open reads one content to the end.         *)
THEOREM Frozen == Spec => PublishedIsFrozen
<1>1. Init => OriginalsSettled
  BY DEF Init, FileSystemInit, OriginalsSettled
<1>2. PublishTypeOK /\ WholeInv /\ OriginalsSettled /\ [Next]_vars
        => [\A f \in File : (\E p \in Path : dir[p] = f) => data'[f] = data[f]]_vars
  BY FrozenStep
<1>3. QED
  BY <1>1, <1>2, OriginalsSettledStep, WholeInvInit, WholeInvStep, TypeCorrect, PTL
     DEF Spec, PublishedIsFrozen

-----------------------------------------------------------------------------
(* AtomicPublish implements DurableStore.                                  *)

LinkedSettled == \A f \in File : Linked(f) => synced[f] = data[f]

LEMMA LinkedAreSettled ==
  PublishTypeOK /\ WholeInv /\ OriginalsSettled => LinkedSettled
BY DEF WholeInv, Reached, OriginalsSettled, Original, LinkedSettled

(* A step shows nothing to the store beyond its own call, and what a path  *)
(* holds changes only with the directory.                                  *)
LEMMA StepStoreFrame ==
  ASSUME PublishTypeOK, WholeInv, NEW o \in Op, Step(o)
  PROVE  /\ \A q \in Op : q # o => OfferOf(q)' = OfferOf(q) /\ StatusOf(q)' = StatusOf(q)
         /\ Held(diskDir, synced)' = Held(diskDir, synced)
         /\ dir' = dir => Held(dir, data)' = Held(dir, data)
<1>1. ~Linked(o)
  BY DEF Step, Probe, CreateTemp, OpenExisting, CopyExisting, WriteChunk,
         CallbackReturns, SyncTemp, CloseTemp, ChmodTemp, Rename, CleanupClose,
         CleanupRemove, WholeInv, Reached
<1>2. \A f \in File : Linked(f) => data'[f] = data[f] /\ synced'[f] = synced[f]
  BY <1>1, StepFrame
<1>3. \A p \in Path : (dir[p] # NoFile => dir[p] \in File /\ Linked(dir[p]))
                   /\ (diskDir[p] # NoFile => diskDir[p] \in File /\ Linked(diskDir[p]))
  BY DEF Linked, PublishTypeOK, FileSystemTypeOK, Entry
<1>4. diskDir' = diskDir
  BY StepFrame
<1>5. Held(diskDir, synced)' = Held(diskDir, synced)
  BY <1>2, <1>3, <1>4 DEF Held
<1>6. dir' = dir => Held(dir, data)' = Held(dir, data)
  BY <1>2, <1>3 DEF Held
<1>7. \A q \in Op : q # o => OfferOf(q)' = OfferOf(q) /\ StatusOf(q)' = StatusOf(q)
  BY StepFrame DEF OfferOf, StatusOf, Settled, Whole
<1>8. QED
  BY <1>5, <1>6, <1>7

(* What the store sees of the call that takes the step.                    *)
Unseen(o) == OfferOf(o)' = OfferOf(o) /\ StatusOf(o)' = StatusOf(o)

SeenToFail(o) ==
  StatusOf(o) = "open" /\ StatusOf(o)' = "over" /\ OfferOf(o)' = Absent

SeenToSettle(o) ==
  /\ StatusOf(o) = "open" /\ StatusOf(o)' = "open"
  /\ OfferOf(o) = Absent /\ OfferOf(o)' \in Content

SeenToPublish(o) ==
  /\ StatusOf(o) = "open" /\ StatusOf(o)' = "published"
  /\ OfferOf(o) = Whole(o) /\ OfferOf(o) \in Content /\ OfferOf(o)' = OfferOf(o)
  /\ data[o] = Whole(o) /\ data' = data
  /\ dir' = [dir EXCEPT ![path[o]] = o]

LEMMA StepSeen ==
  ASSUME PublishTypeOK, WholeInv, NEW o \in Op, Step(o)
  PROVE  \/ dir' = dir /\ (Unseen(o) \/ SeenToFail(o) \/ SeenToSettle(o))
         \/ SeenToPublish(o)
<1>1. outcome[o] = "none" /\ pc[o] # "returned"
  BY DEF Step, Probe, CreateTemp, OpenExisting, CopyExisting, WriteChunk,
         CallbackReturns, SyncTemp, CloseTemp, ChmodTemp, Rename, CleanupClose,
         CleanupRemove, WholeInv, Reached
<1>2. base[o] \in Content /\ written[o] \in Content /\ Whole(o) \in Content
  <2>1. base[o] \in Content /\ written[o] \in Content
    BY DEF PublishTypeOK
  <2>2. QED
    BY <2>1, ConcatProperties DEF Whole, Content
<1> USE <1>1 DEF PublishTypeOK, FileSystemTypeOK, Goto, Return, FailOpen, FailClosed,
                 fsVars, Unseen, SeenToFail, SeenToSettle, SeenToPublish,
                 OfferOf, StatusOf, Settled
<1>3. CASE Probe(o) BY <1>3 DEF Probe
<1>4. CASE CreateTemp(o) BY <1>4 DEF CreateTemp, CreateTempFile
<1>5. CASE OpenExisting(o) BY <1>5 DEF OpenExisting
<1>6. CASE CopyExisting(o)
  BY <1>6 DEF CopyExisting, SetData
<1>7. ASSUME NEW c \in Chunk, WriteChunk(o, c)
      PROVE  dir' = dir /\ (Unseen(o) \/ SeenToFail(o))
  BY <1>7 DEF WriteChunk, SetData
<1>8. CASE CallbackReturns(o)
  <2>1. Whole(o)' = Whole(o)
    BY <1>8 DEF CallbackReturns, Whole
  <2>2. QED
    BY <1>2, <1>8, <2>1 DEF CallbackReturns
<1>9. CASE SyncTemp(o) BY <1>9 DEF SyncTemp, SyncFile, Whole
<1>10. CASE CloseTemp(o) BY <1>10 DEF CloseTemp, Whole
<1>11. CASE ChmodTemp(o) BY <1>11 DEF ChmodTemp, ChmodFile, Whole
<1>12. CASE Rename(o)
  <2>1. data[o] = Whole(o)
    BY <1>12 DEF Rename, WholeInv, Progress, Staging
  <2>2. Whole(o)' = Whole(o)
    BY <1>12 DEF Rename, Whole
  <2>3. QED
    BY <1>2, <1>12, <2>1, <2>2 DEF Rename, RenameTemp
<1>13. CASE CleanupClose(o) BY <1>13 DEF CleanupClose
<1>14. CASE CleanupRemove(o) BY <1>14 DEF CleanupRemove, RemoveTemp
<1>15. QED
  BY <1>3, <1>4, <1>5, <1>6, <1>7, <1>8, <1>9, <1>10, <1>11, <1>12, <1>13, <1>14
     DEF Step

visibleS == Held(dir, data)
durableS == Held(diskDir, synced)
offerS == [o \in Op |-> OfferOf(o)]
statusS == [o \in Op |-> StatusOf(o)]

LEMMA StoreInit == Init => Store!Init
<1> SUFFICES ASSUME Init PROVE Store!Init
  OBVIOUS
<1>1. PublishTypeOK
  BY InitTypes
<1>2. Held(dir, data) \in [Path -> Content \cup {Absent}]
  BY <1>1 DEF PublishTypeOK, FileSystemTypeOK, Entry, Held
<1>3. Held(diskDir, synced) = Held(dir, data)
  BY DEF Init, FileSystemInit, Held
<1>4. \A o \in Op : OfferOf(o) = Absent /\ StatusOf(o) = "open"
  BY DEF Init, OfferOf, StatusOf, Settled
<1>5. QED
  BY <1>2, <1>3, <1>4 DEF Store!Init, Store!Held, Store!Content, Content

LEMMA StoreStep ==
  ASSUME PublishTypeOK, WholeInv, NEW o \in Op, Step(o)
  PROVE  [Store!Next]_(Store!storeVars)
<1>1. /\ \A q \in Op : q # o => OfferOf(q)' = OfferOf(q) /\ StatusOf(q)' = StatusOf(q)
      /\ durableS' = durableS
      /\ dir' = dir => visibleS' = visibleS
  BY StepStoreFrame DEF visibleS, durableS
<1>2. /\ offerS' = [offerS EXCEPT ![o] = OfferOf(o)']
      /\ statusS' = [statusS EXCEPT ![o] = StatusOf(o)']
      /\ offerS[o] = OfferOf(o) /\ statusS[o] = StatusOf(o)
      /\ offerS'[o] = OfferOf(o)'
  BY <1>1 DEF offerS, statusS
<1>3. CASE dir' = dir /\ Unseen(o)
  <2>1. offerS' = offerS /\ statusS' = statusS /\ visibleS' = visibleS /\ durableS' = durableS
    BY <1>1, <1>2, <1>3 DEF Unseen, offerS, statusS
  <2>2. QED
    BY <2>1 DEF Store!storeVars, offerS, statusS, visibleS, durableS
<1>4. CASE dir' = dir /\ SeenToFail(o)
  <2>1. Store!GiveUp(o)
    BY <1>1, <1>2, <1>4
       DEF SeenToFail, Store!GiveUp, offerS, statusS, visibleS, durableS
  <2>2. QED
    BY <2>1 DEF Store!Next
<1>5. CASE dir' = dir /\ SeenToSettle(o)
  <2>1. statusS' = statusS
    BY <1>1, <1>5 DEF SeenToSettle, statusS
  <2>2. Store!Settle(o)
    BY <1>1, <1>2, <1>5, <2>1
       DEF SeenToSettle, Store!Settle, Store!Content, Content,
           offerS, statusS, visibleS, durableS
  <2>3. QED
    BY <2>2 DEF Store!Next
<1>6. CASE SeenToPublish(o)
  <2>1. o \in File /\ o # NoFile /\ path[o] \in Path /\ dir \in [Path -> Entry]
    BY DEF PublishTypeOK, FileSystemTypeOK
  <2>2. visibleS' = [visibleS EXCEPT ![path[o]] = OfferOf(o)]
    BY <1>6, <2>1 DEF SeenToPublish, visibleS, Held
  <2>3. OfferOf(o) # Absent
    BY <1>6 DEF SeenToPublish, Absent, Content
  <2>4. offerS' = offerS
    BY <1>1, <1>6 DEF SeenToPublish, offerS
  <2>5. Store!Publish(o, path[o])
    BY <1>1, <1>2, <1>6, <2>2, <2>3, <2>4
       DEF SeenToPublish, Store!Publish, offerS, statusS, visibleS, durableS
  <2>6. QED
    BY <2>1, <2>5 DEF Store!Next
<1>7. QED
  BY <1>3, <1>4, <1>5, <1>6, StepSeen

LEMMA StoreNext ==
  ASSUME PublishTypeOK, WholeInv, LinkedSettled, [Next]_vars
  PROVE  [Store!Next]_(Store!storeVars)
<1>1. ASSUME NEW o \in Op, Step(o) PROVE [Store!Next]_(Store!storeVars)
  BY <1>1, StoreStep
<1>2. ASSUME NEW o \in Op, Start(o) PROVE UNCHANGED Store!storeVars
  <2>1. \A q \in Op : OfferOf(q)' = OfferOf(q) /\ StatusOf(q)' = StatusOf(q)
    BY <1>2 DEF Start, Goto, OfferOf, StatusOf, Settled, Whole, PublishTypeOK
  <2>2. QED
    BY <1>2, <2>1 DEF Store!storeVars, Start, fsVars, Held
<1>3. ASSUME NEW o \in Op, Kill(o) PROVE [Store!Next]_(Store!storeVars)
  <2>1. \A q \in Op : q # o => OfferOf(q)' = OfferOf(q) /\ StatusOf(q)' = StatusOf(q)
    BY <1>3 DEF Kill, Goto, OfferOf, StatusOf, Settled, Whole, PublishTypeOK
  <2>2. Unseen(o) \/ SeenToFail(o)
    BY <1>3 DEF Kill, Goto, InProgress, OfferOf, StatusOf, Settled, Whole, Unseen,
                SeenToFail, PublishTypeOK, WholeInv, Reached
  <2>3. visibleS' = visibleS /\ durableS' = durableS
    BY <1>3 DEF Kill, fsVars, visibleS, durableS, Held
  <2>4. CASE Unseen(o)
    BY <2>1, <2>3, <2>4 DEF Unseen, Store!storeVars, visibleS, durableS
  <2>5. CASE SeenToFail(o)
    <3>1. Store!GiveUp(o)
      BY <2>1, <2>3, <2>5 DEF SeenToFail, Store!GiveUp, visibleS, durableS
    <3>2. QED
      BY <3>1 DEF Store!Next
  <2>6. QED
    BY <2>2, <2>4, <2>5
<1>4. CASE PowerFailure
  <2>1. visibleS' = durableS /\ durableS' = durableS
    BY <1>4 DEF PowerFailure, PowerLoss, visibleS, durableS, Held
  <2> DEFINE lost == {q \in Op : StatusOf(q) = "open" /\ InProgress(q)}
  <2>2. \A q \in Op :
          /\ StatusOf(q)' = IF q \in lost THEN "over" ELSE StatusOf(q)
          /\ OfferOf(q)' = IF q \in lost THEN Absent ELSE OfferOf(q)
    BY <1>4 DEF PowerFailure, InProgress, OfferOf, StatusOf, Settled, Whole,
                PublishTypeOK, WholeInv, Reached, Stage
  <2>3. lost \in SUBSET {q \in Op : statusS[q] = "open"}
    BY DEF statusS
  <2> HIDE DEF lost
  <2>4. Store!LosePower
    BY <2>1, <2>2, <2>3 DEF Store!LosePower, visibleS, durableS, statusS
  <2>5. QED
    BY <2>4 DEF Store!Next
<1>5. CASE Kernel
  <2>1. \A q \in Op : OfferOf(q)' = OfferOf(q) /\ StatusOf(q)' = StatusOf(q)
    BY <1>5 DEF Kernel, opVars, OfferOf, StatusOf, Settled, Whole
  <2>2. visibleS' = visibleS
    BY <1>5 DEF Kernel, FlushEntry, WriteBack, visibleS, Held
  <2>3. ASSUME NEW p \in Path, FlushEntry(p) PROVE Store!Harden(p)
    <3>1. dir[p] # NoFile => dir[p] \in File /\ synced[dir[p]] = data[dir[p]]
      BY DEF LinkedSettled, Linked, PublishTypeOK, FileSystemTypeOK, Entry
    <3>2. durableS' = [durableS EXCEPT ![p] = visibleS[p]]
      BY <2>3, <3>1 DEF FlushEntry, durableS, visibleS, Held, PublishTypeOK,
                        FileSystemTypeOK
    <3>3. QED
      BY <2>1, <2>2, <3>2 DEF Store!Harden, visibleS, durableS
  <2>4. ASSUME NEW o \in Op, WriteBack(o) PROVE UNCHANGED Store!storeVars
    <3>1. ~Linked(o)
      BY <2>4 DEF WriteBack, LinkedSettled
    <3>2. durableS' = durableS
      BY <2>4, <3>1 DEF WriteBack, durableS, Held, Linked, PublishTypeOK,
                        FileSystemTypeOK
    <3>3. QED
      BY <2>1, <2>2, <3>2 DEF Store!storeVars, visibleS, durableS
  <2>5. QED
    BY <1>5, <2>3, <2>4 DEF Kernel, Store!Next
<1>6. CASE UNCHANGED vars
  BY <1>6 DEF vars, fsVars, opVars, Store!storeVars, Held, OfferOf, StatusOf, Settled,
              Whole
<1>7. QED
  BY <1>1, <1>2, <1>3, <1>4, <1>5, <1>6 DEF Next

(* A protocol of a dozen calls, any of which may fail or be the last, is   *)
(* to its readers one atomic replacement that happens or does not.         *)
THEOREM Refinement == Spec => ImplementsDurableStore
<1>1. PublishTypeOK /\ WholeInv /\ OriginalsSettled /\ [Next]_vars
        => [Store!Next]_(Store!storeVars)
  BY StoreNext, LinkedAreSettled
<1>2. Init => OriginalsSettled
  BY DEF Init, FileSystemInit, OriginalsSettled
<1>3. QED
  BY <1>1, <1>2, OriginalsSettledStep, StoreInit, WholeInvInit, WholeInvStep,
     TypeCorrect, PTL DEF Spec, ImplementsDurableStore, Store!Spec
=============================================================================
