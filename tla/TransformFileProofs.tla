------------------------- MODULE TransformFileProofs -------------------------
(***************************************************************************)
(* What transforms of files in place guarantee for every number of calls,  *)
(* paths, blocks and edits: type correctness, locks that are held exactly  *)
(* while the source is read, temporary files that are accounted for, whole *)
(* commits, and the edits a commit cannot miss.  Without editors, the      *)
(* transforms implement SnapshotStore.                                     *)
(***************************************************************************)
EXTENDS TransformFile, SequenceTheorems, TLAPS

USE OpAssumption, EffectAssumption, OriginalsAssumption, BoundsAssumption,
    NoFileAssumption DEF modeVars, nameVars, Permission

-----------------------------------------------------------------------------
(* Type correctness.                                                       *)

(* What a step that reads a block makes of seen.                           *)
LEMMA ReadTypes ==
  ASSUME TransformTypeOK, NEW o \in Op, source[o] \in File, ReadBlock(o)
  PROVE  /\ NextBlock(o) \in Chunk
         /\ Append(seen[o], NextBlock(o)) \in Content
         /\ seen' = [seen EXCEPT ![o] = Append(seen[o], NextBlock(o))]
<1>1. Current(o) \in Seq(Chunk) /\ seen[o] \in Seq(Chunk)
  BY DEF TransformTypeOK, FileSystemTypeOK, Current, Content
<1>2. Len(seen[o]) + 1 \in 1..Len(Current(o))
  BY <1>1 DEF ReadBlock, AtEnd
<1>3. NextBlock(o) \in Chunk
  BY <1>1, <1>2 DEF NextBlock
<1>4. QED
  BY <1>1, <1>3 DEF ReadBlock, Content

(* A call has a file open from the moment it waits for the lock.           *)
SourceOpen ==
  \A o \in Op : pc[o] \notin {"idle", "open", "returned", "dead"} => source[o] \in File

LEMMA InitTypes == Init => TransformTypeOK /\ SourceOpen
<1> SUFFICES ASSUME Init PROVE TransformTypeOK /\ SourceOpen
  OBVIOUS
<1>1. << >> \in Content
  BY DEF Content
<1>2. data \in [File -> Content]
  BY <1>1 DEF Init, FileSystemInit, Content
<1>3. FileSystemTypeOK
  BY <1>2 DEF Init, FileSystemInit, FileSystemTypeOK, Entry, Original
<1>4. QED
  BY <1>1, <1>3
     DEF Init, NoLocks, FileLockTypeOK, TransformTypeOK, Stage, Outcome, Entry, SourceOpen

(* A step moves its own call, and no other, to a stage and a result.       *)
LEMMA Moves ==
  ASSUME TransformTypeOK, NEW o \in Op, Step(o)
  PROVE  /\ pc' \in [Op -> Stage] /\ outcome' \in [Op -> Outcome]
         /\ \A q \in Op : q # o => pc'[q] = pc[q] /\ outcome'[q] = outcome[q]
<1> DEFINE Moved == /\ pc' \in [Op -> Stage] /\ outcome' \in [Op -> Outcome]
                    /\ \A q \in Op : q # o => pc'[q] = pc[q] /\ outcome'[q] = outcome[q]
<1> SUFFICES Moved
  OBVIOUS
<1>1. pc \in [Op -> Stage] /\ outcome \in [Op -> Outcome]
  BY DEF TransformTypeOK
<1>2. ASSUME NEW s \in Stage, Goto(o, s) PROVE Moved
  BY <1>1, <1>2 DEF Goto
<1>3. ASSUME NEW s \in Stage, NEW r \in Outcome, Finish(o, s, r) PROVE Moved
  BY <1>1, <1>3 DEF Finish
<1>4. CASE UNCHANGED <<pc, outcome>>
  BY <1>1, <1>4
<1>5. CASE Abort(o) \/ AbortTemp(o)
  BY <1>3, <1>5 DEF Abort, AbortTemp, Stage, Outcome
<1> HIDE DEF Moved
<1>6. CASE OpenSource(o) BY <1>2, <1>3, <1>6 DEF OpenSource, Stage, Outcome
<1>7. CASE LockSource(o) BY <1>2, <1>7 DEF LockSource, Stage
<1>8. CASE StatSource(o) BY <1>2, <1>5, <1>8 DEF StatSource, Stage
<1>9. CASE Measure(o) BY <1>2, <1>3, <1>4, <1>5, <1>9 DEF Measure, Stage, Outcome
<1>10. CASE CreateTemp(o) BY <1>2, <1>5, <1>10 DEF CreateTemp, Stage
<1>11. CASE Replay(o) BY <1>2, <1>4, <1>5, <1>11 DEF Replay, Stage
<1>12. CASE SyncTemp(o) BY <1>2, <1>5, <1>12 DEF SyncTemp, Stage
<1>13. CASE CloseTemp(o) BY <1>2, <1>5, <1>13 DEF CloseTemp, Stage
<1>14. CASE Verify(o) BY <1>2, <1>4, <1>5, <1>14 DEF Verify, Stage
<1>15. CASE ChmodTemp(o) BY <1>2, <1>5, <1>15 DEF ChmodTemp, Stage
<1>16. CASE Release(o) BY <1>2, <1>16 DEF Release, Stage
<1>17. CASE Rename(o) BY <1>3, <1>17 DEF Rename, Stage, Outcome
<1>18. CASE Cleanup(o) BY <1>2, <1>18 DEF Cleanup, Stage
<1>19. QED
  BY <1>6, <1>7, <1>8, <1>9, <1>10, <1>11, <1>12, <1>13, <1>14, <1>15, <1>16,
     <1>17, <1>18 DEF Step

(* What a step does to files: to the call's own temporary file, and to the *)
(* entry of its path.                                                      *)
LEMMA Files ==
  ASSUME TransformTypeOK, SourceOpen, NEW o \in Op, Step(o)
  PROVE  /\ FileSystemTypeOK'
         /\ diskDir' = diskDir
         /\ dir' = dir \/ (Rename(o) /\ outcome'[o] = "committed" /\ RenameTemp(o, path[o]))
         /\ \A f \in File : f # o =>
              /\ data'[f] = data[f] /\ synced'[f] = synced[f] /\ perm'[f] = perm[f]
              /\ f \in temps' <=> f \in temps
              /\ f \in diskTemps' <=> f \in diskTemps
         /\ revived' = revived
         /\ ~Replay(o) /\ ~CreateTemp(o) => data' = data
<1> DEFINE Framed ==
      /\ FileSystemTypeOK'
      /\ diskDir' = diskDir
      /\ \A f \in File : f # o =>
           /\ data'[f] = data[f] /\ synced'[f] = synced[f] /\ perm'[f] = perm[f]
           /\ f \in temps' <=> f \in temps
           /\ f \in diskTemps' <=> f \in diskTemps
      /\ revived' = revived
<1>1. FileSystemTypeOK /\ o \in File /\ path[o] \in Path
  BY DEF TransformTypeOK
<1>2. CASE UNCHANGED fsVars
  <2>1. Framed
    BY <1>1, <1>2 DEF fsVars, FileSystemTypeOK
  <2>2. QED
    BY <1>2, <2>1 DEF fsVars
<1>3. CASE CreateTemp(o) /\ CreateTempFile(o)
  <2>1. << >> \in Content
    BY DEF Content
  <2>2. QED
    BY <1>1, <1>3, <2>1 DEF CreateTempFile, FileSystemTypeOK
<1>4. ASSUME Replay(o), NEW d \in Content, SetData(o, d) PROVE Framed /\ dir' = dir
  BY <1>1, <1>4 DEF SetData, FileSystemTypeOK
<1>5. ASSUME Replay(o), ReadBlock(o), SetData(o, Append(data[o], Effect[o][NextBlock(o)]))
      PROVE  Framed /\ dir' = dir
  <2>1. source[o] \in File
    BY <1>5 DEF Replay, SourceOpen
  <2>2. Effect[o][NextBlock(o)] \in Chunk /\ data[o] \in Seq(Chunk)
    BY <1>1, <1>5, <2>1, ReadTypes DEF FileSystemTypeOK, Content
  <2>3. Append(data[o], Effect[o][NextBlock(o)]) \in Content
    BY <2>2 DEF Content
  <2>4. QED
    BY ONLY <1>4, <1>5, <2>3
<1>6. CASE SyncTemp(o) /\ SyncFile(o)
  BY <1>1, <1>6 DEF SyncFile, FileSystemTypeOK
<1>7. CASE ChmodTemp(o) /\ ChmodFile(o)
  BY <1>1, <1>7 DEF ChmodFile, FileSystemTypeOK
<1>8. CASE Rename(o) /\ RenameTemp(o, path[o]) /\ Finish(o, "returned", "committed")
  <2>1. outcome'[o] = "committed"
    BY <1>8 DEF Finish, TransformTypeOK
  <2>2. Framed
    BY <1>1, <1>8 DEF RenameTemp, FileSystemTypeOK, Entry
  <2>3. QED
    BY <1>8, <2>1, <2>2 DEF RenameTemp
<1>9. CASE Cleanup(o) /\ RemoveTemp(o)
  BY <1>1, <1>9 DEF RemoveTemp, FileSystemTypeOK
<1>10. CASE ~UNCHANGED fsVars
  <2>1. \/ CreateTemp(o) /\ CreateTempFile(o)
        \/ Replay(o) /\ ReadBlock(o) /\ SetData(o, Append(data[o], Effect[o][NextBlock(o)]))
        \/ SyncTemp(o) /\ SyncFile(o)
        \/ ChmodTemp(o) /\ ChmodFile(o)
        \/ Rename(o) /\ RenameTemp(o, path[o]) /\ Finish(o, "returned", "committed")
        \/ Cleanup(o) /\ RemoveTemp(o)
    BY <1>10 DEF Step, OpenSource, LockSource, StatSource, Measure, CreateTemp, Replay,
                 SyncTemp, CloseTemp, Verify, ChmodTemp, Release, Rename, Cleanup
  <2>2. QED
    BY <1>3, <1>5, <1>6, <1>7, <1>8, <1>9, <2>1
<1>11. QED
  BY <1>2, <1>10

(* What a step does to the handle of its call and what was read through it. *)
LEMMA Reads ==
  ASSUME TransformTypeOK, SourceOpen, NEW o \in Op, Step(o)
  PROVE  /\ source' \in [Op -> Entry] /\ seen' \in [Op -> Content]
         /\ digest' \in [Op -> Content] /\ stuck' \subseteq Op
         /\ FileLockTypeOK(File, Op)'
         /\ UNCHANGED <<intent, path, edits, late>>
         /\ \A q \in Op : q # o =>
              source'[q] = source[q] /\ seen'[q] = seen[q] /\ digest'[q] = digest[q]
         /\ pc[o] # "open" => source' = source
         /\ stuck' = stuck \/ (Cleanup(o) /\ stuck' = stuck \cup {o})
<1>1. << >> \in Content
  BY DEF Content
<1>2. UNCHANGED <<intent, path, edits, late>>
  BY DEF Step, OpenSource, LockSource, StatSource, Measure, CreateTemp, Replay,
         SyncTemp, CloseTemp, Verify, ChmodTemp, Release, Rename, Cleanup, Unmoved
<1>3. /\ source' \in [Op -> Entry]
      /\ pc[o] # "open" => source' = source
      /\ \A q \in Op : q # o => source'[q] = source[q]
  BY DEF Step, OpenSource, LockSource, StatSource, Measure, CreateTemp, Replay,
         SyncTemp, CloseTemp, Verify, ChmodTemp, Release, Rename, Cleanup,
         TransformTypeOK, FileSystemTypeOK, Entry
<1>4. seen' \in [Op -> Content] /\ \A q \in Op : q # o => seen'[q] = seen[q]
  <2>1. seen' = seen \/ Rewind(o) \/ (ReadBlock(o) /\ pc[o] \in {"measure", "replay", "verify"})
    BY DEF Step, OpenSource, LockSource, StatSource, Measure, CreateTemp, Replay,
           SyncTemp, CloseTemp, Verify, ChmodTemp, Release, Rename, Cleanup
  <2>2. CASE ReadBlock(o) /\ pc[o] \in {"measure", "replay", "verify"}
    <3>1. source[o] \in File
      BY <2>2 DEF SourceOpen
    <3>2. PICK s \in Content : seen' = [seen EXCEPT ![o] = s]
      BY <2>2, <3>1, ReadTypes
    <3>3. QED
      BY <3>2 DEF TransformTypeOK
  <2>3. QED
    BY <1>1, <2>1, <2>2 DEF Rewind, TransformTypeOK
<1>5. digest' \in [Op -> Content] /\ \A q \in Op : q # o => digest'[q] = digest[q]
  BY DEF Step, OpenSource, LockSource, StatSource, Measure, CreateTemp, Replay,
         SyncTemp, CloseTemp, Verify, ChmodTemp, Release, Rename, Cleanup,
         TransformTypeOK
<1>6. stuck' \subseteq Op /\ (stuck' = stuck \/ (Cleanup(o) /\ stuck' = stuck \cup {o}))
  BY DEF Step, OpenSource, LockSource, StatSource, Measure, CreateTemp, Replay,
         SyncTemp, CloseTemp, Verify, ChmodTemp, Release, Rename, Cleanup,
         TransformTypeOK
<1>7. FileLockTypeOK(File, Op)'
  <2>1. \/ UNCHANGED lockVars
        \/ pc[o] = "lock" /\ (LockExclusive(source[o], o) \/ LockShared(source[o], o))
        \/ ReleaseLocks({o})
    BY DEF Step, OpenSource, LockSource, StatSource, Measure, CreateTemp, Replay,
           SyncTemp, CloseTemp, Verify, ChmodTemp, Release, Rename, Cleanup
  <2>2. FileLockTypeOK(File, Op) /\ (pc[o] = "lock" => source[o] \in File)
    BY DEF TransformTypeOK, SourceOpen
  <2>3. CASE UNCHANGED lockVars
    BY <2>2, <2>3 DEF FileLockTypeOK, lockVars
  <2>4. CASE pc[o] = "lock" /\ (LockExclusive(source[o], o) \/ LockShared(source[o], o))
    BY <2>2, <2>4 DEF FileLockTypeOK, LockExclusive, LockShared
  <2>5. CASE ReleaseLocks({o})
    BY <2>2, <2>5 DEF FileLockTypeOK, ReleaseLocks
  <2>6. QED
    BY <2>1, <2>3, <2>4, <2>5
<1>8. QED
  BY <1>2, <1>3, <1>4, <1>5, <1>6, <1>7

LEMMA StepTypes ==
  ASSUME TransformTypeOK, SourceOpen, NEW o \in Op, Step(o)
  PROVE  TransformTypeOK' /\ SourceOpen'
<1>1. TransformTypeOK'
  BY Moves, Files, Reads DEF TransformTypeOK
<1>2. SUFFICES ASSUME NEW q \in Op, pc'[q] \notin {"idle", "open", "returned", "dead"}
               PROVE  source'[q] \in File
  BY <1>1 DEF SourceOpen
<1>3. CASE q # o
  BY <1>2, <1>3, Moves, Reads DEF SourceOpen
<1>4. CASE q = o /\ pc[o] = "open"
  BY <1>2, <1>4
     DEF Step, OpenSource, LockSource, StatSource, Measure, CreateTemp, Replay,
         SyncTemp, CloseTemp, Verify, ChmodTemp, Release, Rename, Cleanup, Finish,
         TransformTypeOK, FileSystemTypeOK, Entry
<1>5. CASE q = o /\ pc[o] # "open"
  <2>1. pc[o] \notin {"idle", "returned", "dead"}
    BY DEF Step, OpenSource, LockSource, StatSource, Measure, CreateTemp, Replay,
           SyncTemp, CloseTemp, Verify, ChmodTemp, Release, Rename, Cleanup
  <2>2. QED
    BY <1>5, <2>1, Reads DEF SourceOpen
<1>6. QED
  BY <1>3, <1>4, <1>5

(* An edit at block i leaves the blocks before it as they were.            *)
Untouched(f, i, content) ==
  \A n \in Nat : n < i /\ n <= Len(data[f]) =>
    n <= Len(content) /\ \A j \in 1..n : content[j] = data[f][j]

LEMMA Edits ==
  ASSUME TransformTypeOK, Editor
  PROVE  \E f \in File, i \in Nat, content \in Content :
           Edit(f, i, content) /\ Untouched(f, i, content) /\ \E p \in Path : dir[p] = f
<1>1. PICK p \in Path :
        /\ dir[p] # NoFile
        /\ \/ \E c \in Chunk : \/ \E i \in 1..Len(data[dir[p]]) : Overwrite(dir[p], i, c)
                              \/ Extend(dir[p], c)
           \/ Truncate(dir[p])
  BY DEF Editor
<1>2. PICK f \in File : f = dir[p]
  BY <1>1 DEF TransformTypeOK, FileSystemTypeOK, Entry
<1>3. PICK d \in Seq(Chunk) : d = data[f]
  BY DEF TransformTypeOK, FileSystemTypeOK, Content
<1>4. ASSUME NEW c \in Chunk, NEW i \in 1..Len(d), Overwrite(f, i, c)
      PROVE  \E content \in Content : Edit(f, i, content) /\ Untouched(f, i, content)
  <2>1. [d EXCEPT ![i] = c] \in Seq(Chunk) /\ Len([d EXCEPT ![i] = c]) = Len(d)
        /\ \A j \in 1..Len(d) : j # i => [d EXCEPT ![i] = c][j] = d[j]
    OBVIOUS
  <2>2. Edit(f, i, [d EXCEPT ![i] = c])
    BY <1>3, <1>4 DEF Overwrite
  <2>3. Untouched(f, i, [d EXCEPT ![i] = c])
    BY <1>3, <2>1 DEF Untouched
  <2>4. QED
    BY <2>1, <2>2, <2>3 DEF Content
<1>5. ASSUME NEW c \in Chunk, Extend(f, c)
      PROVE  \E content \in Content :
               Edit(f, Len(d) + 1, content) /\ Untouched(f, Len(d) + 1, content)
  <2>1. Append(d, c) \in Seq(Chunk) /\ Len(Append(d, c)) = Len(d) + 1
        /\ \A j \in 1..Len(d) : Append(d, c)[j] = d[j]
    BY AppendProperties
  <2>2. Edit(f, Len(d) + 1, Append(d, c))
    BY <1>3, <1>5 DEF Extend
  <2>3. Untouched(f, Len(d) + 1, Append(d, c))
    BY <1>3, <2>1 DEF Untouched
  <2>4. QED
    BY <2>1, <2>2, <2>3 DEF Content
<1>6. ASSUME Truncate(f)
      PROVE  \E content \in Content :
               Edit(f, Len(d), content) /\ Untouched(f, Len(d), content)
  <2>1. Len(d) # 0
    BY <1>3, <1>6, EmptySeq DEF Truncate
  <2>2. SubSeq(d, 1, Len(d) - 1) \in Seq(Chunk) /\ Len(SubSeq(d, 1, Len(d) - 1)) = Len(d) - 1
        /\ \A j \in 1..(Len(d) - 1) : SubSeq(d, 1, Len(d) - 1)[j] = d[j]
    <3>1. Len(d) \in Nat \ {0}
      BY <2>1
    <3>2. PICK n \in Nat : n = Len(d) - 1
      BY <3>1
    <3>3. \A i \in 1..n : d[i] \in Chunk
      BY <3>1, <3>2
    <3>4. /\ SubSeq(d, 1, n) \in Seq(Chunk)
          /\ Len(SubSeq(d, 1, n)) = IF 1 <= n THEN n - 1 + 1 ELSE 0
          /\ \A i \in 1..(n - 1 + 1) : SubSeq(d, 1, n)[i] = d[1 + i - 1]
      BY ONLY <3>2, <3>3, SubSeqProperties
    <3>5. \A j \in 1..n : SubSeq(d, 1, n)[j] = d[j]
      BY <3>4
    <3>6. Len(SubSeq(d, 1, n)) = n
      BY <3>4
    <3>7. QED
      BY <3>2, <3>4, <3>5, <3>6
  <2>3. Edit(f, Len(d), SubSeq(d, 1, Len(d) - 1))
    BY <1>3, <1>6 DEF Truncate
  <2>4. Untouched(f, Len(d), SubSeq(d, 1, Len(d) - 1))
    BY <1>3, <2>2 DEF Untouched
  <2>5. QED
    BY <2>2, <2>3, <2>4 DEF Content
<1>7. Len(d) \in Nat
  OBVIOUS
<1>8. QED
  BY <1>1, <1>2, <1>3, <1>4, <1>5, <1>6, <1>7

LEMMA NextTypes ==
  ASSUME TransformTypeOK, SourceOpen, [Next]_vars
  PROVE  TransformTypeOK' /\ SourceOpen'
<1>1. ASSUME NEW o \in Op, Step(o) PROVE TransformTypeOK' /\ SourceOpen'
  BY <1>1, StepTypes
<1>2. ASSUME NEW o \in Op, Start(o) \/ LockFails(o) PROVE TransformTypeOK' /\ SourceOpen'
  BY <1>2 DEF Start, LockFails, Goto, Finish, Unmoved, fsVars, lockVars, TransformTypeOK,
              FileSystemTypeOK, FileLockTypeOK, Stage, Outcome, SourceOpen
<1>3. ASSUME NEW o \in Op, Kill(o) PROVE TransformTypeOK' /\ SourceOpen'
  BY <1>3 DEF Kill, Goto, ReleaseLocks, Unmoved, fsVars, TransformTypeOK,
              FileSystemTypeOK, FileLockTypeOK, Stage, SourceOpen
<1>4. CASE PowerFailure
  <2>1. FileSystemTypeOK'
    BY <1>4 DEF PowerFailure, PowerLoss, TransformTypeOK, FileSystemTypeOK, Entry
  <2>2. pc' \in [Op -> Stage] /\ \A q \in Op : pc'[q] \in {pc[q], "dead"}
    BY <1>4 DEF PowerFailure, TransformTypeOK, Stage
  <2>3. QED
    BY <1>4, <2>1, <2>2 DEF PowerFailure, Unmoved, TransformTypeOK, FileLockTypeOK, SourceOpen
<1>5. CASE Kernel
  <2>1. FileSystemTypeOK'
    BY <1>5 DEF Kernel, FlushEntry, WriteBack, TransformTypeOK, FileSystemTypeOK,
                Entry
  <2>2. QED
    BY <1>5, <2>1 DEF Kernel, opVars, lockVars, TransformTypeOK, FileLockTypeOK, SourceOpen
<1>6. CASE Editor
  <2>1. PICK f \in File, i \in Nat, content \in Content : Edit(f, i, content)
    BY <1>6, Edits
  <2>2. FileSystemTypeOK'
    BY <2>1 DEF Edit, SetData, TransformTypeOK, FileSystemTypeOK
  <2>3. edits' \in 0..MaxEdits /\ late' \subseteq Op
    BY <2>1 DEF Edit, TransformTypeOK, PastNoticing
  <2>4. QED
    BY <2>1, <2>2, <2>3 DEF Edit, opVars, lockVars, TransformTypeOK, FileLockTypeOK, SourceOpen
<1>7. CASE UNCHANGED vars
  BY <1>7 DEF vars, fsVars, lockVars, opVars, TransformTypeOK, FileSystemTypeOK,
              FileLockTypeOK, SourceOpen
<1>8. QED
  BY <1>1, <1>2, <1>3, <1>4, <1>5, <1>6, <1>7 DEF Next

(* Every variable keeps its type, whatever calls and editors do.           *)
THEOREM TypeCorrect == Spec => [](TransformTypeOK /\ SourceOpen)
<1>1. QED
  BY InitTypes, NextTypes, PTL DEF Spec

-----------------------------------------------------------------------------
(* Locks.                                                                  *)

LEMMA LocksKept ==
  ASSUME LockedWhileReading, UNCHANGED <<shared, exclusive, intent>>,
         \A q \in Op : Locked(q)' = Locked(q) /\ (Locked(q) => source'[q] = source[q])
  PROVE  LockedWhileReading'
BY DEF LockedWhileReading, LocksOf

LEMMA LocksReleased ==
  ASSUME TransformTypeOK, LockedWhileReading, NEW gone \in SUBSET Op, ReleaseLocks(gone),
         intent' = intent, source' = source,
         \A q \in Op : Locked(q)' <=> Locked(q) /\ q \notin gone
  PROVE  LockedWhileReading'
<1>1. \A wish \in Intent :
        LocksOf(wish)' = {lock \in LocksOf(wish) : lock[2] \notin gone}
  BY DEF LocksOf
<1>2. QED
  BY <1>1 DEF LockedWhileReading, ReleaseLocks, Intent

LEMMA LocksStep ==
  ASSUME TransformTypeOK, LockedWhileReading, NEW o \in Op, Step(o)
  PROVE  LockedWhileReading'
<1>1. UNCHANGED <<intent, path>>
  BY DEF Step, OpenSource, LockSource, StatSource, Measure, CreateTemp, Replay,
         SyncTemp, CloseTemp, Verify, ChmodTemp, Release, Rename, Cleanup, Unmoved
<1>2. \A q \in Op : q # o => pc'[q] = pc[q]
  BY Moves
<1>3. pc[o] # "open" => source' = source
  BY DEF Step, OpenSource, LockSource, StatSource, Measure, CreateTemp, Replay,
         SyncTemp, CloseTemp, Verify, ChmodTemp, Release, Rename, Cleanup
<1>4. \A q \in Op : q # o => source'[q] = source[q]
  BY DEF Step, OpenSource, LockSource, StatSource, Measure, CreateTemp, Replay,
         SyncTemp, CloseTemp, Verify, ChmodTemp, Release, Rename, Cleanup, TransformTypeOK
<1>5. CASE LockSource(o)
  <2>1. /\ Locked(o)' /\ ~Locked(o) /\ source' = source
        /\ \A q \in Op : q # o => Locked(q)' = Locked(q)
    BY <1>2, <1>5 DEF LockSource, Goto, Locked, LockedStage, TransformTypeOK
  <2>2. \A wish \in Intent :
          LocksOf(wish)' = IF intent[o] = wish THEN LocksOf(wish) \cup {<<source[o], o>>}
                           ELSE LocksOf(wish)
    BY <1>1, <2>1 DEF LocksOf
  <2>3. intent[o] \in Intent
    BY DEF TransformTypeOK
  <2>4. QED
    BY <1>5, <2>2, <2>3
       DEF LockSource, LockExclusive, LockShared, LockedWhileReading, Intent
<1>6. CASE Release(o)
  <2>1. \A q \in Op : Locked(q)' <=> Locked(q) /\ q \notin {o}
    BY <1>2, <1>6 DEF Release, Goto, Locked, LockedStage, TransformTypeOK
  <2>2. QED
    BY <1>1, <1>3, <1>6, <2>1, LocksReleased DEF Release
<1>7. CASE ~LockSource(o) /\ ~Release(o)
  <2>1. UNCHANGED <<shared, exclusive>>
    BY <1>7 DEF Step, OpenSource, StatSource, Measure, CreateTemp, Replay, SyncTemp,
                CloseTemp, Verify, ChmodTemp, Rename, Cleanup, lockVars
  <2>2. Locked(o)' = Locked(o)
    BY <1>7 DEF Step, OpenSource, StatSource, Measure, CreateTemp, Replay, SyncTemp,
                CloseTemp, Verify, ChmodTemp, Rename, Cleanup, Goto, Finish, Abort,
                AbortTemp, Locked, LockedStage, TransformTypeOK
  <2>3. Locked(o) => source' = source
    BY <1>3 DEF Locked, LockedStage
  <2>4. \A q \in Op : q # o => Locked(q)' = Locked(q)
    BY <1>2 DEF Locked
  <2>5. QED
    BY <1>1, <1>4, <2>1, <2>2, <2>3, <2>4, LocksKept
<1>8. QED
  BY <1>5, <1>6, <1>7

LEMMA LocksNext ==
  ASSUME TransformTypeOK, LockedWhileReading, [Next]_vars
  PROVE  LockedWhileReading'
<1>1. ASSUME NEW o \in Op, Step(o) PROVE LockedWhileReading'
  BY <1>1, LocksStep
<1>2. ASSUME NEW o \in Op, Start(o) \/ LockFails(o) PROVE LockedWhileReading'
  <2>1. \A q \in Op : Locked(q)' = Locked(q)
    BY <1>2 DEF Start, LockFails, Goto, Finish, Locked, LockedStage, TransformTypeOK
  <2>2. QED
    BY <1>2, <2>1, LocksKept DEF Start, LockFails, Unmoved, lockVars
<1>3. ASSUME NEW o \in Op, Kill(o) PROVE LockedWhileReading'
  <2>1. \A q \in Op : Locked(q)' <=> Locked(q) /\ q \notin {o}
    BY <1>3 DEF Kill, Goto, Locked, LockedStage, TransformTypeOK
  <2>2. QED
    BY <1>3, <2>1, LocksReleased DEF Kill, Unmoved
<1>4. CASE PowerFailure
  <2>1. \A q \in Op : ~Locked(q)'
    BY <1>4 DEF PowerFailure, InProgress, Locked, LockedStage
  <2>2. QED
    BY <1>4, <2>1 DEF PowerFailure, LockedWhileReading, LocksOf
<1>5. CASE Kernel
  BY <1>5, LocksKept DEF Kernel, lockVars, opVars, Locked
<1>6. CASE Editor
  BY <1>6, Edits, LocksKept DEF Edit, lockVars, opVars, Locked
<1>7. CASE UNCHANGED vars
  BY <1>7, LocksKept DEF vars, lockVars, opVars, Locked
<1>8. QED
  BY <1>1, <1>2, <1>3, <1>4, <1>5, <1>6, <1>7 DEF Next

(* No way through a call keeps a lock or reads without one.                *)
THEOREM LocksHeld == Spec => []LockedWhileReading
<1>1. Init => LockedWhileReading
  BY DEF Init, NoLocks, LockedWhileReading, LocksOf, Locked, LockedStage
<1>2. QED
  BY <1>1, LocksNext, TypeCorrect, PTL DEF Spec

-----------------------------------------------------------------------------
(* The inductive invariant of commits.                                     *)

(* A file gets a path when its call commits, and the file a call reads had *)
(* a path when it was opened.                                              *)
Reached ==
  \A o \in Op :
    /\ outcome[o] = "committed" => pc[o] = "returned"
    /\ Linked(o) => outcome[o] = "committed"
    /\ source[o] \in Op => outcome[source[o]] = "committed"

(* The temporary file of o, stage by stage.                                *)
Progress(o) ==
  /\ pc[o] \in {"createTemp", "replay", "sync", "close", "verify", "chmod", "unlock", "rename"}
       => WouldChange(o, digest[o])
  /\ pc[o] = "createTemp" => seen[o] = << >>
  /\ pc[o] \in {"replay", "sync", "close"} => data[o] = Transformed(o, seen[o])
  /\ pc[o] \in {"verify", "chmod", "unlock", "rename"} => data[o] = Transformed(o, digest[o])
  /\ pc[o] \in {"close", "verify", "chmod", "unlock", "rename"} => synced[o] = data[o]
  /\ pc[o] \in {"unlock", "rename"} => perm[o] = "final"

WholeInv == \A o \in Op : Progress(o)

(* What the CAS has read is still there, or the call is late.              *)
Agrees(o) ==
  /\ pc[o] = "verify" => /\ Len(seen[o]) <= Len(Current(o))
                         /\ \A i \in 1..Len(seen[o]) : Current(o)[i] = seen[o][i]
  /\ pc[o] \in {"chmod", "unlock", "rename"} => Current(o) = digest[o]

LateInv == \A o \in Op : o \in late \/ Agrees(o)

LEMMA FunctionIsContent ==
  ASSUME NEW n \in Nat, NEW g \in [1..n -> Chunk]
  PROVE  g \in Content /\ Len(g) = n
<1>1. g \in Seq(Chunk)
  BY SeqDef
<1>2. Len(g) \in Nat /\ 1..Len(g) = 1..n
  BY <1>1, LenProperties
<1>3. Len(g) = n
  <2>1. Len(g) <= n
    <3>1. Len(g) = 0 \/ Len(g) \in 1..n
      BY <1>2
    <3>2. QED
      BY <1>2, <3>1
  <2>2. n <= Len(g)
    <3>1. n = 0 \/ n \in 1..Len(g)
      BY <1>2
    <3>2. QED
      BY <1>2, <3>1
  <2>3. QED
    BY <1>2, <2>1, <2>2
<1>4. QED
  BY <1>1, <1>3 DEF Content

LEMMA TransformedAppend ==
  ASSUME NEW o \in Op, NEW s \in Content, NEW c \in Chunk
  PROVE  /\ Transformed(o, s) \in Content
         /\ Transformed(o, Append(s, c)) = Append(Transformed(o, s), Effect[o][c])
<1>1. s \in Seq(Chunk) /\ Effect[o] \in [Chunk -> Chunk]
  BY DEF Content
<1>2. PICK t \in Seq(Chunk) : t = Append(s, c)
  BY <1>1, AppendProperties
<1>3. Len(t) = Len(s) + 1 /\ (\A i \in 1..Len(s) : t[i] = s[i]) /\ t[Len(s) + 1] = c
  BY <1>1, <1>2, AppendProperties
<1>4. PICK u : u = [i \in 1..Len(s) |-> Effect[o][s[i]]]
  OBVIOUS
<1>5. PICK v : v = [i \in 1..Len(t) |-> Effect[o][t[i]]]
  OBVIOUS
<1>6. /\ u \in Seq(Chunk) /\ Len(u) = Len(s) /\ \A i \in 1..Len(s) : u[i] = Effect[o][s[i]]
      /\ v \in Seq(Chunk) /\ Len(v) = Len(t) /\ \A i \in 1..Len(t) : v[i] = Effect[o][t[i]]
  <2>1. u \in [1..Len(s) -> Chunk] /\ v \in [1..Len(t) -> Chunk]
    BY <1>1, <1>2, <1>4, <1>5
  <2>2. Len(s) \in Nat /\ Len(t) \in Nat
    BY <1>1, <1>2
  <2>3. QED
    BY <1>4, <1>5, <2>1, <2>2, FunctionIsContent DEF Content
<1>7. Effect[o][c] \in Chunk
  BY <1>1
<1>8. PICK w \in Seq(Chunk) : w = Append(u, Effect[o][c])
  BY <1>6, <1>7, AppendProperties
<1>9. Len(w) = Len(u) + 1 /\ (\A i \in 1..Len(u) : w[i] = u[i]) /\ w[Len(u) + 1] = Effect[o][c]
  BY <1>6, <1>7, <1>8, AppendProperties
<1>10. ASSUME NEW i \in 1..Len(v) PROVE v[i] = w[i]
  <2>1. Len(s) \in Nat /\ i \in 1..(Len(s) + 1)
    BY <1>1, <1>3, <1>6
  <2>2. v[i] = Effect[o][t[i]]
    BY <1>6
  <2>3. CASE i \in 1..Len(s)
    BY <1>3, <1>6, <1>9, <2>2, <2>3
  <2>4. CASE i = Len(s) + 1
    BY <1>3, <1>6, <1>9, <2>2, <2>4
  <2>5. QED
    BY <2>1, <2>3, <2>4
<1>11. v = w
  <2>1. v \in Seq(Chunk) /\ Len(v) = Len(w)
    BY <1>3, <1>6, <1>9
  <2>2. QED
    BY ONLY <2>1, <1>8, <1>10, SeqEqual
<1>12. QED
  BY <1>2, <1>4, <1>5, <1>6, <1>8, <1>11 DEF Transformed, Content

LEMMA Working ==
  ASSUME NEW o \in Op, Step(o)
  PROVE  pc[o] \notin {"idle", "returned", "dead"}
BY DEF Step, OpenSource, LockSource, StatSource, Measure, CreateTemp, Replay, SyncTemp,
       CloseTemp, Verify, ChmodTemp, Release, Rename, Cleanup

(* A step of o shows nothing to another call, but may take its path.       *)
LEMMA OthersStay ==
  ASSUME TransformTypeOK, SourceOpen, Reached, NEW o \in Op, Step(o), NEW q \in Op, q # o
  PROVE  /\ pc'[q] = pc[q] /\ outcome'[q] = outcome[q] /\ source'[q] = source[q]
         /\ seen'[q] = seen[q] /\ digest'[q] = digest[q] /\ data'[q] = data[q]
         /\ synced'[q] = synced[q] /\ perm'[q] = perm[q]
         /\ source[q] \in File => Current(q)' = Current(q)
         /\ Linked(q)' => Linked(q)
<1>1. /\ pc'[q] = pc[q] /\ outcome'[q] = outcome[q] /\ source'[q] = source[q]
      /\ seen'[q] = seen[q] /\ digest'[q] = digest[q] /\ data'[q] = data[q]
      /\ synced'[q] = synced[q] /\ perm'[q] = perm[q]
  BY Moves, Files, Reads
<1>2. source[q] # o
  BY Working DEF Reached
<1>3. source[q] \in File => Current(q)' = Current(q)
  BY <1>1, <1>2, Files DEF Current
<1>4. Linked(q)' => Linked(q)
  BY Files DEF RenameTemp, Linked, TransformTypeOK, FileSystemTypeOK
<1>5. QED
  BY <1>1, <1>3, <1>4

LEMMA ReachedStep ==
  ASSUME TransformTypeOK, SourceOpen, Reached, NEW o \in Op, Step(o)
  PROVE  Reached'
<1>1. pc[o] # "returned" /\ outcome[o] # "committed" /\ ~Linked(o)
  BY Working DEF Reached
<1>2. outcome'[o] = "committed" <=> Rename(o) /\ pc'[o] = "returned"
  BY <1>1 DEF Step, OpenSource, LockSource, StatSource, Measure, CreateTemp, Replay,
              SyncTemp, CloseTemp, Verify, ChmodTemp, Release, Rename, Cleanup, Goto,
              Finish, Abort, AbortTemp, TransformTypeOK
<1>3. Linked(o)' => outcome'[o] = "committed"
  BY <1>1, Files DEF Linked
<1>4. \A q \in Op : outcome[q] = "committed" => outcome'[q] = "committed"
  BY <1>1, OthersStay
<1>5. source'[o] \in Op => outcome[source'[o]] = "committed"
  <2>1. CASE source' = source
    BY <2>1 DEF Reached
  <2>2. CASE source' # source
    <3>1. pc[o] = "open"
      BY <2>2, Reads
    <3>2. source'[o] = dir[path[o]]
      BY <2>2, <3>1 DEF Step, OpenSource, LockSource, StatSource, Measure, CreateTemp,
           Replay, SyncTemp, CloseTemp, Verify, ChmodTemp, Release, Rename, Cleanup,
           TransformTypeOK
    <3>3. QED
      BY <3>2 DEF Reached, Linked, TransformTypeOK
  <2>3. QED
    BY <2>1, <2>2
<1>6. \A q \in Op : q # o =>
        /\ outcome'[q] = "committed" => pc'[q] = "returned"
        /\ Linked(q)' => outcome'[q] = "committed"
        /\ source'[q] \in Op => outcome[source'[q]] = "committed"
  BY OthersStay DEF Reached
<1>7. QED
  BY <1>2, <1>3, <1>4, <1>5, <1>6 DEF Reached

(* Steps of no call, as far as calls and their files are concerned.        *)
Rests(q) ==
  \/ pc'[q] = pc[q] /\ outcome'[q] = outcome[q]
  \/ /\ pc[q] # "returned" /\ outcome'[q] # "committed"
     /\ pc'[q] \in {"open", "returned", "dead"}

LEMMA Outside ==
  ASSUME TransformTypeOK, Reached, [Next]_vars, ~\E o \in Op : Step(o)
  PROVE  /\ UNCHANGED <<intent, path, source, seen, digest, stuck>>
         /\ PowerFailure \/ perm' = perm
         /\ \A q \in Op :
              /\ Rests(q)
              /\ Linked(q)' => Linked(q)
              /\ ~Linked(q) => \/ PowerFailure
                               \/ data'[q] = data[q] /\ synced'[q] \in {synced[q], data[q]}
         /\ late \subseteq late'
<1>1. ASSUME NEW o \in Op, Start(o) \/ LockFails(o)
      PROVE  /\ UNCHANGED <<intent, path, source, seen, digest, perm, stuck, dir, diskDir, data, synced, late>>
             /\ \A q \in Op : Rests(q)
  BY <1>1 DEF Start, LockFails, Goto, Finish, Unmoved, fsVars, TransformTypeOK, Reached,
              Rests
<1>2. ASSUME NEW o \in Op, Kill(o)
      PROVE  /\ UNCHANGED <<intent, path, source, seen, digest, perm, stuck, dir, diskDir, data, synced, late>>
             /\ \A q \in Op : Rests(q)
  BY <1>2 DEF Kill, InProgress, Goto, Unmoved, fsVars, TransformTypeOK, Reached,
              Rests
<1>3. CASE PowerFailure
  BY <1>3 DEF PowerFailure, PowerLoss, InProgress, Unmoved, TransformTypeOK, Reached, Linked,
              Rests
<1>4. CASE Kernel
  BY <1>4 DEF Kernel, FlushEntry, WriteBack, opVars, Linked, TransformTypeOK,
              FileSystemTypeOK, Rests
<1>5. CASE Editor
  <2>1. PICK f \in File, i \in Nat, content \in Content :
          Edit(f, i, content) /\ \E p \in Path : dir[p] = f
    BY <1>5, Edits
  <2>2. \A q \in Op : ~Linked(q) => q # f
    BY <2>1 DEF Linked
  <2>3. QED
    BY <2>1, <2>2 DEF Edit, SetData, opVars, Linked, TransformTypeOK, FileSystemTypeOK,
                   Rests
<1>6. CASE UNCHANGED vars
  BY <1>6 DEF vars, fsVars, opVars, Linked, Rests
<1>7. QED
  BY <1>1, <1>2, <1>3, <1>4, <1>5, <1>6 DEF Next, Linked

LEMMA ReachedNext ==
  ASSUME TransformTypeOK, SourceOpen, Reached, [Next]_vars
  PROVE  Reached'
<1>1. ASSUME NEW o \in Op, Step(o) PROVE Reached'
  BY <1>1, ReachedStep
<1>2. CASE ~\E o \in Op : Step(o)
  BY <1>2, Outside DEF Reached, Rests
<1>3. QED
  BY <1>1, <1>2

LEMMA OwnProgress ==
  ASSUME TransformTypeOK, SourceOpen, Reached, NEW o \in Op, Step(o), Progress(o)
  PROVE  Progress(o)'
<1>1. o \in File /\ pc \in [Op -> Stage] /\ seen \in [Op -> Content]
      /\ digest \in [Op -> Content] /\ data \in [File -> Content]
      /\ synced \in [File -> Content] /\ perm \in [File -> Permission]
  BY DEF TransformTypeOK, FileSystemTypeOK
<1> USE <1>1 DEF Progress, Goto, Finish, Abort, AbortTemp, fsVars, Rewind
<1>2. CASE OpenSource(o) BY <1>2 DEF OpenSource
<1>3. CASE LockSource(o) BY <1>3 DEF LockSource
<1>4. CASE StatSource(o) BY <1>4 DEF StatSource
<1>5. CASE Measure(o)
  <2>1. CASE pc'[o] = "createTemp"
    <3>1. digest'[o] = seen[o] /\ seen'[o] = << >> /\ WouldChange(o, seen[o])
      BY <1>5, <2>1 DEF Measure
    <3>2. WouldChange(o, digest[o])'
      BY <3>1 DEF WouldChange
    <3>3. QED
      BY <2>1, <3>1, <3>2
  <2>2. CASE pc'[o] # "createTemp"
    <3>1. pc'[o] \in {"measure", "abort"}
      BY <1>5, <2>2 DEF Measure
    <3>2. QED
      BY <3>1
  <2>3. QED
    BY <2>1, <2>2
<1>6. CASE CreateTemp(o)
  <2>1. digest' = digest /\ seen' = seen /\ pc'[o] \in {"replay", "abort"}
    BY <1>6 DEF CreateTemp
  <2>2. pc'[o] = "replay" => data'[o] = << >>
    BY <1>6 DEF CreateTemp, CreateTempFile
  <2>3. Transformed(o, seen[o])' = << >>
    BY <1>6, <2>1 DEF CreateTemp, Transformed
  <2>4. WouldChange(o, digest[o])'
    BY <1>6, <2>1 DEF CreateTemp, WouldChange
  <2>5. QED
    BY <2>1, <2>2, <2>3, <2>4
<1>7. CASE Replay(o)
  <2>1. digest' = digest /\ pc'[o] \in {"replay", "sync", "abortTemp"}
    BY <1>7 DEF Replay
  <2>2. WouldChange(o, digest[o])'
    BY <1>7, <2>1 DEF Replay, WouldChange
  <2>3. CASE UNCHANGED <<fsVars, seen>>
    <3>1. Transformed(o, seen[o])' = Transformed(o, seen[o])
      BY <2>3 DEF Transformed
    <3>2. QED
      BY <1>7, <2>1, <2>2, <2>3, <3>1 DEF Replay
  <2>4. CASE ReadBlock(o) /\ SetData(o, Append(data[o], Effect[o][NextBlock(o)]))
    <3>1. source[o] \in File
      BY <1>7 DEF Replay, SourceOpen
    <3>2. PICK c \in Chunk : c = NextBlock(o)
      BY <2>4, <3>1, ReadTypes
    <3>3. data'[o] = Append(data[o], Effect[o][c])
      BY <2>4, <3>2 DEF SetData
    <3>4. seen'[o] = Append(seen[o], c)
      BY <2>4, <3>1, <3>2, ReadTypes
    <3>5. data[o] = Transformed(o, seen[o])
      BY <1>7 DEF Replay
    <3>6. Transformed(o, Append(seen[o], c)) = Append(Transformed(o, seen[o]), Effect[o][c])
      BY ONLY <1>1, <3>2, o \in Op, TransformedAppend
    <3>7. Transformed(o, seen[o])' = Transformed(o, Append(seen[o], c))
      BY <3>4 DEF Transformed
    <3>8. data'[o] = Transformed(o, seen[o])'
      BY <3>3, <3>5, <3>6, <3>7
    <3>9. pc'[o] \in {"replay", "abortTemp"}
      BY <1>7, <2>4 DEF Replay, ReadBlock
    <3>10. QED
      BY ONLY <2>2, <3>8, <3>9 DEF Progress
  <2>5. QED
    BY <1>7, <2>3, <2>4 DEF Replay
<1>8. CASE SyncTemp(o)
  <2>1. UNCHANGED <<seen, digest, data>> /\ pc'[o] \in {"close", "abortTemp"}
    BY <1>8 DEF SyncTemp, SyncFile
  <2>2. Transformed(o, seen[o])' = Transformed(o, seen[o])
        /\ WouldChange(o, digest[o])' = WouldChange(o, digest[o])
    BY <2>1 DEF Transformed, WouldChange
  <2>3. QED
    BY <1>8, <2>1, <2>2 DEF SyncTemp, SyncFile
<1>9. CASE CloseTemp(o)
  <2>1. UNCHANGED <<digest, data, synced>> /\ pc'[o] \in {"verify", "abortTemp"}
        /\ (pc'[o] = "verify" => seen[o] = digest[o])
    BY <1>9 DEF CloseTemp
  <2>2. Transformed(o, digest[o])' = Transformed(o, digest[o])
        /\ WouldChange(o, digest[o])' = WouldChange(o, digest[o])
    BY <2>1 DEF Transformed, WouldChange
  <2>3. QED
    BY <1>9, <2>1, <2>2 DEF CloseTemp
<1>10. CASE pc[o] \in {"verify", "chmod", "unlock", "rename"}
  <2>1. UNCHANGED <<digest, data, synced>>
        /\ pc'[o] \in {"verify", "chmod", "unlock", "rename", "abortTemp", "cleanup", "returned"}
    BY <1>10 DEF Step, OpenSource, LockSource, StatSource, Measure, CreateTemp, Replay,
                 SyncTemp, CloseTemp, Verify, ChmodTemp, Release, Rename, Cleanup,
                 ChmodFile, RenameTemp
  <2>2. Transformed(o, digest[o])' = Transformed(o, digest[o])
        /\ WouldChange(o, digest[o])' = WouldChange(o, digest[o])
    BY <2>1 DEF Transformed, WouldChange
  <2>3. pc'[o] \in {"unlock", "rename"} => perm'[o] = "final"
    BY <1>10 DEF Step, OpenSource, LockSource, StatSource, Measure, CreateTemp, Replay,
                 SyncTemp, CloseTemp, Verify, ChmodTemp, Release, Rename, Cleanup,
                 ChmodFile
  <2>4. QED
    BY <1>10, <2>1, <2>2, <2>3
<1>11. CASE pc[o] \in {"abort", "abortTemp", "cleanup"}
  <2>1. pc'[o] \in {"returned", "cleanup"}
    BY <1>11 DEF Step, OpenSource, LockSource, StatSource, Measure, CreateTemp, Replay,
                 SyncTemp, CloseTemp, Verify, ChmodTemp, Release, Rename, Cleanup
  <2>2. QED
    BY <2>1
<1>12. QED
  BY <1>2, <1>3, <1>4, <1>5, <1>6, <1>7, <1>8, <1>9, <1>10, <1>11
     DEF Step, Verify, ChmodTemp, Release, Rename, Cleanup

LEMMA WholeNext ==
  ASSUME TransformTypeOK, SourceOpen, Reached, WholeInv, [Next]_vars
  PROVE  WholeInv'
<1> SUFFICES ASSUME NEW q \in Op PROVE Progress(q)'
  BY DEF WholeInv
<1>1. Progress(q)
  BY DEF WholeInv
<1>2. ASSUME NEW o \in Op, Step(o) PROVE Progress(q)'
  <2>1. CASE o = q
    BY <1>1, <1>2, <2>1, OwnProgress
  <2>2. CASE o # q
    BY ZenonT(40), <1>1, <1>2, <2>2, OthersStay DEF Progress, WouldChange, Transformed
  <2>3. QED
    BY <2>1, <2>2
<1>3. CASE ~\E o \in Op : Step(o)
  <2>1. UNCHANGED <<seen, digest>> /\ (PowerFailure \/ perm' = perm)
    BY <1>3, Outside
  <2>2. CASE pc'[q] \in {"idle", "open", "returned", "dead"}
    BY <2>2 DEF Progress
  <2>3. CASE pc'[q] \notin {"idle", "open", "returned", "dead"}
    <3>1. pc'[q] = pc[q]
      BY <1>3, <2>3, Outside DEF Rests
    <3>2. ~PowerFailure
      BY <2>3, <3>1 DEF PowerFailure, InProgress
    <3>3. ~Linked(q)
      BY <2>3, <3>1 DEF Reached
    <3>4. data'[q] = data[q] /\ synced'[q] \in {synced[q], data[q]}
      BY <1>3, <3>2, <3>3, Outside
    <3>5. QED
      BY <1>1, <2>1, <3>1, <3>2, <3>4 DEF Progress, WouldChange, Transformed
  <2>4. QED
    BY <2>2, <2>3
<1>4. QED
  BY <1>2, <1>3

(* Only the editor and a power loss change a file that a call reads.       *)
LEMMA SourceStays ==
  ASSUME TransformTypeOK, SourceOpen, Reached, NEW q \in Op, source[q] \in File,
         [Next]_vars, ~PowerFailure, ~Editor
  PROVE  data'[source[q]] = data[source[q]]
<1>1. ASSUME NEW o \in Op, Step(o) PROVE data'[source[q]] = data[source[q]]
  <2>1. source[q] # o
    BY <1>1, Working DEF Reached
  <2>2. QED
    BY <1>1, <2>1, Files
<1>2. QED
  BY <1>1 DEF Next, Start, LockFails, Kill, Kernel, FlushEntry, WriteBack, SyncFile,
              vars, fsVars

LEMMA OwnAgreement ==
  ASSUME TransformTypeOK, SourceOpen, Reached, NEW o \in Op, Step(o), Agrees(o)
  PROVE  Agrees(o)'
<1>1. pc[o] \notin {"open", "idle", "returned", "dead"} => source[o] \in File
  BY DEF SourceOpen
<1>2. pc[o] # "open" => source' = source
  BY Reads
<1>3. pc[o] \notin {"open", "idle", "returned", "dead"} => Current(o)' = Current(o)
  <2>1. source[o] # o
    BY Working DEF Reached
  <2>2. QED
    BY <1>1, <1>2, <2>1, Files DEF Current
<1>4. CASE CloseTemp(o)
  <2>1. pc'[o] \in {"verify", "abortTemp"} /\ seen'[o] = << >>
    BY <1>4 DEF CloseTemp, Goto, AbortTemp, Finish, Rewind, TransformTypeOK
  <2>2. Current(o) \in Seq(Chunk)
    BY <1>1, <1>4 DEF CloseTemp, TransformTypeOK, FileSystemTypeOK, Current, Content
  <2>3. Len(Current(o)) \in Nat /\ Len(<< >>) = 0
    BY <2>2
  <2>4. QED
    BY <1>3, <1>4, <2>1, <2>3 DEF CloseTemp, Agrees
<1>5. CASE Verify(o)
  <2>1. source[o] \in File /\ pc[o] = "verify"
    BY <1>1, <1>5 DEF Verify
  <2>2. Current(o)' = Current(o) /\ digest' = digest
    BY <1>3, <1>5 DEF Verify
  <2>3. PICK d \in Seq(Chunk) : d = Current(o)
    BY <2>1 DEF TransformTypeOK, FileSystemTypeOK, Current, Content
  <2>4. PICK s \in Seq(Chunk) : s = seen[o]
    BY DEF TransformTypeOK, Content
  <2>5. Len(s) <= Len(d) /\ \A i \in 1..Len(s) : d[i] = s[i]
    BY <2>1, <2>3, <2>4 DEF Agrees
  <2>6. CASE ReadBlock(o) /\ UNCHANGED <<pc, outcome>>
    <3>1. Len(s) + 1 <= Len(d)
      BY <2>3, <2>4, <2>5, <2>6 DEF ReadBlock, AtEnd
    <3>2. PICK c \in Chunk : c = d[Len(s) + 1]
      BY <3>1
    <3>3. seen'[o] = Append(s, c)
      BY <2>1, <2>3, <2>4, <2>6, <3>2, ReadTypes DEF NextBlock, TransformTypeOK
    <3>4. PICK t \in Seq(Chunk) : t = Append(s, c)
      BY AppendProperties
    <3>5. Len(t) = Len(s) + 1 /\ (\A i \in 1..Len(s) : t[i] = s[i]) /\ t[Len(s) + 1] = c
      BY <3>4, AppendProperties
    <3>6. Len(t) <= Len(d) /\ \A i \in 1..Len(t) : d[i] = t[i]
      <4>1. \A i \in 1..Len(t) : i \in 1..Len(s) \/ i = Len(s) + 1
        BY <3>5
      <4>2. QED
        BY <2>5, <3>1, <3>2, <3>5, <4>1
    <3>7. QED
      BY <2>1, <2>2, <2>3, <2>6, <3>3, <3>4, <3>6 DEF Agrees
  <2>7. CASE AtEnd(o) /\ seen[o] = digest[o] /\ Goto(o, "chmod") /\ UNCHANGED seen
    <3>1. Len(s) = Len(d)
      BY <2>3, <2>4, <2>5, <2>7 DEF AtEnd
    <3>2. d = s
      BY ONLY <2>5, <3>1, SeqEqual
    <3>3. pc'[o] = "chmod" /\ Current(o)' = digest'[o]
      BY <2>2, <2>3, <2>4, <2>7, <3>2 DEF Goto, TransformTypeOK
    <3>4. QED
      BY <3>3 DEF Agrees
  <2>8. CASE AbortTemp(o)
    BY <2>8 DEF AbortTemp, Finish, Agrees, TransformTypeOK
  <2>9. QED
    BY <1>5, <2>6, <2>7, <2>8 DEF Verify
<1>6. CASE pc[o] \in {"chmod", "unlock", "rename"}
  <2>1. pc'[o] \in {"unlock", "rename", "abortTemp", "cleanup", "returned"} /\ digest' = digest
    BY <1>6 DEF Step, OpenSource, LockSource, StatSource, Measure, CreateTemp, Replay,
                SyncTemp, CloseTemp, Verify, ChmodTemp, Release, Rename, Cleanup, Goto,
                Finish, AbortTemp, TransformTypeOK
  <2>2. QED
    BY <1>3, <1>6, <2>1 DEF Agrees
<1>7. CASE ~CloseTemp(o) /\ ~Verify(o) /\ pc[o] \notin {"chmod", "unlock", "rename"}
  <2>1. pc'[o] \notin {"verify", "chmod", "unlock", "rename"}
    BY <1>7 DEF Step, OpenSource, LockSource, StatSource, Measure, CreateTemp, Replay,
                SyncTemp, ChmodTemp, Release, Rename, Cleanup, Goto,
                Finish, Abort, AbortTemp, TransformTypeOK
  <2>2. QED
    BY <2>1 DEF Agrees
<1>8. QED
  BY <1>4, <1>5, <1>6, <1>7

LEMMA EditKeepsAgreement ==
  ASSUME TransformTypeOK, SourceOpen, LateInv, Editor, NEW q \in Op, q \notin late'
  PROVE  Agrees(q)'
<1>1. PICK f \in File, i \in Nat, content \in Content :
        Edit(f, i, content) /\ Untouched(f, i, content)
  BY Edits
<1>2. UNCHANGED <<pc, source, seen, digest>> /\ data' = [data EXCEPT ![f] = content]
      /\ late' = late \cup PastNoticing(f, i)
  BY <1>1 DEF Edit, SetData, opVars
<1>3. Agrees(q) /\ q \notin PastNoticing(f, i)
  BY <1>2 DEF LateInv
<1>4. CASE pc[q] \notin {"verify", "chmod", "unlock", "rename"}
  BY <1>2, <1>4 DEF Agrees
<1>5. CASE pc[q] \in {"verify", "chmod", "unlock", "rename"} /\ source[q] # f
  <2>1. source[q] \in File
    BY <1>5 DEF SourceOpen
  <2>2. Current(q)' = Current(q)
    BY <1>2, <1>5, <2>1 DEF Current, TransformTypeOK, FileSystemTypeOK
  <2>3. QED
    BY <1>2, <1>3, <2>2 DEF Agrees
<1>6. CASE pc[q] \in {"verify", "chmod", "unlock", "rename"} /\ source[q] = f
  <2>1. pc[q] = "verify" /\ ~(i <= Len(seen[q]))
    BY <1>3, <1>6 DEF PastNoticing
  <2>2. PICK s \in Seq(Chunk) : s = seen[q]
    BY DEF TransformTypeOK, Content
  <2>3. PICK n \in Nat : n = Len(s)
    OBVIOUS
  <2>4. n <= Len(data[f]) /\ n < i /\ \A j \in 1..n : data[f][j] = s[j]
    BY <1>3, <1>6, <2>1, <2>2, <2>3 DEF Agrees, Current
  <2>5. n <= Len(content) /\ \A j \in 1..n : content[j] = data[f][j]
    BY <1>1, <2>4 DEF Untouched
  <2>6. Current(q)' = content /\ seen'[q] = s
    BY <1>2, <1>6, <2>2 DEF Current, TransformTypeOK, FileSystemTypeOK
  <2>7. QED
    BY <1>2, <2>1, <2>3, <2>4, <2>5, <2>6 DEF Agrees
<1>7. QED
  BY <1>4, <1>5, <1>6

LEMMA LateNext ==
  ASSUME TransformTypeOK, SourceOpen, Reached, LateInv, [Next]_vars
  PROVE  LateInv'
<1> SUFFICES ASSUME NEW q \in Op, q \notin late' PROVE Agrees(q)'
  BY DEF LateInv
<1>1. ASSUME NEW o \in Op, Step(o) PROVE Agrees(q)'
  <2>1. late' = late /\ Agrees(q)
    BY <1>1, Reads DEF LateInv
  <2>2. CASE o = q
    BY <1>1, <2>1, <2>2, OwnAgreement
  <2>3. CASE o # q
    BY <1>1, <2>1, <2>3, OthersStay DEF Agrees, SourceOpen
  <2>4. QED
    BY <2>2, <2>3
<1>2. CASE Editor
  BY <1>2, EditKeepsAgreement
<1>3. CASE (~\E o \in Op : Step(o)) /\ ~Editor
  <2>1. UNCHANGED <<source, seen, digest>> /\ late \subseteq late'
    BY <1>3, Outside
  <2>2. CASE pc'[q] \in {"idle", "open", "returned", "dead"}
    BY <2>2 DEF Agrees
  <2>3. CASE pc'[q] \notin {"idle", "open", "returned", "dead"}
    <3>1. pc'[q] = pc[q]
      BY <1>3, <2>3, Outside DEF Rests
    <3>2. ~PowerFailure
      BY <2>3, <3>1 DEF PowerFailure, InProgress
    <3>3. source[q] \in File
      BY <2>3, <3>1 DEF SourceOpen
    <3>4. Current(q)' = Current(q)
      BY <1>3, <2>1, <3>2, <3>3, SourceStays DEF Current
    <3>5. QED
      BY <2>1, <3>1, <3>4 DEF Agrees, LateInv
  <2>4. QED
    BY <2>2, <2>3
<1>4. QED
  BY <1>1, <1>2, <1>3

-----------------------------------------------------------------------------
(* What a commit does.                                                     *)

CommitInv == Reached /\ WholeInv /\ LateInv

LEMMA CommitInvHolds == Spec => [](TransformTypeOK /\ SourceOpen /\ CommitInv)
<1>1. Init => CommitInv
  BY DEF Init, FileSystemInit, Original, CommitInv, Reached, WholeInv, LateInv, Progress,
         Agrees, Linked
<1>2. TransformTypeOK /\ SourceOpen /\ CommitInv /\ [Next]_vars => CommitInv'
  BY ReachedNext, WholeNext, LateNext DEF CommitInv
<1>3. QED
  BY <1>1, <1>2, TypeCorrect, PTL DEF Spec

(* A call commits in its rename.                                           *)
LEMMA CommitsByRename ==
  ASSUME TransformTypeOK, [Next]_vars, NEW o \in Op, Committing(o), Reached
  PROVE  Rename(o)
<1>1. outcome[o] # "committed"
  BY DEF Committing, Reached
<1>2. ASSUME NEW q \in Op, Step(q) PROVE Rename(o)
  <2>1. q = o
    BY <1>1, <1>2, Moves DEF Committing
  <2>2. QED
    BY <1>2, <2>1
       DEF Committing, Step, OpenSource, LockSource, StatSource, Measure, CreateTemp,
           Replay, SyncTemp, CloseTemp, Verify, ChmodTemp, Release, Rename, Cleanup
<1>3. QED
  BY <1>1, <1>2, Outside DEF Rests, Committing

(* Blocks of two versions of a source never meet in what a commit puts at  *)
(* its path.                                                               *)
THEOREM WholeCommits == Spec => CommitIsWhole
<1>1. WholeInv => \A o \in Op : Committing(o) =>
        /\ data[o] = Transformed(o, digest[o])
        /\ synced[o] = data[o]
        /\ perm[o] = "final"
        /\ WouldChange(o, digest[o])
  BY DEF WholeInv, Progress, Committing
<1>2. QED
  BY <1>1, CommitInvHolds, PTL DEF CommitIsWhole, CommitInv

(* The compare-and-swap misses no edit to what it has yet to read.         *)
THEOREM LateEdits == Spec => OnlyLateEditsAreMissed
<1>1. LateInv => \A o \in Op : Committing(o) /\ o \notin late => Current(o) = digest[o]
  BY DEF LateInv, Agrees, Committing
<1>2. QED
  BY <1>1, CommitInvHolds, PTL DEF OnlyLateEditsAreMissed, CommitInv

(* A locked source changes under its reader only by an editor's hand.      *)
THEOREM StableSource == Spec => LockedSourceIsStable
<1>1. ASSUME TransformTypeOK, SourceOpen, Reached, [Next]_vars, NEW o \in Op,
             Locked(o), edits' = edits, pc'[o] # "dead"
      PROVE  Current(o)' = Current(o)
  <2>1. source[o] \in File /\ pc[o] \notin {"open", "idle", "returned", "dead"}
    BY <1>1 DEF SourceOpen, Locked, LockedStage
  <2>2. ~PowerFailure
    BY <1>1, <2>1 DEF PowerFailure, InProgress
  <2>3. ~Editor
    <3>1. SUFFICES ASSUME Editor PROVE FALSE
      OBVIOUS
    <3>2. edits' = edits + 1
      BY <1>1, <3>1, Edits DEF Edit
    <3>3. QED
      BY <1>1, <3>2 DEF TransformTypeOK
  <2>4. source'[o] = source[o]
    <3>1. ASSUME NEW q \in Op, Step(q) PROVE source'[o] = source[o]
      BY <1>1, <2>1, <3>1, Reads
    <3>2. QED
      BY <1>1, <3>1, Outside
  <2>5. QED
    BY <1>1, <2>1, <2>2, <2>3, <2>4, SourceStays DEF Current
<1>2. TransformTypeOK /\ SourceOpen /\ CommitInv /\ [Next]_vars =>
        [\A o \in Op : Locked(o) /\ edits' = edits /\ pc'[o] # "dead"
           => Current(o)' = Current(o)]_vars
  BY <1>1 DEF CommitInv
<1>3. QED
  BY <1>2, CommitInvHolds, PTL DEF LockedSourceIsStable, Spec

-----------------------------------------------------------------------------
(* Temporary names.                                                        *)

TempStage == {"replay", "sync", "close", "verify", "chmod", "unlock", "rename",
              "abortTemp", "cleanup", "dead"}

(* A call's file is only ever under its own path.  A temporary name is     *)
(* that of a call that has created it; one the disk may still hold is not  *)
(* that of a commit that has reached the disk.  Only a failed call could   *)
(* not remove its file.                                                    *)
NamesInv ==
  /\ \A o \in Op, p \in Path : dir[p] = o \/ diskDir[p] = o => p = path[o]
  /\ temps \subseteq diskTemps
  /\ diskTemps \subseteq Op
  /\ \A o \in diskTemps :
       /\ pc[o] \in TempStage \cup {"returned"}
       /\ outcome[o] = "committed" => diskDir[path[o]] # o
  /\ \A o \in temps :
       /\ pc[o] \in TempStage \/ o \in stuck \cup revived
       /\ outcome[o] = "committed" => dir[path[o]] # o
  /\ \A o \in Op :
       /\ pc[o] \in {"abortTemp", "cleanup"} => outcome[o] = "error"
       /\ o \in stuck => pc[o] = "returned" /\ outcome[o] = "error"

(* A failed removal is recorded of a call that has failed.                 *)
LEMMA OwnFailure ==
  ASSUME TransformTypeOK, SourceOpen, Reached, NamesInv, NEW o \in Op, Step(o)
  PROVE  /\ pc'[o] \in {"abortTemp", "cleanup"} => outcome'[o] = "error"
         /\ o \in stuck' => pc'[o] = "returned" /\ outcome'[o] = "error"
<1>1. pc[o] # "returned" /\ o \notin stuck
  BY Working DEF NamesInv
<1>2. pc[o] \in {"abortTemp", "cleanup"} => outcome[o] = "error"
  BY DEF NamesInv
<1> USE DEF Goto, Finish, Abort, AbortTemp, TransformTypeOK
<1>3. CASE Cleanup(o) BY <1>1, <1>2, <1>3 DEF Cleanup
<1>4. CASE Release(o) BY <1>1, <1>2, <1>4 DEF Release
<1>5. CASE OpenSource(o) \/ LockSource(o) \/ StatSource(o) \/ Measure(o)
  BY <1>1, <1>5 DEF OpenSource, LockSource, StatSource, Measure
<1>6. CASE CreateTemp(o) \/ Replay(o) \/ SyncTemp(o)
  BY <1>1, <1>6 DEF CreateTemp, Replay, SyncTemp
<1>7. CASE CloseTemp(o) \/ Verify(o) \/ ChmodTemp(o) \/ Rename(o)
  BY <1>1, <1>7 DEF CloseTemp, Verify, ChmodTemp, Rename
<1>8. QED
  BY <1>3, <1>4, <1>5, <1>6, <1>7 DEF Step

(* The temporary name of the call that takes the step.                     *)
LEMMA OwnTempName ==
  ASSUME TransformTypeOK, SourceOpen, Reached, NamesInv, NEW o \in Op, Step(o)
  PROVE  /\ o \in temps' => /\ o \in diskTemps'
                            /\ pc'[o] \in TempStage \/ o \in stuck' \cup revived'
                            /\ outcome'[o] # "committed"
         /\ o \in diskTemps' => pc'[o] \in TempStage \cup {"returned"}
<1>1. pc[o] # "returned" /\ outcome[o] # "committed" /\ stuck \subseteq stuck'
      /\ o \notin stuck /\ revived' = revived
  BY Working, Reads, Files DEF Reached, NamesInv
<1>2. CASE CreateTemp(o)
  BY <1>1, <1>2 DEF CreateTemp, CreateTempFile, Goto, Abort, Finish, fsVars, NamesInv,
                    TempStage, TransformTypeOK
<1>3. CASE Rename(o)
  BY <1>1, <1>3 DEF Rename, RenameTemp, Finish, fsVars, NamesInv, TempStage,
                    TransformTypeOK
<1>4. CASE Cleanup(o)
  BY <1>1, <1>4 DEF Cleanup, RemoveTemp, Goto, fsVars, NamesInv, TempStage,
                    TransformTypeOK
<1>5. CASE ~CreateTemp(o) /\ ~Rename(o) /\ ~Cleanup(o)
  <2>1. temps' = temps /\ diskTemps' = diskTemps
    BY <1>5 DEF Step, OpenSource, LockSource, StatSource, Measure, Replay, SyncTemp,
                CloseTemp, Verify, ChmodTemp, Release, fsVars, SetData, SyncFile, ChmodFile
  <2>2. o \in diskTemps => pc[o] \in TempStage
    BY <1>1 DEF NamesInv
  <2>3. pc[o] \in TempStage => pc'[o] \in TempStage
    BY <1>1, <1>5
       DEF Step, OpenSource, LockSource, StatSource, Measure, Replay, SyncTemp,
           CloseTemp, Verify, ChmodTemp, Release, Goto, Finish, Abort, AbortTemp,
           TempStage, TransformTypeOK
  <2>4. outcome'[o] # "committed"
    BY <1>1, <1>5
       DEF Step, OpenSource, LockSource, StatSource, Measure, Replay, SyncTemp,
           CloseTemp, Verify, ChmodTemp, Release, Goto, Finish, Abort, AbortTemp,
           TransformTypeOK
  <2>5. QED
    BY <2>1, <2>2, <2>3, <2>4 DEF NamesInv
<1>6. QED
  BY <1>2, <1>3, <1>4, <1>5

LEMMA NamesStep ==
  ASSUME TransformTypeOK, SourceOpen, Reached, NamesInv, NEW o \in Op, Step(o)
  PROVE  NamesInv'
<1>1. /\ UNCHANGED <<path, diskDir, revived>>
      /\ stuck' = stuck \/ stuck' = stuck \cup {o}
      /\ dir' = dir \/ dir' = [dir EXCEPT ![path[o]] = o]
      /\ path[o] \in Path /\ dir \in [Path -> Entry]
  BY Files, Reads DEF RenameTemp, TransformTypeOK, FileSystemTypeOK
<1>2. \A p \in Path : dir'[p] = dir[p] \/ (p = path[o] /\ dir'[p] = o)
  BY <1>1
<1>3. \A q \in Op, p \in Path : dir'[p] = q \/ diskDir'[p] = q => p = path'[q]
  BY <1>1, <1>2 DEF NamesInv
<1>4. /\ temps' \subseteq diskTemps' /\ diskTemps' \subseteq Op
      /\ \A q \in Op : q # o => (q \in temps' <=> q \in temps)
                             /\ (q \in diskTemps' <=> q \in diskTemps)
  <2>1. temps' \subseteq File /\ diskTemps' \subseteq File
    BY Files DEF FileSystemTypeOK
  <2>2. \A f \in File : f # o => (f \in temps' <=> f \in temps)
                              /\ (f \in diskTemps' <=> f \in diskTemps)
    BY Files
  <2>3. o \in temps' => o \in diskTemps'
    BY OwnTempName
  <2>4. QED
    BY <2>1, <2>2, <2>3 DEF NamesInv
<1>5. ~Linked(o) /\ path[o] \in Path
  BY Working DEF Reached, TransformTypeOK
<1>6. ASSUME NEW q \in Op, q # o
      PROVE  /\ pc'[q] = pc[q] /\ outcome'[q] = outcome[q] /\ path[q] \in Path
             /\ q \in stuck' <=> q \in stuck
             /\ dir'[path[q]] = dir[path[q]] \/ dir'[path[q]] = o
  BY <1>1, <1>2, <1>6, OthersStay DEF TransformTypeOK
<1>7. ASSUME NEW q \in diskTemps'
      PROVE  /\ pc'[q] \in TempStage \cup {"returned"}
             /\ outcome'[q] = "committed" => diskDir'[path'[q]] # q
  <2>1. CASE q = o
    BY <1>1, <1>5, <1>7, <2>1, OwnTempName DEF Linked
  <2>2. CASE q # o
    BY <1>1, <1>4, <1>6, <1>7, <2>2 DEF NamesInv
  <2>3. QED
    BY <2>1, <2>2
<1>8. ASSUME NEW q \in temps'
      PROVE  /\ pc'[q] \in TempStage \/ q \in stuck' \cup revived'
             /\ outcome'[q] = "committed" => dir'[path'[q]] # q
  <2>1. CASE q = o
    BY <1>8, <2>1, OwnTempName
  <2>2. CASE q # o
    BY <1>1, <1>4, <1>6, <1>8, <2>2 DEF NamesInv
  <2>3. QED
    BY <2>1, <2>2
<1>9. ASSUME NEW q \in Op
      PROVE  /\ pc'[q] \in {"abortTemp", "cleanup"} => outcome'[q] = "error"
             /\ q \in stuck' => pc'[q] = "returned" /\ outcome'[q] = "error"
  <2>1. CASE q = o
    BY <2>1, OwnFailure
  <2>2. CASE q # o
    BY <1>6, <2>2 DEF NamesInv
  <2>3. QED
    BY <2>1, <2>2
<1>10. QED
  BY <1>3, <1>4, <1>7, <1>8, <1>9 DEF NamesInv

LEMMA NamesNext ==
  ASSUME TransformTypeOK, SourceOpen, Reached, NamesInv, [Next]_vars
  PROVE  NamesInv'
<1>1. ASSUME NEW o \in Op, Step(o) PROVE NamesInv'
  BY <1>1, NamesStep
<1>2. ASSUME NEW o \in Op, Start(o) \/ LockFails(o) \/ Kill(o) PROVE NamesInv'
  <2>1. UNCHANGED <<path, dir, diskDir, temps, diskTemps, revived, stuck>>
    BY <1>2 DEF Start, LockFails, Kill, Unmoved, fsVars
  <2>2. \A q \in Op : q # o => pc'[q] = pc[q] /\ outcome'[q] = outcome[q]
    BY <1>2 DEF Start, LockFails, Kill, Goto, Finish, TransformTypeOK
  <2>3. pc[o] \in {"idle", "lock"} \/ (Kill(o) /\ InProgress(o))
    BY <1>2 DEF Start, LockFails, Kill
  <2>4. o \notin stuck /\ outcome[o] # "committed"
    BY <2>3 DEF NamesInv, Reached, InProgress
  <2>5. pc'[o] \in {"open", "returned", "dead"} /\ outcome'[o] # "committed"
    BY <1>2, <2>4 DEF Start, LockFails, Kill, Goto, Finish, TransformTypeOK
  <2>6. o \in diskTemps => pc'[o] \in TempStage
    <3>1. pc[o] \in {"idle", "lock"} => o \notin diskTemps
      BY DEF NamesInv, TempStage
    <3>2. Kill(o) => pc'[o] = "dead"
      BY DEF Kill, Goto, TransformTypeOK
    <3>3. QED
      BY <2>3, <3>1, <3>2 DEF TempStage
  <2>7. \A q \in diskTemps : (pc'[q] = pc[q] /\ outcome'[q] = outcome[q]) \/ q = o
    BY <2>2 DEF NamesInv
  <2>8. QED
    BY <2>1, <2>2, <2>4, <2>5, <2>6, <2>7 DEF NamesInv
<1>3. CASE PowerFailure
  <2>1. /\ UNCHANGED <<path, diskDir, outcome, stuck>> /\ dir' = diskDir
        /\ temps' \subseteq diskTemps /\ diskTemps' = temps'
        /\ revived' = temps' \ (temps \ revived)
        /\ \A q \in Op : pc'[q] = pc[q] \/ (pc'[q] = "dead" /\ InProgress(q))
    BY <1>3 DEF PowerFailure, PowerLoss, Unmoved
  <2>2. ASSUME NEW q \in temps'
        PROVE  /\ pc'[q] \in TempStage \/ q \in stuck' \cup revived'
               /\ pc'[q] \in TempStage \cup {"returned"}
               /\ outcome'[q] = "committed" => dir'[path'[q]] # q /\ diskDir'[path'[q]] # q
    <3>1. q \in Op /\ q \in diskTemps
      BY <2>1, <2>2 DEF NamesInv
    <3>2. QED
      BY <2>1, <2>2, <3>1 DEF NamesInv, TempStage
  <2>3. ASSUME NEW q \in Op
        PROVE  /\ pc'[q] \in {"abortTemp", "cleanup"} => outcome'[q] = "error"
               /\ q \in stuck' => pc'[q] = "returned" /\ outcome'[q] = "error"
    BY <2>1 DEF NamesInv, InProgress
  <2>4. QED
    BY <2>1, <2>2, <2>3 DEF NamesInv
<1>4. CASE Kernel
  <2>1. UNCHANGED <<path, dir, temps, pc, outcome, stuck, revived>>
    BY <1>4 DEF Kernel, FlushEntry, WriteBack, opVars
  <2>2. CASE UNCHANGED <<diskDir, diskTemps>>
    BY <2>1, <2>2 DEF NamesInv
  <2>3. ASSUME NEW p \in Path, diskDir' = [diskDir EXCEPT ![p] = dir[p]],
               diskTemps' = diskTemps \ {dir[p]}
        PROVE  NamesInv'
    <3>1. \A q \in Path : diskDir'[q] = IF q = p THEN dir[p] ELSE diskDir[q]
      BY <2>3 DEF TransformTypeOK, FileSystemTypeOK
    <3>2. dir[p] \notin temps
      BY DEF NamesInv, Reached, Linked
    <3>3. \A o \in Op : path[o] \in Path
      BY DEF TransformTypeOK
    <3>4. QED
      BY <2>1, <2>3, <3>1, <3>2, <3>3 DEF NamesInv
  <2>4. QED
    BY <1>4, <2>2, <2>3 DEF Kernel, FlushEntry, WriteBack
<1>5. CASE Editor
  BY <1>5, Edits DEF Edit, SetData, opVars, NamesInv
<1>6. CASE UNCHANGED vars
  BY <1>6 DEF vars, fsVars, opVars, NamesInv
<1>7. QED
  BY <1>1, <1>2, <1>3, <1>4, <1>5, <1>6 DEF Next

(* No temporary file is left behind but by a killed call, a removal that   *)
(* failed, or a power loss that undid a removal or a rename.               *)
THEOREM NoStrayTemps == Spec => []TempsAccountedFor
<1>1. Init => NamesInv
  BY DEF Init, FileSystemInit, Original, NamesInv
<1>2. TransformTypeOK /\ Reached /\ NamesInv => TempsAccountedFor
  BY DEF NamesInv, TempStage, TempsAccountedFor
<1>3. QED
  BY <1>1, <1>2, NamesNext, CommitInvHolds, PTL DEF Spec, CommitInv

-----------------------------------------------------------------------------
(* Without editors, the transforms implement SnapshotStore.                *)

(* No call is late, files that had a path are on the disk, and a call that *)
(* has not opened its source has none.                                     *)
Quiet ==
  /\ edits = 0 /\ late = {}
  /\ \A f \in File : f \in Original \/ outcome[f] = "committed" => synced[f] = data[f]
  /\ \A o \in Op : pc[o] \in {"idle", "open"} => source[o] = NoFile

LEMMA QuietNext ==
  ASSUME MaxEdits = 0, TransformTypeOK, SourceOpen, CommitInv, Quiet, [Next]_vars
  PROVE  Quiet'
<1>1. ASSUME NEW o \in Op, Step(o) PROVE Quiet'
  <2>1. edits' = 0 /\ late' = {}
    BY <1>1, Reads DEF Quiet
  <2>2. outcome'[o] = "committed" => synced'[o] = data'[o]
    <3>1. SUFFICES ASSUME outcome'[o] = "committed" PROVE synced'[o] = data'[o]
      OBVIOUS
    <3>2. outcome[o] # "committed"
      BY <1>1, Working DEF CommitInv, Reached
    <3>3. Rename(o)
      BY <1>1, <3>1, <3>2
         DEF Step, OpenSource, LockSource, StatSource, Measure, CreateTemp, Replay,
             SyncTemp, CloseTemp, Verify, ChmodTemp, Release, Cleanup, Goto, Finish,
             Abort, AbortTemp, TransformTypeOK
    <3>4. QED
      BY <3>3 DEF Rename, RenameTemp, fsVars, CommitInv, WholeInv, Progress
  <2>3. ASSUME NEW f \in File, f # o, f \in Original \/ outcome'[f] = "committed"
        PROVE  synced'[f] = data'[f]
    <3>1. data'[f] = data[f] /\ synced'[f] = synced[f]
      BY <1>1, <2>3, Files
    <3>2. f \in Op => outcome'[f] = outcome[f]
      BY <1>1, <2>3, Moves
    <3>3. QED
      BY <2>3, <3>1, <3>2 DEF Quiet, Original
  <2>4. \A q \in Op : pc'[q] \in {"idle", "open"} => source'[q] = NoFile
    <3>1. pc'[o] \notin {"idle", "open"}
      BY <1>1 DEF Step, OpenSource, LockSource, StatSource, Measure, CreateTemp, Replay,
             SyncTemp, CloseTemp, Verify, ChmodTemp, Release, Rename, Cleanup, Goto,
             Finish, Abort, AbortTemp, TransformTypeOK
    <3>2. QED
      BY <1>1, <3>1, OthersStay DEF Quiet, CommitInv
  <2>5. o \notin Original
    BY DEF Original
  <2>6. QED
    BY <2>1, <2>2, <2>3, <2>4, <2>5 DEF Quiet
<1>2. ASSUME NEW o \in Op, Start(o) \/ LockFails(o) \/ Kill(o) PROVE Quiet'
  BY <1>2 DEF Start, LockFails, Kill, Goto, Finish, Unmoved, fsVars, Quiet, InProgress,
              TransformTypeOK, Original
<1>3. CASE PowerFailure
  BY <1>3 DEF PowerFailure, PowerLoss, Unmoved, InProgress, Quiet
<1>4. CASE Kernel
  BY <1>4 DEF Kernel, FlushEntry, WriteBack, opVars, Quiet, TransformTypeOK,
              FileSystemTypeOK
<1>5. CASE Editor
  BY <1>5, Edits DEF Edit, Quiet
<1>6. CASE UNCHANGED vars
  BY <1>6 DEF vars, fsVars, opVars, Quiet
<1>7. QED
  BY <1>1, <1>2, <1>3, <1>4, <1>5, <1>6 DEF Next

visibleS == Held(dir, data)
durableS == Held(diskDir, synced)
snapshotS == [o \in Op |-> SnapshotOf(o)]
statusS == [o \in Op |-> StatusOf(o)]

(* Files with a path, on any copy of the directory, are settled.           *)
LEMMA LinkedSettled ==
  ASSUME TransformTypeOK, CommitInv, Quiet, NEW p \in Path
  PROVE  /\ dir[p] # NoFile => dir[p] \in File /\ synced[dir[p]] = data[dir[p]]
         /\ diskDir[p] # NoFile => diskDir[p] \in File /\ synced[diskDir[p]] = data[diskDir[p]]
BY DEF TransformTypeOK, FileSystemTypeOK, Entry, Quiet, CommitInv, Reached, Linked, Original

LEMMA SourceSettled ==
  ASSUME TransformTypeOK, CommitInv, Quiet, NEW q \in Op, source[q] # NoFile
  PROVE  source[q] \in File /\ synced[source[q]] = data[source[q]]
BY DEF TransformTypeOK, FileSystemTypeOK, Entry, Quiet, CommitInv, Reached, Original

(* What the store sees of a call from a step of its own.                   *)
Unseen(o) == SnapshotOf(o)' = SnapshotOf(o) /\ StatusOf(o)' = StatusOf(o)

SeenToGiveUp(o) ==
  SnapshotOf(o)' = SnapshotOf(o) /\ StatusOf(o) = "open" /\ StatusOf(o)' = "over"

SeenToTake(o) ==
  /\ StatusOf(o) = "open" /\ StatusOf(o)' = "open"
  /\ SnapshotOf(o) = Absent
  /\ dir[path[o]] # NoFile /\ SnapshotOf(o)' = data[dir[path[o]]]

SeenToCommit(o) ==
  /\ StatusOf(o) = "open" /\ StatusOf(o)' = "committed"
  /\ SnapshotOf(o)' = SnapshotOf(o) /\ SnapshotOf(o) \in Content
  /\ data[o] = Transformed(o, SnapshotOf(o)) /\ data' = data
  /\ dir' = [dir EXCEPT ![path[o]] = o]

LEMMA StepSeen ==
  ASSUME TransformTypeOK, SourceOpen, CommitInv, Quiet, NEW o \in Op, Step(o)
  PROVE  \/ dir' = dir /\ (Unseen(o) \/ SeenToGiveUp(o) \/ SeenToTake(o))
         \/ SeenToCommit(o)
<1>1. outcome[o] # "committed" /\ pc[o] \notin {"idle", "returned", "dead"}
  BY Working DEF CommitInv, Reached
<1>2. source[o] # NoFile => source[o] \in File /\ source[o] # o
  BY <1>1 DEF CommitInv, Reached, TransformTypeOK, FileSystemTypeOK, Entry
<1>3. CASE OpenSource(o)
  <2>1. data' = data /\ dir' = dir /\ source[o] = NoFile
    BY <1>3 DEF OpenSource, fsVars, Quiet
  <2>2. CASE dir[path[o]] # NoFile /\ source' = [source EXCEPT ![o] = dir[path[o]]]
             /\ Goto(o, "lock")
    <3>1. source'[o] = dir[path[o]] /\ pc'[o] = "lock" /\ outcome' = outcome
      BY <2>2 DEF Goto, TransformTypeOK
    <3>2. QED
      BY <1>1, <1>3, <2>1, <2>2, <3>1
         DEF OpenSource, SeenToTake, SnapshotOf, StatusOf, Current
  <2>3. CASE Finish(o, "returned", "error") /\ UNCHANGED source
    BY <1>1, <1>3, <2>1, <2>3
       DEF OpenSource, Finish, SeenToGiveUp, SnapshotOf, StatusOf, TransformTypeOK
  <2>4. QED
    BY <1>3, <2>2, <2>3 DEF OpenSource
<1>4. CASE Rename(o) /\ outcome'[o] = "committed"
  <2>1. pc[o] = "rename" /\ RenameTemp(o, path[o]) /\ source' = source
    BY <1>4 DEF Rename, Finish, TransformTypeOK
  <2>2. source[o] \in File /\ Current(o) = digest[o]
    BY <2>1 DEF SourceOpen, CommitInv, LateInv, Agrees, Quiet
  <2>3. source[o] # NoFile
    BY <2>2
  <2>4. data' = data /\ dir' = [dir EXCEPT ![path[o]] = o]
    BY <2>1 DEF RenameTemp
  <2>5. SnapshotOf(o) = digest[o] /\ SnapshotOf(o)' = SnapshotOf(o)
    BY <2>1, <2>2, <2>3, <2>4 DEF SnapshotOf, Current
  <2>6. data[o] = Transformed(o, digest[o])
    BY <2>1 DEF CommitInv, WholeInv, Progress
  <2>7. digest[o] \in Content
    BY DEF TransformTypeOK
  <2>8. StatusOf(o) = "open" /\ StatusOf(o)' = "committed"
    BY <1>1, <1>4, <2>1 DEF StatusOf
  <2>9. QED
    BY <2>4, <2>5, <2>6, <2>7, <2>8 DEF SeenToCommit
<1>5. CASE ~OpenSource(o) /\ ~(Rename(o) /\ outcome'[o] = "committed")
  <2>1. dir' = dir /\ source' = source
    BY <1>5, Files DEF Step, LockSource, StatSource, Measure, CreateTemp, Replay,
         SyncTemp, CloseTemp, Verify, ChmodTemp, Release, Rename, Cleanup
  <2>2. SnapshotOf(o)' = SnapshotOf(o)
    BY <1>2, <2>1, Files DEF SnapshotOf, Current
  <2>3. outcome'[o] # "committed"
    BY <1>1, <1>5
       DEF Step, LockSource, StatSource, Measure, CreateTemp, Replay, SyncTemp,
           CloseTemp, Verify, ChmodTemp, Release, Rename, Cleanup, Goto, Finish, Abort,
           AbortTemp, TransformTypeOK
  <2>4. StatusOf(o) \in {"open", "over"} /\ StatusOf(o)' \in {"open", "over"}
    BY <1>1, <2>3 DEF StatusOf
  <2>5. StatusOf(o) = "over" => StatusOf(o)' = "over"
    <3>1. SUFFICES ASSUME pc[o] \in {"abort", "abortTemp", "cleanup"}
                   PROVE  pc'[o] \in {"returned", "cleanup"}
      BY <1>1, <2>3 DEF StatusOf
    <3>2. QED
      BY <3>1 DEF Step, OpenSource, LockSource, StatSource, Measure, CreateTemp, Replay,
           SyncTemp, CloseTemp, Verify, ChmodTemp, Release, Rename, Cleanup, Goto,
           TransformTypeOK
  <2>6. QED
    BY <2>1, <2>2, <2>4, <2>5 DEF Unseen, SeenToGiveUp
<1>6. QED
  BY <1>3, <1>4, <1>5

LEMMA StepStoreFrame ==
  ASSUME TransformTypeOK, SourceOpen, CommitInv, Quiet, NEW o \in Op, Step(o)
  PROVE  /\ \A q \in Op : q # o => SnapshotOf(q)' = SnapshotOf(q) /\ StatusOf(q)' = StatusOf(q)
         /\ durableS' = durableS
         /\ dir' = dir => visibleS' = visibleS
         /\ path' = path
<1>1. \A p \in Path : dir[p] # o /\ diskDir[p] # o
  BY Working DEF CommitInv, Reached, Linked
<1>2. \A p \in Path : dir[p] \in Entry /\ diskDir[p] \in Entry
  BY DEF TransformTypeOK, FileSystemTypeOK
<1>3. \A f \in File : f # o => data'[f] = data[f] /\ synced'[f] = synced[f]
  BY Files
<1>4. diskDir' = diskDir
  BY Files
<1>5. durableS' = durableS
  BY <1>1, <1>2, <1>3, <1>4 DEF durableS, Held, Entry
<1>6. dir' = dir => visibleS' = visibleS
  BY <1>1, <1>2, <1>3 DEF visibleS, Held, Entry
<1>7. ASSUME NEW q \in Op, q # o
      PROVE  SnapshotOf(q)' = SnapshotOf(q) /\ StatusOf(q)' = StatusOf(q)
  <2>1. source[q] = NoFile \/ source[q] \in File
    BY DEF TransformTypeOK, FileSystemTypeOK, Entry
  <2>2. QED
    BY <1>7, <2>1, OthersStay DEF SnapshotOf, StatusOf, CommitInv
<1>8. QED
  BY <1>5, <1>6, <1>7, Reads

LEMMA StoreStep ==
  ASSUME TransformTypeOK, SourceOpen, CommitInv, Quiet, NEW o \in Op, Step(o)
  PROVE  [Snapshots!Next]_(Snapshots!storeVars)
<1>1. /\ \A q \in Op : q # o => SnapshotOf(q)' = SnapshotOf(q) /\ StatusOf(q)' = StatusOf(q)
      /\ durableS' = durableS
      /\ dir' = dir => visibleS' = visibleS
      /\ path' = path
  BY StepStoreFrame
<1>2. /\ snapshotS' = [snapshotS EXCEPT ![o] = SnapshotOf(o)']
      /\ statusS' = [statusS EXCEPT ![o] = StatusOf(o)']
      /\ snapshotS[o] = SnapshotOf(o) /\ statusS[o] = StatusOf(o)
  BY <1>1 DEF snapshotS, statusS
<1>3. o \in File /\ o # NoFile /\ path[o] \in Path /\ dir \in [Path -> Entry]
  BY DEF TransformTypeOK, FileSystemTypeOK
<1>4. CASE dir' = dir /\ Unseen(o)
  <2>1. snapshotS' = snapshotS /\ statusS' = statusS
    BY <1>1, <1>4 DEF Unseen, snapshotS, statusS
  <2>2. QED
    BY <1>1, <1>4, <2>1 DEF Snapshots!storeVars, snapshotS, statusS, visibleS, durableS
<1>5. CASE dir' = dir /\ SeenToGiveUp(o)
  <2>1. snapshotS' = snapshotS
    BY <1>1, <1>5 DEF SeenToGiveUp, snapshotS
  <2>2. Snapshots!GiveUp(o)
    BY <1>1, <1>2, <1>5, <2>1
       DEF SeenToGiveUp, Snapshots!GiveUp, snapshotS, statusS, visibleS, durableS
  <2>3. QED
    BY <2>2 DEF Snapshots!Next
<1>6. CASE dir' = dir /\ SeenToTake(o)
  <2>1. statusS' = statusS
    BY <1>1, <1>6 DEF SeenToTake, statusS
  <2>2. visibleS[path[o]] = data[dir[path[o]]] /\ visibleS[path[o]] # Absent
    BY <1>3, <1>6, LinkedSettled
       DEF SeenToTake, visibleS, Held, Absent, TransformTypeOK, FileSystemTypeOK, Content
  <2>3. Snapshots!Take(o)
    BY <1>1, <1>2, <1>6, <2>1, <2>2
       DEF SeenToTake, Snapshots!Take, snapshotS, statusS, visibleS, durableS
  <2>4. QED
    BY <2>3 DEF Snapshots!Next
<1>7. CASE SeenToCommit(o)
  <2>1. snapshotS' = snapshotS
    BY <1>1, <1>7 DEF SeenToCommit, snapshotS
  <2>2. visibleS' = [visibleS EXCEPT ![path[o]] = Transformed(o, SnapshotOf(o))]
    BY <1>3, <1>7 DEF SeenToCommit, visibleS, Held
  <2>3. SnapshotOf(o) # Absent
    BY <1>7 DEF SeenToCommit, Absent, Content
  <2>4. Snapshots!Commit(o)
    BY <1>1, <1>2, <1>7, <2>1, <2>2, <2>3
       DEF SeenToCommit, Snapshots!Commit, Transformed, snapshotS, statusS, visibleS, durableS
  <2>5. QED
    BY <2>4 DEF Snapshots!Next
<1>8. QED
  BY <1>4, <1>5, <1>6, <1>7, StepSeen

LEMMA StoreEnd ==
  ASSUME TransformTypeOK, CommitInv, NEW o \in Op, Start(o) \/ LockFails(o) \/ Kill(o)
  PROVE  [Snapshots!Next]_(Snapshots!storeVars)
<1>1. UNCHANGED <<path, dir, diskDir, data, synced, source>>
      /\ \A q \in Op : q # o => pc'[q] = pc[q] /\ outcome'[q] = outcome[q]
  BY DEF Start, LockFails, Kill, Goto, Finish, Unmoved, fsVars, TransformTypeOK
<1>2. \A q \in Op : SnapshotOf(q)' = SnapshotOf(q) /\ (q # o => StatusOf(q)' = StatusOf(q))
  BY <1>1 DEF SnapshotOf, StatusOf, Current
<1>3. visibleS' = visibleS /\ durableS' = durableS
  BY <1>1 DEF visibleS, durableS, Held
<1>4. \/ StatusOf(o)' = StatusOf(o)
      \/ StatusOf(o) = "open" /\ StatusOf(o)' = "over"
  BY DEF Start, LockFails, Kill, InProgress, Goto, Finish, StatusOf, TransformTypeOK,
         CommitInv, Reached
<1>5. CASE StatusOf(o)' = StatusOf(o)
  <2>1. UNCHANGED Snapshots!storeVars
    BY <1>1, <1>2, <1>3, <1>5 DEF Snapshots!storeVars, visibleS, durableS
  <2>2. QED
    BY <2>1
<1>6. CASE StatusOf(o) = "open" /\ StatusOf(o)' = "over"
  <2>1. Snapshots!GiveUp(o)
    BY <1>1, <1>2, <1>3, <1>6 DEF Snapshots!GiveUp, visibleS, durableS
  <2>2. QED
    BY <2>1 DEF Snapshots!Next
<1>7. QED
  BY <1>4, <1>5, <1>6

LEMMA StoreNext ==
  ASSUME MaxEdits = 0, TransformTypeOK, SourceOpen, CommitInv, Quiet, [Next]_vars
  PROVE  [Snapshots!Next]_(Snapshots!storeVars)
<1>1. ASSUME NEW o \in Op, Step(o) PROVE [Snapshots!Next]_(Snapshots!storeVars)
  BY <1>1, StoreStep
<1>2. ASSUME NEW o \in Op, Start(o) \/ LockFails(o) \/ Kill(o)
      PROVE  [Snapshots!Next]_(Snapshots!storeVars)
  BY <1>2, StoreEnd
<1>3. CASE PowerFailure
  <2>1. visibleS' = durableS /\ durableS' = durableS /\ path' = path
    BY <1>3 DEF PowerFailure, PowerLoss, Unmoved, visibleS, durableS, Held
  <2>2. ASSUME NEW q \in Op PROVE SnapshotOf(q)' = SnapshotOf(q)
    BY <1>3, SourceSettled DEF PowerFailure, PowerLoss, SnapshotOf, Current
  <2> DEFINE lost == {q \in Op : StatusOf(q) = "open" /\ InProgress(q)}
  <2>3. \A q \in Op : StatusOf(q)' = IF q \in lost THEN "over" ELSE StatusOf(q)
    BY <1>3 DEF PowerFailure, InProgress, StatusOf, CommitInv, Reached
  <2>4. lost \in SUBSET {q \in Op : statusS[q] = "open"}
    BY DEF statusS
  <2> HIDE DEF lost
  <2>5. Snapshots!LosePower
    BY ZenonT(40), <2>1, <2>2, <2>3, <2>4 DEF Snapshots!LosePower, visibleS, durableS, statusS
  <2>6. QED
    BY <2>5 DEF Snapshots!Next
<1>4. CASE Kernel
  <2>1. UNCHANGED <<path, pc, outcome, source, dir, data>>
    BY <1>4 DEF Kernel, FlushEntry, WriteBack, opVars
  <2>2. \A q \in Op : SnapshotOf(q)' = SnapshotOf(q) /\ StatusOf(q)' = StatusOf(q)
    BY <2>1 DEF SnapshotOf, StatusOf, Current
  <2>3. visibleS' = visibleS
    BY <2>1 DEF visibleS, Held
  <2>4. ASSUME NEW p \in Path, FlushEntry(p) PROVE Snapshots!Harden(p)
    <3>1. durableS' = [durableS EXCEPT ![p] = visibleS[p]]
      BY <2>4, LinkedSettled
         DEF FlushEntry, durableS, visibleS, Held, TransformTypeOK, FileSystemTypeOK
    <3>2. QED
      BY <2>1, <2>2, <2>3, <3>1 DEF Snapshots!Harden, visibleS, durableS
  <2>5. ASSUME NEW f \in File, WriteBack(f) PROVE UNCHANGED Snapshots!storeVars
    <3>1. \A p \in Path : diskDir[p] # f
      BY <2>5, LinkedSettled, NoFileAssumption DEF WriteBack
    <3>2. durableS' = durableS
      BY <2>5, <3>1, LinkedSettled
         DEF WriteBack, durableS, Held, TransformTypeOK, FileSystemTypeOK
    <3>3. QED
      BY <2>1, <2>2, <2>3, <3>2 DEF Snapshots!storeVars, visibleS, durableS
  <2>6. QED
    BY <1>4, <2>4, <2>5 DEF Kernel, Snapshots!Next
<1>5. CASE Editor
  BY <1>5, Edits DEF Edit, Quiet
<1>6. CASE UNCHANGED vars
  BY <1>6 DEF vars, fsVars, opVars, Snapshots!storeVars, Held, SnapshotOf, StatusOf, Current
<1>7. QED
  BY <1>1, <1>2, <1>3, <1>4, <1>5, <1>6 DEF Next

LEMMA StoreInit == Init => Snapshots!Init
<1> SUFFICES ASSUME Init PROVE Snapshots!Init
  OBVIOUS
<1>1. TransformTypeOK
  BY InitTypes
<1>2. Held(dir, data) \in [Path -> Content \cup {Absent}]
  BY <1>1 DEF TransformTypeOK, FileSystemTypeOK, Entry, Held
<1>3. Held(diskDir, synced) = Held(dir, data)
  BY DEF Init, FileSystemInit, Held
<1>4. \A o \in Op : SnapshotOf(o) = Absent /\ StatusOf(o) = "open"
  BY DEF Init, SnapshotOf, StatusOf
<1>5. path \in [Op -> Path]
  BY DEF Init
<1>6. QED
  BY <1>2, <1>3, <1>4, <1>5
     DEF Snapshots!Init, Snapshots!Held, Snapshots!Content, Content

(* When every writer is a transform, what a commit leaves at its path is   *)
(* the transformation of what the path held when the call opened it.       *)
THEOREM SnapshotRefinement ==
  ASSUME MaxEdits = 0
  PROVE  Spec => ImplementsSnapshotStore
<1>1. Init => Quiet
  BY DEF Init, FileSystemInit, Original, Quiet
<1>2. TransformTypeOK /\ SourceOpen /\ CommitInv /\ Quiet /\ [Next]_vars => Quiet'
  BY QuietNext
<1>3. TransformTypeOK /\ SourceOpen /\ CommitInv /\ Quiet /\ [Next]_vars
        => [Snapshots!Next]_(Snapshots!storeVars)
  BY StoreNext
<1>4. QED
  BY <1>1, <1>2, <1>3, StoreInit, CommitInvHolds, PTL
     DEF Spec, ImplementsSnapshotStore, Snapshots!Spec
=============================================================================
