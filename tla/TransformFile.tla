---------------------------- MODULE TransformFile ----------------------------
(***************************************************************************)
(* fileops.TransformFileWithContext (transform_file.go) and the Modifier   *)
(* it commits through (safeio.go): several transforms and previews of the  *)
(* same files at once, and editors that take no lock.                      *)
(*                                                                         *)
(* An applied transform reads its source three times through one handle,   *)
(* under an exclusive lock: to measure what would change, to write the     *)
(* transformed content to a temporary file, and to compare (the CAS).      *)
(* SHA-256 digests are the contents they stand for.  It then releases the  *)
(* lock and renames.  A source is read a block at a time, so an editor can *)
(* write in the middle of a pass.                                          *)
(***************************************************************************)
EXTENDS FileSystem, FileLock

CONSTANTS
  Op,          \* calls of TransformFileWithContext
  Effect,      \* Effect[o][c]: what the transform of o makes of block c
  Binary,      \* blocks that hold a null byte
  Originals,   \* contents a file may have at the start
  MaxLength,   \* bound: blocks in a file an editor wrote
  MaxEdits     \* bound: writes and saves of editors

ASSUME OpAssumption == Op \subseteq File

ASSUME EffectAssumption == Effect \in [Op -> [Chunk -> Chunk]]

ASSUME OriginalsAssumption == Originals \subseteq Seq(Chunk)

ASSUME BoundsAssumption == MaxLength \in Nat /\ MaxEdits \in Nat

Original == File \ Op

Intent == {"apply", "preview"}

Stage == {"idle", "open", "lock", "stat", "measure", "createTemp", "replay",
          "sync", "close", "verify", "chmod", "unlock", "rename",
          "abort", "abortTemp", "cleanup", "returned", "dead"}

Outcome == {"none", "committed", "unchanged", "binary", "error"}

VARIABLES
  intent,    \* apply, or the preview that only reports
  path,
  pc,
  outcome,   \* what the call returns, known before it is done releasing
  source,    \* the file behind the handle the call holds
  seen,      \* what the current pass has read of it
  digest,    \* m.hash: what the measuring pass read
  edits,     \* writes and saves of editors so far
  late,      \* history: calls whose source was edited where the CAS had read already
  stuck      \* history: calls that could not remove their temporary file

opVars == <<intent, path, pc, outcome, source, seen, digest>>

vars == <<fsVars, lockVars, opVars, edits, late, stuck>>

TransformTypeOK ==
  /\ FileSystemTypeOK
  /\ FileLockTypeOK(File, Op)
  /\ intent \in [Op -> Intent]
  /\ path \in [Op -> Path]
  /\ pc \in [Op -> Stage]
  /\ outcome \in [Op -> Outcome]
  /\ source \in [Op -> Entry]
  /\ seen \in [Op -> Content]
  /\ digest \in [Op -> Content]
  /\ edits \in 0..MaxEdits
  /\ late \subseteq Op
  /\ stuck \subseteq Op

Init ==
  /\ FileSystemInit(Original, Originals \cup {<< >>})
  /\ NoLocks
  /\ intent \in [Op -> Intent]
  /\ path \in [Op -> Path]
  /\ pc = [o \in Op |-> "idle"]
  /\ outcome = [o \in Op |-> "none"]
  /\ source = [o \in Op |-> NoFile]
  /\ seen = [o \in Op |-> << >>]
  /\ digest = [o \in Op |-> << >>]
  /\ edits = 0
  /\ late = {}
  /\ stuck = {}

-----------------------------------------------------------------------------
Goto(o, stage) ==
  /\ pc' = [pc EXCEPT ![o] = stage]
  /\ UNCHANGED outcome

Finish(o, stage, result) ==
  /\ pc' = [pc EXCEPT ![o] = stage]
  /\ outcome' = [outcome EXCEPT ![o] = result]

(* An error with the lock held: before there is a temporary file, and with *)
(* one to close and remove once the lock is released.                      *)
Abort(o) == Finish(o, "abort", "error")

(* Mutant: the clean-up of an error before there is a temporary file.      *)
AbortTempEarly(o) == Finish(o, "abort", "error")

AbortTemp(o) == Finish(o, "abortTemp", "error")

Current(o) == data[source[o]]

AtEnd(o) == Len(seen[o]) >= Len(Current(o))

NextBlock(o) == Current(o)[Len(seen[o]) + 1]

Transformed(o, content) == [i \in 1..Len(content) |-> Effect[o][content[i]]]

(* transformWouldChangeFromStats: some counter of the pass is not zero.    *)
WouldChange(o, content) == \E i \in 1..Len(content) : Effect[o][content[i]] # content[i]

(* scanForNull, over the head of the file.                                 *)
IsBinary(o) == seen[o] = << >> /\ NextBlock(o) \in Binary

(* The loop of every pass: the next block, into the digest.                *)
ReadBlock(o) ==
  /\ ~AtEnd(o)
  /\ seen' = [seen EXCEPT ![o] = Append(@, NextBlock(o))]

Rewind(o) == seen' = [seen EXCEPT ![o] = << >>]

Unmoved == UNCHANGED <<intent, path, edits, late>>

Start(o) ==
  /\ pc[o] = "idle"
  /\ Goto(o, "open") \/ Finish(o, "returned", "error")
  /\ Unmoved
  /\ UNCHANGED <<fsVars, lockVars, source, seen, digest, stuck>>

(* Mutant: a source that is not there is locked all the same.              *)
OpenSourceUnchecked(o) ==
  /\ pc[o] = "open"
  /\ source' = [source EXCEPT ![o] = dir[path[o]]]
  /\ Goto(o, "lock")
  /\ Unmoved
  /\ UNCHANGED <<fsVars, lockVars, seen, digest, stuck>>

OpenSource(o) ==
  /\ pc[o] = "open"
  /\ \/ /\ dir[path[o]] # NoFile
        /\ source' = [source EXCEPT ![o] = dir[path[o]]]
        /\ Goto(o, "lock")
     \/ Finish(o, "returned", "error") /\ UNCHANGED source
  /\ Unmoved
  /\ UNCHANGED <<fsVars, lockVars, seen, digest, stuck>>

(* flock waits.  By the time it returns, the path may lead elsewhere.      *)
LockSource(o) ==
  /\ pc[o] = "lock"
  /\ IF intent[o] = "apply" THEN LockExclusive(source[o], o) ELSE LockShared(source[o], o)
  /\ Goto(o, "stat")
  /\ Unmoved
  /\ UNCHANGED <<fsVars, source, seen, digest, stuck>>

LockFails(o) ==
  /\ pc[o] = "lock"
  /\ Finish(o, "returned", "error")
  /\ Unmoved
  /\ UNCHANGED <<fsVars, lockVars, source, seen, digest, stuck>>

StatSource(o) ==
  /\ pc[o] = "stat"
  /\ Goto(o, "measure") \/ Abort(o)
  /\ Unmoved
  /\ UNCHANGED <<fsVars, lockVars, source, seen, digest, stuck>>

(* The measuring pass; a cancelled context ends it like a failed read.     *)
Measure(o) ==
  /\ pc[o] = "measure"
  /\ \/ /\ ReadBlock(o)
        /\ IF IsBinary(o)
           THEN Finish(o, "abort", "binary")
           ELSE UNCHANGED <<pc, outcome>>
        /\ UNCHANGED digest
     \/ /\ AtEnd(o)
        /\ digest' = [digest EXCEPT ![o] = seen[o]]
        /\ Rewind(o)
        /\ IF intent[o] = "apply" /\ WouldChange(o, seen[o])
           THEN Goto(o, "createTemp")
           ELSE Finish(o, "abort", "unchanged")
     \/ Abort(o) /\ UNCHANGED <<seen, digest>>
  /\ Unmoved
  /\ UNCHANGED <<fsVars, lockVars, source, stuck>>

CreateTemp(o) ==
  /\ pc[o] = "createTemp"
  /\ \/ CreateTempFile(o) /\ Goto(o, "replay")
     \/ UNCHANGED fsVars /\ Abort(o)
  /\ Unmoved
  /\ UNCHANGED <<lockVars, source, seen, digest, stuck>>

(* Mutant: the pass writes to the source itself.                           *)
ReplayInPlace(o) ==
  /\ pc[o] = "replay"
  /\ \/ /\ ReadBlock(o)
        /\ SetData(source[o], [Current(o) EXCEPT ![Len(seen[o]) + 1] = Effect[o][@]])
        /\ UNCHANGED <<pc, outcome>>
     \/ /\ AtEnd(o)
        /\ Goto(o, "sync")
        /\ UNCHANGED <<fsVars, seen>>
  /\ Unmoved
  /\ UNCHANGED <<lockVars, source, digest, stuck>>

(* The pass that writes.  A write that fails may have written all the same; *)
(* a read that fails, a cancelled context or a binary head ends it too.    *)
Replay(o) ==
  /\ pc[o] = "replay"
  /\ \/ /\ ReadBlock(o)
        /\ ~(seen[o] = << >> /\ NextBlock(o) \in Binary)
        /\ SetData(o, Append(data[o], Effect[o][NextBlock(o)]))
        /\ UNCHANGED <<pc, outcome>>
     \/ /\ ReadBlock(o)
        /\ SetData(o, Append(data[o], Effect[o][NextBlock(o)]))
        /\ AbortTemp(o)
     \/ /\ AtEnd(o)
        /\ Goto(o, "sync")
        /\ UNCHANGED <<fsVars, seen>>
     \/ /\ AbortTemp(o)
        /\ UNCHANGED <<fsVars, seen>>
  /\ Unmoved
  /\ UNCHANGED <<lockVars, source, digest, stuck>>

SyncTemp(o) ==
  /\ pc[o] = "sync"
  /\ \/ SyncFile(o) /\ Goto(o, "close")
     \/ UNCHANGED fsVars /\ AbortTemp(o)
  /\ Unmoved
  /\ UNCHANGED <<lockVars, source, seen, digest, stuck>>

(* Mutant: what the replay read is compared with nothing.                  *)
CloseTempUncompared(o) ==
  /\ pc[o] = "close"
  /\ Goto(o, "verify")
  /\ Rewind(o)
  /\ Unmoved
  /\ UNCHANGED <<fsVars, lockVars, source, digest, stuck>>

(* After the close, what the replay read is compared with what was         *)
(* measured.                                                               *)
CloseTemp(o) ==
  /\ pc[o] = "close"
  /\ \/ seen[o] = digest[o] /\ Goto(o, "verify")
     \/ AbortTemp(o)
  /\ Rewind(o)
  /\ Unmoved
  /\ UNCHANGED <<fsVars, lockVars, source, digest, stuck>>

(* Mutant: no CAS.                                                         *)
VerifySkipped(o) ==
  /\ pc[o] = "verify"
  /\ Goto(o, "chmod")
  /\ Unmoved
  /\ UNCHANGED <<fsVars, lockVars, source, seen, digest, stuck>>

(* The CAS: the file behind the handle, read once more.                    *)
Verify(o) ==
  /\ pc[o] = "verify"
  /\ \/ ReadBlock(o) /\ UNCHANGED <<pc, outcome>>
     \/ AtEnd(o) /\ seen[o] = digest[o] /\ Goto(o, "chmod") /\ UNCHANGED seen
     \/ AbortTemp(o) /\ UNCHANGED seen
  /\ Unmoved
  /\ UNCHANGED <<fsVars, lockVars, source, digest, stuck>>

ChmodTemp(o) ==
  /\ pc[o] = "chmod"
  /\ \/ ChmodFile(o) /\ Goto(o, "unlock")
     \/ UNCHANGED fsVars /\ AbortTemp(o)
  /\ Unmoved
  /\ UNCHANGED <<lockVars, source, seen, digest, stuck>>

(* Mutant: an error before the temporary file returns with the lock held.  *)
ReleaseUnlessAborted(o) ==
  /\ pc[o] \in {"unlock", "abort", "abortTemp"}
  /\ IF pc[o] = "abort" THEN UNCHANGED lockVars ELSE ReleaseLocks({o})
  /\ Goto(o, CASE pc[o] = "unlock" -> "rename"
               [] pc[o] = "abort" -> "returned"
               [] pc[o] = "abortTemp" -> "cleanup")
  /\ Unmoved
  /\ UNCHANGED <<fsVars, source, seen, digest, stuck>>

(* Mutant: a commit renames and returns with the lock held.                *)
ReleaseUnlessCommitting(o) ==
  /\ pc[o] \in {"unlock", "abort", "abortTemp"}
  /\ IF pc[o] = "unlock" THEN UNCHANGED lockVars ELSE ReleaseLocks({o})
  /\ Goto(o, CASE pc[o] = "unlock" -> "rename"
               [] pc[o] = "abort" -> "returned"
               [] pc[o] = "abortTemp" -> "cleanup")
  /\ Unmoved
  /\ UNCHANGED <<fsVars, source, seen, digest, stuck>>

(* m.release, before the rename and on every way out.                      *)
Release(o) ==
  /\ pc[o] \in {"unlock", "abort", "abortTemp"}
  /\ ReleaseLocks({o})
  /\ Goto(o, CASE pc[o] = "unlock" -> "rename"
               [] pc[o] = "abort" -> "returned"
               [] pc[o] = "abortTemp" -> "cleanup")
  /\ Unmoved
  /\ UNCHANGED <<fsVars, source, seen, digest, stuck>>

(* Mutant: the error of the rename is dropped.                             *)
RenameUnchecked(o) ==
  /\ pc[o] = "rename"
  /\ RenameTemp(o, path[o]) \/ UNCHANGED fsVars
  /\ Finish(o, "returned", "committed")
  /\ Unmoved
  /\ UNCHANGED <<lockVars, source, seen, digest, stuck>>

Rename(o) ==
  /\ pc[o] = "rename"
  /\ \/ RenameTemp(o, path[o]) /\ Finish(o, "returned", "committed")
     \/ UNCHANGED fsVars /\ Finish(o, "cleanup", "error")
  /\ Unmoved
  /\ UNCHANGED <<lockVars, source, seen, digest, stuck>>

(* The error of a removal that fails is dropped.                           *)
Cleanup(o) ==
  /\ pc[o] = "cleanup"
  /\ Goto(o, "returned")
  /\ \/ RemoveTemp(o) /\ UNCHANGED stuck
     \/ UNCHANGED fsVars /\ stuck' = stuck \cup {o}
  /\ Unmoved
  /\ UNCHANGED <<lockVars, source, seen, digest>>

Step(o) ==
  \/ OpenSource(o)
  \/ LockSource(o)
  \/ StatSource(o)
  \/ Measure(o)
  \/ CreateTemp(o)
  \/ Replay(o)
  \/ SyncTemp(o)
  \/ CloseTemp(o)
  \/ Verify(o)
  \/ ChmodTemp(o)
  \/ Release(o)
  \/ Rename(o)
  \/ Cleanup(o)

InProgress(o) == pc[o] \notin {"idle", "returned", "dead"}

-----------------------------------------------------------------------------
(* What happens to the calls from outside.                                 *)

Kill(o) ==
  /\ InProgress(o)
  /\ Goto(o, "dead")
  /\ ReleaseLocks({o})
  /\ Unmoved
  /\ UNCHANGED <<fsVars, source, seen, digest, stuck>>

PowerFailure ==
  /\ PowerLoss
  /\ pc' = [o \in Op |-> IF InProgress(o) THEN "dead" ELSE pc[o]]
  /\ shared' = {} /\ exclusive' = {}
  /\ Unmoved
  /\ UNCHANGED <<outcome, source, seen, digest, stuck>>

Kernel ==
  /\ (\E p \in Path : FlushEntry(p)) \/ (\E f \in File : WriteBack(f))
  /\ UNCHANGED <<lockVars, opVars, edits, late, stuck>>

(* The calls that cannot notice a change of file f at block i any more.    *)
PastNoticing(f, i) ==
  {o \in Op : /\ source[o] = f
              /\ \/ pc[o] \in {"chmod", "unlock", "rename"}
                 \/ pc[o] = "verify" /\ i <= Len(seen[o])}

(* An editor that takes no lock writes to the file: over a block of it, at *)
(* its end, or it cuts the last block off.                                 *)
Edit(f, i, content) ==
  /\ edits < MaxEdits
  /\ SetData(f, content)
  /\ edits' = edits + 1
  /\ late' = late \cup PastNoticing(f, i)
  /\ UNCHANGED <<lockVars, opVars, stuck>>

Overwrite(f, i, c) == Edit(f, i, [data[f] EXCEPT ![i] = c])

Extend(f, c) ==
  /\ Len(data[f]) < MaxLength
  /\ Edit(f, Len(data[f]) + 1, Append(data[f], c))

Truncate(f) ==
  /\ data[f] # << >>
  /\ Edit(f, Len(data[f]), SubSeq(data[f], 1, Len(data[f]) - 1))

Editor ==
  \E p \in Path :
    /\ dir[p] # NoFile
    /\ \/ \E c \in Chunk : \/ \E i \in 1..Len(data[dir[p]]) : Overwrite(dir[p], i, c)
                           \/ Extend(dir[p], c)
       \/ Truncate(dir[p])

Next ==
  \/ \E o \in Op : Start(o) \/ Step(o) \/ LockFails(o) \/ Kill(o)
  \/ PowerFailure
  \/ Kernel
  \/ Editor

(* A process that is not killed keeps running its code; flock may wait as  *)
(* long as another holds the lock, and need not ever fail.                 *)
Spec == Init /\ [][Next]_vars /\ \A o \in Op : WF_vars(Step(o))

-----------------------------------------------------------------------------
LockedStage == {"stat", "measure", "createTemp", "replay", "sync", "close",
                "verify", "chmod", "unlock", "abort", "abortTemp"}

Locked(o) == pc[o] \in LockedStage

LocksOf(wish) == {<<source[o], o>> : o \in {q \in Op : Locked(q) /\ intent[q] = wish}}

(* A call holds the lock on its source from the moment flock returns until *)
(* it releases it, whichever way it goes, and at no other time: no way out *)
(* of openLockedRDWR, CommitFromWriter or Abort keeps one, and nothing is  *)
(* read or compared without one.                                           *)
LockedWhileReading ==
  exclusive = LocksOf("apply") /\ shared = LocksOf("preview")

(* A temporary file outlives its call only if the call was killed, or its  *)
(* removal failed, which the error of the call does not tell, or a power   *)
(* loss undid the removal, or the rename of a commit, whose path then      *)
(* leads elsewhere.  A commit alone leaves none.                           *)
TempsAccountedFor ==
  \A o \in temps :
    \/ pc[o] \in {"replay", "sync", "close", "verify", "chmod", "unlock",
                  "rename", "abortTemp", "cleanup", "dead"}
    \/ o \in stuck /\ outcome[o] = "error"
    \/ o \in revived /\ (outcome[o] = "committed" => dir[path[o]] # o)

Committing(o) == pc[o] = "rename" /\ outcome'[o] = "committed"

(* What a commit puts at the path is the transform of the blocks that its  *)
(* measuring pass read, every one and no other, and it is on the disk with *)
(* its mode set, whatever editors wrote between and during the passes.     *)
CommitIsWhole ==
  [][\A o \in Op : Committing(o) =>
       /\ data[o] = Transformed(o, digest[o])
       /\ synced[o] = data[o]
       /\ perm[o] = "final"
       /\ WouldChange(o, digest[o])]_vars

(* The file a call read still holds what it measured when it commits,      *)
(* unless an editor wrote to a part of it that the CAS had read already.   *)
(* (The CAS re-reads what the replay read: an edit that is there to be     *)
(* seen when it reads it fails the commit.)                                *)
OnlyLateEditsAreMissed ==
  [][\A o \in Op : Committing(o) /\ o \notin late => Current(o) = digest[o]]_vars

(* A file that is cooperatively locked changes only under an editor, and   *)
(* what a call has read of it is what it holds.                            *)
LockedSourceIsStable ==
  [][\A o \in Op : Locked(o) /\ edits' = edits /\ pc'[o] # "dead"
       => Current(o)' = Current(o)]_vars

(* A transform or preview that was started comes back: no path leaves a    *)
(* lock held that another waits for.                                       *)
EveryCallReturns == \A o \in Op : InProgress(o) ~> ~InProgress(o)

-----------------------------------------------------------------------------
(* Without editors, the transforms implement the store of snapshots: what  *)
(* a call takes is the content behind the handle it opened.                *)

Absent == NoFile

Held(entries, contents) ==
  [p \in Path |-> IF entries[p] = NoFile THEN Absent ELSE contents[entries[p]]]

SnapshotOf(o) == IF source[o] = NoFile THEN Absent ELSE Current(o)

StatusOf(o) ==
  IF outcome[o] = "committed" THEN "committed"
  ELSE IF pc[o] \in {"abort", "abortTemp", "cleanup", "returned", "dead"}
       THEN "over"
       ELSE "open"

Snapshots == INSTANCE SnapshotStore WITH
  target <- path,
  visible <- Held(dir, data),
  durable <- Held(diskDir, synced),
  snapshot <- [o \in Op |-> SnapshotOf(o)],
  status <- [o \in Op |-> StatusOf(o)]

(* A commit is the transformation of the whole content the path held when  *)
(* the call opened it, however calls, crashes and power losses interleave. *)
ImplementsSnapshotStore == Snapshots!Spec

-----------------------------------------------------------------------------
(* safeio.go says of the rename after the lock is released: "the CAS hash  *)
(* check ensures content integrity through this window".                   *)

(* The file a commit replaces is the file it read.                         *)
CommitReplacesWhatItRead ==
  [][\A o \in Op : Committing(o) => dir[path[o]] = source[o]]_vars
=============================================================================
