---------------------------- MODULE AtomicPublish ----------------------------
(***************************************************************************)
(* fileops.AtomicPublish (internal/fileops/atomic_publish.go), the one way *)
(* extract, split and blocks put a file at its destination, run by several *)
(* processes at once.  Every call of the code that can fail is a step that *)
(* succeeds or fails; a process may be killed between any two steps, and   *)
(* the machine may lose power.                                             *)
(*                                                                         *)
(* The content callback is the caller's: here it writes any chunks and     *)
(* returns nil or an error.  No caller passes a nil session or callback,   *)
(* so the early returns for those are not reachable and are left out.      *)
(***************************************************************************)
EXTENDS FileSystem

CONSTANTS
  Op,         \* calls of AtomicPublish
  MaxWrites   \* bound: writes one callback makes

ASSUME OpAssumption == Op \subseteq File

ASSUME MaxWritesAssumption == MaxWrites \in Nat

Original == File \ Op

Mode == {"create", "replace", "append"}

(* Where a call stands.  "idle" has not been made, "returned" has an       *)
(* outcome, "dead" is a process that was killed or lost its power.         *)
Stage == {"idle", "probe", "createTemp", "openExisting", "copy", "write",
          "sync", "close", "chmod", "rename", "cleanupClose", "cleanupRemove",
          "returned", "dead"}

Outcome == {"none", "ok", "exists", "error", "leaked"}

VARIABLES
  mode,       \* opts.Mode
  path,       \* opts.Path
  pc,
  outcome,    \* what the call returned; "leaked": the error of a failed removal is joined
  existing,   \* the file an append opened to copy from
  base,       \* history: what an append copied
  written,    \* history: what the callback wrote
  found       \* history: what the path led to when the call was made

opVars == <<mode, path, pc, outcome, existing, base, written, found>>

vars == <<fsVars, opVars>>

PublishTypeOK ==
  /\ FileSystemTypeOK
  /\ mode \in [Op -> Mode]
  /\ path \in [Op -> Path]
  /\ pc \in [Op -> Stage]
  /\ outcome \in [Op -> Outcome]
  /\ existing \in [Op -> Entry]
  /\ \A o \in Op : pc[o] = "copy" => existing[o] \in File
  /\ base \in [Op -> Content]
  /\ written \in [Op -> Content]
  /\ found \in [Op -> Entry]

Init ==
  /\ FileSystemInit(Original, {<< >>} \cup {<<c>> : c \in Chunk})
  /\ mode \in [Op -> Mode]
  /\ path \in [Op -> Path]
  /\ pc = [o \in Op |-> "idle"]
  /\ outcome = [o \in Op |-> "none"]
  /\ existing = [o \in Op |-> NoFile]
  /\ base = [o \in Op |-> << >>]
  /\ written = [o \in Op |-> << >>]
  /\ found = [o \in Op |-> NoFile]

-----------------------------------------------------------------------------
Goto(o, stage) ==
  /\ pc' = [pc EXCEPT ![o] = stage]
  /\ UNCHANGED outcome

Return(o, result) ==
  /\ pc' = [pc EXCEPT ![o] = "returned"]
  /\ outcome' = [outcome EXCEPT ![o] = result]

(* An error after the temporary file exists runs the deferred clean-up,    *)
(* which closes the file first unless it has been closed already.          *)
FailOpen(o) == Goto(o, "cleanupClose")

(* Mutant: the error is returned without the clean-up.                     *)
FailClosedAtOnce(o) == Return(o, "error")

FailClosed(o) == Goto(o, "cleanupRemove")

(* Mutant: create mode does not look whether the destination is there.     *)
StartUnprobed(o) ==
  /\ pc[o] = "idle"
  /\ found' = [found EXCEPT ![o] = dir[path[o]]]
  /\ Goto(o, "createTemp")
  /\ UNCHANGED <<fsVars, mode, path, existing, base, written>>

(* The call is made.                                                       *)
Start(o) ==
  /\ pc[o] = "idle"
  /\ found' = [found EXCEPT ![o] = dir[path[o]]]
  /\ Goto(o, IF mode[o] = "create" THEN "probe" ELSE "createTemp")
  /\ UNCHANGED <<fsVars, mode, path, existing, base, written>>

(* Create mode opens the destination for reading to learn whether it is    *)
(* there.  Nothing holds that answer true until the rename.                *)
Probe(o) ==
  /\ pc[o] = "probe"
  /\ \/ dir[path[o]] = NoFile /\ Goto(o, "createTemp")
     \/ dir[path[o]] # NoFile /\ Return(o, "exists")
     \/ Return(o, "error")
  /\ UNCHANGED <<fsVars, mode, path, existing, base, written, found>>

CreateTemp(o) ==
  /\ pc[o] = "createTemp"
  /\ \/ /\ CreateTempFile(o)
        /\ Goto(o, IF mode[o] = "append" THEN "openExisting" ELSE "write")
     \/ Return(o, "error") /\ UNCHANGED fsVars
  /\ UNCHANGED <<mode, path, existing, base, written, found>>

(* Mutant: an append takes a missing destination for one it can copy.      *)
OpenExistingUnchecked(o) ==
  /\ pc[o] = "openExisting"
  /\ \/ /\ existing' = [existing EXCEPT ![o] = dir[path[o]]]
        /\ Goto(o, "copy")
     \/ FailOpen(o) /\ UNCHANGED existing
  /\ UNCHANGED <<fsVars, mode, path, base, written, found>>

OpenExisting(o) ==
  /\ pc[o] = "openExisting"
  /\ \/ /\ dir[path[o]] # NoFile
        /\ existing' = [existing EXCEPT ![o] = dir[path[o]]]
        /\ Goto(o, "copy")
     \/ /\ dir[path[o]] = NoFile
        /\ Goto(o, "write")
        /\ UNCHANGED existing
     \/ FailOpen(o) /\ UNCHANGED existing
  /\ UNCHANGED <<fsVars, mode, path, base, written, found>>

(* The whole file is copied, or some of it and then an error.              *)
CopyExisting(o) ==
  /\ pc[o] = "copy"
  /\ LET content == data[existing[o]]
     IN \/ /\ SetData(o, content)
           /\ base' = [base EXCEPT ![o] = content]
           /\ Goto(o, "write")
        \/ /\ \E n \in 0..Len(content) : SetData(o, SubSeq(content, 1, n))
           /\ FailOpen(o)
           /\ UNCHANGED base
  /\ UNCHANGED <<mode, path, existing, written, found>>

(* Mutant: an append writes to the end of the destination itself.          *)
WriteChunkInPlace(o, c) ==
  /\ pc[o] = "write"
  /\ Len(written[o]) < MaxWrites
  /\ LET f == IF mode[o] = "append" /\ existing[o] # NoFile THEN existing[o] ELSE o
     IN SetData(f, Append(data[f], c))
  /\ written' = [written EXCEPT ![o] = Append(@, c)]
  /\ UNCHANGED <<pc, outcome, mode, path, existing, base, found>>

(* The callback writes a chunk.  A write that fails may have written it    *)
(* all the same; the callback then returns the error.                      *)
WriteChunk(o, c) ==
  /\ pc[o] = "write"
  /\ Len(written[o]) < MaxWrites
  /\ \/ /\ SetData(o, Append(data[o], c))
        /\ written' = [written EXCEPT ![o] = Append(@, c)]
        /\ UNCHANGED <<pc, outcome>>
     \/ /\ SetData(o, Append(data[o], c))
        /\ FailOpen(o)
        /\ UNCHANGED written
  /\ UNCHANGED <<mode, path, existing, base, found>>

CallbackReturns(o) ==
  /\ pc[o] = "write"
  /\ Goto(o, "sync") \/ FailOpen(o)
  /\ UNCHANGED <<fsVars, mode, path, existing, base, written, found>>

(* Mutant: the file is closed without an fsync.                            *)
SyncTempSkipped(o) ==
  /\ pc[o] = "sync"
  /\ Goto(o, "close")
  /\ UNCHANGED <<fsVars, mode, path, existing, base, written, found>>

SyncTemp(o) ==
  /\ pc[o] = "sync"
  /\ \/ SyncFile(o) /\ Goto(o, "close")
     \/ UNCHANGED fsVars /\ FailOpen(o)
  /\ UNCHANGED <<mode, path, existing, base, written, found>>

(* A failed Close counts as closed.                                        *)
CloseTemp(o) ==
  /\ pc[o] = "close"
  /\ Goto(o, "chmod") \/ FailClosed(o)
  /\ UNCHANGED <<fsVars, mode, path, existing, base, written, found>>

ChmodTemp(o) ==
  /\ pc[o] = "chmod"
  /\ \/ ChmodFile(o) /\ Goto(o, "rename")
     \/ UNCHANGED fsVars /\ FailClosed(o)
  /\ UNCHANGED <<mode, path, existing, base, written, found>>

(* Mutant: the error of the rename is dropped.                             *)
RenameUnchecked(o) ==
  /\ pc[o] = "rename"
  /\ RenameTemp(o, path[o]) \/ UNCHANGED fsVars
  /\ Return(o, "ok")
  /\ UNCHANGED <<mode, path, existing, base, written, found>>

Rename(o) ==
  /\ pc[o] = "rename"
  /\ \/ RenameTemp(o, path[o]) /\ Return(o, "ok")
     \/ UNCHANGED fsVars /\ FailClosed(o)
  /\ UNCHANGED <<mode, path, existing, base, written, found>>

CleanupClose(o) ==
  /\ pc[o] = "cleanupClose"
  /\ Goto(o, "cleanupRemove")
  /\ UNCHANGED <<fsVars, mode, path, existing, base, written, found>>

(* Mutant: a removal that fails is tried again.                            *)
CleanupRemoveRetried(o) ==
  /\ pc[o] = "cleanupRemove"
  /\ \/ RemoveTemp(o) /\ Return(o, "error")
     \/ UNCHANGED fsVars /\ Goto(o, "cleanupClose")
  /\ UNCHANGED <<mode, path, existing, base, written, found>>

CleanupRemove(o) ==
  /\ pc[o] = "cleanupRemove"
  /\ \/ RemoveTemp(o) /\ Return(o, "error")
     \/ UNCHANGED fsVars /\ Return(o, "leaked")
  /\ UNCHANGED <<mode, path, existing, base, written, found>>

(* What the process running o does next.                                   *)
Step(o) ==
  \/ Probe(o)
  \/ CreateTemp(o)
  \/ OpenExisting(o)
  \/ CopyExisting(o)
  \/ \E c \in Chunk : WriteChunk(o, c)
  \/ CallbackReturns(o)
  \/ SyncTemp(o)
  \/ CloseTemp(o)
  \/ ChmodTemp(o)
  \/ Rename(o)
  \/ CleanupClose(o)
  \/ CleanupRemove(o)

InProgress(o) == pc[o] \notin {"idle", "returned", "dead"}

(* The process is killed: nothing of the clean-up runs.                    *)
Kill(o) ==
  /\ InProgress(o)
  /\ Goto(o, "dead")
  /\ UNCHANGED <<fsVars, mode, path, existing, base, written, found>>

PowerFailure ==
  /\ PowerLoss
  /\ pc' = [o \in Op |-> IF InProgress(o) THEN "dead" ELSE pc[o]]
  /\ UNCHANGED <<mode, path, outcome, existing, base, written, found>>

Kernel ==
  /\ (\E p \in Path : FlushEntry(p)) \/ (\E o \in Op : WriteBack(o))
  /\ UNCHANGED opVars

Next ==
  \/ \E o \in Op : Start(o) \/ Step(o) \/ Kill(o)
  \/ PowerFailure
  \/ Kernel

(* A process that is not killed keeps running its code.                    *)
Spec == Init /\ [][Next]_vars /\ \A o \in Op : WF_vars(Step(o))

-----------------------------------------------------------------------------
(* What the caller asked to have at the destination.                       *)
Whole(o) == base[o] \o written[o]

(* Whatever a path leads to, now or after a power loss, is an original or  *)
(* the whole content of a call that returned ok: fsynced, with the mode    *)
(* asked for unless a power loss took the chmod back, which comes after    *)
(* the only fsync.  (atomicPublishAfterTempOpen: write, sync, close, chmod *)
(* and only then rename; "must not expose partial destination contents".)  *)
PublishedIsWhole ==
  \A o \in Op : Linked(o) =>
    /\ outcome[o] = "ok"
    /\ data[o] = Whole(o)
    /\ synced[o] = data[o]
    /\ perm[o] \in {"final", "reverted"}

(* A call that came back, or never started, leaves no temporary file,      *)
(* unless it was killed, or told its caller that the removal failed, or a  *)
(* power loss undid the removal, or the rename of a call that succeeded,   *)
(* whose path then leads elsewhere (cleanupAtomicTempOnError on every      *)
(* error path; the rename on success; no directory is ever fsynced).       *)
TempsAccountedFor ==
  \A o \in temps :
    \/ InProgress(o)
    \/ pc[o] = "dead"
    \/ outcome[o] = "leaked"
    \/ o \in revived /\ (outcome[o] = "ok" => dir[path[o]] # o)

(* Create mode never publishes where the call found a file already         *)
(* (atomicPublishRejectExistingWhenCreate runs before anything else).      *)
CreateRefusesWhatItFound ==
  \A o \in Op : mode[o] = "create" /\ found[o] # NoFile =>
                  outcome[o] # "ok" /\ ~Linked(o)

(* The file a path leads to never changes under whoever has it open: every *)
(* mode, append included, writes to a file that has no path yet.  A power  *)
(* loss takes nothing from it either.                                      *)
PublishedIsFrozen ==
  [][\A f \in File : (\E p \in Path : dir[p] = f) => data'[f] = data[f]]_vars

(* Without --force and --append a destination that is there is refused     *)
(* (docs/glyph-shift-intent.md: "Refuse to overwrite unless --force").     *)
NeverOverwritesUnforced ==
  [][\A o \in Op :
       mode[o] = "create" /\ pc[o] = "rename" /\ outcome'[o] = "ok"
         => dir[path[o]] = NoFile]_vars

(* A call that was made comes back, whatever fails in it.                  *)
EveryCallReturns == \A o \in Op : InProgress(o) ~> ~InProgress(o)

-----------------------------------------------------------------------------
(* AtomicPublish implements the store: a path holds the content of the     *)
(* file it leads to, and a call's offer is known once its callback is done.*)

Absent == NoFile

Held(entries, contents) ==
  [p \in Path |-> IF entries[p] = NoFile THEN Absent ELSE contents[entries[p]]]

Settled(o) ==
  pc[o] \in {"sync", "close", "chmod", "rename"} \/ outcome[o] = "ok"

OfferOf(o) == IF Settled(o) THEN Whole(o) ELSE Absent

StatusOf(o) ==
  IF outcome[o] = "ok" THEN "published"
  ELSE IF pc[o] \in {"cleanupClose", "cleanupRemove", "returned", "dead"}
       THEN "over"
       ELSE "open"

Store == INSTANCE DurableStore WITH
  visible <- Held(dir, data),
  durable <- Held(diskDir, synced),
  offer <- [o \in Op |-> OfferOf(o)],
  status <- [o \in Op |-> StatusOf(o)]

(* Every step of every call, and every failure, is a step of the store or  *)
(* changes nothing in it.                                                  *)
ImplementsDurableStore == Store!Spec
=============================================================================
