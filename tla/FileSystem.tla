----------------------------- MODULE FileSystem -----------------------------
(***************************************************************************)
(* The part of the operating system that glyph-shift's file operations     *)
(* stand on, as internal/fileops uses it through FileSession: names, the   *)
(* files behind them, temporary files, fsync, rename, and power loss.      *)
(*                                                                         *)
(* A file is an inode.  The commands and the originals are inodes of their *)
(* own: the temporary file a command creates is named after the command,   *)
(* since a command stages at most one file at a time.  Contents are        *)
(* sequences of chunks; a chunk is whatever one write call hands over.     *)
(***************************************************************************)
EXTENDS Integers, Sequences

CONSTANTS
  Path,    \* the names files are opened and published under
  File,    \* inodes: originals, and one temporary file per command
  Chunk,   \* units of content
  NoFile   \* what a name without a file leads to

ASSUME NoFileAssumption == NoFile \notin File /\ NoFile \notin Seq(Chunk)

VARIABLES
  dir,        \* [Path -> File or NoFile], as every process sees it
  diskDir,    \* the entries of dir that would survive a power loss
  data,       \* [File -> Seq(Chunk)], as every process sees it
  synced,     \* the contents that would survive a power loss
  perm,       \* [File -> Permission]
  unsettled,  \* the files whose mode has changed since their last fsync
  temps,      \* the files that have a ".glyph-shift-*" name
  diskTemps,  \* the files that could have one after a power loss
  revived     \* history: the files that have one because a power loss brought it back

modeVars == <<perm, unsettled>>

nameVars == <<temps, diskTemps, revived>>

fsVars == <<dir, diskDir, data, synced, modeVars, nameVars>>

(* CreateTemp's 0600, the mode asked for, and 0600 again where a power     *)
(* loss took the chmod back.                                               *)
Permission == {"private", "final", "reverted"}

Content == Seq(Chunk)

Entry == File \cup {NoFile}

FileSystemTypeOK ==
  /\ dir \in [Path -> Entry]
  /\ diskDir \in [Path -> Entry]
  /\ data \in [File -> Content]
  /\ synced \in [File -> Content]
  /\ perm \in [File -> Permission]
  /\ unsettled \in SUBSET File
  /\ temps \in SUBSET File
  /\ diskTemps \in SUBSET File
  /\ revived \in SUBSET File

(* Everything on disk is settled: the state the first command finds.       *)
FileSystemInit(originals, contents) ==
  /\ dir \in [Path -> originals \cup {NoFile}]
  /\ \A p, q \in Path : dir[p] = dir[q] /\ dir[p] # NoFile => p = q
  /\ diskDir = dir
  /\ data \in [File -> contents]
  /\ \A f \in File \ originals : data[f] = << >>
  /\ synced = data
  /\ perm = [f \in File |-> IF f \in originals THEN "final" ELSE "private"]
  /\ unsettled = {}
  /\ temps = {} /\ diskTemps = {} /\ revived = {}

Linked(f) == \E p \in Path : dir[p] = f \/ diskDir[p] = f

-----------------------------------------------------------------------------
(* System calls, each a fragment of the action that makes the call.        *)

CreateTempFile(f) ==
  /\ temps' = temps \cup {f}
  /\ diskTemps' = diskTemps \cup {f}
  /\ data' = [data EXCEPT ![f] = << >>]
  /\ synced' = [synced EXCEPT ![f] = << >>]
  /\ perm' = [perm EXCEPT ![f] = "private"]
  /\ UNCHANGED <<dir, diskDir, unsettled, revived>>

SetData(f, content) ==
  /\ data' = [data EXCEPT ![f] = content]
  /\ UNCHANGED <<dir, diskDir, synced, modeVars, nameVars>>

(* fsync(2): the content and the mode.                                     *)
SyncFile(f) ==
  /\ synced' = [synced EXCEPT ![f] = data[f]]
  /\ unsettled' = unsettled \ {f}
  /\ UNCHANGED <<dir, diskDir, data, perm, nameVars>>

ChmodFile(f) ==
  /\ perm' = [perm EXCEPT ![f] = "final"]
  /\ unsettled' = unsettled \cup {f}
  /\ UNCHANGED <<dir, diskDir, data, synced, nameVars>>

(* rename(2): the temporary name goes, the destination name leads to f.    *)
RenameTemp(f, p) ==
  /\ dir' = [dir EXCEPT ![p] = f]
  /\ temps' = temps \ {f}
  /\ UNCHANGED <<diskDir, data, synced, modeVars, diskTemps, revived>>

RemoveTemp(f) ==
  /\ temps' = temps \ {f}
  /\ UNCHANGED <<dir, diskDir, data, synced, modeVars, diskTemps, revived>>

-----------------------------------------------------------------------------
(* What the system does on its own.  No code syncs a directory, so a name  *)
(* that was made, moved or removed is so on the disk only when the kernel  *)
(* has written it back; and a mode set after the last fsync of its file is *)
(* the kernel's to write as well.                                          *)

(* A rename reaches the disk: the old name goes as the new one comes.      *)
FlushEntry(p) ==
  /\ diskDir[p] # dir[p]
  /\ diskDir' = [diskDir EXCEPT ![p] = dir[p]]
  /\ diskTemps' = diskTemps \ {dir[p]}
  /\ UNCHANGED <<dir, data, synced, modeVars, temps, revived>>

WriteBack(f) ==
  /\ synced[f] # data[f]
  /\ synced' = [synced EXCEPT ![f] = data[f]]
  /\ UNCHANGED <<dir, diskDir, data, modeVars, nameVars>>

(* Directory entries and contents go back to what is on the disk.  Which   *)
(* temporary names and modes had been written back by now is left open: a  *)
(* temporary file that was removed, or renamed, may be there again, one    *)
(* that was just made may be gone, and a chmod may be undone.              *)
PowerLoss ==
  /\ dir' = diskDir
  /\ data' = synced
  /\ \E undone \in SUBSET unsettled :
       perm' = [f \in File |-> IF f \in undone THEN "reverted" ELSE perm[f]]
  /\ unsettled' = {}
  /\ temps' \in SUBSET diskTemps
  /\ diskTemps' = temps'
  /\ revived' = temps' \ (temps \ revived)
  /\ UNCHANGED <<diskDir, synced>>
=============================================================================
