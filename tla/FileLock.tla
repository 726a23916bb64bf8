------------------------------ MODULE FileLock ------------------------------
(***************************************************************************)
(* flock(2) as internal/fileops/filelock_unix.go calls it: advisory locks  *)
(* on files, not on names, one handle per command and file.  A lock that   *)
(* cannot be had makes its caller wait.  Closing the handle, or the death  *)
(* of the process, releases it.                                            *)
(***************************************************************************)
VARIABLES
  shared,     \* pairs <<file, command>> holding LOCK_SH
  exclusive   \* pairs <<file, command>> holding LOCK_EX

lockVars == <<shared, exclusive>>

FileLockTypeOK(files, commands) ==
  /\ shared \subseteq files \X commands
  /\ exclusive \subseteq files \X commands

NoLocks == shared = {} /\ exclusive = {}

LockShared(f, o) ==
  /\ \A lock \in exclusive : lock[1] # f
  /\ shared' = shared \cup {<<f, o>>}
  /\ UNCHANGED exclusive

LockExclusive(f, o) ==
  /\ \A lock \in shared \cup exclusive : lock[1] # f
  /\ exclusive' = exclusive \cup {<<f, o>>}
  /\ UNCHANGED shared

(* The handles of these commands are closed.                               *)
ReleaseLocks(commands) ==
  /\ shared' = {lock \in shared : lock[2] \notin commands}
  /\ exclusive' = {lock \in exclusive : lock[2] \notin commands}
=============================================================================
