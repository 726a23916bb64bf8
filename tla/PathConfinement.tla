--------------------------- MODULE PathConfinement ---------------------------
(***************************************************************************)
(* ValidatePath (internal/validate/input.go): a path is resolved and has   *)
(* to lie in the workspace root.                                           *)
(*                                                                         *)
(* A path is the sequence of its names, with "." and ".." already taken    *)
(* out, and a name is a text: a sequence of words and marks.  A tree says  *)
(* what there is; the target of a link has no further link in it, and need *)
(* not exist.  Lstat, EvalSymlinks and MkdirAll are those of the operating *)
(* system.                                                                 *)
(***************************************************************************)
EXTENDS Integers, SequencesExt

CONSTANTS
  ReservedName   \* the base names of devices: CON, NUL, ...

Control == {"\t"}

(* filepath.Ext of a base name: what follows the last dot, and the dot.    *)
Ext(text) ==
  LET dots == {i \in DOMAIN text : text[i] = "."}
  IN IF dots = {} THEN << >>
     ELSE SubSeq(text, CHOOSE i \in dots : \A j \in dots : j <= i, Len(text))

(* ValidatePathForOS                                                       *)
IsReserved(text) ==
  \E name \in ReservedName : SubSeq(text, 1, Len(text) - Len(Ext(text))) = <<name>>

HasControl(path) == \E i \in DOMAIN path : \E j \in DOMAIN path[i] : path[i][j] \in Control

Directory == [kind |-> "directory", to |-> << >>]

File == [kind |-> "file", to |-> << >>]

Device == [kind |-> "device", to |-> << >>]

LinkTo(path) == [kind |-> "link", to |-> path]

Within(path, root) == IsPrefix(root, path)

IsLink(tree, at) == at \in DOMAIN tree /\ tree[at].kind = "link"

(* The links on the way are followed, one name after the other.            *)
Real(tree, path) ==
  LET real[n \in 0..Len(path)] ==
        IF n = 0 THEN << >>
        ELSE LET next == Append(real[n - 1], path[n])
             IN IF IsLink(tree, next) THEN tree[next].to ELSE next
  IN real[Len(path)]

Exists(tree, path) == Real(tree, path) \in DOMAIN tree

(* Where the entry of a path is, whatever the entry is: a new file is put  *)
(* there, and a rename replaces what is there.                             *)
Entry(tree, path) == Append(Real(tree, Front(path)), Last(path))

Lstat(tree, path) == path = << >> \/ Entry(tree, path) \in DOMAIN tree

IsDirectory(tree, path) ==
  LET real == Real(tree, path) IN real \in DOMAIN tree /\ tree[real].kind = "directory"

MkdirAll(tree, path) ==
  LET missing == {Real(tree, SubSeq(path, 1, n)) : n \in 1..Len(path)} \ DOMAIN tree
  IN [at \in DOMAIN tree \cup missing |-> IF at \in missing THEN Directory ELSE tree[at]]

Resolved(path) == [error |-> "none", path |-> path]

Failed(cause) == [error |-> cause, path |-> << >>]

ResolveExisting(tree, path) ==
  IF Exists(tree, path) THEN Resolved(Real(tree, path)) ELSE Failed("io")

(* Of a path that does not exist, the part that does is resolved.  The     *)
(* search for it ends at the root, which has been resolved already.        *)
ResolveMissing(tree, path, root) ==
  LET Boundary == IF Within(path, root) THEN root ELSE Real(tree, root)
      there == CHOOSE n \in Len(Boundary)..Len(path) :
                 /\ n = Len(Boundary) \/ Lstat(tree, SubSeq(path, 1, n))
                 /\ \A m \in (n + 1)..Len(path) : ~Lstat(tree, SubSeq(path, 1, m))
      parent == IF there = Len(Boundary) THEN Resolved(Real(tree, root))
                ELSE ResolveExisting(tree, SubSeq(path, 1, there))
  IN IF ~Within(path, root) /\ ~Within(path, Real(tree, root)) THEN Resolved(path)
     ELSE IF parent.error # "none" THEN parent
     ELSE Resolved(parent.path \o SubSeq(path, there + 1, Len(path)))

(* A file on the way: Lstat fails, and not because there is nothing.       *)
ThroughFile(tree, path) ==
  \E n \in 1..(Len(path) - 1) :
    LET at == SubSeq(path, 1, n) IN Exists(tree, at) /\ ~IsDirectory(tree, at)

(* Mutant: what does not exist yet is taken as it is written.              *)
ResolveCandidateAsWritten(tree, path, root) ==
  IF Lstat(tree, path) THEN ResolveExisting(tree, path) ELSE Resolved(path)

ResolveCandidate(tree, path, root) ==
  IF ThroughFile(tree, path) THEN Failed("io")
  ELSE IF Lstat(tree, path) THEN ResolveExisting(tree, path)
  ELSE ResolveMissing(tree, path, root)

(* "none", or why the path is refused.                                     *)
ValidatePath(tree, path, root) ==
  LET candidate == ResolveCandidate(tree, path, root)
  IN IF HasControl(path) THEN "control_chars_in_input"
     ELSE IF IsReserved(Last(path)) THEN "reserved_name"
     ELSE IF ~Exists(tree, root) THEN "io"
     ELSE IF candidate.error # "none" THEN candidate.error
     ELSE IF ~Within(candidate.path, Real(tree, root)) THEN "path_traversal"
     ELSE "none"
=============================================================================
