---------------------------- MODULE SnapshotStore ----------------------------
(***************************************************************************)
(* What transforming files in place promises when every program that       *)
(* writes to them does it through glyph-shift.  A call takes the whole     *)
(* content of its path at one moment, and commits the transformation of    *)
(* exactly that content at one later moment, or never.  Nothing promises   *)
(* that the path still holds what was taken: the last commit wins.         *)
(***************************************************************************)
EXTENDS Integers, Sequences

CONSTANTS
  Path,
  Op,
  Chunk,
  Effect,   \* Effect[o][c]: what the transform of o makes of c
  Absent    \* what a path without a file holds, and a call that took nothing

VARIABLES
  target,    \* [Op -> Path]
  visible,   \* [Path -> content or Absent]
  durable,   \* the part of it a power loss leaves
  snapshot,  \* [Op -> content or Absent]
  status     \* [Op -> {"open", "committed", "over"}]

storeVars == <<target, visible, durable, snapshot, status>>

Content == Seq(Chunk)

Held == Content \cup {Absent}

Init ==
  /\ target \in [Op -> Path]
  /\ visible \in [Path -> Held]
  /\ durable = visible
  /\ snapshot = [o \in Op |-> Absent]
  /\ status = [o \in Op |-> "open"]

Take(o) ==
  /\ status[o] = "open"
  /\ snapshot[o] = Absent
  /\ visible[target[o]] # Absent
  /\ snapshot' = [snapshot EXCEPT ![o] = visible[target[o]]]
  /\ UNCHANGED <<target, visible, durable, status>>

Commit(o) ==
  /\ status[o] = "open"
  /\ snapshot[o] # Absent
  /\ status' = [status EXCEPT ![o] = "committed"]
  /\ visible' = [visible EXCEPT ![target[o]] =
                   [i \in 1..Len(snapshot[o]) |-> Effect[o][snapshot[o][i]]]]
  /\ UNCHANGED <<target, durable, snapshot>>

GiveUp(o) ==
  /\ status[o] = "open"
  /\ status' = [status EXCEPT ![o] = "over"]
  /\ UNCHANGED <<target, visible, durable, snapshot>>

Harden(p) ==
  /\ durable' = [durable EXCEPT ![p] = visible[p]]
  /\ UNCHANGED <<target, visible, snapshot, status>>

LosePower ==
  /\ visible' = durable
  /\ \E lost \in SUBSET {o \in Op : status[o] = "open"} :
       status' = [o \in Op |-> IF o \in lost THEN "over" ELSE status[o]]
  /\ UNCHANGED <<target, durable, snapshot>>

Next ==
  \/ \E o \in Op : Take(o) \/ Commit(o) \/ GiveUp(o)
  \/ \E p \in Path : Harden(p)
  \/ LosePower

Spec == Init /\ [][Next]_storeVars
=============================================================================
