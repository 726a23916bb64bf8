---------------------------- MODULE DurableStore ----------------------------
(***************************************************************************)
(* What publishing promises, with no temporary files in sight: a store in  *)
(* which every path holds one whole content or nothing.  A call settles on *)
(* the content it offers, and at some later moment that content replaces   *)
(* what its path held, all at once, or never.  The store reaches the disk  *)
(* path by path; a power loss takes it back to what had reached it, and    *)
(* every call under way ends without publishing.                           *)
(*                                                                         *)
(* The promise is the one of docs/glyph-shift-intent.md: "Each individual  *)
(* destination file must be published fully or not published at all".      *)
(***************************************************************************)
EXTENDS Sequences

CONSTANTS
  Path,
  Op,
  Chunk,
  Absent    \* what a path without a file holds

VARIABLES
  visible,  \* [Path -> content or Absent]
  durable,  \* the part of it a power loss leaves
  offer,    \* [Op -> content or Absent]: what a call is to publish, once it knows
  status    \* [Op -> {"open", "published", "over"}]

storeVars == <<visible, durable, offer, status>>

Content == Seq(Chunk)

Held == Content \cup {Absent}

Init ==
  /\ visible \in [Path -> Held]
  /\ durable = visible
  /\ offer = [o \in Op |-> Absent]
  /\ status = [o \in Op |-> "open"]

(* The call has all of its content.                                        *)
Settle(o) ==
  /\ status[o] = "open"
  /\ offer[o] = Absent
  /\ offer'[o] \in Content
  /\ offer' = [offer EXCEPT ![o] = offer'[o]]
  /\ UNCHANGED <<visible, durable, status>>

Publish(o, p) ==
  /\ status[o] = "open"
  /\ offer[o] # Absent
  /\ status' = [status EXCEPT ![o] = "published"]
  /\ visible' = [visible EXCEPT ![p] = offer[o]]
  /\ UNCHANGED <<durable, offer>>

(* The call fails, or its process is killed; its content is forgotten.     *)
GiveUp(o) ==
  /\ status[o] = "open"
  /\ status' = [status EXCEPT ![o] = "over"]
  /\ offer' = [offer EXCEPT ![o] = Absent]
  /\ UNCHANGED <<visible, durable>>

Harden(p) ==
  /\ durable' = [durable EXCEPT ![p] = visible[p]]
  /\ UNCHANGED <<visible, offer, status>>

LosePower ==
  /\ visible' = durable
  /\ \E lost \in SUBSET {o \in Op : status[o] = "open"} :
       /\ status' = [o \in Op |-> IF o \in lost THEN "over" ELSE status[o]]
       /\ offer' = [o \in Op |-> IF o \in lost THEN Absent ELSE offer[o]]
  /\ UNCHANGED durable

Next ==
  \/ \E o \in Op : Settle(o) \/ GiveUp(o) \/ \E p \in Path : Publish(o, p)
  \/ \E p \in Path : Harden(p)
  \/ LosePower

Spec == Init /\ [][Next]_storeVars
=============================================================================
