----------------------------- MODULE ScanPromise -----------------------------
(***************************************************************************)
(* What ScanLineSpans promises: it hands over the lines of the source one  *)
(* by one, none left out and none twice, and its caller says what is in    *)
(* the source when there are no more.  It may give up at any time.         *)
(***************************************************************************)
EXTENDS TextLines

CONSTANTS
  Whole,      \* the outcomes that say something of the whole source
  Early       \* the others

VARIABLES
  source,
  handed,     \* the lines so far
  outcome

vars == <<source, handed, outcome>>

Reached == IF handed = << >> THEN 0 ELSE handed[Len(handed)].end

Init ==
  /\ source \in Seq(Byte)
  /\ handed = << >>
  /\ outcome = "none"

Hand ==
  /\ outcome = "none"
  /\ \E stop, end \in 0..Len(source) :
       LET l == [num |-> Len(handed) + 1, start |-> Reached, stop |-> stop, end |-> end]
       IN IsLine(source, l) /\ handed' = Append(handed, l)
  /\ UNCHANGED <<source, outcome>>

Complete ==
  /\ outcome = "none"
  /\ Reached = Len(source)
  /\ outcome' \in Whole
  /\ UNCHANGED <<source, handed>>

GiveUp ==
  /\ outcome = "none"
  /\ outcome' \in Early
  /\ UNCHANGED <<source, handed>>

Next == Hand \/ Complete \/ GiveUp

Spec == Init /\ [][Next]_vars
=============================================================================
