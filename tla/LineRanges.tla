------------------------------ MODULE LineRanges ------------------------------
(***************************************************************************)
(* The value of --lines (internal/linparse): "45-120", "45-" or "-10".  A  *)
(* text is the sequence of its numbers and hyphens.  What is read is a     *)
(* start and an end, with 0 for one that is open.                          *)
(***************************************************************************)
EXTENDS Integers, SequencesExt

Hyphen == -1

LineRangeText == Seq(Nat \cup {Hyphen})

(* strconv.Atoi takes a number with a sign.                                *)
IsInteger(text) ==
  /\ Len(text) \in {1, 2}
  /\ Last(text) # Hyphen
  /\ Len(text) = 2 => text[1] = Hyphen

IntegerOf(text) == IF Len(text) = 1 THEN text[1] ELSE -text[2]

Lines(start, end) == [valid |-> TRUE, start |-> start, end |-> end]

InvalidLines == [valid |-> FALSE, start |-> 0, end |-> 0]

OpenStart(text) == text[1] = Hyphen /\ \A i \in 2..Len(text) : text[i] # Hyphen

ParseOpenStart(text) ==
  IF IsInteger(Tail(text)) THEN Lines(0, IntegerOf(Tail(text))) ELSE InvalidLines

OpenEnd(text) == Last(text) = Hyphen

ParseOpenEnd(text) ==
  IF IsInteger(Front(text)) THEN Lines(IntegerOf(Front(text)), 0) ELSE InvalidLines

(* The first hyphen parts the two numbers.                                 *)
ParseClosed(text) ==
  LET Before(cut) == SubSeq(text, 1, cut - 1)
      After(cut) == SubSeq(text, cut + 1, Len(text))
      cuts == {i \in DOMAIN text : /\ text[i] = Hyphen
                                   /\ \A j \in 1..(i - 1) : text[j] # Hyphen
                                   /\ IsInteger(Before(i))
                                   /\ IsInteger(After(i))}
  IN IF cuts = {} THEN InvalidLines
     ELSE LET cut == CHOOSE i \in cuts : TRUE
          IN Lines(IntegerOf(Before(cut)), IntegerOf(After(cut)))

ParseCLIRange(text) ==
  IF text = << >> THEN InvalidLines
  ELSE IF OpenStart(text) THEN ParseOpenStart(text)
  ELSE IF OpenEnd(text) THEN ParseOpenEnd(text)
  ELSE ParseClosed(text)
=============================================================================
