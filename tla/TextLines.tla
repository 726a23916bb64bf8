------------------------------ MODULE TextLines ------------------------------
(***************************************************************************)
(* The lines of a source, and the patterns that a line is matched with     *)
(* (internal/fileops).  A line ends with LF, with CR, or with CR LF, and   *)
(* the last one may have no end.  Offsets count the bytes before a place.  *)
(***************************************************************************)
EXTENDS Integers, SequencesExt

CONSTANTS
  Byte,
  CR,
  LF

ASSUME ByteAssumption == {CR, LF} \subseteq Byte /\ CR # LF

Offset == Nat

(* LineSpan, without the kind of the terminator: [stop, end) holds it.     *)
Line == [num : Nat \ {0}, start : Offset, stop : Offset, end : Offset]

Bytes(s, from, to) == SubSeq(s, from + 1, to)

Content(s, l) == Bytes(s, l.start, l.stop)

Serialized(s, l) == Bytes(s, l.start, l.end)

Plain(s, from, to) == \A i \in (from + 1)..to : s[i] \notin {CR, LF}

(* What l has to be, for a scan to call it the line that starts at l.start.*)
IsLine(s, l) ==
  /\ l.start <= l.stop
  /\ l.stop <= l.end
  /\ l.start < l.end
  /\ l.end <= Len(s)
  /\ Plain(s, l.start, l.stop)
  /\ \/ l.end = l.stop /\ l.stop = Len(s)
     \/ l.end = l.stop + 1 /\ s[l.end] = LF
     \/ l.end = l.stop + 1 /\ s[l.end] = CR /\ (l.end < Len(s) => s[l.end + 1] # LF)
     \/ l.end = l.stop + 2 /\ s[l.stop + 1] = CR /\ s[l.end] = LF

-----------------------------------------------------------------------------
(* The patterns: ^text$ is "exact", text is "literal", and text$, "tail",  *)
(* stands for those that only the regexp engine can match.                 *)
Pattern == [kind : {"exact", "literal", "tail"}, text : Seq(Byte)]

Matches(p, content) ==
  CASE p.kind = "exact" -> content = p.text
    [] p.kind = "literal" -> p.text \in SubSeqs(content)
    [] p.kind = "tail" -> IsSuffix(p.text, content)

(* Where the first match ends, for a content that matches.                 *)
MatchEnd(p, content) ==
  IF p.kind = "literal"
  THEN CHOOSE i \in Len(p.text)..Len(content) :
         /\ IsSuffix(p.text, SubSeq(content, 1, i))
         /\ \A j \in Len(p.text)..(i - 1) : ~IsSuffix(p.text, SubSeq(content, 1, j))
  ELSE Len(content)
=============================================================================
