---------------------------- MODULE SpanSections ----------------------------
(***************************************************************************)
(* The requests of extract, split and blocks, and what they ask for: which *)
(* parts of a source go to which outputs, said without scanning.           *)
(*                                                                         *)
(* A source is a sequence of cells.  For split and blocks a cell is a line *)
(* and the patterns are the sets of lines they match.  For extract a cell  *)
(* is a piece of a line, and closes are the pieces that end one.           *)
(***************************************************************************)
EXTENDS Integers, SequencesExt

CONSTANTS
  Cell,
  Path

Command == {"extract", "split", "blocks"}

Request ==
  [op : Command,
   opens : SUBSET Cell,   \* --delimiter, or --start-line
   closes : SUBSET Cell,  \* --end-line, or the ends of lines
   bare : BOOLEAN,        \* --strip-delimiter, or no --include-delimiters
   first : Nat,           \* --lines, 0 where it is open
   last : Nat,
   dest : Seq(Path),      \* the outputs in order, as many as --max-files allows
   names : Nat,           \* how many --names, 0 for none
   force : BOOLEAN,
   append : BOOLEAN,
   mkdir : BOOLEAN,
   preview : BOOLEAN]

Creates(r) == ~r.force /\ ~r.append

-----------------------------------------------------------------------------
(* Every cell that goes to an output has the number of a part of the       *)
(* source, and the outputs are the parts in order.                         *)

LineOf(r, s, i) == 1 + Cardinality({j \in 1..(i - 1) : s[j] \in r.closes})

SplitPart(r, s, i) == Cardinality({j \in 1..i : s[j] \in r.opens})

(* Whether line i is inside a block, its end included.                     *)
InBlock(r, s) ==
  LET in[i \in 1..(Len(s) + 1)] ==
        /\ i > 1
        /\ IF in[i - 1] THEN s[i - 1] \notin r.closes ELSE s[i - 1] \in r.opens
  IN in

BlockEnds(r, s) == {i \in 1..Len(s) : InBlock(r, s)[i] /\ s[i] \in r.closes}

BlockStarts(r, s) == {i \in 1..Len(s) : ~InBlock(r, s)[i] /\ s[i] \in r.opens}

BlockPart(r, s, i) ==
  Cardinality({j \in BlockStarts(r, s) : IF r.bare THEN j < i ELSE j <= i})

(* A block with nothing between its delimiters has no output.              *)
InOutput(r, s, i) ==
  CASE r.op = "extract" ->
         r.first <= LineOf(r, s, i) /\ (r.last # 0 => LineOf(r, s, i) <= r.last)
    [] r.op = "split" -> ~(r.bare /\ s[i] \in r.opens)
    [] r.op = "blocks" ->
         LET in == InBlock(r, s)
             starts == BlockStarts(r, s)
             ends == BlockEnds(r, s)
         IN \/ in[i] /\ i \notin ends
            \/ ~r.bare /\ i \in starts /\ (i + 1) \notin ends
            \/ ~r.bare /\ i \in ends /\ (i - 1) \notin starts

PartOf(r, s, i) ==
  CASE r.op = "extract" -> 1
    [] r.op = "split" -> SplitPart(r, s, i)
    [] r.op = "blocks" -> BlockPart(r, s, i)

CellsOf(r, s, part) ==
  {i \in 1..Len(s) : InOutput(r, s, i) /\ PartOf(r, s, i) = part}

Parts(r, s) == {part \in 0..Len(s) : CellsOf(r, s, part) # {}}

(* The members of a finite set of numbers, in order.                       *)
InOrder(S) ==
  [k \in 1..Cardinality(S) |-> CHOOSE n \in S : Cardinality({m \in S : m < n}) = k - 1]

Sections(r, s) ==
  LET parts == InOrder(Parts(r, s))
      content(part) ==
        LET cells == InOrder(CellsOf(r, s, part))
        IN [k \in DOMAIN cells |-> s[cells[k]]]
  IN [k \in DOMAIN parts |-> content(parts[k])]
=============================================================================
