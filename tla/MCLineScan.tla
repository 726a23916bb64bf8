----------------------------- MODULE MCLineScan -----------------------------
EXTENDS LineScan, TLC

CONSTANTS cr, lf, x, y, dot, con, sp

Literal(t) == [kind |-> "literal", text |-> t]

Exact(t) == [kind |-> "exact", text |-> t]

Ending(t) == [kind |-> "tail", text |-> t]

Bytes_ == {cr, lf, x, y, dot, con, sp, 2, -1}

ReservedNames == {<<con>>}

Split(s, p) ==
  [source |-> s, op |-> "split", opens |-> p, closes |-> p, bare |-> FALSE,
   naming |-> "sequential", max |-> 0, lines |-> << >>]

Blocks(s, p, q) == [Split(s, p) EXCEPT !.op = "blocks", !.closes = q]

Extract(s, text) == [Split(s, Exact(<<x>>)) EXCEPT !.op = "extract", !.lines = text]

Bare(j) == [j EXCEPT !.bare = TRUE]

Naming(j, how) == [j EXCEPT !.naming = how]

(* The ends of lines, in every order and at every place of the window.     *)
EndsOfLines == {<<x, cr, lf, y, lf, x>>, <<cr, cr, lf, x, cr>>, <<lf, cr, x, lf>>, << >>}

Sectioned == <<y, lf, x, lf, y, cr, lf, x>>

(* Names that meet: x, x 2 and x; the first ordinal, and 001; and two that *)
(* have to give way to an ordinal.                                         *)
Meeting == <<x, lf, x, 2, lf, x, lf>>

Numbers == <<dot, lf, -1, lf, con>>

(* Delimiters that are followed by nothing but spaces, by a word, and by   *)
(* more than a name is made of.                                            *)
Headed == <<x, sp, lf, y, lf, x, sp, y, lf, x, sp, sp, sp, y, lf, dot>>

TwoBlocks == <<x, lf, y, lf, dot, lf, x, lf, dot, lf, x, cr, y, cr, dot>>

Jobs_ ==
  UNION {
    {Split(s, p) : s \in EndsOfLines, p \in {Exact(<<x>>), Ending(<<x>>)}},
    {Extract(s, text) : s \in EndsOfLines, text \in {<<2, Hyphen, 2>>, <<2, Hyphen>>}},
    {Extract(<<x, cr, lf, y, lf, x>>, text) : text \in {<<Hyphen, 2>>, <<2, Hyphen, Hyphen, 3>>}},
    {Naming(j, how) : j \in {Split(Sectioned, Ending(<<x>>)), Bare(Split(Sectioned, Literal(<<x>>)))},
                        how \in Strategy},
    {[Split(Sectioned, Exact(<<x>>)) EXCEPT !.max = n] : n \in {1, 2, 3}},
    {Naming(Split(Meeting, Literal(<<x>>)), "delimiter"),
     Naming(Split(Numbers, Ending(<< dot >>)), "delimiter")},
    {Naming(Split(Numbers, Literal(<<p>>)), "content") : p \in {dot, con}},
    {Naming(Split(Headed, Literal(<<x>>)), how) : how \in {"content", "delimiter"}},
    {Naming(b, how) : b \in {Blocks(TwoBlocks, Exact(<<x>>), Exact(<<dot>>)),
                             Bare(Blocks(TwoBlocks, Literal(<<x>>), Literal(<<dot>>)))},
                      how \in {"delimiter", "content"}},
    {[Blocks(TwoBlocks, Exact(<<x>>), Ending(<<dot>>)) EXCEPT !.max = 1]},
    {Blocks(<<x, x, y, lf, y, lf, x>>, Literal(<<x, y>>), Exact(<<x>>))}}
=============================================================================
