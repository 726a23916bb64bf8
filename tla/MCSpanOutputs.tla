--------------------------- MODULE MCSpanOutputs ---------------------------
EXTENDS SpanOutputs, TLC

CONSTANTS c1, c2, c3, w, mark, end, text, p1, p2

Split ==
  [op |-> "split", opens |-> {mark}, closes |-> {}, bare |-> FALSE, first |-> 0, last |-> 0,
   dest |-> <<p1, p2>>, names |-> 0, force |-> FALSE, append |-> FALSE,
   mkdir |-> FALSE, preview |-> FALSE]

Blocks == [Split EXCEPT !.op = "blocks", !.closes = {end}]

Extract == [Split EXCEPT !.op = "extract", !.opens = {}, !.closes = {end}, !.dest = <<p1>>]

Preview(r) == [r EXCEPT !.preview = TRUE]

Bare(r) == [r EXCEPT !.bare = TRUE]

Second == [Extract EXCEPT !.first = 2, !.last = 2, !.append = TRUE]

Backwards == [Extract EXCEPT !.first = 2, !.last = 1]

Rest == [Extract EXCEPT !.first = 2]

Force(r) == [r EXCEPT !.force = TRUE]

Mkdirs(r) == [r EXCEPT !.mkdir = TRUE]

Texts == {<<text, mark, end>>, <<mark, mark, end>>, <<mark, text, end, mark>>}

(* One command, and editors: the source is written to twice, and its first *)
(* value may come back.                                                    *)
Alone(r, s) ==
  [source |-> s, calls |-> {c3}, req |-> [c \in Call |-> r], edits |-> 2, others |-> 0,
   folder |-> "open", taken |-> {}]

(* Two calls of the server; somebody else may put a file in their way.     *)
Pair(r1, r2, s) ==
  [source |-> s, calls |-> {c1, c2}, req |-> (c1 :> r1) @@ [c \in Call |-> r2],
   edits |-> 0, others |-> 1, folder |-> "open", taken |-> {}]

(* And a call that waits for a transform, with the mutex locked.           *)
Waiting(r1, r2, s) == [Pair(r1, r2, s) EXCEPT !.calls = @ \cup {w}, !.others = 0]

(* A call of the server, and a command at the same time.                   *)
Beside(r1, r2, s) == [Pair(r1, r2, s) EXCEPT !.calls = {c1, c3}, !.others = 0]

(* A preview and its apply, with no directory for the outputs, with one    *)
(* that takes no files, and with directories in the place of outputs.      *)
Hindrance(r, s) ==
  LET pair == [Pair(Preview(r), r, s) EXCEPT !.others = 0]
  IN {[pair EXCEPT !.folder = "missing"],
      [pair EXCEPT !.folder = "sealed"],
      [pair EXCEPT !.taken = {p1}],
      [pair EXCEPT !.taken = {p2}]}

TwoBlocks == <<mark, text, end, mark, text, end>>

Loads ==
  UNION {
    {Alone(Split, s) : s \in Texts},
    {Alone(r, <<mark, text, end, mark>>) : r \in {Bare(Split), Bare(Blocks), Second}},
    {Pair(Preview(r), r, s) : r \in {Split, Blocks, Second, Rest},
                              s \in {<<mark, text, end, mark>>, <<text, end>>}},
    {Pair(Split, Split, s) : s \in Texts},
    {Waiting([Bare(Blocks) EXCEPT !.names = 1], Rest, s) : s \in Texts},
    {Alone(Bare(Split), <<text, mark, text, mark>>)},
    UNION {Hindrance(r, <<mark, text, end, mark>>) : r \in {Split, Force(Split), Mkdirs(Split), Second}},
    Hindrance(Blocks, <<mark, end>>),
    {[Beside(Mkdirs(Split), Rest, <<mark, mark, end>>) EXCEPT !.folder = "missing"],
     Pair(Force(Split), Bare(Split), <<mark, mark, end>>),
     Pair([Blocks EXCEPT !.dest = <<p2>>], Bare(Blocks), TwoBlocks),
     Pair(Preview(Backwards), Backwards, <<text, end>>),
     Beside(Split, Second, <<mark, mark, end>>)}}
=============================================================================
