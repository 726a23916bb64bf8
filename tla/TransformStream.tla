--------------------------- MODULE TransformStream ---------------------------
(***************************************************************************)
(* runTransformStream (internal/fileops/transform_stream*.go): the byte    *)
(* automaton that both passes of a transform run over a source.  The pass  *)
(* that measures counts what would change; if anything would, the pass     *)
(* that writes produces the new content.  Neither keeps a line in memory:  *)
(* blanks that may turn out to be trailing are held back in a buffer, and  *)
(* the older half of a full buffer is spilled to a scratch file.           *)
(*                                                                         *)
(* A read, a write, the scratch file or the context can fail a pass at any *)
(* byte.  The result of a transform can be transformed again.              *)
(***************************************************************************)
EXTENDS Integers, SequencesExt

CONSTANTS
  CR, LF,      \* the two bytes of line terminators
  Blank,       \* space and tab
  Letter,      \* every other byte
  Sources,     \* the contents to transform
  MaxBuf       \* pendingWhitespace.maxBufBytes

Byte == {CR, LF} \cup Blank \cup Letter

ASSUME ByteAssumption ==
  /\ CR # LF
  /\ {CR, LF} \cap (Blank \cup Letter) = {}
  /\ Blank \cap Letter = {}

ASSUME SourcesAssumption == Sources \subseteq Seq(Byte)

ASSUME MaxBufAssumption == MaxBuf \in Nat \ {0}

LineEnding == {"keep", "lf", "crlf", "cr"}

(* transformOptsActive: a call with nothing to do never gets here.         *)
TransformOptions ==
  [endings : LineEnding, trim : BOOLEAN, final : BOOLEAN]
    \ {[endings |-> "keep", trim |-> FALSE, final |-> FALSE]}

Terminator == {<<LF>>, <<CR>>, <<CR, LF>>}

VARIABLES
  opts,
  source,
  pass,      \* "measure", "write", "done" or "failed"
  pos,       \* bytes read
  line,      \* the automaton: see Stream
  measured,  \* what the measuring pass counted
  repeated,  \* history: this transform repeats an earlier one,
  first      \* and the source and the result of that one

vars == <<opts, source, pass, pos, line, measured, repeated, first>>

Stats == [found : [Terminator -> Nat], changed : Nat, trimmed : Nat, final : BOOLEAN]

Stream ==
  [run : Nat,           \* trimTrailingRun, counted when nothing is written
   spilled : Seq(Byte), \* the bytes in the scratch file
   buf : Seq(Byte),     \* pending.buf
   body : Nat,          \* lineBodyBytes
   out : Seq(Byte),     \* what went to the writer
   res : Stats]

StreamTypeOK ==
  /\ opts \in TransformOptions
  /\ source \in Seq(Byte)
  /\ pass \in {"measure", "write", "done", "failed"}
  /\ pos \in 0..Len(source)
  /\ line \in Stream
  /\ Len(line.buf) <= MaxBuf
  /\ measured \in Stats
  /\ repeated \in BOOLEAN
  /\ first \in [source : Seq(Byte), result : Seq(Byte)]

NoStats == [found |-> [t \in Terminator |-> 0], changed |-> 0, trimmed |-> 0, final |-> FALSE]

Fresh ==
  [run |-> 0, spilled |-> << >>, buf |-> << >>, body |-> 0, out |-> << >>, res |-> NoStats]

Init ==
  /\ opts \in TransformOptions
  /\ source \in Sources
  /\ pass = "measure"
  /\ pos = 0
  /\ line = Fresh
  /\ measured = NoStats
  /\ repeated = FALSE
  /\ first = [source |-> << >>, result |-> << >>]

-----------------------------------------------------------------------------
(* The parts of the automaton, from a state of it to the next.             *)

writing == pass = "write"

(* terminatorForTarget, and the terminator itself when none is asked for.  *)
Wanted(term) ==
  CASE opts.endings = "keep" -> term
    [] opts.endings = "lf" -> <<LF>>
    [] opts.endings = "crlf" -> <<CR, LF>>
    [] opts.endings = "cr" -> <<CR>>

Held(s) == s.spilled \o s.buf

Emit(s, bytes) == IF writing THEN [s EXCEPT !.out = @ \o bytes] ELSE s

(* Mutant: the newer half goes to the scratch file.                        *)
spillNewerHalf(s) ==
  LET n == IF Len(s.buf) = 1 THEN 1 ELSE Len(s.buf) \div 2
  IN [s EXCEPT !.spilled = @ \o SubSeq(s.buf, Len(s.buf) - n + 1, Len(s.buf)),
               !.buf = SubSeq(@, 1, Len(@) - n)]

spillOlderHalf(s) ==
  LET n == IF Len(s.buf) = 1 THEN 1 ELSE Len(s.buf) \div 2
  IN [s EXCEPT !.spilled = @ \o SubSeq(s.buf, 1, n),
               !.buf = SubSeq(@, n + 1, Len(@))]

(* Mutant: the buffer is spilled one byte late.                            *)
pushLate(s, b) ==
  LET room == IF Len(s.buf) > MaxBuf THEN spillOlderHalf(s) ELSE s
  IN [room EXCEPT !.buf = Append(@, b)]

push(s, b) ==
  LET room == IF Len(s.buf) >= MaxBuf THEN spillOlderHalf(s) ELSE s
  IN [room EXCEPT !.buf = Append(@, b)]

discard(s) == [s EXCEPT !.spilled = << >>, !.buf = << >>]

(* Mutant: what was spilled is not copied back.                            *)
flushBufferOnly(s) == discard(Emit(s, s.buf))

flushTo(s) == discard(Emit(s, Held(s)))

Counted(s) == [s EXCEPT !.body = @ + 1]

(* Mutant: when measuring, inner blanks count as trailing ones.            *)
emitContentByteCountingAll(s, b) ==
  CASE ~opts.trim -> Counted(Emit(s, <<b>>))
    [] opts.trim /\ writing /\ b \in Blank -> Counted(push(s, b))
    [] opts.trim /\ writing /\ b \notin Blank -> Counted(Emit(flushTo(s), <<b>>))
    [] opts.trim /\ ~writing -> Counted([s EXCEPT !.run = IF b \in Blank THEN @ + 1 ELSE @])

emitContentByte(s, b) ==
  CASE ~opts.trim -> Counted(Emit(s, <<b>>))
    [] opts.trim /\ writing /\ b \in Blank -> Counted(push(s, b))
    [] opts.trim /\ writing /\ b \notin Blank -> Counted(Emit(flushTo(s), <<b>>))
    [] opts.trim /\ ~writing -> Counted([s EXCEPT !.run = IF b \in Blank THEN @ + 1 ELSE 0])

HoldsBlanks(s) == IF writing THEN Held(s) # << >> ELSE s.run > 0

completeTrimTrailing(s) ==
  IF opts.trim /\ HoldsBlanks(s)
  THEN [discard(s) EXCEPT !.run = 0, !.res.trimmed = @ + 1]
  ELSE s

(* Mutant: a terminator counts as changed whether or not it is.            *)
observeEveryEnding(s, term) ==
  IF opts.endings = "keep"
  THEN s
  ELSE [s EXCEPT !.res.found[term] = @ + 1, !.res.changed = @ + 1]

observeLineEnding(s, term) ==
  IF opts.endings = "keep"
  THEN s
  ELSE [s EXCEPT !.res.found[term] = @ + 1,
                 !.res.changed = IF term = Wanted(term) THEN @ ELSE @ + 1]

completeLine(s, term) ==
  [Emit(observeLineEnding(completeTrimTrailing(s), term), Wanted(term)) EXCEPT !.body = 0]

(* Mutant: an empty last line is given a terminator too.                   *)
completeEmptyLastLine(s) ==
  LET trimmed == completeTrimTrailing(s)
  IN IF opts.final
     THEN [Emit([trimmed EXCEPT !.res.final = TRUE], Wanted(<<LF>>)) EXCEPT !.body = 0]
     ELSE [trimmed EXCEPT !.body = 0]

(* flushAtEOF: a last line without a terminator, if there is one.          *)
completeLastLine(s) ==
  LET trimmed == completeTrimTrailing(s)
      ended == IF opts.final
               THEN Emit([trimmed EXCEPT !.res.final = TRUE], Wanted(<<LF>>))
               ELSE trimmed
  IN IF s.body = 0 /\ ~(writing /\ HoldsBlanks(s)) THEN s ELSE [ended EXCEPT !.body = 0]

-----------------------------------------------------------------------------
WouldChange(res) == res.changed > 0 \/ res.trimmed > 0 \/ res.final

Running == pass \in {"measure", "write"}

Next1 == source[pos + 1]

Next2 == source[pos + 2]

Advance(n) ==
  /\ pos' = pos + n
  /\ UNCHANGED <<opts, source, pass, measured, repeated, first>>

ReadContent ==
  /\ Running /\ pos < Len(source)
  /\ Next1 \notin {CR, LF}
  /\ line' = emitContentByte(line, Next1)
  /\ Advance(1)

ReadLF ==
  /\ Running /\ pos < Len(source)
  /\ Next1 = LF
  /\ line' = completeLine(line, <<LF>>)
  /\ Advance(1)

(* handleCR looks at the byte after it.  A byte that is not an LF is       *)
(* content of the next line, whatever it is.                               *)
ReadCR ==
  /\ Running /\ pos < Len(source)
  /\ Next1 = CR
  /\ \/ /\ pos + 1 = Len(source)
        /\ line' = completeLine(line, <<CR>>)
        /\ Advance(1)
     \/ /\ pos + 1 < Len(source)
        /\ Next2 = LF
        /\ line' = completeLine(line, <<CR, LF>>)
        /\ Advance(2)
     \/ /\ pos + 1 < Len(source)
        /\ Next2 # LF
        /\ line' = emitContentByte(completeLine(line, <<CR>>), Next2)
        /\ Advance(2)

(* The end of the measuring pass decides whether there is another.         *)
EndMeasure ==
  /\ pass = "measure" /\ pos = Len(source)
  /\ measured' = completeLastLine(line).res
  /\ \/ /\ WouldChange(measured')
        /\ pass' = "write" /\ pos' = 0 /\ line' = Fresh
     \/ /\ ~WouldChange(measured')
        /\ pass' = "done" /\ line' = completeLastLine(line) /\ UNCHANGED pos
  /\ UNCHANGED <<opts, source, repeated, first>>

EndWrite ==
  /\ pass = "write" /\ pos = Len(source)
  /\ line' = completeLastLine(line)
  /\ pass' = "done"
  /\ UNCHANGED <<opts, source, pos, measured, repeated, first>>

(* Whatever fails, the deferred discard empties and removes the scratch.   *)
Fail ==
  /\ Running
  /\ pass' = "failed"
  /\ line' = discard(line)
  /\ UNCHANGED <<opts, source, pos, measured, repeated, first>>

(* What the file holds now: the new content, or the source untouched.      *)
Result == IF WouldChange(measured) THEN line.out ELSE source

(* The same command, once more.                                            *)
Repeat ==
  /\ pass = "done"
  /\ ~repeated
  /\ repeated' = TRUE
  /\ first' = [source |-> source, result |-> Result]
  /\ source' = Result
  /\ pass' = "measure" /\ pos' = 0 /\ line' = Fresh /\ measured' = NoStats
  /\ UNCHANGED opts

Next ==
  \/ ReadContent \/ ReadLF \/ ReadCR
  \/ EndMeasure \/ EndWrite
  \/ Fail
  \/ Repeat

Spec == Init /\ [][Next]_vars

-----------------------------------------------------------------------------
(* What the two passes are to compute, said of the whole source at once:   *)
(* TransformLines (transform.go) on the lines of ReadLinesFrom (lineio.go),*)
(* the implementation that keeps every line in memory.                     *)

(* Where a terminator starts: at an LF, and at a CR that is not the byte   *)
(* after a CR that is one.                                                 *)
Starts(s) ==
  LET e[i \in 1..Len(s)] ==
        \/ s[i] = LF
        \/ s[i] = CR /\ (i = 1 \/ s[i - 1] # CR \/ ~e[i - 1])
  IN e

(* What becomes of the byte at i.  A CRLF is accounted for at its LF.      *)
Piece(s, i) ==
  LET starts == Starts(s)
      inCRLF(j) == /\ j \in 1..(Len(s) - 1)
                   /\ s[j] = CR /\ starts[j] /\ s[j + 1] = LF
      lineEnd == {j \in i..(Len(s) + 1) : j = Len(s) + 1 \/ starts[j]}
      trailing == \E j \in lineEnd : \A k \in i..(j - 1) : s[k] \in Blank
  IN CASE inCRLF(i) -> << >>
       [] starts[i] /\ inCRLF(i - 1) -> Wanted(<<CR, LF>>)
       [] starts[i] /\ ~inCRLF(i) /\ ~inCRLF(i - 1) -> Wanted(<<s[i]>>)
       [] ~starts[i] -> IF opts.trim /\ trailing THEN << >> ELSE <<s[i]>>

FinalPiece(s) ==
  IF opts.final /\ s # << >> /\ ~Starts(s)[Len(s)] THEN Wanted(<<LF>>) ELSE << >>

Transformed(s) == FlattenSeq([i \in 1..Len(s) |-> Piece(s, i)]) \o FinalPiece(s)

-----------------------------------------------------------------------------
(* h is the longest run of blanks in the source that ends at n.            *)
IsTrailingRun(h, n) ==
  /\ Len(h) <= n
  /\ h = SubSeq(source, n - Len(h) + 1, n)
  /\ \A i \in 1..Len(h) : h[i] \in Blank
  /\ Len(h) < n => source[n - Len(h)] \notin Blank

(* While a pass writes, what it holds back is the run of blanks that ends  *)
(* where it has read to, in order and complete, however often the buffer   *)
(* was spilled and flushed; when it does not write or trim, nothing.       *)
HeldIsTheTail ==
  IF pass = "write" /\ opts.trim THEN IsTrailingRun(Held(line), pos) ELSE Held(line) = << >>

(* The pass that writes counts what the pass that measured counted, though *)
(* one counts a run of blanks and the other holds it back.                 *)
PassesAgree ==
  pass = "done" /\ WouldChange(measured) => line.res = measured

(* A finished transform is what the definition of lines says.              *)
ResultIsTransformed ==
  pass = "done" => Result = Transformed(source)

(* A preview says "would change" exactly of the files that the transform   *)
(* gives another content (transform_file.go: "this matches input vs        *)
(* transformed byte equality").                                            *)
WouldChangeIsExact ==
  pass = "done" => (WouldChange(measured) <=> Result # source)

(* A transform repeated on its own result changes nothing (intent.md:      *)
(* "Idempotent - running the same transform twice produces identical       *)
(* output").                                                               *)
Idempotent ==
  pass = "done" /\ repeated => Result = first.result

(* That is so whenever no CR follows a CR, neither in the source nor in    *)
(* the result: the byte after a CR is taken for content, once.             *)
IdempotentWithoutCRCR ==
  LET pairs(s) == {i \in 1..(Len(s) - 1) : s[i] = CR /\ s[i + 1] = CR}
  IN /\ pass = "done" /\ repeated
     /\ pairs(first.source) \cup pairs(first.result) = {}
     => Result = first.result
=============================================================================
