------------------------ MODULE TransformStreamProofs ------------------------
(***************************************************************************)
(* The transform stream, for sources of any length, any buffer size and    *)
(* any options.                                                            *)
(*                                                                         *)
(* The first part has its types, the bound on its buffer, and that the     *)
(* blanks it holds back are exactly those that may still turn out to be    *)
(* trailing.                                                               *)
(*                                                                         *)
(* The rest is what a transform computes: both passes count the same, the  *)
(* result is what the definition of lines says, it differs from the source *)
(* exactly if something was counted, and where no CR follows a CR it       *)
(* transforms to itself.  It begins with sequences of bytes only: where    *)
(* terminators start, and what Flat, the result so far, is after each      *)
(* byte.  Then comes the inductive invariant, which says of a pass that    *)
(* has read to pos what it has counted and written by then.                *)
(***************************************************************************)
EXTENDS TransformStream, DataInduction, SequenceTheorems, TLAPS

USE ByteAssumption, SourcesAssumption, MaxBufAssumption

(* A state of the automaton whose buffer keeps its bound.                  *)
Bounded(s) == s \in Stream /\ Len(s.buf) <= MaxBuf

LEMMA HeldTypes ==
  ASSUME NEW s \in Stream
  PROVE  Held(s) \in Seq(Byte)
<1>1. s.spilled \in Seq(Byte) /\ s.buf \in Seq(Byte)
  BY DEF Stream
<1>2. QED
  BY <1>1, ConcatProperties DEF Held

(* The older half of a buffer of k bytes is some of it.                    *)
LEMMA HalfOf == \A k \in Nat \ {0} : (IF k = 1 THEN 1 ELSE k \div 2) \in 1..k
OBVIOUS

LEMMA Associative ==
  ASSUME NEW r \in Seq(Byte), NEW s \in Seq(Byte), NEW t \in Seq(Byte)
  PROVE  (r \o s) \o t = r \o (s \o t)
BY ONLY r \in Seq(Byte), s \in Seq(Byte), t \in Seq(Byte), ConcatAssociative

(* Spilling moves bytes from the front of the buffer to the end of the     *)
(* scratch file: together they stay what they were.                        *)
LEMMA SpillKeepsOrder ==
  ASSUME NEW s \in Stream, Len(s.buf) > 0
  PROVE  /\ spillOlderHalf(s) \in Stream
         /\ Len(spillOlderHalf(s).buf) < Len(s.buf)
         /\ Held(spillOlderHalf(s)) = Held(s)
<1> DEFINE n == IF Len(s.buf) = 1 THEN 1 ELSE Len(s.buf) \div 2
           old == SubSeq(s.buf, 1, n)
           new == SubSeq(s.buf, n + 1, Len(s.buf))
<1>1. s.spilled \in Seq(Byte) /\ s.buf \in Seq(Byte) /\ Len(s.buf) \in Nat
  BY DEF Stream
<1>2. n \in 1..Len(s.buf)
  <2>1. Len(s.buf) \in Nat \ {0}
    BY ONLY <1>1, Len(s.buf) > 0
  <2>2. QED
    BY <2>1, HalfOf, Zenon
<1> HIDE DEF n
<1>3. old \in Seq(Byte) /\ new \in Seq(Byte) /\ Len(new) = Len(s.buf) - n
  <2>1. \A i \in 1..n : s.buf[i] \in Byte
    BY <1>1, <1>2
  <2>2. \A i \in (n + 1)..Len(s.buf) : s.buf[i] \in Byte
    BY <1>1, <1>2
  <2>3. old \in Seq(Byte)
    BY <1>2, <2>1, SubSeqProperties
  <2>4. new \in Seq(Byte) /\ Len(new) = IF n + 1 <= Len(s.buf) THEN Len(s.buf) - (n + 1) + 1 ELSE 0
    BY <1>1, <1>2, <2>2, SubSeqProperties
  <2>5. QED
    BY <1>1, <1>2, <2>3, <2>4
<1>4. old \o new = s.buf
  <2>1. old \o new = SubSeq(s.buf, 1, Len(s.buf))
    BY <1>1, <1>2, ConcatAdjacentSubSeq
  <2>2. QED
    BY <1>1, <2>1, SubSeqFull
<1>5. spillOlderHalf(s) = [s EXCEPT !.spilled = s.spilled \o old, !.buf = new]
  BY DEF spillOlderHalf, n
<1>6. s.spilled \o old \in Seq(Byte)
  BY <1>1, <1>3, ConcatProperties
<1> HIDE DEF old, new
<1>7. /\ spillOlderHalf(s) \in Stream
      /\ spillOlderHalf(s).spilled = s.spilled \o old
      /\ spillOlderHalf(s).buf = new
  BY <1>3, <1>5, <1>6 DEF Stream, Byte
<1>8. (s.spilled \o old) \o new = s.spilled \o s.buf
  <2>1. (s.spilled \o old) \o new = s.spilled \o (old \o new)
    BY <1>1, <1>3, Associative
  <2>2. QED
    BY <1>4, <2>1, Zenon
<1>9. QED
  BY <1>1, <1>2, <1>3, <1>7, <1>8 DEF Held

LEMMA PushHolds ==
  ASSUME NEW s, Bounded(s), NEW b \in Byte
  PROVE  /\ Bounded(push(s, b))
         /\ Held(push(s, b)) = Append(Held(s), b)
<1> DEFINE room == IF Len(s.buf) >= MaxBuf THEN spillOlderHalf(s) ELSE s
<1>1. s \in Stream /\ s.buf \in Seq(Byte)
  BY DEF Bounded, Stream
<1>2. room \in Stream /\ Len(room.buf) < MaxBuf /\ Held(room) = Held(s)
  BY <1>1, SpillKeepsOrder DEF Bounded
<1>3. push(s, b) = [room EXCEPT !.buf = Append(room.buf, b)]
  BY DEF push
<1> HIDE DEF room
<1>4. room.spilled \in Seq(Byte) /\ room.buf \in Seq(Byte)
  BY <1>2 DEF Stream
<1>5. Append(room.buf, b) \in Seq(Byte) /\ Len(Append(room.buf, b)) = Len(room.buf) + 1
  BY <1>4, AppendProperties
<1>6. /\ push(s, b) \in Stream
      /\ push(s, b).spilled = room.spilled
      /\ push(s, b).buf = Append(room.buf, b)
  BY <1>2, <1>3, <1>5 DEF Stream
<1>7. room.spilled \o Append(room.buf, b) = Append(room.spilled \o room.buf, b)
  <2>1. <<b>> \in Seq(Byte)
    OBVIOUS
  <2>2. Append(room.buf, b) = room.buf \o <<b>>
    BY <1>4, AppendIsConcat
  <2>3. room.spilled \o room.buf \in Seq(Byte)
    BY <1>4, ConcatProperties
  <2>4. Append(room.spilled \o room.buf, b) = (room.spilled \o room.buf) \o <<b>>
    BY <2>3, AppendIsConcat
  <2>5. (room.spilled \o room.buf) \o <<b>> = room.spilled \o (room.buf \o <<b>>)
    BY <1>4, <2>1, Associative
  <2>6. QED
    BY <2>2, <2>4, <2>5
<1>8. QED
  BY <1>2, <1>4, <1>5, <1>6, <1>7 DEF Held, Bounded

LEMMA DiscardHolds ==
  ASSUME NEW s, Bounded(s)
  PROVE  Bounded(discard(s)) /\ Held(discard(s)) = << >>
<1>1. << >> \in Seq(Byte) /\ Len(<< >>) = 0 /\ << >> \o << >> = << >>
  BY EmptySeq, ConcatEmptySeq
<1>2. discard(s) \in Stream /\ discard(s).spilled = << >> /\ discard(s).buf = << >>
  BY <1>1 DEF discard, Bounded, Stream
<1>3. QED
  BY <1>1, <1>2 DEF Bounded, Held

LEMMA EmitHolds ==
  ASSUME NEW s, Bounded(s), NEW bytes \in Seq(Byte)
  PROVE  Bounded(Emit(s, bytes)) /\ Held(Emit(s, bytes)) = Held(s)
<1>1. s \in Stream /\ s.out \o bytes \in Seq(Byte)
  <2>1. s \in Stream /\ s.out \in Seq(Byte)
    BY DEF Bounded, Stream
  <2>2. QED
    BY <2>1, ConcatProperties
<1>2. /\ Emit(s, bytes) \in Stream
      /\ Emit(s, bytes).spilled = s.spilled
      /\ Emit(s, bytes).buf = s.buf
  BY <1>1 DEF Emit, Stream
<1>3. QED
  BY <1>2 DEF Bounded, Held

LEMMA CountedHolds ==
  ASSUME NEW s, Bounded(s)
  PROVE  Bounded(Counted(s)) /\ Held(Counted(s)) = Held(s)
<1>1. /\ Counted(s) \in Stream
      /\ Counted(s).spilled = s.spilled
      /\ Counted(s).buf = s.buf
  BY SMTT(30) DEF Counted, Bounded, Stream
<1>2. QED
  BY <1>1 DEF Bounded, Held

LEMMA FlushHolds ==
  ASSUME NEW s, Bounded(s)
  PROVE  Bounded(flushTo(s)) /\ Held(flushTo(s)) = << >>
<1>1. Held(s) \in Seq(Byte)
  BY HeldTypes DEF Bounded
<1>2. Bounded(Emit(s, Held(s)))
  BY <1>1, EmitHolds
<1>3. QED
  BY <1>2, DiscardHolds DEF flushTo

(* What emitContentByte leaves held: one more blank, or nothing after a    *)
(* byte that is not one; without trimming or writing, no change.           *)
LEMMA EmitContentHolds ==
  ASSUME NEW s, Bounded(s), NEW b \in Byte, opts.trim \in BOOLEAN
  PROVE  /\ Bounded(emitContentByte(s, b))
         /\ opts.trim /\ writing /\ b \in Blank =>
              Held(emitContentByte(s, b)) = Append(Held(s), b)
         /\ opts.trim /\ writing /\ b \notin Blank => Held(emitContentByte(s, b)) = << >>
         /\ ~(opts.trim /\ writing) => Held(emitContentByte(s, b)) = Held(s)
<1>0. <<b>> \in Seq(Byte)
  OBVIOUS
<1>1. CASE ~opts.trim
  <2>1. emitContentByte(s, b) = Counted(Emit(s, <<b>>))
    BY <1>1 DEF emitContentByte
  <2>2. QED
    BY <1>0, <1>1, <2>1, EmitHolds, CountedHolds
<1>2. CASE opts.trim /\ writing /\ b \in Blank
  <2>1. emitContentByte(s, b) = Counted(push(s, b))
    BY <1>2 DEF emitContentByte
  <2>2. QED
    BY <1>2, <2>1, PushHolds, CountedHolds
<1>3. CASE opts.trim /\ writing /\ b \notin Blank
  <2>1. emitContentByte(s, b) = Counted(Emit(flushTo(s), <<b>>))
    BY <1>3 DEF emitContentByte
  <2>2. Bounded(flushTo(s)) /\ Held(flushTo(s)) = << >>
    BY FlushHolds
  <2>3. Bounded(Emit(flushTo(s), <<b>>)) /\ Held(Emit(flushTo(s), <<b>>)) = << >>
    BY <1>0, <2>2, EmitHolds
  <2>4. Bounded(emitContentByte(s, b)) /\ Held(emitContentByte(s, b)) = << >>
    BY <2>1, <2>3, CountedHolds
  <2>5. QED
    BY <1>3, <2>4
<1>4. CASE opts.trim /\ ~writing
  <2> DEFINE r == [s EXCEPT !.run = IF b \in Blank THEN @ + 1 ELSE 0]
  <2>1. emitContentByte(s, b) = Counted(r)
    BY <1>4 DEF emitContentByte
  <2>2. r \in Stream /\ r.spilled = s.spilled /\ r.buf = s.buf
    BY SMTT(30) DEF Bounded, Stream
  <2>3. Bounded(r) /\ Held(r) = Held(s)
    BY <2>2 DEF Bounded, Held
  <2> HIDE DEF r
  <2>4. QED
    BY <1>4, <2>1, <2>3, CountedHolds
<1>5. QED
  BY <1>1, <1>2, <1>3, <1>4

LEMMA TrimHolds ==
  ASSUME NEW s, Bounded(s), ~(opts.trim /\ writing) => Held(s) = << >>
  PROVE  Bounded(completeTrimTrailing(s)) /\ Held(completeTrimTrailing(s)) = << >>
<1>1. CASE opts.trim /\ HoldsBlanks(s)
  <2> DEFINE d == discard(s)
             t == [d EXCEPT !.run = 0, !.res.trimmed = @ + 1]
  <2>1. Bounded(d) /\ Held(d) = << >>
    BY DiscardHolds
  <2>2. completeTrimTrailing(s) = t
    BY <1>1 DEF completeTrimTrailing
  <2> HIDE DEF d
  <2> DEFINE res == [d.res EXCEPT !.trimmed = @ + 1]
  <2>a. d \in Stream /\ d.res \in Stats
    BY <2>1 DEF Bounded, Stream
  <2>b. res \in Stats
    BY <2>a DEF Stats
  <2>c. t = [d EXCEPT !.run = 0, !.res = res]
    BY <2>a DEF Stream
  <2> HIDE DEF res
  <2>3. t \in Stream /\ t.spilled = d.spilled /\ t.buf = d.buf
    BY <2>a, <2>b, <2>c DEF Stream
  <2>4. QED
    BY <2>1, <2>2, <2>3 DEF Bounded, Held
<1>2. CASE ~(opts.trim /\ HoldsBlanks(s))
  BY <1>2 DEF completeTrimTrailing, HoldsBlanks
<1>3. QED
  BY <1>1, <1>2

LEMMA WantedTypes ==
  ASSUME opts \in TransformOptions, NEW term \in Terminator
  PROVE  Wanted(term) \in Seq(Byte)
<1>1. CR \in Byte /\ LF \in Byte
  BY DEF Byte
<1>2. <<CR>> \in Seq(Byte) /\ <<LF>> \in Seq(Byte) /\ <<CR, LF>> \in Seq(Byte)
  BY <1>1
<1>3. term \in Seq(Byte)
  BY <1>2 DEF Terminator
<1>4. opts.endings \in LineEnding
  BY DEF TransformOptions
<1>5. QED
  BY <1>2, <1>3, <1>4 DEF Wanted, LineEnding

LEMMA ObserveHolds ==
  ASSUME NEW s, Bounded(s), NEW term \in Terminator
  PROVE  /\ Bounded(observeLineEnding(s, term))
         /\ Held(observeLineEnding(s, term)) = Held(s)
<1>1. CASE opts.endings = "keep"
  BY <1>1 DEF observeLineEnding
<1>2. CASE opts.endings # "keep"
  <2> DEFINE same == term = Wanted(term)
             found == [s.res.found EXCEPT ![term] = @ + 1]
             changed == IF same THEN s.res.changed ELSE s.res.changed + 1
             res == [s.res EXCEPT !.found = found, !.changed = changed]
  <2>1. s \in Stream /\ s.res \in Stats
    BY DEF Bounded, Stream
  <2>2. found \in [Terminator -> Nat]
    BY <2>1 DEF Stats
  <2>3. changed \in Nat
    BY <2>1 DEF Stats
  <2>4. observeLineEnding(s, term) = [s EXCEPT !.res = res]
    <3>1. observeLineEnding(s, term) =
            [s EXCEPT !.res.found[term] = @ + 1,
                      !.res.changed = IF same THEN @ ELSE @ + 1]
      BY <1>2 DEF observeLineEnding
    <3>2. QED
      BY <2>1, <3>1 DEF Stream, Stats
  <2> HIDE DEF found, changed
  <2>5. res \in Stats
    BY <2>1, <2>2, <2>3 DEF Stats
  <2> HIDE DEF res
  <2>6. /\ observeLineEnding(s, term) \in Stream
        /\ observeLineEnding(s, term).spilled = s.spilled
        /\ observeLineEnding(s, term).buf = s.buf
    BY <2>1, <2>4, <2>5 DEF Stream
  <2>7. QED
    BY <2>6 DEF Bounded, Held
<1>3. QED
  BY <1>1, <1>2

(* The body of the next line is empty.                                     *)
LEMMA EmptyBodyHolds ==
  ASSUME NEW s, Bounded(s)
  PROVE  Bounded([s EXCEPT !.body = 0]) /\ Held([s EXCEPT !.body = 0]) = Held(s)
<1> DEFINE t == [s EXCEPT !.body = 0]
<1>1. t \in Stream /\ t.spilled = s.spilled /\ t.buf = s.buf
  BY DEF Bounded, Stream
<1>2. QED
  BY <1>1 DEF Bounded, Held

LEMMA CompleteLineHolds ==
  ASSUME NEW s, Bounded(s), NEW term \in Terminator, opts \in TransformOptions,
         ~(opts.trim /\ writing) => Held(s) = << >>
  PROVE  Bounded(completeLine(s, term)) /\ Held(completeLine(s, term)) = << >>
<1> DEFINE t == completeTrimTrailing(s)
           u == observeLineEnding(t, term)
           v == Emit(u, Wanted(term))
<1>1. Bounded(t) /\ Held(t) = << >>
  BY TrimHolds
<1> HIDE DEF t
<1>2. Bounded(u) /\ Held(u) = << >>
  BY <1>1, ObserveHolds
<1> HIDE DEF u
<1>3. Bounded(v) /\ Held(v) = << >>
  BY <1>2, WantedTypes, EmitHolds
<1>4. completeLine(s, term) = [v EXCEPT !.body = 0]
  BY DEF completeLine, t, u
<1> HIDE DEF v
<1>5. QED
  BY <1>3, <1>4, EmptyBodyHolds

LEMMA CompleteLastLineHolds ==
  ASSUME NEW s, Bounded(s), opts \in TransformOptions,
         ~(opts.trim /\ writing) => Held(s) = << >>
  PROVE  Bounded(completeLastLine(s)) /\ Held(completeLastLine(s)) = << >>
<1> DEFINE t == completeTrimTrailing(s)
           u == [t EXCEPT !.res.final = TRUE]
           v == IF opts.final THEN Emit(u, Wanted(<<LF>>)) ELSE t
<1>1. Bounded(t) /\ Held(t) = << >>
  BY TrimHolds
<1>2. CASE s.body = 0 /\ ~(writing /\ HoldsBlanks(s))
  <2>1. completeLastLine(s) = s
    BY <1>2 DEF completeLastLine
  <2>2. Held(s) = << >>
    BY <1>2 DEF HoldsBlanks
  <2>3. QED
    BY <2>1, <2>2
<1>3. CASE ~(s.body = 0 /\ ~(writing /\ HoldsBlanks(s)))
  <2>1. completeLastLine(s) = [v EXCEPT !.body = 0]
    BY <1>3 DEF completeLastLine
  <2> HIDE DEF t
  <2>2. u \in Stream /\ u.spilled = t.spilled /\ u.buf = t.buf
    BY <1>1 DEF Bounded, Stream, Stats
  <2>3. Bounded(u) /\ Held(u) = << >>
    BY <1>1, <2>2 DEF Bounded, Held
  <2> HIDE DEF u
  <2>4. Wanted(<<LF>>) \in Seq(Byte)
    BY WantedTypes DEF Terminator
  <2>5. Bounded(v) /\ Held(v) = << >>
    BY <1>1, <2>3, <2>4, EmitHolds
  <2> HIDE DEF v
  <2>6. QED
    BY <2>1, <2>5, EmptyBodyHolds
<1>4. QED
  BY <1>2, <1>3

-----------------------------------------------------------------------------
(* The run of blanks where a pass has read to.                             *)

LEMMA RunGrows ==
  ASSUME source \in Seq(Byte), NEW n \in 0..(Len(source) - 1), NEW h \in Seq(Byte),
         IsTrailingRun(h, n), source[n + 1] \in Blank
  PROVE  IsTrailingRun(Append(h, source[n + 1]), n + 1)
<1> DEFINE b == source[n + 1]
           start == n - Len(h) + 1
<1>1. b \in Byte /\ Len(h) \in 0..n /\ n \in Nat /\ Len(source) \in Nat
  BY DEF IsTrailingRun
<1>2. /\ Append(h, b) \in Seq(Byte) /\ Len(Append(h, b)) = Len(h) + 1
      /\ \A i \in 1..Len(h) : Append(h, b)[i] = h[i]
      /\ Append(h, b)[Len(h) + 1] = b
  BY <1>1, AppendProperties
<1>3. Append(h, b) = SubSeq(source, start, n + 1)
  <2>1. start \in 1..(n + 1) /\ n + 1 \in 1..Len(source)
    BY <1>1
  <2>2. SubSeq(source, start, n + 1) = SubSeq(source, start, n) \o <<b>>
    <3>1. start \in 1..Len(source) /\ n + 1 \in start..Len(source)
      BY <1>1
    <3> HIDE DEF start
    <3>2. \A m \in 1..Len(source) : \A k \in m..Len(source) :
            SubSeq(source, m, k) = SubSeq(source, m, k - 1) \o <<source[k]>>
      BY ONLY source \in Seq(Byte), SubSeqRecursiveSecond
    <3>3. SubSeq(source, start, n + 1) = SubSeq(source, start, n + 1 - 1) \o <<source[n + 1]>>
      BY ONLY <3>1, <3>2
    <3>4. n + 1 - 1 = n
      BY <1>1
    <3>5. QED
      BY <3>3, <3>4
  <2>3. h = SubSeq(source, start, n)
    BY DEF IsTrailingRun
  <2>4. Append(h, b) = h \o <<b>>
    BY <1>1, AppendIsConcat
  <2>5. QED
    BY <2>2, <2>3, <2>4
<1>4. (n + 1) - (Len(h) + 1) + 1 = start /\ (n + 1) - (Len(h) + 1) = n - Len(h)
  BY <1>1
<1>5. \A i \in 1..(Len(h) + 1) : Append(h, b)[i] \in Blank
  BY <1>1, <1>2 DEF IsTrailingRun
<1>6. Len(h) + 1 < n + 1 => source[n - Len(h)] \notin Blank
  BY <1>1 DEF IsTrailingRun
<1>7. Len(h) + 1 <= n + 1
  BY <1>1
<1> HIDE DEF b, start
<1>8. IsTrailingRun(Append(h, b), n + 1)
  BY <1>2, <1>3, <1>4, <1>5, <1>6, <1>7 DEF IsTrailingRun
<1>9. QED
  BY <1>8 DEF b

LEMMA RunIsBroken ==
  ASSUME source \in Seq(Byte), NEW n \in 0..Len(source), n > 0 => source[n] \notin Blank
  PROVE  IsTrailingRun(<< >>, n)
<1>1. Len(<< >>) = 0 /\ n - 0 + 1 > n /\ n \in Nat
  BY EmptySeq
<1>2. SubSeq(source, n - 0 + 1, n) = << >>
  BY <1>1, SubSeqEmpty
<1>3. QED
  BY <1>1, <1>2 DEF IsTrailingRun

-----------------------------------------------------------------------------
Inv == StreamTypeOK /\ HeldIsTheTail

LEMMA FreshHolds == Bounded(Fresh) /\ Held(Fresh) = << >>
<1>1. << >> \in Seq(Byte) /\ Len(<< >>) = 0 /\ << >> \o << >> = << >>
  BY EmptySeq, ConcatEmptySeq
<1>2. NoStats \in Stats
  BY DEF NoStats, Stats
<1>3. Fresh \in Stream /\ Fresh.spilled = << >> /\ Fresh.buf = << >>
  BY <1>1, <1>2 DEF Fresh, Stream
<1>4. QED
  BY <1>1, <1>3 DEF Bounded, Held

LEMMA InvInit == Init => Inv
<1> SUFFICES ASSUME Init PROVE Inv
  OBVIOUS
<1>1. source \in Seq(Byte) /\ << >> \in Seq(Byte)
  BY DEF Init
<1>2. NoStats \in Stats
  BY DEF NoStats, Stats
<1>a. pos \in 0..Len(source) /\ pass \in {"measure", "write", "done", "failed"}
  BY <1>1 DEF Init
<1>b. line \in Stream /\ Len(line.buf) <= MaxBuf
  BY FreshHolds DEF Init, Bounded
<1>c. first \in [source : Seq(Byte), result : Seq(Byte)]
  BY <1>1 DEF Init
<1>d. opts \in TransformOptions /\ measured \in Stats /\ repeated \in BOOLEAN
  BY <1>2 DEF Init
<1>3. StreamTypeOK
  BY <1>1, <1>a, <1>b, <1>c, <1>d DEF StreamTypeOK
<1>4. HeldIsTheTail
  BY FreshHolds DEF Init, HeldIsTheTail
<1>5. QED
  BY <1>3, <1>4 DEF Inv

(* What Inv says to the steps that read.                                   *)
LEMMA Reading ==
  ASSUME Inv
  PROVE  /\ Bounded(line) /\ Held(line) \in Seq(Byte)
         /\ opts \in TransformOptions /\ opts.trim \in BOOLEAN
         /\ source \in Seq(Byte) /\ Len(source) \in Nat /\ pos \in 0..Len(source)
         /\ ~(opts.trim /\ writing) => Held(line) = << >>
         /\ opts.trim /\ writing => IsTrailingRun(Held(line), pos)
<1>1. Bounded(line) /\ source \in Seq(Byte) /\ pos \in 0..Len(source) /\ opts \in TransformOptions
  BY DEF Inv, StreamTypeOK, Bounded
<1>2. opts.trim \in BOOLEAN
  BY <1>1 DEF TransformOptions
<1>3. Held(line) \in Seq(Byte)
  BY <1>1, HeldTypes DEF Bounded
<1>4. QED
  BY <1>1, <1>2, <1>3 DEF Inv, HeldIsTheTail, writing

(* A step that leaves the automaton bounded, and holding what it should,   *)
(* keeps the invariant.                                                    *)
LEMMA AdvanceKeepsInv ==
  ASSUME Inv, NEW n \in Nat, Advance(n), pos + n <= Len(source), Bounded(line'),
         ~(opts.trim /\ writing) => Held(line)' = << >>,
         opts.trim /\ writing => IsTrailingRun(Held(line)', pos + n)
  PROVE  Inv'
<1>1. StreamTypeOK'
  BY DEF Inv, StreamTypeOK, Advance, Bounded
<1>2. HeldIsTheTail'
  BY DEF HeldIsTheTail, IsTrailingRun, Advance, writing
<1>3. QED
  BY <1>1, <1>2 DEF Inv

LEMMA ContentKeepsInv == Inv /\ ReadContent => Inv'
<1> SUFFICES ASSUME Inv, ReadContent PROVE Inv'
  OBVIOUS
<1> DEFINE after == emitContentByte(line, Next1)
<1>1. Bounded(line) /\ source \in Seq(Byte) /\ pos + 1 \in 1..Len(source) /\ opts.trim \in BOOLEAN
  BY Reading DEF ReadContent
<1>2. Next1 \in Byte
  BY <1>1 DEF Next1
<1>3. line' = after /\ Advance(1)
  BY DEF ReadContent
<1>4. Bounded(after) /\ (~(opts.trim /\ writing) => Held(after) = << >>)
  BY <1>1, <1>2, EmitContentHolds, Reading
<1>5. ASSUME opts.trim, writing PROVE IsTrailingRun(Held(after), pos + 1)
  <2>1. IsTrailingRun(Held(line), pos) /\ Held(line) \in Seq(Byte) /\ pos \in 0..(Len(source) - 1)
    BY <1>1, <1>5, Reading
  <2>2. CASE Next1 \in Blank
    <3>1. Held(after) = Append(Held(line), source[pos + 1])
      BY <1>1, <1>2, <1>5, <2>2, EmitContentHolds DEF Next1
    <3>2. IsTrailingRun(Append(Held(line), source[pos + 1]), pos + 1)
      BY <1>1, <2>1, <2>2, RunGrows DEF Next1
    <3>3. QED
      BY <3>1, <3>2
  <2>3. CASE Next1 \notin Blank
    <3>1. Held(after) = << >>
      BY <1>1, <1>2, <1>5, <2>3, EmitContentHolds
    <3>2. IsTrailingRun(<< >>, pos + 1)
      BY <1>1, <2>3, RunIsBroken DEF Next1
    <3>3. QED
      BY <3>1, <3>2
  <2>4. QED
    BY <2>2, <2>3
<1> HIDE DEF after
<1>6. Held(line)' = Held(after)
  BY <1>3 DEF Held
<1>7. pos + 1 <= Len(source)
  BY <1>1
<1>8. Bounded(line')
  BY <1>3, <1>4
<1>9. QED
  BY <1>3, <1>4, <1>5, <1>6, <1>7, <1>8, AdvanceKeepsInv

(* What the end of a line leaves: nothing held, and a byte before the      *)
(* position that is no blank.                                              *)
LEMMA LineEndKeepsInv ==
  ASSUME Inv, NEW term \in Terminator, NEW n \in {1, 2}, pos + n <= Len(source),
         source[pos + n] \in {CR, LF}, line' = completeLine(line, term), Advance(n)
  PROVE  Inv'
<1> DEFINE after == completeLine(line, term)
<1>1. Bounded(after) /\ Held(after) = << >>
  BY Reading, CompleteLineHolds
<1>2. source[pos + n] \notin Blank
  OBVIOUS
<1>3. source \in Seq(Byte) /\ pos + n \in 0..Len(source)
  BY Reading
<1>4. IsTrailingRun(<< >>, pos + n)
  BY <1>2, <1>3, RunIsBroken
<1> HIDE DEF after
<1>5. Bounded(line') /\ Held(line)' = << >>
  <2>1. line' = after
    BY DEF after
  <2>2. QED
    BY <1>1, <2>1 DEF Held
<1>6. QED
  BY <1>4, <1>5, AdvanceKeepsInv

LEMMA LFKeepsInv == Inv /\ ReadLF => Inv'
<1> SUFFICES ASSUME Inv, ReadLF PROVE Inv'
  OBVIOUS
<1>1. pos + 1 <= Len(source) /\ source[pos + 1] \in {CR, LF}
  BY Reading DEF ReadLF, Next1
<1>2. QED
  BY <1>1, LineEndKeepsInv DEF ReadLF, Terminator

LEMMA CRKeepsInv == Inv /\ ReadCR => Inv'
<1> SUFFICES ASSUME Inv, ReadCR PROVE Inv'
  OBVIOUS
<1>1. /\ source \in Seq(Byte) /\ pos \in 0..Len(source) /\ pos < Len(source)
      /\ source[pos + 1] = CR
  BY Reading DEF ReadCR, Next1
<1>2. CASE line' = completeLine(line, <<CR>>) /\ Advance(1)
  <2>1. <<CR>> \in Terminator /\ pos + 1 <= Len(source)
    BY <1>1 DEF Terminator
  <2>2. QED
    BY <1>1, <1>2, <2>1, LineEndKeepsInv
<1>3. CASE pos + 1 < Len(source) /\ Next2 = LF /\ line' = completeLine(line, <<CR, LF>>) /\ Advance(2)
  <2>1. <<CR, LF>> \in Terminator /\ pos + 2 <= Len(source) /\ source[pos + 2] = LF
    BY <1>1, <1>3 DEF Terminator, Next2
  <2>2. QED
    BY <1>3, <2>1, LineEndKeepsInv
<1>4. CASE /\ pos + 1 < Len(source) /\ Next2 # LF
           /\ line' = emitContentByte(completeLine(line, <<CR>>), Next2) /\ Advance(2)
  <2> DEFINE ended == completeLine(line, <<CR>>)
             after == emitContentByte(ended, Next2)
  <2>1. Bounded(ended) /\ Held(ended) = << >> /\ opts.trim \in BOOLEAN
    BY Reading, CompleteLineHolds DEF Terminator
  <2>2. pos + 1 \in 0..(Len(source) - 1) /\ pos + 2 \in 1..Len(source) /\ Next2 \in Byte
    BY <1>1, <1>4 DEF Next2
  <2> HIDE DEF ended
  <2>3. Bounded(after) /\ (~(opts.trim /\ writing) => Held(after) = << >>)
    BY <2>1, <2>2, EmitContentHolds
  <2>4. ASSUME opts.trim, writing PROVE IsTrailingRun(Held(after), pos + 2)
    <3>1. CASE Next2 \in Blank
      <4>1. IsTrailingRun(<< >>, pos + 1)
        BY <1>1, <2>2, RunIsBroken
      <4>2. << >> \in Seq(Byte) /\ pos + 1 + 1 = pos + 2
        BY <1>1
      <4>3. source[pos + 1 + 1] \in Blank
        BY <3>1, <4>2 DEF Next2
      <4>4. IsTrailingRun(Append(<< >>, source[pos + 1 + 1]), pos + 1 + 1)
        BY <1>1, <2>2, <4>1, <4>2, <4>3, RunGrows
      <4>5. Held(after) = Append(<< >>, Next2)
        BY <2>1, <2>2, <2>4, <3>1, EmitContentHolds
      <4>6. QED
        BY <4>2, <4>4, <4>5 DEF Next2
    <3>2. CASE Next2 \notin Blank
      <4>1. Held(after) = << >>
        BY <2>1, <2>2, <2>4, <3>2, EmitContentHolds
      <4>2. IsTrailingRun(<< >>, pos + 2)
        BY <1>1, <2>2, <3>2, RunIsBroken DEF Next2
      <4>3. QED
        BY <4>1, <4>2
    <3>3. QED
      BY <3>1, <3>2
  <2>5. line' = after
    BY <1>4 DEF ended
  <2> HIDE DEF after
  <2>6. Held(line)' = Held(after)
    BY <2>5 DEF Held
  <2>7. Bounded(line') /\ pos + 2 <= Len(source)
    BY <2>2, <2>3, <2>5
  <2>8. QED
    BY <1>4, <2>3, <2>4, <2>6, <2>7, AdvanceKeepsInv
<1>5. QED
  BY <1>2, <1>3, <1>4 DEF ReadCR

LEMMA EndMeasureKeepsInv == Inv /\ EndMeasure => Inv'
<1> SUFFICES ASSUME Inv, EndMeasure PROVE Inv'
  OBVIOUS
<1> DEFINE last == completeLastLine(line)
<1>1. Bounded(last) /\ Held(last) = << >>
  BY Reading, CompleteLastLineHolds
<1>2. last.res \in Stats
  BY <1>1 DEF Bounded, Stream
<1>3. measured' \in Stats
  BY <1>2 DEF EndMeasure
<1> HIDE DEF last
<1>4. Bounded(line') /\ Held(line)' = << >>
  <2>1. line' = Fresh \/ line' = last
    BY DEF EndMeasure, last
  <2>2. QED
    BY <1>1, <2>1, FreshHolds DEF Held
<1>5. pos' \in 0..Len(source)
  BY Reading DEF EndMeasure
<1>6. StreamTypeOK'
  BY <1>3, <1>4, <1>5 DEF Inv, StreamTypeOK, EndMeasure, Bounded
<1>7. HeldIsTheTail'
  <2>1. CASE pass' = "write"
    <3>1. pos' = 0 /\ source' = source /\ source \in Seq(Byte)
      BY <2>1, Reading DEF EndMeasure
    <3>2. IsTrailingRun(<< >>, 0)
      BY <3>1, RunIsBroken
    <3>3. IsTrailingRun(Held(line), pos)'
      BY <1>4, <3>1, <3>2 DEF IsTrailingRun
    <3>4. QED
      BY <1>4, <3>3 DEF HeldIsTheTail
  <2>2. CASE pass' # "write"
    BY <1>4, <2>2 DEF HeldIsTheTail
  <2>3. QED
    BY <2>1, <2>2
<1>8. QED
  BY <1>6, <1>7 DEF Inv

(* A pass that is over holds nothing.                                      *)
LEMMA OverKeepsInv ==
  ASSUME Inv, Bounded(line'), Held(line)' = << >>, pass' \in {"measure", "done", "failed"},
         source' \in Seq(Byte), pos' \in 0..Len(source'),
         measured' \in Stats, repeated' \in BOOLEAN, opts' = opts,
         first' \in [source : Seq(Byte), result : Seq(Byte)]
  PROVE  Inv'
<1>1. StreamTypeOK'
  BY DEF Inv, StreamTypeOK, Bounded
<1>2. HeldIsTheTail'
  BY DEF HeldIsTheTail
<1>3. QED
  BY <1>1, <1>2 DEF Inv

LEMMA EndWriteKeepsInv == Inv /\ EndWrite => Inv'
<1> SUFFICES ASSUME Inv, EndWrite PROVE Inv'
  OBVIOUS
<1>1. Bounded(line') /\ Held(line') = << >>
  BY Reading, CompleteLastLineHolds DEF EndWrite
<1>2. Held(line)' = << >>
  BY <1>1 DEF Held
<1>3. QED
  BY <1>1, <1>2, OverKeepsInv DEF EndWrite, Inv, StreamTypeOK

LEMMA FailKeepsInv == Inv /\ Fail => Inv'
<1> SUFFICES ASSUME Inv, Fail PROVE Inv'
  OBVIOUS
<1>1. Bounded(line') /\ Held(line') = << >>
  BY Reading, DiscardHolds DEF Fail
<1>2. Held(line)' = << >>
  BY <1>1 DEF Held
<1>3. QED
  BY <1>1, <1>2, OverKeepsInv DEF Fail, Inv, StreamTypeOK

LEMMA RepeatKeepsInv == Inv /\ Repeat => Inv'
<1> SUFFICES ASSUME Inv, Repeat PROVE Inv'
  OBVIOUS
<1>1. Bounded(line') /\ Held(line') = << >>
  BY FreshHolds DEF Repeat
<1>2. Held(line)' = << >>
  BY <1>1 DEF Held
<1>3. Result \in Seq(Byte) /\ source \in Seq(Byte)
  BY DEF Inv, StreamTypeOK, Result, Stream
<1>4. NoStats \in Stats
  BY DEF NoStats, Stats
<1>5. pos' \in 0..Len(source') /\ source' \in Seq(Byte) /\ measured' \in Stats
  BY <1>3, <1>4 DEF Repeat
<1>6. first' \in [source : Seq(Byte), result : Seq(Byte)]
  BY <1>3 DEF Repeat
<1>7. QED
  BY <1>1, <1>2, <1>5, <1>6, OverKeepsInv DEF Repeat

LEMMA InvInductive == Inv /\ [Next]_vars => Inv'
<1> SUFFICES ASSUME Inv, [Next]_vars PROVE Inv'
  OBVIOUS
<1>1. CASE UNCHANGED vars
  BY <1>1 DEF vars, Inv, StreamTypeOK, HeldIsTheTail, IsTrailingRun, Held
<1>2. CASE Next
  BY <1>2, ContentKeepsInv, LFKeepsInv, CRKeepsInv, EndMeasureKeepsInv, EndWriteKeepsInv,
     FailKeepsInv, RepeatKeepsInv DEF Next
<1>3. QED
  BY <1>1, <1>2

LEMMA Invariance == Spec => []Inv
BY InvInit, InvInductive, PTL DEF Spec

(* Type correctness, with the bound on the pending buffer: however long a  *)
(* run of blanks, at most MaxBuf of them are in memory                     *)
(* (pendingWhitespace.push).                                               *)
THEOREM TypeCorrect == Spec => []StreamTypeOK
<1>1. Inv => StreamTypeOK
  BY DEF Inv
<1>2. QED
  BY <1>1, Invariance, PTL

(* The blanks held back are the run that ends where the pass has read to,  *)
(* in the order they were read, whatever was spilled (pendingWhitespace:   *)
(* "preserving exact FIFO byte order on flush").                           *)
THEOREM HeldBack == Spec => []HeldIsTheTail
<1>1. Inv => HeldIsTheTail
  BY DEF Inv
<1>2. QED
  BY <1>1, Invariance, PTL

-----------------------------------------------------------------------------
(* Where terminators start.                                                *)

(* What Starts computes: it is defined by recursion.                       *)
LEMMA StartsIs ==
  ASSUME NEW s \in Seq(Byte)
  PROVE  /\ Starts(s) \in [1..Len(s) -> BOOLEAN]
         /\ \A i \in 1..Len(s) :
              Starts(s)[i] <=> \/ s[i] = LF
                               \/ s[i] = CR /\ (i = 1 \/ s[i - 1] # CR \/ ~Starts(s)[i - 1])
<1> DEFINE N == Len(s)
           V == BOOLEAN
           v == FALSE
           step == [p \in (1..N) \X V |->
                      s[p[1]] = LF \/ (s[p[1]] = CR /\ (p[1] = 1 \/ s[p[1] - 1] # CR \/ ~p[2]))]
           IsStarts(e) == e = [i \in 1..N |-> \/ s[i] = LF
                                              \/ s[i] = CR /\ (i = 1 \/ s[i - 1] # CR \/ ~e[i - 1])]
<1>1. N \in Nat
  BY LenProperties
<1>2. v \in V
  OBVIOUS
<1>3. step \in [(1..N) \X V -> V]
  OBVIOUS
<1>4. \E f \in [0..N -> V] : Recursion(f, N, v, step)
  <2> HIDE DEF N, V, v, step
  <2>1. QED
    BY <1>1, <1>2, <1>3, RecursionExists, Zenon
<1>5. PICK f \in [0..N -> V] : Recursion(f, N, v, step)
  BY <1>4
<1> DEFINE e == [i \in 1..N |-> f[i]]
<1>6. e \in [1..N -> BOOLEAN]
  BY <1>1
<1>7. \A i \in 1..N : e[i] = (s[i] = LF \/ (s[i] = CR /\ (i = 1 \/ s[i - 1] # CR \/ ~e[i - 1])))
  <2> TAKE i \in 1..N
  <2>1. i \in Nat /\ i - 1 \in 0..N /\ <<i, f[i - 1]>> \in (1..N) \X V /\ (i # 1 => i - 1 \in 1..N)
    BY <1>1
  <2>2. f[i] = step[<<i, f[i - 1]>>]
    BY <1>5 DEF Recursion
  <2>3. step[<<i, f[i - 1]>>] =
          (s[i] = LF \/ (s[i] = CR /\ (i = 1 \/ s[i - 1] # CR \/ ~f[i - 1])))
    BY <2>1
  <2>4. i # 1 => e[i - 1] = f[i - 1]
    BY <2>1
  <2> HIDE DEF step
  <2>5. QED
    BY <2>2, <2>3, <2>4
<1> HIDE DEF e
<1>8. IsStarts(e)
  BY <1>6, <1>7
<1>9. IsStarts(CHOOSE x : IsStarts(x))
  <2> HIDE DEF IsStarts
  <2>1. QED
    BY <1>8, Zenon
<1>10. Starts(s) = CHOOSE x : IsStarts(x)
  BY DEF Starts
<1>11. IsStarts(Starts(s))
  <2> HIDE DEF IsStarts
  <2>1. QED
    BY <1>9, <1>10
<1>12. QED
  BY <1>11

(* A CRLF starts at j.                                                     *)
InCRLF(s, j) == j \in 1..(Len(s) - 1) /\ s[j] = CR /\ Starts(s)[j] /\ s[j + 1] = LF

(* The byte at i is the last of a terminator, and which one that is.       *)
EndsLine(s, i) == i \in 1..Len(s) /\ Starts(s)[i] /\ ~InCRLF(s, i)

TermAt(s, i) == IF InCRLF(s, i - 1) THEN <<CR, LF>> ELSE <<s[i]>>

(* From i to the end of the line there are only blanks.                    *)
LineEndFrom(s, i) == {j \in i..(Len(s) + 1) : j = Len(s) + 1 \/ Starts(s)[j]}

Trailing(s, i) == \E j \in LineEndFrom(s, i) : \A k \in i..(j - 1) : s[k] \in Blank

(* What each byte, and then the end of the source, adds to the result.     *)
PieceAt(s, i) == IF i = Len(s) + 1 THEN FinalPiece(s) ELSE Piece(s, i)

Flat(s, n) == FlattenSeq([i \in 1..n |-> PieceAt(s, i)])

LEMMA StartBytes ==
  ASSUME NEW s \in Seq(Byte), NEW i \in 1..Len(s)
  PROVE  /\ Starts(s)[i] \in BOOLEAN
         /\ Starts(s)[i] => s[i] \in {CR, LF} /\ s[i] \notin Blank
         /\ s[i] \in Byte
<1>1. Starts(s)[i] \in BOOLEAN /\ (Starts(s)[i] => s[i] \in {CR, LF})
  BY StartsIs
<1>2. QED
  BY <1>1

(* Each byte is of one of three kinds.                                     *)
LEMMA Kinds ==
  ASSUME NEW s \in Seq(Byte), NEW i \in 1..Len(s)
  PROVE  /\ InCRLF(s, i) => Starts(s)[i] /\ ~EndsLine(s, i)
         /\ EndsLine(s, i) => Starts(s)[i]
         /\ Starts(s)[i] => InCRLF(s, i) \/ EndsLine(s, i)
         /\ EndsLine(s, i) => TermAt(s, i) \in Terminator
         /\ InCRLF(s, i) => i + 1 \in 1..Len(s) /\ EndsLine(s, i + 1) /\ ~InCRLF(s, i - 1)
         /\ InCRLF(s, i - 1) => s[i] = LF
<1>1. Len(s) \in Nat /\ i \in Nat
  BY LenProperties
<1>2. EndsLine(s, i) => TermAt(s, i) \in Terminator
  BY StartBytes DEF EndsLine, TermAt, Terminator
<1>3. ASSUME InCRLF(s, i) PROVE i + 1 \in 1..Len(s) /\ EndsLine(s, i + 1) /\ ~InCRLF(s, i - 1)
  <2>1. i + 1 \in 1..Len(s) /\ s[i + 1] = LF /\ s[i] = CR
    BY <1>1, <1>3 DEF InCRLF
  <2>2. Starts(s)[i + 1]
    BY <2>1, StartsIs
  <2>3. ~InCRLF(s, i + 1)
    BY <2>1 DEF InCRLF
  <2>4. ~InCRLF(s, i - 1)
    BY <1>1, <2>1 DEF InCRLF
  <2>5. QED
    BY <2>1, <2>2, <2>3, <2>4 DEF EndsLine
<1>4. InCRLF(s, i - 1) => s[i] = LF
  <2>1. (i - 1) + 1 = i
    BY <1>1
  <2>2. QED
    BY <2>1 DEF InCRLF
<1>5. QED
  BY <1>2, <1>3, <1>4 DEF EndsLine, InCRLF

LEMMA PieceIs ==
  ASSUME NEW s \in Seq(Byte), NEW i \in 1..Len(s)
  PROVE  /\ InCRLF(s, i) => PieceAt(s, i) = << >>
         /\ EndsLine(s, i) => PieceAt(s, i) = Wanted(TermAt(s, i))
         /\ ~Starts(s)[i] => PieceAt(s, i) = IF opts.trim /\ Trailing(s, i) THEN << >> ELSE <<s[i]>>
<1>1. PieceAt(s, i) = Piece(s, i)
  BY LenProperties DEF PieceAt
<1>2. Piece(s, i) =
        CASE InCRLF(s, i) -> << >>
          [] Starts(s)[i] /\ InCRLF(s, i - 1) -> Wanted(<<CR, LF>>)
          [] Starts(s)[i] /\ ~InCRLF(s, i) /\ ~InCRLF(s, i - 1) -> Wanted(<<s[i]>>)
          [] ~Starts(s)[i] -> IF opts.trim /\ Trailing(s, i) THEN << >> ELSE <<s[i]>>
  BY DEF Piece, InCRLF, Trailing, LineEndFrom
<1> DEFINE P == Piece(s, i)
           starts == Starts(s)[i]
           here == InCRLF(s, i)
           before == InCRLF(s, i - 1)
           a == Wanted(<<CR, LF>>)
           b == Wanted(<<s[i]>>)
           c == IF opts.trim /\ Trailing(s, i) THEN << >> ELSE <<s[i]>>
<1>3. P = CASE here -> << >>
            [] starts /\ before -> a
            [] starts /\ ~here /\ ~before -> b
            [] ~starts -> c
  BY <1>2
<1>4. starts \in BOOLEAN /\ here \in BOOLEAN /\ before \in BOOLEAN
  BY StartBytes DEF InCRLF
<1>5. (here => starts) /\ (here => ~before)
  BY Kinds
<1> HIDE DEF P, starts, here, before, a, b, c
<1>6. /\ here => P = << >>
      /\ starts /\ ~here /\ before => P = a
      /\ starts /\ ~here /\ ~before => P = b
      /\ ~starts => P = c
  BY <1>3, <1>4, <1>5
<1>7. TermAt(s, i) = IF before THEN <<CR, LF>> ELSE <<s[i]>>
  BY DEF TermAt, before
<1>8. EndsLine(s, i) <=> starts /\ ~here
  BY DEF EndsLine, starts, here
<1>9. QED
  BY <1>1, <1>6, <1>7, <1>8 DEF P, starts, here, before, a, b, c

-----------------------------------------------------------------------------
(* The result, byte by byte of the source.                                 *)

LEMMA PieceTypes ==
  ASSUME NEW s \in Seq(Byte), NEW i \in 1..(Len(s) + 1), opts \in TransformOptions
  PROVE  PieceAt(s, i) \in Seq(Byte)
<1>1. << >> \in Seq(Byte) /\ Wanted(<<LF>>) \in Seq(Byte)
  BY WantedTypes DEF Terminator
<1>2. CASE i = Len(s) + 1
  BY <1>1, <1>2 DEF PieceAt, FinalPiece
<1>3. CASE i # Len(s) + 1
  <2>1. i \in 1..Len(s)
    BY <1>3, LenProperties
  <2>2. <<s[i]>> \in Seq(Byte)
    BY <2>1, StartBytes
  <2>3. EndsLine(s, i) => Wanted(TermAt(s, i)) \in Seq(Byte)
    BY <2>1, Kinds, WantedTypes
  <2>4. QED
    BY <1>1, <2>1, <2>2, <2>3, Kinds, PieceIs
<1>4. QED
  BY <1>2, <1>3

LEMMA FlatStarts == \A s : Flat(s, 0) = << >>
<1> TAKE s
<1>1. [i \in 1..0 |-> PieceAt(s, i)] = << >>
  BY 1..0 = {}
<1>2. QED
  BY <1>1, FlattenEmpty DEF Flat

(* A set that has every piece has their concatenation.                     *)
LEMMA FlatOver ==
  ASSUME NEW T, NEW s, NEW n \in Nat, \A i \in 1..n : PieceAt(s, i) \in Seq(T)
  PROVE  Flat(s, n) \in Seq(T)
<1> DEFINE pieces == [i \in 1..n |-> PieceAt(s, i)]
<1>1. pieces \in Seq(Seq(T))
  BY IsASeq
<1> HIDE DEF pieces
<1>2. FlattenSeq(pieces) \in Seq(T)
  BY <1>1, FlattenTyped
<1>3. QED
  BY <1>2 DEF Flat, pieces

LEMMA FlatStep ==
  ASSUME NEW s \in Seq(Byte), NEW n \in 0..Len(s), opts \in TransformOptions
  PROVE  /\ Flat(s, n) \in Seq(Byte)
         /\ Flat(s, n + 1) = Flat(s, n) \o PieceAt(s, n + 1)
<1> DEFINE P(i) == PieceAt(s, i)
           pieces == [i \in 1..n |-> P(i)]
           more == [i \in 1..(n + 1) |-> P(i)]
<1>1. Len(s) \in Nat /\ n \in Nat
  BY LenProperties
<1>2. \A i \in 1..(n + 1) : P(i) \in Seq(Byte)
  BY <1>1, PieceTypes
<1> HIDE DEF P
<1>3. pieces \in Seq(Seq(Byte)) /\ Len(pieces) = n /\ P(n + 1) \in Seq(Byte)
  <2>1. \A i \in 1..n : P(i) \in Seq(Byte)
    BY <1>1, <1>2
  <2>2. pieces \in Seq(Seq(Byte))
    BY <1>1, <2>1, IsASeq
  <2>3. QED
    BY <1>1, <1>2, <2>2
<1>4. more = Append(pieces, P(n + 1))
  BY <1>1, <1>3
<1>5. FlattenSeq(Append(pieces, P(n + 1))) = FlattenSeq(pieces) \o P(n + 1)
  <2> HIDE DEF pieces
  <2>1. QED
    BY <1>3, FlattenAppend
<1>6. Flat(s, n) = FlattenSeq(pieces) /\ Flat(s, n + 1) = FlattenSeq(more)
  BY DEF Flat, P
<1>7. FlattenSeq(pieces) \in Seq(Byte)
  <2> HIDE DEF pieces
  <2>1. QED
    BY <1>3, FlattenTyped
<1> HIDE DEF pieces, more
<1>8. QED
  BY <1>4, <1>5, <1>6, <1>7 DEF P

LEMMA TransformedIs ==
  ASSUME NEW s \in Seq(Byte), opts \in TransformOptions
  PROVE  Transformed(s) = Flat(s, Len(s) + 1) /\ Transformed(s) \in Seq(Byte)
<1>1. Len(s) \in Nat /\ Len(s) \in 0..Len(s)
  BY LenProperties
<1>2. PieceAt(s, Len(s) + 1) = FinalPiece(s)
  BY DEF PieceAt
<1>3. [i \in 1..Len(s) |-> PieceAt(s, i)] = [i \in 1..Len(s) |-> Piece(s, i)]
  BY <1>1 DEF PieceAt
<1>4. Flat(s, Len(s)) = FlattenSeq([i \in 1..Len(s) |-> Piece(s, i)])
  BY <1>3 DEF Flat
<1>5. Transformed(s) = Flat(s, Len(s) + 1)
  BY <1>1, <1>2, <1>4, FlatStep DEF Transformed
<1>6. FinalPiece(s) \in Seq(Byte)
  BY <1>1, <1>2, PieceTypes
<1>7. Flat(s, Len(s)) \in Seq(Byte)
  BY <1>1, FlatStep
<1>8. Flat(s, Len(s)) \o FinalPiece(s) \in Seq(Byte)
  BY <1>6, <1>7, ConcatTyped
<1>9. QED
  BY <1>4, <1>5, <1>8 DEF Transformed

(* What the result has by n it keeps.                                      *)
LEMMA FlatExtends ==
  ASSUME NEW s \in Seq(Byte), opts \in TransformOptions, NEW n \in 0..(Len(s) + 1),
         NEW m \in n..(Len(s) + 1)
  PROVE  /\ Len(Flat(s, n)) <= Len(Flat(s, m))
         /\ \A i \in 1..Len(Flat(s, n)) : Flat(s, m)[i] = Flat(s, n)[i]
<1> DEFINE F(k) == Flat(s, k)
           S == {k \in n..(Len(s) + 1) : /\ F(k) \in Seq(Byte) /\ Len(F(n)) <= Len(F(k))
                                         /\ \A i \in 1..Len(F(n)) : F(k)[i] = F(n)[i]}
<1>1. Len(s) \in Nat
  BY LenProperties
<1>2. \A k \in 0..(Len(s) + 1) : F(k) \in Seq(Byte)
  <2> TAKE k \in 0..(Len(s) + 1)
  <2>1. \A i \in 1..k : PieceAt(s, i) \in Seq(Byte)
    BY <1>1, PieceTypes
  <2>2. QED
    BY <1>1, <2>1, FlatOver
<1>3. \A k \in 0..Len(s) : F(k + 1) = F(k) \o PieceAt(s, k + 1)
  BY FlatStep
<1> HIDE DEF F
<1>4. n \in S
  BY <1>1, <1>2, LenProperties
<1>5. ASSUME NEW k \in n..((Len(s) + 1) - 1), k \in S PROVE k + 1 \in S
  <2> DEFINE p == PieceAt(s, k + 1)
  <2>1. k \in 0..Len(s) /\ k + 1 \in n..(Len(s) + 1) /\ k + 1 \in 0..(Len(s) + 1)
    BY <1>1
  <2>2. p \in Seq(Byte) /\ F(k) \in Seq(Byte) /\ F(n) \in Seq(Byte) /\ F(k + 1) \in Seq(Byte)
    BY <1>1, <1>2, <2>1, PieceTypes
  <2>3. F(k + 1) = F(k) \o p
    BY <1>3, <2>1
  <2> HIDE DEF p
  <2>4. Len(F(k + 1)) = Len(F(k)) + Len(p) /\ \A i \in 1..Len(F(k)) : F(k + 1)[i] = F(k)[i]
    BY <2>2, <2>3, ConcatTyped
  <2>5. Len(F(n)) \in Nat /\ Len(F(k)) \in Nat /\ Len(p) \in Nat
    BY <2>2, LenProperties
  <2>6. Len(F(n)) <= Len(F(k)) /\ \A i \in 1..Len(F(n)) : F(k)[i] = F(n)[i]
    BY <1>5
  <2>7. \A i \in 1..Len(F(n)) : i \in 1..Len(F(k))
    BY <2>5, <2>6
  <2>8. QED
    BY <2>1, <2>2, <2>4, <2>5, <2>6, <2>7
<1> HIDE DEF S
<1>6. n..(Len(s) + 1) \subseteq S
  <2>1. n \in Int /\ Len(s) + 1 \in Int
    BY <1>1
  <2>2. QED
    BY <1>4, <1>5, <2>1, Induction
<1>7. m \in S
  BY <1>6
<1>8. QED
  BY <1>7 DEF S, F

(* Blanks at the end of a line leave the result as it is.                  *)
LEMMA TrailingBlanks ==
  ASSUME NEW s \in Seq(Byte), opts \in TransformOptions, opts.trim, NEW n \in 0..Len(s),
         NEW m \in n..Len(s), m = Len(s) \/ Starts(s)[m + 1],
         \A k \in (n + 1)..m : s[k] \in Blank
  PROVE  Flat(s, m) = Flat(s, n)
<1> DEFINE F(k) == Flat(s, k)
           S == {k \in n..m : F(k) = F(n)}
<1>1. Len(s) \in Nat /\ m \in Nat /\ n \in Nat
  BY LenProperties
<1>2. ASSUME NEW k \in n..(m - 1) PROVE F(k + 1) = F(k)
  <2>1. k \in 0..Len(s) /\ k + 1 \in 1..Len(s) /\ k + 1 \in (n + 1)..m
    BY <1>1
  <2>2. s[k + 1] \in Blank /\ ~Starts(s)[k + 1]
    BY <2>1, StartBytes
  <2>3. m + 1 \in LineEndFrom(s, k + 1)
    BY <1>1, <2>1 DEF LineEndFrom
  <2>4. \A i \in (k + 1)..((m + 1) - 1) : s[i] \in Blank
    BY <1>1
  <2>5. Trailing(s, k + 1)
    BY <2>3, <2>4 DEF Trailing
  <2>6. PieceAt(s, k + 1) = << >>
    BY <2>1, <2>2, <2>5, PieceIs
  <2>7. F(k + 1) = F(k) \o << >> /\ F(k) \in Seq(Byte)
    BY <2>1, <2>6, FlatStep
  <2>8. QED
    BY <2>7, ConcatEmptySeq
<1> HIDE DEF F
<1>3. n \in S
  BY <1>1
<1>4. ASSUME NEW k \in n..(m - 1), k \in S PROVE k + 1 \in S
  BY <1>1, <1>2, <1>4
<1> HIDE DEF S
<1>5. n..m \subseteq S
  BY <1>1, <1>3, <1>4, Induction
<1>6. m \in S
  BY <1>1, <1>5
<1>7. QED
  BY <1>6 DEF S, F

(* Blanks that content follows are part of the result.                     *)
LEMMA InnerBlanks ==
  ASSUME NEW s \in Seq(Byte), opts \in TransformOptions, NEW n \in 0..Len(s),
         NEW m \in n..(Len(s) - 1), ~Starts(s)[m + 1], s[m + 1] \notin Blank,
         \A k \in (n + 1)..m : s[k] \in Blank
  PROVE  Flat(s, m) = Flat(s, n) \o SubSeq(s, n + 1, m)
<1> DEFINE F(k) == Flat(s, k)
           G(k) == SubSeq(s, n + 1, k)
           S == {k \in n..m : F(k) = F(n) \o G(k)}
<1>1. Len(s) \in Nat /\ m \in Nat /\ n \in Nat
  BY LenProperties
<1>2. ASSUME NEW k \in n..(m - 1)
      PROVE  F(k + 1) = F(k) \o <<s[k + 1]>> /\ G(k + 1) = G(k) \o <<s[k + 1]>> /\ G(k) \in Seq(Byte)
  <2>1. k \in 0..Len(s) /\ k + 1 \in 1..Len(s) /\ k + 1 \in (n + 1)..m
    BY <1>1
  <2>2. s[k + 1] \in Blank /\ ~Starts(s)[k + 1]
    BY <2>1, StartBytes
  <2>3. ~Trailing(s, k + 1)
    <3>1. SUFFICES ASSUME NEW j \in LineEndFrom(s, k + 1), \A i \in (k + 1)..(j - 1) : s[i] \in Blank
                   PROVE  FALSE
      BY DEF Trailing
    <3>2. j \in (k + 1)..(Len(s) + 1) /\ (j = Len(s) + 1 \/ Starts(s)[j])
      BY DEF LineEndFrom
    <3>3. CASE j <= m
      <4>1. j \in (n + 1)..m /\ j \in 1..Len(s) /\ j # Len(s) + 1
        BY <1>1, <2>1, <3>2, <3>3
      <4>2. s[j] \in Blank
        BY <4>1
      <4>3. QED
        BY <3>2, <4>1, <4>2, StartBytes
    <3>4. CASE j = m + 1
      BY <1>1, <3>2, <3>4
    <3>5. CASE j > m + 1
      <4>1. m + 1 \in (k + 1)..(j - 1)
        BY <1>1, <2>1, <3>2, <3>5
      <4>2. QED
        BY <3>1, <4>1
    <3>6. QED
      BY <1>1, <2>1, <3>2, <3>3, <3>4, <3>5
  <2>4. PieceAt(s, k + 1) = <<s[k + 1]>>
    BY <2>1, <2>2, <2>3, PieceIs
  <2>5. F(k + 1) = F(k) \o <<s[k + 1]>>
    BY <2>1, <2>4, FlatStep
  <2>6. G(k + 1) = G(k) \o <<s[k + 1]>>
    <3>1. n + 1 \in 1..Len(s) /\ k + 1 \in (n + 1)..Len(s) /\ (k + 1) - 1 = k
      BY <1>1, <2>1
    <3>2. SubSeq(s, n + 1, k + 1) = SubSeq(s, n + 1, (k + 1) - 1) \o <<s[k + 1]>>
      BY <3>1, SubSeqRecursiveSecond
    <3>3. QED
      BY <3>1, <3>2
  <2>7. G(k) \in Seq(Byte)
    <3>1. \A i \in (n + 1)..k : s[i] \in Byte
      BY <1>1, <2>1, StartBytes
    <3>2. QED
      BY <1>1, <3>1, SubSeqProperties
  <2>8. QED
    BY <2>5, <2>6, <2>7
<1>3. F(n) \in Seq(Byte) /\ G(n) = << >>
  BY <1>1, FlatStep, SubSeqEmpty
<1>4. \A k \in n..(m - 1) : <<s[k + 1]>> \in Seq(Byte)
  BY <1>1, StartBytes
<1> HIDE DEF F, G
<1>5. n \in S
  BY <1>1, <1>3, ConcatEmptySeq
<1>6. ASSUME NEW k \in n..(m - 1), k \in S PROVE k + 1 \in S
  <2>1. F(k) = F(n) \o G(k) /\ k + 1 \in n..m
    BY <1>1, <1>6
  <2>2. F(k + 1) = (F(n) \o G(k)) \o <<s[k + 1]>>
    BY <1>2, <2>1
  <2>3. (F(n) \o G(k)) \o <<s[k + 1]>> = F(n) \o (G(k) \o <<s[k + 1]>>)
    BY <1>2, <1>3, <1>4, Associative
  <2>4. F(k + 1) = F(n) \o G(k + 1)
    BY <1>2, <2>2, <2>3
  <2>5. QED
    BY <2>1, <2>4
<1> HIDE DEF S
<1>7. n..m \subseteq S
  BY <1>1, <1>5, <1>6, Induction
<1>8. m \in S
  BY <1>1, <1>7
<1>9. QED
  BY <1>8 DEF S, F, G

-----------------------------------------------------------------------------
(* Where nothing is to change.                                             *)

(* What the bytes of the source are by themselves, by the same accounts.   *)
Own(s, i) ==
  IF InCRLF(s, i) THEN << >> ELSE IF EndsLine(s, i) THEN TermAt(s, i) ELSE <<s[i]>>

Accounted(s, n) == SubSeq(s, 1, IF InCRLF(s, n) THEN n - 1 ELSE n)

LEMMA PrefixGrows ==
  ASSUME NEW s \in Seq(Byte), NEW n \in 0..(Len(s) - 1)
  PROVE  SubSeq(s, 1, n + 1) = SubSeq(s, 1, n) \o <<s[n + 1]>> /\ SubSeq(s, 1, n) \in Seq(Byte)
<1>1. Len(s) \in Nat
  BY LenProperties
<1>2. 1 \in 1..Len(s) /\ n + 1 \in 1..Len(s) /\ (n + 1) - 1 = n
  BY <1>1
<1>3. SubSeq(s, 1, n + 1) = SubSeq(s, 1, (n + 1) - 1) \o <<s[n + 1]>>
  BY <1>2, SubSeqRecursiveSecond
<1>4. \A i \in 1..n : s[i] \in Byte
  BY <1>1, StartBytes
<1>5. SubSeq(s, 1, n) \in Seq(Byte)
  BY <1>1, <1>4, SubSeqProperties
<1>6. QED
  BY <1>2, <1>3, <1>5

LEMMA OwnStep ==
  ASSUME NEW s \in Seq(Byte), NEW n \in 0..(Len(s) - 1)
  PROVE  Accounted(s, n + 1) = Accounted(s, n) \o Own(s, n + 1) /\ Accounted(s, n) \in Seq(Byte)
<1>1. Len(s) \in Nat /\ n + 1 \in 1..Len(s) /\ (n + 1) - 1 = n /\ n \in Nat
  BY LenProperties
<1>2. SubSeq(s, 1, n + 1) = SubSeq(s, 1, n) \o <<s[n + 1]>> /\ SubSeq(s, 1, n) \in Seq(Byte)
  BY PrefixGrows
<1>3. CASE InCRLF(s, n + 1)
  <2>1. ~InCRLF(s, n)
    BY <1>1, <1>3, Kinds
  <2>2. Accounted(s, n + 1) = SubSeq(s, 1, n) /\ Accounted(s, n) = SubSeq(s, 1, n)
    BY <1>1, <1>3, <2>1 DEF Accounted
  <2>3. Own(s, n + 1) = << >>
    BY <1>3 DEF Own
  <2>4. QED
    BY <1>2, <2>2, <2>3, ConcatEmptySeq
<1>4. CASE InCRLF(s, n)
  <2>1. n \in 1..(Len(s) - 1) /\ s[n] = CR /\ s[n + 1] = LF
    BY <1>4 DEF InCRLF
  <2>2. ~InCRLF(s, n + 1) /\ EndsLine(s, n + 1)
    BY <1>1, <1>4, <2>1, Kinds
  <2>3. Own(s, n + 1) = <<CR, LF>>
    BY <1>1, <1>4, <2>2 DEF Own, TermAt
  <2>4. Accounted(s, n) = SubSeq(s, 1, n - 1) /\ Accounted(s, n + 1) = SubSeq(s, 1, n + 1)
    BY <1>4, <2>2 DEF Accounted
  <2>5. n - 1 \in 0..(Len(s) - 1) /\ (n - 1) + 1 = n
    BY <1>1, <2>1
  <2>6. SubSeq(s, 1, n) = SubSeq(s, 1, n - 1) \o <<CR>> /\ SubSeq(s, 1, n - 1) \in Seq(Byte)
    BY <2>1, <2>5, PrefixGrows
  <2> DEFINE head == SubSeq(s, 1, n - 1)
  <2>7. <<CR>> \in Seq(Byte) /\ <<LF>> \in Seq(Byte) /\ <<CR>> \o <<LF>> = <<CR, LF>>
    <3>1. CR \in Byte /\ LF \in Byte
      BY DEF Byte
    <3>2. <<CR>> \in Seq(Byte) /\ <<LF>> \in Seq(Byte)
      BY <3>1
    <3>3. Append(<<CR>>, LF) = <<CR>> \o <<LF>>
      BY <3>1, <3>2, AppendIsConcat
    <3>4. Append(<<CR>>, LF) = <<CR, LF>>
      <4>1. /\ Append(<<CR>>, LF) \in Seq(Byte) /\ Len(Append(<<CR>>, LF)) = 2
            /\ Append(<<CR>>, LF)[1] = CR /\ Append(<<CR>>, LF)[2] = LF
        BY <3>1, <3>2, AppendProperties
      <4>2. <<CR, LF>> \in Seq(Byte) /\ Len(<<CR, LF>>) = 2
        BY <3>1
      <4>3. \A i \in 1..2 : Append(<<CR>>, LF)[i] = <<CR, LF>>[i]
        BY <4>1
      <4>4. QED
        BY <4>1, <4>2, <4>3, SeqEqual
    <3>5. QED
      BY <3>2, <3>3, <3>4
  <2> HIDE DEF head
  <2>8. (head \o <<CR>>) \o <<LF>> = head \o <<CR, LF>>
    <3>1. head \in Seq(Byte)
      BY <2>6 DEF head
    <3>2. (head \o <<CR>>) \o <<LF>> = head \o (<<CR>> \o <<LF>>)
      BY <2>7, <3>1, Associative
    <3>3. QED
      BY <2>7, <3>2
  <2>9. SubSeq(s, 1, n + 1) = head \o <<CR, LF>>
    BY <1>2, <2>1, <2>6, <2>8 DEF head
  <2>10. QED
    BY <2>3, <2>4, <2>6, <2>9 DEF head
<1>5. CASE ~InCRLF(s, n) /\ ~InCRLF(s, n + 1)
  <2>1. Accounted(s, n) = SubSeq(s, 1, n) /\ Accounted(s, n + 1) = SubSeq(s, 1, n + 1)
    BY <1>5 DEF Accounted
  <2>2. Own(s, n + 1) = <<s[n + 1]>>
    BY <1>1, <1>5 DEF Own, TermAt
  <2>3. QED
    BY <1>2, <2>1, <2>2
<1>6. QED
  BY <1>3, <1>4, <1>5

(* As long as every byte stands for itself, so does what there is so far.  *)
LEMMA UnchangedSoFar ==
  ASSUME NEW s \in Seq(Byte), opts \in TransformOptions, NEW n \in 0..Len(s),
         \A i \in 1..n : PieceAt(s, i) = Own(s, i)
  PROVE  Flat(s, n) = Accounted(s, n)
<1> DEFINE F(k) == Flat(s, k)
           A(k) == Accounted(s, k)
           S == {k \in 0..n : F(k) = A(k)}
<1>1. Len(s) \in Nat /\ n \in Nat
  BY LenProperties
<1>2. F(0) = A(0)
  <2>1. ~InCRLF(s, 0) /\ SubSeq(s, 1, 0) = << >>
    BY <1>1, SubSeqEmpty DEF InCRLF
  <2>2. QED
    BY <2>1, FlatStarts DEF Accounted
<1>3. ASSUME NEW k \in 0..(n - 1) PROVE F(k + 1) = F(k) \o Own(s, k + 1) /\ A(k + 1) = A(k) \o Own(s, k + 1)
  <2>1. k \in 0..Len(s) /\ k \in 0..(Len(s) - 1) /\ k + 1 \in 1..n
    BY <1>1
  <2>2. QED
    BY <2>1, FlatStep, OwnStep
<1> HIDE DEF F, A
<1>4. 0 \in S
  BY <1>1, <1>2
<1>5. ASSUME NEW k \in 0..(n - 1), k \in S PROVE k + 1 \in S
  <2>1. k + 1 \in 0..n /\ F(k) = A(k)
    BY <1>1, <1>5
  <2>2. QED
    BY <1>3, <2>1
<1> HIDE DEF S
<1>6. 0..n \subseteq S
  BY <1>1, <1>4, <1>5, Induction
<1>7. n \in S
  BY <1>1, <1>6
<1>8. QED
  BY <1>7 DEF S, F, A

Unchanged(s) ==
  /\ \A i \in 1..Len(s) : PieceAt(s, i) = Own(s, i)
  /\ FinalPiece(s) = << >>

LEMMA UnchangedResult ==
  ASSUME NEW s \in Seq(Byte), opts \in TransformOptions, Unchanged(s)
  PROVE  Transformed(s) = s
<1>1. Len(s) \in Nat /\ Len(s) \in 0..Len(s) /\ ~InCRLF(s, Len(s))
  BY LenProperties DEF InCRLF
<1>2. Flat(s, Len(s)) = s
  BY <1>1, UnchangedSoFar, SubSeqFull DEF Unchanged, Accounted
<1>3. Flat(s, Len(s) + 1) = Flat(s, Len(s)) \o PieceAt(s, Len(s) + 1)
  BY <1>1, FlatStep
<1>4. PieceAt(s, Len(s) + 1) = << >>
  BY DEF PieceAt, Unchanged
<1>5. QED
  BY <1>2, <1>3, <1>4, TransformedIs, ConcatEmptySeq

LEMMA WantedIs ==
  ASSUME opts \in TransformOptions, NEW term \in Terminator
  PROVE  /\ opts.endings \in LineEnding
         /\ opts.endings = "keep" => Wanted(term) = term
         /\ opts.endings = "lf" => Wanted(term) = <<LF>>
         /\ opts.endings = "crlf" => Wanted(term) = <<CR, LF>>
         /\ opts.endings = "cr" => Wanted(term) = <<CR>>
         /\ Wanted(term) \in Terminator
         /\ Len(Wanted(term)) \in {1, 2} /\ Len(Wanted(term)) \in 1..Len(Wanted(term))
         /\ Wanted(term)[1] \in {CR, LF}
         /\ Wanted(term)[Len(Wanted(term))] \in {CR, LF}
<1>1. opts.endings \in LineEnding
  BY DEF TransformOptions
<1>2. /\ opts.endings = "keep" => Wanted(term) = term
      /\ opts.endings = "lf" => Wanted(term) = <<LF>>
      /\ opts.endings = "crlf" => Wanted(term) = <<CR, LF>>
      /\ opts.endings = "cr" => Wanted(term) = <<CR>>
  BY DEF Wanted
<1>3. Wanted(term) \in Terminator
  BY <1>1, <1>2 DEF LineEnding, Terminator
<1>4. \A t \in Terminator : Len(t) \in {1, 2} /\ Len(t) \in 1..Len(t) /\ t[1] \in {CR, LF} /\ t[Len(t)] \in {CR, LF}
  BY DEF Terminator
<1>5. QED
  BY <1>1, <1>2, <1>3, <1>4

(* What a byte adds is in the result, after what was there before.         *)
LEMMA PieceInResult ==
  ASSUME NEW s \in Seq(Byte), opts \in TransformOptions, NEW n \in 0..Len(s)
  PROVE  /\ Len(Flat(s, n)) \in Nat /\ Len(PieceAt(s, n + 1)) \in Nat /\ Len(Transformed(s)) \in Nat
         /\ Len(Flat(s, n)) + Len(PieceAt(s, n + 1)) <= Len(Transformed(s))
         /\ \A j \in 1..Len(PieceAt(s, n + 1)) :
              Transformed(s)[Len(Flat(s, n)) + j] = PieceAt(s, n + 1)[j]
<1> DEFINE F == Flat(s, n)
           G == Flat(s, n + 1)
           p == PieceAt(s, n + 1)
           T == Transformed(s)
<1>1. Len(s) \in Nat /\ n + 1 \in 1..(Len(s) + 1) /\ n + 1 \in 0..(Len(s) + 1)
  BY LenProperties
<1>2. p \in Seq(Byte) /\ F \in Seq(Byte) /\ G = F \o p /\ T \in Seq(Byte)
  BY <1>1, PieceTypes, FlatStep, TransformedIs
<1>3. Len(G) <= Len(T) /\ \A i \in 1..Len(G) : T[i] = G[i]
  <2>1. Len(s) + 1 \in (n + 1)..(Len(s) + 1)
    BY <1>1
  <2>2. T = Flat(s, Len(s) + 1)
    BY TransformedIs
  <2> HIDE DEF T
  <2>3. QED
    BY <1>1, <2>1, <2>2, FlatExtends
<1> HIDE DEF F, G, p, T
<1>4. Len(G) = Len(F) + Len(p) /\ \A j \in 1..Len(p) : G[Len(F) + j] = p[j]
  BY <1>2, ConcatTyped
<1>5. Len(F) \in Nat /\ Len(p) \in Nat /\ Len(T) \in Nat
  BY <1>2, LenProperties
<1>6. \A j \in 1..Len(p) : T[Len(F) + j] = p[j]
  <2> TAKE j \in 1..Len(p)
  <2>1. Len(F) + j \in 1..Len(G)
    BY <1>4, <1>5
  <2>2. QED
    BY <1>3, <1>4, <2>1
<1>7. QED
  BY <1>3, <1>4, <1>5, <1>6 DEF F, p, T

(* A byte that is neither content nor asked for is not in the result.      *)
LEMMA NotInResult ==
  ASSUME NEW s \in Seq(Byte), opts \in TransformOptions, NEW b,
         \A t \in Terminator : Wanted(t) \in Seq(Byte \ {b}),
         \A i \in 1..Len(s) : ~Starts(s)[i] => s[i] # b
  PROVE  \A i \in 1..Len(Transformed(s)) : Transformed(s)[i] # b
<1> DEFINE B == Byte \ {b}
<1>1. Len(s) \in Nat /\ << >> \in Seq(B)
  BY LenProperties, EmptySeq
<1>2. ASSUME NEW i \in 1..(Len(s) + 1) PROVE PieceAt(s, i) \in Seq(B)
  <2>1. CASE i = Len(s) + 1
    <3>1. <<LF>> \in Terminator
      BY DEF Terminator
    <3>2. QED
      BY <1>1, <2>1, <3>1 DEF PieceAt, FinalPiece
  <2>2. CASE i # Len(s) + 1
    <3>1. i \in 1..Len(s)
      BY <1>1, <2>2
    <3>2. CASE EndsLine(s, i)
      <4>1. PieceAt(s, i) = Wanted(TermAt(s, i)) /\ TermAt(s, i) \in Terminator
        BY <3>1, <3>2, Kinds, PieceIs
      <4>2. QED
        BY <4>1
    <3>3. CASE ~Starts(s)[i]
      <4>1. s[i] \in B
        BY <3>1, <3>3, StartBytes
      <4>2. <<s[i]>> \in Seq(B)
        BY <4>1
      <4>3. QED
        BY <1>1, <3>1, <3>3, <4>2, PieceIs
    <3>4. CASE InCRLF(s, i)
      BY <1>1, <3>1, <3>4, PieceIs
    <3>5. QED
      BY <3>1, <3>2, <3>3, <3>4, Kinds
  <2>3. QED
    BY <2>1, <2>2
<1>3. Flat(s, Len(s) + 1) \in Seq(B)
  <2> HIDE DEF B
  <2>1. Len(s) + 1 \in Nat
    BY <1>1
  <2>2. QED
    BY <1>2, <2>1, FlatOver
<1>4. Transformed(s) \in Seq(B)
  BY <1>3, TransformedIs
<1>5. QED
  BY <1>4

(* A trailing blank shows: in its place there is a terminator, or nothing. *)
LEMMA TrimmedShows ==
  ASSUME NEW s \in Seq(Byte), opts \in TransformOptions, opts.trim, NEW n \in 0..(Len(s) - 1),
         ~Starts(s)[n + 1], Trailing(s, n + 1), Len(Flat(s, n)) = n
  PROVE  Transformed(s) # s
<1>1. Len(s) \in Nat /\ n + 1 \in 1..Len(s)
  BY LenProperties
<1>2. PICK j \in LineEndFrom(s, n + 1) : \A k \in (n + 1)..(j - 1) : s[k] \in Blank
  BY DEF Trailing
<1>3. j \in (n + 2)..(Len(s) + 1) /\ (j = Len(s) + 1 \/ Starts(s)[j]) /\ s[n + 1] \in Blank
  <2>1. j \in (n + 1)..(Len(s) + 1) /\ (j = Len(s) + 1 \/ Starts(s)[j])
    BY DEF LineEndFrom
  <2>2. j # n + 1
    BY <1>1, <2>1
  <2>3. n + 1 \in (n + 1)..(j - 1)
    BY <1>1, <2>1, <2>2
  <2>4. QED
    BY <1>1, <1>2, <2>1, <2>2, <2>3
<1>4. Flat(s, j - 1) = Flat(s, n)
  <2>1. j - 1 \in n..Len(s) /\ (j - 1 = Len(s) \/ Starts(s)[(j - 1) + 1]) /\ n \in 0..Len(s)
    BY <1>1, <1>3
  <2>2. QED
    BY <1>2, <2>1, TrailingBlanks
<1>5. SUFFICES ASSUME Transformed(s) = s PROVE FALSE
  OBVIOUS
<1>6. ASSUME NEW m \in (j - 1)..Len(s), Flat(s, m) = Flat(s, n), NEW term \in Terminator,
             PieceAt(s, m + 1) = Wanted(term)
      PROVE  FALSE
  <2>1. m \in 0..Len(s)
    BY <1>1, <1>3
  <2>2. Len(PieceAt(s, m + 1)) \in {1, 2} /\ PieceAt(s, m + 1)[1] \in {CR, LF}
    BY <1>6, WantedIs
  <2>3. s[n + 1] = PieceAt(s, m + 1)[1]
    <3>1. 1 \in 1..Len(PieceAt(s, m + 1)) /\ Len(Flat(s, m)) = n
      BY <1>6, <2>2
    <3>2. \A i \in 1..Len(PieceAt(s, m + 1)) :
            Transformed(s)[Len(Flat(s, m)) + i] = PieceAt(s, m + 1)[i]
      BY <2>1, PieceInResult
    <3>3. QED
      BY <1>5, <3>1, <3>2
  <2>4. QED
    BY <1>3, <2>2, <2>3
<1>7. CASE j = Len(s) + 1
  <2>1. PieceAt(s, Len(s) + 1) = FinalPiece(s) /\ Flat(s, Len(s)) = Flat(s, n) /\ Len(s) \in (j - 1)..Len(s)
    BY <1>1, <1>4, <1>7 DEF PieceAt
  <2>2. FinalPiece(s) \in {<< >>, Wanted(<<LF>>)} /\ <<LF>> \in Terminator
    BY DEF FinalPiece, Terminator
  <2>3. FinalPiece(s) # Wanted(<<LF>>)
    BY <1>6, <2>1, <2>2
  <2>4. Transformed(s) = Flat(s, n) \o << >>
    <3>1. Len(s) \in 0..Len(s)
      BY <1>1
    <3>2. QED
      BY <2>1, <2>2, <2>3, <3>1, FlatStep, TransformedIs
  <2>5. Flat(s, n) \in Seq(Byte)
    BY <1>1, FlatStep
  <2>6. Len(s) = n
    BY <1>5, <2>4, <2>5, ConcatEmptySeq
  <2>7. QED
    BY <1>1, <2>6
<1>8. CASE j \in 1..Len(s) /\ EndsLine(s, j)
  <2>1. PieceAt(s, (j - 1) + 1) = Wanted(TermAt(s, j)) /\ TermAt(s, j) \in Terminator
    BY <1>1, <1>3, <1>8, PieceIs, Kinds
  <2>2. j - 1 \in (j - 1)..Len(s)
    BY <1>1, <1>3
  <2>3. QED
    BY <1>4, <1>6, <2>1, <2>2
<1>9. CASE j \in 1..Len(s) /\ InCRLF(s, j)
  <2>1. j + 1 \in 1..Len(s) /\ EndsLine(s, j + 1)
    BY <1>9, Kinds
  <2>2. PieceAt(s, j + 1) = Wanted(TermAt(s, j + 1)) /\ TermAt(s, j + 1) \in Terminator
    BY <2>1, PieceIs, Kinds
  <2>3. Flat(s, j) = Flat(s, n)
    <3>1. PieceAt(s, j) = << >> /\ j - 1 \in 0..Len(s) /\ (j - 1) + 1 = j
      BY <1>1, <1>3, <1>9, PieceIs
    <3>2. Flat(s, (j - 1) + 1) = Flat(s, j - 1) \o PieceAt(s, (j - 1) + 1) /\ Flat(s, j - 1) \in Seq(Byte)
      BY <3>1, FlatStep
    <3>3. QED
      BY <1>4, <3>1, <3>2, ConcatEmptySeq
  <2>4. j \in (j - 1)..Len(s)
    BY <1>1, <1>3, <1>9
  <2>5. QED
    BY <1>6, <2>2, <2>3, <2>4
<1>10. QED
  BY <1>1, <1>3, <1>7, <1>8, <1>9, Kinds

(* A result that is the source stands, byte by byte, for itself.           *)
LEMMA SameResult ==
  ASSUME NEW s \in Seq(Byte), opts \in TransformOptions, Transformed(s) = s
  PROVE  Unchanged(s)
<1> DEFINE P(i) == PieceAt(s, i)
           S == {n \in 0..Len(s) : \A i \in 1..n : P(i) = Own(s, i)}
<1>1. Len(s) \in Nat
  BY LenProperties
<1>2. 0 \in S
  BY <1>1
<1>3. ASSUME NEW n \in 0..(Len(s) - 1), \A i \in 1..n : P(i) = Own(s, i)
      PROVE  P(n + 1) = Own(s, n + 1)
  <2>1. n \in 0..Len(s) /\ n + 1 \in 1..Len(s) /\ (n + 1) - 1 = n
    BY <1>1
  <2>2. Flat(s, n) = Accounted(s, n)
    BY <1>3, <2>1, UnchangedSoFar
  <2>3. Len(Flat(s, n)) = IF InCRLF(s, n) THEN n - 1 ELSE n
    <3>1. \A m \in 0..Len(s) : Len(SubSeq(s, 1, m)) = m
      BY <1>1, SubSeqProperties
    <3>2. InCRLF(s, n) => n - 1 \in 0..Len(s)
      BY <1>1 DEF InCRLF
    <3>3. QED
      BY <2>1, <2>2, <3>1, <3>2 DEF Accounted
  <2> DEFINE a == Len(Flat(s, n))
             p == P(n + 1)
  <2>4. a + Len(p) <= Len(s) /\ \A j \in 1..Len(p) : s[a + j] = p[j]
    BY <2>1, PieceInResult
  <2>5. CASE InCRLF(s, n + 1)
    BY <2>1, <2>5, PieceIs DEF Own
  <2>6. CASE EndsLine(s, n + 1)
    <3>1. p = Wanted(TermAt(s, n + 1)) /\ Own(s, n + 1) = TermAt(s, n + 1) /\ TermAt(s, n + 1) \in Terminator
      BY <2>1, <2>6, PieceIs, Kinds DEF Own
    <3> HIDE DEF P
    <3>a. p \in Terminator
      BY <3>1, WantedIs
    <3>2. CASE InCRLF(s, n)
      <4>1. a = n - 1 /\ s[n] = CR /\ s[n + 1] = LF /\ TermAt(s, n + 1) = <<CR, LF>>
        BY <2>1, <2>3, <3>2 DEF InCRLF, TermAt
      <4>2. ASSUME Wanted(TermAt(s, n + 1)) = <<LF>> PROVE FALSE
        <5>1. s[a + 1] = LF /\ a + 1 = n
          BY <2>1, <2>4, <3>1, <4>1, <4>2
        <5>2. QED
          BY <4>1, <5>1
      <4>3. ASSUME opts.endings = "cr" PROVE FALSE
        <5>1. \A t \in Terminator : Wanted(t) \in Seq(Byte \ {LF})
          <6>1. CR \in Byte \ {LF}
            BY DEF Byte
          <6>2. <<CR>> \in Seq(Byte \ {LF})
            BY <6>1
          <6>3. QED
            BY <4>3, <6>2, WantedIs
        <5>2. \A i \in 1..Len(s) : ~Starts(s)[i] => s[i] # LF
          BY StartsIs
        <5>3. QED
          BY <2>1, <4>1, <5>1, <5>2, NotInResult
      <4>4. QED
        BY <3>1, <4>1, <4>2, <4>3, WantedIs DEF LineEnding
    <3>3. CASE ~InCRLF(s, n)
      <4>1. a = n /\ TermAt(s, n + 1) = <<s[n + 1]>>
        BY <2>1, <2>3, <3>3 DEF TermAt
      <4>2. CASE Len(p) = 1
        <5>1. s[n + 1] = p[1]
          <6>1. 1 \in 1..Len(p)
            BY <4>2
          <6>2. s[n + 1] = p[1]
            <7>1. \A j \in 1..Len(p) : s[n + j] = p[j]
              BY <2>4, <4>1
            <7> HIDE DEF p
            <7> QED BY <6>1, <7>1
          <6>3. QED
            BY <6>2
        <5>2. p = <<p[1]>>
          BY <3>a, <4>2 DEF Terminator
        <5>3. QED
          BY <3>1, <4>1, <5>1, <5>2
      <4>3. CASE Len(p) = 2
        <5>1. p = <<CR, LF>>
          BY <3>a, <4>3 DEF Terminator
        <5>2. n + 2 <= Len(s) /\ s[n + 1] = CR /\ s[n + 2] = LF
          <6>1. n + Len(p) <= Len(s) /\ \A j \in 1..Len(p) : s[n + j] = p[j]
            BY <2>4, <4>1
          <6>2. n + 2 <= Len(s)
            BY <4>3, <6>1
          <6>3. 1 \in 1..Len(p) /\ 2 \in 1..Len(p) /\ p[1] = CR /\ p[2] = LF
            BY <4>3, <5>1
          <6>4. s[n + 1] = p[1] /\ s[n + 2] = p[2]
            <7> HIDE DEF p
            <7> QED BY <6>1, <6>3
          <6>5. QED
            BY <6>2, <6>3, <6>4
        <5>3. (n + 1) + 1 = n + 2 /\ n + 1 \in 1..(Len(s) - 1) /\ Starts(s)[n + 1]
          BY <1>1, <2>1, <2>6, <5>2 DEF EndsLine
        <5>4. InCRLF(s, n + 1)
          BY <5>2, <5>3 DEF InCRLF
        <5>5. QED
          BY <2>6, <5>4 DEF EndsLine
      <4>4. QED
        BY <3>1, <4>2, <4>3, WantedIs
    <3>4. QED
      BY <3>2, <3>3 DEF P
  <2>7. CASE ~Starts(s)[n + 1]
    <3>1. ~InCRLF(s, n)
      <4>1. InCRLF(s, n) => n \in 1..Len(s)
        BY <1>1 DEF InCRLF
      <4>2. QED
        BY <2>7, <4>1, Kinds
    <3>2. a = n
      BY <2>3, <3>1
    <3>3. ~(opts.trim /\ Trailing(s, n + 1))
      BY <2>7, <3>2, TrimmedShows
    <3>4. p = <<s[n + 1]>>
      BY <2>1, <2>7, <3>3, PieceIs
    <3>5. QED
      BY <2>1, <2>7, <3>4, Kinds DEF Own
  <2>8. QED
    BY <2>1, <2>5, <2>6, <2>7, Kinds
<1>4. ASSUME NEW n \in 0..(Len(s) - 1), n \in S PROVE n + 1 \in S
  <2>1. \A i \in 1..n : P(i) = Own(s, i)
    BY <1>4
  <2>2. P(n + 1) = Own(s, n + 1)
    BY <1>3, <2>1
  <2> HIDE DEF P
  <2>3. \A i \in 1..(n + 1) : i \in 1..n \/ i = n + 1
    BY <1>1
  <2>4. QED
    BY <1>1, <2>1, <2>2, <2>3
<1>5. 0..Len(s) \subseteq S
  <2> HIDE DEF S
  <2>1. 0 \in Int /\ Len(s) \in Int
    BY <1>1
  <2>2. QED
    BY <1>2, <1>4, <2>1, Induction
<1>6. \A i \in 1..Len(s) : P(i) = Own(s, i)
  <2>1. Len(s) \in S
    BY <1>1, <1>5
  <2>2. QED
    BY <2>1
<1>7. FinalPiece(s) = << >>
  <2>1. Len(s) \in 0..Len(s) /\ ~InCRLF(s, Len(s))
    BY <1>1 DEF InCRLF
  <2>2. Flat(s, Len(s)) = s
    BY <1>6, <2>1, UnchangedSoFar, SubSeqFull DEF Accounted
  <2>3. PieceAt(s, Len(s) + 1) = FinalPiece(s)
    BY DEF PieceAt
  <2>4. Len(FinalPiece(s)) = 0
    BY <1>1, <2>1, <2>2, <2>3, PieceInResult
  <2>5. FinalPiece(s) \in Seq(Byte)
    BY <1>1, <2>3, PieceTypes
  <2>6. QED
    BY <2>4, <2>5, EmptySeq
<1>8. QED
  BY <1>6, <1>7 DEF Unchanged

-----------------------------------------------------------------------------
(* Where no CR follows a CR, the result is one that nothing changes.       *)

NoPair(s) == {i \in 1..(Len(s) - 1) : s[i] = CR /\ s[i + 1] = CR} = {}

LEMMA StartsWithoutPairs ==
  ASSUME NEW s \in Seq(Byte), NoPair(s), NEW i \in 1..Len(s)
  PROVE  Starts(s)[i] <=> s[i] \in {CR, LF}
<1>1. Len(s) \in Nat
  BY LenProperties
<1>2. s[i] = CR => i = 1 \/ s[i - 1] # CR
  <2>1. i # 1 => i - 1 \in 1..(Len(s) - 1) /\ (i - 1) + 1 = i
    BY <1>1
  <2>2. QED
    BY <2>1 DEF NoPair
<1>3. QED
  BY <1>2, StartsIs

(* After a blank that stays comes content that stays.                      *)
LEMMA BlankGoesOn ==
  ASSUME NEW s \in Seq(Byte), NEW n \in 1..Len(s), s[n] \in Blank, ~Trailing(s, n)
  PROVE  n + 1 \in 1..Len(s) /\ ~Starts(s)[n + 1] /\ ~Trailing(s, n + 1)
<1>1. Len(s) \in Nat /\ n \in Nat
  BY LenProperties
<1>2. \A j \in n..(Len(s) + 1) :
        (j = Len(s) + 1 \/ Starts(s)[j]) => \E k \in n..(j - 1) : s[k] \notin Blank
  BY DEF Trailing, LineEndFrom
<1>3. \A k \in n..((n + 1) - 1) : s[k] \in Blank
  BY <1>1
<1>4. n + 1 \in n..(Len(s) + 1)
  BY <1>1
<1>5. n + 1 # Len(s) + 1 /\ ~Starts(s)[n + 1]
  BY <1>2, <1>3, <1>4
<1>6. ~Trailing(s, n + 1)
  <2>1. SUFFICES ASSUME NEW j \in LineEndFrom(s, n + 1), \A k \in (n + 1)..(j - 1) : s[k] \in Blank
                 PROVE  FALSE
    BY DEF Trailing
  <2>2. j \in (n + 1)..(Len(s) + 1) /\ (j = Len(s) + 1 \/ Starts(s)[j])
    BY DEF LineEndFrom
  <2>3. j \in n..(Len(s) + 1)
    BY <1>1, <2>2
  <2>4. PICK k \in n..(j - 1) : s[k] \notin Blank
    BY <1>2, <2>2, <2>3
  <2>5. k \in (n + 1)..(j - 1)
    BY <1>1, <2>2, <2>4
  <2>6. QED
    BY <2>1, <2>4, <2>5
<1>7. QED
  BY <1>1, <1>5, <1>6

(* What a byte adds then: nothing, a terminator that is asked for, or      *)
(* itself, which is no part of one and no trailing blank.                  *)
LEMMA PieceKinds ==
  ASSUME NEW s \in Seq(Byte), opts \in TransformOptions, NoPair(s), NEW n \in 0..Len(s)
  PROVE  \/ PieceAt(s, n + 1) = << >>
         \/ /\ \E t \in Terminator : PieceAt(s, n + 1) = Wanted(t)
         \/ /\ n + 1 \in 1..Len(s) /\ PieceAt(s, n + 1) = <<s[n + 1]>>
            /\ s[n + 1] \in Byte \ {CR, LF} /\ ~(opts.trim /\ Trailing(s, n + 1))
<1>1. Len(s) \in Nat
  BY LenProperties
<1>2. CASE n = Len(s)
  <2>1. <<LF>> \in Terminator
    BY DEF Terminator
  <2>2. QED
    BY <1>2, <2>1 DEF PieceAt, FinalPiece
<1>3. CASE n + 1 \in 1..Len(s)
  <2>1. CASE InCRLF(s, n + 1)
    BY <1>3, <2>1, PieceIs
  <2>2. CASE EndsLine(s, n + 1)
    BY <1>3, <2>2, PieceIs, Kinds
  <2>3. CASE ~Starts(s)[n + 1]
    <3>1. s[n + 1] \in Byte \ {CR, LF}
      BY <1>3, <2>3, StartsWithoutPairs, StartBytes
    <3>2. QED
      BY <1>3, <2>3, <3>1, PieceIs
  <2>4. QED
    BY <1>3, <2>1, <2>2, <2>3, Kinds
<1>4. QED
  BY <1>1, <1>2, <1>3

(* The blanks of a trimmed result are followed by content.                 *)
NoTrailing(f) == \A i \in 1..(Len(f) - 1) : f[i] \in Blank => f[i + 1] \notin {CR, LF}

LEMMA ResultIsTrimmed ==
  ASSUME NEW s \in Seq(Byte), opts \in TransformOptions, opts.trim, NoPair(s)
  PROVE  \A i \in 1..Len(Transformed(s)) :
           Transformed(s)[i] \in Blank =>
             i + 1 \in 1..Len(Transformed(s)) /\ Transformed(s)[i + 1] \notin {CR, LF}
<1> DEFINE F(n) == Flat(s, n)
           P(n) == PieceAt(s, n)
           Stays(n) == n \in 1..Len(s) /\ s[n] \in Blank /\ ~Trailing(s, n)
           S == {n \in 0..(Len(s) + 1) : /\ NoTrailing(F(n))
                                         /\ F(n) # << >> /\ F(n)[Len(F(n))] \in Blank => Stays(n)}
<1>1. Len(s) \in Nat
  BY LenProperties
<1>2. 0 \in S
  <2>1. F(0) = << >> /\ Len(<< >>) = 0
    BY FlatStarts
  <2>2. NoTrailing(<< >>)
    BY <2>1 DEF NoTrailing
  <2>3. QED
    BY <1>1, <2>1, <2>2
<1>3. ASSUME NEW n \in 0..Len(s), n \in S PROVE n + 1 \in S
  <2> DEFINE f == F(n)
             g == F(n + 1)
             p == P(n + 1)
             a == Len(f)
  <2>1. f \in Seq(Byte) /\ p \in Seq(Byte) /\ g = f \o p /\ n + 1 \in 0..(Len(s) + 1)
    BY <1>1, FlatStep, PieceTypes
  <2>2. NoTrailing(f) /\ (f # << >> /\ f[a] \in Blank => Stays(n))
    BY <1>3
  <2>3. Stays(n) => p = <<s[n + 1]>> /\ s[n + 1] \in Byte \ {CR, LF}
    <3>1. SUFFICES ASSUME Stays(n) PROVE p = <<s[n + 1]>> /\ s[n + 1] \in Byte \ {CR, LF}
      OBVIOUS
    <3>2. n + 1 \in 1..Len(s) /\ ~Starts(s)[n + 1] /\ ~Trailing(s, n + 1)
      BY <3>1, BlankGoesOn
    <3>3. s[n + 1] \in Byte \ {CR, LF}
      BY <3>2, StartsWithoutPairs, StartBytes
    <3>4. QED
      BY <3>2, <3>3, PieceIs
  <2>4. \/ p = << >>
        \/ \E t \in Terminator : p = Wanted(t)
        \/ /\ n + 1 \in 1..Len(s) /\ p = <<s[n + 1]>>
           /\ s[n + 1] \in Byte \ {CR, LF} /\ ~Trailing(s, n + 1)
    BY PieceKinds
  <2>5. a \in Nat /\ Len(p) \in Nat /\ (a = 0 <=> f = << >>) /\ Len(g) = a + Len(p)
    BY <2>1, LenProperties, EmptySeq, ConcatTyped
  <2>6. (\A i \in 1..a : g[i] = f[i]) /\ \A i \in 1..Len(p) : g[a + i] = p[i]
    BY <2>1, ConcatTyped
  <2> HIDE DEF Stays, F, P
  <2>7. CASE p = << >>
    <3>1. g = f
      BY <2>1, <2>7, ConcatEmptySeq
    <3>2. ~Stays(n)
      BY <2>3, <2>7
    <3>3. QED
      BY <2>1, <2>2, <3>1, <3>2
  <2>8. CASE \E t \in Terminator : p = Wanted(t)
    <3>1. Len(p) \in {1, 2} /\ p[1] \in {CR, LF} /\ p[Len(p)] \in {CR, LF}
      BY <2>8, WantedIs
    <3>2. ~Stays(n)
      <4>1. p[1] \notin Byte \ {CR, LF}
        BY <3>1
      <4>2. QED
        BY <2>3, <4>1
    <3>3. a # 0 => f[a] \notin Blank
      BY <2>2, <2>5, <3>2
    <3>4. NoTrailing(g)
      <4>1. SUFFICES ASSUME NEW i \in 1..(Len(g) - 1), g[i] \in Blank PROVE g[i + 1] \notin {CR, LF}
        BY DEF NoTrailing
      <4>2. CASE i \in 1..(a - 1)
        <5>1. g[i] = f[i] /\ g[i + 1] = f[i + 1]
          BY <2>5, <2>6, <4>2
        <5>2. QED
          BY <2>2, <4>1, <4>2, <5>1 DEF NoTrailing
      <4>3. CASE i = a
        <5>1. g[i] = f[a] /\ a # 0
          BY <2>5, <2>6, <4>3
        <5>2. QED
          BY <3>3, <4>1, <5>1
      <4>4. CASE i = a + 1
        <5>1. g[i] = p[1]
          BY <2>6, <3>1, <4>4
        <5>2. QED
          BY <3>1, <4>1, <5>1
      <4>5. QED
        BY <2>5, <3>1, <4>2, <4>3, <4>4
    <3>5. g[Len(g)] = p[Len(p)]
      BY <2>5, <2>6, <3>1
    <3>6. g[Len(g)] \notin Blank
      BY <3>1, <3>5
    <3>7. QED
      BY <2>1, <3>4, <3>6
  <2>9. CASE /\ n + 1 \in 1..Len(s) /\ p = <<s[n + 1]>>
             /\ s[n + 1] \in Byte \ {CR, LF} /\ ~Trailing(s, n + 1)
    <3>1. Len(p) = 1 /\ p[1] = s[n + 1]
      BY <2>9
    <3>2. Len(g) = a + 1 /\ g[a + 1] = s[n + 1]
      BY <2>5, <2>6, <3>1
    <3>3. NoTrailing(g)
      <4>1. SUFFICES ASSUME NEW i \in 1..a, g[i] \in Blank PROVE g[i + 1] \notin {CR, LF}
        BY <2>5, <3>2 DEF NoTrailing
      <4>2. CASE i = a
        BY <2>9, <3>2, <4>2
      <4>3. CASE i \in 1..(a - 1)
        <5>1. g[i] = f[i] /\ g[i + 1] = f[i + 1]
          BY <2>5, <2>6, <4>3
        <5>2. QED
          BY <2>2, <4>1, <4>3, <5>1 DEF NoTrailing
      <4>4. QED
        BY <2>5, <4>2, <4>3
    <3>4. g[Len(g)] \in Blank => Stays(n + 1)
      BY <2>9, <3>2 DEF Stays
    <3>5. QED
      BY <2>1, <3>3, <3>4
  <2>10. QED
    BY <2>4, <2>7, <2>8, <2>9
<1>4. Len(s) + 1 \in S
  <2>1. 0 \in Int /\ Len(s) + 1 \in Int
    BY <1>1
  <2> HIDE DEF S
  <2>2. 0..(Len(s) + 1) \subseteq S
    <3>1. ASSUME NEW n \in 0..((Len(s) + 1) - 1), n \in S PROVE n + 1 \in S
      <4>1. n \in 0..Len(s)
        BY <1>1
      <4>2. QED
        BY <1>3, <3>1, <4>1
    <3>2. QED
      BY <1>2, <2>1, <3>1, Induction
  <2>3. QED
    BY <1>1, <2>2
<1> DEFINE T == Transformed(s)
<1>5. T = F(Len(s) + 1) /\ T \in Seq(Byte) /\ ~Stays(Len(s) + 1)
  BY <1>1, TransformedIs
<1>6. NoTrailing(T) /\ (T # << >> => T[Len(T)] \notin Blank)
  <2> HIDE DEF T, F, Stays
  <2>1. QED
    BY <1>4, <1>5
<1> HIDE DEF T
<1>7. Len(T) \in Nat /\ (T = << >> => Len(T) = 0)
  BY <1>5, LenProperties, EmptySeq
<1>8. \A i \in 1..Len(T) : T[i] \in Blank => i + 1 \in 1..Len(T) /\ T[i + 1] \notin {CR, LF}
  BY <1>6, <1>7 DEF NoTrailing
<1>9. QED
  BY <1>8 DEF T

(* With "crlf" the CRs and the LFs of the result go together.              *)
Paired(f) ==
  \A i \in 1..Len(f) : /\ f[i] = LF => i > 1 /\ f[i - 1] = CR
                       /\ f[i] = CR => i < Len(f) /\ f[i + 1] = LF

LEMMA ResultIsPaired ==
  ASSUME NEW s \in Seq(Byte), opts \in TransformOptions, opts.endings = "crlf", NoPair(s)
  PROVE  Paired(Transformed(s))
<1> DEFINE F(n) == Flat(s, n)
           P(n) == PieceAt(s, n)
           S == {n \in 0..(Len(s) + 1) : Paired(F(n))}
<1>1. Len(s) \in Nat
  BY LenProperties
<1>2. 0 \in S
  <2>1. F(0) = << >> /\ Len(<< >>) = 0
    BY FlatStarts
  <2>2. Paired(<< >>)
    BY <2>1 DEF Paired
  <2>3. QED
    BY <1>1, <2>1, <2>2
<1>3. ASSUME NEW n \in 0..((Len(s) + 1) - 1), n \in S PROVE n + 1 \in S
  <2> DEFINE f == F(n)
             g == F(n + 1)
             p == P(n + 1)
             a == Len(f)
  <2>0. n \in 0..Len(s)
    BY <1>1
  <2>1. f \in Seq(Byte) /\ p \in Seq(Byte) /\ g = f \o p /\ n + 1 \in 0..(Len(s) + 1)
    BY <1>1, <2>0, FlatStep, PieceTypes
  <2>2. Paired(f)
    BY <1>3
  <2>3. \/ p = << >>
        \/ \E t \in Terminator : p = Wanted(t)
        \/ p = <<s[n + 1]>> /\ s[n + 1] \notin {CR, LF}
    BY <2>0, PieceKinds
  <2>4. p = << >> \/ p = <<CR, LF>> \/ (p = <<s[n + 1]>> /\ s[n + 1] \notin {CR, LF})
    BY <2>3, WantedIs
  <2>5. a \in Nat /\ Len(p) \in Nat /\ Len(g) = a + Len(p)
    BY <2>1, LenProperties, ConcatTyped
  <2>6. (\A i \in 1..a : g[i] = f[i]) /\ \A i \in 1..Len(p) : g[a + i] = p[i]
    BY <2>1, ConcatTyped
  <2> HIDE DEF F, P
  <2>7. ASSUME NEW i \in 1..a
        PROVE  /\ g[i] = LF => i > 1 /\ g[i - 1] = CR
               /\ g[i] = CR => i < Len(g) /\ g[i + 1] = LF
    <3>1. /\ f[i] = LF => i > 1 /\ f[i - 1] = CR
          /\ f[i] = CR => i < a /\ f[i + 1] = LF
      BY <2>2 DEF Paired
    <3>2. g[i] = f[i] /\ (i > 1 => g[i - 1] = f[i - 1]) /\ (i < a => g[i + 1] = f[i + 1])
      BY <2>5, <2>6
    <3>3. QED
      BY <2>5, <3>1, <3>2
  <2>8. CASE p = << >>
    BY <2>1, <2>2, <2>8, ConcatEmptySeq
  <2>9. CASE p = <<CR, LF>>
    <3>1. Len(p) = 2 /\ p[1] = CR /\ p[2] = LF
      BY <2>9
    <3>2. g[a + 1] = CR /\ g[a + 2] = LF /\ Len(g) = a + 2
      <4>1. 1 \in 1..Len(p) /\ 2 \in 1..Len(p)
        BY <3>1
      <4>2. g[a + 1] = p[1] /\ g[a + 2] = p[2]
        BY <2>6, <4>1
      <4>3. QED
        BY <2>5, <3>1, <4>2
    <3>3. ASSUME NEW i \in {a + 1, a + 2}
          PROVE  /\ g[i] = LF => i > 1 /\ g[i - 1] = CR
                 /\ g[i] = CR => i < Len(g) /\ g[i + 1] = LF
      <4>1. (a + 2) - 1 = a + 1 /\ (a + 1) + 1 = a + 2
        BY <2>5
      <4>2. QED
        BY <2>5, <3>2, <4>1
    <3>4. \A i \in 1..Len(g) : i \in 1..a \/ i \in {a + 1, a + 2}
      BY <2>5, <3>2
    <3>5. Paired(g)
      BY <2>7, <3>3, <3>4 DEF Paired
    <3>6. QED
      BY <2>1, <3>5
  <2>10. CASE p = <<s[n + 1]>> /\ s[n + 1] \notin {CR, LF}
    <3>1. Len(p) = 1 /\ p[1] = s[n + 1]
      BY <2>10
    <3>2. g[a + 1] \notin {CR, LF} /\ Len(g) = a + 1
      BY <2>5, <2>6, <2>10, <3>1
    <3>3. \A i \in 1..Len(g) : i \in 1..a \/ i = a + 1
      BY <2>5, <3>2
    <3>4. Paired(g)
      BY <2>7, <3>2, <3>3 DEF Paired
    <3>5. QED
      BY <2>1, <3>4
  <2>11. QED
    BY <2>4, <2>8, <2>9, <2>10
<1>4. Len(s) + 1 \in S
  <2>1. 0 \in Int /\ Len(s) + 1 \in Int
    BY <1>1
  <2> HIDE DEF S
  <2>2. 0..(Len(s) + 1) \subseteq S
    BY <1>2, <1>3, <2>1, Induction
  <2>3. QED
    BY <1>1, <2>2
<1>5. QED
  BY <1>4, TransformedIs

(* With a final newline the result is empty or ends with a terminator.     *)
LEMMA ResultIsFinished ==
  ASSUME NEW s \in Seq(Byte), opts \in TransformOptions, opts.final, Transformed(s) # << >>
  PROVE  Transformed(s)[Len(Transformed(s))] \in {CR, LF}
<1> DEFINE T == Transformed(s)
           F(n) == Flat(s, n)
<1>1. Len(s) \in Nat /\ T \in Seq(Byte) /\ Len(s) \in 0..Len(s)
  BY LenProperties, TransformedIs
<1>2. ASSUME NEW n \in 0..Len(s), T = F(n + 1), NEW t \in Terminator, PieceAt(s, n + 1) = Wanted(t)
      PROVE  T[Len(T)] \in {CR, LF}
  <2> DEFINE p == PieceAt(s, n + 1)
             f == F(n)
  <2>1. f \in Seq(Byte) /\ p \in Seq(Byte) /\ T = f \o p
    BY <1>1, <1>2, FlatStep, PieceTypes
  <2>2. Len(p) \in {1, 2} /\ p[Len(p)] \in {CR, LF}
    BY <1>2, WantedIs
  <2>a. Len(p) \in 1..Len(p)
    BY <1>2, WantedIs
  <2> HIDE DEF p, f, T
  <2>3. Len(T) = Len(f) + Len(p) /\ \A i \in 1..Len(p) : T[Len(f) + i] = p[i]
    BY <2>1, ConcatTyped
  <2>4. T[Len(T)] = p[Len(p)]
    <3>1. T[Len(f) + Len(p)] = p[Len(p)]
      BY <2>a, <2>3, Zenon
    <3>2. QED
      BY <2>3, <3>1, Zenon
  <2>5. QED
    BY <2>2, <2>4
<1>3. T = F(Len(s) + 1) /\ PieceAt(s, Len(s) + 1) = FinalPiece(s)
  BY TransformedIs DEF PieceAt
<1>4. CASE s = << >>
  <2>1. Len(s) = 0 /\ FinalPiece(s) = << >>
    BY <1>4 DEF FinalPiece
  <2>2. T = F(0) \o << >>
    BY <1>1, <1>3, <2>1, FlatStep
  <2>3. T = << >>
    BY <2>2, FlatStarts, ConcatEmptySeq
  <2>4. QED
    BY <2>3
<1>5. CASE s # << >> /\ ~Starts(s)[Len(s)]
  <2>1. FinalPiece(s) = Wanted(<<LF>>) /\ <<LF>> \in Terminator
    BY <1>5 DEF FinalPiece, Terminator
  <2>2. QED
    BY <1>1, <1>2, <1>3, <2>1
<1>6. CASE s # << >> /\ Starts(s)[Len(s)]
  <2>1. Len(s) \in 1..Len(s) /\ Len(s) - 1 \in 0..Len(s) /\ (Len(s) - 1) + 1 = Len(s)
    BY <1>1, <1>6, EmptySeq
  <2>2. EndsLine(s, Len(s))
    BY <1>1, <1>6, <2>1 DEF EndsLine, InCRLF
  <2>3. PieceAt(s, Len(s)) = Wanted(TermAt(s, Len(s))) /\ TermAt(s, Len(s)) \in Terminator
    BY <2>1, <2>2, PieceIs, Kinds
  <2>4. T = F(Len(s))
    <3>1. FinalPiece(s) = << >>
      BY <1>6 DEF FinalPiece
    <3>2. T = F(Len(s)) \o << >> /\ F(Len(s)) \in Seq(Byte)
      BY <1>1, <1>3, <3>1, FlatStep
    <3>3. QED
      BY <3>2, ConcatEmptySeq
  <2>5. QED
    BY <1>2, <2>1, <2>3, <2>4
<1>7. QED
  BY <1>4, <1>5, <1>6

(* Such a result is left as it is.                                         *)
LEMMA ResultIsUnchanged ==
  ASSUME NEW s \in Seq(Byte), opts \in TransformOptions, NoPair(s), NoPair(Transformed(s))
  PROVE  Unchanged(Transformed(s))
<1> DEFINE T == Transformed(s)
<1>1. T \in Seq(Byte) /\ Len(T) \in Nat
  BY TransformedIs, LenProperties
<1>2. \A i \in 1..Len(T) : Starts(T)[i] <=> T[i] \in {CR, LF}
  BY <1>1, StartsWithoutPairs
<1>3. opts.endings = "lf" => \A i \in 1..Len(T) : T[i] # CR
  <2>1. SUFFICES ASSUME opts.endings = "lf" PROVE \A i \in 1..Len(T) : T[i] # CR
    OBVIOUS
  <2>2. LF \in Byte \ {CR}
    BY DEF Byte
  <2>3. <<LF>> \in Seq(Byte \ {CR})
    BY <2>2
  <2>4. \A t \in Terminator : Wanted(t) \in Seq(Byte \ {CR})
    BY <2>1, <2>3, WantedIs
  <2>5. \A i \in 1..Len(s) : ~Starts(s)[i] => s[i] # CR
    BY StartsWithoutPairs
  <2>6. QED
    BY <2>4, <2>5, NotInResult
<1>4. opts.endings = "cr" => \A i \in 1..Len(T) : T[i] # LF
  <2>1. SUFFICES ASSUME opts.endings = "cr" PROVE \A i \in 1..Len(T) : T[i] # LF
    OBVIOUS
  <2>2. CR \in Byte \ {LF}
    BY DEF Byte
  <2>3. <<CR>> \in Seq(Byte \ {LF})
    BY <2>2
  <2>4. \A t \in Terminator : Wanted(t) \in Seq(Byte \ {LF})
    BY <2>1, <2>3, WantedIs
  <2>5. \A i \in 1..Len(s) : ~Starts(s)[i] => s[i] # LF
    BY StartsIs
  <2>6. QED
    BY <2>4, <2>5, NotInResult
<1>5. opts.endings = "crlf" => Paired(T)
  BY ResultIsPaired
<1>6. opts.trim => \A i \in 1..Len(T) : T[i] \in Blank => i + 1 \in 1..Len(T) /\ T[i + 1] \notin {CR, LF}
  BY ResultIsTrimmed
<1>7. opts.final /\ T # << >> => T[Len(T)] \in {CR, LF}
  BY ResultIsFinished
<1> HIDE DEF T
<1>8. ASSUME NEW i \in 1..Len(T) PROVE PieceAt(T, i) = Own(T, i)
  <2>1. CASE InCRLF(T, i)
    BY <1>1, <2>1, PieceIs DEF Own
  <2>2. CASE EndsLine(T, i)
    <3>1. TermAt(T, i) \in Terminator /\ T[i] \in {CR, LF} /\ ~InCRLF(T, i)
      BY <1>1, <1>2, <2>2, Kinds
    <3>2. PieceAt(T, i) = Wanted(TermAt(T, i)) /\ Own(T, i) = TermAt(T, i)
      BY <1>1, <2>2, <3>1, PieceIs DEF Own
    <3>3. InCRLF(T, i - 1) => i - 1 \in 1..Len(T) /\ T[i - 1] = CR /\ T[i] = LF
      BY <1>1 DEF InCRLF
    <3>4. CASE opts.endings = "keep"
      BY <3>1, <3>2, <3>4, WantedIs
    <3>5. CASE opts.endings = "lf"
      <4>1. ~InCRLF(T, i - 1) /\ T[i] = LF
        BY <1>3, <3>1, <3>3, <3>5
      <4>2. QED
        BY <3>1, <3>2, <3>5, <4>1, WantedIs DEF TermAt
    <3>6. CASE opts.endings = "cr"
      <4>1. ~InCRLF(T, i - 1) /\ T[i] = CR
        BY <1>4, <3>1, <3>3, <3>6
      <4>2. QED
        BY <3>1, <3>2, <3>6, <4>1, WantedIs DEF TermAt
    <3>7. CASE opts.endings = "crlf"
      <4>1. /\ T[i] = LF => i > 1 /\ T[i - 1] = CR
            /\ T[i] = CR => i < Len(T) /\ T[i + 1] = LF
        BY <1>5, <3>7 DEF Paired
      <4>2. T[i] # CR
        <5>1. T[i] = CR => i \in 1..(Len(T) - 1) /\ Starts(T)[i] /\ T[i + 1] = LF
          BY <1>1, <1>2, <4>1
        <5>2. QED
          BY <3>1, <5>1 DEF InCRLF
      <4>3. i - 1 \in 1..(Len(T) - 1) /\ T[i - 1] = CR /\ T[i] = LF /\ (i - 1) + 1 = i
        BY <1>1, <3>1, <4>1, <4>2
      <4>4. Starts(T)[i - 1]
        BY <1>1, <1>2, <4>3
      <4>5. InCRLF(T, i - 1)
        BY <4>3, <4>4 DEF InCRLF
      <4>6. QED
        BY <3>1, <3>2, <3>7, <4>5, WantedIs DEF TermAt
    <3>8. QED
      BY <3>1, <3>4, <3>5, <3>6, <3>7, WantedIs DEF LineEnding
  <2>3. CASE ~Starts(T)[i]
    <3>1. ~(opts.trim /\ Trailing(T, i))
      <4>1. SUFFICES ASSUME opts.trim, NEW j \in LineEndFrom(T, i), \A k \in i..(j - 1) : T[k] \in Blank
                     PROVE  FALSE
        BY DEF Trailing
      <4>2. j \in i..(Len(T) + 1) /\ (j = Len(T) + 1 \/ Starts(T)[j])
        BY DEF LineEndFrom
      <4>3. j # i
        BY <1>1, <2>3, <4>2
      <4>4. j - 1 \in i..(j - 1) /\ j - 1 \in 1..Len(T) /\ (j - 1) + 1 = j
        BY <1>1, <4>2, <4>3
      <4>5. T[j - 1] \in Blank
        BY <4>1, <4>4
      <4>6. j \in 1..Len(T) /\ T[j] \notin {CR, LF}
        BY <1>6, <4>1, <4>4, <4>5
      <4>7. QED
        BY <1>1, <1>2, <4>2, <4>6
    <3>2. QED
      BY <1>1, <2>3, <3>1, PieceIs, Kinds DEF Own
  <2>4. QED
    BY <1>1, <2>1, <2>2, <2>3, Kinds
<1>9. FinalPiece(T) = << >>
  <2>1. T # << >> => Len(T) \in 1..Len(T)
    BY <1>1, EmptySeq
  <2>2. QED
    BY <1>2, <1>7, <2>1 DEF FinalPiece
<1>10. QED
  BY <1>8, <1>9 DEF Unchanged, T

-----------------------------------------------------------------------------
(* What a pass has counted and written when it has read n bytes; at        *)
(* Len(s) + 1, when it has come to the end.                                *)

Ending(s, t) == {i \in 1..Len(s) : EndsLine(s, i) /\ TermAt(s, i) = t}

Changing(s) == {i \in 1..Len(s) : EndsLine(s, i) /\ TermAt(s, i) # Wanted(TermAt(s, i))}

Trimming(s) == {i \in 2..(Len(s) + 1) : (i = Len(s) + 1 \/ Starts(s)[i]) /\ s[i - 1] \in Blank}

Tally(s, n) ==
  [found |-> [t \in Terminator |-> IF opts.endings = "keep" THEN 0 ELSE Count(Ending(s, t), n)],
   changed |-> IF opts.endings = "keep" THEN 0 ELSE Count(Changing(s), n),
   trimmed |-> IF opts.trim THEN Count(Trimming(s), n) ELSE 0,
   final |-> n = Len(s) + 1 /\ opts.final /\ s # << >> /\ ~Starts(s)[Len(s)]]

Tallies == [n \in 0..(Len(source) + 1) |-> Tally(source, n)]

Flats == [n \in 0..(Len(source) + 1) |-> Flat(source, n)]

Begins == Starts(source)

(* They are the same while the source and the options are.                 *)
LEMMA SameTables ==
  ASSUME opts' = opts, source' = source
  PROVE  Tallies' = Tallies /\ Flats' = Flats /\ Begins' = Begins
<1>1. Begins' = Begins
  BY DEF Begins, Starts
<1>2. Tallies' = Tallies
  BY DEF Tallies, Tally, Starts, Ending, Changing, Trimming, EndsLine, TermAt, InCRLF, Wanted
<1>3. Flats' = Flats
  BY DEF Flats, Flat, PieceAt, FinalPiece, Piece, Wanted, Starts
<1>4. QED
  BY <1>1, <1>2, <1>3

-----------------------------------------------------------------------------
(* What the parts of the automaton do to what is counted and written.      *)

SameCounts(s, t) == t.body = s.body /\ t.run = s.run /\ t.res = s.res

LEMMA EmitFields ==
  ASSUME NEW s \in Stream, NEW bytes
  PROVE  /\ SameCounts(s, Emit(s, bytes))
         /\ Emit(s, bytes).out = IF writing THEN s.out \o bytes ELSE s.out
BY DEF Emit, Stream, SameCounts

LEMMA DiscardFields ==
  ASSUME NEW s \in Stream
  PROVE  SameCounts(s, discard(s)) /\ discard(s).out = s.out
BY DEF discard, Stream, SameCounts

LEMMA PushFields ==
  ASSUME NEW s, Bounded(s), NEW b \in Byte
  PROVE  SameCounts(s, push(s, b)) /\ push(s, b).out = s.out
<1> DEFINE room == IF Len(s.buf) >= MaxBuf THEN spillOlderHalf(s) ELSE s
<1>1. s \in Stream /\ s.buf \in Seq(Byte)
  BY DEF Bounded, Stream
<1>2. room \in Stream
  BY <1>1, SpillKeepsOrder DEF Bounded
<1>3. SameCounts(s, room) /\ room.out = s.out
  BY <1>1 DEF spillOlderHalf, Stream, SameCounts
<1>4. push(s, b) = [room EXCEPT !.buf = Append(room.buf, b)]
  BY DEF push
<1> HIDE DEF room
<1>5. SameCounts(room, push(s, b)) /\ push(s, b).out = room.out
  BY <1>2, <1>4 DEF Stream, SameCounts
<1>6. QED
  BY <1>3, <1>5 DEF SameCounts

LEMMA CountedFields ==
  ASSUME NEW s \in Stream
  PROVE  /\ Counted(s).body = s.body + 1 /\ Counted(s).run = s.run
         /\ Counted(s).res = s.res /\ Counted(s).out = s.out
BY DEF Counted, Stream

(* A byte of content: counted in the body, and in the run of blanks or     *)
(* written, with the blanks before it, unless it is a blank itself.        *)
LEMMA ContentFields ==
  ASSUME NEW s, Bounded(s), NEW b \in Byte, opts.trim \in BOOLEAN
  PROVE  /\ emitContentByte(s, b).res = s.res
         /\ emitContentByte(s, b).body = s.body + 1
         /\ opts.trim /\ ~writing =>
              emitContentByte(s, b).run = IF b \in Blank THEN s.run + 1 ELSE 0
         /\ ~opts.trim /\ writing => emitContentByte(s, b).out = s.out \o <<b>>
         /\ opts.trim /\ writing /\ b \in Blank => emitContentByte(s, b).out = s.out
         /\ opts.trim /\ writing /\ b \notin Blank =>
              emitContentByte(s, b).out = (s.out \o Held(s)) \o <<b>>
<1>0. s \in Stream /\ <<b>> \in Seq(Byte)
  BY DEF Bounded
<1>1. CASE ~opts.trim
  <2> DEFINE e == Emit(s, <<b>>)
  <2>1. emitContentByte(s, b) = Counted(e)
    BY <1>1 DEF emitContentByte
  <2>2. e \in Stream
    BY <1>0, EmitHolds DEF Bounded
  <2>3. SameCounts(s, e) /\ e.out = IF writing THEN s.out \o <<b>> ELSE s.out
    BY <1>0, EmitFields
  <2> HIDE DEF e
  <2>4. QED
    BY <1>1, <2>1, <2>2, <2>3, CountedFields DEF SameCounts
<1>2. CASE opts.trim /\ writing /\ b \in Blank
  <2> DEFINE e == push(s, b)
  <2>1. emitContentByte(s, b) = Counted(e)
    BY <1>2 DEF emitContentByte
  <2>2. e \in Stream
    BY PushHolds DEF Bounded
  <2>3. SameCounts(s, e) /\ e.out = s.out
    BY PushFields
  <2> HIDE DEF e
  <2>4. QED
    BY <1>2, <2>1, <2>2, <2>3, CountedFields DEF SameCounts
<1>3. CASE opts.trim /\ writing /\ b \notin Blank
  <2> DEFINE d == Emit(s, Held(s))
             f == flushTo(s)
             e == Emit(f, <<b>>)
  <2>1. emitContentByte(s, b) = Counted(e) /\ f = discard(d)
    BY <1>3 DEF emitContentByte, flushTo
  <2>2. d \in Stream /\ f \in Stream
    BY <1>0, HeldTypes, EmitHolds, FlushHolds DEF Bounded
  <2>3. SameCounts(s, d) /\ d.out = s.out \o Held(s)
    BY <1>0, <1>3, EmitFields
  <2> HIDE DEF d
  <2>4. SameCounts(d, f) /\ f.out = d.out
    BY <2>1, <2>2, DiscardFields
  <2>5. Bounded(f)
    BY FlushHolds
  <2> HIDE DEF f
  <2>6. SameCounts(f, e) /\ e.out = f.out \o <<b>> /\ e \in Stream
    BY <1>0, <1>3, <2>2, <2>5, EmitFields, EmitHolds DEF Bounded
  <2> HIDE DEF e
  <2>7. QED
    BY <1>3, <2>1, <2>3, <2>4, <2>6, CountedFields DEF SameCounts
<1>4. CASE opts.trim /\ ~writing
  <2> DEFINE r == [s EXCEPT !.run = IF b \in Blank THEN @ + 1 ELSE 0]
  <2>1. emitContentByte(s, b) = Counted(r)
    BY <1>4 DEF emitContentByte
  <2>2. r.run = IF b \in Blank THEN s.run + 1 ELSE 0
    BY <1>0 DEF Stream
  <2>3. r.body = s.body /\ r.res = s.res /\ r \in Stream
    BY <1>0, SMTT(30) DEF Stream
  <2> HIDE DEF r
  <2>4. QED
    BY <1>4, <2>1, <2>2, <2>3, CountedFields
<1>5. QED
  BY <1>1, <1>2, <1>3, <1>4

(* What the end of a line adds to the counts.                              *)
Trimmed(res) ==
  [found |-> res.found, changed |-> res.changed, trimmed |-> res.trimmed + 1, final |-> res.final]

Observed(res, term) ==
  IF opts.endings = "keep"
  THEN res
  ELSE [found |-> [res.found EXCEPT ![term] = res.found[term] + 1],
        changed |-> IF term = Wanted(term) THEN res.changed ELSE res.changed + 1,
        trimmed |-> res.trimmed,
        final |-> res.final]

LEMMA TrimFields ==
  ASSUME NEW s, Bounded(s), ~(opts.trim /\ writing) => Held(s) = << >>
  PROVE  /\ completeTrimTrailing(s).body = s.body /\ completeTrimTrailing(s).out = s.out
         /\ completeTrimTrailing(s).res = IF opts.trim /\ HoldsBlanks(s) THEN Trimmed(s.res) ELSE s.res
         /\ completeTrimTrailing(s).res \in Stats
         /\ opts.trim /\ ~writing => completeTrimTrailing(s).run = 0
<1>1. s \in Stream /\ s.run \in Nat
  BY DEF Bounded, Stream
<1>2. CASE opts.trim /\ HoldsBlanks(s)
  <2> DEFINE d == discard(s)
             t == [d EXCEPT !.run = 0, !.res.trimmed = @ + 1]
  <2>1. completeTrimTrailing(s) = t
    BY <1>2 DEF completeTrimTrailing
  <2>2. d \in Stream /\ d.body = s.body /\ d.res = s.res /\ d.out = s.out
    BY <1>1, DiscardHolds, DiscardFields DEF Bounded, SameCounts
  <2> HIDE DEF d
  <2> DEFINE res == Trimmed(d.res)
  <2>b. d.res \in Stats
    BY <2>2 DEF Stream
  <2>c. [d.res EXCEPT !.trimmed = @ + 1] = res
    BY <2>b DEF Stats, Trimmed
  <2>a. t = [d EXCEPT !.run = 0, !.res = res]
    BY <2>2, <2>c DEF Stream
  <2>4. res \in Stats
    BY <2>b DEF Stats, Trimmed
  <2> HIDE DEF res
  <2>3. t.run = 0 /\ t.body = d.body /\ t.out = d.out /\ t.res = res
    BY <2>2, <2>a DEF Stream
  <2> HIDE DEF t
  <2> USE DEF res
  <2>5. QED
    BY <1>2, <2>1, <2>2, <2>3, <2>4
<1>3. CASE ~(opts.trim /\ HoldsBlanks(s))
  <2>1. completeTrimTrailing(s) = s
    BY <1>3 DEF completeTrimTrailing
  <2>2. opts.trim /\ ~writing => s.run = 0
    BY <1>1, <1>3 DEF HoldsBlanks
  <2>3. QED
    BY <1>1, <1>3, <2>1, <2>2 DEF Stream
<1>4. QED
  BY <1>2, <1>3

LEMMA StatsExcept ==
  ASSUME NEW r \in Stats, NEW found \in [Terminator -> Nat], NEW changed \in Nat
  PROVE  [r EXCEPT !.found = found, !.changed = changed] =
           [found |-> found, changed |-> changed, trimmed |-> r.trimmed, final |-> r.final]
<1> DEFINE e == [r EXCEPT !.found = found]
<1>1. e = [found |-> found, changed |-> r.changed, trimmed |-> r.trimmed, final |-> r.final]
  BY DEF Stats
<1>2. e \in Stats
  BY <1>1 DEF Stats
<1>3. [r EXCEPT !.found = found, !.changed = changed] = [e EXCEPT !.changed = changed]
  BY DEF Stats
<1>4. [e EXCEPT !.changed = changed] =
        [found |-> found, changed |-> changed, trimmed |-> r.trimmed, final |-> r.final]
  <2> HIDE DEF e
  <2> QED
    BY <1>1, <1>2 DEF Stats
<1>5. QED
  BY <1>3, <1>4

LEMMA ObserveFields ==
  ASSUME NEW s \in Stream, NEW term \in Terminator
  PROVE  /\ observeLineEnding(s, term).body = s.body /\ observeLineEnding(s, term).run = s.run
         /\ observeLineEnding(s, term).out = s.out
         /\ observeLineEnding(s, term).res = Observed(s.res, term)
<1>1. CASE opts.endings = "keep"
  BY <1>1 DEF observeLineEnding, Observed
<1>2. CASE opts.endings # "keep"
  <2> DEFINE same == term = Wanted(term)
  <2>1. observeLineEnding(s, term) =
            [s EXCEPT !.res.found[term] = @ + 1,
                      !.res.changed = IF same THEN @ ELSE @ + 1]
    BY <1>2 DEF observeLineEnding
  <2> DEFINE found == [s.res.found EXCEPT ![term] = s.res.found[term] + 1]
             changed == IF same THEN s.res.changed ELSE s.res.changed + 1
             res == [s.res EXCEPT !.found = found, !.changed = changed]
  <2>a. s.res \in Stats
    BY DEF Stream
  <2>b. Observed(s.res, term) =
          [found |-> found, changed |-> changed, trimmed |-> s.res.trimmed, final |-> s.res.final]
    BY <1>2 DEF Observed
  <2>2. Observed(s.res, term) = res
    <3>1. found \in [Terminator -> Nat] /\ changed \in Nat
      BY <2>a DEF Stats
    <3> HIDE DEF found, changed
    <3>2. QED
      BY <2>a, <2>b, <3>1, StatsExcept
  <2>3. observeLineEnding(s, term) = [s EXCEPT !.res = res]
    BY <2>1 DEF Stream, Stats
  <2> HIDE DEF res
  <2>4. QED
    BY <2>2, <2>3 DEF Stream
<1>3. QED
  BY <1>1, <1>2

LEMMA LineFields ==
  ASSUME NEW s, Bounded(s), NEW term \in Terminator, opts \in TransformOptions,
         ~(opts.trim /\ writing) => Held(s) = << >>
  PROVE  /\ completeLine(s, term).body = 0
         /\ opts.trim /\ ~writing => completeLine(s, term).run = 0
         /\ completeLine(s, term).out = IF writing THEN s.out \o Wanted(term) ELSE s.out
         /\ completeLine(s, term).res =
              Observed(IF opts.trim /\ HoldsBlanks(s) THEN Trimmed(s.res) ELSE s.res, term)
<1> DEFINE t == completeTrimTrailing(s)
           u == observeLineEnding(t, term)
           v == Emit(u, Wanted(term))
<1>1. Bounded(t)
  BY TrimHolds
<1>2. /\ t.out = s.out /\ (opts.trim /\ ~writing => t.run = 0)
      /\ t.res = IF opts.trim /\ HoldsBlanks(s) THEN Trimmed(s.res) ELSE s.res
  BY TrimFields
<1> HIDE DEF t
<1>3. Bounded(u) /\ u.out = t.out /\ u.run = t.run /\ u.res = Observed(t.res, term)
  BY <1>1, ObserveHolds, ObserveFields DEF Bounded
<1> HIDE DEF u
<1>4. v \in Stream /\ v.run = u.run /\ v.res = u.res /\ v.out = IF writing THEN u.out \o Wanted(term) ELSE u.out
  BY <1>3, WantedTypes, EmitHolds, EmitFields DEF Bounded, SameCounts
<1>5. completeLine(s, term) = [v EXCEPT !.body = 0]
  BY DEF completeLine, t, u
<1> HIDE DEF v
<1>6. /\ completeLine(s, term).body = 0 /\ completeLine(s, term).run = v.run
      /\ completeLine(s, term).out = v.out /\ completeLine(s, term).res = v.res
  BY <1>4, <1>5 DEF Stream
<1>7. QED
  BY <1>2, <1>3, <1>4, <1>6

-----------------------------------------------------------------------------
(* How the counts grow.                                                    *)

LEMMA TallyStart ==
  ASSUME NEW s \in Seq(Byte)
  PROVE  Tally(s, 0) = NoStats
<1>1. \A S : Count(S, 0) = 0
  BY Counting
<1>2. 0 # Len(s) + 1
  BY LenProperties
<1>3. QED
  BY <1>1, <1>2 DEF Tally, NoStats

(* With what is trimmed before the byte after n.                           *)
TrimmedTally(s, n) ==
  IF opts.trim /\ n + 1 \in Trimming(s) THEN Trimmed(Tally(s, n)) ELSE Tally(s, n)

LEMMA TallyStep ==
  ASSUME NEW s \in Seq(Byte), NEW n \in 0..(Len(s) - 1), opts \in TransformOptions
  PROVE  Tally(s, n + 1) =
           IF EndsLine(s, n + 1)
           THEN Observed(TrimmedTally(s, n), TermAt(s, n + 1))
           ELSE TrimmedTally(s, n)
<1> DEFINE E(t, k) == Count(Ending(s, t), k)
           C(k) == Count(Changing(s), k)
           T(k) == Count(Trimming(s), k)
           keep == opts.endings = "keep"
           term == TermAt(s, n + 1)
           asked == term = Wanted(term)
           ends == EndsLine(s, n + 1)
           trims == opts.trim /\ n + 1 \in Trimming(s)
<1>1. Len(s) \in Nat /\ n \in Nat /\ n + 1 \in 1..Len(s) /\ n + 1 # Len(s) + 1 /\ n # Len(s) + 1
  BY LenProperties
<1>2. \A t : /\ t = term /\ ends => E(t, n + 1) = E(t, n) + 1
             /\ ~(t = term /\ ends) => E(t, n + 1) = E(t, n)
  <2> TAKE t
  <2>1. n + 1 \in Ending(s, t) <=> t = term /\ ends
    BY <1>1 DEF Ending
  <2>2. QED
    BY <1>1, <2>1, Counting
<1>3. /\ ends /\ ~asked => C(n + 1) = C(n) + 1
      /\ ~(ends /\ ~asked) => C(n + 1) = C(n)
  <2>1. n + 1 \in Changing(s) <=> ends /\ ~asked
    BY <1>1 DEF Changing
  <2>2. QED
    BY <1>1, <2>1, Counting
<1>4. /\ n + 1 \in Trimming(s) => T(n + 1) = T(n) + 1
      /\ n + 1 \notin Trimming(s) => T(n + 1) = T(n)
  BY <1>1, Counting
<1> DEFINE F(k) == [t \in Terminator |-> IF keep THEN 0 ELSE E(t, k)]
           G(k) == IF keep THEN 0 ELSE C(k)
           H(k) == IF opts.trim THEN T(k) ELSE 0
           rec(k) == [found |-> F(k), changed |-> G(k), trimmed |-> H(k), final |-> FALSE]
           base == [found |-> F(n), changed |-> G(n), trimmed |-> H(n + 1), final |-> FALSE]
           more == [F(n) EXCEPT ![term] = F(n)[term] + 1]
<1>5. Tally(s, n) = rec(n) /\ Tally(s, n + 1) = rec(n + 1)
  BY <1>1 DEF Tally
<1>6. H(n + 1) = IF trims THEN H(n) + 1 ELSE H(n)
  BY <1>4
<1>7. F(n + 1) = IF ends /\ ~keep THEN more ELSE F(n)
  <2>1. CASE ends /\ ~keep
    BY <1>2, <2>1
  <2>2. CASE ~(ends /\ ~keep)
    BY <1>2, <2>2
  <2>3. QED
    BY <2>1, <2>2
<1>8. G(n + 1) = IF ends /\ ~keep /\ ~asked THEN G(n) + 1 ELSE G(n)
  BY <1>3
<1> HIDE DEF F, G, H
<1>9. TrimmedTally(s, n) = base
  <2>1. TrimmedTally(s, n) = IF trims THEN Trimmed(rec(n)) ELSE rec(n)
    BY <1>5 DEF TrimmedTally
  <2>2. Trimmed(rec(n)) = [found |-> F(n), changed |-> G(n), trimmed |-> H(n) + 1, final |-> FALSE]
    BY DEF Trimmed
  <2> HIDE DEF trims
  <2>3. QED
    BY <1>6, <2>1, <2>2
<1>10. Observed(base, term) =
         IF keep THEN base
         ELSE [found |-> more, changed |-> IF asked THEN G(n) ELSE G(n) + 1,
               trimmed |-> H(n + 1), final |-> FALSE]
  BY DEF Observed
<1> HIDE DEF more, keep, asked, ends
<1>11. rec(n + 1) = IF ends THEN Observed(base, term) ELSE base
  <2>1. CASE ends /\ ~keep
    BY <1>7, <1>8, <1>10, <2>1
  <2>2. CASE ~(ends /\ ~keep)
    BY <1>7, <1>8, <1>10, <2>2
  <2>3. QED
    BY <2>1, <2>2
<1>12. QED
  BY <1>5, <1>9, <1>11 DEF ends

LEMMA TallyEnd ==
  ASSUME NEW s \in Seq(Byte), opts \in TransformOptions
  PROVE  Tally(s, Len(s) + 1) =
           [found |-> TrimmedTally(s, Len(s)).found,
            changed |-> TrimmedTally(s, Len(s)).changed,
            trimmed |-> TrimmedTally(s, Len(s)).trimmed,
            final |-> opts.final /\ s # << >> /\ ~Starts(s)[Len(s)]]
<1> DEFINE n == Len(s)
           E(t, k) == Count(Ending(s, t), k)
           C(k) == Count(Changing(s), k)
           T(k) == Count(Trimming(s), k)
           ended == opts.final /\ s # << >> /\ ~Starts(s)[Len(s)]
<1>1. n \in Nat /\ n # n + 1
  BY LenProperties
<1>2. \A t : E(t, n + 1) = E(t, n)
  <2> TAKE t
  <2>1. n + 1 \notin Ending(s, t)
    BY <1>1 DEF Ending
  <2>2. QED
    BY <1>1, <2>1, Counting
<1>3. C(n + 1) = C(n)
  <2>1. n + 1 \notin Changing(s)
    BY <1>1 DEF Changing
  <2>2. QED
    BY <1>1, <2>1, Counting
<1>4. /\ n + 1 \in Trimming(s) => T(n + 1) = T(n) + 1
      /\ n + 1 \notin Trimming(s) => T(n + 1) = T(n)
  BY <1>1, Counting
<1>5. Tally(s, n + 1) =
        [found |-> [t \in Terminator |-> IF opts.endings = "keep" THEN 0 ELSE E(t, n)],
         changed |-> IF opts.endings = "keep" THEN 0 ELSE C(n),
         trimmed |-> IF opts.trim THEN T(n + 1) ELSE 0,
         final |-> ended]
  BY <1>2, <1>3 DEF Tally
<1>6. Tally(s, n) =
        [found |-> [t \in Terminator |-> IF opts.endings = "keep" THEN 0 ELSE E(t, n)],
         changed |-> IF opts.endings = "keep" THEN 0 ELSE C(n),
         trimmed |-> IF opts.trim THEN T(n) ELSE 0,
         final |-> FALSE]
  BY <1>1 DEF Tally
<1> HIDE DEF E, C, T, ended
<1>7. QED
  BY <1>4, <1>5, <1>6 DEF TrimmedTally, Trimmed, ended

(* Something is counted exactly if some byte is not to stay what it is.    *)
LEMMA CountedIsChanged ==
  ASSUME NEW s \in Seq(Byte), opts \in TransformOptions
  PROVE  WouldChange(Tally(s, Len(s) + 1)) <=> ~Unchanged(s)
<1> DEFINE N == Len(s) + 1
           keep == opts.endings = "keep"
           ended == opts.final /\ s # << >> /\ ~Starts(s)[Len(s)]
           res == Tally(s, N)
<1>1. Len(s) \in Nat /\ N \in Nat
  BY LenProperties
<1>2. res.changed > 0 <=> ~keep /\ Changing(s) # {}
  <2>1. Changing(s) \cap 1..N = Changing(s)
    BY <1>1 DEF Changing
  <2>2. Count(Changing(s), N) \in Nat /\ (Count(Changing(s), N) = 0 <=> Changing(s) = {})
    BY <1>1, <2>1, Counting
  <2>3. res.changed = IF keep THEN 0 ELSE Count(Changing(s), N)
    BY DEF Tally
  <2> HIDE DEF res, N
  <2>4. QED
    BY <2>2, <2>3
<1>3. res.trimmed > 0 <=> opts.trim /\ Trimming(s) # {}
  <2>1. Trimming(s) \cap 1..N = Trimming(s)
    BY <1>1 DEF Trimming
  <2>2. Count(Trimming(s), N) \in Nat /\ (Count(Trimming(s), N) = 0 <=> Trimming(s) = {})
    BY <1>1, <2>1, Counting
  <2>3. res.trimmed = IF opts.trim THEN Count(Trimming(s), N) ELSE 0
    BY DEF Tally
  <2> HIDE DEF res, N
  <2>4. QED
    BY <2>2, <2>3
<1>4. res.final <=> ended
  BY DEF Tally
<1> HIDE DEF res
<1>5. WouldChange(res) <=>
        (~keep /\ Changing(s) # {}) \/ (opts.trim /\ Trimming(s) # {}) \/ ended
  BY <1>2, <1>3, <1>4 DEF WouldChange
<1>6. \A i \in 1..Len(s) : EndsLine(s, i) =>
        /\ PieceAt(s, i) = Wanted(TermAt(s, i)) /\ Own(s, i) = TermAt(s, i)
        /\ TermAt(s, i) \in Terminator
  BY Kinds, PieceIs DEF Own
<1>7. FinalPiece(s) = IF ended THEN Wanted(<<LF>>) ELSE << >>
  BY DEF FinalPiece
<1>8. Wanted(<<LF>>) # << >>
  <2>1. <<LF>> \in Terminator
    BY DEF Terminator
  <2>2. QED
    BY <2>1, WantedIs, EmptySeq
<1>9. ASSUME ~keep, NEW i \in Changing(s) PROVE ~Unchanged(s)
  BY <1>6 DEF Changing, Unchanged
<1>10. ASSUME opts.trim, NEW i \in Trimming(s) PROVE ~Unchanged(s)
  <2>1. i - 1 \in 1..Len(s) /\ s[i - 1] \in Blank /\ i \in 1..N /\ (i = N \/ Starts(s)[i])
    BY <1>1 DEF Trimming
  <2>2. ~Starts(s)[i - 1]
    BY <2>1, StartBytes
  <2>3. Trailing(s, i - 1)
    <3>1. i \in LineEndFrom(s, i - 1)
      BY <1>1, <2>1 DEF LineEndFrom
    <3>2. \A k \in (i - 1)..(i - 1) : k = i - 1
      BY <1>1, <2>1
    <3>3. QED
      BY <2>1, <3>1, <3>2 DEF Trailing
  <2>4. PieceAt(s, i - 1) = << >>
    BY <1>10, <2>1, <2>2, <2>3, PieceIs
  <2>5. Own(s, i - 1) = <<s[i - 1]>> /\ <<s[i - 1]>> # << >>
    BY <2>1, <2>2, Kinds DEF Own
  <2>6. QED
    BY <2>1, <2>4, <2>5 DEF Unchanged
<1>11. ASSUME keep \/ Changing(s) = {}, ~opts.trim \/ Trimming(s) = {}, ~ended
       PROVE  Unchanged(s)
  <2>1. ASSUME NEW i \in 1..Len(s) PROVE PieceAt(s, i) = Own(s, i)
    <3>1. CASE InCRLF(s, i)
      BY <3>1, PieceIs DEF Own
    <3>2. CASE EndsLine(s, i)
      <4>1. TermAt(s, i) = Wanted(TermAt(s, i))
        <5>1. CASE keep
          BY <1>6, <3>2, <5>1, WantedIs
        <5>2. CASE Changing(s) = {}
          BY <3>2, <5>2 DEF Changing
        <5>3. QED
          BY <1>11, <5>1, <5>2
      <4>2. QED
        BY <1>6, <3>2, <4>1
    <3>3. CASE ~Starts(s)[i]
      <4>1. ASSUME opts.trim, Trailing(s, i) PROVE FALSE
        <5>1. PICK j \in LineEndFrom(s, i) : \A k \in i..(j - 1) : s[k] \in Blank
          BY <4>1 DEF Trailing
        <5>2. j \in i..N /\ (j = N \/ Starts(s)[j])
          BY <5>1 DEF LineEndFrom
        <5>3. j # i
          BY <1>1, <3>3, <5>2
        <5>4. j - 1 \in i..(j - 1) /\ j \in 2..N
          BY <1>1, <5>2, <5>3
        <5>5. j \in Trimming(s)
          BY <5>1, <5>2, <5>4 DEF Trimming
        <5>6. QED
          BY <1>11, <4>1, <5>5
      <4>2. PieceAt(s, i) = <<s[i]>>
        BY <3>3, <4>1, PieceIs
      <4>3. QED
        BY <3>3, <4>2, Kinds DEF Own
    <3>4. QED
      BY <3>1, <3>2, <3>3, Kinds
  <2>2. QED
    BY <1>7, <1>11, <2>1 DEF Unchanged
<1>12. ended => ~Unchanged(s)
  BY <1>7, <1>8 DEF Unchanged
<1>13. QED
  BY <1>5, <1>9, <1>10, <1>11, <1>12 DEF res

-----------------------------------------------------------------------------
(* What a pass that has read n bytes has counted, written and held back.   *)
At(s, n) ==
  /\ Bounded(s)
  /\ IF opts.trim /\ writing THEN IsTrailingRun(Held(s), n) ELSE Held(s) = << >>
  /\ s.body = 0 <=> n = 0 \/ Begins[n]
  /\ opts.trim /\ ~writing => (s.run > 0 <=> n > 0 /\ source[n] \in Blank)
  /\ s.res = Tallies[n]
  /\ writing => s.out = Flats[n - Len(Held(s))]

(* The tables hold what their functions compute.                           *)
LEMMA Looked ==
  ASSUME NEW n \in 0..(Len(source) + 1)
  PROVE  Tallies[n] = Tally(source, n) /\ Flats[n] = Flat(source, n)
BY DEF Tallies, Flats

LEMMA AtTypes ==
  ASSUME source \in Seq(Byte), NEW n \in 0..Len(source), NEW s, At(s, n)
  PROVE  /\ Bounded(s) /\ s \in Stream /\ Held(s) \in Seq(Byte) /\ s.res = Tally(source, n)
         /\ Len(source) \in Nat /\ n \in Nat
         /\ ~(opts.trim /\ writing) => Held(s) = << >>
         /\ opts.trim /\ writing => IsTrailingRun(Held(s), n)
         /\ Len(Held(s)) \in Nat /\ n - Len(Held(s)) \in 0..n
         /\ writing => s.out = Flat(source, n - Len(Held(s)))
<1>1. Len(source) \in Nat /\ n \in 0..(Len(source) + 1)
  BY LenProperties
<1>2. Bounded(s) /\ s \in Stream /\ s.res = Tally(source, n)
  BY <1>1, Looked DEF At, Bounded
<1>3. Held(s) \in Seq(Byte)
  BY <1>2, HeldTypes
<1>4. /\ ~(opts.trim /\ writing) => Held(s) = << >>
      /\ opts.trim /\ writing => IsTrailingRun(Held(s), n)
  BY DEF At
<1>5. Len(Held(s)) \in Nat /\ Len(Held(s)) <= n
  <2>1. Len(Held(s)) \in Nat
    BY <1>3, LenProperties
  <2>2. Len(<< >>) = 0
    BY EmptySeq
  <2>3. QED
    BY <1>1, <1>4, <2>1, <2>2 DEF IsTrailingRun
<1>6. n - Len(Held(s)) \in 0..(Len(source) + 1) /\ n - Len(Held(s)) \in 0..n /\ n \in Nat
  BY <1>1, <1>5
<1>7. writing => s.out = Flat(source, n - Len(Held(s)))
  BY <1>6, Looked DEF At
<1>8. QED
  BY <1>1, <1>2, <1>3, <1>4, <1>5, <1>6, <1>7

(* The bytes held back are blanks that end where the pass has read to.     *)
LEMMA HeldAreBlanks ==
  ASSUME source \in Seq(Byte), NEW n \in 0..Len(source), NEW h \in Seq(Byte), IsTrailingRun(h, n)
  PROVE  \A i \in (n - Len(h) + 1)..n : source[i] \in Blank
<1> DEFINE k == n - Len(h)
<1>1. n \in Nat /\ Len(h) \in Nat /\ k \in 0..n /\ Len(source) \in Nat
  BY LenProperties DEF IsTrailingRun
<1>2. SUFFICES ASSUME NEW i \in (k + 1)..n PROVE source[i] \in Blank
  OBVIOUS
<1>3. i - k \in 1..Len(h) /\ k + 1 \in 1..Len(source) /\ i \in 1..Len(source)
  BY <1>1
<1>4. h = SubSeq(source, k + 1, n) /\ h[i - k] \in Blank
  BY <1>1, <1>3 DEF IsTrailingRun
<1>5. SubSeq(source, k + 1, n)[i - k] = source[(k + 1) + (i - k) - 1]
  <2>1. \A j \in (k + 1)..n : source[j] \in Byte
    BY <1>1, StartBytes
  <2>2. i - k \in 1..(n - (k + 1) + 1) /\ k + 1 \in Int
    BY <1>1
  <2>3. QED
    BY <1>1, <2>1, <2>2, SubSeqProperties
<1>6. (k + 1) + (i - k) - 1 = i
  BY <1>1
<1>7. QED
  BY <1>4, <1>5, <1>6

(* Whether it holds blanks back, or counts them, is whether the byte it    *)
(* read last is one.                                                       *)
LEMMA HoldsTheLast ==
  ASSUME source \in Seq(Byte), NEW n \in 0..Len(source), NEW s, At(s, n), opts.trim
  PROVE  HoldsBlanks(s) <=> n > 0 /\ source[n] \in Blank
<1> DEFINE h == Held(s)
<1>1. CASE ~writing
  BY <1>1 DEF At, HoldsBlanks
<1>2. CASE writing
  <2>1. IsTrailingRun(h, n) /\ h \in Seq(Byte) /\ Len(h) \in Nat /\ n \in Nat /\ n - Len(h) \in 0..n
    BY <1>2, AtTypes
  <2>2. HoldsBlanks(s) <=> h # << >>
    BY <1>2 DEF HoldsBlanks
  <2> HIDE DEF h
  <2>3. CASE h = << >>
    <3>1. Len(h) = 0
      BY <2>3, EmptySeq
    <3>2. QED
      BY <2>1, <2>2, <2>3, <3>1 DEF IsTrailingRun
  <2>4. CASE h # << >>
    <3>1. Len(h) # 0
      BY <2>1, <2>4, EmptySeq
    <3>2. n > 0 /\ n \in (n - Len(h) + 1)..n
      BY <2>1, <3>1
    <3>3. source[n] \in Blank
      BY <2>1, <3>2, HeldAreBlanks
    <3>4. QED
      BY <2>2, <2>4, <3>2, <3>3
  <2>5. QED
    BY <2>3, <2>4
<1>3. QED
  BY <1>1, <1>2

(* What is held back has no place in the result if the line ends there.    *)
LEMMA HeldIsDropped ==
  ASSUME source \in Seq(Byte), opts \in TransformOptions, NEW n \in 0..Len(source), NEW s, At(s, n),
         writing, n = Len(source) \/ Starts(source)[n + 1]
  PROVE  s.out = Flat(source, n)
<1> DEFINE h == Held(s)
           k == n - Len(h)
<1>1. s.out = Flat(source, k) /\ n \in Nat /\ Len(h) \in Nat /\ h \in Seq(Byte) /\ k \in 0..n
  BY AtTypes
<1>2. CASE ~opts.trim
  <2>1. Len(h) = 0
    BY <1>2, AtTypes, EmptySeq
  <2>2. QED
    BY <1>1, <2>1
<1>3. CASE opts.trim
  <2>1. IsTrailingRun(h, n)
    BY <1>3, AtTypes
  <2> HIDE DEF h
  <2>2. \A i \in (k + 1)..n : source[i] \in Blank
    BY <1>1, <2>1, HeldAreBlanks
  <2>3. k \in 0..Len(source) /\ n \in k..Len(source)
    BY <1>1
  <2> HIDE DEF k
  <2>4. Flat(source, n) = Flat(source, k)
    BY <1>3, <2>2, <2>3, TrailingBlanks
  <2>5. QED
    BY <1>1, <2>4
<1>4. QED
  BY <1>2, <1>3, AtTypes DEF TransformOptions

(* A byte of content takes it one further.                                 *)
LEMMA ContentAt ==
  ASSUME source \in Seq(Byte), opts \in TransformOptions, NEW n \in 0..(Len(source) - 1),
         ~Starts(source)[n + 1], NEW s, At(s, n)
  PROVE  At(emitContentByte(s, source[n + 1]), n + 1)
<1> DEFINE b == source[n + 1]
           t == emitContentByte(s, b)
           h == Held(s)
<1>1. /\ n \in 0..Len(source) /\ n + 1 \in 1..Len(source) /\ n + 1 \in 0..(Len(source) + 1)
      /\ n \in Nat /\ Len(source) \in Nat /\ b \in Byte /\ opts.trim \in BOOLEAN
  BY LenProperties, StartBytes DEF TransformOptions
<1>2. /\ Bounded(s) /\ s \in Stream /\ h \in Seq(Byte) /\ Len(h) \in Nat /\ n - Len(h) \in 0..n
      /\ s.res = Tally(source, n)
      /\ ~(opts.trim /\ writing) => h = << >>
      /\ opts.trim /\ writing => IsTrailingRun(h, n)
      /\ writing => s.out = Flat(source, n - Len(h))
  BY <1>1, AtTypes
<1>3. /\ Bounded(t)
      /\ opts.trim /\ writing /\ b \in Blank => Held(t) = Append(h, b)
      /\ opts.trim /\ writing /\ b \notin Blank => Held(t) = << >>
      /\ ~(opts.trim /\ writing) => Held(t) = h
  BY <1>1, <1>2, EmitContentHolds
<1>4. /\ t.res = s.res /\ t.body = s.body + 1
      /\ opts.trim /\ ~writing => t.run = IF b \in Blank THEN s.run + 1 ELSE 0
      /\ ~opts.trim /\ writing => t.out = s.out \o <<b>>
      /\ opts.trim /\ writing /\ b \in Blank => t.out = s.out
      /\ opts.trim /\ writing /\ b \notin Blank => t.out = (s.out \o h) \o <<b>>
  BY <1>1, <1>2, ContentFields
<1>5. s.body \in Nat /\ s.run \in Nat
  BY <1>2 DEF Stream
<1> HIDE DEF t, h
<1>6. IF opts.trim /\ writing THEN IsTrailingRun(Held(t), n + 1) ELSE Held(t) = << >>
  <2>1. CASE opts.trim /\ writing /\ b \in Blank
    BY <1>1, <1>2, <1>3, <2>1, RunGrows
  <2>2. CASE opts.trim /\ writing /\ b \notin Blank
    <3>1. n + 1 \in 0..Len(source)
      BY <1>1
    <3>2. QED
      BY <1>1, <1>2, <1>3, <2>2, <3>1, RunIsBroken
  <2>3. CASE ~(opts.trim /\ writing)
    BY <1>2, <1>3, <2>3
  <2>4. QED
    BY <2>1, <2>2, <2>3
<1>7. t.body = 0 <=> n + 1 = 0 \/ Begins[n + 1]
  BY <1>1, <1>4, <1>5 DEF Begins
<1>8. opts.trim /\ ~writing => (t.run > 0 <=> n + 1 > 0 /\ source[n + 1] \in Blank)
  BY <1>1, <1>4, <1>5
<1>9. t.res = Tallies[n + 1]
  <2>1. n + 1 \notin Trimming(source) /\ ~EndsLine(source, n + 1)
    BY <1>1, Kinds DEF Trimming
  <2>2. Tally(source, n + 1) = Tally(source, n)
    BY <2>1, TallyStep DEF TrimmedTally
  <2>3. QED
    BY <1>1, <1>2, <1>4, <2>2, Looked
<1>10. ASSUME writing PROVE t.out = Flats[(n + 1) - Len(Held(t))]
  <2> DEFINE F(k) == Flat(source, k)
  <2>1. F(n + 1) = F(n) \o PieceAt(source, n + 1) /\ F(n) \in Seq(Byte) /\ <<b>> \in Seq(Byte)
    BY <1>1, FlatStep
  <2>2. CASE ~opts.trim
    <3>1. h = << >> /\ Held(t) = << >> /\ Len(<< >>) = 0
      BY <1>2, <1>3, <2>2, EmptySeq
    <3>2. PieceAt(source, n + 1) = <<b>>
      BY <1>1, <2>2, PieceIs
    <3>3. n - 0 = n /\ (n + 1) - 0 = n + 1
      BY <1>1
    <3>4. QED
      BY <1>1, <1>2, <1>4, <1>10, <2>1, <2>2, <3>1, <3>2, <3>3, Looked
  <2>3. CASE opts.trim /\ b \in Blank
    <3>1. Held(t) = Append(h, b) /\ t.out = s.out
      BY <1>3, <1>4, <1>10, <2>3
    <3>2. Len(Held(t)) = Len(h) + 1
      BY <1>1, <1>2, <3>1, AppendProperties
    <3>3. (n + 1) - Len(Held(t)) = n - Len(h) /\ n - Len(h) \in 0..(Len(source) + 1)
      BY <1>1, <1>2, <3>2
    <3>4. QED
      BY <1>2, <1>10, <3>1, <3>3, Looked
  <2>4. CASE opts.trim /\ b \notin Blank
    <3>1. Held(t) = << >> /\ Len(<< >>) = 0 /\ IsTrailingRun(h, n)
      BY <1>2, <1>3, <1>10, <2>4, EmptySeq
    <3>2. F(n) = F(n - Len(h)) \o h
      <4>1. \A i \in (n - Len(h) + 1)..n : source[i] \in Blank
        BY <1>1, <1>2, <3>1, HeldAreBlanks
      <4>2. n - Len(h) \in 0..Len(source) /\ n \in (n - Len(h))..(Len(source) - 1)
        BY <1>1, <1>2
      <4>3. h = SubSeq(source, n - Len(h) + 1, n)
        BY <3>1 DEF IsTrailingRun
      <4>4. Flat(source, n) = Flat(source, n - Len(h)) \o SubSeq(source, n - Len(h) + 1, n)
        BY <2>4, <4>1, <4>2, InnerBlanks
      <4>5. QED
        BY <4>3, <4>4
    <3>3. PieceAt(source, n + 1) = <<b>>
      <4>1. SUFFICES ASSUME Trailing(source, n + 1) PROVE FALSE
        BY <1>1, PieceIs
      <4>2. PICK j \in LineEndFrom(source, n + 1) : \A k \in (n + 1)..(j - 1) : source[k] \in Blank
        BY <4>1 DEF Trailing
      <4>3. j \in (n + 1)..(Len(source) + 1) /\ (j = Len(source) + 1 \/ Starts(source)[j])
        BY <4>2 DEF LineEndFrom
      <4>4. j # n + 1
        BY <1>1, <4>3
      <4>5. n + 1 \in (n + 1)..(j - 1)
        BY <1>1, <4>3, <4>4
      <4>6. QED
        BY <2>4, <4>2, <4>5
    <3>4. t.out = F(n + 1)
      BY <1>2, <1>4, <1>10, <2>1, <2>4, <3>2, <3>3
    <3>5. (n + 1) - 0 = n + 1
      BY <1>1
    <3>6. QED
      BY <1>1, <3>1, <3>4, <3>5, Looked
  <2>5. QED
    BY <1>1, <2>2, <2>3, <2>4
<1>11. At(t, n + 1)
  BY <1>3, <1>6, <1>7, <1>8, <1>9, <1>10 DEF At
<1>12. QED
  BY <1>11 DEF t

(* What the end of a line makes of the state before it.                    *)
LEMMA LineAt ==
  ASSUME source \in Seq(Byte), opts \in TransformOptions, NEW n \in 0..(Len(source) - 1),
         Starts(source)[n + 1], NEW s, At(s, n), NEW term \in Terminator,
         NEW m \in 1..Len(source), Starts(source)[m],
         Tally(source, m) = Observed(TrimmedTally(source, n), term),
         Flat(source, m) = Flat(source, n) \o Wanted(term)
  PROVE  At(completeLine(s, term), m)
<1> DEFINE t == completeLine(s, term)
<1>1. /\ n \in 0..Len(source) /\ n + 1 \in 1..Len(source) /\ n \in Nat /\ m \in Nat
      /\ m \in 0..Len(source) /\ m \in 0..(Len(source) + 1) /\ Len(source) \in Nat
  BY LenProperties
<1>2. /\ Bounded(s) /\ s.res = Tally(source, n)
      /\ ~(opts.trim /\ writing) => Held(s) = << >>
  BY <1>1, AtTypes
<1>3. Bounded(t) /\ Held(t) = << >>
  BY <1>2, CompleteLineHolds
<1>4. /\ t.body = 0
      /\ opts.trim /\ ~writing => t.run = 0
      /\ t.out = IF writing THEN s.out \o Wanted(term) ELSE s.out
      /\ t.res = Observed(IF opts.trim /\ HoldsBlanks(s) THEN Trimmed(s.res) ELSE s.res, term)
  BY <1>2, LineFields
<1> HIDE DEF t
<1>5. source[m] \notin Blank
  BY StartBytes
<1>6. IsTrailingRun(<< >>, m)
  BY <1>1, <1>5, RunIsBroken
<1>7. t.res = Tallies[m]
  <2>1. ASSUME opts.trim PROVE HoldsBlanks(s) <=> n + 1 \in Trimming(source)
    <3>1. n + 1 \in Trimming(source) <=> n > 0 /\ source[n] \in Blank
      <4>1. (n + 1) - 1 = n /\ (n + 1 \in 2..(Len(source) + 1) <=> n > 0)
        BY <1>1
      <4>2. QED
        BY <4>1 DEF Trimming
    <3>2. QED
      BY <1>1, <2>1, <3>1, HoldsTheLast
  <2>2. t.res = Observed(TrimmedTally(source, n), term)
    BY <1>2, <1>4, <2>1 DEF TrimmedTally
  <2>3. QED
    BY <1>1, <2>2, Looked
<1>8. ASSUME writing PROVE t.out = Flats[m - Len(Held(t))]
  <2>1. s.out = Flat(source, n)
    BY <1>1, <1>8, HeldIsDropped
  <2>2. t.out = Flat(source, m)
    BY <1>4, <1>8, <2>1
  <2>3. m - Len(Held(t)) = m
    BY <1>1, <1>3, EmptySeq
  <2>4. QED
    BY <1>1, <2>2, <2>3, Looked
<1>9. /\ t.body = 0 <=> m = 0 \/ Begins[m]
      /\ opts.trim /\ ~writing => (t.run > 0 <=> m > 0 /\ source[m] \in Blank)
  BY <1>4, <1>5 DEF Begins
<1>10. At(t, m)
  BY <1>3, <1>6, <1>7, <1>8, <1>9 DEF At
<1>11. QED
  BY <1>10 DEF t

(* A terminator of one byte.                                               *)
LEMMA ShortLineAt ==
  ASSUME source \in Seq(Byte), opts \in TransformOptions, NEW n \in 0..(Len(source) - 1),
         EndsLine(source, n + 1), ~InCRLF(source, n), NEW s, At(s, n)
  PROVE  At(completeLine(s, <<source[n + 1]>>), n + 1)
<1> DEFINE term == <<source[n + 1]>>
<1>1. n + 1 \in 1..Len(source) /\ n \in 0..Len(source) /\ (n + 1) - 1 = n
  BY LenProperties
<1>2. Starts(source)[n + 1] /\ TermAt(source, n + 1) = term /\ term \in Terminator
  BY <1>1, Kinds DEF TermAt
<1>3. Tally(source, n + 1) = Observed(TrimmedTally(source, n), term)
  BY <1>2, TallyStep
<1>4. Flat(source, n + 1) = Flat(source, n) \o Wanted(term)
  <2>1. PieceAt(source, n + 1) = Wanted(term)
    BY <1>1, <1>2, PieceIs
  <2>2. QED
    BY <1>1, <2>1, FlatStep
<1>5. QED
  BY <1>1, <1>2, <1>3, <1>4, LineAt

(* A CRLF.                                                                 *)
LEMMA LongLineAt ==
  ASSUME source \in Seq(Byte), opts \in TransformOptions, NEW n \in 0..(Len(source) - 1),
         InCRLF(source, n + 1), NEW s, At(s, n)
  PROVE  At(completeLine(s, <<CR, LF>>), n + 2)
<1>1. /\ n + 1 \in 1..Len(source) /\ n + 2 \in 1..Len(source) /\ n + 1 \in 0..(Len(source) - 1)
      /\ (n + 1) + 1 = n + 2 /\ (n + 2) - 1 = n + 1 /\ n + 1 \in 0..Len(source) /\ n \in 0..Len(source)
      /\ (n + 1) - 1 = n
  BY LenProperties DEF InCRLF
<1>2. /\ Starts(source)[n + 1] /\ ~EndsLine(source, n + 1) /\ EndsLine(source, n + 2)
      /\ Starts(source)[n + 2] /\ TermAt(source, n + 2) = <<CR, LF>> /\ <<CR, LF>> \in Terminator
      /\ source[n + 1] \notin Blank
  BY <1>1, Kinds, StartBytes DEF TermAt, Terminator
<1>3. Tally(source, n + 2) = Observed(TrimmedTally(source, n), <<CR, LF>>)
  <2>1. Tally(source, n + 1) = TrimmedTally(source, n)
    BY <1>2, TallyStep
  <2>2. TrimmedTally(source, n + 1) = Tally(source, n + 1)
    BY <1>1, <1>2 DEF TrimmedTally, Trimming
  <2>3. Tally(source, n + 2) = Observed(TrimmedTally(source, n + 1), <<CR, LF>>)
    <3>1. Tally(source, (n + 1) + 1) =
            IF EndsLine(source, (n + 1) + 1)
            THEN Observed(TrimmedTally(source, n + 1), TermAt(source, (n + 1) + 1))
            ELSE TrimmedTally(source, n + 1)
      BY <1>1, TallyStep
    <3>2. QED
      BY <1>1, <1>2, <3>1
  <2>4. QED
    BY <2>1, <2>2, <2>3
<1>4. Flat(source, n + 2) = Flat(source, n) \o Wanted(<<CR, LF>>)
  <2>1. PieceAt(source, n + 1) = << >> /\ PieceAt(source, n + 2) = Wanted(<<CR, LF>>)
    BY <1>1, <1>2, PieceIs
  <2>2. Flat(source, n) \in Seq(Byte) /\ Flat(source, n + 1) = Flat(source, n) \o << >>
    BY <1>1, <2>1, FlatStep
  <2>3. Flat(source, n + 1) = Flat(source, n)
    BY <2>2, ConcatEmptySeq
  <2>4. Flat(source, (n + 1) + 1) = Flat(source, n + 1) \o PieceAt(source, (n + 1) + 1)
    BY <1>1, FlatStep
  <2>5. QED
    BY <1>1, <2>1, <2>3, <2>4
<1>5. QED
  BY <1>1, <1>2, <1>3, <1>4, LineAt

LEMMA FinalExcept ==
  ASSUME NEW r \in Stats, NEW final
  PROVE  [r EXCEPT !.final = final] =
           [found |-> r.found, changed |-> r.changed, trimmed |-> r.trimmed, final |-> final]
BY DEF Stats

(* What the end of the source adds, when the last line has a byte of its   *)
(* own.                                                                    *)
LEMMA LastLineFields ==
  ASSUME NEW s, Bounded(s), opts \in TransformOptions, s.body # 0,
         ~(opts.trim /\ writing) => Held(s) = << >>
  PROVE  LET res == IF opts.trim /\ HoldsBlanks(s) THEN Trimmed(s.res) ELSE s.res
         IN /\ completeLastLine(s).res =
                 [found |-> res.found, changed |-> res.changed, trimmed |-> res.trimmed,
                  final |-> IF opts.final THEN TRUE ELSE res.final]
            /\ writing => completeLastLine(s).out =
                            IF opts.final THEN s.out \o Wanted(<<LF>>) ELSE s.out
<1> DEFINE res == IF opts.trim /\ HoldsBlanks(s) THEN Trimmed(s.res) ELSE s.res
           t == completeTrimTrailing(s)
           u == [t EXCEPT !.res.final = TRUE]
           full == [found |-> res.found, changed |-> res.changed, trimmed |-> res.trimmed, final |-> TRUE]
           v == IF opts.final THEN Emit(u, Wanted(<<LF>>)) ELSE t
<1>1. completeLastLine(s) = [v EXCEPT !.body = 0]
  BY DEF completeLastLine
<1>2. Bounded(t) /\ t \in Stream /\ t.res \in Stats /\ t.res = res /\ t.out = s.out
  BY TrimHolds, TrimFields DEF Bounded
<1> HIDE DEF t, res
<1>3. u \in Stream /\ u.out = t.out /\ u.res = full
  <2>1. full \in Stats
    BY <1>2 DEF Stats
  <2>2. [t.res EXCEPT !.final = TRUE] = full
    BY <1>2, FinalExcept
  <2>3. u = [t EXCEPT !.res = full]
    BY <1>2, <2>2 DEF Stream
  <2> HIDE DEF full, u
  <2>4. QED
    BY <1>2, <2>1, <2>3 DEF Stream
<1>4. Bounded(u) /\ Wanted(<<LF>>) \in Seq(Byte)
  <2>1. u.buf = t.buf
    BY <1>2 DEF Stream, Stats
  <2>2. <<LF>> \in Terminator
    BY DEF Terminator
  <2> HIDE DEF u
  <2>3. QED
    BY <1>2, <1>3, <2>1, <2>2, WantedTypes DEF Bounded
<1> HIDE DEF u, full
<1>5. /\ v \in Stream
      /\ v.res = IF opts.final THEN full ELSE res
      /\ writing => v.out = IF opts.final THEN s.out \o Wanted(<<LF>>) ELSE s.out
  <2>1. CASE opts.final
    <3> DEFINE e == Emit(u, Wanted(<<LF>>))
    <3>1. Bounded(e)
      BY <1>4, EmitHolds
    <3>2. SameCounts(u, e) /\ e.out = IF writing THEN u.out \o Wanted(<<LF>>) ELSE u.out
      BY <1>3, <1>4, EmitFields
    <3>3. v = e
      BY <2>1
    <3> HIDE DEF e, v
    <3>4. QED
      BY <1>2, <1>3, <2>1, <3>1, <3>2, <3>3 DEF Bounded, SameCounts
  <2>2. CASE ~opts.final
    BY <1>2, <2>2
  <2>3. QED
    BY <2>1, <2>2
<1> HIDE DEF v
<1>6. completeLastLine(s).res = v.res /\ completeLastLine(s).out = v.out
  BY <1>1, <1>5 DEF Stream
<1>7. ~opts.final => res = [found |-> res.found, changed |-> res.changed,
                            trimmed |-> res.trimmed, final |-> res.final]
  BY <1>2 DEF Stats
<1>8. v.res = [found |-> res.found, changed |-> res.changed, trimmed |-> res.trimmed,
               final |-> IF opts.final THEN TRUE ELSE res.final]
  <2>1. CASE opts.final
    BY <1>5, <2>1 DEF full
  <2>2. CASE ~opts.final
    BY <1>5, <1>7, <2>2
  <2>3. QED
    BY <2>1, <2>2
<1>9. QED
  BY <1>5, <1>6, <1>8 DEF res

(* At the end of the source all is counted and written.                    *)
LEMMA EndAt ==
  ASSUME source \in Seq(Byte), opts \in TransformOptions, NEW s, At(s, Len(source))
  PROVE  /\ completeLastLine(s).res = Tallies[Len(source) + 1]
         /\ writing => completeLastLine(s).out = Flats[Len(source) + 1]
<1> DEFINE n == Len(source)
           t == completeLastLine(s)
           ended == opts.final /\ source # << >> /\ ~Starts(source)[n]
           base == TrimmedTally(source, n)
<1>1. /\ n \in Nat /\ n \in 0..n /\ n + 1 \in 0..(n + 1) /\ (n = 0 <=> source = << >>)
      /\ n + 1 # n
  BY LenProperties, EmptySeq
<1>2. /\ Bounded(s) /\ s \in Stream /\ s.res = Tally(source, n)
      /\ ~(opts.trim /\ writing) => Held(s) = << >>
  BY <1>1, AtTypes
<1>3. s.body = 0 <=> n = 0 \/ Starts(source)[n]
  BY DEF At, Begins
<1>4. opts.trim => (HoldsBlanks(s) <=> n > 0 /\ source[n] \in Blank)
  BY <1>1, HoldsTheLast
<1>5. Tally(source, n + 1) =
        [found |-> base.found, changed |-> base.changed, trimmed |-> base.trimmed, final |-> ended]
  BY TallyEnd
<1>6. n + 1 \in Trimming(source) <=> n > 0 /\ source[n] \in Blank
  <2>1. (n + 1) - 1 = n /\ (n + 1 \in 2..(n + 1) <=> n > 0)
    BY <1>1
  <2>2. QED
    BY <2>1 DEF Trimming
<1>7. writing => s.out = Flat(source, n)
  BY <1>1, HeldIsDropped
<1>8. /\ Flat(source, n) \in Seq(Byte) /\ FinalPiece(source) = PieceAt(source, n + 1)
      /\ Flat(source, n + 1) = Flat(source, n) \o FinalPiece(source)
  BY <1>1, FlatStep DEF PieceAt
<1>9. FinalPiece(source) = IF ended THEN Wanted(<<LF>>) ELSE << >>
  BY DEF FinalPiece
<1>10. base.final = FALSE
  <2>1. Tally(source, n).final = FALSE
    BY <1>1 DEF Tally
  <2>2. Trimmed(Tally(source, n)).final = Tally(source, n).final
    BY DEF Trimmed
  <2>3. QED
    BY <2>1, <2>2 DEF TrimmedTally
<1>11. CASE s.body = 0
  <2>1. ~ended /\ ~(n > 0 /\ source[n] \in Blank)
    BY <1>1, <1>3, <1>11, StartBytes
  <2>2. ~(opts.trim /\ HoldsBlanks(s)) /\ base = Tally(source, n)
    BY <1>4, <1>6, <2>1 DEF TrimmedTally
  <2>3. ~(writing /\ HoldsBlanks(s))
    <3>1. ~opts.trim => ~(writing /\ HoldsBlanks(s))
      BY <1>2 DEF HoldsBlanks
    <3>2. QED
      BY <2>2, <3>1
  <2>4. t = s
    BY <1>11, <2>3 DEF completeLastLine
  <2>5. Tally(source, n) =
          [found |-> base.found, changed |-> base.changed, trimmed |-> base.trimmed, final |-> base.final]
    <3>1. base = Tally(source, n)
      BY <2>2
    <3> HIDE DEF base, n
    <3>2. QED
      BY <3>1 DEF Tally
  <2>6. t.res = Tally(source, n + 1)
    BY <1>2, <1>5, <1>10, <2>1, <2>4, <2>5
  <2>7. writing => t.out = Flat(source, n + 1)
    BY <1>7, <1>8, <1>9, <2>1, <2>4, ConcatEmptySeq
  <2>8. QED
    BY <1>1, <2>6, <2>7, Looked
<1>12. CASE s.body # 0
  <2> DEFINE res == IF opts.trim /\ HoldsBlanks(s) THEN Trimmed(s.res) ELSE s.res
  <2>1. source # << >> /\ ~Starts(source)[n]
    BY <1>1, <1>3, <1>12
  <2>2. res = base
    BY <1>2, <1>4, <1>6 DEF TrimmedTally
  <2>3. /\ t.res = [found |-> res.found, changed |-> res.changed, trimmed |-> res.trimmed,
                    final |-> IF opts.final THEN TRUE ELSE res.final]
        /\ writing => t.out = IF opts.final THEN s.out \o Wanted(<<LF>>) ELSE s.out
    BY <1>2, <1>12, LastLineFields
  <2> HIDE DEF res, base, t
  <2>4. ended = IF opts.final THEN TRUE ELSE base.final
    BY <1>10, <2>1 DEF TransformOptions
  <2>5. t.res = Tally(source, n + 1)
    BY <1>5, <2>2, <2>3, <2>4
  <2>6. writing => t.out = Flat(source, n + 1)
    BY <1>7, <1>8, <1>9, <2>1, <2>3, ConcatEmptySeq
  <2>7. QED
    BY <1>1, <2>5, <2>6, Looked DEF t
<1>13. QED
  BY <1>11, <1>12

(* It never stops between a CR that starts a terminator and the byte after *)
(* it: that byte is an LF of the same terminator, or content.              *)
Synced == pos \in 1..(Len(source) - 1) => ~(source[pos] = CR /\ Begins[pos])

(* The second transform begins with what the first one left.               *)
FirstResult == Transformed(first.source)

Repeating ==
  first.source \in Seq(Byte) /\ first.result = FirstResult /\ source = first.result

ResInv ==
  /\ Inv
  /\ Running => At(line, pos) /\ Synced
  /\ pass \in {"write", "done"} => measured = Tallies[Len(source) + 1]
  /\ pass = "write" => WouldChange(measured)
  /\ pass = "done" /\ WouldChange(measured) =>
       line.res = measured /\ line.out = Flats[Len(source) + 1]
  /\ repeated => Repeating

LEMMA FreshAt == source \in Seq(Byte) => At(Fresh, 0)
<1> SUFFICES ASSUME source \in Seq(Byte) PROVE At(Fresh, 0)
  OBVIOUS
<1>1. Bounded(Fresh) /\ Held(Fresh) = << >> /\ Len(<< >>) = 0
  BY FreshHolds, EmptySeq
<1>2. Len(source) \in Nat /\ 0 \in 0..(Len(source) + 1) /\ 0 \in 0..Len(source) /\ 0 - 0 = 0
  BY LenProperties
<1>3. IsTrailingRun(<< >>, 0)
  BY <1>2, RunIsBroken
<1>4. Tallies[0] = NoStats /\ Flats[0] = << >>
  BY <1>2, Looked, TallyStart, FlatStarts
<1>5. Fresh.body = 0 /\ Fresh.run = 0 /\ Fresh.res = NoStats /\ Fresh.out = << >>
  BY DEF Fresh
<1> HIDE DEF Fresh
<1>6. QED
  BY <1>1, <1>2, <1>3, <1>4, <1>5 DEF At

LEMMA SameFirst ==
  ASSUME opts' = opts, NEW s, first'.source = s
  PROVE  FirstResult' = Transformed(s)
BY DEF FirstResult, Transformed, Piece, FinalPiece, Wanted, Starts

LEMMA RepeatingStays ==
  ASSUME repeated => Repeating, opts' = opts, source' = source, first' = first, repeated' = repeated
  PROVE  repeated' => Repeating'
<1>1. FirstResult' = FirstResult
  BY SameFirst DEF FirstResult
<1>2. QED
  BY <1>1 DEF Repeating

(* The inductive invariant says what At says of the step after.            *)
LEMMA AdvanceKeepsResInv ==
  ASSUME ResInv, Inv', Running, NEW n \in Nat, Advance(n), NEW t, line' = t, At(t, pos + n),
         pos + n < Len(source) => ~(source[pos + n] = CR /\ Begins[pos + n])
  PROVE  ResInv'
<1>1. /\ opts' = opts /\ source' = source /\ pass' = pass /\ measured' = measured
      /\ repeated' = repeated /\ first' = first /\ pos' = pos + n
  BY DEF Advance
<1>2. Tallies' = Tallies /\ Flats' = Flats /\ Begins' = Begins
  BY <1>1, SameTables
<1>3. At(line, pos)'
  BY <1>1, <1>2 DEF At, IsTrailingRun, writing
<1>4. Synced'
  <2>1. Len(source) \in Nat /\ pos \in Nat
    BY Reading DEF ResInv
  <2>2. QED
    BY <1>1, <1>2, <2>1 DEF Synced
<1>5. repeated' => Repeating'
  BY <1>1, RepeatingStays DEF ResInv
<1>6. pass \notin {"done", "failed"}
  BY DEF Running
<1>7. QED
  BY <1>1, <1>2, <1>3, <1>4, <1>5, <1>6 DEF ResInv, Running, WouldChange

(* What ResInv says to the steps that read.                                *)
LEMMA NextByte ==
  ASSUME ResInv, Running, pos < Len(source)
  PROVE  /\ source \in Seq(Byte) /\ opts \in TransformOptions /\ At(line, pos)
         /\ Len(source) \in Nat /\ pos \in Nat /\ pos \in 0..(Len(source) - 1)
         /\ pos + 1 \in 1..Len(source)
         /\ Starts(source)[pos + 1] <=> source[pos + 1] \in {CR, LF}
         /\ ~InCRLF(source, pos)
<1>1. /\ source \in Seq(Byte) /\ opts \in TransformOptions /\ At(line, pos) /\ Synced
      /\ Len(source) \in Nat /\ pos \in 0..Len(source)
  BY Reading DEF ResInv
<1>2. pos \in Nat /\ pos \in 0..(Len(source) - 1) /\ pos + 1 \in 1..Len(source) /\ (pos + 1) - 1 = pos
  BY <1>1
<1>3. pos # 0 => source[pos] # CR \/ ~Starts(source)[pos]
  BY <1>1, <1>2 DEF Synced, Begins
<1>4. Starts(source)[pos + 1] <=> source[pos + 1] \in {CR, LF}
  <2>1. pos + 1 # 1 => pos # 0
    BY <1>2
  <2>2. QED
    BY <1>1, <1>2, <1>3, <2>1, StartsIs
<1>5. ~InCRLF(source, pos)
  BY <1>2, <1>3 DEF InCRLF
<1>6. QED
  BY <1>1, <1>2, <1>4, <1>5

LEMMA ContentKeepsResInv == ResInv /\ ReadContent => ResInv'
<1> SUFFICES ASSUME ResInv, ReadContent PROVE ResInv'
  OBVIOUS
<1>1. Inv'
  BY ContentKeepsInv DEF ResInv
<1>2. Running /\ pos < Len(source) /\ source[pos + 1] \notin {CR, LF} /\ Advance(1)
  BY DEF ReadContent, Next1
<1> DEFINE t == emitContentByte(line, source[pos + 1])
<1>3. line' = t
  BY DEF ReadContent, Next1
<1>4. At(t, pos + 1)
  BY <1>2, NextByte, ContentAt
<1> HIDE DEF t
<1>5. QED
  BY <1>1, <1>2, <1>3, <1>4, AdvanceKeepsResInv

LEMMA LFKeepsResInv == ResInv /\ ReadLF => ResInv'
<1> SUFFICES ASSUME ResInv, ReadLF PROVE ResInv'
  OBVIOUS
<1>1. Inv'
  BY LFKeepsInv DEF ResInv
<1>2. Running /\ pos < Len(source) /\ source[pos + 1] = LF /\ Advance(1)
  BY DEF ReadLF, Next1
<1> DEFINE t == completeLine(line, <<source[pos + 1]>>)
<1>3. line' = t
  BY <1>2 DEF ReadLF
<1>4. EndsLine(source, pos + 1)
  BY <1>2, NextByte DEF EndsLine, InCRLF
<1>5. At(t, pos + 1)
  BY <1>2, <1>4, NextByte, ShortLineAt
<1> HIDE DEF t
<1>6. QED
  BY <1>1, <1>2, <1>3, <1>5, AdvanceKeepsResInv

LEMMA CRKeepsResInv == ResInv /\ ReadCR => ResInv'
<1> SUFFICES ASSUME ResInv, ReadCR PROVE ResInv'
  OBVIOUS
<1>1. Inv'
  BY CRKeepsInv DEF ResInv
<1>2. Running /\ pos < Len(source) /\ source[pos + 1] = CR
  BY DEF ReadCR, Next1
<1>3. /\ Len(source) \in Nat /\ pos \in Nat /\ pos + 1 \in 1..Len(source)
      /\ Starts(source)[pos + 1] /\ (pos + 1) + 1 = pos + 2 /\ (pos + 2) - 1 = pos + 1
  BY <1>2, NextByte
<1> DEFINE ended == completeLine(line, <<source[pos + 1]>>)
<1>4. ~InCRLF(source, pos + 1) => EndsLine(source, pos + 1) /\ At(ended, pos + 1)
  BY <1>2, <1>3, NextByte, ShortLineAt DEF EndsLine
<1>5. CASE pos + 1 = Len(source) /\ line' = completeLine(line, <<CR>>) /\ Advance(1)
  <2>1. ~InCRLF(source, pos + 1)
    BY <1>3, <1>5 DEF InCRLF
  <2>2. line' = ended /\ At(ended, pos + 1)
    BY <1>2, <1>4, <1>5, <2>1
  <2>3. 1 \in Nat /\ ~(pos + 1 < Len(source))
    BY <1>3, <1>5
  <2> HIDE DEF ended
  <2>4. QED
    BY <1>1, <1>2, <1>5, <2>2, <2>3, AdvanceKeepsResInv
<1>6. CASE pos + 1 < Len(source) /\ Next2 = LF /\ line' = completeLine(line, <<CR, LF>>) /\ Advance(2)
  <2> DEFINE t == completeLine(line, <<CR, LF>>)
  <2>1. InCRLF(source, pos + 1)
    BY <1>2, <1>3, <1>6 DEF InCRLF, Next2
  <2>2. At(t, pos + 2)
    BY <1>2, <2>1, NextByte, LongLineAt
  <2>3. source[pos + 2] # CR
    BY <1>6 DEF Next2
  <2>4. line' = t
    BY <1>6
  <2> HIDE DEF t
  <2>5. QED
    BY <1>1, <1>2, <1>6, <2>2, <2>3, <2>4, AdvanceKeepsResInv
<1>7. CASE /\ pos + 1 < Len(source) /\ Next2 # LF
           /\ line' = emitContentByte(completeLine(line, <<CR>>), Next2) /\ Advance(2)
  <2> DEFINE t == emitContentByte(ended, source[pos + 2])
  <2>1. ~InCRLF(source, pos + 1)
    BY <1>3, <1>7 DEF InCRLF, Next2
  <2>2. At(ended, pos + 1)
    BY <1>4, <2>1
  <2>3. line' = t
    BY <1>2, <1>7 DEF Next2
  <2> HIDE DEF ended
  <2>4. pos + 2 \in 1..Len(source) /\ pos + 1 \in 0..(Len(source) - 1) /\ pos + 2 # 1
    BY <1>3, <1>7
  <2>5. ~Starts(source)[pos + 2]
    BY <1>2, <1>3, <1>7, <2>4, NextByte, StartsIs DEF Next2
  <2>6. At(t, pos + 2)
    <3>1. ~Starts(source)[(pos + 1) + 1]
      BY <1>3, <2>5
    <3>2. At(emitContentByte(ended, source[(pos + 1) + 1]), (pos + 1) + 1)
      BY <1>2, <2>2, <2>4, <3>1, NextByte, ContentAt
    <3>3. QED
      BY <1>3, <3>2
  <2> HIDE DEF t
  <2>7. QED
    BY <1>1, <1>2, <1>7, <2>3, <2>5, <2>6, AdvanceKeepsResInv DEF Begins
<1>8. QED
  BY <1>5, <1>6, <1>7 DEF ReadCR

LEMMA InitResInv == Init => ResInv
<1> SUFFICES ASSUME Init PROVE ResInv
  OBVIOUS
<1>1. Inv /\ source \in Seq(Byte)
  BY InvInit DEF Init
<1>2. At(Fresh, 0)
  BY <1>1, FreshAt
<1>3. line = Fresh /\ pos = 0 /\ pass = "measure" /\ repeated = FALSE
  BY DEF Init
<1>4. At(line, pos) /\ Synced
  BY <1>2, <1>3 DEF Synced
<1>5. QED
  BY <1>1, <1>3, <1>4 DEF ResInv

LEMMA EndMeasureKeepsResInv == ResInv /\ EndMeasure => ResInv'
<1> SUFFICES ASSUME ResInv, EndMeasure PROVE ResInv'
  OBVIOUS
<1>1. Inv'
  BY EndMeasureKeepsInv DEF ResInv
<1>2. /\ opts' = opts /\ source' = source /\ repeated' = repeated /\ first' = first
      /\ pass = "measure" /\ pos = Len(source) /\ measured' = completeLastLine(line).res
  BY DEF EndMeasure
<1>3. source \in Seq(Byte) /\ opts \in TransformOptions
  BY Reading DEF ResInv
<1>4. Tallies' = Tallies /\ Flats' = Flats /\ Begins' = Begins
  BY <1>2, SameTables
<1>5. measured' = Tallies[Len(source) + 1]
  <2>1. At(line, Len(source))
    BY <1>2 DEF ResInv, Running
  <2>2. QED
    BY <1>2, <1>3, <2>1, EndAt
<1>6. repeated' => Repeating'
  BY <1>2, RepeatingStays DEF ResInv
<1>7. CASE WouldChange(measured') /\ pass' = "write" /\ pos' = 0 /\ line' = Fresh
  <2>1. (source \in Seq(Byte) => At(Fresh, 0))'
    BY FreshAt, PTL
  <2>2. At(line, pos)'
    BY <1>2, <1>3, <1>7, <2>1 DEF At, IsTrailingRun, writing
  <2>3. Synced'
    BY <1>7 DEF Synced
  <2>4. WouldChange(measured)'
    BY <1>7 DEF WouldChange
  <2>5. QED
    BY <1>1, <1>2, <1>4, <1>5, <1>6, <1>7, <2>2, <2>3, <2>4 DEF ResInv, Running
<1>8. CASE ~WouldChange(measured') /\ pass' = "done"
  <2>1. ~WouldChange(measured)'
    BY <1>8 DEF WouldChange
  <2>2. QED
    BY <1>1, <1>2, <1>4, <1>5, <1>6, <1>8, <2>1 DEF ResInv, Running
<1>9. QED
  BY <1>7, <1>8 DEF EndMeasure

LEMMA EndWriteKeepsResInv == ResInv /\ EndWrite => ResInv'
<1> SUFFICES ASSUME ResInv, EndWrite PROVE ResInv'
  OBVIOUS
<1>1. Inv'
  BY EndWriteKeepsInv DEF ResInv
<1>2. /\ opts' = opts /\ source' = source /\ repeated' = repeated /\ first' = first
      /\ measured' = measured /\ pass = "write" /\ pass' = "done" /\ pos = Len(source)
      /\ line' = completeLastLine(line)
  BY DEF EndWrite
<1>3. source \in Seq(Byte) /\ opts \in TransformOptions /\ At(line, Len(source)) /\ writing
  BY <1>2, Reading DEF ResInv, Running, writing
<1>4. line'.res = Tallies[Len(source) + 1] /\ line'.out = Flats[Len(source) + 1]
  BY <1>2, <1>3, EndAt
<1>5. Tallies' = Tallies /\ Flats' = Flats
  BY <1>2, SameTables
<1>6. measured = Tallies[Len(source) + 1]
  BY <1>2 DEF ResInv
<1>7. repeated' => Repeating'
  BY <1>2, RepeatingStays DEF ResInv
<1>8. QED
  BY <1>1, <1>2, <1>4, <1>5, <1>6, <1>7 DEF ResInv, Running

LEMMA FailKeepsResInv == ResInv /\ Fail => ResInv'
<1> SUFFICES ASSUME ResInv, Fail PROVE ResInv'
  OBVIOUS
<1>1. Inv'
  BY FailKeepsInv DEF ResInv
<1>2. opts' = opts /\ source' = source /\ repeated' = repeated /\ first' = first /\ pass' = "failed"
  BY DEF Fail
<1>3. repeated' => Repeating'
  BY <1>2, RepeatingStays DEF ResInv
<1>4. QED
  BY <1>1, <1>2, <1>3 DEF ResInv, Running

(* What the invariant says of a transform that is done.                    *)
LEMMA Done ==
  ASSUME ResInv, pass = "done"
  PROVE  /\ source \in Seq(Byte) /\ opts \in TransformOptions
         /\ WouldChange(measured) <=> ~Unchanged(source)
         /\ Result = Transformed(source)
<1>1. source \in Seq(Byte) /\ opts \in TransformOptions /\ Len(source) + 1 \in 0..(Len(source) + 1)
  BY Reading DEF ResInv
<1>2. measured = Tally(source, Len(source) + 1)
  BY <1>1, Looked DEF ResInv
<1>3. WouldChange(measured) <=> ~Unchanged(source)
  BY <1>1, <1>2, CountedIsChanged
<1>4. CASE WouldChange(measured)
  <2>1. line.out = Flat(source, Len(source) + 1)
    BY <1>1, <1>4, Looked DEF ResInv
  <2>2. QED
    BY <1>1, <1>3, <1>4, <2>1, TransformedIs DEF Result
<1>5. CASE ~WouldChange(measured)
  BY <1>1, <1>3, <1>5, UnchangedResult DEF Result
<1>6. QED
  BY <1>1, <1>3, <1>4, <1>5

LEMMA RepeatKeepsResInv == ResInv /\ Repeat => ResInv'
<1> SUFFICES ASSUME ResInv, Repeat PROVE ResInv'
  OBVIOUS
<1>1. Inv'
  BY RepeatKeepsInv DEF ResInv
<1>2. /\ opts' = opts /\ source' = Result /\ pass = "done" /\ pass' = "measure"
      /\ pos' = 0 /\ line' = Fresh /\ first' = [source |-> source, result |-> Result]
  BY DEF Repeat
<1>3. source \in Seq(Byte) /\ Result = Transformed(source)
  BY <1>2, Done
<1>4. (source \in Seq(Byte) => At(Fresh, 0))'
  BY FreshAt, PTL
<1>5. source' \in Seq(Byte)
  BY <1>1 DEF Inv, StreamTypeOK
<1>6. At(line, pos)'
  BY <1>2, <1>4, <1>5 DEF At, IsTrailingRun, writing
<1>7. Synced'
  BY <1>2 DEF Synced
<1>8. Repeating'
  <2>1. FirstResult' = Transformed(source)
    BY <1>2, SameFirst
  <2>2. QED
    BY <1>2, <1>3, <2>1 DEF Repeating
<1>9. QED
  BY <1>1, <1>2, <1>6, <1>7, <1>8 DEF ResInv, Running

LEMMA ResInvInductive == ResInv /\ [Next]_vars => ResInv'
<1> SUFFICES ASSUME ResInv, [Next]_vars PROVE ResInv'
  OBVIOUS
<1>1. CASE UNCHANGED vars
  <2>1. opts' = opts /\ source' = source /\ pass' = pass /\ pos' = pos /\ line' = line
        /\ measured' = measured /\ repeated' = repeated /\ first' = first
    BY <1>1 DEF vars
  <2>2. Inv'
    BY <1>1, InvInductive DEF ResInv
  <2>3. Tallies' = Tallies /\ Flats' = Flats /\ Begins' = Begins
    BY <2>1, SameTables
  <2>4. At(line, pos) => At(line, pos)'
    BY <2>1, <2>3 DEF At, IsTrailingRun, writing
  <2>5. repeated' => Repeating'
    BY <2>1, RepeatingStays DEF ResInv
  <2>6. QED
    BY <2>1, <2>2, <2>3, <2>4, <2>5 DEF ResInv, Running, Synced, WouldChange
<1>2. CASE Next
  BY <1>2, ContentKeepsResInv, LFKeepsResInv, CRKeepsResInv, EndMeasureKeepsResInv,
     EndWriteKeepsResInv, FailKeepsResInv, RepeatKeepsResInv DEF Next
<1>3. QED
  BY <1>1, <1>2

LEMMA ResInvariance == Spec => []ResInv
BY InitResInv, ResInvInductive, PTL DEF Spec

(* The pass that writes counts what the pass that measured counted, for    *)
(* every source: a file is rewritten for the reasons it was opened again   *)
(* for (runTransformStream, both modes).                                   *)
THEOREM BothPassesAgree == Spec => []PassesAgree
<1>1. ResInv => PassesAgree
  BY DEF ResInv, PassesAgree
<1>2. QED
  BY <1>1, ResInvariance, PTL

(* What the two passes of the stream leave is what TransformLines makes of *)
(* the lines of the source, though no line was ever in memory.             *)
THEOREM StreamComputesTransformed == Spec => []ResultIsTransformed
<1>1. ResInv => ResultIsTransformed
  BY Done DEF ResultIsTransformed
<1>2. QED
  BY <1>1, ResInvariance, PTL

(* A preview says "would change" exactly of the files that the transform   *)
(* gives another content (transform_file.go, WouldChange).                 *)
THEOREM PreviewIsExact == Spec => []WouldChangeIsExact
<1>1. ResInv => WouldChangeIsExact
  <2>1. SUFFICES ASSUME ResInv, pass = "done"
                 PROVE  WouldChange(measured) <=> Result # source
    BY DEF WouldChangeIsExact
  <2>2. Unchanged(source) <=> Transformed(source) = source
    BY <2>1, Done, UnchangedResult, SameResult
  <2>3. QED
    BY <2>1, <2>2, Done
<1>2. QED
  BY <1>1, ResInvariance, PTL

(* Where no CR follows a CR, in the source or in the result, a transform   *)
(* repeated finds nothing to do (intent.md: "Idempotent").                 *)
THEOREM RepeatedWithoutCRCR == Spec => []IdempotentWithoutCRCR
<1>1. ResInv => IdempotentWithoutCRCR
  <2>1. SUFFICES ASSUME ResInv, pass = "done", repeated, NoPair(first.source), NoPair(first.result)
                 PROVE  Result = first.result
    BY DEF IdempotentWithoutCRCR, NoPair
  <2>2. /\ first.source \in Seq(Byte) /\ first.result = Transformed(first.source)
        /\ source = first.result
    BY <2>1 DEF ResInv, Repeating, FirstResult
  <2>3. Unchanged(source)
    BY <2>1, <2>2, Done, ResultIsUnchanged
  <2>4. QED
    BY <2>1, <2>2, <2>3, Done DEF Result
<1>2. QED
  BY <1>1, ResInvariance, PTL
=============================================================================
