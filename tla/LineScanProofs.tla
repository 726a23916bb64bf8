---------------------------- MODULE LineScanProofs ----------------------------
(***************************************************************************)
(* What a scan guarantees for sources and patterns of any length, windows  *)
(* of any size, and whatever its reads bring: the handle is where the      *)
(* window ends; the lines handed over are the lines of the source, so that *)
(* the scan implements ScanPromise; a line is said to match when it does;  *)
(* nothing is planned once the context is cancelled; no two outputs get    *)
(* one name; and a scan that succeeds has planned what the request asks of *)
(* the lines.                                                              *)
(*                                                                         *)
(* The inductive invariant has a part for each of these: the types of the  *)
(* scanner's variables; WindowInv, the window against the source;          *)
(* HandleInv, where the handle is and where it was; LineInv, what has been *)
(* handed over; MatchInv, what the matcher knows of the line; RecordInv,   *)
(* what the callbacks keep of the lines they were given; and PartsInv,     *)
(* what their sections are to the lines so far.                            *)
(***************************************************************************)
EXTENDS LineScan, DataInduction, SequenceTheorems, FiniteSetTheorems, TLAPS

USE JobsAssumption, ChunksAssumption, ByteAssumption

-----------------------------------------------------------------------------
(* The inductive invariant.                                                *)

ScannerTypes ==
  /\ job \in Jobs
  /\ pc \in Stage
  /\ outcome \in Outcome
  /\ cancelled \in BOOLEAN
  /\ pos \in Nat
  /\ cap \in Nat \ {0}
  /\ base \in Nat
  /\ window \in Seq(Byte)
  /\ cursor \in Nat
  /\ lineBegin \in Nat
  /\ eof \in BOOLEAN
  /\ line \in Line \cup {NoLine}
  /\ saved \in Nat
  /\ handed \in Seq(Line)

(* The window is the part of the source from base to WindowEnd, and holds  *)
(* what the scanner has not passed of what was read.                       *)
WindowInv ==
  /\ base <= cursor
  /\ lineBegin <= cursor
  /\ cursor <= WindowEnd
  /\ WindowEnd <= Len(source)
  /\ window = Bytes(source, base, WindowEnd)
  /\ eof => WindowEnd = Len(source)

Scanning == {"check", "have", "second", "final"}

Handing == {"visit", "match", "record", "leave"}

HandleInv ==
  /\ pc = "match" => job.op # "extract"
  /\ pc \in Scanning \cup {"visit"} => pos = WindowEnd
  /\ pc \in Handing /\ job.op = "extract" => pos = WindowEnd
  /\ pc \in {"match", "record", "leave"} /\ job.op # "extract" => saved = WindowEnd

Reached == IF handed = << >> THEN 0 ELSE handed[Len(handed)].end

(* Between two lines: what has been passed since ends none.                *)
Between ==
  /\ Plain(source, lineBegin, cursor)
  /\ Reached = lineBegin

(* During the callback: the line is the last one handed over.              *)
Handed ==
  /\ IsLine(source, line)
  /\ line.start = lineBegin
  /\ line.stop = cursor
  /\ line.end <= WindowEnd
  /\ Reached = line.end

LineInv ==
  /\ pc \in Scanning \cup {"finish"} => Between
  /\ pc \in Handing => line \in Line /\ Handed
  /\ pc = "second" => cursor < WindowEnd /\ source[cursor + 1] = CR
  /\ pc = "final" => cursor = Len(source)
  /\ pc = "finish" => lineBegin = Len(source)
  /\ outcome = "none" <=> pc # "done"

ScanInv == ScannerTypes /\ WindowInv /\ HandleInv /\ LineInv

-----------------------------------------------------------------------------
(* Bytes of a source.                                                      *)

LEMMA BytesProperties ==
  ASSUME NEW s \in Seq(Byte), NEW a \in Nat, NEW b \in Nat, a <= b, b <= Len(s)
  PROVE  /\ Bytes(s, a, b) \in Seq(Byte)
         /\ Len(Bytes(s, a, b)) = b - a
         /\ \A i \in 1..(b - a) : Bytes(s, a, b)[i] = s[a + i]
<1>1. \A i \in (a + 1)..b : s[i] \in Byte
  BY ElementOfSeq, LenProperties
<1>2. /\ Bytes(s, a, b) \in Seq(Byte)
      /\ Len(Bytes(s, a, b)) = IF a + 1 <= b THEN b - (a + 1) + 1 ELSE 0
      /\ \A i \in 1..(b - (a + 1) + 1) : Bytes(s, a, b)[i] = s[(a + 1) + i - 1]
  BY <1>1, SubSeqProperties DEF Bytes
<1>3. QED
  BY <1>2

(* What is left when the first bytes are dropped.                          *)
LEMMA BytesDropped ==
  ASSUME NEW s \in Seq(Byte), NEW a \in Nat, NEW b \in Nat, NEW c \in Nat,
         a <= c, c <= b, b <= Len(s)
  PROVE  SubSeq(Bytes(s, a, b), c - a + 1, b - a) = Bytes(s, c, b)
<1> DEFINE t == Bytes(s, a, b)
           u == SubSeq(t, c - a + 1, b - a)
<1>a. a <= b
  OBVIOUS
<1>1. /\ t \in Seq(Byte)
      /\ Len(t) = b - a
      /\ \A i \in 1..(b - a) : t[i] = s[a + i]
  BY <1>a, BytesProperties
<1>2. /\ Bytes(s, c, b) \in Seq(Byte)
      /\ Len(Bytes(s, c, b)) = b - c
      /\ \A i \in 1..(b - c) : Bytes(s, c, b)[i] = s[c + i]
  BY BytesProperties
<1>3. \A i \in (c - a + 1)..(b - a) : t[i] \in Byte
  BY <1>1, ElementOfSeq
<1>4. /\ u \in Seq(Byte)
      /\ Len(u) = b - c
      /\ \A i \in 1..(b - c) : u[i] = t[c - a + i]
  <2> HIDE DEF t
  <2>1. /\ u \in Seq(Byte)
        /\ Len(u) = IF c - a + 1 <= b - a THEN (b - a) - (c - a + 1) + 1 ELSE 0
        /\ \A i \in 1..((b - a) - (c - a + 1) + 1) : u[i] = t[(c - a + 1) + i - 1]
    BY <1>3, SubSeqProperties
  <2>2. QED
    BY <2>1
<1>5. \A i \in 1..(b - c) : u[i] = Bytes(s, c, b)[i]
  <2>1. SUFFICES ASSUME NEW i \in 1..(b - c)
                 PROVE  u[i] = Bytes(s, c, b)[i]
    OBVIOUS
  <2>2. u[i] = t[c - a + i]
    BY <1>4
  <2>3. t[c - a + i] = s[a + (c - a + i)]
    BY <1>1, c - a + i \in 1..(b - a)
  <2>4. a + (c - a + i) = c + i
    OBVIOUS
  <2>5. QED
    BY <2>2, <2>3, <2>4, <1>2
<1>6. QED
  BY <1>2, <1>4, <1>5, SeqEqual

(* Two parts that meet.                                                    *)
LEMMA BytesJoined ==
  ASSUME NEW s \in Seq(Byte), NEW a \in Nat, NEW b \in Nat, NEW c \in Nat,
         a <= b, b <= c, c <= Len(s)
  PROVE  Bytes(s, a, b) \o Bytes(s, b, c) = Bytes(s, a, c)
<1>1. /\ a + 1 \in 1..(Len(s) + 1)
      /\ b \in ((a + 1) - 1)..Len(s)
      /\ c \in b..Len(s)
  BY LenProperties
<1>2. QED
  BY <1>1, ConcatAdjacentSubSeq DEF Bytes

LEMMA SourceIsBytes == job \in Jobs => source \in Seq(Byte)
  BY DEF Job, source

(* A window that drops what the scanner has passed is still what it was of *)
(* the source.                                                             *)
LEMMA Dropping ==
  ASSUME ScannerTypes, WindowInv, NEW c \in Nat, c <= WindowEnd, DropBefore(c)
  PROVE  /\ base' \in Nat
         /\ base' = Most(base, c)
         /\ window' \in Seq(Byte)
         /\ base' + Len(window') = WindowEnd
         /\ window' = Bytes(source, base', WindowEnd)
<1>1. source \in Seq(Byte) /\ Len(source) \in Nat
  BY SourceIsBytes, LenProperties DEF ScannerTypes
<1>2. /\ base' \in Nat
      /\ base' = Most(base, c)
      /\ base <= base'
      /\ base' <= WindowEnd
  BY LenProperties DEF DropBefore, Most, ScannerTypes, WindowInv, WindowEnd
<1>3. WindowEnd \in Nat /\ Len(window) = WindowEnd - base /\ WindowEnd <= Len(source)
  BY LenProperties DEF WindowEnd, ScannerTypes, WindowInv
<1>4. window' = SubSeq(Bytes(source, base, WindowEnd), base' - base + 1, WindowEnd - base)
  BY <1>3 DEF DropBefore, WindowInv
<1>5. window' = Bytes(source, base', WindowEnd)
  BY <1>1, <1>2, <1>3, <1>4, BytesDropped DEF ScannerTypes
<1>6. window' \in Seq(Byte) /\ Len(window') = WindowEnd - base'
  BY <1>1, <1>2, <1>3, <1>5, BytesProperties
<1>7. base' + Len(window') = WindowEnd
  BY <1>2, <1>3, <1>6
<1>8. QED
  BY <1>2, <1>5, <1>6, <1>7

(* What the scanner sees at an offset of its window is in the source.      *)
LEMMA Seen ==
  ASSUME ScannerTypes, WindowInv, NEW o \in Nat, base <= o, Has(o)
  PROVE  At(o) = source[o + 1]
<1>1. source \in Seq(Byte) /\ Len(source) \in Nat
  BY SourceIsBytes, LenProperties DEF ScannerTypes
<1>2. WindowEnd \in Nat /\ WindowEnd <= Len(source) /\ o < WindowEnd /\ base \in Nat
  BY LenProperties DEF WindowEnd, ScannerTypes, WindowInv, Has
<1>a. base <= WindowEnd
  BY <1>2
<1>3. \A i \in 1..(WindowEnd - base) : Bytes(source, base, WindowEnd)[i] = source[base + i]
  BY <1>1, <1>2, <1>a, BytesProperties
<1>4. o - base + 1 \in 1..(WindowEnd - base)
  BY <1>2
<1>5. window[o - base + 1] = source[base + (o - base + 1)]
  BY <1>3, <1>4 DEF WindowInv
<1>6. base + (o - base + 1) = o + 1
  BY <1>2
<1>7. QED
  BY <1>5, <1>6 DEF At

-----------------------------------------------------------------------------
(* The steps of the scanner.                                               *)

LEMMA InitScan == Init => ScanInv
<1> SUFFICES ASSUME Init PROVE ScanInv
  OBVIOUS
<1>1. source \in Seq(Byte) /\ Len(source) \in Nat /\ job \in Jobs
  BY SourceIsBytes, LenProperties DEF Init
<1>2. window = << >> /\ Len(window) = 0 /\ window \in Seq(Byte) /\ handed = << >>
      /\ handed \in Seq(Line)
  BY EmptySeq DEF Init
<1>3. cap \in Nat \ {0}
  BY DEF Init
<1>4. ScannerTypes
  BY <1>1, <1>2, <1>3 DEF Init, ScannerTypes, Stage, Outcome
<1>5. WindowEnd = 0
  BY <1>2 DEF WindowEnd, Init
<1>6. Bytes(source, 0, 0) = << >>
  BY SubSeqEmpty DEF Bytes
<1>7. WindowInv
  BY <1>1, <1>2, <1>5, <1>6 DEF WindowInv, Init
<1>8. HandleInv
  BY <1>5 DEF HandleInv, Init, Scanning, Handing
<1>9. LineInv
  BY <1>2 DEF LineInv, Init, Scanning, Handing, Between, Plain, Reached
<1>10. QED
  BY <1>4, <1>7, <1>8, <1>9 DEF ScanInv

(* The number and the places of a line that is emitted.                    *)
LEMMA Emitting ==
  ASSUME ScanInv, NEW n \in Nat, Emit(n), pc \in Scanning, ScannerOnly,
         UNCHANGED <<pos, cap, eof>>,
         IsLine(source, [num |-> Len(handed) + 1, start |-> lineBegin, stop |-> cursor,
                         end |-> cursor + n]),
         cursor + n <= WindowEnd
  PROVE  ScanInv'
<1> DEFINE l == [num |-> Len(handed) + 1, start |-> lineBegin, stop |-> cursor, end |-> cursor + n]
<1>1. Len(handed) \in Nat
  BY LenProperties DEF ScanInv, ScannerTypes
<1>2. l \in Line
  BY <1>1 DEF ScanInv, ScannerTypes, Line, Offset
<1>3. line' = l /\ handed' = Append(handed, l) /\ pc' = "visit" /\ UNCHANGED outcome
  BY DEF Emit, Goto
<1>4. /\ handed' \in Seq(Line)
      /\ handed' # << >>
      /\ Len(handed') = Len(handed) + 1
      /\ handed'[Len(handed) + 1] = l
  <2> HIDE DEF l
  <2>1. handed \in Seq(Line)
    BY DEF ScanInv, ScannerTypes
  <2>2. QED
    BY <1>2, <1>3, <2>1, AppendProperties
<1>5. UNCHANGED <<job, cancelled, pos, cap, base, window, cursor, lineBegin, eof, saved>>
  BY DEF Emit, ScannerOnly, matchVars
<1>6. UNCHANGED <<source, WindowEnd>>
  BY <1>5 DEF source, WindowEnd
<1>7. ScannerTypes'
  BY <1>2, <1>3, <1>4, <1>5 DEF ScanInv, ScannerTypes, Stage
<1>8. WindowInv'
  BY <1>5, <1>6 DEF ScanInv, WindowInv
<1>9. HandleInv'
  BY <1>3, <1>5, <1>6 DEF ScanInv, HandleInv, Scanning, Handing
<1>10. Reached' = cursor + n
  BY <1>4 DEF Reached
<1>11. Handed'
  BY <1>3, <1>5, <1>6, <1>10 DEF Handed
<1>12. LineInv'
  BY <1>2, <1>3, <1>11 DEF ScanInv, LineInv, Scanning, Handing
<1>13. QED
  BY <1>7, <1>8, <1>9, <1>12 DEF ScanInv

(* What the window and the line are to the source, while none changes.     *)
LEMMA Unmoved ==
  ASSUME ScanInv, UNCHANGED <<job, windowVars, cursor, lineBegin, line, handed>>
  PROVE  /\ UNCHANGED <<source, WindowEnd, Reached>>
         /\ WindowInv'
         /\ Between' <=> Between
         /\ Handed' <=> Handed
<1>1. UNCHANGED <<job, cap, base, window, eof, cursor, lineBegin, line, handed>>
  BY DEF windowVars
<1>2. UNCHANGED <<source, WindowEnd, Reached>>
  BY <1>1 DEF source, WindowEnd, Reached
<1>3. WindowInv'
  BY <1>1, <1>2 DEF ScanInv, WindowInv
<1>4. Between' <=> Between
  BY <1>1, <1>2 DEF Between
<1>5. Handed' <=> Handed
  BY <1>1, <1>2 DEF Handed
<1>6. QED
  BY <1>2, <1>3, <1>4, <1>5

(* A step that goes on between two lines, or ends the scan.                *)
LEMMA CheckScan == ScanInv /\ Check => ScanInv'
<1> SUFFICES ASSUME ScanInv, Check PROVE ScanInv'
  OBVIOUS
<1>1. UNCHANGED <<job, windowVars, cursor, lineBegin, line, handed, pos, cancelled, saved>>
  BY DEF Check, ScannerOnly, matchVars
<1>2. /\ UNCHANGED <<source, WindowEnd, Reached>>
      /\ WindowInv'
      /\ Between' <=> Between
  BY <1>1, Unmoved
<1>3. pc = "check" /\ outcome = "none" /\ Between /\ pos = WindowEnd
  BY DEF Check, ScanInv, LineInv, HandleInv, Scanning
<1>4. \/ pc' = "have" /\ outcome' = "none"
      \/ pc' = "done" /\ outcome' = "cancelled"
  BY <1>3 DEF Check, Unless, Goto, Finish
<1>5. ScannerTypes'
  BY <1>1, <1>4 DEF ScanInv, ScannerTypes, Stage, Outcome, windowVars
<1>6. HandleInv'
  BY <1>1, <1>2, <1>3, <1>4 DEF HandleInv, Scanning, Handing
<1>7. LineInv'
  BY <1>2, <1>3, <1>4 DEF LineInv, Scanning, Handing
<1>8. QED
  BY <1>2, <1>5, <1>6, <1>7 DEF ScanInv

(* A byte that ends no line belongs to the line.                           *)
LEMMA PassScan ==
  ASSUME ScanInv, pc = "have", Has(cursor), At(cursor) \notin {CR, LF}, Pass,
         UNCHANGED <<pos, cap, eof>>, ScannerOnly
  PROVE  ScanInv'
<1>1. /\ pc' = "check" /\ outcome' = outcome /\ cursor' = cursor + 1
      /\ UNCHANGED <<job, cancelled, lineBegin, saved, line, handed, pos, cap, eof>>
  BY DEF Pass, Goto, ScannerOnly, matchVars
<1>2. ScannerTypes /\ WindowInv /\ cursor \in Nat /\ base \in Nat /\ base <= cursor
  BY DEF ScanInv, ScannerTypes, WindowInv
<1>3. WindowEnd \in Nat /\ cursor + 1 <= WindowEnd
  BY <1>2, LenProperties DEF WindowEnd, ScannerTypes, Has
<1>4. /\ base' \in Nat
      /\ base' = Most(base, cursor + 1)
      /\ window' \in Seq(Byte)
      /\ base' + Len(window') = WindowEnd
      /\ window' = Bytes(source, base', WindowEnd)
  <2>1. DropBefore(cursor + 1)
    BY <1>1 DEF Pass
  <2>2. cursor + 1 \in Nat
    BY <1>2
  <2>3. QED
    BY <1>2, <1>3, <2>1, <2>2, Dropping
<1>5. UNCHANGED source /\ WindowEnd' = WindowEnd /\ Reached' = Reached
  BY <1>1, <1>4 DEF source, WindowEnd, Reached
<1>6. ScannerTypes'
  BY <1>1, <1>2, <1>4 DEF ScannerTypes, Stage
<1>7. WindowInv'
  <2>1. base' <= cursor'
    BY <1>1, <1>2, <1>4 DEF Most
  <2>2. lineBegin' <= cursor'
    BY <1>1, <1>2 DEF ScannerTypes, WindowInv
  <2>3. cursor' <= WindowEnd'
    BY <1>1, <1>3, <1>5
  <2>4. WindowEnd' <= Len(source') /\ (eof' => WindowEnd' = Len(source'))
    BY <1>1, <1>2, <1>5 DEF WindowInv
  <2>5. window' = Bytes(source', base', WindowEnd')
    BY <1>4, <1>5
  <2>6. QED
    BY <2>1, <2>2, <2>3, <2>4, <2>5 DEF WindowInv
<1>8. HandleInv'
  BY <1>1, <1>5 DEF ScanInv, HandleInv, Scanning, Handing
<1>9. Between'
  <2>1. Between
    BY DEF ScanInv, LineInv, Scanning
  <2>2. At(cursor) = source[cursor + 1]
    BY <1>2, Seen
  <2>3. Plain(source, lineBegin, cursor + 1)
    BY <1>2, <2>1, <2>2 DEF Between, Plain, ScannerTypes
  <2>4. QED
    BY <1>1, <1>5, <2>1, <2>3 DEF Between
<1>10. LineInv'
  BY <1>1, <1>9 DEF ScanInv, LineInv, Scanning, Handing
<1>11. QED
  BY <1>6, <1>7, <1>8, <1>10 DEF ScanInv

(* LF ends a line.                                                         *)
LEMMA FeedScan ==
  ASSUME ScanInv, pc = "have", Has(cursor), At(cursor) = LF, Emit(1),
         UNCHANGED <<pos, cap, eof>>, ScannerOnly
  PROVE  ScanInv'
<1>1. ScannerTypes /\ WindowInv /\ cursor \in Nat /\ lineBegin \in Nat /\ base <= cursor
  BY DEF ScanInv, ScannerTypes, WindowInv
<1>2. WindowEnd \in Nat /\ cursor + 1 <= WindowEnd
  BY <1>1, LenProperties DEF WindowEnd, ScannerTypes, Has
<1>3. source[cursor + 1] = LF
  BY <1>1, Seen
<1>4. Plain(source, lineBegin, cursor)
  BY DEF ScanInv, LineInv, Scanning, Between
<1>5. IsLine(source, [num |-> Len(handed) + 1, start |-> lineBegin, stop |-> cursor,
                      end |-> cursor + 1])
  <2>1. Len(source) \in Nat /\ WindowEnd <= Len(source)
    BY <1>1, SourceIsBytes, LenProperties DEF ScannerTypes, WindowInv
  <2>2. QED
    BY <1>1, <1>2, <1>3, <1>4, <2>1 DEF IsLine, WindowInv
<1>6. QED
  BY <1>2, <1>5, Emitting DEF Scanning

LEMMA ReturnSeen ==
  ASSUME ScanInv, pc = "have", Has(cursor), At(cursor) = CR, Goto("second"),
         UNCHANGED <<cursor, base, window, line, handed, pos, cap, eof>>, ScannerOnly
  PROVE  ScanInv'
<1>1. /\ pc' = "second" /\ outcome' = outcome
      /\ UNCHANGED <<job, windowVars, cursor, lineBegin, line, handed, pos, cancelled, saved>>
  BY DEF Goto, ScannerOnly, matchVars, windowVars
<1>2. /\ UNCHANGED <<source, WindowEnd, Reached>>
      /\ WindowInv'
      /\ Between' <=> Between
  BY <1>1, Unmoved
<1>3. ScannerTypes /\ WindowInv /\ cursor \in Nat /\ base <= cursor
  BY DEF ScanInv, ScannerTypes, WindowInv
<1>4. source[cursor + 1] = CR /\ cursor < WindowEnd
  BY <1>3, Seen DEF Has
<1>5. ScannerTypes'
  BY <1>1, <1>3 DEF ScannerTypes, Stage, windowVars
<1>6. HandleInv'
  BY <1>1, <1>2 DEF ScanInv, HandleInv, Scanning, Handing
<1>7. LineInv'
  BY <1>1, <1>2, <1>4 DEF ScanInv, LineInv, Scanning, Handing
<1>8. QED
  BY <1>2, <1>5, <1>6, <1>7 DEF ScanInv

LEMMA DispatchScan == ScanInv /\ Dispatch => ScanInv'
  BY PassScan, FeedScan, ReturnSeen DEF Dispatch

(* CR ends a line, alone or with the LF that follows it.                   *)
LEMMA SecondScan == ScanInv /\ Second => ScanInv'
<1> SUFFICES ASSUME ScanInv, Second PROVE ScanInv'
  OBVIOUS
<1> DEFINE l(n) == [num |-> Len(handed) + 1, start |-> lineBegin, stop |-> cursor,
                    end |-> cursor + n]
<1>1. /\ ScannerTypes /\ WindowInv /\ cursor \in Nat /\ lineBegin \in Nat /\ base \in Nat
      /\ base <= cursor /\ lineBegin <= cursor /\ pc = "second"
  BY DEF ScanInv, ScannerTypes, WindowInv, Second
<1>2. WindowEnd \in Nat /\ cursor + 1 <= WindowEnd /\ source[cursor + 1] = CR
      /\ Plain(source, lineBegin, cursor)
  BY <1>1, LenProperties DEF WindowEnd, ScannerTypes, ScanInv, LineInv, Scanning, Between
<1>3. Len(source) \in Nat /\ WindowEnd <= Len(source)
  BY <1>1, SourceIsBytes, LenProperties DEF ScannerTypes, WindowInv
<1>4. /\ pc \in Scanning /\ ScannerOnly /\ UNCHANGED <<pos, cap, eof>>
  BY <1>1 DEF Second, Scanning
<1>5. CASE Has(cursor + 1) /\ Emit(IF At(cursor + 1) = LF THEN 2 ELSE 1)
  <2>1. At(cursor + 1) = source[cursor + 2] /\ cursor + 2 <= WindowEnd
    <3>1. cursor + 1 \in Nat /\ base <= cursor + 1
      BY <1>1
    <3>2. At(cursor + 1) = source[cursor + 1 + 1]
      BY <1>1, <1>5, <3>1, Seen
    <3>3. cursor + 1 + 1 = cursor + 2 /\ cursor + 2 <= WindowEnd
      BY <1>1, <1>2, <1>5 DEF Has
    <3>4. QED
      BY <3>2, <3>3
  <2>2. CASE At(cursor + 1) = LF
    <3>1. IsLine(source, l(2))
      BY <1>1, <1>2, <1>3, <2>1, <2>2 DEF IsLine
    <3>2. Emit(2)
      BY <1>5, <2>2
    <3>3. QED
      BY <1>4, <2>1, <3>1, <3>2, Emitting
  <2>3. CASE At(cursor + 1) # LF
    <3>1. IsLine(source, l(1))
      BY <1>1, <1>2, <1>3, <2>1, <2>3 DEF IsLine
    <3>2. Emit(1)
      BY <1>5, <2>3
    <3>3. QED
      BY <1>2, <1>4, <3>1, <3>2, Emitting
  <2>4. QED
    BY <2>2, <2>3
<1>6. CASE ~Has(cursor + 1) /\ eof /\ Emit(1)
  <2>1. cursor + 1 = Len(source)
    BY <1>1, <1>2, <1>6 DEF WindowInv, Has
  <2>2. IsLine(source, l(1))
    BY <1>1, <1>2, <1>3, <2>1 DEF IsLine
  <2>3. QED
    BY <1>2, <1>4, <1>6, <2>2, Emitting
<1>7. QED
  BY <1>5, <1>6 DEF Second

LEMMA EndScan == ScanInv /\ EndOfStream => ScanInv'
<1> SUFFICES ASSUME ScanInv, EndOfStream PROVE ScanInv'
  OBVIOUS
<1>1. /\ pc = "have" /\ pc' = "final" /\ outcome' = outcome
      /\ UNCHANGED <<job, windowVars, cursor, lineBegin, line, handed, pos, cancelled, saved>>
  BY DEF EndOfStream, Goto, ScannerOnly, matchVars
<1>2. /\ UNCHANGED <<source, WindowEnd, Reached>>
      /\ WindowInv'
      /\ Between' <=> Between
  BY <1>1, Unmoved
<1>3. cursor \in Nat /\ WindowEnd \in Nat /\ cursor = WindowEnd /\ WindowEnd = Len(source)
  BY LenProperties DEF ScanInv, ScannerTypes, WindowInv, WindowEnd, EndOfStream, Has
<1>4. ScannerTypes'
  BY <1>1 DEF ScanInv, ScannerTypes, Stage, windowVars
<1>5. HandleInv'
  BY <1>1, <1>2 DEF ScanInv, HandleInv, Scanning, Handing
<1>6. LineInv'
  BY <1>1, <1>2, <1>3 DEF ScanInv, LineInv, Scanning, Handing
<1>7. QED
  BY <1>2, <1>4, <1>5, <1>6 DEF ScanInv

(* A read appends what follows the window, when there is room once what    *)
(* the scanner has passed is dropped.                                      *)
LEMMA RefillScan == ScanInv /\ Refill => ScanInv'
<1> SUFFICES ASSUME ScanInv, Refill PROVE ScanInv'
  OBVIOUS
<1> DEFINE full == Len(window) >= cap
           begin == IF full THEN Most(base, cursor) ELSE base
           kept == SubSeq(window, begin - base + 1, Len(window))
           room == IF Len(kept) >= cap THEN Most(2 * cap, GrownChunk) ELSE cap
<1>1. /\ ScannerTypes /\ WindowInv /\ cursor \in Nat /\ lineBegin \in Nat /\ base \in Nat
      /\ base <= cursor /\ lineBegin <= cursor /\ pos \in Nat /\ cap \in Nat \ {0}
  BY DEF ScanInv, ScannerTypes, WindowInv
<1>2. /\ pc \in {"have", "second"} /\ ~eof /\ pos = WindowEnd /\ outcome = "none" /\ Between
  BY DEF Refill, ScanInv, HandleInv, LineInv, Scanning
<1>3. /\ source \in Seq(Byte) /\ Len(source) \in Nat
      /\ WindowEnd \in Nat /\ cursor <= WindowEnd /\ WindowEnd <= Len(source)
      /\ Len(window) = WindowEnd - base
      /\ window = Bytes(source, base, WindowEnd)
  BY <1>1, SourceIsBytes, LenProperties DEF ScannerTypes, WindowInv, WindowEnd
<1>4. PICK n \in 0..Least(room - Len(kept), Len(source) - pos) :
        /\ cap' = room
        /\ base' = begin
        /\ window' = kept \o Bytes(source, pos, pos + n)
        /\ pos' = pos + n
        /\ \/ n > 0 /\ UNCHANGED <<pc, outcome, eof>>
           \/ pos' = Len(source) /\ eof' = TRUE /\ UNCHANGED <<pc, outcome>>
           \/ Finish("readError") /\ UNCHANGED eof
  <2> HIDE DEF room, kept, begin, full
  <2>1. QED
    BY DEF Refill, room, kept, begin, full
<1>5. UNCHANGED <<job, cursor, line, handed, lineBegin, cancelled, saved>>
  BY DEF Refill, ScannerOnly, matchVars
<1>6. begin \in Nat /\ base <= begin /\ begin <= cursor /\ begin <= WindowEnd
  <2>1. begin = base \/ begin = cursor
    BY <1>1 DEF Most
  <2>2. base <= cursor /\ base <= WindowEnd
    BY <1>1, <1>3
  <2> HIDE DEF begin
  <2>3. QED
    BY <1>1, <1>3, <2>1, <2>2
<1>7. kept = Bytes(source, begin, WindowEnd)
  <2>1. kept = SubSeq(Bytes(source, base, WindowEnd), begin - base + 1, WindowEnd - base)
    BY <1>3
  <2> HIDE DEF begin, kept
  <2>2. QED
    BY <1>1, <1>3, <1>6, <2>1, BytesDropped
<1>8. kept \in Seq(Byte) /\ Len(kept) = WindowEnd - begin
  <2> HIDE DEF begin, kept
  <2>1. QED
    BY <1>3, <1>6, <1>7, BytesProperties
<1>9. room \in Nat \ {0}
  <2> HIDE DEF kept
  <2>1. QED
    BY <1>1 DEF Most
<1>10. n \in Nat /\ pos + n <= Len(source)
  <2>1. Len(source) - pos \in Nat
    BY <1>2, <1>3
  <2>2. room - Len(kept) \in Int
    <3> HIDE DEF room, kept, begin
    <3>1. QED
      BY <1>3, <1>6, <1>8, <1>9
  <2> HIDE DEF room, kept, begin
  <2>3. Least(room - Len(kept), Len(source) - pos) \in Int
        /\ Least(room - Len(kept), Len(source) - pos) <= Len(source) - pos
    BY <2>1, <2>2 DEF Least
  <2>4. n \in Nat /\ n <= Len(source) - pos
    BY <2>1, <2>3
  <2>5. QED
    BY <1>1, <1>3, <2>4
<1> HIDE DEF room, kept, begin, full
<1>11. window' = Bytes(source, begin, pos + n)
  <2>1. pos + n \in Nat /\ WindowEnd <= pos + n
    BY <1>2, <1>3, <1>10
  <2>2. window' = Bytes(source, begin, WindowEnd) \o Bytes(source, WindowEnd, pos + n)
    BY <1>2, <1>4, <1>7
  <2>3. QED
    BY <1>3, <1>6, <1>10, <2>1, <2>2, BytesJoined
<1>12. window' \in Seq(Byte) /\ Len(window') = pos + n - begin
  <2> DEFINE e == pos + n
  <2>a. e = pos + n
    OBVIOUS
  <2>1. e \in Nat /\ begin <= e /\ e <= Len(source)
    BY <1>1, <1>2, <1>6, <1>10
  <2>2. window' = Bytes(source, begin, e)
    BY <1>11
  <2> HIDE DEF e
  <2>3. window' \in Seq(Byte) /\ Len(window') = e - begin
    <3>1. source \in Seq(Byte) /\ begin \in Nat
      BY <1>3, <1>6
    <3>2. Bytes(source, begin, e) \in Seq(Byte) /\ Len(Bytes(source, begin, e)) = e - begin
      BY ONLY <2>1, <3>1, BytesProperties
    <3>3. QED
      BY <2>2, <3>2
  <2>4. window' \in Seq(Byte)
    BY <2>3
  <2>5. Len(window') = pos + n - begin
    BY <1>1, <1>6, <1>10, <2>a, <2>1, <2>3
  <2>6. QED
    BY <2>4, <2>5
<1>13. /\ UNCHANGED <<source, Reached>> /\ pos' \in Nat /\ WindowEnd' = pos'
  <2>1. UNCHANGED <<source, Reached>>
    BY <1>5 DEF source, Reached
  <2>2. pos' \in Nat
    BY <1>1, <1>4, <1>10
  <2>3. WindowEnd' = begin + Len(window')
    BY <1>4 DEF WindowEnd
  <2>4. begin + Len(window') = pos + n
    BY <1>1, <1>6, <1>10, <1>12
  <2>5. QED
    BY <1>4, <2>1, <2>2, <2>3, <2>4
<1>14. \/ UNCHANGED <<pc, outcome>> /\ (eof' => pos' = Len(source))
       \/ pc' = "done" /\ outcome' = "readError" /\ eof' = FALSE
  BY <1>2, <1>4 DEF Finish
<1>15. ScannerTypes'
  <2>1. eof' \in BOOLEAN
    BY <1>4 DEF ScanInv, ScannerTypes
  <2>2. pc' \in Stage /\ outcome' \in Outcome
    BY <1>1, <1>14 DEF ScannerTypes, Stage, Outcome
  <2>3. cap' \in Nat \ {0} /\ base' \in Nat /\ window' \in Seq(Byte) /\ pos' \in Nat
    BY <1>4, <1>6, <1>9, <1>12, <1>13
  <2>4. QED
    BY <1>1, <1>5, <2>1, <2>2, <2>3 DEF ScannerTypes
<1>16. WindowInv'
  <2>1. base' <= cursor' /\ lineBegin' <= cursor'
    BY <1>1, <1>4, <1>5, <1>6
  <2>2. cursor' <= WindowEnd' /\ WindowEnd' <= Len(source')
    <3>1. cursor <= pos + n
      BY <1>1, <1>2, <1>3, <1>10
    <3>2. QED
      BY <1>4, <1>5, <1>10, <1>13, <3>1
  <2>3. window' = Bytes(source', base', WindowEnd')
    BY <1>4, <1>11, <1>13
  <2>4. eof' => WindowEnd' = Len(source')
    BY <1>13, <1>14
  <2>5. QED
    BY <2>1, <2>2, <2>3, <2>4 DEF WindowInv
<1>17. HandleInv'
  BY <1>2, <1>13, <1>14 DEF HandleInv, Scanning, Handing
<1>18. LineInv'
  <2>1. Between'
    BY <1>2, <1>5, <1>13 DEF Between
  <2>2. pc' = "second" => cursor' < WindowEnd' /\ source'[cursor' + 1] = CR
    <3> SUFFICES ASSUME pc' = "second" PROVE cursor' < WindowEnd' /\ source'[cursor' + 1] = CR
      OBVIOUS
    <3>1. pc = "second"
      BY <1>14
    <3>2. cursor < WindowEnd /\ source[cursor + 1] = CR
      BY <3>1 DEF ScanInv, LineInv
    <3>3. cursor < pos + n
      BY <1>1, <1>2, <1>3, <1>10, <3>2
    <3>4. QED
      BY <1>4, <1>5, <1>13, <3>2, <3>3
  <2>3. QED
    BY <1>2, <1>14, <2>1, <2>2 DEF LineInv, Scanning, Handing
<1>19. QED
  BY <1>15, <1>16, <1>17, <1>18 DEF ScanInv

(* What follows the last end of a line is a line, too.                     *)
LEMMA FinalScan == ScanInv /\ Final => ScanInv'
<1> SUFFICES ASSUME ScanInv, Final PROVE ScanInv'
  OBVIOUS
<1>1. /\ ScannerTypes /\ WindowInv /\ cursor \in Nat /\ lineBegin \in Nat
      /\ lineBegin <= cursor /\ pc = "final" /\ outcome = "none"
      /\ Between /\ cursor = Len(source)
  BY DEF Final, ScanInv, ScannerTypes, WindowInv, LineInv, Scanning
<1>2. UNCHANGED <<pos, cap, eof>> /\ ScannerOnly
  BY DEF Final
<1>3. CASE cursor > lineBegin /\ Emit(0)
  <2>1. cursor + 0 = cursor /\ cursor + 0 <= WindowEnd
    BY <1>1 DEF WindowInv
  <2>2. IsLine(source, [num |-> Len(handed) + 1, start |-> lineBegin, stop |-> cursor,
                        end |-> cursor + 0])
    BY <1>1, <1>3, <2>1 DEF IsLine, Between
  <2>3. QED
    BY <1>1, <1>2, <1>3, <2>1, <2>2, Emitting DEF Scanning
<1>4. CASE /\ \/ Finish("cancelled")
              \/ Goto("finish") /\ cursor <= lineBegin
           /\ UNCHANGED <<cursor, base, window, line, handed>>
  <2>1. UNCHANGED <<job, windowVars, cursor, lineBegin, line, handed, pos, cancelled, saved>>
    BY <1>2, <1>4 DEF ScannerOnly, matchVars, windowVars
  <2>2. /\ UNCHANGED <<source, WindowEnd, Reached>>
        /\ WindowInv'
        /\ Between' <=> Between
    BY <2>1, Unmoved
  <2>3. \/ pc' = "done" /\ outcome' = "cancelled"
        \/ pc' = "finish" /\ outcome' = "none" /\ lineBegin = Len(source)
    BY <1>1, <1>4 DEF Finish, Goto
  <2>4. ScannerTypes'
    BY <1>1, <2>1, <2>3 DEF ScannerTypes, Stage, Outcome, windowVars
  <2>5. HandleInv'
    BY <2>3 DEF HandleInv, Scanning, Handing
  <2>6. LineInv'
    BY <1>1, <2>1, <2>2, <2>3 DEF LineInv, Scanning, Handing
  <2>7. QED
    BY <2>2, <2>4, <2>5, <2>6 DEF ScanInv
<1>5. QED
  BY <1>3, <1>4 DEF Final

-----------------------------------------------------------------------------
(* The steps of the callback, which leave the window and the line alone.   *)

(* What such a step has to say of the handle.                              *)
LEMMA Calling ==
  ASSUME ScanInv, CallbackOnly, pc \in Handing,
         pos' \in Nat, saved' \in Nat,
         \/ pc' \in Handing \ {"visit"} /\ outcome' = outcome
         \/ pc' = "done" /\ outcome' \in Outcome \ {"none"},
         pc' = "match" => job.op # "extract",
         job.op = "extract" => pos' = pos,
         job.op # "extract" /\ pc' # "done" => saved' = WindowEnd
  PROVE  ScanInv'
<1>1. UNCHANGED <<job, windowVars, cursor, lineBegin, line, handed, cancelled>>
  BY DEF CallbackOnly
<1>2. /\ UNCHANGED <<source, WindowEnd, Reached>>
      /\ WindowInv'
      /\ Handed' <=> Handed
  BY <1>1, Unmoved
<1>3. line \in Line /\ Handed /\ outcome = "none"
  BY DEF ScanInv, LineInv, Handing
<1>4. ScannerTypes'
  BY <1>1 DEF ScanInv, ScannerTypes, Stage, Handing, windowVars
<1>5. HandleInv'
  <2>1. pc' \in Handing => pc' \in {"match", "record", "leave"}
    BY <1>3 DEF Handing
  <2>2. job.op = "extract" => pos = WindowEnd
    BY DEF ScanInv, HandleInv, Handing
  <2>3. pc' \in Handing \/ pc' = "done"
    OBVIOUS
  <2>4. QED
    BY <1>1, <1>2, <2>1, <2>2, <2>3 DEF HandleInv, Scanning, Handing
<1>6. LineInv'
  BY <1>1, <1>2, <1>3 DEF LineInv, Scanning, Handing
<1>7. QED
  BY <1>2, <1>4, <1>5, <1>6 DEF ScanInv

LEMMA VisitScan == ScanInv /\ Visit => ScanInv'
<1> SUFFICES ASSUME ScanInv, Visit PROVE ScanInv'
  OBVIOUS
<1>1. pc = "visit" /\ pos = WindowEnd /\ line \in Line /\ pos \in Nat
  BY DEF Visit, ScanInv, HandleInv, LineInv, ScannerTypes, Handing
<1>2. line.start \in Nat
  BY <1>1 DEF Line, Offset
<1>3. CallbackOnly /\ saved' = pos
  BY DEF Visit
<1>4. \/ pc' \in {"match", "record"} /\ outcome' = outcome
      \/ pc' = "done" /\ outcome' = "cancelled"
  BY DEF Visit, Unless, Goto, Finish
<1>5. pos' \in Nat /\ (job.op = "extract" => pos' = pos /\ pc' = "record")
  BY <1>1, <1>2 DEF Visit, Goto
<1>6. QED
  BY <1>1, <1>3, <1>4, <1>5, Calling DEF Handing, Outcome

LEMMA ReadContentScan == ScanInv /\ ReadContent => ScanInv'
<1> SUFFICES ASSUME ScanInv, ReadContent PROVE ScanInv'
  OBVIOUS
<1>1. /\ pc = "match" /\ line \in Line /\ pos \in Nat /\ saved \in Nat
      /\ job.op # "extract" => saved = WindowEnd
  BY DEF ReadContent, ScanInv, HandleInv, LineInv, ScannerTypes, Handing
<1>2. CallbackOnly /\ UNCHANGED <<pc, outcome, saved>>
  BY DEF ReadContent
<1>3. pos' \in Nat /\ job.op # "extract"
  BY <1>1 DEF ReadContent, ScanInv, HandleInv
<1>4. QED
  BY <1>1, <1>2, <1>3, Calling DEF Handing

LEMMA DecideScan == ScanInv /\ Decide => ScanInv'
<1> SUFFICES ASSUME ScanInv, Decide PROVE ScanInv'
  OBVIOUS
<1>1. /\ pc = "match" /\ pos \in Nat /\ saved \in Nat
      /\ job.op # "extract" => saved = WindowEnd
  BY DEF Decide, ScanInv, HandleInv, ScannerTypes
<1>2. CallbackOnly /\ UNCHANGED <<pos, saved>>
  BY DEF Decide
<1>3. \/ pc' = "record" /\ outcome' = outcome
      \/ pc' = "done" /\ outcome' = "cancelled"
  BY DEF Decide, Unless, Goto, Finish
<1>4. QED
  BY <1>1, <1>2, <1>3, Calling DEF Handing, Outcome

(* Where the last read of a section that is planned left the handle.       *)
LEMMA Planning ==
  ASSUME ScannerTypes, NEW from, NEW to, Plan(from, to)
  PROVE  pos' \in Nat
<1>1. Len(source) \in Nat
  BY SourceIsBytes, LenProperties DEF ScannerTypes
<1>2. QED
  BY <1>1 DEF Plan

LEMMA RecordScan == ScanInv /\ Record => ScanInv'
<1> SUFFICES ASSUME ScanInv, Record PROVE ScanInv'
  OBVIOUS
<1>1. /\ pc = "record" /\ pos \in Nat /\ saved \in Nat /\ ScannerTypes
      /\ job.op # "extract" => saved = WindowEnd
  BY DEF Record, ScanInv, HandleInv, ScannerTypes
<1>2. CallbackOnly /\ saved' = saved
  BY DEF Record, matchVars
<1>3. /\ pos' \in Nat
      /\ job.op = "extract" => pos' = pos
      /\ \/ pc' = "leave" /\ outcome' = outcome
         \/ pc' = "done" /\ outcome' \in {"cancelled", "maxFiles", "enough"}
  <2>1. CASE Closes /\ cancelled /\ Finish("cancelled") /\ UNCHANGED <<pos, recordVars>>
    BY <1>1, <2>1 DEF Finish
  <2>2. CASE SplitDelimiter
    <3>1. CASE HasSection(line.start)
      <4>1. Plan(SectionStart, line.start)
        BY <2>2, <3>1 DEF SplitDelimiter, CloseSection
      <4>2. pos' \in Nat
        BY <1>1, <4>1, Planning
      <4>3. QED
        BY <2>2, <4>2 DEF SplitDelimiter, Finish, Goto
    <3>2. CASE ~HasSection(line.start)
      BY <1>1, <2>2, <3>2 DEF SplitDelimiter, CloseSection, Finish, Goto
    <3>3. QED
      BY <3>1, <3>2
  <2>3. CASE InnerLine
    BY <1>1, <2>3 DEF InnerLine, Goto
  <2>4. CASE StartBlock
    BY <1>1, <2>4 DEF StartBlock, Goto
  <2>5. CASE CloseBlock
    <3>1. CASE pos' = pos
      BY <1>1, <2>5, <3>1 DEF CloseBlock, Finish, Goto
    <3>2. CASE pos' # pos
      <4>1. PICK from, to : Plan(from, to)
        BY <2>5, <3>2 DEF CloseBlock
      <4>2. pos' \in Nat
        BY <1>1, <4>1, Planning
      <4>3. QED
        BY <2>5, <4>2 DEF CloseBlock, Finish, Goto
    <3>3. QED
      BY <3>1, <3>2
  <2>6. CASE RangeLine
    BY <1>1, <2>6 DEF RangeLine, Finish, Goto
  <2>7. QED
    BY <2>1, <2>2, <2>3, <2>4, <2>5, <2>6 DEF Record
<1>4. QED
  BY <1>1, <1>2, <1>3, Calling DEF Handing, Outcome

(* The window goes on where the line ends, and the handle where the window *)
(* does.                                                                   *)
LEMMA LeaveScan == ScanInv /\ Leave => ScanInv'
<1> SUFFICES ASSUME ScanInv, Leave PROVE ScanInv'
  OBVIOUS
<1>1. /\ pc = "leave" /\ pc' = "check" /\ outcome' = outcome
      /\ lineBegin' = line.end /\ cursor' = line.end
      /\ UNCHANGED <<job, cancelled, cap, eof, line, saved, handed>>
      /\ pos' = IF job.op = "extract" THEN pos ELSE Most(saved, line.end)
  BY DEF Leave, Goto, matchVars
<1>2. /\ ScannerTypes /\ WindowInv /\ line \in Line /\ Handed
      /\ job.op = "extract" => pos = WindowEnd
      /\ job.op # "extract" => saved = WindowEnd
  BY <1>1 DEF ScanInv, HandleInv, LineInv, Handing
<1>3. line.end \in Nat /\ line.end <= WindowEnd /\ cursor <= line.end /\ Reached = line.end
  BY <1>2 DEF Line, Offset, Handed, IsLine
<1>4. WindowEnd \in Nat /\ base \in Nat /\ base <= cursor /\ cursor \in Nat
  BY <1>2, LenProperties DEF WindowEnd, ScannerTypes, WindowInv
<1>5. /\ base' \in Nat
      /\ base' = Most(base, line.end)
      /\ window' \in Seq(Byte)
      /\ base' + Len(window') = WindowEnd
      /\ window' = Bytes(source, base', WindowEnd)
  <2>1. DropBefore(line.end)
    BY <1>1 DEF Leave
  <2>2. QED
    BY <1>2, <1>3, <2>1, Dropping
<1>6. UNCHANGED <<source, Reached>> /\ WindowEnd' = WindowEnd
  BY <1>1, <1>5 DEF source, WindowEnd, Reached
<1>7. pos' = WindowEnd
  BY <1>1, <1>2, <1>3, <1>4 DEF Most
<1>8. ScannerTypes'
  BY <1>1, <1>2, <1>3, <1>4, <1>5, <1>7 DEF ScannerTypes, Stage
<1>9. WindowInv'
  <2>1. base' <= cursor' /\ lineBegin' <= cursor'
    BY <1>1, <1>3, <1>4, <1>5 DEF Most
  <2>2. cursor' <= WindowEnd'
    BY <1>1, <1>3, <1>6
  <2>3. WindowEnd' <= Len(source') /\ (eof' => WindowEnd' = Len(source'))
    BY <1>1, <1>2, <1>6 DEF WindowInv
  <2>4. window' = Bytes(source', base', WindowEnd')
    BY <1>5, <1>6
  <2>5. QED
    BY <2>1, <2>2, <2>3, <2>4 DEF WindowInv
<1>10. HandleInv'
  BY <1>1, <1>6, <1>7 DEF HandleInv, Scanning, Handing
<1>11. Between'
  BY <1>1, <1>3, <1>6 DEF Between, Plain
<1>12. LineInv'
  BY <1>1, <1>11 DEF ScanInv, LineInv, Scanning, Handing
<1>13. QED
  BY <1>8, <1>9, <1>10, <1>12 DEF ScanInv

(* The end of a scan, wherever it comes.                                   *)
LEMMA Ending ==
  ASSUME ScanInv, UNCHANGED <<job, cancelled, windowVars, cursor, lineBegin, line, handed, saved>>,
         pos' \in Nat, pc' = "done", outcome' \in Outcome \ {"none"}
  PROVE  ScanInv'
<1>1. WindowInv'
  BY Unmoved
<1>2. ScannerTypes'
  BY DEF ScanInv, ScannerTypes, Stage, windowVars
<1>3. HandleInv' /\ LineInv'
  BY DEF HandleInv, LineInv, Scanning, Handing
<1>4. QED
  BY <1>1, <1>2, <1>3 DEF ScanInv

LEMMA FinishCallScan == ScanInv /\ FinishCall => ScanInv'
<1> SUFFICES ASSUME ScanInv, FinishCall PROVE ScanInv'
  OBVIOUS
<1>1. CallbackOnly /\ saved' = saved /\ ScannerTypes /\ pos \in Nat
  BY DEF FinishCall, matchVars, ScanInv, ScannerTypes
<1>2. pc' = "done" /\ outcome' \in Outcome \ {"none"}
  BY DEF FinishCall, FinishSplit, FinishBlocks, FinishExtract, Finish, Outcome
<1>3. pos' \in Nat
  <2>1. CASE pos' = pos
    BY <1>1, <2>1
  <2>2. CASE pos' # pos
    <3>1. Plan(SectionStart, Len(source))
      BY <2>2 DEF FinishCall, FinishSplit, FinishBlocks, FinishExtract, CloseSection
    <3>2. QED
      BY <1>1, <3>1, Planning
  <2>3. QED
    BY <2>1, <2>2
<1>4. QED
  BY <1>1, <1>2, <1>3, Ending DEF CallbackOnly

LEMMA CallbackFailsScan == ScanInv /\ CallbackFails => ScanInv'
<1> SUFFICES ASSUME ScanInv, CallbackFails PROVE ScanInv'
  OBVIOUS
<1>1. /\ CallbackOnly /\ UNCHANGED <<saved, pos>> /\ pos \in Nat
      /\ pc' = "done" /\ outcome' = "readError"
  BY DEF CallbackFails, matchVars, Finish, ScanInv, ScannerTypes
<1>2. QED
  BY <1>1, Ending DEF CallbackOnly, Outcome

LEMMA CancelScan == ScanInv /\ Cancel => ScanInv'
<1> SUFFICES ASSUME ScanInv, Cancel PROVE ScanInv'
  OBVIOUS
<1>1. /\ UNCHANGED <<job, windowVars, cursor, lineBegin, line, handed>>
      /\ UNCHANGED <<pc, outcome, pos, saved>> /\ cancelled' = TRUE
  BY DEF Cancel, matchVars
<1>2. /\ UNCHANGED <<source, WindowEnd, Reached>>
      /\ WindowInv'
      /\ Between' <=> Between
      /\ Handed' <=> Handed
  BY <1>1, Unmoved
<1>3. ScannerTypes'
  BY <1>1 DEF ScanInv, ScannerTypes, windowVars
<1>4. HandleInv'
  BY <1>1, <1>2 DEF ScanInv, HandleInv
<1>5. LineInv'
  BY <1>1, <1>2 DEF ScanInv, LineInv
<1>6. QED
  BY <1>2, <1>3, <1>4, <1>5 DEF ScanInv

LEMMA StutterScan == ScanInv /\ UNCHANGED vars => ScanInv'
<1> SUFFICES ASSUME ScanInv, UNCHANGED vars PROVE ScanInv'
  OBVIOUS
<1>1. /\ UNCHANGED <<job, windowVars, cursor, lineBegin, line, handed>>
      /\ UNCHANGED <<pc, outcome, pos, saved, cancelled>>
  BY DEF vars, matchVars
<1>2. /\ UNCHANGED <<source, WindowEnd, Reached>>
      /\ WindowInv'
      /\ Between' <=> Between
      /\ Handed' <=> Handed
  BY <1>1, Unmoved
<1>3. ScannerTypes'
  BY <1>1 DEF ScanInv, ScannerTypes, windowVars
<1>4. HandleInv' /\ LineInv'
  BY <1>1, <1>2 DEF ScanInv, HandleInv, LineInv
<1>5. QED
  BY <1>2, <1>3, <1>4 DEF ScanInv

LEMMA StepScan == ScanInv /\ [Next]_vars => ScanInv'
  BY CheckScan, DispatchScan, SecondScan, EndScan, RefillScan, FinalScan, VisitScan,
     ReadContentScan, DecideScan, RecordScan, LeaveScan, FinishCallScan, CallbackFailsScan,
     CancelScan, StutterScan
  DEF Next, Scanner, Done

LEMMA ScanInvariant == Spec => []ScanInv
  BY InitScan, StepScan, PTL DEF Spec

-----------------------------------------------------------------------------
(* The theorems.                                                           *)

(* For any source, any sizes of the window and any reads: between two      *)
(* lines the next read goes on where the window ends, and the window is    *)
(* the part of the source that it stands for, although the callback used   *)
(* the same handle.                                                        *)
THEOREM HandleIsPutBack == Spec => []HandleInPlace
<1>1. ScanInv => HandleInPlace
  BY DEF ScanInv, HandleInv, WindowInv, HandleInPlace, Scanning
<1>2. QED
  BY <1>1, ScanInvariant, PTL

(* What an emitted line is to the promise.                                 *)
LEMMA EmitHands ==
  ASSUME ScanInv, ScanInv', NEW n \in Nat, Emit(n), pc \in Scanning, job' = job
  PROVE  Promise!Hand
<1> DEFINE l(stop, end) == [num |-> Len(handed) + 1, start |-> Promise!Reached, stop |-> stop,
                            end |-> end]
<1>1. source' = source /\ source \in Seq(Byte) /\ Len(source) \in Nat
  BY SourceIsBytes, LenProperties DEF source, ScanInv, ScannerTypes
<1>2. Promise!Reached = lineBegin /\ outcome = "none" /\ cursor \in Nat
  BY DEF ScanInv, ScannerTypes, LineInv, Scanning, Between, Reached, Promise!Reached
<1>3. line' = l(cursor, cursor + n) /\ handed' = Append(handed, line')
      /\ pc' = "visit" /\ outcome' = outcome
  BY <1>2 DEF Emit, Goto
<1>4. IsLine(source, l(cursor, cursor + n))
  <2>1. IsLine(source', line')
    BY <1>3 DEF ScanInv, LineInv, Handed, Handing
  <2>2. QED
    BY <1>1, <1>3, <2>1
<1>5. cursor \in 0..Len(source) /\ cursor + n \in 0..Len(source)
  BY <1>1, <1>2, <1>4 DEF IsLine
<1>6. Promise!IsLine(source, l(cursor, cursor + n))
  BY <1>4 DEF IsLine, Promise!IsLine, Plain, Promise!Plain
<1>7. QED
  BY <1>1, <1>2, <1>3, <1>5, <1>6 DEF Promise!Hand

LEMMA StepHands == ScanInv /\ ScanInv' /\ [Next]_vars => [Promise!Next]_(Promise!vars)
<1> SUFFICES ASSUME ScanInv, ScanInv', [Next]_vars PROVE [Promise!Next]_(Promise!vars)
  OBVIOUS
<1> DEFINE Early == {"enough", "cancelled", "readError", "maxFiles"}
<1>1. /\ job' = job => source' = source
      /\ outcome = "none" <=> pc # "done"
  BY DEF source, ScanInv, LineInv
<1>2. ASSUME job' = job, handed' = handed,
             outcome' = outcome \/ (outcome = "none" /\ outcome' \in Early)
      PROVE  [Promise!Next]_(Promise!vars)
  BY <1>1, <1>2 DEF Promise!Next, Promise!GiveUp, Promise!vars
<1>3. CASE Check
  BY <1>1, <1>2, <1>3 DEF Check, ScannerOnly, Unless, Goto, Finish
<1>4. CASE Dispatch
  <2>1. CASE Pass
    BY <1>2, <1>4, <2>1 DEF Dispatch, ScannerOnly, Pass, Goto
  <2>2. CASE Emit(1)
    BY <1>4, <2>2, EmitHands DEF Dispatch, ScannerOnly, Scanning, Promise!Next
  <2>3. CASE Goto("second") /\ UNCHANGED handed
    BY <1>2, <1>4, <2>3 DEF Dispatch, ScannerOnly, Goto
  <2>4. QED
    BY <1>4, <2>1, <2>2, <2>3 DEF Dispatch
<1>5. CASE Second
  <2>1. PICK n \in {1, 2} : Emit(n)
    BY <1>5 DEF Second
  <2>2. n \in Nat /\ pc \in Scanning /\ job' = job
    BY <1>5 DEF Second, ScannerOnly, Scanning
  <2>3. QED
    BY <2>1, <2>2, EmitHands DEF Promise!Next
<1>6. CASE EndOfStream
  BY <1>2, <1>6 DEF EndOfStream, ScannerOnly, Goto
<1>7. CASE Refill
  <2>1. outcome' = outcome \/ outcome' = "readError"
    BY <1>7 DEF Refill, Finish
  <2>2. QED
    BY <1>1, <1>2, <1>7, <2>1 DEF Refill, ScannerOnly
<1>8. CASE Final
  <2>1. CASE Emit(0)
    BY <1>8, <2>1, EmitHands DEF Final, ScannerOnly, Scanning, Promise!Next
  <2>2. CASE (Finish("cancelled") \/ Goto("finish")) /\ UNCHANGED handed
    BY <1>1, <1>2, <1>8, <2>2 DEF Final, ScannerOnly, Goto, Finish
  <2>3. QED
    BY <1>8, <2>1, <2>2 DEF Final
<1>9. CASE Visit
  BY <1>1, <1>2, <1>9 DEF Visit, CallbackOnly, Unless, Goto, Finish
<1>10. CASE ReadContent
  BY <1>2, <1>10 DEF ReadContent, CallbackOnly
<1>11. CASE Decide
  BY <1>1, <1>2, <1>11 DEF Decide, CallbackOnly, Unless, Goto, Finish
<1>12. CASE Record
  <2>1. outcome' = outcome \/ outcome' \in {"cancelled", "maxFiles", "enough"}
    BY <1>12 DEF Record, SplitDelimiter, InnerLine, StartBlock, CloseBlock, RangeLine, Goto, Finish
  <2>2. QED
    BY <1>1, <1>2, <1>12, <2>1 DEF Record, CallbackOnly
<1>13. CASE Leave
  BY <1>2, <1>13 DEF Leave, Goto
<1>14. CASE FinishCall
  <2>1. /\ job' = job /\ handed' = handed /\ pc = "finish" /\ outcome = "none"
    BY <1>1, <1>14 DEF FinishCall, CallbackOnly
  <2>2. outcome' \in Early \cup {"ok", "noMatch", "unclosed", "noBlocks"}
    BY <1>14 DEF FinishCall, FinishSplit, FinishBlocks, FinishExtract, Finish
  <2>3. Promise!Reached = Len(source)
    BY <2>1 DEF ScanInv, LineInv, Scanning, Between, Reached, Promise!Reached
  <2>4. QED
    BY <1>1, <1>2, <2>1, <2>2, <2>3 DEF Promise!Next, Promise!Complete
<1>15. CASE CallbackFails
  BY <1>1, <1>2, <1>15 DEF CallbackFails, CallbackOnly, Finish
<1>16. CASE Cancel
  BY <1>2, <1>16 DEF Cancel
<1>17. CASE UNCHANGED vars
  BY <1>2, <1>17 DEF vars
<1>18. QED
  BY <1>3, <1>4, <1>5, <1>6, <1>7, <1>8, <1>9, <1>10, <1>11, <1>12, <1>13, <1>14, <1>15,
     <1>16, <1>17
  DEF Next, Scanner, Done

(* A scan of any source, by any reads, implements the promise: it hands    *)
(* over the lines of the source one by one, none left out and none twice,  *)
(* and says something of the whole source only at its end.                 *)
THEOREM ScanKeepsThePromise == Spec => HandsOverTheLines
<1>1. Init => Promise!Init
  <2>1. Init => source \in Seq(Byte)
    BY SourceIsBytes DEF Init
  <2>2. QED
    BY <2>1 DEF Init, Promise!Init
<1>2. QED
  BY <1>1, ScanInvariant, StepHands, PTL DEF Spec, HandsOverTheLines, Promise!Spec

(* For any patterns and any reads: once the context is cancelled, no line  *)
(* is said to match and no output is planned.                              *)
THEOREM NothingIsPlannedLate == Spec => NothingOnceCancelled
<1> DEFINE Late == cancelled /\ job.op # "extract" => sections' = sections /\ (answer' => answer)
<1>1. ASSUME [Next]_vars PROVE [Late]_vars
  <2>1. SUFFICES ASSUME cancelled, job.op # "extract"
                 PROVE  sections' = sections /\ (answer' => answer)
    OBVIOUS
  <2>2. CASE Check \/ Dispatch \/ Second \/ EndOfStream \/ Refill \/ Final
    BY <2>2 DEF Check, Dispatch, Second, EndOfStream, Refill, Final, ScannerOnly, matchVars,
                recordVars
  <2>3. CASE Visit
    BY <2>3 DEF Visit, recordVars
  <2>4. CASE ReadContent
    BY <2>4 DEF ReadContent, recordVars
  <2>5. CASE Decide
    BY <2>1, <2>5 DEF Decide, recordVars
  <2>6. CASE Record
    <3>1. answer' = answer
      BY <2>6 DEF Record, matchVars
    <3>2. sections' = sections
      <4>1. CASE UNCHANGED <<pos, recordVars>>
        BY <4>1 DEF recordVars
      <4>2. CASE ~Closes /\ SplitDelimiter
        BY <4>2 DEF SplitDelimiter, Closes, CloseSection
      <4>3. CASE InnerLine \/ StartBlock
        BY <4>3 DEF InnerLine, StartBlock
      <4>4. CASE ~Closes /\ CloseBlock
        BY <4>4 DEF CloseBlock, Closes
      <4>5. QED
        BY <2>1, <2>6, <4>1, <4>2, <4>3, <4>4 DEF Record, RangeLine
    <3>3. QED
      BY <3>1, <3>2
  <2>7. CASE Leave
    BY <2>7 DEF Leave, matchVars, recordVars
  <2>8. CASE FinishCall
    <3>1. answer' = answer
      BY <2>8 DEF FinishCall, matchVars
    <3>2. sections' = sections
      BY <2>1, <2>8 DEF FinishCall, FinishSplit, FinishBlocks, FinishExtract, CloseSection
    <3>3. QED
      BY <3>1, <3>2
  <2>9. CASE CallbackFails \/ Cancel \/ UNCHANGED vars
    BY <2>9 DEF CallbackFails, Cancel, vars, matchVars, recordVars
  <2>10. QED
    BY <1>1, <2>2, <2>3, <2>4, <2>5, <2>6, <2>7, <2>8, <2>9 DEF Next, Scanner, Done
<1>2. QED
  BY <1>1, PTL DEF Spec, NothingOnceCancelled

-----------------------------------------------------------------------------
(* Why a line is said to match when it does.                               *)

InParts == AsLiteral /\ Wanted.kind = "literal"

From == pos - Len(tail)

(* What is kept of the line ends where the handle is.  It is all that was  *)
(* read, unless the line is searched in parts; then it shows a match, or   *)
(* there is none so far and what the next one may begin with is kept.      *)
Searched ==
  /\ line.start <= From
  /\ pos <= line.stop
  /\ tail \in Seq(Byte)
  /\ tail = Bytes(source, From, pos)
  /\ ~InParts => From = line.start
  /\ InParts /\ ~KnowsMatch =>
       /\ From = line.start \/ Len(tail) >= Len(Wanted.text) - 1
       /\ \A i \in Nat : line.start <= i /\ i + Len(Wanted.text) <= pos =>
            Bytes(source, i, i + Len(Wanted.text)) # Wanted.text

MatchInv ==
  /\ pc = "match" => Searched
  /\ pc = "record" /\ job.op # "extract" => answer = Matches(Wanted, Text(line))

LEMMA PartOfBytes ==
  ASSUME NEW s \in Seq(Byte), NEW a \in Nat, NEW b \in Nat, a <= b, b <= Len(s),
         NEW i \in Nat, NEW j \in Nat, i <= j, j <= b - a
  PROVE  SubSeq(Bytes(s, a, b), i + 1, j) = Bytes(s, a + i, a + j)
<1> DEFINE t == Bytes(s, a, b)
           u == SubSeq(t, i + 1, j)
<1>1. /\ t \in Seq(Byte)
      /\ Len(t) = b - a
      /\ \A k \in 1..(b - a) : t[k] = s[a + k]
  BY BytesProperties
<1>2. /\ Bytes(s, a + i, a + j) \in Seq(Byte)
      /\ Len(Bytes(s, a + i, a + j)) = j - i
      /\ \A k \in 1..(j - i) : Bytes(s, a + i, a + j)[k] = s[a + i + k]
  <2> DEFINE c == a + i
             d == a + j
  <2>1. c \in Nat /\ d \in Nat /\ c <= d /\ d <= Len(s) /\ d - c = j - i
    <3>1. Len(s) \in Nat
      BY LenProperties
    <3>2. QED
      BY <3>1
  <2> HIDE DEF c, d
  <2>2. /\ Bytes(s, c, d) \in Seq(Byte)
        /\ Len(Bytes(s, c, d)) = d - c
        /\ \A k \in 1..(d - c) : Bytes(s, c, d)[k] = s[c + k]
    BY <2>1, BytesProperties
  <2>3. QED
    BY <2>1, <2>2 DEF c, d
<1>3. \A k \in (i + 1)..j : t[k] \in Byte
  <2> HIDE DEF t
  <2>1. QED
    BY <1>1, ElementOfSeq
<1>4. /\ u \in Seq(Byte)
      /\ Len(u) = j - i
      /\ \A k \in 1..(j - i) : u[k] = t[i + k]
  <2> HIDE DEF t
  <2>1. /\ u \in Seq(Byte)
        /\ Len(u) = IF i + 1 <= j THEN j - (i + 1) + 1 ELSE 0
        /\ \A k \in 1..(j - (i + 1) + 1) : u[k] = t[(i + 1) + k - 1]
    BY <1>3, SubSeqProperties
  <2>2. QED
    BY <2>1
<1>5. \A k \in 1..(j - i) : u[k] = Bytes(s, a + i, a + j)[k]
  <2>1. SUFFICES ASSUME NEW k \in 1..(j - i)
                 PROVE  u[k] = Bytes(s, a + i, a + j)[k]
    OBVIOUS
  <2>2. u[k] = t[i + k]
    BY <1>4
  <2>3. t[i + k] = s[a + (i + k)]
    BY <1>1, i + k \in 1..(b - a)
  <2>4. a + (i + k) = a + i + k
    OBVIOUS
  <2>5. QED
    BY <2>2, <2>3, <2>4, <1>2
<1>6. QED
  BY <1>2, <1>4, <1>5, SeqEqual

(* Where a text occurs in a part of the source.                            *)
LEMMA Occurring ==
  ASSUME NEW s \in Seq(Byte), NEW a \in Nat, NEW b \in Nat, a <= b, b <= Len(s),
         NEW t \in Seq(Byte), t # << >>
  PROVE  t \in SubSeqs(Bytes(s, a, b)) <=>
           \E i \in Nat : a <= i /\ i + Len(t) <= b /\ Bytes(s, i, i + Len(t)) = t
<1>1. Len(t) \in Nat \ {0} /\ Len(Bytes(s, a, b)) = b - a /\ Len(s) \in Nat
  BY LenProperties, EmptySeq, BytesProperties
<1>a. t \in SubSeqs(Bytes(s, a, b)) <=>
        \E i, j \in 0..(b - a) : t = SubSeq(Bytes(s, a, b), i + 1, j)
  <2> DEFINE u == Bytes(s, a, b)
  <2>1. 0..Len(u) = 0..(b - a)
    BY <1>1
  <2> HIDE DEF u
  <2>2. t \in SubSeqs(u) <=> \E i, j \in 0..Len(u) : t = SubSeq(u, i + 1, j)
    BY DEF SubSeqs
  <2>3. t \in SubSeqs(u) <=> \E i, j \in 0..(b - a) : t = SubSeq(u, i + 1, j)
    BY <2>1, <2>2
  <2>4. QED
    BY <2>3 DEF u
<1>2. ASSUME t \in SubSeqs(Bytes(s, a, b))
      PROVE  \E i \in Nat : a <= i /\ i + Len(t) <= b /\ Bytes(s, i, i + Len(t)) = t
  <2>1. PICK i, j \in 0..(b - a) : t = SubSeq(Bytes(s, a, b), i + 1, j)
    BY <1>a, <1>2
  <2>2. i \in Nat /\ j \in Nat /\ j <= b - a
    OBVIOUS
  <2>3. i <= j
    <3>1. SUFFICES ASSUME j < i PROVE FALSE
      BY <2>2
    <3>2. SubSeq(Bytes(s, a, b), i + 1, j) = << >>
      BY <2>2, <3>1, SubSeqEmpty
    <3>3. QED
      BY <2>1, <3>2
  <2>4. t = Bytes(s, a + i, a + j)
    <3>1. SubSeq(Bytes(s, a, b), i + 1, j) = Bytes(s, a + i, a + j)
      BY <2>2, <2>3, PartOfBytes DEF Bytes
    <3>2. QED
      BY <2>1, <3>1
  <2> DEFINE c == a + i
             d == a + j
  <2>5. c \in Nat /\ d \in Nat /\ a <= c /\ c <= d /\ d <= b /\ d <= Len(s)
    BY <1>1, <2>2, <2>3
  <2>6. t = Bytes(s, c, d)
    BY <2>4
  <2> HIDE DEF c, d
  <2>7. Len(t) = d - c
    BY <2>5, <2>6, BytesProperties
  <2>8. c + Len(t) = d
    BY <1>1, <2>5, <2>7
  <2>9. QED
    BY <2>5, <2>6, <2>8
<1>3. ASSUME NEW i \in Nat, a <= i, i + Len(t) <= b, Bytes(s, i, i + Len(t)) = t
      PROVE  t \in SubSeqs(Bytes(s, a, b))
  <2> DEFINE c == i - a
             d == i - a + Len(t)
  <2>1. /\ c \in Nat /\ d \in Nat /\ c <= d /\ d <= b - a
        /\ a + c = i /\ a + d = i + Len(t)
    BY <1>1, <1>3
  <2> HIDE DEF c, d
  <2>2. SubSeq(Bytes(s, a, b), c + 1, d) = Bytes(s, a + c, a + d)
    BY <2>1, PartOfBytes DEF Bytes
  <2>3. SubSeq(Bytes(s, a, b), c + 1, d) = t
    BY <1>3, <2>1, <2>2
  <2>4. c \in 0..(b - a) /\ d \in 0..(b - a)
    BY <2>1
  <2>5. QED
    BY <1>a, <2>3, <2>4
<1>4. QED
  BY <1>2, <1>3

(* What the line and the pattern are while it is matched.                  *)
LEMMA TheLine ==
  ASSUME ScanInv, pc \in {"visit", "match", "record"}
  PROVE  /\ source \in Seq(Byte) /\ Len(source) \in Nat
         /\ line.start \in Nat /\ line.stop \in Nat
         /\ line.start <= line.stop /\ line.stop <= Len(source)
         /\ Wanted \in Pattern /\ Wanted.text \in Seq(Byte) /\ Wanted.text # << >>
         /\ Len(Wanted.text) \in Nat \ {0}
         /\ Wanted.kind \in {"exact", "literal", "tail"}
<1>1. job \in Job /\ job.opens.text # << >> /\ job.closes.text # << >>
  BY DEF ScanInv, ScannerTypes
<1>2. source \in Seq(Byte) /\ Len(source) \in Nat
  BY SourceIsBytes, LenProperties DEF ScanInv, ScannerTypes
<1>3. Wanted \in Pattern /\ Wanted.text # << >>
  BY <1>1 DEF Wanted, Job
<1>4. /\ Wanted.text \in Seq(Byte) /\ Wanted.kind \in {"exact", "literal", "tail"}
  BY <1>3 DEF Pattern
<1>5. Len(Wanted.text) \in Nat \ {0}
  BY <1>3, <1>4, LenProperties, EmptySeq
<1>6. line \in Line /\ IsLine(source, line)
  BY DEF ScanInv, LineInv, Handing, Handed
<1>7. QED
  BY <1>2, <1>3, <1>4, <1>5, <1>6 DEF Line, Offset, IsLine

LEMMA InitMatch == Init => MatchInv
  BY DEF Init, MatchInv

(* The pattern and the content do not change while the line is matched.    *)
LEMMA SamePattern ==
  ASSUME UNCHANGED <<job, line, open>>
  PROVE  UNCHANGED <<source, Wanted, AsLiteral, InParts, Unequal, Text(line)>>
  BY DEF source, Wanted, AsLiteral, InParts, Unequal, Text

LEMMA VisitMatch == ScanInv /\ Visit => MatchInv'
<1> SUFFICES ASSUME ScanInv, Visit PROVE MatchInv'
  OBVIOUS
<1>1. UNCHANGED <<job, line, open>> /\ pc = "visit" /\ tail' = << >> /\ answer' = FALSE
  BY DEF Visit, CallbackOnly, recordVars
<1>2. UNCHANGED <<source, Wanted, AsLiteral, InParts, Unequal, Text(line)>>
  BY <1>1, SamePattern
<1>3. /\ source \in Seq(Byte) /\ Len(source) \in Nat
      /\ line.start \in Nat /\ line.stop \in Nat
      /\ line.start <= line.stop /\ line.stop <= Len(source)
      /\ Wanted.text # << >> /\ Len(Wanted.text) \in Nat \ {0}
  BY <1>1, TheLine
<1>4. ASSUME pc' = "match" PROVE Searched'
  <2>1. pos' = line.start
    BY <1>4 DEF Visit, Goto
  <2>2. Len(tail') = 0 /\ From' = line.start /\ tail' \in Seq(Byte)
    BY <1>1, <1>3, <2>1, EmptySeq DEF From
  <2>3. tail' = Bytes(source', From', pos')
    BY <1>1, <1>3, <2>1, <2>2, SubSeqEmpty DEF Bytes
  <2>4. ASSUME NEW i \in Nat, line'.start <= i, i + Len(Wanted'.text) <= pos'
        PROVE  FALSE
    BY <1>1, <1>2, <1>3, <2>1, <2>4
  <2>5. line'.start <= From' /\ pos' <= line'.stop /\ From' = line'.start
    BY <1>1, <1>3, <2>1, <2>2
  <2>6. QED
    BY <2>2, <2>3, <2>4, <2>5 DEF Searched
<1>5. ASSUME pc' = "record", job'.op # "extract" PROVE answer' = Matches(Wanted', Text(line)')
  <2>1. Unequal
    BY <1>1, <1>5 DEF Visit, Unless, Goto, Finish
  <2>2. Wanted.kind = "exact" /\ Len(Wanted.text) # line.stop - line.start
    BY <2>1 DEF Unequal
  <2>3. Len(Text(line)) = line.stop - line.start
    <3>1. Len(Bytes(source, line.start, line.stop)) = line.stop - line.start
      <4> DEFINE a == line.start
                 b == line.stop
      <4>1. a \in Nat /\ b \in Nat /\ a <= b /\ b <= Len(source)
        BY <1>3
      <4> HIDE DEF a, b
      <4>2. Len(Bytes(source, a, b)) = b - a
        BY <1>3, <4>1, BytesProperties
      <4>3. QED
        BY <4>2 DEF a, b
    <3>2. QED
      BY <3>1 DEF Text, Content
  <2>4. Matches(Wanted', Text(line)') = Matches(Wanted, Text(line))
    BY <1>2
  <2>5. Matches(Wanted, Text(line)) = FALSE
    <3>1. Matches(Wanted, Text(line)) = (Text(line) = Wanted.text)
      BY <2>2 DEF Matches
    <3>2. QED
      BY <2>2, <2>3, <3>1
  <2>6. QED
    BY <1>1, <2>4, <2>5
<1>6. QED
  BY <1>4, <1>5 DEF MatchInv

(* Whatever a read brings, what is kept shows a match or may begin one.    *)
LEMMA ReadContentMatch == ScanInv /\ MatchInv /\ ReadContent => MatchInv'
<1> SUFFICES ASSUME ScanInv, MatchInv, ReadContent PROVE MatchInv'
  OBVIOUS
<1> DEFINE L == Len(Wanted.text)
<1>1. UNCHANGED <<job, line, open, pc>> /\ pc = "match" /\ Searched /\ ~KnowsMatch
  BY DEF ReadContent, CallbackOnly, recordVars, MatchInv
<1>2. UNCHANGED <<source, Wanted, AsLiteral, InParts, Unequal, Text(line)>>
  BY <1>1, SamePattern
<1>3. /\ source \in Seq(Byte) /\ Len(source) \in Nat
      /\ line.start \in Nat /\ line.stop \in Nat
      /\ line.start <= line.stop /\ line.stop <= Len(source)
      /\ Wanted.text \in Seq(Byte) /\ Wanted.text # << >> /\ L \in Nat \ {0}
  BY <1>1, TheLine
<1>4. PICK n \in 1..(line.stop - pos) :
        /\ pos' = pos + n
        /\ LET bytes == tail \o Bytes(source, pos, pos + n)
           IN tail' = IF AsLiteral /\ Wanted.kind = "literal" /\ Wanted.text \notin SubSeqs(bytes)
                      THEN KeepOverlap(bytes)
                      ELSE bytes
  BY DEF ReadContent
<1> DEFINE p == pos + n
           f == From
           bytes == Bytes(source, f, p)
<1>5. pos \in Nat /\ tail \in Seq(Byte) /\ Len(tail) \in Nat /\ tail = Bytes(source, f, pos)
  BY <1>1, LenProperties DEF ScanInv, ScannerTypes, Searched
<1>6. /\ f \in Nat /\ line.start <= f /\ f <= pos /\ pos <= Len(source)
      /\ Len(tail) = pos - f
  BY <1>1, <1>3, <1>5 DEF Searched, From
<1>7. p \in Nat /\ p <= line.stop /\ p <= Len(source) /\ pos < p /\ n \in Nat \ {0} /\ f < p
  BY <1>3, <1>4, <1>5, <1>6
<1>8. tail \o Bytes(source, pos, pos + n) = bytes
  <2> HIDE DEF p, f
  <2>1. p = pos + n
    BY DEF p
  <2>2. Bytes(source, f, pos) \o Bytes(source, pos, p) = Bytes(source, f, p)
    <3>1. source \in Seq(Byte) /\ f \in Nat /\ pos \in Nat /\ p \in Nat
      BY <1>3, <1>5, <1>6, <1>7
    <3>2. f <= pos /\ pos <= p /\ p <= Len(source)
      BY <1>3, <1>5, <1>6, <1>7
    <3>3. QED
      BY ONLY <3>1, <3>2, BytesJoined
  <2>3. QED
    BY <1>5, <2>1, <2>2
<1>9. tail' = IF InParts /\ Wanted.text \notin SubSeqs(bytes) THEN KeepOverlap(bytes) ELSE bytes
  BY <1>4, <1>8 DEF InParts
<1>10. pos' = p
  BY <1>4
<1> HIDE DEF p, f, bytes, L
<1>11. bytes \in Seq(Byte) /\ Len(bytes) = p - f
  BY <1>3, <1>6, <1>7, BytesProperties DEF bytes
<1>12. CASE ~InParts \/ Wanted.text \in SubSeqs(bytes)
  <2>1. tail' = bytes
    BY <1>9, <1>12
  <2>2. From' = f
    BY <1>6, <1>7, <1>10, <1>11, <2>1 DEF From
  <2>3. tail' = Bytes(source', From', pos')
    BY <1>2, <1>10, <2>1, <2>2 DEF bytes
  <2>4. InParts' => KnowsMatch'
    BY <1>2, <1>12, <2>1 DEF InParts, KnowsMatch
  <2>5. ~InParts' => From' = line'.start
    BY <1>1, <1>2, <2>2 DEF Searched, f
  <2>6. line'.start <= From' /\ pos' <= line'.stop /\ tail' \in Seq(Byte)
    BY <1>1, <1>6, <1>7, <1>10, <1>11, <2>1, <2>2
  <2>7. Searched'
    BY <2>3, <2>4, <2>5, <2>6 DEF Searched
  <2>8. QED
    BY <1>1, <2>7 DEF MatchInv
<1>13. CASE InParts /\ Wanted.text \notin SubSeqs(bytes)
  <2>1. /\ f = line.start \/ pos - f >= L - 1
        /\ \A i \in Nat : line.start <= i /\ i + L <= pos => Bytes(source, i, i + L) # Wanted.text
    BY <1>1, <1>6, <1>13 DEF Searched, f, L
  <2>2. ASSUME NEW i \in Nat, line.start <= i, i + L <= p
        PROVE  Bytes(source, i, i + L) # Wanted.text
    <3>1. CASE i + L <= pos
      BY <2>1, <2>2, <3>1
    <3>2. CASE i + L > pos
      <4>1. f <= i
        BY <1>3, <1>5, <1>6, <2>1, <2>2, <3>2 DEF L
      <4>2. ~(\E j \in Nat : f <= j /\ j + L <= p /\ Bytes(source, j, j + L) = Wanted.text)
        BY <1>3, <1>6, <1>7, <1>13, Occurring DEF bytes, L
      <4>3. QED
        BY <2>2, <4>1, <4>2
    <3>3. i + L \in Nat
      BY <1>3 DEF L
    <3>4. QED
      BY <1>5, <3>1, <3>2, <3>3
  <2>3. /\ From' \in Nat /\ line.start <= From'
        /\ tail' = Bytes(source, From', p)
        /\ tail' \in Seq(Byte)
        /\ From' = line.start \/ Len(tail') >= L - 1
    <3>1. CASE Len(bytes) > L - 1
      <4> DEFINE g == p - (L - 1)
      <4>1. g \in Nat /\ f <= g /\ g <= p
        <5>1. p - f > L - 1 /\ L \in Nat \ {0} /\ p \in Nat /\ f \in Nat
          BY <1>3, <1>6, <1>7, <1>11, <3>1
        <5>2. QED
          BY ONLY <5>1
      <4>2. tail' = SubSeq(bytes, Len(bytes) - (L - 1) + 1, Len(bytes))
        <5>1. KeepOverlap(bytes) = IF Len(bytes) > L - 1
                                   THEN SubSeq(bytes, Len(bytes) - (L - 1) + 1, Len(bytes))
                                   ELSE bytes
          BY DEF KeepOverlap, L
        <5>2. QED
          BY <1>9, <1>13, <3>1, <5>1
      <4>3. Len(bytes) - (L - 1) + 1 = g - f + 1 /\ Len(bytes) = p - f
        <5>1. L \in Nat /\ p \in Nat /\ f \in Nat /\ Len(bytes) = p - f
          BY <1>3, <1>6, <1>7, <1>11
        <5>2. QED
          BY ONLY <5>1
      <4> HIDE DEF g
      <4>4. tail' = Bytes(source, g, p)
        <5>1. tail' = SubSeq(Bytes(source, f, p), g - f + 1, p - f)
          BY <4>2, <4>3 DEF bytes
        <5>2. QED
          <6>1. SubSeq(Bytes(source, f, p), g - f + 1, p - f) = Bytes(source, g, p)
            <7>1. source \in Seq(Byte) /\ f \in Nat /\ p \in Nat /\ g \in Nat
              BY <1>3, <1>6, <1>7, <4>1
            <7>2. f <= g /\ g <= p /\ p <= Len(source)
              BY <1>7, <4>1
            <7>3. QED
              BY ONLY <7>1, <7>2, BytesDropped
          <6>2. QED
            BY <5>1, <6>1
      <4>5. tail' \in Seq(Byte) /\ Len(tail') = p - g
        BY <1>3, <1>7, <4>1, <4>4, BytesProperties
      <4>6. From' = g
        BY <1>7, <1>10, <4>1, <4>5 DEF From
      <4>7. p - g = L - 1
        BY <1>3, <1>7 DEF g, L
      <4>8. line.start <= g
        BY <1>3, <1>6, <4>1
      <4>9. QED
        BY <4>1, <4>4, <4>5, <4>6, <4>7, <4>8
    <3>2. CASE ~(Len(bytes) > L - 1)
      <4>1. tail' = bytes
        BY <1>9, <1>13, <3>2 DEF KeepOverlap, L
      <4>2. From' = f
        BY <1>6, <1>7, <1>10, <1>11, <4>1 DEF From
      <4>3. f = line.start
        BY <1>3, <1>5, <1>6, <1>7, <1>11, <2>1, <3>2 DEF L
      <4>4. QED
        BY <1>6, <1>11, <4>1, <4>2, <4>3 DEF bytes
    <3>3. QED
      BY <3>1, <3>2
  <2>4. Searched'
    <3>1. line'.start <= From' /\ pos' <= line'.stop /\ tail' \in Seq(Byte)
      BY <1>1, <1>7, <1>10, <2>3
    <3>2. tail' = Bytes(source', From', pos')
      BY <1>2, <1>10, <2>3
    <3>3. InParts'
      BY <1>2, <1>13
    <3>4. From' = line'.start \/ Len(tail') >= Len(Wanted'.text) - 1
      BY <1>1, <1>2, <2>3 DEF L
    <3>5. \A i \in Nat : line'.start <= i /\ i + Len(Wanted'.text) <= pos' =>
            Bytes(source', i, i + Len(Wanted'.text)) # Wanted'.text
      BY <1>1, <1>2, <1>10, <2>2 DEF L
    <3>6. QED
      BY <3>1, <3>2, <3>3, <3>4, <3>5 DEF Searched
  <2>5. QED
    BY <1>1, <2>4 DEF MatchInv
<1>14. QED
  BY <1>12, <1>13

(* The three ways to an answer.                                            *)
LEMMA DecideMatch == ScanInv /\ MatchInv /\ Decide => MatchInv'
<1> SUFFICES ASSUME ScanInv, MatchInv, Decide PROVE MatchInv'
  OBVIOUS
<1>1. UNCHANGED <<job, line, open>> /\ pc = "match" /\ Searched /\ Decided
  BY DEF Decide, CallbackOnly, recordVars, MatchInv
<1>2. UNCHANGED <<source, Wanted, AsLiteral, InParts, Unequal, Text(line)>>
  BY <1>1, SamePattern
<1>3. /\ source \in Seq(Byte) /\ Len(source) \in Nat
      /\ line.start \in Nat /\ line.stop \in Nat
      /\ line.start <= line.stop /\ line.stop <= Len(source)
      /\ Wanted.text \in Seq(Byte) /\ Wanted.text # << >> /\ Len(Wanted.text) \in Nat \ {0}
      /\ Wanted.kind \in {"exact", "literal", "tail"}
  BY <1>1, TheLine
<1>4. /\ pos \in Nat /\ Len(tail) \in Nat /\ tail = Bytes(source, From, pos)
      /\ From \in Nat /\ line.start <= From /\ From <= pos /\ pos <= line.stop
      /\ pos <= Len(source)
  BY <1>1, <1>3, LenProperties DEF ScanInv, ScannerTypes, Searched, From
<1>5. SUFFICES ASSUME ~cancelled
               PROVE  Matches(Wanted, tail) = Matches(Wanted, Text(line))
  <2>1. CASE cancelled
    BY <1>1, <2>1 DEF Decide, Unless, Finish, MatchInv
  <2>2. CASE ~cancelled
    <3>1. pc' = "record" /\ answer' = Matches(Wanted, tail)
      BY <2>2 DEF Decide, Unless, Goto
    <3>2. Matches(Wanted', Text(line)') = Matches(Wanted, Text(line))
      BY <1>2
    <3>3. Matches(Wanted, tail) = Matches(Wanted, Text(line))
      BY <1>5, <2>2
    <3>4. answer' = Matches(Wanted', Text(line)')
      BY <3>1, <3>2, <3>3
    <3>5. QED
      BY <3>1, <3>4 DEF MatchInv
  <2>3. QED
    BY <2>1, <2>2
<1>6. Text(line) = Bytes(source, line.start, line.stop)
  BY DEF Text, Content
<1>7. CASE ~InParts
  <2>1. ~KnowsMatch
    BY <1>7 DEF KnowsMatch, InParts
  <2>2. From = line.start /\ pos = line.stop
    BY <1>1, <1>5, <1>7, <2>1 DEF Searched, Decided
  <2>3. tail = Text(line)
    BY <1>4, <1>6, <2>2
  <2>4. QED
    BY <2>3
<1>8. CASE InParts
  <2> DEFINE t == Wanted.text
             a == line.start
             b == line.stop
             f == From
  <2>1. /\ Matches(Wanted, tail) = (t \in SubSeqs(tail))
        /\ Matches(Wanted, Text(line)) = (t \in SubSeqs(Text(line)))
    BY <1>8 DEF Matches, InParts
  <2>2. /\ a \in Nat /\ b \in Nat /\ f \in Nat /\ pos \in Nat
        /\ a <= b /\ b <= Len(source) /\ a <= f /\ f <= pos /\ pos <= b /\ pos <= Len(source)
        /\ t \in Seq(Byte) /\ t # << >> /\ Len(t) \in Nat \ {0} /\ source \in Seq(Byte)
    BY <1>3, <1>4
  <2>3. KnowsMatch <=> t \in SubSeqs(tail)
    BY <1>8 DEF KnowsMatch, InParts
  <2>4. tail = Bytes(source, f, pos) /\ Text(line) = Bytes(source, a, b)
    BY <1>4, <1>6
  <2>5. KnowsMatch \/ (pos = b /\ \A i \in Nat : a <= i /\ i + Len(t) <= pos =>
                                    Bytes(source, i, i + Len(t)) # t)
    BY <1>1, <1>5, <1>8 DEF Searched, Decided, InParts
  <2> HIDE DEF t, a, b, f
  <2>6. t \in SubSeqs(tail) <=>
          \E i \in Nat : f <= i /\ i + Len(t) <= pos /\ Bytes(source, i, i + Len(t)) = t
    BY ONLY <2>2, <2>4, Occurring
  <2>7. t \in SubSeqs(Text(line)) <=>
          \E i \in Nat : a <= i /\ i + Len(t) <= b /\ Bytes(source, i, i + Len(t)) = t
    BY ONLY <2>2, <2>4, Occurring
  <2>8. CASE KnowsMatch
    <3>1. PICK i \in Nat : f <= i /\ i + Len(t) <= pos /\ Bytes(source, i, i + Len(t)) = t
      BY <2>3, <2>6, <2>8
    <3>2. a <= i /\ i + Len(t) <= b
      BY <2>2, <3>1
    <3>3. t \in SubSeqs(Text(line))
      BY <2>7, <3>1, <3>2
    <3>4. QED
      BY <2>1, <2>3, <2>8, <3>3
  <2>9. CASE ~KnowsMatch
    <3>1. t \notin SubSeqs(Text(line))
      BY <2>5, <2>7, <2>9
    <3>2. QED
      BY <2>1, <2>3, <2>9, <3>1
  <2>10. QED
    BY <2>8, <2>9
<1>9. QED
  BY <1>7, <1>8

LEMMA OtherMatch ==
  MatchInv /\ (Check \/ Dispatch \/ Second \/ EndOfStream \/ Refill \/ Final \/ Record \/ Leave
               \/ FinishCall \/ CallbackFails) => MatchInv'
<1> SUFFICES ASSUME MatchInv,
                    Check \/ Dispatch \/ Second \/ EndOfStream \/ Refill \/ Final \/ Record
                      \/ Leave \/ FinishCall \/ CallbackFails
             PROVE  pc' \notin {"match", "record"}
  BY DEF MatchInv
<1>1. CASE Check \/ EndOfStream \/ Leave \/ CallbackFails
  BY <1>1 DEF Check, EndOfStream, Leave, CallbackFails, Unless, Goto, Finish
<1>2. CASE Dispatch
  BY <1>2 DEF Dispatch, Pass, Emit, Goto
<1>3. CASE Second \/ Refill
  BY <1>3 DEF Second, Refill, Emit, Goto, Finish
<1>4. CASE Final
  BY <1>4 DEF Final, Emit, Goto, Finish
<1>5. CASE Record
  BY <1>5 DEF Record, SplitDelimiter, InnerLine, StartBlock, CloseBlock, RangeLine, Goto, Finish
<1>6. CASE FinishCall
  BY <1>6 DEF FinishCall, FinishSplit, FinishBlocks, FinishExtract, Finish
<1>7. QED
  BY <1>1, <1>2, <1>3, <1>4, <1>5, <1>6

LEMMA IdleMatch == MatchInv /\ (Cancel \/ UNCHANGED vars) => MatchInv'
<1> SUFFICES ASSUME MatchInv, Cancel \/ UNCHANGED vars PROVE MatchInv'
  OBVIOUS
<1>1. UNCHANGED <<job, line, open, pc, pos, tail, answer>>
  BY DEF Cancel, vars, matchVars, recordVars
<1>2. UNCHANGED <<source, Wanted, AsLiteral, InParts, Unequal, Text(line)>>
  BY <1>1, SamePattern
<1>3. UNCHANGED <<From, KnowsMatch>>
  BY <1>1, <1>2 DEF From, KnowsMatch
<1>4. pc = "match" => Searched'
  BY <1>1, <1>2, <1>3 DEF MatchInv, Searched
<1>5. Matches(Wanted', Text(line)') = Matches(Wanted, Text(line))
  BY <1>2
<1>6. QED
  BY <1>1, <1>4, <1>5 DEF MatchInv

(* For any pattern and any source, however the reads cut the line and      *)
(* whatever is kept between two of them: a line is said to match when its  *)
(* content does.                                                           *)
THEOREM AnswersAreRightAlways == Spec => []AnswersAreRight
<1>1. ScanInv /\ MatchInv /\ [Next]_vars => MatchInv'
  BY VisitMatch, ReadContentMatch, DecideMatch, OtherMatch, IdleMatch DEF Next, Scanner, Done
<1>2. MatchInv => AnswersAreRight
  BY DEF MatchInv, AnswersAreRight
<1>3. QED
  BY <1>1, <1>2, InitMatch, ScanInvariant, PTL DEF Spec

-----------------------------------------------------------------------------
(* The names of the outputs.                                               *)

LEMMA WordsOfTyped ==
  ASSUME NEW text \in Seq(Byte)
  PROVE  WordsOf(text) \in Seq(Byte)
<1> DEFINE N == Len(text)
           V == Seq(Byte)
           step == [p \in (1..N) \X V |-> IF text[p[1]] \in Blank THEN p[2]
                                          ELSE Append(p[2], text[p[1]])]
           Def(f) == f = [i \in 0..N |-> IF i = 0 THEN << >>
                                         ELSE IF text[i] \in Blank THEN f[i - 1]
                                         ELSE Append(f[i - 1], text[i])]
<1>1. N \in Nat /\ << >> \in V /\ \A i \in 1..N : text[i] \in Byte
  BY LenProperties, ElementOfSeq, EmptySeq
<1>2. step \in [(1..N) \X V -> V]
  <2>1. ASSUME NEW i \in 1..N, NEW s \in V
        PROVE  (IF text[i] \in Blank THEN s ELSE Append(s, text[i])) \in V
    BY <1>1, AppendProperties
  <2> HIDE DEF V, N
  <2>2. QED
    BY <2>1
<1>3. PICK f \in [0..N -> V] : Recursion(f, N, << >>, step)
  <2> HIDE DEF step, V, N
  <2>1. QED
    BY <1>1, <1>2, RecursionExists
<1>4. ASSUME NEW i \in 1..N
      PROVE  f[i] = IF text[i] \in Blank THEN f[i - 1] ELSE Append(f[i - 1], text[i])
  <2>1. i - 1 \in 0..N
    BY <1>1
  <2>2. <<i, f[i - 1]>> \in (1..N) \X V
    BY <2>1
  <2>3. f[i] = step[<<i, f[i - 1]>>]
    BY <1>3 DEF Recursion
  <2> HIDE DEF V, N
  <2>4. QED
    BY <2>2, <2>3
<1>5. Def(f)
  <2>1. f[0] = << >>
    BY <1>3 DEF Recursion
  <2>2. ASSUME NEW i \in 0..N
        PROVE  f[i] = IF i = 0 THEN << >>
                      ELSE IF text[i] \in Blank THEN f[i - 1]
                      ELSE Append(f[i - 1], text[i])
    <3>1. i = 0 \/ i \in 1..N
      BY <1>1
    <3>2. QED
      BY <1>4, <2>1, <3>1
  <2> HIDE DEF V, N, step
  <2>3. QED
    BY <2>2
<1>6. ASSUME NEW g, Def(g) PROVE g[N] = f[N]
  <2>1. g[0] = << >> /\ f[0] = << >>
    BY <1>1, <1>6, <1>3 DEF Recursion
  <2>2. \A i \in 1..N : g[i] = IF text[i] \in Blank THEN g[i - 1] ELSE Append(g[i - 1], text[i])
    <3>1. SUFFICES ASSUME NEW i \in 1..N
                   PROVE  g[i] = IF text[i] \in Blank THEN g[i - 1] ELSE Append(g[i - 1], text[i])
      OBVIOUS
    <3>2. i \in 0..N /\ i # 0
      BY <1>1
    <3> HIDE DEF V, N, step
    <3>3. QED
      BY <1>6, <3>2
  <2> DEFINE S == {n \in 0..N : g[n] = f[n]}
  <2>3. 0 \in S
    BY <1>1, <2>1
  <2>4. ASSUME NEW n \in 0..(N - 1), n \in S PROVE n + 1 \in S
    <3>1. n + 1 \in 1..N /\ (n + 1) - 1 = n /\ n + 1 \in 0..N
      BY <1>1
    <3> HIDE DEF N, V, step
    <3>2. QED
      BY <1>4, <2>2, <2>4, <3>1
  <2> HIDE DEF S
  <2>5. 0 \in Int /\ N \in Int
    BY <1>1
  <2> HIDE DEF N
  <2>6. 0..N \subseteq S
    BY <2>3, <2>4, <2>5, Induction
  <2>7. N \in S
    BY <1>1, <2>6
  <2>8. QED
    BY <2>7 DEF S
<1>7. WordsOf(text) = f[N]
  <2> DEFINE c == CHOOSE g : Def(g)
  <2>1. Def(c)
    <3> HIDE DEF Def
    <3>1. QED
      BY <1>5
  <2>2. WordsOf(text) = c[N]
    BY DEF WordsOf
  <2> HIDE DEF c, Def
  <2>3. QED
    BY <1>6, <2>1, <2>2
<1>8. QED
  <2> HIDE DEF V, N
  <2>1. f[N] \in V
    BY <1>1
  <2>2. QED
    BY <1>7, <2>1 DEF V

LEMMA SlugTyped ==
  ASSUME NEW text \in Seq(Byte)
  PROVE  Slug(text) \in Seq(Byte)
<1> DEFINE words == WordsOf(text)
<1>1. words \in Seq(Byte)
  BY WordsOfTyped
<1> HIDE DEF words
<1>2. Len(words) \in Nat /\ \A i \in 1..Len(words) : words[i] \in Byte
  BY <1>1, LenProperties, ElementOfSeq
<1>3. CASE Len(words) <= SlugWords
  BY <1>1, <1>3 DEF Slug, words
<1>4. CASE ~(Len(words) <= SlugWords)
  <2>1. SlugWords \in Nat /\ SlugWords < Len(words)
    BY <1>2, <1>4, OutputNamesAssumption
  <2>2. \A i \in 1..SlugWords : words[i] \in Byte
    BY <1>2, <2>1
  <2>3. SubSeq(words, 1, SlugWords) \in Seq(Byte)
    BY <2>1, <2>2, SubSeqProperties
  <2>4. QED
    BY <1>4, <2>3 DEF Slug, words
<1>5. QED
  BY <1>3, <1>4

NameOf == Seq(Byte \cup Int)

LEMMA GeneratedTyped ==
  ASSUME NEW strategy, NEW n \in Nat, NEW text \in Seq(Byte)
  PROVE  GenerateFilename(strategy, n, text) \in NameOf
<1>1. Slug(text) \in NameOf
  <2>1. Seq(Byte) \subseteq Seq(Byte \cup Int)
    BY SeqMonotonic
  <2>2. QED
    BY <2>1, SlugTyped DEF NameOf
<1>2. SequentialName(n) \in NameOf
  BY DEF SequentialName, NameOf
<1>3. QED
  BY <1>1, <1>2 DEF GenerateFilename

LEMMA CandidateTyped ==
  ASSUME NEW name \in NameOf, NEW n \in Nat
  PROVE  Candidate(name, n) \in NameOf
  BY AppendProperties DEF Candidate, NameOf

(* The suffixes make different names of one.                               *)
LEMMA CandidatesDiffer ==
  ASSUME NEW name \in NameOf, NEW m \in Nat \ {0}, NEW n \in Nat \ {0}, m # n
  PROVE  Candidate(name, m) # Candidate(name, n)
<1>1. \A i \in Nat : Len(Append(name, i)) = Len(name) + 1 /\ Append(name, i)[Len(name) + 1] = i
  BY AppendProperties DEF NameOf
<1>2. Len(name) \in Nat
  BY LenProperties DEF NameOf
<1>3. CASE m = 1 \/ n = 1
  <2>1. \A i \in Nat : Append(name, i) # name
    BY <1>1, <1>2
  <2>2. QED
    BY <1>3, <2>1 DEF Candidate
<1>4. CASE m # 1 /\ n # 1
  BY <1>1, <1>4 DEF Candidate
<1>5. QED
  BY <1>3, <1>4

(* Of one more candidates than there are names, one is free; the first is  *)
(* taken.                                                                  *)
LEMMA DeduplicatedIsNew ==
  ASSUME NEW name \in NameOf, NEW existing, IsFiniteSet(existing)
  PROVE  /\ DeduplicateFilename(name, existing) \in NameOf
         /\ DeduplicateFilename(name, existing) \notin existing
<1> DEFINE c == Cardinality(existing)
           I == 1..(c + 1)
           free == {n \in I : Candidate(name, n) \notin existing}
           First(n) == /\ Candidate(name, n) \notin existing
                       /\ \A m \in 1..(n - 1) : Candidate(name, m) \in existing
<1>1. c \in Nat
  BY FS_CardinalityType
<1>2. free # {}
  <2>1. SUFFICES ASSUME \A n \in I : Candidate(name, n) \in existing PROVE FALSE
    OBVIOUS
  <2> DEFINE f == [n \in I |-> Candidate(name, n)]
  <2>2. f \in [I -> existing]
    BY <2>1
  <2>3. IsFiniteSet(I) /\ Cardinality(I) = c + 1
    <3>1. 1 \in Int /\ c + 1 \in Int /\ ~(1 > c + 1) /\ (c + 1) - 1 + 1 = c + 1
      BY <1>1
    <3> HIDE DEF c
    <3>2. QED
      BY <3>1, FS_Interval
  <2>4. Cardinality(existing) < Cardinality(I)
    BY <1>1, <2>3
  <2> HIDE DEF f
  <2>5. PICK x, y \in I : x # y /\ f[x] = f[y]
    <3> HIDE DEF I
    <3>1. QED
      BY <2>2, <2>3, <2>4, FS_PigeonHole
  <2>6. x \in Nat \ {0} /\ y \in Nat \ {0}
    BY <1>1
  <2>7. QED
    BY <2>5, <2>6, CandidatesDiffer DEF f
<1>3. PICK n \in free : \A m \in free : n <= m
  <2>1. free \subseteq Nat
    BY <1>1
  <2> HIDE DEF free
  <2>2. QED
    BY <1>2, <2>1, LeastNumber
<1>4. First(n)
  <2>1. n \in I /\ Candidate(name, n) \notin existing
    BY <1>3
  <2>2. ASSUME NEW m \in 1..(n - 1) PROVE Candidate(name, m) \in existing
    <3>1. m \in I /\ m < n
      BY <1>1, <2>1
    <3>2. QED
      BY <1>3, <3>1
  <2>3. QED
    BY <2>1, <2>2
<1> DEFINE k == CHOOSE i \in I : First(i)
<1>5. k \in I /\ First(k)
  <2>1. n \in I
    BY <1>3
  <2> HIDE DEF First, I
  <2>2. QED
    BY <1>4, <2>1
<1>6. DeduplicateFilename(name, existing) = Candidate(name, k)
  BY DEF DeduplicateFilename
<1>7. k \in Nat
  <2> HIDE DEF k
  <2>1. QED
    BY <1>1, <1>5
<1> HIDE DEF k, I, c
<1>8. QED
  BY <1>5, <1>6, <1>7, CandidateTyped

(* A line that is in the source.                                           *)
InSource(l) ==
  /\ l \in Line
  /\ l.start <= l.stop
  /\ l.stop <= l.end
  /\ l.end <= Len(source)

(* What the callbacks keep: lines of the source, of which split remembers  *)
(* one that matched, and outputs with names of their own.                  *)
RecordInv ==
  /\ tail \in Seq(Byte)
  /\ answer \in BOOLEAN
  /\ open # NoLine => InSource(open) /\ (job.op = "split" => Matches(job.opens, Text(open)))
  /\ inner \in Seq(Line)
  /\ \A i \in DOMAIN inner : InSource(inner[i])
  /\ \A i \in DOMAIN handed : InSource(handed[i])
  /\ found \in Nat
  /\ sections \in Seq(Section)
  /\ job.op = "extract" /\ found # 0 => sections # << >>
  /\ NamesDiffer

(* There is a text to name an output after.                                *)
Nameable ==
  \/ job.op = "blocks" /\ open # NoLine /\ inner # << >>
  \/ job.op = "split" /\ (open # NoLine \/ handed # << >>)

LEMMA TextTyped ==
  ASSUME source \in Seq(Byte), NEW l, InSource(l)
  PROVE  /\ Text(l) \in Seq(Byte)
         /\ Len(Text(l)) = l.stop - l.start
<1>1. l.start \in Nat /\ l.stop \in Nat /\ l.end \in Nat /\ Len(source) \in Nat
  BY LenProperties DEF InSource, Line, Offset
<1>2. l.start <= l.stop /\ l.stop <= Len(source)
  BY <1>1 DEF InSource
<1>3. Bytes(source, l.start, l.stop) \in Seq(Byte)
      /\ Len(Bytes(source, l.start, l.stop)) = l.stop - l.start
  BY <1>1, <1>2, BytesProperties
<1>4. QED
  BY <1>3 DEF Text, Content

LEMMA PrefixTyped ==
  ASSUME NEW text \in Seq(Byte)
  PROVE  Prefix(text) \in Seq(Byte)
<1> DEFINE n == IF Len(text) < PrefixBytes THEN Len(text) ELSE PrefixBytes
<1>1. n \in Nat /\ n <= Len(text)
  BY LenProperties, OutputNamesAssumption
<1>2. \A i \in 1..n : text[i] \in Byte
  BY <1>1, LenProperties, ElementOfSeq
<1>3. Prefix(text) = SubSeq(text, 1, n)
  BY DEF Prefix
<1> HIDE DEF n
<1>4. SubSeq(text, 1, n) \in Seq(Byte)
  BY <1>1, <1>2, SubSeqProperties
<1>5. QED
  BY <1>3, <1>4

(* A text that ends another one, as IsSuffix has it.                       *)
LEMMA Ends ==
  ASSUME NEW t \in Seq(Byte), NEW u \in Seq(Byte), Len(t) <= Len(u),
         \A k \in 1..Len(t) : u[Len(u) - Len(t) + k] = t[k]
  PROVE  IsSuffix(t, u)
<1> DEFINE n == Len(t)
           m == Len(u)
           a == SubSeq(Reverse(t), 1, n)
           b == SubSeq(Reverse(u), 1, n)
<1>1. n \in Nat /\ m \in Nat /\ n <= m
  BY LenProperties
<1>2. /\ Reverse(t) = [i \in 1..n |-> t[n - i + 1]]
      /\ Reverse(u) = [i \in 1..m |-> u[m - i + 1]]
  BY DEF Reverse
<1>3. /\ Reverse(t) \in Seq(Byte) /\ Len(Reverse(t)) = n
      /\ Reverse(u) \in Seq(Byte) /\ Len(Reverse(u)) = m
  <2>1. \A i \in 1..n : n - i + 1 \in 1..n
    BY <1>1
  <2>2. \A i \in 1..m : m - i + 1 \in 1..m
    BY <1>1
  <2>3. (\A i \in 1..n : t[i] \in Byte) /\ (\A i \in 1..m : u[i] \in Byte)
    BY ElementOfSeq
  <2>4. [i \in 1..n |-> t[n - i + 1]] \in Seq(Byte) /\ Len([i \in 1..n |-> t[n - i + 1]]) = n
    <3>1. \A i \in 1..n : t[n - i + 1] \in Byte
      BY <2>1, <2>3
    <3> HIDE DEF n
    <3>2. QED
      BY <1>1, <3>1, IsASeq
  <2>5. [i \in 1..m |-> u[m - i + 1]] \in Seq(Byte) /\ Len([i \in 1..m |-> u[m - i + 1]]) = m
    <3>1. \A i \in 1..m : u[m - i + 1] \in Byte
      BY <2>2, <2>3
    <3> HIDE DEF m
    <3>2. QED
      BY <1>1, <3>1, IsASeq
  <2>6. QED
    BY <1>2, <2>4, <2>5
<1>4. ASSUME NEW k \in 1..n PROVE Reverse(t)[k] = Reverse(u)[k]
  <2>1. k \in 1..m /\ n - k + 1 \in 1..n /\ m - n + (n - k + 1) = m - k + 1
    BY <1>1
  <2>2. Reverse(t)[k] = t[n - k + 1] /\ Reverse(u)[k] = u[m - k + 1]
    <3> HIDE DEF n, m
    <3>1. QED
      BY <1>2, <2>1
  <2>3. u[m - n + (n - k + 1)] = t[n - k + 1]
    BY <2>1
  <2>4. QED
    BY <2>1, <2>2, <2>3
<1>5. a = b
  <2> HIDE DEF n, m
  <2> DEFINE rt == Reverse(t)
             ru == Reverse(u)
  <2>1. /\ rt \in Seq(Byte) /\ ru \in Seq(Byte) /\ Len(rt) = n /\ Len(ru) = m
        /\ \A k \in 1..n : rt[k] \in Byte /\ ru[k] \in Byte /\ rt[k] = ru[k]
    BY <1>1, <1>3, <1>4, ElementOfSeq
  <2> HIDE DEF rt, ru
  <2>2. /\ SubSeq(rt, 1, n) \in Seq(Byte) /\ Len(SubSeq(rt, 1, n)) = n
        /\ \A k \in 1..n : SubSeq(rt, 1, n)[k] = rt[k]
    BY <1>1, <2>1, SubSeqProperties
  <2>3. /\ SubSeq(ru, 1, n) \in Seq(Byte) /\ Len(SubSeq(ru, 1, n)) = n
        /\ \A k \in 1..n : SubSeq(ru, 1, n)[k] = ru[k]
    BY <1>1, <2>1, SubSeqProperties
  <2>4. SubSeq(rt, 1, n) = SubSeq(ru, 1, n)
    BY <2>1, <2>2, <2>3, SeqEqual
  <2>5. QED
    BY <2>4 DEF rt, ru
<1>6. QED
  BY <1>1, <1>3, <1>5 DEF IsSuffix, IsPrefix

(* A match that there is ends in the text.                                 *)
LEMMA MatchEndWithin ==
  ASSUME NEW p \in Pattern, NEW content \in Seq(Byte), Matches(p, content)
  PROVE  MatchEnd(p, content) \in 0..Len(content)
<1> DEFINE t == p.text
           n == Len(t)
           EndsAt(i) == IsSuffix(t, SubSeq(content, 1, i))
           I == n..Len(content)
           ends == {i \in I : EndsAt(i)}
<1>1. t \in Seq(Byte) /\ n \in Nat /\ Len(content) \in Nat
  BY LenProperties DEF Pattern
<1>2. CASE p.kind # "literal"
  BY <1>1, <1>2 DEF MatchEnd
<1>3. CASE p.kind = "literal"
  <2>1. PICK i, j \in 0..Len(content) : t = SubSeq(content, i + 1, j)
    BY <1>3 DEF Matches, SubSeqs
  <2>2. \E e \in I : EndsAt(e)
    <3>1. CASE j < i
      <4>1. i + 1 \in Nat /\ j \in Nat /\ j < i + 1
        BY <2>1, <3>1
      <4>2. t = << >>
        BY <2>1, <4>1, SubSeqEmpty
      <4> DEFINE u == SubSeq(content, 1, 0)
      <4>3. u \in Seq(Byte) /\ Len(u) = 0 /\ n = 0
        <5>1. u = << >>
          BY SubSeqEmpty
        <5>2. QED
          BY <4>2, <5>1, EmptySeq
      <4>4. IsSuffix(t, u)
        <5> HIDE DEF u
        <5>1. \A k \in 1..Len(t) : u[Len(u) - Len(t) + k] = t[k]
          BY <4>3
        <5>2. QED
          BY <1>1, <4>3, <5>1, Ends
      <4>5. 0 \in I
        BY <1>1, <4>3
      <4>6. QED
        BY <4>4, <4>5
    <3>2. CASE i <= j
      <4> DEFINE u == SubSeq(content, 1, j)
      <4>1. \A k \in 1..Len(content) : content[k] \in Byte
        BY ElementOfSeq
      <4>2. j \in Nat /\ i \in Nat /\ (\A k \in 1..j : content[k] \in Byte)
            /\ (\A k \in (i + 1)..j : content[k] \in Byte)
        BY <1>1, <4>1
      <4>3. u \in Seq(Byte) /\ Len(u) = j /\ \A k \in 1..j : u[k] = content[k]
        BY <4>2, SubSeqProperties
      <4>4. /\ Len(SubSeq(content, i + 1, j)) = j - i
            /\ \A k \in 1..(j - i) : SubSeq(content, i + 1, j)[k] = content[(i + 1) + k - 1]
        BY <3>2, <4>2, SubSeqProperties
      <4>5. n = j - i
        BY <2>1, <4>4
      <4>6. ASSUME NEW k \in 1..n PROVE t[k] = content[i + k]
        <5>1. k \in 1..(j - i) /\ (i + 1) + k - 1 = i + k
          BY <4>2, <4>5
        <5>2. QED
          BY <2>1, <4>4, <5>1
      <4>7. ASSUME NEW k \in 1..n PROVE u[j - n + k] = t[k]
        <5>1. j - n + k = i + k /\ i + k \in 1..j
          BY <4>2, <4>5
        <5>2. QED
          BY <4>3, <4>6, <5>1
      <4>8. n <= j /\ j \in I
        BY <1>1, <4>2, <4>5
      <4>9. IsSuffix(t, u)
        <5> HIDE DEF u
        <5>1. QED
          BY <1>1, <4>3, <4>7, <4>8, Ends
      <4>10. QED
        BY <4>8, <4>9
    <3>3. QED
      BY <2>1, <3>1, <3>2
  <2>3. PICK e \in ends : \A f \in ends : e <= f
    <3>1. ends \subseteq Nat /\ ends # {}
      BY <1>1, <2>2
    <3> HIDE DEF ends
    <3>2. QED
      BY <3>1, LeastNumber
  <2> DEFINE First(f) == /\ IsSuffix(t, SubSeq(content, 1, f))
                         /\ \A g \in n..(f - 1) : ~IsSuffix(t, SubSeq(content, 1, g))
             first == CHOOSE f \in I : First(f)
  <2>4. e \in I /\ First(e)
    <3>1. e \in I /\ EndsAt(e) /\ e \in Nat /\ e <= Len(content)
      BY <1>1, <2>3
    <3>2. ASSUME NEW g \in n..(e - 1) PROVE ~EndsAt(g)
      <4>1. g \in I /\ ~(e <= g)
        BY <1>1, <3>1
      <4>2. QED
        BY <2>3, <4>1
    <3>3. QED
      BY <3>1, <3>2
  <2>5. first \in I
    <3> HIDE DEF First, I
    <3>1. QED
      BY <2>4
  <2>6. MatchEnd(p, content) = first
    BY <1>3 DEF MatchEnd
  <2> HIDE DEF first
  <2>7. QED
    BY <1>1, <2>5, <2>6
<1>4. QED
  BY <1>2, <1>3

LEMMA NamingTextTyped ==
  ASSUME job \in Jobs, handed \in Seq(Line), RecordInv, Nameable
  PROVE  NamingText \in Seq(Byte)
<1>1. source \in Seq(Byte) /\ job \in Job /\ job.opens \in Pattern
      /\ job.naming \in {"sequential", "content", "delimiter"}
  BY SourceIsBytes, JobsAssumption DEF Job, Strategy
<1>2. ASSUME NEW l, InSource(l) PROVE Prefix(Text(l)) \in Seq(Byte)
  BY <1>1, <1>2, TextTyped, PrefixTyped
<1>3. << >> \in Seq(Byte)
  BY EmptySeq
<1>4. open # NoLine => InSource(open)
  BY DEF RecordInv
<1>5. inner # << >> => InSource(inner[1])
  BY LenProperties, EmptySeq DEF RecordInv
<1>6. CASE job.op = "blocks"
  <2>1. open # NoLine /\ inner # << >>
    BY <1>6 DEF Nameable
  <2>2. NamingText = BlockText
    BY <1>6 DEF NamingText
  <2>3. BlockText \in {<< >>, Prefix(Text(open)), Prefix(Text(inner[1]))}
    BY <1>1 DEF BlockText
  <2>4. QED
    BY <1>2, <1>3, <1>4, <1>5, <2>1, <2>2, <2>3
<1>7. CASE job.op = "split" /\ open = NoLine
  <2>1. handed # << >> /\ InSource(handed[1])
    BY <1>7, LenProperties, EmptySeq DEF Nameable, RecordInv
  <2>2. NamingText = PreambleText
    BY <1>7 DEF NamingText
  <2>3. PreambleText \in {<< >>, Prefix(Text(handed[1]))}
    BY DEF PreambleText
  <2>4. QED
    BY <1>2, <1>3, <2>1, <2>2, <2>3
<1>8. CASE job.op = "split" /\ open # NoLine
  <2> DEFINE end == open.start + MatchEnd(job.opens, Text(open))
             rest == Prefix(Bytes(source, end, open.stop))
  <2>1. InSource(open) /\ Matches(job.opens, Text(open))
    BY <1>8 DEF RecordInv
  <2>2. rest \in Seq(Byte)
    <3>1. Text(open) \in Seq(Byte) /\ Len(Text(open)) = open.stop - open.start
      BY <1>1, <2>1, TextTyped
    <3>2. MatchEnd(job.opens, Text(open)) \in 0..(open.stop - open.start)
      BY <1>1, <2>1, <3>1, MatchEndWithin
    <3>3. open.start \in Nat /\ open.stop \in Nat /\ open.start <= open.stop
          /\ open.stop <= Len(source)
      <4>1. open.start \in Nat /\ open.stop \in Nat /\ open.end \in Nat /\ Len(source) \in Nat
        BY <1>1, <2>1, LenProperties DEF InSource, Line, Offset
      <4>2. QED
        BY <2>1, <4>1 DEF InSource
    <3>4. end \in Nat /\ end <= open.stop
      BY <3>2, <3>3
    <3> HIDE DEF end
    <3>5. Bytes(source, end, open.stop) \in Seq(Byte)
      BY <1>1, <3>3, <3>4, BytesProperties
    <3>6. QED
      BY <3>5, PrefixTyped
  <2>3. NamingText = SectionText
    BY <1>8 DEF NamingText
  <2>4. SectionText \in {<< >>, rest, Prefix(Text(open))}
                     \cup (IF inner = << >> THEN {} ELSE {Prefix(Text(inner[1]))})
    BY <1>1 DEF SectionText
  <2> HIDE DEF rest
  <2>5. QED
    BY <1>2, <1>3, <1>4, <1>5, <1>8, <2>2, <2>3, <2>4
<1>9. QED
  BY <1>6, <1>7, <1>8 DEF Nameable

(* The output that is planned has a name that none before it has.          *)
LEMMA PlanningNames ==
  ASSUME job \in Jobs, handed \in Seq(Line), RecordInv, Nameable, UNCHANGED job,
         NEW from \in Nat, NEW to \in Nat, Plan(from, to)
  PROVE  sections' \in Seq(Section) /\ sections' # << >> /\ NamesDiffer'
<1> DEFINE n == Len(sections)
           section == [from |-> from, to |-> to, name |-> Name]
<1>1. sections \in Seq(Section) /\ n \in Nat /\ DOMAIN sections = 1..n
  BY LenProperties DEF RecordInv
<1>2. IsFiniteSet(Names)
  <2> DEFINE f == [k \in 1..n |-> sections[k].name]
  <2>1. f \in Surjection(1..n, Names)
    BY <1>1 DEF Names, Surjection
  <2>2. 1 \in Int /\ n \in Int
    BY <1>1
  <2> HIDE DEF f, n
  <2>3. IsFiniteSet(1..n)
    BY <2>2, FS_Interval
  <2>4. QED
    BY <2>1, <2>3, FS_Surjection
<1>3. NamingText \in Seq(Byte)
  BY NamingTextTyped
<1>4. Name \in NameOf /\ Name \notin Names
  <2> DEFINE g == GenerateFilename(job.naming, n + 1, NamingText)
  <2>1. g \in NameOf
    <3>1. n + 1 \in Nat
      BY <1>1
    <3> HIDE DEF n
    <3>2. QED
      BY <1>3, <3>1, GeneratedTyped
  <2>2. Name = DeduplicateFilename(g, Names)
    BY DEF Name
  <2> HIDE DEF g
  <2>3. QED
    BY <1>2, <2>1, <2>2, DeduplicatedIsNew
<1>5. section \in Section
  BY <1>4 DEF Section, Offset, NameOf
<1>6. sections' = Append(sections, section)
  BY DEF Plan
<1> HIDE DEF section
<1>7. /\ sections' \in Seq(Section)
      /\ Len(sections') = n + 1
      /\ \A k \in 1..n : sections'[k] = sections[k]
      /\ sections'[n + 1] = section
  BY <1>1, <1>5, <1>6, AppendProperties
<1>8. sections' # << >>
  BY <1>1, <1>7, EmptySeq
<1>9. ASSUME job.op # "extract",
             NEW j \in DOMAIN sections', NEW k \in DOMAIN sections', j # k
      PROVE  sections'[j].name # sections'[k].name
  <2>1. DOMAIN sections' = 1..(n + 1)
    BY <1>7, LenProperties
  <2>2. (j \in 1..n \/ j = n + 1) /\ (k \in 1..n \/ k = n + 1)
    BY <1>1, <2>1
  <2>3. section.name = Name
    BY DEF section
  <2>4. \A i \in 1..n : sections[i].name \in Names
    BY <1>1 DEF Names
  <2>5. CASE j \in 1..n /\ k \in 1..n
    BY <1>1, <1>7, <1>9, <2>5 DEF RecordInv, NamesDiffer
  <2>6. CASE ~(j \in 1..n /\ k \in 1..n)
    BY <1>4, <1>7, <1>9, <2>2, <2>3, <2>4, <2>6
  <2>7. QED
    BY <2>5, <2>6
<1>10. NamesDiffer'
  BY <1>9 DEF NamesDiffer
<1>11. QED
  BY <1>7, <1>8, <1>10

-----------------------------------------------------------------------------
(* The steps of the callbacks.                                             *)

LEMMA InitRecord == Init => RecordInv
<1> SUFFICES ASSUME Init PROVE RecordInv
  OBVIOUS
<1>1. /\ tail = << >> /\ inner = << >> /\ handed = << >> /\ sections = << >>
      /\ open = NoLine /\ found = 0 /\ answer = FALSE
  BY DEF Init
<1>2. DOMAIN << >> = {}
  OBVIOUS
<1>3. << >> \in Seq(Byte) /\ << >> \in Seq(Line) /\ << >> \in Seq(Section)
  BY EmptySeq
<1>4. QED
  BY <1>1, <1>2, <1>3 DEF RecordInv, NamesDiffer

LEMMA RecordKept ==
  ASSUME RecordInv, UNCHANGED <<job, open, inner, found, sections, handed>>,
         tail' \in Seq(Byte), answer' \in BOOLEAN
  PROVE  RecordInv'
<1>1. source' = source
  BY DEF source
<1>2. \A l : InSource(l)' <=> InSource(l)
  BY <1>1 DEF InSource
<1>3. open' # NoLine =>
        InSource(open)' /\ (job'.op = "split" => Matches(job'.opens, Text(open)'))
  BY <1>1 DEF RecordInv, InSource, Text
<1>4. (\A i \in DOMAIN inner : InSource(inner[i]))' /\ (\A i \in DOMAIN handed : InSource(handed[i]))'
  BY <1>1 DEF RecordInv, InSource
<1>5. NamesDiffer'
  BY DEF RecordInv, NamesDiffer
<1>6. QED
  BY <1>3, <1>4, <1>5 DEF RecordInv

(* The line that is handed over is in the source.                          *)
LEMMA LineInSource ==
  ASSUME ScanInv, pc \in Handing
  PROVE  InSource(line) /\ line # NoLine /\ handed # << >>
<1>1. line \in Line /\ IsLine(source, line) /\ Reached = line.end
  BY DEF ScanInv, LineInv, Handed
<1>2. line.start \in Nat /\ line.end \in Nat /\ line.start < line.end
  BY <1>1 DEF Line, Offset, IsLine
<1>3. InSource(line)
  BY <1>1 DEF InSource, IsLine
<1>4. line # NoLine
  BY <1>2 DEF NoLine
<1>5. handed # << >>
  BY <1>1, <1>2 DEF Reached
<1>6. QED
  BY <1>3, <1>4, <1>5

LEMMA EmitRecord ==
  ASSUME ScanInv, ScanInv', RecordInv, NEW n \in Nat, Emit(n),
         UNCHANGED <<job, open, inner, found, sections, tail, answer>>
  PROVE  RecordInv'
<1>1. source' = source
  BY DEF source
<1>2. InSource(line)'
  <2>1. (ScanInv /\ pc \in Handing => InSource(line))'
    BY LineInSource, PTL
  <2>2. pc' \in Handing
    BY DEF Emit, Goto, Handing
  <2>3. QED
    BY <2>1, <2>2
<1>3. handed' = Append(handed, line') /\ handed \in Seq(Line) /\ line' \in Line
  BY <1>2 DEF Emit, ScanInv, ScannerTypes, InSource
<1>4. ASSUME NEW i \in DOMAIN handed' PROVE InSource(handed[i])'
  <2>1. Len(handed) \in Nat /\ DOMAIN handed = 1..Len(handed)
    BY <1>3, LenProperties
  <2>2. /\ Len(handed') = Len(handed) + 1
        /\ \A k \in 1..Len(handed) : handed'[k] = handed[k]
        /\ handed'[Len(handed) + 1] = line'
        /\ DOMAIN handed' = 1..(Len(handed) + 1)
    BY <1>3, AppendProperties, LenProperties
  <2>3. CASE i = Len(handed) + 1
    BY <1>2, <2>2, <2>3 DEF InSource
  <2>4. CASE i \in 1..Len(handed)
    <3>1. InSource(handed[i]) /\ handed'[i] = handed[i]
      BY <2>1, <2>2, <2>4 DEF RecordInv
    <3>2. QED
      BY <1>1, <3>1 DEF InSource
  <2>5. QED
    BY <2>1, <2>2, <2>3, <2>4
<1>5. open' # NoLine =>
        InSource(open)' /\ (job'.op = "split" => Matches(job'.opens, Text(open)'))
  BY <1>1 DEF RecordInv, InSource, Text
<1>6. (\A i \in DOMAIN inner : InSource(inner[i]))'
  BY <1>1 DEF RecordInv, InSource
<1>7. NamesDiffer'
  BY DEF RecordInv, NamesDiffer
<1>8. QED
  BY <1>4, <1>5, <1>6, <1>7 DEF RecordInv

(* The steps of the scanner record nothing but the line they hand over.    *)
LEMMA ScannerRecord ==
  ScanInv /\ ScanInv' /\ RecordInv
    /\ (Check \/ Dispatch \/ Second \/ EndOfStream \/ Refill \/ Final) => RecordInv'
<1> SUFFICES ASSUME ScanInv, ScanInv', RecordInv,
                    Check \/ Dispatch \/ Second \/ EndOfStream \/ Refill \/ Final
             PROVE  RecordInv'
  OBVIOUS
<1>1. UNCHANGED <<job, open, inner, found, sections, tail, answer>>
  BY DEF Check, Dispatch, Second, EndOfStream, Refill, Final, ScannerOnly, matchVars, recordVars
<1>2. CASE handed' = handed
  BY <1>1, <1>2, RecordKept DEF RecordInv
<1>3. CASE \E n \in Nat : Emit(n)
  BY <1>1, <1>3, EmitRecord
<1>4. handed' = handed \/ \E n \in {0, 1, 2} : Emit(n)
  <2>1. CASE Check \/ EndOfStream \/ Refill
    BY <2>1 DEF Check, EndOfStream, Refill
  <2>2. CASE Dispatch
    BY <2>2 DEF Dispatch, Pass
  <2>3. CASE Second
    BY <2>3 DEF Second
  <2>4. CASE Final
    BY <2>4 DEF Final
  <2>5. QED
    BY <2>1, <2>2, <2>3, <2>4
<1>5. QED
  BY <1>2, <1>3, <1>4

LEMMA MatchesIsBoolean ==
  ASSUME NEW p \in Pattern, NEW content
  PROVE  Matches(p, content) \in BOOLEAN
<1>1. p.kind \in {"exact", "literal", "tail"}
  BY DEF Pattern
<1>2. CASE p.kind = "exact"
  <2>1. Matches(p, content) = (content = p.text)
    BY <1>2 DEF Matches
  <2>2. QED
    BY <2>1
<1>3. CASE p.kind = "literal"
  <2>1. Matches(p, content) = (p.text \in SubSeqs(content))
    BY <1>3 DEF Matches
  <2>2. QED
    BY <2>1
<1>4. CASE p.kind = "tail"
  <2>1. Matches(p, content) = IsSuffix(p.text, content)
    BY <1>4 DEF Matches
  <2>2. IsSuffix(p.text, content) \in BOOLEAN
    BY DEF IsSuffix, IsPrefix
  <2>3. QED
    BY <2>1, <2>2
<1>5. QED
  BY <1>1, <1>2, <1>3, <1>4

LEMMA MatchingRecord ==
  ScanInv /\ MatchInv /\ MatchInv' /\ RecordInv /\ (Visit \/ ReadContent \/ Decide) => RecordInv'
<1> SUFFICES ASSUME ScanInv, MatchInv, MatchInv', RecordInv, Visit \/ ReadContent \/ Decide
             PROVE  RecordInv'
  OBVIOUS
<1>1. UNCHANGED <<job, open, inner, found, sections, handed>>
  BY DEF Visit, ReadContent, Decide, CallbackOnly, recordVars
<1>2. tail' \in Seq(Byte) /\ answer' \in BOOLEAN
  <2>1. CASE Visit
    BY <2>1, EmptySeq DEF Visit
  <2>2. CASE ReadContent
    BY <2>2 DEF ReadContent, MatchInv, Searched, RecordInv
  <2>3. CASE Decide
    <3>1. Wanted \in Pattern
      BY <2>3, TheLine DEF Decide
    <3>2. Matches(Wanted, tail) \in BOOLEAN
      BY <3>1, MatchesIsBoolean
    <3>3. QED
      BY <2>3, <3>2 DEF Decide, RecordInv
  <2>4. QED
    BY <2>1, <2>2, <2>3
<1>3. QED
  BY <1>1, <1>2, RecordKept

(* What is recorded is recorded of the same source.                        *)
LEMMA SameSource ==
  ASSUME RecordInv, UNCHANGED <<job, handed>>
  PROVE  /\ source' = source
         /\ \A l : InSource(l)' <=> InSource(l)
         /\ (\A i \in DOMAIN handed : InSource(handed[i]))'
<1>1. source' = source
  BY DEF source
<1>2. QED
  BY <1>1 DEF RecordInv, InSource

LEMMA SectionTyped ==
  ASSUME ScanInv, RecordInv, NEW to \in Nat, Nameable, CloseSection(to), UNCHANGED job
  PROVE  sections' \in Seq(Section) /\ NamesDiffer'
<1>1. job \in Jobs /\ handed \in Seq(Line)
  BY DEF ScanInv, ScannerTypes
<1>2. CASE HasSection(to)
  <2>1. SectionStart \in Nat
    BY DEF SectionStart, RecordInv, InSource, Line, Offset
  <2>2. Plan(SectionStart, to)
    BY <1>2 DEF CloseSection
  <2>3. QED
    BY <1>1, <2>1, <2>2, PlanningNames
<1>3. CASE ~HasSection(to)
  BY <1>3 DEF CloseSection, RecordInv, NamesDiffer
<1>4. QED
  BY <1>2, <1>3

LEMMA SplitRecord ==
  ASSUME ScanInv, MatchInv, RecordInv, pc = "record", SplitDelimiter,
         UNCHANGED <<job, handed, tail, answer, line>>
  PROVE  RecordInv'
<1>1. /\ InSource(line) /\ line # NoLine /\ handed # << >>
      /\ source' = source
      /\ \A l : InSource(l)' <=> InSource(l)
      /\ (\A i \in DOMAIN handed : InSource(handed[i]))'
  BY LineInSource, SameSource DEF Handing
<1>2. /\ job.op = "split" /\ answer /\ CloseSection(line.start)
      /\ open' = line /\ inner' = << >> /\ found' = found
  BY DEF SplitDelimiter
<1>3. Matches(job.opens, Text(line))
  BY <1>2 DEF MatchInv, Wanted
<1>4. sections' \in Seq(Section) /\ NamesDiffer'
  <2>1. Nameable /\ line.start \in Nat
    BY <1>1, <1>2 DEF Nameable, InSource, Line, Offset
  <2>2. QED
    BY <1>2, <2>1, SectionTyped
<1>5. InSource(open)' /\ Matches(job'.opens, Text(open)')
  BY <1>1, <1>2, <1>3 DEF InSource, Text
<1>6. inner' \in Seq(Line) /\ (\A i \in DOMAIN inner : InSource(inner[i]))'
  <2>1. DOMAIN << >> = {}
    OBVIOUS
  <2>2. QED
    BY <1>2, <2>1, EmptySeq
<1>7. QED
  BY <1>1, <1>2, <1>4, <1>5, <1>6 DEF RecordInv

LEMMA InnerRecord ==
  ASSUME ScanInv, RecordInv, pc = "record", InnerLine,
         UNCHANGED <<job, handed, tail, answer, line>>
  PROVE  RecordInv'
<1>1. /\ InSource(line)
      /\ source' = source
      /\ \A l : InSource(l)' <=> InSource(l)
      /\ (\A i \in DOMAIN handed : InSource(handed[i]))'
  BY LineInSource, SameSource DEF Handing
<1>2. UNCHANGED <<open, found, sections>> /\ job.op # "extract"
      /\ inner' = IF open = NoLine THEN inner ELSE Append(inner, line)
  BY DEF InnerLine
<1>3. inner' \in Seq(Line) /\ (\A i \in DOMAIN inner : InSource(inner[i]))'
  <2>1. CASE inner' = inner
    BY <1>1, <2>1 DEF RecordInv, InSource
  <2>2. CASE inner' = Append(inner, line)
    <3>1. inner \in Seq(Line) /\ line \in Line
      BY <1>1 DEF RecordInv, InSource
    <3>2. Len(inner) \in Nat /\ DOMAIN inner = 1..Len(inner)
      BY <3>1, LenProperties
    <3>3. /\ inner' \in Seq(Line)
          /\ DOMAIN inner' = 1..(Len(inner) + 1)
          /\ inner'[Len(inner) + 1] = line
          /\ \A i \in 1..Len(inner) : inner'[i] = inner[i]
      BY <2>2, <3>1, AppendProperties, LenProperties
    <3>4. ASSUME NEW i \in DOMAIN inner' PROVE InSource(inner[i])'
      <4>1. i = Len(inner) + 1 \/ i \in 1..Len(inner)
        BY <3>2, <3>3
      <4>2. InSource(inner'[i])
        BY <1>1, <3>2, <3>3, <4>1 DEF RecordInv
      <4>3. QED
        BY <1>1, <4>2 DEF InSource
    <3>5. QED
      BY <3>3, <3>4
  <2>3. QED
    BY <1>2, <2>1, <2>2
<1>4. open' # NoLine =>
        InSource(open)' /\ (job'.op = "split" => Matches(job'.opens, Text(open)'))
  BY <1>1, <1>2 DEF RecordInv, InSource, Text
<1>5. NamesDiffer'
  BY <1>2 DEF RecordInv, NamesDiffer
<1>6. QED
  BY <1>1, <1>2, <1>3, <1>4, <1>5 DEF RecordInv

LEMMA StartRecord ==
  ASSUME ScanInv, RecordInv, pc = "record", StartBlock,
         UNCHANGED <<job, handed, tail, answer, line>>
  PROVE  RecordInv'
<1>1. /\ InSource(line)
      /\ source' = source
      /\ (\A i \in DOMAIN handed : InSource(handed[i]))'
  BY LineInSource, SameSource DEF Handing
<1>2. UNCHANGED <<found, sections>> /\ job.op = "blocks" /\ inner' = << >> /\ open' = line
  BY DEF StartBlock
<1>3. InSource(open)'
  BY <1>1, <1>2 DEF InSource
<1>4. inner' \in Seq(Line) /\ (\A i \in DOMAIN inner : InSource(inner[i]))'
  <2>1. DOMAIN << >> = {}
    OBVIOUS
  <2>2. QED
    BY <1>2, <2>1, EmptySeq
<1>5. NamesDiffer'
  BY <1>2 DEF RecordInv, NamesDiffer
<1>6. QED
  BY <1>1, <1>2, <1>3, <1>4, <1>5 DEF RecordInv

LEMMA CloseRecord ==
  ASSUME ScanInv, RecordInv, pc = "record", CloseBlock,
         UNCHANGED <<job, handed, tail, answer, line>>
  PROVE  RecordInv'
<1>1. /\ InSource(line)
      /\ source' = source
      /\ (\A i \in DOMAIN handed : InSource(handed[i]))'
      /\ job \in Jobs /\ handed \in Seq(Line)
  BY LineInSource, SameSource DEF Handing, ScanInv, ScannerTypes
<1>2. /\ found' = found + 1 /\ job.op = "blocks" /\ inner' = << >> /\ open' = NoLine
      /\ open # NoLine
  BY DEF CloseBlock
<1>3. sections' \in Seq(Section) /\ NamesDiffer'
  <2>1. CASE sections' = sections
    BY <1>2, <2>1 DEF RecordInv, NamesDiffer
  <2>2. CASE sections' # sections
    <3>1. inner # << >> /\ \/ Plan(inner[1].start, Last(inner).end)
                           \/ Plan(open.start, line.end)
      BY <2>2 DEF CloseBlock
    <3>2. InSource(open) /\ InSource(inner[1]) /\ InSource(Last(inner))
      <4>1. inner \in Seq(Line) /\ Len(inner) \in Nat /\ DOMAIN inner = 1..Len(inner)
        BY LenProperties DEF RecordInv
      <4>2. 1 \in DOMAIN inner /\ Len(inner) \in DOMAIN inner
        BY <3>1, <4>1, EmptySeq
      <4>3. QED
        BY <1>2, <4>2 DEF RecordInv, Last
    <3>3. /\ inner[1].start \in Nat /\ Last(inner).end \in Nat
          /\ open.start \in Nat /\ line.end \in Nat
      BY <1>1, <3>2 DEF InSource, Line, Offset
    <3>4. Nameable
      BY <1>2, <3>1 DEF Nameable
    <3>5. QED
      BY <1>1, <3>1, <3>3, <3>4, PlanningNames
  <2>3. QED
    BY <2>1, <2>2
<1>4. inner' \in Seq(Line) /\ (\A i \in DOMAIN inner : InSource(inner[i]))'
  <2>1. DOMAIN << >> = {}
    OBVIOUS
  <2>2. QED
    BY <1>2, <2>1, EmptySeq
<1>5. found' \in Nat
  BY <1>2 DEF RecordInv
<1>6. QED
  BY <1>1, <1>2, <1>3, <1>4, <1>5 DEF RecordInv

LEMMA RangeRecord ==
  ASSUME ScanInv, RecordInv, pc = "record", RangeLine,
         UNCHANGED <<job, handed, tail, answer, line>>
  PROVE  RecordInv'
<1>1. /\ InSource(line)
      /\ source' = source
      /\ (\A i \in DOMAIN handed : InSource(handed[i]))'
  BY LineInSource, SameSource DEF Handing
<1>2. UNCHANGED <<open, inner>> /\ job.op = "extract"
  BY DEF RangeLine
<1>3. /\ sections' \in Seq(Section) /\ found' \in Nat
      /\ found' # 0 => sections' # << >>
  <2>1. CASE UNCHANGED <<found, sections>>
    BY <1>2, <2>1 DEF RecordInv
  <2>2. CASE ~UNCHANGED <<found, sections>>
    <3> DEFINE section == [from |-> IF found = 0 THEN line.start ELSE sections[1].from,
                           to |-> line.end, name |-> << >>]
    <3>1. found' = found + 1 /\ sections' = <<section>>
      BY <2>2 DEF RangeLine
    <3>2. line.start \in Nat /\ line.end \in Nat
      BY <1>1 DEF InSource, Line, Offset
    <3>3. found # 0 => sections[1].from \in Nat
      <4>1. ASSUME found # 0 PROVE sections[1] \in Section
        <5>1. sections \in Seq(Section) /\ sections # << >>
          BY <1>2, <4>1 DEF RecordInv
        <5>2. 1 \in 1..Len(sections)
          BY <5>1, LenProperties, EmptySeq
        <5>3. QED
          BY <5>1, <5>2, ElementOfSeq
      <4>2. QED
        BY <4>1 DEF Section, Offset
    <3>4. section \in Section
      <4>1. << >> \in Seq(Byte \cup Int)
        BY EmptySeq
      <4>2. QED
        BY <3>2, <3>3, <4>1 DEF Section, Offset
    <3> HIDE DEF section
    <3>5. <<section>> \in Seq(Section) /\ <<section>> # << >>
      BY <3>4
    <3>6. found' \in Nat
      BY <3>1 DEF RecordInv
    <3>7. QED
      BY <3>1, <3>5, <3>6
  <2>3. QED
    BY <2>1, <2>2
<1>4. open' # NoLine =>
        InSource(open)' /\ (job'.op = "split" => Matches(job'.opens, Text(open)'))
  BY <1>1, <1>2 DEF RecordInv, InSource, Text
<1>5. (\A i \in DOMAIN inner : InSource(inner[i]))'
  BY <1>1, <1>2 DEF RecordInv, InSource
<1>6. NamesDiffer'
  BY <1>2 DEF NamesDiffer
<1>7. QED
  BY <1>1, <1>2, <1>3, <1>4, <1>5, <1>6 DEF RecordInv

LEMMA RecordRecord == ScanInv /\ MatchInv /\ RecordInv /\ Record => RecordInv'
<1> SUFFICES ASSUME ScanInv, MatchInv, RecordInv, Record PROVE RecordInv'
  OBVIOUS
<1>1. UNCHANGED <<job, handed, tail, answer, line>> /\ pc = "record"
  BY DEF Record, CallbackOnly, matchVars
<1>2. CASE UNCHANGED recordVars
  BY <1>1, <1>2, RecordKept DEF recordVars, RecordInv
<1>3. QED
  BY <1>1, <1>2, SplitRecord, InnerRecord, StartRecord, CloseRecord, RangeRecord DEF Record

LEMMA FinishRecord == ScanInv /\ RecordInv /\ FinishCall => RecordInv'
<1> SUFFICES ASSUME ScanInv, RecordInv, FinishCall PROVE RecordInv'
  OBVIOUS
<1>1. UNCHANGED <<job, handed, tail, answer, line, open, inner, found>>
  BY DEF FinishCall, CallbackOnly, matchVars
<1>2. CASE sections' = sections
  BY <1>1, <1>2, RecordKept DEF RecordInv
<1>3. CASE sections' # sections
  <2>1. job.op = "split" /\ open # NoLine /\ CloseSection(Len(source))
    BY <1>3 DEF FinishCall, FinishSplit, FinishBlocks, FinishExtract
  <2>2. Len(source) \in Nat
    BY SourceIsBytes, LenProperties DEF ScanInv, ScannerTypes
  <2>3. sections' \in Seq(Section) /\ NamesDiffer'
    BY <1>1, <2>1, <2>2, SectionTyped DEF Nameable
  <2>4. /\ source' = source
        /\ (\A i \in DOMAIN handed : InSource(handed[i]))'
    BY <1>1, SameSource
  <2>5. open' # NoLine =>
          InSource(open)' /\ (job'.op = "split" => Matches(job'.opens, Text(open)'))
    BY <1>1, <2>4 DEF RecordInv, InSource, Text
  <2>6. (\A i \in DOMAIN inner : InSource(inner[i]))'
    BY <1>1, <2>4 DEF RecordInv, InSource
  <2>7. QED
    BY <1>1, <2>1, <2>3, <2>4, <2>5, <2>6 DEF RecordInv
<1>4. QED
  BY <1>2, <1>3

LEMMA OtherRecord ==
  RecordInv /\ (Leave \/ CallbackFails \/ Cancel \/ UNCHANGED vars) => RecordInv'
<1> SUFFICES ASSUME RecordInv, Leave \/ CallbackFails \/ Cancel \/ UNCHANGED vars
             PROVE  RecordInv'
  OBVIOUS
<1>1. UNCHANGED <<job, open, inner, found, sections, handed, tail, answer>>
  BY DEF Leave, CallbackFails, Cancel, vars, CallbackOnly, matchVars, recordVars
<1>2. QED
  BY <1>1, RecordKept DEF RecordInv

LEMMA MatchInvariant == Spec => []MatchInv
<1>1. ScanInv /\ MatchInv /\ [Next]_vars => MatchInv'
  BY VisitMatch, ReadContentMatch, DecideMatch, OtherMatch, IdleMatch DEF Next, Scanner, Done
<1>2. QED
  BY <1>1, InitMatch, ScanInvariant, PTL DEF Spec

LEMMA RecordInvariant == Spec => []RecordInv
<1>1. ScanInv /\ ScanInv' /\ MatchInv /\ MatchInv' /\ RecordInv /\ [Next]_vars => RecordInv'
  BY ScannerRecord, MatchingRecord, RecordRecord, FinishRecord, OtherRecord
  DEF Next, Scanner, Done
<1>2. QED
  BY <1>1, InitRecord, ScanInvariant, MatchInvariant, PTL DEF Spec

(* For sources, patterns and names of any length, and however the texts    *)
(* that name the outputs collide: no two outputs of split or of blocks     *)
(* have one name, so that none overwrites another with --force.            *)
THEOREM NamesAreDifferent == Spec => []NamesDiffer
<1>1. RecordInv => NamesDiffer
  BY DEF RecordInv
<1>2. QED
  BY <1>1, RecordInvariant, PTL

(* The types of what the scanner, the matcher and the callbacks keep.      *)
THEOREM TypeCorrect == Spec => []LineScanTypeOK
<1>1. ScanInv /\ RecordInv => LineScanTypeOK
  BY DEF ScanInv, ScannerTypes, RecordInv, LineScanTypeOK, Offset, InSource
<1>2. QED
  BY <1>1, ScanInvariant, RecordInvariant, PTL

-----------------------------------------------------------------------------
(* The sections, line by line.  Sec has the lemmas about what a scan of a  *)
(* source finds; the operators they are about are those of Parts.          *)

Sec == INSTANCE SpanSectionsProofs WITH Cell <- Seq(Byte), Path <- Nat

LEMMA SameParts ==
  ASSUME NEW r, NEW s
  PROVE  Parts!Sections(r, s) = Sec!Sections(r, s)
BY DEF Parts!Sections, Sec!Sections,
       Parts!InOrder, Sec!InOrder,
       Parts!Parts, Sec!Parts,
       Parts!CellsOf, Sec!CellsOf,
       Parts!PartOf, Sec!PartOf,
       Parts!InOutput, Sec!InOutput,
       Parts!LineOf, Sec!LineOf,
       Parts!SplitPart, Sec!SplitPart,
       Parts!BlockPart, Sec!BlockPart,
       Parts!BlockStarts, Sec!BlockStarts,
       Parts!BlockEnds, Sec!BlockEnds,
       Parts!InBlock, Sec!InBlock,
       Parts!Cardinality, Sec!Cardinality

(* What is read of a range takes the lines that are written.               *)
InRange(i) ==
  LET wanted == ParseCLIRange(job.lines)
  IN i >= wanted.start /\ (wanted.end = 0 \/ i <= wanted.end)

Takes(first, last, i) == first <= i /\ (last # 0 => i <= last)

LEMMA RangeWritten ==
  ASSUME job \in Jobs, job.op = "extract", NEW i \in Nat \ {0}
  PROVE  /\ Written(1) \in Int /\ Written(Len(job.lines)) \in Int
         /\ ParseCLIRange(job.lines).start \in Int /\ ParseCLIRange(job.lines).end \in Int
         /\ InRange(i) <=> Takes(Written(1), Written(Len(job.lines)), i)
<1> DEFINE text == job.lines
           n == Len(text)
           wanted == ParseCLIRange(text)
<1>1. text \in Seq(Nat \cup {-1}) /\ wanted.valid
  BY DEF Job, LineRangeText, Hyphen
<1>2. /\ n \in Nat /\ text # << >> /\ n >= 1
      /\ \A j \in 1..n : text[j] \in Nat \/ text[j] = -1
  <2>1. text # << >>
    BY <1>1 DEF ParseCLIRange, InvalidLines
  <2>2. QED
    BY <1>1, <2>1
<1>3. CASE OpenStart(text)
  <2>1. wanted = ParseOpenStart(text) /\ IsInteger(Tail(text))
    BY <1>1, <1>2, <1>3 DEF ParseCLIRange, ParseOpenStart, InvalidLines
  <2>2. text[1] = -1 /\ \A j \in 2..n : text[j] # -1
    BY <1>3 DEF OpenStart, Hyphen
  <2>3. Len(Tail(text)) = n - 1 /\ \A j \in 1..(n - 1) : Tail(text)[j] = text[j + 1]
    BY <1>1, <1>2
  <2>4. n = 2
    <3>1. n - 1 \in {1, 2} /\ (n - 1 = 2 => Tail(text)[1] = -1)
      BY <2>1, <2>3 DEF IsInteger, Hyphen
    <3>2. n - 1 # 2
      <4>1. n - 1 = 2 => Tail(text)[1] = text[2] /\ 2 \in 2..n
        BY <1>2, <2>3
      <4>2. QED
        BY <2>2, <3>1, <4>1
    <3>3. QED
      BY <1>2, <3>1, <3>2
  <2>5. wanted.start = 0 /\ wanted.end = text[2]
    BY <2>1, <2>3, <2>4 DEF ParseOpenStart, IntegerOf, Lines
  <2>6. Written(1) = 0 /\ Written(2) = text[2] /\ text[2] \in Nat
    BY <1>2, <2>2, <2>4 DEF Written, Hyphen
  <2>7. QED
    BY <2>4, <2>5, <2>6 DEF InRange, Takes
<1>4. CASE ~OpenStart(text) /\ OpenEnd(text)
  <2>1. wanted = ParseOpenEnd(text) /\ IsInteger(Front(text))
    BY <1>1, <1>2, <1>4 DEF ParseCLIRange, ParseOpenEnd, InvalidLines
  <2>2. text[n] = -1
    BY <1>4 DEF OpenEnd, Hyphen, Last
  <2>3. Len(Front(text)) = n - 1 /\ \A j \in 1..(n - 1) : Front(text)[j] = text[j]
    BY <1>1, <1>2 DEF Front
  <2>4. n - 1 \in {1, 2} /\ text[n - 1] # -1 /\ (n - 1 = 2 => text[1] = -1)
    <3>1. n - 1 \in {1, 2} /\ Front(text)[n - 1] # -1 /\ (n - 1 = 2 => Front(text)[1] = -1)
      BY <2>1, <2>3 DEF IsInteger, Hyphen, Last
    <3>2. n - 1 \in 1..(n - 1) /\ (n - 1 = 2 => 1 \in 1..(n - 1))
      BY <1>2, <3>1
    <3>3. QED
      BY <2>3, <3>1, <3>2
  <2>5. wanted.end = 0 /\ wanted.start = IntegerOf(Front(text))
    BY <2>1 DEF ParseOpenEnd, Lines
  <2>6. Written(n) = 0
    BY <2>2 DEF Written, Hyphen
  <2>7. CASE n = 2
    <3>1. wanted.start = text[1] /\ text[1] \in Nat
      BY <1>2, <2>3, <2>4, <2>5, <2>7 DEF IntegerOf
    <3>2. Written(1) = text[1]
      BY <3>1, <2>4, <2>7 DEF Written, Hyphen
    <3>3. QED
      BY <2>5, <2>6, <3>1, <3>2 DEF InRange, Takes
  <2>8. CASE n = 3
    <3>1. wanted.start = -text[2] /\ text[2] \in Nat /\ text[1] = -1
      BY <1>2, <2>3, <2>4, <2>5, <2>8 DEF IntegerOf
    <3>2. Written(1) = 0
      BY <3>1 DEF Written, Hyphen
    <3>3. QED
      BY <2>5, <2>6, <3>1, <3>2 DEF InRange, Takes
  <2>9. QED
    BY <1>2, <2>4, <2>7, <2>8
<1>5. CASE ~OpenStart(text) /\ ~OpenEnd(text)
  <2> DEFINE Before(cut) == SubSeq(text, 1, cut - 1)
             After(cut) == SubSeq(text, cut + 1, n)
             cuts == {j \in DOMAIN text : /\ text[j] = Hyphen
                                          /\ \A k \in 1..(j - 1) : text[k] # Hyphen
                                          /\ IsInteger(Before(j))
                                          /\ IsInteger(After(j))}
             cut == CHOOSE j \in cuts : TRUE
  <2>1. wanted = ParseClosed(text)
    BY <1>2, <1>5 DEF ParseCLIRange
  <2>2. cuts # {} /\ wanted = Lines(IntegerOf(Before(cut)), IntegerOf(After(cut)))
    <3>1. cuts = {} => wanted = InvalidLines
      BY <2>1 DEF ParseClosed
    <3>2. cuts # {}
      <4> HIDE DEF cuts
      <4>1. QED
        BY <1>1, <3>1 DEF InvalidLines
    <3>3. QED
      BY <2>1, <3>2 DEF ParseClosed
  <2>3. ASSUME NEW j \in cuts PROVE j = 2 /\ n \in {3, 4} /\ text[1] # -1 /\ text[2] = -1
                                    /\ text[n] # -1 /\ (n = 4 => text[3] = -1)
    <3>1. /\ j \in 1..n /\ text[j] = -1 /\ (\A k \in 1..(j - 1) : text[k] # -1)
          /\ IsInteger(Before(j)) /\ IsInteger(After(j))
      BY <1>1 DEF Hyphen
    <3>2. Len(Before(j)) = j - 1 /\ \A k \in 1..(j - 1) : Before(j)[k] = text[k]
      BY <1>1, <3>1
    <3>3. Len(After(j)) = n - j /\ \A k \in 1..(n - j) : After(j)[k] = text[j + k]
      <4>1. j + 1 \in 1..(n + 1) /\ n \in ((j + 1) - 1)..n
        BY <1>2, <3>1
      <4>2. /\ Len(After(j)) = n - (j + 1) + 1
            /\ \A k \in 1..(n - (j + 1) + 1) : After(j)[k] = text[j + 1 + k - 1]
        BY <1>1, <4>1, SubSeqProperties
      <4>3. n - (j + 1) + 1 = n - j
        BY <1>2, <3>1
      <4>5. \A k \in Int : j + 1 + k - 1 = j + k
        BY <3>1
      <4> HIDE DEF After
      <4>6. ASSUME NEW k \in 1..(n - j) PROVE After(j)[k] = text[j + k]
        <5>1. k \in 1..(n - (j + 1) + 1) /\ k \in Int
          BY <4>3
        <5>2. QED
          BY <4>2, <4>5, <5>1
      <4>4. QED
        BY <4>2, <4>3, <4>6
    <3> HIDE DEF Before, After
    <3>4. j - 1 \in {1, 2} /\ (j - 1 = 2 => Before(j)[1] = -1)
      BY <3>1, <3>2 DEF IsInteger, Hyphen
    <3>5. j = 2
      BY <3>1, <3>2, <3>4
    <3>6. n - j \in {1, 2} /\ After(j)[n - j] # -1 /\ (n - j = 2 => After(j)[1] = -1)
      BY <3>1, <3>3 DEF IsInteger, Hyphen, Last
    <3>7. n \in {3, 4} /\ text[n] # -1 /\ (n = 4 => text[3] = -1)
      <4> HIDE DEF text, cuts, cut, wanted
      <4>1. n - 2 \in {1, 2}
        BY <3>5, <3>6
      <4>2. n \in {3, 4}
        BY <1>2, <4>1
      <4>3. \A k \in 1..(n - 2) : After(j)[k] = text[2 + k]
        BY <3>3, <3>5
      <4>4. CASE n = 3
        BY <3>5, <3>6, <4>3, <4>4
      <4>5. CASE n = 4
        BY <3>5, <3>6, <4>3, <4>5
      <4>6. QED
        BY <4>2, <4>4, <4>5
    <3>8. QED
      BY <3>1, <3>5, <3>7
  <2>4. cut \in cuts
    BY <2>2
  <2>5. cut = 2 /\ n \in {3, 4} /\ text[1] # -1 /\ text[2] = -1 /\ text[n] # -1 /\ (n = 4 => text[3] = -1)
    <3> HIDE DEF cut, cuts
    <3>1. QED
      BY <2>3, <2>4
  <2>6. Len(Before(2)) = 1 /\ Before(2)[1] = text[1] /\ text[1] \in Nat
    BY <1>1, <1>2, <2>5
  <2>7. Len(After(2)) = n - 2 /\ \A k \in 1..(n - 2) : After(2)[k] = text[2 + k]
    BY <1>1, <2>5
  <2>8. wanted = Lines(IntegerOf(Before(2)), IntegerOf(After(2)))
    <3> HIDE DEF cut, cuts, Before, After
    <3>1. QED
      BY <2>2, <2>5
  <2>9. wanted.start = text[1] /\ wanted.end = (IF n = 3 THEN text[3] ELSE -text[4])
    <3> HIDE DEF Before, After
    <3>1. IntegerOf(Before(2)) = text[1]
      BY <2>6 DEF IntegerOf
    <3>2. n = 3 => Len(After(2)) = 1 /\ After(2)[1] = text[3]
      BY <2>7
    <3>3. n = 4 => Len(After(2)) = 2 /\ After(2)[2] = text[4]
      BY <2>7
    <3>4. IntegerOf(After(2)) = (IF n = 3 THEN text[3] ELSE -text[4])
      BY <2>5, <3>2, <3>3 DEF IntegerOf
    <3>5. QED
      BY <2>8, <3>1, <3>4 DEF Lines
  <2>10. Written(1) = text[1] /\ Written(n) = (IF n = 3 THEN text[3] ELSE -text[4])
    BY <2>5 DEF Written, Hyphen
  <2>11. text[1] \in Nat /\ text[n] \in Nat
    BY <1>2, <2>5
  <2>12. QED
    BY <2>5, <2>9, <2>10, <2>11 DEF InRange, Takes
<1>6. QED
  BY <1>3, <1>4, <1>5

(* Two lines of one text have one content.                                 *)
LEMMA SameText ==
  ASSUME NEW s \in Seq(Byte), NEW l \in Line, NEW m \in Line, IsLine(s, l), IsLine(s, m),
         Serialized(s, l) = Serialized(s, m)
  PROVE  Content(s, l) = Content(s, m)
<1>1. ASSUME NEW a \in Line, IsLine(s, a)
      PROVE  /\ a.start \in Nat /\ a.stop \in Nat /\ a.end \in Nat
             /\ a.start <= a.stop /\ a.stop <= a.end /\ a.end <= Len(s)
             /\ Len(Serialized(s, a)) = a.end - a.start
             /\ \A i \in 1..(a.end - a.start) : Serialized(s, a)[i] = s[a.start + i]
             /\ Content(s, a) = SubSeq(Serialized(s, a), 1, a.stop - a.start)
  <2>1. /\ a.start \in Nat /\ a.stop \in Nat /\ a.end \in Nat
        /\ a.start <= a.stop /\ a.stop <= a.end /\ a.end <= Len(s)
        /\ a.start <= a.end
    BY <1>1 DEF IsLine, Line, Offset
  <2>2. PICK b \in Nat, c \in Nat, d \in Nat :
          b = a.start /\ c = a.stop /\ d = a.end /\ b <= c /\ c <= d /\ d <= Len(s)
    BY <2>1
  <2>3. b <= d /\ 0 \in Nat /\ c - b \in Nat /\ 0 <= c - b /\ c - b <= d - b /\ b + 0 = b /\ b + (c - b) = c
    BY <2>2
  <2>8. b <= d /\ d <= Len(s)
    BY <2>2
  <2>9. c - b \in Nat /\ 0 \in Nat /\ 0 <= c - b /\ c - b <= d - b
    BY <2>2
  <2>10. ASSUME NEW i \in Nat, NEW j \in Nat, i <= j, j <= d - b
         PROVE  SubSeq(Bytes(s, b, d), i + 1, j) = Bytes(s, b + i, b + j)
    <3>1. b <= d
      BY <2>8
    <3>2. d <= Len(s)
      BY <2>8
    <3>3. j <= d - b
      BY <2>10
    <3>4. i <= j
      BY <2>10
    <3>5. QED
      BY <3>1, <3>2, <3>3, <3>4, PartOfBytes DEF Bytes
  <2>4. SubSeq(Bytes(s, b, d), 0 + 1, c - b) = Bytes(s, b + 0, b + (c - b))
    BY <2>9, <2>10
  <2>5. SubSeq(Bytes(s, b, d), 1, c - b) = Bytes(s, b, c)
    BY <2>3, <2>4
  <2>6. Len(Bytes(s, b, d)) = d - b /\ \A i \in 1..(d - b) : Bytes(s, b, d)[i] = s[b + i]
    BY <2>8, BytesProperties
  <2>7. QED
    BY <2>1, <2>2, <2>5, <2>6 DEF Content, Serialized
<1>2. ASSUME NEW a \in Line, NEW b \in Line, IsLine(s, a), IsLine(s, b),
             Serialized(s, a) = Serialized(s, b)
      PROVE  ~(a.stop - a.start < b.stop - b.start)
  <2> DEFINE w == a.stop - a.start
  <2> SUFFICES ASSUME w < b.stop - b.start PROVE FALSE
    OBVIOUS
  <2>1. /\ a.start \in Nat /\ a.stop \in Nat /\ a.end \in Nat
        /\ a.start <= a.stop /\ a.stop <= a.end /\ a.end <= Len(s)
        /\ b.start \in Nat /\ b.stop \in Nat /\ b.end \in Nat
        /\ b.start <= b.stop /\ b.stop <= b.end /\ b.end <= Len(s)
    BY <1>1, <1>2
  <2>2. a.end - a.start = b.end - b.start
    BY <1>1, <1>2
  <2>3. a.stop < a.end
    BY <2>1, <2>2
  <2>4. s[a.stop + 1] \in {CR, LF}
    BY <1>2, <2>1, <2>3 DEF IsLine
  <2>9. w \in Nat /\ w + 1 <= a.end - a.start /\ w + 1 <= b.stop - b.start
    BY <2>1, <2>3
  <2>10. w + 1 \in 1..(a.end - a.start)
    BY <2>1, <2>9
  <2>11. w + 1 \in 1..(b.end - b.start)
    BY <2>2, <2>10
  <2>12. a.start + (w + 1) = a.stop + 1
    BY <2>1
  <2>13. b.start + (w + 1) \in (b.start + 1)..b.stop
    <3> HIDE DEF w
    <3>1. QED
      BY <2>1, <2>9
  <2>5. /\ w + 1 \in 1..(a.end - a.start) /\ w + 1 \in 1..(b.end - b.start)
        /\ a.start + (w + 1) = a.stop + 1
        /\ b.start + (w + 1) \in (b.start + 1)..b.stop
    BY <2>10, <2>11, <2>12, <2>13
  <2>6. /\ Serialized(s, a)[w + 1] = s[a.start + (w + 1)]
        /\ Serialized(s, b)[w + 1] = s[b.start + (w + 1)]
    BY <1>1, <1>2, <2>5
  <2>7. s[b.start + (w + 1)] \notin {CR, LF}
    BY <1>2, <2>5 DEF IsLine, Plain
  <2> HIDE DEF w
  <2>8. QED
    BY <1>2, <2>4, <2>5, <2>6, <2>7
<1>3. l.stop - l.start = m.stop - m.start
  <2>1. l.stop - l.start \in Int /\ m.stop - m.start \in Int
    BY DEF Line, Offset
  <2>2. ~(l.stop - l.start < m.stop - m.start) /\ ~(m.stop - m.start < l.stop - l.start)
    BY <1>2
  <2>3. QED
    BY <2>1, <2>2
<1>4. QED
  BY <1>1, <1>3

(* The lines from one to another, put together, are what is between them.  *)
Texts(s, lines) == [i \in 1..Len(lines) |-> Serialized(s, lines[i])]

(* The lines are one after the other.                                      *)
Adjoin(s, lines) ==
  /\ \A i \in 1..Len(lines) : IsLine(s, lines[i])
  /\ \A i \in 1..(Len(lines) - 1) : lines[i + 1].start = lines[i].end

(* The lines from x to y, put together.                                    *)
LEMMA LinesJoined ==
  ASSUME NEW s \in Seq(Byte), NEW lines \in Seq(Line), Adjoin(s, lines),
         NEW T, T = Texts(s, lines),
         NEW x \in 1..Len(lines), NEW y \in x..Len(lines)
  PROVE  FlattenSeq(SubSeq(T, x, y)) = Bytes(s, lines[x].start, lines[y].end)
<1> DEFINE n == Len(lines)
           Good == {z \in x..n : /\ FlattenSeq(SubSeq(T, x, z)) = Bytes(s, lines[x].start, lines[z].end)
                                 /\ lines[x].start <= lines[z].end}
<1>0. /\ T = [i \in 1..Len(lines) |-> Serialized(s, lines[i])]
      /\ \A i \in 1..Len(lines) : IsLine(s, lines[i])
      /\ \A i \in 1..(Len(lines) - 1) : lines[i + 1].start = lines[i].end
  BY DEF Texts, Adjoin
<1>1. \A i \in 1..n : /\ lines[i].start \in Nat /\ lines[i].end \in Nat
                       /\ lines[i].start <= lines[i].end /\ lines[i].end <= Len(s)
                       /\ T[i] = Serialized(s, lines[i]) /\ T[i] \in Seq(Byte)
  <2> TAKE i \in 1..n
  <2>1. PICK l \in Line : l = lines[i] /\ IsLine(s, l)
    BY <1>0
  <2>2. /\ l.start \in Nat /\ l.end \in Nat /\ l.stop \in Nat
        /\ l.start <= l.stop /\ l.stop <= l.end /\ l.end <= Len(s)
    BY <2>1 DEF Line, Offset, IsLine
  <2>4. l.start <= l.end
    BY <2>2
  <2>5. Serialized(s, l) \in Seq(Byte)
    BY <2>2, <2>4, BytesProperties DEF Serialized
  <2>3. QED
    BY <1>0, <2>1, <2>2, <2>4, <2>5
<1>2. n \in Nat /\ T \in Seq(Seq(Byte)) /\ Len(T) = n
  <2>1. n \in Nat /\ \A i \in 1..n : Serialized(s, lines[i]) \in Seq(Byte)
    BY <1>1
  <2>2. QED
    BY <1>0, <2>1
<1>3. x \in Good
  <2>1. SubSeq(T, x, x) = Append(<< >>, T[x])
    <3>1. /\ SubSeq(T, x, x) \in Seq(Seq(Byte))
          /\ Len(SubSeq(T, x, x)) = x - x + 1
          /\ \A i \in 1..(x - x + 1) : SubSeq(T, x, x)[i] = T[x + i - 1]
      <4>1. x \in 1..(Len(T) + 1) /\ x \in (x - 1)..Len(T)
        BY <1>2
      <4>2. QED
        BY <1>2, <4>1, SubSeqProperties
    <3>2. x - x + 1 = 1 /\ x + 1 - 1 = x
      OBVIOUS
    <3>6. 1 \in 1..(x - x + 1)
      BY <3>2
    <3>7. SubSeq(T, x, x)[1] = T[x + 1 - 1]
      BY <3>1, <3>6
    <3>3. Len(SubSeq(T, x, x)) = 1 /\ SubSeq(T, x, x)[1] = T[x]
      BY <3>1, <3>2, <3>7
    <3>4. Append(<< >>, T[x]) = << T[x] >>
      OBVIOUS
    <3>8. PICK u \in Seq(Seq(Byte)) : u = SubSeq(T, x, x)
      BY <3>1
    <3>9. u = << T[x] >>
      <4>1. Len(u) = 1 /\ u[1] = T[x]
        BY <3>3, <3>8
      <4> HIDE DEF Good
      <4>2. QED
        BY <4>1
    <3>5. QED
      BY <3>4, <3>8, <3>9
  <2>2. << >> \in Seq(Seq(Byte)) /\ T[x] \in Seq(Byte)
    BY <1>1
  <2>3. FlattenSeq(Append(<< >>, T[x])) = FlattenSeq(<< >>) \o T[x]
    BY <2>2, FlattenAppend
  <2>4. << >> \o T[x] = T[x]
    BY <2>2
  <2>5. FlattenSeq(SubSeq(T, x, x)) = Bytes(s, lines[x].start, lines[x].end)
    BY <1>1, <2>1, <2>3, <2>4, FlattenEmpty DEF Serialized
  <2>6. lines[x].start <= lines[x].end /\ x \in x..n
    BY <1>1
  <2>7. QED
    BY <2>5, <2>6
<1>4. ASSUME NEW z \in x..(y - 1), z \in Good PROVE z + 1 \in Good
  <2>1. z \in 1..n /\ z + 1 \in 1..n /\ z \in 1..(n - 1) /\ x \in 1..n /\ z + 1 \in x..n
    BY <1>2
  <2>2. SubSeq(T, x, z + 1) = Append(SubSeq(T, x, z), T[z + 1])
    BY <1>2, <2>1
  <2>3. SubSeq(T, x, z) \in Seq(Seq(Byte))
    BY <1>2, <2>1
  <2>4. FlattenSeq(SubSeq(T, x, z + 1)) = FlattenSeq(SubSeq(T, x, z)) \o T[z + 1]
    BY <1>0, <1>1, <2>1, <2>2, <2>3, FlattenAppend
  <2>5. T[z + 1] = Bytes(s, lines[z].end, lines[z + 1].end)
    BY <1>0, <1>1, <2>1 DEF Serialized
  <2>10. lines[z].start \in Nat /\ lines[z].end \in Nat /\ lines[x].start \in Nat /\ lines[z + 1].end \in Nat
    BY <1>1, <2>1
  <2>6. lines[x].start <= lines[z].end /\ lines[z].end <= lines[z + 1].end /\ lines[z + 1].end <= Len(s)
    BY <1>0, <1>1, <1>4, <2>1
  <2>7. Bytes(s, lines[x].start, lines[z].end) \o Bytes(s, lines[z].end, lines[z + 1].end)
          = Bytes(s, lines[x].start, lines[z + 1].end)
    <3>1. PICK a \in Nat, b \in Nat, c \in Nat :
            a = lines[x].start /\ b = lines[z].end /\ c = lines[z + 1].end
      BY <2>10
    <3>2. a <= b /\ b <= c /\ c <= Len(s)
      BY <2>6, <3>1
    <3>3. Bytes(s, a, b) \o Bytes(s, b, c) = Bytes(s, a, c)
      BY <3>2, BytesJoined
    <3>4. QED
      BY <3>1, <3>3
  <2>8. lines[x].start <= lines[z + 1].end
    BY <1>1, <2>1, <2>6
  <2>9. QED
    BY <1>4, <2>1, <2>4, <2>5, <2>7, <2>8
<1>5. x..y \subseteq Good
  <2> HIDE DEF Good
  <2>1. x \in Int /\ y \in Int
    BY <1>2
  <2>2. QED
    BY <1>3, <1>4, <2>1, Induction
<1>6. QED
  BY <1>5

-----------------------------------------------------------------------------
(* What has been planned is what the request asks of the lines so far.     *)

(* The line looked at: the last one handed over, until it is recorded.     *)
Looked == IF pc \in {"visit", "match", "record"} THEN Len(handed) ELSE Len(handed) + 1

(* The lines follow one another.                                           *)
LinesInv ==
  /\ \A i \in 1..Len(handed) : handed[i].num = i /\ IsLine(source, handed[i])
  /\ handed # << >> => handed[1].start = 0
  /\ \A i \in 1..(Len(handed) - 1) : handed[i + 1].start = handed[i].end
  /\ pc \in Handing => handed # << >> /\ line = handed[Len(handed)]

(* What is kept are the lines since the one that opened.                   *)
KeptInv ==
  open # NoLine =>
    /\ open.num \in 1..(Looked - 1)
    /\ open = handed[open.num]
    /\ Len(inner) = Looked - 1 - open.num
    /\ \A j \in 1..Len(inner) : inner[j] = handed[open.num + j]

(* s has a cell for each line of the source, the ones that are not handed  *)
(* over yet included, and r asks of the cells what the job asks of the     *)
(* lines so far.                                                           *)
Asks(r, s) ==
  /\ r.op = job.op
  /\ r.bare = job.bare
  /\ Len(s) \in Nat
  /\ Len(handed) <= Len(s)
  /\ \A i \in 1..Len(handed) :
       /\ s[i] \in r.opens <=> Matches(job.opens, Text(handed[i]))
       /\ s[i] \in r.closes <=> Matches(job.closes, Text(handed[i]))

Place == [from : Nat, to : Nat]

(* The sections are from one line to another.                              *)
SpanOf(k, p) == sections[k].from = handed[p.from].start /\ sections[k].to = handed[p.to].end

Planned(P) ==
  /\ P \in Seq(Place)
  /\ Len(P) = Len(sections)
  /\ \A k \in 1..Len(P) :
       /\ P[k].from \in 1..Len(handed) /\ P[k].to \in 1..Len(handed)
       /\ SpanOf(k, P[k])

(* For whatever follows, what has been planned is what a scan of the cells *)
(* has to keep.                                                            *)
SpansInv ==
  job.op # "extract" =>
    \A r, s : Asks(r, s) => \E P : Planned(P) /\
      IF job.op = "split" THEN Sec!SplitAt(r, s, P, open.num, Looked)
      ELSE Sec!BlocksAt(r, s, P, open.num, Looked)

RangeInv ==
  job.op = "extract" =>
    /\ open = NoLine
    /\ found \in Nat
    /\ found = 0 => sections = << >> /\ \A i \in 1..(Looked - 1) : ~InRange(i)
    /\ found # 0 => \E p \in Place :
         /\ Len(sections) = 1
         /\ p.from \in 1..p.to /\ p.to \in 1..(Looked - 1)
         /\ SpanOf(1, p)
         /\ \A i \in 1..(Looked - 1) : InRange(i) <=> i \in p.from..p.to

(* At the end, it is the sections of the lines.                            *)
EndInv ==
  job.op # "extract" =>
    \A r, s : Asks(r, s) /\ Len(s) = Len(handed) =>
      \E P : Planned(P) /\ Sec!Follow(r, s, P, Len(s) + 1)

PartsInv ==
  /\ LinesInv
  /\ pc # "done" => KeptInv /\ SpansInv
  /\ pc # "done" \/ outcome \in {"ok", "enough"} => RangeInv
  /\ outcome = "ok" => EndInv

-----------------------------------------------------------------------------
(* What a step leaves as it was.                                           *)

Longer ==
  /\ handed \in Seq(Line) /\ handed' \in Seq(Line)
  /\ Len(handed) <= Len(handed')
  /\ \A i \in 1..Len(handed) : handed'[i] = handed[i]
  /\ UNCHANGED job

(* What is asked of the lines includes what was asked of fewer.            *)
LEMMA AsksLonger ==
  ASSUME Longer, NEW r, NEW s, Asks(r, s)'
  PROVE  Asks(r, s)
<1>1. Len(handed) \in Nat /\ Len(handed') \in Nat
  BY LenProperties DEF Longer
<1>2. ASSUME NEW i \in 1..Len(handed)
      PROVE  /\ s[i] \in r.opens <=> Matches(job.opens, Text(handed[i]))
             /\ s[i] \in r.closes <=> Matches(job.closes, Text(handed[i]))
  <2>1. i \in 1..Len(handed') /\ handed'[i] = handed[i] /\ job' = job
    BY <1>1 DEF Longer
  <2>2. Text(handed[i])' = Text(handed[i])
    BY <2>1 DEF Text, source
  <2>3. /\ s[i] \in r.opens <=> Matches(job'.opens, Text(handed[i])')
        /\ s[i] \in r.closes <=> Matches(job'.closes, Text(handed[i])')
    BY <2>1 DEF Asks
  <2>4. QED
    BY <2>1, <2>2, <2>3
<1>3. r.op = job.op /\ r.bare = job.bare /\ Len(s) \in Nat /\ Len(handed) <= Len(s)
  BY <1>1 DEF Asks, Longer
<1>4. QED
  BY <1>2, <1>3 DEF Asks

LEMMA PlannedLonger ==
  ASSUME Longer, UNCHANGED sections, NEW P, Planned(P)
  PROVE  Planned(P)'
<1>1. Len(handed) \in Nat /\ Len(handed') \in Nat
  BY LenProperties DEF Longer
<1>2. ASSUME NEW k \in 1..Len(P)
      PROVE  /\ P[k].from \in 1..Len(handed') /\ P[k].to \in 1..Len(handed')
             /\ SpanOf(k, P[k])'
  <2>1. P[k].from \in 1..Len(handed) /\ P[k].to \in 1..Len(handed) /\ SpanOf(k, P[k])
    BY DEF Planned
  <2>2. handed'[P[k].from] = handed[P[k].from] /\ handed'[P[k].to] = handed[P[k].to]
    BY <2>1 DEF Longer
  <2>3. QED
    BY <1>1, <2>1, <2>2 DEF SpanOf, Longer
<1>3. QED
  BY <1>2 DEF Planned

LEMMA KeptLonger ==
  ASSUME Longer, UNCHANGED <<open, inner, Looked>>, Looked <= Len(handed) + 1, Looked \in Nat, KeptInv
  PROVE  KeptInv'
<1> SUFFICES ASSUME open # NoLine
             PROVE  /\ open.num \in 1..(Looked - 1)
                    /\ open = handed'[open.num]
                    /\ Len(inner) = Looked - 1 - open.num
                    /\ \A j \in 1..Len(inner) : inner[j] = handed'[open.num + j]
  BY DEF KeptInv
<1>1. /\ open.num \in 1..(Looked - 1)
      /\ open = handed[open.num]
      /\ Len(inner) = Looked - 1 - open.num
      /\ \A j \in 1..Len(inner) : inner[j] = handed[open.num + j]
  BY DEF KeptInv
<1>2. Len(handed) \in Nat
  BY LenProperties DEF Longer
<1>3. open.num \in 1..Len(handed) /\ \A j \in 1..Len(inner) : open.num + j \in 1..Len(handed)
  <2>1. PICK o \in Nat, a \in Nat : o = open.num /\ a = Looked /\ 1 <= o /\ o <= a - 1
    BY <1>1
  <2>2. Len(inner) = a - 1 - o /\ a - 1 <= Len(handed)
    BY <1>1, <1>2, <2>1
  <2>3. \A j \in 1..Len(inner) : o + j \in 1..Len(handed)
    BY <1>2, <2>1, <2>2
  <2>4. QED
    BY <1>2, <2>1, <2>2, <2>3
<1>4. QED
  BY <1>1, <1>3 DEF Longer

LEMMA SpansLonger ==
  ASSUME Longer, UNCHANGED <<open, sections, Looked>>, SpansInv
  PROVE  SpansInv'
<1> SUFFICES ASSUME job.op # "extract", NEW r, NEW s, Asks(r, s)'
             PROVE  \E P : Planned(P)' /\
                      IF job.op = "split" THEN Sec!SplitAt(r, s, P, open.num, Looked)
                      ELSE Sec!BlocksAt(r, s, P, open.num, Looked)
  BY DEF SpansInv, Longer
<1>1. PICK P : Planned(P) /\ IF job.op = "split" THEN Sec!SplitAt(r, s, P, open.num, Looked)
                             ELSE Sec!BlocksAt(r, s, P, open.num, Looked)
  BY AsksLonger DEF SpansInv
<1>2. Planned(P)'
  BY <1>1, PlannedLonger
<1>3. QED
  BY <1>1, <1>2

LEMMA RangeLonger ==
  ASSUME Longer, UNCHANGED <<open, found, sections, Looked>>, Looked <= Len(handed) + 1, Looked \in Nat, RangeInv
  PROVE  RangeInv'
<1>1. UNCHANGED job
  BY DEF Longer
<1>2. \A i : InRange(i)' <=> InRange(i)
  BY <1>1 DEF InRange
<1>3. ASSUME NEW p \in Place, p.from \in 1..p.to, p.to \in 1..(Looked - 1), SpanOf(1, p)
      PROVE  SpanOf(1, p)'
  <2>1. Len(handed) \in Nat
    BY LenProperties DEF Longer
  <2>2. p.from \in 1..Len(handed) /\ p.to \in 1..Len(handed)
    BY <1>3, <2>1 DEF Place
  <2>3. QED
    BY <1>3, <2>2 DEF SpanOf, Longer
<1>4. QED
  BY <1>1, <1>2, <1>3 DEF RangeInv

(* Where the scan looks.                                                   *)
LEMMA LookedIs ==
  ASSUME ScanInv, LinesInv
  PROVE  /\ Len(handed) \in Nat /\ Looked \in Nat /\ Looked <= Len(handed) + 1
         /\ Looked >= 1 /\ Looked >= Len(handed)
<1>1. handed \in Seq(Line) /\ Len(handed) \in Nat
  BY LenProperties DEF ScanInv, ScannerTypes
<1>2. pc \in {"visit", "match", "record"} => Len(handed) # 0
  BY <1>1, EmptySeq DEF LinesInv, Handing
<1>3. QED
  BY <1>1, <1>2 DEF Looked

LEMMA EndLonger ==
  ASSUME Longer, UNCHANGED <<handed, sections>>, EndInv
  PROVE  EndInv'
<1> SUFFICES ASSUME job.op # "extract", NEW r, NEW s, Asks(r, s)', Len(s) = Len(handed)
             PROVE  \E P : Planned(P)' /\ Sec!Follow(r, s, P, Len(s) + 1)
  BY DEF EndInv, Longer
<1>1. PICK P : Planned(P) /\ Sec!Follow(r, s, P, Len(s) + 1)
  BY AsksLonger DEF EndInv
<1>2. Planned(P)'
  BY <1>1, PlannedLonger
<1>3. QED
  BY <1>1, <1>2

(* A step that records nothing.                                            *)
LEMMA PartsFrame ==
  ASSUME ScanInv, ScanInv', PartsInv, Longer, UNCHANGED <<open, inner, found, sections>>, LinesInv',
         \/ pc # "done" /\ pc' # "done" /\ Looked' = Looked
         \/ pc' = "done" /\ outcome' \notin {"ok", "enough"}
         \/ UNCHANGED <<pc, outcome, handed>>
  PROVE  PartsInv'
<1>1. LinesInv /\ Looked \in Nat /\ Looked <= Len(handed) + 1
  BY LookedIs DEF PartsInv
<1>2. CASE pc # "done" /\ pc' # "done" /\ Looked' = Looked
  <2>1. KeptInv' /\ SpansInv' /\ RangeInv'
    BY <1>1, <1>2, KeptLonger, SpansLonger, RangeLonger DEF PartsInv
  <2>2. outcome' = "none"
    BY <1>2 DEF ScanInv, LineInv
  <2>3. QED
    BY <2>1, <2>2 DEF PartsInv
<1>3. CASE pc' = "done" /\ outcome' \notin {"ok", "enough"}
  BY <1>3 DEF PartsInv
<1>4. CASE UNCHANGED <<pc, outcome, handed>>
  <2>1. Looked' = Looked
    BY <1>4 DEF Looked
  <2>2. (KeptInv => KeptInv') /\ (SpansInv => SpansInv') /\ (RangeInv => RangeInv')
    BY <1>1, <2>1, KeptLonger, SpansLonger, RangeLonger
  <2>3. EndInv => EndInv'
    BY <1>4, EndLonger
  <2>4. QED
    BY <1>4, <2>2, <2>3 DEF PartsInv
<1>5. QED
  BY <1>2, <1>3, <1>4

(* A step that hands over nothing.                                         *)
LEMMA SameLines ==
  ASSUME ScanInv, UNCHANGED <<job, handed>>
  PROVE  Longer
BY LenProperties DEF Longer, ScanInv, ScannerTypes

LEMMA LinesKept ==
  ASSUME LinesInv, UNCHANGED <<job, handed, line>>, pc' \in Handing => pc \in Handing
  PROVE  LinesInv'
BY DEF LinesInv, source

(* Before anything is handed over.                                         *)
LEMMA InitParts == Init => PartsInv
<1> SUFFICES ASSUME Init PROVE PartsInv
  OBVIOUS
<1>1. handed = << >> /\ sections = << >> /\ Len(handed) = 0 /\ pc = "check" /\ outcome = "none"
      /\ open = NoLine /\ found = 0
  BY DEF Init
<1>2. LinesInv
  BY <1>1 DEF LinesInv, Handing
<1>3. KeptInv
  BY <1>1 DEF KeptInv
<1>4. Looked = 1 /\ open.num = 0
  BY <1>1 DEF Looked, NoLine
<1>5. SpansInv
  <2> SUFFICES ASSUME NEW r, NEW s, Asks(r, s)
               PROVE  Planned(<< >>) /\ Sec!SplitAt(r, s, << >>, 0, 1) /\ Sec!BlocksAt(r, s, << >>, 0, 1)
    BY <1>4 DEF SpansInv
  <2>1. Planned(<< >>)
    BY <1>1, EmptySeq DEF Planned
  <2>2. Len(s) \in Nat
    BY DEF Asks
  <2>3. Sec!SplitAt(r, s, << >>, 0, 1) /\ Sec!BlocksAt(r, s, << >>, 0, 1)
    <3> DEFINE q == [from |-> 1, to |-> 0]
    <3>1. q.from = 1 /\ q.to = 0
      OBVIOUS
    <3> HIDE DEF q
    <3>2. QED
      BY <2>2, <3>1, Sec!ScansBegin
  <2>4. QED
    BY <2>1, <2>3
<1>6. RangeInv
  BY <1>1, <1>4 DEF RangeInv
<1>7. QED
  BY <1>1, <1>2, <1>3, <1>5, <1>6 DEF PartsInv

(* A line that is handed over follows the one before.                      *)
LEMMA EmitParts ==
  ASSUME ScanInv, ScanInv', PartsInv, NEW n \in Nat, Emit(n), pc \in {"have", "second", "final"},
         UNCHANGED <<job, open, inner, found, sections, lineBegin>>
  PROVE  PartsInv'
<1> DEFINE m == Len(handed)
<1>1. handed \in Seq(Line) /\ m \in Nat /\ line' \in Line
  BY LenProperties DEF ScanInv, ScannerTypes, LineInv, Handing, Emit, Goto
<1>2. /\ handed' = Append(handed, line') /\ pc' = "visit"
      /\ line'.num = m + 1 /\ line'.start = lineBegin
  BY DEF Emit, Goto
<1>3. /\ handed' \in Seq(Line) /\ Len(handed') = m + 1
      /\ handed'[m + 1] = line'
      /\ \A i \in 1..m : handed'[i] = handed[i]
  BY <1>1, <1>2, AppendProperties
<1>4. Longer
  BY <1>1, <1>3 DEF Longer
<1>5. LinesInv
  BY DEF PartsInv
<1>6. IsLine(source, line')
  <2>1. source' = source
    BY DEF source
  <2>2. IsLine(source, line)'
    BY <1>2 DEF ScanInv, LineInv, Handed, Handing
  <2>3. QED
    BY <2>1, <2>2
<1>7. lineBegin = IF m = 0 THEN 0 ELSE handed[m].end
  <2>1. Reached = lineBegin
    BY DEF ScanInv, LineInv, Between, Scanning
  <2>2. QED
    BY <1>1, <2>1, EmptySeq DEF Reached
<1>8. LinesInv'
  <2>1. ASSUME NEW i \in 1..(m + 1) PROVE handed'[i].num = i /\ IsLine(source, handed'[i])
    <3>1. CASE i = m + 1
      BY <1>2, <1>3, <1>6, <3>1
    <3>2. CASE i \in 1..m
      BY <1>3, <1>5, <3>2 DEF LinesInv
    <3>3. QED
      BY <1>1, <3>1, <3>2
  <2>2. handed'[1].start = 0
    <3>1. CASE m = 0
      BY <1>2, <1>3, <1>7, <3>1
    <3>2. CASE m # 0
      <4>1. handed # << >> /\ 1 \in 1..m
        BY <1>1, <3>2
      <4>2. QED
        BY <1>3, <1>5, <4>1 DEF LinesInv
    <3>3. QED
      BY <3>1, <3>2
  <2>3. ASSUME NEW i \in 1..m PROVE handed'[i + 1].start = handed'[i].end
    <3>1. CASE i = m
      BY <1>1, <1>2, <1>3, <1>7, <3>1
    <3>2. CASE i # m
      <4>1. i \in 1..(m - 1) /\ i + 1 \in 1..m
        BY <1>1, <3>2
      <4>2. QED
        BY <1>3, <1>5, <4>1 DEF LinesInv
    <3>3. QED
      BY <3>1, <3>2
  <2>4. (m + 1) - 1 = m /\ handed' # << >>
    BY <1>1, <1>3, EmptySeq
  <2>5. source' = source
    BY DEF source
  <2> HIDE DEF m
  <2>6. QED
    BY <1>3, <2>1, <2>2, <2>3, <2>4, <2>5 DEF LinesInv
<1>9. Looked' = Looked
  BY <1>1, <1>2, <1>3 DEF Looked
<1>10. QED
  BY <1>2, <1>4, <1>8, <1>9, PartsFrame

(* A step that neither hands over nor records.                             *)
LEMMA QuietParts ==
  ASSUME ScanInv, ScanInv', PartsInv, UNCHANGED <<job, open, inner, found, sections, handed, line>>,
         \/ pc \in Scanning /\ pc' \in Scanning \cup {"finish"}
         \/ pc \in {"visit", "match"} /\ pc' \in {"match", "record"}
         \/ pc = "leave" /\ pc' = "check"
         \/ pc' = "done" /\ outcome' \in {"cancelled", "readError"}
         \/ UNCHANGED <<pc, outcome>>
  PROVE  PartsInv'
<1>1. Longer
  BY SameLines
<1>2. LinesInv'
  BY LinesKept DEF PartsInv, Handing, Scanning
<1>3. CASE UNCHANGED <<pc, outcome>>
  BY <1>1, <1>2, <1>3, PartsFrame
<1>4. CASE pc' = "done" /\ outcome' \in {"cancelled", "readError"}
  BY <1>1, <1>2, <1>4, PartsFrame
<1>5. CASE \/ pc \in Scanning /\ pc' \in Scanning \cup {"finish"}
           \/ pc \in {"visit", "match"} /\ pc' \in {"match", "record"}
           \/ pc = "leave" /\ pc' = "check"
  <2>1. Looked' = Looked /\ pc # "done" /\ pc' # "done"
    BY <1>5 DEF Looked, Scanning
  <2>2. QED
    BY <1>1, <1>2, <2>1, PartsFrame
<1>6. QED
  BY <1>3, <1>4, <1>5

(* The steps of the scanner.                                               *)
LEMMA ScannerParts ==
  ScanInv /\ ScanInv' /\ PartsInv
    /\ (Check \/ Dispatch \/ Second \/ EndOfStream \/ Refill \/ Final) => PartsInv'
<1> SUFFICES ASSUME ScanInv, ScanInv', PartsInv,
                    Check \/ Dispatch \/ Second \/ EndOfStream \/ Refill \/ Final
             PROVE  PartsInv'
  OBVIOUS
<1>1. UNCHANGED <<job, lineBegin, open, inner, found, sections>>
  BY DEF Check, Dispatch, Second, EndOfStream, Refill, Final, ScannerOnly, recordVars
<1>2. CASE \E n \in {0, 1, 2} : Emit(n) /\ pc \in {"have", "second", "final"}
  BY <1>1, <1>2, EmitParts
<1>3. CASE Check
  BY <1>1, <1>3, QuietParts DEF Check, Unless, Goto, Finish, Scanning
<1>4. CASE Dispatch
  <2>1. CASE Pass
    BY <1>1, <1>4, <2>1, QuietParts DEF Dispatch, Pass, Goto, Scanning
  <2>2. CASE Goto("second") /\ UNCHANGED <<cursor, base, window, line, handed>>
    BY <1>1, <1>4, <2>2, QuietParts DEF Dispatch, Goto, Scanning
  <2>3. QED
    BY <1>2, <1>4, <2>1, <2>2 DEF Dispatch
<1>5. CASE Second
  <2>1. CASE Has(cursor + 1) /\ Emit(IF At(cursor + 1) = LF THEN 2 ELSE 1)
    BY <1>2, <1>5, <2>1 DEF Second
  <2>2. CASE Emit(1)
    BY <1>2, <1>5, <2>2 DEF Second
  <2>3. QED
    BY <1>5, <2>1, <2>2 DEF Second
<1>6. CASE EndOfStream
  BY <1>1, <1>6, QuietParts DEF EndOfStream, Goto, Scanning
<1>7. CASE Refill
  <2>1. \/ UNCHANGED <<pc, outcome>>
        \/ pc' = "done" /\ outcome' = "readError"
    BY <1>7 DEF Refill, Finish
  <2>2. UNCHANGED <<line, handed>>
    BY <1>7 DEF Refill
  <2>3. QED
    BY <1>1, <2>1, <2>2, QuietParts
<1>8. CASE Final
  <2>1. CASE cancelled /\ Finish("cancelled") /\ UNCHANGED <<cursor, base, window, line, handed>>
    BY <1>1, <2>1, QuietParts DEF Finish
  <2>2. CASE Emit(0)
    BY <1>2, <1>8, <2>2 DEF Final
  <2>3. CASE Goto("finish") /\ UNCHANGED <<cursor, base, window, line, handed>>
    BY <1>1, <1>8, <2>3, QuietParts DEF Final, Goto, Scanning
  <2>4. QED
    BY <1>8, <2>1, <2>2, <2>3 DEF Final
<1>9. QED
  BY <1>3, <1>4, <1>5, <1>6, <1>7, <1>8

(* The steps of the callback but the one that records, and the context.    *)
LEMMA OtherParts ==
  ScanInv /\ ScanInv' /\ PartsInv
    /\ (Visit \/ ReadContent \/ Decide \/ Leave \/ CallbackFails \/ Cancel \/ UNCHANGED vars) => PartsInv'
<1> SUFFICES ASSUME ScanInv, ScanInv', PartsInv,
                    Visit \/ ReadContent \/ Decide \/ Leave \/ CallbackFails \/ Cancel \/ UNCHANGED vars
             PROVE  PartsInv'
  OBVIOUS
<1>1. UNCHANGED <<job, open, inner, found, sections, handed, line>>
  BY DEF Visit, ReadContent, Decide, Leave, CallbackFails, Cancel, vars, CallbackOnly, recordVars
<1>2. CASE Visit
  BY <1>1, <1>2, QuietParts DEF Visit, Unless, Goto, Finish
<1>3. CASE Decide
  BY <1>1, <1>3, QuietParts DEF Decide, Unless, Goto, Finish
<1>4. CASE Leave
  BY <1>1, <1>4, QuietParts DEF Leave, Goto
<1>5. CASE CallbackFails
  BY <1>1, <1>5, QuietParts DEF CallbackFails, Finish
<1>6. CASE ReadContent \/ Cancel \/ UNCHANGED vars
  BY <1>1, <1>6, QuietParts DEF ReadContent, Cancel, vars
<1>7. QED
  BY <1>2, <1>3, <1>4, <1>5, <1>6

-----------------------------------------------------------------------------
(* What is recorded.                                                       *)

(* A sequence with one part more.                                          *)
LEMMA ExtendsBy ==
  ASSUME NEW P \in Seq(Place), NEW q \in Place
  PROVE  Append(P, q) \in Seq(Place) /\ Sec!Extends(P, q, Append(P, q))
<1>1. /\ Append(P, q) \in Seq(Place) /\ Len(P) \in Nat
      /\ Len(Append(P, q)) = Len(P) + 1
      /\ Append(P, q)[Len(P) + 1] = q
      /\ \A k \in 1..Len(P) : Append(P, q)[k] = P[k]
  BY AppendProperties, LenProperties
<1>2. QED
  BY <1>1 DEF Sec!Extends

(* One section more, from a line to another.                               *)
LEMMA PlannedGrows ==
  ASSUME ScanInv, RecordInv, UNCHANGED <<job, handed>>, NEW P, Planned(P), NEW q \in Place,
         q.from \in 1..Len(handed), q.to \in 1..Len(handed),
         Plan(handed[q.from].start, handed[q.to].end)
  PROVE  Planned(Append(P, q))'
<1> DEFINE Q == Append(P, q)
           n == Len(sections)
           e == [from |-> handed[q.from].start, to |-> handed[q.to].end, name |-> Name]
<1>1. /\ P \in Seq(Place) /\ Len(P) = n
      /\ Q \in Seq(Place)
      /\ Len(Q) = n + 1 /\ Q[n + 1] = q
      /\ \A k \in 1..n : Q[k] = P[k]
  BY AppendProperties DEF Planned
<1>2. n \in Nat /\ sections \in Seq(Section)
  BY LenProperties DEF RecordInv
<1>3. sections' = Append(sections, e)
  BY DEF Plan
<1>4. /\ Len(sections') = n + 1
      /\ sections'[n + 1] = e
      /\ \A k \in 1..n : sections'[k] = sections[k]
  <2> HIDE DEF e
  <2>1. QED
    BY <1>2, <1>3
<1>5. e.from = handed[q.from].start /\ e.to = handed[q.to].end
  OBVIOUS
<1> HIDE DEF Q, n, e
<1>6. ASSUME NEW k \in 1..(n + 1)
      PROVE  /\ Q[k].from \in 1..Len(handed) /\ Q[k].to \in 1..Len(handed)
             /\ SpanOf(k, Q[k])'
  <2>1. CASE k = n + 1
    BY <1>1, <1>4, <1>5, <2>1 DEF SpanOf
  <2>2. CASE k \in 1..n
    BY <1>1, <1>4, <2>2 DEF SpanOf, Planned
  <2>3. QED
    BY <1>2, <2>1, <2>2
<1>7. QED
  BY <1>1, <1>4, <1>6 DEF Planned, Q

(* A step that plans nothing.                                              *)
LEMMA PlannedSame ==
  ASSUME UNCHANGED <<handed, sections>>, NEW P, Planned(P)
  PROVE  Planned(P)'
BY DEF Planned, SpanOf

(* Of a line that was handed over.                                         *)
LEMMA OfLine ==
  ASSUME ScanInv, LinesInv, NEW i \in 1..Len(handed)
  PROVE  /\ handed[i] \in Line /\ handed[i] # NoLine
         /\ handed[i].num = i
         /\ handed[i].start \in Nat /\ handed[i].end \in Nat
         /\ handed[i].start < handed[i].end
         /\ handed[i].start = IF i = 1 THEN 0 ELSE handed[i - 1].end
<1>1. handed \in Seq(Line) /\ Len(handed) \in Nat /\ handed[i] \in Line
  BY LenProperties, ElementOfSeq DEF ScanInv, ScannerTypes
<1>2. PICK l \in Line : l = handed[i]
  BY <1>1
<1>3. l # NoLine /\ l.start \in Nat /\ l.end \in Nat
  BY DEF Line, NoLine, Offset
<1>4. handed[i].num = i /\ IsLine(source, l)
  BY <1>2 DEF LinesInv
<1>5. l.start < l.end
  BY <1>4 DEF IsLine
<1>6. handed[i].start = IF i = 1 THEN 0 ELSE handed[i - 1].end
  <2>1. CASE i = 1
    <3>1. handed # << >>
      BY <1>1
    <3>2. QED
      BY <2>1, <3>1 DEF LinesInv
  <2>2. CASE i # 1
    <3>1. i - 1 \in 1..(Len(handed) - 1) /\ (i - 1) + 1 = i
      BY <1>1, <2>2
    <3>2. handed[(i - 1) + 1].start = handed[i - 1].end
      BY <3>1 DEF LinesInv
    <3>3. QED
      BY <2>2, <3>1, <3>2
  <2>3. QED
    BY <2>1, <2>2
<1>7. QED
  BY <1>2, <1>3, <1>4, <1>5, <1>6

(* Where a scan is that records.                                           *)
LEMMA AtRecord ==
  ASSUME ScanInv, LinesInv, pc = "record"
  PROVE  /\ Len(handed) \in Nat \ {0} /\ Len(handed) \in 1..Len(handed)
         /\ Looked = Len(handed)
         /\ line = handed[Len(handed)]
         /\ line.num = Len(handed)
<1>1. handed \in Seq(Line) /\ Len(handed) \in Nat /\ handed # << >> /\ line = handed[Len(handed)]
  BY LenProperties DEF ScanInv, ScannerTypes, LinesInv, Handing
<1>2. Len(handed) # 0
  BY <1>1, EmptySeq
<1>3. QED
  BY <1>1, <1>2, OfLine DEF Looked

(* Of the line looked at, and of what is asked of it.                      *)
LEMMA Answered ==
  ASSUME ScanInv, MatchInv, LinesInv, pc = "record", job.op # "extract", NEW r, NEW s, Asks(r, s)
  PROVE  /\ Len(s) \in Nat /\ Len(handed) \in 1..Len(s)
         /\ job.op = "split" \/ open = NoLine => (answer <=> s[Len(handed)] \in r.opens)
         /\ job.op # "split" /\ open # NoLine => (answer <=> s[Len(handed)] \in r.closes)
<1>1. Len(handed) \in 1..Len(s) /\ Len(s) \in Nat /\ Len(handed) \in 1..Len(handed)
  BY AtRecord DEF Asks
<1>2. answer = Matches(Wanted, Text(line)) /\ line = handed[Len(handed)]
  BY AtRecord DEF MatchInv
<1>3. /\ s[Len(handed)] \in r.opens <=> Matches(job.opens, Text(line))
      /\ s[Len(handed)] \in r.closes <=> Matches(job.closes, Text(line))
  BY <1>1, <1>2 DEF Asks
<1>4. QED
  BY <1>1, <1>2, <1>3 DEF Wanted

(* The number of the line that opened, 0 for none.                         *)
LEMMA OpenNumber ==
  ASSUME ScanInv, LinesInv, KeptInv
  PROVE  /\ open.num \in Nat /\ open.num < Looked
         /\ open = NoLine <=> open.num = 0
         /\ open # NoLine =>
              /\ open.num \in 1..Len(handed) /\ open = handed[open.num]
              /\ Len(inner) = Looked - 1 - open.num
<1>1. Len(handed) \in Nat /\ Looked \in Nat /\ Looked <= Len(handed) + 1 /\ Looked >= 1
  BY LookedIs
<1>2. CASE open = NoLine
  BY <1>1, <1>2 DEF NoLine
<1>3. CASE open # NoLine
  BY <1>1, <1>3 DEF KeptInv
<1>4. QED
  BY <1>2, <1>3

(* The section of split that ends before the line looked at: whether there *)
(* is one, and from where to where.                                        *)
Pending(to) ==
  \/ pc = "record" /\ to = line.start
  \/ pc = "finish" /\ to = Len(source) /\ open # NoLine

(* The lines of the pending section.                                       *)
LEMMA PendingSection ==
  ASSUME ScanInv, RecordInv, LinesInv, KeptInv, NEW to, Pending(to), NEW r, r.bare = job.bare,
         NEW b, b = Sec!SplitFrom(r, open.num)
  PROVE  /\ b \in Nat /\ Looked \in Nat
         /\ HasSection(to) <=> b <= Looked - 1
         /\ b <= Looked - 1 =>
              /\ b \in 1..Len(handed) /\ Looked - 1 \in 1..Len(handed)
              /\ SectionStart = handed[b].start /\ to = handed[Looked - 1].end
<1> DEFINE a == Looked
           o == open.num
<1>1. Len(handed) \in Nat /\ a \in Nat /\ a <= Len(handed) + 1 /\ a >= 1
  BY LookedIs
<1>2. /\ o \in Nat /\ o < a
      /\ open = NoLine <=> o = 0
      /\ open # NoLine => o \in 1..Len(handed) /\ open = handed[o] /\ Len(inner) = a - 1 - o
  BY OpenNumber
<1>3. b = IF o = 0 THEN 1 ELSE IF job.bare THEN o + 1 ELSE o
  BY DEF Sec!SplitFrom
<1>4. to = IF a = 1 THEN 0 ELSE handed[a - 1].end
  <2>1. CASE pc = "record" /\ to = line.start
    BY <2>1, AtRecord, OfLine
  <2>2. CASE pc = "finish" /\ to = Len(source) /\ open # NoLine
    <3>1. a = Len(handed) + 1 /\ a - 1 = Len(handed)
      BY <1>1, <2>2 DEF Looked
    <3>2. Reached = lineBegin /\ lineBegin = Len(source)
      BY <2>2 DEF ScanInv, LineInv, Between
    <3>3. handed = << >> => Len(handed) = 0
      OBVIOUS
    <3>4. handed # << >> => Len(handed) # 0
      BY EmptySeq DEF ScanInv, ScannerTypes
    <3> HIDE DEF a
    <3>5. QED
      BY <2>2, <3>1, <3>2, <3>3, <3>4, <1>1 DEF Reached
  <2>3. QED
    BY <2>1, <2>2 DEF Pending
<1>5. a # 1 => a - 1 \in 1..Len(handed) /\ handed[a - 1].end \in Nat /\ handed[a - 1].end > 0
  <2>1. SUFFICES ASSUME a # 1 PROVE a - 1 \in 1..Len(handed) /\ handed[a - 1].end \in Nat /\ handed[a - 1].end > 0
    OBVIOUS
  <2>2. a - 1 \in 1..Len(handed)
    BY <1>1, <2>1
  <2> HIDE DEF a
  <2>3. QED
    BY <2>2, OfLine
<1>6. inner \in Seq(Line) /\ Len(inner) \in Nat /\ (inner = << >> <=> Len(inner) = 0)
  BY LenProperties, EmptySeq DEF RecordInv
<1> HIDE DEF a, o
<1>7. CASE o = 0
  <2>1. b = 1 /\ (HasSection(to) <=> to > 0) /\ SectionStart = 0
    BY <1>2, <1>3, <1>7 DEF HasSection, SectionStart
  <2>2. to > 0 <=> a # 1
    BY <1>4, <1>5
  <2>3. a # 1 => 1 \in 1..Len(handed) /\ handed[1].start = 0
    <3>1. a # 1 => 1 \in 1..Len(handed)
      BY <1>1, <1>5
    <3>2. QED
      BY <3>1, OfLine
  <2>4. QED
    BY <1>1, <1>4, <1>5, <2>1, <2>2, <2>3 DEF a
<1>8. CASE o # 0 /\ ~job.bare
  <2>1. b = o /\ HasSection(to) /\ SectionStart = open.start
    BY <1>2, <1>3, <1>8 DEF HasSection, SectionStart
  <2>2. a # 1 /\ o <= a - 1
    BY <1>1, <1>2, <1>8
  <2>3. QED
    BY <1>1, <1>2, <1>4, <1>5, <1>8, <2>1, <2>2 DEF a
<1>9. CASE o # 0 /\ job.bare
  <2>1. b = o + 1 /\ (HasSection(to) <=> inner # << >>) /\ SectionStart = open.end
    BY <1>2, <1>3, <1>9 DEF HasSection, SectionStart
  <2>2. HasSection(to) <=> o + 1 <= a - 1
    BY <1>1, <1>2, <1>6, <1>9, <2>1
  <2>3. ASSUME o + 1 <= a - 1 PROVE o + 1 \in 1..Len(handed) /\ open.end = handed[o + 1].start /\ a # 1
    <3>1. o + 1 \in 1..Len(handed) /\ o + 1 # 1 /\ (o + 1) - 1 = o /\ a # 1
      BY <1>1, <1>2, <1>9, <2>3
    <3>2. handed[o + 1].start = handed[(o + 1) - 1].end
      BY <3>1, OfLine
    <3>3. QED
      BY <1>2, <1>9, <3>1, <3>2
  <2>4. QED
    BY <1>1, <1>2, <1>4, <1>5, <2>1, <2>2, <2>3 DEF a
<1>10. QED
  BY <1>7, <1>8, <1>9, <1>2

(* A section that closes is the next part, unless it is empty.             *)
LEMMA SplitCloses ==
  ASSUME ScanInv, RecordInv, LinesInv, KeptInv, job.op = "split", UNCHANGED <<job, handed>>,
         NEW to, Pending(to), CloseSection(to),
         NEW r, NEW s, Asks(r, s), NEW P, Planned(P), Sec!SplitAt(r, s, P, open.num, Looked)
  PROVE  \E Q : Planned(Q)' /\ Sec!Follow(r, s, Q, Looked)
<1>1. r.op = "split" /\ r.bare = job.bare /\ Len(s) \in Nat /\ P \in Seq(Place) /\ Len(P) \in Nat
  BY LenProperties DEF Asks, Planned
<1>2. PICK b : b = Sec!SplitFrom(r, open.num)
  OBVIOUS
<1>3. /\ b \in Nat /\ Looked \in Nat
      /\ HasSection(to) <=> b <= Looked - 1
      /\ b <= Looked - 1 =>
           /\ b \in 1..Len(handed) /\ Looked - 1 \in 1..Len(handed)
           /\ SectionStart = handed[b].start /\ to = handed[Looked - 1].end
  BY <1>1, <1>2, PendingSection
<1>4. CASE HasSection(to)
  <2>1. PICK q \in Place : q.from = b /\ q.to = Looked - 1 /\ q.from <= q.to
    <3>1. [from |-> b, to |-> Looked - 1] \in Place
      BY <1>3, <1>4 DEF Place
    <3>2. QED
      BY <1>3, <1>4, <3>1
  <2>2. Plan(handed[q.from].start, handed[q.to].end)
    BY <1>3, <1>4, <2>1 DEF CloseSection
  <2>3. q.from \in 1..Len(handed) /\ q.to \in 1..Len(handed)
    BY <1>3, <1>4, <2>1
  <2> DEFINE Q == Append(P, q)
  <2>4. Planned(Q)'
    BY <2>1, <2>2, <2>3, PlannedGrows
  <2>5. Sec!Extends(P, q, Q)
    BY <1>1, <2>1, ExtendsBy
  <2> HIDE DEF Q
  <2>6. q.from = Sec!SplitFrom(r, open.num)
    BY <1>2, <2>1
  <2>7. Sec!Follow(r, s, Q, Looked)
    BY <1>1, <2>1, <2>5, <2>6, Sec!SplitGrows
  <2>8. QED
    BY <2>4, <2>7
<1>5. CASE ~HasSection(to)
  <2>1. UNCHANGED sections
    BY <1>5 DEF CloseSection
  <2>2. Planned(P)'
    BY <2>1, PlannedSame
  <2>3. Sec!SplitFrom(r, open.num) > Looked - 1
    BY <1>2, <1>3, <1>5
  <2>4. Sec!Follow(r, s, P, Looked)
    BY <1>1, <2>3, Sec!SplitEmpty
  <2>5. QED
    BY <2>2, <2>4
<1>6. QED
  BY <1>4, <1>5

(* The line recorded is passed.                                            *)
LEMMA AfterRecord ==
  ASSUME ScanInv, LinesInv, pc = "record", pc' = "leave", UNCHANGED handed
  PROVE  Looked' = Len(handed) + 1 /\ Looked = Len(handed) /\ Len(handed) \in Nat \ {0}
BY AtRecord DEF Looked

(* A delimiter.                                                            *)
LEMMA SplitParts ==
  ASSUME ScanInv, ScanInv', MatchInv, RecordInv, PartsInv, pc = "record", SplitDelimiter,
         UNCHANGED <<job, handed, line>>
  PROVE  PartsInv'
<1>1. LinesInv /\ KeptInv /\ SpansInv
  BY DEF PartsInv
<1>2. LinesInv'
  BY <1>1, LinesKept DEF Handing
<1>3. /\ job.op = "split" /\ answer /\ CloseSection(line.start) /\ open' = line /\ inner' = << >>
      /\ \/ pc' = "leave" /\ outcome' = outcome
         \/ pc' = "done" /\ outcome' = "maxFiles"
  BY DEF SplitDelimiter, Finish, Goto
<1>4. CASE pc' = "done" /\ outcome' = "maxFiles"
  BY <1>2, <1>4 DEF PartsInv
<1>5. CASE pc' = "leave" /\ outcome' = outcome
  <2> DEFINE a == Len(handed)
  <2>1. Looked' = a + 1 /\ Looked = a /\ a \in Nat \ {0} /\ line = handed[a] /\ line.num = a
    BY <1>1, <1>5, AfterRecord, AtRecord
  <2>2. KeptInv'
    <3>1. Len(<< >>) = 0 /\ a + 1 - 1 - a = 0 /\ a \in 1..(a + 1 - 1)
      BY <2>1
    <3> HIDE DEF a
    <3>2. QED
      BY <1>3, <2>1, <3>1 DEF KeptInv
  <2>3. SpansInv'
    <3> SUFFICES ASSUME NEW r, NEW s, Asks(r, s)'
                 PROVE  \E P : Planned(P)' /\ Sec!SplitAt(r, s, P, line.num, Looked')
      BY <1>3 DEF SpansInv
    <3>1. Asks(r, s)
      BY AsksLonger, SameLines
    <3>2. PICK P : Planned(P) /\ Sec!SplitAt(r, s, P, open.num, Looked)
      BY <1>1, <1>3, <3>1 DEF SpansInv
    <3>3. Pending(line.start)
      BY DEF Pending
    <3>4. PICK Q : Planned(Q)' /\ Sec!Follow(r, s, Q, Looked)
      BY <1>1, <1>3, <3>1, <3>2, <3>3, SplitCloses
    <3>5. Len(s) \in Nat /\ a \in 1..Len(s) /\ s[a] \in r.opens
      BY <1>1, <1>3, <3>1, Answered
    <3>6. Sec!SplitAt(r, s, Q, a, a + 1)
      BY <2>1, <3>4, <3>5, Sec!SplitOpens
    <3>7. QED
      BY <2>1, <3>4, <3>6
  <2>4. RangeInv'
    BY <1>3 DEF RangeInv
  <2>5. outcome' = "none"
    BY <1>5 DEF ScanInv, LineInv
  <2>6. QED
    BY <1>2, <2>2, <2>3, <2>4, <2>5 DEF PartsInv
<1>6. QED
  BY <1>3, <1>4, <1>5

(* A line between.                                                         *)
LEMMA InnerParts ==
  ASSUME ScanInv, ScanInv', MatchInv, RecordInv, PartsInv, pc = "record", InnerLine,
         UNCHANGED <<job, handed, line>>
  PROVE  PartsInv'
<1> DEFINE a == Len(handed)
<1>1. LinesInv /\ KeptInv /\ SpansInv
  BY DEF PartsInv
<1>2. LinesInv'
  BY <1>1, LinesKept DEF Handing
<1>3. /\ job.op # "extract" /\ ~answer /\ UNCHANGED <<open, found, sections, outcome>> /\ pc' = "leave"
      /\ inner' = IF open = NoLine THEN inner ELSE Append(inner, line)
  BY DEF InnerLine, Goto
<1>4. Looked' = a + 1 /\ Looked = a /\ a \in Nat \ {0} /\ line = handed[a] /\ line.num = a
  BY <1>1, <1>3, AfterRecord, AtRecord
<1>5. KeptInv'
  <2> SUFFICES ASSUME open # NoLine
               PROVE  /\ open.num \in 1..(Looked' - 1)
                      /\ open = handed[open.num]
                      /\ Len(inner') = Looked' - 1 - open.num
                      /\ \A j \in 1..Len(inner') : inner'[j] = handed[open.num + j]
    BY <1>3 DEF KeptInv
  <2>1. PICK o \in Nat : o = open.num /\ o \in 1..(a - 1) /\ Len(inner) = a - 1 - o
    BY <1>1, <1>4 DEF KeptInv
  <2>2. \A j \in 1..Len(inner) : inner[j] = handed[o + j]
    BY <1>1, <2>1 DEF KeptInv
  <2>3. /\ inner' = Append(inner, line) /\ inner \in Seq(Line) /\ Len(inner) \in Nat
        /\ Len(inner') = Len(inner) + 1 /\ inner'[Len(inner) + 1] = line
        /\ \A j \in 1..Len(inner) : inner'[j] = inner[j]
    <3>1. line \in Line
      BY DEF ScanInv, LineInv, Handing
    <3>2. QED
      BY <1>3, <3>1, AppendProperties, LenProperties DEF RecordInv
  <2>4. o + (Len(inner) + 1) = a
    BY <1>4, <2>1
  <2>5. ASSUME NEW j \in 1..(Len(inner) + 1) PROVE inner'[j] = handed[o + j]
    <3>1. CASE j = Len(inner) + 1
      BY <1>4, <2>3, <2>4, <3>1
    <3>2. CASE j \in 1..Len(inner)
      BY <2>2, <2>3, <3>2
    <3>3. QED
      BY <2>3, <3>1, <3>2
  <2>6. open = handed[open.num]
    BY <1>1 DEF KeptInv
  <2>7. o \in 1..(a + 1 - 1) /\ Len(inner) + 1 = a + 1 - 1 - o
    BY <1>4, <2>1
  <2> HIDE DEF a
  <2>8. QED
    BY <1>4, <2>1, <2>3, <2>5, <2>6, <2>7
<1>6. SpansInv'
  <2> SUFFICES ASSUME NEW r, NEW s, Asks(r, s)'
               PROVE  \E P : Planned(P)' /\
                        IF job.op = "split" THEN Sec!SplitAt(r, s, P, open.num, a + 1)
                        ELSE Sec!BlocksAt(r, s, P, open.num, a + 1)
    BY <1>3, <1>4 DEF SpansInv
  <2>1. Asks(r, s)
    BY AsksLonger, SameLines
  <2>2. PICK P : Planned(P) /\ IF job.op = "split" THEN Sec!SplitAt(r, s, P, open.num, a)
                               ELSE Sec!BlocksAt(r, s, P, open.num, a)
    BY <1>1, <1>3, <1>4, <2>1 DEF SpansInv
  <2>3. Planned(P)'
    BY <1>3, <2>2, PlannedSame
  <2>4. /\ Len(s) \in Nat /\ a \in 1..Len(s)
        /\ job.op = "split" \/ open = NoLine => s[a] \notin r.opens
        /\ job.op # "split" /\ open # NoLine => s[a] \notin r.closes
    BY <1>1, <1>3, <2>1, Answered
  <2>5. CASE job.op = "split"
    BY <2>2, <2>3, <2>4, <2>5, Sec!SplitPass
  <2>6. CASE job.op # "split"
    <3>1. r.op = "blocks" /\ r.bare \in BOOLEAN
      BY <1>3, <2>1, <2>6 DEF Asks, ScanInv, ScannerTypes, Job, Op
    <3>2. /\ open = NoLine <=> open.num = 0
          /\ Sec!BlocksAt(r, s, P, open.num, a)
      BY <1>1, <2>2, <2>6, OpenNumber
    <3>3. CASE open = NoLine
      <4>1. Sec!BlocksAt(r, s, P, 0, a) /\ s[a] \notin r.opens
        BY <2>4, <3>2, <3>3
      <4>2. Sec!BlocksAt(r, s, P, 0, a + 1)
        BY <2>4, <3>1, <4>1, Sec!BlocksOutside
      <4>3. QED
        BY <2>3, <2>6, <3>2, <3>3, <4>2
    <3>4. CASE open # NoLine
      <4>1. s[a] \notin r.closes /\ open.num # 0
        BY <2>4, <2>6, <3>2, <3>4
      <4>2. Sec!BlocksAt(r, s, P, open.num, a + 1)
        BY <2>4, <3>1, <3>2, <4>1, Sec!BlocksInside
      <4>3. QED
        BY <2>3, <2>6, <4>2
    <3>5. QED
      BY <3>3, <3>4
  <2>7. QED
    BY <2>5, <2>6
<1>7. RangeInv'
  BY <1>3 DEF RangeInv
<1>8. outcome' = "none"
  BY <1>3 DEF ScanInv, LineInv
<1>9. QED
  BY <1>2, <1>5, <1>6, <1>7, <1>8 DEF PartsInv

(* The start of a block.                                                   *)
LEMMA StartParts ==
  ASSUME ScanInv, ScanInv', MatchInv, RecordInv, PartsInv, pc = "record", StartBlock,
         UNCHANGED <<job, handed, line>>
  PROVE  PartsInv'
<1> DEFINE a == Len(handed)
<1>1. LinesInv /\ KeptInv /\ SpansInv
  BY DEF PartsInv
<1>2. LinesInv'
  BY <1>1, LinesKept DEF Handing
<1>3. /\ job.op = "blocks" /\ answer /\ open = NoLine /\ UNCHANGED <<found, sections, outcome>>
      /\ pc' = "leave" /\ open' = line /\ inner' = << >>
  BY DEF StartBlock, Goto
<1>4. Looked' = a + 1 /\ Looked = a /\ a \in Nat \ {0} /\ line = handed[a] /\ line.num = a
  BY <1>1, <1>3, AfterRecord, AtRecord
<1>5. KeptInv'
  <2>1. Len(<< >>) = 0 /\ a + 1 - 1 - a = 0 /\ a \in 1..(a + 1 - 1)
    BY <1>4
  <2> HIDE DEF a
  <2>2. QED
    BY <1>3, <1>4, <2>1 DEF KeptInv
<1>6. SpansInv'
  <2> SUFFICES ASSUME NEW r, NEW s, Asks(r, s)'
               PROVE  \E P : Planned(P)' /\ Sec!BlocksAt(r, s, P, a, a + 1)
    BY <1>3, <1>4 DEF SpansInv
  <2>1. Asks(r, s)
    BY AsksLonger, SameLines
  <2>2. PICK P : Planned(P) /\ Sec!BlocksAt(r, s, P, open.num, a)
    BY <1>1, <1>3, <1>4, <2>1 DEF SpansInv
  <2>3. Planned(P)'
    BY <1>3, <2>2, PlannedSame
  <2>4. Len(s) \in Nat /\ a \in 1..Len(s) /\ s[a] \in r.opens
    BY <1>1, <1>3, <2>1, Answered
  <2>5. r.op = "blocks" /\ r.bare \in BOOLEAN
    BY <1>3, <2>1 DEF Asks, ScanInv, ScannerTypes, Job
  <2>6. Sec!BlocksAt(r, s, P, 0, a)
    BY <1>3, <2>2 DEF NoLine
  <2>7. Sec!BlocksAt(r, s, P, a, a + 1)
    BY <2>4, <2>5, <2>6, Sec!BlocksOpen
  <2>8. QED
    BY <2>3, <2>7
<1>7. RangeInv'
  BY <1>3 DEF RangeInv
<1>8. outcome' = "none"
  BY <1>3 DEF ScanInv, LineInv
<1>9. QED
  BY <1>2, <1>5, <1>6, <1>7, <1>8 DEF PartsInv

(* A block that closes is the next section, from its first line to its     *)
(* last.                                                                   *)
LEMMA BlockCloses ==
  ASSUME ScanInv, RecordInv, LinesInv, KeptInv, job.op = "blocks", UNCHANGED <<job, handed>>,
         pc = "record", open # NoLine, inner # << >>,
         IF job.bare THEN Plan(inner[1].start, Last(inner).end) ELSE Plan(open.start, line.end),
         NEW r, NEW s, Asks(r, s), Len(handed) \in 1..Len(s), s[Len(handed)] \in r.closes,
         NEW P, Planned(P), Sec!BlocksAt(r, s, P, open.num, Len(handed))
  PROVE  \E Q : Planned(Q)' /\ Sec!BlocksAt(r, s, Q, 0, Len(handed) + 1)
<1>0. PICK a \in Nat \ {0} : a = Len(handed)
  BY AtRecord
<1>1. /\ r.op = "blocks" /\ r.bare = job.bare /\ r.bare \in BOOLEAN /\ Len(s) \in Nat
      /\ P \in Seq(Place) /\ Len(P) \in Nat
  BY LenProperties DEF Asks, Planned, ScanInv, ScannerTypes, Job
<1>2. PICK o \in Nat : o = open.num /\ o \in 1..(a - 1) /\ open = handed[o] /\ Len(inner) = a - 1 - o
  BY <1>0, AtRecord DEF KeptInv
<1>3. \A j \in 1..Len(inner) : inner[j] = handed[o + j]
  BY <1>2 DEF KeptInv
<1>4. inner \in Seq(Line) /\ Len(inner) \in Nat /\ Len(inner) # 0
  BY LenProperties, EmptySeq DEF RecordInv
<1>5. inner[1] = handed[o + 1] /\ Last(inner) = handed[a - 1]
  <2>1. PICK m \in Nat : m = Len(inner) /\ m # 0
    BY <1>4
  <2>3. o + m = a - 1 /\ 1 \in 1..m /\ m \in 1..m
    <3>1. m = a - 1 - o
      BY <1>2, <2>1
    <3>2. QED
      BY <1>0, <1>2, <2>1, <3>1
  <2>2. QED
    BY <1>3, <2>1, <2>3 DEF Last
<1>6. a # o + 1 /\ o + 1 <= a - 1
  BY <1>2, <1>4
<1>7. PICK q \in Place : q.from = (IF r.bare THEN o + 1 ELSE o) /\ q.to = (IF r.bare THEN a - 1 ELSE a)
  <2>1. [from |-> IF r.bare THEN o + 1 ELSE o, to |-> IF r.bare THEN a - 1 ELSE a] \in Place
    BY <1>2, <1>6 DEF Place
  <2>2. QED
    BY <2>1
<1>8. q.from \in 1..Len(handed) /\ q.to \in 1..Len(handed)
  <2>1. PICK n \in Nat : n = Len(handed) /\ n = a
    BY <1>0
  <2>3. 1 <= o /\ o <= a - 1 /\ o + 1 <= a - 1
    BY <1>0, <1>2, <1>6
  <2>4. \A x \in {o, o + 1, a - 1, a} : x \in 1..n
    BY <2>1, <2>3
  <2>2. q.from \in 1..n /\ q.to \in 1..n
    BY <1>7, <2>4
  <2>5. QED
    BY <2>1, <2>2
<1>9. Plan(handed[q.from].start, handed[q.to].end)
  <2>1. CASE r.bare
    BY <1>1, <1>5, <1>7, <2>1
  <2>2. CASE ~r.bare
    BY <1>0, <1>1, <1>2, <1>7, <2>2, AtRecord
  <2>3. QED
    BY <2>1, <2>2
<1> DEFINE Q == Append(P, q)
<1>10. Planned(Q)' /\ Sec!Extends(P, q, Q)
  BY <1>1, <1>8, <1>9, PlannedGrows, ExtendsBy
<1> HIDE DEF Q
<1>11. a \in 1..Len(s) /\ s[a] \in r.closes /\ Sec!BlocksAt(r, s, P, o, a) /\ o # 0
  BY <1>0, <1>2
<1>12. Sec!NextPart(r, s, P, q, a + 1) /\ ~Sec!InBlock(r, s)[a + 1]
  BY <1>1, <1>6, <1>7, <1>11, Sec!BlocksNext
<1>13. Sec!Follow(r, s, P, o)
  BY <1>11 DEF Sec!BlocksAt
<1>14. a + 1 \in Nat /\ o <= a + 1 /\ a + 1 \in 1..(Len(s) + 1)
  BY <1>0, <1>1, <1>2, <1>11
<1>15. Sec!Follow(r, s, Q, a + 1)
  BY <1>1, <1>10, <1>12, <1>13, <1>14, Sec!FollowAppend
<1>16. Sec!BlocksAt(r, s, Q, 0, a + 1)
  BY <1>12, <1>14, <1>15 DEF Sec!BlocksAt
<1>17. QED
  BY <1>0, <1>10, <1>16

(* The end of a block.                                                     *)
LEMMA CloseParts ==
  ASSUME ScanInv, ScanInv', MatchInv, RecordInv, PartsInv, pc = "record", CloseBlock,
         UNCHANGED <<job, handed, line>>
  PROVE  PartsInv'
<1> DEFINE a == Len(handed)
<1>1. LinesInv /\ KeptInv /\ SpansInv
  BY DEF PartsInv
<1>2. LinesInv'
  BY <1>1, LinesKept DEF Handing
<1>3. /\ job.op = "blocks" /\ answer /\ open # NoLine /\ open' = NoLine
      /\ \/ pc' = "done" /\ outcome' = "maxFiles"
         \/ /\ pc' = "leave" /\ outcome' = outcome
            /\ \/ inner = << >> /\ UNCHANGED sections
               \/ /\ inner # << >>
                  /\ IF job.bare THEN Plan(inner[1].start, Last(inner).end) ELSE Plan(open.start, line.end)
  BY DEF CloseBlock, Goto, Finish
<1>4. CASE pc' = "done" /\ outcome' = "maxFiles"
  BY <1>2, <1>4 DEF PartsInv
<1>5. CASE pc' = "leave" /\ outcome' = outcome
  <2>1. Looked' = a + 1 /\ Looked = a /\ a \in Nat \ {0} /\ line = handed[a] /\ line.num = a
    BY <1>1, <1>5, AfterRecord, AtRecord
  <2>2. KeptInv'
    BY <1>3 DEF KeptInv
  <2>3. SpansInv'
    <3> SUFFICES ASSUME NEW r, NEW s, Asks(r, s)'
                 PROVE  \E P : Planned(P)' /\ Sec!BlocksAt(r, s, P, 0, a + 1)
      BY <1>3, <2>1 DEF SpansInv, NoLine
    <3>1. Asks(r, s)
      BY AsksLonger, SameLines
    <3>2. PICK P : Planned(P) /\ Sec!BlocksAt(r, s, P, open.num, a)
      BY <1>1, <1>3, <2>1, <3>1 DEF SpansInv
    <3>3. Len(s) \in Nat /\ a \in 1..Len(s) /\ s[a] \in r.closes
      BY <1>1, <1>3, <3>1, Answered
    <3>4. CASE inner = << >> /\ UNCHANGED sections
      <4>1. Planned(P)'
        BY <3>2, <3>4, PlannedSame
      <4>2. r.op = "blocks" /\ r.bare \in BOOLEAN
        BY <1>3, <3>1 DEF Asks, ScanInv, ScannerTypes, Job
      <4>3. PICK o \in Nat : o = open.num /\ o # 0 /\ a = o + 1
        <5>1. Len(inner) = 0
          BY <3>4
        <5>2. QED
          BY <1>1, <1>3, <2>1, <5>1, OpenNumber
      <4>4. Sec!BlocksAt(r, s, P, o, a)
        BY <3>2, <4>3
      <4>5. Sec!BlocksAt(r, s, P, 0, a + 1)
        BY <3>3, <4>2, <4>3, <4>4, Sec!BlocksEmpty
      <4>6. QED
        BY <4>1, <4>5
    <3>5. CASE inner # << >> /\ IF job.bare THEN Plan(inner[1].start, Last(inner).end) ELSE Plan(open.start, line.end)
      BY <1>1, <1>3, <3>1, <3>2, <3>3, <3>5, BlockCloses
    <3>6. QED
      BY <1>3, <1>5, <3>4, <3>5
  <2>4. RangeInv'
    BY <1>3 DEF RangeInv
  <2>5. outcome' = "none"
    BY <1>5 DEF ScanInv, LineInv
  <2>6. QED
    BY <1>2, <2>2, <2>3, <2>4, <2>5 DEF PartsInv
<1>6. QED
  BY <1>3, <1>4, <1>5

(* A line, and whether it is in the range.                                 *)
LEMMA RangeParts ==
  ASSUME ScanInv, ScanInv', RecordInv, PartsInv, pc = "record", RangeLine,
         UNCHANGED <<job, handed, line>>
  PROVE  PartsInv'
<1>1. LinesInv /\ RangeInv /\ pc # "done"
  BY DEF PartsInv
<1>2. LinesInv'
  BY <1>1, LinesKept DEF Handing
<1>3. /\ job.op = "extract" /\ UNCHANGED <<open, inner>>
      /\ \/ pc' = "done" /\ outcome' = "enough"
         \/ pc' = "leave" /\ outcome' = outcome
  BY DEF RangeLine, Goto, Finish
<1>4. PICK a \in Nat \ {0} : /\ a = Len(handed) /\ Looked = a /\ Looked' = a + 1
                             /\ line = handed[a] /\ line.num = a
  BY <1>1, <1>3, AtRecord DEF Looked
<1>5. job \in Jobs
  BY DEF ScanInv, ScannerTypes
<1>6. /\ \/ /\ InRange(a)
            /\ found' = found + 1
            /\ sections' = <<[from |-> IF found = 0 THEN line.start ELSE sections[1].from,
                              to |-> line.end, name |-> << >>]>>
         \/ ~InRange(a) /\ UNCHANGED <<found, sections>>
  BY <1>4 DEF RangeLine, InRange
<1>7. \A i : InRange(i)' <=> InRange(i)
  BY DEF InRange
<1>8. /\ open = NoLine /\ found \in Nat
      /\ found = 0 => sections = << >> /\ \A i \in 1..(a - 1) : ~InRange(i)
      /\ found # 0 => \E p \in Place :
           /\ Len(sections) = 1
           /\ p.from \in 1..p.to /\ p.to \in 1..(a - 1)
           /\ SpanOf(1, p)
           /\ \A i \in 1..(a - 1) : InRange(i) <=> i \in p.from..p.to
  BY <1>1, <1>3, <1>4 DEF RangeInv
<1>9. /\ found' \in Nat
      /\ found' = 0 => sections' = << >> /\ \A i \in 1..a : ~InRange(i)
      /\ found' # 0 => \E p \in Place :
           /\ Len(sections') = 1
           /\ p.from \in 1..p.to /\ p.to \in 1..a
           /\ SpanOf(1, p)'
           /\ \A i \in 1..a : InRange(i) <=> i \in p.from..p.to
  <2>1. CASE ~InRange(a) /\ UNCHANGED <<found, sections>>
    <3>1. \A i \in 1..a : i = a \/ i \in 1..(a - 1)
      BY <1>4
    <3>2. CASE found = 0
      BY <1>8, <2>1, <3>1, <3>2
    <3>3. CASE found # 0
      <4>1. PICK p \in Place :
              /\ Len(sections) = 1
              /\ p.from \in 1..p.to /\ p.to \in 1..(a - 1)
              /\ SpanOf(1, p)
              /\ \A i \in 1..(a - 1) : InRange(i) <=> i \in p.from..p.to
        BY <1>8, <3>3
      <4>2. p.to \in 1..a /\ a \notin p.from..p.to
        BY <1>4, <4>1
      <4>3. \A i \in 1..a : InRange(i) <=> i \in p.from..p.to
        BY <2>1, <3>1, <4>1, <4>2
      <4>4. SpanOf(1, p)'
        BY <2>1, <4>1 DEF SpanOf
      <4>5. QED
        BY <1>8, <2>1, <3>3, <4>1, <4>2, <4>3, <4>4
    <3>4. QED
      BY <3>2, <3>3
  <2>2. CASE /\ InRange(a)
             /\ found' = found + 1
             /\ sections' = <<[from |-> IF found = 0 THEN line.start ELSE sections[1].from,
                               to |-> line.end, name |-> << >>]>>
    <3>1. /\ Len(sections') = 1 /\ found' \in Nat /\ found' # 0
          /\ sections'[1].from = (IF found = 0 THEN line.start ELSE sections[1].from)
          /\ sections'[1].to = line.end
      BY <1>8, <2>2
    <3>2. CASE found = 0
      <4>1. PICK p \in Place : p.from = a /\ p.to = a
        <5>1. [from |-> a, to |-> a] \in Place
          BY DEF Place
        <5>2. QED
          BY <5>1
      <4>2. p.from \in 1..p.to /\ p.to \in 1..a
        BY <1>4, <4>1
      <4>3. \A i \in 1..a : InRange(i) <=> i \in p.from..p.to
        <5>1. \A i \in 1..a : i = a \/ i \in 1..(a - 1)
          BY <1>4
        <5>2. \A i \in 1..(a - 1) : i \notin a..a
          BY <1>4
        <5>3. a \in a..a
          BY <1>4
        <5>4. QED
          BY <1>8, <2>2, <3>2, <4>1, <5>1, <5>2, <5>3
      <4>4. SpanOf(1, p)'
        BY <1>4, <3>1, <3>2, <4>1 DEF SpanOf
      <4>5. QED
        BY <3>1, <4>2, <4>3, <4>4
    <3>3. CASE found # 0
      <4>1. PICK p \in Place :
              /\ Len(sections) = 1
              /\ p.from \in 1..p.to /\ p.to \in 1..(a - 1)
              /\ SpanOf(1, p)
              /\ \A i \in 1..(a - 1) : InRange(i) <=> i \in p.from..p.to
        BY <1>8, <3>3
      <4>2. PICK x \in Nat, y \in Nat : x = p.from /\ y = p.to /\ 1 <= x /\ x <= y /\ y <= a - 1
        BY <4>1 DEF Place
      <4>3. y = a - 1
        <5>1. a - 1 \in 1..(a - 1) /\ x \in 1..(a - 1) /\ x \in x..y
          BY <1>4, <4>2
        <5>2. InRange(x)
          BY <4>1, <4>2, <5>1
        <5>3. /\ ParseCLIRange(job.lines).start \in Int
              /\ ParseCLIRange(job.lines).end \in Int
          BY <1>3, <1>5, <1>4, RangeWritten
        <5>4. InRange(a - 1)
          BY <1>4, <2>2, <4>2, <5>2, <5>3 DEF InRange
        <5>5. a - 1 \in x..y
          BY <4>1, <4>2, <5>1, <5>4
        <5>6. QED
          BY <1>4, <4>2, <5>5
      <4>4. PICK q \in Place : q.from = x /\ q.to = a
        <5>1. [from |-> x, to |-> a] \in Place
          BY DEF Place
        <5>2. QED
          BY <5>1
      <4>5. q.from \in 1..q.to /\ q.to \in 1..a
        BY <1>4, <4>2, <4>4
      <4>6. \A i \in 1..a : InRange(i) <=> i \in q.from..q.to
        <5>1. \A i \in 1..a : i = a \/ i \in 1..(a - 1)
          BY <1>4
        <5>2. \A i \in 1..(a - 1) : i \in x..a <=> i \in x..y
          BY <1>4, <4>2, <4>3
        <5>3. a \in x..a
          BY <1>4, <4>2
        <5>4. QED
          BY <2>2, <4>1, <4>2, <4>4, <5>1, <5>2, <5>3
      <4>7. SpanOf(1, q)'
        BY <1>4, <3>1, <3>3, <4>1, <4>2, <4>4 DEF SpanOf
      <4>8. QED
        BY <3>1, <4>5, <4>6, <4>7
    <3>4. QED
      BY <3>2, <3>3
  <2>3. QED
    BY <1>6, <2>1, <2>2
<1>10. RangeInv'
  <2>1. a + 1 - 1 = a
    BY <1>4
  <2>2. QED
    BY <1>3, <1>4, <1>7, <1>8, <1>9, <2>1 DEF RangeInv
<1>11. KeptInv' /\ SpansInv'
  BY <1>3, <1>8 DEF KeptInv, SpansInv
<1>12. outcome' # "ok"
  BY <1>3 DEF ScanInv, LineInv
<1>13. QED
  BY <1>2, <1>10, <1>11, <1>12 DEF PartsInv

(* Whatever is recorded.                                                   *)
LEMMA RecordParts ==
  ScanInv /\ ScanInv' /\ MatchInv /\ RecordInv /\ PartsInv /\ Record => PartsInv'
<1> SUFFICES ASSUME ScanInv, ScanInv', MatchInv, RecordInv, PartsInv, Record PROVE PartsInv'
  OBVIOUS
<1>1. UNCHANGED <<job, handed, line>> /\ pc = "record"
  BY DEF Record, CallbackOnly
<1>2. CASE Finish("cancelled") /\ UNCHANGED <<pos, recordVars>>
  BY <1>1, <1>2, QuietParts DEF Finish, recordVars
<1>3. QED
  BY <1>1, <1>2, SplitParts, InnerParts, StartParts, CloseParts, RangeParts DEF Record

(* The last section of split, and a source that has no block open.         *)
LEMMA FinishParts ==
  ScanInv /\ ScanInv' /\ RecordInv /\ PartsInv /\ FinishCall => PartsInv'
<1> SUFFICES ASSUME ScanInv, ScanInv', RecordInv, PartsInv, FinishCall PROVE PartsInv'
  OBVIOUS
<1>1. UNCHANGED <<job, handed, line, open, inner, found>> /\ pc = "finish" /\ pc' = "done"
  BY DEF FinishCall, CallbackOnly, FinishSplit, FinishBlocks, FinishExtract, Finish
<1>2. LinesInv /\ KeptInv /\ SpansInv /\ RangeInv
  BY <1>1 DEF PartsInv
<1>3. LinesInv'
  BY <1>1, <1>2, LinesKept DEF Handing
<1>4. CASE outcome' \notin {"ok", "enough"}
  BY <1>1, <1>3, <1>4 DEF PartsInv
<1>5. CASE outcome' \in {"ok", "enough"}
  <2>1. \/ job.op = "split" /\ open # NoLine /\ CloseSection(Len(source))
        \/ job.op = "blocks" /\ open = NoLine /\ UNCHANGED sections
        \/ job.op = "extract" /\ UNCHANGED sections
    BY <1>5 DEF FinishCall, FinishSplit, FinishBlocks, FinishExtract, Finish
  <2>2. Looked = Len(handed) + 1 /\ Looked' = Looked /\ Longer
    BY <1>1, SameLines DEF Looked
  <2>3. CASE job.op = "extract" /\ UNCHANGED sections
    <3>1. RangeInv'
      BY <1>1, <1>2, <2>2, <2>3, LookedIs, RangeLonger
    <3>2. EndInv'
      BY <1>1, <2>3 DEF EndInv
    <3>3. QED
      BY <1>1, <1>3, <3>1, <3>2 DEF PartsInv
  <2>4. CASE job.op # "extract"
    <3>1. RangeInv'
      BY <1>1, <2>4 DEF RangeInv
    <3>2. EndInv'
      <4> SUFFICES ASSUME NEW r, NEW s, Asks(r, s)', Len(s) = Len(handed)
                   PROVE  \E P : Planned(P)' /\ Sec!Follow(r, s, P, Len(s) + 1)
        BY <1>1 DEF EndInv
      <4>1. Asks(r, s)
        BY <2>2, AsksLonger
      <4>2. PICK P : Planned(P) /\ IF job.op = "split" THEN Sec!SplitAt(r, s, P, open.num, Looked)
                                   ELSE Sec!BlocksAt(r, s, P, open.num, Looked)
        BY <1>2, <2>4, <4>1 DEF SpansInv
      <4>3. CASE job.op = "split"
        <5>1. Pending(Len(source)) /\ CloseSection(Len(source))
          BY <1>1, <2>1, <4>3 DEF Pending
        <5>2. PICK Q : Planned(Q)' /\ Sec!Follow(r, s, Q, Looked)
          BY <1>1, <1>2, <4>1, <4>2, <4>3, <5>1, SplitCloses
        <5>3. QED
          BY <2>2, <5>2
      <4>4. CASE job.op # "split"
        <5>1. open = NoLine /\ UNCHANGED sections
          BY <2>1, <2>4, <4>4
        <5>2. Planned(P)'
          BY <1>1, <4>2, <5>1, PlannedSame
        <5>3. Sec!Follow(r, s, P, Looked)
          BY <4>2, <4>4, <5>1 DEF Sec!BlocksAt, NoLine
        <5>4. QED
          BY <2>2, <5>2, <5>3
      <4>5. QED
        BY <4>3, <4>4
    <3>3. QED
      BY <1>1, <1>3, <3>1, <3>2 DEF PartsInv
  <2>5. QED
    BY <2>1, <2>3, <2>4
<1>6. QED
  BY <1>4, <1>5

(* What has been planned is what the request asks of the lines.            *)
LEMMA PartsInvariant == Spec => []PartsInv
<1>1. ScanInv /\ ScanInv' /\ MatchInv /\ RecordInv /\ PartsInv /\ [Next]_vars => PartsInv'
  BY ScannerParts, OtherParts, RecordParts, FinishParts DEF Next, Scanner, Done
<1>2. QED
  BY <1>1, InitParts, ScanInvariant, MatchInvariant, RecordInvariant, PTL DEF Spec

(* Only extract stops a scan because it has enough.                        *)
EnoughInv == outcome = "enough" => job.op = "extract"

LEMMA EnoughInvariant == Spec => []EnoughInv
<1>1. Init => EnoughInv
  BY DEF Init, EnoughInv
<1>2. ASSUME EnoughInv, [Next]_vars PROVE EnoughInv'
  <2> SUFFICES ASSUME outcome' = "enough" PROVE job' = job /\ (outcome = "enough" \/ job.op = "extract")
    BY <1>2 DEF EnoughInv
  <2>1. CASE Check \/ Dispatch \/ Second \/ EndOfStream \/ Refill \/ Final
    BY <2>1 DEF Check, Dispatch, Second, EndOfStream, Refill, Final, ScannerOnly, Unless, Goto,
                Finish, Pass, Emit
  <2>2. CASE Visit \/ ReadContent \/ Decide \/ Leave \/ CallbackFails \/ Cancel \/ UNCHANGED vars
    BY <2>2 DEF Visit, ReadContent, Decide, Leave, CallbackFails, Cancel, CallbackOnly, Unless,
                Goto, Finish, vars
  <2>3. CASE Record
    BY <2>3 DEF Record, SplitDelimiter, InnerLine, StartBlock, CloseBlock, RangeLine, CallbackOnly,
                Goto, Finish
  <2>4. CASE FinishCall
    BY <2>4 DEF FinishCall, FinishSplit, FinishBlocks, FinishExtract, CallbackOnly, Finish
  <2>5. QED
    BY <1>2, <2>1, <2>2, <2>3, <2>4 DEF Next, Scanner, Done
<1>3. QED
  BY <1>1, <1>2, PTL DEF Spec

(* The lines handed over, as cells, and what is asked of them.             *)
Cells == [i \in DOMAIN handed |-> Serialized(source, handed[i])]

Asked ==
  [op |-> job.op, opens |-> Matching(job.opens), bare |-> job.bare,
   closes |-> IF job.op = "extract" THEN Range(Cells) ELSE Matching(job.closes),
   first |-> Written(1), last |-> Written(Len(job.lines))]

(* A cell for each line.                                                   *)
LEMMA CellsTyped ==
  ASSUME ScanInv, LinesInv
  PROVE  /\ Cells \in Seq(Seq(Byte)) /\ Len(Cells) = Len(handed) /\ Len(Cells) \in Nat
         /\ Cells = [i \in 1..Len(handed) |-> Serialized(source, handed[i])]
         /\ \A i \in 1..Len(handed) : Cells[i] = Serialized(source, handed[i])
<1>1. handed \in Seq(Line) /\ source \in Seq(Byte) /\ Len(handed) \in Nat /\ Len(source) \in Nat
  BY LenProperties DEF ScanInv, ScannerTypes, Job, source
<1>2. DOMAIN handed = 1..Len(handed)
  BY <1>1
<1>3. ASSUME NEW i \in 1..Len(handed) PROVE Serialized(source, handed[i]) \in Seq(Byte)
  <2>1. PICK l \in Line : l = handed[i] /\ IsLine(source, l)
    BY <1>1 DEF LinesInv
  <2>2. /\ l.start \in Nat /\ l.end \in Nat /\ l.start <= l.end /\ l.end <= Len(source)
    BY <1>1, <2>1 DEF Line, Offset, IsLine
  <2>3. QED
    BY <1>1, <2>1, <2>2, BytesProperties DEF Serialized
<1>4. QED
  BY <1>1, <1>2, <1>3 DEF Cells

(* A line is in the set of the lines that match, when it matches.          *)
LEMMA MatchingIs ==
  ASSUME ScanInv, LinesInv, NEW p, NEW i \in 1..Len(handed)
  PROVE  Cells[i] \in Matching(p) <=> Matches(p, Text(handed[i]))
<1>1. handed \in Seq(Line) /\ source \in Seq(Byte)
  BY DEF ScanInv, ScannerTypes, Job, source
<1>2. Cells[i] = Serialized(source, handed[i])
  BY CellsTyped
<1>3. Range(handed) = {handed[j] : j \in 1..Len(handed)}
  BY <1>1 DEF Range
<1>4. ASSUME Cells[i] \in Matching(p) PROVE Matches(p, Text(handed[i]))
  <2>1. PICK j \in 1..Len(handed) : /\ Matches(p, Text(handed[j]))
                                    /\ Cells[i] = Serialized(source, handed[j])
    BY <1>3, <1>4 DEF Matching
  <2>2. Content(source, handed[i]) = Content(source, handed[j])
    <3>1. PICK l \in Line, m \in Line, s \in Seq(Byte) : l = handed[i] /\ m = handed[j] /\ s = source
      BY <1>1
    <3>2. IsLine(s, l) /\ IsLine(s, m) /\ Serialized(s, l) = Serialized(s, m)
      BY <1>2, <2>1, <3>1 DEF LinesInv
    <3>3. Content(s, l) = Content(s, m)
      BY <3>2, SameText
    <3>4. QED
      BY <3>1, <3>3
  <2>3. QED
    BY <2>1, <2>2 DEF Text
<1>5. QED
  BY <1>2, <1>3, <1>4 DEF Matching

(* The request asks of the cells what the job asks of the lines.           *)
LEMMA AskedOfCells ==
  ASSUME ScanInv, LinesInv, job.op # "extract"
  PROVE  Asks(Asked, Cells)
<1>1. /\ Asked.op = job.op /\ Asked.bare = job.bare
      /\ Asked.opens = Matching(job.opens) /\ Asked.closes = Matching(job.closes)
  BY DEF Asked
<1> HIDE DEF Asked
<1>2. QED
  BY <1>1, CellsTyped, MatchingIs DEF Asks

(* Each cell is a line of its own.                                         *)
LEMMA LineIs ==
  ASSUME ScanInv, LinesInv, job.op = "extract", NEW i \in 1..Len(handed)
  PROVE  Sec!LineOf(Asked, Cells, i) = i
<1>1. Asked.closes = Range(Cells)
  BY DEF Asked
<1>2. DOMAIN Cells = 1..Len(handed) /\ i \in Nat \ {0} /\ i <= Len(handed) /\ Len(handed) \in Nat
  BY CellsTyped
<1>3. \A j \in 1..(i - 1) : Cells[j] \in Range(Cells)
  BY <1>2 DEF Range
<1>4. {j \in 1..(i - 1) : Cells[j] \in Asked.closes} = 1..(i - 1)
  BY <1>1, <1>3
<1>5. 1 \in Int /\ i - 1 \in Int
  BY <1>2
<1>6. Cardinality(1..(i - 1)) = IF 1 > i - 1 THEN 0 ELSE (i - 1) - 1 + 1
  BY <1>5, FS_Interval
<1>7. Sec!Cardinality(1..(i - 1)) = i - 1
  BY <1>2, <1>6 DEF Sec!Cardinality, Cardinality
<1>8. Sec!LineOf(Asked, Cells, i)
        = 1 + Sec!Cardinality({j \in 1..(i - 1) : Cells[j] \in Asked.closes})
  BY DEF Sec!LineOf
<1>9. Sec!LineOf(Asked, Cells, i) = 1 + (i - 1)
  BY <1>4, <1>7, <1>8
<1>10. QED
  BY <1>2, <1>9

(* What extract planned follows the lines.                                 *)
LEMMA RangeFollows ==
  ASSUME ScanInv, RecordInv, LinesInv, RangeInv, job.op = "extract", pc = "done"
  PROVE  \E P : Planned(P) /\ Sec!Follow(Asked, Cells, P, Len(Cells) + 1)
<1> DEFINE n == Len(handed)
<1>1. n \in Nat /\ Looked - 1 = n /\ Len(Cells) = n
  BY CellsTyped DEF Looked
<1>2. Asked.op = "extract" /\ Asked.first = Written(1) /\ Asked.last = Written(Len(job.lines))
  BY DEF Asked
<1>3. job \in Jobs
  BY DEF ScanInv, ScannerTypes
<1>4. ASSUME NEW i \in 1..n
      PROVE  /\ Sec!InOutput(Asked, Cells, i) <=> InRange(i)
             /\ Sec!PartOf(Asked, Cells, i) = 1
  <2>1. InRange(i) <=> Takes(Written(1), Written(Len(job.lines)), i)
    BY <1>1, <1>3, RangeWritten
  <2>2. Sec!LineOf(Asked, Cells, i) = i
    BY LineIs
  <2>3. Sec!PartOf(Asked, Cells, i) = 1
    BY <1>2 DEF Sec!PartOf
  <2>4. Sec!InOutput(Asked, Cells, i) <=>
          Asked.first <= Sec!LineOf(Asked, Cells, i)
          /\ (Asked.last # 0 => Sec!LineOf(Asked, Cells, i) <= Asked.last)
    BY <1>2 DEF Sec!InOutput
  <2>5. QED
    BY <1>2, <2>1, <2>2, <2>3, <2>4 DEF Takes
<1> HIDE DEF n
<1>5. (n + 1) - 1 = n
  BY <1>1
<1>6. CASE found = 0
  <2>1. sections = << >> /\ \A i \in 1..n : ~InRange(i)
    BY <1>1, <1>6 DEF RangeInv
  <2>2. Planned(<< >>)
    BY <2>1, EmptySeq DEF Planned
  <2>3. Sec!Follow(Asked, Cells, << >>, n + 1)
    BY <1>4, <1>5, <2>1 DEF Sec!Follow
  <2>4. QED
    BY <1>1, <2>2, <2>3
<1>7. CASE found # 0
  <2>1. PICK p \in Place :
          /\ Len(sections) = 1
          /\ p.from \in 1..p.to /\ p.to \in 1..n
          /\ SpanOf(1, p)
          /\ \A i \in 1..n : InRange(i) <=> i \in p.from..p.to
    BY <1>1, <1>7 DEF RangeInv
  <2>2. PICK x \in Nat, y \in Nat : x = p.from /\ y = p.to /\ 1 <= x /\ x <= y /\ y <= n
    BY <1>1, <2>1 DEF Place
  <2>3. PICK P : P \in Seq(Place) /\ Len(P) = 1 /\ P[1] = p
    <3>1. <<p>> \in Seq(Place) /\ Len(<<p>>) = 1 /\ <<p>>[1] = p
      BY <2>1
    <3>2. QED
      BY <3>1
  <2>4. \A k \in 1..Len(P) : k = 1
    BY <2>3
  <2>5. Planned(P)
    <3>1. p.from \in 1..n /\ p.to \in 1..n
      BY <1>1, <2>2
    <3>2. QED
      BY <2>1, <2>3, <2>4, <3>1 DEF Planned, n
  <2>6. Sec!IsPart(Asked, Cells, p)
    <3>1. \A i \in x..y : i \in 1..n
      BY <1>1, <2>2
    <3>2. \A i \in x..y : Sec!InOutput(Asked, Cells, i) /\ Sec!PartOf(Asked, Cells, i) = 1
      BY <1>4, <2>1, <2>2, <3>1
    <3>3. x \in x..y
      BY <2>2
    <3>4. p.from \in Nat \ {0} /\ p.to \in Nat /\ p.from <= p.to /\ p.to <= n
      BY <2>2
    <3>5. QED
      BY <1>1, <2>2, <3>2, <3>3, <3>4 DEF Sec!IsPart
  <2>7. p.to < n + 1
    BY <1>1, <2>2
  <2>8. Sec!Follow(Asked, Cells, P, n + 1)
    <3>1. \A i \in 1..((n + 1) - 1) : Sec!InOutput(Asked, Cells, i) => i \in P[1].from..P[1].to
      BY <1>4, <1>5, <2>1, <2>3
    <3>2. 1 \in 1..Len(P)
      BY <2>3
    <3>3. \A j, k \in 1..Len(P) : ~(j < k)
      BY <2>4
    <3>4. QED
      BY <2>3, <2>4, <2>6, <2>7, <3>1, <3>2, <3>3 DEF Sec!Follow
  <2>9. QED
    BY <1>1, <2>5, <2>8
<1>8. QED
  BY <1>6, <1>7

(* The sections of the lines are the bytes of the sections.                *)
LEMMA PlannedJoined ==
  ASSUME ScanInv, RecordInv, LinesInv, NEW P, Planned(P),
         \A k \in 1..Len(P) : P[k].from <= P[k].to,
         NEW k \in 1..Len(P)
  PROVE  FlattenSeq(SubSeq(Cells, P[k].from, P[k].to)) = Bytes(source, sections[k].from, sections[k].to)
<1>1. handed \in Seq(Line) /\ source \in Seq(Byte) /\ Len(handed) \in Nat
  BY LenProperties DEF ScanInv, ScannerTypes, Job, source
<1>2. /\ P[k].from \in 1..Len(handed) /\ P[k].to \in 1..Len(handed) /\ SpanOf(k, P[k])
  BY DEF Planned
<1>3. P[k].to \in P[k].from..Len(handed)
  BY <1>1, <1>2
<1>4. /\ \A i \in 1..Len(handed) : IsLine(source, handed[i])
      /\ \A i \in 1..(Len(handed) - 1) : handed[i + 1].start = handed[i].end
  BY DEF LinesInv
<1>5. FlattenSeq(SubSeq(Cells, P[k].from, P[k].to))
        = Bytes(source, handed[P[k].from].start, handed[P[k].to].end)
  <2>1. PICK x \in 1..Len(handed) : x = P[k].from
    BY <1>2
  <2>2. PICK y \in x..Len(handed) : y = P[k].to
    BY <1>3, <2>1
  <2>3. PICK s \in Seq(Byte), lines \in Seq(Line), T \in Seq(Seq(Byte)) :
          s = source /\ lines = handed /\ T = Cells
    BY <1>1, CellsTyped
  <2>4. T = Texts(s, lines)
    BY <2>3, CellsTyped DEF Texts
  <2>5. Adjoin(s, lines)
    BY <1>4, <2>3 DEF Adjoin
  <2>6. x \in 1..Len(lines) /\ y \in x..Len(lines)
    BY <2>1, <2>2, <2>3
  <2>7. FlattenSeq(SubSeq(T, x, y)) = Bytes(s, lines[x].start, lines[y].end)
    BY <2>4, <2>5, <2>6, LinesJoined
  <2>8. QED
    BY <2>1, <2>2, <2>3, <2>7
<1>6. QED
  BY <1>2, <1>5 DEF SpanOf

(* A scan that succeeds has planned the parts of the source that the       *)
(* request asks for, to the byte: what pushSection, closeBlock and         *)
(* spanPlanScan.onLine have planned, line by line, is what is asked of the *)
(* whole.                                                                  *)
THEOREM PlannedAsAsked == Spec => []SectionsAreTheParts
<1>1. ASSUME ScanInv, RecordInv, PartsInv, EnoughInv PROVE SectionsAreTheParts
  <2> SUFFICES ASSUME outcome \in {"ok", "enough"}
               PROVE  [k \in DOMAIN sections |-> Bytes(source, sections[k].from, sections[k].to)]
                        = PartsOfSource
    BY DEF SectionsAreTheParts
  <2>1. pc = "done" /\ LinesInv /\ RangeInv
    BY <1>1 DEF ScanInv, LineInv, PartsInv
  <2>2. Cells \in Seq(Seq(Byte)) /\ Len(Cells) = Len(handed) /\ Len(Cells) \in Nat
    BY <1>1, <2>1, CellsTyped
  <2>3. Asked.op = job.op /\ job.op \in Op
    BY <1>1 DEF Asked, ScanInv, ScannerTypes, Job
  <2>4. PICK P : Planned(P) /\ Sec!Follow(Asked, Cells, P, Len(Cells) + 1)
    <3>1. CASE job.op = "extract"
      BY <1>1, <2>1, <3>1, RangeFollows
    <3>2. CASE job.op # "extract"
      BY <1>1, <2>1, <2>2, <3>2, AskedOfCells DEF EnoughInv, PartsInv, EndInv
    <3>3. QED
      BY <3>1, <3>2
  <2>5. P \in Seq(Place) /\ Len(P) \in Nat /\ Len(P) = Len(sections)
    BY <2>4, LenProperties DEF Planned
  <2>6. Sec!Sections(Asked, Cells) = Sec!SectionsOf(Cells, P)
    BY <2>2, <2>3, <2>4, <2>5, Sec!FollowSections DEF Op, Sec!Command
  <2>7. \A k \in 1..Len(P) : P[k].from <= P[k].to
    BY <2>4 DEF Sec!Follow, Sec!IsPart
  <2>8. PartsOfSource = [k \in DOMAIN Parts!Sections(Asked, Cells) |->
                           FlattenSeq(Parts!Sections(Asked, Cells)[k])]
    BY DEF PartsOfSource, Asked, Cells
  <2>9. Parts!Sections(Asked, Cells) = [k \in 1..Len(P) |-> SubSeq(Cells, P[k].from, P[k].to)]
    BY <2>6, SameParts DEF Sec!SectionsOf
  <2>10. \A k \in 1..Len(P) : FlattenSeq(SubSeq(Cells, P[k].from, P[k].to))
                                = Bytes(source, sections[k].from, sections[k].to)
    BY <1>1, <2>1, <2>4, <2>7, PlannedJoined
  <2>11. DOMAIN sections = 1..Len(P)
    BY <1>1, <2>5 DEF RecordInv
  <2>12. PartsOfSource = [k \in 1..Len(P) |-> FlattenSeq(SubSeq(Cells, P[k].from, P[k].to))]
    BY <2>8, <2>9
  <2>13. QED
    BY <2>10, <2>11, <2>12
<1>2. QED
  BY <1>1, ScanInvariant, RecordInvariant, PartsInvariant, EnoughInvariant, PTL
=============================================================================
