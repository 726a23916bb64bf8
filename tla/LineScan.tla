------------------------------- MODULE LineScan -------------------------------
(***************************************************************************)
(* ScanLineSpans and its three callers: the scans of split, of blocks and  *)
(* of extract (internal/fileops).  The scanner reads the source through a  *)
(* window, finds the ends of lines in it, and hands over each line to the  *)
(* caller, who matches, hashes and names on the handle the scanner reads   *)
(* from.  isolateMatchLineSpanOnSharedSeeker puts the handle back.         *)
(*                                                                         *)
(* The source does not change meanwhile: it is locked, and SpanOutputs     *)
(* shows what an editor does who ignores that.  A read may bring any       *)
(* number of bytes, fail, or bring none; the context of the call may be    *)
(* cancelled at any time.  The probes of the context that come on a        *)
(* cadence of lines and bytes lie between two that are made for each byte, *)
(* and are left out.                                                       *)
(***************************************************************************)
EXTENDS TextLines, OutputNames, LineRanges

CONSTANTS
  Jobs,        \* what is scanned for: the sources and the requests
  Chunks,      \* the sizes a window may start with
  GrownChunk,  \* the least size it has when it had to grow: 64K
  MatchChunk   \* how much a literal match reads at once: 32K

Op == {"split", "blocks", "extract"}

Job ==
  [source : Seq(Byte),
   op : Op,
   opens : Pattern,       \* --delimiter, or --start-line
   closes : Pattern,      \* --end-line
   bare : BOOLEAN,        \* --strip-delimiter, or no --include-delimiters
   naming : Strategy,
   max : Nat,             \* --max-files, 0 for no limit
   lines : LineRangeText] \* --lines

ASSUME JobsAssumption ==
  /\ Jobs \subseteq Job
  /\ \A job \in Jobs :
       /\ job.opens.text # << >>
       /\ job.closes.text # << >>
       /\ job.op = "extract" => ParseCLIRange(job.lines).valid

ASSUME ChunksAssumption ==
  /\ Chunks \subseteq Nat \ {0}
  /\ GrownChunk \in Nat
  /\ MatchChunk \in Nat \ {0}

Stage == {"check", "have", "second", "visit", "match", "record", "leave", "final",
          "finish", "done"}

(* "enough": a closed range is complete, and the caller stops the scan.    *)
Outcome == {"none", "ok", "enough", "cancelled", "readError", "maxFiles",
            "noMatch", "unclosed", "noBlocks"}

Section == [from : Offset, to : Offset, name : Seq(Byte \cup Int)]

NoLine == [num |-> 0, start |-> 0, stop |-> 0, end |-> 0]

VARIABLES
  job,
  pc,
  outcome,
  cancelled,  \* ctx.Err() is not nil
  pos,        \* where the handle is
  cap,        \* len(buf)
  base,       \* the offset of the window
  window,     \* buf[:fill]
  cursor,     \* the byte the scanner looks at
  lineBegin,
  eof,        \* streamEOF
  line,       \* the line that is handed over
  saved,      \* where the handle was when that began
  tail,       \* what the matcher has read and kept
  answer,     \* whether the line matches
  open,       \* the delimiter line of the pending section, or the start of the block
  inner,      \* the lines since then
  found,      \* closed blocks, or lines in range, so far
  sections,   \* the outputs planned so far
  handed      \* history: the lines handed over

windowVars == <<cap, base, window, eof>>

matchVars == <<saved, tail, answer>>

recordVars == <<open, inner, found, sections>>

vars == <<job, pc, outcome, cancelled, pos, windowVars, cursor, lineBegin,
          line, matchVars, recordVars, handed>>

LineScanTypeOK ==
  /\ job \in Jobs
  /\ pc \in Stage
  /\ outcome \in Outcome
  /\ cancelled \in BOOLEAN
  /\ pos \in Offset
  /\ cap \in Nat \ {0}
  /\ base \in Offset
  /\ window \in Seq(Byte)
  /\ cursor \in Offset
  /\ lineBegin \in Offset
  /\ eof \in BOOLEAN
  /\ line \in Line \cup {NoLine}
  /\ saved \in Offset
  /\ tail \in Seq(Byte)
  /\ answer \in BOOLEAN
  /\ open \in Line \cup {NoLine}
  /\ inner \in Seq(Line)
  /\ found \in Nat
  /\ sections \in Seq(Section)
  /\ handed \in Seq(Line)

Init ==
  /\ job \in Jobs
  /\ cap \in Chunks
  /\ pc = "check"
  /\ outcome = "none"
  /\ cancelled = FALSE
  /\ pos = 0
  /\ base = 0
  /\ window = << >>
  /\ cursor = 0
  /\ lineBegin = 0
  /\ eof = FALSE
  /\ line = NoLine
  /\ saved = 0
  /\ tail = << >>
  /\ answer = FALSE
  /\ open = NoLine
  /\ inner = << >>
  /\ found = 0
  /\ sections = << >>
  /\ handed = << >>

-----------------------------------------------------------------------------
source == job.source

Goto(stage) == pc' = stage /\ UNCHANGED outcome

Finish(result) == pc' = "done" /\ outcome' = result

(* Every look at the context goes on, or ends the scan.                    *)
Unless(stage) == IF cancelled THEN Finish("cancelled") ELSE Goto(stage)

Least(a, b) == IF a < b THEN a ELSE b

Most(a, b) == IF a < b THEN b ELSE a

WindowEnd == base + Len(window)

Has(offset) == offset < WindowEnd

At(offset) == window[offset - base + 1]

(* dropBufferedBeforeCursor                                                *)
DropBefore(offset) ==
  /\ base' = Most(base, offset)
  /\ window' = SubSeq(window, base' - base + 1, Len(window))

(* A byte that ends no line is passed.                                     *)
Pass ==
  /\ Goto("check")
  /\ cursor' = cursor + 1
  /\ DropBefore(cursor')
  /\ UNCHANGED <<line, handed>>

(* Mutant: the lines are counted from zero.                                *)
EmitFromZero(n) ==
  /\ line' = [num |-> Len(handed), start |-> lineBegin, stop |-> cursor, end |-> cursor + n]
  /\ handed' = Append(handed, line')
  /\ Goto("visit")
  /\ UNCHANGED <<cursor, base, window>>

(* emitTerminated, with a terminator of n bytes, and of none at the end.   *)
Emit(n) ==
  /\ line' = [num |-> Len(handed) + 1, start |-> lineBegin, stop |-> cursor, end |-> cursor + n]
  /\ handed' = Append(handed, line')
  /\ Goto("visit")
  /\ UNCHANGED <<cursor, base, window>>

ScannerOnly == UNCHANGED <<job, cancelled, lineBegin, matchVars, recordVars>>

(* run: one round of its loop begins.                                      *)
Check ==
  /\ pc = "check"
  /\ Unless("have")
  /\ UNCHANGED <<pos, windowVars, cursor, line, handed>>
  /\ ScannerOnly

(* haveByteAbs and dispatchByte                                            *)
Dispatch ==
  /\ pc = "have"
  /\ Has(cursor)
  /\ \/ At(cursor) \notin {CR, LF} /\ Pass
     \/ At(cursor) = LF /\ Emit(1)
     \/ At(cursor) = CR /\ Goto("second") /\ UNCHANGED <<cursor, base, window, line, handed>>
  /\ UNCHANGED <<pos, cap, eof>>
  /\ ScannerOnly

(* Mutant: a CR that ends the window ends the line.                        *)
SecondAtWindowEnd ==
  /\ pc = "second"
  /\ Emit(IF Has(cursor + 1) /\ At(cursor + 1) = LF THEN 2 ELSE 1)
  /\ UNCHANGED <<pos, cap, eof>>
  /\ ScannerOnly

(* Mutant: the end of the source does not end the wait for a second byte.  *)
SecondForever ==
  /\ pc = "second"
  /\ \/ Has(cursor + 1) /\ Emit(IF At(cursor + 1) = LF THEN 2 ELSE 1)
     \/ ~Has(cursor + 1) /\ eof /\ Goto("second") /\ UNCHANGED <<cursor, base, window, line, handed>>
  /\ UNCHANGED <<pos, cap, eof>>
  /\ ScannerOnly

(* handleCR, once ensureSecondByteForCRLF has the next byte or the end.    *)
Second ==
  /\ pc = "second"
  /\ \/ Has(cursor + 1) /\ Emit(IF At(cursor + 1) = LF THEN 2 ELSE 1)
     \/ ~Has(cursor + 1) /\ eof /\ Emit(1)
  /\ UNCHANGED <<pos, cap, eof>>
  /\ ScannerOnly

EndOfStream ==
  /\ pc = "have"
  /\ ~Has(cursor)
  /\ eof
  /\ Goto("final")
  /\ UNCHANGED <<pos, windowVars, cursor, line, handed>>
  /\ ScannerOnly

(* refillTail: a read brings some bytes, perhaps with the end of the       *)
(* source, or it fails; one that brings neither fails, too.                *)
Refill ==
  /\ \/ pc = "have" /\ ~Has(cursor)
     \/ pc = "second" /\ ~Has(cursor + 1)
  /\ ~eof
  /\ LET full == Len(window) >= cap
         begin == IF full THEN Most(base, cursor) ELSE base
         kept == SubSeq(window, begin - base + 1, Len(window))
         room == IF Len(kept) >= cap THEN Most(2 * cap, GrownChunk) ELSE cap
     IN \E n \in 0..Least(room - Len(kept), Len(source) - pos) :
          /\ cap' = room
          /\ base' = begin
          /\ window' = kept \o Bytes(source, pos, pos + n)
          /\ pos' = pos + n
          /\ \/ n > 0 /\ UNCHANGED <<pc, outcome, eof>>
             \/ pos' = Len(source) /\ eof' = TRUE /\ UNCHANGED <<pc, outcome>>
             \/ Finish("readError") /\ UNCHANGED eof
  /\ UNCHANGED <<cursor, line, handed>>
  /\ ScannerOnly

(* finalizeTrailing: the last line may have no end.                        *)
Final ==
  /\ pc = "final"
  /\ \/ cancelled /\ Finish("cancelled") /\ UNCHANGED <<cursor, base, window, line, handed>>
     \/ ~cancelled /\ cursor > lineBegin /\ Emit(0)
     \/ /\ ~cancelled
        /\ cursor <= lineBegin
        /\ Goto("finish")
        /\ UNCHANGED <<cursor, base, window, line, handed>>
  /\ UNCHANGED <<pos, cap, eof>>
  /\ ScannerOnly

-----------------------------------------------------------------------------
(* The callback.  split and blocks match the line.                         *)

CallbackOnly == UNCHANGED <<job, cancelled, windowVars, cursor, lineBegin, line, handed>>

Wanted == IF open = NoLine \/ job.op = "split" THEN job.opens ELSE job.closes

(* Blocks matches literals without the regexp engine.                      *)
AsLiteral == job.op = "blocks" /\ Wanted.kind # "tail"

(* An anchored literal of another length needs no read.                    *)
Unequal == AsLiteral /\ Wanted.kind = "exact" /\ Len(Wanted.text) # line.stop - line.start

(* seekLineSpanContent, once isolateMatchLineSpanOnSharedSeeker has noted  *)
(* where the handle is.                                                    *)
Visit ==
  /\ pc = "visit"
  /\ saved' = pos
  /\ tail' = << >>
  /\ answer' = FALSE
  /\ IF job.op = "extract"
     THEN Goto("record") /\ UNCHANGED pos
     ELSE /\ pos' = line.start
          /\ Unless(IF Unequal THEN "record" ELSE "match")
  /\ CallbackOnly
  /\ UNCHANGED recordVars

KnowsMatch == AsLiteral /\ Wanted.kind = "literal" /\ Wanted.text \in SubSeqs(tail)

(* Mutant: one byte too few is kept.                                       *)
KeepOverlapShort(bytes) ==
  LET overlap == Most(Len(Wanted.text) - 2, 0)
  IN IF Len(bytes) > overlap THEN SubSeq(bytes, Len(bytes) - overlap + 1, Len(bytes)) ELSE bytes

(* keepLiteralOverlap: what a match may begin with that the next read ends.*)
KeepOverlap(bytes) ==
  LET overlap == Len(Wanted.text) - 1
  IN IF Len(bytes) > overlap THEN SubSeq(bytes, Len(bytes) - overlap + 1, Len(bytes)) ELSE bytes

(* The matcher reads on, through a reader that ends where the content does.*)
(* appendLiteralWindow keeps an overlap; the engine remembers all, and an  *)
(* anchored literal is read at once.                                       *)
ReadContent ==
  /\ pc = "match"
  /\ pos < line.stop
  /\ ~KnowsMatch
  /\ \E n \in 1..(line.stop - pos) :
       /\ AsLiteral /\ Wanted.kind = "exact" => n = line.stop - pos
       /\ AsLiteral /\ Wanted.kind = "literal" => n <= MatchChunk
       /\ pos' = pos + n
       /\ LET bytes == tail \o Bytes(source, pos, pos + n)
          IN tail' = IF AsLiteral /\ Wanted.kind = "literal" /\ Wanted.text \notin SubSeqs(bytes)
                     THEN KeepOverlap(bytes)
                     ELSE bytes
  /\ UNCHANGED <<pc, outcome, saved, answer, recordVars>>
  /\ CallbackOnly

(* The engine takes any error of a read for the end of the line, and may   *)
(* have an answer that is of no use.                                       *)
Decided == pos = line.stop \/ KnowsMatch \/ (~AsLiteral /\ cancelled)

(* Mutant: the context is not looked at once more.                         *)
DecideAtOnce ==
  /\ pc = "match"
  /\ Decided
  /\ Goto("record")
  /\ answer' = Matches(Wanted, tail)
  /\ UNCHANGED <<pos, saved, tail, recordVars>>
  /\ CallbackOnly

Decide ==
  /\ pc = "match"
  /\ Decided
  /\ Unless("record")
  /\ answer' = IF cancelled THEN answer ELSE Matches(Wanted, tail)
  /\ UNCHANGED <<pos, saved, tail, recordVars>>
  /\ CallbackOnly

-----------------------------------------------------------------------------
(* What split and blocks make of the line.  The end of a section, or of a  *)
(* block with lines in it, is the time to hash it and to name it, and      *)
(* leaves the handle where the last of these reads ended.                  *)

TooMany(n) == job.max # 0 /\ n > job.max

Text(l) == Content(source, l)

(* The texts that a name is made of: of what comes before the first        *)
(* delimiter (preambleSplitOutputFilename), of a section, and of a block.  *)
PreambleText == IF job.naming = "content" THEN Prefix(Text(handed[1])) ELSE << >>

(* textForSeekableFromContentNaming: what follows the delimiter, or the    *)
(* first line, or the delimiter.                                           *)
SectionText ==
  LET end == open.start + MatchEnd(job.opens, Text(open))
      rest == Prefix(Bytes(source, end, open.stop))
  IN CASE job.naming = "sequential" -> << >>
       [] job.naming = "delimiter" -> Prefix(Text(open))
       [] job.naming = "content" ->
            IF ~job.bare /\ Range(rest) \ Space # {} THEN rest
            ELSE Prefix(Text(IF inner # << >> THEN inner[1] ELSE open))

BlockText ==
  CASE job.naming = "sequential" -> << >>
    [] job.naming = "delimiter" -> Prefix(Text(open))
    [] job.naming = "content" -> Prefix(Text(inner[1]))

NamingText ==
  IF job.op = "blocks" THEN BlockText ELSE IF open = NoLine THEN PreambleText ELSE SectionText

Names == {sections[k].name : k \in DOMAIN sections}

Name == DeduplicateFilename(GenerateFilename(job.naming, Len(sections) + 1, NamingText), Names)

(* pushSection, and the end of closeBlock.                                 *)
Plan(from, to) ==
  /\ sections' = Append(sections, [from |-> from, to |-> to, name |-> Name])
  /\ pos' \in 0..Len(source)

(* Mutant: what comes before the first delimiter is lost.                  *)
HasPendingSection(to) == open # NoLine /\ (~job.bare \/ inner # << >>)

(* Whether there is a section that ends at this offset: what comes before  *)
(* the first delimiter, or the pending one.                                *)
HasSection(to) == IF open = NoLine THEN to > 0 ELSE ~job.bare \/ inner # << >>

SectionStart == IF open = NoLine THEN 0 ELSE IF job.bare THEN open.end ELSE open.start

CloseSection(to) ==
  IF HasSection(to) THEN Plan(SectionStart, to) ELSE UNCHANGED <<sections, pos>>

(* Whether the line ends something that is hashed and named.               *)
Closes ==
  /\ answer
  /\ \/ job.op = "split" /\ HasSection(line.start)
     \/ job.op = "blocks" /\ open # NoLine /\ inner # << >> /\ ~TooMany(Len(sections) + 1)

(* observeDelimiterLine: a delimiter counts as an output there and then.   *)
SplitDelimiter ==
  /\ job.op = "split"
  /\ answer
  /\ CloseSection(line.start)
  /\ open' = line
  /\ inner' = << >>
  /\ IF TooMany(Len(sections') + 1) THEN Finish("maxFiles") ELSE Goto("leave")
  /\ UNCHANGED found

(* Lines between are kept: of them the code needs the first, the second,   *)
(* the last and how many there are.                                        *)
InnerLine ==
  /\ job.op # "extract"
  /\ ~answer
  /\ inner' = IF open = NoLine THEN inner ELSE Append(inner, line)
  /\ Goto("leave")
  /\ UNCHANGED <<pos, open, found, sections>>

StartBlock ==
  /\ job.op = "blocks"
  /\ answer
  /\ open = NoLine
  /\ open' = line
  /\ inner' = << >>
  /\ Goto("leave")
  /\ UNCHANGED <<pos, found, sections>>

(* closeBlock: a block with nothing in it is counted and dropped.          *)
CloseBlock ==
  /\ job.op = "blocks"
  /\ answer
  /\ open # NoLine
  /\ found' = found + 1
  /\ open' = NoLine
  /\ inner' = << >>
  /\ IF inner = << >> THEN Goto("leave") /\ UNCHANGED <<sections, pos>>
     ELSE IF TooMany(Len(sections) + 1) THEN Finish("maxFiles") /\ UNCHANGED <<sections, pos>>
     ELSE /\ Goto("leave")
          /\ IF job.bare THEN Plan(inner[1].start, Last(inner).end) ELSE Plan(open.start, line.end)

(* spanPlanScan.onLine; 0 is an open end.                                  *)
RangeLine ==
  LET wanted == ParseCLIRange(job.lines)
      inRange == line.num >= wanted.start /\ (wanted.end = 0 \/ line.num <= wanted.end)
  IN /\ job.op = "extract"
     /\ \/ /\ inRange
           /\ found' = found + 1
           /\ sections' = <<[from |-> IF found = 0 THEN line.start ELSE sections[1].from,
                             to |-> line.end, name |-> << >>]>>
        \/ ~inRange /\ UNCHANGED <<found, sections>>
     /\ IF line.num = wanted.end THEN Finish("enough") ELSE Goto("leave")
     /\ UNCHANGED <<pos, open, inner>>

Record ==
  /\ pc = "record"
  /\ \/ Closes /\ cancelled /\ Finish("cancelled") /\ UNCHANGED <<pos, recordVars>>
     \/ /\ ~(Closes /\ cancelled)
        /\ SplitDelimiter \/ InnerLine \/ StartBlock \/ CloseBlock \/ RangeLine
  /\ UNCHANGED matchVars
  /\ CallbackOnly

(* Mutant: the handle stays where the callback left it.                    *)
LeaveUnrestored ==
  /\ pc = "leave"
  /\ lineBegin' = line.end
  /\ cursor' = line.end
  /\ DropBefore(cursor')
  /\ Goto("check")
  /\ UNCHANGED <<job, cancelled, pos, cap, eof, line, matchVars, recordVars, handed>>

(* The handle is put back, and emitTerminated and the handler it was       *)
(* called from go on.                                                      *)
Leave ==
  /\ pc = "leave"
  /\ pos' = IF job.op = "extract" THEN pos ELSE Most(saved, line.end)
  /\ lineBegin' = line.end
  /\ cursor' = line.end
  /\ DropBefore(cursor')
  /\ Goto("check")
  /\ UNCHANGED <<job, cancelled, cap, eof, line, matchVars, recordVars, handed>>

-----------------------------------------------------------------------------
(* What the callers make of a scan that came to the end of the source.     *)

FinishSplit ==
  /\ job.op = "split"
  /\ \/ open = NoLine /\ Finish("noMatch") /\ UNCHANGED <<sections, pos>>
     \/ /\ open # NoLine
        /\ ~(HasSection(Len(source)) /\ cancelled)
        /\ CloseSection(Len(source))
        /\ IF TooMany(Len(sections')) THEN Finish("maxFiles") ELSE Finish("ok")
     \/ /\ open # NoLine
        /\ HasSection(Len(source)) /\ cancelled
        /\ Finish("cancelled")
        /\ UNCHANGED <<sections, pos>>

FinishBlocks ==
  /\ job.op = "blocks"
  /\ IF open # NoLine THEN Finish("unclosed")
     ELSE IF found = 0 THEN Finish("noBlocks")
     ELSE Finish("ok")
  /\ UNCHANGED <<sections, pos>>

FinishExtract ==
  /\ job.op = "extract"
  /\ Finish("ok")
  /\ UNCHANGED <<sections, pos>>

FinishCall ==
  /\ pc = "finish"
  /\ FinishSplit \/ FinishBlocks \/ FinishExtract
  /\ UNCHANGED <<open, inner, found, matchVars>>
  /\ CallbackOnly

(* The other reads and the seeks of the handle fail.                       *)
CallbackFails ==
  /\ job.op # "extract"
  /\ \/ pc \in {"visit", "match", "leave"}
     \/ pc = "record" /\ Closes
     \/ pc = "finish" /\ job.op = "split" /\ open # NoLine /\ HasSection(Len(source))
  /\ Finish("readError")
  /\ UNCHANGED <<pos, matchVars, recordVars>>
  /\ CallbackOnly

Cancel ==
  /\ pc # "done"
  /\ ~cancelled
  /\ cancelled' = TRUE
  /\ UNCHANGED <<job, pc, outcome, pos, windowVars, cursor, lineBegin, line, matchVars,
                 recordVars, handed>>

Scanner ==
  \/ Check \/ Dispatch \/ Second \/ EndOfStream \/ Refill \/ Final
  \/ Visit \/ ReadContent \/ Decide \/ Record \/ Leave
  \/ FinishCall \/ CallbackFails

Done == pc = "done" /\ UNCHANGED vars

Next == Scanner \/ Cancel \/ Done

(* The scan is one goroutine, and nothing it calls waits for anybody.      *)
Spec == Init /\ [][Next]_vars /\ WF_vars(Scanner)

-----------------------------------------------------------------------------
(* The window is the part of the source that it stands for, and the next   *)
(* read goes on where it ends, whatever the callback did with the handle.  *)
HandleInPlace ==
  pc \in {"check", "have", "second", "final"} =>
    /\ pos = WindowEnd
    /\ window = Bytes(source, base, WindowEnd)
    /\ base <= cursor

(* What has been said of the whole source, has been found in all of it.    *)
Promise ==
  INSTANCE ScanPromise
    WITH Whole <- {"ok", "noMatch", "unclosed", "noBlocks"},
         Early <- {"enough", "cancelled", "readError", "maxFiles"}

(* Each line handed over is the next line of the source, by any reads, and *)
(* only a scan that came to the end of the source says what is in it.      *)
HandsOverTheLines == Promise!Spec

(* A line is said to match when its content does, whichever way that was   *)
(* found out, and never because a read was cut short.                      *)
AnswersAreRight ==
  pc = "record" /\ job.op # "extract" => answer = Matches(Wanted, Text(line))

Parts == INSTANCE SpanSections WITH Cell <- Seq(Byte), Path <- Nat

Matching(p) == {Serialized(source, l) : l \in {m \in Range(handed) : Matches(p, Text(m))}}

(* A range is what is written on both sides of its hyphen.  A second one   *)
(* is a sign.                                                              *)
Written(i) ==
  IF job.op # "extract" \/ job.lines[i] = Hyphen THEN 0
  ELSE IF i > 2 /\ job.lines[i - 2] = Hyphen THEN -job.lines[i] ELSE job.lines[i]

PartsOfSource ==
  LET lines == [i \in DOMAIN handed |-> Serialized(source, handed[i])]
      request == [op |-> job.op, opens |-> Matching(job.opens), bare |-> job.bare,
                  closes |-> IF job.op = "extract" THEN Range(lines) ELSE Matching(job.closes),
                  first |-> Written(1), last |-> Written(Len(job.lines))]
      parts == Parts!Sections(request, lines)
  IN [k \in DOMAIN parts |-> FlattenSeq(parts[k])]

(* A scan that succeeds has planned the parts of the source that the       *)
(* request asks for, to the byte.                                          *)
SectionsAreTheParts ==
  outcome \in {"ok", "enough"} =>
    [k \in DOMAIN sections |-> Bytes(source, sections[k].from, sections[k].to)] = PartsOfSource

(* No two outputs have one name, so none overwrites another with --force.  *)
NamesDiffer ==
  job.op # "extract" =>
    \A j, k \in DOMAIN sections : j # k => sections[j].name # sections[k].name

(* Once the context is cancelled, no line is said to match and no output   *)
(* is planned.                                                             *)
NothingOnceCancelled ==
  [][cancelled /\ job.op # "extract" => sections' = sections /\ (answer' => answer)]_vars

(* The scan comes to an end, by any reads.                                 *)
ScanEnds == <>(pc = "done")
=============================================================================
