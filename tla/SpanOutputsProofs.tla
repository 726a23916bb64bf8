-------------------------- MODULE SpanOutputsProofs --------------------------
(***************************************************************************)
(* What extracts, splits and blocks guarantee for every number of calls,   *)
(* paths, editors and transforms, and for sources of any length: type      *)
(* correctness; outputs that are published in the order of the plan; what  *)
(* an output holds; the lock on the source; the server's calls, one at a   *)
(* time and never over each other's outputs; that an undisturbed call      *)
(* finds the sections that were asked for, and a preview what the apply    *)
(* finds.                                                                  *)
(*                                                                         *)
(* The inductive invariant has three parts.  Local(c) is about one call    *)
(* and the length of the source.  Faithful(c) compares what the call has   *)
(* planned with the snapshot.  Outputs and Locks relate calls, paths and   *)
(* locks.  A fourth, Found(c), is about a call that nothing disturbs: what *)
(* it has scanned, planned, looked at and decided, in terms of the source  *)
(* and the files it began with.                                            *)
(***************************************************************************)
EXTENDS SpanOutputs, SpanSectionsProofs, SequenceTheorems, TLAPS

USE CallAssumption, NothingAssumption

-----------------------------------------------------------------------------
(* The inductive invariant.                                                *)

Publishing(c) == pc[c] \in {"probe", "copy", "commit"}

BeforeSpans == {"idle", "called", "open", "preflight", "scan"}

Fits(s) == s.from <= s.to + 1 /\ s.to <= Len(source)

(* Where the scan is, and that what it selects lies within the source.     *)
ScanInv(c) ==
  /\ at[c] <= Len(source) + 1
  /\ open[c] <= at[c]
  /\ req[c].op = "blocks" => open[c] < at[c]
  /\ req[c].op = "blocks" /\ pc[c] = "hash" => at[c] <= Len(source)
  /\ req[c].op = "extract" /\ pc[c] \in BeforeSpans => open[c] > 0 /\ span[c].to < open[c]

SpanInv(c) ==
  /\ Fits(span[c])
  /\ pc[c] \in {"hash", "copy"} => Len(seen[c]) <= Size(span[c])

(* There is a path for every output of the plan, and for the one that is   *)
(* being hashed.                                                           *)
RoomInv(c) ==
  /\ Len(plan[c]) <= Limit(c)
  /\ req[c].op = "extract" /\ pc[c] \in BeforeSpans \cup {"validate", "hash"} => plan[c] = << >>
  /\ req[c].op = "split" /\ pc[c] \in {"idle", "called", "open", "scan", "hash"} =>
       IF open[c] = 0 THEN plan[c] = << >> ELSE Len(plan[c]) < Limit(c)
  /\ req[c].op = "blocks" /\ pc[c] = "hash" => Len(plan[c]) < Limit(c)

PlanInv(c) ==
  \A k \in 1..Len(plan[c]) :
    Fits(plan[c][k]) /\ Len(plan[c][k].digest) = Size(plan[c][k])

ProgressInv(c) ==
  /\ c \in idle => pc[c] = "idle"
  /\ pc[c] = "preflight" => req[c].preview
  /\ pc[c] = "validate" => req[c].op = "extract"
  /\ req[c].op = "extract" /\ pc[c] \in {"hash", "planned"} => ~req[c].preview
  /\ Publishing(c) => ~req[c].preview /\ next[c] <= Len(plan[c])
  /\ ~req[c].preview => next[c] <= Len(plan[c]) + 1
  /\ ~req[c].preview /\ pc[c] \in BeforeSpans \cup {"hash", "validate", "planned"} => next[c] = 1
  /\ pc[c] \in {"copy", "commit"} =>
       span[c] = [from |-> plan[c][next[c]].from, to |-> plan[c][next[c]].to]
  /\ pc[c] = "commit" => seen[c] = plan[c][next[c]].digest
  /\ ~req[c].append => base[c] = << >>
  /\ result[c] # "none" => pc[c] \in {"closing", "returned", "dead"}
  /\ result[c] = "ok" /\ ~req[c].preview => next[c] = Len(plan[c]) + 1

Local(c) ==
  WellFormed(req[c]) /\ ScanInv(c) /\ SpanInv(c) /\ RoomInv(c) /\ PlanInv(c) /\ ProgressInv(c)

(* Where the source now holds what was hashed, it did so when planning was *)
(* over; hence a replay that equals its fingerprint equals the snapshot.   *)
Unchanged(c, s, content) ==
  \A j \in 1..Len(s.digest) :
    content[s.from + j - 1] = s.digest[j] => snapshot[c][s.from + j - 1] = s.digest[j]

Faithful(c) ==
  /\ Publishing(c) => Len(snapshot[c]) = Len(source)
  /\ c \notin undone =>
       /\ Publishing(c) => \A k \in 1..Len(plan[c]) : Unchanged(c, plan[c][k], source)
       /\ pc[c] = "copy" =>
            \A j \in 1..Len(seen[c]) :
              seen[c][j] = plan[c][next[c]].digest[j] =>
                snapshot[c][span[c].from + j - 1] = seen[c][j]
       /\ ~req[c].preview =>
            \A k \in 1..(next[c] - 1) : plan[c][k].digest = Slice(snapshot[c], plan[c][k])
       /\ pc[c] = "commit" =>
            plan[c][next[c]].digest = Slice(snapshot[c], plan[c][next[c]])

(* A path that holds a call's output holds one that the call has passed.   *)
Passed(c, k, p) ==
  k \in 1..(next[c] - 1) /\ req[c].dest[k] = p /\ store[p] = base[c] \o plan[c][k].digest

Outputs ==
  /\ \A c \in Call, p \in Path : owner[p] = c =>
       ~req[c].preview /\ \E k \in Nat : Passed(c, k, p)
  /\ \A p \in Path : owner[p] # Free => store[p] # Nothing
  /\ \A c \in Call : ~req[c].preview =>
       \A k \in 1..(next[c] - 1) : store[req[c].dest[k]] # Nothing

Locks ==
  /\ LockedUntilPublished
  /\ \A c \in Served : Running(c) => mu = c
  /\ \A c \in Served : Creates(req[c]) /\ pc[c] \in {"copy", "commit"} =>
       owner[Destination(c)] \notin Served

Inv ==
  /\ SpanOutputsTypeOK
  /\ \A c \in Call : Local(c) /\ Faithful(c)
  /\ Outputs
  /\ Locks
-----------------------------------------------------------------------------
(* What a step does to its own call, and that it leaves the others alone.  *)

LEMMA Typed ==
  ASSUME SpanOutputsTypeOK, NEW c \in Call
  PROVE  /\ req[c] \in Request /\ pc[c] \in Stage /\ result[c] \in Outcome
         /\ at[c] \in Nat \ {0} /\ open[c] \in Nat /\ found[c] \in Nat
         /\ span[c] \in Span /\ span[c].from \in Nat \ {0} /\ span[c].to \in Nat
         /\ seen[c] \in Seq(Cell) /\ Len(seen[c]) \in Nat
         /\ plan[c] \in Seq(Planned) /\ Len(plan[c]) \in Nat
         /\ \A k \in 1..Len(plan[c]) :
              /\ plan[c][k] \in Planned
              /\ plan[c][k].from \in Nat \ {0} /\ plan[c][k].to \in Nat
              /\ plan[c][k].digest \in Seq(Cell)
         /\ next[c] \in Nat \ {0} /\ base[c] \in Seq(Cell)
         /\ source \in Seq(Cell) /\ Len(source) \in Nat
         /\ snapshot[c] \in Seq(Cell)
         /\ Len(req[c].dest) \in Nat /\ Limit(c) = Len(req[c].dest)
<1>1. req[c] \in Request /\ req[c].dest \in Seq(Path)
  BY DEF SpanOutputsTypeOK, Request
<1>2. plan[c] \in Seq(Planned)
  BY DEF SpanOutputsTypeOK
<1>3. \A k \in 1..Len(plan[c]) : plan[c][k] \in Planned
  BY <1>2
<1>4. span[c] \in Span
  BY DEF SpanOutputsTypeOK
<1>5. seen[c] \in Seq(Cell) /\ base[c] \in Seq(Cell) /\ source \in Seq(Cell) /\ snapshot[c] \in Seq(Cell)
  BY DEF SpanOutputsTypeOK, Content
<1>6. /\ pc[c] \in Stage /\ result[c] \in Outcome /\ at[c] \in Nat \ {0}
      /\ open[c] \in Nat /\ found[c] \in Nat /\ next[c] \in Nat \ {0}
  BY DEF SpanOutputsTypeOK
<1>7. span[c].from \in Nat \ {0} /\ span[c].to \in Nat
  BY <1>4 DEF Span
<1>8. \A k \in 1..Len(plan[c]) :
        /\ plan[c][k].from \in Nat \ {0} /\ plan[c][k].to \in Nat
        /\ plan[c][k].digest \in Seq(Cell)
  BY <1>3 DEF Planned
<1>9. /\ Len(plan[c]) \in Nat /\ Len(seen[c]) \in Nat /\ Len(source) \in Nat
      /\ Len(req[c].dest) \in Nat /\ Limit(c) = Len(req[c].dest)
  BY <1>1, <1>2, <1>5 DEF Limit
<1>10. QED
  BY ONLY <1>1, <1>2, <1>3, <1>4, <1>5, <1>6, <1>7, <1>8, <1>9

(* Every own step but Enter and Return begins at a stage and ends at one.  *)
LEMMA Moves ==
  ASSUME SpanOutputsTypeOK, NEW c \in Call, Make(c) \/ Step(c) \/ StepFails(c)
  PROVE  /\ pc' \in [Call -> Stage] /\ result' \in [Call -> Outcome]
         /\ \A d \in Call \ {c} : pc'[d] = pc[d] /\ result'[d] = result[d]
<1> DEFINE Moved == /\ pc' \in [Call -> Stage] /\ result' \in [Call -> Outcome]
                    /\ \A d \in Call \ {c} : pc'[d] = pc[d] /\ result'[d] = result[d]
<1> SUFFICES Moved
  OBVIOUS
<1>1. pc \in [Call -> Stage] /\ result \in [Call -> Outcome]
  BY DEF SpanOutputsTypeOK
<1>2. ASSUME NEW s \in Stage, Goto(c, s) PROVE Moved
  BY <1>1, <1>2 DEF Goto
<1>3. ASSUME NEW r \in Outcome, Finish(c, r) PROVE Moved
  <2>1. "closing" \in Stage
    BY DEF Stage
  <2>2. QED
    BY <1>1, <1>3, <2>1 DEF Finish
<1>4. CASE UNCHANGED <<pc, result>>
  BY <1>1, <1>4
<1> HIDE DEF Moved
<1>5. ASSUME NEW s \in Stage, NEW sp, StartRead(c, s, sp) PROVE Moved
  BY <1>2, <1>5 DEF StartRead
<1>6. CASE Advance(c)
  BY <1>4, <1>6 DEF Advance
<1>7. ASSUME NEW n, OpenSection(c, n) PROVE Moved
  BY <1>2, <1>3, <1>7 DEF OpenSection, Stage, Outcome
<1>8. ASSUME NEW i, EndLine(c, i) PROVE Moved
  BY <1>2, <1>4, <1>8 DEF EndLine, Stage
<1>9. CASE Make(c) BY <1>2, <1>9 DEF Make, Stage
<1>10. CASE StepFails(c) BY <1>3, <1>10 DEF StepFails, Outcome
<1>11. CASE Enter(c) BY <1>2, <1>11 DEF Enter, Stage
<1>12. CASE OpenSource(c) BY <1>2, <1>12 DEF OpenSource, Stage
<1>13. CASE SplitLine(c) BY <1>5, <1>6, <1>7, <1>13 DEF SplitLine, Stage
<1>14. CASE SplitEnd(c) BY <1>2, <1>3, <1>5, <1>14 DEF SplitEnd, Stage, Outcome
<1>15. CASE BlocksLine(c)
  BY <1>3, <1>4, <1>5, <1>6, <1>15 DEF BlocksLine, OpenBlock, CloseBlock, Stage, Outcome
<1>16. CASE BlocksEnd(c) BY <1>2, <1>3, <1>16 DEF BlocksEnd, Stage, Outcome
<1>17. CASE ExtractLine(c) BY <1>6, <1>8, <1>17 DEF ExtractLine
<1>18. CASE ExtractEnd(c) BY <1>2, <1>8, <1>18 DEF ExtractEnd, Stage
<1>19. CASE Validate(c) BY <1>3, <1>5, <1>19 DEF Validate, Stage, Outcome
<1>20. CASE ReadSpan(c) BY <1>4, <1>20 DEF ReadSpan
<1>21. CASE Hashed(c) BY <1>2, <1>7, <1>21 DEF Hashed, Stage
<1>22. CASE Prepare(c) BY <1>2, <1>3, <1>22 DEF Prepare, Stage, Outcome
<1>23. CASE Preflight(c) BY <1>2, <1>3, <1>4, <1>23 DEF Preflight, Stage, Outcome
<1>24. CASE Probe(c) BY <1>3, <1>5, <1>24 DEF Probe, Stage, Outcome
<1>25. CASE Verify(c) BY <1>2, <1>3, <1>25 DEF Verify, Stage, Outcome
<1>26. CASE Commit(c) BY <1>2, <1>3, <1>26 DEF Commit, Stage, Outcome
<1>27. CASE Return(c) BY <1>2, <1>27 DEF Return, Stage
<1>28. QED
  BY <1>9, <1>10, <1>11, <1>12, <1>13, <1>14, <1>15, <1>16, <1>17, <1>18, <1>19,
     <1>20, <1>21, <1>22, <1>23, <1>24, <1>25, <1>26, <1>27 DEF Step

(* The scan, and the read it makes.                                        *)
LEMMA Cursors ==
  ASSUME SpanOutputsTypeOK, NEW c \in Call, Local(c), Make(c) \/ Step(c) \/ StepFails(c)
  PROVE  /\ at' \in [Call -> Nat \ {0}] /\ open' \in [Call -> Nat] /\ found' \in [Call -> Nat]
         /\ span' \in [Call -> Span] /\ seen' \in [Call -> Content]
         /\ \A d \in Call \ {c} :
              /\ at'[d] = at[d] /\ open'[d] = open[d] /\ found'[d] = found[d]
              /\ span'[d] = span[d] /\ seen'[d] = seen[d]
<1> DEFINE Scan == /\ at' \in [Call -> Nat \ {0}] /\ open' \in [Call -> Nat] /\ found' \in [Call -> Nat]
                   /\ \A d \in Call \ {c} : at'[d] = at[d] /\ open'[d] = open[d] /\ found'[d] = found[d]
           Read == /\ span' \in [Call -> Span] /\ seen' \in [Call -> Content]
                   /\ \A d \in Call \ {c} : span'[d] = span[d] /\ seen'[d] = seen[d]
<1> SUFFICES Scan /\ Read
  OBVIOUS
<1>1. /\ at \in [Call -> Nat \ {0}] /\ open \in [Call -> Nat] /\ found \in [Call -> Nat]
      /\ span \in [Call -> Span] /\ seen \in [Call -> Content]
  BY DEF SpanOutputsTypeOK
<1>0. << >> \in Content
  BY DEF Content
<1>2. /\ at[c] \in Nat \ {0} /\ open[c] \in Nat /\ found[c] \in Nat /\ Len(source) \in Nat
      /\ span[c].from \in Nat \ {0} /\ span[c].to \in Nat
      /\ seen[c] \in Seq(Cell) /\ Len(seen[c]) \in Nat /\ source \in Seq(Cell)
  BY Typed
<1>3. \A n, m \in Nat : n # 0 => [from |-> n, to |-> m] \in Span
  BY DEF Span
<1>4. ASSUME UNCHANGED scanVars PROVE Scan
  BY <1>1, <1>4 DEF scanVars
<1>5. ASSUME UNCHANGED <<span, seen>> PROVE Read
  BY <1>1, <1>5
<1>6. ASSUME NEW stage, NEW sp \in Span, StartRead(c, stage, sp) PROVE Read
  BY <1>0, <1>1, <1>6 DEF StartRead
<1>7. ASSUME Advance(c) PROVE Scan /\ Read
  BY <1>1, <1>2, <1>7 DEF Advance
<1>8. ASSUME NEW n, OpenSection(c, n) PROVE Scan
  <2>1. \/ UNCHANGED scanVars
        \/ open' = [open EXCEPT ![c] = at[c]] /\ at' = [at EXCEPT ![c] = @ + 1] /\ found' = found
    BY <1>8 DEF OpenSection
  <2>2. at[c] \in Nat /\ at[c] + 1 \in Nat \ {0}
    BY <1>2
  <2>3. CASE UNCHANGED scanVars
    BY <1>4, <2>3
  <2>4. CASE open' = [open EXCEPT ![c] = at[c]] /\ at' = [at EXCEPT ![c] = @ + 1] /\ found' = found
    <3>1. at' \in [Call -> Nat \ {0}] /\ \A d \in Call \ {c} : at'[d] = at[d]
      BY <1>1, <2>2, <2>4
    <3>2. open' \in [Call -> Nat] /\ \A d \in Call \ {c} : open'[d] = open[d]
      BY <1>1, <2>2, <2>4
    <3>3. QED
      BY <1>1, <2>4, <3>1, <3>2
  <2>5. QED
    BY <2>1, <2>3, <2>4
<1>9. ASSUME Scanning(c, "extract"), NEW i \in Nat, EndLine(c, i), UNCHANGED seen
      PROVE  Scan /\ Read
  <2>1. open[c] # 0
    BY <1>2, <1>9 DEF Local, ScanInv, Scanning, BeforeSpans
  <2>2. [from |-> IF span[c].to = 0 THEN open[c] ELSE span[c].from, to |-> i] \in Span
    BY <1>2, <1>3, <1>9, <2>1
  <2>3. Read
    BY <1>1, <1>9, <2>2 DEF EndLine
  <2>4. Scan
    BY <1>1, <1>2, <1>9 DEF EndLine
  <2>5. QED
    BY <2>3, <2>4
<1>10. SplitSection(c) \in Span
  <2> DEFINE first == IF open[c] = 0 THEN 1 ELSE IF req[c].bare THEN open[c] + 1 ELSE open[c]
  <2>1. first \in Nat /\ first # 0 /\ at[c] - 1 \in Nat
    BY <1>2
  <2>2. SplitSection(c) = [from |-> first, to |-> at[c] - 1]
    BY DEF SplitSection
  <2> HIDE DEF first
  <2>3. QED
    BY <1>3, <2>1, <2>2
<1>11. open[c] # 0 => BlockSpan(c) \in Span
  <2> DEFINE first == IF req[c].bare THEN open[c] + 1 ELSE open[c]
             final == IF req[c].bare THEN at[c] - 1 ELSE at[c]
  <2>1. open[c] # 0 => first \in Nat /\ first # 0
    BY <1>2
  <2>2. final \in Nat
    BY <1>2
  <2>3. BlockSpan(c) = [from |-> first, to |-> final]
    BY DEF BlockSpan
  <2> HIDE DEF first, final
  <2>4. QED
    BY <1>3, <2>1, <2>2, <2>3
<1>12. ASSUME OpenBlock(c) \/ CloseBlock(c) PROVE Scan /\ Read
  <2> HIDE DEF Read
  <2>1. CASE OpenBlock(c)
    BY <1>1, <1>2, <1>5, <2>1 DEF OpenBlock
  <2>2. CASE CloseBlock(c)
    <3>1. /\ open' = [open EXCEPT ![c] = 0] /\ found' = [found EXCEPT ![c] = @ + 1]
          /\ at' = at \/ at' = [at EXCEPT ![c] = @ + 1]
      BY <2>2 DEF CloseBlock
    <3>2. Scan
      <4>1. at' \in [Call -> Nat \ {0}] /\ \A d \in Call \ {c} : at'[d] = at[d]
        BY <1>1, <1>2, <3>1
      <4>2. open' \in [Call -> Nat] /\ \A d \in Call \ {c} : open'[d] = open[d]
        BY <1>1, <3>1
      <4>3. found' \in [Call -> Nat] /\ \A d \in Call \ {c} : found'[d] = found[d]
        BY <1>1, <1>2, <3>1
      <4>4. QED
        BY <4>1, <4>2, <4>3
    <3> HIDE DEF Scan
    <3>3. Read
      BY <1>5, <1>6, <1>11, <2>2 DEF CloseBlock
    <3>4. QED
      BY <3>2, <3>3
  <2>3. QED
    BY <1>12, <2>1, <2>2
<1>13. ASSUME ReadSpan(c) PROVE Scan /\ Read
  <2>1. span[c].from + Len(seen[c]) \in 1..Len(source)
    <3>1. span[c].to <= Len(source) /\ ~(Len(seen[c]) >= span[c].to - span[c].from + 1)
      BY <1>13 DEF ReadSpan, ReadAll, Size, Local, SpanInv, Fits
    <3>2. QED
      BY ONLY <1>2, <3>1
  <2>2. Append(seen[c], source[span[c].from + Len(seen[c])]) \in Content
    BY <1>2, <2>1 DEF Content
  <2>3. Read
    BY <1>1, <1>13, <2>2 DEF ReadSpan
  <2>4. Scan
    BY <1>4, <1>13 DEF ReadSpan, PlanOnly
  <2>5. QED
    BY <2>3, <2>4
<1> HIDE DEF Scan, Read
<1>14. CASE Make(c) BY <1>4, <1>5, <1>14 DEF Make
<1>15. CASE StepFails(c) BY <1>4, <1>5, <1>15 DEF StepFails
<1>16. CASE Enter(c) BY <1>4, <1>5, <1>16 DEF Enter
<1>17. CASE OpenSource(c) BY <1>4, <1>5, <1>17 DEF OpenSource
<1>18. CASE SplitLine(c) BY <1>4, <1>5, <1>6, <1>7, <1>8, <1>10, <1>18 DEF SplitLine
<1>19. CASE SplitEnd(c) BY <1>4, <1>5, <1>6, <1>10, <1>19 DEF SplitEnd
<1>20. CASE BlocksLine(c) BY <1>7, <1>12, <1>20 DEF BlocksLine
<1>21. CASE BlocksEnd(c) BY <1>4, <1>5, <1>21 DEF BlocksEnd
<1>22. CASE ExtractLine(c) BY <1>2, <1>7, <1>9, <1>22 DEF ExtractLine
<1>23. CASE ExtractEnd(c)
  BY <1>2, <1>4, <1>5, <1>9, <1>23 DEF ExtractEnd
<1>24. CASE Validate(c)
  <2>1. span[c] \in Span
    BY <1>1
  <2>2. QED
    BY <1>4, <1>5, <1>6, <1>24, <2>1 DEF Validate
<1>25. CASE Hashed(c)
  <2>1. CASE req[c].op = "blocks" /\ UNCHANGED <<open, found>> /\ at' = [at EXCEPT ![c] = @ + 1]
    <3>1. Scan
      BY <1>1, <1>2, <2>1 DEF Scan
    <3>2. QED
      BY <1>5, <1>25, <3>1 DEF Hashed
  <2>2. QED
    BY <1>4, <1>5, <1>8, <1>25, <2>1 DEF Hashed
<1>26. CASE Prepare(c) BY <1>4, <1>5, <1>26 DEF Prepare, PlanOnly
<1>27. CASE Preflight(c) BY <1>4, <1>5, <1>27 DEF Preflight, PublishOnly
<1>28. CASE Probe(c)
  <2>1. pc[c] = "probe" => next[c] \in 1..Len(plan[c])
    BY Typed DEF Local, ProgressInv, Publishing
  <2>2. pc[c] = "probe" =>
          [from |-> plan[c][next[c]].from, to |-> plan[c][next[c]].to] \in Span
    BY <1>3, <2>1, Typed
  <2>3. QED
    BY <1>4, <1>5, <1>6, <1>28, <2>2 DEF Probe, PublishOnly
<1>29. CASE Verify(c) BY <1>4, <1>5, <1>29 DEF Verify, PublishOnly
<1>30. CASE Commit(c) BY <1>4, <1>5, <1>30 DEF Commit, PublishOnly
<1>31. CASE Return(c) BY <1>4, <1>5, <1>31 DEF Return
<1>32. QED
  BY <1>13, <1>14, <1>15, <1>16, <1>17, <1>18, <1>19, <1>20, <1>21, <1>22, <1>23, <1>24,
     <1>25, <1>26, <1>27, <1>28, <1>29, <1>30, <1>31 DEF Step

(* The plan, the output whose turn it is, and the snapshot.                *)
LEMMA Plans ==
  ASSUME SpanOutputsTypeOK, NEW c \in Call, Local(c), Make(c) \/ Step(c) \/ StepFails(c)
  PROVE  /\ plan' \in [Call -> Seq(Planned)] /\ next' \in [Call -> Nat \ {0}]
         /\ base' \in [Call -> Content] /\ snapshot' \in [Call -> Content]
         /\ \A d \in Call \ {c} :
              /\ plan'[d] = plan[d] /\ next'[d] = next[d]
              /\ base'[d] = base[d] /\ snapshot'[d] = snapshot[d]
         /\ ~Hashed(c) => plan' = plan
         /\ ~Preflight(c) /\ ~Commit(c) => next' = next
         /\ ~Probe(c) => base' = base
         /\ ~Prepare(c) => snapshot' = snapshot
<1>1. /\ plan \in [Call -> Seq(Planned)] /\ next \in [Call -> Nat \ {0}]
      /\ base \in [Call -> Content] /\ snapshot \in [Call -> Content] /\ source \in Content
  BY DEF SpanOutputsTypeOK
<1>2. /\ ~Hashed(c) => plan' = plan
      /\ ~Preflight(c) /\ ~Commit(c) => next' = next
      /\ ~Probe(c) => base' = base
      /\ ~Prepare(c) => snapshot' = snapshot
  <2>1. CASE Make(c) \/ StepFails(c) \/ Enter(c) \/ OpenSource(c) \/ Return(c)
    BY <2>1 DEF Make, StepFails, Enter, OpenSource, Return, historyVars
  <2>2. CASE SplitLine(c) \/ SplitEnd(c) \/ BlocksLine(c) \/ BlocksEnd(c)
             \/ ExtractLine(c) \/ ExtractEnd(c) \/ Validate(c)
    BY <2>2 DEF SplitLine, SplitEnd, BlocksLine, BlocksEnd, ExtractLine, ExtractEnd, Validate,
                ScanOnly, historyVars
  <2>3. CASE ReadSpan(c) \/ Hashed(c) \/ Prepare(c)
    BY <2>3 DEF ReadSpan, Hashed, Prepare, PlanOnly, historyVars
  <2>4. CASE Preflight(c) \/ Probe(c) \/ Verify(c) \/ Commit(c)
    BY <2>4 DEF Preflight, Probe, Verify, Commit, PublishOnly
  <2>5. QED
    BY <2>1, <2>2, <2>3, <2>4 DEF Step
<1>3. plan' \in [Call -> Seq(Planned)] /\ \A d \in Call \ {c} : plan'[d] = plan[d]
  <2>1. CASE Hashed(c)
    <3> DEFINE entry == [from |-> span[c].from, to |-> span[c].to, digest |-> seen[c]]
    <3>1. entry \in Planned
      BY Typed DEF Planned
    <3>2. Append(plan[c], entry) \in Seq(Planned)
      BY <1>1, <3>1
    <3>3. plan' = [plan EXCEPT ![c] = Append(plan[c], entry)]
      BY <2>1 DEF Hashed
    <3> HIDE DEF entry
    <3>4. QED
      BY <1>1, <3>2, <3>3
  <2>2. QED
    BY <1>1, <1>2, <2>1
<1>4. next' \in [Call -> Nat \ {0}] /\ \A d \in Call \ {c} : next'[d] = next[d]
  <2>1. next' = next \/ next' = [next EXCEPT ![c] = @ + 1]
    BY <1>2 DEF Preflight, Commit
  <2>2. next[c] + 1 \in Nat \ {0}
    BY <1>1
  <2>3. QED
    BY <1>1, <2>1, <2>2
<1>5. base' \in [Call -> Content] /\ \A d \in Call \ {c} : base'[d] = base[d]
  <2>1. CASE Probe(c)
    <3>1. req[c].dest[next[c]] \in Path /\ pc[c] = "probe"
      BY <2>1, Typed DEF Probe, Local, ProgressInv, RoomInv, Publishing, Request
    <3>2. store[Destination(c)] \notin {Nothing, Directory} => store[Destination(c)] \in Content
      BY <3>1 DEF SpanOutputsTypeOK, Destination, Holding
    <3>3. << >> \in Content
      BY DEF Content
    <3>4. base' = base \/ \E b \in Content : base' = [base EXCEPT ![c] = b]
      BY <2>1, <3>2, <3>3 DEF Probe, CanWriteBeside
    <3>5. QED
      BY <1>1, <3>4
  <2>2. QED
    BY <1>1, <1>2, <2>1
<1>6. snapshot' \in [Call -> Content] /\ \A d \in Call \ {c} : snapshot'[d] = snapshot[d]
  BY <1>1, <1>2 DEF Prepare
<1>7. QED
  BY <1>2, <1>3, <1>4, <1>5, <1>6

(* What a step of a call leaves alone of the rest.                         *)
LEMMA Leaves ==
  ASSUME NEW c \in Call, Make(c) \/ Step(c) \/ StepFails(c)
  PROVE  /\ req' = req /\ source' = source /\ undone' = undone
         /\ edits' = edits /\ others' = others /\ exclusive' \subseteq exclusive
         /\ idle' \subseteq idle
         /\ ~Enter(c) => began' = began
         /\ ~Enter(c) /\ ~Return(c) => mu' = mu
         /\ ~OpenSource(c) /\ ~Return(c) => UNCHANGED lockVars
         /\ ~Commit(c) => store' = store /\ owner' = owner
         /\ ~Prepare(c) => folder' = folder
<1>1. CASE Make(c) \/ StepFails(c) \/ Enter(c) \/ OpenSource(c) \/ Return(c)
  BY <1>1 DEF Make, StepFails, Enter, OpenSource, Return, historyVars, worldVars, lockVars,
              LockShared, ReleaseLocks
<1>2. CASE SplitLine(c) \/ SplitEnd(c) \/ BlocksLine(c) \/ BlocksEnd(c)
           \/ ExtractLine(c) \/ ExtractEnd(c) \/ Validate(c)
  BY <1>2 DEF SplitLine, SplitEnd, BlocksLine, BlocksEnd, ExtractLine, ExtractEnd, Validate,
              ScanOnly, historyVars, worldVars, lockVars
<1>3. CASE ReadSpan(c) \/ Hashed(c) \/ Prepare(c)
  BY <1>3 DEF ReadSpan, Hashed, Prepare, PlanOnly, historyVars, worldVars, lockVars
<1>4. CASE Preflight(c) \/ Probe(c) \/ Verify(c) \/ Commit(c)
  BY <1>4 DEF Preflight, Probe, Verify, Commit, PublishOnly, lockVars
<1>5. QED
  BY <1>1, <1>2, <1>3, <1>4 DEF Step

-----------------------------------------------------------------------------
(* A call's own steps keep what is said of it alone.                       *)

LEMMA ScanKept ==
  ASSUME SpanOutputsTypeOK, NEW c \in Call, Local(c), Make(c) \/ Step(c) \/ StepFails(c)
  PROVE  ScanInv(c)'
<1>1. /\ pc \in [Call -> Stage] /\ at \in [Call -> Nat \ {0}] /\ open \in [Call -> Nat]
      /\ span \in [Call -> Span]
  BY DEF SpanOutputsTypeOK
<1>2. /\ at[c] \in Nat \ {0} /\ open[c] \in Nat /\ Len(source) \in Nat
      /\ span[c].from \in Nat \ {0} /\ span[c].to \in Nat
  BY Typed
<1>3. ScanInv(c) /\ req' = req /\ source' = source
  BY Leaves DEF Local
<1>4. ASSUME UNCHANGED <<at, open>>,
             req[c].op = "extract" /\ pc'[c] \in BeforeSpans => pc[c] \in BeforeSpans /\ span' = span,
             req[c].op = "blocks" /\ pc'[c] = "hash" => at[c] <= Len(source)
      PROVE  ScanInv(c)'
  BY <1>2, <1>3, <1>4 DEF ScanInv
<1>5. ASSUME Advance(c), ~AtEnd(c), pc[c] = "scan" PROVE ScanInv(c)'
  BY <1>1, <1>2, <1>3, <1>5 DEF ScanInv, Advance, AtEnd, BeforeSpans
<1>6. ASSUME NEW n, OpenSection(c, n), ~AtEnd(c), req[c].op = "split" PROVE ScanInv(c)'
  <2>1. CASE UNCHANGED scanVars
    BY <1>4, <1>6, <2>1 DEF scanVars
  <2>2. CASE open' = [open EXCEPT ![c] = at[c]] /\ at' = [at EXCEPT ![c] = @ + 1]
    BY <1>1, <1>2, <1>3, <1>6, <2>2 DEF ScanInv, AtEnd
  <2>3. QED
    BY <1>6, <2>1, <2>2 DEF OpenSection
<1>7. CASE SplitLine(c)
  <2>1. CASE Advance(c)
    BY <1>5, <1>7, <2>1 DEF SplitLine, Scanning
  <2>2. CASE UNCHANGED scanVars
    BY <1>4, <1>7, <2>2 DEF SplitLine, Scanning, scanVars
  <2>3. QED
    BY <1>6, <1>7, <2>1, <2>2 DEF SplitLine, Scanning
<1>8. CASE BlocksLine(c)
  <2>1. CASE Advance(c)
    BY <1>5, <1>8, <2>1 DEF BlocksLine, Scanning
  <2>2. CASE OpenBlock(c)
    BY <1>1, <1>2, <1>3, <1>8, <2>2 DEF ScanInv, OpenBlock, BlocksLine, Scanning, AtEnd, BeforeSpans
  <2>3. CASE CloseBlock(c)
    <3>1. /\ open' = [open EXCEPT ![c] = 0] /\ at[c] <= Len(source)
          /\ req[c].op = "blocks"
          /\ at' = at \/ (at' = [at EXCEPT ![c] = @ + 1] /\ pc' = pc)
      BY <1>2, <1>8, <2>3 DEF CloseBlock, BlocksLine, Scanning, AtEnd
    <3>2. pc[c] = "scan"
      BY <1>8 DEF BlocksLine, Scanning
    <3>3. /\ open'[c] = 0 /\ at'[c] \in Nat /\ at'[c] > 0 /\ at'[c] <= Len(source) + 1
          /\ pc'[c] = "hash" => at'[c] <= Len(source)
      BY <1>1, <1>2, <3>1, <3>2
    <3>4. QED
      BY <1>2, <1>3, <3>1, <3>3 DEF ScanInv
  <2>4. QED
    BY <1>8, <2>1, <2>2, <2>3 DEF BlocksLine
<1>9. ASSUME NEW i \in Nat, EndLine(c, i), Scanning(c, "extract"), i <= Len(source), open[c] <= i
      PROVE  ScanInv(c)'
  <2>1. at'[c] = i + 1 /\ open'[c] = i + 1
    BY <1>1, <1>9 DEF EndLine
  <2>2. span'[c].to <= i
    <3>1. CASE InRange(c, found'[c])
      <4>1. span' = [span EXCEPT ![c] =
                       [from |-> IF span[c].to = 0 THEN open[c] ELSE span[c].from, to |-> i]]
        BY <1>9, <3>1 DEF EndLine
      <4>2. span'[c].to = i
        BY <1>1, <4>1
      <4>3. QED
        BY <1>9, <4>2
    <3>2. CASE ~InRange(c, found'[c])
      BY <1>2, <1>3, <1>9, <3>2 DEF EndLine, ScanInv, Scanning, BeforeSpans
    <3>3. QED
      BY <3>1, <3>2
  <2>3. span'[c].to \in Nat
    BY Cursors DEF Span
  <2>4. QED
    BY <1>2, <1>3, <1>9, <2>1, <2>2, <2>3 DEF ScanInv, Scanning
<1>10. CASE ExtractLine(c)
  <2>1. open[c] <= at[c]
    BY <1>3 DEF ScanInv
  <2>2. QED
    BY <1>2, <1>5, <1>9, <1>10, <2>1 DEF ExtractLine, Scanning, AtEnd
<1>11. CASE ExtractEnd(c)
  <2>1. CASE UNCHANGED scanVars /\ Goto(c, "validate")
    <3>1. pc'[c] = "validate"
      BY <1>1, <2>1 DEF Goto
    <3>2. QED
      BY <1>4, <1>11, <2>1, <3>1 DEF ExtractEnd, Scanning, scanVars, BeforeSpans
  <2>2. QED
    BY <1>2, <1>9, <1>11, <2>1 DEF ExtractEnd
<1>12. CASE Make(c) \/ StepFails(c) \/ Enter(c) \/ OpenSource(c)
  <2>1. UNCHANGED <<at, open, span>>
    BY <1>12 DEF Make, StepFails, Enter, OpenSource, scanVars
  <2>2. /\ pc'[c] # "hash"
        /\ pc'[c] = "closing" \/ pc[c] \in BeforeSpans
    <3>1. CASE StepFails(c)
      BY <1>1, <3>1 DEF StepFails, Finish
    <3>2. CASE Make(c)
      <4>1. pc[c] = "idle"
        BY <3>2 DEF Make, Local, ProgressInv
      <4>2. QED
        BY <1>1, <3>2, <4>1 DEF Make, Goto, BeforeSpans
    <3>3. QED
      BY <1>1, <1>12, <3>1, <3>2 DEF Enter, OpenSource, Goto, BeforeSpans
  <2>3. QED
    BY <1>4, <2>1, <2>2 DEF BeforeSpans
<1>13. CASE Preflight(c) \/ Prepare(c)
  <2>1. UNCHANGED <<at, open, span>>
    BY <1>13 DEF Preflight, Prepare, PublishOnly, PlanOnly, scanVars
  <2>2. pc'[c] # "hash"
    BY <1>1, <1>13 DEF Preflight, Prepare, Goto, Finish
  <2>3. req[c].op = "extract" /\ pc'[c] \in BeforeSpans => pc[c] \in BeforeSpans
    BY <1>1, <1>13 DEF Preflight, Prepare, Goto, Finish, BeforeSpans, Local, ProgressInv
  <2>4. QED
    BY <1>4, <2>1, <2>2, <2>3
<1>14. CASE \/ SplitEnd(c) \/ BlocksEnd(c) \/ Validate(c) \/ ReadSpan(c) \/ Probe(c)
            \/ Verify(c) \/ Commit(c) \/ Return(c)
  <2>1. UNCHANGED <<at, open>>
    BY <1>14 DEF SplitEnd, BlocksEnd, Validate, ReadSpan, Probe, Verify, Commit, Return,
                 PublishOnly, PlanOnly, scanVars
  <2>2. pc'[c] \notin BeforeSpans
    BY <1>1, <1>14 DEF SplitEnd, BlocksEnd, Validate, ReadSpan, Probe, Verify, Commit, Return,
                 StartRead, Goto, Finish, BeforeSpans
  <2>3. req[c].op = "blocks" /\ pc'[c] = "hash" => pc[c] = "hash"
    BY <1>1, <1>3, <1>14 DEF SplitEnd, BlocksEnd, Validate, ReadSpan, Probe, Verify, Commit, Return,
                 StartRead, Goto, Finish, Scanning, Local, ProgressInv
  <2>4. QED
    BY <1>3, <1>4, <2>1, <2>2, <2>3 DEF ScanInv
<1>15. CASE Hashed(c)
  <2>1. CASE req[c].op = "split" /\ OpenSection(c, Len(plan[c]) + 1) /\ ~AtEnd(c)
    BY <1>6, <2>1
  <2>2. CASE req[c].op = "blocks" /\ at' = [at EXCEPT ![c] = @ + 1] /\ UNCHANGED open
    <3>1. at[c] <= Len(source) /\ open[c] < at[c]
      BY <1>3, <1>15, <2>2 DEF Hashed, ScanInv
    <3>2. pc'[c] # "hash"
      BY <1>1, <1>15, <2>2 DEF Hashed, Goto
    <3>3. QED
      BY <1>1, <1>2, <1>3, <2>2, <3>1, <3>2 DEF ScanInv
  <2>3. CASE Goto(c, "planned") /\ UNCHANGED scanVars
    <3>1. pc'[c] = "planned"
      BY <1>1, <2>3 DEF Goto
    <3>2. QED
      BY <1>4, <2>3, <3>1 DEF scanVars, BeforeSpans
  <2>4. QED
    BY <1>15, <2>1, <2>2, <2>3 DEF Hashed
<1>16. QED
  BY <1>7, <1>8, <1>10, <1>11, <1>12, <1>13, <1>14, <1>15 DEF Step

LEMMA SpanKept ==
  ASSUME SpanOutputsTypeOK, NEW c \in Call, Local(c), Make(c) \/ Step(c) \/ StepFails(c)
  PROVE  SpanInv(c)'
<1>1. pc \in [Call -> Stage] /\ span \in [Call -> Span] /\ seen \in [Call -> Content]
  BY DEF SpanOutputsTypeOK
<1>2. /\ at[c] \in Nat \ {0} /\ open[c] \in Nat /\ Len(source) \in Nat
      /\ span[c].from \in Nat \ {0} /\ span[c].to \in Nat
      /\ seen[c] \in Seq(Cell) /\ Len(seen[c]) \in Nat
  BY Typed
<1>3. SpanInv(c) /\ ScanInv(c) /\ source' = source /\ req' = req
  BY Leaves DEF Local
<1>4. ASSUME UNCHANGED <<span, seen>>,
             pc'[c] \in {"hash", "copy"} => pc[c] \in {"hash", "copy"}
      PROVE  SpanInv(c)'
  BY <1>3, <1>4 DEF SpanInv, Fits, Size
<1>5. ASSUME NEW stage, NEW s \in Span, Fits(s), StartRead(c, stage, s) PROVE SpanInv(c)'
  <2>1. span'[c] = s /\ seen'[c] = << >>
    BY <1>1, <1>5 DEF StartRead
  <2>2. s.from \in Nat /\ s.to \in Nat
    BY DEF Span
  <2>3. 0 <= Size(s) /\ Fits(s)'
    BY <1>3, <1>5, <2>2 DEF Fits, Size
  <2>4. Len(<< >>) = 0
    OBVIOUS
  <2>5. QED
    BY <2>1, <2>3, <2>4 DEF SpanInv, Size, Fits
<1>6. CASE SplitLine(c) \/ SplitEnd(c)
  <2>1. SplitSection(c) \in Span
    BY <1>2 DEF SplitSection, Span
  <2>2. Size(SplitSection(c)) > 0 => Fits(SplitSection(c))
    <3>1. SplitSection(c).to = at[c] - 1 /\ SplitSection(c).from \in Nat
      BY <1>2 DEF SplitSection
    <3>2. at[c] <= Len(source) + 1
      BY <1>3 DEF ScanInv
    <3>3. QED
      BY <1>2, <3>1, <3>2 DEF Size, Fits
  <2>3. CASE UNCHANGED <<span, seen>> /\ (pc' = pc \/ OpenSection(c, Len(plan[c])) \/ \E s \in {"closing", "planned"} : pc' = [pc EXCEPT ![c] = s])
    BY <1>1, <1>4, <2>3 DEF OpenSection, Goto, Finish
  <2>4. CASE Size(SplitSection(c)) > 0 /\ StartRead(c, "hash", SplitSection(c))
    BY <1>5, <2>1, <2>2, <2>4
  <2>5. CASE SplitLine(c)
    BY <2>3, <2>4, <2>5 DEF SplitLine, Advance
  <2>6. CASE SplitEnd(c)
    BY <2>3, <2>4, <2>6 DEF SplitEnd, Goto, Finish
  <2>7. QED
    BY <1>6, <2>5, <2>6
<1>7. CASE BlocksLine(c)
  <2>1. CASE StartRead(c, "hash", BlockSpan(c)) /\ CloseBlock(c)
    <3>0. pc[c] = "scan" /\ pc'[c] = "hash"
      BY <1>1, <1>7, <2>1 DEF BlocksLine, Scanning, StartRead, Goto
    <3>1. at[c] <= Len(source) /\ open[c] < at[c] /\ open[c] # 0 /\ at[c] # open[c] + 1
      <4>1. open[c] # 0 /\ at[c] # open[c] + 1
        BY <2>1, <3>0 DEF CloseBlock
      <4>2. at[c] <= Len(source) /\ open[c] < at[c]
        BY <1>2, <1>3, <1>7 DEF BlocksLine, Scanning, ScanInv, AtEnd
      <4>3. QED
        BY <4>1, <4>2
    <3>2. BlockSpan(c) \in Span
      BY <1>2, <3>1 DEF BlockSpan, Span
    <3>3. Fits(BlockSpan(c))
      BY <1>2, <3>1 DEF BlockSpan, Fits
    <3>4. QED
      BY <1>5, <2>1, <3>2, <3>3
  <2>2. CASE UNCHANGED <<pc, span, seen>>
    BY <1>4, <2>2
  <2>3. CASE Finish(c, "maxFiles") /\ UNCHANGED <<span, seen>>
    BY <1>1, <1>4, <2>3 DEF Finish
  <2>4. QED
    BY <1>7, <2>1, <2>2, <2>3 DEF BlocksLine, OpenBlock, CloseBlock, Advance
<1>8. ASSUME NEW i \in Nat, EndLine(c, i), Scanning(c, "extract"), i <= Len(source), open[c] <= i
      PROVE  SpanInv(c)'
  <2>1. pc'[c] \notin {"hash", "copy"}
    BY <1>1, <1>8 DEF EndLine, Goto, Scanning
  <2>2. open[c] # 0 /\ span[c].from <= span[c].to + 1 /\ span[c].to < open[c] /\ span[c].to <= Len(source)
    BY <1>3, <1>8 DEF ScanInv, SpanInv, Fits, Scanning, BeforeSpans
  <2> DEFINE s == [from |-> IF span[c].to = 0 THEN open[c] ELSE span[c].from, to |-> i]
  <2>3. Fits(s)
    BY <1>2, <1>8, <2>2 DEF Fits
  <2>4. span'[c] = s \/ span'[c] = span[c]
    BY <1>1, <1>8 DEF EndLine
  <2> HIDE DEF s
  <2>5. QED
    BY <1>3, <2>1, <2>3, <2>4 DEF SpanInv, Fits
<1>9. CASE ExtractLine(c)
  <2>1. open[c] <= at[c]
    BY <1>3 DEF ScanInv
  <2>2. QED
    BY <1>2, <1>4, <1>8, <1>9, <2>1 DEF ExtractLine, Scanning, AtEnd, Advance
<1>10. CASE ExtractEnd(c)
  <2>1. CASE UNCHANGED <<span, seen>> /\ Goto(c, "validate")
    BY <1>1, <1>4, <2>1 DEF Goto
  <2>2. QED
    BY <1>2, <1>8, <1>10, <2>1 DEF ExtractEnd
<1>11. CASE Validate(c)
  <2>1. span[c] \in Span /\ Fits(span[c])
    BY <1>1, <1>3 DEF SpanInv
  <2>2. CASE UNCHANGED <<span, seen>> /\ \E r : Finish(c, r)
    BY <1>1, <1>4, <2>2 DEF Finish
  <2>3. QED
    BY <1>5, <1>11, <2>1, <2>2 DEF Validate
<1>12. CASE ReadSpan(c)
  <2>1. seen'[c] = Append(seen[c], source[span[c].from + Len(seen[c])]) /\ span' = span /\ pc' = pc
    BY <1>1, <1>12 DEF ReadSpan
  <2>2. Len(seen'[c]) = Len(seen[c]) + 1
    BY <1>2, <2>1
  <2>3. Len(seen[c]) + 1 <= Size(span[c])
    BY <1>2, <1>12 DEF ReadSpan, ReadAll, Size
  <2>4. QED
    BY <1>2, <1>3, <2>1, <2>2, <2>3 DEF SpanInv, Fits, Size
<1>13. CASE Probe(c)
  <2>1. CASE UNCHANGED <<span, seen>> /\ (Finish(c, "exists") \/ Finish(c, "error"))
    BY <1>1, <1>4, <2>1 DEF Finish
  <2> DEFINE s == [from |-> plan[c][next[c]].from, to |-> plan[c][next[c]].to]
  <2>2. CASE StartRead(c, "copy", s)
    <3>1. next[c] \in 1..Len(plan[c])
      BY <1>13, Typed DEF Probe, Local, ProgressInv, Publishing
    <3>2. plan[c][next[c]].from \in Nat \ {0} /\ plan[c][next[c]].to \in Nat /\ Fits(plan[c][next[c]])
      BY <3>1, Typed DEF Local, PlanInv
    <3>3. s \in Span /\ Fits(s)
      BY <3>2 DEF Span, Fits
    <3> HIDE DEF s
    <3>4. QED
      BY <1>5, <2>2, <3>3
  <2>3. QED
    BY <1>13, <2>1, <2>2 DEF Probe
<1>14. CASE \/ Make(c) \/ StepFails(c) \/ Enter(c) \/ OpenSource(c) \/ BlocksEnd(c) \/ Hashed(c)
            \/ Prepare(c) \/ Preflight(c) \/ Verify(c) \/ Commit(c) \/ Return(c)
  <2>1. UNCHANGED <<span, seen>>
    BY <1>14 DEF Make, StepFails, Enter, OpenSource, BlocksEnd, Hashed, Prepare, Preflight,
                 Verify, Commit, Return
  <2>2. CASE pc' = pc \/ \E s \in Stage \ {"hash", "copy"} : pc' = [pc EXCEPT ![c] = s]
    BY <1>1, <1>4, <2>1, <2>2
  <2>3. QED
    BY <1>14, <2>2 DEF Make, StepFails, Enter, OpenSource, BlocksEnd, Hashed, Prepare, Preflight,
       Verify, Commit, Return, OpenSection, Goto, Finish, Stage
<1>15. QED
  BY <1>6, <1>7, <1>9, <1>10, <1>11, <1>12, <1>13, <1>14 DEF Step

LEMMA PlanKept ==
  ASSUME SpanOutputsTypeOK, NEW c \in Call, Local(c), Make(c) \/ Step(c) \/ StepFails(c)
  PROVE  PlanInv(c)'
<1>1. plan \in [Call -> Seq(Planned)] /\ plan[c] \in Seq(Planned) /\ source' = source
  BY Leaves DEF SpanOutputsTypeOK
<1>2. PlanInv(c) /\ SpanInv(c)
  BY DEF Local
<1>3. CASE plan' = plan
  BY <1>1, <1>2, <1>3 DEF PlanInv, Fits, Size
<1>4. CASE Hashed(c)
  <2> DEFINE entry == [from |-> span[c].from, to |-> span[c].to, digest |-> seen[c]]
  <2>1. /\ span[c].from \in Nat \ {0} /\ span[c].to \in Nat
        /\ seen[c] \in Seq(Cell) /\ Len(seen[c]) \in Nat
    BY Typed
  <2>2. entry \in Planned
    BY <2>1 DEF Planned
  <2>3. Fits(span[c]) /\ Len(seen[c]) = Size(span[c])
    <3>1. pc[c] = "hash" /\ Len(seen[c]) >= Size(span[c])
      BY <1>4 DEF Hashed, ReadAll
    <3>2. QED
      BY <1>2, <2>1, <3>1 DEF SpanInv, Size
  <2>4. Fits(entry) /\ Len(entry.digest) = Size(entry)
    BY <2>3 DEF Fits, Size
  <2>5. plan'[c] = Append(plan[c], entry)
    BY <1>1, <1>4 DEF Hashed
  <2> HIDE DEF entry
  <2>6. /\ Len(plan'[c]) = Len(plan[c]) + 1
        /\ \A k \in 1..Len(plan[c]) : plan'[c][k] = plan[c][k]
        /\ plan'[c][Len(plan[c]) + 1] = entry
    BY <1>1, <2>2, <2>5, AppendProperties
  <2>7. SUFFICES ASSUME NEW k \in 1..Len(plan'[c])
                 PROVE  /\ plan'[c][k].from <= plan'[c][k].to + 1
                        /\ plan'[c][k].to <= Len(source)
                        /\ Len(plan'[c][k].digest) = Size(plan'[c][k])
    BY <1>1 DEF PlanInv, Size, Fits
  <2>8. k \in 1..Len(plan[c]) \/ k = Len(plan[c]) + 1
    BY <1>1, <2>6, <2>7
  <2>9. QED
    BY <1>1, <1>2, <2>4, <2>6, <2>8 DEF PlanInv, Fits, Size
<1>5. QED
  BY <1>3, <1>4, Plans

LEMMA RoomKept ==
  ASSUME SpanOutputsTypeOK, NEW c \in Call, Local(c), Make(c) \/ Step(c) \/ StepFails(c)
  PROVE  RoomInv(c)'
<1>1. pc \in [Call -> Stage] /\ open \in [Call -> Nat] /\ plan \in [Call -> Seq(Planned)]
  BY DEF SpanOutputsTypeOK
<1>2. /\ at[c] \in Nat \ {0} /\ Len(plan[c]) \in Nat /\ plan[c] \in Seq(Planned)
      /\ Limit(c) \in Nat /\ Limit(c) > 0
  BY Typed DEF Local, WellFormed, Limit
<1>3. RoomInv(c) /\ ProgressInv(c) /\ req' = req /\ Limit(c)' = Limit(c)
  BY Leaves DEF Local, Limit
<1>4. ASSUME plan' = plan,
             req[c].op = "extract" /\ pc'[c] \in BeforeSpans \cup {"validate", "hash"}
               => pc[c] \in BeforeSpans \cup {"validate", "hash"},
             req[c].op = "split" /\ pc'[c] \in {"idle", "called", "open", "scan", "hash"}
               => IF open'[c] = 0 THEN plan[c] = << >> ELSE Len(plan[c]) < Limit(c),
             req[c].op = "blocks" /\ pc'[c] = "hash" => Len(plan[c]) < Limit(c)
      PROVE  RoomInv(c)'
  BY <1>3, <1>4 DEF RoomInv, BeforeSpans
<1>5. ASSUME NEW n \in Nat, OpenSection(c, n)
      PROVE  \/ pc'[c] = "closing"
             \/ pc'[c] = "scan" /\ open'[c] # 0 /\ n + 1 <= Limit(c)
  <2>1. CASE n + 1 > Limit(c)
    BY <1>1, <1>5, <2>1 DEF OpenSection, Finish
  <2>2. CASE ~(n + 1 > Limit(c))
    BY <1>1, <1>2, <1>5, <2>2 DEF OpenSection, Goto
  <2>3. QED
    BY <2>1, <2>2
<1>6. CASE Make(c) \/ StepFails(c) \/ Enter(c) \/ OpenSource(c)
  <2>1. UNCHANGED <<plan, open>>
    BY <1>6 DEF Make, StepFails, Enter, OpenSource, scanVars
  <2>2. \/ pc'[c] = "closing"
        \/ /\ pc[c] \in {"idle", "called", "open"}
           /\ pc'[c] \in {"called", "open", "scan"} \/ (pc'[c] = "preflight" /\ req[c].op = "extract")
    <3>1. CASE StepFails(c)
      BY <1>1, <3>1 DEF StepFails, Finish
    <3>2. CASE Make(c)
      BY <1>1, <1>3, <3>2 DEF Make, Goto, ProgressInv
    <3>3. CASE Enter(c) \/ OpenSource(c)
      BY <1>1, <3>3 DEF Enter, OpenSource, Goto
    <3>4. QED
      BY <1>6, <3>1, <3>2, <3>3
  <2>3. QED
    BY <1>3, <1>4, <2>1, <2>2 DEF RoomInv, BeforeSpans
<1>7. CASE SplitLine(c) \/ SplitEnd(c)
  <2>1. plan' = plan /\ pc[c] = "scan" /\ req[c].op = "split"
    BY <1>7 DEF SplitLine, SplitEnd, ScanOnly, Scanning
  <2>2. CASE OpenSection(c, Len(plan[c]))
    <3>1. pc'[c] = "closing" \/ (pc'[c] = "scan" /\ open'[c] # 0 /\ Len(plan[c]) + 1 <= Limit(c))
      BY <1>2, <1>5, <2>2
    <3>2. QED
      BY <1>2, <1>4, <2>1, <3>1
  <2>3. CASE UNCHANGED open
    BY <1>3, <1>4, <2>1, <2>3 DEF RoomInv
  <2>4. QED
    BY <1>7, <2>2, <2>3 DEF SplitLine, SplitEnd, Advance, scanVars
<1>8. CASE BlocksLine(c) \/ BlocksEnd(c)
  <2>1. plan' = plan /\ pc[c] = "scan" /\ req[c].op = "blocks"
    BY <1>8 DEF BlocksLine, BlocksEnd, ScanOnly, Scanning
  <2>2. pc'[c] = "hash" => Len(plan[c]) + 1 <= Limit(c)
    BY <1>1, <1>8, <2>1 DEF BlocksLine, BlocksEnd, OpenBlock, CloseBlock, Advance, StartRead, Goto, Finish
  <2>3. QED
    BY <1>2, <1>4, <2>1, <2>2
<1>9. CASE ExtractLine(c) \/ ExtractEnd(c) \/ Validate(c)
  <2>1. plan' = plan /\ pc[c] \in {"scan", "validate"} /\ req[c].op = "extract"
    BY <1>3, <1>9 DEF ExtractLine, ExtractEnd, Validate, ScanOnly, Scanning, ProgressInv
  <2>2. QED
    BY <1>4, <2>1 DEF BeforeSpans
<1>10. CASE Hashed(c)
  <2>1. plan'[c] = Append(plan[c], [from |-> span[c].from, to |-> span[c].to, digest |-> seen[c]])
    BY <1>1, <1>10 DEF Hashed
  <2>2. [from |-> span[c].from, to |-> span[c].to, digest |-> seen[c]] \in Planned
    BY Typed DEF Planned
  <2>3. Len(plan'[c]) = Len(plan[c]) + 1
    BY <1>2, <2>1, <2>2, AppendProperties
  <2>4. pc[c] = "hash" /\ req[c].op \in Command
    BY <1>10, Typed DEF Hashed, Request
  <2>5. plan[c] = << >> => Len(plan[c]) = 0
    OBVIOUS
  <2>6. Len(plan[c]) < Limit(c)
    BY <1>2, <1>3, <2>4, <2>5 DEF RoomInv, Command
  <2>7. CASE req[c].op = "split" /\ OpenSection(c, Len(plan[c]) + 1)
    <3>1. pc'[c] = "closing" \/ (pc'[c] = "scan" /\ open'[c] # 0 /\ Len(plan[c]) + 2 <= Limit(c))
      BY <1>2, <1>5, <2>7
    <3>2. QED
      BY <1>2, <1>3, <2>3, <2>6, <2>7, <3>1 DEF RoomInv
  <2>8. CASE (req[c].op = "blocks" /\ pc'[c] = "scan") \/ pc'[c] = "planned"
    BY <1>2, <1>3, <2>3, <2>6, <2>8 DEF RoomInv, BeforeSpans
  <2>9. QED
    BY <1>1, <1>10, <2>7, <2>8 DEF Hashed, Goto
<1>11. CASE ReadSpan(c)
  BY <1>3, <1>4, <1>11 DEF ReadSpan, PlanOnly, scanVars, RoomInv
<1>12. CASE Prepare(c) \/ Preflight(c)
  <2>1. plan' = plan
    BY <1>12 DEF Prepare, Preflight, PublishOnly
  <2>2. /\ pc'[c] \in {"closing", "probe", "preflight", "scan"}
        /\ pc'[c] = "scan" => req[c].op = "extract" /\ pc[c] = "preflight"
        /\ pc'[c] = "preflight" /\ req[c].op = "extract" => pc[c] = "preflight"
    BY <1>1, <1>3, <1>12 DEF Prepare, Preflight, Goto, Finish, ProgressInv
  <2>3. QED
    BY <1>3, <1>4, <2>1, <2>2 DEF BeforeSpans
<1>13. CASE Probe(c) \/ Verify(c) \/ Commit(c) \/ Return(c)
  <2>1. plan' = plan
    BY <1>13 DEF Probe, Verify, Commit, Return, PublishOnly
  <2>2. pc'[c] \in {"closing", "copy", "commit", "probe", "returned"}
    BY <1>1, <1>13 DEF Probe, Verify, Commit, Return, Goto, Finish, StartRead
  <2>3. QED
    BY <1>4, <2>1, <2>2 DEF BeforeSpans
<1>14. QED
  BY <1>6, <1>7, <1>8, <1>9, <1>10, <1>11, <1>12, <1>13 DEF Step

LEMMA ProgressKept ==
  ASSUME SpanOutputsTypeOK, NEW c \in Call, Local(c), Make(c) \/ Step(c) \/ StepFails(c)
  PROVE  ProgressInv(c)'
<1>1. /\ pc \in [Call -> Stage] /\ result \in [Call -> Outcome] /\ plan \in [Call -> Seq(Planned)]
      /\ next \in [Call -> Nat \ {0}] /\ span \in [Call -> Span] /\ base \in [Call -> Content]
  BY DEF SpanOutputsTypeOK
<1>2. /\ Len(plan[c]) \in Nat /\ plan[c] \in Seq(Planned) /\ next[c] \in Nat \ {0}
      /\ req[c].op \in Command
  BY Typed DEF Request
<1>3. ProgressInv(c) /\ req' = req
  BY Leaves DEF Local
<1>4. c \notin idle'
  <2>1. idle' \subseteq idle
    BY DEF Make, Step, StepFails, Enter, OpenSource, SplitLine, SplitEnd, BlocksLine, BlocksEnd,
       ExtractLine, ExtractEnd, Validate, ReadSpan, Hashed, Prepare, Preflight, Probe, Verify,
       Commit, Return, ScanOnly, PlanOnly, PublishOnly, worldVars
  <2>2. CASE Make(c)
    BY <2>2 DEF Make
  <2>3. CASE pc[c] # "idle"
    BY <1>3, <2>1, <2>3 DEF ProgressInv
  <2>4. StepFails(c) \/ Step(c) => pc[c] # "idle"
    BY DEF Step, StepFails, Running, Enter, OpenSource, SplitLine, SplitEnd, BlocksLine, BlocksEnd,
       ExtractLine, ExtractEnd, Validate, ReadSpan, Hashed, Prepare, Preflight, Probe, Verify,
       Commit, Return, Scanning
  <2>5. QED
    BY <2>2, <2>3, <2>4
<1>5. ASSUME plan' = plan, next' = next, base' = base,
             pc[c] \in BeforeSpans \cup {"validate"},
             \/ result'[c] = result[c]
             \/ pc'[c] = "closing" /\ (result'[c] = "ok" => req[c].preview),
             pc'[c] \in BeforeSpans \cup {"hash", "validate", "planned", "closing"},
             pc'[c] = "preflight" => req[c].preview,
             pc'[c] = "validate" => req[c].op = "extract",
             pc'[c] \in {"hash", "planned"} /\ req[c].op = "extract" => ~req[c].preview
      PROVE  ProgressInv(c)'
  <2>1. result[c] = "none"
    BY <1>3, <1>5 DEF ProgressInv, BeforeSpans
  <2>2. pc'[c] \notin {"probe", "copy", "commit"}
    BY <1>5 DEF BeforeSpans
  <2>3. ~req[c].preview => next[c] = 1
    BY <1>3, <1>5 DEF ProgressInv
  <2>4. QED
    BY <1>2, <1>3, <1>4, <1>5, <2>1, <2>2, <2>3 DEF ProgressInv, Publishing
<1>6. CASE Make(c) \/ Enter(c) \/ OpenSource(c)
  <2>1. UNCHANGED <<plan, next, base, result>>
    BY <1>6 DEF Make, Enter, OpenSource, Goto
  <2>2. /\ pc[c] \in {"idle", "called", "open"} /\ pc'[c] \in {"called", "open", "preflight", "scan"}
        /\ pc'[c] = "preflight" => req[c].preview
    BY <1>1, <1>3, <1>6 DEF Make, Enter, OpenSource, Goto, ProgressInv
  <2>3. QED
    BY <1>5, <2>1, <2>2 DEF BeforeSpans
<1>7. CASE SplitLine(c) \/ SplitEnd(c) \/ BlocksLine(c) \/ BlocksEnd(c)
  <2>1. UNCHANGED <<plan, next, base>> /\ pc[c] = "scan" /\ req[c].op # "extract"
    BY <1>7 DEF SplitLine, SplitEnd, BlocksLine, BlocksEnd, ScanOnly, Scanning
  <2>2. \/ UNCHANGED <<pc, result>>
        \/ \E s \in {"scan", "hash", "planned"} : Goto(c, s)
        \/ \E r \in Outcome \ {"ok"} : Finish(c, r)
    BY <1>7 DEF SplitLine, SplitEnd, BlocksLine, BlocksEnd, Advance, StartRead, OpenSection,
                OpenBlock, CloseBlock, Outcome
  <2>3. /\ pc'[c] \in {"scan", "hash", "planned", "closing"}
        /\ result'[c] = result[c] \/ (pc'[c] = "closing" /\ result'[c] # "ok")
    BY <1>1, <2>1, <2>2 DEF Goto, Finish
  <2>4. QED
    BY <1>5, <2>1, <2>3 DEF BeforeSpans
<1>8. CASE ExtractLine(c) \/ ExtractEnd(c)
  <2>1. UNCHANGED <<plan, next, base>> /\ pc[c] = "scan" /\ req[c].op = "extract"
    BY <1>8 DEF ExtractLine, ExtractEnd, ScanOnly, Scanning
  <2>2. UNCHANGED <<pc, result>> \/ Goto(c, "validate")
    BY <1>8 DEF ExtractLine, ExtractEnd, EndLine, Advance
  <2>3. pc'[c] \in {"scan", "validate"} /\ result' = result
    BY <1>1, <2>1, <2>2 DEF Goto
  <2>4. QED
    BY <1>5, <2>1, <2>3 DEF BeforeSpans
<1>9. CASE Validate(c)
  <2>1. UNCHANGED <<plan, next, base>> /\ pc[c] = "validate" /\ req[c].op = "extract"
    BY <1>3, <1>9 DEF Validate, ScanOnly, ProgressInv
  <2>2. \/ Finish(c, "range")
        \/ req[c].preview /\ Finish(c, "ok")
        \/ ~req[c].preview /\ Goto(c, "hash")
    BY <1>9 DEF Validate, StartRead
  <2>3. \/ pc'[c] = "closing" /\ result'[c] = "range"
        \/ pc'[c] = "closing" /\ result'[c] = "ok" /\ req[c].preview
        \/ pc'[c] = "hash" /\ result' = result /\ ~req[c].preview
    BY <1>1, <2>2 DEF Goto, Finish
  <2>4. QED
    BY <1>5, <2>1, <2>3
<1>10. CASE StepFails(c) \/ Return(c)
  <2>1. UNCHANGED <<plan, next, base>>
    BY <1>10 DEF StepFails, Return
  <2>2. \/ pc'[c] = "closing" /\ result'[c] = "error"
        \/ pc'[c] = "returned" /\ result' = result
    BY <1>1, <1>10 DEF StepFails, Return, Goto, Finish
  <2>3. QED
    BY <1>3, <1>4, <2>1, <2>2 DEF ProgressInv, Publishing, BeforeSpans
<1>11. CASE ReadSpan(c)
  <2>1. UNCHANGED <<pc, result, span, plan, next, base>> /\ pc[c] \in {"hash", "copy"}
    BY <1>11 DEF ReadSpan, PlanOnly
  <2>2. QED
    BY <1>3, <1>4, <2>1 DEF ProgressInv, Publishing
<1>12. CASE Hashed(c)
  <2>1. UNCHANGED <<next, base>> /\ pc[c] = "hash"
    BY <1>12 DEF Hashed
  <2>2. result[c] = "none" /\ (~req[c].preview => next[c] = 1)
    BY <1>3, <2>1 DEF ProgressInv
  <2>3. \/ pc'[c] \in {"scan", "planned"} /\ result'[c] = "none"
        \/ pc'[c] = "closing" /\ result'[c] = "maxFiles"
    BY <1>1, <1>12, <2>2 DEF Hashed, OpenSection, Goto, Finish
  <2>4. Len(plan'[c]) \in Nat
    BY Plans
  <2>5. QED
    BY <1>3, <1>4, <2>1, <2>2, <2>3, <2>4 DEF ProgressInv, Publishing
<1>13. CASE Prepare(c)
  <2>1. UNCHANGED <<plan, next, base>> /\ pc[c] = "planned"
    BY <1>13 DEF Prepare, PlanOnly
  <2>2. result[c] = "none" /\ (~req[c].preview => next[c] = 1)
    BY <1>3, <2>1 DEF ProgressInv
  <2>3. \/ pc'[c] = "closing" /\ result'[c] = "names"
        \/ pc'[c] = "preflight" /\ result' = result /\ req[c].preview
        \/ pc'[c] = "closing" /\ result'[c] = "ok" /\ plan[c] = << >>
        \/ pc'[c] = "probe" /\ result' = result /\ ~req[c].preview /\ plan[c] # << >>
    BY <1>1, <1>13 DEF Prepare, Goto, Finish
  <2>4. IF plan[c] = << >> THEN Len(plan[c]) = 0 ELSE Len(plan[c]) >= 1
    BY <1>2
  <2>5. QED
    BY <1>2, <1>3, <1>4, <2>1, <2>2, <2>3, <2>4 DEF ProgressInv, Publishing, BeforeSpans
<1>14. CASE Preflight(c)
  <2>1. UNCHANGED <<plan, base>> /\ pc[c] = "preflight" /\ req[c].preview /\ result[c] = "none"
    BY <1>3, <1>14 DEF Preflight, PublishOnly, ProgressInv
  <2>2. /\ pc'[c] \in {"closing", "preflight", "scan"}
        /\ pc'[c] = "closing" \/ result' = result
    BY <1>1, <1>14, <2>1 DEF Preflight, Goto, Finish
  <2>3. QED
    BY <1>3, <1>4, <2>1, <2>2 DEF ProgressInv, Publishing
<1>15. CASE Probe(c)
  <2>1. UNCHANGED <<plan, next>> /\ pc[c] = "probe" /\ result[c] = "none"
    BY <1>3, <1>15 DEF Probe, PublishOnly, ProgressInv
  <2>2. ~req[c].append => base'[c] = << >>
    BY <1>1, <1>3, <1>15 DEF Probe, ProgressInv
  <2>3. \/ pc'[c] = "closing" /\ result'[c] \in {"exists", "error"}
        \/ /\ pc'[c] = "copy" /\ result' = result
           /\ span'[c] = [from |-> plan[c][next[c]].from, to |-> plan[c][next[c]].to]
    BY <1>1, <1>15 DEF Probe, StartRead, Goto, Finish
  <2>4. QED
    BY <1>3, <1>4, <2>1, <2>2, <2>3 DEF ProgressInv, Publishing, BeforeSpans
<1>16. CASE Verify(c)
  <2>1. UNCHANGED <<plan, next, base, span, seen>> /\ pc[c] = "copy" /\ result[c] = "none"
    BY <1>3, <1>16 DEF Verify, PublishOnly, ProgressInv
  <2>2. \/ pc'[c] = "closing" /\ result'[c] = "mismatch"
        \/ pc'[c] = "commit" /\ result' = result /\ seen[c] = plan[c][next[c]].digest
    BY <1>1, <1>16 DEF Verify, Goto, Finish
  <2>3. QED
    BY <1>3, <1>4, <2>1, <2>2 DEF ProgressInv, Publishing, BeforeSpans
<1>17. CASE Commit(c) /\ store[Destination(c)] = Directory
  <2>1. UNCHANGED <<plan, base, next>> /\ pc[c] = "commit" /\ result[c] = "none"
    BY <1>3, <1>17 DEF Commit, PublishOnly, ProgressInv
  <2>2. pc'[c] = "closing" /\ result'[c] = "error"
    BY <1>1, <1>17 DEF Commit, Finish
  <2>3. QED
    BY <1>3, <1>4, <2>1, <2>2 DEF ProgressInv, Publishing, BeforeSpans
<1>18. CASE Commit(c) /\ store[Destination(c)] # Directory
  <2>1. UNCHANGED <<plan, base>> /\ pc[c] = "commit" /\ result[c] = "none"
    BY <1>3, <1>18 DEF Commit, PublishOnly, ProgressInv
  <2>2. next'[c] = next[c] + 1
    BY <1>1, <1>18 DEF Commit
  <2>3. \/ pc'[c] = "closing" /\ result'[c] = "ok" /\ next'[c] > Len(plan[c])
        \/ pc'[c] = "probe" /\ result' = result /\ ~(next'[c] > Len(plan[c]))
    BY <1>1, <1>18 DEF Commit, Goto, Finish
  <2>4. ~req[c].preview /\ next[c] <= Len(plan[c])
    BY <1>3, <2>1 DEF ProgressInv, Publishing
  <2>5. /\ plan' = plan /\ base' = base /\ req' = req /\ next[c] \in Nat /\ Len(plan[c]) \in Nat
        /\ ~req[c].append => base[c] = << >>
    BY <1>2, <1>3, <2>1 DEF ProgressInv
  <2>6. CASE pc'[c] = "closing" /\ result'[c] = "ok" /\ next'[c] > Len(plan[c])
    <3>1. next'[c] = Len(plan[c]) + 1
      BY <2>2, <2>4, <2>5, <2>6
    <3>2. QED
      BY ONLY <1>4, <2>5, <2>6, <3>1 DEF ProgressInv, Publishing, BeforeSpans
  <2>7. CASE pc'[c] = "probe" /\ result' = result /\ ~(next'[c] > Len(plan[c]))
    <3>1. next'[c] <= Len(plan[c]) /\ next'[c] <= Len(plan[c]) + 1
      BY <2>2, <2>5, <2>7
    <3>2. QED
      BY ONLY <1>4, <2>1, <2>4, <2>5, <2>7, <3>1 DEF ProgressInv, Publishing, BeforeSpans
  <2>8. QED
    BY <2>3, <2>6, <2>7
<1>19. QED
  BY <1>6, <1>7, <1>8, <1>9, <1>10, <1>11, <1>12, <1>13, <1>14, <1>15, <1>16, <1>17, <1>18 DEF Step

-----------------------------------------------------------------------------
(* All calls, and everything that can happen around them.                  *)

OwnOf(d) == <<pc[d], result[d], at[d], open[d], found[d], span[d], seen[d], plan[d], next[d], base[d]>>

LEMMA LocalFrame ==
  ASSUME NEW d \in Call, Local(d), OwnOf(d)' = OwnOf(d), req' = req,
         Len(source') = Len(source), idle' \subseteq idle
  PROVE  Local(d)'
<1>1. /\ pc'[d] = pc[d] /\ result'[d] = result[d] /\ at'[d] = at[d] /\ open'[d] = open[d]
      /\ found'[d] = found[d] /\ span'[d] = span[d] /\ seen'[d] = seen[d]
      /\ plan'[d] = plan[d] /\ next'[d] = next[d] /\ base'[d] = base[d]
  BY DEF OwnOf
<1>2. ScanInv(d)' /\ SpanInv(d)'
  BY <1>1 DEF Local, ScanInv, SpanInv, Fits, Size
<1>3. RoomInv(d)' /\ PlanInv(d)'
  BY <1>1 DEF Local, RoomInv, PlanInv, Limit, Fits, Size
<1>4. ProgressInv(d)'
  BY <1>1 DEF Local, ProgressInv, Publishing
<1>5. WellFormed(req[d])'
  BY DEF Local, WellFormed
<1>6. QED
  BY <1>2, <1>3, <1>4, <1>5 DEF Local

LEMMA OthersAsWere ==
  ASSUME SpanOutputsTypeOK, NEW c \in Call, Local(c), Make(c) \/ Step(c) \/ StepFails(c)
  PROVE  \A d \in Call \ {c} : OwnOf(d)' = OwnOf(d)
BY Moves, Cursors, Plans DEF OwnOf

LEMMA OwnTypes ==
  ASSUME SpanOutputsTypeOK, NEW c \in Call, Local(c), Make(c) \/ Step(c) \/ StepFails(c)
  PROVE  SpanOutputsTypeOK'
<1>1. /\ pc' \in [Call -> Stage] /\ result' \in [Call -> Outcome]
      /\ at' \in [Call -> Nat \ {0}] /\ open' \in [Call -> Nat] /\ found' \in [Call -> Nat]
      /\ span' \in [Call -> Span] /\ seen' \in [Call -> Content]
      /\ plan' \in [Call -> Seq(Planned)] /\ next' \in [Call -> Nat \ {0}]
      /\ base' \in [Call -> Content] /\ snapshot' \in [Call -> Content]
  BY Moves, Cursors, Plans
<1>2. /\ req' \in [Call -> Request] /\ idle' \subseteq Call \cup Writer /\ source' \in Content
      /\ edits' \in Nat /\ others' \in Nat /\ undone' \subseteq Call
  BY Leaves DEF SpanOutputsTypeOK
<1>3. mu' \in Call \cup {Free}
  <2>1. mu' \in {mu, c, Free}
    BY Leaves DEF Enter, Return
  <2>2. QED
    BY <2>1 DEF SpanOutputsTypeOK
<1>4. FileLockTypeOK({Source}, Call \cup Writer)'
  <2>1. FileLockTypeOK({Source}, Call \cup Writer)
    BY DEF SpanOutputsTypeOK
  <2>2. CASE OpenSource(c)
    BY <2>1, <2>2 DEF OpenSource, LockShared, FileLockTypeOK
  <2>3. CASE Return(c)
    BY <2>1, <2>3 DEF Return, ReleaseLocks, FileLockTypeOK
  <2>4. QED
    BY <2>1, <2>2, <2>3, Leaves DEF FileLockTypeOK, lockVars
<1>5. store' \in [Path -> Holding] /\ owner' \in [Path -> Call \cup {Free}]
  <2>1. store \in [Path -> Holding] /\ owner \in [Path -> Call \cup {Free}]
    BY DEF SpanOutputsTypeOK
  <2>2. CASE ~(UNCHANGED <<store, owner>>)
    <3>1. base[c] \o seen[c] \in Holding
      <4>1. base[c] \in Seq(Cell) /\ seen[c] \in Seq(Cell)
        BY Typed
      <4>2. base[c] \o seen[c] \in Seq(Cell)
        BY <4>1
      <4>3. QED
        BY <4>2 DEF Content, Holding
    <3>2. store' = [store EXCEPT ![Destination(c)] = base[c] \o seen[c]]
          /\ owner' = [owner EXCEPT ![Destination(c)] = c]
      <4>1. Commit(c)
        BY <2>2, Leaves
      <4>2. QED
        BY <2>2, <4>1 DEF Commit
    <3>3. QED
      BY <2>1, <3>1, <3>2
  <2>3. CASE UNCHANGED <<store, owner>>
    BY <2>1, <2>3
  <2>4. QED
    BY <2>2, <2>3
<1>10. folder' \in Folder
  BY Leaves DEF SpanOutputsTypeOK, Prepare, Mkdir, Folder
<1>6. began' \in [Call -> [source : Content, store : [Path -> Holding], folder : Folder]]
  <2>1. CASE Enter(c)
    <3>1. [source |-> source, store |-> store, folder |-> folder]
            \in [source : Content, store : [Path -> Holding], folder : Folder]
      BY DEF SpanOutputsTypeOK
    <3>2. began \in [Call -> [source : Content, store : [Path -> Holding], folder : Folder]]
      BY DEF SpanOutputsTypeOK
    <3>3. began' = [began EXCEPT ![c] = [source |-> source, store |-> store, folder |-> folder]]
      BY <2>1 DEF Enter
    <3>4. QED
      BY <3>1, <3>2, <3>3
  <2>2. QED
    BY <2>1, Leaves DEF SpanOutputsTypeOK
<1>7. disturbed' \subseteq Call
  <2>1. disturbed' \subseteq disturbed \cup Call
    BY DEF Make, Step, StepFails, Enter, OpenSource, SplitLine, SplitEnd, BlocksLine, BlocksEnd,
       ExtractLine, ExtractEnd, Validate, ReadSpan, Hashed, Prepare, Preflight, Probe, Verify,
       Commit, Return, ScanOnly, PlanOnly, historyVars, Mkdir
  <2>2. QED
    BY <2>1 DEF SpanOutputsTypeOK
<1>8. \A d \in Call : Len(plan'[d]) <= Len(req'[d].dest)
  <2>1. Len(plan'[c]) <= Len(req'[c].dest)
    BY RoomKept DEF RoomInv, Limit
  <2>2. \A d \in Call \ {c} : plan'[d] = plan[d] /\ req' = req
    BY Plans, Leaves
  <2>3. QED
    BY <2>1, <2>2 DEF SpanOutputsTypeOK
<1>9. QED
  BY <1>1, <1>2, <1>3, <1>4, <1>5, <1>6, <1>7, <1>8, <1>10 DEF SpanOutputsTypeOK

(* What can happen around the calls, and what it leaves of them.           *)
LEMMA Edited ==
  ASSUME SpanOutputsTypeOK, NEW i \in 1..Len(source), NEW cell \in Cell, Edit(i, cell)
  PROVE  /\ source' \in Content /\ Len(source') = Len(source)
         /\ \A j \in 1..Len(source) : source'[j] = IF j = i THEN cell ELSE source[j]
<1>1. source \in Seq(Cell) /\ source' = [source EXCEPT ![i] = cell]
  BY DEF SpanOutputsTypeOK, Content, Edit
<1>2. QED
  BY <1>1 DEF Content

LEMMA AroundTypes ==
  ASSUME SpanOutputsTypeOK,
         \/ \E calls \in SUBSET Call : Die(calls)
         \/ \E i \in 1..Len(source), cell \in Cell : Edit(i, cell)
         \/ \E p \in Path : Occupy(p)
         \/ \E w \in Writer : WriterLocks(w) \/ WriterReleases(w)
  PROVE  SpanOutputsTypeOK'
<1>1. ASSUME NEW calls \in SUBSET Call, Die(calls) PROVE SpanOutputsTypeOK'
  <2>1. pc' \in [Call -> Stage] /\ mu' \in Call \cup {Free}
    BY <1>1 DEF Die, SpanOutputsTypeOK, Stage
  <2>2. FileLockTypeOK({Source}, Call \cup Writer)'
    BY <1>1 DEF Die, SpanOutputsTypeOK, FileLockTypeOK, ReleaseLocks
  <2>3. /\ UNCHANGED <<req, result, span, seen, plan, next, base, at, open, found>>
        /\ UNCHANGED <<idle, source, store, folder, owner, edits, others, snapshot, undone, disturbed, began>>
    BY <1>1 DEF Die, scanVars, worldVars, historyVars
  <2>4. QED
    BY <2>1, <2>2, <2>3 DEF SpanOutputsTypeOK
<1>2. ASSUME NEW i \in 1..Len(source), NEW cell \in Cell, Edit(i, cell) PROVE SpanOutputsTypeOK'
  <2>1. source' \in Content
    BY <1>2, Edited
  <2>2. edits' \in Nat /\ undone' \subseteq Call /\ disturbed' \subseteq Call
    BY <1>2 DEF Edit, SpanOutputsTypeOK
  <2>3. FileLockTypeOK({Source}, Call \cup Writer)'
    BY <1>2 DEF Edit, SpanOutputsTypeOK, FileLockTypeOK, lockVars
  <2>4. /\ UNCHANGED <<req, pc, result, mu, span, seen, plan, next, base, at, open, found>>
        /\ UNCHANGED <<idle, store, folder, owner, others, snapshot, began>>
    BY <1>2 DEF Edit, scanVars
  <2>5. QED
    BY <2>1, <2>2, <2>3, <2>4 DEF SpanOutputsTypeOK
<1>3. ASSUME NEW p \in Path, Occupy(p) PROVE SpanOutputsTypeOK'
  <2>1. others' \in Nat /\ disturbed' \subseteq Call
    BY <1>3 DEF Occupy, SpanOutputsTypeOK
  <2>2. << >> \in Holding /\ folder' \in Folder
    BY <1>3 DEF Content, Holding, Folder, Occupy, SpanOutputsTypeOK
  <2>3. store' \in [Path -> Holding] /\ owner' \in [Path -> Call \cup {Free}]
    BY <1>3, <2>2 DEF Occupy, SpanOutputsTypeOK
  <2>4. FileLockTypeOK({Source}, Call \cup Writer)'
    BY <1>3 DEF Occupy, SpanOutputsTypeOK, FileLockTypeOK, lockVars
  <2>5. /\ UNCHANGED <<req, pc, result, mu, span, seen, plan, next, base, at, open, found>>
        /\ UNCHANGED <<idle, source, edits, snapshot, undone, began>>
    BY <1>3 DEF Occupy, scanVars
  <2>6. QED
    BY <2>1, <2>2, <2>3, <2>4, <2>5 DEF SpanOutputsTypeOK
<1>4. ASSUME NEW w \in Writer, WriterLocks(w) \/ WriterReleases(w) PROVE SpanOutputsTypeOK'
  <2>1. idle' \subseteq idle
    BY <1>4 DEF WriterLocks, WriterReleases, worldVars
  <2>2. FileLockTypeOK({Source}, Call \cup Writer)'
    BY <1>4 DEF WriterLocks, WriterReleases, LockExclusive, ReleaseLocks, SpanOutputsTypeOK, FileLockTypeOK
  <2>3. /\ UNCHANGED <<req, pc, result, mu, span, seen, plan, next, base, at, open, found>>
        /\ UNCHANGED <<source, store, folder, owner, edits, others, snapshot, undone, disturbed, began>>
    BY <1>4 DEF WriterLocks, WriterReleases, scanVars, worldVars, historyVars
  <2>4. QED
    BY <2>1, <2>2, <2>3 DEF SpanOutputsTypeOK
<1>5. QED
  BY <1>1, <1>2, <1>3, <1>4

LEMMA AroundLocal ==
  ASSUME SpanOutputsTypeOK, NEW d \in Call, Local(d),
         \/ \E calls \in SUBSET Call : Die(calls)
         \/ \E i \in 1..Len(source), cell \in Cell : Edit(i, cell)
         \/ \E p \in Path : Occupy(p)
         \/ \E w \in Writer : WriterLocks(w) \/ WriterReleases(w)
  PROVE  Local(d)'
<1>1. ASSUME NEW calls \in SUBSET Call, Die(calls) PROVE Local(d)'
  <2>1. /\ UNCHANGED <<req, result, span, seen, plan, next, base, at, open, found, idle, source>>
        /\ pc'[d] = pc[d] \/ (pc'[d] = "dead" /\ pc[d] # "idle")
    BY <1>1 DEF Die, scanVars, worldVars
  <2>2. CASE pc'[d] = pc[d]
    BY <2>1, <2>2, LocalFrame DEF OwnOf
  <2>3. CASE pc'[d] = "dead" /\ pc[d] # "idle"
    <3>1. ScanInv(d)' /\ SpanInv(d)'
      BY <2>1, <2>3 DEF Local, ScanInv, SpanInv, Fits, Size, BeforeSpans
    <3>2. RoomInv(d)' /\ PlanInv(d)'
      BY <2>1, <2>3 DEF Local, RoomInv, PlanInv, Limit, Fits, Size, BeforeSpans
    <3>3. ProgressInv(d)'
      BY <2>1, <2>3 DEF Local, ProgressInv, Publishing, BeforeSpans
    <3>4. WellFormed(req[d])'
      BY <2>1 DEF Local, WellFormed
    <3>5. QED
      BY <3>1, <3>2, <3>3, <3>4 DEF Local
  <2>4. QED
    BY <2>1, <2>2, <2>3
<1>2. ASSUME NEW i \in 1..Len(source), NEW cell \in Cell, Edit(i, cell) PROVE Local(d)'
  <2>1. Len(source') = Len(source)
    BY <1>2, Edited
  <2>2. OwnOf(d)' = OwnOf(d) /\ req' = req /\ idle' \subseteq idle
    BY <1>2 DEF Edit, scanVars, OwnOf
  <2>3. QED
    BY <2>1, <2>2, LocalFrame
<1>3. ASSUME NEW p \in Path, Occupy(p) PROVE Local(d)'
  <2>1. OwnOf(d)' = OwnOf(d) /\ req' = req /\ idle' \subseteq idle /\ source' = source
    BY <1>3 DEF Occupy, scanVars, OwnOf
  <2>2. QED
    BY <2>1, LocalFrame
<1>4. ASSUME NEW w \in Writer, WriterLocks(w) \/ WriterReleases(w) PROVE Local(d)'
  <2>1. OwnOf(d)' = OwnOf(d) /\ req' = req /\ idle' \subseteq idle /\ source' = source
    BY <1>4 DEF WriterLocks, WriterReleases, scanVars, worldVars, OwnOf
  <2>2. QED
    BY <2>1, LocalFrame
<1>5. QED
  BY <1>1, <1>2, <1>3, <1>4

(* One step of the system: types, and what is said of each call alone.     *)
LEMMA StepKinds ==
  ASSUME Next
  PROVE  \/ \E c \in Call : Make(c) \/ Step(c) \/ StepFails(c)
         \/ \E calls \in SUBSET Call : Die(calls)
         \/ \E i \in 1..Len(source), cell \in Cell : Edit(i, cell)
         \/ \E p \in Path : Occupy(p)
         \/ \E w \in Writer : WriterLocks(w) \/ WriterReleases(w)
<1>1. Served \in SUBSET Call /\ \A c \in Call : {c} \in SUBSET Call
  OBVIOUS
<1>2. QED
  BY <1>1 DEF Next

LEMMA TypesKept ==
  ASSUME SpanOutputsTypeOK, \A c \in Call : Local(c), Next
  PROVE  SpanOutputsTypeOK' /\ \A c \in Call : Local(c)'
<1>1. ASSUME NEW c \in Call, Make(c) \/ Step(c) \/ StepFails(c)
      PROVE  SpanOutputsTypeOK' /\ \A d \in Call : Local(d)'
  <2>1. SpanOutputsTypeOK'
    BY <1>1, OwnTypes
  <2>2. Local(c)'
    <3>1. WellFormed(req[c])'
      BY <1>1, Leaves DEF Local, WellFormed
    <3>2. QED
      BY <1>1, <3>1, ScanKept, SpanKept, RoomKept, PlanKept, ProgressKept DEF Local
  <2>3. \A d \in Call \ {c} : Local(d)'
    <3>1. req' = req /\ source' = source /\ idle' \subseteq idle
      BY <1>1, Leaves
    <3>2. \A d \in Call \ {c} : OwnOf(d)' = OwnOf(d)
      BY <1>1, OthersAsWere
    <3>3. QED
      BY <3>1, <3>2, LocalFrame
  <2>4. QED
    BY <2>1, <2>2, <2>3
<1>2. CASE ~\E c \in Call : Make(c) \/ Step(c) \/ StepFails(c)
  BY <1>2, StepKinds, AroundTypes, AroundLocal
<1>3. QED
  BY <1>1, <1>2

LEMMA Starts ==
  ASSUME Init
  PROVE  SpanOutputsTypeOK /\ \A c \in Call : Local(c)
<1>1. PICK load \in Workloads :
        /\ source = load.source /\ req = load.req /\ idle = load.calls
        /\ edits = load.edits /\ others = load.others
        /\ store = [p \in Path |-> IF p \in load.taken THEN Directory ELSE Nothing]
        /\ folder = load.folder
  BY DEF Init
<1>2. /\ source \in Content /\ idle \subseteq Call \cup Writer /\ req \in [Call -> Request]
      /\ edits \in Nat /\ others \in Nat
      /\ \A c \in Call : WellFormed(req[c])
  BY <1>1, WorkloadsAssumption DEF Content
<1>3. << >> \in Content /\ Len(source) \in Nat /\ Free \notin Call
  BY <1>2 DEF Content
<1>4. \A c \in Call : Len(req[c].dest) > 0 /\ Len(req[c].dest) \in Nat
  BY <1>2 DEF WellFormed, Request
<1>5. SpanOutputsTypeOK
  <2>1. /\ pc \in [Call -> Stage] /\ result \in [Call -> Outcome] /\ mu \in Call \cup {Free}
        /\ at \in [Call -> Nat \ {0}] /\ open \in [Call -> Nat] /\ found \in [Call -> Nat]
        /\ next \in [Call -> Nat \ {0}]
    BY DEF Init, Stage, Outcome
  <2>2. span \in [Call -> Span]
    BY DEF Init, NoSpan, Span
  <2>3. /\ seen \in [Call -> Content] /\ base \in [Call -> Content] /\ snapshot \in [Call -> Content]
    BY <1>3 DEF Init
  <2>4. plan \in [Call -> Seq(Planned)] /\ \A c \in Call : Len(plan[c]) = 0
    BY DEF Init
  <2>5. /\ store \in [Path -> Holding] /\ owner \in [Path -> Call \cup {Free}]
        /\ folder \in Folder
    BY <1>1, WorkloadsAssumption DEF Init, Holding
  <2>6. began \in [Call -> [source : Content, store : [Path -> Holding], folder : Folder]]
    BY <1>3, <2>5 DEF Init
  <2>7. FileLockTypeOK({Source}, Call \cup Writer) /\ undone \subseteq Call /\ disturbed \subseteq Call
    BY DEF Init, NoLocks, FileLockTypeOK
  <2>8. \A c \in Call : Len(plan[c]) <= Len(req[c].dest)
    BY <1>4, <2>4
  <2>9. QED
    BY <1>2, <2>1, <2>2, <2>3, <2>4, <2>5, <2>6, <2>7, <2>8 DEF SpanOutputsTypeOK
<1>6. ASSUME NEW c \in Call PROVE Local(c)
  <2>1. /\ pc[c] = "idle" /\ result[c] = "none" /\ at[c] = 1 /\ found[c] = 0
        /\ open[c] = IF req[c].op = "extract" THEN 1 ELSE 0
        /\ span[c].from = 1 /\ span[c].to = 0 /\ seen[c] = << >>
        /\ plan[c] = << >> /\ next[c] = 1 /\ base[c] = << >>
    BY DEF Init, NoSpan
  <2>2. ScanInv(c) /\ SpanInv(c)
    BY <1>3, <2>1 DEF ScanInv, SpanInv, Fits, BeforeSpans
  <2>3. RoomInv(c) /\ PlanInv(c)
    BY <1>4, <2>1 DEF RoomInv, PlanInv, Limit
  <2>4. ProgressInv(c)
    BY <2>1 DEF ProgressInv, Publishing
  <2>5. QED
    BY <1>2, <2>2, <2>3, <2>4 DEF Local
<1>7. QED
  BY <1>5, <1>6

-----------------------------------------------------------------------------
(* The outputs, the lock and the mutex.                                    *)

(* The stages between the opening of the source and its closing.           *)
Working == {"preflight", "scan", "hash", "validate", "planned", "probe", "copy", "commit"}

LEMMA Course ==
  ASSUME SpanOutputsTypeOK, NEW c \in Call, Local(c), Make(c) \/ Step(c) \/ StepFails(c)
  PROVE  \/ /\ Make(c) \/ Enter(c) \/ OpenSource(c) \/ Return(c)
            /\ pc'[c] \notin {"copy", "commit"}
         \/ Probe(c)
         \/ /\ pc[c] \in Working \cup {"open"} /\ pc'[c] = "closing"
         \/ /\ pc[c] \in Working /\ pc'[c] \in Working
            /\ pc'[c] \in {"copy", "commit"} => pc[c] \in {"copy", "commit"} /\ next' = next
<1>1. pc \in [Call -> Stage]
  BY DEF SpanOutputsTypeOK
<1>2. CASE Make(c) \/ Enter(c) \/ OpenSource(c) \/ Return(c)
  BY <1>1, <1>2 DEF Make, Enter, OpenSource, Return, Goto
<1>3. CASE StepFails(c)
  BY <1>1, <1>3, Typed DEF StepFails, Running, Finish, Stage, Working
<1>4. CASE SplitLine(c) \/ SplitEnd(c) \/ BlocksLine(c) \/ BlocksEnd(c)
  <2>1. pc[c] = "scan"
    BY <1>4 DEF SplitLine, SplitEnd, BlocksLine, BlocksEnd, Scanning
  <2>2. \/ UNCHANGED pc
        \/ \E s \in {"scan", "hash", "planned"} : Goto(c, s)
        \/ \E r \in Outcome : Finish(c, r)
    BY <1>4 DEF SplitLine, SplitEnd, BlocksLine, BlocksEnd, Advance, StartRead, OpenSection,
                OpenBlock, CloseBlock, Outcome
  <2>3. pc'[c] \in {"scan", "hash", "planned", "closing"}
    BY <1>1, <2>1, <2>2 DEF Goto, Finish
  <2>4. QED
    BY <2>1, <2>3 DEF Working
<1>5. CASE ExtractLine(c) \/ ExtractEnd(c) \/ Validate(c)
  <2>1. pc[c] \in {"scan", "validate"}
    BY <1>5 DEF ExtractLine, ExtractEnd, Validate, Scanning
  <2>2. UNCHANGED pc \/ (\E s \in {"hash", "validate"} : Goto(c, s)) \/ (\E r \in Outcome : Finish(c, r))
    BY <1>5 DEF ExtractLine, ExtractEnd, EndLine, Advance, Validate, StartRead, Outcome
  <2>3. pc'[c] \in {"scan", "hash", "validate", "closing"}
    BY <1>1, <2>1, <2>2 DEF Goto, Finish
  <2>4. QED
    BY <2>1, <2>3 DEF Working
<1>6. CASE ReadSpan(c)
  BY <1>6 DEF ReadSpan, Working
<1>7. CASE Hashed(c)
  BY <1>1, <1>7 DEF Hashed, OpenSection, Goto, Finish, Working
<1>8. CASE Prepare(c)
  BY <1>1, <1>8 DEF Prepare, Goto, Finish, Working
<1>9. CASE Preflight(c)
  BY <1>1, <1>9 DEF Preflight, Goto, Finish, Working
<1>10. CASE Verify(c)
  BY <1>1, <1>10 DEF Verify, Goto, Finish, Working
<1>11. CASE Commit(c)
  BY <1>1, <1>11 DEF Commit, Goto, Finish, Working
<1>12. CASE Probe(c)
  BY <1>12
<1>13. QED
  BY <1>2, <1>3, <1>4, <1>5, <1>6, <1>7, <1>8, <1>9, <1>10, <1>11, <1>12 DEF Step

LEMMA ProbeMoves ==
  ASSUME SpanOutputsTypeOK, NEW c \in Call, Probe(c)
  PROVE  pc[c] = "probe" /\ pc'[c] \in {"copy", "closing"}
BY DEF Probe, StartRead, Goto, Finish, SpanOutputsTypeOK

LEMMA DestinationIsPath ==
  ASSUME SpanOutputsTypeOK, NEW c \in Call, Local(c), next[c] <= Len(plan[c])
  PROVE  next[c] \in 1..Len(req[c].dest) /\ Destination(c) \in Path
<1>1. /\ next[c] \in Nat \ {0} /\ Len(plan[c]) \in Nat /\ Len(req[c].dest) \in Nat
      /\ req[c].dest \in Seq(Path) /\ Len(plan[c]) <= Len(req[c].dest)
  BY Typed DEF Request, SpanOutputsTypeOK
<1>2. QED
  BY <1>1 DEF Destination

(* An append has one output, and looks at its destination before it has    *)
(* published anything: what it found there never changes afterwards.       *)
LEMMA BaseStays ==
  ASSUME SpanOutputsTypeOK, NEW c \in Call, Local(c), Probe(c)
  PROVE  base'[c] = base[c] \/ next[c] = 1
<1>1. pc[c] = "probe" /\ next[c] <= Len(plan[c]) /\ (~req[c].append => base[c] = << >>)
  BY DEF Probe, Local, ProgressInv, Publishing
<1>2. CASE req[c].append
  <2>1. Len(req[c].dest) = 1
    BY <1>2 DEF Local, WellFormed
  <2>2. next[c] \in 1..Len(req[c].dest)
    BY <1>1, DestinationIsPath
  <2>3. next[c] = 1
    BY ONLY <2>1, <2>2
  <2>4. QED
    BY <2>3
<1>3. CASE ~req[c].append
  BY <1>1, <1>3 DEF Probe, SpanOutputsTypeOK
<1>4. QED
  BY <1>2, <1>3

LEMMA OutputsKeptByCalls ==
  ASSUME SpanOutputsTypeOK, \A d \in Call : Local(d), Outputs,
         NEW c \in Call, Make(c) \/ Step(c) \/ StepFails(c)
  PROVE  Outputs'
<1>1. /\ Local(c) /\ req' = req
      /\ \A d \in Call \ {c} : plan'[d] = plan[d] /\ next'[d] = next[d] /\ base'[d] = base[d]
      /\ \A d \in Call : next[d] \in Nat \ {0}
      /\ owner \in [Path -> Call \cup {Free}] /\ Free \notin Call
  BY Leaves, Plans DEF SpanOutputsTypeOK
<1>2. CASE Commit(c) /\ store[Destination(c)] # Directory
  <2>1. /\ pc[c] = "commit" /\ ~req[c].preview /\ next[c] <= Len(plan[c])
        /\ seen[c] = plan[c][next[c]].digest
    BY <1>2 DEF Commit, Local, ProgressInv, Publishing
  <2>2. Destination(c) \in Path /\ Destination(c) = req[c].dest[next[c]]
    BY <1>1, <2>1, DestinationIsPath DEF Destination
  <2>3. base[c] \o seen[c] \in Seq(Cell)
    BY Typed
  <2>4. /\ store' = [store EXCEPT ![Destination(c)] = base[c] \o seen[c]]
        /\ owner' = [owner EXCEPT ![Destination(c)] = c]
        /\ next' = [next EXCEPT ![c] = @ + 1]
        /\ plan' = plan /\ base' = base
    BY <1>2, Plans DEF Commit, PublishOnly
  <2>5. next'[c] = next[c] + 1 /\ \A d \in Call \ {c} : next'[d] = next[d]
    BY <1>1, <2>4 DEF SpanOutputsTypeOK
  <2>6. /\ store'[Destination(c)] = base[c] \o plan[c][next[c]].digest /\ owner'[Destination(c)] = c
        /\ store'[Destination(c)] # Nothing
        /\ \A p \in Path \ {Destination(c)} : store'[p] = store[p] /\ owner'[p] = owner[p]
    BY <2>1, <2>2, <2>3, <2>4 DEF SpanOutputsTypeOK
  <2>7. ASSUME NEW d \in Call, NEW p \in Path, owner'[p] = d
        PROVE  ~req'[d].preview /\ \E k \in Nat : Passed(d, k, p)'
    <3>1. CASE p = Destination(c)
      <4>1. d = c /\ next[c] \in 1..(next'[c] - 1)
        BY <1>1, <2>5, <2>6, <2>7, <3>1
      <4>2. req'[c].dest[next[c]] = p /\ store'[p] = base'[c] \o plan'[c][next[c]].digest
        BY <1>1, <2>2, <2>4, <2>6, <3>1
      <4>3. QED
        BY <1>1, <2>1, <4>1, <4>2 DEF Passed
    <3>2. CASE p # Destination(c)
      <4>1. owner[p] = d /\ store'[p] = store[p]
        BY <2>6, <2>7, <3>2
      <4>2. ~req[d].preview
        BY <4>1 DEF Outputs
      <4>3. PICK k \in Nat : Passed(d, k, p)
        BY <4>1 DEF Outputs
      <4>4. k \in 1..(next'[d] - 1)
        BY <1>1, <2>5, <4>3 DEF Passed
      <4>5. Passed(d, k, p)'
        BY <1>1, <2>4, <4>1, <4>3, <4>4 DEF Passed
      <4>6. QED
        BY <1>1, <4>2, <4>5
    <3>3. QED
      BY <3>1, <3>2
  <2>8. ASSUME NEW p \in Path, owner'[p] # Free PROVE store'[p] # Nothing
    BY <2>6, <2>8 DEF Outputs
  <2>9. ASSUME NEW d \in Call, ~req'[d].preview, NEW k \in 1..(next'[d] - 1)
        PROVE  store'[req'[d].dest[k]] # Nothing
    <3>1. CASE d = c /\ k = next[c]
      BY <1>1, <2>2, <2>6, <3>1
    <3>2. CASE ~(d = c /\ k = next[c])
      <4>1. k \in 1..(next[d] - 1)
        BY <1>1, <2>5, <2>9, <3>2
      <4>2. store[req[d].dest[k]] # Nothing
        BY <1>1, <2>9, <4>1 DEF Outputs
      <4>3. req[d].dest[k] \in Path
        <5>1. /\ Len(plan[d]) \in Nat /\ Len(req[d].dest) \in Nat /\ req[d].dest \in Seq(Path)
              /\ Len(plan[d]) <= Len(req[d].dest)
          BY Typed DEF Request, SpanOutputsTypeOK
        <5>2. next[d] <= Len(plan[d]) + 1
          BY <1>1, <2>9 DEF Local, ProgressInv
        <5>3. QED
          BY <1>1, <4>1, <5>1, <5>2
      <4>4. QED
        BY <1>1, <2>6, <4>2, <4>3
    <3>3. QED
      BY <3>1, <3>2
  <2>10. QED
    BY <2>7, <2>8, <2>9 DEF Outputs
<1>3. CASE ~Commit(c) \/ store[Destination(c)] = Directory
  <2>1. store' = store /\ owner' = owner
    BY <1>3, Leaves DEF Commit
  <2>2. \A d \in Call : ~req[d].preview => next'[d] = next[d]
    <3>1. Preflight(c) => req[c].preview
      BY DEF Preflight, Local, ProgressInv
    <3>2. Commit(c) => next' = next
      BY <1>3 DEF Commit
    <3>3. ~req[c].preview => next' = next
      BY <3>1, <3>2, Plans
    <3>4. QED
      BY <1>1, <3>3
  <2>3. ASSUME NEW d \in Call, ~req[d].preview, NEW k \in 1..(next[d] - 1)
        PROVE  plan'[d][k] = plan[d][k] /\ base'[d] = base[d]
    <3>1. CASE Hashed(c) /\ d = c
      <4>1. next[c] = 1
        BY <2>3, <3>1 DEF Hashed, Local, ProgressInv
      <4>2. QED
        BY <2>3, <3>1, <4>1
    <3>2. CASE Probe(c) /\ d = c
      <4>1. next[c] # 1
        BY <1>1, <2>3, <3>2
      <4>2. base'[c] = base[c]
        BY <3>2, <4>1, BaseStays
      <4>3. plan' = plan
        BY <3>2, Plans DEF Probe, PublishOnly
      <4>4. QED
        BY <3>2, <4>2, <4>3
    <3>3. QED
      BY <1>1, <3>1, <3>2, Plans
  <2>4. ASSUME NEW d \in Call, NEW p \in Path, owner[p] = d
        PROVE  ~req[d].preview /\ \E k \in Nat : Passed(d, k, p)'
    <3>1. ~req[d].preview
      BY <2>4 DEF Outputs
    <3>2. PICK k \in Nat : Passed(d, k, p)
      BY <2>4 DEF Outputs
    <3>3. plan'[d][k] = plan[d][k] /\ base'[d] = base[d] /\ next'[d] = next[d]
      BY <2>2, <2>3, <3>1, <3>2 DEF Passed
    <3>4. Passed(d, k, p)'
      BY <1>1, <2>1, <3>2, <3>3 DEF Passed
    <3>5. QED
      BY <3>1, <3>4
  <2>5. QED
    BY <1>1, <2>1, <2>2, <2>4 DEF Outputs
<1>4. QED
  BY <1>2, <1>3

LEMMA OutputsKept ==
  ASSUME SpanOutputsTypeOK, \A d \in Call : Local(d), Outputs, Next
  PROVE  Outputs'
<1>1. CASE \E c \in Call : Make(c) \/ Step(c) \/ StepFails(c)
  BY <1>1, OutputsKeptByCalls
<1>2. ASSUME NEW p \in Path, Occupy(p) PROVE Outputs'
  <2>1. /\ UNCHANGED <<req, next, plan, base>>
        /\ store' = [store EXCEPT ![p] = << >>] /\ owner' = [owner EXCEPT ![p] = Free]
    BY <1>2 DEF Occupy
  <2>2. << >> # Nothing /\ Free \notin Call
    BY << >> \in Seq(Cell)
  <2>3. store'[p] # Nothing /\ \A q : store[q] # Nothing => store'[q] # Nothing
    BY <2>1, <2>2 DEF SpanOutputsTypeOK
  <2>4. owner'[p] = Free /\ \A q \in Path \ {p} : owner'[q] = owner[q] /\ store'[q] = store[q]
    BY <2>1 DEF SpanOutputsTypeOK
  <2>5. ASSUME NEW d \in Call, NEW q \in Path, owner'[q] = d
        PROVE  ~req'[d].preview /\ \E k \in Nat : Passed(d, k, q)'
    <3>1. q # p /\ owner[q] = d /\ store'[q] = store[q]
      BY <2>2, <2>4, <2>5
    <3>2. PICK k \in Nat : Passed(d, k, q)
      BY <3>1 DEF Outputs
    <3>3. Passed(d, k, q)'
      BY <2>1, <3>1, <3>2 DEF Passed
    <3>4. QED
      BY <2>1, <3>1, <3>3 DEF Outputs
  <2>6. \A q \in Path : owner'[q] # Free => store'[q] # Nothing
    BY <2>3, <2>4 DEF Outputs
  <2>7. ASSUME NEW d \in Call, ~req'[d].preview, NEW k \in 1..(next'[d] - 1)
        PROVE  store'[req'[d].dest[k]] # Nothing
    BY <2>1, <2>3, <2>7 DEF Outputs
  <2>8. QED
    BY <2>5, <2>6, <2>7 DEF Outputs
<1>3. ASSUME UNCHANGED <<req, next, plan, base, store, owner>> PROVE Outputs'
  <2>1. \A d \in Call, p \in Path, k \in Nat : Passed(d, k, p)' <=> Passed(d, k, p)
    BY <1>3 DEF Passed
  <2>2. QED
    BY <1>3, <2>1 DEF Outputs
<1>4. CASE \E calls \in SUBSET Call : Die(calls)
  BY <1>3, <1>4 DEF Die, worldVars
<1>5. CASE \E i \in 1..Len(source), cell \in Cell : Edit(i, cell)
  BY <1>3, <1>5 DEF Edit
<1>6. CASE \E w \in Writer : WriterLocks(w) \/ WriterReleases(w)
  BY <1>3, <1>6 DEF WriterLocks, WriterReleases, worldVars
<1>7. QED
  BY <1>1, <1>2, <1>4, <1>5, <1>6, StepKinds

(* The lock: who holds it, and that no transform does meanwhile.           *)
Locked(d) ==
  /\ <<Source, d>> \in shared => pc[d] \in Working \cup {"closing"}
  /\ pc[d] \in Working => <<Source, d>> \in shared /\ exclusive = {}

LEMMA LockedMeans ==
  ASSUME SpanOutputsTypeOK
  PROVE  LockedUntilPublished <=> \A d \in Call : Locked(d)
<1>1. \A d \in Call : pc[d] \in Stage
  BY DEF SpanOutputsTypeOK
<1>2. \A d \in Call :
        /\ Running(d) /\ pc[d] # "open" <=> pc[d] \in Working \cup {"closing"}
        /\ Running(d) /\ pc[d] \notin {"open", "closing"} <=> pc[d] \in Working
  BY <1>1 DEF Running, Working, Stage
<1>3. QED
  BY <1>2 DEF LockedUntilPublished, Locked

LEMMA LockedKept ==
  ASSUME SpanOutputsTypeOK, \A d \in Call : Local(d), \A d \in Call : Locked(d), Next
  PROVE  \A d \in Call : Locked(d)'
<1>1. /\ shared \subseteq {Source} \X (Call \cup Writer)
      /\ exclusive \subseteq {Source} \X (Call \cup Writer)
  BY DEF SpanOutputsTypeOK, FileLockTypeOK
<1>2. ASSUME NEW c \in Call, Make(c) \/ Step(c) \/ StepFails(c), NEW d \in Call
      PROVE  Locked(d)'
  <2>1. exclusive' \subseteq exclusive /\ (~OpenSource(c) /\ ~Return(c) => shared' = shared)
    BY <1>2, Leaves DEF lockVars
  <2>2. pc \in [Call -> Stage] /\ \A e \in Call \ {c} : pc'[e] = pc[e]
    BY <1>2, Moves DEF SpanOutputsTypeOK
  <2>3. CASE d # c
    <3>1. pc'[d] = pc[d]
      BY <2>2, <2>3
    <3>2. <<Source, d>> \in shared' <=> <<Source, d>> \in shared
      BY <2>1, <2>3 DEF OpenSource, LockShared, Return, ReleaseLocks
    <3>3. exclusive = {} => exclusive' = {}
      BY <2>1
    <3>4. QED
      BY <3>1, <3>2, <3>3 DEF Locked
  <2>4. CASE d = c /\ OpenSource(c)
    <3>1. pc'[c] \in Working
      BY <2>2, <2>4 DEF OpenSource, Goto, Working
    <3>2. <<Source, c>> \in shared' /\ exclusive' = {}
      <4>1. \A lock \in exclusive : lock[1] # Source
        BY <2>4 DEF OpenSource, LockShared
      <4>2. exclusive = {}
        BY <1>1, <4>1
      <4>3. QED
        BY <2>4, <4>2 DEF OpenSource, LockShared
    <3>3. QED
      BY <2>4, <3>1, <3>2 DEF Locked
  <2>5. CASE d = c /\ Return(c)
    <3>1. pc'[c] = "returned" /\ <<Source, c>> \notin shared'
      BY <2>2, <2>5 DEF Return, Goto, ReleaseLocks
    <3>2. QED
      BY <2>5, <3>1 DEF Locked, Working
  <2>6. CASE d = c /\ (Make(c) \/ Enter(c))
    <3>1. pc[c] \in {"idle", "called"} /\ pc'[c] \in {"called", "open"} /\ shared' = shared
      <4>1. Make(c) => pc[c] = "idle"
        BY DEF Make, Local, ProgressInv
      <4>2. QED
        BY <2>2, <2>6, <4>1 DEF Make, Enter, Goto, lockVars
    <3>2. QED
      BY <2>6, <3>1 DEF Locked, Working
  <2>7. CASE d = c /\ ~OpenSource(c) /\ ~Return(c) /\ ~Make(c) /\ ~Enter(c)
    <3>1. \/ pc[c] \in Working \cup {"open"} /\ pc'[c] = "closing"
          \/ pc[c] \in Working /\ pc'[c] \in Working \cup {"closing"}
      BY <1>2, <2>7, Course, ProbeMoves DEF Working
    <3>2. shared' = shared /\ (exclusive = {} => exclusive' = {})
      BY <2>1, <2>7
    <3>3. QED
      BY <2>7, <3>1, <3>2 DEF Locked, Working
  <2>8. QED
    BY <2>3, <2>4, <2>5, <2>6, <2>7
<1>3. ASSUME NEW calls \in SUBSET Call, Die(calls), NEW d \in Call PROVE Locked(d)'
  <2>1. /\ pc'[d] = IF d \in calls /\ pc[d] \notin {"idle", "returned"} THEN "dead" ELSE pc[d]
        /\ <<Source, d>> \in shared' <=> <<Source, d>> \in shared /\ d \notin calls
        /\ exclusive' \subseteq exclusive
    BY <1>3 DEF Die, ReleaseLocks
  <2>2. QED
    BY <2>1 DEF Locked, Working
<1>4. ASSUME UNCHANGED <<pc, lockVars>>, NEW d \in Call PROVE Locked(d)'
  BY <1>4 DEF Locked, lockVars
<1>5. CASE \E i \in 1..Len(source), cell \in Cell : Edit(i, cell)
  BY <1>4, <1>5 DEF Edit
<1>6. CASE \E p \in Path : Occupy(p)
  BY <1>4, <1>6 DEF Occupy
<1>7. ASSUME NEW w \in Writer, WriterLocks(w), NEW d \in Call PROVE Locked(d)'
  <2>1. pc' = pc /\ shared' = shared /\ \A lock \in shared : lock[1] # Source
    BY <1>7 DEF WriterLocks, LockExclusive
  <2>2. <<Source, d>> \notin shared
    BY <2>1
  <2>3. QED
    BY <2>1, <2>2 DEF Locked
<1>8. ASSUME NEW w \in Writer, WriterReleases(w), NEW d \in Call PROVE Locked(d)'
  <2>1. pc' = pc /\ (<<Source, d>> \in shared' <=> <<Source, d>> \in shared) /\ exclusive' \subseteq exclusive
    BY <1>8 DEF WriterReleases, ReleaseLocks
  <2>2. QED
    BY <2>1 DEF Locked
<1>9. QED
  BY <1>2, <1>3, <1>5, <1>6, <1>7, <1>8, StepKinds

(* The mutex: the server's calls run one at a time.                        *)
Mutex == \A c \in Served : Running(c) => mu = c

LEMMA MutexKept ==
  ASSUME SpanOutputsTypeOK, \A d \in Call : Local(d), Mutex, Next
  PROVE  Mutex'
<1>1. Served \subseteq Call /\ Free \notin Call
  OBVIOUS
<1>2. ASSUME NEW c \in Call, Make(c) \/ Step(c) \/ StepFails(c), NEW d \in Served, Running(d)'
      PROVE  mu' = d
  <2>1. pc \in [Call -> Stage] /\ \A e \in Call \ {c} : pc'[e] = pc[e]
    BY <1>2, Moves DEF SpanOutputsTypeOK
  <2>2. CASE Enter(c)
    <3>1. mu' = (IF c \in Served THEN c ELSE mu) /\ (c \in Served => mu = Free)
      BY <2>2 DEF Enter
    <3>2. CASE d = c
      BY <1>2, <3>1, <3>2
    <3>3. CASE d # c
      <4>1. mu = d
        BY <1>1, <1>2, <2>1, <3>3 DEF Mutex, Running
      <4>2. QED
        BY <1>1, <3>1, <4>1
    <3>4. QED
      BY <3>2, <3>3
  <2>3. CASE Return(c)
    <3>1. pc'[c] = "returned" /\ mu' = IF mu = c THEN Free ELSE mu
      BY <2>1, <2>3 DEF Return, Goto
    <3>2. d # c
      BY <1>2, <3>1 DEF Running
    <3>3. mu = d
      BY <1>1, <1>2, <2>1, <3>2 DEF Mutex, Running
    <3>4. QED
      BY <3>1, <3>2, <3>3
  <2>4. CASE ~Enter(c) /\ ~Return(c)
    <3>1. mu' = mu
      BY <1>2, <2>4, Leaves
    <3>2. Running(c)' => Running(c)
      <4>1. Make(c) => pc'[c] = "called"
        BY <2>1 DEF Make, Goto
      <4>2. OpenSource(c) => pc[c] = "open"
        BY DEF OpenSource
      <4>3. QED
        BY <1>2, <2>4, <4>1, <4>2, Course, ProbeMoves DEF Running, Working
    <3>3. Running(d)
      BY <1>1, <1>2, <2>1, <3>2 DEF Running
    <3>4. QED
      BY <3>1, <3>3 DEF Mutex
  <2>5. QED
    BY <2>2, <2>3, <2>4
<1>3. ASSUME NEW calls \in SUBSET Call, Die(calls), NEW d \in Served, Running(d)' PROVE mu' = d
  <2>1. /\ pc'[d] = IF d \in calls /\ pc[d] \notin {"idle", "returned"} THEN "dead" ELSE pc[d]
        /\ mu' = IF mu \in calls THEN Free ELSE mu
    BY <1>1, <1>3 DEF Die
  <2>2. d \notin calls /\ Running(d)
    BY <1>3, <2>1 DEF Running
  <2>3. QED
    BY <2>1, <2>2 DEF Mutex
<1>4. ASSUME UNCHANGED <<pc, mu>> PROVE Mutex'
  BY <1>4 DEF Mutex, Running
<1>5. CASE \E i \in 1..Len(source), cell \in Cell : Edit(i, cell)
  BY <1>4, <1>5 DEF Edit
<1>6. CASE \E p \in Path : Occupy(p)
  BY <1>4, <1>6 DEF Occupy
<1>7. CASE \E w \in Writer : WriterLocks(w) \/ WriterReleases(w)
  BY <1>4, <1>7 DEF WriterLocks, WriterReleases
<1>8. QED
  BY <1>2, <1>3, <1>5, <1>6, <1>7, StepKinds DEF Mutex

(* What a call that creates is about to publish replaces no output of a    *)
(* call of the same server.                                                *)
Unclaimed(c) ==
  Creates(req[c]) /\ pc[c] \in {"copy", "commit"} => owner[Destination(c)] \notin Served

LEMMA UnclaimedKept ==
  ASSUME SpanOutputsTypeOK, \A d \in Call : Local(d), Outputs, Mutex,
         \A d \in Served : Unclaimed(d), Next
  PROVE  \A d \in Served : Unclaimed(d)'
<1>1. /\ Served \subseteq Call /\ Free \notin Call
      /\ owner \in [Path -> Call \cup {Free}] /\ pc \in [Call -> Stage]
  BY DEF SpanOutputsTypeOK
<1>2. ASSUME NEW d \in Served, pc[d] \in {"copy", "commit"} PROVE Destination(d) \in Path
  BY <1>1, <1>2, DestinationIsPath DEF Local, ProgressInv, Publishing
<1>3. ASSUME NEW d \in Served, req' = req, next'[d] = next[d],
             pc'[d] \in {"copy", "commit"} => pc[d] \in {"copy", "commit"},
             NEW p \in Path, NEW o \in (Call \ Served) \cup {Free},
             owner' = owner \/ owner' = [owner EXCEPT ![p] = o]
      PROVE  Unclaimed(d)'
  <2>1. Destination(d)' = Destination(d)
    BY <1>3 DEF Destination
  <2>2. CASE pc'[d] \in {"copy", "commit"} /\ Creates(req[d])
    <3>1. owner[Destination(d)] \notin Served /\ Destination(d) \in Path
      BY <1>2, <1>3, <2>2 DEF Unclaimed
    <3>2. owner'[Destination(d)] \notin Served
      BY <1>1, <1>3, <3>1
    <3>3. QED
      BY <2>1, <3>2 DEF Unclaimed
  <2>3. CASE ~(pc'[d] \in {"copy", "commit"} /\ Creates(req[d]))
    BY <1>3, <2>3 DEF Unclaimed
  <2>4. QED
    BY <2>2, <2>3
<1>4. ASSUME NEW d \in Served, req' = req, next'[d] = next[d], owner' = owner,
             pc'[d] \in {"copy", "commit"} => pc[d] \in {"copy", "commit"}
      PROVE  Unclaimed(d)'
  <2>1. Destination(d)' = Destination(d)
    BY <1>4 DEF Destination
  <2>2. QED
    BY <1>4, <2>1 DEF Unclaimed
<1>5. ASSUME NEW c \in Call, Make(c) \/ Step(c) \/ StepFails(c), NEW d \in Served
      PROVE  Unclaimed(d)'
  <2>1. /\ req' = req /\ (~Commit(c) => owner' = owner)
        /\ \A e \in Call \ {c} : pc'[e] = pc[e] /\ next'[e] = next[e]
    BY <1>5, Leaves, Moves, Plans
  <2>2. CASE d # c /\ ~Commit(c)
    BY <1>1, <1>4, <2>1, <2>2
  <2>3. CASE d # c /\ Commit(c)
    <3>1. pc[c] = "commit"
      BY <2>3 DEF Commit
    <3>2. CASE pc[d] \in {"copy", "commit"}
      <4>1. c \notin Served
        BY <2>3, <3>1, <3>2 DEF Mutex, Running
      <4>2. /\ Destination(c) \in Path
            /\ owner' = owner \/ owner' = [owner EXCEPT ![Destination(c)] = c]
        <5>1. Destination(c) \in Path
          BY <2>3, <3>1, DestinationIsPath DEF Local, ProgressInv, Publishing
        <5>2. QED
          BY <2>3, <5>1 DEF Commit
      <4>3. QED
        BY <1>1, <1>3, <2>1, <2>3, <4>1, <4>2
    <3>3. CASE pc[d] \notin {"copy", "commit"}
      BY <1>1, <2>1, <2>3, <3>3 DEF Unclaimed
    <3>4. QED
      BY <3>2, <3>3
  <2>4. CASE d = c /\ Probe(c)
    <3>1. CASE pc'[c] \in {"copy", "commit"} /\ Creates(req[c])
      <4>1. store[Destination(c)] = Nothing
        BY <1>1, <2>4, <3>1 DEF Probe, Finish
      <4>2. Destination(c) \in Path
        BY <2>4, DestinationIsPath DEF Probe, Local, ProgressInv, Publishing
      <4>3. owner[Destination(c)] = Free
        BY <4>1, <4>2 DEF Outputs
      <4>4. Destination(c)' = Destination(c) /\ owner' = owner
        BY <2>1, <2>4 DEF Probe, Destination
      <4>5. QED
        BY <1>1, <2>4, <4>3, <4>4 DEF Unclaimed
    <3>2. QED
      BY <2>1, <2>4, <3>1 DEF Unclaimed
  <2>5. CASE d = c /\ ~Probe(c)
    <3>1. pc'[c] \in {"copy", "commit"} => pc[c] \in {"copy", "commit"} /\ next' = next
      BY <1>5, <2>5, Course
    <3>2. CASE pc'[c] \in {"copy", "commit"}
      <4>1. ~Commit(c)
        BY <1>1, <3>2 DEF Commit, Goto, Finish
      <4>2. QED
        BY <1>4, <2>1, <2>5, <3>1, <3>2, <4>1
    <3>3. QED
      BY <2>5, <3>2 DEF Unclaimed
  <2>6. QED
    BY <2>2, <2>3, <2>4, <2>5
<1>6. ASSUME NEW calls \in SUBSET Call, Die(calls), NEW d \in Served PROVE Unclaimed(d)'
  <2>1. /\ req' = req /\ next' = next /\ owner' = owner
        /\ pc'[d] = pc[d] \/ pc'[d] = "dead"
    BY <1>1, <1>6 DEF Die, worldVars
  <2>2. QED
    BY <1>4, <2>1
<1>7. CASE \E i \in 1..Len(source), cell \in Cell : Edit(i, cell)
  BY <1>4, <1>7 DEF Edit
<1>8. ASSUME NEW p \in Path, Occupy(p), NEW d \in Served PROVE Unclaimed(d)'
  BY <1>3, <1>8 DEF Occupy
<1>9. CASE \E w \in Writer : WriterLocks(w) \/ WriterReleases(w)
  BY <1>4, <1>9 DEF WriterLocks, WriterReleases, worldVars
<1>10. QED
  BY <1>5, <1>6, <1>7, <1>8, <1>9, StepKinds

-----------------------------------------------------------------------------
(* What the outputs hold.                                                  *)

LEMMA OnlyPrepareBeginsPublishing ==
  ASSUME SpanOutputsTypeOK, NEW c \in Call, Local(c), Make(c) \/ Step(c) \/ StepFails(c),
         Publishing(c)', ~Prepare(c)
  PROVE  /\ Publishing(c)
         /\ pc'[c] = "copy" => ReadSpan(c) \/ Probe(c)
         /\ pc'[c] = "commit" => Verify(c)
<1>1. pc \in [Call -> Stage]
  BY DEF SpanOutputsTypeOK
<1>2. CASE Make(c) \/ Enter(c) \/ OpenSource(c) \/ Return(c) \/ StepFails(c)
  BY <1>1, <1>2 DEF Make, Enter, OpenSource, Return, StepFails, Goto, Finish, Publishing
<1>3. CASE SplitLine(c) \/ SplitEnd(c) \/ BlocksLine(c) \/ BlocksEnd(c)
  <2>1. pc[c] = "scan"
    BY <1>3 DEF SplitLine, SplitEnd, BlocksLine, BlocksEnd, Scanning
  <2>2. \/ UNCHANGED pc
        \/ \E s \in {"scan", "hash", "planned"} : Goto(c, s)
        \/ \E r \in Outcome : Finish(c, r)
    BY <1>3 DEF SplitLine, SplitEnd, BlocksLine, BlocksEnd, Advance, StartRead, OpenSection,
                OpenBlock, CloseBlock, Outcome
  <2>3. pc'[c] \in {"scan", "hash", "planned", "closing"}
    BY <1>1, <2>1, <2>2 DEF Goto, Finish
  <2>4. QED
    BY <2>3 DEF Publishing
<1>4. CASE ExtractLine(c) \/ ExtractEnd(c) \/ Validate(c)
  <2>1. pc[c] \in {"scan", "validate"}
    BY <1>4 DEF ExtractLine, ExtractEnd, Validate, Scanning
  <2>2. UNCHANGED pc \/ (\E s \in {"hash", "validate"} : Goto(c, s)) \/ (\E r \in Outcome : Finish(c, r))
    BY <1>4 DEF ExtractLine, ExtractEnd, EndLine, Advance, Validate, StartRead, Outcome
  <2>3. pc'[c] \in {"scan", "hash", "validate", "closing"}
    BY <1>1, <2>1, <2>2 DEF Goto, Finish
  <2>4. QED
    BY <2>3 DEF Publishing
<1>5. CASE Hashed(c) \/ Preflight(c)
  BY <1>1, <1>5 DEF Hashed, Preflight, OpenSection, Goto, Finish, Publishing
<1>6. CASE ReadSpan(c)
  BY <1>6 DEF ReadSpan, Publishing
<1>7. CASE Probe(c)
  BY <1>7, ProbeMoves DEF Publishing
<1>8. CASE Verify(c)
  BY <1>1, <1>8 DEF Verify, Goto, Finish, Publishing
<1>9. CASE Commit(c)
  BY <1>1, <1>9 DEF Commit, Goto, Finish, Publishing
<1>10. QED
  BY <1>2, <1>3, <1>4, <1>5, <1>6, <1>7, <1>8, <1>9 DEF Step

LEMMA FaithfulFrame ==
  ASSUME NEW d \in Call, Faithful(d), OwnOf(d)' = OwnOf(d), snapshot'[d] = snapshot[d],
         source' = source, undone' = undone, req' = req
  PROVE  Faithful(d)'
<1>1. /\ pc'[d] = pc[d] /\ span'[d] = span[d] /\ seen'[d] = seen[d]
      /\ plan'[d] = plan[d] /\ next'[d] = next[d]
  BY DEF OwnOf
<1>2. QED
  BY <1>1 DEF Faithful, Unchanged, Publishing, Slice

(* A copy that equals its fingerprint, the cells of which were all in the  *)
(* source when planning was over, is that part of the snapshot.            *)
LEMMA Replay ==
  ASSUME NEW content \in Seq(Cell), NEW digest \in Seq(Cell), NEW s \in Planned,
         s.from <= s.to + 1, s.to <= Len(content), Len(digest) = Size(s),
         \A j \in 1..Len(digest) : content[s.from + j - 1] = digest[j]
  PROVE  digest = Slice(content, s)
<1>1. s.from \in Nat \ {0} /\ s.to \in Nat /\ Len(content) \in Nat
  BY DEF Planned
<1>2. \A i \in s.from..s.to : content[i] \in Cell
  BY <1>1
<1>3. /\ Len(SubSeq(content, s.from, s.to)) = s.to - s.from + 1
      /\ SubSeq(content, s.from, s.to) \in Seq(Cell)
      /\ \A j \in 1..(s.to - s.from + 1) : SubSeq(content, s.from, s.to)[j] = content[s.from + j - 1]
  <2>1. s.from \in Int /\ s.to \in Int
    BY <1>1
  <2>2. /\ SubSeq(content, s.from, s.to) \in Seq(Cell)
        /\ Len(SubSeq(content, s.from, s.to)) = IF s.from <= s.to THEN s.to - s.from + 1 ELSE 0
        /\ \A j \in 1..(s.to - s.from + 1) : SubSeq(content, s.from, s.to)[j] = content[s.from + j - 1]
    BY ONLY <1>2, <2>1, SubSeqProperties
  <2>3. (IF s.from <= s.to THEN s.to - s.from + 1 ELSE 0) = s.to - s.from + 1
    BY <1>1
  <2>4. QED
    BY ONLY <2>2, <2>3
<1>4. Len(digest) = s.to - s.from + 1
  BY DEF Size
<1>5. ASSUME NEW j \in 1..Len(digest) PROVE digest[j] = SubSeq(content, s.from, s.to)[j]
  <2>1. digest[j] = content[s.from + j - 1]
    BY <1>5
  <2>2. j \in 1..(s.to - s.from + 1)
    BY <1>4, <1>5
  <2>3. QED
    BY ONLY <1>3, <2>1, <2>2
<1>6. digest = SubSeq(content, s.from, s.to)
  BY ONLY <1>3, <1>4, <1>5, SeqEqual, digest \in Seq(Cell)
<1>7. QED
  BY <1>6 DEF Slice

LEMMA FaithfulKeptByCall ==
  ASSUME SpanOutputsTypeOK, NEW c \in Call, Local(c), Faithful(c), Make(c) \/ Step(c) \/ StepFails(c)
  PROVE  Faithful(c)'
<1>1. /\ req' = req /\ source' = source /\ undone' = undone
      /\ ~Hashed(c) => plan' = plan
      /\ ~Preflight(c) /\ ~Commit(c) => next' = next
      /\ ~Prepare(c) => snapshot' = snapshot
  BY Leaves, Plans
<1>2. /\ snapshot \in [Call -> Content] /\ next \in [Call -> Nat \ {0}] /\ next[c] \in Nat \ {0}
      /\ pc \in [Call -> Stage] /\ plan[c] \in Seq(Planned) /\ Len(plan[c]) \in Nat
      /\ Len(source) \in Nat /\ source \in Seq(Cell) /\ snapshot[c] \in Seq(Cell)
      /\ \A k \in 1..Len(plan[c]) : plan[c][k] \in Planned /\ plan[c][k].digest \in Seq(Cell)
      /\ seen \in [Call -> Content] /\ seen[c] \in Seq(Cell) /\ Len(seen[c]) \in Nat
      /\ span[c].from \in Nat \ {0} /\ span[c].to \in Nat
  BY Typed DEF SpanOutputsTypeOK
<1>3. ~req[c].preview /\ pc[c] \in {"hash", "planned", "preflight"} => next[c] = 1 /\ pc[c] # "preflight"
  BY DEF Local, ProgressInv
<1>4. Publishing(c)' /\ ~Prepare(c) => Publishing(c) /\ plan' = plan
  BY <1>1, OnlyPrepareBeginsPublishing DEF Hashed, Publishing
<1>5. Publishing(c)' => Len(snapshot'[c]) = Len(source')
  BY <1>1, <1>2, <1>4 DEF Prepare, Faithful
<1> SUFFICES ASSUME c \notin undone
             PROVE  /\ Publishing(c)' => \A k \in 1..Len(plan'[c]) : Unchanged(c, plan[c][k], source)'
                    /\ pc'[c] = "copy" =>
                         \A j \in 1..Len(seen'[c]) :
                           seen'[c][j] = plan'[c][next'[c]].digest[j] =>
                             snapshot'[c][span'[c].from + j - 1] = seen'[c][j]
                    /\ ~req'[c].preview =>
                         \A k \in 1..(next'[c] - 1) : plan'[c][k].digest = Slice(snapshot'[c], plan'[c][k])
                    /\ pc'[c] = "commit" =>
                         plan'[c][next'[c]].digest = Slice(snapshot'[c], plan'[c][next'[c]])
  BY <1>1, <1>5 DEF Faithful, Slice
<1>6. ASSUME Publishing(c)', NEW k \in 1..Len(plan'[c]) PROVE Unchanged(c, plan[c][k], source)'
  <2>1. CASE Prepare(c)
    <3>1. snapshot'[c] = source
      BY <1>2, <2>1 DEF Prepare
    <3>2. QED
      BY <1>1, <3>1 DEF Unchanged
  <2>2. CASE ~Prepare(c)
    <3>1. Publishing(c) /\ plan' = plan /\ snapshot' = snapshot
      BY <1>1, <1>4, <1>6, <2>2
    <3>2. Unchanged(c, plan[c][k], source)
      BY <1>6, <3>1 DEF Faithful
    <3>3. QED
      BY <1>1, <3>1, <3>2 DEF Unchanged
  <2>3. QED
    BY <2>1, <2>2
<1>7. ASSUME pc'[c] = "copy", NEW j \in 1..Len(seen'[c]), seen'[c][j] = plan'[c][next'[c]].digest[j]
      PROVE  snapshot'[c][span'[c].from + j - 1] = seen'[c][j]
  <2>1. CASE Probe(c)
    <3>1. seen'[c] = << >>
      BY <1>2, <1>7, <2>1 DEF Probe, StartRead, Finish
    <3>2. QED
      BY <1>7, <3>1
  <2>2. CASE ReadSpan(c)
    <3>1. /\ pc[c] = "copy" /\ UNCHANGED <<pc, span, plan, next, snapshot>>
          /\ ~ReadAll(c)
      BY <1>7, <2>2 DEF ReadSpan, historyVars
    <3>2. seen'[c] = Append(seen[c], source[span[c].from + Len(seen[c])])
      BY <1>2, <2>2 DEF ReadSpan
    <3>3. source[span[c].from + Len(seen[c])] \in Cell
      <4>1. span[c].to <= Len(source) /\ ~(Len(seen[c]) >= span[c].to - span[c].from + 1)
        BY <3>1 DEF ReadAll, Size, Local, SpanInv, Fits
      <4>2. /\ span[c].from \in Nat \ {0} /\ span[c].to \in Nat
            /\ Len(seen[c]) \in Nat /\ Len(source) \in Nat /\ source \in Seq(Cell)
        BY <1>2
      <4>3. span[c].from + Len(seen[c]) \in 1..Len(source)
        BY ONLY <4>1, <4>2
      <4>4. QED
        BY <4>2, <4>3
    <3>4. /\ Len(seen'[c]) = Len(seen[c]) + 1
          /\ seen'[c][Len(seen[c]) + 1] = source[span[c].from + Len(seen[c])]
          /\ \A m \in 1..Len(seen[c]) : seen'[c][m] = seen[c][m]
      BY <1>2, <3>2, <3>3
    <3>5. CASE j \in 1..Len(seen[c])
      BY <3>1, <3>4, <3>5, <1>7 DEF Faithful
    <3>6. CASE j = Len(seen[c]) + 1
      <4> DEFINE s == plan[c][next[c]]
      <4>1. next[c] \in 1..Len(plan[c]) /\ span[c].from = s.from /\ span[c].to = s.to
        BY <1>2, <3>1 DEF Local, ProgressInv, Publishing
      <4>2. Len(s.digest) = s.to - s.from + 1
        BY <4>1 DEF Local, PlanInv, Size
      <4>3. j \in 1..Len(s.digest)
        BY <1>2, <3>1, <3>6, <4>1, <4>2 DEF ReadAll, Size
      <4>4. Unchanged(c, s, source)
        BY <3>1, <4>1 DEF Faithful, Publishing
      <4>5. span[c].from + Len(seen[c]) = s.from + j - 1
        BY <1>2, <3>6, <4>1
      <4>6. source[s.from + j - 1] = s.digest[j] /\ seen'[c][j] = s.digest[j]
        BY <1>7, <3>1, <3>4, <3>6, <4>5
      <4>7. snapshot[c][s.from + j - 1] = s.digest[j]
        BY <4>3, <4>4, <4>6 DEF Unchanged
      <4>8. QED
        BY <3>1, <4>1, <4>6, <4>7
    <3>7. QED
      BY <1>2, <1>7, <3>4, <3>5, <3>6
  <2>3. ~Prepare(c)
    BY <1>2, <1>7 DEF Prepare, Goto, Finish
  <2>4. QED
    BY <1>7, <2>1, <2>2, <2>3, OnlyPrepareBeginsPublishing DEF Publishing
<1>8. ASSUME pc'[c] = "commit" PROVE plan'[c][next'[c]].digest = Slice(snapshot'[c], plan'[c][next'[c]])
  <2>1. ~Prepare(c)
    BY <1>2, <1>8 DEF Prepare, Goto, Finish
  <2>2. Verify(c) /\ pc[c] = "copy"
    BY <1>8, <2>1, OnlyPrepareBeginsPublishing DEF Publishing, Verify
  <2> DEFINE s == plan[c][next[c]]
  <2>3. UNCHANGED <<plan, next, snapshot, span, seen>> /\ seen[c] = s.digest
    BY <1>2, <1>8, <2>2 DEF Verify, PublishOnly, Finish
  <2>4. next[c] \in 1..Len(plan[c]) /\ span[c].from = s.from /\ span[c].to = s.to
    BY <1>2, <2>2 DEF Local, ProgressInv, Publishing
  <2>5. /\ s.from <= s.to + 1 /\ s.to <= Len(snapshot[c]) /\ Len(s.digest) = Size(s)
        /\ s \in Planned /\ s.digest \in Seq(Cell)
    BY <1>2, <2>2, <2>4 DEF Local, PlanInv, Fits, Faithful, Publishing
  <2>6. \A j \in 1..Len(s.digest) : snapshot[c][s.from + j - 1] = s.digest[j]
    BY <2>2, <2>3, <2>4 DEF Faithful
  <2> HIDE DEF s
  <2>7. s.digest = Slice(snapshot[c], s)
    BY <1>2, <2>5, <2>6, Replay
  <2>8. QED
    BY <2>3, <2>7 DEF s
<1>9. ASSUME ~req'[c].preview, NEW k \in 1..(next'[c] - 1)
      PROVE  plan'[c][k].digest = Slice(snapshot'[c], plan'[c][k])
  <2>1. CASE Hashed(c) \/ Prepare(c)
    <3>1. next'[c] = 1
      BY <1>1, <1>3, <1>9, <2>1 DEF Hashed, Prepare
    <3>2. QED
      BY <1>9, <3>1
  <2>2. CASE Commit(c)
    <3>1. /\ next'[c] \in {next[c], next[c] + 1} /\ plan' = plan /\ snapshot' = snapshot
          /\ pc[c] = "commit"
      BY <1>1, <1>2, <2>2 DEF Commit, PublishOnly
    <3>2. k \in 1..(next[c] - 1) \/ k = next[c]
      BY <1>2, <1>9, <3>1
    <3>3. QED
      BY <1>1, <1>9, <3>1, <3>2 DEF Faithful
  <2>3. CASE ~Hashed(c) /\ ~Prepare(c) /\ ~Commit(c)
    <3>1. ~Preflight(c)
      BY <1>1, <1>3, <1>9 DEF Preflight
    <3>2. plan' = plan /\ next' = next /\ snapshot' = snapshot
      BY <1>1, <2>3, <3>1
    <3>3. QED
      BY <1>1, <1>9, <3>2 DEF Faithful
  <2>4. QED
    BY <2>1, <2>2, <2>3
<1>10. QED
  BY <1>6, <1>7, <1>8, <1>9

(* An edit after planning either puts back what was hashed, which undone   *)
(* remembers, or makes no cell equal its fingerprint that was not so.      *)
LEMMA FaithfulKeptByEdit ==
  ASSUME SpanOutputsTypeOK, NEW c \in Call, Local(c), Faithful(c),
         NEW i \in 1..Len(source), NEW cell \in Cell, Edit(i, cell)
  PROVE  Faithful(c)'
<1>1. /\ UNCHANGED <<req, pc, span, seen, plan, next, snapshot>>
      /\ undone' = undone \cup {d \in Call : PutsBack(d, i, cell)}
  BY DEF Edit
<1>2. /\ Len(source') = Len(source)
      /\ \A j \in 1..Len(source) : source'[j] = IF j = i THEN cell ELSE source[j]
  BY Edited
<1>3. Publishing(c)' => Publishing(c) /\ Len(snapshot'[c]) = Len(source')
  BY <1>1, <1>2 DEF Faithful, Publishing
<1>4. ASSUME c \notin undone', Publishing(c)', NEW k \in 1..Len(plan[c])
      PROVE  Unchanged(c, plan[c][k], source)'
  <2> DEFINE s == plan[c][k]
  <2>1. Publishing(c) /\ Unchanged(c, s, source)
    BY <1>1, <1>3, <1>4 DEF Faithful
  <2>2. ~PutsBack(c, i, cell)
    BY <1>1, <1>4
  <2>3. /\ s.from \in Nat \ {0} /\ s.to \in Nat /\ s.to <= Len(source) /\ Len(source) \in Nat
        /\ Len(s.digest) = s.to - s.from + 1
    BY Typed DEF Local, PlanInv, Fits, Size
  <2>4. ASSUME NEW j \in 1..Len(s.digest), source'[s.from + j - 1] = s.digest[j]
        PROVE  snapshot[c][s.from + j - 1] = s.digest[j]
    <3>0. j \in 1..(s.to - s.from + 1)
      BY <2>3, <2>4
    <3>1. s.from + j - 1 \in 1..Len(source) /\ s.from + j - 1 \in s.from..s.to
      <4> HIDE DEF s
      <4>1. QED
        BY ONLY <2>3, <3>0
    <3>2. CASE s.from + j - 1 = i
      <4>1. cell = s.digest[j]
        BY <1>2, <2>4, <3>2
      <4>2. i \in s.from..s.to /\ i - s.from + 1 = j
        <5> HIDE DEF s
        <5>1. QED
          BY ONLY <2>3, <3>0, <3>1, <3>2
      <4>3. PutsBack(c, i, cell)
        BY <2>1, <4>1, <4>2 DEF PutsBack, Publishing
      <4>4. QED
        BY <2>2, <4>3
    <3>3. CASE s.from + j - 1 # i
      <4>1. source[s.from + j - 1] = s.digest[j]
        BY <1>2, <2>4, <3>1, <3>3
      <4>2. QED
        BY <2>1, <4>1 DEF Unchanged
    <3>4. QED
      BY <3>2, <3>3
  <2>5. QED
    BY <1>1, <2>4 DEF Unchanged
<1>5. c \notin undone' => c \notin undone
  BY <1>1
<1>6. QED
  BY <1>1, <1>3, <1>4, <1>5 DEF Faithful, Slice, Publishing

LEMMA FaithfulKept ==
  ASSUME SpanOutputsTypeOK, \A d \in Call : Local(d) /\ Faithful(d), Next
  PROVE  \A d \in Call : Faithful(d)'
<1>1. ASSUME NEW c \in Call, Make(c) \/ Step(c) \/ StepFails(c), NEW d \in Call
      PROVE  Faithful(d)'
  <2>1. CASE d = c
    BY <1>1, <2>1, FaithfulKeptByCall
  <2>2. CASE d # c
    <3>1. OwnOf(d)' = OwnOf(d) /\ snapshot'[d] = snapshot[d]
      BY <1>1, <2>2, OthersAsWere, Plans
    <3>2. source' = source /\ undone' = undone /\ req' = req
      BY <1>1, Leaves
    <3>3. QED
      BY <3>1, <3>2, FaithfulFrame
  <2>3. QED
    BY <2>1, <2>2
<1>2. ASSUME NEW calls \in SUBSET Call, Die(calls), NEW d \in Call PROVE Faithful(d)'
  <2>1. /\ UNCHANGED <<req, span, seen, plan, next, source, snapshot, undone>>
        /\ pc'[d] = pc[d] \/ pc'[d] = "dead"
    BY <1>2 DEF Die, worldVars, historyVars
  <2>2. CASE pc'[d] = pc[d]
    <3>1. OwnOf(d)' = OwnOf(d)
      BY <1>2, <2>2 DEF Die, scanVars, OwnOf
    <3>2. QED
      BY <2>1, <3>1, FaithfulFrame
  <2>3. CASE pc'[d] = "dead"
    BY <2>1, <2>3 DEF Faithful, Publishing, Slice
  <2>4. QED
    BY <2>1, <2>2, <2>3
<1>3. ASSUME NEW i \in 1..Len(source), NEW cell \in Cell, Edit(i, cell), NEW d \in Call
      PROVE  Faithful(d)'
  BY <1>3, FaithfulKeptByEdit
<1>4. ASSUME NEW p \in Path, Occupy(p), NEW d \in Call PROVE Faithful(d)'
  <2>1. OwnOf(d)' = OwnOf(d) /\ UNCHANGED <<snapshot, source, undone, req>>
    BY <1>4 DEF Occupy, scanVars, OwnOf
  <2>2. QED
    BY <2>1, FaithfulFrame
<1>5. ASSUME NEW w \in Writer, WriterLocks(w) \/ WriterReleases(w), NEW d \in Call
      PROVE  Faithful(d)'
  <2>1. OwnOf(d)' = OwnOf(d) /\ UNCHANGED <<snapshot, source, undone, req>>
    BY <1>5 DEF WriterLocks, WriterReleases, scanVars, worldVars, historyVars, OwnOf
  <2>2. QED
    BY <2>1, FaithfulFrame
<1>6. QED
  BY <1>1, <1>2, <1>3, <1>4, <1>5, StepKinds

-----------------------------------------------------------------------------
(* The theorems.                                                           *)

LocksByCall ==
  (\A d \in Call : Locked(d)) /\ Mutex /\ (\A d \in Served : Unclaimed(d))

LEMMA LocksMean == SpanOutputsTypeOK => (Locks <=> LocksByCall)
BY LockedMeans DEF LocksByCall, Locks, Mutex, Unclaimed

LEMMA InitInv == Init => Inv
<1> SUFFICES ASSUME Init PROVE Inv
  OBVIOUS
<1>1. SpanOutputsTypeOK /\ \A c \in Call : Local(c)
  BY Starts
<1>2. /\ \A c \in Call : pc[c] = "idle" /\ next[c] = 1
      /\ \A p \in Path : owner[p] = Free
      /\ shared = {} /\ exclusive = {} /\ Free \notin Call
  BY DEF Init, NoLocks
<1>3. \A c \in Call : Faithful(c)
  BY <1>2 DEF Faithful, Publishing
<1>4. Outputs
  BY <1>2 DEF Outputs
<1>5. Locks
  <2>1. (\A d \in Call : Locked(d)) /\ Mutex /\ (\A d \in Served : Unclaimed(d))
    BY <1>2 DEF Locked, Working, Mutex, Running, Unclaimed
  <2>2. QED
    BY <1>1, <2>1, LocksMean DEF LocksByCall
<1>6. QED
  BY <1>1, <1>3, <1>4, <1>5 DEF Inv

LEMMA NextInv == Inv /\ [Next]_vars => Inv'
<1> SUFFICES ASSUME Inv, [Next]_vars PROVE Inv'
  OBVIOUS
<1>1. SpanOutputsTypeOK /\ (\A c \in Call : Local(c) /\ Faithful(c)) /\ Outputs /\ Locks
  BY DEF Inv
<1>2. CASE Next
  <2>1. SpanOutputsTypeOK' /\ \A c \in Call : Local(c)'
    BY <1>1, <1>2, TypesKept
  <2>2. \A c \in Call : Faithful(c)'
    BY <1>1, <1>2, FaithfulKept
  <2>3. Outputs'
    BY <1>1, <1>2, OutputsKept
  <2>4. (\A d \in Call : Locked(d)) /\ Mutex /\ (\A d \in Served : Unclaimed(d))
    BY <1>1, LocksMean DEF LocksByCall
  <2>5. (\A d \in Call : Locked(d)') /\ Mutex' /\ (\A d \in Served : Unclaimed(d)')
    BY <1>1, <1>2, <2>4, LockedKept, MutexKept, UnclaimedKept
  <2>6. Locks'
    <3>1. SpanOutputsTypeOK' => (Locks' <=> LocksByCall')
      BY LocksMean, PTL
    <3>2. LocksByCall'
      BY <2>5 DEF LocksByCall
    <3>3. QED
      BY <2>1, <3>1, <3>2
  <2>7. QED
    BY <2>1, <2>2, <2>3, <2>6 DEF Inv
<1>3. CASE UNCHANGED vars
  <2>1. /\ UNCHANGED <<req, pc, result, mu, at, open, found, span, seen, plan, next, base>>
        /\ UNCHANGED <<idle, source, store, folder, owner, edits, others, shared, exclusive>>
        /\ UNCHANGED <<snapshot, undone, disturbed, began>>
    BY <1>3 DEF vars, scanVars, worldVars, lockVars, historyVars
  <2>2. SpanOutputsTypeOK'
    BY <1>1, <2>1 DEF SpanOutputsTypeOK, FileLockTypeOK
  <2>3. \A c \in Call : OwnOf(c)' = OwnOf(c)
    BY <2>1 DEF OwnOf
  <2>4. \A c \in Call : Local(c)' /\ Faithful(c)'
    BY <1>1, <2>1, <2>3, LocalFrame, FaithfulFrame
  <2>5. Outputs'
    <3>1. \A d \in Call, p \in Path, k \in Nat : Passed(d, k, p)' <=> Passed(d, k, p)
      BY <2>1 DEF Passed
    <3>2. QED
      BY <1>1, <2>1, <3>1 DEF Outputs
  <2>6. Locks'
    BY <1>1, <2>1 DEF Locks, LockedUntilPublished, Running, Destination
  <2>7. QED
    BY <2>2, <2>4, <2>5, <2>6 DEF Inv
<1>4. QED
  BY <1>2, <1>3

LEMMA Invariant == Spec => []Inv
  BY InitInv, NextInv, PTL DEF Spec

(* Every variable has its type: the scan never leaves the source, a plan   *)
(* never has more outputs than --max-files allows, and every read of a     *)
(* span is of cells that are there.                                        *)
THEOREM TypeCorrect == Spec => []SpanOutputsTypeOK
<1>1. Inv => SpanOutputsTypeOK
  BY DEF Inv
<1>2. QED
  BY <1>1, Invariant, PTL

(* What a call has published is its own parts of one version of the        *)
(* source, unless an editor put back what the call had hashed.             *)
THEOREM OneVersion == Spec => []OutputsAreOneVersion
<1>1. ASSUME Inv, NEW c \in Call \ undone, NEW p \in OwnedBy(c)
      PROVE  \E k \in 1..Len(plan[c]) :
               /\ req[c].dest[k] = p
               /\ store[p] = base[c] \o Slice(snapshot[c], plan[c][k])
  <2>1. SpanOutputsTypeOK /\ Local(c) /\ Faithful(c) /\ Outputs
    BY <1>1 DEF Inv
  <2>2. p \in Path /\ owner[p] = c
    BY <1>1 DEF OwnedBy
  <2>3. PICK k \in Nat : ~req[c].preview /\ Passed(c, k, p)
    BY <2>1, <2>2 DEF Outputs
  <2>4. k \in 1..(next[c] - 1) /\ req[c].dest[k] = p /\ store[p] = base[c] \o plan[c][k].digest
    BY <2>3 DEF Passed
  <2>5. plan[c][k].digest = Slice(snapshot[c], plan[c][k])
    BY <2>1, <2>3, <2>4 DEF Faithful
  <2>6. k \in 1..Len(plan[c])
    <3>1. next[c] <= Len(plan[c]) + 1 /\ next[c] \in Nat /\ Len(plan[c]) \in Nat
      BY <2>1, <2>3, Typed DEF Local, ProgressInv
    <3>2. QED
      BY <2>4, <3>1
  <2>7. QED
    BY <2>4, <2>5, <2>6
<1>2. Inv => OutputsAreOneVersion
  BY <1>1 DEF OutputsAreOneVersion
<1>3. QED
  BY <1>2, Invariant, PTL

(* Outputs are published in the order of the plan, all of them by a call   *)
(* that succeeds and none by a preview.                                    *)
THEOREM PublishedInOrder == Spec => []PublishedIsAPrefix
<1>1. ASSUME Inv, NEW c \in Call
      PROVE  IF req[c].preview THEN OwnedBy(c) = {}
             ELSE LET published == {req[c].dest[k] : k \in 1..(next[c] - 1)}
                  IN /\ OwnedBy(c) \subseteq published
                     /\ \A p \in published : store[p] # Nothing
                     /\ result[c] = "ok" => next[c] = Len(plan[c]) + 1
  <2>1. Local(c) /\ Outputs
    BY <1>1 DEF Inv
  <2>2. CASE req[c].preview
    BY <2>1, <2>2 DEF Outputs, OwnedBy
  <2>3. CASE ~req[c].preview
    <3>1. ASSUME NEW p \in OwnedBy(c) PROVE p \in {req[c].dest[k] : k \in 1..(next[c] - 1)}
      <4>1. PICK k \in Nat : Passed(c, k, p)
        BY <2>1, <3>1 DEF Outputs, OwnedBy
      <4>2. k \in 1..(next[c] - 1) /\ req[c].dest[k] = p
        BY <4>1 DEF Passed
      <4>3. QED
        BY <4>2
    <3>2. \A k \in 1..(next[c] - 1) : store[req[c].dest[k]] # Nothing
      BY <2>1, <2>3 DEF Outputs
    <3>3. result[c] = "ok" => next[c] = Len(plan[c]) + 1
      BY <2>1, <2>3 DEF Local, ProgressInv
    <3>4. QED
      BY <2>3, <3>1, <3>2, <3>3
  <2>4. QED
    BY <2>2, <2>3
<1>2. Inv => PublishedIsAPrefix
  BY <1>1 DEF PublishedIsAPrefix
<1>3. QED
  BY <1>2, Invariant, PTL

(* From the first read of the source to the last output, no transform      *)
(* holds it; and nobody who has returned, failed or died holds it.         *)
THEOREM LockHeld == Spec => []LockedUntilPublished
<1>1. Inv => LockedUntilPublished
  BY DEF Inv, Locks
<1>2. QED
  BY <1>1, Invariant, PTL

(* Calls of one server that were not told to overwrite never publish over  *)
(* each other's outputs.                                                   *)
THEOREM NoCollisions == Spec => ServedCallsDoNotCollide
<1>1. ASSUME Inv, [Next]_vars, NEW c \in Served, Creates(req[c]), next'[c] > next[c], ~req[c].preview
      PROVE  owner[Destination(c)] \notin Served
  <2>1. /\ SpanOutputsTypeOK /\ (\A d \in Call : Local(d)) /\ Unclaimed(c)
        /\ c \in Call /\ next[c] \in Nat
    BY <1>1, LocksMean DEF LocksByCall, Inv, SpanOutputsTypeOK
  <2>2. ~(next'[c] = next[c])
    BY <1>1, <2>1
  <2>3. Next
    BY <1>1, <2>2 DEF vars
  <2>4. \E d \in Call : Make(d) \/ Step(d) \/ StepFails(d)
    BY <2>2, <2>3, StepKinds DEF Die, Edit, Occupy, WriterLocks, WriterReleases
  <2>5. Make(c) \/ Step(c) \/ StepFails(c)
    BY <2>1, <2>2, <2>4, Plans
  <2>6. ~Preflight(c)
    BY <1>1, <2>1 DEF Preflight, Local, ProgressInv
  <2>7. pc[c] = "commit"
    BY <2>1, <2>2, <2>5, <2>6, Plans DEF Commit
  <2>8. QED
    BY <1>1, <2>1, <2>7 DEF Unclaimed
<1>2. Inv /\ [Next]_vars =>
        [\A c \in Served :
           Creates(req[c]) /\ next'[c] > next[c] /\ ~req[c].preview
             => owner[Destination(c)] \notin Served]_vars
  BY <1>1
<1>3. QED
  BY <1>2, Invariant, PTL DEF Spec, ServedCallsDoNotCollide

-----------------------------------------------------------------------------
(* What an undisturbed call has found, in terms of the source and the      *)
(* files that were there when it began.                                    *)

Accepts(r, s, files) ==
  /\ Scans(r, s)
  /\ r.op # "extract" => r.names \in {0, Cardinality(Parts(r, s))}
  /\ Creates(r) => \A k \in 1..OutputsOf(r, s) : files[r.dest[k]] = Nothing

Fresh(c) ==
  pc[c] \in {"idle", "called", "open"} \/ (pc[c] = "preflight" /\ req[c].op = "extract") =>
    /\ at[c] = 1 /\ open[c] = (IF req[c].op = "extract" THEN 1 ELSE 0) /\ found[c] = 0
    /\ span[c] = NoSpan /\ plan[c] = << >>
    /\ pc[c] # "preflight" => next[c] = 1

(* Whether there is a directory that takes the outputs, --mkdir included.  *)
Room(c) == began[c].folder = "open" \/ (began[c].folder = "missing" /\ req[c].mkdir)

(* But for its own outputs, the call still sees what was there, and the    *)
(* directory if it has made it.                                            *)
Same(c) ==
  Running(c) =>
    /\ source = began[c].source
    /\ ~Publishing(c) /\ pc[c] # "closing" => folder = began[c].folder
    /\ Publishing(c) => (folder = "open" <=> Room(c))
    /\ \A p \in Path :
         store[p] = began[c].store[p] \/ \E k \in 1..(next[c] - 1) : req[c].dest[k] = p

FoundSplit(c, r, s) ==
  r.op = "split" =>
    /\ pc[c] \in {"scan", "hash"} => SplitAt(r, s, plan[c], open[c], at[c]) /\ Opened(r, s, at[c])
    /\ pc[c] = "hash" =>
         /\ span[c].from = SplitFrom(r, open[c]) /\ span[c].to = at[c] - 1
         /\ span[c].from <= span[c].to
         /\ IF at[c] = Len(s) + 1 THEN open[c] # 0 ELSE s[at[c]] \in r.opens

FoundBlocks(c, r, s) ==
  r.op = "blocks" =>
    /\ pc[c] = "scan" =>
         /\ BlocksAt(r, s, plan[c], open[c], at[c])
         /\ IF open[c] = 0 /\ found[c] = 0
            THEN \A i \in Opens(r, s) : i >= at[c]
            ELSE Opens(r, s) # {}
    /\ pc[c] = "hash" =>
         /\ open[c] = 0 /\ found[c] # 0 /\ Opens(r, s) # {} /\ at[c] \in 1..Len(s)
         /\ \E n \in 0..at[c] : Follow(r, s, plan[c], n)
         /\ NextPart(r, s, plan[c], span[c], at[c] + 1)
         /\ ~InBlock(r, s)[at[c] + 1]

FoundExtract(c, r, s) ==
  r.op = "extract" =>
    /\ pc[c] \in {"scan", "validate"} => ExtractAt(r, s, open[c], at[c], found[c], span[c])
    /\ pc[c] = "validate" => Whole(r, s, open[c], found[c])
    /\ pc[c] = "hash" => NextPart(r, s, << >>, span[c], Len(s) + 1) /\ Scans(r, s)

Copies(content, from, s) == \A j \in 1..Len(content) : content[j] = s[from + j - 1]

FoundRead(c, s) ==
  /\ pc[c] \in {"hash", "copy"} => Copies(seen[c], span[c].from, s)
  /\ pc[c] \notin {"idle", "called", "dead"} =>
       \A k \in 1..Len(plan[c]) : Copies(plan[c][k].digest, plan[c][k].from, s)

Settled(c) ==
  \/ pc[c] \in {"planned", "probe", "copy", "commit"}
  \/ pc[c] = "preflight" /\ req[c].op # "extract"
  \/ pc[c] \in {"closing", "returned"} /\ result[c] = "ok" /\ ~req[c].preview

FoundPlan(c, r, s) ==
  Settled(c) =>
    /\ Follow(r, s, plan[c], Len(s) + 1)
    /\ Len(plan[c]) = OutputsOf(r, s)
    /\ Scans(r, s)
    /\ pc[c] # "planned" => r.names \in {0, Len(plan[c])}

FoundVacant(c, r, files) ==
  Creates(r) =>
    /\ Running(c) => \A k \in 1..(next[c] - 1) : files[r.dest[k]] = Nothing
    /\ pc[c] \in {"copy", "commit"} => files[r.dest[next[c]]] = Nothing
    /\ r.preview /\ r.op = "extract" /\ pc[c] \in {"scan", "validate"} => next[c] > 1

FoundPlace(c, r, files) ==
  ~r.preview /\ Running(c) =>
    /\ \A k \in 1..(next[c] - 1) : files[r.dest[k]] # Directory
    /\ next[c] > 1 \/ pc[c] \in {"copy", "commit"} => Room(c)

(* The place of its outputs hinders an apply.                              *)
Stopped(c, r, s, files) ==
  ~r.preview /\ \E k \in 1..OutputsOf(r, s) : ~Room(c) \/ files[r.dest[k]] = Directory

(* Too many outputs, or as many and a delimiter at the end that opens      *)
(* another.                                                                *)
TooMany(r, s) ==
  \/ Cardinality(Parts(r, s)) > Len(r.dest)
  \/ Cardinality(Parts(r, s)) = Len(r.dest) /\ EndsWithDelimiter(r, s)

FoundVerdict(c, r, s, files) ==
  pc[c] \in {"closing", "returned"} =>
    /\ result[c] \notin {"ok", "error"} => ~Accepts(r, s, files)
    /\ result[c] = "ok" => Accepts(r, s, files) /\ ~Stopped(c, r, s, files)
    /\ result[c] = "error" => Stopped(c, r, s, files)
    /\ result[c] \in {"ok", "error"} /\ r.op # "extract" => Len(plan[c]) = Cardinality(Parts(r, s))
    /\ result[c] \in {"noMatch", "noBlocks"} => Opens(r, s) = {}
    /\ result[c] = "names" => r.names # Cardinality(Parts(r, s))
    /\ result[c] = "maxFiles" => TooMany(r, s)
    /\ result[c] # "mismatch"

FoundFor(c, r, s, files) ==
  /\ FoundSplit(c, r, s)
  /\ FoundBlocks(c, r, s)
  /\ FoundExtract(c, r, s)
  /\ FoundRead(c, s)
  /\ FoundPlan(c, r, s)
  /\ FoundVacant(c, r, files)
  /\ FoundPlace(c, r, files)
  /\ FoundVerdict(c, r, s, files)

Found(c) ==
  c \notin disturbed =>
    Fresh(c) /\ Same(c) /\ FoundFor(c, req[c], began[c].source, began[c].store)

-----------------------------------------------------------------------------
(* Where a call's own step leads.                                          *)

Routes(c) ==
  /\ Make(c) => pc[c] = "idle" /\ pc'[c] = "called"
  /\ Enter(c) => pc[c] = "called" /\ pc'[c] = "open"
  /\ OpenSource(c) =>
       /\ pc[c] = "open"
       /\ pc'[c] = IF req[c].op = "extract" /\ req[c].preview THEN "preflight" ELSE "scan"
  /\ SplitLine(c) \/ SplitEnd(c) =>
       pc[c] = "scan" /\ req[c].op = "split" /\ pc'[c] \in {"scan", "hash", "planned", "closing"}
  /\ BlocksLine(c) \/ BlocksEnd(c) =>
       pc[c] = "scan" /\ req[c].op = "blocks" /\ pc'[c] \in {"scan", "hash", "planned", "closing"}
  /\ ExtractLine(c) \/ ExtractEnd(c) =>
       pc[c] = "scan" /\ req[c].op = "extract" /\ pc'[c] \in {"scan", "validate"}
  /\ Validate(c) =>
       pc[c] = "validate" /\ req[c].op = "extract" /\ pc'[c] \in {"hash", "closing"}
  /\ ReadSpan(c) => pc[c] \in {"hash", "copy"} /\ pc'[c] = pc[c]
  /\ Hashed(c) => pc[c] = "hash" /\ pc'[c] \in {"scan", "planned", "closing"}
  /\ Prepare(c) => pc[c] = "planned" /\ pc'[c] \in {"preflight", "probe", "closing"}
  /\ Preflight(c) =>
       /\ pc[c] = "preflight" /\ pc'[c] \in {"preflight", "scan", "closing"}
       /\ pc'[c] = "scan" => req[c].op = "extract"
  /\ Probe(c) => pc[c] = "probe" /\ pc'[c] \in {"copy", "closing"}
  /\ Verify(c) => pc[c] = "copy" /\ pc'[c] \in {"commit", "closing"}
  /\ Commit(c) => pc[c] = "commit" /\ pc'[c] \in {"probe", "closing"}
  /\ Return(c) => pc[c] = "closing" /\ pc'[c] = "returned" /\ result'[c] = result[c]
  /\ StepFails(c) => pc'[c] = "closing" /\ c \in disturbed'

LEMMA RoutesTaken ==
  ASSUME SpanOutputsTypeOK, NEW c \in Call, Local(c)
  PROVE  Routes(c)
<1>1. pc \in [Call -> Stage] /\ result \in [Call -> Outcome]
  BY DEF SpanOutputsTypeOK
<1>2. \A st : Goto(c, st) => pc'[c] = st /\ result'[c] = result[c]
  BY <1>1 DEF Goto
<1>3. \A r : Finish(c, r) => pc'[c] = "closing" /\ result'[c] = r
  BY <1>1 DEF Finish
<1>4. \A st, sp : StartRead(c, st, sp) => pc'[c] = st
  BY <1>2 DEF StartRead
<1>5. \A n : OpenSection(c, n) => pc'[c] \in {"scan", "closing"}
  BY <1>2, <1>3 DEF OpenSection
<1>6. Make(c) => pc[c] = "idle" /\ pc'[c] = "called"
  BY <1>2 DEF Make, Local, ProgressInv
<1>7. /\ Enter(c) => pc[c] = "called" /\ pc'[c] = "open"
      /\ OpenSource(c) =>
           /\ pc[c] = "open"
           /\ pc'[c] = IF req[c].op = "extract" /\ req[c].preview THEN "preflight" ELSE "scan"
  BY <1>2 DEF Enter, OpenSource
<1>8. SplitLine(c) \/ SplitEnd(c) =>
        pc[c] = "scan" /\ req[c].op = "split" /\ pc'[c] \in {"scan", "hash", "planned", "closing"}
  BY <1>2, <1>3, <1>4, <1>5 DEF SplitLine, SplitEnd, Scanning, Advance
<1>9. BlocksLine(c) \/ BlocksEnd(c) =>
        pc[c] = "scan" /\ req[c].op = "blocks" /\ pc'[c] \in {"scan", "hash", "planned", "closing"}
  BY <1>2, <1>3, <1>4 DEF BlocksLine, BlocksEnd, Scanning, Advance, OpenBlock, CloseBlock
<1>10. ExtractLine(c) \/ ExtractEnd(c) =>
         pc[c] = "scan" /\ req[c].op = "extract" /\ pc'[c] \in {"scan", "validate"}
  BY <1>2 DEF ExtractLine, ExtractEnd, Scanning, Advance, EndLine
<1>11. Validate(c) => pc[c] = "validate" /\ req[c].op = "extract" /\ pc'[c] \in {"hash", "closing"}
  BY <1>3, <1>4 DEF Validate, Local, ProgressInv
<1>12. /\ ReadSpan(c) => pc[c] \in {"hash", "copy"} /\ pc'[c] = pc[c]
       /\ Hashed(c) => pc[c] = "hash" /\ pc'[c] \in {"scan", "planned", "closing"}
  BY <1>2, <1>5 DEF ReadSpan, Hashed
<1>13. Prepare(c) => pc[c] = "planned" /\ pc'[c] \in {"preflight", "probe", "closing"}
  BY <1>2, <1>3 DEF Prepare
<1>14. Preflight(c) =>
         /\ pc[c] = "preflight" /\ pc'[c] \in {"preflight", "scan", "closing"}
         /\ pc'[c] = "scan" => req[c].op = "extract"
  BY <1>2, <1>3 DEF Preflight
<1>15. Probe(c) => pc[c] = "probe" /\ pc'[c] \in {"copy", "closing"}
  BY <1>3, <1>4 DEF Probe
<1>16. /\ Verify(c) => pc[c] = "copy" /\ pc'[c] \in {"commit", "closing"}
       /\ Commit(c) => pc[c] = "commit" /\ pc'[c] \in {"probe", "closing"}
  BY <1>2, <1>3 DEF Verify, Commit
<1>17. Return(c) => pc[c] = "closing" /\ pc'[c] = "returned" /\ result'[c] = result[c]
  BY <1>2 DEF Return
<1>18. StepFails(c) => pc'[c] = "closing" /\ c \in disturbed'
  BY <1>3 DEF StepFails
<1>19. QED
  BY <1>6, <1>7, <1>8, <1>9, <1>10, <1>11, <1>12, <1>13, <1>14, <1>15, <1>16, <1>17, <1>18 DEF Routes

(* What is given of a step of an undisturbed call: the request, the source *)
(* and the files it began with, r, s and files below.                      *)
Given(c, r, s, files) ==
  /\ r = req[c] /\ s = began[c].source /\ files = began[c].store
  /\ r \in Request /\ s \in Seq(Cell) /\ Len(s) \in Nat /\ r.op \in Command
  /\ Len(r.dest) \in Nat /\ r.first \in Nat /\ r.last \in Nat /\ r.bare \in BOOLEAN
  /\ Running(c) => source = s

LEMMA Calm ==
  ASSUME SpanOutputsTypeOK, NEW c \in Call, Local(c), Found(c), c \notin disturbed',
         Make(c) \/ Step(c) \/ StepFails(c)
  PROVE  /\ c \notin disturbed /\ (Make(c) \/ Step(c)) /\ Routes(c)
         /\ Fresh(c) /\ Same(c) /\ req' = req /\ source' = source
         /\ \E r, s, files : Given(c, r, s, files) /\ FoundFor(c, r, s, files)
<1>1. disturbed \subseteq disturbed'
  BY DEF Make, Step, StepFails, Enter, OpenSource, SplitLine, SplitEnd, BlocksLine, BlocksEnd,
     ExtractLine, ExtractEnd, Validate, ReadSpan, Hashed, Prepare, Preflight, Probe, Verify,
     Commit, Return, ScanOnly, PlanOnly, PublishOnly, historyVars, Mkdir
<1>2. c \notin disturbed
  BY <1>1
<1>3. Routes(c)
  BY RoutesTaken
<1>4. Make(c) \/ Step(c)
  BY DEF StepFails
<1>5. req' = req /\ source' = source
  BY Leaves
<1>6. Fresh(c) /\ Same(c) /\ FoundFor(c, req[c], began[c].source, began[c].store)
  BY <1>2 DEF Found
<1>7. Given(c, req[c], began[c].source, began[c].store)
  <2>1. req[c] \in Request
    BY DEF SpanOutputsTypeOK
  <2>2. /\ req[c].op \in Command /\ Len(req[c].dest) \in Nat /\ req[c].first \in Nat
        /\ req[c].last \in Nat /\ req[c].bare \in BOOLEAN
    BY <2>1 DEF Request
  <2>3. began[c] \in [source : Content, store : [Path -> Holding], folder : Folder]
    BY DEF SpanOutputsTypeOK
  <2>4. began[c].source \in Seq(Cell) /\ Len(began[c].source) \in Nat
    BY <2>3 DEF Content
  <2>5. QED
    BY <1>6, <2>1, <2>2, <2>4 DEF Given, Same
<1>8. QED
  BY <1>2, <1>3, <1>4, <1>5, <1>6, <1>7

(* The span that has been hashed is added to the plan.                     *)
LEMMA HashedExtends ==
  ASSUME SpanOutputsTypeOK, NEW c \in Call, Hashed(c)
  PROVE  /\ Extends(plan[c], span[c], plan'[c]) /\ Len(plan'[c]) = Len(plan[c]) + 1
         /\ \A k \in 1..Len(plan[c]) : plan'[c][k] = plan[c][k]
         /\ plan'[c][Len(plan[c]) + 1].digest = seen[c]
         /\ plan'[c][Len(plan[c]) + 1].from = span[c].from
<1> DEFINE entry == [from |-> span[c].from, to |-> span[c].to, digest |-> seen[c]]
<1>1. plan[c] \in Seq(Planned) /\ entry \in Planned
  BY Typed DEF Planned
<1>2. plan'[c] = Append(plan[c], entry)
  BY DEF Hashed, SpanOutputsTypeOK
<1>3. entry.from = span[c].from /\ entry.to = span[c].to /\ entry.digest = seen[c]
  OBVIOUS
<1> HIDE DEF entry
<1>4. /\ Len(plan'[c]) = Len(plan[c]) + 1 /\ plan'[c][Len(plan[c]) + 1] = entry
      /\ \A k \in 1..Len(plan[c]) : plan'[c][k] = plan[c][k]
  BY <1>1, <1>2
<1>5. QED
  BY <1>3, <1>4 DEF Extends

-----------------------------------------------------------------------------
(* A scan keeps what it has found.                                         *)

LEMMA SectionOpens ==
  ASSUME SpanOutputsTypeOK, NEW c \in Call, Local(c), NEW r, NEW s, NEW files, Given(c, r, s, files),
         r.op = "split", Running(c), at[c] \in 1..Len(s), s[at[c]] \in r.opens,
         NEW P, Len(P) \in Nat, Follow(r, s, P, at[c]), Opened(r, s, at[c]),
         plan'[c] = P, OpenSection(c, Len(P)), pc'[c] = "scan"
  PROVE  SplitAt(r, s, plan[c], open[c], at[c])' /\ Opened(r, s, at[c])'
<1>1. /\ pc \in [Call -> Stage] /\ at \in [Call -> Nat \ {0}] /\ open \in [Call -> Nat]
  BY DEF SpanOutputsTypeOK
<1>2. Len(P) + 1 <= Len(r.dest) /\ open'[c] = at[c] /\ at'[c] = at[c] + 1
  BY <1>1 DEF OpenSection, Finish, Limit, Given
<1>3. SplitAt(r, s, P, at[c], at[c] + 1)
  BY SplitOpens DEF Given
<1>4. Opened(r, s, at[c] + 1)
  BY <1>2, SplitOpened DEF Given
<1>5. QED
  BY <1>2, <1>3, <1>4

LEMMA SplitFound ==
  ASSUME SpanOutputsTypeOK, NEW c \in Call, Local(c), NEW r, NEW s, NEW files, Given(c, r, s, files),
         Fresh(c), FoundSplit(c, r, s), Make(c) \/ Step(c), ~Enter(c), Routes(c)
  PROVE  FoundSplit(c, r, s)'
<1> SUFFICES ASSUME r.op = "split", pc'[c] \in {"scan", "hash"}
             PROVE  /\ SplitAt(r, s, plan[c], open[c], at[c])' /\ Opened(r, s, at[c])'
                    /\ pc'[c] = "hash" =>
                         /\ span'[c].from = SplitFrom(r, open'[c]) /\ span'[c].to = at'[c] - 1
                         /\ span'[c].from <= span'[c].to
                         /\ IF at'[c] = Len(s) + 1 THEN open'[c] # 0 ELSE s[at'[c]] \in r.opens
  BY DEF FoundSplit
<1>1. /\ pc \in [Call -> Stage] /\ at \in [Call -> Nat \ {0}] /\ open \in [Call -> Nat]
      /\ span \in [Call -> Span]
  BY DEF SpanOutputsTypeOK
<1>2. /\ plan[c] \in Seq(Planned) /\ Len(plan[c]) \in Nat /\ at[c] \in Nat \ {0} /\ open[c] \in Nat
  BY Typed
<1>3. /\ r = req[c] /\ s \in Seq(Cell) /\ Len(s) \in Nat /\ r.op \in Command
      /\ Len(r.dest) \in Nat /\ r.bare \in BOOLEAN
      /\ Running(c) => source = s
  BY DEF Given
<1>4. CASE OpenSource(c)
  <2>1. at[c] = 1 /\ open[c] = 0 /\ plan[c] = << >> /\ UNCHANGED <<at, open, plan>> /\ pc'[c] = "scan"
    BY <1>3, <1>4 DEF OpenSource, Fresh, scanVars, Routes
  <2>2. SplitAt(r, s, << >>, 0, 1)
    <3>1. NoSpan.from = 1 /\ NoSpan.to = 0
      BY DEF NoSpan
    <3>2. QED
      BY <1>3, <3>1, ScansBegin
  <2>3. Opened(r, s, 1)
    BY DEF Opened, Opens
  <2>4. QED
    BY <2>1, <2>2, <2>3
<1>5. ASSUME pc[c] \in {"scan", "hash"}
      PROVE  /\ SplitAt(r, s, plan[c], open[c], at[c]) /\ Opened(r, s, at[c])
             /\ source = s /\ Running(c) /\ at[c] \in 1..(Len(s) + 1)
  <2>1. SplitAt(r, s, plan[c], open[c], at[c]) /\ Opened(r, s, at[c])
    BY <1>5 DEF FoundSplit
  <2>2. Running(c)
    BY <1>5 DEF Running
  <2>3. QED
    BY <1>3, <2>1, <2>2 DEF SplitAt
<1>6. CASE SplitLine(c)
  <2>1. pc[c] = "scan" /\ ~AtEnd(c) /\ plan' = plan
    BY <1>6, Plans DEF SplitLine, Scanning, ScanOnly
  <2>2. /\ SplitAt(r, s, plan[c], open[c], at[c]) /\ Opened(r, s, at[c]) /\ source = s /\ Running(c)
        /\ at[c] \in 1..Len(s)
    BY <1>3, <1>5, <2>1 DEF AtEnd
  <2>3. CASE s[at[c]] \notin r.opens /\ Advance(c)
    <3>1. at'[c] = at[c] + 1 /\ open' = open /\ pc'[c] = "scan"
      BY <1>1, <2>1, <2>3 DEF Advance
    <3>2. SplitAt(r, s, plan[c], open[c], at[c] + 1) /\ Opened(r, s, at[c] + 1)
      BY <1>3, <2>2, <2>3, SplitPass, OpenedPass
    <3>3. QED
      BY <2>1, <3>1, <3>2
  <2>4. CASE s[at[c]] \in r.opens /\ Size(SplitSection(c)) > 0 /\ StartRead(c, "hash", SplitSection(c))
             /\ UNCHANGED scanVars
    <3>1. span'[c] = SplitSection(c) /\ at' = at /\ open' = open
      BY <1>1, <2>4 DEF StartRead, scanVars
    <3>2. /\ SplitSection(c).from = SplitFrom(r, open[c]) /\ SplitSection(c).to = at[c] - 1
          /\ SplitSection(c).from \in Nat
      BY <1>2, <1>3 DEF SplitSection, SplitFrom
    <3>3. SplitSection(c).from <= SplitSection(c).to
      BY <1>2, <2>4, <3>2 DEF Size
    <3>4. QED
      BY <2>1, <2>2, <2>4, <3>1, <3>2, <3>3
  <2>5. CASE s[at[c]] \in r.opens /\ Size(SplitSection(c)) <= 0 /\ OpenSection(c, Len(plan[c]))
    <3>1. pc'[c] = "scan"
      BY <1>1, <2>5 DEF OpenSection, Goto, Finish
    <3>2. SplitFrom(r, open[c]) > at[c] - 1
      <4>1. /\ SplitSection(c).from = SplitFrom(r, open[c]) /\ SplitSection(c).to = at[c] - 1
            /\ SplitSection(c).from \in Nat
        BY <1>2, <1>3 DEF SplitSection, SplitFrom
      <4>2. QED
        BY <1>2, <2>5, <4>1 DEF Size
    <3>3. Follow(r, s, plan[c], at[c])
      BY <1>3, <2>2, <3>2, SplitEmpty
    <3>4. QED
      BY <1>2, <2>1, <2>2, <2>5, <3>1, <3>3, SectionOpens
  <2>6. QED
    BY <1>3, <1>6, <2>2, <2>3, <2>4, <2>5 DEF SplitLine, Here
<1>7. CASE SplitEnd(c)
  <2>1. pc[c] = "scan" /\ AtEnd(c) /\ plan' = plan /\ at' = at /\ open' = open
    BY <1>7, Plans DEF SplitEnd, Scanning, ScanOnly, scanVars
  <2>2. /\ SplitAt(r, s, plan[c], open[c], at[c]) /\ Opened(r, s, at[c]) /\ source = s
        /\ at[c] = Len(s) + 1
    BY <1>2, <1>3, <1>5, <2>1 DEF AtEnd
  <2>3. open[c] # 0 /\ Size(SplitSection(c)) > 0 /\ StartRead(c, "hash", SplitSection(c))
    BY <1>1, <1>7 DEF SplitEnd, Goto, Finish
  <2>4. span'[c] = SplitSection(c)
    BY <1>1, <2>3 DEF StartRead
  <2>5. /\ SplitSection(c).from = SplitFrom(r, open[c]) /\ SplitSection(c).to = at[c] - 1
        /\ SplitSection(c).from \in Nat
    BY <1>2, <1>3 DEF SplitSection, SplitFrom
  <2>6. SplitSection(c).from <= SplitSection(c).to
    BY <1>2, <2>3, <2>5 DEF Size
  <2>7. QED
    BY <2>1, <2>2, <2>3, <2>4, <2>5, <2>6
<1>8. CASE ReadSpan(c)
  <2>1. pc[c] = "hash" /\ pc' = pc /\ UNCHANGED <<plan, at, open, span>>
    BY <1>8 DEF ReadSpan, PlanOnly, scanVars, Routes
  <2>2. QED
    BY <1>5, <2>1 DEF FoundSplit
<1>9. CASE Hashed(c)
  <2>1. pc[c] = "hash" /\ pc'[c] = "scan" /\ ~AtEnd(c) /\ OpenSection(c, Len(plan[c]) + 1)
    BY <1>1, <1>3, <1>9 DEF Hashed, Goto, Routes
  <2>2. /\ SplitAt(r, s, plan[c], open[c], at[c]) /\ Opened(r, s, at[c]) /\ source = s /\ Running(c)
        /\ at[c] \in 1..Len(s)
    BY <1>3, <1>5, <2>1 DEF AtEnd
  <2>3. /\ span[c].from = SplitFrom(r, open[c]) /\ span[c].to = at[c] - 1
        /\ span[c].from <= span[c].to
        /\ s[at[c]] \in r.opens
    BY <2>1, <2>2 DEF FoundSplit
  <2>4. Extends(plan[c], span[c], plan'[c]) /\ Len(plan'[c]) = Len(plan[c]) + 1
    BY <1>9, HashedExtends
  <2>5. Follow(r, s, plan'[c], at[c])
    BY <1>2, <1>3, <2>2, <2>3, <2>4, SplitGrows
  <2>6. PICK P : P = plan'[c]
    OBVIOUS
  <2>7. Len(P) \in Nat /\ Follow(r, s, P, at[c]) /\ OpenSection(c, Len(P))
    BY <1>2, <2>1, <2>4, <2>5, <2>6
  <2>8. QED
    BY <2>1, <2>2, <2>3, <2>6, <2>7, SectionOpens
<1>10. CASE \/ Make(c) \/ BlocksLine(c) \/ BlocksEnd(c) \/ ExtractLine(c) \/ ExtractEnd(c) \/ Validate(c)
            \/ Prepare(c) \/ Preflight(c) \/ Probe(c) \/ Verify(c) \/ Commit(c) \/ Return(c)
  BY <1>3, <1>10 DEF Routes
<1>11. QED
  BY <1>4, <1>6, <1>7, <1>8, <1>9, <1>10 DEF Step

(* Whether a line that starts a block has been seen.                       *)
Begun(c, r, s) ==
  IF open[c] = 0 /\ found[c] = 0 THEN \A i \in Opens(r, s) : i >= at[c] ELSE Opens(r, s) # {}

LEMMA BlocksFound ==
  ASSUME SpanOutputsTypeOK, NEW c \in Call, Local(c), NEW r, NEW s, NEW files, Given(c, r, s, files),
         Fresh(c), FoundBlocks(c, r, s), Make(c) \/ Step(c), ~Enter(c), Routes(c)
  PROVE  FoundBlocks(c, r, s)'
<1> DEFINE Ready(P, q, a, o, f) ==
      /\ o = 0 /\ f # 0 /\ Opens(r, s) # {} /\ a \in 1..Len(s)
      /\ \E n \in 0..a : Follow(r, s, P, n)
      /\ NextPart(r, s, P, q, a + 1)
      /\ ~InBlock(r, s)[a + 1]
<1> SUFFICES ASSUME r.op = "blocks", pc'[c] \in {"scan", "hash"}
             PROVE  /\ pc'[c] = "scan" => BlocksAt(r, s, plan[c], open[c], at[c])' /\ Begun(c, r, s)'
                    /\ pc'[c] = "hash" => Ready(plan'[c], span'[c], at'[c], open'[c], found'[c])
  BY DEF FoundBlocks, Begun
<1>1. /\ pc \in [Call -> Stage] /\ at \in [Call -> Nat \ {0}] /\ open \in [Call -> Nat]
      /\ found \in [Call -> Nat] /\ span \in [Call -> Span]
  BY DEF SpanOutputsTypeOK
<1>2. /\ plan[c] \in Seq(Planned) /\ Len(plan[c]) \in Nat /\ at[c] \in Nat \ {0} /\ open[c] \in Nat
      /\ found[c] \in Nat
  BY Typed
<1>3. /\ r = req[c] /\ s \in Seq(Cell) /\ Len(s) \in Nat /\ r.op \in Command
      /\ r.bare \in BOOLEAN /\ (Running(c) => source = s)
  BY DEF Given
<1>4. CASE OpenSource(c)
  <2>1. /\ at[c] = 1 /\ open[c] = 0 /\ found[c] = 0 /\ plan[c] = << >>
        /\ UNCHANGED <<at, open, found, plan>> /\ pc'[c] = "scan"
    BY <1>3, <1>4 DEF OpenSource, Fresh, scanVars, Routes
  <2>2. BlocksAt(r, s, << >>, 0, 1)
    <3>1. NoSpan.from = 1 /\ NoSpan.to = 0
      BY DEF NoSpan
    <3>2. QED
      BY <1>3, <3>1, ScansBegin
  <2>3. \A i \in Opens(r, s) : i >= 1
    BY <1>3 DEF Opens
  <2>4. QED
    BY <2>1, <2>2, <2>3 DEF Begun
<1>5. CASE BlocksLine(c)
  <2>1. pc[c] = "scan" /\ ~AtEnd(c) /\ plan' = plan
    BY <1>5, Plans DEF BlocksLine, Scanning, ScanOnly
  <2>2. BlocksAt(r, s, plan[c], open[c], at[c]) /\ Begun(c, r, s)
    BY <2>1 DEF FoundBlocks, Begun
  <2>3. source = s /\ at[c] \in 1..Len(s) /\ Here(c) = s[at[c]]
    BY <1>2, <1>3, <2>1 DEF AtEnd, Running, Here
  <2>4. CASE OpenBlock(c)
    <3>1. /\ open[c] = 0 /\ s[at[c]] \in r.opens /\ open'[c] = at[c] /\ at'[c] = at[c] + 1
          /\ pc'[c] = "scan"
      BY <1>1, <1>3, <2>1, <2>3, <2>4 DEF OpenBlock
    <3>2. BlocksAt(r, s, plan[c], at[c], at[c] + 1)
      BY <1>3, <2>2, <2>3, <3>1, BlocksOpen
    <3>3. at[c] \in Opens(r, s) /\ open'[c] # 0
      BY <2>3, <3>1 DEF Opens
    <3>4. QED
      BY <2>1, <3>1, <3>2, <3>3 DEF Begun
  <2>5. CASE CloseBlock(c)
    <3>1. /\ open[c] # 0 /\ s[at[c]] \in r.closes /\ open'[c] = 0 /\ found'[c] = found[c] + 1
      BY <1>1, <1>3, <2>3, <2>5 DEF CloseBlock
    <3>2. Opens(r, s) # {} /\ found'[c] # 0
      BY <1>2, <2>2, <3>1 DEF Begun
    <3>3. CASE at[c] = open[c] + 1 /\ at'[c] = at[c] + 1 /\ pc' = pc
      <4>1. BlocksAt(r, s, plan[c], 0, at[c] + 1)
        BY <1>3, <2>2, <2>3, <3>1, <3>3, BlocksEmpty
      <4>2. QED
        BY <2>1, <3>1, <3>2, <3>3, <4>1 DEF Begun
    <3>4. CASE at[c] # open[c] + 1 /\ StartRead(c, "hash", BlockSpan(c)) /\ UNCHANGED at
      <4>1. pc'[c] = "hash" /\ span'[c] = BlockSpan(c) /\ at' = at
        BY <1>1, <3>4 DEF StartRead, Goto
      <4>2. /\ BlockSpan(c).from = (IF r.bare THEN open[c] + 1 ELSE open[c])
            /\ BlockSpan(c).to = (IF r.bare THEN at[c] - 1 ELSE at[c])
        BY <1>3 DEF BlockSpan
      <4>3. NextPart(r, s, plan[c], BlockSpan(c), at[c] + 1) /\ ~InBlock(r, s)[at[c] + 1]
        BY <1>3, <2>2, <2>3, <3>1, <3>4, <4>2, BlocksNext
      <4>4. open[c] \in 0..at[c] /\ Follow(r, s, plan[c], open[c])
        BY <1>2, <2>2, <3>1 DEF BlocksAt
      <4>5. QED
        BY <2>1, <2>3, <3>1, <3>2, <4>1, <4>3, <4>4
    <3>5. QED
      BY <1>1, <2>1, <2>5, <3>3, <3>4 DEF CloseBlock, Finish
  <2>6. CASE Here(c) \notin (IF open[c] = 0 THEN r.opens ELSE r.closes) /\ Advance(c)
    <3>1. at'[c] = at[c] + 1 /\ open' = open /\ found' = found /\ pc'[c] = "scan"
      BY <1>1, <2>1, <2>6 DEF Advance
    <3>2. BlocksAt(r, s, plan[c], open[c], at[c] + 1)
      BY <1>3, <2>2, <2>3, <2>6, BlocksOutside, BlocksInside
    <3>3. Begun(c, r, s)'
      <4>1. open[c] = 0 /\ found[c] = 0 => \A i \in Opens(r, s) : i >= at[c] + 1
        <5>1. SUFFICES ASSUME open[c] = 0, found[c] = 0, NEW i \in Opens(r, s) PROVE i >= at[c] + 1
          OBVIOUS
        <5>2. i >= at[c] /\ i \in 1..Len(s) /\ s[i] \in r.opens /\ s[at[c]] \notin r.opens
          BY <2>2, <2>3, <2>6, <5>1 DEF Begun, Opens
        <5>3. QED
          BY <1>2, <5>2
      <4>2. QED
        BY <2>2, <3>1, <4>1 DEF Begun
    <3>4. QED
      BY <2>1, <3>1, <3>2, <3>3
  <2>7. QED
    BY <1>3, <1>5, <2>4, <2>5, <2>6 DEF BlocksLine
<1>6. CASE ReadSpan(c)
  <2>1. pc[c] = "hash" /\ pc' = pc /\ UNCHANGED <<plan, at, open, found, span>>
    BY <1>6 DEF ReadSpan, PlanOnly, scanVars, Routes
  <2>2. QED
    BY <2>1 DEF FoundBlocks
<1>7. CASE Hashed(c)
  <2>1. /\ pc[c] = "hash" /\ pc'[c] = "scan" /\ at'[c] = at[c] + 1 /\ UNCHANGED <<open, found>>
    BY <1>1, <1>3, <1>7 DEF Hashed, Goto, Routes
  <2>2. Ready(plan[c], span[c], at[c], open[c], found[c])
    BY <2>1 DEF FoundBlocks
  <2>3. Extends(plan[c], span[c], plan'[c])
    BY <1>7, HashedExtends
  <2>4. PICK n \in 0..at[c] : Follow(r, s, plan[c], n)
    BY <2>2
  <2>5. Follow(r, s, plan'[c], at[c] + 1)
    <3>1. n \in Nat /\ at[c] + 1 \in Nat /\ n <= at[c] + 1
      BY <1>2
    <3>2. QED
      BY <1>2, <2>2, <2>3, <2>4, <3>1, FollowAppend
  <2>6. BlocksAt(r, s, plan'[c], 0, at[c] + 1)
    BY <1>3, <2>2, <2>5 DEF BlocksAt
  <2>7. QED
    BY <2>1, <2>2, <2>6 DEF Begun
<1>8. CASE \/ Make(c) \/ SplitLine(c) \/ SplitEnd(c) \/ ExtractLine(c) \/ ExtractEnd(c) \/ Validate(c)
           \/ Prepare(c) \/ Preflight(c) \/ Probe(c) \/ Verify(c) \/ Commit(c) \/ Return(c)
  BY <1>3, <1>8 DEF Routes
<1>9. CASE BlocksEnd(c)
  BY <1>1, <1>9 DEF BlocksEnd, Goto, Finish
<1>10. QED
  BY <1>4, <1>5, <1>6, <1>7, <1>8, <1>9 DEF Step

(* The range is accepted if the source has the lines.                      *)
LEMMA RangeMeans ==
  ASSUME SpanOutputsTypeOK, NEW c \in Call, NEW r, NEW s, NEW files, Given(c, r, s, files),
         r.op = "extract", pc[c] = "validate", FoundExtract(c, r, s)
  PROVE  /\ (FirstLine(c) <= LastLine(c) /\ LastLine(c) <= LineCount(c)) <=> Scans(r, s)
         /\ Scans(r, s) => span[c].to # 0
<1>1. /\ r = req[c] /\ Len(s) \in Nat /\ r.first \in Nat /\ r.last \in Nat
  BY DEF Given
<1>2. ExtractAt(r, s, open[c], at[c], found[c], span[c]) /\ Whole(r, s, open[c], found[c])
  BY DEF FoundExtract
<1> DEFINE lines == LinesTo(r, s, Len(s))
<1>3. /\ found[c] \in Nat /\ lines \in Nat /\ found[c] <= lines
      /\ open[c] = Len(s) + 1 => found[c] = lines
  BY <1>1, <1>2, ExtractCounts
<1>4. FirstLine(c) = FirstOf(r) /\ FirstOf(r) \in Nat
  BY <1>1 DEF FirstLine, FirstOf
<1>5. Scans(r, s) <=> FirstOf(r) <= (IF r.last = 0 THEN lines ELSE r.last) /\ r.last <= lines
  BY DEF Scans
<1>6. found[c] >= FirstOf(r) /\ (r.last = 0 \/ FirstOf(r) <= r.last) => span[c].to # 0
  BY <1>2 DEF ExtractAt
<1> HIDE DEF lines
<1>7. CASE r.last = 0
  <2>1. found[c] = lines
    BY <1>2, <1>3, <1>7 DEF Whole
  <2>2. LineCount(c) = lines /\ LastLine(c) = lines
    BY <1>1, <1>7, <2>1 DEF LineCount, LastLine
  <2>3. QED
    BY <1>1, <1>3, <1>4, <1>5, <1>6, <1>7, <2>1, <2>2
<1>8. CASE r.last # 0
  <2>1. found[c] = lines \/ found[c] = r.last
    BY <1>2, <1>3 DEF Whole
  <2>2. LastLine(c) = r.last /\ LineCount(c) = IF found[c] >= r.last THEN r.last ELSE found[c]
    BY <1>1, <1>8 DEF LineCount, LastLine
  <2>3. QED
    BY <1>1, <1>3, <1>4, <1>5, <1>6, <1>8, <2>1, <2>2
<1>9. QED
  BY <1>7, <1>8

LEMMA LineEnds ==
  ASSUME SpanOutputsTypeOK, NEW c \in Call, NEW r, NEW s, NEW files, Given(c, r, s, files),
         r.op = "extract", pc[c] = "scan", ExtractAt(r, s, open[c], at[c], found[c], span[c]),
         open[c] <= Len(s),
         NEW i, (i = at[c] /\ i \in Closes(r, s)) \/ (at[c] = Len(s) + 1 /\ i = Len(s)), EndLine(c, i)
  PROVE  /\ ExtractAt(r, s, open[c], at[c], found[c], span[c])'
         /\ pc'[c] = "validate" => Whole(r, s, open[c], found[c])'
         /\ pc'[c] \in {"scan", "validate"}
<1>1. /\ r = req[c] /\ Len(s) \in Nat /\ r.first \in Nat /\ r.last \in Nat
  BY DEF Given
<1>2. /\ pc \in [Call -> Stage] /\ at \in [Call -> Nat \ {0}] /\ open \in [Call -> Nat]
      /\ found \in [Call -> Nat] /\ span \in [Call -> Span]
  BY DEF SpanOutputsTypeOK
<1>3. found'[c] = found[c] + 1 /\ open'[c] = i + 1 /\ at'[c] = i + 1
  BY <1>2 DEF EndLine
<1>4. InRange(c, found'[c]) <=> Ranged(r, found[c] + 1)
  BY <1>1, <1>3 DEF InRange, Ranged, FirstLine, FirstOf
<1>5. span'[c] = IF Ranged(r, found[c] + 1)
                 THEN [from |-> IF span[c].to = 0 THEN open[c] ELSE span[c].from, to |-> i] ELSE span[c]
  BY <1>2, <1>4 DEF EndLine
<1>6. ExtractAt(r, s, i + 1, i + 1, found[c] + 1, span'[c])
  BY <1>1, <1>5, ExtractLineEnds
<1>7. /\ pc'[c] = "validate" => r.last # 0 /\ found'[c] = r.last
      /\ pc'[c] \in {"scan", "validate"}
  BY <1>1, <1>2 DEF EndLine, Goto
<1>8. QED
  BY <1>3, <1>6, <1>7 DEF Whole

LEMMA ExtractFound ==
  ASSUME SpanOutputsTypeOK, NEW c \in Call, Local(c), NEW r, NEW s, NEW files, Given(c, r, s, files),
         Fresh(c), FoundExtract(c, r, s), Make(c) \/ Step(c), ~Enter(c), Routes(c)
  PROVE  FoundExtract(c, r, s)'
<1> SUFFICES ASSUME r.op = "extract", pc'[c] \in {"scan", "validate", "hash"}
             PROVE  /\ pc'[c] \in {"scan", "validate"} => ExtractAt(r, s, open[c], at[c], found[c], span[c])'
                    /\ pc'[c] = "validate" => Whole(r, s, open[c], found[c])'
                    /\ pc'[c] = "hash" => NextPart(r, s, << >>, span[c], Len(s) + 1)' /\ Scans(r, s)
  BY DEF FoundExtract
<1>1. /\ pc \in [Call -> Stage] /\ at \in [Call -> Nat \ {0}] /\ open \in [Call -> Nat]
      /\ found \in [Call -> Nat] /\ span \in [Call -> Span]
  BY DEF SpanOutputsTypeOK
<1>2. at[c] \in Nat \ {0} /\ open[c] \in Nat /\ found[c] \in Nat
  BY Typed
<1>3. /\ r = req[c] /\ s \in Seq(Cell) /\ Len(s) \in Nat /\ r.op \in Command
      /\ r.first \in Nat /\ r.last \in Nat /\ (Running(c) => source = s)
  BY DEF Given
<1>4. CASE (OpenSource(c) \/ Preflight(c)) /\ pc'[c] = "scan"
  <2>1. /\ at[c] = 1 /\ open[c] = 1 /\ found[c] = 0 /\ span[c] = NoSpan
        /\ UNCHANGED <<at, open, found, span>>
    BY <1>3, <1>4 DEF OpenSource, Preflight, PublishOnly, Fresh, scanVars, Routes
  <2>2. ExtractAt(r, s, 1, 1, 0, NoSpan)
    <3>1. NoSpan.from = 1 /\ NoSpan.to = 0
      BY DEF NoSpan
    <3>2. QED
      BY <1>3, <3>1, ScansBegin
  <2>3. QED
    BY <1>4, <2>1, <2>2
<1>5. CASE ExtractLine(c)
  <2>1. pc[c] = "scan" /\ ~AtEnd(c)
    BY <1>5 DEF ExtractLine, Scanning
  <2>2. /\ ExtractAt(r, s, open[c], at[c], found[c], span[c])
        /\ source = s /\ at[c] \in 1..Len(s) /\ Here(c) = s[at[c]] /\ open[c] <= Len(s)
    BY <1>2, <1>3, <2>1 DEF FoundExtract, AtEnd, Running, Here, ExtractAt
  <2>3. CASE s[at[c]] \notin r.closes /\ Advance(c)
    <3>1. at'[c] = at[c] + 1 /\ UNCHANGED <<open, found, span>> /\ pc'[c] = "scan"
      BY <1>1, <2>1, <2>3 DEF Advance
    <3>2. ExtractAt(r, s, open[c], at[c] + 1, found[c], span[c])
      BY <1>3, <2>2, <2>3, ExtractPass
    <3>3. QED
      BY <3>1, <3>2
  <2>4. CASE s[at[c]] \in r.closes /\ EndLine(c, at[c])
    <3>1. at[c] \in Closes(r, s)
      BY <2>2, <2>4 DEF Closes
    <3>2. QED
      BY <2>1, <2>2, <2>4, <3>1, LineEnds
  <2>5. QED
    BY <1>3, <1>5, <2>2, <2>3, <2>4 DEF ExtractLine
<1>6. CASE ExtractEnd(c)
  <2>1. pc[c] = "scan" /\ AtEnd(c)
    BY <1>6 DEF ExtractEnd, Scanning
  <2>2. /\ ExtractAt(r, s, open[c], at[c], found[c], span[c])
        /\ source = s /\ at[c] = Len(s) + 1 /\ open[c] <= Len(s) + 1
    BY <1>2, <1>3, <2>1 DEF FoundExtract, AtEnd, Running, ExtractAt
  <2>3. CASE open[c] <= Len(s) /\ EndLine(c, Len(s))
    BY <1>3, <2>1, <2>2, <2>3, LineEnds
  <2>4. CASE open[c] > Len(s) /\ Goto(c, "validate") /\ UNCHANGED <<scanVars, span>>
    <3>1. pc'[c] = "validate" /\ UNCHANGED <<at, open, found, span>>
      BY <1>1, <2>4 DEF Goto, scanVars
    <3>2. open[c] = Len(s) + 1
      BY <1>2, <1>3, <2>2, <2>4
    <3>3. QED
      BY <2>2, <3>1, <3>2 DEF Whole
  <2>5. QED
    BY <1>3, <1>6, <2>2, <2>3, <2>4 DEF ExtractEnd
<1>7. CASE Validate(c)
  <2>1. pc[c] = "validate" /\ pc'[c] = "hash"
    BY <1>7 DEF Routes
  <2>2. FirstLine(c) <= LastLine(c) /\ LastLine(c) <= LineCount(c) /\ StartRead(c, "hash", span[c])
    BY <1>1, <1>7, <2>1 DEF Validate, Finish
  <2>3. Scans(r, s) /\ span[c].to # 0
    BY <2>1, <2>2, RangeMeans
  <2>4. ExtractAt(r, s, open[c], at[c], found[c], span[c]) /\ Whole(r, s, open[c], found[c])
    BY <2>1 DEF FoundExtract
  <2>5. NextPart(r, s, << >>, span[c], Len(s) + 1)
    BY <1>3, <2>3, <2>4, ExtractWhole
  <2>6. span'[c] = span[c]
    BY <1>1, <2>2 DEF StartRead
  <2>7. QED
    BY <2>1, <2>3, <2>5, <2>6
<1>8. CASE ReadSpan(c)
  <2>1. pc[c] = "hash" /\ pc' = pc /\ span' = span
    BY <1>8 DEF ReadSpan, Routes
  <2>2. QED
    BY <2>1 DEF FoundExtract
<1>9. CASE Hashed(c)
  BY <1>1, <1>3, <1>9 DEF Hashed, Goto
<1>10. CASE \/ Make(c) \/ SplitLine(c) \/ SplitEnd(c) \/ BlocksLine(c) \/ BlocksEnd(c)
            \/ Prepare(c) \/ Probe(c) \/ Verify(c) \/ Commit(c) \/ Return(c)
            \/ ((OpenSource(c) \/ Preflight(c)) /\ pc'[c] # "scan")
  BY <1>3, <1>10 DEF Routes
<1>11. QED
  BY <1>4, <1>5, <1>6, <1>7, <1>8, <1>9, <1>10 DEF Step

-----------------------------------------------------------------------------
(* What is read is the source as it was.                                   *)

LEMMA ReadBegins ==
  ASSUME SpanOutputsTypeOK, NEW c \in Call, Make(c) \/ Step(c), Routes(c),
         pc'[c] \in {"hash", "copy"}, ~ReadSpan(c)
  PROVE  seen'[c] = << >>
<1>1. pc \in [Call -> Stage] /\ seen \in [Call -> Content]
  BY DEF SpanOutputsTypeOK
<1>2. \A st, sp : StartRead(c, st, sp) => seen'[c] = << >>
  BY <1>1 DEF StartRead
<1>3. \A n : OpenSection(c, n) => pc'[c] \in {"scan", "closing"}
  BY <1>1 DEF OpenSection, Goto, Finish
<1>4. CASE SplitLine(c)
  BY <1>2, <1>3, <1>4 DEF SplitLine, Scanning, Advance
<1>5. CASE SplitEnd(c)
  BY <1>1, <1>2, <1>5 DEF SplitEnd, Goto, Finish
<1>6. CASE BlocksLine(c)
  BY <1>1, <1>2, <1>6 DEF BlocksLine, Scanning, Advance, OpenBlock, CloseBlock, Finish
<1>7. CASE BlocksEnd(c)
  BY <1>1, <1>7 DEF BlocksEnd, Goto, Finish
<1>8. CASE Validate(c)
  BY <1>1, <1>2, <1>8 DEF Validate, Finish
<1>9. CASE Probe(c)
  BY <1>1, <1>2, <1>9 DEF Probe, Finish
<1>10. CASE \/ Make(c) \/ Enter(c) \/ OpenSource(c) \/ ExtractLine(c) \/ ExtractEnd(c)
            \/ Hashed(c) \/ Prepare(c) \/ Preflight(c) \/ Verify(c) \/ Commit(c) \/ Return(c)
  BY <1>10 DEF Routes
<1>11. QED
  BY <1>4, <1>5, <1>6, <1>7, <1>8, <1>9, <1>10 DEF Step

LEMMA ReadFound ==
  ASSUME SpanOutputsTypeOK, NEW c \in Call, Local(c), NEW r, NEW s, NEW files, Given(c, r, s, files),
         Fresh(c), FoundRead(c, s), Make(c) \/ Step(c), ~Enter(c), Routes(c)
  PROVE  FoundRead(c, s)'
<1>1. /\ pc \in [Call -> Stage] /\ seen \in [Call -> Content]
  BY DEF SpanOutputsTypeOK
<1>2. /\ seen[c] \in Seq(Cell) /\ Len(seen[c]) \in Nat
      /\ span[c].from \in Nat \ {0} /\ span[c].to \in Nat
      /\ Len(source) \in Nat /\ source \in Seq(Cell) /\ Len(plan[c]) \in Nat
  BY Typed
<1>3. ASSUME pc'[c] \in {"hash", "copy"} PROVE Copies(seen'[c], span'[c].from, s)
  <2>1. CASE ReadSpan(c)
    <3>1. /\ pc[c] \in {"hash", "copy"} /\ UNCHANGED <<pc, span>> /\ ~ReadAll(c)
          /\ seen'[c] = Append(seen[c], source[span[c].from + Len(seen[c])])
      BY <1>1, <2>1 DEF ReadSpan
    <3>2. source = s /\ Copies(seen[c], span[c].from, s)
      BY <3>1 DEF Given, Running, FoundRead
    <3>3. source[span[c].from + Len(seen[c])] \in Cell
      <4>1. span[c].to <= Len(source) /\ ~(Len(seen[c]) >= span[c].to - span[c].from + 1)
        BY <3>1 DEF ReadAll, Size, Local, SpanInv, Fits
      <4>2. span[c].from + Len(seen[c]) \in 1..Len(source)
        BY ONLY <1>2, <4>1
      <4>3. QED
        BY <1>2, <4>2
    <3>4. /\ Len(seen'[c]) = Len(seen[c]) + 1
          /\ seen'[c][Len(seen[c]) + 1] = source[span[c].from + Len(seen[c])]
          /\ \A m \in 1..Len(seen[c]) : seen'[c][m] = seen[c][m]
      BY <1>2, <3>1, <3>3
    <3>5. ASSUME NEW j \in 1..Len(seen'[c]) PROVE seen'[c][j] = s[span[c].from + j - 1]
      <4>1. CASE j \in 1..Len(seen[c])
        BY <3>2, <3>4, <4>1 DEF Copies
      <4>2. CASE j = Len(seen[c]) + 1
        <5>1. span[c].from + j - 1 = span[c].from + Len(seen[c])
          BY <1>2, <4>2
        <5>2. QED
          BY <3>2, <3>4, <4>2, <5>1
      <4>3. QED
        BY <1>2, <3>4, <4>1, <4>2
    <3>6. QED
      BY <3>1, <3>5 DEF Copies
  <2>2. CASE ~ReadSpan(c)
    <3>1. seen'[c] = << >>
      BY <1>3, <2>2, ReadBegins
    <3>2. QED
      BY <3>1 DEF Copies
  <2>3. QED
    BY <2>1, <2>2
<1>4. ASSUME pc'[c] \notin {"idle", "called", "dead"}, NEW k \in 1..Len(plan'[c])
      PROVE  Copies(plan'[c][k].digest, plan'[c][k].from, s)
  <2>1. pc[c] \notin {"idle", "called", "dead"}
    BY <1>4 DEF Routes, Step
  <2>2. \A m \in 1..Len(plan[c]) : Copies(plan[c][m].digest, plan[c][m].from, s)
    BY <2>1 DEF FoundRead
  <2>3. CASE Hashed(c)
    <3>1. /\ Len(plan'[c]) = Len(plan[c]) + 1
          /\ \A m \in 1..Len(plan[c]) : plan'[c][m] = plan[c][m]
          /\ plan'[c][Len(plan[c]) + 1].digest = seen[c]
          /\ plan'[c][Len(plan[c]) + 1].from = span[c].from
      BY <2>3, HashedExtends
    <3>2. Copies(seen[c], span[c].from, s)
      BY <2>3 DEF FoundRead, Routes
    <3>3. k \in 1..Len(plan[c]) \/ k = Len(plan[c]) + 1
      BY <1>2, <3>1
    <3>4. QED
      BY <2>2, <3>1, <3>2, <3>3
  <2>4. CASE ~Hashed(c)
    BY <1>4, <2>2, <2>4, Plans
  <2>5. QED
    BY <2>3, <2>4
<1>5. QED
  BY <1>3, <1>4 DEF FoundRead

-----------------------------------------------------------------------------
(* When planning is over, the plan has the parts of the source.            *)

LEMMA PlanCounts ==
  ASSUME NEW c \in Call, NEW r, NEW s, NEW files, Given(c, r, s, files), r.op # "extract",
         NEW P, Len(P) \in Nat, Follow(r, s, P, Len(s) + 1)
  PROVE  Len(P) = OutputsOf(r, s)
<1>1. Cardinality(Parts(r, s)) = Len(P)
  BY FollowSections DEF Given
<1>2. QED
  BY <1>1 DEF OutputsOf

LEMMA SplitPlanned ==
  ASSUME SpanOutputsTypeOK, NEW c \in Call, Local(c), NEW r, NEW s, NEW files, Given(c, r, s, files),
         r.op = "split", FoundSplit(c, r, s), SplitEnd(c) \/ Hashed(c), pc'[c] = "planned"
  PROVE  Follow(r, s, plan'[c], Len(s) + 1) /\ Len(plan'[c]) = OutputsOf(r, s) /\ Scans(r, s)
<1>1. pc \in [Call -> Stage]
  BY DEF SpanOutputsTypeOK
<1>2. /\ plan[c] \in Seq(Planned) /\ Len(plan[c]) \in Nat /\ at[c] \in Nat \ {0} /\ open[c] \in Nat
  BY Typed
<1>3. /\ r = req[c] /\ s \in Seq(Cell) /\ Len(s) \in Nat /\ r.op \in Command
      /\ r.bare \in BOOLEAN /\ (Running(c) => source = s)
  BY DEF Given
<1>4. /\ pc[c] \in {"scan", "hash"} /\ AtEnd(c)
      /\ SplitEnd(c) => open[c] # 0 /\ Size(SplitSection(c)) <= 0 /\ plan' = plan
      /\ Hashed(c) => pc[c] = "hash"
  <2>1. CASE SplitEnd(c)
    <3>1. open[c] # 0 /\ Size(SplitSection(c)) <= 0
      BY <1>1, <2>1 DEF SplitEnd, StartRead, Goto, Finish
    <3>2. pc[c] = "scan" /\ AtEnd(c) /\ plan' = plan
      BY <2>1 DEF SplitEnd, Scanning, ScanOnly
    <3>3. ~Hashed(c)
      BY <3>2 DEF Hashed
    <3>4. QED
      BY <3>1, <3>2, <3>3
  <2>2. CASE Hashed(c)
    <3>1. pc[c] = "hash" /\ ~SplitEnd(c)
      BY <2>2 DEF Hashed, SplitEnd, Scanning
    <3>2. AtEnd(c)
      BY <1>1, <1>3, <2>2 DEF Hashed, OpenSection, Goto, Finish
    <3>3. QED
      BY <3>1, <3>2
  <2>3. QED
    BY <2>1, <2>2
<1>5. SplitAt(r, s, plan[c], open[c], at[c]) /\ Opened(r, s, at[c])
  BY <1>4 DEF FoundSplit
<1>6. at[c] = Len(s) + 1
  BY <1>2, <1>3, <1>4, <1>5 DEF AtEnd, Running, SplitAt
<1>7. open[c] # 0
  BY <1>4, <1>6 DEF FoundSplit
<1>8. Scans(r, s)
  BY <1>5, <1>6, <1>7 DEF SplitAt, Scans
<1>9. CASE SplitEnd(c)
  <2>1. /\ SplitSection(c).from = SplitFrom(r, open[c]) /\ SplitSection(c).to = at[c] - 1
        /\ SplitSection(c).from \in Nat
    BY <1>2, <1>3 DEF SplitSection, SplitFrom
  <2>2. SplitFrom(r, open[c]) > at[c] - 1
    BY <1>2, <1>4, <1>9, <2>1 DEF Size
  <2>3. Follow(r, s, plan[c], at[c])
    BY <1>3, <1>5, <2>2, SplitEmpty
  <2>4. QED
    BY <1>2, <1>4, <1>6, <1>8, <1>9, <2>3, PlanCounts
<1>10. CASE Hashed(c)
  <2>1. /\ span[c].from = SplitFrom(r, open[c]) /\ span[c].to = at[c] - 1
        /\ span[c].from <= span[c].to
    BY <1>4, <1>10 DEF FoundSplit
  <2>2. Extends(plan[c], span[c], plan'[c])
    BY <1>10, HashedExtends
  <2>3. Follow(r, s, plan'[c], at[c])
    BY <1>2, <1>3, <1>5, <2>1, <2>2, SplitGrows
  <2>4. Len(plan'[c]) \in Nat
    BY <1>2, <2>2 DEF Extends
  <2>5. QED
    BY <1>6, <1>8, <2>3, <2>4, PlanCounts
<1>11. QED
  BY <1>9, <1>10

LEMMA BlocksPlanned ==
  ASSUME SpanOutputsTypeOK, NEW c \in Call, Local(c), NEW r, NEW s, NEW files, Given(c, r, s, files),
         r.op = "blocks", FoundBlocks(c, r, s), BlocksEnd(c), pc'[c] = "planned"
  PROVE  Follow(r, s, plan'[c], Len(s) + 1) /\ Len(plan'[c]) = OutputsOf(r, s) /\ Scans(r, s)
<1>1. pc \in [Call -> Stage]
  BY DEF SpanOutputsTypeOK
<1>2. /\ plan[c] \in Seq(Planned) /\ Len(plan[c]) \in Nat /\ at[c] \in Nat \ {0} /\ open[c] \in Nat
  BY Typed
<1>3. /\ r = req[c] /\ s \in Seq(Cell) /\ Len(s) \in Nat /\ r.op \in Command
      /\ (Running(c) => source = s)
  BY DEF Given
<1>4. pc[c] = "scan" /\ AtEnd(c) /\ open[c] = 0 /\ found[c] # 0 /\ plan' = plan
  BY <1>1 DEF BlocksEnd, Scanning, ScanOnly, Finish
<1>5. BlocksAt(r, s, plan[c], 0, at[c]) /\ Opens(r, s) # {}
  BY <1>4 DEF FoundBlocks
<1>6. at[c] = Len(s) + 1
  BY <1>2, <1>3, <1>4, <1>5 DEF AtEnd, Running, BlocksAt
<1>7. ~InBlock(r, s)[Len(s) + 1] /\ Follow(r, s, plan[c], Len(s) + 1)
  BY <1>5, <1>6 DEF BlocksAt
<1>8. Cardinality(Parts(r, s)) = Len(plan[c])
  BY <1>2, <1>3, <1>7, FollowSections
<1>9. Len(plan[c]) <= Len(r.dest)
  BY <1>3 DEF Local, RoomInv, Limit
<1>10. QED
  BY <1>3, <1>4, <1>5, <1>7, <1>8, <1>9 DEF Scans, OutputsOf

LEMMA ExtractPlanned ==
  ASSUME SpanOutputsTypeOK, NEW c \in Call, Local(c), NEW r, NEW s, NEW files, Given(c, r, s, files),
         r.op = "extract", FoundExtract(c, r, s), Hashed(c)
  PROVE  Follow(r, s, plan'[c], Len(s) + 1) /\ Len(plan'[c]) = OutputsOf(r, s) /\ Scans(r, s)
<1>1. /\ r = req[c] /\ Len(s) \in Nat /\ pc[c] = "hash"
  BY DEF Given, Hashed
<1>2. plan[c] = << >>
  BY <1>1 DEF Local, RoomInv
<1>3. NextPart(r, s, << >>, span[c], Len(s) + 1) /\ Scans(r, s)
  BY <1>1 DEF FoundExtract
<1>4. Extends(<< >>, span[c], plan'[c])
  BY <1>2, HashedExtends
<1>5. Follow(r, s, << >>, 1) /\ Len(<< >>) = 0 /\ Len(s) + 1 \in Nat /\ 1 <= Len(s) + 1
  BY <1>1, FollowNothing
<1>6. Follow(r, s, plan'[c], Len(s) + 1)
  BY <1>3, <1>4, <1>5, FollowAppend
<1>7. Len(plan'[c]) = 1
  BY <1>4, <1>5 DEF Extends
<1>8. QED
  BY <1>3, <1>6, <1>7 DEF OutputsOf

LEMMA PlanFound ==
  ASSUME SpanOutputsTypeOK, NEW c \in Call, Local(c), NEW r, NEW s, NEW files, Given(c, r, s, files),
         FoundFor(c, r, s, files), Make(c) \/ Step(c), ~Enter(c), Routes(c)
  PROVE  FoundPlan(c, r, s)'
<1> SUFFICES ASSUME Settled(c)'
             PROVE  /\ Follow(r, s, plan'[c], Len(s) + 1)
                    /\ Len(plan'[c]) = OutputsOf(r, s)
                    /\ Scans(r, s)
                    /\ pc'[c] # "planned" => r.names \in {0, Len(plan'[c])}
  BY DEF FoundPlan
<1>1. /\ pc \in [Call -> Stage] /\ result \in [Call -> Outcome]
  BY DEF SpanOutputsTypeOK
<1>2. r = req[c] /\ r.op \in Command /\ req' = req
  BY Leaves DEF Given
<1>3. FoundSplit(c, r, s) /\ FoundBlocks(c, r, s) /\ FoundExtract(c, r, s) /\ FoundPlan(c, r, s)
  BY DEF FoundFor
<1>4. CASE SplitLine(c) \/ SplitEnd(c)
  <2>1. pc'[c] = "closing" => result'[c] # "ok"
    BY <1>1, <1>4 DEF SplitLine, SplitEnd, Scanning, Advance, OpenSection, StartRead, Goto, Finish
  <2>2. pc'[c] = "planned" /\ r.op = "split"
    BY <1>2, <1>4, <2>1 DEF Settled, Routes
  <2>3. SplitEnd(c)
    BY <1>1, <1>4, <2>2 DEF SplitLine, Scanning, Advance, OpenSection, StartRead, Goto, Finish
  <2>4. QED
    BY <1>3, <2>2, <2>3, SplitPlanned
<1>5. CASE BlocksLine(c) \/ BlocksEnd(c)
  <2>1. pc'[c] = "closing" => result'[c] # "ok"
    BY <1>1, <1>5 DEF BlocksLine, BlocksEnd, Scanning, Advance, OpenBlock, CloseBlock, StartRead, Goto, Finish
  <2>2. pc'[c] = "planned" /\ r.op = "blocks"
    BY <1>2, <1>5, <2>1 DEF Settled, Routes
  <2>3. BlocksEnd(c)
    BY <1>1, <1>5, <2>2 DEF BlocksLine, Scanning, Advance, OpenBlock, CloseBlock, StartRead, Goto, Finish
  <2>4. QED
    BY <1>3, <2>2, <2>3, BlocksPlanned
<1>6. CASE Hashed(c)
  <2>1. pc'[c] = "closing" => result'[c] # "ok"
    BY <1>1, <1>6 DEF Hashed, OpenSection, Goto, Finish
  <2>2. pc'[c] = "planned"
    BY <1>6, <2>1 DEF Settled, Routes
  <2>3. r.op \in {"split", "extract"}
    BY <1>1, <1>2, <1>6, <2>2 DEF Hashed, Goto, Command
  <2>4. QED
    BY <1>3, <1>6, <2>2, <2>3, SplitPlanned, ExtractPlanned
<1>7. CASE Prepare(c)
  <2>1. Settled(c) /\ pc[c] = "planned" /\ plan' = plan
    BY <1>7, Plans DEF Prepare, Settled
  <2>2. r.names \in {0, Len(plan[c])}
    BY <1>1, <1>2, <1>7 DEF Prepare, Finish, Settled
  <2>3. QED
    BY <1>3, <2>1, <2>2 DEF FoundPlan
<1>8. CASE Preflight(c)
  <2>1. pc[c] = "preflight" /\ req[c].preview /\ plan' = plan
    BY <1>8 DEF Preflight, PublishOnly, Local, ProgressInv
  <2>2. Settled(c)
    BY <1>2, <1>8, <2>1 DEF Settled, Routes
  <2>3. QED
    BY <1>3, <2>1, <2>2 DEF FoundPlan
<1>9. CASE ReadSpan(c) \/ Probe(c) \/ Verify(c) \/ Commit(c)
  <2>1. pc[c] \in {"probe", "copy", "commit"} /\ plan' = plan
    BY <1>9, Plans DEF Settled, Routes, ReadSpan, Probe, Verify, Commit
  <2>2. QED
    BY <1>3, <2>1 DEF FoundPlan, Settled
<1>10. CASE Return(c)
  <2>1. pc[c] = "closing" /\ Settled(c) /\ plan' = plan
    BY <1>2, <1>10, Plans DEF Settled, Routes, Return
  <2>2. QED
    BY <1>3, <2>1 DEF FoundPlan
<1>11. CASE Validate(c)
  BY <1>1, <1>2, <1>11 DEF Validate, StartRead, Goto, Finish, Settled
<1>12. CASE Make(c) \/ OpenSource(c) \/ ExtractLine(c) \/ ExtractEnd(c)
  BY <1>2, <1>12 DEF Routes, Settled
<1>13. QED
  BY <1>4, <1>5, <1>6, <1>7, <1>8, <1>9, <1>10, <1>11, <1>12 DEF Step

-----------------------------------------------------------------------------
(* What the call sees of the world.                                        *)

LEMMA SameKept ==
  ASSUME SpanOutputsTypeOK, NEW c \in Call, Local(c), Same(c), Make(c) \/ Step(c), Routes(c)
  PROVE  Same(c)'
<1>1. /\ source' = source /\ req' = req /\ (~Enter(c) => began' = began)
      /\ ~Commit(c) => store' = store
      /\ ~Preflight(c) /\ ~Commit(c) => next' = next
      /\ next \in [Call -> Nat \ {0}] /\ next[c] \in Nat
  BY Leaves, Plans DEF SpanOutputsTypeOK
<1>2. SUFFICES ASSUME Running(c)'
               PROVE  /\ source' = began'[c].source
                      /\ ~Publishing(c)' /\ pc'[c] # "closing" => folder' = began'[c].folder
                      /\ Publishing(c)' => (folder' = "open" <=> Room(c)')
                      /\ \A p \in Path : store'[p] = began'[c].store[p]
                           \/ \E k \in 1..(next'[c] - 1) : req'[c].dest[k] = p
  BY DEF Same
<1>3. CASE Enter(c)
  <2>1. /\ began'[c] = [source |-> source, store |-> store, folder |-> folder] /\ store' = store
        /\ folder' = folder /\ pc'[c] = "open"
    BY <1>3, Leaves DEF Enter, SpanOutputsTypeOK, worldVars, Goto
  <2>2. QED
    BY <1>1, <2>1 DEF Publishing
<1>4. CASE ~Enter(c)
  <2>1. Running(c)
    BY <1>2, <1>4 DEF Running, Routes, Step
  <2>2. /\ source = began[c].source
        /\ \A p \in Path : store[p] = began[c].store[p] \/ \E k \in 1..(next[c] - 1) : req[c].dest[k] = p
    BY <2>1 DEF Same
  <2>6. /\ ~Publishing(c)' /\ pc'[c] # "closing" => folder' = began'[c].folder
        /\ Publishing(c)' => (folder' = "open" <=> Room(c)')
    <3>1. CASE Prepare(c)
      <4>1. pc[c] = "planned" /\ folder = began[c].folder /\ began' = began /\ req' = req
        BY <1>1, <1>4, <2>1, <3>1 DEF Prepare, Same, Publishing
      <4>2. CASE pc'[c] = "closing"
        BY <4>2 DEF Publishing
      <4>3. CASE pc'[c] # "closing"
        <5>1. Mkdir(c) /\ pc'[c] = IF req[c].preview THEN "preflight" ELSE "probe"
          BY <3>1, <4>3 DEF Prepare, Finish, Goto, SpanOutputsTypeOK
        <5>2. CASE req[c].preview
          BY <4>1, <5>1, <5>2 DEF Mkdir, Publishing
        <5>3. CASE ~req[c].preview
          BY <4>1, <5>1, <5>3 DEF Mkdir, Publishing, Room
        <5>4. QED
          BY <5>2, <5>3
      <4>4. QED
        BY <4>2, <4>3
    <3>2. CASE ~Prepare(c)
      <4>1. folder' = folder /\ began' = began /\ req' = req
        BY <1>1, <1>4, <3>2, Leaves
      <4>2. Publishing(c)' => Publishing(c)
        BY <3>2 DEF Routes, Step, Publishing
      <4>3. pc'[c] # "closing" /\ ~Publishing(c)' => ~Publishing(c) /\ pc[c] # "closing"
        BY <1>2, <2>1, <3>2 DEF Routes, Step, Publishing, Running
      <4>4. QED
        BY <2>1, <4>1, <4>2, <4>3 DEF Same, Room
    <3>3. QED
      BY <3>1, <3>2
  <2>3. CASE Commit(c) /\ store[Destination(c)] # Directory
    <3>1. next'[c] = next[c] + 1 /\ store' = [store EXCEPT ![Destination(c)] = base[c] \o seen[c]]
      BY <1>1, <2>3 DEF Commit
    <3>2. \A k \in 1..(next[c] - 1) : k \in 1..(next'[c] - 1)
      BY <1>1, <3>1
    <3>3. next[c] \in 1..(next'[c] - 1)
      BY <1>1, <3>1 DEF SpanOutputsTypeOK
    <3>4. \A p \in Path : p # Destination(c) => store'[p] = store[p]
      BY <3>1 DEF SpanOutputsTypeOK
    <3>5. QED
      BY <1>1, <1>4, <2>2, <2>6, <3>2, <3>3, <3>4 DEF Destination
  <2>4. CASE ~Commit(c) \/ store[Destination(c)] = Directory
    <3>1. store' = store /\ (next'[c] = next[c] \/ next'[c] = next[c] + 1)
      BY <1>1, <2>4 DEF Preflight, Commit
    <3>2. \A k \in 1..(next[c] - 1) : k \in 1..(next'[c] - 1)
      BY <1>1, <3>1
    <3>3. QED
      BY <1>1, <1>4, <2>2, <2>6, <3>1, <3>2
  <2>5. QED
    BY <2>3, <2>4
<1>5. QED
  BY <1>3, <1>4

(* Where the next output goes, the call finds what it would have found     *)
(* when it began.                                                          *)
LEMMA Vacancy ==
  ASSUME SpanOutputsTypeOK, NEW c \in Call, Local(c), NEW r, NEW s, NEW files, Given(c, r, s, files),
         Same(c), Running(c), next[c] <= Len(r.dest)
  PROVE  store[r.dest[next[c]]] = files[r.dest[next[c]]]
<1>1. r = req[c] /\ r.dest \in Seq(Path) /\ Len(r.dest) \in Nat /\ next[c] \in Nat \ {0}
  BY DEF Given, SpanOutputsTypeOK, Request
<1>2. next[c] \in 1..Len(r.dest) /\ r.dest[next[c]] \in Path
  BY <1>1
<1>3. IsInjective(r.dest)
  BY <1>1 DEF Local, WellFormed
<1>4. ASSUME NEW k \in 1..(next[c] - 1), r.dest[k] = r.dest[next[c]] PROVE FALSE
  <2>1. k \in 1..Len(r.dest) /\ k # next[c]
    BY <1>1
  <2>2. QED
    BY <1>1, <1>2, <1>3, <1>4, <2>1 DEF IsInjective
<1>5. QED
  BY <1>1, <1>2, <1>4 DEF Same, Given

LEMMA LookedAt ==
  ASSUME SpanOutputsTypeOK, NEW c \in Call, Local(c), NEW r, NEW s, NEW files, Given(c, r, s, files)
  PROVE  /\ DestinationCount(c) \in Nat /\ DestinationCount(c) <= Len(r.dest)
         /\ r.op # "extract" => DestinationCount(c) = Len(plan[c])
         /\ r.op = "extract" => DestinationCount(c) = 1
<1>1. /\ r = req[c] /\ Len(r.dest) \in Nat /\ Len(plan[c]) \in Nat
      /\ Len(plan[c]) <= Len(r.dest) /\ (r.op = "extract" => Len(r.dest) = 1)
  BY Typed DEF Given, Local, RoomInv, Limit, WellFormed
<1>2. QED
  BY <1>1 DEF DestinationCount

LEMMA VacantFound ==
  ASSUME SpanOutputsTypeOK, NEW c \in Call, Local(c), NEW r, NEW s, NEW files, Given(c, r, s, files),
         Fresh(c), Same(c), FoundVacant(c, r, files), Make(c) \/ Step(c), ~Enter(c), Routes(c)
  PROVE  FoundVacant(c, r, files)'
<1> SUFFICES ASSUME Creates(r)
             PROVE  /\ Running(c)' => \A k \in 1..(next'[c] - 1) : files[r.dest[k]] = Nothing
                    /\ pc'[c] \in {"copy", "commit"} => files[r.dest[next'[c]]] = Nothing
                    /\ r.preview /\ r.op = "extract" /\ pc'[c] \in {"scan", "validate"} => next'[c] > 1
  BY DEF FoundVacant
<1>1. /\ r = req[c] /\ Len(r.dest) \in Nat /\ next[c] \in Nat \ {0} /\ next \in [Call -> Nat \ {0}]
      /\ pc \in [Call -> Stage]
      /\ ~Preflight(c) /\ ~Commit(c) => next' = next
  BY Plans DEF Given, SpanOutputsTypeOK
<1>2. Running(c)' => Running(c)
  BY DEF Running, Routes, Step
<1>3. Running(c) => \A k \in 1..(next[c] - 1) : files[r.dest[k]] = Nothing
  BY DEF FoundVacant
<1>4. CASE Preflight(c)
  <2>1. Running(c) /\ pc'[c] \notin {"copy", "commit"}
    BY <1>4 DEF Routes, Running
  <2>2. DestinationCount(c) \in Nat /\ DestinationCount(c) <= Len(r.dest)
        /\ (r.op = "extract" => DestinationCount(c) = 1)
    BY LookedAt
  <2>3. \/ /\ store[r.dest[next[c]]] = Nothing /\ next[c] <= DestinationCount(c)
           /\ next'[c] = next[c] + 1 /\ pc' = pc
        \/ next' = next /\ (pc'[c] = "scan" => next[c] > DestinationCount(c))
    <3>1. ToLookAt(c) <=> next[c] <= DestinationCount(c)
      BY <1>1 DEF ToLookAt
    <3>2. pc[c] = "preflight"
      BY <1>4 DEF Preflight
    <3>3. QED
      BY <1>1, <1>4, <2>2, <3>1, <3>2 DEF Preflight, Finish, Goto
  <2>4. next'[c] # next[c] => files[r.dest[next[c]]] = Nothing
    <3>1. SUFFICES ASSUME next'[c] # next[c] PROVE files[r.dest[next[c]]] = Nothing
      OBVIOUS
    <3>2. next[c] <= Len(r.dest) /\ store[r.dest[next[c]]] = Nothing
      BY <1>1, <2>3, <2>2, <3>1
    <3>3. QED
      BY <2>1, <3>2, Vacancy
  <2>5. ASSUME NEW k \in 1..(next'[c] - 1) PROVE files[r.dest[k]] = Nothing
    <3>1. k \in 1..(next[c] - 1) \/ (k = next[c] /\ next'[c] # next[c])
      BY <1>1, <2>3
    <3>2. QED
      BY <1>3, <2>1, <2>4, <3>1
  <2>6. r.op = "extract" /\ pc'[c] \in {"scan", "validate"} => next'[c] > 1
    BY <1>1, <1>4, <2>3, <2>2 DEF Routes
  <2>7. QED
    BY <2>1, <2>5, <2>6
<1>5. CASE Commit(c)
  <2>1. /\ pc[c] = "commit" /\ Running(c) /\ next'[c] \in {next[c], next[c] + 1}
        /\ pc'[c] \in {"probe", "closing"}
    BY <1>1, <1>5 DEF Commit, Routes, Running
  <2>2. files[r.dest[next[c]]] = Nothing
    BY <2>1 DEF FoundVacant
  <2>3. \A k \in 1..(next'[c] - 1) : k \in 1..(next[c] - 1) \/ k = next[c]
    BY <1>1, <2>1
  <2>4. QED
    BY <1>3, <2>1, <2>2, <2>3
<1>6. CASE Probe(c)
  <2>1. next' = next /\ pc[c] = "probe" /\ Running(c) /\ next[c] <= Len(plan[c])
    BY <1>6 DEF Probe, Running, Local, ProgressInv, Publishing
  <2>2. next[c] <= Len(r.dest)
    <3>1. Len(plan[c]) \in Nat /\ Len(plan[c]) <= Len(r.dest)
      BY <1>1, Typed DEF Local, RoomInv, Limit
    <3>2. QED
      BY <1>1, <2>1, <3>1
  <2>3. pc'[c] = "copy" => store[r.dest[next[c]]] = Nothing
    BY <1>1, <1>6 DEF Probe, Finish, Destination
  <2>4. store[r.dest[next[c]]] = files[r.dest[next[c]]]
    BY <2>1, <2>2, Vacancy
  <2>5. QED
    BY <1>3, <1>6, <2>1, <2>3, <2>4 DEF Routes
<1>7. CASE ~Preflight(c) /\ ~Commit(c) /\ ~Probe(c)
  <2>1. next' = next
    BY <1>1, <1>7
  <2>2. pc'[c] \in {"copy", "commit"} => pc[c] \in {"copy", "commit"}
    BY <1>7 DEF Routes, Step
  <2>3. r.preview /\ r.op = "extract" /\ pc'[c] \in {"scan", "validate"} => pc[c] \in {"scan", "validate"}
    BY <1>1, <1>7 DEF Routes, Step, Hashed, OpenSection, Goto
  <2>4. QED
    BY <1>2, <1>3, <2>1, <2>2, <2>3 DEF FoundVacant
<1>8. QED
  BY <1>4, <1>5, <1>6, <1>7

(* What has been published went to a directory, and not in place of one.   *)
LEMMA PlaceFound ==
  ASSUME SpanOutputsTypeOK, NEW c \in Call, Local(c), NEW r, NEW s, NEW files, Given(c, r, s, files),
         Same(c), FoundPlace(c, r, files), Make(c) \/ Step(c), ~Enter(c), Routes(c)
  PROVE  FoundPlace(c, r, files)'
<1> SUFFICES ASSUME ~r.preview, Running(c)'
             PROVE  /\ \A k \in 1..(next'[c] - 1) : files[r.dest[k]] # Directory
                    /\ next'[c] > 1 \/ pc'[c] \in {"copy", "commit"} => Room(c)'
  BY DEF FoundPlace
<1>1. /\ r = req[c] /\ next[c] \in Nat \ {0} /\ next \in [Call -> Nat \ {0}]
      /\ ~Preflight(c) /\ ~Commit(c) => next' = next
  BY Plans DEF Given, SpanOutputsTypeOK
<1>2. Running(c) \/ next'[c] = 1
  <2>1. Running(c) \/ Make(c)
    BY DEF Running, Routes, Step
  <2>2. Make(c) => pc'[c] = "called"
    BY DEF Routes
  <2>3. QED
    BY <2>1, <2>2 DEF Running
<1>3. Room(c)' <=> Room(c)
  BY Leaves DEF Room
<1>4. CASE Preflight(c)
  BY <1>1, <1>4 DEF Preflight, Local, ProgressInv
<1>5. CASE Commit(c)
  <2>1. pc[c] = "commit" /\ Running(c) /\ Room(c)
    BY <1>5 DEF Commit, Running, FoundPlace
  <2>2. CASE store[Destination(c)] = Directory
    BY <1>3, <1>5, <2>1, <2>2 DEF Commit, FoundPlace
  <2>3. CASE store[Destination(c)] # Directory
    <3>1. next'[c] = next[c] + 1
      BY <1>1, <1>5, <2>3 DEF Commit
    <3>2. next[c] <= Len(r.dest)
      <4>1. next[c] <= Len(plan[c])
        BY <2>1 DEF Local, ProgressInv, Publishing
      <4>2. Len(plan[c]) \in Nat /\ Len(plan[c]) <= Len(r.dest) /\ Len(r.dest) \in Nat
        BY <1>1, Typed DEF Local, RoomInv, Limit
      <4>3. QED
        BY <1>1, <4>1, <4>2
    <3>3. files[r.dest[next[c]]] # Directory
      BY <1>1, <2>1, <2>3, <3>2, Vacancy DEF Destination
    <3>4. \A k \in 1..(next'[c] - 1) : k \in 1..(next[c] - 1) \/ k = next[c]
      BY <1>1, <3>1
    <3>5. QED
      BY <1>3, <2>1, <3>3, <3>4 DEF FoundPlace
  <2>4. QED
    BY <2>2, <2>3
<1>6. CASE Probe(c)
  <2>1. pc[c] = "probe" /\ Running(c) /\ Publishing(c)
    BY <1>6 DEF Probe, Running, Publishing
  <2>2. pc'[c] = "copy" => folder = "open"
    <3>1. pc \in [Call -> Stage]
      BY DEF SpanOutputsTypeOK
    <3>2. CASE CanWriteBeside(c)
      BY <3>2 DEF CanWriteBeside
    <3>3. CASE ~CanWriteBeside(c)
      <4>1. pc' = [pc EXCEPT ![c] = "closing"]
        BY <1>6, <3>3 DEF Probe, Finish
      <4>2. QED
        BY <3>1, <4>1
    <3>4. QED
      BY <3>2, <3>3
  <2>3. pc'[c] = "copy" => Room(c)
    BY <2>1, <2>2 DEF Same
  <2>4. pc'[c] # "commit"
    BY <1>6 DEF Routes
  <2>5. next' = next
    BY <1>6 DEF Probe
  <2>6. QED
    BY <1>1, <1>3, <2>1, <2>3, <2>4, <2>5 DEF FoundPlace
<1>7. CASE ~Preflight(c) /\ ~Commit(c) /\ ~Probe(c)
  <2>1. next' = next /\ (pc'[c] \in {"copy", "commit"} => pc[c] \in {"copy", "commit"})
    BY <1>1, <1>7 DEF Routes, Step
  <2>2. CASE Running(c)
    BY <1>3, <2>1, <2>2 DEF FoundPlace
  <2>3. CASE ~Running(c)
    <3>1. next'[c] = 1 /\ pc'[c] \notin {"copy", "commit"}
      BY <1>2, <2>1, <2>3 DEF Running
    <3>2. QED
      BY <3>1
  <2>4. QED
    BY <2>2, <2>3
<1>8. QED
  BY <1>4, <1>5, <1>6, <1>7

-----------------------------------------------------------------------------
(* How a call ends.                                                        *)

(* A call that the scan refuses.                                           *)
Refuses(c, r, s) ==
  /\ ~Scans(r, s)
  /\ result'[c] \notin {"ok", "error", "names", "mismatch"}
  /\ result'[c] \in {"noMatch", "noBlocks"} => Opens(r, s) = {}
  /\ result'[c] = "maxFiles" => TooMany(r, s)

LEMMA TooManySections ==
  ASSUME SpanOutputsTypeOK, NEW c \in Call, Local(c), NEW r, NEW s, NEW files, Given(c, r, s, files),
         r.op = "split", at[c] \in 1..Len(s), s[at[c]] \in r.opens,
         NEW P, Len(P) \in Nat, Follow(r, s, P, at[c]), OpenSection(c, Len(P)), pc'[c] = "closing"
  PROVE  Refuses(c, r, s)
<1>1. pc \in [Call -> Stage] /\ result \in [Call -> Outcome]
  BY DEF SpanOutputsTypeOK
<1>2. /\ r = req[c] /\ r \in Request /\ Len(s) \in Nat /\ r.op \in Command /\ Len(r.dest) \in Nat
  BY DEF Given
<1>3. Len(P) + 1 > Len(r.dest) /\ result'[c] = "maxFiles"
  BY <1>1, <1>2 DEF OpenSection, Goto, Finish, Limit
<1>4. ~Opened(r, s, Len(s) + 1)
  BY <1>2, <1>3, SplitNotOpened
<1>5. /\ Len(P) <= Cardinality(Parts(r, s))
      /\ (r.bare /\ s[Len(s)] \in r.opens) \/ Len(P) + 1 <= Cardinality(Parts(r, s))
  BY <1>2, SplitTooMany
<1>6. Cardinality(Parts(r, s)) \in Nat /\ s # << >>
  BY <1>2, PartsFinite
<1>7. TooMany(r, s)
  BY <1>2, <1>3, <1>5, <1>6 DEF TooMany, EndsWithDelimiter
<1>8. QED
  BY <1>2, <1>3, <1>4, <1>7 DEF Refuses, Scans

LEMMA SplitRefused ==
  ASSUME SpanOutputsTypeOK, NEW c \in Call, Local(c), NEW r, NEW s, NEW files, Given(c, r, s, files),
         r.op = "split", FoundSplit(c, r, s), SplitLine(c) \/ SplitEnd(c) \/ Hashed(c),
         pc'[c] = "closing"
  PROVE  Refuses(c, r, s)
<1>1. pc \in [Call -> Stage] /\ result \in [Call -> Outcome]
  BY DEF SpanOutputsTypeOK
<1>2. /\ plan[c] \in Seq(Planned) /\ Len(plan[c]) \in Nat /\ at[c] \in Nat \ {0} /\ open[c] \in Nat
  BY Typed
<1>3. /\ r = req[c] /\ s \in Seq(Cell) /\ Len(s) \in Nat /\ r.op \in Command
      /\ r.bare \in BOOLEAN /\ (Running(c) => source = s)
  BY DEF Given
<1>4. pc[c] \in {"scan", "hash"} /\ source = s
  BY <1>3 DEF SplitLine, SplitEnd, Hashed, Scanning, Running
<1>5. SplitAt(r, s, plan[c], open[c], at[c]) /\ at[c] \in 1..(Len(s) + 1)
  BY <1>4 DEF FoundSplit, SplitAt
<1>6. /\ SplitSection(c).from = SplitFrom(r, open[c]) /\ SplitSection(c).to = at[c] - 1
      /\ SplitSection(c).from \in Nat
  BY <1>2, <1>3 DEF SplitSection, SplitFrom
<1>7. CASE SplitLine(c)
  <2>1. /\ ~AtEnd(c) /\ s[at[c]] \in r.opens /\ Size(SplitSection(c)) <= 0
        /\ OpenSection(c, Len(plan[c]))
    BY <1>1, <1>3, <1>4, <1>7 DEF SplitLine, Scanning, Advance, StartRead, Goto, Here
  <2>2. at[c] \in 1..Len(s) /\ SplitFrom(r, open[c]) > at[c] - 1
    BY <1>2, <1>4, <1>5, <1>6, <2>1 DEF AtEnd, Size
  <2>3. Follow(r, s, plan[c], at[c])
    BY <1>3, <1>5, <2>2, SplitEmpty
  <2>4. QED
    BY <1>2, <2>1, <2>2, <2>3, TooManySections
<1>8. CASE SplitEnd(c)
  <2>1. AtEnd(c) /\ open[c] = 0 /\ result'[c] = "noMatch"
    BY <1>1, <1>8 DEF SplitEnd, StartRead, Goto, Finish
  <2>2. at[c] = Len(s) + 1
    BY <1>2, <1>3, <1>4, <1>5, <2>1 DEF AtEnd
  <2>3. Opens(r, s) = {}
    BY <1>3, <1>5, <2>1, <2>2 DEF SplitAt, Opens
  <2>4. QED
    BY <1>3, <2>1, <2>3 DEF Refuses, Scans
<1>9. CASE Hashed(c)
  <2>1. pc[c] = "hash" /\ ~AtEnd(c) /\ OpenSection(c, Len(plan[c]) + 1)
    BY <1>1, <1>3, <1>9 DEF Hashed, Goto
  <2>2. at[c] \in 1..Len(s)
    BY <1>2, <1>4, <1>5, <2>1 DEF AtEnd
  <2>3. /\ span[c].from = SplitFrom(r, open[c]) /\ span[c].to = at[c] - 1
        /\ span[c].from <= span[c].to
        /\ s[at[c]] \in r.opens
    BY <2>1, <2>2 DEF FoundSplit
  <2>4. Extends(plan[c], span[c], plan'[c]) /\ Len(plan'[c]) = Len(plan[c]) + 1
    BY <1>9, HashedExtends
  <2>5. Follow(r, s, plan'[c], at[c])
    BY <1>2, <1>3, <1>5, <2>3, <2>4, SplitGrows
  <2>6. PICK P : P = plan'[c]
    OBVIOUS
  <2>7. Len(P) \in Nat /\ Follow(r, s, P, at[c]) /\ OpenSection(c, Len(P))
    BY <1>2, <2>1, <2>4, <2>5, <2>6
  <2>8. QED
    BY <2>2, <2>3, <2>7, TooManySections
<1>10. QED
  BY <1>7, <1>8, <1>9

LEMMA BlocksRefused ==
  ASSUME SpanOutputsTypeOK, NEW c \in Call, Local(c), NEW r, NEW s, NEW files, Given(c, r, s, files),
         r.op = "blocks", FoundBlocks(c, r, s), BlocksLine(c) \/ BlocksEnd(c), pc'[c] = "closing"
  PROVE  Refuses(c, r, s)
<1>1. pc \in [Call -> Stage] /\ result \in [Call -> Outcome]
  BY DEF SpanOutputsTypeOK
<1>2. /\ plan[c] \in Seq(Planned) /\ Len(plan[c]) \in Nat /\ at[c] \in Nat \ {0} /\ open[c] \in Nat
      /\ found[c] \in Nat
  BY Typed
<1>3. /\ r = req[c] /\ r \in Request /\ s \in Seq(Cell) /\ Len(s) \in Nat /\ r.op \in Command
      /\ r.bare \in BOOLEAN /\ Len(r.dest) \in Nat /\ (Running(c) => source = s)
  BY DEF Given
<1>4. pc[c] = "scan" /\ source = s
  BY <1>3 DEF BlocksLine, BlocksEnd, Scanning, Running
<1>5. BlocksAt(r, s, plan[c], open[c], at[c]) /\ Begun(c, r, s)
  BY <1>4 DEF FoundBlocks, Begun
<1>6. CASE BlocksLine(c)
  <2>1. /\ ~AtEnd(c) /\ open[c] # 0 /\ s[at[c]] \in r.closes /\ at[c] # open[c] + 1
        /\ Len(plan[c]) + 1 > Len(r.dest) /\ result'[c] = "maxFiles"
    BY <1>1, <1>3, <1>4, <1>6 DEF BlocksLine, Scanning, Advance, OpenBlock, CloseBlock, StartRead,
       Goto, Finish, Here, Limit
  <2>2. at[c] \in 1..Len(s)
    BY <1>2, <1>4, <2>1 DEF AtEnd
  <2> DEFINE q == [from |-> IF r.bare THEN open[c] + 1 ELSE open[c],
                   to |-> IF r.bare THEN at[c] - 1 ELSE at[c]]
  <2>3. NextPart(r, s, plan[c], q, at[c] + 1)
    BY <1>3, <1>5, <2>1, <2>2, BlocksNext
  <2> HIDE DEF q
  <2>4. Follow(r, s, plan[c], open[c]) /\ open[c] <= at[c] + 1 /\ at[c] + 1 \in 1..(Len(s) + 1)
    BY <1>2, <1>3, <1>5, <2>1, <2>2 DEF BlocksAt
  <2>5. Len(plan[c]) + 1 <= Cardinality(Parts(r, s))
    BY <1>2, <1>3, <2>3, <2>4, BlocksTooMany
  <2>6. Cardinality(Parts(r, s)) \in Nat
    BY <1>3, PartsFinite
  <2>7. QED
    BY <1>2, <1>3, <2>1, <2>5, <2>6 DEF Refuses, Scans, TooMany
<1>7. CASE BlocksEnd(c)
  <2>1. AtEnd(c) /\ at[c] = Len(s) + 1
    BY <1>2, <1>3, <1>4, <1>5, <1>7 DEF BlocksEnd, AtEnd, BlocksAt
  <2>2. CASE open[c] # 0
    <3>1. result'[c] = "unclosed"
      BY <1>1, <1>7, <2>2 DEF BlocksEnd, Finish
    <3>2. InBlock(r, s)[Len(s) + 1]
      <4>1. at[c] \in (open[c] + 1)..at[c]
        BY <1>2, <1>5, <2>2 DEF BlocksAt
      <4>2. QED
        BY <1>5, <2>1, <2>2, <4>1 DEF BlocksAt
    <3>3. QED
      BY <1>3, <3>1, <3>2 DEF Refuses, Scans
  <2>3. CASE open[c] = 0
    <3>1. result'[c] = "noBlocks" /\ found[c] = 0
      BY <1>1, <1>7, <2>3 DEF BlocksEnd, Finish, Goto
    <3>2. Opens(r, s) = {}
      <4>1. \A i \in Opens(r, s) : i >= Len(s) + 1 /\ i \in 1..Len(s)
        BY <1>5, <2>1, <2>3, <3>1 DEF Begun, Opens
      <4>2. QED
        BY <1>3, <4>1
    <3>3. QED
      BY <1>3, <3>1, <3>2 DEF Refuses, Scans
  <2>4. QED
    BY <2>2, <2>3
<1>8. QED
  BY <1>6, <1>7

(* Read again, a span is what it was.                                      *)
LEMMA ReplayMatches ==
  ASSUME SpanOutputsTypeOK, NEW c \in Call, Local(c), NEW s, FoundRead(c, s), pc[c] = "copy", ReadAll(c)
  PROVE  seen[c] = plan[c][next[c]].digest
<1> DEFINE q == plan[c][next[c]]
<1>1. next[c] \in 1..Len(plan[c]) /\ span[c].from = q.from /\ span[c].to = q.to
  BY Typed DEF Local, ProgressInv, Publishing
<1>2. /\ seen[c] \in Seq(Cell) /\ Len(seen[c]) \in Nat /\ q.digest \in Seq(Cell)
      /\ span[c].from \in Nat \ {0} /\ span[c].to \in Nat
  BY <1>1, Typed
<1>3. Len(seen[c]) = Size(span[c])
  BY <1>2 DEF ReadAll, Size, Local, SpanInv
<1>4. Len(q.digest) = Size(span[c])
  BY <1>1 DEF Local, PlanInv, Size
<1>5. Copies(seen[c], span[c].from, s)
  BY DEF FoundRead
<1>6. Copies(q.digest, q.from, s)
  BY <1>1 DEF FoundRead
<1> HIDE DEF q
<1>7. \A j \in 1..Len(seen[c]) : seen[c][j] = q.digest[j]
  BY <1>1, <1>3, <1>4, <1>5, <1>6 DEF Copies
<1>8. seen[c] = q.digest
  BY <1>2, <1>3, <1>4, <1>7
<1>9. QED
  BY <1>8 DEF q

(* What may be said of a call that ends now.                               *)
Ends(c, r, s, files) ==
  /\ result'[c] \notin {"ok", "error"} => ~Accepts(r, s, files)
  /\ result'[c] = "ok" => Accepts(r, s, files) /\ ~Stopped(c, r, s, files)
  /\ result'[c] = "error" => Stopped(c, r, s, files)
  /\ result'[c] \notin {"noMatch", "noBlocks", "maxFiles", "mismatch"}
  /\ result'[c] = "names" => r.names # Cardinality(Parts(r, s))
  /\ result'[c] \in {"ok", "error"} /\ r.op # "extract" => Len(plan'[c]) = Cardinality(Parts(r, s))

LEMMA ValidateEnds ==
  ASSUME SpanOutputsTypeOK, NEW c \in Call, Local(c), NEW r, NEW s, NEW files, Given(c, r, s, files),
         FoundExtract(c, r, s), FoundVacant(c, r, files), Validate(c), Routes(c), pc'[c] = "closing"
  PROVE  Ends(c, r, s, files)
<1>1. pc \in [Call -> Stage] /\ result \in [Call -> Outcome]
  BY DEF SpanOutputsTypeOK
<1>2. r = req[c] /\ pc[c] = "validate" /\ r.op = "extract" /\ next[c] \in Nat \ {0}
  BY DEF Given, Routes, SpanOutputsTypeOK
<1>3. Running(c)
  BY <1>2 DEF Running
<1>4. (FirstLine(c) <= LastLine(c) /\ LastLine(c) <= LineCount(c)) <=> Scans(r, s)
  BY <1>2, RangeMeans
<1>5. FirstLine(c) > LastLine(c) \/ LastLine(c) > LineCount(c)
        <=> ~(FirstLine(c) <= LastLine(c) /\ LastLine(c) <= LineCount(c))
  <2>1. found[c] \in Nat /\ r.first \in Nat /\ r.last \in Nat
    BY Typed DEF Given
  <2>2. QED
    BY <1>2, <2>1 DEF FirstLine, LastLine, LineCount
<1>6. CASE ~Scans(r, s)
  <2>1. result'[c] = "range"
    BY <1>1, <1>4, <1>5, <1>6 DEF Validate, Finish
  <2>2. QED
    BY <1>6, <2>1 DEF Ends, Accepts
<1>7. CASE Scans(r, s)
  <2>1. r.preview /\ result'[c] = "ok"
    BY <1>1, <1>2, <1>4, <1>5, <1>7 DEF Validate, Finish, StartRead, Goto
  <2>2. Creates(r) => next[c] > 1
    BY <1>2, <2>1 DEF FoundVacant
  <2>3. Creates(r) => files[r.dest[1]] = Nothing
    BY <1>2, <1>3, <2>2 DEF FoundVacant
  <2>4. Accepts(r, s, files)
    BY <1>2, <1>7, <2>3 DEF Accepts, OutputsOf
  <2>5. QED
    BY <1>2, <2>1, <2>4 DEF Ends, Stopped
<1>8. QED
  BY <1>6, <1>7

LEMMA PrepareEnds ==
  ASSUME SpanOutputsTypeOK, NEW c \in Call, Local(c), NEW r, NEW s, NEW files, Given(c, r, s, files),
         FoundPlan(c, r, s), Prepare(c), pc'[c] = "closing"
  PROVE  Ends(c, r, s, files)
<1>1. pc \in [Call -> Stage] /\ result \in [Call -> Outcome]
  BY DEF SpanOutputsTypeOK
<1>2. r = req[c] /\ pc[c] = "planned" /\ plan' = plan
  BY DEF Given, Prepare
<1>3. Len(plan[c]) = OutputsOf(r, s) /\ Scans(r, s)
  BY <1>2 DEF FoundPlan, Settled
<1>4. r.op = "extract" => r.names = 0 /\ Len(plan[c]) = 1
  BY <1>2, <1>3 DEF Local, WellFormed, OutputsOf
<1>5. r.op # "extract" => Len(plan[c]) = Cardinality(Parts(r, s))
  BY <1>3 DEF OutputsOf
<1>6. CASE r.names \notin {0, Len(plan[c])}
  <2>1. result'[c] = "names"
    BY <1>1, <1>2, <1>6 DEF Prepare, Finish
  <2>2. QED
    BY <1>4, <1>5, <1>6, <2>1 DEF Ends, Accepts
<1>7. CASE r.names \in {0, Len(plan[c])}
  <2>1. result'[c] = "ok" /\ plan[c] = << >>
    BY <1>1, <1>2, <1>7 DEF Prepare, Finish, Goto
  <2>2. Len(plan[c]) = 0
    BY <2>1
  <2>3. r.op # "extract" /\ OutputsOf(r, s) = 0
    BY <1>3, <1>4, <2>2
  <2>4. Accepts(r, s, files)
    BY <1>3, <1>5, <1>7, <2>3 DEF Accepts
  <2>5. QED
    BY <1>2, <1>5, <2>1, <2>3, <2>4 DEF Ends, Stopped
<1>8. QED
  BY <1>6, <1>7

LEMMA PreflightEnds ==
  ASSUME SpanOutputsTypeOK, NEW c \in Call, Local(c), NEW r, NEW s, NEW files, Given(c, r, s, files),
         Same(c), FoundPlan(c, r, s), FoundVacant(c, r, files), Preflight(c), pc'[c] = "closing"
  PROVE  Ends(c, r, s, files)
<1>1. pc \in [Call -> Stage] /\ result \in [Call -> Outcome] /\ next[c] \in Nat \ {0}
  BY DEF SpanOutputsTypeOK
<1>2. /\ r = req[c] /\ pc[c] = "preflight" /\ plan' = plan /\ Running(c) /\ Len(r.dest) \in Nat
      /\ r.last \in Nat /\ r.first \in Nat
  BY DEF Given, Preflight, PublishOnly, Running
<1>3. /\ DestinationCount(c) \in Nat /\ DestinationCount(c) <= Len(r.dest)
      /\ r.op # "extract" => DestinationCount(c) = Len(plan[c])
      /\ r.op = "extract" => DestinationCount(c) = 1
  BY LookedAt
<1>4. r.op # "extract" =>
        /\ Len(plan[c]) = OutputsOf(r, s) /\ Scans(r, s) /\ r.names \in {0, Len(plan[c])}
        /\ OutputsOf(r, s) = Cardinality(Parts(r, s))
  BY <1>2 DEF FoundPlan, Settled, OutputsOf
<1>5. DestinationCount(c) = OutputsOf(r, s)
  BY <1>3, <1>4 DEF OutputsOf
<1>6. Creates(r) => \A k \in 1..(next[c] - 1) : files[r.dest[k]] = Nothing
  BY <1>2 DEF FoundVacant
<1>11. r.preview
  BY <1>2 DEF Local, ProgressInv
<1>7. CASE ToLookAt(c)
  <2>1. result'[c] = "exists" /\ store[r.dest[next[c]]] # Nothing
    BY <1>1, <1>2, <1>7 DEF Preflight, Finish
  <2>2. Creates(r) /\ next[c] \in 1..OutputsOf(r, s) /\ next[c] <= Len(r.dest)
    BY <1>1, <1>2, <1>3, <1>5, <1>7 DEF ToLookAt
  <2>3. files[r.dest[next[c]]] # Nothing
    BY <1>2, <2>1, <2>2, Vacancy
  <2>4. QED
    BY <2>1, <2>2, <2>3 DEF Ends, Accepts
<1>8. CASE ~ToLookAt(c) /\ r.op = "extract"
  <2>1. result'[c] = "range" /\ EmptyRange(c)
    BY <1>1, <1>2, <1>8 DEF Preflight, Finish, Goto
  <2>2. ~Scans(r, s)
    BY <1>2, <1>8, <2>1 DEF EmptyRange, FirstLine, FirstOf, Scans
  <2>3. QED
    BY <2>1, <2>2 DEF Ends, Accepts
<1>9. CASE ~ToLookAt(c) /\ r.op # "extract"
  <2>1. result'[c] = "ok"
    BY <1>1, <1>2, <1>9 DEF Preflight, Finish
  <2>2. Creates(r) => next[c] > OutputsOf(r, s)
    BY <1>1, <1>2, <1>3, <1>5, <1>9 DEF ToLookAt
  <2>3. Creates(r) => \A k \in 1..OutputsOf(r, s) : files[r.dest[k]] = Nothing
    BY <1>1, <1>3, <1>5, <1>6, <2>2
  <2>4. Accepts(r, s, files)
    BY <1>4, <1>9, <2>3 DEF Accepts
  <2>5. QED
    BY <1>2, <1>4, <1>9, <1>11, <2>1, <2>4 DEF Ends, Stopped
<1>10. QED
  BY <1>7, <1>8, <1>9

LEMMA PublishEnds ==
  ASSUME SpanOutputsTypeOK, NEW c \in Call, Local(c), NEW r, NEW s, NEW files, Given(c, r, s, files),
         Same(c), FoundRead(c, s), FoundPlan(c, r, s), FoundVacant(c, r, files),
         FoundPlace(c, r, files), Probe(c) \/ Verify(c) \/ Commit(c), pc'[c] = "closing"
  PROVE  Ends(c, r, s, files)
<1>1. pc \in [Call -> Stage] /\ result \in [Call -> Outcome] /\ next[c] \in Nat \ {0}
      /\ next \in [Call -> Nat \ {0}]
  BY DEF SpanOutputsTypeOK
<1>2. /\ r = req[c] /\ pc[c] \in {"probe", "copy", "commit"} /\ plan' = plan /\ Running(c)
      /\ Len(r.dest) \in Nat
  BY DEF Given, Probe, Verify, Commit, PublishOnly, Running
<1>3. next[c] <= Len(plan[c]) /\ Len(plan[c]) \in Nat /\ Len(plan[c]) <= Len(r.dest)
  BY <1>2, Typed DEF Local, ProgressInv, Publishing, RoomInv, Limit
<1>4. Len(plan[c]) = OutputsOf(r, s) /\ Scans(r, s) /\ r.names \in {0, Len(plan[c])}
  BY <1>2 DEF FoundPlan, Settled
<1>5. r.op # "extract" => Len(plan[c]) = Cardinality(Parts(r, s))
  BY <1>4 DEF OutputsOf
<1>6. store[r.dest[next[c]]] = files[r.dest[next[c]]] /\ next[c] \in 1..OutputsOf(r, s)
  <2>1. next[c] <= Len(r.dest)
    BY <1>1, <1>2, <1>3
  <2>2. next[c] \in 1..OutputsOf(r, s)
    BY <1>1, <1>3, <1>4
  <2>3. QED
    BY <1>2, <2>1, <2>2, Vacancy
<1>10. ~r.preview
  BY <1>2 DEF Local, ProgressInv, Publishing
<1>7. CASE Probe(c)
  <2>1. \/ result'[c] = "exists" /\ Creates(r) /\ store[r.dest[next[c]]] # Nothing
        \/ result'[c] = "error" /\ ~CanWriteBeside(c) /\ pc[c] = "probe"
    BY <1>1, <1>2, <1>7 DEF Probe, Finish, StartRead, Goto, Destination
  <2>2. CASE result'[c] = "exists" /\ Creates(r) /\ store[r.dest[next[c]]] # Nothing
    BY <1>6, <2>2 DEF Ends, Accepts
  <2>3. CASE result'[c] = "error" /\ ~CanWriteBeside(c) /\ pc[c] = "probe"
    <3>1. folder = "open" => files[r.dest[next[c]]] = Directory
      BY <1>2, <1>6, <2>3 DEF CanWriteBeside, Destination
    <3>2. folder # "open" => ~Room(c)
      BY <1>2, <2>3 DEF Same, Publishing
    <3>3. Stopped(c, r, s, files)
      BY <1>6, <1>10, <3>1, <3>2 DEF Stopped
    <3>4. QED
      BY <1>2, <1>5, <2>3, <3>3 DEF Ends
  <2>4. QED
    BY <2>1, <2>2, <2>3
<1>8. CASE Verify(c)
  <2>1. seen[c] = plan[c][next[c]].digest
    BY <1>8, ReplayMatches DEF Verify
  <2>2. QED
    BY <1>1, <1>8, <2>1 DEF Verify, Goto
<1>9. CASE Commit(c)
  <2>1. pc[c] = "commit" /\ Room(c)
    BY <1>2, <1>9, <1>10 DEF Commit, FoundPlace
  <2>2. CASE store[Destination(c)] = Directory
    <3>1. result'[c] = "error"
      BY <1>1, <1>9, <2>2 DEF Commit, Finish
    <3>2. Stopped(c, r, s, files)
      BY <1>2, <1>6, <1>10, <2>2 DEF Stopped, Destination
    <3>3. QED
      BY <1>2, <1>5, <3>1, <3>2 DEF Ends
  <2>3. CASE store[Destination(c)] # Directory
    <3>1. result'[c] = "ok" /\ next[c] + 1 > Len(plan[c])
      BY <1>1, <1>9, <2>3 DEF Commit, Finish, Goto
    <3>2. \A k \in 1..OutputsOf(r, s) : k \in 1..(next[c] - 1) \/ k = next[c]
      BY <1>1, <1>3, <1>4, <3>1
    <3>3. Creates(r) => \A k \in 1..OutputsOf(r, s) : files[r.dest[k]] = Nothing
      BY <1>2, <2>1, <3>2 DEF FoundVacant
    <3>4. \A k \in 1..OutputsOf(r, s) : files[r.dest[k]] # Directory
      BY <1>2, <1>6, <1>10, <2>3, <3>2 DEF FoundPlace, Destination
    <3>5. Accepts(r, s, files) /\ ~Stopped(c, r, s, files)
      BY <1>4, <1>5, <2>1, <3>3, <3>4 DEF Accepts, Stopped
    <3>6. QED
      BY <1>2, <1>5, <3>1, <3>5 DEF Ends
  <2>4. QED
    BY <2>2, <2>3
<1>11. QED
  BY <1>7, <1>8, <1>9

LEMMA VerdictFound ==
  ASSUME SpanOutputsTypeOK, NEW c \in Call, Local(c), NEW r, NEW s, NEW files, Given(c, r, s, files),
         Same(c), FoundFor(c, r, s, files), Make(c) \/ Step(c), ~Enter(c), Routes(c)
  PROVE  FoundVerdict(c, r, s, files)'
<1> SUFFICES ASSUME pc'[c] \in {"closing", "returned"}
             PROVE  /\ result'[c] \notin {"ok", "error"} => ~Accepts(r, s, files)
                    /\ result'[c] = "ok" => Accepts(r, s, files) /\ ~Stopped(c, r, s, files)
                    /\ result'[c] = "error" => Stopped(c, r, s, files)
                    /\ result'[c] \in {"ok", "error"} /\ r.op # "extract" =>
                         Len(plan'[c]) = Cardinality(Parts(r, s))
                    /\ result'[c] \in {"noMatch", "noBlocks"} => Opens(r, s) = {}
                    /\ result'[c] = "names" => r.names # Cardinality(Parts(r, s))
                    /\ result'[c] = "maxFiles" => TooMany(r, s)
                    /\ result'[c] # "mismatch"
  <2>1. Stopped(c, r, s, files)' <=> Stopped(c, r, s, files)
    BY Leaves DEF Stopped, Room
  <2>2. QED
    BY <2>1 DEF FoundVerdict
<1>1. /\ FoundSplit(c, r, s) /\ FoundBlocks(c, r, s) /\ FoundExtract(c, r, s) /\ FoundRead(c, s)
      /\ FoundPlan(c, r, s) /\ FoundVacant(c, r, files) /\ FoundPlace(c, r, files)
      /\ FoundVerdict(c, r, s, files)
  BY DEF FoundFor
<1>2. r = req[c] /\ r.op \in Command
  BY DEF Given
<1>3. CASE Return(c)
  <2>1. pc[c] = "closing" /\ result'[c] = result[c] /\ plan' = plan
    BY <1>3 DEF Return, Routes
  <2>2. QED
    BY <1>1, <2>1 DEF FoundVerdict
<1>4. CASE ~Return(c)
  <2>1. pc'[c] = "closing"
    BY <1>4 DEF Routes, Step
  <2>2. CASE SplitLine(c) \/ SplitEnd(c) \/ Hashed(c)
    <3>1. r.op = "split"
      <4>1. pc \in [Call -> Stage]
        BY DEF SpanOutputsTypeOK
      <4>2. Hashed(c) => r.op = "split"
        BY <1>2, <2>1, <4>1 DEF Hashed, Goto
      <4>3. QED
        BY <1>2, <2>2, <4>2 DEF SplitLine, SplitEnd, Scanning
    <3>2. Refuses(c, r, s)
      BY <1>1, <2>1, <2>2, <3>1, SplitRefused
    <3>3. QED
      BY <3>2 DEF Refuses, Accepts
  <2>3. CASE BlocksLine(c) \/ BlocksEnd(c)
    <3>1. r.op = "blocks"
      BY <1>2, <2>3 DEF Routes
    <3>2. Refuses(c, r, s)
      BY <1>1, <2>1, <2>3, <3>1, BlocksRefused
    <3>3. QED
      BY <3>2 DEF Refuses, Accepts
  <2>4. CASE Validate(c) \/ Prepare(c) \/ Preflight(c) \/ Probe(c) \/ Verify(c) \/ Commit(c)
    <3>1. Ends(c, r, s, files)
      BY <1>1, <2>1, <2>4, ValidateEnds, PrepareEnds, PreflightEnds, PublishEnds
    <3>2. QED
      BY <3>1 DEF Ends
  <2>5. CASE Make(c) \/ OpenSource(c) \/ ExtractLine(c) \/ ExtractEnd(c) \/ ReadSpan(c)
    BY <2>1, <2>5 DEF Routes
  <2>6. QED
    BY <1>4, <2>2, <2>3, <2>4, <2>5 DEF Step
<1>5. QED
  BY <1>3, <1>4

-----------------------------------------------------------------------------
(* What is found is kept by every step.                                    *)

LEMMA FreshKept ==
  ASSUME SpanOutputsTypeOK, NEW c \in Call, Local(c), Fresh(c), Make(c) \/ Step(c), Routes(c)
  PROVE  Fresh(c)'
<1>1. /\ pc \in [Call -> Stage] /\ next[c] \in Nat \ {0} /\ req' = req
  BY Leaves DEF SpanOutputsTypeOK
<1>2. SUFFICES ASSUME pc'[c] \in {"idle", "called", "open"}
                        \/ (pc'[c] = "preflight" /\ req[c].op = "extract")
               PROVE  /\ at'[c] = 1 /\ open'[c] = (IF req[c].op = "extract" THEN 1 ELSE 0)
                      /\ found'[c] = 0 /\ span'[c] = NoSpan /\ plan'[c] = << >>
                      /\ pc'[c] # "preflight" => next'[c] = 1
  BY <1>1 DEF Fresh
<1>3. CASE Make(c) \/ Enter(c)
  <2>1. pc[c] \in {"idle", "called"} /\ UNCHANGED <<at, open, found, span, plan, next>>
    BY <1>3 DEF Make, Enter, scanVars, Routes
  <2>2. QED
    BY <2>1 DEF Fresh
<1>4. CASE OpenSource(c)
  <2>1. pc[c] = "open" /\ UNCHANGED <<at, open, found, span, plan, next>>
    BY <1>4 DEF OpenSource, scanVars
  <2>2. QED
    BY <2>1 DEF Fresh
<1>5. CASE Preflight(c)
  <2>1. /\ pc[c] = "preflight" /\ pc'[c] = "preflight" /\ req[c].op = "extract"
        /\ UNCHANGED <<at, open, found, span, plan>>
    BY <1>2, <1>5 DEF Preflight, PublishOnly, scanVars, Routes
  <2>2. QED
    BY <2>1 DEF Fresh
<1>6. CASE Prepare(c)
  <2>1. pc[c] = "planned"
    BY <1>6 DEF Prepare
  <2>2. req[c].op = "extract" => ~req[c].preview
    BY <2>1 DEF Local, ProgressInv
  <2>3. pc'[c] = "preflight" => req[c].preview
    BY <1>1, <1>6 DEF Prepare, Goto, Finish
  <2>4. QED
    BY <1>2, <1>6, <2>2, <2>3 DEF Routes
<1>7. CASE ReadSpan(c)
  BY <1>2, <1>7 DEF Routes
<1>8. CASE \/ SplitLine(c) \/ SplitEnd(c) \/ BlocksLine(c) \/ BlocksEnd(c) \/ ExtractLine(c)
           \/ ExtractEnd(c) \/ Validate(c) \/ Hashed(c) \/ Probe(c) \/ Verify(c) \/ Commit(c)
           \/ Return(c)
  BY <1>2, <1>8 DEF Routes
<1>9. QED
  BY <1>3, <1>4, <1>5, <1>6, <1>7, <1>8 DEF Step

(* A call that begins has found nothing yet.                               *)
LEMMA EnterFound ==
  ASSUME SpanOutputsTypeOK, NEW c \in Call, Enter(c), Fresh(c), NEW r, NEW s, NEW files
  PROVE  FoundFor(c, r, s, files)'
<1>1. pc \in [Call -> Stage]
  BY DEF SpanOutputsTypeOK
<1>2. /\ pc[c] = "called" /\ pc'[c] = "open" /\ plan' = plan /\ next' = next
  BY <1>1 DEF Enter, Goto
<1>3. plan'[c] = << >> /\ next'[c] = 1
  BY <1>2 DEF Fresh
<1>4. FoundSplit(c, r, s)' /\ FoundBlocks(c, r, s)' /\ FoundExtract(c, r, s)'
  BY <1>2 DEF FoundSplit, FoundBlocks, FoundExtract
<1>5. FoundRead(c, s)'
  BY <1>2, <1>3 DEF FoundRead
<1>6. /\ FoundPlan(c, r, s)' /\ FoundVacant(c, r, files)' /\ FoundPlace(c, r, files)'
      /\ FoundVerdict(c, r, s, files)'
  BY <1>2, <1>3 DEF FoundPlan, Settled, FoundVacant, FoundPlace, FoundVerdict
<1>7. QED
  BY <1>4, <1>5, <1>6 DEF FoundFor

LEMMA FoundKeptByCall ==
  ASSUME SpanOutputsTypeOK, NEW c \in Call, Local(c), Found(c), Make(c) \/ Step(c) \/ StepFails(c)
  PROVE  Found(c)'
<1>1. CASE c \in disturbed'
  BY <1>1 DEF Found
<1>2. CASE c \notin disturbed'
  <2>1. (Make(c) \/ Step(c)) /\ Routes(c) /\ Fresh(c) /\ Same(c) /\ req' = req
    BY <1>2, Calm
  <2>2. Fresh(c)' /\ Same(c)'
    BY <2>1, FreshKept, SameKept
  <2>3. PICK r, s, files : Given(c, r, s, files) /\ FoundFor(c, r, s, files)
    BY <1>2, Calm
  <2>4. CASE Enter(c)
    <3>1. FoundFor(c, req[c], source, store)'
      <4>1. PICK q, t, fs : q = req'[c] /\ t = source' /\ fs = store'
        OBVIOUS
      <4>2. FoundFor(c, q, t, fs)'
        BY <2>1, <2>4, EnterFound
      <4>3. QED
        BY <4>1, <4>2 
    <3>2. began'[c] = [source |-> source, store |-> store, folder |-> folder] /\ UNCHANGED <<source, store>>
      BY <2>4 DEF Enter, SpanOutputsTypeOK, worldVars
    <3>3. began'[c].source = source' /\ began'[c].store = store'
      BY <3>2
    <3>4. QED
      BY <2>2, <3>1, <3>3 DEF Found
  <2>5. CASE ~Enter(c)
    <3>1. began' = began
      BY <2>5, Leaves
    <3>2. Make(c) \/ Step(c)
      BY <1>2, Calm
    <3>3. /\ FoundSplit(c, r, s) /\ FoundBlocks(c, r, s) /\ FoundExtract(c, r, s) /\ FoundRead(c, s)
          /\ FoundPlan(c, r, s) /\ FoundVacant(c, r, files) /\ FoundPlace(c, r, files)
          /\ FoundVerdict(c, r, s, files)
      BY <2>3 DEF FoundFor
    <3>4. FoundSplit(c, r, s)'
      BY <2>1, <2>3, <2>5, <3>2, <3>3, SplitFound
    <3>5. FoundBlocks(c, r, s)'
      BY <2>1, <2>3, <2>5, <3>2, <3>3, BlocksFound
    <3>6. FoundExtract(c, r, s)'
      BY <2>1, <2>3, <2>5, <3>2, <3>3, ExtractFound
    <3>7. FoundRead(c, s)'
      BY <2>1, <2>3, <2>5, <3>2, <3>3, ReadFound
    <3>8. FoundPlan(c, r, s)'
      BY <2>1, <2>3, <2>5, <3>2, PlanFound
    <3>9. FoundVacant(c, r, files)'
      BY <2>1, <2>3, <2>5, <3>2, <3>3, VacantFound
    <3>14. FoundPlace(c, r, files)'
      BY <2>1, <2>3, <2>5, <3>2, <3>3, PlaceFound
    <3>10. FoundVerdict(c, r, s, files)'
      BY <2>1, <2>3, <2>5, <3>2, VerdictFound
    <3>11. FoundFor(c, r, s, files)'
      BY <3>4, <3>5, <3>6, <3>7, <3>8, <3>9, <3>10, <3>14 DEF FoundFor
    <3>12. r = req'[c] /\ s = began'[c].source /\ files = began'[c].store
      BY <2>1, <2>3, <3>1 DEF Given
    <3>13. QED
      BY <2>2, <3>11, <3>12 DEF Found
  <2>6. QED
    BY <2>4, <2>5
<1>3. QED
  BY <1>1, <1>2

(* What others do leaves what an undisturbed call has found as it is.      *)
LEMMA FoundFrame ==
  ASSUME NEW d \in Call, Found(d), OwnOf(d)' = OwnOf(d), req' = req, began'[d] = began[d],
         disturbed \subseteq disturbed',
         Running(d) /\ d \notin disturbed' => source' = source /\ store' = store /\ folder' = folder
  PROVE  Found(d)'
<1> SUFFICES ASSUME d \notin disturbed'
             PROVE  Fresh(d)' /\ Same(d)' /\ FoundFor(d, req[d], began[d].source, began[d].store)'
  BY DEF Found
<1>1. /\ pc'[d] = pc[d] /\ result'[d] = result[d] /\ at'[d] = at[d] /\ open'[d] = open[d]
      /\ found'[d] = found[d] /\ span'[d] = span[d] /\ seen'[d] = seen[d]
      /\ plan'[d] = plan[d] /\ next'[d] = next[d]
  BY DEF OwnOf
<1>2. Fresh(d) /\ Same(d)
  BY DEF Found
<1>3. PICK r, s, files : r = req[d] /\ s = began[d].source /\ files = began[d].store
  OBVIOUS
<1>4. FoundFor(d, r, s, files)
  BY <1>3 DEF Found
<1>5. Fresh(d)' /\ Same(d)'
  BY <1>1, <1>2 DEF Fresh, Same, Running, Publishing, Room
<1>6. /\ FoundSplit(d, r, s)' /\ FoundBlocks(d, r, s)' /\ FoundExtract(d, r, s)' /\ FoundRead(d, s)'
      /\ FoundPlan(d, r, s)' /\ FoundVacant(d, r, files)' /\ FoundPlace(d, r, files)'
      /\ FoundVerdict(d, r, s, files)'
  BY <1>1, <1>3, <1>4 DEF FoundFor, FoundSplit, FoundBlocks, FoundExtract, FoundRead, FoundPlan, Settled,
     FoundVacant, FoundPlace, FoundVerdict, Stopped, Room, Running
<1>7. FoundFor(d, r, s, files)'
  BY <1>6 DEF FoundFor
<1>8. r = req'[d] /\ s = began'[d].source /\ files = began'[d].store
  BY <1>3
<1>9. QED
  BY <1>5, <1>7, <1>8

(* A call that is killed says nothing more.                                *)
LEMMA FoundKilled ==
  ASSUME NEW d \in Call, Found(d), pc'[d] = "dead", disturbed' = disturbed
  PROVE  Found(d)'
<1>1. Fresh(d)' /\ Same(d)'
  BY DEF Fresh, Same, Running
<1>2. \A r, s, files : FoundFor(d, r, s, files)'
  BY DEF FoundFor, FoundSplit, FoundBlocks, FoundExtract, FoundRead, FoundPlan, Settled,
     FoundVacant, FoundPlace, FoundVerdict, Stopped, Room, Running
<1>3. PICK r, s, files : r = req'[d] /\ s = began'[d].source /\ files = began'[d].store
  OBVIOUS
<1>4. QED
  BY <1>1, <1>2, <1>3 DEF Found

LEMMA FoundKept ==
  ASSUME SpanOutputsTypeOK, \A d \in Call : Local(d) /\ Found(d), Next
  PROVE  \A d \in Call : Found(d)'
<1>1. ASSUME NEW c \in Call, Make(c) \/ Step(c) \/ StepFails(c), NEW d \in Call
      PROVE  Found(d)'
  <2>1. CASE d = c
    BY <1>1, <2>1, FoundKeptByCall
  <2>2. CASE d # c
    <3>1. OwnOf(d)' = OwnOf(d) /\ source' = source /\ req' = req
      BY <1>1, <2>2, OthersAsWere, Leaves
    <3>2. began'[d] = began[d]
      <4>1. CASE Enter(c)
        BY <2>2, <4>1 DEF Enter, SpanOutputsTypeOK
      <4>2. CASE ~Enter(c)
        BY <1>1, <4>2, Leaves
      <4>3. QED
        BY <4>1, <4>2
    <3>3. disturbed \subseteq disturbed'
      BY <1>1 DEF Make, Step, StepFails, Enter, OpenSource, SplitLine, SplitEnd, BlocksLine, BlocksEnd,
         ExtractLine, ExtractEnd, Validate, ReadSpan, Hashed, Prepare, Preflight, Probe, Verify,
         Commit, Return, ScanOnly, PlanOnly, PublishOnly, historyVars, Mkdir
    <3>4. Running(d) /\ d \notin disturbed' => store' = store /\ folder' = folder
      BY <1>1, <2>2, Leaves DEF Commit, Prepare, Mkdir
    <3>5. QED
      BY <1>1, <3>1, <3>2, <3>3, <3>4, FoundFrame
  <2>3. QED
    BY <2>1, <2>2
<1>2. ASSUME NEW calls \in SUBSET Call, Die(calls), NEW d \in Call PROVE Found(d)'
  <2>1. /\ UNCHANGED <<req, result, at, open, found, span, seen, plan, next, base>>
        /\ UNCHANGED <<source, store, folder, disturbed, began>>
        /\ pc'[d] = pc[d] \/ pc'[d] = "dead"
    BY <1>2 DEF Die, scanVars, worldVars, historyVars
  <2>2. CASE pc'[d] = pc[d]
    <3>1. OwnOf(d)' = OwnOf(d)
      BY <2>1, <2>2 DEF OwnOf
    <3>2. QED
      BY <1>2, <2>1, <3>1, FoundFrame
  <2>3. CASE pc'[d] = "dead"
    BY <1>2, <2>1, <2>3, FoundKilled
  <2>4. QED
    BY <2>1, <2>2, <2>3
<1>3. ASSUME \/ \E i \in 1..Len(source), cell \in Cell : Edit(i, cell)
             \/ \E p \in Path : Occupy(p),
             NEW d \in Call
      PROVE  Found(d)'
  <2>1. /\ UNCHANGED <<req, pc, result, at, open, found, span, seen, plan, next, base, began>>
        /\ disturbed' = disturbed \cup {c \in Call : Running(c)}
    BY <1>3 DEF Edit, Occupy, scanVars
  <2>2. OwnOf(d)' = OwnOf(d)
    BY <2>1 DEF OwnOf
  <2>3. QED
    BY <1>3, <2>1, <2>2, FoundFrame
<1>4. ASSUME NEW w \in Writer, WriterLocks(w) \/ WriterReleases(w), NEW d \in Call
      PROVE  Found(d)'
  <2>1. /\ UNCHANGED <<req, pc, result, at, open, found, span, seen, plan, next, base>>
        /\ UNCHANGED <<source, store, folder, disturbed, began>>
    BY <1>4 DEF WriterLocks, WriterReleases, scanVars, worldVars, historyVars
  <2>2. OwnOf(d)' = OwnOf(d)
    BY <2>1 DEF OwnOf
  <2>3. QED
    BY <1>4, <2>1, <2>2, FoundFrame
<1>5. QED
  BY <1>1, <1>2, <1>3, <1>4, StepKinds

LEMMA InitFound == Init => \A c \in Call : Found(c)
<1> SUFFICES ASSUME Init, NEW c \in Call PROVE Found(c)
  OBVIOUS
<1>1. /\ pc[c] = "idle" /\ at[c] = 1 /\ open[c] = (IF req[c].op = "extract" THEN 1 ELSE 0)
      /\ found[c] = 0 /\ span[c] = NoSpan /\ plan[c] = << >> /\ next[c] = 1 /\ result[c] = "none"
  BY DEF Init
<1>2. Fresh(c) /\ Same(c)
  BY <1>1 DEF Fresh, Same, Running
<1>3. \A r, s, files : FoundFor(c, r, s, files)
  BY <1>1 DEF FoundFor, FoundSplit, FoundBlocks, FoundExtract, FoundRead, FoundPlan, Settled,
     FoundVacant, FoundPlace, FoundVerdict, Stopped, Room, Running
<1>4. QED
  BY <1>2, <1>3 DEF Found

Undisturbed == \A c \in Call : Found(c)

LEMMA NextFound == Inv /\ Undisturbed /\ [Next]_vars => Undisturbed'
<1> SUFFICES ASSUME Inv, Undisturbed, [Next]_vars, NEW d \in Call PROVE Found(d)'
  BY DEF Undisturbed
<1>1. SpanOutputsTypeOK /\ \A c \in Call : Local(c) /\ Found(c)
  BY DEF Inv, Undisturbed
<1>2. CASE Next
  BY <1>1, <1>2, FoundKept
<1>3. CASE UNCHANGED vars
  <2>1. /\ UNCHANGED <<req, pc, result, at, open, found, span, seen, plan, next, base>>
        /\ UNCHANGED <<source, store, folder, disturbed, began>>
    BY <1>3 DEF vars, scanVars, worldVars, historyVars
  <2>2. OwnOf(d)' = OwnOf(d)
    BY <2>1 DEF OwnOf
  <2>3. QED
    BY <1>1, <2>1, <2>2, FoundFrame
<1>4. QED
  BY <1>2, <1>3

LEMMA UndisturbedInvariant == Spec => []Undisturbed
<1>1. Init => Undisturbed
  BY InitFound DEF Undisturbed
<1>2. QED
  BY <1>1, NextFound, Invariant, PTL DEF Spec

-----------------------------------------------------------------------------
(* The theorems about undisturbed calls.                                   *)

LEMMA SectionsCount ==
  ASSUME NEW r, NEW s, Len(s) \in Nat
  PROVE  Len(Sections(r, s)) = Cardinality(Parts(r, s))
<1>1. Cardinality(Parts(r, s)) \in Nat
  BY PartsFinite
<1>2. DOMAIN InOrder(Parts(r, s)) = 1..Cardinality(Parts(r, s))
  BY DEF InOrder
<1> DEFINE n == Cardinality(Parts(r, s))
           G(k) == Sections(r, s)[k]
<1>3. Sections(r, s) = [k \in 1..n |-> G(k)]
  BY <1>2 DEF Sections
<1> HIDE DEF n, G
<1>4. n \in Nat => Len([k \in 1..n |-> G(k)]) = n
  OBVIOUS
<1>5. QED
  BY <1>1, <1>3, <1>4 DEF n

(* Of a call that has returned undisturbed.                                *)
Ended(c, r, s, files) ==
  /\ r = req[c] /\ s = began[c].source /\ files = began[c].store
  /\ r \in Request /\ r.op \in Command /\ s \in Seq(Cell) /\ Len(s) \in Nat
  /\ FoundFor(c, r, s, files) /\ Local(c)

LEMMA EndsAsFound ==
  ASSUME Inv, Undisturbed, NEW c \in Call, Returned(c)
  PROVE  \E r, s, files : Ended(c, r, s, files)
<1>1. SpanOutputsTypeOK /\ Local(c) /\ c \notin disturbed /\ Found(c)
  BY DEF Inv, Undisturbed, Returned
<1>2. req[c] \in Request /\ req[c].op \in Command
  BY <1>1 DEF SpanOutputsTypeOK, Request
<1>3. began[c].source \in Seq(Cell)
  BY <1>1 DEF SpanOutputsTypeOK, Content
<1>4. Len(began[c].source) \in Nat
  BY <1>3
<1>5. FoundFor(c, req[c], began[c].source, began[c].store)
  BY <1>1 DEF Found
<1>6. Ended(c, req[c], began[c].source, began[c].store)
  BY <1>1, <1>2, <1>3, <1>4, <1>5 DEF Ended
<1>7. QED
  BY <1>6

(* The fingerprints of a plan are the sections.                            *)
LEMMA FingerprintsAreSections ==
  ASSUME SpanOutputsTypeOK, NEW c \in Call, NEW r, NEW s, NEW files, Ended(c, r, s, files),
         pc[c] = "returned", result[c] = "ok", ~r.preview
  PROVE  [k \in 1..Len(plan[c]) |-> plan[c][k].digest] = Sections(r, s)
<1>1. /\ r = req[c] /\ r.op \in Command /\ s \in Seq(Cell) /\ Len(s) \in Nat
      /\ FoundFor(c, r, s, files) /\ Local(c)
  BY DEF Ended
<1>2. Follow(r, s, plan[c], Len(s) + 1)
  BY <1>1 DEF FoundFor, FoundPlan, Settled
<1>3. \A k \in 1..Len(plan[c]) : Copies(plan[c][k].digest, plan[c][k].from, s)
  BY <1>1 DEF FoundFor, FoundRead
<1>4. Len(plan[c]) \in Nat
  BY Typed
<1>5. Sections(r, s) = SectionsOf(s, plan[c])
  BY <1>1, <1>2, <1>4, FollowSections
<1>6. ASSUME NEW k \in 1..Len(plan[c])
      PROVE  plan[c][k].digest = SubSeq(s, plan[c][k].from, plan[c][k].to)
  <2>1. PICK p : p = plan[c][k]
    OBVIOUS
  <2>2. /\ p.from \in Nat \ {0} /\ p.to \in Nat /\ p.digest \in Seq(Cell)
    BY <2>1, Typed
  <2>3. p.from <= p.to /\ p.to <= Len(s)
    BY <1>2, <2>1 DEF Follow, IsPart
  <2>4. Len(p.digest) = p.to - p.from + 1
    BY <1>1, <2>1 DEF Local, PlanInv, Size
  <2>5. \A j \in 1..Len(p.digest) : p.digest[j] = s[p.from + j - 1]
    BY <1>3, <2>1 DEF Copies
  <2>6. /\ SubSeq(s, p.from, p.to) \in Seq(Cell) /\ Len(SubSeq(s, p.from, p.to)) = p.to - p.from + 1
        /\ \A j \in 1..(p.to - p.from + 1) : SubSeq(s, p.from, p.to)[j] = s[p.from + j - 1]
    BY <1>1, <2>2, <2>3
  <2>7. p.digest = SubSeq(s, p.from, p.to)
    <3>1. PICK d, u : d = p.digest /\ u = SubSeq(s, p.from, p.to)
      OBVIOUS
    <3>2. /\ d \in Seq(Cell) /\ u \in Seq(Cell) /\ Len(d) = Len(u)
          /\ \A j \in 1..Len(d) : d[j] = u[j]
      BY <2>2, <2>4, <2>5, <2>6, <3>1
    <3>3. d = u
      BY <3>2
    <3>4. QED
      BY <3>1, <3>3
  <2>8. QED
    BY <2>1, <2>7
<1>7. QED
  BY <1>5, <1>6 DEF SectionsOf

(* A call that ends as it should, or for the place of its outputs, has     *)
(* planned them all; it is hindered if that place hinders it.              *)
LEMMA HinderedMeans ==
  ASSUME SpanOutputsTypeOK, NEW c \in Call, NEW r, NEW s, NEW files, Ended(c, r, s, files),
         pc[c] = "returned", result[c] \in {"ok", "error"}
  PROVE  /\ DestinationCount(c) = OutputsOf(r, s)
         /\ ~r.preview => (Hindered(c) <=> Stopped(c, r, s, files))
<1>1. r = req[c] /\ files = began[c].store /\ FoundVerdict(c, r, s, files)
  BY DEF Ended, FoundFor
<1>2. DestinationCount(c) = OutputsOf(r, s)
  BY <1>1 DEF FoundVerdict, DestinationCount, OutputsOf
<1>3. began[c].folder \in Folder
  BY DEF SpanOutputsTypeOK
<1>4. Room(c) <=> ~(began[c].folder = "sealed" \/ (began[c].folder = "missing" /\ ~req[c].mkdir))
  BY <1>3 DEF Room, Folder
<1>5. QED
  BY <1>1, <1>2, <1>4 DEF Hindered, Stopped

(* A call whose source nobody writes to while it runs, and of which no     *)
(* step fails, publishes what was asked for, no more and no less, and      *)
(* refuses only for a cause that the source has, or the place of its       *)
(* outputs.                                                                *)
THEOREM SectionsFound == Spec => []ScanFindsTheSections
<1>1. ASSUME Inv, Undisturbed, NEW c \in Call, Returned(c)
      PROVE  LET r == req[c]
                 sections == Sections(r, began[c].source)
                 marked == {i \in 1..Len(began[c].source) : began[c].source[i] \in r.opens}
             IN CASE result[c] = "ok" /\ ~r.preview ->
                       [k \in 1..Len(plan[c]) |-> plan[c][k].digest] = sections
                  [] result[c] = "noMatch" -> marked = {}
                  [] result[c] = "noBlocks" -> marked = {}
                  [] result[c] = "names" -> r.names # Len(sections)
                  [] result[c] = "maxFiles" ->
                       \/ Len(sections) > Limit(c)
                       \/ Len(sections) = Limit(c) /\ EndsWithDelimiter(r, began[c].source)
                  [] result[c] = "error" -> ~r.preview /\ Hindered(c)
                  [] result[c] = "mismatch" -> FALSE
                  [] OTHER -> TRUE
  <2>1. pc[c] = "returned" /\ SpanOutputsTypeOK
    BY <1>1 DEF Returned, Inv
  <2>2. PICK r, s, files : Ended(c, r, s, files)
    BY <1>1, EndsAsFound
  <2>3. /\ FoundVerdict(c, r, s, files) /\ Len(s) \in Nat
        /\ r = req[c] /\ s = began[c].source
    BY <2>2 DEF Ended, FoundFor
  <2>4. result[c] = "ok" /\ ~req[c].preview =>
          [k \in 1..Len(plan[c]) |-> plan[c][k].digest] = Sections(req[c], began[c].source)
    BY <2>1, <2>2, <2>3, FingerprintsAreSections
  <2>5. result[c] \in {"noMatch", "noBlocks"} =>
          {i \in 1..Len(began[c].source) : began[c].source[i] \in req[c].opens} = {}
    BY <2>1, <2>3 DEF FoundVerdict, Opens
  <2>6. result[c] = "names" => req[c].names # Len(Sections(req[c], began[c].source))
    BY <2>1, <2>3, SectionsCount DEF FoundVerdict
  <2>7. result[c] = "maxFiles" =>
          \/ Len(Sections(req[c], began[c].source)) > Limit(c)
          \/ /\ Len(Sections(req[c], began[c].source)) = Limit(c)
             /\ EndsWithDelimiter(req[c], began[c].source)
    <3>1. Len(Sections(r, s)) = Cardinality(Parts(r, s))
      BY <2>3, SectionsCount
    <3>2. QED
      BY <2>1, <2>3, <3>1 DEF FoundVerdict, TooMany, Limit
  <2>8. result[c] = "error" => ~req[c].preview /\ Hindered(c)
    <3>1. result[c] = "error" => Stopped(c, r, s, files)
      BY <2>1, <2>3 DEF FoundVerdict
    <3>2. Stopped(c, r, s, files) => ~r.preview
      BY DEF Stopped
    <3>3. QED
      BY <2>1, <2>2, <2>3, <3>1, <3>2, HinderedMeans
  <2>9. result[c] # "mismatch"
    BY <2>1, <2>3 DEF FoundVerdict
  <2>10. QED
    BY <2>4, <2>5, <2>6, <2>7, <2>8, <2>9
<1>2. Inv /\ Undisturbed => ScanFindsTheSections
  BY <1>1 DEF ScanFindsTheSections
<1>3. QED
  BY <1>2, Invariant, UndisturbedInvariant, PTL

(* From the same source and destinations, an apply fails where its preview *)
(* refuses; where the preview promises outputs it plans the same ones, and *)
(* succeeds unless there is no directory to write them to or a directory   *)
(* in the place of one, which the preview does not look at.                *)
THEOREM PreviewKept == Spec => []PreviewKeepsItsWord
<1>1. ASSUME Inv, Undisturbed, NEW p \in Call, NEW a \in Call, Comparable(p, a)
      PROVE  /\ result[p] # "ok" => result[a] # "ok"
             /\ result[p] = "ok" =>
                  /\ Reported(p) = Reported(a)
                  /\ result[a] = IF Hindered(a) THEN "error" ELSE "ok"
  <2>1. /\ Returned(p) /\ Returned(a) /\ req[p].preview
        /\ req[a] = [req[p] EXCEPT !.preview = FALSE] /\ began[p] = began[a]
    BY <1>1 DEF Comparable
  <2>2. PICK r, s, files : Ended(p, r, s, files)
    BY <1>1, <2>1, EndsAsFound
  <2>3. PICK q, t, kept : Ended(a, q, t, kept)
    BY <1>1, <2>1, EndsAsFound
  <2>4. /\ r = req[p] /\ q = req[a] /\ t = s /\ kept = files /\ r \in Request /\ r.op \in Command
        /\ Len(s) \in Nat
    BY <2>1, <2>2, <2>3 DEF Ended
  <2>5. /\ SameAsk(r, q) /\ q.names = r.names /\ q.force = r.force /\ q.append = r.append
        /\ r.preview /\ ~q.preview
    BY <2>1, <2>4 DEF SameAsk, Request
  <2>6. (Scans(q, s) <=> Scans(r, s)) /\ OutputsOf(q, s) = OutputsOf(r, s) /\ Parts(q, s) = Parts(r, s)
    BY <2>4, <2>5, SameScan
  <2>7. Accepts(q, s, files) <=> Accepts(r, s, files)
    BY <2>5, <2>6 DEF Accepts, Creates, SameAsk
  <2>8. FoundVerdict(p, r, s, files) /\ FoundVerdict(a, q, s, files)
    BY <2>2, <2>3, <2>4 DEF Ended, FoundFor
  <2>9. pc[p] = "returned" /\ pc[a] = "returned" /\ SpanOutputsTypeOK
    BY <1>1, <2>1 DEF Returned, Inv
  <2>10. result[p] = "ok" <=> Accepts(r, s, files)
    BY <2>5, <2>8, <2>9 DEF FoundVerdict, Stopped
  <2>11. /\ result[a] = "ok" => Accepts(q, s, files) /\ ~Stopped(a, q, s, files)
         /\ Accepts(q, s, files) => result[a] \in {"ok", "error"}
         /\ result[a] = "error" => Stopped(a, q, s, files)
    BY <2>8, <2>9 DEF FoundVerdict
  <2>12. result[a] \in {"ok", "error"} => (Hindered(a) <=> Stopped(a, q, s, files))
    BY <2>3, <2>4, <2>5, <2>9, HinderedMeans
  <2>13. result[p] = "ok" => Reported(p) = Reported(a)
    <3>1. SUFFICES ASSUME result[p] = "ok" PROVE Reported(p) = Reported(a)
      OBVIOUS
    <3>2. result[a] \in {"ok", "error"}
      BY <2>7, <2>10, <2>11, <3>1
    <3>3. DestinationCount(p) = OutputsOf(r, s) /\ DestinationCount(a) = OutputsOf(q, s)
      BY <2>2, <2>3, <2>4, <2>9, <3>1, <3>2, HinderedMeans
    <3>4. QED
      BY <2>4, <2>5, <2>6, <3>3 DEF Reported, SameAsk
  <2>14. QED
    BY <2>7, <2>10, <2>11, <2>12, <2>13
<1>2. Inv /\ Undisturbed => PreviewKeepsItsWord
  BY <1>1 DEF PreviewKeepsItsWord
<1>3. QED
  BY <1>2, Invariant, UndisturbedInvariant, PTL
=============================================================================
