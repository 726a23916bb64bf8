----------------------------- MODULE SpanOutputs -----------------------------
(***************************************************************************)
(* RunExtract, RunSplit and RunBlocks (internal/pipeline), the calls that  *)
(* copy parts of one source to other files.  A call plans first: it scans  *)
(* the source for the spans of its outputs and takes a fingerprint of each *)
(* in a read of its own.  It then publishes them one by one, reading each  *)
(* span once more and comparing.  The source is locked, shared, from the   *)
(* first read to the last output.                                          *)
(*                                                                         *)
(* The calls are those of the tools of one MCP server, which a mutex       *)
(* serializes (Served), and of commands that run by themselves.  Around    *)
(* them are editors, which take no lock; programs that write where outputs *)
(* go; and transforms, which lock the source exclusively.                  *)
(*                                                                         *)
(* Publishing one output is atomic (AtomicPublish implements DurableStore) *)
(* and is one step here, apart from the probe of the destination.  A       *)
(* fingerprint is the content it stands for.  A source keeps its length:   *)
(* one that gets shorter only makes a read fail.                           *)
(***************************************************************************)
EXTENDS SpanSections, FileLock

CONSTANTS
  Call,
  Served,     \* the calls that come through the MCP server
  Writer,     \* transforms of the same source
  Free,       \* the mutex, unlocked
  Nothing,    \* what a path without a file holds
  Directory,  \* what a path that is a directory holds
  Source,     \* the source, as a file to lock
  Workloads   \* the source, the calls, and how often others interfere

ASSUME CallAssumption == Served \subseteq Call /\ Free \notin Call /\ Call \cap Writer = {}

ASSUME NothingAssumption == Nothing \notin Seq(Cell)

ASSUME DirectoryAssumption == Directory \notin Seq(Cell) \cup {Nothing}

(* The directory that the outputs go to: there is none, or it is there     *)
(* and takes new files, or not.  Outputs go to one directory: extract has  *)
(* one output, and names are joined to --output-dir.                       *)
Folder == {"missing", "open", "sealed"}

WellFormed(r) ==
  /\ r \in Request
  /\ Len(r.dest) > 0
  /\ IsInjective(r.dest)
  /\ r.op = "extract" => r.names = 0 /\ Len(r.dest) = 1
  /\ r.append => r.op = "extract"

(* Where outputs go: the directory, and the paths in it that are           *)
(* directories.  The bounds: how many cells editors write, and how many    *)
(* files other programs put where outputs go.                              *)
ASSUME WorkloadsAssumption ==
  \A load \in Workloads :
    /\ load.source \in Seq(Cell)
    /\ load.calls \subseteq Call \cup Writer
    /\ load.req \in [Call -> Request]
    /\ \A c \in Call : WellFormed(load.req[c])
    /\ load.folder \in Folder
    /\ load.taken \subseteq Path
    /\ load.folder = "missing" => load.taken = {}
    /\ load.edits \in Nat
    /\ load.others \in Nat

Stage == {"idle", "called", "open", "preflight", "scan", "hash", "validate",
          "planned", "probe", "copy", "commit", "closing", "returned", "dead"}

Outcome == {"none", "ok", "error", "exists", "mismatch", "range", "noMatch",
            "unclosed", "noBlocks", "maxFiles", "names"}

Span == [from : Nat \ {0}, to : Nat]

Planned == [from : Nat \ {0}, to : Nat, digest : Seq(Cell)]

NoSpan == [from |-> 1, to |-> 0]

VARIABLES
  req,
  pc,
  result,
  mu,         \* the call that has the server's mutex
  at,         \* the cell the scan looks at
  open,       \* where the current section, block or line starts; 0: none does
  found,      \* lines, or closed blocks, so far
  span,       \* the span being selected, hashed or copied
  seen,       \* what the current read of it has read
  plan,       \* scanRes: spans with fingerprints
  next,       \* the output to look at or publish
  base,       \* what an append found at its destination
  source,
  store,      \* [Path -> content, Directory or Nothing]
  folder,
  idle,       \* the calls and transforms not yet made
  edits,      \* what is left of the bounds
  others,
  owner,      \* history: the call whose output a path holds
  snapshot,   \* history: the source when planning was over
  undone,     \* history: calls for which an editor put back what they had hashed
  disturbed,  \* history: calls during which a step failed or something else wrote
  began       \* history: source, store and folder when the call began

scanVars == <<at, open, found>>

worldVars == <<idle, source, store, folder, owner, edits, others>>

historyVars == <<snapshot, undone, disturbed, began>>

vars == <<req, pc, result, mu, scanVars, span, seen, plan, next, base,
          worldVars, lockVars, historyVars>>

Content == Seq(Cell)

Holding == Content \cup {Nothing, Directory}

SpanOutputsTypeOK ==
  /\ req \in [Call -> Request]
  /\ idle \subseteq Call \cup Writer
  /\ pc \in [Call -> Stage]
  /\ result \in [Call -> Outcome]
  /\ mu \in Call \cup {Free}
  /\ at \in [Call -> Nat \ {0}]
  /\ open \in [Call -> Nat]
  /\ found \in [Call -> Nat]
  /\ span \in [Call -> Span]
  /\ seen \in [Call -> Content]
  /\ plan \in [Call -> Seq(Planned)]
  /\ next \in [Call -> Nat \ {0}]
  /\ base \in [Call -> Content]
  /\ source \in Content
  /\ store \in [Path -> Holding]
  /\ folder \in Folder
  /\ FileLockTypeOK({Source}, Call \cup Writer)
  /\ edits \in Nat
  /\ others \in Nat
  /\ owner \in [Path -> Call \cup {Free}]
  /\ snapshot \in [Call -> Content]
  /\ undone \subseteq Call
  /\ disturbed \subseteq Call
  /\ began \in [Call -> [source : Content, store : [Path -> Holding], folder : Folder]]
  /\ \A c \in Call : Len(plan[c]) <= Len(req[c].dest)

Init ==
  /\ \E load \in Workloads :
       /\ source = load.source
       /\ req = load.req
       /\ idle = load.calls
       /\ edits = load.edits
       /\ others = load.others
       /\ store = [p \in Path |-> IF p \in load.taken THEN Directory ELSE Nothing]
       /\ folder = load.folder
  /\ pc = [c \in Call |-> "idle"]
  /\ result = [c \in Call |-> "none"]
  /\ mu = Free
  /\ at = [c \in Call |-> 1]
  /\ open = [c \in Call |-> IF req[c].op = "extract" THEN 1 ELSE 0]
  /\ found = [c \in Call |-> 0]
  /\ span = [c \in Call |-> NoSpan]
  /\ seen = [c \in Call |-> << >>]
  /\ plan = [c \in Call |-> << >>]
  /\ next = [c \in Call |-> 1]
  /\ base = [c \in Call |-> << >>]
  /\ NoLocks
  /\ owner = [p \in Path |-> Free]
  /\ snapshot = [c \in Call |-> << >>]
  /\ undone = {}
  /\ disturbed = {}
  /\ began = [c \in Call |-> [source |-> << >>, store |-> store, folder |-> folder]]

-----------------------------------------------------------------------------
Goto(c, stage) ==
  /\ pc' = [pc EXCEPT ![c] = stage]
  /\ UNCHANGED result

Finish(c, outcome) ==
  /\ pc' = [pc EXCEPT ![c] = "closing"]
  /\ result' = [result EXCEPT ![c] = outcome]

Running(c) == pc[c] \notin {"idle", "called", "returned", "dead"}

Size(s) == s.to - s.from + 1

AtEnd(c) == at[c] > Len(source)

Here(c) == source[at[c]]

Limit(c) == Len(req[c].dest)

Advance(c) ==
  /\ at' = [at EXCEPT ![c] = @ + 1]
  /\ UNCHANGED <<pc, result, open, found, span, seen>>

(* SHA256SerializedByteSpan, and the copy of a span, begin.                *)
StartRead(c, stage, s) ==
  /\ Goto(c, stage)
  /\ span' = [span EXCEPT ![c] = s]
  /\ seen' = [seen EXCEPT ![c] = << >>]

ReadAll(c) == Len(seen[c]) >= Size(span[c])

ScanOnly ==
  UNCHANGED <<req, mu, plan, next, base, worldVars, lockVars, historyVars>>

PlanOnly ==
  UNCHANGED <<req, mu, scanVars, worldVars, lockVars, base>>

PublishOnly ==
  UNCHANGED <<req, mu, scanVars, plan, idle, source, folder, edits, others, lockVars,
              snapshot, undone, began>>

-----------------------------------------------------------------------------
(* A tool is called, or a command started.                                 *)
Make(c) ==
  /\ c \in idle
  /\ idle' = idle \ {c}
  /\ Goto(c, "called")
  /\ UNCHANGED <<req, mu, scanVars, span, seen, plan, next, base, source, store,
                 folder, owner, edits, others, lockVars, historyVars>>

(* Mutant: the mutex is not waited for.                                    *)
EnterAtOnce(c) ==
  /\ pc[c] = "called"
  /\ mu' = IF c \in Served THEN c ELSE mu
  /\ Goto(c, "open")
  /\ began' = [began EXCEPT ![c] = [source |-> source, store |-> store, folder |-> folder]]
  /\ UNCHANGED <<req, scanVars, span, seen, plan, next, base, worldVars,
                 lockVars, snapshot, undone, disturbed>>

(* The handlers of the server begin with s.mu.Lock().                      *)
Enter(c) ==
  /\ pc[c] = "called"
  /\ c \in Served => mu = Free
  /\ mu' = IF c \in Served THEN c ELSE mu
  /\ Goto(c, "open")
  /\ began' = [began EXCEPT ![c] = [source |-> source, store |-> store, folder |-> folder]]
  /\ UNCHANGED <<req, scanVars, span, seen, plan, next, base, worldVars,
                 lockVars, snapshot, undone, disturbed>>

(* openSourceForPipeline: the source is opened, locked, and looked at for  *)
(* null bytes.  An extract that previews looks at its destination next.    *)
OpenSource(c) ==
  /\ pc[c] = "open"
  /\ LockShared(Source, c)
  /\ Goto(c, IF req[c].op = "extract" /\ req[c].preview THEN "preflight" ELSE "scan")
  /\ UNCHANGED <<req, mu, scanVars, span, seen, plan, next, base, worldVars, historyVars>>

-----------------------------------------------------------------------------
(* ScanSplitSectionsMeta, a line at a time.                                *)

Scanning(c, op) == pc[c] = "scan" /\ req[c].op = op

(* The section that ends before the line the scan looks at: what comes     *)
(* before the first delimiter, or what the last one opened.                *)
SplitSection(c) ==
  [from |-> IF open[c] = 0 THEN 1 ELSE IF req[c].bare THEN open[c] + 1 ELSE open[c],
   to |-> at[c] - 1]

(* Mutant: the limit is noticed one section late.                          *)
OpenSectionLate(c, n) ==
  IF n > Limit(c) + 1
  THEN Finish(c, "maxFiles") /\ UNCHANGED scanVars
  ELSE /\ Goto(c, "scan")
       /\ open' = [open EXCEPT ![c] = at[c]]
       /\ at' = [at EXCEPT ![c] = @ + 1]
       /\ UNCHANGED found

(* A delimiter opens a section, which counts as an output there and then.  *)
OpenSection(c, n) ==
  IF n + 1 > Limit(c)
  THEN Finish(c, "maxFiles") /\ UNCHANGED scanVars
  ELSE /\ Goto(c, "scan")
       /\ open' = [open EXCEPT ![c] = at[c]]
       /\ at' = [at EXCEPT ![c] = @ + 1]
       /\ UNCHANGED found

SplitLine(c) ==
  /\ Scanning(c, "split")
  /\ ~AtEnd(c)
  /\ \/ Here(c) \notin req[c].opens /\ Advance(c)
     \/ /\ Here(c) \in req[c].opens
        /\ Size(SplitSection(c)) > 0
        /\ StartRead(c, "hash", SplitSection(c))
        /\ UNCHANGED scanVars
     \/ /\ Here(c) \in req[c].opens
        /\ Size(SplitSection(c)) <= 0
        /\ OpenSection(c, Len(plan[c]))
        /\ UNCHANGED <<span, seen>>
  /\ ScanOnly

(* Mutant: the section that the end of the source ends is lost.            *)
SplitEndLosingTheLast(c) ==
  /\ Scanning(c, "split")
  /\ AtEnd(c)
  /\ IF open[c] = 0 THEN Finish(c, "noMatch") ELSE Goto(c, "planned")
  /\ ScanOnly
  /\ UNCHANGED <<scanVars, span, seen>>

SplitEnd(c) ==
  /\ Scanning(c, "split")
  /\ AtEnd(c)
  /\ \/ /\ open[c] = 0
        /\ Finish(c, "noMatch")
        /\ UNCHANGED <<span, seen>>
     \/ /\ open[c] # 0
        /\ Size(SplitSection(c)) > 0
        /\ StartRead(c, "hash", SplitSection(c))
     \/ /\ open[c] # 0
        /\ Size(SplitSection(c)) <= 0
        /\ Goto(c, "planned")
        /\ UNCHANGED <<span, seen>>
  /\ ScanOnly
  /\ UNCHANGED scanVars

(* ScanBlocksMeta.  A block with nothing in it is counted and dropped.     *)
BlockSpan(c) ==
  [from |-> IF req[c].bare THEN open[c] + 1 ELSE open[c],
   to |-> IF req[c].bare THEN at[c] - 1 ELSE at[c]]

OpenBlock(c) ==
  /\ open[c] = 0
  /\ Here(c) \in req[c].opens
  /\ open' = [open EXCEPT ![c] = at[c]]
  /\ at' = [at EXCEPT ![c] = @ + 1]
  /\ UNCHANGED <<pc, result, found, span, seen>>

CloseBlock(c) ==
  /\ open[c] # 0
  /\ Here(c) \in req[c].closes
  /\ open' = [open EXCEPT ![c] = 0]
  /\ found' = [found EXCEPT ![c] = @ + 1]
  /\ \/ /\ at[c] = open[c] + 1
        /\ at' = [at EXCEPT ![c] = @ + 1]
        /\ UNCHANGED <<pc, result, span, seen>>
     \/ /\ at[c] # open[c] + 1
        /\ Len(plan[c]) + 1 > Limit(c)
        /\ Finish(c, "maxFiles")
        /\ UNCHANGED <<at, span, seen>>
     \/ /\ at[c] # open[c] + 1
        /\ Len(plan[c]) + 1 <= Limit(c)
        /\ StartRead(c, "hash", BlockSpan(c))
        /\ UNCHANGED at

BlocksLine(c) ==
  /\ Scanning(c, "blocks")
  /\ ~AtEnd(c)
  /\ \/ OpenBlock(c)
     \/ CloseBlock(c)
     \/ /\ Here(c) \notin IF open[c] = 0 THEN req[c].opens ELSE req[c].closes
        /\ Advance(c)
  /\ ScanOnly

BlocksEnd(c) ==
  /\ Scanning(c, "blocks")
  /\ AtEnd(c)
  /\ IF open[c] # 0 THEN Finish(c, "unclosed")
     ELSE IF found[c] = 0 THEN Finish(c, "noBlocks")
     ELSE Goto(c, "planned")
  /\ ScanOnly
  /\ UNCHANGED <<scanVars, span, seen>>

-----------------------------------------------------------------------------
(* PlanExtractSerializedSpan: the lines of the range make one span, and a  *)
(* closed range ends the scan.                                             *)

FirstLine(c) == IF req[c].first = 0 THEN 1 ELSE req[c].first

InRange(c, n) == n >= FirstLine(c) /\ (req[c].last = 0 \/ n <= req[c].last)

EndLine(c, i) ==
  /\ found' = [found EXCEPT ![c] = @ + 1]
  /\ open' = [open EXCEPT ![c] = i + 1]
  /\ at' = [at EXCEPT ![c] = i + 1]
  /\ span' = IF InRange(c, found'[c])
             THEN [span EXCEPT ![c] = [from |-> IF @.to = 0 THEN open[c] ELSE @.from, to |-> i]]
             ELSE span
  /\ IF req[c].last # 0 /\ found'[c] = req[c].last
     THEN Goto(c, "validate")
     ELSE UNCHANGED <<pc, result>>

ExtractLine(c) ==
  /\ Scanning(c, "extract")
  /\ ~AtEnd(c)
  /\ \/ Here(c) \notin req[c].closes /\ Advance(c)
     \/ Here(c) \in req[c].closes /\ EndLine(c, at[c]) /\ UNCHANGED seen
  /\ ScanOnly

(* The last line may have no end.                                          *)
ExtractEnd(c) ==
  /\ Scanning(c, "extract")
  /\ AtEnd(c)
  /\ \/ open[c] <= Len(source) /\ EndLine(c, Len(source))
     \/ open[c] > Len(source) /\ Goto(c, "validate") /\ UNCHANGED <<scanVars, span>>
  /\ ScanOnly
  /\ UNCHANGED seen

LineCount(c) ==
  IF req[c].last # 0 /\ found[c] >= req[c].last THEN req[c].last ELSE found[c]

LastLine(c) == IF req[c].last = 0 THEN LineCount(c) ELSE req[c].last

(* validateExtractSpanPlan.  A preview copies the span to nowhere.         *)
Validate(c) ==
  /\ pc[c] = "validate"
  /\ \/ /\ FirstLine(c) > LastLine(c) \/ LastLine(c) > LineCount(c)
        /\ Finish(c, "range")
        /\ UNCHANGED <<span, seen>>
     \/ /\ FirstLine(c) <= LastLine(c) /\ LastLine(c) <= LineCount(c)
        /\ IF req[c].preview
           THEN Finish(c, "ok") /\ UNCHANGED <<span, seen>>
           ELSE StartRead(c, "hash", span[c])
  /\ ScanOnly
  /\ UNCHANGED scanVars

-----------------------------------------------------------------------------
(* copySourceSpanChunks: the next chunk of the span, to the digest or to   *)
(* the digest and the output.                                              *)
ReadSpan(c) ==
  /\ pc[c] \in {"hash", "copy"}
  /\ ~ReadAll(c)
  /\ seen' = [seen EXCEPT ![c] = Append(@, source[span[c].from + Len(@)])]
  /\ UNCHANGED <<pc, result, span, plan, next>>
  /\ PlanOnly
  /\ UNCHANGED historyVars

(* pushSection, and the end of the plan of an extract.                     *)
Hashed(c) ==
  /\ pc[c] = "hash"
  /\ ReadAll(c)
  /\ plan' = [plan EXCEPT ![c] =
       Append(@, [from |-> span[c].from, to |-> span[c].to, digest |-> seen[c]])]
  /\ \/ /\ req[c].op = "split" /\ ~AtEnd(c)
        /\ OpenSection(c, Len(plan[c]) + 1)
     \/ /\ req[c].op = "blocks"
        /\ Goto(c, "scan")
        /\ at' = [at EXCEPT ![c] = @ + 1]
        /\ UNCHANGED <<open, found>>
     \/ /\ req[c].op = "split" => AtEnd(c)
        /\ req[c].op # "blocks"
        /\ Goto(c, "planned")
        /\ UNCHANGED scanVars
  /\ UNCHANGED <<req, mu, span, seen, next, base, worldVars, lockVars, historyVars>>

(* mkdirOutDirIfRequested and its likes: what an apply with --mkdir does   *)
(* before the first output.  The other calls see the directory.            *)
Mkdir(c) ==
  IF folder = "missing" /\ req[c].mkdir /\ ~req[c].preview
  THEN folder' = "open" /\ disturbed' = disturbed \cup {d \in Call \ {c} : Running(d)}
  ELSE UNCHANGED <<folder, disturbed>>

(* After the plan, explicit names must be as many as the outputs.  A       *)
(* preview then looks at the destinations; an apply makes the directory    *)
(* and goes on to the outputs, if there are any.                           *)
Prepare(c) ==
  /\ pc[c] = "planned"
  /\ \/ /\ req[c].names \notin {0, Len(plan[c])}
        /\ Finish(c, "names")
        /\ UNCHANGED <<folder, disturbed>>
     \/ /\ req[c].names \in {0, Len(plan[c])}
        /\ Mkdir(c)
        /\ IF req[c].preview THEN Goto(c, "preflight")
           ELSE IF plan[c] = << >> THEN Finish(c, "ok")
           ELSE Goto(c, "probe")
  /\ snapshot' = [snapshot EXCEPT ![c] = source]
  /\ UNCHANGED <<req, mu, scanVars, span, seen, plan, next, base, idle, source, store, owner,
                 edits, others, lockVars, undone, began>>

-----------------------------------------------------------------------------
(* A preview looks at its destinations: one for an extract, before the     *)
(* scan, and all of them for the others, after it.                         *)

DestinationCount(c) == IF req[c].op = "extract" THEN 1 ELSE Len(plan[c])

(* Mutant: an append is refused like a creation.                           *)
ToLookAtUnlessForced(c) == ~req[c].force /\ next[c] <= DestinationCount(c)

ToLookAt(c) == Creates(req[c]) /\ next[c] <= DestinationCount(c)

(* Extract refuses a range with nothing in it before it scans.             *)
EmptyRange(c) == req[c].last # 0 /\ FirstLine(c) > req[c].last

Preflight(c) ==
  /\ pc[c] = "preflight"
  /\ \/ /\ ToLookAt(c)
        /\ store[req[c].dest[next[c]]] # Nothing
        /\ Finish(c, "exists")
        /\ UNCHANGED next
     \/ /\ ToLookAt(c)
        /\ store[req[c].dest[next[c]]] = Nothing
        /\ next' = [next EXCEPT ![c] = @ + 1]
        /\ UNCHANGED <<pc, result>>
     \/ /\ ~ToLookAt(c)
        /\ IF req[c].op # "extract" THEN Finish(c, "ok")
           ELSE IF EmptyRange(c) THEN Finish(c, "range")
           ELSE Goto(c, "scan")
        /\ UNCHANGED next
  /\ UNCHANGED <<span, seen, base, store, owner, disturbed>>
  /\ PublishOnly

-----------------------------------------------------------------------------
(* writeOneSection, writeOneBlock and extractApplyAtomicPublish: one output *)
(* through AtomicPublish, whose callback copies the span and compares.     *)

Destination(c) == req[c].dest[next[c]]

(* The temporary file is made next to the output, and an append reads it.  *)
CanWriteBeside(c) ==
  folder = "open" /\ ~(req[c].append /\ store[Destination(c)] = Directory)

Probe(c) ==
  /\ pc[c] = "probe"
  /\ \/ /\ Creates(req[c])
        /\ store[Destination(c)] # Nothing
        /\ Finish(c, "exists")
        /\ UNCHANGED <<span, seen, base>>
     \/ /\ Creates(req[c]) => store[Destination(c)] = Nothing
        /\ ~CanWriteBeside(c)
        /\ Finish(c, "error")
        /\ UNCHANGED <<span, seen, base>>
     \/ /\ Creates(req[c]) => store[Destination(c)] = Nothing
        /\ CanWriteBeside(c)
        /\ StartRead(c, "copy", [from |-> plan[c][next[c]].from, to |-> plan[c][next[c]].to])
        /\ base' = [base EXCEPT ![c] =
             IF req[c].append /\ store[Destination(c)] # Nothing
             THEN store[Destination(c)] ELSE << >>]
  /\ UNCHANGED <<next, store, owner, disturbed>>
  /\ PublishOnly

(* Mutant: the fingerprint is not compared.                                *)
VerifyNothing(c) ==
  /\ pc[c] = "copy"
  /\ ReadAll(c)
  /\ Goto(c, "commit")
  /\ UNCHANGED <<span, seen, base, next, store, owner, disturbed>>
  /\ PublishOnly

(* Mutant: an output that does not match is passed over.                   *)
VerifyOrSkip(c) ==
  /\ pc[c] = "copy"
  /\ ReadAll(c)
  /\ IF seen[c] = plan[c][next[c]].digest
     THEN Goto(c, "commit") /\ UNCHANGED next
     ELSE /\ next' = [next EXCEPT ![c] = @ + 1]
          /\ IF next'[c] > Len(plan[c]) THEN Finish(c, "ok") ELSE Goto(c, "probe")
  /\ UNCHANGED <<span, seen, base, store, owner, disturbed>>
  /\ PublishOnly

(* Mutant: the source is closed before the rename.                         *)
VerifyAndClose(c) ==
  /\ pc[c] = "copy"
  /\ ReadAll(c)
  /\ IF seen[c] = plan[c][next[c]].digest THEN Goto(c, "commit") ELSE Finish(c, "mismatch")
  /\ ReleaseLocks({c})
  /\ UNCHANGED <<req, mu, scanVars, span, seen, plan, next, base, worldVars, historyVars>>

(* CopySpanToWriterWithSHA256Verify, once the span is copied.              *)
Verify(c) ==
  /\ pc[c] = "copy"
  /\ ReadAll(c)
  /\ IF seen[c] = plan[c][next[c]].digest THEN Goto(c, "commit") ELSE Finish(c, "mismatch")
  /\ UNCHANGED <<span, seen, base, next, store, owner, disturbed>>
  /\ PublishOnly

(* The rename, which a directory refuses, and the next output.  It         *)
(* disturbs the other calls.                                               *)
Commit(c) ==
  /\ pc[c] = "commit"
  /\ \/ /\ store[Destination(c)] = Directory
        /\ Finish(c, "error")
        /\ UNCHANGED <<store, owner, next, disturbed>>
     \/ /\ store[Destination(c)] # Directory
        /\ store' = [store EXCEPT ![Destination(c)] = base[c] \o seen[c]]
        /\ owner' = [owner EXCEPT ![Destination(c)] = c]
        /\ next' = [next EXCEPT ![c] = @ + 1]
        /\ IF next'[c] > Len(plan[c]) THEN Finish(c, "ok") ELSE Goto(c, "probe")
        /\ disturbed' = disturbed \cup {d \in Call \ {c} : Running(d)}
  /\ UNCHANGED <<span, seen, base>>
  /\ PublishOnly

(* Mutant: the mutex stays locked after an error.                          *)
ReturnKeepingMutex(c) ==
  /\ pc[c] = "closing"
  /\ Goto(c, "returned")
  /\ ReleaseLocks({c})
  /\ mu' = IF mu = c /\ result[c] = "ok" THEN Free ELSE mu
  /\ UNCHANGED <<req, scanVars, span, seen, plan, next, base, worldVars, historyVars>>

(* The deferred Close of the source, and the deferred Unlock of the mutex. *)
Return(c) ==
  /\ pc[c] = "closing"
  /\ Goto(c, "returned")
  /\ ReleaseLocks({c})
  /\ mu' = IF mu = c THEN Free ELSE mu
  /\ UNCHANGED <<req, scanVars, span, seen, plan, next, base, worldVars, historyVars>>

Step(c) ==
  \/ Enter(c)
  \/ OpenSource(c)
  \/ SplitLine(c)
  \/ SplitEnd(c)
  \/ BlocksLine(c)
  \/ BlocksEnd(c)
  \/ ExtractLine(c)
  \/ ExtractEnd(c)
  \/ Validate(c)
  \/ ReadSpan(c)
  \/ Hashed(c)
  \/ Prepare(c)
  \/ Preflight(c)
  \/ Probe(c)
  \/ Verify(c)
  \/ Commit(c)
  \/ Return(c)

-----------------------------------------------------------------------------
(* A read, a seek, flock, a path check, mkdir or AtomicPublish fails by    *)
(* chance, or the context is cancelled.  The outputs so far stay where     *)
(* they are.                                                               *)
StepFails(c) ==
  /\ Running(c)
  /\ pc[c] # "closing"
  /\ Finish(c, "error")
  /\ disturbed' = disturbed \cup {c}
  /\ UNCHANGED <<req, mu, scanVars, span, seen, plan, next, base, worldVars,
                 lockVars, snapshot, undone, began>>

(* A process is killed: a command, or the server with every call in it.    *)
Die(calls) ==
  /\ \E c \in calls : Running(c)
  /\ pc' = [c \in Call |-> IF c \in calls /\ pc[c] \notin {"idle", "returned"}
                           THEN "dead" ELSE pc[c]]
  /\ ReleaseLocks(calls)
  /\ mu' = IF mu \in calls THEN Free ELSE mu
  /\ UNCHANGED <<req, result, scanVars, span, seen, plan, next, base, worldVars, historyVars>>

(* For the history: the edit puts back what the call had hashed there.     *)
PutsBack(c, i, cell) ==
  /\ pc[c] \in {"probe", "copy", "commit"}
  /\ \E k \in 1..Len(plan[c]) :
       LET s == plan[c][k]
       IN i \in s.from..s.to /\ s.digest[i - s.from + 1] = cell

(* An editor writes to the source.                                         *)
Edit(i, cell) ==
  /\ edits > 0
  /\ source[i] # cell
  /\ edits' = edits - 1
  /\ source' = [source EXCEPT ![i] = cell]
  /\ undone' = undone \cup {c \in Call : PutsBack(c, i, cell)}
  /\ disturbed' = disturbed \cup {c \in Call : Running(c)}
  /\ UNCHANGED <<req, pc, result, mu, scanVars, span, seen, plan, next, base,
                 idle, store, folder, owner, others, lockVars, snapshot, began>>

(* Another program puts a file where an output may go, and makes the       *)
(* directory for it.                                                       *)
Occupy(p) ==
  /\ others > 0
  /\ store[p] # Directory
  /\ others' = others - 1
  /\ store' = [store EXCEPT ![p] = << >>]
  /\ owner' = [owner EXCEPT ![p] = Free]
  /\ folder' = IF folder = "missing" THEN "open" ELSE folder
  /\ disturbed' = disturbed \cup {c \in Call : Running(c)}
  /\ UNCHANGED <<req, pc, result, mu, scanVars, span, seen, plan, next, base,
                 idle, source, edits, lockVars, snapshot, undone, began>>

(* A transform holds its lock on the source from TransformFile's "lock" to *)
(* its release; what it renames is another file.                           *)
WriterLocks(w) ==
  /\ w \in idle
  /\ idle' = idle \ {w}
  /\ LockExclusive(Source, w)
  /\ UNCHANGED <<req, pc, result, mu, scanVars, span, seen, plan, next, base,
                 source, store, folder, owner, edits, others, historyVars>>

WriterReleases(w) ==
  /\ <<Source, w>> \in exclusive
  /\ ReleaseLocks({w})
  /\ UNCHANGED <<req, pc, result, mu, scanVars, span, seen, plan, next, base,
                 worldVars, historyVars>>

Next ==
  \/ \E c \in Call : Make(c) \/ Step(c) \/ StepFails(c)
  \/ \E c \in Call \ Served : Die({c})
  \/ Die(Served)
  \/ \E i \in 1..Len(source), cell \in Cell : Edit(i, cell)
  \/ \E p \in Path : Occupy(p)
  \/ \E w \in Writer : WriterLocks(w) \/ WriterReleases(w)

(* A process that is not killed keeps running, and a transform that has    *)
(* its lock returns (EveryCallReturns of TransformFile).                   *)
Fairness ==
  /\ \A c \in Call : WF_vars(Step(c))
  /\ \A w \in Writer : WF_vars(WriterReleases(w))

Spec == Init /\ [][Next]_vars /\ Fairness

-----------------------------------------------------------------------------
OwnedBy(c) == {p \in Path : owner[p] = c}

Slice(content, s) == SubSeq(content, s.from, s.to)

(* What a call has published is its own parts of one version of the        *)
(* source, the one that was there when planning was over, however editors  *)
(* wrote while it scanned, hashed and copied - unless one of them later    *)
(* put back what the call had hashed.                                      *)
OutputsAreOneVersion ==
  \A c \in Call \ undone : \A p \in OwnedBy(c) :
    \E k \in 1..Len(plan[c]) :
      /\ req[c].dest[k] = p
      /\ store[p] = base[c] \o Slice(snapshot[c], plan[c][k])

(* Outputs are published in the order of the plan: a call that fails or is *)
(* killed leaves the first few, every one of them, and nothing beyond; one *)
(* that succeeds has published them all; a preview publishes none.         *)
PublishedIsAPrefix ==
  \A c \in Call :
    IF req[c].preview THEN OwnedBy(c) = {}
    ELSE LET published == {req[c].dest[k] : k \in 1..(next[c] - 1)}
         IN /\ OwnedBy(c) \subseteq published
            /\ \A p \in published : store[p] # Nothing
            /\ result[c] = "ok" => next[c] = Len(plan[c]) + 1

(* The lock on the source is held from the first read of it until the last *)
(* output is published, and released on every way out: no transform holds  *)
(* the source while a call is between the two.                             *)
LockedUntilPublished ==
  /\ \A c \in Call : (<<Source, c>> \in shared) =>
       Running(c) /\ pc[c] # "open"
  /\ \A c \in Call : Running(c) /\ pc[c] \notin {"open", "closing"} =>
       /\ <<Source, c>> \in shared
       /\ exclusive = {}

Returned(c) == pc[c] = "returned" /\ c \notin disturbed

(* The cause for an apply to fail that a preview never looks for: where    *)
(* one of its outputs goes there is no directory to write to, or there is  *)
(* one in the place of the output.                                         *)
Hindered(c) ==
  \E k \in 1..DestinationCount(c) :
    \/ began[c].folder = "sealed"
    \/ began[c].folder = "missing" /\ ~req[c].mkdir
    \/ began[c].store[req[c].dest[k]] = Directory

(* Where a section of a stripped split would begin that has no line.       *)
EndsWithDelimiter(r, s) ==
  r.op = "split" /\ r.bare /\ s # << >> /\ s[Len(s)] \in r.opens

(* A call whose source nobody writes to while it runs, and of which no     *)
(* step fails, publishes what was asked for, no more and no less, and      *)
(* refuses only for a cause that the source has.  There are too many       *)
(* outputs when there are more than the limit, or as many and a delimiter  *)
(* after the last that opens another, empty one.  Empty blocks do not      *)
(* count, although the help texts say so ("Maximum matched blocks          *)
(* (including empty blocks).", schema.go:163; cmd/blocks.go:65).           *)
ScanFindsTheSections ==
  \A c \in Call : Returned(c) =>
    LET r == req[c]
        sections == Sections(r, began[c].source)
        marked == {i \in 1..Len(began[c].source) : began[c].source[i] \in r.opens}
    IN CASE result[c] = "ok" /\ ~r.preview ->
              [k \in 1..Len(plan[c]) |-> plan[c][k].digest] = sections
         [] result[c] = "noMatch" -> marked = {}
         [] result[c] = "noBlocks" -> marked = {}
         [] result[c] = "names" -> r.names # Len(sections)
         [] result[c] = "maxFiles" ->
              \/ Len(sections) > Limit(c)
              \/ Len(sections) = Limit(c) /\ EndsWithDelimiter(r, began[c].source)
         [] result[c] = "error" -> ~r.preview /\ Hindered(c)
         [] result[c] = "mismatch" -> FALSE
         [] OTHER -> TRUE

(* The preview and the apply of one request, from the same source and      *)
(* destinations, and nothing else happening.                               *)
Comparable(p, a) ==
  /\ Returned(p) /\ Returned(a)
  /\ req[p].preview
  /\ req[a] = [req[p] EXCEPT !.preview = FALSE]
  /\ began[p] = began[a]

Reported(c) == SubSeq(req[c].dest, 1, DestinationCount(c))

(* What a preview is worth.  One that refuses is an apply that fails.  One *)
(* that promises outputs is an apply that plans the same ones, and         *)
(* publishes them all unless the place they go to hinders it, which the    *)
(* preview did not look at (preview_preflight.go:48).                      *)
PreviewKeepsItsWord ==
  \A p, a \in Call : Comparable(p, a) =>
    /\ result[p] # "ok" => result[a] # "ok"
    /\ result[p] = "ok" =>
         /\ Reported(p) = Reported(a)
         /\ result[a] = IF Hindered(a) THEN "error" ELSE "ok"

(* Calls of one server that were not told to overwrite never publish over  *)
(* each other's outputs ("mu serializes all tool calls to prevent          *)
(* path-conflict races", server.go).                                       *)
ServedCallsDoNotCollide ==
  [][\A c \in Served :
       Creates(req[c]) /\ next'[c] > next[c] /\ ~req[c].preview
         => owner[Destination(c)] \notin Served]_vars

(* A call that was made returns: nobody waits for ever for the mutex or    *)
(* the lock.                                                               *)
EveryCallReturns ==
  \A c \in Call : pc[c] = "called" ~> pc[c] \in {"returned", "dead"}

-----------------------------------------------------------------------------
(* "If the operation would produce more files than this limit, it errors"  *)
(* (intent.md:28): a call is refused for its outputs only where what it    *)
(* was asked for has more of them than the limit.                          *)
OnlyTooManyOutputsAreRefused ==
  \A c \in Call : Returned(c) /\ result[c] = "maxFiles" =>
    Len(Sections(req[c], began[c].source)) > Limit(c)

(* "With `--preview`, the tool performs the same validation that would     *)
(* reject apply" (json-contract.md:13), "Validations for preview are       *)
(* absolutely identical to normal runs otherwise" (intent.md:27): both     *)
(* end alike, and what a preview refuses writes nothing.                   *)
PreviewIsIdentical ==
  \A p, a \in Call : Comparable(p, a) =>
    /\ result[a] = result[p]
    /\ result[p] # "ok" => OwnedBy(a) = {}
=============================================================================
