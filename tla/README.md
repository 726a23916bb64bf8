# A formal model of glyph-shift

glyph-shift is a command line tool and MCP server that cuts files into pieces
and rewrites them: `extract` copies a range of lines to another file, `split`
cuts a file at delimiters, `blocks` takes out what lies between two markers, and
`transform` changes line endings and trailing blanks in place. What it promises
(docs/glyph-shift-intent.md) is mechanical: outputs appear whole or not at all,
nothing is overwritten unasked, a source is locked while it is read, and a
preview says what the apply would do.

This directory holds TLA+ modules translated from the Go source, the TLC runs
that check them on small instances, and theorems that TLAPS checks for every
value of the constants. `PROJECT.json` lists the components, the runs, the
mutants, the theorems and the hazards, and maps each definition to the lines of
`src/` it stands for.

## The system

| Component | State | Operations | Hard behaviour |
|---|---|---|---|
| file session (`fileops/session*.go`) | names, inodes, temporary files | open, create temp, write, sync, close, chmod, rename, remove | each call fails on its own; nothing syncs a directory |
| advisory locks (`filelock_unix.go`) | locks on inodes | shared, exclusive, release on close | `flock` waits with no time limit, and locks the inode, not the name |
| atomic publish (`atomic_publish.go`) | one temporary file per call | create, replace, append | races on the destination; crash between any two steps; clean-up that fails |
| transform commit (`transform_file.go`, `safeio.go`) | lock, digest, temporary file | measure, replay, compare, rename; preview | editors that take no lock; the lock is released before the rename |
| transform stream (`transform_stream*.go`) | position in the line, pending blanks, spill file | one pass that counts, one that writes | a CR whose meaning depends on the next byte; blanks spilled to a file |
| line span scanner (`linespan_scan*.go`) | window, offsets, pending CR | next line | CR at the end of a read; matching seeks the handle it reads from |
| extract (`run_extract.go`, `extract*.go`, `span_fingerprint.go`) | shared lock, plan, fingerprint | plan, re-read, publish | the source read twice; preview against apply |
| split, blocks (`run_split.go`, `run_blocks.go`, `split_blocks_scan*.go`) | sections or blocks, names, published prefix | scan, plan, publish one by one | failure in the middle; limits; an unclosed block |
| line span matching (`linespan_match*.go`) | what is kept of the last read | literal in windows, regexp engine | a match that two reads share; an engine that takes an error for the end |
| output naming (`naming.go`, `explicit_names.go`) | names used | generate, deduplicate, apply explicit names | collisions inside one run |
| span publication (`span_output_publish.go`, `preview_preflight.go`) | - | preflight, publish | checks made at different moments |
| path validation (`validate/*.go`, `fsnorm`) | - | resolve, confine to a root | links that change after the check |
| line ranges (`linparse/range.go`) | - | parse, validate | 0 as "open end" |
| MCP server (`mcpserver/server.go` and the tools) | one mutex | one handler per tool | cancellation while waiting |
| command line (`cmd/*.go`) | - | one command per operation | its checks are not the server's code |
| error contract (`error_contract.go`, `error_json*.go`) | - | classify, blame a path, render | an error that does not fit its class is suppressed |
| schemas (`output_schema.go`, `operation_error_catalog.go`) | - | the answers each tool advertises | they are written apart from what is answered |

The commands share the file session. `extract`, `split` and `blocks` read their
source under a shared lock and put every output through atomic publish;
`transform` reads its source under an exclusive lock (a preview under a shared
one) and commits by its own path in `safeio.go`. The MCP server calls the same
pipeline functions as the command line. Nothing coordinates two processes but
`flock` on the source and `rename` on the destination.

## Modules

    FileSystem --+-- AtomicPublish --- MCAtomicPublish
                 |        |   \------- AtomicPublishProofs
                 |        +-- implements DurableStore
                 |
    FileLock ----+-- TransformFile --- MCTransformFile
    |                     |   \------- TransformFileProofs
    |                     +-- implements SnapshotStore
    |
    +----------- SpanOutputs ----- MCSpanOutputs
                  |       \------- SpanOutputsProofs
    SpanSections -+-- SpanSectionsProofs, the lemmas of SpanOutputsProofs
                  |                       and LineScanProofs
                  |
    TextLines ----+-- LineScan --------- MCLineScan
                  |    |   \------------ LineScanProofs
    OutputNames --+    +-- implements ScanPromise
                  |
    LineRanges ---+

    TransformStream --+-- MCTransformStream
                      +-- TransformStreamProofs

    PathConfinement -- ExplicitNames -+- Requests -- RequestsProofs
                                      |
    ErrorContract --------------------+

    DataInduction: lemmas for TransformStreamProofs, SpanSectionsProofs,
                   LineScanProofs and RequestsProofs

**FileSystem** is the part of the operating system the code stands on. A name
(`dir`) leads to a file (an inode); a file has contents as processes see them
(`data`) and contents that survive a power loss (`synced`). `diskDir` is the
directory that survives one: no code syncs a directory, so a rename reaches the
disk when the kernel pleases (`FlushEntry`). The same holds of temporary names
and of modes. `diskTemps` are the temporary files whose name a power loss may
bring back, removed or renamed as they are, and `revived` (history) those that
one did bring back. `unsettled` are the files whose mode has changed since their
last fsync: both commits chmod after it, so that a power loss may leave a
published file with the 0600 of `os.CreateTemp` (`perm` is then `"reverted"`).
`os.CreateTemp` makes names nobody else uses, so a call's temporary file is
simply called after the call. Each system call is a fragment that the actions
use.

**FileLock** is `flock` as `filelock_unix.go` calls it: on files, advisory,
released by closing the handle or by death.

**AtomicPublish** is `AtomicPublish` with its three modes. `pc` is the place in
`atomicPublishAfterTempOpen` and its deferred clean-up: `idle`, `probe`,
`createTemp`, `openExisting`, `copy`, `write`, `sync`, `close`, `chmod`,
`rename`, then `cleanupClose` and `cleanupRemove` on an error. Every call of the
code that can fail has a disjunct in which it fails (and a write that fails may
have written). A process can be killed between any two steps, and the power can
go. `base`, `written` and `found` are history: what an append copied, what the
callback wrote, what the path led to at the start.

**DurableStore** is what publication promises with no temporary files in sight:
a path holds one whole content or nothing; a call settles on an offer and later
puts it there at once, or never; a power loss takes paths back to what had
reached the disk.

**TransformFile** is `TransformFileWithContext` and the `Modifier` it commits
through, for applies and previews of the same files in several processes, and
editors that take no lock. `pc` follows `openLockedRDWR`, the measuring pass,
`CommitFromWriter` (temporary file, replay, sync, close, comparison of digests,
the CAS pass, chmod, release, rename) and the clean-up. A source is read a block
at a time so that an editor's write can fall in the middle of a pass. A SHA-256
digest is the content it stands for (no collisions). What a transform does to a
block is the constant `Effect`; that the result of a block depends on that block
alone is an abstraction of the byte automaton of the transform stream.
`late` is history: calls whose source was edited where the CAS had already read.

**SnapshotStore** is what transforms in place promise when every writer is
glyph-shift: a call takes the whole content of its path at one moment, and
commits the transformation of exactly that content at one later moment, or
never. The last commit wins.

**TransformStream** is the byte automaton behind both passes of a transform
(`transform_stream_methods.go`) with its options. A behaviour takes one source
through four passes: measure, write, and both again over the result. Each of
`ReadContent`, `ReadLF`, `ReadCR`, `EndMeasure`, `EndWrite` is one iteration of
`run` (or its end), and the operators between them carry the names of the Go
methods. `Held` is the run of blanks the writing pass has not let go of: the
part spilled to a scratch file, then the buffer of at most `MaxBuf` bytes (64K
in the code, `defaultPendingWSMaxBuf`). `Transformed` says line by line, without an automaton, what the
result should be (`TransformLines`, which the code keeps for line lists), and
`Starts` where lines end.

**SpanSections** has the requests of `extract`, `split` and `blocks` and, in
`Sections`, what each asks for, said without scanning: which cells of the source
belong to an output, and to which. A cell is a line for `split` and `blocks`,
and a pattern is the set of lines it matches; for `extract` a cell is a piece of
a line.

**SpanOutputs** is `RunExtract`, `RunSplit` and `RunBlocks`. `pc` follows a call:
`called` (waiting for the server's mutex), `open` (waiting for the shared lock),
`preflight`, `scan`, `hash` (the fingerprint of a span, in a read of its own),
`validate`, `planned`, then for each output `probe`, `copy`, `commit`; `closing`,
`returned`. A scan takes a line at a time, a read of a span a cell at a time, so
that an editor's write can fall anywhere. The scan's state is `at`, `open` and
`found` (current line; start of the current section, block or line; lines or
blocks so far); `plan` is what it returns, `next` the output to publish. Every
stage can fail or be cancelled (`StepFails`). A command can be killed, or the
server with all its calls (`Die`). Around the calls are `Edit`, `Occupy` (another
program puts a file where an output may go), and transforms that take the
exclusive lock (`WriterLocks`, `WriterReleases`). `folder` is the directory the
outputs go to: missing, there, or there and closed to new files; a path in it may
hold a `Directory`. An apply with `--mkdir` makes it before its first output
(`Mkdir`), a temporary file needs it (`CanWriteBeside`), and a rename does not
replace a directory (`Commit`). These failures are not chance: whether the place
of its outputs defeats an apply was settled when it began (`Hindered`), and
`disturbed` does not excuse it. `commit` is one step, because
AtomicPublish implements DurableStore: to the rest of the system a publication
is one change of the path, which may fail. `snapshot`, `began`, `undone`,
`disturbed` and `owner` are history; `undone` lists the calls whose source an
editor changed back to what they had hashed, which no fingerprint can notice.

**TextLines** says what a line of a source is and what a pattern matches;
**LineRanges** reads the value of `--lines`, a text of numbers and hyphens, as
`ParseCLIRange` does; **OutputNames** makes the names of outputs (ordinals,
slugs of what a line says, suffixes for names that are taken).

**LineScan** is `ScanLineSpans` and the three scans it serves. A chunk of any
size comes into the `window`, `base` bytes into the source; `pc` goes through
`check` (a look at the context), `have` and `second` (the byte at the `cursor`,
and the one after a CR), `visit` (the callback gets a line, and notes in `saved`
where the handle was), `match` (the pattern is looked for, a read at a time, in
what `tail` keeps), `record` (sections, blocks or ranges), `leave` (the handle is
put back), and at the end `final`, `finish`, `done`. A read may be short, empty,
or fail; the call may be cancelled at any moment. `handed` is history: the lines
that were handed over.

**ScanPromise** is what `ScanLineSpans` promises its callers: the lines of the
source, in order, whole, once each, with no window in sight; the result says that
all of it was seen only when it was.

**ErrorContract** is the way from an error to what a client reads: the table of
sentinels (`ClassifyFromRules`) and the errors with fields of their own, the path
that is blamed (`SlotsFromError`, `FallbackSlot`), rendering with the fallback of
`OperationErrorPayload`, which gives up what does not fit its class, and the
catalogue of the answers each tool advertises. A payload is its class, the keys
it has, and the path it names.

**PathConfinement** is `ValidatePath`: what exists is resolved, what does not is
resolved as far as it exists, and the result has to lie in the root. A path is a
sequence of names, and a name a text, so that the device of `CON.md` is seen.
**ExplicitNames** is `explicit_names.go` and `extension.go`: what `--names` is
read as, which names are refused, and with what extension they are used.

**Requests** takes a request from its arguments to its answer, first of the
command line and then, in the same workspace, of the MCP server. The steps of
each (`FrontSteps`, `PipelineSteps`) are in the order of the code; the first that
fails answers, with the error the code builds there. `wrong` says which go wrong
and how: an argument, what the workspace holds, or the file system; `paths` is
where the request puts its source and outputs. Somebody may replace the working
directory by a link at any moment (`Relink`).

## Runs

| Run | Instance | Question |
|---|---|---|
| `publish` (`AtomicPublish.cfg`) | 2 calls of any mode, 1 path, 1 original, 1 write each | Is what a path leads to always whole, on disk and frozen; do temporary files go; does create mode refuse; is it a durable store; does every call return? |
| `publish_race` | the same, up to 2 writes each | A violation: unforced creation replaces what another program created after the probe. |
| `transform_cooperating` (`TransformFile.cfg`) | 2 calls, apply or preview, one changing line endings and one trimming, no editor | Is a lock held exactly while the source is read; does a locked source stay; is it a store of snapshots; does every call return? |
| `transform_edited` | 1 call, files of up to 2 blocks, 2 edits at any moment | Is a commit the whole transform of what its measuring pass read, on disk and with its mode; which edits does the CAS miss? |
| `transform_overtaken` | as `transform_cooperating` | A violation: a commit replaces a file other than the one it read. |
| `transform_stream` | every source of up to 5 bytes over CR, LF, two blanks and a letter, every option, a buffer of 2 bytes | Do the passes count and write the same lines; is the result the line by line definition; is the preview's verdict exact; do spilled blanks keep their order; is a second run the identity? |
| `transform_twice` | the same | A violation: a second run changes its own result where a CR follows a CR. |
| `outputs` (`SpanOutputs.cfg`) | up to 2 calls of a server, a command and a transform, on sources of up to 6 lines, with 2 edits or 1 foreign file; previews and applies without a directory, with one that takes no files, with a directory in place of an output | Are outputs parts of one version of the source, in order, a prefix; is the source locked throughout; does a scan find what was asked for; does a preview keep its word; do served calls leave each other's outputs alone; does every call return? |
| `preview_refusal` | the same | A violation: a preview and its apply end differently, or what the preview refuses writes something. |
| `output_cap` (`SpanOutputsCap.cfg`) | the same | A violation: a split that would produce as many files as allowed is refused for too many. |
| `line_scan` (`LineScan.cfg`) | 39 jobs on sources of up to 15 bytes, reads of every length, windows that begin with 1, 2 or 5 bytes | Does a scan hand over the lines, whatever the reads bring; is the handle put back; is every match right; do sections and their names come out as asked; is nothing planned after a cancellation; does the scan end? |
| `requests` (`Requests.cfg`) | every request with up to two things wrong, by both front ends, one replaced directory for each | Is every answer one that is advertised, with the documented exit code; do the front ends agree; do outputs land in the workspace, no two in one file? |

Two calls are enough for every race of a destination or a source: the code has
no state that a third could find that two cannot leave. One write of a callback is
enough for "some of it and not the rest" in `publish`, because a write that fails
may have written and a callback may fail after it; what a second would add, a
second block of content, `publish_race` has, and two blocks of a source. Two
edits are enough to change a source and change it back. One path is enough
because a call touches one path; paths meet only in a power loss, and the proofs
cover any number.

Five bytes hold a CR or LF in every position relative to a run of blanks longer
than the buffer, and the buffer of two spills at its third blank and again at its
fourth. The workloads of `outputs` (MCSpanOutputs) are chosen so that each
command meets an empty section, a cap that is reached and one that is passed, a
delimiter as the last line, a range past the end and one that is backwards,
names that are too few, an append, a forced run and the preview of each, and each
kind of place that outputs cannot go to; a
second served call waits while the first waits for a transform. Two outputs and
two paths give every proper prefix that is not trivial. A third call of the
server could only wait longer.

The jobs of `line_scan` (MCLineScan) hold every order of CR, LF, CR LF and no end,
patterns that cross a read, names that meet, and caps on either side of the count.
`Chunks = {1, 2, 5}` puts the edge of the window at every place of a terminator;
`GrownChunk` (64K in the code) is 3 and `MatchChunk` (32K) is 2, so that windows
grow and literals straddle reads; `PrefixBytes` (8192) is 3 and `SlugWords` is 2,
so that names are cut. In `requests`, one failure is masked by another only when
two things are wrong (`MaxWrong = 2`); of three, the same two would be seen first.
Two outputs are enough for one to be in place of the other.

`CHECK_DEADLOCK FALSE` is in the runs in which calls are made once and then end;
waiting for ever is what `EveryCallReturns` excludes.

**Fairness.** A process that is not killed goes on: weak fairness of `Step(o)`
for every call `o`. The system calls may fail or succeed as they please; being
killed, losing power, being edited and `flock` failing (`LockFails`) are not
fair and never relied on. `Start` is not fair: a call need not be made. Waiting
for `flock` disables `Step`, so `EveryCallReturns` says that no other call keeps
a lock for ever. In SpanOutputs a transform that holds the lock releases it
(`WriterReleases` is fair, which `EveryCallReturns` of TransformFile justifies);
weak fairness is enough there because a waiting call is never overtaken for
ever: each transform and each call is made once. That a call is not starved
when transforms keep coming is not claimed; `flock` does not promise it. In
LineScan `ScanEnds` rests on `WF_vars(Scanner)`: one goroutine runs the scan and
nothing it calls waits for another; being cancelled and failing are not fair.

## Proofs

The modules named `...Proofs` prove, for any number of calls, paths and files and
sources of any length:

- type correctness of AtomicPublish, TransformFile, TransformStream and
  SpanOutputs;
- `PublishedIsWhole`, `TempsAccountedFor`, `CreateRefusesWhatItFound` and
  `PublishedIsFrozen` of AtomicPublish, and that it implements DurableStore;
- `LockedWhileReading`, `CommitIsWhole`, `OnlyLateEditsAreMissed`,
  `LockedSourceIsStable` and `TempsAccountedFor` of TransformFile, and that it
  implements SnapshotStore when there are no editors (`MaxEdits = 0`);
- `HeldIsTheTail` of TransformStream, for a buffer of any size: what the writing
  pass holds back is the run of blanks it has just read, in order, however often
  it was spilled; and `PassesAgree`, `ResultIsTransformed`, `WouldChangeIsExact`
  and `IdempotentWithoutCRCR`: what the automaton computes is the definition of
  lines, for every source;
- `OutputsAreOneVersion`, `PublishedIsAPrefix`, `LockedUntilPublished`,
  `ServedCallsDoNotCollide`, `ScanFindsTheSections` and `PreviewKeepsItsWord` of
  SpanOutputs;
- type correctness, `HandleInPlace`, `AnswersAreRight`, `NothingOnceCancelled`,
  `NamesDiffer` and `SectionsAreTheParts` of LineScan, and that it implements
  ScanPromise, for windows and reads of any size;
- `EveryAnswerIsCatalogued` and `OutputsLandInPlace` of Requests, with any number
  of things wrong at once;
- of ErrorContract, that a properly built error is rendered under its own class,
  never suppressed (`FailuresAreRendered`);
- of ExplicitNames, that names which are accepted are one for each output, plain,
  no device's, and all different (`AcceptedNamesArePlainAndDiffer`).

The invariants the runs check are not inductive. For AtomicPublish, that a
published file is whole needs what each stage has achieved (from `sync` on, the
file holds `base \o written`; from `close` on it is also on the disk; from
`rename` on its mode was set), that a call's temporary file has no path until the
call returned `ok`, and that files with paths never lose their fsynced contents
in a power loss. Of the mode no more can be said than that it was set, unless a
power loss took that back. For TransformFile: a call past `open` has a source
(`SourceOpen`); what each stage has achieved of the temporary file and what has
been read of the source (`Reached`, `Progress`); what an editor can have changed
without being listed in `late` (`Agrees`); which temporary files have names
(`NamesInv`); and, without editors, that what has been read is a prefix of the
source and that no linked file changes (`Quiet`).

For SpanOutputs (`Inv`), three parts. `Local(c)` is about one call and the length
of the source: the scan and everything it selects stay within the source, there
is a path for every output of the plan and for the one being hashed, a
fingerprint is as long as its span, and what each stage has achieved. It is kept
by a frame lemma for everybody else's steps and one lemma per conjunct for the
call's own. `Faithful(c)` is the argument about editors. Nothing says that the
source still is what was hashed; what is inductive is that *where* a cell of the
source equals its fingerprint, the snapshot has the same value
(`Unchanged`). An edit can break that only by putting a hashed value back, which
is what `undone` records; so a replay that compares equal cell by cell is a part
of the snapshot (lemma `Replay`). `Outputs` ties owners to passed outputs; an
append never changes its base after it has published because it has one output
(`BaseStays`). `Locks` adds the mutex: at most one served call runs, and what a
creating call has probed as vacant cannot meanwhile go to another served call.

That a scan finds the sections (SpanSectionsProofs, and `Found` in
SpanOutputsProofs) compares a loop with a
definition that numbers the parts of the whole source. What is inductive is
`Follow(r, s, P, n)`: the spans `P` are the parts of what lies before cell `n`, in
order. It is kept when cells that no output has are passed (`FollowSkip`) and when
the next part is added (`FollowAppend`), and at the end of the source it says that
`P` holds the sections (`FollowSections`). What each scan keeps in its variables is
`SplitAt`, `BlocksAt` and `ExtractAt`, which say how the position, the open section
or block or line, and the counts determine the part of the next cell.
`Found(c)` carries this through a call that nothing disturbs, in terms of the
source and the files that were there when it began: the source is still the same,
and so are the output directory, until the call makes it, and every path but those
the call has written itself (`Same`); what the scan has found (`FoundSplit`,
`FoundBlocks`, `FoundExtract`); fingerprints and replays are what the source holds
(`FoundRead`); the plan is complete once the call goes on to the outputs
(`FoundPlan`); destinations it has passed were vacant (`FoundVacant`), and those it
has published to were no directories, in a place that takes files (`FoundPlace`);
and how a call ends (`FoundVerdict`): with success only if the request `Accepts`
this source and these files and nothing about the place stops it, with an error of
a step only if the place of its outputs does (`Stopped`), and with any other refusal
only if the request does not accept them. A preview and an apply look at the source
and the destinations in different orders and stop at different points; that they
agree but for the place of the outputs follows because `Accepts` mentions neither
`preview` nor the order, and `Stopped` is about applies only.
TLC checked `Found` on the `outputs` run before it was proved.

What a transform computes (TransformStreamProofs) is an iteration against a
definition over the whole source, and needs induction over the source. The
library's theorem for it takes an operator, which the provers cannot instantiate;
DataInduction states induction for a *set* of numbers instead, from the library's
least element of a well-founded relation, and from it that a recursive function
exists and is unique, that the library's `FlattenSeq` flattens, and that a finite
count is the length of an enumeration. With these the pure part: where terminators
start (`StartsIs`), what the result is after each byte (`FlatStep`), that nothing
is counted exactly when `Transformed(s) = s` (`SameResult`; the way back compares
the first byte that differs), and that the result of a source without CR CR is
transformed to itself (`ResultIsUnchanged`: its lines end as asked, are trimmed,
and the last one is finished). `ResInv` then says of a pass that has read to `pos`
that what it wrote and holds is the result so far (`At`), that its counters are the
tally of the lines so far, and, of the second pass, that the first one ended with
the same. The properties alone say nothing before the end of a pass. `ResInv` was
model-checked on every source of up to four bytes before it was proved.

For LineScan (`ScanInv`), the window is the part of the source between its
offsets and the handle stands at its end (`WindowInv`), unless the callback has
it, in which case `saved` does and `leave` will restore it (`HandleInv`); what
lies between the start of the line and the cursor ends no line, and what was
handed over are lines that meet and reach that start (`LineInv`). With these each
step of the scan is one of ScanPromise or changes nothing that it sees. Matching
needs `MatchInv`: what was read of the line so far does not hold the literal, but
for what ends in the bytes that were kept (`Searched`); keeping one byte less than
the literal has is what makes that inductive. `RecordInv` is about what the
callbacks keep: the open section or block and what the plan holds are lines of the
source, and the names used so far are those of the plan. A new name is not among
them because one of `n + 1` different candidates is not among `n` names
(`DeduplicatedIsNew`), which is what lets the code's unbounded search for a suffix
end.

That the sections of a scan are those the request asks for (`PlannedAsAsked`) uses
the same lemmas on parts as SpanOutputs, but a different invariant: there the whole
source is in view, here only the lines handed over so far. `PartsInv` therefore
speaks of *every* sequence of cells that has these lines at its beginning and of
every request that says of them what the patterns say (`Asks`); for each, what has
been planned are parts (`Planned`) that `SplitAt` or `BlocksAt` describes up to the
line looked at (`SpansInv`). Asking more lines asks the same of fewer
(`AsksLonger`), so a line that is handed over disturbs nothing; what a callback
records is one step of the scan that SpanSectionsProofs follows. Of a range, the
lines planned are exactly those before this one that are in it (`RangeInv`), and
that these are the lines written on both sides of the hyphen is `RangeWritten`: a
range with an open side is 0 there, and a second hyphen is a sign, so that `2--3`
is read as 2 to -3 and selects nothing. At the end the cells are the lines of the
source; two lines of one text match alike (`SameText`), and lines that meet, put
together, are the bytes from the first to the last (`LinesJoined`). TLC checked
`PartsInv` on the `line_scan` run, for the request of each job and the lines handed
over with none after them, before it was proved.

`FailuresAreRendered`, about ErrorContract, needs no induction: it goes through the
classes and shows for each that the fields an error of it may carry are those its
variants require, once the slots of the path are filled. `Proper` says what an
error may carry. That every answer is catalogued takes more, that the error of each
step of each tool is one that the schema of *this* tool lists, of which no second
branch takes it (`Shown`, `BranchesAreApart`), and that what a success says is one
variant of it (`OneVariant`). Neither is so of every step taken alone: with an empty
source path an error of the pipeline has no path to show, though its class requires
one, and a transform with nothing to do would print what no variant requires. What
rules this out is that an earlier check refuses them, so the invariant
(`AnswersInv`) has that the checks before the next step found nothing wrong
(`Passed`), with what each front end checks and in which order (`Looks`, `Begins`),
and that what was answered is catalogued. The steps are sequences that the code
writes out; the lemmas speak of what is in them (`Elements`), so that the proof does
not go through them one by one. A relinked directory changes what a step finds, but
any error a step can give is shown, whatever the tree.

That outputs land in the workspace (`OutputsLand`) is about the tree instead. What
keeps it is `LandInv`: the tree always has the shape in which links are known
(`Shaped`: the root may be one, to where the workspace really is; so may the output
directory, the source and the second output, to what is outside; the working
directory is one exactly if it was replaced, and nothing outside is), and for each
path that is still `"validated"`, no link leads its directory away (`Straight`).
Three arguments meet there. `LedAwayIsRefused`: whatever is at the end of a path,
and if there is nothing yet (`MissingInThere`), `ValidatePath` refuses it when a
link leads its directory away. `StillShaped`: a directory that is made and a file
that is put in place may take links away and never bring one (`FewerLinks`), so
that what was validated stays so until somebody else replaces the directory, which
makes it stale. And `StepsPrepared`: in the pipeline of each tool, with and without
a preview, a path is validated before anything is written to it. What is resolved
is a recursive function on the names of a path, which the lemmas `RealIs` and
`RealAppend` take apart. That two outputs have different names holds for the names
that are given because they were accepted (`NamesOfOutputsDiffer`). TLC finds
`LandInv` kept in every state of the `requests` run.

The assumptions are those of the modules: commands' temporary files are files,
`NoFile`, `Nothing` and `Directory` are no contents, an effect maps blocks to blocks, the
bounds are natural numbers, bytes of different classes differ, requests are what
the commands accept (`WellFormed`: at least one output, distinct paths, `append`
and a single output for `extract`).

Only model-checked: liveness (`EveryCallReturns`, `ScanEnds`), which is out of the
prover's reach, and `FrontsAgree`, which compares two runs step by step and rests on
what `SetToSortSeq` makes of a text with commas.

## Where the code and its documents differ

- *Refuse to overwrite unless --force* (intent.md:107): the destination is
  probed once, before anything is written; the rename replaces whatever is there
  by then (`publish_race`).
- *The CAS hash check ensures content integrity through this window*
  (safeio.go:25): a transform that waited for the lock reads an inode that the
  first one has unlinked; its CAS compares that inode with itself, and its
  rename discards the first one's result (`transform_overtaken`).
- *Idempotent - running the same transform twice produces identical output*
  (intent.md:202): the byte after a lone CR is content even when it is a CR, so
  a result with CR CR in it is read differently the next time
  (`transform_twice`). `IdempotentWithoutCRCR` is what remains true.
- *Validations for preview are absolutely identical to normal runs otherwise*
  (intent.md:27), and *the same validation that would reject apply*
  (json-contract.md:13): an extract preview looks at the destination before it
  plans, an apply after; a split or blocks preview looks at all destinations, an
  apply at each in turn, with the outputs before it written; and no preview finds
  that there is no output directory and no `--mkdir`, that the directory takes no
  files, or that a destination is a directory under `--force` or `--append`, with
  which every apply fails (`preview_refusal`). `PreviewKeepsItsWord` is what
  remains true of undisturbed calls: a preview that refuses is an apply that
  fails; one that succeeds is an apply that names the same outputs, and that fails
  in exactly these three cases.
- *If the operation would produce more files than this limit, it errors*
  (intent.md:28), *Error if the operation would produce more sections than this
  limit* (:136): with `--strip-delimiter`, a delimiter that ends the source counts
  against `--max-files` though it gives no output (`observeDelimiterLine`,
  `output_cap`). `ScanFindsTheSections` says when a call is refused: for more
  outputs than the limit, or for as many with such a delimiter after them.

More are known and have no run of their own.

- *Maximum matched blocks (including empty blocks)* (fileops/schema.go:163, and
  cmd/blocks.go:65, mcpserver/blocks_tool.go:33): empty blocks do not count
  (`closeBlock`; `BlocksParams.MaxFiles` says so too). The clause of
  `ScanFindsTheSections` on the limit is about non-empty blocks.
- *The CAS detects such modifications* (safeio.go:27; :254 says the same of edits
  after the replay): not those behind the position it has reached, nor those
  between it and the rename. `OnlyLateEditsAreMissed` says exactly which.
- After a power loss a published file, or a transformed one, may have mode 0600:
  chmod comes after the only fsync (atomic_publish.go:121, safeio.go:187).
- An append copies the destination when it opens it; what another program
  publishes there before the rename is replaced. DurableStore allows it.
- A span is found in one read and fingerprinted in another, so that an edit
  between the two can publish bytes of one version that are not whole lines of
  it; `OutputsAreOneVersion` promises the version and no more.
- `extract`, `split` and `blocks` on a directory answer `internal_error` with exit
  code 1: only `transform` looks at what the source is (`StatError`), while the
  JSON contract (json-contract.md:301, :616) and the catalogue of each tool have
  `directory_not_file` and `not_regular_file`.
- With two wrong arguments the front ends complain of different ones, and an empty
  entry of `--names` is refused before the source is read, one of the server's
  array after. A `--names` that is blank counts as none; the server refuses the
  same as an array. `FrontsAgree` says what they do agree on.
- An explicit name that is a device's is refused as the path of the source is
  (`ErrReservedName` comes before `ErrInvalidExplicitName` in the table), and the
  answer names the source.
- `5-0`, `0-` and `-0` are read as open ranges, because 0 stands for an open end
  (`range.go:84`), and `-5-` as line -5 to the end, which is the whole file.

## Not modelled

Windows (`LockFileEx` locks are mandatory there, a rename over an open file fails,
and names are compared without case); `Modifier.Commit` and `OpenForRead`, and the
helpers that hold all lines in memory (`ReadLinesFrom`, `Split`, `ExtractBlocks`),
which no command calls; hash collisions; a source that grows or shrinks while it
is read (shrinking is a read that fails); sources that cannot seek, which no
command opens; the wording of hints and messages, and the workspace root that the
server takes out of them (`sanitize.go`); the text of flags, usage and version;
the MCP protocol, which is the SDK's, and the start of the server; test support,
build scripts and packaging; the name and the removal of a scratch file
(TransformStream has its contents), and a file in the place of the output
directory, which `ValidatePath` refuses to preview and apply alike.

LineScan and OutputNames have the three naming strategies of `naming.go`. The
commands and the server ask only for `Sequential` (cmd/split.go:101,
cmd/blocks.go:112, split_tool.go:91, blocks_tool.go:114), whose names cannot
meet; what `NamesDiffer` says of the other two is about the library.

## What could follow

1. The answers on a directory, and the scratch files, as runs that exhibit what is
   said above.
2. A source that is cut while it is scanned, in LineScan: SpanOutputs has editors,
   but reads whole cells.
3. `Sections` without sorting, and the proof that a scan finds them.
