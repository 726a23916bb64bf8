------------------------------- MODULE Requests -------------------------------
(***************************************************************************)
(* A request for one of the four tools, from its arguments to the answer   *)
(* that the client reads: the command line (cmd/) and the MCP server       *)
(* (internal/mcpserver) check the arguments each in their own order, run   *)
(* the pipeline of the tool (internal/pipeline/run_*.go), and render its   *)
(* failure.  Here the same request is made of the command line and then,   *)
(* in a copy of the workspace, of the MCP server.                          *)
(*                                                                         *)
(* A request is a sequence of steps, and what is wrong with it says which  *)
(* of them fail: with its arguments, with the workspace it meets, or with  *)
(* the file system.  While it runs, somebody may once put a link in the    *)
(* place of the directory that it works in.  What a scan finds, and how a  *)
(* file is published or transformed, is the subject of other modules; here *)
(* they are steps that may fail.                                           *)
(***************************************************************************)
EXTENDS ExplicitNames, ErrorContract

CONSTANTS
  Requests,    \* the requests that are made
  MaxWrong     \* how many things are wrong at once

FrontEnd == {"cli", "mcp"}

(* The paths that a request names or plans.  The destination of extract is *)
(* the first output, and its directory the out_dir.                        *)
Place == {"source", "out_dir", "first", "second"}

(* What transform is asked to do.                                          *)
Edit == {"line_endings", "trim_trailing", "final_newline"}

(* force: what is in the place of an output is replaced, or appended to.   *)
Request ==
  [tool : FileOutputTool, preview : BOOLEAN, force : BOOLEAN, mkdir : BOOLEAN, edits : {{}}]
    \cup
  [tool : {"transform"}, preview : BOOLEAN, force : {FALSE}, mkdir : {FALSE}, edits : SUBSET Edit]

ASSUME RequestsAssumption == Requests \subseteq Request /\ MaxWrong \in Nat /\ Path = Place

VARIABLES
  request,
  wrong,      \* what is wrong, and how
  paths,      \* the path of each place
  tree,       \* the workspace, and what is around it
  front,      \* who has the request
  at,         \* which step is next
  relinked,   \* the front ends that met a replaced directory
  vouched,    \* whether a path is "validated", and "stale" if relinked since
  written,    \* history: the outputs, and where they landed
  answers

vars == <<request, wrong, paths, tree, front, at, relinked, vouched, written, answers>>

(* What may be wrong with each part of a request, or out of the ordinary:  *)
(* that blocks finds markers with nothing between them is no error, and    *)
(* names that are "fine" are not, nor is it one to have no extension.      *)
Kinds(tool, part) ==
  CASE part = "call" -> {"unknown_command", "invalid_flag", "unexpected_argument",
                         "missing_required_flag"}
    [] part = "decode" -> {"unexpected_argument"}
    [] part = "context" -> {"cancelled"}
    [] part = "stdout" -> {"write_failed"}
    [] part = "root" -> {"linked"}
    [] part = "source" -> {"empty_path", "missing", "directory", "outside", "dangling", "reserved",
                           "control"} \cup (IF tool = "transform" THEN {"device"} ELSE {})
    [] part = "out_dir" -> {"empty_path", "missing", "file", "outside", "unmakeable"}
    [] part = "first" -> {"exists"}
    [] part = "second" -> {"escapes"}
    [] part = "lines" -> {"line_range_parse"}
    [] part = "max_files" -> {"max_files_at_least_one"}
    [] part \in {"delimiter", "start_line", "end_line"} -> PatternClass
    [] part = "endings" -> {"invalid_line_endings"}
    [] part = "options" -> {"no_transform_specified"}
    [] part = "extension" -> {"undotted", "none", "from_source"}
    [] part = "open" -> {"io"}
    [] part = "markers" -> {"empty_block"}
    [] part = "content" -> {"binary_source"}
    [] part = "scan" -> {"io"} \cup
        (CASE tool = "extract" -> {"empty_range", "range_exceeds_file"}
           [] tool = "split" -> {"no_delimiter_match", "max_files_exceeded"}
           [] tool = "blocks" -> {"no_blocks_found", "unclosed_block", "max_files_exceeded"})
    [] part = "names" -> {"fine", "same", "twice", "too_few", "nested", "above", "control", "device",
                          "empty", "blank"}
    [] part = "publish" -> {"io", "copy", "source_fingerprint_mismatch"}
    [] part = "transform" -> {"io"}

CallParts == {"call", "decode", "context", "stdout"}

Parts(tool) ==
  CallParts \cup {"root", "source", "content"} \cup
  CASE tool = "extract" -> {"lines", "out_dir", "first", "open", "scan", "publish"}
    [] tool = "split" -> {"max_files", "out_dir", "delimiter", "extension", "first", "second",
                          "open", "scan", "names", "publish"}
    [] tool = "blocks" -> {"max_files", "out_dir", "start_line", "end_line", "extension",
                           "first", "second", "open", "scan", "names", "markers", "publish"}
    [] tool = "transform" -> {"endings", "options", "transform"}

(* An output is where it is only in a directory that is there.             *)
Possible(f) ==
  DOMAIN f \cap {"first", "second"} # {} /\ "out_dir" \in DOMAIN f => f["out_dir"] = "empty_path"

Wrong(tool) ==
  UNION {{f \in [parts -> UNION {Kinds(tool, p) : p \in parts}] :
            Possible(f) /\ \A p \in parts : f[p] \in Kinds(tool, p)} :
         parts \in UNION {kSubset(n, Parts(tool)) : n \in 0..MaxWrong}}

Is(part, kind) == part \in DOMAIN wrong /\ wrong[part] = kind
-----------------------------------------------------------------------------
Root == << <<"ws">> >>

Outside == << <<"elsewhere">> >>

WorkingDirectory == Append(Root, <<"d">>)

OutDir == Append(WorkingDirectory, <<"out">>)

(* Where the workspace really is.                                          *)
Home == IF Is("root", "linked") THEN << <<"real">> >> ELSE Root

(* The names that are given for the two outputs, one by one.               *)
Names ==
  IF "names" \notin DOMAIN wrong THEN << >>
  ELSE CASE wrong["names"] = "fine" -> << <<" ", "a">>, <<"b", ".", "a">> >>
         [] wrong["names"] = "same" -> << <<"a", ".", "md">>, <<"a">> >>
         [] wrong["names"] = "twice" -> << <<"a">>, <<"a", " ">> >>
         [] wrong["names"] = "too_few" -> << <<"a">> >>
         [] wrong["names"] = "nested" -> << <<"a">>, <<"b", "/", "a">> >>
         [] wrong["names"] = "above" -> << <<"a">>, <<".", ".">> >>
         [] wrong["names"] = "control" -> << <<"a", "\t", "b">>, <<"b">> >>
         [] wrong["names"] = "device" -> << <<"CON">>, <<"CON", ".", "a">> >>
         [] wrong["names"] = "empty" -> << << >>, <<"b">> >>
         [] wrong["names"] = "blank" -> << <<" ">> >>

SourceText == IF Is("extension", "from_source") THEN <<"s", ".", "-">> ELSE <<"s">>

Extension ==
  ExtensionFrom(CASE "extension" \notin DOMAIN wrong -> <<".", "md">>
                  [] Is("extension", "undotted") -> <<"md">>
                  [] wrong["extension"] \in {"none", "from_source"} -> << >>,
                SourceText)

(* What the scan calls the two outputs.                                    *)
Generated == << <<"1">>, <<"2">> >>

NameOf(n) ==
  LET named == ApplyExplicitNames(Names, Generated, Extension)
  IN (IF named.error = "none" THEN named.names ELSE Generated)[n]

SourceName ==
  IF Is("source", "reserved") THEN <<"CON">>
  ELSE IF Is("source", "control") THEN <<"s", "\t">>
  ELSE SourceText

PathOf(place) ==
  CASE place = "source" -> Append(WorkingDirectory, SourceName)
    [] place = "out_dir" -> OutDir
    [] place = "first" -> Append(OutDir, NameOf(1))
    [] place = "second" -> Append(OutDir, NameOf(2))

(* The tree that the request meets.                                        *)
Workspace ==
  LET In(path) == Home \o SubSeq(path, 2, Len(path))
      sourceNode ==
        IF "source" \notin DOMAIN wrong THEN {File}
        ELSE CASE wrong["source"] = "missing" -> {}
               [] wrong["source"] = "directory" -> {Directory}
               [] wrong["source"] = "device" -> {Device}
               [] wrong["source"] = "outside" -> {LinkTo(Append(Outside, <<"s">>))}
               [] wrong["source"] = "dangling" -> {LinkTo(Append(Outside, <<"nothing">>))}
               [] OTHER -> {File}
      outDirNode ==
        IF "out_dir" \notin DOMAIN wrong THEN {Directory}
        ELSE CASE wrong["out_dir"] \in {"missing", "unmakeable"} -> {}
               [] wrong["out_dir"] = "file" -> {File}
               [] wrong["out_dir"] = "outside" -> {LinkTo(Outside)}
               [] OTHER -> {Directory}
      nodes ==
        {<<path, Directory>> : path \in {<< >>, Home, In(WorkingDirectory), Outside,
                                         Append(Outside, <<"out">>)}}
          \cup {<<Append(Outside, name), File>> : name \in {<<"s">>, <<"2">>}}
          \cup {<<Root, LinkTo(Home)>> : x \in {1} \cap (IF Home = Root THEN {} ELSE {1})}
          \cup {<<In(paths["source"]), node>> : node \in sourceNode}
          \cup {<<In(paths["out_dir"]), node>> : node \in outDirNode}
          \cup {<<In(paths["first"]), node>> : node \in IF Is("first", "exists") THEN {File} ELSE {}}
          \cup {<<In(paths["second"]), node>> :
                  node \in IF Is("second", "escapes") THEN {LinkTo(Append(Outside, <<"2">>))} ELSE {}}
  IN [path \in {node[1] : node \in nodes} |-> (CHOOSE node \in nodes : node[1] = path)[2]]
-----------------------------------------------------------------------------
Step(do, on) == [do |-> do, on |-> on]

Checks(parts) == [i \in DOMAIN parts |-> Step("check", parts[i])]

(* What the command line looks at before it runs the pipeline, in order.   *)
ParseFlags == Checks(<<"call">>)

ExtractCommand == ParseFlags \o Checks(<<"lines", "source", "out_dir">>)

SplitCommand == ParseFlags \o Checks(<<"max_files", "source", "out_dir", "delimiter", "names">>)

BlocksCommand ==
  ParseFlags
    \o Checks(<<"max_files", "source", "out_dir", "start_line", "end_line", "names">>)

TransformCommand == ParseFlags \o Checks(<<"options", "source", "endings">>)

(* The same of the MCP server: arguments that no field is for, and then,   *)
(* the mutex locked, the context and each argument.                        *)
DecodeArguments == Checks(<<"decode", "context">>)

HandleExtract == DecodeArguments \o Checks(<<"source", "out_dir", "lines">>)

(* Mutant: the server takes any max_files.                                 *)
HandleSplitUnlimited == DecodeArguments \o Checks(<<"source", "out_dir", "delimiter">>)

HandleSplit == DecodeArguments \o Checks(<<"source", "out_dir", "delimiter", "max_files">>)

HandleBlocks ==
  DecodeArguments \o Checks(<<"source", "out_dir", "start_line", "end_line", "max_files">>)

HandleTransform == DecodeArguments \o Checks(<<"endings", "options", "source">>)

FrontSteps(tool) ==
  CASE tool = "extract" -> IF front = "cli" THEN ExtractCommand ELSE HandleExtract
    [] tool = "split" -> IF front = "cli" THEN SplitCommand ELSE HandleSplit
    [] tool = "blocks" -> IF front = "cli" THEN BlocksCommand ELSE HandleBlocks
    [] tool = "transform" -> IF front = "cli" THEN TransformCommand ELSE HandleTransform

ExtractSteps(preview) ==
  <<Step("validate", "source"), Step("open", "source"), Step("validate", "first")>>
    \o (IF preview THEN <<Step("vacant", "first"), Step("scan", "source")>>
        ELSE <<Step("scan", "source"), Step("mkdir", "out_dir"), Step("publish", "first")>>)

PlanSteps == <<Step("validate", "source"), Step("validate", "out_dir"), Step("extension", "source"),
               Step("open", "source"), Step("scan", "source"), Step("names", "source")>>

(* A preview looks at all outputs; an apply checks each when its turn is.  *)
PreviewSteps == <<Step("validate", "first"), Step("validate", "second"),
                  Step("vacant", "first"), Step("vacant", "second")>>

WriteSteps == <<Step("mkdir", "out_dir"),
                Step("validate", "first"), Step("publish", "first"),
                Step("validate", "second"), Step("publish", "second")>>

SplitSteps(preview) == PlanSteps \o (IF preview THEN PreviewSteps ELSE WriteSteps)

(* RunBlocks differs from RunSplit in what it scans for.                   *)
BlocksSteps(preview) == SplitSteps(preview)

TransformSteps ==
  <<Step("stat", "source"), Step("validate", "source"), Step("transform", "source"),
    Step("skipped", "source")>>

PipelineSteps(tool, preview) ==
  CASE tool = "extract" -> ExtractSteps(preview)
    [] tool = "split" -> SplitSteps(preview)
    [] tool = "blocks" -> BlocksSteps(preview)
    [] tool = "transform" -> TransformSteps

Steps ==
  FrontSteps(request.tool) \o PipelineSteps(request.tool, request.preview)
    \o (IF front = "cli" THEN Checks(<<"stdout">>) ELSE << >>)
-----------------------------------------------------------------------------
NoError == Bare("none")

RoleOf(place) ==
  CASE place = "source" -> "src"
    [] place = "out_dir" -> IF request.tool = "extract" THEN "dest" ELSE "out_dir"
    [] place \in {"first", "second"} -> IF request.tool = "extract" THEN "dest" ELSE "output_path"

Blaming(place, cause) == WithPathRole(RoleOf(place), place, Bare(cause))

(* The value of --names for what the MCP server gets as an array.          *)
CommaSeparated(names) ==
  FlattenSeq([i \in DOMAIN names |-> IF i = 1 THEN names[i] ELSE <<",">> \o names[i]])

(* An argument that is wrong.  PreparePath refuses a path that is empty.   *)
CheckError(part) ==
  IF part \notin DOMAIN wrong THEN NoError
  ELSE IF part \in {"source", "out_dir"}
       THEN IF wrong[part] = "empty_path"
            THEN WithPathRole(RoleOf(part), NoPath, Bare("empty_path")) ELSE NoError
  ELSE IF part \in {"delimiter", "start_line", "end_line"} THEN PatternFieldError(part, wrong[part])
  ELSE IF part = "names" THEN Bare(ParseCommaSeparatedNames(CommaSeparated(Names)).error)
  ELSE Bare(wrong[part])

ValidateError(place) ==
  LET cause == ValidatePath(tree, paths[place], Root)
  IN IF cause = "none" THEN NoError ELSE Blaming(place, cause)

(* RunTransform's Stat, which follows links.                               *)
StatError ==
  LET real == Real(tree, paths["source"])
  IN IF real \notin DOMAIN tree THEN Blaming("source", "source_not_found")
     ELSE IF tree[real].kind = "directory" THEN Blaming("source", "directory_not_file")
     ELSE IF tree[real].kind # "file" THEN Blaming("source", "not_regular_file")
     ELSE NoError

(* openSourceForPipeline.  A directory opens, and cannot be read.          *)
OpenError ==
  IF Is("open", "io") THEN Blaming("source", "io")
  ELSE IF ~Exists(tree, paths["source"]) THEN Blaming("source", "source_not_found")
  ELSE IF IsDirectory(tree, paths["source"]) THEN Blaming("source", "io")
  ELSE IF Is("content", "binary_source") THEN Blaming("source", "binary_source")
  ELSE NoError

(* The scans of split and of blocks say nothing of a path.                 *)
ScanError ==
  IF "scan" \notin DOMAIN wrong THEN NoError
  ELSE IF request.tool = "extract" THEN Blaming("source", wrong["scan"])
  ELSE Bare(wrong["scan"])

ExtensionError == IF ExtensionIsRefused(Extension) THEN Bare("invalid_extension") ELSE NoError

NamesError ==
  LET fragments == IF front = "cli" THEN ParseCommaSeparatedNames(CommaSeparated(Names)).names
                   ELSE Names
  IN Bare(ApplyExplicitNames(fragments, Generated, Extension).error)

Occupied(place) == ~request.force /\ Exists(tree, paths[place])

DestinationExists(place) == [Bare("destination_exists") EXCEPT !.path = place]

VacantError(place) == IF Occupied(place) THEN DestinationExists(place) ELSE NoError

(* mkdirOutDirIfRequested, and the one of extract, which blames the        *)
(* destination.                                                            *)
MkdirError ==
  IF /\ request.mkdir
     /\ \/ Is("out_dir", "unmakeable")
        \/ Exists(tree, paths["out_dir"]) /\ ~IsDirectory(tree, paths["out_dir"])
  THEN Blaming(IF request.tool = "extract" THEN "first" ELSE "out_dir", "io")
  ELSE NoError

(* Mutant: every error of extract's publication blames the destination.    *)
PublishErrorRewrapped(place) ==
  IF Occupied(place) THEN DestinationExists(place)
  ELSE IF Is("publish", "io") \/ ~IsDirectory(tree, paths["out_dir"]) THEN Blaming(place, "io")
  ELSE IF Is("publish", "copy") THEN Blaming(place, "io")
  ELSE IF "publish" \in DOMAIN wrong THEN Blaming(place, "source_fingerprint_mismatch")
  ELSE NoError

(* mapExtractAtomicPublishError and publishSpanWithFingerprintVerify: what *)
(* copying the span says comes with its path already.                      *)
PublishError(place) ==
  IF Occupied(place) THEN DestinationExists(place)
  ELSE IF Is("publish", "io") \/ ~IsDirectory(tree, paths["out_dir"]) THEN Blaming(place, "io")
  ELSE IF Is("publish", "copy") THEN WithPathRole("output_path", place, Bare("io"))
  ELSE IF "publish" \in DOMAIN wrong
       THEN WithPathRole("output_path", place, Bare("source_fingerprint_mismatch"))
  ELSE NoError

ErrorOf(step) ==
  CASE step.do = "check" -> CheckError(step.on)
    [] step.do = "validate" -> ValidateError(step.on)
    [] step.do = "stat" -> StatError
    [] step.do = "open" -> OpenError
    [] step.do = "scan" -> ScanError
    [] step.do = "extension" -> ExtensionError
    [] step.do = "names" -> NamesError
    [] step.do = "vacant" -> VacantError(step.on)
    [] step.do = "mkdir" -> MkdirError
    [] step.do = "publish" -> PublishError(step.on)
    [] step.do = "transform" -> IF "transform" \in DOMAIN wrong
                                THEN Blaming("source", "io") ELSE NoError
    [] step.do = "skipped" -> IF Is("content", "binary_source") THEN Bare("binary_source")
                              ELSE NoError

(* The path that an error is about when it does not say: the source, but   *)
(* the command line leaves it out where it checks the arguments.           *)
PrimaryPath(step) ==
  IF \/ Is("source", "empty_path")
     \/ front = "cli" /\ step.do = "check" /\ step.on \in {"lines", "max_files", "options", "endings"}
  THEN NoPath
  ELSE "source"

(* Some refusals are written out where they are found.                     *)
CallFields(class) ==
  CASE class = "unknown_command" -> {"command"}
    [] class = "invalid_flag" -> {"flag"}
    [] class = "missing_required_flag" -> {"missing_flags"}
    [] class = "unexpected_argument" -> {IF front = "cli" THEN "argument" ELSE "field"}
    [] class = "write_failed" -> {}

OutcomeAt(step) ==
  IF step.do = "check" /\ step.on \in {"call", "decode", "stdout"}
  THEN OutcomeOf(wrong[step.on], NoSlots, CallFields(wrong[step.on]))
  ELSE ClassifyOperationError(ErrorOf(step), PrimaryPath(step))

Answer(payload, exit) == [payload |-> payload, exit |-> exit]

NoAnswer == Answer(Payload("none", {}, NoPath), 0)

Counts == {"endings_changed", "lf_found", "lf_converted", "cr_found", "cr_converted",
           "crlf_found", "crlf_converted"}

(* What a tool says when it succeeds: what the command line prints.        *)
PrintedByExtract ==
  IF request.preview THEN {"would_extract_lines", "would_create"} ELSE {"lines_extracted"}

Files == {IF request.preview THEN "would_create" ELSE "files_created"}

PrintedByBlocks ==
  {"content_blocks_found"} \cup Files
    \cup (IF Is("markers", "empty_block") THEN {"empty_blocks_found"} ELSE {})

Newline == IF request.preview THEN "final_newline_needed" ELSE "final_newline_added"

PrintedByTransform ==
  {IF request.preview THEN "would_change" ELSE "changed"}
    \cup (IF "line_endings" \in request.edits THEN Counts ELSE {})
    \cup (IF "trim_trailing" \in request.edits THEN {"trailing_trimmed"} ELSE {})
    \cup (IF "final_newline" \in request.edits THEN {Newline} ELSE {})

CommandLineResult ==
  CASE request.tool = "extract" -> PrintedByExtract
    [] request.tool = "split" -> Files
    [] request.tool = "blocks" -> PrintedByBlocks
    [] request.tool = "transform" -> PrintedByTransform

(* The same of the MCP server, whose outputs leave out what is not set.    *)
TransformOutput ==
  (UNION {CASE edit = "line_endings" -> Counts
            [] edit = "trim_trailing" -> {"trailing_trimmed"}
            [] edit = "final_newline" -> {Newline} :
          edit \in request.edits})
    \cup {IF request.preview THEN "would_change" ELSE "changed"}

ServerResult ==
  CASE request.tool = "extract" /\ request.preview -> {"would_extract_lines", "would_create"}
    [] request.tool = "extract" /\ ~request.preview -> {"lines_extracted"}
    [] request.tool = "transform" -> TransformOutput
    [] request.tool = "split" -> Files
    [] request.tool = "blocks" ->
         Files \cup {"content_blocks_found"}
           \cup {key \in {"empty_blocks_found"} : Is("markers", "empty_block")}

Success == Answer(Payload("", IF front = "cli" THEN CommandLineResult ELSE ServerResult, NoPath), 0)

Failing(step) == ErrorOf(step) # NoError
-----------------------------------------------------------------------------
Unvouched == [place \in Place |-> "no"]

Init ==
  /\ request \in Requests
  /\ wrong \in Wrong(request.tool)
  /\ request.tool = "transform" => (request.edits = {} <=> "options" \in DOMAIN wrong)
  /\ "endings" \in DOMAIN wrong => "line_endings" \in request.edits
  /\ paths = [place \in Place |-> PathOf(place)]
  /\ tree = Workspace
  /\ front = "cli"
  /\ at = 1
  /\ relinked = {}
  /\ vouched = Unvouched
  /\ written = {}
  /\ answers = [f \in FrontEnd |-> NoAnswer]

(* The front end answers; then the other one gets the same request.        *)
Reply(answer) ==
  /\ answers' = [answers EXCEPT ![front] = answer]
  /\ front' = IF front = "cli" THEN "mcp" ELSE "nobody"
  /\ at' = 1
  /\ tree' = Workspace
  /\ vouched' = Unvouched
  /\ UNCHANGED <<request, wrong, paths, relinked, written>>

Succeed ==
  /\ front # "nobody"
  /\ at > Len(Steps)
  /\ Reply(Success)

(* exitCodeForPipelineErr, writeErrorJSON and operationErrorMap.           *)
Refuse ==
  /\ front # "nobody"
  /\ at <= Len(Steps)
  /\ Failing(Steps[at])
  /\ LET outcome == OutcomeAt(Steps[at])
     IN Reply(Answer(OperationErrorPayload(outcome), outcome.exit))

Doing(what) ==
  /\ front # "nobody"
  /\ at <= Len(Steps)
  /\ Steps[at].do = what
  /\ ~Failing(Steps[at])
  /\ at' = at + 1
  /\ UNCHANGED <<request, wrong, paths, front, relinked, answers>>

(* A step that changes nothing.                                            *)
Look ==
  /\ \E what \in {"check", "stat", "open", "extension", "scan", "names", "vacant", "skipped"} : Doing(what)
  /\ UNCHANGED <<tree, vouched, written>>

Validate ==
  /\ Doing("validate")
  /\ vouched' = [vouched EXCEPT ![Steps[at].on] = "validated"]
  /\ UNCHANGED <<tree, written>>

Mkdir ==
  /\ Doing("mkdir")
  /\ tree' = IF request.mkdir THEN MkdirAll(tree, paths["out_dir"]) ELSE tree
  /\ UNCHANGED <<vouched, written>>

(* A file is put in place: an output, or the source that is transformed.   *)
Put(place) ==
  LET entry == Entry(tree, paths[place])
  IN /\ tree' = [path \in DOMAIN tree \cup {entry} |-> IF path = entry THEN File ELSE tree[path]]
     /\ written' = written \cup
          {[by |-> front, place |-> place, at |-> entry,
            inside |-> Within(entry, Real(tree, Root)), vouched |-> vouched[place]]}
     /\ UNCHANGED vouched

Publish ==
  /\ Doing("publish")
  /\ Put(Steps[at].on)

(* TransformFile; a binary source, and a preview, write nothing.           *)
Transform ==
  /\ Doing("transform")
  /\ IF request.preview \/ Is("content", "binary_source") THEN UNCHANGED <<tree, vouched, written>>
     ELSE Put("source")

(* Somebody replaces the directory, with what is in it, by a link.         *)
Relink ==
  LET there == Entry(tree, WorkingDirectory)
  IN /\ front \in FrontEnd \ relinked
     /\ DOMAIN wrong \subseteq {"root"}
     /\ tree' = [path \in {p \in DOMAIN tree : ~Within(p, there)} \cup {there} |->
                   IF path = there THEN LinkTo(Outside) ELSE tree[path]]
     /\ relinked' = relinked \cup {front}
     /\ vouched' = [place \in Place |-> IF vouched[place] = "no" THEN "no" ELSE "stale"]
     /\ UNCHANGED <<request, wrong, paths, front, at, written, answers>>

Answered == front = "nobody" /\ UNCHANGED vars

Next == Succeed \/ Refuse \/ Look \/ Validate \/ Mkdir \/ Publish \/ Transform \/ Relink \/ Answered

Spec == Init /\ [][Next]_vars
-----------------------------------------------------------------------------
(* The exit codes of docs/glyph-shift-json-contract.md.                    *)
DocumentedExit(class) ==
  CASE class = "" -> 0
    [] class \in {"internal_error", "source_fingerprint_mismatch", "write_failed"} -> 1
    [] class = "source_not_found" -> 2
    [] class = "binary_source" -> 3
    [] class = "destination_exists" -> 4
    [] class \in {"not_regular_file", "directory_not_file"} -> 5
    [] OTHER -> 6

CallVariants ==
  {<<"unknown_command", {"command"}>>, <<"invalid_flag", {"flag"}>>,
   <<"missing_required_flag", {"missing_flags"}>>, <<"unexpected_argument", {"argument"}>>}

(* Every answer that a client sees is one that the tool advertises: what   *)
(* it says of a success, or a failure with the fields that this variant    *)
(* requires, and the command line exits with the code documented for it.   *)
(* No failure has to be suppressed, as OperationErrorPayload does with one *)
(* that does not fit, so write_failed means that stdout could not be       *)
(* written.  The exception is an argument that the MCP server cannot       *)
(* decode, which the schemas leave out.                                    *)
EveryAnswerIsCatalogued ==
  \A f \in FrontEnd :
    LET payload == answers[f].payload
    IN answers[f] # NoAnswer =>
         /\ \/ InCatalogue(request.tool, payload)
            \/ f = "cli" /\ <<payload.error, payload.keys>> \in CallVariants
            \/ f = "mcp" /\ payload = Payload("unexpected_argument", {"field"}, NoPath)
         /\ f = "cli" => answers[f].exit = DocumentedExit(payload.error)
         /\ payload.error = "write_failed" => f = "cli" /\ "stdout" \in DOMAIN wrong

WrongArguments ==
  {p \in DOMAIN wrong :
     \/ p \in {"lines", "max_files", "delimiter", "start_line", "end_line", "endings", "options"}
     \/ p = "names" /\ wrong[p] = "empty"
     \/ p \in {"source", "out_dir"} /\ wrong[p] = "empty_path"}

(* The two front ends give the same answer to the same request, but for    *)
(* hints: the error, its fields and the path it names.  Not so if two of   *)
(* the arguments are wrong, of which they find different ones first; and   *)
(* the command line looks for empty --names before it reads the source,    *)
(* and takes a blank text for none, where an array of one blank is refused.*)
FrontsAgree ==
  front = "nobody" /\ relinked = {} /\ DOMAIN wrong \cap CallParts = {}
    /\ Cardinality(WrongArguments) <= 1
    /\ ~Is("names", "blank")
    /\ (Is("names", "empty") => DOMAIN wrong \subseteq {"names", "root"})
  => answers["cli"].payload = answers["mcp"].payload

(* What is written lands in the workspace, however the tree is linked, but *)
(* for a path whose directory was replaced after it had been validated;    *)
(* and never do two outputs of one request land in the same file, of which *)
(* --force would then keep the last, whatever names were asked for.        *)
OutputsLandInPlace ==
  /\ \A w \in written : w.inside \/ w.vouched = "stale"
  /\ \A v, w \in written : v.by = w.by /\ v.at = w.at => v.place = w.place
=============================================================================
