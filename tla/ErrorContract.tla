---------------------------- MODULE ErrorContract ----------------------------
(***************************************************************************)
(* How a failure becomes the JSON object that a client reads               *)
(* (internal/pipeline): ClassifyOperationError picks the class, the path   *)
(* and the numbers that go with an error, OperationErrorPayload renders    *)
(* them, and where they do not fit the contract falls back to              *)
(* write_failed.  The catalogue is what the MCP server advertises in the   *)
(* outputSchema of each tool.                                              *)
(*                                                                         *)
(* A hint is a text that is never empty and that nothing branches on; the  *)
(* numbers of a payload are told apart by their keys only.                 *)
(***************************************************************************)
EXTENDS Naturals

CONSTANT Path

NoPath == ""

ASSUME PathAssumption == NoPath \notin Path

Tool == {"extract", "split", "blocks", "transform"}

Slot == {"src", "dest", "out_dir", "output_path"}

SourceClass == {"source_not_found", "binary_source", "directory_not_file", "not_regular_file"}

PatternClass == {"invalid_pattern", "pattern_too_long", "control_chars_in_input"}

CountClass == {"empty_range", "range_exceeds_file", "unclosed_block", "max_files_exceeded",
               "names_count_mismatch"}

(* The sentinels that are a class of their own, and those that are bad     *)
(* input: with a path that is the source's unless the error says           *)
(* otherwise, and with none.                                               *)
OwnClass == SourceClass \cup {"no_blocks_found", "no_delimiter_match", "source_fingerprint_mismatch",
                              "invalid_line_endings", "no_transform_specified"}

PathInput == {"path_traversal", "outside_root", "reserved_name"}

BareInput == PatternClass \cup
  {"path_contains_nul", "invalid_extension", "empty_path", "line_range_parse", "empty_names_entry",
   "invalid_explicit_name", "duplicate_explicit_names", "max_files_at_least_one"}

(* What has no rule: errors of the file system, and of the context.        *)
Unruled == {"io", "cancelled"}

Cause == OwnClass \cup PathInput \cup BareInput \cup Unruled \cup CountClass
           \cup {"destination_exists", "transform_skipped"}

(* An error: its sentinel, the pattern's field if it is a                  *)
(* PatternFieldError, its outermost PathContextError, and whether the      *)
(* typed error that carries its numbers is in the chain.                   *)
Error == [cause : Cause, field : STRING, role : Slot \cup {"none"}, path : Path \cup {NoPath},
          detail : BOOLEAN]

Bare(cause) == [cause |-> cause, field |-> "", role |-> "none", path |-> NoPath, detail |-> TRUE]

(* WithPathRole, or pathContextError: around whatever role there was.      *)
WithPathRole(role, path, error) == [error EXCEPT !.role = role, !.path = path]

PatternFieldError(field, cause) == [Bare(cause) EXCEPT !.field = field]

NoSlots == [s \in Slot |-> NoPath]

Outcome == [error : STRING, exit : 0..6, slots : [Slot -> Path \cup {NoPath}],
            fields : SUBSET STRING]

ExitOf(class) ==
  CASE class = "source_not_found" -> 2
    [] class = "binary_source" -> 3
    [] class = "destination_exists" -> 4
    [] class \in {"directory_not_file", "not_regular_file"} -> 5
    [] class \in {"internal_error", "source_fingerprint_mismatch", "write_failed"} -> 1
    [] OTHER -> 6

OutcomeOf(class, slots, fields) ==
  [error |-> class, exit |-> ExitOf(class), slots |-> slots, fields |-> fields]

Only(slot, path) == [NoSlots EXCEPT ![slot] = path]

(* applyPathSlotFromError: the path that the error carries, else the       *)
(* primary path in the slot of the rule.                                   *)
SlotsFromError(error, fallback, primary) ==
  IF error.role # "none" /\ error.path # NoPath THEN Only(error.role, error.path)
  ELSE IF fallback # "none" THEN Only(fallback, primary)
  ELSE NoSlots

IntKeys(class) ==
  CASE class = "empty_range" -> {"range_start", "range_end"}
    [] class = "range_exceeds_file" -> {"file_lines", "range_start", "range_end"}
    [] class = "unclosed_block" -> {"start_line"}
    [] class = "max_files_exceeded" -> {"max_files", "would_create_count"}
    [] class = "names_count_mismatch" -> {"names_count", "output_count"}
    [] OTHER -> {}

ClassifyPatternField(error) == OutcomeOf(error.cause, NoSlots, {"field"})

ClassifyDestinationExists(error, primary) ==
  OutcomeOf("destination_exists",
            Only("dest", IF error.path # NoPath THEN error.path ELSE primary), {})

ClassifyInternal(error, primary) ==
  OutcomeOf("internal_error",
            IF error.role # "none" THEN Only(error.role, error.path) ELSE Only("src", primary), {})

(* A class with numbers needs the error that carries them.                 *)
ClassifyStructured(error, primary) ==
  IF ~error.detail THEN ClassifyInternal(error, primary)
  ELSE OutcomeOf(error.cause,
                 IF error.cause \in {"max_files_exceeded", "names_count_mismatch"} THEN NoSlots
                 ELSE SlotsFromError(error, "src", primary),
                 IntKeys(error.cause))

FallbackSlot(cause) ==
  IF cause = "source_fingerprint_mismatch" THEN "output_path"
  ELSE IF cause \in SourceClass \cup PathInput
                      \cup {"no_blocks_found", "no_delimiter_match", "transform_skipped"}
       THEN "src"
  ELSE "none"

ClassifyFromRules(error, primary) ==
  LET class == IF error.cause \in OwnClass THEN error.cause
               ELSE IF error.cause = "transform_skipped" THEN "internal_error"
               ELSE "invalid_input"
  IN OutcomeOf(class, SlotsFromError(error, FallbackSlot(error.cause), primary), {})

ClassifyOperationError(error, primary) ==
  IF error.field # "" THEN ClassifyPatternField(error)
  ELSE IF error.cause = "destination_exists" THEN ClassifyDestinationExists(error, primary)
  ELSE IF error.cause \in CountClass THEN ClassifyStructured(error, primary)
  ELSE IF error.cause \in OwnClass \cup PathInput \cup BareInput \cup {"transform_skipped"}
       THEN ClassifyFromRules(error, primary)
  ELSE ClassifyInternal(error, primary)
-----------------------------------------------------------------------------
(* normalizeInternalErrorOutcome: an internal error keeps the path of an   *)
(* output, or of the source; another one goes into the hint.               *)
InternalSlots(slots) ==
  IF slots["output_path"] # NoPath THEN Only("output_path", slots["output_path"])
  ELSE Only("src", slots["src"])

Filled(slots, slot, otherwise) == IF slots[slot] # NoPath THEN slot ELSE otherwise

NeedsPrimarySrc == SourceClass \cup {"no_delimiter_match", "no_blocks_found", "empty_range",
                                     "range_exceeds_file", "unclosed_block"}

(* mergeFormattedPathFields: the one slot that the class may show.         *)
PathKey(outcome) ==
  CASE outcome.error = "destination_exists" -> Filled(outcome.slots, "dest", "none")
    [] outcome.error = "source_fingerprint_mismatch" -> Filled(outcome.slots, "output_path", "none")
    [] outcome.error \in NeedsPrimarySrc -> Filled(outcome.slots, "src", "none")
    [] outcome.error \in {"invalid_input", "control_chars_in_input"} /\ "field" \notin outcome.fields
         -> Filled(outcome.slots, "src",
              Filled(outcome.slots, "dest",
                Filled(outcome.slots, "out_dir",
                  Filled(outcome.slots, "output_path", "none"))))
    [] outcome.error = "internal_error" -> Filled(outcome.slots, "output_path", Filled(outcome.slots, "src", "none"))
    [] OTHER -> "none"

(* The string, array and integer fields that a class may have.             *)
FieldKeys(class) ==
  CASE class = "unknown_command" -> {"command"}
    [] class = "unexpected_argument" -> {"argument", "field"}
    [] class = "invalid_flag" -> {"flag"}
    [] class = "missing_required_flag" -> {"missing_flags"}
    [] class \in PatternClass -> {"field"}
    [] OTHER -> IntKeys(class)

(* contractErrorStaticKeySets and matchDynamicContractErrorVariant, but    *)
(* for the error and the hint that all variants have.                      *)
ContractKeys(class) ==
  CASE class \in NeedsPrimarySrc -> {{"src"} \cup IntKeys(class)}
    [] class = "destination_exists" -> {{"dest"}}
    [] class = "source_fingerprint_mismatch" -> {{"output_path"}}
    [] class = "unexpected_argument" -> {{"argument"}, {"field"}}
    [] class = "invalid_input" -> {{}} \cup {{s} : s \in Slot}
    [] class = "control_chars_in_input" -> {{"field"}} \cup {{s} : s \in Slot}
    [] class = "internal_error" -> {{}, {"src"}, {"output_path"}}
    [] class \in {"write_failed", "no_transform_specified", "invalid_line_endings"} -> {{}}
    [] class \in {"max_files_exceeded", "names_count_mismatch", "invalid_pattern", "pattern_too_long",
                  "unknown_command", "invalid_flag", "missing_required_flag"} -> {FieldKeys(class)}
    [] OTHER -> {}

Payload(class, keys, path) == [error |-> class, keys |-> keys, path |-> path]

WriteFailed == Payload("write_failed", {}, NoPath)

(* formatNonWriteOperationError: a class takes its own fields, needs its   *)
(* numbers, and the keys have to be those of one of its variants.          *)
Renders(outcome, keys) ==
  /\ outcome.fields \subseteq FieldKeys(outcome.error)
  /\ IntKeys(outcome.error) \subseteq outcome.fields
  /\ keys \in ContractKeys(outcome.error)

(* OperationErrorPayload: FormatOperationErrorJSON, or what stands in for  *)
(* it.  The keys are those beside error and hint.                          *)
OperationErrorPayload(outcome) ==
  LET slots == IF outcome.error = "internal_error" THEN InternalSlots(outcome.slots)
               ELSE outcome.slots
      key == PathKey([outcome EXCEPT !.slots = slots])
      keys == outcome.fields \cup (IF key = "none" THEN {} ELSE {key})
  IN IF Renders(outcome, keys)
     THEN Payload(outcome.error, keys, IF key = "none" THEN NoPath ELSE slots[key])
     ELSE WriteFailed
-----------------------------------------------------------------------------
FileOutputTool == {"extract", "split", "blocks"}

SectionTool == {"split", "blocks"}

(* operationErrorRegistry: the tools that a branch of the schema is for,   *)
(* the classes it takes and the keys it requires.                          *)
Branch(tools, classes, keys) == [tools |-> tools, classes |-> classes, keys |-> keys]

OperationErrorRegistry ==
  {Branch(Tool, SourceClass, {"src"}),
   Branch({"split"}, {"no_delimiter_match"}, {"src"}),
   Branch({"blocks"}, {"no_blocks_found"}, {"src"}),
   Branch({"extract"}, {"empty_range"}, {"src", "range_start", "range_end"}),
   Branch({"extract"}, {"range_exceeds_file"}, {"src", "file_lines", "range_start", "range_end"}),
   Branch({"blocks"}, {"unclosed_block"}, {"src", "start_line"}),
   Branch(FileOutputTool, {"destination_exists"}, {"dest"}),
   Branch(FileOutputTool, {"source_fingerprint_mismatch"}, {"output_path"}),
   Branch(SectionTool, PatternClass, {"field"}),
   Branch(Tool, {"invalid_input", "control_chars_in_input"}, {"src"}),
   Branch({"extract"}, {"invalid_input", "control_chars_in_input"}, {"dest"}),
   Branch(SectionTool, {"invalid_input", "control_chars_in_input"}, {"out_dir"}),
   Branch(SectionTool, {"invalid_input", "control_chars_in_input"}, {"output_path"}),
   Branch(Tool, {"invalid_input"}, {}),
   Branch({"transform"}, {"no_transform_specified", "invalid_line_endings"}, {}),
   Branch(SectionTool, {"max_files_exceeded"}, {"max_files", "would_create_count"}),
   Branch(SectionTool, {"names_count_mismatch"}, {"names_count", "output_count"}),
   Branch(Tool, {"write_failed", "internal_error"}, {}),
   Branch(Tool, {"internal_error"}, {"src"}),
   Branch(FileOutputTool, {"internal_error"}, {"output_path"})}

(* The variants of a success: what they may require, and what they allow.  *)
Variant(requires, allows) == [requires |-> requires, allows |-> allows]

SuccessVariants(tool) ==
  LET counts == {"endings_changed", "lf_found", "lf_converted", "cr_found", "cr_converted",
                 "crlf_found", "crlf_converted"}
      Edits(changed, newline) ==
        {Variant({{changed, newline}, {changed, "trailing_trimmed"}},
                 {changed, newline, "trailing_trimmed"}),
         Variant({{changed} \cup counts}, {changed, newline, "trailing_trimmed"} \cup counts)}
      Blocks(files) ==
        Variant({{"content_blocks_found", files}}, {"content_blocks_found", "empty_blocks_found", files})
  IN CASE tool = "extract" -> {Variant({keys}, keys) :
            keys \in {{"lines_extracted"}, {"would_extract_lines", "would_create"}}}
       [] tool = "split" -> {Variant({keys}, keys) : keys \in {{"files_created"}, {"would_create"}}}
       [] tool = "blocks" -> {Blocks("files_created"), Blocks("would_create")}
       [] tool = "transform" -> Edits("changed", "final_newline_added")
                                  \cup Edits("would_change", "final_newline_needed")

(* The schema of a tool is a oneOf: one variant takes the payload, and no  *)
(* second one does.                                                        *)
OneOf(accepting) == \E variant \in accepting : accepting = {variant}

InCatalogue(tool, payload) ==
  IF payload.error = ""
  THEN OneOf({variant \in SuccessVariants(tool) :
                /\ \E keys \in variant.requires : keys \subseteq payload.keys
                /\ payload.keys \subseteq variant.allows})
  ELSE OneOf({branch \in OperationErrorRegistry :
                /\ tool \in branch.tools
                /\ payload.error \in branch.classes
                /\ payload.keys = branch.keys})
=============================================================================
