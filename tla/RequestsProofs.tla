---------------------------- MODULE RequestsProofs ----------------------------
(***************************************************************************)
(* What is proved of the requests, and of the two contracts that they rest *)
(* on.  The names that a caller spells out: those that are accepted are    *)
(* one for each output, no two are the same, and each is the name of a     *)
(* file in the output directory, and of no device.  The errors: whatever   *)
(* the cause of a failure, the paths involved and who blames which, its    *)
(* outcome fits one of the variants of its class, and the client reads     *)
(* that class and not write_failed.  The answers: each is one that the     *)
(* tool advertises.  And the outputs: however the workspace is linked,     *)
(* they land in it, and apart.                                             *)
(***************************************************************************)
EXTENDS Requests, DataInduction, TLAPS

USE PathAssumption

(* The errors that the pipeline builds: a pattern's field goes with what   *)
(* is wrong with a pattern, whoever blames a path has one, and what is     *)
(* wrong with a source or a fingerprint is blamed on nothing else.         *)
Proper(error) ==
  /\ error \in Error
  /\ error.field # "" => error.cause \in PatternClass
  /\ error.role # "none" => error.path # NoPath
  /\ error.cause \in NeedsPrimarySrc => error.role \in {"none", "src"}
  /\ error.cause = "source_fingerprint_mismatch" => error.role \in {"none", "output_path"}

Slots == [Slot -> Path \cup {NoPath}]

-----------------------------------------------------------------------------
LEMMA NoSlotsProperties == NoSlots \in Slots /\ \A s \in Slot : NoSlots[s] = NoPath
  BY DEF NoSlots, Slots

LEMMA OnlyProperties ==
  ASSUME NEW slot \in Slot, NEW path \in Path \cup {NoPath}
  PROVE  /\ Only(slot, path) \in Slots
         /\ \A s \in Slot : Only(slot, path)[s] = IF s = slot THEN path ELSE NoPath
  BY DEF Only, NoSlots, Slots

(* A path that the error carries, or that of the request, fills a slot.    *)
LEMMA SlotsFromErrorProperties ==
  ASSUME NEW error, Proper(error), NEW fallback \in Slot \cup {"none"}, NEW primary \in Path
  PROVE  /\ SlotsFromError(error, fallback, primary) \in Slots
         /\ error.role # "none" =>
              \A s \in Slot : SlotsFromError(error, fallback, primary)[s] # NoPath <=> s = error.role
         /\ error.role = "none" =>
              \A s \in Slot : SlotsFromError(error, fallback, primary)[s] # NoPath <=> s = fallback
<1> DEFINE slots == SlotsFromError(error, fallback, primary)
<1>1. /\ error.role \in Slot \cup {"none"} /\ error.path \in Path \cup {NoPath}
      /\ error.role # "none" => error.path # NoPath
  BY DEF Proper, Error
<1>2. "none" \notin Slot
  BY DEF Slot
<1>3. CASE error.role # "none"
  <2>1. slots = Only(error.role, error.path) /\ error.role \in Slot
    BY <1>1, <1>3 DEF SlotsFromError
  <2>2. QED
    BY <1>1, <1>3, <2>1, OnlyProperties
<1>4. CASE error.role = "none" /\ fallback # "none"
  <2>1. slots = Only(fallback, primary) /\ fallback \in Slot /\ primary # NoPath
    BY <1>4 DEF SlotsFromError
  <2>2. QED
    BY <1>4, <2>1, OnlyProperties
<1>5. CASE error.role = "none" /\ fallback = "none"
  <2>1. slots = NoSlots
    BY <1>5 DEF SlotsFromError
  <2>2. QED
    BY <1>2, <1>5, <2>1, NoSlotsProperties
<1>6. QED
  BY <1>3, <1>4, <1>5

(* An outcome that keeps the path of its class is rendered as its class.   *)
Rendered(outcome) == OperationErrorPayload(outcome).error = outcome.error

KeyOf(outcome) ==
  PathKey([outcome EXCEPT !.slots = IF outcome.error = "internal_error"
                                    THEN InternalSlots(outcome.slots) ELSE outcome.slots])

LEMMA Rendering ==
  ASSUME NEW outcome,
         Renders(outcome, outcome.fields \cup (IF KeyOf(outcome) = "none" THEN {}
                                               ELSE {KeyOf(outcome)}))
  PROVE  Rendered(outcome)
  BY DEF Rendered, OperationErrorPayload, KeyOf, Payload

(* The key of an outcome of each kind of class.                            *)
LEMMA KeyOfOutcome ==
  ASSUME NEW class, NEW slots, NEW fields
  PROVE  LET outcome == OutcomeOf(class, slots, fields)
         IN /\ outcome.error = class /\ outcome.fields = fields
            /\ class = "internal_error" =>
                 KeyOf(outcome) = PathKey(OutcomeOf(class, InternalSlots(slots), fields))
            /\ class # "internal_error" => KeyOf(outcome) = PathKey(outcome)
  BY DEF KeyOf, OutcomeOf

LEMMA InternalIsRendered ==
  ASSUME NEW slots \in Slots
  PROVE  Rendered(OutcomeOf("internal_error", slots, {}))
<1> DEFINE outcome == OutcomeOf("internal_error", slots, {})
           kept == InternalSlots(slots)
<1>1. KeyOf(outcome) = PathKey(OutcomeOf("internal_error", kept, {})) /\ outcome.fields = {}
      /\ outcome.error = "internal_error"
  BY KeyOfOutcome
<1>2. PathKey(OutcomeOf("internal_error", kept, {})) \in {"none", "src", "output_path"}
  BY DEF PathKey, OutcomeOf, Filled, NeedsPrimarySrc, SourceClass
<1>3. /\ {} \in ContractKeys("internal_error")
      /\ {"src"} \in ContractKeys("internal_error")
      /\ {"output_path"} \in ContractKeys("internal_error")
      /\ IntKeys("internal_error") = {}
  BY DEF ContractKeys, NeedsPrimarySrc, SourceClass, IntKeys
<1>4. Renders(outcome, outcome.fields \cup (IF KeyOf(outcome) = "none" THEN {} ELSE {KeyOf(outcome)}))
  BY <1>1, <1>2, <1>3 DEF Renders
<1>5. QED
  BY <1>4, Rendering

LEMMA SourceIsRendered ==
  ASSUME NEW class \in NeedsPrimarySrc, NEW slots \in Slots, slots["src"] # NoPath
  PROVE  Rendered(OutcomeOf(class, slots, IntKeys(class)))
<1> DEFINE outcome == OutcomeOf(class, slots, IntKeys(class))
<1>1. class \notin {"internal_error", "destination_exists", "source_fingerprint_mismatch"}
  BY DEF NeedsPrimarySrc, SourceClass
<1>2. KeyOf(outcome) = PathKey(outcome) /\ outcome.fields = IntKeys(class) /\ outcome.error = class
  BY <1>1, KeyOfOutcome
<1>3. PathKey(outcome) = "src"
  BY <1>1 DEF PathKey, OutcomeOf, Filled
<1>4. FieldKeys(class) = IntKeys(class)
  BY DEF FieldKeys, NeedsPrimarySrc, SourceClass, PatternClass
<1>5. ContractKeys(class) = {{"src"} \cup IntKeys(class)}
  BY <1>1 DEF ContractKeys, NeedsPrimarySrc, SourceClass
<1>6. Renders(outcome, outcome.fields \cup (IF KeyOf(outcome) = "none" THEN {} ELSE {KeyOf(outcome)}))
  BY <1>2, <1>3, <1>4, <1>5 DEF Renders
<1>7. QED
  BY <1>6, Rendering

LEMMA OutputIsRendered ==
  ASSUME NEW class, NEW slot, NEW slots \in Slots, slots[slot] # NoPath,
         \/ class = "destination_exists" /\ slot = "dest"
         \/ class = "source_fingerprint_mismatch" /\ slot = "output_path"
  PROVE  Rendered(OutcomeOf(class, slots, {}))
<1> DEFINE outcome == OutcomeOf(class, slots, {})
<1>1. KeyOf(outcome) = PathKey(outcome) /\ outcome.fields = {} /\ outcome.error = class
  BY KeyOfOutcome
<1>2. PathKey(outcome) = slot /\ slot # "none"
  BY DEF PathKey, OutcomeOf, Filled, NeedsPrimarySrc, SourceClass
<1>3. IntKeys(class) = {} /\ ContractKeys(class) = {{slot}}
  BY DEF IntKeys, ContractKeys, NeedsPrimarySrc, SourceClass
<1>4. Renders(outcome, outcome.fields \cup (IF KeyOf(outcome) = "none" THEN {} ELSE {KeyOf(outcome)}))
  BY <1>1, <1>2, <1>3 DEF Renders
<1>5. QED
  BY <1>4, Rendering

LEMMA InputIsRendered ==
  ASSUME NEW slots \in Slots
  PROVE  Rendered(OutcomeOf("invalid_input", slots, {}))
<1> DEFINE outcome == OutcomeOf("invalid_input", slots, {})
<1>1. KeyOf(outcome) = PathKey(outcome) /\ outcome.fields = {} /\ outcome.error = "invalid_input"
  BY KeyOfOutcome
<1>2. PathKey(outcome) \in Slot \cup {"none"}
  BY DEF PathKey, OutcomeOf, Filled, NeedsPrimarySrc, SourceClass, Slot
<1>3. IntKeys("invalid_input") = {} /\ ContractKeys("invalid_input") = {{}} \cup {{s} : s \in Slot}
  BY DEF IntKeys, ContractKeys, NeedsPrimarySrc, SourceClass
<1>4. Renders(outcome, outcome.fields \cup (IF KeyOf(outcome) = "none" THEN {} ELSE {KeyOf(outcome)}))
  BY <1>1, <1>2, <1>3 DEF Renders
<1>5. QED
  BY <1>4, Rendering

(* The classes that show no path.                                          *)
LEMMA PathlessIsRendered ==
  ASSUME NEW class, NEW slots \in Slots, NEW fields,
         \/ class \in PatternClass /\ fields = {"field"}
         \/ class \in {"max_files_exceeded", "names_count_mismatch"} /\ fields = IntKeys(class)
         \/ class \in {"no_transform_specified", "invalid_line_endings"} /\ fields = {}
  PROVE  Rendered(OutcomeOf(class, slots, fields))
<1> DEFINE outcome == OutcomeOf(class, slots, fields)
<1>1. class # "internal_error"
  BY DEF PatternClass
<1>2. KeyOf(outcome) = PathKey(outcome) /\ outcome.fields = fields /\ outcome.error = class
  BY <1>1, KeyOfOutcome
<1>3. PathKey(outcome) = "none"
  BY DEF PathKey, OutcomeOf, NeedsPrimarySrc, SourceClass, PatternClass
<1>4. fields \subseteq FieldKeys(class) /\ IntKeys(class) \subseteq fields
  BY DEF FieldKeys, IntKeys, PatternClass
<1>5. fields \in ContractKeys(class)
  BY DEF ContractKeys, FieldKeys, IntKeys, NeedsPrimarySrc, SourceClass, PatternClass
<1>6. Renders(outcome, outcome.fields \cup (IF KeyOf(outcome) = "none" THEN {} ELSE {KeyOf(outcome)}))
  BY <1>2, <1>3, <1>4, <1>5 DEF Renders
<1>7. QED
  BY <1>6, Rendering

-----------------------------------------------------------------------------
LEMMA ClassifyInternalIsRendered ==
  ASSUME NEW error, Proper(error), NEW primary \in Path
  PROVE  Rendered(ClassifyInternal(error, primary))
<1> DEFINE slots == IF error.role # "none" THEN Only(error.role, error.path) ELSE Only("src", primary)
<1>1. slots \in Slots
  BY OnlyProperties DEF Proper, Error, Slot
<1>2. QED
  BY <1>1, InternalIsRendered DEF ClassifyInternal

LEMMA ClassifyStructuredIsRendered ==
  ASSUME NEW error, Proper(error), error.cause \in CountClass, NEW primary \in Path
  PROVE  Rendered(ClassifyStructured(error, primary))
<1>1. CASE ~error.detail
  BY <1>1, ClassifyInternalIsRendered DEF ClassifyStructured
<1>2. CASE error.detail /\ error.cause \in {"max_files_exceeded", "names_count_mismatch"}
  BY <1>2, NoSlotsProperties, PathlessIsRendered DEF ClassifyStructured
<1>3. CASE error.detail /\ error.cause \notin {"max_files_exceeded", "names_count_mismatch"}
  <2>1. error.cause \in NeedsPrimarySrc /\ error.role \in {"none", "src"}
    BY <1>3 DEF CountClass, NeedsPrimarySrc, Proper
  <2>2. /\ SlotsFromError(error, "src", primary) \in Slots
        /\ SlotsFromError(error, "src", primary)["src"] # NoPath
    BY <2>1, SlotsFromErrorProperties DEF Slot
  <2>3. QED
    BY <1>3, <2>1, <2>2, SourceIsRendered DEF ClassifyStructured
<1>4. QED
  BY <1>1, <1>2, <1>3

LEMMA ClassifyFromRulesIsRendered ==
  ASSUME NEW error, Proper(error), NEW primary \in Path,
         error.cause \in OwnClass \cup PathInput \cup BareInput \cup {"transform_skipped"}
  PROVE  Rendered(ClassifyFromRules(error, primary))
<1> DEFINE slots == SlotsFromError(error, FallbackSlot(error.cause), primary)
<1>1. FallbackSlot(error.cause) \in Slot \cup {"none"}
  BY DEF FallbackSlot, Slot
<1>2. slots \in Slots
  BY <1>1, SlotsFromErrorProperties
<1>3. CASE error.cause \notin OwnClass
  BY <1>2, <1>3, InternalIsRendered, InputIsRendered DEF ClassifyFromRules
<1>4. CASE error.cause \in SourceClass \cup {"no_blocks_found", "no_delimiter_match"}
  <2>1. error.cause \in NeedsPrimarySrc /\ error.role \in {"none", "src"}
    BY <1>4 DEF NeedsPrimarySrc, Proper
  <2>2. FallbackSlot(error.cause) = "src"
    BY <1>4 DEF FallbackSlot, SourceClass
  <2>3. slots["src"] # NoPath
    BY <1>1, <2>1, <2>2, SlotsFromErrorProperties DEF Slot
  <2>4. IntKeys(error.cause) = {}
    BY <1>4 DEF IntKeys, SourceClass
  <2>5. error.cause \in OwnClass
    BY <1>4 DEF OwnClass
  <2>6. QED
    BY <1>2, <2>1, <2>3, <2>4, <2>5, SourceIsRendered DEF ClassifyFromRules
<1>5. CASE error.cause = "source_fingerprint_mismatch"
  <2>1. error.role \in {"none", "output_path"} /\ FallbackSlot(error.cause) = "output_path"
    BY <1>5 DEF Proper, FallbackSlot
  <2>2. slots["output_path"] # NoPath
    BY <1>1, <2>1, SlotsFromErrorProperties DEF Slot
  <2>3. error.cause \in OwnClass
    BY <1>5 DEF OwnClass
  <2>4. QED
    BY <1>2, <1>5, <2>2, <2>3, OutputIsRendered DEF ClassifyFromRules
<1>6. CASE error.cause \in {"invalid_line_endings", "no_transform_specified"}
  <2>1. error.cause \in OwnClass
    BY <1>6 DEF OwnClass
  <2>2. QED
    BY <1>2, <1>6, <2>1, PathlessIsRendered DEF ClassifyFromRules
<1>7. QED
  BY <1>3, <1>4, <1>5, <1>6 DEF OwnClass

(* For any paths: a failure that the pipeline builds is rendered as the    *)
(* class it was given (FormatOperationErrorJSON succeeds), so the fallback *)
(* of OperationErrorPayload to write_failed is never taken for one.        *)
THEOREM FailuresAreRendered ==
  ASSUME NEW error, Proper(error), NEW primary \in Path
  PROVE  LET outcome == ClassifyOperationError(error, primary)
         IN OperationErrorPayload(outcome).error = outcome.error /\ outcome.error # "write_failed"
<1> DEFINE outcome == ClassifyOperationError(error, primary)
<1>1. CASE error.field # ""
  <2>1. outcome = OutcomeOf(error.cause, NoSlots, {"field"}) /\ error.cause \in PatternClass
    BY <1>1 DEF ClassifyOperationError, ClassifyPatternField, Proper
  <2>2. Rendered(outcome)
    BY <2>1, NoSlotsProperties, PathlessIsRendered
  <2>3. QED
    BY <2>1, <2>2 DEF Rendered, OutcomeOf, PatternClass
<1>2. CASE error.field = "" /\ error.cause = "destination_exists"
  <2> DEFINE path == IF error.path # NoPath THEN error.path ELSE primary
  <2>1. path \in Path /\ path # NoPath
    BY DEF Proper, Error
  <2>2. outcome = OutcomeOf("destination_exists", Only("dest", path), {})
    BY <1>2 DEF ClassifyOperationError, ClassifyDestinationExists
  <2>3. Only("dest", path) \in Slots /\ Only("dest", path)["dest"] # NoPath
    BY <2>1, OnlyProperties DEF Slot
  <2>4. Rendered(outcome)
    BY <2>2, <2>3, OutputIsRendered
  <2>5. QED
    BY <2>2, <2>4 DEF Rendered, OutcomeOf
<1>3. CASE error.field = "" /\ error.cause \in CountClass
  <2>1. outcome = ClassifyStructured(error, primary)
    BY <1>3 DEF ClassifyOperationError, CountClass
  <2>2. Rendered(outcome)
    BY <1>3, <2>1, ClassifyStructuredIsRendered
  <2>3. outcome.error \in CountClass \cup {"internal_error"}
    <3>1. CASE ~error.detail
      BY <2>1, <3>1 DEF ClassifyStructured, ClassifyInternal, OutcomeOf
    <3>2. CASE error.detail
      <4>1. outcome.error = error.cause
        BY <2>1, <3>2 DEF ClassifyStructured, OutcomeOf
      <4>2. QED
        BY <1>3, <4>1
    <3>3. QED
      BY <3>1, <3>2
  <2>4. QED
    BY <2>2, <2>3 DEF Rendered, CountClass
<1>4. CASE /\ error.field = ""
           /\ error.cause \in OwnClass \cup PathInput \cup BareInput \cup {"transform_skipped"}
  <2>1. outcome = ClassifyFromRules(error, primary)
    BY <1>4 DEF ClassifyOperationError, CountClass, OwnClass, SourceClass, PathInput, BareInput,
                PatternClass
  <2>2. Rendered(outcome)
    BY <1>4, <2>1, ClassifyFromRulesIsRendered
  <2>3. outcome.error \in OwnClass \cup {"internal_error", "invalid_input"}
    <3>1. outcome.error = IF error.cause \in OwnClass THEN error.cause
                          ELSE IF error.cause = "transform_skipped" THEN "internal_error"
                          ELSE "invalid_input"
      BY <2>1 DEF ClassifyFromRules, OutcomeOf
    <3>2. QED
      BY <3>1
  <2>4. QED
    BY <2>2, <2>3 DEF Rendered, OwnClass, SourceClass
<1>5. CASE /\ error.field = "" /\ error.cause # "destination_exists" /\ error.cause \notin CountClass
           /\ error.cause \notin OwnClass \cup PathInput \cup BareInput \cup {"transform_skipped"}
  <2>1. outcome = ClassifyInternal(error, primary)
    BY <1>5 DEF ClassifyOperationError
  <2>2. Rendered(outcome) /\ outcome.error = "internal_error"
    BY <2>1, ClassifyInternalIsRendered DEF ClassifyInternal, OutcomeOf
  <2>3. QED
    BY <2>2 DEF Rendered
<1>6. QED
  BY <1>1, <1>2, <1>3, <1>4, <1>5

-----------------------------------------------------------------------------
(* Nothing in it leads to another directory, or garbles a listing.         *)
Plain(text) == \A i \in DOMAIN text : text[i] \notin Control \cup Separator

(* What is trimmed is a text still.                                        *)
LEMMA TrimmedIsText ==
  ASSUME NEW text \in Text
  PROVE  TrimSpace(text) \in Text
<1> DEFINE kept == {i \in DOMAIN text : text[i] \notin Space}
           first == CHOOSE i \in kept : \A j \in kept : i <= j
           last == CHOOSE i \in kept : \A j \in kept : j <= i
<1>1. CASE kept = {}
  BY <1>1 DEF TrimSpace, Text
<1>2. CASE kept # {}
  <2>1. TrimSpace(text) = SubSeq(text, first, last)
    BY <1>2 DEF TrimSpace
  <2>2. \E i \in kept : \A j \in kept : i <= j
    <3>1. kept \subseteq Nat
      BY DEF Text
    <3> HIDE DEF kept
    <3> QED BY <1>2, <3>1, LeastNumber
  <2>3. first \in kept
    BY <2>2
  <2>4. \E i \in kept : \A j \in kept : j <= i
    <3> DEFINE after == {Len(text) - i : i \in kept}
    <3>1. kept \subseteq 1..Len(text) /\ Len(text) \in Nat
      BY DEF Text
    <3>2. after \subseteq Nat /\ after # {}
      BY <1>2, <3>1
    <3>3. PICK x \in after : \A y \in after : x <= y
      <4> HIDE DEF after
      <4> QED BY <3>2, LeastNumber
    <3>4. PICK i \in kept : x = Len(text) - i
      OBVIOUS
    <3>5. ASSUME NEW j \in kept
          PROVE  j <= i
      <4>1. Len(text) - j \in after
        OBVIOUS
      <4>2. x <= Len(text) - j
        BY <3>3, <4>1
      <4> QED BY <3>1, <3>4, <4>2
    <3> QED BY <3>5
  <2>5. last \in kept
    BY <2>4
  <2>6. first \in 1..Len(text) /\ last \in 1..Len(text)
    <3>1. kept \subseteq 1..Len(text)
      BY DEF Text
    <3> HIDE DEF kept, first, last
    <3> QED BY <2>3, <2>5, <3>1
  <2> HIDE DEF first, last
  <2>7. SubSeq(text, first, last) \in Seq(Word \cup Mark)
    BY <2>6 DEF Text
  <2> QED BY <2>1, <2>7 DEF Text
<1> QED BY <1>1, <1>2

(* An extension adds nothing that a name may not have.                     *)
LEMMA BasenameIsPlain ==
  ASSUME NEW fragment \in Text, NEW extension \in Text,
         ~ExtensionIsRefused(extension),
         Acceptable(TrimSpace(fragment))
  PROVE  Plain(Basename(fragment, extension))
<1> DEFINE text == TrimSpace(fragment)
<1>1. text \in Text
  BY TrimmedIsText
<1>2. Plain(text)
  BY DEF Acceptable, Plain
<1>3. Plain(extension)
  <2>1. CASE extension = << >>
    BY <2>1 DEF Plain
  <2>2. CASE extension # << >>
    <3>1. Len(extension) = 2 /\ extension[1] = "." /\ extension[2] \in Word
      BY <2>2 DEF ExtensionIsRefused, ValidExtension
    <3>2. "." \notin Control \cup Separator /\ Word \cap (Control \cup Separator) = {}
      BY WordAssumption DEF Mark, Control, Separator
    <3>3. DOMAIN extension = {1, 2}
      BY <3>1 DEF Text
    <3> QED BY <3>1, <3>2, <3>3 DEF Plain
  <2> QED BY <2>1, <2>2
<1>4. Plain(text \o extension)
  <2> SUFFICES ASSUME NEW i \in DOMAIN (text \o extension)
               PROVE  (text \o extension)[i] \notin Control \cup Separator
    BY DEF Plain
  <2> HIDE DEF text
  <2>1. CASE i \in DOMAIN text
    <3>1. (text \o extension)[i] = text[i]
      BY <1>1, <2>1 DEF Text
    <3> QED BY <1>2, <2>1, <3>1 DEF Plain
  <2>2. CASE i \notin DOMAIN text
    <3>1. i - Len(text) \in DOMAIN extension /\ (text \o extension)[i] = extension[i - Len(text)]
      BY <1>1, <2>2 DEF Text
    <3> QED BY <1>3, <3>1 DEF Plain
  <2> QED BY <2>1, <2>2
<1> QED BY <1>2, <1>4 DEF Basename

(* What applyExplicitNamesToSplitSections and the same of blocks return is *)
(* one name for each output; no two are the same, whatever spaces and      *)
(* extensions the caller left to be added or taken off; none leads out of  *)
(* the output directory, and none is a device's.                           *)
THEOREM AcceptedNamesArePlainAndDiffer ==
  ASSUME NEW fragments \in Seq(Text), NEW outputs \in Seq(Text), NEW extension \in Text,
         fragments # << >>,
         ~ExtensionIsRefused(extension),
         ApplyExplicitNames(fragments, outputs, extension).error = "none"
  PROVE  LET names == ApplyExplicitNames(fragments, outputs, extension).names
         IN /\ Len(names) = Len(outputs)
            /\ \A i \in DOMAIN names : Plain(names[i]) /\ ~IsReserved(names[i])
            /\ \A i, j \in DOMAIN names : names[i] = names[j] => i = j
<1> DEFINE names == [i \in DOMAIN fragments |-> Basename(fragments[i], extension)]
           ErrorAt(i) ==
             IF FragmentError(fragments[i], extension) # "none"
             THEN FragmentError(fragments[i], extension)
             ELSE IF \E j \in 1..(i - 1) : names[j] = names[i] THEN "duplicate_explicit_names"
             ELSE "none"
           failing == {i \in DOMAIN fragments : ErrorAt(i) # "none"}
<1>1. Len(fragments) = Len(outputs)
  BY DEF ApplyExplicitNames, Misnamed
<1>2. /\ ApplyExplicitNames(fragments, outputs, extension)
            = ApplyExplicitBasenames(fragments, extension)
      /\ ApplyExplicitBasenames(fragments, extension).error = "none"
  BY <1>1 DEF ApplyExplicitNames
<1>3. failing = {} /\ ApplyExplicitBasenames(fragments, extension) = Named(names)
  <2>1. CASE failing = {}
    BY <2>1 DEF ApplyExplicitBasenames
  <2>2. CASE failing # {}
    <3> DEFINE least == CHOOSE i \in failing : \A j \in failing : i <= j
    <3>1. ApplyExplicitBasenames(fragments, extension) = Misnamed(ErrorAt(least))
      BY <2>2 DEF ApplyExplicitBasenames
    <3>2. \E i \in failing : \A j \in failing : i <= j
      <4>1. failing \subseteq Nat
        OBVIOUS
      <4> HIDE DEF failing
      <4> QED BY <2>2, <4>1, LeastNumber
    <3>3. least \in failing
      BY <3>2
    <3>4. ErrorAt(least) # "none"
      BY <3>3
    <3> HIDE DEF ErrorAt, least
    <3> QED BY <1>2, <3>1, <3>4 DEF Misnamed
  <2> QED BY <2>1, <2>2
<1>4. ApplyExplicitNames(fragments, outputs, extension).names = names
  BY <1>2, <1>3 DEF Named
<1>5. \A i \in DOMAIN fragments :
        /\ FragmentError(fragments[i], extension) = "none"
        /\ \A j \in 1..(i - 1) : names[j] # names[i]
  BY <1>3
<1>6. Len(names) = Len(outputs) /\ DOMAIN names = DOMAIN fragments /\ DOMAIN fragments = 1..Len(fragments)
  BY <1>1
<1>7. ASSUME NEW i \in DOMAIN fragments
      PROVE  Plain(names[i]) /\ ~IsReserved(names[i])
  <2>1. fragments[i] \in Text
    OBVIOUS
  <2>2. Acceptable(TrimSpace(fragments[i])) /\ ~IsReserved(Basename(fragments[i], extension))
    BY <1>5 DEF FragmentError
  <2>3. Plain(Basename(fragments[i], extension))
    BY <2>1, <2>2, BasenameIsPlain
  <2> QED BY <2>2, <2>3
<1>8. ASSUME NEW i \in DOMAIN names, NEW j \in DOMAIN names, names[i] = names[j]
      PROVE  i = j
  <2> HIDE DEF names
  <2>1. i \in 1..Len(fragments) /\ j \in 1..Len(fragments)
    BY <1>6
  <2>2. ~(j < i) /\ ~(i < j)
    BY <1>5, <1>6, <1>8, <2>1
  <2> QED BY <2>1, <2>2
<1> HIDE DEF names
<1> QED BY <1>4, <1>6, <1>7, <1>8
-----------------------------------------------------------------------------
(* A branch of the schema takes what it is for, and no other one does.     *)
LEMMA BranchesAreApart ==
  ASSUME NEW a \in OperationErrorRegistry, NEW b \in OperationErrorRegistry,
         NEW class, class \in a.classes, class \in b.classes,
         NEW tool, tool \in a.tools, tool \in b.tools, a.keys = b.keys
  PROVE  a = b
  BY SMTT(60) DEF OperationErrorRegistry, Branch, Tool, FileOutputTool, SectionTool, SourceClass, PatternClass

LEMMA BranchTakes ==
  ASSUME NEW tool, NEW branch \in OperationErrorRegistry, tool \in branch.tools,
         NEW class \in branch.classes, class # "", NEW path
  PROVE  InCatalogue(tool, Payload(class, branch.keys, path))
<1> DEFINE payload == Payload(class, branch.keys, path)
           Takes(b) == tool \in b.tools /\ payload.error \in b.classes /\ payload.keys = b.keys
           accepting == {b \in OperationErrorRegistry : Takes(b)}
<1>1. payload.error = class /\ payload.keys = branch.keys
  BY DEF Payload
<1>2. accepting = {branch}
  BY <1>1, BranchesAreApart
<1>3. OneOf(accepting)
  BY <1>2 DEF OneOf
<1>4. InCatalogue(tool, payload) = OneOf(accepting)
  BY <1>1 DEF InCatalogue
<1>5. QED
  BY <1>3, <1>4

(* What a client may read: an answer that the tool advertises, and that is *)
(* rendered as the class of the failure.                                   *)
Shown(tool, outcome) ==
  /\ InCatalogue(tool, OperationErrorPayload(outcome))
  /\ OperationErrorPayload(outcome).error = outcome.error
  /\ outcome.error \notin {"", "write_failed"}
  /\ outcome.exit = ExitOf(outcome.error)

LEMMA RenderedKeys ==
  ASSUME NEW tool, NEW class, class \notin {"", "write_failed"}, NEW slots, NEW fields,
         NEW branch \in OperationErrorRegistry, tool \in branch.tools, class \in branch.classes,
         Rendered(OutcomeOf(class, slots, fields)),
         branch.keys = fields \cup (IF KeyOf(OutcomeOf(class, slots, fields)) = "none" THEN {}
                                    ELSE {KeyOf(OutcomeOf(class, slots, fields))})
  PROVE  Shown(tool, OutcomeOf(class, slots, fields))
<1> DEFINE outcome == OutcomeOf(class, slots, fields)
           payload == OperationErrorPayload(outcome)
<1>1. outcome.error = class /\ outcome.fields = fields /\ outcome.exit = ExitOf(class)
  BY DEF OutcomeOf
<1>2. payload.error = class
  BY <1>1 DEF Rendered
<1>3. \E path : payload = Payload(class, branch.keys, path)
  BY <1>1, <1>2 DEF OperationErrorPayload, KeyOf, WriteFailed, Payload
<1>4. InCatalogue(tool, payload)
  BY <1>3, BranchTakes
<1>5. QED
  BY <1>1, <1>2, <1>4 DEF Shown

-----------------------------------------------------------------------------
(* The classes, one after the other.                                       *)
LEMMA InputShown ==
  ASSUME NEW tool \in Tool, NEW slot \in Slot \cup {"none"}, NEW slots \in Slots,
         \A s \in Slot : slots[s] # NoPath <=> s = slot,
         slot = "dest" => tool = "extract",
         slot \in {"out_dir", "output_path"} => tool \in SectionTool
  PROVE  Shown(tool, OutcomeOf("invalid_input", slots, {}))
<1> DEFINE outcome == OutcomeOf("invalid_input", slots, {})
<1>1. KeyOf(outcome) = slot
  BY DEF KeyOf, OutcomeOf, PathKey, Filled, Slot, NeedsPrimarySrc, SourceClass
<1>2. Rendered(outcome)
  BY InputIsRendered
<1>3. \E branch \in OperationErrorRegistry :
         /\ tool \in branch.tools /\ "invalid_input" \in branch.classes
         /\ branch.keys = IF slot = "none" THEN {} ELSE {slot}
  BY DEF OperationErrorRegistry, Branch, Slot
<1>4. QED
  BY <1>1, <1>2, <1>3, RenderedKeys

LEMMA InternalShown ==
  ASSUME NEW tool \in Tool, NEW slot \in Slot \cup {"none"}, NEW slots \in Slots,
         \A s \in Slot : slots[s] # NoPath => s = slot,
         slot = "output_path" => tool \in FileOutputTool
  PROVE  Shown(tool, OutcomeOf("internal_error", slots, {}))
<1> DEFINE outcome == OutcomeOf("internal_error", slots, {})
<1>1. KeyOf(outcome) \in {"none", "src"} \cup ({slot} \cap {"output_path"})
  BY DEF KeyOf, OutcomeOf, PathKey, Filled, Slot, Slots, NeedsPrimarySrc, SourceClass, InternalSlots, Only, NoSlots
<1>2. Rendered(outcome)
  BY InternalIsRendered
<1>3. \E branch \in OperationErrorRegistry :
         /\ tool \in branch.tools /\ "internal_error" \in branch.classes
         /\ branch.keys = IF KeyOf(outcome) = "none" THEN {} ELSE {KeyOf(outcome)}
  BY <1>1 DEF OperationErrorRegistry, Branch, Slot
<1>4. QED
  BY <1>1, <1>2, <1>3, RenderedKeys

LEMMA SourceShown ==
  ASSUME NEW tool \in Tool, NEW class \in NeedsPrimarySrc, NEW slots \in Slots, slots["src"] # NoPath,
         class \in {"empty_range", "range_exceeds_file"} => tool = "extract",
         class = "no_delimiter_match" => tool = "split",
         class \in {"no_blocks_found", "unclosed_block"} => tool = "blocks"
  PROVE  Shown(tool, OutcomeOf(class, slots, IntKeys(class)))
<1> DEFINE outcome == OutcomeOf(class, slots, IntKeys(class))
<1>1. class \notin {"internal_error", "destination_exists", "source_fingerprint_mismatch",
                    "", "write_failed"}
  BY DEF NeedsPrimarySrc, SourceClass
<1>0. class # "internal_error"
  BY DEF NeedsPrimarySrc, SourceClass
<1>2. KeyOf(outcome) = PathKey(outcome) /\ outcome.error = class
  <2>1. QED
    BY <1>0, KeyOfOutcome
<1>3. PathKey(outcome) = "src"
  BY <1>1 DEF PathKey, OutcomeOf, Filled
<1>4. Rendered(outcome)
  BY SourceIsRendered
<1>5. \E branch \in OperationErrorRegistry :
         tool \in branch.tools /\ class \in branch.classes /\ branch.keys = IntKeys(class) \cup {"src"}
  BY DEF OperationErrorRegistry, Branch, IntKeys, NeedsPrimarySrc, SourceClass
<1>6. QED
  BY <1>1, <1>2, <1>3, <1>4, <1>5, RenderedKeys

LEMMA OutputShown ==
  ASSUME NEW tool \in FileOutputTool, NEW class, NEW slot, NEW slots \in Slots, slots[slot] # NoPath,
         \/ class = "destination_exists" /\ slot = "dest"
         \/ class = "source_fingerprint_mismatch" /\ slot = "output_path"
  PROVE  Shown(tool, OutcomeOf(class, slots, {}))
<1> DEFINE outcome == OutcomeOf(class, slots, {})
<1>1. KeyOf(outcome) = PathKey(outcome)
  BY KeyOfOutcome
<1>2. PathKey(outcome) = slot /\ slot # "none"
  <2>1. outcome.error = class /\ outcome.slots = slots
    BY DEF OutcomeOf
  <2> HIDE DEF outcome
  <2>2. CASE class = "destination_exists" /\ slot = "dest"
    BY <2>1, <2>2 DEF PathKey, Filled, NeedsPrimarySrc, SourceClass
  <2>3. CASE class = "source_fingerprint_mismatch" /\ slot = "output_path"
    BY <2>1, <2>3 DEF PathKey, Filled, NeedsPrimarySrc, SourceClass
  <2> QED BY <2>2, <2>3
<1>3. Rendered(outcome)
  BY OutputIsRendered
<1>4. \E branch \in OperationErrorRegistry :
         tool \in branch.tools /\ class \in branch.classes /\ branch.keys = {slot}
  BY DEF OperationErrorRegistry, Branch
<1>5. QED
  BY <1>1, <1>2, <1>3, <1>4, RenderedKeys

LEMMA PathlessShown ==
  ASSUME NEW tool \in Tool, NEW class, NEW slots \in Slots, NEW fields,
         \/ class \in PatternClass /\ fields = {"field"} /\ tool \in SectionTool
         \/ class \in {"max_files_exceeded", "names_count_mismatch"} /\ fields = IntKeys(class)
              /\ tool \in SectionTool
         \/ class \in {"no_transform_specified", "invalid_line_endings"} /\ fields = {}
              /\ tool = "transform"
  PROVE  Shown(tool, OutcomeOf(class, slots, fields))
<1> DEFINE outcome == OutcomeOf(class, slots, fields)
<1>0. class # "internal_error"
  BY DEF PatternClass
<1>1. class \notin {"internal_error", "", "write_failed"}
  BY DEF PatternClass
<1>2. KeyOf(outcome) = PathKey(outcome) /\ outcome.error = class
  <2>1. QED
    BY <1>0, KeyOfOutcome
<1>3. PathKey(outcome) = "none"
  BY DEF PathKey, OutcomeOf, NeedsPrimarySrc, SourceClass, PatternClass
<1>4. Rendered(outcome)
  BY PathlessIsRendered
<1>5. \E branch \in OperationErrorRegistry :
         tool \in branch.tools /\ class \in branch.classes /\ branch.keys = fields
  BY DEF OperationErrorRegistry, Branch, IntKeys, PatternClass
<1>6. QED
  BY <1>1, <1>2, <1>3, <1>4, <1>5, RenderedKeys

-----------------------------------------------------------------------------
(* The errors that the steps build.                                        *)
LEMMA BareShown ==
  ASSUME NEW tool \in Tool, NEW cause, NEW primary \in Path \cup {NoPath},
         \/ cause \in BareInput \cup {"reserved_name", "cancelled"}
         \/ cause \in {"max_files_exceeded", "names_count_mismatch"} /\ tool \in SectionTool
         \/ cause \in {"no_transform_specified", "invalid_line_endings"} /\ tool = "transform"
  PROVE  Shown(tool, ClassifyOperationError(Bare(cause), primary))
<1> DEFINE error == Bare(cause)
           outcome == ClassifyOperationError(error, primary)
<1>1. error.cause = cause /\ error.field = "" /\ error.role = "none" /\ error.path = NoPath
      /\ error.detail = TRUE
  BY DEF Bare
<1>2. CASE cause \in BareInput \cup {"reserved_name"}
  <2>1. outcome = OutcomeOf("invalid_input",
                            SlotsFromError(error, FallbackSlot(cause), primary), {})
    BY <1>1, <1>2 DEF ClassifyOperationError, ClassifyFromRules, BareInput, PatternClass, CountClass,
                     OwnClass, SourceClass, PathInput
  <2>2. SlotsFromError(error, FallbackSlot(cause), primary) \in {NoSlots, Only("src", primary)}
    BY <1>1, <1>2 DEF SlotsFromError, FallbackSlot, BareInput, PatternClass, SourceClass, PathInput
  <2>3. CASE SlotsFromError(error, FallbackSlot(cause), primary) = NoSlots \/ primary = NoPath
    <3> DEFINE slots == SlotsFromError(error, FallbackSlot(cause), primary)
    <3>1. slots \in Slots /\ \A s \in Slot : slots[s] = NoPath
      BY <2>2, <2>3, NoSlotsProperties, OnlyProperties DEF Slot
    <3>2. "none" \notin Slot
      BY DEF Slot
    <3> HIDE DEF slots
    <3>3. Shown(tool, OutcomeOf("invalid_input", slots, {}))
      BY <3>1, <3>2, InputShown
    <3> QED BY <2>1, <3>3 DEF slots
  <2>4. CASE SlotsFromError(error, FallbackSlot(cause), primary) = Only("src", primary) /\ primary # NoPath
    <3>1. Only("src", primary) \in Slots
          /\ \A s \in Slot : Only("src", primary)[s] # NoPath <=> s = "src"
      BY <2>4, OnlyProperties DEF Slot
    <3>2. Shown(tool, OutcomeOf("invalid_input", Only("src", primary), {}))
      BY <3>1, InputShown DEF Slot
    <3> QED BY <2>1, <2>4, <3>2
  <2> QED BY <2>2, <2>3, <2>4
<1>3. CASE cause = "cancelled"
  <2>1. outcome = OutcomeOf("internal_error", Only("src", primary), {})
    BY <1>1, <1>3 DEF ClassifyOperationError, ClassifyInternal, BareInput, PatternClass, CountClass,
                     OwnClass, SourceClass, PathInput
  <2>2. Only("src", primary) \in Slots /\ \A s \in Slot : Only("src", primary)[s] # NoPath => s = "src"
    BY OnlyProperties DEF Slot
  <2> QED BY <2>1, <2>2, InternalShown DEF Slot
<1>4. CASE cause \in {"max_files_exceeded", "names_count_mismatch"} /\ tool \in SectionTool
  <2>1. outcome = OutcomeOf(cause, NoSlots, IntKeys(cause))
    BY <1>1, <1>4 DEF ClassifyOperationError, ClassifyStructured, CountClass
  <2> QED BY <1>4, <2>1, NoSlotsProperties, PathlessShown
<1>5. CASE cause \in {"no_transform_specified", "invalid_line_endings"} /\ tool = "transform"
  <2>1. outcome = OutcomeOf(cause, NoSlots, {})
    BY <1>1, <1>5 DEF ClassifyOperationError, ClassifyFromRules, SlotsFromError, FallbackSlot, CountClass,
                     OwnClass, SourceClass, PathInput
  <2> QED BY <1>5, <2>1, NoSlotsProperties, PathlessShown
<1> QED BY <1>2, <1>3, <1>4, <1>5

(* An error that blames a path, whoever is asked for it.                   *)
Blames(error, cause, role, path) ==
  /\ error.cause = cause /\ error.field = "" /\ error.role = role /\ error.path = path
  /\ error.detail = TRUE
  /\ role # "none" /\ path # NoPath
  /\ Only(role, path) \in Slots
  /\ \A s \in Slot : Only(role, path)[s] # NoPath <=> s = role
  /\ \A fallback, primary : SlotsFromError(error, fallback, primary) = Only(role, path)

LEMMA BlamedProperties ==
  ASSUME NEW cause, NEW role \in Slot, NEW path \in Path
  PROVE  Blames(WithPathRole(role, path, Bare(cause)), cause, role, path)
<1> DEFINE error == WithPathRole(role, path, Bare(cause))
<1>1. /\ error.cause = cause /\ error.field = "" /\ error.role = role /\ error.path = path
      /\ error.detail = TRUE /\ role # "none" /\ path # NoPath
  BY DEF WithPathRole, Bare, Slot
<1>2. Only(role, path) \in Slots /\ \A s \in Slot : Only(role, path)[s] # NoPath <=> s = role
  <2>1. path \in Path \cup {NoPath}
    OBVIOUS
  <2>2. /\ Only(role, path) \in Slots
        /\ \A s \in Slot : Only(role, path)[s] = IF s = role THEN path ELSE NoPath
    BY <2>1, OnlyProperties
  <2> QED BY <1>1, <2>2
<1> HIDE DEF error
<1>3. \A fallback, primary : SlotsFromError(error, fallback, primary) = Only(role, path)
  BY <1>1 DEF SlotsFromError
<1>4. Blames(error, cause, role, path)
  BY <1>1, <1>2, <1>3 DEF Blames
<1> QED BY <1>4 DEF error

LEMMA BlamedInputShown ==
  ASSUME NEW tool \in Tool, NEW cause \in PathInput \cup BareInput, NEW role \in Slot,
         NEW path \in Path, NEW primary,
         role = "dest" => tool = "extract",
         role \in {"out_dir", "output_path"} => tool \in SectionTool
  PROVE  Shown(tool, ClassifyOperationError(WithPathRole(role, path, Bare(cause)), primary))
<1> DEFINE error == WithPathRole(role, path, Bare(cause))
<1>1. /\ error.cause = cause /\ error.field = ""
      /\ \A fallback : SlotsFromError(error, fallback, primary) = Only(role, path)
      /\ Only(role, path) \in Slots /\ \A s \in Slot : Only(role, path)[s] # NoPath <=> s = role
  <2>1. Blames(error, cause, role, path)
    BY BlamedProperties
  <2> QED BY <2>1 DEF Blames
<1> HIDE DEF error
<1>2. ClassifyOperationError(error, primary) = OutcomeOf("invalid_input", Only(role, path), {})
  BY <1>1 DEF ClassifyOperationError, ClassifyFromRules, BareInput, PatternClass, CountClass, OwnClass,
              SourceClass, PathInput
<1>3. Shown(tool, OutcomeOf("invalid_input", Only(role, path), {}))
  <2>1. role \in Slot \cup {"none"}
    OBVIOUS
  <2> QED BY <1>1, <2>1, InputShown
<1> QED BY <1>2, <1>3 DEF error

LEMMA BlamedInternalShown ==
  ASSUME NEW tool \in Tool, NEW role \in Slot, NEW path \in Path, NEW primary,
         role = "output_path" => tool \in FileOutputTool
  PROVE  Shown(tool, ClassifyOperationError(WithPathRole(role, path, Bare("io")), primary))
<1> DEFINE error == WithPathRole(role, path, Bare("io"))
<1>1. /\ error.cause = "io" /\ error.field = "" /\ error.role = role /\ error.path = path
      /\ role # "none"
      /\ Only(role, path) \in Slots /\ \A s \in Slot : Only(role, path)[s] # NoPath <=> s = role
  <2>1. Blames(error, "io", role, path)
    BY BlamedProperties
  <2> QED BY <2>1 DEF Blames
<1> HIDE DEF error
<1>2. ClassifyOperationError(error, primary) = OutcomeOf("internal_error", Only(role, path), {})
  BY <1>1 DEF ClassifyOperationError, ClassifyInternal, BareInput, PatternClass, CountClass, OwnClass,
              SourceClass, PathInput
<1>3. Shown(tool, OutcomeOf("internal_error", Only(role, path), {}))
  <2>1. role \in Slot \cup {"none"}
    OBVIOUS
  <2>2. \A s \in Slot : Only(role, path)[s] # NoPath => s = role
    BY <1>1
  <2> QED BY <1>1, <2>1, <2>2, InternalShown
<1> QED BY <1>2, <1>3 DEF error

(* An error about the source: it says so, or says nothing of a path.       *)
LEMMA SourceBlamedShown ==
  ASSUME NEW tool \in Tool, NEW cause \in NeedsPrimarySrc, NEW path \in Path,
         NEW error \in {WithPathRole("src", path, Bare(cause)), Bare(cause)},
         cause \in {"empty_range", "range_exceeds_file"} => tool = "extract",
         cause = "no_delimiter_match" => tool = "split",
         cause \in {"no_blocks_found", "unclosed_block"} => tool = "blocks"
  PROVE  Shown(tool, ClassifyOperationError(error, path))
<1> DEFINE slots == Only("src", path)
<1>0. "src" \in Slot /\ path \in Path \cup {NoPath} /\ path # NoPath
  BY DEF Slot
<1>1. slots \in Slots /\ slots["src"] # NoPath
  BY <1>0, OnlyProperties
<1>2. /\ error.cause = cause /\ error.field = "" /\ error.detail = TRUE
      /\ SlotsFromError(error, "src", path) = slots
  <2>1. CASE error = WithPathRole("src", path, Bare(cause))
    <3>1. Blames(error, cause, "src", path)
      BY <1>0, <2>1, BlamedProperties
    <3> QED BY <3>1 DEF Blames
  <2>2. CASE error = Bare(cause)
    BY <2>2 DEF Bare, SlotsFromError
  <2> QED BY <2>1, <2>2
<1> HIDE DEF slots
<1>3. ClassifyOperationError(error, path) = OutcomeOf(cause, slots, IntKeys(cause))
  <2>1. CASE cause \in CountClass
    <3>1. ClassifyOperationError(error, path) = ClassifyStructured(error, path)
      BY <1>2, <2>1 DEF ClassifyOperationError, CountClass
    <3>2. cause \notin {"max_files_exceeded", "names_count_mismatch"}
      BY DEF NeedsPrimarySrc, SourceClass
    <3> QED BY <1>2, <3>1, <3>2 DEF ClassifyStructured
  <2>2. CASE cause \notin CountClass
    <3>1. cause \in SourceClass \cup {"no_delimiter_match", "no_blocks_found"}
      BY <2>2 DEF NeedsPrimarySrc, CountClass
    <3>2. ClassifyOperationError(error, path) = ClassifyFromRules(error, path)
      BY <1>2, <2>2, <3>1 DEF ClassifyOperationError, OwnClass, SourceClass
    <3>3. FallbackSlot(cause) = "src" /\ cause \in OwnClass
      BY <3>1 DEF FallbackSlot, OwnClass, SourceClass
    <3>4. IntKeys(cause) = {}
      BY <3>1 DEF IntKeys, SourceClass
    <3> QED BY <1>2, <3>2, <3>3, <3>4 DEF ClassifyFromRules
  <2> QED BY <2>1, <2>2
<1> QED BY <1>1, <1>3, SourceShown

LEMMA MismatchShown ==
  ASSUME NEW tool \in FileOutputTool, NEW path \in Path, NEW primary
  PROVE  Shown(tool, ClassifyOperationError(
                       WithPathRole("output_path", path, Bare("source_fingerprint_mismatch")), primary))
<1> DEFINE error == WithPathRole("output_path", path, Bare("source_fingerprint_mismatch"))
           slots == Only("output_path", path)
<1>0. "output_path" \in Slot
  BY DEF Slot
<1>1. /\ error.cause = "source_fingerprint_mismatch" /\ error.field = ""
      /\ \A fallback : SlotsFromError(error, fallback, primary) = slots
      /\ slots \in Slots /\ slots["output_path"] # NoPath
  <2>1. Blames(error, "source_fingerprint_mismatch", "output_path", path)
    BY <1>0, BlamedProperties
  <2> QED BY <1>0, <2>1 DEF Blames
<1> HIDE DEF error, slots
<1>2. ClassifyOperationError(error, primary) = OutcomeOf("source_fingerprint_mismatch", slots, {})
  BY <1>1 DEF ClassifyOperationError, ClassifyFromRules, CountClass, OwnClass
<1>3. Shown(tool, OutcomeOf("source_fingerprint_mismatch", slots, {}))
  BY <1>1, OutputShown
<1> QED BY <1>2, <1>3 DEF error

LEMMA OccupiedShown ==
  ASSUME NEW tool \in FileOutputTool, NEW place \in Path, NEW primary
  PROVE  Shown(tool, ClassifyOperationError(DestinationExists(place), primary))
<1> DEFINE error == DestinationExists(place)
<1> DEFINE plain == Bare("destination_exists")
<1>0. place # NoPath
  OBVIOUS
<1>1. error.cause = "destination_exists" /\ error.field = "" /\ error.path = place
  <2>1. /\ plain.cause = "destination_exists" /\ plain.field = ""
        /\ "path" \in DOMAIN plain /\ "cause" \in DOMAIN plain /\ "field" \in DOMAIN plain
    BY DEF Bare
  <2>2. error = [plain EXCEPT !.path = place]
    BY DEF DestinationExists
  <2> HIDE DEF plain
  <2> QED BY <2>1, <2>2
<1>2. Only("dest", place) \in Slots /\ Only("dest", place)["dest"] # NoPath
  BY <1>0, OnlyProperties DEF Slot
<1> HIDE DEF error
<1>3. ClassifyOperationError(error, primary) = OutcomeOf("destination_exists", Only("dest", place), {})
  BY <1>0, <1>1 DEF ClassifyOperationError, ClassifyDestinationExists
<1>4. Shown(tool, OutcomeOf("destination_exists", Only("dest", place), {}))
  BY <1>2, OutputShown
<1> QED BY <1>3, <1>4 DEF error

LEMMA PatternShown ==
  ASSUME NEW tool \in SectionTool, NEW cause \in PatternClass,
         NEW field \in {"delimiter", "start_line", "end_line"}, NEW primary
  PROVE  Shown(tool, ClassifyOperationError(PatternFieldError(field, cause), primary))
<1>1. ClassifyOperationError(PatternFieldError(field, cause), primary)
        = OutcomeOf(cause, NoSlots, {"field"})
  BY DEF ClassifyOperationError, ClassifyPatternField, PatternFieldError, Bare
<1>2. tool \in Tool
  BY DEF Tool, SectionTool
<1> QED BY <1>1, <1>2, NoSlotsProperties, PathlessShown

(* An empty path is blamed on the argument, and there is none to name.     *)
LEMMA EmptyPathShown ==
  ASSUME NEW tool \in Tool, NEW role \in Slot, NEW primary
  PROVE  Shown(tool, ClassifyOperationError(WithPathRole(role, NoPath, Bare("empty_path")), primary))
<1> DEFINE error == WithPathRole(role, NoPath, Bare("empty_path"))
<1>1. error.cause = "empty_path" /\ error.field = "" /\ error.path = NoPath
  BY DEF WithPathRole, Bare
<1> HIDE DEF error
<1>2. ClassifyOperationError(error, primary) = OutcomeOf("invalid_input", NoSlots, {})
  BY <1>1 DEF ClassifyOperationError, ClassifyFromRules, SlotsFromError, FallbackSlot, BareInput,
              PatternClass, CountClass, OwnClass, SourceClass, PathInput
<1>3. Shown(tool, OutcomeOf("invalid_input", NoSlots, {}))
  <2>1. "none" \notin Slot
    BY DEF Slot
  <2> QED BY <2>1, NoSlotsProperties, InputShown
<1> QED BY <1>2, <1>3 DEF error
-----------------------------------------------------------------------------
(* The steps of a request.                                                 *)
Deed == {"check", "validate", "stat", "open", "scan", "extension", "names", "vacant", "mkdir", "publish",
         "transform", "skipped"}

Arguments == {"lines", "source", "out_dir", "max_files", "delimiter", "start_line", "end_line",
              "options", "endings"}

Part == Arguments \cup Place \cup CallParts \cup {"names"}

StepRecord == [do : Deed, on : Part]

LEMMA StepTyped == \A d \in Deed, p \in Part : Step(d, p) \in StepRecord
  BY DEF Step, StepRecord

Elements(steps) == {steps[i] : i \in DOMAIN steps}

LEMMA TupleElements ==
  /\ \A a : Elements(<<a>>) = {a}
  /\ \A a, b : Elements(<<a, b>>) = {a, b}
  /\ \A a, b, c : Elements(<<a, b, c>>) = {a, b, c}
  /\ \A a, b, c, d : Elements(<<a, b, c, d>>) = {a, b, c, d}
  /\ \A a, b, c, d, e : Elements(<<a, b, c, d, e>>) = {a, b, c, d, e}
  /\ \A a, b, c, d, e, f : Elements(<<a, b, c, d, e, f>>) = {a, b, c, d, e, f}
<1>1. ASSUME NEW a
      PROVE  Elements(<<a>>) = {a}
  <2>1. DOMAIN <<a>> = {1}
    OBVIOUS
  <2> QED BY <2>1 DEF Elements
<1>2. ASSUME NEW a, NEW b
      PROVE  Elements(<<a, b>>) = {a, b}
  <2>1. DOMAIN <<a, b>> = {1, 2}
    OBVIOUS
  <2> QED BY <2>1 DEF Elements
<1>3. ASSUME NEW a, NEW b, NEW c
      PROVE  Elements(<<a, b, c>>) = {a, b, c}
  <2>1. DOMAIN <<a, b, c>> = {1, 2, 3}
    OBVIOUS
  <2> QED BY <2>1 DEF Elements
<1>4. ASSUME NEW a, NEW b, NEW c, NEW d
      PROVE  Elements(<<a, b, c, d>>) = {a, b, c, d}
  <2>1. DOMAIN <<a, b, c, d>> = {1, 2, 3, 4}
    OBVIOUS
  <2> QED BY <2>1 DEF Elements
<1>5. ASSUME NEW a, NEW b, NEW c, NEW d, NEW e
      PROVE  Elements(<<a, b, c, d, e>>) = {a, b, c, d, e}
  <2>1. DOMAIN <<a, b, c, d, e>> = {1, 2, 3, 4, 5}
    OBVIOUS
  <2> QED BY <2>1 DEF Elements
<1>6. ASSUME NEW a, NEW b, NEW c, NEW d, NEW e, NEW f
      PROVE  Elements(<<a, b, c, d, e, f>>) = {a, b, c, d, e, f}
  <2>1. DOMAIN <<a, b, c, d, e, f>> = {1, 2, 3, 4, 5, 6}
    OBVIOUS
  <2> QED BY <2>1 DEF Elements
<1> QED BY <1>1, <1>2, <1>3, <1>4, <1>5, <1>6

LEMMA ElementsOfBoth ==
  ASSUME NEW X, NEW s \in Seq(X), NEW t \in Seq(X)
  PROVE  s \o t \in Seq(X) /\ Elements(s \o t) = Elements(s) \cup Elements(t)
<1>1. /\ Len(s \o t) = Len(s) + Len(t) /\ Len(s) \in Nat /\ Len(t) \in Nat
      /\ DOMAIN s = 1..Len(s) /\ DOMAIN t = 1..Len(t) /\ DOMAIN (s \o t) = 1..(Len(s) + Len(t))
      /\ \A i \in 1..Len(s) : (s \o t)[i] = s[i]
      /\ \A i \in 1..Len(t) : (s \o t)[Len(s) + i] = t[i]
  OBVIOUS
<1>2. ASSUME NEW i \in 1..(Len(s) + Len(t))
      PROVE  (s \o t)[i] \in Elements(s) \cup Elements(t)
  <2>1. CASE i \in 1..Len(s)
    BY <1>1, <2>1 DEF Elements
  <2>2. CASE i \notin 1..Len(s)
    <3>1. i - Len(s) \in 1..Len(t) /\ Len(s) + (i - Len(s)) = i
      BY <1>1, <2>2
    <3>2. (s \o t)[i] = t[i - Len(s)]
      BY <1>1, <3>1
    <3> QED BY <1>1, <3>1, <3>2 DEF Elements
  <2> QED BY <2>1, <2>2
<1>3. ASSUME NEW i \in 1..Len(s)
      PROVE  s[i] \in Elements(s \o t)
  BY <1>1 DEF Elements
<1>4. ASSUME NEW i \in 1..Len(t)
      PROVE  t[i] \in Elements(s \o t)
  <2>1. Len(s) + i \in DOMAIN (s \o t)
    BY <1>1
  <2> QED BY <1>1, <2>1 DEF Elements
<1>5. Elements(s \o t) = Elements(s) \cup Elements(t)
  BY <1>1, <1>2, <1>3, <1>4 DEF Elements
<1> QED BY <1>5

LEMMA ChecksElements ==
  ASSUME NEW parts \in Seq(Part)
  PROVE  Checks(parts) \in Seq(StepRecord) /\ Elements(Checks(parts)) = {Step("check", p) : p \in Elements(parts)}
<1>1. DOMAIN parts = 1..Len(parts) /\ Len(parts) \in Nat /\ \A i \in 1..Len(parts) : parts[i] \in Part
  OBVIOUS
<1>2. DOMAIN Checks(parts) = 1..Len(parts)
      /\ \A i \in 1..Len(parts) : Checks(parts)[i] = Step("check", parts[i])
  BY <1>1 DEF Checks
<1>3. \A i \in 1..Len(parts) : Step("check", parts[i]) \in StepRecord
  <2>1. "check" \in Deed
    BY DEF Deed
  <2> QED BY <1>1, <2>1, StepTyped
<1>4. Checks(parts) \in [1..Len(parts) -> StepRecord]
  BY <1>1, <1>3 DEF Checks
<1>5. Checks(parts) \in Seq(StepRecord)
  BY <1>1, <1>4
<1>6. Elements(Checks(parts)) = {Step("check", p) : p \in Elements(parts)}
  <2>1. ASSUME NEW i \in 1..Len(parts)
        PROVE  Checks(parts)[i] \in {Step("check", p) : p \in Elements(parts)}
    BY <1>1, <1>2 DEF Elements
  <2>2. ASSUME NEW i \in 1..Len(parts)
        PROVE  Step("check", parts[i]) \in Elements(Checks(parts))
    BY <1>1, <1>2 DEF Elements
  <2> QED BY <1>1, <1>2, <2>1, <2>2 DEF Elements
<1> QED BY <1>5, <1>6

(* What each front end looks at.                                           *)
FrontParts == Arguments \cup IF front = "cli" THEN {"call", "names"} ELSE {"decode", "context"}

(* A front end looks at the source, and of transform at the options.       *)
Looks(steps, tool) ==
  /\ steps \in Seq(StepRecord)
  /\ Elements(steps) \subseteq {Step("check", p) : p \in FrontParts}
  /\ Step("check", "source") \in Elements(steps)
  /\ tool = "transform" => Step("check", "options") \in Elements(steps)

LEMMA PartsAre ==
  /\ "lines" \in Part /\ "source" \in Part /\ "out_dir" \in Part /\ "max_files" \in Part
  /\ "delimiter" \in Part /\ "start_line" \in Part /\ "end_line" \in Part /\ "options" \in Part
  /\ "endings" \in Part /\ "names" \in Part /\ "first" \in Part /\ "second" \in Part
  /\ "call" \in Part /\ "decode" \in Part /\ "context" \in Part /\ "stdout" \in Part
  BY DEF Part, Arguments, Place, CallParts

LEMMA LooksAt ==
  ASSUME NEW before \in Seq(Part), Elements(before) \subseteq FrontParts,
         NEW parts \in Seq(Part), Elements(parts) \subseteq FrontParts, NEW tool,
         "source" \in Elements(parts), tool = "transform" => "options" \in Elements(parts)
  PROVE  Looks(Checks(before) \o Checks(parts), tool)
<1>1. Checks(before) \in Seq(StepRecord)
      /\ Elements(Checks(before)) = {Step("check", p) : p \in Elements(before)}
  BY ChecksElements
<1>2. Checks(parts) \in Seq(StepRecord)
      /\ Elements(Checks(parts)) = {Step("check", p) : p \in Elements(parts)}
  BY ChecksElements
<1>3. Checks(before) \o Checks(parts) \in Seq(StepRecord)
      /\ Elements(Checks(before) \o Checks(parts))
           = Elements(Checks(before)) \cup Elements(Checks(parts))
  BY <1>1, <1>2, ElementsOfBoth
<1> QED BY <1>1, <1>2, <1>3 DEF Looks

LEMMA CommandsLook ==
  ASSUME front = "cli"
  PROVE  /\ Looks(ExtractCommand, "extract") /\ Looks(SplitCommand, "split")
         /\ Looks(BlocksCommand, "blocks") /\ Looks(TransformCommand, "transform")
<1> DEFINE before == <<"call">>
<1>1. before \in Seq(Part) /\ Elements(before) \subseteq FrontParts
  <2>1. <<"call">> \in Seq(Part) /\ Elements(<<"call">>) = {"call"}
    BY TupleElements, PartsAre
  <2> QED BY <2>1 DEF FrontParts
<1> HIDE DEF before
<1>2. Looks(ExtractCommand, "extract")
  <2> DEFINE parts == <<"lines", "source", "out_dir">>
  <2>1. parts \in Seq(Part)
    BY PartsAre
  <2>2. Elements(parts) =
          {"lines", "source", "out_dir"}
    BY TupleElements
  <2> HIDE DEF parts
  <2>3. Elements(parts) \subseteq FrontParts
    BY <2>2 DEF FrontParts, Arguments
  <2>4. Looks(ParseFlags \o Checks(parts), "extract")
    <3>1. "source" \in Elements(parts) /\ ("extract" = "transform" => "options" \in Elements(parts))
      BY <2>2
    <3>2. Looks(Checks(before) \o Checks(parts), "extract")
      BY <1>1, <2>1, <2>3, <3>1, LooksAt
    <3> QED BY <3>2 DEF ParseFlags, before
  <2> QED BY <2>4 DEF ExtractCommand, parts
<1>3. Looks(SplitCommand, "split")
  <2> DEFINE parts == <<"max_files", "source", "out_dir", "delimiter", "names">>
  <2>1. parts \in Seq(Part)
    BY PartsAre
  <2>2. Elements(parts) =
          {"max_files", "source", "out_dir", "delimiter", "names"}
    BY TupleElements
  <2> HIDE DEF parts
  <2>3. Elements(parts) \subseteq FrontParts
    BY <2>2 DEF FrontParts, Arguments
  <2>4. Looks(ParseFlags \o Checks(parts), "split")
    <3>1. "source" \in Elements(parts) /\ ("split" = "transform" => "options" \in Elements(parts))
      BY <2>2
    <3>2. Looks(Checks(before) \o Checks(parts), "split")
      BY <1>1, <2>1, <2>3, <3>1, LooksAt
    <3> QED BY <3>2 DEF ParseFlags, before
  <2> QED BY <2>4 DEF SplitCommand, parts
<1>4. Looks(BlocksCommand, "blocks")
  <2> DEFINE parts == <<"max_files", "source", "out_dir", "start_line", "end_line", "names">>
  <2>1. parts \in Seq(Part)
    BY PartsAre
  <2>2. Elements(parts) =
          {"max_files", "source", "out_dir", "start_line", "end_line", "names"}
    BY TupleElements
  <2> HIDE DEF parts
  <2>3. Elements(parts) \subseteq FrontParts
    BY <2>2 DEF FrontParts, Arguments
  <2>4. Looks(ParseFlags \o Checks(parts), "blocks")
    <3>1. "source" \in Elements(parts) /\ ("blocks" = "transform" => "options" \in Elements(parts))
      BY <2>2
    <3>2. Looks(Checks(before) \o Checks(parts), "blocks")
      BY <1>1, <2>1, <2>3, <3>1, LooksAt
    <3> QED BY <3>2 DEF ParseFlags, before
  <2> QED BY <2>4 DEF BlocksCommand, parts
<1>5. Looks(TransformCommand, "transform")
  <2> DEFINE parts == <<"options", "source", "endings">>
  <2>1. parts \in Seq(Part)
    BY PartsAre
  <2>2. Elements(parts) =
          {"options", "source", "endings"}
    BY TupleElements
  <2> HIDE DEF parts
  <2>3. Elements(parts) \subseteq FrontParts
    BY <2>2 DEF FrontParts, Arguments
  <2>4. Looks(ParseFlags \o Checks(parts), "transform")
    <3>1. "source" \in Elements(parts) /\ ("transform" = "transform" => "options" \in Elements(parts))
      BY <2>2
    <3>2. Looks(Checks(before) \o Checks(parts), "transform")
      BY <1>1, <2>1, <2>3, <3>1, LooksAt
    <3> QED BY <3>2 DEF ParseFlags, before
  <2> QED BY <2>4 DEF TransformCommand, parts
<1> QED BY <1>2, <1>3, <1>4, <1>5

LEMMA ServerLooks ==
  ASSUME front # "cli"
  PROVE  /\ Looks(HandleExtract, "extract") /\ Looks(HandleSplit, "split")
         /\ Looks(HandleBlocks, "blocks") /\ Looks(HandleTransform, "transform")
<1> DEFINE before == <<"decode", "context">>
<1>1. before \in Seq(Part) /\ Elements(before) \subseteq FrontParts
  <2>1. <<"decode", "context">> \in Seq(Part)
        /\ Elements(<<"decode", "context">>) = {"decode", "context"}
    BY TupleElements, PartsAre
  <2> QED BY <2>1 DEF FrontParts
<1> HIDE DEF before
<1>2. Looks(HandleExtract, "extract")
  <2> DEFINE parts == <<"source", "out_dir", "lines">>
  <2>1. parts \in Seq(Part)
    BY PartsAre
  <2>2. Elements(parts) =
          {"source", "out_dir", "lines"}
    BY TupleElements
  <2> HIDE DEF parts
  <2>3. Elements(parts) \subseteq FrontParts
    BY <2>2 DEF FrontParts, Arguments
  <2>4. Looks(DecodeArguments \o Checks(parts), "extract")
    <3>1. "source" \in Elements(parts) /\ ("extract" = "transform" => "options" \in Elements(parts))
      BY <2>2
    <3>2. Looks(Checks(before) \o Checks(parts), "extract")
      BY <1>1, <2>1, <2>3, <3>1, LooksAt
    <3> QED BY <3>2 DEF DecodeArguments, before
  <2> QED BY <2>4 DEF HandleExtract, parts
<1>3. Looks(HandleSplit, "split")
  <2> DEFINE parts == <<"source", "out_dir", "delimiter", "max_files">>
  <2>1. parts \in Seq(Part)
    BY PartsAre
  <2>2. Elements(parts) =
          {"source", "out_dir", "delimiter", "max_files"}
    BY TupleElements
  <2> HIDE DEF parts
  <2>3. Elements(parts) \subseteq FrontParts
    BY <2>2 DEF FrontParts, Arguments
  <2>4. Looks(DecodeArguments \o Checks(parts), "split")
    <3>1. "source" \in Elements(parts) /\ ("split" = "transform" => "options" \in Elements(parts))
      BY <2>2
    <3>2. Looks(Checks(before) \o Checks(parts), "split")
      BY <1>1, <2>1, <2>3, <3>1, LooksAt
    <3> QED BY <3>2 DEF DecodeArguments, before
  <2> QED BY <2>4 DEF HandleSplit, parts
<1>4. Looks(HandleBlocks, "blocks")
  <2> DEFINE parts == <<"source", "out_dir", "start_line", "end_line", "max_files">>
  <2>1. parts \in Seq(Part)
    BY PartsAre
  <2>2. Elements(parts) =
          {"source", "out_dir", "start_line", "end_line", "max_files"}
    BY TupleElements
  <2> HIDE DEF parts
  <2>3. Elements(parts) \subseteq FrontParts
    BY <2>2 DEF FrontParts, Arguments
  <2>4. Looks(DecodeArguments \o Checks(parts), "blocks")
    <3>1. "source" \in Elements(parts) /\ ("blocks" = "transform" => "options" \in Elements(parts))
      BY <2>2
    <3>2. Looks(Checks(before) \o Checks(parts), "blocks")
      BY <1>1, <2>1, <2>3, <3>1, LooksAt
    <3> QED BY <3>2 DEF DecodeArguments, before
  <2> QED BY <2>4 DEF HandleBlocks, parts
<1>5. Looks(HandleTransform, "transform")
  <2> DEFINE parts == <<"endings", "options", "source">>
  <2>1. parts \in Seq(Part)
    BY PartsAre
  <2>2. Elements(parts) =
          {"endings", "options", "source"}
    BY TupleElements
  <2> HIDE DEF parts
  <2>3. Elements(parts) \subseteq FrontParts
    BY <2>2 DEF FrontParts, Arguments
  <2>4. Looks(DecodeArguments \o Checks(parts), "transform")
    <3>1. "source" \in Elements(parts) /\ ("transform" = "transform" => "options" \in Elements(parts))
      BY <2>2
    <3>2. Looks(Checks(before) \o Checks(parts), "transform")
      BY <1>1, <2>1, <2>3, <3>1, LooksAt
    <3> QED BY <3>2 DEF DecodeArguments, before
  <2> QED BY <2>4 DEF HandleTransform, parts
<1> QED BY <1>2, <1>3, <1>4, <1>5

LEMMA FrontLooks ==
  ASSUME NEW tool \in Tool
  PROVE  Looks(FrontSteps(tool), tool)
<1>1. CASE front = "cli"
  BY <1>1, CommandsLook DEF FrontSteps, Tool
<1>2. CASE front # "cli"
  BY <1>2, ServerLooks DEF FrontSteps, Tool
<1> QED BY <1>1, <1>2

(* What the pipeline of each tool does, whatever the order.                *)
Span == {"validate", "open", "vacant", "scan", "mkdir", "publish"}

PipelineDeeds(tool) ==
  CASE tool = "extract" -> Span
    [] tool = "split" -> Span \cup {"extension", "names"}
    [] tool = "blocks" -> Span \cup {"extension", "names"}
    [] tool = "transform" -> {"stat", "validate", "transform", "skipped"}

InPipeline(step, tool) ==
  /\ step \in StepRecord
  /\ step.do \in PipelineDeeds(tool)
  /\ step.on \in Place
  /\ tool = "transform" => step.on = "source"

LEMMA StepInPipeline ==
  ASSUME NEW tool \in Tool, NEW deed \in PipelineDeeds(tool), NEW place \in Place,
         tool = "transform" => place = "source"
  PROVE  InPipeline(Step(deed, place), tool)
<1>1. deed \in Deed /\ place \in Part
  BY DEF Deed, Part, PipelineDeeds, Span, Tool
<1> QED BY <1>1 DEF InPipeline, Step, StepRecord

LEMMA PipelineIs ==
  ASSUME NEW tool \in Tool, NEW preview \in BOOLEAN
  PROVE  /\ PipelineSteps(tool, preview) \in Seq(StepRecord)
         /\ \A step \in Elements(PipelineSteps(tool, preview)) : InPipeline(step, tool)
<1> DEFINE S == {step \in StepRecord : InPipeline(step, tool)}
<1>0. "source" \in Place /\ "out_dir" \in Place /\ "first" \in Place /\ "second" \in Place
  BY DEF Place
<1>1. CASE tool = "extract"
  <2>1. PipelineDeeds(tool) = Span
    BY <1>1 DEF PipelineDeeds
  <2>2. \A deed \in Span, place \in Place : Step(deed, place) \in S
    BY <1>1, <2>1, StepInPipeline DEF InPipeline
  <2> HIDE DEF S
  <2>3. /\ Step("validate", "source") \in S /\ Step("open", "source") \in S
        /\ Step("validate", "first") \in S /\ Step("vacant", "first") \in S
        /\ Step("scan", "source") \in S /\ Step("mkdir", "out_dir") \in S
        /\ Step("publish", "first") \in S
    BY <1>0, <2>2 DEF Span
  <2>4. ExtractSteps(preview) \in Seq(S)
    BY <2>3 DEF ExtractSteps
  <2>5. PipelineSteps(tool, preview) = ExtractSteps(preview)
    BY <1>1 DEF PipelineSteps
  <2>6. PipelineSteps(tool, preview) \in Seq(S)
    BY <2>4, <2>5
  <2> QED BY <2>6 DEF S, Elements
<1>2. CASE tool \in {"split", "blocks"}
  <2>1. PipelineDeeds(tool) = Span \cup {"extension", "names"}
    BY <1>2 DEF PipelineDeeds
  <2>2. \A deed \in Span \cup {"extension", "names"}, place \in Place : Step(deed, place) \in S
    BY <1>2, <2>1, StepInPipeline DEF InPipeline
  <2> HIDE DEF S
  <2>3. /\ Step("validate", "source") \in S /\ Step("open", "source") \in S
        /\ Step("validate", "out_dir") \in S /\ Step("extension", "source") \in S
        /\ Step("scan", "source") \in S /\ Step("names", "source") \in S
    BY <1>0, <2>2 DEF Span
  <2>4. /\ Step("validate", "first") \in S /\ Step("vacant", "first") \in S
        /\ Step("validate", "second") \in S /\ Step("vacant", "second") \in S
        /\ Step("mkdir", "out_dir") \in S
        /\ Step("publish", "first") \in S /\ Step("publish", "second") \in S
    BY <1>0, <2>2 DEF Span
  <2>5. PlanSteps \in Seq(S)
    BY <2>3 DEF PlanSteps
  <2>6. PreviewSteps \in Seq(S)
    BY <2>4 DEF PreviewSteps
  <2>7. WriteSteps \in Seq(S)
    BY <2>4 DEF WriteSteps
  <2>8. PipelineSteps(tool, preview) = PlanSteps \o (IF preview THEN PreviewSteps ELSE WriteSteps)
    BY <1>2 DEF PipelineSteps, SplitSteps, BlocksSteps
  <2>9. PipelineSteps(tool, preview) \in Seq(S)
    BY <2>5, <2>6, <2>7, <2>8
  <2> QED BY <2>9 DEF S, Elements
<1>3. CASE tool = "transform"
  <2>1. PipelineDeeds(tool) = {"stat", "validate", "transform", "skipped"}
    BY <1>3 DEF PipelineDeeds
  <2>2. \A deed \in PipelineDeeds(tool) : Step(deed, "source") \in S
    BY <1>0, <1>3, StepInPipeline DEF InPipeline
  <2> HIDE DEF S
  <2>3. /\ Step("stat", "source") \in S /\ Step("validate", "source") \in S
        /\ Step("transform", "source") \in S /\ Step("skipped", "source") \in S
    BY <2>1, <2>2
  <2>4. TransformSteps \in Seq(S)
    BY <2>3 DEF TransformSteps
  <2>5. PipelineSteps(tool, preview) = TransformSteps
    BY <1>3 DEF PipelineSteps
  <2>6. PipelineSteps(tool, preview) \in Seq(S)
    BY <2>4, <2>5
  <2> QED BY <2>6 DEF S, Elements
<1> QED BY <1>1, <1>2, <1>3 DEF Tool
-----------------------------------------------------------------------------
(* The causes that a helper may give.                                      *)
LEMMA ParsingErrors ==
  \A text : ParseCommaSeparatedNames(text).error \in {"none", "empty_names_entry"}
  BY DEF ParseCommaSeparatedNames, Named, Misnamed

LEMMA NamingErrors ==
  ASSUME NEW fragments, NEW outputs, NEW extension
  PROVE  ApplyExplicitNames(fragments, outputs, extension).error
           \in {"none", "names_count_mismatch", "invalid_explicit_name", "reserved_name",
                "duplicate_explicit_names"}
<1> DEFINE names == [i \in DOMAIN fragments |-> Basename(fragments[i], extension)]
           ErrorAt(i) ==
             IF FragmentError(fragments[i], extension) # "none"
             THEN FragmentError(fragments[i], extension)
             ELSE IF \E j \in 1..(i - 1) : names[j] = names[i] THEN "duplicate_explicit_names"
             ELSE "none"
           failing == {i \in DOMAIN fragments : ErrorAt(i) # "none"}
           least == CHOOSE i \in failing : \A j \in failing : i <= j
<1>1. ApplyExplicitBasenames(fragments, extension)
        = IF failing = {} THEN Named(names) ELSE Misnamed(ErrorAt(least))
  BY DEF ApplyExplicitBasenames
<1>2. \A i : ErrorAt(i) \in {"none", "invalid_explicit_name", "reserved_name", "duplicate_explicit_names"}
  BY DEF FragmentError
<1> HIDE DEF names, ErrorAt, failing, least
<1>3. ApplyExplicitBasenames(fragments, extension).error
        \in {"none", "invalid_explicit_name", "reserved_name", "duplicate_explicit_names"}
  BY <1>1, <1>2 DEF Named, Misnamed
<1> QED BY <1>3 DEF ApplyExplicitNames, Named, Misnamed

LEMMA ValidatingErrors ==
  ASSUME NEW where, NEW path, NEW root
  PROVE  ValidatePath(where, path, root)
           \in {"none", "control_chars_in_input", "reserved_name", "io", "path_traversal"}
<1>1. \A p : ResolveExisting(where, p).error \in {"none", "io"}
  BY DEF ResolveExisting, Resolved, Failed
<1>2. \A p : ResolveMissing(where, p, root).error \in {"none", "io"}
  BY <1>1 DEF ResolveMissing, Resolved, Failed
<1>3. ResolveCandidate(where, path, root).error \in {"none", "io"}
  BY <1>1, <1>2 DEF ResolveCandidate, Failed
<1> QED BY <1>3 DEF ValidatePath
-----------------------------------------------------------------------------
LEMMA WrongIs ==
  ASSUME NEW tool, NEW w \in Wrong(tool)
  PROVE  DOMAIN w \subseteq Parts(tool) /\ \A p \in DOMAIN w : w[p] \in Kinds(tool, p)
<1>1. PICK parts \in UNION {kSubset(n, Parts(tool)) : n \in 0..MaxWrong} :
        w \in {f \in [parts -> UNION {Kinds(tool, p) : p \in parts}] :
                 Possible(f) /\ \A p \in parts : f[p] \in Kinds(tool, p)}
  BY DEF Wrong
<1>2. parts \subseteq Parts(tool)
  BY DEF kSubset
<1> QED BY <1>1, <1>2

(* Where the pipeline begins, the front end has looked at the arguments.   *)
Begins(n, tool) ==
  /\ n \in 0..Len(Steps)
  /\ \A i \in 1..n : \E p \in FrontParts : Steps[i] = Step("check", p)
  /\ \E i \in 1..n : Steps[i] = Step("check", "source")
  /\ tool = "transform" => \E i \in 1..n : Steps[i] = Step("check", "options")
  /\ \A i \in (n + 1)..Len(Steps) :
       InPipeline(Steps[i], tool) \/ (front = "cli" /\ Steps[i] = Step("check", "stdout"))

LEMMA StepsAre ==
  ASSUME request \in Request
  PROVE  Steps \in Seq(StepRecord) /\ \E n \in Nat : Begins(n, request.tool)
<1> DEFINE tool == request.tool
           looks == FrontSteps(tool)
           works == PipelineSteps(tool, request.preview)
           prints == IF front = "cli" THEN Checks(<<"stdout">>) ELSE << >>
<1>1. tool \in Tool /\ request.preview \in BOOLEAN
  BY DEF Request, FileOutputTool, Tool
<1>2. Looks(looks, tool)
  BY <1>1, FrontLooks
<1>3. works \in Seq(StepRecord) /\ \A step \in Elements(works) : InPipeline(step, tool)
  BY <1>1, PipelineIs
<1>4. prints \in Seq(StepRecord)
      /\ \A step \in Elements(prints) : front = "cli" /\ step = Step("check", "stdout")
  <2>1. CASE front = "cli"
    <3>1. <<"stdout">> \in Seq(Part) /\ Elements(<<"stdout">>) = {"stdout"}
      BY PartsAre, TupleElements
    <3> QED BY <2>1, <3>1, ChecksElements
  <2>2. CASE front # "cli"
    BY <2>2 DEF Elements
  <2> QED BY <2>1, <2>2
<1>5. Steps = looks \o works \o prints
  BY DEF Steps
<1>6. looks \in Seq(StepRecord)
  BY <1>2 DEF Looks
<1> HIDE DEF looks, works, prints
<1>7. looks \o works \in Seq(StepRecord) /\ Steps \in Seq(StepRecord)
  BY <1>3, <1>4, <1>5, <1>6
<1> DEFINE n == Len(looks)
<1>8. /\ n \in Nat /\ Len(works) \in Nat /\ Len(prints) \in Nat
      /\ Len(Steps) = n + Len(works) + Len(prints)
      /\ \A i \in 1..n : Steps[i] = looks[i]
      /\ \A i \in 1..Len(works) : Steps[n + i] = works[i]
      /\ \A i \in 1..Len(prints) : Steps[n + Len(works) + i] = prints[i]
  BY <1>3, <1>4, <1>5, <1>6, <1>7
<1>9. /\ DOMAIN looks = 1..n /\ DOMAIN works = 1..Len(works) /\ DOMAIN prints = 1..Len(prints)
  BY <1>3, <1>4, <1>6
<1>10. \A i \in 1..n : \E p \in FrontParts : Steps[i] = Step("check", p)
  <2>1. \A i \in 1..n : looks[i] \in Elements(looks)
    BY <1>9 DEF Elements
  <2> QED BY <1>2, <1>8, <2>1 DEF Looks
<1>11. /\ \E i \in 1..n : Steps[i] = Step("check", "source")
       /\ tool = "transform" => \E i \in 1..n : Steps[i] = Step("check", "options")
  <2>1. \A step \in Elements(looks) : \E i \in 1..n : Steps[i] = step
    BY <1>8, <1>9 DEF Elements
  <2> QED BY <1>2, <2>1 DEF Looks
<1>12. ASSUME NEW i \in (n + 1)..Len(Steps)
       PROVE  InPipeline(Steps[i], tool) \/ (front = "cli" /\ Steps[i] = Step("check", "stdout"))
  <2>1. CASE i - n <= Len(works)
    <3>1. i - n \in 1..Len(works) /\ n + (i - n) = i
      BY <1>8, <2>1
    <3>2. Steps[i] = works[i - n]
      BY <1>8, <3>1
    <3>3. works[i - n] \in Elements(works)
      BY <1>9, <3>1 DEF Elements
    <3> QED BY <1>3, <3>2, <3>3
  <2>2. CASE i - n > Len(works)
    <3> DEFINE k == i - n - Len(works)
    <3>1. k \in 1..Len(prints) /\ n + Len(works) + k = i
      BY <1>8, <2>2
    <3> HIDE DEF k
    <3>2. Steps[i] = prints[k]
      BY <1>8, <3>1
    <3>3. prints[k] \in Elements(prints)
      BY <1>9, <3>1 DEF Elements
    <3> QED BY <1>4, <3>2, <3>3
  <2> QED BY <1>8, <2>1, <2>2
<1>13. n \in 0..Len(Steps)
  BY <1>8
<1>14. Begins(n, tool)
  BY <1>10, <1>11, <1>12, <1>13 DEF Begins
<1> QED BY <1>7, <1>8, <1>14

-----------------------------------------------------------------------------
(* The checks before the next step found nothing wrong.                    *)
Passed ==
  \A i \in 1..Len(Steps) : i < at /\ Steps[i].do = "check" => CheckError(Steps[i].on) = NoError

Sound ==
  /\ request \in Request
  /\ wrong \in Wrong(request.tool)
  /\ request.tool = "transform" => (request.edits = {} <=> "options" \in DOMAIN wrong)

LEMMA ChecksRefuse ==
  ASSUME Sound
  PROVE  /\ CheckError("source") = NoError => ~Is("source", "empty_path")
         /\ request.tool = "transform" /\ CheckError("options") = NoError => request.edits # {}
<1>1. ASSUME Is("source", "empty_path")
      PROVE  CheckError("source") # NoError
  <2>1. CheckError("source") = WithPathRole(RoleOf("source"), NoPath, Bare("empty_path"))
    BY <1>1 DEF CheckError, Is
  <2>2. WithPathRole(RoleOf("source"), NoPath, Bare("empty_path")).cause = "empty_path"
    BY DEF WithPathRole, Bare
  <2>3. NoError.cause = "none"
    BY DEF NoError, Bare
  <2> QED BY <2>1, <2>2, <2>3
<1>2. ASSUME request.tool = "transform", request.edits = {}
      PROVE  CheckError("options") # NoError
  <2>1. "options" \in DOMAIN wrong /\ wrong["options"] \in Kinds("transform", "options")
    BY <1>2, WrongIs DEF Sound
  <2>2. wrong["options"] = "no_transform_specified"
    BY <2>1 DEF Kinds, CallParts, PatternClass
  <2>3. CheckError("options") = Bare("no_transform_specified")
    BY <2>1, <2>2 DEF CheckError
  <2>4. Bare("no_transform_specified").cause = "no_transform_specified" /\ NoError.cause = "none"
    BY DEF NoError, Bare
  <2> QED BY <2>3, <2>4
<1> QED BY <1>1, <1>2

LEMMA BeforeThePipeline ==
  ASSUME Sound, Passed, at \in Nat \ {0}, NEW n \in Nat, Begins(n, request.tool), at > n
  PROVE  /\ ~Is("source", "empty_path")
         /\ request.tool = "transform" => request.edits # {}
<1>1. PICK i \in 1..n : Steps[i] = Step("check", "source")
  BY DEF Begins
<1>2. i \in 1..Len(Steps) /\ i < at
  BY DEF Begins
<1>3. CheckError("source") = NoError
  BY <1>1, <1>2 DEF Passed, Step
<1>4. ASSUME request.tool = "transform"
      PROVE  CheckError("options") = NoError
  <2>1. PICK j \in 1..n : Steps[j] = Step("check", "options")
    BY <1>4 DEF Begins
  <2>2. j \in 1..Len(Steps) /\ j < at
    BY DEF Begins
  <2> QED BY <2>1, <2>2 DEF Passed, Step
<1> QED BY <1>3, <1>4, ChecksRefuse

-----------------------------------------------------------------------------
(* The answer to a step that fails.                                        *)
Catalogued(f, answer) ==
  /\ \/ InCatalogue(request.tool, answer.payload)
     \/ f = "cli" /\ <<answer.payload.error, answer.payload.keys>> \in CallVariants
     \/ f = "mcp" /\ answer.payload = Payload("unexpected_argument", {"field"}, NoPath)
  /\ f = "cli" => answer.exit = DocumentedExit(answer.payload.error)
  /\ answer.payload.error = "write_failed" => f = "cli" /\ "stdout" \in DOMAIN wrong

AnswerTo(outcome) == Answer(OperationErrorPayload(outcome), outcome.exit)

LEMMA ShownIsCatalogued ==
  ASSUME NEW f, NEW outcome, Shown(request.tool, outcome)
  PROVE  Catalogued(f, AnswerTo(outcome))
<1>1. AnswerTo(outcome).payload = OperationErrorPayload(outcome)
      /\ AnswerTo(outcome).exit = ExitOf(outcome.error)
  BY DEF AnswerTo, Answer, Shown
<1>2. \A class : class # "" => ExitOf(class) = DocumentedExit(class)
  BY DEF ExitOf, DocumentedExit
<1> QED BY <1>1, <1>2 DEF Shown, Catalogued

(* A refusal that is written out where it is found.                        *)
LEMMA WrittenOutIsCatalogued ==
  ASSUME NEW class,
         \/ front = "cli" /\ class \in Kinds(request.tool, "call")
         \/ front = "mcp" /\ class \in Kinds(request.tool, "decode")
         \/ front = "cli" /\ class \in Kinds(request.tool, "stdout") /\ "stdout" \in DOMAIN wrong,
         request.tool \in Tool
  PROVE  Catalogued(front, AnswerTo(OutcomeOf(class, NoSlots, CallFields(class))))
<1> DEFINE fields == CallFields(class)
           outcome == OutcomeOf(class, NoSlots, fields)
<1>1. \/ front = "cli" /\ class \in {"unknown_command", "invalid_flag", "unexpected_argument",
                                     "missing_required_flag"}
      \/ front = "mcp" /\ class = "unexpected_argument"
      \/ front = "cli" /\ class = "write_failed" /\ "stdout" \in DOMAIN wrong
  BY DEF Kinds
<1>2. /\ class = "unknown_command" => fields = {"command"}
      /\ class = "invalid_flag" => fields = {"flag"}
      /\ class = "missing_required_flag" => fields = {"missing_flags"}
      /\ class = "unexpected_argument" => fields = {IF front = "cli" THEN "argument" ELSE "field"}
      /\ class = "write_failed" => fields = {}
  BY DEF CallFields
<1> HIDE DEF fields
<1>3. outcome.error = class /\ outcome.fields = fields /\ outcome.exit = ExitOf(class)
  BY DEF OutcomeOf
<1>4. class # "internal_error"
  BY <1>1
<1>5. PathKey(outcome) = "none"
  BY <1>1, <1>3 DEF PathKey, NeedsPrimarySrc, SourceClass
<1>6. OperationErrorPayload(outcome) \in {Payload(class, fields, NoPath), WriteFailed}
      /\ (Renders(outcome, fields) => OperationErrorPayload(outcome) = Payload(class, fields, NoPath))
  <2>1. KeyOf(outcome) = "none"
    BY <1>4, <1>5, KeyOfOutcome
  <2>2. fields \cup {} = fields
    OBVIOUS
  <2> QED BY <1>3, <2>1, <2>2 DEF OperationErrorPayload, KeyOf
<1>7. Renders(outcome, fields)
  <2> DEFINE keys == FieldKeys(class)
             all == ContractKeys(class)
  <2>a. /\ class = "unknown_command" => keys = {"command"}
        /\ class = "invalid_flag" => keys = {"flag"}
        /\ class = "missing_required_flag" => keys = {"missing_flags"}
        /\ class = "unexpected_argument" => keys = {"argument", "field"}
    BY DEF FieldKeys, PatternClass
  <2>b. /\ class \in {"unknown_command", "invalid_flag", "missing_required_flag"} => all = {keys}
        /\ class = "unexpected_argument" => all = {{"argument"}, {"field"}}
        /\ class = "write_failed" => all = {{}}
    BY DEF ContractKeys, NeedsPrimarySrc, SourceClass
  <2>c. class = "unexpected_argument" => fields \in {{"argument"}, {"field"}}
    BY <1>2
  <2> HIDE DEF keys, all
  <2>1. fields \subseteq keys
    BY <1>1, <1>2, <2>a, <2>c
  <2>2. IntKeys(class) = {}
    BY <1>1 DEF IntKeys
  <2>3. fields \in all
    <3>1. CASE class \in {"unknown_command", "invalid_flag", "missing_required_flag"}
      BY <1>2, <2>a, <2>b, <3>1
    <3>2. CASE class = "unexpected_argument"
      BY <2>b, <2>c, <3>2
    <3>3. CASE class = "write_failed"
      BY <1>2, <2>b, <3>3
    <3> QED BY <1>1, <3>1, <3>2, <3>3
  <2> QED BY <1>3, <2>1, <2>2, <2>3 DEF Renders, keys, all
<1>8. OperationErrorPayload(outcome) = Payload(class, fields, NoPath)
  BY <1>6, <1>7
<1>9. AnswerTo(outcome) = Answer(Payload(class, fields, NoPath), ExitOf(class))
  BY <1>3, <1>8 DEF AnswerTo
<1>10. ExitOf(class) = DocumentedExit(class)
  BY <1>1 DEF ExitOf, DocumentedExit
<1>11. class = "write_failed" => InCatalogue(request.tool, Payload(class, fields, NoPath))
  <2>1. Branch(Tool, {"write_failed", "internal_error"}, {}) \in OperationErrorRegistry
    BY DEF OperationErrorRegistry
  <2>2. LET branch == Branch(Tool, {"write_failed", "internal_error"}, {})
        IN branch.tools = Tool /\ "write_failed" \in branch.classes /\ branch.keys = {}
    BY DEF Branch
  <2> QED BY <1>2, <2>1, <2>2, BranchTakes
<1>12. Catalogued(front, Answer(Payload(class, fields, NoPath), ExitOf(class)))
  BY <1>1, <1>2, <1>10, <1>11 DEF Catalogued, Answer, Payload, CallVariants
<1> QED BY <1>9, <1>12 DEF fields
-----------------------------------------------------------------------------
LEMMA RolesAre ==
  ASSUME request.tool \in Tool, NEW place \in Place
  PROVE  /\ RoleOf(place) \in Slot
         /\ RoleOf("source") = "src"
         /\ RoleOf(place) = "dest" => request.tool = "extract"
         /\ RoleOf(place) \in {"out_dir", "output_path"} /\ place # "source" => request.tool # "extract"
         /\ RoleOf(place) \in {"out_dir", "output_path"} => place # "source"
  BY DEF RoleOf, Slot, Place

LEMMA ToolsAre ==
  /\ Tool = {"extract"} \cup SectionTool \cup {"transform"}
  /\ FileOutputTool = {"extract"} \cup SectionTool
  /\ SectionTool = {"split", "blocks"}
  BY DEF Tool, SectionTool, FileOutputTool

LEMMA FieldedShown ==
  ASSUME request.tool \in Tool, Sound, NEW p \in FrontParts \ {"call", "decode"},
         CheckError(p) # NoError
  PROVE  Shown(request.tool, ClassifyOperationError(CheckError(p), PrimaryPath(Step("check", p))))
<1> DEFINE tool == request.tool
           primary == PrimaryPath(Step("check", p))
<1>1. primary \in Path \cup {NoPath}
  BY RequestsAssumption DEF PrimaryPath, Place
<1>2. p \in DOMAIN wrong
  BY DEF CheckError
<1>3. wrong[p] \in Kinds(tool, p) /\ p \in Parts(tool)
  BY <1>2, WrongIs DEF Sound
<1> HIDE DEF primary
<1>4. CASE p \in {"source", "out_dir"}
  <2>1. CheckError(p) = WithPathRole(RoleOf(p), NoPath, Bare("empty_path"))
    BY <1>2, <1>4 DEF CheckError
  <2>2. RoleOf(p) \in Slot
    BY <1>4 DEF RoleOf, Slot
  <2>3. Shown(tool, ClassifyOperationError(WithPathRole(RoleOf(p), NoPath, Bare("empty_path")), primary))
    BY <2>2, EmptyPathShown
  <2> QED BY <2>1, <2>3 DEF primary
<1>5. CASE p \in {"delimiter", "start_line", "end_line"}
  <2>1. CheckError(p) = PatternFieldError(p, wrong[p])
    BY <1>2, <1>5 DEF CheckError
  <2>2. wrong[p] \in PatternClass
    BY <1>3, <1>5 DEF Kinds
  <2>3. tool \in SectionTool
    BY <1>3, <1>5 DEF Parts, CallParts, Tool, SectionTool
  <2>4. Shown(tool, ClassifyOperationError(PatternFieldError(p, wrong[p]), primary))
    BY <1>5, <2>2, <2>3, PatternShown
  <2> QED BY <2>1, <2>4 DEF primary
<1>6. CASE p = "names"
  <2> DEFINE cause == ParseCommaSeparatedNames(CommaSeparated(Names)).error
  <2>1. CheckError(p) = Bare(cause)
    BY <1>2, <1>6 DEF CheckError
  <2>2. cause \in {"none", "empty_names_entry"}
    BY ParsingErrors
  <2> HIDE DEF cause
  <2>3. cause = "empty_names_entry"
    BY <2>1, <2>2 DEF NoError
  <2>4. "empty_names_entry" \in BareInput
    BY DEF BareInput
  <2>5. Shown(tool, ClassifyOperationError(Bare("empty_names_entry"), primary))
    BY <1>1, <2>4, BareShown
  <2> QED BY <2>1, <2>3, <2>5 DEF primary
<1>7. CASE p \in {"lines", "max_files", "options", "endings", "context"}
  <2>1. CheckError(p) = Bare(wrong[p])
    BY <1>2, <1>7 DEF CheckError
  <2>2. /\ p = "lines" => wrong[p] = "line_range_parse"
        /\ p = "max_files" => wrong[p] = "max_files_at_least_one"
        /\ p = "options" => wrong[p] = "no_transform_specified"
        /\ p = "endings" => wrong[p] = "invalid_line_endings"
        /\ p = "context" => wrong[p] = "cancelled"
    BY <1>3 DEF Kinds
  <2>3. p \in {"options", "endings"} => tool = "transform"
    BY <1>3 DEF Parts, CallParts, Tool
  <2>4. \/ wrong[p] \in BareInput \cup {"reserved_name", "cancelled"}
        \/ wrong[p] \in {"no_transform_specified", "invalid_line_endings"} /\ tool = "transform"
    BY <1>7, <2>2, <2>3 DEF BareInput
  <2>5. Shown(tool, ClassifyOperationError(Bare(wrong[p]), primary))
    BY <1>1, <2>4, BareShown
  <2> QED BY <2>1, <2>5 DEF primary
<1>8. p \in {"source", "out_dir"} \cup {"delimiter", "start_line", "end_line"} \cup {"names"}
              \cup {"lines", "max_files", "options", "endings", "context"}
  BY DEF FrontParts, Arguments
<1> QED BY <1>4, <1>5, <1>6, <1>7, <1>8

(* A check that fails.                                                     *)
LEMMA CheckCatalogued ==
  ASSUME request.tool \in Tool, Sound, front \in FrontEnd,
         NEW p, p \in FrontParts \/ (front = "cli" /\ p = "stdout"),
         CheckError(p) # NoError
  PROVE  Catalogued(front, AnswerTo(OutcomeAt(Step("check", p))))
<1> DEFINE step == Step("check", p)
<1>1. step.do = "check" /\ step.on = p
  BY DEF Step
<1>2. p \in DOMAIN wrong
  BY DEF CheckError
<1>3. wrong[p] \in Kinds(request.tool, p)
  BY <1>2, WrongIs DEF Sound
<1>4. front = "cli" \/ front = "mcp"
  BY DEF FrontEnd
<1>5. CASE p \in {"call", "decode", "stdout"}
  <2>1. OutcomeAt(step) = OutcomeOf(wrong[p], NoSlots, CallFields(wrong[p]))
    BY <1>1, <1>5 DEF OutcomeAt
  <2>2. (p = "call" => front = "cli") /\ (p = "decode" => front = "mcp") /\ (p = "stdout" => front = "cli")
    BY <1>4, <1>5 DEF FrontParts, Arguments
  <2>3. Catalogued(front, AnswerTo(OutcomeOf(wrong[p], NoSlots, CallFields(wrong[p]))))
    BY <1>2, <1>3, <1>5, <2>2, WrittenOutIsCatalogued
  <2> QED BY <2>1, <2>3
<1>6. CASE p \notin {"call", "decode", "stdout"}
  <2>1. OutcomeAt(step) = ClassifyOperationError(CheckError(p), PrimaryPath(step))
    BY <1>1, <1>6 DEF OutcomeAt, ErrorOf
  <2>2. p \in FrontParts \ {"call", "decode"}
    BY <1>6
  <2>3. Shown(request.tool, ClassifyOperationError(CheckError(p), PrimaryPath(step)))
    BY <2>2, FieldedShown
  <2> QED BY <2>1, <2>3, ShownIsCatalogued
<1> QED BY <1>5, <1>6

-----------------------------------------------------------------------------
(* A step of the pipeline that fails.  The source is named by then.        *)
LEMMA ValidateShown ==
  ASSUME request.tool \in Tool, NEW place \in Place, request.tool = "transform" => place = "source",
         ValidateError(place) # NoError, NEW primary
  PROVE  Shown(request.tool, ClassifyOperationError(ValidateError(place), primary))
<1> DEFINE tool == request.tool
           cause == ValidatePath(tree, paths[place], Root)
<1>1. cause \in {"none", "control_chars_in_input", "reserved_name", "io", "path_traversal"}
  BY ValidatingErrors
<1>2. cause # "none" /\ ValidateError(place) = WithPathRole(RoleOf(place), place, Bare(cause))
  BY DEF ValidateError, Blaming
<1>3. place \in Path /\ RoleOf(place) \in Slot
  BY RequestsAssumption, RolesAre
<1>4. /\ RoleOf(place) = "dest" => tool = "extract"
      /\ RoleOf(place) \in {"out_dir", "output_path"} => tool \in SectionTool
  BY RolesAre, ToolsAre
<1>5. RoleOf(place) = "output_path" => tool \in FileOutputTool
  BY <1>4, ToolsAre
<1> HIDE DEF cause
<1>6. CASE cause = "io"
  BY <1>2, <1>3, <1>5, <1>6, BlamedInternalShown
<1>7. CASE cause \in {"control_chars_in_input", "reserved_name", "path_traversal"}
  <2>1. cause \in PathInput \cup BareInput
    BY <1>7 DEF PathInput, BareInput, PatternClass
  <2>2. Shown(tool, ClassifyOperationError(WithPathRole(RoleOf(place), place, Bare(cause)), primary))
    BY <1>3, <1>4, <2>1, BlamedInputShown
  <2> QED BY <1>2, <2>2
<1> QED BY <1>1, <1>2, <1>6, <1>7

LEMMA SourceIsBlamed ==
  ASSUME request.tool \in Tool, NEW cause,
         \/ cause \in SourceClass \cup {"io"}
         \/ cause \in {"empty_range", "range_exceeds_file"} /\ request.tool = "extract"
  PROVE  Shown(request.tool, ClassifyOperationError(Blaming("source", cause), "source"))
<1>1. Blaming("source", cause) = WithPathRole("src", "source", Bare(cause))
  BY DEF Blaming, RoleOf
<1>2. "src" \in Slot /\ "source" \in Path
  BY RequestsAssumption DEF Slot, Place
<1>3. CASE cause = "io"
  BY <1>1, <1>2, <1>3, BlamedInternalShown
<1>4. CASE cause # "io"
  <2>1. cause \in NeedsPrimarySrc /\ cause \notin {"no_delimiter_match", "no_blocks_found", "unclosed_block"}
        /\ (cause \in {"empty_range", "range_exceeds_file"} => request.tool = "extract")
    BY <1>4 DEF NeedsPrimarySrc, SourceClass
  <2>2. Shown(request.tool, ClassifyOperationError(WithPathRole("src", "source", Bare(cause)), "source"))
    BY <1>2, <2>1, SourceBlamedShown
  <2> QED BY <1>1, <2>2
<1> QED BY <1>3, <1>4

LEMMA ScanShown ==
  ASSUME request.tool \in FileOutputTool, Sound, ScanError # NoError
  PROVE  Shown(request.tool, ClassifyOperationError(ScanError, "source"))
<1> DEFINE tool == request.tool
           cause == wrong["scan"]
<1>1. "scan" \in DOMAIN wrong
  BY DEF ScanError
<1>2. cause \in Kinds(tool, "scan")
  BY <1>1, WrongIs DEF Sound
<1>3. Kinds(tool, "scan") = {"io"} \cup
        (CASE tool = "extract" -> {"empty_range", "range_exceeds_file"}
           [] tool = "split" -> {"no_delimiter_match", "max_files_exceeded"}
           [] tool = "blocks" -> {"no_blocks_found", "unclosed_block", "max_files_exceeded"})
  BY DEF Kinds
<1>4. tool \in {"extract", "split", "blocks"} /\ tool \in Tool
  BY DEF FileOutputTool, Tool
<1> HIDE DEF cause
<1>5. CASE tool = "extract"
  <2>1. ScanError = Blaming("source", cause)
    BY <1>1, <1>5 DEF ScanError, cause
  <2>2. cause \in {"io", "empty_range", "range_exceeds_file"}
    BY <1>2, <1>3, <1>5
  <2>3. Shown(tool, ClassifyOperationError(Blaming("source", cause), "source"))
    BY <1>4, <1>5, <2>2, SourceIsBlamed
  <2> QED BY <2>1, <2>3
<1>6. CASE tool \in {"split", "blocks"}
  <2>1. ScanError = Bare(cause)
    BY <1>1, <1>6 DEF ScanError, cause
  <2>2. /\ cause \in {"io", "no_delimiter_match", "max_files_exceeded", "no_blocks_found", "unclosed_block"}
        /\ cause = "no_delimiter_match" => tool = "split"
        /\ cause \in {"no_blocks_found", "unclosed_block"} => tool = "blocks"
    BY <1>2, <1>3, <1>6
  <2>3. CASE cause = "io"
    <3>1. ClassifyOperationError(Bare("io"), "source") = OutcomeOf("internal_error", Only("src", "source"), {})
      <4>1. Bare("io").cause = "io" /\ Bare("io").field = "" /\ Bare("io").role = "none"
        BY DEF Bare
      <4> QED BY <4>1 DEF ClassifyOperationError, ClassifyInternal, BareInput, PatternClass, CountClass,
                          OwnClass, SourceClass, PathInput
    <3>2. "src" \in Slot /\ "source" \in Path \cup {NoPath}
      BY RequestsAssumption DEF Slot, Place
    <3>3. Only("src", "source") \in Slots /\ \A s \in Slot : Only("src", "source")[s] # NoPath => s = "src"
      BY <3>2, OnlyProperties
    <3>4. Shown(tool, OutcomeOf("internal_error", Only("src", "source"), {}))
      <4>1. "src" \in Slot \cup {"none"}
        BY <3>2
      <4> QED BY <1>4, <3>3, <4>1, InternalShown
    <3> QED BY <2>1, <2>3, <3>1, <3>4
  <2>4. CASE cause = "max_files_exceeded"
    <3>1. tool \in SectionTool /\ "source" \in Path \cup {NoPath}
      BY <1>6, RequestsAssumption DEF SectionTool, Place
    <3> QED BY <1>4, <2>1, <2>4, <3>1, BareShown
  <2>5. CASE cause \in {"no_delimiter_match", "no_blocks_found", "unclosed_block"}
    <3>1. cause \in NeedsPrimarySrc /\ cause \notin {"empty_range", "range_exceeds_file"}
      BY <2>5 DEF NeedsPrimarySrc
    <3>2. "source" \in Path /\ Bare(cause) \in {WithPathRole("src", "source", Bare(cause)), Bare(cause)}
      BY RequestsAssumption DEF Place
    <3>3. Shown(tool, ClassifyOperationError(Bare(cause), "source"))
      BY <1>4, <2>2, <3>1, <3>2, SourceBlamedShown
    <3> QED BY <2>1, <3>3
  <2> QED BY <2>2, <2>3, <2>4, <2>5
<1> QED BY <1>4, <1>5, <1>6

LEMMA PublishShown ==
  ASSUME request.tool \in FileOutputTool, NEW place \in Place, PublishError(place) # NoError, NEW primary
  PROVE  Shown(request.tool, ClassifyOperationError(PublishError(place), primary))
<1> DEFINE tool == request.tool
<1>1. tool \in Tool /\ place \in Path /\ RoleOf(place) \in Slot /\ "output_path" \in Slot
  BY RequestsAssumption, RolesAre DEF FileOutputTool, Tool, Slot
<1>2. PublishError(place) \in
        {DestinationExists(place), WithPathRole(RoleOf(place), place, Bare("io")),
         WithPathRole("output_path", place, Bare("io")),
         WithPathRole("output_path", place, Bare("source_fingerprint_mismatch"))}
  BY DEF PublishError, Blaming
<1>3. Shown(tool, ClassifyOperationError(DestinationExists(place), primary))
  BY <1>1, OccupiedShown
<1>4. \A role \in Slot : Shown(tool, ClassifyOperationError(WithPathRole(role, place, Bare("io")), primary))
  BY <1>1, BlamedInternalShown
<1>5. Shown(tool, ClassifyOperationError(
                    WithPathRole("output_path", place, Bare("source_fingerprint_mismatch")), primary))
  BY <1>1, MismatchShown
<1> QED BY <1>1, <1>2, <1>3, <1>4, <1>5

LEMMA MkdirShown ==
  ASSUME request.tool \in FileOutputTool, MkdirError # NoError, NEW primary
  PROVE  Shown(request.tool, ClassifyOperationError(MkdirError, primary))
<1> DEFINE place == IF request.tool = "extract" THEN "first" ELSE "out_dir"
<1>1. MkdirError = WithPathRole(RoleOf(place), place, Bare("io"))
  BY DEF MkdirError, Blaming
<1>2. place \in Place
  BY DEF Place
<1>3. request.tool \in Tool /\ place \in Path /\ RoleOf(place) \in Slot
  BY <1>2, RequestsAssumption, RolesAre DEF FileOutputTool, Tool
<1> HIDE DEF place
<1>4. Shown(request.tool, ClassifyOperationError(WithPathRole(RoleOf(place), place, Bare("io")), primary))
  BY <1>3, BlamedInternalShown
<1> QED BY <1>1, <1>4

LEMMA NamesShown ==
  ASSUME request.tool \in SectionTool, NamesError # NoError
  PROVE  Shown(request.tool, ClassifyOperationError(NamesError, "source"))
<1>1. PICK fragments : NamesError = Bare(ApplyExplicitNames(fragments, Generated, Extension).error)
  BY DEF NamesError
<1> DEFINE cause == ApplyExplicitNames(fragments, Generated, Extension).error
<1>2. cause \in {"none", "names_count_mismatch", "invalid_explicit_name", "reserved_name",
                 "duplicate_explicit_names"}
  BY NamingErrors
<1> HIDE DEF cause
<1>3. cause # "none" /\ NamesError = Bare(cause)
  BY <1>1 DEF NoError, cause
<1>4. cause \in BareInput \cup {"reserved_name", "cancelled"} \/ cause = "names_count_mismatch"
  BY <1>2, <1>3 DEF BareInput
<1>5. request.tool \in Tool /\ "source" \in Path \cup {NoPath}
  BY RequestsAssumption DEF SectionTool, Tool, Place
<1>6. Shown(request.tool, ClassifyOperationError(Bare(cause), "source"))
  BY <1>4, <1>5, BareShown
<1> QED BY <1>3, <1>6
-----------------------------------------------------------------------------
LEMMA PipelineShown ==
  ASSUME Sound, request.tool \in Tool, front \in FrontEnd, NEW step, InPipeline(step, request.tool),
         ~Is("source", "empty_path"), ErrorOf(step) # NoError
  PROVE  Shown(request.tool, OutcomeAt(step))
<1> DEFINE tool == request.tool
<1>1. step.do \in PipelineDeeds(tool) /\ step.on \in Place /\ (tool = "transform" => step.on = "source")
  BY DEF InPipeline
<1>2. tool \in {"extract", "split", "blocks", "transform"}
  BY DEF Tool
<1>3. /\ step.do \in Span \cup {"extension", "names", "stat", "transform", "skipped"}
      /\ step.do \in {"extension", "names"} => tool \in SectionTool
      /\ step.do \in {"stat", "transform", "skipped"} => tool = "transform"
      /\ step.do \in {"open", "vacant", "scan", "mkdir", "publish"} => tool \in FileOutputTool
  BY <1>1, <1>2 DEF PipelineDeeds, Span, SectionTool, FileOutputTool
<1>4. step.do # "check"
  BY <1>3 DEF Span
<1>5. PrimaryPath(step) = "source"
  BY <1>4 DEF PrimaryPath
<1>6. OutcomeAt(step) = ClassifyOperationError(ErrorOf(step), "source")
  BY <1>4, <1>5 DEF OutcomeAt
<1>7. CASE step.do = "validate"
  <2>1. ErrorOf(step) = ValidateError(step.on)
    BY <1>7 DEF ErrorOf
  <2> QED BY <1>1, <1>6, <2>1, ValidateShown
<1>8. CASE step.do = "stat"
  <2>1. ErrorOf(step) = StatError
    BY <1>8 DEF ErrorOf
  <2>2. \E cause \in SourceClass : ErrorOf(step) = Blaming("source", cause)
    BY <2>1 DEF StatError, SourceClass
  <2> QED BY <1>6, <2>2, SourceIsBlamed
<1>9. CASE step.do = "open"
  <2>1. ErrorOf(step) = OpenError
    BY <1>9 DEF ErrorOf
  <2>2. \E cause \in SourceClass \cup {"io"} : ErrorOf(step) = Blaming("source", cause)
    BY <2>1 DEF OpenError, SourceClass
  <2> QED BY <1>6, <2>2, SourceIsBlamed
<1>10. CASE step.do = "scan"
  <2>1. ErrorOf(step) = ScanError
    BY <1>10 DEF ErrorOf
  <2> QED BY <1>3, <1>6, <1>10, <2>1, ScanShown
<1>11. CASE step.do = "extension"
  <2>1. ErrorOf(step) = ExtensionError
    BY <1>11 DEF ErrorOf
  <2>2. ErrorOf(step) = Bare("invalid_extension")
    BY <2>1 DEF ExtensionError
  <2>3. "invalid_extension" \in BareInput /\ "source" \in Path \cup {NoPath}
    BY RequestsAssumption DEF BareInput, Place
  <2>4. Shown(tool, ClassifyOperationError(Bare("invalid_extension"), "source"))
    BY <2>3, BareShown
  <2> QED BY <1>6, <2>2, <2>4
<1>12. CASE step.do = "names"
  <2>1. ErrorOf(step) = NamesError
    BY <1>12 DEF ErrorOf
  <2> QED BY <1>3, <1>6, <1>12, <2>1, NamesShown
<1>13. CASE step.do = "vacant"
  <2>1. ErrorOf(step) = VacantError(step.on)
    BY <1>13 DEF ErrorOf
  <2>2. ErrorOf(step) = DestinationExists(step.on)
    BY <2>1 DEF VacantError
  <2>3. step.on \in Path /\ tool \in FileOutputTool
    BY <1>1, <1>3, <1>13, RequestsAssumption
  <2> QED BY <1>6, <2>2, <2>3, OccupiedShown
<1>14. CASE step.do = "mkdir"
  <2>1. ErrorOf(step) = MkdirError
    BY <1>14 DEF ErrorOf
  <2> QED BY <1>3, <1>6, <1>14, <2>1, MkdirShown
<1>15. CASE step.do = "publish"
  <2>1. ErrorOf(step) = PublishError(step.on)
    BY <1>15 DEF ErrorOf
  <2> QED BY <1>1, <1>3, <1>6, <1>15, <2>1, PublishShown
<1>16. CASE step.do = "transform"
  <2>1. ErrorOf(step) = IF "transform" \in DOMAIN wrong THEN Blaming("source", "io") ELSE NoError
    BY <1>16 DEF ErrorOf
  <2>2. ErrorOf(step) = Blaming("source", "io")
    BY <2>1
  <2> QED BY <1>6, <2>2, SourceIsBlamed
<1>17. CASE step.do = "skipped"
  <2>1. ErrorOf(step) = IF Is("content", "binary_source") THEN Bare("binary_source") ELSE NoError
    BY <1>17 DEF ErrorOf
  <2>2. ErrorOf(step) = Bare("binary_source")
    BY <2>1
  <2>3. "binary_source" \in NeedsPrimarySrc /\ "source" \in Path
        /\ Bare("binary_source") \in {WithPathRole("src", "source", Bare("binary_source")), Bare("binary_source")}
    BY RequestsAssumption DEF NeedsPrimarySrc, SourceClass, Place
  <2>4. Shown(tool, ClassifyOperationError(Bare("binary_source"), "source"))
    BY <2>3, SourceBlamedShown
  <2> QED BY <1>6, <2>2, <2>4
<1> QED BY <1>3, <1>7, <1>8, <1>9, <1>10, <1>11, <1>12, <1>13, <1>14, <1>15, <1>16, <1>17 DEF Span

-----------------------------------------------------------------------------
(* What is said of a success.                                              *)
LEMMA OneVariant ==
  ASSUME NEW tool, NEW keys, NEW variant \in SuccessVariants(tool),
         \E r \in variant.requires : r \subseteq keys, keys \subseteq variant.allows,
         \A other \in SuccessVariants(tool) :
           (\E r \in other.requires : r \subseteq keys) /\ keys \subseteq other.allows => other = variant,
         NEW path
  PROVE  InCatalogue(tool, Payload("", keys, path))
<1> DEFINE payload == Payload("", keys, path)
           accepting == {v \in SuccessVariants(tool) :
                           /\ \E r \in v.requires : r \subseteq payload.keys
                           /\ payload.keys \subseteq v.allows}
<1>1. payload.error = "" /\ payload.keys = keys
  BY DEF Payload
<1>2. accepting = {variant}
  BY <1>1
<1>3. InCatalogue(tool, payload) = OneOf(accepting)
  BY <1>1 DEF InCatalogue
<1> QED BY <1>2, <1>3 DEF OneOf

LEMMA EditsAreSaid ==
  ASSUME request \in Request
  PROVE  TransformOutput = PrintedByTransform /\ request.edits \subseteq Edit
<1> DEFINE edits == request.edits
           Said(edit) == CASE edit = "line_endings" -> Counts
                           [] edit = "trim_trailing" -> {"trailing_trimmed"}
                           [] edit = "final_newline" -> {Newline}
           mode == {IF request.preview THEN "would_change" ELSE "changed"}
<1>1. edits \subseteq {"line_endings", "trim_trailing", "final_newline"} /\ edits \subseteq Edit
  BY DEF Request, Edit
<1>2. /\ Said("line_endings") = Counts
      /\ Said("trim_trailing") = {"trailing_trimmed"}
      /\ Said("final_newline") = {Newline}
  OBVIOUS
<1>3. TransformOutput = (UNION {Said(edit) : edit \in edits}) \cup mode
  BY DEF TransformOutput
<1>4. PrintedByTransform =
        mode \cup (IF "line_endings" \in edits THEN Said("line_endings") ELSE {})
             \cup (IF "trim_trailing" \in edits THEN Said("trim_trailing") ELSE {})
             \cup (IF "final_newline" \in edits THEN Said("final_newline") ELSE {})
  BY <1>2 DEF PrintedByTransform
<1> HIDE DEF Said, edits, mode
<1>5. UNION {Said(edit) : edit \in edits} =
        (IF "line_endings" \in edits THEN Said("line_endings") ELSE {})
          \cup (IF "trim_trailing" \in edits THEN Said("trim_trailing") ELSE {})
          \cup (IF "final_newline" \in edits THEN Said("final_newline") ELSE {})
  BY <1>1
<1> QED BY <1>1, <1>3, <1>4, <1>5 DEF edits

LEMMA VariantFields ==
  \A r, a : Variant(r, a).requires = r /\ Variant(r, a).allows = a
  BY DEF Variant

LEMMA ExactVariant ==
  ASSUME NEW tool, NEW sets, SuccessVariants(tool) = {Variant({keys}, keys) : keys \in sets},
         NEW keys \in sets, NEW path
  PROVE  InCatalogue(tool, Payload("", keys, path))
<1> DEFINE variant == Variant({keys}, keys)
<1>1. variant \in SuccessVariants(tool)
  OBVIOUS
<1>2. variant.requires = {keys} /\ variant.allows = keys
  BY VariantFields
<1>3. ASSUME NEW other \in SuccessVariants(tool),
             \E r \in other.requires : r \subseteq keys, keys \subseteq other.allows
      PROVE  other = variant
  <2>1. PICK k \in sets : other = Variant({k}, k)
    BY <1>3
  <2>2. other.requires = {k} /\ other.allows = k
    BY <2>1, VariantFields
  <2>3. k = keys
    BY <1>3, <2>2
  <2> QED BY <2>1, <2>3
<1>4. \E r \in variant.requires : r \subseteq keys
  BY <1>2
<1> HIDE DEF variant
<1> QED BY <1>1, <1>2, <1>3, <1>4, OneVariant

LEMMA ExtractSaid ==
  ASSUME NEW keys \in {{"lines_extracted"}, {"would_extract_lines", "would_create"}}
  PROVE  InCatalogue("extract", Payload("", keys, NoPath))
<1> DEFINE sets == {{"lines_extracted"}, {"would_extract_lines", "would_create"}}
<1>1. SuccessVariants("extract") = {Variant({k}, k) : k \in sets}
  BY DEF SuccessVariants
<1>2. keys \in sets
  OBVIOUS
<1> HIDE DEF sets
<1> QED BY <1>1, <1>2, ExactVariant

LEMMA SplitSaid ==
  ASSUME NEW keys \in {{"files_created"}, {"would_create"}}
  PROVE  InCatalogue("split", Payload("", keys, NoPath))
<1> DEFINE sets == {{"files_created"}, {"would_create"}}
<1>1. SuccessVariants("split") = {Variant({k}, k) : k \in sets}
  BY DEF SuccessVariants
<1>2. keys \in sets
  OBVIOUS
<1> HIDE DEF sets
<1> QED BY <1>1, <1>2, ExactVariant

LEMMA BlocksSaid ==
  ASSUME NEW files \in {"files_created", "would_create"},
         NEW keys, keys \in {{"content_blocks_found", files},
                             {"content_blocks_found", "empty_blocks_found", files}}
  PROVE  InCatalogue("blocks", Payload("", keys, NoPath))
<1> DEFINE Blocks(f) ==
             Variant({{"content_blocks_found", f}}, {"content_blocks_found", "empty_blocks_found", f})
           variant == Blocks(files)
<1>1. SuccessVariants("blocks") = {Blocks("files_created"), Blocks("would_create")}
  BY DEF SuccessVariants
<1>2. \A f : /\ Blocks(f).requires = {{"content_blocks_found", f}}
             /\ Blocks(f).allows = {"content_blocks_found", "empty_blocks_found", f}
  BY VariantFields
<1> HIDE DEF Blocks
<1>3. variant \in SuccessVariants("blocks")
  BY <1>1
<1>4. (\E r \in variant.requires : r \subseteq keys) /\ keys \subseteq variant.allows
  <2>1. {"content_blocks_found", files} \subseteq keys
    OBVIOUS
  <2>2. keys \subseteq {"content_blocks_found", "empty_blocks_found", files}
    OBVIOUS
  <2>3. {"content_blocks_found", files} \in variant.requires
    BY <1>2
  <2>4. variant.allows = {"content_blocks_found", "empty_blocks_found", files}
    BY <1>2
  <2> QED BY <2>1, <2>2, <2>3, <2>4
<1>5. ASSUME NEW other \in SuccessVariants("blocks"),
             \E r \in other.requires : r \subseteq keys, keys \subseteq other.allows
      PROVE  other = variant
  <2>1. PICK f \in {"files_created", "would_create"} : other = Blocks(f)
    BY <1>1
  <2>2. f \in keys
    BY <1>2, <1>5, <2>1
  <2>3. f = files
    BY <2>2
  <2> QED BY <2>1, <2>3
<1> HIDE DEF variant
<1> QED BY <1>3, <1>4, <1>5, OneVariant

(* Of the variants of transform, the ones with counts require all of them, *)
(* and the others allow none.                                              *)
LEMMA TransformSaid ==
  ASSUME NEW keys, NEW changed, NEW newline,
         \/ changed = "would_change" /\ newline = "final_newline_needed"
         \/ changed = "changed" /\ newline = "final_newline_added",
         changed \in keys,
         \/ Counts \subseteq keys /\ keys \subseteq {changed, newline, "trailing_trimmed"} \cup Counts
         \/ /\ keys \subseteq {changed, newline, "trailing_trimmed"}
            /\ newline \in keys \/ "trailing_trimmed" \in keys
  PROVE  InCatalogue("transform", Payload("", keys, NoPath))
<1> DEFINE Without(c, n) == Variant({{c, n}, {c, "trailing_trimmed"}}, {c, n, "trailing_trimmed"})
           With(c, n) == Variant({{c} \cup Counts}, {c, n, "trailing_trimmed"} \cup Counts)
           variant == IF Counts \subseteq keys THEN With(changed, newline)
                      ELSE Without(changed, newline)
           Accepts(v) == (\E r \in v.requires : r \subseteq keys) /\ keys \subseteq v.allows
<1>1. SuccessVariants("transform") =
        {Without("changed", "final_newline_added"), With("changed", "final_newline_added"),
         Without("would_change", "final_newline_needed"), With("would_change", "final_newline_needed")}
  BY DEF SuccessVariants, Counts
<1>2. \A c, n : /\ Without(c, n).requires = {{c, n}, {c, "trailing_trimmed"}}
                /\ Without(c, n).allows = {c, n, "trailing_trimmed"}
                /\ With(c, n).requires = {{c} \cup Counts}
                /\ With(c, n).allows = {c, n, "trailing_trimmed"} \cup Counts
  BY VariantFields
<1>3. /\ {"would_change", "changed", "final_newline_added", "final_newline_needed", "trailing_trimmed"}
           \cap Counts = {}
      /\ "endings_changed" \in Counts
  BY DEF Counts
<1> HIDE DEF Without, With
<1>4. \A c, n : /\ Accepts(Without(c, n)) <=> /\ {c, n} \subseteq keys \/ {c, "trailing_trimmed"} \subseteq keys
                                              /\ keys \subseteq {c, n, "trailing_trimmed"}
                /\ Accepts(With(c, n)) <=> /\ {c} \cup Counts \subseteq keys
                                           /\ keys \subseteq {c, n, "trailing_trimmed"} \cup Counts
  <2> TAKE c, n
  <2>1. (\E r \in Without(c, n).requires : r \subseteq keys)
          <=> {c, n} \subseteq keys \/ {c, "trailing_trimmed"} \subseteq keys
    <3> DEFINE one == {c, n}
               other == {c, "trailing_trimmed"}
    <3>1. Without(c, n).requires = {one, other}
      BY <1>2
    <3> HIDE DEF one, other
    <3>2. (\E r \in Without(c, n).requires : r \subseteq keys)
            <=> one \subseteq keys \/ other \subseteq keys
      BY <3>1
    <3> QED BY <3>2 DEF one, other
  <2>2. (\E r \in With(c, n).requires : r \subseteq keys) <=> {c} \cup Counts \subseteq keys
    <3>1. With(c, n).requires = {{c} \cup Counts}
      BY <1>2
    <3>2. \A S : (\E r \in {S} : r \subseteq keys) <=> S \subseteq keys
      OBVIOUS
    <3> QED BY <3>1, <3>2, Zenon
  <2> QED BY <1>2, <2>1, <2>2
<1> HIDE DEF Accepts
<1>5. variant \in SuccessVariants("transform")
  BY <1>1
<1>6. Accepts(variant)
  <2>1. CASE Counts \subseteq keys
    <3>1. keys \subseteq {changed, newline, "trailing_trimmed"} \cup Counts
      OBVIOUS
    <3>2. {changed} \cup Counts \subseteq keys
      BY <2>1
    <3>3. variant = With(changed, newline)
      BY <2>1
    <3> QED BY <1>4, <3>1, <3>2, <3>3
  <2>2. CASE ~(Counts \subseteq keys)
    <3>1. variant = Without(changed, newline)
      BY <2>2
    <3> QED BY <1>4, <2>2, <3>1
  <2> QED BY <2>1, <2>2
<1>7. \A c \in {"changed", "would_change"} : c \in keys => c = changed
  BY <1>3
<1>8. Counts \subseteq keys <=> "endings_changed" \in keys
  BY <1>3
<1>9. ASSUME NEW other \in SuccessVariants("transform"), Accepts(other)
      PROVE  other = variant
  <2>1. PICK c, n : /\ other = Without(c, n) \/ other = With(c, n)
                    /\ \/ c = "changed" /\ n = "final_newline_added"
                       \/ c = "would_change" /\ n = "final_newline_needed"
    BY <1>1
  <2>2. c \in keys
    BY <1>4, <1>9, <2>1
  <2>3. c = changed /\ n = newline
    BY <1>7, <2>1, <2>2
  <2>4. CASE other = Without(c, n)
    <3>1. keys \subseteq {c, n, "trailing_trimmed"}
      BY <1>4, <1>9, <2>4
    <3>2. "endings_changed" \notin keys
      BY <2>1, <3>1
    <3> QED BY <1>8, <2>3, <2>4, <3>2
  <2>5. CASE other = With(c, n)
    <3>1. Counts \subseteq keys
      BY <1>4, <1>9, <2>5
    <3> QED BY <2>3, <2>5, <3>1
  <2> QED BY <2>1, <2>4, <2>5
<1> HIDE DEF variant
<1>10. \E r \in variant.requires : r \subseteq keys
  BY <1>6 DEF Accepts
<1>11. keys \subseteq variant.allows
  BY <1>6 DEF Accepts
<1>12. \A other \in SuccessVariants("transform") :
         (\E r \in other.requires : r \subseteq keys) /\ keys \subseteq other.allows => other = variant
  BY <1>9 DEF Accepts
<1> QED BY <1>5, <1>10, <1>11, <1>12, OneVariant

LEMMA SuccessIsCatalogued ==
  ASSUME Sound, front \in FrontEnd, request.tool = "transform" => request.edits # {}
  PROVE  Catalogued(front, Success)
<1> DEFINE tool == request.tool
           keys == IF front = "cli" THEN CommandLineResult ELSE ServerResult
<1>1. request \in Request /\ request.preview \in BOOLEAN /\ tool \in {"extract", "split", "blocks", "transform"}
  BY DEF Sound, Request, FileOutputTool
<1>2. ASSUME tool = "extract"
      PROVE  InCatalogue("extract", Payload("", keys, NoPath))
  <2>1. keys \in {{"lines_extracted"}, {"would_extract_lines", "would_create"}}
    BY <1>1, <1>2 DEF CommandLineResult, ServerResult, PrintedByExtract
  <2> HIDE DEF keys
  <2> QED BY <2>1, ExtractSaid
<1>3. ASSUME tool = "split"
      PROVE  InCatalogue("split", Payload("", keys, NoPath))
  <2>1. keys \in {{"files_created"}, {"would_create"}}
    BY <1>1, <1>3 DEF CommandLineResult, ServerResult, Files
  <2> HIDE DEF keys
  <2> QED BY <2>1, SplitSaid
<1>4. ASSUME tool = "blocks"
      PROVE  InCatalogue("blocks", Payload("", keys, NoPath))
  <2> DEFINE files == IF request.preview THEN "would_create" ELSE "files_created"
  <2>1. Files = {files}
    BY DEF Files
  <2>2. keys = PrintedByBlocks \/ keys = Files \cup {"content_blocks_found"}
          \cup {key \in {"empty_blocks_found"} : Is("markers", "empty_block")}
    BY <1>4 DEF CommandLineResult, ServerResult
  <2>3. files \in {"files_created", "would_create"}
    OBVIOUS
  <2> HIDE DEF files, keys
  <2>4. keys \in {{"content_blocks_found", files}, {"content_blocks_found", "empty_blocks_found", files}}
    <3>1. CASE Is("markers", "empty_block")
      <4>1. PrintedByBlocks = {"content_blocks_found", "empty_blocks_found", files}
        BY <2>1, <3>1 DEF PrintedByBlocks
      <4>2. {key \in {"empty_blocks_found"} : Is("markers", "empty_block")} = {"empty_blocks_found"}
        BY <3>1
      <4> QED BY <2>1, <2>2, <4>1, <4>2
    <3>2. CASE ~Is("markers", "empty_block")
      <4>1. PrintedByBlocks = {"content_blocks_found", files}
        BY <2>1, <3>2 DEF PrintedByBlocks
      <4>2. {key \in {"empty_blocks_found"} : Is("markers", "empty_block")} = {}
        BY <3>2
      <4> QED BY <2>1, <2>2, <4>1, <4>2
    <3> QED BY <3>1, <3>2
  <2> QED BY <2>3, <2>4, BlocksSaid
<1>5. ASSUME tool = "transform"
      PROVE  InCatalogue("transform", Payload("", keys, NoPath))
  <2> DEFINE changed == IF request.preview THEN "would_change" ELSE "changed"
             edits == request.edits
  <2>1. TransformOutput = PrintedByTransform /\ edits \subseteq Edit
    BY <1>1, EditsAreSaid
  <2>2. edits # {}
    BY <1>5
  <2>3. keys = PrintedByTransform
    BY <1>5, <2>1 DEF CommandLineResult, ServerResult
  <2>4. keys = {changed} \cup (IF "line_endings" \in edits THEN Counts ELSE {})
                         \cup (IF "trim_trailing" \in edits THEN {"trailing_trimmed"} ELSE {})
                         \cup (IF "final_newline" \in edits THEN {Newline} ELSE {})
    BY <2>3 DEF PrintedByTransform
  <2>5. "line_endings" \in edits \/ "trim_trailing" \in edits \/ "final_newline" \in edits
    BY <2>1, <2>2 DEF Edit
  <2>6. \/ changed = "would_change" /\ Newline = "final_newline_needed"
        \/ changed = "changed" /\ Newline = "final_newline_added"
    BY DEF Newline
  <2> HIDE DEF changed, edits, keys
  <2>7. changed \in keys
    BY <2>4
  <2>8. \/ Counts \subseteq keys /\ keys \subseteq {changed, Newline, "trailing_trimmed"} \cup Counts
        \/ /\ keys \subseteq {changed, Newline, "trailing_trimmed"}
           /\ Newline \in keys \/ "trailing_trimmed" \in keys
    <3>1. CASE "line_endings" \in edits
      BY <2>4, <3>1
    <3>2. CASE "line_endings" \notin edits
      <4>1. keys \subseteq {changed, Newline, "trailing_trimmed"}
        BY <2>4, <3>2
      <4>2. Newline \in keys \/ "trailing_trimmed" \in keys
        BY <2>4, <2>5, <3>2
      <4> QED BY <4>1, <4>2
    <3> QED BY <3>1, <3>2
  <2> QED BY <2>6, <2>7, <2>8, TransformSaid
<1>6. InCatalogue(tool, Payload("", keys, NoPath))
  BY <1>1, <1>2, <1>3, <1>4, <1>5
<1>7. Success.payload = Payload("", keys, NoPath) /\ Success.exit = 0
  BY DEF Success, Answer
<1>8. Success.payload.error = ""
  <2>1. \A k : Payload("", k, NoPath).error = ""
    BY DEF Payload
  <2> HIDE DEF keys
  <2> QED BY <1>7, <2>1
<1>9. DocumentedExit("") = 0
  BY DEF DocumentedExit
<1> HIDE DEF keys
<1> QED BY <1>6, <1>7, <1>8, <1>9 DEF Catalogued
-----------------------------------------------------------------------------
(* What was answered is catalogued, and while a front end has the request  *)
(* the checks of the steps before the next one found nothing wrong: that   *)
(* is why a source with no path, or a transform with nothing to do, never  *)
(* gets to the pipeline, whose errors and results could not be shown.      *)
AnswersInv ==
  /\ Sound
  /\ front \in FrontEnd \cup {"nobody"}
  /\ at \in Nat \ {0}
  /\ Passed
  /\ DOMAIN answers = FrontEnd
  /\ \A f \in FrontEnd : answers[f] # NoAnswer => Catalogued(f, answers[f])

LEMMA AnswersInvInit == Init => AnswersInv
<1> SUFFICES ASSUME Init
             PROVE  AnswersInv
  OBVIOUS
<1>1. Sound
  BY RequestsAssumption DEF Init, Sound
<1>2. Passed
  <2>1. at = 1
    BY DEF Init
  <2> QED BY <2>1 DEF Passed
<1>3. front \in FrontEnd /\ at \in Nat \ {0}
  BY DEF Init, FrontEnd
<1>4. DOMAIN answers = FrontEnd /\ \A f \in FrontEnd : answers[f] = NoAnswer
  BY DEF Init
<1> QED BY <1>1, <1>2, <1>3, <1>4 DEF AnswersInv

LEMMA RefusalIsCatalogued ==
  ASSUME AnswersInv, front \in FrontEnd, at <= Len(Steps), Failing(Steps[at])
  PROVE  Catalogued(front, AnswerTo(OutcomeAt(Steps[at])))
<1> DEFINE step == Steps[at]
<1>1. Sound /\ Passed /\ at \in Nat \ {0} /\ request \in Request
  BY DEF AnswersInv, Sound
<1>2. request.tool \in Tool
  BY <1>1 DEF Request, FileOutputTool, Tool
<1>3. PICK n \in Nat : Begins(n, request.tool)
  BY <1>1, StepsAre
<1>4. ErrorOf(step) # NoError
  BY DEF Failing
<1>5. ASSUME NEW p, p \in FrontParts \/ (front = "cli" /\ p = "stdout"), step = Step("check", p)
      PROVE  Catalogued(front, AnswerTo(OutcomeAt(step)))
  <2>1. ErrorOf(step) = CheckError(p)
    BY <1>5 DEF ErrorOf, Step
  <2>2. CheckError(p) # NoError
    BY <1>4, <2>1
  <2> HIDE DEF step
  <2> QED BY <1>1, <1>2, <1>5, <2>2, CheckCatalogued
<1>6. CASE at <= n
  <2>1. PICK p \in FrontParts : step = Step("check", p)
    BY <1>1, <1>3, <1>6 DEF Begins
  <2> QED BY <1>5, <2>1
<1>7. CASE at > n
  <2>1. at \in (n + 1)..Len(Steps)
    BY <1>1, <1>3, <1>7 DEF Begins
  <2>2. InPipeline(step, request.tool) \/ (front = "cli" /\ step = Step("check", "stdout"))
    BY <1>3, <2>1 DEF Begins
  <2>3. ASSUME InPipeline(step, request.tool)
        PROVE  Catalogued(front, AnswerTo(OutcomeAt(step)))
    <3>1. ~Is("source", "empty_path")
      BY <1>1, <1>3, <1>7, BeforeThePipeline
    <3> HIDE DEF step
    <3>2. Shown(request.tool, OutcomeAt(step))
      BY <1>1, <1>2, <1>4, <2>3, <3>1, PipelineShown
    <3> QED BY <3>2, ShownIsCatalogued
  <2> QED BY <1>5, <2>2, <2>3
<1> QED BY <1>1, <1>3, <1>6, <1>7

LEMMA SuccessFollowsTheChecks ==
  ASSUME AnswersInv, front \in FrontEnd, at > Len(Steps)
  PROVE  Catalogued(front, Success)
<1>1. Sound /\ Passed /\ at \in Nat \ {0} /\ request \in Request
  BY DEF AnswersInv, Sound
<1>2. PICK n \in Nat : Begins(n, request.tool)
  BY <1>1, StepsAre
<1>3. at > n
  <2>1. Steps \in Seq(StepRecord)
    BY <1>1, StepsAre
  <2>2. Len(Steps) \in Nat /\ n <= Len(Steps)
    BY <1>2, <2>1 DEF Begins
  <2> QED BY <1>1, <2>2
<1>4. request.tool = "transform" => request.edits # {}
  BY <1>1, <1>2, <1>3, BeforeThePipeline
<1> QED BY <1>1, <1>4, SuccessIsCatalogued

LEMMA RepliesAreCatalogued ==
  ASSUME AnswersInv, front \in FrontEnd, NEW answer, Catalogued(front, answer), Reply(answer)
  PROVE  AnswersInv'
<1>1. /\ answers' = [answers EXCEPT ![front] = answer]
      /\ front' = (IF front = "cli" THEN "mcp" ELSE "nobody")
      /\ at' = 1
      /\ request' = request /\ wrong' = wrong
  BY DEF Reply
<1>2. Sound'
  BY <1>1 DEF AnswersInv, Sound
<1>3. Passed'
  BY <1>1 DEF Passed
<1>4. (DOMAIN answers)' = FrontEnd
  BY <1>1 DEF AnswersInv
<1>5. ASSUME NEW f \in FrontEnd, answers'[f] # NoAnswer
      PROVE  Catalogued(f, answers[f])'
  <2>1. answers'[f] = IF f = front THEN answer ELSE answers[f]
    BY <1>1 DEF AnswersInv
  <2>2. Catalogued(f, answers'[f])
    BY <1>5, <2>1 DEF AnswersInv
  <2> QED BY <1>1, <2>2 DEF Catalogued
<1>6. front' \in FrontEnd \cup {"nobody"} /\ at' \in Nat \ {0}
  BY <1>1 DEF FrontEnd
<1> QED BY <1>2, <1>3, <1>4, <1>5, <1>6 DEF AnswersInv

LEMMA ChecksStand ==
  ASSUME request' = request, wrong' = wrong, front' = front
  PROVE  Steps' = Steps /\ \A p : CheckError(p)' = CheckError(p)
<1>1. Steps' = Steps
  BY DEF Steps, FrontSteps
<1>2. ASSUME NEW p
      PROVE  CheckError(p)' = CheckError(p)
  BY DEF CheckError, RoleOf, Names
<1> QED BY <1>1, <1>2

LEMMA WorkIsCatalogued ==
  ASSUME AnswersInv, request' = request, wrong' = wrong, front' = front, answers' = answers,
         \/ at' = at
         \/ at' = at + 1 /\ at <= Len(Steps) /\ ~Failing(Steps[at])
  PROVE  AnswersInv'
<1>1. Sound'
  BY DEF AnswersInv, Sound
<1>2. Steps' = Steps /\ \A p : CheckError(p)' = CheckError(p)
  BY ChecksStand
<1>3. at \in Nat \ {0}
  BY DEF AnswersInv
<1>4. ASSUME NEW i \in 1..Len(Steps), i < at', Steps[i].do = "check"
      PROVE  CheckError(Steps[i].on) = NoError
  <2>1. CASE i < at
    BY <1>4, <2>1 DEF AnswersInv, Passed
  <2>2. CASE ~(i < at)
    <3>1. i = at /\ ~Failing(Steps[i])
      BY <1>3, <1>4, <2>2
    <3>2. ErrorOf(Steps[i]) = CheckError(Steps[i].on)
      BY <1>4 DEF ErrorOf
    <3> QED BY <3>1, <3>2 DEF Failing
  <2> QED BY <2>1, <2>2
<1>5. Passed'
  BY <1>2, <1>4 DEF Passed
<1>6. ASSUME NEW f \in FrontEnd, answers'[f] # NoAnswer
      PROVE  Catalogued(f, answers[f])'
  BY <1>6 DEF AnswersInv, Catalogued
<1>7. at' \in Nat \ {0} /\ front' \in FrontEnd \cup {"nobody"} /\ (DOMAIN answers)' = FrontEnd
  BY <1>3 DEF AnswersInv
<1> QED BY <1>1, <1>5, <1>6, <1>7 DEF AnswersInv

LEMMA AnswersInvStep == AnswersInv /\ [Next]_vars => AnswersInv'
<1> SUFFICES ASSUME AnswersInv, [Next]_vars
             PROVE  AnswersInv'
  OBVIOUS
<1>1. front # "nobody" => front \in FrontEnd
  BY DEF AnswersInv
<1>2. CASE Succeed
  BY <1>1, <1>2, SuccessFollowsTheChecks, RepliesAreCatalogued DEF Succeed
<1>3. CASE Refuse
  <2>1. front \in FrontEnd /\ at <= Len(Steps) /\ Failing(Steps[at])
        /\ Reply(AnswerTo(OutcomeAt(Steps[at])))
    BY <1>1, <1>3 DEF Refuse, AnswerTo
  <2>2. Catalogued(front, AnswerTo(OutcomeAt(Steps[at])))
    BY <2>1, RefusalIsCatalogued
  <2> QED BY <2>1, <2>2, RepliesAreCatalogued
<1>4. ASSUME NEW what, Doing(what)
      PROVE  AnswersInv'
  <2>1. /\ request' = request /\ wrong' = wrong /\ front' = front /\ answers' = answers
        /\ at' = at + 1 /\ at <= Len(Steps) /\ ~Failing(Steps[at])
    BY <1>4 DEF Doing
  <2> QED BY <2>1, WorkIsCatalogued
<1>5. CASE Look
  BY <1>4, <1>5 DEF Look
<1>6. CASE Validate
  BY <1>4, <1>6 DEF Validate
<1>7. CASE Mkdir
  BY <1>4, <1>7 DEF Mkdir
<1>8. CASE Publish
  BY <1>4, <1>8 DEF Publish
<1>9. CASE Transform
  BY <1>4, <1>9 DEF Transform
<1>10. CASE Relink
  BY <1>10, WorkIsCatalogued DEF Relink
<1>11. CASE Answered
  BY <1>11, WorkIsCatalogued DEF Answered, vars
<1>12. CASE UNCHANGED vars
  BY <1>12, WorkIsCatalogued DEF vars
<1> QED BY <1>2, <1>3, <1>5, <1>6, <1>7, <1>8, <1>9, <1>10, <1>11, <1>12 DEF Next

(* Whatever is requested and whatever is wrong with it, however many       *)
(* things at once, and whoever relinks the directory meanwhile: the answer *)
(* of the command line, and the one of the MCP server, is one that the     *)
(* outputSchema of the tool, or the contract of the command line, lists.   *)
THEOREM AnswersAreAdvertised == Spec => []EveryAnswerIsCatalogued
<1>1. AnswersInv => EveryAnswerIsCatalogued
  BY DEF AnswersInv, EveryAnswerIsCatalogued, Catalogued
<1> QED BY AnswersInvInit, AnswersInvStep, <1>1, PTL DEF Spec
-----------------------------------------------------------------------------
(* A link that is there is followed.                                       *)
Followed(where, to) == IF IsLink(where, to) THEN where[to].to ELSE to

(* Links lead along names of T.                                            *)
LinksAmong(where, T) == \A p \in DOMAIN where : where[p].to \in Seq(T)

(* The path up to each of its names, resolved.                             *)
Resolves(f, where, path) ==
  /\ f[0] = << >>
  /\ \A i \in 1..Len(path) : f[i] = Followed(where, Append(f[i - 1], path[i]))

LEMMA RealIs ==
  ASSUME NEW T, NEW where, LinksAmong(where, T), NEW path \in Seq(T)
  PROVE  \E f \in [0..Len(path) -> Seq(T)] :
           Resolves(f, where, path) /\ Real(where, path) = f[Len(path)]
<1> DEFINE N == Len(path)
           V == Seq(T)
           step == [p \in (1..N) \X V |-> Followed(where, Append(p[2], path[p[1]]))]
           IsReal(r) == r = [n \in 0..N |->
                               IF n = 0 THEN << >>
                               ELSE LET next == Append(r[n - 1], path[n])
                                    IN IF IsLink(where, next) THEN where[next].to ELSE next]
<1>1. N \in Nat /\ << >> \in V /\ \A i \in 1..N : path[i] \in T
  OBVIOUS
<1>2. ASSUME NEW i \in 1..N, NEW at_ \in V
      PROVE  Followed(where, Append(at_, path[i])) \in V
  <2>1. Append(at_, path[i]) \in Seq(T)
    BY <1>1
  <2> QED BY <2>1 DEF Followed, IsLink, LinksAmong
<1>3. step \in [(1..N) \X V -> V]
  <2> HIDE DEF V, N
  <2> QED BY <1>2
<1>4. \E f \in [0..N -> V] : Recursion(f, N, << >>, step)
  <2> HIDE DEF N, V, step
  <2> QED BY <1>1, <1>3, RecursionExists, Zenon
<1>5. PICK f \in [0..N -> V] : Recursion(f, N, << >>, step)
  BY <1>4
<1>6. ASSUME NEW i \in 1..N
      PROVE  f[i] = Followed(where, Append(f[i - 1], path[i]))
  <2>1. i - 1 \in 0..N
    BY <1>1
  <2>a. f[i - 1] \in V
    <3> HIDE DEF N, V
    <3> QED BY <2>1
  <2>2. <<i, f[i - 1]>> \in (1..N) \X V
    BY <2>1, <2>a
  <2>3. f[i] = step[<<i, f[i - 1]>>]
    BY <1>5 DEF Recursion
  <2> HIDE DEF N, V
  <2> QED BY <2>2, <2>3
<1>7. f[0] = << >>
  BY <1>5 DEF Recursion
<1>8. IsReal(f)
  <2>1. ASSUME NEW n \in 0..N
        PROVE  f[n] = IF n = 0 THEN << >>
                      ELSE LET next == Append(f[n - 1], path[n])
                           IN IF IsLink(where, next) THEN where[next].to ELSE next
    <3>1. CASE n = 0
      BY <1>7, <3>1
    <3>2. CASE n # 0
      <4>1. n \in 1..N
        BY <1>1, <3>2
      <4> QED BY <1>6, <3>2, <4>1 DEF Followed
    <3> QED BY <3>1, <3>2
  <2> HIDE DEF N, V
  <2> QED BY <2>1
<1>9. IsReal(CHOOSE r : IsReal(r))
  <2> HIDE DEF IsReal
  <2> QED BY <1>8, Zenon
<1> DEFINE r == CHOOSE x : IsReal(x)
<1>10. Real(where, path) = r[N]
  BY DEF Real
<1>11. \A i \in 0..N : r[i] = f[i]
  <2>1. r = [n \in 0..N |-> IF n = 0 THEN << >>
                            ELSE LET next == Append(r[n - 1], path[n])
                                 IN IF IsLink(where, next) THEN where[next].to ELSE next]
    BY <1>9
  <2> DEFINE S == {n \in 0..N : r[n] = f[n]}
  <2> HIDE DEF r, IsReal, V
  <2>2. 0 \in S
    BY <1>1, <1>7, <2>1
  <2>3. ASSUME NEW n \in 0..(N - 1), n \in S
        PROVE  n + 1 \in S
    <3>1. n + 1 \in 1..N /\ n + 1 \in 0..N /\ (n + 1) - 1 = n /\ n + 1 # 0
      BY <1>1
    <3>2. r[n + 1] = Followed(where, Append(r[n], path[n + 1]))
      BY <2>1, <3>1 DEF Followed
    <3>3. f[n + 1] = Followed(where, Append(f[n], path[n + 1]))
      BY <1>6, <3>1
    <3> QED BY <2>3, <3>1, <3>2, <3>3
  <2> HIDE DEF S
  <2>4. 0 \in Int /\ N \in Int
    BY <1>1
  <2>5. 0..N \subseteq S
    <3> HIDE DEF N
    <3> QED BY <2>2, <2>3, <2>4, Induction
  <2> QED BY <2>5 DEF S
<1>12. Real(where, path) = f[N]
  <2> HIDE DEF r
  <2> QED BY <1>1, <1>10, <1>11
<1>13. Resolves(f, where, path)
  BY <1>6, <1>7 DEF Resolves
<1> QED BY <1>12, <1>13

(* A name more: the link there, if there is one, is followed.              *)
LEMMA RealAppend ==
  ASSUME NEW T, NEW where, LinksAmong(where, T), NEW path \in Seq(T), NEW name \in T
  PROVE  /\ Real(where, path) \in Seq(T)
         /\ Real(where, Append(path, name)) = Followed(where, Append(Real(where, path), name))
<1> DEFINE more == Append(path, name)
           N == Len(path)
<1>1. /\ more \in Seq(T) /\ N \in Nat /\ Len(more) = N + 1 /\ more[N + 1] = name
      /\ \A i \in 1..N : more[i] = path[i]
  OBVIOUS
<1> HIDE DEF more
<1>2. PICK f \in [0..N -> Seq(T)] : Resolves(f, where, path) /\ Real(where, path) = f[N]
  BY RealIs
<1>3. PICK g \in [0..Len(more) -> Seq(T)] :
        Resolves(g, where, more) /\ Real(where, more) = g[Len(more)]
  BY <1>1, RealIs
<1> DEFINE S == {n \in 0..N : g[n] = f[n]}
<1>4. 0 \in S
  BY <1>1, <1>2, <1>3 DEF Resolves
<1>5. ASSUME NEW n \in 0..(N - 1), n \in S
      PROVE  n + 1 \in S
  <2>1. n + 1 \in 1..N /\ n + 1 \in 1..(N + 1) /\ n + 1 \in 0..N /\ (n + 1) - 1 = n
    BY <1>1
  <2>2. f[n + 1] = Followed(where, Append(f[n], path[n + 1]))
    BY <1>2, <2>1 DEF Resolves
  <2>3. g[n + 1] = Followed(where, Append(g[n], more[n + 1]))
    BY <1>1, <1>3, <2>1 DEF Resolves
  <2> QED BY <1>1, <1>5, <2>1, <2>2, <2>3
<1> HIDE DEF S
<1>6. 0 \in Int /\ N \in Int
  BY <1>1
<1>7. 0..N \subseteq S
  <2> HIDE DEF N
  <2> QED BY <1>4, <1>5, <1>6, Induction
<1>8. g[N] = f[N]
  BY <1>1, <1>7 DEF S
<1>9. g[N + 1] = Followed(where, Append(g[N], more[N + 1]))
  <2>1. N + 1 \in 1..Len(more) /\ (N + 1) - 1 = N
    BY <1>1
  <2> QED BY <1>3, <2>1 DEF Resolves
<1>10. Real(where, path) \in Seq(T)
  BY <1>1, <1>2
<1>11. Real(where, more) = Followed(where, Append(Real(where, path), name))
  BY <1>1, <1>2, <1>3, <1>8, <1>9
<1> QED BY <1>10, <1>11 DEF more

LEMMA RealOfOne ==
  ASSUME NEW T, NEW where, LinksAmong(where, T), NEW path \in Seq(T), Len(path) = 1
  PROVE  Real(where, path) = Followed(where, path)
<1>1. PICK f \in [0..Len(path) -> Seq(T)] :
        Resolves(f, where, path) /\ Real(where, path) = f[Len(path)]
  BY RealIs
<1>2. f[0] = << >> /\ f[1] = Followed(where, Append(f[0], path[1]))
  <2>1. 1 \in 1..Len(path) /\ 1 - 1 = 0
    OBVIOUS
  <2>2. \A i \in 1..Len(path) : f[i] = Followed(where, Append(f[i - 1], path[i]))
    BY <1>1 DEF Resolves
  <2>3. f[1] = Followed(where, Append(f[1 - 1], path[1]))
    BY <2>1, <2>2
  <2> QED BY <1>1, <2>1, <2>3 DEF Resolves
<1>3. Append(<< >>, path[1]) = path
  OBVIOUS
<1> QED BY <1>1, <1>2, <1>3

-----------------------------------------------------------------------------
(* The names that a path may have, and where the directories really are.   *)
PathName == {<<"ws">>, <<"real">>, <<"elsewhere">>, <<"d">>, <<"out">>, <<"s">>, <<"2">>,
             <<"nothing">>, SourceName, NameOf(1), NameOf(2)}

WorkAt == Append(Home, <<"d">>)

OutAt == Append(WorkAt, <<"out">>)

OutsideOut == Append(Outside, <<"out">>)

(* The workspace as a front end meets it, or with its directory replaced.  *)
(* There is no link in what is outside.                                    *)
Shaped(where, moved) ==
  /\ LinksAmong(where, PathName)
  /\ Home # Root => IsLink(where, Root) /\ where[Root].to = Home
  /\ ~IsLink(where, Home)
  /\ IsLink(where, WorkAt) <=> moved
  /\ moved => where[WorkAt].to = Outside
  /\ IsLink(where, OutAt) => where[OutAt].to = Outside
  /\ Outside \in DOMAIN where /\ OutsideOut \in DOMAIN where
  /\ \A p \in DOMAIN where : Within(p, Outside) => ~IsLink(where, p)
  /\ \A p \in DOMAIN where : IsLink(where, p) \/ where[p].to = << >>

(* A name more at the end of a path.                                       *)
LEMMA AppendIs ==
  ASSUME NEW T, NEW p \in Seq(T), NEW name \in T
  PROVE  /\ Append(p, name) \in Seq(T) /\ Len(Append(p, name)) = Len(p) + 1
         /\ Append(p, name)[Len(p) + 1] = name
         /\ \A i \in 1..Len(p) : Append(p, name)[i] = p[i]
         /\ Front(Append(p, name)) = p /\ Last(Append(p, name)) = name
<1> DEFINE more == Append(p, name)
<1>1. /\ more \in Seq(T) /\ Len(more) = Len(p) + 1 /\ more[Len(p) + 1] = name /\ Len(p) \in Nat
      /\ \A i \in 1..Len(p) : more[i] = p[i]
  OBVIOUS
<1> HIDE DEF more
<1>2. Front(more) = SubSeq(more, 1, Len(p)) /\ Last(more) = name
  BY <1>1 DEF Front, Last
<1>3. SubSeq(more, 1, Len(p)) = p
  BY <1>1
<1> QED BY <1>1, <1>2, <1>3 DEF more

LEMMA OneIs ==
  ASSUME NEW T, NEW name \in T
  PROVE  <<name>> \in Seq(T) /\ Len(<<name>>) = 1 /\ <<name>>[1] = name
  OBVIOUS

LEMMA WithinOne ==
  ASSUME NEW T, NEW p \in Seq(T), NEW root \in Seq(T), Len(root) = 1
  PROVE  Within(p, root) <=> Len(p) >= 1 /\ p[1] = root[1]
<1>1. CASE Len(p) = 0
  BY <1>1 DEF Within, IsPrefix
<1>2. CASE Len(p) # 0
  <2>1. Len(p) \in Nat /\ Len(p) >= 1
    BY <1>2
  <2>2. ASSUME NEW s \in Seq(T), Len(s) \in Nat, Len(s) >= 1
        PROVE  Len(SubSeq(s, 1, 1)) = 1 /\ SubSeq(s, 1, 1)[1] = s[1] /\ SubSeq(s, 1, 1) \in Seq(T)
    BY <2>2
  <2>3. Len(root) \in Nat /\ Len(root) >= 1
    OBVIOUS
  <2>4. /\ Len(SubSeq(p, 1, 1)) = 1 /\ SubSeq(p, 1, 1)[1] = p[1] /\ SubSeq(p, 1, 1) \in Seq(T)
        /\ Len(SubSeq(root, 1, 1)) = 1 /\ SubSeq(root, 1, 1)[1] = root[1]
        /\ SubSeq(root, 1, 1) \in Seq(T)
    BY <2>1, <2>2, <2>3
  <2>5. SubSeq(root, 1, 1) = SubSeq(p, 1, 1) <=> p[1] = root[1]
    BY <2>4
  <2> QED BY <2>1, <2>5 DEF Within, IsPrefix
<1> QED BY <1>1, <1>2

(* The directories, by their names.                                        *)
LEMMA Directories ==
  /\ Root \in Seq(PathName) /\ Len(Root) = 1 /\ Root[1] = <<"ws">>
  /\ Home \in Seq(PathName) /\ Len(Home) = 1 /\ Home[1] \in {<<"ws">>, <<"real">>}
  /\ WorkAt \in Seq(PathName) /\ Len(WorkAt) = 2 /\ WorkAt[1] = Home[1]
  /\ OutAt \in Seq(PathName) /\ Len(OutAt) = 3 /\ OutAt[1] = Home[1] /\ OutAt[3] = <<"out">>
  /\ Outside \in Seq(PathName) /\ Len(Outside) = 1 /\ Outside[1] = <<"elsewhere">>
  /\ OutsideOut \in Seq(PathName) /\ Len(OutsideOut) = 2 /\ OutsideOut[1] = <<"elsewhere">>
  /\ WorkingDirectory \in Seq(PathName) /\ WorkingDirectory = Append(Root, <<"d">>)
  /\ OutDir \in Seq(PathName) /\ OutDir = Append(WorkingDirectory, <<"out">>)
  /\ <<"ws">> # <<"elsewhere">> /\ <<"real">> # <<"elsewhere">> /\ <<"ws">> # <<"real">>
  /\ SourceName \in PathName /\ NameOf(1) \in PathName /\ NameOf(2) \in PathName
  /\ <<"d">> \in PathName /\ <<"out">> \in PathName
  /\ SourceName # <<"out">>
<1> DEFINE ws == <<"ws">>
           rl == <<"real">>
           el == <<"elsewhere">>
           d == <<"d">>
           o == <<"out">>
<1>1. /\ ws \in PathName /\ rl \in PathName /\ el \in PathName /\ d \in PathName /\ o \in PathName
      /\ SourceName \in PathName /\ NameOf(1) \in PathName /\ NameOf(2) \in PathName
  <2> HIDE DEF SourceName, NameOf
  <2> QED BY DEF PathName
<1>2. ws # el /\ rl # el /\ ws # rl
  OBVIOUS
<1>3. SourceName # o
  BY DEF SourceName, SourceText
<1>4. Root = <<ws>> /\ Outside = <<el>> /\ Home \in {<<ws>>, <<rl>>}
  BY DEF Root, Outside, Home
<1> HIDE DEF ws, rl, el, d, o
<1>5. /\ Root \in Seq(PathName) /\ Len(Root) = 1 /\ Root[1] = ws
      /\ Home \in Seq(PathName) /\ Len(Home) = 1 /\ Home[1] \in {ws, rl}
      /\ Outside \in Seq(PathName) /\ Len(Outside) = 1 /\ Outside[1] = el
  <2>1. \A name \in PathName : <<name>> \in Seq(PathName) /\ Len(<<name>>) = 1 /\ <<name>>[1] = name
    BY OneIs
  <2>2. CASE Home = <<ws>>
    BY <1>1, <1>4, <2>1, <2>2
  <2>3. CASE Home = <<rl>>
    BY <1>1, <1>4, <2>1, <2>3
  <2> QED BY <1>4, <2>2, <2>3
<1>6. /\ WorkAt = Append(Home, d) /\ OutAt = Append(WorkAt, o) /\ OutsideOut = Append(Outside, o)
      /\ WorkingDirectory = Append(Root, d) /\ OutDir = Append(WorkingDirectory, o)
  BY DEF WorkAt, OutAt, OutsideOut, WorkingDirectory, OutDir, d, o
<1>7. /\ WorkAt \in Seq(PathName) /\ Len(WorkAt) = 2 /\ WorkAt[1] = Home[1]
      /\ OutsideOut \in Seq(PathName) /\ Len(OutsideOut) = 2 /\ OutsideOut[1] = el
      /\ WorkingDirectory \in Seq(PathName)
  <2>1. ASSUME NEW p \in Seq(PathName), Len(p) = 1, NEW name \in PathName
        PROVE  Append(p, name) \in Seq(PathName) /\ Len(Append(p, name)) = 2 /\ Append(p, name)[1] = p[1]
    <3>1. /\ Append(p, name) \in Seq(PathName) /\ Len(Append(p, name)) = Len(p) + 1
          /\ \A i \in 1..Len(p) : Append(p, name)[i] = p[i]
      BY AppendIs
    <3>2. Len(p) + 1 = 2 /\ 1 \in 1..Len(p)
      BY <2>1
    <3> QED BY <3>1, <3>2
  <2> QED BY <1>1, <1>5, <1>6, <2>1
<1>8. /\ OutAt \in Seq(PathName) /\ Len(OutAt) = 3 /\ OutAt[1] = Home[1] /\ OutAt[3] = o
      /\ OutDir \in Seq(PathName)
  <2>1. 1 \in 1..Len(WorkAt) /\ Len(WorkAt) + 1 = 3
    BY <1>7
  <2> QED BY <1>1, <1>6, <1>7, <2>1, AppendIs
<1> QED BY <1>1, <1>2, <1>3, <1>5, <1>6, <1>7, <1>8 DEF ws, rl, el, d, o

(* What is in the workspace, and what is not.                              *)
LEMMA Whereabouts ==
  /\ ~Within(Root, Outside) /\ ~Within(Home, Outside) /\ ~Within(WorkAt, Outside) /\ ~Within(OutAt, Outside)
  /\ Within(Outside, Outside) /\ Within(OutsideOut, Outside)
  /\ \A name \in PathName :
       /\ Within(Append(WorkAt, name), Home) /\ Within(Append(OutAt, name), Home)
       /\ Within(Append(Outside, name), Outside) /\ Within(Append(OutsideOut, name), Outside)
       /\ ~Within(Append(Outside, name), Home) /\ ~Within(Append(OutsideOut, name), Home)
       /\ ~Within(Append(WorkAt, name), Outside) /\ ~Within(Append(OutAt, name), Outside)
<1>1. \A p, root \in Seq(PathName) : Len(root) = 1 => (Within(p, root) <=> Len(p) >= 1 /\ p[1] = root[1])
  BY WithinOne
<1>2. ASSUME NEW p \in Seq(PathName), Len(p) >= 1, NEW name \in PathName
      PROVE  Append(p, name) \in Seq(PathName) /\ Len(Append(p, name)) >= 1 /\ Append(p, name)[1] = p[1]
  BY <1>2
<1>3. Home[1] # Outside[1] /\ Root[1] # Outside[1]
  BY Directories
<1>4. /\ ~Within(Root, Outside) /\ ~Within(Home, Outside) /\ ~Within(WorkAt, Outside)
      /\ ~Within(OutAt, Outside)
      /\ Within(Outside, Outside) /\ Within(OutsideOut, Outside)
  <2>1. /\ Root \in Seq(PathName) /\ Home \in Seq(PathName) /\ WorkAt \in Seq(PathName)
        /\ OutAt \in Seq(PathName) /\ OutsideOut \in Seq(PathName)
        /\ Outside \in Seq(PathName) /\ Len(Outside) = 1
    BY Directories
  <2>2. \A p \in Seq(PathName) : Within(p, Outside) <=> Len(p) >= 1 /\ p[1] = Outside[1]
    BY <1>1, <2>1
  <2>3. /\ Root[1] # Outside[1] /\ Home[1] # Outside[1] /\ WorkAt[1] # Outside[1]
        /\ OutAt[1] # Outside[1] /\ OutsideOut[1] = Outside[1] /\ Len(OutsideOut) >= 1
    BY Directories
  <2>4. ~Within(Root, Outside) /\ ~Within(Home, Outside)
    BY <2>1, <2>2, <2>3
  <2>5. ~Within(WorkAt, Outside) /\ ~Within(OutAt, Outside)
    BY <2>1, <2>2, <2>3
  <2>6. Within(Outside, Outside)
    BY <2>1, <2>2
  <2>7. Within(OutsideOut, Outside)
    BY <2>1, <2>2, <2>3
  <2> QED BY <2>4, <2>5, <2>6, <2>7
<1>5. ASSUME NEW name \in PathName
      PROVE  /\ Within(Append(WorkAt, name), Home) /\ Within(Append(OutAt, name), Home)
             /\ Within(Append(Outside, name), Outside) /\ Within(Append(OutsideOut, name), Outside)
             /\ ~Within(Append(Outside, name), Home) /\ ~Within(Append(OutsideOut, name), Home)
             /\ ~Within(Append(WorkAt, name), Outside) /\ ~Within(Append(OutAt, name), Outside)
  <2>1. /\ Append(WorkAt, name) \in Seq(PathName) /\ Len(Append(WorkAt, name)) >= 1
        /\ Append(WorkAt, name)[1] = Home[1]
    BY <1>2, Directories
  <2>2. /\ Append(OutAt, name) \in Seq(PathName) /\ Len(Append(OutAt, name)) >= 1
        /\ Append(OutAt, name)[1] = Home[1]
    BY <1>2, Directories
  <2>3. /\ Append(Outside, name) \in Seq(PathName) /\ Len(Append(Outside, name)) >= 1
        /\ Append(Outside, name)[1] = Outside[1]
    BY <1>2, Directories
  <2>4. /\ Append(OutsideOut, name) \in Seq(PathName) /\ Len(Append(OutsideOut, name)) >= 1
        /\ Append(OutsideOut, name)[1] = Outside[1]
    BY <1>2, Directories
  <2>5. Home \in Seq(PathName) /\ Len(Home) = 1 /\ Outside \in Seq(PathName) /\ Len(Outside) = 1
    BY Directories
  <2> QED BY <1>1, <1>3, <2>1, <2>2, <2>3, <2>4, <2>5
<1> QED BY <1>4, <1>5

(* The directory that an output is put in, through the links.              *)
LEMMA RealDirectories ==
  ASSUME NEW where, NEW moved \in BOOLEAN, Shaped(where, moved)
  PROVE  /\ Real(where, Root) = Home
         /\ Real(where, WorkingDirectory) = IF moved THEN Outside ELSE WorkAt
         /\ Real(where, OutDir) = IF moved THEN OutsideOut
                                  ELSE IF IsLink(where, OutAt) THEN Outside ELSE OutAt
<1>1. LinksAmong(where, PathName)
  BY DEF Shaped
<1>2. Real(where, Root) = Home
  <2>1. Real(where, Root) = Followed(where, Root)
    BY <1>1, Directories, RealOfOne
  <2> QED BY <2>1 DEF Shaped, Followed
<1>3. Real(where, WorkingDirectory) = IF moved THEN Outside ELSE WorkAt
  <2>1. Real(where, Append(Root, <<"d">>)) = Followed(where, Append(Real(where, Root), <<"d">>))
    BY <1>1, Directories, RealAppend
  <2>2. Real(where, WorkingDirectory) = Followed(where, WorkAt)
    BY <1>2, <2>1, Directories DEF WorkAt
  <2> QED BY <2>2 DEF Shaped, Followed
<1>4. Real(where, OutDir) = Followed(where, Append(Real(where, WorkingDirectory), <<"out">>))
  <2> DEFINE o == <<"out">>
  <2>a. WorkingDirectory \in Seq(PathName) /\ o \in PathName
    BY Directories
  <2> HIDE DEF o
  <2>b. Real(where, Append(WorkingDirectory, o))
          = Followed(where, Append(Real(where, WorkingDirectory), o))
    BY <1>1, <2>a, RealAppend
  <2>1. Real(where, Append(WorkingDirectory, <<"out">>))
          = Followed(where, Append(Real(where, WorkingDirectory), <<"out">>))
    BY <2>b DEF o
  <2> QED BY <2>1, Directories
<1>5. CASE moved
  <2>1. Real(where, OutDir) = Followed(where, OutsideOut)
    BY <1>3, <1>4, <1>5 DEF OutsideOut
  <2>2. ~IsLink(where, OutsideOut)
    BY Whereabouts DEF Shaped, IsLink
  <2> QED BY <1>2, <1>3, <1>5, <2>1, <2>2 DEF Followed
<1>6. CASE ~moved
  <2>1. Real(where, OutDir) = Followed(where, OutAt)
    BY <1>3, <1>4, <1>6 DEF OutAt
  <2> QED BY <1>2, <1>3, <1>6, <2>1 DEF Followed, Shaped
<1> QED BY <1>5, <1>6

-----------------------------------------------------------------------------
(* What is written.                                                        *)
Output == {"source", "first", "second"}

DirOf(place) == IF place = "source" THEN WorkingDirectory ELSE OutDir

NameAt(place) ==
  IF place = "source" THEN SourceName ELSE IF place = "first" THEN NameOf(1) ELSE NameOf(2)

LEMMA PathOfOutput ==
  ASSUME NEW place \in Output
  PROVE  /\ PathOf(place) = Append(DirOf(place), NameAt(place))
         /\ DirOf(place) \in Seq(PathName) /\ NameAt(place) \in PathName
         /\ PathOf(place) \in Seq(PathName)
         /\ Front(PathOf(place)) = DirOf(place) /\ Last(PathOf(place)) = NameAt(place)
<1>1. PathOf(place) = Append(DirOf(place), NameAt(place))
  BY DEF PathOf, DirOf, NameAt, Output
<1>2. DirOf(place) \in Seq(PathName) /\ NameAt(place) \in PathName
  BY Directories DEF DirOf, NameAt, Output
<1> QED BY <1>1, <1>2, AppendIs

(* Where the directory of an output really is.                             *)
RealDir(where, moved, place) ==
  IF place = "source" THEN IF moved THEN Outside ELSE WorkAt
  ELSE IF moved THEN OutsideOut ELSE IF IsLink(where, OutAt) THEN Outside ELSE OutAt

LEMMA EntryIs ==
  ASSUME NEW where, NEW moved \in BOOLEAN, Shaped(where, moved), NEW place \in Output
  PROVE  /\ Real(where, DirOf(place)) = RealDir(where, moved, place)
         /\ Entry(where, PathOf(place)) = Append(RealDir(where, moved, place), NameAt(place))
         /\ RealDir(where, moved, place) \in {WorkAt, OutAt, Outside, OutsideOut}
         /\ RealDir(where, moved, place) \in Seq(PathName)
<1>1. Real(where, DirOf(place)) = RealDir(where, moved, place)
  BY RealDirectories DEF DirOf, RealDir, Output
<1>2. Entry(where, PathOf(place)) = Append(RealDir(where, moved, place), NameAt(place))
  BY <1>1, PathOfOutput DEF Entry
<1>3. RealDir(where, moved, place) \in {WorkAt, OutAt, Outside, OutsideOut}
  BY DEF RealDir
<1>4. RealDir(where, moved, place) \in Seq(PathName)
  BY <1>3, Directories
<1> QED BY <1>1, <1>2, <1>3, <1>4

(* No link has led the directory out of the workspace.                     *)
Straight(where, moved, place) == ~moved /\ (place # "source" => ~IsLink(where, OutAt))

LEMMA StraightIsInside ==
  ASSUME NEW where, NEW moved \in BOOLEAN, Shaped(where, moved), NEW place \in Output,
         Straight(where, moved, place)
  PROVE  Within(Entry(where, PathOf(place)), Real(where, Root))
<1>1. RealDir(where, moved, place) \in {WorkAt, OutAt}
  BY DEF RealDir, Straight
<1>2. NameAt(place) \in PathName
  BY PathOfOutput
<1>3. Real(where, Root) = Home
  BY RealDirectories
<1>4. Entry(where, PathOf(place)) = Append(RealDir(where, moved, place), NameAt(place))
  BY EntryIs
<1> QED BY <1>1, <1>2, <1>3, <1>4, Whereabouts

(* A path that is longer or shorter, begins elsewhere, or ends otherwise.  *)
Apart(p, name, q) ==
  \/ Len(q) # Len(p) + 1
  \/ Len(p) >= 1 /\ q[1] # p[1]
  \/ q[Len(p) + 1] # name

LEMMA AppendApart ==
  ASSUME NEW T, NEW p \in Seq(T), NEW name \in T, NEW q, Apart(p, name, q)
  PROVE  Append(p, name) # q
<1> SUFFICES ASSUME Append(p, name) = q
             PROVE  FALSE
  OBVIOUS
<1>1. Len(q) = Len(p) + 1 /\ q[Len(p) + 1] = name /\ \A i \in 1..Len(p) : q[i] = p[i]
  BY AppendIs
<1>2. Len(p) >= 1 => q[1] = p[1]
  <2>1. Len(p) >= 1 => 1 \in 1..Len(p)
    OBVIOUS
  <2> QED BY <1>1, <2>1
<1> QED BY <1>1, <1>2 DEF Apart

(* The entry of an output is none of the directories.                      *)
LEMMA EntryApart ==
  ASSUME NEW where, NEW moved \in BOOLEAN, Shaped(where, moved), NEW place \in Output
  PROVE  /\ Entry(where, PathOf(place)) \notin {Root, Home, WorkAt, OutAt}
         /\ Last(Entry(where, PathOf(place))) = NameAt(place)
<1> DEFINE dir == RealDir(where, moved, place)
           name == NameAt(place)
<1>1. /\ Entry(where, PathOf(place)) = Append(dir, name)
      /\ dir \in {WorkAt, OutAt, Outside, OutsideOut} /\ dir \in Seq(PathName)
  BY EntryIs
<1>2. name \in PathName
  BY PathOfOutput
<1>3. /\ Len(Root) = 1 /\ Len(Home) = 1 /\ Len(WorkAt) = 2 /\ Len(OutAt) = 3
      /\ Len(Outside) = 1 /\ Len(OutsideOut) = 2
  BY Directories
<1>4. /\ WorkAt[1] # Outside[1] /\ OutAt[1] # Outside[1]
      /\ WorkAt[1] # OutsideOut[1] /\ OutAt[1] # OutsideOut[1] /\ OutAt[3] = <<"out">>
  BY Directories
<1>5. dir = WorkAt => name # <<"out">>
  <2>1. dir = WorkAt => place = "source"
    BY <1>3, <1>4 DEF RealDir
  <2> QED BY <2>1, Directories DEF NameAt
<1> HIDE DEF dir, name
<1>6. Apart(dir, name, Root) /\ Apart(dir, name, Home)
  BY <1>1, <1>3 DEF Apart
<1>7. Apart(dir, name, WorkAt) /\ Apart(dir, name, OutAt)
  <2>1. CASE dir = WorkAt
    <3>1. Apart(dir, name, WorkAt)
      BY <1>3, <2>1 DEF Apart
    <3>2. OutAt[Len(dir) + 1] # name
      <4>1. Len(dir) + 1 = 3
        <5>1. Len(dir) = 2
          BY <1>3, <2>1, Zenon
        <5> QED BY <5>1
      <4>2. name # <<"out">>
        BY <1>5, <2>1
      <4>3. OutAt[Len(dir) + 1] = OutAt[3]
        BY <4>1
      <4> QED BY <1>4, <4>2, <4>3
    <3> QED BY <3>1, <3>2 DEF Apart
  <2>2. CASE dir = OutAt
    BY <1>3, <2>2 DEF Apart
  <2>3. CASE dir = Outside
    BY <1>3, <1>4, <2>3 DEF Apart
  <2>4. CASE dir = OutsideOut
    BY <1>3, <1>4, <2>4 DEF Apart
  <2> QED BY <1>1, <2>1, <2>2, <2>3, <2>4
<1>8. Append(dir, name) \notin {Root, Home, WorkAt, OutAt}
  BY <1>1, <1>2, <1>6, <1>7, AppendApart
<1>9. Last(Append(dir, name)) = name
  BY <1>1, <1>2, AppendIs
<1> QED BY <1>1, <1>8, <1>9 DEF name

(* Nothing is a link that was none, and the links that remain lead where   *)
(* they did; only those at the entries in gone may be there no more.       *)
FewerLinks(where, later, gone) ==
  /\ DOMAIN where \subseteq DOMAIN later
  /\ \A p : IsLink(later, p) => IsLink(where, p)
  /\ \A p : IsLink(where, p) /\ p \notin gone => IsLink(later, p)
  /\ \A p : IsLink(later, p) => later[p].to = where[p].to
  /\ \A p \in DOMAIN later : IsLink(later, p) \/ later[p].to = << >>

LEMMA StillShaped ==
  ASSUME NEW where, NEW later, NEW moved \in BOOLEAN, Shaped(where, moved),
         NEW gone, FewerLinks(where, later, gone), Root \notin gone, WorkAt \notin gone
  PROVE  Shaped(later, moved) /\ (IsLink(later, OutAt) => IsLink(where, OutAt))
<1>1. LinksAmong(later, PathName)
  <2>1. ASSUME NEW p \in DOMAIN later
        PROVE  later[p].to \in Seq(PathName)
    <3>1. CASE later[p].to = << >>
      BY <3>1
    <3>2. CASE IsLink(later, p)
      <4>1. IsLink(where, p) /\ later[p].to = where[p].to
        BY <3>2 DEF FewerLinks
      <4> QED BY <4>1 DEF Shaped, LinksAmong, IsLink
    <3> QED BY <3>1, <3>2 DEF FewerLinks
  <2> QED BY <2>1 DEF LinksAmong
<1>2. Home # Root => IsLink(later, Root) /\ later[Root].to = Home
  BY DEF Shaped, FewerLinks
<1>3. ~IsLink(later, Home) /\ (IsLink(later, WorkAt) <=> moved)
  BY DEF Shaped, FewerLinks
<1>4. moved => later[WorkAt].to = Outside
  BY <1>3 DEF Shaped, FewerLinks
<1>5. IsLink(later, OutAt) => IsLink(where, OutAt) /\ later[OutAt].to = Outside
  BY DEF Shaped, FewerLinks
<1>6. Outside \in DOMAIN later /\ OutsideOut \in DOMAIN later
  BY DEF Shaped, FewerLinks
<1>7. \A p \in DOMAIN later : Within(p, Outside) => ~IsLink(later, p)
  BY DEF Shaped, FewerLinks, IsLink
<1>8. \A p \in DOMAIN later : IsLink(later, p) \/ later[p].to = << >>
  BY DEF FewerLinks
<1> QED BY <1>1, <1>2, <1>3, <1>4, <1>5, <1>6, <1>7, <1>8 DEF Shaped

LEMMA PutFewerLinks ==
  ASSUME NEW where, NEW moved \in BOOLEAN, Shaped(where, moved), NEW entry, NEW later,
         later = [p \in DOMAIN where \cup {entry} |-> IF p = entry THEN File ELSE where[p]]
  PROVE  FewerLinks(where, later, {entry})
<1>1. File.kind # "link" /\ File.to = << >>
  BY DEF File
<1>2. \A p : IsLink(later, p) => p # entry /\ IsLink(where, p)
  BY <1>1 DEF IsLink
<1> QED BY <1>1, <1>2 DEF FewerLinks, IsLink, Shaped

LEMMA MkdirFewerLinks ==
  ASSUME NEW where, NEW moved \in BOOLEAN, Shaped(where, moved), NEW path
  PROVE  FewerLinks(where, MkdirAll(where, path), {})
<1> DEFINE missing == {Real(where, SubSeq(path, 1, n)) : n \in 1..Len(path)} \ DOMAIN where
           later == MkdirAll(where, path)
<1>1. later = [p \in DOMAIN where \cup missing |-> IF p \in missing THEN Directory ELSE where[p]]
  BY DEF MkdirAll
<1>2. missing \cap DOMAIN where = {}
  OBVIOUS
<1>3. Directory.kind # "link" /\ Directory.to = << >>
  BY DEF Directory
<1> HIDE DEF missing, later
<1>4. \A p : IsLink(later, p) => p \notin missing /\ IsLink(where, p)
  BY <1>1, <1>3 DEF IsLink
<1>5. FewerLinks(where, later, {})
  BY <1>1, <1>2, <1>3, <1>4 DEF FewerLinks, IsLink, Shaped
<1> QED BY <1>5 DEF later

LEMMA RelinkShaped ==
  ASSUME NEW where, Shaped(where, FALSE), NEW later,
         later = [p \in {q \in DOMAIN where : ~Within(q, WorkAt)} \cup {WorkAt} |->
                    IF p = WorkAt THEN LinkTo(Outside) ELSE where[p]]
  PROVE  Shaped(later, TRUE)
<1>1. ASSUME NEW p \in Seq(PathName), Len(p) = 1 \/ (Len(p) = 2 /\ p[1] # Home[1])
      PROVE  ~Within(p, WorkAt) /\ p # WorkAt
  <2>1. WorkAt \in Seq(PathName) /\ Len(WorkAt) = 2 /\ WorkAt[1] = Home[1]
    BY Directories
  <2>2. CASE Len(p) = 1
    BY <2>1, <2>2 DEF Within, IsPrefix
  <2>3. CASE Len(p) = 2 /\ p[1] # Home[1]
    <3>1. ASSUME NEW s \in Seq(PathName), Len(s) = 2
          PROVE  SubSeq(s, 1, 2)[1] = s[1]
      BY <3>1
    <3>2. SubSeq(p, 1, 2)[1] = p[1] /\ SubSeq(WorkAt, 1, 2)[1] = WorkAt[1]
      BY <2>1, <2>3, <3>1
    <3>3. SubSeq(p, 1, 2) # SubSeq(WorkAt, 1, 2)
      BY <2>1, <2>3, <3>2
    <3> QED BY <2>1, <2>3, <3>3 DEF Within, IsPrefix
  <2> QED BY <1>1, <2>2, <2>3
<1>2. /\ ~Within(Root, WorkAt) /\ Root # WorkAt /\ ~Within(Home, WorkAt) /\ Home # WorkAt
      /\ ~Within(Outside, WorkAt) /\ Outside # WorkAt
      /\ ~Within(OutsideOut, WorkAt) /\ OutsideOut # WorkAt
  <2>1. /\ Root \in Seq(PathName) /\ Len(Root) = 1 /\ Home \in Seq(PathName) /\ Len(Home) = 1
        /\ Outside \in Seq(PathName) /\ Len(Outside) = 1
        /\ OutsideOut \in Seq(PathName) /\ Len(OutsideOut) = 2 /\ OutsideOut[1] # Home[1]
    BY Directories
  <2> QED BY <1>1, <2>1
<1>3. DOMAIN later = {q \in DOMAIN where : ~Within(q, WorkAt)} \cup {WorkAt}
      /\ later[WorkAt] = LinkTo(Outside)
      /\ \A p \in DOMAIN later : p # WorkAt => p \in DOMAIN where /\ later[p] = where[p]
  OBVIOUS
<1>4. LinkTo(Outside).kind = "link" /\ LinkTo(Outside).to = Outside
  BY DEF LinkTo
<1>5. IsLink(later, WorkAt) /\ later[WorkAt].to = Outside
  BY <1>3, <1>4 DEF IsLink
<1>6. \A p : p # WorkAt /\ IsLink(later, p) => IsLink(where, p) /\ later[p] = where[p]
  BY <1>3 DEF IsLink
<1>7. LinksAmong(later, PathName)
  <2>1. Outside \in Seq(PathName)
    BY Directories
  <2> QED BY <1>3, <1>5, <2>1 DEF Shaped, LinksAmong
<1>8. Home # Root => IsLink(later, Root) /\ later[Root].to = Home
  BY <1>2, <1>3 DEF Shaped, IsLink
<1>9. ~IsLink(later, Home)
  BY <1>2, <1>6 DEF Shaped
<1>10. IsLink(later, OutAt) => later[OutAt].to = Outside
  BY <1>5, <1>6 DEF Shaped
<1>11. Outside \in DOMAIN later /\ OutsideOut \in DOMAIN later
  BY <1>2, <1>3 DEF Shaped
<1>12. \A p \in DOMAIN later : Within(p, Outside) => ~IsLink(later, p)
  <2>1. ~Within(WorkAt, Outside)
    BY Whereabouts
  <2> QED BY <1>3, <1>6, <2>1 DEF Shaped
<1>13. \A p \in DOMAIN later : IsLink(later, p) \/ later[p].to = << >>
  BY <1>3, <1>5 DEF Shaped, IsLink
<1> QED BY <1>5, <1>7, <1>8, <1>9, <1>10, <1>11, <1>12, <1>13 DEF Shaped

LEMMA WorkingEntry ==
  ASSUME NEW where, NEW moved \in BOOLEAN, Shaped(where, moved)
  PROVE  Entry(where, WorkingDirectory) = WorkAt
<1> DEFINE d == <<"d">>
<1>1. WorkingDirectory = Append(Root, d) /\ Root \in Seq(PathName) /\ d \in PathName /\ WorkAt = Append(Home, d)
  BY Directories DEF WorkAt
<1> HIDE DEF d
<1>2. Front(WorkingDirectory) = Root /\ Last(WorkingDirectory) = d
  BY <1>1, AppendIs
<1> QED BY <1>1, <1>2, RealDirectories DEF Entry
-----------------------------------------------------------------------------
(* A path in the workspace, where the workspace really is.                 *)
AtHome(path) == Home \o SubSeq(path, 2, Len(path))

LEMMA AtHomeAppend ==
  ASSUME NEW p \in Seq(PathName), Len(p) >= 1, NEW name \in PathName
  PROVE  AtHome(Append(p, name)) = Append(AtHome(p), name)
<1> DEFINE more == Append(p, name)
           tail == SubSeq(p, 2, Len(p))
<1>1. more \in Seq(PathName) /\ Len(more) = Len(p) + 1 /\ more[Len(p) + 1] = name /\ Len(p) \in Nat
      /\ \A i \in 1..Len(p) : more[i] = p[i]
  BY AppendIs
<1> HIDE DEF more
<1>2. SubSeq(more, 2, Len(p) + 1) = Append(SubSeq(p, 2, Len(p)), name)
  <2> DEFINE left == SubSeq(more, 2, Len(p) + 1)
             right == Append(tail, name)
  <2>1. /\ left \in Seq(PathName) /\ Len(left) = Len(p)
        /\ \A i \in 1..Len(p) : left[i] = more[i + 1]
    BY <1>1
  <2>2. /\ tail \in Seq(PathName) /\ Len(tail) = Len(p) - 1
        /\ \A i \in 1..(Len(p) - 1) : tail[i] = p[i + 1]
    <3>1. Len(p) \in Nat
      BY <1>1
    <3>2. tail \in Seq(PathName)
      OBVIOUS
    <3>3. Len(tail) = Len(p) - 1
      <4>1. CASE Len(p) = 1
        <5>1. tail = << >>
          BY <4>1
        <5> HIDE DEF tail
        <5> QED BY <4>1, <5>1
      <4>2. CASE Len(p) >= 2
        BY <3>1, <4>2
      <4> QED BY <3>1, <4>1, <4>2
    <3>4. ASSUME NEW i \in 1..(Len(p) - 1)
          PROVE  tail[i] = p[i + 1]
      BY <3>1
    <3> QED BY <3>2, <3>3, <3>4
  <2> HIDE DEF tail
  <2>3. /\ right \in Seq(PathName) /\ Len(right) = Len(p) /\ right[Len(p)] = name
        /\ \A i \in 1..(Len(p) - 1) : right[i] = tail[i]
    BY <1>1, <2>2
  <2> HIDE DEF left, right
  <2>4. ASSUME NEW i \in 1..Len(p)
        PROVE  left[i] = right[i]
    <3>1. CASE i = Len(p)
      BY <1>1, <2>1, <2>3, <3>1
    <3>2. CASE i # Len(p)
      <4>1. i \in 1..(Len(p) - 1) /\ i + 1 \in 1..Len(p)
        BY <1>1, <3>2
      <4> QED BY <1>1, <2>1, <2>2, <2>3, <4>1
    <3> QED BY <3>1, <3>2
  <2>5. left = right
    BY <1>1, <2>1, <2>3, <2>4
  <2> QED BY <2>5 DEF left, right, tail
<1>3. tail \in Seq(PathName) /\ Home \in Seq(PathName)
  BY Directories
<1> HIDE DEF tail
<1>4. Home \o Append(tail, name) = Append(Home \o tail, name)
  BY <1>3
<1> QED BY <1>1, <1>2, <1>4 DEF AtHome, more, tail

LEMMA AtHomeIs ==
  /\ AtHome(WorkingDirectory) = WorkAt
  /\ AtHome(OutDir) = OutAt
  /\ \A place \in Output : AtHome(PathOf(place))
                             = Append(IF place = "source" THEN WorkAt ELSE OutAt, NameAt(place))
<1> DEFINE d == <<"d">>
           o == <<"out">>
<1>1. /\ Root \in Seq(PathName) /\ Len(Root) = 1 /\ d \in PathName /\ o \in PathName
      /\ Home \in Seq(PathName)
      /\ WorkingDirectory = Append(Root, d) /\ OutDir = Append(WorkingDirectory, o)
      /\ WorkAt = Append(Home, d) /\ OutAt = Append(WorkAt, o)
  BY Directories DEF WorkAt, OutAt
<1> HIDE DEF d, o
<1>2. AtHome(Root) = Home
  BY <1>1 DEF AtHome
<1>3. WorkingDirectory \in Seq(PathName) /\ Len(WorkingDirectory) = 2
  <2>1. Len(WorkingDirectory) = Len(Root) + 1 /\ WorkingDirectory \in Seq(PathName)
    BY <1>1, AppendIs
  <2> QED BY <1>1, <2>1
<1>4. OutDir \in Seq(PathName) /\ Len(OutDir) = 3
  <2>1. Len(OutDir) = Len(WorkingDirectory) + 1 /\ OutDir \in Seq(PathName)
    BY <1>1, <1>3, AppendIs
  <2> QED BY <1>3, <2>1
<1>5. AtHome(WorkingDirectory) = WorkAt
  <2>1. Len(Root) >= 1
    BY <1>1
  <2> QED BY <1>1, <1>2, <2>1, AtHomeAppend
<1>6. AtHome(OutDir) = OutAt
  <2>1. Len(WorkingDirectory) >= 1
    BY <1>3
  <2> QED BY <1>1, <1>3, <1>5, <2>1, AtHomeAppend
<1>7. ASSUME NEW place \in Output
      PROVE  AtHome(PathOf(place)) = Append(IF place = "source" THEN WorkAt ELSE OutAt, NameAt(place))
  <2>1. /\ PathOf(place) = Append(DirOf(place), NameAt(place)) /\ NameAt(place) \in PathName
        /\ DirOf(place) \in Seq(PathName)
    BY PathOfOutput
  <2>2. /\ Len(DirOf(place)) >= 1
        /\ AtHome(DirOf(place)) = IF place = "source" THEN WorkAt ELSE OutAt
    BY <1>3, <1>4, <1>5, <1>6 DEF DirOf
  <2> QED BY <2>1, <2>2, AtHomeAppend
<1> QED BY <1>5, <1>6, <1>7

(* What may be met at a path.                                              *)
Met(path, node) ==
  /\ node.kind = "link" \/ node.to = << >>
  /\ node.to \in Seq(PathName)
  /\ node.kind = "link" =>
       \/ path = Root /\ node.to = Home /\ Home # Root
       \/ path = Append(WorkAt, SourceName)
       \/ path = OutAt /\ node.to = Outside
       \/ path = Append(OutAt, NameOf(2))
  /\ path = Root /\ Home # Root => node = LinkTo(Home)

LEMMA PlainNodes ==
  /\ \A node \in {File, Directory, Device} : node.kind # "link" /\ node.to = << >>
  /\ \A path : LinkTo(path).kind = "link" /\ LinkTo(path).to = path
  BY DEF File, Directory, Device, LinkTo

LEMMA PlainIsMet ==
  ASSUME NEW path, NEW node \in {File, Directory, Device}, path # Root \/ Home = Root
  PROVE  Met(path, node)
<1>1. << >> \in Seq(PathName)
  OBVIOUS
<1>2. node.kind # "link" /\ node.to = << >>
  BY PlainNodes
<1> QED BY <1>1, <1>2 DEF Met

LEMMA NoRoot ==
  /\ OutAt # Root /\ WorkAt # Root /\ Outside # Root /\ OutsideOut # Root /\ << >> # Root
  /\ \A name : Append(WorkAt, name) # Root /\ Append(OutAt, name) # Root /\ Append(Outside, name) # Root
<1>1. /\ Len(Root) = 1 /\ Len(WorkAt) = 2 /\ Len(OutAt) = 3 /\ Len(OutsideOut) = 2 /\ Len(Outside) = 1
      /\ Root[1] # Outside[1]
      /\ WorkAt \in Seq(PathName) /\ OutAt \in Seq(PathName) /\ Outside \in Seq(PathName)
  BY Directories
<1>2. ASSUME NEW s \in Seq(PathName), Len(s) >= 1, NEW name
      PROVE  Append(s, name) # Root
  <2>1. Len(Append(s, name)) = Len(s) + 1 /\ Len(s) \in Nat
    OBVIOUS
  <2>2. Len(Append(s, name)) # 1
    BY <1>2, <2>1
  <2> QED BY <1>1, <2>2
<1>3. Len(WorkAt) >= 1 /\ Len(OutAt) >= 1 /\ Len(Outside) >= 1
  BY <1>1
<1>4. \A name : Append(WorkAt, name) # Root /\ Append(OutAt, name) # Root /\ Append(Outside, name) # Root
  BY <1>1, <1>2, <1>3
<1>5. << >> # Root
  <2>1. Len(<< >>) = 0
    OBVIOUS
  <2> QED BY <1>1, <2>1
<1>6. Len(OutAt) # Len(Root) /\ Len(WorkAt) # Len(Root) /\ Len(OutsideOut) # Len(Root)
  BY <1>1
<1>7. OutAt # Root /\ WorkAt # Root /\ OutsideOut # Root /\ Outside # Root
  BY <1>1, <1>6
<1> QED BY <1>4, <1>5, <1>7

LEMMA SourceIsMet ==
  ASSUME NEW node,
         node \in {File, Directory, Device, LinkTo(Append(Outside, <<"s">>)),
                   LinkTo(Append(Outside, <<"nothing">>))}
  PROVE  Met(Append(WorkAt, SourceName), node)
<1> DEFINE s == <<"s">>
           x == <<"nothing">>
<1>1. Outside \in Seq(PathName) /\ s \in PathName /\ x \in PathName
  BY Directories DEF PathName
<1> HIDE DEF s, x
<1>2. Append(Outside, s) \in Seq(PathName) /\ Append(Outside, x) \in Seq(PathName)
  BY <1>1
<1>3. CASE node \in {File, Directory, Device}
  BY <1>3, NoRoot, PlainIsMet
<1>4. CASE node \in {LinkTo(Append(Outside, s)), LinkTo(Append(Outside, x))}
  BY <1>2, <1>4, NoRoot, PlainNodes DEF Met
<1> QED BY <1>3, <1>4 DEF s, x

LEMMA OutDirIsMet ==
  ASSUME NEW node \in {File, Directory, LinkTo(Outside)}
  PROVE  Met(OutAt, node)
<1>1. Outside \in Seq(PathName)
  BY Directories
<1>2. CASE node \in {File, Directory}
  BY <1>2, NoRoot, PlainIsMet
<1>3. CASE node = LinkTo(Outside)
  BY <1>1, <1>3, NoRoot, PlainNodes DEF Met
<1> QED BY <1>2, <1>3

LEMMA SecondIsMet == Met(Append(OutAt, NameOf(2)), LinkTo(Append(Outside, <<"2">>)))
<1> DEFINE two == <<"2">>
<1>1. Outside \in Seq(PathName) /\ two \in PathName
  BY Directories DEF PathName
<1> HIDE DEF two
<1>2. Append(Outside, two) \in Seq(PathName)
  BY <1>1
<1>3. Met(Append(OutAt, NameOf(2)), LinkTo(Append(Outside, two)))
  BY <1>2, NoRoot, PlainNodes DEF Met
<1> QED BY <1>3 DEF two

LEMMA DirectoriesApart ==
  /\ Home \notin {OutAt, Append(WorkAt, SourceName), Append(OutAt, NameOf(2))}
  /\ WorkAt \notin {Root, OutAt, Append(WorkAt, SourceName), Append(OutAt, NameOf(2))}
  /\ OutAt \notin {Root, Append(WorkAt, SourceName), Append(OutAt, NameOf(2))}
<1>1. /\ Len(Root) = 1 /\ Len(Home) = 1 /\ Len(WorkAt) = 2 /\ Len(OutAt) = 3
      /\ WorkAt \in Seq(PathName) /\ OutAt \in Seq(PathName)
      /\ SourceName \in PathName /\ NameOf(2) \in PathName
      /\ OutAt[3] = <<"out">> /\ SourceName # <<"out">>
  BY Directories
<1>2. /\ Apart(WorkAt, SourceName, Home) /\ Apart(WorkAt, SourceName, WorkAt)
      /\ Apart(OutAt, NameOf(2), Home) /\ Apart(OutAt, NameOf(2), WorkAt)
      /\ Apart(OutAt, NameOf(2), OutAt)
  BY <1>1 DEF Apart
<1>3. Apart(WorkAt, SourceName, OutAt)
  <2>1. Len(WorkAt) + 1 = 3
    BY <1>1
  <2>2. OutAt[Len(WorkAt) + 1] # SourceName
    BY <1>1, <2>1
  <2> QED BY <2>2 DEF Apart
<1>4. \A q : /\ Apart(WorkAt, SourceName, q) => Append(WorkAt, SourceName) # q
             /\ Apart(OutAt, NameOf(2), q) => Append(OutAt, NameOf(2)) # q
  BY <1>1, AppendApart
<1>5. Home # OutAt /\ WorkAt # OutAt
  <2>1. Len(Home) # Len(OutAt) /\ Len(WorkAt) # Len(OutAt)
    BY <1>1
  <2> QED BY <2>1
<1> QED BY <1>2, <1>3, <1>4, <1>5, NoRoot

(* The tree that the request meets has the shape that is kept.             *)
LEMMA WorkspaceShaped ==
  ASSUME paths = [place \in Place |-> PathOf(place)]
  PROVE  Shaped(Workspace, FALSE)
<1> DEFINE In(path) == Home \o SubSeq(path, 2, Len(path))
           sourceNode ==
             IF "source" \notin DOMAIN wrong THEN {File}
             ELSE CASE wrong["source"] = "missing" -> {}
                    [] wrong["source"] = "directory" -> {Directory}
                    [] wrong["source"] = "device" -> {Device}
                    [] wrong["source"] = "outside" -> {LinkTo(Append(Outside, <<"s">>))}
                    [] wrong["source"] = "dangling" -> {LinkTo(Append(Outside, <<"nothing">>))}
                    [] OTHER -> {File}
           outDirNode ==
             IF "out_dir" \notin DOMAIN wrong THEN {Directory}
             ELSE CASE wrong["out_dir"] \in {"missing", "unmakeable"} -> {}
                    [] wrong["out_dir"] = "file" -> {File}
                    [] wrong["out_dir"] = "outside" -> {LinkTo(Outside)}
                    [] OTHER -> {Directory}
           firstNode == IF Is("first", "exists") THEN {File} ELSE {}
           secondNode == IF Is("second", "escapes") THEN {LinkTo(Append(Outside, <<"2">>))} ELSE {}
           plainPaths == {<< >>, Home, In(WorkingDirectory), Outside, Append(Outside, <<"out">>)}
           linked == {1} \cap (IF Home = Root THEN {} ELSE {1})
           nodes ==
             {<<path, Directory>> : path \in plainPaths}
               \cup {<<Append(Outside, name), File>> : name \in {<<"s">>, <<"2">>}}
               \cup {<<Root, LinkTo(Home)>> : x \in linked}
               \cup {<<In(paths["source"]), node>> : node \in sourceNode}
               \cup {<<In(paths["out_dir"]), node>> : node \in outDirNode}
               \cup {<<In(paths["first"]), node>> : node \in firstNode}
               \cup {<<In(paths["second"]), node>> : node \in secondNode}
           space == [path \in {node[1] : node \in nodes} |-> (CHOOSE node \in nodes : node[1] = path)[2]]
<1>1. Workspace = space
  BY DEF Workspace
<1>2. /\ In(WorkingDirectory) = WorkAt
      /\ In(paths["source"]) = Append(WorkAt, SourceName)
      /\ In(paths["out_dir"]) = OutAt
      /\ In(paths["first"]) = Append(OutAt, NameOf(1))
      /\ In(paths["second"]) = Append(OutAt, NameOf(2))
  <2>1. /\ paths["source"] = PathOf("source") /\ paths["out_dir"] = OutDir
        /\ paths["first"] = PathOf("first") /\ paths["second"] = PathOf("second")
    BY DEF Place, PathOf
  <2>2. \A path : In(path) = AtHome(path)
    BY DEF AtHome
  <2>3. "source" \in Output /\ "first" \in Output /\ "second" \in Output
    BY DEF Output
  <2>4. /\ NameAt("source") = SourceName /\ NameAt("first") = NameOf(1) /\ NameAt("second") = NameOf(2)
    BY DEF NameAt
  <2> HIDE DEF In
  <2> QED BY <2>1, <2>2, <2>3, <2>4, AtHomeIs
<1>3. sourceNode \subseteq {File, Directory, Device, LinkTo(Append(Outside, <<"s">>)),
                            LinkTo(Append(Outside, <<"nothing">>))}
  OBVIOUS
<1>4. outDirNode \subseteq {File, Directory, LinkTo(Outside)}
  OBVIOUS
<1>5. firstNode \subseteq {File} /\ secondNode \subseteq {LinkTo(Append(Outside, <<"2">>))}
  OBVIOUS
<1>6. linked \subseteq {1} /\ (linked # {} <=> Home # Root)
  OBVIOUS
<1>7. plainPaths = {<< >>, Home, WorkAt, Outside, OutsideOut}
  BY <1>2 DEF OutsideOut
<1> HIDE DEF In, sourceNode, outDirNode, firstNode, secondNode, plainPaths, linked
<1>8. ASSUME NEW n \in nodes
      PROVE  Met(n[1], n[2])
  <2>1. CASE \E path \in plainPaths : n = <<path, Directory>>
    <3>1. PICK path \in plainPaths : n = <<path, Directory>>
      BY <2>1
    <3>2. path # Root \/ Home = Root
      BY <1>7, NoRoot
    <3> QED BY <3>1, <3>2, PlainIsMet
  <2>2. CASE \E name \in {<<"s">>, <<"2">>} : n = <<Append(Outside, name), File>>
    <3>1. PICK name : n = <<Append(Outside, name), File>>
      BY <2>2
    <3>2. Append(Outside, name) # Root
      BY NoRoot
    <3> QED BY <3>1, <3>2, PlainIsMet
  <2>3. CASE \E x \in linked : n = <<Root, LinkTo(Home)>>
    <3>1. n[1] = Root /\ n[2] = LinkTo(Home) /\ Home # Root
      BY <1>6, <2>3
    <3>2. Home \in Seq(PathName)
      BY Directories
    <3> QED BY <3>1, <3>2, PlainNodes DEF Met
  <2>4. CASE \E node \in sourceNode : n = <<In(paths["source"]), node>>
    BY <1>2, <1>3, <2>4, SourceIsMet
  <2>5. CASE \E node \in outDirNode : n = <<In(paths["out_dir"]), node>>
    BY <1>2, <1>4, <2>5, OutDirIsMet
  <2>6. CASE \E node \in firstNode : n = <<In(paths["first"]), node>>
    <3>1. n[1] = Append(OutAt, NameOf(1)) /\ n[2] = File
      BY <1>2, <1>5, <2>6
    <3>2. n[1] # Root
      BY <3>1, NoRoot
    <3> QED BY <3>1, <3>2, PlainIsMet
  <2>7. CASE \E node \in secondNode : n = <<In(paths["second"]), node>>
    BY <1>2, <1>5, <2>7, SecondIsMet
  <2> QED BY <2>1, <2>2, <2>3, <2>4, <2>5, <2>6, <2>7
<1>9. /\ Home # Root => <<Root, LinkTo(Home)>> \in nodes
      /\ <<Outside, Directory>> \in nodes /\ <<OutsideOut, Directory>> \in nodes
  <2>1. Home # Root => 1 \in linked
    BY <1>6
  <2>2. Outside \in plainPaths /\ OutsideOut \in plainPaths
    BY <1>7
  <2> QED BY <2>1, <2>2
<1> HIDE DEF nodes
<1>10. DOMAIN space = {node[1] : node \in nodes}
  OBVIOUS
<1>11. ASSUME NEW p \in DOMAIN space
       PROVE  Met(p, space[p])
  <2>1. \E node \in nodes : node[1] = p
    BY <1>10
  <2>2. space[p] = (CHOOSE node \in nodes : node[1] = p)[2]
    BY <1>10
  <2> DEFINE node == CHOOSE node \in nodes : node[1] = p
  <2>3. node \in nodes /\ node[1] = p
    BY <2>1
  <2> HIDE DEF node
  <2>4. Met(node[1], node[2])
    BY <1>8, <2>3
  <2> QED BY <2>2, <2>3, <2>4 DEF node
<1>12. /\ Home # Root => Root \in DOMAIN space
       /\ Outside \in DOMAIN space /\ OutsideOut \in DOMAIN space
  BY <1>9, <1>10
<1> HIDE DEF space
<1>13. LinksAmong(space, PathName) /\ \A p \in DOMAIN space : IsLink(space, p) \/ space[p].to = << >>
  BY <1>11 DEF Met, LinksAmong, IsLink
<1>14. Home # Root => IsLink(space, Root) /\ space[Root].to = Home
  BY <1>11, <1>12, PlainNodes DEF Met, IsLink
<1>15. \A p : IsLink(space, p) =>
          \/ p = Root /\ space[p].to = Home /\ Home # Root
          \/ p = Append(WorkAt, SourceName)
          \/ p = OutAt /\ space[p].to = Outside
          \/ p = Append(OutAt, NameOf(2))
  BY <1>11 DEF Met, IsLink
<1>16. /\ ~IsLink(space, Home) /\ ~IsLink(space, WorkAt)
       /\ IsLink(space, OutAt) => space[OutAt].to = Outside
  BY <1>15, DirectoriesApart
<1>17. \A p \in DOMAIN space : Within(p, Outside) => ~IsLink(space, p)
  <2>1. /\ ~Within(Root, Outside) /\ ~Within(OutAt, Outside)
        /\ ~Within(Append(WorkAt, SourceName), Outside) /\ ~Within(Append(OutAt, NameOf(2)), Outside)
    BY Directories, Whereabouts
  <2> QED BY <1>15, <2>1
<1>18. Shaped(space, FALSE)
  BY <1>12, <1>13, <1>14, <1>16, <1>17 DEF Shaped
<1> QED BY <1>1, <1>18

(* Where a link leads out of the workspace, the directory that is really   *)
(* meant is there, and so is its entry.                                    *)
LEMMA LedAway ==
  ASSUME NEW where, NEW moved \in BOOLEAN, Shaped(where, moved), NEW place \in Output,
         ~Straight(where, moved, place)
  PROVE  /\ RealDir(where, moved, place) \in {Outside, OutsideOut}
         /\ Exists(where, DirOf(place))
         /\ Lstat(where, DirOf(place))
         /\ Real(where, PathOf(place)) = Entry(where, PathOf(place))
         /\ Entry(where, PathOf(place)) = Append(RealDir(where, moved, place), NameAt(place))
<1> DEFINE it == RealDir(where, moved, place)
           name == NameAt(place)
<1>1. it \in {Outside, OutsideOut}
  BY DEF RealDir, Straight
<1>2. Real(where, DirOf(place)) = it /\ Entry(where, PathOf(place)) = Append(it, name)
  BY EntryIs
<1>3. Exists(where, DirOf(place))
  BY <1>1, <1>2 DEF Exists, Shaped
<1>4. Lstat(where, DirOf(place))
  <2>1. CASE place = "source"
    <3>1. Entry(where, DirOf(place)) = WorkAt
      BY <2>1, WorkingEntry DEF DirOf
    <3>2. WorkAt \in DOMAIN where
      BY <2>1 DEF Straight, Shaped, IsLink
    <3> QED BY <3>1, <3>2 DEF Lstat
  <2>2. CASE place # "source"
    <3> DEFINE o == <<"out">>
    <3>1. WorkingDirectory \in Seq(PathName) /\ o \in PathName /\ OutDir = Append(WorkingDirectory, o)
      BY Directories
    <3>2. OutsideOut = Append(Outside, o) /\ OutAt = Append(WorkAt, o)
      BY DEF OutsideOut, OutAt
    <3> HIDE DEF o
    <3>3. Front(OutDir) = WorkingDirectory /\ Last(OutDir) = o
      BY <3>1, AppendIs
    <3>4. Entry(where, OutDir) = IF moved THEN OutsideOut ELSE OutAt
      BY <3>2, <3>3, RealDirectories DEF Entry
    <3>5. Entry(where, OutDir) \in DOMAIN where
      BY <2>2, <3>4 DEF Straight, Shaped, IsLink
    <3> QED BY <2>2, <3>5 DEF Lstat, DirOf
  <2> QED BY <2>1, <2>2
<1>5. name \in PathName /\ DirOf(place) \in Seq(PathName) /\ PathOf(place) = Append(DirOf(place), name)
  BY PathOfOutput
<1>6. ~IsLink(where, Append(it, name))
  <2>1. Within(Append(it, name), Outside)
    BY <1>1, <1>5, Whereabouts
  <2> QED BY <2>1 DEF Shaped, IsLink
<1>7. Real(where, PathOf(place)) = Append(it, name)
  <2>1. Real(where, Append(DirOf(place), name)) = Followed(where, Append(Real(where, DirOf(place)), name))
    BY <1>5, RealAppend DEF Shaped
  <2> QED BY <1>2, <1>5, <1>6, <2>1 DEF Followed
<1> QED BY <1>1, <1>2, <1>3, <1>4, <1>7

(* Of a path that is not there, but its directory is, that is resolved.    *)
LEMMA MissingInThere ==
  ASSUME NEW T, NEW where, NEW root \in Seq(T), Len(root) = 1,
         NEW dir \in Seq(T), Len(dir) >= 2, NEW name \in T,
         Within(Append(dir, name), root),
         Exists(where, dir), Lstat(where, dir), ~Lstat(where, Append(dir, name)),
         Real(where, dir) \in Seq(T)
  PROVE  ResolveMissing(where, Append(dir, name), root) = Resolved(Append(Real(where, dir), name))
<1> DEFINE path == Append(dir, name)
           k == Len(dir)
           base == IF Within(path, root) THEN root ELSE Real(where, root)
           Good(n) == /\ n = Len(base) \/ Lstat(where, SubSeq(path, 1, n))
                      /\ \A m \in (n + 1)..Len(path) : ~Lstat(where, SubSeq(path, 1, m))
           there == CHOOSE n \in Len(base)..Len(path) : Good(n)
<1>1. path \in Seq(T) /\ Len(path) = k + 1 /\ path[k + 1] = name /\ k \in Nat /\ Front(path) = dir
      /\ \A i \in 1..k : path[i] = dir[i]
  BY AppendIs
<1>a. base = root
  OBVIOUS
<1>b. ResolveMissing(where, path, root)
        = IF ~Within(path, root) /\ ~Within(path, Real(where, root)) THEN Resolved(path)
          ELSE LET parent == IF there = Len(base) THEN Resolved(Real(where, root))
                             ELSE ResolveExisting(where, SubSeq(path, 1, there))
               IN IF parent.error # "none" THEN parent
                  ELSE Resolved(parent.path \o SubSeq(path, there + 1, Len(path)))
  BY DEF ResolveMissing
<1> HIDE DEF path, base
<1>2. SubSeq(path, 1, k) = dir
  BY <1>1 DEF Front
<1>3. SubSeq(path, 1, k + 1) = path
  BY <1>1
<1>4. SubSeq(path, k + 1, k + 1) = <<name>>
  <2>1. Len(SubSeq(path, k + 1, k + 1)) = 1 /\ SubSeq(path, k + 1, k + 1) \in Seq(T)
    BY <1>1
  <2>2. SubSeq(path, k + 1, k + 1)[1] = path[k + 1]
    BY <1>1
  <2> DEFINE s == SubSeq(path, k + 1, k + 1)
  <2> HIDE DEF s
  <2>3. s \in Seq(T) /\ Len(s) = 1 /\ s[1] = name
    BY <1>1, <2>1, <2>2 DEF s
  <2>4. s = <<name>>
    BY <2>3
  <2> QED BY <2>4 DEF s
<1> HIDE DEF k
<1>5. k \in Len(base)..Len(path) /\ k # Len(base) /\ Len(path) \in Nat
  BY <1>1, <1>a DEF k
<1>6. Good(k)
  <2>1. ASSUME NEW m \in (k + 1)..Len(path)
        PROVE  ~Lstat(where, SubSeq(path, 1, m))
    <3>1. m = k + 1
      BY <1>1
    <3> QED BY <1>3, <3>1 DEF path
  <2> QED BY <1>2, <2>1
<1>7. ASSUME NEW n \in Len(base)..Len(path), Good(n)
      PROVE  n = k
  <2>1. CASE n < k
    <3>1. k \in (n + 1)..Len(path)
      BY <1>1, <1>5, <2>1
    <3> QED BY <1>2, <1>7, <3>1
  <2>2. CASE n > k
    <3>1. n = k + 1 /\ n # Len(base)
      BY <1>1, <1>5, <2>2
    <3> QED BY <1>3, <1>7, <3>1 DEF path
  <2> QED BY <1>1, <2>1, <2>2
<1>8. there = k
  <2> HIDE DEF Good
  <2>1. there \in Len(base)..Len(path) /\ Good(there)
    BY <1>5, <1>6
  <2> HIDE DEF there
  <2> QED BY <1>7, <2>1
<1>9. ResolveExisting(where, dir) = Resolved(Real(where, dir))
  BY DEF ResolveExisting
<1>10. Resolved(Real(where, dir)).error = "none" /\ Resolved(Real(where, dir)).path = Real(where, dir)
  BY DEF Resolved
<1> HIDE DEF there, Good
<1>11. Within(path, root)
  BY DEF path
<1>12. ResolveMissing(where, path, root) = Resolved(Real(where, dir) \o <<name>>)
  BY <1>1, <1>2, <1>4, <1>5, <1>8, <1>9, <1>10, <1>11, <1>b
<1>13. Real(where, dir) \o <<name>> = Append(Real(where, dir), name)
  OBVIOUS
<1> QED BY <1>12, <1>13 DEF path

LEMMA PathInRoot ==
  ASSUME NEW place \in Output
  PROVE  Within(PathOf(place), Root) /\ Len(DirOf(place)) >= 2 /\ PathOf(place) # << >>
<1>1. Root \in Seq(PathName) /\ Len(Root) = 1 /\ OutDir = Append(WorkingDirectory, <<"out">>)
      /\ WorkingDirectory = Append(Root, <<"d">>)
  BY Directories
<1>2. ASSUME NEW p \in Seq(PathName), Len(p) >= 1, p[1] = Root[1], NEW name \in PathName
      PROVE  /\ Append(p, name) \in Seq(PathName) /\ Len(Append(p, name)) = Len(p) + 1
             /\ Append(p, name)[1] = Root[1]
  <2>1. /\ Append(p, name) \in Seq(PathName) /\ Len(Append(p, name)) = Len(p) + 1
        /\ \A i \in 1..Len(p) : Append(p, name)[i] = p[i]
    BY AppendIs
  <2>2. 1 \in 1..Len(p)
    BY <1>2
  <2> QED BY <1>2, <2>1, <2>2
<1>3. <<"d">> \in PathName /\ <<"out">> \in PathName
  BY Directories
<1>4. /\ WorkingDirectory \in Seq(PathName) /\ Len(WorkingDirectory) = 2
      /\ WorkingDirectory[1] = Root[1]
  <2>1. Len(Root) >= 1
    BY <1>1
  <2>2. /\ WorkingDirectory \in Seq(PathName) /\ Len(WorkingDirectory) = Len(Root) + 1
        /\ WorkingDirectory[1] = Root[1]
    BY <1>1, <1>2, <1>3, <2>1
  <2> QED BY <1>1, <2>2
<1>5. OutDir \in Seq(PathName) /\ Len(OutDir) = 3 /\ OutDir[1] = Root[1]
  <2>1. Len(WorkingDirectory) >= 1
    BY <1>4
  <2>2. /\ OutDir \in Seq(PathName) /\ Len(OutDir) = Len(WorkingDirectory) + 1
        /\ OutDir[1] = Root[1]
    BY <1>1, <1>2, <1>3, <1>4, <2>1
  <2> QED BY <1>4, <2>2
<1>6. /\ DirOf(place) \in Seq(PathName) /\ Len(DirOf(place)) >= 2
      /\ DirOf(place)[1] = Root[1]
  BY <1>4, <1>5 DEF DirOf
<1>7. NameAt(place) \in PathName /\ PathOf(place) = Append(DirOf(place), NameAt(place))
  BY PathOfOutput
<1>8. /\ PathOf(place) \in Seq(PathName) /\ Len(PathOf(place)) = Len(DirOf(place)) + 1
      /\ PathOf(place)[1] = Root[1]
  <2>1. Len(DirOf(place)) >= 1
    BY <1>6
  <2> QED BY <1>2, <1>6, <1>7, <2>1
<1>9. Len(PathOf(place)) >= 1
  BY <1>6, <1>8
<1>10. Within(PathOf(place), Root)
  BY <1>1, <1>8, <1>9, WithinOne
<1>11. PathOf(place) # << >>
  <2>1. Len(<< >>) = 0
    OBVIOUS
  <2> QED BY <1>9, <2>1
<1> QED BY <1>6, <1>10, <1>11

(* A path whose directory a link leads away is refused, whether there is   *)
(* something at the path already or not.                                   *)
LEMMA LedAwayIsRefused ==
  ASSUME NEW where, NEW moved \in BOOLEAN, Shaped(where, moved), NEW place \in Output,
         ~Straight(where, moved, place)
  PROVE  ValidatePath(where, PathOf(place), Root) # "none"
<1> DEFINE it == RealDir(where, moved, place)
           name == NameAt(place)
           dir == DirOf(place)
           path == PathOf(place)
           candidate == ResolveCandidate(where, path, Root)
<1>1. /\ it \in {Outside, OutsideOut} /\ it \in Seq(PathName)
      /\ Exists(where, dir) /\ Lstat(where, dir)
      /\ Real(where, path) = Entry(where, path) /\ Entry(where, path) = Append(it, name)
      /\ Real(where, dir) = it
  BY LedAway, EntryIs
<1>2. /\ path = Append(dir, name) /\ dir \in Seq(PathName) /\ name \in PathName
      /\ Within(path, Root) /\ Len(dir) >= 2 /\ path # << >>
  BY PathOfOutput, PathInRoot
<1>3. Real(where, Root) = Home
  BY RealDirectories
<1>4. ~Within(Append(it, name), Home)
  BY <1>1, <1>2, Whereabouts
<1>5. candidate.error # "none" \/ candidate.path = Append(it, name)
  <2>1. CASE ThroughFile(where, path)
    BY <2>1 DEF ResolveCandidate, Failed
  <2>2. CASE ~ThroughFile(where, path) /\ Lstat(where, path)
    <3>1. candidate = ResolveExisting(where, path)
      BY <2>2 DEF ResolveCandidate
    <3>2. Exists(where, path)
      BY <1>1, <1>2, <2>2 DEF Lstat, Exists
    <3> QED BY <1>1, <3>1, <3>2 DEF ResolveExisting, Resolved
  <2>3. CASE ~ThroughFile(where, path) /\ ~Lstat(where, path)
    <3>1. candidate = ResolveMissing(where, path, Root)
      BY <2>3 DEF ResolveCandidate
    <3>2. Root \in Seq(PathName) /\ Len(Root) = 1
      BY Directories
    <3> HIDE DEF dir, name, it
    <3>3. ResolveMissing(where, Append(dir, name), Root) = Resolved(Append(Real(where, dir), name))
      <4>1. Within(Append(dir, name), Root) /\ ~Lstat(where, Append(dir, name)) /\ Real(where, dir) \in Seq(PathName)
        BY <1>1, <1>2, <2>3
      <4> QED BY <1>1, <1>2, <3>2, <4>1, MissingInThere
    <3> QED BY <1>1, <1>2, <3>1, <3>3 DEF Resolved
  <2> QED BY <2>1, <2>2, <2>3
<1> HIDE DEF candidate, it, name
<1>6. ~Within(candidate.path, Real(where, Root)) \/ candidate.error # "none"
  BY <1>3, <1>4, <1>5
<1> QED BY <1>6 DEF ValidatePath, candidate
-----------------------------------------------------------------------------
(* The names of the two outputs of a request differ, whoever chose them.   *)
LEMMA NamesAreListed ==
  ASSUME Sound
  PROVE  DOMAIN Names = 1..Len(Names)
<1>1. CASE "names" \notin DOMAIN wrong
  BY <1>1 DEF Names
<1>2. CASE "names" \in DOMAIN wrong
  <2>1. wrong["names"] \in Kinds(request.tool, "names")
    BY <1>2, WrongIs DEF Sound
  <2>2. wrong["names"] \in {"fine", "same", "twice", "too_few", "nested", "above", "control", "device",
                            "empty", "blank"}
    BY <2>1 DEF Kinds, CallParts
  <2>3. \A a : DOMAIN <<a>> = 1..Len(<<a>>)
    OBVIOUS
  <2>4. \A a, b : DOMAIN <<a, b>> = 1..Len(<<a, b>>)
    OBVIOUS
  <2>5. (\E a : Names = <<a>>) \/ (\E a, b : Names = <<a, b>>)
    BY <1>2, <2>2, Zenon DEF Names
  <2> QED BY <2>3, <2>4, <2>5
<1> QED BY <1>1, <1>2

LEMMA NamesOfOutputsDiffer ==
  ASSUME Sound
  PROVE  NameOf(1) # NameOf(2)
<1> DEFINE named == ApplyExplicitNames(Names, Generated, Extension)
           names == [i \in DOMAIN Names |-> Basename(Names[i], Extension)]
           ErrorAt(i) ==
             IF FragmentError(Names[i], Extension) # "none"
             THEN FragmentError(Names[i], Extension)
             ELSE IF \E j \in 1..(i - 1) : names[j] = names[i] THEN "duplicate_explicit_names"
             ELSE "none"
           failing == {i \in DOMAIN Names : ErrorAt(i) # "none"}
<1>1. Generated[1] # Generated[2] /\ Len(Generated) = 2
  BY DEF Generated
<1>2. CASE named.error # "none"
  BY <1>1, <1>2 DEF NameOf
<1>3. CASE named.error = "none" /\ Names = << >>
  BY <1>1, <1>3 DEF NameOf, ApplyExplicitNames, Named
<1>4. CASE named.error = "none" /\ Names # << >>
  <2>1. Len(Names) = 2 /\ named = ApplyExplicitBasenames(Names, Extension)
    BY <1>1, <1>4 DEF ApplyExplicitNames, Misnamed
  <2>2. DOMAIN Names = {1, 2}
    <3>1. DOMAIN Names = 1..Len(Names)
      BY NamesAreListed
    <3> QED BY <2>1, <3>1
  <2>3. failing = {}
    <3>1. SUFFICES ASSUME failing # {} PROVE FALSE
      OBVIOUS
    <3> DEFINE least == CHOOSE i \in failing : \A j \in failing : i <= j
    <3>2. named = Misnamed(ErrorAt(least))
      BY <2>1, <3>1 DEF ApplyExplicitBasenames
    <3>3. \E i \in failing : \A j \in failing : i <= j
      <4>1. failing \subseteq Nat
        BY <2>2
      <4> HIDE DEF failing
      <4> QED BY <3>1, <4>1, LeastNumber
    <3>4. least \in failing
      BY <3>3
    <3>5. ErrorAt(least) # "none"
      BY <3>4
    <3> HIDE DEF ErrorAt, least, named
    <3> QED BY <1>4, <3>2, <3>5 DEF Misnamed
  <2>4. named = Named(names)
    BY <2>1, <2>3 DEF ApplyExplicitBasenames
  <2>5. ErrorAt(2) = "none"
    BY <2>2, <2>3
  <2>6. names[1] # names[2]
    <3>1. 1 \in 1..(2 - 1)
      OBVIOUS
    <3> HIDE DEF names
    <3> QED BY <2>5, <3>1
  <2> HIDE DEF names
  <2>7. NameOf(1) = names[1] /\ NameOf(2) = names[2]
    BY <1>4, <2>4 DEF NameOf, Named
  <2> QED BY <2>6, <2>7
<1> QED BY <1>2, <1>3, <1>4

-----------------------------------------------------------------------------
(* A path is validated before anything is written to it, and a transform   *)
(* writes nothing but the source, which the other tools do not write.      *)
Writes == {"publish", "transform"}

Written(tool) == IF tool = "transform" THEN {"source"} ELSE {"first", "second"}

Prepared(steps, tool) ==
  \A k \in 1..Len(steps) :
    steps[k].do \in Writes =>
      /\ steps[k].on \in Written(tool)
      /\ \E i \in 1..(k - 1) : steps[i] = Step("validate", steps[k].on)

LEMMA NothingToPrepare ==
  ASSUME NEW steps, \A k \in 1..Len(steps) : steps[k].do \notin Writes, NEW tool
  PROVE  Prepared(steps, tool)
  BY DEF Prepared

LEMMA PreparedBoth ==
  ASSUME NEW s \in Seq(StepRecord), NEW t \in Seq(StepRecord), NEW tool,
         Prepared(s, tool), Prepared(t, tool)
  PROVE  Prepared(s \o t, tool)
<1> DEFINE all == s \o t
<1>1. /\ Len(all) = Len(s) + Len(t) /\ Len(s) \in Nat /\ Len(t) \in Nat
      /\ \A i \in 1..Len(s) : all[i] = s[i]
      /\ \A i \in 1..Len(t) : all[Len(s) + i] = t[i]
  OBVIOUS
<1> HIDE DEF all
<1>2. ASSUME NEW k \in 1..Len(all), all[k].do \in Writes
      PROVE  /\ all[k].on \in Written(tool)
             /\ \E i \in 1..(k - 1) : all[i] = Step("validate", all[k].on)
  <2>1. CASE k \in 1..Len(s)
    <3>1. all[k] = s[k]
      BY <1>1, <2>1
    <3>2. s[k].on \in Written(tool)
      BY <1>2, <2>1, <3>1 DEF Prepared
    <3>3. PICK i \in 1..(k - 1) : s[i] = Step("validate", s[k].on)
      BY <1>2, <2>1, <3>1 DEF Prepared
    <3>4. i \in 1..Len(s)
      BY <1>1, <2>1
    <3> QED BY <1>1, <3>1, <3>2, <3>3, <3>4
  <2>2. CASE k \notin 1..Len(s)
    <3> DEFINE j == k - Len(s)
    <3>1. j \in 1..Len(t) /\ Len(s) + j = k
      BY <1>1, <2>2
    <3> HIDE DEF j
    <3>2. all[k] = t[j]
      BY <1>1, <3>1
    <3>3. t[j].on \in Written(tool)
      BY <1>2, <3>1, <3>2 DEF Prepared
    <3>4. PICK i \in 1..(j - 1) : t[i] = Step("validate", t[j].on)
      BY <1>2, <3>1, <3>2 DEF Prepared
    <3>5. i \in 1..Len(t) /\ Len(s) + i \in 1..(k - 1)
      BY <1>1, <3>1
    <3>6. all[Len(s) + i] = t[i]
      BY <1>1, <3>5
    <3> QED BY <3>2, <3>3, <3>4, <3>5, <3>6
  <2> QED BY <2>1, <2>2
<1>3. Prepared(all, tool)
  BY <1>2 DEF Prepared
<1> QED BY <1>3 DEF all

LEMMA PlacesAreParts ==
  /\ "source" \in Part /\ "out_dir" \in Part /\ "first" \in Part /\ "second" \in Part
  /\ \A deed \in {"validate", "open", "vacant", "scan", "mkdir", "publish", "extension", "names"} :
       \A place \in {"source", "out_dir", "first", "second"} : Step(deed, place) \in StepRecord
<1>1. "source" \in Part /\ "out_dir" \in Part /\ "first" \in Part /\ "second" \in Part
  BY PartsAre
<1>2. {"validate", "open", "vacant", "scan", "mkdir", "publish", "extension", "names"} \subseteq Deed
  BY DEF Deed
<1> QED BY <1>1, <1>2, StepTyped

(* The steps of extract: the destination is validated before the scan.     *)
LEMMA ExtractPrepared ==
  ASSUME NEW preview \in BOOLEAN
  PROVE  Prepared(ExtractSteps(preview), "extract")
<1> DEFINE s == <<Step("validate", "source"), Step("open", "source"), Step("validate", "first")>>
           p == <<Step("vacant", "first"), Step("scan", "source")>>
           w == <<Step("scan", "source"), Step("mkdir", "out_dir"), Step("publish", "first")>>
<1>1. s \in Seq(StepRecord) /\ p \in Seq(StepRecord) /\ w \in Seq(StepRecord)
  BY PlacesAreParts
<1>2. /\ Len(s) = 3 /\ s[1].do = "validate" /\ s[2].do = "open" /\ s[3].do = "validate"
      /\ s[3] = Step("validate", "first")
      /\ Len(p) = 2 /\ p[1].do = "vacant" /\ p[2].do = "scan"
      /\ Len(w) = 3 /\ w[1].do = "scan" /\ w[2].do = "mkdir"
      /\ w[3].do = "publish" /\ w[3].on = "first"
  BY DEF Step
<1>3. ExtractSteps(preview) = s \o (IF preview THEN p ELSE w)
  BY DEF ExtractSteps
<1> HIDE DEF s, p, w
<1>4. CASE preview
  <2>1. \A k \in 1..Len(s) : s[k].do \notin Writes
    BY <1>2 DEF Writes
  <2>2. \A k \in 1..Len(p) : p[k].do \notin Writes
    BY <1>2 DEF Writes
  <2>3. Prepared(s, "extract") /\ Prepared(p, "extract")
    BY <2>1, <2>2, NothingToPrepare
  <2>4. Prepared(s \o p, "extract")
    BY <1>1, <2>3, PreparedBoth
  <2> QED BY <1>3, <1>4, <2>4
<1>5. CASE ~preview
  <2> DEFINE all == s \o w
  <2>0. /\ Len(all) = Len(s) + Len(w)
        /\ \A i \in 1..Len(s) : all[i] = s[i]
        /\ \A i \in 1..Len(w) : all[Len(s) + i] = w[i]
    BY <1>1
  <2> HIDE DEF all
  <2>1. /\ Len(all) = 6 /\ \A i \in 1..3 : all[i] = s[i] /\ all[3 + i] = w[i]
    BY <1>2, <2>0
  <2>2. ASSUME NEW k \in 1..6, k # 6
        PROVE  all[k].do \notin Writes
    <3>1. CASE k \in 1..3
      <4>1. all[k] = s[k]
        BY <2>1, <3>1
      <4> QED BY <1>2, <3>1, <4>1 DEF Writes
    <3>2. CASE k = 4
      <4>1. all[4] = w[1]
        <5>1. 1 \in 1..3 /\ 3 + 1 = 4
          OBVIOUS
        <5> QED BY <2>1, <5>1
      <4> QED BY <1>2, <3>2, <4>1 DEF Writes
    <3>3. CASE k = 5
      <4>1. all[5] = w[2]
        <5>1. 2 \in 1..3 /\ 3 + 2 = 5
          OBVIOUS
        <5> QED BY <2>1, <5>1
      <4> QED BY <1>2, <3>3, <4>1 DEF Writes
    <3> QED BY <2>2, <3>1, <3>2, <3>3
  <2>3. all[6] = w[3] /\ all[3] = s[3]
    <3>1. 3 \in 1..3 /\ 3 + 3 = 6
      OBVIOUS
    <3> QED BY <2>1, <3>1
  <2>4. all[6].on \in Written("extract") /\ all[3] = Step("validate", all[6].on)
    BY <1>2, <2>3 DEF Written
  <2>5. 3 \in 1..(6 - 1)
    OBVIOUS
  <2>6. Prepared(all, "extract")
    BY <2>1, <2>2, <2>4, <2>5 DEF Prepared
  <2> QED BY <1>3, <1>5, <2>6 DEF all
<1> QED BY <1>4, <1>5

LEMMA SplitPrepared ==
  ASSUME NEW preview \in BOOLEAN, NEW tool, tool # "transform"
  PROVE  Prepared(SplitSteps(preview), tool)
<1>1. /\ PlanSteps \in Seq(StepRecord) /\ PreviewSteps \in Seq(StepRecord)
      /\ WriteSteps \in Seq(StepRecord)
  BY PlacesAreParts DEF PlanSteps, PreviewSteps, WriteSteps
<1>2. \A k \in 1..Len(PlanSteps) : PlanSteps[k].do \notin Writes
  BY DEF PlanSteps, Step, Writes
<1>3. \A k \in 1..Len(PreviewSteps) : PreviewSteps[k].do \notin Writes
  BY DEF PreviewSteps, Step, Writes
<1>4. /\ Len(WriteSteps) = 5
      /\ WriteSteps[1] = Step("mkdir", "out_dir")
      /\ WriteSteps[2] = Step("validate", "first") /\ WriteSteps[3] = Step("publish", "first")
      /\ WriteSteps[4] = Step("validate", "second") /\ WriteSteps[5] = Step("publish", "second")
  BY DEF WriteSteps
<1>5. \A deed, place : Step(deed, place).do = deed /\ Step(deed, place).on = place
  BY DEF Step
<1>6. ASSUME NEW k \in 1..Len(WriteSteps), WriteSteps[k].do \in Writes
      PROVE  /\ WriteSteps[k].on \in Written(tool)
             /\ \E i \in 1..(k - 1) : WriteSteps[i] = Step("validate", WriteSteps[k].on)
  <2>1. k \in {1, 2, 3, 4, 5}
    BY <1>4
  <2>2. k \notin {1, 2, 4}
    BY <1>4, <1>5, <1>6 DEF Writes
  <2>3. CASE k = 3
    <3>1. WriteSteps[k].on = "first" /\ 2 \in 1..(k - 1)
      BY <1>4, <1>5, <2>3
    <3> QED BY <1>4, <3>1 DEF Written
  <2>4. CASE k = 5
    <3>1. WriteSteps[k].on = "second" /\ 4 \in 1..(k - 1)
      BY <1>4, <1>5, <2>4
    <3> QED BY <1>4, <3>1 DEF Written
  <2> QED BY <2>1, <2>2, <2>3, <2>4
<1>7. Prepared(PlanSteps, tool) /\ Prepared(PreviewSteps, tool)
  BY <1>2, <1>3, NothingToPrepare
<1>8. Prepared(WriteSteps, tool)
  BY <1>6 DEF Prepared
<1>9. Prepared(PlanSteps \o PreviewSteps, tool) /\ Prepared(PlanSteps \o WriteSteps, tool)
  BY <1>1, <1>7, <1>8, PreparedBoth
<1> QED BY <1>9 DEF SplitSteps

LEMMA TransformPrepared == Prepared(TransformSteps, "transform")
<1>1. /\ Len(TransformSteps) = 4
      /\ TransformSteps[1] = Step("stat", "source") /\ TransformSteps[2] = Step("validate", "source")
      /\ TransformSteps[3] = Step("transform", "source") /\ TransformSteps[4] = Step("skipped", "source")
  BY DEF TransformSteps
<1>2. \A deed, place : Step(deed, place).do = deed /\ Step(deed, place).on = place
  BY DEF Step
<1>3. ASSUME NEW k \in 1..Len(TransformSteps), TransformSteps[k].do \in Writes
      PROVE  k = 3
  <2>1. k \in {1, 2, 3, 4}
    BY <1>1
  <2> QED BY <1>1, <1>2, <1>3, <2>1 DEF Writes
<1>4. 2 \in 1..(3 - 1)
  OBVIOUS
<1> QED BY <1>1, <1>2, <1>3, <1>4 DEF Prepared, Written

LEMMA StepsPrepared ==
  ASSUME request \in Request
  PROVE  Prepared(Steps, request.tool)
<1> DEFINE tool == request.tool
           looks == FrontSteps(tool)
           works == PipelineSteps(tool, request.preview)
           prints == IF front = "cli" THEN Checks(<<"stdout">>) ELSE << >>
<1>1. tool \in Tool /\ request.preview \in BOOLEAN
  BY DEF Request, FileOutputTool, Tool
<1>2. Looks(looks, tool) /\ works \in Seq(StepRecord)
  BY <1>1, FrontLooks, PipelineIs
<1>3. Prepared(works, tool)
  <2>1. CASE tool = "extract"
    BY <1>1, <2>1, ExtractPrepared DEF PipelineSteps
  <2>2. CASE tool = "split"
    BY <1>1, <2>2, SplitPrepared DEF PipelineSteps
  <2>3. CASE tool = "blocks"
    BY <1>1, <2>3, SplitPrepared DEF PipelineSteps, BlocksSteps
  <2>4. CASE tool = "transform"
    BY <2>4, TransformPrepared DEF PipelineSteps
  <2> QED BY <1>1, <2>1, <2>2, <2>3, <2>4 DEF Tool
<1>4. prints \in Seq(StepRecord) /\ \A step \in Elements(prints) : step.do = "check"
  <2>1. <<"stdout">> \in Seq(Part) /\ Elements(<<"stdout">>) = {"stdout"}
    BY PartsAre, TupleElements
  <2>2. Checks(<<"stdout">>) \in Seq(StepRecord) /\ Elements(Checks(<<"stdout">>)) = {Step("check", "stdout")}
    BY <2>1, ChecksElements
  <2>3. Step("check", "stdout").do = "check"
    BY DEF Step
  <2>4. CASE front = "cli"
    BY <2>2, <2>3, <2>4
  <2>5. CASE front # "cli"
    BY <2>5 DEF Elements
  <2> QED BY <2>4, <2>5
<1>5. looks \in Seq(StepRecord) /\ \A step \in Elements(looks) : step.do = "check"
  BY <1>2 DEF Looks, Step
<1>6. Steps = looks \o works \o prints
  BY DEF Steps
<1> HIDE DEF looks, works, prints, tool
<1>7. ASSUME NEW s \in Seq(StepRecord), \A step \in Elements(s) : step.do = "check"
      PROVE  Prepared(s, tool)
  <2>1. \A k \in 1..Len(s) : s[k] \in Elements(s)
    BY DEF Elements
  <2>2. \A k \in 1..Len(s) : s[k].do \notin Writes
    BY <1>7, <2>1 DEF Writes
  <2> QED BY <2>2, NothingToPrepare
<1>8. Prepared(looks, tool) /\ Prepared(prints, tool)
  BY <1>4, <1>5, <1>7
<1>9. looks \o works \in Seq(StepRecord) /\ Prepared(looks \o works, tool)
  BY <1>2, <1>3, <1>5, <1>8, PreparedBoth
<1>10. Prepared((looks \o works) \o prints, tool)
  BY <1>4, <1>8, <1>9, PreparedBoth
<1> QED BY <1>6, <1>10 DEF tool

(* Only the places of a request are validated.                             *)
LEMMA ValidatesPlaces ==
  ASSUME request \in Request, NEW k \in 1..Len(Steps), Steps[k].do = "validate"
  PROVE  Steps[k].on \in Place
<1>1. Steps \in Seq(StepRecord)
  BY StepsAre
<1>2. PICK n \in Nat : Begins(n, request.tool)
  BY StepsAre
<1>3. \A p : Step("check", p).do = "check"
  BY DEF Step
<1>4. Len(Steps) \in Nat
  BY <1>1
<1>5. CASE k \in 1..n
  BY <1>2, <1>3, <1>5 DEF Begins
<1>6. CASE k \notin 1..n
  <2>1. k \in (n + 1)..Len(Steps)
    BY <1>2, <1>4, <1>6
  <2>2. InPipeline(Steps[k], request.tool) \/ Steps[k] = Step("check", "stdout")
    BY <1>2, <2>1 DEF Begins
  <2> QED BY <1>3, <2>2 DEF InPipeline
<1> QED BY <1>5, <1>6

(* Only a transform transforms, and it is the source.                      *)
LEMMA TransformsTheSource ==
  ASSUME request \in Request, NEW k \in 1..Len(Steps), Steps[k].do = "transform"
  PROVE  Steps[k].on = "source"
<1>1. Steps \in Seq(StepRecord)
  BY StepsAre
<1>2. PICK n \in Nat : Begins(n, request.tool)
  BY StepsAre
<1>3. \A p : Step("check", p).do = "check"
  BY DEF Step
<1>4. Len(Steps) \in Nat /\ request.tool \in Tool
  <2>1. Len(Steps) \in Nat
    BY <1>1
  <2>2. request.tool \in Tool
    BY DEF Request, FileOutputTool, Tool
  <2> QED BY <2>1, <2>2
<1>5. CASE k \in 1..n
  BY <1>2, <1>3, <1>5 DEF Begins
<1>6. CASE k \notin 1..n
  <2>1. k \in (n + 1)..Len(Steps)
    BY <1>2, <1>4, <1>6
  <2>2. InPipeline(Steps[k], request.tool)
    BY <1>2, <1>3, <2>1 DEF Begins
  <2>3. "transform" \in PipelineDeeds(request.tool) /\ (request.tool = "transform" => Steps[k].on = "source")
    BY <2>2 DEF InPipeline
  <2> QED BY <1>4, <2>3 DEF PipelineDeeds, Span, Tool
<1> QED BY <1>5, <1>6

-----------------------------------------------------------------------------
(* What is wrong with a request does not change, nor then its names.       *)
LEMMA NamesStand ==
  ASSUME wrong' = wrong
  PROVE  /\ Home' = Home /\ WorkAt' = WorkAt /\ OutAt' = OutAt /\ PathName' = PathName
         /\ \A place \in Place : PathOf(place)' = PathOf(place)
         /\ \A place : NameAt(place)' = NameAt(place)
<1>1. Home' = Home
  BY DEF Home, Is
<1>2. WorkAt' = WorkAt
  BY <1>1 DEF WorkAt
<1>3. OutAt' = OutAt
  BY <1>2 DEF OutAt
<1>4. SourceName' = SourceName
  BY DEF SourceName, SourceText, Is
<1>5. NameOf(1)' = NameOf(1) /\ NameOf(2)' = NameOf(2)
  BY DEF NameOf, Names, Extension, SourceText, Is
<1>6. PathName' = PathName
  BY <1>4, <1>5 DEF PathName
<1>7. ASSUME NEW place \in Place
      PROVE  PathOf(place)' = PathOf(place)
  BY <1>4, <1>5 DEF PathOf
<1>8. ASSUME NEW place
      PROVE  NameAt(place)' = NameAt(place)
  BY <1>4, <1>5 DEF NameAt
<1> QED BY <1>1, <1>2, <1>3, <1>6, <1>7, <1>8

(* Whoever validated a path met a workspace that led it nowhere else, and  *)
(* since then nothing but a relink, which is noted, can lead it away: a    *)
(* directory that is made, and a file that is put in place, is no link.    *)
Moved == front \in relinked

Vouched ==
  /\ vouched \in [Place -> {"no", "validated", "stale"}]
  /\ \A place \in Output : vouched[place] = "validated" => Straight(tree, Moved, place)
  /\ \A i \in 1..Len(Steps) :
       i < at /\ Steps[i].do = "validate" => vouched[Steps[i].on] # "no"

Landed(w) ==
  /\ w.place \in Written(request.tool)
  /\ Last(w.at) = NameAt(w.place)
  /\ w.inside \/ w.vouched = "stale"

LandInv ==
  /\ paths = [place \in Place |-> PathOf(place)]
  /\ relinked \subseteq FrontEnd
  /\ front = "cli" => relinked \subseteq {"cli"}
  /\ Shaped(tree, Moved)
  /\ Vouched
  /\ \A w \in written : Landed(w)

LEMMA ShapedNext ==
  ASSUME wrong' = wrong, Shaped(tree', Moved')
  PROVE  Shaped(tree, Moved)'
<1>1. PICK where, moved : where = tree' /\ moved = Moved'
  OBVIOUS
<1>2. Shaped(where, moved)
  BY <1>1
<1>3. Home' = Home /\ WorkAt' = WorkAt /\ OutAt' = OutAt /\ PathName' = PathName
  BY NamesStand
<1> QED BY <1>1, <1>2, <1>3 DEF Shaped

LEMMA LandInvInit == Init => LandInv
<1> SUFFICES ASSUME Init
             PROVE  LandInv
  OBVIOUS
<1>1. paths = [place \in Place |-> PathOf(place)] /\ relinked = {} /\ front = "cli" /\ written = {}
  BY DEF Init
<1>2. Moved = FALSE
  BY <1>1 DEF Moved
<1>3. Shaped(tree, FALSE)
  BY <1>1, WorkspaceShaped DEF Init
<1>4. Vouched
  <2>1. vouched = [place \in Place |-> "no"] /\ at = 1
    BY DEF Init, Unvouched
  <2> QED BY <2>1 DEF Vouched, Output, Place
<1> QED BY <1>1, <1>2, <1>3, <1>4 DEF LandInv

(* A step of a front end, and what it makes of the tree.                   *)
Works ==
  /\ request' = request /\ wrong' = wrong /\ paths' = paths /\ front' = front
  /\ relinked' = relinked

LEMMA WorksStand ==
  ASSUME LandInv, Works
  PROVE  /\ paths' = [place \in Place |-> PathOf(place)'] /\ Moved' = Moved /\ Steps' = Steps
         /\ \A w : Landed(w)' <=> Landed(w)
<1>1. \A place \in Place : PathOf(place)' = PathOf(place)
  BY NamesStand DEF Works
<1>2. \A place : NameAt(place)' = NameAt(place)
  BY NamesStand DEF Works
<1>3. paths' = [place \in Place |-> PathOf(place)']
  BY <1>1 DEF LandInv, Works
<1>4. Steps' = Steps
  BY ChecksStand DEF Works
<1>5. ASSUME NEW w
      PROVE  Landed(w)' <=> Landed(w)
  BY <1>2 DEF Landed, Works, Written
<1> QED BY <1>3, <1>4, <1>5 DEF Works, Moved

(* The paths that are validated stay so, if the tree has no new links.     *)
LEMMA StillVouched ==
  ASSUME LandInv, Works, at \in Nat, at' = at + 1, at <= Len(Steps), Steps \in Seq(StepRecord),
         Steps[at].do # "validate", vouched' = vouched,
         IsLink(tree', OutAt) => IsLink(tree, OutAt)
  PROVE  Vouched'
<1>1. Moved' = Moved /\ Steps' = Steps
  BY WorksStand
<1>2. OutAt' = OutAt
  BY NamesStand DEF Works
<1>3. vouched' \in [Place -> {"no", "validated", "stale"}]
  BY DEF LandInv, Vouched
<1>4. ASSUME NEW place \in Output, vouched'[place] = "validated"
      PROVE  Straight(tree, Moved, place)'
  <2>1. Straight(tree, Moved, place)
    BY <1>4 DEF LandInv, Vouched
  <2>2. PICK later : later = tree'
    OBVIOUS
  <2>3. ~Moved' /\ (place # "source" => ~IsLink(later, OutAt))
    BY <1>1, <2>1, <2>2 DEF Straight
  <2> QED BY <1>2, <2>2, <2>3 DEF Straight, IsLink
<1>5. ASSUME NEW i \in 1..Len(Steps), i < at + 1, Steps[i].do = "validate"
      PROVE  vouched[Steps[i].on] # "no"
  <2>1. i < at
    <3>1. i # at
      BY <1>5
    <3> QED BY <1>5, <3>1
  <2> QED BY <1>5, <2>1 DEF LandInv, Vouched
<1>6. \A i \in 1..Len(Steps') : i < at' /\ Steps'[i].do = "validate" => vouched'[Steps'[i].on] # "no"
  BY <1>1, <1>5
<1> QED BY <1>3, <1>4, <1>6 DEF Vouched

LEMMA WorkKeepsLand ==
  ASSUME LandInv, Works, Shaped(tree', Moved), Vouched', \A w \in written' : Landed(w)
  PROVE  LandInv'
<1>1. paths' = [place \in Place |-> PathOf(place)'] /\ Moved' = Moved
  BY WorksStand
<1>2. Shaped(tree, Moved)'
  BY <1>1, ShapedNext DEF Works
<1>3. \A w \in written' : Landed(w)'
  BY WorksStand
<1>4. relinked' \subseteq FrontEnd /\ (front' = "cli" => relinked' \subseteq {"cli"})
  BY DEF LandInv, Works
<1> QED BY <1>1, <1>2, <1>3, <1>4 DEF LandInv

(* The other front end gets the workspace as it was, and no link replaces  *)
(* its directory yet.                                                      *)
LEMMA ReplyKeepsLand ==
  ASSUME LandInv, front \in FrontEnd, NEW answer, Reply(answer)
  PROVE  LandInv'
<1>1. /\ request' = request /\ wrong' = wrong /\ paths' = paths /\ relinked' = relinked
      /\ written' = written /\ at' = 1 /\ vouched' = Unvouched /\ tree' = Workspace
      /\ front' = (IF front = "cli" THEN "mcp" ELSE "nobody")
  BY DEF Reply
<1>2. paths = [place \in Place |-> PathOf(place)]
  BY DEF LandInv
<1>3. paths' = [place \in Place |-> PathOf(place)']
  <2>1. \A place \in Place : PathOf(place)' = PathOf(place)
    BY <1>1, NamesStand
  <2> QED BY <1>1, <1>2, <2>1
<1>4. front' \notin relinked' /\ relinked' \subseteq FrontEnd /\ front' # "cli"
  <2>1. relinked \subseteq FrontEnd /\ (front = "cli" => relinked \subseteq {"cli"})
    BY DEF LandInv
  <2> QED BY <1>1, <2>1 DEF FrontEnd
<1>5. Moved' = FALSE
  BY <1>4 DEF Moved
<1>6. Shaped(tree, Moved)'
  BY <1>1, <1>2, <1>5, WorkspaceShaped, ShapedNext
<1>7. Vouched'
  <2>1. vouched' = [place \in Place |-> "no"]
    BY <1>1 DEF Unvouched
  <2>2. \A place \in Output : vouched'[place] # "validated"
    BY <2>1 DEF Output, Place
  <2>3. \A i \in 1..Len(Steps') : ~(i < at')
    BY <1>1
  <2> QED BY <2>1, <2>2, <2>3 DEF Vouched
<1>8. \A w \in written' : Landed(w)'
  <2>1. \A place : NameAt(place)' = NameAt(place)
    BY <1>1, NamesStand
  <2>2. ASSUME NEW w \in written
        PROVE  Landed(w)'
    <3>1. Landed(w)
      BY DEF LandInv
    <3> QED BY <1>1, <2>1, <3>1 DEF Landed, Written
  <2> QED BY <1>1, <2>2
<1> QED BY <1>3, <1>4, <1>6, <1>7, <1>8 DEF LandInv

(* What a front end does, it does in its turn, and it succeeds.            *)
LEMMA DoingWorks ==
  ASSUME Sound, NEW what, Doing(what)
  PROVE  /\ Works /\ at <= Len(Steps) /\ at' = at + 1 /\ Steps[at].do = what
         /\ ErrorOf(Steps[at]) = NoError /\ Steps \in Seq(StepRecord)
<1>1. Steps \in Seq(StepRecord)
  BY StepsAre DEF Sound
<1> QED BY <1>1 DEF Doing, Works, Failing

LEMMA LookKeepsLand ==
  ASSUME LandInv, Sound, at \in Nat, Look
  PROVE  LandInv'
<1>1. PICK what \in {"check", "stat", "open", "extension", "scan", "names", "vacant", "skipped"} : Doing(what)
  BY DEF Look
<1>2. Works /\ at <= Len(Steps) /\ at' = at + 1 /\ Steps[at].do = what /\ Steps \in Seq(StepRecord)
  BY <1>1, DoingWorks
<1>3. tree' = tree /\ vouched' = vouched /\ written' = written
  BY DEF Look
<1>4. Steps[at].do # "validate"
  BY <1>2
<1>5. IsLink(tree', OutAt) => IsLink(tree, OutAt)
  BY <1>3
<1>6. Vouched'
  BY <1>2, <1>3, <1>4, <1>5, StillVouched
<1>7. Shaped(tree', Moved) /\ \A w \in written' : Landed(w)
  BY <1>3 DEF LandInv
<1> QED BY <1>2, <1>6, <1>7, WorkKeepsLand

(* A path that is validated is straight.                                   *)
LEMMA ValidatedIsStraight ==
  ASSUME LandInv, NEW place \in Output, ValidateError(place) = NoError
  PROVE  Straight(tree, Moved, place)
<1>1. Output \subseteq Place
  BY DEF Output, Place
<1>2. paths[place] = PathOf(place) /\ Shaped(tree, Moved) /\ Moved \in BOOLEAN
  BY <1>1 DEF LandInv, Moved
<1>3. \A cause : cause # "none" => Blaming(place, cause) # NoError
  <2>1. ASSUME NEW cause
        PROVE  Blaming(place, cause).cause = cause
    BY DEF Blaming, WithPathRole, Bare
  <2>2. NoError.cause = "none"
    BY DEF NoError, Bare
  <2> QED BY <2>1, <2>2
<1>4. ValidatePath(tree, paths[place], Root) = "none"
  BY <1>3 DEF ValidateError
<1> QED BY <1>2, <1>4, LedAwayIsRefused

LEMMA ValidateKeepsLand ==
  ASSUME LandInv, Sound, at \in Nat \ {0}, Validate
  PROVE  LandInv'
<1>1. /\ Works /\ at <= Len(Steps) /\ at' = at + 1 /\ Steps[at].do = "validate"
      /\ ErrorOf(Steps[at]) = NoError /\ Steps \in Seq(StepRecord)
  BY DoingWorks DEF Validate
<1>2. /\ vouched' = [vouched EXCEPT ![Steps[at].on] = "validated"]
      /\ tree' = tree /\ written' = written
  BY DEF Validate
<1>3. PICK on : on = Steps[at].on
  OBVIOUS
<1>4. on \in Place /\ at \in 1..Len(Steps)
  <2>1. at \in 1..Len(Steps)
    BY <1>1
  <2> QED BY <1>1, <1>3, <2>1, ValidatesPlaces DEF Sound
<1>5. ValidateError(on) = NoError
  BY <1>1, <1>3 DEF ErrorOf
<1>6. Moved' = Moved /\ Steps' = Steps /\ OutAt' = OutAt
  BY <1>1, WorksStand, NamesStand DEF Works
<1>7. vouched \in [Place -> {"no", "validated", "stale"}]
  BY DEF LandInv, Vouched
<1>8. /\ vouched' \in [Place -> {"no", "validated", "stale"}]
      /\ \A place \in Place : vouched'[place] = IF place = on THEN "validated" ELSE vouched[place]
  BY <1>2, <1>3, <1>4, <1>7
<1>9. ASSUME NEW place \in Output, vouched'[place] = "validated"
      PROVE  Straight(tree, Moved, place)'
  <2>1. place \in Place
    BY DEF Output, Place
  <2>2. Straight(tree, Moved, place)
    BY <1>5, <1>8, <1>9, <2>1, ValidatedIsStraight DEF LandInv, Vouched
  <2> QED BY <1>2, <1>6, <2>2 DEF Straight, IsLink
<1>10. ASSUME NEW i \in 1..Len(Steps), i < at + 1, Steps[i].do = "validate"
       PROVE  vouched'[Steps[i].on] # "no"
  <2>1. Steps[i].on \in Place
    BY <1>10, ValidatesPlaces DEF Sound
  <2>2. CASE i = at
    BY <1>3, <1>8, <2>1, <2>2
  <2>3. CASE i # at
    <3>1. i < at
      BY <1>10, <2>3
    <3>2. vouched[Steps[i].on] # "no"
      BY <1>10, <3>1 DEF LandInv, Vouched
    <3> QED BY <1>8, <2>1, <3>2
  <2> QED BY <2>2, <2>3
<1>11. \A i \in 1..Len(Steps') : i < at' /\ Steps'[i].do = "validate" => vouched'[Steps'[i].on] # "no"
  BY <1>1, <1>6, <1>10
<1>12. Vouched'
  BY <1>8, <1>9, <1>11 DEF Vouched
<1>13. Shaped(tree', Moved) /\ \A w \in written' : Landed(w)
  BY <1>2 DEF LandInv
<1> QED BY <1>1, <1>12, <1>13, WorkKeepsLand

LEMMA MkdirKeepsLand ==
  ASSUME LandInv, Sound, at \in Nat, Mkdir
  PROVE  LandInv'
<1>1. /\ Works /\ at <= Len(Steps) /\ at' = at + 1 /\ Steps[at].do = "mkdir"
      /\ Steps \in Seq(StepRecord)
  BY DoingWorks DEF Mkdir
<1>2. /\ tree' = IF request.mkdir THEN MkdirAll(tree, paths["out_dir"]) ELSE tree
      /\ vouched' = vouched /\ written' = written
  BY DEF Mkdir
<1>3. Shaped(tree, Moved) /\ Moved \in BOOLEAN
  BY DEF LandInv, Moved
<1>4. Shaped(tree', Moved) /\ (IsLink(tree', OutAt) => IsLink(tree, OutAt))
  <2>1. CASE request.mkdir
    <3>1. FewerLinks(tree, MkdirAll(tree, paths["out_dir"]), {})
      BY <1>3, MkdirFewerLinks
    <3>2. Shaped(MkdirAll(tree, paths["out_dir"]), Moved)
          /\ (IsLink(MkdirAll(tree, paths["out_dir"]), OutAt) => IsLink(tree, OutAt))
      BY <1>3, <3>1, StillShaped
    <3> QED BY <1>2, <2>1, <3>2
  <2>2. CASE ~request.mkdir
    BY <1>2, <1>3, <2>2
  <2> QED BY <2>1, <2>2
<1>5. Vouched'
  BY <1>1, <1>2, <1>4, StillVouched
<1>6. \A w \in written' : Landed(w)
  BY <1>2 DEF LandInv
<1> QED BY <1>1, <1>4, <1>5, <1>6, WorkKeepsLand

(* A file is put where its path was validated to lead.                     *)
LEMMA PutKeepsLand ==
  ASSUME LandInv, Sound, Works, at \in Nat \ {0}, at <= Len(Steps), at' = at + 1,
         Steps[at].do \in Writes, Put(Steps[at].on)
  PROVE  LandInv'
<1>1. PICK place : place = Steps[at].on
  OBVIOUS
<1>2. Steps \in Seq(StepRecord) /\ at \in 1..Len(Steps)
  <2>1. Steps \in Seq(StepRecord)
    BY StepsAre DEF Sound
  <2> QED BY <2>1
<1>3. Prepared(Steps, request.tool)
  BY StepsPrepared DEF Sound
<1>4. place \in Written(request.tool)
  BY <1>1, <1>2, <1>3 DEF Prepared
<1>5. PICK i \in 1..(at - 1) : Steps[i] = Step("validate", place)
  BY <1>1, <1>2, <1>3 DEF Prepared
<1>6. place \in Output /\ place \in Place
  BY <1>4 DEF Written, Output, Place
<1>7. vouched[place] # "no" /\ vouched[place] \in {"no", "validated", "stale"}
  <2>1. i \in 1..Len(Steps) /\ i < at
    BY <1>2, <1>5
  <2>2. Steps[i].do = "validate" /\ Steps[i].on = place
    BY <1>5 DEF Step
  <2>3. Vouched
    BY DEF LandInv
  <2>4. vouched[place] # "no"
    BY <2>1, <2>2, <2>3 DEF Vouched
  <2>5. vouched[place] \in {"no", "validated", "stale"}
    BY <1>6, <2>3 DEF Vouched
  <2> QED BY <2>4, <2>5
<1>8. Shaped(tree, Moved) /\ Moved \in BOOLEAN /\ paths[place] = PathOf(place)
  BY <1>6 DEF LandInv, Moved
<1>9. PICK entry : entry = Entry(tree, PathOf(place))
  OBVIOUS
<1>10. PICK later : later = tree'
  OBVIOUS
<1>11. PICK w : w = [by |-> front, place |-> place, at |-> entry,
                     inside |-> Within(entry, Real(tree, Root)), vouched |-> vouched[place]]
  OBVIOUS
<1>12. /\ later = [p \in DOMAIN tree \cup {entry} |-> IF p = entry THEN File ELSE tree[p]]
       /\ written' = written \cup {w}
       /\ vouched' = vouched
  BY <1>1, <1>8, <1>9, <1>10, <1>11 DEF Put
<1>13. FewerLinks(tree, later, {entry})
  BY <1>8, <1>12, PutFewerLinks
<1>14. entry \notin {Root, Home, WorkAt, OutAt} /\ Last(entry) = NameAt(place)
  BY <1>6, <1>8, <1>9, EntryApart
<1>15. Shaped(later, Moved) /\ (IsLink(later, OutAt) => IsLink(tree, OutAt))
  BY <1>8, <1>13, <1>14, StillShaped
<1>16. Steps[at].do # "validate"
  BY DEF Writes
<1>17. Vouched'
  BY <1>2, <1>10, <1>12, <1>15, <1>16, StillVouched
<1>18. Landed(w)
  <2>1. /\ w.place = place /\ w.at = entry /\ w.inside = Within(entry, Real(tree, Root))
        /\ w.vouched = vouched[place]
    BY <1>11
  <2>2. vouched[place] = "validated" => Within(entry, Real(tree, Root))
    <3>1. ASSUME vouched[place] = "validated"
          PROVE  Straight(tree, Moved, place)
      BY <1>6, <3>1 DEF LandInv, Vouched
    <3> QED BY <1>6, <1>8, <1>9, <3>1, StraightIsInside
  <2> QED BY <1>4, <1>7, <1>14, <2>1, <2>2 DEF Landed
<1>19. \A v \in written' : Landed(v)
  BY <1>12, <1>18 DEF LandInv
<1> QED BY <1>10, <1>15, <1>17, <1>19, WorkKeepsLand

LEMMA PublishKeepsLand ==
  ASSUME LandInv, Sound, at \in Nat \ {0}, Publish
  PROVE  LandInv'
<1>1. Works /\ at <= Len(Steps) /\ at' = at + 1 /\ Steps[at].do = "publish"
  BY DoingWorks DEF Publish
<1> QED BY <1>1, PutKeepsLand DEF Publish, Writes

LEMMA TransformKeepsLand ==
  ASSUME LandInv, Sound, at \in Nat \ {0}, Transform
  PROVE  LandInv'
<1>1. /\ Works /\ at <= Len(Steps) /\ at' = at + 1 /\ Steps[at].do = "transform"
      /\ Steps \in Seq(StepRecord)
  BY DoingWorks DEF Transform
<1>2. at \in 1..Len(Steps)
  BY <1>1
<1>3. Steps[at].on = "source"
  BY <1>1, <1>2, TransformsTheSource DEF Sound
<1>4. CASE Put("source")
  BY <1>1, <1>3, <1>4, PutKeepsLand DEF Writes
<1>5. CASE UNCHANGED <<tree, vouched, written>>
  <2>1. tree' = tree /\ vouched' = vouched /\ written' = written
    BY <1>5
  <2>2. Steps[at].do # "validate" /\ (IsLink(tree', OutAt) => IsLink(tree, OutAt))
    BY <1>1, <2>1
  <2>3. Vouched'
    BY <1>1, <2>1, <2>2, StillVouched
  <2>4. Shaped(tree', Moved) /\ \A w \in written' : Landed(w)
    BY <2>1 DEF LandInv
  <2> QED BY <1>1, <2>3, <2>4, WorkKeepsLand
<1> QED BY <1>4, <1>5 DEF Transform

(* The directory is replaced: whatever was validated is so no longer.      *)
LEMMA RelinkKeepsLand ==
  ASSUME LandInv, Sound, Relink
  PROVE  LandInv'
<1>1. /\ request' = request /\ wrong' = wrong /\ paths' = paths /\ front' = front /\ at' = at
      /\ written' = written /\ front \in FrontEnd \ relinked /\ relinked' = relinked \cup {front}
      /\ vouched' = [place \in Place |-> IF vouched[place] = "no" THEN "no" ELSE "stale"]
  BY DEF Relink
<1>2. Moved = FALSE /\ Moved' = TRUE
  BY <1>1 DEF Moved
<1>3. Shaped(tree, FALSE)
  BY <1>2 DEF LandInv
<1>4. Entry(tree, WorkingDirectory) = WorkAt
  BY <1>3, WorkingEntry
<1>5. tree' = [p \in {q \in DOMAIN tree : ~Within(q, WorkAt)} \cup {WorkAt} |->
                 IF p = WorkAt THEN LinkTo(Outside) ELSE tree[p]]
  BY <1>4 DEF Relink
<1>6. PICK later : later = tree'
  OBVIOUS
<1>7. Shaped(later, TRUE)
  BY <1>3, <1>5, <1>6, RelinkShaped
<1>8. Shaped(tree, Moved)'
  BY <1>1, <1>2, <1>6, <1>7, ShapedNext
<1>9. Steps' = Steps
  BY <1>1, ChecksStand
<1>10. Vouched'
  <2>1. vouched \in [Place -> {"no", "validated", "stale"}]
    BY DEF LandInv, Vouched
  <2>2. vouched' \in [Place -> {"no", "validated", "stale"}]
    BY <1>1, <2>1
  <2>3. ASSUME NEW place \in Output
        PROVE  vouched'[place] # "validated"
    <3>1. place \in Place
      BY DEF Output, Place
    <3> QED BY <1>1, <3>1
  <2>4. ASSUME NEW i \in 1..Len(Steps), i < at, Steps[i].do = "validate"
        PROVE  vouched'[Steps[i].on] # "no"
    <3>1. vouched[Steps[i].on] # "no"
      BY <2>4 DEF LandInv, Vouched
    <3>2. Steps[i].on \in Place
      BY <2>4, ValidatesPlaces DEF Sound
    <3> QED BY <1>1, <3>1, <3>2
  <2>5. \A i \in 1..Len(Steps') : i < at' /\ Steps'[i].do = "validate" => vouched'[Steps'[i].on] # "no"
    BY <1>1, <1>9, <2>4
  <2> QED BY <2>2, <2>3, <2>5 DEF Vouched
<1>11. ASSUME NEW w \in written'
       PROVE  Landed(w)'
  <2>1. \A place : NameAt(place)' = NameAt(place)
    BY <1>1, NamesStand
  <2>2. Landed(w)
    BY <1>1 DEF LandInv
  <2> QED BY <1>1, <2>1, <2>2 DEF Landed, Written
<1>12. paths' = [place \in Place |-> PathOf(place)']
  <2>1. \A place \in Place : PathOf(place)' = PathOf(place)
    BY <1>1, NamesStand
  <2> QED BY <1>1, <2>1 DEF LandInv
<1>13. relinked' \subseteq FrontEnd /\ (front' = "cli" => relinked' \subseteq {"cli"})
  BY <1>1 DEF LandInv
<1> QED BY <1>8, <1>10, <1>11, <1>12, <1>13 DEF LandInv

LEMMA LandInvStep == AnswersInv /\ LandInv /\ [Next]_vars => LandInv'
<1> SUFFICES ASSUME AnswersInv, LandInv, [Next]_vars
             PROVE  LandInv'
  OBVIOUS
<1>1. Sound /\ at \in Nat \ {0} /\ at \in Nat /\ (front # "nobody" => front \in FrontEnd)
  BY DEF AnswersInv
<1>2. CASE Succeed
  BY <1>1, <1>2, ReplyKeepsLand DEF Succeed
<1>3. CASE Refuse
  BY <1>1, <1>3, ReplyKeepsLand DEF Refuse
<1>4. CASE Look
  BY <1>1, <1>4, LookKeepsLand
<1>5. CASE Validate
  BY <1>1, <1>5, ValidateKeepsLand
<1>6. CASE Mkdir
  BY <1>1, <1>6, MkdirKeepsLand
<1>7. CASE Publish
  BY <1>1, <1>7, PublishKeepsLand
<1>8. CASE Transform
  BY <1>1, <1>8, TransformKeepsLand
<1>9. CASE Relink
  BY <1>1, <1>9, RelinkKeepsLand
<1>10. ASSUME UNCHANGED vars
       PROVE  LandInv'
  <2>1. /\ request' = request /\ wrong' = wrong /\ paths' = paths /\ front' = front /\ at' = at
        /\ relinked' = relinked /\ written' = written /\ tree' = tree /\ vouched' = vouched
    BY <1>10 DEF vars
  <2>2. Works
    BY <2>1 DEF Works
  <2>3. Steps' = Steps /\ Moved' = Moved /\ OutAt' = OutAt
    BY <2>1, <2>2, WorksStand, NamesStand
  <2>4. ASSUME NEW place \in Output, vouched'[place] = "validated"
        PROVE  Straight(tree, Moved, place)'
    <3>1. Straight(tree, Moved, place)
      BY <2>1, <2>4 DEF LandInv, Vouched
    <3> QED BY <2>1, <2>3, <3>1 DEF Straight, IsLink
  <2>5. Vouched'
    BY <2>1, <2>3, <2>4 DEF LandInv, Vouched
  <2>6. Shaped(tree', Moved) /\ \A w \in written' : Landed(w)
    BY <2>1 DEF LandInv
  <2> QED BY <2>2, <2>5, <2>6, WorkKeepsLand
<1> QED BY <1>2, <1>3, <1>4, <1>5, <1>6, <1>7, <1>8, <1>9, <1>10 DEF Next, Answered

(* Wherever the links of the workspace lead, whichever names are asked for *)
(* and whoever replaces the directory meanwhile: each of the tools writes  *)
(* in the workspace, unless its directory was replaced after it had been   *)
(* validated, and no two outputs of a request land in the same file.       *)
THEOREM OutputsLand == Spec => []OutputsLandInPlace
<1>1. ASSUME AnswersInv, LandInv
      PROVE  OutputsLandInPlace
  <2>1. \A w \in written : Landed(w)
    BY <1>1 DEF LandInv
  <2>2. Sound
    BY <1>1 DEF AnswersInv
  <2>3. ASSUME NEW v \in written, NEW w \in written, v.at = w.at
        PROVE  v.place = w.place
    <3>1. /\ v.place \in Written(request.tool) /\ w.place \in Written(request.tool)
          /\ NameAt(v.place) = NameAt(w.place)
      BY <2>1, <2>3 DEF Landed
    <3>2. NameOf(1) # NameOf(2)
      BY <2>2, NamesOfOutputsDiffer
    <3>3. NameAt("first") = NameOf(1) /\ NameAt("second") = NameOf(2)
      BY DEF NameAt
    <3> QED BY <3>1, <3>2, <3>3 DEF Written
  <2> QED BY <2>1, <2>3 DEF OutputsLandInPlace, Landed
<1> QED BY AnswersInvInit, AnswersInvStep, LandInvInit, LandInvStep, <1>1, PTL DEF Spec
=============================================================================
