----------------------------- MODULE ExplicitNames -----------------------------
(***************************************************************************)
(* The names that the caller of split or blocks gives to the outputs       *)
(* (internal/pipeline/explicit_names.go), and the extension of those that  *)
(* have none (extension.go).  Volumes and letter case, which matter on     *)
(* Windows, are left out.                                                  *)
(***************************************************************************)
EXTENDS PathConfinement

CONSTANTS
  Word           \* runs of letters and digits

Space == {" ", "\t"}

Separator == {"/", "\\"}

Mark == Space \cup Control \cup Separator \cup {".", ",", "-"}

ASSUME WordAssumption == Word \cap Mark = {}

Text == Seq(Word \cup Mark)

TrimSpace(text) ==
  LET kept == {i \in DOMAIN text : text[i] \notin Space}
  IN IF kept = {} THEN << >>
     ELSE SubSeq(text, CHOOSE i \in kept : \A j \in kept : i <= j,
                       CHOOSE i \in kept : \A j \in kept : j <= i)

Named(names) == [error |-> "none", names |-> names]

Misnamed(cause) == [error |-> cause, names |-> << >>]

(* The text of --names.  One that is blank gives no names.                 *)
ParseCommaSeparatedNames(text) ==
  LET commas == {i \in 0..(Len(text) + 1) : i \in {0, Len(text) + 1} \/ text[i] = ","}
      After(i) == CHOOSE j \in commas : i < j /\ \A k \in commas : i < k => j <= k
      parts == {<<i, TrimSpace(SubSeq(text, i + 1, After(i) - 1))>> : i \in commas \ {Len(text) + 1}}
  IN IF TrimSpace(text) = << >> THEN Named(<< >>)
     ELSE IF \E part \in parts : part[2] = << >> THEN Misnamed("empty_names_entry")
     ELSE LET inOrder == SetToSortSeq(parts, LAMBDA p, q : p[1] < q[1])
          IN Named([i \in DOMAIN inOrder |-> inOrder[i][2]])

(* validateExplicitNameFragment, of a text that is trimmed.                *)
Acceptable(text) ==
  /\ text \notin {<< >>, <<".">>}
  /\ \A i \in DOMAIN text : text[i] \notin Control \cup Separator
  /\ ~ <<".", ".">> \in SubSeqs(text)

(* finalizeExplicitBasename                                                *)
Basename(fragment, extension) ==
  LET text == TrimSpace(fragment)
  IN IF Ext(text) # << >> THEN text ELSE text \o extension

FragmentError(fragment, extension) ==
  IF ~Acceptable(TrimSpace(fragment)) THEN "invalid_explicit_name"
  ELSE IF IsReserved(Basename(fragment, extension)) THEN "reserved_name"
  ELSE "none"

(* The first name that cannot be used, or is there already, is refused.    *)
ApplyExplicitBasenames(fragments, extension) ==
  LET names == [i \in DOMAIN fragments |-> Basename(fragments[i], extension)]
      ErrorAt(i) ==
        IF FragmentError(fragments[i], extension) # "none" THEN FragmentError(fragments[i], extension)
        ELSE IF \E j \in 1..(i - 1) : names[j] = names[i] THEN "duplicate_explicit_names"
        ELSE "none"
      failing == {i \in DOMAIN fragments : ErrorAt(i) # "none"}
  IN IF failing = {} THEN Named(names)
     ELSE Misnamed(ErrorAt(CHOOSE i \in failing : \A j \in failing : i <= j))

(* Without explicit names the outputs keep those they have.                *)
ApplyExplicitNames(fragments, outputs, extension) ==
  IF fragments = << >> THEN Named(outputs)
  ELSE IF Len(fragments) # Len(outputs) THEN Misnamed("names_count_mismatch")
  ELSE ApplyExplicitBasenames(fragments, extension)

ValidExtension(text) == Len(text) = 2 /\ text[1] = "." /\ text[2] \in Word

(* ExtensionFromDeclaredOrSource: what is declared, or the source's own.   *)
ExtensionFrom(declared, source) == IF declared # << >> THEN declared ELSE Ext(source)

ExtensionIsRefused(extension) == extension # << >> /\ ~ValidExtension(extension)
=============================================================================
