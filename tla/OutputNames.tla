----------------------------- MODULE OutputNames -----------------------------
(***************************************************************************)
(* The names that split and blocks give to their outputs                   *)
(* (internal/fileops/naming.go).  A name is the words of its slug, which   *)
(* hyphens separate in the file's name; the extension is the same for all. *)
(* Of a text, a byte stands for a word or for what separates words.        *)
(*                                                                         *)
(* A number is a word.  One that is written with leading zeros, as 001 is, *)
(* is the negative of its value: 001 and 1 are two words.                  *)
(***************************************************************************)
EXTENDS Integers, SequencesExt

CONSTANTS
  Blank,        \* what a slug leaves out: all but letters and digits
  Space,        \* the blanks that TrimSpace takes off
  Reserved,     \* names that an operating system keeps for itself
  SlugWords,    \* how long a slug may get
  PrefixBytes,  \* how much of a line is read to name an output: 8192
  Padded        \* the ordinals below this have leading zeros: 100

ASSUME OutputNamesAssumption ==
  /\ Space \subseteq Blank
  /\ SlugWords \in Nat \ {0}
  /\ PrefixBytes \in Nat \ {0}
  /\ Padded \in Nat

Strategy == {"sequential", "content", "delimiter"}

(* readSerializedSpanContentPrefixUTF8: long lines are cut.                *)
Prefix(text) == SubSeq(text, 1, IF Len(text) < PrefixBytes THEN Len(text) ELSE PrefixBytes)

SequentialName(n) == <<IF n < Padded THEN -n ELSE n>>

(* The words of a text, collected from its beginning.                      *)
WordsOf(text) ==
  LET words[i \in 0..Len(text)] ==
        IF i = 0 THEN << >>
        ELSE IF text[i] \in Blank THEN words[i - 1]
        ELSE Append(words[i - 1], text[i])
  IN words[Len(text)]

(* slugifyFromText, cut where a word ends.                                 *)
Slug(text) ==
  LET words == WordsOf(text)
  IN IF Len(words) <= SlugWords THEN words ELSE SubSeq(words, 1, SlugWords)

GenerateFilename(strategy, n, text) ==
  LET slug == Slug(text)
  IN IF strategy = "sequential" \/ slug = << >> \/ slug \in Reserved
     THEN SequentialName(n)
     ELSE slug

Candidate(name, n) == IF n = 1 THEN name ELSE Append(name, n)

(* Mutant: the second name is taken without a look at the names there are. *)
DeduplicateFilenameOnce(name, existing) ==
  IF name \in existing THEN Candidate(name, 2) ELSE name

(* The name itself, or with the first suffix, from -2 on, that is free.    *)
DeduplicateFilename(name, existing) ==
  Candidate(name, CHOOSE n \in 1..(Cardinality(existing) + 1) :
                    /\ Candidate(name, n) \notin existing
                    /\ \A m \in 1..(n - 1) : Candidate(name, m) \in existing)
=============================================================================
