--------------------------- MODULE MCTransformFile ---------------------------
EXTENDS TransformFile, TLC

CONSTANTS t1, t2, raw, ended, trimmed, both, null

(* One transform changes line endings, the other trims: a block is raw, or *)
(* one of the two has been done to it, or both.                            *)
LineEndings == [c \in Chunk |-> CASE c = raw -> ended [] c = trimmed -> both [] OTHER -> c]
Trim == [c \in Chunk |-> CASE c = raw -> trimmed [] c = ended -> both [] OTHER -> c]

Both == (t1 :> LineEndings) @@ (t2 :> Trim)
One == t1 :> LineEndings

Contents == {s \in {<<raw>>, <<ended, raw>>, <<null, raw>>} : \A i \in 1..Len(s) : s[i] \in Chunk}
=============================================================================
