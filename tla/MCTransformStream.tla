-------------------------- MODULE MCTransformStream --------------------------
EXTENDS TransformStream

CONSTANT MaxLength   \* bound: bytes of a source

AllSources == BoundedSeq(Byte, MaxLength)
=============================================================================
