---------------------------- MODULE MCLzssCodec -----------------------------
(* Small instances of the unit-level codec.                                *)
EXTENDS LzssCodec, SequencesExt

CONSTANT MaxLen     \* longest file

MCByte == 0..2

\* every file over the whole alphabet
AnyText == BoundedSeq(MCByte, MaxLen)

\* every file in which the fill byte does not occur
NoFillText == BoundedSeq(MCByte \ {Fill}, MaxLen)

=============================================================================
