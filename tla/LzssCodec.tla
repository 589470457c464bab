------------------------------ MODULE LzssCodec -----------------------------
(***************************************************************************)
(* The dictionary coder of the logo, unit by unit.                         *)
(*                                                                         *)
(* A compressed logo is a stream of units: a literal byte, or a pair       *)
(* (position in the ring buffer, length).  This module says which pairs an *)
(* encoder may send, any match that lies inside the window and not only    *)
(* the longest one, and what the decoder of lzss.c and of every port does  *)
(* with a unit: it keeps the last N bytes of its output in text_buf, a     *)
(* ring buffer, and copies a pair out of it byte by byte, so that a pair   *)
(* may overlap the bytes it is producing.                                  *)
(*                                                                         *)
(* Of the N cells of the decoder's ring, the F from N-F on are never       *)
(* prepared (lzss.c clears N-F of them), and the x86 ports prepare none:   *)
(* they point text_buf into the stack.  ring starts accordingly.           *)
(***************************************************************************)
EXTENDS Integers, Sequences

CONSTANTS
  Byte,         \* the bytes of a file
  Fill,         \* FREQUENT_CHAR, the byte the ring is prepared with
  N,            \* the size of the ring buffer
  F,            \* upper limit of a match length
  Threshold,    \* a pair is longer than this
  Prefilled,    \* whether the decoder prepares text_buf
  Texts         \* the files

ASSUME RingAssumption ==
  /\ N \in Nat /\ F \in Nat /\ 0 < F /\ F < N
  /\ Threshold \in Nat

ASSUME TextAssumption ==
  /\ Fill \in Byte
  /\ Prefilled \in BOOLEAN
  /\ Texts \subseteq Seq(Byte)

\* A decoder that does not prepare its ring is given only logos without Fill.
ASSUME FillAssumption ==
  Prefilled \/ \A t \in Texts : \A i \in 1..Len(t) : t[i] # Fill

VARIABLES
  text,         \* the file that was compressed
  out,          \* what the decoder has written to out_buffer
  ring,         \* the decoder's text_buf
  r,            \* where the decoder writes text_buf next
  pos, left     \* the pair being copied: where it reads text_buf, bytes to go

vars == <<text, out, ring, r, pos, left>>

Cells == 0 .. N-1

-----------------------------------------------------------------------------
\* Definitions named Bug_... are variants of the definition that follows them
\* with a mistake in it.  They are used to see that the properties notice.
Bug_SuccUnmasked(x) == x + 1

\* The next cell of the ring: the code masks with N-1, N a power of two.
Succ(x) == (x + 1) % N

\* How far the cell x lies behind the cell w, between 1 and N.
Distance(x, w) == IF x < w THEN w - x ELSE w - x + N

\* How far it lies behind the write position.
Back(x) == Distance(x, r)

\* Byte number i of the text, which the prepared ring extends to the left.
Source(i) == IF i >= 1 THEN text[i] ELSE Fill

\* The pairs an encoder may send next: the match starts in the part of the
\* window that is not the lookahead buffer, and ends where the text ends.
ValidMatch(p, n) ==
  /\ Back(p) <= N - F
  /\ Len(out) + n <= Len(text)
  /\ \A k \in 1..n : text[Len(out) + k] = Source(Len(out) + k - Back(p))

\* The byte is not written to the ring.
Bug_StoreOutputOnly(b) ==
  /\ out' = Append(out, b)
  /\ r' = Succ(r)
  /\ UNCHANGED ring

\* A byte is written to the output and to the ring.
StoreByte(b) ==
  /\ out' = Append(out, b)
  /\ ring' = [ring EXCEPT ![r] = b]
  /\ r' = Succ(r)

-----------------------------------------------------------------------------
Init ==
  /\ text \in Texts
  /\ out = << >>
  /\ ring \in [Cells -> Byte]
  /\ Prefilled => \A x \in 0 .. N-F-1 : ring[x] = Fill
  /\ r = N - F
  /\ pos = 0
  /\ left = 0

Literal ==
  /\ left = 0
  /\ Len(out) < Len(text)
  /\ StoreByte(text[Len(out) + 1])
  /\ UNCHANGED <<text, pos, left>>

Pair(p, n) ==
  /\ left = 0
  /\ ValidMatch(p, n)
  /\ pos' = p
  /\ left' = n
  /\ UNCHANGED <<text, out, ring, r>>

\* The position in the ring is not advanced.
Bug_CopyStuck ==
  /\ left > 0
  /\ StoreByte(ring[pos])
  /\ left' = left - 1
  /\ UNCHANGED <<text, pos>>

\* The loop does not count.
Bug_CopyForever ==
  /\ left > 0
  /\ StoreByte(ring[pos])
  /\ pos' = Succ(pos)
  /\ UNCHANGED <<text, left>>

CopyByte ==
  /\ left > 0
  /\ StoreByte(ring[pos])
  /\ pos' = Succ(pos)
  /\ left' = left - 1
  /\ UNCHANGED text

Next ==
  \/ Literal
  \/ \E p \in Cells, n \in (Threshold+1) .. F : Pair(p, n)
  \/ CopyByte

SafeSpec == Init /\ [][Next]_vars

\* The encoder sends units until the text is covered and the decoder's loop
\* runs until it has consumed them.
Spec == SafeSpec /\ WF_vars(Next)

-----------------------------------------------------------------------------
TypeOK ==
  /\ text \in Texts
  /\ out \in Seq(Byte)
  /\ ring \in [Cells -> Byte]
  /\ r \in Cells
  /\ pos \in Cells
  /\ left \in 0..F

(***************************************************************************)
(* The decoder reproduces the file: what is in out_buffer is always a      *)
(* prefix of it (Decode in lzss.c, "Just the reverse of Encode()").        *)
(***************************************************************************)
RoundTrip ==
  /\ Len(out) <= Len(text)
  /\ \A i \in 1..Len(out) : out[i] = text[i]

(***************************************************************************)
(* What the encoder relies on when it names a cell: within N-F cells of r, *)
(* the decoder's ring holds the bytes the encoder's ring holds.  Cells the *)
(* decoder has neither prepared nor written are excepted.                  *)
(***************************************************************************)
Reliable(x) ==
  /\ Back(x) <= N - F
  /\ Prefilled \/ Back(x) <= Len(out)

WindowAgrees ==
  \A x \in Cells : Reliable(x) => ring[x] = Source(Len(out) + 1 - Back(x))

(***************************************************************************)
(* While a pair is copied, its read position keeps its distance to r, so   *)
(* the cell it reads is reliable and holds the next byte of the text, even *)
(* when the pair runs into the bytes it has just produced.                 *)
(***************************************************************************)
PairInWindow ==
  left > 0 =>
    /\ Reliable(pos)
    /\ ValidMatch(pos, left)

IInv == TypeOK /\ RoundTrip /\ WindowAgrees /\ PairInWindow

-----------------------------------------------------------------------------
\* The codec is an implementation of ByteCopy: a store delivers one byte of
\* the file, and a pair being read is a stuttering step.
Abstract == INSTANCE ByteCopy

ImplementsByteCopy == Abstract!SafeSpec

\* Every file is reproduced completely in the end.
Delivered == Abstract!Spec

=============================================================================
