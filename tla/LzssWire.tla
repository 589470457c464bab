------------------------------ MODULE LzssWire ------------------------------
(***************************************************************************)
(* The format of a compressed logo: what lzss_encode_better writes and the *)
(* ports of ll read.                                                       *)
(*                                                                         *)
(* The file is a sequence of groups.  A group is a byte of flags and one   *)
(* unit per flag, the lowest bit first: a set flag announces a literal of  *)
(* one byte, a clear one a pair of two bytes, little-endian, whose low     *)
(* PositionBits hold a position of the ring buffer and whose high bits     *)
(* the match length less Threshold+1.  The last group may be short.        *)
(*                                                                         *)
(* ByteBits is 8 in the code.  A smaller value scales the format down with *)
(* all its proportions: a group has ByteBits units, a pair 2*ByteBits bits.*)
(***************************************************************************)
EXTENDS Integers, Sequences

CONSTANTS
  ByteBits,       \* bits of a byte
  PositionBits,   \* position_bits, P_BITS
  N,              \* ring_buffer_size
  F,              \* match_length_limit
  Threshold       \* position_length_threshold

ByteValues == 2^ByteBits

\* The encoder's "fake log2": how many bits number the cells of the ring.
FakeLog2(size) ==
  CHOOSE i \in 1 .. size :
    /\ (size - 1) \div 2^i < 1
    /\ \A j \in 1 .. i-1 : (size - 1) \div 2^j >= 1

\* The sizes lzss_encode_better derives from ring_buffer_size, and what its
\* arrays demand of them: positions need more than one byte, and the first F
\* nodes of the tree lie below the first string, at N-F.
ASSUME WireAssumption ==
  /\ PositionBits = FakeLog2(N)
  /\ N = 2^PositionBits
  /\ ByteBits < PositionBits /\ PositionBits < 2 * ByteBits
  /\ F = 2^(2 * ByteBits - PositionBits)
  /\ 2 * F <= N

ASSUME SizeAssumption ==
  /\ N \in Nat /\ F \in Nat /\ Threshold \in Nat
  /\ ByteBits \in Nat /\ PositionBits \in Nat
  /\ 0 < F /\ 2 * F <= N
  /\ 0 < ByteBits
  /\ Threshold < F

\* How powers are computed, as far as the proofs use it.
ASSUME PowerAssumption ==
  /\ \A u \in 0 .. 2 * ByteBits - 1 : 2^(u + 1) = 2 * 2^u
  /\ ByteValues^3 = ByteValues * ByteValues * ByteValues
  /\ ByteValues^4 = ByteValues * ByteValues * ByteValues * ByteValues

Byte == 0 .. ByteValues - 1

-----------------------------------------------------------------------------
\* POSITION_MASK: the bits of the position that go into the second byte.
PositionMask == 2^(PositionBits - ByteBits) - 1

\* The two bytes of a pair, as the encoder computes them.
PairBytes(p, n) ==
  << p % ByteValues,
     (((p \div ByteValues) % (PositionMask + 1))
        + (n - (Threshold + 1)) * (PositionMask + 1)) % ByteValues >>

\* The threshold is added without the 1.
Bug_PairLengthShort(w) == (w \div 2^PositionBits) + Threshold

\* A pair as the decoders read it, its two bytes one 16-bit number.
PairPosition(w) == w % 2^PositionBits
PairLength(w) == (w \div 2^PositionBits) + Threshold + 1

=============================================================================
