--------------------------- MODULE MCLzssEncoder ----------------------------
(* Small instances of the compressor: bytes of three bits, groups of three *)
(* units, a ring of sixteen cells and matches of up to four bytes.         *)
EXTENDS LzssEncoder, SequencesExt

CONSTANTS
  Alphabet,   \* the bytes that occur in the files
  MaxLen,     \* longest short file
  MaxPart     \* longest part of a long file

\* Every file of up to MaxLen bytes: what happens before the ring is full.
ShortTexts == BoundedSeq(Alphabet, MaxLen)

\* The first n bytes of u repeated.
Cycle(u, n) == [k \in 1..n |-> u[((k - 1) % Len(u)) + 1]]

\* Files that go around the ring, and more: u over and over, interrupted by v,
\* and again.
CyclicTexts ==
  { Cycle(u, 11) \o v \o Cycle(u, 7) \o Reverse(v) :
      u \in BoundedSeq(Alphabet, 3) \ {<< >>},
      v \in BoundedSeq(Alphabet, MaxPart) }

\* Files whose strings crowd into one tree, in every order: every other byte
\* is the same, and the string with the first of the others is deleted when
\* the window holds five more.
Permuted == { w \in [1..5 -> {2, 3, 4, 5, 7}] : IsInjective(w) }

CrowdedTexts ==
  { [k \in 1..16 |-> IF k % 2 = 1 THEN 1
                     ELSE IF k = 2 THEN 6
                     ELSE IF k <= 12 THEN w[(k \div 2) - 1] ELSE 0] :
      w \in Permuted }

\* Files that begin with the byte the ring is cleared with, and come back to it
\* when its strings leave the window.
FillerTexts ==
  { Cycle(<<0>>, 3) \o <<1>> \o w \o Cycle(<<0>>, 4) \o <<1>> : w \in Permuted }

SomeTexts == ShortTexts \cup CyclicTexts \cup CrowdedTexts \cup FillerTexts

=============================================================================
