------------------------------ MODULE MCLlSim -------------------------------
(* Logos of a few characters, in several colours and on several lines, and *)
(* one that goes around the ring, all with a new line at their end, as only *)
(* that or a sequence draws what is before; the machines the port can tell  *)
(* apart.                                                                  *)
EXTENDS LlSim, SequencesExt

CONSTANT MaxPieces   \* of a logo, after its first line

\* A unit of the compressed form is a byte, or a position and a length.
Units(text) == [k \in DOMAIN text |-> << text[k] >>]
Pair(position, length) ==
  << << position % 256, (length - Threshold - 1) * 4 + position \div 256 >> >>

FlagsOf(units) ==
  FoldLeft(LAMBDA f, k : f + (IF Len(units[k]) = 1 THEN 2 ^ (k - 1) ELSE 0), 0,
           [k \in DOMAIN units |-> k])

\* Groups of eight units, each behind the byte of its flags.
RECURSIVE Packed(_)
Packed(units) ==
  LET n == IF Len(units) < 8 THEN Len(units) ELSE 8
      group == SubSeq(units, 1, n)
  IN IF n = 0 THEN << >>
     ELSE << FlagsOf(group) >> \o FlattenSeq(group) \o Packed(SubSeq(units, n + 1, Len(units)))

Color(numbers) == Units(<< 27, 91 >> \o numbers \o << 109 >>)

\* ^[[31m, ^[[0;36m, ^[[47m, '#', a new line, and the first characters again,
\* without and with their colour.
Pieces ==
  { Color(<< 51, 49 >>), Color(<< 48, 59, 51, 54 >>), Color(<< 52, 55 >>), Units(<< 35 >>),
    Units(<< 10 >>), Pair(FirstCell + 5, 3), Pair(FirstCell, 8) }

ShortLogos ==
  { Packed(Color(<< 51, 49 >>) \o Units(<< 35, 46, 10 >>) \o FlattenSeq(ps) \o Units(<< 10 >>)) :
      ps \in SeqOf(Pieces, MaxPieces) }

Line(n) == Units([k \in 1..n |-> IF k = n THEN 10 ELSE 35])

\* Eight lines, the last ones from cells at the end and the start of the ring.
LongLogo ==
  Packed(Color(<< 51, 51 >>) \o Line(8) \o Pair(FirstCell + 5, 56)
           \o Pair(RingSize - 3, 9) \o Units(<< 10 >>))

\* A line of nearly as many dots as the screen is wide: its last columns take
\* more than a byte.
WideLogo == Packed(Color(<< 51, 55 >>) \o Units(<< 35 >>) \o Pair(FirstCell + 5, 66)
                     \o Color(<< 51, 50 >>) \o Pair(FirstCell + 5, 16)
                     \o Units(<< 10 >>))

\* The bytes of the ROM at $FBB3, $FB1E and $FBC0.
Rom(b3, b1e, c0) == (64435 :> b3) @@ (64286 :> b1e) @@ (64448 :> c0)
ROMs ==
  { Rom(0, 0, 0), Rom(56, 1, 2), Rom(234, 173, 2), Rom(234, 138, 2), Rom(6, 173, 234),
    Rom(6, 173, 224), Rom(6, 76, 0) }

SomeStarts ==
  [logo : ShortLogos \cup {LongLogo, WideLogo}, rom : {<< >>}]
    \cup [logo : {Packed(Units(<< 35, 10 >>))}, rom : ROMs]

\* Texts of the lengths of those in the program.
Filled(c, n) == [k \in 1..n |-> c]
Version == Filled(76, 37)
One == Filled(79, 12)
Nmos == Filled(54, 4)
Cmos == Filled(67, 5)
Processor == Filled(80, 12)
Ram == Filled(107, 6)
Apple == Filled(65, 8)
=============================================================================
