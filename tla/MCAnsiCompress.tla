--------------------------- MODULE MCAnsiCompress ---------------------------
(* Logos put together from runs and escape sequences; and long files, that *)
(* go around the ring of the old compressor, whose strings are many.       *)
EXTENDS AnsiCompress

CONSTANTS
  MaxPieces,    \* of a short file
  LongLength    \* of a long one

\* '.', '#', 'm', and the sequences of colours.
Pieces ==
  { << 46 >>, << 35, 35 >>, << 109 >>, Escape(<< 0, 1 >>, 109), Escape(<< 255 >>, 109),
    Escape(<< 0, 40, 1 >>, 72) }

ShortLogos == { FlattenSeq(ps) : ps \in BoundedSeq(Pieces, MaxPieces) }

\* Runs as long as a byte counts, and with rle_two those below its codes.
LongRun(n) == Repeat(46, n) \o Escape(<< 7 >>, 109) \o << 35 >>

\* Files whose strings come again in part, at distances up to the ring's; each
\* byte comes twice.
Twice(f(_)) == [k \in 1..LongLength |-> 97 + (f((k + 1) \div 2) % 20)]
Wandering(a, b) == LET f(k) == (((k * k) \div a) + (k \div b)) % 3 IN Twice(f)
Periodic(n) == LET f(k) == IF k % n = 0 THEN k \div n ELSE k % n IN Twice(f)

\* A file that begins like the ring before it, and comes back to that when it
\* leaves the ring.
BackToStart ==
  Repeat(35, F - 1) \o SubSeq(Wandering(7, 31), 1, N - 2*F - 11) \o Repeat(35, F + 2)

SomeLogos ==
  ShortLogos \cup { LongRun(255), Wandering(7, 31), Wandering(2, 5), Periodic(9),
                    Periodic(150), BackToStart }

\* More sequences than rows, and more codes than cells.
SomeTwoLogos == ShortLogos \cup { LongRun(127) }

=============================================================================
