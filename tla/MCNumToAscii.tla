---------------------------- MODULE MCNumToAscii ----------------------------
(* The divisions of all ports, with words of 12 bits.                      *)
EXTENDS NumToAscii, TextPorts

\* Half a word has 6 bits, so that a word has four digits and leaves the
\* remainder 16 when divided by 20, like a word of 32 bits.
MCHalf == 64
MCWord == MCHalf * MCHalf
MCPlaces == 4

\* The numbers each port is good for: those whose digits fit its buffer, and
\* for the multiplication without a correction those below a quarter.
GoodJobs ==
  { <<p, n>> \in NumPorts \X (0 .. MCWord - 1) :
      /\ n < 10 ^ Room(p)
      /\ p.method = "reciprocal" => 4 * n < MCWord }

\* They are numbers the theorems speak of.
ASSUME JobsAreGood == Jobs = GoodJobs => Served /\ Fitting

\* Any number at all.
CdqJobs == {Num_i386} \X (0 .. MCWord - 1)
Thumb2Jobs == {Num_thumb2} \X (0 .. MCWord - 1)
GlibcJobs == {Num_ll_glibc} \X (0 .. MCWord - 1)
=============================================================================
