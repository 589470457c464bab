--------------------------- MODULE MCLogoPipeline ---------------------------
(* The whole pipeline on short files, for all ports.                       *)
EXTENDS LogoPipeline, Ports, SequencesExt

\* The first n bytes of u repeated.
Cycle(u, n) == [k \in 1..n |-> u[((k - 1) % Len(u)) + 1]]

\* Files without the byte the ring is prepared with, as the logo is: short
\* ones, and repetitive ones that go around the ring.
LogoTexts ==
  { Cycle(u, n) \o v :
      u \in {<<1>>, <<1, 2>>, <<2, 1, 1>>},
      v \in {<< >>, <<1>>, <<2, 2>>, <<3, 1, 2, 3>>},
      n \in {2, 5, 13} }

\* Files that make use of the prepared ring.
FillTexts ==
  { Cycle(<<0>>, n) \o v \o Cycle(<<0, 1>>, m) :
      v \in {<<1>>, <<2, 0, 1>>}, n \in {1, 4}, m \in {1, 4, 9} }

\* Every port prints logos without FrequentChar.
LogoJobs == LogoTexts \X AllPorts

\* The ports with a cleared ring print every file.
FillJobs == FillTexts \X PreparedPorts

AllJobs == LogoJobs \cup FillJobs

\* Files for single ports: those of Linux on the i386 and on the m68k, and
\* ppc-vle.
I386LogoJobs == LogoTexts \X {Port_i386}
I386FillJobs == FillTexts \X {Port_i386}
M68kFillJobs == FillTexts \X {Port_m68k}
PpcVleJobs == LogoTexts \X {Port_ppc_vle}

\* What the proofs suppose of the files and ports.
ASSUME UsualJobs ==
  /\ Garbage \subseteq Byte
  /\ \A job \in AllJobs : Suits(job[1], job[2])

AllTexts == LogoTexts \cup FillTexts

=============================================================================
