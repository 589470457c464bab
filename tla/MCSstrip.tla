------------------------------ MODULE MCSstrip ------------------------------
(* Small executables: one or two entries, up to four cells behind them.    *)
EXTENDS Sstrip, SequencesExt

CONSTANTS
  MaxData,    \* cells behind the program header table
  Sizes       \* of segments, in the file and in memory

Bodies == BoundedSeq({Zero, Data}, MaxData)

\* Segments from the start of the file and from the cells behind the table.
Segments(size) ==
  { s \in { Phdr(t, o, n, m) : t \in {"PT_LOAD", "PT_NULL"}, o \in {0, 3, 5},
                               n \in Sizes, m \in Sizes } :
      /\ s.filesz <= s.memsz
      /\ s.off + s.filesz <= size + 1 }

Executable(table, body, shoff, type) ==
  << Magic, Ehdr(type, EhdrSize, Len(table), shoff) >> \o table \o body

\* A table of one entry; and of two, the second of them null, or a segment
\* from the start of the file.
OneEntry(body) == { << s >> : s \in Segments(3 + Len(body)) }
TwoEntries(body) ==
  { << s, t >> : s \in Segments(4 + Len(body)),
                 t \in {Zero, Phdr("PT_NOTE", 4, 1, 1)} }

Executables ==
  UNION { { Executable(t, b, IF Len(b) > 1 THEN 2 + Len(t) + (Len(b) \div 2) ELSE 0, "ET_EXEC") :
              t \in OneEntry(b) \cup TwoEntries(b) } : b \in Bodies }

Empty == Executable(<< Zero >>, << >>, 0, "ET_EXEC")

OtherFiles ==
  { << Data, Data, Data >>, << Magic >>,
    Executable(<< Zero >>, << Data >>, 0, "ET_REL"),
    Executable(<< >>, << Data >>, 0, "ET_EXEC"),
    Empty }

\* Executables are combined with one other file, the others with each other.
SomeDisks ==
  { [n \in {"a", "b"} |-> IF n = "a" THEN f ELSE Empty] : f \in Executables }
    \cup [{"a", "b"} -> OtherFiles]

ASSUME DisksAreUsual == UsualDisks

CommandLines == { << "a", "a" >>, << "a", "b" >> }
=============================================================================
