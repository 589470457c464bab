---------------------------- MODULE SstripProofs ----------------------------
(***************************************************************************)
(* What the status of sstrip tells, and what becomes of the files, proved  *)
(* for all command lines, files, failures and page sizes.                  *)
(***************************************************************************)
EXTENDS Sstrip, FiniteSetTheorems, SequenceTheorems, WellFoundedInduction, TLAPS

(* StatusTells looks at the state of the end only.  While sstrip runs, the *)
(* count of failures has to say which of the files so far were stripped: a *)
(* file given twice may be stripped first and fail then.                   *)
FailuresCounted == failures = 0 => \A k \in 1..(arg - 1) : argv[k] \in stripped

Running ==
  /\ argv \in Seq(Names)
  /\ arg \in 1..(Len(argv) + 1)
  /\ pc \notin {"open", "exit"} => arg <= Len(argv)
  /\ failures \in Nat
  /\ pc # "exit" => status = -1

IInv == Running /\ FailuresCounted /\ StatusTells

\* The start: no file yet.
LEMMA InitIInv == Init => IInv
  BY SstripAssumption DEF Init, IInv, Running, FailuresCounted, StatusTells

\* A turn that fails is counted, whatever becomes of the file.
LEMMA FailIInv == IInv /\ pc # "exit" /\ arg <= Len(argv) /\ Fail => IInv'
  <1> SUFFICES ASSUME IInv, pc # "exit", arg <= Len(argv), Fail PROVE IInv'
    OBVIOUS
  <1> USE DEF IInv, Running
  <1>1. /\ argv' = argv /\ arg' = arg + 1 /\ pc' = "open"
        /\ failures' = failures + 1 /\ status' = status
    BY DEF Fail, NextFile
  <1>2. Running'
    BY <1>1
  <1>3. FailuresCounted'
    BY <1>1 DEF FailuresCounted
  <1>4. StatusTells'
    BY <1>1 DEF StatusTells
  <1> QED
    BY <1>2, <1>3, <1>4

\* A step within a turn touches neither the count nor the stripped files.
LEMMA GoToIInv ==
  ASSUME NEW next, next # "exit", IInv, pc # "exit", arg <= Len(argv), GoTo(next)
  PROVE  IInv'
  <1> USE DEF IInv, Running
  <1>1. /\ argv' = argv /\ arg' = arg /\ pc' = next
        /\ failures' = failures /\ stripped' = stripped /\ status' = status
    BY DEF GoTo
  <1>2. Running'
    BY <1>1
  <1>3. FailuresCounted'
    BY <1>1 DEF FailuresCounted
  <1>4. StatusTells'
    BY <1>1 DEF StatusTells
  <1> QED
    BY <1>2, <1>3, <1>4

\* Each action is a failure, a step within the turn, or one of the three ways
\* in which a turn or the program ends.
LEMMA StepIInv == IInv /\ [Next]_vars => IInv'
  <1> SUFFICES ASSUME IInv, [Next]_vars PROVE IInv'
    OBVIOUS
  <1> USE DEF IInv, Running
  <1>1. CASE Open
    <2>1. pc # "exit" /\ arg <= Len(argv)
      BY <1>1 DEF Open
    <2>2. Fail \/ GoTo("readelfheader")
      BY <1>1 DEF Open, FailCleanly
    <2> QED
      BY <2>1, <2>2, FailIInv, GoToIInv
  <1>2. CASE Return
    <2>1. /\ arg = Len(argv) + 1
          /\ argv' = argv /\ arg' = arg /\ pc' = "exit"
          /\ failures' = failures /\ stripped' = stripped
          /\ status' = IF failures > 0 THEN 1 ELSE 0
      BY <1>2 DEF Return, Exit
    <2>2. Running'
      BY <2>1
    <2>3. FailuresCounted'
      BY <2>1 DEF FailuresCounted
    <2>4. CASE failures = 0
      <3>1. \A k \in DOMAIN argv : argv[k] \in stripped
        BY <2>1, <2>4 DEF FailuresCounted
      <3> QED
        BY <2>1, <2>2, <2>3, <2>4, <3>1 DEF StatusTells
    <2>5. CASE failures > 0
      BY <2>1, <2>2, <2>3, <2>5 DEF StatusTells
    <2> QED
      BY <2>4, <2>5
  <1>3. CASE readelfheader
    <2>1. pc # "exit" /\ arg <= Len(argv)
      BY <1>3 DEF readelfheader
    <2>2. CASE Fail
      BY <2>1, <2>2, FailIInv
    <2>3. CASE GoTo("readphdrtable")
      BY <2>1, <2>3, GoToIInv
    <2>4. CASE file[1] # Magic /\ Exit(0)
      <3>1. /\ argv' = argv /\ arg' = arg /\ pc' = "exit" /\ files' = files
            /\ failures' = failures /\ stripped' = stripped /\ status' = 0
        BY <2>4 DEF Exit
      <3>2. Running'
        BY <3>1
      <3>3. FailuresCounted'
        BY <3>1 DEF FailuresCounted
      <3>4. (file[1] # Magic)'
        BY <2>4, <3>1 DEF file, filename, Magic
      <3>5. StatusTells'
        BY <2>1, <3>1, <3>4 DEF StatusTells
      <3> QED
        BY <3>2, <3>3, <3>5
    <2> QED
      BY <1>3, <2>2, <2>3, <2>4 DEF readelfheader, FailCleanly
  <1>4. CASE readphdrtable
    <2>1. pc # "exit" /\ arg <= Len(argv)
      BY <1>4 DEF readphdrtable
    <2>2. Fail \/ GoTo("getmemorysize")
      BY <1>4 DEF readphdrtable, FailCleanly
    <2> QED
      BY <2>1, <2>2, FailIInv, GoToIInv
  <1>5. CASE getmemorysize
    <2>1. pc # "exit" /\ arg <= Len(argv)
      BY <1>5 DEF getmemorysize
    <2>2. GoTo("truncatezeros")
      BY <1>5 DEF getmemorysize
    <2> QED
      BY <2>1, <2>2, GoToIInv
  <1>6. CASE truncatezeros
    <2>1. pc # "exit" /\ arg <= Len(argv)
      BY <1>6 DEF truncatezeros
    <2>2. Fail \/ GoTo("truncatezeros") \/ GoTo("modifyheaders")
      BY <1>6 DEF truncatezeros, FailCleanly
    <2> QED
      BY <2>1, <2>2, FailIInv, GoToIInv
  <1>7. CASE modifyheaders
    <2>1. pc # "exit" /\ arg <= Len(argv)
      BY <1>7 DEF modifyheaders
    <2>2. GoTo("write_ehdr")
      BY <1>7 DEF modifyheaders
    <2> QED
      BY <2>1, <2>2, GoToIInv
  <1>8. CASE write_ehdr
    <2>1. pc # "exit" /\ arg <= Len(argv)
      BY <1>8 DEF write_ehdr
    <2>2. Fail \/ GoTo("write_phdrs")
      BY <1>8 DEF write_ehdr, FailCleanly
    <2> QED
      BY <2>1, <2>2, FailIInv, GoToIInv
  <1>9. CASE write_phdrs
    <2>1. pc # "exit" /\ arg <= Len(argv)
      BY <1>9 DEF write_phdrs
    <2>2. Fail \/ GoTo("ftruncate")
      BY <1>9 DEF write_phdrs
    <2> QED
      BY <2>1, <2>2, FailIInv, GoToIInv
  <1>10. CASE ftruncate
    <2>1. pc # "exit" /\ arg <= Len(argv)
      BY <1>10 DEF ftruncate
    <2>2. CASE Fail
      BY <2>1, <2>2, FailIInv
    <2>3. CASE ~Fail
      <3>1. /\ argv' = argv /\ arg' = arg + 1 /\ pc' = "open"
            /\ failures' = failures /\ status' = status
            /\ stripped' = stripped \cup {argv[arg]}
        BY <1>10, <2>3 DEF ftruncate, FailCleanly, NextFile, filename
      <3>2. Running'
        BY <2>1, <3>1
      <3>3. FailuresCounted'
        <4> SUFFICES ASSUME failures = 0, NEW k \in 1..arg
                     PROVE  argv[k] \in stripped \cup {argv[arg]}
          BY <3>1 DEF FailuresCounted
        <4>1. CASE k = arg
          BY <4>1
        <4>2. CASE k # arg
          BY <4>2 DEF FailuresCounted
        <4> QED
          BY <4>1, <4>2
      <3>4. StatusTells'
        BY <2>1, <3>1 DEF StatusTells
      <3> QED
        BY <3>2, <3>3, <3>4
    <2> QED
      BY <2>2, <2>3
  <1>11. CASE UNCHANGED vars
    BY <1>11 DEF vars, FailuresCounted, StatusTells, file, filename
  <1> QED
    BY <1>1, <1>2, <1>3, <1>4, <1>5, <1>6, <1>7, <1>8, <1>9, <1>10, <1>11 DEF Next

(* The status tells what became of the files, for every command line,      *)
(* whatever the files are and whichever of the calls fail.                 *)
THEOREM StatusTold == Spec => []StatusTells
  <1>1. IInv => StatusTells
    BY DEF IInv
  <1> QED
    BY <1>1, InitIInv, StepIInv, PTL DEF Spec

-----------------------------------------------------------------------------
(* What becomes of the files.  The invariants follow one turn of main's    *)
(* loop; g stands for the file it is about.                                *)

\* The entries of the table, where readphdrtable looks for them.
Table(g, k) == g[EhdrSize + k]
EndOfTable(g) == EhdrSize + g[2].phnum

HasSegment(p) == p.kind = "phdr" /\ p.type # "PT_NULL"
EndOf(p) == p.off + p.filesz

IsElf(g) ==
  /\ Usual(g) /\ Len(g) >= EhdrSize /\ g[1] = Magic

HasTable(g) ==
  IsElf(g) /\ g[2].phoff = EhdrSize /\ EndOfTable(g) <= Len(g)

Sized == {"truncatezeros", "modifyheaders", "write_ehdr", "write_phdrs",
          "ftruncate"}
Tabled == {"getmemorysize"} \cup Sized
Turn == {"readphdrtable"} \cup Tabled

\* How the headers in memory differ from those of the file.
HeadersRead ==
  /\ pc \in Turn => IsElf(file)
  /\ pc \in {"readphdrtable", "getmemorysize", "truncatezeros",
             "modifyheaders"} => ehdr = file[2]
  /\ pc = "write_ehdr" =>
       ehdr = IF file[2].shoff >= newsize THEN [file[2] EXCEPT !.shoff = 0]
                                          ELSE file[2]
  /\ pc \in {"write_phdrs", "ftruncate"} =>
       ehdr = file[2] /\ ehdr.shoff < newsize
  /\ pc \in Tabled =>
       /\ HasTable(file)
       /\ DOMAIN phdrs = 1 .. file[2].phnum
  /\ pc \in {"getmemorysize", "truncatezeros", "modifyheaders"} =>
       \A k \in 1 .. file[2].phnum : phdrs[k] = Table(file, k)
  /\ pc \in {"write_ehdr", "write_phdrs"} =>
       \A k \in 1 .. file[2].phnum : phdrs[k] = Reduced(Table(file, k), newsize)
  /\ pc = "ftruncate" =>
       \A k \in 1 .. file[2].phnum :
         phdrs[k] = Table(file, k) /\ Reduced(phdrs[k], newsize) = phdrs[k]

\* Something refers to the cell at the end of the first size cells.
Reaches(g, size) ==
  \/ size <= EndOfTable(g)
  \/ \E k \in 1 .. g[2].phnum :
       HasSegment(Table(g, k)) /\ EndOf(Table(g, k)) >= size

\* m is a memory size getmemorysize may find, and size what is left of it.
Measured(g, m, size) ==
  /\ size \in 1..m /\ EndOfTable(g) <= m
  /\ \A k \in 1 .. g[2].phnum :
       HasSegment(Table(g, k)) => EndOf(Table(g, k)) <= m
  /\ Reaches(g, size)
  /\ \A x \in size+1 .. m : x <= Len(g) => g[x] = Zero

SizeRight ==
  pc \in Sized =>
    \E m \in Nat :
      /\ Measured(file, m, newsize)
      /\ IF pc = "truncatezeros"
           THEN newsize = m \/ m <= Len(file)
           ELSE m <= Len(file) /\ file[newsize] # Zero

\* A file that sstrip has nothing to do about: it ends in the cell size, or in
\* the table and zeros behind that cell, and nothing refers to what follows.
SettledAt(g, size) ==
  /\ HasTable(g)
  /\ size \in 1 .. Len(g) /\ g[size] # Zero
  /\ \A x \in size+1 .. Len(g) : g[x] = Zero
  /\ Len(g) = size \/ Len(g) = EndOfTable(g)
  /\ g[2].shoff < size
  /\ \A k \in 1 .. g[2].phnum : Reduced(Table(g, k), size) = Table(g, k)
  /\ Reaches(g, size)

Settled(g) == \E size \in Nat : SettledAt(g, size)

AllSettled == \A n \in stripped : n \in Names /\ Settled(files[n])

\* In a second turn, truncatezeros starts no earlier than at the last cell.
NoneBehind ==
  pc \in Sized /\ filename \in stripped =>
    \A x \in newsize+1 .. Len(file) : file[x] = Zero

\* The lengths of the two files end in the same page.
SamePage(f, g) == (Len(f) - 1) \div Page = (Len(g) - 1) \div Page

ImageSafe ==
  /\ files \in [Names -> Seq(Cells)] /\ foreign \in BOOLEAN
  /\ \A n \in Names :
       /\ Usual(files[n])
       /\ given[n] \in Seq(Cells) /\ Len(files[n]) <= Len(given[n])
       /\ IsExecutable(given[n]) /\ (foreign \/ SamePage(files[n], given[n])) =>
            SameImage(given[n], files[n])

FilesInv == HeadersRead /\ SizeRight /\ AllSettled /\ NoneBehind /\ ImageSafe

-----------------------------------------------------------------------------
(* Largest, and what the functions compute.                                *)

\* A largest element of a set of numbers with a bound.
LEMMA LargestIs ==
  ASSUME NEW S \in SUBSET Nat, S # {}, NEW b \in Nat, \A x \in S : x <= b
  PROVE  Largest(S) \in S /\ \A y \in S : y <= Largest(S)
<1> DEFINE R == { d \in Nat : \E x \in S : d = b - x }
<1>1. R # {}
  <2>1. PICK x \in S : TRUE
    OBVIOUS
  <2>2. b - x \in Nat
    BY <2>1
  <2>3. QED
    BY <2>2
<1>2. PICK d \in R : \A e \in R : ~ (<<e, d>> \in OpToRel(<, Nat))
  BY <1>1, NatLessThanWellFounded, WFMin
<1>3. PICK x \in S : d = b - x
  OBVIOUS
<1>4. ASSUME NEW y \in S PROVE y <= x
  <2>1. b - y \in Nat /\ b - y \in R /\ d \in Nat
    OBVIOUS
  <2>2. ~ (b - y < d)
    BY <1>2, <2>1 DEF OpToRel
  <2>3. QED
    BY <1>3, <2>1, <2>2
<1>5. \E z \in S : \A y \in S : y <= z
  BY <1>4
<1>6. QED
  BY <1>5 DEF Largest

\* Finitely many segments have ends below some number.
LEMMA EndsBounded ==
  ASSUME NEW n \in Nat, NEW t, \A k \in 1..n : t[k] \in Phdrs \cup {Zero}
  PROVE  \E b \in Nat : \A k \in 1..n : HasSegment(t[k]) => EndOf(t[k]) <= b
<1> DEFINE Bounded(j) ==
             \E b \in Nat : \A k \in 1..j : HasSegment(t[k]) => EndOf(t[k]) <= b
           R == { j \in 0..n : ~ Bounded(j) }
<1>1. SUFFICES ASSUME R # {} PROVE FALSE
  <2>1. n \in 0..n
    OBVIOUS
  <2>2. QED
    BY <2>1
<1>2. R \in SUBSET Nat
  OBVIOUS
<1>3. PICK j \in R : \A i \in R : ~ (<<i, j>> \in OpToRel(<, Nat))
  BY <1>1, <1>2, NatLessThanWellFounded, WFMin
<1>4. j \in 0..n /\ ~ Bounded(j)
  OBVIOUS
<1>5. j # 0
  <2>1. Bounded(0)
    OBVIOUS
  <2>2. QED
    BY <1>4, <2>1
<1>6. PICK b \in Nat : \A k \in 1 .. j-1 : HasSegment(t[k]) => EndOf(t[k]) <= b
  <2>1. j-1 \in 0..n /\ j-1 \in Nat /\ j \in Nat /\ j-1 < j
    BY <1>4, <1>5
  <2>2. j-1 \notin R
    BY <1>3, <2>1 DEF OpToRel
  <2>3. Bounded(j-1)
    BY <2>1, <2>2
  <2>4. QED
    BY <2>3
<1>7. PICK c \in Nat : HasSegment(t[j]) => EndOf(t[j]) = c
  <2>1. CASE t[j] \in Phdrs
    <3>1. EndOf(t[j]) \in Nat
      BY <2>1 DEF EndOf, Phdrs
    <3>2. QED
      BY <3>1
  <2>2. CASE t[j] = Zero
    BY <2>2 DEF HasSegment, Zero
  <2>3. QED
    BY <1>4, <1>5, <2>1, <2>2
<1>8. \A k \in 1..j : HasSegment(t[k]) => EndOf(t[k]) <= b + c
  <2>1. SUFFICES ASSUME NEW k \in 1..j, HasSegment(t[k])
                 PROVE  EndOf(t[k]) <= b + c
    OBVIOUS
  <2>2. CASE k = j
    BY <1>7, <2>1, <2>2
  <2>3. CASE k # j
    <3>1. k \in 1 .. j-1 /\ k \in 1..n
      BY <1>4, <2>3
    <3>2. EndOf(t[k]) <= b
      BY <1>6, <2>1, <3>1
    <3>3. EndOf(t[k]) \in Nat
      BY <2>1, <3>1 DEF EndOf, HasSegment, Phdrs, Zero
    <3>4. QED
      BY <3>2, <3>3
  <2>4. QED
    BY <2>2, <2>3
<1>9. QED
  BY <1>4, <1>8

\* What getmemorysize finds is the end of the table or of a segment, and no
\* segment ends later.
LEMMA MemorySizeIs ==
  ASSUME NEW g, HasTable(g), ehdr = g[2], DOMAIN phdrs = 1 .. g[2].phnum,
         \A k \in 1 .. g[2].phnum : phdrs[k] = Table(g, k)
  PROVE  \E m \in Nat : /\ m = Largest({EhdrSize, TableEnd} \cup SegmentEnds)
                        /\ Measured(g, m, m)
<1> DEFINE S == {EhdrSize, TableEnd} \cup SegmentEnds
           n == g[2].phnum
<1>1. n \in Nat /\ \A k \in 1..n : phdrs[k] \in Phdrs \cup {Zero}
  <2>1. Usual(g) /\ Len(g) >= EhdrSize /\ g[1] = Magic
    BY DEF HasTable, IsElf
  <2>2. g[2] \in Ehdrs /\ n \in Nat /\ g \in Seq(Cells)
    BY <2>1 DEF Usual, Ehdrs
  <2>3. ASSUME NEW k \in 1..n PROVE phdrs[k] \in Phdrs \cup {Zero}
    <3>1. EhdrSize + k <= Len(g)
      BY <2>2 DEF HasTable, EndOfTable, EhdrSize
    <3>2. QED
      BY <2>1, <3>1 DEF Usual, Table
  <2>4. QED
    BY <2>2, <2>3
<1>2. TableEnd = EndOfTable(g) /\ TableEnd \in Nat /\ EhdrSize \in Nat
        /\ TableEnd >= EhdrSize
  BY <1>1 DEF TableEnd, EndOfTable, EhdrSize, HasTable
<1>3. SegmentEnds = { EndOf(phdrs[k]) : k \in { j \in 1..n : HasSegment(phdrs[j]) } }
  BY DEF SegmentEnds, EndOf, HasSegment
<1>4. SegmentEnds \subseteq Nat
  <2>1. ASSUME NEW k \in 1..n, HasSegment(phdrs[k]) PROVE EndOf(phdrs[k]) \in Nat
    BY <1>1, <2>1 DEF EndOf, HasSegment, Phdrs, Zero
  <2>2. QED
    BY <1>3, <2>1
<1>5. PICK c \in Nat : \A x \in SegmentEnds : x <= c
  <2>1. PICK c \in Nat : \A k \in 1..n : HasSegment(phdrs[k]) => EndOf(phdrs[k]) <= c
    BY <1>1, EndsBounded
  <2>2. QED
    BY <1>3, <2>1
<1>6. \E b \in Nat : \A x \in S : x <= b
  <2>1. c + TableEnd \in Nat
    BY <1>2
  <2>2. \A x \in S : x <= c + TableEnd
    BY <1>2, <1>4, <1>5
  <2>3. QED
    BY <2>1, <2>2
<1>7. S \in SUBSET Nat /\ S # {}
  BY <1>2, <1>4
<1>8. PICK m : m = Largest(S)
  OBVIOUS
<1>9. m \in S /\ \A x \in S : x <= m
  BY <1>6, <1>7, <1>8, LargestIs
<1>10. m \in Nat /\ EndOfTable(g) <= m /\ m \in 1..m
  <2>1. m \in Nat /\ TableEnd <= m /\ EhdrSize <= m
    BY <1>7, <1>9
  <2>2. QED
    BY <1>2, <2>1 DEF EhdrSize
<1>11. \A k \in 1..n : HasSegment(Table(g, k)) => EndOf(Table(g, k)) <= m
  BY <1>3, <1>9
<1>12. Reaches(g, m)
  <2>1. CASE m \in {EhdrSize, TableEnd}
    BY <1>2, <2>1 DEF Reaches, EhdrSize
  <2>2. CASE m \in SegmentEnds
    <3>1. PICK k \in 1..n : HasSegment(phdrs[k]) /\ m = EndOf(phdrs[k])
      BY <1>3, <2>2
    <3>2. HasSegment(Table(g, k)) /\ EndOf(Table(g, k)) >= m
      BY <1>10, <3>1
    <3>3. QED
      BY <3>2 DEF Reaches
  <2>3. QED
    BY <1>9, <2>1, <2>2
<1>13. Measured(g, m, m)
  BY <1>10, <1>11, <1>12 DEF Measured
<1>14. QED
  BY <1>8, <1>10, <1>13

\* truncatezeros counts the zeros before newsize.
LEMMA ZerosCounted ==
  ASSUME NEW n \in Nat, newsize \in Nat, n <= newsize
  PROVE  \E z \in 0..n :
           /\ z = TrailingZeros(n)
           /\ \A j \in 1..z : file[newsize - j + 1] = Zero
           /\ z < n => file[newsize - z] # Zero
<1> DEFINE Z == { k \in 1..n : \A j \in 1..k : file[newsize - j + 1] = Zero }
           R == { d \in 0..n : d = n \/ file[newsize - d] # Zero }
<1>1. R \in SUBSET Nat /\ R # {}
  <2>1. n \in R
    OBVIOUS
  <2>2. QED
    BY <2>1
<1>2. PICK z \in R : \A e \in R : ~ (<<e, z>> \in OpToRel(<, Nat))
  BY <1>1, NatLessThanWellFounded, WFMin
<1>3. z \in 0..n /\ (z < n => file[newsize - z] # Zero)
  OBVIOUS
<1>4. ASSUME NEW j \in 1..z PROVE file[newsize - j + 1] = Zero
  <2>1. j-1 \in 0..n /\ j-1 \in Nat /\ j-1 < z /\ j-1 < n /\ z \in Nat
    BY <1>3
  <2>2. j-1 \notin R
    BY <1>2, <2>1 DEF OpToRel
  <2>3. file[newsize - (j-1)] = Zero
    BY <2>1, <2>2
  <2>4. newsize - (j-1) = newsize - j + 1
    BY <2>1
  <2>5. QED
    BY <2>3, <2>4
<1>5. Z = 1..z
  <2>1. ASSUME NEW k \in 1..z PROVE k \in Z
    <3>1. k \in 1..n /\ \A j \in 1..k : j \in 1..z
      BY <1>3
    <3>2. QED
      BY <1>4, <3>1
  <2>2. ASSUME NEW k \in Z, k > z PROVE FALSE
    <3>1. z + 1 \in 1..k /\ z < n /\ newsize - (z + 1) + 1 = newsize - z
      BY <1>3, <2>2
    <3>2. file[newsize - (z + 1) + 1] = Zero
      BY <3>1
    <3>3. QED
      BY <1>3, <3>1, <3>2
  <2>3. ASSUME NEW k \in Z PROVE k \in 1..z
    <3>1. k \in 1..n /\ ~ (k > z)
      BY <2>2
    <3>2. QED
      BY <1>3, <3>1
  <2>4. QED
    BY <2>1, <2>3
<1>6. Cardinality(1..z) = z
  <2>1. 1 \in Int /\ z \in Int /\ z >= 0
    BY <1>3
  <2>2. Cardinality(1..z) = IF 1 > z THEN 0 ELSE z - 1 + 1
    BY <2>1, FS_Interval
  <2>3. QED
    BY <2>1, <2>2
<1>7. TrailingZeros(n) = z
  BY <1>5, <1>6 DEF TrailingZeros
<1>8. QED
  BY <1>3, <1>4, <1>7

\* What modifyheaders makes of an entry.
LEMMA ReducedIs ==
  ASSUME NEW p \in Phdrs, NEW size \in Nat
  PROVE  /\ Reduced(p, size) \in Phdrs
         /\ Reduced(p, size).type = p.type
         /\ Reduced(p, size).memsz = p.memsz
         /\ p.off >= size =>
              /\ Reduced(p, size).filesz = 0
              /\ Reduced(p, size).off = IF foreign THEN size ELSE p.off
         /\ p.off < size => Reduced(p, size).off = p.off
         /\ p.off < size /\ EndOf(p) > size =>
              Reduced(p, size).filesz = IF foreign THEN size - p.off ELSE p.filesz
         /\ p.off < size /\ ~ (EndOf(p) > size) => Reduced(p, size) = p
<1>1. /\ p.kind = "phdr" /\ p.type \in STRING /\ p.off \in Nat
      /\ p.filesz \in Nat /\ p.memsz \in Nat
      /\ p = [kind |-> "phdr", type |-> p.type, off |-> p.off,
              filesz |-> p.filesz, memsz |-> p.memsz]
  BY DEF Phdrs
<1>2. CASE p.off >= size
  <2>1. Reduced(p, size) = [p EXCEPT !.off = IF foreign THEN size ELSE @, !.filesz = 0]
    BY <1>1, <1>2 DEF Reduced, swap_bytes
  <2>2. PICK o \in Nat : o = IF foreign THEN size ELSE p.off
    BY <1>1
  <2>3. Reduced(p, size) = [kind |-> "phdr", type |-> p.type, off |-> o,
                            filesz |-> 0, memsz |-> p.memsz]
    BY <1>1, <2>1, <2>2
  <2>4. QED
    BY <1>1, <1>2, <2>2, <2>3 DEF Phdrs
<1>3. CASE ~ (p.off >= size) /\ EndOf(p) > size /\ foreign
  <2>1. Reduced(p, size) = [p EXCEPT !.filesz = size - p.off]
    BY <1>1, <1>3 DEF Reduced, swap_bytes, EndOf
  <2>2. size - p.off \in Nat
    BY <1>1, <1>3
  <2>3. QED
    BY <1>1, <1>3, <2>1, <2>2 DEF Phdrs
<1>4. CASE ~ (p.off >= size) /\ ~ (EndOf(p) > size /\ foreign)
  <2>1. Reduced(p, size) = p
    BY <1>1, <1>4 DEF Reduced, swap_bytes, EndOf
  <2>2. QED
    BY <1>1, <1>4, <2>1
<1>5. QED
  BY <1>2, <1>3, <1>4

\* An entry that ends at size, or wholly behind it, is not reduced again.
LEMMA ReducedOnce ==
  ASSUME NEW p \in Phdrs \cup {Zero}, NEW size \in Nat
  PROVE  Reduced(Reduced(p, size), size) = Reduced(p, size)
<1>1. CASE p = Zero
  BY <1>1 DEF Reduced, Zero
<1>2. CASE p \in Phdrs
  <2>1. PICK q : q = Reduced(p, size)
    OBVIOUS
  <2>2. q \in Phdrs
    BY <1>2, <2>1, ReducedIs
  <2>3. /\ q.kind = "phdr" /\ q.off \in Nat /\ q.filesz \in Nat
        /\ q = [kind |-> "phdr", type |-> q.type, off |-> q.off,
                filesz |-> q.filesz, memsz |-> q.memsz]
    BY <2>2 DEF Phdrs
  <2>4. CASE p.off >= size
    <3>1. q.filesz = 0 /\ q.off = IF foreign THEN size ELSE p.off
      BY <1>2, <2>1, <2>4, ReducedIs
    <3>2. [q EXCEPT !.off = IF foreign THEN size ELSE @, !.filesz = 0] = q
      BY <2>3, <3>1
    <3>3. q.off >= size
      BY <1>2, <2>4, <3>1 DEF Phdrs
    <3>4. Reduced(q, size) = q
      BY <2>3, <3>2, <3>3 DEF Reduced, swap_bytes
    <3>5. QED
      BY <2>1, <3>4
  <2>5. CASE p.off < size
    <3>1. q.off = p.off /\ p.off \in Nat /\ p.filesz \in Nat
      BY <1>2, <2>1, <2>5, ReducedIs DEF Phdrs
    <3>2. ~ (EndOf(q) > size /\ foreign)
      <4>1. CASE EndOf(p) > size /\ foreign
        <5>1. q.filesz = size - p.off
          BY <1>2, <2>1, <2>5, <4>1, ReducedIs
        <5>2. QED
          BY <2>5, <3>1, <5>1 DEF EndOf
      <4>2. CASE ~ (EndOf(p) > size)
        <5>1. q = p
          BY <1>2, <2>1, <2>5, <4>2, ReducedIs
        <5>2. QED
          BY <4>2, <5>1
      <4>3. QED
        BY <4>1, <4>2
    <3>3. Reduced(q, size) = q
      BY <2>3, <2>5, <3>1, <3>2 DEF Reduced, swap_bytes, EndOf
    <3>4. QED
      BY <2>1, <3>3
  <2>6. QED
    BY <1>2, <2>4, <2>5 DEF Phdrs
<1>3. QED
  BY <1>1, <1>2

\* Its end stays below any bound of the ends, and reaches as far as size.
LEMMA ReducedEnds ==
  ASSUME NEW p \in Phdrs \cup {Zero}, NEW size \in Nat, NEW m \in Nat, size <= m
  PROVE  /\ HasSegment(Reduced(p, size)) <=> HasSegment(p)
         /\ HasSegment(p) /\ EndOf(p) <= m => EndOf(Reduced(p, size)) <= m
         /\ HasSegment(p) /\ EndOf(p) >= size => EndOf(Reduced(p, size)) >= size
<1>1. CASE p = Zero
  BY <1>1 DEF Reduced, Zero, HasSegment
<1>2. CASE p \in Phdrs
  <2>1. PICK q : q = Reduced(p, size)
    OBVIOUS
  <2>2. /\ q \in Phdrs /\ q.kind = "phdr" /\ q.off \in Nat /\ q.filesz \in Nat
        /\ p.kind = "phdr" /\ p.off \in Nat /\ p.filesz \in Nat /\ q.type = p.type
    BY <1>2, <2>1, ReducedIs DEF Phdrs
  <2>3. CASE p.off >= size
    <3>1. q.filesz = 0 /\ q.off = IF foreign THEN size ELSE p.off
      BY <1>2, <2>1, <2>3, ReducedIs
    <3>2. q.off >= size /\ q.off <= p.off
      BY <2>2, <2>3, <3>1
    <3>3. (EndOf(p) <= m => EndOf(q) <= m) /\ EndOf(q) >= size
      BY <2>2, <3>1, <3>2 DEF EndOf
    <3>4. QED
      BY <2>1, <2>2, <3>3 DEF HasSegment
  <2>4. CASE p.off < size /\ EndOf(p) > size
    <3>1. q.off = p.off /\ q.filesz = IF foreign THEN size - p.off ELSE p.filesz
      BY <1>2, <2>1, <2>4, ReducedIs
    <3>2. EndOf(q) = size \/ EndOf(q) = EndOf(p)
      BY <2>2, <2>4, <3>1 DEF EndOf
    <3>3. EndOf(p) \in Nat
      BY <2>2 DEF EndOf
    <3>4. QED
      BY <2>1, <2>2, <2>4, <3>2, <3>3 DEF HasSegment
  <2>5. CASE p.off < size /\ ~ (EndOf(p) > size)
    <3>1. q = p
      BY <1>2, <2>1, <2>5, ReducedIs
    <3>2. QED
      BY <2>1, <3>1
  <2>6. QED
    BY <2>2, <2>3, <2>4, <2>5
<1>3. QED
  BY <1>1, <1>2

-----------------------------------------------------------------------------
(* What the loader makes of a file that changed.                           *)

\* Cells a process sees no difference between: headers, whatever they say.
Alike(c, d) ==
  c = d \/ (c.kind \in {"ehdr", "phdr"} /\ d.kind \in {"ehdr", "phdr"})

\* Files of like cells are mapped alike, and have their zeros in common.
LEMMA AlikeMapped ==
  ASSUME NEW g \in Seq(Cells), NEW h \in Seq(Cells), Len(h) = Len(g),
         \A x \in 1 .. Len(g) : Alike(g[x], h[x])
  PROVE  /\ \A i \in Nat : Mapped(h, i) = Mapped(g, i)
         /\ \A x \in 1 .. Len(g) : h[x] = Zero <=> g[x] = Zero
<1>1. ASSUME NEW i \in Nat PROVE Mapped(h, i) = Mapped(g, i)
  <2>1. CASE i < Len(g)
    <3>1. i + 1 \in 1 .. Len(g)
      BY <2>1
    <3>2. Alike(g[i + 1], h[i + 1])
      BY <3>1
    <3>3. QED
      BY <2>1, <3>2 DEF Mapped, Alike
  <2>2. CASE ~ (i < Len(g))
    BY <2>2 DEF Mapped
  <2>3. QED
    BY <2>1, <2>2
<1>2. ASSUME NEW x \in 1 .. Len(g) PROVE h[x] = Zero <=> g[x] = Zero
  BY DEF Alike, Zero
<1>3. QED
  BY <1>1, <1>2

\* A segment shows the same where the two files do.
LEMMA MappedMemory ==
  ASSUME NEW g, NEW h, NEW p \in Phdrs,
         \A i \in Nat : i < EndOf(p) => Mapped(h, i) = Mapped(g, i)
  PROVE  Memory(h, p) = Memory(g, p)
<1>1. p.off \in Nat /\ p.filesz \in Nat /\ p.memsz \in Nat
  BY DEF Phdrs
<1>2. ASSUME NEW i \in 1 .. p.memsz, i <= p.filesz
      PROVE  Mapped(h, p.off + i - 1) = Mapped(g, p.off + i - 1)
  <2>1. p.off + i - 1 \in Nat /\ p.off + i - 1 < EndOf(p)
    BY <1>1, <1>2 DEF EndOf
  <2>2. QED
    BY <2>1
<1>3. QED
  BY <1>2 DEF Memory

\* A reduced segment is filled up with zeros, which is what it lost.
LEMMA ReducedMemory ==
  ASSUME NEW g \in Seq(Cells), NEW p \in Phdrs, NEW size \in Nat, NEW m \in Nat,
         m <= Len(g), EndOf(p) <= m,
         \A x \in size+1 .. m : g[x] = Zero
  PROVE  Memory(g, Reduced(p, size)) = Memory(g, p)
<1>1. p.off \in Nat /\ p.filesz \in Nat /\ p.memsz \in Nat
  BY DEF Phdrs
<1>2. PICK q : q = Reduced(p, size)
  OBVIOUS
<1>3. q \in Phdrs /\ q.memsz = p.memsz /\ q.filesz \in Nat /\ q.off \in Nat
  BY <1>2, ReducedIs DEF Phdrs
<1>4. ASSUME NEW i \in 1 .. p.memsz, i <= p.filesz, p.off + i > size
      PROVE  Mapped(g, p.off + i - 1) = Zero
  <2>1. p.off + i - 1 \in Nat /\ p.off + i - 1 < Len(g)
    BY <1>1, <1>4 DEF EndOf
  <2>2. p.off + i \in size+1 .. m
    BY <1>1, <1>4 DEF EndOf
  <2>3. g[(p.off + i - 1) + 1] = Zero
    <3>1. (p.off + i - 1) + 1 = p.off + i
      BY <1>1
    <3>2. QED
      BY <2>2, <3>1
  <2>4. QED
    BY <2>1, <2>3 DEF Mapped, Zero
<1>5. ASSUME NEW i \in 1 .. p.memsz
      PROVE  (IF i <= q.filesz THEN Mapped(g, q.off + i - 1) ELSE Zero)
               = (IF i <= p.filesz THEN Mapped(g, p.off + i - 1) ELSE Zero)
  <2>1. CASE p.off >= size
    <3>1. q.filesz = 0
      BY <1>2, <2>1, ReducedIs
    <3>2. p.off + i > size /\ ~ (i <= 0)
      BY <1>1, <2>1
    <3>3. QED
      BY <1>4, <3>1, <3>2
  <2>2. CASE p.off < size /\ EndOf(p) > size
    <3>1. q.off = p.off /\ q.filesz = IF foreign THEN size - p.off ELSE p.filesz
      BY <1>2, <2>2, ReducedIs
    <3>2. CASE i <= q.filesz
      <4>1. i <= p.filesz
        BY <1>1, <2>2, <3>1, <3>2 DEF EndOf
      <4>2. QED
        BY <3>1, <3>2, <4>1
    <3>3. CASE ~ (i <= q.filesz)
      <4>1. i <= p.filesz => p.off + i > size
        BY <1>1, <2>2, <3>1, <3>3
      <4>2. QED
        BY <1>4, <3>3, <4>1
    <3>4. QED
      BY <3>2, <3>3
  <2>3. CASE p.off < size /\ ~ (EndOf(p) > size)
    <3>1. q = p
      BY <1>2, <2>3, ReducedIs
    <3>2. QED
      BY <3>1
  <2>4. QED
    BY <1>1, <2>1, <2>2, <2>3
<1>6. QED
  BY <1>2, <1>3, <1>5 DEF Memory

\* An image that stays the same twice stays the same.
LEMMA SameImageTransitive ==
  ASSUME NEW f, NEW g, NEW h, SameImage(f, g), SameImage(g, h)
  PROVE  SameImage(f, h)
BY DEF SameImage

\* What lies between two offsets in a page lies in that page.
LEMMA PageConvex ==
  ASSUME NEW a \in Nat, NEW b \in Nat, NEW c \in Nat, a <= b, b <= c,
         a \div Page = c \div Page
  PROVE  b \div Page = a \div Page
<1>1. Page \in Nat /\ Page > 0
  BY SstripAssumption
<1>2. QED
  BY <1>1

-----------------------------------------------------------------------------
(* The changes of a file: the header, a part of the table, the length.     *)

\* The entries of a table in use.
LEMMA TableTyped ==
  ASSUME NEW g, HasTable(g)
  PROVE  /\ g \in Seq(Cells) /\ Len(g) \in Nat /\ g[2] \in Ehdrs
         /\ g[2].phnum \in Nat /\ g[2].shoff \in Nat
         /\ EndOfTable(g) \in Nat /\ EndOfTable(g) >= EhdrSize
         /\ \A k \in 1 .. g[2].phnum : /\ EhdrSize + k \in 1 .. Len(g)
                                       /\ Table(g, k) \in Phdrs \cup {Zero}
<1>1. Usual(g) /\ Len(g) >= EhdrSize /\ g[1] = Magic /\ EndOfTable(g) <= Len(g)
  BY DEF HasTable, IsElf
<1>2. g \in Seq(Cells) /\ g[2] \in Ehdrs
  BY <1>1 DEF Usual
<1>3. g[2].phnum \in Nat /\ g[2].shoff \in Nat
  BY <1>2 DEF Ehdrs
<1>4. EndOfTable(g) \in Nat /\ EndOfTable(g) >= EhdrSize
  BY <1>3 DEF EndOfTable, EhdrSize
<1>5. ASSUME NEW k \in 1 .. g[2].phnum
      PROVE  EhdrSize + k \in 1 .. Len(g) /\ Table(g, k) \in Phdrs \cup {Zero}
  <2>1. EhdrSize + k \in 1 .. Len(g)
    BY <1>1, <1>2, <1>3 DEF EndOfTable, EhdrSize
  <2>2. Table(g, k) \in Phdrs \cup {Zero}
    BY <1>1, <2>1 DEF Usual, Table
  <2>3. QED
    BY <2>1, <2>2
<1>6. QED
  BY <1>2, <1>3, <1>4, <1>5

\* Equal tables, and segments that show the same, make the same image.
LEMMA ImageSame ==
  ASSUME NEW g, NEW h, HasTable(g), HasTable(h), h[2].phnum = g[2].phnum,
         \A k \in 1 .. g[2].phnum :
           /\ HasSegment(Table(g, k)) <=> HasSegment(Table(h, k))
           /\ Table(h, k).kind = Table(g, k).kind
           /\ Table(g, k) # Zero => Table(h, k).type = Table(g, k).type
           /\ HasSegment(Table(g, k)) => Memory(h, Table(h, k)) = Memory(g, Table(g, k))
  PROVE  SameImage(g, h)
<1>1. h[2].phoff = EhdrSize /\ g[2].phoff = EhdrSize /\ Len(h) >= EhdrSize /\ h[1] = Magic
        /\ EndOfTable(h) <= Len(h)
  BY DEF HasTable, IsElf
<1>2. IsExecutable(h)
  BY <1>1 DEF IsExecutable, EndOfTable
<1>3. ASSUME NEW k \in 1 .. g[2].phnum
      PROVE  /\ Loads(g, k) <=> Loads(h, k)
             /\ Loads(g, k) => Memory(g, Entry(g, k)) = Memory(h, Entry(h, k))
  <2>1. Entry(g, k) = Table(g, k) /\ Entry(h, k) = Table(h, k)
    BY <1>1 DEF Entry, Table
  <2>2. Table(g, k) = Zero => ~ Loads(g, k) /\ ~ Loads(h, k)
    BY <2>1 DEF Loads, Zero
  <2>3. QED
    BY <2>1, <2>2 DEF Loads, HasSegment
<1>4. QED
  BY <1>1, <1>2, <1>3 DEF SameImage

\* A header written over another one leaves the table and the image alone.
LEMMA HeaderWritten ==
  ASSUME NEW g, NEW e \in Ehdrs, NEW h \in Seq(Cells), HasTable(g),
         e.phoff = g[2].phoff, e.phnum = g[2].phnum, Len(h) = Len(g), h[2] = e,
         \A x \in 1 .. Len(g) : x # 2 => h[x] = g[x]
  PROVE  /\ HasTable(h)
         /\ \A k \in 1 .. g[2].phnum : Table(h, k) = Table(g, k)
         /\ \A x \in 1 .. Len(g) : h[x] = Zero <=> g[x] = Zero
         /\ SameImage(g, h)
<1>1. /\ g \in Seq(Cells) /\ Len(g) \in Nat /\ g[2] \in Ehdrs /\ g[2].phnum \in Nat
      /\ \A k \in 1 .. g[2].phnum : /\ EhdrSize + k \in 1 .. Len(g)
                                    /\ Table(g, k) \in Phdrs \cup {Zero}
  BY TableTyped
<1>2. Usual(g) /\ Len(g) >= EhdrSize /\ g[1] = Magic /\ EndOfTable(g) <= Len(g)
        /\ g[2].phoff = EhdrSize
  BY DEF HasTable, IsElf
<1>3. \A k \in 1 .. g[2].phnum : Table(h, k) = Table(g, k)
  <2>1. SUFFICES ASSUME NEW k \in 1 .. g[2].phnum PROVE Table(h, k) = Table(g, k)
    OBVIOUS
  <2>2. EhdrSize + k \in 1 .. Len(g) /\ EhdrSize + k # 2
    BY <1>1 DEF EhdrSize
  <2>3. QED
    BY <2>2 DEF Table
<1>4. HasTable(h)
  <2>1. h[1] = Magic /\ Len(h) >= EhdrSize
    BY <1>1, <1>2 DEF EhdrSize
  <2>2. ASSUME NEW k \in 1 .. h[2].phnum, EhdrSize + k <= Len(h)
        PROVE  h[EhdrSize + k] \in Phdrs \cup {Zero}
    <3>1. k \in 1 .. g[2].phnum
      OBVIOUS
    <3>2. Table(h, k) = Table(g, k) /\ Table(g, k) \in Phdrs \cup {Zero}
      BY <1>1, <1>3, <3>1
    <3>3. QED
      BY <3>2 DEF Table
  <2>3. Usual(h)
    BY <1>2, <2>1, <2>2 DEF Usual
  <2>4. EndOfTable(h) <= Len(h)
    BY <1>2 DEF EndOfTable
  <2>5. QED
    BY <1>2, <2>1, <2>3, <2>4 DEF HasTable, IsElf
<1>5. \A x \in 1 .. Len(g) : Alike(g[x], h[x])
  <2>1. Alike(g[2], h[2])
    BY <1>1 DEF Alike, Ehdrs
  <2>2. QED
    BY <2>1 DEF Alike
<1>6. /\ \A i \in Nat : Mapped(h, i) = Mapped(g, i)
      /\ \A x \in 1 .. Len(g) : h[x] = Zero <=> g[x] = Zero
  BY <1>1, <1>5, AlikeMapped
<1>7. SameImage(g, h)
  <2>1. ASSUME NEW k \in 1 .. g[2].phnum, HasSegment(Table(g, k))
        PROVE  Memory(h, Table(h, k)) = Memory(g, Table(g, k))
    <3>1. PICK p \in Phdrs : p = Table(g, k)
      BY <1>1, <2>1 DEF HasSegment, Zero
    <3>2. Memory(h, p) = Memory(g, p)
      BY <1>6, MappedMemory
    <3>3. QED
      BY <1>3, <3>1, <3>2
  <2>2. h[2].phnum = g[2].phnum
    OBVIOUS
  <2>3. QED
    BY <1>3, <1>4, <2>1, <2>2, ImageSame
<1>8. QED
  BY <1>3, <1>4, <1>6, <1>7

\* The file with the first n entries of its table taken from t.
WithEntries(g, t, n) ==
  [x \in DOMAIN g |-> IF x - EhdrSize \in 1..n THEN t[x - EhdrSize] ELSE g[x]]

\* Entries written to the table, all or some, leave the image alone.
LEMMA TableWritten ==
  ASSUME NEW g, HasTable(g), NEW size \in Nat, NEW m \in Nat,
         Measured(g, m, size), m <= Len(g), NEW n \in 0 .. g[2].phnum,
         NEW t, \A k \in 1 .. g[2].phnum : t[k] = Reduced(Table(g, k), size),
         NEW h, h = WithEntries(g, t, n)
  PROVE  /\ HasTable(h) /\ Len(h) = Len(g) /\ h[2] = g[2]
         /\ \A k \in 1 .. g[2].phnum :
              Table(h, k) = IF k <= n THEN Reduced(Table(g, k), size) ELSE Table(g, k)
         /\ \A x \in 1 .. Len(g) : h[x] = Zero <=> g[x] = Zero
         /\ SameImage(g, h)
<1>1. /\ g \in Seq(Cells) /\ Len(g) \in Nat /\ g[2] \in Ehdrs /\ g[2].phnum \in Nat
      /\ \A k \in 1 .. g[2].phnum : /\ EhdrSize + k \in 1 .. Len(g)
                                    /\ Table(g, k) \in Phdrs \cup {Zero}
  BY TableTyped
<1>2. Usual(g) /\ Len(g) >= EhdrSize /\ g[1] = Magic /\ EndOfTable(g) <= Len(g)
        /\ g[2].phoff = EhdrSize
  BY DEF HasTable, IsElf
<1>3. DOMAIN g = 1 .. Len(g)
  BY <1>1
<1>4. ASSUME NEW k \in 1 .. g[2].phnum
      PROVE  Table(h, k) = IF k <= n THEN Reduced(Table(g, k), size) ELSE Table(g, k)
  <2>1. EhdrSize + k \in DOMAIN g /\ EhdrSize + k - EhdrSize = k
    BY <1>1, <1>3 DEF EhdrSize
  <2>2. k \in 1..n <=> k <= n
    BY <1>1
  <2>3. PICK x \in DOMAIN g : x = EhdrSize + k
    BY <2>1
  <2>4. x - EhdrSize = k
    BY <1>1, <2>3 DEF EhdrSize
  <2>5. h[x] = IF x - EhdrSize \in 1..n THEN t[x - EhdrSize] ELSE g[x]
    BY DEF WithEntries
  <2>6. h[x] = IF k <= n THEN t[k] ELSE g[x]
    BY <2>2, <2>4, <2>5
  <2>7. h[x] = Table(h, k) /\ g[x] = Table(g, k)
    BY <2>3 DEF Table
  <2>8. QED
    BY <2>6, <2>7
<1>5. ASSUME NEW k \in 1 .. g[2].phnum
      PROVE  /\ Table(h, k) \in Phdrs \cup {Zero}
             /\ Table(h, k).kind = Table(g, k).kind
             /\ HasSegment(Table(g, k)) <=> HasSegment(Table(h, k))
             /\ Table(g, k) # Zero => Table(h, k).type = Table(g, k).type
             /\ HasSegment(Table(g, k)) => Memory(g, Table(h, k)) = Memory(g, Table(g, k))
             /\ Table(g, k) = Zero => Table(h, k) = Zero
  <2>1. CASE Table(g, k) = Zero
    <3>1. Reduced(Zero, size) = Zero
      BY DEF Reduced, Zero
    <3>2. Table(h, k) = Zero
      BY <1>4, <2>1, <3>1
    <3>3. QED
      BY <2>1, <3>2 DEF HasSegment, Zero
  <2>2. CASE Table(g, k) \in Phdrs
    <3>1. PICK p \in Phdrs : p = Table(g, k)
      BY <2>2
    <3>2. PICK q : q = Reduced(p, size)
      OBVIOUS
    <3>3. q \in Phdrs /\ q.type = p.type /\ q.kind = "phdr" /\ p.kind = "phdr"
      BY <3>2, ReducedIs DEF Phdrs
    <3>4. HasSegment(p) => Memory(g, q) = Memory(g, p)
      <4>1. SUFFICES ASSUME HasSegment(p) PROVE Memory(g, q) = Memory(g, p)
        OBVIOUS
      <4>2. EndOf(p) <= m /\ \A x \in size+1 .. m : g[x] = Zero
        <5>1. \A x \in size+1 .. m : x <= Len(g)
          BY <1>1
        <5>2. QED
          BY <3>1, <4>1, <5>1 DEF Measured
      <4>3. QED
        BY <1>1, <3>2, <4>2, ReducedMemory
    <3>5. Table(h, k) = q \/ Table(h, k) = p
      BY <1>4, <3>1, <3>2
    <3>6. p # Zero
      BY <3>3 DEF Zero
    <3>7. QED
      BY <3>1, <3>3, <3>4, <3>5, <3>6 DEF HasSegment
  <2>3. QED
    BY <1>1, <2>1, <2>2
<1>6. ASSUME NEW x \in 1 .. Len(g), ~ \E k \in 1 .. g[2].phnum : x = EhdrSize + k
      PROVE  h[x] = g[x]
  <2>1. x - EhdrSize \notin 1..n
    <3>1. SUFFICES ASSUME x - EhdrSize \in 1..n PROVE FALSE
      OBVIOUS
    <3>2. x - EhdrSize \in 1 .. g[2].phnum /\ x = EhdrSize + (x - EhdrSize)
      BY <1>1, <3>1 DEF EhdrSize
    <3>3. QED
      BY <1>6, <3>2
  <2>2. QED
    BY <1>3, <2>1 DEF WithEntries
<1>7. \A x \in 1 .. Len(g) : Alike(g[x], h[x]) /\ h[x] \in Cells
  <2>1. SUFFICES ASSUME NEW x \in 1 .. Len(g) PROVE Alike(g[x], h[x]) /\ h[x] \in Cells
    OBVIOUS
  <2>2. CASE \E k \in 1 .. g[2].phnum : x = EhdrSize + k
    <3>1. PICK k \in 1 .. g[2].phnum : x = EhdrSize + k
      BY <2>2
    <3>2. g[x] = Table(g, k) /\ h[x] = Table(h, k)
      BY <3>1 DEF Table
    <3>3. Table(g, k) \in Phdrs \cup {Zero} /\ Table(h, k) \in Phdrs \cup {Zero}
            /\ Table(h, k).kind = Table(g, k).kind
            /\ (Table(g, k) = Zero => Table(h, k) = Zero)
      BY <1>1, <1>5
    <3>4. Alike(Table(g, k), Table(h, k))
      BY <3>3 DEF Alike, Phdrs
    <3>5. QED
      BY <3>2, <3>3, <3>4 DEF Cells
  <2>3. CASE ~ \E k \in 1 .. g[2].phnum : x = EhdrSize + k
    <3>1. g[x] \in Cells
      BY <1>1
    <3>2. QED
      BY <1>6, <2>3, <3>1 DEF Alike
  <2>4. QED
    BY <2>2, <2>3
<1>8. h \in Seq(Cells) /\ Len(h) = Len(g)
  <2>1. h = [x \in 1 .. Len(g) |-> h[x]]
    BY <1>3 DEF WithEntries
  <2>2. h \in [1 .. Len(g) -> Cells]
    BY <1>7, <2>1
  <2>3. QED
    BY <1>1, <2>2
<1>9. /\ \A i \in Nat : Mapped(h, i) = Mapped(g, i)
      /\ \A x \in 1 .. Len(g) : h[x] = Zero <=> g[x] = Zero
  BY <1>1, <1>7, <1>8, AlikeMapped
<1>10. h[1] = g[1] /\ h[2] = g[2]
  <2>1. 1 \in 1 .. Len(g) /\ 2 \in 1 .. Len(g)
    BY <1>1, <1>2 DEF EhdrSize
  <2>2. \A k \in 1 .. g[2].phnum : 1 # EhdrSize + k /\ 2 # EhdrSize + k
    BY <1>1 DEF EhdrSize
  <2>3. QED
    BY <1>6, <2>1, <2>2
<1>11. HasTable(h)
  <2>1. ASSUME NEW k \in 1 .. h[2].phnum, EhdrSize + k <= Len(h)
        PROVE  h[EhdrSize + k] \in Phdrs \cup {Zero}
    BY <1>5, <1>10 DEF Table
  <2>2. Usual(h)
    BY <1>1, <1>2, <1>8, <1>10, <2>1 DEF Usual
  <2>3. QED
    BY <1>2, <1>8, <1>10, <2>2 DEF HasTable, IsElf, EndOfTable
<1>12. SameImage(g, h)
  <2>1. ASSUME NEW k \in 1 .. g[2].phnum, HasSegment(Table(g, k))
        PROVE  Memory(h, Table(h, k)) = Memory(g, Table(g, k))
    <3>1. HasSegment(Table(h, k)) /\ Table(h, k) \in Phdrs \cup {Zero}
            /\ Memory(g, Table(h, k)) = Memory(g, Table(g, k))
      BY <1>5, <2>1
    <3>2. Table(h, k) # Zero
      BY <3>1 DEF HasSegment, Zero
    <3>3. PICK p \in Phdrs : p = Table(h, k)
      BY <3>1, <3>2
    <3>4. Memory(h, p) = Memory(g, p)
      BY <1>9, MappedMemory
    <3>5. QED
      BY <3>1, <3>3, <3>4
  <2>2. QED
    BY <1>5, <1>10, <1>11, <2>1, ImageSame
<1>13. QED
  BY <1>4, <1>8, <1>9, <1>10, <1>11, <1>12

\* The file is cut where no segment reaches further, or within a page.
LEMMA Truncated ==
  ASSUME NEW g, HasTable(g), NEW size \in Nat, NEW m \in Nat,
         Measured(g, m, size), m <= Len(g),
         \A k \in 1 .. g[2].phnum : Reduced(Table(g, k), size) = Table(g, k),
         NEW final \in Nat,
         final = IF size < EndOfTable(g) THEN EndOfTable(g) ELSE size,
         NEW h \in Seq(Cells), Len(h) = final, \A x \in 1 .. final : h[x] = g[x]
  PROVE  /\ HasTable(h) /\ h[2] = g[2]
         /\ \A k \in 1 .. g[2].phnum : Table(h, k) = Table(g, k)
         /\ foreign \/ SamePage(h, g) => SameImage(g, h)
<1>1. /\ g \in Seq(Cells) /\ Len(g) \in Nat /\ g[2] \in Ehdrs /\ g[2].phnum \in Nat
      /\ EndOfTable(g) \in Nat /\ EndOfTable(g) >= EhdrSize
      /\ \A k \in 1 .. g[2].phnum : /\ EhdrSize + k \in 1 .. Len(g)
                                    /\ Table(g, k) \in Phdrs \cup {Zero}
  BY TableTyped
<1>2. Usual(g) /\ Len(g) >= EhdrSize /\ g[1] = Magic /\ EndOfTable(g) <= Len(g)
        /\ g[2].phoff = EhdrSize
  BY DEF HasTable, IsElf
<1>3. size \in 1..m /\ EndOfTable(g) <= m /\ \A x \in size+1 .. m : x <= Len(g) => g[x] = Zero
  BY DEF Measured
<1>4. final \in 1 .. Len(g) /\ size <= final /\ EndOfTable(g) <= final /\ final <= m
  BY <1>1, <1>3
<1>5. h[1] = g[1] /\ h[2] = g[2]
  BY <1>1, <1>4 DEF EhdrSize
<1>6. ASSUME NEW k \in 1 .. g[2].phnum PROVE Table(h, k) = Table(g, k)
  <2>1. EhdrSize + k \in 1 .. final
    BY <1>1, <1>4 DEF EndOfTable, EhdrSize
  <2>2. QED
    BY <2>1 DEF Table
<1>7. HasTable(h)
  <2>1. ASSUME NEW k \in 1 .. h[2].phnum, EhdrSize + k <= Len(h)
        PROVE  h[EhdrSize + k] \in Phdrs \cup {Zero}
    <3>1. Table(h, k) \in Phdrs \cup {Zero}
      BY <1>1, <1>5, <1>6
    <3>2. QED
      BY <3>1 DEF Table
  <2>2. Usual(h)
    <3>1. h[2] \in Ehdrs /\ h[2].phoff \in {0, EhdrSize}
      BY <1>1, <1>2, <1>5
    <3>2. QED
      BY <2>1, <3>1 DEF Usual
  <2>3. Len(h) >= EhdrSize /\ EndOfTable(h) <= Len(h)
    <3>1. EndOfTable(h) = EndOfTable(g)
      BY <1>5 DEF EndOfTable
    <3>2. QED
      BY <1>1, <1>4, <3>1 DEF EhdrSize
  <2>4. QED
    BY <1>2, <1>5, <2>2, <2>3 DEF HasTable, IsElf
<1>8. ASSUME foreign \/ SamePage(h, g) PROVE SameImage(g, h)
  <2>1. ASSUME NEW k \in 1 .. g[2].phnum, HasSegment(Table(g, k))
        PROVE  Memory(h, Table(h, k)) = Memory(g, Table(g, k))
    <3>1. PICK p \in Phdrs : p = Table(g, k)
      BY <1>1, <2>1 DEF HasSegment, Zero
    <3>2. Reduced(p, size) = p /\ EndOf(p) <= m
      BY <2>1, <3>1 DEF Measured
    <3>3. p.off \in Nat /\ p.filesz \in Nat /\ p.memsz \in Nat
      BY DEF Phdrs
    <3>4. ASSUME NEW i \in Nat, i < EndOf(p), p.filesz # 0
          PROVE  Mapped(h, i) = Mapped(g, i)
      <4>1. i < Len(g) /\ i + 1 \in 1..m
        BY <1>1, <3>2, <3>3, <3>4 DEF EndOf
      <4>2. CASE i < final
        <5>1. h[i + 1] = g[i + 1]
          BY <1>4, <4>2
        <5>2. QED
          BY <4>1, <4>2, <5>1 DEF Mapped
      <4>3. CASE ~ (i < final)
        <5>1. g[i + 1] = Zero
          <6>1. i + 1 \in size+1 .. m
            BY <1>4, <4>1, <4>3
          <6>2. QED
            BY <1>3, <1>1, <4>1, <6>1
        <5>2. Mapped(g, i) = Zero
          BY <4>1, <5>1 DEF Mapped, Zero
        <5>3. ~ foreign
          <6>1. SUFFICES ASSUME foreign PROVE FALSE
            OBVIOUS
          <6>2. ~ (p.off >= size)
            <7>1. p.off >= size => Reduced(p, size).filesz = 0
              BY ReducedIs
            <7>2. QED
              BY <3>2, <3>4, <7>1
          <6>3. EndOf(p) > size
            BY <1>4, <3>3, <3>4, <4>3 DEF EndOf
          <6>4. p.filesz = size - p.off
            <7>1. p.off < size
              BY <3>3, <6>2
            <7>2. Reduced(p, size).filesz = size - p.off
              BY <6>1, <6>3, <7>1, ReducedIs
            <7>3. QED
              BY <3>2, <7>2
          <6>5. QED
            BY <3>3, <6>3, <6>4 DEF EndOf
        <5>4. i \div Page = (Len(h) - 1) \div Page
          <6>1. (Len(h) - 1) \div Page = (Len(g) - 1) \div Page
            BY <1>8, <5>3 DEF SamePage
          <6>2. /\ Len(h) - 1 \in Nat /\ Len(g) - 1 \in Nat
                /\ Len(h) - 1 <= i /\ i <= Len(g) - 1
            BY <1>1, <1>4, <4>1, <4>3
          <6>3. QED
            BY <6>1, <6>2, PageConvex
        <5>5. Mapped(h, i) = Zero
          BY <4>3, <5>4 DEF Mapped
        <5>6. QED
          BY <5>2, <5>5
      <4>4. QED
        BY <4>2, <4>3
    <3>5. CASE p.filesz # 0
      <4>1. Memory(h, p) = Memory(g, p)
        BY <3>4, <3>5, MappedMemory
      <4>2. QED
        BY <1>6, <3>1, <4>1
    <3>6. CASE p.filesz = 0
      <4>1. \A i \in 1 .. p.memsz : ~ (i <= p.filesz)
        BY <3>3, <3>6
      <4>2. Memory(h, p) = Memory(g, p)
        BY <4>1 DEF Memory
      <4>3. QED
        BY <1>6, <3>1, <4>2
    <3>7. QED
      BY <3>5, <3>6
  <2>2. h[2].phnum = g[2].phnum
    BY <1>5
  <2>3. QED
    BY <1>6, <1>7, <2>1, <2>2, ImageSame
<1>9. QED
  BY <1>4, <1>5, <1>6, <1>7, <1>8

-----------------------------------------------------------------------------
(* The steps.                                                              *)

\* A file is settled after a step if what it then holds is.
LEMMA SettledThen ==
  ASSUME NEW n, NEW h, h = files'[n], foreign' = foreign, Settled(h)
  PROVE  Settled(files[n])'
BY DEF Settled, SettledAt, Reduced, swap_bytes

\* Files that were stripped and not written to stay settled.
LEMMA StrippedKept ==
  ASSUME AllSettled, foreign' = foreign, stripped' \subseteq stripped,
         \A n \in stripped' : files'[n] = files[n]
  PROVE  AllSettled'
<1>1. ASSUME NEW n \in stripped' PROVE n \in Names /\ Settled(files[n])'
  <2>1. n \in Names /\ Settled(files[n])
    BY DEF AllSettled
  <2>2. PICK h : h = files[n]
    OBVIOUS
  <2>3. h = files'[n] /\ Settled(h)
    BY <2>1, <2>2
  <2>4. QED
    BY <2>1, <2>3, SettledThen
<1>2. QED
  BY <1>1 DEF AllSettled

\* One file becomes h, which shows what it showed, in the page it ended in.
LEMMA ImageStep ==
  ASSUME ImageSafe, NEW name \in Names, NEW h \in Seq(Cells),
         files' = [files EXCEPT ![name] = h], UNCHANGED << given, foreign >>,
         Usual(h), Len(h) <= Len(files[name]), Len(h) >= 1,
         foreign \/ SamePage(h, files[name]) => SameImage(files[name], h)
  PROVE  ImageSafe'
<1>1. files \in [Names -> Seq(Cells)] /\ foreign \in BOOLEAN
  BY DEF ImageSafe
<1>2. files' \in [Names -> Seq(Cells)] /\ foreign' \in BOOLEAN
  BY <1>1
<1>3. ASSUME NEW n \in Names
      PROVE  /\ Usual(files'[n])
             /\ given'[n] \in Seq(Cells) /\ Len(files'[n]) <= Len(given'[n])
             /\ IsExecutable(given'[n]) /\ (foreign' \/ SamePage(files'[n], given'[n])) =>
                  SameImage(given'[n], files'[n])
  <2>1. CASE n # name
    <3>1. files'[n] = files[n] /\ given' = given /\ foreign' = foreign
      BY <1>1, <2>1
    <3>2. QED
      BY <3>1 DEF ImageSafe
  <2>2. CASE n = name
    <3>1. PICK g, f : g = files[name] /\ f = given[name]
      OBVIOUS
    <3>2. files'[n] = h /\ given'[n] = f /\ foreign' = foreign
      BY <1>1, <2>2, <3>1
    <3>3. /\ Len(g) <= Len(f) /\ f \in Seq(Cells)
          /\ IsExecutable(f) /\ (foreign \/ SamePage(g, f)) => SameImage(f, g)
      BY <3>1 DEF ImageSafe
    <3>4. g \in Seq(Cells) /\ Len(g) \in Nat /\ Len(h) \in Nat
      BY <1>1, <3>1
    <3>5. ASSUME IsExecutable(f), foreign \/ SamePage(h, f) PROVE SameImage(f, h)
      <4>1. foreign \/ (SamePage(g, f) /\ SamePage(h, g))
        <5>1. SUFFICES ASSUME ~ foreign PROVE SamePage(g, f) /\ SamePage(h, g)
          OBVIOUS
        <5>2. (Len(h) - 1) \div Page = (Len(f) - 1) \div Page
          BY <3>5, <5>1 DEF SamePage
        <5>3. /\ Len(h) - 1 \in Nat /\ Len(g) - 1 \in Nat /\ Len(h) - 1 <= Len(g) - 1
          BY <3>1, <3>4
        <5>4. Len(f) - 1 \in Nat /\ Len(g) - 1 <= Len(f) - 1
          BY <3>3, <3>4, <5>3
        <5>5. (Len(g) - 1) \div Page = (Len(h) - 1) \div Page
          BY <5>2, <5>3, <5>4, PageConvex
        <5>6. QED
          BY <5>2, <5>5 DEF SamePage
      <4>2. SameImage(f, g) /\ SameImage(g, h)
        BY <3>1, <3>3, <3>5, <4>1
      <4>3. QED
        BY <4>2, SameImageTransitive
    <3>6. QED
      BY <3>1, <3>2, <3>3, <3>5
  <2>3. QED
    BY <2>1, <2>2
<1>4. QED
  BY <1>2, <1>3 DEF ImageSafe

\* Nothing happens to the files, and no file is read.
LEMMA CleanStep ==
  ASSUME FilesInv, UNCHANGED << files, given, foreign >>, stripped' \subseteq stripped,
         pc' \in {"open", "exit", "readelfheader"}
  PROVE  FilesInv'
<1>1. HeadersRead' /\ SizeRight' /\ NoneBehind'
  BY DEF HeadersRead, SizeRight, NoneBehind, Turn, Tabled, Sized
<1>2. AllSettled'
  BY StrippedKept DEF FilesInv
<1>3. ImageSafe'
  BY DEF FilesInv, ImageSafe
<1>4. QED
  BY <1>1, <1>2, <1>3 DEF FilesInv

\* A call that fails before anything is written.
LEMMA FailStep ==
  ASSUME FilesInv, FailCleanly
  PROVE  FilesInv'
<1>1. /\ files' = files /\ given' = given /\ foreign' = foreign
      /\ stripped' = stripped \ {filename} /\ pc' = "open"
  BY DEF FailCleanly, Fail, NextFile
<1>2. QED
  BY <1>1, CleanStep

\* Within a turn, as long as nothing is written.
LEMMA WithinTurn ==
  ASSUME FilesInv, NEW next, GoTo(next), files' = files
  PROVE  /\ file' = file /\ filename' = filename /\ pc' = next
         /\ foreign' = foreign /\ stripped' = stripped
         /\ AllSettled' /\ ImageSafe'
<1>1. /\ file' = file /\ filename' = filename /\ pc' = next /\ given' = given
      /\ foreign' = foreign /\ stripped' = stripped
  BY DEF GoTo, file, filename
<1>2. AllSettled'
  BY <1>1, StrippedKept DEF FilesInv
<1>3. ImageSafe'
  BY <1>1 DEF FilesInv, ImageSafe
<1>4. QED
  BY <1>1, <1>2, <1>3

\* Within a turn there is a current file.
LEMMA CurrentFile ==
  ASSUME IInv, FilesInv, pc \notin {"open", "exit"}
  PROVE  filename \in Names /\ file \in Seq(Cells) /\ Usual(file)
<1>1. filename \in Names
  BY DEF IInv, Running, filename
<1>2. QED
  BY <1>1 DEF FilesInv, ImageSafe, file

\* readelfheader: the header in memory is that of the file.
LEMMA HeaderStep ==
  ASSUME IInv, FilesInv, readelfheader
  PROVE  FilesInv'
<1>1. CASE FailCleanly
  BY <1>1, FailStep
<1>2. CASE Exit(0)
  BY <1>2, CleanStep DEF Exit
<1>3. CASE /\ Len(file) >= EhdrSize /\ file[1] = Magic /\ ehdr' = file[2]
           /\ GoTo("readphdrtable") /\ files' = files
  <2>1. file' = file /\ pc' = "readphdrtable" /\ AllSettled' /\ ImageSafe'
    BY <1>3, WithinTurn
  <2>2. IsElf(file)
    BY <1>3, CurrentFile DEF readelfheader, IsElf
  <2>3. IsElf(file')
    BY <2>1, <2>2
  <2>4. HeadersRead'
    BY <1>3, <2>1, <2>3 DEF HeadersRead, Tabled, Sized
  <2>5. SizeRight' /\ NoneBehind'
    BY <2>1 DEF SizeRight, NoneBehind, Sized
  <2>6. QED
    BY <2>1, <2>4, <2>5 DEF FilesInv
<1>4. QED
  BY <1>1, <1>2, <1>3 DEF readelfheader

\* readphdrtable: the entries in memory are those of the file.
LEMMA TableStep ==
  ASSUME IInv, FilesInv, readphdrtable
  PROVE  FilesInv'
<1>1. CASE FailCleanly
  BY <1>1, FailStep
<1>2. CASE /\ ehdr.phoff # 0 /\ EhdrSize + ehdr.phnum <= Len(file)
           /\ phdrs' = SubSeq(file, EhdrSize + 1, EhdrSize + ehdr.phnum)
           /\ GoTo("getmemorysize") /\ files' = files /\ ehdr' = ehdr
  <2>1. file' = file /\ pc' = "getmemorysize" /\ AllSettled' /\ ImageSafe'
    BY <1>2, WithinTurn
  <2>2. PICK g : g = file
    OBVIOUS
  <2>3. IsElf(g) /\ ehdr = g[2]
    BY <2>2 DEF FilesInv, HeadersRead, readphdrtable, Turn
  <2>4. g \in Seq(Cells) /\ g[2] \in Ehdrs /\ g[2].phoff = EhdrSize
    BY <1>2, <2>3 DEF IsElf, Usual
  <2>5. g[2].phnum \in Nat
    BY <2>4 DEF Ehdrs
  <2>6. HasTable(g)
    BY <1>2, <2>2, <2>3, <2>4 DEF HasTable, EndOfTable
  <2>7. DOMAIN phdrs' = 1 .. g[2].phnum /\ \A k \in 1 .. g[2].phnum : phdrs'[k] = Table(g, k)
    <3>1. PICK b \in Int : b = 2 + g[2].phnum
      BY <2>5
    <3>2. phdrs' = SubSeq(g, 3, b) /\ b <= Len(g)
      BY <1>2, <2>2, <2>3, <3>1 DEF EhdrSize
    <3>3. \A x \in 3..b : g[x] \in Cells
      <4>1. \A x \in 3..b : x \in 1 .. Len(g)
        BY <2>4, <3>1, <3>2
      <4>2. QED
        BY <2>4, <4>1
    <3>4. PICK t : t = SubSeq(g, 3, b)
      OBVIOUS
    <3>5. /\ t \in Seq(Cells)
          /\ Len(t) = IF 3 <= b THEN b - 3 + 1 ELSE 0
          /\ \A k \in 1 .. b - 3 + 1 : t[k] = g[3 + k - 1]
      BY <3>3, <3>4, SubSeqProperties
    <3>6. Len(t) = g[2].phnum /\ b - 3 + 1 = g[2].phnum
      BY <2>5, <3>1, <3>5
    <3>7. ASSUME NEW k \in 1 .. g[2].phnum PROVE t[k] = Table(g, k)
      <4>1. t[k] = g[3 + k - 1] /\ 3 + k - 1 = 2 + k
        BY <2>5, <3>5, <3>6
      <4>2. QED
        BY <4>1 DEF Table, EhdrSize
    <3>8. DOMAIN t = 1 .. g[2].phnum /\ phdrs' = t
      BY <3>2, <3>4, <3>5, <3>6
    <3>9. QED
      BY <3>7, <3>8
  <2>8. HeadersRead'
    <3>1. file' = g /\ ehdr' = g[2]
      BY <1>2, <2>1, <2>2, <2>3
    <3>2. QED
      BY <2>1, <2>3, <2>6, <2>7, <3>1 DEF HeadersRead
  <2>9. SizeRight' /\ NoneBehind'
    BY <2>1 DEF SizeRight, NoneBehind, Sized
  <2>10. QED
    BY <2>1, <2>8, <2>9 DEF FilesInv
<1>3. QED
  BY <1>1, <1>2 DEF readphdrtable

\* getmemorysize: newsize is where the last segment or the table ends.
LEMMA SizeStep ==
  ASSUME IInv, FilesInv, getmemorysize
  PROVE  FilesInv'
<1>1. /\ GoTo("truncatezeros") /\ files' = files /\ ehdr' = ehdr /\ phdrs' = phdrs
      /\ newsize' = Largest({EhdrSize, TableEnd} \cup SegmentEnds)
      /\ pc = "getmemorysize"
  BY DEF getmemorysize
<1>2. /\ file' = file /\ filename' = filename /\ pc' = "truncatezeros"
      /\ stripped' = stripped /\ AllSettled' /\ ImageSafe'
  BY <1>1, WithinTurn
<1>3. PICK g : g = file
  OBVIOUS
<1>4. /\ IsElf(g) /\ HasTable(g) /\ ehdr = g[2] /\ DOMAIN phdrs = 1 .. g[2].phnum
      /\ \A k \in 1 .. g[2].phnum : phdrs[k] = Table(g, k)
  BY <1>1, <1>3 DEF FilesInv, HeadersRead, Turn, Tabled
<1>5. PICK m \in Nat : newsize' = m /\ Measured(g, m, m)
  BY <1>1, <1>4, MemorySizeIs
<1>6. HeadersRead'
  <2>1. file' = g /\ ehdr' = g[2] /\ phdrs' = phdrs
    BY <1>1, <1>2, <1>3, <1>4
  <2>2. QED
    BY <1>2, <1>4, <2>1 DEF HeadersRead
<1>7. SizeRight'
  BY <1>2, <1>3, <1>5 DEF SizeRight
<1>8. NoneBehind'
  <2>1. SUFFICES ASSUME filename \in stripped, NEW x \in m+1 .. Len(g)
                 PROVE  g[x] = Zero
    BY <1>2, <1>3, <1>5 DEF NoneBehind
  <2>2. PICK size \in Nat : SettledAt(g, size)
    BY <1>3, <2>1 DEF FilesInv, AllSettled, Settled, file
  <2>3. size <= m
    <3>1. CASE size <= EndOfTable(g)
      <4>1. EndOfTable(g) <= m /\ EndOfTable(g) \in Nat
        BY <1>4, <1>5, TableTyped DEF Measured
      <4>2. QED
        BY <3>1, <4>1
    <3>2. CASE \E k \in 1 .. g[2].phnum :
                 HasSegment(Table(g, k)) /\ EndOf(Table(g, k)) >= size
      <4>1. PICK k \in 1 .. g[2].phnum :
                 HasSegment(Table(g, k)) /\ EndOf(Table(g, k)) >= size
        BY <3>2
      <4>2. EndOf(Table(g, k)) <= m
        BY <1>5, <4>1 DEF Measured
      <4>3. EndOf(Table(g, k)) \in Nat
        <5>1. Table(g, k) \in Phdrs \cup {Zero}
          BY <1>4, TableTyped
        <5>2. QED
          BY <4>1, <5>1 DEF EndOf, HasSegment, Phdrs, Zero
      <4>4. QED
        BY <4>1, <4>2, <4>3
    <3>3. QED
      BY <2>2, <3>1, <3>2 DEF SettledAt, Reaches
  <2>4. x \in size+1 .. Len(g)
    <3>1. Len(g) \in Nat
      BY <1>4, TableTyped
    <3>2. QED
      BY <2>1, <2>3, <3>1
  <2>5. QED
    BY <2>2, <2>4 DEF SettledAt
<1>9. QED
  BY <1>2, <1>6, <1>7, <1>8 DEF FilesInv

\* truncatezeros takes a block, of which it may keep all, from the end.
LEMMA BlockIs ==
  ASSUME newsize \in Nat, newsize > 0
  PROVE  LET n == Largest({ k \in 1..Contents : k <= newsize })
         IN n \in Nat /\ n > 0 /\ n <= newsize
<1> DEFINE S == { k \in 1..Contents : k <= newsize }
<1>1. Contents \in Nat /\ Contents > 0
  BY SstripAssumption
<1>2. 1 \in S /\ S \in SUBSET Nat /\ \A x \in S : x <= newsize
  BY <1>1
<1>3. Largest(S) \in S
  BY <1>2, LargestIs
<1>4. QED
  BY <1>1, <1>3

\* truncatezeros: behind newsize there were zeros only, and still are.
LEMMA ZerosStep ==
  ASSUME IInv, FilesInv, truncatezeros
  PROVE  FilesInv'
<1> DEFINE n == Largest({ k \in 1..Contents : k <= newsize })
           z == TrailingZeros(n)
<1>1. CASE FailCleanly
  BY <1>1, FailStep
<1>2. CASE ~ FailCleanly
  <2>1. PICK b, c : b = n /\ c = z
    OBVIOUS
  <2>2. /\ newsize <= Len(file) /\ newsize > c /\ newsize' = newsize - c
        /\ GoTo(IF c >= b - 1 THEN "truncatezeros" ELSE "modifyheaders")
        /\ files' = files /\ ehdr' = ehdr /\ phdrs' = phdrs /\ pc = "truncatezeros"
    BY <1>2, <2>1 DEF truncatezeros, LoopsOn
  <2>3. /\ file' = file /\ filename' = filename
        /\ pc' = IF c >= b - 1 THEN "truncatezeros" ELSE "modifyheaders"
        /\ stripped' = stripped /\ AllSettled' /\ ImageSafe'
    BY <2>2, WithinTurn
  <2>4. PICK g : g = file
    OBVIOUS
  <2>5. /\ IsElf(g) /\ HasTable(g) /\ ehdr = g[2] /\ DOMAIN phdrs = 1 .. g[2].phnum
        /\ \A k \in 1 .. g[2].phnum : phdrs[k] = Table(g, k)
    BY <2>2, <2>4 DEF FilesInv, HeadersRead, Turn, Tabled, Sized
  <2>6. PICK m \in Nat : Measured(g, m, newsize) /\ (newsize = m \/ m <= Len(g))
    BY <2>2, <2>4 DEF FilesInv, SizeRight, Sized
  <2>7. m <= Len(g) /\ newsize \in Nat /\ newsize > 0 /\ newsize \in 1..m
    BY <2>2, <2>4, <2>6 DEF Measured
  <2>8. b \in Nat /\ b > 0 /\ b <= newsize
    BY <2>1, <2>7, BlockIs
  <2>9. /\ c \in 0..b
        /\ \A j \in 1..c : g[newsize - j + 1] = Zero
        /\ c < b => g[newsize - c] # Zero
    BY <2>1, <2>4, <2>7, <2>8, ZerosCounted
  <2>10. PICK s \in Nat : s = newsize'
    BY <2>2, <2>7, <2>9
  <2>11. s \in 1..m /\ s <= newsize /\ s = newsize - c
    BY <2>2, <2>7, <2>8, <2>9, <2>10
  <2>12. ASSUME NEW x \in s+1 .. newsize PROVE g[x] = Zero
    <3>1. PICK j \in 1..c : x = newsize - j + 1
      <4>1. newsize - x + 1 \in 1..c /\ x = newsize - (newsize - x + 1) + 1
        BY <2>7, <2>8, <2>9, <2>11
      <4>2. QED
        BY <4>1
    <3>2. QED
      BY <2>9, <3>1
  <2>13. Measured(g, m, s)
    <3>1. Reaches(g, s)
      <4>1. CASE newsize <= EndOfTable(g)
        <5>1. EndOfTable(g) \in Nat
          BY <2>5, TableTyped
        <5>2. QED
          BY <2>7, <2>11, <4>1, <5>1 DEF Reaches
      <4>2. CASE \E k \in 1 .. g[2].phnum :
                   HasSegment(Table(g, k)) /\ EndOf(Table(g, k)) >= newsize
        <5>1. PICK k \in 1 .. g[2].phnum :
                   HasSegment(Table(g, k)) /\ EndOf(Table(g, k)) >= newsize
          BY <4>2
        <5>2. EndOf(Table(g, k)) \in Nat
          <6>1. Table(g, k) \in Phdrs \cup {Zero}
            BY <2>5, TableTyped
          <6>2. QED
            BY <5>1, <6>1 DEF EndOf, HasSegment, Phdrs, Zero
        <5>3. EndOf(Table(g, k)) >= s
          BY <2>7, <2>11, <5>1, <5>2
        <5>4. QED
          BY <5>1, <5>3 DEF Reaches
      <4>3. QED
        BY <2>6, <4>1, <4>2 DEF Measured, Reaches
    <3>2. ASSUME NEW x \in s+1 .. m, x <= Len(g) PROVE g[x] = Zero
      <4>1. CASE x <= newsize
        <5>1. x \in s+1 .. newsize
          BY <2>7, <2>11, <4>1
        <5>2. QED
          BY <2>12, <5>1
      <4>2. CASE ~ (x <= newsize)
        <5>1. x \in newsize+1 .. m
          BY <2>7, <2>11, <4>2
        <5>2. QED
          BY <2>6, <3>2, <5>1 DEF Measured
      <4>3. QED
        BY <4>1, <4>2
    <3>3. QED
      BY <2>6, <2>11, <3>1, <3>2 DEF Measured
  <2>14. HeadersRead'
    <3>1. file' = g /\ ehdr' = g[2] /\ phdrs' = phdrs
      BY <2>2, <2>3, <2>4, <2>5
    <3>2. pc' \in {"truncatezeros", "modifyheaders"}
      BY <2>3
    <3>3. QED
      BY <2>5, <3>1, <3>2 DEF HeadersRead
  <2>15. SizeRight'
    <3>1. pc' = "modifyheaders" => g[s] # Zero
      BY <2>3, <2>8, <2>9, <2>11
    <3>2. pc' \in {"truncatezeros", "modifyheaders"} /\ file' = g
      BY <2>3, <2>4
    <3>3. QED
      BY <2>7, <2>10, <2>13, <3>1, <3>2 DEF SizeRight
  <2>16. NoneBehind'
    <3>1. SUFFICES ASSUME filename \in stripped, NEW x \in s+1 .. Len(g)
                   PROVE  g[x] = Zero
      BY <2>3, <2>4, <2>10 DEF NoneBehind
    <3>2. CASE x <= newsize
      <4>1. x \in s+1 .. newsize
        BY <2>7, <2>11, <3>2
      <4>2. QED
        BY <2>12, <4>1
    <3>3. CASE ~ (x <= newsize)
      <4>1. x \in newsize+1 .. Len(g)
        BY <2>7, <2>11, <3>3
      <4>2. QED
        BY <2>2, <2>4, <3>1, <4>1 DEF FilesInv, NoneBehind, Sized
    <3>4. QED
      BY <3>2, <3>3
  <2>17. QED
    BY <2>3, <2>14, <2>15, <2>16 DEF FilesInv
<1>3. QED
  BY <1>1, <1>2

\* From here on newsize is what is left of the file.
LEMMA SizeIsLast ==
  ASSUME FilesInv, pc \in {"modifyheaders", "write_ehdr", "write_phdrs", "ftruncate"},
         NEW g, g = file
  PROVE  /\ HasTable(g) /\ newsize \in Nat /\ newsize > 0
         /\ g[newsize] # Zero /\ newsize \in 1 .. Len(g)
         /\ \E m \in Nat : Measured(g, m, newsize) /\ m <= Len(g)
<1>1. HasTable(g)
  BY DEF FilesInv, HeadersRead, Tabled, Sized
<1>2. PICK m \in Nat : Measured(g, m, newsize) /\ m <= Len(g) /\ g[newsize] # Zero
  BY DEF FilesInv, SizeRight, Sized
<1>3. newsize \in 1..m
  BY <1>2 DEF Measured
<1>4. Len(g) \in Nat
  BY <1>1, TableTyped
<1>5. QED
  BY <1>1, <1>2, <1>3, <1>4

\* modifyheaders: what is to be written is what the files will need.
LEMMA ModifyStep ==
  ASSUME IInv, FilesInv, modifyheaders
  PROVE  FilesInv'
<1>1. /\ ehdr' = IF ehdr.shoff >= newsize THEN [ehdr EXCEPT !.shoff = 0] ELSE ehdr
      /\ phdrs' = [k \in DOMAIN phdrs |-> Reduced(phdrs[k], newsize)]
      /\ GoTo("write_ehdr") /\ files' = files /\ newsize' = newsize
      /\ pc = "modifyheaders"
  BY DEF modifyheaders
<1>2. /\ file' = file /\ filename' = filename /\ pc' = "write_ehdr"
      /\ foreign' = foreign /\ stripped' = stripped /\ AllSettled' /\ ImageSafe'
  BY <1>1, WithinTurn
<1>3. PICK g : g = file
  OBVIOUS
<1>4. /\ IsElf(g) /\ HasTable(g) /\ ehdr = g[2] /\ DOMAIN phdrs = 1 .. g[2].phnum
      /\ \A k \in 1 .. g[2].phnum : phdrs[k] = Table(g, k)
  BY <1>1, <1>3 DEF FilesInv, HeadersRead, Turn, Tabled, Sized
<1>5. /\ DOMAIN phdrs' = 1 .. g[2].phnum
      /\ \A k \in 1 .. g[2].phnum : phdrs'[k] = Reduced(Table(g, k), newsize)
  BY <1>1, <1>4
<1>6. HeadersRead'
  <2>1. /\ file' = g /\ newsize' = newsize
        /\ ehdr' = IF g[2].shoff >= newsize' THEN [g[2] EXCEPT !.shoff = 0] ELSE g[2]
    BY <1>1, <1>2, <1>3, <1>4
  <2>2. \A k \in 1 .. g[2].phnum : phdrs'[k] = Reduced(Table(g, k), newsize)'
    <3>1. ASSUME NEW p PROVE Reduced(p, newsize)' = Reduced(p, newsize)
      BY <1>1, <1>2 DEF Reduced, swap_bytes
    <3>2. QED
      BY <1>5, <3>1 DEF Table
  <2>3. QED
    BY <1>2, <1>4, <1>5, <2>1, <2>2 DEF HeadersRead
<1>7. SizeRight'
  BY <1>1, <1>2 DEF FilesInv, SizeRight, Sized
<1>8. NoneBehind'
  BY <1>1, <1>2 DEF FilesInv, NoneBehind, Sized
<1>9. QED
  BY <1>2, <1>6, <1>7, <1>8 DEF FilesInv

\* A file that was done with is measured the second time as the first time.
LEMMA MeasuredAgain ==
  ASSUME FilesInv, pc \in {"modifyheaders", "write_ehdr", "write_phdrs", "ftruncate"},
         filename \in stripped, NEW g, g = file
  PROVE  SettledAt(g, newsize)
<1>1. PICK size \in Nat : SettledAt(g, size)
  BY DEF FilesInv, AllSettled, Settled, file
<1>2. /\ size \in 1 .. Len(g) /\ g[size] # Zero
      /\ \A x \in size+1 .. Len(g) : g[x] = Zero
  BY <1>1 DEF SettledAt
<1>3. newsize \in 1 .. Len(g) /\ g[newsize] # Zero
  BY SizeIsLast
<1>4. \A x \in newsize+1 .. Len(g) : g[x] = Zero
  BY DEF FilesInv, NoneBehind, Sized
<1>5. Len(g) \in Nat
  BY SizeIsLast, TableTyped
<1>6. ~ (size < newsize) /\ ~ (newsize < size)
  <2>1. size < newsize => newsize \in size+1 .. Len(g)
    BY <1>2, <1>3, <1>5
  <2>2. newsize < size => size \in newsize+1 .. Len(g)
    BY <1>2, <1>3, <1>5
  <2>3. QED
    BY <1>2, <1>3, <1>4, <2>1, <2>2
<1>7. size = newsize
  BY <1>2, <1>3, <1>5, <1>6
<1>8. QED
  BY <1>1, <1>7

\* One file is written; those that were done with are as they were.
LEMMA WriteKeeps ==
  ASSUME FilesInv, filename \in Names, NEW h \in Seq(Cells),
         files' = [files EXCEPT ![filename] = h], UNCHANGED << given, foreign >>,
         HasTable(h), Len(h) <= Len(file),
         foreign \/ SamePage(h, file) => SameImage(file, h)
  PROVE  /\ ImageSafe' /\ files'[filename] = h
         /\ \A n \in Names : n # filename => files'[n] = files[n]
<1>1. files \in [Names -> Seq(Cells)]
  BY DEF FilesInv, ImageSafe
<1>2. files'[filename] = h /\ \A n \in Names : n # filename => files'[n] = files[n]
  BY <1>1
<1>3. Usual(h) /\ Len(h) >= 1
  <2>1. Len(h) \in Nat
    BY TableTyped
  <2>2. QED
    BY <2>1 DEF HasTable, IsElf, EhdrSize
<1>4. ImageSafe'
  BY <1>3, ImageStep DEF FilesInv, file
<1>5. QED
  BY <1>2, <1>4

\* The header written is the one read, but for a reference that led nowhere.
LEMMA HeaderInMemory ==
  ASSUME FilesInv, pc = "write_ehdr", NEW g, g = file
  PROVE  /\ HasTable(g) /\ ehdr \in Ehdrs
         /\ ehdr.phoff = g[2].phoff /\ ehdr.phnum = g[2].phnum
         /\ ehdr.shoff < newsize
         /\ g[2].shoff < newsize => ehdr = g[2]
<1>1. HasTable(g) /\ newsize \in Nat /\ newsize > 0
  BY SizeIsLast
<1>2. g[2] \in Ehdrs /\ g[2].shoff \in Nat
  BY <1>1, TableTyped
<1>3. ehdr = IF g[2].shoff >= newsize THEN [g[2] EXCEPT !.shoff = 0] ELSE g[2]
  BY DEF FilesInv, HeadersRead
<1>4. CASE g[2].shoff >= newsize
  <2>1. ehdr = [g[2] EXCEPT !.shoff = 0]
    BY <1>3, <1>4
  <2>2. PICK e \in Ehdrs : e = g[2]
    BY <1>2
  <2>3. [e EXCEPT !.shoff = 0] \in Ehdrs
    BY DEF Ehdrs
  <2>4. /\ [e EXCEPT !.shoff = 0].shoff = 0
        /\ [e EXCEPT !.shoff = 0].phoff = e.phoff
        /\ [e EXCEPT !.shoff = 0].phnum = e.phnum
    BY DEF Ehdrs
  <2>5. ~ (g[2].shoff < newsize)
    BY <1>1, <1>2, <1>4
  <2>6. QED
    BY <1>1, <2>1, <2>2, <2>3, <2>4, <2>5
<1>5. CASE ~ (g[2].shoff >= newsize)
  BY <1>1, <1>2, <1>3, <1>5
<1>6. QED
  BY <1>4, <1>5

\* The header is written, a stripped file gets the one it has.
LEMMA HeaderWriteStep ==
  ASSUME IInv, FilesInv, write_ehdr
  PROVE  /\ FilesInv'
         /\ \A n \in stripped : files'[n] = files[n]
<1>1. CASE FailCleanly
  <2>1. FilesInv'
    BY <1>1, FailStep
  <2>2. QED
    BY <1>1, <2>1 DEF FailCleanly
<1>2. CASE ~ FailCleanly
  <2>1. /\ files' = [files EXCEPT ![filename][2] = ehdr] /\ GoTo("write_phdrs")
        /\ ehdr' = ehdr /\ phdrs' = phdrs /\ newsize' = newsize /\ pc = "write_ehdr"
    BY <1>2 DEF write_ehdr
  <2>2. /\ filename' = filename /\ pc' = "write_phdrs" /\ stripped' = stripped
        /\ given' = given /\ foreign' = foreign
    BY <2>1 DEF GoTo, filename
  <2>3. PICK g : g = file
    OBVIOUS
  <2>4. PICK e : e = ehdr
    OBVIOUS
  <2>5. PICK h : h = [g EXCEPT ![2] = e]
    OBVIOUS
  <2>6. /\ HasTable(g) /\ e \in Ehdrs /\ e.phoff = g[2].phoff /\ e.phnum = g[2].phnum
        /\ e.shoff < newsize /\ (g[2].shoff < newsize => e = g[2])
    BY <2>1, <2>3, <2>4, HeaderInMemory
  <2>7. /\ HasTable(h) /\ Len(h) = Len(g) /\ h[2] = e
        /\ \A k \in 1 .. g[2].phnum : Table(h, k) = Table(g, k)
        /\ \A x \in 1 .. Len(g) : h[x] = Zero <=> g[x] = Zero
        /\ SameImage(g, h)
    <3>1. g \in Seq(Cells) /\ 2 \in 1 .. Len(g)
      BY <2>6, TableTyped DEF HasTable, IsElf, EhdrSize
    <3>2. e \in Cells
      BY <2>6 DEF Cells
    <3>3. /\ h \in Seq(Cells) /\ Len(h) = Len(g)
          /\ \A x \in 1 .. Len(g) : h[x] = IF x = 2 THEN e ELSE g[x]
      BY <2>5, <3>1, <3>2, ExceptSeq
    <3>4. QED
      BY <2>6, <3>1, <3>3, HeaderWritten
  <2>8. filename \in Names
    BY <2>1, CurrentFile
  <2>9. files' = [files EXCEPT ![filename] = h]
    BY <2>1, <2>3, <2>4, <2>5 DEF file
  <2>10. h \in Seq(Cells) /\ Len(g) \in Nat
    BY <2>6, <2>7, TableTyped
  <2>11. /\ ImageSafe' /\ files'[filename] = h
         /\ \A n \in Names : n # filename => files'[n] = files[n]
    <3>1. Len(h) <= Len(file) /\ SameImage(file, h)
      BY <2>3, <2>7, <2>10
    <3>2. QED
      BY <2>2, <2>7, <2>8, <2>9, <2>10, <3>1, WriteKeeps
  <2>12. file' = h
    BY <2>2, <2>11 DEF file
  <2>13. \A n \in stripped : files'[n] = files[n]
    <3>1. SUFFICES ASSUME NEW n \in stripped PROVE files'[n] = files[n]
      OBVIOUS
    <3>2. n \in Names
      BY DEF FilesInv, AllSettled
    <3>3. CASE n = filename
      <4>1. SettledAt(g, newsize)
        BY <2>1, <2>3, <3>3, MeasuredAgain
      <4>2. e = g[2]
        BY <2>6, <4>1 DEF SettledAt
      <4>3. h = g
        <5>1. g \in Seq(Cells)
          BY <2>6, TableTyped
        <5>2. QED
          BY <2>5, <4>2, <5>1
      <4>4. QED
        BY <2>3, <2>11, <3>3, <4>3 DEF file
    <3>4. QED
      BY <2>11, <3>2, <3>3
  <2>14. AllSettled'
    BY <2>2, <2>13, StrippedKept DEF FilesInv
  <2>15. PICK m \in Nat : Measured(g, m, newsize) /\ m <= Len(g)
    BY <2>1, <2>3, SizeIsLast
  <2>16. g[newsize] # Zero /\ newsize \in 1 .. Len(g)
    BY <2>1, <2>3, SizeIsLast
  <2>17. SizeRight'
    <3>1. h[2].phnum = g[2].phnum
      BY <2>6, <2>7
    <3>2. EndOfTable(h) = EndOfTable(g)
      BY <3>1 DEF EndOfTable
    <3>3. Reaches(h, newsize) <=> Reaches(g, newsize)
      BY <2>7, <3>1, <3>2 DEF Reaches
    <3>4. ASSUME NEW x \in newsize+1 .. m, x <= Len(h) PROVE h[x] = Zero
      <4>1. x \in 1 .. Len(g)
        BY <2>7, <2>10, <2>16, <3>4
      <4>2. QED
        BY <2>7, <2>15, <3>4, <4>1 DEF Measured
    <3>5. Measured(h, m, newsize)
      BY <2>7, <2>15, <3>1, <3>2, <3>3, <3>4 DEF Measured
    <3>6. m <= Len(h) /\ h[newsize] # Zero
      BY <2>7, <2>15, <2>16
    <3>7. QED
      BY <2>1, <2>2, <2>12, <3>5, <3>6 DEF SizeRight
  <2>18. NoneBehind'
    <3>1. SUFFICES ASSUME filename \in stripped, NEW x \in newsize+1 .. Len(h)
                   PROVE  h[x] = Zero
      BY <2>1, <2>2, <2>12 DEF NoneBehind
    <3>2. g[x] = Zero /\ x \in 1 .. Len(g)
      BY <2>1, <2>3, <2>7, <2>10, <2>16, <3>1 DEF FilesInv, NoneBehind, Sized
    <3>3. QED
      BY <2>7, <3>2
  <2>19. HeadersRead'
    <3>1. /\ file' = h /\ ehdr' = h[2] /\ ehdr'.shoff < newsize'
      BY <2>1, <2>4, <2>6, <2>7, <2>12
    <3>2. DOMAIN phdrs' = 1 .. h[2].phnum
      BY <2>1, <2>3, <2>6, <2>7 DEF FilesInv, HeadersRead, Tabled, Sized
    <3>3. \A k \in 1 .. h[2].phnum : phdrs'[k] = Reduced(Table(h, k), newsize)'
      <4>1. ASSUME NEW p PROVE Reduced(p, newsize)' = Reduced(p, newsize)
        BY <2>1, <2>2 DEF Reduced, swap_bytes
      <4>2. \A k \in 1 .. g[2].phnum : phdrs[k] = Reduced(Table(g, k), newsize)
        BY <2>1, <2>3 DEF FilesInv, HeadersRead
      <4>3. QED
        BY <2>1, <2>6, <2>7, <4>1, <4>2 DEF Table
    <3>4. IsElf(h)
      BY <2>7 DEF HasTable
    <3>5. QED
      BY <2>2, <2>7, <3>1, <3>2, <3>3, <3>4 DEF HeadersRead
  <2>20. QED
    BY <2>11, <2>13, <2>14, <2>17, <2>18, <2>19 DEF FilesInv
<1>3. QED
  BY <1>1, <1>2

\* h is g with the first n of the entries reduced.
Rewritten(g, h, n) ==
  /\ HasTable(h) /\ Len(h) = Len(g) /\ h[2] = g[2]
  /\ \A k \in 1 .. g[2].phnum :
       Table(h, k) = IF k <= n THEN Reduced(Table(g, k), newsize) ELSE Table(g, k)
  /\ \A x \in 1 .. Len(g) : h[x] = Zero <=> g[x] = Zero

\* What of the table was written, at most as much as it holds.
LEMMA TableChange ==
  ASSUME IInv, FilesInv, pc = "write_phdrs", NEW n \in 0 .. ehdr.phnum,
         files' = [files EXCEPT ![filename] = WithTable(n)],
         UNCHANGED << given, foreign >>, NEW g, g = file, NEW h, h = files'[filename]
  PROVE  /\ Rewritten(g, h, n)
         /\ ImageSafe'
         /\ \A a \in stripped : files'[a] = files[a]
<1>1. filename \in Names /\ files \in [Names -> Seq(Cells)]
  BY CurrentFile DEF FilesInv, ImageSafe
<1>2. h = WithTable(n) /\ files' = [files EXCEPT ![filename] = h]
  BY <1>1
<1>3. /\ ehdr = g[2] /\ HasTable(g)
      /\ \A k \in 1 .. g[2].phnum : phdrs[k] = Reduced(Table(g, k), newsize)
  BY DEF FilesInv, HeadersRead, Tabled, Sized
<1>4. ehdr.phoff = EhdrSize
  BY <1>3 DEF HasTable
<1>5. PICK t : t = phdrs
  OBVIOUS
<1>6. h = WithEntries(g, t, n)
  BY <1>2, <1>4, <1>5 DEF WithTable, WithEntries
<1>7. PICK m \in Nat : Measured(g, m, newsize) /\ m <= Len(g)
  BY SizeIsLast
<1>8. newsize \in Nat /\ n \in 0 .. g[2].phnum
  BY <1>3, SizeIsLast
<1>9. /\ HasTable(h) /\ Len(h) = Len(g) /\ h[2] = g[2]
      /\ \A k \in 1 .. g[2].phnum :
           Table(h, k) = IF k <= n THEN Reduced(Table(g, k), newsize) ELSE Table(g, k)
      /\ \A x \in 1 .. Len(g) : h[x] = Zero <=> g[x] = Zero
      /\ SameImage(g, h)
  BY <1>3, <1>5, <1>6, <1>7, <1>8, TableWritten
<1>10. h \in Seq(Cells) /\ g \in Seq(Cells) /\ Len(g) \in Nat
  BY <1>3, <1>9, TableTyped
<1>11. ImageSafe' /\ \A a \in Names : a # filename => files'[a] = files[a]
  <2>1. Len(h) <= Len(file) /\ SameImage(file, h)
    BY <1>9, <1>10
  <2>2. QED
    BY <1>1, <1>2, <1>9, <1>10, <2>1, WriteKeeps
<1>12. ASSUME NEW a \in stripped PROVE files'[a] = files[a]
  <2>1. a \in Names
    BY DEF FilesInv, AllSettled
  <2>2. CASE a = filename
    <3>1. SettledAt(g, newsize)
      BY <2>2, MeasuredAgain
    <3>2. \A k \in 1 .. g[2].phnum : t[k] = Table(g, k)
      BY <1>3, <1>5, <3>1 DEF SettledAt
    <3>3. ASSUME NEW x \in 1 .. Len(g) PROVE h[x] = g[x]
      <4>1. CASE x - EhdrSize \in 1..n
        <5>1. PICK k \in 1 .. g[2].phnum : x = EhdrSize + k /\ x - EhdrSize = k
          <6>1. x - EhdrSize \in 1 .. g[2].phnum /\ x = EhdrSize + (x - EhdrSize)
            <7>1. g[2].phnum \in Nat
              BY <1>3, TableTyped
            <7>2. QED
              BY <1>8, <1>10, <4>1, <7>1 DEF EhdrSize
          <6>2. QED
            BY <6>1
        <5>2. h[x] = t[k]
          BY <1>6, <1>10, <4>1, <5>1 DEF WithEntries
        <5>3. QED
          BY <3>2, <5>1, <5>2 DEF Table
      <4>2. CASE x - EhdrSize \notin 1..n
        BY <1>6, <1>10, <4>2 DEF WithEntries
      <4>3. QED
        BY <4>1, <4>2
    <3>4. h = g
      BY <1>9, <1>10, <3>3, SeqEqual
    <3>5. QED
      BY <2>2, <3>4 DEF file
  <2>3. QED
    BY <1>11, <2>1, <2>2
<1>13. QED
  BY <1>9, <1>11, <1>12 DEF Rewritten

\* The table is written, or a part of it; that of a stripped file fits.
LEMMA TableWriteStep ==
  ASSUME IInv, FilesInv, write_phdrs
  PROVE  /\ FilesInv'
         /\ \A a \in stripped : files'[a] = files[a]
<1>1. pc = "write_phdrs"
  BY DEF write_phdrs
<1>2. PICK g : g = file
  OBVIOUS
<1>3. PICK h : h = files'[filename]
  OBVIOUS
<1>4. ehdr = g[2] /\ HasTable(g) /\ g[2].phnum \in Nat /\ Len(g) \in Nat
  <2>1. ehdr = g[2] /\ HasTable(g)
    BY <1>1, <1>2 DEF FilesInv, HeadersRead, Tabled, Sized
  <2>2. QED
    BY <2>1, TableTyped
<1>5. CASE \E n \in 0..(ehdr.phnum - 1) :
             Fail /\ files' = [files EXCEPT ![filename] = WithTable(n)]
  <2>1. PICK n \in 0..(ehdr.phnum - 1) :
             Fail /\ files' = [files EXCEPT ![filename] = WithTable(n)]
    BY <1>5
  <2>2. /\ pc' = "open" /\ stripped' = stripped \ {filename}
        /\ given' = given /\ foreign' = foreign
    BY <2>1 DEF Fail, NextFile
  <2>3. n \in 0 .. ehdr.phnum
    BY <1>4
  <2>4. ImageSafe' /\ \A a \in stripped : files'[a] = files[a]
    BY <1>1, <1>2, <1>3, <2>1, <2>2, <2>3, TableChange
  <2>5. AllSettled'
    BY <2>2, <2>4, StrippedKept DEF FilesInv
  <2>6. HeadersRead' /\ SizeRight' /\ NoneBehind'
    BY <2>2 DEF HeadersRead, SizeRight, NoneBehind, Turn, Tabled, Sized
  <2>7. QED
    BY <2>4, <2>5, <2>6 DEF FilesInv
<1>6. CASE /\ files' = [files EXCEPT ![filename] = WithTable(ehdr.phnum)]
           /\ GoTo("ftruncate") /\ ehdr' = ehdr /\ phdrs' = phdrs /\ newsize' = newsize
  <2>1. /\ filename' = filename /\ pc' = "ftruncate" /\ stripped' = stripped
        /\ given' = given /\ foreign' = foreign
    BY <1>6 DEF GoTo, filename
  <2>2. PICK n \in 0 .. ehdr.phnum : n = ehdr.phnum
    BY <1>4
  <2>3. /\ Rewritten(g, h, n)
        /\ ImageSafe' /\ \A a \in stripped : files'[a] = files[a]
    <3>1. files' = [files EXCEPT ![filename] = WithTable(n)]
      BY <1>6, <2>2
    <3>2. n \in 0 .. ehdr.phnum /\ UNCHANGED << given, foreign >>
      BY <2>1
    <3>3. QED
      BY <1>1, <1>2, <1>3, <3>1, <3>2, TableChange
  <2>4. /\ HasTable(h) /\ Len(h) = Len(g) /\ h[2] = g[2]
        /\ \A k \in 1 .. g[2].phnum : Table(h, k) = Reduced(Table(g, k), newsize)
        /\ \A x \in 1 .. Len(g) : h[x] = Zero <=> g[x] = Zero
    BY <1>4, <2>2, <2>3 DEF Rewritten
  <2>5. AllSettled'
    BY <2>1, <2>3, StrippedKept DEF FilesInv
  <2>6. file' = h
    BY <1>3, <2>1 DEF file
  <2>7. PICK m \in Nat : Measured(g, m, newsize) /\ m <= Len(g)
    BY <1>1, <1>2, SizeIsLast
  <2>8. newsize \in Nat /\ g[newsize] # Zero /\ newsize \in 1 .. Len(g) /\ newsize \in 1..m
    BY <1>1, <1>2, <2>7, SizeIsLast DEF Measured
  <2>9. ASSUME NEW k \in 1 .. g[2].phnum
        PROVE  /\ HasSegment(Table(h, k)) <=> HasSegment(Table(g, k))
               /\ HasSegment(Table(g, k)) => EndOf(Table(h, k)) <= m
               /\ HasSegment(Table(g, k)) /\ EndOf(Table(g, k)) >= newsize =>
                    EndOf(Table(h, k)) >= newsize
               /\ Reduced(Table(h, k), newsize) = Table(h, k)
    <3>1. PICK p \in Phdrs \cup {Zero} : p = Table(g, k)
      BY <1>4, TableTyped
    <3>2. newsize <= m
      BY <2>8
    <3>3. HasSegment(p) => EndOf(p) <= m
      BY <2>7, <3>1 DEF Measured
    <3>4. Table(h, k) = Reduced(p, newsize)
      BY <2>4, <3>1
    <3>5. /\ HasSegment(Reduced(p, newsize)) <=> HasSegment(p)
          /\ HasSegment(p) /\ EndOf(p) <= m => EndOf(Reduced(p, newsize)) <= m
          /\ HasSegment(p) /\ EndOf(p) >= newsize => EndOf(Reduced(p, newsize)) >= newsize
      BY <2>8, <3>2, ReducedEnds
    <3>6. Reduced(Reduced(p, newsize), newsize) = Reduced(p, newsize)
      BY <2>8, ReducedOnce
    <3>7. QED
      BY <3>1, <3>3, <3>4, <3>5, <3>6
  <2>10. SizeRight'
    <3>1. EndOfTable(h) = EndOfTable(g)
      BY <2>4 DEF EndOfTable
    <3>2. Reaches(h, newsize)
      BY <2>4, <2>7, <2>9, <3>1 DEF Reaches, Measured
    <3>3. ASSUME NEW x \in newsize+1 .. m, x <= Len(h) PROVE h[x] = Zero
      <4>1. x \in 1 .. Len(g)
        BY <1>4, <2>4, <2>8, <3>3
      <4>2. QED
        BY <2>4, <2>7, <3>3, <4>1 DEF Measured
    <3>4. Measured(h, m, newsize)
      BY <2>4, <2>7, <2>9, <3>1, <3>2, <3>3 DEF Measured
    <3>5. m <= Len(h) /\ h[newsize] # Zero
      BY <2>4, <2>7, <2>8
    <3>6. QED
      BY <1>6, <2>1, <2>6, <3>4, <3>5 DEF SizeRight
  <2>11. NoneBehind'
    <3>1. SUFFICES ASSUME filename \in stripped, NEW x \in newsize+1 .. Len(h)
                   PROVE  h[x] = Zero
      BY <1>6, <2>1, <2>6 DEF NoneBehind
    <3>2. g[x] = Zero /\ x \in 1 .. Len(g)
      BY <1>1, <1>2, <1>4, <2>4, <2>8, <3>1 DEF FilesInv, NoneBehind, Sized
    <3>3. QED
      BY <2>4, <3>2
  <2>12. HeadersRead'
    <3>1. file' = h /\ ehdr' = h[2] /\ ehdr'.shoff < newsize'
      BY <1>1, <1>4, <1>6, <2>4, <2>6 DEF FilesInv, HeadersRead
    <3>2. DOMAIN phdrs' = 1 .. h[2].phnum
      BY <1>1, <1>2, <1>6, <2>4 DEF FilesInv, HeadersRead, Tabled, Sized
    <3>3. \A k \in 1 .. h[2].phnum :
            phdrs'[k] = Table(h, k) /\ Reduced(phdrs[k], newsize)' = phdrs'[k]
      <4>1. ASSUME NEW p PROVE Reduced(p, newsize)' = Reduced(p, newsize)
        BY <1>6, <2>1 DEF Reduced, swap_bytes
      <4>2. \A k \in 1 .. g[2].phnum : phdrs[k] = Table(h, k)
        BY <1>1, <1>2, <2>4 DEF FilesInv, HeadersRead
      <4>3. ASSUME NEW k \in 1 .. h[2].phnum
            PROVE  phdrs'[k] = Table(h, k) /\ Reduced(phdrs[k], newsize)' = phdrs'[k]
        <5>1. phdrs'[k] = Table(h, k) /\ Reduced(Table(h, k), newsize) = Table(h, k)
          BY <1>6, <2>4, <2>9, <4>2
        <5>2. PICK p : p = Table(h, k)
          OBVIOUS
        <5>3. Reduced(p, newsize) = p /\ phdrs[k] = p /\ phdrs' = phdrs /\ newsize' = newsize
                /\ foreign' = foreign
          BY <1>6, <2>1, <5>1, <5>2
        <5>4. Reduced(phdrs[k], newsize)' = p
          BY <5>3 DEF Reduced, swap_bytes
        <5>5. QED
          BY <5>1, <5>2, <5>4
      <4>4. QED
        BY <4>3
    <3>4. IsElf(h)
      BY <2>4 DEF HasTable
    <3>5. QED
      BY <2>1, <2>4, <3>1, <3>2, <3>3, <3>4 DEF HeadersRead
  <2>13. QED
    BY <2>3, <2>5, <2>10, <2>11, <2>12 DEF FilesInv
<1>7. QED
  BY <1>5, <1>6 DEF write_phdrs

\* The file is cut, a stripped one at its end.
LEMMA CutStep ==
  ASSUME IInv, FilesInv, ftruncate
  PROVE  /\ FilesInv'
         /\ \A a \in stripped : files'[a] = files[a]
<1>1. CASE FailCleanly
  <2>1. FilesInv'
    BY <1>1, FailStep
  <2>2. QED
    BY <1>1, <2>1 DEF FailCleanly
<1>2. CASE ~ FailCleanly
  <2>1. /\ files' = [files EXCEPT ![filename] = SubSeq(@, 1, FinalSize)]
        /\ stripped' = stripped \cup {filename} /\ pc' = "open"
        /\ given' = given /\ foreign' = foreign /\ pc = "ftruncate"
    BY <1>2 DEF ftruncate, NextFile
  <2>2. PICK g : g = file
    OBVIOUS
  <2>3. /\ HasTable(g) /\ ehdr = g[2] /\ ehdr.shoff < newsize
        /\ \A k \in 1 .. g[2].phnum : Reduced(Table(g, k), newsize) = Table(g, k)
    BY <2>1, <2>2 DEF FilesInv, HeadersRead, Tabled, Sized
  <2>4. /\ newsize \in Nat /\ newsize \in 1 .. Len(g) /\ g[newsize] # Zero
    BY <2>1, <2>2, SizeIsLast
  <2>5. PICK m \in Nat : Measured(g, m, newsize) /\ m <= Len(g)
    BY <2>1, <2>2, SizeIsLast
  <2>6. /\ g \in Seq(Cells) /\ Len(g) \in Nat /\ EndOfTable(g) \in Nat
        /\ EndOfTable(g) <= m /\ EndOfTable(g) <= Len(g) /\ newsize <= m
    BY <2>3, <2>5, TableTyped DEF HasTable, Measured
  <2>7. FinalSize = IF newsize < EndOfTable(g) THEN EndOfTable(g) ELSE newsize
    BY <2>3 DEF FinalSize, TableEnd, EndOfTable, HasTable
  <2>8. PICK final \in Nat : final = FinalSize
    BY <2>4, <2>6, <2>7
  <2>9. final \in 1 .. Len(g) /\ newsize <= final /\ final <= m
    BY <2>4, <2>5, <2>6, <2>7, <2>8
  <2>10. PICK h : h = SubSeq(g, 1, final)
    OBVIOUS
  <2>11. h \in Seq(Cells) /\ Len(h) = final /\ \A x \in 1 .. final : h[x] = g[x]
    <3>1. \A x \in 1 .. final : g[x] \in Cells
      BY <2>6, <2>9
    <3>2. /\ h \in Seq(Cells)
          /\ Len(h) = IF 1 <= final THEN final - 1 + 1 ELSE 0
          /\ \A x \in 1 .. final - 1 + 1 : h[x] = g[1 + x - 1]
      BY <2>10, <3>1, SubSeqProperties
    <3>3. final - 1 + 1 = final /\ 1 <= final /\ \A x \in 1 .. final : 1 + x - 1 = x
      BY <2>9
    <3>4. QED
      BY <3>2, <3>3
  <2>12. /\ HasTable(h) /\ h[2] = g[2]
         /\ \A k \in 1 .. g[2].phnum : Table(h, k) = Table(g, k)
         /\ foreign \/ SamePage(h, g) => SameImage(g, h)
    BY <2>3, <2>4, <2>5, <2>7, <2>8, <2>11, Truncated
  <2>13. filename \in Names
    BY <2>1, CurrentFile
  <2>14. files' = [files EXCEPT ![filename] = h]
    BY <2>1, <2>2, <2>8, <2>10 DEF file
  <2>15. /\ ImageSafe' /\ files'[filename] = h
         /\ \A a \in Names : a # filename => files'[a] = files[a]
    <3>1. Len(h) <= Len(file) /\ (foreign \/ SamePage(h, file) => SameImage(file, h))
      BY <2>2, <2>6, <2>9, <2>11, <2>12
    <3>2. UNCHANGED << given, foreign >>
      BY <2>1
    <3>3. QED
      BY <2>11, <2>12, <2>13, <2>14, <3>1, <3>2, WriteKeeps
  <2>16. Settled(h)
    <3>1. ASSUME NEW x \in newsize+1 .. Len(h) PROVE h[x] = Zero
      <4>1. x \in newsize+1 .. m /\ x <= Len(g) /\ x \in 1 .. final
        BY <2>4, <2>6, <2>9, <2>11, <3>1
      <4>2. g[x] = Zero
        BY <2>5, <4>1 DEF Measured
      <4>3. QED
        BY <2>11, <4>1, <4>2
    <3>2. newsize \in 1 .. Len(h) /\ h[newsize] # Zero
      BY <2>4, <2>9, <2>11
    <3>3. EndOfTable(h) = EndOfTable(g)
      BY <2>12 DEF EndOfTable
    <3>4. Reaches(h, newsize)
      BY <2>5, <2>12, <3>3 DEF Reaches, Measured
    <3>5. Len(h) = newsize \/ Len(h) = EndOfTable(h)
      BY <2>7, <2>8, <2>11, <3>3
    <3>6. h[2].shoff < newsize
      BY <2>3, <2>12
    <3>7. \A k \in 1 .. h[2].phnum : Reduced(Table(h, k), newsize) = Table(h, k)
      BY <2>3, <2>12
    <3>8. QED
      BY <2>4, <2>12, <3>1, <3>2, <3>4, <3>5, <3>6, <3>7 DEF SettledAt, Settled
  <2>17. ASSUME NEW a \in stripped PROVE files'[a] = files[a]
    <3>1. a \in Names
      BY DEF FilesInv, AllSettled
    <3>2. CASE a = filename
      <4>1. SettledAt(g, newsize)
        BY <2>1, <2>2, <3>2, MeasuredAgain
      <4>2. Len(g) = newsize \/ Len(g) = EndOfTable(g)
        BY <4>1 DEF SettledAt
      <4>3. final = Len(g)
        BY <2>4, <2>6, <2>7, <2>8, <4>2
      <4>4. h = g
        BY <2>6, <2>11, <4>3, SeqEqual
      <4>5. QED
        BY <2>2, <2>15, <3>2, <4>4 DEF file
    <3>3. QED
      BY <2>15, <3>1, <3>2
  <2>18. AllSettled'
    <3>1. ASSUME NEW a \in stripped' PROVE a \in Names /\ Settled(files[a])'
      <4>1. CASE a = filename
        <5>1. h = files'[a]
          BY <2>15, <4>1
        <5>2. QED
          BY <2>1, <2>13, <2>16, <4>1, <5>1, SettledThen
      <4>2. CASE a \in stripped
        <5>1. a \in Names /\ Settled(files[a]) /\ files'[a] = files[a]
          BY <2>17, <4>2 DEF FilesInv, AllSettled
        <5>2. PICK f : f = files[a]
          OBVIOUS
        <5>3. f = files'[a] /\ Settled(f)
          BY <5>1, <5>2
        <5>4. QED
          BY <2>1, <5>1, <5>3, SettledThen
      <4>3. QED
        BY <2>1, <4>1, <4>2
    <3>2. QED
      BY <3>1 DEF AllSettled
  <2>19. HeadersRead' /\ SizeRight' /\ NoneBehind'
    BY <2>1 DEF HeadersRead, SizeRight, NoneBehind, Turn, Tabled, Sized
  <2>20. QED
    BY <2>15, <2>17, <2>18, <2>19 DEF FilesInv
<1>3. QED
  BY <1>1, <1>2

\* At the start no file has changed.
LEMMA InitFiles ==
  ASSUME UsualDisks, Init
  PROVE  FilesInv
<1>1. /\ files \in [Names -> Seq(Cells)] /\ \A n \in Names : Usual(files[n])
      /\ given = files /\ foreign \in BOOLEAN
  BY DEF UsualDisks, Init
<1>2. \A n \in Names : IsExecutable(given[n]) => SameImage(given[n], files[n])
  BY <1>1 DEF SameImage
<1>3. \A n \in Names : given[n] \in Seq(Cells) /\ Len(files[n]) <= Len(given[n])
  <2>1. \A n \in Names : files[n] \in Seq(Cells) /\ Len(files[n]) \in Nat
    BY <1>1
  <2>2. QED
    BY <1>1, <2>1
<1>4. ImageSafe
  BY <1>1, <1>2, <1>3 DEF ImageSafe
<1>5. HeadersRead /\ SizeRight /\ NoneBehind /\ AllSettled
  BY DEF Init, HeadersRead, SizeRight, NoneBehind, AllSettled, Turn, Tabled, Sized
<1>6. QED
  BY <1>4, <1>5 DEF FilesInv

\* Every action keeps the files, and leaves a stripped file alone.
LEMMA StepFiles ==
  ASSUME IInv, FilesInv, [Next]_vars
  PROVE  /\ FilesInv'
         /\ \A n \in stripped : files'[n] = files[n]
<1>1. CASE Open
  <2>1. CASE FailCleanly
    BY <2>1, FailStep DEF FailCleanly
  <2>2. CASE GoTo("readelfheader") /\ files' = files
    <3>1. /\ UNCHANGED << files, given, foreign >> /\ stripped' = stripped
          /\ pc' = "readelfheader"
      BY <2>2 DEF GoTo
    <3>2. QED
      BY <3>1, CleanStep
  <2>3. QED
    BY <1>1, <2>1, <2>2 DEF Open
<1>2. CASE Return
  <2>1. /\ UNCHANGED << files, given, foreign >> /\ stripped' = stripped
        /\ pc' = "exit"
    BY <1>2 DEF Return, Exit
  <2>2. QED
    BY <2>1, CleanStep
<1>3. CASE readelfheader
  <2>1. files' = files
    BY <1>3 DEF readelfheader, FailCleanly, Exit
  <2>2. QED
    BY <1>3, <2>1, HeaderStep
<1>4. CASE readphdrtable
  <2>1. files' = files
    BY <1>4 DEF readphdrtable, FailCleanly
  <2>2. QED
    BY <1>4, <2>1, TableStep
<1>5. CASE getmemorysize
  <2>1. files' = files
    BY <1>5 DEF getmemorysize
  <2>2. QED
    BY <1>5, <2>1, SizeStep
<1>6. CASE truncatezeros
  <2>1. files' = files
    BY <1>6 DEF truncatezeros, FailCleanly
  <2>2. QED
    BY <1>6, <2>1, ZerosStep
<1>7. CASE modifyheaders
  <2>1. files' = files
    BY <1>7 DEF modifyheaders
  <2>2. QED
    BY <1>7, <2>1, ModifyStep
<1>8. CASE write_ehdr
  BY <1>8, HeaderWriteStep
<1>9. CASE write_phdrs
  BY <1>9, TableWriteStep
<1>10. CASE ftruncate
  BY <1>10, CutStep
<1>11. CASE UNCHANGED vars
  <2>1. /\ UNCHANGED << files, given, foreign, pc, ehdr, phdrs, newsize >>
        /\ file' = file /\ filename' = filename /\ stripped' = stripped
    BY <1>11 DEF vars, file, filename
  <2>2. AllSettled'
    BY <2>1, StrippedKept DEF FilesInv
  <2>3. HeadersRead'
    BY <2>1 DEF FilesInv, HeadersRead, Reduced, swap_bytes
  <2>4. SizeRight' /\ NoneBehind'
    BY <2>1 DEF FilesInv, SizeRight, NoneBehind
  <2>5. ImageSafe'
    BY <2>1 DEF FilesInv, ImageSafe
  <2>6. QED
    BY <2>1, <2>2, <2>3, <2>4, <2>5 DEF FilesInv
<1>12. QED
  BY <1>1, <1>2, <1>3, <1>4, <1>5, <1>6, <1>7, <1>8, <1>9, <1>10, <1>11 DEF Next

(* The invariants hold of every state, for all command lines and files, as *)
(* long as the table of an executable follows its header.                  *)
THEOREM FilesInvariant ==
  ASSUME UsualDisks
  PROVE  Spec => [](IInv /\ FilesInv)
<1>1. Init => IInv /\ FilesInv
  BY InitIInv, InitFiles
<1>2. IInv /\ FilesInv /\ [Next]_vars => (IInv /\ FilesInv)'
  BY StepIInv, StepFiles
<1>3. QED
  BY <1>1, <1>2, PTL DEF Spec

(* Each executable loads into the same memory at every moment, also after  *)
(* a write that failed halfway, for all files with the table behind the    *)
(* header.                                                                 *)
THEOREM ImagesKept ==
  ASSUME UsualDisks
  PROVE  Spec => []ImageKept
<1>1. FilesInv => ImageKept
  BY DEF FilesInv, ImageSafe, ImageKept, SamePage, swap_bytes
<1>2. QED
  BY <1>1, FilesInvariant, PTL

(* A stripped file ends in its last cell that is not zero, or with its     *)
(* table, and refers to no sections behind its end.                        *)
THEOREM StrippedSmallest ==
  ASSUME UsualDisks
  PROVE  Spec => []Smallest
<1>1. ASSUME FilesInv, NEW n \in stripped
      PROVE  LET f == files[n]
             IN /\ f[Len(f)] # Zero \/ Len(f) = f[2].phoff + f[2].phnum
                /\ f[2].shoff < Len(f)
  <2>1. PICK f : f = files[n]
    OBVIOUS
  <2>2. PICK size \in Nat : SettledAt(f, size)
    BY <1>1, <2>1 DEF FilesInv, AllSettled, Settled
  <2>3. f[2].phoff = EhdrSize /\ HasTable(f)
    BY <2>2 DEF SettledAt, HasTable
  <2>4. Len(f) \in Nat /\ f[2].shoff \in Nat
    BY <2>3, TableTyped
  <2>5. f[Len(f)] # Zero \/ Len(f) = f[2].phoff + f[2].phnum
    BY <2>2, <2>3 DEF SettledAt, EndOfTable
  <2>6. f[2].shoff < Len(f)
    BY <2>2, <2>4 DEF SettledAt
  <2>7. QED
    BY <2>1, <2>5, <2>6
<1>2. FilesInv => Smallest
  BY <1>1 DEF Smallest
<1>3. QED
  BY <1>2, FilesInvariant, PTL

(* No step changes a file that was stripped, whichever calls fail.         *)
THEOREM SecondTurnKeeps ==
  ASSUME UsualDisks
  PROVE  Spec => SecondTimeSame
<1>1. IInv /\ FilesInv /\ [Next]_vars => [ \A n \in stripped : files'[n] = files[n] ]_vars
  BY StepFiles
<1>2. QED
  BY <1>1, FilesInvariant, PTL DEF Spec, SecondTimeSame
=============================================================================
