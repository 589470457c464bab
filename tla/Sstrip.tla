------------------------------- MODULE Sstrip -------------------------------
(***************************************************************************)
(* sstrip: discards from executables every byte behind the last one that   *)
(* the program header table refers to, and the zeros before that.          *)
(*                                                                         *)
(* A file is a sequence of cells.  The first two are the ELF header, one   *)
(* for the signature and one for the fields; an entry of the program       *)
(* header table is one cell, an all zero entry (PT_NULL) the same as a     *)
(* zero in the file.  Offsets count cells from 0.  A field is its value:   *)
(* what is kept of the byte order is which stores the swapping guards.     *)
(* Every system call may fail at any time, a write after a part of it.     *)
(***************************************************************************)
EXTENDS Integers, Sequences, FiniteSets

CONSTANTS
  Names,      \* of files
  Disks,      \* what the files may hold before: functions on Names
  Argvs,      \* the command lines: sequences of names; an empty one, and a first
              \* name with a dash, only show how sstrip is used
  Contents,   \* sizeof contents in truncatezeros
  Page        \* cells in a page of memory

ASSUME SstripAssumption ==
  /\ Argvs \subseteq Seq(Names)
  /\ Contents \in Nat \ {0}
  /\ Page \in Nat \ {0}

Zero  == [kind |-> "zero"]
Data  == [kind |-> "data"]
Magic == [kind |-> "magic"]
Phdr(type, off, filesz, memsz) ==
  [kind |-> "phdr", type |-> type, off |-> off, filesz |-> filesz, memsz |-> memsz]
Ehdr(type, phoff, phnum, shoff) ==
  [kind |-> "ehdr", type |-> type, phoff |-> phoff, phnum |-> phnum, shoff |-> shoff]

EhdrSize == 2

Phdrs ==
  [kind : {"phdr"}, type : STRING, off : Nat, filesz : Nat, memsz : Nat]
Ehdrs ==
  [kind : {"ehdr"}, type : STRING, phoff : Nat, phnum : Nat, shoff : Nat]
Cells == {Zero, Data, Magic} \cup Phdrs \cup Ehdrs

\* A file as the linkers make them: if it begins like an ELF file it has a
\* header, and the program header table, if any, follows at once.
Usual(f) ==
  /\ f \in Seq(Cells)
  /\ Len(f) >= EhdrSize /\ f[1] = Magic =>
       /\ f[2] \in Ehdrs
       /\ f[2].phoff \in {0, EhdrSize}
       /\ \A k \in 1 .. f[2].phnum :
            EhdrSize + k <= Len(f) => f[EhdrSize + k] \in Phdrs \cup {Zero}

\* sstrip is meant for such files: readphdrtable looks for the table there.
UsualDisks == \A d \in Disks : d \in [Names -> Seq(Cells)] /\ \A n \in Names : Usual(d[n])

VARIABLES
  files,      \* the files by name
  given,      \* the files before sstrip started
  foreign,    \* the byte order of host and target differ
  argv, arg,  \* the command line and the index of the current file
  pc,         \* what is called next
  ehdr, phdrs, newsize,   \* main's, for the current file
  failures,
  stripped,   \* names whose last turn went well
  status      \* what main or exit returned; -1 while it runs

vars == << files, given, foreign, argv, arg, pc, ehdr, phdrs, newsize,
           failures, stripped, status >>

\* Set by readelfheader before it is first used.
swap_bytes == foreign

filename == argv[arg]
file     == files[filename]

Init ==
  /\ files \in Disks
  /\ given = files
  /\ foreign \in BOOLEAN
  /\ argv \in Argvs
  /\ arg = 1
  /\ pc = "open"
  /\ ehdr = Zero
  /\ phdrs = << >>
  /\ newsize = 0
  /\ failures = 0
  /\ stripped = {}
  /\ status = -1

-----------------------------------------------------------------------------
(* The end of a turn of main's loop: the file is closed, and counted when  *)
(* one of the functions returned 0.                                        *)

NextFile ==
  /\ arg' = arg + 1
  /\ pc' = "open"

Fail ==
  /\ NextFile
  /\ failures' = failures + 1
  /\ stripped' = stripped \ {filename}
  /\ UNCHANGED << given, foreign, argv, ehdr, phdrs, newsize, status >>

\* The call before failed: nothing was written by it.
FailCleanly == Fail /\ UNCHANGED files

GoTo(next) ==
  /\ pc' = next
  /\ UNCHANGED << given, foreign, argv, arg, failures, stripped, status >>

Open ==
  /\ pc = "open"
  /\ arg <= Len(argv)
  /\ \/ FailCleanly
     \/ GoTo("readelfheader") /\ UNCHANGED << files, ehdr, phdrs, newsize >>

Exit(s) ==
  /\ pc' = "exit"
  /\ status' = s
  /\ UNCHANGED << files, given, foreign, argv, arg, ehdr, phdrs, newsize,
                  failures, stripped >>

Bug_Return == pc = "open" /\ arg > Len(argv) /\ Exit(0)

Return ==
  /\ pc = "open"
  /\ arg > Len(argv)
  /\ Exit(IF failures > 0 THEN 1 ELSE 0)

-----------------------------------------------------------------------------
(* The functions main calls for a file, a step for each, or for each of    *)
(* its system calls that change something.                                 *)

\* Other mismatches of the header than these only print a warning: the
\* result of err is not returned.
readelfheader ==
  /\ pc = "readelfheader"
  /\ \/ FailCleanly
     \/ Len(file) >= EhdrSize /\ file[1] # Magic /\ Exit(0)
     \/ /\ Len(file) >= EhdrSize
        /\ file[1] = Magic
        /\ file[2].type \in {"ET_EXEC", "ET_DYN"}
        /\ ehdr' = file[2]
        /\ GoTo("readphdrtable")
        /\ UNCHANGED << files, phdrs, newsize >>

\* Reads on from the header, wherever e_phoff says the table is.
readphdrtable ==
  /\ pc = "readphdrtable"
  /\ \/ FailCleanly
     \/ /\ ehdr.phoff # 0
        /\ ehdr.phnum # 0
        /\ EhdrSize + ehdr.phnum <= Len(file)
        /\ phdrs' = SubSeq(file, EhdrSize + 1, EhdrSize + ehdr.phnum)
        /\ GoTo("getmemorysize")
        /\ UNCHANGED << files, ehdr, newsize >>

TableEnd == ehdr.phoff + ehdr.phnum

\* The ends of the segments of entries that are not PT_NULL.
SegmentEnds ==
  { p.off + p.filesz : p \in
      { phdrs[k] : k \in { j \in DOMAIN phdrs : /\ phdrs[j].kind = "phdr"
                                                /\ phdrs[j].type # "PT_NULL" } } }

Largest(S) == CHOOSE x \in S : \A y \in S : y <= x

getmemorysize ==
  /\ pc = "getmemorysize"
  /\ newsize' = Largest({EhdrSize, TableEnd} \cup SegmentEnds)
  /\ GoTo("truncatezeros")
  /\ UNCHANGED << files, ehdr, phdrs >>

\* How many cells of the file before newsize are zero, of the n last ones.
TrailingZeros(n) ==
  Cardinality({ k \in 1..n : \A j \in 1..k : file[newsize - j + 1] = Zero })

Bug_LoopsOn(z, n) == z > n

\* The condition of the loop: contents[0] was the last byte looked at, also
\* when it was not zero.
LoopsOn(z, n) == z >= n - 1

\* One turn of the loop.
truncatezeros ==
  /\ pc = "truncatezeros"
  /\ LET n == Largest({ k \in 1..Contents : k <= newsize })
         z == TrailingZeros(n)
     IN \/ FailCleanly
        \/ /\ newsize <= Len(file)
           /\ newsize > z
           /\ newsize' = newsize - z
           /\ GoTo(IF LoopsOn(z, n) THEN "truncatezeros" ELSE "modifyheaders")
           /\ UNCHANGED << files, ehdr, phdrs >>

\* A segment that lost its end.  The new values are only stored when they
\* are swapped, except for the 0.
Reduced(p, size) ==
  IF p.kind = "zero" THEN p
  ELSE IF p.off >= size
    THEN [p EXCEPT !.off = IF swap_bytes THEN size ELSE @, !.filesz = 0]
  ELSE IF p.off + p.filesz > size /\ swap_bytes
    THEN [p EXCEPT !.filesz = size - p.off]
  ELSE p

modifyheaders ==
  /\ pc = "modifyheaders"
  /\ ehdr' = IF ehdr.shoff >= newsize THEN [ehdr EXCEPT !.shoff = 0] ELSE ehdr
  /\ phdrs' = [k \in DOMAIN phdrs |-> Reduced(phdrs[k], newsize)]
  /\ GoTo("write_ehdr")
  /\ UNCHANGED << files, newsize >>

write_ehdr ==
  /\ pc = "write_ehdr"
  /\ \/ FailCleanly
     \/ /\ files' = [files EXCEPT ![filename][2] = ehdr]
        /\ GoTo("write_phdrs")
        /\ UNCHANGED << ehdr, phdrs, newsize >>

\* The file with the first n entries of the table written to it.
WithTable(n) ==
  [k \in DOMAIN file |-> IF k - ehdr.phoff \in 1..n THEN phdrs[k - ehdr.phoff]
                         ELSE file[k]]

write_phdrs ==
  /\ pc = "write_phdrs"
  /\ \/ \E n \in 0..(ehdr.phnum - 1) :
          Fail /\ files' = [files EXCEPT ![filename] = WithTable(n)]
     \/ /\ files' = [files EXCEPT ![filename] = WithTable(ehdr.phnum)]
        /\ GoTo("ftruncate")
        /\ UNCHANGED << ehdr, phdrs, newsize >>

Bug_FinalSize == newsize

\* The eleventh-hour sanity check: never before the end of the table.
FinalSize == IF newsize < TableEnd THEN TableEnd ELSE newsize

\* The next turn is for the same file.
Bug_ftruncate ==
  /\ pc = "ftruncate"
  /\ \/ FailCleanly
     \/ /\ files' = [files EXCEPT ![filename] = SubSeq(@, 1, FinalSize)]
        /\ stripped' = stripped \cup {filename}
        /\ pc' = "open"
        /\ UNCHANGED << given, foreign, argv, arg, ehdr, phdrs, newsize, failures, status >>

ftruncate ==
  /\ pc = "ftruncate"
  /\ \/ FailCleanly
     \/ /\ files' = [files EXCEPT ![filename] = SubSeq(@, 1, FinalSize)]
        /\ stripped' = stripped \cup {filename}
        /\ NextFile
        /\ UNCHANGED << given, foreign, argv, ehdr, phdrs, newsize, failures, status >>

Next ==
  \/ Open \/ Return
  \/ readelfheader \/ readphdrtable \/ getmemorysize \/ truncatezeros
  \/ modifyheaders \/ write_ehdr \/ write_phdrs \/ ftruncate

Spec == Init /\ [][Next]_vars /\ WF_vars(Next)

-----------------------------------------------------------------------------
(* What the loader of the operating system makes of a file.  A header seen *)
(* through a segment counts as the same, whatever its fields.              *)

Header == [kind |-> "header"]
Fault  == [kind |-> "fault"]

\* What a process reads at offset i of the mapped file: zeros from the end of
\* the file to the end of its last page, and nothing behind that page.
Mapped(f, i) ==
  IF i < Len(f) THEN IF f[i + 1].kind \in {"ehdr", "phdr"} THEN Header ELSE f[i + 1]
  ELSE IF i \div Page = (Len(f) - 1) \div Page THEN Zero ELSE Fault

Memory(f, p) ==
  [i \in 1..p.memsz |-> IF i <= p.filesz THEN Mapped(f, p.off + i - 1) ELSE Zero]

Entry(f, k) == f[f[2].phoff + k]

Loads(f, k) == Entry(f, k).kind = "phdr" /\ Entry(f, k).type = "PT_LOAD"

IsExecutable(f) ==
  /\ Len(f) >= EhdrSize
  /\ f[1] = Magic
  /\ f[2].phoff + f[2].phnum <= Len(f)

SameImage(f, g) ==
  /\ IsExecutable(g)
  /\ f[2].phoff = g[2].phoff /\ f[2].phnum = g[2].phnum
  /\ \A k \in 1..f[2].phnum :
       /\ Loads(f, k) <=> Loads(g, k)
       /\ Loads(f, k) => Memory(f, Entry(f, k)) = Memory(g, Entry(g, k))

-----------------------------------------------------------------------------
(* At every moment, also after a call that failed halfway and between the  *)
(* writes of the headers and the truncation, each executable loads into    *)
(* the same memory as before sstrip.  On a host of the target's byte order *)
(* the sizes of segments are not reduced (modifyheaders stores them only   *)
(* swapped), and that holds as long as what was cut off lies in the page   *)
(* of the new end.                                                         *)
ImageKept ==
  \A n \in Names :
    LET f == files[n]
        g == given[n]
    IN /\ IsExecutable(g)
       /\ swap_bytes \/ (Len(f) - 1) \div Page = (Len(g) - 1) \div Page
       => SameImage(g, f)

(* A file sstrip is done with has no zeros at its end but those of its     *)
(* program header table, and no reference to sections behind its end.      *)
Smallest ==
  \A n \in stripped :
    LET f == files[n]
    IN pc \in {"open", "exit"} =>
         /\ f[Len(f)] # Zero \/ Len(f) = f[2].phoff + f[2].phnum
         /\ f[2].shoff < Len(f)

(* A status of success means that each of the files was stripped, or that  *)
(* one has no ELF signature: readelfheader then exits with 0, whatever     *)
(* failed before, and the files after it are left alone.                   *)
StatusTells ==
  /\ status = 0 =>
       \/ \A k \in DOMAIN argv : argv[k] \in stripped
       \/ arg <= Len(argv) /\ file[1] # Magic
  /\ status = 1 => failures > 0

(* What is stripped once is not changed by a second turn, which may fail:  *)
(* commitchanges writes the headers it read.                               *)
SecondTimeSame == [][ \A n \in stripped : files'[n] = files[n] ]_vars

(* main returns: each loop of truncatezeros comes closer to the start.     *)
Terminates == <>(status # -1)

\* All bytes of a segment are in the file, and there are some.
HasBytes(f, p) == p.filesz > 0 /\ p.off + p.filesz <= Len(f)

(* sstrip.c:299: modifyheaders "reduces program header table entries that  *)
(* included truncated bytes at the end of the file".  Where all bytes of a *)
(* loaded segment were in the given file, all that its entry still claims  *)
(* are in the stripped one.                                                *)
SegmentsInFile ==
  \A n \in stripped :
    pc \in {"open", "exit"} =>
      \A k \in 1 .. given[n][2].phnum :
        Loads(given[n], k) /\ HasBytes(given[n], Entry(given[n], k)) =>
          LET q == Entry(files[n], k) IN q.filesz = 0 \/ HasBytes(files[n], q)

=============================================================================
