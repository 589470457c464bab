# Verification of ll (linux_logo in assembly language)

`ll` prints the Linux logo and three lines about the machine. It is one small
program written again for some forty instruction sets, to compare their code
density; COMPARISON_RULES says what every version has to do. A compressor,
written in C and run by `make`, packs the ANSI logo into assembler directives
that each version includes and unpacks with a hand-written LZSS decoder.

Two more programs belong to it: `sstrip`, which shortens the executables, and a
simulator of the 6502 in which the Apple II port was written.

This directory holds TLA+ specifications of the compressors, of all finished
ports, of sstrip and of the simulator with its program, TLC configurations that
check them on small instances, and proofs checked by TLAPS.

## The system

| Part | Source | State | Operations |
|---|---|---|---|
| compressor | `lzss_new.c` | ring `text_buf` with a mirrored head, search trees `lson`, `rson`, `dad`, the match found, the group `code_buf` being built | newInitTree, newInsertNode, newDeleteNode, lzss_encode_better |
| older compressor | `lzss.c` | the same with constants for sizes | lzss_encode, Decode |
| driver and RLE | `ansi_compress.c` | run length, table of colours, the position of the input file, which all coders share | rle_one, rle_two, main |
| decoders | `ll.<arch>.s`, `c/ll_*.c` | logo pointer, flags, ring, output pointer | decompression_loop to done_logo |
| text | the same files | `out_buffer`, `disk_buffer`, uname and sysinfo structures | strcat, find_string, num_to_ascii, center_and_print, write_stdout, exit |
| bare machines | `no-os/6502_apple`, `no-os/65c816_snes` | the same, and a screen in memory | the same, processor detection, display |
| simulator | `no-os/6502_apple/devel/sim.c`, `ll_sim.c` | registers, flags and 64k of memory | the instructions; the port written with them |
| sstrip | `sstrip/sstrip.c` | the ELF file, its headers in memory, the new size, a count of failures | readelfheader, readphdrtable, getmemorysize, truncatezeros, modifyheaders, commitchanges, main |
| SNES tools | `no-os/65c816_snes/tools` | a file | convert pictures and fonts |

The parts meet in files and memory: `ansi_compress` reads the ANSI file and
writes `logo.lzss_new`; the assembler includes it between `logo` and
`logo_end`; the port reads these bytes and fills `out_buffer`, which it then
reuses for the text. Nothing runs concurrently: all of them are sequential
programs. sstrip alone changes a file in place, in three writes that may each
fail. The hard things are others:

- two programs, in C and in forty assembly languages, have to agree cell by
  cell on a ring buffer that neither transmits;
- a sliding window of strings in binary trees is edited by pointer surgery
  through long sequences of insertions and deletions;
- each port saves bytes with tricks (registers that happen to be zero, flags
  left by an earlier instruction, calls that fall through into the next
  procedure, strings that follow each other in memory), and every trick is an
  assumption about what ran before;
- forty copies of one program differ in boundaries: >, >=, =, signed,
  unsigned, with the linefeed counted or not;
- on the 6502, parts of the program use the same cells of the zero page for
  different things, and 16-bit numbers are added a byte at a time;
- sstrip edits what the loader of the operating system reads, and must leave an
  executable file behind whatever fails.

What makes each part correct: the **compressor** keeps its trees searchable, its
window equal to the file, its matches the longest (`LongestMatch` says among
which strings), its buffer in bounds, and ends. **Compressor and decoder** together copy the file. **find_string**
appends the field and nothing else, and ends. **num_to_ascii** writes the
decimal digits, inside its buffer. **The text** shows each line once, whole,
in the middle of the screen, and the program exits. **sstrip** leaves a file
that loads into the same memory, as small as possible, and says so in its
status. **The picture** of the Apple II has each dot of the logo in its colour.

## Modules

| Module | Models | Role |
|---|---|---|
| `ByteCopy` | the promise: bytes of a text arrive in order, all of them | abstract specification, used three times |
| `LzssCodec` | `Decode` of `lzss.c`, and any encoder whose pairs are matches in the window | the heart of the round trip; refines `ByteCopy` |
| `LzssCodecProofs` | | proofs about it |
| `LzssWire` | the format of groups and pairs | shared by encoder and decoder |
| `LzssEncoder` | `lzss_new.c`, one action per loop body | extends `LzssWire` |
| `LzssEncoderProofs` | | proofs about its variables, its window, its search trees and the matches found |
| `LzssOrderProofs` | | proofs about the order of the trees and the longest match; extends the one before |
| `LzssDecoder` | the decoder of the ports, with a record of choices per port | extends `LzssWire` |
| `Ports` | one record per port: end test, flag counter, length counter, ring, line ends | data |
| `LogoPipeline` | `main` of `ansi_compress.c`, the assembler, a port | composes encoder and decoder; refines `LzssCodec` and `ByteCopy` |
| `LogoPipelineProofs` | | proofs of these two refinements; extends `LzssEncoderProofs` |
| `FindString` | `find_string` with a record of choices per port | refines `ByteCopy` for the field wanted |
| `FindStringProofs` | | proofs about it |
| `NumToAscii` | `num_to_ascii` with a record of choices per port | |
| `NumToAsciiProofs` | | proofs about its divisions, digits and buffer |
| `LlText` | the three lines: strcat, center_and_print, write_stdout, exit | calls of the other two are steps with their results |
| `LlTextProofs` | | proofs about what is printed, and where |
| `TextPorts` | four definitions per port: `Page_`, `Find_`, `Print_`, `Num_` | data for the three modules above |
| `Sstrip` | `sstrip.c` | what a loader makes of the file is a reference definition in it |
| `SstripProofs` | | proofs about its status and about the files |
| `Rle` | `rle_one`, `rle_two` | the run-length coders, and their formats read back |
| `OldLzss` | `lzss.c` | the older compressor, as operators on a record of its variables |
| `AnsiCompress` | `main` of `ansi_compress.c` | composes Rle and OldLzss over one file |
| `Sim6502` | `sim.c` | the instructions, as operators on a machine |
| `LlSim` | `ll_sim.c` | the program of the Apple II, run on Sim6502 |
| `Ll6502` | the memory around the ring of `ll_6502.s` | extends LzssDecoder |
| `MC...` | | files, numbers, machines for TLC |

### How the modules correspond to the code

*LzssEncoder.* Variables have the names of the C variables. `pc` says whether a
tree operation runs and where it returns to. `newInsertNode` is `InsertLeaf`
(no child: the string becomes a leaf), `InsertWalk` (the comparison, a longer
match noted, one step down) and `InsertReplace` (a match of full length takes
the place of the older string). `newDeleteNode` is `DeleteAbsent`,
`DeleteNarrow`, `DeleteLeft`, and `DeleteDescend` with `DeletePredecessor` for
nodes with two children. The loop of `lzss_encode_better` is `Prime`, `Encode`
(with its flush of a full group), `Shift`, `AdvanceByte`, `AdvanceEnd`,
`Shifted`, `Flush`. Text formatting is left out; `outfile` is the sequence of
bytes.

*LzssDecoder.* Actions are the passages between the labels all ports share:
`LoadFlags` (decompression_loop), `Finish` and `RunPast` (test_flags with its
end test), `DiscreteChar`, `OffsetLength`, `OutputLoop`, with `StoreByte` for
store_byte up to its branches. Registers keep their width. What a port does
differently is a field of its record in `Ports`. A ring that is not in the bss
begins with garbage.

*LlText.* A cell of `out_buffer` holds a token, a letter or a whole text of the
program, each one column wide. `Page_x` lists the calls of port x for each
line in order; `Compose` performs the next of them. `CenterAndPrint` finds the
length as the port does (scanning or subtracting pointers), decides about the
escape sequence, and puts behind the line what the port puts there;
`WriteStdout` writes up to the first NUL it sees, and begins the next line;
`Exit` ends the program. `Again` is the branch of avr32 after which
write_stdout returns into the same procedure. The logo stands in the buffer at first, and
nothing clears it: stale cells show. An escape sequence with shift 0 is taken to
move nothing (most terminals move one column).

*FindString.* Actions are the labels: find_loop (`FindLoop`, `Match`,
`NotFound`), find_colon, skip_tabs, skip_spaces, copy_rest, store_loop; `RunPast`
is a read behind `disk_buffer`. The key is one byte, so a partial match of a
key is not seen. What a port takes for white space is a field of its record
(`white`): a blank in the ports for PCs and in C, only a tab on m68k and avr32, every
byte up to a blank on microblaze and, the NUL included, on crisv32; `SkipTabs` and
`SkipSpaces` skip nothing else.

*NumToAscii.* `DivBy10` stores a digit and keeps the quotient, `HandleDigit` is the
subtraction of powers of ten of 8-bit processors, `DivideBadly` a division the
processor has no result for. The record of a port has its way of dividing and
how much its buffer lacks. `Served` and `Fitting` say which numbers a port is good
for: the inputs of the run and the hypotheses of the theorems.

*Sstrip.* A file is a sequence of cells: two of the ELF header (signature and
fields), one for each entry of the table, the rest data or zeros. An action is a
function main calls, or each of its system calls that changes the file
(`write_ehdr`, `write_phdrs`, `ftruncate`); `truncatezeros` is a turn of its
loop. `Fail` is the return of 0 from any of them, with `FailCleanly` if nothing
was written and a part of the table otherwise. `swap_bytes` decides which fields
`Reduced` stores. `Usual` says of a file what readphdrtable takes for granted: its
table lies directly behind the header. `SameImage` is not of the program: it says what memory a
process gets from a file, with the zeros up to the end of a page that mapping
brings.

*Rle, OldLzss, AnsiCompress.* Labels of the run-length coders are values of
`rle`; a step is what lies between two tests of a character. Printed numbers
are the byte the assembler makes of them. `OldLzss` has the functions of `lzss.c`
under their names; a loop without an action of its own is recursive, so the
module has no theorem. In `AnsiCompress` a step is an fopen, a rewind, a step of
rle_one, or a unit of lzss_encode; lzss_encode_better is one step, as
`LzssEncoder` looks into it. The coders share `read`, the position of the file.

*Sim6502, LlSim.* A program is a sequence of instructions, `Exec` does one on a
record of registers and memory; `Run` of LlSim adds branches over pieces of the
program (`IfSet`), loops (`Loop`) and the calls of the monitor that print. What differs from a 6502 is kept: sbc sets its
carry without the borrow, adc sets V with C, pla leaves the flags alone.
Subroutines of `ll_sim.c` are pieces of the same name; main is a
step per label, and a step per dot that is drawn. `Picture` and `Lights` are the
C functions of the file (`hplot_good`, `y_to_addr`) that state what a dot is; they
serve as the reference for the program in instructions.

*Ll6502.* `text_buf` of the decoder is the ring `R` and what follows it in memory,
zp_save and disk_buff. `Drawn` leaves anything in the zero page, `Read` anything
in disk_buff.

`Bug_...` definitions are the definition that follows them with a plausible
mistake; they show that each property notices one.

## Runs

### Passing

| Run | Properties | Instance |
|---|---|---|
| `codec` | TypeOK, RoundTrip, WindowAgrees, PairInWindow, ImplementsByteCopy, Delivered | all files of up to 6 of 3 bytes, ring of 4, pairs of up to 2, every legal choice of pairs |
| `encoder` | TypeOK, CodeBufFits, LinksAgree, TreesFindable, WindowIsText, MatchFound, LongestMatch, NoStaleString, Terminates | 3-bit bytes, ring of 16, matches up to 4: all short files, cyclic files that go around the ring, files that crowd one tree in all orders, and files that come back to the byte the ring is cleared with |
| `pipeline` | LogoCopied, CodecPerformed, LogoPrinted | the same sizes, 38 ports, short and cyclic files; files with the fill byte for ports with a prepared ring |
| `num_to_ascii` | DigitsRight, BufferFits, DividesByTen | words of 12 bits, every number a port's buffer has room for |
| `find_string` | LineKept, FieldGrabbed, FieldComplete | every port; files with another line before, keys and colons behind, white space; files without the key; files that fill the buffer |
| `text` | TextShown, Centered, LinesEnded, ReachesExit | every port, 16 columns; chips' names of 1 to 16 letters where the port can print them; 1, 2, 4, 5 processors |
| `sstrip` | ImageKept, Smallest, StatusTells, SecondTimeSame, Terminates | two files, given once each or one of them twice; executables with one or two entries and up to 3 cells behind them, segments of up to 6 cells, pages of 4, truncatezeros looking at 2 cells at a time; files that are no executables; both byte orders; every system call may fail |
| `ansi_compress` | RleReadBack, OldLongestMatch, OldRoundTrip, StatusComplete | all files of up to 3 pieces (runs, sequences of one to three numbers); runs of 255 (rle_two: 127); four files of 900 bytes that go around a ring of 512 and have repeating strings, and one that comes back to the fill byte; an rle_two with 2 rows and 6 cells, to see it run over; each fopen may fail |
| `ll_sim` | PictureRight, TextShown, Finishes | the real memory and texts of the real lengths; logos of two pieces (colours, characters, pairs) after a first line; eight lines that go around the ring; a line as wide as the screen; ROMs of seven machines |

The bounds are enough because what can go wrong happens inside them: the files
go around the ring more than once, trees get nodes with two children and
nodes replaced by equal strings, groups fill up exactly at the end of a file,
pairs overlap themselves; 12-bit words leave 16 when divided by 20 as 32-bit words
do, on which the multiplication by a rounded tenth depends; lines reach 79,
80 and 81 columns (scaled: 15, 16, 17); the trees of the older compressor get
nodes with two children that leave the window; sstrip takes several turns of
its loop over zeros, cuts inside a page and before one, and fails between any
two writes; the picture needs columns beyond 255 and lines on either side of the
last third of the screen.

`pipeline` is the refinement: whatever the encoder wrote, the decoder of
each port performs steps of `LzssCodec`, whose pairs are valid by definition
and which copies the file. Both are proved for all sizes, below.

### Violations: where the code and its documents differ

Each of these runs states what a comment or a rule says, and fails; the
findings in `PROJECT.json` quote the lines.

| Run | What happens |
|---|---|
| `native_segments` | a loaded segment whose bytes were all in the file loses zeros at its end, and its entry keeps the old size, unless sstrip swaps bytes |
| `longest_of_window` | of equal strings before the file only the farthest stays in a tree, and they are lost for later matches when it leaves the window |
| `zero_page` | the first decoded byte of the Apple II port is stored over the first saved cell of the zero page |

Further differences were met while the models were written. For those of the
ports the MC modules define inputs; the configuration of a run above,
with its `Jobs` (or `Texts`) replaced by the one named, shows each.

| Jobs | Property | What happens |
|---|---|---|
| `Thumb2Jobs` | ArbitraryInt | on thumb2 num_to_ascii does not "work for arbitrary 32-bit int" (COMPARISON_RULES:70): the multiplication has no correction (`ll.thumb2.s:528`) |
| `S390Jobs` | SearchEnds | s390 and ia64 search on behind the file for an absent key (`ll.s390.s:507`) |
| `LongArm` | Centered | lines that are too long are not left alone, but given an absurd shift (`ll.arm.eabi.s:447`) |
| `LongAvr32` | ReachesExit | or are printed without end (`ll.avr32.s:520`) |
| `SixCpus` | TextShown | there is no "Many" on i386: the table of words is read behind its end (`ll.i386.s:417`) |
| `I386FillJobs` | LogoCopied | a `text_buf` on the stack is not "pre-done" with NULs (`ll.i386.s:230`) |
| `M68kFillJobs` | LogoCopied | a logo that begins with a pair is copied with a count in which an unset register is summed up (`ll.m68k.s:261`) |
| `I386LogoJobs` with `LogoTexts` | EndNoticed | a full last group takes ports that test for equality past `logo_end` (`ll.i386.s:255`) |
| `PpcVleJobs` | LogoPrinted | the load of the end of the logo is commented out (`ll.ppc-vle.s:230`) |
| `CdqJobs`, `GlibcJobs` | ArbitraryInt | a sign is extended before an unsigned division (`ll.i386.s:710`); a buffer of seven digits (`c/ll_glibc.c:72`) |
| `Sh3Jobs` | LineKept | an absent key costs the line its last character (`ll.sh3.s:475`) |
| `EmptyJobs` | FieldGrabbed | an empty field brings the next line of the file (`ll.vax.s:501`; on microblaze, since `skip_spaces` skips linefeeds) |
| `NoHost` | TextShown | a host without a name prints the end of the line before again (`ll.m68k.s:544`; also arm, arm64, avr32, parisc, thumb) |
| `LongArm64` | Centered | the beginning of the escape sequence is out before the length is known (`ll.arm64.s:550`; also crisv32, m68k, pdp11, s390, thumb, vax, z80) |
| `LongMips16` | Centered | only lines of exactly 80 columns are left alone (`ll.mips16.s:563`) |
| `LongIa64` | TextShown | a line that is too long is not printed (`ll.ia64.s:621`) |
| `OneWord` | TextShown | the second of "the first two words in the name field" is of the next field (`ll.i386.s:462`) |
| `PartRam` | TextShown | RAM is not "rounded by adc" (`ll.arm64.s:455`, and most ports) |
| `LittleMips` | LinesEnded | a halfword stored on a little-endian MIPS puts the NUL before the linefeed (`ll.mips.s:484`) |

The passing runs give each port the inputs it is good for, so each of these is
an input excluded there, and a hazard in PROJECT.json that is about such an input
has no property but a note that names the table's row: `GoodJobs` of `MCNumToAscii`, `Careful` and `Gaps` of
`MCFindString`, the last line of a logo in `MCLlSim`, the runs of
`MCAnsiCompress`, `Counts`, `Rams`, `Hosts` and `Chips` of `MCLlText`, `FillJobs`
of `MCLogoPipeline`. In the other programs:

- rle_one writes a run of more than 255 as a number no byte holds, and rle_two
  one of 128 or more as the code of a sequence (`ansi_compress.c:87`, `:197`;
  line 22 says that "_any_ logo" can be used); a sequence without a number, such
  as `ESC[m`, comes out as another one. rle_two writes behind its table and its
  buffer when they are full; the model stops there, at `overrun`.
- an empty file makes lzss_encode return before it writes `logo_end:`
  (`lzss.c:161`), and lzss_encode_better likewise.
- in `ll_sim.c`, characters behind the last sequence or linefeed are never drawn;
  COUNT wraps in runs of more than 85 characters; a sequence without an `m` is
  searched for beyond the text; lines of more than 40 columns are printed from
  behind their end (`:608`); the test for the end of the logo misses it when the
  low byte of the pointer wraps first (`:776`).
- in `ll_6502.s` the loops that save and restore the zero page move $17 cells,
  not the 16 of one comment nor the 24 of another (`:161`, `:172`), so $FF is
  lost; the pointer OUTPUT is overwritten before it is saved.
- sstrip reads the program header table from behind the ELF header, wherever
  `e_phoff` says it is (`sstrip.c:191`), and exits with success at the first file
  without a signature (`:74`).

Outside the models: microblaze, micromips and mips16 exit
with 5 and the riscv ports with 2, where COMPARISON_RULES:52 asks for 0.

## Fairness and termination

The only fairness is weak fairness of the whole next-state relation: a
sequential program that can run on does, since the kernel schedules it. No
single action is assumed fair. For sstrip this means that a system call returns,
with or without an error. `AnsiCompress` and `LlSim` state no fairness and no
liveness; that the program of the simulator ends is the safety property
`Finishes`, a bound on its steps. Deadlock is not checked where programs end;
`LlSim` ends in a step that changes nothing, and is checked for it.

## What is proved

`LzssCodecProofs`, for every ring size, match limit, threshold, alphabet and set
of files (assuming only that the ring is longer than a match and that files
are sequences of bytes):

- `TypeCorrect`: the type invariant;
- `RoundTripHolds`: what has been decoded is a prefix of the file;
- `WindowHolds`: each cell an encoder may name holds the byte it saw there;
- `PairStaysInWindow`: a pair in progress stays a match, and inside the window;
- `CodecImplementsByteCopy`: the codec refines the byte copy.

RoundTrip alone is not inductive: that a pair delivers the right bytes
depends on the cells it reads. The inductive invariant `IInv` adds
`WindowAgrees`, which relates each cell to the position of the file at its
distance behind the write position, and `PairInWindow`, which says that the rest
of a pair in progress is still a match as the window moves. `codec` checks
the parts of `IInv` first. The proof rests on lemmas about distances in a ring.

`LzssEncoderProofs` and `LzssOrderProofs`, for every number of bits in a byte, every ring size and match limit that fit the format, and
every file:

- `TypeCorrect`: arrays and registers keep their ranges;
- `GroupFitsBuffer`: code_buf never overflows;
- `WindowFollowsText`: text_buf shows the bytes around the place coded, across the
  end of the ring and in the cells repeated behind it;
- `LinksKept`: the links of the trees agree, and never lead out of them;
- `StringsFresh`: no string is left in a tree when its bytes are overwritten;
- `MatchesFound`: every match coded is one, of exactly the length coded;
- `TreesFound`: a search finds every string that is in a tree;
- `LongestFound`: no string of the window, but for those before the file that
  `longest_of_window` shows to be lost, agrees with more bytes than the match.

So all safety properties of the run `encoder` hold for all sizes and files.
There are five inductive invariants, each on top of the ones before.
`ScanInv` adds to the types where s, r, i, read and len stand to each other in
every loop, which bits the flags in code_buf have (for a group to be full exactly
when mask wraps), and which byte of the file each cell has. `TreeInv` adds
what holds inside a call: that p is in the tree of the string inserted, that q is
on the right edge of the left subtree of s, which strings may be in the trees at
each place (`Members`), and a rank of the nodes that grows downwards. Without
the rank, s might be its own descendant and DeleteNode would tie a cycle;
links that agree do not exclude it. `MatchInv` says that match_position and
match_length belong together while the tree is searched; Encode overwrites
match_length, so it also says that InsertNode runs again before the next unit.

`OrderInv` says that the trees are search trees. That each string compares as
its parent's side asks is not enough, since it has to do so with all its
ancestors; so there are bounds `lo` and `hi` for each node, the nearest ancestors to
the left and to the right, and a string lies between those of its node (`Ordered`).
Inside InsertNode the node belongs where the walk stands, and every string on the
other side of a turn differs from it by a byte already compared (`Parted`). Inside
DeleteNode the walk has only turned right, so its end is the last string before
s (`Descended`), which is why it may take the place of s. `Distinct` says that no
string is in a tree twice. From `Ordered`, a search never leaves the path to
the string it looks for, and the rank, which can be chosen below N, bounds its
length. The lemmas `LeafOrder`, `ReplaceOrder`, `NarrowOrder` and `MoveOrder` find
the new bounds for each change of the pointers.

`LongestInv` says which strings may be missing from the trees: every string of
the window is equal to one in a tree that will leave the window no sooner than
it does (`Covers`). Of the strings before the file this holds up to F bytes before
it, because Prime inserts backwards (`Stay`); Prime's last string stands for
all others, as they are all of FrequentChar (`FillersSame`). With `Parted`, whatever
differs from each string of the trees within match_length bytes differs so
from the whole window. That `Stay` is needed was found by the attempt to prove
the comment of InsertNode as it stands; `longest_of_window` is the
counterexample.

About numbers the proofs use `SizeAssumption` and `PowerAssumption`, both evaluated
by the run. `PowerAssumption` is the recursion of `2^u` for the bits of a pair, and
says that the third and fourth powers of a byte's range are products; the provers
do not know powers. Where a proof needs induction, it takes the least number
of a set of counterexamples, from the well-foundedness of Nat.

`LogoPipelineProofs`, for the same sizes and every set of files and ports with
`JobsSuit`:

- `PipelinePerformsCodec`: what the encoder writes, the decoder of a port reads
  as steps of `LzssCodec`;
- `PipelineCopiesLogo`: so the port writes the file, byte by byte in order. The two
  temporal formulas say it of every step, before and after the assembler.

`JobsSuit` says that a port whose ring, or whose counting register, is not cleared
gets a file without the byte the ring is cleared with, and a port that writes
carriage returns one without them. It is what `I386FillJobs` and `M68kFillJobs`
above violate; `MCLogoPipeline` evaluates it for the files and ports of the run.
The widths of registers, the tests for the end and the ways to count are all those
of `LzssDecoder`.

The invariants meet in a set G of places of the logo: a place is an index into
it, the index of the flags that apply, how many of them are used up, and the
number of bytes of the file that come before. `CodingInv` says that the encoder
puts units there, so that G is closed under reading one unit and going on to the
place behind it, up to the frontier where code_buf ends (`CodedBy`). When the file
is finished, so is G (`Parsed`), and the encoder is forgotten: `DecodingInv` says
that the port is at a place of G between units, and that the rest of a unit leads
there (`At`). It carries along the invariant of `LzssCodec`, `IInv`, under the
substitution of the refinement, for a ring that is prepared or not (`Cleared`,
`Plain`).

`NumToAsciiProofs`, for every word size that leaves 16 when divided by 20 (all
even powers of two from 16 on):

- `DivisionsExact`: every division step leaves `n \div 10`, under the
  assumption `Served`, that the port without a correction is given numbers
  below a quarter of the word. The argument: with Word = 20j+16 the rounded
  tenth is 2j+2, its product with 10 is Word+4, so for n = 10q+r the error
  4q+r(2j+2) stays below Word if q is small; the corrected port subtracts
  n \div (Word/4), which is at most 3, and the error is at least 0 again. The
  numbers only shrink, which is the invariant.
- `DigitsWritten`: what is written out denotes the number, without a superfluous
  zero, under `Served` and `Fitting`, that the number has no more digits than the
  buffer has room for.
- `DigitsFit`: no digit is stored outside the buffer, under the same assumptions.

The invariant `DigitsInv` says what the digits found so far denote: for the
ports that divide, read behind what is left of the number, they give the number;
for those that subtract, they are the number divided by the next power of ten.
`Denoted` is a recursive function; that it exists and how a digit before or behind
the others changes it are lemmas. `TensAssumption` is the recursion of `10^k`.

`FindStringProofs`, for every size of `disk_buffer`, every file and every way of
searching that `Ports` of `FindString` allows:

- `LineKeptHolds`: the line composed before the call is kept, under the
  assumption `Keeping`, that no port deletes a character when it finds nothing
  (sh3 does). The invariant `KeepInv` adds that the port stays the same, that the
  pointer stays a position, and that the line is a sequence; each action then
  leaves the line alone or appends one byte to it.
- `GrabsField`: each port appends the bytes of the field, in order, one at a
  time, and no others, for the files of `JobsSuit`: what surrounds the colon is
  white space to this port, the field does not begin with such a byte, what ends the field is a character the port
  stops at, or disk_buffer is full there, and a port that copies a first character
  untested finds one. These are the lines of cpuinfo a port was written for;
  `Gaps`, `Careful` and `EmptyJobs` of `MCFindString` are about the others.

FieldGrabbed speaks of the line alone. The invariant `GrabInv` says at each label
where the pointer is (`Reached`) relative to the first key, the colon behind it, and
the first and last byte of the field (`Layout`): in find_loop not behind the key,
while tabs and spaces are skipped not behind the field, and while bytes are stored
as far into the field as the line has grown. Without the key no port leaves
find_loop but for the end.

`LlTextProofs`, for every page of three lines, machine, way of centering and
printing with `JobsSuit`, every screen width and size of out_buffer:

- `ShowsText`: each line of the screen shows what the rules ask its calls for;
- `CentersLines`: it is in the middle, to two columns, or left alone when it is too
  long;
- `EndsLines`: it ends with a linefeed if another follows.

`JobsSuit` is about the page and the machine, call by call: each call appends what
the rules ask for, no text contains a NUL but at the end of a line, only the last
call may store a linefeed behind the line, what a port counts beside the visible
letters is what its minuend allows for, no line is too long for a port that cannot
leave it alone, and the first two lines get their linefeed from the page,
center_and_print or write_stdout. The machines and ports of the table above violate
one of these each. `MCLlText` evaluates it for all jobs of the run.

The properties are about the screen, while the hazard is in the buffer, which
still holds the logo and earlier lines. The invariant `TextInv` says that the cells
from `start` on hold what the calls up to `at` have appended, piece by piece
(`ComposeInv`), and that once the last call is done, a NUL, or a linefeed and a
NUL, are behind it (`Closed`); that what write_stdout would write is the line with
a linefeed more, a NUL less, or as it is (`Printed`), and the shift the one
computed from its true length (`Placed`), whether the port scans for the NUL or
subtracts pointers; and that all rows printed are such (`ScreenInv`). `RoomLeft`
is why the third line still fits where a port composes it behind the second.
`FlattenSeq` and `Visible` are recursive functions; `Pieces` and `Seeing` are the
functions they choose, which the lemma `StepsExist` shows to exist.


`SstripProofs`, for every command line, all files, failures and sizes:

- `StatusTold`: when sstrip ends with success, each file of the command line was
  stripped, or the current one has no signature; when it ends with failure, one
  failed. StatusTells speaks of the end alone; the invariant `IInv` adds
  `FailuresCounted` (without a failure, each file before the current one is
  stripped) and `Running` (what arg, pc and status are in between). A file given
  twice may be stripped and fail later, which is why a failure takes it out of
  `stripped`. The only assumption is that command lines are sequences of names.

For the files it proves, under the hypothesis `UsualDisks` that the table of each executable lies
directly behind its header:

- `ImagesKept`: whatever fails, and between any two writes, each file loads into
  the memory it loaded into before (if bytes are not swapped, as long as the
  end stays inside its page);
- `StrippedSmallest`: a stripped file ends in its last cell that is not zero or
  with its table, and no section is referred to;
- `SecondTurnKeeps`: a second turn never changes a stripped file.

The invariant `FilesInv` has a part for each thing a later step relies on.
`HeadersRead`: the headers in memory are those of the file, but for the changes
modifyheaders has made and not yet written. `SizeRight`: newsize is at most the
largest end m of a segment or of the table, and up to m the file has only
zeros behind newsize. `AllSettled`: a stripped file ends in a cell that is not
zero or in its table, refers to nothing behind, and reducing its segments changes
nothing, so that reading it again finds nothing to do. `NoneBehind`: in a second
turn nothing is left to cut off. `ImageSafe` is the property itself, between
the writes as well, with the types it needs. The argument for it: what is cut off, or no longer mapped, are
zeros, and the loader fills with zeros up to the end of a page, so the two
images agree as far as a page is filled.

The hypothesis cannot be dropped: readphdrtable reads where the header ends and
writes back to where e_phoff says, so another layout would destroy the file.
`MCSstrip` evaluates it for the files of the run.

## Only model-checked

- that find_string ends with the whole field (`FieldComplete`, an eventuality);
- `AnsiCompress` with `Rle` and `OldLzss`, and the simulator with its program, whose
  modules have recursive operators;
- all liveness (`Delivered`, the two `Terminates`, `ReachesExit`, `LogoPrinted`): leads-to
  and fairness are outside the reach of the prover.

A type invariant is stated where it is more than a list of ranges, for the codec
and the encoder.

## Not modelled

- RiSC (a 16-bit machine without bytes; its own strings and system calls),
  8051 (decoder commented out) and the text of ppc-vle (work in progress);
- of the Apple II, the drawing and text of `ll_6502.s` (they are those of
  `ll_sim.c`, with find_string), its processor detection, and findstring_sim.c, a
  walk through a disk catalogue of the host whose reads are not tested; of the
  simulator plp, php, bpl and bload, which the program does not use, and what
  prints for debugging;
- the SNES program beyond its record in `Ports`, and the picture tools;
- the 16-bit Linux demonstration, the build files, the paper;
- errors of open and read, which the ports do not test; registers that
  outlive a call; the bytes behind `disk_buffer` and `out_buffer`;
- constant offsets of the riscv ports, which the assembler cannot check.

## Plan

1. (done) `ByteCopy`, `LzssCodec` and its proofs; `LzssWire`, `LzssEncoder`,
   `LzssDecoder`, `Ports`, `LogoPipeline`; `FindString`, `NumToAscii` and first proofs
   about them, `LlText`, `TextPorts`.
2. (done) `Rle`, `OldLzss`, `AnsiCompress`.
3. (done) `Sim6502`, `LlSim`, `Ll6502`.
4. (done) `Sstrip` and a first proof about it.
5. `RiscLl`, the 16-bit port with its own strings; `SnesLl` and ansi_to_tile, if
   their state is more than registers.
6. (done) Proofs about all the compressor does, about the digits, and about the
   files of sstrip.
7. (done) Proofs: what `FindString` copies; that encoder and decoder together
   refine `LzssCodec` and `ByteCopy`, for all ports; what `LlText` prints, and where.
8. Proofs about `Rle`, whose text is read back by recursion.
