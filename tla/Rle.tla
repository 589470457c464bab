-------------------------------- MODULE Rle ---------------------------------
(***************************************************************************)
(* rle_one and rle_two of ansi_compress.c: the run-length coders of an     *)
(* ANSI file.  Both take the file apart in the same way, with the gotos    *)
(* their labels are kept for here, and differ in what they make of a run   *)
(* and of an escape sequence: rle_two numbers the different sequences.     *)
(* A step is what is done between two tests of a character.                *)
(***************************************************************************)
EXTENDS Integers, SequencesExt

CONSTANTS
  bufsize,      \* cells of rle_two's buffer
  TableSize     \* and rows of its ansi_table

ANSI_SIZE == 8
ESC == 27
EOF == -1
Bracket == 91                   \* '['
Semicolon == 59                 \* ';'
IsDigit(c) == c \in 48..57      \* '0' to '9'

VARIABLES
  coder,        \* "rle_one" or "rle_two"
  ansi, read,   \* the file, and how many of its bytes are read
  ch, oldchar, run,
  temp,         \* the characters of each number of the escape sequence
  ansi_table,   \* the rows in use
  out,          \* rle_one: the values written; rle_two: buffer, then those
  byte_count,
  rle           \* the label the coder is at

rleVars == << coder, ansi, read, ch, oldchar, run, temp, ansi_table, out,
              byte_count, rle >>

\* The next byte but k; fgetc reads one, and then none any more.
Peek(k) == IF read + k < Len(ansi) THEN ansi[read + k + 1] ELSE EOF
Advance(k) == read' = IF read + k <= Len(ansi) THEN read + k ELSE Len(ansi)
fgetc == ch' = Peek(0) /\ Advance(1)

RleInit(c, text) ==
  /\ coder = c
  /\ ansi = text
  /\ read = 0
  /\ ch = 0 /\ oldchar = 0 /\ run = 0
  /\ temp = << >>
  /\ ansi_table = << >>
  /\ out = << >>
  /\ byte_count = 0
  /\ rle = "loop_w_read"

Scanning == UNCHANGED << coder, ansi, oldchar, run, temp, ansi_table, out, byte_count >>

loop_w_read ==
  /\ rle = "loop_w_read"
  /\ fgetc
  /\ rle' = "loop_no_read"
  /\ Scanning

\* The character behind ESC is skipped, whatever it is.
loop_no_read ==
  /\ rle = "loop_no_read"
  /\ ch # EOF
  /\ IF ch = ESC
       THEN /\ fgetc
            /\ temp' = << >>
            /\ rle' = "number"
            /\ UNCHANGED << coder, ansi, oldchar, run, ansi_table, out, byte_count >>
       ELSE /\ run' = 1
            /\ rle' = "run_loop"
            /\ UNCHANGED << coder, ansi, read, ch, oldchar, temp, ansi_table, out, byte_count >>

\* A run goes into a byte of rle_two's buffer; rle_one prints it in decimal,
\* and the assembler keeps its low byte.
RunBytes == IF coder = "rle_one" THEN << ch, run % 256 >> ELSE << run % 256, ch >>

Overrun == coder = "rle_two" /\ Len(out) + 2 > bufsize

run_loop ==
  /\ rle = "run_loop"
  /\ fgetc
  /\ oldchar' = ch
  /\ \/ /\ ch' = ch
        /\ run' = run + 1
        /\ UNCHANGED << rle, out, byte_count >>
     \/ /\ ch' # ch /\ ~Overrun
        /\ out' = out \o RunBytes
        /\ byte_count' = IF coder = "rle_one" THEN byte_count + 2 ELSE byte_count
        /\ rle' = "loop_no_read"
        /\ UNCHANGED run
     \/ ch' # ch /\ Overrun /\ rle' = "overrun" /\ UNCHANGED << run, out, byte_count >>
  /\ UNCHANGED << coder, ansi, temp, ansi_table >>

\* The first character of a number is taken without a test.
number ==
  /\ rle = "number"
  /\ temp' = Append(temp, << Peek(0) >>)
  /\ ch' = Peek(1)
  /\ Advance(2)
  /\ byte_count' = IF coder = "rle_one" THEN byte_count + 1 ELSE byte_count
  /\ rle' = "digits"
  /\ UNCHANGED << coder, ansi, oldchar, run, ansi_table, out >>

digits ==
  /\ rle = "digits"
  /\ \/ /\ IsDigit(ch)
        /\ temp' = [temp EXCEPT ![Len(temp)] = Append(@, ch)]
        /\ fgetc
        /\ UNCHANGED rle
     \/ /\ ch = Semicolon
        /\ rle' = "number"
        /\ UNCHANGED << temp, read, ch >>
  /\ UNCHANGED << coder, ansi, oldchar, run, ansi_table, out, byte_count >>

-----------------------------------------------------------------------------
(* The end of an escape sequence, at the character in ch.                  *)

Ends == rle = "digits" /\ ~IsDigit(ch) /\ ch # Semicolon

NumberIn(base, cs) == FoldLeft(LAMBDA v, c : v * base + c - 48, 0, cs)
Decimal(cs) == NumberIn(10, cs)

\* rle_one prints the characters, for the assembler to make a byte of: it
\* takes a number that begins with a zero for an octal one, and what is not a
\* number makes no byte.
Assembled(cs) ==
  LET base == IF Len(cs) > 1 /\ cs[1] = 48 THEN 8 ELSE 10
  IN  IF \A k \in DOMAIN cs : cs[k] \in 48 .. 47 + base
        THEN NumberIn(base, cs) % 256 ELSE -1

escape_one ==
  /\ Ends
  /\ coder = "rle_one"
  /\ out' = out \o << ESC, Len(temp) >> \o [k \in DOMAIN temp |-> Assembled(temp[k])]
                \o << ch % 256 >>
  /\ byte_count' = byte_count + 3
  /\ rle' = "loop_w_read"
  /\ UNCHANGED << coder, ansi, read, ch, oldchar, run, temp, ansi_table >>

\* The numbers, zeros, the character that ended them in the cell behind the
\* last one, and how many there are in the last cell.
temp_ansi ==
  [ j \in 1..ANSI_SIZE |->
      IF j = ANSI_SIZE THEN Len(temp)
      ELSE IF j <= Len(temp) THEN Decimal(temp[j]) % 256
      ELSE IF j = Len(temp) + 1 THEN ch % 256 ELSE 0 ]

Bug_Known(row) == { i \in DOMAIN ansi_table : ansi_table[i][1] = row[1] }

\* The table's first row with these cells.
Known(row) == { i \in DOMAIN ansi_table : ansi_table[i] = row }
First(S) == CHOOSE i \in S : \A j \in S : i <= j

\* More numbers than cells, or a new sequence or a code more than there is
\* room for, are written behind the arrays.
escape_two ==
  /\ Ends
  /\ coder = "rle_two"
  /\ LET known == Known(temp_ansi)
         fits == /\ Len(temp) < ANSI_SIZE
                 /\ known # {} \/ Len(ansi_table) < TableSize
                 /\ Len(out) < bufsize
     IN \/ /\ fits /\ known # {}
           /\ out' = Append(out, (First(known) - 1 + 128) % 256)
           /\ rle' = "loop_w_read"
           /\ UNCHANGED ansi_table
        \/ /\ fits /\ known = {}
           /\ out' = Append(out, (Len(ansi_table) + 128) % 256)
           /\ ansi_table' = Append(ansi_table, temp_ansi)
           /\ rle' = "loop_w_read"
        \/ ~fits /\ rle' = "overrun" /\ UNCHANGED << out, ansi_table >>
  /\ UNCHANGED << coder, ansi, read, ch, oldchar, run, temp, byte_count >>

\* rle_two writes the table and its buffer now.
finished ==
  /\ rle = "loop_no_read"
  /\ ch = EOF
  /\ LET written == IF coder = "rle_one" THEN out
                    ELSE << Len(ansi_table) >> \o FlattenSeq(ansi_table) \o out
     IN out' = written \o << 0, 0 >>
  /\ byte_count' = IF coder = "rle_one" THEN byte_count + 2
                   ELSE 1 + ANSI_SIZE * Len(ansi_table) + Len(out) + 2
  /\ rle' = "finished"
  /\ UNCHANGED << coder, ansi, read, ch, oldchar, run, temp, ansi_table >>

RleNext ==
  \/ loop_w_read \/ loop_no_read \/ run_loop \/ number \/ digits
  \/ escape_one \/ escape_two \/ finished

-----------------------------------------------------------------------------
(* The formats read back.                                                  *)

Digits(v) ==
  (IF v > 99 THEN << 48 + (v \div 100) >> ELSE << >>)
    \o (IF v > 9 THEN << 48 + ((v \div 10) % 10) >> ELSE << >>) \o << 48 + (v % 10) >>

\* An escape sequence of these numbers, with separators, and its end.
Escape(numbers, end) ==
  << ESC, Bracket >>
    \o FlattenSeq([k \in DOMAIN numbers |-> (IF k = 1 THEN << >> ELSE << Semicolon >>)
                                         \o Digits(numbers[k])]) \o << end >>

Repeat(c, n) == [k \in 1..n |-> c]

\* logo.inc, from byte k on, as the comment at the head of the file has it:
\* 0,0 ends it, and the numbers behind an ESC are counted.
RECURSIVE OneShows(_, _)
OneShows(b, k) ==
  IF b[k] = ESC
    THEN LET last == k + 1 + b[k + 1]
         IN Escape(SubSeq(b, k + 2, last), b[last + 1]) \o OneShows(b, last + 2)
  ELSE IF b[k] = 0 /\ b[k + 1] = 0 THEN << >>
  ELSE Repeat(b[k], b[k + 1]) \o OneShows(b, k + 2)

\* rle_two's codes from byte k on: rows of the table from 128, runs below.
RECURSIVE TwoShows(_, _)
TwoShows(b, k) ==
  IF b[k] >= 128
    THEN LET row == SubSeq(b, (b[k] - 128) * ANSI_SIZE + 2, (b[k] - 127) * ANSI_SIZE + 1)
             count == row[ANSI_SIZE]
         IN Escape(SubSeq(row, 1, count), row[count + 1]) \o TwoShows(b, k + 1)
  ELSE IF b[k] = 0 THEN << >>
  ELSE Repeat(b[k + 1], b[k]) \o TwoShows(b, k + 2)

Shows == IF coder = "rle_one" THEN OneShows(out, 1)
         ELSE TwoShows(out, out[1] * ANSI_SIZE + 2)

=============================================================================
