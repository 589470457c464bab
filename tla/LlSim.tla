------------------------------- MODULE LlSim --------------------------------
(***************************************************************************)
(* ll_sim.c: the Apple II port of ll, written as 6502 instructions and run *)
(* by the simulator of module Sim6502.  It decompresses the logo, draws it *)
(* in blocks of three dots by eight lines on the hi-res page, and prints   *)
(* the lines about the machine centered.                                   *)
(*                                                                         *)
(* A subroutine is a piece of the program, put where it is called; in main *)
(* a step is what is between two labels.  The variables of the parts share the    *)
(* cells of the zero page, so their addresses are kept.                    *)
(***************************************************************************)
EXTENDS Sim6502, FiniteSetsExt

CONSTANTS
  Starts,     \* a compressed logo, and what the ROM holds at the addresses that
              \* tell machines apart: the simulator's has zeros there
  version, one, nmos, cmos, processor, ram, apple   \* the texts, without NUL

\* Where things are in memory ...
LOGO == 4096
R == 6656
OUTPUT == 16384
VERSION == 3840
ONE == 3888
NMOS == 3904
CMOS == 3920
PROCESSOR == 3936
RAM == 3952
APPLE == 3968

\* ... and in the zero page, where those of the logo, of the drawing and of
\* the text overlap.
LOGOH == 255
LOGOL == 254
OUTPUTH == 253
OUTPUTL == 252
STORERL == 250
LOADRH == 249
LOADRL == 248
EFFECTRH == 247
EFFECTRL == 246
MSELECT == 245
COUNT == 244
OUT_COUNT == 243
QUOTIENT == 255
REMAINDER == 254
DIVISORH == 251
DIVISORL == 250
DIVIDENDH == 249
DIVIDENDL == 248
YADDRH == 247
YADDRL == 246
APPLEY == 245
COLOR == 243
APPLEXH == 242
APPLEXL == 241
MASK == 240
BLOCK == 239
HGRPNTH == 236
HGRPNTL == 235
STRCATL == 248
RAMSIZE == 247
NUM2 == 243
TYPE == 240
CPU == 239

VARIABLES
  logo,      \* the compressed logo in memory
  cpu,       \* the machine
  pc,        \* the label of main
  printed,   \* the lines of text on the screen
  steps      \* how many steps main has taken

vars == << logo, cpu, pc, printed, steps >>

-----------------------------------------------------------------------------
(* A piece of the program is a sequence of instructions, of branches over  *)
(* pieces and of loops; Run does it.                                       *)

\* One piece when the flag is set, and another one when it is not.
IfSet(flag, yes, no) == << "if", flag, yes, no >>

\* test and body in turn, until the flag is set after test.
Loop(test, flag, body) == << "loop", test, flag, body >>

\* The calls of the monitor that print: a character, and x blanks.
jsr_cout1 == Op("jsr_cout1")
jsr_prblnk == Op("jsr_prblnk")

RECURSIVE Run(_, _)
Run(s, code) ==
  IF code = << >> THEN s
  ELSE LET i == Head(code)
           rest == Tail(code)
       IN CASE i[1] = "if" -> Run(Run(s, IF i[2] \in s.p THEN i[3] ELSE i[4]), rest)
            [] i[1] = "loop" ->
                 LET t == Run(s, i[2])
                 IN IF i[3] \in t.p THEN Run(t, rest) ELSE Run(Run(t, i[4]), code)
            [] i = jsr_cout1 -> Run([s EXCEPT !.line = Append(@, s.a)], rest)
            [] i = jsr_prblnk -> Run([s EXCEPT !.line = @ \o [k \in 1..s.x |-> 32]], rest)
            [] OTHER -> Run(Exec(s, i), rest)

inc16 == << PLX("inc", 0), IfSet("Z", << Op("inx"), PLX("inc", 0) >>, << >>) >>

jsr_inc16(p) == << IMM("ldx", p) >> \o inc16

jsr_inc_pointer == << MEM("inc", OUTPUTL), IfSet("Z", << MEM("inc", OUTPUTH) >>, << >>) >>

\* Address p of the zero page and the next one, set to the address v.
Pointer(p, v) ==
  << IMM("lda", high(v)), MEM("sta", p + 1), IMM("lda", low(v)), MEM("sta", p) >>

\* Without the carry.
Bug_Add16(p, b) == << Op("clc"), MEM("lda", p), IMM("adc", b), MEM("sta", p) >>

\* Adds b to the 16 bit number at p.
Add16(p, b) ==
  << Op("clc"), MEM("lda", p), IMM("adc", b), MEM("sta", p),
     MEM("lda", p + 1), IMM("adc", 0), MEM("sta", p + 1) >>

\* Subtracts the divisor.
Subtract ==
  << Op("sec"), MEM("lda", DIVIDENDL), MEM("sbc", DIVISORL), MEM("sta", DIVIDENDL) >>
SubtractHigh == << MEM("lda", DIVIDENDH), MEM("sbc", DIVISORH), MEM("sta", DIVIDENDH) >>
CountIn == << MEM("lda", QUOTIENT), IMM("ora", 1), MEM("sta", QUOTIENT) >>

SetRemainder == << MEM("lda", DIVIDENDL), MEM("sta", REMAINDER) >>

\* A turn of div7: the low bytes are compared when the high ones are equal.
div7_loop ==
  << MEM("asl", QUOTIENT), MEM("lda", DIVIDENDH), MEM("cmp", DIVISORH),
     IfSet("C", << IfSet("Z", << MEM("lda", DIVIDENDL), MEM("cmp", DIVISORL) >>, << >>) >>,
           << >>),
     IfSet("C", Subtract \o SubtractHigh \o CountIn, << >>),
     Op("clc"), MEM("ror", DIVISORH), MEM("ror", DIVISORL),
     MEM("lda", DIVISORL), IMM("cmp", 3) >>

\* The divisor starts as 7 * 2^6.
div7 ==
  << MEM("sty", QUOTIENT) >> \o Pointer(DIVISORL, 448)
    \o << Loop(div7_loop, "Z", << >>) >> \o SetRemainder

div10_loop ==
  << MEM("asl", QUOTIENT), MEM("lda", DIVIDENDL), MEM("cmp", DIVISORL),
     IfSet("C", Subtract \o CountIn, << >>),
     Op("clc"), MEM("ror", DIVISORL), MEM("lda", DIVISORL), IMM("cmp", 5) >>

div10 ==
  << MEM("sty", QUOTIENT), IMM("lda", 160), MEM("sta", DIVISORL),
     Loop(div10_loop, "Z", << >>) >> \o SetRemainder

-----------------------------------------------------------------------------
(* Drawing.                                                                *)

\* What is left of the line's number in its group of 64, and the offset of
\* the group.
ThirdOf ==
  << MEM("lda", APPLEY), IMM("cmp", 64),
     IfSet("C", << IMM("cmp", 128),
                   IfSet("C", << IMM("ldx", 80), Op("sec"), IMM("sbc", 128) >>,
                              << IMM("ldx", 40), Op("sec"), IMM("sbc", 64) >>) >>,
                << IMM("ldx", 0) >>) >>

jsr_y_to_addr ==
  << MEM("lda", APPLEY), IMM("and", 7), ACC("asl"), ACC("asl"),
     Op("clc"), IMM("adc", 32), MEM("sta", YADDRH), MEM("sty", YADDRL) >>
    \o ThirdOf
    \o << ACC("lsr"), ACC("lsr"), ACC("lsr"), ACC("lsr"),
          IfSet("C", << Op("pha"), Op("clc"), MEM("lda", YADDRL), IMM("adc", 128),
                        MEM("sta", YADDRL), Op("pla") >>, << >>),
          MEM("adc", YADDRH), MEM("sta", YADDRH),
          Op("clc"), Op("txa"), MEM("adc", YADDRL), MEM("sta", YADDRL) >>

make_mask ==
  << IMM("lda", 1), MEM("ldx", REMAINDER),
     Loop(<< >>, "Z", << ACC("asl"), Op("dex") >>), MEM("sta", MASK) >>

\* The eight lines of a block are 1k apart.
make_blocky ==
  << INY("sta", HGRPNTL), Op("pha"), Op("clc"), MEM("lda", HGRPNTH),
     IMM("adc", 4), MEM("sta", HGRPNTH), Op("pla"), Op("dex") >>

\* Odd dots show bit 1 of the colour, even ones bit 0.
ColorTest ==
  << IMM("lda", 1), MEM("bit", APPLEXL),
     IfSet("Z", << IMM("lda", 1) >>, << IMM("lda", 2) >>), MEM("bit", COLOR) >>

clear_bit == << MEM("lda", MASK), IMM("eor", 255), MEM("and", BLOCK) >>
set_bit == << MEM("lda", MASK), MEM("ora", BLOCK) >>

jsr_hplot ==
  << MEM("lda", APPLEXH), MEM("sta", DIVIDENDH),
     MEM("lda", APPLEXL), MEM("sta", DIVIDENDL) >> \o div7 \o make_mask
    \o << MEM("lda", YADDRH), MEM("sta", HGRPNTH), MEM("lda", YADDRL), MEM("sta", HGRPNTL),
          Op("clc"), MEM("adc", QUOTIENT), MEM("sta", HGRPNTL),
          MEM("lda", HGRPNTH), IMM("adc", 0), MEM("sta", HGRPNTH),
          INY("lda", HGRPNTL), MEM("sta", BLOCK) >>
    \o ColorTest
    \o << IfSet("Z", clear_bit, set_bit), IMM("ora", 128), MEM("sta", BLOCK), IMM("ldx", 8),
          Loop(make_blocky, "Z", << >>) >>

\* A turn of jsr_flush_line's loop: a dot, and the next column.
flush_loop == jsr_hplot \o Add16(APPLEXL, 1) \o << MEM("dec", COUNT) >>

-----------------------------------------------------------------------------
(* Text.                                                                   *)

jsr_strcat ==
  << Loop(<< INY("lda", STRCATL), INY("sta", OUTPUTL) >>, "Z",
          jsr_inc16(STRCATL) \o jsr_inc_pointer) >>

jsr_reset_output == Pointer(OUTPUTL, OUTPUT)

jsr_strlen ==
  jsr_reset_output
    \o << MEM("sty", COUNT),
          Loop(<< INY("lda", OUTPUTL) >>, "Z",
               << MEM("inc", COUNT) >> \o jsr_inc_pointer) >>

print_loop ==
  << MEM("ldx", COUNT),
     Loop(<< INY("lda", OUTPUTL), jsr_cout1 >> \o jsr_inc_pointer \o << Op("dex") >>,
          "Z", << >>) >>

\* Prints from behind the line.
Bug_center_and_print ==
  jsr_strlen
    \o << Op("sec"), IMM("lda", 40), MEM("sbc", COUNT), ACC("lsr"), Op("tax"), jsr_prblnk >>
    \o print_loop

\* A line too long to center is printed from where jsr_strlen left the
\* pointer.
jsr_center_and_print ==
  jsr_strlen
    \o << Op("sec"), IMM("lda", 40), MEM("sbc", COUNT),
          IfSet("N", << >>, << ACC("lsr"), Op("tax"), jsr_prblnk >> \o jsr_reset_output) >>
    \o print_loop

\* The digits, from NUM2 down ...
div_loop ==
  div10 \o << Op("clc"), IMM("lda", 48), MEM("adc", REMAINDER), ZX("sta", 0),
              Op("dex"), MEM("lda", QUOTIENT), MEM("sta", DIVIDENDL) >>

\* ... and up again to the output, with the cell behind them.
store_loop == << Op("inx"), ZX("lda", 0), INY("sta", OUTPUTL), IMM("cpx", NUM2 + 1) >>

jsr_num_to_ascii ==
  << IMM("ldx", NUM2), MEM("lda", RAMSIZE), MEM("sta", DIVIDENDL),
     Loop(div_loop, "Z", << >>), Loop(store_loop, "Z", jsr_inc_pointer) >>

Found(type, size) ==
  << IMM("lda", type), MEM("sta", TYPE), IMM("lda", size), MEM("sta", RAMSIZE) >>

apple_iic_or_e ==
  << MEM("lda", 64448),
     IfSet("Z", Found(99, 128),
           << IMM("cmp", 224),
              IfSet("Z", << IMM("lda", 1), MEM("sta", CPU),
                            IMM("lda", 128), MEM("sta", RAMSIZE) >>, << >>) >>) >>

apple_iiplus_or_iii ==
  << MEM("lda", 64286), IMM("cmp", 138), IfSet("Z", Found(73, 48), Found(43, 48)) >>

jsr_get_sysinfo ==
  Found(101, 64)
    \o << IMM("lda", 0), MEM("sta", CPU), MEM("lda", 64435), IMM("cmp", 56),
          IfSet("Z", << IMM("lda", 32), MEM("sta", TYPE) >>,
                << IMM("cmp", 234), IfSet("Z", apple_iiplus_or_iii, apple_iic_or_e) >>) >>

-----------------------------------------------------------------------------
(* What the logo stands for: the text, from its compressed form.           *)

Threshold == 2
RingSize == 1024
FirstCell == RingSize - 64

\* Cell c of the ring when the text was written to it.
Ring(text, c) ==
  LET at == { i \in DOMAIN text : (FirstCell + i - 1) % RingSize = c }
  IN IF at = {} THEN 0 ELSE text[CHOOSE i \in at : \A j \in at : j <= i]

RECURSIVE Copied(_, _, _)
Copied(text, c, n) ==
  IF n = 0 THEN text
  ELSE Copied(Append(text, Ring(text, c)), (c + 1) % RingSize, n - 1)

\* The text of the units from byte k on, left of which belong to the flags.
RECURSIVE Plain(_, _, _, _, _)
Plain(bytes, k, flags, left, text) ==
  IF k > Len(bytes) THEN text
  ELSE IF left = 0 THEN Plain(bytes, k + 1, bytes[k], 8, text)
  ELSE IF flags % 2 = 1
    THEN Plain(bytes, k + 1, flags \div 2, left - 1, Append(text, bytes[k]))
  ELSE Plain(bytes, k + 2, flags \div 2, left - 1,
             Copied(text, bytes[k] + 256 * (bytes[k + 1] % 4),
                    (bytes[k + 1] \div 4) + Threshold + 1))

-----------------------------------------------------------------------------
(* main.                                                                   *)

copy_logo(m, bytes, addr) ==
  [a \in addr..(addr + Len(bytes) - 1) |-> bytes[a - addr + 1]] @@ m

Init ==
  /\ \E start \in Starts :
       /\ logo = start.logo
       /\ cpu = Run([line |-> << >>] @@ Reset(copy_logo(start.rom, logo, LOGO)),
                    Pointer(LOGOL, LOGO) \o Pointer(OUTPUTL, OUTPUT)
                      \o Pointer(STORERL, FirstCell) \o << IMM("ldy", 0) >>)
  /\ pc = "decompression_loop"
  /\ printed = << >>
  /\ steps = 0

Go(next, s) ==
  /\ cpu' = s
  /\ pc' = next
  /\ steps' = steps + 1
  /\ UNCHANGED << logo, printed >>

NextLogoByte == << INY("lda", LOGOL) >> \o jsr_inc16(LOGOL)

decompression_loop ==
  /\ pc = "decompression_loop"
  /\ Go("test_flags",
        Run(cpu, << IMM("lda", 8), MEM("sta", COUNT), INY("lda", LOGOL),
                    MEM("sta", MSELECT) >> \o jsr_inc16(LOGOL)))

LogoEnd == LOGO + Len(logo)

\* Compares for equality, as most ports do.
Bug_test_flags ==
  /\ pc = "test_flags"
  /\ LET s == Run(cpu, << MEM("lda", LOGOH), IMM("cmp", high(LogoEnd)) >>)
         t == Run(s, << MEM("lda", LOGOL), IMM("cmp", low(LogoEnd)) >>)
     IN Go(IF beq(s) /\ beq(t) THEN "done_logo" ELSE "not_match", t)

\* The end has been reached when neither byte of the pointer is below that
\* of the end.
test_flags ==
  /\ pc = "test_flags"
  /\ LET s == Run(cpu, << MEM("lda", LOGOH), IMM("cmp", high(LogoEnd)) >>)
         t == Run(s, << MEM("lda", LOGOL), IMM("cmp", low(LogoEnd)) >>)
     IN \/ bcc(s) /\ Go("not_match", s)
        \/ bcs(s) /\ bcc(t) /\ Go("not_match", t)
        \/ bcs(s) /\ bcs(t) /\ Go("done_logo", t)

not_match ==
  /\ pc = "not_match"
  /\ LET s == Run(cpu, << MEM("lsr", MSELECT) >>)
     IN \/ bcs(s) /\ Go("discrete_char", s)
        \/ bcc(s) /\ Go("output_loop",
             Run(s, NextLogoByte \o << MEM("sta", LOADRL) >> \o NextLogoByte
                      \o << MEM("sta", LOADRH), ACC("lsr"), ACC("lsr"), Op("clc"),
                            IMM("adc", 3), MEM("sta", OUT_COUNT) >>))

\* A pointer into the ring, wrapped, and the address of its cell.
Effective(p) ==
  << Op("clc"), MEM("lda", p), IMM("adc", low(R)), MEM("sta", EFFECTRL),
     MEM("lda", p + 1), IMM("and", 3), MEM("sta", p + 1),
     IMM("adc", high(R)), MEM("sta", EFFECTRH) >>

store_byte ==
  << INY("sta", OUTPUTL) >> \o jsr_inc16(OUTPUTL) \o << Op("pha") >> \o Effective(STORERL)
    \o << Op("pla"), INY("sta", EFFECTRL) >> \o jsr_inc16(STORERL)
    \o << MEM("dec", OUT_COUNT) >>

\* The byte the code leaves in A, stored; the loops whose turns are over.
Stores(code) ==
  LET s == Run(cpu, code \o store_byte)
      t == Run(s, << MEM("dec", COUNT) >>)
  IN \/ bne(s) /\ Go("output_loop", s)
     \/ beq(s) /\ bne(t) /\ Go("test_flags", t)
     \/ beq(s) /\ beq(t) /\ Go("decompression_loop", t)

output_loop ==
  /\ pc = "output_loop"
  /\ Stores(Effective(LOADRL) \o << INY("lda", EFFECTRL) >> \o jsr_inc16(LOADRL))

discrete_char ==
  /\ pc = "discrete_char"
  /\ Stores(NextLogoByte \o << IMM("ldx", 1), MEM("stx", OUT_COUNT) >>)

\* The next dot is at the left of the picture.
LineStart == << MEM("sty", APPLEXH), IMM("lda", 20), MEM("sta", APPLEXL) >>

done_logo ==
  /\ pc = "done_logo"
  /\ Go("rle_loop",
        Run(cpu, Pointer(OUTPUTL, OUTPUT)
                   \o << MEM("sty", COUNT), MEM("sty", COLOR),
                         IMM("lda", 64), MEM("sta", APPLEY) >>
                   \o LineStart \o jsr_y_to_addr))

\* The dots of the COUNT are drawn, a step for each, before an escape sequence
\* and before a new line.
jsr_flush_line ==
  /\ pc \in {"flush_escape", "flush_linefeed"}
  /\ LET s == Run(cpu, << MEM("lda", COUNT) >>)
     IN \/ bne(s) /\ Go(pc, Run(s, flush_loop))
        \/ beq(s) /\ Go(IF pc = "flush_escape" THEN "escape" ELSE "linefeed", s)

NextText == jsr_inc_pointer \o << INY("lda", OUTPUTL) >>

escape == pc = "escape" /\ Go("find_m", Run(cpu, NextText))

linefeed ==
  /\ pc = "linefeed"
  /\ Go("rle_loop",
        Run(cpu, jsr_inc_pointer \o LineStart
                   \o << Op("clc"), MEM("lda", APPLEY), IMM("adc", 8), MEM("sta", APPLEY) >>
                   \o jsr_y_to_addr))

rle_loop ==
  /\ pc = "rle_loop"
  /\ LET s == Run(cpu, << INY("lda", OUTPUTL) >>)
         t == Run(s, << MEM("ldx", COUNT) >>)
     IN \/ s.a = 0  /\ Go("rle_done", s)
        \/ s.a = 27 /\ Go(IF beq(t) THEN "escape" ELSE "flush_escape", t)
        \/ s.a = 10 /\ Go("flush_linefeed", s)
        \/ s.a \notin {0, 27, 10} /\
             Go("rle_loop",
                Run(s, << MEM("inc", COUNT), MEM("inc", COUNT), MEM("inc", COUNT) >>
                         \o jsr_inc_pointer))

\* The digit behind a 3 becomes a colour: 0 to 3 are doubled.
SetColor ==
  NextText
    \o << IMM("and", 7), ACC("asl"), IMM("cmp", 8), IfSet("N", << >>, << ACC("lsr") >>),
          IMM("and", 3), MEM("sta", COLOR) >>

find_m ==
  /\ pc = "find_m"
  /\ \/ cpu.a = 109 /\ Go("rle_loop", Run(cpu, jsr_inc_pointer))
     \/ cpu.a # 109 /\ Go("find_m", Run(cpu, (IF cpu.a = 51 THEN SetColor ELSE << >>)
                                               \o NextText))

WithNul(text) == Append(text, 0)

rle_done ==
  /\ pc = "rle_done"
  /\ LET m == copy_logo(copy_logo(copy_logo(copy_logo(copy_logo(copy_logo(copy_logo(cpu.mem,
                WithNul(version), VERSION), WithNul(one), ONE), WithNul(nmos), NMOS),
                WithNul(cmos), CMOS), WithNul(processor), PROCESSOR), WithNul(ram), RAM),
                WithNul(apple), APPLE)
     IN Go("version", Run([cpu EXCEPT !.mem = m], jsr_get_sysinfo))

\* The code puts the line together, which is printed.
PrintLine(code, next) ==
  LET s == Run(cpu, jsr_reset_output \o code \o jsr_center_and_print)
  IN /\ printed' = Append(printed, s.line)
     /\ cpu' = [s EXCEPT !.line = << >>]
     /\ pc' = next
     /\ steps' = steps + 1
     /\ UNCHANGED logo

Cat(text) == Pointer(STRCATL, text) \o jsr_strcat

VersionLine == pc = "version" /\ PrintLine(Cat(VERSION), "middle")

MiddleLine ==
  /\ pc = "middle"
  /\ PrintLine(Cat(ONE)
                 \o << MEM("lda", CPU),
                       IfSet("Z", Pointer(STRCATL, NMOS), Pointer(STRCATL, CMOS)) >>
                 \o jsr_strcat \o Cat(PROCESSOR) \o jsr_num_to_ascii \o Cat(RAM),
               "last")

LastLine ==
  /\ pc = "last"
  /\ PrintLine(Cat(APPLE)
                 \o << MEM("lda", TYPE), INY("sta", OUTPUTL) >> \o jsr_inc_pointer
                 \o << Op("tya"), INY("sta", OUTPUTL) >>,
               "return")

Returned == pc = "return" /\ UNCHANGED vars

Next ==
  \/ decompression_loop \/ test_flags \/ not_match \/ output_loop \/ discrete_char
  \/ done_logo \/ rle_loop \/ jsr_flush_line \/ escape \/ linefeed \/ find_m \/ rle_done
  \/ VersionLine \/ MiddleLine \/ LastLine \/ Returned

Spec == Init /\ [][Next]_vars

-----------------------------------------------------------------------------
(* What the screen should show, by the functions of the file written in C. *)

y_to_addr(y) ==
  8192 + (y % 8) * 1024
    + (IF y < 64 THEN (y \div 8) * 128
       ELSE IF y < 128 THEN ((y - 64) \div 8) * 128 + 40
       ELSE ((y - 128) \div 8) * 128 + 80)

\* Whether hplot_good lights the dot in column x for the colour.
Lights(x, color) == IF x % 2 = 1 THEN color >= 2 ELSE color % 2 = 1

\* A character: three dots wide and eight lines high.
Block(x, y, color) ==
  [x : x..(x + 2), y : y..(y + 7), color : {color}]

\* The colour of a foreground number, 3 and a digit; red is orange.
ColorOf(digit) == IF digit < 4 THEN (2 * digit) % 4 ELSE digit % 4

\* The escape sequence from k to e sets the colour when it has one.
ColorAfter(text, k, e, color) ==
  LET at == { j \in k..e : text[j] = 51 /\ text[j - 1] \in {91, 59} /\ j + 1 < e }
  IN IF at = {} THEN color
     ELSE ColorOf((text[(CHOOSE j \in at : \A i \in at : i <= j) + 1] - 48) % 8)

\* The dots of the text from k on, whose first one is at x and y.
RECURSIVE Dots(_, _, _, _, _)
Dots(text, k, x, y, color) ==
  IF k > Len(text) THEN {}
  ELSE IF text[k] = 27
    THEN LET e == CHOOSE j \in k..Len(text) :
                    text[j] = 109 /\ \A i \in k..(j - 1) : text[i] # 109
         IN Dots(text, e + 1, x, y, ColorAfter(text, k + 2, e, color))
  ELSE IF text[k] = 10 THEN Dots(text, k + 1, 20, y + 8, color)
  ELSE Block(x, y, color) \cup Dots(text, k + 1, x + 3, y, color)

\* The bytes of the screen with these dots, seven in a byte, and the palette
\* bit of each byte set.
Picture(dots) ==
  LET addr(d) == y_to_addr(d.y) + (d.x \div 7)
      lit(a) == { d.x % 7 : d \in { e \in dots : addr(e) = a /\ Lights(e.x, e.color) } }
  IN [a \in { addr(d) : d \in dots } |-> 128 + MapThenSumSet(LAMBDA b : 2 ^ b, lit(a))]

Screen == 8192..16383

LogoText == Plain(logo, 1, 0, 0, << >>)

(* When the logo is done each character of each of its lines is on the     *)
(* screen in its colour, as hplot_good would have drawn it, and nothing    *)
(* else is: through the decompression, the runs that are collected until   *)
(* the colour changes, and the cells the parts use after each other.       *)
PictureRight ==
  pc = "rle_done" =>
    [a \in { b \in DOMAIN cpu.mem : b \in Screen } |-> cpu.mem[a]]
      = Picture(Dots(LogoText, 1, 20, 64, 0))

Digits(v) ==
  (IF v > 99 THEN << 48 + (v \div 100) >> ELSE << >>)
    \o (IF v > 9 THEN << 48 + ((v \div 10) % 10) >> ELSE << >>) \o << 48 + (v % 10) >>

\* The type, the memory and whether it has the newer processor of a machine.
Machine(rom) ==
  CASE Peek(rom, 64435) = 56 -> [type |-> 32, size |-> 64, new |-> FALSE]
    [] Peek(rom, 64435) = 234 /\ Peek(rom, 64286) = 138 ->
         [type |-> 73, size |-> 48, new |-> FALSE]
    [] Peek(rom, 64435) = 234 /\ Peek(rom, 64286) # 138 ->
         [type |-> 43, size |-> 48, new |-> FALSE]
    [] OTHER -> CASE Peek(rom, 64448) = 0 -> [type |-> 99, size |-> 128, new |-> FALSE]
                  [] Peek(rom, 64448) = 224 -> [type |-> 101, size |-> 128, new |-> TRUE]
                  [] OTHER -> [type |-> 101, size |-> 64, new |-> FALSE]

Centered(line) == [k \in 1..((40 - Len(line)) \div 2) |-> 32] \o line

(* The three lines are those of the machine, each in the middle of the     *)
(* screen, and nothing of the longer line before is behind a shorter one.  *)
TextShown ==
  pc = "return" =>
    LET m == Machine(cpu.mem)
    IN printed =
         << Centered(version),
            Centered(one \o (IF m.new THEN cmos ELSE nmos) \o processor
                         \o Digits(m.size) \o ram),
            Centered(apple \o << m.type >>) >>

(* main gets to its end, and does not look for the end of the logo or of a *)
(* sequence behind it: the number of its steps is bounded by the length of *)
(* the logo and that of its text.                                          *)
Finishes == steps <= 2 * Len(logo) + 7 * Len(LogoText) + 10

=============================================================================
