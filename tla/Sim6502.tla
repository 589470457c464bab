------------------------------ MODULE Sim6502 -------------------------------
(***************************************************************************)
(* sim.c: the 6502 as the simulators of the Apple II port have it.  A      *)
(* state of the machine is a record; an instruction is a tuple of its name,*)
(* its addressing mode and its operand, and Exec does one.                 *)
(*                                                                         *)
(* It is the simulator that is modelled, not the chip: indirect addressing *)
(* does not add Y, adc sets V with C, pla leaves the flags alone, and the  *)
(* carry of sbc does not look at the borrow.  mem has the cells written so *)
(* far; the others are 0.                                                  *)
(***************************************************************************)
EXTENDS Integers, Sequences, Bitwise, TLC

Byte == 0..255
Addresses == 0..65535

\* p is the set of the flags that are set.
Flags == {"C", "Z", "V", "N"}

Peek(m, addr) == IF addr \in DOMAIN m THEN m[addr] ELSE 0

Poke(m, addr, b) ==
  IF addr \in DOMAIN m THEN [m EXCEPT ![addr] = b] ELSE (addr :> b) @@ m

Reset(m) == [a |-> 0, x |-> 0, y |-> 0, p |-> {}, sp |-> 256, mem |-> m]

high(v) == (v \div 256) % 256
low(v) == v % 256

Word(s, addr) == Peek(s.mem, addr) + 256 * Peek(s.mem, addr + 1)

\* Where the operand v of the mode is.
Address(s, mode, v) ==
  CASE mode = "MEM" -> v
    [] mode = "INY" -> Word(s, v)
    [] mode = "PLX" -> v + s.x
    [] mode = "ZX"  -> (v + s.x) % 256

Operand(s, mode, v) ==
  CASE mode = "IMM" -> v
    [] mode = "ACC" -> s.a
    [] OTHER -> Peek(s.mem, Address(s, mode, v))

\* The flags in on set, the other ones of those in which cleared.
Set(s, which, on) == [s EXCEPT !.p = (@ \ which) \cup (on \cap which)]

\* update_zero and update_negative.
ZN(b) == (IF b = 0 THEN {"Z"} ELSE {}) \cup (IF b >= 128 THEN {"N"} ELSE {})
Updated(s, b) == Set(s, {"Z", "N"}, ZN(b))

If(flag, condition) == IF condition THEN {flag} ELSE {}
Carry(s) == IF "C" \in s.p THEN 1 ELSE 0

\* Stores the result of a shift or of inc and dec where its operand was.
Stored(s, mode, v, b) ==
  Updated(IF mode = "ACC" THEN [s EXCEPT !.a = b]
          ELSE [s EXCEPT !.mem = Poke(@, Address(s, mode, v), b)], b)

InA(s, b) == Updated([s EXCEPT !.a = b], b)
InX(s, b) == Updated([s EXCEPT !.x = b], b)
InY(s, b) == Updated([s EXCEPT !.y = b], b)

adc(s, m) ==
  LET sum == s.a + m + Carry(s)
  IN InA(Set(s, {"C", "V"}, IF sum > 255 THEN {"C", "V"} ELSE {}), sum % 256)

\* "A-M-!C->A,C", with the carry of A-M.
sbc(s, m) == InA(Set(s, {"C"}, If("C", s.a >= m)), (s.a - m - (1 - Carry(s))) % 256)

Compare(s, register, m) ==
  Set(Updated(s, (register - m) % 256), {"C"}, If("C", register >= m))

bit(s, m) ==
  Set(s, {"N", "V", "Z"}, If("N", m >= 128) \cup If("V", (m \div 64) % 2 = 1)
                            \cup If("Z", (s.a & m) = 0))

lsr(s, mode, v) ==
  LET m == Operand(s, mode, v)
  IN Set(Stored(s, mode, v, m \div 2), {"C", "N"}, If("C", m % 2 = 1))

ror(s, mode, v) ==
  LET m == Operand(s, mode, v)
  IN Set(Stored(s, mode, v, (m \div 2) + 128 * Carry(s)), {"C"}, If("C", m % 2 = 1))

asl(s, mode, v) ==
  LET m == Operand(s, mode, v)
  IN Set(Stored(s, mode, v, (2 * m) % 256), {"C"}, If("C", m >= 128))

inc(s, mode, v) == Stored(s, mode, v, (Operand(s, mode, v) + 1) % 256)
dec(s, mode, v) == Stored(s, mode, v, (Operand(s, mode, v) - 1) % 256)

Store(s, mode, v, b) == [s EXCEPT !.mem = Poke(@, Address(s, mode, v), b)]

pha(s) == [s EXCEPT !.mem = Poke(@, s.sp, s.a), !.sp = @ - 1]
pla(s) == [s EXCEPT !.a = Peek(s.mem, s.sp + 1), !.sp = @ + 1]

\* Instructions of each mode.
MEM(op, v) == << op, "MEM", v >>
IMM(op, v) == << op, "IMM", v >>
INY(op, v) == << op, "INY", v >>
PLX(op, v) == << op, "PLX", v >>
ZX(op, v)  == << op, "ZX", v >>
ACC(op)    == << op, "ACC", 0 >>
Op(op)     == << op, "IMM", 0 >>

\* The instruction i of the simulators' programs.
Exec(s, i) ==
  LET op == i[1]
      mode == i[2]
      v == i[3]
      m == Operand(s, mode, v)
  IN CASE op = "lda" -> InA(s, m)        [] op = "sta" -> Store(s, mode, v, s.a)
       [] op = "ldx" -> InX(s, m)        [] op = "stx" -> Store(s, mode, v, s.x)
       [] op = "ldy" -> InY(s, m)        [] op = "sty" -> Store(s, mode, v, s.y)
       [] op = "adc" -> adc(s, m)        [] op = "sbc" -> sbc(s, m)
       [] op = "and" -> InA(s, s.a & m)  [] op = "ora" -> InA(s, s.a | m)
       [] op = "eor" -> InA(s, s.a ^^ m) [] op = "bit" -> bit(s, m)
       [] op = "cmp" -> Compare(s, s.a, m) [] op = "cpx" -> Compare(s, s.x, m)
       [] op = "lsr" -> lsr(s, mode, v)  [] op = "ror" -> ror(s, mode, v)
       [] op = "asl" -> asl(s, mode, v)
       [] op = "inc" -> inc(s, mode, v)  [] op = "dec" -> dec(s, mode, v)
       [] op = "inx" -> InX(s, (s.x + 1) % 256)
       [] op = "dex" -> InX(s, (s.x - 1) % 256)
       [] op = "tax" -> InX(s, s.a)      [] op = "txa" -> InA(s, s.x)
       [] op = "tay" -> InY(s, s.a)      [] op = "tya" -> InA(s, s.y)
       [] op = "pha" -> pha(s)           [] op = "pla" -> pla(s)
       [] op = "clc" -> Set(s, {"C"}, {}) [] op = "sec" -> Set(s, {"C"}, {"C"})

\* Whether the branch is taken.
bcs(s) == "C" \in s.p
bcc(s) == ~bcs(s)
beq(s) == "Z" \in s.p
bne(s) == ~beq(s)
bmi(s) == "N" \in s.p
=============================================================================
