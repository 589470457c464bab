----------------------------- MODULE NumToAscii -----------------------------
(***************************************************************************)
(* num_to_ascii, which every port has: an unsigned number becomes decimal  *)
(* digits.                                                                 *)
(*                                                                         *)
(* Most ports divide by ten and store the remainders downwards from the    *)
(* end of ascii_buffer; those of 8-bit processors subtract powers of ten.  *)
(* How a port divides, and how many digits its buffer is short of those of *)
(* the largest word, is a record; module TextPorts has one for each port.  *)
(* A division the code has no defined or no useful result for ends in the  *)
(* label "wrong".                                                          *)
(***************************************************************************)
EXTENDS Integers, Sequences

CONSTANTS
  Word,         \* one more than the largest word, a square
  Half,         \* likewise for half a word
  Places,       \* how many digits the largest word has
  Jobs          \* pairs of a port and a number it is given

ASSUME WordAssumption ==
  /\ Half \in Nat \ {0}
  /\ Word = Half * Half
  /\ Word % 20 = 16
  /\ Places \in Nat \ {0}
  /\ 10^(Places - 1) < Word
  /\ Word <= 10^Places

\* How powers are computed, as far as the proofs use it.
ASSUME TensAssumption ==
  /\ 10^0 = 1
  /\ \A k \in 0 .. Places-1 : 10^(k + 1) = 10 * 10^k

Words == 0 .. Word - 1

\* How a quotient by ten is found.
Methods == {
  "unsigned",           \* an exact division of words
  "signed",             \* of words that are taken to be signed
  "cdq",                \* of a signed word extended to two, by an unsigned
  "upward",             \* by signed comparison with 0, 10, 20, ...
  "reciprocal",         \* the upper word of the product with Word / 10
  "corrected",          \* likewise, of a slightly smaller number
  "steps",              \* by the bits of half a word
  "powers" }            \* not at all

Traits == [method : Methods, lacks : Nat]

ASSUME JobsAssumption == Jobs \subseteq Traits \X Words

VARIABLES
  port,         \* the choices of the port that runs
  value,        \* the number passed
  num,          \* what is left of it
  digits,       \* the digits stored, the most significant first
  power,        \* the power of ten to be subtracted
  pc            \* the label reached

vars == <<port, value, num, digits, power, pc>>

-----------------------------------------------------------------------------
\* The digits the buffer of the port has room for.
Room(p) == Places - p.lacks

\* The numbers the division is good for.
Divides(m, n) ==
  CASE m \in {"signed", "cdq"} -> 2 * n < Word
    [] m = "upward" -> 2 * (10 * (n \div 10) + 10) < Word
    [] m = "steps" -> n < 10 * Half
    [] OTHER -> TRUE

\* The word that stands for a tenth.
Tenth == (Word + 4) \div 10

\* The correction is left out.
Bug_QuotientUncorrected(m, n) ==
  IF m \in {"reciprocal", "corrected"}
    THEN (n * Tenth) \div Word
    ELSE n \div 10

Quotient(m, n) ==
  CASE m = "reciprocal" -> (n * Tenth) \div Word
    [] m = "corrected" -> ((n - n \div (Word \div 4)) * Tenth) \div Word
    [] OTHER -> n \div 10

-----------------------------------------------------------------------------
Init ==
  /\ \E job \in Jobs : port = job[1] /\ value = job[2]
  /\ num = value
  /\ digits = << >>
  /\ power = 10^(Places - 1)
  /\ pc = IF port.method = "powers" THEN "big_loop" ELSE "div_by_10"

\* The number is tested instead of the quotient.
Bug_DivBy10Late ==
  /\ pc = "div_by_10"
  /\ Divides(port.method, num)
  /\ LET q == Quotient(port.method, num)
     IN  /\ digits' = <<num - 10 * q>> \o digits
         /\ num' = q
         /\ pc' = IF num = 0 THEN "write_out" ELSE "div_by_10"
  /\ UNCHANGED <<port, value, power>>

\* A digit is stored before those already there, until the quotient is zero.
DivBy10 ==
  /\ pc = "div_by_10"
  /\ Divides(port.method, num)
  /\ LET q == Quotient(port.method, num)
     IN  /\ digits' = <<num - 10 * q>> \o digits
         /\ num' = q
         /\ pc' = IF q = 0 THEN "write_out" ELSE "div_by_10"
  /\ UNCHANGED <<port, value, power>>

\* The processor traps, or takes the number for a negative one.
DivideBadly ==
  /\ pc = "div_by_10"
  /\ ~Divides(port.method, num)
  /\ pc' = "wrong"
  /\ UNCHANGED <<port, value, num, digits, power>>

\* The zeros inside a number are not written either.
Bug_HandleDigitInnerZero ==
  /\ pc = "big_loop"
  /\ LET d == num \div power
     IN  /\ digits' = IF d = 0 /\ power # 1 THEN digits ELSE Append(digits, d)
         /\ num' = num % power
  /\ power' = power \div 10
  /\ pc' = IF power = 1 THEN "write_out" ELSE "big_loop"
  /\ UNCHANGED <<port, value>>

\* A power of ten is subtracted until that is one time too many, and added
\* again.  Leading zeros are not written, except the last digit.
HandleDigit ==
  /\ pc = "big_loop"
  /\ LET d == num \div power
     IN  /\ digits' = IF d = 0 /\ digits = << >> /\ power # 1
                        THEN digits ELSE Append(digits, d)
         /\ num' = num % power
  /\ power' = power \div 10
  /\ pc' = IF power = 1 THEN "write_out" ELSE "big_loop"
  /\ UNCHANGED <<port, value>>

Next == DivBy10 \/ DivideBadly \/ HandleDigit

Spec == Init /\ [][Next]_vars

-----------------------------------------------------------------------------
\* Only small numbers are divided without the correction.
Served ==
  \A job \in Jobs : job[1].method = "reciprocal" => 4 * job[2] < Word

\* The buffer has room for the digits of the number.
Fitting ==
  \A job \in Jobs : Room(job[1]) > 0 /\ job[2] < 10^Room(job[1])

\* The number that a sequence of digits denotes.
Denoted(ds) ==
  LET read[i \in 0 .. Len(ds)] ==
        IF i = 0 THEN 0 ELSE 10 * read[i - 1] + ds[i]
  IN  read[Len(ds)]

(***************************************************************************)
(* What write_out is given are digits, they denote the number, and there   *)
(* is no superfluous zero before it.                                       *)
(***************************************************************************)
DigitsRight ==
  pc = "write_out" =>
    /\ digits # << >>
    /\ digits \in Seq(0 .. 9)
    /\ Denoted(digits) = value
    /\ Len(digits) > 1 => Head(digits) # 0

(***************************************************************************)
(* The digits stay inside ascii_buffer.  They are stored downwards, so one *)
(* too many is written before its first byte.                              *)
(***************************************************************************)
BufferFits == Len(digits) <= Room(port)

(***************************************************************************)
(* Every step that finds a digit leaves a tenth of the number, whatever    *)
(* the way of dividing.                                                    *)
(***************************************************************************)
DividesByTen ==
  [][pc = "div_by_10" /\ pc' # "wrong" => num' = num \div 10]_vars

(***************************************************************************)
(* "should work for arbitrary 32-bit int" (COMPARISON_RULES, of            *)
(* num_to_ascii): no number is refused, printed wrong or stored outside    *)
(* the buffer.                                                             *)
(***************************************************************************)
ArbitraryInt ==
  /\ pc # "wrong"
  /\ DigitsRight
  /\ BufferFits

=============================================================================
