---------------------------- MODULE LzssDecoder -----------------------------
(***************************************************************************)
(* The logo decoder at the head of every port of ll, from                  *)
(* decompression_loop to done_logo.                                        *)
(*                                                                         *)
(* All ports run the algorithm of Decode in lzss.c and share its labels.   *)
(* They differ in how they notice the end of the logo, in how they count   *)
(* the eight flags of a group, in how the match length gets into the       *)
(* counting register, in where text_buf lies, and in the line ends they    *)
(* write.  A port is a record of these choices; module Ports has one for   *)
(* each source file.  A step of the model is a pass through the code       *)
(* between two of the labels.                                              *)
(***************************************************************************)
EXTENDS LzssWire

CONSTANTS
  Linefeed, CarriageReturn,     \* the bytes 10 and 13
  Garbage                       \* what uninitialised memory may hold

VARIABLES
  port,         \* the choices of the port that runs
  file,         \* the bytes between logo and logo_end
  src,          \* the logo pointer: the number of the next byte of file
  flags,        \* the register with the flags of the group
  units,        \* the units of the group to come, in ports that count them
  pos,          \* the 16-bit register with the match position
  count,        \* the register with the bytes of the unit to be written
  r,            \* where text_buf is written next
  text_buf,     \* the ring buffer
  out,          \* out_buffer, up to the output pointer
  pc            \* the label reached

vars == <<port, file, src, flags, units, pos, count, r, text_buf, out, pc>>

-----------------------------------------------------------------------------
\* How a port sees that src is at logo_end.
EndTests == {
  "at",         \* the pointers are equal
  "past",       \* the pointer is not below logo_end
  "before",     \* likewise, but also before a group is begun
  "unset" }     \* likewise, but logo_end was never loaded

\* How it sees that the flags of a group are used up.
FlagCounters == {
  "ones",       \* a byte of ones above the flags, until it is shifted out
  "bit",        \* the same byte, of which the lowest bit is looked at
  "over",       \* the same byte, and the register is compared with 0x100
  "isff",       \* the same byte, until all of it has become the flags
  "top",        \* one bit, 15, until it is shifted into the flags
  "one",        \* one bit, 8, until it is the only one left
  "inverted",   \* the flags inverted, under ones, until the top is empty
  "carry",      \* likewise, seen in the carry of a shift
  "counted" }   \* a count of eight

\* How the length of a unit gets into the counting register.
LengthCounters == {
  "set",        \* it is loaded
  "low",        \* its low byte is loaded, the rest is taken to be zero
  "inc",        \* likewise for a pair; for a literal it is incremented
  "mem",        \* loaded for a pair, incremented for a literal
  "dbf" }       \* added for a pair, zero for a literal; stops below zero

Traits == [ends : EndTests, flags : FlagCounters, length : LengthCounters,
           cleared : BOOLEAN, crlf : BOOLEAN]

Words == 0 .. ByteValues * ByteValues - 1
LogoEnd == Len(file) + 1

-----------------------------------------------------------------------------
\* The flags register when the byte b has been loaded.
LoadedFlags(b) ==
  CASE port.flags \in {"ones", "bit", "over", "isff"} ->
         (ByteValues - 1) * ByteValues + b
    [] port.flags = "top" -> (ByteValues * ByteValues) \div 2 + b
    [] port.flags = "one" -> ByteValues + b
    [] port.flags \in {"inverted", "carry"} -> ByteValues^4 - 1 - b
    [] port.flags = "counted" -> b

\* Whether its lowest flag announces a literal.
SaysLiteral(f) == (f % 2 = 1) # (port.flags \in {"inverted", "carry"})

\* After a unit: whether there are more flags in the register f, k being the
\* count of ports that have one.
MoreFlags(f, k) ==
  CASE port.flags = "ones" -> f \div ByteValues # 0
    [] port.flags = "bit" -> (f \div ByteValues) % 2 = 1
    [] port.flags = "over" -> f > ByteValues
    [] port.flags = "isff" -> f # ByteValues - 1
    [] port.flags = "top" -> f > ByteValues - 1
    [] port.flags = "one" -> f >= 2
    [] port.flags = "inverted" -> f \div ByteValues^3 # 0
    [] port.flags = "carry" -> (f \div ByteValues^3) % 2 = 1
    [] port.flags = "counted" -> k > 0

\* Definitions named Bug_... are variants of the definition that follows them
\* with a mistake in it.  They are used to see that the properties notice.
\* Here the pointer has to be beyond logo_end.
Bug_AtEndStrict ==
  CASE port.ends = "at" -> src = LogoEnd
    [] port.ends \in {"past", "before"} -> src > LogoEnd
    [] port.ends = "unset" -> TRUE

\* Whether test_flags leaves for done_logo.
AtEnd ==
  CASE port.ends = "at" -> src = LogoEnd
    [] port.ends \in {"past", "before"} -> src >= LogoEnd
    [] port.ends = "unset" -> TRUE

\* The counting register for one literal, and for a pair of length n.
LiteralCount ==
  CASE port.length \in {"set", "low"} -> 1
    [] port.length \in {"inc", "mem"} -> count + 1
    [] port.length = "dbf" -> 0

PairCount(n) ==
  CASE port.length \in {"set", "mem"} -> n
    [] port.length \in {"low", "inc"} ->
         count - (count % ByteValues) + (n % ByteValues)
    [] port.length = "dbf" -> (count + n) % (ByteValues * ByteValues)

\* The register after a byte, and whether that was the last byte of a unit.
Decremented(k) == (k - 1) % (ByteValues * ByteValues)
UnitDone(k) ==
  IF port.length = "dbf" THEN k = ByteValues * ByteValues - 1 ELSE k = 0

\* How many bytes are to come, with k in the register.
BytesLeft(k) ==
  IF port.length = "dbf" THEN (k + 1) % (ByteValues * ByteValues) ELSE k

-----------------------------------------------------------------------------
\* The bss of a program is zero.  A text_buf on the stack, behind a program of
\* DOS or CP/M, or in plain RAM is not, nor is what Linux leaves in %d1 of the
\* m68k.  The other registers are cleared, by Linux or by the port; the upper
\* half of %d4 on the m68k is taken to be, too.
Prepared ==
  /\ src = 1
  /\ flags = 0
  /\ units = 0
  /\ pos = 0
  /\ count \in IF port.length = "dbf" THEN Garbage ELSE {0}
  /\ r = N - F
  /\ \E g \in IF port.cleared THEN {0} ELSE Garbage :
       text_buf = [x \in 0 .. N-1 |-> g]
  /\ out = << >>
  /\ pc = "start"

\* The program that holds the logo is loaded.
Load(logo) ==
  /\ pc = "start"
  /\ file' = logo
  /\ pc' = "decompression_loop"
  /\ UNCHANGED <<port, src, flags, units, pos, count, r, text_buf, out>>

-----------------------------------------------------------------------------
\* A byte of flags is loaded.  Beyond logo_end it is whatever lies there.
LoadFlags ==
  /\ pc = "decompression_loop"
  /\ ~(port.ends = "before" /\ AtEnd)
  /\ \E b \in IF src < LogoEnd THEN {file[src]} ELSE Byte :
       flags' = LoadedFlags(b)
  /\ units' = ByteBits
  /\ src' = src + 1
  /\ pc' = "test_flags"
  /\ UNCHANGED <<port, file, pos, count, r, text_buf, out>>

\* The end of the logo is seen.
Finish ==
  /\ \/ pc = "test_flags"
     \/ pc = "decompression_loop" /\ port.ends = "before"
  /\ AtEnd
  /\ pc' = "done_logo"
  /\ UNCHANGED <<port, file, src, flags, units, pos, count, r, text_buf, out>>

\* The pointer is beyond logo_end and goes on.  What is decoded from there on
\* is not the logo, and the model does not follow it.
RunPast ==
  /\ pc = "test_flags"
  /\ ~AtEnd
  /\ src > LogoEnd
  /\ pc' = "lost"
  /\ UNCHANGED <<port, file, src, flags, units, pos, count, r, text_buf, out>>

\* store_byte, with b in the byte register, k in the counting register, and f
\* and u what is left of the flags, to the end of the loop.
StoreByte(b, k, f, u) ==
  /\ out' = out \o (IF port.crlf /\ b = Linefeed
                      THEN <<CarriageReturn, b>> ELSE <<b>>)
  /\ text_buf' = [text_buf EXCEPT ![r] = b]
  /\ r' = (r + 1) % N
  /\ count' = Decremented(k)
  /\ IF UnitDone(count')
       THEN /\ units' = u - 1
            /\ pc' = IF MoreFlags(f, u - 1) THEN "test_flags"
                                            ELSE "decompression_loop"
       ELSE /\ units' = u
            /\ pc' = "output_loop"

\* A literal: it is loaded, and stored once.
DiscreteChar ==
  /\ pc = "test_flags"
  /\ ~AtEnd /\ src < LogoEnd
  /\ SaysLiteral(flags)
  /\ flags' = flags \div 2
  /\ StoreByte(file[src], LiteralCount, flags', units)
  /\ src' = src + 1
  /\ UNCHANGED <<port, file, pos>>

\* A pair: position and length are taken apart.
OffsetLength ==
  /\ pc = "test_flags"
  /\ ~AtEnd /\ src + 1 < LogoEnd
  /\ ~SaysLiteral(flags)
  /\ flags' = flags \div 2
  /\ LET w == file[src] + ByteValues * file[src + 1]
     IN  /\ pos' = w
         /\ count' = PairCount(PairLength(w))
  /\ src' = src + 2
  /\ pc' = "output_loop"
  /\ UNCHANGED <<port, file, units, r, text_buf, out>>

\* A byte of the pair: the position is masked before each load.
OutputLoop ==
  /\ pc = "output_loop"
  /\ pos' = PairPosition(pos) + 1
  /\ StoreByte(text_buf[PairPosition(pos)], count, flags, units)
  /\ UNCHANGED <<port, file, src, flags>>

Next ==
  \/ LoadFlags \/ Finish \/ RunPast
  \/ DiscreteChar \/ OffsetLength \/ OutputLoop

=============================================================================
