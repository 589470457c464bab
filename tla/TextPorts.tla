----------------------------- MODULE TextPorts ------------------------------
(***************************************************************************)
(* The ports of ll after the logo: three lines of text.  Four definitions  *)
(* stand for each source file, read off its code.                          *)
(*                                                                         *)
(*   Page_   the pieces of its lines, in the order of the calls            *)
(*   Find_   how its find_string searches and copies                       *)
(*   Print_  its center_and_print and write_stdout                         *)
(*   Num_    its num_to_ascii: how it divides, and how many digits its     *)
(*           buffer is short of those of the largest word                  *)
(***************************************************************************)
EXTENDS Naturals, Sequences

-----------------------------------------------------------------------------
\* The pieces of a line: a text of the program, a string of uname, what
\* find_string finds, and what is computed.
Text(t) == <<"text", t>>
Uname(s) == <<"uname", s>>
Find(field) == <<"find", field>>
Cpus(way) == <<"cpus", way>>           \* One, Two, ..., or the number itself
TwoWords(between) == <<"words", between>>  \* of the name of the chip
Plural == <<"plural", "s">>
Ram(way) == <<"ram", way>>
Behind(t) == <<"behind", t>>           \* stored, but not counted

NL == Text("nl")

\* uname's strings of the first line, and the last line.
Version ==
  <<Uname("sysname"), Text("Version"), Uname("release"), Text("Compiled"),
    Uname("version")>>
Host == <<Uname("nodename")>>

\* Most pages: what they begin with, and the middle line.
Page(first, middle) == <<Version \o first, middle, Host>>

\* The middle lines of ports that cannot count processors or find no clock.
OneChip ==
  <<Text("One"), Find("chip"), Text("Processor"), Ram("truncated"),
    Text("M RAM"), Find("bogo"), Text("Bogomips")>>
OneClockChip ==
  <<Text("One"), Find("mhz"), Text("MHz"), Find("chip"), Text("Processor"),
    Ram("truncated"), Text("M RAM"), Find("bogo"), Text("Bogomips")>>

\* RAM rounded, as the rules ask for.
Rounded(line) ==
  [i \in DOMAIN line |->
     IF line[i] = Ram("truncated") THEN Ram("rounded") ELSE line[i]]

\* The middle line of Linux on PCs.
PcLine(words, ram) ==
  <<Cpus("table"), Text("blank"), Find("mhz"), Text("MHz"), TwoWords(words),
    Text("Processor"), Plural, Ram(ram), Text("M RAM"), Find("bogo"),
    Text("Bogomips"), NL>>

\* Small machines.
KiloBytes(line) ==
  [i \in DOMAIN line |->
     IF line[i] = Ram("truncated") THEN Ram("kilobytes") ELSE line[i]]

\* A first line without uname.
Fixed(system) ==
  <<Text(system), Text("Version"), Text("2.2"), Text("Compiled"),
    Text("date")>>

-----------------------------------------------------------------------------
\* find_string: whether it sees the end of the file, whether it looks for the
\* colon up to the end of the file, what it skips behind the colon (one byte,
\* white space or nothing), what it takes for white space, what
\* besides the given character ends it, whether a first character is copied
\* untested, and what becomes of the line if there is no field.
UsualFind ==
  [eof |-> "nul", colon |-> "checked", skip |-> "one", white |-> {},
   stops |-> {"nul"}, first |-> "tested", absent |-> "nothing"]
UncheckedFind == [UsualFind EXCEPT !.colon = "unchecked"]

\* center_and_print: how a line's length is found; what it is subtracted
\* from; the greatest length that is centered; what happens to longer lines;
\* how half the rest is rounded; whether the escape sequence is put behind
\* the line; where the linefeed comes from; the byte at which write_stdout
\* begins to look for NUL; and whether the last line starts at the start of
\* the buffer.
UsualPrint ==
  [measure |-> "pointer", minuend |-> 80, largest |-> 80, over |-> "skip",
   halves |-> "down", escape |-> "apart", newline |-> "inside", scan |-> 0,
   rewinds |-> TRUE]
\* Lengths that include the linefeed, and are subtracted from 81.
Print81 == [UsualPrint EXCEPT !.minuend = 81, !.largest = 81]

Divide == [method |-> "unsigned", lacks |-> 0]

-----------------------------------------------------------------------------
\* The NUL stored with the first linefeed is passed, too, but the length is
\* scanned, and an empty string appended there.
Page_i386 == Page(<<NL>>, PcLine("stop", "rounded"))
Find_i386 ==
  [UsualFind EXCEPT !.skip = "white", !.white = {"blank"},
                    !.stops = {"nul", "nl"}]
Print_i386 ==
  [Print81 EXCEPT !.measure = "scan", !.largest = 80, !.over = "zero",
                  !.escape = "buffer", !.scan = 1]
Num_i386 == [Divide EXCEPT !.method = "cdq"]

Page_x86_64 == Page_i386
Find_x86_64 == Find_i386
Print_x86_64 == Print_i386
Num_x86_64 == Num_i386

Page_x86_x32 == Page_i386
Find_x86_x32 == Find_i386
Print_x86_x32 == Print_i386
Num_x86_x32 == Num_i386

Page_8086 ==
  <<<<Text("DOS"), Text("Version"), Text("6.22"), Text("Compiled")>>,
    KiloBytes(OneClockChip), <<Text("DOSBOX")>>>>
Find_8086 ==
  [UsualFind EXCEPT !.skip = "white", !.white = {"blank"},
                    !.stops = {"nul", "nl"}]
Print_8086 ==
  [UsualPrint EXCEPT !.measure = "scan", !.largest = 79, !.over = "zero",
                     !.newline = "stored"]
Num_8086 == Divide

Page_alpha ==
  Page(<< >>,
       <<Cpus("number"), Text("blank"), Find("mhz"), Text("MHz"), Find("chip"),
         Text("Processor"), Plural, Ram("truncated"), Text("M RAM"),
         Find("bogo"), Text("Bogomips")>>)
Find_alpha == UsualFind
Print_alpha == [UsualPrint EXCEPT !.largest = 79, !.newline = "after"]
Num_alpha == Divide

\* The NUL behind the linefeed is stored with it, and counted.
Page_arm_eabi == Page(<<NL, Text("nul")>>, Rounded(OneChip) \o <<NL>>)
Find_arm_eabi == [UncheckedFind EXCEPT !.stops = {}]
Print_arm_eabi ==
  [Print81 EXCEPT !.over = "wraps", !.halves = "up", !.scan = 1]
Num_arm_eabi == [Divide EXCEPT !.method = "corrected"]

Page_arm_oabi == Page_arm_eabi
Find_arm_oabi == Find_arm_eabi
Print_arm_oabi == Print_arm_eabi
Num_arm_oabi == [Divide EXCEPT !.method = "upward"]

Page_arm64 == Page(<<NL, Text("nul")>>, OneChip \o <<NL>>)
Find_arm64 == [UncheckedFind EXCEPT !.stops = {}]
Print_arm64 == [Print81 EXCEPT !.over = "dangling", !.scan = 1]
Num_arm64 == Divide

Page_1802 ==
  <<Fixed("VMWos") \o <<NL>>, KiloBytes(OneClockChip) \o <<NL>>,
    <<Text("host")>>>>
Find_1802 == [UncheckedFind EXCEPT !.stops = {}, !.first = "copied"]
Print_1802 == [Print81 EXCEPT !.over = "zero"]
Num_1802 == [Divide EXCEPT !.method = "powers"]

Page_avr32 ==
  Page(<<NL>>,
       <<Text("One"), Find("family"), Text("blank"), Find("chip"),
         Text("Processor"), Ram("rounded"), Text("M RAM"), Find("bogo"),
         Text("Bogomips"), NL>>)
Find_avr32 ==
  [UsualFind EXCEPT !.colon = "assumed", !.white = {"tab"},
                    !.stops = {"blank", "tab", "nl", "nul"}]
Print_avr32 == [Print81 EXCEPT !.over = "loops", !.halves = "up", !.scan = 1]
Num_avr32 == Divide

Page_crisv32 == Page(<<NL>>, OneChip \o <<NL>>)
Find_crisv32 ==
  [UsualFind EXCEPT !.colon = "assumed",
                    !.white = {"blank", "tab", "nl", "nul"},
                    !.stops = {"nl"}]
Print_crisv32 == [Print81 EXCEPT !.over = "dangling"]
Num_crisv32 == [Divide EXCEPT !.method = "steps", !.lacks = 1]

Page_ia64 ==
  Page(<<NL>>,
       <<Cpus("many"), Find("mhz"), Text("MHz"), Find("chip"), Text("comma"),
         Ram("truncated"), Text("M RAM"), Find("bogo"), Text("Bogomips"),
         NL>>)
Find_ia64 == [UsualFind EXCEPT !.eof = "never"]
Print_ia64 == [UsualPrint EXCEPT !.over = "drops"]
Num_ia64 == Divide

Page_m68k ==
  Page(<<NL, Text("nul")>>,
       <<Text("One"), Find("mhz"), Text("blank"), Find("chip"),
         Text("Processor"), Ram("truncated"), Text("M RAM"), Find("bogo"),
         Text("Bogomips"), NL>>)
Find_m68k ==
  [UsualFind EXCEPT !.colon = "inkey", !.white = {"tab"}, !.stops = {"nl"}]
Print_m68k == [Print81 EXCEPT !.over = "dangling", !.scan = 1]
Num_m68k == [Divide EXCEPT !.method = "steps"]

Page_m88k ==
  Page(<<NL>>,
       <<Text("One"), Find("mhz"), Text("MHz"), Find("chip"), Text("comma"),
         Ram("truncated"), Text("M RAM"), NL>>)
Find_m88k == [UsualFind EXCEPT !.skip = "none"]
Print_m88k == [UsualPrint EXCEPT !.largest = 79]
Num_m88k == Divide

Page_microblaze == Page(<< >>, OneClockChip)
Find_microblaze ==
  [UsualFind EXCEPT !.colon = "passed", !.white = {"blank", "tab", "nl"}]
Print_microblaze == [UsualPrint EXCEPT !.newline = "after"]
Num_microblaze == [Divide EXCEPT !.method = "signed"]

Page_micromips == Page(<< >>, OneChip)
Find_micromips == UsualFind
Print_micromips ==
  [UsualPrint EXCEPT !.largest = 79, !.newline = "stored", !.scan = 1]
Num_micromips == Divide

Page_mips == Page_micromips
Find_mips == UsualFind
Print_mips == Print_micromips
Num_mips == Divide

\* On a little-endian processor the halfword is stored the other way round.
Print_mips_le == [Print_mips EXCEPT !.newline = "swapped"]

Page_mips16 == Page_micromips
Find_mips16 == UsualFind
Print_mips16 == [Print_micromips EXCEPT !.over = "equal"]
Num_mips16 == Divide

Page_parisc == Page(<< >>, OneClockChip)
Find_parisc == UsualFind
Print_parisc ==
  [UsualPrint EXCEPT !.newline = "after", !.scan = 1, !.rewinds = FALSE]
Num_parisc == Divide

Page_pdp11 ==
  <<Fixed("UN*X") \o <<NL>>,
    <<Text("One"), Find("chip"), Text("Processor"), Text("64"),
      Text("K RAM"), Find("bogo"), Text("Bogomips"), NL>>,
    <<Text("esw")>>>>
Find_pdp11 == [UncheckedFind EXCEPT !.stops = {"nl"}]
Print_pdp11 == Print_crisv32
Num_pdp11 == Divide

Page_ppc ==
  Page(<< >>,
       <<Text("One"), Find("mhz"), Text("MHz"), Find("chip"), Text("comma"),
         Ram("truncated"), Text("M RAM"), Find("bogo"), Text("Bogomips")>>)
Find_ppc == UsualFind
Print_ppc == [UsualPrint EXCEPT !.newline = "after"]
Num_ppc == [Divide EXCEPT !.method = "signed"]

Page_riscv32 == Page(<< >>, OneChip)
Find_riscv32 == UncheckedFind
Print_riscv32 ==
  [UsualPrint EXCEPT !.largest = 79, !.newline = "stored"]
Num_riscv32 == Divide

Page_riscv32_imc == Page_riscv32
Find_riscv32_imc == Find_riscv32
Print_riscv32_imc == Print_riscv32
Num_riscv32_imc == Num_riscv32

Page_riscv64 == Page_riscv32
Find_riscv64 == Find_riscv32
Print_riscv64 == Print_riscv32
Num_riscv64 == Num_riscv32

Page_riscv64_imc == Page_riscv32
Find_riscv64_imc == Find_riscv32
Print_riscv64_imc == Print_riscv32
Num_riscv64_imc == Num_riscv32

Page_riscv128 == Page_riscv32
Find_riscv128 == Find_riscv32
Print_riscv128 == Print_riscv32
Num_riscv128 == Num_riscv32

Page_riscv128_imc == Page_riscv32
Find_riscv128_imc == Find_riscv32
Print_riscv128_imc == Print_riscv32
Num_riscv128_imc == Num_riscv32

Page_s390 ==
  Page(<<Behind("nl")>>,
       <<Cpus("table"), Find("chip"), Text("Processor"), Plural,
         Ram("truncated"), Text("M RAM"), Find("bogo"), Text("Bogomips"),
         NL>>)
Find_s390 == [UncheckedFind EXCEPT !.eof = "never", !.stops = {"nl"}]
Print_s390 == [UsualPrint EXCEPT !.over = "dangling"]
Num_s390 == [Divide EXCEPT !.method = "signed", !.lacks = 2]

Page_sh3 == Page(<<NL>>, OneClockChip \o <<NL>>)
Find_sh3 == [UncheckedFind EXCEPT !.stops = {"nl"}, !.absent = "deletes"]
Print_sh3 == [Print81 EXCEPT !.over = "wraps", !.halves = "up"]
Num_sh3 == [Divide EXCEPT !.method = "steps"]

Page_sparc ==
  Page(<< >>,
       <<Cpus("value"), Find("chip"), Text("Processor"), Plural,
         Ram("truncated"), Text("M RAM"), Find("bogo"), Text("Bogomips")>>)
Find_sparc == UncheckedFind
Print_sparc == Print_ppc
Num_sparc == Divide

Page_thumb == Page_crisv32
Find_thumb == [UncheckedFind EXCEPT !.stops = {}]
Print_thumb == Print_arm64
Num_thumb == [Divide EXCEPT !.method = "upward"]

Page_thumb2 == Page_crisv32
Find_thumb2 == Find_thumb
Print_thumb2 == Print_arm64
Num_thumb2 == [Divide EXCEPT !.method = "reciprocal"]

Page_vax == Page(<<Behind("nl")>>, OneChip \o <<NL>>)
Find_vax == [UncheckedFind EXCEPT !.stops = {"nl"}, !.first = "copied"]
Print_vax == [UsualPrint EXCEPT !.over = "dangling"]
Num_vax == [Divide EXCEPT !.method = "signed", !.lacks = 2]

Page_z80 == <<Fixed("CP/M"), KiloBytes(OneClockChip), <<Text("krg")>>>>
Find_z80 == [UncheckedFind EXCEPT !.eof = "never", !.stops = {"nl"}]
Print_z80 == [UsualPrint EXCEPT !.over = "dangling", !.newline = "stored"]
Num_z80 == [Divide EXCEPT !.method = "powers"]

Page_ll_glibc == Page(<<NL>>, PcLine("blank", "truncated"))
Find_ll_glibc ==
  [UncheckedFind EXCEPT !.skip = "white", !.white = {"blank"},
                        !.stops = {"nl"}]
Print_ll_glibc == [UsualPrint EXCEPT !.largest = 79]
Num_ll_glibc == [Divide EXCEPT !.lacks = 3]

Page_ll_raw == Page_ll_glibc
Find_ll_raw == Find_ll_glibc
Print_ll_raw == Print_ll_glibc
Num_ll_raw == Num_ll_glibc

-----------------------------------------------------------------------------
FindPorts ==
  { Find_i386, Find_x86_64, Find_x86_x32, Find_8086, Find_alpha,
    Find_arm_eabi, Find_arm_oabi, Find_arm64, Find_1802, Find_avr32,
    Find_crisv32, Find_ia64, Find_m68k, Find_m88k, Find_microblaze,
    Find_micromips, Find_mips, Find_mips16, Find_parisc, Find_pdp11,
    Find_ppc, Find_riscv32, Find_riscv32_imc, Find_riscv64,
    Find_riscv64_imc, Find_riscv128, Find_riscv128_imc, Find_s390,
    Find_sh3, Find_sparc, Find_thumb, Find_thumb2, Find_vax, Find_z80,
    Find_ll_glibc, Find_ll_raw }

NumPorts ==
  { Num_i386, Num_x86_64, Num_x86_x32, Num_8086, Num_alpha, Num_arm_eabi,
    Num_arm_oabi, Num_arm64, Num_1802, Num_avr32, Num_crisv32, Num_ia64,
    Num_m68k, Num_m88k, Num_microblaze, Num_micromips, Num_mips,
    Num_mips16, Num_parisc, Num_pdp11, Num_ppc, Num_riscv32,
    Num_riscv32_imc, Num_riscv64, Num_riscv64_imc, Num_riscv128,
    Num_riscv128_imc, Num_s390, Num_sh3, Num_sparc, Num_thumb, Num_thumb2,
    Num_vax, Num_z80, Num_ll_glibc, Num_ll_raw }

=============================================================================
