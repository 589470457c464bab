----------------------------- MODULE MCLlText -------------------------------
(* The text of all ports on small screens.                                 *)
EXTENDS LlText

MCColumns == 16
MCSize == 48

Of(t, n) == [i \in 1 .. n |-> t]

\* What varies of a machine: the length of its name and of that of its chip,
\* its processors and its memory.
Machine(host, chip, cpus, ram) ==
  [uname |-> [sysname |-> <<"Linux">>, release |-> <<"2.6">>,
              version |-> <<"date">>, nodename |-> Of("h", host)],
   fields |-> [mhz |-> <<"400">>, chip |-> Of("c", chip),
               bogo |-> <<"800">>, family |-> <<"AP">>],
   name |-> [first |-> Of("c", chip), stop |-> "blank",
             second |-> <<"III">>],
   cpus |-> cpus,
   ram |-> ram]

Ports ==
  { <<Page_i386, Print_i386>>, <<Page_x86_64, Print_x86_64>>,
    <<Page_x86_x32, Print_x86_x32>>, <<Page_8086, Print_8086>>,
    <<Page_alpha, Print_alpha>>, <<Page_arm_eabi, Print_arm_eabi>>,
    <<Page_arm_oabi, Print_arm_oabi>>, <<Page_arm64, Print_arm64>>,
    <<Page_1802, Print_1802>>, <<Page_avr32, Print_avr32>>,
    <<Page_crisv32, Print_crisv32>>, <<Page_ia64, Print_ia64>>,
    <<Page_m68k, Print_m68k>>, <<Page_m88k, Print_m88k>>,
    <<Page_microblaze, Print_microblaze>>,
    <<Page_micromips, Print_micromips>>, <<Page_mips, Print_mips>>,
    <<Page_mips16, Print_mips16>>, <<Page_parisc, Print_parisc>>,
    <<Page_pdp11, Print_pdp11>>, <<Page_ppc, Print_ppc>>,
    <<Page_riscv32, Print_riscv32>>, <<Page_riscv32_imc, Print_riscv32_imc>>,
    <<Page_riscv64, Print_riscv64>>, <<Page_riscv64_imc, Print_riscv64_imc>>,
    <<Page_riscv128, Print_riscv128>>,
    <<Page_riscv128_imc, Print_riscv128_imc>>, <<Page_s390, Print_s390>>,
    <<Page_sh3, Print_sh3>>, <<Page_sparc, Print_sparc>>,
    <<Page_thumb, Print_thumb>>, <<Page_thumb2, Print_thumb2>>,
    <<Page_vax, Print_vax>>, <<Page_z80, Print_z80>>,
    <<Page_ll_glibc, Print_ll_glibc>>, <<Page_ll_raw, Print_ll_raw>> }

\* How many processors, how much memory and which host names a port prints
\* as the rules say.
Counts(pg) ==
  CASE Cpus("table") \in ToSet(pg[2]) -> {1, 2, 4}
    [] Cpus("number") \in ToSet(pg[2]) -> {1, 2, 4}
    [] Cpus("many") \in ToSet(pg[2]) -> {1, 4, 5}
    [] OTHER -> {1}

Rams(pg) == IF Ram("rounded") \in ToSet(pg[2]) THEN {5, 6} ELSE {4, 9}

Hosts(pr) == pr.scan .. 3

\* The columns of the middle line.
Columned(pg, chip, cpus) ==
  LET width(call) == CASE call \in {NL, Text("nul")} -> 0
                       [] call = Find("chip") -> chip
                       [] call[1] = "words" -> chip + 2
                       [] call = Plural -> IF cpus = 1 THEN 0 ELSE 1
                       [] OTHER -> 1
  IN  SumFunction([i \in DOMAIN pg[2] |-> width(pg[2][i])])

Counted(pg, chip, cpus) ==
  Columned(pg, chip, cpus) + (IF NL \in ToSet(pg[2]) THEN 1 ELSE 0)

\* Names of chips that a port can print: lines that are too long are only
\* for those that leave them alone.
Chips(pg, pr, cpus) ==
  { n \in 1 .. MCColumns :
      pr.over = "skip" \/ Counted(pg, n, cpus) + 80 <= pr.largest + MCColumns }

JobsOf(pg, pr) ==
  { [page |-> pg, print |-> pr, machine |-> Machine(h, n, c, r)] :
      <<h, n, c, r>> \in
        UNION { Hosts(pr) \X Chips(pg, pr, c) \X {c} \X Rams(pg) :
                  c \in Counts(pg) } }

MCJobs == UNION { JobsOf(p[1], p[2]) : p \in Ports }

\* What the proofs suppose of the pages and the machines.
ASSUME UsualJobs ==
  \A job \in MCJobs : Suits(job.page, job.print, job.machine)

\* Names of chips up to those that are too long.
LongJobs(pg, pr) ==
  { [page |-> pg, print |-> pr, machine |-> Machine(2, n, 1, 4)] :
      n \in 1 .. MCColumns + 3 }

LongArm == LongJobs(Page_arm_eabi, Print_arm_eabi)
LongArm64 == LongJobs(Page_arm64, Print_arm64)
LongAvr32 == LongJobs(Page_avr32, Print_avr32)
LongIa64 == LongJobs(Page_ia64, Print_ia64)
LongMips16 == LongJobs(Page_mips16, Print_mips16)

\* No name for the host.
NoHost == { [page |-> Page_m68k, print |-> Print_m68k,
             machine |-> Machine(0, 1, 1, 4)] }

\* A chip whose name is one word, so that the next word is that of the next
\* line of cpuinfo.
OneWord ==
  { [page |-> Page_i386, print |-> Print_i386,
     machine |-> [Machine(2, 1, 1, 4) EXCEPT
                    !.name.stop = "nl", !.name.second = <<"stepping">>]] }

\* Six processors.
SixCpus == { [page |-> Page_i386, print |-> Print_i386,
              machine |-> Machine(2, 1, 6, 4)] }

\* One megabyte and three quarters.
PartRam == { [page |-> Page_arm64, print |-> Print_arm64,
              machine |-> Machine(2, 1, 1, 7)] }

LittleMips == { [page |-> Page_mips, print |-> Print_mips_le,
                 machine |-> Machine(2, 1, 1, 4)] }
=============================================================================
