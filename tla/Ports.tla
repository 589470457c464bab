------------------------------- MODULE Ports --------------------------------
(***************************************************************************)
(* The ports of ll as the decoder of LzssDecoder sees them: one record for *)
(* each source file, read off the code between decompression_loop and      *)
(* done_logo, and the registers and buffers set up before it.              *)
(***************************************************************************)
EXTENDS Naturals

\* Most ports compare the pointers for equality, shift a byte of ones behind
\* the flags, load the length, and have text_buf in the bss.
Usual ==
  [ends |-> "at", flags |-> "ones", length |-> "set",
   cleared |-> TRUE, crlf |-> FALSE]

Port_alpha == Usual
Port_arm_eabi == [Usual EXCEPT !.ends = "past", !.flags = "top"]
Port_arm_oabi == [Usual EXCEPT !.ends = "past"]
Port_arm64 == [Usual EXCEPT !.ends = "past", !.flags = "bit"]
Port_avr32 == [Usual EXCEPT !.ends = "past"]
Port_crisv32 == [Usual EXCEPT !.flags = "bit"]
Port_i386 == [Usual EXCEPT !.length = "inc", !.cleared = FALSE]
Port_ia64 == [Usual EXCEPT !.ends = "past", !.flags = "over"]
Port_m68k ==
  [Usual EXCEPT !.ends = "past", !.flags = "counted", !.length = "dbf"]
Port_m88k == Usual
Port_microblaze == Usual
Port_micromips == [Usual EXCEPT !.flags = "inverted"]
Port_mips == Usual
Port_mips16 == [Usual EXCEPT !.ends = "past", !.flags = "inverted"]
Port_parisc == Usual
Port_pdp11 == [Usual EXCEPT !.flags = "bit", !.length = "mem"]
Port_ppc == [Usual EXCEPT !.ends = "past"]
Port_ppc_vle == [Usual EXCEPT !.ends = "unset"]
Port_riscv32 == [Usual EXCEPT !.flags = "isff"]
Port_riscv32_imc == [Usual EXCEPT !.flags = "isff"]
Port_riscv64 == [Usual EXCEPT !.flags = "isff"]
Port_riscv64_imc == [Usual EXCEPT !.flags = "isff"]
Port_riscv128 == [Usual EXCEPT !.flags = "isff"]
Port_riscv128_imc == [Usual EXCEPT !.flags = "isff"]
Port_s390 == [Usual EXCEPT !.flags = "counted"]
Port_sh3 == [Usual EXCEPT !.ends = "past", !.flags = "counted"]
Port_sparc == [Usual EXCEPT !.flags = "one"]
Port_thumb == [Usual EXCEPT !.ends = "past", !.flags = "carry"]
Port_thumb2 == [Usual EXCEPT !.ends = "past", !.flags = "carry"]
Port_vax == [Usual EXCEPT !.flags = "counted"]
Port_x86_64 == [Usual EXCEPT !.length = "inc", !.cleared = FALSE]
Port_x86_x32 == [Usual EXCEPT !.length = "inc", !.cleared = FALSE]
Port_8086 == [Usual EXCEPT !.length = "inc", !.cleared = FALSE]
Port_1802 ==
  [Usual EXCEPT !.flags = "counted", !.length = "low", !.cleared = FALSE]
Port_z80 ==
  [Usual EXCEPT !.flags = "counted", !.cleared = FALSE, !.crlf = TRUE]
Port_6502 ==
  [Usual EXCEPT !.ends = "past", !.flags = "counted", !.cleared = FALSE]
Port_65c816 == Usual
Port_glibc == [Usual EXCEPT !.ends = "before", !.flags = "counted"]
Port_raw == [Usual EXCEPT !.ends = "before", !.flags = "counted"]

\* The ports that print the logo.  ppc-vle, which never loads the end of the
\* logo, is left out, and so is 8051, whose code is commented out.
AllPorts ==
  { Port_alpha, Port_arm_eabi, Port_arm_oabi, Port_arm64, Port_avr32,
    Port_crisv32, Port_i386, Port_ia64, Port_m68k, Port_m88k,
    Port_microblaze, Port_micromips, Port_mips, Port_mips16, Port_parisc,
    Port_pdp11, Port_ppc, Port_riscv32, Port_riscv32_imc, Port_riscv64,
    Port_riscv64_imc, Port_riscv128, Port_riscv128_imc, Port_s390,
    Port_sh3, Port_sparc, Port_thumb, Port_thumb2, Port_vax, Port_x86_64,
    Port_x86_x32, Port_8086, Port_1802, Port_z80, Port_6502, Port_65c816,
    Port_glibc, Port_raw }

\* The ports whose ring and registers are prepared, as the encoder supposes.
PreparedPorts ==
  { p \in AllPorts : p.cleared /\ p.length # "dbf" }

=============================================================================
