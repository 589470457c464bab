------------------------------ MODULE MCLl6502 ------------------------------
(* Logos of a literal, and of a literal and a pair that copies it.  The    *)
(* zero page, zp_save and the ring have the proportions of the program.    *)
EXTENDS Ll6502

SomeLogos == { << 1, 5 >>, << 1, 5 >> \o PairBytes(N - F, 3) }
=============================================================================
