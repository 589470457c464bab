------------------------------- MODULE Ll6502 -------------------------------
(***************************************************************************)
(* The memory of ll_6502.s, the port for the Apple II: it saves the part   *)
(* of the zero page it uses, decodes the logo, reads a file about the      *)
(* processor, prints, and puts the zero page back for BASIC.               *)
(*                                                                         *)
(* The ring R has N-F cells only, although positions are masked for N; the *)
(* cells behind it are zp_save and disk_buff.  So the decoder's text_buf   *)
(* is R and what follows it, and saving and reading store there too.       *)
(***************************************************************************)
EXTENDS LzssDecoder

CONSTANTS
  Logos,        \* compressed logos
  ZeroPage,     \* how many cells there are from $E8 to $FF
  Saved,        \* how many of them are saved
  SaveSize      \* cells of zp_save

\* The last cells: the pointer of the output, and that of the logo.
OUTPUT == ZeroPage - 2

VARIABLES
  zp,           \* the cells of the zero page from $E8 on
  basic,        \* those cells as BASIC left them
  y,            \* how many cells have been saved or restored
  step          \* what the program is doing

appleVars == << zp, basic, y, step >>
decoder == << port, file, src, flags, units, pos, count, r, text_buf, out, pc >>

\* Cells of text_buf.  The pointer to zp_save is told apart from other values.
R == 0
zp_save == R + (N - F)
disk_buff == zp_save + SaveSize
SaveAddress == -1

Init6502 ==
  /\ port = [ends |-> "past", flags |-> "counted", length |-> "set",
             cleared |-> FALSE, crlf |-> FALSE]
  /\ file = << >>
  /\ Prepared
  /\ basic \in [0..(ZeroPage - 1) -> Garbage]
  /\ zp = [basic EXCEPT ![OUTPUT] = SaveAddress]
  /\ y = 0
  /\ step = "save_zp_loop"

\* A turn of the loop; the logo is decoded when it ends.
save_zp_loop ==
  /\ step = "save_zp_loop"
  /\ text_buf' = [text_buf EXCEPT ![zp_save + y] = zp[y]]
  /\ y' = y + 1
  /\ step' = IF y' = Saved THEN "load" ELSE step
  /\ UNCHANGED << port, file, src, flags, units, pos, count, r, out, pc, zp, basic >>

LoadLogo ==
  /\ step = "load"
  /\ \E logo \in Logos : Load(logo)
  /\ step' = "decode"
  /\ UNCHANGED << zp, basic, y >>

Decode ==
  /\ step = "decode"
  /\ Next
  /\ UNCHANGED appleVars

\* Drawing and text use the zero page for whatever they need.
Drawn ==
  /\ step = "decode"
  /\ pc = "done_logo"
  /\ \E g \in Garbage : zp' = [c \in DOMAIN zp |-> g]
  /\ step' = "open"
  /\ UNCHANGED << decoder, basic, y >>

\* exit: the loop begins anew.
Exit ==
  /\ zp' = [zp EXCEPT ![OUTPUT] = SaveAddress]
  /\ y' = 0
  /\ step' = "restore_zp_loop"
  /\ UNCHANGED << decoder, basic >>

\* error: no buffer of DOS is free.
Open ==
  /\ step = "open"
  /\ \/ Exit
     \/ step' = "read" /\ UNCHANGED << decoder, zp, basic, y >>

\* The file, or nothing, is read into disk_buff, whose first cells the
\* decoder used too.
Read ==
  /\ step = "read"
  /\ \E b \in Garbage :
       text_buf' = [x \in DOMAIN text_buf |-> IF x >= disk_buff THEN b ELSE text_buf[x]]
  /\ step' = "print"
  /\ UNCHANGED << port, file, src, flags, units, pos, count, r, out, pc, zp, basic, y >>

PrintLines == step = "print" /\ Exit

\* A turn of the loop.  Where the pointer itself has been put back as
\* something else, the cells come from anywhere.
restore_zp_loop ==
  /\ step = "restore_zp_loop"
  /\ \E b \in IF zp[OUTPUT] = SaveAddress THEN {text_buf[zp_save + y]} ELSE Garbage :
       zp' = [zp EXCEPT ![y] = b]
  /\ y' = y + 1
  /\ step' = IF y' = Saved THEN "BASIC" ELSE step
  /\ UNCHANGED << decoder, basic >>

Next6502 ==
  \/ save_zp_loop \/ LoadLogo \/ Decode \/ Drawn \/ Open \/ Read \/ PrintLines
  \/ restore_zp_loop

Spec6502 == Init6502 /\ [][Next6502]_<< decoder, appleVars >>

-----------------------------------------------------------------------------
(* ll_6502.s:158: "save zero page", "otherwise we can't return to BASIC".  *)
(* The cells that are saved, but for the pointer that is set before, are   *)
(* those of BASIC again when it goes on.                                   *)
ZeroPageRestored ==
  step = "BASIC" => \A c \in 0..(Saved - 1) : c # OUTPUT => zp[c] = basic[c]

=============================================================================
