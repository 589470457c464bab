------------------------------ MODULE ByteCopy ------------------------------
(***************************************************************************)
(* What the logo pipeline promises: whatever happens between the ANSI file *)
(* given to ansi_compress and the buffer a port of ll prints, that buffer  *)
(* receives the bytes of the file, in order, and in the end all of them.   *)
(***************************************************************************)
EXTENDS Naturals, Sequences

CONSTANT Texts      \* the files that may be compressed

VARIABLES
  text,             \* the file
  out               \* what has reached out_buffer

vars == <<text, out>>

Init ==
  /\ text \in Texts
  /\ out = << >>

Deliver ==
  /\ Len(out) < Len(text)
  /\ out' = Append(out, text[Len(out) + 1])
  /\ UNCHANGED text

Next == Deliver

SafeSpec == Init /\ [][Next]_vars

Spec == SafeSpec /\ WF_vars(Next)

=============================================================================
