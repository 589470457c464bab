---------------------------- MODULE MCFindString ----------------------------
(* The searches of all ports in short files.                               *)
EXTENDS FindString, TextPorts

MCSize == 20

\* One byte and two of what a port takes for white space and the kernel
\* may write there.
Whites(pt) ==
  LET bytes == pt.white \ {"nul"}
  IN  { <<v>> : v \in bytes } \cup { <<v, w>> : v, w \in bytes }

\* What a port needs of a file: how far the colon may be from the key, and
\* how much white space is behind it.
Gaps(pt) ==
  CASE pt.colon \in {"inkey", "passed"} -> { << >> }
    [] pt.colon = "assumed" -> { << >> } \cup Whites(pt)
    [] OTHER -> { << >>, <<"tab">>, <<"a", "blank">> }

Spaces(pt) ==
  CASE pt.colon = "passed" -> { <<"blank", "blank">>, <<"blank", "blank", "tab">>,
                                <<"blank", "blank", "blank">> }
    [] pt.colon = "inkey" \/ pt.skip = "white" -> Whites(pt)
    [] pt.skip = "one" -> { <<"blank">> }
    [] OTHER -> { << >> }

\* Ports without a choice of their own look for linefeeds.
Ends(pt) ==
  IF pt.eof = "nul" /\ "nl" \in pt.stops /\ pt.skip # "white"
    THEN {"nl"} ELSE {"nl", "b", "blank"}

\* The field, of up to two characters, and the rest of the line.  A port that
\* copies a first character untested, or skips linefeeds, needs one.
Values(pt, e) ==
  LET v == {<<"a">>, <<"a", "colon">>, <<"a", "key">>}
             \cup (IF pt.first = "copied" \/ pt.colon = "passed" \/ e = "blank"
                     THEN {} ELSE {<< >>})
  IN  IF e = "nl" THEN { x \o <<"nl">> : x \in v }
      ELSE { x \o <<e, "a", "nl">> : x \in v }

Before == { << >>, <<"a", "colon", "nl">> }
After == { << >>, <<"key", "colon", "nl">> }

\* Files with the field.
WithField ==
  { [port |-> pt, end |-> e, file |-> b \o <<"key">> \o g \o <<"colon">> \o s
                                        \o v \o a] :
      <<pt, e, b, g, s, v, a>> \in
        UNION { UNION { {pt} \X {e} \X Before \X Gaps(pt) \X Spaces(pt)
                          \X Values(pt, e) \X After : e \in Ends(pt) } :
                pt \in FindPorts } }

Without(ports) ==
  { [port |-> pt, end |-> "nl", file |-> f] :
      pt \in ports,
      f \in { << >>, <<"a", "colon", "blank", "b", "nl">> } }

\* Ports that see the end of a file, and have nothing to delete.
Careful == { pt \in FindPorts : pt.eof = "nul" /\ pt.absent = "nothing" }

\* Files that fill disk_buffer, since read leaves the rest away.
Kept == 7
Filling ==
  { [j EXCEPT !.file = [i \in 1 .. MCSize - Kept |-> "b"]
                          \o SubSeq(@, 1, Kept)] :
      j \in { jj \in WithField : Len(jj.file) > Kept } }

MCJobs == WithField \cup Without(Careful) \cup Filling

\* What the proofs suppose of the files.
ASSUME UsualJobs ==
  \A job \in MCJobs : Suits(job.port, job.end, job.file)

\* Files without the key, for the others.
S390Jobs == Without({Find_s390, Find_ia64})
Sh3Jobs == Without({Find_sh3})

\* A field without a character, before another line.
EmptyJobs ==
  { [port |-> Find_vax, end |-> "nl",
     file |-> <<"key", "colon", "blank", "nl", "a", "colon", "nl">>],
    [port |-> Find_microblaze, end |-> "nl",
     file |-> <<"key", "colon", "blank", "blank", "nl", "a", "nl">>] }
=============================================================================
