----------------------------- MODULE FindString -----------------------------
(***************************************************************************)
(* find_string, which every port has: it looks for a key of three or four  *)
(* bytes in disk_buffer, the copy of /proc/cpuinfo, and appends the field  *)
(* behind it to the line being composed.                                   *)
(*                                                                         *)
(* A key is one byte here.  A file is followed by NULs, unless it fills    *)
(* disk_buffer; whatever lies behind disk_buffer is not modelled, and a    *)
(* search that gets there is "lost".  Module TextPorts says how each port  *)
(* searches, and which bytes are white space to it.  A port that stores    *)
(* the byte that ends the field and then a NUL in its place is taken not   *)
(* to store it; one that stores the NUL over that byte of disk_buffer      *)
(* leaves the end of the line to the next call.                            *)
(***************************************************************************)
EXTENDS Integers, Sequences, SequencesExt

CONSTANTS
  Size,           \* of disk_buffer
  Jobs            \* records of a port, an end character and a file

Letters == {"a", "b"}
Bytes == Letters \cup {"key", "colon", "blank", "tab", "nl"}

\* The bytes some port takes for white space: all those up to a blank.
LowBytes == {"blank", "tab", "nl", "nul"}

Ports ==
  [eof : {"nul", "never"},
   colon : {"checked", "unchecked", "assumed", "inkey", "passed"},
   skip : {"one", "white", "none"},
   white : SUBSET LowBytes,
   stops : SUBSET LowBytes,
   first : {"tested", "copied"},
   absent : {"nothing", "deletes"}]

ASSUME JobsAssumption ==
  /\ Size \in Nat
  /\ \A job \in Jobs : /\ job.port \in Ports
                       /\ job.end \in Bytes
                       /\ job.file \in Seq(Bytes)
                       /\ Len(job.file) <= Size

VARIABLES
  port,           \* the choices of the port that runs
  end,            \* the character to stop at
  disk_buffer,    \* the file
  p,              \* the byte of it to be looked at
  out,            \* what the line consists of
  pc              \* the label reached

vars == <<port, end, disk_buffer, p, out, pc>>
given == <<port, end, disk_buffer>>

-----------------------------------------------------------------------------
\* What a port reads at a byte.
Byte(i) == IF i <= Len(disk_buffer) THEN disk_buffer[i]
           ELSE IF i <= Size THEN "nul" ELSE "beyond"

\* The line as the preceding calls left it.
Begun == <<"b">>

\* The port has found its key.
Matches ==
  /\ Byte(p) = "key"
  /\ port.colon = "inkey" => Byte(p + 1) = "colon"

\* No match: the next byte.
FindLoop ==
  /\ pc = "find_loop"
  /\ Byte(p) # "beyond"
  /\ ~Matches
  /\ port.eof = "nul" => Byte(p) # "nul"
  /\ p' = p + 1
  /\ UNCHANGED <<given, out, pc>>

\* A match.  Where the key has a fixed distance to the field, no colon is
\* looked for: past the key, the colon and two blanks, past the key and its
\* colon, or to the white space that the colon must follow.
Match ==
  /\ pc = "find_loop"
  /\ Matches
  /\ p' = p + (CASE port.colon = "passed" -> 4
                 [] port.colon = "inkey" -> 2
                 [] OTHER -> 1)
  /\ pc' = CASE port.colon \in {"checked", "unchecked"} -> "find_colon"
             [] port.colon \in {"assumed", "inkey"} -> "skip_tabs"
             [] OTHER -> "skip_spaces"
  /\ UNCHANGED <<given, out>>

\* Every port backs up.
Bug_NotFoundDeletes ==
  /\ pc = "find_loop"
  /\ port.eof = "nul"
  /\ Byte(p) = "nul"
  /\ out' = Front(out)
  /\ pc' = "done"
  /\ UNCHANGED <<given, p>>

\* The end of the file: no such key.  One port stores a NUL before the byte
\* it points at, as if a field had been copied.
NotFound ==
  /\ pc = "find_loop"
  /\ port.eof = "nul"
  /\ Byte(p) = "nul"
  /\ out' = IF port.absent = "deletes" THEN Front(out) ELSE out
  /\ pc' = "done"
  /\ UNCHANGED <<given, p>>

-----------------------------------------------------------------------------
\* Up to the colon, and behind it.
FindColon ==
  /\ pc = "find_colon"
  /\ Byte(p) # "beyond"
  /\ IF Byte(p) = "colon"
       THEN /\ p' = p + (IF port.skip = "one" THEN 2 ELSE 1)
            /\ pc' = IF port.skip = "white" THEN "skip_spaces"
                     ELSE IF port.first = "copied" THEN "copy_rest"
                     ELSE "store_loop"
       ELSE IF port.colon = "checked" /\ Byte(p) = "nul"
              THEN p' = p /\ pc' = "done"
              ELSE p' = p + 1 /\ pc' = pc
  /\ UNCHANGED <<given, out>>

\* What the port takes for white space, before the colon or, if that is part
\* of the key, behind it.
SkipTabs ==
  /\ pc = "skip_tabs"
  /\ Byte(p) # "beyond"
  /\ IF Byte(p) \in port.white
       THEN p' = p + 1 /\ pc' = pc
       ELSE /\ p' = p + (IF port.colon = "inkey" THEN 0 ELSE 2)
            /\ pc' = "store_loop"
  /\ UNCHANGED <<given, out>>

\* "Loser new intel chips have lots".
SkipSpaces ==
  /\ pc = "skip_spaces"
  /\ Byte(p) # "beyond"
  /\ IF Byte(p) \in port.white
       THEN p' = p + 1 /\ pc' = pc
       ELSE p' = p /\ pc' = "store_loop"
  /\ UNCHANGED <<given, out>>

\* One character, whatever it is.
CopyRest ==
  /\ pc = "copy_rest"
  /\ Byte(p) # "beyond"
  /\ out' = Append(out, Byte(p))
  /\ p' = p + 1
  /\ pc' = "store_loop"
  /\ UNCHANGED given

\* Only the port's own stop characters are looked for.
Bug_StopsOwn == port.stops

Stops == port.stops \cup {end}

\* The character is tested after it has been stored.
Bug_StoreLoopLate ==
  /\ pc = "store_loop"
  /\ Byte(p) # "beyond"
  /\ out' = Append(out, Byte(p))
  /\ IF Byte(p) \in Stops THEN pc' = "done" /\ UNCHANGED p
                          ELSE p' = p + 1 /\ UNCHANGED pc
  /\ UNCHANGED given

\* The field is copied up to a stop character.
StoreLoop ==
  /\ pc = "store_loop"
  /\ Byte(p) # "beyond"
  /\ IF Byte(p) \in Stops
       THEN pc' = "done" /\ UNCHANGED <<p, out>>
       ELSE out' = Append(out, Byte(p)) /\ p' = p + 1 /\ UNCHANGED pc
  /\ UNCHANGED given

\* Past the end of disk_buffer.
RunPast ==
  /\ pc \notin {"done", "lost"}
  /\ Byte(p) = "beyond"
  /\ pc' = "lost"
  /\ UNCHANGED <<given, p, out>>

-----------------------------------------------------------------------------
Init ==
  /\ \E job \in Jobs : /\ port = job.port
                       /\ end = job.end
                       /\ disk_buffer = job.file
  /\ p = 1
  /\ out = Begun
  /\ pc = "find_loop"

Next ==
  \/ FindLoop \/ Match \/ NotFound
  \/ FindColon \/ SkipTabs \/ SkipSpaces
  \/ CopyRest \/ StoreLoop \/ RunPast

\* The program runs on.
Spec == Init /\ [][Next]_vars /\ WF_vars(Next)

-----------------------------------------------------------------------------
\* The least element of a set of numbers, or 0.
First(S) == IF S = {} THEN 0 ELSE CHOOSE i \in S : \A j \in S : i <= j

\* Where the first of some bytes is in a file, from a place on, or 0.
Where(file, S, from) == First({ i \in from .. Len(file) : file[i] \in S })

KeyOf(file) == Where(file, {"key"}, 1)

\* The white space the kernel writes.
Blanks == {"blank", "tab"}

ColonOf(file) ==
  IF KeyOf(file) = 0 THEN 0 ELSE Where(file, {"colon"}, KeyOf(file))

StartOf(file) ==
  IF ColonOf(file) = 0 THEN 0
  ELSE Where(file, Bytes \ Blanks, ColonOf(file) + 1)

\* Where the field ends that starts there.
LastOf(file, stop) ==
  LET stopped == Where(file, {stop, "nl"}, StartOf(file))
  IN  IF stopped = 0 THEN Len(file) ELSE stopped - 1

\* What is to be found: "find 'mips\t: ' and grab up to \n", in the words of
\* ll.i386.s.  It begins behind the colon that follows the first key, and
\* the white space there.
Field(file, stop) ==
  IF StartOf(file) = 0 THEN << >>
  ELSE SubSeq(file, StartOf(file), LastOf(file, stop))

Wanted == Field(disk_buffer, end)

\* What has been appended to the line.
Found == SubSeq(out, Len(Begun) + 1, Len(out))

Copy == INSTANCE ByteCopy
          WITH text <- Wanted, out <- Found,
               Texts <- Seq(Bytes)

\* Without a colon, or a field behind it, the file ends there.
ColonOrEnd(file) == IF ColonOf(file) = 0 THEN Len(file) + 1 ELSE ColonOf(file)
StartOrEnd(file) == IF StartOf(file) = 0 THEN Len(file) + 1 ELSE StartOf(file)

\* The field begins d bytes from the colon, as far as disk_buffer goes.
BehindColon(file, d) ==
  \/ StartOf(file) = ColonOrEnd(file) + d
  \/ StartOf(file) = 0 /\ ColonOrEnd(file) + d > Size

AllIn(file, from, to, S) == \A i \in from .. to : file[i] \in S

\* From a place on there is what the port skips, up to the field.
SkipsFrom(pt, file, from) ==
  /\ AllIn(file, from, StartOrEnd(file) - 1, pt.white)
  /\ StartOf(file) # 0 => /\ from <= StartOf(file)
                          /\ file[StartOf(file)] \notin pt.white

\* The white space around the colon is what the port expects.
Spaced(pt, file) ==
  LET k == KeyOf(file)
      c == ColonOrEnd(file)
  IN  /\ pt.colon = "inkey" => c = k + 1 /\ SkipsFrom(pt, file, c + 1)
      /\ pt.colon = "passed" => SkipsFrom(pt, file, k + 4)
      /\ pt.colon = "assumed" =>
           AllIn(file, k + 1, c - 1, pt.white) /\ BehindColon(file, 2)
      /\ pt.colon \in {"checked", "unchecked"} =>
           IF pt.skip = "white" THEN SkipsFrom(pt, file, c + 1)
           ELSE BehindColon(file, IF pt.skip = "one" THEN 2 ELSE 1)

\* The port stops where the field ends, and not before.
StopsRight(pt, file, stop) ==
  LET s == StartOf(file)
      e == LastOf(file, stop)
  IN  /\ \A i \in s .. e : file[i] \notin pt.stops
      /\ IF e < Len(file) THEN file[e + 1] \in pt.stops \cup {stop}
                          ELSE Len(file) = Size \/ "nul" \in pt.stops
      /\ pt.first = "copied" => s <= e

\* A file in which the port can find the field: one with the field as the
\* kernel writes it, that may be cut off where disk_buffer ends, or without
\* the key.
Suits(pt, stop, file) ==
  KeyOf(file) # 0 =>
    /\ Spaced(pt, file)
    /\ StartOf(file) = 0 => Len(file) = Size
    /\ StartOf(file) # 0 => StopsRight(pt, file, stop)

JobsSuit == \A job \in Jobs : Suits(job.port, job.end, job.file)

(***************************************************************************)
(* Whatever the port tests and skips, it appends the bytes of the field,   *)
(* in order, one at a time, and no others: "grab up to \n".                *)
(***************************************************************************)
FieldGrabbed == Copy!SafeSpec

(***************************************************************************)
(* The search comes to an end, and then the whole field is in the line.    *)
(* Only a file that fills disk_buffer, which no NUL follows, may take the  *)
(* port past its end ("off end of file" in COMPARISON_RULES is a NUL).     *)
(***************************************************************************)
FieldComplete ==
  <>(\/ pc = "done" /\ Found = Wanted
     \/ pc = "lost" /\ Len(disk_buffer) = Size)

(***************************************************************************)
(* What the line consisted of before is kept, also when there is no such   *)
(* field.                                                                  *)
(***************************************************************************)
LineKept == IsPrefix(Begun, out)

(***************************************************************************)
(* "in first search loop must also exit if encounter \0 (off end of file)" *)
(* (COMPARISON_RULES).                                                     *)
(***************************************************************************)
SearchEnds == <>(pc = "done")

=============================================================================
