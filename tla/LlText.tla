------------------------------- MODULE LlText -------------------------------
(***************************************************************************)
(* What a port of ll does after the logo: it composes three lines in       *)
(* out_buffer, one call after the other, and prints each in the middle of  *)
(* the screen.                                                             *)
(*                                                                         *)
(* A cell of out_buffer holds a token: a letter or a text of the program.  *)
(* Every token is one column wide.  The buffer is not cleared between the  *)
(* lines, and holds the logo at first, so that a line that is not ended by *)
(* a NUL, or not looked at from its beginning, shows.  The calls append    *)
(* what FindString and NumToAscii say they do; what a port calls, and how  *)
(* it centers and prints, is in TextPorts.                                 *)
(***************************************************************************)
EXTENDS Integers, Sequences, SequencesExt, TextPorts

CONSTANTS
  Columns,        \* 80
  Size,           \* of out_buffer
  Jobs            \* records of a page, a way of printing and a machine

ASSUME LlTextAssumption ==
  /\ Columns \in Nat \ {0}
  /\ Size \in Nat \ {0}

VARIABLES
  page,           \* the calls of the port, for each line
  print,          \* its choices in center_and_print and write_stdout
  machine,        \* what uname, cpuinfo and sysinfo say
  line,           \* the line being composed or printed
  at,             \* the next call of it
  out_buffer,     \* tokens
  start, out,     \* the first cell of the line, and the cell behind it
  shift,          \* the columns to move right before printing
  screen,         \* the lines printed
  pc              \* what is done

vars == <<page, print, machine, line, at, out_buffer, start, out, shift,
          screen, pc>>
given == <<page, print, machine>>

-----------------------------------------------------------------------------
Ordinal == <<"One", "Two", "Three", "Four">>
Number(n) == <<"0", "1", "2", "3", "4", "5", "6", "7", "8", "9">>[n + 1]

\* The words for the processors counted.  A table indexed with another
\* number yields whatever lies there.
CpuWord(way, n) ==
  IF n \in 1 .. 4 /\ (way = "value" => n = 1) THEN Ordinal[n]
  ELSE CASE n > 4 /\ way = "many" -> "Many"
         [] n > 1 /\ way \in {"number", "value"} -> Number(n)
         [] OTHER -> "garbage"

\* Memory is counted in quarters of a megabyte.
Megabytes(way, ram) ==
  CASE way = "rounded" -> (ram + 2) \div 4
    [] way = "truncated" -> ram \div 4
    [] OTHER -> ram

\* What a call appends on a machine.
Cells(m, call) ==
  LET kind == call[1]
      which == call[2]
      name == m.name
  IN  CASE kind = "uname" -> m.uname[which]
        [] kind = "find" -> m.fields[which]
        [] kind = "cpus" -> <<CpuWord(which, m.cpus)>>
        [] kind = "words" ->
             name.first \o <<IF which = "stop" THEN name.stop ELSE which>>
               \o name.second
        [] kind = "plural" -> IF m.cpus = 1 THEN << >> ELSE <<which>>
        [] kind = "ram" -> <<Number(Megabytes(which, m.ram))>>
        [] OTHER -> <<which>>

\* Tokens stored from a cell on.
Store(buffer, i, tokens) ==
  [k \in DOMAIN buffer |->
     IF k \in i .. i + Len(tokens) - 1 THEN tokens[k - i + 1] ELSE buffer[k]]

\* The first NUL from a cell on.
NulFrom(i) == CHOOSE k \in i .. Size : /\ out_buffer[k] = "nul"
                                       /\ "nul" \notin { out_buffer[j] :
                                                           j \in i .. k - 1 }

-----------------------------------------------------------------------------
\* The string is copied without the NUL behind it.
Bug_ComposeNoNul ==
  /\ pc = "compose"
  /\ at <= Len(page[line])
  /\ LET call == page[line][at]
         cells == Cells(machine, call)
     IN  /\ out_buffer' = Store(out_buffer, out, cells)
         /\ out' = IF call[1] = "behind" THEN out ELSE out + Len(cells)
  /\ at' = at + 1
  /\ UNCHANGED <<given, line, start, shift, screen, pc>>

\* A call appends tokens and a NUL, and leaves the pointer at the NUL.
Compose ==
  /\ pc = "compose"
  /\ at <= Len(page[line])
  /\ LET call == page[line][at]
         cells == Cells(machine, call)
     IN  /\ out_buffer' = Store(out_buffer, out, Append(cells, "nul"))
         /\ out' = IF call[1] = "behind" THEN out ELSE out + Len(cells)
  /\ at' = at + 1
  /\ UNCHANGED <<given, line, start, shift, screen, pc>>

\* How long the line is for center_and_print.
Length == IF print.measure = "scan" THEN NulFrom(start + 1) - start
          ELSE out - start

\* The sizes of the code are those for 80 columns.
Scaled(n) == n - 80 + Columns
TooLong == Length > Scaled(print.largest)

Nothing == -1           \* no escape sequence
Dangling == -2          \* one that is not completed
Huge == 2147483647      \* some number beyond all columns

\* The length is taken for the rest.
Bug_ShiftUnsubtracted ==
  IF ~TooLong THEN Length \div 2
  ELSE CASE print.over = "zero" -> 0
         [] print.over = "skip" -> Nothing
         [] print.over = "equal" -> IF Length = Columns THEN Nothing ELSE Huge
         [] print.over = "wraps" -> Huge
         [] OTHER -> Dangling

\* Half of the columns that the line leaves free.
Shift ==
  IF ~TooLong
    THEN (Scaled(print.minuend) - Length
            + (IF print.halves = "up" THEN 1 ELSE 0)) \div 2
  ELSE CASE print.over = "zero" -> 0
         [] print.over = "skip" -> Nothing
         [] print.over = "equal" -> IF Length = Columns THEN Nothing ELSE Huge
         [] print.over = "wraps" -> Huge
         [] OTHER -> Dangling

\* The linefeed ends up behind the NUL in every port.
Bug_EndedSwapped ==
  IF print.newline \in {"stored", "swapped"}
    THEN Store(out_buffer, out, <<"nul", "nl">>)
    ELSE out_buffer

\* What center_and_print puts behind the line: a linefeed, or the escape
\* sequence.
Ended ==
  IF print.newline = "stored" THEN Store(out_buffer, out, <<"nl", "nul">>)
  ELSE IF print.newline = "swapped"
    THEN Store(out_buffer, out, <<"nul", "nl">>)
  ELSE IF print.escape = "buffer"
    THEN Store(out_buffer, out + 1, <<"esc", "columns", "C", "nul">>)
  ELSE out_buffer

CenterAndPrint ==
  /\ pc = "compose"
  /\ at > Len(page[line])
  /\ shift' = Shift
  /\ out_buffer' = Ended
  /\ pc' = "write"
  /\ UNCHANGED <<given, line, at, start, out, screen>>

\* What write_stdout writes, up to a NUL.
Written ==
  SubSeq(out_buffer, start, NulFrom(start + print.scan) - 1)
    \o (IF print.newline = "after" THEN <<"nl">> ELSE << >>)

\* The line on the screen.  One port forgets to print lines that are too
\* long, and one prints them again and again, which is recorded once.
Row == [shift |-> shift,
        text |-> IF print.over = "drops" /\ shift = Dangling THEN << >>
                 ELSE Written]

Show == screen' = IF Len(screen) < line THEN Append(screen, Row) ELSE screen

Again == print.over = "loops" /\ shift = Dangling

\* After the last line there is nothing to go on with.
Finished == line = Len(page) /\ ~Again

\* The next line is begun, in most ports where the one before was.
Begin ==
  /\ line' = line + 1
  /\ at' = 1
  /\ out' = IF print.rewinds \/ line = 1 THEN 1 ELSE out
  /\ start' = out'

\* The return address is that of the call before.
Bug_WriteStdoutAgain ==
  /\ pc = "write"
  /\ ~Finished
  /\ Show
  /\ pc' = "compose"
  /\ UNCHANGED <<given, line, at, start, out, out_buffer, shift>>

\* The line is printed, and write_stdout returns to where the next one is
\* begun, or into center_and_print.
WriteStdout ==
  /\ pc = "write"
  /\ ~Finished
  /\ Show
  /\ IF Again THEN UNCHANGED <<line, at, start, out>> ELSE Begin
  /\ pc' = "compose"
  /\ UNCHANGED <<given, out_buffer, shift>>

\* After the last line, the colors are restored and the program exits.
Exit ==
  /\ pc = "write"
  /\ Finished
  /\ Show
  /\ pc' = "exit"
  /\ UNCHANGED <<given, line, at, start, out, out_buffer, shift>>

-----------------------------------------------------------------------------
\* done_logo: the logo has been printed.
Init ==
  /\ \E job \in Jobs : /\ page = job.page
                       /\ print = job.print
                       /\ machine = job.machine
  /\ line = 1 /\ at = 1
  /\ out_buffer = [k \in 1 .. Size |-> IF k < Size THEN "logo" ELSE "nul"]
  /\ start = 1 /\ out = 1
  /\ shift = Nothing
  /\ screen = << >>
  /\ pc = "compose"

Next == Compose \/ CenterAndPrint \/ WriteStdout \/ Exit

\* The program runs on.
Spec == Init /\ [][Next]_vars /\ WF_vars(Next)

-----------------------------------------------------------------------------
\* What can be seen of a line.
Visible(tokens) ==
  LET seen[n \in 0 .. Len(tokens)] ==
        IF n = 0 THEN << >>
        ELSE IF tokens[n] \in {"nl", "nul"} THEN seen[n - 1]
        ELSE Append(seen[n - 1], tokens[n])
  IN  seen[Len(tokens)]

\* What the rules ask a call to print: "One of "One" "Two" "Three" "Four" or
\* "Many"", RAM "rounded by adc", and "the first two words in the name field"
\* (ll.i386.s), if it has so many.
Asked(m, call) ==
  CASE call[1] = "cpus" -> <<CpuWord("many", m.cpus)>>
    [] call = Ram("truncated") -> Cells(m, Ram("rounded"))
    [] call[1] = "words" -> IF m.name.stop = "blank"
                              THEN Cells(m, TwoWords("blank"))
                              ELSE m.name.first
    [] OTHER -> Cells(m, call)

AskedLine(m, calls) ==
  Visible(FlattenSeq([i \in DOMAIN calls |-> Asked(m, calls[i])]))

\* What the calls of a line append, all in all.
Composed(m, calls) ==
  FlattenSeq([i \in DOMAIN calls |-> IF calls[i][1] = "behind" THEN << >>
                                     ELSE Cells(m, calls[i])])

LastBehind(calls) == calls[Len(calls)][1] = "behind"

\* Each call appends what the rules ask for, and a NUL ends the line at the
\* earliest.  Of what write_stdout does not look at, there is something.
SuitsText(calls, pr, m) ==
  LET all == Composed(m, calls)
      n == Len(all)
      pure == pr.newline = "inside" /\ pr.measure = "pointer"
  IN  /\ calls \in Seq(STRING \X STRING) /\ calls # << >>
      /\ \A i \in DOMAIN calls : Cells(m, calls[i]) \in Seq(STRING)
      /\ \A i \in DOMAIN calls : calls[i][1] = "behind" => i = Len(calls)
      /\ LastBehind(calls) => /\ Cells(m, calls[Len(calls)]) = <<"nl">>
                              /\ pure /\ pr.escape = "apart"
      /\ \A i \in 1 .. n :
           all[i] = "nul" => /\ i = n /\ n > pr.scan
                             /\ pure /\ ~LastBehind(calls)
      /\ n >= pr.scan
      /\ pr.measure = "scan" => n >= 1
      /\ \A i \in DOMAIN calls : Cells(m, calls[i]) = Asked(m, calls[i])

\* The port counts, besides what can be seen, what it allows for, and no
\* line is too long for a port that cannot leave it alone.
SuitsScreen(calls, pr, m) ==
  LET n == Len(Composed(m, calls))
      width == Len(AskedLine(m, calls))
  IN  /\ n - width \in 0 .. pr.minuend - 79
      /\ IF n > Columns - 80 + pr.largest THEN pr.over = "skip"
                                          ELSE width <= Columns

\* The page or the port ends the line.
SuitsEnd(calls, pr, m) ==
  LET all == Composed(m, calls)
      n == Len(all)
  IN  \/ pr.newline \in {"stored", "after"}
      \/ LastBehind(calls)
      \/ n >= 1 /\ all[n] = "nl"
      \/ n >= 2 /\ all[n] = "nul" /\ all[n - 1] = "nl"

\* A page of three lines, for which out_buffer has room.
Suits(pg, pr, m) ==
  /\ Len(pg) = 3
  /\ pr.scan \in {0, 1} /\ pr.minuend \in {80, 81}
  /\ pr.largest \in 79 .. pr.minuend /\ pr.newline # "swapped"
  /\ \A k \in 1 .. 3 : SuitsText(pg[k], pr, m) /\ SuitsScreen(pg[k], pr, m)
  /\ \A k \in 1 .. 2 : SuitsEnd(pg[k], pr, m)
  /\ \A k \in 1 .. 3 : Len(Composed(m, pg[k])) + 5 <= Size
  /\ ~pr.rewinds =>
       Len(Composed(m, pg[2])) + Len(Composed(m, pg[3])) + 5 <= Size

JobsSuit == \A job \in Jobs : Suits(job.page, job.print, job.machine)

(***************************************************************************)
(* The screen shows the lines of the rules: nothing of the logo or of an   *)
(* earlier line that the buffer still holds, nothing twice, and no line    *)
(* cut.                                                                    *)
(***************************************************************************)
TextShown ==
  \A k \in DOMAIN screen : Visible(screen[k].text) = AskedLine(machine, page[k])

(***************************************************************************)
(* "center for 80 column display", "must check if > 80 and not center in   *)
(* that case": the free columns left and right of a line differ by at most *)
(* two, whichever of linefeed and NUL was counted, and a longer line has   *)
(* no escape sequence before it.                                           *)
(***************************************************************************)
Centered ==
  \A k \in DOMAIN screen :
    LET row == screen[k]
        width == Len(AskedLine(machine, page[k]))
        left == IF row.shift = Nothing THEN 0 ELSE row.shift
    IN  IF width <= Columns
          THEN left >= 0 /\ 2 * left + width - Columns \in -2 .. 2
          ELSE row.shift = Nothing

(***************************************************************************)
(* A line that another one follows ends with a linefeed: "put linefeed/nul *)
(* on end" (ll.mips.s, in center_and_print).                               *)
(***************************************************************************)
LinesEnded ==
  \A k \in DOMAIN screen :
    k < Len(page) => /\ screen[k].text # << >>
                     /\ Last(screen[k].text) = "nl"

(***************************************************************************)
(* The program comes to an end, with all lines on the screen.              *)
(***************************************************************************)
ReachesExit == <>(pc = "exit" /\ Len(screen) = Len(page))

=============================================================================
