---------------------------- MODULE AnsiCompress ----------------------------
(***************************************************************************)
(* ansi_compress: main runs its coders over the file one after the other,  *)
(* each into files of its own.  The coders share the file's position, so   *)
(* main rewinds it between them.  Any fopen may fail.                      *)
(*                                                                         *)
(* rle_one and lzss_encode are taken a step at a time; lzss_encode_better  *)
(* is a step here, and module LzssEncoder looks into it.  rle_two is not   *)
(* called by main and runs alone.                                          *)
(***************************************************************************)
EXTENDS Rle, OldLzss

CONSTANTS
  Logos,        \* the files to compress
  TwoLogos      \* and those for rle_two

VARIABLES
  main,         \* what main does next; "none" when it was not started
  job,          \* the index of the coder in Plan
  lz,           \* the record of lzss_encode and its globals, when it runs
  outputs,      \* the files created, and what is in them
  status        \* what main returned; -1 before

mainVars == << main, job, lz, outputs, status >>
vars == << rleVars, mainVars >>

Plan ==
  << [by |-> "rle_one",     to |-> << "logo.inc" >>],
     [by |-> "lzss_encode", to |-> << "logo.lzss" >>],
     [by |-> "lzss_encode_better", to |-> << "logo.lzss_new", "logo.include" >>],
     [by |-> "lzss_encode_better",
      to |-> << "logo.lzss_new.parisc", "logo.include.parisc" >>],
     [by |-> "lzss_encode_better", to |-> << "logo.lzss_new.h" >>] >>

Idle == [len |-> 0]

Init ==
  /\ \/ main = "fopen_ansi" /\ \E text \in Logos : RleInit("rle_one", text)
     \/ main = "none" /\ \E text \in TwoLogos : RleInit("rle_two", text)
  /\ job = 1
  /\ lz = Idle
  /\ outputs = << >>
  /\ status = -1

Return(s) ==
  /\ main' = "exit"
  /\ status' = s
  /\ UNCHANGED << rleVars, job, lz, outputs >>

\* Without an argument main returns 3, without the file 2.
OpenAnsi ==
  /\ main = "fopen_ansi"
  /\ \/ Return(3)
     \/ Return(2)
     \/ main' = "fopen" /\ UNCHANGED << rleVars, job, lz, outputs, status >>

\* The next of the job's outputs is created.  It stays when one after it
\* cannot be.
Created == { k \in DOMAIN Plan[job].to : Plan[job].to[k] \in DOMAIN outputs }

OpenOutput ==
  /\ main = "fopen"
  /\ \/ Return(1)
     \/ LET k == Cardinality(Created) + 1
            name == Plan[job].to[k]
        IN /\ outputs' = [x \in DOMAIN outputs \cup {name} |->
                            IF x = name THEN << >> ELSE outputs[x]]
           /\ main' = IF k < Len(Plan[job].to) THEN "fopen"
                      ELSE IF job = 1 THEN "rle_one" ELSE "rewind"
           /\ UNCHANGED << rleVars, job, lz, status >>

Bug_Rewind ==
  /\ main = "rewind"
  /\ main' = Plan[job].by
  /\ UNCHANGED << rleVars, job, lz, outputs, status >>

Rewind ==
  /\ main = "rewind"
  /\ read' = 0
  /\ main' = Plan[job].by
  /\ UNCHANGED << coder, ansi, ch, oldchar, run, temp, ansi_table, out, byte_count,
                  rle, job, lz, outputs, status >>

\* The coder returns, with its outputs written, and they are closed.
Done(content) ==
  /\ outputs' = [x \in DOMAIN outputs |->
                   IF \E k \in DOMAIN Plan[job].to : Plan[job].to[k] = x
                   THEN content ELSE outputs[x]]
  /\ job' = job + 1
  /\ main' = IF job < Len(Plan) THEN "fopen" ELSE "count"
  /\ UNCHANGED status

RleOne ==
  /\ main = "rle_one"
  /\ \/ RleNext /\ UNCHANGED mainVars
     \/ rle = "finished" /\ Done(out) /\ UNCHANGED << rleVars, lz >>

RleTwo == main = "none" /\ RleNext /\ UNCHANGED mainVars

\* The text from the position of the file on.
Unread == SubSeq(ansi, read + 1, Len(ansi))

\* lzss_encode: its beginning, a unit, and its end.  For an empty file it
\* returns from its beginning.
EncodeStart ==
  /\ main = "lzss_encode"
  /\ lz = Idle
  /\ IF Unread = << >> THEN Done(<< >>) /\ UNCHANGED lz
     ELSE lz' = Start(Unread) /\ UNCHANGED << main, job, outputs, status >>
  /\ UNCHANGED rleVars

EncodeUnit ==
  /\ main = "lzss_encode"
  /\ lz.len > 0
  /\ lz' = Unit(lz, Unread)
  /\ UNCHANGED << rleVars, main, job, outputs, status >>

EncodeEnd ==
  /\ main = "lzss_encode"
  /\ lz # Idle
  /\ lz.len = 0
  /\ Done(Rest(lz).out)
  /\ read' = Len(ansi)
  /\ lz' = Rest(lz)
  /\ UNCHANGED << coder, ansi, ch, oldchar, run, temp, ansi_table, out, byte_count, rle >>

EncodeBetter ==
  /\ main = "lzss_encode_better"
  /\ Done(Unread)
  /\ read' = Len(ansi)
  /\ UNCHANGED << coder, ansi, ch, oldchar, run, temp, ansi_table, out, byte_count,
                  rle, lz >>

\* The size of the original is counted, and compared in a message.
Finish == main = "count" /\ Return(0)

Next ==
  \/ OpenAnsi \/ OpenOutput \/ Rewind \/ RleOne \/ RleTwo
  \/ EncodeStart \/ EncodeUnit \/ EncodeEnd \/ EncodeBetter \/ Finish

Spec == Init /\ [][Next]_vars

-----------------------------------------------------------------------------
(* What a run-length coder wrote, read by the format, is the file again:   *)
(* the escape sequences and the runs, whatever their order.                *)
RleReadBack == rle = "finished" => Shows = ansi

\* The n cells before the next to be coded, as far back as the ring goes
\* without what is still to be coded.
Before(e, n) == { (e.r - k) % N : k \in 1..(IF n < N - F THEN n ELSE N - F) }

\* The strings that were inserted: those that began to be coded, and F before
\* the file.
Window(e) == Before(e, e.read - e.len + F)

\* And those never lost.  Of equal strings before the file only the first is
\* kept in the trees, and it leaves the window first.
Kept(e) == IF e.read - e.len + F <= N - F THEN Window(e) ELSE Before(e, e.read - e.len)

\* How much of what is still to be coded, at x, the string at y has too.
Common(e, x, y) ==
  LET most == IF e.len < F THEN e.len ELSE F
      differ == { k \in 0..(most - 1) :
                    e.text_buf[(x + k) % N] # e.text_buf[(y + k) % N] }
  IN IF differ = {} THEN most ELSE First(differ)

(* The search in the trees found a longest match in the window: no string  *)
(* of the file was lost, and none that was overwritten is found.           *)
OldLongestMatch ==
  lz # Idle /\ lz.len > 0 =>
    /\ \A x \in Kept(lz) : Common(lz, lz.r, x) <= Matched(lz)
    /\ Matched(lz) > 0 =>
         /\ lz.match_position \in Window(lz)
         /\ Common(lz, lz.r, lz.match_position) = Matched(lz)

(* Decode makes of logo.lzss the file again, also in the ring the encoder  *)
(* left, of which it clears only the first N-F cells.                      *)
OldRoundTrip ==
  main = "fopen" /\ job = 3 /\ lz # Idle => Decode(outputs["logo.lzss"], lz.text_buf) = ansi

(* Success means that all of the outputs were made from the whole file:    *)
(* no coder found it where another one had left it.                        *)
StatusComplete ==
  status = 0 =>
    \A k \in DOMAIN Plan : \A j \in DOMAIN Plan[k].to :
      /\ Plan[k].to[j] \in DOMAIN outputs
      /\ LET content == outputs[Plan[k].to[j]]
         IN ansi = CASE k = 1 -> OneShows(content, 1)
                     [] k = 2 -> IF lz = Idle THEN << >>
                                 ELSE Decode(content, lz.text_buf)
                     [] OTHER -> content

=============================================================================
