---------------------------- MODULE LogoPipeline ----------------------------
(***************************************************************************)
(* From the ANSI file to out_buffer: ansi_compress compresses the file,    *)
(* what it writes is assembled into a port, and the port decodes it.       *)
(***************************************************************************)
EXTENDS LzssEncoder

CONSTANTS
  Jobs,                         \* pairs of a file and a port it is meant for
  Linefeed, CarriageReturn, Garbage

VARIABLES
  port, file, src, flags, units, pos, count, store, ring, out,
  label         \* the label the port has reached

decoderVars ==
  <<port, file, src, flags, units, pos, count, store, ring, out, label>>

pipeVars == <<vars, decoderVars>>

\* The decoder, its names moved out of the way of the encoder's.
Decoder == INSTANCE LzssDecoder
             WITH r <- store, text_buf <- ring, pc <- label

-----------------------------------------------------------------------------
\* The port decodes every file if its ring and registers are prepared as the
\* encoder supposes, and otherwise, as the logo is, one without FrequentChar,
\* whose first unit can only be a literal and whose pairs never reach back to
\* what was there before the file.  A port that writes carriage returns needs
\* one that has none.
Suits(t, p0) ==
  /\ t \in Seq(Byte)
  /\ p0 \in Decoder!Traits
  /\ \/ p0.cleared /\ p0.length # "dbf" /\ FrequentChar = 0
     \/ \A k \in 1 .. Len(t) : t[k] # FrequentChar
  /\ p0.crlf => \A k \in 1 .. Len(t) : t[k] # CarriageReturn

JobsSuit ==
  /\ Garbage \subseteq Byte
  /\ \A job \in Jobs : Suits(job[1], job[2])

PipeInit ==
  /\ \E job \in Jobs : text = job[1] /\ port = job[2]
  /\ Init
  /\ file = << >>
  /\ Decoder!Prepared

Compress ==
  /\ Next
  /\ UNCHANGED decoderVars

\* The compressed logo becomes part of the port, which is started.
Assemble ==
  /\ pc = "done"
  /\ Decoder!Load(outfile)
  /\ UNCHANGED vars

Decompress ==
  /\ Decoder!Next
  /\ UNCHANGED vars

PipeNext == Compress \/ Assemble \/ Decompress

PipeSafeSpec == PipeInit /\ [][PipeNext]_pipeVars

\* Make runs the compressor to its end, and the port is one process.
PipeSpec == PipeSafeSpec /\ WF_pipeVars(PipeNext)

-----------------------------------------------------------------------------
\* The bytes of a sequence that are not b.
Without(b, bytes) ==
  LET kept[k \in 0 .. Len(bytes)] ==
        IF k = 0 THEN << >>
        ELSE IF bytes[k] = b THEN kept[k - 1] ELSE Append(kept[k - 1], bytes[k])
  IN  kept[Len(bytes)]

\* What a terminal shows of the output: ports of DOS-like systems send a
\* carriage return before every linefeed.
Shown == IF port.crlf THEN Without(CarriageReturn, out) ELSE out

Copy == INSTANCE ByteCopy WITH Texts <- { j[1] : j \in Jobs }, out <- Shown

(***************************************************************************)
(* Whatever the port, the bytes it has written are the first bytes of the  *)
(* file that was compressed, and each step adds the next one or none       *)
(* (Decode is "just the reverse of Encode").                               *)
(***************************************************************************)
LogoCopied == Copy!SafeSpec

\* The unit-level codec, as the decoder performs it.  The pair being copied
\* is what is left in the counting register.
Codec == INSTANCE LzssCodec
           WITH out <- Shown, r <- store, pos <- Decoder!PairPosition(pos),
                left <- IF label = "output_loop" THEN Decoder!BytesLeft(count)
                                                 ELSE 0,
                Fill <- FrequentChar, Prefilled <- FALSE,
                Texts <- { j[1] : j \in Jobs }

(***************************************************************************)
(* Encoder and decoder together perform the codec: every pair the encoder  *)
(* wrote is, when the decoder takes it apart, a match inside the window    *)
(* the two of them share, however the port masks and counts.               *)
(***************************************************************************)
CodecPerformed == Codec!SafeSpec

(***************************************************************************)
(* The port sees the end of the logo and goes on to print it.  Ports that  *)
(* test for equality do so only when the last group is not full: behind a  *)
(* full one they load another byte of flags first, and are past the end.   *)
(***************************************************************************)
LogoPrinted ==
  (label = "decompression_loop" /\ (port.ends = "at" => mask # 1))
    ~> (label = "done_logo" /\ Shown = text)

(***************************************************************************)
(* "have we reached the end?" (ll.i386.s, before je done_logo): the logo   *)
(* pointer never gets past the end unnoticed.                              *)
(***************************************************************************)
EndNoticed == label # "lost"

=============================================================================
