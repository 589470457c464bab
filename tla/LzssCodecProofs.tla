-------------------------- MODULE LzssCodecProofs ---------------------------
(***************************************************************************)
(* The dictionary coder reproduces every file, for every ring size, match  *)
(* limit, threshold and alphabet, and whether or not the decoder prepares  *)
(* its ring.                                                               *)
(***************************************************************************)
EXTENDS LzssCodec, TLAPS

USE RingAssumption, TextAssumption

\* A step in the ring stays in the ring; the mask of the code is a wrap.
LEMMA SuccInCells ==
  ASSUME NEW x \in Cells
  PROVE  /\ Succ(x) \in Cells
         /\ Succ(x) = IF x = N-1 THEN 0 ELSE x + 1
<1>1. CASE x = N-1
  <2>1. N % N = 0
    OBVIOUS
  <2>2. QED
    BY <1>1, <2>1 DEF Succ, Cells
<1>2. CASE x # N-1
  <2>1. x + 1 \in 0 .. N-1
    BY <1>2 DEF Cells
  <2>2. (x + 1) % N = x + 1
    BY <2>1
  <2>3. QED
    BY <1>2, <2>1, <2>2 DEF Succ, Cells
<1>3. QED
  BY <1>1, <1>2

\* Distances: a cell lies 1..N behind any other; the newest is at 1.
LEMMA DistanceRange ==
  ASSUME NEW x \in Cells, NEW w \in Cells
  PROVE  Distance(x, w) \in 1..N
BY DEF Distance, Cells

\* When the write position w moves on, the cell it leaves is the newest one
\* and every other one is one further back; a read position that moves along
\* keeps its distance.
LEMMA DistanceMoves ==
  ASSUME NEW x \in Cells, NEW w \in Cells
  PROVE  /\ x = w => Distance(x, Succ(w)) = 1
         /\ x # w => Distance(x, Succ(w)) = Distance(x, w) + 1
         /\ Distance(Succ(x), Succ(w)) = Distance(x, w)
<1>1. Succ(w) = IF w = N-1 THEN 0 ELSE w + 1
  BY SuccInCells
<1>2. Succ(x) = IF x = N-1 THEN 0 ELSE x + 1
  BY SuccInCells
<1>3. QED
  BY <1>1, <1>2 DEF Distance, Cells

-----------------------------------------------------------------------------
\* The decoder before its first unit.
LEMMA InitIInv == Init => IInv
<1> SUFFICES ASSUME Init PROVE IInv
  OBVIOUS
<1>1. TypeOK
  BY DEF Init, TypeOK, Cells
<1>2. RoundTrip
  BY DEF Init, RoundTrip
<1>3. WindowAgrees
  <2>1. SUFFICES ASSUME NEW x \in Cells, Reliable(x)
                 PROVE  ring[x] = Source(Len(out) + 1 - Back(x))
    BY DEF WindowAgrees
  <2>2. Back(x) \in 1..N /\ Len(out) = 0
    BY <1>1, DistanceRange DEF Init, Back, TypeOK
  <2>3. Prefilled
    BY <2>1, <2>2 DEF Reliable
  <2>4. x \in 0 .. N-F-1
    BY <2>1 DEF Init, Reliable, Back, Distance, Cells
  <2>5. Source(Len(out) + 1 - Back(x)) = Fill
    BY <2>2 DEF Source
  <2>6. QED
    BY <2>3, <2>4, <2>5 DEF Init
<1>4. PairInWindow
  BY DEF Init, PairInWindow
<1>5. QED
  BY <1>1, <1>2, <1>3, <1>4 DEF IInv

\* Storing the next byte of the text, whichever unit it comes from, keeps the
\* types of what it writes, the output a prefix of the text, and the window.
LEMMA StoreKeeps ==
  ASSUME IInv, text' = text, Len(out) < Len(text),
         StoreByte(text[Len(out) + 1])
  PROVE  /\ out' \in Seq(Byte)
         /\ Len(out') = Len(out) + 1
         /\ ring' \in [Cells -> Byte]
         /\ r' \in Cells
         /\ RoundTrip'
         /\ WindowAgrees'
<1> USE DEF IInv, TypeOK
<1>1. text \in Seq(Byte)
  OBVIOUS
<1>2. text[Len(out) + 1] \in Byte
  BY <1>1
<1>3. /\ out' \in Seq(Byte)
      /\ Len(out') = Len(out) + 1
      /\ \A i \in 1..Len(out) : out'[i] = out[i]
      /\ out'[Len(out) + 1] = text[Len(out) + 1]
  BY <1>2 DEF StoreByte
<1>4. ring' \in [Cells -> Byte]
  BY <1>2 DEF StoreByte
<1>5. r' \in Cells
  BY SuccInCells DEF StoreByte
<1>6. RoundTrip'
  BY <1>3 DEF RoundTrip
<1>7. WindowAgrees'
  <2> DEFINE d(x) == Distance(x, r')
  <2>1. SUFFICES ASSUME NEW x \in Cells,
                        d(x) <= N - F, Prefilled \/ d(x) <= Len(out')
                 PROVE  ring'[x] = Source(Len(out') + 1 - d(x))
    BY DEF WindowAgrees, Reliable, Back, Source
  <2>2. CASE x = r
    <3>1. d(x) = 1
      BY <2>2, DistanceMoves DEF StoreByte
    <3>2. ring'[x] = text[Len(out) + 1]
      BY <2>2 DEF StoreByte
    <3>3. QED
      BY <1>3, <3>1, <3>2 DEF Source
  <2>3. CASE x # r
    <3>1. d(x) = Back(x) + 1 /\ Back(x) \in 1..N
      BY <2>3, DistanceMoves, DistanceRange DEF StoreByte, Back
    <3>2. ring'[x] = ring[x]
      BY <2>3 DEF StoreByte
    <3>3. Reliable(x)
      BY <1>3, <2>1, <3>1 DEF Reliable
    <3>4. ring[x] = Source(Len(out) + 1 - Back(x))
      BY <3>3 DEF WindowAgrees
    <3>5. Len(out') + 1 - d(x) = Len(out) + 1 - Back(x)
      <4> HIDE DEF d
      <4>1. Len(out) \in Nat
        OBVIOUS
      <4>2. QED
        BY <1>3, <3>1, <4>1
    <3>6. QED
      BY <3>2, <3>4, <3>5
  <2>4. QED
    BY <2>2, <2>3
<1>8. QED
  BY <1>3, <1>4, <1>5, <1>6, <1>7

\* A pair that may be sent names a cell the decoder holds: without a prepared
\* ring the match cannot start in it, for the file does not contain Fill.
LEMMA MatchIsReliable ==
  ASSUME IInv, NEW p \in Cells, NEW n \in 1..F, ValidMatch(p, n)
  PROVE  Reliable(p)
<1> USE DEF IInv, TypeOK
<1>1. Back(p) \in 1..N
  BY DistanceRange DEF Back
<1>2. text[Len(out) + 1] = Source(Len(out) + 1 - Back(p))
  BY DEF ValidMatch
<1>3. ASSUME ~Prefilled, Back(p) > Len(out) PROVE FALSE
  <2>1. text[Len(out) + 1] = Fill
    BY <1>1, <1>2, <1>3 DEF Source
  <2>2. Len(out) + 1 \in 1..Len(text)
    BY DEF ValidMatch
  <2>3. QED
    BY <1>3, <2>1, <2>2, FillAssumption
<1>4. QED
  BY <1>1, <1>3 DEF Reliable, ValidMatch

\* The byte a pair copies is the next byte of the text.
LEMMA CopiesNextByte ==
  ASSUME IInv, left > 0
  PROVE  /\ ring[pos] = text[Len(out) + 1]
         /\ Len(out) < Len(text)
<1> USE DEF IInv, TypeOK
<1>1. Reliable(pos) /\ ValidMatch(pos, left)
  BY DEF PairInWindow
<1>2. ring[pos] = Source(Len(out) + 1 - Back(pos))
  BY <1>1 DEF WindowAgrees
<1>3. text[Len(out) + 1] = Source(Len(out) + 1 - Back(pos))
  BY <1>1 DEF ValidMatch
<1>4. QED
  BY <1>1, <1>2, <1>3 DEF ValidMatch

\* Every step of the decoder keeps all of it.
LEMMA StepIInv == IInv /\ [Next]_vars => IInv'
<1> SUFFICES ASSUME IInv, [Next]_vars PROVE IInv'
  OBVIOUS
<1> USE DEF IInv, TypeOK
<1>1. CASE Literal
  <2>1. /\ out' \in Seq(Byte) /\ ring' \in [Cells -> Byte] /\ r' \in Cells
        /\ RoundTrip' /\ WindowAgrees'
    BY <1>1, StoreKeeps DEF Literal
  <2>2. PairInWindow'
    BY <1>1 DEF Literal, PairInWindow
  <2>3. QED
    BY <1>1, <2>1, <2>2 DEF Literal
<1>2. ASSUME NEW p \in Cells, NEW n \in (Threshold+1) .. F, Pair(p, n)
      PROVE  IInv'
  <2>1. n \in 1..F /\ ValidMatch(p, n)
    BY <1>2 DEF Pair
  <2>2. Reliable(p)
    BY <2>1, MatchIsReliable
  <2>3. PairInWindow'
    BY <1>2, <2>1, <2>2
       DEF Pair, PairInWindow, Reliable, ValidMatch, Back, Source
  <2>4. RoundTrip' /\ WindowAgrees'
    BY <1>2 DEF Pair, RoundTrip, WindowAgrees, Reliable, Back, Source
  <2>5. TypeOK'
    BY <1>2, <2>1 DEF Pair
  <2>6. QED
    BY <2>3, <2>4, <2>5
<1>3. CASE CopyByte
  <2>1. StoreByte(text[Len(out) + 1]) /\ Len(out) < Len(text)
    BY <1>3, CopiesNextByte DEF CopyByte
  <2>2. /\ out' \in Seq(Byte) /\ ring' \in [Cells -> Byte] /\ r' \in Cells
        /\ Len(out') = Len(out) + 1
        /\ RoundTrip' /\ WindowAgrees'
    BY <1>3, <2>1, StoreKeeps DEF CopyByte
  <2>3. pos' \in Cells /\ left' \in 0..F /\ left' = left - 1
    BY <1>3, SuccInCells DEF CopyByte
  <2>4. Distance(pos', r') = Back(pos) /\ Back(pos) \in 1..N
    BY <1>3, DistanceMoves, DistanceRange DEF CopyByte, StoreByte, Back
  <2>5. ValidMatch(pos, left) /\ Reliable(pos)
    BY <1>3 DEF CopyByte, PairInWindow
  <2>6. ASSUME left' > 0 PROVE Reliable(pos)' /\ ValidMatch(pos, left)'
    <3>1. Reliable(pos)'
      BY <2>2, <2>4, <2>5 DEF Reliable, Back
    <3>2. ASSUME NEW k \in 1..left'
          PROVE  text[Len(out') + k] = Source(Len(out') + k - Back(pos))
      <4>1. k + 1 \in 1..left
        BY <2>3, <3>2
      <4>2. text[Len(out) + (k+1)] = Source(Len(out) + (k+1) - Back(pos))
        BY <2>5, <4>1 DEF ValidMatch
      <4>3. QED
        BY <2>2, <2>4, <4>2
    <3>3. ValidMatch(pos, left)'
      BY <1>3, <2>2, <2>3, <2>4, <2>5, <3>2
         DEF ValidMatch, Back, Source, CopyByte
    <3>4. QED
      BY <3>1, <3>3
  <2>7. PairInWindow'
    BY <2>6 DEF PairInWindow
  <2>8. QED
    BY <1>3, <2>2, <2>3, <2>7 DEF CopyByte
<1>4. CASE UNCHANGED vars
  BY <1>4 DEF vars, RoundTrip, WindowAgrees, PairInWindow, Reliable,
              ValidMatch, Back, Source
<1>5. QED
  BY <1>1, <1>2, <1>3, <1>4 DEF Next

-----------------------------------------------------------------------------
(***************************************************************************)
(* The state of the decoder stays well-typed; r and pos never leave        *)
(* text_buf, whatever the match positions and lengths.                     *)
(***************************************************************************)
THEOREM TypeCorrect == SafeSpec => []TypeOK
<1>1. IInv => TypeOK
  BY DEF IInv
<1>2. QED
  BY <1>1, InitIInv, StepIInv, PTL DEF SafeSpec

(***************************************************************************)
(* The decoder's output is always a prefix of the file: the literals and   *)
(* pairs of any encoder that keeps to the window decode to what was        *)
(* encoded, with or without a prepared ring.                               *)
(***************************************************************************)
THEOREM RoundTripHolds == SafeSpec => []RoundTrip
<1>1. IInv => RoundTrip
  BY DEF IInv
<1>2. QED
  BY <1>1, InitIInv, StepIInv, PTL DEF SafeSpec

\* Encoder and decoder agree on the window: the cells an encoder may name hold
\* the bytes of the file it saw in them.
THEOREM WindowHolds == SafeSpec => []WindowAgrees
<1>1. IInv => WindowAgrees
  BY DEF IInv
<1>2. QED
  BY <1>1, InitIInv, StepIInv, PTL DEF SafeSpec

(***************************************************************************)
(* A pair in progress never reads a cell outside the window, even when it  *)
(* runs into the bytes it has just produced: no byte the decoder did not   *)
(* write or prepare reaches the output.                                    *)
(***************************************************************************)
THEOREM PairStaysInWindow == SafeSpec => []PairInWindow
<1>1. IInv => PairInWindow
  BY DEF IInv
<1>2. QED
  BY <1>1, InitIInv, StepIInv, PTL DEF SafeSpec

(***************************************************************************)
(* The codec implements ByteCopy: every step delivers the next byte of the *)
(* file or leaves file and output alone.                                   *)
(***************************************************************************)
THEOREM CodecImplementsByteCopy == SafeSpec => ImplementsByteCopy
<1>1. Init => Abstract!Init
  BY DEF Init, Abstract!Init
<1>2. IInv /\ [Next]_vars => [Abstract!Next]_(Abstract!vars)
  <2> SUFFICES ASSUME IInv, [Next]_vars
               PROVE  [Abstract!Next]_(Abstract!vars)
    OBVIOUS
  <2> USE DEF Abstract!Next, Abstract!Deliver, Abstract!vars
  <2>1. CASE Literal
    BY <2>1 DEF Literal, StoreByte
  <2>2. ASSUME NEW p \in Cells, NEW n \in (Threshold+1) .. F, Pair(p, n)
        PROVE  UNCHANGED Abstract!vars
    BY <2>2 DEF Pair
  <2>3. CASE CopyByte
    BY <2>3, CopiesNextByte DEF CopyByte, StoreByte
  <2>4. CASE UNCHANGED vars
    BY <2>4 DEF vars
  <2>5. QED
    BY <2>1, <2>2, <2>3, <2>4 DEF Next
<1>3. QED
  BY <1>1, <1>2, InitIInv, StepIInv, PTL
     DEF SafeSpec, ImplementsByteCopy, Abstract!SafeSpec

=============================================================================
