------------------------- MODULE LzssEncoderProofs -------------------------
(***************************************************************************)
(* The compressor lzss_encode_better, for every size of bytes and ring,    *)
(* every file and every way its trees may come to look: its variables keep *)
(* their types, code_buf is large enough for a group, and text_buf is the  *)
(* window on the file that the search relies on.                           *)
(*                                                                         *)
(* Then the search trees: whatever is inserted into them, replaced and     *)
(* deleted, their links agree, and no string is left in them when its      *)
(* bytes are overwritten; and the match that InsertNode finds on its way   *)
(* down a tree is one, when the unit that names it is coded.               *)
(***************************************************************************)
EXTENDS LzssEncoder, WellFoundedInduction, TLAPS

USE SizeAssumption

-----------------------------------------------------------------------------
(* Numbers.                                                                *)

\* Induction, for what can be said with a set.
LEMMA LeastNumber ==
  ASSUME NEW S \in SUBSET Nat, S # {}
  PROVE  \E n \in S : \A m \in S : n <= m
<1>1. PICK n \in S : \A m \in S : ~ (<<m, n>> \in OpToRel(<, Nat))
  BY NatLessThanWellFounded, WFMin
<1>2. ASSUME NEW m \in S PROVE n <= m
  <2>1. ~ (m < n)
    BY <1>1 DEF OpToRel
  <2>2. QED
    BY <2>1
<1>3. QED
  BY <1>2

\* The bits of a byte have positive values.
LEMMA PowersPositive ==
  ASSUME NEW u \in 0 .. ByteBits
  PROVE  2^u \in Nat \ {0}
<1> DEFINE S == { v \in 0 .. ByteBits : 2^v \notin Nat \ {0} }
<1>1. SUFFICES ASSUME S # {} PROVE FALSE
  OBVIOUS
<1>2. PICK v \in S : \A m \in S : v <= m
  <2>1. S \in SUBSET Nat
    OBVIOUS
  <2>2. QED
    BY <1>1, <2>1, LeastNumber
<1>3. v \in 0 .. ByteBits /\ 2^v \notin Nat \ {0}
  OBVIOUS
<1>4. CASE v = 0
  <2>1. 2^0 = 1
    OBVIOUS
  <2>2. QED
    BY <1>3, <1>4, <2>1
<1>5. CASE v # 0
  <2>1. v - 1 \in 0 .. ByteBits-1 /\ v - 1 \in 0 .. ByteBits /\ (v - 1) + 1 = v
    BY <1>3, <1>5
  <2>2. 2^(v - 1) \in Nat \ {0}
    BY <1>2, <2>1
  <2>3. 2^v = 2 * 2^(v - 1)
    BY <2>1, PowerAssumption
  <2>4. QED
    BY <1>3, <2>2, <2>3
<1>6. QED
  BY <1>4, <1>5

\* A higher bit has a larger value.
LEMMA PowersIncrease ==
  ASSUME NEW u \in 0 .. ByteBits, NEW v \in 0 .. ByteBits, u < v
  PROVE  2^u < 2^v
<1> DEFINE S == { w \in u+1 .. ByteBits : ~ (2^u < 2^w) }
<1>1. SUFFICES ASSUME S # {} PROVE FALSE
  <2>1. v \in u+1 .. ByteBits
    OBVIOUS
  <2>2. S = {} => v \notin S
    OBVIOUS
  <2>3. QED
    BY <2>1, <2>2
<1>2. PICK w \in S : \A m \in S : w <= m
  <2>1. S \in SUBSET Nat
    OBVIOUS
  <2>2. QED
    BY <1>1, <2>1, LeastNumber
<1>3. w \in u+1 .. ByteBits /\ ~ (2^u < 2^w)
  OBVIOUS
<1>4. /\ w - 1 \in 0 .. ByteBits-1 /\ w - 1 \in 0 .. ByteBits /\ (w - 1) + 1 = w
      /\ w - 1 = u \/ w - 1 \in u+1 .. ByteBits
  BY <1>3
<1>5. 2^w = 2 * 2^(w - 1) /\ 2^(w - 1) \in Nat \ {0} /\ 2^u \in Nat \ {0}
  BY <1>4, PowerAssumption, PowersPositive
<1>6. 2^u <= 2^(w - 1)
  <2>1. CASE w - 1 = u
    BY <1>5, <2>1
  <2>2. CASE w - 1 \in u+1 .. ByteBits
    <3>1. w - 1 \notin S
      BY <1>2, <1>3
    <3>2. QED
      BY <1>5, <2>2, <3>1
  <2>3. QED
    BY <1>4, <2>1, <2>2
<1>7. QED
  BY <1>3, <1>5, <1>6

\* A byte has a value, and so has the part of a position that shares one.
LEMMA ByteSizes ==
  /\ ByteValues \in Nat \ {0}
  /\ PositionMask + 1 \in Nat \ {0}
<1>1. ByteBits \in 0 .. ByteBits
  OBVIOUS
<1>2. PositionBits - ByteBits \in 0 .. ByteBits
  BY WireAssumption
<1>3. 2^ByteBits \in Nat \ {0} /\ 2^(PositionBits - ByteBits) \in Nat \ {0}
  BY <1>1, <1>2, PowersPositive
<1>4. QED
  BY <1>3 DEF ByteValues, PositionMask

\* x modulo N, for what is less than once around the ring away from it.
Wrap(x) == IF x < 0 THEN x + N ELSE IF x >= N THEN x - N ELSE x

\* The modulus of the ring is one subtraction at most.
LEMMA ModIsWrap ==
  ASSUME NEW x \in 0 .. 2 * N - 1
  PROVE  x % N = Wrap(x)
<1>1. CASE x < N
  BY <1>1 DEF Wrap
<1>2. CASE x >= N
  <2>1. x - N \in 0 .. N-1 /\ x = N * 1 + (x - N)
    BY <1>2
  <2>2. x % N = x - N
    BY <2>1
  <2>3. QED
    BY <1>2, <2>2 DEF Wrap
<1>3. QED
  BY <1>1, <1>2

\* The next cell of the ring.
LEMMA SuccIsWrap ==
  ASSUME NEW x \in Nodes
  PROVE  Succ(x) = Wrap(x + 1) /\ Succ(x) \in Nodes
<1>1. x + 1 \in 0 .. 2 * N - 1
  BY DEF Nodes
<1>2. (x + 1) % N = Wrap(x + 1)
  BY <1>1, ModIsWrap
<1>3. QED
  BY <1>2 DEF Succ, Nodes, Wrap

-----------------------------------------------------------------------------
(* The comparison of two strings.                                          *)

\* The comparison loop stops, and where it stops the strings differ.
LEMMA DifferenceFound ==
  ASSUME NEW x, NEW y
  PROVE  /\ FirstDifference(x, y) \in 1..F
         /\ \A j \in 1 .. FirstDifference(x, y) - 1 :
              text_buf[x + j] = text_buf[y + j]
         /\ FirstDifference(x, y) < F =>
              text_buf[x + FirstDifference(x, y)]
                # text_buf[y + FirstDifference(x, y)]
<1> DEFINE Stops(k) == k < F => text_buf[x + k] # text_buf[y + k]
           Agrees(k) == \A j \in 1 .. k-1 : text_buf[x + j] = text_buf[y + j]
           S == { k \in 1..F : Stops(k) }
<1>1. PICK n \in S : \A m \in S : n <= m
  <2>1. F \in S
    OBVIOUS
  <2>2. S \in SUBSET Nat
    OBVIOUS
  <2>3. QED
    BY <2>1, <2>2, LeastNumber
<1>2. n \in 1..F /\ Stops(n)
  OBVIOUS
<1>3. Agrees(n)
  <2>1. SUFFICES ASSUME NEW j \in 1 .. n-1 PROVE text_buf[x + j] = text_buf[y + j]
    OBVIOUS
  <2>2. j \in 1..F /\ j < F /\ ~ (n <= j)
    BY <1>2
  <2>3. j \notin S
    BY <1>1, <2>2
  <2>4. QED
    BY <2>2, <2>3
<1>4. \E k \in 1..F : Agrees(k) /\ Stops(k)
  BY <1>2, <1>3
<1>5. FirstDifference(x, y) = CHOOSE k \in 1..F : Agrees(k) /\ Stops(k)
  BY DEF FirstDifference
<1>6. FirstDifference(x, y) \in 1..F /\ Agrees(FirstDifference(x, y))
        /\ Stops(FirstDifference(x, y))
  <2> HIDE DEF Agrees, Stops
  <2>1. QED
    BY <1>4, <1>5
<1>7. QED
  BY <1>6

\* The sign is a difference of bytes, and zero for strings that agree.
LEMMA CompareType ==
  ASSUME text_buf \in [Positions -> Byte], NEW x \in Nodes, NEW y \in Nodes
  PROVE  Compare(x, y) \in -(ByteValues - 1) .. ByteValues - 1
<1>1. FirstDifference(x, y) \in 1..F
  BY DifferenceFound
<1>2. CASE FirstDifference(x, y) = F
  BY <1>2, ByteSizes DEF Compare
<1>3. CASE FirstDifference(x, y) # F
  <2>1. x + FirstDifference(x, y) \in Positions /\ y + FirstDifference(x, y) \in Positions
    BY <1>1, <1>3 DEF Nodes, Positions
  <2>2. text_buf[x + FirstDifference(x, y)] \in Byte /\ text_buf[y + FirstDifference(x, y)] \in Byte
    BY <2>1
  <2>3. QED
    BY <1>3, <2>2, ByteSizes DEF Compare, Byte
<1>4. QED
  BY <1>2, <1>3

-----------------------------------------------------------------------------
(* The inductive invariant of the main loop.                               *)

\* DeleteNode runs between getc and the use of what it returned.
Deleting == pc \in {"delete", "descend", "advance"}

(***************************************************************************)
(* s follows F cells behind r, the strings before the first one are        *)
(* inserted from r-1 down, and no more bytes leave the buffer than are in  *)
(* it.                                                                     *)
(***************************************************************************)
Counters ==
  /\ s = Wrap(r + F)
  /\ pc = "prime" => i \in 1..F+1 /\ r = N - F /\ len > 0 /\ ret = "prime"
  /\ pc = "insert" =>
       /\ len > 0
       /\ ret = "prime" => i \in 2..F+1 /\ r = N - F /\ node = r - (i - 1)
       /\ ret = "encode" => i = F+1 /\ r = N - F /\ node = r
       /\ ret = "shift" => node = r /\ i <= last /\ last - i <= len
       /\ cmp < 0 => p \in Nodes
  /\ pc = "encode" => len > 0
  /\ pc = "shift" => i <= last /\ last - i <= len
  /\ Deleting => i < last /\ last - i <= len

\* The buffer is full until the file ends, and c the last byte read.
Supply ==
  /\ len <= read
  /\ len < F => read = Len(text)
  /\ Deleting =>
       \/ c = EOF /\ read = Len(text)
       \/ c # EOF /\ read > len /\ c = text[read] /\ len = F

\* The flags of code_buf[0] are those of the units in code_buf.
CodeShape ==
  \E u \in 0 .. ByteBits-1 :
    /\ mask = 2^u
    /\ Len(code) \in u + 1 .. 2 * u + 1
    /\ code[1] < mask

\* How many bytes of the file come before the string at r.
Passed == read - len - (IF Deleting /\ c # EOF THEN 1 ELSE 0)

(***************************************************************************)
(* The cell e places on from r holds the byte of the file that is e places *)
(* on, and so does its copy behind the end, once the string at that cell   *)
(* has been read.  (Of the cells filled before the first string there is   *)
(* no copy: no string reaches there across the end.)                       *)
(***************************************************************************)
Cell(e) == Wrap(r + e)

HoldsText(e) ==
  /\ text_buf[Cell(e)] = Source(Passed + 1 + e)
  /\ Cell(e) < F - 1 /\ e > Cell(e) - (N - F) =>
       text_buf[Cell(e) + N] = Source(Passed + 1 + e)

Window == \A e \in -(N - F) .. len-1 : HoldsText(e)

ScanInv == TypeOK /\ Counters /\ Supply /\ CodeShape /\ Window

-----------------------------------------------------------------------------
(* Each action keeps it.                                                   *)

\* A node or a root is where rson has a link.
LEMMA LinkSets ==
  /\ Nodes \subseteq Links /\ Links \subseteq RLinks /\ Nodes \subseteq RLinks
  /\ NIL \in Links /\ NIL \notin Nodes
  /\ \A b \in Byte : Root(b) \in RLinks /\ Root(b) \notin Links
BY ByteSizes DEF Nodes, Links, RLinks, NIL, Root, Byte

\* What the walk of InsertNode comes to is a string or nothing.
LEMMA ChildType ==
  ASSUME TypeOK, Counters, pc = "insert"
  PROVE  Child \in Links /\ (Child # NIL => Child \in Nodes)
<1>1. cmp < 0 => p \in Links
  BY LinkSets DEF Counters
<1>2. Child \in Links
  <2>1. CASE cmp >= 0
    BY <2>1 DEF TypeOK, Child
  <2>2. CASE cmp < 0
    BY <1>1, <2>2 DEF TypeOK, Child
  <2>3. QED
    BY <2>1, <2>2 DEF TypeOK
<1>3. Links = Nodes \cup {NIL}
  BY DEF Links, Nodes, NIL
<1>4. QED
  BY <1>2, <1>3

\* A string keeps to the trees' bounds when another takes its place.
LEMMA TakesPlaceType ==
  ASSUME NEW x \in Nodes, NEW y \in Links,
         NEW ls \in [Links -> Links], NEW rs \in [RLinks -> Links],
         NEW d \in [Links -> RLinks], TakesPlace(x, y, ls, rs, d)
  PROVE  /\ lson' \in [Links -> Links]
         /\ rson' \in [RLinks -> Links]
         /\ dad' \in [Links -> RLinks]
BY LinkSets DEF TakesPlace

\* The registers of newInsertNode when it is called.
LEMMA CallInsertType ==
  ASSUME TypeOK, NEW x \in Nodes, NEW tb \in [Positions -> Byte],
         NEW back \in {"prime", "encode", "shift"}, CallInsert(x, tb, back)
  PROVE  /\ node' \in Nodes /\ p' \in RLinks
         /\ cmp' \in -(ByteValues - 1) .. ByteValues - 1
         /\ rson' \in [RLinks -> Links] /\ lson' \in [Links -> Links]
         /\ match_length' \in 0..F
         /\ pc' = "insert" /\ ret' = back
<1>1. tb[x] \in Byte
  BY DEF Positions, Nodes
<1>2. p' \in RLinks
  BY <1>1, LinkSets DEF CallInsert
<1>3. 1 \in -(ByteValues - 1) .. ByteValues - 1
  <2>1. 2^0 < 2^ByteBits
    <3>1. 0 \in 0 .. ByteBits /\ ByteBits \in 0 .. ByteBits /\ 0 < ByteBits
      OBVIOUS
    <3>2. QED
      BY <3>1, PowersIncrease
  <2>2. 2^0 = 1
    OBVIOUS
  <2>3. QED
    BY <2>1, <2>2, ByteSizes DEF ByteValues
<1>4. QED
  BY <1>2, <1>3, LinkSets DEF CallInsert, TypeOK

\* A unit leaves code_buf in shape: the eighth one empties it.
LEMMA EmitShape ==
  ASSUME TypeOK, CodeShape, NEW flag \in {0, 1},
         NEW bytes \in Seq(Byte), Len(bytes) \in 1..2, Emit(flag, bytes)
  PROVE  /\ code' \in Seq(Byte) /\ mask' \in 1 .. ByteValues - 1
         /\ outfile' \in Seq(Byte)
         /\ CodeShape'
<1> DEFINE buf == [code EXCEPT ![1] = @ + flag * mask] \o bytes
<1>1. PICK u \in 0 .. ByteBits-1 :
         mask = 2^u /\ Len(code) \in u + 1 .. 2 * u + 1 /\ code[1] < mask
  BY DEF CodeShape
<1>2. code \in Seq(Byte) /\ outfile \in Seq(Byte) /\ mask \in Nat
        /\ ByteValues \in Nat \ {0}
  BY ByteSizes DEF TypeOK
<1>3. 2 * mask = 2^(u + 1) /\ 2 * mask <= ByteValues
  <2>1. 2 * mask = 2^(u + 1)
    BY <1>1, PowerAssumption
  <2>2. u + 1 \in 0 .. ByteBits /\ ByteBits \in 0 .. ByteBits
    BY <1>1
  <2>3. CASE u + 1 = ByteBits
    BY <2>1, <2>3 DEF ByteValues
  <2>4. CASE u + 1 < ByteBits
    <3>1. 2^(u + 1) < 2^ByteBits
      BY <2>2, <2>4, PowersIncrease
    <3>2. QED
      BY <1>2, <2>1, <3>1 DEF ByteValues
  <2>5. QED
    BY <2>2, <2>3, <2>4
<1>4. /\ 1 \in 1 .. Len(code) /\ code[1] \in 0 .. mask-1
      /\ code[1] + flag * mask \in 0 .. 2 * mask - 1
      /\ code[1] + flag * mask \in Byte
  <2>1. 1 \in 1 .. Len(code) /\ code[1] \in Byte
    BY <1>1, <1>2
  <2>2. code[1] \in 0 .. mask-1
    BY <1>1, <1>2, <2>1 DEF Byte
  <2>3. flag * mask = 0 \/ flag * mask = mask
    BY <1>2
  <2>4. code[1] + flag * mask \in 0 .. 2 * mask - 1
    BY <1>2, <2>2, <2>3
  <2>5. QED
    BY <1>2, <1>3, <2>1, <2>2, <2>4 DEF Byte
<1>5. /\ buf \in Seq(Byte)
      /\ Len(buf) = Len(code) + Len(bytes)
      /\ buf[1] = code[1] + flag * mask
  <2> DEFINE head == [code EXCEPT ![1] = @ + flag * mask]
  <2>1. head \in Seq(Byte) /\ Len(head) = Len(code)
          /\ head[1] = code[1] + flag * mask
    BY <1>2, <1>4
  <2> HIDE DEF head
  <2>2. head \o bytes \in Seq(Byte)
          /\ Len(head \o bytes) = Len(code) + Len(bytes)
          /\ (head \o bytes)[1] = code[1] + flag * mask
    BY <1>4, <2>1
  <2>3. QED
    BY <2>2 DEF head
<1> HIDE DEF buf
<1>6. CASE 2 * mask = ByteValues
  <2>1. outfile' = outfile \o buf /\ code' = <<0>> /\ mask' = 1
    BY <1>6 DEF Emit, buf
  <2>2. 0 \in Byte /\ 1 \in 1 .. ByteValues - 1
    BY <1>2, <1>4, <1>6 DEF Byte
  <2>3. 0 \in 0 .. ByteBits-1 /\ mask' = 2^0
    BY <2>1
  <2>4. Len(code') \in 0 + 1 .. 2 * 0 + 1 /\ code'[1] < mask'
    BY <2>1
  <2>5. CodeShape'
    BY <2>1, <2>3, <2>4 DEF CodeShape
  <2>6. QED
    BY <1>2, <1>5, <2>1, <2>2, <2>5
<1>7. CASE 2 * mask # ByteValues
  <2>1. code' = buf /\ mask' = 2 * mask /\ outfile' = outfile
    BY <1>7 DEF Emit, buf
  <2>2. u + 1 \in 0 .. ByteBits-1
    BY <1>1, <1>3, <1>7 DEF ByteValues
  <2>3. Len(code') \in (u + 1) + 1 .. 2 * (u + 1) + 1 /\ code'[1] < mask'
    <3>1. Len(code') \in (u + 1) + 1 .. 2 * (u + 1) + 1
      <4>1. Len(code') = Len(code) + Len(bytes)
        BY <1>5, <2>1
      <4>2. Len(code) \in u + 1 .. 2 * u + 1 /\ u \in Nat
        BY <1>1
      <4>3. Len(bytes) = 1 \/ Len(bytes) = 2
        OBVIOUS
      <4>4. ASSUME NEW a \in u + 1 .. 2 * u + 1, NEW b \in {1, 2}
            PROVE  a + b \in (u + 1) + 1 .. 2 * (u + 1) + 1
        OBVIOUS
      <4>5. QED
        BY <4>1, <4>2, <4>3, <4>4
    <3>2. code'[1] = code[1] + flag * mask
      BY <1>5, <2>1
    <3>3. QED
      BY <1>2, <1>4, <2>1, <3>1, <3>2
  <2>4. CodeShape'
    BY <1>3, <2>1, <2>2, <2>3 DEF CodeShape
  <2>5. mask' \in 1 .. ByteValues - 1
    <3>1. mask >= 1
      BY <1>2, <1>4
    <3>2. QED
      BY <1>2, <1>3, <1>7, <2>1, <3>1
  <2>6. QED
    BY <1>2, <1>5, <2>1, <2>4, <2>5
<1>8. QED
  BY <1>6, <1>7

\* A pair is two bytes.
LEMMA PairBytesType ==
  ASSUME NEW x \in Nat, NEW n \in Nat
  PROVE  PairBytes(x, n) \in Seq(Byte) /\ Len(PairBytes(x, n)) = 2
<1> DEFINE high == ((x \div ByteValues) % (PositionMask + 1))
                     + (n - (Threshold + 1)) * (PositionMask + 1)
<1>1. x % ByteValues \in Byte
  BY ByteSizes DEF Byte
<1>2. high \in Int
  <2>1. x \div ByteValues \in Int
    BY ByteSizes
  <2>2. (x \div ByteValues) % (PositionMask + 1) \in Int
    BY <2>1, ByteSizes
  <2>3. (n - (Threshold + 1)) * (PositionMask + 1) \in Int
    BY ByteSizes
  <2>4. QED
    BY <2>2, <2>3
<1>3. high % ByteValues \in Byte
  <2> HIDE DEF high
  <2>1. QED
    BY <1>2, ByteSizes DEF Byte
<1>4. PairBytes(x, n) = << x % ByteValues, high % ByteValues >>
  BY DEF PairBytes
<1> HIDE DEF high
<1>5. QED
  BY <1>1, <1>3, <1>4

\* Coding a unit.
LEMMA EncodeShape ==
  ASSUME TypeOK, Counters, CodeShape, Encode
  PROVE  /\ code' \in Seq(Byte) /\ mask' \in 1 .. ByteValues - 1
         /\ outfile' \in Seq(Byte)
         /\ CodeShape'
         /\ last' = match_length' /\ last' \in 1..F /\ last' <= len
<1>1. CASE EncodeLiteral
  <2>1. text_buf[r] \in Byte
    BY DEF TypeOK, Nodes, Positions
  <2>2. <<text_buf[r]>> \in Seq(Byte) /\ Len(<<text_buf[r]>>) \in 1..2
    BY <2>1
  <2>3. Emit(1, <<text_buf[r]>>) /\ match_length' = 1 /\ last' = match_length'
    BY <1>1 DEF EncodeLiteral, Encode
  <2>4. 1 \in 1..F /\ 1 <= len
    BY DEF Counters, Encode, TypeOK
  <2>5. QED
    BY <2>2, <2>3, <2>4, EmitShape
<1>2. CASE EncodePair
  <2>1. Clipped \in 1..F /\ Clipped <= len
    BY <1>2 DEF EncodePair, Clipped, Least, TypeOK
  <2>2. match_position \in Nat
    BY DEF TypeOK, Nodes
  <2>3. PairBytes(match_position, Clipped) \in Seq(Byte)
          /\ Len(PairBytes(match_position, Clipped)) \in 1..2
    BY <2>1, <2>2, PairBytesType
  <2>4. /\ Emit(0, PairBytes(match_position, Clipped))
        /\ match_length' = Clipped /\ last' = match_length'
    BY <1>2 DEF EncodePair, Encode
  <2>5. QED
    BY <2>1, <2>3, <2>4, EmitShape
<1>3. QED
  BY <1>1, <1>2 DEF Encode

\* Every step keeps the types.
LEMMA TypeStep ==
  ASSUME TypeOK, Counters, Supply, CodeShape, [Next]_vars
  PROVE  TypeOK'
<1> USE DEF TypeOK
<1>1. CASE Prime
  <2>1. r - i \in Nodes \/ i > F
    BY <1>1 DEF Prime, Counters, Nodes
  <2>2. CASE i <= F /\ CallInsert(r - i, text_buf, "prime") /\ i' = i + 1
    <3>1. r - i \in Nodes
      BY <2>1, <2>2
    <3>2. i' \in 0..F+1
      BY <2>2
    <3> HIDE DEF TypeOK
    <3>3. QED
      BY <1>1, <2>2, <3>1, <3>2, CallInsertType
      DEF Prime, TypeOK, scanVars, codeVars
  <2>3. CASE CallInsert(r, text_buf, "encode") /\ UNCHANGED i
    BY <1>1, <2>3, CallInsertType DEF Prime, scanVars, codeVars
  <2>4. QED
    BY <1>1, <2>2, <2>3 DEF Prime
<1>2. CASE InsertLeaf
  <2>1. node \in Links /\ node \in Nodes
    BY LinkSets
  <2>2. lson' \in [Links -> Links] /\ rson' \in [RLinks -> Links]
          /\ dad' \in [Links -> RLinks]
    BY <1>2, <2>1 DEF InsertLeaf
  <2>3. QED
    BY <1>2, <2>2 DEF InsertLeaf, scanVars, matchVars, codeVars
<1>3. CASE InsertWalk
  <2>1. Child \in Nodes /\ Child \in RLinks
    BY <1>3, ChildType, LinkSets DEF InsertWalk
  <2>2. FirstDifference(node, Child) \in 1..F
    BY DifferenceFound
  <2>3. cmp' \in -(ByteValues - 1) .. ByteValues - 1
    BY <1>3, <2>1, CompareType DEF InsertWalk
  <2>4. p' \in RLinks /\ match_length' \in 0..F /\ match_position' \in Nodes
    BY <1>3, <2>1, <2>2 DEF InsertWalk
  <2>5. QED
    BY <1>3, <2>3, <2>4 DEF InsertWalk, scanVars, treeVars, codeVars
<1>4. CASE InsertReplace
  <2>1. Child \in Nodes /\ Child \in RLinks /\ Child \in Links
    BY <1>4, ChildType, LinkSets DEF InsertReplace
  <2>2. p' \in RLinks /\ match_length' \in 0..F /\ match_position' \in Nodes
    BY <1>4, <2>1 DEF InsertReplace
  <2>3. cmp' \in -(ByteValues - 1) .. ByteValues - 1
    BY <1>4, ByteSizes DEF InsertReplace
  <2>4. lson' \in [Links -> Links] /\ rson' \in [RLinks -> Links]
          /\ dad' \in [Links -> RLinks]
    <3> DEFINE ls == [lson EXCEPT ![node] = lson[Child]]
               rs == [rson EXCEPT ![node] = rson[Child]]
               d == [dad EXCEPT ![node] = dad[Child],
                                ![lson[Child]] = node,
                                ![rson[Child]] = node]
    <3>1. node \in Links /\ node \in RLinks
      BY LinkSets
    <3>2. ls \in [Links -> Links] /\ rs \in [RLinks -> Links]
            /\ d \in [Links -> RLinks]
      BY <2>1, <3>1
    <3>3. TakesPlace(Child, node, ls, rs, d)
      BY <1>4 DEF InsertReplace
    <3> HIDE DEF ls, rs, d
    <3>4. QED
      BY <2>1, <3>1, <3>2, <3>3, TakesPlaceType
  <2>5. QED
    BY <1>4, <2>2, <2>3, <2>4 DEF InsertReplace, scanVars, codeVars
<1>5. CASE DeleteNode
  <2>1. s \in Nodes /\ s \in Links /\ s \in RLinks /\ q \in RLinks
    BY LinkSets
  <2>2. /\ UNCHANGED <<text, scanVars, matchVars, last, i, codeVars, ret>>
        /\ pc' \in {"advance", "descend"}
    BY <1>5
    DEF DeleteNode, DeleteAbsent, DeleteNarrow, DeleteLeft, DeleteDescend,
        DeletePredecessor, DeleteBy, DeleteFrame
  <2>3. /\ lson' \in [Links -> Links] /\ rson' \in [RLinks -> Links]
        /\ dad' \in [Links -> RLinks] /\ q' \in Links
    <3>1. CASE DeleteAbsent
      BY <3>1 DEF DeleteAbsent, treeVars
    <3>2. CASE DeleteNarrow
      <4>1. q' \in Links /\ q' \in RLinks
        BY <2>1, <3>2, LinkSets DEF DeleteNarrow
      <4>2. [dad EXCEPT ![q'] = dad[s]] \in [Links -> RLinks]
        BY <2>1
      <4>3. QED
        BY <2>1, <3>2, <4>1, <4>2, TakesPlaceType DEF DeleteNarrow, DeleteBy
    <3>3. CASE DeleteLeft
      <4>1. q' \in Links /\ q' \in RLinks
        BY <2>1, <3>3, LinkSets DEF DeleteLeft
      <4> DEFINE rs == [rson EXCEPT ![q'] = rson[s]]
                 d == [[dad EXCEPT ![rson[s]] = q'] EXCEPT ![q'] = [dad EXCEPT ![rson[s]] = q'][s]]
      <4>2. rs \in [RLinks -> Links] /\ d \in [Links -> RLinks]
        BY <2>1, <4>1
      <4>3. TakesPlace(s, q', lson, rs, d)
        BY <3>3 DEF DeleteLeft, DeleteBy
      <4> HIDE DEF rs, d
      <4>4. QED
        BY <2>1, <4>1, <4>2, <4>3, TakesPlaceType
    <3>4. CASE DeleteDescend
      BY <2>1, <3>4, LinkSets DEF DeleteDescend, treeVars
    <3>5. CASE DeletePredecessor
      <4> DEFINE ls == [lson EXCEPT ![q] = lson[s]]
                 r1 == [rson EXCEPT ![dad[q]] = lson[q]]
                 rs == [r1 EXCEPT ![q] = r1[s]]
                 d1 == [dad EXCEPT ![lson[q]] = dad[q]]
                 d2 == [d1 EXCEPT ![lson[s]] = q]
                 d3 == [d2 EXCEPT ![r1[s]] = q]
                 d4 == [d3 EXCEPT ![q] = d3[s]]
      <4>1. ls \in [Links -> Links] /\ r1 \in [RLinks -> Links]
        BY <2>1
      <4>2. d1 \in [Links -> RLinks]
        BY <2>1
      <4>3. d2 \in [Links -> RLinks]
        <5> HIDE DEF d1
        <5>1. QED
          BY <2>1, <4>2
      <4>4. rs \in [RLinks -> Links] /\ d3 \in [Links -> RLinks]
        <5> HIDE DEF r1, d2
        <5>1. QED
          BY <2>1, <4>1, <4>3
      <4>5. d4 \in [Links -> RLinks]
        <5> HIDE DEF d3
        <5>1. QED
          BY <2>1, <4>4
      <4>6. TakesPlace(s, q, ls, rs, d4) /\ q' = q
        BY <3>5 DEF DeletePredecessor, DeleteBy
      <4> HIDE DEF ls, rs, d4
      <4>7. QED
        BY <2>1, <4>1, <4>4, <4>5, <4>6, TakesPlaceType
    <3>6. QED
      BY <1>5, <3>1, <3>2, <3>3, <3>4, <3>5 DEF DeleteNode
  <2>4. QED
    BY <2>2, <2>3 DEF scanVars, matchVars, codeVars
<1>6. CASE Encode
  <2>1. /\ code' \in Seq(Byte) /\ mask' \in 1 .. ByteValues - 1
        /\ outfile' \in Seq(Byte)
        /\ last' = match_length' /\ last' \in 1..F
    BY <1>6, EncodeShape
  <2>2. i' \in 0..F+1
    BY <1>6 DEF Encode
  <2>3. QED
    BY <1>6, <2>1, <2>2 DEF Encode, scanVars, treeVars
<1>7. CASE Shift
  <2>1. read' \in 0 .. Len(text) /\ c' \in 0 .. EOF
    <3>1. CASE read < Len(text)
      <4>1. read + 1 \in 1 .. Len(text) /\ Len(text) \in Nat
        BY <3>1
      <4>2. text[read + 1] \in Byte
        BY <4>1
      <4>3. QED
        BY <1>7, <3>1, <4>1, <4>2, ByteSizes DEF Shift, Byte, EOF
    <3>2. CASE ~ (read < Len(text))
      BY <1>7, <3>2, ByteSizes DEF Shift, EOF
    <3>3. QED
      BY <3>1, <3>2
  <2>2. QED
    BY <1>7, <2>1 DEF Shift, treeVars, matchVars, codeVars
<1>8. CASE AdvanceByte
  <2>1. c \in Byte
    BY <1>8, ByteSizes DEF AdvanceByte, Byte, EOF
  <2>2. text_buf' \in [Positions -> Byte]
    BY <1>8, <2>1 DEF AdvanceByte
  <2>3. s' \in Nodes /\ r' \in Nodes
    BY <1>8, SuccIsWrap DEF AdvanceByte
  <2>4. i' \in 0..F+1
    BY <1>8 DEF AdvanceByte, Counters, Deleting
  <2>5. CallInsert(r', text_buf', "shift")
    BY <1>8 DEF AdvanceByte
  <2>6. /\ node' \in Nodes /\ p' \in RLinks
        /\ cmp' \in -(ByteValues - 1) .. ByteValues - 1
        /\ rson' \in [RLinks -> Links] /\ lson' \in [Links -> Links]
        /\ match_length' \in 0..F
        /\ pc' = "insert" /\ ret' = "shift"
    BY <2>2, <2>3, <2>5, CallInsertType
  <2>7. QED
    BY <1>8, <2>2, <2>3, <2>4, <2>6 DEF AdvanceByte, codeVars
<1>9. CASE AdvanceEnd
  <2>1. s' \in Nodes /\ r' \in Nodes
    BY <1>9, SuccIsWrap DEF AdvanceEnd
  <2>2. i' \in 0..F+1 /\ len' \in 0..F
    BY <1>9 DEF AdvanceEnd, Counters, Deleting
  <2>3. /\ node' \in Nodes /\ p' \in RLinks
        /\ cmp' \in -(ByteValues - 1) .. ByteValues - 1
        /\ rson' \in [RLinks -> Links] /\ lson' \in [Links -> Links]
        /\ match_length' \in 0..F
        /\ pc' \in {"insert", "shift"} /\ ret' \in {"prime", "encode", "shift"}
    <3>1. CASE CallInsert(r', text_buf, "shift")
      BY <2>1, <3>1, CallInsertType
    <3>2. CASE pc' = "shift" /\ UNCHANGED <<lson, rson, match_length, node, p, cmp, ret>>
      BY <3>2
    <3>3. QED
      BY <1>9, <3>1, <3>2 DEF AdvanceEnd
  <2>4. QED
    BY <1>9, <2>1, <2>2, <2>3 DEF AdvanceEnd, codeVars
<1>10. CASE Shifted
  BY <1>10 DEF Shifted, scanVars, treeVars, matchVars, codeVars
<1>11. CASE Flush
  <2>1. outfile' \in Seq(Byte)
    BY <1>11 DEF Flush
  <2>2. QED
    BY <1>11, <2>1 DEF Flush, scanVars, treeVars, matchVars
<1>12. CASE UNCHANGED vars
  BY <1>12 DEF vars
<1>13. QED
  BY <1>1, <1>2, <1>3, <1>4, <1>5, <1>6, <1>7, <1>8, <1>9, <1>10, <1>11, <1>12
  DEF Next, InsertNode

\* Every step keeps the counters together.
LEMMA CountersStep ==
  ASSUME TypeOK, Counters, CodeShape, [Next]_vars
  PROVE  Counters'
<1>0. /\ F \in Nat \ {0} /\ i \in 0..F+1 /\ last \in 0..F /\ len \in 0..F
      /\ r \in Nodes /\ s \in Nodes
  BY DEF TypeOK
<1>1. CASE Prime
  BY <1>0, <1>1 DEF Prime, Counters, Deleting, CallInsert, scanVars
<1>2. CASE InsertLeaf
  BY <1>0, <1>2 DEF InsertLeaf, Counters, Deleting, scanVars, matchVars, TypeOK
<1>3. CASE InsertWalk
  <2>1. Child \in Nodes
    BY <1>3, ChildType DEF InsertWalk
  <2>2. QED
    BY <1>0, <1>3, <2>1 DEF InsertWalk, Counters, Deleting, scanVars, treeVars
<1>4. CASE InsertReplace
  <2>1. /\ UNCHANGED <<scanVars, node, last, i, ret>> /\ cmp' = 0
        /\ pc = "insert" /\ pc' = ret
    BY <1>4 DEF InsertReplace
  <2>2. QED
    BY <1>0, <2>1 DEF Counters, Deleting, scanVars, TypeOK
<1>5. CASE DeleteNode
  <2>1. /\ UNCHANGED <<scanVars, matchVars, last, i, ret>>
        /\ pc \in {"delete", "descend"} /\ pc' \in {"advance", "descend"}
    BY <1>5
    DEF DeleteNode, DeleteAbsent, DeleteNarrow, DeleteLeft, DeleteDescend,
        DeletePredecessor, DeleteBy, DeleteFrame
  <2>2. QED
    BY <2>1 DEF Counters, Deleting, scanVars
<1>6. CASE Encode
  <2>1. last' \in 1..F /\ last' <= len
    BY <1>6, EncodeShape
  <2>2. /\ UNCHANGED scanVars /\ i' = 0 /\ pc' = "shift"
    BY <1>6 DEF Encode
  <2>3. i' <= last' /\ last' - i' <= len'
    <3>1. len' = len /\ i' = 0
      BY <2>2 DEF scanVars
    <3>2. ASSUME NEW n \in 1..F PROVE 0 <= n /\ (n <= len => n - 0 <= len)
      BY <1>0
    <3>3. QED
      BY <2>1, <3>1, <3>2
  <2>4. QED
    BY <2>2, <2>3 DEF Counters, Deleting, scanVars
<1>7. CASE Shift
  BY <1>0, <1>7 DEF Shift, Counters, Deleting
<1>8. CASE AdvanceByte
  <2>1. s' = Wrap(r' + F)
    BY <1>0, <1>8, SuccIsWrap DEF AdvanceByte, Counters, Wrap, Nodes
  <2>2. /\ i' = i + 1 /\ UNCHANGED <<len, last>>
        /\ pc = "advance" /\ pc' = "insert" /\ ret' = "shift" /\ node' = r' /\ cmp' = 1
    BY <1>8 DEF AdvanceByte, CallInsert
  <2>3. i < last /\ last - i <= len
    BY <2>2 DEF Counters, Deleting
  <2>4. QED
    BY <1>0, <2>1, <2>2, <2>3 DEF Counters, Deleting
<1>9. CASE AdvanceEnd
  <2>1. s' = Wrap(r' + F)
    BY <1>0, <1>9, SuccIsWrap DEF AdvanceEnd, Counters, Wrap, Nodes
  <2>2. /\ i' = i + 1 /\ len' = len - 1 /\ UNCHANGED last
        /\ pc = "advance"
        /\ \/ len' # 0 /\ pc' = "insert" /\ ret' = "shift" /\ node' = r' /\ cmp' = 1
           \/ pc' = "shift"
    BY <1>9 DEF AdvanceEnd, CallInsert
  <2>3. i < last /\ last - i <= len
    BY <2>2 DEF Counters, Deleting
  <2>4. QED
    BY <1>0, <2>1, <2>2, <2>3 DEF Counters, Deleting
<1>10. CASE Shifted
  BY <1>0, <1>10 DEF Shifted, Counters, Deleting, scanVars
<1>11. CASE Flush
  BY <1>11 DEF Flush, Counters, Deleting, scanVars
<1>12. CASE UNCHANGED vars
  BY <1>12 DEF vars, Counters, Deleting
<1>13. QED
  BY <1>1, <1>2, <1>3, <1>4, <1>5, <1>6, <1>7, <1>8, <1>9, <1>10, <1>11, <1>12
  DEF Next, InsertNode

\* What an action that is none of Shift, AdvanceByte and AdvanceEnd leaves.
LEMMA ScanFrame ==
  ASSUME TypeOK, [Next]_vars, ~ Shift, ~ AdvanceByte, ~ AdvanceEnd
  PROVE  UNCHANGED <<text, scanVars>> /\ (Deleting <=> Deleting')
<1>1. CASE DeleteNode
  BY <1>1
  DEF DeleteNode, DeleteAbsent, DeleteNarrow, DeleteLeft, DeleteDescend,
      DeletePredecessor, DeleteBy, DeleteFrame, Deleting
<1>2. CASE InsertNode
  BY <1>2 DEF InsertNode, InsertLeaf, InsertWalk, InsertReplace, Deleting, TypeOK
<1>3. CASE Prime \/ Encode \/ Shifted \/ Flush
  BY <1>3 DEF Prime, CallInsert, Encode, Shifted, Flush, Deleting
<1>4. CASE UNCHANGED vars
  BY <1>4 DEF vars, scanVars, Deleting
<1>5. QED
  BY <1>1, <1>2, <1>3, <1>4 DEF Next

\* Every step keeps the count of bytes read and not yet coded.
LEMMA SupplyStep ==
  ASSUME TypeOK, Counters, Supply, [Next]_vars
  PROVE  Supply'
<1>1. CASE Shift
  <2>1. CASE read < Len(text)
    <3>1. /\ len = F /\ read + 1 \in 1 .. Len(text) /\ text \in Seq(Byte)
          /\ read \in Nat /\ len <= read /\ read + 1 > len
      BY <2>1 DEF Supply, TypeOK
    <3>2. text[read + 1] \in Byte
      BY <3>1
    <3>3. text[read + 1] # EOF
      BY <3>2, ByteSizes DEF Byte, EOF
    <3>4. c' = text'[read'] /\ read' = read + 1 /\ UNCHANGED <<text, len>> /\ pc' = "delete"
      BY <1>1, <2>1 DEF Shift
    <3>5. QED
      BY <3>1, <3>3, <3>4 DEF Supply, Deleting
  <2>2. CASE ~ (read < Len(text))
    <3>1. read = Len(text) /\ read' = read /\ c' = EOF /\ UNCHANGED <<text, len>>
      BY <1>1, <2>2 DEF Shift, TypeOK
    <3>2. EOF' = EOF
      BY DEF EOF
    <3>3. QED
      BY <3>1, <3>2 DEF Supply
  <2>3. QED
    BY <2>1, <2>2
<1>2. CASE AdvanceByte
  BY <1>2 DEF AdvanceByte, CallInsert, Supply, Deleting
<1>3. CASE AdvanceEnd
  <2>1. pc = "advance" /\ c = EOF /\ UNCHANGED <<text, read>> /\ pc' \in {"insert", "shift"}
    BY <1>3 DEF AdvanceEnd, CallInsert
  <2>2. read = Len(text) /\ len <= read /\ len' = len - 1
    BY <1>3, <2>1 DEF Supply, Deleting, AdvanceEnd
  <2>3. len' <= read'
    BY <2>1, <2>2 DEF TypeOK
  <2>4. QED
    BY <2>1, <2>2, <2>3 DEF Supply, Deleting
<1>4. CASE ~ Shift /\ ~ AdvanceByte /\ ~ AdvanceEnd
  BY <1>4, ScanFrame DEF Supply, scanVars
<1>5. QED
  BY <1>1, <1>2, <1>3, <1>4

\* Every step keeps code_buf and mask together.
LEMMA CodeStep ==
  ASSUME TypeOK, Counters, CodeShape, [Next]_vars
  PROVE  CodeShape'
<1>1. CASE Encode
  BY <1>1, EncodeShape
<1>2. CASE ~ Encode
  <2>1. UNCHANGED <<code, mask>>
    <3>1. CASE DeleteNode
      BY <3>1
      DEF DeleteNode, DeleteAbsent, DeleteNarrow, DeleteLeft, DeleteDescend,
          DeletePredecessor, DeleteFrame, codeVars
    <3>2. CASE InsertNode
      BY <3>2 DEF InsertNode, InsertLeaf, InsertWalk, InsertReplace, codeVars
    <3>3. CASE Prime \/ Shift \/ AdvanceByte \/ AdvanceEnd \/ Shifted \/ Flush
      BY <3>3 DEF Prime, Shift, AdvanceByte, AdvanceEnd, Shifted, Flush, codeVars
    <3>4. CASE UNCHANGED vars
      BY <3>4 DEF vars
    <3>5. QED
      BY <1>2, <3>1, <3>2, <3>3, <3>4 DEF Next
  <2>2. QED
    BY <2>1 DEF CodeShape
<1>3. QED
  BY <1>1, <1>2

-----------------------------------------------------------------------------
(* The window moves on.                                                    *)

\* Different places of the ring are different cells.
LEMMA CellsDiffer ==
  ASSUME TypeOK, NEW e \in -(N - F) .. F-1, NEW f \in -(N - F) .. F-1, e # f
  PROVE  Cell(e) \in Nodes /\ Cell(e) # Cell(f)
BY DEF TypeOK, Nodes, Cell, Wrap

\* The place coded stays where it is until the window moves: the byte that has
\* been read is not in the buffer yet.
LEMMA PassedStays ==
  ASSUME ScanInv, [Next]_vars, ~ AdvanceByte, ~ AdvanceEnd
  PROVE  Passed' = Passed /\ UNCHANGED <<text, text_buf, s, r, len>>
<1>1. read \in Nat /\ len \in 0..F /\ text \in Seq(Byte)
  BY DEF ScanInv, TypeOK
<1>2. CASE Shift
  <2>1. UNCHANGED <<text, text_buf, s, r, len>> /\ ~ Deleting /\ Deleting'
    BY <1>2 DEF Shift, Deleting
  <2>2. CASE read < Len(text)
    <3>1. read' = read + 1 /\ c' \in Byte
      <4>1. read + 1 \in 1 .. Len(text)
        BY <1>1, <2>2
      <4>2. QED
        BY <1>1, <1>2, <2>2, <4>1 DEF Shift
    <3>2. c' # EOF'
      BY <3>1, ByteSizes DEF EOF, Byte
    <3>3. QED
      BY <1>1, <2>1, <3>1, <3>2 DEF Passed
  <2>3. CASE ~ (read < Len(text))
    <3>1. c' = EOF' /\ read' = read
      BY <1>2, <2>3 DEF Shift, EOF
    <3>2. QED
      BY <1>1, <2>1, <3>1 DEF Passed
  <2>4. QED
    BY <2>1, <2>2, <2>3
<1>3. CASE ~ Shift
  <2>1. UNCHANGED <<text, read, c, text_buf, s, r, len>> /\ (Deleting <=> Deleting')
    BY <1>3, ScanFrame DEF ScanInv, scanVars
  <2>2. QED
    BY <2>1 DEF Passed, EOF
<1>4. QED
  BY <1>2, <1>3

\* Then it is one byte further.
LEMMA PassedMoves ==
  ASSUME ScanInv, AdvanceByte \/ AdvanceEnd
  PROVE  Passed' = Passed + 1 /\ r' = Wrap(r + 1) /\ UNCHANGED <<text, read>>
<1>1. /\ read \in Nat /\ len \in 0..F /\ r \in Nodes
      /\ Deleting /\ ~ Deleting' /\ r' = Succ(r) /\ UNCHANGED <<text, read>>
  BY DEF ScanInv, TypeOK, AdvanceByte, AdvanceEnd, CallInsert, Deleting
<1>2. Passed' = Passed + 1
  <2>1. CASE AdvanceByte
    BY <1>1, <2>1 DEF AdvanceByte, Passed
  <2>2. CASE AdvanceEnd
    BY <1>1, <2>2 DEF AdvanceEnd, Passed
  <2>3. QED
    BY <2>1, <2>2
<1>3. QED
  BY <1>1, <1>2, SuccIsWrap

\* Every step keeps the window on the text.
LEMMA WindowStep ==
  ASSUME ScanInv, [Next]_vars
  PROVE  Window'
<1> USE DEF ScanInv
<1>0. /\ r \in Nodes /\ s \in Nodes /\ s = Wrap(r + F) /\ N \in Nat /\ F \in Nat \ {0}
      /\ len \in 0..F /\ read \in Nat /\ text_buf \in [Positions -> Byte]
  BY DEF TypeOK, Counters
<1>1. CASE ~ AdvanceByte /\ ~ AdvanceEnd
  <2>1. Passed' = Passed /\ UNCHANGED <<text, text_buf, s, r, len>>
    BY <1>1, PassedStays
  <2>2. QED
    BY <2>1 DEF Window, HoldsText, Cell, Source
<1>2. CASE AdvanceByte
  <2>1. /\ pc = "advance" /\ Deleting /\ c # EOF /\ ~ Deleting'
        /\ r' = Wrap(r + 1) /\ UNCHANGED <<text, read, len>>
        /\ len = F /\ c = text[read] /\ read > len
        /\ text_buf' = [x \in Positions |->
                    IF x = s \/ (s < F - 1 /\ x = s + N) THEN c
                                                         ELSE text_buf[x]]
    BY <1>2, SuccIsWrap, <1>0 DEF AdvanceByte, Supply, Deleting, CallInsert
  <2>2. Passed = read - F - 1 /\ Passed' = Passed + 1
    BY <1>0, <2>1 DEF Passed
  <2>3. SUFFICES ASSUME NEW e \in -(N - F) .. F-1 PROVE HoldsText(e)'
    BY <2>1 DEF Window
  <2>4. Cell(e)' = Wrap(Wrap(r + 1) + e) /\ Cell(e)' \in Nodes
    BY <1>0, <2>1 DEF Cell, Wrap, Nodes
  <2>5. CASE e = F - 1
    <3>1. Cell(e)' = s
      BY <1>0, <2>4, <2>5 DEF Wrap, Nodes
    <3>2. /\ text_buf'[s] = c
          /\ s < F - 1 => text_buf'[s + N] = c
      BY <1>0, <2>1 DEF Positions, Nodes
    <3>3. Source(Passed + 1 + e)' = c
      BY <1>0, <2>1, <2>2, <2>5 DEF Source
    <3>4. QED
      BY <3>1, <3>2, <3>3 DEF HoldsText
  <2>6. CASE e < F - 1
    <3>1. e + 1 \in -(N - F) .. F-1
      BY <1>0, <2>6
    <3>2. Cell(e)' = Cell(e + 1) /\ Cell(e)' # s
      BY <1>0, <2>4, <2>6 DEF Cell, Wrap, Nodes
    <3>3. HoldsText(e + 1)
      BY <2>1, <3>1 DEF Window
    <3>4. text_buf'[Cell(e)'] = text_buf[Cell(e + 1)]
      BY <1>0, <2>1, <2>4, <3>2 DEF Nodes, Positions
    <3>5. Cell(e)' < F - 1 => text_buf'[Cell(e)' + N] = text_buf[Cell(e + 1) + N]
      BY <1>0, <2>1, <2>4, <3>2 DEF Nodes, Positions
    <3>6. Source(Passed + 1 + e)' = Source(Passed + 1 + (e + 1))
      <4>1. Passed \in Int
        BY <1>0, <2>2
      <4>2. Passed' + 1 + e = Passed + 1 + (e + 1)
        BY <2>2, <3>1, <4>1
      <4>3. QED
        BY <2>1, <4>2 DEF Source
    <3>7. QED
      BY <1>0, <2>4, <3>2, <3>3, <3>4, <3>5, <3>6 DEF HoldsText, Nodes
  <2>7. QED
    BY <2>5, <2>6, <1>0
<1>3. CASE AdvanceEnd
  <2>1. /\ pc = "advance" /\ c = EOF /\ ~ Deleting'
        /\ r' = Wrap(r + 1) /\ len' = len - 1 /\ UNCHANGED <<text, text_buf, read>>
    BY <1>3, SuccIsWrap, <1>0 DEF AdvanceEnd, Deleting, CallInsert
  <2>2. Passed = read - len /\ Passed' = Passed + 1
    BY <1>0, <2>1 DEF Passed
  <2>3. SUFFICES ASSUME NEW e \in -(N - F) .. len'-1 PROVE HoldsText(e)'
    BY <2>1 DEF Window
  <2>4. e + 1 \in -(N - F) .. len-1
    BY <1>0, <2>1
  <2>5. Cell(e)' = Cell(e + 1) /\ Cell(e)' \in Nodes
    BY <1>0, <2>1, <2>4 DEF Cell, Wrap, Nodes
  <2>6. HoldsText(e + 1)
    BY <2>4 DEF Window
  <2>7. Source(Passed + 1 + e)' = Source(Passed + 1 + (e + 1))
    <3>1. Passed \in Int
      BY <1>0, <2>2
    <3>2. Passed' + 1 + e = Passed + 1 + (e + 1)
      BY <1>0, <2>1, <2>2, <3>1
    <3>3. QED
      BY <2>1, <3>2 DEF Source
  <2>8. QED
    BY <1>0, <2>1, <2>5, <2>6, <2>7 DEF HoldsText, Nodes
<1>4. QED
  BY <1>1, <1>2, <1>3

-----------------------------------------------------------------------------
(* The invariant holds, and what follows from it.                          *)

\* The buffer and the counters at the start.
LEMMA InitScan == Init => ScanInv
<1> SUFFICES ASSUME Init PROVE ScanInv
  OBVIOUS
<1>1. /\ text \in Seq(Byte) /\ Len(text) \in Nat
      /\ FrequentChar \in Byte /\ 0 \in Byte /\ ByteValues \in Nat
      /\ 1 \in 1 .. ByteValues - 1
  <2>1. text \in Seq(Byte)
    BY FileAssumption DEF Init
  <2>2. 2^0 < 2^ByteBits
    <3>1. 0 \in 0 .. ByteBits /\ ByteBits \in 0 .. ByteBits /\ 0 < ByteBits
      OBVIOUS
    <3>2. QED
      BY <3>1, PowersIncrease
  <2>3. 2^0 = 1
    OBVIOUS
  <2>4. QED
    BY <2>1, <2>2, <2>3, FileAssumption, ByteSizes DEF ByteValues, Byte
<1>2. /\ read \in 0 .. Len(text) /\ len = read /\ len \in 0..F
      /\ len < F => read = Len(text)
  BY <1>1 DEF Init, Least
<1>3. text_buf \in [Positions -> Byte]
  <2>1. ASSUME NEW x \in Positions, x >= N - F, x < N - F + len
        PROVE  text[x - (N - F) + 1] \in Byte
    <3>1. x - (N - F) + 1 \in 1 .. Len(text)
      BY <1>1, <1>2, <2>1 DEF Positions
    <3>2. QED
      BY <1>1, <3>1
  <2>2. ASSUME NEW x \in Positions
        PROVE  (IF x < N - F THEN FrequentChar
                ELSE IF x < N - F + len THEN text[x - (N - F) + 1] ELSE 0) \in Byte
    <3>1. CASE x < N - F
      BY <1>1, <3>1
    <3>2. CASE ~ (x < N - F) /\ x < N - F + len
      <4>1. x >= N - F
        BY <3>2 DEF Positions
      <4>2. QED
        BY <2>1, <3>2, <4>1
    <3>3. CASE ~ (x < N - F) /\ ~ (x < N - F + len)
      BY <1>1, <3>3
    <3>4. QED
      BY <3>1, <3>2, <3>3
  <2>3. QED
    BY <2>2 DEF Init
<1>4. c \in 0 .. EOF
  <2>1. CASE len < F
    BY <1>1, <2>1 DEF Init, EOF
  <2>2. CASE ~ (len < F)
    <3>1. F \in 1 .. Len(text)
      BY <1>1, <1>2, <2>2
    <3>2. text[F] \in Byte
      BY <1>1, <3>1
    <3>3. QED
      BY <1>1, <2>2, <3>2 DEF Init, EOF, Byte
  <2>3. QED
    BY <2>1, <2>2
<1>5. /\ lson \in [Links -> Links] /\ rson \in [RLinks -> Links]
      /\ dad \in [Links -> RLinks]
  <2>1. 0 \in Links /\ NIL \in Links /\ 0 \in RLinks /\ NIL \in RLinks
    BY LinkSets DEF Links, NIL
  <2>2. QED
    BY <2>1 DEF Init
<1>6. TypeOK
  <2>1. s \in Nodes /\ r \in Nodes /\ match_position \in Nodes /\ node \in Nodes
          /\ p \in RLinks /\ q \in Links /\ match_length \in 0..F /\ last \in 0..F
          /\ i \in 0..F+1
    BY LinkSets DEF Init, Nodes, Links
  <2>2. cmp \in -(ByteValues - 1) .. ByteValues - 1 /\ mask \in 1 .. ByteValues - 1
    BY <1>1 DEF Init
  <2>3. code \in Seq(Byte) /\ outfile \in Seq(Byte)
    BY <1>1 DEF Init
  <2>4. QED
    BY <1>1, <1>2, <1>3, <1>4, <1>5, <2>1, <2>2, <2>3 DEF Init, TypeOK
<1>7. Counters
  <2>1. s = Wrap(r + F)
    BY DEF Init, Wrap
  <2>2. QED
    BY <1>2, <2>1 DEF Init, Counters, Deleting
<1>8. Supply
  BY <1>2 DEF Init, Supply, Deleting
<1>9. CodeShape
  <2>1. 0 \in 0 .. ByteBits-1 /\ mask = 2^0
    BY DEF Init
  <2>2. Len(code) \in 0 + 1 .. 2 * 0 + 1 /\ code[1] < mask
    BY DEF Init
  <2>3. QED
    BY <2>1, <2>2 DEF CodeShape
<1>10. Window
  <2>1. Passed = 0 /\ r = N - F
    BY <1>2 DEF Init, Passed, Deleting
  <2>2. SUFFICES ASSUME NEW e \in -(N - F) .. len-1 PROVE HoldsText(e)
    BY DEF Window
  <2>3. Cell(e) = N - F + e /\ Cell(e) \in Positions
    BY <1>2, <2>1 DEF Cell, Wrap, Positions
  <2>4. ~ (e > Cell(e) - (N - F))
    BY <1>2, <2>3
  <2>5. CASE e < 0
    BY <2>1, <2>3, <2>4, <2>5 DEF Init, HoldsText, Source
  <2>6. CASE e >= 0
    <3>1. text_buf[Cell(e)] = text[Cell(e) - (N - F) + 1]
      BY <1>2, <2>3, <2>6 DEF Init
    <3>2. Cell(e) - (N - F) + 1 = Passed + 1 + e /\ Passed + 1 + e >= 1
      BY <1>2, <2>1, <2>3, <2>6
    <3>3. QED
      BY <2>4, <3>1, <3>2 DEF HoldsText, Source
  <2>7. QED
    BY <1>2, <2>5, <2>6
<1>11. QED
  BY <1>6, <1>7, <1>8, <1>9, <1>10 DEF ScanInv

\* The inductive invariant of the main loop.
THEOREM ScanInvariant == SafeSpec => []ScanInv
<1>1. Init => ScanInv
  BY InitScan
<1>2. ScanInv /\ [Next]_vars => ScanInv'
  BY TypeStep, CountersStep, SupplyStep, CodeStep, WindowStep DEF ScanInv
<1>3. QED
  BY <1>1, <1>2, PTL DEF SafeSpec

\* No index of lzss_encode_better leaves the array it is used on, and no byte
\* it computes leaves its range: every variable keeps its type.
THEOREM TypeCorrect == Spec => []TypeOK
<1>1. ScanInv => TypeOK
  BY DEF ScanInv
<1>2. QED
  BY <1>1, ScanInvariant, PTL DEF Spec

\* What the shape of code_buf says of its length.
LEMMA ShapeFits ==
  ASSUME ScanInv
  PROVE  CodeBufFits
<1>1. PICK u \in 0 .. ByteBits-1 :
         mask = 2^u /\ Len(code) \in u + 1 .. 2 * u + 1
  BY DEF ScanInv, CodeShape
<1>2. ASSUME NEW v \in 0 .. ByteBits-1, 2^v = mask
      PROVE  v = u
  <2>1. u \in 0 .. ByteBits /\ v \in 0 .. ByteBits
    OBVIOUS
  <2>2. 2^u \in Nat /\ 2^v \in Nat
    BY <2>1, PowersPositive
  <2>3. ~ (u < v) /\ ~ (v < u)
    BY <1>1, <1>2, <2>1, <2>2, PowersIncrease
  <2>4. QED
    BY <2>1, <2>3
<1>3. UnitsIn(mask) = u
  BY <1>1, <1>2 DEF UnitsIn
<1>4. 2 * u + 1 <= 2 * ByteBits + 1
  OBVIOUS
<1>5. ASSUME NEW n \in u + 1 .. 2 * u + 1 PROVE n <= 2 * ByteBits + 1
  BY <1>4
<1>6. QED
  BY <1>1, <1>3, <1>5 DEF CodeBufFits

\* code_buf never holds more than a flag byte and eight units, and its length
\* always agrees with the flag that comes next.
THEOREM GroupFitsBuffer == Spec => []CodeBufFits
<1>1. ScanInv => CodeBufFits
  BY ShapeFits
<1>2. QED
  BY <1>1, ScanInvariant, PTL DEF Spec

\* The cell of a string of the window, and of the byte k places on from it.
LEMMA WindowCells ==
  ASSUME ScanInv, ~ Deleting
  PROVE  /\ \A x \in Nodes : Behind(x) <= N - F =>
              text_buf[x] = Source(Coded + 1 - Behind(x))
         /\ \A k \in 0 .. len-1 :
              /\ text_buf[(r + k) % N] = Source(Coded + 1 + k)
              /\ text_buf[r + k] = Source(Coded + 1 + k)
<1>1. /\ r \in Nodes /\ len \in 0..F /\ read \in Nat /\ N \in Nat /\ F \in Nat
  BY DEF ScanInv, TypeOK
<1>2. Passed = Coded /\ Coded \in Int
  BY <1>1 DEF Passed, Coded
<1>3. ASSUME NEW x \in Nodes, Behind(x) <= N - F
      PROVE  text_buf[x] = Source(Coded + 1 - Behind(x))
  <2> DEFINE e == 0 - Behind(x)
  <2>1. Behind(x) \in 1..N /\ e \in -(N - F) .. len-1
    BY <1>1, <1>3 DEF Behind, Nodes
  <2>2. Cell(e) = x
    BY <1>1, <2>1 DEF Cell, Wrap, Behind, Nodes
  <2>3. text_buf[Cell(e)] = Source(Passed + 1 + e)
    BY <2>1 DEF ScanInv, Window, HoldsText
  <2>4. Passed + 1 + e = Coded + 1 - Behind(x)
    BY <1>2, <2>1
  <2>5. QED
    BY <2>2, <2>3, <2>4
<1>4. ASSUME NEW k \in 0 .. len-1
      PROVE  /\ text_buf[(r + k) % N] = Source(Coded + 1 + k)
             /\ text_buf[r + k] = Source(Coded + 1 + k)
  <2>1. k \in -(N - F) .. len-1 /\ HoldsText(k)
    <3>1. k \in -(N - F) .. len-1
      BY <1>1
    <3>2. QED
      BY <3>1 DEF ScanInv, Window
  <2>2. (r + k) % N = Cell(k)
    <3>1. r + k \in 0 .. 2 * N - 1
      BY <1>1 DEF Nodes
    <3>2. QED
      BY <3>1, ModIsWrap DEF Cell
  <2>3. text_buf[Cell(k)] = Source(Coded + 1 + k)
    BY <1>2, <2>1 DEF HoldsText
  <2>4. CASE r + k < N
    BY <1>1, <2>2, <2>3, <2>4 DEF Cell, Wrap, Nodes
  <2>5. CASE r + k >= N
    <3>1. Cell(k) + N = r + k /\ Cell(k) < F - 1 /\ k > Cell(k) - (N - F)
      BY <1>1, <2>5 DEF Cell, Wrap, Nodes
    <3>2. QED
      BY <1>2, <2>1, <2>2, <3>1 DEF HoldsText
  <2>6. QED
    BY <1>1, <2>4, <2>5 DEF Nodes
<1>5. QED
  BY <1>3, <1>4

\* What the window holds is the text around the place coded.
LEMMA WindowShown ==
  ASSUME ScanInv
  PROVE  WindowIsText
<1>1. SUFFICES ASSUME pc = "encode" PROVE WindowIsText
  BY DEF WindowIsText
<1>2. ~ Deleting
  BY <1>1 DEF Deleting
<1>3. len \in 0..F /\ read \in Nat /\ Coded >= 0
  BY DEF ScanInv, TypeOK, Supply, Coded
<1>4. ASSUME NEW k \in 0 .. len-1
      PROVE  Source(Coded + 1 + k) = text[Coded + 1 + k]
  BY <1>3 DEF Source, Coded
<1>5. QED
  BY <1>2, <1>4, WindowCells DEF WindowIsText

\* Whenever a unit is about to be coded, text_buf shows the bytes of the file
\* around the place that is coded, behind its end too.
THEOREM WindowFollowsText == Spec => []WindowIsText
<1>1. ScanInv => WindowIsText
  BY WindowShown
<1>2. QED
  BY <1>1, ScanInvariant, PTL DEF Spec

-----------------------------------------------------------------------------
(* What the links of a forest obey.  The pointers are parameters, for the  *)
(* trees are changed by several assignments in a row.  A root is a link    *)
(* like a node, but for its missing left side.                             *)

\* w is a root, or a node that is in a tree.
Live(w, d) == w \in Roots \/ (w \in Nodes /\ d[w] # NIL)

\* The first byte of the strings in the tree of w.
Keys == [w \in RLinks |-> IF w \in Nodes THEN text_buf[w] ELSE w - (N + 1)]

\* A dad has the child, on one side ...
UpLinks(ls, rs, d, key) ==
  \A x \in Nodes : d[x] # NIL =>
    /\ Live(d[x], d)
    /\ key[d[x]] = key[x]
    /\ rs[d[x]] = x \/ (d[x] \in Nodes /\ ls[d[x]] = x)

\* ... and a child has the dad.
DownLinks(ls, rs, d) ==
  /\ \A w \in RLinks : Live(w, d) /\ rs[w] # NIL => d[rs[w]] = w
  /\ \A w \in Nodes : Live(w, d) /\ ls[w] # NIL =>
       d[ls[w]] = w /\ ls[w] # rs[w]

Linked(ls, rs, d, key) == UpLinks(ls, rs, d, key) /\ DownLinks(ls, rs, d)

\* No string is its own ancestor: h numbers them downwards.
Ranked(h, d) == \A x \in Nodes : d[x] # NIL => h[d[x]] < h[x]

\* Nodes, roots and NIL do not overlap, and links lead to no others.
LEMMA LinkKinds ==
  /\ Nodes \subseteq RLinks /\ Roots \subseteq RLinks /\ Nodes \subseteq Links
  /\ NIL \in Links /\ NIL \in RLinks /\ NIL \notin Nodes /\ NIL \notin Roots
  /\ \A w \in Nodes : w \notin Roots
  /\ \A w \in Links : w \in Nodes \/ w = NIL
  /\ \A w \in RLinks : w \in Nodes \/ w = NIL \/ w \in Roots
<1>1. \A w \in RLinks : w \in Nodes \/ w = NIL \/ w \in Roots
  <2>1. SUFFICES ASSUME NEW w \in RLinks, w \notin Nodes, w # NIL PROVE w \in Roots
    OBVIOUS
  <2>2. w - (N + 1) \in Byte /\ w = Root(w - (N + 1))
    <3>1. ByteValues \in Nat
      BY ByteSizes
    <3>2. w \in N + 1 .. N + ByteValues
      BY <2>1, <3>1 DEF RLinks, Nodes, NIL
    <3>3. QED
      BY <3>1, <3>2 DEF Byte, Root
  <2>3. QED
    BY <2>2 DEF Roots
<1>2. \A w \in Roots : w \in RLinks /\ w \notin Links
  BY LinkSets DEF Roots
<1>3. QED
  BY <1>1, <1>2, LinkSets DEF Links, Nodes, NIL

\* The walk falls off the tree at w: n becomes a leaf there.
LeafAt(n, w) ==
  /\ \/ rson[w] = NIL /\ rson' = [rson EXCEPT ![w] = n] /\ lson' = lson
     \/ /\ w \in Nodes /\ lson[w] = NIL
        /\ rson' = rson /\ lson' = [lson EXCEPT ![w] = n]
  /\ dad' = [dad EXCEPT ![n] = w]

\* newInsertNode at an empty link: the new leaf is ranked behind its parent.
LEMMA LeafLinks ==
  ASSUME TypeOK, NEW key, NEW h \in [RLinks -> Nat],
         Linked(lson, rson, dad, key), Ranked(h, dad),
         NEW n \in Nodes, dad[n] = NIL, lson[n] = NIL, rson[n] = NIL,
         NEW w \in RLinks, Live(w, dad), key[w] = key[n], LeafAt(n, w)
  PROVE  /\ Linked(lson', rson', dad', key)
         /\ Ranked([h EXCEPT ![n] = h[w] + 1], dad')
<1> DEFINE h2 == [h EXCEPT ![n] = h[w] + 1]
<1>0. /\ lson \in [Links -> Links] /\ rson \in [RLinks -> Links]
      /\ dad \in [Links -> RLinks]
      /\ \A v \in RLinks : rson[v] \in Links /\ h[v] \in Nat
      /\ \A v \in Nodes : lson[v] \in Links /\ dad[v] \in RLinks
      /\ \/ rson[w] = NIL /\ rson' = [rson EXCEPT ![w] = n] /\ lson' = lson
         \/ /\ w \in Nodes /\ lson[w] = NIL
            /\ rson' = rson /\ lson' = [lson EXCEPT ![w] = n]
      /\ dad' = [dad EXCEPT ![n] = w]
  BY LinkKinds DEF TypeOK, LeafAt
<1>1. w # n /\ w # NIL /\ n # NIL
  BY <1>0, LinkKinds DEF Live
<1>2. dad'[n] = w /\ \A x \in Nodes : x # n => dad'[x] = dad[x]
  BY <1>0, LinkKinds
<1>3. h2[n] = h[w] + 1 /\ \A x \in RLinks : x # n => h2[x] = h[x]
  BY <1>0, LinkKinds
<1>4. \A v \in RLinks : v # w => rson'[v] = rson[v]
  BY <1>0, LinkKinds
<1>5. \A v \in Nodes : v # w => lson'[v] = lson[v]
  BY <1>0, LinkKinds
<1>6. \/ rson[w] = NIL /\ rson'[w] = n /\ lson' = lson
      \/ w \in Nodes /\ lson[w] = NIL /\ lson'[w] = n /\ rson' = rson
  BY <1>0, LinkKinds
<1> HIDE DEF h2
<1>7. \A x \in Nodes : dad[x] # n
  BY <1>0, LinkKinds DEF Linked, UpLinks, Live
<1>8. \A v \in RLinks : rson[v] # n \/ ~ Live(v, dad)
  BY <1>0, LinkKinds DEF Linked, DownLinks, Live
<1>9. \A v \in Nodes : lson[v] # n \/ ~ Live(v, dad)
  BY <1>0, LinkKinds DEF Linked, DownLinks, Live
<1>10. \A v \in RLinks : Live(v, dad') <=> Live(v, dad) \/ v = n
  BY <1>1, <1>2, <1>0, LinkKinds DEF Live
<1>11. UpLinks(lson', rson', dad', key)
  <2>1. SUFFICES ASSUME NEW x \in Nodes, dad'[x] # NIL
                 PROVE  /\ Live(dad'[x], dad') /\ key[dad'[x]] = key[x]
                        /\ rson'[dad'[x]] = x \/ (dad'[x] \in Nodes /\ lson'[dad'[x]] = x)
    BY DEF UpLinks
  <2>2. CASE x = n
    BY <1>2, <1>6, <1>10, <2>2
  <2>3. CASE x # n
    <3>1. dad'[x] = dad[x] /\ dad[x] # NIL /\ dad[x] \in RLinks
      BY <1>2, <2>1, <2>3, <1>0, LinkKinds
    <3>2. /\ Live(dad[x], dad) /\ key[dad[x]] = key[x]
          /\ rson[dad[x]] = x \/ (dad[x] \in Nodes /\ lson[dad[x]] = x)
      BY <3>1 DEF Linked, UpLinks
    <3>3. rson'[dad[x]] = x \/ (dad[x] \in Nodes /\ lson'[dad[x]] = x)
      BY <1>4, <1>5, <1>6, <3>1, <3>2, <1>0, LinkKinds
    <3>4. QED
      BY <1>10, <3>1, <3>2, <3>3
  <2>4. QED
    BY <2>2, <2>3
<1>12. DownLinks(lson', rson', dad')
  <2>1. ASSUME NEW v \in RLinks, Live(v, dad'), rson'[v] # NIL
        PROVE  dad'[rson'[v]] = v
    <3>1. CASE v = w /\ rson'[w] = n
      BY <1>2, <3>1
    <3>2. CASE rson'[v] = rson[v] /\ v # n
      <4>1. Live(v, dad) /\ rson[v] \in Nodes /\ dad[rson[v]] = v /\ rson[v] # n
        BY <1>8, <1>10, <2>1, <3>2, <1>0, LinkKinds DEF Linked, DownLinks
      <4>2. QED
        BY <1>2, <3>2, <4>1
    <3>3. QED
      BY <1>1, <1>4, <1>6, <2>1, <3>1, <3>2, <1>0, LinkKinds
  <2>2. ASSUME NEW v \in Nodes, Live(v, dad'), lson'[v] # NIL
        PROVE  dad'[lson'[v]] = v /\ lson'[v] # rson'[v]
    <3>1. CASE v = w /\ lson'[w] = n /\ rson' = rson
      BY <1>2, <1>8, <3>1
    <3>2. CASE lson'[v] = lson[v] /\ v # n
      <4>1. Live(v, dad) /\ lson[v] \in Nodes /\ dad[lson[v]] = v /\ lson[v] # rson[v] /\ lson[v] # n
        BY <1>9, <1>10, <2>2, <3>2, <1>0, LinkKinds DEF Linked, DownLinks
      <4>2. rson'[v] = rson[v] \/ rson'[v] = n
        BY <1>4, <1>6, <1>0, LinkKinds
      <4>3. QED
        BY <1>2, <3>2, <4>1, <4>2
    <3>3. QED
      BY <1>1, <1>5, <1>6, <2>2, <3>1, <3>2, <1>0, LinkKinds
  <2>3. QED
    BY <2>1, <2>2 DEF DownLinks
<1>13. Ranked(h2, dad')
  <2>1. SUFFICES ASSUME NEW x \in Nodes, dad'[x] # NIL PROVE h2[dad'[x]] < h2[x]
    BY DEF Ranked
  <2>2. h[w] \in Nat
    OBVIOUS
  <2>3. CASE x = n
    BY <1>1, <1>2, <1>3, <2>2, <2>3
  <2>4. CASE x # n
    <3>1. dad'[x] = dad[x] /\ dad[x] \in RLinks /\ dad[x] # n
      BY <1>2, <1>7, <2>4, <1>0, LinkKinds
    <3>2. h2[dad[x]] = h[dad[x]] /\ h2[x] = h[x] /\ h[dad[x]] < h[x]
      BY <1>3, <2>1, <2>4, <3>1, <1>0, LinkKinds DEF Ranked
    <3>3. QED
      BY <3>1, <3>2
  <2>5. QED
    BY <2>3, <2>4
<1>14. QED
  BY <1>11, <1>12, <1>13 DEF Linked, h2

\* The relations around a string of a tree.
LEMMA Family ==
  ASSUME TypeOK, NEW key, NEW h \in [RLinks -> Nat],
         Linked(lson, rson, dad, key), Ranked(h, dad),
         NEW x \in Nodes, dad[x] # NIL
  PROVE  /\ lson[x] \in Links /\ rson[x] \in Links
         /\ dad[x] \in RLinks /\ Live(dad[x], dad) /\ dad[x] # x
         /\ key[dad[x]] = key[x] /\ h[dad[x]] < h[x]
         /\ rson[dad[x]] # x => dad[x] \in Nodes /\ lson[dad[x]] = x
         /\ \A y \in {lson[x], rson[x]} \ {NIL} :
              y \in Nodes /\ dad[y] = x /\ y # dad[x] /\ y # x /\ h[x] < h[y]
                /\ key[y] = key[x]
         /\ lson[x] # NIL => lson[x] # rson[x]
         /\ \A y \in Nodes : dad[y] = x => y = lson[x] \/ y = rson[x]
<1>1. /\ lson[x] \in Links /\ rson[x] \in Links /\ dad[x] \in RLinks
      /\ x \in RLinks /\ Live(x, dad)
  BY LinkKinds DEF TypeOK, Live
<1>2. /\ Live(dad[x], dad) /\ key[dad[x]] = key[x] /\ h[dad[x]] < h[x]
      /\ rson[dad[x]] # x => dad[x] \in Nodes /\ lson[dad[x]] = x
  BY <1>1 DEF Linked, UpLinks, Ranked
<1>3. ASSUME NEW y \in {lson[x], rson[x]} \ {NIL}
      PROVE  y \in Nodes /\ dad[y] = x /\ h[x] < h[y] /\ key[y] = key[x]
  <2>1. y \in Nodes
    BY <1>1, LinkKinds
  <2>2. dad[y] = x
    BY <1>1 DEF Linked, DownLinks
  <2>3. x # NIL
    BY LinkKinds
  <2>4. QED
    BY <2>1, <2>2, <2>3 DEF Linked, UpLinks, Ranked
<1>4. h[x] \in Nat /\ h[dad[x]] \in Nat /\ \A y \in Nodes : h[y] \in Nat
  BY <1>1, LinkKinds
<1>5. dad[x] # x
  BY <1>2, <1>4
<1>6. \A y \in {lson[x], rson[x]} \ {NIL} : y # dad[x] /\ y # x
  BY <1>2, <1>3, <1>4
<1>7. lson[x] # NIL => lson[x] # rson[x]
  BY <1>1 DEF Linked, DownLinks
<1>8. \A y \in Nodes : dad[y] = x => y = lson[x] \/ y = rson[x]
  BY LinkKinds DEF Linked, UpLinks
<1>9. QED
  BY <1>1, <1>2, <1>3, <1>5, <1>6, <1>7, <1>8

\* n is put in the place of x: the older copy of a string leaves the tree.
Replaces(n, x) ==
  TakesPlace(x, n,
             [lson EXCEPT ![n] = lson[x]],
             [rson EXCEPT ![n] = rson[x]],
             [dad EXCEPT ![n] = dad[x],
                         ![lson[x]] = n,
                         ![rson[x]] = n])

\* What newInsertNode assigns when a new string takes the place of x.
LEMMA ReplaceIs ==
  ASSUME TypeOK, NEW key, NEW h \in [RLinks -> Nat],
         Linked(lson, rson, dad, key), Ranked(h, dad),
         NEW n \in Nodes, dad[n] = NIL,
         NEW x \in Nodes, dad[x] # NIL, key[x] = key[n], Replaces(n, x)
  PROVE  /\ \A y \in Nodes :
              dad'[y] = IF y = x THEN NIL
                        ELSE IF y = n THEN dad[x]
                        ELSE IF y = lson[x] \/ y = rson[x] THEN n
                        ELSE dad[y]
         /\ \A v \in RLinks :
              rson'[v] = IF v = n THEN rson[x]
                         ELSE IF v = dad[x] /\ rson[dad[x]] = x THEN n
                         ELSE rson[v]
         /\ \A v \in Nodes :
              lson'[v] = IF v = n THEN lson[x]
                         ELSE IF v = dad[x] /\ rson[dad[x]] # x THEN n
                         ELSE lson[v]
<1> DEFINE w == dad[x]
           ls1 == [lson EXCEPT ![n] = lson[x]]
           rs1 == [rson EXCEPT ![n] = rson[x]]
           d1 == [dad EXCEPT ![n] = dad[x], ![lson[x]] = n, ![rson[x]] = n]
<1>1. /\ lson \in [Links -> Links] /\ rson \in [RLinks -> Links]
      /\ dad \in [Links -> RLinks]
  BY DEF TypeOK
<1>2. /\ lson[x] \in Links /\ rson[x] \in Links
      /\ w \in RLinks /\ Live(w, dad) /\ w # x
      /\ key[w] = key[x] /\ h[w] < h[x]
      /\ rson[w] # x => w \in Nodes /\ lson[w] = x
      /\ \A y \in {lson[x], rson[x]} \ {NIL} :
           y \in Nodes /\ dad[y] = x /\ y # w /\ y # x /\ h[x] < h[y] /\ key[y] = key[x]
      /\ lson[x] # NIL => lson[x] # rson[x]
      /\ \A y \in Nodes : dad[y] = x => y = lson[x] \/ y = rson[x]
  BY Family
<1>3. n # x /\ n # w /\ n # lson[x] /\ n # rson[x] /\ w # NIL /\ n # NIL /\ x # NIL
  BY <1>2, LinkKinds DEF Live
<1>4. \A y \in Nodes : dad[y] # n
  BY <1>1, LinkKinds DEF Linked, UpLinks, Live
<1>5. \A y \in Nodes :
        dad'[y] = IF y = x THEN NIL
                  ELSE IF y = n THEN w
                  ELSE IF y = lson[x] \/ y = rson[x] THEN n
                  ELSE dad[y]
  <2>1. dad' = [d1 EXCEPT ![x] = NIL]
    BY DEF TakesPlace, Replaces
  <2>2. QED
    BY <1>1, <1>2, <1>3, <2>1, LinkKinds
<1>6. d1[x] = w /\ rs1[w] = rson[w]
  BY <1>1, <1>2, <1>3, LinkKinds
<1>7. \A v \in RLinks :
        rson'[v] = IF v = n THEN rson[x]
                   ELSE IF v = w /\ rson[w] = x THEN n
                   ELSE rson[v]
  <2>1. rson' = IF rson[w] = x THEN [rs1 EXCEPT ![w] = n] ELSE rs1
    BY <1>6 DEF TakesPlace, Replaces
  <2>2. QED
    BY <1>1, <1>2, <1>3, <2>1, LinkKinds
<1>8. \A v \in Nodes :
        lson'[v] = IF v = n THEN lson[x]
                   ELSE IF v = w /\ rson[w] # x THEN n
                   ELSE lson[v]
  <2>1. lson' = IF rson[w] = x THEN ls1 ELSE [ls1 EXCEPT ![w] = n]
    BY <1>6 DEF TakesPlace, Replaces
  <2>2. QED
    BY <1>1, <1>2, <1>3, <2>1, LinkKinds
<1>9. QED
  BY <1>5, <1>7, <1>8

\* newInsertNode at a full match: the new string takes place and rank of x.
LEMMA ReplaceLinks ==
  ASSUME TypeOK, NEW key, NEW h \in [RLinks -> Nat],
         Linked(lson, rson, dad, key), Ranked(h, dad),
         NEW n \in Nodes, dad[n] = NIL,
         NEW x \in Nodes, dad[x] # NIL, key[x] = key[n], Replaces(n, x)
  PROVE  /\ Linked(lson', rson', dad', key)
         /\ Ranked([h EXCEPT ![n] = h[x]], dad')
         /\ \A y \in Nodes : dad'[y] # NIL => dad[y] # NIL \/ y = n
<1> DEFINE w == dad[x]
           h2 == [h EXCEPT ![n] = h[x]]
<1>1. /\ lson \in [Links -> Links] /\ rson \in [RLinks -> Links]
      /\ dad \in [Links -> RLinks]
  BY DEF TypeOK
<1>2. /\ lson[x] \in Links /\ rson[x] \in Links
      /\ w \in RLinks /\ Live(w, dad) /\ w # x
      /\ key[w] = key[x] /\ h[w] < h[x]
      /\ rson[w] # x => w \in Nodes /\ lson[w] = x
      /\ \A y \in {lson[x], rson[x]} \ {NIL} :
           y \in Nodes /\ dad[y] = x /\ y # w /\ y # x /\ h[x] < h[y] /\ key[y] = key[x]
      /\ lson[x] # NIL => lson[x] # rson[x]
      /\ \A y \in Nodes : dad[y] = x => y = lson[x] \/ y = rson[x]
  BY Family
<1>3. n # x /\ n # w /\ n # lson[x] /\ n # rson[x] /\ w # NIL /\ n # NIL /\ x # NIL
  BY <1>2, LinkKinds DEF Live
<1>4. \A y \in Nodes : dad[y] # n
  BY <1>1, LinkKinds DEF Linked, UpLinks, Live
<1>5. \A y \in Nodes :
        dad'[y] = IF y = x THEN NIL
                  ELSE IF y = n THEN w
                  ELSE IF y = lson[x] \/ y = rson[x] THEN n
                  ELSE dad[y]
  BY ReplaceIs
<1>7. \A v \in RLinks :
        rson'[v] = IF v = n THEN rson[x]
                   ELSE IF v = w /\ rson[w] = x THEN n
                   ELSE rson[v]
  BY ReplaceIs
<1>8. \A v \in Nodes :
        lson'[v] = IF v = n THEN lson[x]
                   ELSE IF v = w /\ rson[w] # x THEN n
                   ELSE lson[v]
  BY ReplaceIs
<1>9. h2[n] = h[x] /\ \A v \in RLinks : v # n => h2[v] = h[v]
  BY LinkKinds
<1> HIDE DEF h2, w
<1>10. \A y \in Nodes : dad'[y] # NIL <=> (dad[y] # NIL /\ y # x) \/ y = n
  BY <1>2, <1>3, <1>5, LinkKinds
<1>11. \A v \in RLinks : Live(v, dad') <=> (Live(v, dad) /\ v # x) \/ v = n
  BY <1>10, LinkKinds DEF Live
<1>12. UpLinks(lson', rson', dad', key)
  <2>1. SUFFICES ASSUME NEW y \in Nodes, dad'[y] # NIL
                 PROVE  /\ Live(dad'[y], dad') /\ key[dad'[y]] = key[y]
                        /\ rson'[dad'[y]] = y \/ (dad'[y] \in Nodes /\ lson'[dad'[y]] = y)
    BY DEF UpLinks
  <2>2. CASE y = n
    BY <1>2, <1>3, <1>5, <1>7, <1>8, <1>11, <2>2
  <2>3. CASE y # n /\ (y = lson[x] \/ y = rson[x])
    <3>1. dad'[y] = n /\ key[y] = key[x]
      BY <1>2, <1>3, <1>5, <2>3, LinkKinds
    <3>2. rson'[n] = rson[x] /\ lson'[n] = lson[x]
      BY <1>7, <1>8, LinkKinds
    <3>3. QED
      BY <1>11, <2>3, <3>1, <3>2, LinkKinds
  <2>4. CASE y # n /\ y # lson[x] /\ y # rson[x]
    <3>1. dad'[y] = dad[y] /\ dad[y] # NIL /\ y # x /\ dad[y] # x /\ dad[y] # n
      BY <1>2, <1>4, <1>5, <2>1, <2>4
    <3>2. /\ Live(dad[y], dad) /\ key[dad[y]] = key[y] /\ dad[y] \in RLinks
          /\ rson[dad[y]] = y \/ (dad[y] \in Nodes /\ lson[dad[y]] = y)
      BY <1>1, <3>1, LinkKinds DEF Linked, UpLinks
    <3>3. CASE dad[y] # w
      BY <1>7, <1>8, <1>11, <3>1, <3>2, <3>3
    <3>4. CASE dad[y] = w
      BY <1>2, <1>7, <1>8, <1>11, <3>1, <3>2, <3>4
    <3>5. QED
      BY <3>3, <3>4
  <2>5. QED
    BY <2>2, <2>3, <2>4
<1>13. DownLinks(lson', rson', dad')
  <2>1. \A v \in RLinks : rson[v] \in Links
    BY <1>1
  <2>2. \A v \in Nodes : lson[v] \in Links
    BY <1>1, LinkKinds
  <2>3. ASSUME NEW v \in RLinks, Live(v, dad'), rson'[v] # NIL
        PROVE  dad'[rson'[v]] = v
    <3>1. CASE v = n
      BY <1>2, <1>3, <1>5, <1>7, <2>3, <3>1, LinkKinds
    <3>2. CASE v # n /\ v = w /\ rson[w] = x
      BY <1>3, <1>5, <1>7, <3>2
    <3>3. CASE v # n /\ ~ (v = w /\ rson[w] = x)
      <4>1. rson'[v] = rson[v] /\ Live(v, dad) /\ v # x
        BY <1>7, <1>11, <2>3, <3>3
      <4>2. rson[v] \in Nodes /\ dad[rson[v]] = v
        BY <2>1, <2>3, <4>1, LinkKinds DEF Linked, DownLinks
      <4>3. rson[v] # n /\ rson[v] # x /\ rson[v] # lson[x] /\ rson[v] # rson[x]
        BY <1>2, <1>3, <3>3, <4>1, <4>2, LinkKinds DEF w, Live
      <4>4. QED
        BY <1>5, <4>1, <4>2, <4>3
    <3>4. QED
      BY <3>1, <3>2, <3>3
  <2>4. ASSUME NEW v \in Nodes, Live(v, dad'), lson'[v] # NIL
        PROVE  dad'[lson'[v]] = v /\ lson'[v] # rson'[v]
    <3>1. CASE v = n
      BY <1>2, <1>3, <1>5, <1>7, <1>8, <2>4, <3>1, LinkKinds
    <3>2. CASE v # n /\ v = w /\ rson[w] # x
      <4>1. lson'[v] = n /\ rson'[v] = rson[v] /\ dad'[n] = w
        BY <1>3, <1>5, <1>7, <1>8, <3>2, LinkKinds
      <4>2. rson[v] # n
        BY <1>2, <3>2, LinkKinds DEF Linked, DownLinks, Live
      <4>3. QED
        BY <3>2, <4>1, <4>2
    <3>3. CASE v # n /\ ~ (v = w /\ rson[w] # x)
      <4>1. lson'[v] = lson[v] /\ Live(v, dad) /\ v # x
        BY <1>8, <1>11, <2>4, <3>3, LinkKinds
      <4>2. lson[v] \in Nodes /\ dad[lson[v]] = v /\ lson[v] # rson[v]
        BY <2>2, <2>4, <4>1, LinkKinds DEF Linked, DownLinks
      <4>3. lson[v] # x
        <5>1. CASE v = w
          BY <3>3, <4>2, <5>1
        <5>2. CASE v # w
          BY <4>2, <5>2 DEF w
        <5>3. QED
          BY <5>1, <5>2
      <4>4. lson[v] # n /\ lson[v] # lson[x] /\ lson[v] # rson[x]
        BY <1>2, <1>3, <4>1, <4>2, LinkKinds DEF Live
      <4>5. rson'[v] = rson[v] \/ rson'[v] = n
        BY <1>7, <3>3, LinkKinds
      <4>6. QED
        BY <1>5, <4>1, <4>2, <4>3, <4>4, <4>5
    <3>4. QED
      BY <3>1, <3>2, <3>3
  <2>5. QED
    BY <2>3, <2>4 DEF DownLinks
<1>14. Ranked(h2, dad')
  <2>1. SUFFICES ASSUME NEW y \in Nodes, dad'[y] # NIL PROVE h2[dad'[y]] < h2[y]
    BY DEF Ranked
  <2>2. CASE y = n
    BY <1>2, <1>3, <1>5, <1>9, <2>2, LinkKinds
  <2>3. CASE y # n /\ (y = lson[x] \/ y = rson[x])
    BY <1>2, <1>3, <1>5, <1>9, <2>3, LinkKinds
  <2>4. CASE y # n /\ y # lson[x] /\ y # rson[x]
    <3>1. dad'[y] = dad[y] /\ dad[y] # NIL /\ dad[y] # n /\ dad[y] \in RLinks
      BY <1>1, <1>4, <1>5, <2>1, <2>4, LinkKinds
    <3>2. QED
      BY <1>9, <2>4, <3>1, LinkKinds DEF Ranked
  <2>5. QED
    BY <2>2, <2>3, <2>4
<1>15. QED
  BY <1>10, <1>12, <1>13, <1>14 DEF Linked, h2

\* What newDeleteNode assigns when a child, or nothing, takes the place of x.
LEMMA NarrowIs ==
  ASSUME TypeOK, NEW key, NEW h \in [RLinks -> Nat],
         Linked(lson, rson, dad, key), Ranked(h, dad),
         NEW x \in Nodes, dad[x] # NIL,
         NEW y,
         (rson[x] = NIL /\ y = lson[x]) \/ (lson[x] = NIL /\ y = rson[x]),
         TakesPlace(x, y, lson, rson, [dad EXCEPT ![y] = dad[x]])
  PROVE  /\ \A z \in Nodes :
              dad'[z] = IF z = x THEN NIL ELSE IF z = y THEN dad[x] ELSE dad[z]
         /\ \A v \in RLinks :
              rson'[v] = IF v = dad[x] /\ rson[dad[x]] = x THEN y ELSE rson[v]
         /\ \A v \in Nodes :
              lson'[v] = IF v = dad[x] /\ rson[dad[x]] # x THEN y ELSE lson[v]
<1> DEFINE w == dad[x]
           d1 == [dad EXCEPT ![y] = dad[x]]
<1>1. /\ lson \in [Links -> Links] /\ rson \in [RLinks -> Links]
      /\ dad \in [Links -> RLinks]
      /\ \A v \in RLinks : rson[v] \in Links /\ h[v] \in Nat
      /\ \A v \in Nodes : lson[v] \in Links /\ dad[v] \in RLinks
  BY LinkKinds DEF TypeOK
<1>2. /\ lson[x] \in Links /\ rson[x] \in Links
      /\ w \in RLinks /\ Live(w, dad) /\ w # x
      /\ key[w] = key[x] /\ h[w] < h[x]
      /\ rson[w] # x => w \in Nodes /\ lson[w] = x
      /\ \A z \in {lson[x], rson[x]} \ {NIL} :
           z \in Nodes /\ dad[z] = x /\ z # w /\ z # x /\ h[x] < h[z] /\ key[z] = key[x]
      /\ lson[x] # NIL => lson[x] # rson[x]
      /\ \A z \in Nodes : dad[z] = x => z = lson[x] \/ z = rson[x]
  BY Family
<1>3. w # NIL /\ x # NIL /\ y # x /\ y # w /\ y \in Links
  BY <1>2, LinkKinds DEF Live
<1>4. \A z \in Nodes : dad[z] = x => z = y
  BY <1>2, LinkKinds
<1>5. \A z \in Nodes :
        dad'[z] = IF z = x THEN NIL ELSE IF z = y THEN w ELSE dad[z]
  <2>1. dad' = [d1 EXCEPT ![x] = NIL]
    BY DEF TakesPlace
  <2>2. QED
    BY <1>1, <1>2, <1>3, <2>1, LinkKinds
<1>6. d1[x] = w
  BY <1>1, <1>3, LinkKinds
<1>7. \A v \in RLinks :
        rson'[v] = IF v = w /\ rson[w] = x THEN y ELSE rson[v]
  <2>1. rson' = IF rson[w] = x THEN [rson EXCEPT ![w] = y] ELSE rson
    BY <1>6 DEF TakesPlace
  <2>2. QED
    BY <1>1, <1>2, <2>1, LinkKinds
<1>8. \A v \in Nodes :
        lson'[v] = IF v = w /\ rson[w] # x THEN y ELSE lson[v]
  <2>1. lson' = IF rson[w] = x THEN lson ELSE [lson EXCEPT ![w] = y]
    BY <1>6 DEF TakesPlace
  <2>2. QED
    BY <1>1, <1>2, <2>1, LinkKinds
<1>9. QED
  BY <1>5, <1>7, <1>8

\* A string with one child or none leaves its place to the child.
LEMMA NarrowLinks ==
  ASSUME TypeOK, NEW key, NEW h \in [RLinks -> Nat],
         Linked(lson, rson, dad, key), Ranked(h, dad),
         NEW x \in Nodes, dad[x] # NIL,
         NEW y,
         (rson[x] = NIL /\ y = lson[x]) \/ (lson[x] = NIL /\ y = rson[x]),
         TakesPlace(x, y, lson, rson, [dad EXCEPT ![y] = dad[x]])
  PROVE  /\ Linked(lson', rson', dad', key)
         /\ Ranked(h, dad')
         /\ \A z \in Nodes : dad'[z] # NIL <=> dad[z] # NIL /\ z # x
<1> DEFINE w == dad[x]
<1>1. /\ lson \in [Links -> Links] /\ rson \in [RLinks -> Links]
      /\ dad \in [Links -> RLinks]
      /\ \A v \in RLinks : rson[v] \in Links /\ h[v] \in Nat
      /\ \A v \in Nodes : lson[v] \in Links /\ dad[v] \in RLinks
  BY LinkKinds DEF TypeOK
<1>2. /\ lson[x] \in Links /\ rson[x] \in Links
      /\ w \in RLinks /\ Live(w, dad) /\ w # x
      /\ key[w] = key[x] /\ h[w] < h[x]
      /\ rson[w] # x => w \in Nodes /\ lson[w] = x
      /\ \A z \in {lson[x], rson[x]} \ {NIL} :
           z \in Nodes /\ dad[z] = x /\ z # w /\ z # x /\ h[x] < h[z] /\ key[z] = key[x]
      /\ lson[x] # NIL => lson[x] # rson[x]
      /\ \A z \in Nodes : dad[z] = x => z = lson[x] \/ z = rson[x]
  BY Family
<1>3. w # NIL /\ x # NIL /\ y # x /\ y # w /\ y \in Links
  BY <1>2, LinkKinds DEF Live
<1>4. \A z \in Nodes : dad[z] = x => z = y
  BY <1>2, LinkKinds
<1>5. \A z \in Nodes :
        dad'[z] = IF z = x THEN NIL ELSE IF z = y THEN w ELSE dad[z]
  BY NarrowIs
<1>7. \A v \in RLinks :
        rson'[v] = IF v = w /\ rson[w] = x THEN y ELSE rson[v]
  BY NarrowIs
<1>8. \A v \in Nodes :
        lson'[v] = IF v = w /\ rson[w] # x THEN y ELSE lson[v]
  BY NarrowIs
<1> HIDE DEF w
<1>10. \A z \in Nodes : dad'[z] # NIL <=> dad[z] # NIL /\ z # x
  BY <1>2, <1>3, <1>5, LinkKinds
<1>11. \A v \in RLinks : Live(v, dad') <=> Live(v, dad) /\ v # x
  BY <1>10, LinkKinds DEF Live
<1>20. \A v \in RLinks : Live(v, dad) /\ rson[v] # NIL =>
         rson[v] \in Nodes /\ dad[rson[v]] = v
  BY <1>1, LinkKinds DEF Linked, DownLinks
<1>21. \A v \in Nodes : Live(v, dad) /\ lson[v] # NIL =>
         lson[v] \in Nodes /\ dad[lson[v]] = v /\ lson[v] # rson[v]
  BY <1>1, LinkKinds DEF Linked, DownLinks
<1>22. \A z \in Nodes : dad[z] # NIL =>
         /\ dad[z] \in RLinks /\ Live(dad[z], dad) /\ key[dad[z]] = key[z]
         /\ rson[dad[z]] = z \/ (dad[z] \in Nodes /\ lson[dad[z]] = z)
         /\ h[dad[z]] < h[z]
  BY <1>1 DEF Linked, UpLinks, Ranked
<1>12. UpLinks(lson', rson', dad', key)
  <2>1. SUFFICES ASSUME NEW z \in Nodes, dad'[z] # NIL
                 PROVE  /\ Live(dad'[z], dad') /\ key[dad'[z]] = key[z]
                        /\ rson'[dad'[z]] = z \/ (dad'[z] \in Nodes /\ lson'[dad'[z]] = z)
    BY DEF UpLinks
  <2>2. CASE z = y
    BY <1>2, <1>3, <1>5, <1>7, <1>8, <1>11, <2>2, LinkKinds
  <2>3. CASE z # y
    <3>1. dad'[z] = dad[z] /\ dad[z] # NIL /\ dad[z] # x /\ z # x
      BY <1>4, <1>5, <2>1, <2>3
    <3>2. QED
      BY <1>2, <1>7, <1>8, <1>11, <1>22, <3>1
  <2>4. QED
    BY <2>2, <2>3
<1>13. DownLinks(lson', rson', dad')
  <2>1. ASSUME NEW v \in RLinks, Live(v, dad'), rson'[v] # NIL
        PROVE  dad'[rson'[v]] = v
    <3>1. CASE v = w /\ rson[w] = x
      BY <1>3, <1>5, <1>7, <2>1, <3>1, LinkKinds
    <3>2. CASE ~ (v = w /\ rson[w] = x)
      <4>1. rson'[v] = rson[v] /\ Live(v, dad) /\ v # x
        BY <1>7, <1>11, <2>1, <3>2
      <4>2. rson[v] \in Nodes /\ dad[rson[v]] = v
        BY <1>20, <2>1, <4>1
      <4>3. rson[v] # x /\ rson[v] # y
        BY <1>2, <3>2, <4>1, <4>2, LinkKinds DEF w
      <4>4. QED
        BY <1>5, <4>1, <4>2, <4>3
    <3>3. QED
      BY <3>1, <3>2
  <2>2. ASSUME NEW v \in Nodes, Live(v, dad'), lson'[v] # NIL
        PROVE  dad'[lson'[v]] = v /\ lson'[v] # rson'[v]
    <3>0. v \in RLinks /\ Live(v, dad) /\ v # x
      BY <1>11, <2>2, LinkKinds
    <3>1. CASE v = w /\ rson[w] # x
      <4>1. lson'[v] = y /\ rson'[v] = rson[v] /\ y \in Nodes /\ dad[y] = x
        BY <1>2, <1>3, <1>7, <1>8, <2>2, <3>0, <3>1, LinkKinds
      <4>2. rson[v] # y
        BY <1>20, <3>0, <4>1, LinkKinds
      <4>3. QED
        BY <1>3, <1>5, <3>1, <4>1, <4>2
    <3>2. CASE ~ (v = w /\ rson[w] # x)
      <4>1. lson'[v] = lson[v]
        BY <1>8, <3>2
      <4>2. lson[v] \in Nodes /\ dad[lson[v]] = v /\ lson[v] # rson[v]
        BY <1>21, <2>2, <3>0, <4>1
      <4>3. lson[v] # y
        BY <1>2, <3>0, <4>2, LinkKinds
      <4>4. lson[v] # x
        BY <3>2, <4>2 DEF w
      <4>5. rson'[v] = rson[v] \/ rson'[v] = y
        BY <1>7, <3>0
      <4>6. QED
        BY <1>5, <4>1, <4>2, <4>3, <4>4, <4>5
    <3>3. QED
      BY <3>1, <3>2
  <2>3. QED
    BY <2>1, <2>2 DEF DownLinks
<1>14. Ranked(h, dad')
  <2>1. SUFFICES ASSUME NEW z \in Nodes, dad'[z] # NIL PROVE h[dad'[z]] < h[z]
    BY DEF Ranked
  <2>2. h[z] \in Nat /\ h[x] \in Nat /\ h[w] \in Nat
    BY <1>1, <1>2, LinkKinds
  <2>3. CASE z = y
    BY <1>2, <1>3, <1>5, <2>2, <2>3, LinkKinds
  <2>4. CASE z # y
    BY <1>5, <1>22, <2>1, <2>4
  <2>5. QED
    BY <2>3, <2>4
<1>15. QED
  BY <1>10, <1>12, <1>13, <1>14 DEF Linked

\* What newDeleteNode assigns when y moves to the place of x.
LEMMA TakesPlaceIs ==
  ASSUME NEW x, NEW y, NEW ls, NEW rs, NEW d, NEW w, d[x] = w,
         TakesPlace(x, y, ls, rs, d)
  PROVE  /\ rson' = IF rs[w] = x THEN [rs EXCEPT ![w] = y] ELSE rs
         /\ lson' = IF rs[w] = x THEN ls ELSE [ls EXCEPT ![w] = y]
         /\ dad' = [d EXCEPT ![x] = NIL]
BY DEF TakesPlace

\* A string leaves its place to its left child y, which takes the right one.
LeavesTo(x, y) ==
  LET d1 == [dad EXCEPT ![rson[x]] = y]
  IN  TakesPlace(x, y, lson, [rson EXCEPT ![y] = rson[x]],
                 [d1 EXCEPT ![y] = d1[x]])

\* What newDeleteNode assigns when the left child takes the place of x.
LEMMA LeftIs ==
  ASSUME TypeOK, NEW key, NEW h \in [RLinks -> Nat],
         Linked(lson, rson, dad, key), Ranked(h, dad),
         NEW x \in Nodes, dad[x] # NIL,
         NEW y, y = lson[x], y # NIL, rson[x] # NIL, rson[y] = NIL,
         LeavesTo(x, y)
  PROVE  /\ \A z \in Nodes :
              dad'[z] = IF z = x THEN NIL ELSE IF z = y THEN dad[x]
                        ELSE IF z = rson[x] THEN y ELSE dad[z]
         /\ \A v \in RLinks :
              rson'[v] = IF v = y THEN rson[x]
                         ELSE IF v = dad[x] /\ rson[dad[x]] = x THEN y
                         ELSE rson[v]
         /\ \A v \in Nodes :
              lson'[v] = IF v = dad[x] /\ rson[dad[x]] # x THEN y ELSE lson[v]
<1> DEFINE w == dad[x]
           b == rson[x]
           d1 == [dad EXCEPT ![b] = y]
           d2 == [d1 EXCEPT ![y] = d1[x]]
           rs1 == [rson EXCEPT ![y] = rson[x]]
<1>1. /\ lson \in [Links -> Links] /\ rson \in [RLinks -> Links]
      /\ dad \in [Links -> RLinks]
      /\ \A v \in RLinks : rson[v] \in Links /\ h[v] \in Nat
      /\ \A v \in Nodes : lson[v] \in Links /\ dad[v] \in RLinks
  BY LinkKinds DEF TypeOK
<1>2. /\ lson[x] \in Links /\ rson[x] \in Links
      /\ w \in RLinks /\ Live(w, dad) /\ w # x
      /\ key[w] = key[x] /\ h[w] < h[x]
      /\ rson[w] # x => w \in Nodes /\ lson[w] = x
      /\ \A z \in {lson[x], rson[x]} \ {NIL} :
           z \in Nodes /\ dad[z] = x /\ z # w /\ z # x /\ h[x] < h[z] /\ key[z] = key[x]
      /\ lson[x] # NIL => lson[x] # rson[x]
      /\ \A z \in Nodes : dad[z] = x => z = lson[x] \/ z = rson[x]
  BY Family
<1>3. /\ w # NIL /\ x # NIL /\ y # x /\ y # w /\ y \in Nodes /\ y \in RLinks
      /\ b \in Nodes /\ b # y /\ b # x /\ b # w /\ b \in Links
      /\ dad[y] = x /\ dad[b] = x /\ h[x] < h[y] /\ h[x] < h[b]
      /\ key[y] = key[x] /\ key[b] = key[x]
  BY <1>2, LinkKinds DEF Live
<1>4. \A z \in Nodes : dad[z] = x => z = y \/ z = b
  BY <1>2, LinkKinds
<1>41. d1[x] = w /\ d2[x] = w /\ rs1[w] = rson[w]
  BY <1>1, <1>2, <1>3, LinkKinds
<1>42. TakesPlace(x, y, lson, rs1, d2)
  BY DEF LeavesTo
<1>43. /\ rson' = IF rs1[w] = x THEN [rs1 EXCEPT ![w] = y] ELSE rs1
       /\ lson' = IF rs1[w] = x THEN lson ELSE [lson EXCEPT ![w] = y]
       /\ dad' = [d2 EXCEPT ![x] = NIL]
  <2> HIDE DEF d2, rs1, w
  <2>1. QED
    BY <1>41, <1>42, TakesPlaceIs
<1>5. \A z \in Nodes :
        dad'[z] = IF z = x THEN NIL ELSE IF z = y THEN w
                  ELSE IF z = b THEN y ELSE dad[z]
  <2>1. dad' = [d2 EXCEPT ![x] = NIL]
    BY <1>43
  <2>2. QED
    BY <1>1, <1>2, <1>3, <1>41, <2>1, LinkKinds
<1>7. \A v \in RLinks :
        rson'[v] = IF v = y THEN b
                   ELSE IF v = w /\ rson[w] = x THEN y ELSE rson[v]
  <2>1. rson' = IF rson[w] = x THEN [rs1 EXCEPT ![w] = y] ELSE rs1
    BY <1>41, <1>43
  <2>2. QED
    BY <1>1, <1>2, <1>3, <2>1, LinkKinds
<1>8. \A v \in Nodes :
        lson'[v] = IF v = w /\ rson[w] # x THEN y ELSE lson[v]
  <2>1. lson' = IF rson[w] = x THEN lson ELSE [lson EXCEPT ![w] = y]
    BY <1>41, <1>43
  <2>2. QED
    BY <1>1, <1>2, <2>1, LinkKinds
<1>9. QED
  BY <1>5, <1>7, <1>8

\* A string whose left child has no right child leaves its place to that.
LEMMA LeftLinks ==
  ASSUME TypeOK, NEW key, NEW h \in [RLinks -> Nat],
         Linked(lson, rson, dad, key), Ranked(h, dad),
         NEW x \in Nodes, dad[x] # NIL,
         NEW y, y = lson[x], y # NIL, rson[x] # NIL, rson[y] = NIL,
         LeavesTo(x, y)
  PROVE  /\ Linked(lson', rson', dad', key)
         /\ Ranked([h EXCEPT ![y] = h[x]], dad')
         /\ \A z \in Nodes : dad'[z] # NIL <=> dad[z] # NIL /\ z # x
<1> DEFINE w == dad[x]
           b == rson[x]
           h2 == [h EXCEPT ![y] = h[x]]
<1>1. /\ lson \in [Links -> Links] /\ rson \in [RLinks -> Links]
      /\ dad \in [Links -> RLinks]
      /\ \A v \in RLinks : rson[v] \in Links /\ h[v] \in Nat
      /\ \A v \in Nodes : lson[v] \in Links /\ dad[v] \in RLinks
  BY LinkKinds DEF TypeOK
<1>2. /\ lson[x] \in Links /\ rson[x] \in Links
      /\ w \in RLinks /\ Live(w, dad) /\ w # x
      /\ key[w] = key[x] /\ h[w] < h[x]
      /\ rson[w] # x => w \in Nodes /\ lson[w] = x
      /\ \A z \in {lson[x], rson[x]} \ {NIL} :
           z \in Nodes /\ dad[z] = x /\ z # w /\ z # x /\ h[x] < h[z] /\ key[z] = key[x]
      /\ lson[x] # NIL => lson[x] # rson[x]
      /\ \A z \in Nodes : dad[z] = x => z = lson[x] \/ z = rson[x]
  BY Family
<1>3. /\ w # NIL /\ x # NIL /\ y # x /\ y # w /\ y \in Nodes /\ y \in RLinks
      /\ b \in Nodes /\ b # y /\ b # x /\ b # w /\ b \in Links
      /\ dad[y] = x /\ dad[b] = x /\ h[x] < h[y] /\ h[x] < h[b]
      /\ key[y] = key[x] /\ key[b] = key[x]
  BY <1>2, LinkKinds DEF Live
<1>4. \A z \in Nodes : dad[z] = x => z = y \/ z = b
  BY <1>2, LinkKinds
<1>5. \A z \in Nodes :
        dad'[z] = IF z = x THEN NIL ELSE IF z = y THEN w
                  ELSE IF z = b THEN y ELSE dad[z]
  BY LeftIs
<1>7. \A v \in RLinks :
        rson'[v] = IF v = y THEN b
                   ELSE IF v = w /\ rson[w] = x THEN y ELSE rson[v]
  BY LeftIs
<1>8. \A v \in Nodes :
        lson'[v] = IF v = w /\ rson[w] # x THEN y ELSE lson[v]
  BY LeftIs
<1>9. h2[y] = h[x] /\ \A v \in RLinks : v # y => h2[v] = h[v]
  BY <1>3
<1> HIDE DEF h2, w, b
<1>10. \A z \in Nodes : dad'[z] # NIL <=> dad[z] # NIL /\ z # x
  BY <1>3, <1>5, LinkKinds
<1>11. \A v \in RLinks : Live(v, dad') <=> Live(v, dad) /\ v # x
  BY <1>10, LinkKinds DEF Live
<1>111. Live(y, dad)
  BY <1>3 DEF Live
<1>20. \A v \in RLinks : Live(v, dad) /\ rson[v] # NIL =>
         rson[v] \in Nodes /\ dad[rson[v]] = v
  BY <1>1, LinkKinds DEF Linked, DownLinks
<1>21. \A v \in Nodes : Live(v, dad) /\ lson[v] # NIL =>
         lson[v] \in Nodes /\ dad[lson[v]] = v /\ lson[v] # rson[v]
  BY <1>1, LinkKinds DEF Linked, DownLinks
<1>22. \A z \in Nodes : dad[z] # NIL =>
         /\ dad[z] \in RLinks /\ Live(dad[z], dad) /\ key[dad[z]] = key[z]
         /\ rson[dad[z]] = z \/ (dad[z] \in Nodes /\ lson[dad[z]] = z)
         /\ h[dad[z]] < h[z]
  BY <1>1 DEF Linked, UpLinks, Ranked
<1>12. UpLinks(lson', rson', dad', key)
  <2>1. SUFFICES ASSUME NEW z \in Nodes, dad'[z] # NIL
                 PROVE  /\ Live(dad'[z], dad') /\ key[dad'[z]] = key[z]
                        /\ rson'[dad'[z]] = z \/ (dad'[z] \in Nodes /\ lson'[dad'[z]] = z)
    BY DEF UpLinks
  <2>2. CASE z = y
    BY <1>2, <1>3, <1>5, <1>7, <1>8, <1>11, <2>2, LinkKinds
  <2>3. CASE z = b
    BY <1>3, <1>5, <1>7, <1>11, <1>111, <2>3
  <2>4. CASE z # y /\ z # b
    <3>1. dad'[z] = dad[z] /\ dad[z] # NIL /\ dad[z] # x /\ z # x
      BY <1>4, <1>5, <2>1, <2>4
    <3>2. /\ dad[z] \in RLinks /\ Live(dad[z], dad) /\ key[dad[z]] = key[z]
          /\ rson[dad[z]] = z \/ (dad[z] \in Nodes /\ lson[dad[z]] = z)
      BY <1>22, <3>1
    <3>3. dad[z] = y => lson[y] = z
      BY <3>2, LinkKinds
    <3>4. QED
      BY <1>2, <1>3, <1>7, <1>8, <1>11, <3>1, <3>2, <3>3
  <2>5. QED
    BY <2>2, <2>3, <2>4
<1>13. DownLinks(lson', rson', dad')
  <2>1. ASSUME NEW v \in RLinks, Live(v, dad'), rson'[v] # NIL
        PROVE  dad'[rson'[v]] = v
    <3>0. CASE v = y
      BY <1>3, <1>5, <1>7, <3>0
    <3>1. CASE v # y /\ v = w /\ rson[w] = x
      BY <1>3, <1>5, <1>7, <2>1, <3>1, LinkKinds
    <3>2. CASE v # y /\ ~ (v = w /\ rson[w] = x)
      <4>1. rson'[v] = rson[v] /\ Live(v, dad) /\ v # x
        BY <1>7, <1>11, <2>1, <3>2
      <4>2. rson[v] \in Nodes /\ dad[rson[v]] = v
        BY <1>20, <2>1, <4>1
      <4>3. rson[v] # x /\ rson[v] # y /\ rson[v] # b
        BY <1>3, <3>2, <4>1, <4>2, LinkKinds DEF w
      <4>4. QED
        BY <1>5, <4>1, <4>2, <4>3
    <3>3. QED
      BY <3>0, <3>1, <3>2
  <2>2. ASSUME NEW v \in Nodes, Live(v, dad'), lson'[v] # NIL
        PROVE  dad'[lson'[v]] = v /\ lson'[v] # rson'[v]
    <3>0. v \in RLinks /\ Live(v, dad) /\ v # x
      BY <1>11, <2>2, LinkKinds
    <3>1. CASE v = w /\ rson[w] # x
      <4>1. lson'[v] = y /\ rson'[v] = rson[v]
        BY <1>3, <1>7, <1>8, <3>0, <3>1, LinkKinds
      <4>2. rson[v] # y
        BY <1>3, <1>20, <3>0, LinkKinds
      <4>3. QED
        BY <1>3, <1>5, <3>1, <4>1, <4>2
    <3>2. CASE ~ (v = w /\ rson[w] # x)
      <4>1. lson'[v] = lson[v]
        BY <1>8, <3>2
      <4>2. lson[v] \in Nodes /\ dad[lson[v]] = v /\ lson[v] # rson[v]
        BY <1>21, <2>2, <3>0, <4>1
      <4>3. lson[v] # y /\ lson[v] # b
        BY <1>3, <3>0, <4>2, LinkKinds
      <4>4. lson[v] # x
        BY <3>2, <4>2 DEF w
      <4>5. rson'[v] = rson[v] \/ rson'[v] = y \/ rson'[v] = b
        BY <1>7, <3>0
      <4>6. QED
        BY <1>5, <4>1, <4>2, <4>3, <4>4, <4>5
    <3>3. QED
      BY <3>1, <3>2
  <2>3. QED
    BY <2>1, <2>2 DEF DownLinks
<1>14. Ranked(h2, dad')
  <2>1. SUFFICES ASSUME NEW z \in Nodes, dad'[z] # NIL PROVE h2[dad'[z]] < h2[z]
    BY DEF Ranked
  <2>2. h[z] \in Nat /\ h[x] \in Nat /\ h[w] \in Nat /\ h[y] \in Nat
    BY <1>1, <1>2, <1>3, LinkKinds
  <2>3. CASE z = y
    BY <1>2, <1>3, <1>5, <1>9, <2>2, <2>3, LinkKinds
  <2>4. CASE z = b
    BY <1>3, <1>5, <1>9, <2>4, LinkKinds
  <2>5. CASE z # y /\ z # b
    <3>1. dad'[z] = dad[z] /\ dad[z] \in RLinks /\ h[dad[z]] < h[z]
      BY <1>5, <1>22, <2>1, <2>5
    <3>2. h2[z] = h[z] /\ h[dad[z]] \in Nat
      BY <1>1, <1>9, <2>5, <3>1, LinkKinds
    <3>3. h2[dad[z]] = h[dad[z]] \/ (dad[z] = y /\ h2[dad[z]] = h[x])
      BY <1>9, <3>1
    <3>4. QED
      BY <1>3, <2>2, <3>1, <3>2, <3>3
  <2>6. QED
    BY <2>3, <2>4, <2>5
<1>15. QED
  BY <1>10, <1>12, <1>13, <1>14 DEF Linked, h2

\* A string leaves its place to y, the last of the right links down from its
\* left child, and y leaves its place to its left child.
Succeeds(x, y) ==
  LET rs == [rson EXCEPT ![dad[y]] = lson[y]]
      d1 == [dad EXCEPT ![lson[y]] = dad[y]]
      d2 == [d1 EXCEPT ![lson[x]] = y]
      d3 == [d2 EXCEPT ![rs[x]] = y]
  IN  TakesPlace(x, y, [lson EXCEPT ![y] = lson[x]],
                 [rs EXCEPT ![y] = rs[x]], [d3 EXCEPT ![y] = d3[x]])

\* What newDeleteNode assigns when a string further down takes the place of x.
LEMMA PredecessorIs ==
  ASSUME TypeOK, NEW key, NEW h \in [RLinks -> Nat],
         Linked(lson, rson, dad, key), Ranked(h, dad),
         NEW x \in Nodes, dad[x] # NIL, lson[x] # NIL, rson[x] # NIL,
         NEW y \in Nodes, dad[y] \in Nodes, rson[dad[y]] = y, rson[y] = NIL,
         h[x] < h[dad[y]], key[y] = key[x], Succeeds(x, y)
  PROVE  /\ \A z \in Nodes :
              dad'[z] = IF z = x THEN NIL ELSE IF z = y THEN dad[x]
                        ELSE IF z = lson[x] \/ z = rson[x] THEN y
                        ELSE IF z = lson[y] THEN dad[y] ELSE dad[z]
         /\ \A v \in RLinks :
              rson'[v] = IF v = y THEN rson[x]
                         ELSE IF v = dad[x] /\ rson[dad[x]] = x THEN y
                         ELSE IF v = dad[y] THEN lson[y] ELSE rson[v]
         /\ \A v \in Nodes :
              lson'[v] = IF v = y THEN lson[x]
                         ELSE IF v = dad[x] /\ rson[dad[x]] # x THEN y
                         ELSE lson[v]
<1> DEFINE w == dad[x]
           a == lson[x]
           b == rson[x]
           g == lson[y]
           u == dad[y]
           rs == [rson EXCEPT ![u] = g]
           d1 == [dad EXCEPT ![g] = u]
           d2 == [d1 EXCEPT ![a] = y]
           d3 == [d2 EXCEPT ![rs[x]] = y]
           d4 == [d3 EXCEPT ![y] = d3[x]]
           rs1 == [rs EXCEPT ![y] = rs[x]]
           ls1 == [lson EXCEPT ![y] = lson[x]]
<1>1. /\ lson \in [Links -> Links] /\ rson \in [RLinks -> Links]
      /\ dad \in [Links -> RLinks]
      /\ \A v \in RLinks : rson[v] \in Links /\ h[v] \in Nat
      /\ \A v \in Nodes : lson[v] \in Links /\ dad[v] \in RLinks
  BY LinkKinds DEF TypeOK
<1>2. /\ lson[x] \in Links /\ rson[x] \in Links
      /\ w \in RLinks /\ Live(w, dad) /\ w # x
      /\ key[w] = key[x] /\ h[w] < h[x]
      /\ rson[w] # x => w \in Nodes /\ lson[w] = x
      /\ \A z \in {lson[x], rson[x]} \ {NIL} :
           z \in Nodes /\ dad[z] = x /\ z # w /\ z # x /\ h[x] < h[z] /\ key[z] = key[x]
      /\ lson[x] # NIL => lson[x] # rson[x]
      /\ \A z \in Nodes : dad[z] = x => z = lson[x] \/ z = rson[x]
  BY Family
<1>20. \A v \in RLinks : Live(v, dad) /\ rson[v] # NIL =>
         rson[v] \in Nodes /\ dad[rson[v]] = v
  BY <1>1, LinkKinds DEF Linked, DownLinks
<1>21. \A v \in Nodes : Live(v, dad) /\ lson[v] # NIL =>
         lson[v] \in Nodes /\ dad[lson[v]] = v /\ lson[v] # rson[v]
  BY <1>1, LinkKinds DEF Linked, DownLinks
<1>22. \A z \in Nodes : dad[z] # NIL =>
         /\ dad[z] \in RLinks /\ Live(dad[z], dad) /\ key[dad[z]] = key[z]
         /\ rson[dad[z]] = z \/ (dad[z] \in Nodes /\ lson[dad[z]] = z)
         /\ h[dad[z]] < h[z]
  BY <1>1 DEF Linked, UpLinks, Ranked
<1>30. u \in Nodes /\ u \in RLinks /\ dad[y] = u /\ rson[u] = y /\ h[x] < h[u]
  BY LinkKinds
<1>3. /\ u # NIL /\ dad[y] # NIL /\ Live(u, dad) /\ Live(y, dad)
      /\ h[u] < h[y] /\ key[u] = key[y]
      /\ x # NIL /\ y # NIL /\ w # NIL
  BY <1>2, <1>22, LinkKinds DEF Live
<1>31. h[x] \in Nat /\ h[u] \in Nat /\ h[y] \in Nat /\ h[w] \in Nat
  BY <1>1, <1>2, LinkKinds
<1>32. /\ u # x /\ y # x /\ u # y /\ w # u /\ w # y
       /\ h[x] < h[y] /\ h[w] < h[u] /\ h[w] < h[y]
  BY <1>2, <1>3, <1>31
<1>33. /\ a \in Nodes /\ b \in Nodes /\ a # b /\ a # x /\ b # x /\ a # w /\ b # w
       /\ dad[a] = x /\ dad[b] = x /\ key[a] = key[x] /\ key[b] = key[x]
       /\ h[x] < h[a] /\ h[x] < h[b] /\ a # y /\ b # y
  BY <1>2, <1>32
<1>34. /\ g \in Links
       /\ g # NIL => /\ g \in Nodes /\ dad[g] = y /\ h[y] < h[g] /\ key[g] = key[y]
                     /\ g # x /\ g # y /\ g # a /\ g # b /\ g # u
  <2>1. g \in Links
    BY <1>1
  <2>2. ASSUME g # NIL
        PROVE  g \in Nodes /\ dad[g] = y /\ h[y] < h[g] /\ key[g] = key[y]
    <3>1. g \in Nodes /\ dad[g] = y
      BY <1>3, <1>21, <2>2
    <3>2. QED
      BY <1>3, <1>22, <3>1
  <2>3. ASSUME g # NIL PROVE h[g] \in Nat
    BY <1>1, <2>2, <2>3, LinkKinds
  <2>4. ASSUME g # NIL PROVE g # x /\ g # y /\ g # a /\ g # b /\ g # u
    <3>1. dad[g] = y /\ h[y] < h[g] /\ h[g] \in Nat
      BY <2>2, <2>3, <2>4
    <3>2. g # x /\ g # y /\ g # u
      BY <1>3, <1>31, <1>32, <3>1
    <3>3. g # a /\ g # b
      BY <1>32, <1>33, <3>1
    <3>4. QED
      BY <3>2, <3>3
  <2>5. QED
    BY <2>1, <2>2, <2>4
<1>4. /\ \A z \in Nodes : dad[z] = x => z = a \/ z = b
      /\ \A z \in Nodes : dad[z] = y => z = g
  BY <1>2, <1>3, <1>22, LinkKinds
<1>41. rs[x] = b /\ rs[w] = rson[w] /\ rs1[w] = rson[w]
  BY <1>1, <1>2, <1>32, LinkKinds
<1>42. \A z \in Nodes :
         d3[z] = IF z = a \/ z = b THEN y ELSE IF z = g THEN u ELSE dad[z]
  BY <1>1, <1>32, <1>33, <1>34, <1>41, LinkKinds
<1>43. d3[x] = w /\ d4[x] = w /\ d3 \in [Links -> RLinks]
  <2>1. d3[x] = w
    BY <1>32, <1>33, <1>34, <1>42, LinkKinds
  <2>2. d3 \in [Links -> RLinks]
    BY <1>1, LinkKinds
  <2>3. d4[x] = d3[x]
    BY <1>32, <2>2, LinkKinds
  <2>4. QED
    BY <2>1, <2>2, <2>3
<1>44. TakesPlace(x, y, ls1, rs1, d4)
  BY DEF Succeeds
<1>45. /\ rson' = IF rs1[w] = x THEN [rs1 EXCEPT ![w] = y] ELSE rs1
       /\ lson' = IF rs1[w] = x THEN ls1 ELSE [ls1 EXCEPT ![w] = y]
       /\ dad' = [d4 EXCEPT ![x] = NIL]
  <2> HIDE DEF d4, rs1, ls1, w
  <2>1. QED
    BY <1>43, <1>44, TakesPlaceIs
<1>5. \A z \in Nodes :
        dad'[z] = IF z = x THEN NIL ELSE IF z = y THEN w
                  ELSE IF z = a \/ z = b THEN y
                  ELSE IF z = g THEN u ELSE dad[z]
  <2>1. dad' = [d4 EXCEPT ![x] = NIL]
    BY <1>45
  <2>2. \A z \in Nodes : dad'[z] = IF z = x THEN NIL ELSE IF z = y THEN w ELSE d3[z]
    BY <1>2, <1>43, <2>1, LinkKinds
  <2>3. QED
    BY <1>42, <2>2
<1>7. \A v \in RLinks :
        rson'[v] = IF v = y THEN b
                   ELSE IF v = w /\ rson[w] = x THEN y
                   ELSE IF v = u THEN g ELSE rson[v]
  <2>1. rson' = IF rson[w] = x THEN [rs1 EXCEPT ![w] = y] ELSE rs1
    BY <1>41, <1>45
  <2>2. QED
    BY <1>1, <1>2, <1>32, <1>41, <2>1, LinkKinds
<1>8. \A v \in Nodes :
        lson'[v] = IF v = y THEN a
                   ELSE IF v = w /\ rson[w] # x THEN y ELSE lson[v]
  <2>1. lson' = IF rson[w] = x THEN ls1 ELSE [ls1 EXCEPT ![w] = y]
    BY <1>41, <1>45
  <2>2. QED
    BY <1>1, <1>2, <1>32, <2>1, LinkKinds
<1>9. QED
  BY <1>5, <1>7, <1>8

\* newDeleteNode of a string with two children, its predecessor further down.
LEMMA PredecessorLinks ==
  ASSUME TypeOK, NEW key, NEW h \in [RLinks -> Nat],
         Linked(lson, rson, dad, key), Ranked(h, dad),
         NEW x \in Nodes, dad[x] # NIL, lson[x] # NIL, rson[x] # NIL,
         NEW y \in Nodes, dad[y] \in Nodes, rson[dad[y]] = y, rson[y] = NIL,
         h[x] < h[dad[y]], key[y] = key[x], Succeeds(x, y)
  PROVE  /\ Linked(lson', rson', dad', key)
         /\ Ranked([h EXCEPT ![y] = h[x]], dad')
         /\ \A z \in Nodes : dad'[z] # NIL <=> dad[z] # NIL /\ z # x
<1> DEFINE w == dad[x]
           a == lson[x]
           b == rson[x]
           g == lson[y]
           u == dad[y]
           h2 == [h EXCEPT ![y] = h[x]]
<1>1. /\ lson \in [Links -> Links] /\ rson \in [RLinks -> Links]
      /\ dad \in [Links -> RLinks]
      /\ \A v \in RLinks : rson[v] \in Links /\ h[v] \in Nat
      /\ \A v \in Nodes : lson[v] \in Links /\ dad[v] \in RLinks
  BY LinkKinds DEF TypeOK
<1>2. /\ lson[x] \in Links /\ rson[x] \in Links
      /\ w \in RLinks /\ Live(w, dad) /\ w # x
      /\ key[w] = key[x] /\ h[w] < h[x]
      /\ rson[w] # x => w \in Nodes /\ lson[w] = x
      /\ \A z \in {lson[x], rson[x]} \ {NIL} :
           z \in Nodes /\ dad[z] = x /\ z # w /\ z # x /\ h[x] < h[z] /\ key[z] = key[x]
      /\ lson[x] # NIL => lson[x] # rson[x]
      /\ \A z \in Nodes : dad[z] = x => z = lson[x] \/ z = rson[x]
  BY Family
<1>20. \A v \in RLinks : Live(v, dad) /\ rson[v] # NIL =>
         rson[v] \in Nodes /\ dad[rson[v]] = v
  BY <1>1, LinkKinds DEF Linked, DownLinks
<1>21. \A v \in Nodes : Live(v, dad) /\ lson[v] # NIL =>
         lson[v] \in Nodes /\ dad[lson[v]] = v /\ lson[v] # rson[v]
  BY <1>1, LinkKinds DEF Linked, DownLinks
<1>22. \A z \in Nodes : dad[z] # NIL =>
         /\ dad[z] \in RLinks /\ Live(dad[z], dad) /\ key[dad[z]] = key[z]
         /\ rson[dad[z]] = z \/ (dad[z] \in Nodes /\ lson[dad[z]] = z)
         /\ h[dad[z]] < h[z]
  BY <1>1 DEF Linked, UpLinks, Ranked
<1>30. u \in Nodes /\ u \in RLinks /\ dad[y] = u /\ rson[u] = y /\ h[x] < h[u]
  BY LinkKinds
<1>3. /\ u # NIL /\ dad[y] # NIL /\ Live(u, dad) /\ Live(y, dad)
      /\ h[u] < h[y] /\ key[u] = key[y]
      /\ x # NIL /\ y # NIL /\ w # NIL
  BY <1>2, <1>22, LinkKinds DEF Live
<1>31. h[x] \in Nat /\ h[u] \in Nat /\ h[y] \in Nat /\ h[w] \in Nat
  BY <1>1, <1>2, LinkKinds
<1>32. /\ u # x /\ y # x /\ u # y /\ w # u /\ w # y
       /\ h[x] < h[y] /\ h[w] < h[u] /\ h[w] < h[y]
  BY <1>2, <1>3, <1>31
<1>33. /\ a \in Nodes /\ b \in Nodes /\ a # b /\ a # x /\ b # x /\ a # w /\ b # w
       /\ dad[a] = x /\ dad[b] = x /\ key[a] = key[x] /\ key[b] = key[x]
       /\ h[x] < h[a] /\ h[x] < h[b] /\ a # y /\ b # y
  BY <1>2, <1>32
<1>34. /\ g \in Links
       /\ g # NIL => /\ g \in Nodes /\ dad[g] = y /\ h[y] < h[g] /\ key[g] = key[y]
                     /\ g # x /\ g # y /\ g # a /\ g # b /\ g # u
  <2>1. g \in Links
    BY <1>1
  <2>2. ASSUME g # NIL
        PROVE  g \in Nodes /\ dad[g] = y /\ h[y] < h[g] /\ key[g] = key[y]
    <3>1. g \in Nodes /\ dad[g] = y
      BY <1>3, <1>21, <2>2
    <3>2. QED
      BY <1>3, <1>22, <3>1
  <2>3. ASSUME g # NIL PROVE h[g] \in Nat
    BY <1>1, <2>2, <2>3, LinkKinds
  <2>4. ASSUME g # NIL PROVE g # x /\ g # y /\ g # a /\ g # b /\ g # u
    <3>1. dad[g] = y /\ h[y] < h[g] /\ h[g] \in Nat
      BY <2>2, <2>3, <2>4
    <3>2. g # x /\ g # y /\ g # u
      BY <1>3, <1>31, <1>32, <3>1
    <3>3. g # a /\ g # b
      BY <1>32, <1>33, <3>1
    <3>4. QED
      BY <3>2, <3>3
  <2>5. QED
    BY <2>1, <2>2, <2>4
<1>4. /\ \A z \in Nodes : dad[z] = x => z = a \/ z = b
      /\ \A z \in Nodes : dad[z] = y => z = g
  BY <1>2, <1>3, <1>22, LinkKinds
<1>5. \A z \in Nodes :
        dad'[z] = IF z = x THEN NIL ELSE IF z = y THEN w
                  ELSE IF z = a \/ z = b THEN y
                  ELSE IF z = g THEN u ELSE dad[z]
  BY PredecessorIs
<1>7. \A v \in RLinks :
        rson'[v] = IF v = y THEN b
                   ELSE IF v = w /\ rson[w] = x THEN y
                   ELSE IF v = u THEN g ELSE rson[v]
  BY PredecessorIs
<1>8. \A v \in Nodes :
        lson'[v] = IF v = y THEN a
                   ELSE IF v = w /\ rson[w] # x THEN y ELSE lson[v]
  BY PredecessorIs
<1>9. h2[y] = h[x] /\ \A v \in RLinks : v # y => h2[v] = h[v]
  BY LinkKinds
<1> HIDE DEF h2, w, a, b, g, u
<1>10. \A z \in Nodes : dad'[z] # NIL <=> dad[z] # NIL /\ z # x
  BY <1>3, <1>32, <1>33, <1>34, <1>5, LinkKinds
<1>11. \A v \in RLinks : Live(v, dad') <=> Live(v, dad) /\ v # x
  BY <1>10, LinkKinds DEF Live
<1>12. UpLinks(lson', rson', dad', key)
  <2>1. SUFFICES ASSUME NEW z \in Nodes, dad'[z] # NIL
                 PROVE  /\ Live(dad'[z], dad') /\ key[dad'[z]] = key[z]
                        /\ rson'[dad'[z]] = z \/ (dad'[z] \in Nodes /\ lson'[dad'[z]] = z)
    BY DEF UpLinks
  <2>2. CASE z = y
    BY <1>2, <1>32, <1>5, <1>7, <1>8, <1>11, <2>2, LinkKinds
  <2>3. CASE z # y /\ (z = a \/ z = b)
    <3>1. dad'[z] = y /\ key[z] = key[y]
      BY <1>33, <1>5, <2>3
    <3>2. rson'[y] = b /\ lson'[y] = a
      BY <1>7, <1>8, LinkKinds
    <3>3. QED
      BY <1>3, <1>11, <1>32, <2>3, <3>1, <3>2, LinkKinds
  <2>4. CASE z # y /\ z # a /\ z # b /\ z = g
    <3>1. dad'[z] = u /\ key[z] = key[u]
      BY <1>3, <1>34, <1>5, <2>4, LinkKinds
    <3>2. rson'[u] = g
      BY <1>7, <1>30, <1>32, LinkKinds
    <3>3. QED
      BY <1>3, <1>11, <1>30, <1>32, <2>4, <3>1, <3>2, LinkKinds
  <2>5. CASE z # y /\ z # a /\ z # b /\ z # g
    <3>1. dad'[z] = dad[z] /\ dad[z] # NIL /\ dad[z] # x /\ dad[z] # y /\ z # x
      BY <1>4, <1>5, <2>1, <2>5
    <3>2. /\ dad[z] \in RLinks /\ Live(dad[z], dad) /\ key[dad[z]] = key[z]
          /\ rson[dad[z]] = z \/ (dad[z] \in Nodes /\ lson[dad[z]] = z)
      BY <1>22, <3>1
    <3>3. CASE dad[z] = u
      BY <1>7, <1>8, <1>11, <1>30, <1>32, <2>5, <3>1, <3>2, <3>3
    <3>4. CASE dad[z] # u
      BY <1>2, <1>7, <1>8, <1>11, <3>1, <3>2, <3>4
    <3>5. QED
      BY <3>3, <3>4
  <2>6. QED
    BY <2>2, <2>3, <2>4, <2>5
<1>13. DownLinks(lson', rson', dad')
  <2>1. ASSUME NEW v \in RLinks, Live(v, dad'), rson'[v] # NIL
        PROVE  dad'[rson'[v]] = v
    <3>1. CASE v = y
      BY <1>33, <1>5, <1>7, <3>1
    <3>2. CASE v # y /\ v = w /\ rson[w] = x
      BY <1>32, <1>5, <1>7, <3>2
    <3>3. CASE v # y /\ ~ (v = w /\ rson[w] = x) /\ v = u
      <4>1. rson'[v] = g /\ g # NIL
        BY <1>7, <2>1, <3>3
      <4>2. QED
        BY <1>34, <1>5, <3>3, <4>1
    <3>4. CASE v # y /\ ~ (v = w /\ rson[w] = x) /\ v # u
      <4>1. rson'[v] = rson[v] /\ Live(v, dad) /\ v # x
        BY <1>7, <1>11, <2>1, <3>4
      <4>2. rson[v] \in Nodes /\ dad[rson[v]] = v
        BY <1>20, <2>1, <4>1
      <4>3. rson[v] # x /\ rson[v] # y /\ rson[v] # a /\ rson[v] # b /\ rson[v] # g
        BY <1>30, <1>33, <1>34, <3>4, <4>1, <4>2, LinkKinds DEF w
      <4>4. QED
        BY <1>5, <4>1, <4>2, <4>3
    <3>5. QED
      BY <3>1, <3>2, <3>3, <3>4
  <2>2. ASSUME NEW v \in Nodes, Live(v, dad'), lson'[v] # NIL
        PROVE  dad'[lson'[v]] = v /\ lson'[v] # rson'[v]
    <3>0. v \in RLinks /\ Live(v, dad) /\ v # x
      BY <1>11, <2>2, LinkKinds
    <3>1. CASE v = y
      BY <1>33, <1>5, <1>7, <1>8, <3>0, <3>1
    <3>2. CASE v # y /\ v = w /\ rson[w] # x
      <4>1. lson'[v] = y /\ rson'[v] = rson[v]
        BY <1>7, <1>8, <1>32, <3>0, <3>2
      <4>2. rson[v] # y
        BY <1>20, <1>30, <1>32, <3>0, <3>2, LinkKinds
      <4>3. QED
        BY <1>32, <1>5, <3>2, <4>1, <4>2
    <3>3. CASE v # y /\ ~ (v = w /\ rson[w] # x)
      <4>1. lson'[v] = lson[v]
        BY <1>8, <3>3
      <4>2. lson[v] \in Nodes /\ dad[lson[v]] = v /\ lson[v] # rson[v]
        BY <1>21, <2>2, <3>0, <4>1
      <4>3. lson[v] # x
        BY <3>3, <4>2 DEF w
      <4>4. lson[v] # y
        BY <1>3, <1>21, <3>0, <4>2
      <4>5. lson[v] # a /\ lson[v] # b /\ lson[v] # g
        BY <1>33, <1>34, <3>0, <3>3, <4>2, LinkKinds
      <4>6. rson'[v] = rson[v] \/ rson'[v] = y \/ rson'[v] = g
        BY <1>7, <3>0, <3>3
      <4>7. QED
        BY <1>5, <4>1, <4>2, <4>3, <4>4, <4>5, <4>6
    <3>4. QED
      BY <3>1, <3>2, <3>3
  <2>3. QED
    BY <2>1, <2>2 DEF DownLinks
<1>14. Ranked(h2, dad')
  <2>1. SUFFICES ASSUME NEW z \in Nodes, dad'[z] # NIL PROVE h2[dad'[z]] < h2[z]
    BY DEF Ranked
  <2>2. CASE z = y
    BY <1>2, <1>32, <1>5, <1>9, <2>2
  <2>3. CASE z # y /\ (z = a \/ z = b)
    BY <1>33, <1>5, <1>9, <2>3, LinkKinds
  <2>4. CASE z # y /\ z # a /\ z # b /\ z = g
    <3>1. dad'[z] = u /\ h2[z] = h[z] /\ h2[u] = h[u] /\ h[y] < h[z] /\ h[z] \in Nat
      BY <1>1, <1>30, <1>32, <1>34, <1>5, <1>9, <2>4, LinkKinds
    <3>2. QED
      BY <1>3, <1>31, <3>1
  <2>5. CASE z # y /\ z # a /\ z # b /\ z # g
    <3>1. /\ dad'[z] = dad[z] /\ dad[z] # NIL /\ dad[z] \in RLinks /\ h[dad[z]] < h[z]
          /\ dad[z] # y
      BY <1>4, <1>5, <1>22, <2>1, <2>5
    <3>2. QED
      BY <1>9, <2>5, <3>1, LinkKinds
  <2>6. QED
    BY <2>2, <2>3, <2>4, <2>5
<1>15. QED
  BY <1>10, <1>12, <1>13, <1>14 DEF Linked, h2

-----------------------------------------------------------------------------
(* The inductive invariant of the trees.                                   *)

\* There is a rank, and the walk of DeleteNode is below s in it.
Trees ==
  \E h \in [RLinks -> Nat] :
    /\ Ranked(h, dad)
    /\ pc = "descend" => h[s] < h[dad[q]]

\* The walk of InsertNode is in the tree of the node's first byte; the node
\* itself is in none.
Inserting ==
  pc = "insert" =>
    /\ dad[node] = NIL /\ lson[node] = NIL /\ rson[node] = NIL
    /\ Live(p, dad) /\ Keys[p] = Keys[node]
    /\ p \in Roots => cmp >= 0

\* The walk of DeleteNode goes down by right links from the left child of s.
Descending ==
  pc = "descend" =>
    /\ dad[s] # NIL /\ lson[s] # NIL /\ rson[s] # NIL
    /\ q \in Nodes /\ dad[q] \in Nodes /\ rson[dad[q]] = q
    /\ Keys[q] = Keys[s]

\* Which strings may be in the trees: the window's, and s until it is deleted.
Members ==
  \A x \in Nodes : InTree(x) =>
    /\ pc = "prime" => x \in r - i + 1 .. r - 1
    /\ pc = "insert" =>
         /\ ret = "prime" => x \in r - i + 2 .. r - 1
         /\ ret = "encode" => x \in r - F .. r - 1
         /\ ret = "shift" => Behind(x) <= N - F
    /\ pc = "advance" => x = r \/ Behind(x) < N - F
    /\ pc \notin {"prime", "insert"} => x = r \/ Behind(x) <= N - F

TreeInv ==
  /\ Linked(lson, rson, dad, Keys)
  /\ Trees /\ Inserting /\ Descending /\ Members

-----------------------------------------------------------------------------
(* Each action keeps it.                                                   *)

\* s is as far behind r as the window reaches, and nothing else is.
LEMMA OldestString ==
  ASSUME ScanInv, NEW x \in Nodes
  PROVE  Behind(x) = N - F <=> x = s
BY DEF ScanInv, TypeOK, Counters, Wrap, Behind, Nodes

\* The strings grow older when the window moves on, and the one to be coded
\* next was the oldest of all.
LEMMA StringsAge ==
  ASSUME ScanInv, r' = Wrap(r + 1), NEW x \in Nodes
  PROVE  /\ x = r' => Behind(x) = N - 1
         /\ x # r' => Behind(x)' = IF x = r THEN 1 ELSE Behind(x) + 1
BY DEF ScanInv, TypeOK, Wrap, Behind, Nodes

\* A call of InsertNode cuts the links of a string that is in no tree.
LEMMA CallLinks ==
  ASSUME TypeOK, NEW key, NEW key2, NEW x \in Nodes, dad[x] = NIL,
         Linked(lson, rson, dad, key),
         \A w \in RLinks : Live(w, dad) => key2[w] = key[w]
  PROVE  Linked([lson EXCEPT ![x] = NIL], [rson EXCEPT ![x] = NIL], dad, key2)
<1> DEFINE ls == [lson EXCEPT ![x] = NIL]
           rs == [rson EXCEPT ![x] = NIL]
<1>1. ~ Live(x, dad) /\ \A w \in Nodes : w \in RLinks
  BY LinkKinds DEF Live
<1>2. /\ \A w \in RLinks : w # x => rs[w] = rson[w]
      /\ \A w \in Nodes : w # x => ls[w] = lson[w]
  BY LinkKinds DEF TypeOK
<1> HIDE DEF ls, rs
<1>3. UpLinks(ls, rs, dad, key2)
  <2>1. SUFFICES ASSUME NEW y \in Nodes, dad[y] # NIL
                 PROVE  /\ Live(dad[y], dad) /\ key2[dad[y]] = key2[y]
                        /\ rs[dad[y]] = y \/ (dad[y] \in Nodes /\ ls[dad[y]] = y)
    BY DEF UpLinks
  <2>2. /\ Live(dad[y], dad) /\ key[dad[y]] = key[y]
        /\ rson[dad[y]] = y \/ (dad[y] \in Nodes /\ lson[dad[y]] = y)
    BY <2>1 DEF Linked, UpLinks
  <2>3. Live(y, dad) /\ dad[y] \in RLinks /\ dad[y] # x
    BY <1>1, <2>1, <2>2, LinkKinds DEF Live, TypeOK
  <2>4. QED
    BY <1>1, <1>2, <2>2, <2>3
<1>4. DownLinks(ls, rs, dad)
  BY <1>1, <1>2 DEF Linked, DownLinks
<1>5. QED
  BY <1>3, <1>4 DEF Linked, ls, rs

\* The first bytes of the strings in the trees are not overwritten.
LEMMA KeysKept ==
  ASSUME TypeOK, text_buf' = text_buf
  PROVE  Keys' = Keys
BY DEF Keys

\* The call starts at the root of the tree of the string's first byte.
LEMMA CallStarts ==
  ASSUME TypeOK, TypeOK', NEW x \in Nodes, NEW back, dad[x] = NIL, dad' = dad,
         CallInsert(x, text_buf', back)
  PROVE  Inserting'
<1>1. text_buf'[x] \in Byte
  <2>1. text_buf' \in [Positions -> Byte]
    BY DEF TypeOK
  <2>2. x \in Positions
    BY DEF Positions, Nodes
  <2>3. QED
    BY <2>1, <2>2
<1>2. p' = Root(text_buf'[x]) /\ p' \in Roots /\ node' = x
  BY <1>1 DEF CallInsert, Roots
<1>3. p' \in RLinks /\ x \in RLinks /\ p' \notin Nodes
  BY <1>2, LinkKinds
<1>4. Keys'[p'] = p' - (N + 1) /\ Keys'[x] = text_buf'[x]
  BY <1>3 DEF Keys
<1>5. Keys'[p'] = Keys'[node']
  BY <1>1, <1>2, <1>4, ByteSizes DEF Root, Byte
<1>6. lson'[x] = NIL /\ rson'[x] = NIL /\ cmp' = 1
  BY LinkKinds DEF CallInsert, TypeOK
<1>7. QED
  BY <1>2, <1>5, <1>6 DEF Inserting, Live

\* Each way an insertion goes on or ends keeps the trees.
LEMMA TreeInsertStep ==
  ASSUME ScanInv, TreeInv, TypeOK', InsertNode
  PROVE  TreeInv'
<1>1. /\ TypeOK /\ pc = "insert" /\ Linked(lson, rson, dad, Keys)
      /\ dad[node] = NIL /\ lson[node] = NIL /\ rson[node] = NIL
      /\ Live(p, dad) /\ Keys[p] = Keys[node] /\ p \in RLinks /\ node \in Nodes
      /\ p \in Roots => cmp >= 0
      /\ p \in Nodes \/ p \in Roots
  BY DEF ScanInv, TreeInv, Inserting, InsertNode, InsertLeaf, InsertWalk,
         InsertReplace, TypeOK, Live
<1>2. PICK h \in [RLinks -> Nat] : Ranked(h, dad)
  BY DEF TreeInv, Trees
<1>3. /\ UNCHANGED <<text_buf, s, r, i, ret, node>> /\ Keys' = Keys
      /\ \A x \in Nodes : Behind(x)' = Behind(x)
  <2>1. UNCHANGED <<text_buf, s, r, i, ret, node>>
    BY DEF InsertNode, InsertLeaf, InsertWalk, InsertReplace, scanVars, matchVars
  <2>2. QED
    BY <1>1, <2>1, KeysKept DEF Behind
\* What the members of the trees may be when the walk is over.
<1>4. ASSUME pc' = ret,
             \A x \in Nodes : dad'[x] # NIL => dad[x] # NIL \/ x = node
      PROVE  Members' /\ Inserting' /\ Descending'
  <2>1. ret \in {"prime", "encode", "shift"} /\ pc' \in {"prime", "encode", "shift"}
    BY <1>1, <1>4 DEF TypeOK
  <2>2. Inserting' /\ Descending'
    BY <2>1 DEF Inserting, Descending
  <2>3. ASSUME NEW x \in Nodes, dad'[x] # NIL
        PROVE  /\ pc' = "prime" => x \in r - i + 1 .. r - 1
               /\ pc' \in {"encode", "shift"} => x = r \/ Behind(x) <= N - F
    <3>1. /\ r \in Nodes /\ i \in 0..F+1
          /\ ret = "prime" => i \in 2..F+1 /\ r = N - F /\ node = r - (i - 1)
          /\ ret = "encode" => r = N - F /\ node = r
          /\ ret = "shift" => node = r
      BY <1>1 DEF ScanInv, Counters, TypeOK
    <3>2. CASE x = node
      BY <1>4, <3>1, <3>2
    <3>3. CASE dad[x] # NIL
      <4>1. /\ ret = "prime" => x \in r - i + 2 .. r - 1
            /\ ret = "encode" => x \in r - F .. r - 1
            /\ ret = "shift" => Behind(x) <= N - F
        BY <1>1, <3>3 DEF TreeInv, Members, InTree
      <4>2. QED
        BY <1>4, <3>1, <4>1 DEF Behind, Nodes
    <3>4. QED
      BY <1>4, <2>3, <3>2, <3>3
  <2>4. ASSUME NEW x \in Nodes, InTree(x)' PROVE dad'[x] # NIL
    BY <2>4 DEF InTree, NIL
  <2>5. pc' # "insert" /\ pc' # "advance"
    BY <2>1
  <2>6. Members'
    BY <1>3, <2>1, <2>3, <2>4, <2>5 DEF Members
  <2>7. QED
    BY <2>2, <2>6
<1>5. CASE InsertLeaf
  <2>1. dad' = [dad EXCEPT ![node] = p] /\ pc' = ret
    BY <1>5 DEF InsertLeaf
  <2>2. LeafAt(node, p)
    <3>1. CASE cmp >= 0
      BY <1>5, <3>1 DEF InsertLeaf, Child, LeafAt
    <3>2. CASE ~ (cmp >= 0)
      BY <1>1, <1>5, <3>2 DEF InsertLeaf, Child, LeafAt
    <3>3. QED
      BY <3>1, <3>2
  <2>3. Linked(lson', rson', dad', Keys)
          /\ Ranked([h EXCEPT ![node] = h[p] + 1], dad')
    BY <1>1, <1>2, <2>1, <2>2, LeafLinks
  <2>4. [h EXCEPT ![node] = h[p] + 1] \in [RLinks -> Nat]
    <3>1. h[p] + 1 \in Nat
      BY <1>1
    <3>2. QED
      BY <3>1
  <2>5. \A x \in Nodes : dad'[x] # NIL => dad[x] # NIL \/ x = node
    BY <1>1, <2>1, LinkKinds DEF TypeOK
  <2>6. Trees'
    <3>1. pc' # "descend"
      BY <1>1, <2>1 DEF TypeOK
    <3>2. QED
      BY <2>3, <2>4, <3>1 DEF Trees
  <2>7. QED
    BY <1>3, <1>4, <2>1, <2>3, <2>5, <2>6 DEF TreeInv
\* The child the walk turns to belongs to the same tree.
<1>6. ASSUME Child # NIL
      PROVE  /\ Child \in Nodes /\ dad[Child] # NIL /\ Keys[Child] = Keys[node]
             /\ Live(Child, dad)
  <2>1. Child \in Nodes
    BY <1>1, <1>6, ChildType DEF ScanInv
  <2>2. dad[Child] = p
    BY <1>1, <1>6 DEF Child, Linked, DownLinks
  <2>3. p # NIL
    BY <1>1, LinkKinds
  <2>4. QED
    BY <1>1, <2>1, <2>2, <2>3 DEF Linked, UpLinks, Live
<1>7. CASE InsertWalk
  <2>1. /\ UNCHANGED <<lson, rson, dad, q, pc>> /\ p' = Child /\ Child # NIL
    BY <1>7 DEF InsertWalk, treeVars
  <2>2. Inserting'
    <3>1. p' \notin Roots
      BY <1>6, <2>1, LinkKinds
    <3>2. QED
      BY <1>1, <1>3, <1>6, <2>1, <3>1 DEF Inserting, Live
  <2>3. Members'
    BY <1>3, <2>1 DEF TreeInv, Members, InTree, Behind
  <2>4. Trees' /\ Descending'
    BY <1>1, <1>2, <2>1 DEF Trees, Descending
  <2>5. QED
    BY <1>1, <1>3, <2>1, <2>2, <2>3, <2>4 DEF TreeInv
<1>8. CASE InsertReplace
  <2>0. PICK x \in Nodes : x = Child
    BY <1>6, <1>8 DEF InsertReplace
  <2>1. dad[x] # NIL /\ Keys[x] = Keys[node] /\ pc' = ret
    BY <1>6, <1>8, <2>0 DEF InsertReplace
  <2>2. Replaces(node, x)
    <3>1. Replaces(node, Child)
      BY <1>8 DEF InsertReplace, Replaces
    <3>2. QED
      BY <2>0, <3>1
  <2>3. /\ Linked(lson', rson', dad', Keys)
        /\ Ranked([h EXCEPT ![node] = h[x]], dad')
        /\ \A y \in Nodes : dad'[y] # NIL => dad[y] # NIL \/ y = node
    BY <1>1, <1>2, <2>1, <2>2, ReplaceLinks
  <2>4. [h EXCEPT ![node] = h[x]] \in [RLinks -> Nat]
    BY <2>1, LinkKinds
  <2>5. Trees'
    <3>1. pc' # "descend"
      BY <1>1, <2>1 DEF TypeOK
    <3>2. QED
      BY <2>3, <2>4, <3>1 DEF Trees
  <2>6. QED
    BY <1>3, <1>4, <2>1, <2>3, <2>5 DEF TreeInv
<1>9. QED
  BY <1>5, <1>7, <1>8 DEF InsertNode

\* Each way a deletion goes on or ends keeps the trees.
LEMMA TreeDeleteStep ==
  ASSUME ScanInv, TreeInv, TypeOK', DeleteNode
  PROVE  TreeInv'
<1>1. /\ TypeOK /\ Linked(lson, rson, dad, Keys) /\ s \in Nodes
      /\ pc \in {"delete", "descend"} /\ pc' \in {"advance", "descend"}
  BY DEF ScanInv, TreeInv, TypeOK, DeleteNode, DeleteAbsent, DeleteNarrow,
         DeleteLeft, DeleteDescend, DeletePredecessor, DeleteBy
<1>2. PICK h \in [RLinks -> Nat] :
         Ranked(h, dad) /\ (pc = "descend" => h[s] < h[dad[q]])
  BY DEF TreeInv, Trees
<1>3. /\ UNCHANGED <<text_buf, s, r, i, ret, node>> /\ Keys' = Keys
      /\ \A x \in Nodes : Behind(x)' = Behind(x)
  <2>1. UNCHANGED <<text_buf, s, r, i, ret, node>>
    BY DEF DeleteNode, DeleteAbsent, DeleteNarrow, DeleteLeft, DeleteDescend,
           DeletePredecessor, DeleteFrame, scanVars, matchVars
  <2>2. QED
    BY <1>1, <2>1, KeysKept DEF Behind
\* s is gone, and with it the oldest string.
<1>4. ASSUME pc' = "advance",
             \A x \in Nodes : dad'[x] # NIL => dad[x] # NIL /\ x # s
      PROVE  Members' /\ Inserting' /\ Descending'
  <2>1. Inserting' /\ Descending'
    BY <1>4 DEF Inserting, Descending
  <2>2. ASSUME NEW x \in Nodes, InTree(x)'
        PROVE  /\ x = r \/ Behind(x) < N - F
               /\ x = r \/ Behind(x) <= N - F
    <3>1. dad[x] # NIL /\ x # s
      BY <1>4, <2>2 DEF InTree, NIL
    <3>2. x = r \/ Behind(x) <= N - F
      BY <1>1, <3>1 DEF TreeInv, Members, InTree
    <3>3. Behind(x) # N - F
      BY <3>1, OldestString
    <3>4. Behind(x) \in Int
      BY <1>1 DEF TypeOK, Behind, Nodes
    <3>5. QED
      BY <3>2, <3>3, <3>4
  <2>3. Members'
    BY <1>3, <1>4, <2>2 DEF Members
  <2>4. QED
    BY <2>1, <2>3
<1>5. ASSUME NEW h2 \in [RLinks -> Nat], Ranked(h2, dad'), pc' = "advance"
      PROVE  Trees'
  BY <1>5 DEF Trees
<1>6. CASE DeleteAbsent
  <2>1. UNCHANGED treeVars /\ dad[s] = NIL /\ pc' = "advance"
    BY <1>6 DEF DeleteAbsent
  <2>2. UNCHANGED <<lson, rson, dad>>
    BY <2>1 DEF treeVars
  <2>3. QED
    BY <1>1, <1>2, <1>3, <1>4, <1>5, <2>1, <2>2 DEF TreeInv
<1>7. CASE DeleteNarrow
  <2>1. /\ dad[s] # NIL /\ pc' = "advance"
        /\ TakesPlace(s, q', lson, rson, [dad EXCEPT ![q'] = dad[s]])
    BY <1>7 DEF DeleteNarrow, DeleteBy
  <2>0. (rson[s] = NIL /\ q' = lson[s]) \/ (lson[s] = NIL /\ q' = rson[s])
    BY <1>7 DEF DeleteNarrow
  <2>2. /\ Linked(lson', rson', dad', Keys) /\ Ranked(h, dad')
        /\ \A z \in Nodes : dad'[z] # NIL <=> dad[z] # NIL /\ z # s
    BY <1>1, <1>2, <2>0, <2>1, NarrowLinks
  <2>3. QED
    BY <1>3, <1>4, <1>5, <2>1, <2>2 DEF TreeInv
<1>8. CASE DeleteLeft
  <2>1. /\ dad[s] # NIL /\ pc' = "advance" /\ q' = lson[s] /\ q' # NIL
        /\ rson[s] # NIL /\ rson[q'] = NIL
        /\ LeavesTo(s, q')
    BY <1>8 DEF DeleteLeft, DeleteBy, LeavesTo
  <2>2. /\ Linked(lson', rson', dad', Keys)
        /\ Ranked([h EXCEPT ![q'] = h[s]], dad')
        /\ \A z \in Nodes : dad'[z] # NIL <=> dad[z] # NIL /\ z # s
    BY <1>1, <1>2, <2>1, LeftLinks
  <2>3. [h EXCEPT ![q'] = h[s]] \in [RLinks -> Nat]
    BY <1>1, LinkKinds
  <2>4. QED
    BY <1>3, <1>4, <1>5, <2>1, <2>2, <2>3 DEF TreeInv
<1>9. CASE DeleteDescend
  <2>1. UNCHANGED <<lson, rson, dad>> /\ pc' = "descend"
    BY <1>9 DEF DeleteDescend, treeVars
  <2> DEFINE u == IF pc = "delete" THEN lson[s] ELSE q
  <2>2. /\ dad[s] # NIL /\ lson[s] # NIL /\ rson[s] # NIL
        /\ u \in Nodes /\ dad[u] # NIL /\ h[s] < h[u] /\ Keys[u] = Keys[s]
        /\ q' = rson[u] /\ q' # NIL
    <3>1. CASE pc = "delete"
      <4>1. /\ dad[s] # NIL /\ rson[s] # NIL /\ lson[s] # NIL
            /\ rson[lson[s]] # NIL /\ q' = rson[lson[s]]
        BY <1>9, <3>1 DEF DeleteDescend
      <4>2. /\ lson[s] \in Nodes /\ dad[lson[s]] = s /\ h[s] < h[lson[s]]
            /\ Keys[lson[s]] = Keys[s]
        BY <1>1, <1>2, <4>1, Family
      <4>3. s # NIL
        BY <1>1, LinkKinds
      <4>4. QED
        BY <3>1, <4>1, <4>2, <4>3
    <3>2. CASE pc = "descend"
      <4>1. rson[q] # NIL /\ q' = rson[q]
        BY <1>9, <3>2 DEF DeleteDescend
      <4>2. /\ dad[s] # NIL /\ lson[s] # NIL /\ rson[s] # NIL
            /\ q \in Nodes /\ dad[q] \in Nodes /\ Keys[q] = Keys[s]
            /\ h[s] < h[dad[q]]
        BY <1>2, <3>2 DEF TreeInv, Descending
      <4>3. dad[q] # NIL /\ h[dad[q]] < h[q]
        BY <1>2, <4>2, LinkKinds DEF Ranked
      <4>4. h[s] \in Nat /\ h[dad[q]] \in Nat /\ h[q] \in Nat
        BY <1>1, <4>2, LinkKinds
      <4>5. h[s] < h[q]
        BY <4>2, <4>3, <4>4
      <4>6. QED
        BY <3>2, <4>1, <4>2, <4>3, <4>5
    <3>3. QED
      BY <1>1, <3>1, <3>2
  <2> HIDE DEF u
  <2>3. q' \in Nodes /\ dad[q'] = u /\ Keys[q'] = Keys[u]
    BY <1>1, <1>2, <2>2, Family
  <2>4. Descending'
    BY <1>3, <2>1, <2>2, <2>3 DEF Descending
  <2>5. Trees'
    BY <1>2, <1>3, <2>1, <2>2, <2>3 DEF Trees
  <2>6. Members'
    BY <1>1, <1>3, <2>1 DEF TreeInv, Members, InTree, Behind
  <2>7. Inserting'
    BY <2>1 DEF Inserting
  <2>8. QED
    BY <1>1, <1>3, <2>1, <2>4, <2>5, <2>6, <2>7 DEF TreeInv
<1>10. CASE DeletePredecessor
  <2>1. /\ pc = "descend" /\ pc' = "advance" /\ rson[q] = NIL
        /\ Succeeds(s, q)
    BY <1>10 DEF DeletePredecessor, DeleteBy, Succeeds
  <2>2. /\ dad[s] # NIL /\ lson[s] # NIL /\ rson[s] # NIL
        /\ q \in Nodes /\ dad[q] \in Nodes /\ rson[dad[q]] = q
        /\ Keys[q] = Keys[s] /\ h[s] < h[dad[q]]
    BY <1>2, <2>1 DEF TreeInv, Descending
  <2>4. /\ Linked(lson', rson', dad', Keys)
        /\ Ranked([h EXCEPT ![q] = h[s]], dad')
        /\ \A z \in Nodes : dad'[z] # NIL <=> dad[z] # NIL /\ z # s
    BY <1>1, <1>2, <2>1, <2>2, PredecessorLinks
  <2>5. [h EXCEPT ![q] = h[s]] \in [RLinks -> Nat]
    BY <1>1, LinkKinds
  <2>6. QED
    BY <1>3, <1>4, <1>5, <2>1, <2>4, <2>5 DEF TreeInv
<1>11. QED
  BY <1>6, <1>7, <1>8, <1>9, <1>10 DEF DeleteNode

\* When the window moves on, neither the cell that is overwritten nor the one
\* that comes next is the start of a string in the trees.
LEMMA WindowMoves ==
  ASSUME ScanInv, TreeInv, pc = "advance", r' = Succ(r)
  PROVE  /\ r' \in Nodes /\ dad[r'] = NIL /\ dad[s] = NIL
         /\ \A x \in Nodes : dad[x] # NIL => Behind(x)' <= N - F
<1>0. r \in Nodes /\ s \in Nodes
  BY DEF ScanInv, TypeOK
<1>1. r \in Nodes /\ s \in Nodes /\ r' \in Nodes /\ r' = Wrap(r + 1) /\ r' # r
  <2>1. r' = Wrap(r + 1)
    BY <1>0, SuccIsWrap
  <2>2. N \in Nat /\ N >= 2 /\ r \in 0..N-1
    BY <1>0 DEF Nodes
  <2>3. QED
    BY <1>0, <2>1, <2>2 DEF Wrap, Nodes
<1>2. \A x \in Nodes : Behind(x) \in Nat
  BY <1>1 DEF Behind, Nodes
<1>3. ASSUME NEW x \in Nodes, dad[x] # NIL
      PROVE  x = r \/ Behind(x) < N - F
  BY <1>3 DEF TreeInv, Members, InTree
<1>4. dad[r'] = NIL
  <2>1. Behind(r') = N - 1
    BY <1>1, StringsAge
  <2>2. QED
    BY <1>1, <1>3, <2>1
<1>5. dad[s] = NIL
  <2>1. Behind(s) = N - F
    BY <1>1, OldestString
  <2>2. Behind(r) = N
    BY <1>1 DEF Behind, Nodes
  <2>3. QED
    BY <1>1, <1>3, <2>1, <2>2
<1>6. ASSUME NEW x \in Nodes, dad[x] # NIL
      PROVE  Behind(x)' <= N - F
  <2>1. x # r'
    BY <1>4, <1>6
  <2>2. Behind(x)' = IF x = r THEN 1 ELSE Behind(x) + 1
    BY <1>1, <2>1, StringsAge
  <2>3. x = r \/ Behind(x) < N - F
    BY <1>3, <1>6
  <2>4. QED
    BY <1>2, <2>2, <2>3
<1>7. QED
  BY <1>1, <1>4, <1>5, <1>6

\* A call of newInsertNode that is begun, for a string in no tree.
LEMMA TreeCallStep ==
  ASSUME ScanInv, TreeInv, TypeOK',
         NEW x \in Nodes, NEW back, dad[x] = NIL, dad' = dad,
         CallInsert(x, text_buf', back),
         \A w \in RLinks : Live(w, dad) => Keys'[w] = Keys[w],
         \A y \in Nodes : dad[y] # NIL =>
           /\ back = "prime" => y \in r' - i' + 2 .. r' - 1
           /\ back = "encode" => y \in r' - F .. r' - 1
           /\ back = "shift" => Behind(y)' <= N - F
  PROVE  TreeInv'
<1>1. TypeOK /\ Linked(lson, rson, dad, Keys)
  BY DEF ScanInv, TreeInv
<1>2. Linked([lson EXCEPT ![x] = NIL], [rson EXCEPT ![x] = NIL], dad, Keys')
  BY <1>1, CallLinks
<1>3. /\ lson' = [lson EXCEPT ![x] = NIL] /\ rson' = [rson EXCEPT ![x] = NIL]
      /\ pc' = "insert" /\ ret' = back
  BY DEF CallInsert
<1>4. Linked(lson', rson', dad', Keys')
  BY <1>2, <1>3
<1>5. Trees'
  BY <1>3 DEF TreeInv, Trees
<1>6. Inserting'
  BY <1>1, CallStarts
<1>7. Descending'
  BY <1>3 DEF Descending
<1>8. Members'
  <2>1. ASSUME NEW y \in Nodes, InTree(y)' PROVE dad[y] # NIL
    BY <2>1 DEF InTree, NIL
  <2>2. QED
    BY <1>3, <2>1 DEF Members
<1>9. QED
  BY <1>4, <1>5, <1>6, <1>7, <1>8 DEF TreeInv

\* The first strings, inserted backwards from the first byte.
LEMMA TreePrimeStep ==
  ASSUME ScanInv, TreeInv, TypeOK', Prime
  PROVE  TreeInv'
<1>1. /\ TypeOK /\ pc = "prime" /\ r \in Nodes /\ i \in 1..F+1 /\ r = N - F
      /\ dad' = dad /\ text_buf' = text_buf /\ r' = r
  BY DEF ScanInv, TypeOK, Counters, Prime, scanVars
<1>2. \A y \in Nodes : dad[y] # NIL => y \in r - i + 1 .. r - 1
  BY <1>1 DEF TreeInv, Members, InTree
<1>3. Keys' = Keys
  BY <1>1, KeysKept
<1>4. CASE i <= F /\ CallInsert(r - i, text_buf, "prime") /\ i' = i + 1
  <2>1. r - i \in Nodes
    BY <1>1, <1>4 DEF Nodes
  <2>2. dad[r - i] = NIL
    BY <1>1, <1>2, <2>1 DEF Nodes
  <2>3. \A y \in Nodes : dad[y] # NIL => y \in r' - i' + 2 .. r' - 1
    BY <1>1, <1>2, <1>4
  <2>4. QED
    BY <1>1, <1>3, <1>4, <2>1, <2>2, <2>3, TreeCallStep
<1>5. CASE i > F /\ CallInsert(r, text_buf, "encode")
  <2>1. dad[r] = NIL
    BY <1>1, <1>2 DEF Nodes
  <2>2. \A y \in Nodes : dad[y] # NIL => y \in r' - F .. r' - 1
    BY <1>1, <1>2, <1>5 DEF Nodes
  <2>3. QED
    BY <1>1, <1>3, <1>5, <2>1, <2>2, TreeCallStep
<1>6. QED
  BY <1>4, <1>5 DEF Prime

\* The window moves on by a byte, and the string it uncovers is inserted.
LEMMA TreeAdvanceStep ==
  ASSUME ScanInv, TreeInv, TypeOK', AdvanceByte \/ AdvanceEnd
  PROVE  TreeInv'
<1>1. /\ TypeOK /\ pc = "advance" /\ r' = Succ(r) /\ dad' = dad /\ q' = q
      /\ s \in Nodes
  BY DEF ScanInv, TypeOK, AdvanceByte, AdvanceEnd
<1>2. /\ r' \in Nodes /\ dad[r'] = NIL /\ dad[s] = NIL
      /\ \A x \in Nodes : dad[x] # NIL => Behind(x)' <= N - F
  BY <1>1, WindowMoves
<1>3. ASSUME NEW w \in RLinks, Live(w, dad) PROVE Keys'[w] = Keys[w]
  <2>1. w \in Nodes => w # s
    BY <1>1, <1>2, <1>3, LinkKinds DEF Live
  <2>2. w \in Nodes => text_buf'[w] = text_buf[w]
    <3>1. CASE AdvanceByte
      BY <1>1, <2>1, <3>1 DEF AdvanceByte, Nodes, Positions
    <3>2. CASE AdvanceEnd
      BY <3>2 DEF AdvanceEnd
    <3>3. QED
      BY <3>1, <3>2
  <2>3. QED
    BY <2>2 DEF Keys
<1>4. CASE CallInsert(r', text_buf', "shift")
  BY <1>1, <1>2, <1>3, <1>4, TreeCallStep
<1>5. CASE AdvanceEnd /\ pc' = "shift" /\ UNCHANGED <<lson, rson>>
  <2>1. text_buf' = text_buf
    BY <1>5 DEF AdvanceEnd
  <2>2. Keys' = Keys
    BY <1>1, <2>1, KeysKept
  <2>3. Inserting' /\ Descending' /\ Trees'
    BY <1>1, <1>5 DEF TreeInv, Inserting, Descending, Trees
  <2>4. Members'
    <3>1. ASSUME NEW y \in Nodes, InTree(y)' PROVE dad[y] # NIL
      BY <1>1, <3>1 DEF InTree, NIL
    <3>2. QED
      BY <1>2, <1>5, <3>1 DEF Members
  <2>5. QED
    BY <1>1, <1>5, <2>2, <2>3, <2>4 DEF TreeInv
<1>6. QED
  BY <1>4, <1>5 DEF AdvanceByte, AdvanceEnd

\* The rest of the loop leaves the links alone.
LEMMA TreeOtherStep ==
  ASSUME ScanInv, TreeInv,
         Encode \/ Shift \/ Shifted \/ Flush \/ UNCHANGED vars
  PROVE  TreeInv'
<1>1. CASE UNCHANGED vars
  BY <1>1 DEF vars, TreeInv, Trees, Inserting, Descending, Members, InTree,
              Behind, Keys
<1>2. CASE Encode \/ Shift \/ Shifted \/ Flush
  <2>1. /\ TypeOK
        /\ UNCHANGED <<text_buf, lson, rson, dad, r, ret, q, s>>
        /\ pc \in {"encode", "shift", "flush"}
        /\ pc' \in {"encode", "shift", "delete", "flush", "done"}
    BY <1>2 DEF ScanInv, Encode, Shift, Shifted, Flush, scanVars, treeVars
  <2>2. Keys' = Keys /\ \A x \in Nodes : Behind(x)' = Behind(x)
    BY <2>1, KeysKept DEF ScanInv, Behind
  <2>3. Inserting' /\ Descending' /\ Trees'
    BY <2>1 DEF TreeInv, Inserting, Descending, Trees
  <2>4. Members'
    <3>1. ASSUME NEW y \in Nodes, InTree(y)'
          PROVE  y = r \/ Behind(y) <= N - F
      BY <2>1, <3>1 DEF InTree, NIL, TreeInv, Members
    <3>2. QED
      BY <2>1, <2>2, <3>1 DEF Members
  <2>5. QED
    BY <2>1, <2>2, <2>3, <2>4 DEF TreeInv
<1>3. QED
  BY <1>1, <1>2

\* At the start the trees are empty.
LEMMA InitTree == Init => TreeInv
<1> SUFFICES ASSUME Init PROVE TreeInv
  OBVIOUS
<1>1. /\ \A x \in Nodes : dad[x] = NIL
      /\ \A w \in Roots : rson[w] = NIL
      /\ pc \in {"done", "prime"}
  BY LinkKinds DEF Init
<1>2. Linked(lson, rson, dad, Keys)
  BY <1>1, LinkKinds DEF Linked, UpLinks, DownLinks, Live
<1>3. Trees
  <2>1. [w \in RLinks |-> 0] \in [RLinks -> Nat]
    OBVIOUS
  <2>2. QED
    BY <1>1, <2>1 DEF Trees, Ranked
<1>4. Inserting /\ Descending /\ Members
  BY <1>1 DEF Inserting, Descending, Members, InTree
<1>5. QED
  BY <1>2, <1>3, <1>4 DEF TreeInv

-----------------------------------------------------------------------------
(* The invariant holds, and what follows from it.                          *)

\* The inductive invariant of the trees.
THEOREM TreeInvariant == SafeSpec => []TreeInv
<1>1. Init => TreeInv
  BY InitTree
<1>2. ScanInv /\ ScanInv' /\ TreeInv /\ [Next]_vars => TreeInv'
  <2>1. SUFFICES ASSUME ScanInv, TypeOK', TreeInv, [Next]_vars PROVE TreeInv'
    BY DEF ScanInv
  <2>2. CASE Prime
    BY <2>1, <2>2, TreePrimeStep
  <2>3. CASE InsertNode
    BY <2>1, <2>3, TreeInsertStep
  <2>4. CASE DeleteNode
    BY <2>1, <2>4, TreeDeleteStep
  <2>5. CASE AdvanceByte \/ AdvanceEnd
    BY <2>1, <2>5, TreeAdvanceStep
  <2>6. CASE Encode \/ Shift \/ Shifted \/ Flush \/ UNCHANGED vars
    BY <2>1, <2>6, TreeOtherStep
  <2>7. QED
    BY <2>1, <2>2, <2>3, <2>4, <2>5, <2>6 DEF Next
<1>3. QED
  BY <1>1, <1>2, ScanInvariant, PTL DEF SafeSpec

\* What the invariant of the trees says of their links.
LEMMA InvariantAgrees ==
  ASSUME ScanInv, TreeInv
  PROVE  LinksAgree
<1>1. SUFFICES ASSUME NEW x \in Nodes, dad[x] # NIL
               PROVE  /\ dad[x] \in Roots =>
                           dad[x] = Root(text_buf[x]) /\ rson[dad[x]] = x
                      /\ dad[x] \in Nodes =>
                           /\ dad[dad[x]] # NIL
                           /\ (lson[dad[x]] = x) # (rson[dad[x]] = x)
                      /\ \A y \in {lson[x], rson[x]} \ {NIL} : dad[y] = x
  BY DEF LinksAgree, InTree
<1>2. /\ TypeOK /\ Linked(lson, rson, dad, Keys) /\ x \in RLinks /\ Live(x, dad)
      /\ dad[x] \in RLinks
  BY <1>1, LinkKinds DEF ScanInv, TreeInv, Live, TypeOK
<1>3. /\ Live(dad[x], dad) /\ Keys[dad[x]] = Keys[x]
      /\ rson[dad[x]] = x \/ (dad[x] \in Nodes /\ lson[dad[x]] = x)
  BY <1>1, <1>2 DEF Linked, UpLinks
<1>4. ASSUME dad[x] \in Roots
      PROVE  dad[x] = Root(text_buf[x]) /\ rson[dad[x]] = x
  <2>1. dad[x] \notin Nodes
    BY <1>4, LinkKinds
  <2>2. Keys[dad[x]] = dad[x] - (N + 1) /\ Keys[x] = text_buf[x]
    BY <1>2, <2>1 DEF Keys
  <2>3. dad[x] \in Int
    BY <1>2, ByteSizes DEF RLinks
  <2>4. dad[x] = N + 1 + (dad[x] - (N + 1))
    BY <2>3
  <2>5. dad[x] = Root(text_buf[x])
    BY <1>3, <2>2, <2>4 DEF Root
  <2>6. QED
    BY <1>3, <2>1, <2>5
<1>5. ASSUME dad[x] \in Nodes
      PROVE  dad[dad[x]] # NIL /\ (lson[dad[x]] = x) # (rson[dad[x]] = x)
  <2>1. dad[dad[x]] # NIL
    BY <1>3, <1>5, LinkKinds DEF Live
  <2>2. x # NIL
    BY LinkKinds
  <2>3. ~ (lson[dad[x]] = x /\ rson[dad[x]] = x)
    BY <1>2, <1>3, <1>5, <2>2 DEF Linked, DownLinks
  <2>4. lson[dad[x]] = x \/ rson[dad[x]] = x
    BY <1>3
  <2>5. QED
    BY <2>1, <2>3, <2>4
<1>6. \A y \in {lson[x], rson[x]} \ {NIL} : dad[y] = x
  BY <1>2 DEF Linked, DownLinks
<1>7. QED
  BY <1>4, <1>5, <1>6

\* Whatever is inserted, replaced and deleted, the links of the trees agree,
\* and DeleteNode never writes a left link of a root, which has none.
THEOREM LinksKept == Spec => []LinksAgree
<1>1. ScanInv /\ TreeInv => LinksAgree
  BY InvariantAgrees
<1>2. QED
  BY <1>1, ScanInvariant, TreeInvariant, PTL DEF Spec

\* What the invariant of the trees says of the window.
LEMMA InvariantFresh ==
  ASSUME ScanInv, TreeInv
  PROVE  NoStaleString
<1>1. SUFFICES ASSUME NEW x \in Nodes, dad[x] # NIL, x # r
               PROVE  Behind(x) <= N - F
  BY DEF NoStaleString, InTree
<1>2. /\ r \in Nodes /\ i \in 0..F+1
      /\ pc = "prime" => i \in 1..F+1
      /\ pc = "insert" /\ ret = "prime" => i \in 2..F+1
      /\ ret \in {"prime", "encode", "shift"}
  BY DEF ScanInv, TypeOK, Counters
<1>3. CASE pc = "prime"
  BY <1>1, <1>2, <1>3 DEF TreeInv, Members, InTree, Behind, Nodes
<1>4. CASE pc = "insert"
  BY <1>1, <1>2, <1>4 DEF TreeInv, Members, InTree, Behind, Nodes
<1>5. CASE pc \notin {"prime", "insert"}
  BY <1>1, <1>5 DEF TreeInv, Members, InTree
<1>6. QED
  BY <1>3, <1>4, <1>5

\* No string is left in a tree when its bytes are overwritten.
THEOREM StringsFresh == Spec => []NoStaleString
<1>1. ScanInv /\ TreeInv => NoStaleString
  BY InvariantFresh
<1>2. QED
  BY <1>1, ScanInvariant, TreeInvariant, PTL DEF Spec

-----------------------------------------------------------------------------
(* The match InsertNode finds on its way down the tree: what holds of it.  *)

(***************************************************************************)
(* The best match so far: the strings at node and at match_position agree  *)
(* in their first match_length bytes and in no more, and the latter starts *)
(* in the window.                                                          *)
(***************************************************************************)
Found ==
  match_length > 0 =>
    /\ \A j \in 0 .. match_length-1 :
         text_buf[node + j] = text_buf[match_position + j]
    /\ match_length < F =>
         text_buf[node + match_length] # text_buf[match_position + match_length]
    /\ Behind(match_position) <= N - F

(***************************************************************************)
(* It is kept while InsertNode is under way, and up to the unit coded with *)
(* it.  Encode overwrites match_length, but at least one byte goes with    *)
(* every unit, so that InsertNode has run again before the next one.       *)
(***************************************************************************)
MatchInv ==
  /\ pc = "insert" => Found /\ (ret = "shift" => i > 0)
  /\ pc = "encode" => Found /\ node = r
  /\ pc = "shift" => last > 0 /\ (i > 0 /\ len > 0 => Found /\ node = r)

-----------------------------------------------------------------------------
(* Each action keeps it.                                                   *)

\* The node the walk of InsertNode goes on to is a string of the window that
\* begins with the byte the new one begins with.
LEMMA ChildInWindow ==
  ASSUME ScanInv, TreeInv, pc = "insert", Child # NIL
  PROVE  /\ Child \in Nodes /\ text_buf[Child] = text_buf[node]
         /\ Behind(Child) <= N - F
<1>1. PICK x : x = Child
  OBVIOUS
<1>2. /\ x \in Nodes /\ node \in Nodes /\ p \in RLinks
      /\ r \in Nodes /\ i \in 0..F+1 /\ ret \in {"prime", "encode", "shift"}
      /\ ret = "prime" => i \in 2..F+1
      /\ cmp < 0 => p \in Nodes
  BY <1>1, ChildType DEF ScanInv, TypeOK, Counters
<1>3. /\ Linked(lson, rson, dad, Keys) /\ Live(p, dad) /\ Keys[p] = Keys[node]
      /\ p \in Roots => cmp >= 0
  BY DEF TreeInv, Inserting
<1>4. dad[x] = p
  <2>1. CASE cmp >= 0
    BY <1>1, <1>2, <1>3, <2>1 DEF Child, Linked, DownLinks
  <2>2. CASE ~ (cmp >= 0)
    <3>1. p \in Nodes
      BY <1>3, <2>2, LinkKinds DEF Live
    <3>2. QED
      BY <1>1, <1>2, <1>3, <2>2, <3>1 DEF Child, Linked, DownLinks
  <2>3. QED
    BY <2>1, <2>2
<1>5. dad[x] # NIL
  BY <1>3, <1>4, LinkKinds DEF Live
<1>6. Keys[x] = Keys[node]
  BY <1>2, <1>3, <1>4, <1>5 DEF Linked, UpLinks
<1>7. text_buf[x] = text_buf[node]
  BY <1>2, <1>6, LinkKinds DEF Keys
<1>8. /\ ret = "prime" => x \in r - i + 2 .. r - 1
      /\ ret = "encode" => x \in r - F .. r - 1
      /\ ret = "shift" => Behind(x) <= N - F
  BY <1>2, <1>5 DEF TreeInv, Members, InTree
<1>9. Behind(x) <= N - F
  BY <1>2, <1>8 DEF Behind, Nodes
<1>10. QED
  BY <1>1, <1>2, <1>7, <1>9

\* What the comparison loop stops at is a match of as many bytes.
LEMMA DifferenceMatches ==
  ASSUME NEW x \in Nodes, NEW y \in Nodes, text_buf[x] = text_buf[y]
  PROVE  /\ FirstDifference(x, y) \in 1..F
         /\ \A j \in 0 .. FirstDifference(x, y) - 1 :
              text_buf[x + j] = text_buf[y + j]
         /\ FirstDifference(x, y) < F =>
              text_buf[x + FirstDifference(x, y)]
                # text_buf[y + FirstDifference(x, y)]
<1>1. PICK k : k = FirstDifference(x, y)
  OBVIOUS
<1>2. /\ k \in 1..F
      /\ \A j \in 1 .. k-1 : text_buf[x + j] = text_buf[y + j]
      /\ k < F => text_buf[x + k] # text_buf[y + k]
  BY <1>1, DifferenceFound
<1>3. text_buf[x + 0] = text_buf[y + 0]
  BY DEF Nodes
<1>4. \A j \in 0 .. k-1 : text_buf[x + j] = text_buf[y + j]
  <2>1. \A j \in 0 .. k-1 : j = 0 \/ j \in 1 .. k-1
    BY <1>2
  <2>2. QED
    BY <1>2, <1>3, <2>1
<1>5. QED
  BY <1>1, <1>2, <1>4

\* An insertion records a match of the length it compared.
LEMMA MatchInsertStep ==
  ASSUME ScanInv, TreeInv, MatchInv, InsertNode
  PROVE  MatchInv'
<1>1. /\ pc = "insert" /\ Found /\ (ret = "shift" => i > 0)
      /\ node \in Nodes /\ ret \in {"prime", "encode", "shift"}
      /\ i \in 0..F+1 /\ last \in 0..F /\ match_length \in 0..F
      /\ ret = "encode" => node = r
      /\ ret = "shift" => node = r /\ i <= last
      /\ UNCHANGED <<text_buf, r, node, ret, i, last, len>>
  BY DEF ScanInv, TypeOK, Counters, MatchInv, InsertNode, InsertLeaf,
         InsertWalk, InsertReplace, scanVars, matchVars
<1>2. ASSUME Found', pc' = "insert" \/ pc' = ret PROVE MatchInv'
  <2>1. CASE pc' = "insert"
    BY <1>1, <1>2, <2>1 DEF MatchInv
  <2>2. CASE pc' = ret
    BY <1>1, <1>2, <2>2 DEF MatchInv
  <2>3. QED
    BY <1>2, <2>1, <2>2
<1>3. CASE InsertLeaf
  <2>1. UNCHANGED <<match_position, match_length>> /\ pc' = ret
    BY <1>3 DEF InsertLeaf, matchVars
  <2>2. Found'
    BY <1>1, <2>1 DEF Found, Behind
  <2>3. QED
    BY <1>2, <2>1, <2>2
<1>4. ASSUME NEW x, NEW k, x = Child, Child # NIL,
             k = FirstDifference(node, Child),
             match_position' = x, match_length' = k
      PROVE  Found'
  <2>1. x \in Nodes /\ text_buf[x] = text_buf[node] /\ Behind(x) <= N - F
    BY <1>1, <1>4, ChildInWindow
  <2>2. /\ k \in 1..F
        /\ \A j \in 0 .. k-1 : text_buf[node + j] = text_buf[x + j]
        /\ k < F => text_buf[node + k] # text_buf[x + k]
    BY <1>1, <1>4, <2>1, DifferenceMatches
  <2>3. QED
    BY <1>1, <1>4, <2>1, <2>2 DEF Found, Behind
<1>5. CASE InsertWalk
  <2>1. PICK x, k : x = Child /\ k = FirstDifference(node, Child)
    OBVIOUS
  <2>2. /\ Child # NIL
        /\ match_length' = IF k > match_length THEN k ELSE match_length
        /\ match_position' = IF k > match_length THEN x ELSE match_position
        /\ pc' = "insert"
    BY <1>1, <1>5, <2>1 DEF InsertWalk
  <2>3. CASE k > match_length
    BY <1>2, <1>4, <2>1, <2>2, <2>3
  <2>4. CASE ~ (k > match_length)
    <3>1. UNCHANGED <<match_position, match_length>>
      BY <2>2, <2>4
    <3>2. Found'
      BY <1>1, <3>1 DEF Found, Behind
    <3>3. QED
      BY <1>2, <2>2, <3>2
  <2>5. QED
    BY <2>3, <2>4
<1>6. CASE InsertReplace
  <2>1. /\ Child # NIL /\ FirstDifference(node, Child) = F
        /\ match_position' = Child /\ match_length' = F /\ pc' = ret
    BY <1>6 DEF InsertReplace
  <2>2. Found'
    BY <1>4, <2>1
  <2>3. QED
    BY <1>2, <2>1, <2>2
<1>7. QED
  BY <1>3, <1>5, <1>6 DEF InsertNode

\* Between two insertions the match stays one while it is of use.
LEMMA MatchOtherStep ==
  ASSUME ScanInv, MatchInv, [Next]_vars, ~ InsertNode
  PROVE  MatchInv'
<1>1. i \in 0..F+1 /\ last \in 0..F /\ match_length \in 0..F /\ len \in 0..F
  BY DEF ScanInv, TypeOK
<1>2. CASE Prime
  <2>1. match_length' = 0 /\ pc' = "insert" /\ ret' # "shift"
    BY <1>2 DEF Prime, CallInsert
  <2>2. QED
    BY <2>1 DEF MatchInv, Found
<1>3. CASE DeleteNode \/ Shift
  BY <1>3
  DEF MatchInv, DeleteNode, DeleteAbsent, DeleteNarrow, DeleteLeft,
      DeleteDescend, DeletePredecessor, DeleteBy, Shift
<1>4. CASE AdvanceByte \/ AdvanceEnd
  <2>1. pc = "advance" /\ i < last /\ i' = i + 1 /\ last' = last
    BY <1>4 DEF AdvanceByte, AdvanceEnd, ScanInv, Counters, Deleting
  <2>2. CASE \/ CallInsert(r', text_buf', "shift")
             \/ CallInsert(r', text_buf, "shift")
    <3>1. match_length' = 0 /\ pc' = "insert"
      BY <2>2 DEF CallInsert
    <3>2. QED
      BY <1>1, <2>1, <3>1 DEF MatchInv, Found
  <2>3. CASE len' = 0 /\ pc' = "shift"
    BY <1>1, <2>1, <2>3 DEF MatchInv
  <2>4. QED
    BY <1>4, <2>2, <2>3 DEF AdvanceByte, AdvanceEnd
<1>5. CASE Encode
  <2>1. match_length' > 0
    BY <1>1, <1>5 DEF Encode, EncodeLiteral, EncodePair, Clipped, Least
  <2>2. QED
    BY <1>5, <2>1 DEF Encode, MatchInv
<1>6. CASE Shifted
  <2>1. /\ pc = "shift" /\ i > 0 /\ len' = len /\ pc' \in {"encode", "flush"}
        /\ pc' = "encode" => len > 0
        /\ UNCHANGED <<match_position, match_length, node, text_buf, r>>
    BY <1>1, <1>6 DEF Shifted, MatchInv, scanVars, matchVars
  <2>2. pc' = "encode" => Found' /\ node' = r'
    BY <2>1 DEF MatchInv, Found, Behind
  <2>3. QED
    BY <2>1, <2>2 DEF MatchInv
<1>7. CASE Flush
  BY <1>7 DEF Flush, MatchInv
<1>8. CASE UNCHANGED vars
  BY <1>8 DEF vars, MatchInv, Found, Behind
<1>9. QED
  BY <1>2, <1>3, <1>4, <1>5, <1>6, <1>7, <1>8 DEF Next

-----------------------------------------------------------------------------
(* The invariant holds, and what follows from it.                          *)

\* The inductive invariant of the match.
THEOREM MatchInvariant == SafeSpec => []MatchInv
<1>1. Init => MatchInv
  BY DEF Init, MatchInv
<1>2. /\ ScanInv /\ ScanInv' /\ TreeInv /\ TreeInv'
      /\ MatchInv /\ [Next]_vars
      => MatchInv'
  BY MatchInsertStep, MatchOtherStep
<1>3. QED
  BY <1>1, <1>2, ScanInvariant, TreeInvariant, PTL DEF SafeSpec

\* A string that starts in the window shows the text as far as it reaches,
\* also across the end of the ring and into the bytes still to be coded.
LEMMA StringShown ==
  ASSUME ScanInv, ~ Deleting, NEW x \in Nodes, Behind(x) <= N - F,
         NEW j \in 0 .. len-1
  PROVE  text_buf[x + j] = Source(Coded + 1 + j - Behind(x))
<1>1. /\ r \in Nodes /\ len \in 0..F /\ read \in Nat /\ N \in Nat /\ F \in Nat
  BY DEF ScanInv, TypeOK
<1>2. PICK e \in Int : e = j - Behind(x)
  BY <1>1 DEF Behind, Nodes
<1>3. Behind(x) \in 1 .. N - F /\ e \in -(N - F) .. len-1
  BY <1>1, <1>2 DEF Behind, Nodes
<1>4. HoldsText(e) /\ Passed = Coded /\ Coded \in Int
  BY <1>1, <1>3 DEF ScanInv, Window, Passed, Coded
<1>5. Passed + 1 + e = Coded + 1 + j - Behind(x)
  BY <1>1, <1>2, <1>3, <1>4
<1>6. CASE x + j < N
  <2>1. Cell(e) = x + j
    BY <1>1, <1>2, <1>6 DEF Cell, Wrap, Behind, Nodes
  <2>2. QED
    BY <1>4, <1>5, <2>1 DEF HoldsText
<1>7. CASE x + j >= N
  <2>1. Cell(e) = x + j - N
    BY <1>1, <1>2, <1>7 DEF Cell, Wrap, Behind, Nodes
  <2>2. x + Behind(x) < 2 * N - F
    BY <1>1, <1>3 DEF Nodes
  <2>3. Cell(e) + N = x + j /\ Cell(e) < F - 1 /\ e > Cell(e) - (N - F)
    BY <1>1, <1>2, <1>3, <1>7, <2>1, <2>2 DEF Nodes
  <2>4. QED
    BY <1>4, <1>5, <2>3 DEF HoldsText
<1>8. QED
  BY <1>1, <1>6, <1>7 DEF Nodes

\* Agreement(x, n) is the only number that fits its definition.
LEMMA AgreementIs ==
  ASSUME NEW x, NEW n \in Nat, NEW k \in 0..n, Coded \in Int, Behind(x) \in Int,
         \A j \in 1..k : text[Coded + j] = Source(Coded + j - Behind(x)),
         k < n => text[Coded + k + 1] # Source(Coded + k + 1 - Behind(x))
  PROVE  Agreement(x, n) = k
<1> DEFINE Agrees(m) ==
             \A j \in 1..m : text[Coded + j] = Source(Coded + j - Behind(x))
           Stops(m) ==
             m < n => text[Coded + m + 1] # Source(Coded + m + 1 - Behind(x))
<1>1. ASSUME NEW a \in 0..n, NEW b \in 0..n, Agrees(b), Stops(a), a < b
      PROVE  FALSE
  <2>1. PICK d \in 1..b : d = a + 1
    BY <1>1
  <2>2. /\ a < n /\ Coded + d = Coded + a + 1
        /\ Coded + d - Behind(x) = Coded + a + 1 - Behind(x)
    BY <1>1, <2>1
  <2>3. text[Coded + d] = Source(Coded + d - Behind(x))
    BY <1>1
  <2>4. text[Coded + a + 1] # Source(Coded + a + 1 - Behind(x))
    BY <1>1, <2>2
  <2>5. QED
    BY <2>2, <2>3, <2>4
<1>2. Agreement(x, n) = CHOOSE m \in 0..n : Agrees(m) /\ Stops(m)
  BY DEF Agreement
<1>3. Agrees(k) /\ Stops(k)
  OBVIOUS
<1> HIDE DEF Agrees, Stops
<1>4. PICK m : m = Agreement(x, n)
  OBVIOUS
<1>5. m \in 0..n /\ Agrees(m) /\ Stops(m)
  BY <1>2, <1>3, <1>4
<1>6. ~ (m < k) /\ ~ (k < m)
  BY <1>1, <1>3, <1>5
<1>7. QED
  BY <1>4, <1>5, <1>6

\* What is recorded agrees with the text of the file, and no longer than that.
LEMMA MatchAgrees ==
  ASSUME ScanInv, MatchInv, pc = "encode", Clipped > 0
  PROVE  /\ Behind(match_position) \in 1 .. N - F
         /\ Clipped \in 1..len
         /\ \A j \in 1..Clipped :
              text[Coded + j] = Source(Coded + j - Behind(match_position))
         /\ Clipped < len =>
              text[Coded + Clipped + 1]
                # Source(Coded + Clipped + 1 - Behind(match_position))
<1>1. /\ ~ Deleting /\ match_position \in Nodes /\ match_length \in 0..F
      /\ r \in Nodes /\ len \in 0..F /\ read \in Nat /\ len <= read
      /\ Coded \in Nat /\ Coded = read - len
  BY DEF ScanInv, TypeOK, Supply, Coded, Deleting
<1>2. PICK x \in Nodes, k \in Int : x = match_position /\ k = Clipped
  BY <1>1 DEF Clipped, Least
<1>3. /\ k \in 1..len /\ k <= match_length /\ match_length > 0
      /\ k < len => k = match_length /\ match_length < F
  BY <1>1, <1>2 DEF Clipped, Least
<1>4. /\ \A j \in 0 .. match_length-1 : text_buf[r + j] = text_buf[x + j]
      /\ match_length < F =>
           text_buf[r + match_length] # text_buf[x + match_length]
      /\ Behind(x) <= N - F
  BY <1>2, <1>3 DEF MatchInv, Found
<1>5. Behind(x) \in Nat
  BY <1>1 DEF Behind, Nodes
<1>6. ASSUME NEW j \in 0 .. len-1
      PROVE  /\ text_buf[r + j] = text[Coded + 1 + j]
             /\ text_buf[x + j] = Source(Coded + 1 + j - Behind(x))
  <2>1. text_buf[r + j] = Source(Coded + 1 + j)
    BY <1>1, WindowCells
  <2>2. Source(Coded + 1 + j) = text[Coded + 1 + j]
    BY <1>1 DEF Source
  <2>3. QED
    BY <1>1, <1>4, <2>1, <2>2, StringShown
<1>7. ASSUME NEW j \in 1..k
      PROVE  text[Coded + j] = Source(Coded + j - Behind(x))
  <2>1. PICK e \in 0 .. len-1 : e = j - 1 /\ e \in 0 .. match_length-1
    BY <1>1, <1>3
  <2>2. /\ Coded + 1 + e = Coded + j
        /\ Coded + 1 + e - Behind(x) = Coded + j - Behind(x)
    BY <1>1, <1>5, <2>1
  <2>3. text_buf[r + e] = text_buf[x + e]
    BY <1>4, <2>1
  <2>4. /\ text_buf[r + e] = text[Coded + 1 + e]
        /\ text_buf[x + e] = Source(Coded + 1 + e - Behind(x))
    BY <1>6, <2>1
  <2>5. QED
    BY <2>2, <2>3, <2>4
<1>8. k < len => text[Coded + k + 1] # Source(Coded + k + 1 - Behind(x))
  <2>1. SUFFICES ASSUME k < len
                 PROVE text[Coded + k + 1] # Source(Coded + k + 1 - Behind(x))
    OBVIOUS
  <2>2. /\ k \in 0 .. len-1
        /\ Coded + 1 + k = Coded + k + 1
        /\ Coded + 1 + k - Behind(x) = Coded + k + 1 - Behind(x)
    BY <1>1, <1>3, <1>5, <2>1
  <2>3. text_buf[r + k] # text_buf[x + k]
    BY <1>3, <1>4, <2>1
  <2>4. /\ text_buf[r + k] = text[Coded + 1 + k]
        /\ text_buf[x + k] = Source(Coded + 1 + k - Behind(x))
    BY <1>6, <2>2
  <2>5. QED
    BY <2>2, <2>3, <2>4
<1>9. Behind(x) >= 1
  BY <1>1, <1>5 DEF Behind, Nodes
<1>10. QED
  BY <1>2, <1>3, <1>4, <1>5, <1>7, <1>8, <1>9

LEMMA MatchShown ==
  ASSUME ScanInv, MatchInv
  PROVE  MatchFound
<1>1. SUFFICES ASSUME pc = "encode", Clipped > 0
               PROVE  /\ Behind(match_position) <= N - F
                      /\ Agreement(match_position, len) = Clipped
  BY DEF MatchFound
<1>2. /\ len \in Nat /\ Clipped \in 0..len /\ Coded \in Int
      /\ Behind(match_position) \in Int
  BY <1>1, MatchAgrees DEF ScanInv, TypeOK, Coded
<1>3. Agreement(match_position, len) = Clipped
  BY <1>1, <1>2, MatchAgrees, AgreementIs
<1>4. QED
  BY <1>1, <1>3, MatchAgrees

\* Every match that is coded is one: it starts in the window, and the text
\* agrees with it for as many bytes as the pair says.
THEOREM MatchesFound == Spec => []MatchFound
<1>1. ScanInv /\ MatchInv => MatchFound
  BY MatchShown
<1>2. QED
  BY <1>1, ScanInvariant, MatchInvariant, PTL DEF Spec

=============================================================================
