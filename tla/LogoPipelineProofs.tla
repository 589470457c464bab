------------------------- MODULE LogoPipelineProofs --------------------------
(***************************************************************************)
(* From the file to out_buffer: whatever lzss_encode_better writes, every  *)
(* port of ll takes it apart into the units it was put together from, for  *)
(* every size of bytes and ring, every file and every port that suits it.  *)
(***************************************************************************)
EXTENDS LogoPipeline, LzssEncoderProofs, SequenceTheorems

USE SizeAssumption

-----------------------------------------------------------------------------
(* Numbers.                                                                *)

\* Powers up to the size of a pair are positive.
LEMMA PairPowers ==
  ASSUME NEW u \in 0 .. 2 * ByteBits
  PROVE  2^u \in Nat \ {0}
<1> DEFINE S == { v \in 0 .. 2 * ByteBits : 2^v \notin Nat \ {0} }
<1>1. SUFFICES ASSUME S # {} PROVE FALSE
  OBVIOUS
<1>2. PICK v \in S : \A m \in S : v <= m
  <2>1. S \in SUBSET Nat
    OBVIOUS
  <2>2. QED
    BY <1>1, <2>1, LeastNumber
<1>3. v \in 0 .. 2 * ByteBits /\ 2^v \notin Nat \ {0}
  OBVIOUS
<1>4. CASE v = 0
  <2>1. 2^0 = 1
    OBVIOUS
  <2>2. QED
    BY <1>3, <1>4, <2>1
<1>5. CASE v # 0
  <2>1. v - 1 \in 0 .. 2 * ByteBits - 1 /\ (v - 1) + 1 = v
    BY <1>3, <1>5
  <2>2. 2^(v - 1) \in Nat \ {0}
    BY <1>2, <2>1
  <2>3. 2^v = 2 * 2^(v - 1)
    BY <2>1, PowerAssumption
  <2>4. QED
    BY <1>3, <2>2, <2>3
<1>6. QED
  BY <1>4, <1>5

\* Fields of bits side by side.
LEMMA PowerSum ==
  ASSUME NEW a \in 0 .. 2 * ByteBits, NEW b \in 0 .. 2 * ByteBits,
         a + b <= 2 * ByteBits
  PROVE  2^(a + b) = 2^a * 2^b
<1> DEFINE S == { v \in 0 .. 2 * ByteBits : v <= b /\ 2^(a + v) # 2^a * 2^v }
<1>1. SUFFICES ASSUME S # {} PROVE FALSE
  OBVIOUS
<1>2. PICK v \in S : \A m \in S : v <= m
  <2>1. S \in SUBSET Nat
    OBVIOUS
  <2>2. QED
    BY <1>1, <2>1, LeastNumber
<1>3. v \in 0 .. 2 * ByteBits /\ v <= b /\ 2^(a + v) # 2^a * 2^v
  OBVIOUS
<1>4. 2^a \in Nat
  BY PairPowers
<1>5. CASE v = 0
  <2>1. 2^0 = 1 /\ a + v = a
    BY <1>5
  <2>2. QED
    BY <1>3, <1>4, <1>5, <2>1
<1>6. CASE v # 0
  <2>1. PICK w \in 0 .. 2 * ByteBits - 1 : v = w + 1
    BY <1>3, <1>6
  <2>2. w \notin S /\ w \in 0 .. 2 * ByteBits /\ w <= b
    BY <1>2, <1>3, <2>1
  <2>3. 2^(a + w) = 2^a * 2^w
    BY <2>2
  <2>4. 2^v = 2 * 2^w
    BY <2>1, PowerAssumption
  <2>5. a + w \in 0 .. 2 * ByteBits - 1 /\ a + v = (a + w) + 1
    BY <1>3, <2>1
  <2>6. 2^(a + v) = 2 * 2^(a + w)
    BY <2>5, PowerAssumption
  <2>7. 2^w \in Nat
    BY <2>2, PairPowers
  <2>8. QED
    BY <1>3, <1>4, <2>3, <2>4, <2>6, <2>7
<1>7. QED
  BY <1>5, <1>6

\* A quotient and a remainder are known from the interval a number lies in.
LEMMA DivisionIs ==
  ASSUME NEW b \in Nat \ {0}, NEW x \in Nat, NEW rest \in 0 .. b-1
  PROVE  (b * x + rest) \div b = x /\ (b * x + rest) % b = rest
<1>1. (b * x + rest) \div b = x
  OBVIOUS
<1>2. (b * x + rest) % b = rest
  OBVIOUS
<1>3. QED
  BY <1>1, <1>2

\* What division leaves.
LEMMA DivisionOf ==
  ASSUME NEW x \in Nat, NEW b \in Nat \ {0}
  PROVE  /\ x \div b \in Nat /\ x % b \in 0 .. b-1
         /\ x = b * (x \div b) + (x % b)
<1>1. x \div b \in Nat /\ x % b \in 0 .. b-1
  OBVIOUS
<1>2. x = b * (x \div b) + (x % b)
  OBVIOUS
<1>3. QED
  BY <1>1, <1>2

\* Dividing twice is dividing by the product.
LEMMA DivideTwice ==
  ASSUME NEW x \in Nat, NEW a \in Nat \ {0}
  PROVE  (x \div a) \div 2 = x \div (2 * a)
<1>1. PICK y \in Nat, m \in 0 .. a-1 : y = x \div a /\ x = a * y + m
  <2>1. /\ x \div a \in Nat /\ x % a \in 0 .. a-1
        /\ x = a * (x \div a) + (x % a)
    BY DivisionOf
  <2>2. QED
    BY <2>1
<1>2. PICK z \in Nat, e \in {0, 1} : z = y \div 2 /\ y = 2 * z + e
  <2>1. y \div 2 \in Nat /\ y % 2 \in {0, 1} /\ y = 2 * (y \div 2) + (y % 2)
    OBVIOUS
  <2>2. QED
    BY <2>1
<1>3. PICK rest \in 0 .. 2 * a - 1 : rest = e * a + m
  <2>1. CASE e = 0
    BY <2>1
  <2>2. CASE e = 1
    BY <2>2
  <2>3. QED
    BY <2>1, <2>2
<1>4. x = (2 * a) * z + rest
  <2>1. a * y = (2 * a) * z + e * a
    <3>1. a * (2 * z + e) = (2 * a) * z + e * a
      OBVIOUS
    <3>2. QED
      BY <1>2, <3>1
  <2>2. /\ a * y \in Int /\ (2 * a) * z \in Int /\ e * a \in Int
    OBVIOUS
  <2>3. QED
    BY <1>1, <1>3, <2>1, <2>2
<1>5. x \div (2 * a) = z
  <2>1. 2 * a \in Nat \ {0}
    OBVIOUS
  <2>2. QED
    BY <1>4, <2>1, DivisionIs
<1>6. QED
  BY <1>1, <1>2, <1>5

\* The sizes of the format: a pair is exactly two bytes.
LEMMA WireSizes ==
  /\ ByteBits >= 2 /\ ByteValues \in Nat /\ ByteValues >= 4
  /\ N = ByteValues * (PositionMask + 1)
  /\ ByteValues = F * (PositionMask + 1)
  /\ PositionMask + 1 \in Nat \ {0}
  /\ F < ByteValues
  /\ ByteValues = 2 * 2^(ByteBits - 1) /\ 2^(ByteBits - 1) \in Nat
<1>1. PICK d \in 1 .. ByteBits - 1 : d = PositionBits - ByteBits
  BY WireAssumption
<1>2. /\ ByteBits >= 2
      /\ PositionBits = ByteBits + d
      /\ ByteBits = (2 * ByteBits - PositionBits) + d
      /\ ByteBits = 1 + (ByteBits - 1)
      /\ d = 1 + (d - 1)
  BY <1>1
<1>3. PositionMask + 1 = 2^d
  <2>1. 2^d \in Nat
    BY <1>1, PairPowers
  <2>2. QED
    BY <1>1, <2>1 DEF PositionMask
<1>4. N = 2^ByteBits * 2^d
  <2>1. 2^(ByteBits + d) = 2^ByteBits * 2^d
    BY <1>1, PowerSum
  <2>2. QED
    BY <1>2, <2>1, WireAssumption
<1>5. 2^ByteBits = F * 2^d
  <2>1. PICK e \in 1 .. ByteBits : e = 2 * ByteBits - PositionBits
    BY <1>1
  <2>2. 2^(e + d) = 2^e * 2^d
    BY <1>1, <2>1, PowerSum
  <2>3. QED
    BY <1>2, <2>1, <2>2, WireAssumption
<1>6. /\ 2^ByteBits = 2 * 2^(ByteBits - 1)
      /\ 2^(ByteBits - 1) = 2 * 2^(ByteBits - 2)
      /\ 2^d = 2 * 2^(d - 1)
  <2>1. PICK e \in 0 .. ByteBits : e = ByteBits - 2
    BY <1>2
  <2>2. ByteBits - 1 = e + 1 /\ ByteBits = (e + 1) + 1
    BY <2>1
  <2>3. 2^(e + 1) = 2 * 2^e /\ 2^((e + 1) + 1) = 2 * 2^(e + 1)
    BY <1>2, <2>1, PowerAssumption
  <2>4. PICK f \in 0 .. ByteBits : f = d - 1 /\ f + 1 = d
    BY <1>1
  <2>5. 2^(f + 1) = 2 * 2^f
    BY <2>4, PowerAssumption
  <2>6. QED
    BY <2>1, <2>2, <2>3, <2>4, <2>5
<1>7. /\ 2^d \in Nat \ {0} /\ 2^(d - 1) \in Nat \ {0}
      /\ 2^ByteBits \in Nat \ {0} /\ 2^(ByteBits - 1) \in Nat \ {0}
      /\ 2^(ByteBits - 2) \in Nat \ {0}
  BY <1>1, <1>2, PairPowers
<1>8. 2^ByteBits >= 4
  BY <1>6, <1>7
<1>9. F < 2^ByteBits
  <2>1. 2^d >= 2
    BY <1>6, <1>7
  <2>2. F * 2^d >= F * 2
    BY <1>7, <2>1
  <2>3. QED
    BY <1>5, <1>7, <2>2
<1>10. QED
  BY <1>2, <1>3, <1>4, <1>5, <1>6, <1>7, <1>8, <1>9 DEF ByteValues

\* A pair is read as it was written.
LEMMA PairRead ==
  ASSUME NEW x \in Nodes, NEW n \in Threshold+1 .. F,
         NEW w, w = PairBytes(x, n)[1] + ByteValues * PairBytes(x, n)[2]
  PROVE  w \in Nat /\ PairPosition(w) = x /\ PairLength(w) = n
<1>1. PICK B \in Nat \ {0} : B = ByteValues
  BY WireSizes
<1>2. PICK M \in Nat \ {0} : M = PositionMask + 1
  BY WireSizes
<1>3. N = B * M /\ B = F * M
  BY <1>1, <1>2, WireSizes
<1>4. PICK e \in 0 .. F-1 : e = n - (Threshold + 1)
  OBVIOUS
<1>5. PICK h \in Nat, l \in 0 .. B-1 :
        h = x \div B /\ l = x % B /\ x = B * h + l
  <2>1. x \in Nat
    BY DEF Nodes
  <2>2. x \div B \in Nat /\ x % B \in 0 .. B-1 /\ x = B * (x \div B) + (x % B)
    BY <2>1, DivisionOf
  <2>3. QED
    BY <2>2
<1>6. h < M
  <2>1. CASE h >= M
    <3>1. B * h >= B * M
      BY <2>1
    <3>2. QED
      BY <1>3, <1>5, <3>1 DEF Nodes
  <2>2. QED
    BY <2>1
<1>7. h % M = h
  BY <1>6
<1>8. h + e * M \in 0 .. B-1
  <2>1. e * M <= (F - 1) * M
    OBVIOUS
  <2>2. (F - 1) * M = F * M - M
    OBVIOUS
  <2>3. e * M \in Nat /\ F * M \in Nat
    OBVIOUS
  <2>4. QED
    BY <1>3, <1>6, <2>1, <2>2, <2>3
<1>9. (h + e * M) % B = h + e * M
  <2>1. PICK k \in 0 .. B-1 : k = h + e * M
    BY <1>8
  <2>2. k % B = k
    OBVIOUS
  <2>3. QED
    BY <2>1, <2>2
<1>10. PairBytes(x, n) = << l, h + e * M >>
  BY <1>1, <1>2, <1>4, <1>5, <1>7, <1>9 DEF PairBytes
<1>11. w = l + B * (h + e * M)
  BY <1>1, <1>10
<1>12. w = N * e + x
  <2>1. B * (h + e * M) = B * h + (B * M) * e
    OBVIOUS
  <2>2. (B * M) * e \in Nat /\ B * h \in Nat
    OBVIOUS
  <2>3. QED
    BY <1>3, <1>5, <1>11, <2>1, <2>2
<1>13. w \in Nat /\ w \div N = e /\ w % N = x
  <2>1. (N * e + x) \div N = e /\ (N * e + x) % N = x
    <3>1. N \in Nat \ {0} /\ e \in Nat /\ x \in 0 .. N-1
      BY DEF Nodes
    <3>2. QED
      BY <3>1, DivisionIs
  <2>2. N * e + x \in Nat
    BY DEF Nodes
  <2>3. QED
    BY <1>12, <2>1, <2>2
<1>14. QED
  BY <1>4, <1>13, WireAssumption DEF PairPosition, PairLength

-----------------------------------------------------------------------------
(* The register with the flags.                                            *)

Inverted == port.flags \in {"inverted", "carry"}

\* What a port keeps above the flags to see that they are used up.
Above ==
  CASE port.flags \in {"ones", "bit", "over", "isff"} -> ByteValues - 1
    [] port.flags = "top" -> 2^(ByteBits - 1)
    [] port.flags = "one" -> 1
    [] port.flags \in {"inverted", "carry"} ->
         ByteValues * ByteValues * ByteValues - 1
    [] port.flags = "counted" -> 0

FlagKinds == {"ones", "bit", "over", "isff", "top", "one", "inverted", "carry",
              "counted"}

\* The choices of a port.
LEMMA PortKinds ==
  ASSUME port \in Decoder!Traits
  PROVE  /\ port.flags \in FlagKinds
         /\ port.length \in {"set", "low", "inc", "mem", "dbf"}
         /\ port.cleared \in BOOLEAN /\ port.crlf \in BOOLEAN
BY DEF Decoder!Traits, Decoder!FlagCounters, Decoder!LengthCounters, FlagKinds

\* A byte of flags when it is loaded.
LEMMA Loaded ==
  ASSUME port \in Decoder!Traits, NEW b \in Byte
  PROVE  /\ Above \in Nat
         /\ Decoder!LoadedFlags(b)
              = ByteValues * Above + (IF Inverted THEN ByteValues - 1 - b ELSE b)
<1>1. PICK B \in Nat \ {0} : B = ByteValues /\ B = Decoder!ByteValues
  BY WireSizes DEF ByteValues, Decoder!ByteValues
<1>2. PICK H \in Nat \ {0} : H = 2^(ByteBits - 1) /\ B = 2 * H
  <2>1. ByteBits - 1 \in 0 .. 2 * ByteBits
    BY WireSizes
  <2>2. 2^(ByteBits - 1) \in Nat \ {0}
    BY <2>1, PairPowers
  <2>3. B = 2 * 2^(ByteBits - 1)
    BY <1>1, WireSizes
  <2>4. QED
    BY <2>2, <2>3
<1>3. port.flags \in FlagKinds
  BY PortKinds
<1>4. b \in 0 .. B-1
  BY <1>1 DEF Byte
<1>5. CASE port.flags \in {"ones", "bit", "over", "isff"}
  <2>1. Above = B - 1 /\ ~ Inverted /\ Decoder!LoadedFlags(b) = (B - 1) * B + b
    BY <1>1, <1>5 DEF Above, Inverted, Decoder!LoadedFlags
  <2>2. (B - 1) * B = B * (B - 1)
    OBVIOUS
  <2>3. QED
    BY <1>1, <2>1, <2>2
<1>6. CASE port.flags = "top"
  <2>1. /\ Above = H /\ ~ Inverted
        /\ Decoder!LoadedFlags(b) = ((B * B) \div 2) + b
    BY <1>1, <1>2, <1>6 DEF Above, Inverted, Decoder!LoadedFlags
  <2>2. (B * B) \div 2 = B * H
    <3>1. B * B = 2 * (B * H)
      BY <1>2
    <3>2. B * H \in Nat
      OBVIOUS
    <3>3. QED
      BY <3>1, <3>2
  <2>3. QED
    BY <1>1, <2>1, <2>2
<1>7. CASE port.flags = "one"
  <2>1. Above = 1 /\ ~ Inverted /\ Decoder!LoadedFlags(b) = B + b
    BY <1>1, <1>7 DEF Above, Inverted, Decoder!LoadedFlags
  <2>2. QED
    BY <1>1, <2>1
<1>8. CASE port.flags \in {"inverted", "carry"}
  <2>1. /\ Above = B * B * B - 1 /\ Inverted
        /\ Decoder!LoadedFlags(b) = B^4 - 1 - b
    BY <1>1, <1>8 DEF Above, Inverted, Decoder!LoadedFlags
  <2>2. B^4 = B * B * B * B
    BY <1>1, PowerAssumption
  <2>3. PICK C \in Nat \ {0} : C = B * B * B
    OBVIOUS
  <2>4. B^4 - 1 - b = B * (C - 1) + (B - 1 - b)
    <3>1. B * B * B * B = B * C
      BY <2>3
    <3>2. B * (C - 1) = B * C - B /\ B * C \in Int
      OBVIOUS
    <3>3. QED
      BY <1>4, <2>2, <3>1, <3>2
  <2>5. QED
    BY <1>1, <2>1, <2>3, <2>4
<1>9. CASE port.flags = "counted"
  <2>1. Above = 0 /\ ~ Inverted /\ Decoder!LoadedFlags(b) = b
    BY <1>1, <1>9 DEF Above, Inverted, Decoder!LoadedFlags
  <2>2. QED
    BY <1>1, <1>4, <2>1
<1>10. QED
  BY <1>3, <1>5, <1>6, <1>7, <1>8, <1>9 DEF FlagKinds

\* After j units: what is above has moved down, and the flags of the others
\* are below it.
LEMMA FlagsShifted ==
  ASSUME port \in Decoder!Traits, NEW b \in Byte, NEW j \in 0 .. ByteBits
  PROVE  /\ b \div 2^j \in 0 .. 2^(ByteBits - j) - 1
         /\ Decoder!LoadedFlags(b) \div 2^j
              = Above * 2^(ByteBits - j)
                  + (IF Inverted THEN 2^(ByteBits - j) - 1 - (b \div 2^j)
                                 ELSE b \div 2^j)
<1>1. PICK B \in Nat \ {0} : B = ByteValues
  BY WireSizes
<1>2. PICK V \in Nat \ {0} : V = 2^j
  BY PairPowers
<1>3. PICK U \in Nat \ {0} : U = 2^(ByteBits - j)
  BY PairPowers
<1>4. B = V * U
  <2>1. PICK k \in 0 .. 2 * ByteBits : k = ByteBits - j /\ j + k = ByteBits
    OBVIOUS
  <2>2. 2^(j + k) = 2^j * 2^k
    BY <2>1, PowerSum
  <2>3. QED
    BY <1>1, <1>2, <1>3, <2>1, <2>2 DEF ByteValues
<1>5. PICK A \in Nat : A = Above
  BY Loaded
<1>6. b \in 0 .. B-1
  BY <1>1 DEF Byte
<1>7. PICK x \in Nat, e \in 0 .. V-1 : x = b \div V /\ b = V * x + e
  <2>1. b \in Nat
    BY <1>6
  <2>2. b \div V \in Nat /\ b % V \in 0 .. V-1 /\ b = V * (b \div V) + (b % V)
    BY <2>1, DivisionOf
  <2>3. QED
    BY <2>2
<1>8. x \in 0 .. U-1
  <2>1. CASE x >= U
    <3>1. V * x >= V * U
      BY <2>1
    <3>2. QED
      BY <1>4, <1>6, <1>7, <3>1
  <2>2. QED
    BY <2>1
<1>9. ASSUME NEW y \in 0 .. U-1, NEW f \in 0 .. V-1,
             Decoder!LoadedFlags(b) = B * A + (V * y + f)
      PROVE  Decoder!LoadedFlags(b) \div V = A * U + y
  <2>1. B * A = V * (A * U)
    BY <1>4
  <2>2. V * (A * U + y) = V * (A * U) + V * y
    OBVIOUS
  <2>3. A * U + y \in Nat /\ V * (A * U) \in Int /\ V * y \in Int
    OBVIOUS
  <2>4. Decoder!LoadedFlags(b) = V * (A * U + y) + f
    BY <1>9, <2>1, <2>2, <2>3
  <2>5. QED
    BY <2>3, <2>4, DivisionIs
<1>10. CASE ~ Inverted
  <2>1. Decoder!LoadedFlags(b) = B * A + (V * x + e)
    BY <1>1, <1>5, <1>7, <1>10, Loaded
  <2>2. QED
    BY <1>2, <1>3, <1>5, <1>7, <1>8, <1>9, <1>10, <2>1
<1>11. CASE Inverted
  <2>1. Decoder!LoadedFlags(b) = B * A + (B - 1 - b)
    BY <1>1, <1>5, <1>11, Loaded
  <2>2. B - 1 - b = V * (U - 1 - x) + (V - 1 - e)
    <3>1. V * (U - 1 - x) = V * U - V - V * x
      OBVIOUS
    <3>2. V * U \in Int /\ V * x \in Int
      OBVIOUS
    <3>3. QED
      BY <1>4, <1>7, <3>1, <3>2
  <2>3. U - 1 - x \in 0 .. U-1 /\ V - 1 - e \in 0 .. V-1
    BY <1>8
  <2>4. Decoder!LoadedFlags(b) \div V = A * U + (U - 1 - x)
    BY <1>9, <2>1, <2>2, <2>3
  <2>5. QED
    BY <1>2, <1>3, <1>5, <1>7, <1>8, <1>11, <2>4
<1>12. QED
  BY <1>10, <1>11

\* The number of values of the flags from bit j on is even, while there are
\* some.
LEMMA FlagsEven ==
  ASSUME NEW j \in 0 .. ByteBits-1
  PROVE  \E h \in Nat \ {0} : /\ h = 2^(ByteBits - (j + 1))
                              /\ 2^(ByteBits - j) = 2 * h
<1>1. PICK k \in 0 .. 2 * ByteBits - 1 : k = ByteBits - (j + 1) /\ k + 1 = ByteBits - j
  OBVIOUS
<1>2. 2^(k + 1) = 2 * 2^k /\ 2^k \in Nat \ {0}
  BY PowerAssumption, PairPowers
<1>3. QED
  BY <1>1, <1>2

\* The lowest flag in the register is the one whose turn it is.
LEMMA FlagRead ==
  ASSUME port \in Decoder!Traits, NEW b \in Byte, NEW j \in 0 .. ByteBits-1,
         NEW f, f = Decoder!LoadedFlags(b) \div 2^j
  PROVE  /\ Decoder!SaysLiteral(f) <=> (b \div 2^j) % 2 = 1
         /\ f \div 2 = Decoder!LoadedFlags(b) \div 2^(j + 1)
<1>1. PICK h \in Nat \ {0} : 2^(ByteBits - j) = 2 * h
  BY FlagsEven
<1>2. PICK A \in Nat : A = Above
  BY Loaded
<1>3. PICK x \in 0 .. 2 * h - 1 : x = b \div 2^j
  BY <1>1, FlagsShifted
<1>4. f = A * (2 * h) + (IF Inverted THEN 2 * h - 1 - x ELSE x)
  BY <1>1, <1>2, <1>3, FlagsShifted
<1>5. Decoder!SaysLiteral(f) <=> x % 2 = 1
  <2>1. PICK k \in Nat : k = A * h /\ A * (2 * h) = 2 * k
    OBVIOUS
  <2>2. CASE ~ Inverted
    <3>1. f = 2 * k + x
      BY <1>4, <2>1, <2>2
    <3>2. f % 2 = x % 2
      BY <3>1
    <3>3. QED
      BY <2>2, <3>2 DEF Decoder!SaysLiteral, Inverted
  <2>3. CASE Inverted
    <3>1. f = 2 * k + (2 * h - 1 - x)
      BY <1>4, <2>1, <2>3
    <3>2. f % 2 = 1 <=> x % 2 # 1
      BY <3>1
    <3>3. QED
      BY <2>3, <3>2 DEF Decoder!SaysLiteral, Inverted
  <2>4. QED
    BY <2>2, <2>3
<1>6. f \div 2 = Decoder!LoadedFlags(b) \div 2^(j + 1)
  <2>1. Decoder!LoadedFlags(b) \in Nat
    <3>1. PICK B \in Nat : B = ByteValues /\ b \in 0 .. B-1
      BY WireSizes DEF Byte
    <3>2. B * A \in Nat
      OBVIOUS
    <3>3. QED
      BY <1>2, <3>1, <3>2, Loaded
  <2>2. 2^j \in Nat \ {0} /\ 2^(j + 1) = 2 * 2^j
    BY PairPowers, PowerAssumption
  <2>3. QED
    BY <2>1, <2>2, DivideTwice
<1>7. QED
  BY <1>3, <1>5, <1>6

\* A port sees that it has flags left as long as it has.
LEMMA FlagsLeft ==
  ASSUME port \in Decoder!Traits, NEW b \in Byte, NEW j \in 0 .. ByteBits,
         NEW f, f = Decoder!LoadedFlags(b) \div 2^j
  PROVE  Decoder!MoreFlags(f, ByteBits - j) <=> j < ByteBits
<1>1. PICK B \in Nat \ {0} : B = ByteValues /\ B = Decoder!ByteValues /\ B >= 4
  BY WireSizes DEF ByteValues, Decoder!ByteValues
<1>2. PICK H \in Nat \ {0} : H = 2^(ByteBits - 1) /\ B = 2 * H
  <2>1. ByteBits - 1 \in 0 .. 2 * ByteBits
    BY WireSizes
  <2>2. 2^(ByteBits - 1) \in Nat \ {0}
    BY <2>1, PairPowers
  <2>3. B = 2 * 2^(ByteBits - 1)
    BY <1>1, WireSizes
  <2>4. QED
    BY <2>2, <2>3
<1>3. PICK C \in Nat : C = B * B * B /\ C = B^3 /\ C >= B
  <2>1. B * B >= B
    OBVIOUS
  <2>2. (B * B) * B >= B * B
    OBVIOUS
  <2>3. B^3 = B * B * B
    BY <1>1, PowerAssumption
  <2>4. QED
    BY <2>1, <2>2, <2>3
<1>4. PICK A \in Nat : A = Above
  BY Loaded
<1>5. PICK U \in Nat \ {0} : U = 2^(ByteBits - j) /\ U <= B
  <2>1. 2^(ByteBits - j) \in Nat \ {0}
    BY PairPowers
  <2>2. 2^(ByteBits - j) <= 2^ByteBits
    <3>1. CASE j = 0
      BY <3>1
    <3>2. CASE j # 0
      <4>1. ByteBits - j \in 0 .. ByteBits /\ ByteBits - j < ByteBits
        BY <3>2
      <4>2. 2^(ByteBits - j) < 2^ByteBits
        BY <4>1, PowersIncrease
      <4>3. QED
        BY <2>1, <4>2, PairPowers
    <3>3. QED
      BY <3>1, <3>2
  <2>3. QED
    BY <1>1, <2>1, <2>2 DEF ByteValues
<1>6. PICK y \in 0 .. U-1 : f = A * U + y
  <2>1. b \div 2^j \in 0 .. U-1
    BY <1>5, FlagsShifted
  <2>2. f = A * U + (IF Inverted THEN U - 1 - (b \div 2^j) ELSE b \div 2^j)
    BY <1>4, <1>5, FlagsShifted
  <2>3. QED
    BY <2>1, <2>2
<1>7. CASE j = ByteBits
  <2>1. U = 1 /\ y = 0 /\ f = A
    <3>1. 2^0 = 1 /\ ByteBits - j = 0
      BY <1>7
    <3>2. QED
      BY <1>5, <1>6, <3>1
  <2>2. ByteBits - j = 0
    BY <1>7
  <2>3. ~ Decoder!MoreFlags(f, 0)
    <3>1. CASE port.flags \in {"ones", "bit", "over", "isff"}
      <4>1. f = B - 1
        BY <1>1, <1>4, <2>1, <3>1 DEF Above
      <4>2. f \div B = 0 /\ (f \div B) % 2 = 0 /\ ~ (f > B)
        BY <1>1, <4>1
      <4>3. CASE port.flags = "ones"
        BY <1>1, <4>3, <4>1, <4>2 DEF Decoder!MoreFlags
      <4>4. CASE port.flags = "bit"
        BY <1>1, <4>4, <4>1, <4>2 DEF Decoder!MoreFlags
      <4>5. CASE port.flags = "over"
        BY <1>1, <4>5, <4>1, <4>2 DEF Decoder!MoreFlags
      <4>6. CASE port.flags = "isff"
        BY <1>1, <4>6, <4>1, <4>2 DEF Decoder!MoreFlags
      <4>7. QED
        BY <3>1, <4>3, <4>4, <4>5, <4>6
    <3>2. CASE port.flags = "top"
      <4>1. f = H
        BY <1>2, <1>4, <2>1, <3>2 DEF Above
      <4>2. QED
        BY <1>1, <1>2, <3>2, <4>1 DEF Decoder!MoreFlags
    <3>3. CASE port.flags = "one"
      <4>1. f = 1
        BY <1>4, <2>1, <3>3 DEF Above
      <4>2. QED
        BY <3>3, <4>1 DEF Decoder!MoreFlags
    <3>4. CASE port.flags \in {"inverted", "carry"}
      <4>1. f = C - 1
        BY <1>1, <1>3, <1>4, <2>1, <3>4 DEF Above
      <4>2. f \div C = 0 /\ (f \div C) % 2 = 0
        BY <1>1, <1>3, <4>1
      <4>3. CASE port.flags = "inverted"
        BY <1>1, <1>3, <4>3, <4>2 DEF Decoder!MoreFlags
      <4>4. CASE port.flags = "carry"
        BY <1>1, <1>3, <4>4, <4>2 DEF Decoder!MoreFlags
      <4>5. QED
        BY <3>4, <4>3, <4>4
    <3>5. CASE port.flags = "counted"
      BY <3>5 DEF Decoder!MoreFlags
    <3>6. QED
      BY <3>1, <3>2, <3>3, <3>4, <3>5, PortKinds DEF FlagKinds
  <2>4. QED
    BY <1>7, <2>2, <2>3
<1>8. CASE j < ByteBits
  <2>1. PICK h \in Nat \ {0} : U = 2 * h
    BY <1>5, <1>8, FlagsEven
  <2>2. /\ A * U >= 2 * A
        /\ A * U \in Nat
    <3>1. A * U = 2 * (A * h) /\ A * h >= A
      BY <2>1
    <3>2. QED
      BY <3>1
  <2>3. f >= 2 * A /\ f \in Nat
    BY <1>6, <2>2
  <2>4. PICK k \in Nat \ {0} : k = ByteBits - j
    BY <1>8
  <2>5. ASSUME NEW X \in Nat \ {0}, A = X - 1, U <= X
        PROVE  f \div X = U - 1
    <3>1. (X - 1) * U = X * (U - 1) + (X - U) /\ X * (U - 1) \in Int
      OBVIOUS
    <3>2. f = X * (U - 1) + (X - U + y)
      BY <1>6, <2>5, <3>1
    <3>3. X - U + y \in 0 .. X-1 /\ U - 1 \in Nat
      BY <1>6, <2>5
    <3>4. PICK x \in Nat, rest \in 0 .. X-1 : x = U - 1 /\ rest = X - U + y
      BY <3>3
    <3>5. f = X * x + rest
      BY <3>2, <3>4
    <3>6. (X * x + rest) \div X = x
      BY DivisionIs
    <3>7. QED
      BY <3>4, <3>5, <3>6
  <2>6. U - 1 # 0 /\ (U - 1) % 2 = 1
    BY <2>1
  <2>7. Decoder!MoreFlags(f, k)
    <3>1. CASE port.flags \in {"ones", "bit", "over", "isff"}
      <4>1. A = B - 1
        BY <1>1, <1>4, <3>1 DEF Above
      <4>2. f \div B = U - 1 /\ f > B /\ f # B - 1
        BY <1>1, <1>5, <2>3, <2>5, <4>1
      <4>3. QED
        BY <1>1, <2>6, <3>1, <4>2 DEF Decoder!MoreFlags
    <3>2. CASE port.flags = "top"
      <4>1. A = H
        BY <1>2, <1>4, <3>2 DEF Above
      <4>2. f > B - 1
        BY <1>2, <2>3, <4>1
      <4>3. QED
        BY <1>1, <3>2, <4>2 DEF Decoder!MoreFlags
    <3>3. CASE port.flags = "one"
      <4>1. A = 1
        BY <1>4, <3>3 DEF Above
      <4>2. QED
        BY <2>3, <3>3, <4>1 DEF Decoder!MoreFlags
    <3>4. CASE port.flags \in {"inverted", "carry"}
      <4>1. A = C - 1
        BY <1>1, <1>3, <1>4, <3>4 DEF Above
      <4>2. f \div C = U - 1
        BY <1>1, <1>3, <1>5, <2>5, <4>1
      <4>3. QED
        BY <1>1, <1>3, <2>6, <3>4, <4>2 DEF Decoder!MoreFlags
    <3>5. CASE port.flags = "counted"
      BY <2>4, <3>5 DEF Decoder!MoreFlags
    <3>6. QED
      BY <3>1, <3>2, <3>3, <3>4, <3>5, PortKinds DEF FlagKinds
  <2>8. QED
    BY <1>8, <2>4, <2>7
<1>9. QED
  BY <1>7, <1>8

-----------------------------------------------------------------------------
(* The units of a logo.                                                    *)

(***************************************************************************)
(* A place between two units of a logo: where the next unit begins, where  *)
(* the flags of its group are, how many of them are used, and how many     *)
(* bytes of the file come before it.                                       *)
(***************************************************************************)
Places ==
  { g \in [src : Nat, flagged : Nat, used : 0 .. ByteBits-1, at : Nat] :
      g.used = 0 => g.src = g.flagged + 1 }

FirstPlace == [src |-> 2, flagged |-> 1, used |-> 0, at |-> 0]

FlagAt(logo, g) == (logo[g.flagged] \div 2^g.used) % 2

\* The place after a unit of size bytes that stands for n bytes of the file.
After(g, size, n) ==
  IF g.used + 1 = ByteBits
    THEN [src |-> g.src + size + 1, flagged |-> g.src + size,
          used |-> 0, at |-> g.at + n]
    ELSE [src |-> g.src + size, flagged |-> g.flagged,
          used |-> g.used + 1, at |-> g.at + n]

\* Where text_buf is written when k bytes of the file have been.
RingAt(k) == (N - F + k) % N

\* The n bytes of the file after the first k are found in the window from the
\* cell x on.
MatchAt(x, k, n) ==
  /\ Codec!Distance(x, RingAt(k)) <= N - F
  /\ k + n <= Len(text)
  /\ \A j \in 1..n :
       text[k + j] = Source(k + j - Codec!Distance(x, RingAt(k)))

LiteralAt(logo, g) ==
  /\ FlagAt(logo, g) = 1
  /\ g.at < Len(text)
  /\ logo[g.src] = text[g.at + 1]

PairAt(logo, g, n) ==
  LET w == logo[g.src] + ByteValues * logo[g.src + 1]
  IN  /\ FlagAt(logo, g) = 0
      /\ n \in Threshold+1 .. F
      /\ PairLength(w) = n
      /\ MatchAt(PairPosition(w), g.at, n)

\* At g there is a unit of so many bytes, for so many bytes of the file.
UnitAt(logo, g, size, n) ==
  /\ g.flagged \in 1 .. g.src - 1
  /\ g.src + size - 1 <= Len(logo)
  /\ \/ size = 1 /\ n = 1 /\ LiteralAt(logo, g)
     \/ size = 2 /\ PairAt(logo, g, n)

(***************************************************************************)
(* G is a set of places of a logo that is closed under going on to the     *)
(* next unit: whoever starts at its beginning and reads unit by unit finds *)
(* the file, up to the end of the logo.                                    *)
(***************************************************************************)
Parsed(logo, G) ==
  /\ G \subseteq Places
  /\ FirstPlace \in G
  /\ \A g \in G :
       \/ g.src > Len(logo)
       \/ \E size \in 1..2, n \in 1..F :
            UnitAt(logo, g, size, n) /\ After(g, size, n) \in G

-----------------------------------------------------------------------------
(* The encoder writes units.                                               *)

\* The logo as far as it is known.
Stream == outfile \o code

\* How many bytes of the last unit have not left the window.
Owed ==
  IF pc = "shift" \/ Deleting \/ (pc = "insert" /\ ret = "shift")
    THEN last - i ELSE 0

\* Where the encoder is, with u flags in code_buf[0].
Frontier(u) ==
  [src |-> Len(outfile) + Len(code) + 1, flagged |-> Len(outfile) + 1,
   used |-> u, at |-> Passed + Owed]

\* The unit at g belongs to a group that is in the file, or to the one in
\* code_buf.
Written(g, size, u) ==
  \/ g.src + size - 1 <= Len(outfile)
  \/ g.flagged = Len(outfile) + 1 /\ g.used < u

CodedBy(G, u) ==
  /\ G \subseteq Places
  /\ FirstPlace \in G /\ Frontier(u) \in G
  /\ \A g \in G \ {Frontier(u)} :
       \E size \in 1..2, n \in 1..F :
         /\ UnitAt(Stream, g, size, n) /\ Written(g, size, u)
         /\ After(g, size, n) \in G

\* The logo is being put together from units for the bytes of the file, or has
\* been.
CodingInv ==
  /\ pc # "done" =>
       /\ r = RingAt(Passed)
       /\ \E u \in 0 .. ByteBits-1, G \in SUBSET Places :
            mask = 2^u /\ CodedBy(G, u)
  /\ pc = "done" => \E G \in SUBSET Places : Parsed(outfile, G)

-----------------------------------------------------------------------------
\* The bytes of a file and of what is added to it.
LEMMA Joined ==
  ASSUME NEW a \in Seq(Byte), NEW b \in Seq(Byte)
  PROVE  /\ a \o b \in Seq(Byte)
         /\ Len(a \o b) = Len(a) + Len(b)
         /\ \A j \in 1 .. Len(a) : (a \o b)[j] = a[j]
         /\ \A j \in 1 .. Len(b) : (a \o b)[Len(a) + j] = b[j]
OBVIOUS

\* A unit stays one as long as its bytes and its flag do.
LEMMA UnitKept ==
  ASSUME NEW g, NEW size \in 1..2, NEW n, NEW a, NEW b,
         UnitAt(a, g, size, n), g.src \in Int,
         g.src + size - 1 <= Len(b),
         FlagAt(b, g) = FlagAt(a, g),
         \A j \in g.src .. g.src + size - 1 : b[j] = a[j]
  PROVE  UnitAt(b, g, size, n)
<1>1. g.src \in g.src .. g.src + size - 1 /\ b[g.src] = a[g.src]
  OBVIOUS
<1>2. size = 2 => b[g.src + 1] = a[g.src + 1]
  OBVIOUS
<1>3. QED
  BY <1>1, <1>2 DEF UnitAt, LiteralAt, PairAt

\* Going on from a place leads to a place.
LEMMA AfterIsPlace ==
  ASSUME NEW g \in Places, NEW size \in 1..2, NEW n \in Nat
  PROVE  After(g, size, n) \in Places
BY DEF Places, After

\* A flag that is added leaves the lower ones alone ...
LEMMA LowerFlags ==
  ASSUME NEW x \in Nat, NEW flag \in {0, 1}, NEW u \in 0 .. ByteBits-1,
         NEW j \in 0 .. u-1
  PROVE  ((x + flag * 2^u) \div 2^j) % 2 = (x \div 2^j) % 2
<1>1. PICK V \in Nat \ {0} : V = 2^j
  BY PairPowers
<1>2. PICK h \in Nat : 2^u = V * (2 * h)
  <2>1. PICK k \in 0 .. ByteBits : k = u - (j + 1) /\ u = j + (k + 1)
    OBVIOUS
  <2>2. 2^(j + (k + 1)) = 2^j * 2^(k + 1)
    BY <2>1, PowerSum
  <2>3. 2^(k + 1) = 2 * 2^k /\ 2^k \in Nat
    BY <2>1, PowerAssumption, PairPowers
  <2>4. QED
    BY <1>1, <2>1, <2>2, <2>3
<1>3. PICK y \in Nat, e \in 0 .. V-1 : y = x \div V /\ x = V * y + e
  <2>1. x \div V \in Nat /\ x % V \in 0 .. V-1 /\ x = V * (x \div V) + (x % V)
    BY DivisionOf
  <2>2. QED
    BY <2>1
<1>4. PICK z \in Nat : z = y + 2 * (flag * h)
  OBVIOUS
<1>5. x + flag * 2^u = V * z + e
  <2>1. PICK m \in Int : m = flag * 2^u /\ m = V * (2 * (flag * h))
    <3>1. flag * (V * (2 * h)) = V * (2 * (flag * h))
      OBVIOUS
    <3>2. flag * (V * (2 * h)) \in Int
      OBVIOUS
    <3>3. QED
      BY <1>2, <3>1, <3>2
  <2>2. V * z = V * y + m /\ V * y \in Int
    BY <1>4, <2>1
  <2>3. x + m = V * z + e
    BY <1>3, <2>2
  <2>4. QED
    BY <2>1, <2>3
<1>6. (x + flag * 2^u) \div V = z
  BY <1>5, DivisionIs
<1>7. z % 2 = y % 2
  <2>1. flag * h \in Nat
    OBVIOUS
  <2>2. QED
    BY <1>4, <2>1
<1>8. QED
  BY <1>1, <1>3, <1>6, <1>7

WithFlag(a, b, k, flag, u) ==
  b[k] \in Nat /\ a[k] = b[k] + flag * 2^u

LEMMA LowerFlag ==
  ASSUME NEW flag \in {0, 1}, NEW u \in 0 .. ByteBits-1,
         NEW g \in Places, g.used < u,
         NEW a, NEW b, WithFlag(a, b, g.flagged, flag, u)
  PROVE  FlagAt(a, g) = FlagAt(b, g)
<1>0. PICK x \in Nat : b[g.flagged] = x /\ a[g.flagged] = x + flag * 2^u
  BY DEF WithFlag
<1>1. PICK h \in 0 .. u-1 : h = g.used
  BY DEF Places
<1>2. ((x + flag * 2^u) \div 2^h) % 2 = (x \div 2^h) % 2
  BY LowerFlags
<1>3. QED
  BY <1>0, <1>1, <1>2 DEF FlagAt

\* ... and can be read.
LEMMA NewFlag ==
  ASSUME NEW u \in 0 .. ByteBits-1, NEW x \in 0 .. 2^u - 1, NEW flag \in {0, 1}
  PROVE  ((x + flag * 2^u) \div 2^u) % 2 = flag
<1>1. PICK V \in Nat \ {0} : V = 2^u
  BY PairPowers
<1>2. x \in 0 .. V-1 /\ flag \in Nat
  BY <1>1
<1>3. x + flag * V = V * flag + x
  BY <1>2
<1>4. (x + flag * V) \div V = flag
  BY <1>2, <1>3, DivisionIs
<1>5. QED
  BY <1>1, <1>4

-----------------------------------------------------------------------------
\* What a unit adds to the logo.
LEMMA EmitStream ==
  ASSUME TypeOK, CodeShape, NEW u \in 0 .. ByteBits-1, mask = 2^u,
         NEW flag \in {0, 1}, NEW bytes \in Seq(Byte), Emit(flag, bytes)
  PROVE  /\ Len(code) >= 1 /\ code[1] \in 0 .. 2^u - 1
         /\ Len(Stream) = Len(outfile) + Len(code)
         /\ Stream[Len(outfile) + 1] = code[1]
         /\ Len(Stream') >= Len(Stream) + Len(bytes)
         /\ Stream'[Len(outfile) + 1] = code[1] + flag * 2^u
         /\ \A j \in 1 .. Len(Stream) :
              j # Len(outfile) + 1 => Stream'[j] = Stream[j]
         /\ \A j \in 1 .. Len(bytes) : Stream'[Len(Stream) + j] = bytes[j]
         /\ u + 1 = ByteBits =>
              /\ Len(outfile') = Len(Stream) + Len(bytes)
              /\ Len(code') = 1 /\ mask' = 2^0
         /\ u + 1 # ByteBits =>
              /\ outfile' = outfile
              /\ Len(code') = Len(code) + Len(bytes) /\ mask' = 2^(u + 1)
<1> DEFINE head == [code EXCEPT ![1] = @ + flag * mask]
<1>1. /\ code \in Seq(Byte) /\ outfile \in Seq(Byte) /\ Len(code) >= 1
      /\ code[1] \in 0 .. 2^u - 1
  <2>1. PICK v \in 0 .. ByteBits-1 :
          mask = 2^v /\ Len(code) \in v + 1 .. 2 * v + 1 /\ code[1] < mask
    BY DEF CodeShape
  <2>2. code \in Seq(Byte) /\ outfile \in Seq(Byte)
    BY DEF TypeOK
  <2>3. Len(code) >= 1
    BY <2>1
  <2>4. code[1] \in Byte
    BY <2>2, <2>3
  <2>5. 2^u \in Nat /\ ByteValues \in Nat
    BY PairPowers, WireSizes
  <2>6. code[1] \in Nat
    BY <2>4, <2>5 DEF Byte
  <2>7. code[1] \in 0 .. 2^u - 1
    BY <2>1, <2>5, <2>6
  <2>8. QED
    BY <2>2, <2>3, <2>7
<1>2. /\ 2 * mask = 2^(u + 1) /\ 2^(u + 1) <= ByteValues
      /\ 2 * mask = ByteValues <=> u + 1 = ByteBits
  <2>1. 2 * mask = 2^(u + 1)
    BY PowerAssumption
  <2>2. u + 1 # ByteBits => 2^(u + 1) < 2^ByteBits
    BY PowersIncrease
  <2>3. 2^(u + 1) \in Nat /\ 2^ByteBits \in Nat
    BY PairPowers
  <2>4. QED
    BY <2>1, <2>2, <2>3 DEF ByteValues
<1>3. /\ head \in Seq(Byte) /\ Len(head) = Len(code)
      /\ head[1] = code[1] + flag * 2^u
      /\ \A j \in 2 .. Len(code) : head[j] = code[j]
  <2>1. flag * mask = 0 \/ flag * mask = mask
    <3>1. mask \in Nat
      BY PairPowers
    <3>2. QED
      BY <3>1
  <2>2. code[1] + flag * mask \in Byte
    <3>1. mask \in Nat /\ ByteValues \in Nat
      BY PairPowers, WireSizes
    <3>2. QED
      BY <1>1, <1>2, <2>1, <3>1 DEF Byte
  <2>3. QED
    BY <1>1, <2>2
<1>4. PICK top : top = head
  OBVIOUS
<1>5. PICK L \in Nat, M \in Nat, K \in Nat :
        L = Len(outfile) /\ M = Len(code) /\ K = Len(bytes)
  BY <1>1
<1>6. /\ top \in Seq(Byte) /\ Len(top) = M
      /\ top[1] = code[1] + flag * 2^u
      /\ \A j \in 2..M : top[j] = code[j]
  BY <1>3, <1>4, <1>5
<1> HIDE DEF head
<1>7. PICK buf : buf = top \o bytes
  OBVIOUS
<1>8. /\ buf \in Seq(Byte) /\ Len(buf) = M + K
      /\ \A j \in 1..M : buf[j] = top[j]
      /\ \A j \in 1..K : buf[M + j] = bytes[j]
  <2>1. /\ top \o bytes \in Seq(Byte)
        /\ Len(top \o bytes) = Len(top) + Len(bytes)
        /\ \A j \in 1 .. Len(top) : (top \o bytes)[j] = top[j]
        /\ \A j \in 1 .. Len(bytes) : (top \o bytes)[Len(top) + j] = bytes[j]
    BY <1>6, Joined
  <2>2. QED
    BY <1>5, <1>6, <1>7, <2>1
<1>9. PICK sent : sent = outfile \o buf
  OBVIOUS
<1>10. /\ sent \in Seq(Byte) /\ Len(sent) = L + (M + K)
       /\ \A j \in 1..L : sent[j] = outfile[j]
       /\ \A j \in 1 .. M + K : sent[L + j] = buf[j]
  <2>1. /\ outfile \o buf \in Seq(Byte)
        /\ Len(outfile \o buf) = Len(outfile) + Len(buf)
        /\ \A j \in 1 .. Len(outfile) : (outfile \o buf)[j] = outfile[j]
        /\ \A j \in 1 .. Len(buf) : (outfile \o buf)[Len(outfile) + j] = buf[j]
    BY <1>1, <1>8, Joined
  <2>2. QED
    BY <1>5, <1>8, <1>9, <2>1
<1>11. PICK stream : stream = Stream
  OBVIOUS
<1>12. /\ Len(stream) = L + M
       /\ \A j \in 1..L : stream[j] = outfile[j]
       /\ \A j \in 1..M : stream[L + j] = code[j]
  BY <1>1, <1>5, <1>11, Joined DEF Stream
<1>13. /\ sent[L + 1] = code[1] + flag * 2^u
       /\ \A j \in 1 .. L + M : j # L + 1 => sent[j] = stream[j]
       /\ \A j \in 1..K : sent[(L + M) + j] = bytes[j]
  <2>1. M >= 1
    BY <1>1, <1>5
  <2>2. sent[L + 1] = code[1] + flag * 2^u
    <3>1. sent[L + 1] = buf[1] /\ buf[1] = top[1]
      BY <1>8, <1>10, <2>1
    <3>2. QED
      BY <1>6, <3>1
  <2>3. ASSUME NEW j \in 1 .. L + M, j # L + 1
        PROVE  sent[j] = stream[j]
    <3>1. CASE j <= L
      <4>1. j \in 1..L
        BY <3>1
      <4>2. QED
        BY <1>10, <1>12, <4>1
    <3>2. CASE ~ (j <= L)
      <4>1. PICK k \in 2..M : j = L + k
        <5>1. j - L \in 2..M /\ j = L + (j - L)
          BY <2>3, <3>2
        <5>2. QED
          BY <5>1
      <4>2. k \in 1..M /\ k \in 1 .. M + K
        BY <4>1
      <4>3. sent[L + k] = buf[k] /\ buf[k] = top[k] /\ top[k] = code[k]
              /\ stream[L + k] = code[k]
        BY <1>6, <1>8, <1>10, <1>12, <4>1, <4>2
      <4>4. QED
        BY <4>1, <4>3
    <3>3. QED
      BY <3>1, <3>2
  <2>4. ASSUME NEW j \in 1..K
        PROVE  sent[(L + M) + j] = bytes[j]
    <3>1. M + j \in 1 .. M + K /\ L + (M + j) = (L + M) + j
      OBVIOUS
    <3>2. sent[L + (M + j)] = buf[M + j] /\ buf[M + j] = bytes[j]
      BY <1>8, <1>10, <3>1
    <3>3. QED
      BY <3>1, <3>2
  <2>5. QED
    BY <2>2, <2>3, <2>4
<1>14. stream[L + 1] = code[1]
  BY <1>1, <1>5, <1>12
<1>15. CASE u + 1 = ByteBits
  <2>1. outfile' = sent /\ code' = <<0>> /\ mask' = 1
    BY <1>2, <1>4, <1>7, <1>9, <1>15 DEF Emit, head
  <2>2. <<0>> \in Seq(Byte) /\ Len(<<0>>) = 1
    <3>1. 0 \in Byte
      BY WireSizes DEF Byte
    <3>2. QED
      BY <3>1
  <2>3. PICK new : new = Stream'
    OBVIOUS
  <2>4. new = sent \o <<0>>
    BY <2>1, <2>3 DEF Stream
  <2>5. /\ Len(new) = L + M + K + 1
        /\ \A j \in 1 .. L + M + K : new[j] = sent[j]
    BY <1>10, <2>2, <2>4, Joined
  <2>6. /\ new[L + 1] = sent[L + 1]
        /\ \A j \in 1 .. L + M : new[j] = sent[j]
        /\ \A j \in 1..K : new[(L + M) + j] = sent[(L + M) + j]
    <3>1. M >= 1
      BY <1>1, <1>5
    <3>2. L + 1 \in 1 .. L + M + K
      BY <3>1
    <3>3. \A j \in 1 .. L + M : j \in 1 .. L + M + K
      OBVIOUS
    <3>4. \A j \in 1..K : (L + M) + j \in 1 .. L + M + K
      OBVIOUS
    <3>5. QED
      BY <2>5, <3>2, <3>3, <3>4
  <2>7. 2^0 = 1
    OBVIOUS
  <2>8. Len(outfile') = L + M + K /\ Len(code') = 1 /\ mask' = 2^0
    BY <1>10, <2>1, <2>2, <2>7
  <2>9. /\ Len(new) >= (L + M) + K
        /\ new[L + 1] = code[1] + flag * 2^u
        /\ \A j \in 1 .. L + M : j # L + 1 => new[j] = stream[j]
        /\ \A j \in 1..K : new[(L + M) + j] = bytes[j]
    BY <1>13, <2>5, <2>6
  <2>10. /\ Len(code) >= 1 /\ code[1] \in 0 .. 2^u - 1
         /\ Len(stream) = Len(outfile) + Len(code)
         /\ stream[Len(outfile) + 1] = code[1]
    BY <1>1, <1>5, <1>12, <1>14
  <2>11. QED
    BY <1>5, <1>11, <1>12, <1>15, <2>3, <2>8, <2>9, <2>10
<1>16. CASE u + 1 # ByteBits
  <2>1. outfile' = outfile /\ code' = buf /\ mask' = 2^(u + 1)
    BY <1>2, <1>4, <1>7, <1>16 DEF Emit, head
  <2>2. Stream' = sent
    BY <1>9, <2>1 DEF Stream
  <2>3. QED
    BY <1>1, <1>5, <1>8, <1>10, <1>11, <1>12, <1>13, <1>14, <1>16, <2>1, <2>2
<1>17. QED
  BY <1>15, <1>16


\* Where text_buf is written moves on with the text.
LEMMA RingMoves ==
  ASSUME NEW k \in Nat
  PROVE  /\ RingAt(k) \in Nodes
         /\ RingAt(k + 1) = (RingAt(k) + 1) % N
         /\ RingAt(0) = N - F
<1>1. PICK y \in Nat, x \in 0 .. N-1 : N - F + k = N * y + x /\ x = RingAt(k)
  <2>1. N - F + k \in Nat /\ N \in Nat \ {0}
    OBVIOUS
  <2>2. /\ (N - F + k) \div N \in Nat /\ (N - F + k) % N \in 0 .. N-1
        /\ N - F + k = N * ((N - F + k) \div N) + ((N - F + k) % N)
    BY <2>1, DivisionOf
  <2>3. QED
    BY <2>2 DEF RingAt
<1>2. RingAt(k + 1) = (N * y + (x + 1)) % N
  <2>1. N - F + (k + 1) = N * y + (x + 1)
    <3>1. N * y \in Int
      OBVIOUS
    <3>2. QED
      BY <1>1, <3>1
  <2>2. QED
    BY <2>1 DEF RingAt
<1>3. (N * y + (x + 1)) % N = (x + 1) % N
  <2>1. CASE x + 1 < N
    <3>1. (N * y + (x + 1)) % N = x + 1
      BY <2>1, DivisionIs
    <3>2. (x + 1) % N = x + 1
      BY <2>1
    <3>3. QED
      BY <3>1, <3>2
  <2>2. CASE x + 1 = N
    <3>1. N * y + N = N * (y + 1) + 0
      OBVIOUS
    <3>2. (N * (y + 1) + 0) % N = 0
      BY DivisionIs
    <3>3. N % N = 0
      OBVIOUS
    <3>4. QED
      BY <2>2, <3>1, <3>2, <3>3
  <2>3. QED
    BY <2>1, <2>2
<1>4. RingAt(0) = N - F
  BY DEF RingAt
<1>5. QED
  BY <1>1, <1>2, <1>3, <1>4 DEF Nodes

\* Of the bytes of a unit, those that have left the window and those that have
\* not are as many as before, except when one is coded.
LEMMA OwedStep ==
  ASSUME ScanInv, [Next]_vars, ~ Encode, pc' # "done"
  PROVE  Passed' + Owed' = Passed + Owed
<1>1. /\ last \in 0..F /\ i \in 0 .. F+1 /\ read \in Nat /\ len \in 0..F
      /\ ret \in {"prime", "encode", "shift"}
      /\ pc = "shift" => i <= last
  BY DEF ScanInv, TypeOK, Counters
<1>2. CASE AdvanceByte \/ AdvanceEnd
  <2>1. Passed' = Passed + 1 /\ Passed \in Int
    BY <1>1, <1>2, PassedMoves DEF Passed
  <2>2. Owed = last - i
    BY <1>2 DEF AdvanceByte, AdvanceEnd, Owed, Deleting
  <2>3. Owed' = last - (i + 1)
    BY <1>2 DEF AdvanceByte, AdvanceEnd, CallInsert, Owed, Deleting
  <2>4. QED
    BY <1>1, <2>1, <2>2, <2>3
<1>3. CASE ~ AdvanceByte /\ ~ AdvanceEnd
  <2>1. Passed' = Passed
    BY <1>3, PassedStays
  <2>2. Owed' = Owed
    <3>1. CASE Prime
      BY <3>1 DEF Prime, CallInsert, Owed, Deleting
    <3>2. CASE InsertNode
      BY <1>1, <3>2
         DEF InsertNode, InsertLeaf, InsertWalk, InsertReplace, Owed, Deleting
    <3>3. CASE DeleteNode
      BY <3>3 DEF DeleteNode, DeleteAbsent, DeleteNarrow, DeleteLeft,
                  DeleteDescend, DeletePredecessor, DeleteBy, DeleteFrame,
                  Owed, Deleting
    <3>4. CASE Shift
      BY <3>4 DEF Shift, Owed, Deleting
    <3>5. CASE Shifted
      BY <1>1, <3>5 DEF Shifted, Owed, Deleting
    <3>6. CASE Flush
      BY <3>6 DEF Flush
    <3>7. CASE UNCHANGED vars
      BY <3>7 DEF vars, Owed, Deleting
    <3>8. QED
      BY <1>3, <3>1, <3>2, <3>3, <3>4, <3>5, <3>6, <3>7 DEF Next
  <2>3. QED
    BY <2>1, <2>2
<1>4. QED
  BY <1>2, <1>3

\* The string to be coded stays at its place in the ring.
LEMMA RingStep ==
  ASSUME ScanInv, [Next]_vars, r = RingAt(Passed)
  PROVE  r' = RingAt(Passed')
<1>1. Passed \in Nat /\ r \in Nodes
  BY DEF ScanInv, TypeOK, Supply, Passed
<1>2. CASE AdvanceByte \/ AdvanceEnd
  <2>1. Passed' = Passed + 1 /\ r' = Wrap(r + 1)
    BY <1>2, PassedMoves
  <2>2. Wrap(r + 1) = (r + 1) % N
    <3>1. Succ(r) = Wrap(r + 1)
      BY <1>1, SuccIsWrap
    <3>2. QED
      BY <3>1 DEF Succ
  <2>3. QED
    BY <1>1, <2>1, <2>2, RingMoves
<1>3. CASE ~ AdvanceByte /\ ~ AdvanceEnd
  <2>1. Passed' = Passed /\ r' = r
    BY <1>3, PassedStays
  <2>2. QED
    BY <2>1
<1>4. QED
  BY <1>2, <1>3

\* The first group is empty.
LEMMA InitCoding == Init => CodingInv
<1> SUFFICES ASSUME Init PROVE CodingInv
  OBVIOUS
<1>1. /\ outfile = << >> /\ code = <<0>> /\ mask = 1 /\ r = N - F
      /\ Passed = 0 /\ Owed = 0
  <2>1. read \in Int /\ len = read
    BY InitScan DEF Init, ScanInv, TypeOK
  <2>2. QED
    BY <2>1 DEF Init, Passed, Owed, Deleting
<1>2. FirstPlace \in Places
  BY DEF FirstPlace, Places
<1>3. CASE pc = "done"
  <2>1. Parsed(outfile, {FirstPlace})
    BY <1>1, <1>2 DEF Parsed, FirstPlace
  <2>2. QED
    BY <1>2, <1>3, <2>1 DEF CodingInv
<1>4. CASE pc # "done"
  <2>1. Frontier(0) = FirstPlace
    BY <1>1 DEF Frontier, FirstPlace
  <2>2. CodedBy({FirstPlace}, 0)
    BY <1>2, <2>1 DEF CodedBy
  <2>3. 0 \in 0 .. ByteBits-1 /\ mask = 2^0
    BY <1>1
  <2>4. r = RingAt(Passed)
    BY <1>1, RingMoves
  <2>5. QED
    BY <1>2, <1>4, <2>2, <2>3, <2>4 DEF CodingInv
<1>5. QED
  BY <1>3, <1>4

\* A unit with this flag and these bytes, at g, stands for the next n bytes of
\* the file.
StandsFor(flag, bytes, g, n) ==
  \A logo :
    /\ FlagAt(logo, g) = flag
    /\ \A j \in 1 .. Len(bytes) : logo[g.src + j - 1] = bytes[j]
    => \/ Len(bytes) = 1 /\ n = 1 /\ LiteralAt(logo, g)
       \/ Len(bytes) = 2 /\ PairAt(logo, g, n)

\* Another unit is coded.
LEMMA EmitCoding ==
  ASSUME ScanInv, NEW u \in 0 .. ByteBits-1, mask = 2^u,
         NEW G \in SUBSET Places, CodedBy(G, u),
         NEW flag \in {0, 1}, NEW bytes \in Seq(Byte), NEW size \in 1..2,
         Len(bytes) = size, Emit(flag, bytes),
         NEW n \in 1..F, Passed' + Owed' = Passed + Owed + n, text' = text,
         StandsFor(flag, bytes, Frontier(u), n)
  PROVE  \E v \in 0 .. ByteBits-1, G2 \in SUBSET Places :
           mask' = 2^v /\ CodedBy(G2, v)'
<1>0. PICK e, v, new :
        /\ e = Frontier(u) /\ v = IF u + 1 = ByteBits THEN 0 ELSE u + 1
        /\ new = After(e, size, n)
  OBVIOUS
<1>1. PICK L \in Nat, M \in Nat \ {0} : L = Len(outfile) /\ M = Len(code)
  <2>1. Len(outfile) \in Nat /\ Len(code) \in Nat \ {0}
    BY DEF ScanInv, TypeOK, CodeShape
  <2>2. QED
    BY <2>1
<1>2. PICK S, T : S = Stream /\ T = Stream'
  OBVIOUS
<1>3. PICK x \in 0 .. 2^u - 1 : x = code[1]
  BY EmitStream DEF ScanInv
<1>4. /\ Len(S) = L + M
      /\ S[L + 1] = x
      /\ Len(T) >= (L + M) + size
      /\ T[L + 1] = x + flag * 2^u
      /\ \A j \in 1 .. L + M : j # L + 1 => T[j] = S[j]
      /\ \A j \in 1..size : T[(L + M) + j] = bytes[j]
  <2>1. TypeOK /\ CodeShape
    BY DEF ScanInv
  <2>2. /\ Len(Stream) = Len(outfile) + Len(code)
        /\ Stream[Len(outfile) + 1] = code[1]
        /\ Len(Stream') >= Len(Stream) + Len(bytes)
        /\ Stream'[Len(outfile) + 1] = code[1] + flag * 2^u
        /\ \A j \in 1 .. Len(Stream) :
             j # Len(outfile) + 1 => Stream'[j] = Stream[j]
        /\ \A j \in 1 .. Len(bytes) : Stream'[Len(Stream) + j] = bytes[j]
    BY <2>1, EmitStream
  <2>3. QED
    BY <1>1, <1>2, <1>3, <2>2
<1>5. /\ u + 1 = ByteBits =>
           Len(outfile') = (L + M) + size /\ Len(code') = 1 /\ mask' = 2^0
      /\ u + 1 # ByteBits =>
           outfile' = outfile /\ Len(code') = M + size /\ mask' = 2^(u + 1)
  BY <1>1, <1>2, <1>4, EmitStream DEF ScanInv
<1>6. /\ e.src = L + M + 1 /\ e.flagged = L + 1 /\ e.used = u
      /\ e.at = Passed + Owed /\ e \in Places
  BY <1>1, <1>0 DEF Frontier, CodedBy
<1>7. /\ v \in 0 .. ByteBits-1 /\ mask' = 2^v
      /\ Frontier(v)' = new /\ new \in Places
  <2>1. v \in 0 .. ByteBits-1 /\ mask' = 2^v
    BY <1>5, <1>0
  <2>2. Frontier(v)' = new
    <3>1. PICK A, B : A = Passed + Owed + n /\ B = (L + M + 1) + size
      OBVIOUS
    <3>2. CASE u + 1 = ByteBits
      <4>1. new = [src |-> B + 1, flagged |-> B, used |-> 0, at |-> A]
        BY <1>6, <1>0, <3>1, <3>2 DEF After
      <4>2. Len(outfile') + Len(code') + 1 = B + 1 /\ Len(outfile') + 1 = B
        <5>1. Len(outfile') = (L + M) + size /\ Len(code') = 1
          BY <1>5, <3>2
        <5>2. B \in Nat /\ B = ((L + M) + size) + 1
          BY <3>1
        <5>3. QED
          BY <5>1, <5>2
      <4>3. Frontier(v)' = [src |-> B + 1, flagged |-> B, used |-> 0, at |-> A]
        BY <1>0, <3>1, <3>2, <4>2 DEF Frontier
      <4>4. QED
        BY <4>1, <4>3
    <3>3. CASE u + 1 # ByteBits
      <4>1. new = [src |-> B, flagged |-> L + 1, used |-> u + 1, at |-> A]
        BY <1>6, <1>0, <3>1, <3>3 DEF After
      <4>2. Len(outfile') + Len(code') + 1 = B /\ Len(outfile') + 1 = L + 1
        BY <1>1, <1>5, <3>1, <3>3
      <4>3. Frontier(v)' = [src |-> B, flagged |-> L + 1,
                            used |-> u + 1, at |-> A]
        BY <1>0, <3>1, <3>3, <4>2 DEF Frontier
      <4>4. QED
        BY <4>1, <4>3
    <3>4. QED
      BY <3>2, <3>3
  <2>3. new \in Places
    <3>1. n \in Nat
      OBVIOUS
    <3>2. QED
      BY <1>6, <1>0, <3>1, AfterIsPlace
  <2>4. QED
    BY <2>1, <2>2, <2>3
<1>8. UnitAt(T, e, size, n) /\ Written(e, size, v)'
  <2>1. FlagAt(T, e) = flag
    <3>1. ((x + flag * 2^u) \div 2^u) % 2 = flag
      BY NewFlag
    <3>2. QED
      BY <1>4, <1>6, <3>1 DEF FlagAt
  <2>2. \A j \in 1..size : T[e.src + j - 1] = bytes[j]
    <3>1. ASSUME NEW j \in 1..size PROVE T[e.src + j - 1] = bytes[j]
      <4>1. e.src + j - 1 = (L + M) + j
        BY <1>6
      <4>2. QED
        BY <1>4, <4>1
    <3>2. QED
      BY <3>1
  <2>3. \/ size = 1 /\ n = 1 /\ LiteralAt(T, e)
        \/ size = 2 /\ PairAt(T, e, n)
    BY <1>0, <2>1, <2>2 DEF StandsFor
  <2>4. e.flagged \in 1 .. e.src - 1 /\ e.src + size - 1 <= Len(T)
    BY <1>1, <1>4, <1>6
  <2>5. Written(e, size, v)'
    <3>1. CASE u + 1 = ByteBits
      <4>1. e.src + size - 1 <= Len(outfile')
        BY <1>5, <1>6, <3>1
      <4>2. QED
        BY <4>1 DEF Written
    <3>2. CASE u + 1 # ByteBits
      BY <1>1, <1>5, <1>6, <1>0, <3>2 DEF Written
    <3>3. QED
      BY <3>1, <3>2
  <2>6. QED
    BY <2>3, <2>4, <2>5 DEF UnitAt
<1>9. ASSUME NEW g \in G \ {e}
      PROVE  \E z \in 1..2, m \in 1..F :
               /\ UnitAt(T, g, z, m) /\ Written(g, z, v)'
               /\ After(g, z, m) \in G
  <2>1. PICK z \in 1..2, m \in 1..F :
          /\ UnitAt(S, g, z, m) /\ Written(g, z, u)
          /\ After(g, z, m) \in G
    BY <1>2, <1>0 DEF CodedBy
  <2>2. /\ g.src \in Nat /\ g.flagged \in Nat /\ g.used \in 0 .. ByteBits-1
    BY DEF Places
  <2>3. g.flagged \in 1 .. g.src - 1 /\ g.src + z - 1 <= L + M
    BY <1>4, <2>1 DEF UnitAt
  <2>4. \/ g.src + z - 1 <= L
        \/ g.flagged = L + 1 /\ g.used < u
    BY <1>1, <2>1 DEF Written
  <2>5. \A j \in g.src .. g.src + z - 1 : T[j] = S[j]
    <3>1. ASSUME NEW j \in g.src .. g.src + z - 1 PROVE T[j] = S[j]
      <4>1. j \in 1 .. L + M /\ j # L + 1
        <5>1. PICK a \in Nat, b \in Nat : a = g.src /\ b = g.flagged
          BY <2>2
        <5>2. /\ b \in 1 .. a - 1 /\ a + z - 1 <= L + M
              /\ a + z - 1 <= L \/ b = L + 1
              /\ j \in a .. a + z - 1
          BY <2>3, <2>4, <5>1
        <5>3. QED
          BY <5>2
      <4>2. QED
        BY <1>4, <4>1
    <3>2. QED
      BY <3>1
  <2>6. FlagAt(T, g) = FlagAt(S, g)
    <3>1. CASE g.src + z - 1 <= L
      <4>1. g.flagged \in 1 .. L + M /\ g.flagged # L + 1
        BY <2>2, <2>3, <3>1
      <4>2. QED
        BY <1>4, <4>1 DEF FlagAt
    <3>2. CASE g.flagged = L + 1 /\ g.used < u
      <4>1. x \in Nat /\ g \in Places /\ g.used < u
        BY <3>2
      <4>2. WithFlag(T, S, g.flagged, flag, u)
        BY <1>4, <3>2 DEF WithFlag
      <4>3. QED
        BY <3>2, <4>1, <4>2, LowerFlag
    <3>3. QED
      BY <2>4, <3>1, <3>2
  <2>7. g.src + z - 1 <= Len(T)
    BY <1>4, <2>2, <2>3
  <2>8. UnitAt(T, g, z, m)
    <3>1. g.src \in Int
      BY <2>2
    <3>2. QED
      BY <2>1, <2>5, <2>6, <2>7, <3>1, UnitKept
  <2>9. Written(g, z, v)'
    <3>1. CASE u + 1 = ByteBits
      BY <1>5, <2>2, <2>3, <3>1 DEF Written
    <3>2. CASE u + 1 # ByteBits
      <4>1. \/ g.src + z - 1 <= L
            \/ g.flagged = L + 1 /\ g.used < v
        BY <1>0, <2>2, <2>4, <3>2
      <4>2. QED
        BY <1>1, <1>5, <3>2, <4>1 DEF Written
    <3>3. QED
      BY <3>1, <3>2
  <2>10. QED
    BY <2>1, <2>8, <2>9
<1>10. PICK G2 : G2 = G \cup {new}
  OBVIOUS
<1>11. G2 \in SUBSET Places /\ FirstPlace \in G2 /\ Frontier(v)' \in G2
  BY <1>7, <1>10 DEF CodedBy
<1>12. ASSUME NEW g \in G2 \ {new}
       PROVE  \E z \in 1..2, m \in 1..F :
                /\ UnitAt(T, g, z, m)' /\ Written(g, z, v)'
                /\ After(g, z, m) \in G2
  <2>1. PICK z \in 1..2, m \in 1..F :
          /\ UnitAt(T, g, z, m) /\ Written(g, z, v)'
          /\ After(g, z, m) \in G2
    <3>1. CASE g = e
      <4>1. new \in G2
        BY <1>10
      <4>2. QED
        BY <1>8, <1>0, <3>1, <4>1
    <3>2. CASE g # e
      <4>1. g \in G \ {e}
        BY <1>10, <1>12, <3>2
      <4>2. QED
        BY <1>9, <1>10, <4>1
    <3>3. QED
      BY <3>1, <3>2
  <2>2. UnitAt(T, g, z, m)'
    BY <2>1 DEF UnitAt, LiteralAt, PairAt, MatchAt, Source
  <2>3. QED
    BY <2>1, <2>2
<1>13. CodedBy(G2, v)'
  BY <1>2, <1>7, <1>11, <1>12 DEF CodedBy
<1>14. QED
  BY <1>7, <1>11, <1>13

\* A literal stands for the next byte.
LEMMA LiteralStands ==
  ASSUME NEW g \in Places, g.at < Len(text), NEW b, b = text[g.at + 1]
  PROVE  StandsFor(1, <<b>>, g, 1)
<1>1. SUFFICES ASSUME NEW logo, FlagAt(logo, g) = 1,
                      \A j \in 1 .. Len(<<b>>) : logo[g.src + j - 1] = <<b>>[j]
               PROVE  LiteralAt(logo, g)
  BY DEF StandsFor
<1>2. 1 \in 1 .. Len(<<b>>) /\ <<b>>[1] = b /\ g.src + 1 - 1 = g.src
  BY DEF Places
<1>3. logo[g.src] = b
  BY <1>1, <1>2
<1>4. QED
  BY <1>1, <1>3 DEF LiteralAt

\* A pair stands for a match.
LEMMA PairStands ==
  ASSUME NEW g \in Places, NEW x \in Nodes, NEW n \in Threshold+1 .. F,
         MatchAt(x, g.at, n)
  PROVE  StandsFor(0, PairBytes(x, n), g, n)
<1>0. PICK bytes : bytes = PairBytes(x, n)
  OBVIOUS
<1>1. Len(bytes) = 2
  BY <1>0, PairBytesType DEF Nodes
<1>2. SUFFICES ASSUME NEW logo, FlagAt(logo, g) = 0,
                      \A j \in 1 .. Len(bytes) : logo[g.src + j - 1] = bytes[j]
               PROVE  PairAt(logo, g, n)
  BY <1>0, <1>1 DEF StandsFor
<1>3. logo[g.src] = bytes[1] /\ logo[g.src + 1] = bytes[2]
  <2>1. 1 \in 1..2 /\ 2 \in 1..2 /\ g.src + 1 - 1 = g.src /\ g.src + 2 - 1 = g.src + 1
    BY DEF Places
  <2>2. logo[g.src + 1 - 1] = bytes[1] /\ logo[g.src + 2 - 1] = bytes[2]
    BY <1>1, <1>2
  <2>3. QED
    BY <2>1, <2>2
<1>4. PICK w : w = logo[g.src] + ByteValues * logo[g.src + 1]
  OBVIOUS
<1>5. PairPosition(w) = x /\ PairLength(w) = n
  BY <1>0, <1>3, <1>4, PairRead
<1>6. QED
  BY <1>2, <1>4, <1>5 DEF PairAt

\* The string that is coded next begins with the bytes that have not passed.
LEMMA EncodeCoding ==
  ASSUME ScanInv, MatchInv, CodingInv, Encode
  PROVE  CodingInv'
<1>1. PICK u \in 0 .. ByteBits-1, G \in SUBSET Places :
        mask = 2^u /\ CodedBy(G, u)
  BY DEF CodingInv, Encode
<1>2. PICK e \in Places : e = Frontier(u)
  BY <1>1 DEF CodedBy
<1>3. /\ read \in Nat /\ len \in 1..F /\ len <= read /\ read <= Len(text)
      /\ text \in Seq(Byte) /\ r \in Nodes /\ Threshold \in Nat
      /\ match_position \in Nodes /\ pc = "encode" /\ ~ Deleting
      /\ match_length \in 0..F
  BY DEF ScanInv, TypeOK, Counters, Supply, Encode, Deleting
<1>4. /\ Passed = Coded /\ Owed = 0 /\ Coded \in Nat /\ Coded + len <= Len(text)
      /\ r = RingAt(Passed)
  BY <1>3 DEF Passed, Coded, Owed, CodingInv
<1>5. e.at = Coded
  BY <1>2, <1>4 DEF Frontier
<1>6. /\ Passed' = Passed /\ r' = r /\ text' = text
      /\ pc' = "shift" /\ i' = 0 /\ last' = match_length'
  BY PassedStays DEF Encode, Next, AdvanceByte, AdvanceEnd, scanVars
<1>7. ASSUME NEW flag \in {0, 1}, NEW bytes \in Seq(Byte), NEW size \in 1..2,
             Len(bytes) = size, Emit(flag, bytes), NEW n \in 1..F, last' = n,
             StandsFor(flag, bytes, e, n)
      PROVE  CodingInv'
  <2>1. Passed' + Owed' = Passed + Owed + n
    BY <1>4, <1>6, <1>7 DEF Owed
  <2>2. \E v \in 0 .. ByteBits-1, G2 \in SUBSET Places :
           mask' = 2^v /\ CodedBy(G2, v)'
    BY <1>1, <1>2, <1>6, <1>7, <2>1, EmitCoding
  <2>3. r' = RingAt(Passed)'
    BY <1>4, <1>6 DEF RingAt
  <2>4. QED
    BY <1>6, <2>2, <2>3 DEF CodingInv
<1>8. CASE EncodeLiteral
  <2>1. /\ Emit(1, <<text_buf[r]>>) /\ last' = 1
        /\ text_buf[r] \in Byte
    BY <1>6, <1>8 DEF EncodeLiteral, ScanInv, TypeOK, Nodes, Positions
  <2>2. text_buf[r] = text[Coded + 1]
    <3>1. text_buf[r + 0] = Source(Coded + 1 + 0)
      <4>1. 0 \in 0 .. len-1
        BY <1>3
      <4>2. QED
        BY <1>3, <4>1, WindowCells
    <3>2. r + 0 = r /\ Coded + 1 + 0 = Coded + 1 /\ Coded + 1 >= 1
      BY <1>3, <1>4 DEF Nodes
    <3>3. QED
      BY <3>1, <3>2 DEF Source
  <2>3. StandsFor(1, <<text_buf[r]>>, e, 1)
    BY <1>3, <1>4, <1>5, <2>2, LiteralStands
  <2>4. PICK b \in Byte : b = text_buf[r]
    BY <2>1
  <2>5. <<b>> \in Seq(Byte) /\ Len(<<b>>) = 1
    OBVIOUS
  <2>6. Emit(1, <<b>>) /\ StandsFor(1, <<b>>, e, 1)
    BY <2>1, <2>3, <2>4
  <2>7. 1 \in 1..2 /\ 1 \in 1..F /\ 1 \in {0, 1}
    OBVIOUS
  <2>8. QED
    BY <1>7, <2>1, <2>5, <2>6, <2>7
<1>9. CASE EncodePair
  <2>1. PICK n \in Threshold+1 .. F : n = Clipped
    BY <1>3, <1>9 DEF EncodePair, Clipped, Least
  <2>2. Emit(0, PairBytes(match_position, n)) /\ last' = n
    BY <1>6, <1>9, <2>1 DEF EncodePair
  <2>3. /\ Behind(match_position) \in 1 .. N - F /\ n \in 1..len
        /\ \A j \in 1..n :
             text[Coded + j] = Source(Coded + j - Behind(match_position))
    BY <1>3, <2>1, MatchAgrees
  <2>4. Behind(match_position) = Codec!Distance(match_position, RingAt(Coded))
    BY <1>4 DEF Behind, Codec!Distance
  <2>5. MatchAt(match_position, e.at, n)
    BY <1>3, <1>4, <1>5, <2>3, <2>4 DEF MatchAt
  <2>6. StandsFor(0, PairBytes(match_position, n), e, n)
    BY <1>3, <2>5, PairStands
  <2>7. PICK bytes \in Seq(Byte) :
          bytes = PairBytes(match_position, n) /\ Len(bytes) = 2
    BY <1>3, PairBytesType DEF Nodes
  <2>8. QED
    BY <1>7, <2>1, <2>2, <2>6, <2>7
<1>10. QED
  BY <1>8, <1>9 DEF Encode

\* The steps in between add nothing to the logo.
LEMMA FrameCoding ==
  ASSUME ScanInv, CodingInv, [Next]_vars, ~ Encode, ~ Flush, pc # "done"
  PROVE  CodingInv'
<1>1. UNCHANGED <<text, code, mask, outfile>> /\ pc' # "done"
  <2>1. CASE DeleteNode
    BY <2>1
    DEF DeleteNode, DeleteAbsent, DeleteNarrow, DeleteLeft, DeleteDescend,
        DeletePredecessor, DeleteBy, DeleteFrame, codeVars, scanVars
  <2>2. CASE InsertNode
    <3>1. ret # "done"
      BY DEF ScanInv, TypeOK
    <3>2. QED
      BY <2>2, <3>1
      DEF InsertNode, InsertLeaf, InsertWalk, InsertReplace, codeVars, scanVars
  <2>3. CASE Prime \/ Shift \/ AdvanceByte \/ AdvanceEnd \/ Shifted
    BY <2>3 DEF Prime, Shift, AdvanceByte, AdvanceEnd, Shifted, CallInsert,
                codeVars, scanVars
  <2>4. CASE UNCHANGED vars
    BY <2>4 DEF vars, codeVars
  <2>5. QED
    BY <2>1, <2>2, <2>3, <2>4 DEF Next
<1>2. r' = RingAt(Passed')
  BY RingStep DEF CodingInv
<1>3. PICK u \in 0 .. ByteBits-1, G \in SUBSET Places :
        mask = 2^u /\ CodedBy(G, u)
  BY DEF CodingInv
<1>4. Frontier(u)' = Frontier(u)
  BY <1>1, OwedStep DEF Frontier
<1>5. Stream' = Stream
  BY <1>1 DEF Stream
<1>6. CodedBy(G, u)'
  <2>1. ASSUME NEW g \in G \ {Frontier(u)}
        PROVE  \E size \in 1..2, n \in 1..F :
                 /\ UnitAt(Stream, g, size, n)' /\ Written(g, size, u)'
                 /\ After(g, size, n) \in G
    <3>1. PICK size \in 1..2, n \in 1..F :
            /\ UnitAt(Stream, g, size, n) /\ Written(g, size, u)
            /\ After(g, size, n) \in G
      BY <1>3 DEF CodedBy
    <3>2. UnitAt(Stream, g, size, n)' /\ Written(g, size, u)'
      BY <1>1, <1>5, <3>1
         DEF UnitAt, LiteralAt, PairAt, MatchAt, Source, Written
    <3>3. QED
      BY <3>1, <3>2
  <2>2. QED
    BY <1>3, <1>4, <2>1 DEF CodedBy
<1>7. QED
  BY <1>1, <1>2, <1>3, <1>6 DEF CodingInv, RingAt

\* What is left in code_buf ends the logo.
LEMMA FlushCoding ==
  ASSUME ScanInv, CodingInv, Flush
  PROVE  CodingInv'
<1>1. PICK u \in 0 .. ByteBits-1, G \in SUBSET Places :
        mask = 2^u /\ CodedBy(G, u)
  BY DEF CodingInv, Flush
<1>2. PICK L \in Nat, M \in Nat : L = Len(outfile) /\ M = Len(code)
  BY DEF ScanInv, TypeOK
<1>3. M >= 1 /\ (M = 1 => u = 0)
  <2>1. PICK v \in 0 .. ByteBits-1 : mask = 2^v /\ M \in v + 1 .. 2 * v + 1
    BY <1>2 DEF ScanInv, CodeShape
  <2>2. CASE u = 0
    BY <2>1, <2>2
  <2>3. CASE u # 0
    <3>1. v # 0
      <4>1. 2^0 = 1
        OBVIOUS
      <4>2. PICK k \in 0 .. ByteBits-1 : u = k + 1
        <5>1. u - 1 \in 0 .. ByteBits-1 /\ u = (u - 1) + 1
          BY <2>3
        <5>2. QED
          BY <5>1
      <4>3. 2^u = 2 * 2^k /\ 2^k \in Nat
        BY <4>2, PowerAssumption, PairPowers
      <4>4. 2^u # 1
        BY <4>3
      <4>5. QED
        BY <1>1, <2>1, <4>1, <4>4
    <3>2. QED
      BY <2>1, <3>1
  <2>4. QED
    BY <2>2, <2>3
<1>4. /\ Stream \in Seq(Byte) /\ Len(Stream) = L + M
      /\ \A j \in 1..L : Stream[j] = outfile[j]
  BY <1>2, Joined DEF ScanInv, TypeOK, Stream
<1>5. outfile' = IF M > 1 THEN Stream ELSE outfile
  BY <1>2 DEF Flush, Stream
<1>6. PICK e \in Places : e = Frontier(u) /\ e.src = L + M + 1
  BY <1>1, <1>2 DEF CodedBy, Frontier
<1>7. ASSUME NEW g \in G, g # e
      PROVE  \E size \in 1..2, n \in 1..F :
               UnitAt(outfile', g, size, n) /\ After(g, size, n) \in G
  <2>1. PICK size \in 1..2, n \in 1..F :
          /\ UnitAt(Stream, g, size, n) /\ Written(g, size, u)
          /\ After(g, size, n) \in G
    BY <1>1, <1>6, <1>7 DEF CodedBy
  <2>2. CASE M > 1
    BY <1>5, <2>1, <2>2
  <2>3. CASE M = 1
    <3>1. g \in Places
      OBVIOUS
    <3>2. g.src \in Nat /\ g.flagged \in Nat /\ g.used \in Nat
      BY <3>1 DEF Places
    <3>3. g.src + size - 1 <= L
      BY <1>2, <1>3, <2>1, <2>3, <3>2 DEF Written
    <3>4. g.flagged \in 1 .. g.src - 1
      BY <2>1 DEF UnitAt
    <3>5. FlagAt(outfile, g) = FlagAt(Stream, g)
      <4>1. g.flagged \in 1..L
        BY <3>2, <3>3, <3>4
      <4>2. QED
        BY <1>4, <4>1 DEF FlagAt
    <3>6. \A j \in g.src .. g.src + size - 1 : outfile[j] = Stream[j]
      <4>1. ASSUME NEW j \in g.src .. g.src + size - 1 PROVE j \in 1..L
        BY <3>2, <3>3, <3>4
      <4>2. QED
        BY <1>4, <4>1
    <3>7. UnitAt(outfile, g, size, n)
      BY <1>2, <2>1, <3>2, <3>3, <3>5, <3>6, UnitKept
    <3>8. QED
      BY <1>5, <2>1, <2>3, <3>7
  <2>4. QED
    BY <1>3, <2>2, <2>3
<1>8. e.src > Len(outfile')
  BY <1>2, <1>3, <1>4, <1>5, <1>6
<1>9. text' = text /\ pc' = "done"
  BY DEF Flush
<1>10. Parsed(outfile, G)'
  <2>1. ASSUME NEW g \in G
        PROVE  \/ g.src > Len(outfile')
               \/ \E size \in 1..2, n \in 1..F :
                    UnitAt(outfile, g, size, n)' /\ After(g, size, n) \in G
    <3>1. CASE g = e
      BY <1>8, <3>1
    <3>2. CASE g # e
      <4>1. PICK size \in 1..2, n \in 1..F :
              UnitAt(outfile', g, size, n) /\ After(g, size, n) \in G
        BY <1>7, <3>2
      <4>2. UnitAt(outfile, g, size, n)'
        BY <1>9, <4>1 DEF UnitAt, LiteralAt, PairAt, MatchAt, Source
      <4>3. QED
        BY <4>1, <4>2
    <3>3. QED
      BY <3>1, <3>2
  <2>2. QED
    BY <1>1, <2>1 DEF Parsed, CodedBy
<1>11. QED
  BY <1>9, <1>10 DEF CodingInv

\* Every step of the compressor keeps it.
LEMMA CodingStep ==
  ASSUME ScanInv, MatchInv, CodingInv, [Next]_vars
  PROVE  CodingInv'
<1>1. CASE pc = "done"
  <2>1. UNCHANGED vars
    BY <1>1 DEF Next, Prime, InsertNode, InsertLeaf, InsertWalk, InsertReplace,
                DeleteNode, DeleteAbsent, DeleteNarrow, DeleteLeft,
                DeleteDescend, DeletePredecessor, DeleteBy, DeleteFrame,
                Encode, Shift, AdvanceByte, AdvanceEnd, Shifted, Flush
  <2>2. PICK G \in SUBSET Places : Parsed(outfile, G)
    BY <1>1 DEF CodingInv
  <2>3. text' = text /\ outfile' = outfile /\ pc' = "done"
    BY <1>1, <2>1 DEF vars, codeVars
  <2>4. Parsed(outfile, G)'
    <3>1. ASSUME NEW g \in G, NEW size \in 1..2, NEW n \in 1..F,
                 UnitAt(outfile, g, size, n)
          PROVE  UnitAt(outfile, g, size, n)'
      BY <2>3, <3>1 DEF UnitAt, LiteralAt, PairAt, MatchAt, Source
    <3>2. QED
      BY <2>2, <2>3, <3>1 DEF Parsed
  <2>5. QED
    BY <2>3, <2>4 DEF CodingInv
<1>2. CASE pc # "done"
  <2>1. CASE Encode
    BY <2>1, EncodeCoding
  <2>2. CASE Flush
    BY <2>2, FlushCoding
  <2>3. CASE ~ Encode /\ ~ Flush
    BY <1>2, <2>3, FrameCoding
  <2>4. QED
    BY <2>1, <2>2, <2>3
<1>3. QED
  BY <1>1, <1>2

-----------------------------------------------------------------------------
(* What a terminal shows.                                                  *)

\* What the first k bytes leave without b, kept holding it for fewer.
Kept(b, bytes, kept, k) ==
  IF k = 0 THEN << >>
  ELSE IF bytes[k] = b THEN kept[k - 1]
  ELSE Append(kept[k - 1], bytes[k])

IsKept(b, bytes, n, kept) ==
  \A k \in 0..n : kept[k] = Kept(b, bytes, kept, k)

\* There is a function that computes it ...
LEMMA KeptExists ==
  ASSUME NEW b, NEW bytes, NEW n \in Nat
  PROVE  \E kept : IsKept(b, bytes, n, kept)
<1> DEFINE S == { m \in Nat : ~ \E kept : IsKept(b, bytes, m, kept) }
<1>1. SUFFICES ASSUME S # {} PROVE FALSE
  OBVIOUS
<1>2. PICK m \in S : \A k \in S : m <= k
  <2>1. S \in SUBSET Nat
    OBVIOUS
  <2>2. QED
    BY <1>1, <2>1, LeastNumber
<1>3. m \in Nat /\ ~ \E kept : IsKept(b, bytes, m, kept)
  OBVIOUS
<1>4. CASE m = 0
  <2>1. PICK kept : kept = [k \in 0..0 |-> << >>]
    OBVIOUS
  <2>2. IsKept(b, bytes, 0, kept)
    BY <2>1 DEF IsKept
  <2>3. QED
    BY <1>3, <1>4, <2>2
<1>5. CASE m # 0
  <2>1. PICK d \in Nat : m = d + 1
    <3>1. m - 1 \in Nat /\ m = (m - 1) + 1
      BY <1>3, <1>5
    <3>2. QED
      BY <3>1
  <2>2. PICK old : IsKept(b, bytes, d, old)
    <3>1. ~ (m <= d)
      BY <2>1
    <3>2. QED
      BY <1>2, <2>1, <3>1
  <2>3. PICK new : new = [k \in 0..m |->
             IF k = m THEN IF bytes[m] = b THEN old[d]
                           ELSE Append(old[d], bytes[m])
             ELSE old[k]]
    OBVIOUS
  <2>4. ASSUME NEW k \in 0..m
        PROVE  new[k] = Kept(b, bytes, new, k)
    <3>1. CASE k = m
      <4>1. k - 1 = d /\ k # 0 /\ k - 1 \in 0..m /\ k - 1 # m
        BY <2>1, <3>1
      <4>2. new[k - 1] = old[d]
        BY <2>3, <4>1
      <4>3. QED
        BY <2>3, <3>1, <4>1, <4>2 DEF Kept
    <3>2. CASE k # m
      <4>1. k \in 0..d /\ new[k] = old[k]
        BY <2>1, <2>3, <3>2
      <4>2. old[k] = Kept(b, bytes, old, k)
        BY <2>2, <4>1 DEF IsKept
      <4>3. k # 0 => new[k - 1] = old[k - 1]
        <5>1. k # 0 => k - 1 \in 0..m /\ k - 1 # m
          BY <2>1, <4>1
        <5>2. QED
          BY <2>3, <5>1
      <4>4. QED
        BY <4>1, <4>2, <4>3 DEF Kept
    <3>3. QED
      BY <3>1, <3>2
  <2>5. QED
    BY <1>3, <2>4 DEF IsKept
<1>6. QED
  BY <1>4, <1>5

\* ... and two of them agree as long as the bytes do.
LEMMA KeptAgrees ==
  ASSUME NEW b, NEW s1, NEW s2, NEW n \in Nat, NEW m \in Nat, n <= m,
         \A k \in 1..n : s1[k] = s2[k],
         NEW f, NEW g, IsKept(b, s1, n, f), IsKept(b, s2, m, g)
  PROVE  f[n] = g[n]
<1> DEFINE S == { k \in 0..n : f[k] # g[k] }
<1>1. SUFFICES ASSUME S # {} PROVE FALSE
  OBVIOUS
<1>2. PICK k \in S : \A j \in S : k <= j
  <2>1. S \in SUBSET Nat
    OBVIOUS
  <2>2. QED
    BY <1>1, <2>1, LeastNumber
<1>3. k \in 0..n /\ f[k] # g[k]
  OBVIOUS
<1>4. k # 0
  <2>1. 0 \in 0..n /\ 0 \in 0..m
    OBVIOUS
  <2>2. f[0] = g[0]
    BY <2>1 DEF IsKept, Kept
  <2>3. QED
    BY <1>3, <2>2
<1>5. k \in 1..n /\ k \in 0..m /\ k - 1 \in 0..n /\ ~ (k <= k - 1)
  BY <1>3, <1>4
<1>6. f[k - 1] = g[k - 1]
  BY <1>2, <1>5
<1>7. f[k] = Kept(b, s1, f, k) /\ g[k] = Kept(b, s2, g, k)
  BY <1>3, <1>5 DEF IsKept
<1>8. s1[k] = s2[k]
  BY <1>5
<1>9. QED
  BY <1>3, <1>4, <1>6, <1>7, <1>8 DEF Kept

\* It is what Without is defined with.
LEMMA WithoutIs ==
  ASSUME NEW S, NEW bytes \in Seq(S), NEW b
  PROVE  \E kept : IsKept(b, bytes, Len(bytes), kept)
                     /\ Without(b, bytes) = kept[Len(bytes)]
<1> DEFINE kept == CHOOSE f : f = [k \in 0 .. Len(bytes) |->
            IF k = 0 THEN << >>
            ELSE IF bytes[k] = b THEN f[k - 1]
            ELSE Append(f[k - 1], bytes[k])]
<1>1. Len(bytes) \in Nat
  OBVIOUS
<1>2. PICK f : IsKept(b, bytes, Len(bytes), f)
  BY <1>1, KeptExists
<1>3. \E g : g = [k \in 0 .. Len(bytes) |->
            IF k = 0 THEN << >>
            ELSE IF bytes[k] = b THEN g[k - 1]
            ELSE Append(g[k - 1], bytes[k])]
  <2>1. PICK n \in Nat : n = Len(bytes)
    BY <1>1
  <2>2. PICK g : g = [k \in 0..n |-> f[k]]
    OBVIOUS
  <2>3. ASSUME NEW k \in 0..n
        PROVE  g[k] = IF k = 0 THEN << >>
                      ELSE IF bytes[k] = b THEN g[k - 1]
                      ELSE Append(g[k - 1], bytes[k])
    <3>1. k # 0 => k - 1 \in 0..n
      OBVIOUS
    <3>2. k # 0 => g[k - 1] = f[k - 1]
      BY <2>2, <3>1
    <3>3. g[k] = f[k] /\ f[k] = Kept(b, bytes, f, k)
      BY <1>2, <2>1, <2>2 DEF IsKept
    <3>4. QED
      BY <3>2, <3>3 DEF Kept
  <2>4. PICK h : h = [k \in 0..n |->
                       IF k = 0 THEN << >>
                       ELSE IF bytes[k] = b THEN g[k - 1]
                       ELSE Append(g[k - 1], bytes[k])]
    OBVIOUS
  <2>5. g = h
    <3>1. \A k \in 0..n : g[k] = h[k]
      BY <2>3, <2>4
    <3>2. g = [k \in 0..n |-> g[k]] /\ h = [k \in 0..n |-> h[k]]
      BY <2>2, <2>4
    <3>3. QED
      BY <3>1, <3>2
  <2>6. QED
    BY <2>1, <2>4, <2>5
<1>4. kept = [k \in 0 .. Len(bytes) |->
            IF k = 0 THEN << >>
            ELSE IF bytes[k] = b THEN kept[k - 1]
            ELSE Append(kept[k - 1], bytes[k])]
  BY <1>3
<1>5. Without(b, bytes) = kept[Len(bytes)]
  BY DEF Without
<1> HIDE DEF kept
<1>6. IsKept(b, bytes, Len(bytes), kept)
  <2>1. ASSUME NEW k \in 0 .. Len(bytes)
        PROVE  kept[k] = Kept(b, bytes, kept, k)
    BY <1>4 DEF Kept
  <2>2. QED
    BY <2>1 DEF IsKept
<1>7. QED
  BY <1>5, <1>6

\* Of no bytes none are left, ...
LEMMA WithoutNone ==
  ASSUME NEW b
  PROVE Without(b, << >>) = << >>
<1>1. << >> \in Seq({}) /\ Len(<< >>) = 0
  OBVIOUS
<1>2. PICK kept : IsKept(b, << >>, 0, kept) /\ Without(b, << >>) = kept[0]
  BY <1>1, WithoutIs
<1>3. kept[0] = << >>
  <2>1. 0 \in 0..0
    OBVIOUS
  <2>2. QED
    BY <1>2, <2>1 DEF IsKept, Kept
<1>4. QED
  BY <1>2, <1>3

\* ... and another one is left if it is not b.
LEMMA WithoutMore ==
  ASSUME NEW S, NEW s1 \in Seq(S), NEW x \in S, NEW b
  PROVE  Without(b, s1 \o <<x>>) =
           IF x = b THEN Without(b, s1) ELSE Append(Without(b, s1), x)
<1>1. PICK n \in Nat : n = Len(s1)
  OBVIOUS
<1>2. PICK s2 \in Seq(S) : s2 = s1 \o <<x>>
  <2>1. s1 \o <<x>> \in Seq(S)
    OBVIOUS
  <2>2. QED
    BY <2>1
<1>3. Len(s2) = n + 1 /\ s2[n + 1] = x /\ \A k \in 1..n : s1[k] = s2[k]
  BY <1>1, <1>2
<1>4. PICK f : IsKept(b, s1, n, f) /\ Without(b, s1) = f[n]
  BY <1>1, WithoutIs
<1>5. PICK g : IsKept(b, s2, n + 1, g) /\ Without(b, s2) = g[n + 1]
  BY <1>3, WithoutIs
<1>6. f[n] = g[n]
  BY <1>3, <1>4, <1>5, KeptAgrees
<1>7. n + 1 \in 0 .. n + 1 /\ (n + 1) - 1 = n /\ n + 1 # 0
  OBVIOUS
<1>8. g[n + 1] = IF s2[n + 1] = b THEN g[n] ELSE Append(g[n], s2[n + 1])
  BY <1>5, <1>7 DEF IsKept, Kept
<1>9. QED
  BY <1>2, <1>3, <1>4, <1>5, <1>6, <1>7, <1>8

-----------------------------------------------------------------------------
(* The port takes the logo apart.                                          *)

\* How many bytes of a pair are still to be copied.
Left == IF label = "output_loop" THEN Decoder!BytesLeft(count) ELSE 0

\* The codec for a ring that is prepared, and for one that is not.
Cleared == INSTANCE LzssCodecProofs
             WITH out <- Shown, r <- store, pos <- Decoder!PairPosition(pos),
                  left <- Left,
                  Fill <- FrequentChar, Prefilled <- TRUE,
                  Texts <- { j[1] : j \in Jobs }

Plain == INSTANCE LzssCodecProofs
           WITH out <- Shown, r <- store, pos <- Decoder!PairPosition(pos),
                left <- Left,
                Fill <- FrequentChar, Prefilled <- FALSE,
                Texts <- { t \in { j[1] : j \in Jobs } :
                             \A k \in 1 .. Len(t) : t[k] # FrequentChar }

\* The flags f, k of them, are those of the unit at g and of what follows it in
\* the group.
FlagsFor(g, f, k) ==
  g.src <= Len(file) =>
    /\ f = Decoder!LoadedFlags(file[g.flagged]) \div 2^g.used
    /\ k = ByteBits - g.used

\* With them and the pointer at x, the port goes on to g.
Ready(g, f, k, x) ==
  /\ Decoder!MoreFlags(f, k) <=> g.used # 0
  /\ x = IF g.used = 0 THEN g.flagged ELSE g.src
  /\ g.used # 0 => FlagsFor(g, f, k)

\* The counting register between two units.  Before the first one, %d1 of the
\* m68k may hold more than nothing.
Idle ==
  IF port.length = "dbf"
    THEN \/ count = ByteValues * ByteValues - 1
         \/ Len(Shown) = 0 /\ count \in Byte
    ELSE count = 0

\* What is in it when n bytes of a unit are still to be written.
CountFor(n) == IF port.length = "dbf" THEN n - 1 ELSE n

\* Where in the logo the port is.
At(G) ==
  CASE label = "decompression_loop" ->
         \E g \in G : g.used = 0 /\ src = g.flagged /\ Len(Shown) = g.at /\ Idle
    [] label = "test_flags" ->
         \E g \in G : /\ src = g.src /\ Len(Shown) = g.at /\ Idle
                      /\ FlagsFor(g, flags, units)
    [] label = "output_loop" ->
         \E g \in G, n \in 1..F :
           /\ count = CountFor(n)
           /\ Len(Shown) + n = g.at
           /\ Ready(g, flags, units - 1, src)
    [] OTHER -> TRUE

Reading ==
  IF label = "start"
    THEN src = 1 /\ Len(Shown) = 0 /\ Idle
    ELSE /\ pc = "done" /\ file \in Seq(Byte)
         /\ \E G \in SUBSET Places : Parsed(file, G) /\ At(G)

DecodingInv ==
  /\ Suits(text, port)
  /\ out \in Seq(Byte \cup {Linefeed, CarriageReturn})
  /\ store = RingAt(Len(Shown))
  /\ Reading
  /\ Cleared!IInv \/ Plain!IInv

\* What the codec supposes of its constants.
LEMMA ClearedAssumptions ==
  ASSUME JobsSuit
  PROVE  /\ Cleared!RingAssumption /\ Cleared!TextAssumption
         /\ Cleared!FillAssumption
BY FileAssumption DEF Cleared!RingAssumption, Cleared!TextAssumption,
                      Cleared!FillAssumption, JobsSuit, Suits

LEMMA PlainAssumptions ==
  ASSUME JobsSuit
  PROVE  /\ Plain!RingAssumption /\ Plain!TextAssumption
         /\ Plain!FillAssumption
BY FileAssumption DEF Plain!RingAssumption, Plain!TextAssumption,
                      Plain!FillAssumption, JobsSuit, Suits

\* The next flag, and whether there is one, behind a unit.
LEMMA GoesOn ==
  ASSUME port \in Decoder!Traits, file \in Seq(Byte), NEW g \in Places,
         NEW size \in 1..2, NEW n \in 1..F, UnitAt(file, g, size, n),
         NEW f, NEW k, FlagsFor(g, f, k)
  PROVE  /\ Decoder!SaysLiteral(f) <=> FlagAt(file, g) = 1
         /\ Ready(After(g, size, n), f \div 2, k - 1, g.src + size)
<1>1. PICK j \in 0 .. ByteBits-1 : j = g.used
  BY DEF Places
<1>2. g.src \in Nat /\ g.flagged \in Nat
  BY DEF Places
<1>3. g.src <= Len(file) /\ g.flagged \in 1 .. Len(file)
  BY <1>2 DEF UnitAt
<1>4. PICK b \in Byte : b = file[g.flagged]
  BY <1>3
<1>5. f = Decoder!LoadedFlags(b) \div 2^j /\ k = ByteBits - j
  BY <1>1, <1>3, <1>4 DEF FlagsFor
<1>6. /\ Decoder!SaysLiteral(f) <=> (b \div 2^j) % 2 = 1
      /\ f \div 2 = Decoder!LoadedFlags(b) \div 2^(j + 1)
  BY <1>5, FlagRead
<1>7. Decoder!SaysLiteral(f) <=> FlagAt(file, g) = 1
  BY <1>1, <1>4, <1>6 DEF FlagAt
<1>8. PICK m \in 1 .. ByteBits : m = j + 1
  OBVIOUS
<1>9. Decoder!MoreFlags(f \div 2, ByteBits - m) <=> m < ByteBits
  BY <1>6, <1>8, FlagsLeft
<1>10. k - 1 = ByteBits - m
  BY <1>5, <1>8
<1>11. PICK e : e = After(g, size, n)
  OBVIOUS
<1>12. CASE m = ByteBits
  <2>1. e.used = 0 /\ e.flagged = g.src + size
    BY <1>1, <1>8, <1>11, <1>12 DEF After
  <2>2. QED
    BY <1>7, <1>9, <1>10, <1>11, <1>12, <2>1 DEF Ready
<1>13. CASE m # ByteBits
  <2>1. e.used = m /\ e.flagged = g.flagged /\ e.src = g.src + size /\ m # 0
    BY <1>1, <1>8, <1>11, <1>13 DEF After
  <2>2. FlagsFor(e, f \div 2, k - 1)
    BY <1>4, <1>6, <1>8, <1>10, <2>1 DEF FlagsFor
  <2>3. m < ByteBits
    BY <1>13
  <2>4. QED
    BY <1>7, <1>9, <1>10, <1>11, <2>1, <2>2, <2>3 DEF Ready
<1>14. QED
  BY <1>12, <1>13

\* Two bytes are added one by one.
LEMMA TwoBytes ==
  ASSUME NEW S, NEW o \in Seq(S), NEW x \in S, NEW y \in S
  PROVE  o \o <<x, y>> = (o \o <<x>>) \o <<y>>
<1>1. PICK n \in Nat : n = Len(o)
  OBVIOUS
<1>2. PICK a \in Seq(S) : a = o \o <<x>> /\ Len(a) = n + 1 /\ a[n + 1] = x
                         /\ \A k \in 1..n : a[k] = o[k]
  <2>1. /\ o \o <<x>> \in Seq(S) /\ Len(o \o <<x>>) = n + 1
        /\ (o \o <<x>>)[n + 1] = x /\ \A k \in 1..n : (o \o <<x>>)[k] = o[k]
    BY <1>1
  <2>2. QED
    BY <2>1
<1>3. /\ a \o <<y>> \in Seq(S) /\ Len(a \o <<y>>) = (n + 1) + 1
      /\ (a \o <<y>>)[(n + 1) + 1] = y
      /\ \A k \in 1 .. n + 1 : (a \o <<y>>)[k] = a[k]
  BY <1>2
<1>4. PICK b \in Seq(S) : b = a \o <<y>> /\ Len(b) = n + 2 /\ b[n + 1] = x
                         /\ b[n + 2] = y /\ \A k \in 1..n : b[k] = o[k]
  <2>1. /\ n + 1 \in 1 .. n + 1 /\ (n + 1) + 1 = n + 2
        /\ \A k \in 1..n : k \in 1 .. n + 1
    OBVIOUS
  <2>2. QED
    BY <1>2, <1>3, <2>1
<1>5. PICK d \in Seq(S) : d = o \o <<x, y>> /\ Len(d) = n + 2 /\ d[n + 1] = x
                         /\ d[n + 2] = y /\ \A k \in 1..n : d[k] = o[k]
  <2>1. /\ o \o <<x, y>> \in Seq(S) /\ Len(o \o <<x, y>>) = n + 2
        /\ (o \o <<x, y>>)[n + 1] = x /\ (o \o <<x, y>>)[n + 2] = y
        /\ \A k \in 1..n : (o \o <<x, y>>)[k] = o[k]
    BY <1>1
  <2>2. QED
    BY <2>1
<1>6. \A k \in 1 .. n + 2 : d[k] = b[k]
  <2>1. ASSUME NEW k \in 1 .. n + 2
        PROVE  d[k] = b[k]
    <3>1. k \in 1..n \/ k = n + 1 \/ k = n + 2
      OBVIOUS
    <3>2. QED
      BY <1>4, <1>5, <3>1
  <2>2. QED
    BY <2>1
<1>7. d = b
  BY <1>4, <1>5, <1>6, SeqEqual
<1>8. QED
  BY <1>2, <1>4, <1>5, <1>7

\* What a byte that is stored adds to what is shown.
LEMMA StoreShows ==
  ASSUME out \in Seq(Byte \cup {Linefeed, CarriageReturn}), NEW b \in Byte,
         port \in Decoder!Traits, port' = port,
         port.crlf => b # CarriageReturn,
         out' = out \o (IF port.crlf /\ b = Linefeed
                          THEN <<CarriageReturn, b>> ELSE <<b>>)
  PROVE  /\ out' \in Seq(Byte \cup {Linefeed, CarriageReturn})
         /\ Shown' = Append(Shown, b)
<1>1. PICK S : S = Byte \cup {Linefeed, CarriageReturn}
  OBVIOUS
<1>2. CarriageReturn \in S /\ b \in S /\ out \in Seq(S)
  BY <1>1
<1>3. CASE port.crlf /\ b = Linefeed
  <2>1. PICK o : o = out \o <<CarriageReturn>>
    OBVIOUS
  <2>2. o \in Seq(S)
    BY <1>2, <2>1
  <2>3. out' = o \o <<b>>
    <3>1. out' = out \o <<CarriageReturn, b>>
      BY <1>3
    <3>2. out \o <<CarriageReturn, b>> = (out \o <<CarriageReturn>>) \o <<b>>
      BY <1>2, TwoBytes
    <3>3. QED
      BY <2>1, <3>1, <3>2
  <2>4. out' \in Seq(S)
    BY <1>2, <2>2, <2>3
  <2>5. Without(CarriageReturn, o) = Without(CarriageReturn, out)
    BY <1>2, <2>1, WithoutMore
  <2>6. Without(CarriageReturn, out') = Append(Without(CarriageReturn, o), b)
    <3>1. b # CarriageReturn
      BY <1>3
    <3>2. Without(CarriageReturn, o \o <<b>>) = Append(Without(CarriageReturn, o), b)
      BY <1>2, <2>2, <3>1, WithoutMore
    <3>3. QED
      BY <2>3, <3>2
  <2>7. QED
    BY <1>1, <1>3, <2>4, <2>5, <2>6 DEF Shown
<1>4. CASE ~ (port.crlf /\ b = Linefeed)
  <2>1. out' = out \o <<b>>
    BY <1>4
  <2>2. out' \in Seq(S)
    BY <1>2, <2>1
  <2>3. port.crlf =>
          Without(CarriageReturn, out') = Append(Without(CarriageReturn, out), b)
    BY <1>2, <2>1, WithoutMore
  <2>4. out' = Append(out, b)
    BY <1>2, <2>1
  <2>5. QED
    BY <1>1, <2>2, <2>3, <2>4 DEF Shown
<1>5. QED
  BY <1>3, <1>4

\* The logo is not disturbed.
LEMMA ParsedKept ==
  ASSUME NEW G \in SUBSET Places, Parsed(file, G), file' = file, text' = text
  PROVE  Parsed(file, G)'
<1>1. ASSUME NEW g \in G, NEW size \in 1..2, NEW n \in 1..F,
             UnitAt(file, g, size, n)
      PROVE  UnitAt(file, g, size, n)'
  BY <1>1 DEF UnitAt, LiteralAt, PairAt, MatchAt, Source
<1>2. QED
  BY <1>1 DEF Parsed

\* How far a port has to go on, when a unit has been written.
LEMMA ReadyKept ==
  ASSUME NEW g \in Places, NEW f, NEW k, NEW x, Ready(g, f, k, x),
         port' = port, file' = file
  PROVE  Ready(g, f, k, x)'
BY DEF Ready, FlagsFor, Decoder!MoreFlags, Decoder!LoadedFlags

\* The register with the flags holds a number.
LEMMA LoadedNat ==
  ASSUME port \in Decoder!Traits, NEW b \in Byte
  PROVE  Decoder!LoadedFlags(b) \in Nat
<1>1. PICK B \in Nat : B = ByteValues /\ b \in 0 .. B-1
  BY WireSizes DEF Byte
<1>2. PICK A \in Nat : A = Above
  BY Loaded
<1>3. B * A \in Nat
  OBVIOUS
<1>4. QED
  BY <1>1, <1>2, <1>3, Loaded

\* The counting register counts the bytes of a unit, ...
LEMMA CountsDown ==
  ASSUME port \in Decoder!Traits, NEW n \in 1..F
  PROVE  /\ Decoder!BytesLeft(CountFor(n)) = n
         /\ Decoder!UnitDone(Decoder!Decremented(CountFor(n))) <=> n = 1
         /\ n > 1 => Decoder!Decremented(CountFor(n)) = CountFor(n - 1)
         /\ n = 1 => Decoder!Decremented(CountFor(n)) =
                       IF port.length = "dbf"
                         THEN ByteValues * ByteValues - 1 ELSE 0
<1>1. PICK Q \in Nat : Q = ByteValues * ByteValues /\ F + 1 < Q
                       /\ Q = Decoder!ByteValues * Decoder!ByteValues
  <2>1. PICK B \in Nat : B = ByteValues /\ B = Decoder!ByteValues /\ F < B /\ B >= 4
    BY WireSizes DEF ByteValues, Decoder!ByteValues
  <2>2. B * B \in Nat /\ B * B >= B * 2
    BY <2>1
  <2>3. QED
    BY <2>1, <2>2
<1>2. \A k \in 0 .. Q-1 : k % Q = k
  OBVIOUS
<1>3. (0 - 1) % Q = Q - 1
  BY <1>1
<1>4. CASE port.length = "dbf"
  <2>1. CountFor(n) = n - 1 /\ CountFor(n - 1) = n - 2
    BY <1>4 DEF CountFor
  <2>2. Decoder!BytesLeft(n - 1) = n
    <3>1. (n - 1 + 1) % Q = n
      <4>1. n - 1 + 1 = n /\ n \in 0 .. Q-1
        BY <1>1
      <4>2. QED
        BY <1>2, <4>1
    <3>2. QED
      BY <1>1, <1>4, <3>1 DEF Decoder!BytesLeft
  <2>3. Decoder!Decremented(n - 1) = IF n = 1 THEN Q - 1 ELSE n - 2
    <3>1. CASE n = 1
      <4>1. n - 1 - 1 = 0 - 1
        BY <3>1
      <4>2. QED
        BY <1>1, <1>3, <3>1, <4>1 DEF Decoder!Decremented
    <3>2. CASE n # 1
      <4>1. n - 1 - 1 = n - 2 /\ n - 2 \in 0 .. Q-1
        BY <1>1, <3>2
      <4>2. (n - 2) % Q = n - 2
        BY <1>2, <4>1
      <4>3. QED
        BY <1>1, <3>2, <4>1, <4>2 DEF Decoder!Decremented
    <3>3. QED
      BY <3>1, <3>2
  <2>4. Decoder!UnitDone(Decoder!Decremented(n - 1)) <=> n = 1
    <3>1. n - 2 # Q - 1
      BY <1>1
    <3>2. QED
      BY <1>1, <1>4, <2>3, <3>1 DEF Decoder!UnitDone
  <2>5. QED
    BY <1>1, <1>4, <2>1, <2>2, <2>3, <2>4
<1>5. CASE port.length # "dbf"
  <2>1. CountFor(n) = n /\ CountFor(n - 1) = n - 1
    BY <1>5 DEF CountFor
  <2>2. Decoder!Decremented(n) = n - 1
    <3>1. n - 1 \in 0 .. Q-1
      BY <1>1
    <3>2. QED
      BY <1>1, <1>2, <3>1 DEF Decoder!Decremented
  <2>3. QED
    BY <1>5, <2>1, <2>2 DEF Decoder!BytesLeft, Decoder!UnitDone
<1>6. QED
  BY <1>4, <1>5

\* ... however it is loaded, unless it holds more than nothing.
LEMMA CountSet ==
  ASSUME port \in Decoder!Traits, Idle
  PROVE  /\ Decoder!LiteralCount = CountFor(1)
         /\ Len(Shown) # 0 \/ port.length # "dbf" =>
              \A n \in 1..F : Decoder!PairCount(n) = CountFor(n)
<1>1. PICK B \in Nat : B = ByteValues /\ B = Decoder!ByteValues /\ F < B /\ B >= 4
  BY WireSizes DEF ByteValues, Decoder!ByteValues
<1>2. port.length \in {"set", "low", "inc", "mem", "dbf"}
  BY PortKinds
<1>3. Decoder!LiteralCount = CountFor(1)
  BY <1>2 DEF Decoder!LiteralCount, CountFor, Idle
<1>4. ASSUME Len(Shown) # 0 \/ port.length # "dbf", NEW n \in 1..F
      PROVE  Decoder!PairCount(n) = CountFor(n)
  <2>1. CASE port.length = "dbf"
    <3>1. PICK Q \in Nat \ {0} : Q = B * B /\ n < Q
      <4>1. B * B \in Nat /\ B * B >= B * 2
        BY <1>1
      <4>2. QED
        BY <1>1, <4>1
    <3>2. count + n = Q * 1 + (n - 1)
      BY <1>1, <1>4, <2>1, <3>1 DEF Idle
    <3>3. (Q * 1 + (n - 1)) % Q = n - 1
      <4>1. n - 1 \in 0 .. Q-1
        BY <3>1
      <4>2. QED
        BY <4>1, DivisionIs
    <3>4. (count + n) % (Decoder!ByteValues * Decoder!ByteValues) = n - 1
      BY <1>1, <3>1, <3>2, <3>3
    <3>5. QED
      BY <2>1, <3>4 DEF Decoder!PairCount, CountFor
  <2>2. CASE port.length # "dbf"
    <3>1. count = 0 /\ n % B = n /\ 0 % B = 0
      <4>1. n \in 0 .. B-1 /\ 0 \in 0 .. B-1
        BY <1>1
      <4>2. QED
        BY <2>2, <4>1 DEF Idle
    <3>2. count - (count % B) + (n % B) = n
      BY <3>1
    <3>3. QED
      BY <1>1, <1>2, <2>2, <3>2 DEF Decoder!PairCount, CountFor
  <2>3. QED
    BY <2>1, <2>2
<1>5. QED
  BY <1>3, <1>4

\* Behind a unit the port is at the next one.
LEMMA UnitEnds ==
  ASSUME file \in Seq(Byte), pc = "done", UNCHANGED <<text, port, file, pc>>,
         NEW G \in SUBSET Places, Parsed(file, G), NEW e \in G,
         Ready(e, flags, units, src)', Len(Shown)' = e.at, Idle',
         label' = IF Decoder!MoreFlags(flags, units)' THEN "test_flags"
                                                      ELSE "decompression_loop"
  PROVE  Reading'
<1>1. Parsed(file, G)'
  BY ParsedKept
<1>2. CASE e.used = 0
  <2>1. label' = "decompression_loop" /\ src' = e.flagged
    BY <1>2 DEF Ready
  <2>2. At(G)'
    BY <1>2, <2>1 DEF At
  <2>3. QED
    BY <1>1, <2>1, <2>2 DEF Reading
<1>3. CASE e.used # 0
  <2>1. label' = "test_flags" /\ src' = e.src /\ FlagsFor(e, flags, units)'
    BY <1>3 DEF Ready
  <2>2. At(G)'
    BY <2>1 DEF At
  <2>3. QED
    BY <1>1, <2>1, <2>2 DEF Reading
<1>4. QED
  BY <1>2, <1>3

\* A byte of the file is stored.
LEMMA StoreStep ==
  ASSUME Suits(text, port), out \in Seq(Byte \cup {Linefeed, CarriageReturn}),
         Shown \in Seq(Byte), store = RingAt(Len(Shown)), port' = port,
         NEW k, NEW f, NEW u, Len(Shown) < Len(text),
         Decoder!StoreByte(text[Len(Shown) + 1], k, f, u)
  PROVE  /\ Codec!StoreByte(text[Len(Shown) + 1])
         /\ Len(Shown)' = Len(Shown) + 1
         /\ (out \in Seq(Byte \cup {Linefeed, CarriageReturn}))'
         /\ (store = RingAt(Len(Shown)))'
<1>1. PICK n \in Nat : n = Len(Shown) /\ n + 1 \in 1 .. Len(text)
  <2>1. Len(Shown) \in Nat /\ Len(text) \in Nat
    BY DEF Suits
  <2>2. QED
    BY <2>1
<1>2. PICK b \in Byte : b = text[n + 1] /\ (port.crlf => b # CarriageReturn)
  BY <1>1 DEF Suits
<1>3. Decoder!StoreByte(b, k, f, u)
  BY <1>1, <1>2
<1>4. /\ out' = out \o (IF port.crlf /\ b = Linefeed
                          THEN <<CarriageReturn, b>> ELSE <<b>>)
      /\ ring' = [ring EXCEPT ![store] = b]
      /\ store' = (store + 1) % N
  BY <1>3 DEF Decoder!StoreByte
<1>5. port \in Decoder!Traits
  BY DEF Suits
<1>6. /\ out' \in Seq(Byte \cup {Linefeed, CarriageReturn})
      /\ Shown' = Append(Shown, b)
  BY <1>2, <1>4, <1>5, StoreShows
<1>7. Len(Shown') = n + 1
  BY <1>1, <1>6
<1>8. store' = RingAt(n + 1)
  BY <1>1, <1>4, RingMoves
<1>9. Codec!StoreByte(b)
  BY <1>4, <1>6 DEF Codec!StoreByte, Codec!Succ
<1>10. (store = RingAt(Len(Shown)))'
  BY <1>7, <1>8 DEF RingAt
<1>11. QED
  BY <1>1, <1>2, <1>6, <1>7, <1>9, <1>10

\* What a step of the port does: a step of the codec, or nothing that it can
\* see.
Decodes ==
  /\ [Codec!Next]_(Codec!vars)
  /\ UNCHANGED <<text, port>>
  /\ (out \in Seq(Byte \cup {Linefeed, CarriageReturn}))'
  /\ (store = RingAt(Len(Shown)))'
  /\ Reading'

\* What the codec says of the output.
LEMMA ShownType ==
  ASSUME DecodingInv, JobsSuit
  PROVE  /\ Shown \in Seq(Byte) /\ Len(Shown) <= Len(text)
         /\ Decoder!PairPosition(pos) \in Nodes
BY DEF DecodingInv, Cleared!IInv, Plain!IInv, Cleared!TypeOK, Plain!TypeOK,
       Cleared!RoundTrip, Plain!RoundTrip, Cleared!Cells, Plain!Cells, Nodes

\* At the beginning of a group its flags are loaded.
LEMMA LoadFlagsDecodes ==
  ASSUME DecodingInv, Decoder!LoadFlags, UNCHANGED vars
  PROVE  Decodes
<1>1. /\ label = "decompression_loop" /\ label' = "test_flags"
      /\ src' = src + 1 /\ units' = ByteBits
      /\ UNCHANGED <<port, file, pos, count, store, ring, out>>
      /\ src < Len(file) + 1 => flags' = Decoder!LoadedFlags(file[src])
  BY DEF Decoder!LoadFlags, Decoder!LogoEnd
<1>2. UNCHANGED <<text, pc>> /\ Shown' = Shown
  BY <1>1 DEF vars, Shown
<1>3. PICK G \in SUBSET Places : Parsed(file, G) /\ At(G) /\ pc = "done"
  BY <1>1 DEF DecodingInv, Reading
<1>4. PICK g \in G : g.used = 0 /\ src = g.flagged /\ Len(Shown) = g.at /\ Idle
  BY <1>1, <1>3 DEF At
<1>5. g.src = g.flagged + 1 /\ g.flagged \in Nat /\ src' = g.src
  BY <1>1, <1>4 DEF Places
<1>6. file \in Seq(Byte) /\ port \in Decoder!Traits
  BY <1>1 DEF DecodingInv, Reading, Suits
<1>7. FlagsFor(g, flags, units)'
  <2>1. SUFFICES ASSUME g.src <= Len(file)
                 PROVE  /\ flags' = Decoder!LoadedFlags(file[g.flagged]) \div 2^0
                        /\ units' = ByteBits - 0
    BY <1>1, <1>4 DEF FlagsFor, Decoder!LoadedFlags
  <2>2. g.flagged \in 1 .. Len(file)
    <3>1. Len(file) \in Nat
      BY <1>6
    <3>2. ~ (g.src > Len(file))
      BY <1>5, <2>1, <3>1
    <3>3. g.flagged \in 1 .. g.src - 1
      BY <1>3, <3>2 DEF Parsed, UnitAt
    <3>4. QED
      BY <1>5, <2>1, <3>1, <3>3
  <2>3. PICK b \in Byte : b = file[g.flagged]
    BY <1>6, <2>2
  <2>4. flags' = Decoder!LoadedFlags(b)
    <3>1. src < Len(file) + 1
      BY <1>4, <1>6, <2>2
    <3>2. QED
      BY <1>1, <1>4, <2>3, <3>1
  <2>5. Decoder!LoadedFlags(b) \in Nat
    BY <1>6, LoadedNat
  <2>6. 2^0 = 1
    OBVIOUS
  <2>7. QED
    BY <1>1, <2>3, <2>4, <2>5, <2>6
<1>8. Idle'
  BY <1>1, <1>2, <1>4 DEF Idle
<1>9. At(G)'
  BY <1>1, <1>2, <1>4, <1>5, <1>7, <1>8 DEF At
<1>10. Reading'
  BY <1>1, <1>2, <1>3, <1>6, <1>9, ParsedKept DEF Reading
<1>11. UNCHANGED Codec!vars
  BY <1>1, <1>2 DEF Codec!vars
<1>12. QED
  BY <1>1, <1>2, <1>10, <1>11 DEF Decodes, DecodingInv, RingAt

\* At the end of the logo the port goes on to something else.
LEMMA FinishDecodes ==
  ASSUME DecodingInv, Decoder!Finish \/ Decoder!RunPast, UNCHANGED vars
  PROVE  Decodes
<1>1. /\ label \in {"test_flags", "decompression_loop"}
      /\ label' \in {"done_logo", "lost"}
      /\ UNCHANGED <<port, file, pos, count, store, ring, out>>
  BY DEF Decoder!Finish, Decoder!RunPast
<1>2. UNCHANGED <<text, pc>> /\ Shown' = Shown
  BY <1>1 DEF vars, Shown
<1>3. PICK G \in SUBSET Places :
        Parsed(file, G) /\ pc = "done" /\ file \in Seq(Byte)
  BY <1>1 DEF DecodingInv, Reading
<1>4. At(G)'
  BY <1>1 DEF At
<1>5. Reading'
  BY <1>1, <1>2, <1>3, <1>4, ParsedKept DEF Reading
<1>6. UNCHANGED Codec!vars
  BY <1>1, <1>2 DEF Codec!vars
<1>7. QED
  BY <1>1, <1>2, <1>5, <1>6 DEF Decodes, DecodingInv, RingAt

\* A literal is the next byte of the file.
LEMMA DiscreteCharDecodes ==
  ASSUME DecodingInv, JobsSuit, Decoder!DiscreteChar, UNCHANGED vars
  PROVE  Decodes
<1>1. /\ label = "test_flags" /\ src < Len(file) + 1
      /\ Decoder!SaysLiteral(flags) /\ flags' = flags \div 2
      /\ Decoder!StoreByte(file[src], Decoder!LiteralCount, flags', units)
      /\ src' = src + 1 /\ UNCHANGED <<port, file, pos>>
  BY DEF Decoder!DiscreteChar, Decoder!LogoEnd
<1>2. UNCHANGED <<text, pc>>
  BY DEF vars
<1>3. /\ file \in Seq(Byte) /\ port \in Decoder!Traits /\ pc = "done"
      /\ Shown \in Seq(Byte)
  BY <1>1, ShownType DEF DecodingInv, Reading, Suits
<1>4. PICK G \in SUBSET Places : Parsed(file, G) /\ At(G)
  BY <1>1 DEF DecodingInv, Reading
<1>5. PICK g \in G : /\ src = g.src /\ Len(Shown) = g.at /\ Idle
                     /\ FlagsFor(g, flags, units)
  BY <1>1, <1>4 DEF At
<1>6. g.src <= Len(file) /\ g \in Places
  BY <1>1, <1>3, <1>5 DEF Places
<1>7. PICK size \in 1..2, n \in 1..F :
        UnitAt(file, g, size, n) /\ After(g, size, n) \in G
  BY <1>4, <1>6 DEF Parsed, Places
<1>8. /\ FlagAt(file, g) = 1
      /\ Ready(After(g, size, n), flags', units - 1, g.src + size)
  BY <1>1, <1>3, <1>5, <1>6, <1>7, GoesOn
<1>9. size = 1 /\ n = 1 /\ LiteralAt(file, g)
  BY <1>7, <1>8 DEF UnitAt, PairAt
<1>10. file[src] = text[Len(Shown) + 1] /\ Len(Shown) < Len(text)
  BY <1>5, <1>9 DEF LiteralAt
<1>11. /\ Codec!StoreByte(text[Len(Shown) + 1])
       /\ Len(Shown)' = Len(Shown) + 1
       /\ (out \in Seq(Byte \cup {Linefeed, CarriageReturn}))'
       /\ (store = RingAt(Len(Shown)))'
  BY <1>1, <1>3, <1>10, StoreStep DEF DecodingInv
<1>12. Decoder!LiteralCount = CountFor(1)
  BY <1>3, <1>5, CountSet
<1>13. /\ count' = Decoder!Decremented(CountFor(1))
       /\ IF Decoder!UnitDone(count')
            THEN /\ units' = units - 1
                 /\ label' = IF Decoder!MoreFlags(flags', units - 1)
                               THEN "test_flags" ELSE "decompression_loop"
            ELSE TRUE
  BY <1>1, <1>12 DEF Decoder!StoreByte
<1>14. /\ Decoder!UnitDone(count')
       /\ count' = IF port.length = "dbf"
                     THEN ByteValues * ByteValues - 1 ELSE 0
  BY <1>3, <1>13, CountsDown
<1>15. PICK e \in G : /\ e = After(g, 1, 1) /\ e.at = Len(Shown) + 1
                      /\ Ready(e, flags', units - 1, src + 1)
  BY <1>5, <1>7, <1>8, <1>9 DEF After
<1>16. Ready(e, flags, units, src)'
  <2>1. Ready(e, flags', units', src')
    BY <1>1, <1>13, <1>14, <1>15
  <2>2. QED
    BY <1>1, <2>1 DEF Ready, FlagsFor, Decoder!MoreFlags, Decoder!LoadedFlags
<1>17. Idle'
  BY <1>1, <1>14 DEF Idle
<1>18. label' = IF Decoder!MoreFlags(flags, units)'
                  THEN "test_flags" ELSE "decompression_loop"
  BY <1>1, <1>13, <1>14 DEF Decoder!MoreFlags
<1>19. Reading'
  BY <1>1, <1>2, <1>3, <1>4, <1>11, <1>15, <1>16, <1>17, <1>18, UnitEnds
<1>20. Codec!Literal
  <2>1. label' # "output_loop"
    BY <1>18
  <2>2. QED
    BY <1>1, <1>2, <1>10, <1>11, <2>1 DEF Codec!Literal
<1>21. QED
  BY <1>1, <1>2, <1>11, <1>19, <1>20 DEF Decodes, Codec!Next

\* The codec's invariant gives the byte that a pair copies.
LEMMA CopiesText ==
  ASSUME JobsSuit, DecodingInv, label = "output_loop",
         Decoder!BytesLeft(count) > 0
  PROVE  /\ ring[Decoder!PairPosition(pos)] = text[Len(Shown) + 1]
         /\ Len(Shown) < Len(text)
<1>1. CASE Cleared!IInv
  BY <1>1, ClearedAssumptions, Cleared!CopiesNextByte DEF Left
<1>2. CASE Plain!IInv
  BY <1>2, PlainAssumptions, Plain!CopiesNextByte DEF Left
<1>3. QED
  BY <1>1, <1>2 DEF DecodingInv

\* A pair is a match in the window.
LEMMA OffsetLengthDecodes ==
  ASSUME DecodingInv, JobsSuit, Decoder!OffsetLength, UNCHANGED vars
  PROVE  Decodes
<1>1. PICK w :
        /\ label = "test_flags" /\ src + 1 < Len(file) + 1
        /\ ~ Decoder!SaysLiteral(flags) /\ flags' = flags \div 2
        /\ w = file[src] + Decoder!ByteValues * file[src + 1]
        /\ pos' = w /\ count' = Decoder!PairCount(Decoder!PairLength(w))
        /\ src' = src + 2 /\ label' = "output_loop"
        /\ UNCHANGED <<port, file, units, store, ring, out>>
  BY DEF Decoder!OffsetLength, Decoder!LogoEnd
<1>2. UNCHANGED <<text, pc>> /\ Shown' = Shown
  BY <1>1 DEF vars, Shown
<1>3. /\ file \in Seq(Byte) /\ port \in Decoder!Traits /\ pc = "done"
      /\ Shown \in Seq(Byte) /\ text \in Seq(Byte)
  BY <1>1, ShownType DEF DecodingInv, Reading, Suits
<1>4. PICK G \in SUBSET Places : Parsed(file, G) /\ At(G)
  BY <1>1 DEF DecodingInv, Reading
<1>5. PICK g \in G : /\ src = g.src /\ Len(Shown) = g.at /\ Idle
                     /\ FlagsFor(g, flags, units)
  BY <1>1, <1>4 DEF At
<1>6. g.src <= Len(file) /\ g \in Places /\ src \in Nat /\ src > 0
  <2>1. g \in Places
    OBVIOUS
  <2>2. g.src <= Len(file) /\ g.src \in Nat
    BY <1>1, <1>3, <1>5, <2>1 DEF Places
  <2>3. g.flagged \in 1 .. g.src - 1
    BY <1>3, <1>4, <2>2 DEF Parsed, UnitAt
  <2>4. QED
    BY <1>5, <2>1, <2>2, <2>3
<1>7. PICK size \in 1..2, n \in 1..F :
        UnitAt(file, g, size, n) /\ After(g, size, n) \in G
  BY <1>3, <1>4, <1>6 DEF Parsed, Places
<1>8. /\ FlagAt(file, g) # 1
      /\ Ready(After(g, size, n), flags', units - 1, g.src + size)
  BY <1>1, <1>3, <1>5, <1>6, <1>7, GoesOn
<1>9. size = 2 /\ PairAt(file, g, n)
  BY <1>7, <1>8 DEF UnitAt, LiteralAt
<1>10. /\ w = file[g.src] + ByteValues * file[g.src + 1]
       /\ PairLength(w) = n /\ n \in Threshold+1 .. F
       /\ MatchAt(PairPosition(w), g.at, n)
  BY <1>1, <1>5, <1>9 DEF PairAt, Decoder!ByteValues, ByteValues
<1>11. PICK x \in Nodes : x = PairPosition(w) /\ x = Decoder!PairPosition(w)
  <2>1. PICK B \in Nat, a \in Nat, b \in Nat :
          B = ByteValues /\ a = file[g.src] /\ b = file[g.src + 1]
    <3>1. src + 1 \in 1 .. Len(file) /\ src \in 1 .. Len(file)
      BY <1>1, <1>3, <1>6
    <3>2. file[src] \in Byte /\ file[src + 1] \in Byte
      BY <1>3, <3>1
    <3>3. QED
      BY <1>5, <3>2, WireSizes DEF Byte
  <2>2. w \in Nat
    <3>1. B * b \in Nat
      OBVIOUS
    <3>2. QED
      BY <1>10, <2>1, <3>1
  <2>3. w % N \in 0 .. N-1
    BY <2>2
  <2>4. QED
    BY <2>3, WireAssumption DEF PairPosition, Decoder!PairPosition, Nodes
<1>12. /\ Codec!Distance(x, store) <= N - F
       /\ Len(Shown) + n <= Len(text)
       /\ \A j \in 1..n :
            text[Len(Shown) + j]
              = Source(Len(Shown) + j - Codec!Distance(x, store))
  BY <1>5, <1>10, <1>11 DEF MatchAt, DecodingInv
<1>13. Len(Shown) # 0 \/ port.length # "dbf"
  <2>1. SUFFICES ASSUME Len(Shown) = 0, port.length = "dbf" PROVE FALSE
    OBVIOUS
  <2>2. \A k \in 1 .. Len(text) : text[k] # FrequentChar
    BY <2>1 DEF DecodingInv, Suits
  <2>3. store \in Nodes
    BY <2>1, RingMoves DEF DecodingInv
  <2>4. PICK d \in Nat : d = Codec!Distance(x, store) /\ d >= 1
    <3>1. PICK z \in Nodes : z = store
      BY <2>3
    <3>2. Codec!Distance(x, z) \in Nat /\ Codec!Distance(x, z) >= 1
      BY DEF Codec!Distance, Nodes
    <3>3. QED
      BY <3>1, <3>2
  <2>5. text[1] = Source(1 - d) /\ 1 \in 1 .. Len(text)
    <3>1. 1 \in 1..n /\ 0 + 1 = 1
      OBVIOUS
    <3>2. text[0 + 1] = Source(0 + 1 - d)
      BY <1>12, <2>1, <2>4, <3>1
    <3>3. QED
      BY <1>3, <1>12, <2>1, <3>1, <3>2
  <2>6. Source(1 - d) = FrequentChar
    BY <2>4 DEF Source
  <2>7. QED
    BY <2>2, <2>5, <2>6
<1>14. count' = CountFor(n)
  <2>1. Decoder!PairLength(w) = n
    BY <1>10 DEF PairLength, Decoder!PairLength
  <2>2. QED
    BY <1>1, <1>3, <1>5, <1>13, <2>1, CountSet
<1>15. PICK e \in G : /\ e = After(g, 2, n) /\ e.at = Len(Shown) + n
                      /\ Ready(e, flags', units - 1, src + 2)
  BY <1>5, <1>7, <1>8, <1>9 DEF After
<1>16. At(G)'
  <2>1. Ready(e, flags', units' - 1, src')
    BY <1>1, <1>15
  <2>2. Ready(e, flags, units - 1, src)'
    BY <1>1, <2>1 DEF Ready, FlagsFor, Decoder!MoreFlags, Decoder!LoadedFlags
  <2>3. (count = CountFor(n))' /\ (Len(Shown) + n = e.at)'
    BY <1>1, <1>2, <1>14, <1>15 DEF CountFor
  <2>4. QED
    BY <1>1, <2>2, <2>3 DEF At
<1>17. Reading'
  BY <1>1, <1>2, <1>3, <1>4, <1>16, ParsedKept DEF Reading
<1>18. Codec!Pair(x, n)
  <2>1. Codec!ValidMatch(x, n)
    BY <1>12 DEF Codec!ValidMatch, Codec!Back, Codec!Source, Source
  <2>2. Decoder!BytesLeft(count)' = n
    <3>1. Decoder!BytesLeft(CountFor(n)) = n
      BY <1>3, CountsDown
    <3>2. QED
      BY <1>1, <1>14, <3>1 DEF Decoder!BytesLeft
  <2>3. Decoder!PairPosition(pos)' = x
    BY <1>1, <1>11 DEF Decoder!PairPosition
  <2>4. QED
    BY <1>1, <1>2, <2>1, <2>2, <2>3 DEF Codec!Pair
<1>19. Codec!Next
  <2>1. x \in Codec!Cells
    BY DEF Codec!Cells, Nodes
  <2>2. QED
    BY <1>10, <1>18, <2>1 DEF Codec!Next
<1>20. QED
  BY <1>1, <1>2, <1>17, <1>19 DEF Decodes, DecodingInv, RingAt

\* A byte of a pair is the next byte of the file.
LEMMA OutputLoopDecodes ==
  ASSUME DecodingInv, JobsSuit, Decoder!OutputLoop, UNCHANGED vars
  PROVE  Decodes
<1>1. /\ label = "output_loop" /\ pos' = Decoder!PairPosition(pos) + 1
      /\ Decoder!StoreByte(ring[Decoder!PairPosition(pos)], count, flags, units)
      /\ UNCHANGED <<port, file, src, flags>>
  BY DEF Decoder!OutputLoop
<1>2. UNCHANGED <<text, pc>>
  BY DEF vars
<1>3. /\ file \in Seq(Byte) /\ port \in Decoder!Traits /\ pc = "done"
      /\ Shown \in Seq(Byte) /\ Decoder!PairPosition(pos) \in Nodes
  BY <1>1, ShownType DEF DecodingInv, Reading, Suits
<1>4. PICK G \in SUBSET Places : Parsed(file, G) /\ At(G)
  BY <1>1 DEF DecodingInv, Reading
<1>5. PICK e \in G, n \in 1..F :
        /\ count = CountFor(n) /\ Len(Shown) + n = e.at
        /\ Ready(e, flags, units - 1, src)
  BY <1>1, <1>4 DEF At
<1>6. Decoder!BytesLeft(count) = n /\ n > 0
  BY <1>3, <1>5, CountsDown
<1>7. /\ ring[Decoder!PairPosition(pos)] = text[Len(Shown) + 1]
      /\ Len(Shown) < Len(text)
  BY <1>1, <1>6, CopiesText
<1>8. /\ Codec!StoreByte(text[Len(Shown) + 1])
      /\ Len(Shown)' = Len(Shown) + 1
      /\ (out \in Seq(Byte \cup {Linefeed, CarriageReturn}))'
      /\ (store = RingAt(Len(Shown)))'
  BY <1>1, <1>3, <1>7, StoreStep DEF DecodingInv
<1>9. /\ count' = Decoder!Decremented(CountFor(n))
      /\ IF Decoder!UnitDone(count')
           THEN /\ units' = units - 1
                /\ label' = IF Decoder!MoreFlags(flags, units - 1)
                              THEN "test_flags" ELSE "decompression_loop"
           ELSE units' = units /\ label' = "output_loop"
  BY <1>1, <1>5 DEF Decoder!StoreByte
<1>10. PICK k \in Nat : k = Len(Shown) /\ Len(Shown)' = k + 1
  BY <1>3, <1>8
<1>11. ASSUME n = 1
       PROVE  Reading' /\ Left' = n - 1
  <2>1. /\ Decoder!UnitDone(count')
        /\ count' = IF port.length = "dbf"
                      THEN ByteValues * ByteValues - 1 ELSE 0
    BY <1>3, <1>9, <1>11, CountsDown
  <2>2. Ready(e, flags, units, src)'
    <3>1. Ready(e, flags', units', src')
      BY <1>1, <1>5, <1>9, <2>1
    <3>2. QED
      BY <1>1, <3>1 DEF Ready, FlagsFor, Decoder!MoreFlags, Decoder!LoadedFlags
  <2>3. Idle'
    BY <1>1, <2>1 DEF Idle
  <2>4. label' = IF Decoder!MoreFlags(flags, units)'
                   THEN "test_flags" ELSE "decompression_loop"
    BY <1>1, <1>9, <2>1 DEF Decoder!MoreFlags
  <2>5. Len(Shown)' = e.at
    BY <1>5, <1>10, <1>11
  <2>6. Reading'
    BY <1>1, <1>2, <1>3, <1>4, <2>2, <2>3, <2>4, <2>5, UnitEnds
  <2>7. label' # "output_loop"
    BY <2>4
  <2>8. Left' = 0 /\ n - 1 = 0
    BY <1>11, <2>7 DEF Left
  <2>9. QED
    BY <2>6, <2>8
<1>12. ASSUME n # 1
       PROVE  Reading' /\ Left' = n - 1
  <2>1. /\ ~ Decoder!UnitDone(count') /\ count' = CountFor(n - 1)
        /\ n - 1 \in 1..F
    BY <1>3, <1>9, <1>12, CountsDown
  <2>2. label' = "output_loop" /\ units' = units
    BY <1>9, <2>1
  <2>3. Ready(e, flags, units - 1, src)'
    <3>1. Ready(e, flags', units' - 1, src')
      BY <1>1, <1>5, <2>2
    <3>2. QED
      BY <1>1, <3>1 DEF Ready, FlagsFor, Decoder!MoreFlags, Decoder!LoadedFlags
  <2>4. Len(Shown)' + (n - 1) = e.at
    BY <1>5, <1>10
  <2>5. (count = CountFor(n - 1))'
    BY <1>1, <2>1 DEF CountFor
  <2>6. At(G)'
    BY <2>1, <2>2, <2>3, <2>4, <2>5 DEF At
  <2>7. Reading'
    BY <1>1, <1>2, <1>3, <1>4, <2>2, <2>6, ParsedKept DEF Reading
  <2>8. Decoder!BytesLeft(count)' = n - 1
    <3>1. Decoder!BytesLeft(CountFor(n - 1)) = n - 1
      BY <1>3, <2>1, CountsDown
    <3>2. QED
      BY <1>1, <2>1, <3>1 DEF Decoder!BytesLeft
  <2>9. QED
    BY <2>2, <2>7, <2>8 DEF Left
<1>13. Reading' /\ Left' = n - 1 /\ Left = n
  BY <1>1, <1>6, <1>11, <1>12 DEF Left
<1>14. Codec!CopyByte
  <2>1. Decoder!PairPosition(pos)' = Codec!Succ(Decoder!PairPosition(pos))
    BY <1>1, WireAssumption DEF Decoder!PairPosition, Codec!Succ
  <2>2. QED
    BY <1>1, <1>2, <1>6, <1>7, <1>8, <1>13, <2>1 DEF Codec!CopyByte, Left
<1>15. QED
  BY <1>1, <1>2, <1>8, <1>13, <1>14 DEF Decodes, Codec!Next

\* The port before it is started: its ring is prepared, or does not matter.
LEMMA InitDecoding ==
  ASSUME JobsSuit, PipeInit
  PROVE  DecodingInv /\ Codec!Init /\ Copy!Init
<1>1. PICK job \in Jobs : text = job[1] /\ port = job[2]
  BY DEF PipeInit
<1>2. Suits(text, port) /\ text \in { j[1] : j \in Jobs }
  BY <1>1 DEF JobsSuit
<1>3. port \in Decoder!Traits /\ text \in Seq(Byte) /\ FrequentChar \in Byte
  BY <1>2, FileAssumption DEF Suits
<1>4. /\ src = 1 /\ pos = 0 /\ store = N - F /\ out = << >> /\ label = "start"
      /\ count \in IF port.length = "dbf" THEN Garbage ELSE {0}
  BY DEF PipeInit, Decoder!Prepared
<1>5. PICK g \in IF port.cleared THEN {0} ELSE Garbage :
        ring = [x \in 0 .. N-1 |-> g]
  BY DEF PipeInit, Decoder!Prepared
<1>6. g \in Byte
  <2>1. 0 \in Byte
    BY WireSizes DEF Byte
  <2>2. QED
    BY <2>1 DEF JobsSuit
<1>7. Shown = << >> /\ Len(Shown) = 0
  <2>1. Shown = << >>
    BY <1>4, WithoutNone DEF Shown
  <2>2. QED
    BY <2>1
<1>8. Decoder!PairPosition(pos) = 0 /\ Left = 0
  <2>1. 0 % N = 0
    OBVIOUS
  <2>2. QED
    BY <1>4, <2>1, WireAssumption DEF Decoder!PairPosition, Left
<1>9. store = RingAt(Len(Shown))
  BY <1>4, <1>7, RingMoves
<1>10. Reading
  <2>1. Idle
    BY <1>4, <1>7 DEF Idle, JobsSuit
  <2>2. QED
    BY <1>4, <1>7, <2>1 DEF Reading
<1>11. out \in Seq(Byte \cup {Linefeed, CarriageReturn})
  BY <1>4
<1>12. ring \in [0 .. N-1 -> Byte]
  BY <1>5, <1>6
<1>13. Codec!Init
  BY <1>2, <1>4, <1>7, <1>8, <1>12 DEF Codec!Init, Codec!Cells, Left
<1>14. Cleared!IInv \/ Plain!IInv
  <2>1. CASE port.cleared /\ FrequentChar = 0
    <3>1. \A x \in 0 .. N-F-1 : ring[x] = FrequentChar
      BY <1>5, <2>1
    <3>2. Cleared!Init
      BY <1>2, <1>4, <1>7, <1>8, <1>12, <3>1 DEF Cleared!Init, Cleared!Cells
    <3>3. QED
      BY <3>2, ClearedAssumptions, Cleared!InitIInv
  <2>2. CASE \A k \in 1 .. Len(text) : text[k] # FrequentChar
    <3>1. Plain!Init
      BY <1>2, <1>4, <1>7, <1>8, <1>12, <2>2 DEF Plain!Init, Plain!Cells
    <3>2. QED
      BY <3>1, PlainAssumptions, Plain!InitIInv
  <2>3. QED
    BY <1>2, <2>1, <2>2 DEF Suits
<1>15. Copy!Init
  BY <1>2, <1>7 DEF Copy!Init
<1>16. QED
  BY <1>2, <1>9, <1>10, <1>11, <1>13, <1>14, <1>15 DEF DecodingInv

\* A step of the whole pipeline.
LEMMA PipeDecodes ==
  ASSUME JobsSuit, ScanInv, CodingInv, DecodingInv, [PipeNext]_pipeVars
  PROVE  Decodes
<1>1. CASE Compress
  <2>1. UNCHANGED decoderVars /\ Next
    BY <1>1 DEF Compress
  <2>2. text' = text
    BY <2>1, PassedStays, PassedMoves
  <2>3. pc # "done"
    BY <2>1 DEF Next, Prime, InsertNode, InsertLeaf, InsertWalk, InsertReplace,
                DeleteNode, DeleteAbsent, DeleteNarrow, DeleteLeft,
                DeleteDescend, DeletePredecessor, DeleteBy, DeleteFrame,
                Encode, Shift, AdvanceByte, AdvanceEnd, Shifted, Flush
  <2>4. label = "start" /\ label' = "start"
    BY <2>1, <2>3 DEF DecodingInv, Reading, decoderVars
  <2>5. Shown' = Shown /\ Reading'
    BY <2>1, <2>4 DEF Shown, decoderVars, DecodingInv, Reading, Idle
  <2>6. UNCHANGED Codec!vars
    BY <2>1, <2>2, <2>4, <2>5 DEF Codec!vars, decoderVars, Decoder!PairPosition
  <2>7. QED
    BY <2>1, <2>2, <2>5, <2>6 DEF Decodes, DecodingInv, decoderVars, RingAt
<1>2. CASE Assemble
  <2>1. /\ pc = "done" /\ label = "start" /\ label' = "decompression_loop"
        /\ file' = outfile /\ UNCHANGED vars
        /\ UNCHANGED <<port, src, flags, units, pos, count, store, ring, out>>
    BY <1>2 DEF Assemble, Decoder!Load
  <2>2. UNCHANGED <<text, pc, outfile>> /\ Shown' = Shown
    BY <2>1 DEF vars, codeVars, Shown
  <2>3. PICK G \in SUBSET Places : Parsed(outfile, G)
    BY <2>1 DEF CodingInv
  <2>4. Parsed(file, G)'
    <3>1. ASSUME NEW g \in G, NEW size \in 1..2, NEW n \in 1..F,
                 UnitAt(outfile, g, size, n)
          PROVE  UnitAt(file, g, size, n)'
      BY <2>1, <2>2, <3>1 DEF UnitAt, LiteralAt, PairAt, MatchAt, Source
    <3>2. QED
      BY <2>1, <2>3, <3>1 DEF Parsed
  <2>5. FirstPlace \in G /\ src = 1 /\ Len(Shown) = 0 /\ Idle
    BY <2>1, <2>3 DEF DecodingInv, Reading, Parsed
  <2>6. FirstPlace.used = 0 /\ FirstPlace.flagged = 1 /\ FirstPlace.at = 0
    BY DEF FirstPlace
  <2>7. At(G)'
    BY <2>1, <2>2, <2>5, <2>6 DEF At, Idle
  <2>8. outfile \in Seq(Byte)
    BY DEF ScanInv, TypeOK
  <2>9. Reading'
    BY <2>1, <2>2, <2>4, <2>7, <2>8 DEF Reading
  <2>10. UNCHANGED Codec!vars
    BY <2>1, <2>2 DEF Codec!vars
  <2>11. QED
    BY <2>1, <2>2, <2>9, <2>10 DEF Decodes, DecodingInv, RingAt
<1>3. CASE Decompress
  <2>1. Decoder!Next /\ UNCHANGED vars
    BY <1>3 DEF Decompress
  <2>2. QED
    BY <2>1, LoadFlagsDecodes, FinishDecodes, DiscreteCharDecodes,
       OffsetLengthDecodes, OutputLoopDecodes DEF Decoder!Next
<1>4. CASE UNCHANGED pipeVars
  <2>1. UNCHANGED <<text, pc, port, file, src, flags, units, pos, count, store,
                    ring, out, label>>
    BY <1>4 DEF pipeVars, vars, decoderVars
  <2>2. Shown' = Shown
    BY <2>1 DEF Shown
  <2>3. Reading'
    <3>1. CASE label = "start"
      BY <2>1, <2>2, <3>1 DEF DecodingInv, Reading, Idle
    <3>2. CASE label # "start"
      <4>1. PICK G \in SUBSET Places :
              /\ Parsed(file, G) /\ At(G) /\ pc = "done" /\ file \in Seq(Byte)
        BY <3>2 DEF DecodingInv, Reading
      <4>2. At(G)'
        BY <2>1, <2>2, <4>1 DEF At, Idle, Ready, FlagsFor, CountFor,
                                Decoder!MoreFlags, Decoder!LoadedFlags
      <4>3. QED
        BY <2>1, <3>2, <4>1, <4>2, ParsedKept DEF Reading
    <3>3. QED
      BY <3>1, <3>2
  <2>4. UNCHANGED Codec!vars
    BY <2>1, <2>2 DEF Codec!vars, Decoder!PairPosition, Decoder!BytesLeft
  <2>5. QED
    BY <2>1, <2>2, <2>3, <2>4 DEF Decodes, DecodingInv, RingAt
<1>5. QED
  BY <1>1, <1>2, <1>3, <1>4 DEF PipeNext

\* The codec's invariant goes with its steps.
LEMMA DecodingStep ==
  ASSUME JobsSuit, DecodingInv, Decodes
  PROVE  DecodingInv'
<1>1. [Codec!Next]_(Codec!vars)
  BY DEF Decodes
<1>2. CASE Cleared!IInv
  <2>1. [Cleared!Next]_(Cleared!vars)
    BY <1>1 DEF Codec!Next, Codec!vars, Codec!Literal, Codec!Pair,
         Codec!CopyByte, Codec!StoreByte, Codec!ValidMatch, Codec!Succ,
         Codec!Cells, Codec!Source, Codec!Back, Codec!Distance, Left,
         Cleared!Next, Cleared!vars, Cleared!Literal, Cleared!Pair,
         Cleared!CopyByte, Cleared!StoreByte, Cleared!ValidMatch, Cleared!Succ,
         Cleared!Cells, Cleared!Source, Cleared!Back, Cleared!Distance
  <2>2. Cleared!IInv'
    BY <1>2, <2>1, ClearedAssumptions, Cleared!StepIInv
  <2>3. QED
    BY <2>2 DEF DecodingInv, Decodes, Suits
<1>3. CASE Plain!IInv
  <2>1. [Plain!Next]_(Plain!vars)
    BY <1>1 DEF Codec!Next, Codec!vars, Codec!Literal, Codec!Pair,
         Codec!CopyByte, Codec!StoreByte, Codec!ValidMatch, Codec!Succ,
         Codec!Cells, Codec!Source, Codec!Back, Codec!Distance, Left,
         Plain!Next, Plain!vars, Plain!Literal, Plain!Pair, Plain!CopyByte,
         Plain!StoreByte, Plain!ValidMatch, Plain!Succ, Plain!Cells,
         Plain!Source, Plain!Back, Plain!Distance
  <2>2. Plain!IInv'
    BY <1>3, <2>1, PlainAssumptions, Plain!StepIInv
  <2>3. QED
    BY <2>2 DEF DecodingInv, Decodes, Suits
<1>4. QED
  BY <1>2, <1>3 DEF DecodingInv

\* A step of the codec delivers the next byte of the file, or none.
LEMMA Delivers ==
  ASSUME JobsSuit, DecodingInv, Decodes
  PROVE  [Copy!Next]_(Copy!vars)
<1> USE DEF Copy!Next, Copy!Deliver, Copy!vars
<1>1. text' = text /\ [Codec!Next]_(Codec!vars)
  BY DEF Decodes
<1>2. CASE Codec!Literal
  BY <1>1, <1>2 DEF Codec!Literal, Codec!StoreByte
<1>3. ASSUME NEW x \in Codec!Cells, NEW n \in (Threshold+1) .. F,
             Codec!Pair(x, n)
      PROVE  UNCHANGED Copy!vars
  BY <1>1, <1>3 DEF Codec!Pair
<1>4. CASE Codec!CopyByte
  <2>1. /\ Left > 0
        /\ Shown' = Append(Shown, ring[Decoder!PairPosition(pos)])
    BY <1>4 DEF Codec!CopyByte, Codec!StoreByte, Left
  <2>2. label = "output_loop" /\ Decoder!BytesLeft(count) > 0
    BY <2>1 DEF Left
  <2>3. QED
    BY <1>1, <2>1, <2>2, CopiesText
<1>5. CASE UNCHANGED Codec!vars
  BY <1>5 DEF Codec!vars
<1>6. QED
  BY <1>1, <1>2, <1>3, <1>4, <1>5 DEF Codec!Next

-----------------------------------------------------------------------------
\* The compressor runs as on its own.
LEMMA PipeCompresses == PipeSafeSpec => SafeSpec
<1>1. PipeInit => Init
  BY DEF PipeInit
<1>2. [PipeNext]_pipeVars => [Next]_vars
  BY DEF PipeNext, pipeVars, Compress, Assemble, Decompress
<1>3. QED
  BY <1>1, <1>2, PTL DEF PipeSafeSpec, SafeSpec

\* The logo is put together from units, and taken apart into them.
LEMMA PipeInvariant ==
  ASSUME JobsSuit
  PROVE  PipeSafeSpec => [](ScanInv /\ CodingInv /\ DecodingInv)
<1>1. PipeInit => CodingInv /\ DecodingInv
  BY InitCoding, InitDecoding DEF PipeInit
<1>2. /\ ScanInv /\ MatchInv /\ CodingInv /\ DecodingInv
      /\ [PipeNext]_pipeVars /\ [Next]_vars
      => (CodingInv /\ DecodingInv)'
  BY CodingStep, PipeDecodes, DecodingStep
<1>3. [PipeNext]_pipeVars => [Next]_vars
  BY DEF PipeNext, pipeVars, Compress, Assemble, Decompress
<1>4. QED
  BY <1>1, <1>2, <1>3, PipeCompresses, ScanInvariant, MatchInvariant, PTL
     DEF PipeSafeSpec

(***************************************************************************)
(* Encoder and port together perform the codec: what lzss_encode_better    *)
(* writes, each port takes apart into literals and pairs that are the next *)
(* bytes of the file, however it keeps its flags and counts.               *)
(***************************************************************************)
THEOREM PipelinePerformsCodec ==
  ASSUME JobsSuit
  PROVE  PipeSpec => CodecPerformed
<1>1. PipeInit => Codec!Init
  BY InitDecoding
<1>2. /\ ScanInv /\ CodingInv /\ DecodingInv /\ [PipeNext]_pipeVars
      => [Codec!Next]_(Codec!vars)
  BY PipeDecodes DEF Decodes
<1>3. QED
  BY <1>1, <1>2, PipeInvariant, PTL
     DEF PipeSpec, PipeSafeSpec, CodecPerformed, Codec!SafeSpec

(***************************************************************************)
(* What a port has written is at any time the beginning of the file that   *)
(* was compressed, and each step adds the next byte of it or nothing.      *)
(***************************************************************************)
THEOREM PipelineCopiesLogo ==
  ASSUME JobsSuit
  PROVE  PipeSpec => LogoCopied
<1>1. PipeInit => Copy!Init
  BY InitDecoding
<1>2. /\ ScanInv /\ CodingInv /\ DecodingInv /\ [PipeNext]_pipeVars
      => [Copy!Next]_(Copy!vars)
  BY PipeDecodes, Delivers
<1>3. QED
  BY <1>1, <1>2, PipeInvariant, PTL
     DEF PipeSpec, PipeSafeSpec, LogoCopied, Copy!SafeSpec

=============================================================================
