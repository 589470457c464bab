-------------------------- MODULE NumToAsciiProofs --------------------------
(***************************************************************************)
(* The divisions of num_to_ascii are exact for words of every width.  The  *)
(* multiplication by a rounded tenth needs a small number, or the          *)
(* correction that ll.arm.eabi.s makes and ll.thumb2.s does not.           *)
(***************************************************************************)
EXTENDS NumToAscii, SequenceTheorems, WellFoundedInduction, TLAPS

\* Of a word, what the divisions need.
LEMMA WordIs == Half \in Nat \ {0} /\ Word = Half * Half /\ Word % 20 = 16
BY WordAssumption

USE WordIs

-----------------------------------------------------------------------------
\* A quotient is known from the interval its dividend lies in.
LEMMA QuotientIs ==
  ASSUME NEW b \in Nat \ {0}, NEW q \in Nat, NEW rest \in 0 .. b - 1
  PROVE  (q * b + rest) \div b = q
OBVIOUS

LEMMA WordShape ==
  \E j \in Nat : /\ Word = 20 * j + 16
                 /\ Tenth = 2 * j + 2
                 /\ Word \div 4 = 5 * j + 4
<1>1. Word \in Nat
  OBVIOUS
<1> DEFINE j == Word \div 20
<1>2. j \in Nat /\ Word = 20 * j + 16
  BY <1>1
<1> HIDE DEF j
<1>3. /\ Tenth = 2 * j + 2
      /\ Word \div 4 = 5 * j + 4
  BY <1>2 DEF Tenth
<1>4. QED
  BY <1>2, <1>3

LEMMA TenthTimes ==
  ASSUME NEW j \in Nat, Tenth = 2 * j + 2, Word = 20 * j + 16,
         NEW n \in Nat, NEW k \in 0 .. 3
  PROVE  \E q \in Nat, r \in 0 .. 9 :
           /\ n = 10 * q + r
           /\ q = n \div 10
           /\ (n - k) * Tenth = q * Word + (4 * q + (r - k) * Tenth)
<1> DEFINE q == n \div 10
           r == n % 10
<1>1. q \in Nat /\ r \in 0 .. 9 /\ n = 10 * q + r
  OBVIOUS
<1>2. q = n \div 10
  OBVIOUS
<1> HIDE DEF q, r
<1>3. (n - k) * Tenth = 10 * q * Tenth + (r - k) * Tenth
  BY <1>1
<1>4. 10 * Tenth = Word + 4 /\ Tenth \in Nat /\ Word \in Nat
  OBVIOUS
<1>5. 10 * q * Tenth = q * Word + 4 * q
  BY <1>1, <1>4
<1>6. QED
  BY <1>1, <1>2, <1>3, <1>4, <1>5

\* The product with the tenth, of a number that is small.
LEMMA ReciprocalExact ==
  ASSUME NEW n \in Nat, 4 * n < Word
  PROVE  (n * Tenth) \div Word = n \div 10
<1>1. PICK j \in Nat : Tenth = 2 * j + 2 /\ Word = 20 * j + 16
  BY WordShape
<1>2. PICK q \in Nat, r \in 0 .. 9 :
        /\ n = 10 * q + r
        /\ q = n \div 10
        /\ (n - 0) * Tenth = q * Word + (4 * q + (r - 0) * Tenth)
  BY <1>1, TenthTimes
<1>3. 4 * q + r * Tenth \in 0 .. Word - 1
  BY <1>1, <1>2
<1>4. n * Tenth = q * Word + (4 * q + r * Tenth)
  BY <1>2
<1>5. Word \in Nat \ {0}
  BY <1>1
<1>6. (q * Word + (4 * q + r * Tenth)) \div Word = q
  BY <1>3, <1>5, QuotientIs
<1>7. QED
  BY <1>2, <1>4, <1>6

\* The product with the tenth, of the number less its upper two bits.
LEMMA CorrectedExact ==
  ASSUME NEW n \in Words
  PROVE  ((n - n \div (Word \div 4)) * Tenth) \div Word = n \div 10
<1>1. PICK j \in Nat : /\ Tenth = 2 * j + 2
                       /\ Word = 20 * j + 16
                       /\ Word \div 4 = 5 * j + 4
  BY WordShape
<1> DEFINE k == n \div (Word \div 4)
           s == n % (Word \div 4)
<1>2. n \in Nat /\ n < 20 * j + 16
  BY <1>1 DEF Words
<1>3. /\ k \in 0 .. 3
      /\ s \in 0 .. 5 * j + 3
      /\ n = k * (5 * j + 4) + s
  BY <1>1, <1>2
<1> HIDE DEF k, s
<1>4. PICK q \in Nat, r \in 0 .. 9 :
        /\ n = 10 * q + r
        /\ q = n \div 10
        /\ (n - k) * Tenth = q * Word + (4 * q + (r - k) * Tenth)
  BY <1>1, <1>2, <1>3, TenthTimes
<1>5. 4 * q + (r - k) * Tenth \in 0 .. Word - 1
  BY <1>1, <1>3, <1>4
<1>6. Word \in Nat \ {0}
  BY <1>1
<1>7. (q * Word + (4 * q + (r - k) * Tenth)) \div Word = q
  BY <1>5, <1>6, QuotientIs
<1>8. QED
  BY <1>4, <1>7 DEF k

\* Whatever the way of dividing, the quotient is a tenth.
LEMMA QuotientExact ==
  ASSUME NEW m, NEW n \in Words, m = "reciprocal" => 4 * n < Word
  PROVE  Quotient(m, n) = n \div 10
BY ReciprocalExact, CorrectedExact DEF Quotient, Words

-----------------------------------------------------------------------------
\* What is to be divided is no larger than the number was.
Shrinking ==
  pc = "div_by_10" =>
    /\ num \in Words
    /\ port.method = "reciprocal" => 4 * num < Word

LEMMA ShrinkingInductive ==
  ASSUME Shrinking, [Next]_vars
  PROVE  Shrinking'
<1>1. CASE DivBy10
  <2>1. /\ num \in Words
        /\ port.method = "reciprocal" => 4 * num < Word
        /\ num' = Quotient(port.method, num)
        /\ port' = port
    BY <1>1 DEF DivBy10, Shrinking
  <2>2. num' = num \div 10
    BY <2>1, QuotientExact
  <2>3. num' \in Words /\ num' <= num
    BY <2>1, <2>2 DEF Words
  <2>4. QED
    BY <2>1, <2>3 DEF Shrinking, Words
<1>2. CASE DivideBadly
  BY <1>2 DEF DivideBadly, Shrinking
<1>3. CASE HandleDigit
  BY <1>3 DEF HandleDigit, Shrinking
<1>4. CASE UNCHANGED vars
  BY <1>4 DEF vars, Shrinking
<1>5. QED
  BY <1>1, <1>2, <1>3, <1>4 DEF Next

LEMMA ShrinkingHolds == ASSUME Served PROVE Spec => []Shrinking
<1>1. Init => Shrinking
  BY JobsAssumption DEF Init, Shrinking, Served
<1>2. Shrinking /\ [Next]_vars => Shrinking'
  BY ShrinkingInductive
<1>3. QED
  BY <1>1, <1>2, PTL DEF Spec

(***************************************************************************)
(* Every way of dividing leaves a tenth of the number, for words of every  *)
(* width and all numbers of that width, if the multiplication without the  *)
(* correction, of ll.thumb2.s, is given numbers below a quarter only.      *)
(***************************************************************************)
THEOREM DivisionsExact == ASSUME Served PROVE Spec => DividesByTen
<1>1. Shrinking /\ [Next]_vars =>
        [pc = "div_by_10" /\ pc' # "wrong" => num' = num \div 10]_vars
  <2>1. ASSUME Shrinking, DivBy10
        PROVE  num' = num \div 10
    BY <2>1, QuotientExact DEF DivBy10, Shrinking
  <2>2. QED
    BY <2>1 DEF Next, DivideBadly, HandleDigit
<1>2. QED
  BY <1>1, ShrinkingHolds, PTL DEF Spec, DividesByTen
-----------------------------------------------------------------------------
HIDE WordIs

(* What digits denote.                                                     *)

\* Induction, for what can be said with a set.
LEMMA LeastNumber ==
  ASSUME NEW S \in SUBSET Nat, S # {}
  PROVE  \E n \in S : \A m \in S : n <= m
<1>1. PICK n \in S : \A m \in S : ~ (<<m, n>> \in OpToRel(<, Nat))
  BY NatLessThanWellFounded, WFMin
<1>2. ASSUME NEW m \in S PROVE n <= m
  <2>1. ~ (m < n)
    BY <1>1 DEF OpToRel
  <2>2. QED
    BY <2>1
<1>3. QED
  BY <1>2

\* The numbers read from i digits ds, if x was read before them.
Reads(f, x, ds) ==
  /\ f \in [0 .. Len(ds) -> Nat]
  /\ f[0] = x
  /\ \A i \in 1 .. Len(ds) : f[i] = 10 * f[i - 1] + ds[i]

\* Numbers can be read from every sequence of digits.
LEMMA ReadingExists ==
  ASSUME NEW ds \in Seq(0 .. 9), NEW x \in Nat
  PROVE  \E f : Reads(f, x, ds)
<1> DEFINE Upto(n, f) == /\ f \in [0 .. n -> Nat]
                         /\ f[0] = x
                         /\ \A i \in 1 .. n : f[i] = 10 * f[i - 1] + ds[i]
           S == { n \in 0 .. Len(ds) : ~ \E f : Upto(n, f) }
<1>1. SUFFICES ASSUME S # {} PROVE FALSE
  BY DEF Reads
<1>2. PICK n \in S : \A m \in S : n <= m
  <2>1. S \in SUBSET Nat
    OBVIOUS
  <2>2. QED
    BY <1>1, <2>1, LeastNumber
<1>3. n \in 0 .. Len(ds) /\ ~ \E f : Upto(n, f)
  OBVIOUS
<1>4. CASE n = 0
  <2>1. Upto(0, [i \in 0 .. 0 |-> x])
    OBVIOUS
  <2>2. QED
    BY <1>3, <1>4, <2>1
<1>5. CASE n # 0
  <2>1. n - 1 \in 0 .. Len(ds) /\ n \in 1 .. Len(ds)
    BY <1>3, <1>5
  <2>2. n - 1 \notin S
    <3> HIDE DEF S
    <3>1. ~ (n <= n - 1)
      BY <1>3
    <3>2. QED
      BY <1>2, <3>1
  <2>3. \E f : Upto(n - 1, f)
    <3> HIDE DEF Upto
    <3>1. QED
      BY <2>1, <2>2
  <2> PICK f : Upto(n - 1, f)
    BY <2>3
  <2>4. ds[n] \in 0 .. 9
    BY <2>1
  <2>5. f[n - 1] \in Nat
    BY <2>1
  <2> DEFINE g == [i \in 0 .. n |-> IF i = n THEN 10 * f[n - 1] + ds[n] ELSE f[i]]
  <2>6. g \in [0 .. n -> Nat]
    <3>1. \A i \in 0 .. n : i # n => i \in 0 .. n - 1
      BY <1>3
    <3>2. \A i \in 0 .. n - 1 : f[i] \in Nat
      OBVIOUS
    <3>3. 10 * f[n - 1] + ds[n] \in Nat
      BY <2>4, <2>5
    <3>4. QED
      BY <3>1, <3>2, <3>3
  <2>7. g[0] = x
    BY <1>3, <1>5
  <2>8. ASSUME NEW i \in 1 .. n PROVE g[i] = 10 * g[i - 1] + ds[i]
    BY <1>3
  <2>9. QED
    BY <1>3, <2>6, <2>7, <2>8
<1>6. QED
  BY <1>4, <1>5

\* Only one number can be read.
LEMMA ReadingUnique ==
  ASSUME NEW ds \in Seq(0 .. 9), NEW es \in Seq(0 .. 9),
         NEW x \in Nat, NEW y \in Nat, NEW s \in Nat,
         NEW f, NEW g, Reads(f, x, ds), Reads(g, y, es),
         s + Len(es) <= Len(ds),
         f[s] = y,
         \A i \in 1 .. Len(es) : es[i] = ds[s + i]
  PROVE  \A i \in 0 .. Len(es) : g[i] = f[s + i]
<1> DEFINE S == { i \in 0 .. Len(es) : g[i] # f[s + i] }
<1>1. SUFFICES ASSUME S # {} PROVE FALSE
  OBVIOUS
<1>2. PICK n \in S : \A m \in S : n <= m
  <2>1. S \in SUBSET Nat
    OBVIOUS
  <2>2. QED
    BY <1>1, <2>1, LeastNumber
<1>3. n \in 0 .. Len(es) /\ g[n] # f[s + n]
  OBVIOUS
<1>4. n # 0
  BY <1>3 DEF Reads
<1>5. n - 1 \in 0 .. Len(es) /\ n \in 1 .. Len(es)
  BY <1>3, <1>4
<1>6. g[n - 1] = f[s + (n - 1)]
  BY <1>2, <1>3, <1>5
<1>7. g[n] = 10 * g[n - 1] + es[n]
  BY <1>5 DEF Reads
<1>8. s + n \in 1 .. Len(ds)
  BY <1>5
<1>9. f[s + n] = 10 * f[(s + n) - 1] + ds[s + n]
  BY <1>8 DEF Reads
<1>10. (s + n) - 1 = s + (n - 1)
  BY <1>5
<1>11. es[n] = ds[s + n]
  BY <1>5
<1>12. QED
  BY <1>3, <1>6, <1>7, <1>9, <1>10, <1>11

\* The number that digits denote if x was read before them.
After(x, ds) == (CHOOSE f : Reads(f, x, ds))[Len(ds)]

LEMMA AfterIs ==
  ASSUME NEW ds \in Seq(0 .. 9), NEW x \in Nat, NEW f, Reads(f, x, ds)
  PROVE  After(x, ds) = f[Len(ds)]
<1> DEFINE g == CHOOSE h : Reads(h, x, ds)
<1>1. Reads(g, x, ds)
  OBVIOUS
<1> HIDE DEF g
<1>2. f[0] = x
  BY DEF Reads
<1>3. \A i \in 0 .. Len(ds) : g[i] = f[0 + i]
  BY <1>1, <1>2, ReadingUnique
<1>4. g[Len(ds)] = f[0 + Len(ds)]
  BY <1>3
<1>5. QED
  BY <1>4 DEF g, After

LEMMA DenotedIs ==
  ASSUME NEW ds \in Seq(0 .. 9)
  PROVE  Denoted(ds) = After(0, ds)
<1> DEFINE Body(f) == [i \in 0 .. Len(ds) |->
                         IF i = 0 THEN 0 ELSE 10 * f[i - 1] + ds[i]]
           read == CHOOSE f : f = Body(f)
<1>1. PICK g : Reads(g, 0, ds)
  BY ReadingExists
<1>2. g = Body(g)
  BY <1>1 DEF Reads
<1>3. read = Body(read)
  BY <1>2
<1>4. Denoted(ds) = read[Len(ds)]
  BY DEF Denoted
<1> HIDE DEF read
<1>5. \A i \in 0 .. Len(ds) : read[i] = g[i]
  <2> DEFINE S == { i \in 0 .. Len(ds) : read[i] # g[i] }
  <2>1. SUFFICES ASSUME S # {} PROVE FALSE
    OBVIOUS
  <2>2. PICK n \in S : \A m \in S : n <= m
    <3>1. S \in SUBSET Nat
      OBVIOUS
    <3>2. QED
      BY <2>1, <3>1, LeastNumber
  <2>3. n \in 0 .. Len(ds) /\ read[n] # g[n]
    OBVIOUS
  <2>4. read[n] = IF n = 0 THEN 0 ELSE 10 * read[n - 1] + ds[n]
    BY <1>3, <2>3
  <2>5. g[n] = IF n = 0 THEN 0 ELSE 10 * g[n - 1] + ds[n]
    BY <1>1, <2>3 DEF Reads
  <2>6. n # 0 => read[n - 1] = g[n - 1]
    BY <2>2, <2>3
  <2>7. QED
    BY <2>3, <2>4, <2>5, <2>6
<1>6. Len(ds) \in 0 .. Len(ds)
  OBVIOUS
<1>7. QED
  BY <1>1, <1>4, <1>5, <1>6, AfterIs

LEMMA AfterNone == ASSUME NEW x \in Nat PROVE After(x, << >>) = x
<1> DEFINE ds == << >>
<1>1. ds \in Seq(0 .. 9) /\ Len(ds) = 0
  OBVIOUS
<1> HIDE DEF ds
<1>2. PICK f : Reads(f, x, ds)
  BY <1>1, ReadingExists
<1>3. After(x, ds) = f[Len(ds)]
  BY <1>1, <1>2, AfterIs
<1>4. f[0] = x
  BY <1>2 DEF Reads
<1>5. QED
  BY <1>1, <1>3, <1>4 DEF ds

\* A digit before the others is read as part of the number before them.
LEMMA AfterFirst ==
  ASSUME NEW ds \in Seq(0 .. 9), NEW x \in Nat, NEW d \in 0 .. 9
  PROVE  /\ <<d>> \o ds \in Seq(0 .. 9)
         /\ Len(<<d>> \o ds) = Len(ds) + 1
         /\ Head(<<d>> \o ds) = d
         /\ After(x, <<d>> \o ds) = After(10 * x + d, ds)
<1> DEFINE es == <<d>> \o ds
<1>1. /\ es \in Seq(0 .. 9)
      /\ Len(es) = Len(ds) + 1
      /\ es[1] = d
      /\ \A i \in 1 .. Len(ds) : ds[i] = es[1 + i]
  OBVIOUS
<1>2. Head(es) = d
  BY <1>1
<1> HIDE DEF es
<1>3. PICK f : Reads(f, x, es)
  BY <1>1, ReadingExists
<1> DEFINE y == 10 * x + d
<1>4. y \in Nat
  OBVIOUS
<1>5. f[1] = y
  <2>1. 1 \in 1 .. Len(es)
    BY <1>1
  <2>2. f[1] = 10 * f[1 - 1] + es[1] /\ f[0] = x
    BY <1>3, <2>1 DEF Reads
  <2>3. QED
    BY <1>1, <2>2
<1> HIDE DEF y
<1>6. PICK g : Reads(g, y, ds)
  BY <1>4, ReadingExists
<1>7. \A i \in 0 .. Len(ds) : g[i] = f[1 + i]
  <2>1. 1 + Len(ds) <= Len(es)
    BY <1>1
  <2>2. \A i \in 1 .. Len(ds) : ds[i] = es[1 + i]
    BY <1>1
  <2>3. es \in Seq(0 .. 9) /\ 1 \in Nat
    BY <1>1
  <2>4. QED
    BY <1>3, <1>4, <1>5, <1>6, <2>1, <2>2, <2>3, ReadingUnique
<1>8. After(x, es) = f[Len(es)] /\ After(y, ds) = g[Len(ds)]
  BY <1>1, <1>3, <1>4, <1>6, AfterIs
<1>9. g[Len(ds)] = f[1 + Len(ds)] /\ 1 + Len(ds) = Len(es)
  BY <1>1, <1>7
<1>10. After(x, es) = After(y, ds)
  BY <1>8, <1>9
<1>11. QED
  BY <1>1, <1>2, <1>10 DEF es, y

\* A digit behind the others.
LEMMA AfterLast ==
  ASSUME NEW ds \in Seq(0 .. 9), NEW d \in 0 .. 9
  PROVE  /\ Append(ds, d) \in Seq(0 .. 9)
         /\ Len(Append(ds, d)) = Len(ds) + 1
         /\ ds # << >> => Head(Append(ds, d)) = Head(ds)
         /\ ds = << >> => Head(Append(ds, d)) = d
         /\ After(0, ds) \in Nat
         /\ After(0, Append(ds, d)) = 10 * After(0, ds) + d
<1> DEFINE es == Append(ds, d)
<1>1. /\ es \in Seq(0 .. 9)
      /\ Len(es) = Len(ds) + 1
      /\ es[Len(ds) + 1] = d
      /\ \A i \in 1 .. Len(ds) : ds[i] = es[i]
  OBVIOUS
<1>2. /\ ds # << >> => Head(es) = Head(ds)
      /\ ds = << >> => Head(es) = d
  <2>1. ds # << >> => Len(ds) > 0
    OBVIOUS
  <2>2. QED
    BY <1>1, <2>1
<1> HIDE DEF es
<1>3. PICK f : Reads(f, 0, es)
  BY <1>1, ReadingExists
<1>4. PICK g : Reads(g, 0, ds)
  BY ReadingExists
<1>5. \A i \in 0 .. Len(ds) : g[i] = f[0 + i]
  <2>1. f[0] = 0
    BY <1>3 DEF Reads
  <2>2. \A i \in 1 .. Len(ds) : ds[i] = es[0 + i]
    BY <1>1
  <2>3. 0 + Len(ds) <= Len(es)
    BY <1>1
  <2>4. QED
    BY <1>1, <1>3, <1>4, <2>1, <2>2, <2>3, ReadingUnique
<1>6. g[Len(ds)] = f[Len(ds)] /\ g[Len(ds)] \in Nat
  BY <1>4, <1>5 DEF Reads
<1>7. f[Len(es)] = 10 * f[Len(ds)] + d
  <2>1. Len(es) \in 1 .. Len(es)
    BY <1>1
  <2>2. f[Len(es)] = 10 * f[Len(es) - 1] + es[Len(es)]
    BY <1>3, <2>1 DEF Reads
  <2>3. QED
    BY <1>1, <2>2
<1>8. After(0, ds) = g[Len(ds)] /\ After(0, es) = f[Len(es)]
  BY <1>1, <1>3, <1>4, AfterIs
<1>9. QED
  BY <1>1, <1>2, <1>6, <1>7, <1>8 DEF es

-----------------------------------------------------------------------------
(* The digits and the buffer.                                              *)

\* The powers of ten up to the one behind the largest word.
LEMMA TensPositive ==
  ASSUME NEW k \in 0 .. Places
  PROVE  10^k \in Nat \ {0}
<1> DEFINE S == { n \in 0 .. Places : 10^n \notin Nat \ {0} }
<1>1. SUFFICES ASSUME S # {} PROVE FALSE
  OBVIOUS
<1>2. PICK n \in S : \A m \in S : n <= m
  <2>1. S \in SUBSET Nat
    OBVIOUS
  <2>2. QED
    BY <1>1, <2>1, LeastNumber
<1>3. n \in 0 .. Places /\ 10^n \notin Nat \ {0}
  OBVIOUS
<1>4. CASE n = 0
  BY <1>3, <1>4, TensAssumption
<1>5. CASE n # 0
  <2>1. n - 1 \in 0 .. Places-1 /\ n - 1 \in 0 .. Places /\ (n - 1) + 1 = n
    BY <1>3, <1>5, WordAssumption
  <2>2. 10^(n - 1) \in Nat \ {0}
    BY <1>2, <2>1
  <2>3. 10^n = 10 * 10^(n - 1)
    BY <2>1, TensAssumption
  <2>4. QED
    BY <1>3, <2>2, <2>3
<1>6. QED
  BY <1>4, <1>5

\* They increase.
LEMMA TensIncrease ==
  ASSUME NEW k \in 0 .. Places, NEW n \in 0 .. Places, n <= k
  PROVE  10^n <= 10^k
<1> DEFINE S == { m \in 0 .. Places : n <= m /\ ~ (10^n <= 10^m) }
<1>1. SUFFICES ASSUME S # {} PROVE FALSE
  OBVIOUS
<1>2. PICK m \in S : \A i \in S : m <= i
  <2>1. S \in SUBSET Nat
    OBVIOUS
  <2>2. QED
    BY <1>1, <2>1, LeastNumber
<1>3. m \in 0 .. Places /\ n <= m /\ ~ (10^n <= 10^m)
  OBVIOUS
<1>4. 10^n \in Nat
  BY TensPositive
<1>5. CASE m = n
  BY <1>3, <1>4, <1>5
<1>6. CASE m # n
  <2>1. /\ m - 1 \in 0 .. Places-1 /\ m - 1 \in 0 .. Places
        /\ (m - 1) + 1 = m /\ n <= m - 1
    BY <1>3, <1>6, WordAssumption
  <2>2. 10^n <= 10^(m - 1)
    BY <1>2, <2>1
  <2>3. 10^m = 10 * 10^(m - 1) /\ 10^(m - 1) \in Nat
    BY <2>1, TensAssumption, TensPositive
  <2>4. QED
    BY <1>3, <1>4, <2>2, <2>3
<1>7. QED
  BY <1>5, <1>6

\* What is left of the number goes on with the digits that are stored, and no
\* digit is stored before zeros only.
DivisionInv ==
  pc = "div_by_10" =>
    /\ digits # << >> => num > 0
    /\ After(num, digits) = value
    /\ num * 10^Len(digits) <= value

\* The digits before the next power of ten are done, and begin with no zero.
PowerInv ==
  pc = "big_loop" =>
    \E j \in Nat :
      /\ power = 10^j
      /\ j + Len(digits) < Places
      /\ num \in Nat /\ num < 10 * power
      /\ value = 10 * power * After(0, digits) + num
      /\ digits # << >> =>
           /\ Head(digits) # 0
           /\ 10^(j + Len(digits)) <= value

DigitsInv ==
  /\ <<port, value>> \in Jobs
  /\ digits \in Seq(0 .. 9)
  /\ Shrinking
  /\ DivisionInv
  /\ PowerInv
  /\ BufferFits
  /\ DigitsRight

\* Where the digits found so far are fewer than the number has, there is room.
LEMMA RoomLeft ==
  ASSUME Fitting, <<port, value>> \in Jobs, NEW k \in Nat,
         k <= Room(port), 10^k <= value
  PROVE  k + 1 <= Room(port) /\ k \in 0 .. Places-1
<1>1. /\ port \in Traits /\ value \in Words
      /\ Room(port) > 0 /\ value < 10^Room(port)
  BY JobsAssumption DEF Fitting
<1>2. Room(port) \in 0 .. Places /\ Places \in Nat
  BY <1>1, WordAssumption DEF Room, Traits
<1>3. k \in 0 .. Places /\ value \in Nat
  BY <1>1, <1>2, WordIs DEF Words
<1>4. k # Room(port)
  BY <1>1, <1>2, <1>3, TensPositive
<1>5. QED
  BY <1>2, <1>3, <1>4

LEMMA InitDigits == ASSUME Served, Fitting PROVE Init => DigitsInv
<1> SUFFICES ASSUME Init PROVE DigitsInv
  OBVIOUS
<1>1. PICK job \in Jobs : port = job[1] /\ value = job[2]
  BY DEF Init
<1>2. /\ <<port, value>> \in Jobs
      /\ port \in Traits /\ value \in Words
      /\ Room(port) > 0 /\ value < 10^Room(port)
  BY <1>1, JobsAssumption DEF Fitting
<1>3. value \in Nat /\ Places \in Nat \ {0}
  BY <1>2, WordAssumption, WordIs DEF Words
<1>4. num = value /\ digits = << >> /\ digits \in Seq(0 .. 9) /\ Len(digits) = 0
  BY DEF Init
<1>5. After(num, digits) = value /\ After(0, digits) = 0
  BY <1>3, <1>4, AfterNone
<1>6. Shrinking
  BY <1>1, <1>2, <1>4 DEF Shrinking, Served
<1>7. DivisionInv
  BY <1>3, <1>4, <1>5, TensAssumption DEF DivisionInv
<1>8. PowerInv
  <2>1. Places - 1 \in 0 .. Places-1 /\ (Places - 1) + 1 = Places
    BY <1>3
  <2>2. 10^Places = 10 * 10^(Places - 1) /\ 10^(Places - 1) \in Nat
    BY <2>1, TensAssumption, TensPositive
  <2>3. value < 10^Places
    BY <1>2, <1>3, <2>2, WordAssumption DEF Words
  <2>4. power = 10^(Places - 1)
    BY DEF Init
  <2>5. QED
    BY <1>3, <1>4, <1>5, <2>1, <2>2, <2>3, <2>4 DEF PowerInv
<1>9. BufferFits
  BY <1>2, <1>4, WordAssumption DEF BufferFits, Room, Traits
<1>10. DigitsRight
  BY DEF Init, DigitsRight
<1>11. QED
  BY <1>2, <1>4, <1>6, <1>7, <1>8, <1>9, <1>10 DEF DigitsInv

\* A division by ten moves a digit from the number to those stored.
LEMMA DivisionStep ==
  ASSUME Fitting, DigitsInv, DivBy10
  PROVE  DigitsInv'
<1> DEFINE q == num \div 10
           d == num - 10 * q
<1>1. /\ <<port, value>> \in Jobs /\ digits \in Seq(0 .. 9)
      /\ pc = "div_by_10" /\ num \in Words
      /\ port' = port /\ value' = value
      /\ digits # << >> => num > 0
      /\ After(num, digits) = value
      /\ num * 10^Len(digits) <= value
      /\ Len(digits) <= Room(port)
  BY DEF DigitsInv, DivBy10, Shrinking, DivisionInv, BufferFits
<1>2. num \in Nat /\ value \in Nat /\ port \in Traits /\ Room(port) > 0
  BY <1>1, JobsAssumption, WordIs DEF Words, Fitting
<1>3. Quotient(port.method, num) = q
  BY <1>1, QuotientExact DEF DigitsInv, Shrinking
<1>4. /\ num' = q
      /\ digits' = <<d>> \o digits
      /\ pc' = IF q = 0 THEN "write_out" ELSE "div_by_10"
  BY <1>3 DEF DivBy10
<1>5. q \in Nat /\ d \in 0 .. 9 /\ num = 10 * q + d
  BY <1>2
<1> HIDE DEF q, d
<1>6. /\ digits' \in Seq(0 .. 9)
      /\ Len(digits') = Len(digits) + 1
      /\ Head(digits') = d
      /\ After(q, digits') = After(num, digits)
  <2>1. 10 * q + d = num
    BY <1>5
  <2>2. /\ <<d>> \o digits \in Seq(0 .. 9)
        /\ Len(<<d>> \o digits) = Len(digits) + 1
        /\ Head(<<d>> \o digits) = d
        /\ After(q, <<d>> \o digits) = After(10 * q + d, digits)
    BY <1>1, <1>5, AfterFirst
  <2>3. QED
    BY <1>4, <2>1, <2>2
<1>7. digits = << >> \/ Len(digits) > 0
  BY <1>1
<1>8. /\ Len(digits) + 1 <= Room(port)
      /\ Len(digits) \in 0 .. Places-1
  <2>1. Room(port) <= Places /\ Places \in Nat
    BY <1>2, WordAssumption DEF Room, Traits
  <2>2. CASE digits = << >>
    BY <1>2, <2>1, <2>2 DEF Room, Traits
  <2>3. CASE digits # << >>
    <3>1. Len(digits) \in 0 .. Places
      BY <1>1, <1>2, <2>1 DEF Room, Traits
    <3>2. 10^Len(digits) \in Nat /\ num >= 1
      BY <1>1, <1>2, <2>3, <3>1, TensPositive
    <3>3. 10^Len(digits) <= num * 10^Len(digits)
      BY <1>2, <3>2
    <3>4. 10^Len(digits) <= value
      BY <1>1, <1>2, <3>2, <3>3
    <3>5. QED
      BY <1>1, <3>1, <3>4, RoomLeft
  <2>4. QED
    BY <2>2, <2>3
<1>9. Shrinking'
  BY ShrinkingInductive DEF DigitsInv, Next
<1>10. DivisionInv'
  <2> SUFFICES ASSUME pc' = "div_by_10" PROVE
        /\ digits' # << >> => num' > 0
        /\ After(num', digits') = value'
        /\ num' * 10^Len(digits') <= value'
    BY DEF DivisionInv
  <2>1. q > 0
    BY <1>4, <1>5
  <2>2. After(num', digits') = value'
    BY <1>1, <1>4, <1>6
  <2>3. 10^(Len(digits) + 1) = 10 * 10^Len(digits)
    BY <1>8, TensAssumption
  <2>4. 10^Len(digits) \in Nat
    <3>1. Len(digits) \in 0 .. Places
      BY <1>8, WordAssumption
    <3>2. QED
      BY <3>1, TensPositive
  <2>5. q * 10^(Len(digits) + 1) <= num * 10^Len(digits)
    <3> DEFINE t == 10^Len(digits)
    <3>1. q * (10 * t) + d * t = num * t
      BY <1>5, <2>4
    <3>2. d * t >= 0 /\ q * (10 * t) \in Nat
      BY <1>5, <2>4
    <3>3. QED
      BY <1>5, <2>3, <2>4, <3>1, <3>2
  <2>6. q * 10^(Len(digits) + 1) \in Nat /\ num * 10^Len(digits) \in Nat
    BY <1>2, <1>5, <2>3, <2>4
  <2>7. QED
    BY <1>1, <1>2, <1>4, <1>6, <2>1, <2>2, <2>5, <2>6
<1>11. PowerInv'
  BY <1>4 DEF PowerInv
<1>12. BufferFits'
  BY <1>1, <1>6, <1>8 DEF BufferFits
<1>13. DigitsRight'
  <2> SUFFICES ASSUME pc' = "write_out" PROVE
        /\ digits' # << >>
        /\ digits' \in Seq(0 .. 9)
        /\ Denoted(digits') = value'
        /\ Len(digits') > 1 => Head(digits') # 0
    BY DEF DigitsRight
  <2>1. q = 0
    BY <1>4
  <2>2. digits' # << >>
    BY <1>1, <1>6
  <2>3. Denoted(digits') = value'
    BY <1>1, <1>6, <2>1, DenotedIs
  <2>4. Len(digits') > 1 => Head(digits') # 0
    BY <1>1, <1>5, <1>6, <1>7, <2>1
  <2>5. QED
    BY <1>6, <2>2, <2>3, <2>4
<1>14. QED
  BY <1>1, <1>6, <1>9, <1>10, <1>11, <1>12, <1>13 DEF DigitsInv

\* What division by a power of ten leaves.
LEMMA Division ==
  ASSUME NEW n \in Nat, NEW p \in Nat, p # 0
  PROVE  /\ n \div p \in Nat
         /\ n % p \in 0 .. p - 1
         /\ n = p * (n \div p) + (n % p)
<1>1. n \div p \in Nat /\ n % p \in 0 .. p - 1
  OBVIOUS
<1>2. n = p * (n \div p) + (n % p)
  OBVIOUS
<1>3. QED
  BY <1>1, <1>2

\* A power of ten is divided from the number.
LEMMA PowerStep ==
  ASSUME Fitting, DigitsInv, HandleDigit
  PROVE  DigitsInv'
<1>1. /\ <<port, value>> \in Jobs /\ digits \in Seq(0 .. 9)
      /\ pc = "big_loop"
      /\ port' = port /\ value' = value
      /\ Len(digits) <= Room(port)
  BY DEF DigitsInv, HandleDigit, BufferFits
<1>2. /\ value \in Nat /\ port \in Traits /\ Room(port) > 0
      /\ Room(port) \in Nat /\ Room(port) <= Places /\ Places \in Nat \ {0}
  BY <1>1, JobsAssumption, WordIs, WordAssumption DEF Words, Fitting, Room, Traits
<1>3. PICK j \in Nat :
        /\ power = 10^j
        /\ j + Len(digits) < Places
        /\ num \in Nat /\ num < 10 * power
        /\ value = 10 * power * After(0, digits) + num
        /\ digits # << >> =>
             /\ Head(digits) # 0
             /\ 10^(j + Len(digits)) <= value
  BY <1>1 DEF DigitsInv, PowerInv
<1> DEFINE d == num \div power
           x == After(0, digits)
<1>4. power \in Nat \ {0}
  <2>1. j \in 0 .. Places
    BY <1>1, <1>2, <1>3
  <2>2. QED
    BY <1>3, <2>1, TensPositive
<1> DEFINE r == num % power
<1>5. d \in 0 .. 9 /\ r \in Nat /\ r < power /\ num = power * d + r
  <2>1. num = power * d + r /\ r \in 0 .. power - 1 /\ d \in Nat
    BY <1>3, <1>4, Division
  <2> HIDE DEF d, r
  <2> DEFINE m == power * d
  <2>2. m \in Nat /\ (d >= 10 => m >= power * 10)
    BY <1>4, <2>1
  <2>3. m <= num /\ num < power * 10
    BY <1>3, <1>4, <2>1, <2>2
  <2> HIDE DEF m
  <2>4. d < 10
    BY <1>3, <1>4, <2>1, <2>2, <2>3
  <2>5. QED
    BY <1>4, <2>1, <2>4
<1>6. /\ digits' = IF d = 0 /\ digits = << >> /\ power # 1
                     THEN digits ELSE Append(digits, d)
      /\ num' = r
      /\ power' = power \div 10
      /\ pc' = IF power = 1 THEN "write_out" ELSE "big_loop"
  BY DEF HandleDigit
<1> HIDE DEF d, r
<1>7. /\ Append(digits, d) \in Seq(0 .. 9)
      /\ Len(Append(digits, d)) = Len(digits) + 1
      /\ digits # << >> => Head(Append(digits, d)) = Head(digits)
      /\ digits = << >> => Head(Append(digits, d)) = d
      /\ x \in Nat
      /\ After(0, Append(digits, d)) = 10 * x + d
  BY <1>1, <1>5, AfterLast
<1>8. After(0, digits') = 10 * x + d /\ After(0, digits') \in Nat
  <2>1. CASE d = 0 /\ digits = << >> /\ power # 1
    <3>1. x = 0
      BY <2>1, AfterNone
    <3>2. QED
      BY <1>6, <2>1, <3>1
  <2>2. CASE ~ (d = 0 /\ digits = << >> /\ power # 1)
    <3>1. digits' = Append(digits, d)
      BY <1>6, <2>2
    <3> HIDE DEF x
    <3>2. 10 * x + d \in Nat
      BY <1>5, <1>7
    <3>3. QED
      BY <1>7, <3>1, <3>2
  <2>3. QED
    BY <2>1, <2>2
<1>9. digits' \in Seq(0 .. 9)
  BY <1>1, <1>6, <1>7
<1> HIDE DEF x
<1>10. value = power * After(0, digits') + r
  <2>1. value = 10 * power * x + (power * d + r)
    BY <1>3, <1>5 DEF x
  <2>2. power * (10 * x + d) = 10 * power * x + power * d
    BY <1>4, <1>5, <1>7
  <2>3. 10 * power * x \in Nat /\ power * d \in Nat
    BY <1>4, <1>5, <1>7
  <2>4. QED
    BY <1>5, <1>8, <2>1, <2>2, <2>3
<1>11. digits' # << >> =>
         \/ Head(digits') # 0 /\ 10^(j + Len(digits') - 1) <= value
         \/ power = 1 /\ Len(digits') <= 1
  <2>1. CASE digits # << >>
    <3>1. digits' = Append(digits, d)
      BY <1>6, <2>1
    <3>2. j + Len(digits') - 1 = j + Len(digits)
      BY <1>1, <1>7, <3>1
    <3>3. QED
      BY <1>3, <1>7, <2>1, <3>1, <3>2
  <2>2. CASE digits = << >> /\ d # 0
    <3>1. digits' = Append(digits, d) /\ Len(digits') = 1 /\ Head(digits') # 0
      BY <1>6, <1>7, <2>2
    <3>2. j + Len(digits') - 1 = j
      BY <3>1
    <3>3. d >= 1 /\ power * d >= power
      BY <1>4, <1>5, <2>2
    <3>4. num >= power
      <4> DEFINE m == power * d
      <4>1. m \in Nat /\ m <= num /\ m >= power
        BY <1>3, <1>4, <1>5, <3>3
      <4> HIDE DEF m
      <4>2. QED
        BY <1>3, <1>4, <4>1
    <3>5. 10 * power * x \in Nat
      BY <1>4, <1>7
    <3>6. power <= value
      BY <1>3, <1>4, <3>4, <3>5 DEF x
    <3>7. QED
      BY <1>3, <3>1, <3>2, <3>6
  <2>3. CASE digits = << >> /\ d = 0
    <3>1. digits' # << >> => power = 1 /\ digits' = Append(digits, d)
      BY <1>6, <2>3
    <3>2. Len(Append(digits, d)) = 1
      BY <1>7, <2>3
    <3>3. QED
      BY <3>1, <3>2
  <2>4. QED
    BY <2>1, <2>2, <2>3
<1>12. /\ Len(digits') \in Nat /\ Len(digits') <= Len(digits) + 1
       /\ digits' # << >> => Len(digits') > 0
       /\ digits' = << >> => Len(digits') = 0
  <2>1. Len(digits) \in Nat
    BY <1>1
  <2>2. QED
    BY <1>6, <1>7, <1>9, <2>1
<1>13. BufferFits'
  <2> SUFFICES Len(digits') <= Room(port)
    BY <1>1 DEF BufferFits
  <2>1. CASE Len(digits') <= 1
    BY <1>2, <1>12, <2>1
  <2>2. CASE Len(digits') > 1
    <3> DEFINE k == Len(digits') - 1
               n == j + Len(digits') - 1
    <3>1. 10^n <= value
      <4>1. digits' # << >> /\ ~ (Len(digits') <= 1)
        BY <1>12, <2>2
      <4>2. QED
        BY <1>11, <4>1
    <3>2. /\ k \in 0 .. Places /\ n \in 0 .. Places /\ k <= n
          /\ k <= Room(port) /\ k \in Nat
      BY <1>1, <1>2, <1>3, <1>12, <2>2
    <3> HIDE DEF k, n
    <3>3. 10^k <= 10^n /\ 10^k \in Nat /\ 10^n \in Nat
      BY <3>2, TensIncrease, TensPositive
    <3>4. 10^k <= value
      BY <1>2, <3>1, <3>3
    <3>5. k + 1 <= Room(port)
      BY <1>1, <3>2, <3>4, RoomLeft
    <3>6. QED
      BY <1>2, <1>12, <3>5 DEF k
  <2>3. QED
    BY <1>12, <2>1, <2>2
<1>14. Shrinking'
  BY ShrinkingInductive DEF DigitsInv, Next
<1>15. DivisionInv'
  BY <1>6 DEF DivisionInv
<1>16. PowerInv' /\ DigitsRight'
  <2>1. CASE power = 1
    <3>1. pc' = "write_out"
      BY <1>6, <2>1
    <3>2. digits' # << >>
      BY <1>6, <1>7, <2>1
    <3>3. value' = After(0, digits')
      <4>1. r = 0
        BY <1>5, <2>1
      <4>2. value = 1 * After(0, digits') + 0
        BY <1>10, <2>1, <4>1
      <4> DEFINE y == After(0, digits')
      <4>3. y \in Nat /\ value = 1 * y + 0
        BY <1>8, <4>2
      <4> HIDE DEF y
      <4>4. value = y
        BY <4>3
      <4>5. QED
        BY <1>1, <4>4 DEF y
    <3>4. Len(digits') > 1 => Head(digits') # 0
      BY <1>11, <1>12, <3>2
    <3>5. QED
      BY <1>9, <3>1, <3>2, <3>3, <3>4, DenotedIs DEF PowerInv, DigitsRight
  <2>2. CASE power # 1
    <3> DEFINE i == j - 1
    <3>1. pc' = "big_loop"
      BY <1>6, <2>2
    <3>2. /\ i \in 0 .. Places-1 /\ i \in 0 .. Places /\ i + 1 = j
          /\ j + Len(digits') - 1 = i + Len(digits')
          /\ i + Len(digits') < Places
      <4>1. j # 0
        BY <1>3, <2>2, TensAssumption
      <4>2. Len(digits) \in Nat
        BY <1>1
      <4>3. QED
        BY <1>2, <1>3, <1>12, <4>1, <4>2
    <3> HIDE DEF i
    <3>3. power = 10 * 10^i /\ 10^i \in Nat
      BY <1>3, <3>2, TensAssumption, TensPositive
    <3>4. power' = 10^i /\ power = 10 * power'
      BY <1>6, <3>3
    <3>5. digits' # << >> => Head(digits') # 0 /\ 10^(i + Len(digits')) <= value'
      BY <1>1, <1>11, <2>2, <3>2
    <3>6. num' < 10 * power' /\ num' \in Nat
      BY <1>5, <1>6, <3>4
    <3>7. value' = 10 * power' * After(0, digits') + num'
      BY <1>1, <1>6, <1>10, <3>4
    <3>8. PowerInv'
      BY <3>2, <3>4, <3>5, <3>6, <3>7 DEF PowerInv
    <3>9. QED
      BY <3>1, <3>8 DEF DigitsRight
  <2>3. QED
    BY <2>1, <2>2
<1>17. QED
  BY <1>1, <1>9, <1>13, <1>14, <1>15, <1>16 DEF DigitsInv

(***************************************************************************)
(* The digits are those of the number, and fit, through every step: the    *)
(* inductive invariant.                                                    *)
(***************************************************************************)
THEOREM DigitsInvariant == ASSUME Served, Fitting PROVE Spec => []DigitsInv
<1>1. Init => DigitsInv
  BY InitDigits
<1>2. DigitsInv /\ [Next]_vars => DigitsInv'
  <2> SUFFICES ASSUME DigitsInv, [Next]_vars PROVE DigitsInv'
    OBVIOUS
  <2>1. CASE DivBy10
    BY <2>1, DivisionStep
  <2>2. CASE DivideBadly
    BY <2>2 DEF DivideBadly, DigitsInv, Shrinking, DivisionInv, PowerInv,
                BufferFits, DigitsRight
  <2>3. CASE HandleDigit
    BY <2>3, PowerStep
  <2>4. CASE UNCHANGED vars
    BY <2>4 DEF vars, DigitsInv, Shrinking, DivisionInv, PowerInv,
                BufferFits, DigitsRight
  <2>5. QED
    BY <2>1, <2>2, <2>3, <2>4 DEF Next
<1>3. QED
  BY <1>1, <1>2, PTL DEF Spec

(***************************************************************************)
(* What is written out are the decimal digits of the number, without a     *)
(* superfluous zero, for words of every width and every way of dividing.   *)
(***************************************************************************)
THEOREM DigitsWritten == ASSUME Served, Fitting PROVE Spec => []DigitsRight
<1>1. DigitsInv => DigitsRight
  BY DEF DigitsInv
<1>2. QED
  BY <1>1, DigitsInvariant, PTL

(***************************************************************************)
(* No digit is stored before the first byte of ascii_buffer, if the number *)
(* has no more digits than there is room for.                              *)
(***************************************************************************)
THEOREM DigitsFit == ASSUME Served, Fitting PROVE Spec => []BufferFits
<1>1. DigitsInv => BufferFits
  BY DEF DigitsInv
<1>2. QED
  BY <1>1, DigitsInvariant, PTL
=============================================================================
