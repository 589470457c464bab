---------------------------- MODULE LlTextProofs ----------------------------
(***************************************************************************)
(* The text of a port, whatever its calls, its machine and the size of the *)
(* screen: where these suit the port, each line is printed whole, in the   *)
(* middle, and ended, although all of them are composed in one buffer that *)
(* is never cleared.                                                       *)
(***************************************************************************)
EXTENDS LlText, SequenceTheorems, WellFoundedInduction, TLAPS

USE LlTextAssumption

\* What a cell may hold.  That the texts of the program are strings is
\* nothing the provers know.
Token == STRING \cup {"nl", "nul", "logo", "esc", "columns", "C"}
Tokens == Seq(Token)

LEMMA StringsAreTokens ==
  ASSUME NEW s \in Seq(STRING)
  PROVE  s \in Tokens
BY SeqMonotonic DEF Token, Tokens

-----------------------------------------------------------------------------
(***************************************************************************)
(* Functions defined by recursion on a place in a sequence.                *)
(***************************************************************************)
LEMMA LeastNumber ==
  ASSUME NEW S \in SUBSET Nat, S # {}
  PROVE  \E n \in S : \A m \in S : n <= m
<1>1. PICK n \in S : \A m \in S : ~ (<<m, n>> \in OpToRel(<, Nat))
  BY NatLessThanWellFounded, WFMin
<1>2. ASSUME NEW m \in S PROVE n <= m
  <2>1. ~ (m < n)
    BY <1>1 DEF OpToRel
  <2>2. QED
    BY <2>1
<1>3. QED
  BY <1>2

\* f takes n steps from there.
Steps(f, n, there, step) ==
  f[0] = there /\ \A i \in 1 .. n : f[i] = step[i][f[i - 1]]

LEMMA StepsExist ==
  ASSUME NEW n \in Nat, NEW X, NEW there \in X,
         NEW step \in [1 .. n -> [X -> X]]
  PROVE  \E f \in [0 .. n -> X] : Steps(f, n, there, step)
<1> DEFINE Short(m) == \E f \in [0 .. m -> X] : Steps(f, m, there, step)
<1> DEFINE S == { m \in 0 .. n : ~ Short(m) }
<1>1. SUFFICES ASSUME S # {} PROVE FALSE
  <2>1. n \in 0 .. n
    OBVIOUS
  <2>2. S = {} => Short(n)
    BY <2>1
  <2>3. QED
    BY <1>1, <2>2
<1>2. PICK m \in S : \A j \in S : m <= j
  <2>1. S \in SUBSET Nat
    OBVIOUS
  <2>2. QED
    BY <1>1, <2>1, LeastNumber
<1>3. m \in 0 .. n /\ ~ Short(m)
  OBVIOUS
<1>4. CASE m = 0
  <2>1. [i \in 0 .. 0 |-> there] \in [0 .. 0 -> X]
    OBVIOUS
  <2>2. Steps([i \in 0 .. 0 |-> there], 0, there, step)
    BY DEF Steps
  <2>3. QED
    BY <1>3, <1>4, <2>1, <2>2
<1>5. CASE m # 0
  <2>1. m - 1 \in 0 .. n /\ ~ (m <= m - 1) /\ m \in 1 .. n
    BY <1>3, <1>5
  <2>2. Short(m - 1)
    BY <1>2, <2>1
  <2>3. PICK f \in [0 .. m-1 -> X] : Steps(f, m - 1, there, step)
    BY <2>2
  <2>4. PICK x : x = step[m][f[m - 1]]
    OBVIOUS
  <2>5. x \in X
    BY <2>1, <2>3, <2>4
  <2>6. PICK g : g = [i \in 0 .. m |-> IF i = m THEN x ELSE f[i]]
    OBVIOUS
  <2>7. g \in [0 .. m -> X]
    BY <2>1, <2>3, <2>5, <2>6
  <2>8. g[0] = there
    BY <1>5, <2>1, <2>3, <2>6 DEF Steps
  <2>9. ASSUME NEW i \in 1 .. m PROVE g[i] = step[i][g[i - 1]]
    <3>1. i - 1 \in 0 .. m-1 /\ i - 1 # m /\ i - 1 \in 0 .. m /\ i \in 0 .. m
      BY <2>1
    <3>2. g[i - 1] = f[i - 1]
      BY <2>6, <3>1
    <3>3. CASE i = m
      BY <2>4, <2>6, <3>1, <3>2, <3>3
    <3>4. CASE i # m
      <4>1. i \in 1 .. m-1
        BY <2>1, <3>4
      <4>2. f[i] = step[i][f[i - 1]]
        BY <2>3, <4>1 DEF Steps
      <4>3. g[i] = f[i]
        BY <2>6, <3>1, <3>4
      <4>4. QED
        BY <3>2, <4>2, <4>3
    <3>5. QED
      BY <3>3, <3>4
  <2>10. Steps(g, m, there, step)
    BY <2>8, <2>9 DEF Steps
  <2>11. QED
    BY <1>3, <2>7, <2>10
<1>6. QED
  BY <1>4, <1>5

LEMMA StepsAlike ==
  ASSUME NEW n \in Nat, NEW m \in Nat, m <= n, NEW there,
         NEW step, NEW more, \A i \in 1 .. m : step[i] = more[i],
         NEW f, Steps(f, m, there, step), NEW g, Steps(g, n, there, more)
  PROVE  f[m] = g[m]
<1> DEFINE S == { i \in 0 .. m : f[i] # g[i] }
<1>1. SUFFICES ASSUME S # {} PROVE FALSE
  <2>1. m \in 0 .. m
    OBVIOUS
  <2>2. QED
    BY <1>1, <2>1
<1>2. PICK i \in S : \A j \in S : i <= j
  <2>1. S \in SUBSET Nat
    OBVIOUS
  <2>2. QED
    BY <1>1, <2>1, LeastNumber
<1>3. i \in 0 .. m /\ f[i] # g[i]
  OBVIOUS
<1>4. i # 0
  BY <1>3 DEF Steps
<1>5. i \in 1 .. m /\ i \in 1 .. n /\ i - 1 \in 0 .. m /\ ~ (i <= i - 1)
  BY <1>3, <1>4
<1>6. f[i - 1] = g[i - 1]
  BY <1>2, <1>5
<1>7. f[i] = step[i][f[i - 1]] /\ g[i] = more[i][g[i - 1]]
  BY <1>5 DEF Steps
<1>8. step[i] = more[i]
  BY <1>5
<1>9. QED
  BY <1>3, <1>6, <1>7, <1>8

-----------------------------------------------------------------------------
(***************************************************************************)
(* The pieces of a line, one after the other.                              *)
(***************************************************************************)
Pieces(f, seqs) ==
  /\ f \in [0 .. Len(seqs) -> Tokens]
  /\ f[0] = << >>
  /\ \A i \in 1 .. Len(seqs) : f[i] = f[i - 1] \o seqs[i]

LEMMA PiecesExist ==
  ASSUME NEW seqs \in Seq(Tokens)
  PROVE  \E f : Pieces(f, seqs)
<1>1. PICK n \in Nat : n = Len(seqs)
  OBVIOUS
<1>2. PICK step : step = [i \in 1 .. n |-> [x \in Tokens |-> x \o seqs[i]]]
  OBVIOUS
<1>3. ASSUME NEW i \in 1 .. n
      PROVE  [x \in Tokens |-> x \o seqs[i]] \in [Tokens -> Tokens]
  <2>1. seqs[i] \in Tokens
    BY <1>1
  <2>2. ASSUME NEW x \in Tokens PROVE x \o seqs[i] \in Tokens
    BY <2>1 DEF Tokens
  <2>3. QED
    BY <2>2
<1>4. step \in [1 .. n -> [Tokens -> Tokens]]
  BY <1>2, <1>3
<1>5. << >> \in Tokens
  BY DEF Tokens
<1>6. PICK f \in [0 .. n -> Tokens] : Steps(f, n, << >>, step)
  BY <1>1, <1>4, <1>5, StepsExist
<1>7. ASSUME NEW i \in 1 .. n PROVE f[i] = f[i - 1] \o seqs[i]
  <2>1. i - 1 \in 0 .. n
    BY <1>1
  <2>2. f[i - 1] \in Tokens
    BY <1>6, <2>1
  <2>3. f[i] = step[i][f[i - 1]]
    BY <1>6 DEF Steps
  <2>4. QED
    BY <1>2, <2>2, <2>3
<1>8. QED
  BY <1>1, <1>6, <1>7 DEF Pieces, Steps

\* What FlattenSeq means by flatten.
Flatten(h, seqs) ==
  h = [i \in 1 .. Len(seqs) |-> IF i = 1 THEN seqs[i] ELSE h[i - 1] \o seqs[i]]

LEMMA FlattenIsPieces ==
  ASSUME NEW seqs \in Seq(Tokens), NEW f, Pieces(f, seqs),
         NEW h, Flatten(h, seqs), NEW i \in 1 .. Len(seqs)
  PROVE  h[i] = f[i]
<1> DEFINE S == { j \in 1 .. Len(seqs) : h[j] # f[j] }
<1>1. SUFFICES ASSUME S # {} PROVE FALSE
  OBVIOUS
<1>2. PICK j \in S : \A k \in S : j <= k
  <2>1. S \in SUBSET Nat
    OBVIOUS
  <2>2. QED
    BY <1>1, <2>1, LeastNumber
<1>3. j \in 1 .. Len(seqs) /\ h[j] # f[j]
  OBVIOUS
<1>4. h[j] = IF j = 1 THEN seqs[j] ELSE h[j - 1] \o seqs[j]
  BY <1>3 DEF Flatten
<1>5. f[j] = f[j - 1] \o seqs[j] /\ f[0] = << >>
  BY <1>3 DEF Pieces
<1>6. CASE j = 1
  <2>1. seqs[1] \in Tokens
    BY <1>3, <1>6
  <2>2. << >> \o seqs[1] = seqs[1]
    BY <2>1 DEF Tokens
  <2>3. f[1] = << >> \o seqs[1]
    <3>1. j - 1 = 0
      BY <1>6
    <3>2. f[j] = f[0] \o seqs[j]
      BY <1>5, <3>1
    <3>3. QED
      BY <1>5, <1>6, <3>2
  <2>4. QED
    BY <1>3, <1>4, <1>6, <2>2, <2>3
<1>7. CASE j # 1
  <2>1. j - 1 \in 1 .. Len(seqs) /\ ~ (j <= j - 1)
    BY <1>3, <1>7
  <2>2. h[j - 1] = f[j - 1]
    BY <1>2, <2>1
  <2>3. QED
    BY <1>3, <1>4, <1>5, <1>7, <2>2
<1>8. QED
  BY <1>6, <1>7

LEMMA PiecesFlatten ==
  ASSUME NEW seqs \in Seq(Tokens), Len(seqs) # 0, NEW f, Pieces(f, seqs)
  PROVE  FlattenSeq(seqs) = f[Len(seqs)]
<1>1. PICK n \in Nat \ {0} : n = Len(seqs)
  OBVIOUS
<1>2. PICK g : g = [i \in 1 .. n |-> f[i]]
  OBVIOUS
<1>3. ASSUME NEW i \in 1 .. n
      PROVE  g[i] = IF i = 1 THEN seqs[i] ELSE g[i - 1] \o seqs[i]
  <2>1. f[i] = f[i - 1] \o seqs[i] /\ f[0] = << >> /\ seqs[i] \in Tokens
    BY <1>1 DEF Pieces
  <2>2. CASE i = 1
    <3>1. << >> \o seqs[1] = seqs[1]
      BY <2>1, <2>2 DEF Tokens
    <3>2. f[1] = << >> \o seqs[1]
      <4>1. i - 1 = 0
        BY <2>2
      <4>2. f[i] = f[0] \o seqs[i]
        BY <2>1, <4>1
      <4>3. QED
        BY <2>1, <2>2, <4>2
    <3>3. QED
      BY <1>2, <2>2, <3>1, <3>2
  <2>3. CASE i # 1
    <3>1. i - 1 \in 1 .. n
      BY <1>1, <2>3
    <3>2. QED
      BY <1>2, <2>1, <2>3, <3>1
  <2>4. QED
    BY <2>2, <2>3
<1>4. Flatten(g, seqs)
  <2>1. g = [i \in 1 .. n |-> g[i]]
    BY <1>2
  <2>2. [i \in 1 .. n |-> g[i]] =
        [i \in 1 .. n |-> IF i = 1 THEN seqs[i] ELSE g[i - 1] \o seqs[i]]
    BY <1>3
  <2>3. QED
    BY <1>1, <2>1, <2>2 DEF Flatten
<1>5. PICK h : h = CHOOSE hh : Flatten(hh, seqs)
  OBVIOUS
<1>6. Flatten(h, seqs)
  BY <1>4, <1>5
<1>7. FlattenSeq(seqs) = h[Len(seqs)]
  BY <1>5 DEF FlattenSeq, Flatten
<1>8. QED
  BY <1>1, <1>6, <1>7, FlattenIsPieces

\* z is x with y behind it.
Joined(x, y, z) ==
  /\ x \in Tokens /\ y \in Tokens /\ z \in Tokens
  /\ Len(z) = Len(x) + Len(y)
  /\ \A j \in 1 .. Len(x) : z[j] = x[j]
  /\ \A j \in 1 .. Len(y) : z[Len(x) + j] = y[j]

LEMMA JoinedConcat ==
  ASSUME NEW x \in Tokens, NEW y \in Tokens
  PROVE  Joined(x, y, x \o y)
<1>1. PICK z : z = x \o y
  OBVIOUS
<1>2. /\ z \in Tokens
      /\ Len(z) = Len(x) + Len(y)
      /\ \A j \in 1 .. Len(x) : z[j] = x[j]
      /\ \A j \in 1 .. Len(y) : z[Len(x) + j] = y[j]
  BY <1>1 DEF Tokens
<1>3. QED
  BY <1>1, <1>2 DEF Joined

\* A piece more makes the line no shorter.
LEMMA PiecesJoined ==
  ASSUME NEW seqs \in Seq(Tokens), NEW f, Pieces(f, seqs),
         NEW i \in 1 .. Len(seqs)
  PROVE  Joined(f[i - 1], seqs[i], f[i])
<1>1. PICK x : x = f[i - 1]
  OBVIOUS
<1>2. PICK y : y = seqs[i]
  OBVIOUS
<1>3. x \in Tokens
  <2>1. i - 1 \in 0 .. Len(seqs)
    OBVIOUS
  <2>2. QED
    BY <1>1, <2>1 DEF Pieces
<1>4. y \in Tokens
  BY <1>2
<1>5. f[i] = x \o y
  BY <1>1, <1>2 DEF Pieces
<1>6. QED
  BY <1>1, <1>2, <1>3, <1>4, <1>5, JoinedConcat

LEMMA PiecesLonger ==
  ASSUME NEW seqs \in Seq(Tokens), NEW f, Pieces(f, seqs),
         NEW i \in 1 .. Len(seqs)
  PROVE  Len(f[i - 1]) <= Len(f[i])
<1>1. PICK x, y, z : x = f[i - 1] /\ y = seqs[i] /\ z = f[i]
  OBVIOUS
<1>2. Joined(x, y, z)
  BY <1>1, PiecesJoined
<1>3. Len(x) \in Nat /\ Len(y) \in Nat /\ Len(z) = Len(x) + Len(y)
  BY <1>2 DEF Joined, Tokens
<1>4. Len(x) <= Len(z)
  BY <1>3
<1>5. QED
  BY <1>1, <1>4

LEMMA PiecesWithin ==
  ASSUME NEW seqs \in Seq(Tokens), NEW f, Pieces(f, seqs),
         NEW i \in 0 .. Len(seqs)
  PROVE  Len(f[i]) <= Len(f[Len(seqs)])
<1>1. PICK n \in Nat : n = Len(seqs)
  OBVIOUS
<1>2. PICK lens : lens = [j \in 0 .. n |-> Len(f[j])]
  OBVIOUS
<1>3. \A j \in 0 .. n : lens[j] \in Nat /\ lens[j] = Len(f[j])
  BY <1>1, <1>2 DEF Pieces, Tokens
<1>4. ASSUME NEW j \in 1 .. n PROVE lens[j - 1] <= lens[j]
  <2>1. j \in 1 .. Len(seqs) /\ j \in 0 .. n /\ j - 1 \in 0 .. n
    BY <1>1
  <2>2. Len(f[j - 1]) <= Len(f[j])
    BY <2>1, PiecesLonger
  <2>3. QED
    BY <1>3, <2>1, <2>2
<1> DEFINE S == { d \in 0 .. n : ~ (lens[n - d] <= lens[n]) }
<1>5. S = {}
  <2>1. SUFFICES ASSUME S # {} PROVE FALSE
    OBVIOUS
  <2>2. PICK m \in S : \A d \in S : m <= d
    <3>1. S \in SUBSET Nat
      OBVIOUS
    <3>2. QED
      BY <2>1, <3>1, LeastNumber
  <2>3. m \in 0 .. n /\ ~ (lens[n - m] <= lens[n])
    OBVIOUS
  <2>4. m # 0
    BY <1>1, <1>3, <2>3
  <2>5. PICK k : k = n - (m - 1)
    OBVIOUS
  <2>6. /\ m - 1 \in 0 .. n /\ ~ (m <= m - 1) /\ k - 1 = n - m
        /\ k \in 1 .. n
    BY <1>1, <2>3, <2>4, <2>5
  <2>7. lens[n - (m - 1)] <= lens[n]
    BY <2>2, <2>6
  <2>8. lens[k] <= lens[n] /\ lens[k - 1] <= lens[k]
    BY <1>4, <2>5, <2>6, <2>7
  <2>9. lens[k] \in Nat /\ lens[n] \in Nat /\ lens[k - 1] \in Nat
    BY <1>1, <1>3, <2>6
  <2>10. lens[k - 1] <= lens[n]
    BY <2>8, <2>9
  <2>11. QED
    BY <2>3, <2>6, <2>10
<1>6. n - i \in 0 .. n /\ n - (n - i) = i
  BY <1>1
<1>7. lens[i] <= lens[n]
  BY <1>5, <1>6
<1>8. QED
  BY <1>1, <1>3, <1>7

-----------------------------------------------------------------------------
(***************************************************************************)
(* What can be seen of a line.                                             *)
(***************************************************************************)
Unseen == {"nl", "nul"}

Seeing(f, tokens) ==
  /\ f \in [0 .. Len(tokens) -> Tokens]
  /\ f[0] = << >>
  /\ \A i \in 1 .. Len(tokens) :
       f[i] = IF tokens[i] \in Unseen THEN f[i - 1]
              ELSE Append(f[i - 1], tokens[i])

LEMMA SeeingExists ==
  ASSUME NEW tokens \in Tokens
  PROVE  \E f : Seeing(f, tokens)
<1>1. PICK n \in Nat : n = Len(tokens)
  BY DEF Tokens
<1>2. PICK step : step =
        [i \in 1 .. n |->
           [x \in Tokens |-> IF tokens[i] \in Unseen THEN x
                             ELSE Append(x, tokens[i])]]
  OBVIOUS
<1>3. ASSUME NEW i \in 1 .. n
      PROVE  [x \in Tokens |-> IF tokens[i] \in Unseen THEN x
                               ELSE Append(x, tokens[i])]
               \in [Tokens -> Tokens]
  <2>1. tokens[i] \in Token
    BY <1>1 DEF Tokens
  <2>2. ASSUME NEW x \in Tokens
        PROVE  (IF tokens[i] \in Unseen THEN x ELSE Append(x, tokens[i]))
                 \in Tokens
    <3>1. Append(x, tokens[i]) \in Tokens
      BY <2>1 DEF Tokens
    <3>2. QED
      BY <3>1
  <2>3. QED
    BY <2>2
<1>4. step \in [1 .. n -> [Tokens -> Tokens]]
  BY <1>2, <1>3
<1>5. << >> \in Tokens
  BY DEF Tokens
<1>6. PICK f \in [0 .. n -> Tokens] : Steps(f, n, << >>, step)
  BY <1>1, <1>4, <1>5, StepsExist
<1>7. ASSUME NEW i \in 1 .. n
      PROVE  f[i] = IF tokens[i] \in Unseen THEN f[i - 1]
                    ELSE Append(f[i - 1], tokens[i])
  <2>1. i - 1 \in 0 .. n
    BY <1>1
  <2>2. f[i - 1] \in Tokens
    BY <1>6, <2>1
  <2>3. f[i] = step[i][f[i - 1]]
    BY <1>6 DEF Steps
  <2>4. QED
    BY <1>2, <2>2, <2>3
<1>8. QED
  BY <1>1, <1>6, <1>7 DEF Seeing, Steps

\* What Visible means by seen.
Seen(h, tokens) ==
  h = [m \in 0 .. Len(tokens) |->
         IF m = 0 THEN << >>
         ELSE IF tokens[m] \in {"nl", "nul"} THEN h[m - 1]
         ELSE Append(h[m - 1], tokens[m])]

LEMMA SeenIsSeeing ==
  ASSUME NEW tokens \in Tokens, NEW f, Seeing(f, tokens),
         NEW h, Seen(h, tokens), NEW i \in 0 .. Len(tokens)
  PROVE  h[i] = f[i]
<1> DEFINE S == { j \in 0 .. Len(tokens) : h[j] # f[j] }
<1>1. SUFFICES ASSUME S # {} PROVE FALSE
  OBVIOUS
<1>2. PICK j \in S : \A k \in S : j <= k
  <2>1. S \in SUBSET Nat
    OBVIOUS
  <2>2. QED
    BY <1>1, <2>1, LeastNumber
<1>3. j \in 0 .. Len(tokens) /\ h[j] # f[j]
  OBVIOUS
<1>4. h[j] = IF j = 0 THEN << >>
             ELSE IF tokens[j] \in {"nl", "nul"} THEN h[j - 1]
             ELSE Append(h[j - 1], tokens[j])
  BY <1>3 DEF Seen
<1>5. CASE j = 0
  BY <1>3, <1>4, <1>5 DEF Seeing
<1>6. CASE j # 0
  <2>1. /\ j \in 1 .. Len(tokens) /\ j - 1 \in 0 .. Len(tokens)
        /\ ~ (j <= j - 1)
    BY <1>3, <1>6
  <2>2. h[j - 1] = f[j - 1]
    BY <1>2, <2>1
  <2>3. f[j] = IF tokens[j] \in Unseen THEN f[j - 1]
               ELSE Append(f[j - 1], tokens[j])
    BY <2>1 DEF Seeing
  <2>4. QED
    BY <1>3, <1>4, <1>6, <2>2, <2>3 DEF Unseen
<1>7. QED
  BY <1>5, <1>6

LEMMA SeeingVisible ==
  ASSUME NEW tokens \in Tokens, NEW f, Seeing(f, tokens)
  PROVE  Visible(tokens) = f[Len(tokens)]
<1>1. PICK n \in Nat : n = Len(tokens)
  BY DEF Tokens
<1>2. ASSUME NEW m \in 0 .. n
      PROVE  f[m] = IF m = 0 THEN << >>
                    ELSE IF tokens[m] \in {"nl", "nul"} THEN f[m - 1]
                    ELSE Append(f[m - 1], tokens[m])
  <2>1. CASE m = 0
    BY <2>1 DEF Seeing
  <2>2. CASE m # 0
    <3>1. m \in 1 .. n
      BY <1>1, <2>2
    <3>2. QED
      BY <1>1, <2>2, <3>1 DEF Seeing, Unseen
  <2>3. QED
    BY <2>1, <2>2
<1>3. Seen(f, tokens)
  <2>1. f = [m \in 0 .. n |-> f[m]]
    BY <1>1 DEF Seeing
  <2>2. [m \in 0 .. n |-> f[m]] =
        [m \in 0 .. n |-> IF m = 0 THEN << >>
                          ELSE IF tokens[m] \in {"nl", "nul"} THEN f[m - 1]
                          ELSE Append(f[m - 1], tokens[m])]
    BY <1>2
  <2>3. QED
    BY <1>1, <2>1, <2>2 DEF Seen
<1>4. PICK h : h = CHOOSE hh : Seen(hh, tokens)
  OBVIOUS
<1>5. Seen(h, tokens)
  BY <1>3, <1>4
<1>6. Visible(tokens) = h[Len(tokens)]
  BY <1>4 DEF Visible, Seen
<1>7. QED
  BY <1>1, <1>5, <1>6, SeenIsSeeing

\* A linefeed or a NUL at the end cannot be seen.
LEMMA EndUnseen ==
  ASSUME NEW tokens \in Tokens, NEW t \in Unseen
  PROVE  Visible(Append(tokens, t)) = Visible(tokens)
<1>1. PICK n \in Nat : n = Len(tokens)
  BY DEF Tokens
<1>2. PICK longer : longer = Append(tokens, t)
  OBVIOUS
<1>3. /\ longer \in Tokens /\ Len(longer) = n + 1
      /\ \A i \in 1 .. n : longer[i] = tokens[i]
      /\ longer[n + 1] = t
  <2>1. t \in Token
    BY DEF Unseen, Token
  <2>2. QED
    BY <1>1, <1>2, <2>1, AppendProperties DEF Tokens
<1>4. PICK f : Seeing(f, tokens)
  BY SeeingExists
<1>5. PICK g : Seeing(g, longer)
  BY <1>3, SeeingExists
<1> DEFINE S == { i \in 0 .. n : f[i] # g[i] }
<1>6. S = {}
  <2>1. SUFFICES ASSUME S # {} PROVE FALSE
    OBVIOUS
  <2>2. PICK i \in S : \A j \in S : i <= j
    <3>1. S \in SUBSET Nat
      OBVIOUS
    <3>2. QED
      BY <2>1, <3>1, LeastNumber
  <2>3. i \in 0 .. n /\ f[i] # g[i]
    OBVIOUS
  <2>4. i # 0
    BY <1>4, <1>5, <2>3 DEF Seeing
  <2>5. i \in 1 .. n /\ i \in 1 .. n+1 /\ i - 1 \in 0 .. n /\ ~ (i <= i - 1)
    BY <1>1, <2>3, <2>4
  <2>6. f[i - 1] = g[i - 1]
    BY <2>2, <2>5
  <2>7. f[i] = IF tokens[i] \in Unseen THEN f[i - 1]
               ELSE Append(f[i - 1], tokens[i])
    BY <1>1, <1>4, <2>5 DEF Seeing
  <2>8. g[i] = IF longer[i] \in Unseen THEN g[i - 1]
               ELSE Append(g[i - 1], longer[i])
    BY <1>3, <1>5, <2>5 DEF Seeing
  <2>9. longer[i] = tokens[i]
    BY <1>3, <2>5
  <2>10. QED
    BY <2>3, <2>6, <2>7, <2>8, <2>9
<1>7. f[n] = g[n]
  <2>1. n \in 0 .. n
    BY <1>1
  <2>2. QED
    BY <1>6, <2>1
<1>8. g[n + 1] = g[n]
  <2>1. n + 1 \in 1 .. n+1 /\ (n + 1) - 1 = n
    BY <1>1
  <2>2. g[n + 1] = IF longer[n + 1] \in Unseen THEN g[(n + 1) - 1]
                   ELSE Append(g[(n + 1) - 1], longer[n + 1])
    BY <1>3, <1>5, <2>1 DEF Seeing
  <2>3. QED
    BY <1>3, <2>1, <2>2
<1>9. Visible(tokens) = f[n] /\ Visible(longer) = g[n + 1]
  BY <1>1, <1>3, <1>4, <1>5, SeeingVisible
<1>10. QED
  BY <1>2, <1>7, <1>8, <1>9

-----------------------------------------------------------------------------
(***************************************************************************)
(* A line of calls, piece by piece.                                        *)
(***************************************************************************)
Part(m, call) == IF call[1] = "behind" THEN << >> ELSE Cells(m, call)

\* f says what the line holds after each call.
Line(f, calls, m) ==
  /\ Len(calls) \in Nat \ {0}
  /\ f \in [0 .. Len(calls) -> Tokens]
  /\ f[0] = << >>
  /\ \A i \in 1 .. Len(calls) : Joined(f[i - 1], Part(m, calls[i]), f[i])
  /\ \A i \in 0 .. Len(calls) : Len(f[i]) <= Len(f[Len(calls)])
  /\ f[Len(calls)] = Composed(m, calls)

LEMMA LineExists ==
  ASSUME NEW calls, NEW pr, NEW m, SuitsText(calls, pr, m)
  PROVE  \E f : Line(f, calls, m)
<1>1. /\ calls \in Seq(STRING \X STRING) /\ calls # << >>
      /\ \A i \in DOMAIN calls : Cells(m, calls[i]) \in Seq(STRING)
  <2>1. calls \in Seq(STRING \X STRING) /\ calls # << >>
    BY DEF SuitsText
  <2>2. \A i \in DOMAIN calls : Cells(m, calls[i]) \in Seq(STRING)
    BY DEF SuitsText
  <2>3. QED
    BY <2>1, <2>2
<1>2. PICK n : n = Len(calls)
  OBVIOUS
<1>3. n \in Nat \ {0} /\ DOMAIN calls = 1 .. n
  BY <1>1, <1>2
<1>4. PICK seqs : seqs = [i \in 1 .. n |-> Part(m, calls[i])]
  OBVIOUS
<1>5. ASSUME NEW i \in 1 .. n PROVE Part(m, calls[i]) \in Tokens
  <2>1. Cells(m, calls[i]) \in Tokens
    BY <1>1, <1>3, StringsAreTokens
  <2>2. << >> \in Tokens
    BY DEF Tokens
  <2>3. QED
    BY <2>1, <2>2 DEF Part
<1>6. seqs \in Seq(Tokens) /\ Len(seqs) = n
  BY <1>3, <1>4, <1>5
<1>7. PICK f : Pieces(f, seqs)
  BY <1>6, PiecesExist
<1>8. \A i \in 1 .. n : Joined(f[i - 1], seqs[i], f[i])
  BY <1>6, <1>7, PiecesJoined
<1>9. \A i \in 0 .. n : Len(f[i]) <= Len(f[n])
  BY <1>6, <1>7, PiecesWithin
<1>10. FlattenSeq(seqs) = f[n]
  BY <1>3, <1>6, <1>7, PiecesFlatten
<1>11. Composed(m, calls) = FlattenSeq(seqs)
  BY <1>3, <1>4 DEF Composed, Part
<1>12. f \in [0 .. n -> Tokens] /\ f[0] = << >>
  BY <1>6, <1>7 DEF Pieces
<1>13. \A i \in 1 .. n : seqs[i] = Part(m, calls[i])
  BY <1>4
<1>14. \A i \in 1 .. n : Joined(f[i - 1], Part(m, calls[i]), f[i])
  BY <1>8, <1>13
<1>15. f[n] = Composed(m, calls)
  BY <1>10, <1>11
<1>16. Line(f, calls, m)
  BY <1>2, <1>3, <1>9, <1>12, <1>14, <1>15 DEF Line
<1>17. QED
  BY <1>16

LEMMA ComposedTokens ==
  ASSUME NEW calls, NEW pr, NEW m, SuitsText(calls, pr, m)
  PROVE  Composed(m, calls) \in Tokens
<1>1. PICK f : Line(f, calls, m)
  BY LineExists
<1>2. QED
  BY <1>1 DEF Line

\* What the calls of a line append, all in all, is what the rules ask for.
LEMMA LineAsked ==
  ASSUME NEW calls, NEW pr, NEW m, SuitsText(calls, pr, m)
  PROVE  Visible(Composed(m, calls)) = AskedLine(m, calls)
<1>1. /\ calls \in Seq(STRING \X STRING) /\ calls # << >>
      /\ \A i \in DOMAIN calls : Cells(m, calls[i]) = Asked(m, calls[i])
  BY DEF SuitsText
<1>2. PICK n : n = Len(calls)
  OBVIOUS
<1>3. n \in Nat \ {0} /\ n \in 1 .. n /\ DOMAIN calls = 1 .. n
  BY <1>1, <1>2
<1>4. ASSUME NEW i \in 1 .. n
      PROVE  Part(m, calls[i]) \in Tokens /\ Cells(m, calls[i]) \in Tokens
  <2>1. Cells(m, calls[i]) \in Seq(STRING)
    BY <1>3 DEF SuitsText
  <2>2. << >> \in Tokens
    BY DEF Tokens
  <2>3. QED
    BY <2>1, <2>2, StringsAreTokens DEF Part
<1>5. PICK seqs, asks : /\ seqs = [i \in 1 .. n |-> Part(m, calls[i])]
                        /\ asks = [i \in 1 .. n |-> Cells(m, calls[i])]
  OBVIOUS
<1>6. /\ seqs \in Seq(Tokens) /\ Len(seqs) = n
      /\ asks \in Seq(Tokens) /\ Len(asks) = n
  BY <1>3, <1>4, <1>5
<1>7. Composed(m, calls) = FlattenSeq(seqs)
  BY <1>3, <1>5 DEF Composed, Part
<1>8. AskedLine(m, calls) = Visible(FlattenSeq(asks))
  <2>1. asks = [i \in DOMAIN calls |-> Asked(m, calls[i])]
    BY <1>1, <1>3, <1>5
  <2>2. QED
    BY <2>1 DEF AskedLine
<1>9. ASSUME NEW i \in 1 .. n, i # n PROVE seqs[i] = asks[i]
  <2>1. calls[i][1] # "behind"
    BY <1>2, <1>3, <1>9 DEF SuitsText
  <2>2. QED
    BY <1>5, <2>1 DEF Part
<1>10. CASE ~ LastBehind(calls)
  <2>1. seqs[n] = asks[n]
    BY <1>2, <1>3, <1>5, <1>10 DEF LastBehind, Part
  <2>2. \A i \in 1 .. n : seqs[i] = asks[i]
    BY <1>9, <2>1
  <2>3. seqs = asks
    BY <1>5, <2>2
  <2>4. QED
    BY <1>7, <1>8, <2>3
<1>11. CASE LastBehind(calls)
  <2>1. seqs[n] = << >> /\ asks[n] = <<"nl">>
    BY <1>2, <1>3, <1>5, <1>11 DEF LastBehind, Part, SuitsText
  <2>2. PICK f : Pieces(f, seqs)
    BY <1>6, PiecesExist
  <2>3. PICK x : x = f[n - 1]
    OBVIOUS
  <2>4. x \in Tokens /\ f[n] = x
    <3>1. n - 1 \in 0 .. n
      BY <1>3
    <3>2. x \in Tokens
      BY <1>6, <2>2, <2>3, <3>1 DEF Pieces
    <3>3. f[n] = x \o << >>
      BY <1>3, <1>6, <2>1, <2>2, <2>3 DEF Pieces
    <3>4. QED
      BY <3>2, <3>3, ConcatEmptySeq DEF Tokens
  <2>5. "nl" \in Token /\ "nl" \in Unseen
    BY DEF Token, Unseen
  <2>6. PICK y : y = Append(x, "nl")
    OBVIOUS
  <2>7. y \in Tokens /\ y = x \o <<"nl">>
    BY <2>4, <2>5, <2>6, AppendIsConcat, AppendProperties DEF Tokens
  <2>8. PICK g : g = [i \in 0 .. n |-> IF i = n THEN y ELSE f[i]]
    OBVIOUS
  <2>9. g \in [0 .. n -> Tokens] /\ g[0] = << >>
    BY <1>3, <1>6, <2>2, <2>7, <2>8 DEF Pieces
  <2>10. ASSUME NEW i \in 1 .. n PROVE g[i] = g[i - 1] \o asks[i]
    <3>1. i - 1 \in 0 .. n /\ i - 1 # n /\ i \in 0 .. n
      BY <1>3
    <3>2. g[i - 1] = f[i - 1]
      BY <2>8, <3>1
    <3>3. CASE i = n
      BY <2>1, <2>3, <2>7, <2>8, <3>1, <3>2, <3>3
    <3>4. CASE i # n
      <4>1. g[i] = f[i] /\ seqs[i] = asks[i]
        BY <1>9, <2>8, <3>1, <3>4
      <4>2. f[i] = f[i - 1] \o seqs[i]
        BY <1>6, <2>2 DEF Pieces
      <4>3. QED
        BY <3>2, <4>1, <4>2
    <3>5. QED
      BY <3>3, <3>4
  <2>11. Pieces(g, asks)
    BY <1>6, <2>9, <2>10 DEF Pieces
  <2>12. FlattenSeq(asks) = y
    <3>1. FlattenSeq(asks) = g[n]
      BY <1>3, <1>6, <2>11, PiecesFlatten
    <3>2. n \in 0 .. n
      BY <1>3
    <3>3. QED
      BY <2>8, <3>1, <3>2
  <2>13. FlattenSeq(seqs) = x
    BY <1>3, <1>6, <2>2, <2>4, PiecesFlatten
  <2>14. Visible(y) = Visible(x)
    BY <2>4, <2>5, <2>6, EndUnseen
  <2>15. QED
    BY <1>7, <1>8, <2>12, <2>13, <2>14
<1>12. QED
  BY <1>10, <1>11

-----------------------------------------------------------------------------
(***************************************************************************)
(* The buffer.                                                             *)
(***************************************************************************)
Buffers == [1 .. Size -> Token]

Holds(b, i, tokens) == \A j \in 1 .. Len(tokens) : b[i + j - 1] = tokens[j]

LEMMA StoreKeeps ==
  ASSUME NEW b \in Buffers, NEW i \in 1 .. Size, NEW tokens \in Tokens,
         i + Len(tokens) - 1 <= Size
  PROVE  /\ Store(b, i, tokens) \in Buffers
         /\ \A k \in 1 .. Size : k < i => Store(b, i, tokens)[k] = b[k]
         /\ Holds(Store(b, i, tokens), i, tokens)
<1>1. PICK n : n = Len(tokens)
  OBVIOUS
<1>2. n \in Nat /\ i + n - 1 <= Size /\ \A j \in 1 .. n : tokens[j] \in Token
  BY <1>1 DEF Tokens
<1>3. PICK c : c = Store(b, i, tokens)
  OBVIOUS
<1>4. c = [k \in 1 .. Size |-> IF k \in i .. i + n - 1
                                 THEN tokens[k - i + 1] ELSE b[k]]
  BY <1>1, <1>3 DEF Store, Buffers
<1>5. ASSUME NEW k \in 1 .. Size PROVE c[k] \in Token
  <2>1. CASE k \in i .. i + n - 1
    <3>1. k - i + 1 \in 1 .. n
      BY <1>2, <2>1
    <3>2. QED
      BY <1>2, <1>4, <2>1, <3>1
  <2>2. CASE k \notin i .. i + n - 1
    BY <1>4, <2>2 DEF Buffers
  <2>3. QED
    BY <2>1, <2>2
<1>6. c \in Buffers
  BY <1>4, <1>5 DEF Buffers
<1>7. ASSUME NEW k \in 1 .. Size, k < i PROVE c[k] = b[k]
  <2>1. k \notin i .. i + n - 1
    BY <1>7
  <2>2. QED
    BY <1>4, <2>1
<1>8. ASSUME NEW j \in 1 .. n PROVE c[i + j - 1] = tokens[j]
  <2>1. PICK k : k = i + j - 1
    OBVIOUS
  <2>2. k \in 1 .. Size /\ k \in i .. i + n - 1 /\ k - i + 1 = j
    BY <1>2, <2>1
  <2>3. c[k] = tokens[j]
    BY <1>4, <2>2
  <2>4. QED
    BY <2>1, <2>3
<1>9. Holds(c, i, tokens)
  BY <1>1, <1>8 DEF Holds
<1>10. QED
  BY <1>3, <1>6, <1>7, <1>9

\* A string is copied behind what a line holds, and a NUL.
LEMMA StoreNext ==
  ASSUME NEW b \in Buffers, NEW s \in Nat \ {0},
         NEW x, NEW y, NEW z, Joined(x, y, z), Holds(b, s, x),
         s + Len(z) <= Size
  PROVE  \E c : /\ c = Store(b, s + Len(x), Append(y, "nul"))
                /\ c \in Buffers
                /\ Holds(c, s, z)
                /\ c[s + Len(z)] = "nul"
<1>1. PICK l, n, o : l = Len(x) /\ n = Len(y) /\ o = s + l
  OBVIOUS
<1>2. /\ l \in Nat /\ n \in Nat /\ Len(z) = l + n
      /\ \A j \in 1 .. l : z[j] = x[j]
      /\ \A j \in 1 .. n : z[l + j] = y[j]
  BY <1>1 DEF Joined, Tokens
<1>3. PICK t : t = Append(y, "nul")
  OBVIOUS
<1>4. /\ t \in Tokens /\ Len(t) = n + 1
      /\ \A j \in 1 .. n : t[j] = y[j]
      /\ t[n + 1] = "nul"
  <2>1. "nul" \in Token
    BY DEF Token
  <2>2. y \in Seq(Token)
    BY DEF Joined, Tokens
  <2>3. QED
    BY <1>1, <1>3, <2>1, <2>2, AppendProperties DEF Tokens
<1>5. PICK c : c = Store(b, o, t)
  OBVIOUS
<1>6. o \in 1 .. Size /\ o + (n + 1) - 1 <= Size
  BY <1>1, <1>2
<1>7. /\ c \in Buffers
      /\ \A k \in 1 .. Size : k < o => c[k] = b[k]
      /\ Holds(c, o, t)
  BY <1>4, <1>5, <1>6, StoreKeeps
<1>8. ASSUME NEW j \in 1 .. n + 1 PROVE c[o + j - 1] = t[j]
  BY <1>4, <1>7 DEF Holds
<1>9. ASSUME NEW j \in 1 .. l + n PROVE c[s + j - 1] = z[j]
  <2>1. CASE j <= l
    <3>1. j \in 1 .. l
      BY <1>2, <2>1
    <3>2. b[s + j - 1] = x[j]
      BY <1>1, <3>1 DEF Holds
    <3>3. PICK k : k = s + j - 1
      OBVIOUS
    <3>4. k \in 1 .. Size /\ k < o
      BY <1>1, <1>2, <1>6, <3>1, <3>3
    <3>5. c[k] = b[k]
      BY <1>7, <3>4
    <3>6. QED
      BY <1>2, <3>1, <3>2, <3>3, <3>5
  <2>2. CASE ~ (j <= l)
    <3>1. PICK k : k = j - l
      OBVIOUS
    <3>2. k \in 1 .. n /\ k \in 1 .. n+1 /\ l + k = j
      BY <1>2, <2>2, <3>1
    <3>3. c[o + k - 1] = t[k] /\ t[k] = y[k] /\ z[l + k] = y[k]
      BY <1>2, <1>4, <1>8, <3>2
    <3>4. o + k - 1 = s + j - 1
      <4>1. o = s + l /\ l \in Nat /\ k \in Nat /\ j = l + k
        BY <1>1, <1>2, <3>2
      <4>2. QED
        BY <4>1
    <3>5. QED
      BY <3>2, <3>3, <3>4
  <2>3. QED
    BY <2>1, <2>2
<1>10. Holds(c, s, z)
  BY <1>2, <1>9 DEF Holds
<1>11. c[s + Len(z)] = "nul"
  <2>1. n + 1 \in 1 .. n + 1 /\ o + (n + 1) - 1 = s + (l + n)
    BY <1>1, <1>2
  <2>2. c[o + (n + 1) - 1] = "nul"
    BY <1>4, <1>8, <2>1
  <2>3. QED
    BY <1>2, <2>1, <2>2
<1>12. c = Store(b, s + Len(x), Append(y, "nul"))
  BY <1>1, <1>3, <1>5
<1>13. QED
  BY <1>7, <1>10, <1>11, <1>12

\* Something is put behind what a line holds.
LEMMA StoreBehind ==
  ASSUME NEW b \in Buffers, NEW s \in Nat \ {0}, NEW x \in Tokens,
         Holds(b, s, x), NEW o \in 1 .. Size, s + Len(x) <= o,
         NEW t \in Tokens, o + Len(t) - 1 <= Size
  PROVE  Holds(Store(b, o, t), s, x)
<1>1. PICK l : l = Len(x)
  OBVIOUS
<1>2. l \in Nat /\ s + l <= o
  BY <1>1 DEF Tokens
<1>3. PICK c : c = Store(b, o, t)
  OBVIOUS
<1>4. \A k \in 1 .. Size : k < o => c[k] = b[k]
  BY <1>3, StoreKeeps
<1>5. ASSUME NEW j \in 1 .. l PROVE c[s + j - 1] = x[j]
  <2>1. PICK k : k = s + j - 1
    OBVIOUS
  <2>2. k \in 1 .. Size /\ k < o
    BY <1>2, <2>1
  <2>3. b[s + j - 1] = x[j]
    BY <1>1 DEF Holds
  <2>4. QED
    BY <1>4, <2>1, <2>2, <2>3
<1>6. QED
  BY <1>1, <1>3, <1>5 DEF Holds

-----------------------------------------------------------------------------
(***************************************************************************)
(* What write_stdout writes.                                               *)
(***************************************************************************)
NulBehind(b, i) == CHOOSE k \in i .. Size :
                     b[k] = "nul" /\ "nul" \notin { b[j] : j \in i .. k - 1 }

WrittenOf(b, s, pr) ==
  SubSeq(b, s, NulBehind(b, s + pr.scan) - 1)
    \o (IF pr.newline = "after" THEN <<"nl">> ELSE << >>)

\* q lies there, and a NUL behind it.
Lies(b, s, q) ==
  /\ b \in Buffers /\ s \in Nat \ {0} /\ q \in Tokens
  /\ s + Len(q) <= Size
  /\ Holds(b, s, q)
  /\ b[s + Len(q)] = "nul"
  /\ \A j \in 1 .. Len(q) : q[j] # "nul"

LEMMA NulFound ==
  ASSUME NEW b, NEW s, NEW q, Lies(b, s, q), NEW c \in 0 .. Len(q)
  PROVE  NulBehind(b, s + c) = s + Len(q)
<1>1. PICK n, e, i : n = Len(q) /\ e = s + n /\ i = s + c
  OBVIOUS
<1>2. /\ s \in Nat \ {0} /\ n \in Nat /\ e \in Nat /\ i \in Nat \ {0}
      /\ e <= Size /\ i <= e
  BY <1>1 DEF Lies, Tokens
<1>3. b[e] = "nul"
  BY <1>1 DEF Lies
<1>4. ASSUME NEW k \in i .. e - 1 PROVE b[k] # "nul"
  <2>1. PICK j : j = k - s + 1
    OBVIOUS
  <2>2. j \in 1 .. n /\ s + j - 1 = k
    BY <1>1, <1>2, <2>1
  <2>3. b[s + j - 1] = q[j] /\ q[j] # "nul"
    BY <1>1, <2>2 DEF Lies, Holds
  <2>4. QED
    BY <2>2, <2>3
<1>5. PICK k : k = NulBehind(b, i)
  OBVIOUS
<1>6. e \in i .. Size /\ "nul" \notin { b[j] : j \in i .. e - 1 }
  BY <1>2, <1>4
<1>7. /\ k \in i .. Size /\ b[k] = "nul"
      /\ "nul" \notin { b[j] : j \in i .. k - 1 }
  BY <1>3, <1>5, <1>6 DEF NulBehind
<1>8. ~ (k < e)
  <2>1. SUFFICES ASSUME k < e PROVE FALSE
    OBVIOUS
  <2>2. k \in i .. e - 1
    BY <1>2, <1>7, <2>1
  <2>3. QED
    BY <1>4, <1>7, <2>2
<1>9. ~ (e < k)
  <2>1. SUFFICES ASSUME e < k PROVE FALSE
    OBVIOUS
  <2>2. e \in i .. k - 1
    BY <1>2, <1>7, <2>1
  <2>3. QED
    BY <1>3, <1>7, <2>2
<1>10. k = e
  BY <1>2, <1>7, <1>8, <1>9
<1>11. QED
  BY <1>1, <1>5, <1>10

LEMMA WrittenLies ==
  ASSUME NEW b, NEW s, NEW q, Lies(b, s, q), NEW c \in 0 .. Len(q)
  PROVE  SubSeq(b, s, NulBehind(b, s + c) - 1) = q
<1>1. PICK n, m : n = Len(q) /\ m = s + n - 1
  OBVIOUS
<1>2. s \in Nat \ {0} /\ n \in Nat /\ s + n <= Size /\ m \in Int
  BY <1>1 DEF Lies, Tokens
<1>3. NulBehind(b, s + c) - 1 = m
  <2>1. PICK k : k = NulBehind(b, s + c)
    OBVIOUS
  <2>2. k = s + n
    BY <1>1, <2>1, NulFound
  <2>3. k - 1 = m
    BY <1>1, <1>2, <2>2
  <2>4. QED
    BY <2>1, <2>3
<1>4. PICK p : p = SubSeq(b, s, m)
  OBVIOUS
<1>5. \A i \in s .. m : b[i] \in Token
  BY <1>1, <1>2 DEF Lies, Buffers
<1>6. /\ p \in Seq(Token)
      /\ Len(p) = IF s <= m THEN m - s + 1 ELSE 0
      /\ \A i \in 1 .. m - s + 1 : p[i] = b[s + i - 1]
  <2>1. s \in Int
    BY <1>2
  <2>2. QED
    BY <1>2, <1>4, <1>5, <2>1, SubSeqProperties
<1>7. Len(p) = n /\ m - s + 1 = n
  BY <1>1, <1>2, <1>6
<1>8. ASSUME NEW i \in 1 .. n PROVE p[i] = q[i]
  <2>1. p[i] = b[s + i - 1]
    BY <1>6, <1>7
  <2>2. b[s + i - 1] = q[i]
    BY <1>1 DEF Lies, Holds
  <2>3. QED
    BY <2>1, <2>2
<1>9. q \in Seq(Token)
  BY DEF Lies, Tokens
<1>10. p = q
  BY <1>1, <1>6, <1>7, <1>8, <1>9, SeqEqual
<1>11. QED
  BY <1>3, <1>4, <1>10

-----------------------------------------------------------------------------
(***************************************************************************)
(* What is printed of a line: a linefeed more than its calls compose, or a *)
(* NUL less, or just that.                                                 *)
(***************************************************************************)
Clean(tokens) == \A j \in 1 .. Len(tokens) : tokens[j] # "nul"

Printed(calls, pr, m, p) ==
  LET all == Composed(m, calls)
  IN  /\ p \in Tokens
      /\ \/ p = Append(all, "nl")
         \/ all = Append(p, "nul")
         \/ /\ p = all /\ Clean(all)
            /\ pr.newline \notin {"stored", "after"} /\ ~ LastBehind(calls)

LEMMA PrintedSeen ==
  ASSUME NEW calls, NEW pr, NEW m, SuitsText(calls, pr, m),
         NEW p, Printed(calls, pr, m, p)
  PROVE  Visible(p) = AskedLine(m, calls)
<1>1. PICK all : all = Composed(m, calls)
  OBVIOUS
<1>2. all \in Tokens
  BY <1>1, ComposedTokens
<1>3. Visible(all) = AskedLine(m, calls)
  BY <1>1, LineAsked
<1>4. p \in Tokens
  BY DEF Printed
<1>5. CASE p = Append(all, "nl")
  <2>1. "nl" \in Unseen
    BY DEF Unseen
  <2>2. QED
    BY <1>2, <1>3, <1>5, <2>1, EndUnseen
<1>6. CASE all = Append(p, "nul")
  <2>1. "nul" \in Unseen
    BY DEF Unseen
  <2>2. QED
    BY <1>3, <1>4, <1>6, <2>1, EndUnseen
<1>7. CASE p = all
  BY <1>3, <1>7
<1>8. QED
  BY <1>1, <1>5, <1>6, <1>7 DEF Printed

LEMMA PrintedEnded ==
  ASSUME NEW calls, NEW pr, NEW m, SuitsText(calls, pr, m),
         SuitsEnd(calls, pr, m), NEW p, Printed(calls, pr, m, p)
  PROVE  p # << >> /\ Last(p) = "nl"
<1>1. PICK all, n : all = Composed(m, calls) /\ n = Len(all)
  OBVIOUS
<1>2. all \in Seq(Token) /\ n \in Nat
  BY <1>1, ComposedTokens DEF Tokens
<1>3. p \in Seq(Token)
  BY DEF Printed, Tokens
<1>4. "nl" \in Token /\ "nul" \in Token
  BY DEF Token
<1>5. CASE p = Append(all, "nl")
  BY <1>2, <1>4, <1>5, AppendProperties DEF Last
<1>6. CASE all = Append(p, "nul")
  <2>1. PICK l : l = Len(p)
    OBVIOUS
  <2>2. /\ l \in Nat /\ n = l + 1 /\ all[l + 1] = "nul"
        /\ \A i \in 1 .. l : all[i] = p[i]
    BY <1>1, <1>3, <1>4, <1>6, <2>1, AppendProperties
  <2>3. all[n] = "nul" /\ n \in 1 .. n /\ n - 1 = l
    BY <2>2
  <2>4. pr.newline = "inside" /\ ~ LastBehind(calls)
    BY <1>1, <2>3 DEF SuitsText
  <2>5. n >= 2 /\ all[n - 1] = "nl"
    BY <1>1, <2>3, <2>4 DEF SuitsEnd
  <2>6. l \in 1 .. l /\ p[l] = "nl"
    BY <2>2, <2>3, <2>5
  <2>7. p # << >>
    BY <2>1, <2>6
  <2>8. QED
    BY <2>1, <2>6, <2>7 DEF Last
<1>7. CASE /\ p = all /\ Clean(all)
           /\ pr.newline \notin {"stored", "after"} /\ ~ LastBehind(calls)
  <2>1. \/ n >= 1 /\ all[n] = "nl"
        \/ n >= 2 /\ all[n] = "nul"
    BY <1>1, <1>7 DEF SuitsEnd
  <2>2. n \in 1 .. n
    BY <1>2, <2>1
  <2>3. all[n] # "nul"
    BY <1>1, <1>7, <2>2 DEF Clean
  <2>4. all[n] = "nl"
    BY <2>1, <2>3
  <2>5. p # << >>
    BY <1>1, <1>7, <2>2
  <2>6. QED
    BY <1>1, <1>7, <2>4, <2>5 DEF Last
<1>8. QED
  BY <1>1, <1>5, <1>6, <1>7 DEF Printed

\* What ends the calls of a line, at the cell behind it.
Closed(calls, b, o) ==
  IF LastBehind(calls) THEN b[o] = "nl" /\ b[o + 1] = "nul" ELSE b[o] = "nul"

LEMMA LiesEnded ==
  ASSUME NEW b \in Buffers, NEW s \in Nat \ {0}, NEW x \in Tokens,
         Holds(b, s, x), Clean(x), s + Len(x) + 1 <= Size,
         b[s + Len(x)] = "nl", b[s + Len(x) + 1] = "nul"
  PROVE  Lies(b, s, Append(x, "nl"))
<1>1. PICK n : n = Len(x)
  OBVIOUS
<1>2. /\ n \in Nat /\ s + n + 1 <= Size
      /\ b[s + n] = "nl" /\ b[s + n + 1] = "nul"
  BY <1>1 DEF Tokens
<1>3. PICK q : q = Append(x, "nl")
  OBVIOUS
<1>4. "nl" \in Token /\ x \in Seq(Token)
  BY DEF Token, Tokens
<1>5. /\ q \in Seq(Token) /\ Len(q) = n + 1
      /\ \A i \in 1 .. n : q[i] = x[i]
      /\ q[n + 1] = "nl"
  BY <1>1, <1>3, <1>4, AppendProperties
<1>6. ASSUME NEW j \in 1 .. n + 1 PROVE b[s + j - 1] = q[j] /\ q[j] # "nul"
  <2>1. CASE j \in 1 .. n
    <3>1. b[s + j - 1] = x[j] /\ x[j] # "nul"
      BY <1>1, <2>1 DEF Holds, Clean
    <3>2. QED
      BY <1>5, <2>1, <3>1
  <2>2. CASE j \notin 1 .. n
    <3>1. j = n + 1 /\ s + j - 1 = s + n
      BY <1>2, <2>2
    <3>2. QED
      BY <1>2, <1>5, <3>1
  <2>3. QED
    BY <2>1, <2>2
<1>7. s + Len(q) <= Size /\ b[s + Len(q)] = "nul"
  <2>1. s + (n + 1) = s + n + 1
    BY <1>2
  <2>2. QED
    BY <1>2, <1>5, <2>1
<1>8. Lies(b, s, q)
  BY <1>5, <1>6, <1>7 DEF Lies, Holds, Tokens
<1>9. QED
  BY <1>3, <1>8

\* The line, and behind it the linefeed and the NUL.
LEMMA NlPrinted ==
  ASSUME NEW calls, NEW pr, NEW m, SuitsText(calls, pr, m),
         NEW all, all = Composed(m, calls), Clean(all),
         NEW b \in Buffers, NEW s \in Nat \ {0}, pr.scan \in {0, 1},
         Holds(b, s, all), s + Len(all) + 1 <= Size,
         b[s + Len(all)] = "nl", b[s + Len(all) + 1] = "nul",
         pr.newline # "after"
  PROVE  Printed(calls, pr, m, WrittenOf(b, s, pr))
<1>1. all \in Tokens
  BY ComposedTokens
<1>2. PICK q : q = Append(all, "nl")
  OBVIOUS
<1>3. Lies(b, s, q)
  BY <1>1, <1>2, LiesEnded
<1>4. q \in Tokens
  BY <1>3 DEF Lies
<1>5. pr.scan \in 0 .. Len(q)
  <2>1. PICK n : n = Len(all)
    OBVIOUS
  <2>2. n \in Nat /\ Len(q) = n + 1
    <3>1. "nl" \in Token
      BY DEF Token
    <3>2. QED
      BY <1>1, <1>2, <2>1, <3>1, AppendProperties DEF Tokens
  <2>3. pr.scan <= n
    BY <2>1 DEF SuitsText
  <2>4. QED
    BY <2>2, <2>3
<1>6. WrittenOf(b, s, pr) = q \o << >>
  BY <1>3, <1>5, WrittenLies DEF WrittenOf
<1>7. q \o << >> = q
  BY <1>4, ConcatEmptySeq DEF Tokens
<1>8. QED
  BY <1>2, <1>4, <1>6, <1>7 DEF Printed

\* The line as it was composed.
LEMMA CleanEnd ==
  ASSUME NEW calls, NEW pr, NEW m, SuitsText(calls, pr, m),
         NEW all, all = Composed(m, calls),
         NEW b \in Buffers, NEW s \in Nat \ {0}, pr.scan \in {0, 1},
         Holds(b, s, all), s + Len(all) + 1 <= Size,
         Closed(calls, b, s + Len(all)),
         pr.newline # "stored"
  PROVE  Printed(calls, pr, m, WrittenOf(b, s, pr))
<1>1. all \in Tokens
  BY ComposedTokens
<1>2. PICK n : n = Len(all)
  OBVIOUS
<1>3. n \in Nat /\ pr.scan <= n
  BY <1>1, <1>2 DEF SuitsText, Tokens
<1>4. \A i \in 1 .. n : all[i] = "nul" =>
        /\ i = n /\ n > pr.scan
        /\ pr.newline = "inside" /\ ~ LastBehind(calls)
  BY <1>2 DEF SuitsText
<1>5. CASE Clean(all) /\ LastBehind(calls)
  <2>1. pr.newline # "after"
    BY <1>5 DEF SuitsText
  <2>2. b[s + Len(all)] = "nl" /\ b[s + Len(all) + 1] = "nul"
    BY <1>5 DEF Closed
  <2>3. QED
    BY <1>5, <2>1, <2>2, NlPrinted
<1>6. CASE Clean(all) /\ ~ LastBehind(calls)
  <2>1. b[s + n] = "nul" /\ s + n <= Size
    BY <1>2, <1>3, <1>6 DEF Closed
  <2>2. Lies(b, s, all)
    BY <1>1, <1>2, <1>6, <2>1 DEF Lies, Clean
  <2>3. pr.scan \in 0 .. n
    BY <1>3
  <2>4. SubSeq(b, s, NulBehind(b, s + pr.scan) - 1) = all
    BY <1>2, <2>2, <2>3, WrittenLies
  <2>5. CASE pr.newline = "after"
    <3>1. WrittenOf(b, s, pr) = all \o <<"nl">>
      BY <2>4, <2>5 DEF WrittenOf
    <3>2. "nl" \in Token
      BY DEF Token
    <3>3. Append(all, "nl") = all \o <<"nl">> /\ Append(all, "nl") \in Tokens
      BY <1>1, <3>2, AppendIsConcat, AppendProperties DEF Tokens
    <3>4. QED
      BY <3>1, <3>3 DEF Printed
  <2>6. CASE pr.newline # "after"
    <3>1. WrittenOf(b, s, pr) = all \o << >>
      BY <2>4, <2>6 DEF WrittenOf
    <3>2. all \o << >> = all
      BY <1>1, ConcatEmptySeq DEF Tokens
    <3>3. QED
      BY <1>1, <1>6, <2>6, <3>1, <3>2 DEF Printed
  <2>7. QED
    BY <2>5, <2>6
<1>7. CASE ~ Clean(all)
  <2>1. PICK i \in 1 .. n : all[i] = "nul"
    BY <1>2, <1>7 DEF Clean
  <2>2. /\ n > pr.scan /\ all[n] = "nul" /\ n \in Nat \ {0}
        /\ pr.newline = "inside"
    BY <1>3, <1>4, <2>1
  <2>3. PICK l : l = n - 1
    OBVIOUS
  <2>4. l \in Nat /\ n = l + 1 /\ pr.scan \in 0 .. l
    BY <2>2, <2>3
  <2>5. PICK q : q = [j \in 1 .. l |-> all[j]]
    OBVIOUS
  <2>6. \A j \in 1 .. l : all[j] \in Token
    <3>1. \A j \in 1 .. n : all[j] \in Token
      BY <1>1, <1>2 DEF Tokens
    <3>2. ASSUME NEW j \in 1 .. l PROVE j \in 1 .. n
      BY <2>4
    <3>3. QED
      BY <3>1, <3>2
  <2>7. q \in Seq(Token) /\ Len(q) = l /\ \A j \in 1 .. l : q[j] = all[j]
    BY <2>4, <2>5, <2>6
  <2>8. all = Append(q, "nul")
    <3>1. "nul" \in Token
      BY DEF Token
    <3>2. PICK r : r = Append(q, "nul")
      OBVIOUS
    <3>3. /\ r \in Seq(Token) /\ Len(r) = l + 1
          /\ \A j \in 1 .. l : r[j] = q[j]
          /\ r[l + 1] = "nul"
      BY <2>7, <3>1, <3>2, AppendProperties
    <3>4. ASSUME NEW j \in 1 .. n PROVE r[j] = all[j]
      <4>1. CASE j \in 1 .. l
        BY <2>7, <3>3, <4>1
      <4>2. CASE j \notin 1 .. l
        <5>1. j = n
          BY <2>4, <4>2
        <5>2. QED
          BY <2>2, <2>4, <3>3, <5>1
      <4>3. QED
        BY <4>1, <4>2
    <3>5. Len(r) = Len(all) /\ all \in Seq(Token)
      BY <1>1, <1>2, <2>4, <3>3 DEF Tokens
    <3>6. r = all
      BY <1>2, <3>3, <3>4, <3>5, SeqEqual
    <3>7. QED
      BY <3>2, <3>6
  <2>9. ASSUME NEW j \in 1 .. l
        PROVE  b[s + j - 1] = q[j] /\ q[j] # "nul"
    <3>1. j \in 1 .. n /\ j # n
      BY <2>4
    <3>2. b[s + j - 1] = all[j]
      BY <1>2, <3>1 DEF Holds
    <3>3. all[j] # "nul"
      BY <1>4, <3>1
    <3>4. QED
      BY <2>7, <3>2, <3>3
  <2>10. b[s + l] = "nul" /\ s + l <= Size
    <3>1. b[s + n - 1] = all[n]
      BY <1>2, <2>2 DEF Holds
    <3>2. s + n - 1 = s + l /\ s + n + 1 <= Size
      BY <1>2, <2>4
    <3>3. s + l <= Size
      BY <2>4, <3>2
    <3>4. QED
      BY <2>2, <3>1, <3>2, <3>3
  <2>11. Lies(b, s, q)
    BY <2>7, <2>9, <2>10 DEF Lies, Holds, Tokens
  <2>12. SubSeq(b, s, NulBehind(b, s + pr.scan) - 1) = q
    <3>1. pr.scan \in 0 .. Len(q)
      BY <2>4, <2>7
    <3>2. QED
      BY <2>11, <3>1, WrittenLies
  <2>13. WrittenOf(b, s, pr) = q \o << >>
    BY <2>2, <2>12 DEF WrittenOf
  <2>14. q \o << >> = q
    BY <2>7, ConcatEmptySeq
  <2>15. QED
    BY <2>7, <2>8, <2>13, <2>14 DEF Printed, Tokens
<1>8. QED
  BY <1>5, <1>6, <1>7

\* What center_and_print makes of the buffer.
EndedOf(b, o, pr) ==
  IF pr.newline = "stored" THEN Store(b, o, <<"nl", "nul">>)
  ELSE IF pr.newline = "swapped" THEN Store(b, o, <<"nul", "nl">>)
  ELSE IF pr.escape = "buffer"
    THEN Store(b, o + 1, <<"esc", "columns", "C", "nul">>)
  ELSE b

LEMMA EndPrinted ==
  ASSUME NEW calls, NEW pr, NEW m, SuitsText(calls, pr, m),
         NEW all, all = Composed(m, calls),
         NEW b \in Buffers, NEW s \in Nat \ {0}, pr.scan \in {0, 1},
         Holds(b, s, all), s + Len(all) + 4 <= Size,
         Closed(calls, b, s + Len(all)),
         pr.newline # "swapped"
  PROVE  /\ EndedOf(b, s + Len(all), pr) \in Buffers
         /\ Printed(calls, pr, m, WrittenOf(EndedOf(b, s + Len(all), pr),
                                            s, pr))
<1>1. all \in Tokens
  BY ComposedTokens
<1>2. PICK n, o : n = Len(all) /\ o = s + n
  OBVIOUS
<1>3. n \in Nat /\ o \in 1 .. Size /\ o + 4 <= Size
  BY <1>1, <1>2 DEF Tokens
<1>4. s + Len(all) + 1 <= Size
  BY <1>2, <1>3
<1>5. PICK c : c = EndedOf(b, o, pr)
  OBVIOUS
<1>6. CASE pr.newline = "stored"
  <2>1. PICK t : t = <<"nl", "nul">>
    OBVIOUS
  <2>2. t \in Tokens /\ Len(t) = 2 /\ t[1] = "nl" /\ t[2] = "nul"
    BY <2>1 DEF Token, Tokens
  <2>3. c = Store(b, o, t)
    BY <1>5, <1>6, <2>1 DEF EndedOf
  <2>4. o + Len(t) - 1 <= Size
    BY <1>3, <2>2
  <2>5. c \in Buffers /\ Holds(c, o, t)
    BY <1>3, <2>2, <2>3, <2>4, StoreKeeps
  <2>6. Holds(c, s, all)
    <3>1. s + Len(all) <= o
      BY <1>2, <1>3
    <3>2. QED
      BY <1>1, <1>3, <2>2, <2>3, <2>4, <3>1, StoreBehind
  <2>7. c[o] = "nl" /\ c[o + 1] = "nul"
    <3>1. 1 \in 1 .. 2 /\ 2 \in 1 .. 2 /\ o + 1 - 1 = o /\ o + 2 - 1 = o + 1
      BY <1>3
    <3>2. c[o + 1 - 1] = t[1] /\ c[o + 2 - 1] = t[2]
      BY <2>2, <2>5, <3>1 DEF Holds
    <3>3. QED
      BY <2>2, <3>1, <3>2
  <2>8. Clean(all)
    BY <1>6 DEF Clean, SuitsText
  <2>9. pr.newline # "after"
    BY <1>6
  <2>10. Printed(calls, pr, m, WrittenOf(c, s, pr))
    BY <1>2, <1>4, <2>5, <2>6, <2>7, <2>8, <2>9, NlPrinted
  <2>11. QED
    BY <1>2, <1>5, <2>5, <2>10
<1>7. CASE pr.newline # "stored" /\ pr.escape = "buffer"
  <2>1. PICK t : t = <<"esc", "columns", "C", "nul">>
    OBVIOUS
  <2>2. t \in Tokens /\ Len(t) = 4
    BY <2>1 DEF Token, Tokens
  <2>3. c = Store(b, o + 1, t)
    BY <1>5, <1>7, <2>1 DEF EndedOf
  <2>4. /\ o + 1 \in 1 .. Size /\ (o + 1) + Len(t) - 1 <= Size
        /\ s + Len(all) <= o + 1
    BY <1>2, <1>3, <2>2
  <2>5. c \in Buffers /\ \A k \in 1 .. Size : k < o + 1 => c[k] = b[k]
    BY <2>2, <2>3, <2>4, StoreKeeps
  <2>6. Holds(c, s, all)
    BY <1>1, <2>2, <2>3, <2>4, StoreBehind
  <2>7. ~ LastBehind(calls)
    BY <1>7 DEF SuitsText
  <2>8. c[o] = b[o]
    BY <1>3, <2>5
  <2>9. Closed(calls, c, o)
    BY <1>2, <2>7, <2>8 DEF Closed
  <2>10. Printed(calls, pr, m, WrittenOf(c, s, pr))
    BY <1>2, <1>4, <1>7, <2>5, <2>6, <2>9, CleanEnd
  <2>11. QED
    BY <1>2, <1>5, <2>5, <2>10
<1>8. CASE pr.newline # "stored" /\ pr.escape # "buffer"
  <2>1. c = b
    BY <1>5, <1>8 DEF EndedOf
  <2>2. Printed(calls, pr, m, WrittenOf(b, s, pr))
    BY <1>4, <1>8, CleanEnd
  <2>3. QED
    BY <1>2, <1>5, <2>1, <2>2
<1>9. QED
  BY <1>6, <1>7, <1>8

-----------------------------------------------------------------------------
(***************************************************************************)
(* How long the line is, and where it is put.                              *)
(***************************************************************************)
LEMMA LengthRight ==
  ASSUME NEW calls, NEW pr, NEW m, SuitsText(calls, pr, m),
         NEW all, all = Composed(m, calls),
         NEW b \in Buffers, NEW s \in Nat \ {0},
         Holds(b, s, all), s + Len(all) + 1 <= Size,
         Closed(calls, b, s + Len(all)), pr.measure = "scan"
  PROVE  NulBehind(b, s + 1) = s + Len(all)
<1>1. all \in Tokens
  BY ComposedTokens
<1>2. PICK n : n = Len(all)
  OBVIOUS
<1>3. n \in Nat /\ n >= 1
  BY <1>1, <1>2 DEF SuitsText, Tokens
<1>4. \A j \in 1 .. n : all[j] # "nul"
  BY <1>2 DEF SuitsText
<1>5. ~ LastBehind(calls)
  BY DEF SuitsText
<1>6. b[s + n] = "nul"
  BY <1>2, <1>5 DEF Closed
<1>7. s + n <= Size
  BY <1>2, <1>3
<1>8. Lies(b, s, all)
  BY <1>1, <1>2, <1>4, <1>6, <1>7 DEF Lies
<1>9. 1 \in 0 .. Len(all)
  BY <1>2, <1>3
<1>10. QED
  BY <1>8, <1>9, NulFound

\* Where the line is put.
Placed(calls, pr, m, place) ==
  LET n == Len(Composed(m, calls))
  IN  place = IF n > Columns - 80 + pr.largest THEN Nothing
              ELSE (pr.minuend - 80 + Columns - n
                      + (IF pr.halves = "up" THEN 1 ELSE 0)) \div 2

LEMMA PlacedCentered ==
  ASSUME NEW calls, NEW pr, NEW m, SuitsText(calls, pr, m),
         SuitsScreen(calls, pr, m), pr.minuend \in {80, 81},
         pr.largest \in 79 .. pr.minuend,
         NEW place, Placed(calls, pr, m, place),
         NEW width, width = Len(AskedLine(m, calls)),
         NEW left, left = IF place = Nothing THEN 0 ELSE place
  PROVE  IF width <= Columns
           THEN left >= 0 /\ 2 * left + width - Columns \in -2 .. 2
           ELSE place = Nothing
<1>1. PICK n : n = Len(Composed(m, calls))
  OBVIOUS
<1>2. n \in Nat
  BY <1>1, ComposedTokens DEF Tokens
<1>3. width \in Nat
  <2>1. PICK all : all = Composed(m, calls)
    OBVIOUS
  <2>2. all \in Tokens
    BY <2>1, ComposedTokens
  <2>3. PICK f : Seeing(f, all)
    BY <2>2, SeeingExists
  <2>4. Visible(all) = f[Len(all)]
    BY <2>2, <2>3, SeeingVisible
  <2>5. Len(all) \in 0 .. Len(all)
    BY <2>2 DEF Tokens
  <2>6. f[Len(all)] \in Tokens
    BY <2>3, <2>5 DEF Seeing
  <2>7. Visible(all) = AskedLine(m, calls)
    BY <2>1, LineAsked
  <2>8. QED
    BY <2>4, <2>6, <2>7 DEF Tokens
<1>4. PICK d : d = n - width
  OBVIOUS
<1>5. d \in 0 .. pr.minuend - 79
  BY <1>1, <1>4 DEF SuitsScreen
<1>6. IF n > Columns - 80 + pr.largest THEN pr.over = "skip"
                                       ELSE width <= Columns
  BY <1>1 DEF SuitsScreen
<1>7. PICK h : h = IF pr.halves = "up" THEN 1 ELSE 0
  OBVIOUS
<1>8. PICK max, large : max = pr.minuend /\ large = pr.largest
  OBVIOUS
<1>9. /\ max \in {80, 81} /\ large \in 79 .. max /\ h \in {0, 1}
      /\ d \in 0 .. max - 79 /\ n = width + d
  BY <1>2, <1>3, <1>4, <1>5, <1>7, <1>8
<1>10. place = IF n > Columns - 80 + large THEN Nothing
               ELSE (max - 80 + Columns - n + h) \div 2
  BY <1>1, <1>7, <1>8 DEF Placed
<1>11. CASE n > Columns - 80 + large
  <2>1. place = Nothing /\ left = 0
    BY <1>10, <1>11
  <2>2. CASE width <= Columns
    <3>1. width - Columns \in -2 .. 2
      BY <1>3, <1>9, <1>11, <2>2
    <3>2. 2 * left + width - Columns = width - Columns
      BY <1>3, <2>1
    <3>3. QED
      BY <2>1, <2>2, <3>1, <3>2
  <2>3. QED
    BY <2>1, <2>2
<1>12. CASE ~ (n > Columns - 80 + large)
  <2>1. width <= Columns
    BY <1>6, <1>8, <1>12
  <2>2. PICK x : x = max - 80 + Columns - n + h
    OBVIOUS
  <2>3. x \in Nat
    BY <1>2, <1>9, <1>12, <2>2
  <2>4. PICK y : y = x \div 2
    OBVIOUS
  <2>5. y \in Nat /\ 2 * y \in x - 1 .. x
    BY <2>3, <2>4
  <2>6. place = y
    BY <1>10, <1>12, <2>2, <2>4
  <2>7. left = y
    BY <2>5, <2>6 DEF Nothing
  <2>8. x + width - Columns \in -1 .. 2
    BY <1>3, <1>9, <2>2
  <2>9. 2 * y + width - Columns \in -2 .. 2
    BY <1>3, <2>3, <2>5, <2>8
  <2>10. QED
    BY <2>1, <2>5, <2>7, <2>9
<1>13. QED
  BY <1>11, <1>12

-----------------------------------------------------------------------------
(***************************************************************************)
(* The inductive invariant: where a line begins, what of it has been       *)
(* composed, what would be printed of it, and what was printed before.     *)
(***************************************************************************)
LineOf(k) == Composed(machine, page[k])

Begins(k) == IF k = 3 /\ ~print.rewinds THEN 1 + Len(LineOf(2)) ELSE 1

PlaceInv ==
  /\ Suits(page, print, machine)
  /\ pc \in {"compose", "write", "exit"}
  /\ line \in 1 .. 3
  /\ out_buffer \in Buffers
  /\ start = Begins(line)

ComposeInv ==
  pc = "compose" =>
    /\ at \in 1 .. Len(page[line]) + 1
    /\ \E f : /\ Line(f, page[line], machine)
              /\ out = start + Len(f[at - 1])
              /\ Holds(out_buffer, start, f[at - 1])
    /\ at = Len(page[line]) + 1 => Closed(page[line], out_buffer, out)

WriteInv ==
  pc = "write" => /\ out = start + Len(LineOf(line))
                  /\ Printed(page[line], print, machine, Written)
                  /\ Placed(page[line], print, machine, shift)

RowRight(k, row) ==
  /\ Printed(page[k], print, machine, row.text)
  /\ Placed(page[k], print, machine, row.shift)

Rows == [shift : Int, text : Tokens]

ScreenInv ==
  /\ screen \in Seq(Rows)
  /\ Len(screen) = IF pc = "exit" THEN line ELSE line - 1
  /\ \A k \in 1 .. Len(screen) : RowRight(k, screen[k])

TextInv == PlaceInv /\ ComposeInv /\ WriteInv /\ ScreenInv

LEMMA LinesSuit ==
  ASSUME PlaceInv, NEW k \in 1 .. 3
  PROVE  /\ SuitsText(page[k], print, machine)
         /\ SuitsScreen(page[k], print, machine)
         /\ k < 3 => SuitsEnd(page[k], print, machine)
         /\ print.scan \in {0, 1} /\ print.minuend \in {80, 81}
         /\ print.largest \in 79 .. print.minuend
         /\ print.newline # "swapped"
         /\ Len(page) = 3
<1>1. Suits(page, print, machine)
  BY DEF PlaceInv
<1>2. k < 3 => k \in 1 .. 2
  OBVIOUS
<1>3. QED
  BY <1>1, <1>2 DEF Suits

\* There is room for the line and what is put behind it.
LEMMA RoomLeft ==
  ASSUME PlaceInv, NEW n, n = Len(LineOf(line))
  PROVE  start \in Nat \ {0} /\ n \in Nat /\ start + n + 4 <= Size
<1>1. \A k \in 1 .. 3 : LineOf(k) \in Tokens
  BY LinesSuit, ComposedTokens DEF LineOf
<1>2. PICK a, b, c : a = Len(LineOf(1)) /\ b = Len(LineOf(2))
                       /\ c = Len(LineOf(3))
  OBVIOUS
<1>3. a \in Nat /\ b \in Nat /\ c \in Nat
  <2>1. LineOf(1) \in Tokens /\ LineOf(2) \in Tokens /\ LineOf(3) \in Tokens
    BY <1>1
  <2>2. QED
    BY <1>2, <2>1 DEF Tokens
<1>4. /\ \A k \in 1 .. 3 : Len(LineOf(k)) + 5 <= Size
      /\ ~print.rewinds => b + c + 5 <= Size
  BY <1>2 DEF PlaceInv, Suits, LineOf
<1>5. a + 5 <= Size /\ b + 5 <= Size /\ c + 5 <= Size
  BY <1>2, <1>4
<1>6. line \in 1 .. 3 /\ start = Begins(line)
  BY DEF PlaceInv
<1>7. CASE line = 1
  BY <1>2, <1>3, <1>5, <1>6, <1>7 DEF Begins
<1>8. CASE line = 2
  BY <1>2, <1>3, <1>5, <1>6, <1>8 DEF Begins
<1>9. CASE line = 3 /\ print.rewinds
  BY <1>2, <1>3, <1>5, <1>6, <1>9 DEF Begins
<1>10. CASE line = 3 /\ ~print.rewinds
  <2>1. start = 1 + b /\ n = c
    BY <1>2, <1>6, <1>10 DEF Begins
  <2>2. QED
    BY <1>3, <1>4, <1>10, <2>1
<1>11. QED
  BY <1>6, <1>7, <1>8, <1>9, <1>10

-----------------------------------------------------------------------------
LEMMA InitText ==
  ASSUME JobsSuit, Init
  PROVE  TextInv
<1>1. Suits(page, print, machine)
  BY DEF Init, JobsSuit
<1>2. out_buffer \in Buffers
  BY DEF Init, Buffers, Token
<1>3. PlaceInv
  BY <1>1, <1>2 DEF Init, PlaceInv, Begins
<1>4. SuitsText(page[1], print, machine)
  BY <1>3, LinesSuit
<1>5. PICK f : Line(f, page[1], machine)
  BY <1>4, LineExists
<1>6. Len(page[1]) \in Nat \ {0} /\ f[0] = << >>
  BY <1>5 DEF Line
<1>7. Len(f[0]) = 0 /\ Holds(out_buffer, 1, f[0])
  BY <1>6 DEF Holds
<1>8. at = 1 /\ line = 1 /\ out = 1 /\ start = 1 /\ at - 1 = 0
  BY DEF Init
<1>9. Len(f[at - 1]) = 0 /\ Holds(out_buffer, start, f[at - 1])
  BY <1>7, <1>8
<1>10. ComposeInv
  <2>1. at \in 1 .. Len(page[line]) + 1 /\ at # Len(page[line]) + 1
    BY <1>6, <1>8
  <2>2. Line(f, page[line], machine)
    BY <1>5, <1>8
  <2>3. out = start + Len(f[at - 1])
    BY <1>8, <1>9
  <2>4. QED
    BY <1>9, <2>1, <2>2, <2>3 DEF ComposeInv
<1>11. WriteInv
  BY DEF Init, WriteInv
<1>12. ScreenInv
  BY DEF Init, ScreenInv
<1>13. QED
  BY <1>3, <1>10, <1>11, <1>12 DEF TextInv

LEMMA ComposeText ==
  ASSUME TextInv, Compose
  PROVE  TextInv'
<1>1. /\ pc = "compose" /\ pc' = pc /\ line' = line
      /\ page' = page /\ print' = print /\ machine' = machine
      /\ start' = start /\ shift' = shift /\ screen' = screen
      /\ at' = at + 1
  BY DEF Compose, given
<1>2. PlaceInv /\ ComposeInv /\ ScreenInv
  BY DEF TextInv
<1>3. PICK calls : calls = page[line]
  OBVIOUS
<1>4. SuitsText(calls, print, machine)
  BY <1>2, <1>3, LinesSuit DEF PlaceInv
<1>5. PICK f : /\ Line(f, calls, machine)
               /\ out = start + Len(f[at - 1])
               /\ Holds(out_buffer, start, f[at - 1])
  BY <1>1, <1>2, <1>3 DEF ComposeInv
<1>6. PICK n : n = Len(calls)
  OBVIOUS
<1>7. n \in Nat \ {0} /\ at \in 1 .. n
  BY <1>1, <1>2, <1>3, <1>5, <1>6 DEF ComposeInv, Compose, Line
<1>8. PICK x, y, z : /\ x = f[at - 1] /\ y = Part(machine, calls[at])
                     /\ z = f[at]
  OBVIOUS
<1>9. Joined(x, y, z)
  BY <1>5, <1>6, <1>7, <1>8 DEF Line
<1>10. Len(z) \in Nat /\ Len(x) \in Nat /\ x \in Tokens
  BY <1>9 DEF Joined, Tokens
<1>11. start \in Nat \ {0} /\ start + Len(z) + 4 <= Size
  <2>1. PICK l : l = Len(LineOf(line))
    OBVIOUS
  <2>2. start \in Nat \ {0} /\ l \in Nat /\ start + l + 4 <= Size
    BY <1>2, <2>1, RoomLeft
  <2>3. f[n] = LineOf(line)
    BY <1>3, <1>5, <1>6 DEF Line, LineOf
  <2>4. Len(z) <= l
    <3>1. at \in 0 .. n
      BY <1>7
    <3>2. Len(f[at]) <= Len(f[n])
      BY <1>5, <1>6, <3>1 DEF Line
    <3>3. QED
      BY <1>8, <2>1, <2>3, <3>2
  <2>5. QED
    BY <1>10, <2>2, <2>4
<1>12. PICK cells : cells = Cells(machine, calls[at])
  OBVIOUS
<1>13. /\ out_buffer' = Store(out_buffer, out, Append(cells, "nul"))
       /\ out' = IF calls[at][1] = "behind" THEN out ELSE out + Len(cells)
  BY <1>3, <1>12 DEF Compose
<1>14. out_buffer \in Buffers /\ Holds(out_buffer, start, x)
       /\ out = start + Len(x)
  BY <1>2, <1>5, <1>8 DEF PlaceInv
<1>15. /\ out_buffer' \in Buffers
       /\ out' = start + Len(z)
       /\ Holds(out_buffer', start, z)
       /\ at = n => Closed(calls, out_buffer', out')
  <2>1. CASE calls[at][1] # "behind"
    <3>1. y = cells
      BY <1>8, <1>12, <2>1 DEF Part
    <3>2. start + Len(z) <= Size
      BY <1>10, <1>11
    <3>3. PICK c : /\ c = Store(out_buffer, start + Len(x), Append(y, "nul"))
                   /\ c \in Buffers
                   /\ Holds(c, start, z)
                   /\ c[start + Len(z)] = "nul"
      BY <1>9, <1>11, <1>14, <3>2, StoreNext
    <3>4. out_buffer' = c
      BY <1>13, <1>14, <3>1, <3>3
    <3>5. out' = start + Len(z)
      <4>1. Len(z) = Len(x) + Len(y) /\ Len(y) \in Nat
        BY <1>9 DEF Joined, Tokens
      <4>2. out' = start + Len(x) + Len(y)
        BY <1>13, <1>14, <2>1, <3>1
      <4>3. QED
        BY <1>10, <1>11, <4>1, <4>2
    <3>6. at = n => ~ LastBehind(calls)
      BY <1>6, <2>1 DEF LastBehind
    <3>7. QED
      BY <3>3, <3>4, <3>5, <3>6 DEF Closed
  <2>2. CASE calls[at][1] = "behind"
    <3>1. y = << >>
      BY <1>8, <2>2 DEF Part
    <3>2. Len(z) = Len(x) /\ \A j \in 1 .. Len(x) : z[j] = x[j]
      BY <1>9, <1>10, <3>1 DEF Joined
    <3>3. at = n /\ LastBehind(calls) /\ cells = <<"nl">>
      <4>1. DOMAIN calls = 1 .. n
        BY <1>4, <1>6 DEF SuitsText
      <4>2. at = n
        BY <1>4, <1>6, <1>7, <2>2, <4>1 DEF SuitsText
      <4>3. LastBehind(calls)
        BY <1>6, <2>2, <4>2 DEF LastBehind
      <4>4. QED
        BY <1>4, <1>6, <1>12, <4>2, <4>3 DEF SuitsText
    <3>4. PICK t : t = Append(cells, "nul")
      OBVIOUS
    <3>5. t \in Tokens /\ Len(t) = 2 /\ t[1] = "nl" /\ t[2] = "nul"
      BY <3>3, <3>4 DEF Token, Tokens
    <3>6. /\ out \in 1 .. Size /\ out + Len(t) - 1 <= Size
          /\ start + Len(x) <= out
      BY <1>10, <1>11, <1>14, <3>2, <3>5
    <3>7. out_buffer' = Store(out_buffer, out, t)
      BY <1>13, <3>4
    <3>8. out_buffer' \in Buffers /\ Holds(out_buffer', out, t)
      BY <1>14, <3>5, <3>6, <3>7, StoreKeeps
    <3>9. Holds(out_buffer', start, x)
      BY <1>10, <1>11, <1>14, <3>5, <3>6, <3>7, StoreBehind
    <3>10. Holds(out_buffer', start, z)
      BY <3>2, <3>9 DEF Holds
    <3>11. out' = out
      BY <1>13, <2>2
    <3>12. out_buffer'[out] = "nl" /\ out_buffer'[out + 1] = "nul"
      <4>1. /\ 1 \in 1 .. 2 /\ 2 \in 1 .. 2
            /\ out + 1 - 1 = out /\ out + 2 - 1 = out + 1
        BY <3>6
      <4>2. out_buffer'[out + 1 - 1] = t[1] /\ out_buffer'[out + 2 - 1] = t[2]
        BY <3>5, <3>8, <4>1 DEF Holds
      <4>3. QED
        BY <3>5, <4>1, <4>2
    <3>13. QED
      BY <1>14, <3>2, <3>3, <3>8, <3>10, <3>11, <3>12 DEF Closed
  <2>3. QED
    BY <2>1, <2>2
<1>16. at' - 1 = at /\ at' \in 1 .. n + 1 /\ (at' = n + 1 => at = n)
  BY <1>1, <1>7
<1>17. PlaceInv'
  <2>1. Begins(line)' = Begins(line)
    BY <1>1 DEF Begins, LineOf
  <2>2. QED
    BY <1>1, <1>2, <1>15, <2>1 DEF PlaceInv
<1>18. ComposeInv'
  <2>1. page[line]' = calls
    BY <1>1, <1>3
  <2>2. /\ out' = start' + Len(f[at' - 1])
        /\ Holds(out_buffer', start', f[at' - 1])
    BY <1>1, <1>8, <1>15, <1>16
  <2>3. Line(f, page[line]', machine')
    BY <1>1, <1>5, <2>1
  <2>4. at' = n + 1 => Closed(page[line]', out_buffer', out')
    BY <1>15, <1>16, <2>1
  <2>5. at' \in 1 .. Len(page[line]') + 1
    BY <1>6, <1>16, <2>1
  <2>6. QED
    BY <1>6, <2>1, <2>2, <2>3, <2>4, <2>5 DEF ComposeInv
<1>19. WriteInv'
  BY <1>1 DEF WriteInv
<1>20. ScreenInv'
  BY <1>1, <1>2 DEF ScreenInv, RowRight
<1>21. QED
  BY <1>17, <1>18, <1>19, <1>20 DEF TextInv

LEMMA CenterAndPrintText ==
  ASSUME TextInv, CenterAndPrint
  PROVE  TextInv'
<1>1. /\ pc = "compose" /\ pc' = "write" /\ line' = line
      /\ page' = page /\ print' = print /\ machine' = machine
      /\ start' = start /\ out' = out /\ screen' = screen
      /\ shift' = Shift /\ out_buffer' = Ended
  BY DEF CenterAndPrint, given
<1>2. PlaceInv /\ ComposeInv /\ ScreenInv
  BY DEF TextInv
<1>3. PICK calls : calls = page[line]
  OBVIOUS
<1>4. /\ SuitsText(calls, print, machine)
      /\ print.scan \in {0, 1} /\ print.newline # "swapped"
  BY <1>2, <1>3, LinesSuit DEF PlaceInv
<1>5. PICK f : /\ Line(f, calls, machine)
               /\ out = start + Len(f[at - 1])
               /\ Holds(out_buffer, start, f[at - 1])
  BY <1>1, <1>2, <1>3 DEF ComposeInv
<1>6. PICK n : n = Len(calls)
  OBVIOUS
<1>7. n \in Nat \ {0} /\ at = n + 1 /\ at - 1 = n
  <2>1. n \in Nat \ {0}
    BY <1>5, <1>6 DEF Line
  <2>2. at \in 1 .. n + 1 /\ at > n
    BY <1>1, <1>2, <1>3, <1>6 DEF ComposeInv, CenterAndPrint
  <2>3. QED
    BY <2>1, <2>2
<1>8. PICK all : all = Composed(machine, calls)
  OBVIOUS
<1>9. f[n] = all
  BY <1>5, <1>6, <1>8 DEF Line
<1>10. out = start + Len(all) /\ Holds(out_buffer, start, all)
  BY <1>5, <1>7, <1>9
<1>11. Closed(calls, out_buffer, start + Len(all))
  BY <1>1, <1>2, <1>3, <1>6, <1>7, <1>10 DEF ComposeInv
<1>12. /\ start \in Nat \ {0} /\ Len(all) \in Nat
       /\ start + Len(all) + 4 <= Size
  BY <1>2, <1>3, <1>8, RoomLeft DEF LineOf
<1>13. start + Len(all) + 1 <= Size
  BY <1>12
<1>14. out_buffer \in Buffers
  BY <1>2 DEF PlaceInv
<1>15. Ended = EndedOf(out_buffer, start + Len(all), print)
  BY <1>10 DEF Ended, EndedOf
<1>16. /\ out_buffer' \in Buffers
       /\ Printed(calls, print, machine, WrittenOf(out_buffer', start, print))
  BY <1>1, <1>4, <1>8, <1>10, <1>11, <1>12, <1>14, <1>15, EndPrinted
<1>17. Written' = WrittenOf(out_buffer', start', print')
  BY DEF Written, WrittenOf, NulFrom, NulBehind
<1>18. Length = Len(all)
  <2>1. CASE print.measure = "scan"
    <3>1. NulBehind(out_buffer, start + 1) = start + Len(all)
      BY <1>4, <1>8, <1>10, <1>11, <1>12, <1>13, <1>14, <2>1, LengthRight
    <3>2. Length = NulBehind(out_buffer, start + 1) - start
      BY <2>1 DEF Length, NulFrom, NulBehind
    <3>3. QED
      BY <1>12, <3>1, <3>2
  <2>2. CASE print.measure # "scan"
    <3>1. Length = out - start
      BY <2>2 DEF Length
    <3>2. QED
      BY <1>10, <1>12, <3>1
  <2>3. QED
    BY <2>1, <2>2
<1>19. Placed(calls, print, machine, shift')
  <2>1. SuitsScreen(calls, print, machine)
    BY <1>2, <1>3, LinesSuit DEF PlaceInv
  <2>2. PICK l, large, max :
          l = Len(all) /\ large = print.largest /\ max = print.minuend
    OBVIOUS
  <2>3. l \in Nat /\ max \in {80, 81} /\ large \in 79 .. max
    BY <1>2, <1>12, <2>2, LinesSuit DEF PlaceInv
  <2>4. Scaled(large) = Columns - 80 + large
    BY <2>3 DEF Scaled
  <2>5. Scaled(max) = max - 80 + Columns
    BY DEF Scaled
  <2>6. CASE l > Columns - 80 + large
    <3>1. print.over = "skip"
      BY <1>8, <2>1, <2>2, <2>6 DEF SuitsScreen
    <3>2. TooLong
      BY <1>18, <2>2, <2>4, <2>6 DEF TooLong
    <3>3. Shift = Nothing
      BY <3>1, <3>2 DEF Shift
    <3>4. QED
      BY <1>1, <1>8, <2>2, <2>6, <3>3 DEF Placed
  <2>7. CASE ~ (l > Columns - 80 + large)
    <3>1. ~ TooLong
      BY <1>18, <2>2, <2>4, <2>7 DEF TooLong
    <3>2. PICK h : h = IF print.halves = "up" THEN 1 ELSE 0
      OBVIOUS
    <3>3. Shift = (Scaled(max) - l + h) \div 2
      BY <1>18, <2>2, <3>1, <3>2 DEF Shift
    <3>4. shift' = (max - 80 + Columns - l + h) \div 2
      <4>1. PICK e : e = Scaled(max)
        OBVIOUS
      <4>2. e = max - 80 + Columns /\ h \in {0, 1}
        BY <2>5, <3>2, <4>1
      <4>3. e - l + h = max - 80 + Columns - l + h
        BY <2>3, <4>2
      <4>4. QED
        BY <1>1, <3>3, <4>1, <4>3
    <3>5. QED
      BY <1>8, <2>2, <2>7, <3>2, <3>4 DEF Placed
  <2>8. QED
    BY <2>6, <2>7
<1>20. PlaceInv'
  <2>1. Begins(line)' = Begins(line)
    BY <1>1 DEF Begins, LineOf
  <2>2. QED
    BY <1>1, <1>2, <1>16, <2>1 DEF PlaceInv
<1>21. ComposeInv'
  BY <1>1 DEF ComposeInv
<1>22. WriteInv'
  <2>1. page[line]' = calls /\ LineOf(line)' = all
    BY <1>1, <1>3, <1>8 DEF LineOf
  <2>2. Printed(page[line]', print', machine', Written')
    BY <1>1, <1>16, <1>17, <2>1
  <2>3. Placed(page[line]', print', machine', shift')
    BY <1>1, <1>19, <2>1
  <2>4. out' = start' + Len(LineOf(line)')
    BY <1>1, <1>10, <2>1
  <2>5. QED
    BY <2>2, <2>3, <2>4 DEF WriteInv
<1>23. ScreenInv'
  BY <1>1, <1>2 DEF ScreenInv, RowRight
<1>24. QED
  BY <1>20, <1>21, <1>22, <1>23 DEF TextInv

\* A place is a column or nothing, and no line is printed twice.
LEMMA PlacedSomewhere ==
  ASSUME PlaceInv, NEW k \in 1 .. 3, NEW place,
         Placed(page[k], print, machine, place)
  PROVE  place \in Int /\ place # Dangling
<1>1. PICK n, large, max : /\ n = Len(Composed(machine, page[k]))
                           /\ large = print.largest /\ max = print.minuend
  OBVIOUS
<1>2. PICK h : h = IF print.halves = "up" THEN 1 ELSE 0
  OBVIOUS
<1>3. n \in Nat
  BY <1>1, LinesSuit, ComposedTokens DEF Tokens
<1>4. max \in {80, 81} /\ large \in 79 .. max /\ h \in {0, 1}
  BY <1>1, <1>2, LinesSuit
<1>5. place = IF n > Columns - 80 + large THEN Nothing
              ELSE (max - 80 + Columns - n + h) \div 2
  BY <1>1, <1>2 DEF Placed
<1>6. CASE n > Columns - 80 + large
  BY <1>5, <1>6 DEF Nothing, Dangling
<1>7. CASE ~ (n > Columns - 80 + large)
  <2>1. PICK x : x = max - 80 + Columns - n + h
    OBVIOUS
  <2>2. x \in Nat
    BY <1>3, <1>4, <1>7, <2>1
  <2>3. x \div 2 \in Nat
    BY <2>2
  <2>4. place = x \div 2
    BY <1>5, <1>7, <2>1
  <2>5. QED
    BY <2>3, <2>4 DEF Dangling
<1>8. QED
  BY <1>6, <1>7

\* What is shown is a right row, and once.
LEMMA ShowText ==
  ASSUME TextInv, pc = "write", Show,
         page' = page, print' = print, machine' = machine
  PROVE  /\ screen' \in Seq(Rows)
         /\ Len(screen') = line
         /\ (\A k \in 1 .. Len(screen) : RowRight(k, screen[k]))'
         /\ ~ Again
<1>1. PlaceInv /\ WriteInv /\ ScreenInv
  BY DEF TextInv
<1>2. line \in 1 .. 3
  BY <1>1 DEF PlaceInv
<1>3. /\ Printed(page[line], print, machine, Written)
      /\ Placed(page[line], print, machine, shift)
  BY <1>1 DEF WriteInv
<1>4. shift \in Int /\ shift # Dangling
  BY <1>1, <1>2, <1>3, PlacedSomewhere
<1>5. PICK row : row = Row
  OBVIOUS
<1>6. row.text = Written /\ row.shift = shift /\ row \in Rows
  <2>1. Written \in Tokens
    BY <1>3 DEF Printed
  <2>2. row = [shift |-> shift, text |-> Written]
    BY <1>4, <1>5 DEF Row
  <2>3. QED
    BY <1>4, <2>1, <2>2 DEF Rows
<1>7. RowRight(line, row)
  BY <1>3, <1>6 DEF RowRight
<1>8. PICK n : n = Len(screen)
  OBVIOUS
<1>9. n \in Nat /\ n + 1 = line /\ screen \in Seq(Rows)
  BY <1>1, <1>2, <1>8 DEF ScreenInv
<1>10. screen' = Append(screen, row)
  BY <1>5, <1>8, <1>9 DEF Show
<1>11. /\ screen' \in Seq(Rows) /\ Len(screen') = n + 1
       /\ \A k \in 1 .. n : screen'[k] = screen[k]
       /\ screen'[n + 1] = row
  BY <1>6, <1>8, <1>9, <1>10, AppendProperties
<1>12. ASSUME NEW k \in 1 .. n + 1 PROVE RowRight(k, screen'[k])
  <2>1. CASE k \in 1 .. n
    BY <1>1, <1>8, <1>11, <2>1 DEF ScreenInv
  <2>2. CASE k \notin 1 .. n
    <3>1. k = n + 1
      BY <1>9, <2>2
    <3>2. QED
      BY <1>7, <1>9, <1>11, <3>1
  <2>3. QED
    BY <2>1, <2>2
<1>13. (\A k \in 1 .. Len(screen) : RowRight(k, screen[k]))'
  BY <1>11, <1>12 DEF RowRight
<1>14. ~ Again
  BY <1>4 DEF Again
<1>15. QED
  BY <1>9, <1>11, <1>13, <1>14

LEMMA WriteStdoutText ==
  ASSUME TextInv, WriteStdout
  PROVE  TextInv'
<1>1. /\ pc = "write" /\ pc' = "compose" /\ Show
      /\ page' = page /\ print' = print /\ machine' = machine
      /\ out_buffer' = out_buffer /\ shift' = shift
  BY DEF WriteStdout, given
<1>2. /\ screen' \in Seq(Rows)
      /\ Len(screen') = line
      /\ (\A k \in 1 .. Len(screen) : RowRight(k, screen[k]))'
      /\ ~ Again
  BY <1>1, ShowText
<1>3. /\ line' = line + 1 /\ at' = 1
      /\ out' = IF print.rewinds \/ line = 1 THEN 1 ELSE out
      /\ start' = out'
  BY <1>2 DEF WriteStdout, Begin
<1>4. PlaceInv /\ WriteInv
  BY DEF TextInv
<1>5. line \in 1 .. 3 /\ line # 3
  <2>1. Len(page) = 3
    BY <1>4, LinesSuit
  <2>2. line # Len(page)
    BY <1>2 DEF WriteStdout, Finished
  <2>3. QED
    BY <1>4, <2>1, <2>2 DEF PlaceInv
<1>6. line' \in 1 .. 3 /\ (line' = 3 <=> line = 2)
  BY <1>3, <1>5
<1>7. start' = Begins(line)'
  <2>1. Begins(line)' = IF line' = 3 /\ ~print.rewinds
                          THEN 1 + Len(LineOf(2)) ELSE 1
    BY <1>1 DEF Begins, LineOf
  <2>2. CASE print.rewinds \/ line = 1
    BY <1>3, <1>6, <2>1, <2>2
  <2>3. CASE ~print.rewinds /\ line = 2
    <3>1. start = 1
      BY <1>4, <2>3 DEF PlaceInv, Begins
    <3>2. out = 1 + Len(LineOf(2))
      BY <1>1, <1>4, <2>3, <3>1 DEF WriteInv
    <3>3. QED
      BY <1>3, <1>6, <2>1, <2>3, <3>2
  <2>4. QED
    BY <1>5, <2>2, <2>3
<1>8. PlaceInv'
  BY <1>1, <1>4, <1>6, <1>7 DEF PlaceInv
<1>9. ComposeInv'
  <2>1. PICK calls : calls = page'[line']
    OBVIOUS
  <2>2. SuitsText(calls, print, machine)
    BY <1>1, <1>4, <1>6, <2>1, LinesSuit
  <2>3. PICK f : Line(f, calls, machine)
    BY <2>2, LineExists
  <2>4. Len(calls) \in Nat \ {0} /\ f[0] = << >>
    BY <2>3 DEF Line
  <2>5. at' - 1 = 0 /\ at' \in 1 .. Len(calls) + 1 /\ at' # Len(calls) + 1
    BY <1>3, <2>4
  <2>6. Len(f[at' - 1]) = 0 /\ Holds(out_buffer', start', f[at' - 1])
    BY <2>4, <2>5 DEF Holds
  <2>7. start' \in Nat
    <3>1. PICK l : l = Len(LineOf(line))
      OBVIOUS
    <3>2. start \in Nat /\ l \in Nat
      BY <1>4, <3>1, RoomLeft
    <3>3. out = start + l
      BY <1>1, <1>4, <3>1 DEF WriteInv
    <3>4. out \in Nat
      BY <3>2, <3>3
    <3>5. QED
      BY <1>3, <3>4
  <2>8. out' = start' + Len(f[at' - 1])
    BY <1>3, <2>6, <2>7
  <2>9. page[line]' = calls
    BY <2>1
  <2>10. QED
    BY <1>1, <2>3, <2>5, <2>6, <2>8, <2>9 DEF ComposeInv
<1>10. WriteInv'
  BY <1>1 DEF WriteInv
<1>11. ScreenInv'
  <2>1. (IF pc = "exit" THEN line ELSE line - 1)' = line
    BY <1>1, <1>3, <1>5
  <2>2. QED
    BY <1>2, <2>1 DEF ScreenInv
<1>12. QED
  BY <1>8, <1>9, <1>10, <1>11 DEF TextInv

LEMMA ExitText ==
  ASSUME TextInv, Exit
  PROVE  TextInv'
<1>1. /\ pc = "write" /\ pc' = "exit" /\ Show
      /\ page' = page /\ print' = print /\ machine' = machine
      /\ line' = line /\ start' = start /\ out_buffer' = out_buffer
  BY DEF Exit, given
<1>2. /\ screen' \in Seq(Rows)
      /\ Len(screen') = line
      /\ (\A k \in 1 .. Len(screen) : RowRight(k, screen[k]))'
  BY <1>1, ShowText
<1>3. PlaceInv
  BY DEF TextInv
<1>4. PlaceInv'
  <2>1. Begins(line)' = Begins(line)
    BY <1>1 DEF Begins, LineOf
  <2>2. QED
    BY <1>1, <1>3, <2>1 DEF PlaceInv
<1>5. ComposeInv' /\ WriteInv'
  BY <1>1 DEF ComposeInv, WriteInv
<1>6. ScreenInv'
  BY <1>1, <1>2 DEF ScreenInv
<1>7. QED
  BY <1>4, <1>5, <1>6 DEF TextInv

LEMMA StutterText ==
  ASSUME TextInv, UNCHANGED vars
  PROVE  TextInv'
<1>1. /\ page' = page /\ print' = print /\ machine' = machine
      /\ line' = line /\ at' = at /\ out_buffer' = out_buffer
      /\ start' = start /\ out' = out /\ shift' = shift
      /\ screen' = screen /\ pc' = pc
  BY DEF vars
<1>2. PlaceInv'
  BY <1>1 DEF TextInv, PlaceInv, Begins, LineOf
<1>3. ComposeInv'
  BY <1>1 DEF TextInv, ComposeInv
<1>4. WriteInv'
  <2>1. Written' = Written
    BY <1>1 DEF Written, NulFrom
  <2>2. LineOf(line)' = LineOf(line)
    BY <1>1 DEF LineOf
  <2>3. QED
    BY <1>1, <2>1, <2>2 DEF TextInv, WriteInv
<1>5. ScreenInv'
  BY <1>1 DEF TextInv, ScreenInv, RowRight
<1>6. QED
  BY <1>2, <1>3, <1>4, <1>5 DEF TextInv

LEMMA NextText ==
  ASSUME TextInv, [Next]_vars
  PROVE  TextInv'
<1>1. CASE Compose
  BY <1>1, ComposeText
<1>2. CASE CenterAndPrint
  BY <1>2, CenterAndPrintText
<1>3. CASE WriteStdout
  BY <1>3, WriteStdoutText
<1>4. CASE Exit
  BY <1>4, ExitText
<1>5. CASE UNCHANGED vars
  BY <1>5, StutterText
<1>6. QED
  BY <1>1, <1>2, <1>3, <1>4, <1>5 DEF Next

-----------------------------------------------------------------------------
(***************************************************************************)
(* What is on the screen is right, by the rows of the invariant.           *)
(***************************************************************************)
LEMMA RowsRight ==
  ASSUME TextInv, NEW k \in DOMAIN screen
  PROVE  k \in 1 .. 3 /\ RowRight(k, screen[k])
<1>1. PlaceInv /\ ScreenInv
  BY DEF TextInv
<1>2. PICK n : n = Len(screen)
  OBVIOUS
<1>3. line \in 1 .. 3 /\ n \in {line, line - 1}
  BY <1>1, <1>2 DEF PlaceInv, ScreenInv
<1>4. k \in 1 .. n
  BY <1>1, <1>2 DEF ScreenInv
<1>5. QED
  BY <1>1, <1>2, <1>3, <1>4 DEF ScreenInv

LEMMA TextInvShown ==
  ASSUME TextInv
  PROVE  TextShown
<1>1. ASSUME NEW k \in DOMAIN screen
      PROVE  Visible(screen[k].text) = AskedLine(machine, page[k])
  <2>1. k \in 1 .. 3 /\ RowRight(k, screen[k])
    BY <1>1, RowsRight
  <2>2. SuitsText(page[k], print, machine)
    BY <2>1, LinesSuit DEF TextInv
  <2>3. QED
    BY <2>1, <2>2, PrintedSeen DEF RowRight
<1>2. QED
  BY <1>1 DEF TextShown

LEMMA TextInvCentered ==
  ASSUME TextInv
  PROVE  Centered
<1>1. SUFFICES ASSUME NEW k \in DOMAIN screen,
                      NEW row, row = screen[k],
                      NEW width, width = Len(AskedLine(machine, page[k])),
                      NEW left, left = IF row.shift = Nothing THEN 0
                                       ELSE row.shift
               PROVE  IF width <= Columns
                        THEN /\ left >= 0
                             /\ 2 * left + width - Columns \in -2 .. 2
                        ELSE row.shift = Nothing
  BY DEF Centered
<1>2. k \in 1 .. 3 /\ RowRight(k, row)
  BY <1>1, RowsRight
<1>3. /\ SuitsText(page[k], print, machine)
      /\ SuitsScreen(page[k], print, machine)
      /\ print.minuend \in {80, 81}
      /\ print.largest \in 79 .. print.minuend
  BY <1>2, LinesSuit DEF TextInv
<1>4. PICK place : place = row.shift
  OBVIOUS
<1>5. Placed(page[k], print, machine, place)
  BY <1>2, <1>4 DEF RowRight
<1>6. left = IF place = Nothing THEN 0 ELSE place
  BY <1>1, <1>4
<1>7. IF width <= Columns
        THEN left >= 0 /\ 2 * left + width - Columns \in -2 .. 2
        ELSE place = Nothing
  BY <1>1, <1>3, <1>5, <1>6, PlacedCentered
<1>8. QED
  BY <1>4, <1>7

LEMMA TextInvEnded ==
  ASSUME TextInv
  PROVE  LinesEnded
<1>1. ASSUME NEW k \in DOMAIN screen, k < Len(page)
      PROVE  screen[k].text # << >> /\ Last(screen[k].text) = "nl"
  <2>1. k \in 1 .. 3 /\ RowRight(k, screen[k])
    BY <1>1, RowsRight
  <2>2. /\ SuitsText(page[k], print, machine)
        /\ k < 3 => SuitsEnd(page[k], print, machine)
        /\ Len(page) = 3
    BY <2>1, LinesSuit DEF TextInv
  <2>3. SuitsEnd(page[k], print, machine)
    BY <1>1, <2>2
  <2>4. QED
    BY <2>1, <2>2, <2>3, PrintedEnded DEF RowRight
<1>2. QED
  BY <1>1 DEF LinesEnded

(***************************************************************************)
(* In every port whose calls suit it, with any machine, out_buffer of any  *)
(* size that has room, and a screen of any width, center_and_print and     *)
(* write_stdout show each line whole, in the middle, and ended.            *)
(***************************************************************************)
LEMMA TextInvAlways ==
  ASSUME JobsSuit
  PROVE  Spec => []TextInv
<1>1. Init => TextInv
  BY InitText
<1>2. TextInv /\ [Next]_vars => TextInv'
  BY NextText
<1>3. QED
  BY <1>1, <1>2, PTL DEF Spec

\* Nothing of the logo or of an earlier line is seen, nothing twice, and no
\* line is cut (write_stdout looks for the NUL in a buffer never cleared).
THEOREM ShowsText ==
  ASSUME JobsSuit
  PROVE  Spec => []TextShown
<1>1. TextInv => TextShown
  BY TextInvShown
<1>2. QED
  BY <1>1, TextInvAlways, PTL

\* The free columns left and right of a line differ by two at most, and a
\* line that is too long is left alone (center_and_print).
THEOREM CentersLines ==
  ASSUME JobsSuit
  PROVE  Spec => []Centered
<1>1. TextInv => Centered
  BY TextInvCentered
<1>2. QED
  BY <1>1, TextInvAlways, PTL

\* A line that another one follows ends with a linefeed, whoever puts it
\* there: the page, center_and_print or write_stdout.
THEOREM EndsLines ==
  ASSUME JobsSuit
  PROVE  Spec => []LinesEnded
<1>1. TextInv => LinesEnded
  BY TextInvEnded
<1>2. QED
  BY <1>1, TextInvAlways, PTL
=============================================================================
